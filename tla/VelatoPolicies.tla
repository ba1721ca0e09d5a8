---------------------------- MODULE VelatoPolicies ----------------------------
(***************************************************************************)
(* The macro layer of services/velato-engine (standard_library.py): each   *)
(* macro is the sequence of instructions it emits, with the numbers of     *)
(* Velato (halves).  The programs built from them go through the builder,  *)
(* the analysis and the machine of Velato; the properties compare what     *)
(* comes out with what the macro is for.                                   *)
(***************************************************************************)
EXTENDS Velato

CONSTANTS
    Scores,          \* scores that a caller has banded
    TermLists,       \* weighted inputs: sequences of <<input, weight>>
    ScoreScale,      \* score_scale
    SuppressBelow,   \* suppress_below
    DefaultRoute,    \* default_route, a whole number
    ConditionLists   \* sequences of conditions <<kind, input, lower, upper>>

ASSUME PolicyAssumption ==
    /\ ScoreScale \in Int /\ ScoreScale > 0 /\ SuppressBelow \in Int /\ DefaultRoute \in Int
    /\ Scores \subseteq Int
    /\ \A terms \in TermLists : terms \in Seq(Int \X Int) /\ terms # <<>>
    /\ \A conditions \in ConditionLists :
         /\ conditions \in Seq({"at_least", "at_most", "between"} \X Int \X Int \X Int)
         /\ \A i \in DOMAIN conditions : conditions[i][3] <= conditions[i][4]

----------------------------------------------------------------------------
(* The macros *)

\* PolicyBuilder.clamp, for lower <= upper, and normalize, for lower < upper:
\* the value on the stack, from [lower, upper] to [0, 1].
clamp(lower, upper) == <<Const(lower), Const(upper), Plain("CLAMP")>>

normalize(lower, upper) ==
    <<Const(lower), Plain("SUB"), Const(upper - lower), Plain("DIV")>> \o clamp(0, 2)

percentage == <<Const(200), Plain("MUL")>>

\* The loop of the macros over a list of operands: each is emitted, and from the
\* second on op follows, which joins it to the ones before.
Piece(codes, op, i) == codes[i] \o (IF i > 1 THEN <<Plain(op)>> ELSE <<>>)

Joined(codes, op) ==
    LET emitted[n \in 0..Len(codes)] ==
          IF n = 0 THEN <<>> ELSE emitted[n - 1] \o Piece(codes, op, n)
    IN  emitted[Len(codes)]

\* weighted_sum: a product for each term, added up as they come.
product(t) == <<Input(t[1]), Const(t[2]), Plain("MUL")>>

weighted_sum(terms) == Joined([i \in 1..Len(terms) |-> product(terms[i])], "ADD")

TotalWeight(terms) ==
    LET total[n \in 0..Len(terms)] == IF n = 0 THEN 0 ELSE total[n - 1] + terms[n][2]
    IN  total[Len(terms)]

\* weighted_average; a total weight of zero is refused.
weighted_average(terms) ==
    weighted_sum(terms) \o <<Const(TotalWeight(terms)), Plain("DIV")>>

\* input_at_least, input_at_most and input_between.
condition(c) ==
    CASE c[1] = "at_least" -> <<Input(c[2]), Const(c[3]), Plain("GTE")>>
      [] c[1] = "at_most"  -> <<Input(c[2]), Const(c[4]), Plain("LTE")>>
      [] c[1] = "between"  -> <<Input(c[2]), Const(c[3]), Const(c[4]), Plain("BETWEEN")>>

\* all_conditions and any_condition: the conditions joined by op, and the
\* identity of op when there are none.
joined(conditions, op, identity) ==
    IF conditions = <<>> THEN <<Const(identity)>>
    ELSE Joined([i \in 1..Len(conditions) |-> condition(conditions[i])], op)

all_conditions(conditions) == joined(conditions, "AND", 2)
any_condition(conditions)  == joined(conditions, "OR", 0)

\* Mutant: the thresholds are exclusive.
BandExclusive(threshold, difference) ==
    <<Plain("OVER"), Const(threshold), Plain("GT"), Const(difference),
      Plain("MUL"), Plain("ADD")>>

\* One band: OVER the score, and add the difference if it reached the threshold.
Band(threshold, difference) ==
    <<Plain("OVER"), Const(threshold), Plain("GTE"), Const(difference),
      Plain("MUL"), Plain("ADD")>>

\* severity_bands with its defaults: 40, 65, 85 and the codes 1 to 4.
severity_bands ==
    <<Const(2)>> \o Band(80, 2) \o Band(130, 2) \o Band(170, 2)
    \o <<Plain("SWAP"), Plain("DROP")>>

route_when(code, yes, no) ==
    code \o <<Const(yes), Const(no), Plain("SELECT"), Plain("STORE_ROUTE")>>

suppress_when(code) == code \o <<Plain("STORE_SUPPRESS")>>

\* Mutant: the value is not duplicated for the severity, which uses it up.
standard_alert_policy_spent(terms) ==
    weighted_average(terms) \o <<Const(ScoreScale), Plain("MUL")>>
    \o <<Plain("DUP"), Plain("STORE_SCORE")>>
    \o severity_bands \o <<Plain("STORE_SEVERITY")>>
    \o <<Plain("DUP"), Const(SuppressBelow), Plain("LT"), Plain("STORE_SUPPRESS")>>
    \o <<Plain("DROP"), Const(2 * DefaultRoute), Plain("STORE_ROUTE"), Plain("HALT")>>

\* Mutant: a score at the threshold is suppressed as well.
standard_alert_policy_inclusive(terms) ==
    weighted_average(terms) \o <<Const(ScoreScale), Plain("MUL")>>
    \o <<Plain("DUP"), Plain("STORE_SCORE")>>
    \o <<Plain("DUP")>> \o severity_bands \o <<Plain("STORE_SEVERITY")>>
    \o <<Plain("DUP"), Const(SuppressBelow), Plain("LTE"), Plain("STORE_SUPPRESS")>>
    \o <<Plain("DROP"), Const(2 * DefaultRoute), Plain("STORE_ROUTE"), Plain("HALT")>>

\* standard_alert_policy: score, severity, suppression and route from one value.
standard_alert_policy(terms) ==
    weighted_average(terms) \o <<Const(ScoreScale), Plain("MUL")>>
    \o <<Plain("DUP"), Plain("STORE_SCORE")>>
    \o <<Plain("DUP")>> \o severity_bands \o <<Plain("STORE_SEVERITY")>>
    \o <<Plain("DUP"), Const(SuppressBelow), Plain("LT"), Plain("STORE_SUPPRESS")>>
    \o <<Plain("DROP"), Const(2 * DefaultRoute), Plain("STORE_ROUTE"), Plain("HALT")>>

----------------------------------------------------------------------------
(* The programs *)

\* A caller that keeps a value in local register 1 and another on the stack
\* while it has a score banded.
Sentinel == 246
banded(score) ==
    <<Const(Sentinel), Local("STORE_LOCAL", 1), Const(Sentinel), Const(score)>>
    \o severity_bands \o <<Plain("STORE_SEVERITY")>>

\* A policy of two conditions: suppressed when all hold, routed when any does.
conditional(conditions) ==
    suppress_when(all_conditions(conditions))
    \o route_when(any_condition(conditions), 14, 6)

\* A policy that scores an input by its place in a range, here 20 to 60.
ranged == <<Input(1)>> \o normalize(40, 120) \o percentage \o <<Plain("STORE_SCORE")>>

Policies == {standard_alert_policy(terms) : terms \in TermLists}
            \cup {banded(score) : score \in Scores}
            \cup {conditional(conditions) : conditions \in ConditionLists}
            \cup {ranged}

----------------------------------------------------------------------------
(* Properties *)

Completed(code) == phase = "done" /\ ir = WithHalt(code)

\* The severity of a score, as the documentation of severity_bands has it.
SeverityOf(score) ==
    IF score >= 170 THEN 4 ELSE IF score >= 130 THEN 3 ELSE IF score >= 80 THEN 2 ELSE 1

\* What the weighted average of the inputs, scaled, comes out as: the products, the
\* quotient and the scaling are each rounded, and exact where a half can hold them.
WeightedSums(terms) ==
    LET sums[n \in 0..Len(terms)] ==
          IF n = 0 THEN {0}
          ELSE UNION {{s + p : p \in Around(vm.inputs[terms[n][1]] * terms[n][2], 2)} :
                        s \in sums[n - 1]}
    IN  sums[Len(terms)]

ScaledAverages(terms) ==
    UNION {UNION {Around(average * ScoreScale, 2) :
                    average \in Around(2 * sum, TotalWeight(terms))} :
             sum \in WeightedSums(terms)}

\* severity_bands maps a score to the band it lies in, thresholds included, and
\* consumes it; the caller's local register and its stack are as they were.
BandsPreserveCaller ==
    \A score \in Scores : Completed(banded(score)) =>
      /\ vm.out.severity_code = SeverityOf(score)
      /\ vm.stack = <<Sentinel>>
      /\ vm.locals[1] = Sentinel

\* Whether the inputs meet a condition.
Holds(c) ==
    CASE c[1] = "at_least" -> vm.inputs[c[2]] >= c[3]
      [] c[1] = "at_most"  -> vm.inputs[c[2]] <= c[4]
      [] c[1] = "between"  -> vm.inputs[c[2]] \in c[3]..c[4]

\* Joined conditions mean what the connective says, for no condition too, and
\* each leaves one truth value for the store or the selection that follows.
ConditionsMeanWhatTheySay ==
    \A conditions \in ConditionLists : Completed(conditional(conditions)) =>
      /\ vm.out.suppressed = 1 <=> \A i \in DOMAIN conditions : Holds(conditions[i])
      /\ vm.out.routing_code =
           IF \E i \in DOMAIN conditions : Holds(conditions[i]) THEN 7 ELSE 3
      /\ vm.stack = <<>>

\* A normalised input scores 0 up to the lower end of its range, 100 from the
\* upper end on, and half way in the middle.
NormalizeSpansTheRange ==
    Completed(ranged) =>
      /\ vm.inputs[1] <= 40 => vm.out.alert_score = 0
      /\ vm.inputs[1] = 80 => vm.out.alert_score = 50
      /\ vm.inputs[1] >= 120 => vm.out.alert_score = 100

\* The macros mean what their names say: bands, conditions and ranges.
MacrosMeanWhatTheySay ==
    BandsPreserveCaller /\ ConditionsMeanWhatTheySay /\ NormalizeSpansTheRange

\* The four outputs of a standard policy come from the one weighted average: it
\* is rounded into the score only, and severity and suppression see it exactly.
StandardPolicyIsOneValue ==
    \A terms \in TermLists : Completed(standard_alert_policy(terms)) =>
      \E value \in ScaledAverages(terms) :
        /\ vm.out.alert_score = Clamped(Round(value), 0, 100)
        /\ vm.out.severity_code = SeverityOf(value)
        /\ vm.out.suppressed = 1 <=> value < SuppressBelow
        /\ vm.out.routing_code = Clamped(DefaultRoute, 0, 255)
        /\ vm.stack = <<>>

\* No macro's program fails on complete finite inputs.  None is refused, save for
\* an output it does not write, and build(require_outputs=True) accepts every
\* standard policy.
PoliciesRun ==
    ir \in Policies \cup {WithHalt(code) : code \in Policies} =>
      /\ error \in {"none", "inputs"}
      /\ phase = "rejected" =>
           an.require /\ \A terms \in TermLists : ir # standard_alert_policy(terms)
===============================================================================
