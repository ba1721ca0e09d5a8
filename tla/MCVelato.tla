------------------------------- MODULE MCVelato -------------------------------
(***************************************************************************)
(* A small instance of Velato and VelatoPolicies.  A program is one that a *)
(* caller makes with the macros, or one or two blocks of a single          *)
(* instruction of any kind, of some operands, of invalid instructions, or  *)
(* too long.                                                               *)
(***************************************************************************)
EXTENDS VelatoPolicies

MCUnknownOps == {"JUMP"}

Singles ==
    {<<Plain(op)>> : op \in Op \ ({"PUSH_CONST", "LOAD_INPUT"} \cup LOCAL_OPS)}
Loads ==
    {<<Const(0)>>, <<Const(3)>>, <<Input(1)>>,
     <<Local("LOAD_LOCAL", 1)>>, <<Local("STORE_LOCAL", 1)>>}
Invalid ==
    {<<Input(NumInputs)>>, <<Local("LOAD_LOCAL", MaxLocals)>>,
     <<Plain("JUMP")>>, <<[op |-> "ADD", kind |-> "number", arg |-> 2]>>}
Operand3 == {<<Const(-3), Const(1), Const(4)>>, <<Const(400), Input(2), Const(600)>>,
             <<Const(0), Const(252), Input(9)>>}
Locals == {<<Local("STORE_LOCAL", 0), Local("LOAD_LOCAL", 1)>>,
           <<Plain("DUP"), Local("STORE_LOCAL", 1), Local("LOAD_LOCAL", 1)>>}
Long == {[i \in 1..(MaxInstructions + 1) |-> Plain("NOP")]}

Blocks == Singles \cup Loads \cup Invalid \cup Operand3 \cup Locals \cup Long
MCFragments == Blocks \cup {f \o g : f, g \in Blocks} \cup Policies

\* Scores, term lists and conditions that callers of the macros use.
MCScores == {0, 79, 80, 81, 129, 130, 169, 170, 200}

MCTermLists == {<<<<1, 2>>>>, <<<<1, 6>>, <<2, 2>>>>, <<<<1, 6>>, <<2, -2>>>>}

MCConditionLists ==
    LET c1 == <<"at_least", 1, 80, 80>>
        c2 == <<"at_most", 2, 0, 40>>
        c3 == <<"between", 1, 80, 130>>
    IN  {<<>>, <<c1>>, <<c1, c2>>, <<c1, c2, c3>>, <<c2, c3>>}

\* Requests with inputs around every threshold, one with an infinite input and one
\* with too few.
Both(x, y) == [k \in 0..(NumInputs - 1) |->
                 IF k = 1 THEN x ELSE IF k = 2 THEN y ELSE 1]
MCRequests ==
    {Both(x, x) : x \in {1, 30, 80, 83, 130, 170, 199}}
    \cup {Both(x, y) : x \in {29, 40, 79, 120, 160}, y \in {40, 41}}
    \cup {Both(173, 0), Both(Limit + 1, 0), [k \in 1..2 |-> 1]}

note(n, v, c) == [note |-> n, velocity |-> v, channel |-> c]
MCMidiFiles ==
    { <<note(60, 64, 0)>>,
      <<note(60, 64, 0), note(61, 0, 0), note(73, 5, 0), note(56, 9, 0)>>,
      <<note(60, 64, 0), note(61, 5, 9)>>,
      <<note(60, 64, 0), note(62, 99, 0)>>,
      <<note(60, 64, 0), note(72, 64, 0), note(61, 5, 9)>> }
MCRoots == {0, 116}
MCSamples == {-1, 0, 3, Limit + 1}
===============================================================================
