-------------------------------- MODULE Velato --------------------------------
(***************************************************************************)
(* The policy engine of services/velato-engine (engine.py): a program is   *)
(* written instruction by instruction, verified by the static analysis     *)
(* analyze_ir, rendered to MIDI notes and compiled back, and executed by a *)
(* stack machine once per request.                                         *)
(*                                                                         *)
(* Numbers are counted in halves: v stands for the float v/2, so that      *)
(* rounding, truth values and the whole-number tests of the code mean what *)
(* they mean on floats.  A product or a quotient that is not a multiple of *)
(* a half becomes one of the two nearest ones; powers and roots, which a   *)
(* grid of halves cannot hold, return some member of Samples.  A magnitude *)
(* above Limit is a float overflow.  Input registers are named by their    *)
(* position in the tuple INPUTS.                                           *)
(***************************************************************************)
EXTENDS Integers, Sequences

CONSTANTS
    Fragments,        \* instruction sequences a client appends to a program
    UnknownOps,       \* names a client may write that are no operation
    MaxFragments,     \* bound: how many of them make a program
    Requests,         \* the input maps that execution requests carry
    MidiFiles,        \* event sequences of the MIDI files clients upload
    Roots,            \* root notes a client asks the encoder for
    Samples,          \* what a power or a root may come out as
    NumInputs,        \* len(INPUTS)
    MaxLocals,        \* MAX_LOCALS
    MaxInstructions,  \* DEFAULT_MAX_INSTRUCTIONS
    MaxStack,         \* DEFAULT_MAX_STACK
    Limit             \* the largest finite magnitude, in halves

ASSUME VelatoAssumption ==
    /\ NumInputs \in 0..127 /\ MaxLocals \in 1..127 /\ Limit \in Nat
    /\ MaxInstructions \in Nat /\ MaxStack \in Nat /\ MaxFragments \in Nat
    /\ Samples \subseteq Int /\ Roots \subseteq 0..116
    /\ \A r \in Requests : \A k \in DOMAIN r : r[k] \in Int

----------------------------------------------------------------------------
(* The instruction set *)

\* INSTRUCTION_BANKS: the operation a bank (MIDI channel) gives to interval
\* i - 1, the pitch distance from the root note.
INSTRUCTION_BANKS ==
    [b \in 0..3 |->
       CASE b = 0 -> <<"HALT", "PUSH_CONST", "LOAD_INPUT", "ADD", "SUB", "MUL",
                       "GT", "SELECT", "STORE_SCORE", "STORE_SEVERITY",
                       "STORE_ROUTE", "STORE_SUPPRESS">>
         [] b = 1 -> <<"MIN", "MAX", "DIV", "MOD", "NEG", "ABS", "CLAMP",
                       "FLOOR", "CEIL", "ROUND", "POW", "SQRT">>
         [] b = 2 -> <<"EQ", "NE", "LT", "LTE", "GTE", "AND", "OR", "XOR",
                       "NOT", "IS_ZERO", "BETWEEN", "SIGN">>
         [] b = 3 -> <<"DUP", "SWAP", "OVER", "DROP", "LOAD_LOCAL",
                       "STORE_LOCAL", "NOP", "STACK_DEPTH", "LOAD_SCORE",
                       "LOAD_SEVERITY", "LOAD_ROUTE", "LOAD_SUPPRESS">>]

LOCAL_OPS  == {"LOAD_LOCAL", "STORE_LOCAL"}
StoreOps   == {"STORE_SCORE", "STORE_SEVERITY", "STORE_ROUTE", "STORE_SUPPRESS"}
ReadOps    == {"LOAD_SCORE", "LOAD_SEVERITY", "LOAD_ROUTE", "LOAD_SUPPRESS"}
CompareOps == {"GT", "EQ", "NE", "LT", "LTE", "GTE", "AND", "OR", "XOR"}
BinaryOps  == CompareOps \cup {"ADD", "SUB", "MUL", "MIN", "MAX", "DIV", "MOD", "POW"}
UnaryOps   == {"NEG", "ABS", "FLOOR", "CEIL", "ROUND", "SQRT", "NOT", "IS_ZERO", "SIGN"}
TernaryOps == {"CLAMP", "BETWEEN", "SELECT"}

\* OUTPUT_STORE_OPS, and the output each LOAD_ operation reads back.
OUTPUT_STORE_OPS ==
    [op \in StoreOps |->
       CASE op = "STORE_SCORE"    -> "alert_score"
         [] op = "STORE_SEVERITY" -> "severity_code"
         [] op = "STORE_ROUTE"    -> "routing_code"
         [] op = "STORE_SUPPRESS" -> "suppressed"]

OUTPUTS == {"alert_score", "severity_code", "routing_code", "suppressed"}

OutputRead ==
    [op \in ReadOps |->
       CASE op = "LOAD_SCORE"    -> "alert_score"
         [] op = "LOAD_SEVERITY" -> "severity_code"
         [] op = "LOAD_ROUTE"    -> "routing_code"
         [] op = "LOAD_SUPPRESS" -> "suppressed"]

Op == {"HALT", "PUSH_CONST", "LOAD_INPUT", "DUP", "SWAP", "OVER", "DROP", "NOP",
       "STACK_DEPTH"} \cup LOCAL_OPS \cup StoreOps \cup ReadOps
      \cup BinaryOps \cup UnaryOps \cup TernaryOps

\* STACK_EFFECTS: how many values the static analysis takes an operation to
\* pop and to push.
STACK_EFFECTS ==
    [op \in Op |->
       CASE op \in {"HALT", "NOP"} -> <<0, 0>>
         [] op \in {"PUSH_CONST", "LOAD_INPUT", "LOAD_LOCAL", "STACK_DEPTH",
                    "LOAD_SCORE", "LOAD_SEVERITY", "LOAD_ROUTE",
                    "LOAD_SUPPRESS"} -> <<0, 1>>
         [] op \in {"NEG", "ABS", "FLOOR", "CEIL", "ROUND", "SQRT", "NOT",
                    "IS_ZERO", "SIGN"} -> <<1, 1>>
         [] op \in {"STORE_SCORE", "STORE_SEVERITY", "STORE_ROUTE",
                    "STORE_SUPPRESS", "DROP", "STORE_LOCAL"} -> <<1, 0>>
         [] op = "DUP" -> <<1, 2>>
         [] op \in {"ADD", "SUB", "MUL", "GT", "MIN", "MAX", "DIV", "MOD", "POW",
                    "EQ", "NE", "LT", "LTE", "GTE", "AND", "OR", "XOR"} -> <<2, 1>>
         [] op = "SWAP" -> <<2, 2>>
         [] op = "OVER" -> <<2, 3>>
         [] op \in {"SELECT", "CLAMP", "BETWEEN"} -> <<3, 1>>]

\* An instruction's operand is absent, a number, or the name of an input; its
\* operation is what the client wrote.
Instruction ==
    {ins \in [op : Op \cup UnknownOps, kind : {"none", "number", "name"}, arg : Int] :
       ins.kind = "none" => ins.arg = 0}

ASSUME FragmentsAssumption == Fragments \subseteq Seq(Instruction)

Plain(op)     == [op |-> op, kind |-> "none", arg |-> 0]
Const(v)      == [op |-> "PUSH_CONST", kind |-> "number", arg |-> v]
Input(k)      == [op |-> "LOAD_INPUT", kind |-> "name", arg |-> k]
Local(op, r)  == [op |-> op, kind |-> "number", arg |-> 2 * r]

Whole(v) == v % 2 = 0
Finite(v) == -Limit <= v /\ v <= Limit

\* _validate_instruction: the operand an operation accepts.
ValidInstruction(ins) ==
    CASE ins.op = "PUSH_CONST" -> ins.kind = "number" /\ Finite(ins.arg)
      [] ins.op = "LOAD_INPUT" -> ins.kind = "name" /\ ins.arg \in 0..(NumInputs - 1)
      [] ins.op \in LOCAL_OPS  -> /\ ins.kind = "number" /\ Whole(ins.arg)
                                  /\ ins.arg \div 2 \in 0..(MaxLocals - 1)
      [] OTHER -> ins.kind = "none"

\* default_policy_ir: the conventional policy the worker falls back to.
\* Inputs 7, 3, 4 and 9 are watchlist_match, novelty, entity_relevance and
\* source_diversity.
DefaultPolicy ==
    LET term(k, weight) == <<Input(k), Const(2 * weight), Plain("MUL")>>
        set(v, op)      == <<Const(2 * v), Plain(op)>>
    IN  term(7, 40) \o term(3, 25) \o <<Plain("ADD")>> \o term(4, 20)
        \o <<Plain("ADD")>> \o term(9, 15) \o <<Plain("ADD"), Plain("STORE_SCORE")>>
        \o set(2, "STORE_SEVERITY") \o set(1, "STORE_ROUTE")
        \o set(0, "STORE_SUPPRESS") \o <<Plain("HALT")>>

\* The limits of the code leave room for it.
ASSUME FallbackAssumption ==
    NumInputs >= 10 /\ Limit >= 80 /\ MaxStack >= 3 /\ MaxInstructions >= 23

----------------------------------------------------------------------------
(* MIDI: the first note is the root, the others are instructions. *)

\* The note_on events of a MIDI file, and MidiNote, of those that parse_midi keeps.
MidiEvent == [note : 0..127, velocity : 0..127, channel : 0..15]
MidiNote == [note : 0..127, velocity : 1..127, channel : 0..15]

ASSUME MidiAssumption == MidiFiles \subseteq Seq(MidiEvent)

\* _encode_velocity, for an operand that can be encoded.
Encodable(ins) ==
    CASE ins.op = "PUSH_CONST" -> ins.kind = "number" /\ Whole(ins.arg)
                                  /\ ins.arg \in 0..252
      [] ins.op = "LOAD_INPUT" -> ins.kind = "name" /\ ins.arg \in 0..(NumInputs - 1)
      [] ins.op \in LOCAL_OPS  -> /\ ins.kind = "number" /\ Whole(ins.arg)
                                  /\ ins.arg \div 2 \in 0..(MaxLocals - 1)
      [] OTHER -> TRUE

\* Mutant: a constant is its own velocity, so that 0 is a release.
encode_velocity_raw(ins) ==
    CASE ins.op = "LOAD_INPUT" -> ins.arg + 1
      [] ins.op \in LOCAL_OPS -> (ins.arg \div 2) + 1
      [] ins.op = "PUSH_CONST" -> ins.arg \div 2
      [] OTHER -> 64

encode_velocity(ins) ==
    CASE ins.op = "LOAD_INPUT" -> ins.arg + 1
      [] ins.op \in LOCAL_OPS \cup {"PUSH_CONST"} -> (ins.arg \div 2) + 1
      [] OTHER -> 64

\* OP_ENCODING: the bank and the interval that stand for an operation.
OP_ENCODING(op) ==
    CHOOSE e \in (0..3) \X (0..11) : INSTRUCTION_BANKS[e[1]][e[2] + 1] = op

\* encode_midi: the root, then one sounding note for each instruction.
encode_midi(code, root) ==
    <<[note |-> root, velocity |-> 64, channel |-> 0]>>
    \o [i \in 1..Len(code) |->
          LET e == OP_ENCODING(code[i].op)
          IN  [note |-> root + e[2], velocity |-> encode_velocity(code[i]),
               channel |-> e[1]]]

\* parse_midi keeps the notes that sound: a note_on of velocity 0 is a release.
parse_midi(events) ==
    LET kept[n \in 0..Len(events)] ==
          IF n = 0 THEN <<>>
          ELSE IF events[n].velocity > 0 THEN Append(kept[n - 1], events[n]) ELSE kept[n - 1]
    IN  kept[Len(events)]

\* _decode_operand and the body of compile_notes' loop: one note's instruction,
\* and the operands that it refuses.
decode(e, root) ==
    LET op      == INSTRUCTION_BANKS[e.channel][((e.note - root) % 12) + 1]
        operand == e.velocity - 1
    IN  CASE op = "PUSH_CONST" -> Const(2 * operand)
          [] op = "LOAD_INPUT" -> Input(operand)
          [] op \in LOCAL_OPS  -> Local(op, operand)
          [] OTHER             -> Plain(op)

decodable(e, root) == e.channel \in 0..3 /\ ValidInstruction(decode(e, root))

\* The part of a sequence up to the first index in S, all of it if there is none.
UpToFirst(seq, S) ==
    IF S = {} THEN seq ELSE SubSeq(seq, 1, CHOOSE i \in S : \A j \in S : i <= j)

\* The notes that compile_notes' loop reaches: HALT breaks it.
LoopNotes(notes) ==
    LET root == notes[1].note
        body == SubSeq(notes, 2, Len(notes))
    IN  UpToFirst(body, {i \in 1..Len(body) : /\ body[i].channel = 0
                                              /\ (body[i].note - root) % 12 = 0})

\* A program that does not end in HALT gets one.
WithHalt(code) ==
    IF code = <<>> \/ code[Len(code)].op # "HALT"
    THEN Append(code, Plain("HALT")) ELSE code

\* compile_notes up to its call of analyze_ir, and the notes it gets that far
\* with: parse_midi wants two of them, and each one the loop reaches must decode.
compile_notes(notes) ==
    LET body == LoopNotes(notes)
    IN  WithHalt([i \in 1..Len(body) |-> decode(body[i], notes[1].note)])

compilable(notes) ==
    /\ notes \in Seq(MidiNote) /\ Len(notes) >= 2
    /\ LET body == LoopNotes(notes)
       IN  \A i \in 1..Len(body) : decodable(body[i], notes[1].note)

----------------------------------------------------------------------------
(* What execute computes: the operands an operation pops, deepest first,    *)
(* and the sequences of values it may push for them; none if it raises.     *)

Bool(b) == IF b THEN 2 ELSE 0

\* round() of Python: halves go to the even neighbour.
Round(v) == LET n == v \div 2 IN IF Whole(v) \/ n % 2 = 0 THEN n ELSE n + 1

Clamped(v, lower, upper) ==
    IF v < lower THEN lower ELSE IF v > upper THEN upper ELSE v

\* The multiples of a half around the real number n / d halves.
Around(n, d) ==
    IF d > 0 THEN {n \div d, -((-n) \div d)} ELSE {(-n) \div (-d), -(n \div (-d))}

Operands(op) ==
    CASE op \in TernaryOps -> 3
      [] op \in BinaryOps \cup {"SWAP", "OVER"} -> 2
      [] op \in UnaryOps \cup StoreOps \cup {"DUP", "DROP", "STORE_LOCAL"} -> 1
      [] OTHER -> 0

Compare(op, a, b) ==
    CASE op = "GT"  -> a > b
      [] op = "EQ"  -> a = b
      [] op = "NE"  -> a # b
      [] op = "LT"  -> a < b
      [] op = "LTE" -> a <= b
      [] op = "GTE" -> a >= b
      [] op = "AND" -> a # 0 /\ b # 0
      [] op = "OR"  -> a # 0 \/ b # 0
      [] op = "XOR" -> (a # 0) # (b # 0)

\* The operations on two numbers; a / b and a % b raise when b is zero, and
\* math.pow raises for 0 to a negative power and for a root of a negative.
Binary(op, a, b) ==
    CASE op \in CompareOps -> {Bool(Compare(op, a, b))}
      [] op = "ADD" -> {a + b}
      [] op = "SUB" -> {a - b}
      [] op = "MUL" -> Around(a * b, 2)
      [] op = "MIN" -> {IF b < a THEN b ELSE a}
      [] op = "MAX" -> {IF b > a THEN b ELSE a}
      [] op = "DIV" -> IF b = 0 THEN {} ELSE Around(2 * a, b)
      [] op = "MOD" -> IF b = 0 THEN {}
                       ELSE IF b > 0 THEN {a % b} ELSE {-((-a) % (-b))}
      [] op = "POW" -> IF (a = 0 /\ b < 0) \/ (a < 0 /\ ~Whole(b)) THEN {}
                       ELSE IF b = 0 THEN {2} ELSE Samples

Unary(op, v) ==
    CASE op = "NEG"     -> {-v}
      [] op = "ABS"     -> {IF v < 0 THEN -v ELSE v}
      [] op = "FLOOR"   -> {2 * (v \div 2)}
      [] op = "CEIL"    -> {2 * ((v + 1) \div 2)}
      [] op = "ROUND"   -> {2 * Round(v)}
      [] op = "SQRT"    -> IF v < 0 THEN {} ELSE {r \in Samples : r >= 0}
      [] op \in {"NOT", "IS_ZERO"} -> {Bool(v = 0)}
      [] op = "SIGN"    -> {IF v < 0 THEN -2 ELSE IF v > 0 THEN 2 ELSE 0}

\* CLAMP and BETWEEN pop upper, lower, value; SELECT pops false, true, condition.
Ternary(op, x, y, z) ==
    CASE op = "SELECT"  -> {IF x # 0 THEN y ELSE z}
      [] op = "CLAMP"   -> IF y > z THEN {} ELSE {Clamped(x, y, z)}
      [] op = "BETWEEN" -> IF y > z THEN {} ELSE {Bool(y <= x /\ x <= z)}

----------------------------------------------------------------------------
(* The state *)

VARIABLES
    phase,    \* what the engine is doing with the program
    ir,       \* the program
    parts,    \* how many fragments it was made of
    engine,   \* execution_engine: the client's program, or the fallback
    midi,     \* the notes the program was rendered to, <<>> for none
    an,       \* the locals of analyze_ir, and the analysis once it returned
    depths,   \* history: the stack depth it found before each instruction
    vm,       \* the locals of execute
    error     \* why the last execution was refused, "none" if it was not

vars == <<phase, ir, parts, engine, midi, an, depths, vm, error>>

\* The locals analyze_ir starts with; require_outputs is PolicyBuilder.build's.
FreshAnalysis(require) ==
    [index |-> 1, depth |-> 0, maxDepth |-> 0, halted |-> FALSE, count |-> 0,
     inputs |-> {}, locals |-> {}, written |-> {}, require |-> require]

\* Before the first instruction the stack is empty.
FreshDepths == << 0 >>

DefaultOutputs ==
    [alert_score |-> 0, severity_code |-> 0, routing_code |-> 0, suppressed |-> 0]

\* The locals execute starts with.
FreshVM(inputs) ==
    [ip |-> 1, stack |-> <<>>, locals |-> [r \in 0..(MaxLocals - 1) |-> 0],
     out |-> DefaultOutputs, maxDepth |-> 0, executed |-> 0,
     inputs |-> inputs]

Init ==
    /\ phase = "writing"
    /\ ir = <<>>
    /\ parts = 0
    /\ engine = "velato"
    /\ midi = <<>>
    /\ an = FreshAnalysis(FALSE)
    /\ depths = FreshDepths
    /\ vm = FreshVM(<<>>)
    /\ error = "none"

----------------------------------------------------------------------------
(* Writing and compiling a program *)

\* PolicyBuilder.emit and extend, a line of assembly, an item of serialized IR.
Extend(f) ==
    /\ phase = "writing" /\ parts < MaxFragments
    /\ ir' = ir \o f
    /\ parts' = parts + 1
    /\ UNCHANGED <<phase, engine, midi, an, depths, vm, error>>

StartAnalysis(next, require) ==
    /\ phase' = next
    /\ an' = FreshAnalysis(require)
    /\ depths' = FreshDepths

\* PolicyBuilder.build and the end of parse_assembly: HALT is appended if the
\* program does not end in it, then the program is analysed.
Build(require) ==
    /\ phase = "writing"
    /\ ir' = WithHalt(ir)
    /\ StartAnalysis("compiling", require)
    /\ UNCHANGED <<parts, engine, midi, vm, error>>

\* deserialize_ir analyses the instructions as they were sent.
Deserialize ==
    /\ phase = "writing"
    /\ StartAnalysis("compiling", FALSE)
    /\ UNCHANGED <<ir, parts, engine, midi, vm, error>>

\* A client uploads a MIDI file, or the worker reads its policy file.
Upload(events) ==
    /\ phase = "writing" /\ parts = 0
    /\ midi' = events
    /\ phase' = "midi"
    /\ UNCHANGED <<ir, parts, engine, an, depths, vm, error>>

\* assemble_program renders a verified program to MIDI (once, in the model).
EncodeMidi(root) ==
    /\ phase = "verified" /\ midi = <<>>
    /\ \A i \in 1..Len(ir) : Encodable(ir[i])
    /\ midi' = encode_midi(ir, root)
    /\ phase' = "midi"
    /\ UNCHANGED <<ir, parts, engine, an, depths, vm, error>>

\* parse_midi and compile_notes.
CompileMidi ==
    /\ phase = "midi"
    /\ LET notes == parse_midi(midi)
       IN  IF compilable(notes)
           THEN ir' = compile_notes(notes) /\ StartAnalysis("compiling", FALSE)
           ELSE phase' = "rejected" /\ UNCHANGED <<ir, an, depths>>
    /\ UNCHANGED <<parts, engine, midi, vm, error>>

\* load_default_policy: a policy file that is missing or does not compile gives
\* way to the conventional policy, which main analyses.
Fallback ==
    /\ engine = "velato" /\ parts = 0
    /\ \/ phase = "writing"
       \/ phase = "rejected" /\ midi # <<>>
    /\ ir' = DefaultPolicy
    /\ engine' = "fallback-rules"
    /\ StartAnalysis("compiling", FALSE)
    /\ UNCHANGED <<parts, midi, vm, error>>

\* A client whose program was refused starts over.
Discard ==
    /\ phase = "rejected"
    /\ phase' = "writing"
    /\ ir' = <<>> /\ parts' = 0 /\ midi' = <<>>
    /\ engine' = "velato"
    /\ an' = FreshAnalysis(FALSE) /\ depths' = FreshDepths
    /\ UNCHANGED <<vm, error>>

----------------------------------------------------------------------------
(* analyze_ir, one iteration of its loop at a time *)

Analyzing == phase \in {"compiling", "checking"}

Larger(a, b) == IF a >= b THEN a ELSE b

\* The checks before the loop: every operation has a name of the dialect (the
\* readers of assembly and of serialized IR refuse another), len(ir) is in bounds.
WellFormed ==
    /\ \A i \in 1..Len(ir) : ir[i].op \in Op
    /\ ir # <<>> /\ Len(ir) <= MaxInstructions

\* Mutant: the loop goes on after HALT.
ScannedToTheEnd == an.index > Len(ir)

\* The loop is over; after HALT it only adds warnings.
Scanned == an.halted \/ an.index > Len(ir)

\* Mutant: every operation is taken to push one value.
NextDepthOnePush == an.depth - STACK_EFFECTS[ir[an.index].op][1] + 1

\* The depth after the instruction under the loop.
NextDepth == LET e == STACK_EFFECTS[ir[an.index].op] IN an.depth - e[1] + e[2]

\* Mutant: the analysis does not look for underflow.
InstructionOKNoUnderflow ==
    /\ ValidInstruction(ir[an.index])
    /\ Larger(an.maxDepth, NextDepth) <= MaxStack

InstructionOK ==
    /\ ValidInstruction(ir[an.index])
    /\ an.depth >= STACK_EFFECTS[ir[an.index].op][1]
    /\ Larger(an.maxDepth, NextDepth) <= MaxStack

AnalyzeInstruction ==
    /\ Analyzing /\ WellFormed /\ ~Scanned /\ InstructionOK
    /\ LET ins == ir[an.index]
       IN  an' = [an EXCEPT
                    !.index = @ + 1,
                    !.count = @ + 1,
                    !.depth = NextDepth,
                    !.maxDepth = Larger(@, NextDepth),
                    !.halted = (ins.op = "HALT"),
                    !.inputs = IF ins.op = "LOAD_INPUT" THEN @ \cup {ins.arg} ELSE @,
                    !.locals = IF ins.op \in LOCAL_OPS
                               THEN @ \cup {ins.arg \div 2} ELSE @,
                    !.written = IF ins.op \in StoreOps
                                THEN @ \cup {OUTPUT_STORE_OPS[ins.op]} ELSE @]
    /\ depths' = Append(depths, NextDepth)
    /\ UNCHANGED <<phase, ir, parts, engine, midi, vm, error>>

\* Every raise of the analysis, and build's demand that all outputs are written.
AnalyzeReject ==
    /\ Analyzing
    /\ \/ ~WellFormed
       \/ WellFormed /\ ~Scanned /\ ~InstructionOK
       \/ WellFormed /\ Scanned /\ an.require /\ OUTPUTS \ an.written # {}
    /\ \/ phase = "compiling" /\ phase' = "rejected" /\ error' = error
       \/ phase = "checking" /\ phase' = "failed" /\ error' = "analysis"
    /\ UNCHANGED <<ir, parts, engine, midi, an, depths, vm>>

Analyzed == WellFormed /\ Scanned /\ ~(an.require /\ OUTPUTS \ an.written # {})

Verify ==
    /\ phase = "compiling" /\ Analyzed
    /\ phase' = "verified"
    /\ UNCHANGED <<ir, parts, engine, midi, an, depths, vm, error>>

----------------------------------------------------------------------------
(* execute: it analyses the program, normalises the inputs and runs *)

Execute(inputs) ==
    /\ phase \in {"verified", "done", "failed"}
    /\ StartAnalysis("checking", FALSE)
    /\ vm' = FreshVM(inputs)
    /\ error' = "none"
    /\ UNCHANGED <<ir, parts, engine, midi>>

\* Every input must be there and be finite.
StartRun ==
    /\ phase = "checking" /\ Analyzed
    /\ IF \A k \in 0..(NumInputs - 1) :
            k \in DOMAIN vm.inputs /\ Finite(vm.inputs[k])
       THEN phase' = "running" /\ error' = error
       ELSE phase' = "failed" /\ error' = "inputs"
    /\ UNCHANGED <<ir, parts, engine, midi, an, depths, vm>>

\* The values an instruction pops, deepest first, and what is left below.
Popped(ins) == SubSeq(vm.stack, Len(vm.stack) - Operands(ins.op) + 1, Len(vm.stack))
Below(ins)  == SubSeq(vm.stack, 1, Len(vm.stack) - Operands(ins.op))

\* The values it may push, in order; no alternative when it raises.
Pushed(ins) ==
    LET op == ins.op
        p  == Popped(ins)
    IN  CASE op = "PUSH_CONST"    -> {<<ins.arg>>}
          [] op = "LOAD_INPUT"    -> {<<vm.inputs[ins.arg]>>}
          [] op = "LOAD_LOCAL"    -> {<<vm.locals[ins.arg \div 2]>>}
          [] op = "STACK_DEPTH"   -> {<<2 * Len(vm.stack)>>}
          [] op \in ReadOps       -> {<<2 * vm.out[OutputRead[op]]>>}
          [] op \in BinaryOps     -> {<<r>> : r \in Binary(op, p[1], p[2])}
          [] op \in UnaryOps      -> {<<r>> : r \in Unary(op, p[1])}
          [] op \in TernaryOps    -> {<<r>> : r \in Ternary(op, p[1], p[2], p[3])}
          [] op = "DUP"           -> {<<p[1], p[1]>>}
          [] op = "SWAP"          -> {<<p[2], p[1]>>}
          [] op = "OVER"          -> {<<p[1], p[2], p[1]>>}
          [] OTHER                -> {<<>>}

AllFinite(values) == \A i \in 1..Len(values) : Finite(values[i])

\* Mutant: outputs are rounded and not clamped.
StoredUnclamped(name, v) ==
    IF name = "suppressed" THEN (IF v # 0 THEN 1 ELSE 0) ELSE Round(v)

\* What an output register holds after its store: rounded and clamped.
Stored(name, v) ==
    CASE name = "alert_score"   -> Clamped(Round(v), 0, 100)
      [] name = "severity_code" -> Clamped(Round(v), 0, 9)
      [] name = "routing_code"  -> Clamped(Round(v), 0, 255)
      [] name = "suppressed"    -> IF v # 0 THEN 1 ELSE 0

Running == phase = "running" /\ vm.ip <= Len(ir)

\* One iteration of execute's loop: the branch of the operation, the stack
\* limit, the deepest stack and the trace.
Step ==
    /\ Running /\ ir[vm.ip].op # "HALT"
    /\ vm.ip <= MaxInstructions
    /\ Len(vm.stack) >= Operands(ir[vm.ip].op)
    /\ LET ins == ir[vm.ip]
       IN  \E new \in Pushed(ins) :
             /\ AllFinite(new)
             /\ Len(Below(ins)) + Len(new) <= MaxStack
             /\ vm' = [vm EXCEPT
                         !.ip = @ + 1,
                         !.executed = @ + 1,
                         !.stack = Below(ins) \o new,
                         !.maxDepth = Larger(@, Len(Below(ins)) + Len(new)),
                         !.locals = IF ins.op = "STORE_LOCAL"
                                    THEN [@ EXCEPT ![ins.arg \div 2] = Popped(ins)[1]]
                                    ELSE @,
                         !.out = IF ins.op \in StoreOps
                                 THEN LET name == OUTPUT_STORE_OPS[ins.op]
                                      IN  [@ EXCEPT ![name] = Stored(name, Popped(ins)[1])]
                                 ELSE @]
    /\ UNCHANGED <<phase, ir, parts, engine, midi, an, depths, error>>

\* Why an iteration may raise.
Raises(ins) ==
    IF vm.ip > MaxInstructions THEN {"instruction limit"}
    ELSE IF Len(vm.stack) < Operands(ins.op) THEN {"underflow"}
    ELSE {e \in {"domain", "non-finite", "stack limit"} :
            CASE e = "domain"      -> Pushed(ins) = {}
              [] e = "non-finite"  -> \E new \in Pushed(ins) : ~AllFinite(new)
              [] e = "stack limit" -> \E new \in Pushed(ins) :
                                         /\ AllFinite(new)
                                         /\ Len(Below(ins)) + Len(new) > MaxStack}

Raise ==
    /\ Running /\ ir[vm.ip].op # "HALT"
    /\ error' \in Raises(ir[vm.ip])
    /\ phase' = "failed"
    /\ UNCHANGED <<ir, parts, engine, midi, an, depths, vm>>

\* HALT is traced and ends the loop, as does the end of the program.
Halt ==
    /\ Running /\ ir[vm.ip].op = "HALT"
    /\ vm' = [vm EXCEPT !.executed = @ + 1]
    /\ phase' = "done"
    /\ UNCHANGED <<ir, parts, engine, midi, an, depths, error>>

EndOfProgram ==
    /\ phase = "running" /\ vm.ip > Len(ir)
    /\ phase' = "done"
    /\ UNCHANGED <<ir, parts, engine, midi, an, depths, vm, error>>

----------------------------------------------------------------------------
Client ==
    \/ \E f \in Fragments : Extend(f)
    \/ \E require \in BOOLEAN : Build(require)
    \/ Deserialize
    \/ \E events \in MidiFiles : Upload(events)
    \/ \E root \in Roots : EncodeMidi(root)
    \/ \E inputs \in Requests : Execute(inputs)

\* What the engine does by itself once called.
Engine ==
    \/ CompileMidi
    \/ AnalyzeInstruction
    \/ AnalyzeReject
    \/ Verify
    \/ StartRun
    \/ Step
    \/ Raise
    \/ Halt
    \/ EndOfProgram

Next == Client \/ Engine \/ Fallback \/ Discard

Spec == Init /\ [][Next]_vars

----------------------------------------------------------------------------
(* Properties *)

Analysis ==
    [index : Nat \ {0}, depth : Nat, maxDepth : Nat, halted : BOOLEAN, count : Nat,
     inputs : SUBSET Nat, locals : SUBSET (0..(MaxLocals - 1)),
     written : SUBSET OUTPUTS, require : BOOLEAN]

Machine ==
    [ip : Nat \ {0}, stack : Seq(Int), locals : [0..(MaxLocals - 1) -> Int],
     out : [alert_score : 0..100, severity_code : 0..9, routing_code : 0..255,
            suppressed : 0..1],
     maxDepth : Nat, executed : Nat, inputs : Requests \cup {<<>>}]

\* The types of the engine's state.  The output registers keep to the ranges
\* that PolicyResult declares for its fields, whatever a program stores.
TypeOK ==
    /\ phase \in {"writing", "midi", "compiling", "rejected", "verified",
                  "checking", "running", "done", "failed"}
    /\ ir \in Seq(Instruction)
    /\ parts \in 0..MaxFragments
    /\ engine \in {"velato", "fallback-rules"}
    /\ midi \in Seq(MidiEvent)
    /\ an \in Analysis
    /\ depths \in Seq(Nat)
    /\ vm \in Machine
    /\ error \in {"none", "analysis", "inputs", "instruction limit", "underflow",
                  "domain", "non-finite", "stack limit"}

\* A program that compiled is never stopped for its shape: execute's own
\* analysis accepts it again, and its run meets neither an empty stack, nor the
\* stack limit, nor the instruction limit.  What may still stop it depends on
\* the numbers.  The runtime checks of pop and of the loop are never needed.
VerifiedRunsSafely ==
    error \notin {"analysis", "underflow", "stack limit", "instruction limit"}

\* At every instruction of a run the stack is exactly as deep as the static
\* analysis found it to be there: STACK_EFFECTS describes what the branches of
\* execute do, for each operation.
DepthAsAnalyzed ==
    phase = "running" =>
      /\ vm.ip \in 1..Len(depths)
      /\ Len(vm.stack) = depths[vm.ip]
      /\ depths[vm.ip] <= an.maxDepth

\* The instructions that a run has executed.
Executed == {ir[i] : i \in 1..vm.executed}

\* What the analysis reports of a program is what a completed run of it did:
\* the instructions executed, the deepest stack (so that PolicyResult's max of
\* the two is both), the depth left, the inputs and local registers used, and
\* the outputs written, the other outputs keeping their defaults.  It accepts the
\* policy the worker falls back to: load_default_policy does not catch what an
\* analysis of that one would raise.
AnalysisIsExact ==
    /\ phase = "done" =>
         /\ vm.executed = an.count
         /\ vm.maxDepth = an.maxDepth
         /\ Len(vm.stack) = an.depth
         /\ an.inputs = {i.arg : i \in {j \in Executed : j.op = "LOAD_INPUT"}}
         /\ an.locals = {i.arg \div 2 : i \in {j \in Executed : j.op \in LOCAL_OPS}}
         /\ an.written = {OUTPUT_STORE_OPS[i.op] :
                            i \in {j \in Executed : j.op \in StoreOps}}
         /\ \A name \in OUTPUTS \ an.written : vm.out[name] = 0
    /\ engine = "fallback-rules" => phase # "rejected"

\* The instructions up to the first HALT, the ones an execution can reach.
UpToHalt(code) == UpToFirst(code, {i \in 1..Len(code) : code[i].op = "HALT"})

\* Rendering a verified program to MIDI and compiling the notes gives back the
\* instructions up to its first HALT, whatever the root note, and is never
\* refused: parse_midi drops none of the notes encode_midi writes.
MidiRoundTrip ==
    [][ (phase = "midi" /\ ir # <<>> /\ phase' # "midi") =>
          /\ phase' = "compiling"
          /\ ir' = WithHalt(UpToHalt(ir)) ]_vars
===============================================================================
