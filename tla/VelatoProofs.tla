------------------------------ MODULE VelatoProofs ------------------------------
(***************************************************************************)
(* Proofs about Velato: a program that the static analysis accepts runs    *)
(* within its limits, what the analysis reports is what a run does, the    *)
(* notes of a program are the program, and the policy the worker falls     *)
(* back to is always accepted, for every program, limit and input.         *)
(***************************************************************************)
EXTENDS Velato, TLAPS, SequenceTheorems, WellFoundedInduction

----------------------------------------------------------------------------
(* Lemmas about the operators *)

\* The table and the branches of execute agree on what an operation pops, and
\* the table counts in natural numbers.
LEMMA EffectsTyped ==
    ASSUME NEW op \in Op
    PROVE  /\ STACK_EFFECTS[op][1] \in Nat
           /\ STACK_EFFECTS[op][2] \in Nat
           /\ Operands(op) = STACK_EFFECTS[op][1]
<1> DEFINE two == BinaryOps \cup {"SWAP", "OVER"}
           one == UnaryOps \cup StoreOps \cup {"DUP", "DROP", "STORE_LOCAL"}
<1>0. /\ op \in TernaryOps => op \notin two /\ op \notin one
      /\ op \in two => op \notin TernaryOps /\ op \notin one
      /\ op \in one => op \notin TernaryOps /\ op \notin two
  BY DEF TernaryOps, BinaryOps, CompareOps, UnaryOps, StoreOps
<1>1. CASE op \in {"HALT", "NOP"}
  <2>1. STACK_EFFECTS[op] = <<0, 0>>
    BY <1>1 DEF STACK_EFFECTS
  <2>2. Operands(op) = 0
    <3>1. op \notin TernaryOps /\ op \notin two /\ op \notin one
      BY <1>1 DEF TernaryOps, two, BinaryOps, CompareOps, one, UnaryOps, StoreOps, ReadOps
    <3> QED
      BY <1>0, <3>1 DEF Operands, one, two
  <2> QED
    BY <2>1, <2>2
<1>2. CASE op \in {"PUSH_CONST", "LOAD_INPUT", "STACK_DEPTH", "LOAD_LOCAL"} \cup ReadOps
  <2>1. STACK_EFFECTS[op] = <<0, 1>>
    BY <1>2 DEF STACK_EFFECTS, ReadOps
  <2>2. Operands(op) = 0
    <3>1. op \notin TernaryOps /\ op \notin two /\ op \notin one
      BY <1>2 DEF TernaryOps, two, BinaryOps, CompareOps, one, UnaryOps, StoreOps, ReadOps
    <3> QED
      BY <1>0, <3>1 DEF Operands, one, two
  <2> QED
    BY <2>1, <2>2
<1>3. CASE op \in UnaryOps
  <2>1. STACK_EFFECTS[op] = <<1, 1>>
    BY <1>3 DEF STACK_EFFECTS, UnaryOps
  <2>2. Operands(op) = 1
    <3>1. op \in one
      BY <1>3 DEF one
    <3> QED
      BY <1>0, <3>1 DEF Operands, one, two
  <2> QED
    BY <2>1, <2>2
<1>4. CASE op \in StoreOps \cup {"DROP", "STORE_LOCAL"}
  <2>1. STACK_EFFECTS[op] = <<1, 0>>
    BY <1>4 DEF STACK_EFFECTS, StoreOps
  <2>2. Operands(op) = 1
    <3>1. op \in one
      BY <1>4 DEF one
    <3> QED
      BY <1>0, <3>1 DEF Operands, one, two
  <2> QED
    BY <2>1, <2>2
<1>5. CASE op \in {"DUP"}
  <2>1. STACK_EFFECTS[op] = <<1, 2>>
    BY <1>5 DEF STACK_EFFECTS
  <2>2. Operands(op) = 1
    <3>1. op \in one
      BY <1>5 DEF one
    <3> QED
      BY <1>0, <3>1 DEF Operands, one, two
  <2> QED
    BY <2>1, <2>2
<1>6. CASE op \in BinaryOps
  <2>1. STACK_EFFECTS[op] = <<2, 1>>
    BY <1>6 DEF STACK_EFFECTS, BinaryOps, CompareOps
  <2>2. Operands(op) = 2
    <3>1. op \in two
      BY <1>6 DEF two
    <3> QED
      BY <1>0, <3>1 DEF Operands, one, two
  <2> QED
    BY <2>1, <2>2
<1>7. CASE op \in {"SWAP", "OVER"}
  <2>1. STACK_EFFECTS[op] \in {<<2, 2>>, <<2, 3>>}
    BY <1>7 DEF STACK_EFFECTS
  <2>2. Operands(op) = 2
    <3>1. op \in two
      BY <1>7 DEF two
    <3> QED
      BY <1>0, <3>1 DEF Operands, one, two
  <2> QED
    BY <2>1, <2>2
<1>8. CASE op \in TernaryOps
  <2>1. STACK_EFFECTS[op] = <<3, 1>>
    BY <1>8 DEF STACK_EFFECTS, TernaryOps
  <2>2. Operands(op) = 3
    BY <1>0, <1>8 DEF Operands
  <2> QED
    BY <2>1, <2>2
<1> QED
  BY <1>1, <1>2, <1>3, <1>4, <1>5, <1>6, <1>7, <1>8 DEF Op, LOCAL_OPS

\* A nonempty set of positions has a first one.
LEMMA FirstExists ==
    ASSUME NEW S \in SUBSET Nat, S # {}
    PROVE  \E i \in S : \A j \in S : i <= j
<1> DEFINE Less == {ss \in Nat \X Nat : ss[1] < ss[2]}
<1>1. IsWellFoundedOn(Less, Nat)
  BY NatLessThanWellFounded DEF OpToRel
<1> HIDE DEF Less
<1>2. \E i \in S : \A j \in S : ~(<<j, i>> \in Less)
  BY <1>1, WFMin
<1>3. \A i, j \in Nat : ~(<<j, i>> \in Less) => i <= j
  BY DEF Less
<1> QED  BY <1>2, <1>3

\* A prefix up to a position of the sequence is a sequence.
LEMMA UpToFirstTyped ==
    ASSUME NEW T, NEW seq \in Seq(T), NEW S \in SUBSET (1..Len(seq))
    PROVE  UpToFirst(seq, S) \in Seq(T)
<1>1. CASE S = {}
  BY <1>1 DEF UpToFirst
<1>2. CASE S # {}
  <2>1. \E i \in S : \A j \in S : i <= j
    <3>1. Len(seq) \in Nat /\ S \in SUBSET Nat
      BY LenProperties
    <3> QED  BY <1>2, <3>1, FirstExists
  <2> DEFINE k == CHOOSE i \in S : \A j \in S : i <= j
  <2>2. k \in 1..Len(seq)
    BY <2>1
  <2> HIDE DEF k
  <2>3. SubSeq(seq, 1, k) \in Seq(T)
    BY <2>2
  <2> QED  BY <1>2, <2>3 DEF UpToFirst, k
<1> QED  BY <1>1, <1>2

\* WithHalt, the closing of a program by compile_notes and build, keeps it a
\* sequence of instructions.
LEMMA WithHaltTyped ==
    ASSUME NEW code \in Seq(Instruction)
    PROVE  WithHalt(code) \in Seq(Instruction)
<1>1. Plain("HALT") \in Instruction
  BY DEF Plain, Instruction, Op
<1>2. Append(code, Plain("HALT")) \in Seq(Instruction)
  BY <1>1, AppendProperties
<1> QED  BY <1>2 DEF WithHalt

\* Every entry of INSTRUCTION_BANKS is an operation.
LEMMA BanksTyped ==
    ASSUME NEW b \in 0..3, NEW i \in 1..12
    PROVE  INSTRUCTION_BANKS[b][i] \in Op
<1>1. b = 0 \/ b = 1 \/ b = 2 \/ b = 3
  OBVIOUS
<1>2. i = 1 \/ i = 2 \/ i = 3 \/ i = 4 \/ i = 5 \/ i = 6 \/ i = 7 \/ i = 8
      \/ i = 9 \/ i = 10 \/ i = 11 \/ i = 12
  OBVIOUS
<1> USE DEF INSTRUCTION_BANKS, Op, TernaryOps, BinaryOps, UnaryOps, StoreOps,
            CompareOps, ReadOps, LOCAL_OPS
<1>3. CASE b = 0  BY <1>2, <1>3
<1>4. CASE b = 1  BY <1>2, <1>4
<1>5. CASE b = 2  BY <1>2, <1>5
<1>6. CASE b = 3  BY <1>2, <1>6
<1> QED  BY <1>1, <1>3, <1>4, <1>5, <1>6

\* One note of a MIDI file decodes to an instruction.
LEMMA DecodeTyped ==
    ASSUME NEW e \in MidiNote, e.channel \in 0..3, NEW root \in 0..127
    PROVE  decode(e, root) \in Instruction
<1> DEFINE op == INSTRUCTION_BANKS[e.channel][((e.note - root) % 12) + 1]
<1>1. e.note \in Int /\ e.velocity \in Int /\ ((e.note - root) % 12) + 1 \in 1..12
  BY DEF MidiNote
<1>2. op \in Op
  BY <1>1, BanksTyped
<1>3. "PUSH_CONST" \in Op /\ "LOAD_INPUT" \in Op
  BY DEF Op
<1> HIDE DEF op
<1>4. Const(2 * (e.velocity - 1)) \in Instruction
  BY <1>1, <1>3 DEF Const, Instruction
<1>5. Input(e.velocity - 1) \in Instruction
  BY <1>1, <1>3 DEF Input, Instruction
<1>6. Local(op, e.velocity - 1) \in Instruction
  BY <1>1, <1>2 DEF Local, Instruction
<1>7. Plain(op) \in Instruction
  BY <1>2 DEF Plain, Instruction
<1> QED  BY <1>4, <1>5, <1>6, <1>7 DEF decode, op

\* Notes that compile give a sequence of instructions.
LEMMA CompileTyped ==
    ASSUME NEW notes, compilable(notes)
    PROVE  compile_notes(notes) \in Seq(Instruction)
<1> DEFINE root == notes[1].note
           body == SubSeq(notes, 2, Len(notes))
           S == {i \in 1..Len(body) : /\ body[i].channel = 0
                                      /\ (body[i].note - root) % 12 = 0}
           loop == LoopNotes(notes)
<1>1. notes \in Seq(MidiNote) /\ Len(notes) >= 2
  BY DEF compilable
<1>2. root \in 0..127
  <2>1. notes[1] \in MidiNote
    BY <1>1, ElementOfSeq
  <2> QED  BY <2>1 DEF MidiNote
<1>3. body \in Seq(MidiNote)
  BY <1>1
<1>4. UpToFirst(body, S) \in Seq(MidiNote)
  BY <1>3, UpToFirstTyped
<1>5. loop \in Seq(MidiNote)
  BY <1>4 DEF LoopNotes
<1>6. \A i \in 1..Len(loop) : decodable(loop[i], root)
  BY DEF compilable
<1> HIDE DEF loop, root
<1>7. \A i \in 1..Len(loop) : decode(loop[i], root) \in Instruction
  <2> TAKE i \in 1..Len(loop)
  <2>1. loop[i] \in MidiNote
    BY <1>5, ElementOfSeq
  <2>2. loop[i].channel \in 0..3
    BY <1>6 DEF decodable
  <2> QED  BY <1>2, <2>1, <2>2, DecodeTyped
<1>8. [i \in 1..Len(loop) |-> decode(loop[i], root)] \in Seq(Instruction)
  BY <1>5, <1>7, IsASeq, LenProperties
<1> QED  BY <1>8, WithHaltTyped DEF compile_notes, loop, root

\* The fallback policy default_policy_ir is a sequence of instructions.
LEMMA DefaultPolicyTyped == DefaultPolicy \in Seq(Instruction)
<1>1. \A k \in Int : Input(k) \in Instruction
  BY DEF Input, Instruction, Op
<1>2. \A v \in Int : Const(v) \in Instruction
  BY DEF Const, Instruction, Op
<1>3. \A op \in Op : Plain(op) \in Instruction
  BY DEF Plain, Instruction
<1>4. /\ "MUL" \in Op /\ "ADD" \in Op /\ "HALT" \in Op
      /\ StoreOps \subseteq Op
  BY DEF Op, BinaryOps
<1> DEFINE term(k, weight) == <<Input(k), Const(2 * weight), Plain("MUL")>>
           set(v, op)      == <<Const(2 * v), Plain(op)>>
<1>5. /\ term(7, 40) \in Seq(Instruction) /\ term(3, 25) \in Seq(Instruction)
      /\ term(4, 20) \in Seq(Instruction) /\ term(9, 15) \in Seq(Instruction)
  BY <1>1, <1>2, <1>3, <1>4
<1>6. /\ set(2, "STORE_SEVERITY") \in Seq(Instruction)
      /\ set(1, "STORE_ROUTE") \in Seq(Instruction)
      /\ set(0, "STORE_SUPPRESS") \in Seq(Instruction)
  BY <1>2, <1>3, <1>4 DEF StoreOps
<1>7. /\ <<Plain("ADD")>> \in Seq(Instruction) /\ <<Plain("HALT")>> \in Seq(Instruction)
      /\ <<Plain("ADD"), Plain("STORE_SCORE")>> \in Seq(Instruction)
  BY <1>3, <1>4 DEF StoreOps
<1> HIDE DEF term, set
<1>8. term(7, 40) \o term(3, 25) \o <<Plain("ADD")>> \o term(4, 20)
        \o <<Plain("ADD")>> \o term(9, 15) \o <<Plain("ADD"), Plain("STORE_SCORE")>>
      \in Seq(Instruction)
  <2>1. term(7, 40) \o term(3, 25) \o <<Plain("ADD")>> \o term(4, 20)
        \in Seq(Instruction)
    BY <1>5, <1>7, ConcatProperties
  <2>2. (term(7, 40) \o term(3, 25) \o <<Plain("ADD")>> \o term(4, 20))
          \o <<Plain("ADD")>> \o term(9, 15) \in Seq(Instruction)
    BY <1>5, <1>7, <2>1, ConcatProperties
  <2> QED  BY <1>7, <2>2, ConcatProperties
<1> QED  BY <1>6, <1>7, <1>8, ConcatProperties DEF DefaultPolicy, term, set

----------------------------------------------------------------------------
(* Lemmas about the machine *)

\* The rounding of a product or a quotient to halves gives integers.
LEMMA AroundTyped ==
    ASSUME NEW n \in Int, NEW d \in Int, d # 0
    PROVE  Around(n, d) \subseteq Int
  BY DEF Around

\* The two-operand branches of execute produce numbers.
LEMMA BinaryTyped ==
    ASSUME NEW op \in BinaryOps, NEW a \in Int, NEW b \in Int
    PROVE  Binary(op, a, b) \subseteq Int
<1>1. CASE op \in CompareOps
  <2>1. Bool(Compare(op, a, b)) \in Int
    <3>1. 2 \in Int /\ 0 \in Int
      OBVIOUS
    <3> QED  BY <3>1, Zenon DEF Bool
  <2>2. Binary(op, a, b) = {Bool(Compare(op, a, b))}
    BY <1>1, Zenon DEF Binary, CompareOps
  <2> QED  BY <2>1, <2>2
<1>2. CASE op = "MUL"
  <2>1. a * b \in Int
    OBVIOUS
  <2> QED  BY <1>2, <2>1, AroundTyped DEF Binary, CompareOps
<1>3. CASE op = "DIV"
  BY <1>3, AroundTyped DEF Binary, CompareOps
<1>4. CASE op = "POW"
  BY <1>4, VelatoAssumption DEF Binary, CompareOps
<1>5. CASE op = "MOD"
  BY <1>5 DEF Binary, CompareOps
<1>6. CASE op \in {"ADD", "SUB", "MIN", "MAX"}
  BY <1>6 DEF Binary, CompareOps
<1> QED  BY <1>1, <1>2, <1>3, <1>4, <1>5, <1>6 DEF BinaryOps

\* The one-operand branches of execute produce numbers.
LEMMA UnaryTyped ==
    ASSUME NEW op \in UnaryOps, NEW v \in Int
    PROVE  Unary(op, v) \subseteq Int
  BY VelatoAssumption DEF Unary, UnaryOps, Bool, Round, Whole

\* CLAMP, BETWEEN and SELECT produce numbers.
LEMMA TernaryTyped ==
    ASSUME NEW op \in TernaryOps, NEW x \in Int, NEW y \in Int, NEW z \in Int
    PROVE  Ternary(op, x, y, z) \subseteq Int
  BY DEF Ternary, TernaryOps, Bool, Clamped

\* A store leaves its output register within PolicyResult's range.
LEMMA StoredTyped ==
    ASSUME NEW v \in Int
    PROVE  /\ Stored("alert_score", v) \in 0..100
           /\ Stored("severity_code", v) \in 0..9
           /\ Stored("routing_code", v) \in 0..255
           /\ Stored("suppressed", v) \in 0..1
<1>1. Round(v) \in Int
  BY DEF Round, Whole
<1> QED  BY <1>1 DEF Stored, Clamped

\* What an instruction pops and what it leaves.
LEMMA PoppedTyped ==
    ASSUME vm \in Machine, NEW ins \in Instruction, ins.op \in Op,
           Len(vm.stack) >= Operands(ins.op)
    PROVE  /\ Popped(ins) \in Seq(Int) /\ Len(Popped(ins)) = Operands(ins.op)
           /\ Below(ins) \in Seq(Int)
           /\ Len(Below(ins)) = Len(vm.stack) - Operands(ins.op)
<1>1. vm.stack \in Seq(Int)
  BY DEF Machine
<1>2. Operands(ins.op) \in Nat
  BY EffectsTyped
<1> DEFINE n == Operands(ins.op)
<1>3. n \in Nat /\ n <= Len(vm.stack)
  BY <1>2
<1> HIDE DEF n
<1>4. /\ SubSeq(vm.stack, Len(vm.stack) - n + 1, Len(vm.stack)) \in Seq(Int)
      /\ Len(SubSeq(vm.stack, Len(vm.stack) - n + 1, Len(vm.stack))) = n
  BY <1>1, <1>3
<1>5. /\ SubSeq(vm.stack, 1, Len(vm.stack) - n) \in Seq(Int)
      /\ Len(SubSeq(vm.stack, 1, Len(vm.stack) - n)) = Len(vm.stack) - n
  BY <1>1, <1>3
<1> QED  BY <1>4, <1>5 DEF Popped, Below, n

\* The branches of Pushed, each for the operations it is about.
LEMMA PushedShape ==
    ASSUME NEW ins \in Instruction
    PROVE  /\ ins.op \in BinaryOps => Pushed(ins) =
                {<<r>> : r \in Binary(ins.op, Popped(ins)[1], Popped(ins)[2])}
           /\ ins.op \in UnaryOps => Pushed(ins) =
                {<<r>> : r \in Unary(ins.op, Popped(ins)[1])}
           /\ ins.op \in TernaryOps => Pushed(ins) =
                {<<r>> : r \in Ternary(ins.op, Popped(ins)[1], Popped(ins)[2],
                                       Popped(ins)[3])}
           /\ ins.op \in ReadOps => Pushed(ins) = {<<2 * vm.out[OutputRead[ins.op]]>>}
           /\ ins.op \in StoreOps \cup {"DROP", "NOP", "STORE_LOCAL"} =>
                Pushed(ins) = {<<>>}
<1> USE DEF Pushed, BinaryOps, CompareOps, ReadOps, UnaryOps, TernaryOps, StoreOps
<1>1. ins.op \in BinaryOps => Pushed(ins) =
        {<<r>> : r \in Binary(ins.op, Popped(ins)[1], Popped(ins)[2])}
  BY SMTT(30)
<1>2. ins.op \in UnaryOps => Pushed(ins) = {<<r>> : r \in Unary(ins.op, Popped(ins)[1])}
  BY SMTT(30)
<1>3. ins.op \in TernaryOps => Pushed(ins) =
        {<<r>> : r \in Ternary(ins.op, Popped(ins)[1], Popped(ins)[2], Popped(ins)[3])}
  BY SMTT(30)
<1>4. ins.op \in ReadOps => Pushed(ins) = {<<2 * vm.out[OutputRead[ins.op]]>>}
  BY SMTT(30)
<1>5. ins.op \in StoreOps \cup {"DROP", "NOP", "STORE_LOCAL"} => Pushed(ins) = {<<>>}
  BY SMTT(30)
<1> HIDE DEF Pushed, BinaryOps, CompareOps, ReadOps, UnaryOps, TernaryOps, StoreOps
<1> QED  BY <1>1, <1>2, <1>3, <1>4, <1>5

\* The operations with a computed result push exactly one value.
LEMMA PushedShapeSingles ==
    ASSUME NEW ins \in Instruction
    PROVE  /\ ins.op = "PUSH_CONST" => Pushed(ins) = {<<ins.arg>>}
           /\ ins.op = "LOAD_INPUT" => Pushed(ins) = {<<vm.inputs[ins.arg]>>}
           /\ ins.op = "LOAD_LOCAL" => Pushed(ins) = {<<vm.locals[ins.arg \div 2]>>}
           /\ ins.op = "STACK_DEPTH" => Pushed(ins) = {<<2 * Len(vm.stack)>>}
           /\ ins.op = "DUP" => Pushed(ins) = {<<Popped(ins)[1], Popped(ins)[1]>>}
           /\ ins.op = "SWAP" => Pushed(ins) = {<<Popped(ins)[2], Popped(ins)[1]>>}
           /\ ins.op = "OVER" => Pushed(ins) =
                {<<Popped(ins)[1], Popped(ins)[2], Popped(ins)[1]>>}
<1> USE DEF Pushed, BinaryOps, CompareOps, ReadOps, UnaryOps, TernaryOps
<1>1. ins.op = "PUSH_CONST" => Pushed(ins) = {<<ins.arg>>}
  BY SMTT(30)
<1>2. ins.op = "LOAD_INPUT" => Pushed(ins) = {<<vm.inputs[ins.arg]>>}
  BY SMTT(30)
<1>3. ins.op = "LOAD_LOCAL" => Pushed(ins) = {<<vm.locals[ins.arg \div 2]>>}
  BY SMTT(30)
<1>4. ins.op = "STACK_DEPTH" => Pushed(ins) = {<<2 * Len(vm.stack)>>}
  BY SMTT(30)
<1>5. ins.op = "DUP" => Pushed(ins) = {<<Popped(ins)[1], Popped(ins)[1]>>}
  BY SMTT(30)
<1>6. ins.op = "SWAP" => Pushed(ins) = {<<Popped(ins)[2], Popped(ins)[1]>>}
  BY SMTT(30)
<1>7. ins.op = "OVER" => Pushed(ins) = {<<Popped(ins)[1], Popped(ins)[2], Popped(ins)[1]>>}
  BY SMTT(30)
<1> HIDE DEF Pushed, BinaryOps, CompareOps, ReadOps, UnaryOps, TernaryOps
<1> QED  BY <1>1, <1>2, <1>3, <1>4, <1>5, <1>6, <1>7

\* The rows of STACK_EFFECTS by the branches of execute.
LEMMA PushCounts ==
    ASSUME NEW op \in Op
    PROVE  /\ op \in BinaryOps => STACK_EFFECTS[op] = <<2, 1>>
           /\ op \in UnaryOps => STACK_EFFECTS[op] = <<1, 1>>
           /\ op \in TernaryOps => STACK_EFFECTS[op] = <<3, 1>>
           /\ op \in ReadOps \cup {"PUSH_CONST", "LOAD_INPUT", "LOAD_LOCAL",
                                   "STACK_DEPTH"} => STACK_EFFECTS[op] = <<0, 1>>
           /\ op \in StoreOps \cup {"DROP", "STORE_LOCAL"} => STACK_EFFECTS[op] = <<1, 0>>
           /\ op = "NOP" => STACK_EFFECTS[op] = <<0, 0>>
           /\ op = "DUP" => STACK_EFFECTS[op] = <<1, 2>>
           /\ op = "SWAP" => STACK_EFFECTS[op] = <<2, 2>>
           /\ op = "OVER" => STACK_EFFECTS[op] = <<2, 3>>
<1> USE DEF STACK_EFFECTS, BinaryOps, CompareOps, ReadOps, UnaryOps, TernaryOps, StoreOps
<1>1. op \in BinaryOps => STACK_EFFECTS[op] = <<2, 1>>
  OBVIOUS
<1>2. op \in UnaryOps => STACK_EFFECTS[op] = <<1, 1>>
  OBVIOUS
<1>3. op \in TernaryOps => STACK_EFFECTS[op] = <<3, 1>>
  OBVIOUS
<1>4. op \in ReadOps \cup {"PUSH_CONST", "LOAD_INPUT", "LOAD_LOCAL", "STACK_DEPTH"}
        => STACK_EFFECTS[op] = <<0, 1>>
  OBVIOUS
<1>5. op \in StoreOps \cup {"DROP", "STORE_LOCAL"} => STACK_EFFECTS[op] = <<1, 0>>
  OBVIOUS
<1>6. /\ op = "NOP" => STACK_EFFECTS[op] = <<0, 0>>
      /\ op = "DUP" => STACK_EFFECTS[op] = <<1, 2>>
      /\ op = "SWAP" => STACK_EFFECTS[op] = <<2, 2>>
      /\ op = "OVER" => STACK_EFFECTS[op] = <<2, 3>>
  OBVIOUS
<1> HIDE DEF STACK_EFFECTS, BinaryOps, CompareOps, ReadOps, UnaryOps, TernaryOps, StoreOps
<1> QED  BY <1>1, <1>2, <1>3, <1>4, <1>5, <1>6

\* What vm and an instruction are made of, in one place.
LEMMA MachineFields ==
    ASSUME vm \in Machine
    PROVE  /\ vm.stack \in Seq(Int) /\ Len(vm.stack) \in Nat
           /\ vm.locals \in [0..(MaxLocals - 1) -> Int]
           /\ \A op \in ReadOps : vm.out[OutputRead[op]] \in Int
           /\ \A k \in DOMAIN vm.inputs : vm.inputs[k] \in Int
<1>1. vm.stack \in Seq(Int) /\ Len(vm.stack) \in Nat
  BY LenProperties DEF Machine
<1>2. vm.locals \in [0..(MaxLocals - 1) -> Int]
  BY DEF Machine
<1>3. \A op \in ReadOps : vm.out[OutputRead[op]] \in Int
  <2>1. vm.out \in [alert_score : 0..100, severity_code : 0..9,
                    routing_code : 0..255, suppressed : 0..1]
    BY DEF Machine
  <2>2. /\ vm.out["alert_score"] \in Int /\ vm.out["severity_code"] \in Int
        /\ vm.out["routing_code"] \in Int /\ vm.out["suppressed"] \in Int
    BY <2>1
  <2>3. \A op \in ReadOps : OutputRead[op] \in
          {"alert_score", "severity_code", "routing_code", "suppressed"}
    BY DEF OutputRead, ReadOps
  <2> QED  BY <2>2, <2>3
<1>4. \A k \in DOMAIN vm.inputs : vm.inputs[k] \in Int
  <2>1. vm.inputs \in Requests \/ vm.inputs = <<>>
    BY DEF Machine
  <2>2. DOMAIN <<>> = {}
    OBVIOUS
  <2> QED  BY <2>1, <2>2, VelatoAssumption
<1> QED  BY <1>1, <1>2, <1>3, <1>4

\* An instruction pushes numbers, as many of them as the table says.
LEMMA PushedTyped ==
    ASSUME vm \in Machine, NEW ins \in Instruction, ins.op \in Op \ {"HALT"},
           ValidInstruction(ins), Len(vm.stack) >= Operands(ins.op),
           \A k \in 0..(NumInputs - 1) : k \in DOMAIN vm.inputs,
           NEW new \in Pushed(ins)
    PROVE  new \in Seq(Int) /\ Len(new) = STACK_EFFECTS[ins.op][2]
<1>1. /\ Popped(ins) \in Seq(Int)
      /\ Len(Popped(ins)) = STACK_EFFECTS[ins.op][1]
  BY PoppedTyped, EffectsTyped
<1>2. ins.arg \in Int
  BY DEF Instruction
<1>3. \A i \in 1..STACK_EFFECTS[ins.op][1] : Popped(ins)[i] \in Int
  BY <1>1, ElementOfSeq
<1>4. CASE ins.op \in BinaryOps
  <2>1. PICK r \in Binary(ins.op, Popped(ins)[1], Popped(ins)[2]) : new = <<r>>
    BY <1>4, PushedShape
  <2>2. STACK_EFFECTS[ins.op] = <<2, 1>>
    BY <1>4, PushCounts
  <2>3. r \in Int
    BY <1>3, <1>4, <2>1, <2>2, BinaryTyped
  <2> QED  BY <2>1, <2>2, <2>3
<1>5. CASE ins.op \in UnaryOps
  <2>1. PICK r \in Unary(ins.op, Popped(ins)[1]) : new = <<r>>
    BY <1>5, PushedShape
  <2>2. STACK_EFFECTS[ins.op] = <<1, 1>>
    BY <1>5, PushCounts
  <2>3. r \in Int
    BY <1>3, <1>5, <2>1, <2>2, UnaryTyped
  <2> QED  BY <2>1, <2>2, <2>3
<1>6. CASE ins.op \in TernaryOps
  <2>1. PICK r \in Ternary(ins.op, Popped(ins)[1], Popped(ins)[2], Popped(ins)[3]) :
          new = <<r>>
    BY <1>6, PushedShape
  <2>2. STACK_EFFECTS[ins.op] = <<3, 1>>
    BY <1>6, PushCounts
  <2>3. r \in Int
    BY <1>3, <1>6, <2>1, <2>2, TernaryTyped
  <2> QED  BY <2>1, <2>2, <2>3
<1>7. CASE ins.op \in ReadOps \cup {"PUSH_CONST", "LOAD_INPUT", "LOAD_LOCAL",
                                    "STACK_DEPTH"}
  <2>1. STACK_EFFECTS[ins.op] = <<0, 1>>
    BY <1>7, PushCounts
  <2>2. \E r \in Int : new = <<r>>
    <3>1. CASE ins.op \in ReadOps
      BY <3>1, PushedShape, MachineFields
    <3>2. CASE ins.op = "PUSH_CONST"
      BY <1>2, <3>2, PushedShapeSingles
    <3>3. CASE ins.op = "STACK_DEPTH"
      BY <3>3, PushedShapeSingles, MachineFields
    <3>4. CASE ins.op = "LOAD_LOCAL"
      <4>1. ins.arg \div 2 \in 0..(MaxLocals - 1)
        BY <3>4 DEF ValidInstruction, LOCAL_OPS
      <4>2. new = <<vm.locals[ins.arg \div 2]>>
        BY <3>4, PushedShapeSingles
      <4>3. vm.locals[ins.arg \div 2] \in Int
        BY <4>1, MachineFields
      <4> QED  BY <4>2, <4>3
    <3>5. CASE ins.op = "LOAD_INPUT"
      <4>1. ins.arg \in 0..(NumInputs - 1)
        BY <3>5 DEF ValidInstruction, LOCAL_OPS
      <4>2. new = <<vm.inputs[ins.arg]>>
        BY <3>5, PushedShapeSingles
      <4>3. vm.inputs[ins.arg] \in Int
        BY <4>1, MachineFields
      <4> QED  BY <4>2, <4>3
    <3> QED  BY <1>7, <3>1, <3>2, <3>3, <3>4, <3>5
  <2> QED  BY <2>1, <2>2
<1>8. CASE ins.op = "DUP"
  <2>1. new = <<Popped(ins)[1], Popped(ins)[1]>>
    BY <1>8, PushedShapeSingles
  <2>2. STACK_EFFECTS[ins.op] = <<1, 2>>
    BY <1>8, PushCounts
  <2>3. Popped(ins)[1] \in Int
    BY <1>3, <2>2
  <2> QED  BY <2>1, <2>2, <2>3
<1>9. CASE ins.op = "SWAP"
  <2>1. new = <<Popped(ins)[2], Popped(ins)[1]>>
    BY <1>9, PushedShapeSingles
  <2>2. STACK_EFFECTS[ins.op] = <<2, 2>>
    BY <1>9, PushCounts
  <2>3. Popped(ins)[1] \in Int /\ Popped(ins)[2] \in Int
    BY <1>3, <2>2
  <2> QED  BY <2>1, <2>2, <2>3
<1>10. CASE ins.op = "OVER"
  <2>1. new = <<Popped(ins)[1], Popped(ins)[2], Popped(ins)[1]>>
    BY <1>10, PushedShapeSingles
  <2>2. STACK_EFFECTS[ins.op] = <<2, 3>>
    BY <1>10, PushCounts
  <2>3. Popped(ins)[1] \in Int /\ Popped(ins)[2] \in Int
    BY <1>3, <2>2
  <2> QED  BY <2>1, <2>2, <2>3
<1>11. CASE ins.op \in StoreOps \cup {"DROP", "NOP", "STORE_LOCAL"}
  <2>1. new = <<>>
    BY <1>11, PushedShape
  <2>2. STACK_EFFECTS[ins.op][2] = 0
    BY <1>11, PushCounts
  <2> QED  BY <2>1, <2>2
<1> QED
  BY <1>4, <1>5, <1>6, <1>7, <1>8, <1>9, <1>10, <1>11 DEF Op, LOCAL_OPS

----------------------------------------------------------------------------
(* The inductive invariant *)

\* An instruction that the analysis lets pass, and the depths around it.
Admissible(ins, before, after) ==
    /\ ins.op \in Op /\ ValidInstruction(ins)
    /\ before >= STACK_EFFECTS[ins.op][1]
    /\ after = before - STACK_EFFECTS[ins.op][1] + STACK_EFFECTS[ins.op][2]
    /\ after <= MaxStack

\* d is the stack depth before each of the first n instructions of the program
\* and after the last of them, and each of them is admissible where it stands.
Chain(d, n) ==
    /\ n \in 0..Len(ir) /\ d \in Seq(Nat) /\ Len(d) = n + 1 /\ d[1] = 0
    /\ \A j \in 1..n : Admissible(ir[j], d[j], d[j + 1])

\* n instructions are all that a run can reach.
Reach(n) ==
    /\ \A j \in 1..n : ir[j].op = "HALT" => j = n
    /\ n = Len(ir) \/ (n >= 1 /\ ir[n].op = "HALT")

Typed ==
    ir \in Seq(Instruction) /\ an \in Analysis /\ vm \in Machine

\* What analyze_ir has established so far.
AnalysisInv ==
    /\ an.index = an.count + 1
    /\ Chain(depths, an.count)
    /\ an.depth = depths[an.index]
    /\ \A j \in 1..an.index : depths[j] <= an.maxDepth
    /\ an.maxDepth <= MaxStack
    /\ \A j \in 1..an.count : ir[j].op = "HALT" => j = an.count /\ an.halted
    /\ an.halted => an.count >= 1 /\ ir[an.count].op = "HALT"

\* A compiled program has a chain that covers its reach; while execute analyses
\* it again, the depths found so far are those of the chain.
CertifiedInv ==
    phase \in {"verified", "checking", "running", "done", "failed"} =>
      /\ WellFormed
      /\ \E d \in Seq(Nat), n \in Nat :
           /\ Chain(d, n) /\ Reach(n)
           /\ phase = "checking" =>
                an.count <= n /\ \A j \in 1..an.index : depths[j] = d[j]

\* An execution starts from an empty stack, and its stack is as deep as the
\* analysis found it at the instruction it has come to.
RunInv ==
    /\ phase = "checking" => vm.ip = 1 /\ vm.stack = <<>> /\ ~an.require
    /\ phase = "running" =>
         /\ Scanned
         /\ vm.ip <= an.index /\ (an.halted => vm.ip <= an.count)
         /\ Len(vm.stack) = depths[vm.ip]
         /\ \A k \in 0..(NumInputs - 1) : k \in DOMAIN vm.inputs

Inv == Typed /\ AnalysisInv /\ CertifiedInv /\ RunInv /\ VerifiedRunsSafely

----------------------------------------------------------------------------
\* An analysis that starts has established nothing and assumes nothing.
LEMMA FreshAnalysisInv ==
    ASSUME ir \in Seq(Instruction), NEW require \in BOOLEAN,
           an = FreshAnalysis(require), depths = FreshDepths
    PROVE  an \in Analysis /\ AnalysisInv
<1>1. an \in Analysis
  BY DEF FreshAnalysis, Analysis
<1>2. /\ an.index = 1 /\ an.count = 0 /\ an.depth = 0 /\ an.maxDepth = 0
      /\ an.halted = FALSE
  BY DEF FreshAnalysis
<1>3. depths \in Seq(Nat) /\ Len(depths) = 1 /\ depths[1] = 0
  BY DEF FreshDepths
<1>4. Chain(depths, 0)
  BY <1>3, LenProperties DEF Chain
<1> QED  BY <1>1, <1>2, <1>3, <1>4, VelatoAssumption DEF AnalysisInv

\* The locals execute starts with have their types.
LEMMA FreshVMTyped ==
    ASSUME NEW inputs \in Requests \cup {<<>>}
    PROVE  FreshVM(inputs) \in Machine
<1>1. <<>> \in Seq(Int)
  OBVIOUS
<1>2. DefaultOutputs \in [alert_score : 0..100, severity_code : 0..9,
                          routing_code : 0..255, suppressed : 0..1]
  BY DEF DefaultOutputs
<1>3. [r \in 0..(MaxLocals - 1) |-> 0] \in [0..(MaxLocals - 1) -> Int]
  OBVIOUS
<1> QED  BY <1>1, <1>2, <1>3 DEF FreshVM, Machine

\* The engine starts in the invariant.
LEMMA InitInv == Init => Inv
<1> SUFFICES ASSUME Init PROVE Inv
  OBVIOUS
<1>1. ir \in Seq(Instruction)
  BY DEF Init
<1>2. an \in Analysis /\ AnalysisInv
  BY <1>1, FreshAnalysisInv DEF Init
<1>3. vm \in Machine
  BY FreshVMTyped DEF Init
<1>4. CertifiedInv /\ RunInv /\ VerifiedRunsSafely
  BY DEF Init, CertifiedInv, RunInv, VerifiedRunsSafely
<1> QED  BY <1>1, <1>2, <1>3, <1>4 DEF Inv, Typed

\* The same of the next state, for the actions that start an analysis.
LEMMA StartAnalysisInv ==
    ASSUME ir' \in Seq(Instruction), NEW require \in BOOLEAN,
           an' = FreshAnalysis(require), depths' = FreshDepths
    PROVE  an' \in Analysis /\ AnalysisInv'
<1>1. an' \in Analysis
  BY DEF FreshAnalysis, Analysis
<1>2. /\ an'.index = 1 /\ an'.count = 0 /\ an'.depth = 0 /\ an'.maxDepth = 0
      /\ an'.halted = FALSE
  BY DEF FreshAnalysis
<1>3. depths' \in Seq(Nat) /\ Len(depths') = 1 /\ depths'[1] = 0
  BY DEF FreshDepths
<1>4. Chain(depths, 0)'
  BY <1>3, LenProperties DEF Chain
<1>5. Chain(depths, an.count)'
  BY <1>2, <1>4
<1> QED  BY <1>1, <1>2, <1>3, <1>5, VelatoAssumption DEF AnalysisInv

\* The actions that leave the program and its analysis alone.
LEMMA AnalysisFrame ==
    ASSUME AnalysisInv, UNCHANGED <<ir, an, depths>>
    PROVE  AnalysisInv'
  BY DEF AnalysisInv, Chain

\* The certificate of a verified program outlives a step that keeps the program
\* and its analysis.
LEMMA CertifiedFrame ==
    ASSUME CertifiedInv, UNCHANGED <<ir, an, depths>>,
           phase \in {"verified", "checking", "running", "done", "failed"},
           phase' # "checking"
    PROVE  CertifiedInv'
<1>1. WellFormed'
  BY DEF CertifiedInv, WellFormed
<1>2. PICK d \in Seq(Nat), n \in Nat : Chain(d, n) /\ Reach(n)
  BY DEF CertifiedInv
<1>3. Chain(d, n)' /\ Reach(n)'
  BY <1>2 DEF Chain, Reach
<1> QED  BY <1>1, <1>3 DEF CertifiedInv

\* Writing appends to the program what the analysis has not come to.
LEMMA ExtendInv ==
    ASSUME Inv, NEW f \in Fragments, Extend(f)
    PROVE  Inv'
<1>1. /\ ir' = ir \o f /\ UNCHANGED <<phase, an, depths, vm, error>>
      /\ phase = "writing"
  BY DEF Extend
<1>2. f \in Seq(Instruction) /\ ir \in Seq(Instruction)
  BY FragmentsAssumption DEF Inv, Typed
<1>3. /\ ir' \in Seq(Instruction) /\ Len(ir') = Len(ir) + Len(f)
      /\ \A j \in 1..Len(ir) : ir'[j] = ir[j]
      /\ Len(ir) \in Nat /\ Len(f) \in Nat
  BY <1>1, <1>2, ConcatProperties, LenProperties
<1>4. an.count \in 0..Len(ir) /\ an \in Analysis
  BY DEF Inv, Typed, AnalysisInv, Chain
<1>5. \A j \in 1..an.count : ir'[j] = ir[j]
  BY <1>3, <1>4
<1>6. Chain(depths, an.count)'
  BY <1>1, <1>3, <1>4, <1>5 DEF Inv, AnalysisInv, Chain
<1>7. an.count >= 1 => ir'[an.count] = ir[an.count]
  BY <1>4, <1>5
<1>8. AnalysisInv'
  BY <1>1, <1>5, <1>6, <1>7 DEF Inv, AnalysisInv
<1>9. Typed'
  BY <1>1, <1>3 DEF Inv, Typed
<1>10. CertifiedInv' /\ RunInv' /\ VerifiedRunsSafely'
  BY <1>1 DEF Inv, CertifiedInv, RunInv, VerifiedRunsSafely
<1> QED  BY <1>8, <1>9, <1>10 DEF Inv

\* Compiling starts an analysis of a program that nothing is claimed of yet.
LEMMA CompilingInv ==
    ASSUME Inv, NEW require \in BOOLEAN, StartAnalysis("compiling", require),
           ir' \in Seq(Instruction), UNCHANGED <<vm, error>>
    PROVE  Inv'
<1>1. an' \in Analysis /\ AnalysisInv'
  BY StartAnalysisInv DEF StartAnalysis
<1>2. Typed'
  BY <1>1 DEF Inv, Typed
<1>3. CertifiedInv' /\ RunInv' /\ VerifiedRunsSafely'
  BY DEF StartAnalysis, Inv, CertifiedInv, RunInv, VerifiedRunsSafely
<1> QED  BY <1>1, <1>2, <1>3 DEF Inv

\* One iteration of the analysis extends the chain by one instruction; in
\* execute's analysis it stays on the chain of the compiled program.
LEMMA AnalyzeInstructionInv ==
    ASSUME Inv, AnalyzeInstruction
    PROVE  Inv'
<1> DEFINE ins == ir[an.index]
           e == STACK_EFFECTS[ins.op]
           next == an.depth - e[1] + e[2]
<1>1. /\ Analyzing /\ WellFormed /\ ~an.halted /\ ~(an.index > Len(ir)) /\ InstructionOK
      /\ UNCHANGED <<phase, ir, vm, error>> /\ depths' = Append(depths, next)
  BY DEF AnalyzeInstruction, Scanned, NextDepth
<1>2. /\ ir \in Seq(Instruction) /\ an \in Analysis /\ Len(ir) \in Nat
      /\ an.index \in Nat /\ an.count \in Nat /\ an.index = an.count + 1
      /\ an.depth \in Nat /\ an.maxDepth \in Nat
  BY LenProperties DEF Inv, Typed, Analysis, AnalysisInv
<1>3. an.index \in 1..Len(ir)
  BY <1>1, <1>2
<1>4. ins \in Instruction /\ ins.op \in Op /\ ins.arg \in Int
  <2>1. ins \in Instruction
    BY <1>2, <1>3, ElementOfSeq
  <2>2. ins.op \in Op
    BY <1>1, <1>3 DEF WellFormed
  <2> QED  BY <2>1, <2>2 DEF Instruction
<1>5. e[1] \in Nat /\ e[2] \in Nat
  BY <1>4, EffectsTyped
<1>6. /\ ValidInstruction(ins) /\ an.depth >= e[1]
      /\ Larger(an.maxDepth, next) <= MaxStack
  BY <1>1 DEF InstructionOK, NextDepth
<1>7. /\ depths \in Seq(Nat) /\ Len(depths) = an.index /\ an.depth = depths[an.index]
      /\ depths[1] = 0
  BY <1>2 DEF Inv, AnalysisInv, Chain
<1> HIDE DEF e
<1>8. next \in Nat
  BY <1>2, <1>5, <1>6
<1> HIDE DEF next
<1>9. /\ depths' \in Seq(Nat) /\ Len(depths') = an.index + 1
      /\ depths'[an.index + 1] = next
      /\ \A j \in 1..an.index : depths'[j] = depths[j]
  BY <1>1, <1>2, <1>7, <1>8, AppendProperties
<1>10. /\ an'.index = an.index + 1 /\ an'.count = an.count + 1 /\ an'.depth = next
       /\ an'.maxDepth = Larger(an.maxDepth, next)
       /\ an'.halted = (ins.op = "HALT") /\ an'.require = an.require
       /\ an'.inputs = IF ins.op = "LOAD_INPUT" THEN an.inputs \cup {ins.arg}
                       ELSE an.inputs
       /\ an'.locals = IF ins.op \in LOCAL_OPS THEN an.locals \cup {ins.arg \div 2}
                       ELSE an.locals
       /\ an'.written = IF ins.op \in StoreOps
                        THEN an.written \cup {OUTPUT_STORE_OPS[ins.op]} ELSE an.written
  BY <1>2 DEF AnalyzeInstruction, Analysis, NextDepth, next, e
<1>11. an' \in Analysis
  <2>1. ins.op = "LOAD_INPUT" => ins.arg \in Nat
    BY <1>6, VelatoAssumption DEF ValidInstruction, LOCAL_OPS
  <2>2. ins.op \in LOCAL_OPS => ins.arg \div 2 \in 0..(MaxLocals - 1)
    BY <1>6 DEF ValidInstruction, LOCAL_OPS
  <2>3. ins.op \in StoreOps => OUTPUT_STORE_OPS[ins.op] \in OUTPUTS
    BY DEF OUTPUT_STORE_OPS, StoreOps, OUTPUTS
  <2>4. /\ an.inputs \in SUBSET Nat /\ an.locals \in SUBSET (0..(MaxLocals - 1))
        /\ an.written \in SUBSET OUTPUTS /\ an.require \in BOOLEAN
    BY <1>2 DEF Analysis
  <2>5. /\ an'.inputs \in SUBSET Nat /\ an'.locals \in SUBSET (0..(MaxLocals - 1))
        /\ an'.written \in SUBSET OUTPUTS
    BY <1>10, <2>1, <2>2, <2>3, <2>4
  <2>6. /\ an'.index \in Nat \ {0} /\ an'.count \in Nat /\ an'.depth \in Nat
        /\ an'.maxDepth \in Nat
    BY <1>2, <1>8, <1>10 DEF Larger
  <2>7. an'.halted \in BOOLEAN /\ an'.require \in BOOLEAN
    BY <1>10, <2>4
  <2>8. an' = [index |-> an'.index, depth |-> an'.depth, maxDepth |-> an'.maxDepth,
               halted |-> an'.halted, count |-> an'.count, inputs |-> an'.inputs,
               locals |-> an'.locals, written |-> an'.written, require |-> an'.require]
    BY <1>2 DEF AnalyzeInstruction, Analysis
  <2> QED  BY <2>5, <2>6, <2>7, <2>8 DEF Analysis
<1>12. Admissible(ins, an.depth, next)
  <2>1. next <= MaxStack
    BY <1>2, <1>6, <1>8, VelatoAssumption DEF Larger
  <2> QED  BY <1>4, <1>6, <2>1 DEF Admissible, next, e
<1>13. Chain(depths, an.count)'
  <2>1. \A j \in 1..an.count : Admissible(ir[j], depths[j], depths[j + 1])
    BY DEF Inv, AnalysisInv, Chain
  <2>2. \A j \in 1..an.count : depths'[j] = depths[j] /\ depths'[j + 1] = depths[j + 1]
    <3>1. \A j \in 1..an.count : j \in 1..an.index /\ j + 1 \in 1..an.index
      BY <1>2
    <3> QED
      BY <1>9, <3>1
  <2>3. \A j \in 1..an.count : Admissible(ir[j], depths'[j], depths'[j + 1])
    BY <2>1, <2>2
  <2>4. Admissible(ir[an.index], depths'[an.index], depths'[an.index + 1])
    <3>1. depths'[an.index] = an.depth
      BY <1>3, <1>7, <1>9
    <3> QED  BY <1>9, <1>12, <3>1
  <2>5. \A j \in 1..an'.count : Admissible(ir[j], depths'[j], depths'[j + 1])
    BY <1>2, <1>10, <2>3, <2>4
  <2>6. \A j \in 1..an'.count : Admissible(ir'[j], depths'[j], depths'[j + 1])
    BY <1>1, <2>5
  <2>7. an'.count \in 0..Len(ir') /\ Len(depths') = an'.count + 1 /\ depths'[1] = 0
    BY <1>1, <1>2, <1>3, <1>7, <1>9, <1>10
  <2> QED  BY <1>9, <2>6, <2>7 DEF Chain
<1>14. AnalysisInv'
  <2>1. an'.index = an'.count + 1 /\ an'.depth = depths'[an'.index]
    BY <1>2, <1>9, <1>10
  <2>2. \A j \in 1..an'.index : depths'[j] <= an'.maxDepth
    <3> SUFFICES ASSUME NEW j \in 1..an'.index
                 PROVE  depths'[j] <= an'.maxDepth
      OBVIOUS
    <3>1. CASE j = an.index + 1
      BY <1>2, <1>8, <1>9, <1>10, <3>1 DEF Larger
    <3>2. CASE j \in 1..an.index
      <4>1. depths[j] <= an.maxDepth /\ depths[j] \in Nat /\ depths'[j] = depths[j]
        BY <1>7, <1>9, <3>2, ElementOfSeq DEF Inv, AnalysisInv
      <4> QED  BY <1>2, <1>8, <1>10, <4>1 DEF Larger
    <3> QED  BY <1>2, <1>10, <3>1, <3>2
  <2>3. an'.maxDepth <= MaxStack
    BY <1>6, <1>10
  <2>4. \A j \in 1..an'.count : ir'[j].op = "HALT" => j = an'.count /\ an'.halted
    <3>1. \A j \in 1..an.count : ir[j].op # "HALT"
      BY <1>1 DEF Inv, AnalysisInv
    <3>2. \A j \in 1..(an.count + 1) : j \in 1..an.count \/ j = an.index
      BY <1>2
    <3> QED  BY <1>1, <1>2, <1>10, <3>1, <3>2
  <2>5. an'.halted => an'.count >= 1 /\ ir'[an'.count].op = "HALT"
    <3>1. an'.count = an.index /\ an'.count >= 1
      BY <1>2, <1>10
    <3>2. ir'[an'.count] = ins
      BY <1>1, <3>1
    <3>3. an'.halted => ins.op = "HALT"
      BY <1>10
    <3> QED  BY <3>1, <3>2, <3>3
  <2> QED  BY <1>13, <2>1, <2>2, <2>3, <2>4, <2>5 DEF AnalysisInv
<1>15. CertifiedInv'
  <2>1. CASE phase = "compiling"
    BY <1>1, <2>1 DEF CertifiedInv
  <2>2. CASE phase = "checking"
    <3>1. PICK d \in Seq(Nat), n \in Nat :
            /\ Chain(d, n) /\ Reach(n) /\ an.count <= n
            /\ \A j \in 1..an.index : depths[j] = d[j]
      BY <2>2 DEF Inv, CertifiedInv
    <3>2. an.count # n
      <4> SUFFICES ASSUME an.count = n PROVE FALSE
        OBVIOUS
      <4>1. n # Len(ir)
        BY <1>2, <1>3
      <4>2. n >= 1 /\ ir[n].op = "HALT"
        BY <3>1, <4>1 DEF Reach
      <4>3. \A j \in 1..an.count : ir[j].op = "HALT" => an.halted
        BY DEF Inv, AnalysisInv
      <4>4. n \in 1..an.count
        BY <4>2
      <4> QED  BY <1>1, <1>2, <4>2, <4>3, <4>4
    <3>3. an.index \in 1..n
      BY <1>2, <3>1, <3>2
    <3>4. Admissible(ins, d[an.index], d[an.index + 1])
      BY <3>1, <3>3 DEF Chain
    <3>5. d[an.index] = an.depth
      BY <1>2, <1>7, <3>1
    <3>6. d[an.index + 1] = next
      BY <3>4, <3>5 DEF Admissible, next, e
    <3>7. an'.count <= n /\ \A j \in 1..an'.index : depths'[j] = d[j]
      <4>1. an'.count <= n /\ an'.index = an.index + 1
        BY <1>2, <1>10, <3>3
      <4>2. \A j \in 1..an.index : depths'[j] = d[j]
        BY <1>9, <3>1
      <4>3. depths'[an.index + 1] = d[an.index + 1]
        BY <1>9, <3>6
      <4>4. \A j \in 1..(an.index + 1) : j \in 1..an.index \/ j = an.index + 1
        BY <1>2
      <4> QED  BY <4>1, <4>2, <4>3, <4>4
    <3>8. Chain(d, n)' /\ Reach(n)' /\ WellFormed'
      BY <1>1, <3>1 DEF Chain, Reach, WellFormed
    <3> QED  BY <3>1, <3>7, <3>8 DEF CertifiedInv
  <2> QED  BY <1>1, <2>1, <2>2 DEF Analyzing
<1>16. RunInv' /\ VerifiedRunsSafely'
  BY <1>1, <1>10 DEF Inv, RunInv, VerifiedRunsSafely, Analyzing
<1>17. Typed'
  BY <1>1, <1>11 DEF Inv, Typed
<1> QED  BY <1>14, <1>15, <1>16, <1>17 DEF Inv

\* A compiled program's next instruction passes the analysis once more.
LEMMA OnChain ==
    ASSUME Inv, phase = "checking", ~Scanned
    PROVE  InstructionOK
<1> DEFINE ins == ir[an.index]
<1>1. PICK d \in Seq(Nat), n \in Nat :
        /\ Chain(d, n) /\ Reach(n) /\ an.count <= n
        /\ \A j \in 1..an.index : depths[j] = d[j]
  BY DEF Inv, CertifiedInv
<1>2. /\ an.index \in Nat /\ an.count \in Nat /\ an.index = an.count + 1
      /\ an.depth \in Nat /\ an.maxDepth \in Nat /\ Len(ir) \in Nat
      /\ ~an.halted /\ ~(an.index > Len(ir)) /\ an.maxDepth <= MaxStack
      /\ an.depth = depths[an.index]
  BY LenProperties DEF Inv, Typed, Analysis, AnalysisInv, Scanned
<1>3. an.count # n
  <2> SUFFICES ASSUME an.count = n PROVE FALSE
    OBVIOUS
  <2>1. n # Len(ir)
    BY <1>2
  <2>2. n >= 1 /\ ir[n].op = "HALT"
    BY <1>1, <2>1 DEF Reach
  <2>3. \A j \in 1..an.count : ir[j].op = "HALT" => an.halted
    BY DEF Inv, AnalysisInv
  <2>4. n \in 1..an.count
    BY <2>2
  <2> QED  BY <1>2, <2>2, <2>3, <2>4
<1>4. an.index \in 1..n
  BY <1>1, <1>2, <1>3
<1>5. Admissible(ins, an.depth, d[an.index + 1])
  <2>1. an.depth = d[an.index]
    BY <1>1, <1>2, <1>4
  <2>2. Admissible(ins, d[an.index], d[an.index + 1])
    BY <1>1, <1>4 DEF Chain
  <2> QED  BY <2>1, <2>2
<1>6. d[an.index + 1] = NextDepth /\ NextDepth <= MaxStack
  BY <1>5 DEF Admissible, NextDepth
<1>7. Larger(an.maxDepth, NextDepth) <= MaxStack
  BY <1>2, <1>6 DEF Larger
<1> QED  BY <1>5, <1>7 DEF InstructionOK, Admissible

\* Only a program that is being compiled can be refused.
LEMMA AnalyzeRejectInv ==
    ASSUME Inv, AnalyzeReject
    PROVE  Inv'
<1>1. UNCHANGED <<ir, an, depths, vm>>
  BY DEF AnalyzeReject
<1>2. AnalysisInv' /\ Typed'
  BY <1>1, AnalysisFrame DEF Inv, Typed
<1>3. phase # "checking"
  <2> SUFFICES ASSUME phase = "checking" PROVE FALSE
    OBVIOUS
  <2>1. WellFormed /\ ~an.require
    BY DEF Inv, CertifiedInv, RunInv
  <2>2. ~Scanned /\ ~InstructionOK
    BY <2>1 DEF AnalyzeReject
  <2> QED  BY <2>2, OnChain
<1>4. phase' = "rejected" /\ error' = error
  BY <1>3 DEF AnalyzeReject
<1>5. CertifiedInv' /\ RunInv' /\ VerifiedRunsSafely'
  BY <1>4 DEF Inv, CertifiedInv, RunInv, VerifiedRunsSafely
<1> QED  BY <1>2, <1>5 DEF Inv

\* The analysis of a compiled program is the chain that later runs rely on.
LEMMA VerifyInv ==
    ASSUME Inv, Verify
    PROVE  Inv'
<1>1. UNCHANGED <<ir, an, depths, vm, error>> /\ phase' = "verified"
      /\ WellFormed /\ Scanned
  BY DEF Verify, Analyzed
<1>2. AnalysisInv' /\ Typed'
  BY <1>1, AnalysisFrame DEF Inv, Typed
<1>3. /\ an.index \in Nat /\ an.count \in Nat /\ an.index = an.count + 1
      /\ Len(ir) \in Nat /\ an.count <= Len(ir)
  BY LenProperties DEF Inv, Typed, Analysis, AnalysisInv, Chain
<1>4. Reach(an.count)
  <2>1. \A j \in 1..an.count : ir[j].op = "HALT" => j = an.count
    BY DEF Inv, AnalysisInv
  <2>2. an.count = Len(ir) \/ (an.count >= 1 /\ ir[an.count].op = "HALT")
    <3>1. CASE an.halted
      BY <3>1 DEF Inv, AnalysisInv
    <3>2. CASE an.index > Len(ir)
      BY <1>3, <3>2
    <3> QED  BY <1>1, <3>1, <3>2 DEF Scanned
  <2> QED  BY <2>1, <2>2 DEF Reach
<1>5. Chain(depths, an.count) /\ depths \in Seq(Nat)
  BY DEF Inv, AnalysisInv, Chain
<1>6. \E d \in Seq(Nat), n \in Nat : Chain(d, n) /\ Reach(n)
  BY <1>3, <1>4, <1>5
<1>7. PICK d \in Seq(Nat), n \in Nat : Chain(d, n) /\ Reach(n)
  BY <1>6
<1>8. Chain(d, n)' /\ Reach(n)' /\ WellFormed'
  BY <1>1, <1>7 DEF Chain, Reach, WellFormed
<1>9. CertifiedInv'
  BY <1>1, <1>8 DEF CertifiedInv
<1>10. RunInv' /\ VerifiedRunsSafely'
  BY <1>1 DEF Inv, RunInv, VerifiedRunsSafely
<1> QED  BY <1>2, <1>9, <1>10 DEF Inv

\* A request that calls execute preserves the invariant: the new analysis starts
\* over on a certified program.
LEMMA ExecuteInv ==
    ASSUME Inv, NEW inputs \in Requests, Execute(inputs)
    PROVE  Inv'
<1>1. /\ phase \in {"verified", "done", "failed"} /\ phase' = "checking"
      /\ an' = FreshAnalysis(FALSE) /\ depths' = FreshDepths /\ ir' = ir
      /\ vm' = FreshVM(inputs) /\ error' = "none"
  BY DEF Execute, StartAnalysis
<1>2. ir' \in Seq(Instruction)
  BY <1>1 DEF Inv, Typed
<1>3. an' \in Analysis /\ AnalysisInv'
  BY <1>1, <1>2, StartAnalysisInv
<1>4. vm' \in Machine
  BY <1>1, FreshVMTyped
<1>5. PICK d \in Seq(Nat), n \in Nat : Chain(d, n) /\ Reach(n)
  BY <1>1 DEF Inv, CertifiedInv
<1>6. WellFormed' /\ Chain(d, n)' /\ Reach(n)'
  BY <1>1, <1>5 DEF Inv, CertifiedInv, WellFormed, Chain, Reach
<1>7. an'.count = 0 /\ an'.index = 1 /\ an'.require = FALSE /\ depths'[1] = 0 /\ d[1] = 0
  BY <1>1, <1>5 DEF FreshAnalysis, FreshDepths, Chain
<1>8. an'.count <= n /\ \A j \in 1..an'.index : depths'[j] = d[j]
  BY <1>7
<1>9. CertifiedInv'
  BY <1>6, <1>8 DEF CertifiedInv
<1>10. vm'.ip = 1 /\ vm'.stack = <<>>
  BY <1>1 DEF FreshVM
<1>11. RunInv' /\ VerifiedRunsSafely'
  BY <1>1, <1>7, <1>10 DEF RunInv, VerifiedRunsSafely
<1> QED  BY <1>2, <1>3, <1>4, <1>9, <1>11 DEF Inv, Typed

\* Accepting a request's inputs preserves the invariant: the empty stack is the
\* depth analysed before the first instruction.
LEMMA StartRunInv ==
    ASSUME Inv, StartRun
    PROVE  Inv'
<1>1. /\ UNCHANGED <<ir, an, depths, vm>> /\ phase = "checking" /\ Scanned
      /\ phase' \in {"running", "failed"}
      /\ phase' = "running" => \A k \in 0..(NumInputs - 1) : k \in DOMAIN vm.inputs
      /\ error' \in {error, "inputs"}
  BY DEF StartRun, Analyzed
<1>2. AnalysisInv' /\ Typed'
  BY <1>1, AnalysisFrame DEF Inv, Typed
<1>3. CertifiedInv'
  BY <1>1, CertifiedFrame DEF Inv
<1>4. VerifiedRunsSafely'
  BY <1>1 DEF Inv, VerifiedRunsSafely
<1>5. /\ vm.ip = 1 /\ Len(vm.stack) = 0 /\ depths[1] = 0
      /\ an.index >= 1 /\ (an.halted => an.count >= 1)
  BY <1>1 DEF Inv, RunInv, AnalysisInv, Chain, Typed, Analysis
<1>6. Scanned'
  BY <1>1 DEF Scanned
<1>7. RunInv'
  BY <1>1, <1>5, <1>6 DEF RunInv
<1> QED  BY <1>2, <1>3, <1>4, <1>7 DEF Inv

\* Where a run is: at an instruction that the analysis let pass with the depth
\* the stack has.
LEMMA Here ==
    ASSUME Inv, Running
    PROVE  /\ vm.ip \in 1..an.count /\ vm.ip <= MaxInstructions
           /\ ir[vm.ip] \in Instruction
           /\ Admissible(ir[vm.ip], Len(vm.stack), depths[vm.ip + 1])
           /\ Len(vm.stack) >= Operands(ir[vm.ip].op)
           /\ \A k \in 0..(NumInputs - 1) : k \in DOMAIN vm.inputs
<1>1. /\ an.index \in Nat /\ an.count \in Nat /\ an.index = an.count + 1
      /\ Len(ir) \in Nat /\ vm.ip \in Nat \ {0} /\ ir \in Seq(Instruction)
      /\ vm.ip <= Len(ir)
  BY LenProperties DEF Inv, Typed, Analysis, Machine, AnalysisInv, Running
<1>2. vm.ip \in 1..an.count
  <2>1. an.halted => vm.ip <= an.count
    BY DEF Inv, RunInv, Running
  <2>2. an.index > Len(ir) => vm.ip <= an.count
    BY <1>1
  <2>3. an.halted \/ an.index > Len(ir)
    BY DEF Inv, RunInv, Running, Scanned
  <2> QED  BY <1>1, <2>1, <2>2, <2>3
<1>3. vm.ip <= MaxInstructions
  <2>1. Len(ir) <= MaxInstructions
    BY DEF Inv, CertifiedInv, WellFormed, Running
  <2> QED  BY <1>1, <2>1, VelatoAssumption
<1>4. ir[vm.ip] \in Instruction
  BY <1>1, ElementOfSeq
<1>5. Admissible(ir[vm.ip], depths[vm.ip], depths[vm.ip + 1])
  BY <1>2 DEF Inv, AnalysisInv, Chain
<1>6. /\ Len(vm.stack) = depths[vm.ip]
      /\ \A k \in 0..(NumInputs - 1) : k \in DOMAIN vm.inputs
  BY DEF Inv, RunInv, Running
<1>7. Len(vm.stack) >= Operands(ir[vm.ip].op)
  BY <1>5, <1>6, EffectsTyped DEF Admissible
<1> QED  BY <1>2, <1>3, <1>4, <1>5, <1>6, <1>7

\* The values left and pushed are as many as the analysis counted.
LEMMA NewDepth ==
    ASSUME Inv, Running, ir[vm.ip].op # "HALT", NEW new \in Pushed(ir[vm.ip])
    PROVE  /\ Below(ir[vm.ip]) \in Seq(Int) /\ new \in Seq(Int)
           /\ Len(Below(ir[vm.ip])) \in Nat /\ Len(new) \in Nat
           /\ Len(Below(ir[vm.ip])) + Len(new) = depths[vm.ip + 1]
           /\ depths[vm.ip + 1] <= MaxStack
           /\ Operands(ir[vm.ip].op) >= 1 => Popped(ir[vm.ip])[1] \in Int
<1> DEFINE ins == ir[vm.ip]
<1>1. /\ ins \in Instruction /\ Admissible(ins, Len(vm.stack), depths[vm.ip + 1])
      /\ Len(vm.stack) >= Operands(ins.op)
      /\ \A k \in 0..(NumInputs - 1) : k \in DOMAIN vm.inputs
      /\ vm \in Machine
  BY Here DEF Inv, Typed
<1> HIDE DEF ins
<1>2. /\ ins.op \in Op /\ ValidInstruction(ins) /\ depths[vm.ip + 1] <= MaxStack
      /\ depths[vm.ip + 1] = Len(vm.stack) - STACK_EFFECTS[ins.op][1]
                               + STACK_EFFECTS[ins.op][2]
  BY <1>1 DEF Admissible
<1>3. ins.op \in Op \ {"HALT"} /\ new \in Pushed(ins)
  BY <1>2 DEF ins
<1>4. new \in Seq(Int) /\ Len(new) = STACK_EFFECTS[ins.op][2]
  BY <1>1, <1>2, <1>3, PushedTyped
<1>5. /\ Popped(ins) \in Seq(Int) /\ Len(Popped(ins)) = Operands(ins.op)
      /\ Below(ins) \in Seq(Int)
      /\ Len(Below(ins)) = Len(vm.stack) - Operands(ins.op)
  BY <1>1, <1>2, PoppedTyped
<1>6. /\ Operands(ins.op) = STACK_EFFECTS[ins.op][1]
      /\ STACK_EFFECTS[ins.op][1] \in Nat /\ STACK_EFFECTS[ins.op][2] \in Nat
  BY <1>2, EffectsTyped
<1>7. Len(vm.stack) \in Nat
  BY <1>1, MachineFields
<1>8. Len(Below(ins)) \in Nat /\ Len(Below(ins)) + Len(new) = depths[vm.ip + 1]
  BY <1>1, <1>2, <1>4, <1>5, <1>6, <1>7
<1>9. Operands(ins.op) >= 1 => Popped(ins)[1] \in Int
  BY <1>5, <1>6
<1> QED  BY <1>2, <1>4, <1>5, <1>6, <1>8, <1>9 DEF ins

\* The runtime checks never fail for the shape of the program.
LEMMA RaiseInv ==
    ASSUME Inv, Raise
    PROVE  Inv'
<1>1. /\ Running /\ ir[vm.ip].op # "HALT" /\ phase = "running"
      /\ UNCHANGED <<ir, an, depths, vm>> /\ phase' = "failed"
      /\ error' \in Raises(ir[vm.ip])
  BY DEF Raise, Running
<1>2. ~(vm.ip > MaxInstructions) /\ ~(Len(vm.stack) < Operands(ir[vm.ip].op))
  <2>1. vm.ip \in Nat /\ Len(vm.stack) \in Nat /\ Operands(ir[vm.ip].op) \in Nat
    BY <1>1, Here, EffectsTyped, MachineFields DEF Inv, Typed, Machine, Admissible
  <2> QED  BY <1>1, <2>1, Here, VelatoAssumption
<1>3. \A new \in Pushed(ir[vm.ip]) :
        ~(Len(Below(ir[vm.ip])) + Len(new) > MaxStack)
  <2> TAKE new \in Pushed(ir[vm.ip])
  <2>1. /\ Len(Below(ir[vm.ip])) \in Nat /\ Len(new) \in Nat
        /\ Len(Below(ir[vm.ip])) + Len(new) <= MaxStack
    BY <1>1, NewDepth
  <2> QED  BY <2>1, VelatoAssumption
<1>4. error' \in {"domain", "non-finite"}
  BY <1>1, <1>2, <1>3, Zenon DEF Raises
<1>5. VerifiedRunsSafely'
  BY <1>4 DEF VerifiedRunsSafely
<1>6. AnalysisInv' /\ Typed' /\ CertifiedInv'
  BY <1>1, AnalysisFrame, CertifiedFrame DEF Inv, Typed
<1>7. RunInv'
  BY <1>1 DEF RunInv
<1> QED  BY <1>5, <1>6, <1>7 DEF Inv

\* A step keeps the machine in its types: outputs stay in their ranges.
LEMMA StepTyped ==
    ASSUME Inv, Step
    PROVE  /\ vm' \in Machine
           /\ vm'.ip = vm.ip + 1 /\ vm'.inputs = vm.inputs
           /\ Len(vm'.stack) = depths[vm.ip + 1]
<1> DEFINE ins == ir[vm.ip]
<1>1. Running /\ ins.op # "HALT"
  BY DEF Step
<1>2. PICK new \in Pushed(ins) :
        vm' = [vm EXCEPT
                 !.ip = @ + 1,
                 !.executed = @ + 1,
                 !.stack = Below(ins) \o new,
                 !.maxDepth = Larger(@, Len(Below(ins)) + Len(new)),
                 !.locals = IF ins.op = "STORE_LOCAL"
                            THEN [@ EXCEPT ![ins.arg \div 2] = Popped(ins)[1]]
                            ELSE @,
                 !.out = IF ins.op \in StoreOps
                         THEN LET name == OUTPUT_STORE_OPS[ins.op]
                              IN  [@ EXCEPT ![name] = Stored(name, Popped(ins)[1])]
                         ELSE @]
  BY DEF Step
<1>3. /\ Below(ins) \in Seq(Int) /\ new \in Seq(Int)
      /\ Len(Below(ins)) \in Nat /\ Len(new) \in Nat
      /\ Len(Below(ins)) + Len(new) = depths[vm.ip + 1]
      /\ Operands(ins.op) >= 1 => Popped(ins)[1] \in Int
  BY <1>1, NewDepth
<1>4. ins \in Instruction /\ ins.op \in Op /\ ValidInstruction(ins)
  BY <1>1, Here DEF Admissible
<1>5. vm \in Machine
  BY DEF Inv, Typed
<1> HIDE DEF ins
<1> DEFINE stack == Below(ins) \o new
           top == Popped(ins)[1]
           locals == IF ins.op = "STORE_LOCAL"
                     THEN [vm.locals EXCEPT ![ins.arg \div 2] = top] ELSE vm.locals
           out == IF ins.op \in StoreOps
                  THEN [vm.out EXCEPT ![OUTPUT_STORE_OPS[ins.op]] =
                          Stored(OUTPUT_STORE_OPS[ins.op], top)]
                  ELSE vm.out
           deepest == Larger(vm.maxDepth, Len(Below(ins)) + Len(new))
<1>6. stack \in Seq(Int) /\ Len(stack) = depths[vm.ip + 1]
  BY <1>3, ConcatProperties
<1>7. ins.op \in StoreOps \cup {"STORE_LOCAL"} => top \in Int
  <2>1. ins.op \in StoreOps \cup {"STORE_LOCAL"} => Operands(ins.op) = 1
    BY DEF Operands, StoreOps, BinaryOps, CompareOps, TernaryOps, UnaryOps
  <2> QED  BY <1>3, <2>1
<1> HIDE DEF stack, top
<1>8. locals \in [0..(MaxLocals - 1) -> Int]
  <2>1. vm.locals \in [0..(MaxLocals - 1) -> Int]
    BY <1>5, MachineFields
  <2>2. ins.op = "STORE_LOCAL" => top \in Int
    BY <1>7
  <2> QED  BY <2>1, <2>2
<1>9. out \in [alert_score : 0..100, severity_code : 0..9,
               routing_code : 0..255, suppressed : 0..1]
  <2>1. vm.out \in [alert_score : 0..100, severity_code : 0..9,
                    routing_code : 0..255, suppressed : 0..1]
    BY <1>5 DEF Machine
  <2>2. CASE ins.op \notin StoreOps
    BY <2>1, <2>2
  <2>3. CASE ins.op = "STORE_SCORE"
    <3>1. out = [vm.out EXCEPT !["alert_score"] = Stored("alert_score", top)]
      BY <2>3 DEF StoreOps, OUTPUT_STORE_OPS
    <3> QED  BY <1>7, <2>1, <2>3, <3>1, StoredTyped DEF StoreOps
  <2>4. CASE ins.op = "STORE_SEVERITY"
    <3>1. out = [vm.out EXCEPT !["severity_code"] = Stored("severity_code", top)]
      BY <2>4 DEF StoreOps, OUTPUT_STORE_OPS
    <3> QED  BY <1>7, <2>1, <2>4, <3>1, StoredTyped DEF StoreOps
  <2>5. CASE ins.op = "STORE_ROUTE"
    <3>1. out = [vm.out EXCEPT !["routing_code"] = Stored("routing_code", top)]
      BY <2>5 DEF StoreOps, OUTPUT_STORE_OPS
    <3> QED  BY <1>7, <2>1, <2>5, <3>1, StoredTyped DEF StoreOps
  <2>6. CASE ins.op = "STORE_SUPPRESS"
    <3>1. out = [vm.out EXCEPT !["suppressed"] = Stored("suppressed", top)]
      BY <2>6 DEF StoreOps, OUTPUT_STORE_OPS
    <3> QED  BY <1>7, <2>1, <2>6, <3>1, StoredTyped DEF StoreOps
  <2> QED  BY <2>2, <2>3, <2>4, <2>5, <2>6 DEF StoreOps
<1>10. deepest \in Nat
  BY <1>3, <1>5 DEF Larger, Machine
<1> HIDE DEF locals, out, deepest
<1>11. vm' = [ip |-> vm.ip + 1, stack |-> stack, locals |-> locals, out |-> out,
              maxDepth |-> deepest, executed |-> vm.executed + 1,
              inputs |-> vm.inputs]
  BY <1>2, <1>5 DEF Machine, stack, locals, out, deepest, top
<1>12. /\ vm.ip + 1 \in Nat \ {0} /\ vm.executed + 1 \in Nat
       /\ vm.inputs \in Requests \cup {<<>>}
  BY <1>5 DEF Machine
<1>13. vm' \in Machine
  BY <1>6, <1>8, <1>9, <1>10, <1>11, <1>12 DEF Machine
<1> QED  BY <1>6, <1>11, <1>13

\* One iteration of execute's loop preserves the invariant: the next instruction
\* is the next one of the analysed chain.
LEMMA StepInv ==
    ASSUME Inv, Step
    PROVE  Inv'
<1>1. /\ Running /\ phase = "running" /\ ir[vm.ip].op # "HALT"
      /\ UNCHANGED <<phase, ir, an, depths, error>>
  BY DEF Step, Running
<1>2. AnalysisInv' /\ CertifiedInv'
  BY <1>1, AnalysisFrame, CertifiedFrame DEF Inv
<1>3. Typed'
  BY <1>1, StepTyped DEF Inv, Typed
<1>4. /\ vm.ip \in 1..an.count /\ an.count \in Nat /\ an.index = an.count + 1
      /\ an.halted => ir[an.count].op = "HALT"
  BY <1>1, Here DEF Inv, Typed, Analysis, AnalysisInv
<1>5. vm'.ip <= an.index /\ (an.halted => vm'.ip <= an.count)
  BY <1>1, <1>4, StepTyped
<1>6. /\ Len(vm'.stack) = depths[vm'.ip]
      /\ \A k \in 0..(NumInputs - 1) : k \in DOMAIN vm'.inputs
  BY <1>1, StepTyped, Here
<1>7. Scanned'
  BY <1>1 DEF Inv, RunInv, Scanned
<1>8. RunInv' /\ VerifiedRunsSafely'
  BY <1>1, <1>5, <1>6, <1>7 DEF Inv, RunInv, VerifiedRunsSafely
<1> QED  BY <1>2, <1>3, <1>8 DEF Inv

\* HALT and the end of the program preserve the invariant.
LEMMA EndInv ==
    ASSUME Inv, Halt \/ EndOfProgram
    PROVE  Inv'
<1>1. /\ phase = "running" /\ phase' = "done" /\ UNCHANGED <<ir, an, depths, error>>
      /\ vm' = vm \/ vm' = [vm EXCEPT !.executed = @ + 1]
  BY DEF Halt, EndOfProgram, Running
<1>2. AnalysisInv' /\ CertifiedInv'
  BY <1>1, AnalysisFrame, CertifiedFrame DEF Inv
<1>3. vm' \in Machine
  <2>1. vm \in Machine
    BY DEF Inv, Typed
  <2>2. CASE vm' = vm
    BY <2>1, <2>2
  <2>3. CASE vm' = [vm EXCEPT !.executed = @ + 1]
    <3>1. vm' = [ip |-> vm.ip, stack |-> vm.stack, locals |-> vm.locals,
                 out |-> vm.out, maxDepth |-> vm.maxDepth,
                 executed |-> vm.executed + 1, inputs |-> vm.inputs]
      BY <2>1, <2>3 DEF Machine
    <3>2. vm.executed + 1 \in Nat
      BY <2>1 DEF Machine
    <3> QED  BY <2>1, <3>1, <3>2 DEF Machine
  <2> QED  BY <1>1, <2>2, <2>3
<1>4. RunInv' /\ VerifiedRunsSafely' /\ Typed'
  BY <1>1, <1>3 DEF Inv, RunInv, VerifiedRunsSafely, Typed
<1> QED  BY <1>2, <1>4 DEF Inv

\* Every step of the engine and of its clients preserves the invariant.
LEMMA NextInv == Inv /\ [Next]_vars => Inv'
<1> SUFFICES ASSUME Inv, [Next]_vars PROVE Inv'
  OBVIOUS
<1>1. ASSUME NEW f \in Fragments, Extend(f) PROVE Inv'
  BY <1>1, ExtendInv
<1>2. ASSUME NEW require \in BOOLEAN, Build(require) PROVE Inv'
  <2>1. ir' \in Seq(Instruction)
    BY <1>2, WithHaltTyped DEF Build, Inv, Typed
  <2> QED  BY <1>2, <2>1, CompilingInv DEF Build
<1>3. CASE Deserialize
  <2>1. ir' \in Seq(Instruction)
    BY <1>3 DEF Deserialize, Inv, Typed
  <2> QED  BY <1>3, <2>1, CompilingInv DEF Deserialize
<1>4. ASSUME UNCHANGED <<ir, an, depths, vm, error>>,
             phase' \in {"midi", "rejected"}
      PROVE  Inv'
  <2>1. AnalysisInv' /\ Typed'
    BY <1>4, AnalysisFrame DEF Inv, Typed
  <2>2. CertifiedInv' /\ RunInv' /\ VerifiedRunsSafely'
    BY <1>4 DEF Inv, CertifiedInv, RunInv, VerifiedRunsSafely
  <2> QED  BY <2>1, <2>2 DEF Inv
<1>5. ASSUME NEW events \in MidiFiles, Upload(events) PROVE Inv'
  BY <1>4, <1>5 DEF Upload
<1>6. ASSUME NEW root \in Roots, EncodeMidi(root) PROVE Inv'
  BY <1>4, <1>6 DEF EncodeMidi
<1>7. ASSUME NEW inputs \in Requests, Execute(inputs) PROVE Inv'
  BY <1>7, ExecuteInv
<1>8. CASE CompileMidi
  <2>1. CASE compilable(parse_midi(midi))
    <3>1. ir' \in Seq(Instruction)
      BY <1>8, <2>1, CompileTyped DEF CompileMidi
    <3> QED  BY <1>8, <2>1, <3>1, CompilingInv DEF CompileMidi
  <2>2. CASE ~compilable(parse_midi(midi))
    BY <1>4, <1>8, <2>2 DEF CompileMidi
  <2> QED  BY <2>1, <2>2
<1>9. CASE Fallback
  BY <1>9, DefaultPolicyTyped, CompilingInv DEF Fallback
<1>10. CASE Discard
  <2>1. /\ ir' \in Seq(Instruction) /\ an' = FreshAnalysis(FALSE) /\ depths' = FreshDepths
        /\ phase' = "writing" /\ UNCHANGED <<vm, error>>
    BY <1>10 DEF Discard
  <2>2. an' \in Analysis /\ AnalysisInv'
    BY <2>1, StartAnalysisInv
  <2>3. CertifiedInv' /\ RunInv' /\ VerifiedRunsSafely' /\ Typed'
    BY <2>1, <2>2 DEF Inv, CertifiedInv, RunInv, VerifiedRunsSafely, Typed
  <2> QED  BY <2>2, <2>3 DEF Inv
<1>11. CASE AnalyzeInstruction  BY <1>11, AnalyzeInstructionInv
<1>12. CASE AnalyzeReject       BY <1>12, AnalyzeRejectInv
<1>13. CASE Verify              BY <1>13, VerifyInv
<1>14. CASE StartRun            BY <1>14, StartRunInv
<1>15. CASE Step                BY <1>15, StepInv
<1>16. CASE Raise               BY <1>16, RaiseInv
<1>17. CASE Halt                BY <1>17, EndInv
<1>18. CASE EndOfProgram        BY <1>18, EndInv
<1>19. CASE UNCHANGED vars
  <2>1. UNCHANGED <<phase, ir, an, depths, vm, error>>
    BY <1>19 DEF vars
  <2>2. AnalysisInv' /\ Typed'
    BY <2>1, AnalysisFrame DEF Inv, Typed
  <2>3. CertifiedInv'
    BY <2>1 DEF Inv, CertifiedInv, WellFormed, Chain, Reach
  <2>4. RunInv' /\ VerifiedRunsSafely'
    BY <2>1 DEF Inv, RunInv, Scanned, VerifiedRunsSafely
  <2> QED  BY <2>2, <2>3, <2>4 DEF Inv
<1> QED
  BY <1>1, <1>2, <1>3, <1>5, <1>6, <1>7, <1>8, <1>9, <1>10, <1>11, <1>12, <1>13,
     <1>14, <1>15, <1>16, <1>17, <1>18, <1>19 DEF Next, Client, Engine

----------------------------------------------------------------------------
(* The theorems *)

\* A compiled program is never stopped by execute's own analysis, by an empty
\* stack, or by the stack or instruction limit, whatever the limits are and
\* whatever numbers it computes with.
THEOREM VerifiedRunsSafelyAlways == Spec => []VerifiedRunsSafely
<1>1. Inv => VerifiedRunsSafely
  BY DEF Inv
<1> QED  BY <1>1, InitInv, NextInv, PTL DEF Spec

\* At every instruction of every run the stack of execute is as deep as
\* analyze_ir found it there.
THEOREM DepthAsAnalyzedAlways == Spec => []DepthAsAnalyzed
<1>1. Inv => DepthAsAnalyzed
  <2> SUFFICES ASSUME Inv, phase = "running" PROVE DepthAsAnalyzed
    BY DEF DepthAsAnalyzed
  <2>1. /\ Len(depths) = an.count + 1 /\ an.index = an.count + 1 /\ an.count \in Nat
        /\ vm.ip \in Nat \ {0} /\ vm.ip <= an.index
        /\ Len(vm.stack) = depths[vm.ip]
    BY DEF Inv, Typed, Analysis, Machine, AnalysisInv, Chain, RunInv
  <2>2. vm.ip \in 1..Len(depths) /\ vm.ip \in 1..an.index
    BY <2>1
  <2>3. depths[vm.ip] <= an.maxDepth
    BY <2>2 DEF Inv, AnalysisInv
  <2> QED  BY <2>1, <2>2, <2>3 DEF DepthAsAnalyzed
<1> QED  BY <1>1, InitInv, NextInv, PTL DEF Spec

----------------------------------------------------------------------------
(* Lemmas about the notes *)

\* The banks hold every operation of the dialect.
LEMMA BanksCover ==
    ASSUME NEW op \in Op
    PROVE  \E b \in 0..3, i \in 1..12 : INSTRUCTION_BANKS[b][i] = op
<1> DEFINE Has(b) == {INSTRUCTION_BANKS[b][1], INSTRUCTION_BANKS[b][2],
                      INSTRUCTION_BANKS[b][3], INSTRUCTION_BANKS[b][4],
                      INSTRUCTION_BANKS[b][5], INSTRUCTION_BANKS[b][6],
                      INSTRUCTION_BANKS[b][7], INSTRUCTION_BANKS[b][8],
                      INSTRUCTION_BANKS[b][9], INSTRUCTION_BANKS[b][10],
                      INSTRUCTION_BANKS[b][11], INSTRUCTION_BANKS[b][12]}
<1>1. Has(0) = {"HALT", "PUSH_CONST", "LOAD_INPUT", "ADD", "SUB", "MUL", "GT", "SELECT",
                "STORE_SCORE", "STORE_SEVERITY", "STORE_ROUTE", "STORE_SUPPRESS"}
  BY DEF INSTRUCTION_BANKS
<1>2. Has(1) = {"MIN", "MAX", "DIV", "MOD", "NEG", "ABS", "CLAMP", "FLOOR", "CEIL",
                "ROUND", "POW", "SQRT"}
  BY DEF INSTRUCTION_BANKS
<1>3. Has(2) = {"EQ", "NE", "LT", "LTE", "GTE", "AND", "OR", "XOR", "NOT", "IS_ZERO",
                "BETWEEN", "SIGN"}
  BY DEF INSTRUCTION_BANKS
<1>4. Has(3) = {"DUP", "SWAP", "OVER", "DROP", "LOAD_LOCAL", "STORE_LOCAL", "NOP",
                "STACK_DEPTH", "LOAD_SCORE", "LOAD_SEVERITY", "LOAD_ROUTE",
                "LOAD_SUPPRESS"}
  BY DEF INSTRUCTION_BANKS
<1>5. \A b \in 0..3 : op \in Has(b) => \E i \in 1..12 : INSTRUCTION_BANKS[b][i] = op
  OBVIOUS
<1> HIDE DEF Has
<1>6. op \in Has(0) \/ op \in Has(1) \/ op \in Has(2) \/ op \in Has(3)
  BY <1>1, <1>2, <1>3, <1>4
     DEF Op, TernaryOps, BinaryOps, UnaryOps, StoreOps, CompareOps, ReadOps, LOCAL_OPS
<1> QED
  BY <1>5, <1>6

\* HALT stands at the first place of bank 0 and nowhere else.
LEMMA HaltPlace ==
    ASSUME NEW b \in 0..3, NEW i \in 1..12
    PROVE  INSTRUCTION_BANKS[b][i] = "HALT" <=> b = 0 /\ i = 1
<1>1. b = 0 \/ b = 1 \/ b = 2 \/ b = 3
  OBVIOUS
<1>2. i = 1 \/ i = 2 \/ i = 3 \/ i = 4 \/ i = 5 \/ i = 6 \/ i = 7 \/ i = 8
      \/ i = 9 \/ i = 10 \/ i = 11 \/ i = 12
  OBVIOUS
<1> USE DEF INSTRUCTION_BANKS
<1>3. CASE b = 0  BY <1>2, <1>3
<1>4. CASE b = 1  BY <1>2, <1>4
<1>5. CASE b = 2  BY <1>2, <1>5
<1>6. CASE b = 3  BY <1>2, <1>6
<1> QED  BY <1>1, <1>3, <1>4, <1>5, <1>6

\* OP_ENCODING finds an operation where INSTRUCTION_BANKS has it.
LEMMA EncodingFound ==
    ASSUME NEW op \in Op
    PROVE  /\ OP_ENCODING(op)[1] \in 0..3 /\ OP_ENCODING(op)[2] \in 0..11
           /\ INSTRUCTION_BANKS[OP_ENCODING(op)[1]][OP_ENCODING(op)[2] + 1] = op
<1>1. PICK b \in 0..3, i \in 1..12 : INSTRUCTION_BANKS[b][i] = op
  BY BanksCover
<1> DEFINE e == <<b, i - 1>>
<1>2. e \in (0..3) \X (0..11) /\ e[1] = b /\ e[2] + 1 = i
  OBVIOUS
<1> HIDE DEF e
<1>3. \E x \in (0..3) \X (0..11) : INSTRUCTION_BANKS[x[1]][x[2] + 1] = op
  BY <1>1, <1>2
<1> DEFINE found == CHOOSE x \in (0..3) \X (0..11) : INSTRUCTION_BANKS[x[1]][x[2] + 1] = op
<1>4. found \in (0..3) \X (0..11) /\ INSTRUCTION_BANKS[found[1]][found[2] + 1] = op
  BY <1>3
<1>5. OP_ENCODING(op) = found
  BY DEF OP_ENCODING
<1> HIDE DEF found
<1> QED
  BY <1>4, <1>5

\* The note that encode_midi writes for an instruction.
NoteOf(ins, root) ==
    [note |-> root + OP_ENCODING(ins.op)[2], velocity |-> encode_velocity(ins),
     channel |-> OP_ENCODING(ins.op)[1]]

\* It is a note that sounds, in a bank, and at the root's pitch of bank 0 for HALT only.
LEMMA NoteTyped ==
    ASSUME NEW ins \in Instruction, ins.op \in Op, Encodable(ins), NEW root \in Roots
    PROVE  /\ NoteOf(ins, root) \in MidiNote /\ NoteOf(ins, root).channel \in 0..3
           /\ /\ NoteOf(ins, root).channel = 0
              /\ (NoteOf(ins, root).note - root) % 12 = 0
              <=> ins.op = "HALT"
<1> DEFINE e == OP_ENCODING(ins.op)
<1>1. /\ e[1] \in 0..3 /\ e[2] \in 0..11
      /\ INSTRUCTION_BANKS[e[1]][e[2] + 1] = ins.op
  BY EncodingFound
<1>2. root \in 0..116
  BY VelatoAssumption
<1>3. encode_velocity(ins) \in 1..127
  BY VelatoAssumption DEF encode_velocity, Encodable, Whole, LOCAL_OPS, Instruction
<1>4. NoteOf(ins, root) = [note |-> root + e[2], velocity |-> encode_velocity(ins),
                           channel |-> e[1]]
  BY DEF NoteOf
<1> HIDE DEF e
<1>5. NoteOf(ins, root) \in MidiNote /\ NoteOf(ins, root).channel \in 0..3
  BY <1>1, <1>2, <1>3, <1>4 DEF MidiNote
<1>6. ((root + e[2]) - root) % 12 = e[2]
  BY <1>1, <1>2
<1>7. ins.op = "HALT" <=> e[1] = 0 /\ e[2] + 1 = 1
  BY <1>1, HaltPlace
<1> QED
  BY <1>1, <1>4, <1>5, <1>6, <1>7

\* Decoding it gives the instruction back.
LEMMA NoteDecodes ==
    ASSUME NEW ins \in Instruction, ins.op \in Op, Encodable(ins), ValidInstruction(ins),
           NEW root \in Roots
    PROVE  decode(NoteOf(ins, root), root) = ins
<1> DEFINE e == OP_ENCODING(ins.op)
           n == NoteOf(ins, root)
<1>1. /\ e[1] \in 0..3 /\ e[2] \in 0..11
      /\ INSTRUCTION_BANKS[e[1]][e[2] + 1] = ins.op
  BY EncodingFound
<1>2. root \in 0..116
  BY VelatoAssumption
<1>3. n.channel = e[1] /\ n.note = root + e[2] /\ n.velocity = encode_velocity(ins)
  BY DEF NoteOf
<1> HIDE DEF e, n
<1>4. (n.note - root) % 12 = e[2]
  BY <1>1, <1>2, <1>3
<1>5. INSTRUCTION_BANKS[n.channel][((n.note - root) % 12) + 1] = ins.op
  BY <1>1, <1>3, <1>4
<1>6. ins = [op |-> ins.op, kind |-> ins.kind, arg |-> ins.arg] /\ ins.arg \in Int
  BY DEF Instruction
<1>7. CASE ins.op = "PUSH_CONST"
  <2>1. ins.kind = "number" /\ 2 * (n.velocity - 1) = ins.arg
    BY <1>3, <1>6, <1>7 DEF Encodable, Whole, encode_velocity, LOCAL_OPS
  <2> QED  BY <1>5, <1>6, <1>7, <2>1 DEF decode, Const, LOCAL_OPS, n
<1>8. CASE ins.op = "LOAD_INPUT"
  <2>1. ins.kind = "name" /\ n.velocity - 1 = ins.arg
    BY <1>3, <1>6, <1>8 DEF Encodable, encode_velocity, LOCAL_OPS
  <2> QED  BY <1>5, <1>6, <1>8, <2>1 DEF decode, Input, LOCAL_OPS, n
<1>9. CASE ins.op \in LOCAL_OPS
  <2>1. ins.kind = "number" /\ 2 * (n.velocity - 1) = ins.arg
    BY <1>3, <1>6, <1>9 DEF Encodable, Whole, encode_velocity, LOCAL_OPS
  <2> QED  BY <1>5, <1>6, <1>9, <2>1 DEF decode, Local, LOCAL_OPS, n
<1>10. CASE ins.op \notin LOCAL_OPS \cup {"PUSH_CONST", "LOAD_INPUT"}
  <2>1. ins.kind = "none" /\ ins.arg = 0
    BY <1>10 DEF ValidInstruction, LOCAL_OPS, Instruction
  <2> QED  BY <1>5, <1>6, <1>10, <2>1 DEF decode, Plain, LOCAL_OPS, n
<1> QED
  BY <1>7, <1>8, <1>9, <1>10

\* parse_midi drops nothing from a file whose notes all sound.
LEMMA AllSound ==
    ASSUME NEW events \in Seq(MidiNote)
    PROVE  parse_midi(events) = events
<1> DEFINE N == Len(events)
           Is(f) == f = [n \in 0..N |->
                           IF n = 0 THEN <<>>
                           ELSE IF events[n].velocity > 0
                           THEN Append(f[n - 1], events[n]) ELSE f[n - 1]]
           kept == CHOOSE f : Is(f)
           g == [n \in 0..N |-> SubSeq(events, 1, n)]
<1> HIDE DEF Is, kept, g
<1>1. N \in Nat /\ \A n \in 1..N : events[n] \in MidiNote /\ events[n].velocity > 0
  <2>1. Len(events) \in Nat /\ \A n \in 1..Len(events) : events[n] \in MidiNote
    BY LenProperties, ElementOfSeq
  <2>2. \A e \in MidiNote : e.velocity > 0
    <3>1. \A e \in MidiNote : e.velocity \in 1..127
      BY DEF MidiNote
    <3>2. \A v \in 1..127 : v > 0
      OBVIOUS
    <3> QED
      BY <3>1, <3>2
  <2> QED
    BY <2>1, <2>2
<1>2. SubSeq(events, 1, 0) = <<>> /\ SubSeq(events, 1, N) = events
  BY <1>1, SubSeqProperties
<1>3. \A n \in 1..N : SubSeq(events, 1, n) = Append(SubSeq(events, 1, n - 1), events[n])
  BY <1>1, SubSeqProperties
<1>4. Is(g)
  <2> USE DEF Is, g
  <2>1. \A n \in 0..N : g[n] = IF n = 0 THEN <<>>
                               ELSE IF events[n].velocity > 0
                               THEN Append(g[n - 1], events[n]) ELSE g[n - 1]
    <3> TAKE n \in 0..N
    <3>1. CASE n = 0
      BY <1>1, <1>2, <3>1
    <3>2. CASE n \in 1..N
      <4>1. n - 1 \in 0..N /\ n \in 0..N /\ n # 0
        BY <1>1, <3>2
      <4>2. g[n] = SubSeq(events, 1, n) /\ g[n - 1] = SubSeq(events, 1, n - 1)
        BY <4>1
      <4> QED
        BY <1>1, <1>3, <3>2, <4>1, <4>2
    <3>3. n = 0 \/ n \in 1..N
      BY <1>1
    <3> HIDE DEF g
    <3> QED
      BY <3>1, <3>2, <3>3
  <2> QED
    BY <2>1
<1>5. Is(kept)
  BY <1>4 DEF kept
<1>6. parse_midi(events) = kept[N]
  BY DEF parse_midi, kept, Is
<1>7. /\ kept[0] = <<>>
      /\ \A n \in 1..N : kept[n] = Append(kept[n - 1], events[n])
  <2>1. \A n \in 0..N : kept[n] = IF n = 0 THEN <<>>
                                  ELSE IF events[n].velocity > 0
                                  THEN Append(kept[n - 1], events[n]) ELSE kept[n - 1]
    BY <1>5 DEF Is
  <2>2. 0 \in 0..N /\ \A n \in 1..N : n \in 0..N /\ n # 0
    BY <1>1
  <2> QED
    BY <1>1, <2>1, <2>2
<1>8. \A n \in 0..N : kept[n] = SubSeq(events, 1, n)
  <2> DEFINE wrong == {n \in 0..N : kept[n] # SubSeq(events, 1, n)}
  <2> SUFFICES ASSUME wrong # {} PROVE FALSE
    OBVIOUS
  <2>1. PICK n \in wrong : \A m \in wrong : n <= m
    <3>1. wrong \in SUBSET Nat
      BY <1>1
    <3> HIDE DEF wrong
    <3> QED
      BY <3>1, FirstExists
  <2>2. n \in 0..N /\ kept[n] # SubSeq(events, 1, n)
    BY <2>1
  <2>3. n # 0
    BY <1>2, <1>7, <2>2
  <2>4. n - 1 \in 0..N /\ n - 1 \notin wrong /\ n \in 1..N
    BY <1>1, <2>1, <2>2, <2>3
  <2>5. kept[n - 1] = SubSeq(events, 1, n - 1)
    BY <2>4
  <2> QED
    BY <1>3, <1>7, <2>2, <2>4, <2>5
<1> QED
  BY <1>1, <1>2, <1>6, <1>8

\* The notes of a program of which every instruction up to the first HALT is valid.
LEMMA RoundTrip ==
    ASSUME NEW code \in Seq(Instruction), code # <<>>, NEW root \in Roots,
           \A i \in 1..Len(code) : code[i].op \in Op /\ Encodable(code[i]),
           NEW n \in Nat, n <= Len(code),
           \A i \in 1..n : ValidInstruction(code[i]),
           \A i \in 1..n : code[i].op = "HALT" => i = n,
           n = Len(code) \/ (n >= 1 /\ code[n].op = "HALT")
    PROVE  /\ encode_midi(code, root) \in Seq(MidiNote)
           /\ parse_midi(encode_midi(code, root)) = encode_midi(code, root)
           /\ compilable(encode_midi(code, root))
           /\ compile_notes(encode_midi(code, root)) = WithHalt(UpToHalt(code))
<1> DEFINE first == [note |-> root, velocity |-> 64, channel |-> 0]
           notes == [i \in 1..Len(code) |-> NoteOf(code[i], root)]
           all == encode_midi(code, root)
<1>1. Len(code) \in Nat /\ Len(code) >= 1 /\ \A i \in 1..Len(code) : code[i] \in Instruction
  BY LenProperties, ElementOfSeq, EmptySeq
<1>2. \A i \in 1..Len(code) : /\ NoteOf(code[i], root) \in MidiNote
                              /\ NoteOf(code[i], root).channel \in 0..3
                              /\ /\ NoteOf(code[i], root).channel = 0
                                 /\ (NoteOf(code[i], root).note - root) % 12 = 0
                                 <=> code[i].op = "HALT"
  BY <1>1, NoteTyped
<1>3. all = <<first>> \o notes
  BY DEF encode_midi, NoteOf
<1>4. notes \in Seq(MidiNote) /\ Len(notes) = Len(code)
      /\ \A i \in 1..Len(code) : notes[i] = NoteOf(code[i], root)
  BY <1>1, <1>2, IsASeq
<1>5. first \in MidiNote /\ first.note = root /\ root \in Int
  BY VelatoAssumption DEF MidiNote
<1> HIDE DEF notes, first
<1>6. <<first>> \in Seq(MidiNote) /\ Len(<<first>>) = 1 /\ <<first>>[1] = first
  BY <1>5
<1> HIDE DEF all
<1>7. /\ all \in Seq(MidiNote) /\ Len(all) = 1 + Len(code) /\ all[1] = first
      /\ \A i \in 1..Len(code) : all[i + 1] = notes[i]
  BY <1>1, <1>3, <1>4, <1>5
<1>8. SubSeq(all, 2, Len(all)) = notes
  BY <1>1, <1>4, <1>7
<1> DEFINE S == {i \in 1..Len(notes) : /\ notes[i].channel = 0
                                       /\ (notes[i].note - root) % 12 = 0}
           H == {i \in 1..Len(code) : code[i].op = "HALT"}
<1>9. S = H
  BY <1>2, <1>4
<1>10. LoopNotes(all) = UpToFirst(notes, S)
  BY <1>5, <1>7, <1>8 DEF LoopNotes
<1>11. UpToHalt(code) = UpToFirst(code, H)
  BY DEF UpToHalt
<1> HIDE DEF S, H
<1>12. UpToFirst(notes, H) = SubSeq(notes, 1, n) /\ UpToFirst(code, H) = SubSeq(code, 1, n)
  <2>1. H \in SUBSET (1..Len(code)) /\ \A i \in H : code[i].op = "HALT"
    BY DEF H
  <2>2. CASE H = {}
    <3>1. n = Len(code)
      BY <1>1, <2>2 DEF H
    <3>2. SubSeq(notes, 1, n) = notes /\ SubSeq(code, 1, n) = code
      BY <1>1, <1>4, <3>1, SubSeqProperties
    <3> QED
      BY <2>2, <3>2 DEF UpToFirst
  <2>3. CASE H # {}
    <3> DEFINE k == CHOOSE i \in H : \A j \in H : i <= j
    <3>1. H \in SUBSET Nat
      BY <1>1, <2>1
    <3>2. \E i \in H : \A j \in H : i <= j
      BY <2>3, <3>1, FirstExists
    <3>3. k \in H /\ \A j \in H : k <= j
      BY <3>2
    <3> HIDE DEF k
    <3>4. k \in 1..Len(code) /\ code[k].op = "HALT"
      BY <2>1, <3>3
    <3>5. k <= n
      <4>1. CASE n = Len(code)
        BY <3>4, <4>1
      <4>2. CASE n >= 1 /\ code[n].op = "HALT"
        <5>1. n \in H
          BY <1>1, <4>2 DEF H
        <5> QED
          BY <3>3, <5>1
      <4> QED
        BY <4>1, <4>2
    <3>6. k = n
      BY <3>4, <3>5
    <3> QED
      BY <2>3, <3>6 DEF UpToFirst, k
  <2> QED
    BY <2>2, <2>3
<1>13. LoopNotes(all) = SubSeq(notes, 1, n) /\ UpToHalt(code) = SubSeq(code, 1, n)
  BY <1>9, <1>10, <1>11, <1>12
<1> DEFINE loop == SubSeq(notes, 1, n)
<1>14. /\ Len(loop) = n /\ DOMAIN loop = 1..n
       /\ \A i \in 1..n : loop[i] = NoteOf(code[i], root)
  <2>1. n <= Len(notes) /\ \A i \in 1..n : i \in 1..Len(code)
    BY <1>1, <1>4
  <2>2. Len(loop) = n /\ \A i \in 1..n : loop[i] = notes[i]
    BY <1>4, <2>1, SubSeqProperties
  <2> QED
    BY <1>4, <2>1, <2>2
<1> HIDE DEF loop
<1>15. \A i \in 1..n : decode(NoteOf(code[i], root), root) = code[i]
                        /\ NoteOf(code[i], root).channel \in 0..3
  <2> TAKE i \in 1..n
  <2>1. i \in 1..Len(code)
    BY <1>1
  <2>2. code[i] \in Instruction /\ code[i].op \in Op /\ Encodable(code[i])
        /\ ValidInstruction(code[i])
    BY <1>1, <2>1
  <2> QED
    BY <1>2, <2>1, <2>2, NoteDecodes
<1>16. \A i \in 1..n : decode(loop[i], root) = code[i] /\ decodable(loop[i], root)
  BY <1>14, <1>15 DEF decodable
<1>17. compilable(all)
  <2>1. \A i \in 1..Len(LoopNotes(all)) : decodable(LoopNotes(all)[i], all[1].note)
    BY <1>5, <1>7, <1>13, <1>14, <1>16 DEF loop
  <2> QED
    BY <1>1, <1>7, <2>1 DEF compilable
<1>18. compile_notes(all) = WithHalt(UpToHalt(code))
  <2> DEFINE made == [i \in 1..Len(LoopNotes(all)) |-> decode(LoopNotes(all)[i], all[1].note)]
  <2>1. made = [i \in 1..n |-> code[i]]
    BY <1>5, <1>7, <1>13, <1>14, <1>16 DEF loop
  <2>2. SubSeq(code, 1, n) = [i \in 1..n |-> code[i]]
    <3>1. Len(SubSeq(code, 1, n)) = n /\ \A i \in 1..n : SubSeq(code, 1, n)[i] = code[i]
      BY <1>1, SubSeqProperties
    <3>2. SubSeq(code, 1, n) \in Seq(Instruction)
      BY <1>1, SubSeqProperties
    <3> QED
      BY <3>1, <3>2, LenProperties
  <2>3. compile_notes(all) = WithHalt(made)
    BY DEF compile_notes
  <2> QED
    BY <1>13, <2>1, <2>2, <2>3
<1> QED
  BY <1>7, <1>17, <1>18, AllSound DEF all

----------------------------------------------------------------------------
(* The inductive invariant: what is added to VelatoProofs' Inv *)

\* What the first n instructions of the program use and write.
First(n)     == {ir[i] : i \in 1..n}
InputsOf(n)  == {i.arg : i \in {j \in First(n) : j.op = "LOAD_INPUT"}}
LocalsOf(n)  == {i.arg \div 2 : i \in {j \in First(n) : j.op \in LOCAL_OPS}}
OutputsOf(n) == {OUTPUT_STORE_OPS[i.op] : i \in {j \in First(n) : j.op \in StoreOps}}

\* m is the largest of the first n depths.
Deepest(m, n) == (\A j \in 1..n : depths[j] <= m) /\ (\E j \in 1..n : depths[j] = m)

\* The scalar variables and the notes have their types.
Labels ==
    /\ phase \in {"writing", "midi", "compiling", "rejected", "verified",
                  "checking", "running", "done", "failed"}
    /\ parts \in 0..MaxFragments
    /\ engine \in {"velato", "fallback-rules"}
    /\ midi \in Seq(MidiEvent)
    /\ error \in {"none", "analysis", "inputs", "instruction limit", "underflow",
                  "domain", "non-finite", "stack limit"}

\* notes is what encode_midi made of code, a program that was verified: its
\* first n instructions are what a run can reach, and they are valid.
RenderedFrom(code, notes, root, n) ==
    /\ code \in Seq(Instruction) /\ code # <<>>
    /\ \A i \in 1..Len(code) : code[i].op \in Op /\ Encodable(code[i])
    /\ n <= Len(code)
    /\ \A i \in 1..n : ValidInstruction(code[i])
    /\ \A i \in 1..n : code[i].op = "HALT" => i = n
    /\ n = Len(code) \/ (n >= 1 /\ code[n].op = "HALT")
    /\ notes = encode_midi(code, root)

\* Only a rendered program waits as notes with its instructions: a file is
\* uploaded before any are written.
NotesInv ==
    /\ phase = "writing" /\ parts = 0 => ir = <<>>
    /\ phase = "midi" /\ ir # <<>> =>
         \E root \in Roots, n \in 0..Len(ir) : RenderedFrom(ir, midi, root, n)

\* What analyze_ir reports is about the instructions it has passed.
GatheredInv ==
    /\ an.inputs = InputsOf(an.count)
    /\ an.locals = LocalsOf(an.count)
    /\ an.written = OutputsOf(an.count)
    /\ Deepest(an.maxDepth, an.index)

\* A run counts what it executes, has been as deep as the analysis found at the
\* instructions behind it, and has written no other outputs than they write.
FollowedInv ==
    /\ phase = "checking" =>
         vm.executed = 0 /\ vm.maxDepth = 0 /\ vm.out = DefaultOutputs
    /\ phase = "running" =>
         /\ vm.executed = vm.ip - 1
         /\ Deepest(vm.maxDepth, vm.ip)
         /\ \A name \in OUTPUTS \ OutputsOf(vm.ip - 1) : vm.out[name] = 0
    /\ phase = "done" =>
         /\ vm.executed = an.count
         /\ vm.maxDepth = an.maxDepth
         /\ Len(vm.stack) = an.depth
         /\ \A name \in OUTPUTS \ an.written : vm.out[name] = 0

\* The depths of the stack along the fallback policy.
FallbackDepths ==
    <<0, 1, 2, 1, 2, 3, 2, 1, 2, 3, 2, 1, 2, 3, 2, 1, 0, 1, 0, 1, 0, 1, 0, 0>>

\* The fallback policy is never refused; its analysis finds those depths.
FallbackInv ==
    engine = "fallback-rules" =>
      /\ ir = DefaultPolicy /\ phase \notin {"writing", "rejected"}
      /\ phase = "compiling" =>
           /\ ~an.require /\ an.count <= 23
           /\ \A j \in 1..an.index : depths[j] = FallbackDepths[j]

IInv == Inv /\ Labels /\ NotesInv /\ GatheredInv /\ FollowedInv /\ FallbackInv

----------------------------------------------------------------------------
(* The fallback policy *)

\* An input and its weight, multiplied, as default_policy_ir writes them.
Term(k, weight) == <<Input(k), Const(2 * weight), Plain("MUL")>>

\* The instructions of default_policy_ir, one by one.
Written ==
    <<Input(7), Const(80), Plain("MUL"), Input(3), Const(50), Plain("MUL"),
      Plain("ADD"), Input(4), Const(40), Plain("MUL"), Plain("ADD"),
      Input(9), Const(30), Plain("MUL"), Plain("ADD"), Plain("STORE_SCORE"),
      Const(4), Plain("STORE_SEVERITY"), Const(2), Plain("STORE_ROUTE"),
      Const(0), Plain("STORE_SUPPRESS"), Plain("HALT")>>

\* The first n instructions of s are those of Written, and it has no others.
Starts(s, n) == s \in Seq(Instruction) /\ Len(s) = n /\ \A j \in 1..n : s[j] = Written[j]

\* The instructions that the code appends to the first n of them, up to m.
Continues(t, n, m) ==
    t \in Seq(Instruction) /\ Len(t) = m - n /\ \A j \in 1..(m - n) : t[j] = Written[n + j]

LEMMA StartsOn ==
    ASSUME NEW n \in Nat, NEW s, Starts(s, n), NEW m \in Nat, n <= m,
           NEW t, Continues(t, n, m)
    PROVE  Starts(s \o t, m)
<1>1. /\ s \o t \in Seq(Instruction) /\ Len(s \o t) = m
      /\ \A j \in 1..m : (s \o t)[j] = IF j <= n THEN s[j] ELSE t[j - n]
  <2>1. /\ s \in Seq(Instruction) /\ t \in Seq(Instruction)
        /\ Len(s) = n /\ Len(t) = m - n
    BY DEF Starts, Continues
  <2>2. /\ s \o t \in Seq(Instruction) /\ Len(s \o t) = Len(s) + Len(t)
        /\ \A j \in 1..(Len(s) + Len(t)) :
             (s \o t)[j] = IF j <= Len(s) THEN s[j] ELSE t[j - Len(s)]
    BY <2>1, ConcatProperties
  <2> QED
    BY <2>1, <2>2
<1>2. \A j \in 1..m : (s \o t)[j] = Written[j]
  <2> TAKE j \in 1..m
  <2>1. CASE j <= n
    BY <1>1, <2>1 DEF Starts
  <2>2. CASE ~(j <= n)
    <3>1. j - n \in 1..(m - n) /\ n + (j - n) = j
      BY <2>2
    <3> QED
      BY <1>1, <2>2, <3>1 DEF Continues
  <2> QED
    BY <2>1, <2>2
<1> QED
  BY <1>1, <1>2 DEF Starts

\* One, two or three instructions that continue it.
LEMMA OneContinues ==
    ASSUME NEW n \in Nat, NEW m, m = n + 1, NEW t \in Seq(Instruction), Len(t) = 1,
           t[1] = Written[m]
    PROVE  Continues(t, n, m)
<1>1. \A j \in 1..(m - n) : t[j] = Written[n + j]
  <2> TAKE j \in 1..(m - n)
  <2>1. j = 1 /\ n + j = m
    OBVIOUS
  <2> QED  BY <2>1
<1> QED  BY <1>1 DEF Continues

LEMMA TwoContinue ==
    ASSUME NEW n \in Nat, NEW m, m = n + 2,
           NEW t \in Seq(Instruction), Len(t) = 2, t[1] = Written[n + 1], t[2] = Written[m]
    PROVE  Continues(t, n, m)
<1>1. \A j \in 1..(m - n) : t[j] = Written[n + j]
  <2> TAKE j \in 1..(m - n)
  <2>1. (j = 1 /\ n + j = n + 1) \/ (j = 2 /\ n + j = m)
    OBVIOUS
  <2> QED  BY <2>1
<1> QED  BY <1>1 DEF Continues

LEMMA ThreeContinue ==
    ASSUME NEW n \in Nat, NEW m, m = n + 3,
           NEW t \in Seq(Instruction), Len(t) = 3,
           t[1] = Written[n + 1], t[2] = Written[n + 2], t[3] = Written[m]
    PROVE  Continues(t, n, m)
<1>1. \A j \in 1..(m - n) : t[j] = Written[n + j]
  <2> TAKE j \in 1..(m - n)
  <2>1. \/ j = 1 /\ n + j = n + 1
        \/ j = 2 /\ n + j = n + 2
        \/ j = 3 /\ n + j = m
    OBVIOUS
  <2> QED  BY <2>1
<1> QED  BY <1>1 DEF Continues

\* The concatenation in the code makes these instructions.
LEMMA DefaultPolicyWritten == DefaultPolicy \in Seq(Instruction) /\ DefaultPolicy = Written
<1> DEFINE set(v, op) == <<Const(2 * v), Plain(op)>>
           add == <<Plain("ADD")>>
           score == <<Plain("ADD"), Plain("STORE_SCORE")>>
           halt == <<Plain("HALT")>>
<1>1. \A k \in Int : Input(k) \in Instruction
  BY DEF Input, Instruction, Op
<1>2. \A v \in Int : Const(v) \in Instruction
  BY DEF Const, Instruction, Op
<1>3. \A op \in Op : Plain(op) \in Instruction
  BY DEF Plain, Instruction
<1>4. "MUL" \in Op /\ "ADD" \in Op /\ "HALT" \in Op /\ StoreOps \subseteq Op
  BY DEF Op, BinaryOps
<1>5. /\ Written[1] = Input(7) /\ Written[2] = Const(80) /\ Written[3] = Plain("MUL")
      /\ Written[4] = Input(3) /\ Written[5] = Const(50) /\ Written[6] = Plain("MUL")
      /\ Written[7] = Plain("ADD")
      /\ Written[8] = Input(4) /\ Written[9] = Const(40) /\ Written[10] = Plain("MUL")
      /\ Written[11] = Plain("ADD")
      /\ Written[12] = Input(9) /\ Written[13] = Const(30) /\ Written[14] = Plain("MUL")
      /\ Written[15] = Plain("ADD") /\ Written[16] = Plain("STORE_SCORE")
      /\ Written[17] = Const(4) /\ Written[18] = Plain("STORE_SEVERITY")
      /\ Written[19] = Const(2) /\ Written[20] = Plain("STORE_ROUTE")
      /\ Written[21] = Const(0) /\ Written[22] = Plain("STORE_SUPPRESS")
      /\ Written[23] = Plain("HALT")
  BY DEF Written
<1>6. /\ "STORE_SEVERITY" \in StoreOps /\ "STORE_ROUTE" \in StoreOps
      /\ "STORE_SUPPRESS" \in StoreOps
  BY DEF StoreOps
<1>7. \A k, w \in Int : /\ Term(k, w) \in Seq(Instruction) /\ Len(Term(k, w)) = 3
                         /\ Term(k, w)[1] = Input(k) /\ Term(k, w)[2] = Const(2 * w)
                         /\ Term(k, w)[3] = Plain("MUL")
  BY <1>1, <1>2, <1>3, <1>4 DEF Term
<1>8. \A v \in Int, op \in StoreOps :
        /\ set(v, op) \in Seq(Instruction) /\ Len(set(v, op)) = 2
        /\ set(v, op)[1] = Const(2 * v) /\ set(v, op)[2] = Plain(op)
  BY <1>2, <1>3, <1>4
<1>9. /\ add \in Seq(Instruction) /\ Len(add) = 1 /\ add[1] = Plain("ADD")
      /\ score \in Seq(Instruction) /\ Len(score) = 2
      /\ score[1] = Plain("ADD") /\ score[2] = Plain("STORE_SCORE")
      /\ halt \in Seq(Instruction) /\ Len(halt) = 1 /\ halt[1] = Plain("HALT")
  BY <1>3, <1>4 DEF StoreOps
<1> HIDE DEF set, add, score, halt
<1> DEFINE s1 == Term(7, 40)
           s2 == s1 \o Term(3, 25)
           s3 == s2 \o add
           s4 == s3 \o Term(4, 20)
           s5 == s4 \o add
           s6 == s5 \o Term(9, 15)
           s7 == s6 \o score
           s8 == s7 \o set(2, "STORE_SEVERITY")
           s9 == s8 \o set(1, "STORE_ROUTE")
           s10 == s9 \o set(0, "STORE_SUPPRESS")
           s11 == s10 \o halt
<1>10. Starts(s1, 3)
  <2>1. \A j \in 1..3 : j = 1 \/ j = 2 \/ j = 3
    OBVIOUS
  <2>2. /\ s1 \in Seq(Instruction) /\ Len(s1) = 3
        /\ s1[1] = Input(7) /\ s1[2] = Const(80) /\ s1[3] = Plain("MUL")
    BY <1>7
  <2> HIDE DEF s1
  <2> QED
    BY <1>5, <2>1, <2>2 DEF Starts
<1> HIDE DEF s1
<1>11. Starts(s2, 6)
  <2>1. Continues(Term(3, 25), 3, 6)
    <3>1. /\ Term(3, 25) \in Seq(Instruction) /\ Len(Term(3, 25)) = 3
          /\ Term(3, 25)[1] = Input(3) /\ Term(3, 25)[2] = Const(50)
          /\ Term(3, 25)[3] = Plain("MUL")
      BY <1>7
    <3>2. 3 + 1 = 4 /\ 3 + 2 = 5 /\ 6 = 3 + 3 /\ 3 \in Nat
      OBVIOUS
    <3>3. /\ Term(3, 25)[1] = Written[3 + 1] /\ Term(3, 25)[2] = Written[3 + 2]
          /\ Term(3, 25)[3] = Written[6]
      BY <1>5, <3>1, <3>2
    <3> QED  BY <3>1, <3>2, <3>3, ThreeContinue
  <2> QED  BY <1>10, <2>1, StartsOn
<1> HIDE DEF s2
<1>12. Starts(s3, 7)
  <2>1. Continues(add, 6, 7)
    <3>1. add[1] = Written[6 + 1] /\ 7 = 6 + 1 /\ 6 \in Nat
      BY <1>5, <1>9
    <3> QED  BY <1>9, <3>1, OneContinues
  <2> QED  BY <1>11, <2>1, StartsOn
<1> HIDE DEF s3
<1>13. Starts(s4, 10)
  <2>1. Continues(Term(4, 20), 7, 10)
    <3>1. /\ Term(4, 20) \in Seq(Instruction) /\ Len(Term(4, 20)) = 3
          /\ Term(4, 20)[1] = Input(4) /\ Term(4, 20)[2] = Const(40)
          /\ Term(4, 20)[3] = Plain("MUL")
      BY <1>7
    <3>2. 7 + 1 = 8 /\ 7 + 2 = 9 /\ 10 = 7 + 3 /\ 7 \in Nat
      OBVIOUS
    <3>3. /\ Term(4, 20)[1] = Written[7 + 1] /\ Term(4, 20)[2] = Written[7 + 2]
          /\ Term(4, 20)[3] = Written[10]
      BY <1>5, <3>1, <3>2
    <3> QED  BY <3>1, <3>2, <3>3, ThreeContinue
  <2> QED  BY <1>12, <2>1, StartsOn
<1> HIDE DEF s4
<1>14. Starts(s5, 11)
  <2>1. Continues(add, 10, 11)
    BY <1>5, <1>9, OneContinues
  <2> QED  BY <1>13, <2>1, StartsOn
<1> HIDE DEF s5
<1>15. Starts(s6, 14)
  <2>1. Continues(Term(9, 15), 11, 14)
    <3>1. /\ Term(9, 15) \in Seq(Instruction) /\ Len(Term(9, 15)) = 3
          /\ Term(9, 15)[1] = Input(9) /\ Term(9, 15)[2] = Const(30)
          /\ Term(9, 15)[3] = Plain("MUL")
      BY <1>7
    <3>2. 11 + 1 = 12 /\ 11 + 2 = 13 /\ 14 = 11 + 3 /\ 11 \in Nat
      OBVIOUS
    <3>3. /\ Term(9, 15)[1] = Written[11 + 1] /\ Term(9, 15)[2] = Written[11 + 2]
          /\ Term(9, 15)[3] = Written[14]
      BY <1>5, <3>1, <3>2
    <3> QED  BY <3>1, <3>2, <3>3, ThreeContinue
  <2> QED  BY <1>14, <2>1, StartsOn
<1> HIDE DEF s6
<1>16. Starts(s7, 16)
  <2>1. Continues(score, 14, 16)
    <3>1. 14 + 1 = 15 /\ 16 = 14 + 2 /\ 14 \in Nat
      OBVIOUS
    <3>2. score[1] = Written[14 + 1] /\ score[2] = Written[16]
      BY <1>5, <1>9, <3>1
    <3> QED  BY <1>9, <3>1, <3>2, TwoContinue
  <2> QED  BY <1>15, <2>1, StartsOn
<1> HIDE DEF s7
<1>17. Starts(s8, 18)
  <2>1. Continues(set(2, "STORE_SEVERITY"), 16, 18)
    BY <1>5, <1>6, <1>8, TwoContinue
  <2> QED  BY <1>16, <2>1, StartsOn
<1> HIDE DEF s8
<1>18. Starts(s9, 20)
  <2>1. Continues(set(1, "STORE_ROUTE"), 18, 20)
    BY <1>5, <1>6, <1>8, TwoContinue
  <2> QED  BY <1>17, <2>1, StartsOn
<1> HIDE DEF s9
<1>19. Starts(s10, 22)
  <2>1. Continues(set(0, "STORE_SUPPRESS"), 20, 22)
    BY <1>5, <1>6, <1>8, TwoContinue
  <2> QED  BY <1>18, <2>1, StartsOn
<1> HIDE DEF s10
<1>20. Starts(s11, 23)
  <2>1. Continues(halt, 22, 23)
    BY <1>5, <1>9, OneContinues
  <2> QED  BY <1>19, <2>1, StartsOn
<1>21. DefaultPolicy = s11
  <2>1. s7 = Term(7, 40) \o Term(3, 25) \o add \o Term(4, 20) \o add \o Term(9, 15) \o score
    BY DEF s1, s2, s3, s4, s5, s6, s7
  <2>2. s11 = s7 \o set(2, "STORE_SEVERITY") \o set(1, "STORE_ROUTE")
                \o set(0, "STORE_SUPPRESS") \o halt
    BY DEF s8, s9, s10
  <2> QED
    BY <2>1, <2>2 DEF DefaultPolicy, Term, set, add, score, halt
<1> HIDE DEF s11
<1>22. DefaultPolicy = [j \in 1..23 |-> DefaultPolicy[j]]
  BY <1>20, <1>21, LenProperties DEF Starts
<1>23. Written = [j \in 1..23 |-> Written[j]]
  BY DEF Written
<1> QED
  BY <1>20, <1>21, <1>22, <1>23 DEF Starts

\* What stands where in it, and the depths there.
LEMMA WrittenAdmissible ==
    /\ Len(Written) = 23 /\ Len(FallbackDepths) = 24
    /\ \A j \in 1..23 : Admissible(Written[j], FallbackDepths[j], FallbackDepths[j + 1])
    /\ \A j \in 1..23 : Written[j].op = "HALT" <=> j = 23
    /\ \A j \in 1..24 : FallbackDepths[j] \in 0..3
<1>1. Len(Written) = 23 /\ Len(FallbackDepths) = 24
  BY DEF Written, FallbackDepths
<1>2. \A k \in {7, 3, 4, 9}, d \in 0..2 : Admissible(Input(k), d, d + 1)
  <2> TAKE k \in {7, 3, 4, 9}, d \in 0..2
  <2>1. Input(k).op = "LOAD_INPUT" /\ Input(k).kind = "name" /\ Input(k).arg = k
    BY DEF Input
  <2>2. ValidInstruction(Input(k))
    BY <2>1, VelatoAssumption, FallbackAssumption DEF ValidInstruction, LOCAL_OPS
  <2>3. "LOAD_INPUT" \in Op /\ STACK_EFFECTS["LOAD_INPUT"] = <<0, 1>>
    BY PushCounts DEF Op
  <2> HIDE DEF Input
  <2> QED
    BY <2>1, <2>2, <2>3, FallbackAssumption, VelatoAssumption DEF Admissible
<1>3. \A v \in 0..80, d \in 0..2 : Admissible(Const(v), d, d + 1)
  <2> TAKE v \in 0..80, d \in 0..2
  <2>1. Const(v).op = "PUSH_CONST" /\ Const(v).kind = "number" /\ Const(v).arg = v
    BY DEF Const
  <2>2. ValidInstruction(Const(v))
    BY <2>1, VelatoAssumption, FallbackAssumption DEF ValidInstruction, LOCAL_OPS, Finite
  <2>3. "PUSH_CONST" \in Op /\ STACK_EFFECTS["PUSH_CONST"] = <<0, 1>>
    BY PushCounts DEF Op
  <2> QED
    BY <2>1, <2>2, <2>3, FallbackAssumption, VelatoAssumption DEF Admissible
<1>4. \A op \in {"MUL", "ADD"}, d \in 2..3 : Admissible(Plain(op), d, d - 1)
  <2> TAKE op \in {"MUL", "ADD"}, d \in 2..3
  <2>1. Plain(op).op = op /\ Plain(op).kind = "none" /\ op \in Op
    BY DEF Plain, Op, BinaryOps
  <2>2. ValidInstruction(Plain(op))
    BY <2>1 DEF ValidInstruction, LOCAL_OPS
  <2>3. STACK_EFFECTS[op] = <<2, 1>>
    BY <2>1, PushCounts DEF BinaryOps
  <2> QED
    BY <2>1, <2>2, <2>3, FallbackAssumption, VelatoAssumption DEF Admissible
<1>5. \A op \in StoreOps : Admissible(Plain(op), 1, 0)
  <2> TAKE op \in StoreOps
  <2>1. Plain(op).op = op /\ Plain(op).kind = "none" /\ op \in Op
    BY DEF Plain, Op
  <2>2. ValidInstruction(Plain(op))
    BY <2>1 DEF ValidInstruction, LOCAL_OPS, StoreOps
  <2>3. STACK_EFFECTS[op] = <<1, 0>>
    BY <2>1, PushCounts
  <2> QED
    BY <2>1, <2>2, <2>3, FallbackAssumption, VelatoAssumption DEF Admissible
<1>6. Admissible(Plain("HALT"), 0, 0)
  <2>1. Plain("HALT").op = "HALT" /\ Plain("HALT").kind = "none" /\ "HALT" \in Op
    BY DEF Plain, Op
  <2>2. ValidInstruction(Plain("HALT"))
    BY <2>1 DEF ValidInstruction, LOCAL_OPS
  <2>3. STACK_EFFECTS["HALT"] = <<0, 0>>
    BY <2>1 DEF STACK_EFFECTS
  <2> QED
    BY <2>1, <2>2, <2>3, FallbackAssumption, VelatoAssumption DEF Admissible
<1>7. \A j \in 1..23 : \/ j = 1 \/ j = 2 \/ j = 3 \/ j = 4 \/ j = 5 \/ j = 6 \/ j = 7
                       \/ j = 8 \/ j = 9 \/ j = 10 \/ j = 11 \/ j = 12 \/ j = 13
                       \/ j = 14 \/ j = 15 \/ j = 16 \/ j = 17 \/ j = 18 \/ j = 19
                       \/ j = 20 \/ j = 21 \/ j = 22 \/ j = 23
  OBVIOUS
<1>8. \A j \in 1..23 : Admissible(Written[j], FallbackDepths[j], FallbackDepths[j + 1])
  <2> DEFINE good(j) == Admissible(Written[j], FallbackDepths[j], FallbackDepths[j + 1])
  <2>1. good(1) /\ good(4) /\ good(8) /\ good(12)
    BY <1>2 DEF Written, FallbackDepths
  <2>2. /\ good(2) /\ good(5) /\ good(9) /\ good(13) /\ good(17) /\ good(19)
        /\ good(21)
    BY <1>3 DEF Written, FallbackDepths
  <2>3. /\ good(3) /\ good(6) /\ good(7) /\ good(10) /\ good(11) /\ good(14)
        /\ good(15)
    BY <1>4 DEF Written, FallbackDepths
  <2>4. good(16) /\ good(18) /\ good(20) /\ good(22)
    BY <1>5 DEF Written, FallbackDepths, StoreOps
  <2>5. good(23)
    BY <1>6 DEF Written, FallbackDepths
  <2> HIDE DEF good
  <2>6. \A j \in 1..23 : good(j)
    BY <1>7, <2>1, <2>2, <2>3, <2>4, <2>5
  <2> QED
    BY <2>6 DEF good
<1>9. \A j \in 1..23 : Written[j].op = "HALT" <=> j = 23
  BY <1>7 DEF Written, Input, Const, Plain
<1>10. \A j \in 1..24 : FallbackDepths[j] \in 0..3
  BY DEF FallbackDepths
<1> QED
  BY <1>1, <1>8, <1>9, <1>10

\* What compiles to the fallback policy's notes is that policy again.
LEMMA FallbackKept == WithHalt(UpToHalt(DefaultPolicy)) = DefaultPolicy
<1> DEFINE P == DefaultPolicy
           H == {i \in 1..Len(P) : P[i].op = "HALT"}
<1>1. P \in Seq(Instruction) /\ Len(P) = 23 /\ \A j \in 1..23 : P[j].op = "HALT" <=> j = 23
  BY DefaultPolicyWritten, WrittenAdmissible
<1> HIDE DEF P
<1>2. H = {23}
  <2>1. \A i : i \in H <=> i \in 1..23 /\ P[i].op = "HALT"
    BY <1>1
  <2>2. 23 \in 1..23
    OBVIOUS
  <2> HIDE DEF H
  <2> QED
    BY <1>1, <2>1, <2>2
<1>3. UpToFirst(P, H) = SubSeq(P, 1, 23)
  <2> HIDE DEF H
  <2>1. (CHOOSE i \in H : \A j \in H : i <= j) = 23
    BY <1>2
  <2> QED
    BY <1>2, <2>1 DEF UpToFirst
<1>4. SubSeq(P, 1, 23) = P
  BY <1>1, SubSeqProperties
<1>5. UpToHalt(P) = P
  BY <1>3, <1>4 DEF UpToHalt
<1>6. WithHalt(P) = P
  <2>1. P[Len(P)].op = "HALT"
    <3>1. 23 \in 1..23
      OBVIOUS
    <3> QED
      BY <1>1, <3>1
  <2>2. P # <<>>
    <3>1. Len(<<>>) # 23
      OBVIOUS
    <3>2. Len(P) = 23
      BY <1>1
    <3> QED
      BY <3>1, <3>2
  <2> QED
    BY <2>1, <2>2 DEF WithHalt
<1> QED
  BY <1>5, <1>6 DEF P

----------------------------------------------------------------------------
(* The steps *)

\* The next instruction adds what it uses and writes to that of those before it.
LEMMA OneMore ==
    ASSUME NEW n \in Nat
    PROVE  /\ InputsOf(n + 1) = IF ir[n + 1].op = "LOAD_INPUT"
                                THEN InputsOf(n) \cup {ir[n + 1].arg} ELSE InputsOf(n)
           /\ LocalsOf(n + 1) = IF ir[n + 1].op \in LOCAL_OPS
                                THEN LocalsOf(n) \cup {ir[n + 1].arg \div 2} ELSE LocalsOf(n)
           /\ OutputsOf(n + 1) = IF ir[n + 1].op \in StoreOps
                                 THEN OutputsOf(n) \cup {OUTPUT_STORE_OPS[ir[n + 1].op]}
                                 ELSE OutputsOf(n)
<1> DEFINE ins == ir[n + 1]
<1>1. First(n + 1) = First(n) \cup {ins}
  <2>1. \A i \in 1..(n + 1) : i \in 1..n \/ i = n + 1
    OBVIOUS
  <2>2. n + 1 \in 1..(n + 1) /\ \A i \in 1..n : i \in 1..(n + 1)
    OBVIOUS
  <2> QED
    BY <2>1, <2>2 DEF First
<1> HIDE DEF ins
<1>2. InputsOf(n + 1) = IF ins.op = "LOAD_INPUT" THEN InputsOf(n) \cup {ins.arg}
                        ELSE InputsOf(n)
  BY <1>1 DEF InputsOf
<1>3. LocalsOf(n + 1) = IF ins.op \in LOCAL_OPS THEN LocalsOf(n) \cup {ins.arg \div 2}
                        ELSE LocalsOf(n)
  BY <1>1 DEF LocalsOf
<1>4. OutputsOf(n + 1) = IF ins.op \in StoreOps
                         THEN OutputsOf(n) \cup {OUTPUT_STORE_OPS[ins.op]} ELSE OutputsOf(n)
  BY <1>1 DEF OutputsOf
<1> QED
  BY <1>2, <1>3, <1>4 DEF ins

\* A step that keeps the instructions analysed so far and what is known of them.
LEMMA GatheredFrame ==
    ASSUME GatheredInv, an.count \in Nat, UNCHANGED <<an, depths>>,
           \A i \in 1..an.count : ir'[i] = ir[i]
    PROVE  GatheredInv'
<1>1. First(an.count)' = First(an.count)
  BY DEF First
<1>2. /\ InputsOf(an.count)' = InputsOf(an.count)
      /\ LocalsOf(an.count)' = LocalsOf(an.count)
      /\ OutputsOf(an.count)' = OutputsOf(an.count)
  BY <1>1 DEF InputsOf, LocalsOf, OutputsOf
<1> QED
  BY <1>2 DEF GatheredInv, Deepest

\* A new analysis has gathered nothing.
LEMMA GatheredFresh ==
    ASSUME NEW require, an' = FreshAnalysis(require), depths' = FreshDepths
    PROVE  GatheredInv'
<1>1. /\ an'.count = 0 /\ an'.index = 1 /\ an'.maxDepth = 0 /\ an'.inputs = {}
      /\ an'.locals = {} /\ an'.written = {} /\ depths'[1] = 0
  BY DEF FreshAnalysis, FreshDepths
<1>2. First(an.count)' = {}
  BY <1>1 DEF First
<1>3. InputsOf(an.count)' = {} /\ LocalsOf(an.count)' = {} /\ OutputsOf(an.count)' = {}
  BY <1>2 DEF InputsOf, LocalsOf, OutputsOf
<1>4. Deepest(an.maxDepth, an.index)'
  BY <1>1 DEF Deepest
<1> QED
  BY <1>1, <1>3, <1>4 DEF GatheredInv

\* What the analysis of one instruction does to its locals.
LEMMA Analysed ==
    ASSUME Inv, AnalyzeInstruction
    PROVE  /\ an.count \in Nat /\ an.index = an.count + 1 /\ an.index \in 1..Len(ir)
           /\ an'.count = an.count + 1 /\ an'.index = an.index + 1
           /\ an'.require = an.require
           /\ an'.maxDepth = Larger(an.maxDepth, depths'[an'.index])
           /\ an.maxDepth \in Nat /\ depths'[an'.index] \in Nat
           /\ depths'[an'.index] = NextDepth
           /\ \A j \in 1..an.index : depths'[j] = depths[j]
           /\ an'.inputs = IF ir[an.index].op = "LOAD_INPUT"
                           THEN an.inputs \cup {ir[an.index].arg} ELSE an.inputs
           /\ an'.locals = IF ir[an.index].op \in LOCAL_OPS
                           THEN an.locals \cup {ir[an.index].arg \div 2} ELSE an.locals
           /\ an'.written = IF ir[an.index].op \in StoreOps
                            THEN an.written \cup {OUTPUT_STORE_OPS[ir[an.index].op]}
                            ELSE an.written
<1>1. /\ WellFormed /\ ~an.halted /\ ~(an.index > Len(ir)) /\ InstructionOK
      /\ depths' = Append(depths, NextDepth)
  BY DEF AnalyzeInstruction, Scanned
<1>2. /\ ir \in Seq(Instruction) /\ an \in Analysis /\ Len(ir) \in Nat
      /\ an.index \in Nat /\ an.count \in Nat /\ an.index = an.count + 1
      /\ an.depth \in Nat /\ an.maxDepth \in Nat
  BY LenProperties DEF Inv, Typed, Analysis, AnalysisInv
<1>3. an.index \in 1..Len(ir)
  BY <1>1, <1>2
<1>4. NextDepth \in Nat
  <2>1. ir[an.index].op \in Op
    BY <1>1, <1>3 DEF WellFormed
  <2>2. /\ STACK_EFFECTS[ir[an.index].op][1] \in Nat
        /\ STACK_EFFECTS[ir[an.index].op][2] \in Nat
    BY <2>1, EffectsTyped
  <2> DEFINE p == STACK_EFFECTS[ir[an.index].op][1]
             q == STACK_EFFECTS[ir[an.index].op][2]
             d == an.depth
  <2>3. d >= p
    BY <1>1 DEF InstructionOK
  <2>4. d \in Nat /\ p \in Nat /\ q \in Nat /\ NextDepth = d - p + q
    BY <1>2, <2>2 DEF NextDepth
  <2> HIDE DEF d, p, q
  <2> QED
    BY <2>3, <2>4
<1>5. depths \in Seq(Nat) /\ Len(depths) = an.index
  BY <1>2 DEF Inv, AnalysisInv, Chain
<1>6. /\ depths'[an.index + 1] = NextDepth
      /\ \A j \in 1..an.index : depths'[j] = depths[j]
  BY <1>1, <1>2, <1>4, <1>5, AppendProperties
<1>7. /\ an'.index = an.index + 1 /\ an'.count = an.count + 1
      /\ an'.maxDepth = Larger(an.maxDepth, NextDepth) /\ an'.require = an.require
      /\ an'.inputs = IF ir[an.index].op = "LOAD_INPUT"
                      THEN an.inputs \cup {ir[an.index].arg} ELSE an.inputs
      /\ an'.locals = IF ir[an.index].op \in LOCAL_OPS
                      THEN an.locals \cup {ir[an.index].arg \div 2} ELSE an.locals
      /\ an'.written = IF ir[an.index].op \in StoreOps
                       THEN an.written \cup {OUTPUT_STORE_OPS[ir[an.index].op]}
                       ELSE an.written
  BY <1>2 DEF AnalyzeInstruction, Analysis
<1> QED
  BY <1>2, <1>3, <1>4, <1>6, <1>7

\* The larger of the deepest so far and one more depth is the deepest.
LEMMA DeepestGrows ==
    ASSUME NEW n \in Nat, NEW m \in Nat, Deepest(m, n), NEW k \in Nat,
           \A j \in 1..n : depths'[j] = depths[j], \A j \in 1..n : depths[j] \in Nat,
           depths'[n + 1] = k, NEW l, l = Larger(m, k)
    PROVE  /\ \A j \in 1..(n + 1) : depths'[j] <= l
           /\ \E j \in 1..(n + 1) : depths'[j] = l
<1>1. l \in Nat /\ m <= l /\ k <= l /\ (l = m \/ l = k)
  BY DEF Larger
<1>2. \A j \in 1..(n + 1) : depths'[j] <= l
  <2> TAKE j \in 1..(n + 1)
  <2>1. CASE j = n + 1
    BY <1>1, <2>1
  <2>2. CASE j \in 1..n
    <3>1. depths'[j] \in Nat /\ depths'[j] <= m
      BY <2>2 DEF Deepest
    <3> QED
      BY <1>1, <3>1
  <2> QED
    BY <2>1, <2>2
<1>3. \E j \in 1..(n + 1) : depths'[j] = l
  <2>1. CASE l = k
    <3>1. n + 1 \in 1..(n + 1)
      OBVIOUS
    <3> QED
      BY <2>1, <3>1
  <2>2. CASE l = m
    <3>1. PICK j \in 1..n : depths[j] = m
      BY DEF Deepest
    <3>2. j \in 1..(n + 1) /\ depths'[j] = l
      BY <2>2, <3>1
    <3> QED
      BY <3>2
  <2> QED
    BY <1>1, <2>1, <2>2
<1> QED
  BY <1>2, <1>3

\* One iteration of analyze_ir gathers what its instruction uses.
LEMMA AnalyzeGathered ==
    ASSUME Inv, GatheredInv, AnalyzeInstruction
    PROVE  GatheredInv'
<1> DEFINE n == an.count
<1>1. n \in Nat /\ an.index = n + 1 /\ an'.count = n + 1 /\ an'.index = an.index + 1
  BY Analysed
<1>2. ir' = ir
  BY DEF AnalyzeInstruction
<1>3. /\ InputsOf(an.count)' = InputsOf(n + 1) /\ LocalsOf(an.count)' = LocalsOf(n + 1)
      /\ OutputsOf(an.count)' = OutputsOf(n + 1)
  BY <1>1, <1>2 DEF InputsOf, LocalsOf, OutputsOf, First
<1>4. an'.inputs = InputsOf(n + 1) /\ an'.locals = LocalsOf(n + 1)
      /\ an'.written = OutputsOf(n + 1)
  <2>1. an.inputs = InputsOf(n) /\ an.locals = LocalsOf(n) /\ an.written = OutputsOf(n)
    BY DEF GatheredInv
  <2> HIDE DEF n
  <2> QED
    BY <1>1, <2>1, Analysed, OneMore
<1>5. Deepest(an.maxDepth, an.index)'
  <2>1. Deepest(an.maxDepth, an.index)
    BY DEF GatheredInv
  <2>2. \A j \in 1..an.index : depths[j] \in Nat
    <3>1. depths \in Seq(Nat) /\ Len(depths) = an.index
      BY <1>1 DEF Inv, AnalysisInv, Chain
    <3> QED
      BY <3>1, ElementOfSeq
  <2>3. /\ \A j \in 1..(an.index + 1) : depths'[j] <= an'.maxDepth
        /\ \E j \in 1..(an.index + 1) : depths'[j] = an'.maxDepth
    <3> DEFINE i == an.index
               m == an.maxDepth
               k == depths'[an'.index]
               l == an'.maxDepth
    <3>1. /\ i \in Nat /\ m \in Nat /\ k \in Nat /\ l = Larger(m, k) /\ depths'[i + 1] = k
          /\ \A j \in 1..i : depths'[j] = depths[j]
      BY <1>1, Analysed
    <3>2. Deepest(m, i) /\ \A j \in 1..i : depths[j] \in Nat
      BY <2>1, <2>2
    <3> HIDE DEF i, m, k, l
    <3>3. /\ \A j \in 1..(i + 1) : depths'[j] <= l
          /\ \E j \in 1..(i + 1) : depths'[j] = l
      BY <3>1, <3>2, DeepestGrows
    <3> QED
      BY <3>3 DEF i, l
  <2> QED
    BY <1>1, <2>3 DEF Deepest
<1> QED
  BY <1>3, <1>4, <1>5 DEF GatheredInv

\* The notes of a rendered program: they are those of a file, and they compile to
\* the program up to its first HALT.
LEMMA RenderedCompiles ==
    ASSUME NEW code, NEW notes, NEW root \in Roots, NEW n \in Nat,
           RenderedFrom(code, notes, root, n)
    PROVE  /\ notes \in Seq(MidiEvent)
           /\ compilable(parse_midi(notes))
           /\ compile_notes(parse_midi(notes)) = WithHalt(UpToHalt(code))
<1>1. /\ notes = encode_midi(code, root) /\ notes \in Seq(MidiNote)
      /\ parse_midi(notes) = notes /\ compilable(notes)
      /\ compile_notes(notes) = WithHalt(UpToHalt(code))
  BY RoundTrip DEF RenderedFrom
<1>2. notes \in Seq(MidiEvent)
  <2>1. \A e \in MidiNote : e \in MidiEvent
    BY DEF MidiNote, MidiEvent
  <2>2. Len(notes) \in Nat /\ notes = [i \in 1..Len(notes) |-> notes[i]]
        /\ \A i \in 1..Len(notes) : notes[i] \in MidiEvent
    BY <1>1, <2>1, LenProperties, ElementOfSeq
  <2> QED
    BY <2>2, IsASeq
<1> QED
  BY <1>1, <1>2

\* encode_midi renders a program that was verified.
LEMMA EncodeRenders ==
    ASSUME Inv, NEW root \in Roots, EncodeMidi(root)
    PROVE  \E n \in 0..Len(ir) : RenderedFrom(ir, midi', root, n)
<1>1. /\ phase = "verified" /\ midi' = encode_midi(ir, root)
      /\ \A i \in 1..Len(ir) : Encodable(ir[i])
  BY DEF EncodeMidi
<1>2. WellFormed /\ ir \in Seq(Instruction)
  BY <1>1 DEF Inv, CertifiedInv, Typed
<1>3. PICK d \in Seq(Nat), n \in Nat : Chain(d, n) /\ Reach(n)
  BY <1>1 DEF Inv, CertifiedInv
<1>4. n \in 0..Len(ir) /\ \A j \in 1..n : ValidInstruction(ir[j])
  BY <1>3 DEF Chain, Admissible
<1>5. RenderedFrom(ir, midi', root, n)
  BY <1>1, <1>2, <1>3, <1>4 DEF RenderedFrom, WellFormed, Reach
<1> QED
  BY <1>4, <1>5

\* Notes that were rendered from a program compile, to that program up to its HALT.
LEMMA CompileRendered ==
    ASSUME NotesInv, ir \in Seq(Instruction), CompileMidi, ir # <<>>
    PROVE  /\ phase' = "compiling" /\ ir' = WithHalt(UpToHalt(ir))
           /\ an' = FreshAnalysis(FALSE) /\ depths' = FreshDepths
<1>1. phase = "midi"
  BY DEF CompileMidi
<1>2. PICK root \in Roots, n \in 0..Len(ir) : RenderedFrom(ir, midi, root, n)
  BY <1>1 DEF NotesInv
<1>3. n \in Nat
  BY LenProperties
<1>4. /\ compilable(parse_midi(midi))
      /\ compile_notes(parse_midi(midi)) = WithHalt(UpToHalt(ir))
  BY <1>2, <1>3, RenderedCompiles
<1> QED
  BY <1>1, <1>4 DEF CompileMidi, StartAnalysis

\* The labels, the number of fragments and the notes keep their types.
LEMMA LabelsStep ==
    ASSUME IInv, [Next]_vars
    PROVE  Labels'
<1>0. Labels /\ Inv
  BY DEF IInv
<1>1. ASSUME NEW f \in Fragments, Extend(f) PROVE Labels'
  <2>1. /\ parts < MaxFragments /\ parts' = parts + 1
        /\ UNCHANGED <<phase, engine, midi, error>>
    BY <1>1 DEF Extend
  <2>2. parts' \in 0..MaxFragments
    <3>1. parts \in 0..MaxFragments /\ MaxFragments \in Nat
      BY <1>0, VelatoAssumption DEF Labels
    <3> QED
      BY <2>1, <3>1
  <2> QED
    BY <1>0, <2>1, <2>2 DEF Labels
<1>2. ASSUME NEW require \in BOOLEAN, Build(require) PROVE Labels'
  BY <1>0, <1>2 DEF Build, StartAnalysis, Labels
<1>3. CASE Deserialize
  BY <1>0, <1>3 DEF Deserialize, StartAnalysis, Labels
<1>4. ASSUME NEW events \in MidiFiles, Upload(events) PROVE Labels'
  BY <1>0, <1>4, MidiAssumption DEF Upload, Labels
<1>5. ASSUME NEW root \in Roots, EncodeMidi(root) PROVE Labels'
  <2>1. PICK n \in 0..Len(ir) : RenderedFrom(ir, midi', root, n)
    BY <1>0, <1>5, EncodeRenders
  <2>2. ir \in Seq(Instruction)
    BY <1>0 DEF Inv, Typed
  <2>3. n \in Nat
    BY <2>2, LenProperties
  <2>4. midi' \in Seq(MidiEvent)
    BY <2>1, <2>3, RenderedCompiles
  <2> QED
    BY <1>0, <1>5, <2>4 DEF EncodeMidi, Labels
<1>6. ASSUME NEW inputs \in Requests, Execute(inputs) PROVE Labels'
  BY <1>0, <1>6 DEF Execute, StartAnalysis, Labels
<1>7. CASE CompileMidi
  BY <1>0, <1>7 DEF CompileMidi, StartAnalysis, Labels
<1>8. CASE AnalyzeInstruction
  BY <1>0, <1>8 DEF AnalyzeInstruction, Labels
<1>9. CASE AnalyzeReject
  BY <1>0, <1>9 DEF AnalyzeReject, Labels
<1>10. CASE Verify
  BY <1>0, <1>10 DEF Verify, Labels
<1>11. CASE StartRun
  BY <1>0, <1>11 DEF StartRun, Labels
<1>12. CASE Step
  BY <1>0, <1>12 DEF Step, Labels
<1>13. CASE Raise
  <2>1. Raises(ir[vm.ip]) \subseteq {"instruction limit", "underflow", "domain",
                                     "non-finite", "stack limit"}
    BY Zenon DEF Raises
  <2> QED
    BY <1>0, <1>13, <2>1 DEF Raise, Labels
<1>14. CASE Halt
  BY <1>0, <1>14 DEF Halt, Labels
<1>15. CASE EndOfProgram
  BY <1>0, <1>15 DEF EndOfProgram, Labels
<1>16. CASE Fallback
  BY <1>0, <1>16 DEF Fallback, StartAnalysis, Labels
<1>17. CASE Discard
  <2>1. <<>> \in Seq(MidiEvent)
    BY EmptySeq
  <2>2. 0 \in 0..MaxFragments
    BY VelatoAssumption
  <2>3. /\ phase' = "writing" /\ parts' = 0 /\ midi' = <<>> /\ engine' = "velato"
        /\ error' = error
    BY <1>17 DEF Discard
  <2> QED
    BY <1>0, <2>1, <2>2, <2>3 DEF Labels
<1>18. CASE UNCHANGED vars
  BY <1>0, <1>18 DEF vars, Labels
<1> QED
  BY <1>1, <1>2, <1>3, <1>4, <1>5, <1>6, <1>7, <1>8, <1>9, <1>10, <1>11, <1>12,
     <1>13, <1>14, <1>15, <1>16, <1>17, <1>18 DEF Next, Client, Engine

\* Notes that wait to be compiled are a file's, or those of the program.
LEMMA NotesStep ==
    ASSUME IInv, [Next]_vars
    PROVE  NotesInv'
<1>0. NotesInv /\ Inv /\ Labels
  BY DEF IInv
<1>1. ASSUME NEW f \in Fragments, Extend(f) PROVE NotesInv'
  <2>1. phase' = "writing" /\ parts' = parts + 1
    BY <1>1 DEF Extend
  <2>2. parts + 1 # 0
    <3>1. parts \in 0..MaxFragments /\ MaxFragments \in Nat
      BY <1>0, VelatoAssumption DEF Labels
    <3> QED
      BY <3>1
  <2> QED
    BY <2>1, <2>2 DEF NotesInv
<1>2. ASSUME phase' \notin {"writing", "midi"} PROVE NotesInv'
  BY <1>2 DEF NotesInv
<1>3. ASSUME NEW require \in BOOLEAN, Build(require) PROVE NotesInv'
  BY <1>2, <1>3 DEF Build, StartAnalysis
<1>4. CASE Deserialize
  BY <1>2, <1>4 DEF Deserialize, StartAnalysis
<1>5. ASSUME NEW events \in MidiFiles, Upload(events) PROVE NotesInv'
  <2>1. ir' = <<>> /\ phase' = "midi"
    BY <1>0, <1>5 DEF Upload, NotesInv
  <2> QED
    BY <2>1 DEF NotesInv
<1>6. ASSUME NEW root \in Roots, EncodeMidi(root) PROVE NotesInv'
  <2>1. PICK n \in 0..Len(ir) : RenderedFrom(ir, midi', root, n)
    BY <1>0, <1>6, EncodeRenders
  <2>2. ir' = ir /\ phase' = "midi"
    BY <1>6 DEF EncodeMidi
  <2>3. n \in 0..Len(ir') /\ RenderedFrom(ir', midi', root, n)
    BY <2>1, <2>2
  <2> QED
    BY <2>2, <2>3 DEF NotesInv
<1>7. ASSUME NEW inputs \in Requests, Execute(inputs) PROVE NotesInv'
  BY <1>2, <1>7 DEF Execute, StartAnalysis
<1>8. CASE CompileMidi
  BY <1>2, <1>8 DEF CompileMidi, StartAnalysis
<1>9. CASE AnalyzeInstruction
  BY <1>2, <1>9 DEF AnalyzeInstruction, Analyzing
<1>10. CASE AnalyzeReject
  BY <1>2, <1>10 DEF AnalyzeReject
<1>11. CASE Verify
  BY <1>2, <1>11 DEF Verify
<1>12. CASE StartRun
  BY <1>2, <1>12 DEF StartRun
<1>13. CASE Step
  BY <1>2, <1>13 DEF Step, Running
<1>14. CASE Raise
  BY <1>2, <1>14 DEF Raise
<1>15. CASE Halt
  BY <1>2, <1>15 DEF Halt
<1>16. CASE EndOfProgram
  BY <1>2, <1>16 DEF EndOfProgram
<1>17. CASE Fallback
  BY <1>2, <1>17 DEF Fallback, StartAnalysis
<1>18. CASE Discard
  BY <1>18 DEF Discard, NotesInv
<1>19. CASE UNCHANGED vars
  BY <1>0, <1>19 DEF vars, NotesInv
<1> QED
  BY <1>1, <1>3, <1>4, <1>5, <1>6, <1>7, <1>8, <1>9, <1>10, <1>11, <1>12,
     <1>13, <1>14, <1>15, <1>16, <1>17, <1>18, <1>19 DEF Next, Client, Engine

\* Every step keeps what the analysis reports true of the instructions it passed.
LEMMA GatheredStep ==
    ASSUME IInv, [Next]_vars
    PROVE  GatheredInv'
<1>0. GatheredInv /\ Inv
  BY DEF IInv
<1>1. an.count \in Nat /\ an.count <= Len(ir) /\ ir \in Seq(Instruction)
  BY <1>0, LenProperties DEF Inv, Typed, Analysis, AnalysisInv, Chain
<1>2. ASSUME UNCHANGED <<ir, an, depths>> PROVE GatheredInv'
  BY <1>0, <1>1, <1>2, GatheredFrame
<1>3. ASSUME NEW require, StartAnalysis("compiling", require)
             \/ StartAnalysis("checking", require)
      PROVE  GatheredInv'
  BY <1>3, GatheredFresh DEF StartAnalysis
<1>4. ASSUME NEW f \in Fragments, Extend(f) PROVE GatheredInv'
  <2>1. UNCHANGED <<an, depths>> /\ ir' = ir \o f
    BY <1>4 DEF Extend
  <2>2. \A i \in 1..Len(ir) : ir'[i] = ir[i]
    <3>1. f \in Seq(Instruction)
      BY FragmentsAssumption
    <3> QED
      BY <1>1, <2>1, <3>1, ConcatProperties, LenProperties
  <2>3. \A i \in 1..an.count : ir'[i] = ir[i]
    <3>1. Len(ir) \in Nat
      BY <1>1, LenProperties
    <3> QED
      BY <1>1, <2>2, <3>1
  <2> QED
    BY <1>0, <1>1, <2>1, <2>3, GatheredFrame
<1>5. ASSUME NEW require \in BOOLEAN, Build(require) PROVE GatheredInv'
  BY <1>3, <1>5 DEF Build
<1>6. CASE Deserialize
  BY <1>3, <1>6 DEF Deserialize
<1>7. ASSUME NEW events \in MidiFiles, Upload(events) PROVE GatheredInv'
  BY <1>2, <1>7 DEF Upload
<1>8. ASSUME NEW root \in Roots, EncodeMidi(root) PROVE GatheredInv'
  BY <1>2, <1>8 DEF EncodeMidi
<1>9. ASSUME NEW inputs \in Requests, Execute(inputs) PROVE GatheredInv'
  BY <1>3, <1>9 DEF Execute
<1>10. CASE CompileMidi
  <2>1. StartAnalysis("compiling", FALSE) \/ UNCHANGED <<ir, an, depths>>
    BY <1>10 DEF CompileMidi
  <2> QED
    BY <1>2, <1>3, <2>1
<1>11. CASE AnalyzeInstruction
  BY <1>0, <1>11, AnalyzeGathered
<1>12. CASE AnalyzeReject \/ Verify \/ StartRun
  BY <1>2, <1>12 DEF AnalyzeReject, Verify, StartRun
<1>13. CASE Step \/ Raise \/ Halt \/ EndOfProgram
  BY <1>2, <1>13 DEF Step, Raise, Halt, EndOfProgram
<1>14. CASE Fallback
  BY <1>3, <1>14 DEF Fallback
<1>15. CASE Discard
  BY <1>15, GatheredFresh DEF Discard
<1>16. CASE UNCHANGED vars
  BY <1>2, <1>16 DEF vars
<1> QED
  BY <1>4, <1>5, <1>6, <1>7, <1>8, <1>9, <1>10, <1>11, <1>12, <1>13, <1>14, <1>15,
     <1>16 DEF Next, Client, Engine

\* What one iteration of execute's loop does to its counters and outputs.
LEMMA StepFollows ==
    ASSUME Inv, Step
    PROVE  /\ vm'.executed = vm.executed + 1
           /\ vm'.maxDepth = Larger(vm.maxDepth, depths[vm.ip + 1])
           /\ \A name \in OUTPUTS :
                ~(ir[vm.ip].op \in StoreOps /\ name = OUTPUT_STORE_OPS[ir[vm.ip].op])
                  => vm'.out[name] = vm.out[name]
<1> DEFINE ins == ir[vm.ip]
<1>1. Running /\ ins.op # "HALT"
  BY DEF Step
<1>2. PICK new \in Pushed(ins) :
        vm' = [vm EXCEPT
                 !.ip = @ + 1,
                 !.executed = @ + 1,
                 !.stack = Below(ins) \o new,
                 !.maxDepth = Larger(@, Len(Below(ins)) + Len(new)),
                 !.locals = IF ins.op = "STORE_LOCAL"
                            THEN [@ EXCEPT ![ins.arg \div 2] = Popped(ins)[1]]
                            ELSE @,
                 !.out = IF ins.op \in StoreOps
                         THEN LET name == OUTPUT_STORE_OPS[ins.op]
                              IN  [@ EXCEPT ![name] = Stored(name, Popped(ins)[1])]
                         ELSE @]
  BY DEF Step
<1>3. Len(Below(ins)) + Len(new) = depths[vm.ip + 1]
  BY <1>1, NewDepth
<1>4. vm \in Machine
  BY DEF Inv, Typed
<1> HIDE DEF ins
<1>5. /\ vm'.executed = vm.executed + 1
      /\ vm'.maxDepth = Larger(vm.maxDepth, Len(Below(ins)) + Len(new))
      /\ vm'.out = IF ins.op \in StoreOps
                   THEN [vm.out EXCEPT ![OUTPUT_STORE_OPS[ins.op]] =
                           Stored(OUTPUT_STORE_OPS[ins.op], Popped(ins)[1])]
                   ELSE vm.out
  BY <1>2, <1>4 DEF Machine
<1>6. \A name \in OUTPUTS : name \in DOMAIN vm.out
  BY <1>4 DEF Machine, OUTPUTS
<1>7. \A name \in OUTPUTS :
        ~(ins.op \in StoreOps /\ name = OUTPUT_STORE_OPS[ins.op])
          => vm'.out[name] = vm.out[name]
  BY <1>5, <1>6
<1> QED
  BY <1>3, <1>5, <1>7 DEF ins

\* A run's counters go on agreeing with the analysis.
LEMMA StepFollowed ==
    ASSUME Inv, FollowedInv, Step
    PROVE  FollowedInv'
<1>1. Running /\ phase = "running" /\ UNCHANGED <<phase, ir, an, depths>>
  BY DEF Step, Running
<1> DEFINE i == vm.ip
<1>2. i \in 1..an.count /\ i \in Nat /\ i >= 1 /\ an.count \in Nat /\ an.index = an.count + 1
  BY <1>1, Here DEF Inv, Typed, Analysis, AnalysisInv
<1>3. /\ vm.executed = i - 1 /\ Deepest(vm.maxDepth, i)
      /\ \A name \in OUTPUTS \ OutputsOf(i - 1) : vm.out[name] = 0
  BY <1>1 DEF FollowedInv
<1>4. /\ vm'.ip = i + 1 /\ vm'.executed = vm.executed + 1
      /\ vm'.maxDepth = Larger(vm.maxDepth, depths[i + 1])
  BY StepTyped, StepFollows
<1>5. vm.maxDepth \in Nat
  BY DEF Inv, Typed, Machine
<1>6. \A j \in 1..(i + 1) : depths[j] \in Nat
  <2>1. depths \in Seq(Nat) /\ Len(depths) = an.count + 1
    BY DEF Inv, AnalysisInv, Chain
  <2>2. \A j \in 1..(i + 1) : j \in 1..(an.count + 1)
    BY <1>2
  <2> QED
    BY <2>1, <2>2, ElementOfSeq
<1>7. Deepest(vm.maxDepth, vm.ip)'
  <2> DEFINE m == vm.maxDepth
             l == vm'.maxDepth
             k == depths[i + 1]
  <2>1. m \in Nat /\ k \in Nat /\ l = Larger(m, k) /\ Deepest(m, i) /\ i \in Nat
    BY <1>2, <1>3, <1>4, <1>5, <1>6
  <2>2. /\ depths'[i + 1] = k /\ \A j \in 1..i : depths'[j] = depths[j]
        /\ \A j \in 1..i : depths[j] \in Nat
    BY <1>1, <1>2, <1>6
  <2> HIDE DEF m, l, k, i
  <2>3. (\A j \in 1..(i + 1) : depths'[j] <= l) /\ (\E j \in 1..(i + 1) : depths'[j] = l)
    BY <2>1, <2>2, DeepestGrows
  <2> QED
    BY <1>4, <2>3 DEF Deepest, l
<1>8. vm'.executed = vm'.ip - 1
  BY <1>2, <1>3, <1>4
<1>9. \A name \in OUTPUTS \ OutputsOf(vm.ip - 1)' : vm'.out[name] = 0
  <2>1. OutputsOf(vm.ip - 1)' = OutputsOf(i)
    <3>1. vm'.ip - 1 = i
      BY <1>2, <1>4
    <3> HIDE DEF i
    <3> QED
      BY <1>1, <3>1 DEF OutputsOf, First
  <2>2. OutputsOf(i) = IF ir[i].op \in StoreOps
                       THEN OutputsOf(i - 1) \cup {OUTPUT_STORE_OPS[ir[i].op]}
                       ELSE OutputsOf(i - 1)
    <3> DEFINE n == i - 1
    <3>1. n \in Nat /\ n + 1 = i
      BY <1>2
    <3> HIDE DEF n, i
    <3>2. OutputsOf(n + 1) = IF ir[n + 1].op \in StoreOps
                             THEN OutputsOf(n) \cup {OUTPUT_STORE_OPS[ir[n + 1].op]}
                             ELSE OutputsOf(n)
      BY <3>1, OneMore
    <3> QED
      BY <3>1, <3>2 DEF n
  <2>3. \A name \in OUTPUTS :
          ~(ir[i].op \in StoreOps /\ name = OUTPUT_STORE_OPS[ir[i].op])
            => vm'.out[name] = vm.out[name]
    BY StepFollows
  <2> HIDE DEF i
  <2> QED
    BY <1>3, <2>1, <2>2, <2>3
<1> QED
  BY <1>1, <1>7, <1>8, <1>9 DEF FollowedInv

\* There is one deepest.
LEMMA DeepestOne ==
    ASSUME NEW n, NEW a \in Nat, NEW b \in Nat, Deepest(a, n), Deepest(b, n)
    PROVE  a = b
  BY DEF Deepest

\* A run that ends at HALT or behind the last instruction has done what the
\* analysis says.
LEMMA EndFollowed ==
    ASSUME Inv, GatheredInv, FollowedInv, Halt \/ EndOfProgram
    PROVE  FollowedInv'
<1> DEFINE i == vm.ip
<1>1. /\ phase = "running" /\ phase' = "done" /\ UNCHANGED <<ir, an, depths>>
      /\ vm'.stack = vm.stack /\ vm'.maxDepth = vm.maxDepth /\ vm'.out = vm.out
  BY DEF Halt, EndOfProgram, Running, Inv, Typed, Machine
<1>2. /\ an.count \in Nat /\ an.index = an.count + 1 /\ an.maxDepth \in Nat
      /\ vm.maxDepth \in Nat /\ i \in Nat /\ i >= 1 /\ an.count <= Len(ir)
      /\ Len(ir) \in Nat
  BY LenProperties DEF Inv, Typed, Analysis, Machine, AnalysisInv, Chain
<1>3. /\ vm.executed = i - 1 /\ Deepest(vm.maxDepth, i)
      /\ \A name \in OUTPUTS \ OutputsOf(i - 1) : vm.out[name] = 0
  BY <1>1 DEF FollowedInv
<1>4. an.written = OutputsOf(an.count) /\ Deepest(an.maxDepth, an.index)
  BY DEF GatheredInv
<1>5. /\ Len(vm.stack) = depths[i] /\ i <= an.index
      /\ an.depth = depths[an.index]
  BY <1>1 DEF Inv, RunInv, AnalysisInv
<1>6. CASE Halt
  <2>1. Running /\ ir[i].op = "HALT" /\ vm'.executed = vm.executed + 1
    BY <1>6 DEF Halt, Inv, Typed, Machine
  <2>2. i \in 1..an.count /\ Admissible(ir[i], Len(vm.stack), depths[i + 1])
    BY <2>1, Here
  <2>3. i = an.count
    BY <2>1, <2>2 DEF Inv, AnalysisInv
  <2>4. depths[i + 1] = depths[i]
    <3>1. STACK_EFFECTS["HALT"] = <<0, 0>>
      BY DEF STACK_EFFECTS, Op
    <3>2. depths[i + 1] = Len(vm.stack) - 0 + 0
      BY <2>1, <2>2, <3>1 DEF Admissible
    <3>3. Len(vm.stack) \in Nat
      BY MachineFields DEF Inv, Typed
    <3> QED
      BY <1>5, <3>2, <3>3
  <2>5. Deepest(an.maxDepth, i)
    <3>1. an.index = i + 1
      BY <1>2, <2>3
    <3>2. \A j \in 1..i : depths[j] <= an.maxDepth
      BY <1>2, <1>4, <3>1 DEF Deepest
    <3>3. PICK j \in 1..(i + 1) : depths[j] = an.maxDepth
      BY <1>4, <3>1 DEF Deepest
    <3>4. j \in 1..i \/ j = i + 1
      BY <1>2
    <3>5. i \in 1..i
      BY <1>2
    <3> QED
      BY <2>4, <3>2, <3>3, <3>4, <3>5 DEF Deepest
  <2>6. vm.maxDepth = an.maxDepth
    BY <1>2, <1>3, <2>5, DeepestOne
  <2>7. vm'.executed = an.count
    BY <1>2, <1>3, <2>1, <2>3
  <2>8. Len(vm.stack) = an.depth
    BY <1>2, <1>5, <2>3, <2>4
  <2>9. OutputsOf(i) = OutputsOf(i - 1)
    <3> DEFINE n == i - 1
    <3>1. n \in Nat /\ n + 1 = i
      BY <1>2
    <3> HIDE DEF n, i
    <3>2. OutputsOf(n + 1) = IF ir[n + 1].op \in StoreOps
                             THEN OutputsOf(n) \cup {OUTPUT_STORE_OPS[ir[n + 1].op]}
                             ELSE OutputsOf(n)
      BY <3>1, OneMore
    <3>3. ir[n + 1].op \notin StoreOps
      BY <2>1, <3>1 DEF StoreOps
    <3> QED
      BY <3>1, <3>2, <3>3 DEF n
  <2>10. \A name \in OUTPUTS \ an.written : vm.out[name] = 0
    BY <1>3, <1>4, <2>3, <2>9
  <2> QED
    BY <1>1, <2>6, <2>7, <2>8, <2>10 DEF FollowedInv
<1>7. CASE EndOfProgram
  <2>1. i > Len(ir) /\ vm' = vm
    BY <1>7 DEF EndOfProgram
  <2>2. i = an.count + 1
    BY <1>2, <1>5, <2>1
  <2>3. vm.maxDepth = an.maxDepth
    BY <1>2, <1>3, <1>4, <2>2, DeepestOne
  <2>4. i - 1 = an.count
    BY <1>2, <2>2
  <2> QED
    BY <1>1, <1>2, <1>3, <1>4, <1>5, <2>1, <2>2, <2>3, <2>4 DEF FollowedInv
<1> QED
  BY <1>6, <1>7

\* Every step keeps a run and its analysis in agreement.
LEMMA FollowedStep ==
    ASSUME IInv, [Next]_vars
    PROVE  FollowedInv'
<1>0. FollowedInv /\ GatheredInv /\ Inv
  BY DEF IInv
<1>1. ASSUME phase' \notin {"checking", "running", "done"} PROVE FollowedInv'
  BY <1>1 DEF FollowedInv
<1>2. ASSUME NEW f \in Fragments, Extend(f) PROVE FollowedInv'
  BY <1>1, <1>2 DEF Extend
<1>3. ASSUME NEW require \in BOOLEAN, Build(require) PROVE FollowedInv'
  BY <1>1, <1>3 DEF Build, StartAnalysis
<1>4. CASE Deserialize
  BY <1>1, <1>4 DEF Deserialize, StartAnalysis
<1>5. ASSUME NEW events \in MidiFiles, Upload(events) PROVE FollowedInv'
  BY <1>1, <1>5 DEF Upload
<1>6. ASSUME NEW root \in Roots, EncodeMidi(root) PROVE FollowedInv'
  BY <1>1, <1>6 DEF EncodeMidi
<1>7. ASSUME NEW inputs \in Requests, Execute(inputs) PROVE FollowedInv'
  <2>1. phase' = "checking" /\ vm' = FreshVM(inputs)
    BY <1>7 DEF Execute, StartAnalysis
  <2>2. vm'.executed = 0 /\ vm'.maxDepth = 0 /\ vm'.out = DefaultOutputs
    BY <2>1 DEF FreshVM
  <2> QED
    BY <2>1, <2>2 DEF FollowedInv
<1>8. CASE CompileMidi
  BY <1>1, <1>8 DEF CompileMidi, StartAnalysis
<1>9. CASE AnalyzeInstruction
  <2>1. UNCHANGED <<phase, vm>> /\ phase \in {"compiling", "checking"}
    BY <1>9 DEF AnalyzeInstruction, Analyzing
  <2> QED
    BY <1>0, <2>1 DEF FollowedInv
<1>10. CASE AnalyzeReject
  BY <1>1, <1>10 DEF AnalyzeReject
<1>11. CASE Verify
  BY <1>1, <1>11 DEF Verify
<1>12. CASE StartRun
  <2>1. phase = "checking" /\ UNCHANGED <<ir, an, depths, vm>>
        /\ phase' \in {"running", "failed"}
    BY <1>12 DEF StartRun
  <2>2. /\ vm.ip = 1 /\ depths[1] = 0 /\ vm.executed = 0 /\ vm.maxDepth = 0
        /\ vm.out = DefaultOutputs
    BY <1>0, <2>1 DEF Inv, RunInv, AnalysisInv, Chain, FollowedInv
  <2>3. Deepest(vm.maxDepth, vm.ip)'
    BY <2>1, <2>2 DEF Deepest
  <2>4. \A name \in OUTPUTS : vm'.out[name] = 0
    BY <2>1, <2>2 DEF DefaultOutputs, OUTPUTS
  <2>5. vm'.executed = vm'.ip - 1
    BY <2>1, <2>2
  <2> QED
    BY <2>1, <2>3, <2>4, <2>5 DEF FollowedInv
<1>13. CASE Step
  BY <1>0, <1>13, StepFollowed
<1>14. CASE Raise
  BY <1>1, <1>14 DEF Raise
<1>15. CASE Halt
  BY <1>0, <1>15, EndFollowed
<1>16. CASE EndOfProgram
  BY <1>0, <1>16, EndFollowed
<1>17. CASE Fallback
  BY <1>1, <1>17 DEF Fallback, StartAnalysis
<1>18. CASE Discard
  BY <1>1, <1>18 DEF Discard
<1>19. CASE UNCHANGED vars
  BY <1>0, <1>19 DEF vars, FollowedInv, Deepest, OutputsOf, First
<1> QED
  BY <1>2, <1>3, <1>4, <1>5, <1>6, <1>7, <1>8, <1>9, <1>10, <1>11, <1>12,
     <1>13, <1>14, <1>15, <1>16, <1>17, <1>18, <1>19 DEF Next, Client, Engine

\* Where the analysis of the fallback policy has come to, it goes on: the policy
\* is well formed, the next instruction passes, and the depth is the one listed.
LEMMA FallbackAccepted ==
    ASSUME Inv, FallbackInv, engine = "fallback-rules", phase = "compiling"
    PROVE  /\ WellFormed /\ ~an.require
           /\ ~Scanned => /\ InstructionOK
                          /\ an.count + 1 <= 23
                          /\ NextDepth = FallbackDepths[an.index + 1]
<1>1. /\ ir = Written /\ ~an.require
      /\ \A j \in 1..an.index : depths[j] = FallbackDepths[j]
  BY DefaultPolicyWritten DEF FallbackInv
<1>2. /\ Len(ir) = 23
      /\ \A j \in 1..23 : Admissible(ir[j], FallbackDepths[j], FallbackDepths[j + 1])
      /\ \A j \in 1..24 : FallbackDepths[j] \in 0..3
  BY <1>1, WrittenAdmissible
<1> HIDE DEF Written, FallbackDepths
<1>3. WellFormed
  <2>1. \A j \in 1..Len(ir) : ir[j].op \in Op
    BY <1>2 DEF Admissible
  <2>2. ir # <<>>
    <3>1. Len(<<>>) # 23
      OBVIOUS
    <3> QED
      BY <1>2, <3>1
  <2>3. Len(ir) <= MaxInstructions
    BY <1>2, FallbackAssumption, VelatoAssumption
  <2> QED
    BY <2>1, <2>2, <2>3 DEF WellFormed
<1>4. ASSUME ~Scanned
      PROVE  /\ InstructionOK /\ an.count + 1 <= 23
             /\ NextDepth = FallbackDepths[an.index + 1]
  <2> DEFINE i == an.index
  <2>1. an.index = an.count + 1 /\ i \in Nat /\ i >= 1 /\ an.count \in Nat
        /\ an.maxDepth \in Nat /\ an.maxDepth <= MaxStack /\ an.depth = depths[i]
    BY DEF Inv, Typed, Analysis, AnalysisInv
  <2>2. i <= 23
    BY <1>2, <1>4, <2>1 DEF Scanned
  <2>3. i \in 1..23 /\ i \in 1..i /\ i + 1 \in 1..24
    BY <2>1, <2>2
  <2>4. an.depth = FallbackDepths[i] /\ Admissible(ir[i], FallbackDepths[i], FallbackDepths[i + 1])
        /\ FallbackDepths[i + 1] \in 0..3
    BY <1>1, <1>2, <2>1, <2>3
  <2>5. NextDepth = FallbackDepths[i + 1]
    BY <2>4 DEF NextDepth, Admissible
  <2>6. ValidInstruction(ir[i]) /\ an.depth >= STACK_EFFECTS[ir[i].op][1]
    BY <2>4 DEF Admissible
  <2>7. Larger(an.maxDepth, NextDepth) <= MaxStack
    BY <2>1, <2>4, <2>5, FallbackAssumption, VelatoAssumption DEF Larger
  <2> QED
    BY <2>1, <2>2, <2>5, <2>6, <2>7 DEF InstructionOK
<1> QED
  BY <1>1, <1>3, <1>4

\* The fallback policy goes on being the program, and is not refused.
LEMMA FallbackStep ==
    ASSUME IInv, [Next]_vars
    PROVE  FallbackInv'
<1>0. FallbackInv /\ NotesInv /\ GatheredInv /\ Inv
  BY DEF IInv
<1>1. ASSUME engine' # "fallback-rules" PROVE FallbackInv'
  BY <1>1 DEF FallbackInv
<1>2. ASSUME phase' \notin {"writing", "rejected", "compiling"}, UNCHANGED <<ir, engine>>,
             phase # "rejected" \/ engine # "fallback-rules"
      PROVE  FallbackInv'
  BY <1>0, <1>2 DEF FallbackInv
<1>3. ASSUME phase = "writing", engine' = engine PROVE FallbackInv'
  BY <1>0, <1>3 DEF FallbackInv
<1>4. ASSUME engine = "fallback-rules" PROVE phase \notin {"writing", "rejected"}
  BY <1>0, <1>4 DEF FallbackInv
<1>5. ASSUME ir' = DefaultPolicy, StartAnalysis("compiling", FALSE) PROVE FallbackInv'
  <2>1. /\ ~an'.require /\ an'.count = 0 /\ an'.index = 1 /\ phase' = "compiling"
        /\ depths'[1] = 0
    BY <1>5 DEF StartAnalysis, FreshAnalysis, FreshDepths
  <2>2. FallbackDepths[1] = 0
    BY DEF FallbackDepths
  <2>3. \A j \in 1..an'.index : depths'[j] = FallbackDepths[j]
    BY <2>1, <2>2
  <2> QED
    BY <1>5, <2>1, <2>3 DEF FallbackInv
<1>6. ASSUME NEW f \in Fragments, Extend(f) PROVE FallbackInv'
  BY <1>3, <1>6 DEF Extend
<1>7. ASSUME NEW require \in BOOLEAN, Build(require) PROVE FallbackInv'
  BY <1>3, <1>7 DEF Build
<1>8. CASE Deserialize
  BY <1>3, <1>8 DEF Deserialize
<1>9. ASSUME NEW events \in MidiFiles, Upload(events) PROVE FallbackInv'
  BY <1>3, <1>9 DEF Upload
<1>10. ASSUME NEW root \in Roots, EncodeMidi(root) PROVE FallbackInv'
  BY <1>2, <1>10 DEF EncodeMidi
<1>11. ASSUME NEW inputs \in Requests, Execute(inputs) PROVE FallbackInv'
  BY <1>2, <1>11 DEF Execute, StartAnalysis
<1>12. CASE CompileMidi
  <2> SUFFICES ASSUME engine' = "fallback-rules" PROVE FallbackInv'
    BY <1>1
  <2>1. engine = "fallback-rules"
    BY <1>12 DEF CompileMidi
  <2>2. ir = DefaultPolicy
    BY <1>0, <2>1 DEF FallbackInv
  <2>3. ir \in Seq(Instruction) /\ ir # <<>>
    <3>1. ir = Written /\ Len(ir) = 23 /\ ir \in Seq(Instruction)
      BY <2>2, DefaultPolicyWritten, WrittenAdmissible
    <3>2. Len(<<>>) # 23
      OBVIOUS
    <3> QED
      BY <3>1, <3>2
  <2>4. ir' = WithHalt(UpToHalt(ir)) /\ StartAnalysis("compiling", FALSE)
    BY <1>0, <1>12, <2>3, CompileRendered DEF StartAnalysis
  <2>5. ir' = DefaultPolicy
    BY <2>2, <2>4, FallbackKept
  <2> QED
    BY <1>5, <2>4, <2>5
<1>13. CASE AnalyzeInstruction
  <2> SUFFICES ASSUME engine' = "fallback-rules" PROVE FallbackInv'
    BY <1>1
  <2>1. /\ UNCHANGED <<phase, ir, engine>> /\ ~Scanned /\ depths' = Append(depths, NextDepth)
        /\ engine = "fallback-rules" /\ phase \in {"compiling", "checking"}
    BY <1>13 DEF AnalyzeInstruction, Analyzing
  <2>2. CASE phase = "checking"
    BY <1>0, <2>1, <2>2 DEF FallbackInv
  <2>3. CASE phase = "compiling"
    <3>1. /\ an.count + 1 <= 23 /\ NextDepth = FallbackDepths[an.index + 1] /\ ~an.require
      BY <1>0, <2>1, <2>3, FallbackAccepted
    <3>2. /\ an'.index = an.index + 1 /\ an'.count = an.count + 1 /\ an'.require = an.require
      BY <1>0, <1>13 DEF AnalyzeInstruction, Inv, Typed, Analysis
    <3>3. /\ depths \in Seq(Nat) /\ Len(depths) = an.index /\ an.index \in Nat
      BY <1>0 DEF Inv, Typed, Analysis, AnalysisInv, Chain
    <3>4. \A j \in 1..(an.index + 1) : depths'[j] = FallbackDepths[j]
      <4> TAKE j \in 1..(an.index + 1)
      <4>1. CASE j = an.index + 1
        BY <2>1, <3>1, <3>3, <4>1
      <4>2. CASE j # an.index + 1
        <5>1. j \in 1..an.index
          BY <3>3, <4>2
        <5>2. depths'[j] = depths[j]
          BY <2>1, <3>3, <5>1
        <5>3. depths[j] = FallbackDepths[j]
          BY <1>0, <2>1, <2>3, <5>1 DEF FallbackInv
        <5> QED
          BY <5>2, <5>3
      <4> QED
        BY <4>1, <4>2
    <3>5. ir = DefaultPolicy
      BY <1>0, <2>1 DEF FallbackInv
    <3> QED
      BY <2>1, <2>3, <3>1, <3>2, <3>4, <3>5 DEF FallbackInv
  <2> QED
    BY <2>1, <2>2, <2>3
<1>14. CASE AnalyzeReject
  <2>1. CASE phase = "checking"
    BY <1>2, <1>14, <2>1 DEF AnalyzeReject
  <2>2. CASE phase = "compiling"
    <3> SUFFICES ASSUME engine' = "fallback-rules" PROVE FALSE
      BY <1>1
    <3>1. engine = "fallback-rules"
      BY <1>14 DEF AnalyzeReject
    <3>2. WellFormed /\ ~an.require /\ (~Scanned => InstructionOK)
      BY <1>0, <2>2, <3>1, FallbackAccepted
    <3> QED
      BY <1>14, <3>2 DEF AnalyzeReject
  <2> QED
    BY <1>14, <2>1, <2>2 DEF AnalyzeReject, Analyzing
<1>15. CASE Verify
  BY <1>2, <1>15 DEF Verify
<1>16. CASE StartRun
  BY <1>2, <1>16 DEF StartRun
<1>17. CASE Step
  BY <1>2, <1>17 DEF Step, Running
<1>18. CASE Raise
  BY <1>2, <1>18 DEF Raise, Running
<1>19. CASE Halt
  BY <1>2, <1>19 DEF Halt, Running
<1>20. CASE EndOfProgram
  BY <1>2, <1>20 DEF EndOfProgram
<1>21. CASE Fallback
  BY <1>5, <1>21 DEF Fallback
<1>22. CASE Discard
  BY <1>1, <1>22 DEF Discard
<1>23. CASE UNCHANGED vars
  BY <1>0, <1>23 DEF vars, FallbackInv
<1> QED
  BY <1>6, <1>7, <1>8, <1>9, <1>10, <1>11, <1>12, <1>13, <1>14, <1>15, <1>16,
     <1>17, <1>18, <1>19, <1>20, <1>21, <1>22, <1>23 DEF Next, Client, Engine

----------------------------------------------------------------------------
(* The invariant is inductive *)

LEMMA InitIInv == Init => IInv
<1> SUFFICES ASSUME Init PROVE IInv
  OBVIOUS
<1>1. Inv
  BY InitInv
<1>2. Labels
  <2>1. <<>> \in Seq(MidiEvent)
    BY EmptySeq
  <2>2. 0 \in 0..MaxFragments
    BY VelatoAssumption
  <2> QED
    BY <2>1, <2>2 DEF Init, Labels
<1>3. NotesInv /\ FollowedInv /\ FallbackInv
  BY DEF Init, NotesInv, FollowedInv, FallbackInv
<1>4. GatheredInv
  <2>1. /\ an.count = 0 /\ an.index = 1 /\ an.maxDepth = 0 /\ an.inputs = {}
        /\ an.locals = {} /\ an.written = {} /\ depths[1] = 0
    BY DEF Init, FreshAnalysis, FreshDepths
  <2>2. First(an.count) = {}
    BY <2>1 DEF First
  <2>3. /\ InputsOf(an.count) = {} /\ LocalsOf(an.count) = {}
        /\ OutputsOf(an.count) = {}
    BY <2>2 DEF InputsOf, LocalsOf, OutputsOf
  <2>4. Deepest(an.maxDepth, an.index)
    BY <2>1 DEF Deepest
  <2> QED
    BY <2>1, <2>3, <2>4 DEF GatheredInv
<1> QED
  BY <1>1, <1>2, <1>3, <1>4 DEF IInv

LEMMA NextIInv == IInv /\ [Next]_vars => IInv'
<1> SUFFICES ASSUME IInv, [Next]_vars PROVE IInv'
  OBVIOUS
<1>1. Inv'
  BY NextInv DEF IInv
<1>2. Labels' /\ NotesInv' /\ GatheredInv' /\ FollowedInv' /\ FallbackInv'
  BY LabelsStep, NotesStep, GatheredStep, FollowedStep, FallbackStep
<1> QED
  BY <1>1, <1>2 DEF IInv

\* What the invariant says of a run that has ended.
LEMMA DoneExact ==
    ASSUME IInv
    PROVE  AnalysisIsExact
<1>1. GatheredInv /\ FollowedInv /\ FallbackInv
  BY DEF IInv
<1>2. ASSUME phase = "done"
      PROVE  /\ an.inputs = {i.arg : i \in {j \in Executed : j.op = "LOAD_INPUT"}}
             /\ an.locals = {i.arg \div 2 : i \in {j \in Executed : j.op \in LOCAL_OPS}}
             /\ an.written = {OUTPUT_STORE_OPS[i.op] :
                                i \in {j \in Executed : j.op \in StoreOps}}
  <2>1. Executed = First(an.count)
    BY <1>1, <1>2 DEF FollowedInv, Executed, First
  <2> QED
    BY <1>1, <2>1 DEF GatheredInv, InputsOf, LocalsOf, OutputsOf
<1>3. ASSUME phase = "done"
      PROVE  /\ vm.executed = an.count
             /\ vm.maxDepth = an.maxDepth
             /\ Len(vm.stack) = an.depth
             /\ \A name \in OUTPUTS \ an.written : vm.out[name] = 0
  BY <1>1, <1>3 DEF FollowedInv
<1>4. engine = "fallback-rules" => phase # "rejected"
  BY <1>1 DEF FallbackInv
<1> QED
  BY <1>2, <1>3, <1>4 DEF AnalysisIsExact

\* Notes are left only by compiling them.
LEMMA RoundTripStep ==
    ASSUME IInv, [Next]_vars, phase = "midi", ir # <<>>, phase' # "midi"
    PROVE  phase' = "compiling" /\ ir' = WithHalt(UpToHalt(ir))
<1>1. NotesInv /\ ir \in Seq(Instruction)
  BY DEF IInv, Inv, Typed
<1>2. CompileMidi
  <2>1. ~(\E f \in Fragments : Extend(f)) /\ ~(\E require \in BOOLEAN : Build(require))
    BY DEF Extend, Build
  <2>2. ~Deserialize /\ ~(\E events \in MidiFiles : Upload(events))
    BY DEF Deserialize, Upload
  <2>3. ~(\E root \in Roots : EncodeMidi(root)) /\ ~(\E inputs \in Requests : Execute(inputs))
    BY DEF EncodeMidi, Execute
  <2>4. ~AnalyzeInstruction /\ ~AnalyzeReject /\ ~Verify /\ ~StartRun
    BY DEF AnalyzeInstruction, AnalyzeReject, Verify, StartRun, Analyzing
  <2>5. ~Step /\ ~Raise /\ ~Halt /\ ~EndOfProgram
    BY DEF Step, Raise, Halt, EndOfProgram, Running
  <2>6. ~Fallback /\ ~Discard /\ ~(UNCHANGED vars)
    BY DEF Fallback, Discard, vars
  <2> QED
    BY <2>1, <2>2, <2>3, <2>4, <2>5, <2>6 DEF Next, Client, Engine
<1> QED
  BY <1>1, <1>2, CompileRendered

----------------------------------------------------------------------------
(* The theorems *)

\* The engine's state has its types, and the output registers stay in the ranges
\* PolicyResult declares, whatever program runs on whatever inputs.
THEOREM TypeCorrect == Spec => []TypeOK
<1>1. IInv => TypeOK
  <2> SUFFICES ASSUME IInv PROVE TypeOK
    OBVIOUS
  <2>1. Inv /\ Labels
    BY DEF IInv
  <2>2. depths \in Seq(Nat)
    BY <2>1 DEF Inv, AnalysisInv, Chain
  <2> QED
    BY <2>1, <2>2 DEF Inv, Typed, Labels, TypeOK
<1> QED
  BY <1>1, InitIInv, NextIInv, PTL DEF Spec

\* When execute completes, what analyze_ir reported of the program is what the
\* run did, for every program; and the policy of default_policy_ir, which
\* load_default_policy falls back to, is never refused.
THEOREM AnalysisIsExactAlways == Spec => []AnalysisIsExact
<1>1. IInv => AnalysisIsExact
  BY DoneExact
<1> QED
  BY <1>1, InitIInv, NextIInv, PTL DEF Spec

\* parse_midi and compile_notes undo encode_midi: for every verified program
\* that can be encoded and every root note the instructions up to the first
\* HALT come back, and no rendered program is refused.
THEOREM MidiRoundTripAlways == Spec => MidiRoundTrip
<1>1. IInv /\ [Next]_vars =>
        [(phase = "midi" /\ ir # <<>> /\ phase' # "midi") =>
           /\ phase' = "compiling"
           /\ ir' = WithHalt(UpToHalt(ir))]_vars
  BY RoundTripStep
<1> QED
  BY <1>1, InitIInv, NextIInv, PTL DEF Spec, MidiRoundTrip
===============================================================================
