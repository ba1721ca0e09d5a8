-------------------------- MODULE VelatoPoliciesProofs --------------------------
(***************************************************************************)
(* Proofs about VelatoPolicies: what the macros of standard_library.py     *)
(* leave on the stack and in the outputs, for every score, every list of   *)
(* conditions or of weighted terms, and every input.                       *)
(***************************************************************************)
EXTENDS VelatoPolicies, VelatoProofs

----------------------------------------------------------------------------
(* Lemmas about the programs *)

\* A loop of N rounds over states in D, each round G, has a value after every round.
Iterates(f, N, b, G) == f[0] = b /\ \A n \in 1..N : f[n] = G[<<n, f[n - 1]>>]

LEMMA Iterated ==
    ASSUME NEW N \in Nat, NEW D, NEW b \in D, NEW G \in [(1..N) \X D -> D]
    PROVE  \E f \in [0..N -> D] : Iterates(f, N, b, G)
<1> DEFINE Upto(f, k) == /\ f \in [0..k -> D] /\ f[0] = b
                         /\ \A n \in 1..k : f[n] = G[<<n, f[n - 1]>>]
           Bad == {k \in 0..N : ~ \E f : Upto(f, k)}
<1> SUFFICES ASSUME Bad # {}
             PROVE  FALSE
  <2>1. N \in 0..N
    OBVIOUS
  <2>2. N \notin Bad => \E f \in [0..N -> D] : Iterates(f, N, b, G)
    BY <2>1 DEF Iterates
  <2> HIDE DEF Bad
  <2> QED
    BY <2>2
<1>1. Bad \subseteq Nat
  OBVIOUS
<1>2. PICK k \in Bad : \A j \in Bad : k <= j
  <2> HIDE DEF Bad
  <2> QED
    BY <1>1, FirstExists
<1>3. k # 0
  <2> DEFINE z == [n \in 0..0 |-> b]
  <2>1. Upto(z, 0)
    OBVIOUS
  <2>2. 0 \notin Bad
    BY <2>1
  <2> QED
    BY <1>2, <2>2
<1>4. k \in 0..N /\ k - 1 \in 0..N /\ k - 1 \notin Bad
  <2>1. k \in 0..N
    BY <1>2
  <2>2. k - 1 \in 0..N
    BY <1>3, <2>1
  <2>3. k - 1 \notin Bad
    <3>1. ~ (k <= k - 1)
      BY <2>1
    <3> HIDE DEF Bad
    <3> QED
      BY <1>2, <3>1
  <2> QED
    BY <2>1, <2>2, <2>3
<1>5. PICK g : Upto(g, k - 1)
  BY <1>4
<1> DEFINE f == [n \in 0..k |-> IF n = k THEN G[<<k, g[k - 1]>>] ELSE g[n]]
<1>6. f[0] = b /\ f \in [0..k -> D]
  <2>1. g[k - 1] \in D /\ k \in 1..N
    BY <1>3, <1>4, <1>5
  <2>2. G[<<k, g[k - 1]>>] \in D
    BY <2>1
  <2>3. \A n \in 0..k : n = k \/ n \in 0..(k - 1)
    BY <1>4
  <2>4. f \in [0..k -> D]
    BY <1>5, <2>2, <2>3
  <2>5. f[0] = g[0]
    BY <1>3, <1>4
  <2> QED
    BY <1>5, <2>4, <2>5
<1>7. \A n \in 1..k : f[n] = G[<<n, f[n - 1]>>]
  <2> TAKE n \in 1..k
  <2>1. n - 1 \in 0..k /\ n - 1 # k /\ f[n - 1] = g[n - 1]
    BY <1>4
  <2>2. CASE n = k
    BY <2>1, <2>2
  <2>3. CASE n # k
    <3>1. n \in 1..(k - 1) /\ f[n] = g[n]
      BY <1>4, <2>3
    <3> QED
      BY <1>5, <2>1, <3>1
  <2> QED
    BY <2>2, <2>3
<1>8. Upto(f, k)
  BY <1>6, <1>7
<1> QED
  BY <1>2, <1>8

\* The instructions of a macro: none of them is a HALT.
Body == {ins \in Instruction : ins.op # "HALT"}

\* A piece of a program, behind its first base instructions.
Stands(code, base, piece) == \A i \in 1..Len(piece) : code[base + i] = piece[i]

\* A program made of two parts has the one and, behind it, the other.
LEMMA StandsBoth ==
    ASSUME NEW a \in Seq(Body), NEW b \in Seq(Body), NEW code, NEW base \in Nat,
           Stands(code, base, a \o b)
    PROVE  /\ Stands(code, base, a) /\ Stands(code, base + Len(a), b)
           /\ a \o b \in Seq(Body) /\ Len(a \o b) = Len(a) + Len(b)
<1>1. /\ Len(a) \in Nat /\ Len(b) \in Nat /\ Len(a \o b) = Len(a) + Len(b)
      /\ a \o b \in Seq(Body)
      /\ \A i \in 1..Len(a) + Len(b) :
           (a \o b)[i] = IF i <= Len(a) THEN a[i] ELSE b[i - Len(a)]
  BY LenProperties, ConcatProperties
<1>2. \A i \in 1..Len(a) : code[base + i] = a[i]
  <2> TAKE i \in 1..Len(a)
  <2>1. i \in 1..Len(a) + Len(b) /\ i <= Len(a)
    BY <1>1
  <2>2. (a \o b)[i] = a[i]
    BY <1>1, <2>1
  <2> QED
    BY <1>1, <2>1, <2>2 DEF Stands
<1>3. \A i \in 1..Len(b) : code[base + Len(a) + i] = b[i]
  <2> TAKE i \in 1..Len(b)
  <2> DEFINE k == Len(a) + i
  <2>1. /\ k \in 1..Len(a) + Len(b) /\ ~ (k <= Len(a)) /\ k - Len(a) = i
        /\ base + k = base + Len(a) + i
    BY <1>1
  <2> HIDE DEF k
  <2>2. (a \o b)[k] = b[i]
    BY <1>1, <2>1
  <2> QED
    BY <1>1, <2>1, <2>2 DEF Stands
<1> QED
  BY <1>1, <1>2, <1>3 DEF Stands

\* A macro's program is the macro and a HALT.
LEMMA WithHaltStands ==
    ASSUME NEW code \in Seq(Body)
    PROVE  /\ Len(WithHalt(code)) = Len(code) + 1 /\ Len(code) \in Nat
           /\ Stands(WithHalt(code), 0, code)
           /\ WithHalt(code)[Len(code) + 1] = Plain("HALT")
<1>1. Len(code) \in Nat
  BY LenProperties
<1>2. code = <<>> \/ code[Len(code)].op # "HALT"
  <2> SUFFICES ASSUME code # <<>>
               PROVE  code[Len(code)].op # "HALT"
    OBVIOUS
  <2>1. Len(code) \in 1..Len(code)
    BY <1>1, EmptySeq
  <2>2. code[Len(code)] \in Body
    BY <2>1, ElementOfSeq
  <2> QED
    BY <2>2 DEF Body
<1>3. WithHalt(code) = Append(code, Plain("HALT"))
  BY <1>2 DEF WithHalt
<1>4. code \in Seq(Instruction)
  <2>1. Body \subseteq Instruction
    BY DEF Body
  <2> QED
    BY <2>1
<1>5. Plain("HALT") \in Instruction
  BY DEF Plain, Instruction, Op
<1>6. /\ Len(Append(code, Plain("HALT"))) = Len(code) + 1
      /\ \A i \in 1..Len(code) : Append(code, Plain("HALT"))[i] = code[i]
      /\ Append(code, Plain("HALT"))[Len(code) + 1] = Plain("HALT")
  BY <1>4, <1>5, AppendProperties
<1>7. \A i \in 1..Len(code) : 0 + i = i
  BY <1>1
<1> QED
  BY <1>1, <1>3, <1>6, <1>7 DEF Stands

\* The pieces of Joined stand in it one behind the other: pos is where each ends.
LEMMA JoinedStands ==
    ASSUME NEW codes \in Seq(Seq(Body)), NEW op \in Op, op # "HALT"
    PROVE  /\ Joined(codes, op) \in Seq(Body)
           /\ \E pos \in [0..Len(codes) -> Nat] :
                /\ pos[0] = 0 /\ pos[Len(codes)] = Len(Joined(codes, op))
                /\ \A n \in 1..Len(codes) :
                     /\ pos[n] = pos[n - 1] + Len(Piece(codes, op, n))
                     /\ Stands(Joined(codes, op), pos[n - 1], Piece(codes, op, n))
<1> DEFINE N == Len(codes)
           D == Seq(Body)
           P(n) == Piece(codes, op, n)
           Is(f) == f = [n \in 0..N |-> IF n = 0 THEN <<>> ELSE f[n - 1] \o P(n)]
           emitted == CHOOSE f : Is(f)
           G == [p \in (1..N) \X D |-> p[2] \o P(p[1])]
           none == <<>>
<1>1. N \in Nat
  BY LenProperties
<1>2. \A n \in 1..N : P(n) \in D
  <2> TAKE n \in 1..N
  <2>1. codes[n] \in D
    BY ElementOfSeq
  <2>2. Plain(op) \in Body
    BY DEF Plain, Body, Instruction
  <2>3. <<Plain(op)>> \in D /\ <<>> \in D
    BY <2>2
  <2> QED
    BY <2>1, <2>3, ConcatProperties DEF Piece
<1>3. Joined(codes, op) = emitted[N]
  BY DEF Joined
<1> HIDE DEF N, P, emitted
<1>4. G \in [(1..N) \X D -> D]
  <2>1. \A n \in 1..N, s \in D : s \o P(n) \in D
    BY <1>2, ConcatProperties
  <2> HIDE DEF D
  <2> QED
    BY <2>1
<1>5. none \in D
  BY EmptySeq
<1>6. \A n \in 1..N, s \in D : G[<<n, s>>] = s \o P(n)
  <2> HIDE DEF D
  <2> QED
    OBVIOUS
<1> HIDE DEF D, G
<1>7. PICK f \in [0..N -> D] : Iterates(f, N, none, G)
  <2> HIDE DEF none, Is
  <2> QED
    BY <1>1, <1>4, <1>5, Iterated
<1>8. \A n \in 0..N : n = 0 \/ (n \in 1..N /\ n - 1 \in 0..N)
  BY <1>1
<1>9. \A n \in 0..N : f[n] = IF n = 0 THEN <<>> ELSE f[n - 1] \o P(n)
  <2> TAKE n \in 0..N
  <2>1. CASE n = 0
    BY <1>7, <2>1 DEF Iterates
  <2>2. CASE n # 0
    <3>1. n \in 1..N /\ f[n - 1] \in D
      BY <1>7, <1>8, <2>2
    <3>2. f[n] = G[<<n, f[n - 1]>>]
      BY <1>7, <3>1 DEF Iterates
    <3> QED
      BY <1>6, <2>2, <3>1, <3>2
  <2> QED
    BY <2>1, <2>2
<1>10. Is(f)
  BY <1>9, <1>7
<1>11. Is(emitted)
  BY <1>10, Zenon DEF emitted
<1>12. /\ emitted[0] = <<>>
       /\ \A n \in 1..N : emitted[n] = emitted[n - 1] \o P(n)
  <2>1. \A n \in 0..N : emitted[n] = IF n = 0 THEN <<>> ELSE emitted[n - 1] \o P(n)
    BY <1>11
  <2>2. 0 \in 0..N /\ \A n \in 1..N : n \in 0..N /\ n # 0
    BY <1>1
  <2> QED
    BY <2>1, <2>2
<1> HIDE DEF Is
<1>13. \A n \in 0..N : emitted[n] \in D
  <2> DEFINE Bad == {n \in 0..N : emitted[n] \notin D}
  <2> SUFFICES ASSUME Bad # {}
               PROVE  FALSE
    OBVIOUS
  <2>1. PICK n \in Bad : \A m \in Bad : n <= m
    <3>1. Bad \subseteq Nat
      OBVIOUS
    <3> HIDE DEF Bad
    <3> QED
      BY <3>1, FirstExists
  <2>2. n # 0
    BY <1>5, <1>12
  <2>3. n \in 1..N /\ n - 1 \in 0..N /\ ~ (n <= n - 1)
    BY <1>1, <2>2
  <2>4. emitted[n - 1] \in D
    BY <2>1, <2>3
  <2>5. emitted[n] \in D
    <3>1. emitted[n] = emitted[n - 1] \o P(n) /\ P(n) \in D
      BY <1>2, <1>12, <2>3
    <3>2. emitted[n - 1] \o P(n) \in D
      BY <2>4, <3>1, ConcatProperties DEF D
    <3> QED
      BY <3>1, <3>2
  <2> QED
    BY <2>5
<1> DEFINE pos == [n \in 0..N |-> Len(emitted[n])]
           Kept(m) == \A n \in 1..m : Stands(emitted[m], pos[n - 1], P(n))
<1>14. pos \in [0..N -> Nat] /\ pos[0] = 0 /\ pos[N] = Len(Joined(codes, op))
  <2>1. \A n \in 0..N : Len(emitted[n]) \in Nat
    BY <1>13, LenProperties DEF D
  <2>2. 0 \in 0..N /\ N \in 0..N
    BY <1>1
  <2>3. Len(<<>>) = 0
    OBVIOUS
  <2> QED
    BY <1>3, <1>12, <2>1, <2>2, <2>3
<1>15. \A n \in 1..N : /\ n - 1 \in 0..N /\ n \in 0..N
                       /\ pos[n - 1] = Len(emitted[n - 1]) /\ pos[n] = Len(emitted[n])
  BY <1>1
<1> HIDE DEF pos
<1>16. \A n \in 1..N : /\ Stands(emitted[n], 0, emitted[n - 1])
                       /\ Stands(emitted[n], pos[n - 1], P(n))
                       /\ pos[n] = pos[n - 1] + Len(P(n))
  <2> TAKE n \in 1..N
  <2> DEFINE a == emitted[n - 1]
             b == P(n)
             c == emitted[n]
  <2>1. a \in Seq(Body) /\ b \in Seq(Body) /\ c = a \o b
    BY <1>2, <1>12, <1>13, <1>15 DEF D
  <2> HIDE DEF a, b, c
  <2>2. \A i \in 1..Len(a \o b) : (a \o b)[0 + i] = (a \o b)[i]
    <3>1. Len(a \o b) \in Nat
      BY <2>1, ConcatProperties, LenProperties
    <3> QED
      BY <3>1
  <2>3. Stands(c, 0, a \o b)
    BY <2>1, <2>2 DEF Stands
  <2>4. Stands(c, 0, a) /\ Stands(c, 0 + Len(a), b) /\ Len(c) = Len(a) + Len(b)
    BY <2>1, <2>3, StandsBoth
  <2>5. 0 + Len(a) = Len(a)
    BY <2>1, LenProperties
  <2> QED
    BY <1>15, <2>4, <2>5 DEF a, b, c
<1>17. \A m \in 0..N : Kept(m)
  <2> DEFINE Bad == {m \in 0..N : ~ Kept(m)}
  <2> SUFFICES ASSUME Bad # {}
               PROVE  FALSE
    OBVIOUS
  <2>1. PICK m \in Bad : \A k \in Bad : m <= k
    <3>1. Bad \subseteq Nat
      OBVIOUS
    <3> HIDE DEF Bad
    <3> QED
      BY <3>1, FirstExists
  <2>2. m # 0
    OBVIOUS
  <2>3. m \in 1..N /\ m - 1 \in 0..N /\ ~ (m <= m - 1)
    BY <1>1, <2>2
  <2>4. Kept(m - 1)
    BY <2>1, <2>3
  <2>5. ASSUME NEW n \in 1..m
        PROVE  Stands(emitted[m], pos[n - 1], P(n))
    <3>1. CASE n = m
      <4>1. n \in 1..N /\ emitted[m] = emitted[n]
        BY <2>3, <3>1
      <4>2. Stands(emitted[n], pos[n - 1], P(n))
        BY <1>16, <4>1
      <4> QED
        BY <4>1, <4>2
    <3>2. CASE n # m
      <4>1. n \in 1..(m - 1) /\ n \in 1..N
        BY <1>1, <2>3, <3>2
      <4> DEFINE a == emitted[m - 1]
                 b == P(n)
      <4>2. Stands(a, pos[n - 1], b)
        BY <2>4, <4>1
      <4>3. /\ pos[n - 1] \in Nat /\ Len(b) \in Nat /\ Len(a) \in Nat
            /\ pos[n] = pos[n - 1] + Len(b) /\ pos[n] <= Len(a)
        <5>1. pos[m - 1] = Len(a) /\ pos[n] = pos[n - 1] + Len(b) /\ pos[n - 1] \in Nat
          BY <1>14, <1>15, <1>16, <2>3, <4>1
        <5>2. Len(b) \in Nat /\ Len(a) \in Nat
          BY <1>2, <1>13, <2>3, <4>1, LenProperties DEF D
        <5>3. pos[n] <= pos[m - 1]
          <6> DEFINE Low == {k \in n..(m - 1) : ~ (pos[n] <= pos[k])}
          <6> SUFFICES ASSUME Low # {}
                       PROVE  FALSE
            <7>1. m - 1 \in n..(m - 1)
              BY <1>1, <2>3, <4>1
            <7>2. m - 1 \notin Low => pos[n] <= pos[m - 1]
              BY <7>1
            <7> HIDE DEF Low
            <7> QED
              BY <7>2
          <6>1. PICK k \in Low : \A j \in Low : k <= j
            <7>1. Low \subseteq Nat
              BY <1>1, <4>1
            <7> HIDE DEF Low
            <7> QED
              BY <7>1, FirstExists
          <6>2. /\ n \in 0..N /\ k \in 0..N /\ pos[n] \in Nat /\ pos[k] \in Nat
            BY <1>1, <1>14, <2>3, <4>1
          <6>3. k # n
            BY <6>2
          <6>4. k \in 1..N /\ k - 1 \in n..(m - 1) /\ ~ (k <= k - 1) /\ k - 1 \in 0..N
            <7>1. k \in n..(m - 1)
              BY <6>1
            <7> QED
              BY <1>1, <2>3, <4>1, <6>3, <7>1
          <6>5. pos[n] <= pos[k - 1]
            BY <6>1, <6>4
          <6>6. pos[k] = pos[k - 1] + Len(P(k)) /\ Len(P(k)) \in Nat /\ pos[k - 1] \in Nat
            BY <1>2, <1>14, <1>16, <6>4, LenProperties DEF D
          <6> QED
            BY <6>2, <6>5, <6>6, SMTT(30)
        <5> QED
          BY <5>1, <5>2, <5>3
      <4>4. Stands(emitted[m], 0, a)
        BY <1>16, <2>3
      <4> HIDE DEF a, b
      <4>5. \A i \in 1..Len(b) : emitted[m][pos[n - 1] + i] = b[i]
        <5> TAKE i \in 1..Len(b)
        <5> DEFINE k == pos[n - 1] + i
        <5>1. k \in 1..Len(a) /\ 0 + k = k
          BY <4>3, SMTT(30)
        <5>2. a[k] = b[i]
          BY <4>2 DEF Stands
        <5> HIDE DEF k
        <5>3. emitted[m][k] = a[k]
          BY <4>4, <5>1 DEF Stands
        <5> QED
          BY <5>2, <5>3 DEF k
      <4> QED
        BY <4>5 DEF Stands, b
    <3> QED
      BY <3>1, <3>2
  <2> QED
    BY <2>5
<1>18. N \in 0..N
  BY <1>1
<1>19. \A n \in 1..N : Stands(Joined(codes, op), pos[n - 1], P(n))
  BY <1>3, <1>17, <1>18
<1>20. Joined(codes, op) \in Seq(Body)
  BY <1>3, <1>13, <1>18 DEF D
<1> QED
  BY <1>14, <1>16, <1>19, <1>20 DEF N, P

----------------------------------------------------------------------------
(* What an instruction does to the locals of execute *)

\* Values that are put on a stack, on top of each other.
Push2(s, a, b)    == Append(Append(s, a), b)
Push3(s, a, b, c) == Append(Append(Append(s, a), b), c)

\* A stack with n values on it is what they were put on, and the values.
LEMMA StackSplit ==
    ASSUME NEW t \in Seq(Int), NEW n \in 1..3, n <= Len(t),
           NEW q \in Seq(Int), Len(q) = Len(t) - n,
           \A i \in 1..(Len(t) - n) : q[i] = t[i],
           NEW p, \A i \in 1..n : p[i] = t[Len(t) - n + i]
    PROVE  /\ \A i \in 1..n : p[i] \in Int
           /\ n = 1 => t = Append(q, p[1])
           /\ n = 2 => t = Push2(q, p[1], p[2])
           /\ n = 3 => t = Push3(q, p[1], p[2], p[3])
<1>1. Len(t) \in Nat
  BY LenProperties
<1>2. /\ q \in Seq(Int) /\ Len(q) = Len(t) - n
      /\ \A i \in 1..(Len(t) - n) : q[i] = t[i]
  OBVIOUS
<1>3. \A i \in 1..n : p[i] = t[Len(t) - n + i] /\ p[i] \in Int
  BY <1>1
<1>4. n >= 1 => /\ Append(q, p[1]) \in Seq(Int)
                /\ Len(Append(q, p[1])) = Len(t) - n + 1
                /\ \A i \in 1..(Len(t) - n + 1) : Append(q, p[1])[i] = t[i]
  <2>1. 1 \in 1..n /\ p[1] \in Int /\ p[1] = t[Len(t) - n + 1]
    BY <1>3
  <2>2. /\ Append(q, p[1]) \in Seq(Int) /\ Len(Append(q, p[1])) = Len(q) + 1
        /\ \A i \in 1..Len(q) : Append(q, p[1])[i] = q[i]
        /\ Append(q, p[1])[Len(q) + 1] = p[1]
    <3>1. p[1] \in Int
      BY <2>1
    <3> QED
      BY <3>1, AppendProperties
  <2>3. \A i \in 1..(Len(t) - n + 1) : i \in 1..(Len(t) - n) \/ i = Len(t) - n + 1
    BY <1>1
  <2> QED
    BY <1>2, <2>1, <2>2, <2>3
<1>5. n >= 2 => /\ Push2(q, p[1], p[2]) \in Seq(Int)
                /\ Len(Push2(q, p[1], p[2])) = Len(t) - n + 2
                /\ \A i \in 1..(Len(t) - n + 2) : Push2(q, p[1], p[2])[i] = t[i]
  <2> SUFFICES ASSUME n >= 2
               PROVE  /\ Push2(q, p[1], p[2]) \in Seq(Int)
                      /\ Len(Push2(q, p[1], p[2])) = Len(t) - n + 2
                      /\ \A i \in 1..(Len(t) - n + 2) : Push2(q, p[1], p[2])[i] = t[i]
    OBVIOUS
  <2> DEFINE s == Append(q, p[1])
  <2>1. 2 \in 1..n /\ p[2] \in Int /\ p[2] = t[Len(t) - n + 2]
    BY <1>3
  <2>2. s \in Seq(Int) /\ Len(s) = Len(t) - n + 1 /\ \A i \in 1..(Len(t) - n + 1) : s[i] = t[i]
    BY <1>4
  <2> HIDE DEF s
  <2>3. /\ Append(s, p[2]) \in Seq(Int) /\ Len(Append(s, p[2])) = Len(s) + 1
        /\ \A i \in 1..Len(s) : Append(s, p[2])[i] = s[i]
        /\ Append(s, p[2])[Len(s) + 1] = p[2]
    <3>1. s \in Seq(Int) /\ p[2] \in Int
      BY <2>1, <2>2
    <3> QED
      BY <3>1, AppendProperties
  <2>4. \A i \in 1..(Len(t) - n + 2) : i \in 1..(Len(t) - n + 1) \/ i = Len(t) - n + 1 + 1
    BY <1>1
  <2>5. Len(t) - n + 1 + 1 = Len(t) - n + 2
    BY <1>1
  <2>6. \A i \in 1..(Len(t) - n + 2) : Append(s, p[2])[i] = t[i]
    BY <2>1, <2>2, <2>3, <2>4, <2>5
  <2> QED
    BY <2>2, <2>3, <2>5, <2>6 DEF Push2, s
<1>6. n = 3 => t = Push3(q, p[1], p[2], p[3])
  <2> SUFFICES ASSUME n = 3
               PROVE  t = Push3(q, p[1], p[2], p[3])
    OBVIOUS
  <2> DEFINE s == Push2(q, p[1], p[2])
  <2>1. 3 \in 1..n /\ p[3] \in Int /\ p[3] = t[Len(t)]
    BY <1>1, <1>3
  <2>2. s \in Seq(Int) /\ Len(s) = Len(t) - 1 /\ \A i \in 1..(Len(t) - 1) : s[i] = t[i]
    BY <1>1, <1>5
  <2> HIDE DEF s
  <2>3. /\ Append(s, p[3]) \in Seq(Int) /\ Len(Append(s, p[3])) = Len(s) + 1
        /\ \A i \in 1..Len(s) : Append(s, p[3])[i] = s[i]
        /\ Append(s, p[3])[Len(s) + 1] = p[3]
    <3>1. s \in Seq(Int) /\ p[3] \in Int
      BY <2>1, <2>2
    <3> QED
      BY <3>1, AppendProperties
  <2>4. \A i \in 1..Len(t) : i \in 1..(Len(t) - 1) \/ i = Len(t)
    BY <1>1
  <2>5. Len(Append(s, p[3])) = Len(t) /\ \A i \in 1..Len(t) : Append(s, p[3])[i] = t[i]
    <3>1. Len(s) = Len(t) - 1 /\ Len(Append(s, p[3])) = Len(s) + 1 /\ Len(t) \in Nat
      BY <1>1, <2>2, <2>3
    <3>2. Len(Append(s, p[3])) = Len(t) /\ Len(s) + 1 = Len(t)
      BY <3>1
    <3>3. ASSUME NEW i \in 1..Len(t)
          PROVE  Append(s, p[3])[i] = t[i]
      <4>1. CASE i \in 1..(Len(t) - 1)
        <5>1. s[i] = t[i] /\ i \in 1..Len(s)
          BY <2>2, <4>1
        <5> QED
          BY <2>3, <5>1
      <4>2. CASE i = Len(t)
        BY <2>1, <2>3, <3>2, <4>2
      <4> QED
        BY <2>4, <4>1, <4>2
    <3> QED
      BY <3>2, <3>3
  <2>6. Append(s, p[3]) = t
    BY <1>1, <2>3, <2>5, SeqEqual
  <2> QED
    BY <2>6 DEF Push3, Push2, s
<1>7. n = 2 => t = Push2(q, p[1], p[2])
  <2> SUFFICES ASSUME n = 2
               PROVE  t = Push2(q, p[1], p[2])
    OBVIOUS
  <2> DEFINE s == Push2(q, p[1], p[2])
  <2>1. s \in Seq(Int) /\ Len(s) = Len(t) /\ \A i \in 1..Len(t) : s[i] = t[i]
    BY <1>1, <1>5
  <2> HIDE DEF s
  <2>2. s = t
    BY <2>1, SeqEqual
  <2> QED
    BY <2>2 DEF s
<1>8. n = 1 => t = Append(q, p[1])
  <2> SUFFICES ASSUME n = 1
               PROVE  t = Append(q, p[1])
    OBVIOUS
  <2> DEFINE s == Append(q, p[1])
  <2>1. s \in Seq(Int) /\ Len(s) = Len(t) /\ \A i \in 1..Len(t) : s[i] = t[i]
    BY <1>1, <1>4
  <2> HIDE DEF s
  <2>2. s = t
    BY <2>1, SeqEqual
  <2> QED
    BY <2>2 DEF s
<1> QED
  BY <1>2, <1>3, <1>6, <1>7, <1>8

\* Tuples, an element at a time.
LEMMA TuplesGrow ==
    ASSUME NEW a, NEW b, NEW c
    PROVE  Append(<<a>>, b) = <<a, b>> /\ Append(<<a, b>>, c) = <<a, b, c>>
<1> DEFINE S == {a, b, c}
           one == <<a>>
           two == <<a, b>>
           three == <<a, b, c>>
<1>1. /\ one \in Seq(S) /\ Len(one) = 1 /\ one[1] = a
      /\ two \in Seq(S) /\ Len(two) = 2 /\ two[1] = a /\ two[2] = b
  OBVIOUS
<1>2. three \in Seq(S) /\ Len(three) = 3 /\ three[1] = a /\ three[2] = b /\ three[3] = c
  OBVIOUS
<1>3. b \in S /\ c \in S
  OBVIOUS
<1> HIDE DEF one, two, three, S
<1>33. one \in Seq(S) /\ two \in Seq(S)
  BY <1>1
<1>4. /\ Append(one, b) \in Seq(S) /\ Len(Append(one, b)) = Len(one) + 1
      /\ \A i \in 1..Len(one) : Append(one, b)[i] = one[i]
      /\ Append(one, b)[Len(one) + 1] = b
  BY <1>33, <1>3, AppendProperties
<1>5. \A i \in 1..2 : Append(one, b)[i] = two[i]
  BY <1>1, <1>4
<1>6. Append(one, b) = two
  BY <1>1, <1>4, <1>5, SeqEqual
<1>7. /\ Append(two, c) \in Seq(S) /\ Len(Append(two, c)) = Len(two) + 1
      /\ \A i \in 1..Len(two) : Append(two, c)[i] = two[i]
      /\ Append(two, c)[Len(two) + 1] = c
  BY <1>33, <1>3, AppendProperties
<1>8. \A i \in 1..3 : Append(two, c)[i] = three[i]
  BY <1>1, <1>2, <1>7
<1>9. Append(two, c) = three
  BY <1>1, <1>2, <1>7, <1>8, SeqEqual
<1> QED
  BY <1>6, <1>9 DEF one, two, three

\* Pushing values one by one is putting the sequence of them on the stack.
LEMMA PushedOnto ==
    ASSUME NEW s \in Seq(Int), NEW a \in Int, NEW b \in Int, NEW c \in Int
    PROVE  /\ s \o <<>> = s
           /\ s \o <<a>> = Append(s, a) /\ Append(s, a) \in Seq(Int)
           /\ s \o <<a, b>> = Push2(s, a, b) /\ Push2(s, a, b) \in Seq(Int)
           /\ s \o <<a, b, c>> = Push3(s, a, b, c) /\ Push3(s, a, b, c) \in Seq(Int)
<1>1. s \o <<>> = s
  BY ConcatEmptySeq
<1>2. s \o <<a>> = Append(s, a) /\ Append(s, a) \in Seq(Int) /\ <<a>> \in Seq(Int)
  BY AppendIsConcat, AppendProperties
<1>3. /\ s \o <<a, b>> = Push2(s, a, b) /\ Push2(s, a, b) \in Seq(Int)
      /\ <<a, b>> \in Seq(Int)
  <2> DEFINE one == <<a>>
             last == <<b>>
  <2>1. one \in Seq(Int) /\ last \in Seq(Int) /\ <<a, b>> \in Seq(Int)
    OBVIOUS
  <2>2. (s \o <<a>>) \o <<b>> = s \o <<a, b>>
    <3>1. one \o last = <<a, b>>
      <4>1. one \o last = Append(one, b)
        BY <2>1, AppendIsConcat
      <4> QED
        BY <4>1, TuplesGrow
    <3> HIDE DEF one, last
    <3>2. (s \o one) \o last = s \o (one \o last)
      BY <2>1, ConcatAssociative
    <3> QED
      BY <3>1, <3>2 DEF one, last
  <2>3. Append(s, a) \o <<b>> = Append(Append(s, a), b)
    BY <1>2, AppendIsConcat
  <2>4. Append(Append(s, a), b) \in Seq(Int)
    BY <1>2, AppendProperties
  <2> QED
    BY <1>2, <2>1, <2>2, <2>3, <2>4 DEF Push2
<1>4. s \o <<a, b, c>> = Push3(s, a, b, c) /\ Push3(s, a, b, c) \in Seq(Int)
  <2> DEFINE t == Push2(s, a, b)
             e == <<a, b>>
             last == <<c>>
             all == <<a, b, c>>
  <2>1. t \in Seq(Int) /\ e \in Seq(Int) /\ s \o e = t /\ last \in Seq(Int)
    BY <1>3
  <2>2. e \o last = all
    <3>1. e \o last = Append(e, c)
      BY <2>1, AppendIsConcat
    <3> QED
      BY <3>1, TuplesGrow
  <2>3. t \o last = Append(t, c) /\ Append(t, c) \in Seq(Int)
    <3> HIDE DEF t
    <3> QED
      BY <2>1, AppendIsConcat, AppendProperties
  <2> HIDE DEF t, e, last, all
  <2>4. (s \o e) \o last = s \o (e \o last)
    <3>1. e \in Seq(Int) /\ last \in Seq(Int)
      BY <2>1
    <3> QED
      BY <3>1, ConcatAssociative, SMTT(30)
  <2>5. s \o <<a, b, c>> = Append(t, c)
    BY <2>1, <2>2, <2>3, <2>4 DEF all
  <2> QED
    BY <2>3, <2>5 DEF Push3, Push2, t
<1> QED
  BY <1>1, <1>2, <1>3, <1>4

\* The locals of execute that the instructions compute with, and the ones of m.
Datum == [stack : Seq(Int), locals : [0..(MaxLocals - 1) -> Int],
          out : [alert_score : 0..100, severity_code : 0..9,
                 routing_code : 0..255, suppressed : 0..1]]

Data(m) == [stack |-> m.stack, locals |-> m.locals, out |-> m.out]

\* What an instruction of the macros makes of m, on the inputs x.
Computes(ins, x, m, n) ==
    /\ ins.op = "PUSH_CONST" => ins.arg \in Int /\ n.stack = Append(m.stack, ins.arg)
    /\ ins.op = "LOAD_INPUT" =>
         x[ins.arg] \in Int /\ n.stack = Append(m.stack, x[ins.arg])
    /\ ins.op \in BinaryOps =>
         \E s \in Seq(Int), a \in Int, b \in Int : \E r \in Binary(ins.op, a, b) :
           r \in Int /\ m.stack = Push2(s, a, b) /\ n.stack = Append(s, r)
    /\ ins.op \in TernaryOps =>
         \E s \in Seq(Int), a \in Int, b \in Int, c \in Int :
           \E r \in Ternary(ins.op, a, b, c) :
             r \in Int /\ m.stack = Push3(s, a, b, c) /\ n.stack = Append(s, r)
    /\ ins.op = "DUP" => \E s \in Seq(Int), a \in Int :
         m.stack = Append(s, a) /\ n.stack = Push2(s, a, a)
    /\ ins.op = "SWAP" => \E s \in Seq(Int), a \in Int, b \in Int :
         m.stack = Push2(s, a, b) /\ n.stack = Push2(s, b, a)
    /\ ins.op = "OVER" => \E s \in Seq(Int), a \in Int, b \in Int :
         m.stack = Push2(s, a, b) /\ n.stack = Push3(s, a, b, a)

\* What a store makes of m; DROP stores nowhere.
Consumes(ins, m, n) ==
    \E s \in Seq(Int), a \in Int :
      /\ m.stack = Append(s, a) /\ n.stack = s
      /\ ins.op = "STORE_LOCAL" => ins.arg \div 2 \in 0..(MaxLocals - 1)
      /\ n.locals = IF ins.op = "STORE_LOCAL"
                    THEN [m.locals EXCEPT ![ins.arg \div 2] = a] ELSE m.locals
      /\ n.out = IF ins.op \in StoreOps
                 THEN [m.out EXCEPT ![OUTPUT_STORE_OPS[ins.op]] =
                         Stored(OUTPUT_STORE_OPS[ins.op], a)]
                 ELSE m.out

Storing == StoreOps \cup {"STORE_LOCAL", "DROP"}

Does(ins, x, m, n) ==
    /\ n \in Datum
    /\ IF ins.op \in Storing THEN Consumes(ins, m, n)
       ELSE Computes(ins, x, m, n) /\ n.locals = m.locals /\ n.out = m.out

\* How many values the operations of the macros pop.
LEMMA OperandCounts ==
    ASSUME NEW op
    PROVE  /\ op \in {"PUSH_CONST", "LOAD_INPUT"} => Operands(op) = 0
           /\ op \in Storing \cup {"DUP"} => Operands(op) = 1
           /\ op \in BinaryOps \cup {"SWAP", "OVER"} => Operands(op) = 2
           /\ op \in TernaryOps => Operands(op) = 3
<1> USE DEF Storing, StoreOps, BinaryOps, CompareOps, TernaryOps, UnaryOps
<1>1. op \in {"PUSH_CONST", "LOAD_INPUT"} => Operands(op) = 0
  BY DEF Operands
<1>2. op \in Storing \cup {"DUP"} => Operands(op) = 1
  BY DEF Operands
<1>3. op \in BinaryOps \cup {"SWAP", "OVER"} => Operands(op) = 2
  BY DEF Operands
<1>4. op \in TernaryOps => Operands(op) = 3
  BY DEF Operands
<1> HIDE DEF Storing, StoreOps, BinaryOps, CompareOps, TernaryOps, UnaryOps
<1> QED
  BY <1>1, <1>2, <1>3, <1>4

\* The stack of the machine is the values that an instruction pops, on the others.
LEMMA PoppedFrom ==
    ASSUME vm \in Machine, NEW ins \in Instruction, ins.op \in Op,
           Len(vm.stack) >= Operands(ins.op)
    PROVE  LET n == Operands(ins.op)
               p == Popped(ins)
               q == Below(ins)
           IN  /\ q \in Seq(Int) /\ \A i \in 1..n : p[i] \in Int
               /\ n = 0 => vm.stack = q
               /\ n = 1 => vm.stack = Append(q, p[1])
               /\ n = 2 => vm.stack = Push2(q, p[1], p[2])
               /\ n = 3 => vm.stack = Push3(q, p[1], p[2], p[3])
<1> DEFINE n == Operands(ins.op)
           p == Popped(ins)
           q == Below(ins)
           t == vm.stack
<1>1. n \in Nat /\ t \in Seq(Int) /\ Len(t) \in Nat /\ n <= Len(t)
  BY EffectsTyped, MachineFields
<1>2. p = SubSeq(t, Len(t) - n + 1, Len(t)) /\ q = SubSeq(t, 1, Len(t) - n)
  BY DEF Popped, Below
<1> HIDE DEF n, p, q, t
<1>3. /\ q \in Seq(Int) /\ Len(q) = Len(t) - n
      /\ \A i \in 1..(Len(t) - n) : q[i] = t[i]
  BY <1>1, <1>2
<1>4. \A i \in 1..n : p[i] = t[Len(t) - n + i]
  BY <1>1, <1>2
<1>5. \A i \in 1..n : p[i] \in Int
  <2> TAKE i \in 1..n
  <2>1. Len(t) - n + i \in 1..Len(t)
    BY <1>1
  <2> QED
    BY <1>1, <1>4, <2>1, ElementOfSeq
<1>6. n = 0 => t = q
  <2>1. n = 0 => Len(q) = Len(t) /\ \A i \in 1..Len(t) : q[i] = t[i]
    BY <1>1, <1>3
  <2> QED
    BY <1>1, <1>3, <2>1, SeqEqual
<1>7. n \in 1..3 => /\ n = 1 => t = Append(q, p[1])
                    /\ n = 2 => t = Push2(q, p[1], p[2])
                    /\ n = 3 => t = Push3(q, p[1], p[2], p[3])
  BY <1>1, <1>3, <1>4, StackSplit, ZenonT(40)
<1>8. /\ n = 1 => t = Append(q, p[1])
      /\ n = 2 => t = Push2(q, p[1], p[2])
      /\ n = 3 => t = Push3(q, p[1], p[2], p[3])
  BY <1>1, <1>7
<1> QED
  BY <1>3, <1>5, <1>6, <1>8 DEF n, p, q, t

\* One iteration of execute's loop does what its instruction does.
LEMMA StepDoes ==
    ASSUME Inv, Step
    PROVE  Does(ir[vm.ip], vm.inputs, Data(vm), Data(vm'))
<1> DEFINE ins == ir[vm.ip]
           n == Operands(ins.op)
           p == Popped(ins)
           q == Below(ins)
<1>1. Running /\ ins.op # "HALT" /\ vm \in Machine /\ vm' \in Machine
  BY StepTyped DEF Step, Inv, Typed
<1>2. PICK new \in Pushed(ins) :
        /\ vm'.stack = q \o new
        /\ vm'.locals = IF ins.op = "STORE_LOCAL"
                        THEN [vm.locals EXCEPT ![ins.arg \div 2] = p[1]] ELSE vm.locals
        /\ vm'.out = IF ins.op \in StoreOps
                     THEN [vm.out EXCEPT ![OUTPUT_STORE_OPS[ins.op]] =
                             Stored(OUTPUT_STORE_OPS[ins.op], p[1])]
                     ELSE vm.out
  <2>1. PICK new \in Pushed(ins) :
          vm' = [vm EXCEPT
                   !.ip = @ + 1,
                   !.executed = @ + 1,
                   !.stack = Below(ins) \o new,
                   !.maxDepth = Larger(@, Len(Below(ins)) + Len(new)),
                   !.locals = IF ins.op = "STORE_LOCAL"
                              THEN [@ EXCEPT ![ins.arg \div 2] = Popped(ins)[1]]
                              ELSE @,
                   !.out = IF ins.op \in StoreOps
                           THEN LET name == OUTPUT_STORE_OPS[ins.op]
                                IN  [@ EXCEPT ![name] = Stored(name, Popped(ins)[1])]
                           ELSE @]
    BY DEF Step
  <2> HIDE DEF ins
  <2> QED
    BY <1>1, <2>1 DEF Machine
<1>3. /\ ins \in Instruction /\ ins.op \in Op /\ ValidInstruction(ins)
      /\ Len(vm.stack) >= n
      /\ \A k \in 0..(NumInputs - 1) : k \in DOMAIN vm.inputs
  BY <1>1, Here DEF Admissible
<1> HIDE DEF ins
<1>4. /\ q \in Seq(Int) /\ \A i \in 1..n : p[i] \in Int
      /\ n = 0 => vm.stack = q
      /\ n = 1 => vm.stack = Append(q, p[1])
      /\ n = 2 => vm.stack = Push2(q, p[1], p[2])
      /\ n = 3 => vm.stack = Push3(q, p[1], p[2], p[3])
  BY <1>1, <1>3, PoppedFrom
<1>5. /\ ins.op \in {"PUSH_CONST", "LOAD_INPUT"} => n = 0
      /\ ins.op \in Storing \cup {"DUP"} => n = 1
      /\ ins.op \in BinaryOps \cup {"SWAP", "OVER"} => n = 2
      /\ ins.op \in TernaryOps => n = 3
  BY OperandCounts
<1>6. new \in Seq(Int)
  BY <1>1, <1>2, NewDepth DEF ins
<1> DEFINE m == Data(vm)
           m2 == Data(vm')
           x == vm.inputs
<1>7. /\ m2 \in Datum /\ m.stack = vm.stack /\ m2.stack = q \o new
      /\ m.locals = vm.locals /\ m.out = vm.out
      /\ m2.locals = vm'.locals /\ m2.out = vm'.out
  BY <1>1, <1>2 DEF Data, Datum, Machine
<1> HIDE DEF n, p, q, m, m2, x
<1>8. CASE ins.op \in Storing
  <2>1. new = <<>>
    BY <1>2, <1>3, <1>8, PushedShape DEF Storing
  <2>2. n = 1 /\ 1 \in 1..n
    BY <1>5, <1>8
  <2>3. m.stack = Append(q, p[1]) /\ p[1] \in Int /\ m2.stack = q
    BY <1>4, <1>7, <2>1, <2>2, ConcatEmptySeq
  <2>4. Consumes(ins, m, m2)
    <3>1. ins.op = "STORE_LOCAL" => ins.arg \div 2 \in 0..(MaxLocals - 1)
      BY <1>3 DEF ValidInstruction, LOCAL_OPS
    <3> QED
      BY <1>2, <1>4, <1>7, <2>3, <3>1, ZenonT(40) DEF Consumes
  <2> QED
    BY <1>7, <1>8, <2>4 DEF Does, ins, x, m, m2
<1>9. CASE ins.op \notin Storing
  <2>1. m2.locals = m.locals /\ m2.out = m.out
    BY <1>2, <1>7, <1>9 DEF Storing
  <2>2. ASSUME ins.op = "PUSH_CONST"
        PROVE  ins.arg \in Int /\ m2.stack = Append(m.stack, ins.arg)
    <3>1. new = <<ins.arg>> /\ n = 0 /\ ins.arg \in Int
      BY <1>2, <1>3, <1>5, <2>2, PushedShapeSingles DEF Instruction
    <3> QED
      BY <1>4, <1>7, <3>1, PushedOnto
  <2>3. ASSUME ins.op = "LOAD_INPUT"
        PROVE  x[ins.arg] \in Int /\ m2.stack = Append(m.stack, x[ins.arg])
    <3>1. new = <<x[ins.arg]>> /\ n = 0
      BY <1>2, <1>3, <1>5, <2>3, PushedShapeSingles DEF x
    <3>2. ins.arg \in 0..(NumInputs - 1)
      BY <1>3, <2>3 DEF ValidInstruction, LOCAL_OPS
    <3>3. x[ins.arg] \in Int
      BY <1>1, <1>3, <3>2, MachineFields DEF x
    <3> QED
      BY <1>4, <1>7, <3>1, <3>3, PushedOnto
  <2>4. ASSUME ins.op \in BinaryOps
        PROVE  \E s \in Seq(Int), a \in Int, b \in Int : \E r \in Binary(ins.op, a, b) :
                 r \in Int /\ m.stack = Push2(s, a, b) /\ m2.stack = Append(s, r)
    <3>1. PICK r \in Binary(ins.op, p[1], p[2]) : new = <<r>>
      BY <1>2, <1>3, <2>4, PushedShape DEF p
    <3>2. n = 2 /\ p[1] \in Int /\ p[2] \in Int
      BY <1>4, <1>5, <2>4
    <3>3. r \in Int
      BY <2>4, <3>1, <3>2, BinaryTyped
    <3>4. m.stack = Push2(q, p[1], p[2]) /\ m2.stack = Append(q, r)
      BY <1>4, <1>7, <3>1, <3>2, <3>3, PushedOnto
    <3> QED
      BY <1>4, <3>1, <3>2, <3>3, <3>4
  <2>5. ASSUME ins.op \in TernaryOps
        PROVE  \E s \in Seq(Int), a \in Int, b \in Int, c \in Int :
                 \E r \in Ternary(ins.op, a, b, c) :
                   r \in Int /\ m.stack = Push3(s, a, b, c) /\ m2.stack = Append(s, r)
    <3>1. PICK r \in Ternary(ins.op, p[1], p[2], p[3]) : new = <<r>>
      BY <1>2, <1>3, <2>5, PushedShape DEF p
    <3>2. n = 3 /\ p[1] \in Int /\ p[2] \in Int /\ p[3] \in Int
      BY <1>4, <1>5, <2>5
    <3>3. r \in Int
      BY <2>5, <3>1, <3>2, TernaryTyped
    <3>4. m.stack = Push3(q, p[1], p[2], p[3]) /\ m2.stack = Append(q, r)
      BY <1>4, <1>7, <3>1, <3>2, <3>3, PushedOnto
    <3> QED
      BY <1>4, <3>1, <3>2, <3>3, <3>4
  <2>6. ASSUME ins.op = "DUP"
        PROVE  \E s \in Seq(Int), a \in Int :
                 m.stack = Append(s, a) /\ m2.stack = Push2(s, a, a)
    <3>1. new = <<p[1], p[1]>> /\ n = 1
      BY <1>2, <1>3, <1>5, <2>6, PushedShapeSingles DEF p
    <3>2. p[1] \in Int
      BY <1>4, <3>1
    <3>3. m.stack = Append(q, p[1]) /\ m2.stack = Push2(q, p[1], p[1])
      BY <1>4, <1>7, <3>1, <3>2, PushedOnto
    <3> QED
      BY <1>4, <3>2, <3>3
  <2>7. ASSUME ins.op = "SWAP"
        PROVE  \E s \in Seq(Int), a \in Int, b \in Int :
                 m.stack = Push2(s, a, b) /\ m2.stack = Push2(s, b, a)
    <3>1. new = <<p[2], p[1]>> /\ n = 2
      BY <1>2, <1>3, <1>5, <2>7, PushedShapeSingles DEF p
    <3>2. p[1] \in Int /\ p[2] \in Int
      BY <1>4, <3>1
    <3>3. m.stack = Push2(q, p[1], p[2]) /\ m2.stack = Push2(q, p[2], p[1])
      BY <1>4, <1>7, <3>1, <3>2, PushedOnto
    <3> QED
      BY <1>4, <3>2, <3>3
  <2>8. ASSUME ins.op = "OVER"
        PROVE  \E s \in Seq(Int), a \in Int, b \in Int :
                 m.stack = Push2(s, a, b) /\ m2.stack = Push3(s, a, b, a)
    <3>1. new = <<p[1], p[2], p[1]>> /\ n = 2
      BY <1>2, <1>3, <1>5, <2>8, PushedShapeSingles DEF p
    <3>2. p[1] \in Int /\ p[2] \in Int
      BY <1>4, <3>1
    <3>3. m.stack = Push2(q, p[1], p[2]) /\ m2.stack = Push3(q, p[1], p[2], p[1])
      BY <1>4, <1>7, <3>1, <3>2, PushedOnto
    <3> QED
      BY <1>4, <3>2, <3>3
  <2>9. Computes(ins, x, m, m2)
    BY <2>2, <2>3, <2>4, <2>5, <2>6, <2>7, <2>8 DEF Computes
  <2> QED
    BY <1>7, <1>9, <2>1, <2>9 DEF Does, ins, x, m, m2
<1> QED
  BY <1>8, <1>9

----------------------------------------------------------------------------
(* A run is a trace of its instructions *)

\* tr is what k - 1 instructions of a program compute, one after the other.
Trace(code, x, tr, k) ==
    /\ tr \in [1..k -> Datum]
    /\ tr[1].stack = <<>>
    /\ \A i \in 1..(k - 1) : code[i].op # "HALT" /\ Does(code[i], x, tr[i], tr[i + 1])

Traced == \E tr : Trace(ir, vm.inputs, tr, vm.ip) /\ tr[vm.ip] = Data(vm)

\* A run has traced the instructions before the one it has come to, and a
\* completed one has come to a HALT or to the end.
TraceInv ==
    /\ phase \in {"running", "done"} => Traced
    /\ phase = "done" => vm.ip > Len(ir) \/ ir[vm.ip].op = "HALT"

\* An iteration of the loop makes the trace one instruction longer.
LEMMA StepTraced ==
    ASSUME Inv, Step, Traced
    PROVE  Traced'
<1>1. PICK tr : Trace(ir, vm.inputs, tr, vm.ip) /\ tr[vm.ip] = Data(vm)
  BY DEF Traced
<1>2. /\ vm' \in Machine /\ vm'.ip = vm.ip + 1 /\ vm'.inputs = vm.inputs /\ ir' = ir
      /\ ir[vm.ip].op # "HALT" /\ vm.ip \in Nat \ {0}
  BY StepTyped DEF Step, Inv, Typed, Machine
<1>3. Does(ir[vm.ip], vm.inputs, Data(vm), Data(vm'))
  BY StepDoes
<1>4. Data(vm') \in Datum
  BY <1>3 DEF Does
<1> DEFINE k == vm.ip
           d == Data(vm')
           x == vm.inputs
           tr2 == [i \in 1..(k + 1) |-> IF i = k + 1 THEN d ELSE tr[i]]
<1>5. /\ k \in Nat \ {0} /\ d \in Datum /\ Does(ir[k], x, tr[k], d) /\ ir[k].op # "HALT"
      /\ tr \in [1..k -> Datum] /\ tr[1].stack = <<>>
      /\ \A i \in 1..(k - 1) : ir[i].op # "HALT" /\ Does(ir[i], x, tr[i], tr[i + 1])
  BY <1>1, <1>2, <1>3, <1>4 DEF Trace
<1>6. k' = k + 1 /\ x' = x /\ d = Data(vm)' /\ ir' = ir
  BY <1>2 DEF Data
<1> HIDE DEF k, d, x
<1>7. tr2 \in [1..(k + 1) -> Datum] /\ tr2[1] = tr[1] /\ tr2[k + 1] = d
  <2>1. \A i \in 1..(k + 1) : i = k + 1 \/ i \in 1..k
    BY <1>5
  <2>2. 1 \in 1..(k + 1) /\ 1 # k + 1 /\ k + 1 \in 1..(k + 1)
    BY <1>5
  <2> QED
    BY <1>5, <2>1, <2>2
<1>8. \A i \in 1..k : tr2[i] = tr[i]
  BY <1>5
<1>9. \A i \in 1..k : ir[i].op # "HALT" /\ Does(ir[i], x, tr2[i], tr2[i + 1])
  <2> TAKE i \in 1..k
  <2>1. CASE i = k
    BY <1>5, <1>7, <1>8, <2>1
  <2>2. CASE i # k
    <3>1. i \in 1..(k - 1) /\ i + 1 \in 1..k
      BY <1>5, <2>2
    <3> QED
      BY <1>5, <1>8, <3>1
  <2> QED
    BY <2>1, <2>2
<1>10. k + 1 - 1 = k
  BY <1>5
<1> HIDE DEF tr2
<1>11. Trace(ir, x, tr2, k + 1)
  BY <1>5, <1>7, <1>9, <1>10 DEF Trace
<1>12. Trace(ir', x', tr2, k') /\ tr2[k'] = Data(vm)'
  BY <1>6, <1>7, <1>11
<1> QED
  BY <1>12 DEF Traced, k, x

\* The invariant holds of every step: a run starts with an empty stack, and
\* nothing but its own steps touches what it computes with.
LEMMA TraceStep ==
    ASSUME Inv, [Next]_vars, TraceInv
    PROVE  TraceInv'
<1> SUFFICES ASSUME phase' \in {"running", "done"}
             PROVE  Traced' /\ (phase' = "done" => (vm.ip > Len(ir) \/ ir[vm.ip].op = "HALT")')
  BY DEF TraceInv
<1>1. CASE StartRun
  <2>1. /\ phase = "checking" /\ phase' = "running" /\ UNCHANGED <<ir, vm>>
        /\ vm.ip = 1 /\ vm.stack = <<>> /\ vm \in Machine
    BY <1>1 DEF StartRun, Inv, RunInv, Typed
  <2> DEFINE tr == [i \in 1..1 |-> Data(vm)]
  <2>2. Data(vm) \in Datum /\ Data(vm).stack = <<>>
    BY <2>1 DEF Data, Datum, Machine
  <2> HIDE DEF TraceInv
  <2>3. tr \in [1..1 -> Datum] /\ tr[1] = Data(vm) /\ 1..(1 - 1) = {}
    BY <2>2
  <2> HIDE DEF tr
  <2>4. Trace(ir, vm.inputs, tr, 1)
    BY <2>2, <2>3 DEF Trace
  <2>5. ir' = ir /\ vm' = vm /\ vm.ip = 1
    BY <2>1
  <2>6. Traced
    BY <2>3, <2>4, <2>5 DEF Traced
  <2>7. Traced'
    BY <2>5, <2>6 DEF Traced
  <2> QED
    BY <2>1, <2>7
<1>2. CASE Step
  <2>1. phase = "running" /\ phase' = "running"
    BY <1>2 DEF Step, Running
  <2>2. Traced'
    BY <1>2, <2>1, StepTraced DEF TraceInv
  <2> QED
    BY <2>1, <2>2
<1>3. CASE Halt
  <2>1. /\ phase = "running" /\ ir[vm.ip].op = "HALT" /\ ir' = ir
        /\ vm' = [vm EXCEPT !.executed = @ + 1] /\ vm \in Machine
    BY <1>3 DEF Halt, Running, Inv, Typed
  <2>2. vm'.ip = vm.ip /\ vm'.inputs = vm.inputs /\ Data(vm)' = Data(vm)
    BY <2>1 DEF Data, Machine
  <2>3. Traced'
    BY <2>1, <2>2, Zenon DEF TraceInv, Traced
  <2> QED
    BY <2>1, <2>2, <2>3
<1>4. CASE EndOfProgram \/ UNCHANGED vars
  <2>1. /\ UNCHANGED <<ir, vm>> /\ phase \in {"running", "done"}
        /\ phase' = "done" => vm.ip > Len(ir) \/ ir[vm.ip].op = "HALT"
    BY <1>4 DEF EndOfProgram, vars, TraceInv
  <2>2. Traced'
    BY <2>1 DEF TraceInv, Traced
  <2> QED
    BY <2>1, <2>2
<1>5. CASE Client \/ Fallback \/ Discard
  BY <1>5 DEF Client, Extend, Build, Deserialize, Upload, EncodeMidi, Execute,
       StartAnalysis, Fallback, Discard
<1>6. CASE CompileMidi
  BY <1>6 DEF CompileMidi, StartAnalysis
<1>7. CASE AnalyzeInstruction
  BY <1>7 DEF AnalyzeInstruction, Analyzing
<1>8. CASE AnalyzeReject \/ Verify \/ Raise
  BY <1>8 DEF AnalyzeReject, Verify, Raise
<1> QED
  BY <1>1, <1>2, <1>3, <1>4, <1>5, <1>6, <1>7, <1>8 DEF Next, Engine

\* A completed run of a macro's program has traced all of the macro.
LEMMA CompletedTraced ==
    ASSUME Inv, TraceInv, NEW code \in Seq(Body), Completed(code)
    PROVE  \E tr : /\ Trace(WithHalt(code), vm.inputs, tr, Len(code) + 1)
                   /\ tr[Len(code) + 1] = Data(vm)
<1>1. /\ Len(WithHalt(code)) = Len(code) + 1 /\ Len(code) \in Nat
      /\ Stands(WithHalt(code), 0, code)
      /\ WithHalt(code)[Len(code) + 1] = Plain("HALT")
  BY WithHaltStands
<1>2. phase = "done" /\ ir = WithHalt(code) /\ vm.ip \in Nat \ {0}
  BY DEF Completed, Inv, Typed, Machine
<1>3. PICK tr : Trace(ir, vm.inputs, tr, vm.ip) /\ tr[vm.ip] = Data(vm)
  BY <1>2 DEF TraceInv, Traced
<1>4. vm.ip > Len(ir) \/ ir[vm.ip].op = "HALT"
  BY <1>2 DEF TraceInv
<1>5. \A i \in 1..Len(code) : ir[i].op # "HALT"
  <2> TAKE i \in 1..Len(code)
  <2>1. code[i] \in Body
    BY ElementOfSeq
  <2>2. 0 + i = i
    BY <1>1
  <2>3. ir[i] = code[i]
    BY <1>1, <1>2, <2>2 DEF Stands
  <2> QED
    BY <2>1, <2>3 DEF Body
<1>6. vm.ip >= Len(code) + 1
  BY <1>1, <1>2, <1>4, <1>5
<1>7. ~ (vm.ip > Len(code) + 1)
  <2> SUFFICES ASSUME vm.ip > Len(code) + 1
               PROVE  FALSE
    OBVIOUS
  <2>1. Len(code) + 1 \in 1..(vm.ip - 1)
    BY <1>1, <1>2
  <2>2. ir[Len(code) + 1].op # "HALT"
    BY <1>3, <2>1 DEF Trace
  <2> QED
    BY <1>1, <1>2, <2>2 DEF Plain
<1>8. vm.ip = Len(code) + 1
  BY <1>1, <1>2, <1>6, <1>7
<1> QED
  BY <1>2, <1>3, <1>8

----------------------------------------------------------------------------
(* One instruction of a macro *)

\* Neither stores anything.
Kept(m, n) == n.locals = m.locals /\ n.out = m.out

\* A constant or an input is put on the stack.
LEMMA DoesConst ==
    ASSUME NEW v, NEW x, NEW m, NEW n, Does(Const(v), x, m, n)
    PROVE  v \in Int /\ n.stack = Append(m.stack, v) /\ Kept(m, n)
  BY DEF Does, Const, Storing, StoreOps, Computes, Kept

LEMMA DoesInput ==
    ASSUME NEW k, NEW x, NEW m, NEW n, Does(Input(k), x, m, n)
    PROVE  x[k] \in Int /\ n.stack = Append(m.stack, x[k]) /\ Kept(m, n)
  BY DEF Does, Input, Storing, StoreOps, Computes, Kept

\* Stacks are the same when what was put on them is.
LEMMA PushOne ==
    ASSUME NEW s \in Seq(Int), NEW a \in Int, NEW t \in Seq(Int), NEW d \in Int,
           Append(s, a) = Append(t, d)
    PROVE  s = t /\ a = d
<1> DEFINE u == Append(s, a)
<1>1. /\ Len(u) = Len(s) + 1 /\ \A i \in 1..Len(s) : u[i] = s[i]
      /\ u[Len(s) + 1] = a
  BY AppendProperties, ZenonT(40)
<1>2. /\ Len(u) = Len(t) + 1 /\ \A i \in 1..Len(t) : u[i] = t[i]
      /\ u[Len(t) + 1] = d
  BY AppendProperties
<1>3. Len(s) \in Nat /\ Len(t) \in Nat
  BY LenProperties
<1> HIDE DEF u
<1>4. Len(s) = Len(t)
  BY <1>1, <1>2, <1>3
<1>5. \A i \in 1..Len(s) : s[i] = t[i]
  BY <1>1, <1>2, <1>4
<1>6. s = t
  BY <1>4, <1>5, SeqEqual
<1> QED
  BY <1>1, <1>2, <1>4, <1>6

LEMMA PushTwo ==
    ASSUME NEW s \in Seq(Int), NEW a \in Int, NEW b \in Int,
           NEW t \in Seq(Int), NEW d \in Int, NEW e \in Int,
           Push2(s, a, b) = Push2(t, d, e)
    PROVE  s = t /\ a = d /\ b = e
<1> DEFINE p == Append(s, a)
           q == Append(t, d)
<1>1. p \in Seq(Int) /\ q \in Seq(Int)
  BY AppendProperties
<1>2. p = q => s = t /\ a = d
  BY PushOne
<1>3. Append(p, b) = Append(q, e)
  BY DEF Push2
<1> HIDE DEF p, q
<1>4. p = q /\ b = e
  BY <1>1, <1>3, PushOne
<1> QED
  BY <1>2, <1>4

LEMMA PushThree ==
    ASSUME NEW s \in Seq(Int), NEW a \in Int, NEW b \in Int, NEW c \in Int,
           NEW t \in Seq(Int), NEW d \in Int, NEW e \in Int, NEW f \in Int,
           Push3(s, a, b, c) = Push3(t, d, e, f)
    PROVE  s = t /\ a = d /\ b = e /\ c = f
<1> DEFINE p == Push2(s, a, b)
           q == Push2(t, d, e)
<1>1. p \in Seq(Int) /\ q \in Seq(Int)
  BY PushedOnto
<1>2. p = q => s = t /\ a = d /\ b = e
  BY PushTwo
<1>3. Append(p, c) = Append(q, f)
  BY DEF Push3, Push2
<1> HIDE DEF p, q
<1>4. p = q /\ c = f
  BY <1>1, <1>3, PushOne
<1> QED
  BY <1>2, <1>4

\* An operation on two numbers, and one on three.
LEMMA DoesBinary ==
    ASSUME NEW op \in BinaryOps, NEW x, NEW m, NEW n, Does(Plain(op), x, m, n),
           NEW s \in Seq(Int), NEW a \in Int, NEW b \in Int, m.stack = Push2(s, a, b)
    PROVE  (\E r \in Binary(op, a, b) : r \in Int /\ n.stack = Append(s, r)) /\ Kept(m, n)
<1>1. Plain(op).op = op /\ op \notin Storing
  BY DEF Plain, Storing, StoreOps, BinaryOps, CompareOps
<1>2. Computes(Plain(op), x, m, n) /\ Kept(m, n)
  BY <1>1 DEF Does, Kept
<1>3. PICK t \in Seq(Int), d \in Int, e \in Int :
        \E r \in Binary(op, d, e) :
          r \in Int /\ m.stack = Push2(t, d, e) /\ n.stack = Append(t, r)
  BY <1>1, <1>2 DEF Computes
<1>4. t = s /\ d = a /\ e = b
  <2>1. Push2(t, d, e) = Push2(s, a, b)
    BY <1>3
  <2> QED
    BY <2>1, PushTwo
<1> QED
  BY <1>2, <1>3, <1>4

LEMMA DoesWithConst ==
    ASSUME NEW op \in BinaryOps, NEW x, NEW m1, NEW m2, NEW m3, NEW b,
           Does(Const(b), x, m1, m2), Does(Plain(op), x, m2, m3),
           NEW s \in Seq(Int), NEW a \in Int, m1.stack = Append(s, a)
    PROVE  /\ b \in Int /\ Kept(m1, m3)
           /\ \E r \in Binary(op, a, b) : r \in Int /\ m3.stack = Append(s, r)
<1>1. b \in Int /\ m2.stack = Append(m1.stack, b) /\ Kept(m1, m2)
  BY DoesConst
<1>2. m2.stack = Push2(s, a, b)
  BY <1>1 DEF Push2
<1>3. (\E r \in Binary(op, a, b) : r \in Int /\ m3.stack = Append(s, r)) /\ Kept(m2, m3)
  BY <1>1, <1>2, DoesBinary
<1> QED
  BY <1>1, <1>3 DEF Kept

LEMMA DoesTernary ==
    ASSUME NEW op \in TernaryOps, NEW x, NEW m, NEW n, Does(Plain(op), x, m, n),
           NEW s \in Seq(Int), NEW a \in Int, NEW b \in Int, NEW c \in Int,
           m.stack = Push3(s, a, b, c)
    PROVE  (\E r \in Ternary(op, a, b, c) : r \in Int /\ n.stack = Append(s, r))
           /\ Kept(m, n)
<1>1. Plain(op).op = op /\ op \notin Storing
  BY DEF Plain, Storing, StoreOps, TernaryOps
<1>2. Computes(Plain(op), x, m, n) /\ Kept(m, n)
  BY <1>1 DEF Does, Kept
<1>3. PICK t \in Seq(Int), d \in Int, e \in Int, f \in Int :
        \E r \in Ternary(op, d, e, f) :
          r \in Int /\ m.stack = Push3(t, d, e, f) /\ n.stack = Append(t, r)
  BY <1>1, <1>2 DEF Computes
<1>4. t = s /\ d = a /\ e = b /\ f = c
  <2>1. Push3(t, d, e, f) = Push3(s, a, b, c)
    BY <1>3
  <2> QED
    BY <2>1, PushThree
<1> QED
  BY <1>2, <1>3, <1>4

\* The operations that copy and reorder what is on the stack.
LEMMA DoesDup ==
    ASSUME NEW x, NEW m, NEW n, Does(Plain("DUP"), x, m, n),
           NEW s \in Seq(Int), NEW a \in Int, m.stack = Append(s, a)
    PROVE  n.stack = Push2(s, a, a) /\ Kept(m, n)
<1>1. Plain("DUP").op = "DUP" /\ "DUP" \notin Storing
  BY DEF Plain, Storing, StoreOps
<1>2. Computes(Plain("DUP"), x, m, n) /\ Kept(m, n)
  BY <1>1 DEF Does, Kept
<1>3. PICK t \in Seq(Int), d \in Int : m.stack = Append(t, d) /\ n.stack = Push2(t, d, d)
  BY <1>1, <1>2 DEF Computes
<1>4. t = s /\ d = a
  <2>1. Append(t, d) = Append(s, a)
    BY <1>3
  <2> QED
    BY <2>1, PushOne
<1> QED
  BY <1>2, <1>3, <1>4

LEMMA DoesSwap ==
    ASSUME NEW x, NEW m, NEW n, Does(Plain("SWAP"), x, m, n),
           NEW s \in Seq(Int), NEW a \in Int, NEW b \in Int, m.stack = Push2(s, a, b)
    PROVE  n.stack = Push2(s, b, a) /\ Kept(m, n)
<1>1. Plain("SWAP").op = "SWAP" /\ "SWAP" \notin Storing
  BY DEF Plain, Storing, StoreOps
<1>2. Computes(Plain("SWAP"), x, m, n) /\ Kept(m, n)
  BY <1>1 DEF Does, Kept
<1>3. PICK t \in Seq(Int), d \in Int, e \in Int :
        m.stack = Push2(t, d, e) /\ n.stack = Push2(t, e, d)
  BY <1>1, <1>2 DEF Computes
<1>4. t = s /\ d = a /\ e = b
  <2>1. Push2(t, d, e) = Push2(s, a, b)
    BY <1>3
  <2> QED
    BY <2>1, PushTwo
<1> QED
  BY <1>2, <1>3, <1>4

LEMMA DoesOver ==
    ASSUME NEW x, NEW m, NEW n, Does(Plain("OVER"), x, m, n),
           NEW s \in Seq(Int), NEW a \in Int, NEW b \in Int, m.stack = Push2(s, a, b)
    PROVE  n.stack = Push3(s, a, b, a) /\ Kept(m, n)
<1>1. Plain("OVER").op = "OVER" /\ "OVER" \notin Storing
  BY DEF Plain, Storing, StoreOps
<1>2. Computes(Plain("OVER"), x, m, n) /\ Kept(m, n)
  BY <1>1 DEF Does, Kept
<1>3. PICK t \in Seq(Int), d \in Int, e \in Int :
        m.stack = Push2(t, d, e) /\ n.stack = Push3(t, d, e, d)
  BY <1>1, <1>2 DEF Computes
<1>4. t = s /\ d = a /\ e = b
  <2>1. Push2(t, d, e) = Push2(s, a, b)
    BY <1>3
  <2> QED
    BY <2>1, PushTwo
<1> QED
  BY <1>2, <1>3, <1>4

\* The operations that take the value off the stack, and where they store it.
LEMMA DoesDrop ==
    ASSUME NEW x, NEW m, NEW n, Does(Plain("DROP"), x, m, n),
           NEW s \in Seq(Int), NEW a \in Int, m.stack = Append(s, a)
    PROVE  n.stack = s /\ Kept(m, n)
<1> DEFINE ins == Plain("DROP")
<1>1. ins.op \in Storing /\ ins.op \notin StoreOps /\ ins.op # "STORE_LOCAL"
  BY DEF Plain, Storing, StoreOps
<1>2. Does(ins, x, m, n)
  OBVIOUS
<1> HIDE DEF ins
<1>3. PICK t \in Seq(Int), d \in Int :
        m.stack = Append(t, d) /\ n.stack = t /\ n.locals = m.locals /\ n.out = m.out
  BY <1>1, <1>2 DEF Does, Consumes
<1>4. Append(t, d) = Append(s, a)
  BY <1>3
<1>5. t = s
  BY <1>4, PushOne
<1> QED
  BY <1>3, <1>5 DEF Kept

LEMMA DoesOutput ==
    ASSUME NEW op \in StoreOps, NEW x, NEW m, NEW n, Does(Plain(op), x, m, n),
           NEW s \in Seq(Int), NEW a \in Int, m.stack = Append(s, a)
    PROVE  /\ n.stack = s /\ n.locals = m.locals
           /\ n.out = [m.out EXCEPT ![OUTPUT_STORE_OPS[op]] =
                          Stored(OUTPUT_STORE_OPS[op], a)]
<1> DEFINE ins == Plain(op)
<1>1. ins.op = op /\ ins.op \in Storing /\ ins.op \in StoreOps /\ ins.op # "STORE_LOCAL"
  BY DEF Plain, Storing, StoreOps
<1>2. Does(ins, x, m, n)
  OBVIOUS
<1> HIDE DEF ins
<1>3. PICK t \in Seq(Int), d \in Int :
        /\ m.stack = Append(t, d) /\ n.stack = t /\ n.locals = m.locals
        /\ n.out = [m.out EXCEPT ![OUTPUT_STORE_OPS[op]] =
                      Stored(OUTPUT_STORE_OPS[op], d)]
  BY <1>1, <1>2 DEF Does, Consumes
<1>4. Append(t, d) = Append(s, a)
  BY <1>3
<1>5. t = s /\ d = a
  BY <1>4, PushOne
<1> QED
  BY <1>3, <1>5

LEMMA DoesLocal ==
    ASSUME NEW x, NEW m, NEW n, Does(Local("STORE_LOCAL", 1), x, m, n),
           NEW s \in Seq(Int), NEW a \in Int, m.stack = Append(s, a)
    PROVE  /\ n.stack = s /\ n.out = m.out /\ n.locals = [m.locals EXCEPT ![1] = a]
           /\ 1 \in 0..(MaxLocals - 1)
<1> DEFINE ins == Local("STORE_LOCAL", 1)
<1>1. /\ ins.op \in Storing /\ ins.op \notin StoreOps /\ ins.op = "STORE_LOCAL"
      /\ ins.arg \div 2 = 1
  BY DEF Local, Storing, StoreOps
<1>2. Does(ins, x, m, n)
  OBVIOUS
<1> HIDE DEF ins
<1>3. PICK t \in Seq(Int), d \in Int :
        /\ m.stack = Append(t, d) /\ n.stack = t /\ n.out = m.out
        /\ n.locals = [m.locals EXCEPT ![1] = d] /\ 1 \in 0..(MaxLocals - 1)
  BY <1>1, <1>2 DEF Does, Consumes
<1>4. Append(t, d) = Append(s, a)
  BY <1>3
<1>5. t = s /\ d = a
  BY <1>4, PushOne
<1> QED
  BY <1>3, <1>5

\* The instructions of a piece of the program, as a trace of it passes them.
LEMMA PieceDoes ==
    ASSUME NEW code, NEW x, NEW tr, NEW k \in Nat \ {0}, Trace(code, x, tr, k),
           NEW base \in Nat, NEW piece \in Seq(Body), Stands(code, base, piece),
           base + Len(piece) < k
    PROVE  /\ Len(piece) \in Nat
           /\ \A i \in 1..Len(piece) : Does(piece[i], x, tr[base + i], tr[base + i + 1])
           /\ \A i \in 1..(Len(piece) + 1) : tr[base + i] \in Datum
<1>1. Len(piece) \in Nat
  BY LenProperties
<1>2. ASSUME NEW i \in 1..Len(piece)
      PROVE  Does(piece[i], x, tr[base + i], tr[base + i + 1])
  <2>1. base + i \in 1..(k - 1)
    BY <1>1
  <2>2. Does(code[base + i], x, tr[base + i], tr[base + i + 1])
    BY <2>1 DEF Trace
  <2> QED
    BY <2>2 DEF Stands
<1>3. ASSUME NEW i \in 1..(Len(piece) + 1)
      PROVE  tr[base + i] \in Datum
  <2>1. base + i \in 1..k
    BY <1>1
  <2> QED
    BY <2>1 DEF Trace
<1> QED
  BY <1>1, <1>2, <1>3

\* A trace passes a piece of the program that stands behind the first base
\* instructions.
Passes(piece, x, tr, base) ==
    \A i \in 1..Len(piece) : Does(piece[i], x, tr[base + i], tr[base + i + 1])

LEMMA PassesBoth ==
    ASSUME NEW a \in Seq(Body), NEW b \in Seq(Body), NEW x, NEW tr, NEW base \in Nat,
           Passes(a \o b, x, tr, base)
    PROVE  /\ Passes(a, x, tr, base) /\ Passes(b, x, tr, base + Len(a))
           /\ a \o b \in Seq(Body) /\ Len(a \o b) = Len(a) + Len(b) /\ Len(a) \in Nat
<1>1. /\ Len(a) \in Nat /\ Len(b) \in Nat /\ Len(a \o b) = Len(a) + Len(b)
      /\ a \o b \in Seq(Body)
      /\ \A i \in 1..Len(a) + Len(b) :
           (a \o b)[i] = IF i <= Len(a) THEN a[i] ELSE b[i - Len(a)]
  BY LenProperties, ConcatProperties
<1> DEFINE ab == a \o b
<1>2. \A i \in 1..Len(a) + Len(b) : Does(ab[i], x, tr[base + i], tr[base + i + 1])
  BY <1>1 DEF Passes
<1> HIDE DEF ab
<1>3. ASSUME NEW i \in 1..Len(a)
      PROVE  Does(a[i], x, tr[base + i], tr[base + i + 1])
  <2>1. i \in 1..Len(a) + Len(b) /\ i <= Len(a)
    BY <1>1
  <2>2. ab[i] = a[i]
    BY <1>1, <2>1 DEF ab
  <2> QED
    BY <1>2, <2>1, <2>2
<1>4. ASSUME NEW i \in 1..Len(b)
      PROVE  Does(b[i], x, tr[base + Len(a) + i], tr[base + Len(a) + i + 1])
  <2> DEFINE k == Len(a) + i
  <2>1. /\ k \in 1..Len(a) + Len(b) /\ ~ (k <= Len(a)) /\ k - Len(a) = i
        /\ base + k = base + Len(a) + i /\ base + k + 1 = base + Len(a) + i + 1
    BY <1>1
  <2> HIDE DEF k
  <2>2. ab[k] = b[i]
    BY <1>1, <2>1 DEF ab
  <2>3. Does(ab[k], x, tr[base + k], tr[base + k + 1])
    BY <1>2, <2>1
  <2> QED
    BY <2>1, <2>2, <2>3
<1> QED
  BY <1>1, <1>3, <1>4 DEF Passes

\* A completed run of a macro's program, instruction by instruction.
LEMMA CompletedPasses ==
    ASSUME Inv, TraceInv, NEW code \in Seq(Body), Completed(code)
    PROVE  /\ Len(code) \in Nat
           /\ \E tr : /\ Passes(code, vm.inputs, tr, 0)
                      /\ \A i \in 1..(Len(code) + 1) : tr[i] \in Datum
                      /\ tr[1].stack = <<>>
                      /\ tr[Len(code) + 1] = Data(vm)
<1>1. /\ Len(code) \in Nat /\ Stands(WithHalt(code), 0, code)
  BY WithHaltStands
<1>2. PICK tr : /\ Trace(WithHalt(code), vm.inputs, tr, Len(code) + 1)
                /\ tr[Len(code) + 1] = Data(vm)
  BY CompletedTraced
<1> DEFINE k == Len(code) + 1
           full == WithHalt(code)
           x == vm.inputs
<1>3. k \in Nat \ {0} /\ 0 \in Nat /\ 0 + Len(code) < k /\ Trace(full, x, tr, k)
  BY <1>1, <1>2
<1>4. Stands(full, 0, code)
  BY <1>1
<1> HIDE DEF k, full, x
<1>5. /\ \A i \in 1..Len(code) : Does(code[i], x, tr[0 + i], tr[0 + i + 1])
      /\ \A i \in 1..(Len(code) + 1) : tr[0 + i] \in Datum
  BY <1>3, <1>4, PieceDoes
<1>6. \A i \in 1..(Len(code) + 1) : 0 + i = i
  BY <1>1
<1>7. Passes(code, x, tr, 0) /\ \A i \in 1..(Len(code) + 1) : tr[i] \in Datum
  BY <1>5, <1>6 DEF Passes
<1>8. tr[1].stack = <<>>
  BY <1>3 DEF Trace
<1> QED
  BY <1>1, <1>2, <1>7, <1>8 DEF x

----------------------------------------------------------------------------
(* severity_bands *)

\* A band adds its difference, one, if the score has reached the threshold.
LEMMA BandDoes ==
    ASSUME NEW t, NEW x, NEW tr, NEW base \in Nat, Passes(Band(t, 2), x, tr, base),
           NEW s \in Seq(Int), NEW v \in Int, NEW c \in Int,
           tr[base + 1].stack = Push2(s, v, c)
    PROVE  /\ tr[base + 7].stack = Push2(s, v, c + Bool(v >= t))
           /\ Kept(tr[base + 1], tr[base + 7])
<1>0. ASSUME NEW m, NEW n, NEW q \in Seq(Int), NEW a \in Int, NEW d \in Int,
             m.stack = Push2(q, a, d), Does(Plain("ADD"), x, m, n)
      PROVE  (\E r \in Binary("ADD", a, d) : r \in Int /\ n.stack = Append(q, r)) /\ Kept(m, n)
  <2>1. "ADD" \in BinaryOps
    BY DEF BinaryOps
  <2> QED
    BY <1>0, <2>1, DoesBinary
<1> DEFINE piece == Band(t, 2)
<1>1. /\ Len(piece) = 6 /\ piece[1] = Plain("OVER") /\ piece[2] = Const(t)
      /\ piece[3] = Plain("GTE") /\ piece[4] = Const(2) /\ piece[5] = Plain("MUL")
      /\ piece[6] = Plain("ADD")
  BY DEF Band
<1> HIDE DEF piece
<1>2. \A i \in 1..6 : Does(piece[i], x, tr[base + i], tr[base + i + 1])
  BY <1>1 DEF Passes, piece
<1>3. /\ base + 1 + 1 = base + 2 /\ base + 2 + 1 = base + 3 /\ base + 3 + 1 = base + 4
      /\ base + 4 + 1 = base + 5 /\ base + 5 + 1 = base + 6 /\ base + 6 + 1 = base + 7
  OBVIOUS
<1> DEFINE m1 == tr[base + 1]
           m2 == tr[base + 2]
           m3 == tr[base + 3]
           m4 == tr[base + 4]
           m5 == tr[base + 5]
           m6 == tr[base + 6]
           m7 == tr[base + 7]
           two == Push2(s, v, c)
           one == Append(s, v)
           b == Bool(v >= t)
<1>4. /\ Does(piece[1], x, m1, m2) /\ Does(piece[2], x, m2, m3)
      /\ Does(piece[3], x, m3, m4) /\ Does(piece[4], x, m4, m5)
      /\ Does(piece[5], x, m5, m6) /\ Does(piece[6], x, m6, m7)
  BY <1>2, <1>3
<1> HIDE DEF m1, m2, m3, m4, m5, m6, m7, one
<1>5. two \in Seq(Int) /\ one \in Seq(Int) /\ two = Append(one, c)
  BY PushedOnto, AppendProperties DEF Push2, one
<1>6. m2.stack = Append(two, v) /\ Kept(m1, m2)
  <2>1. Does(Plain("OVER"), x, m1, m2) /\ m1.stack = Push2(s, v, c)
    BY <1>1, <1>4 DEF m1
  <2>2. m2.stack = Push3(s, v, c, v) /\ Kept(m1, m2)
    BY <2>1, DoesOver
  <2> QED
    BY <2>2 DEF Push3, Push2
<1> HIDE DEF two, b
<1>7. m3.stack = Push2(two, v, t) /\ Kept(m2, m3) /\ t \in Int
  <2>1. Does(Const(t), x, m2, m3)
    BY <1>1, <1>4
  <2>2. m3.stack = Append(m2.stack, t) /\ Kept(m2, m3) /\ t \in Int
    BY <2>1, DoesConst
  <2> QED
    BY <1>6, <2>2 DEF Push2
<1>8. m4.stack = Append(two, b) /\ Kept(m3, m4)
  <2>1. "GTE" \in BinaryOps /\ Binary("GTE", v, t) = {b}
    BY DEF BinaryOps, CompareOps, Binary, Compare, b
  <2>2. Does(Plain("GTE"), x, m3, m4) /\ m3.stack = Push2(two, v, t) /\ two \in Seq(Int)
    BY <1>1, <1>4, <1>5, <1>7
  <2>3. (\E r \in Binary("GTE", v, t) : r \in Int /\ m4.stack = Append(two, r)) /\ Kept(m3, m4)
    BY <1>7, <2>1, <2>2, DoesBinary
  <2> QED
    BY <2>1, <2>3
<1>9. b \in {0, 2} /\ b \in Int
  BY DEF Bool, b
<1>10. m5.stack = Push2(two, b, 2) /\ Kept(m4, m5)
  <2>1. Does(Const(2), x, m4, m5)
    BY <1>1, <1>4
  <2>2. m5.stack = Append(m4.stack, 2) /\ Kept(m4, m5)
    BY <2>1, DoesConst
  <2> QED
    BY <1>8, <2>2 DEF Push2
<1>11. m6.stack = Append(two, b) /\ Kept(m5, m6)
  <2>1. "MUL" \in BinaryOps /\ Binary("MUL", b, 2) = Around(b * 2, 2)
    BY DEF BinaryOps, CompareOps, Binary
  <2>2. Around(b * 2, 2) = {b}
    BY <1>9 DEF Around
  <2>3. Does(Plain("MUL"), x, m5, m6) /\ m5.stack = Push2(two, b, 2) /\ two \in Seq(Int)
    BY <1>1, <1>4, <1>5, <1>10
  <2>4. (\E r \in Binary("MUL", b, 2) : r \in Int /\ m6.stack = Append(two, r)) /\ Kept(m5, m6)
    BY <1>9, <2>1, <2>3, DoesBinary
  <2> QED
    BY <2>1, <2>2, <2>4
<1>12. m6.stack = Push2(one, c, b)
  BY <1>5, <1>11 DEF Push2
<1>13. m7.stack = Append(one, c + b) /\ Kept(m6, m7)
  <2>1. Binary("ADD", c, b) = {c + b}
    BY DEF BinaryOps, CompareOps, Binary
  <2>2. Does(Plain("ADD"), x, m6, m7)
    BY <1>1, <1>4
  <2>3. (\E r \in Binary("ADD", c, b) : r \in Int /\ m7.stack = Append(one, r)) /\ Kept(m6, m7)
    <3>1. c \in Int /\ b \in Int /\ one \in Seq(Int)
      BY <1>5, <1>9
    <3> QED
      BY <1>0, <1>12, <2>2, <3>1, Zenon
  <2> QED
    BY <2>1, <2>3
<1>14. Kept(m1, m7)
  BY <1>6, <1>7, <1>8, <1>10, <1>11, <1>13 DEF Kept
<1> QED
  BY <1>13, <1>14 DEF m1, m7, b, one, Push2

\* One piece behind another.
LEMMA JoinTyped ==
    ASSUME NEW a \in Seq(Body), NEW b \in Seq(Body)
    PROVE  a \o b \in Seq(Body) /\ Len(a \o b) = Len(a) + Len(b)
  BY ConcatProperties

\* The instructions that macros emit.
LEMMA Emitted ==
    /\ \A v \in Int : Const(v) \in Body /\ Input(v) \in Body
    /\ \A op \in Op : op # "HALT" => Plain(op) \in Body
    /\ Local("STORE_LOCAL", 1) \in Body
<1>1. \A v \in Int : Const(v) \in Body /\ Input(v) \in Body
  BY DEF Const, Input, Body, Instruction, Op
<1>2. \A op \in Op : op # "HALT" => Plain(op) \in Body
  BY DEF Plain, Body, Instruction
<1>3. Local("STORE_LOCAL", 1) \in Body
  BY DEF Local, Body, Instruction, Op, LOCAL_OPS
<1> QED
  BY <1>1, <1>2, <1>3

LEMMA BandTyped ==
    ASSUME NEW t \in Int
    PROVE  Band(t, 2) \in Seq(Body) /\ Len(Band(t, 2)) = 6
<1>1. /\ Plain("OVER") \in Body /\ Const(t) \in Body /\ Plain("GTE") \in Body
      /\ Const(2) \in Body /\ Plain("MUL") \in Body /\ Plain("ADD") \in Body
  BY Emitted DEF Op, BinaryOps, CompareOps
<1> QED
  BY <1>1 DEF Band

\* The end of severity_bands takes the score away.
BandsEnd == <<Plain("SWAP"), Plain("DROP")>>
BandsStart == <<Const(2)>>

LEMMA EndDoes ==
    ASSUME NEW x, NEW tr, NEW base \in Nat, Passes(BandsEnd, x, tr, base),
           NEW s \in Seq(Int), NEW v \in Int, NEW c \in Int,
           tr[base + 1].stack = Push2(s, v, c)
    PROVE  tr[base + 3].stack = Append(s, c) /\ Kept(tr[base + 1], tr[base + 3])
<1> DEFINE m1 == tr[base + 1]
           m2 == tr[base + 2]
           m3 == tr[base + 3]
<1>1. Does(Plain("SWAP"), x, m1, m2) /\ Does(Plain("DROP"), x, m2, m3)
  <2>1. Len(BandsEnd) = 2 /\ BandsEnd[1] = Plain("SWAP") /\ BandsEnd[2] = Plain("DROP")
    BY DEF BandsEnd
  <2>2. base + 1 + 1 = base + 2 /\ base + 2 + 1 = base + 3
    OBVIOUS
  <2> QED
    BY <2>1, <2>2 DEF Passes
<1>2. m1.stack = Push2(s, v, c)
  OBVIOUS
<1> HIDE DEF m1, m2, m3
<1>3. m2.stack = Push2(s, c, v) /\ Kept(m1, m2)
  BY <1>1, <1>2, DoesSwap
<1>4. Append(s, c) \in Seq(Int) /\ m2.stack = Append(Append(s, c), v)
  BY <1>3, AppendProperties DEF Push2
<1>5. m3.stack = Append(s, c) /\ Kept(m2, m3)
  <2> DEFINE one == Append(s, c)
  <2>1. one \in Seq(Int) /\ m2.stack = Append(one, v)
    BY <1>4
  <2> HIDE DEF one
  <2>2. m3.stack = one /\ Kept(m2, m3)
    BY <1>1, <2>1, DoesDrop
  <2> QED
    BY <2>2 DEF one
<1> QED
  BY <1>3, <1>5 DEF Kept, m1, m3

LEMMA BandsTyped ==
    /\ severity_bands \in Seq(Body) /\ Len(severity_bands) = 21
    /\ severity_bands = (((BandsStart \o Band(80, 2)) \o Band(130, 2)) \o Band(170, 2)) \o BandsEnd
    /\ BandsStart \in Seq(Body) /\ Len(BandsStart) = 1 /\ BandsEnd \in Seq(Body)
<1>1. BandsStart \in Seq(Body) /\ Len(BandsStart) = 1 /\ BandsEnd \in Seq(Body) /\ Len(BandsEnd) = 2
  <2>1. Const(2) \in Body /\ Plain("SWAP") \in Body /\ Plain("DROP") \in Body
    BY Emitted DEF Op
  <2> QED
    BY <2>1 DEF BandsStart, BandsEnd
<1> DEFINE b1 == Band(80, 2)
           b2 == Band(130, 2)
           b3 == Band(170, 2)
<1>2. /\ b1 \in Seq(Body) /\ Len(b1) = 6 /\ b2 \in Seq(Body) /\ Len(b2) = 6
      /\ b3 \in Seq(Body) /\ Len(b3) = 6
  BY BandTyped
<1>3. severity_bands = (((BandsStart \o b1) \o b2) \o b3) \o BandsEnd
  BY DEF severity_bands, BandsStart, BandsEnd
<1> HIDE DEF b1, b2, b3
<1> DEFINE start == BandsStart
           end == BandsEnd
<1>4. start \in Seq(Body) /\ Len(start) = 1 /\ end \in Seq(Body) /\ Len(end) = 2
  BY <1>1
<1> HIDE DEF start, end
<1>5. start \o b1 \in Seq(Body) /\ Len(start \o b1) = 7
  <2>1. start \o b1 \in Seq(Body) /\ Len(start \o b1) = Len(start) + Len(b1)
    BY <1>2, <1>4, JoinTyped
  <2>2. Len(start) + Len(b1) = 7
    BY <1>2, <1>4
  <2> QED
    BY <2>1, <2>2
<1>6. (start \o b1) \o b2 \in Seq(Body) /\ Len((start \o b1) \o b2) = 13
  <2>1. (start \o b1) \o b2 \in Seq(Body) /\ Len((start \o b1) \o b2) = Len((start \o b1)) + Len(b2)
    BY <1>2, <1>5, JoinTyped
  <2>2. Len((start \o b1)) + Len(b2) = 13
    BY <1>2, <1>5
  <2> QED
    BY <2>1, <2>2
<1>7. ((start \o b1) \o b2) \o b3 \in Seq(Body) /\ Len(((start \o b1) \o b2) \o b3) = 19
  <2>1. ((start \o b1) \o b2) \o b3 \in Seq(Body) /\ Len(((start \o b1) \o b2) \o b3) = Len(((start \o b1) \o b2)) + Len(b3)
    BY <1>2, <1>6, JoinTyped
  <2>2. Len(((start \o b1) \o b2)) + Len(b3) = 19
    BY <1>2, <1>6
  <2> QED
    BY <2>1, <2>2
<1>8. (((start \o b1) \o b2) \o b3) \o end \in Seq(Body) /\ Len((((start \o b1) \o b2) \o b3) \o end) = 21
  <2>1. (((start \o b1) \o b2) \o b3) \o end \in Seq(Body) /\ Len((((start \o b1) \o b2) \o b3) \o end) = Len((((start \o b1) \o b2) \o b3)) + Len(end)
    BY <1>4, <1>7, JoinTyped
  <2>2. Len((((start \o b1) \o b2) \o b3)) + Len(end) = 21
    BY <1>4, <1>7
  <2> QED
    BY <2>1, <2>2
<1> QED
  BY <1>1, <1>3, <1>8 DEF b1, b2, b3, start, end

\* severity_bands makes of a score the severity of the band it lies in, and leaves
\* what is below it on the stack, the locals and the outputs as they were.
LEMMA BandsDo ==
    ASSUME NEW x, NEW tr, NEW base \in Nat, Passes(severity_bands, x, tr, base),
           NEW s \in Seq(Int), NEW v \in Int, tr[base + 1].stack = Append(s, v)
    PROVE  /\ tr[base + 22].stack = Append(s, 2 * SeverityOf(v))
           /\ Kept(tr[base + 1], tr[base + 22])
<1> DEFINE p0 == BandsStart
           p1 == Band(80, 2)
           p2 == Band(130, 2)
           p3 == Band(170, 2)
           p4 == BandsEnd
           c1 == 2 + Bool(v >= 80)
           c2 == c1 + Bool(v >= 130)
           c3 == c2 + Bool(v >= 170)
<1>1. /\ p0 \in Seq(Body) /\ p1 \in Seq(Body) /\ p2 \in Seq(Body) /\ p3 \in Seq(Body)
      /\ p4 \in Seq(Body) /\ Len(p0) = 1 /\ Len(p1) = 6 /\ Len(p2) = 6 /\ Len(p3) = 6
  BY BandsTyped, BandTyped
<1>2. Passes((((p0 \o p1) \o p2) \o p3) \o p4, x, tr, base)
  BY BandsTyped
<1> HIDE DEF p0, p1, p2, p3, p4
<1>3. /\ p0 \o p1 \in Seq(Body) /\ Len(p0 \o p1) = 7
      /\ (p0 \o p1) \o p2 \in Seq(Body) /\ Len((p0 \o p1) \o p2) = 13
      /\ ((p0 \o p1) \o p2) \o p3 \in Seq(Body) /\ Len(((p0 \o p1) \o p2) \o p3) = 19
  <2>1. p0 \o p1 \in Seq(Body) /\ Len(p0 \o p1) = 7
    <3>1. p0 \o p1 \in Seq(Body) /\ Len(p0 \o p1) = Len(p0) + Len(p1)
      BY <1>1, JoinTyped
    <3>2. Len(p0) + Len(p1) = 7
      BY <1>1
    <3> QED
      BY <3>1, <3>2
  <2>2. (p0 \o p1) \o p2 \in Seq(Body) /\ Len((p0 \o p1) \o p2) = 13
    <3>1. (p0 \o p1) \o p2 \in Seq(Body) /\ Len((p0 \o p1) \o p2) = Len((p0 \o p1)) + Len(p2)
      BY <1>1, <2>1, JoinTyped
    <3>2. Len((p0 \o p1)) + Len(p2) = 13
      BY <1>1, <2>1
    <3> QED
      BY <3>1, <3>2
  <2>3. ((p0 \o p1) \o p2) \o p3 \in Seq(Body) /\ Len(((p0 \o p1) \o p2) \o p3) = 19
    <3>1. ((p0 \o p1) \o p2) \o p3 \in Seq(Body) /\ Len(((p0 \o p1) \o p2) \o p3) = Len(((p0 \o p1) \o p2)) + Len(p3)
      BY <1>1, <2>2, JoinTyped
    <3>2. Len(((p0 \o p1) \o p2)) + Len(p3) = 19
      BY <1>1, <2>2
    <3> QED
      BY <3>1, <3>2
  <2> QED
    BY <2>1, <2>2, <2>3
<1>4. Passes(((p0 \o p1) \o p2) \o p3, x, tr, base) /\ Passes(p4, x, tr, base + 19)
  BY <1>1, <1>2, <1>3, PassesBoth
<1>5. Passes((p0 \o p1) \o p2, x, tr, base) /\ Passes(p3, x, tr, base + 13)
  BY <1>1, <1>3, <1>4, PassesBoth
<1>6. Passes(p0 \o p1, x, tr, base) /\ Passes(p2, x, tr, base + 7)
  BY <1>1, <1>3, <1>5, PassesBoth
<1>7. Passes(p0, x, tr, base) /\ Passes(p1, x, tr, base + 1)
  BY <1>1, <1>6, PassesBoth
<1>8. c1 \in Int /\ c2 \in Int /\ c3 \in Int
  BY DEF Bool
<1>9. c3 = 2 * SeverityOf(v)
  <2>1. CASE v >= 170
    BY <2>1 DEF Bool, SeverityOf
  <2>2. CASE v >= 130 /\ ~ (v >= 170)
    BY <2>2 DEF Bool, SeverityOf
  <2>3. CASE v >= 80 /\ ~ (v >= 130)
    BY <2>3 DEF Bool, SeverityOf
  <2>4. CASE ~ (v >= 80)
    BY <2>4 DEF Bool, SeverityOf
  <2> QED
    BY <2>1, <2>2, <2>3, <2>4
<1>10. tr[base + 2].stack = Push2(s, v, 2) /\ Kept(tr[base + 1], tr[base + 2])
  <2> DEFINE m1 == tr[base + 1]
             m2 == tr[base + 2]
  <2>1. Does(Const(2), x, m1, m2) /\ m1.stack = Append(s, v)
    <3>1. Len(p0) = 1 /\ p0[1] = Const(2) /\ base + 1 + 1 = base + 2
      BY DEF p0, BandsStart
    <3> QED
      BY <1>7, <3>1 DEF Passes
  <2> HIDE DEF m1, m2
  <2>2. m2.stack = Append(m1.stack, 2) /\ Kept(m1, m2)
    BY <2>1, DoesConst
  <2> QED
    BY <2>1, <2>2 DEF m1, m2, Push2
<1>11. /\ base + 1 \in Nat /\ base + 7 \in Nat /\ base + 13 \in Nat /\ base + 19 \in Nat
       /\ base + 1 + 1 = base + 2 /\ base + 1 + 7 = base + 8 /\ base + 7 + 1 = base + 8
       /\ base + 7 + 7 = base + 14 /\ base + 13 + 1 = base + 14 /\ base + 13 + 7 = base + 20
       /\ base + 19 + 1 = base + 20 /\ base + 19 + 3 = base + 22
  OBVIOUS
<1> HIDE DEF c1, c2, c3
<1>12. tr[base + 8].stack = Push2(s, v, c1) /\ Kept(tr[base + 2], tr[base + 8])
  <2>1. Passes(Band(80, 2), x, tr, base + 1) /\ tr[base + 1 + 1].stack = Push2(s, v, 2)
    BY <1>7, <1>10, <1>11 DEF p1
  <2>2. /\ tr[base + 1 + 7].stack = Push2(s, v, 2 + Bool(v >= 80))
        /\ Kept(tr[base + 1 + 1], tr[base + 1 + 7])
    BY <1>11, <2>1, BandDoes
  <2> QED
    BY <1>11, <2>2 DEF c1
<1>13. tr[base + 14].stack = Push2(s, v, c2) /\ Kept(tr[base + 8], tr[base + 14])
  <2>1. Passes(Band(130, 2), x, tr, base + 7) /\ tr[base + 7 + 1].stack = Push2(s, v, c1)
    BY <1>6, <1>11, <1>12 DEF p2
  <2>2. /\ tr[base + 7 + 7].stack = Push2(s, v, c1 + Bool(v >= 130))
        /\ Kept(tr[base + 7 + 1], tr[base + 7 + 7])
    BY <1>8, <1>11, <2>1, BandDoes
  <2> QED
    BY <1>11, <2>2 DEF c2
<1>14. tr[base + 20].stack = Push2(s, v, c3) /\ Kept(tr[base + 14], tr[base + 20])
  <2>1. Passes(Band(170, 2), x, tr, base + 13) /\ tr[base + 13 + 1].stack = Push2(s, v, c2)
    BY <1>5, <1>11, <1>13 DEF p3
  <2>2. /\ tr[base + 13 + 7].stack = Push2(s, v, c2 + Bool(v >= 170))
        /\ Kept(tr[base + 13 + 1], tr[base + 13 + 7])
    BY <1>8, <1>11, <2>1, BandDoes
  <2> QED
    BY <1>11, <2>2 DEF c3
<1>15. tr[base + 22].stack = Append(s, c3) /\ Kept(tr[base + 20], tr[base + 22])
  <2>1. Passes(BandsEnd, x, tr, base + 19) /\ tr[base + 19 + 1].stack = Push2(s, v, c3)
    BY <1>4, <1>11, <1>14 DEF p4
  <2>2. tr[base + 19 + 3].stack = Append(s, c3) /\ Kept(tr[base + 19 + 1], tr[base + 19 + 3])
    BY <1>8, <1>11, <2>1, EndDoes
  <2> QED
    BY <1>11, <2>2
<1>16. Kept(tr[base + 1], tr[base + 22])
  BY <1>10, <1>12, <1>13, <1>14, <1>15 DEF Kept
<1> QED
  BY <1>9, <1>15, <1>16

\* Whole numbers go into an output as they are, within its range.
LEMMA StoresWhole ==
    ASSUME NEW k \in Int
    PROVE  /\ Stored("severity_code", 2 * k) = Clamped(k, 0, 9)
           /\ Stored("routing_code", 2 * k) = Clamped(k, 0, 255)
<1>1. Round(2 * k) = k
  BY DEF Round, Whole
<1> QED
  BY <1>1 DEF Stored

LEMMA SeverityTyped ==
    ASSUME NEW v \in Int
    PROVE  /\ SeverityOf(v) \in 1..4 /\ 2 * SeverityOf(v) \in Int
           /\ Stored("severity_code", 2 * SeverityOf(v)) = SeverityOf(v)
<1>1. SeverityOf(v) \in 1..4
  BY DEF SeverityOf
<1>2. Clamped(SeverityOf(v), 0, 9) = SeverityOf(v)
  BY <1>1 DEF Clamped
<1> QED
  BY <1>1, <1>2, StoresWhole

\* The program of a caller that has a score banded.
LEMMA BandedIsBands ==
    ASSUME Inv, TraceInv, NEW score \in Int, Completed(banded(score))
    PROVE  /\ vm.out.severity_code = SeverityOf(score)
           /\ vm.stack = <<Sentinel>>
           /\ vm.locals[1] = Sentinel
<1> DEFINE start == <<Const(Sentinel), Local("STORE_LOCAL", 1), Const(Sentinel), Const(score)>>
           bands == severity_bands
           end == <<Plain("STORE_SEVERITY")>>
           code == (start \o bands) \o end
           x == vm.inputs
<1>1. /\ start \in Seq(Body) /\ Len(start) = 4 /\ start[1] = Const(Sentinel)
      /\ start[2] = Local("STORE_LOCAL", 1) /\ start[3] = Const(Sentinel)
      /\ start[4] = Const(score)
  BY Emitted DEF Sentinel
<1>2. end \in Seq(Body) /\ Len(end) = 1 /\ end[1] = Plain("STORE_SEVERITY")
  BY Emitted DEF Op, StoreOps
<1>3. bands \in Seq(Body) /\ Len(bands) = 21
  BY BandsTyped
<1>4. Completed(code)
  BY DEF banded
<1> HIDE DEF start, bands, end, x
<1>5. start \o bands \in Seq(Body) /\ Len(start \o bands) = 25
  <2>1. start \o bands \in Seq(Body) /\ Len(start \o bands) = Len(start) + Len(bands)
    BY <1>1, <1>3, JoinTyped
  <2>2. Len(start) + Len(bands) = 25
    BY <1>1, <1>3
  <2> QED
    BY <2>1, <2>2
<1>6. code \in Seq(Body) /\ Len(code) = 26
  <2>1. code \in Seq(Body) /\ Len(code) = Len(start \o bands) + Len(end)
    BY <1>2, <1>5, JoinTyped
  <2>2. Len(start \o bands) + Len(end) = 26
    BY <1>2, <1>5
  <2> QED
    BY <2>1, <2>2
<1>7. PICK tr : /\ Passes(code, x, tr, 0) /\ \A i \in 1..27 : tr[i] \in Datum
                /\ tr[1].stack = <<>> /\ tr[27] = Data(vm)
  <2> HIDE DEF code
  <2>1. \E tr : /\ Passes(code, x, tr, 0)
                /\ \A i \in 1..(Len(code) + 1) : tr[i] \in Datum
                /\ tr[1].stack = <<>>
                /\ tr[Len(code) + 1] = Data(vm)
    BY <1>4, <1>6, CompletedPasses DEF x
  <2>2. Len(code) + 1 = 27
    BY <1>6
  <2> QED
    BY <2>1, <2>2
<1>8. Passes(start \o bands, x, tr, 0) /\ Passes(end, x, tr, 25)
  <2>1. Passes(start \o bands, x, tr, 0) /\ Passes(end, x, tr, 0 + Len(start \o bands))
    BY <1>2, <1>5, <1>7, PassesBoth
  <2>2. 0 + Len(start \o bands) = 25
    BY <1>5
  <2> QED
    BY <2>1, <2>2
<1>9. Passes(start, x, tr, 0) /\ Passes(bands, x, tr, 4)
  <2>1. Passes(start, x, tr, 0) /\ Passes(bands, x, tr, 0 + Len(start))
    BY <1>1, <1>3, <1>8, PassesBoth
  <2>2. 0 + Len(start) = 4
    BY <1>1
  <2> QED
    BY <2>1, <2>2
<1> DEFINE none == <<>>
           kept == Append(none, Sentinel)
<1>10. none \in Seq(Int) /\ kept \in Seq(Int) /\ kept = <<Sentinel>> /\ Sentinel \in Int
  BY AppendProperties DEF Sentinel
<1> HIDE DEF none, kept
<1> DEFINE d1 == tr[1]
           d2 == tr[2]
           d3 == tr[3]
           d4 == tr[4]
           d5 == tr[5]
           d6 == tr[26]
           d7 == tr[27]
<1>11. /\ Does(start[1], x, d1, d2) /\ Does(start[2], x, d2, d3)
       /\ Does(start[3], x, d3, d4) /\ Does(start[4], x, d4, d5)
  BY <1>1, <1>9 DEF Passes
<1>12. d2 \in Datum /\ d6 \in Datum /\ d1.stack = none /\ d7 = Data(vm)
  BY <1>7 DEF none
<1>13. Does(end[1], x, d6, d7)
  BY <1>2, <1>8 DEF Passes
<1>14. Passes(severity_bands, x, tr, 4)
  BY <1>9 DEF bands
<1> HIDE DEF d1, d2, d3, d4, d6, d7
<1>15. d2.stack = kept
  <2>1. Does(Const(Sentinel), x, d1, d2)
    BY <1>1, <1>11
  <2>2. d2.stack = Append(d1.stack, Sentinel)
    BY <2>1, DoesConst
  <2> QED
    BY <1>12, <2>2 DEF kept
<1>16. d3.stack = none /\ d3.locals[1] = Sentinel
  <2>1. Does(Local("STORE_LOCAL", 1), x, d2, d3)
    BY <1>1, <1>11
  <2>2. d2.stack = Append(none, Sentinel) /\ none \in Seq(Int) /\ Sentinel \in Int
    BY <1>10, <1>15 DEF kept
  <2>3. /\ d3.stack = none /\ d3.locals = [d2.locals EXCEPT ![1] = Sentinel]
        /\ 1 \in 0..(MaxLocals - 1)
    BY <2>1, <2>2, DoesLocal
  <2>4. d2.locals \in [0..(MaxLocals - 1) -> Int]
    BY <1>12 DEF Datum
  <2> QED
    BY <2>3, <2>4
<1>17. d4.stack = kept /\ d4.locals = d3.locals
  <2>1. Does(Const(Sentinel), x, d3, d4)
    BY <1>1, <1>11
  <2>2. d4.stack = Append(d3.stack, Sentinel) /\ Kept(d3, d4)
    BY <2>1, DoesConst
  <2> QED
    BY <1>16, <2>2 DEF kept, Kept
<1>18. d5.stack = Append(kept, score) /\ d5.locals = d4.locals
  <2>1. Does(Const(score), x, d4, d5)
    BY <1>1, <1>11
  <2> HIDE DEF d5
  <2>2. d5.stack = Append(d4.stack, score) /\ Kept(d4, d5)
    BY <2>1, DoesConst
  <2> QED
    BY <1>17, <2>2 DEF Kept
<1>19. d6.stack = Append(kept, 2 * SeverityOf(score)) /\ d6.locals = d5.locals
  <2>1. 4 + 1 = 5 /\ 4 + 22 = 26 /\ 4 \in Nat
    OBVIOUS
  <2>2. tr[4 + 1].stack = Append(kept, score)
    BY <1>18, <2>1
  <2>3. /\ tr[4 + 22].stack = Append(kept, 2 * SeverityOf(score))
        /\ Kept(tr[4 + 1], tr[4 + 22])
    <3>1. ASSUME NEW base \in Nat, Passes(severity_bands, x, tr, base),
                 tr[base + 1].stack = Append(kept, score)
          PROVE  /\ tr[base + 22].stack = Append(kept, 2 * SeverityOf(score))
                 /\ Kept(tr[base + 1], tr[base + 22])
      <4>1. kept \in Seq(Int)
        BY <1>10
      <4> QED
        BY <3>1, <4>1, BandsDo
    <3> QED
      BY <1>14, <2>1, <2>2, <3>1, Zenon
  <2> QED
    BY <2>1, <2>3 DEF Kept, d6
<1> HIDE DEF d5
<1>20. /\ d7.stack = kept /\ d7.locals = d6.locals
       /\ d7.out = [d6.out EXCEPT !["severity_code"] =
                          Stored("severity_code", 2 * SeverityOf(score))]
  <2>1. Does(Plain("STORE_SEVERITY"), x, d6, d7)
    BY <1>2, <1>13
  <2>2. "STORE_SEVERITY" \in StoreOps /\ OUTPUT_STORE_OPS["STORE_SEVERITY"] = "severity_code"
    BY DEF StoreOps, OUTPUT_STORE_OPS
  <2> DEFINE a == 2 * SeverityOf(score)
  <2>3. a \in Int /\ d6.stack = Append(kept, a) /\ kept \in Seq(Int)
    BY <1>10, <1>19, SeverityTyped
  <2> HIDE DEF a
  <2>4. /\ d7.stack = kept /\ d7.locals = d6.locals
        /\ d7.out = [d6.out EXCEPT ![OUTPUT_STORE_OPS["STORE_SEVERITY"]] =
                       Stored(OUTPUT_STORE_OPS["STORE_SEVERITY"], a)]
    BY <2>1, <2>2, <2>3, DoesOutput
  <2> QED
    BY <2>2, <2>4 DEF a
<1>21. d7.out.severity_code = SeverityOf(score)
  <2>1. d6.out \in [alert_score : 0..100, severity_code : 0..9,
                    routing_code : 0..255, suppressed : 0..1]
    BY <1>12 DEF Datum
  <2> QED
    BY <1>20, <2>1, SeverityTyped
<1>22. vm.stack = d7.stack /\ vm.locals = d7.locals /\ vm.out = d7.out
  BY <1>12 DEF Data
<1> QED
  BY <1>10, <1>16, <1>17, <1>18, <1>19, <1>20, <1>21, <1>22

----------------------------------------------------------------------------
(* normalize *)

\* The program that scores an input by its place in a range.
LEMMA RangedIsNormalized ==
    ASSUME Inv, TraceInv, Completed(ranged)
    PROVE  NormalizeSpansTheRange
<1> DEFINE load == <<Input(1)>>
           shift == <<Const(40), Plain("SUB"), Const(80), Plain("DIV")>>
           cut == <<Const(0), Const(2), Plain("CLAMP")>>
           both == shift \o cut
           percent == <<Const(200), Plain("MUL")>>
           store == <<Plain("STORE_SCORE")>>
           code == ((load \o both) \o percent) \o store
           x == vm.inputs
<1>1. /\ load \in Seq(Body) /\ Len(load) = 1 /\ load[1] = Input(1)
      /\ percent \in Seq(Body) /\ Len(percent) = 2 /\ percent[1] = Const(200)
      /\ percent[2] = Plain("MUL")
      /\ store \in Seq(Body) /\ Len(store) = 1 /\ store[1] = Plain("STORE_SCORE")
  BY Emitted DEF Op, StoreOps, BinaryOps
<1>2. /\ shift \in Seq(Body) /\ Len(shift) = 4 /\ shift[1] = Const(40)
      /\ shift[2] = Plain("SUB") /\ shift[3] = Const(80) /\ shift[4] = Plain("DIV")
      /\ cut \in Seq(Body) /\ Len(cut) = 3 /\ cut[1] = Const(0) /\ cut[2] = Const(2)
      /\ cut[3] = Plain("CLAMP")
  BY Emitted DEF Op, BinaryOps, TernaryOps
<1>33. Completed(code)
  <2>1. ranged = code
    <3>1. 120 - 40 = 80
      OBVIOUS
    <3> QED
      BY <3>1 DEF ranged, normalize, clamp, percentage
  <2> QED
    BY <2>1
<1> HIDE DEF load, shift, cut, percent, store, x
<1>3. both \in Seq(Body) /\ Len(both) = 7
  <2>1. both \in Seq(Body) /\ Len(both) = Len(shift) + Len(cut)
    BY <1>2, JoinTyped
  <2>2. Len(shift) + Len(cut) = 7
    BY <1>2
  <2> QED
    BY <2>1, <2>2
<1> HIDE DEF both
<1>5. load \o both \in Seq(Body) /\ Len(load \o both) = 8
  <2>1. load \o both \in Seq(Body) /\ Len(load \o both) = Len(load) + Len(both)
    BY <1>1, <1>2, <1>3, JoinTyped, ZenonT(40)
  <2>2. Len(load) + Len(both) = 8
    BY <1>1, <1>2, <1>3
  <2> QED
    BY <2>1, <2>2
<1>6. (load \o both) \o percent \in Seq(Body) /\ Len((load \o both) \o percent) = 10
  <2>1. (load \o both) \o percent \in Seq(Body) /\ Len((load \o both) \o percent) = Len((load \o both)) + Len(percent)
    BY <1>1, <1>2, <1>3, <1>5, JoinTyped, ZenonT(40)
  <2>2. Len((load \o both)) + Len(percent) = 10
    BY <1>1, <1>2, <1>3, <1>5
  <2> QED
    BY <2>1, <2>2
<1>7. ((load \o both) \o percent) \o store \in Seq(Body) /\ Len(((load \o both) \o percent) \o store) = 11
  <2>1. ((load \o both) \o percent) \o store \in Seq(Body) /\ Len(((load \o both) \o percent) \o store) = Len(((load \o both) \o percent)) + Len(store)
    BY <1>1, <1>2, <1>3, <1>6, JoinTyped, ZenonT(40)
  <2>2. Len(((load \o both) \o percent)) + Len(store) = 11
    BY <1>1, <1>2, <1>3, <1>6
  <2> QED
    BY <2>1, <2>2
<1>8. PICK tr : /\ Passes(code, x, tr, 0) /\ \A i \in 1..12 : tr[i] \in Datum
                /\ tr[1].stack = <<>> /\ tr[12] = Data(vm)
  <2> HIDE DEF code
  <2>1. code \in Seq(Body) /\ Len(code) = 11
    BY <1>7 DEF code
  <2>2. \E tr : /\ Passes(code, x, tr, 0)
                /\ \A i \in 1..(Len(code) + 1) : tr[i] \in Datum
                /\ tr[1].stack = <<>>
                /\ tr[Len(code) + 1] = Data(vm)
    BY <1>33, <2>1, CompletedPasses DEF x
  <2>3. Len(code) + 1 = 12
    BY <2>1
  <2> QED
    BY <2>2, <2>3
<1>9. Passes((load \o both) \o percent, x, tr, 0) /\ Passes(store, x, tr, 10)
  <2>1. Passes((load \o both) \o percent, x, tr, 0) /\ Passes(store, x, tr, 0 + Len(((load \o both) \o percent)))
    BY <1>1, <1>3, <1>6, <1>8, PassesBoth
  <2>2. 0 + Len(((load \o both) \o percent)) = 10
    BY <1>1, <1>3, <1>6
  <2> QED
    BY <2>1, <2>2
<1>10. Passes(load \o both, x, tr, 0) /\ Passes(percent, x, tr, 8)
  <2>1. Passes(load \o both, x, tr, 0) /\ Passes(percent, x, tr, 0 + Len((load \o both)))
    BY <1>1, <1>3, <1>5, <1>9, PassesBoth
  <2>2. 0 + Len((load \o both)) = 8
    BY <1>1, <1>3, <1>5
  <2> QED
    BY <2>1, <2>2
<1>11. Passes(load, x, tr, 0) /\ Passes(both, x, tr, 1)
  <2>1. Passes(load, x, tr, 0) /\ Passes(both, x, tr, 0 + Len(load))
    BY <1>1, <1>3, <1>10, PassesBoth
  <2>2. 0 + Len(load) = 1
    BY <1>1, <1>3
  <2> QED
    BY <2>1, <2>2
<1>12. Passes(shift, x, tr, 1) /\ Passes(cut, x, tr, 5)
  <2>1. Passes(shift, x, tr, 1) /\ Passes(cut, x, tr, 1 + Len(shift))
    BY <1>2, <1>11, PassesBoth DEF both
  <2>2. 1 + Len(shift) = 5
    BY <1>2
  <2> QED
    BY <2>1, <2>2

<1> DEFINE d1 == tr[1]
           d2 == tr[2]
           d3 == tr[3]
           d4 == tr[4]
           d5 == tr[5]
           d6 == tr[6]
           d7 == tr[7]
           d8 == tr[8]
           d9 == tr[9]
           d10 == tr[10]
           d11 == tr[11]
           d12 == tr[12]
           none == <<>>
           v == x[1]
<1>13. /\ Does(load[1], x, d1, d2)
       /\ Does(shift[1], x, d2, d3) /\ Does(shift[2], x, d3, d4)
       /\ Does(shift[3], x, d4, d5) /\ Does(shift[4], x, d5, d6)
  <2>1. /\ 0 + 1 = 1 /\ 0 + 1 + 1 = 2 /\ 1 + 1 = 2 /\ 1 + 1 + 1 = 3 /\ 1 + 2 = 3
        /\ 1 + 2 + 1 = 4 /\ 1 + 3 = 4 /\ 1 + 3 + 1 = 5 /\ 1 + 4 = 5 /\ 1 + 4 + 1 = 6
    OBVIOUS
  <2>2. Does(load[1], x, d1, d2)
    BY <1>1, <1>11, <2>1 DEF Passes
  <2>3. \A i \in 1..4 : Does(shift[i], x, tr[1 + i], tr[1 + i + 1])
    BY <1>2, <1>12 DEF Passes
  <2> QED
    BY <2>1, <2>2, <2>3
<1>14. /\ Does(cut[1], x, d6, d7) /\ Does(cut[2], x, d7, d8) /\ Does(cut[3], x, d8, d9)
       /\ Does(percent[1], x, d9, d10) /\ Does(percent[2], x, d10, d11)
       /\ Does(store[1], x, d11, d12)
  <2>1. /\ 5 + 1 = 6 /\ 5 + 1 + 1 = 7 /\ 5 + 2 = 7 /\ 5 + 2 + 1 = 8 /\ 5 + 3 = 8
        /\ 5 + 3 + 1 = 9 /\ 8 + 1 = 9 /\ 8 + 1 + 1 = 10 /\ 8 + 2 = 10 /\ 8 + 2 + 1 = 11
        /\ 10 + 1 = 11 /\ 10 + 1 + 1 = 12
    OBVIOUS
  <2>2. \A i \in 1..3 : Does(cut[i], x, tr[5 + i], tr[5 + i + 1])
    BY <1>2, <1>12 DEF Passes
  <2>3. \A i \in 1..2 : Does(percent[i], x, tr[8 + i], tr[8 + i + 1])
    BY <1>1, <1>10 DEF Passes
  <2>4. Does(store[1], x, d11, d12)
    BY <1>1, <1>9, <2>1 DEF Passes
  <2> QED
    BY <2>1, <2>2, <2>3, <2>4
<1>15. d1.stack = none /\ d11 \in Datum /\ d12 = Data(vm) /\ none \in Seq(Int)
  BY <1>8, EmptySeq
<1> HIDE DEF d1, d2, d3, d4, d5, d6, d7, d8, d9, d10, d11, d12, none, v
<1>16. d2.stack = Append(none, v) /\ v \in Int
  <2>1. Does(Input(1), x, d1, d2)
    BY <1>1, <1>13
  <2>2. d2.stack = Append(d1.stack, v) /\ v \in Int
    BY <2>1, DoesInput DEF v
  <2> QED
    BY <1>15, <2>2
<1>17. d4.stack = Append(none, v - 40)
  <2>1. "SUB" \in BinaryOps /\ Binary("SUB", v, 40) = {v - 40}
    BY DEF BinaryOps, CompareOps, Binary
  <2>2. Does(Const(40), x, d2, d3) /\ Does(Plain("SUB"), x, d3, d4)
    BY <1>2, <1>13
  <2>3. \E r \in Binary("SUB", v, 40) : r \in Int /\ d4.stack = Append(none, r)
    BY <1>15, <1>16, <2>1, <2>2, DoesWithConst
  <2> QED
    BY <2>1, <2>3
<1> DEFINE w == v - 40
<1>18. \E r \in Around(2 * w, 80) : r \in Int /\ d6.stack = Append(none, r)
  <2>1. "DIV" \in BinaryOps /\ Binary("DIV", w, 80) = Around(2 * w, 80)
    BY DEF BinaryOps, CompareOps, Binary
  <2>2. Does(Const(80), x, d4, d5) /\ Does(Plain("DIV"), x, d5, d6)
    BY <1>2, <1>13
  <2>3. w \in Int /\ d4.stack = Append(none, w)
    BY <1>16, <1>17
  <2> HIDE DEF w
  <2>4. \E r \in Binary("DIV", w, 80) : r \in Int /\ d6.stack = Append(none, r)
    BY <1>15, <2>1, <2>2, <2>3, DoesWithConst
  <2> QED
    BY <2>1, <2>4
<1>19. PICK r \in Around(2 * w, 80) : r \in Int /\ d6.stack = Append(none, r)
  BY <1>18
<1> DEFINE c == Clamped(r, 0, 2)
<1>20. d9.stack = Append(none, c)
  <2>1. "CLAMP" \in TernaryOps /\ Ternary("CLAMP", r, 0, 2) = {c}
    BY DEF TernaryOps, Ternary
  <2>2. Does(Const(0), x, d6, d7) /\ Does(Const(2), x, d7, d8) /\ Does(Plain("CLAMP"), x, d8, d9)
    BY <1>2, <1>14
  <2>3. d7.stack = Append(d6.stack, 0) /\ d8.stack = Append(d7.stack, 2)
    BY <2>2, DoesConst
  <2>4. d8.stack = Push3(none, r, 0, 2)
    BY <1>19, <2>3 DEF Push3
  <2>5. \E q \in Ternary("CLAMP", r, 0, 2) : q \in Int /\ d9.stack = Append(none, q)
    <3>1. 0 \in Int /\ 2 \in Int /\ r \in Int /\ none \in Seq(Int)
      BY <1>15, <1>19
    <3> QED
      BY <2>1, <2>2, <2>4, <3>1, DoesTernary
  <2> QED
    BY <2>1, <2>5
<1>21. /\ c \in {0, 1, 2}
       /\ (v <= 40 => c = 0)
       /\ (v = 80 => c = 1)
       /\ (v >= 120 => c = 2)
  <2>1. r = (2 * w) \div 80 \/ r = -((-(2 * w)) \div 80)
    BY <1>19 DEF Around
  <2>2. v <= 40 => r <= 0
    BY <1>16, <2>1
  <2>3. v = 80 => r = 1
    BY <1>16, <2>1
  <2>4. v >= 120 => r >= 2
    BY <1>16, <2>1
  <2> QED
    BY <1>19, <2>2, <2>3, <2>4 DEF Clamped
<1> HIDE DEF c, w
<1>22. d11.stack = Append(none, 100 * c) /\ 100 * c \in Int
  <2>1. "MUL" \in BinaryOps /\ "MUL" \notin CompareOps
    BY DEF BinaryOps, CompareOps
  <2>2. Binary("MUL", c, 200) = Around(c * 200, 2)
    BY <2>1, Zenon DEF Binary
  <2>2a. Around(0 * 200, 2) = {100 * 0} /\ Around(1 * 200, 2) = {100 * 1}
         /\ Around(2 * 200, 2) = {100 * 2}
    BY DEF Around
  <2>2b. Around(c * 200, 2) = {100 * c}
    BY <1>21, <2>2a, Zenon
  <2>3. Does(Const(200), x, d9, d10) /\ Does(Plain("MUL"), x, d10, d11) /\ c \in Int
    BY <1>1, <1>14, <1>21
  <2>4. \E q \in Binary("MUL", c, 200) : q \in Int /\ d11.stack = Append(none, q)
    BY <1>15, <1>20, <2>1, <2>3, DoesWithConst
  <2>5. \E q \in {100 * c} : q \in Int /\ d11.stack = Append(none, q)
    BY <2>2, <2>2b, <2>4, Zenon
  <2> QED
    BY <2>5
<1>23. d12.out = [d11.out EXCEPT !["alert_score"] = Stored("alert_score", 100 * c)]
  <2>1. "STORE_SCORE" \in StoreOps /\ OUTPUT_STORE_OPS["STORE_SCORE"] = "alert_score"
    BY DEF StoreOps, OUTPUT_STORE_OPS
  <2>2. Does(Plain("STORE_SCORE"), x, d11, d12)
    BY <1>1, <1>14
  <2> DEFINE a == 100 * c
  <2>3. a \in Int /\ d11.stack = Append(none, a)
    BY <1>22
  <2> HIDE DEF a
  <2>4. d12.out = [d11.out EXCEPT ![OUTPUT_STORE_OPS["STORE_SCORE"]] =
                     Stored(OUTPUT_STORE_OPS["STORE_SCORE"], a)]
    BY <1>15, <2>1, <2>2, <2>3, DoesOutput
  <2> QED
    BY <2>1, <2>4 DEF a
<1>24. d12.out.alert_score = Stored("alert_score", 100 * c)
  <2>1. d11.out \in [alert_score : 0..100, severity_code : 0..9,
                     routing_code : 0..255, suppressed : 0..1]
    BY <1>15 DEF Datum
  <2> QED
    BY <1>23, <2>1
<1>25. /\ Stored("alert_score", 100 * 0) = 0 /\ Stored("alert_score", 100 * 1) = 50
       /\ Stored("alert_score", 100 * 2) = 100
  BY DEF Stored, Clamped, Round, Whole
<1>26. vm.out = d12.out /\ v = vm.inputs[1]
  BY <1>15 DEF Data, v, x
<1>27. /\ (vm.inputs[1] <= 40 => vm.out.alert_score = 0)
       /\ (vm.inputs[1] = 80 => vm.out.alert_score = 50)
       /\ (vm.inputs[1] >= 120 => vm.out.alert_score = 100)
  BY <1>21, <1>24, <1>25, <1>26, SMTT(30)
<1> QED
  BY <1>27 DEF NormalizeSpansTheRange

----------------------------------------------------------------------------
(* The macros over a list of operands *)

\* The states of a trace between the pieces of Joined: m is the state before the
\* first and behind each of them.
LEMMA JoinedPasses ==
    ASSUME NEW codes \in Seq(Seq(Body)), NEW op \in Op, op # "HALT", NEW x, NEW tr,
           NEW base \in Nat, Passes(Joined(codes, op), x, tr, base)
    PROVE  \E m :
             /\ m[0] = tr[base + 1]
             /\ m[Len(codes)] = tr[base + Len(Joined(codes, op)) + 1]
             /\ \A n \in 1..Len(codes) : \E b \in Nat :
                  /\ tr[b + 1] = m[n - 1] /\ Passes(codes[n], x, tr, b)
                  /\ (n = 1 => m[n] = tr[b + Len(codes[n]) + 1])
                  /\ (n # 1 => Does(Plain(op), x, tr[b + Len(codes[n]) + 1], m[n]))
<1> DEFINE N == Len(codes)
           J == Joined(codes, op)
           P(n) == Piece(codes, op, n)
<1>1. PICK pos \in [0..N -> Nat] :
        /\ pos[0] = 0 /\ pos[N] = Len(J)
        /\ \A n \in 1..N : pos[n] = pos[n - 1] + Len(P(n)) /\ Stands(J, pos[n - 1], P(n))
  BY JoinedStands
<1>2. N \in Nat /\ \A i \in 1..Len(J) : Does(J[i], x, tr[base + i], tr[base + i + 1])
  BY LenProperties DEF Passes
<1>3. \A n \in 1..N : codes[n] \in Seq(Body)
  BY ElementOfSeq
<1> DEFINE last == <<Plain(op)>>
           none == <<>>
           tail(n) == IF n > 1 THEN last ELSE none
<1>4. \A n \in 1..N : P(n) = codes[n] \o tail(n)
  BY DEF Piece
<1>5. last \in Seq(Body) /\ Len(last) = 1 /\ last[1] = Plain(op) /\ none \in Seq(Body)
  BY Emitted
<1>6. Len(none) = 0
  OBVIOUS
<1> HIDE DEF N, J, P, last, none
<1>7. \A n \in 1..N : /\ P(n) \in Seq(Body) /\ Len(P(n)) \in Nat /\ Len(codes[n]) \in Nat
                      /\ Len(P(n)) = Len(codes[n]) + Len(tail(n))
  <2> TAKE n \in 1..N
  <2>1. codes[n] \in Seq(Body) /\ tail(n) \in Seq(Body)
    BY <1>3, <1>5
  <2> DEFINE a == codes[n]
             b == tail(n)
  <2>2. P(n) = a \o b /\ a \in Seq(Body) /\ b \in Seq(Body)
    BY <1>4, <2>1
  <2> HIDE DEF a, b
  <2>3. a \o b \in Seq(Body) /\ Len(a \o b) = Len(a) + Len(b) /\ Len(a) \in Nat /\ Len(b) \in Nat
    BY <2>2, JoinTyped, LenProperties
  <2>4. P(n) \in Seq(Body) /\ Len(P(n)) = Len(a) + Len(b) /\ Len(P(n)) \in Nat /\ Len(a) \in Nat
    BY <2>2, <2>3
  <2> QED
    BY <2>4 DEF a, b
<1>8. \A n \in 0..N : n \in 0..N /\ (n = N \/ (n + 1 \in 1..N /\ n + 1 - 1 = n))
  BY <1>2
\* An end is not behind the end of the last piece.
<1>9. \A n \in 0..N : pos[n] <= pos[N]
  <2> DEFINE Bad == {k \in 0..N : ~ (pos[N - k] <= pos[N])}
  <2>1. Bad = {}
    <3> SUFFICES ASSUME Bad # {}
                 PROVE  FALSE
      OBVIOUS
    <3>1. PICK k \in Bad : \A j \in Bad : k <= j
      <4>1. Bad \subseteq Nat
        OBVIOUS
      <4> HIDE DEF Bad
      <4> QED
        BY <4>1, FirstExists
    <3>2. k \in 0..N /\ ~ (pos[N - k] <= pos[N])
      BY <3>1
    <3>3. k # 0
      <4>1. N - 0 = N /\ pos[N] \in Nat
        BY <1>1, <1>2
      <4> QED
        BY <3>2, <4>1
    <3>4. /\ k - 1 \in 0..N /\ ~ (k <= k - 1) /\ N - (k - 1) \in 1..N
          /\ N - (k - 1) - 1 = N - k /\ N - k \in 0..N /\ N - (k - 1) \in 0..N
      BY <1>2, <3>2, <3>3
    <3>5. pos[N - (k - 1)] <= pos[N]
      BY <3>1, <3>4
    <3> DEFINE h == N - (k - 1)
    <3>6. pos[h] = pos[h - 1] + Len(P(h)) /\ Len(P(h)) \in Nat
      BY <1>1, <1>7, <3>4
    <3>7. pos[h] \in Nat /\ pos[h - 1] \in Nat /\ pos[N] \in Nat /\ pos[h - 1] = pos[N - k]
      BY <1>1, <1>2, <3>4
    <3>8. pos[h] <= pos[N]
      BY <3>5
    <3> HIDE DEF h
    <3>9. pos[h - 1] <= pos[N]
      BY <3>6, <3>7, <3>8
    <3> QED
      BY <3>2, <3>7, <3>9
  <2>2. \A n \in 0..N : N - n \in 0..N /\ N - (N - n) = n
    BY <1>2
  <2>3. \A k \in 0..N : pos[N - k] <= pos[N]
    BY <2>1
  <2> QED
    BY <2>2, <2>3
<1> DEFINE m == [n \in 0..N |-> tr[base + pos[n] + 1]]
<1>10. m[0] = tr[base + 1] /\ m[N] = tr[base + Len(J) + 1]
  <2>1. 0 \in 0..N /\ N \in 0..N /\ base + 0 + 1 = base + 1
    BY <1>2
  <2> QED
    BY <1>1, <2>1
<1>11. ASSUME NEW n \in 1..N
       PROVE  \E b \in Nat :
                /\ tr[b + 1] = m[n - 1] /\ Passes(codes[n], x, tr, b)
                /\ (n = 1 => m[n] = tr[b + Len(codes[n]) + 1])
                /\ (n # 1 => Does(Plain(op), x, tr[b + Len(codes[n]) + 1], m[n]))
  <2> DEFINE b == base + pos[n - 1]
             a == codes[n]
             p == P(n)
  <2>1. n \in 0..N /\ n - 1 \in 0..N
    BY <1>2
  <2>2. pos[n] \in Nat /\ pos[n - 1] \in Nat /\ pos[n] <= Len(J) /\ Len(J) \in Nat
    <3>1. N \in 0..N
      BY <1>2
    <3> QED
      BY <1>1, <1>9, <2>1, <3>1
  <2>3. b \in Nat /\ tr[b + 1] = m[n - 1] /\ m[n] = tr[base + pos[n] + 1]
    BY <2>1, <2>2
  <2>4. /\ pos[n] = pos[n - 1] + Len(p) /\ Len(p) \in Nat /\ Len(a) \in Nat
        /\ Len(p) = Len(a) + Len(tail(n)) /\ Stands(J, pos[n - 1], p)
        /\ p = a \o tail(n) /\ a \in Seq(Body) /\ tail(n) \in Seq(Body)
    BY <1>1, <1>3, <1>4, <1>5, <1>7
  <2> DEFINE q == pos[n - 1]
             r == pos[n]
             la == Len(a)
             lp == Len(p)
             lz == Len(tail(n))
             lj == Len(J)
  <2>4a. /\ q \in Nat /\ r \in Nat /\ la \in Nat /\ lp \in Nat /\ lj \in Nat
         /\ r <= lj /\ r = q + lp /\ lp = la + lz /\ b = base + q
    BY <2>2, <2>4
  <2>4b. (n = 1 => lz = 0) /\ (n # 1 => lz = 1)
    BY <1>5, <1>6
  <2> HIDE DEF a, p, m, q, r, la, lp, lz, lj, b
  <2>5. Passes(p, x, tr, b)
    <3>1. ASSUME NEW i \in 1..Len(p)
          PROVE  Does(p[i], x, tr[b + i], tr[b + i + 1])
      <4>1. i \in 1..lp
        BY DEF lp
      <4>2. q + i \in 1..lj /\ base + (q + i) = b + i /\ base + (q + i) + 1 = b + i + 1
        BY <2>4a, <4>1
      <4>3. J[q + i] = p[i]
        BY <2>4 DEF Stands, q
      <4>4. Does(J[q + i], x, tr[base + (q + i)], tr[base + (q + i) + 1])
        BY <1>2, <4>2 DEF lj
      <4> QED
        BY <4>2, <4>3, <4>4
    <3> QED
      BY <3>1 DEF Passes
  <2>6. /\ (n = 1 => base + r + 1 = b + la + 1)
        /\ (n # 1 => base + r + 1 = b + la + 1 + 1)
    BY <2>4a, <2>4b, SMTT(30)
  <2> DEFINE z == tail(n)
  <2>7. Passes(a \o z, x, tr, b) /\ a \in Seq(Body) /\ z \in Seq(Body)
    BY <2>4, <2>5
  <2>7a. n # 1 => z = last
    <3>1. n # 1 => n > 1
      BY <1>2
    <3> QED
      BY <3>1
  <2> HIDE DEF z, tail
  <2>8. Passes(a, x, tr, b) /\ Passes(z, x, tr, b + Len(a))
    BY <2>3, <2>7, PassesBoth
  <2>9. n = 1 => m[n] = tr[b + Len(a) + 1]
    BY <2>3, <2>6 DEF r, la
  <2>10. n # 1 => Does(Plain(op), x, tr[b + Len(a) + 1], m[n])
    <3> SUFFICES ASSUME n # 1
                 PROVE  Does(Plain(op), x, tr[b + Len(a) + 1], m[n])
      OBVIOUS
    <3>1. m[n] = tr[b + Len(a) + 1 + 1]
      BY <2>3, <2>6 DEF r, la
    <3>2. z = last /\ 1 \in 1..Len(z) /\ z[1] = Plain(op)
      <4>1. 1 \in 1..Len(last) /\ last[1] = Plain(op)
        BY <1>5
      <4> QED
        BY <2>7a, <4>1, Zenon
    <3>3. Does(z[1], x, tr[b + Len(a) + 1], tr[b + Len(a) + 1 + 1])
      BY <2>8, <3>2 DEF Passes
    <3> QED
      BY <3>1, <3>2, <3>3
  <2> QED
    BY <2>3, <2>8, <2>9, <2>10 DEF a
<1> HIDE DEF m
<1>12. \A n \in 1..N : \E b \in Nat :
         /\ tr[b + 1] = m[n - 1] /\ Passes(codes[n], x, tr, b)
         /\ (n = 1 => m[n] = tr[b + Len(codes[n]) + 1])
         /\ (n # 1 => Does(Plain(op), x, tr[b + Len(codes[n]) + 1], m[n]))
  BY <1>11
<1> QED
  BY <1>10, <1>12, Zenon DEF N, J

\* One of the values is put on t, from m to n, and nothing is stored.
Leaves(values, t, m, n) ==
    (\E a \in values : a \in Int /\ n.stack = Append(t, a)) /\ Kept(m, n)

LEMMA LeavesWithConst ==
    ASSUME NEW op \in BinaryOps, NEW x, NEW m1, NEW m2, NEW m3, NEW b,
           Does(Const(b), x, m1, m2), Does(Plain(op), x, m2, m3),
           NEW s \in Seq(Int), NEW a \in Int, m1.stack = Append(s, a)
    PROVE  Leaves(Binary(op, a, b), s, m1, m3)
  BY DoesWithConst DEF Leaves

\* Every operand leaves one value, for operand n one of C[n].
LeaveValues(codes, x, tr, C) ==
    \A n \in 1..Len(codes), b \in Nat, t \in Seq(Int) :
      Passes(codes[n], x, tr, b) /\ tr[b + 1].stack = t =>
        Leaves(C[n], t, tr[b + 1], tr[b + Len(codes[n]) + 1])

\* The values that op makes of the first n operands are in R[n].
JoinInto(op, C, R, N) ==
    /\ \A a \in C[1] : a \in R[1]
    /\ \A n \in 2..N : \A v \in R[n - 1], a \in C[n] : v \in Int /\ a \in Int =>
         \A r \in Binary(op, v, a) : r \in R[n]

\* A macro over a list leaves one value, put together from those of its operands.
LEMMA JoinedDoes ==
    ASSUME NEW codes \in Seq(Seq(Body)), Len(codes) # 0, NEW op \in BinaryOps,
           NEW x, NEW tr, NEW base \in Nat, Passes(Joined(codes, op), x, tr, base),
           NEW s \in Seq(Int), tr[base + 1].stack = s, NEW C, NEW R,
           LeaveValues(codes, x, tr, C), JoinInto(op, C, R, Len(codes))
    PROVE  Leaves(R[Len(codes)], s, tr[base + 1], tr[base + Len(Joined(codes, op)) + 1])
<1> DEFINE N == Len(codes)
           J == Joined(codes, op)
<1>1. N \in Nat /\ N # 0 /\ N \in 1..N
  BY LenProperties
<1>2. op \in Op /\ op # "HALT"
  BY DEF Op, BinaryOps, CompareOps
<1>2a. ASSUME NEW d, NEW k, NEW v \in Int, NEW a \in Int,
              Does(Plain(op), x, d, k), d.stack = Push2(s, v, a)
       PROVE  (\E r \in Binary(op, v, a) : r \in Int /\ k.stack = Append(s, r)) /\ Kept(d, k)
  BY <1>2a, DoesBinary
<1>3. PICK m : /\ m[0] = tr[base + 1] /\ m[N] = tr[base + Len(J) + 1]
               /\ \A n \in 1..N : \E b \in Nat :
                    /\ tr[b + 1] = m[n - 1] /\ Passes(codes[n], x, tr, b)
                    /\ (n = 1 => m[n] = tr[b + Len(codes[n]) + 1])
                    /\ (n # 1 => Does(Plain(op), x, tr[b + Len(codes[n]) + 1], m[n]))
  <2>1. Passes(Joined(codes, op), x, tr, base)
    OBVIOUS
  <2> QED
    BY <1>2, <2>1, JoinedPasses
<1> DEFINE Good(n) == Leaves(R[n], s, m[0], m[n])
<1>4. \A n \in 1..N, t \in Seq(Int) : m[n - 1].stack = t =>
        \E e : /\ Leaves(C[n], t, m[n - 1], e)
               /\ (n = 1 => m[n] = e) /\ (n # 1 => Does(Plain(op), x, e, m[n]))
  <2> TAKE n \in 1..N, t \in Seq(Int)
  <2> HAVE m[n - 1].stack = t
  <2>1. PICK b \in Nat : /\ tr[b + 1] = m[n - 1] /\ Passes(codes[n], x, tr, b)
                         /\ (n = 1 => m[n] = tr[b + Len(codes[n]) + 1])
                         /\ (n # 1 => Does(Plain(op), x, tr[b + Len(codes[n]) + 1], m[n]))
    BY <1>3
  <2>2. tr[b + 1].stack = t
    BY <2>1
  <2>3. Leaves(C[n], t, tr[b + 1], tr[b + Len(codes[n]) + 1])
    BY <2>1, <2>2 DEF LeaveValues
  <2> DEFINE e == tr[b + Len(codes[n]) + 1]
  <2>4. Leaves(C[n], t, m[n - 1], e)
    BY <2>1, <2>3
  <2>5. (n = 1 => m[n] = e) /\ (n # 1 => Does(Plain(op), x, e, m[n]))
    BY <2>1
  <2> HIDE DEF e
  <2> QED
    BY <2>4, <2>5
<1>5. JoinInto(op, C, R, N)
  OBVIOUS
<1>6. m[0].stack = s
  BY <1>3
<1> HIDE DEF N, J
<1>7. Good(1)
  <2>1. 1 \in 1..N /\ 1 - 1 = 0
    BY <1>1
  <2>2. PICK e : Leaves(C[1], s, m[0], e) /\ m[1] = e
    BY <1>4, <1>6, <2>1
  <2> QED
    BY <1>5, <2>2 DEF JoinInto, Leaves
<1>8. \A n \in 2..N : Good(n - 1) => Good(n)
  <2> TAKE n \in 2..N
  <2> HAVE Good(n - 1)
  <2>1. PICK v \in R[n - 1] : v \in Int /\ m[n - 1].stack = Append(s, v) /\ Kept(m[0], m[n - 1])
    BY DEF Leaves
  <2>2. n \in 1..N /\ n # 1 /\ Append(s, v) \in Seq(Int)
    BY <1>1, <2>1, AppendProperties
  <2>3. PICK e : Leaves(C[n], Append(s, v), m[n - 1], e) /\ Does(Plain(op), x, e, m[n])
    BY <1>4, <2>1, <2>2
  <2>4. PICK a \in C[n] : a \in Int /\ e.stack = Append(Append(s, v), a) /\ Kept(m[n - 1], e)
    BY <2>3 DEF Leaves
  <2> DEFINE after == m[n]
  <2>5. e.stack = Push2(s, v, a) /\ Does(Plain(op), x, e, after)
    BY <2>3, <2>4 DEF Push2
  <2> HIDE DEF after
  <2>5a. v \in Int /\ a \in Int /\ s \in Seq(Int) /\ op \in BinaryOps
    BY <2>1, <2>4
  <2>6. PICK r \in Binary(op, v, a) : r \in Int /\ after.stack = Append(s, r) /\ Kept(e, after)
    <3>1. (\E r \in Binary(op, v, a) : r \in Int /\ after.stack = Append(s, r))
          /\ Kept(e, after)
      BY <1>2a, <2>5, <2>5a, Zenon
    <3> QED
      BY <3>1
  <2>7. r \in R[n]
    BY <1>5, <2>1, <2>4, <2>6 DEF JoinInto
  <2>8. Kept(m[0], after)
    BY <2>1, <2>4, <2>6 DEF Kept
  <2> QED
    BY <2>6, <2>7, <2>8 DEF after, Leaves
<1> HIDE DEF Good
<1>9. \A n \in 1..N : Good(n)
  <2> DEFINE Bad == {n \in 1..N : ~ Good(n)}
  <2> SUFFICES ASSUME Bad # {}
               PROVE  FALSE
    OBVIOUS
  <2>1. PICK n \in Bad : \A k \in Bad : n <= k
    <3>1. Bad \subseteq Nat
      OBVIOUS
    <3> HIDE DEF Bad
    <3> QED
      BY <3>1, FirstExists
  <2>2. n \in 1..N /\ ~ Good(n)
    BY <2>1
  <2>3. n # 1
    BY <1>7, <2>2
  <2>4. n \in 2..N /\ n - 1 \in 1..N /\ ~ (n <= n - 1)
    BY <1>1, <2>2, <2>3
  <2>5. Good(n - 1)
    BY <2>1, <2>4
  <2> QED
    BY <1>8, <2>2, <2>4, <2>5
<1>10. Leaves(R[N], s, m[0], m[N])
  BY <1>1, <1>9 DEF Good
<1> QED
  BY <1>3, <1>10, Zenon DEF N, J

\* An input is loaded and joined to a number, as the terms and most conditions do.
Loading(k, b, op) == <<Input(k), Const(b), Plain(op)>>

LEMMA LoadsAndDoes ==
    ASSUME NEW k, NEW b, NEW op \in BinaryOps, NEW x, NEW tr, NEW base \in Nat,
           Passes(Loading(k, b, op), x, tr, base), NEW a, x[k] = a,
           NEW t \in Seq(Int), tr[base + 1].stack = t
    PROVE  a \in Int /\ b \in Int /\ Leaves(Binary(op, a, b), t, tr[base + 1], tr[base + 4])
<1> DEFINE piece == Loading(k, b, op)
           m1 == tr[base + 1]
           m2 == tr[base + 2]
           m3 == tr[base + 3]
           m4 == tr[base + 4]
<1>1. /\ Len(piece) = 3 /\ piece[1] = Input(k) /\ piece[2] = Const(b) /\ piece[3] = Plain(op)
  BY DEF Loading
<1>2. Passes(piece, x, tr, base)
  OBVIOUS
<1> HIDE DEF piece
<1>3. /\ Does(Input(k), x, m1, m2) /\ Does(Const(b), x, m2, m3) /\ Does(Plain(op), x, m3, m4)
  <2>1. \A i \in 1..3 : Does(piece[i], x, tr[base + i], tr[base + i + 1])
    BY <1>1, <1>2 DEF Passes
  <2>2. base + 1 + 1 = base + 2 /\ base + 2 + 1 = base + 3 /\ base + 3 + 1 = base + 4
    OBVIOUS
  <2> QED
    BY <1>1, <2>1, <2>2
<1>4. m1.stack = t
  OBVIOUS
<1> HIDE DEF m1, m2, m3, m4
<1>5. a \in Int /\ m2.stack = Append(t, a) /\ Kept(m1, m2)
  BY <1>3, <1>4, DoesInput
<1>6. /\ b \in Int /\ Kept(m2, m4)
      /\ \E r \in Binary(op, a, b) : r \in Int /\ m4.stack = Append(t, r)
  BY <1>3, <1>5, DoesWithConst
<1> QED
  BY <1>5, <1>6 DEF Kept, Leaves, m1, m4

\* What a condition is made of: a kind, an input and its bounds.
Condition == {"at_least", "at_most", "between"} \X Int \X Int \X Int

LEMMA ConditionTyped ==
    ASSUME NEW c \in Condition
    PROVE  /\ c[1] \in {"at_least", "at_most", "between"}
           /\ c[2] \in Int /\ c[3] \in Int /\ c[4] \in Int
           /\ condition(c) \in Seq(Body)
           /\ (c[1] = "at_least" => condition(c) = <<Input(c[2]), Const(c[3]), Plain("GTE")>>
                                    /\ Len(condition(c)) = 3)
           /\ (c[1] = "at_most" => condition(c) = <<Input(c[2]), Const(c[4]), Plain("LTE")>>
                                   /\ Len(condition(c)) = 3)
           /\ (c[1] = "between" =>
                 condition(c) = <<Input(c[2]), Const(c[3]), Const(c[4]), Plain("BETWEEN")>>
                 /\ Len(condition(c)) = 4)
<1>1. /\ c[1] \in {"at_least", "at_most", "between"}
      /\ c[2] \in Int /\ c[3] \in Int /\ c[4] \in Int
  BY DEF Condition
<1>2. /\ Input(c[2]) \in Body /\ Const(c[3]) \in Body /\ Const(c[4]) \in Body
      /\ Plain("GTE") \in Body /\ Plain("LTE") \in Body /\ Plain("BETWEEN") \in Body
  BY <1>1, Emitted DEF Op, BinaryOps, CompareOps, TernaryOps
<1>3. CASE c[1] = "at_least"
  <2>1. condition(c) = <<Input(c[2]), Const(c[3]), Plain("GTE")>>
    BY <1>3 DEF condition
  <2>2. <<Input(c[2]), Const(c[3]), Plain("GTE")>> \in Seq(Body)
        /\ Len(<<Input(c[2]), Const(c[3]), Plain("GTE")>>) = 3
    BY <1>2
  <2> QED
    BY <1>1, <1>3, <2>1, <2>2
<1>4. CASE c[1] = "at_most"
  <2>1. condition(c) = <<Input(c[2]), Const(c[4]), Plain("LTE")>>
    BY <1>4 DEF condition
  <2>2. <<Input(c[2]), Const(c[4]), Plain("LTE")>> \in Seq(Body)
        /\ Len(<<Input(c[2]), Const(c[4]), Plain("LTE")>>) = 3
    BY <1>2
  <2> QED
    BY <1>1, <1>4, <2>1, <2>2
<1>5. CASE c[1] = "between"
  <2>1. condition(c) = <<Input(c[2]), Const(c[3]), Const(c[4]), Plain("BETWEEN")>>
    BY <1>5 DEF condition
  <2>2. <<Input(c[2]), Const(c[3]), Const(c[4]), Plain("BETWEEN")>> \in Seq(Body)
        /\ Len(<<Input(c[2]), Const(c[3]), Const(c[4]), Plain("BETWEEN")>>) = 4
    BY <1>2
  <2> QED
    BY <1>1, <1>5, <2>1, <2>2
<1> QED
  BY <1>1, <1>3, <1>4, <1>5

\* A condition leaves its truth value.
LEMMA ConditionDoes ==
    ASSUME NEW c \in Condition, c[3] <= c[4], NEW tr, NEW base \in Nat,
           Passes(condition(c), vm.inputs, tr, base), NEW t \in Seq(Int),
           tr[base + 1].stack = t
    PROVE  Leaves({Bool(Holds(c))}, t, tr[base + 1], tr[base + Len(condition(c)) + 1])
<1> DEFINE x == vm.inputs
<1>1. /\ base + 3 + 1 = base + 4 /\ base + 4 + 1 = base + 5 /\ base + 1 + 1 = base + 2
      /\ base + 2 + 1 = base + 3
  OBVIOUS
<1>1a. ASSUME NEW op \in BinaryOps, NEW k, NEW b, NEW y,
              Passes(Loading(k, b, op), y, tr, base), NEW a, y[k] = a
       PROVE  a \in Int /\ Leaves(Binary(op, a, b), t, tr[base + 1], tr[base + 4])
  BY <1>1a, LoadsAndDoes
<1>2. ASSUME NEW op \in {"GTE", "LTE"}, NEW b \in Int, NEW holds \in BOOLEAN,
             condition(c) = <<Input(c[2]), Const(b), Plain(op)>>, Len(condition(c)) = 3,
             x[c[2]] \in Int => (holds <=> Compare(op, x[c[2]], b))
      PROVE  Leaves({Bool(holds)}, t, tr[base + 1], tr[base + Len(condition(c)) + 1])
  <2>1. op \in BinaryOps /\ op \in CompareOps
    BY DEF BinaryOps, CompareOps
  <2> DEFINE k == c[2]
             a == x[k]
  <2>2. Passes(Loading(k, b, op), x, tr, base)
    BY <1>2 DEF Loading
  <2>2a. x[k] = a
    OBVIOUS
  <2> HIDE DEF k, x, a
  <2>3. a \in Int /\ Leaves(Binary(op, a, b), t, tr[base + 1], tr[base + 4])
    BY <1>1a, <2>1, <2>2, <2>2a
  <2>4. Binary(op, a, b) = {Bool(Compare(op, a, b))}
    BY <2>1, Zenon DEF Binary
  <2>5. Bool(Compare(op, a, b)) = Bool(holds)
    BY <1>2, <2>3 DEF Bool, k, a
  <2> QED
    <3>1. base + Len(condition(c)) + 1 = base + 4
      BY <1>1, <1>2
    <3>2. Binary(op, a, b) = {Bool(holds)}
      BY <2>4, <2>5
    <3> QED
      BY <2>3, <3>1, <3>2
<1>3. CASE c[1] = "at_least"
  <2>1. condition(c) = <<Input(c[2]), Const(c[3]), Plain("GTE")>> /\ Len(condition(c)) = 3
        /\ c[3] \in Int
    BY <1>3, ConditionTyped
  <2>2. Holds(c) = (x[c[2]] >= c[3])
    BY <1>3 DEF Holds
  <2>3. Compare("GTE", x[c[2]], c[3]) = (x[c[2]] >= c[3])
    BY DEF Compare
  <2>4. (x[c[2]] >= c[3]) \in BOOLEAN
    OBVIOUS
  <2> QED
    BY <1>2, <2>1, <2>2, <2>3, <2>4
<1>4. CASE c[1] = "at_most"
  <2>1. condition(c) = <<Input(c[2]), Const(c[4]), Plain("LTE")>> /\ Len(condition(c)) = 3
        /\ c[4] \in Int
    BY <1>4, ConditionTyped
  <2>2. Holds(c) = (x[c[2]] <= c[4])
    BY <1>4 DEF Holds
  <2>3. Compare("LTE", x[c[2]], c[4]) = (x[c[2]] <= c[4])
    BY DEF Compare
  <2>4. (x[c[2]] <= c[4]) \in BOOLEAN
    OBVIOUS
  <2> QED
    BY <1>2, <2>1, <2>2, <2>3, <2>4
<1>5. CASE c[1] = "between"
  <2> DEFINE k == c[2]
             lower == c[3]
             upper == c[4]
             piece == condition(c)
             m1 == tr[base + 1]
             m2 == tr[base + 2]
             m3 == tr[base + 3]
             m4 == tr[base + 4]
             m5 == tr[base + 5]
             a == x[k]
  <2>1. /\ piece = <<Input(k), Const(lower), Const(upper), Plain("BETWEEN")>>
        /\ Len(piece) = 4 /\ lower \in Int /\ upper \in Int /\ lower <= upper
    BY <1>5, ConditionTyped
  <2>2. /\ piece[1] = Input(k) /\ piece[2] = Const(lower) /\ piece[3] = Const(upper)
        /\ piece[4] = Plain("BETWEEN")
    BY <2>1
  <2>3. \A i \in 1..4 : Does(piece[i], x, tr[base + i], tr[base + i + 1])
    BY <2>1 DEF Passes
  <2>4. Holds(c) = (a \in lower..upper)
    BY <1>5 DEF Holds
  <2> HIDE DEF piece, x, k, lower, upper
  <2>5. /\ Does(Input(k), x, m1, m2) /\ Does(Const(lower), x, m2, m3)
        /\ Does(Const(upper), x, m3, m4) /\ Does(Plain("BETWEEN"), x, m4, m5)
    BY <1>1, <2>2, <2>3
  <2>6. m1.stack = t
    OBVIOUS
  <2> HIDE DEF m1, m2, m3, m4, m5
  <2>7. a \in Int /\ m2.stack = Append(t, a) /\ Kept(m1, m2)
    BY <2>5, <2>6, DoesInput
  <2>8. /\ m3.stack = Append(m2.stack, lower) /\ Kept(m2, m3)
        /\ m4.stack = Append(m3.stack, upper) /\ Kept(m3, m4)
    BY <2>5, DoesConst
  <2>9. m4.stack = Push3(t, a, lower, upper)
    BY <2>7, <2>8 DEF Push3
  <2> HIDE DEF a
  <2>10. "BETWEEN" \in TernaryOps
    BY DEF TernaryOps
  <2>11. (\E r \in Ternary("BETWEEN", a, lower, upper) : r \in Int /\ m5.stack = Append(t, r))
         /\ Kept(m4, m5)
    BY <2>1, <2>5, <2>7, <2>9, <2>10, DoesTernary
  <2>12. Ternary("BETWEEN", a, lower, upper) = {Bool(lower <= a /\ a <= upper)}
    BY <2>1 DEF Ternary
  <2>13. Bool(lower <= a /\ a <= upper) = Bool(Holds(c))
    <3>1. a \in lower..upper <=> lower <= a /\ a <= upper
      BY <2>1, <2>7
    <3>2. Bool(lower <= a /\ a <= upper) = Bool(a \in lower..upper)
      BY <3>1 DEF Bool
    <3> QED
      BY <2>4, <3>2, Zenon
  <2>14. m5.stack = Append(t, Bool(Holds(c))) /\ Kept(m1, m5)
    BY <2>7, <2>8, <2>11, <2>12, <2>13 DEF Kept
  <2> QED
    <3>1. base + Len(condition(c)) + 1 = base + 5
      BY <1>1, <2>1 DEF piece
    <3>2. Leaves({Bool(Holds(c))}, t, m1, m5)
      BY <2>14 DEF Leaves, Bool
    <3> QED
      BY <3>1, <3>2 DEF m1, m5
<1> QED
  BY <1>3, <1>4, <1>5, ConditionTyped

\* What joined conditions mean, up to the nth.
Meet(op, conditions, n) ==
    IF op = "AND" THEN \A i \in 1..n : Holds(conditions[i])
    ELSE \E i \in 1..n : Holds(conditions[i])

LEMMA MeetGrows ==
    ASSUME NEW op \in {"AND", "OR"}, NEW conditions, NEW n \in Nat, n >= 2
    PROVE  /\ Meet(op, conditions, 1) <=> Holds(conditions[1])
           /\ Meet("AND", conditions, n) <=>
                Meet("AND", conditions, n - 1) /\ Holds(conditions[n])
           /\ Meet("OR", conditions, n) <=>
                Meet("OR", conditions, n - 1) \/ Holds(conditions[n])
<1>1. \A i \in 1..n : i \in 1..(n - 1) \/ i = n
  OBVIOUS
<1>2. n \in 1..n /\ \A i \in 1..(n - 1) : i \in 1..n
  OBVIOUS
<1>3. 1 \in 1..1 /\ \A i \in 1..1 : i = 1
  OBVIOUS
<1>4. Meet(op, conditions, 1) <=> Holds(conditions[1])
  BY <1>3 DEF Meet
<1>5. Meet("AND", conditions, n) <=> Meet("AND", conditions, n - 1) /\ Holds(conditions[n])
  BY <1>1, <1>2 DEF Meet
<1>6. Meet("OR", conditions, n) <=> Meet("OR", conditions, n - 1) \/ Holds(conditions[n])
  BY <1>1, <1>2 DEF Meet
<1> QED
  BY <1>4, <1>5, <1>6

\* Joined conditions are the programs of the conditions, or the identity alone.
LEMMA ConditionsTyped ==
    ASSUME NEW conditions \in Seq(Condition), NEW op \in {"AND", "OR"},
           NEW identity \in Int
    PROVE  /\ joined(conditions, op, identity) \in Seq(Body)
           /\ (conditions = <<>> => joined(conditions, op, identity) = <<Const(identity)>>)
           /\ (conditions # <<>> =>
                 \E codes \in Seq(Seq(Body)) :
                   /\ joined(conditions, op, identity) = Joined(codes, op)
                   /\ Len(codes) = Len(conditions) /\ Len(codes) # 0
                   /\ \A n \in 1..Len(codes) : codes[n] = condition(conditions[n]))
<1>1. op \in Op /\ op # "HALT"
  BY DEF Op, BinaryOps, CompareOps
<1>2. CASE conditions = <<>>
  <2>1. Const(identity) \in Body
    BY Emitted
  <2>2. <<Const(identity)>> \in Seq(Body)
    BY <2>1
  <2> QED
    BY <1>2, <2>2 DEF joined
<1>3. CASE conditions # <<>>
  <2> DEFINE N == Len(conditions)
             codes == [i \in 1..N |-> condition(conditions[i])]
  <2>1. N \in Nat /\ N # 0
    BY <1>3, EmptySeq, LenProperties
  <2>2. \A i \in 1..N : condition(conditions[i]) \in Seq(Body)
    <3> TAKE i \in 1..N
    <3>1. conditions[i] \in Condition
      BY ElementOfSeq
    <3> QED
      BY <3>1, ConditionTyped
  <2>3. codes \in Seq(Seq(Body)) /\ Len(codes) = N
    <3> HIDE DEF N
    <3>1. codes \in [1..N -> Seq(Body)]
      BY <2>2
    <3> QED
      BY <2>1, <3>1
  <2>4. joined(conditions, op, identity) = Joined(codes, op)
    BY <1>3 DEF joined
  <2>5. Joined(codes, op) \in Seq(Body)
    <3> HIDE DEF codes
    <3> QED
      BY <1>1, <2>3, JoinedStands
  <2>6. \A n \in 1..Len(codes) : codes[n] = condition(conditions[n])
    BY <2>3
  <2> HIDE DEF codes
  <2> QED
    BY <1>3, <2>1, <2>3, <2>4, <2>5, <2>6
<1> QED
  BY <1>2, <1>3

\* Joined conditions leave whether they are met, the identity if there are none.
LEMMA ConditionsDo ==
    ASSUME NEW conditions \in Seq(Condition),
           \A i \in 1..Len(conditions) : conditions[i][3] <= conditions[i][4],
           NEW op \in {"AND", "OR"}, NEW identity \in Int,
           identity = IF op = "AND" THEN 2 ELSE 0, NEW tr, NEW base \in Nat,
           Passes(joined(conditions, op, identity), vm.inputs, tr, base),
           NEW s \in Seq(Int), tr[base + 1].stack = s
    PROVE  Leaves({Bool(Meet(op, conditions, Len(conditions)))}, s, tr[base + 1],
                  tr[base + Len(joined(conditions, op, identity)) + 1])
<1> DEFINE code == joined(conditions, op, identity)
           x == vm.inputs
           N == Len(conditions)
           first == tr[base + 1]
           after == tr[base + Len(code) + 1]
<1>1. CASE conditions = <<>>
  <2>1. Len(code) = 1 /\ code[1] = Const(identity)
    <3>1. code = <<Const(identity)>>
      BY <1>1 DEF joined
    <3> QED
      BY <3>1
  <2> HIDE DEF code
  <2>2. after = tr[base + 1 + 1]
    BY <2>1
  <2>3. Passes(code, x, tr, base)
    BY DEF code
  <2>4. Does(Const(identity), x, first, after)
    BY <2>1, <2>2, <2>3 DEF Passes
  <2>5. N = 0
    BY <1>1
  <2>6. \A i \in 1..N : FALSE
    BY <2>5
  <2>7. identity = Bool(Meet(op, conditions, N))
    BY <2>6 DEF Meet, Bool
  <2>8. first.stack = s
    OBVIOUS
  <2> HIDE DEF first, after, N
  <2>9. after.stack = Append(s, identity) /\ Kept(first, after)
    BY <2>4, <2>8, DoesConst
  <2>10. Leaves({Bool(Meet(op, conditions, N))}, s, first, after)
    BY <2>7, <2>9 DEF Leaves
  <2> QED
    BY <2>10 DEF N, first, after, code
<1>2. CASE conditions # <<>>
  <2>1. PICK codes \in Seq(Seq(Body)) :
          /\ code = Joined(codes, op) /\ Len(codes) = N /\ Len(codes) # 0
          /\ \A n \in 1..Len(codes) : codes[n] = condition(conditions[n])
    BY <1>2, ConditionsTyped
  <2>2. \A n \in 1..N : conditions[n] \in Condition /\ conditions[n][3] <= conditions[n][4]
    BY ElementOfSeq
  <2> DEFINE C == [n \in 1..N |-> {Bool(Holds(conditions[n]))}]
             R == [n \in 1..N |-> {Bool(Meet(op, conditions, n))}]
  <2>3. N \in Nat /\ N # 0 /\ 1 \in 1..N /\ N \in 1..N
    BY <2>1, LenProperties
  <2>4. Passes(Joined(codes, op), x, tr, base) /\ first.stack = s
    BY <2>1
  <2> HIDE DEF N, code, first, after
  <2>5. LeaveValues(codes, x, tr, C)
    <3> SUFFICES ASSUME NEW n \in 1..Len(codes), NEW b \in Nat, NEW t \in Seq(Int),
                        Passes(codes[n], x, tr, b), tr[b + 1].stack = t
                 PROVE  Leaves(C[n], t, tr[b + 1], tr[b + Len(codes[n]) + 1])
      BY DEF LeaveValues
    <3> DEFINE c == conditions[n]
    <3>1. c \in Condition /\ c[3] <= c[4] /\ codes[n] = condition(c) /\ C[n] = {Bool(Holds(c))}
      BY <2>1, <2>2
    <3> HIDE DEF c
    <3>2. Passes(condition(c), vm.inputs, tr, b)
      BY <3>1
    <3>3. Leaves({Bool(Holds(c))}, t, tr[b + 1], tr[b + Len(condition(c)) + 1])
      BY <3>1, <3>2, ConditionDoes
    <3> HIDE DEF C
    <3> QED
      BY <3>1, <3>3
  <2>6. JoinInto(op, C, R, N)
    <3>1. C[1] = R[1]
      <4>1. Bool(Holds(conditions[1])) = Bool(Meet(op, conditions, 1))
        BY MeetGrows, SMTT(30) DEF Bool
      <4> QED
        BY <2>3, <4>1
    <3>2. ASSUME NEW n \in 2..N, NEW v \in R[n - 1], NEW a \in C[n],
                 NEW r \in Binary(op, v, a)
          PROVE  r \in R[n]
      <4>1. /\ n \in Nat /\ n >= 2 /\ n \in 1..N /\ n - 1 \in 1..N
        BY <2>3
      <4>2. v = Bool(Meet(op, conditions, n - 1)) /\ a = Bool(Holds(conditions[n]))
        BY <4>1
      <4>3. op \in CompareOps /\ Binary(op, v, a) = {Bool(Compare(op, v, a))}
        <5>1. op \in CompareOps
          BY DEF CompareOps
        <5> QED
          BY <5>1, Zenon DEF Binary
      <4>4. (v # 0 <=> Meet(op, conditions, n - 1)) /\ (a # 0 <=> Holds(conditions[n]))
        BY <4>2 DEF Bool
      <4>5. Compare(op, v, a) <=> Meet(op, conditions, n)
        <5>1. CASE op = "AND"
          <6>1. Compare(op, v, a) = (v # 0 /\ a # 0)
            BY <5>1 DEF Compare
          <6> QED
            BY <4>1, <4>4, <5>1, <6>1, MeetGrows
        <5>2. CASE op = "OR"
          <6>1. Compare(op, v, a) = (v # 0 \/ a # 0)
            BY <5>2 DEF Compare
          <6> QED
            BY <4>1, <4>4, <5>2, <6>1, MeetGrows
        <5> QED
          BY <5>1, <5>2
      <4>6. Bool(Compare(op, v, a)) = Bool(Meet(op, conditions, n))
        BY <4>5 DEF Bool
      <4> QED
        BY <4>1, <4>3, <4>6
    <3> HIDE DEF C, R
    <3> QED
      BY <3>1, <3>2 DEF JoinInto
  <2>7. R[N] = {Bool(Meet(op, conditions, N))}
    BY <2>3
  <2> HIDE DEF C, R
  <2>8. op \in BinaryOps
    BY DEF BinaryOps, CompareOps
  <2>9. Leaves(R[Len(codes)], s, tr[base + 1], tr[base + Len(Joined(codes, op)) + 1])
    BY <2>1, <2>4, <2>5, <2>6, <2>8, JoinedDoes DEF first
  <2> QED
    BY <2>1, <2>7, <2>9 DEF N, code
<1> QED
  BY <1>1, <1>2

\* The program that is suppressed when all conditions hold, and routed when any does.
LEMMA ConditionalIsMet ==
    ASSUME Inv, TraceInv, NEW conditions \in Seq(Condition),
           \A i \in 1..Len(conditions) : conditions[i][3] <= conditions[i][4],
           Completed(conditional(conditions))
    PROVE  /\ vm.out.suppressed = 1 <=> Meet("AND", conditions, Len(conditions))
           /\ vm.out.routing_code = IF Meet("OR", conditions, Len(conditions)) THEN 7 ELSE 3
           /\ vm.stack = <<>>
<1>0. ASSUME NEW op \in {"AND", "OR"}, NEW i \in Int, i = IF op = "AND" THEN 2 ELSE 0,
             NEW tr, NEW base \in Nat, Passes(joined(conditions, op, i), vm.inputs, tr, base),
             NEW s \in Seq(Int), tr[base + 1].stack = s
      PROVE  Leaves({Bool(Meet(op, conditions, Len(conditions)))}, s, tr[base + 1],
                    tr[base + Len(joined(conditions, op, i)) + 1])
  BY <1>0, ConditionsDo
<1>0a. ASSUME NEW tr, NEW base \in Nat, NEW s \in Seq(Int), tr[base + 1].stack = s,
              Passes(joined(conditions, "AND", 2), vm.inputs, tr, base)
       PROVE  Leaves({Bool(Meet("AND", conditions, Len(conditions)))}, s, tr[base + 1],
                     tr[base + Len(joined(conditions, "AND", 2)) + 1])
  <2>1. "AND" \in {"AND", "OR"} /\ 2 \in Int /\ 2 = IF "AND" = "AND" THEN 2 ELSE 0
    OBVIOUS
  <2> QED
    BY <1>0, <1>0a, <2>1, Zenon
<1>0b. ASSUME NEW tr, NEW base \in Nat, NEW s \in Seq(Int), tr[base + 1].stack = s,
              Passes(joined(conditions, "OR", 0), vm.inputs, tr, base)
       PROVE  Leaves({Bool(Meet("OR", conditions, Len(conditions)))}, s, tr[base + 1],
                     tr[base + Len(joined(conditions, "OR", 0)) + 1])
  <2>1. "OR" \in {"AND", "OR"} /\ 0 \in Int /\ 0 = IF "OR" = "AND" THEN 2 ELSE 0
    OBVIOUS
  <2> QED
    BY <1>0, <1>0b, <2>1, Zenon
<1> DEFINE all == all_conditions(conditions)
           any == any_condition(conditions)
           stop == <<Plain("STORE_SUPPRESS")>>
           go == <<Const(14), Const(6), Plain("SELECT"), Plain("STORE_ROUTE")>>
           code == (all \o stop) \o (any \o go)
           x == vm.inputs
           la == Len(all)
           lb == Len(any)
           n == Len(conditions)
<1>1. all \in Seq(Body) /\ any \in Seq(Body) /\ la \in Nat /\ lb \in Nat
  <2>1. all \in Seq(Body)
    BY ConditionsTyped DEF all_conditions
  <2>2. any \in Seq(Body)
    BY ConditionsTyped DEF any_condition
  <2> HIDE DEF all, any
  <2> QED
    BY <2>1, <2>2, LenProperties
<1>2. /\ stop \in Seq(Body) /\ Len(stop) = 1 /\ stop[1] = Plain("STORE_SUPPRESS")
      /\ go \in Seq(Body) /\ Len(go) = 4 /\ go[1] = Const(14) /\ go[2] = Const(6)
      /\ go[3] = Plain("SELECT") /\ go[4] = Plain("STORE_ROUTE")
  BY Emitted DEF Op, StoreOps, TernaryOps
<1>3. Completed(code)
  BY DEF conditional, suppress_when, route_when
<1>4. all = joined(conditions, "AND", 2) /\ any = joined(conditions, "OR", 0)
  BY DEF all_conditions, any_condition
<1> HIDE DEF all, any, stop, go, x, la, lb, n
<1>5. all \o stop \in Seq(Body) /\ Len(all \o stop) = la + 1
  <2>1. all \o stop \in Seq(Body) /\ Len(all \o stop) = Len(all) + Len(stop)
    BY <1>1, <1>2, JoinTyped
  <2> QED
    BY <1>2, <2>1 DEF la
<1>6. any \o go \in Seq(Body) /\ Len(any \o go) = lb + 4
  <2>1. any \o go \in Seq(Body) /\ Len(any \o go) = Len(any) + Len(go)
    BY <1>1, <1>2, JoinTyped
  <2> QED
    BY <1>2, <2>1 DEF lb
<1>7. code \in Seq(Body) /\ Len(code) + 1 = la + lb + 6
  <2>1. code \in Seq(Body) /\ Len(code) = Len(all \o stop) + Len(any \o go)
    BY <1>5, <1>6, JoinTyped
  <2>2. la + 1 + (lb + 4) + 1 = la + lb + 6
    BY <1>1
  <2> HIDE DEF code
  <2> QED
    BY <1>5, <1>6, <2>1, <2>2
<1>8. PICK tr : /\ Passes(code, x, tr, 0) /\ \A i \in 1..(la + lb + 6) : tr[i] \in Datum
                /\ tr[1].stack = <<>> /\ tr[la + lb + 6] = Data(vm)
  <2> HIDE DEF code
  <2>1. \E tr : /\ Passes(code, x, tr, 0)
                /\ \A i \in 1..(Len(code) + 1) : tr[i] \in Datum
                /\ tr[1].stack = <<>>
                /\ tr[Len(code) + 1] = Data(vm)
    BY <1>3, <1>7, CompletedPasses DEF x
  <2> QED
    BY <1>7, <2>1
<1>9. Passes(all \o stop, x, tr, 0) /\ Passes(any \o go, x, tr, la + 1)
  <2>1. Passes(all \o stop, x, tr, 0) /\ Passes(any \o go, x, tr, 0 + Len(all \o stop))
    BY <1>5, <1>6, <1>8, PassesBoth
  <2>2. 0 + (la + 1) = la + 1
    BY <1>1
  <2> QED
    BY <1>5, <2>1, <2>2
<1>10. Passes(all, x, tr, 0) /\ Passes(stop, x, tr, la)
  <2>1. Passes(all, x, tr, 0) /\ Passes(stop, x, tr, 0 + Len(all))
    BY <1>1, <1>2, <1>9, PassesBoth
  <2>2. 0 + la = la
    BY <1>1
  <2> QED
    BY <2>1, <2>2 DEF la
<1>11. Passes(any, x, tr, la + 1) /\ Passes(go, x, tr, la + lb + 1)
  <2>1. la + 1 \in Nat
    BY <1>1
  <2>2. Passes(any, x, tr, la + 1) /\ Passes(go, x, tr, la + 1 + Len(any))
    BY <1>1, <1>2, <1>9, <2>1, PassesBoth
  <2>3. la + 1 + lb = la + lb + 1
    BY <1>1
  <2> QED
    BY <2>2, <2>3 DEF lb
<1> DEFINE none == <<>>
           m0 == tr[1]
           m1 == tr[la + 1]
           m2 == tr[la + 2]
           m3 == tr[la + lb + 2]
           m4 == tr[la + lb + 3]
           m5 == tr[la + lb + 4]
           m6 == tr[la + lb + 5]
           m7 == tr[la + lb + 6]
           a == Bool(Meet("AND", conditions, n))
           b == Bool(Meet("OR", conditions, n))
<1>12. /\ Does(Plain("STORE_SUPPRESS"), x, m1, m2)
       /\ Does(Const(14), x, m3, m4) /\ Does(Const(6), x, m4, m5)
       /\ Does(Plain("SELECT"), x, m5, m6) /\ Does(Plain("STORE_ROUTE"), x, m6, m7)
  <2> DEFINE e == la + lb + 1
  <2>1. /\ la + 1 + 1 = la + 2 /\ e + 1 = la + lb + 2 /\ e + 1 + 1 = la + lb + 3
        /\ e + 2 = la + lb + 3 /\ e + 2 + 1 = la + lb + 4 /\ e + 3 = la + lb + 4
        /\ e + 3 + 1 = la + lb + 5 /\ e + 4 = la + lb + 5 /\ e + 4 + 1 = la + lb + 6
    BY <1>1
  <2> HIDE DEF e
  <2>2. Does(stop[1], x, tr[la + 1], tr[la + 1 + 1])
    BY <1>2, <1>10 DEF Passes
  <2>3. \A i \in 1..4 : Does(go[i], x, tr[e + i], tr[e + i + 1])
    BY <1>2, <1>11 DEF Passes, e
  <2>4. Does(stop[1], x, m1, m2)
    BY <2>1, <2>2
  <2>5. /\ Does(go[1], x, m3, m4) /\ Does(go[2], x, m4, m5)
        /\ Does(go[3], x, m5, m6) /\ Does(go[4], x, m6, m7)
    BY <2>1, <2>3
  <2> QED
    BY <1>2, <2>4, <2>5
<1>13. /\ m1 \in Datum /\ m2 \in Datum /\ m6 \in Datum /\ m7 = Data(vm)
       /\ m0.stack = none /\ none \in Seq(Int)
  <2>1. /\ la + 1 \in 1..(la + lb + 6) /\ la + 2 \in 1..(la + lb + 6)
        /\ la + lb + 5 \in 1..(la + lb + 6)
    BY <1>1
  <2> QED
    BY <1>8, <2>1, EmptySeq
<1> HIDE DEF none
<1>14. Leaves({a}, none, m0, m1)
  <2>1. Passes(joined(conditions, "AND", 2), vm.inputs, tr, 0)
    BY <1>4, <1>10 DEF x
  <2>2. 0 + 1 = 1 /\ 0 + la + 1 = la + 1 /\ 0 \in Nat
    BY <1>1
  <2>3. tr[0 + 1].stack = none
    BY <1>13, <2>2
  <2>4. Leaves({Bool(Meet("AND", conditions, Len(conditions)))}, none, tr[0 + 1],
               tr[0 + Len(joined(conditions, "AND", 2)) + 1])
    BY <1>0a, <1>13, <2>1, <2>2, <2>3, Zenon
  <2>5. Leaves({a}, none, tr[0 + 1], tr[0 + la + 1])
    BY <1>4, <2>4 DEF la, n
  <2> QED
    BY <2>2, <2>5
<1>15. m2.stack = none => Leaves({b}, none, m2, m3)
  <2> SUFFICES ASSUME m2.stack = none
               PROVE  Leaves({b}, none, m2, m3)
    OBVIOUS
  <2>1. Passes(joined(conditions, "OR", 0), vm.inputs, tr, la + 1)
    BY <1>4, <1>11 DEF x
  <2>2. la + 1 + 1 = la + 2 /\ la + 1 + lb + 1 = la + lb + 2 /\ la + 1 \in Nat
    BY <1>1
  <2>3. tr[la + 1 + 1].stack = none
    BY <2>2
  <2>4. Leaves({Bool(Meet("OR", conditions, Len(conditions)))}, none, tr[la + 1 + 1],
               tr[la + 1 + Len(joined(conditions, "OR", 0)) + 1])
    BY <1>0b, <1>13, <2>1, <2>2, <2>3, Zenon
  <2>5. Leaves({b}, none, tr[la + 1 + 1], tr[la + 1 + lb + 1])
    BY <1>4, <2>4 DEF lb, n
  <2> QED
    BY <2>2, <2>5
<1> HIDE DEF m0, m1, m2, m3, m4, m5, m6, m7, a, b
<1>16. m1.stack = Append(none, a) /\ a \in Int
  BY <1>14 DEF Leaves
<1>17. /\ m2.stack = none
       /\ m2.out = [m1.out EXCEPT !["suppressed"] = Stored("suppressed", a)]
  <2>1. "STORE_SUPPRESS" \in StoreOps /\ OUTPUT_STORE_OPS["STORE_SUPPRESS"] = "suppressed"
    BY DEF StoreOps, OUTPUT_STORE_OPS
  <2>2. /\ m2.stack = none
        /\ m2.out = [m1.out EXCEPT ![OUTPUT_STORE_OPS["STORE_SUPPRESS"]] =
                       Stored(OUTPUT_STORE_OPS["STORE_SUPPRESS"], a)]
    BY <1>12, <1>13, <1>16, <2>1, DoesOutput
  <2> QED
    BY <2>1, <2>2
<1>18. m3.stack = Append(none, b) /\ b \in Int /\ Kept(m2, m3)
  BY <1>15, <1>17 DEF Leaves
<1>19. /\ m4.stack = Append(m3.stack, 14) /\ m5.stack = Append(m4.stack, 6)
       /\ Kept(m3, m4) /\ Kept(m4, m5)
  BY <1>12, DoesConst
<1>20. m5.stack = Push3(none, b, 14, 6)
  BY <1>18, <1>19 DEF Push3
<1> DEFINE route == IF b # 0 THEN 14 ELSE 6
<1>21. m6.stack = Append(none, route) /\ route \in Int /\ Kept(m5, m6)
  <2>1. "SELECT" \in TernaryOps /\ Ternary("SELECT", b, 14, 6) = {route}
    BY DEF TernaryOps, Ternary
  <2>2. (\E r \in Ternary("SELECT", b, 14, 6) : r \in Int /\ m6.stack = Append(none, r))
        /\ Kept(m5, m6)
    BY <1>12, <1>13, <1>18, <1>20, <2>1, DoesTernary, SMTT(30)
  <2> QED
    BY <2>1, <2>2
<1> HIDE DEF route
<1>22. /\ m7.stack = none
       /\ m7.out = [m6.out EXCEPT !["routing_code"] = Stored("routing_code", route)]
  <2>1. "STORE_ROUTE" \in StoreOps /\ OUTPUT_STORE_OPS["STORE_ROUTE"] = "routing_code"
    BY DEF StoreOps, OUTPUT_STORE_OPS
  <2>2. /\ m7.stack = none
        /\ m7.out = [m6.out EXCEPT ![OUTPUT_STORE_OPS["STORE_ROUTE"]] =
                       Stored(OUTPUT_STORE_OPS["STORE_ROUTE"], route)]
    BY <1>12, <1>13, <1>21, <2>1, DoesOutput
  <2> QED
    BY <2>1, <2>2
<1>23. /\ m6.out = m2.out
       /\ m7.out.suppressed = Stored("suppressed", a)
       /\ m7.out.routing_code = Stored("routing_code", route)
  <2>1. m6.out = m2.out
    BY <1>18, <1>19, <1>21 DEF Kept
  <2>2. /\ m1.out \in [alert_score : 0..100, severity_code : 0..9,
                       routing_code : 0..255, suppressed : 0..1]
        /\ m6.out \in [alert_score : 0..100, severity_code : 0..9,
                       routing_code : 0..255, suppressed : 0..1]
    BY <1>13 DEF Datum
  <2>3. m2.out.suppressed = Stored("suppressed", a)
    BY <1>17, <2>2
  <2>4. m7.out.suppressed = m6.out.suppressed
    BY <1>22, <2>2
  <2>5. m7.out.routing_code = Stored("routing_code", route)
    BY <1>22, <2>2
  <2> QED
    BY <2>1, <2>3, <2>4, <2>5
<1>24. Stored("suppressed", a) = 1 <=> Meet("AND", conditions, n)
  BY DEF Stored, a, Bool
<1>25. Stored("routing_code", route) = IF Meet("OR", conditions, n) THEN 7 ELSE 3
  <2>2. Stored("routing_code", 14) = 7 /\ Stored("routing_code", 6) = 3
    BY DEF Stored, Clamped, Round, Whole
  <2>3. b # 0 <=> Meet("OR", conditions, n)
    BY DEF b, Bool
  <2> QED
    BY <2>2, <2>3 DEF route
<1>26. vm.out = m7.out /\ vm.stack = m7.stack
  BY <1>13 DEF Data
<1> QED
  BY <1>22, <1>23, <1>24, <1>25, <1>26 DEF none, n

----------------------------------------------------------------------------
(* weighted_average *)

\* A weighted input is an input and a whole or half weight.
WeightedTerm == Int \X Int

\* The sums of the first terms: what WeightedSums and TotalWeight build up.
SumsUpTo(f, terms) ==
    /\ f \in [0..Len(terms) -> SUBSET Int] /\ f[0] = {0}
    /\ \A n \in 1..Len(terms) :
         f[n] = UNION {{s + p : p \in Around(vm.inputs[terms[n][1]] * terms[n][2], 2)} :
                         s \in f[n - 1]}

LEMMA SumsIterate ==
    ASSUME NEW terms \in Seq(WeightedTerm),
           \A n \in 1..Len(terms) : vm.inputs[terms[n][1]] \in Int
    PROVE  \E f : SumsUpTo(f, terms) /\ WeightedSums(terms) = f[Len(terms)]
<1> DEFINE N == Len(terms)
           D == SUBSET Int
           zero == {0}
           P(n) == Around(vm.inputs[terms[n][1]] * terms[n][2], 2)
           Is(f) == f = [n \in 0..N |->
                           IF n = 0 THEN {0}
                           ELSE UNION {{s + p : p \in P(n)} : s \in f[n - 1]}]
           sums == CHOOSE f : Is(f)
           G == [q \in (1..N) \X D |-> UNION {{s + p : p \in P(q[1])} : s \in q[2]}]
<1>1. N \in Nat
  BY LenProperties
<1>2. \A n \in 1..N : P(n) \subseteq Int
  <2> TAKE n \in 1..N
  <2>1. terms[n] \in WeightedTerm /\ vm.inputs[terms[n][1]] \in Int
    BY ElementOfSeq
  <2>2. terms[n][2] \in Int
    BY <2>1 DEF WeightedTerm
  <2> QED
    BY <2>1, <2>2 DEF Around
<1>3. WeightedSums(terms) = sums[N]
  BY DEF WeightedSums
<1> HIDE DEF N, P, sums
<1>4. \A n \in 1..N, S \in D : UNION {{s + p : p \in P(n)} : s \in S} \in D
  BY <1>2
<1>5. G \in [(1..N) \X D -> D]
  <2> HIDE DEF D
  <2> QED
    BY <1>4
<1>6. \A n \in 1..N, S \in D : G[<<n, S>>] = UNION {{s + p : p \in P(n)} : s \in S}
  <2> HIDE DEF D
  <2> QED
    OBVIOUS
<1>7. zero \in D
  OBVIOUS
<1> HIDE DEF D, G
<1>8. PICK f \in [0..N -> D] : Iterates(f, N, zero, G)
  <2> HIDE DEF zero, Is
  <2> QED
    BY <1>1, <1>5, <1>7, Iterated
<1>9. f[0] = {0} /\ \A n \in 1..N : f[n] = UNION {{s + p : p \in P(n)} : s \in f[n - 1]}
  <2>1. f[0] = {0}
    BY <1>8 DEF Iterates
  <2>2. ASSUME NEW n \in 1..N
        PROVE  f[n] = UNION {{s + p : p \in P(n)} : s \in f[n - 1]}
    <3>1. n - 1 \in 0..N
      BY <1>1
    <3>2. f[n - 1] \in D
      BY <1>8, <3>1
    <3>3. f[n] = G[<<n, f[n - 1]>>]
      BY <1>8 DEF Iterates
    <3> QED
      BY <1>6, <3>2, <3>3
  <2> QED
    BY <2>1, <2>2
<1>10. Is(f)
  <2>1. \A n \in 0..N : n # 0 => n \in 1..N
    BY <1>1
  <2>2. \A n \in 0..N : f[n] = IF n = 0 THEN {0}
                               ELSE UNION {{s + p : p \in P(n)} : s \in f[n - 1]}
    BY <1>9, <2>1
  <2> QED
    BY <1>8, <2>2
<1>11. Is(sums)
  BY <1>10, Zenon DEF sums
<1>12. /\ sums[0] = {0}
       /\ \A n \in 1..N : sums[n] = UNION {{s + p : p \in P(n)} : s \in sums[n - 1]}
  <2>1. \A n \in 0..N : sums[n] = IF n = 0 THEN {0}
                                  ELSE UNION {{s + p : p \in P(n)} : s \in sums[n - 1]}
    BY <1>11
  <2>2. 0 \in 0..N /\ \A n \in 1..N : n \in 0..N /\ n # 0
    BY <1>1
  <2> QED
    BY <2>1, <2>2
<1>13. sums \in [0..N -> SUBSET Int]
  <2>1. DOMAIN sums = 0..N /\ sums = [n \in 0..N |-> sums[n]]
    BY <1>11
  <2> HIDE DEF Is
  <2>2. \A n \in 0..N : sums[n] \in D
    <3> DEFINE Bad == {n \in 0..N : sums[n] \notin D}
    <3> SUFFICES ASSUME Bad # {}
                 PROVE  FALSE
      OBVIOUS
    <3>1. PICK n \in Bad : \A m \in Bad : n <= m
      <4>1. Bad \subseteq Nat
        OBVIOUS
      <4> HIDE DEF Bad
      <4> QED
        BY <4>1, FirstExists
    <3>2. n # 0
      BY <1>7, <1>12
    <3>3. n \in 1..N /\ n - 1 \in 0..N /\ ~ (n <= n - 1)
      BY <1>1, <3>2
    <3>4. sums[n - 1] \in D
      BY <3>1, <3>3
    <3>5. sums[n] \in D
      BY <1>4, <1>12, <3>3, <3>4
    <3> QED
      BY <3>5
  <2> QED
    BY <2>1, <2>2 DEF D
<1> HIDE DEF Is
<1>14. SumsUpTo(sums, terms)
  BY <1>12, <1>13 DEF SumsUpTo, N, P
<1> QED
  BY <1>3, <1>14 DEF N

LEMMA TotalTyped ==
    ASSUME NEW terms \in Seq(WeightedTerm)
    PROVE  TotalWeight(terms) \in Int
<1> DEFINE N == Len(terms)
           w(n) == terms[n][2]
           Is(f) == f = [n \in 0..N |-> IF n = 0 THEN 0 ELSE f[n - 1] + w(n)]
           total == CHOOSE f : Is(f)
           G == [q \in (1..N) \X Int |-> q[2] + w(q[1])]
<1>1. N \in Nat
  BY LenProperties
<1>2. \A n \in 1..N : w(n) \in Int
  <2> TAKE n \in 1..N
  <2>1. terms[n] \in WeightedTerm
    BY ElementOfSeq
  <2> QED
    BY <2>1 DEF WeightedTerm
<1>3. TotalWeight(terms) = total[N]
  BY DEF TotalWeight
<1> HIDE DEF N, w, total
<1>4. G \in [(1..N) \X Int -> Int]
  BY <1>2
<1>5. \A n \in 1..N, v \in Int : G[<<n, v>>] = v + w(n)
  OBVIOUS
<1> HIDE DEF G
<1>6. PICK f \in [0..N -> Int] : Iterates(f, N, 0, G)
  <2> DEFINE D == Int
             zero == 0
  <2>1. zero \in D /\ G \in [(1..N) \X D -> D]
    BY <1>4
  <2> HIDE DEF Is, D, zero
  <2>2. \E f \in [0..N -> D] : Iterates(f, N, zero, G)
    BY <1>1, <2>1, Iterated
  <2> QED
    BY <2>2 DEF D, zero
<1>7. \A n \in 0..N : f[n] = IF n = 0 THEN 0 ELSE f[n - 1] + w(n)
  <2> TAKE n \in 0..N
  <2>1. CASE n = 0
    BY <1>6, <2>1 DEF Iterates
  <2>2. CASE n # 0
    <3>1. n \in 1..N /\ n - 1 \in 0..N
      BY <1>1, <2>2
    <3>2. f[n - 1] \in Int
      BY <1>6, <3>1
    <3>3. f[n] = G[<<n, f[n - 1]>>]
      BY <1>6, <3>1 DEF Iterates
    <3> QED
      BY <1>5, <2>2, <3>1, <3>2, <3>3
  <2> QED
    BY <2>1, <2>2
<1>8. Is(f)
  BY <1>6, <1>7
<1>9. Is(total)
  BY <1>8, Zenon DEF total
<1>10. \A n \in 0..N : total[n] = IF n = 0 THEN 0 ELSE total[n - 1] + w(n)
  BY <1>9
<1> HIDE DEF Is
<1>11. \A n \in 0..N : total[n] \in Int
  <2> DEFINE Bad == {n \in 0..N : total[n] \notin Int}
  <2> SUFFICES ASSUME Bad # {}
               PROVE  FALSE
    OBVIOUS
  <2>1. PICK n \in Bad : \A m \in Bad : n <= m
    <3>1. Bad \subseteq Nat
      OBVIOUS
    <3> HIDE DEF Bad
    <3> QED
      BY <3>1, FirstExists
  <2>2. n \in 0..N /\ total[n] \notin Int
    BY <2>1
  <2>3. n # 0
    BY <1>10, <2>2
  <2>4. n \in 1..N /\ n - 1 \in 0..N /\ ~ (n <= n - 1)
    BY <1>1, <2>2, <2>3
  <2>5. total[n - 1] \in Int
    BY <2>1, <2>4
  <2> QED
    BY <1>2, <1>10, <2>2, <2>3, <2>4, <2>5
<1>12. N \in 0..N
  BY <1>1
<1> QED
  BY <1>3, <1>11, <1>12

\* The programs of the terms, which weighted_sum joins.
LEMMA WeightedSumTyped ==
    ASSUME NEW terms \in Seq(WeightedTerm), terms # <<>>
    PROVE  /\ weighted_sum(terms) \in Seq(Body)
           /\ \E codes \in Seq(Seq(Body)) :
                /\ weighted_sum(terms) = Joined(codes, "ADD")
                /\ Len(codes) = Len(terms) /\ Len(codes) # 0
                /\ \A n \in 1..Len(codes) :
                     codes[n] = Loading(terms[n][1], terms[n][2], "MUL")
<1> DEFINE N == Len(terms)
           codes == [i \in 1..N |-> product(terms[i])]
<1>1. N \in Nat /\ N # 0
  BY EmptySeq, LenProperties
<1>2. \A i \in 1..N : product(terms[i]) \in Seq(Body)
  <2> TAKE i \in 1..N
  <2> DEFINE k == terms[i][1]
             w == terms[i][2]
  <2>1. k \in Int /\ w \in Int
    <3>1. terms[i] \in WeightedTerm
      BY ElementOfSeq
    <3> QED
      BY <3>1 DEF WeightedTerm
  <2>2. product(terms[i]) = <<Input(k), Const(w), Plain("MUL")>>
    BY DEF product
  <2> HIDE DEF k, w
  <2>3. Input(k) \in Body /\ Const(w) \in Body /\ Plain("MUL") \in Body
    BY <2>1, Emitted DEF Op, BinaryOps
  <2> QED
    BY <2>2, <2>3
<1>3. codes \in Seq(Seq(Body)) /\ Len(codes) = N
  <2> HIDE DEF N
  <2>1. codes \in [1..N -> Seq(Body)]
    BY <1>2
  <2> QED
    BY <1>1, <2>1
<1>4. weighted_sum(terms) = Joined(codes, "ADD")
  BY DEF weighted_sum
<1>5. \A n \in 1..Len(codes) : codes[n] = Loading(terms[n][1], terms[n][2], "MUL")
  BY <1>3 DEF Loading, product
<1> HIDE DEF codes
<1>6. Joined(codes, "ADD") \in Seq(Body)
  <2>1. "ADD" \in Op /\ "ADD" # "HALT"
    BY DEF Op, BinaryOps
  <2> QED
    BY <1>3, <2>1, JoinedStands
<1> QED
  BY <1>1, <1>3, <1>4, <1>5, <1>6

\* weighted_sum leaves the sum of the weighted inputs, which are all numbers.
LEMMA WeightedSumDoes ==
    ASSUME NEW terms \in Seq(WeightedTerm), terms # <<>>, NEW tr, NEW base \in Nat,
           Passes(weighted_sum(terms), vm.inputs, tr, base),
           NEW s \in Seq(Int), tr[base + 1].stack = s
    PROVE  Leaves(WeightedSums(terms), s, tr[base + 1],
                  tr[base + Len(weighted_sum(terms)) + 1])
<1> DEFINE x == vm.inputs
           N == Len(terms)
           code == weighted_sum(terms)
           P(n) == Around(x[terms[n][1]] * terms[n][2], 2)
<1>1. PICK codes \in Seq(Seq(Body)) :
        /\ code = Joined(codes, "ADD") /\ Len(codes) = N /\ Len(codes) # 0
        /\ \A n \in 1..Len(codes) : codes[n] = Loading(terms[n][1], terms[n][2], "MUL")
  BY WeightedSumTyped
<1>2. N \in Nat /\ N # 0
  BY <1>1, LenProperties
<1>3. Passes(Joined(codes, "ADD"), x, tr, base)
  BY <1>1
<1>4. "ADD" \in BinaryOps /\ "ADD" \in Op /\ "ADD" # "HALT" /\ "MUL" \in BinaryOps
  BY DEF Op, BinaryOps
<1> HIDE DEF code, x, N
<1>5. \A n \in 1..N : x[terms[n][1]] \in Int /\ terms[n][2] \in Int
  <2> TAKE n \in 1..N
  <2>1. PICK b \in Nat : Passes(codes[n], x, tr, b)
    BY <1>1, <1>3, <1>4, JoinedPasses
  <2> DEFINE k == terms[n][1]
             w == terms[n][2]
             piece == Loading(k, w, "MUL")
             d == tr[b + 1]
             e == tr[b + 1 + 1]
  <2>2. Len(piece) = 3 /\ piece[1] = Input(k)
    BY DEF Loading
  <2>3. Passes(piece, x, tr, b)
    BY <1>1, <2>1
  <2> HIDE DEF piece
  <2>4. Does(Input(k), x, d, e)
    BY <2>2, <2>3 DEF Passes
  <2>5. terms[n] \in WeightedTerm
    BY ElementOfSeq DEF N
  <2>6. w \in Int
    BY <2>5 DEF WeightedTerm
  <2> HIDE DEF k, d, e, w
  <2>7. x[k] \in Int
    BY <2>4, DoesInput
  <2> QED
    BY <2>6, <2>7 DEF k, w
<1>6. PICK f : SumsUpTo(f, terms) /\ WeightedSums(terms) = f[N]
  <2>1. \A n \in 1..Len(terms) : vm.inputs[terms[n][1]] \in Int
    BY <1>5 DEF N, x
  <2>2. \E f : SumsUpTo(f, terms) /\ WeightedSums(terms) = f[Len(terms)]
    BY <2>1, SumsIterate
  <2> QED
    BY <2>2 DEF N
<1>7. /\ f \in [0..N -> SUBSET Int] /\ f[0] = {0}
      /\ \A n \in 1..N : f[n] = UNION {{v + p : p \in P(n)} : v \in f[n - 1]}
  BY <1>6 DEF SumsUpTo, N, x
<1>8. \A n \in 1..N : P(n) \subseteq Int
  BY <1>5 DEF Around
<1> DEFINE C == [n \in 1..N |-> P(n)]
<1>9. LeaveValues(codes, x, tr, C)
  <2> SUFFICES ASSUME NEW n \in 1..Len(codes), NEW b \in Nat, NEW t \in Seq(Int),
                      Passes(codes[n], x, tr, b), tr[b + 1].stack = t
               PROVE  Leaves(C[n], t, tr[b + 1], tr[b + Len(codes[n]) + 1])
    BY DEF LeaveValues
  <2> DEFINE k == terms[n][1]
             w == terms[n][2]
             a == x[k]
  <2>1. n \in 1..N /\ codes[n] = Loading(k, w, "MUL") /\ C[n] = Around(a * w, 2)
    BY <1>1
  <2>2. Len(codes[n]) = 3
    BY <2>1 DEF Loading
  <2>3. b + Len(codes[n]) + 1 = b + 4
    BY <2>2
  <2>4. x[k] = a /\ Passes(Loading(k, w, "MUL"), x, tr, b)
    BY <2>1
  <2> HIDE DEF C, P, k, w, a
  <2>5. Leaves(Binary("MUL", a, w), t, tr[b + 1], tr[b + 4])
    BY <1>4, <2>4, LoadsAndDoes
  <2>6. Binary("MUL", a, w) = Around(a * w, 2)
    <3>1. "MUL" \notin CompareOps
      BY DEF CompareOps
    <3> QED
      BY <3>1, Zenon DEF Binary
  <2> QED
    BY <2>1, <2>3, <2>5, <2>6
<1>10. JoinInto("ADD", C, f, N)
  <2>1. ASSUME NEW a \in C[1]
        PROVE  a \in f[1]
    <3>1. 1 \in 1..N /\ 1 - 1 = 0 /\ C[1] = P(1)
      BY <1>2
    <3> HIDE DEF P, C
    <3>2. a \in P(1) /\ a \in Int /\ 0 + a = a
      BY <1>8, <2>1, <3>1
    <3>3. f[1] = UNION {{v + p : p \in P(1)} : v \in {0}}
      BY <1>7, <3>1
    <3> QED
      BY <3>2, <3>3
  <2>2. ASSUME NEW n \in 2..N, NEW v \in f[n - 1], NEW a \in C[n], NEW r \in Binary("ADD", v, a)
        PROVE  r \in f[n]
    <3>1. n \in 1..N /\ a \in P(n)
      BY <1>2
    <3>2. Binary("ADD", v, a) = {v + a}
      <4>1. "ADD" \notin CompareOps
        BY DEF CompareOps
      <4> QED
        BY <4>1, Zenon DEF Binary
    <3> HIDE DEF P, C
    <3>3. r = v + a
      BY <3>2
    <3>4. f[n] = UNION {{u + p : p \in P(n)} : u \in f[n - 1]}
      BY <1>7, <3>1
    <3> QED
      BY <3>1, <3>3, <3>4
  <2> HIDE DEF C
  <2> QED
    BY <2>1, <2>2 DEF JoinInto
<1> HIDE DEF C, P
<1>11. Leaves(f[Len(codes)], s, tr[base + 1], tr[base + Len(Joined(codes, "ADD")) + 1])
  BY <1>1, <1>3, <1>4, <1>9, <1>10, JoinedDoes
<1> QED
  BY <1>1, <1>6, <1>11 DEF code

----------------------------------------------------------------------------
(* standard_alert_policy *)

\* The pieces of a standard policy, without its HALT.
Averaging(terms) == <<Const(TotalWeight(terms)), Plain("DIV")>>
Scaling == <<Const(ScoreScale), Plain("MUL")>>
Scoring == <<Plain("DUP"), Plain("STORE_SCORE")>>
Doubling == <<Plain("DUP")>>
Rating == <<Plain("STORE_SEVERITY")>>
Suppressing == <<Plain("DUP"), Const(SuppressBelow), Plain("LT"), Plain("STORE_SUPPRESS")>>
Routing == <<Plain("DROP"), Const(2 * DefaultRoute), Plain("STORE_ROUTE")>>

StandardFront(terms) ==
    (((((((weighted_sum(terms) \o Averaging(terms)) \o Scaling) \o Scoring) \o Doubling)
       \o severity_bands) \o Rating) \o Suppressing)

StandardBody(terms) == StandardFront(terms) \o Routing

LEMMA StandardPieces ==
    ASSUME NEW terms \in Seq(WeightedTerm), terms # <<>>
    PROVE  /\ weighted_sum(terms) \in Seq(Body) /\ Len(weighted_sum(terms)) \in Nat
           /\ Averaging(terms) \in Seq(Body) /\ Len(Averaging(terms)) = 2
           /\ Scaling \in Seq(Body) /\ Len(Scaling) = 2
           /\ Scoring \in Seq(Body) /\ Len(Scoring) = 2
           /\ Doubling \in Seq(Body) /\ Len(Doubling) = 1
           /\ severity_bands \in Seq(Body) /\ Len(severity_bands) = 21
           /\ Rating \in Seq(Body) /\ Len(Rating) = 1
           /\ Suppressing \in Seq(Body) /\ Len(Suppressing) = 4
           /\ Routing \in Seq(Body) /\ Len(Routing) = 3
<1>1. /\ Plain("DIV") \in Body /\ Plain("MUL") \in Body /\ Plain("DUP") \in Body
      /\ Plain("STORE_SCORE") \in Body /\ Plain("STORE_SEVERITY") \in Body
      /\ Plain("LT") \in Body /\ Plain("STORE_SUPPRESS") \in Body /\ Plain("DROP") \in Body
      /\ Plain("STORE_ROUTE") \in Body
  BY Emitted DEF Op, BinaryOps, CompareOps, StoreOps
<1>2. /\ Const(TotalWeight(terms)) \in Body /\ Const(ScoreScale) \in Body
      /\ Const(SuppressBelow) \in Body /\ Const(2 * DefaultRoute) \in Body
  <2>1. /\ TotalWeight(terms) \in Int /\ ScoreScale \in Int /\ SuppressBelow \in Int
        /\ 2 * DefaultRoute \in Int
    BY TotalTyped, PolicyAssumption
  <2> QED
    BY <2>1, Emitted
<1>3. weighted_sum(terms) \in Seq(Body) /\ Len(weighted_sum(terms)) \in Nat
  BY WeightedSumTyped, LenProperties
<1>4. /\ Averaging(terms) \in Seq(Body) /\ Len(Averaging(terms)) = 2
      /\ Scaling \in Seq(Body) /\ Len(Scaling) = 2
      /\ Scoring \in Seq(Body) /\ Len(Scoring) = 2
      /\ Doubling \in Seq(Body) /\ Len(Doubling) = 1
      /\ Rating \in Seq(Body) /\ Len(Rating) = 1
      /\ Suppressing \in Seq(Body) /\ Len(Suppressing) = 4
      /\ Routing \in Seq(Body) /\ Len(Routing) = 3
  <2> DEFINE c1 == Const(TotalWeight(terms))
             c2 == Const(ScoreScale)
             c3 == Const(SuppressBelow)
             c4 == Const(2 * DefaultRoute)
  <2>1. c1 \in Body /\ c2 \in Body /\ c3 \in Body /\ c4 \in Body
    BY <1>2
  <2>2. /\ Averaging(terms) = <<c1, Plain("DIV")>> /\ Scaling = <<c2, Plain("MUL")>>
        /\ Suppressing = <<Plain("DUP"), c3, Plain("LT"), Plain("STORE_SUPPRESS")>>
        /\ Routing = <<Plain("DROP"), c4, Plain("STORE_ROUTE")>>
    BY DEF Averaging, Scaling, Suppressing, Routing
  <2> HIDE DEF c1, c2, c3, c4
  <2>3. Averaging(terms) \in Seq(Body) /\ Len(Averaging(terms)) = 2
    BY <1>1, <2>1, <2>2
  <2>4. Scaling \in Seq(Body) /\ Len(Scaling) = 2
    BY <1>1, <2>1, <2>2
  <2>5. /\ Scoring \in Seq(Body) /\ Len(Scoring) = 2 /\ Doubling \in Seq(Body)
        /\ Len(Doubling) = 1 /\ Rating \in Seq(Body) /\ Len(Rating) = 1
    BY <1>1 DEF Scoring, Doubling, Rating
  <2>6. Suppressing \in Seq(Body) /\ Len(Suppressing) = 4
    BY <1>1, <2>1, <2>2
  <2>7. Routing \in Seq(Body) /\ Len(Routing) = 3
    BY <1>1, <2>1, <2>2
  <2> QED
    BY <2>3, <2>4, <2>5, <2>6, <2>7
<1> QED
  BY <1>3, <1>4, BandsTyped

\* A standard policy that completes is its pieces, passed one after the other.
LEMMA StandardTyped ==
    ASSUME NEW terms \in Seq(WeightedTerm), terms # <<>>
    PROVE  /\ StandardFront(terms) \in Seq(Body) /\ StandardBody(terms) \in Seq(Body)
           /\ Len(StandardBody(terms)) = Len(weighted_sum(terms)) + 36
<1> DEFINE sum == weighted_sum(terms)
           avg == Averaging(terms)
           scale == Scaling
           score == Scoring
           dup == Doubling
           bands == severity_bands
           sev == Rating
           supp == Suppressing
           route == Routing
           L == Len(sum)
<1>1. /\ sum \in Seq(Body) /\ Len(sum) = L /\ L \in Nat /\ avg \in Seq(Body) /\ Len(avg) = 2
      /\ scale \in Seq(Body) /\ Len(scale) = 2 /\ score \in Seq(Body) /\ Len(score) = 2
      /\ dup \in Seq(Body) /\ Len(dup) = 1 /\ bands \in Seq(Body) /\ Len(bands) = 21
      /\ sev \in Seq(Body) /\ Len(sev) = 1 /\ supp \in Seq(Body) /\ Len(supp) = 4
      /\ route \in Seq(Body) /\ Len(route) = 3
  BY StandardPieces
<1>2. /\ StandardFront(terms) = (((((((sum \o avg) \o scale) \o score) \o dup) \o bands) \o sev) \o supp)
      /\ StandardBody(terms) = (((((((sum \o avg) \o scale) \o score) \o dup) \o bands) \o sev) \o supp) \o route
  BY DEF StandardFront, StandardBody
<1> HIDE DEF sum, avg, scale, score, dup, bands, sev, supp, route, L
<1>3. sum \o avg \in Seq(Body) /\ Len(sum \o avg) = L + 2
  <2>1. sum \o avg \in Seq(Body) /\ Len(sum \o avg) = Len(sum) + Len(avg)
    BY <1>1, JoinTyped
  <2>2. Len(sum) + Len(avg) = L + 2
    BY <1>1
  <2> QED
    BY <2>1, <2>2
<1>4. (sum \o avg) \o scale \in Seq(Body) /\ Len((sum \o avg) \o scale) = L + 4
  <2>1. (sum \o avg) \o scale \in Seq(Body) /\ Len((sum \o avg) \o scale) = Len((sum \o avg)) + Len(scale)
    BY <1>1, <1>3, JoinTyped
  <2>2. Len((sum \o avg)) + Len(scale) = L + 4
    BY <1>1, <1>3
  <2> QED
    BY <2>1, <2>2
<1>5. ((sum \o avg) \o scale) \o score \in Seq(Body) /\ Len(((sum \o avg) \o scale) \o score) = L + 6
  <2>1. ((sum \o avg) \o scale) \o score \in Seq(Body) /\ Len(((sum \o avg) \o scale) \o score) = Len(((sum \o avg) \o scale)) + Len(score)
    BY <1>1, <1>4, JoinTyped
  <2>2. Len(((sum \o avg) \o scale)) + Len(score) = L + 6
    BY <1>1, <1>4
  <2> QED
    BY <2>1, <2>2
<1>6. (((sum \o avg) \o scale) \o score) \o dup \in Seq(Body) /\ Len((((sum \o avg) \o scale) \o score) \o dup) = L + 7
  <2>1. (((sum \o avg) \o scale) \o score) \o dup \in Seq(Body) /\ Len((((sum \o avg) \o scale) \o score) \o dup) = Len((((sum \o avg) \o scale) \o score)) + Len(dup)
    BY <1>1, <1>5, JoinTyped
  <2>2. Len((((sum \o avg) \o scale) \o score)) + Len(dup) = L + 7
    BY <1>1, <1>5
  <2> QED
    BY <2>1, <2>2
<1>7. ((((sum \o avg) \o scale) \o score) \o dup) \o bands \in Seq(Body) /\ Len(((((sum \o avg) \o scale) \o score) \o dup) \o bands) = L + 28
  <2>1. ((((sum \o avg) \o scale) \o score) \o dup) \o bands \in Seq(Body) /\ Len(((((sum \o avg) \o scale) \o score) \o dup) \o bands) = Len(((((sum \o avg) \o scale) \o score) \o dup)) + Len(bands)
    BY <1>1, <1>6, JoinTyped
  <2>2. Len(((((sum \o avg) \o scale) \o score) \o dup)) + Len(bands) = L + 28
    BY <1>1, <1>6
  <2> QED
    BY <2>1, <2>2
<1>8. (((((sum \o avg) \o scale) \o score) \o dup) \o bands) \o sev \in Seq(Body) /\ Len((((((sum \o avg) \o scale) \o score) \o dup) \o bands) \o sev) = L + 29
  <2>1. (((((sum \o avg) \o scale) \o score) \o dup) \o bands) \o sev \in Seq(Body) /\ Len((((((sum \o avg) \o scale) \o score) \o dup) \o bands) \o sev) = Len((((((sum \o avg) \o scale) \o score) \o dup) \o bands)) + Len(sev)
    BY <1>1, <1>7, JoinTyped
  <2>2. Len((((((sum \o avg) \o scale) \o score) \o dup) \o bands)) + Len(sev) = L + 29
    BY <1>1, <1>7
  <2> QED
    BY <2>1, <2>2
<1>9. ((((((sum \o avg) \o scale) \o score) \o dup) \o bands) \o sev) \o supp \in Seq(Body) /\ Len(((((((sum \o avg) \o scale) \o score) \o dup) \o bands) \o sev) \o supp) = L + 33
  <2>1. ((((((sum \o avg) \o scale) \o score) \o dup) \o bands) \o sev) \o supp \in Seq(Body) /\ Len(((((((sum \o avg) \o scale) \o score) \o dup) \o bands) \o sev) \o supp) = Len(((((((sum \o avg) \o scale) \o score) \o dup) \o bands) \o sev)) + Len(supp)
    BY <1>1, <1>8, JoinTyped
  <2>2. Len(((((((sum \o avg) \o scale) \o score) \o dup) \o bands) \o sev)) + Len(supp) = L + 33
    BY <1>1, <1>8
  <2> QED
    BY <2>1, <2>2
<1>10. (((((((sum \o avg) \o scale) \o score) \o dup) \o bands) \o sev) \o supp) \o route \in Seq(Body) /\ Len((((((((sum \o avg) \o scale) \o score) \o dup) \o bands) \o sev) \o supp) \o route) = L + 36
  <2>1. (((((((sum \o avg) \o scale) \o score) \o dup) \o bands) \o sev) \o supp) \o route \in Seq(Body) /\ Len((((((((sum \o avg) \o scale) \o score) \o dup) \o bands) \o sev) \o supp) \o route) = Len((((((((sum \o avg) \o scale) \o score) \o dup) \o bands) \o sev) \o supp)) + Len(route)
    BY <1>1, <1>9, JoinTyped
  <2>2. Len((((((((sum \o avg) \o scale) \o score) \o dup) \o bands) \o sev) \o supp)) + Len(route) = L + 36
    BY <1>1, <1>9
  <2> QED
    BY <2>1, <2>2
<1> QED
  BY <1>2, <1>9, <1>10 DEF sum, L

LEMMA StandardCompletes ==
    ASSUME NEW terms \in Seq(WeightedTerm), terms # <<>>, Completed(standard_alert_policy(terms))
    PROVE  Completed(StandardBody(terms))
<1> DEFINE front == StandardFront(terms)
           halt == Plain("HALT")
           one == <<halt>>
           a == Plain("DROP")
           b == Const(2 * DefaultRoute)
           c == Plain("STORE_ROUTE")
           tail == <<a, b, c>>
           full == <<a, b, c, halt>>
           code == standard_alert_policy(terms)
           body == StandardBody(terms)
<1>1. front \in Seq(Instruction) /\ body \in Seq(Body) /\ body \in Seq(Instruction)
  <2>1. Body \subseteq Instruction
    BY DEF Body
  <2>2. front \in Seq(Body) /\ body \in Seq(Body)
    BY StandardTyped
  <2> HIDE DEF front, body
  <2> QED
    BY <2>1, <2>2
<1>2. code = front \o full
  BY DEF standard_alert_policy, weighted_average, StandardFront, Averaging, Scaling, Scoring,
         Doubling, Rating, Suppressing
<1>3. body = front \o tail
  BY DEF StandardBody, Routing
<1>4. a \in Instruction /\ b \in Instruction /\ c \in Instruction /\ halt \in Instruction
  <2>1. 2 * DefaultRoute \in Int
    BY PolicyAssumption
  <2> QED
    BY <2>1 DEF Plain, Const, Instruction, Op, StoreOps
<1> HIDE DEF front, code, body, a, b, c, halt
<1>5. tail \in Seq(Instruction) /\ full \in Seq(Instruction) /\ one \in Seq(Instruction)
  BY <1>4
<1>6. full = tail \o one
  <2>1. /\ Len(tail) = 3 /\ tail[1] = a /\ tail[2] = b /\ tail[3] = c
        /\ Len(full) = 4 /\ full[1] = a /\ full[2] = b /\ full[3] = c /\ full[4] = halt
    OBVIOUS
  <2>2. tail \o one = Append(tail, halt)
    BY <1>4, <1>5, AppendIsConcat
  <2> DEFINE both == Append(tail, halt)
  <2> HIDE DEF tail, full, one
  <2>3. /\ both \in Seq(Instruction) /\ Len(both) = Len(tail) + 1
        /\ \A i \in 1..Len(tail) : both[i] = tail[i]
        /\ both[Len(tail) + 1] = halt
    BY <1>4, <1>5, AppendProperties
  <2> HIDE DEF both
  <2>4. /\ Len(both) = 4 /\ both[1] = a /\ both[2] = b /\ both[3] = c /\ both[4] = halt
    BY <2>1, <2>3
  <2>5. \A i \in 1..4 : both[i] = full[i]
    BY <2>1, <2>4
  <2>6. both = full
    BY <1>5, <2>1, <2>3, <2>4, <2>5, SeqEqual, ZenonT(40)
  <2> QED
    BY <2>2, <2>6 DEF both
<1>7. code = Append(body, halt)
  <2> HIDE DEF tail, full
  <2>1. (front \o tail) \o one = front \o (tail \o one)
    <3> HIDE DEF one
    <3> QED
      BY <1>1, <1>5, ConcatAssociative, SMTT(30)
  <2>2. body \o one = Append(body, halt)
    BY <1>1, <1>4, AppendIsConcat
  <2> HIDE DEF one
  <2> QED
    BY <1>2, <1>3, <1>6, <2>1, <2>2
<1>8. WithHalt(code) = code
  <2>1. /\ Len(code) = Len(body) + 1 /\ code[Len(body) + 1] = halt
    BY <1>1, <1>4, <1>7, AppendProperties
  <2>2. Len(body) \in Nat /\ Len(code) # 0
    BY <1>1, <2>1, LenProperties
  <2>3. code # <<>>
    BY <2>2
  <2>4. code[Len(code)].op = "HALT"
    BY <2>1 DEF halt, Plain
  <2> QED
    BY <2>3, <2>4 DEF WithHalt
<1>9. WithHalt(body) = Append(body, halt)
  <2>1. /\ Len(WithHalt(body)) = Len(body) + 1 /\ Len(body) \in Nat
        /\ Stands(WithHalt(body), 0, body)
        /\ WithHalt(body)[Len(body) + 1] = Plain("HALT")
    BY <1>1, WithHaltStands
  <2>2. body = <<>> \/ body[Len(body)].op # "HALT"
    <3> SUFFICES ASSUME body # <<>>
                 PROVE  body[Len(body)].op # "HALT"
      OBVIOUS
    <3>1. Len(body) \in 1..Len(body)
      BY <1>1, <2>1, EmptySeq
    <3>2. body[Len(body)] \in Body
      BY <1>1, <3>1, ElementOfSeq
    <3> QED
      BY <3>2 DEF Body
  <2> QED
    BY <2>2 DEF WithHalt, halt
<1>10. Completed(code)
  BY DEF code
<1> QED
  BY <1>7, <1>8, <1>9, <1>10 DEF Completed, body

\* What the pieces pass, the first of them L instructions long.
StandardPasses(terms, x, tr, L) ==
    /\ Passes(weighted_sum(terms), x, tr, 0) /\ Passes(Averaging(terms), x, tr, L)
    /\ Passes(Scaling, x, tr, L + 2) /\ Passes(Scoring, x, tr, L + 4)
    /\ Passes(Doubling, x, tr, L + 6) /\ Passes(severity_bands, x, tr, L + 7)
    /\ Passes(Rating, x, tr, L + 28) /\ Passes(Suppressing, x, tr, L + 29)
    /\ Passes(Routing, x, tr, L + 33)

LEMMA StandardPassed ==
    ASSUME Inv, TraceInv, NEW terms \in Seq(WeightedTerm), terms # <<>>,
           Completed(standard_alert_policy(terms))
    PROVE  LET L == Len(weighted_sum(terms))
           IN  \E tr : /\ StandardPasses(terms, vm.inputs, tr, L)
                       /\ \A i \in 1..(L + 37) : tr[i] \in Datum
                       /\ tr[1].stack = <<>> /\ tr[L + 37] = Data(vm)
<1> DEFINE sum == weighted_sum(terms)
           avg == Averaging(terms)
           scale == Scaling
           score == Scoring
           dup == Doubling
           bands == severity_bands
           sev == Rating
           supp == Suppressing
           route == Routing
           L == Len(sum)
<1>1. /\ sum \in Seq(Body) /\ Len(sum) = L /\ L \in Nat /\ avg \in Seq(Body) /\ Len(avg) = 2
      /\ scale \in Seq(Body) /\ Len(scale) = 2 /\ score \in Seq(Body) /\ Len(score) = 2
      /\ dup \in Seq(Body) /\ Len(dup) = 1 /\ bands \in Seq(Body) /\ Len(bands) = 21
      /\ sev \in Seq(Body) /\ Len(sev) = 1 /\ supp \in Seq(Body) /\ Len(supp) = 4
      /\ route \in Seq(Body) /\ Len(route) = 3
  BY StandardPieces
<1> DEFINE x == vm.inputs
           code == (((((((sum \o avg) \o scale) \o score) \o dup) \o bands) \o sev) \o supp) \o route
<1>2. StandardBody(terms) = code /\ Completed(StandardBody(terms))
  BY StandardCompletes DEF StandardFront, StandardBody
<1> HIDE DEF sum, avg, scale, score, dup, bands, sev, supp, route, L, x
<1>3. sum \o avg \in Seq(Body) /\ Len(sum \o avg) = L + 2
  <2>1. sum \o avg \in Seq(Body) /\ Len(sum \o avg) = Len(sum) + Len(avg)
    BY <1>1, JoinTyped
  <2>2. Len(sum) + Len(avg) = L + 2
    BY <1>1
  <2> QED
    BY <2>1, <2>2
<1>4. (sum \o avg) \o scale \in Seq(Body) /\ Len((sum \o avg) \o scale) = L + 4
  <2>1. (sum \o avg) \o scale \in Seq(Body) /\ Len((sum \o avg) \o scale) = Len((sum \o avg)) + Len(scale)
    BY <1>1, <1>3, JoinTyped
  <2>2. Len((sum \o avg)) + Len(scale) = L + 4
    BY <1>1, <1>3
  <2> QED
    BY <2>1, <2>2
<1>5. ((sum \o avg) \o scale) \o score \in Seq(Body) /\ Len(((sum \o avg) \o scale) \o score) = L + 6
  <2>1. ((sum \o avg) \o scale) \o score \in Seq(Body) /\ Len(((sum \o avg) \o scale) \o score) = Len(((sum \o avg) \o scale)) + Len(score)
    BY <1>1, <1>4, JoinTyped
  <2>2. Len(((sum \o avg) \o scale)) + Len(score) = L + 6
    BY <1>1, <1>4
  <2> QED
    BY <2>1, <2>2
<1>6. (((sum \o avg) \o scale) \o score) \o dup \in Seq(Body) /\ Len((((sum \o avg) \o scale) \o score) \o dup) = L + 7
  <2>1. (((sum \o avg) \o scale) \o score) \o dup \in Seq(Body) /\ Len((((sum \o avg) \o scale) \o score) \o dup) = Len((((sum \o avg) \o scale) \o score)) + Len(dup)
    BY <1>1, <1>5, JoinTyped
  <2>2. Len((((sum \o avg) \o scale) \o score)) + Len(dup) = L + 7
    BY <1>1, <1>5
  <2> QED
    BY <2>1, <2>2
<1>7. ((((sum \o avg) \o scale) \o score) \o dup) \o bands \in Seq(Body) /\ Len(((((sum \o avg) \o scale) \o score) \o dup) \o bands) = L + 28
  <2>1. ((((sum \o avg) \o scale) \o score) \o dup) \o bands \in Seq(Body) /\ Len(((((sum \o avg) \o scale) \o score) \o dup) \o bands) = Len(((((sum \o avg) \o scale) \o score) \o dup)) + Len(bands)
    BY <1>1, <1>6, JoinTyped
  <2>2. Len(((((sum \o avg) \o scale) \o score) \o dup)) + Len(bands) = L + 28
    BY <1>1, <1>6
  <2> QED
    BY <2>1, <2>2
<1>8. (((((sum \o avg) \o scale) \o score) \o dup) \o bands) \o sev \in Seq(Body) /\ Len((((((sum \o avg) \o scale) \o score) \o dup) \o bands) \o sev) = L + 29
  <2>1. (((((sum \o avg) \o scale) \o score) \o dup) \o bands) \o sev \in Seq(Body) /\ Len((((((sum \o avg) \o scale) \o score) \o dup) \o bands) \o sev) = Len((((((sum \o avg) \o scale) \o score) \o dup) \o bands)) + Len(sev)
    BY <1>1, <1>7, JoinTyped
  <2>2. Len((((((sum \o avg) \o scale) \o score) \o dup) \o bands)) + Len(sev) = L + 29
    BY <1>1, <1>7
  <2> QED
    BY <2>1, <2>2
<1>9. ((((((sum \o avg) \o scale) \o score) \o dup) \o bands) \o sev) \o supp \in Seq(Body) /\ Len(((((((sum \o avg) \o scale) \o score) \o dup) \o bands) \o sev) \o supp) = L + 33
  <2>1. ((((((sum \o avg) \o scale) \o score) \o dup) \o bands) \o sev) \o supp \in Seq(Body) /\ Len(((((((sum \o avg) \o scale) \o score) \o dup) \o bands) \o sev) \o supp) = Len(((((((sum \o avg) \o scale) \o score) \o dup) \o bands) \o sev)) + Len(supp)
    BY <1>1, <1>8, JoinTyped
  <2>2. Len(((((((sum \o avg) \o scale) \o score) \o dup) \o bands) \o sev)) + Len(supp) = L + 33
    BY <1>1, <1>8
  <2> QED
    BY <2>1, <2>2
<1>10. (((((((sum \o avg) \o scale) \o score) \o dup) \o bands) \o sev) \o supp) \o route \in Seq(Body) /\ Len((((((((sum \o avg) \o scale) \o score) \o dup) \o bands) \o sev) \o supp) \o route) = L + 36
  <2>1. (((((((sum \o avg) \o scale) \o score) \o dup) \o bands) \o sev) \o supp) \o route \in Seq(Body) /\ Len((((((((sum \o avg) \o scale) \o score) \o dup) \o bands) \o sev) \o supp) \o route) = Len((((((((sum \o avg) \o scale) \o score) \o dup) \o bands) \o sev) \o supp)) + Len(route)
    BY <1>1, <1>9, JoinTyped
  <2>2. Len((((((((sum \o avg) \o scale) \o score) \o dup) \o bands) \o sev) \o supp)) + Len(route) = L + 36
    BY <1>1, <1>9
  <2> QED
    BY <2>1, <2>2
<1>11. PICK tr : /\ Passes(code, x, tr, 0) /\ \A i \in 1..(L + 37) : tr[i] \in Datum
                 /\ tr[1].stack = <<>> /\ tr[L + 37] = Data(vm)
  <2>1. code \in Seq(Body) /\ Len(code) = L + 36
    BY <1>10
  <2> HIDE DEF code
  <2>2. \E tr : /\ Passes(code, x, tr, 0)
                /\ \A i \in 1..(Len(code) + 1) : tr[i] \in Datum
                /\ tr[1].stack = <<>>
                /\ tr[Len(code) + 1] = Data(vm)
    BY <1>2, <2>1, CompletedPasses DEF x
  <2>3. Len(code) + 1 = L + 37
    BY <1>1, <2>1
  <2> QED
    BY <2>2, <2>3
<1>12. Passes(((((((sum \o avg) \o scale) \o score) \o dup) \o bands) \o sev) \o supp, x, tr, 0) /\ Passes(route, x, tr, L + 33)
  <2>1. Passes(((((((sum \o avg) \o scale) \o score) \o dup) \o bands) \o sev) \o supp, x, tr, 0) /\ Passes(route, x, tr, 0 + Len((((((((sum \o avg) \o scale) \o score) \o dup) \o bands) \o sev) \o supp)))
    BY <1>1, <1>9, <1>11, PassesBoth
  <2>2. 0 + Len((((((((sum \o avg) \o scale) \o score) \o dup) \o bands) \o sev) \o supp)) = L + 33
    BY <1>1, <1>9
  <2> QED
    BY <2>1, <2>2
<1>13. Passes((((((sum \o avg) \o scale) \o score) \o dup) \o bands) \o sev, x, tr, 0) /\ Passes(supp, x, tr, L + 29)
  <2>1. Passes((((((sum \o avg) \o scale) \o score) \o dup) \o bands) \o sev, x, tr, 0) /\ Passes(supp, x, tr, 0 + Len(((((((sum \o avg) \o scale) \o score) \o dup) \o bands) \o sev)))
    BY <1>1, <1>8, <1>12, PassesBoth
  <2>2. 0 + Len(((((((sum \o avg) \o scale) \o score) \o dup) \o bands) \o sev)) = L + 29
    BY <1>1, <1>8
  <2> QED
    BY <2>1, <2>2
<1>14. Passes(((((sum \o avg) \o scale) \o score) \o dup) \o bands, x, tr, 0) /\ Passes(sev, x, tr, L + 28)
  <2>1. Passes(((((sum \o avg) \o scale) \o score) \o dup) \o bands, x, tr, 0) /\ Passes(sev, x, tr, 0 + Len((((((sum \o avg) \o scale) \o score) \o dup) \o bands)))
    BY <1>1, <1>7, <1>13, PassesBoth
  <2>2. 0 + Len((((((sum \o avg) \o scale) \o score) \o dup) \o bands)) = L + 28
    BY <1>1, <1>7
  <2> QED
    BY <2>1, <2>2
<1>15. Passes((((sum \o avg) \o scale) \o score) \o dup, x, tr, 0) /\ Passes(bands, x, tr, L + 7)
  <2>1. Passes((((sum \o avg) \o scale) \o score) \o dup, x, tr, 0) /\ Passes(bands, x, tr, 0 + Len(((((sum \o avg) \o scale) \o score) \o dup)))
    BY <1>1, <1>6, <1>14, PassesBoth
  <2>2. 0 + Len(((((sum \o avg) \o scale) \o score) \o dup)) = L + 7
    BY <1>1, <1>6
  <2> QED
    BY <2>1, <2>2
<1>16. Passes(((sum \o avg) \o scale) \o score, x, tr, 0) /\ Passes(dup, x, tr, L + 6)
  <2>1. Passes(((sum \o avg) \o scale) \o score, x, tr, 0) /\ Passes(dup, x, tr, 0 + Len((((sum \o avg) \o scale) \o score)))
    BY <1>1, <1>5, <1>15, PassesBoth
  <2>2. 0 + Len((((sum \o avg) \o scale) \o score)) = L + 6
    BY <1>1, <1>5
  <2> QED
    BY <2>1, <2>2
<1>17. Passes((sum \o avg) \o scale, x, tr, 0) /\ Passes(score, x, tr, L + 4)
  <2>1. Passes((sum \o avg) \o scale, x, tr, 0) /\ Passes(score, x, tr, 0 + Len(((sum \o avg) \o scale)))
    BY <1>1, <1>4, <1>16, PassesBoth
  <2>2. 0 + Len(((sum \o avg) \o scale)) = L + 4
    BY <1>1, <1>4
  <2> QED
    BY <2>1, <2>2
<1>18. Passes(sum \o avg, x, tr, 0) /\ Passes(scale, x, tr, L + 2)
  <2>1. Passes(sum \o avg, x, tr, 0) /\ Passes(scale, x, tr, 0 + Len((sum \o avg)))
    BY <1>1, <1>3, <1>17, PassesBoth
  <2>2. 0 + Len((sum \o avg)) = L + 2
    BY <1>1, <1>3
  <2> QED
    BY <2>1, <2>2
<1>19. Passes(sum, x, tr, 0) /\ Passes(avg, x, tr, L)
  <2>1. Passes(sum, x, tr, 0) /\ Passes(avg, x, tr, 0 + Len(sum))
    BY <1>1, <1>18, PassesBoth
  <2>2. 0 + Len(sum) = L
    BY <1>1
  <2> QED
    BY <2>1, <2>2
<1>20. StandardPasses(terms, x, tr, L)
  BY <1>19, <1>18, <1>17, <1>16, <1>15, <1>14, <1>13, <1>12
     DEF StandardPasses, sum, avg, scale, score, dup, bands, sev, supp, route
<1> QED
  BY <1>11, <1>20 DEF sum, L, x

\* The value of the policy: the weighted average of the inputs, scaled.
LEMMA StandardValue ==
    ASSUME NEW terms \in Seq(WeightedTerm), terms # <<>>, NEW tr, NEW L \in Nat,
           L = Len(weighted_sum(terms)), StandardPasses(terms, vm.inputs, tr, L),
           NEW none \in Seq(Int), tr[1].stack = none
    PROVE  Leaves(ScaledAverages(terms), none, tr[1], tr[L + 5])
<1> DEFINE x == vm.inputs
           total == TotalWeight(terms)
           m1 == tr[1]
           m2 == tr[L + 1]
           m3 == tr[L + 2]
           m4 == tr[L + 3]
           m5 == tr[L + 4]
           m6 == tr[L + 5]
<1>0. ASSUME NEW base \in Nat, Passes(weighted_sum(terms), vm.inputs, tr, base),
             NEW s \in Seq(Int), tr[base + 1].stack = s
      PROVE  Leaves(WeightedSums(terms), s, tr[base + 1],
                    tr[base + Len(weighted_sum(terms)) + 1])
  BY <1>0, WeightedSumDoes
<1>1. total \in Int /\ ScoreScale \in Int
  BY TotalTyped, PolicyAssumption
<1>2. Leaves(WeightedSums(terms), none, m1, m2)
  <2>1. 0 \in Nat /\ 0 + 1 = 1 /\ 0 + L + 1 = L + 1
    OBVIOUS
  <2>2. Passes(weighted_sum(terms), vm.inputs, tr, 0) /\ tr[0 + 1].stack = none
    BY <2>1 DEF StandardPasses
  <2>3. Leaves(WeightedSums(terms), none, tr[0 + 1], tr[0 + Len(weighted_sum(terms)) + 1])
    BY <1>0, <2>1, <2>2, Zenon
  <2>4. tr[0 + 1] = m1 /\ tr[0 + Len(weighted_sum(terms)) + 1] = m2
    BY <2>1
  <2> QED
    BY <2>3, <2>4, Zenon
<1>3. /\ Does(Const(total), x, m2, m3) /\ Does(Plain("DIV"), x, m3, m4)
      /\ Does(Const(ScoreScale), x, m4, m5) /\ Does(Plain("MUL"), x, m5, m6)
  <2>1. /\ Averaging(terms) = <<Const(total), Plain("DIV")>>
        /\ Scaling = <<Const(ScoreScale), Plain("MUL")>>
    BY DEF Averaging, Scaling
  <2>2. Passes(Averaging(terms), x, tr, L) /\ Passes(Scaling, x, tr, L + 2)
    BY DEF StandardPasses
  <2> DEFINE p == Averaging(terms)
             q == Scaling
  <2>3. /\ Len(p) = 2 /\ p[1] = Const(total) /\ p[2] = Plain("DIV")
        /\ Len(q) = 2 /\ q[1] = Const(ScoreScale) /\ q[2] = Plain("MUL")
    BY <2>1
  <2> HIDE DEF p, q
  <2>4. /\ L + 1 + 1 = L + 2 /\ L + 2 + 1 = L + 3 /\ L + 2 + 1 + 1 = L + 4
        /\ L + 2 + 2 = L + 4 /\ L + 2 + 2 + 1 = L + 5
    OBVIOUS
  <2>5. \A i \in 1..2 : Does(p[i], x, tr[L + i], tr[L + i + 1])
    BY <2>2, <2>3 DEF Passes, p
  <2>6. \A i \in 1..2 : Does(q[i], x, tr[L + 2 + i], tr[L + 2 + i + 1])
    BY <2>2, <2>3 DEF Passes, q
  <2> HIDE DEF x, total
  <2>7. Does(p[1], x, m2, m3) /\ Does(p[2], x, m3, m4)
    BY <2>4, <2>5
  <2>8. Does(q[1], x, m4, m5) /\ Does(q[2], x, m5, m6)
    BY <2>4, <2>6
  <2> QED
    BY <2>3, <2>7, <2>8
<1> HIDE DEF m1, m2, m3, m4, m5, m6, x, total
<1>4. PICK sum \in WeightedSums(terms) :
        sum \in Int /\ m2.stack = Append(none, sum) /\ Kept(m1, m2)
  BY <1>2 DEF Leaves
<1>5. total # 0 /\ \E r \in Around(2 * sum, total) :
                     r \in Int /\ m4.stack = Append(none, r) /\ Kept(m2, m4)
  <2>1. "DIV" \in BinaryOps /\ "DIV" \notin CompareOps
    BY DEF BinaryOps, CompareOps
  <2>2. Binary("DIV", sum, total) = IF total = 0 THEN {} ELSE Around(2 * sum, total)
    BY <2>1, Zenon DEF Binary
  <2>3. sum \in Int /\ m2.stack = Append(none, sum)
    BY <1>4
  <2>4. /\ Kept(m2, m4)
        /\ \E r \in Binary("DIV", sum, total) : r \in Int /\ m4.stack = Append(none, r)
    BY <1>3, <2>1, <2>3, DoesWithConst
  <2> QED
    BY <2>2, <2>4
<1>6. PICK average \in Around(2 * sum, total) :
        average \in Int /\ m4.stack = Append(none, average) /\ Kept(m2, m4)
  BY <1>5
<1>7. \E r \in Around(average * ScoreScale, 2) :
        r \in Int /\ m6.stack = Append(none, r) /\ Kept(m4, m6)
  <2>1. "MUL" \in BinaryOps /\ "MUL" \notin CompareOps
    BY DEF BinaryOps, CompareOps
  <2>2. Binary("MUL", average, ScoreScale) = Around(average * ScoreScale, 2)
    BY <2>1, Zenon DEF Binary
  <2>3. average \in Int /\ m4.stack = Append(none, average)
    BY <1>6
  <2>4. /\ Kept(m4, m6)
        /\ \E r \in Binary("MUL", average, ScoreScale) : r \in Int /\ m6.stack = Append(none, r)
    BY <1>3, <2>1, <2>3, DoesWithConst, SMTT(30)
  <2> QED
    BY <2>2, <2>4
<1>8. PICK value \in Around(average * ScoreScale, 2) :
        value \in Int /\ m6.stack = Append(none, value) /\ Kept(m4, m6)
  BY <1>7
<1>9. value \in ScaledAverages(terms)
  <2> DEFINE inner == UNION {Around(a * ScoreScale, 2) : a \in Around(2 * sum, total)}
  <2>1. value \in inner
    BY <1>6, <1>8, Zenon
  <2>2. inner \in {UNION {Around(a * ScoreScale, 2) : a \in Around(2 * u, total)} :
                     u \in WeightedSums(terms)}
    BY <1>4, Zenon
  <2> HIDE DEF inner
  <2> QED
    BY <2>1, <2>2, Zenon DEF ScaledAverages, total
<1>10. Kept(m1, m6)
  BY <1>4, <1>6, <1>8 DEF Kept
<1>11. value \in Int /\ m6.stack = Append(none, value)
  BY <1>8
<1>12. Leaves(ScaledAverages(terms), none, m1, m6)
  BY <1>9, <1>10, <1>11 DEF Leaves
<1> QED
  BY <1>12 DEF m1, m6

\* What the policy makes of that value: the four outputs, and nothing on the stack.
LEMMA StandardStores ==
    ASSUME NEW terms, NEW x, NEW tr, NEW L \in Nat, StandardPasses(terms, x, tr, L),
           \A i \in 1..(L + 37) : tr[i] \in Datum,
           NEW none \in Seq(Int), NEW v \in Int, tr[L + 5].stack = Append(none, v)
    PROVE  LET m == tr[L + 37]
           IN  /\ m.stack = none
               /\ m.out.alert_score = Clamped(Round(v), 0, 100)
               /\ m.out.severity_code = SeverityOf(v)
               /\ m.out.suppressed = 1 <=> v < SuppressBelow
               /\ m.out.routing_code = Clamped(DefaultRoute, 0, 255)
<1> DEFINE one == Append(none, v)
           n1 == tr[L + 5]
           n2 == tr[L + 6]
           n3 == tr[L + 7]
           n4 == tr[L + 8]
           n5 == tr[L + 29]
           n6 == tr[L + 30]
           n7 == tr[L + 31]
           n8 == tr[L + 32]
           n9 == tr[L + 33]
           n10 == tr[L + 34]
           n11 == tr[L + 35]
           n12 == tr[L + 36]
           n13 == tr[L + 37]
           route == 2 * DefaultRoute
           rating == 2 * SeverityOf(v)
           Outs == [alert_score : 0..100, severity_code : 0..9,
                    routing_code : 0..255, suppressed : 0..1]
<1>0. ASSUME NEW base \in Nat, Passes(severity_bands, x, tr, base),
             NEW s \in Seq(Int), tr[base + 1].stack = Append(s, v)
      PROVE  /\ tr[base + 22].stack = Append(s, 2 * SeverityOf(v))
             /\ Kept(tr[base + 1], tr[base + 22])
  BY <1>0, BandsDo
<1>0a. ASSUME NEW d, NEW e, NEW h, Does(Const(SuppressBelow), x, d, e),
              Does(Plain("LT"), x, e, h), NEW s \in Seq(Int), d.stack = Append(s, v)
       PROVE  Leaves(Binary("LT", v, SuppressBelow), s, d, h)
  <2>1. "LT" \in BinaryOps
    BY DEF BinaryOps, CompareOps
  <2> QED
    BY <1>0a, <2>1, LeavesWithConst
<1>1. one \in Seq(Int) /\ SuppressBelow \in Int /\ route \in Int /\ rating \in Int
  BY PolicyAssumption, AppendProperties, SeverityTyped
<1>2. /\ n2.out \in Outs /\ n5.out \in Outs /\ n9.out \in Outs /\ n12.out \in Outs
  <2>1. /\ L + 6 \in 1..(L + 37) /\ L + 29 \in 1..(L + 37) /\ L + 33 \in 1..(L + 37)
        /\ L + 36 \in 1..(L + 37)
    OBVIOUS
  <2>2. n2 \in Datum /\ n5 \in Datum /\ n9 \in Datum /\ n12 \in Datum
    BY <2>1
  <2> HIDE DEF n2, n5, n9, n12
  <2> QED
    BY <2>2 DEF Datum
<1>3. /\ Does(Plain("DUP"), x, n1, n2) /\ Does(Plain("STORE_SCORE"), x, n2, n3)
      /\ Does(Plain("DUP"), x, n3, n4) /\ Does(Plain("STORE_SEVERITY"), x, n5, n6)
  <2>1. /\ Len(Scoring) = 2 /\ Scoring[1] = Plain("DUP") /\ Scoring[2] = Plain("STORE_SCORE")
        /\ Len(Doubling) = 1 /\ Doubling[1] = Plain("DUP")
        /\ Len(Rating) = 1 /\ Rating[1] = Plain("STORE_SEVERITY")
    BY DEF Scoring, Doubling, Rating
  <2>2. /\ L + 4 + 1 = L + 5 /\ L + 4 + 1 + 1 = L + 6 /\ L + 4 + 2 = L + 6
        /\ L + 4 + 2 + 1 = L + 7 /\ L + 6 + 1 = L + 7 /\ L + 6 + 1 + 1 = L + 8
        /\ L + 28 + 1 = L + 29 /\ L + 28 + 1 + 1 = L + 30
    OBVIOUS
  <2>3. Passes(Scoring, x, tr, L + 4) /\ Passes(Doubling, x, tr, L + 6)
        /\ Passes(Rating, x, tr, L + 28)
    BY DEF StandardPasses
  <2>4. /\ \A i \in 1..2 : Does(Scoring[i], x, tr[L + 4 + i], tr[L + 4 + i + 1])
        /\ Does(Doubling[1], x, tr[L + 6 + 1], tr[L + 6 + 1 + 1])
        /\ Does(Rating[1], x, tr[L + 28 + 1], tr[L + 28 + 1 + 1])
    BY <2>1, <2>3 DEF Passes
  <2>5. /\ Does(Scoring[1], x, n1, n2) /\ Does(Scoring[2], x, n2, n3)
        /\ Does(Doubling[1], x, n3, n4) /\ Does(Rating[1], x, n5, n6)
    BY <2>2, <2>4
  <2> QED
    BY <2>1, <2>5
<1>4. /\ Does(Plain("DUP"), x, n6, n7) /\ Does(Const(SuppressBelow), x, n7, n8)
      /\ Does(Plain("LT"), x, n8, n9) /\ Does(Plain("STORE_SUPPRESS"), x, n9, n10)
  <2> DEFINE p == Suppressing
  <2>1. /\ Len(p) = 4 /\ p[1] = Plain("DUP") /\ p[2] = Const(SuppressBelow)
        /\ p[3] = Plain("LT") /\ p[4] = Plain("STORE_SUPPRESS")
    BY DEF Suppressing
  <2>2. /\ L + 29 + 1 = L + 30 /\ L + 29 + 1 + 1 = L + 31 /\ L + 29 + 2 = L + 31
        /\ L + 29 + 2 + 1 = L + 32 /\ L + 29 + 3 = L + 32 /\ L + 29 + 3 + 1 = L + 33
        /\ L + 29 + 4 = L + 33 /\ L + 29 + 4 + 1 = L + 34
    OBVIOUS
  <2>3. Passes(p, x, tr, L + 29)
    BY DEF StandardPasses
  <2> HIDE DEF p
  <2>4. \A i \in 1..4 : Does(p[i], x, tr[L + 29 + i], tr[L + 29 + i + 1])
    BY <2>1, <2>3 DEF Passes
  <2>5. /\ Does(p[1], x, n6, n7) /\ Does(p[2], x, n7, n8)
        /\ Does(p[3], x, n8, n9) /\ Does(p[4], x, n9, n10)
    BY <2>2, <2>4
  <2> QED
    BY <2>1, <2>5
<1>5. /\ Does(Plain("DROP"), x, n10, n11) /\ Does(Const(route), x, n11, n12)
      /\ Does(Plain("STORE_ROUTE"), x, n12, n13)
  <2> DEFINE p == Routing
  <2>1. /\ Len(p) = 3 /\ p[1] = Plain("DROP") /\ p[2] = Const(route)
        /\ p[3] = Plain("STORE_ROUTE")
    BY DEF Routing
  <2>2. /\ L + 33 + 1 = L + 34 /\ L + 33 + 1 + 1 = L + 35 /\ L + 33 + 2 = L + 35
        /\ L + 33 + 2 + 1 = L + 36 /\ L + 33 + 3 = L + 36 /\ L + 33 + 3 + 1 = L + 37
    OBVIOUS
  <2>3. Passes(p, x, tr, L + 33)
    BY DEF StandardPasses
  <2> HIDE DEF p
  <2>4. \A i \in 1..3 : Does(p[i], x, tr[L + 33 + i], tr[L + 33 + i + 1])
    BY <2>1, <2>3 DEF Passes
  <2>5. Does(p[1], x, n10, n11) /\ Does(p[2], x, n11, n12) /\ Does(p[3], x, n12, n13)
    BY <2>2, <2>4
  <2> QED
    BY <2>1, <2>5
<1>6. n4.stack = Append(one, v) => n5.stack = Append(one, rating) /\ Kept(n4, n5)
  <2> SUFFICES ASSUME n4.stack = Append(one, v)
               PROVE  n5.stack = Append(one, rating) /\ Kept(n4, n5)
    OBVIOUS
  <2>1. L + 7 + 1 = L + 8 /\ L + 7 + 22 = L + 29 /\ L + 7 \in Nat
    OBVIOUS
  <2>2. Passes(severity_bands, x, tr, L + 7) /\ tr[L + 7 + 1].stack = Append(one, v)
    BY <2>1 DEF StandardPasses
  <2> HIDE DEF one
  <2>3. /\ tr[L + 7 + 22].stack = Append(one, 2 * SeverityOf(v))
        /\ Kept(tr[L + 7 + 1], tr[L + 7 + 22])
    BY <1>0, <1>1, <2>1, <2>2, Zenon
  <2> QED
    BY <2>1, <2>3
<1>7. n1.stack = one
  OBVIOUS
<1> HIDE DEF n1, n2, n3, n4, n5, n6, n7, n8, n9, n10, n11, n12, n13, route, rating, Outs
<1>8. /\ "STORE_SCORE" \in StoreOps /\ "STORE_SEVERITY" \in StoreOps
      /\ "STORE_SUPPRESS" \in StoreOps /\ "STORE_ROUTE" \in StoreOps
      /\ OUTPUT_STORE_OPS["STORE_SCORE"] = "alert_score"
      /\ OUTPUT_STORE_OPS["STORE_SEVERITY"] = "severity_code"
      /\ OUTPUT_STORE_OPS["STORE_SUPPRESS"] = "suppressed"
      /\ OUTPUT_STORE_OPS["STORE_ROUTE"] = "routing_code"
  BY DEF StoreOps, OUTPUT_STORE_OPS
<1>9. n2.stack = Append(one, v)
  <2>1. n1.stack = Append(none, v)
    BY <1>7
  <2>2. n2.stack = Push2(none, v, v)
    BY <1>3, <2>1, DoesDup
  <2> QED
    BY <2>2 DEF Push2
<1> HIDE DEF one
<1>10. n3.stack = one /\ n3.out = [n2.out EXCEPT !["alert_score"] = Stored("alert_score", v)]
  <2>1. /\ n3.stack = one
        /\ n3.out = [n2.out EXCEPT ![OUTPUT_STORE_OPS["STORE_SCORE"]] =
                       Stored(OUTPUT_STORE_OPS["STORE_SCORE"], v)]
    BY <1>1, <1>3, <1>8, <1>9, DoesOutput, SMTT(30)
  <2> QED
    BY <1>8, <2>1
<1>11. n4.stack = Append(one, v) /\ Kept(n3, n4)
  <2>1. n3.stack = Append(none, v)
    BY <1>10 DEF one
  <2>2. n4.stack = Push2(none, v, v) /\ Kept(n3, n4)
    BY <1>3, <2>1, DoesDup
  <2> QED
    BY <2>2 DEF Push2, one
<1>12. n5.stack = Append(one, rating) /\ Kept(n4, n5)
  BY <1>6, <1>11
<1>13. n6.stack = one /\ n6.out = [n5.out EXCEPT !["severity_code"] = Stored("severity_code", rating)]
  <2>1. /\ n6.stack = one
        /\ n6.out = [n5.out EXCEPT ![OUTPUT_STORE_OPS["STORE_SEVERITY"]] =
                       Stored(OUTPUT_STORE_OPS["STORE_SEVERITY"], rating)]
    BY <1>1, <1>3, <1>8, <1>12, DoesOutput
  <2> QED
    BY <1>8, <2>1
<1>14. n7.stack = Append(one, v) /\ Kept(n6, n7)
  <2>1. n6.stack = Append(none, v)
    BY <1>13 DEF one
  <2>2. n7.stack = Push2(none, v, v) /\ Kept(n6, n7)
    BY <1>4, <2>1, DoesDup
  <2> QED
    BY <2>2 DEF Push2, one
<1> DEFINE low == Bool(v < SuppressBelow)
<1>15. n9.stack = Append(one, low) /\ low \in Int /\ Kept(n7, n9)
  <2>1. "LT" \in BinaryOps /\ "LT" \in CompareOps
    BY DEF BinaryOps, CompareOps
  <2>2. Binary("LT", v, SuppressBelow) = {low}
    <3>1. Binary("LT", v, SuppressBelow) = {Bool(Compare("LT", v, SuppressBelow))}
      BY <2>1, Zenon DEF Binary
    <3>2. Compare("LT", v, SuppressBelow) = (v < SuppressBelow)
      BY DEF Compare
    <3> QED
      BY <3>1, <3>2, Zenon
  <2> HIDE DEF low
  <2>3. Leaves(Binary("LT", v, SuppressBelow), one, n7, n9)
    BY <1>0a, <1>1, <1>4, <1>14, Zenon
  <2> QED
    BY <2>2, <2>3 DEF Leaves
<1> HIDE DEF low
<1>16. n10.stack = one /\ n10.out = [n9.out EXCEPT !["suppressed"] = Stored("suppressed", low)]
  <2>1. /\ n10.stack = one
        /\ n10.out = [n9.out EXCEPT ![OUTPUT_STORE_OPS["STORE_SUPPRESS"]] =
                        Stored(OUTPUT_STORE_OPS["STORE_SUPPRESS"], low)]
    BY <1>1, <1>4, <1>8, <1>15, DoesOutput, SMTT(30)
  <2> QED
    BY <1>8, <2>1
<1>17. n11.stack = none /\ Kept(n10, n11)
  <2>1. n10.stack = Append(none, v)
    BY <1>16 DEF one
  <2> QED
    BY <1>5, <2>1, DoesDrop
<1>18. n12.stack = Append(none, route) /\ Kept(n11, n12)
  <2>1. n12.stack = Append(n11.stack, route) /\ Kept(n11, n12)
    BY <1>5, DoesConst
  <2> QED
    BY <1>17, <2>1
<1>19. n13.stack = none /\ n13.out = [n12.out EXCEPT !["routing_code"] = Stored("routing_code", route)]
  <2>1. /\ n13.stack = none
        /\ n13.out = [n12.out EXCEPT ![OUTPUT_STORE_OPS["STORE_ROUTE"]] =
                        Stored(OUTPUT_STORE_OPS["STORE_ROUTE"], route)]
    BY <1>1, <1>5, <1>8, <1>18, DoesOutput
  <2> QED
    BY <1>8, <2>1
<1>20. n5.out = n3.out /\ n9.out = n6.out /\ n12.out = n10.out
  BY <1>11, <1>12, <1>14, <1>15, <1>17, <1>18 DEF Kept
<1>21. /\ n13.out.alert_score = Stored("alert_score", v)
       /\ n13.out.severity_code = Stored("severity_code", rating)
       /\ n13.out.suppressed = Stored("suppressed", low)
       /\ n13.out.routing_code = Stored("routing_code", route)
  <2>1. n3.out.alert_score = Stored("alert_score", v)
    BY <1>2, <1>10 DEF Outs
  <2>2. /\ n6.out.alert_score = n5.out.alert_score
        /\ n6.out.severity_code = Stored("severity_code", rating)
    BY <1>2, <1>13 DEF Outs
  <2>3. /\ n10.out.alert_score = n9.out.alert_score
        /\ n10.out.severity_code = n9.out.severity_code
        /\ n10.out.suppressed = Stored("suppressed", low)
    BY <1>2, <1>16 DEF Outs
  <2>4. /\ n13.out.alert_score = n12.out.alert_score
        /\ n13.out.severity_code = n12.out.severity_code
        /\ n13.out.suppressed = n12.out.suppressed
        /\ n13.out.routing_code = Stored("routing_code", route)
    BY <1>2, <1>19 DEF Outs
  <2> QED
    BY <1>20, <2>1, <2>2, <2>3, <2>4
<1>22. Stored("alert_score", v) = Clamped(Round(v), 0, 100)
  BY DEF Stored
<1>23. Stored("severity_code", rating) = SeverityOf(v)
  BY SeverityTyped DEF rating
<1>24. Stored("suppressed", low) = 1 <=> v < SuppressBelow
  BY DEF Stored, low, Bool
<1>25. Stored("routing_code", route) = Clamped(DefaultRoute, 0, 255)
  BY PolicyAssumption, StoresWhole DEF route
<1> QED
  BY <1>19, <1>21, <1>22, <1>23, <1>24, <1>25 DEF n13

\* The four outputs of a standard policy come from the one value.
LEMMA StandardIsOneValue ==
    ASSUME Inv, TraceInv, NEW terms \in Seq(WeightedTerm), terms # <<>>,
           Completed(standard_alert_policy(terms))
    PROVE  \E value \in ScaledAverages(terms) :
             /\ vm.out.alert_score = Clamped(Round(value), 0, 100)
             /\ vm.out.severity_code = SeverityOf(value)
             /\ vm.out.suppressed = 1 <=> value < SuppressBelow
             /\ vm.out.routing_code = Clamped(DefaultRoute, 0, 255)
             /\ vm.stack = <<>>
<1> DEFINE L == Len(weighted_sum(terms))
           none == <<>>
<1>1. PICK tr : /\ StandardPasses(terms, vm.inputs, tr, L)
                /\ \A i \in 1..(L + 37) : tr[i] \in Datum
                /\ tr[1].stack = none /\ tr[L + 37] = Data(vm)
  BY StandardPassed
<1>2. L \in Nat /\ none \in Seq(Int)
  BY StandardPieces, EmptySeq
<1>3. L = Len(weighted_sum(terms))
  OBVIOUS
<1> HIDE DEF L, none
<1>4. Leaves(ScaledAverages(terms), none, tr[1], tr[L + 5])
  BY <1>1, <1>2, <1>3, StandardValue
<1>5. PICK value \in ScaledAverages(terms) :
        value \in Int /\ tr[L + 5].stack = Append(none, value)
  BY <1>4 DEF Leaves
<1> DEFINE m == tr[L + 37]
<1>6. /\ m.stack = none
      /\ m.out.alert_score = Clamped(Round(value), 0, 100)
      /\ m.out.severity_code = SeverityOf(value)
      /\ m.out.suppressed = 1 <=> value < SuppressBelow
      /\ m.out.routing_code = Clamped(DefaultRoute, 0, 255)
  BY <1>1, <1>2, <1>5, StandardStores
<1>7. vm.stack = m.stack /\ vm.out = m.out
  BY <1>1 DEF Data
<1> QED
  <2>1. /\ vm.out.alert_score = Clamped(Round(value), 0, 100)
        /\ vm.out.severity_code = SeverityOf(value)
        /\ (vm.out.suppressed = 1 <=> value < SuppressBelow)
        /\ vm.out.routing_code = Clamped(DefaultRoute, 0, 255)
        /\ vm.stack = <<>>
    BY <1>6, <1>7 DEF none
  <2> QED
    BY <1>5, <2>1

----------------------------------------------------------------------------
(* The theorems *)

\* What the proofs about the programs rest on: the invariant of Velato, and a
\* trace of the run.
PInv == Inv /\ TraceInv

LEMMA InitPInv == Init => PInv
<1> SUFFICES ASSUME Init PROVE PInv
  OBVIOUS
<1>1. Inv
  BY InitInv
<1>2. phase \notin {"running", "done"}
  BY DEF Init
<1> QED
  BY <1>1, <1>2 DEF PInv, TraceInv

LEMMA NextPInv == PInv /\ [Next]_vars => PInv'
<1> SUFFICES ASSUME PInv, [Next]_vars PROVE PInv'
  OBVIOUS
<1>1. Inv /\ TraceInv
  BY DEF PInv
<1>2. Inv'
  BY <1>1, NextInv
<1>3. TraceInv'
  BY <1>1, TraceStep
<1> QED
  BY <1>2, <1>3 DEF PInv

\* The macros of standard_library.py mean what their names say, whatever the
\* scores, the conditions and the inputs: severity_bands finds the band of the
\* score and leaves the caller its stack and its local register, joined
\* conditions are the conjunction and the disjunction of their comparisons, and
\* normalize spans its range.
THEOREM MacrosMeanWhatTheySayAlways == Spec => []MacrosMeanWhatTheySay
<1>1. PInv => MacrosMeanWhatTheySay
  <2> SUFFICES ASSUME PInv PROVE MacrosMeanWhatTheySay
    OBVIOUS
  <2>1. Inv /\ TraceInv
    BY DEF PInv
  <2>2. BandsPreserveCaller
    <3> SUFFICES ASSUME NEW score \in Scores, Completed(banded(score))
                 PROVE  /\ vm.out.severity_code = SeverityOf(score)
                        /\ vm.stack = <<Sentinel>>
                        /\ vm.locals[1] = Sentinel
      BY DEF BandsPreserveCaller
    <3>1. score \in Int
      BY PolicyAssumption
    <3> QED
      BY <2>1, <3>1, BandedIsBands
  <2>3. ConditionsMeanWhatTheySay
    <3> SUFFICES ASSUME NEW conditions \in ConditionLists, Completed(conditional(conditions))
                 PROVE  /\ vm.out.suppressed = 1 <=>
                             \A i \in DOMAIN conditions : Holds(conditions[i])
                        /\ vm.out.routing_code =
                             IF \E i \in DOMAIN conditions : Holds(conditions[i]) THEN 7 ELSE 3
                        /\ vm.stack = <<>>
      BY DEF ConditionsMeanWhatTheySay
    <3>1. /\ conditions \in Seq(Condition)
          /\ \A i \in DOMAIN conditions : conditions[i][3] <= conditions[i][4]
      BY PolicyAssumption DEF Condition
    <3>2. DOMAIN conditions = 1..Len(conditions)
      BY <3>1
    <3>3. \A i \in 1..Len(conditions) : conditions[i][3] <= conditions[i][4]
      BY <3>1, <3>2
    <3>4. /\ vm.out.suppressed = 1 <=> Meet("AND", conditions, Len(conditions))
          /\ vm.out.routing_code = IF Meet("OR", conditions, Len(conditions)) THEN 7 ELSE 3
          /\ vm.stack = <<>>
      BY <2>1, <3>1, <3>3, ConditionalIsMet
    <3>5. /\ Meet("AND", conditions, Len(conditions)) <=>
               \A i \in DOMAIN conditions : Holds(conditions[i])
          /\ Meet("OR", conditions, Len(conditions)) <=>
               \E i \in DOMAIN conditions : Holds(conditions[i])
      BY <3>2, Zenon DEF Meet
    <3> QED
      BY <3>4, <3>5
  <2>4. NormalizeSpansTheRange
    <3>1. CASE Completed(ranged)
      BY <2>1, <3>1, RangedIsNormalized
    <3>2. CASE ~Completed(ranged)
      BY <3>2 DEF NormalizeSpansTheRange
    <3> QED
      BY <3>1, <3>2
  <2> QED
    BY <2>2, <2>3, <2>4 DEF MacrosMeanWhatTheySay
<1> QED
  BY <1>1, InitPInv, NextPInv, PTL DEF Spec

\* The four outputs of standard_alert_policy come from the one weighted average,
\* whatever the terms, the scale, the threshold and the route are: the score is
\* that value rounded, severity and suppression compare it unrounded, and nothing
\* is left on the stack.
THEOREM StandardPolicyIsOneValueAlways == Spec => []StandardPolicyIsOneValue
<1>1. PInv => StandardPolicyIsOneValue
  <2> SUFFICES ASSUME PInv, NEW terms \in TermLists, Completed(standard_alert_policy(terms))
               PROVE  \E value \in ScaledAverages(terms) :
                        /\ vm.out.alert_score = Clamped(Round(value), 0, 100)
                        /\ vm.out.severity_code = SeverityOf(value)
                        /\ vm.out.suppressed = 1 <=> value < SuppressBelow
                        /\ vm.out.routing_code = Clamped(DefaultRoute, 0, 255)
                        /\ vm.stack = <<>>
    BY DEF StandardPolicyIsOneValue
  <2>1. Inv /\ TraceInv
    BY DEF PInv
  <2>2. terms \in Seq(WeightedTerm) /\ terms # <<>>
    BY PolicyAssumption DEF WeightedTerm
  <2> QED
    BY <2>1, <2>2, StandardIsOneValue
<1> QED
  BY <1>1, InitPInv, NextPInv, PTL DEF Spec
===============================================================================
