---------------------------- MODULE ExtractionProofs ---------------------------
(***************************************************************************)
(* Proofs about Extraction for every text: the mentions and relations read *)
(* out of it are the right ones.                                           *)
(***************************************************************************)
EXTENDS Extraction, FiniteSetTheorems, SequenceTheorems, WellFoundedInduction, TLAPS

-------------------------------------------------------------------------------
(* Sequences and loops *)

Sequence(s) == s \in Seq(Elements(s))

\* A sequence over any set is one over its elements.
LEMMA SelfTyped ==
    ASSUME NEW S, NEW s \in Seq(S)
    PROVE  /\ Sequence(s) /\ Elements(s) \subseteq S
           /\ Len(s) \in Nat /\ DOMAIN s = 1..Len(s)
<1>1. Len(s) \in Nat /\ DOMAIN s = 1..Len(s) /\ s \in [1..Len(s) -> S]
  BY LenProperties
<1>2. \A i \in 1..Len(s) : s[i] \in Elements(s)
  BY <1>1 DEF Elements
<1>3. s \in [1..Len(s) -> Elements(s)]
  <2> HIDE DEF Elements
  <2> QED
    BY <1>1, <1>2
<1>4. s \in Seq(Elements(s))
  BY <1>1, <1>3, SeqDef
<1>5. Elements(s) \subseteq S
  BY <1>1 DEF Elements
<1> QED
  BY <1>1, <1>4, <1>5 DEF Sequence

\* A function on an initial segment of the naturals is a sequence.
LEMMA FunctionSequence ==
    ASSUME NEW n \in Nat, NEW f, f = [i \in 1..n |-> f[i]]
    PROVE  Sequence(f) /\ Len(f) = n
<1>1. DOMAIN f = 1..n
  OBVIOUS
<1>2. \A i \in 1..n : f[i] \in Elements(f)
  BY <1>1 DEF Elements
<1>3. f \in [1..n -> Elements(f)]
  BY <1>1, <1>2
<1>4. f \in Seq(Elements(f))
  BY <1>3, SeqDef
<1> QED
  BY <1>1, <1>4, LenProperties DEF Sequence

\* A nonempty set of natural numbers has a least one.
LEMMA Least ==
    ASSUME NEW S \in SUBSET Nat, S # {}
    PROVE  \E i \in S : \A j \in S : i <= j
<1> DEFINE Below == {p \in Nat \X Nat : p[1] < p[2]}
<1>1. IsWellFoundedOn(Below, Nat)
  BY NatLessThanWellFounded DEF OpToRel
<1> HIDE DEF Below
<1>2. \E i \in S : \A j \in S : ~ (<<j, i>> \in Below)
  BY <1>1, WFMin
<1>3. \A i, j \in Nat : ~ (<<j, i>> \in Below) => i <= j
  BY DEF Below
<1> QED
  BY <1>2, <1>3

\* A loop of N rounds over states in D, each round G, has a value after every round.
Iterates(f, N, b, G) == f[0] = b /\ \A n \in 1..N : f[n] = G[<<n, f[n - 1]>>]

LEMMA Iterated ==
    ASSUME NEW N \in Nat, NEW D, NEW b \in D, NEW G \in [(1..N) \X D -> D]
    PROVE  \E f \in [0..N -> D] : Iterates(f, N, b, G)
<1> DEFINE Upto(f, k) == /\ f \in [0..k -> D] /\ f[0] = b
                         /\ \A n \in 1..k : f[n] = G[<<n, f[n - 1]>>]
           Bad == {k \in 0..N : ~ \E f : Upto(f, k)}
<1> SUFFICES ASSUME Bad # {}
             PROVE  FALSE
  <2>1. N \in 0..N
    OBVIOUS
  <2>2. N \notin Bad => \E f \in [0..N -> D] : Iterates(f, N, b, G)
    BY <2>1 DEF Iterates
  <2> HIDE DEF Bad
  <2> QED
    BY <2>2
<1>1. Bad \subseteq Nat
  OBVIOUS
<1>2. PICK k \in Bad : \A j \in Bad : k <= j
  <2> HIDE DEF Bad
  <2> QED
    BY <1>1, Least
<1>3. k # 0
  <2> DEFINE z == [n \in 0..0 |-> b]
  <2>1. Upto(z, 0)
    OBVIOUS
  <2>2. 0 \notin Bad
    BY <2>1
  <2> QED
    BY <1>2, <2>2
<1>4. k \in 0..N /\ k - 1 \in 0..N /\ k - 1 \notin Bad
  <2>1. k \in 0..N
    BY <1>2
  <2>2. k - 1 \in 0..N
    BY <1>3, <2>1
  <2>3. k - 1 \notin Bad
    <3>1. ~ (k <= k - 1)
      BY <2>1
    <3> HIDE DEF Bad
    <3> QED
      BY <1>2, <3>1
  <2> QED
    BY <2>1, <2>2, <2>3
<1>5. PICK g : Upto(g, k - 1)
  BY <1>4
<1> DEFINE f == [n \in 0..k |-> IF n = k THEN G[<<k, g[k - 1]>>] ELSE g[n]]
<1>6. f[0] = b /\ f \in [0..k -> D]
  <2>1. g[k - 1] \in D /\ k \in 1..N
    BY <1>3, <1>4, <1>5
  <2>2. G[<<k, g[k - 1]>>] \in D
    BY <2>1
  <2>3. \A n \in 0..k : n = k \/ n \in 0..(k - 1)
    BY <1>4
  <2>4. f \in [0..k -> D]
    BY <1>5, <2>2, <2>3
  <2>5. f[0] = g[0]
    BY <1>3, <1>4
  <2> QED
    BY <1>5, <2>4, <2>5
<1>7. \A n \in 1..k : f[n] = G[<<n, f[n - 1]>>]
  <2> TAKE n \in 1..k
  <2>1. n - 1 \in 0..k /\ n - 1 # k /\ f[n - 1] = g[n - 1]
    BY <1>4
  <2>2. CASE n = k
    BY <2>1, <2>2
  <2>3. CASE n # k
    <3>1. n \in 1..(k - 1) /\ f[n] = g[n]
      BY <1>4, <2>3
    <3> QED
      BY <1>5, <2>1, <3>1
  <2> QED
    BY <2>2, <2>3
<1>8. Upto(f, k)
  BY <1>6, <1>7
<1> QED
  BY <1>2, <1>8

\* Picked is well defined: the sequence it takes its last element from exists.
LEMMA PickedDefined ==
    ASSUME NEW T, NEW seq \in Seq(T), NEW I
    PROVE  \E f : /\ f = [n \in 0..Len(seq) |->
                            IF n = 0 THEN <<>>
                            ELSE IF n \in I THEN Append(f[n - 1], seq[n]) ELSE f[n - 1]]
                  /\ Picked(seq, I) = f[Len(seq)]
<1> DEFINE N == Len(seq)
           Is(f) == f = [n \in 0..N |->
                           IF n = 0 THEN <<>>
                           ELSE IF n \in I THEN Append(f[n - 1], seq[n]) ELSE f[n - 1]]
           G == [p \in (1..N) \X Seq(T) |->
                   IF p[1] \in I THEN Append(p[2], seq[p[1]]) ELSE p[2]]
<1>1. N \in Nat /\ \A n \in 1..N : seq[n] \in T
  BY LenProperties, ElementOfSeq
<1>2. G \in [(1..N) \X Seq(T) -> Seq(T)]
  <2>1. \A n \in 1..N, s \in Seq(T) : Append(s, seq[n]) \in Seq(T)
    BY <1>1, AppendProperties
  <2> HIDE DEF N
  <2> QED
    BY <2>1
<1>3. <<>> \in Seq(T)
  BY EmptySeq
<1> HIDE DEF G
<1>4. PICK f \in [0..N -> Seq(T)] : f[0] = <<>> /\ \A n \in 1..N : f[n] = G[<<n, f[n - 1]>>]
  <2> DEFINE D == Seq(T)
             none == <<>>
  <2>1. N \in Nat /\ none \in D /\ G \in [(1..N) \X D -> D]
    BY <1>1, <1>2, <1>3
  <2> HIDE DEF Is, N, D, none
  <2>2. \E f \in [0..N -> D] : Iterates(f, N, none, G)
    BY <2>1, Iterated
  <2> QED
    BY <2>2 DEF D, none, Iterates
<1>5. \A n \in 1..N : f[n] = IF n \in I THEN Append(f[n - 1], seq[n]) ELSE f[n - 1]
  <2> TAKE n \in 1..N
  <2>1. f[n - 1] \in Seq(T)
    <3>1. n - 1 \in 0..N
      BY <1>1
    <3> QED
      BY <3>1
  <2> QED
    BY <1>4, <2>1 DEF G
<1>6. Is(f)
  <2>1. \A n \in 0..N : n # 0 => n \in 1..N
    BY <1>1
  <2>2. \A n \in 0..N : f[n] = IF n = 0 THEN <<>>
                               ELSE IF n \in I THEN Append(f[n - 1], seq[n]) ELSE f[n - 1]
    BY <1>4, <1>5, <2>1
  <2> HIDE DEF N
  <2> QED
    BY <2>2
<1> DEFINE first == CHOOSE h : Is(h)
<1>7. Is(first)
  BY <1>6
<1>8. Picked(seq, I) = first[N]
  BY DEF Picked
<1> QED
  BY <1>7, <1>8

\* The elements of out are those of seq at the positions I up to n, in order: p gives
\* the position each comes from.
Follows(p, seq, I, n, out) ==
    /\ p \in [1..Len(out) -> I \cap (1..n)]
    /\ \A k \in 1..Len(out) : out[k] = seq[p[k]]
    /\ \A j, k \in 1..Len(out) : j < k => p[j] < p[k]
    /\ \A i \in I \cap (1..n) : \E k \in 1..Len(out) : p[k] = i

\* A filtering loop leaves the elements at its positions, in order.
LEMMA PickedPositions ==
    ASSUME NEW T, NEW seq \in Seq(T), NEW I
    PROVE  /\ Picked(seq, I) \in Seq(T)
           /\ \E p : Follows(p, seq, I, Len(seq), Picked(seq, I))
<1> DEFINE N == Len(seq)
<1>0. N \in Nat /\ \A n \in 1..N : seq[n] \in T
  BY LenProperties, ElementOfSeq
<1>1. PICK f : /\ f = [n \in 0..N |->
                            IF n = 0 THEN <<>>
                            ELSE IF n \in I THEN Append(f[n - 1], seq[n]) ELSE f[n - 1]]
               /\ Picked(seq, I) = f[N]
  BY PickedDefined
<1>2. f[0] = <<>>
  BY <1>0, <1>1
<1>3. \A n \in 1..N : f[n] = IF n \in I THEN Append(f[n - 1], seq[n]) ELSE f[n - 1]
  <2> TAKE n \in 1..N
  <2>1. n \in 0..N /\ n # 0
    BY <1>0
  <2> QED
    BY <1>1, <2>1
<1> HIDE DEF N
<1> DEFINE Good(n) == f[n] \in Seq(T) /\ \E p : Follows(p, seq, I, n, f[n])
<1>4. Good(0)
  <2> DEFINE p == [k \in 1..0 |-> 0]
  <2>1. Len(f[0]) = 0 /\ f[0] \in Seq(T)
    BY <1>2, EmptySeq
  <2>2. Follows(p, seq, I, 0, f[0])
    BY <2>1 DEF Follows
  <2> QED
    BY <2>1, <2>2
<1>5. ASSUME NEW n \in 1..N, Good(n - 1)
      PROVE  Good(n)
  <2>1. f[n - 1] \in Seq(T) /\ Len(f[n - 1]) \in Nat /\ n - 1 \in Nat /\ n \in Nat
    BY <1>0, <1>5, LenProperties
  <2>2. PICK p : Follows(p, seq, I, n - 1, f[n - 1])
    BY <1>5
  <2>3. CASE n \notin I
    <3>1. f[n] = f[n - 1] /\ I \cap (1..n) = I \cap (1..(n - 1))
      BY <1>3, <2>1, <2>3
    <3>2. Follows(p, seq, I, n, f[n])
      BY <2>2, <3>1 DEF Follows
    <3> QED
      BY <2>1, <3>1, <3>2
  <2>4. CASE n \in I
    <3> DEFINE m == Len(f[n - 1])
               r == [k \in 1..(m + 1) |-> IF k = m + 1 THEN n ELSE p[k]]
    <3>1. m \in Nat /\ f[n] = Append(f[n - 1], seq[n]) /\ seq[n] \in T
      BY <1>0, <1>3, <2>1, <2>4
    <3>2. /\ f[n] \in Seq(T) /\ Len(f[n]) = m + 1 /\ f[n][m + 1] = seq[n]
          /\ \A k \in 1..m : f[n][k] = f[n - 1][k]
      BY <2>1, <3>1, AppendProperties
    <3> HIDE DEF m
    <3>3. /\ p \in [1..m -> I \cap (1..(n - 1))]
          /\ \A k \in 1..m : f[n - 1][k] = seq[p[k]]
          /\ \A j, k \in 1..m : j < k => p[j] < p[k]
          /\ \A i \in I \cap (1..(n - 1)) : \E k \in 1..m : p[k] = i
      BY <2>2 DEF Follows, m
    <3>4. /\ r[m + 1] = n /\ m + 1 \in 1..(m + 1)
          /\ \A k \in 1..(m + 1) : k = m + 1 \/ (k \in 1..m /\ r[k] = p[k])
          /\ \A k \in 1..m : k \in 1..(m + 1) /\ r[k] = p[k]
      BY <3>1
    <3>5. r \in [1..(m + 1) -> I \cap (1..n)]
      <4>1. \A k \in 1..(m + 1) : r[k] \in I \cap (1..n)
        <5> TAKE k \in 1..(m + 1)
        <5>1. CASE k = m + 1
          BY <2>1, <2>4, <3>4, <5>1
        <5>2. CASE k \in 1..m /\ r[k] = p[k]
          <6>1. p[k] \in I \cap (1..(n - 1))
            BY <3>3, <5>2
          <6> QED
            BY <2>1, <5>2, <6>1
        <5> QED
          BY <3>4, <5>1, <5>2
      <4>2. r = [k \in 1..(m + 1) |-> r[k]]
        OBVIOUS
      <4> HIDE DEF r
      <4> QED
        BY <4>1, <4>2
    <3> HIDE DEF r
    <3>6. \A k \in 1..(m + 1) : f[n][k] = seq[r[k]]
      BY <3>2, <3>3, <3>4
    <3>7. \A j, k \in 1..(m + 1) : j < k => r[j] < r[k]
      <4> SUFFICES ASSUME NEW j \in 1..(m + 1), NEW k \in 1..(m + 1), j < k
                   PROVE  r[j] < r[k]
        OBVIOUS
      <4>1. j \in 1..m /\ r[j] = p[j] /\ p[j] \in 1..(n - 1)
        BY <3>1, <3>3, <3>4
      <4>2. CASE k = m + 1
        BY <2>1, <3>4, <4>1, <4>2
      <4>3. CASE k \in 1..m /\ r[k] = p[k]
        BY <3>3, <4>1, <4>3
      <4> QED
        BY <3>4, <4>2, <4>3
    <3>8. \A i \in I \cap (1..n) : \E k \in 1..(m + 1) : r[k] = i
      <4> TAKE i \in I \cap (1..n)
      <4>1. CASE i = n
        BY <3>4, <4>1
      <4>2. CASE i # n
        <5>1. i \in I \cap (1..(n - 1))
          BY <2>1, <4>2
        <5> QED
          BY <3>3, <3>4, <5>1
      <4> QED
        BY <4>1, <4>2
    <3>9. Follows(r, seq, I, n, f[n])
      BY <3>2, <3>5, <3>6, <3>7, <3>8 DEF Follows
    <3> QED
      BY <3>2, <3>9
  <2> QED
    BY <2>3, <2>4
<1> HIDE DEF Good
<1>6. Good(N)
  <2> DEFINE Bad == {n \in 0..N : ~ Good(n)}
  <2>1. Bad \subseteq Nat
    BY <1>0
  <2>2. ASSUME NEW n \in Bad, \A j \in Bad : n <= j
        PROVE  FALSE
    <3>1. n # 0 /\ n \in 1..N /\ n - 1 \in 0..N
      BY <1>0, <1>4, <2>2
    <3>2. Good(n - 1)
      BY <1>0, <2>2, <3>1
    <3> QED
      BY <1>5, <3>1, <3>2
  <2>3. Bad = {}
    <3> HIDE DEF Bad
    <3> QED
      BY <2>1, <2>2, Least
  <2> QED
    BY <1>0, <2>3
<1> QED
  BY <1>1, <1>6 DEF Good, N

\* So Picked yields a sequence of exactly the elements at the given positions.
LEMMA PickedTyped ==
    ASSUME NEW T, NEW seq \in Seq(T), NEW I
    PROVE  /\ Picked(seq, I) \in Seq({seq[i] : i \in I \cap (1..Len(seq))})
           /\ Elements(Picked(seq, I)) = {seq[i] : i \in I \cap (1..Len(seq))}
<1> DEFINE out == Picked(seq, I)
           E == {seq[i] : i \in I \cap (1..Len(seq))}
<1>1. out \in Seq(T)
  BY PickedPositions
<1>2. PICK p : Follows(p, seq, I, Len(seq), out)
  BY PickedPositions
<1> HIDE DEF out
<1>3. Len(out) \in Nat /\ DOMAIN out = 1..Len(out) /\ out = [k \in 1..Len(out) |-> out[k]]
  BY <1>1, LenProperties
<1>4. \A k \in 1..Len(out) : out[k] \in E
  BY <1>2 DEF Follows
<1>5. \A e \in E : \E k \in 1..Len(out) : out[k] = e
  BY <1>2 DEF Follows
<1> HIDE DEF E
<1>6. out \in Seq(E)
  <2>1. out \in [1..Len(out) -> E]
    BY <1>3, <1>4
  <2> QED
    BY <1>3, <2>1, SeqDef
<1>7. Elements(out) = E
  BY <1>3, <1>4, <1>5 DEF Elements
<1> QED
  BY <1>6, <1>7 DEF out, E

\* A filtering loop leaves a sequence of elements of the one it goes through.
LEMMA PickedSequence ==
    ASSUME NEW s, Sequence(s), NEW I
    PROVE  Sequence(Picked(s, I)) /\ Elements(Picked(s, I)) \subseteq Elements(s)
<1>1. /\ Picked(s, I) \in Seq({s[i] : i \in I \cap (1..Len(s))})
      /\ Elements(Picked(s, I)) = {s[i] : i \in I \cap (1..Len(s))}
  BY PickedTyped DEF Sequence
<1>2. DOMAIN s = 1..Len(s)
  BY SelfTyped DEF Sequence
<1>3. {s[i] : i \in I \cap (1..Len(s))} \subseteq Elements(s)
  BY <1>2 DEF Elements
<1> QED
  BY <1>1, <1>3, SelfTyped

-------------------------------------------------------------------------------
(* Sorting *)

\* The elements before c in a strict order.
Below(S, Less, c) == {b \in S : <<b, c>> \in Less}

\* In a finite strict order every element has a rank of its own, below the number of
\* elements, and the lower rank comes first.
StrictOrder(S, Less) ==
    /\ \A c \in S : <<c, c>> \notin Less
    /\ \A a, b, c \in S : <<a, b>> \in Less /\ <<b, c>> \in Less => <<a, c>> \in Less
    /\ \A b, c \in S : b = c \/ <<b, c>> \in Less \/ <<c, b>> \in Less

LEMMA Ranked ==
    ASSUME NEW S, IsFiniteSet(S), NEW Less, StrictOrder(S, Less)
    PROVE  /\ Cardinality(S) \in Nat
           /\ \A c \in S : Cardinality(Below(S, Less, c)) \in 0..(Cardinality(S) - 1)
           /\ \A b, c \in S :
                Cardinality(Below(S, Less, b)) < Cardinality(Below(S, Less, c)) =>
                  <<b, c>> \in Less
           /\ \A b, c \in S :
                Cardinality(Below(S, Less, b)) = Cardinality(Below(S, Less, c)) => b = c
           /\ \A i \in 1..Cardinality(S) : \E c \in S : Cardinality(Below(S, Less, c)) = i - 1
<1> DEFINE n == Cardinality(S)
           rank == [c \in S |-> Cardinality(Below(S, Less, c))]
<1>1. n \in Nat
  BY FS_CardinalityType
<1>2. ASSUME NEW c \in S
      PROVE  IsFiniteSet(Below(S, Less, c)) /\ Cardinality(Below(S, Less, c)) \in 0..(n - 1)
  <2>1. Below(S, Less, c) \in SUBSET S /\ c \notin Below(S, Less, c)
    BY DEF Below, StrictOrder
  <2>2. /\ IsFiniteSet(Below(S, Less, c)) /\ Cardinality(Below(S, Less, c)) <= n
        /\ Cardinality(Below(S, Less, c)) # n
    BY <2>1, FS_Subset
  <2>3. Cardinality(Below(S, Less, c)) \in Nat
    BY <2>2, FS_CardinalityType
  <2> HIDE DEF n
  <2> QED
    BY <1>1, <2>2, <2>3
<1>3. ASSUME NEW b \in S, NEW c \in S, <<b, c>> \in Less
      PROVE  Cardinality(Below(S, Less, b)) < Cardinality(Below(S, Less, c))
  <2>1. /\ Below(S, Less, b) \in SUBSET Below(S, Less, c)
        /\ b \in Below(S, Less, c) /\ b \notin Below(S, Less, b)
    BY <1>3 DEF Below, StrictOrder
  <2>2. /\ IsFiniteSet(Below(S, Less, b)) /\ Cardinality(Below(S, Less, b)) \in 0..(n - 1)
        /\ IsFiniteSet(Below(S, Less, c)) /\ Cardinality(Below(S, Less, c)) \in 0..(n - 1)
    BY <1>2
  <2>3. /\ Cardinality(Below(S, Less, b)) <= Cardinality(Below(S, Less, c))
        /\ Cardinality(Below(S, Less, b)) # Cardinality(Below(S, Less, c))
    BY <2>1, <2>2, FS_Subset
  <2> HIDE DEF n
  <2> QED
    BY <1>1, <2>2, <2>3
<1>4. \A b, c \in S : rank[b] < rank[c] => <<b, c>> \in Less
  <2> SUFFICES ASSUME NEW b \in S, NEW c \in S, rank[b] < rank[c]
               PROVE  <<b, c>> \in Less
    OBVIOUS
  <2>1. rank[b] \in 0..(n - 1) /\ rank[c] \in 0..(n - 1)
    BY <1>2
  <2>2. <<c, b>> \in Less => rank[c] < rank[b]
    BY <1>3
  <2> HIDE DEF n, rank
  <2> QED
    BY <1>1, <2>1, <2>2 DEF StrictOrder
<1>5. \A b, c \in S : rank[b] = rank[c] => b = c
  <2> SUFFICES ASSUME NEW b \in S, NEW c \in S, rank[b] = rank[c]
               PROVE  b = c
    OBVIOUS
  <2>1. rank[b] \in 0..(n - 1) /\ rank[c] \in 0..(n - 1)
    BY <1>2
  <2>2. /\ <<c, b>> \in Less => rank[c] < rank[b]
        /\ <<b, c>> \in Less => rank[b] < rank[c]
    BY <1>3
  <2> HIDE DEF n, rank
  <2> QED
    BY <1>1, <2>1, <2>2 DEF StrictOrder
<1>6. rank \in Injection(S, 0..(n - 1))
  <2>1. rank \in [S -> 0..(n - 1)]
    BY <1>2
  <2> HIDE DEF rank
  <2> QED
    BY <1>5, <2>1 DEF Injection, IsInjective
<1>7. rank \in Surjection(S, 0..(n - 1))
  <2>1. IsFiniteSet(0..(n - 1)) /\ Cardinality(0..(n - 1)) = n
    <3> HIDE DEF n
    <3> QED
      BY <1>1, FS_Interval
  <2> HIDE DEF rank
  <2> QED
    BY <1>6, <2>1, FS_Injection
<1>8. \A i \in 1..n : \E c \in S : rank[c] = i - 1
  <2> TAKE i \in 1..n
  <2>1. i - 1 \in 0..(n - 1)
    <3> HIDE DEF n
    <3> QED
      BY <1>1
  <2> HIDE DEF rank, n
  <2> QED
    BY <1>7, <2>1 DEF Surjection
<1>9. \A c \in S : rank[c] = Cardinality(Below(S, Less, c))
  OBVIOUS
<1> HIDE DEF rank
<1> QED
  BY <1>1, <1>2, <1>4, <1>5, <1>8, <1>9

\* A sequence of a set's elements in a strict order.
Sorted(f, S, Less) ==
    /\ Sequence(f) /\ Elements(f) = S
    /\ \A i, j \in 1..Len(f) : i < j => <<f[i], f[j]>> \in Less

Ranks(S, n, rank, Less) ==
    /\ \A c \in S : rank[c] \in 0..(n - 1)
    /\ \A b, c \in S : rank[b] < rank[c] => <<b, c>> \in Less
    /\ \A b, c \in S : rank[b] = rank[c] => b = c

Places(S, n, rank, f) == \A i \in 1..n : f[i] \in S /\ rank[f[i]] = i - 1

Lists(f, n, S, Less) ==
    /\ \A i, j \in 1..n : i < j => <<f[i], f[j]>> \in Less
    /\ \A c \in S : \E i \in 1..n : f[i] = c

LEMMA Placed ==
    ASSUME NEW S, NEW n \in Nat, NEW rank, NEW Less, NEW f,
           Ranks(S, n, rank, Less), Places(S, n, rank, f)
    PROVE  Lists(f, n, S, Less)
<1>1. \A i, j \in 1..n : i < j => rank[f[i]] < rank[f[j]]
  BY DEF Places
<1>2. ASSUME NEW c \in S
      PROVE  \E i \in 1..n : f[i] = c
  <2>1. rank[c] + 1 \in 1..n
    BY DEF Ranks
  <2>2. f[rank[c] + 1] \in S /\ rank[f[rank[c] + 1]] = rank[c]
    BY <2>1 DEF Ranks, Places
  <2> QED
    BY <2>1, <2>2 DEF Ranks
<1> QED
  BY <1>1, <1>2 DEF Ranks, Places, Lists

\* A sequence that has at each place the element of that rank is sorted.
LEMMA RankSorted ==
    ASSUME NEW S, IsFiniteSet(S), NEW Less, StrictOrder(S, Less),
           NEW f \in [1..Cardinality(S) -> S],
           \A i \in 1..Cardinality(S) : Cardinality(Below(S, Less, f[i])) = i - 1
    PROVE  Sorted(f, S, Less) /\ Len(f) = Cardinality(S)
<1> DEFINE n == Cardinality(S)
           rank == [c \in S |-> Cardinality(Below(S, Less, c))]
<1>1. n \in Nat
  BY FS_CardinalityType
<1>2. Ranks(S, n, rank, Less)
  BY Ranked DEF Ranks
<1>3. f \in [1..n -> S] /\ Places(S, n, rank, f)
  BY DEF Places
<1> HIDE DEF n, rank
<1>4. Sequence(f) /\ Len(f) = n /\ DOMAIN f = 1..n
  <2>1. f \in Seq(S) /\ Len(f) = n
    BY <1>1, <1>3, SeqDef, LenProperties
  <2> QED
    BY <1>3, <2>1, SelfTyped
<1>5. Lists(f, n, S, Less)
  BY <1>1, <1>2, <1>3, Placed
<1>6. Elements(f) = S
  BY <1>3, <1>4, <1>5 DEF Elements, Lists
<1>7. Sorted(f, S, Less)
  BY <1>4, <1>5, <1>6 DEF Sorted, Lists
<1> QED
  BY <1>4, <1>7 DEF n

\* The order of the candidates of a text, and that of its sentences.
CandidateOrder(S) == {p \in S \X S : Before(p[1], p[2])}
SentenceOrder(S) == {p \in S \X S : p[1].start < p[2].start}

LEMMA ConfidencesDiffer ==
    /\ \A t \in EntityType : Confidence[t] \in Nat
    /\ \A t, u \in EntityType : Confidence[t] = Confidence[u] => t = u
<1>1. \A t \in EntityType : \/ t = "Company" /\ Confidence[t] = 94
                            \/ t = "GovernmentAgency" /\ Confidence[t] = 93
                            \/ t = "Organization" /\ Confidence[t] = 91
                            \/ t = "Location" /\ Confidence[t] = 97
                            \/ t = "Person" /\ Confidence[t] = 83
  BY DEF EntityType, Confidence
<1> QED
  BY <1>1

\* The sort key orders the candidates of a text strictly and totally.
LEMMA CandidatesOrdered ==
    ASSUME NEW text, TextOK(text)
    PROVE  /\ StrictOrder(text.candidates, CandidateOrder(text.candidates))
           /\ \A c \in text.candidates :
                Below(text.candidates, CandidateOrder(text.candidates), c) =
                  {b \in text.candidates : Before(b, c)}
<1> DEFINE S == text.candidates
           L == CandidateOrder(S)
<1>1. /\ \A c \in S : c.type \in EntityType /\ c.start \in Nat /\ c.end \in Nat
      /\ \A b, c \in S : b.type = c.type /\ b.start = c.start => b = c
      /\ \A c \in S : Confidence[c.type] \in Nat
      /\ \A b, c \in S : Confidence[b.type] = Confidence[c.type] => b.type = c.type
  BY ConfidencesDiffer DEF TextOK
<1>2. \A a, b \in S : (<<a, b>> \in L) <=> Before(a, b)
  BY DEF CandidateOrder
<1> HIDE DEF S, L
<1>3. \A c \in S : ~ Before(c, c)
  BY <1>1 DEF Before
<1>4. \A a, b, c \in S : Before(a, b) /\ Before(b, c) => Before(a, c)
  BY <1>1 DEF Before
<1>5. \A b, c \in S : b = c \/ Before(b, c) \/ Before(c, b)
  BY <1>1 DEF Before
<1>6. StrictOrder(S, L)
  BY <1>2, <1>3, <1>4, <1>5 DEF StrictOrder
<1>7. \A c \in S : Below(S, L, c) = {b \in S : Before(b, c)}
  BY <1>2 DEF Below
<1> QED
  BY <1>6, <1>7 DEF S, L

\* InOrder sorts them.
LEMMA CandidatesSorted ==
    ASSUME NEW text, TextOK(text)
    PROVE  Sorted(InOrder(text.candidates), text.candidates, CandidateOrder(text.candidates))
<1> DEFINE S == text.candidates
           L == CandidateOrder(S)
           n == Cardinality(S)
           f == InOrder(S)
<1>1. IsFiniteSet(S) /\ StrictOrder(S, L)
  BY CandidatesOrdered DEF TextOK
<1>2. \A c \in S : Below(S, L, c) = {b \in S : Before(b, c)}
  BY CandidatesOrdered
<1>3. f = [i \in 1..n |-> CHOOSE c \in S : Cardinality({b \in S : Before(b, c)}) = i - 1]
  BY DEF InOrder
<1> HIDE DEF S, L, n, f
<1>4. \A i \in 1..n : \E c \in S : Cardinality(Below(S, L, c)) = i - 1
  BY <1>1, Ranked DEF n
<1>5. ASSUME NEW i \in 1..n
      PROVE  f[i] \in S /\ Cardinality(Below(S, L, f[i])) = i - 1
  <2>1. \E c \in S : Cardinality({b \in S : Before(b, c)}) = i - 1
    BY <1>2, <1>4
  <2>2. f[i] \in S /\ Cardinality({b \in S : Before(b, f[i])}) = i - 1
    BY <1>3, <2>1
  <2> QED
    BY <1>2, <2>2
<1>6. f \in [1..n -> S]
  BY <1>3, <1>5
<1>7. Sorted(f, S, L)
  BY <1>1, <1>5, <1>6, RankSorted DEF n
<1> QED
  BY <1>7 DEF S, L, f

\* The sentences of a text are numbered in the order they start in.
LEMMA SentencesSorted ==
    ASSUME NEW text, TextOK(text)
    PROVE  Sorted(Sentences(text), text.sentences, SentenceOrder(text.sentences))
<1> DEFINE S == text.sentences
           L == SentenceOrder(S)
           n == Cardinality(S)
           f == Sentences(text)
<1>1. /\ IsFiniteSet(S) /\ \A s \in S : s.start \in Nat
      /\ \A r, s \in S : r.start = s.start => r = s
  BY DEF TextOK
<1>2. \A a, b \in S : (<<a, b>> \in L) <=> a.start < b.start
  BY DEF SentenceOrder
<1>3. f = [i \in 1..n |-> CHOOSE s \in S : Cardinality({r \in S : r.start < s.start}) = i - 1]
  BY DEF Sentences
<1> HIDE DEF S, L, n, f
<1>4. StrictOrder(S, L)
  BY <1>1, <1>2 DEF StrictOrder
<1>5. \A c \in S : Below(S, L, c) = {r \in S : r.start < c.start}
  BY <1>2 DEF Below
<1>6. \A i \in 1..n : \E c \in S : Cardinality(Below(S, L, c)) = i - 1
  BY <1>1, <1>4, Ranked DEF n
<1>7. ASSUME NEW i \in 1..n
      PROVE  f[i] \in S /\ Cardinality(Below(S, L, f[i])) = i - 1
  <2>1. \E s \in S : Cardinality({r \in S : r.start < s.start}) = i - 1
    BY <1>5, <1>6
  <2>2. f[i] \in S /\ Cardinality({r \in S : r.start < f[i].start}) = i - 1
    BY <1>3, <2>1
  <2> QED
    BY <1>5, <2>2
<1>8. f \in [1..n -> S]
  BY <1>3, <1>7
<1>9. Sorted(f, S, L)
  BY <1>1, <1>4, <1>7, <1>8, RankSorted DEF n
<1> QED
  BY <1>9 DEF S, L, f

-------------------------------------------------------------------------------
(* The mentions of a text *)

\* The loop of extract_mentions has a value after every candidate.
LEMMA AcceptedDefined ==
    ASSUME NEW text, NEW T, InOrder(text.candidates) \in Seq(T)
    PROVE  LET spans == InOrder(text.candidates)
           IN  \E f : /\ f \in [0..Len(spans) -> SUBSET (1..Len(spans))]
                      /\ f[0] = {}
                      /\ \A n \in 1..Len(spans) :
                           f[n] = IF \E i \in f[n - 1] : Overlap(spans[n], spans[i])
                                  THEN f[n - 1] ELSE f[n - 1] \cup {n}
                      /\ extract_mentions(text) = Picked(spans, f[Len(spans)])
<1> DEFINE spans == InOrder(text.candidates)
           N == Len(spans)
           Is(f) == f = [n \in 0..N |->
                           IF n = 0 THEN {}
                           ELSE LET before == f[n - 1]
                                IN  IF \E i \in before : Overlap(spans[n], spans[i])
                                    THEN before ELSE before \cup {n}]
           D == SUBSET (1..N)
           G == [p \in (1..N) \X D |->
                   IF \E i \in p[2] : Overlap(spans[p[1]], spans[i])
                   THEN p[2] ELSE p[2] \cup {p[1]}]
           accepted == CHOOSE f : Is(f)
<1>1. extract_mentions(text) = Picked(spans, accepted[N])
  BY DEF extract_mentions
<1>2. N \in Nat
  BY LenProperties
<1> HIDE DEF spans, N
<1>3. {} \in D /\ G \in [(1..N) \X D -> D]
  OBVIOUS
<1>4. \A n \in 1..N, B \in D :
        G[<<n, B>>] = IF \E i \in B : Overlap(spans[n], spans[i]) THEN B ELSE B \cup {n}
  OBVIOUS
<1>5. PICK f \in [0..N -> D] : f[0] = {} /\ \A n \in 1..N : f[n] = G[<<n, f[n - 1]>>]
  <2> DEFINE none == {}
  <2>1. none \in D
    BY <1>3
  <2> HIDE DEF D, G, none, Is
  <2>2. \E f \in [0..N -> D] : Iterates(f, N, none, G)
    BY <1>2, <1>3, <2>1, Iterated
  <2> QED
    BY <2>2 DEF none, Iterates
<1>6. \A n \in 0..N : n = 0 \/ (n \in 1..N /\ n - 1 \in 0..N)
  BY <1>2
<1> HIDE DEF G
<1>7. \A n \in 1..N : f[n] = IF \E i \in f[n - 1] : Overlap(spans[n], spans[i])
                             THEN f[n - 1] ELSE f[n - 1] \cup {n}
  <2> TAKE n \in 1..N
  <2>1. n - 1 \in 0..N
    BY <1>2
  <2>2. f[n - 1] \in D
    BY <2>1
  <2> HIDE DEF D
  <2> QED
    BY <1>4, <1>5, <2>2
<1>8. Is(f)
  <2>1. \A n \in 0..N :
          f[n] = IF n = 0 THEN {}
                 ELSE IF \E i \in f[n - 1] : Overlap(spans[n], spans[i])
                      THEN f[n - 1] ELSE f[n - 1] \cup {n}
    BY <1>2, <1>5, <1>6, <1>7
  <2> QED
    BY <2>1
<1>9. Is(accepted)
  BY <1>8
<1> HIDE DEF accepted
<1>10. accepted[0] = {}
  BY <1>2, <1>9
<1>11. \A n \in 1..N : accepted[n] = IF \E i \in accepted[n - 1] : Overlap(spans[n], spans[i])
                                     THEN accepted[n - 1] ELSE accepted[n - 1] \cup {n}
  <2> TAKE n \in 1..N
  <2>1. n \in 0..N /\ n # 0
    BY <1>2
  <2> HIDE DEF D
  <2> QED
    BY <1>9, <2>1
<1>12. accepted \in [0..N -> D]
  <2>1. DOMAIN accepted = 0..N /\ accepted = [n \in 0..N |-> accepted[n]]
    BY <1>9
  <2>2. ASSUME NEW n \in 1..N, accepted[n - 1] \in D
        PROVE  accepted[n] \in D
    <3>1. accepted[n] = accepted[n - 1] \/ accepted[n] = accepted[n - 1] \cup {n}
      BY <1>11, Zenon
    <3>2. accepted[n - 1] \subseteq 1..N
      BY <2>2
    <3>3. accepted[n] \subseteq 1..N
      BY <3>1, <3>2
    <3> QED
      BY <3>3
  <2> DEFINE Bad == {n \in 0..N : accepted[n] \notin D}
  <2>3. Bad \subseteq Nat
    BY <1>2
  <2>4. ASSUME NEW n \in Bad, \A j \in Bad : n <= j
        PROVE  FALSE
    <3>1. n # 0
      BY <1>3, <1>10
    <3>2. n \in 1..N /\ n - 1 \in 0..N /\ ~ (n <= n - 1)
      BY <1>2, <3>1
    <3>3. accepted[n - 1] \in D
      BY <2>4, <3>2
    <3> QED
      BY <2>2, <3>2, <3>3
  <2>5. Bad = {}
    <3> HIDE DEF Bad, D
    <3> QED
      BY <2>3, <2>4, Least
  <2>6. \A n \in 0..N : accepted[n] \in D
    BY <2>5
  <2> HIDE DEF D
  <2> QED
    BY <2>1, <2>6
<1> QED
  BY <1>1, <1>10, <1>11, <1>12 DEF spans, N

\* A holds the positions up to n that the loop keeps: they do not overlap, and each
\* other position overlaps a lower one that is kept.
Keeps(spans, A, n) ==
    /\ A \subseteq 1..n
    /\ \A i, j \in A : Overlap(spans[i], spans[j]) => i = j
    /\ \A k \in 1..n : k \in A \/ \E i \in A : i < k /\ Overlap(spans[k], spans[i])

\* One round of the loop: a candidate is kept unless it overlaps one that is.
LEMMA KeepsStep ==
    ASSUME NEW n \in Nat, n # 0, NEW spans, NEW A, Keeps(spans, A, n - 1), NEW B,
           \A i \in 1..n : /\ spans[i].start \in Nat /\ spans[i].end \in Nat
                           /\ spans[i].start < spans[i].end,
           B = IF \E i \in A : Overlap(spans[n], spans[i]) THEN A ELSE A \cup {n}
    PROVE  Keeps(spans, B, n)
<1>1. A \subseteq 1..n /\ n \in 1..n /\ \A i \in A : i < n
  BY DEF Keeps
<1>2. \A i, j \in 1..n : Overlap(spans[i], spans[j]) <=> Overlap(spans[j], spans[i])
  BY DEF Overlap
<1>3. B \subseteq 1..n
  BY <1>1
<1>4. \A i, j \in B : Overlap(spans[i], spans[j]) => i = j
  BY <1>1, <1>2 DEF Keeps
<1>5. \A k \in 1..n : k \in B \/ \E i \in B : i < k /\ Overlap(spans[k], spans[i])
  <2> TAKE k \in 1..n
  <2>1. CASE k = n
    BY <1>1, <2>1
  <2>2. CASE k # n
    <3>1. k \in 1..(n - 1)
      BY <2>2
    <3> QED
      BY <3>1 DEF Keeps
  <2> QED
    BY <2>1, <2>2
<1> QED
  BY <1>3, <1>4, <1>5 DEF Keeps

\* extract_mentions picks from the sorted candidates those the loop keeps.
LEMMA Accepted ==
    ASSUME NEW text, TextOK(text)
    PROVE  \E A : /\ Keeps(InOrder(text.candidates), A, Len(InOrder(text.candidates)))
                  /\ extract_mentions(text) = Picked(InOrder(text.candidates), A)
<1> DEFINE spans == InOrder(text.candidates)
           N == Len(spans)
<1>1. Sorted(spans, text.candidates, CandidateOrder(text.candidates))
  BY CandidatesSorted
<1>2. spans \in Seq(text.candidates)
  BY <1>1 DEF Sorted, Sequence
<1>3. PICK f : /\ f[0] = {}
               /\ \A n \in 1..N :
                    f[n] = IF \E i \in f[n - 1] : Overlap(spans[n], spans[i])
                           THEN f[n - 1] ELSE f[n - 1] \cup {n}
               /\ extract_mentions(text) = Picked(spans, f[N])
  BY <1>2, AcceptedDefined
<1> HIDE DEF spans
<1>4. N \in Nat /\ \A i \in 1..N : spans[i] \in text.candidates
  BY <1>2, LenProperties, ElementOfSeq
<1>5. \A i \in 1..N : /\ spans[i].start \in Nat /\ spans[i].end \in Nat
                      /\ spans[i].start < spans[i].end
  BY <1>4 DEF TextOK
<1> HIDE DEF N
<1> DEFINE Good(n) == Keeps(spans, f[n], n)
           Bad == {n \in 0..N : ~ Good(n)}
<1>6. Good(0)
  BY <1>3 DEF Keeps
<1>7. ASSUME NEW n \in 1..N, Good(n - 1)
      PROVE  Good(n)
  <2>1. n \in Nat /\ n # 0 /\ \A i \in 1..n : i \in 1..N
    BY <1>4
  <2>2. \A i \in 1..n : /\ spans[i].start \in Nat /\ spans[i].end \in Nat
                        /\ spans[i].start < spans[i].end
    BY <1>5, <2>1
  <2>3. f[n] = IF \E i \in f[n - 1] : Overlap(spans[n], spans[i])
               THEN f[n - 1] ELSE f[n - 1] \cup {n}
    BY <1>3
  <2>4. PICK A, B : A = f[n - 1] /\ B = f[n]
    OBVIOUS
  <2>5. Keeps(spans, B, n)
    BY <1>7, <2>1, <2>2, <2>3, <2>4, KeepsStep
  <2> QED
    BY <2>4, <2>5
<1> HIDE DEF Good
<1>8. Bad \subseteq Nat
  BY <1>4
<1>9. ASSUME NEW n \in Bad, \A j \in Bad : n <= j
      PROVE  FALSE
  <2>1. n # 0 /\ n \in 1..N /\ n - 1 \in 0..N
    BY <1>4, <1>6, <1>9
  <2>2. Good(n - 1)
    BY <1>4, <1>9, <2>1
  <2> QED
    BY <1>7, <2>1, <2>2
<1>10. Bad = {}
  <2> HIDE DEF Bad
  <2> QED
    BY <1>8, <1>9, Least
<1>11. Good(N)
  BY <1>4, <1>10
<1> QED
  BY <1>3, <1>11 DEF Good, N, spans

\* The mentions, in the order the loop keeps them, follow one another.
LEMMA MentionsOrdered ==
    ASSUME NEW text, TextOK(text)
    PROVE  /\ extract_mentions(text) \in Seq(text.candidates)
           /\ \A j, k \in 1..Len(extract_mentions(text)) :
                j < k => extract_mentions(text)[j].end <= extract_mentions(text)[k].start
<1> DEFINE S == text.candidates
           spans == InOrder(S)
           N == Len(spans)
           out == extract_mentions(text)
<1>1. Sorted(spans, S, CandidateOrder(S))
  BY CandidatesSorted
<1>2. spans \in Seq(S) /\ N \in Nat /\ \A i \in 1..N : spans[i] \in S
  BY <1>1, LenProperties, ElementOfSeq DEF Sorted, Sequence
<1>3. \A i, j \in 1..N : i < j => Before(spans[i], spans[j])
  BY <1>1 DEF Sorted, CandidateOrder
<1>4. PICK A : Keeps(spans, A, N) /\ out = Picked(spans, A)
  BY Accepted
<1>5. \A c \in S : c.start \in Nat /\ c.end \in Nat /\ c.start < c.end
  BY DEF TextOK
<1> HIDE DEF S, spans, N, out
<1>6. out \in Seq(S) /\ \E p : Follows(p, spans, A, N, out)
  BY <1>2, <1>4, PickedPositions DEF N
<1>7. PICK p : Follows(p, spans, A, N, out)
  BY <1>6
<1>8. ASSUME NEW j \in 1..Len(out), NEW k \in 1..Len(out), j < k
      PROVE  out[j].end <= out[k].start
  <2>1. /\ p[j] \in A /\ p[k] \in A /\ p[j] \in 1..N /\ p[k] \in 1..N
        /\ p[j] < p[k] /\ out[j] = spans[p[j]] /\ out[k] = spans[p[k]]
    BY <1>7, <1>8 DEF Follows
  <2>2. out[j] \in S /\ out[k] \in S /\ Before(out[j], out[k])
    BY <1>2, <1>3, <2>1
  <2>3. p[j] # p[k]
    BY <1>2, <2>1
  <2>4. ~ Overlap(out[j], out[k])
    BY <1>4, <2>1, <2>3 DEF Keeps
  <2>5. /\ out[j].start \in Nat /\ out[j].end \in Nat /\ out[j].start < out[j].end
        /\ out[k].start \in Nat /\ out[k].end \in Nat /\ out[k].start < out[k].end
    BY <1>5, <2>2
  <2>6. out[j].start <= out[k].start
    BY <2>2, <2>5 DEF Before
  <2> QED
    BY <2>4, <2>5, <2>6 DEF Overlap
<1> QED
  BY <1>6, <1>8 DEF S, out

\* The mentions of every text are right: they do not overlap, and each candidate left
\* out overlaps a mention it loses to (extract_mentions).
THEOREM MentionsAreExact ==
    ASSUME NEW text, TextOK(text)
    PROVE  MentionsExact(text)
<1> DEFINE S == text.candidates
           spans == InOrder(S)
           N == Len(spans)
           out == extract_mentions(text)
<1>1. Sorted(spans, S, CandidateOrder(S))
  BY CandidatesSorted
<1>2. /\ spans \in Seq(S) /\ N \in Nat /\ Elements(spans) = S /\ DOMAIN spans = 1..N
      /\ \A i \in 1..N : spans[i] \in S
  BY <1>1, LenProperties, ElementOfSeq DEF Sorted, Sequence
<1>3. \A i, j \in 1..N : i < j => Before(spans[i], spans[j])
  BY <1>1 DEF Sorted, CandidateOrder
<1>4. PICK A : Keeps(spans, A, N) /\ out = Picked(spans, A)
  BY Accepted
<1>5. \A c \in S : /\ c.start \in Nat /\ c.end \in Nat
                   /\ Confidence[c.type] \in Nat
  BY ConfidencesDiffer DEF TextOK
<1> DEFINE wins(a, b) == \/ a.start < b.start
                         \/ a.start = b.start /\ a.end > b.end
                         \/ /\ a.start = b.start /\ a.end = b.end
                            /\ Confidence[a.type] >= Confidence[b.type]
<1>6. \A a, b \in S : Before(a, b) => wins(a, b)
  BY <1>5 DEF Before
<1> HIDE DEF S, spans, N, out
<1>7. Elements(out) = {spans[i] : i \in A \cap (1..N)}
  BY <1>2, <1>4, PickedTyped DEF N
<1>8. \A m \in Elements(out) : \E i \in A : i \in 1..N /\ m = spans[i]
  BY <1>7
<1>9. \A i \in A : i \in 1..N /\ spans[i] \in Elements(out)
  BY <1>4, <1>7 DEF Keeps
<1>10. Elements(out) \subseteq S
  BY <1>2, <1>8
<1>11. \A a, b \in Elements(out) : Overlap(a, b) => a = b
  BY <1>4, <1>8 DEF Keeps
<1>12. ASSUME NEW c \in S, c \notin Elements(out)
       PROVE  \E m \in Elements(out) : Overlap(c, m) /\ wins(m, c)
  <2>1. PICK k \in 1..N : c = spans[k]
    BY <1>2 DEF Elements
  <2>2. k \notin A
    BY <1>9, <1>12, <2>1
  <2>3. PICK i \in A : i < k /\ Overlap(spans[k], spans[i])
    BY <1>4, <2>2 DEF Keeps
  <2>4. i \in 1..N /\ spans[i] \in S /\ spans[i] \in Elements(out)
    BY <1>2, <1>9
  <2>5. wins(spans[i], c)
    BY <1>3, <1>6, <2>1, <2>3, <2>4
  <2> HIDE DEF wins
  <2> QED
    BY <2>1, <2>3, <2>4, <2>5
<1> QED
  BY <1>10, <1>11, <1>12 DEF MentionsExact, S, out

-------------------------------------------------------------------------------
(* The claims and relations of a text *)

\* The claims are a sequence.
LEMMA ClaimsSequence ==
    ASSUME NEW text, TextOK(text)
    PROVE  Sequence(extract_claims(text))
<1> DEFINE I == {i \in DOMAIN Sentences(text) : Sentences(text)[i].claim}
<1>1. extract_claims(text) = Picked(Sentences(text), I)
  BY DEF extract_claims
<1>2. Sequence(Sentences(text))
  BY SentencesSorted DEF Sorted
<1> HIDE DEF I
<1> QED
  BY <1>1, <1>2, PickedSequence

\* The predicate of a sentence with a keyword is one of the table's.
LEMMA PredicateInTable ==
    ASSUME NEW s, s.keywords # {}, s.keywords \subseteq Elements(Predicates)
    PROVE  PredicateOf(s) \in Elements(Predicates)
<1> DEFINE I == {i \in DOMAIN Predicates : Predicates[i] \in s.keywords}
           found == Picked(Predicates, I)
<1>1. Sequence(Predicates)
  <2>1. Predicates = [i \in 1..6 |-> Predicates[i]]
    BY DEF Predicates
  <2> QED
    BY <2>1, FunctionSequence
<1>2. Sequence(Predicates) /\ Len(Predicates) \in Nat /\ DOMAIN Predicates = 1..Len(Predicates)
  BY <1>1, SelfTyped DEF Sequence
<1>3. PICK i \in DOMAIN Predicates : Predicates[i] \in s.keywords
  BY DEF Elements
<1>4. Elements(found) = {Predicates[j] : j \in I \cap (1..Len(Predicates))}
  <2> HIDE DEF I
  <2> QED
    BY <1>1, PickedTyped DEF Sequence
<1>5. Elements(found) # {}
  BY <1>2, <1>3, <1>4
<1>6. Sequence(found) /\ Elements(found) \subseteq Elements(Predicates)
  <2> HIDE DEF I
  <2> QED
    BY <1>2, PickedSequence
<1>7. PredicateOf(s) = found[1]
  BY DEF PredicateOf
<1> HIDE DEF found
<1>8. Len(found) \in Nat /\ DOMAIN found = 1..Len(found)
  BY <1>6, SelfTyped DEF Sequence
<1>9. 1 \in DOMAIN found
  BY <1>5, <1>8 DEF Elements
<1>10. found[1] \in Elements(found)
  BY <1>9 DEF Elements
<1> QED
  BY <1>6, <1>7, <1>10

\* The relation extract_relations finds in a sentence.
RelationOf(document, text, s) ==
    LET subject == Within(extract_mentions(text), s)[1]
        object  == Within(extract_mentions(text), s)[2]
    IN  [id |-> <<"relationship", evidence(document, subject),
                  PredicateOf(s), evidence(document, object), s.digest>>,
         subject |-> subject, predicate |-> PredicateOf(s), object |-> object,
         sentence |-> s]

\* Every relation is the one of a sentence of the text, between two of its mentions.
LEMMA RelationsFound ==
    ASSUME NEW document, NEW text, TextOK(text)
    PROVE  /\ Sequence(extract_relations(document, text))
           /\ \A r \in Elements(extract_relations(document, text)) :
                /\ r = RelationOf(document, text, r.sentence)
                /\ r.sentence \in text.sentences
                /\ r.subject \in Elements(extract_mentions(text))
                /\ r.object \in Elements(extract_mentions(text))
                /\ r.predicate \in Elements(Predicates)
                /\ r.id[1] = "relationship"
<1> DEFINE mentions == extract_mentions(text)
           sentences == Sentences(text)
           R == {i \in DOMAIN sentences :
                   Len(Within(mentions, sentences[i])) >= 2 /\ sentences[i].keywords # {}}
           related == Picked(sentences, R)
           found == [i \in DOMAIN related |-> RelationOf(document, text, related[i])]
<1>1. extract_relations(document, text) = found
  BY DEF extract_relations, RelationOf
<1>2. \A s \in text.sentences : s.keywords \subseteq Elements(Predicates)
  BY DEF TextOK
<1>3. Sequence(mentions)
  BY MentionsOrdered, SelfTyped
<1>4. Sequence(sentences) /\ Elements(sentences) \subseteq text.sentences
  BY SentencesSorted DEF Sorted
<1>5. DOMAIN sentences = 1..Len(sentences)
  BY <1>4, SelfTyped DEF Sequence
<1>6. /\ Sequence(related)
      /\ \A s \in Elements(related) :
           /\ s \in Elements(sentences)
           /\ Len(Within(mentions, s)) >= 2 /\ s.keywords # {}
  <2>1. Sequence(related) /\ Elements(related) \subseteq Elements(sentences)
    <3> HIDE DEF R, sentences
    <3> QED
      BY <1>4, PickedSequence
  <2>2. Elements(related) = {sentences[i] : i \in R \cap (1..Len(sentences))}
    <3> HIDE DEF R, sentences
    <3> QED
      BY <1>4, PickedTyped DEF Sequence
  <2> HIDE DEF sentences, mentions, Within
  <2>3. \A s \in Elements(related) : Len(Within(mentions, s)) >= 2 /\ s.keywords # {}
    BY <2>2
  <2> QED
    BY <2>1, <2>3
<1> HIDE DEF R, sentences, mentions
<1>7. Len(related) \in Nat /\ DOMAIN related = 1..Len(related)
  BY <1>6, SelfTyped DEF Sequence
<1> HIDE DEF related
<1>8. Sequence(found)
  <2>1. found = [i \in 1..Len(related) |-> found[i]]
    BY <1>7
  <2> HIDE DEF found
  <2> QED
    BY <1>7, <2>1, FunctionSequence
<1>9. \A r \in Elements(found) : \E s \in Elements(related) : r = RelationOf(document, text, s)
  BY <1>7 DEF Elements
<1>10. ASSUME NEW s \in Elements(related)
       PROVE  LET r == RelationOf(document, text, s)
              IN  /\ r.sentence = s
                  /\ s \in text.sentences
                  /\ r.subject \in Elements(mentions)
                  /\ r.object \in Elements(mentions)
                  /\ r.predicate \in Elements(Predicates)
                  /\ r.id[1] = "relationship"
  <2> DEFINE within == Within(mentions, s)
  <2>1. Sequence(within) /\ Elements(within) \subseteq Elements(mentions)
    BY <1>3, PickedSequence DEF Within
  <2>2. Len(within) >= 2 /\ s \in text.sentences /\ s.keywords # {}
    BY <1>4, <1>6
  <2> HIDE DEF within
  <2>3. Len(within) \in Nat /\ DOMAIN within = 1..Len(within)
    BY <2>1, SelfTyped DEF Sequence
  <2>4. within[1] \in Elements(within) /\ within[2] \in Elements(within)
    BY <2>2, <2>3 DEF Elements
  <2>5. PredicateOf(s) \in Elements(Predicates)
    BY <1>2, <2>2, PredicateInTable
  <2>6. LET r == RelationOf(document, text, s)
        IN  /\ r.sentence = s /\ r.subject = within[1] /\ r.object = within[2]
            /\ r.predicate = PredicateOf(s) /\ r.id[1] = "relationship"
    BY DEF RelationOf, within, mentions
  <2> QED
    BY <2>1, <2>2, <2>4, <2>5, <2>6
<1> QED
  BY <1>1, <1>8, <1>9, <1>10 DEF mentions

\* The first two mentions of a sentence that has two.
LEMMA FirstTwo ==
    ASSUME NEW S, NEW mentions \in Seq(S),
           \A c \in S : c.start \in Nat /\ c.end \in Nat /\ c.start < c.end,
           \A j, k \in 1..Len(mentions) : j < k => mentions[j].end <= mentions[k].start,
           NEW s, s.start \in Nat, s.end \in Nat, Len(Within(mentions, s)) >= 2
    PROVE  LET subject == Within(mentions, s)[1]
               object  == Within(mentions, s)[2]
           IN  /\ {subject, object} \subseteq Elements(mentions)
               /\ subject.end <= object.start
               /\ \A m \in Elements(mentions) \ {subject, object} :
                    m.start >= s.start => m.start >= object.end
               /\ s.start <= subject.start /\ object.end <= s.end
<1> DEFINE I == {i \in DOMAIN mentions : /\ mentions[i].start >= s.start
                                         /\ mentions[i].end <= s.end}
           W == Within(mentions, s)
           N == Len(mentions)
           a == W[1]
           b == W[2]
<1>1. /\ N \in Nat /\ DOMAIN mentions = 1..N
      /\ \A i \in 1..N : mentions[i] \in S /\ mentions[i] \in Elements(mentions)
  BY LenProperties, ElementOfSeq DEF Elements
<1>2. W = Picked(mentions, I)
  BY DEF Within
<1>3. \A i \in 1..N : i \in I <=> /\ mentions[i].start >= s.start
                                  /\ mentions[i].end <= s.end
  BY <1>1
<1> HIDE DEF I, W, N
<1>4. W \in Seq(S) /\ \E p : Follows(p, mentions, I, N, W)
  BY <1>2, PickedPositions DEF N
<1>5. PICK p : Follows(p, mentions, I, N, W)
  BY <1>4
<1>6. Len(W) \in Nat /\ 1 \in 1..Len(W) /\ 2 \in 1..Len(W)
  BY <1>4, LenProperties DEF W
<1>7. /\ p[1] \in I /\ p[1] \in 1..N /\ p[2] \in I /\ p[2] \in 1..N
      /\ p[1] < p[2] /\ a = mentions[p[1]] /\ b = mentions[p[2]]
  BY <1>5, <1>6 DEF Follows
<1> HIDE DEF a, b
<1>8. /\ a \in Elements(mentions) /\ b \in Elements(mentions)
      /\ a \in S /\ b \in S
      /\ a.end <= b.start /\ s.start <= a.start /\ b.end <= s.end
  BY <1>1, <1>3, <1>7 DEF N
<1>9. ASSUME NEW m \in Elements(mentions), m # a, m # b, m.start >= s.start
      PROVE  m.start >= b.end
  <2>1. PICK q \in 1..N : m = mentions[q]
    BY <1>1 DEF Elements
  <2>2. CASE p[2] < q
    BY <1>7, <2>1, <2>2 DEF N
  <2>3. CASE q < p[2]
    <3>1. m \in S /\ m.end <= b.start
      BY <1>1, <1>7, <2>1, <2>3 DEF N
    <3>2. m.end <= s.end
      BY <1>8, <3>1
    <3>3. q \in I
      BY <1>3, <1>9, <2>1, <3>2
    <3>4. PICK k \in 1..Len(W) : p[k] = q
      BY <1>5, <3>3 DEF Follows
    <3>5. \A l \in 1..Len(W) : 2 < l => p[2] < p[l]
      BY <1>5, <1>6 DEF Follows
    <3>6. k = 1 \/ k = 2 \/ 2 < k
      BY <1>6
    <3>7. p[k] \in 1..N
      BY <3>4
    <3> QED
      BY <1>7, <1>9, <2>1, <2>3, <3>4, <3>5, <3>6, <3>7
  <2>4. q \in Int /\ p[2] \in Int
    BY <1>1, <1>7
  <2>5. q # p[2]
    BY <1>7, <1>9, <2>1
  <2> QED
    BY <2>2, <2>3, <2>4, <2>5
<1>10. /\ {a, b} \subseteq Elements(mentions)
       /\ a.end <= b.start
       /\ \A m \in Elements(mentions) \ {a, b} : m.start >= s.start => m.start >= b.end
       /\ s.start <= a.start /\ b.end <= s.end
  BY <1>8, <1>9
<1> QED
  BY <1>10 DEF a, b, W

\* The relations of every text are right: each joins the first two mentions of one of
\* its sentences, and a sentence yields one relation at most (extract_relations).
THEOREM RelationsAreExact ==
    ASSUME NEW text, TextOK(text), NEW document
    PROVE  RelationsExact(document, text)
<1> DEFINE S == text.candidates
           mentions == extract_mentions(text)
           sentences == Sentences(text)
           J == {i \in DOMAIN sentences :
                   Len(Within(mentions, sentences[i])) >= 2 /\ sentences[i].keywords # {}}
           related == Picked(sentences, J)
           relations == extract_relations(document, text)
           N == Len(sentences)
<1>1. /\ DOMAIN relations = DOMAIN related
      /\ \A i \in DOMAIN related :
           /\ relations[i].subject = Within(mentions, related[i])[1]
           /\ relations[i].object = Within(mentions, related[i])[2]
           /\ relations[i].sentence = related[i]
  BY DEF extract_relations
<1>2. /\ mentions \in Seq(S)
      /\ \A j, k \in 1..Len(mentions) : j < k => mentions[j].end <= mentions[k].start
  BY MentionsOrdered
<1>3. Sorted(sentences, text.sentences, SentenceOrder(text.sentences))
  BY SentencesSorted
<1>4. /\ sentences \in Seq(text.sentences) /\ N \in Nat /\ DOMAIN sentences = 1..N
      /\ \A i \in 1..N : sentences[i] \in text.sentences
      /\ \A i, j \in 1..N : i < j => sentences[i].start < sentences[j].start
  BY <1>3, LenProperties, ElementOfSeq DEF Sorted, Sequence, SentenceOrder
<1>5. \A c \in S : c.start \in Nat /\ c.end \in Nat /\ c.start < c.end
  BY DEF TextOK
<1>6. \A s \in text.sentences : s.start \in Nat /\ s.end \in Nat
  BY DEF TextOK
<1>7. \A i \in J : i \in 1..N /\ Len(Within(mentions, sentences[i])) >= 2
  BY <1>4
<1> HIDE DEF S, mentions, sentences, J, related, relations, N
<1>8. related \in Seq(text.sentences) /\ \E p : Follows(p, sentences, J, N, related)
  BY <1>4, PickedPositions DEF related, N
<1>9. PICK p : Follows(p, sentences, J, N, related)
  BY <1>8
<1>10. Len(related) \in Nat /\ DOMAIN related = 1..Len(related)
  BY <1>8, LenProperties
<1>11. \A i \in 1..Len(related) :
         p[i] \in J /\ p[i] \in 1..N /\ related[i] = sentences[p[i]]
  BY <1>9 DEF Follows
<1>12. ASSUME NEW i \in DOMAIN relations
       PROVE  LET r == relations[i]
              IN  /\ {r.subject, r.object} \subseteq Elements(mentions)
                  /\ r.subject.end <= r.object.start
                  /\ \A m \in Elements(mentions) \ {r.subject, r.object} :
                       m.start >= r.sentence.start => m.start >= r.object.end
                  /\ r.sentence.start <= r.subject.start
                  /\ r.object.end <= r.sentence.end
  <2>1. PICK s, a, b : /\ s = relations[i].sentence
                       /\ a = relations[i].subject /\ b = relations[i].object
    OBVIOUS
  <2>2. s = related[i] /\ a = Within(mentions, s)[1] /\ b = Within(mentions, s)[2]
    BY <1>1, <2>1
  <2>3. s \in text.sentences /\ Len(Within(mentions, s)) >= 2
    BY <1>1, <1>4, <1>7, <1>10, <1>11, <2>2
  <2>4. /\ {a, b} \subseteq Elements(mentions)
        /\ a.end <= b.start
        /\ \A m \in Elements(mentions) \ {a, b} : m.start >= s.start => m.start >= b.end
        /\ s.start <= a.start /\ b.end <= s.end
    BY <1>2, <1>5, <1>6, <2>2, <2>3, FirstTwo
  <2> QED
    BY <2>1, <2>4
<1>13. \A i, j \in 1..Len(related) : i < j => related[i].start < related[j].start
  BY <1>4, <1>9, <1>11 DEF Follows
<1>14. ASSUME NEW i \in DOMAIN relations, NEW j \in DOMAIN relations,
              relations[i].sentence = relations[j].sentence
       PROVE  i = j
  <2>1. i \in 1..Len(related) /\ j \in 1..Len(related) /\ related[i] = related[j]
    BY <1>1, <1>10, <1>14
  <2>2. related[i].start \in Nat
    BY <1>4, <1>6, <1>11, <2>1
  <2> QED
    BY <1>10, <1>13, <2>1, <2>2
<1> QED
  BY <1>12, <1>14 DEF RelationsExact, mentions, relations
===============================================================================
