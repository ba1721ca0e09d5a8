----------------------------- MODULE OutboxProofs -----------------------------
(***************************************************************************)
(* Proofs about Outbox for any finite sets of events and publishers, any   *)
(* batch size and any number of faults.                                    *)
(*                                                                         *)
(* PublishedStored needs to know what a publisher that is about to mark    *)
(* has got acknowledged, StoredCommitted where a batch can come from       *)
(* (BatchesVisible).  CopiesBounded needs an account of every copy: while  *)
(* a row is pending each of its copies is owed to a publisher that has     *)
(* delivered it and not marked it yet, or to a fault; once it is marked,   *)
(* the copies still to come are those of the publishers that hold it.      *)
(***************************************************************************)
EXTENDS Outbox, FiniteSetTheorems, TLAPS

\* Where a publisher is says what it holds.
BatchesInStep ==
    \A p \in Publisher :
        /\ pc[p] = "idle" => batch[p] = {}
        /\ pc[p] # "delivering" => unsent[p] = {}
        /\ unsent[p] \subseteq batch[p]

\* Rows of open transactions are not seen, so neither claimed: a row that can be
\* seen belongs to a committed change, and a batch holds only such rows.
BatchesVisible ==
    /\ \A e \in Event : row[e] # "none" => domain[e] = "committed"
    /\ \A p \in Publisher : \A e \in batch[p] : row[e] # "none"

\* What a publisher no longer waits for is in the topic.
AcknowledgedStored ==
    \A p \in Publisher : pc[p] = "delivering" =>
        \A e \in batch[p] \ unsent[p] : copies[e] > 0

\* The publishers that have delivered e and not marked it, and those that hold
\* it and have not delivered it.
Delivered(e) == {p \in Publisher : pc[p] = "delivering" /\ e \in batch[p] \ unsent[p]}
Holding(e)   == {p \in Publisher : \/ pc[p] = "claiming" /\ e \in batch[p]
                                   \/ e \in unsent[p]}

Accounted(e) ==
    /\ row[e] # "published" => copies[e] <= Cardinality(Delivered(e)) + faults
    /\ copies[e] + Cardinality(Holding(e)) <= Cardinality(Publisher) + faults

CopiesAccounted == \A e \in Event : Accounted(e)

IInv ==
    /\ TypeOK
    /\ BatchesInStep
    /\ BatchesVisible
    /\ AcknowledgedStored
    /\ PublishedStored
    /\ StoredCommitted
    /\ CopiesAccounted

-------------------------------------------------------------------------------
(* Types *)

LEMMA TypeInit == Init => TypeOK
BY FaultAssumption, FS_EmptySet, BatchAssumption DEF Init, TypeOK

LEMMA TypeStep == TypeOK /\ [Next]_vars => TypeOK'
<1> SUFFICES ASSUME TypeOK, [Next]_vars
             PROVE  TypeOK'
  OBVIOUS
<1> USE FaultAssumption, BatchAssumption DEF TypeOK
<1>0. Cardinality({}) <= BatchSize
  BY FS_EmptySet
<1>1. ASSUME NEW e \in Event, Enqueue(e)
      PROVE  TypeOK'
  BY <1>1 DEF Enqueue, Stamp
<1>2. ASSUME NEW e \in Event, SaveSource(e)
      PROVE  TypeOK'
  BY <1>2 DEF SaveSource
<1>3. ASSUME NEW e \in Event, CommitChange(e)
      PROVE  TypeOK'
  BY <1>3 DEF CommitChange
<1>4. ASSUME NEW e \in Event, RollbackChange(e)
      PROVE  TypeOK'
  BY <1>4 DEF RollbackChange, TakeFault
<1>5. ASSUME NEW e \in Event, PublishRegistrationEvent(e)
      PROVE  TypeOK'
  BY <1>5 DEF PublishRegistrationEvent, Stamp
<1>6. ASSUME NEW e \in Event, LoseCallback(e)
      PROVE  TypeOK'
  BY <1>6 DEF LoseCallback, TakeFault
<1>7. ASSUME NEW p \in Publisher, Claim(p)
      PROVE  TypeOK'
  <2>1. PICK S \in SUBSET Available :
          IsClaim(S) /\ batch' = [batch EXCEPT ![p] = S]
    BY <1>7 DEF Claim
  <2>2. S \in SUBSET Event /\ Cardinality(S) <= BatchSize
    BY <2>1 DEF IsClaim, Available
  <2> QED
    BY <1>7, <2>1, <2>2 DEF Claim
<1>8. ASSUME NEW p \in Publisher, Produce(p)
      PROVE  TypeOK'
  BY <1>8 DEF Produce
<1>9. ASSUME NEW p \in Publisher, Deliver(p)
      PROVE  TypeOK'
  BY <1>9 DEF Deliver
<1>10. ASSUME NEW p \in Publisher, Mark(p)
       PROVE  TypeOK'
  BY <1>0, <1>10 DEF Mark
<1>11. ASSUME NEW p \in Publisher, ClaimNothing(p)
       PROVE  TypeOK'
  BY <1>11 DEF ClaimNothing, vars
<1>12. ASSUME NEW p \in Publisher, AckLost(p)
       PROVE  TypeOK'
  BY <1>12 DEF AckLost, TakeFault
<1>13. ASSUME NEW p \in Publisher, Fail(p)
       PROVE  TypeOK'
  BY <1>0, <1>13 DEF Fail, TakeFault
<1>14. CASE UNCHANGED vars
  BY <1>14 DEF vars
<1> QED
  BY <1>1, <1>2, <1>3, <1>4, <1>5, <1>6, <1>7, <1>8, <1>9, <1>10, <1>11, <1>12,
     <1>13, <1>14 DEF Next, Request, Publish

\* The rows, the publishers and the topic always have their types; in particular
\* no publisher ever holds more than BatchSize rows (publisher.rb, LIMIT).
THEOREM TypeCorrect == Spec => []TypeOK
BY TypeInit, TypeStep, PTL DEF Spec

-------------------------------------------------------------------------------
(* What a step of the requests can change, and what a publisher's can. *)

\* Requests leave the publishers and the topic alone; they add rows only, of
\* changes that are committed.
RowsAdded ==
    /\ UNCHANGED <<pc, batch, unsent, copies>>
    /\ faults' \in {faults, faults + 1}
    /\ \A f \in Event :
        /\ row'[f] = row[f] \/ (row[f] = "none" /\ row'[f] = "pending")
        /\ row'[f] # "none" => domain'[f] = "committed"
        /\ domain[f] = "committed" => domain'[f] = "committed"

LEMMA RequestSteps ==
    ASSUME TypeOK, BatchesVisible, NEW e \in Event,
           Enqueue(e) \/ SaveSource(e) \/ Request(e)
    PROVE  RowsAdded
<1> USE DEF TypeOK, BatchesVisible, RowsAdded
<1>1. CASE Enqueue(e)
  BY <1>1 DEF Enqueue
<1>2. CASE SaveSource(e)
  BY <1>2 DEF SaveSource
<1>3. CASE CommitChange(e)
  BY <1>3 DEF CommitChange
<1>4. CASE RollbackChange(e)
  BY <1>4 DEF RollbackChange, TakeFault
<1>5. CASE PublishRegistrationEvent(e)
  BY <1>5 DEF PublishRegistrationEvent
<1>6. CASE LoseCallback(e)
  BY <1>6 DEF LoseCallback, TakeFault
<1> QED
  BY <1>1, <1>2, <1>3, <1>4, <1>5, <1>6 DEF Request

-------------------------------------------------------------------------------
(* Safety *)

LEMMA VisibleStep ==
    TypeOK /\ BatchesInStep /\ BatchesVisible /\ [Next]_vars
        => BatchesInStep' /\ BatchesVisible'
<1> SUFFICES ASSUME TypeOK, BatchesInStep, BatchesVisible, [Next]_vars
             PROVE  BatchesInStep' /\ BatchesVisible'
  OBVIOUS
<1>1. ASSUME NEW e \in Event, Enqueue(e) \/ SaveSource(e) \/ Request(e)
      PROVE  BatchesInStep' /\ BatchesVisible'
  <2>1. RowsAdded
    BY <1>1, RequestSteps
  <2> QED
    BY <2>1 DEF RowsAdded, TypeOK, BatchesInStep, BatchesVisible
<1> USE DEF TypeOK, BatchesInStep, BatchesVisible
<1>2. ASSUME NEW p \in Publisher, Claim(p)
      PROVE  BatchesInStep' /\ BatchesVisible'
  <2>1. PICK S \in SUBSET Available : batch' = [batch EXCEPT ![p] = S]
    BY <1>2 DEF Claim
  <2>2. \A e \in S : e \in Event /\ row[e] # "none"
    BY <2>1 DEF Available
  <2> QED
    BY <1>2, <2>1, <2>2 DEF Claim
<1>3. ASSUME NEW p \in Publisher, Produce(p)
      PROVE  BatchesInStep' /\ BatchesVisible'
  BY <1>3 DEF Produce
<1>4. ASSUME NEW p \in Publisher, Deliver(p)
      PROVE  BatchesInStep' /\ BatchesVisible'
  BY <1>4 DEF Deliver
<1>5. ASSUME NEW p \in Publisher, Mark(p)
      PROVE  BatchesInStep' /\ BatchesVisible'
  BY <1>5 DEF Mark
<1>6. ASSUME NEW p \in Publisher, ClaimNothing(p)
      PROVE  BatchesInStep' /\ BatchesVisible'
  BY <1>6 DEF ClaimNothing, vars
<1>7. ASSUME NEW p \in Publisher, AckLost(p)
      PROVE  BatchesInStep' /\ BatchesVisible'
  BY <1>7 DEF AckLost
<1>8. ASSUME NEW p \in Publisher, Fail(p)
      PROVE  BatchesInStep' /\ BatchesVisible'
  BY <1>8 DEF Fail
<1>9. CASE UNCHANGED vars
  BY <1>9 DEF vars
<1> QED
  BY <1>1, <1>2, <1>3, <1>4, <1>5, <1>6, <1>7, <1>8, <1>9 DEF Next, Publish

\* A row is marked only with its copy stored, and a copy is stored only of a row
\* that could be seen.
Stored == AcknowledgedStored /\ PublishedStored /\ StoredCommitted

LEMMA StoredStep ==
    TypeOK /\ BatchesInStep /\ BatchesVisible /\ Stored /\ [Next]_vars => Stored'
<1> SUFFICES ASSUME TypeOK, BatchesInStep, BatchesVisible, Stored, [Next]_vars
             PROVE  Stored'
  OBVIOUS
<1>1. ASSUME NEW e \in Event, Enqueue(e) \/ SaveSource(e) \/ Request(e)
      PROVE  Stored'
  <2>1. RowsAdded
    BY <1>1, RequestSteps
  <2> QED
    BY <2>1 DEF RowsAdded, TypeOK, Stored, AcknowledgedStored, PublishedStored, StoredCommitted
<1> USE DEF TypeOK, BatchesInStep, BatchesVisible, Stored, AcknowledgedStored,
            PublishedStored, StoredCommitted
<1>2. ASSUME NEW p \in Publisher, Claim(p)
      PROVE  Stored'
  BY <1>2 DEF Claim
<1>3. ASSUME NEW p \in Publisher, Produce(p)
      PROVE  Stored'
  BY <1>3 DEF Produce
<1>4. ASSUME NEW p \in Publisher, Deliver(p)
      PROVE  Stored'
  BY <1>4 DEF Deliver
<1>5. ASSUME NEW p \in Publisher, Mark(p)
      PROVE  Stored'
  BY <1>5 DEF Mark
<1>6. ASSUME NEW p \in Publisher, ClaimNothing(p)
      PROVE  Stored'
  BY <1>6 DEF ClaimNothing, vars
<1>7. ASSUME NEW p \in Publisher, AckLost(p)
      PROVE  Stored'
  BY <1>7 DEF AckLost
<1>8. ASSUME NEW p \in Publisher, Fail(p)
      PROVE  Stored'
  BY <1>8 DEF Fail
<1>9. CASE UNCHANGED vars
  BY <1>9 DEF vars
<1> QED
  BY <1>1, <1>2, <1>3, <1>4, <1>5, <1>6, <1>7, <1>8, <1>9 DEF Next, Publish

-------------------------------------------------------------------------------
(* Counting copies *)

LEMMA PublishersFinite ==
    ASSUME NEW P \in SUBSET Publisher
    PROVE  IsFiniteSet(P) /\ Cardinality(P) \in Nat /\ Cardinality(P) <= Cardinality(Publisher)
BY PublisherAssumption, FS_Subset, FS_CardinalityType

\* No publisher has both delivered an event and still to deliver it.
LEMMA DisjointPublishers ==
    ASSUME NEW P \in SUBSET Publisher, NEW Q \in SUBSET Publisher, P \cap Q = {}
    PROVE  Cardinality(P) + Cardinality(Q) <= Cardinality(Publisher)
<1>1. IsFiniteSet(P) /\ IsFiniteSet(Q) /\ Cardinality(P) \in Nat /\ Cardinality(Q) \in Nat
  BY PublishersFinite
<1>2. Cardinality(P \cup Q) = Cardinality(P) + Cardinality(Q)
  BY <1>1, FS_Union, FS_EmptySet
<1> QED
  BY <1>2, PublishersFinite

LEMMA HoldersFinite ==
    ASSUME NEW e
    PROVE  /\ Delivered(e) \in SUBSET Publisher /\ Holding(e) \in SUBSET Publisher
           /\ Cardinality(Delivered(e)) \in Nat /\ Cardinality(Holding(e)) \in Nat
           /\ IsFiniteSet(Delivered(e)) /\ IsFiniteSet(Holding(e))
           /\ Cardinality(Publisher) \in Nat
BY PublishersFinite DEF Delivered, Holding

\* An event whose holders do not change, by a step that adds no copy and takes
\* at most faults, stays accounted for.
LEMMA AccountedStays ==
    ASSUME TypeOK, NEW e \in Event, Accounted(e),
           row[e] = "published" => row'[e] = "published",
           copies'[e] = copies[e], faults' \in {faults, faults + 1},
           Delivered(e)' = Delivered(e), Holding(e)' = Holding(e)
    PROVE  Accounted(e)'
<1>1. copies[e] \in Nat /\ faults \in Nat
  BY FaultAssumption DEF TypeOK
<1> QED
  BY <1>1, HoldersFinite DEF Accounted

LEMMA CopiesStep ==
    TypeOK /\ BatchesInStep /\ BatchesVisible /\ CopiesAccounted /\ [Next]_vars
        => CopiesAccounted'
<1> SUFFICES ASSUME TypeOK, BatchesInStep, BatchesVisible, CopiesAccounted, [Next]_vars,
                    NEW e \in Event
             PROVE  Accounted(e)'
  BY DEF CopiesAccounted
<1>0. /\ Accounted(e)
      /\ copies[e] \in Nat /\ faults \in Nat
      /\ faults' = faults => faults' \in {faults, faults + 1}
      /\ faults' = faults + 1 => faults' \in {faults, faults + 1}
  BY FaultAssumption DEF CopiesAccounted, TypeOK
<1>1. ASSUME NEW f \in Event, Enqueue(f) \/ SaveSource(f) \/ Request(f)
      PROVE  Accounted(e)'
  <2>1. RowsAdded
    BY <1>1, RequestSteps
  <2>2. Delivered(e)' = Delivered(e) /\ Holding(e)' = Holding(e)
    BY <2>1 DEF RowsAdded, Delivered, Holding
  <2>3. (row[e] = "published" => row'[e] = "published") /\ copies'[e] = copies[e]
    BY <2>1 DEF RowsAdded
  <2>4. faults' \in {faults, faults + 1}
    BY <2>1 DEF RowsAdded
  <2> QED
    BY <1>0, <2>2, <2>3, <2>4, AccountedStays
<1>2. ASSUME NEW p \in Publisher, Claim(p)
      PROVE  Accounted(e)'
  <2>1. PICK S \in SUBSET Available : batch' = [batch EXCEPT ![p] = S]
    BY <1>2 DEF Claim
  <2>2. /\ pc[p] = "idle" /\ pc' = [pc EXCEPT ![p] = "claiming"]
        /\ UNCHANGED <<row, unsent, copies, faults>> /\ unsent[p] = {}
    BY <1>2 DEF Claim, BatchesInStep
  <2>3. Delivered(e)' = Delivered(e)
    BY <2>1, <2>2 DEF Delivered, TypeOK
  <2>4. CASE e \in S
    <3>1. row[e] = "pending"
      BY <2>1, <2>4 DEF Available
    <3>2. Delivered(e) \cap Holding(e)' = {}
      BY <2>1, <2>2, <2>3 DEF Delivered, Holding, TypeOK
    <3>3. Holding(e)' \in SUBSET Publisher
      BY DEF Holding
    <3>4. Cardinality(Delivered(e)) + Cardinality(Holding(e)') <= Cardinality(Publisher)
      BY <3>2, <3>3, HoldersFinite, DisjointPublishers
    <3>5. Cardinality(Holding(e)') \in Nat
      BY <3>3, PublishersFinite
    <3>6. copies[e] <= Cardinality(Delivered(e)) + faults
      BY <1>0, <3>1 DEF Accounted
    <3>7. copies[e] + Cardinality(Holding(e)') <= Cardinality(Publisher) + faults
      BY <1>0, <3>4, <3>5, <3>6, HoldersFinite
    <3> QED
      BY <2>2, <2>3, <3>6, <3>7 DEF Accounted
  <2>5. CASE e \notin S
    <3>1. Holding(e)' = Holding(e)
      BY <2>1, <2>2, <2>5 DEF Holding, TypeOK, BatchesInStep
    <3> QED
      BY <1>0, <2>2, <2>3, <3>1, AccountedStays
  <2> QED
    BY <2>4, <2>5
<1>3. ASSUME NEW p \in Publisher, Produce(p)
      PROVE  Accounted(e)'
  <2>1. Delivered(e)' = Delivered(e) /\ Holding(e)' = Holding(e)
    BY <1>3 DEF Produce, Delivered, Holding, TypeOK, BatchesInStep
  <2>2. UNCHANGED <<row, copies, faults>>
    BY <1>3 DEF Produce
  <2> QED
    BY <1>0, <2>1, <2>2, AccountedStays
<1>4. ASSUME NEW p \in Publisher, Deliver(p)
      PROVE  Accounted(e)'
  <2>1. PICK f \in unsent[p] : /\ unsent' = [unsent EXCEPT ![p] = @ \ {f}]
                              /\ copies' = [copies EXCEPT ![f] = @ + 1]
    BY <1>4 DEF Deliver
  <2>2. pc[p] = "delivering" /\ UNCHANGED <<row, pc, batch, faults>>
    BY <1>4 DEF Deliver
  <2>3. CASE e = f
    <3>1. Delivered(e)' = Delivered(e) \cup {p} /\ p \notin Delivered(e)
      BY <2>1, <2>2, <2>3 DEF Delivered, TypeOK, BatchesInStep
    <3>2. Holding(e)' = Holding(e) \ {p} /\ p \in Holding(e)
      BY <2>1, <2>2, <2>3 DEF Holding, TypeOK
    <3>3. Cardinality(Delivered(e)') = Cardinality(Delivered(e)) + 1
      BY <3>1, HoldersFinite, FS_AddElement
    <3>4. Cardinality(Holding(e)') = Cardinality(Holding(e)) - 1
      BY <3>2, HoldersFinite, FS_RemoveElement
    <3>5. copies'[e] = copies[e] + 1
      BY <2>1, <2>3 DEF TypeOK
    <3> QED
      BY <1>0, <2>2, <3>3, <3>4, <3>5, HoldersFinite DEF Accounted
  <2>4. CASE e # f
    <3>1. Delivered(e)' = Delivered(e) /\ Holding(e)' = Holding(e)
      BY <2>1, <2>2, <2>4 DEF Delivered, Holding, TypeOK
    <3>2. copies'[e] = copies[e]
      BY <2>1, <2>4 DEF TypeOK
    <3> QED
      BY <1>0, <2>2, <3>1, <3>2, AccountedStays
  <2> QED
    BY <2>3, <2>4
<1>5. ASSUME NEW p \in Publisher, Mark(p)
      PROVE  Accounted(e)'
  <2>1. /\ pc[p] = "delivering" /\ unsent[p] = {}
        /\ row' = [f \in Event |-> IF f \in batch[p] THEN "published" ELSE row[f]]
        /\ pc' = [pc EXCEPT ![p] = "idle"] /\ batch' = [batch EXCEPT ![p] = {}]
        /\ UNCHANGED <<unsent, copies, faults>>
    BY <1>5 DEF Mark
  <2>2. Holding(e)' = Holding(e)
    BY <2>1 DEF Holding, TypeOK
  <2>3. CASE e \in batch[p]
    BY <1>0, <2>1, <2>2, <2>3 DEF Accounted
  <2>4. CASE e \notin batch[p]
    <3>1. Delivered(e)' = Delivered(e)
      BY <2>1, <2>4 DEF Delivered, TypeOK
    <3>2. row'[e] = row[e]
      BY <2>1, <2>4
    <3> QED
      BY <1>0, <2>1, <2>2, <3>1, <3>2, AccountedStays
  <2> QED
    BY <2>3, <2>4
<1>6. CASE UNCHANGED vars
  <2>1. UNCHANGED <<row, pc, batch, unsent, copies, faults>>
    BY <1>6 DEF vars
  <2>2. Delivered(e)' = Delivered(e) /\ Holding(e)' = Holding(e)
    BY <2>1 DEF Delivered, Holding
  <2> QED
    BY <1>0, <2>1, <2>2, AccountedStays
<1>7. ASSUME NEW p \in Publisher, ClaimNothing(p)
      PROVE  Accounted(e)'
  BY <1>6, <1>7 DEF ClaimNothing
<1>8. ASSUME NEW p \in Publisher, AckLost(p)
      PROVE  Accounted(e)'
  <2>1. /\ faults' = faults + 1 /\ UNCHANGED <<row, pc, batch, unsent>>
        /\ copies'[e] \in {copies[e], copies[e] + 1}
    BY <1>8 DEF AckLost, TakeFault, TypeOK
  <2>2. Delivered(e)' = Delivered(e) /\ Holding(e)' = Holding(e)
    BY <2>1 DEF Delivered, Holding
  <2> QED
    BY <1>0, <2>1, <2>2, HoldersFinite DEF Accounted
<1>9. ASSUME NEW p \in Publisher, Fail(p)
      PROVE  Accounted(e)'
  <2>1. /\ pc' = [pc EXCEPT ![p] = "idle"] /\ batch' = [batch EXCEPT ![p] = {}]
        /\ unsent' = [unsent EXCEPT ![p] = {}]
        /\ faults' = faults + 1 /\ UNCHANGED <<row, copies>>
    BY <1>9 DEF Fail, TakeFault
  <2>2. Delivered(e)' = Delivered(e) \ {p} /\ Holding(e)' = Holding(e) \ {p}
    BY <2>1 DEF Delivered, Holding, TypeOK
  <2>3. /\ Cardinality(Delivered(e)') \in {Cardinality(Delivered(e)),
                                          Cardinality(Delivered(e)) - 1}
        /\ Cardinality(Holding(e)') \in {Cardinality(Holding(e)),
                                        Cardinality(Holding(e)) - 1}
    BY <2>2, HoldersFinite, FS_RemoveElement
  <2> QED
    BY <1>0, <2>1, <2>3, HoldersFinite DEF Accounted
<1> QED
  BY <1>1, <1>2, <1>3, <1>4, <1>5, <1>6, <1>7, <1>8, <1>9 DEF Next, Publish

-------------------------------------------------------------------------------
(* The theorems *)

LEMMA Inductive == Spec => []IInv
<1>1. Init => IInv
  <2>1. ASSUME Init, NEW e \in Event
        PROVE  Accounted(e)
    <3>1. Holding(e) = {}
      BY <2>1 DEF Init, Holding
    <3>2. copies[e] = 0 /\ faults = 0
      BY <2>1 DEF Init
    <3> QED
      BY <3>1, <3>2, HoldersFinite, FS_EmptySet DEF Accounted
  <2>2. Init => /\ BatchesInStep /\ BatchesVisible /\ AcknowledgedStored
                /\ PublishedStored /\ StoredCommitted
    BY DEF Init, BatchesInStep, BatchesVisible, AcknowledgedStored, PublishedStored,
           StoredCommitted
  <2> QED
    BY TypeInit, <2>1, <2>2 DEF IInv, CopiesAccounted
<1>2. IInv /\ [Next]_vars => IInv'
  BY TypeStep, VisibleStep, StoredStep, CopiesStep DEF IInv, Stored
<1> QED
  BY <1>1, <1>2, PTL DEF Spec

\* The outbox loses no event: however publishers overlap, fail and repeat each
\* other's work, published_at is set only on rows whose event Kafka has stored.
THEOREM PublishedStoredAlways == Spec => []PublishedStored
<1>1. IInv => PublishedStored
  BY DEF IInv
<1> QED
  BY <1>1, Inductive, PTL

\* The outbox invents no event: what Kafka holds belongs to a committed change.
THEOREM StoredCommittedAlways == Spec => []StoredCommitted
<1>1. IInv => StoredCommitted
  BY DEF IInv
<1> QED
  BY <1>1, Inductive, PTL

\* Every copy has a cause: one for each publisher that can hold the row at the
\* same time, and one for each fault.
THEOREM CopiesBoundedAlways == Spec => []CopiesBounded
<1>1. IInv => CopiesBounded
  <2> SUFFICES ASSUME IInv, NEW e \in Event
               PROVE  copies[e] <= Cardinality(Publisher) + faults
    BY DEF CopiesBounded
  <2>1. copies[e] \in Nat /\ faults \in Nat
    BY FaultAssumption DEF IInv, TypeOK
  <2>2. copies[e] + Cardinality(Holding(e)) <= Cardinality(Publisher) + faults
    BY DEF IInv, CopiesAccounted, Accounted
  <2> QED
    BY <2>1, <2>2, HoldersFinite
<1> QED
  BY <1>1, Inductive, PTL
===============================================================================
