-------------------------- MODULE KafkaWorkerProofs --------------------------
(***************************************************************************)
(* Proofs about KafkaWorker for any set of pods, any partition length,     *)
(* any number of outputs per record, any set of poison records and any     *)
(* number of faults and offset resets.                                     *)
(*                                                                         *)
(* CommittedHandled is not inductive: a commit is safe only because of     *)
(* what the committing pod has already done, so IInv also says what each   *)
(* program point of a pod guarantees (ReadyToCommit, DeadLetterPending,    *)
(* OutputsPending) and that the owner works on the committed offset        *)
(* (OwnerInStep).                                                          *)
(***************************************************************************)
EXTENDS KafkaWorker, TLAPS

\* A pod that is about to commit has settled its record.
ReadyToCommit ==
    \A w \in Worker : pc[w] = "commit" => cur[w] \in Offset /\ Settled(cur[w])

\* While publish_to_dlq runs, the envelope is stored, queued, or its failure
\* is known to the callback.
DeadLetterPending ==
    \A w \in Worker : pc[w] = "deadletter" =>
        /\ cur[w] \in Poison
        /\ <<cur[w], 0>> \in queue[w] \cup topic \/ dlqError[w]

\* While process() runs, each output published so far is stored, queued, or
\* its record is known to be unconfirmed.
OutputsPending ==
    \A w \in Worker : pc[w] = "processing" =>
        /\ cur[w] \in Offset
        /\ \A k \in 1..nout[w] :
               <<cur[w], k>> \in queue[w] \cup topic \/ cur[w] \in unconfirmed

IInv ==
    /\ TypeOK
    /\ OwnerInStep
    /\ ReadyToCommit
    /\ DeadLetterPending
    /\ OutputsPending
    /\ CommittedHandled
    /\ OutputsConfirmed

-------------------------------------------------------------------------------
\* Type correctness is inductive by itself, except that the offset a pod
\* commits must be one of the partition's, which its program point tells.
CurIsOffset ==
    \A w \in Worker : pc[w] \in {"processing", "deadletter", "commit"} =>
        cur[w] \in Offset

TypeInv == TypeOK /\ CurIsOffset

LEMMA TypeInit == Init => TypeInv
BY SizeAssumption, BoundAssumption
   DEF Init, TypeInv, TypeOK, CurIsOffset, State, Offset, Record

LEMMA TypeStep == TypeInv /\ [Next]_vars => TypeInv'
<1> SUFFICES ASSUME TypeInv, [Next]_vars
             PROVE  TypeInv'
  OBVIOUS
<1> USE SizeAssumption, BoundAssumption, PoisonAssumption
    DEF TypeInv, TypeOK, CurIsOffset, State, Offset, Record
<1>1. ASSUME NEW w \in Worker, Start(w)
      PROVE  TypeInv'
  BY <1>1 DEF Start
<1>2. ASSUME NEW w \in Worker, Assign(w)
      PROVE  TypeInv'
  BY <1>2 DEF Assign
<1>3. ASSUME NEW w \in Worker, Deliver(w)
      PROVE  TypeInv'
  BY <1>3 DEF Deliver
<1>4. ASSUME NEW w \in Worker, Poll(w)
      PROVE  TypeInv'
  BY <1>4 DEF Poll
<1>5. ASSUME NEW w \in Worker, Publish(w)
      PROVE  TypeInv'
  BY <1>5 DEF Publish
<1>6. ASSUME NEW w \in Worker, Flush(w)
      PROVE  TypeInv'
  <2>1. {r[1] : r \in queue[w]} \subseteq Offset
    OBVIOUS
  <2> QED
    BY <1>6, <2>1 DEF Flush
<1>7. ASSUME NEW w \in Worker, Reject(w)
      PROVE  TypeInv'
  BY <1>7 DEF Reject
<1>8. ASSUME NEW w \in Worker, DeadLettered(w)
      PROVE  TypeInv'
  BY <1>8 DEF DeadLettered
<1>9. ASSUME NEW w \in Worker, DlqPublishFails(w)
      PROVE  TypeInv'
  BY <1>9 DEF DlqPublishFails, Dies
<1>10. ASSUME NEW w \in Worker, Commit(w)
      PROVE  TypeInv'
  BY <1>10 DEF Commit
<1>11. ASSUME NEW w \in Worker, CommitFenced(w)
      PROVE  TypeInv'
  BY <1>11 DEF CommitFenced, Dies
<1>12. ASSUME NEW w \in Worker, PollNothing(w)
      PROVE  TypeInv'
  BY <1>12 DEF PollNothing, vars
<1>13. ASSUME NEW w \in Worker, Crash(w)
      PROVE  TypeInv'
  BY <1>13 DEF Crash, Dies
<1>14. ASSUME NEW w \in Worker, Evict(w)
      PROVE  TypeInv'
  BY <1>14 DEF Evict
<1>15. ASSUME NEW w \in Worker, DeliveryFails(w)
      PROVE  TypeInv'
  <2>1. PICK r \in queue[w] :
          /\ queue' = [queue EXCEPT ![w] = @ \ {r}]
          /\ dlqError' = [dlqError EXCEPT ![w] = @ \/ r[2] = 0]
          /\ unconfirmed' =
               IF r[2] = 0 THEN unconfirmed ELSE unconfirmed \cup {r[1]}
    BY <1>15 DEF DeliveryFails
  <2>2. dlqError' \in [Worker -> BOOLEAN]
    BY <2>1, Zenon
  <2>3. queue' \in [Worker -> SUBSET Record]
    BY <2>1
  <2>4. unconfirmed' \in SUBSET Offset
    <3>1. r[1] \in Offset
      OBVIOUS
    <3>2. unconfirmed' \in {unconfirmed, unconfirmed \cup {r[1]}}
      BY <2>1, Zenon
    <3> QED
      BY <3>1, <3>2
  <2>5. /\ faults < MaxFaults /\ faults' = faults + 1
        /\ UNCHANGED <<pc, cur, nout, pos, owner, committed, topic, done,
                       resets, skipped>>
    BY <1>15 DEF DeliveryFails
  <2> QED
    BY <2>2, <2>3, <2>4, <2>5
<1>16. ASSUME NEW m \in 1..(N + 1), ResetOffsets(m)
      PROVE  TypeInv'
  BY <1>16 DEF ResetOffsets
<1>17. ASSUME NEW w \in Worker, Revoked(w)
      PROVE  TypeInv'
  BY <1>17 DEF Revoked
<1>18. CASE UNCHANGED vars
  BY <1>18 DEF vars
<1> QED
  BY <1>1, <1>2, <1>3, <1>4, <1>5, <1>6, <1>7, <1>8, <1>9, <1>10, <1>11,
     <1>12, <1>13, <1>14, <1>15, <1>16, <1>17, <1>18
     DEF Next, Step, Fault

\* The state of the pods, the brokers and the group always has its type: for
\* instance the committed offset stays within the partition.
THEOREM TypeCorrect == Spec => []TypeOK
<1>1. Spec => []TypeInv
  BY TypeInit, TypeStep, PTL DEF Spec
<1>2. TypeInv => TypeOK
  BY DEF TypeInv
<1> QED
  BY <1>1, <1>2, PTL
-------------------------------------------------------------------------------
(* Safety *)

\* The group never lets two pods commit, and a pod that is assigned the
\* partition starts where the group stands.
LEMMA OwnerStep == TypeInv /\ OwnerInStep /\ [Next]_vars => OwnerInStep'
<1> SUFFICES ASSUME TypeInv, OwnerInStep, [Next]_vars
             PROVE  OwnerInStep'
  OBVIOUS
<1> USE SizeAssumption, WorkerAssumption, PoisonAssumption
    DEF TypeInv, TypeOK, CurIsOffset, OwnerInStep, State, Offset, Record
<1>1. ASSUME NEW w \in Worker, Start(w)
      PROVE  OwnerInStep'
  BY <1>1 DEF Start
<1>2. ASSUME NEW w \in Worker, Assign(w)
      PROVE  OwnerInStep'
  BY <1>2 DEF Assign
<1>3. ASSUME NEW w \in Worker, Deliver(w)
      PROVE  OwnerInStep'
  BY <1>3 DEF Deliver
<1>4. ASSUME NEW w \in Worker, Poll(w)
      PROVE  OwnerInStep'
  BY <1>4 DEF Poll
<1>5. ASSUME NEW w \in Worker, Publish(w)
      PROVE  OwnerInStep'
  BY <1>5 DEF Publish
<1>6. ASSUME NEW w \in Worker, Flush(w)
      PROVE  OwnerInStep'
  BY <1>6 DEF Flush
<1>7. ASSUME NEW w \in Worker, Reject(w)
      PROVE  OwnerInStep'
  BY <1>7 DEF Reject
<1>8. ASSUME NEW w \in Worker, DeadLettered(w)
      PROVE  OwnerInStep'
  BY <1>8 DEF DeadLettered
<1>9. ASSUME NEW w \in Worker, DlqPublishFails(w)
      PROVE  OwnerInStep'
  BY <1>9 DEF DlqPublishFails, Dies
<1>10. ASSUME NEW w \in Worker, Commit(w)
      PROVE  OwnerInStep'
  BY <1>10 DEF Commit
<1>11. ASSUME NEW w \in Worker, CommitFenced(w)
      PROVE  OwnerInStep'
  BY <1>11 DEF CommitFenced, Dies
<1>12. ASSUME NEW w \in Worker, PollNothing(w)
      PROVE  OwnerInStep'
  BY <1>12 DEF PollNothing, vars
<1>13. ASSUME NEW w \in Worker, Crash(w)
      PROVE  OwnerInStep'
  BY <1>13 DEF Crash, Dies
<1>14. ASSUME NEW w \in Worker, Evict(w)
      PROVE  OwnerInStep'
  BY <1>14 DEF Evict
<1>15. ASSUME NEW w \in Worker, DeliveryFails(w)
      PROVE  OwnerInStep'
  BY <1>15 DEF DeliveryFails
<1>16. ASSUME NEW m \in 1..(N + 1), ResetOffsets(m)
      PROVE  OwnerInStep'
  BY <1>16 DEF ResetOffsets
<1>17. ASSUME NEW w \in Worker, Revoked(w)
      PROVE  OwnerInStep'
  BY <1>17 DEF Revoked
<1>18. CASE UNCHANGED vars
  BY <1>18 DEF vars
<1> QED
  BY <1>1, <1>2, <1>3, <1>4, <1>5, <1>6, <1>7, <1>8, <1>9, <1>10, <1>11,
     <1>12, <1>13, <1>14, <1>15, <1>16, <1>17, <1>18
     DEF Next, Step, Fault

\* publish_to_dlq keeps track of its envelope until it is stored or known lost.
LEMMA DeadLetterStep ==
    TypeInv /\ DeadLetterPending /\ [Next]_vars => DeadLetterPending'
<1> SUFFICES ASSUME TypeInv, DeadLetterPending, [Next]_vars
             PROVE  DeadLetterPending'
  OBVIOUS
<1> USE SizeAssumption, WorkerAssumption, PoisonAssumption
    DEF TypeInv, TypeOK, CurIsOffset, DeadLetterPending, State, Offset, Record
<1>1. ASSUME NEW w \in Worker, Start(w)
      PROVE  DeadLetterPending'
  BY <1>1 DEF Start
<1>2. ASSUME NEW w \in Worker, Assign(w)
      PROVE  DeadLetterPending'
  BY <1>2 DEF Assign
<1>3. ASSUME NEW w \in Worker, Deliver(w)
      PROVE  DeadLetterPending'
  BY <1>3 DEF Deliver
<1>4. ASSUME NEW w \in Worker, Poll(w)
      PROVE  DeadLetterPending'
  BY <1>4 DEF Poll
<1>5. ASSUME NEW w \in Worker, Publish(w)
      PROVE  DeadLetterPending'
  BY <1>5 DEF Publish
<1>6. ASSUME NEW w \in Worker, Flush(w)
      PROVE  DeadLetterPending'
  BY <1>6 DEF Flush
<1>7. ASSUME NEW w \in Worker, Reject(w)
      PROVE  DeadLetterPending'
  BY <1>7 DEF Reject
<1>8. ASSUME NEW w \in Worker, DeadLettered(w)
      PROVE  DeadLetterPending'
  BY <1>8 DEF DeadLettered
<1>9. ASSUME NEW w \in Worker, DlqPublishFails(w)
      PROVE  DeadLetterPending'
  BY <1>9 DEF DlqPublishFails, Dies
<1>10. ASSUME NEW w \in Worker, Commit(w)
      PROVE  DeadLetterPending'
  BY <1>10 DEF Commit
<1>11. ASSUME NEW w \in Worker, CommitFenced(w)
      PROVE  DeadLetterPending'
  BY <1>11 DEF CommitFenced, Dies
<1>12. ASSUME NEW w \in Worker, PollNothing(w)
      PROVE  DeadLetterPending'
  BY <1>12 DEF PollNothing, vars
<1>13. ASSUME NEW w \in Worker, Crash(w)
      PROVE  DeadLetterPending'
  BY <1>13 DEF Crash, Dies
<1>14. ASSUME NEW w \in Worker, Evict(w)
      PROVE  DeadLetterPending'
  BY <1>14 DEF Evict
<1>15. ASSUME NEW w \in Worker, DeliveryFails(w)
      PROVE  DeadLetterPending'
  <2>1. PICK r \in queue[w] :
          /\ queue' = [queue EXCEPT ![w] = @ \ {r}]
          /\ dlqError' = [dlqError EXCEPT ![w] = @ \/ r[2] = 0]
    BY <1>15 DEF DeliveryFails
  <2>2. UNCHANGED <<pc, cur, topic>>
    BY <1>15 DEF DeliveryFails
  <2> SUFFICES ASSUME NEW v \in Worker, pc[v] = "deadletter"
               PROVE  /\ cur[v] \in Poison
                      /\ \/ <<cur[v], 0>> \in queue'[v] \cup topic
                         \/ dlqError'[v]
    BY <2>2 DEF DeadLetterPending
  <2>3. /\ cur[v] \in Poison
        /\ <<cur[v], 0>> \in queue[v] \cup topic \/ dlqError[v]
    BY DEF DeadLetterPending
  <2>4. CASE v # w
    <3>1. queue'[v] = queue[v] /\ dlqError'[v] = dlqError[v]
      BY <2>1, <2>4, Zenon
    <3> QED
      BY <2>3, <3>1
  <2>5. CASE v = w
    <3>1. /\ queue'[w] = queue[w] \ {r}
          /\ dlqError'[w] = (dlqError[w] \/ r[2] = 0)
      BY <2>1, Zenon
    <3>2. r = <<cur[v], 0>> => r[2] = 0
      OBVIOUS
    <3>3. CASE r = <<cur[v], 0>>
      BY <2>3, <2>5, <3>1, <3>2, <3>3, Zenon
    <3>4. CASE r # <<cur[v], 0>> /\ ~ dlqError[v]
      BY <2>3, <2>5, <3>1, <3>4, Zenon
    <3>5. CASE dlqError[v]
      BY <2>3, <2>5, <3>1, <3>5, Zenon
    <3> QED
      BY <3>3, <3>4, <3>5
  <2> QED
    BY <2>4, <2>5
<1>16. ASSUME NEW m \in 1..(N + 1), ResetOffsets(m)
      PROVE  DeadLetterPending'
  BY <1>16 DEF ResetOffsets
<1>17. ASSUME NEW w \in Worker, Revoked(w)
      PROVE  DeadLetterPending'
  BY <1>17 DEF Revoked
<1>18. CASE UNCHANGED vars
  BY <1>18 DEF vars
<1> QED
  BY <1>1, <1>2, <1>3, <1>4, <1>5, <1>6, <1>7, <1>8, <1>9, <1>10, <1>11,
     <1>12, <1>13, <1>14, <1>15, <1>16, <1>17, <1>18
     DEF Next, Step, Fault

\* process() keeps track of what it has published: nothing disappears from the
\* producer without being stored or counted as unconfirmed.
LEMMA OutputsPendingStep ==
    TypeInv /\ OutputsPending /\ [Next]_vars => OutputsPending'
<1> SUFFICES ASSUME TypeInv, OutputsPending, [Next]_vars
             PROVE  OutputsPending'
  OBVIOUS
<1> USE SizeAssumption, WorkerAssumption, PoisonAssumption
    DEF TypeInv, TypeOK, CurIsOffset, OutputsPending, State, Offset, Record
<1>1. ASSUME NEW w \in Worker, Start(w)
      PROVE  OutputsPending'
  BY <1>1 DEF Start
<1>2. ASSUME NEW w \in Worker, Assign(w)
      PROVE  OutputsPending'
  BY <1>2 DEF Assign
<1>3. ASSUME NEW w \in Worker, Deliver(w)
      PROVE  OutputsPending'
  BY <1>3 DEF Deliver
<1>4. ASSUME NEW w \in Worker, Poll(w)
      PROVE  OutputsPending'
  BY <1>4 DEF Poll
<1>5. ASSUME NEW w \in Worker, Publish(w)
      PROVE  OutputsPending'
  BY <1>5 DEF Publish
<1>6. ASSUME NEW w \in Worker, Flush(w)
      PROVE  OutputsPending'
  BY <1>6 DEF Flush
<1>7. ASSUME NEW w \in Worker, Reject(w)
      PROVE  OutputsPending'
  BY <1>7 DEF Reject
<1>8. ASSUME NEW w \in Worker, DeadLettered(w)
      PROVE  OutputsPending'
  BY <1>8 DEF DeadLettered
<1>9. ASSUME NEW w \in Worker, DlqPublishFails(w)
      PROVE  OutputsPending'
  BY <1>9 DEF DlqPublishFails, Dies
<1>10. ASSUME NEW w \in Worker, Commit(w)
      PROVE  OutputsPending'
  BY <1>10 DEF Commit
<1>11. ASSUME NEW w \in Worker, CommitFenced(w)
      PROVE  OutputsPending'
  BY <1>11 DEF CommitFenced, Dies
<1>12. ASSUME NEW w \in Worker, PollNothing(w)
      PROVE  OutputsPending'
  BY <1>12 DEF PollNothing, vars
<1>13. ASSUME NEW w \in Worker, Crash(w)
      PROVE  OutputsPending'
  BY <1>13 DEF Crash, Dies
<1>14. ASSUME NEW w \in Worker, Evict(w)
      PROVE  OutputsPending'
  BY <1>14 DEF Evict
<1>15. ASSUME NEW w \in Worker, DeliveryFails(w)
      PROVE  OutputsPending'
  BY <1>15 DEF DeliveryFails
<1>16. ASSUME NEW m \in 1..(N + 1), ResetOffsets(m)
      PROVE  OutputsPending'
  BY <1>16 DEF ResetOffsets
<1>17. ASSUME NEW w \in Worker, Revoked(w)
      PROVE  OutputsPending'
  BY <1>17 DEF Revoked
<1>18. CASE UNCHANGED vars
  BY <1>18 DEF vars
<1> QED
  BY <1>1, <1>2, <1>3, <1>4, <1>5, <1>6, <1>7, <1>8, <1>9, <1>10, <1>11,
     <1>12, <1>13, <1>14, <1>15, <1>16, <1>17, <1>18
     DEF Next, Step, Fault

\* handle_message reaches the commit only with a settled record.
LEMMA ReadyStep ==
    TypeInv /\ DeadLetterPending /\ ReadyToCommit /\ [Next]_vars => ReadyToCommit'
<1> SUFFICES ASSUME TypeInv, DeadLetterPending, ReadyToCommit, [Next]_vars
             PROVE  ReadyToCommit'
  OBVIOUS
<1> USE SizeAssumption, WorkerAssumption, PoisonAssumption
    DEF TypeInv, TypeOK, CurIsOffset, DeadLetterPending, ReadyToCommit, Settled,
        State, Offset, Record
<1>1. ASSUME NEW w \in Worker, Start(w)
      PROVE  ReadyToCommit'
  BY <1>1 DEF Start
<1>2. ASSUME NEW w \in Worker, Assign(w)
      PROVE  ReadyToCommit'
  BY <1>2 DEF Assign
<1>3. ASSUME NEW w \in Worker, Deliver(w)
      PROVE  ReadyToCommit'
  BY <1>3 DEF Deliver
<1>4. ASSUME NEW w \in Worker, Poll(w)
      PROVE  ReadyToCommit'
  BY <1>4 DEF Poll
<1>5. ASSUME NEW w \in Worker, Publish(w)
      PROVE  ReadyToCommit'
  BY <1>5 DEF Publish
<1>6. ASSUME NEW w \in Worker, Flush(w)
      PROVE  ReadyToCommit'
  BY <1>6 DEF Flush
<1>7. ASSUME NEW w \in Worker, Reject(w)
      PROVE  ReadyToCommit'
  BY <1>7 DEF Reject
<1>8. ASSUME NEW w \in Worker, DeadLettered(w)
      PROVE  ReadyToCommit'
  BY <1>8 DEF DeadLettered
<1>9. ASSUME NEW w \in Worker, DlqPublishFails(w)
      PROVE  ReadyToCommit'
  BY <1>9 DEF DlqPublishFails, Dies
<1>10. ASSUME NEW w \in Worker, Commit(w)
      PROVE  ReadyToCommit'
  BY <1>10 DEF Commit
<1>11. ASSUME NEW w \in Worker, CommitFenced(w)
      PROVE  ReadyToCommit'
  BY <1>11 DEF CommitFenced, Dies
<1>12. ASSUME NEW w \in Worker, PollNothing(w)
      PROVE  ReadyToCommit'
  BY <1>12 DEF PollNothing, vars
<1>13. ASSUME NEW w \in Worker, Crash(w)
      PROVE  ReadyToCommit'
  BY <1>13 DEF Crash, Dies
<1>14. ASSUME NEW w \in Worker, Evict(w)
      PROVE  ReadyToCommit'
  BY <1>14 DEF Evict
<1>15. ASSUME NEW w \in Worker, DeliveryFails(w)
      PROVE  ReadyToCommit'
  BY <1>15 DEF DeliveryFails
<1>16. ASSUME NEW m \in 1..(N + 1), ResetOffsets(m)
      PROVE  ReadyToCommit'
  BY <1>16 DEF ResetOffsets
<1>17. ASSUME NEW w \in Worker, Revoked(w)
      PROVE  ReadyToCommit'
  BY <1>17 DEF Revoked
<1>18. CASE UNCHANGED vars
  BY <1>18 DEF vars
<1> QED
  BY <1>1, <1>2, <1>3, <1>4, <1>5, <1>6, <1>7, <1>8, <1>9, <1>10, <1>11,
     <1>12, <1>13, <1>14, <1>15, <1>16, <1>17, <1>18
     DEF Next, Step, Fault

\* Only the owner commits, and it commits the record the group stands at.
LEMMA CommittedStep ==
    TypeInv /\ OwnerInStep /\ ReadyToCommit /\ CommittedHandled /\ [Next]_vars
        => CommittedHandled'
<1> SUFFICES ASSUME TypeInv, OwnerInStep, ReadyToCommit, CommittedHandled, [Next]_vars
             PROVE  CommittedHandled'
  OBVIOUS
<1> USE SizeAssumption, WorkerAssumption, PoisonAssumption
    DEF TypeInv, TypeOK, CurIsOffset, OwnerInStep, ReadyToCommit,
        CommittedHandled, Settled, State, Offset, Record
<1>1. ASSUME NEW w \in Worker, Start(w)
      PROVE  CommittedHandled'
  BY <1>1 DEF Start
<1>2. ASSUME NEW w \in Worker, Assign(w)
      PROVE  CommittedHandled'
  BY <1>2 DEF Assign
<1>3. ASSUME NEW w \in Worker, Deliver(w)
      PROVE  CommittedHandled'
  BY <1>3 DEF Deliver
<1>4. ASSUME NEW w \in Worker, Poll(w)
      PROVE  CommittedHandled'
  BY <1>4 DEF Poll
<1>5. ASSUME NEW w \in Worker, Publish(w)
      PROVE  CommittedHandled'
  BY <1>5 DEF Publish
<1>6. ASSUME NEW w \in Worker, Flush(w)
      PROVE  CommittedHandled'
  BY <1>6 DEF Flush
<1>7. ASSUME NEW w \in Worker, Reject(w)
      PROVE  CommittedHandled'
  BY <1>7 DEF Reject
<1>8. ASSUME NEW w \in Worker, DeadLettered(w)
      PROVE  CommittedHandled'
  BY <1>8 DEF DeadLettered
<1>9. ASSUME NEW w \in Worker, DlqPublishFails(w)
      PROVE  CommittedHandled'
  BY <1>9 DEF DlqPublishFails, Dies
<1>10. ASSUME NEW w \in Worker, Commit(w)
      PROVE  CommittedHandled'
  BY <1>10 DEF Commit
<1>11. ASSUME NEW w \in Worker, CommitFenced(w)
      PROVE  CommittedHandled'
  BY <1>11 DEF CommitFenced, Dies
<1>12. ASSUME NEW w \in Worker, PollNothing(w)
      PROVE  CommittedHandled'
  BY <1>12 DEF PollNothing, vars
<1>13. ASSUME NEW w \in Worker, Crash(w)
      PROVE  CommittedHandled'
  BY <1>13 DEF Crash, Dies
<1>14. ASSUME NEW w \in Worker, Evict(w)
      PROVE  CommittedHandled'
  BY <1>14 DEF Evict
<1>15. ASSUME NEW w \in Worker, DeliveryFails(w)
      PROVE  CommittedHandled'
  BY <1>15 DEF DeliveryFails
<1>16. ASSUME NEW m \in 1..(N + 1), ResetOffsets(m)
      PROVE  CommittedHandled'
  BY <1>16 DEF ResetOffsets
<1>17. ASSUME NEW w \in Worker, Revoked(w)
      PROVE  CommittedHandled'
  BY <1>17 DEF Revoked
<1>18. CASE UNCHANGED vars
  BY <1>18 DEF vars
<1> QED
  BY <1>1, <1>2, <1>3, <1>4, <1>5, <1>6, <1>7, <1>8, <1>9, <1>10, <1>11,
     <1>12, <1>13, <1>14, <1>15, <1>16, <1>17, <1>18
     DEF Next, Step, Fault

\* When process() returns, an output that is neither stored nor unconfirmed
\* would still have to be in the queue the flush has just looked at.
LEMMA OutputsConfirmedStep ==
    TypeInv /\ OutputsPending /\ OutputsConfirmed /\ [Next]_vars
        => OutputsConfirmed'
<1> SUFFICES ASSUME TypeInv, OutputsPending, OutputsConfirmed, [Next]_vars
             PROVE  OutputsConfirmed'
  OBVIOUS
<1> USE SizeAssumption, WorkerAssumption, PoisonAssumption
    DEF TypeInv, TypeOK, CurIsOffset, OutputsPending, OutputsConfirmed,
        State, Offset, Record
<1>1. ASSUME NEW w \in Worker, Start(w)
      PROVE  OutputsConfirmed'
  BY <1>1 DEF Start
<1>2. ASSUME NEW w \in Worker, Assign(w)
      PROVE  OutputsConfirmed'
  BY <1>2 DEF Assign
<1>3. ASSUME NEW w \in Worker, Deliver(w)
      PROVE  OutputsConfirmed'
  BY <1>3 DEF Deliver
<1>4. ASSUME NEW w \in Worker, Poll(w)
      PROVE  OutputsConfirmed'
  BY <1>4 DEF Poll
<1>5. ASSUME NEW w \in Worker, Publish(w)
      PROVE  OutputsConfirmed'
  BY <1>5 DEF Publish
<1>6. ASSUME NEW w \in Worker, Flush(w)
      PROVE  OutputsConfirmed'
  <2> SUFFICES ASSUME NEW m \in done', m \notin unconfirmed', NEW k \in 1..K
               PROVE  <<m, k>> \in topic
    BY <1>6 DEF Flush
  <2>1. /\ done' = done \cup {cur[w]} /\ nout[w] = K /\ pc[w] = "processing"
        /\ unconfirmed' = unconfirmed \cup {r[1] : r \in queue[w]}
    BY <1>6 DEF Flush
  <2>2. CASE m \in done
    BY <2>1, <2>2
  <2>3. CASE m = cur[w]
    <3>1. <<m, k>> \in queue[w] \cup topic
      BY <2>1, <2>3
    <3>2. <<m, k>> \notin queue[w]
      BY <2>1
    <3> QED
      BY <3>1, <3>2
  <2> QED
    BY <2>1, <2>2, <2>3
<1>7. ASSUME NEW w \in Worker, Reject(w)
      PROVE  OutputsConfirmed'
  BY <1>7 DEF Reject
<1>8. ASSUME NEW w \in Worker, DeadLettered(w)
      PROVE  OutputsConfirmed'
  BY <1>8 DEF DeadLettered
<1>9. ASSUME NEW w \in Worker, DlqPublishFails(w)
      PROVE  OutputsConfirmed'
  BY <1>9 DEF DlqPublishFails, Dies
<1>10. ASSUME NEW w \in Worker, Commit(w)
      PROVE  OutputsConfirmed'
  BY <1>10 DEF Commit
<1>11. ASSUME NEW w \in Worker, CommitFenced(w)
      PROVE  OutputsConfirmed'
  BY <1>11 DEF CommitFenced, Dies
<1>12. ASSUME NEW w \in Worker, PollNothing(w)
      PROVE  OutputsConfirmed'
  BY <1>12 DEF PollNothing, vars
<1>13. ASSUME NEW w \in Worker, Crash(w)
      PROVE  OutputsConfirmed'
  BY <1>13 DEF Crash, Dies
<1>14. ASSUME NEW w \in Worker, Evict(w)
      PROVE  OutputsConfirmed'
  BY <1>14 DEF Evict
<1>15. ASSUME NEW w \in Worker, DeliveryFails(w)
      PROVE  OutputsConfirmed'
  BY <1>15 DEF DeliveryFails
<1>16. ASSUME NEW m \in 1..(N + 1), ResetOffsets(m)
      PROVE  OutputsConfirmed'
  BY <1>16 DEF ResetOffsets
<1>17. ASSUME NEW w \in Worker, Revoked(w)
      PROVE  OutputsConfirmed'
  BY <1>17 DEF Revoked
<1>18. CASE UNCHANGED vars
  BY <1>18 DEF vars
<1> QED
  BY <1>1, <1>2, <1>3, <1>4, <1>5, <1>6, <1>7, <1>8, <1>9, <1>10, <1>11,
     <1>12, <1>13, <1>14, <1>15, <1>16, <1>17, <1>18
     DEF Next, Step, Fault

LEMMA IInvInit == Init => IInv
BY SizeAssumption, BoundAssumption, WorkerAssumption, TypeInit
   DEF Init, IInv, TypeInv, OwnerInStep, ReadyToCommit, DeadLetterPending,
       OutputsPending, CommittedHandled, OutputsConfirmed, Offset

\* IInv with the type invariant that the step lemmas share.
LEMMA IInvStep ==
    TypeInv /\ IInv /\ [Next]_vars => IInv'
<1> SUFFICES ASSUME TypeInv, IInv, [Next]_vars
             PROVE  IInv'
  OBVIOUS
<1>1. TypeOK'
  BY TypeStep DEF TypeInv
<1>2. OwnerInStep'
  BY OwnerStep DEF IInv
<1>3. ReadyToCommit'
  BY ReadyStep DEF IInv
<1>4. DeadLetterPending'
  BY DeadLetterStep DEF IInv
<1>5. OutputsPending'
  BY OutputsPendingStep DEF IInv
<1>6. CommittedHandled'
  BY CommittedStep DEF IInv
<1>7. OutputsConfirmed'
  BY OutputsConfirmedStep DEF IInv
<1> QED
  BY <1>1, <1>2, <1>3, <1>4, <1>5, <1>6, <1>7 DEF IInv

LEMMA Inductive == Spec => [](TypeInv /\ IInv)
BY TypeInit, TypeStep, IInvInit, IInvStep, PTL DEF Spec

\* The committed offset never passes a record that was neither processed nor
\* dead-lettered, for any number of pods, records, outputs and faults.
THEOREM CommittedHandledAlways == Spec => []CommittedHandled
<1>1. IInv => CommittedHandled
  BY DEF IInv
<1> QED
  BY <1>1, Inductive, PTL

\* The owner of the partition always works on the committed offset.
THEOREM OwnerInStepAlways == Spec => []OwnerInStep
<1>1. IInv => OwnerInStep
  BY DEF IInv
<1> QED
  BY <1>1, Inductive, PTL

\* Every output of a processed record is stored downstream unless a flush timed
\* out on it or its delivery failed.
THEOREM OutputsConfirmedAlways == Spec => []OutputsConfirmed
<1>1. IInv => OutputsConfirmed
  BY DEF IInv
<1> QED
  BY <1>1, Inductive, PTL

-------------------------------------------------------------------------------
(* The worker implements the consumer contract. *)

LEMMA ContractInit == Init => Contract!Init
BY DEF Init, Contract!Init, Handled

LEMMA ContractStep ==
    TypeInv /\ IInv /\ [Next]_vars => [Contract!Next]_(Contract!vars)
<1> SUFFICES ASSUME TypeInv, IInv, [Next]_vars
             PROVE  [Contract!Next]_(Contract!vars)
  OBVIOUS
<1> USE SizeAssumption, PoisonAssumption
<1>1. ASSUME NEW w \in Worker, Deliver(w)
      PROVE  Contract!Next \/ UNCHANGED Contract!vars
  <2>1. PICK r \in queue[w] : topic' = topic \cup {r}
    BY <1>1 DEF Deliver
  <2>2. UNCHANGED <<committed, resets, done>>
    BY <1>1 DEF Deliver
  <2>3. r \in Record
    BY DEF TypeInv, TypeOK
  <2>4. CASE r[2] = 0
    <3>1. r = <<r[1], 0>> /\ r[1] \in 1..N
      BY <2>3, <2>4 DEF Record, Offset
    <3>2. Handled' = Handled \cup {r[1]}
      BY <2>1, <2>2, <3>1 DEF Handled, Offset
    <3>3. Contract!Handle(r[1])
      BY <2>2, <3>2 DEF Contract!Handle
    <3> QED
      BY <3>1, <3>3 DEF Contract!Next
  <2>5. CASE r[2] # 0
    <3>1. Handled' = Handled
      BY <2>1, <2>2, <2>3, <2>5 DEF Handled, Offset, Record
    <3> QED
      BY <2>2, <3>1 DEF Contract!vars
  <2> QED
    BY <2>4, <2>5
<1>2. ASSUME NEW w \in Worker, Flush(w)
      PROVE  Contract!Next
  <2>1. /\ cur[w] \in 1..N
        /\ done' = done \cup {cur[w]}
        /\ UNCHANGED <<committed, resets, topic>>
    BY <1>2 DEF Flush, TypeInv, CurIsOffset, Offset
  <2>2. Handled' = Handled \cup {cur[w]}
    BY <2>1 DEF Handled
  <2>3. Contract!Handle(cur[w])
    BY <2>1, <2>2 DEF Contract!Handle
  <2> QED
    BY <2>1, <2>3 DEF Contract!Next
<1>3. ASSUME NEW w \in Worker, Commit(w)
      PROVE  Contract!Next
  <2>1. /\ cur[w] = committed /\ cur[w] \in Offset /\ Settled(cur[w])
        /\ committed' = cur[w] + 1
        /\ UNCHANGED <<done, topic, resets>>
    BY <1>3 DEF Commit, IInv, OwnerInStep, ReadyToCommit
  <2>2. committed \in Handled /\ Handled' = Handled
    BY <2>1 DEF Handled, Settled
  <2>3. cur[w] + 1 \in 1..(N + 1) /\ committed..(cur[w] + 1 - 1) = {committed}
    BY <2>1 DEF Offset
  <2>4. Contract!Commit(cur[w] + 1)
    BY <2>1, <2>2, <2>3 DEF Contract!Commit, Offset
  <2> QED
    BY <2>3, <2>4 DEF Contract!Next
<1>4. ASSUME NEW m \in 1..(N + 1), ResetOffsets(m)
      PROVE  Contract!Next
  <2>1. Handled' = Handled
    BY <1>4 DEF ResetOffsets, Handled
  <2>2. Contract!Reset(m)
    BY <1>4, <2>1 DEF ResetOffsets, Contract!Reset
  <2> QED
    BY <2>2 DEF Contract!Next
<1>5. ASSUME UNCHANGED <<committed, resets, done, topic>>
      PROVE  UNCHANGED Contract!vars
  BY <1>5 DEF Contract!vars, Handled
<1>6. ASSUME NEW w \in Worker, Start(w)
      PROVE  UNCHANGED <<committed, resets, done, topic>>
  BY <1>6 DEF Start
<1>7. ASSUME NEW w \in Worker, Assign(w)
      PROVE  UNCHANGED <<committed, resets, done, topic>>
  BY <1>7 DEF Assign
<1>8. ASSUME NEW w \in Worker, Poll(w)
      PROVE  UNCHANGED <<committed, resets, done, topic>>
  BY <1>8 DEF Poll
<1>9. ASSUME NEW w \in Worker, Publish(w)
      PROVE  UNCHANGED <<committed, resets, done, topic>>
  BY <1>9 DEF Publish
<1>10. ASSUME NEW w \in Worker, Reject(w)
      PROVE  UNCHANGED <<committed, resets, done, topic>>
  BY <1>10 DEF Reject
<1>11. ASSUME NEW w \in Worker, DeadLettered(w)
      PROVE  UNCHANGED <<committed, resets, done, topic>>
  BY <1>11 DEF DeadLettered
<1>12. ASSUME NEW w \in Worker, DlqPublishFails(w)
      PROVE  UNCHANGED <<committed, resets, done, topic>>
  BY <1>12 DEF DlqPublishFails
<1>13. ASSUME NEW w \in Worker, CommitFenced(w)
      PROVE  UNCHANGED <<committed, resets, done, topic>>
  BY <1>13 DEF CommitFenced
<1>14. ASSUME NEW w \in Worker, PollNothing(w)
      PROVE  UNCHANGED <<committed, resets, done, topic>>
  BY <1>14 DEF PollNothing, vars
<1>15. ASSUME NEW w \in Worker, Crash(w)
      PROVE  UNCHANGED <<committed, resets, done, topic>>
  BY <1>15 DEF Crash
<1>16. ASSUME NEW w \in Worker, Evict(w)
      PROVE  UNCHANGED <<committed, resets, done, topic>>
  BY <1>16 DEF Evict
<1>17. ASSUME NEW w \in Worker, DeliveryFails(w)
      PROVE  UNCHANGED <<committed, resets, done, topic>>
  BY <1>17 DEF DeliveryFails
<1>18. ASSUME NEW w \in Worker, Revoked(w)
      PROVE  UNCHANGED <<committed, resets, done, topic>>
  BY <1>18 DEF Revoked
<1>19. CASE UNCHANGED vars
  BY <1>5, <1>19 DEF vars
<1> QED
  BY <1>1, <1>2, <1>3, <1>4, <1>5, <1>6, <1>7, <1>8, <1>9, <1>10, <1>11,
     <1>12, <1>13, <1>14, <1>15, <1>16, <1>17, <1>18, <1>19
     DEF Next, Step, Fault

\* Every behaviour of the worker group is a behaviour of the contract: records
\* are committed in order and only once handled, except when an operator resets
\* the group.
THEOREM ImplementsContract == Spec => ContractSpec
<1>1. Spec => Contract!Init /\ [][Contract!Next]_(Contract!vars)
  BY ContractInit, ContractStep, Inductive, PTL DEF Spec
<1> QED
  BY <1>1 DEF ContractSpec, Contract!Spec
==============================================================================
