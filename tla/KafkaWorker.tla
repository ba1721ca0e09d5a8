----------------------------- MODULE KafkaWorker -----------------------------
(***************************************************************************)
(* The consume loop that the nine Python workers share: poll one record,   *)
(* run the worker's process(), and let handle_message of                   *)
(* services/python_common/poison_message.py decide between commit, dead    *)
(* letter and crash.                                                       *)
(*                                                                         *)
(* One input partition with records 1..N is read by the pods of one        *)
(* consumer group.  process() hands K output records to the producer,      *)
(* whose background thread delivers them; flush(10) waits for that thread  *)
(* and gives up after ten seconds.  A pod can die at any moment, or lose   *)
(* its group membership and work on without knowing; an operator can move  *)
(* the group's offset.                                                     *)
(*                                                                         *)
(* An output record is <<m, k>>: the k-th output of input record m.  The   *)
(* dead-letter envelope of m is <<m, 0>>.                                  *)
(***************************************************************************)
EXTENDS Naturals

CONSTANTS Worker,     \* the pods of the consumer group
          NoWorker,   \* "no pod owns the partition"
          N,          \* records in the input partition
          K,          \* output records published for one input record
          Poison,     \* records for which process() raises ValueError
          MaxFaults,  \* bound: crashes, evictions and failed deliveries
          MaxResets   \* bound: offset resets by an operator

ASSUME WorkerAssumption == NoWorker \notin Worker
ASSUME SizeAssumption == N \in Nat /\ K \in Nat
ASSUME PoisonAssumption == Poison \subseteq 1..N
ASSUME BoundAssumption == MaxFaults \in Nat /\ MaxResets \in Nat

VARIABLES
    pc,          \* pc[w]: where pod w is in its loop
    cur,         \* cur[w]: the record pod w is handling
    nout,        \* nout[w]: how many outputs of cur[w] it has published
    pos,         \* pos[w]: the next offset w's consumer returns; 0 when it
                 \* believes that it has no partition
    queue,       \* queue[w]: records in w's producer, not yet acknowledged
    dlqError,    \* dlqError[w]: delivery_error of publish_to_dlq
    owner,       \* the pod the partition is assigned to
    committed,   \* the group's committed offset (next record to deliver)
    topic,       \* output and dead-letter records stored by the brokers
    done,        \* history: records for which process() has returned
    unconfirmed, \* history: records an output of which was given up on
    faults,      \* crashes, evictions and failed deliveries so far
    resets,      \* offset resets so far
    skipped      \* history: records an operator's reset has jumped over

vars == <<pc, cur, nout, pos, queue, dlqError,
          owner, committed, topic, done, unconfirmed, faults, resets, skipped>>

Offset == 1..N
Record == Offset \X (0..K)
State  == {"down", "idle", "processing", "deadletter", "commit"}

Init ==
    /\ pc = [w \in Worker |-> "down"]
    /\ cur = [w \in Worker |-> 0]
    /\ nout = [w \in Worker |-> 0]
    /\ pos = [w \in Worker |-> 0]
    /\ queue = [w \in Worker |-> {}]
    /\ dlqError = [w \in Worker |-> FALSE]
    /\ owner = NoWorker
    /\ committed = 1
    /\ topic = {}
    /\ done = {}
    /\ unconfirmed = {}
    /\ faults = 0
    /\ resets = 0
    /\ skipped = {}

-------------------------------------------------------------------------------
(* The consumer group, as the brokers and the client library provide it.  *)

\* Kubernetes starts the pod's process; main() subscribes to the topic.
Start(w) ==
    /\ pc[w] = "down"
    /\ pc' = [pc EXCEPT ![w] = "idle"]
    /\ pos' = [pos EXCEPT ![w] = 0]
    /\ UNCHANGED <<cur, nout, queue, dlqError, owner, committed, topic,
                   done, unconfirmed, faults, resets, skipped>>

\* Faulty variant: the consumer resumes at its own last position.
AssignKeepingPosition(w) ==
    /\ owner = NoWorker
    /\ pc[w] = "idle"
    /\ owner' = w
    /\ UNCHANGED <<pc, cur, nout, pos, queue, dlqError, committed, topic, done,
                   unconfirmed, faults, resets, skipped>>

\* The group assigns the partition to a pod that is polling.  Its consumer
\* starts at the committed offset (earliest when there is none).
Assign(w) ==
    /\ owner = NoWorker
    /\ pc[w] = "idle"
    /\ owner' = w
    /\ pos' = [pos EXCEPT ![w] = committed]
    /\ UNCHANGED <<pc, cur, nout, queue, dlqError, committed, topic, done,
                   unconfirmed, faults, resets, skipped>>

\* The owner loses the partition: a rebalance, an expired session or an
\* exceeded max.poll.interval.  The pod itself keeps running what it runs and
\* may still return records it has fetched before.
Evict(w) ==
    /\ owner = w
    /\ faults < MaxFaults
    /\ owner' = NoWorker
    /\ faults' = faults + 1
    /\ UNCHANGED <<pc, cur, nout, pos, queue, dlqError, committed, topic,
                   done, unconfirmed, resets, skipped>>

\* An evicted pod learns of it in poll and drops what it has fetched.
Revoked(w) ==
    /\ pc[w] = "idle"
    /\ owner # w
    /\ pos[w] # 0
    /\ pos' = [pos EXCEPT ![w] = 0]
    /\ UNCHANGED <<pc, cur, nout, queue, dlqError, owner, committed, topic,
                   done, unconfirmed, faults, resets, skipped>>

\* The producer's background thread gets an acknowledgement for a record.
Deliver(w) ==
    \E r \in queue[w] :
        /\ queue' = [queue EXCEPT ![w] = @ \ {r}]
        /\ topic' = topic \cup {r}
        /\ UNCHANGED <<pc, cur, nout, pos, dlqError, owner, committed, done,
                       unconfirmed, faults, resets, skipped>>

\* The producer drops a record whose delivery finally failed.  Only the
\* dead-letter publish registered a callback that looks at the error.
DeliveryFails(w) ==
    /\ faults < MaxFaults
    /\ faults' = faults + 1
    /\ \E r \in queue[w] :
        /\ queue' = [queue EXCEPT ![w] = @ \ {r}]
        /\ dlqError' = [dlqError EXCEPT ![w] = @ \/ r[2] = 0]
        /\ unconfirmed' =
             IF r[2] = 0 THEN unconfirmed ELSE unconfirmed \cup {r[1]}
    /\ UNCHANGED <<pc, cur, nout, pos, owner, committed, topic, done, resets,
                   skipped>>

-------------------------------------------------------------------------------
(* The worker's loop and handle_message.                                   *)

\* consumer.poll returns the next record and handle_one_message begins.
Poll(w) ==
    /\ pc[w] = "idle"
    /\ pos[w] \in Offset
    /\ cur' = [cur EXCEPT ![w] = pos[w]]
    /\ pos' = [pos EXCEPT ![w] = pos[w] + 1]
    /\ nout' = [nout EXCEPT ![w] = 0]
    /\ pc' = [pc EXCEPT ![w] = "processing"]
    /\ UNCHANGED <<queue, dlqError, owner, committed, topic, done,
                   unconfirmed, faults, resets, skipped>>

\* consumer.poll returns nothing within a second and the loop goes round.
PollNothing(w) ==
    /\ pc[w] = "idle"
    /\ pos[w] \notin Offset
    /\ UNCHANGED vars

\* Faulty variant: the last output is produced after the flush, so never seen
\* by it (here: not at all).
PublishAllButLast(w) ==
    /\ pc[w] = "processing"
    /\ cur[w] \notin Poison
    /\ nout[w] < K
    /\ nout' = [nout EXCEPT ![w] = @ + 1]
    /\ queue' = IF nout[w] + 1 = K
                THEN queue
                ELSE [queue EXCEPT ![w] = @ \cup {<<cur[w], nout[w] + 1>>}]
    /\ UNCHANGED <<pc, cur, pos, dlqError, owner, committed, topic, done,
                   unconfirmed, faults, resets, skipped>>

\* process() hands its next output to the producer, which only queues it.
Publish(w) ==
    /\ pc[w] = "processing"
    /\ cur[w] \notin Poison
    /\ nout[w] < K
    /\ nout' = [nout EXCEPT ![w] = @ + 1]
    /\ queue' = [queue EXCEPT ![w] = @ \cup {<<cur[w], nout[w] + 1>>}]
    /\ UNCHANGED <<pc, cur, pos, dlqError, owner, committed, topic, done,
                   unconfirmed, faults, resets, skipped>>

\* process() ends with producer.flush(10).  The number of records still
\* undelivered is not looked at: the queue may or may not be empty.
Flush(w) ==
    /\ pc[w] = "processing"
    /\ cur[w] \notin Poison
    /\ nout[w] = K
    /\ pc' = [pc EXCEPT ![w] = "commit"]
    /\ done' = done \cup {cur[w]}
    /\ unconfirmed' = unconfirmed \cup {r[1] : r \in queue[w]}
    /\ UNCHANGED <<cur, nout, pos, queue, dlqError, owner, committed, topic,
                   faults, resets, skipped>>

\* Faulty variant: every exception is transient, the state before the
\* poison-message helper existed.
RejectByCrashing(w) ==
    /\ pc[w] = "processing"
    /\ cur[w] \in Poison
    /\ pc' = [pc EXCEPT ![w] = "down"]
    /\ owner' = IF owner = w THEN NoWorker ELSE owner
    /\ UNCHANGED <<cur, nout, pos, queue, dlqError, committed, topic, done,
                   unconfirmed, faults, resets, skipped>>

\* process() raises ValueError: the envelope goes to the dead-letter topic.
Reject(w) ==
    /\ pc[w] = "processing"
    /\ cur[w] \in Poison
    /\ pc' = [pc EXCEPT ![w] = "deadletter"]
    /\ dlqError' = [dlqError EXCEPT ![w] = FALSE]
    /\ queue' = [queue EXCEPT ![w] = @ \cup {<<cur[w], 0>>}]
    /\ UNCHANGED <<cur, nout, pos, owner, committed, topic, done,
                   unconfirmed, faults, resets, skipped>>

\* Faulty variant: the result of flush is ignored here as well.
DeadLetteredUnconfirmed(w) ==
    /\ pc[w] = "deadletter"
    /\ pc' = [pc EXCEPT ![w] = "commit"]
    /\ UNCHANGED <<cur, nout, pos, queue, dlqError, owner, committed, topic,
                   done, unconfirmed, faults, resets, skipped>>

\* publish_to_dlq returns: flush left nothing behind and no error was seen.
DeadLettered(w) ==
    /\ pc[w] = "deadletter"
    /\ queue[w] = {}
    /\ ~ dlqError[w]
    /\ pc' = [pc EXCEPT ![w] = "commit"]
    /\ UNCHANGED <<cur, nout, pos, queue, dlqError, owner, committed, topic,
                   done, unconfirmed, faults, resets, skipped>>

\* The process ends and its consumer and producer with it.  Records still in
\* the producer's queue are lost.
Dies(w) ==
    /\ pc' = [pc EXCEPT ![w] = "down"]
    /\ queue' = [queue EXCEPT ![w] = {}]
    /\ owner' = IF owner = w THEN NoWorker ELSE owner

\* An exception that is not a ValueError, a transport error returned by poll,
\* a signal or a node failure ends the process; nothing is committed.
Crash(w) ==
    /\ pc[w] # "down"
    /\ faults < MaxFaults
    /\ faults' = faults + 1
    /\ Dies(w)
    /\ UNCHANGED <<cur, nout, pos, dlqError, committed, topic, done,
                   unconfirmed, resets, skipped>>

\* publish_to_dlq raises DlqPublishError, for a timeout or for a delivery
\* error; it is not a ValueError, so the process ends without a commit.  The
\* timeouts are bounded, the delivery errors already are.
DlqPublishFails(w) ==
    /\ pc[w] = "deadletter"
    /\ \/ /\ queue[w] # {}
          /\ faults < MaxFaults
          /\ faults' = faults + 1
       \/ /\ queue[w] = {}
          /\ dlqError[w]
          /\ UNCHANGED faults
    /\ Dies(w)
    /\ UNCHANGED <<cur, nout, pos, dlqError, committed, topic, done,
                   unconfirmed, resets, skipped>>

\* Faulty variant: an asynchronous commit that nobody fences, by a pod that
\* may have lost the partition.
CommitUnfenced(w) ==
    /\ pc[w] = "commit"
    /\ committed' = cur[w] + 1
    /\ pc' = [pc EXCEPT ![w] = "idle"]
    /\ UNCHANGED <<cur, nout, pos, queue, dlqError, owner, topic, done,
                   unconfirmed, faults, resets, skipped>>

\* Faulty variant: the offset is counted up twice.
CommitPastEnd(w) ==
    /\ pc[w] = "commit"
    /\ owner = w
    /\ committed' = cur[w] + 2
    /\ pc' = [pc EXCEPT ![w] = "idle"]
    /\ UNCHANGED <<cur, nout, pos, queue, dlqError, owner, topic, done,
                   unconfirmed, faults, resets, skipped>>

\* consumer.commit(message, asynchronous=False): the group coordinator takes
\* it from the pod that owns the partition.
Commit(w) ==
    /\ pc[w] = "commit"
    /\ owner = w
    /\ committed' = cur[w] + 1
    /\ pc' = [pc EXCEPT ![w] = "idle"]
    /\ UNCHANGED <<cur, nout, pos, queue, dlqError, owner, topic, done,
                   unconfirmed, faults, resets, skipped>>

\* The coordinator refuses the commit of a pod that has lost the partition;
\* commit raises KafkaException, which ends the process.
CommitFenced(w) ==
    /\ pc[w] = "commit"
    /\ owner # w
    /\ Dies(w)
    /\ UNCHANGED <<cur, nout, pos, dlqError, committed, topic, done,
                   unconfirmed, faults, resets, skipped>>

-------------------------------------------------------------------------------
\* scripts/single-server/replay-kafka.sh moves the group's offset to the first
\* record at or after --to-datetime: record m, or N + 1 for a time after the
\* last record.  Nothing in the script compares it with the current offset, so
\* it may also move forward.  The Kafka tool refuses while a group has members.
ResetOffsets(m) ==
    /\ resets < MaxResets
    /\ owner = NoWorker
    /\ \A w \in Worker : pc[w] # "idle"
    /\ committed' = m
    /\ skipped' = skipped \cup (committed..(m - 1))
    /\ resets' = resets + 1
    /\ UNCHANGED <<pc, cur, nout, pos, queue, dlqError, owner, topic, done,
                   unconfirmed, faults>>

Step(w) ==
    \/ Start(w)
    \/ Assign(w)
    \/ Revoked(w)
    \/ Deliver(w)
    \/ Poll(w)
    \/ Publish(w)
    \/ Flush(w)
    \/ Reject(w)
    \/ DeadLettered(w)
    \/ DlqPublishFails(w)
    \/ Commit(w)
    \/ CommitFenced(w)

Fault(w) ==
    \/ Crash(w)
    \/ Evict(w)
    \/ DeliveryFails(w)

Next ==
    \/ \E w \in Worker : Step(w) \/ PollNothing(w) \/ Fault(w)
    \/ \E m \in 1..(N + 1) : ResetOffsets(m)

Spec == Init /\ [][Next]_vars

(* The pods, the brokers and Kubernetes keep working between faults, and   *)
(* the faults are finitely many (MaxFaults).  poll, flush and commit all   *)
(* have timeouts, so a pod that can take a step eventually takes one.      *)
FairSpec == Spec /\ \A w \in Worker : WF_vars(Step(w))

-------------------------------------------------------------------------------
(* Properties                                                              *)

TypeOK ==
    /\ pc \in [Worker -> State]
    /\ cur \in [Worker -> 0..N]
    /\ nout \in [Worker -> 0..K]
    /\ pos \in [Worker -> 0..(N + 1)]
    /\ queue \in [Worker -> SUBSET Record]
    /\ dlqError \in [Worker -> BOOLEAN]
    /\ owner \in Worker \cup {NoWorker}
    /\ committed \in 1..(N + 1)
    /\ topic \in SUBSET Record
    /\ done \in SUBSET Offset
    /\ unconfirmed \in SUBSET Offset
    /\ faults \in 0..MaxFaults
    /\ resets \in 0..MaxResets
    /\ skipped \in SUBSET Offset

\* Processing is over for a record: a poison record's envelope is stored in the
\* dead-letter topic, any other record's process() has returned.
Settled(m) == IF m \in Poison THEN <<m, 0>> \in topic ELSE m \in done

\* Whatever crashes, evictions, overlapping pods and replays happen, the
\* committed offset never passes a record that handle_message has not settled,
\* unless an operator's reset jumped over it (poison_message.py:184-198).
CommittedHandled ==
    \A m \in Offset : m < committed /\ m \notin skipped => Settled(m)

\* The pod that owns the partition works on the committed offset: it never
\* resumes at a position of its own from before a rebalance or a reset, so a
\* commit moves the group's offset by exactly one record.
OwnerInStep ==
    \A w \in Worker : owner = w =>
        /\ pc[w] = "idle" => pos[w] = committed
        /\ pc[w] \in {"processing", "deadletter", "commit"} =>
               cur[w] = committed /\ pos[w] = cur[w] + 1
        /\ pc[w] # "down"

\* What a successful process() leaves behind: once it has returned, each of its
\* outputs is stored downstream, except for records where a flush(10) ran out
\* of time or the producer gave up on a delivery, the two outcomes the workers
\* do not look at.
OutputsConfirmed ==
    \A m \in done \ unconfirmed : \A k \in 1..K : <<m, k>> \in topic

\* A poison record or a finite number of crashes never blocks the partition:
\* in the end the group has consumed every record (poison_message.py:3-7).
EventuallyConsumed == <>[](committed = N + 1)

\* What the recovery specification claims of every Python worker
\* (docs/specs/recovery-and-replay-hardening.md:59-61): the offset is committed
\* strictly after the side effect completes, "at-least-once delivery, never
\* at-most-once".  So an output of a committed record is stored, or at least
\* still in the hands of a live producer.
NeverAtMostOnce ==
    \A m \in Offset \ Poison : m < committed /\ m \notin skipped =>
        \A k \in 1..K : \/ <<m, k>> \in topic
                        \/ \E w \in Worker : <<m, k>> \in queue[w]

\* The worker implements the consumer contract of module AtLeastOnce.
Handled == done \cup {m \in Offset : <<m, 0>> \in topic}
Contract == INSTANCE AtLeastOnce WITH handled <- Handled
ContractSpec == Contract!Spec
==============================================================================
