-------------------------------- MODULE Outbox --------------------------------
(***************************************************************************)
(* The control plane's outbox: Rails requests store domain changes and     *)
(* outbox_events rows in PostgreSQL, and bin/outbox-publisher processes    *)
(* copy the pending rows to Kafka (app/services/outbox/publisher.rb).      *)
(*                                                                         *)
(* Most events are enqueued inside the transaction of their domain change. *)
(* A Source announces itself from an after_commit callback instead, in a   *)
(* second transaction (app/models/source.rb).                              *)
(*                                                                         *)
(* A claim locks its rows only until the claiming transaction commits,     *)
(* which is before anything is sent: publishers that overlap, as the old   *)
(* and the new pod of a rolling update do, can hold the same rows.         *)
(*                                                                         *)
(* publish_attempts and last_error are written and never read; they are    *)
(* left out.                                                               *)
(***************************************************************************)
EXTENDS Naturals, FiniteSets

CONSTANTS Event,        \* outbox events, one per domain change
          CallbackEvent,\* the events enqueued by Source's after_commit
          Publisher,    \* publisher processes
          BatchSize,    \* BATCH_SIZE, the LIMIT of a claim
          MaxFaults     \* bound: crashes, errors and lost acknowledgements

ASSUME EventAssumption == IsFiniteSet(Event) /\ CallbackEvent \subseteq Event
ASSUME PublisherAssumption == IsFiniteSet(Publisher)
ASSUME BatchAssumption == BatchSize \in Nat \ {0}
ASSUME FaultAssumption == MaxFaults \in Nat

VARIABLES
    domain,  \* domain[e]: the domain change that e announces
    row,     \* row[e]: the outbox row as other transactions see it
    created, \* created[e]: the row's created_at, 0 before it has one
    clock,   \* the time of the last insert
    died,    \* history: events whose callback never ran
    pc,      \* pc[p]: where publisher p is in publish_batch
    batch,   \* batch[p]: the rows it has claimed
    unsent,  \* unsent[p]: those deliver_messages still has to get acknowledged
    copies,  \* copies[e]: how many copies of e the topic holds
    faults

vars == <<domain, row, created, clock, died, pc, batch, unsent, copies, faults>>

Init ==
    /\ domain = [e \in Event |-> "none"]
    /\ row = [e \in Event |-> "none"]
    /\ created = [e \in Event |-> 0]
    /\ clock = 0
    /\ died = {}
    /\ pc = [p \in Publisher |-> "idle"]
    /\ batch = [p \in Publisher |-> {}]
    /\ unsent = [p \in Publisher |-> {}]
    /\ copies = [e \in Event |-> 0]
    /\ faults = 0

TakeFault ==
    /\ faults < MaxFaults
    /\ faults' = faults + 1

-------------------------------------------------------------------------------
(* Requests of the control plane.                                          *)

\* The insert of OutboxEvent.enqueue! gets its created_at.
Stamp(e) ==
    /\ clock' = clock + 1
    /\ created' = [created EXCEPT ![e] = clock + 1]

\* A request changes its domain rows and enqueues the event, all in one
\* transaction that other connections do not see yet.
Enqueue(e) ==
    /\ e \notin CallbackEvent
    /\ domain[e] = "none"
    /\ domain' = [domain EXCEPT ![e] = "open"]
    /\ Stamp(e)
    /\ UNCHANGED <<row, died, pc, batch, unsent, copies, faults>>

\* The transaction commits.  Commits need not come in created_at order.
CommitChange(e) ==
    /\ domain[e] = "open"
    /\ domain' = [domain EXCEPT ![e] = "committed"]
    /\ row' = [row EXCEPT ![e] = "pending"]
    /\ UNCHANGED <<created, clock, died, pc, batch, unsent, copies, faults>>

\* An exception, a lost connection or a dying process rolls both back.
RollbackChange(e) ==
    /\ domain[e] = "open"
    /\ TakeFault
    /\ domain' = [domain EXCEPT ![e] = "rolledback"]
    /\ UNCHANGED <<row, created, clock, died, pc, batch, unsent, copies>>

\* A Source is saved; its event is enqueued only after this commit.
SaveSource(e) ==
    /\ e \in CallbackEvent
    /\ domain[e] = "none"
    /\ domain' = [domain EXCEPT ![e] = "committed"]
    /\ UNCHANGED <<row, created, clock, died, pc, batch, unsent, copies, faults>>

\* publish_registration_event, in a transaction of its own.
PublishRegistrationEvent(e) ==
    /\ e \in CallbackEvent \ died
    /\ domain[e] = "committed"
    /\ row[e] = "none"
    /\ row' = [row EXCEPT ![e] = "pending"]
    /\ Stamp(e)
    /\ UNCHANGED <<domain, died, pc, batch, unsent, copies, faults>>

\* The process dies, or enqueue! raises, between the two commits.
LoseCallback(e) ==
    /\ e \in CallbackEvent \ died
    /\ domain[e] = "committed"
    /\ row[e] = "none"
    /\ TakeFault
    /\ died' = died \cup {e}
    /\ UNCHANGED <<domain, row, created, clock, pc, batch, unsent, copies>>

-------------------------------------------------------------------------------
(* Outbox::Publisher#publish_batch, called in a loop.                      *)

\* Faulty variant: rows of transactions that are still open are visible too.
AvailableUncommitted ==
    {e \in Event : /\ created[e] > 0
                   /\ row[e] # "published"
                   /\ \A q \in Publisher : pc[q] = "claiming" => e \notin batch[q]}

\* FOR UPDATE SKIP LOCKED: pending rows no other claim holds at this moment.
Available ==
    {e \in Event : /\ row[e] = "pending"
                   /\ \A q \in Publisher : pc[q] = "claiming" => e \notin batch[q]}

\* Faulty variant: the limit is not applied.
IsUnlimitedClaim(S) == S # {} /\ S = Available

\* ORDER BY created_at LIMIT BatchSize over the available rows.
IsClaim(S) ==
    /\ S # {}
    /\ Cardinality(S) <= BatchSize
    /\ Cardinality(S) < BatchSize => S = Available
    /\ \A e \in S, f \in Available \ S : created[e] < created[f]

\* Faulty variant: publish only full batches.
ClaimFullBatch(p) ==
    /\ pc[p] = "idle"
    /\ \E S \in SUBSET Available :
        /\ IsClaim(S)
        /\ Cardinality(S) = BatchSize
        /\ batch' = [batch EXCEPT ![p] = S]
    /\ pc' = [pc EXCEPT ![p] = "claiming"]
    /\ UNCHANGED <<domain, row, created, clock, died, unsent, copies, faults>>

\* claim_pending_events selects and locks rows.
Claim(p) ==
    /\ pc[p] = "idle"
    /\ \E S \in SUBSET Available :
        /\ IsClaim(S)
        /\ batch' = [batch EXCEPT ![p] = S]
    /\ pc' = [pc EXCEPT ![p] = "claiming"]
    /\ UNCHANGED <<domain, row, created, clock, died, unsent, copies, faults>>

\* With nothing to claim publish_batch returns 0 and the loop sleeps.
ClaimNothing(p) ==
    /\ pc[p] = "idle"
    /\ Available = {}
    /\ UNCHANGED vars

\* The claiming transaction commits and gives up its locks; the events are
\* handed to the producer and deliver_messages begins.
Produce(p) ==
    /\ pc[p] = "claiming"
    /\ pc' = [pc EXCEPT ![p] = "delivering"]
    /\ unsent' = [unsent EXCEPT ![p] = batch[p]]
    /\ UNCHANGED <<domain, row, created, clock, died, batch, copies, faults>>

\* A record is stored and acknowledged by all in-sync replicas.
Deliver(p) ==
    /\ pc[p] = "delivering"
    /\ \E e \in unsent[p] :
        /\ unsent' = [unsent EXCEPT ![p] = @ \ {e}]
        /\ copies' = [copies EXCEPT ![e] = @ + 1]
    /\ UNCHANGED <<domain, row, created, clock, died, pc, batch, faults>>

\* A record is stored but its acknowledgement is lost: the producer will send
\* it again (max_retries: 5).
AckLost(p) ==
    /\ pc[p] = "delivering"
    /\ TakeFault
    /\ \E e \in unsent[p] : copies' = [copies EXCEPT ![e] = @ + 1]
    /\ UNCHANGED <<domain, row, created, clock, died, pc, batch, unsent>>

\* Faulty variant: rows are marked without waiting for deliver_messages.
MarkUndelivered(p) ==
    /\ pc[p] = "delivering"
    /\ row' = [e \in Event |-> IF e \in batch[p] THEN "published" ELSE row[e]]
    /\ pc' = [pc EXCEPT ![p] = "idle"]
    /\ batch' = [batch EXCEPT ![p] = {}]
    /\ unsent' = [unsent EXCEPT ![p] = {}]
    /\ UNCHANGED <<domain, created, clock, died, copies, faults>>

\* Faulty variant: only one row of the batch is marked.
MarkOne(p) ==
    /\ pc[p] = "delivering"
    /\ unsent[p] = {}
    /\ \E e \in batch[p] : row' = [row EXCEPT ![e] = "published"]
    /\ pc' = [pc EXCEPT ![p] = "idle"]
    /\ batch' = [batch EXCEPT ![p] = {}]
    /\ UNCHANGED <<domain, created, clock, died, unsent, copies, faults>>

\* deliver_messages has returned: every record of the batch is acknowledged,
\* and published_at is set on all of its rows.
Mark(p) ==
    /\ pc[p] = "delivering"
    /\ unsent[p] = {}
    /\ row' = [e \in Event |-> IF e \in batch[p] THEN "published" ELSE row[e]]
    /\ pc' = [pc EXCEPT ![p] = "idle"]
    /\ batch' = [batch EXCEPT ![p] = {}]
    /\ UNCHANGED <<domain, created, clock, died, unsent, copies, faults>>

\* The claim, the delivery or the update of published_at raises, or the
\* process dies and is started again.  Locks go, rows stay pending, records
\* already acknowledged stay in the topic.
Fail(p) ==
    /\ pc[p] # "idle"
    /\ TakeFault
    /\ pc' = [pc EXCEPT ![p] = "idle"]
    /\ batch' = [batch EXCEPT ![p] = {}]
    /\ unsent' = [unsent EXCEPT ![p] = {}]
    /\ UNCHANGED <<domain, row, created, clock, died, copies>>

-------------------------------------------------------------------------------
Request(e) ==
    \/ CommitChange(e)
    \/ RollbackChange(e)
    \/ PublishRegistrationEvent(e)
    \/ LoseCallback(e)

Publish(p) == Claim(p) \/ Produce(p) \/ Deliver(p) \/ Mark(p)

Next ==
    \/ \E e \in Event : Enqueue(e) \/ SaveSource(e) \/ Request(e)
    \/ \E p \in Publisher : Publish(p) \/ ClaimNothing(p) \/ AckLost(p) \/ Fail(p)

Spec == Init /\ [][Next]_vars

(* A request that has begun ends; the publisher's loop goes on after every *)
(* error (bin/outbox-publisher) and its faults are finitely many.          *)
FairSpec ==
    /\ Spec
    /\ \A e \in Event : WF_vars(Request(e))
    /\ \A p \in Publisher : WF_vars(Publish(p))

-------------------------------------------------------------------------------
(* Properties                                                              *)

TypeOK ==
    /\ domain \in [Event -> {"none", "open", "committed", "rolledback"}]
    /\ row \in [Event -> {"none", "pending", "published"}]
    /\ created \in [Event -> Nat]
    /\ clock \in Nat
    /\ died \subseteq CallbackEvent
    /\ pc \in [Publisher -> {"idle", "claiming", "delivering"}]
    /\ batch \in [Publisher -> SUBSET Event]
    /\ unsent \in [Publisher -> SUBSET Event]
    /\ copies \in [Event -> Nat]
    /\ faults \in 0..MaxFaults
    /\ \A p \in Publisher : Cardinality(batch[p]) <= BatchSize

\* However publishers overlap and fail, a row whose published_at is set is
\* stored in Kafka (publisher.rb:15-16): the outbox loses no event.
PublishedStored == \A e \in Event : row[e] = "published" => copies[e] > 0

\* Nothing is announced that did not happen: an event in Kafka belongs to a
\* committed domain change, whatever a claim saw and whatever rolled back.
StoredCommitted == \A e \in Event : copies[e] > 0 => domain[e] = "committed"

\* Duplicates have a cause.  An event is stored at most once per publisher
\* that can hold it at the same time, and once more for every fault: a lone
\* publisher without faults publishes each event exactly once.
CopiesBounded ==
    \A e \in Event : copies[e] <= Cardinality(Publisher) + faults

\* Every committed domain change is announced in the end, unless it is a
\* Source whose process died between its commit and its callback.
EventuallyAnnounced ==
    \A e \in Event :
        domain[e] = "committed" ~> (row[e] = "published" \/ e \in died)
===============================================================================
