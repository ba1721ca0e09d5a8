--------------------------- MODULE StreamNormalizer ---------------------------
(***************************************************************************)
(* services/stream-normalizer on top of the Go consumer helper             *)
(* services/internal/kafkautil: fetched documents are deduplicated by      *)
(* content hash in Redis, turned into clean text in object storage, and    *)
(* announced as document.normalized.v1 and document.nlp-requested.v1.      *)
(*                                                                         *)
(* One partition of source.document.fetched.v1 holds records 1..N.  A      *)
(* handled record is marked in the pod's session; sarama commits the marks *)
(* in the background and when a session ends.  Any error of the handler    *)
(* ends the session, because this service passes no WithDLQ option, and    *)
(* the group hands out the partition again from the committed offset.      *)
(***************************************************************************)
EXTENDS Naturals

CONSTANTS Pod,         \* the pods of the consumer group
          NoPod,       \* "no pod has the partition"
          N,           \* records of the partition
          Hash,        \* content hashes
          ContentOf,   \* ContentOf[m]: the content hash of record m
          Malformed,   \* records that do not decode
          Unreadable,  \* hashes of documents that are too large or not usable
          MaxFaults,   \* bound: errors, crashes and evictions
          MaxExpiries  \* bound: dedupe keys that expire or get lost

ASSUME PodAssumption == NoPod \notin Pod
ASSUME RecordAssumption ==
    /\ N \in Nat
    /\ ContentOf \in [1..N -> Hash]
    /\ Malformed \subseteq 1..N
    /\ Unreadable \subseteq Hash
ASSUME BoundAssumption == MaxFaults \in Nat /\ MaxExpiries \in Nat

VARIABLES
    pc,         \* pc[w]: where pod w is in ConsumeClaim and handle
    cur,        \* cur[w]: the record it is handling
    marked,     \* marked[w]: its session's next offset to commit
    owner,      \* the pod that has the partition
    committed,  \* the group's committed offset
    dedupe,     \* hashes with a dedupe key in Redis
    cleanText,  \* hashes whose normalized text is in object storage
    normalized, \* normalized[h]: copies of document.normalized.v1
    requested,  \* requested[h]: copies of document.nlp-requested.v1
    reported,   \* records for which duplicate-detected was published
    returned,   \* history: records for which handle returned nil
    abandoned,  \* history: hashes whose dedupe key outlived a failed attempt
    lost,       \* lost[h]: how often the dedupe key has vanished
    faults

vars == <<pc, cur, marked, owner, committed, dedupe, cleanText, normalized,
          requested, reported, returned, abandoned, lost, faults>>

Offset == 1..N

\* The states of a pod inside handle, from the SetNX to the last publish.
Handling == {"deduping", "duplicate", "reading", "storing", "publishing",
             "requesting"}

\* States in which the pod holds the dedupe key it has set.
HoldsKey == {"reading", "storing", "publishing", "requesting"}

Init ==
    /\ pc = [w \in Pod |-> "joining"]
    /\ cur = [w \in Pod |-> 1]
    /\ marked = [w \in Pod |-> 1]
    /\ owner = NoPod
    /\ committed = 1
    /\ dedupe = {}
    /\ cleanText = {}
    /\ normalized = [h \in Hash |-> 0]
    /\ requested = [h \in Hash |-> 0]
    /\ reported = {}
    /\ returned = {}
    /\ abandoned = {}
    /\ lost = [h \in Hash |-> 0]
    /\ faults = 0

content(w) == ContentOf[cur[w]]

TakeFault ==
    /\ faults < MaxFaults
    /\ faults' = faults + 1

-------------------------------------------------------------------------------
(* kafkautil.Consume and ConsumeClaim                                      *)

\* group.Consume joins the group and a claim starts at the committed offset.
StartSession(w) ==
    /\ pc[w] = "joining"
    /\ owner = NoPod
    /\ owner' = w
    /\ marked' = [marked EXCEPT ![w] = committed]
    /\ pc' = [pc EXCEPT ![w] = "claim"]
    /\ UNCHANGED <<cur, committed, dedupe, cleanText, normalized, requested,
                   reported, returned, abandoned, lost, faults>>

\* ConsumeClaim takes the next record from the claim and calls handle; decode
\* errors are dealt with in Undecodable.  An evicted pod may still find a
\* fetched record: select chooses freely between it and the session's end.
NextMessage(w) ==
    /\ pc[w] = "claim"
    /\ marked[w] \in Offset \ Malformed
    /\ cur' = [cur EXCEPT ![w] = marked[w]]
    /\ pc' = [pc EXCEPT ![w] = "deduping"]
    /\ UNCHANGED <<marked, owner, committed, dedupe, cleanText, normalized,
                   requested, reported, returned, abandoned, lost, faults>>

\* The session ends: the pod goes back to group.Consume.  Its last commit
\* counts if the group still knows the pod, and may itself fail.
EndSession(w) ==
    /\ pc' = [pc EXCEPT ![w] = "joining"]
    /\ owner' = IF owner = w THEN NoPod ELSE owner
    /\ committed' \in IF owner = w THEN {committed, marked[w]} ELSE {committed}

\* Faulty variant: it is marked by the handler and once more by ConsumeClaim.
UndecodableSkippedTwice(w) ==
    /\ pc[w] = "claim"
    /\ marked[w] \in Malformed
    /\ marked' = [marked EXCEPT ![w] = @ + 2]
    /\ UNCHANGED <<pc, cur, owner, committed, dedupe, cleanText, normalized,
                   requested, reported, returned, abandoned, lost, faults>>

\* The record does not decode: handle returns the error, the claim ends and
\* the record will be delivered again.
Undecodable(w) ==
    /\ pc[w] = "claim"
    /\ marked[w] \in Malformed
    /\ EndSession(w)
    /\ UNCHANGED <<cur, marked, dedupe, cleanText, normalized, requested,
                   reported, returned, abandoned, lost, faults>>

\* Faulty variant: the background commit covers the record in progress too.
AutoCommitAhead(w) ==
    /\ pc[w] \in {"claim"} \cup Handling
    /\ owner = w
    /\ committed' = IF pc[w] \in Handling THEN cur[w] + 1 ELSE marked[w]
    /\ UNCHANGED <<pc, cur, marked, owner, dedupe, cleanText, normalized,
                   requested, reported, returned, abandoned, lost, faults>>

\* sarama's background commit of the marked offset.
AutoCommit(w) ==
    /\ pc[w] # "joining"
    /\ owner = w
    /\ marked[w] # committed
    /\ committed' = marked[w]
    /\ UNCHANGED <<pc, cur, marked, owner, dedupe, cleanText, normalized,
                   requested, reported, returned, abandoned, lost, faults>>

\* The group takes the partition from a pod, which may be in the middle of
\* handling a record and does not stop at once.
Evict(w) ==
    /\ owner = w
    /\ TakeFault
    /\ owner' = NoPod
    /\ UNCHANGED <<pc, cur, marked, committed, dedupe, cleanText, normalized,
                   requested, reported, returned, abandoned, lost>>

\* Between two records an evicted pod notices that its session is over.
SessionDone(w) ==
    /\ pc[w] = "claim"
    /\ owner # w
    /\ EndSession(w)
    /\ UNCHANGED <<cur, marked, dedupe, cleanText, normalized, requested,
                   reported, returned, abandoned, lost, faults>>

-------------------------------------------------------------------------------
(* app.handle                                                              *)

\* Faulty variant: GET, and SET only when the document is complete.
DedupeWithoutClaim(w) ==
    /\ pc[w] = "deduping"
    /\ pc' = [pc EXCEPT ![w] =
                 IF requested[content(w)] > 0 THEN "duplicate" ELSE "reading"]
    /\ UNCHANGED <<cur, marked, owner, committed, dedupe, cleanText, normalized,
                   requested, reported, returned, abandoned, lost, faults>>

\* Faulty variant: the answer of SetNX is read the wrong way round.
DedupeInverted(w) ==
    /\ pc[w] = "deduping"
    /\ dedupe' = dedupe \cup {content(w)}
    /\ pc' = [pc EXCEPT ![w] =
                 IF content(w) \in dedupe THEN "reading" ELSE "duplicate"]
    /\ UNCHANGED <<cur, marked, owner, committed, cleanText, normalized,
                   requested, reported, returned, abandoned, lost, faults>>

\* redis.SetNX: the first record with this content goes on, any later one is
\* a duplicate.
Dedupe(w) ==
    /\ pc[w] = "deduping"
    /\ dedupe' = dedupe \cup {content(w)}
    /\ pc' = [pc EXCEPT ![w] =
                 IF content(w) \in dedupe THEN "duplicate" ELSE "reading"]
    /\ UNCHANGED <<cur, marked, owner, committed, cleanText, normalized,
                   requested, reported, returned, abandoned, lost, faults>>

\* handle returns nil and ConsumeClaim marks the record.
Return(w) ==
    /\ pc' = [pc EXCEPT ![w] = "claim"]
    /\ marked' = [marked EXCEPT ![w] = cur[w] + 1]
    /\ returned' = returned \cup {cur[w]}

\* document.duplicate-detected.v1 is published and handle returns.
ReportDuplicate(w) ==
    /\ pc[w] = "duplicate"
    /\ reported' = reported \cup {cur[w]}
    /\ Return(w)
    /\ UNCHANGED <<cur, owner, committed, dedupe, cleanText, normalized,
                   requested, abandoned, lost, faults>>

\* The raw object is read and its text extracted.
ReadObject(w) ==
    /\ pc[w] = "reading"
    /\ content(w) \notin Unreadable
    /\ pc' = [pc EXCEPT ![w] = "storing"]
    /\ UNCHANGED <<cur, marked, owner, committed, dedupe, cleanText, normalized,
                   requested, reported, returned, abandoned, lost, faults>>

\* Faulty variant: the upload of the clean text is not waited for.
StoreTextLater(w) ==
    /\ pc[w] = "storing"
    /\ pc' = [pc EXCEPT ![w] = "publishing"]
    /\ UNCHANGED <<cur, marked, owner, committed, dedupe, cleanText, normalized,
                   requested, reported, returned, abandoned, lost, faults>>

\* PutObject of the clean text.
StoreText(w) ==
    /\ pc[w] = "storing"
    /\ cleanText' = cleanText \cup {content(w)}
    /\ pc' = [pc EXCEPT ![w] = "publishing"]
    /\ UNCHANGED <<cur, marked, owner, committed, dedupe, normalized, requested,
                   reported, returned, abandoned, lost, faults>>

\* document.normalized.v1 is published, synchronously.
PublishNormalized(w) ==
    /\ pc[w] = "publishing"
    /\ normalized' = [normalized EXCEPT ![content(w)] = @ + 1]
    /\ pc' = [pc EXCEPT ![w] = "requesting"]
    /\ UNCHANGED <<cur, marked, owner, committed, dedupe, cleanText, requested,
                   reported, returned, abandoned, lost, faults>>

\* document.nlp-requested.v1 is published and handle returns.
RequestNlp(w) ==
    /\ pc[w] = "requesting"
    /\ requested' = [requested EXCEPT ![content(w)] = @ + 1]
    /\ Return(w)
    /\ UNCHANGED <<cur, owner, committed, dedupe, cleanText, normalized,
                   reported, abandoned, lost, faults>>

\* Faulty variant: the failed attempt takes its dedupe key back.
RejectDocumentReleasing(w) ==
    /\ pc[w] = "reading"
    /\ content(w) \in Unreadable
    /\ dedupe' = dedupe \ {content(w)}
    /\ abandoned' = abandoned \cup {content(w)}
    /\ EndSession(w)
    /\ UNCHANGED <<cur, marked, cleanText, normalized, requested, reported,
                   returned, lost, faults>>

\* Reading always fails for a document over the size limit, with an object
\* URI or final URL that does not parse, or with unusable HTML.  handle returns
\* the error; the dedupe key stays.
RejectDocument(w) ==
    /\ pc[w] = "reading"
    /\ content(w) \in Unreadable
    /\ abandoned' = abandoned \cup {content(w)}
    /\ EndSession(w)
    /\ UNCHANGED <<cur, marked, dedupe, cleanText, normalized, requested,
                   reported, returned, lost, faults>>

\* Any call of handle fails before it has an effect: Redis, object storage or
\* Kafka is unavailable, the session's context is cancelled, or the pod dies.
CallFails(w) ==
    /\ pc[w] \in Handling
    /\ TakeFault
    /\ abandoned' = IF pc[w] \in HoldsKey THEN abandoned \cup {content(w)}
                    ELSE abandoned
    /\ EndSession(w)
    /\ UNCHANGED <<cur, marked, dedupe, cleanText, normalized, requested,
                   reported, returned, lost>>

\* SetNX took effect but its answer got lost; handle returns the error.
DedupeAnswerLost(w) ==
    /\ pc[w] = "deduping"
    /\ TakeFault
    /\ dedupe' = dedupe \cup {content(w)}
    /\ abandoned' = IF content(w) \in dedupe THEN abandoned
                    ELSE abandoned \cup {content(w)}
    /\ EndSession(w)
    /\ UNCHANGED <<cur, marked, cleanText, normalized, requested, reported,
                   returned, lost>>

\* document.normalized.v1 was stored but its acknowledgement got lost.
PublishAnswerLost(w) ==
    /\ pc[w] = "publishing"
    /\ TakeFault
    /\ normalized' = [normalized EXCEPT ![content(w)] = @ + 1]
    /\ abandoned' = abandoned \cup {content(w)}
    /\ EndSession(w)
    /\ UNCHANGED <<cur, marked, dedupe, cleanText, requested, reported,
                   returned, lost>>

\* The same for document.nlp-requested.v1,
RequestAnswerLost(w) ==
    /\ pc[w] = "requesting"
    /\ TakeFault
    /\ requested' = [requested EXCEPT ![content(w)] = @ + 1]
    /\ EndSession(w)
    /\ UNCHANGED <<cur, marked, dedupe, cleanText, normalized, reported,
                   returned, abandoned, lost>>

\* and for document.duplicate-detected.v1.
DuplicateAnswerLost(w) ==
    /\ pc[w] = "duplicate"
    /\ TakeFault
    /\ reported' = reported \cup {cur[w]}
    /\ EndSession(w)
    /\ UNCHANGED <<cur, marked, dedupe, cleanText, normalized, requested,
                   returned, abandoned, lost>>

\* The 90 days of a dedupe key are over, or Redis loses it.
LoseKey(h) ==
    /\ h \in dedupe
    /\ lost[h] < MaxExpiries
    /\ dedupe' = dedupe \ {h}
    /\ lost' = [lost EXCEPT ![h] = @ + 1]
    /\ UNCHANGED <<pc, cur, marked, owner, committed, cleanText, normalized,
                   requested, reported, returned, abandoned, faults>>

-------------------------------------------------------------------------------
Handle(w) ==
    \/ Dedupe(w)
    \/ ReportDuplicate(w)
    \/ ReadObject(w)
    \/ StoreText(w)
    \/ PublishNormalized(w)
    \/ RequestNlp(w)
    \/ RejectDocument(w)

Consume(w) ==
    \/ StartSession(w)
    \/ NextMessage(w)
    \/ Undecodable(w)
    \/ SessionDone(w)

Fault(w) ==
    \/ Evict(w)
    \/ CallFails(w)
    \/ DedupeAnswerLost(w)
    \/ PublishAnswerLost(w)
    \/ RequestAnswerLost(w)
    \/ DuplicateAnswerLost(w)

Next ==
    \/ \E w \in Pod : Handle(w) \/ Consume(w) \/ AutoCommit(w) \/ Fault(w)
    \/ \E h \in Hash : LoseKey(h)

Spec == Init /\ [][Next]_vars

(* Pods keep calling group.Consume and their calls end, by result or by    *)
(* timeout; the commit ticker of a session keeps firing.  An endless       *)
(* session of failing commits is excluded: the brokers are reachable       *)
(* except for finitely many faults.                                        *)
FairSpec ==
    /\ Spec
    /\ \A w \in Pod : WF_vars(Handle(w) \/ Consume(w))
    /\ \A w \in Pod : SF_vars(AutoCommit(w))

-------------------------------------------------------------------------------
(* Properties                                                              *)

TypeOK ==
    /\ pc \in [Pod -> {"joining", "claim"} \cup Handling]
    /\ cur \in [Pod -> 1..(N + 1)]
    /\ marked \in [Pod -> 1..(N + 1)]
    /\ owner \in Pod \cup {NoPod}
    /\ committed \in 1..(N + 1)
    /\ dedupe \in SUBSET Hash
    /\ cleanText \in SUBSET Hash
    /\ normalized \in [Hash -> Nat]
    /\ requested \in [Hash -> Nat]
    /\ reported \in SUBSET Offset
    /\ returned \in SUBSET Offset
    /\ abandoned \in SUBSET Hash
    /\ lost \in [Hash -> 0..MaxExpiries]
    /\ faults \in 0..MaxFaults

\* Document h is being normalized by some pod at this moment.
InProgress(h) == \E w \in Pod : pc[w] \in HoldsKey /\ content(w) = h

\* However sessions overlap, one content is normalized at most once for each
\* time its dedupe key was free (main.go:64): overlapping pods and redelivered
\* records do not repeat the work downstream.
NormalizedOnce ==
    \A h \in Hash : /\ normalized[h] <= 1 + lost[h]
                    /\ requested[h] <= normalized[h]

\* The NLP pipeline is never asked for a text that is not stored, or for a
\* document that was not announced (main.go:99-110).
RequestHasText ==
    \A h \in Hash : requested[h] > 0 => h \in cleanText /\ normalized[h] > 0

\* The only documents that are reported as duplicates without ever having
\* reached the NLP pipeline are those where an attempt failed after SetNX, or
\* whose first attempt is still running.
DuplicatesAccounted ==
    \A m \in reported :
        LET h == ContentOf[m]
        IN  requested[h] > 0 \/ h \in abandoned \/ InProgress(h)

\* The record that ends up at the head of the line: the first one that never
\* decodes, or none.
Head ==
    CHOOSE m \in 1..(N + 1) :
        /\ m \in Malformed \cup {N + 1}
        /\ \A k \in Malformed : m <= k

\* Every record before the first malformed one is consumed in the end, however
\* sessions overlap and calls fail.  A document that can never be read is no
\* obstacle: its error ends the session, and when it is delivered again it is a
\* duplicate of its own failed attempt (main.go:64-77).
DecodableConsumed == <>[](committed >= Head)

\* What the recovery specification says of every consumer
\* (docs/specs/recovery-and-replay-hardening.md:15, :542): a poison record is
\* isolated in a .dlq topic instead of blocking its partition; the service's
\* README (:3) lists DLQ routing.  So the group gets past every record.
PoisonIsolated == <>[](committed = N + 1)

\* What the recovery specification says of the Go helper as well
\* (docs/specs/recovery-and-replay-hardening.md:59-61): at-least-once, a crash
\* before the commit means the message replays.  So a record the group has
\* passed reached the NLP pipeline, unless its document is unusable or an
\* attempt is still running.
ReplayCompletes ==
    \A m \in Offset : m < committed =>
        LET h == ContentOf[m]
        IN  requested[h] > 0 \/ h \in Unreadable \/ InProgress(h)

\* The Go consumer implements the contract of module AtLeastOnce: the group
\* passes only records for which handle returned nil.
Contract == INSTANCE AtLeastOnce WITH handled <- returned, resets <- 0
ContractSpec == Contract!Spec
===============================================================================
