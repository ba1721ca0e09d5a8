# SignalChord: TLA+ models, checks and proofs

SignalChord ingests news from approved sources, extracts entities and claims,
projects them into a graph and a search index, evaluates alert policies and
notifies people. Its services are processes that talk through Kafka, with
PostgreSQL (the Rails control plane), Redis, object storage, Neo4j and
OpenSearch behind them. What is hard about it is what happens between those
processes: pods overlap during rebalances and rolling updates, calls fail after
they took effect, records are delivered again, and one logical step spans two
stores. This directory models those parts in TLA+, checks them with TLC on small
instances and proves the central ones with TLAPS for every instance.

Paths below are relative to `src/`.

## The system and its parts

| Part | State it keeps | Operations | Hard behaviour |
| --- | --- | --- | --- |
| Python consume loop (`services/python_common/poison_message.py`, nine workers) | consumer position, producer queue, group offset | poll, process, publish, flush, dead letter, commit | a crash or rebalance between any two steps; undelivered outputs; poison records; offset resets |
| Go consumer helper (`services/internal/kafkautil`) | session marks, group offset | consume, mark, background commit, optional dead letter | a handler error ends the session; marks are committed later; overlapping sessions |
| Stream normalizer (`services/stream-normalizer`) | dedupe keys in Redis, clean texts in object storage | decode, SetNX, read, store, two publishes | a failure after SetNX; two pods on one document; lost acknowledgements |
| Transactional outbox (`apps/control-plane/app/services/outbox`) | `outbox_events` rows | enqueue, claim, produce, deliver, mark | locks end before sending; partial delivery; after_commit callbacks |
| Alert intake (`internal/v1/alerts_controller.rb`) | alerts, outbox rows, jobs in Redis | find or initialise, save, enqueue, commit | two stores in one transaction block; concurrent deliveries |
| E-mail job (`alert_email_notification_job.rb`) | `alert_email_deliveries` | load, skip, mark sending, send, mark outcome, retry | unknown outcome of a send; retries; tenant deletion in between |
| Push worker (`services/notification-worker`, `notification_targets_controller.rb`) | `notification_deliveries` | targets, provider call, status update | status update fails after the push; partly delivered target lists |
| Identity and tenancy (memberships, invitations, tokens, usage limits) | memberships, invitations, tokens, limits | invite, accept, update, disable, issue, revoke | check-then-act rules without locks |
| Governance requests | requests, sources, alerts, outbox rows | export, deletion, takedown | races with everything the tenant has in flight |
| Realtime gateway | subscribers and their channels (64 events) | subscribe, unsubscribe, publish | slow subscribers, full channels |
| NLP, entity resolution, claims (`services/nlp-pipeline`, `entity-resolution`, `claim-intelligence`) | none of their own beyond the loop | extract, resolve, cluster, publish derived events | a document fans out over six topics; a worker may die with some partitions written and others not; events of one document overtake each other |
| Graph and search projectors, graph analytics and query | Neo4j graph, OpenSearch index | merge, index, takedown, query | relationships before their nodes; takedown and upsert travel in different partitions and topics; tenants share entities |
| Velato engine | compiled policies | compile, analyse, execute | static promises about run-time behaviour |
| Feed collector, document fetcher | none of their own beyond the loop | publish derived events | as their loop |
| Clients, validators, operator scripts | browser, CI or cluster state | | not part of the event flow |

How they interact: the feed collector publishes discovered documents, the
fetcher stores and announces them, the normalizer deduplicates them and requests
NLP, the Python workers derive mentions, entities, claims and graph mutations,
the Velato worker scores alert candidates, the alert projector posts alerts to
the control plane, which stores them and hands notifications to the outbox (push)
and to Sidekiq (e-mail). Control-plane changes reach the other services through
the outbox. Every arrow except the alert projector's HTTP call is a Kafka topic
read by a consumer group.

The properties that make each part correct:

- a consumer never passes a record it has not handled, and never stops for ever
  at a record it can recognise as bad (which the Go consumers do: `PoisonIsolated`
  below);
- the outbox announces every committed change, at least once, and nothing else;
- a document is normalized once, and its NLP request refers to a stored text;
- an alert is stored together with its notifications, and a person gets one
  e-mail for it;
- whatever the order of the events and however often they are handled, graph,
  index and alerts end up holding what the documents call for, once and per tenant;
- a tenant keeps an owner and its limits; a takedown reaches the projections;
  a verified policy runs to its end.

## Modules

| Module | What it is |
| --- | --- |
| `AtLeastOnce` | The abstract contract of a consumer on one partition: records are handled in any order and any number of times, the committed offset passes only handled records, an operator's reset is counted. |
| `KafkaWorker` | The Python workers' loop with `handle_message` and `publish_to_dlq`, its consumer group and its producer. |
| `Outbox` | The control plane's outbox and its publishers. |
| `StreamNormalizer` | The Go consumer helper and the normalizer's handler. |
| `AlertNotification` | Alert intake, e-mail jobs, preferences, tenant deletion. |
| `Velato` | The policy engine: instruction set, static analysis, stack machine, MIDI notes. |
| `VelatoPolicies` | The macros of the standard library, as programs of `Velato`. |
| `Extraction` | What the NLP pipeline finds in a text, and how mentions, claims and entities are identified. |
| `Pipeline` | `Extraction` composed with the workers behind it, both projectors, policy worker, analytics and takedowns, over partitioned topics. |
| `PushNotification` | The push worker and the delivery ledger of the control plane. |
| `KafkaWorkerProofs`, `OutboxProofs`, `StreamNormalizerProofs`, `AlertNotificationProofs`, `ExtractionProofs` | The theorems about the module each is named after, and their proofs. |
| `PipelineProofs` | Those about `Pipeline`; it extends `ExtractionProofs`. |
| `VelatoProofs` | Those about `Velato`: how a verified program runs, what its analysis reports and what survives the MIDI notes. |
| `VelatoPoliciesProofs` | Those about `VelatoPolicies`: what the macros compute; it extends `VelatoProofs`. |
| `MC*` | Instances for TLC. |

Each action carries the name of its step and a comment; `PROJECT.json` maps every
definition to the lines it stands for.

### KafkaWorker

One input partition with records `1..N`, the pods of one group, `K` outputs per
record. A pod's program counter `pc` follows `main` and `handle_message`: `idle`
(in `poll`), `processing` (in `process()`), `deadletter` (in `publish_to_dlq`),
`commit`. `queue[w]` is the producer's internal queue; `Deliver` and
`DeliveryFails` are its background thread. `Flush` may be taken with a non-empty
queue because the workers ignore what `flush(10)` returns; `DeadLettered` may not,
because `publish_to_dlq` checks it. `Evict` takes the partition away from a pod
that keeps running; its commit is then refused (`CommitFenced`) and the
`KafkaException` ends the process. `ResetOffsets` is `replay-kafka.sh`, which may
move the offset in both directions while no pod is in the group. Poison records
are those for which `process()` raises `ValueError`.

Two simplifications. The pods share one partition; partitions are independent of
each other in this loop. Two pods that publish the same output put the same
record into `topic`: copies are not counted, since the consumers downstream
promise to tolerate them.

### Outbox

Rows are `none`, `pending` or `published` as other transactions see them; an open
transaction's row is not visible, so `domain[e] = "open"` and `row[e] = "none"`.
`created` is the insert's time stamp, which `ORDER BY created_at LIMIT` uses; commits
come in any order. `Claim` holds row locks only up to `Produce`, the commit of the
claiming transaction, so two publishers may have the same row in their batches.
`SaveSource`, `PublishRegistrationEvent` and `LoseCallback` are the after_commit
route of `Source`.

### StreamNormalizer

A session's `marked` offset is what `MarkMessage` has recorded; `AutoCommit` is
sarama's ticker. Any handler error ends the session (`EndSession`) because the
service passes no `WithDLQ`. `dedupe` is the set of hashes with a key in Redis:
the key is set before the work and stays when the work fails. Lost answers
(`DedupeAnswerLost`, `PublishAnswerLost`, ...) are calls that took effect and
still returned an error. Documents are identified by their content hash, which is
what the code does (`doc:<hash>`); the tenant is left out.

### AlertNotification

The alert of one stable id. A request goes `idle`, `found` (after
`find_or_initialize_by`), `enqueueing` (inside the transaction). `Update` writes
the suppressed flag only if it differs from what the request loaded, as Active
Record does. `perform_later` pushes at once, so jobs exist before the commit and
after a rollback. A job's steps are the statements of `perform`; between any two
of them a statement may fail, Sidekiq may put the job back or lose it, and a
tenant deletion may rewrite the delivery row. The update to `delivered` may also raise
after it took effect, when the answer to its COMMIT is lost (`MarkDeliveredFails`); the
rescue then writes `failed` over it. The retry limit is `MaxRetries`
(5 in the code, 1 in the run).

### Velato

The life of one program in `services/velato-engine/engine.py`. A client appends
fragments (`Extend`) and hands the result to `build` or `parse_assembly` (`Build`),
to `deserialize_ir` (`Deserialize`), or uploads a MIDI file (`Upload`,
`CompileMidi`). `analyze_ir` runs one iteration of its loop per step
(`AnalyzeInstruction`), ends in `Verify` or `AnalyzeReject`, and is run again at the
head of `execute` (phase `checking`), as in the code. `StartRun` is the check of the
inputs, `Step` one iteration of the machine's loop with its stack, local registers
and outputs, `Raise` any exception of it. `EncodeMidi` renders a verified program
to notes, which `CompileMidi` reads back. `Fallback` is the worker's
`load_default_policy`.

Numbers are counted in halves, so that rounding to even, truth values, clamping and
the whole-number tests of the code keep their meaning; a product or quotient
between two halves becomes either neighbour, powers and roots any member of
`Samples`, and a magnitude above `Limit` is an overflow. Input registers are named
by their position in `INPUTS`. Unreachable code behind `HALT` is kept: the analysis
skips it, the encoder does not. `STACK_EFFECTS` (the table) and `Operands` with
`Pushed` (the branches of `execute`) are two definitions, as they are in the code:
that they agree is what the properties are about. The model encodes a program at
most once, and leaves out the bytes of the MIDI container and its size limits, the
lexical form of assembly, the texts of the warnings and the trace hash. A local
register given as the float 2.0, which serialized IR may hold and `isinstance(...,
int)` refuses, is not told apart from 2.

`VelatoPolicies` writes each macro of `standard_library.py` as the sequence it emits
and feeds the programs through the same builder, analysis and machine. `Joined` is the
loop that `weighted_sum`, `all_conditions` and `any_condition` share: each operand, and
from the second on the operation that joins it. What a standard policy should come to
is `ScaledAverages`, the set of the values that the products, the quotient and the
scaling may have once each is rounded to a half or kept where a half holds it exactly.
The scores, the term lists and the lists of conditions that callers use are constants.
A term list of total weight zero, which `weighted_average` refuses, divides by zero
here and completes no run.

### Extraction and Pipeline

`Extraction` holds the pure part of the NLP pipeline. A text is what the regular
expressions find in it: candidate spans with their type, and sentences with the
relation keywords they contain and whether the claim pattern matches. From there on
the code is followed: the sort of the candidates, the loop that drops overlaps, the
first two mentions of a sentence, the first predicate of the table, the three ways
`resolve_mention` makes an identifier, the evidence and claim ids. Confidences are
those of the patterns. `casefolded`, `slug` and the alias table are constants. `Picked`, what a filtering
loop of the code leaves of a sequence, is written as a recursive function.

`Pipeline` joins the workers by topics with several partitions; the partition of a
record follows from the kind of its key, and the runs spread the kinds in different
ways, so that relationships overtake nodes and the reverse. `NlpPipeline`,
`EntityResolution` and `ClaimIntelligence` are the `handle_one_message` of their
workers; the records each publishes are written as one sequence in the code's order.
`Publish` appends all of them, or, when the worker dies, some first part of every
partition's share, since the Kafka client keeps order within a partition only;
`CommitOrDie` is a death between effect and commit. That a commit may pass records
the client never delivered is `KafkaWorker`'s subject (`NeverAtMostOnce`) and is left
out here. `GraphProjector` runs `build_statement` in one transaction: `MERGE` of the
node under `(tenant_id, stable_id)`, of a relationship and its two ends, or a takedown
that matches the source and the articles linked to it at that moment. `SearchProjector`
writes into `dirty` (indexed, not yet searchable); `Refresh` is OpenSearch's own, and
`delete_by_query` finds refreshed articles only. `VelatoEngine` publishes one alert per
evaluation, `GraphAnalytics` one signal per request. `RequestTakedown` is the governance
controller, `Announce` the outbox publisher, `ResetOffsets` the operator's
`replay-kafka.sh`, restricted to the two topics that start the flow and one partition
at a time. The inputs are documents behind the normalizer, so they are distinct.
The constraints of `graph/migrations`, which `scripts/dev-up.sh` applies, are always in
force: `Refused` is the transaction that would break one. `MERGE` is one atomic step on
their account. Two graph projector pods
(`infrastructure/kubernetes/helm/signalchord/values.yaml:152-154`) read six partitions
(`scripts/create-topics.sh:9`), and an upsert and a relationship may create the same node
at the same time; with the constraint's index one of them waits and finds it, or is
refused and tried again. In a database without the constraints both would create it, and
a later `MERGE` of a relationship would match both nodes. That is not modelled, and nothing is claimed of such a database.

`quiet` is an auxiliary variable: the takedowns requested at a moment when nothing of
the source was on its way to a projection and no replay was to follow. It restricts
`TakedownTakes` to them. A takedown that races a document of its source takes no
lasting effect on that document: the later upsert finds no record of it.

Left out are timestamps, texts, scores and the other properties of nodes; the model
keeps which nodes, labels, relationships, index entries and alerts exist, and whose.

### PushNotification

One organization's events and endpoints. `Claim` fetches the targets, which makes the
control plane create or touch the ledger rows (`create`); `Push` is one provider call,
`ReportDelivered` and `ReportFailed` are `update_delivery` after success and in the
`except` branch, `Commit` is the end of `handle_message`, `Crash` a kill. A call the
provider accepted may still give no usable answer (a timeout, an error status, a body that
is no JSON, which is a `ValueError` and dead-lettered); the history variable `lost` keeps
the rows this happened to, since no ledger can help them. A status
report is the record the worker sends, and the controller's `params.require(:tenant_id)`
is `UpdateRefuses`: the model makes no assumption on whether it is met, and with the body
the worker sends it never is. (With a `tenant_id` in the body, the property below holds of
the run's instance.) All other effects of the controller are there, although
the refusal keeps them from being reached. The component has no passing run for this reason: what
could be said of the ledger is what the finding refutes.

## Runs

| Run | Checks | Instance |
| --- | --- | --- |
| `worker` | type, `CommittedHandled`, `OwnerInStep`, `OutputsConfirmed`, refinement of `AtLeastOnce`, `EventuallyConsumed` | 2 pods, 3 records of which one is poison, 2 outputs each, 2 faults, 1 reset |
| `outbox` | type, `PublishedStored`, `StoredCommitted`, `CopiesBounded`, `EventuallyAnnounced` | 3 events (one from a callback), 2 publishers, batches of 2, 2 faults |
| `normalizer` | type, `NormalizedOnce`, `RequestHasText`, `DuplicatesAccounted`, refinement of `AtLeastOnce`, `DecodableConsumed` | 2 pods, 4 records over 2 contents, one content unusable, the last record malformed, 2 faults, 1 lost key per content |
| `alerts` | type, `StoredWithNotifications`, `MailedAlertsStored`, `DuplicatesExplained`, `OutcomesFinal`, `JobsSettle` | 2 requests, 2 alert ids, 1 member, 1 retry, 2 faults |
| `velato` | type and output ranges, `VerifiedRunsSafely`, `DepthAsAnalyzed`, `AnalysisIsExact`, `MidiRoundTrip`, `MacrosMeanWhatTheySay` (bands, conditions, ranges), `StandardPolicyIsOneValue`, `PoliciesRun` | programs of one or two of 59 blocks (every operation of the dialect, operand blocks, invalid instructions, an unknown operation, an overlong block), the 18 programs made by the macros, 5 MIDI files, 20 requests (inputs on and next to every threshold, some whose averages are rounded, an infinite one, a short one), 2 root notes, stack limit 5, instruction limit 48 |
| `pipeline` | type, `NothingInvented`, `PlaceholdersAwaited`, `OneAlertPerDocument`, `QueriesStayInTenant`, `ExtractionExact`, `EventuallyConverged`, `TakedownTakes` | eleven scenarios of one or two documents, two tenants, the schema's constraints in force, two partitions per topic, three ways of spreading the keys, up to one death and one reset, one takedown |
| `worker_at_most_once` | violates `NeverAtMostOnce` | as `worker` |
| `normalizer_replay` | violates `ReplayCompletes` | as `normalizer` |
| `normalizer_poison` | violates `PoisonIsolated` | as `normalizer`, with its fairness |
| `alerts_double_send` | violates `NeverDoubleSent` | as `alerts` |
| `pipeline_schema` | violates `TenantsIndependent` | two tenants, one source id and one entity |
| `push` | violates `LedgerPreventsDuplicates` | 2 endpoints, one with an unsupported platform, 2 events, 3 attempts, 1 kill |

Why the bounds are enough: every hazard here needs at most two overlapping
actors, one fault to cause it and one to interfere with the recovery. Three
records let a pod be ahead of, at and behind the committed offset; a batch of two
out of three events makes the limit bite and leaves one event for the next batch;
a content that occurs twice separates duplicates from redeliveries; two alert ids
are one rolled-back attempt and one that succeeds. A second member multiplies the
states of `alerts` by more than twenty and adds independent jobs only. Fault
counters exist in the models to keep them finite; the proofs hold for every bound.
For Velato, a block of operands followed by any one operation reaches every branch
of `execute` with its operands present, and a single operation alone reaches it
without them; the stack limit of 5 is met by the policies and exceeded by two operand
blocks. The limits are below the code's 64 and 512, and what is run with less of them
runs with more.
Programs have no jumps, so longer ones add no new control, and what the run shows
of two fragments is proved for all programs.
For `Pipeline`, a scenario is an input: the documents, the takedowns to come, the
partitions of the keys and the two fault bounds. One document reaches every worker and
every kind of record, and with links and nodes in different partitions each order of the
mutations of that document occurs. Two documents meet where they share something, which
the scenarios choose one at a time: an entity and a source id in two tenants, or a source
that is taken down; and two tenants that share nothing. The rich text has candidates that nest, coincide and overlap, and
`ExtractionExact` is evaluated for each of its 32 subsets of candidates (and proved for
every text). The blank text and the two sizes that are
refused, at different places, come with a death and a reset. A request for analytics about an
entity that appears late, and one about an entity that never appears, are both there.
The run may deadlock, since the flow ends; `EventuallyConverged` says where.

Six properties state what the repository's documents say and the code does not
do; each fails in a run of its own and is listed under `findings`:

- `NeverAtMostOnce`: the recovery specification says commits come strictly after
  the side effect. The workers ignore the result of `flush(10)`, so a record may be
  committed while its outputs are only queued.
- `ReplayCompletes`: the same document says a failed record replays. In the
  normalizer the replay finds the dedupe key of its own failed attempt.
- `PoisonIsolated`: the service's README speaks of DLQ routing, and the recovery
  specification of all consumers, the Go helper's included, isolating poison records
  instead of blocking the partition. The normalizer passes no `WithDLQ`, so a record that
  does not decode ends every session and is read again for ever.
- `NeverDoubleSent`: the alert feed specification promises no second e-mail. An
  accepted e-mail whose attempt raised is recorded as failed and retried.
- `TenantsIndependent`: projector and queries hold each tenant's nodes apart under
  `(tenant_id, stable_id)`. The constraints of `graph/migrations` make `stable_id`
  unique by itself, so the second tenant that reads about an entity is refused its
  node, and the projector stops at that record.
- `LedgerPreventsDuplicates`: the push worker's README says the ledger prevents
  duplicates on replay. The worker's status reports lack the `tenant_id` the
  controller requires, so no push is ever recorded as delivered.

What does hold in their place is checked by the passing runs:
`OutputsConfirmed`, `DuplicatesAccounted` and `DuplicatesExplained` state exactly
which outcomes are excepted, `DecodableConsumed` that the records in front of a malformed
one are consumed in the end whatever fails, and `EventuallyConverged` that the graph
converges where no two tenants use one id, and that the other projections do in any case.

## Fairness

- `KafkaWorker`: weak fairness of each pod's steps. `poll`, `flush` and `commit`
  have timeouts, Kubernetes restarts a dead pod, the group assigns a free
  partition. Nothing is assumed about faults or resets, which are bounded.
- `Outbox`: weak fairness of a request that has begun and of each publisher. The
  loop in `bin/outbox-publisher` continues after every error. New changes need not
  happen.
- `StreamNormalizer`: weak fairness of each pod's handler and session steps, and
  strong fairness of the background commit: a malformed record makes sessions end
  over and over, so the commit is enabled again and again and not continuously.
  It excludes that the brokers refuse every commit for ever.
- `AlertNotification`: weak fairness of each job. SMTP may fail every time.
- `Velato` states none: its properties are about what runs do, not that they end. Programs
  have no jumps.
- `Pipeline`: weak fairness of all progress together: some consumer, the outbox publisher
  or OpenSearch's refresh does something as long as one of them can. Every such step
  stays possible until it is taken and the steps are finitely many, so nothing stronger
  per worker is needed. Takedowns, deaths and resets need not happen.
- `PushNotification` states none; its run checks an invariant.

## Proofs

Each theorem holds for all values of the constants that meet the named assumptions of
the module. An invariant is proved through an inductive one: `IInv`, or `Inv` for the
runs of `VelatoProofs` and `PInv` in `VelatoPoliciesProofs`. Except for the trace in `PInv`
it was checked by TLC on the instance of the run first. There is one lemma per conjunct
or per action, with one case per action or per conjunct it can disturb. A `TypeCorrect`
states the type invariant of every component with a proof module.

| Module | Theorems besides the type invariant |
| --- | --- |
| `KafkaWorkerProofs` | `CommittedHandledAlways`, `OwnerInStepAlways`, `OutputsConfirmedAlways`, `ImplementsContract` |
| `OutboxProofs` | `PublishedStoredAlways`, `StoredCommittedAlways`, `CopiesBoundedAlways` |
| `StreamNormalizerProofs` | `NormalizedOnceAlways`, `RequestHasTextAlways`, `DuplicatesAccountedAlways`, `NeverPassesMalformedAlways`, `ImplementsContract` |
| `AlertNotificationProofs` | `StoredWithNotificationsAlways`, `MailedAlertsStoredAlways`, `DuplicatesExplainedAlways`, `OutcomesFinalAlways` |
| `ExtractionProofs` | `MentionsAreExact`, `RelationsAreExact` |
| `PipelineProofs` | `OneAlertPerDocumentAlways`, `QueriesStayInTenantAlways`, `PlaceholdersAwaitedAlways`, `NothingInventedAlways`, `ExtractionExactAlways`, `MarksJustifiedAlways` |
| `VelatoProofs` | `VerifiedRunsSafelyAlways`, `DepthAsAnalyzedAlways`, `AnalysisIsExactAlways`, `MidiRoundTripAlways` |
| `VelatoPoliciesProofs` | `MacrosMeanWhatTheySayAlways`, `StandardPolicyIsOneValueAlways` (its type invariant is `Velato`'s) |

### KafkaWorker

For any sets of pods and poison records and any `N`, `K`, `MaxFaults`, `MaxResets`.
`CommittedHandled` alone is not inductive: a commit is right only if
the record being committed is settled and is the one at the committed offset. The
inductive invariant `IInv` therefore adds

- `OwnerInStep`: the owner works at the committed offset (what makes a commit move
  it by one record, and why evicted pods' commits do no harm);
- `ReadyToCommit`: a pod about to commit has settled its record;
- `DeadLetterPending`: while a pod waits in `publish_to_dlq` the envelope is in its
  queue, stored, or its failure was seen by the callback;
- `OutputsPending`: outputs handed to the producer are queued, stored or given up
  on, from which `OutputsConfirmed` follows at the flush.

`TypeInv` (the type invariant plus the fact that a working pod has a record) is
proved first and is used by every step. Each step lemma has one case per action.
`ImplementsContract`, `Spec => ContractSpec`, maps `Deliver` of an envelope and `Flush`
to `Handle`, `Commit` to `Commit`, `ResetOffsets` to `Reset`, and everything else to a
stutter.

### Outbox

For any finite sets of events and publishers, any batch size and any number of faults.
That `published_at` is set only on what Kafka stores needs what a publisher knows when
it marks: `AcknowledgedStored` (what it no longer waits for is in the topic) and
`BatchesInStep` (where it is says what it holds). `StoredCommitted` needs
`BatchesVisible`: the claiming query sees rows of committed changes only. The bound on
copies is a count. `CopiesAccounted` says that each copy of a row that is not marked yet
is owed to a publisher that has delivered it and will mark it, or to a fault; and that
the copies, with the publishers that still hold the row, are at most the publishers and
the faults. A publisher claims the row again only as long as it is pending, which is why
overlapping publishers repeat an event once each and no more.

### StreamNormalizer

For any pods, records, contents, malformed and unusable ones, faults and lost keys.

- `KeysCounted` treats each time the dedupe key of a content was free as one permit: the
  announcements made and those that pods are about to make are at most the permits, the
  NLP requests made and due at most the announcements. `NormalizedOnce` follows.
- `TextStored`: whatever is announced or requested has its text stored, which is so
  because the object is put before either message is sent.
- `KeysAnswered`: a content whose key was ever found set was requested, was abandoned by
  a failed attempt, or is in the hands of a pod. `DuplicatesAccounted` is the part of it
  about reported duplicates.
- `MarkedReturned` and `HandlingMarked`: for each record that the owner's session has
  marked beyond the committed offset, `handle` has returned nil, and the session works
  on the next one.
  This is what the refinement of `AtLeastOnce` rests on: the return of `handle` is
  `Handle`, `AutoCommit` is `Commit`.
- `MalformedAhead`: no session marks a record that does not decode.
  `NeverPassesMalformedAlways` is why `PoisonIsolated` fails, for any instance: without
  `WithDLQ` the group never passes such a record. That it does get as far as that record
  is `DecodableConsumed`, which is liveness and is left to the run.

### AlertNotification

For any requests, alert ids, members, retries and faults. `Intake` holds what the unique
index and the transaction give: one insert is open at a time (`OneInsert`), nothing is
stored while it is, and inside it each member owed an e-mail has a job or is still to
get one (`InsertOpen`), so that the commit stores an alert with all its jobs
(`StoredComplete`). `JobOK(j)` relates, for one job, the step of `perform`, the delivery
row and the e-mails the server accepted: before another e-mail can go out, the e-mails
so far are at most the attempts that ended ambiguously, and where the row says `delivered`
the job has ended, is about to write `failed` over it, or has yet to look at the row again. Jobs do not interfere with each other, which shows in the
proof: a step of a job can disturb `JobOK` of that job only; a tenant deletion rewrites rows
of all of them and is one case. `OutcomesFinal` is an action property and follows from
`IInv` step by step.

### Extraction and Pipeline

`MentionsAreExact` and `RelationsAreExact` are about the operators alone, for every text
that meets `TextOK`. That predicate says what regular expressions can return: finitely
many spans, none empty, no pattern twice at one place, sentences that start at different
places. Because the five patterns have five confidences, the sort key is then total and
the sorted sequence is the only one (`CandidatesSorted`; the sort is defined by choosing
it). The loop that drops overlaps has the invariant `Keeps`: after `n` candidates, those
kept do not overlap, and each one dropped overlaps one that was kept before it. Hence
mentions follow one another, and the first two inside a sentence are the ones nothing
comes between.

The invariant of `Pipeline` has eight parts: `Shape` (types, every consumer stands at a
record or behind the last), `LogSound` (every record in every topic follows from a
document that was read, and lies in its key's partition), `Requests` (the same of the
takedowns on their way), `GraphClosed` (relationships and labels are on nodes, both ends
in one tenant), `GraphSound` (labels, index entries and relationships are called for),
`TakedownsSound`, `AlertsNamed` and `NodesAwaited`. Except for the two bounds in `Shape`
none of them mentions deaths or resets: a worker that dies leaves first parts of sequences of sound records,
and a replay reads sound records again.

- `NothingInvented` compares sizes: there are no more relationships than things said.
  The proof goes through an injection. `States` shows that what a relationship rests on
  determines its `stable_id`, so two relationships with different ids rest on different
  sentences or spans, however often `MERGE` saw either.
- `PlaceholdersAwaited` needs `Leads`, the records a record will lead to through
  the workers it still has to pass: a node without a label is covered by what some
  unread record leads to (`Awaited`). A reader consumes such a record and publishes
  what it leads to in one step, or dies and stays where it is; an offset reset only
  moves back.
- `MarksJustifiedAlways` states `TakedownsSound`, a property no run checks by itself: a
  takedown mark is on a source whose takedown its tenant requested, or on an article
  that was linked to it.

The assumptions are on the inputs: the documents of a scenario are finitely many and
meet `TextOK`, a document is identified by its content hash within its tenant (the
normalizer is in front), takedowns name a tenant and a source, every kind of key has a
partition, aliases and analytics requests name entities. The proofs make no use of how
keys are spread, so that they hold for every order in which partitions can be read.

### Velato

For any programs, requests, MIDI files and limits. The assumptions on the constants:
input and local registers are numbered up to 127, since the velocity of a note has to
name them (10 and 16 in the code); uploaded files are sequences of note events; root
notes leave room for the twelve intervals; an absent operand carries no value; and
(`FallbackAssumption`) the limits leave room for the default policy, which needs 23
instructions, 3 stack places and 10 inputs of the code's 512, 64 and 10.

`VerifiedRunsSafely` and `DepthAsAnalyzed` are not inductive. While the analysis runs,
the history variable `depths` is a
chain: it starts with 0, each entry follows from the one before by `STACK_EFFECTS`,
none exceeds the limit, and each instruction covered is valid and finds its operands
(`AnalysisInv`). When the analysis ends, that chain is a certificate for the program
(`CertifiedInv`) whose existence does not depend on the analysis' variables: it stays
while `execute` analyses the program again, and is why that second analysis cannot
fail. During the run, the machine stands on the chain (`RunInv`). The step that
connects the two halves is the lemma `PushCounts`: for each of the 48 operations, the
branch of `execute` pops and pushes as many values as the table says. If an operation
were added to one and not to the other, this lemma would fail.

The other theorems build on this invariant.

- `AnalysisIsExactAlways`. `GatheredInv` says that the inputs, registers and outputs
  gathered are those of the instructions passed, and that the depth reported is the
  largest of `depths` so far; `FollowedInv` says the same of the machine and the
  instructions behind it. At the end of a run both have passed the same instructions,
  since a run stops at the first `HALT` as the analysis does (`EndFollowed`). The last
  conjunct, that the fallback is never refused, is `FallbackInv`: `default_policy_ir` is
  written out (`DefaultPolicyWritten`), each of its 23 instructions is admissible at the
  depth listed for it (`WrittenAdmissible`), and it survives a trip through MIDI
  (`FallbackKept`).
- `MidiRoundTripAlways`. Each operation has a place in the banks (`BanksCover`,
  `EncodingFound`), `HALT` alone has the first place of the first bank (`HaltPlace`),
  so that the loop stops at the note of the first `HALT` and no other; the note of a
  valid, encodable instruction decodes to it (`NoteDecodes`), and `parse_midi` drops
  none since every velocity is positive (`AllSound`). `RoundTrip` puts these together
  for a whole program. `NotesInv` adds that notes waiting to be compiled, when there are
  instructions too, were rendered from a verified program.
- `TypeCorrect` has the ranges of the output registers.

### VelatoPolicies

For any scores, term lists, conditions, requests and limits, and any scale, threshold and
route. The assumptions: these are whole numbers of halves, the scale is positive, a term
list is not empty (`weighted_sum` refuses an empty one), and the lower end of a condition
is not above its upper end (`input_between` refuses it otherwise; the other two kinds use
one of them only).

The properties relate the inputs of a run to what is left when it ends, and nothing in the
final state says how it came about. `TraceInv` supplies that: a run that has come to
instruction `k` has a trace, a sequence of `k` contents of stack, local registers and
outputs that starts with an empty stack, ends with the present one, and in which each
instruction `Does` what its branch of `execute` says. It is inductive with `Inv`
(`StepTraced`, `TraceStep`). TLC has no part in it, since it cannot enumerate traces. A
completed run's trace covers the program up to the `HALT`. What a macro computes is then
a statement about its own instructions:

- `Passes` says that a trace goes through a piece of code from some place on. A program
  made of pieces passes each of them (`JoinedPasses` and the lemmas next to it), so each
  macro has a lemma of its own, with whatever the caller has on the stack below it:
  `BandedIsBands` rests on one lemma per band, `RangedIsNormalized` on `normalize`,
  `percentage` and the store.
- For the macros over a list, `JoinedDoes` is the invariant of the loop: after `n`
  operands one value is on the caller's stack, and it is one that the first `n` operands
  can give. Conditions use it with the truth value of the conjunction or disjunction
  (`ConditionsDo`), `weighted_sum` with the set of rounded sums (`WeightedSumDoes`).
- The recursive functions behind these macros exist, and satisfy their equations, by
  `Iterated`. It and `JoinedDoes` argue with the first number for which the claim
  fails instead of an induction theorem, since the library's take an operator as a
  parameter.
- `StandardIsOneValue` follows the one value through `standard_alert_policy`: duplicated
  for the score, for the severity and for the suppression, and dropped at the end
  (`StandardValue`, `StandardStores`).

### Only model-checked

- Liveness: `EventuallyConsumed`, `EventuallyAnnounced`, `DecodableConsumed`,
  `JobsSettle`, `EventuallyConverged`, `TakedownTakes`. They rest on
  fairness, and the prover has no support for `ENABLED`.
- `PoliciesRun` of `VelatoPolicies`: that no macro's program fails on finite inputs
  and that none is refused. It depends on the numbers: large enough weights or inputs
  overflow, a long enough list exceeds the instruction limit. The run's limits are lower
  than the code's.
- The properties that fail (next to the theorems that state what holds instead), which
  are shown by a counterexample.

## Plan

1. `KafkaWorker` with proofs, `Outbox`, `StreamNormalizer`, `AlertNotification`: done.
2. `Velato` with proofs, `VelatoPolicies`: done.
3. `Extraction`, `Pipeline`, `PushNotification`: done.
4. Proofs about `Outbox`, `StreamNormalizer`, `AlertNotification`, `Extraction`,
   `Pipeline` and the rest of `Velato`: done.
5. `Membership`: last owner, invitations, token revocation, usage limits and
   idempotent creates under concurrent requests.
6. `RealtimeBroker`: subscribers, full channels, dead letters.
7. Proofs about `VelatoPolicies`: done.
8. If time allows: order of operations in the backup and restore scripts.

## Not modelled

The regular expressions of text extraction, the arithmetic of scores (floating-point
and string processing without shared state), query and analytics endpoints other than
the entity query (read-only), the HTTP front ends of the workers, clients, CI
validators, deployment charts. The `components` list of `PROJECT.json`
gives the reason for each. Authentication and transport security are outside the
scope of these models.

Open questions the models raise without a documented answer: e-mail jobs that
start after a tenant deletion still send, because neither the job nor the deletion
looks at the other; a redelivered alert event after a deletion clears the
suppressed flag again (`internal/v1/alerts_controller.rb:17`); a lost Redis queue
loses e-mails, since a redelivered event does not enqueue again. The topic catalog
says takedown consumers block reprocessing, yet nothing remembers a takedown: a replay
of `document.normalized.v1` after it puts the articles back into the index; and a takedown
that races its documents leaves the later ones alone, in the graph when it overtakes their
links, in the index when it meets an article that is not refreshed yet. The
`evidence_id` of a relation names its sentence, which has an
Evidence node only if it is also a claim.
The normalizer's dedupe key has no tenant, so a document two tenants fetch is
normalized for the first one only.
