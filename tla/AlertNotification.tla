-------------------------- MODULE AlertNotification --------------------------
(***************************************************************************)
(* From an alert.created.v1 event to alert e-mails in the control plane:   *)
(* Internal::V1::AlertsController#create stores the alert and enqueues the *)
(* notifications, AlertEmailNotificationJob sends one e-mail per member,   *)
(* and a tenant_deletion governance request interferes.                    *)
(*                                                                         *)
(* The alert of one stable id is followed.  Its event may be delivered     *)
(* many times and to overlapping requests.  Each attempt to store it has   *)
(* an alert id of its own (Row), as rolled-back inserts do.  perform_later *)
(* pushes to Redis at once, inside the still open transaction, so a job    *)
(* can start before its alert is visible, and survives a rollback.         *)
(*                                                                         *)
(* A job is <<r, m>>: alert row r, membership m.                           *)
(***************************************************************************)
EXTENDS Naturals, FiniteSets

CONSTANTS Request,    \* concurrent requests of the alert-projector pods
          Row,        \* alert ids
          NoRow,      \* "no alert row"
          Member,     \* memberships of the alert's organization
          MaxRetries, \* retry: 5 of the job
          MaxFaults   \* bound: failures of the stores, shutdowns and kills

ASSUME RowAssumption == NoRow \notin Row
ASSUME BoundAssumption == MaxRetries \in Nat /\ MaxFaults \in Nat

VARIABLES
    req,        \* req[q]: where request q is
    found,      \* found[q]: the row find_or_initialize_by returned
    seen,       \* seen[q]: that row's suppressed flag when it was loaded
    wanted,     \* wanted[q]: the suppressed flag of the payload
    todo,       \* todo[q]: members whose job is still to be enqueued
    stored,     \* committed alert rows
    used,       \* alert ids that were ever given out
    suppressed, \* suppressed[r]: the row's flag
    pushed,     \* rows whose notification.requested.v1 event is in the outbox
    owed,       \* owed[r]: members to be notified when r was created
    eligible,   \* members that are enabled and want alert e-mails
    deleted,    \* a tenant_deletion request was accepted
    job,        \* job[j]: where job j is
    retries,    \* retries[j]: how often it was retried
    status,     \* status[j]: the AlertEmailDelivery row
    emails,     \* emails[j]: e-mails the SMTP server accepted
    ambiguous,  \* ambiguous[j]: accepted e-mails whose outcome was not recorded
    faults

intake == <<req, found, seen, wanted, todo, stored, used, suppressed, pushed, owed>>
delivery == <<job, retries, status, emails, ambiguous>>
vars == <<intake, eligible, deleted, delivery, faults>>

Job == Row \X Member

Init ==
    /\ req = [q \in Request |-> "idle"]
    /\ found = [q \in Request |-> NoRow]
    /\ seen = [q \in Request |-> FALSE]
    /\ wanted = [q \in Request |-> FALSE]
    /\ todo = [q \in Request |-> {}]
    /\ stored = {}
    /\ used = {}
    /\ suppressed = [r \in Row |-> FALSE]
    /\ pushed = {}
    /\ owed = [r \in Row |-> {}]
    /\ eligible = Member
    /\ deleted = FALSE
    /\ job = [j \in Job |-> "none"]
    /\ retries = [j \in Job |-> 0]
    /\ status = [j \in Job |-> "absent"]
    /\ emails = [j \in Job |-> 0]
    /\ ambiguous = [j \in Job |-> 0]
    /\ faults = 0

TakeFault ==
    /\ faults < MaxFaults
    /\ faults' = faults + 1

-------------------------------------------------------------------------------
(* Internal::V1::AlertsController#create                                   *)

\* A delivery of the event, with payload flag s, reaches a request, which
\* looks the alert up by its stable id.
Find(q, s) ==
    /\ req[q] = "idle"
    /\ wanted' = [wanted EXCEPT ![q] = s]
    /\ IF stored = {}
       THEN /\ found' = [found EXCEPT ![q] = NoRow]
            /\ seen' = [seen EXCEPT ![q] = FALSE]
       ELSE \E r \in stored :
            /\ found' = [found EXCEPT ![q] = r]
            /\ seen' = [seen EXCEPT ![q] = suppressed[r]]
    /\ req' = [req EXCEPT ![q] = "found"]
    /\ UNCHANGED <<todo, stored, used, suppressed, pushed, owed, eligible,
                   deleted, delivery, faults>>

\* The request ends, with a response or an error; its locals are gone.
Respond(q) ==
    /\ req' = [req EXCEPT ![q] = "idle"]
    /\ found' = [found EXCEPT ![q] = NoRow]
    /\ seen' = [seen EXCEPT ![q] = FALSE]
    /\ wanted' = [wanted EXCEPT ![q] = FALSE]
    /\ todo' = [todo EXCEPT ![q] = {}]

\* Some other request has inserted the alert and not committed yet; the
\* unique index makes this one wait.
Blocked(q) == \E p \in Request \ {q} : req[p] = "enqueueing"

\* alert.save! inserts a new alert with id r, enqueue_notification adds the
\* outbox event, and the members to mail are read.
Save(q, r) ==
    /\ req[q] = "found"
    /\ found[q] = NoRow
    /\ ~ Blocked(q)
    /\ stored = {}
    /\ r \notin used
    /\ used' = used \cup {r}
    /\ found' = [found EXCEPT ![q] = r]
    /\ suppressed' = [suppressed EXCEPT ![r] = wanted[q]]
    /\ owed' = [owed EXCEPT ![r] = IF wanted[q] THEN {} ELSE eligible]
    /\ todo' = [todo EXCEPT ![q] = IF wanted[q] THEN {} ELSE eligible]
    /\ req' = [req EXCEPT ![q] = "enqueueing"]
    /\ UNCHANGED <<seen, wanted, stored, pushed, eligible, deleted, delivery,
                   faults>>

\* Another request stored the alert first: the insert violates uniqueness, the
\* request answers with an error and the event is delivered again.
SaveConflict(q) ==
    /\ req[q] = "found"
    /\ found[q] = NoRow
    /\ ~ Blocked(q)
    /\ stored # {}
    /\ Respond(q)
    /\ UNCHANGED <<stored, used, suppressed, pushed, owed, eligible, deleted,
                   delivery, faults>>

\* perform_later for one member.
EnqueueEmail(q) ==
    /\ req[q] = "enqueueing"
    /\ \E m \in todo[q] :
        /\ todo' = [todo EXCEPT ![q] = @ \ {m}]
        /\ job' = [job EXCEPT ![<<found[q], m>>] = "queued"]
    /\ UNCHANGED <<req, found, seen, wanted, stored, used, suppressed, pushed,
                   owed, eligible, deleted, retries, status, emails, ambiguous,
                   faults>>

\* Faulty variant: the alert is committed before its jobs are enqueued.
CommitAlertEarly(q) ==
    /\ req[q] = "enqueueing"
    /\ stored' = stored \cup {found[q]}
    /\ pushed' = IF wanted[q] THEN pushed ELSE pushed \cup {found[q]}
    /\ Respond(q)
    /\ UNCHANGED <<used, suppressed, owed, eligible, deleted, delivery, faults>>

\* The transaction commits: alert and outbox event become visible together.
CommitAlert(q) ==
    /\ req[q] = "enqueueing"
    /\ todo[q] = {}
    /\ stored' = stored \cup {found[q]}
    /\ pushed' = IF wanted[q] THEN pushed ELSE pushed \cup {found[q]}
    /\ Respond(q)
    /\ UNCHANGED <<used, suppressed, owed, eligible, deleted, delivery, faults>>

\* An enqueue raises, the database fails or the process dies: the alert and
\* its outbox event roll back, jobs already in Redis stay there.  Bound: an
\* alert id must be left for the next attempt.
Rollback(q) ==
    /\ req[q] = "enqueueing"
    /\ used # Row
    /\ TakeFault
    /\ Respond(q)
    /\ UNCHANGED <<stored, used, suppressed, pushed, owed, eligible, deleted,
                   delivery>>

\* The alert existed: its attributes are saved, as far as they differ from
\* what was loaded, and nobody is notified.
Update(q) ==
    /\ req[q] = "found"
    /\ found[q] # NoRow
    /\ suppressed' = IF wanted[q] # seen[q]
                     THEN [suppressed EXCEPT ![found[q]] = wanted[q]]
                     ELSE suppressed
    /\ Respond(q)
    /\ UNCHANGED <<stored, used, pushed, owed, eligible, deleted, delivery,
                   faults>>

-------------------------------------------------------------------------------
(* Members and governance requests                                         *)

\* A member opts out of alert e-mails or in again, or is disabled or enabled.
SetPreference(m) ==
    /\ eligible' = IF m \in eligible THEN eligible \ {m} ELSE eligible \cup {m}
    /\ UNCHANGED <<intake, deleted, delivery, faults>>

\* Faulty variant: every delivery row is skipped, also the finished ones.
DeleteTenantOverwriting ==
    /\ ~ deleted
    /\ deleted' = TRUE
    /\ suppressed' = [r \in Row |-> r \in stored \/ suppressed[r]]
    /\ status' = [j \in Job |-> IF status[j] # "absent" THEN "skipped"
                                ELSE status[j]]
    /\ UNCHANGED <<req, found, seen, wanted, todo, stored, used, pushed, owed,
                   eligible, job, retries, emails, ambiguous, faults>>

\* apply_request! for tenant_deletion: all alerts are suppressed and the
\* deliveries in progress are skipped, in one transaction.
DeleteTenant ==
    /\ ~ deleted
    /\ deleted' = TRUE
    /\ suppressed' = [r \in Row |-> r \in stored \/ suppressed[r]]
    /\ status' = [j \in Job |-> IF status[j] = "sending" THEN "skipped"
                                ELSE status[j]]
    /\ UNCHANGED <<req, found, seen, wanted, todo, stored, used, pushed, owed,
                   eligible, job, retries, emails, ambiguous, faults>>

-------------------------------------------------------------------------------
(* AlertEmailNotificationJob#perform, run by Sidekiq                       *)

Working == {"loading", "skip", "unconfirmed", "claim", "sending", "sent",
            "failing"}
Settled == {"done", "dead", "lost"}

\* What a job step leaves alone besides its own bookkeeping.
OutsideJobs == <<intake, eligible, deleted>>

Fetch(j) ==
    /\ job[j] = "queued"
    /\ job' = [job EXCEPT ![j] = "loading"]
    /\ UNCHANGED <<OutsideJobs, retries, status, emails, ambiguous, faults>>

\* Faulty variant: there is no limit to the retries.
RaiseUncapped(j) ==
    /\ job' = [job EXCEPT ![j] = "queued"]
    /\ UNCHANGED retries

\* Faulty variant: one retry too many.
RaiseOffByOne(j) ==
    IF retries[j] <= MaxRetries
    THEN /\ job' = [job EXCEPT ![j] = "queued"]
         /\ retries' = [retries EXCEPT ![j] = @ + 1]
    ELSE /\ job' = [job EXCEPT ![j] = "dead"]
         /\ UNCHANGED retries

\* perform raises: Sidekiq schedules a retry until the retries are used up.
Raise(j) ==
    IF retries[j] < MaxRetries
    THEN /\ job' = [job EXCEPT ![j] = "queued"]
         /\ retries' = [retries EXCEPT ![j] = @ + 1]
    ELSE /\ job' = [job EXCEPT ![j] = "dead"]
         /\ UNCHANGED retries

\* Alert.find raises RecordNotFound: not committed yet, or rolled back.
AlertMissing(j) ==
    /\ job[j] = "loading"
    /\ j[1] \notin stored
    /\ Raise(j)
    /\ UNCHANGED <<OutsideJobs, status, emails, ambiguous, faults>>

\* Faulty variant: the job carries the alert instead of finding it.
LoadUnstored(j) ==
    /\ job[j] = "loading"
    /\ job' = [job EXCEPT ![j] = "claim"]
    /\ UNCHANGED <<OutsideJobs, retries, status, emails, ambiguous, faults>>

\* Faulty variant: a delivery found in "sending" is tried again.
LoadResending(j) ==
    /\ job[j] = "loading"
    /\ j[1] \in stored
    /\ job' = [job EXCEPT ![j] =
                 CASE status[j] \in {"delivered", "skipped"} -> "done"
                   [] j[2] \notin eligible                   -> "skip"
                   [] OTHER                                  -> "claim"]
    /\ UNCHANGED <<OutsideJobs, retries, status, emails, ambiguous, faults>>

\* Alert, membership and delivery are loaded and the job decides what to do.
Load(j) ==
    /\ job[j] = "loading"
    /\ j[1] \in stored
    /\ job' = [job EXCEPT ![j] =
                 CASE status[j] \in {"delivered", "skipped"} -> "done"
                   [] status[j] \notin {"delivered", "skipped"}
                      /\ j[2] \notin eligible                -> "skip"
                   [] status[j] = "sending" /\ j[2] \in eligible
                                                             -> "unconfirmed"
                   [] OTHER                                  -> "claim"]
    /\ UNCHANGED <<OutsideJobs, retries, status, emails, ambiguous, faults>>

\* The member is no longer eligible: terminal "skipped".
Skip(j) ==
    /\ job[j] = "skip"
    /\ status' = [status EXCEPT ![j] = "skipped"]
    /\ job' = [job EXCEPT ![j] = "done"]
    /\ UNCHANGED <<OutsideJobs, retries, emails, ambiguous, faults>>

\* An earlier run got as far as sending: terminal "failed", no resend.
GiveUpUnconfirmed(j) ==
    /\ job[j] = "unconfirmed"
    /\ status' = [status EXCEPT ![j] = "failed"]
    /\ job' = [job EXCEPT ![j] = "done"]
    /\ UNCHANGED <<OutsideJobs, retries, emails, ambiguous, faults>>

\* The delivery is marked "sending" before anything is sent.
MarkSending(j) ==
    /\ job[j] = "claim"
    /\ status' = [status EXCEPT ![j] = "sending"]
    /\ job' = [job EXCEPT ![j] = "sending"]
    /\ UNCHANGED <<OutsideJobs, retries, emails, ambiguous, faults>>

\* deliver_now returns: the SMTP server has accepted the e-mail.
Send(j) ==
    /\ job[j] = "sending"
    /\ emails' = [emails EXCEPT ![j] = @ + 1]
    /\ job' = [job EXCEPT ![j] = "sent"]
    /\ UNCHANGED <<OutsideJobs, retries, status, ambiguous, faults>>

\* deliver_now raises and nothing was sent; this may go on for ever.
SendFails(j) ==
    /\ job[j] = "sending"
    /\ job' = [job EXCEPT ![j] = "failing"]
    /\ UNCHANGED <<OutsideJobs, retries, status, emails, ambiguous, faults>>

\* deliver_now raises although the server accepted the e-mail, for instance a
\* timeout waiting for its answer.
SendTimesOut(j) ==
    /\ job[j] = "sending"
    /\ TakeFault
    /\ emails' = [emails EXCEPT ![j] = @ + 1]
    /\ ambiguous' = [ambiguous EXCEPT ![j] = @ + 1]
    /\ job' = [job EXCEPT ![j] = "failing"]
    /\ UNCHANGED <<OutsideJobs, retries, status>>

MarkDelivered(j) ==
    /\ job[j] = "sent"
    /\ status' = [status EXCEPT ![j] = "delivered"]
    /\ job' = [job EXCEPT ![j] = "done"]
    /\ UNCHANGED <<OutsideJobs, retries, emails, ambiguous, faults>>

\* The update to "delivered" raises: the rescue takes it for a failed send.  If
\* the answer to its COMMIT was lost, the row says "delivered" all the same.
MarkDeliveredFails(j) ==
    /\ job[j] = "sent"
    /\ TakeFault
    /\ status' \in {status, [status EXCEPT ![j] = "delivered"]}
    /\ ambiguous' = [ambiguous EXCEPT ![j] = @ + 1]
    /\ job' = [job EXCEPT ![j] = "failing"]
    /\ UNCHANGED <<OutsideJobs, retries, emails>>

\* The rescue marks the delivery "failed" and raises again.
MarkFailed(j) ==
    /\ job[j] = "failing"
    /\ status' = [status EXCEPT ![j] = "failed"]
    /\ Raise(j)
    /\ UNCHANGED <<OutsideJobs, emails, ambiguous, faults>>

\* Any other statement of the job raises.
StatementFails(j) ==
    /\ job[j] \in Working \ {"sending", "sent"}
    /\ TakeFault
    /\ Raise(j)
    /\ UNCHANGED <<OutsideJobs, status, emails, ambiguous>>

\* Sidekiq shuts down and puts the unfinished job back into its queue.
Shutdown(j) ==
    /\ job[j] \in Working
    /\ TakeFault
    /\ job' = [job EXCEPT ![j] = "queued"]
    /\ UNCHANGED <<OutsideJobs, retries, status, emails, ambiguous>>

\* The Sidekiq process is killed, or Redis loses its queue.
Lose(j) ==
    /\ job[j] \in Working \cup {"queued"}
    /\ TakeFault
    /\ job' = [job EXCEPT ![j] = "lost"]
    /\ UNCHANGED <<OutsideJobs, retries, status, emails, ambiguous>>

-------------------------------------------------------------------------------
Create(q) ==
    \/ \E r \in Row : Save(q, r)
    \/ SaveConflict(q)
    \/ EnqueueEmail(q)
    \/ CommitAlert(q)
    \/ Rollback(q)
    \/ Update(q)

Perform(j) ==
    \/ Fetch(j)
    \/ AlertMissing(j)
    \/ Load(j)
    \/ Skip(j)
    \/ GiveUpUnconfirmed(j)
    \/ MarkSending(j)
    \/ Send(j)
    \/ SendFails(j)
    \/ MarkDelivered(j)
    \/ MarkFailed(j)

JobFault(j) ==
    \/ SendTimesOut(j)
    \/ MarkDeliveredFails(j)
    \/ StatementFails(j)
    \/ Shutdown(j)
    \/ Lose(j)

Next ==
    \/ \E q \in Request : Create(q) \/ \E s \in BOOLEAN : Find(q, s)
    \/ \E m \in Member : SetPreference(m)
    \/ DeleteTenant
    \/ \E j \in Job : Perform(j) \/ JobFault(j)

Spec == Init /\ [][Next]_vars

(* Sidekiq keeps running the jobs in its queue.  Nothing is assumed of the *)
(* SMTP server: sending may fail every time.                               *)
FairSpec == Spec /\ \A j \in Job : WF_vars(Perform(j))

-------------------------------------------------------------------------------
(* Properties                                                              *)

TypeOK ==
    /\ req \in [Request -> {"idle", "found", "enqueueing"}]
    /\ found \in [Request -> Row \cup {NoRow}]
    /\ seen \in [Request -> BOOLEAN]
    /\ wanted \in [Request -> BOOLEAN]
    /\ todo \in [Request -> SUBSET Member]
    /\ stored \in SUBSET Row
    /\ used \in SUBSET Row
    /\ suppressed \in [Row -> BOOLEAN]
    /\ pushed \in SUBSET Row
    /\ owed \in [Row -> SUBSET Member]
    /\ eligible \in SUBSET Member
    /\ deleted \in BOOLEAN
    /\ job \in [Job -> {"none", "queued"} \cup Working \cup Settled]
    /\ retries \in [Job -> 0..MaxRetries]
    /\ status \in [Job -> {"absent", "sending", "delivered", "failed", "skipped"}]
    /\ emails \in [Job -> Nat]
    /\ ambiguous \in [Job -> Nat]
    /\ faults \in 0..MaxFaults

\* An alert is stored once and never without its notifications
\* (alerts_controller.rb:24-37): whatever requests overlap and wherever one
\* fails, each member owed an e-mail has a job and the push event is stored.
StoredWithNotifications ==
    /\ Cardinality(stored) <= 1
    /\ \A r \in stored : owed[r] # {} =>
           /\ r \in pushed
           /\ \A m \in owed[r] : job[<<r, m>>] # "none"

\* Jobs left behind by a rolled-back alert, or started before the commit, mail
\* nobody: an e-mail is about a stored alert that was not suppressed when it
\* was created.
MailedAlertsStored ==
    \A j \in Job : emails[j] > 0 => j[1] \in stored /\ j[2] \in owed[j[1]]

\* The delivery record tells the truth.  "delivered" is an e-mail the server
\* accepted, and the "sending" mark does its work: shutdowns, kills and failing
\* statements never cause a second e-mail.  Only an accepted e-mail whose outcome
\* the job itself recorded as a failure can be followed by another one.
DuplicatesExplained ==
    \A j \in Job : /\ status[j] = "delivered" => emails[j] > 0
                   /\ emails[j] <= 1 + ambiguous[j]

\* "delivered" is final, also for a tenant deletion, but for the job itself, which
\* puts "failed" in its place when it never learned that its update had gone through
\* (alert_email_notification_job.rb:58-60); and "skipped" changes only at the hand
\* of an attempt that was already under way.
OutcomesFinal ==
    [][\A j \in Job :
        /\ status[j] = "delivered" /\ status'[j] # "delivered" =>
               job[j] = "failing" /\ status'[j] = "failed"
        /\ status[j] = "skipped" /\ status'[j] # "skipped" =>
               job[j] \in {"unconfirmed", "sent", "failing"}]_vars

\* Every job comes to an end, even if no e-mail can ever be sent.
JobsSettle == \A j \in Job : job[j] = "queued" ~> job[j] \in Settled

\* What the alert feed specification promises of the "sending" mark: "a
\* guarantee of never double-sending" (docs/specs/explainable-alert-feed.md:76).
NeverDoubleSent == \A j \in Job : emails[j] <= 1
===============================================================================
