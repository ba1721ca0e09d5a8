----------------------- MODULE AlertNotificationProofs -----------------------
(***************************************************************************)
(* Proofs about AlertNotification for any requests, alert ids, members,    *)
(* numbers of retries and of faults.                                       *)
(*                                                                         *)
(* Two halves meet in the invariant.  Of the intake: one request at a time *)
(* is inside the insert, and what it still has to enqueue has no job       *)
(* (InsertOpen), so that what it commits is complete (StoredComplete).  Of *)
(* a job: what each place in perform says about the delivery row and the   *)
(* e-mails the server has accepted (JobOK); the "sending" mark is in place *)
(* whenever an e-mail may be under way.                                    *)
(***************************************************************************)
EXTENDS AlertNotification, FiniteSetTheorems, TLAPS

Inserting(q) == req[q] = "enqueueing"

\* The unique index lets one insert at a time through.
OneInsert == \A p, q \in Request : Inserting(p) /\ Inserting(q) => p = q

\* Inside the transaction, the members owed an e-mail have a job in Redis, except
\* those that are still to be enqueued.
InsertOpen(q) ==
    /\ stored = {}
    /\ found[q] \in used
    /\ todo[q] \subseteq owed[found[q]]
    /\ wanted[q] => owed[found[q]] = {}
    /\ \A m \in owed[found[q]] : job[<<found[q], m>>] = "none" <=> m \in todo[q]

StoredOnce == stored \subseteq used /\ \A r, s \in stored : r = s

StoredComplete ==
    \A r \in stored : owed[r] # {} =>
        /\ r \in pushed
        /\ \A m \in owed[r] : job[<<r, m>>] # "none"

Intake ==
    /\ OneInsert
    /\ \A q \in Request : Inserting(q) => InsertOpen(q)
    /\ StoredOnce
    /\ StoredComplete

\* Where perform is past Alert.find.
Found == {"skip", "unconfirmed", "claim", "sending", "sent", "failing"}

\* What is true of a job, its delivery row and its e-mails.
JobOK(j) ==
    /\ job[j] # "none" => j[1] \in used /\ j[2] \in owed[j[1]]
    /\ job[j] = "none" => status[j] = "absent" /\ emails[j] = 0
    /\ job[j] \in Found \/ emails[j] > 0 => j[1] \in stored
    /\ job[j] = "claim" => status[j] \in {"absent", "failed"}
    /\ job[j] \in {"unconfirmed", "sending", "sent"} =>
           status[j] \in {"sending", "skipped"}
    /\ job[j] = "failing" => status[j] \in {"sending", "skipped", "delivered"}
    /\ job[j] = "sent" => emails[j] > 0
    /\ status[j] = "delivered" =>
           /\ job[j] \in {"failing", "queued", "loading"} \cup Settled
           /\ emails[j] > 0
    /\ job[j] \in {"sending", "failing"} => emails[j] <= ambiguous[j]
    /\ status[j] \in {"absent", "failed"} /\ job[j] \notin Settled =>
           emails[j] <= ambiguous[j]
    /\ emails[j] <= 1 + ambiguous[j]

IInv == TypeOK /\ Intake /\ \A j \in Job : JobOK(j)

-------------------------------------------------------------------------------
(* Types *)

LEMMA TypeInit == Init => TypeOK
<1> SUFFICES ASSUME Init
             PROVE  TypeOK
  OBVIOUS
<1>1. /\ job \in [Job -> {"none", "queued"} \cup Working \cup Settled]
      /\ status \in [Job -> {"absent", "sending", "delivered", "failed", "skipped"}]
      /\ emails \in [Job -> Nat] /\ ambiguous \in [Job -> Nat]
  BY DEF Init
<1>2. retries \in [Job -> 0..MaxRetries] /\ faults \in 0..MaxFaults
  BY BoundAssumption DEF Init
<1>3. /\ req \in [Request -> {"idle", "found", "enqueueing"}]
      /\ found \in [Request -> Row \cup {NoRow}]
      /\ seen \in [Request -> BOOLEAN]
      /\ wanted \in [Request -> BOOLEAN]
      /\ todo \in [Request -> SUBSET Member]
  BY DEF Init
<1>4. /\ suppressed \in [Row -> BOOLEAN] /\ owed \in [Row -> SUBSET Member]
      /\ stored = {} /\ used = {} /\ pushed = {} /\ eligible = Member
      /\ deleted \in BOOLEAN
  BY DEF Init
<1> QED
  BY <1>1, <1>2, <1>3, <1>4 DEF TypeOK

LEMMA RaiseType ==
    ASSUME TypeOK, NEW j \in Job, Raise(j)
    PROVE  /\ job' \in [Job -> {"none", "queued"} \cup Working \cup Settled]
           /\ retries' \in [Job -> 0..MaxRetries]
BY BoundAssumption DEF Raise, TypeOK, Settled

LEMMA TypeStep ==
    ASSUME IInv, [Next]_vars
    PROVE  TypeOK'
<1>0. TypeOK
  BY DEF IInv
<1>1. ASSUME NEW q \in Request, \E s \in BOOLEAN : Find(q, s)
      PROVE  TypeOK'
  <2>1. PICK s \in BOOLEAN : Find(q, s)
    BY <1>1
  <2>2. /\ req' = [req EXCEPT ![q] = "found"] /\ wanted' = [wanted EXCEPT ![q] = s]
        /\ UNCHANGED <<todo, stored, used, suppressed, pushed, owed, eligible,
                       deleted, job, retries, status, emails, ambiguous, faults>>
    BY <2>1 DEF Find, delivery
  <2>3. CASE stored = {}
    <3>1. /\ found' = [found EXCEPT ![q] = NoRow] /\ seen' = [seen EXCEPT ![q] = FALSE]
      BY <2>1, <2>3 DEF Find
    <3>2. found' \in [Request -> Row \cup {NoRow}] /\ seen' \in [Request -> BOOLEAN]
      BY <1>0, <3>1 DEF TypeOK
    <3>3. req' \in [Request -> {"idle", "found", "enqueueing"}] /\ wanted' \in [Request -> BOOLEAN]
      BY <1>0, <2>2 DEF TypeOK
    <3> QED
      BY <1>0, <2>2, <3>2, <3>3 DEF TypeOK
  <2>4. CASE stored # {}
    <3>1. PICK r \in stored : /\ found' = [found EXCEPT ![q] = r]
                             /\ seen' = [seen EXCEPT ![q] = suppressed[r]]
      BY <2>1, <2>4 DEF Find
    <3> QED
      BY <1>0, <2>2, <3>1 DEF TypeOK
  <2> QED
    BY <2>3, <2>4
<1>2. ASSUME NEW q \in Request, \E r \in Row : Save(q, r)
      PROVE  TypeOK'
  BY <1>2, BoundAssumption DEF Save, TypeOK, IInv, intake, delivery
<1>3. ASSUME NEW q \in Request, SaveConflict(q)
      PROVE  TypeOK'
  BY <1>3, BoundAssumption DEF SaveConflict, Respond, TypeOK, IInv, intake, delivery
<1>4. ASSUME NEW q \in Request, EnqueueEmail(q)
      PROVE  TypeOK'
  <2>1. found[q] \in Row
    BY <1>4 DEF EnqueueEmail, IInv, Intake, InsertOpen, Inserting, TypeOK
  <2>2. PICK m \in todo[q] : /\ todo' = [todo EXCEPT ![q] = todo[q] \ {m}]
                            /\ job' = [job EXCEPT ![<<found[q], m>>] = "queued"]
    BY <1>4 DEF EnqueueEmail
  <2>3. job' \in [Job -> {"none", "queued"} \cup Working \cup Settled]
    BY <2>2 DEF TypeOK, IInv
  <2>4. todo' \in [Request -> SUBSET Member]
    BY <2>2 DEF TypeOK, IInv
  <2> QED
    BY <1>4, <2>3, <2>4 DEF EnqueueEmail, TypeOK, IInv
<1>5. ASSUME NEW q \in Request, CommitAlert(q)
      PROVE  TypeOK'
  <2>1. found[q] \in Row
    BY <1>5 DEF CommitAlert, IInv, Intake, InsertOpen, Inserting, TypeOK
  <2> QED
    BY <1>5, <2>1 DEF CommitAlert, Respond, TypeOK, IInv, delivery
<1>6. ASSUME NEW q \in Request, Rollback(q)
      PROVE  TypeOK'
  BY <1>6, BoundAssumption DEF Rollback, Respond, TakeFault, TypeOK, IInv, intake, delivery
<1>7. ASSUME NEW q \in Request, Update(q)
      PROVE  TypeOK'
  BY <1>7, BoundAssumption DEF Update, Respond, TypeOK, IInv, intake, delivery
<1>8. ASSUME NEW m \in Member, SetPreference(m)
      PROVE  TypeOK'
  BY <1>8, BoundAssumption DEF SetPreference, TypeOK, IInv, intake, delivery
<1>9. CASE DeleteTenant
  BY <1>9, BoundAssumption DEF DeleteTenant, TypeOK, IInv, intake, delivery
<1>10. ASSUME NEW j \in Job, Fetch(j)
      PROVE  TypeOK'
  BY <1>10, BoundAssumption DEF Fetch, TypeOK, IInv, OutsideJobs, intake, Working, Settled
<1>11. ASSUME NEW j \in Job, AlertMissing(j)
      PROVE  TypeOK'
  <2>1. /\ job' \in [Job -> {"none", "queued"} \cup Working \cup Settled]
        /\ retries' \in [Job -> 0..MaxRetries]
    BY <1>11, <1>0, <1>0, <1>0, RaiseType DEF AlertMissing
  <2>2. status' \in [Job -> {"absent", "sending", "delivered", "failed", "skipped"}]
    BY <1>11 DEF AlertMissing, TypeOK, IInv
  <2>3. faults' \in 0..MaxFaults
    BY <1>11, BoundAssumption DEF AlertMissing, TakeFault, TypeOK, IInv
  <2> QED
    BY <1>11, <2>1, <2>2, <2>3 DEF AlertMissing, TypeOK, IInv, OutsideJobs, intake
<1>12. ASSUME NEW j \in Job, Load(j)
      PROVE  TypeOK'
  BY <1>12, BoundAssumption DEF Load, TypeOK, IInv, OutsideJobs, intake, Working, Settled
<1>13. ASSUME NEW j \in Job, Skip(j)
      PROVE  TypeOK'
  BY <1>13, BoundAssumption DEF Skip, TypeOK, IInv, OutsideJobs, intake, Working, Settled
<1>14. ASSUME NEW j \in Job, GiveUpUnconfirmed(j)
      PROVE  TypeOK'
  BY <1>14, BoundAssumption DEF GiveUpUnconfirmed, TypeOK, IInv, OutsideJobs, intake, Working, Settled
<1>15. ASSUME NEW j \in Job, MarkSending(j)
      PROVE  TypeOK'
  BY <1>15, BoundAssumption DEF MarkSending, TypeOK, IInv, OutsideJobs, intake, Working, Settled
<1>16. ASSUME NEW j \in Job, Send(j)
      PROVE  TypeOK'
  BY <1>16, BoundAssumption DEF Send, TypeOK, IInv, OutsideJobs, intake, Working, Settled
<1>17. ASSUME NEW j \in Job, SendFails(j)
      PROVE  TypeOK'
  BY <1>17, BoundAssumption DEF SendFails, TypeOK, IInv, OutsideJobs, intake, Working, Settled
<1>18. ASSUME NEW j \in Job, MarkDelivered(j)
      PROVE  TypeOK'
  BY <1>18, BoundAssumption DEF MarkDelivered, TypeOK, IInv, OutsideJobs, intake, Working, Settled
<1>19. ASSUME NEW j \in Job, MarkFailed(j)
      PROVE  TypeOK'
  <2>1. /\ job' \in [Job -> {"none", "queued"} \cup Working \cup Settled]
        /\ retries' \in [Job -> 0..MaxRetries]
    BY <1>19, <1>0, <1>0, <1>0, RaiseType DEF MarkFailed
  <2>2. status' \in [Job -> {"absent", "sending", "delivered", "failed", "skipped"}]
    BY <1>19 DEF MarkFailed, TypeOK, IInv
  <2>3. faults' \in 0..MaxFaults
    BY <1>19, BoundAssumption DEF MarkFailed, TakeFault, TypeOK, IInv
  <2> QED
    BY <1>19, <2>1, <2>2, <2>3 DEF MarkFailed, TypeOK, IInv, OutsideJobs, intake
<1>20. ASSUME NEW j \in Job, SendTimesOut(j)
      PROVE  TypeOK'
  BY <1>20, BoundAssumption DEF SendTimesOut, TakeFault, TypeOK, IInv, OutsideJobs, intake, Working, Settled
<1>21. ASSUME NEW j \in Job, MarkDeliveredFails(j)
      PROVE  TypeOK'
  BY <1>21, BoundAssumption DEF MarkDeliveredFails, TakeFault, TypeOK, IInv, OutsideJobs, intake, Working, Settled
<1>22. ASSUME NEW j \in Job, StatementFails(j)
      PROVE  TypeOK'
  <2>1. /\ job' \in [Job -> {"none", "queued"} \cup Working \cup Settled]
        /\ retries' \in [Job -> 0..MaxRetries]
    BY <1>22, <1>0, <1>0, <1>0, RaiseType DEF StatementFails
  <2>2. status' \in [Job -> {"absent", "sending", "delivered", "failed", "skipped"}]
    BY <1>22 DEF StatementFails, TypeOK, IInv
  <2>3. faults' \in 0..MaxFaults
    BY <1>22, BoundAssumption DEF StatementFails, TakeFault, TypeOK, IInv
  <2> QED
    BY <1>22, <2>1, <2>2, <2>3 DEF StatementFails, TypeOK, IInv, OutsideJobs, intake
<1>23. ASSUME NEW j \in Job, Shutdown(j)
      PROVE  TypeOK'
  BY <1>23, BoundAssumption DEF Shutdown, TakeFault, TypeOK, IInv, OutsideJobs, intake, Working, Settled
<1>24. ASSUME NEW j \in Job, Lose(j)
      PROVE  TypeOK'
  BY <1>24, BoundAssumption DEF Lose, TakeFault, TypeOK, IInv, OutsideJobs, intake, Working, Settled
<1>25. CASE UNCHANGED vars
  BY <1>0, <1>25 DEF vars, intake, delivery, TypeOK
<1> QED
  BY <1>1, <1>2, <1>3, <1>4, <1>5, <1>6, <1>7, <1>8, <1>9, <1>10, <1>11, <1>12,
     <1>13, <1>14, <1>15, <1>16, <1>17, <1>18, <1>19, <1>20, <1>21, <1>22, <1>23,
     <1>24, <1>25
     DEF Next, Create, Perform, JobFault

-------------------------------------------------------------------------------
(* Jobs *)

LEMMA JobStep ==
    ASSUME IInv, [Next]_vars, NEW k \in Job
    PROVE  JobOK(k)'
<1>0. /\ JobOK(k)
      /\ job \in [Job -> {"none", "queued"} \cup Working \cup Settled]
      /\ status \in [Job -> {"absent", "sending", "delivered", "failed", "skipped"}]
      /\ emails \in [Job -> Nat] /\ ambiguous \in [Job -> Nat]
      /\ owed \in [Row -> SUBSET Member] /\ used \subseteq Row
  BY DEF IInv, TypeOK
<1>1. ASSUME NEW q \in Request, \E s \in BOOLEAN : Find(q, s)
      PROVE  JobOK(k)'
  <2>1. /\ UNCHANGED <<job, status, emails, ambiguous, used, owed>>
        /\ stored \subseteq stored'
    BY <1>1 DEF Find, delivery, intake
  <2> QED
    BY <1>0, <2>1 DEF JobOK
<1>2. ASSUME NEW q \in Request, \E r \in Row : Save(q, r)
      PROVE  JobOK(k)'
  <2>1. PICK r \in Row : Save(q, r)
    BY <1>2
  <2>2. /\ UNCHANGED <<job, status, emails, ambiguous, stored>>
        /\ used' = used \cup {r} /\ r \notin used
        /\ k[1] # r => owed'[k[1]] = owed[k[1]]
    BY <2>1, <1>0 DEF Save, delivery
  <2> QED
    BY <1>0, <2>2 DEF JobOK
<1>3. ASSUME NEW q \in Request, SaveConflict(q)
      PROVE  JobOK(k)'
  <2>1. /\ UNCHANGED <<job, status, emails, ambiguous, used, owed>>
        /\ stored \subseteq stored'
    BY <1>3 DEF SaveConflict, Respond, delivery, intake
  <2> QED
    BY <1>0, <2>1 DEF JobOK
<1>4. ASSUME NEW q \in Request, EnqueueEmail(q)
      PROVE  JobOK(k)'
  <2>1. /\ UNCHANGED <<status, emails, ambiguous, used, owed, stored>>
        /\ req[q] = "enqueueing"
    BY <1>4 DEF EnqueueEmail
  <2>2. PICK m \in todo[q] : job' = [job EXCEPT ![<<found[q], m>>] = "queued"]
    BY <1>4 DEF EnqueueEmail
  <2>3. /\ found[q] \in used /\ m \in owed[found[q]]
        /\ found[q] \in Row => job[<<found[q], m>>] = "none"
    BY <2>1 DEF IInv, Intake, Inserting, InsertOpen
  <2>4. CASE k = <<found[q], m>>
    <3>1. /\ k[1] \in used /\ k[2] \in owed[k[1]] /\ job[k] = "none"
          /\ job'[k] = "queued"
      BY <1>0, <2>2, <2>3, <2>4 DEF TypeOK
    <3> QED
      BY <1>0, <2>1, <3>1 DEF JobOK, Found
  <2>5. CASE k # <<found[q], m>>
    <3>1. job'[k] = job[k]
      BY <1>0, <2>2, <2>5
    <3> QED
      BY <1>0, <2>1, <3>1 DEF JobOK
  <2> QED
    BY <2>4, <2>5
<1>5. ASSUME NEW q \in Request, CommitAlert(q)
      PROVE  JobOK(k)'
  <2>1. /\ UNCHANGED <<job, status, emails, ambiguous, used, owed>>
        /\ stored \subseteq stored'
    BY <1>5 DEF CommitAlert, Respond, delivery, intake
  <2> QED
    BY <1>0, <2>1 DEF JobOK
<1>6. ASSUME NEW q \in Request, Rollback(q)
      PROVE  JobOK(k)'
  <2>1. /\ UNCHANGED <<job, status, emails, ambiguous, used, owed>>
        /\ stored \subseteq stored'
    BY <1>6 DEF Rollback, Respond, TakeFault, delivery, intake
  <2> QED
    BY <1>0, <2>1 DEF JobOK
<1>7. ASSUME NEW q \in Request, Update(q)
      PROVE  JobOK(k)'
  <2>1. /\ UNCHANGED <<job, status, emails, ambiguous, used, owed>>
        /\ stored \subseteq stored'
    BY <1>7 DEF Update, Respond, delivery, intake
  <2> QED
    BY <1>0, <2>1 DEF JobOK
<1>8. ASSUME NEW m \in Member, SetPreference(m)
      PROVE  JobOK(k)'
  <2>1. /\ UNCHANGED <<job, status, emails, ambiguous, used, owed>>
        /\ stored \subseteq stored'
    BY <1>8 DEF SetPreference, delivery, intake
  <2> QED
    BY <1>0, <2>1 DEF JobOK
<1>9. CASE DeleteTenant
  <2>1. /\ UNCHANGED <<job, emails, ambiguous, used, owed, stored>>
        /\ status'[k] = IF status[k] = "sending" THEN "skipped" ELSE status[k]
    BY <1>9 DEF DeleteTenant
  <2> QED
    BY <1>0, <2>1 DEF JobOK, Found
<1>10. ASSUME NEW j \in Job, Fetch(j)
      PROVE  JobOK(k)'
  <2>1. UNCHANGED <<used, owed, stored>>
    BY <1>10 DEF Fetch, OutsideJobs, intake
  <2> QED
    BY <1>0, <2>1, <1>10 DEF Fetch, JobOK, Found, Settled, Working
<1>11. ASSUME NEW j \in Job, AlertMissing(j)
      PROVE  JobOK(k)'
  <2>1. UNCHANGED <<used, owed, stored>>
    BY <1>11 DEF AlertMissing, Raise, OutsideJobs, intake
  <2> QED
    BY <1>0, <2>1, <1>11 DEF AlertMissing, Raise, JobOK, Found, Settled, Working
<1>12. ASSUME NEW j \in Job, Load(j)
      PROVE  JobOK(k)'
  <2>1. UNCHANGED <<used, owed, stored>>
    BY <1>12 DEF Load, OutsideJobs, intake
  <2> QED
    BY <1>0, <2>1, <1>12 DEF Load, JobOK, Found, Settled, Working
<1>13. ASSUME NEW j \in Job, Skip(j)
      PROVE  JobOK(k)'
  <2>1. UNCHANGED <<used, owed, stored>>
    BY <1>13 DEF Skip, OutsideJobs, intake
  <2> QED
    BY <1>0, <2>1, <1>13 DEF Skip, JobOK, Found, Settled, Working
<1>14. ASSUME NEW j \in Job, GiveUpUnconfirmed(j)
      PROVE  JobOK(k)'
  <2>1. UNCHANGED <<used, owed, stored>>
    BY <1>14 DEF GiveUpUnconfirmed, OutsideJobs, intake
  <2> QED
    BY <1>0, <2>1, <1>14 DEF GiveUpUnconfirmed, JobOK, Found, Settled, Working
<1>15. ASSUME NEW j \in Job, MarkSending(j)
      PROVE  JobOK(k)'
  <2>1. UNCHANGED <<used, owed, stored>>
    BY <1>15 DEF MarkSending, OutsideJobs, intake
  <2> QED
    BY <1>0, <2>1, <1>15 DEF MarkSending, JobOK, Found, Settled, Working
<1>16. ASSUME NEW j \in Job, Send(j)
      PROVE  JobOK(k)'
  <2>1. UNCHANGED <<used, owed, stored>>
    BY <1>16 DEF Send, OutsideJobs, intake
  <2> QED
    BY <1>0, <2>1, <1>16 DEF Send, JobOK, Found, Settled, Working
<1>17. ASSUME NEW j \in Job, SendFails(j)
      PROVE  JobOK(k)'
  <2>1. UNCHANGED <<used, owed, stored>>
    BY <1>17 DEF SendFails, OutsideJobs, intake
  <2> QED
    BY <1>0, <2>1, <1>17 DEF SendFails, JobOK, Found, Settled, Working
<1>18. ASSUME NEW j \in Job, MarkDelivered(j)
      PROVE  JobOK(k)'
  <2>1. UNCHANGED <<used, owed, stored>>
    BY <1>18 DEF MarkDelivered, OutsideJobs, intake
  <2> QED
    BY <1>0, <2>1, <1>18 DEF MarkDelivered, JobOK, Found, Settled, Working
<1>19. ASSUME NEW j \in Job, MarkFailed(j)
      PROVE  JobOK(k)'
  <2>1. UNCHANGED <<used, owed, stored>>
    BY <1>19 DEF MarkFailed, Raise, OutsideJobs, intake
  <2> QED
    BY <1>0, <2>1, <1>19 DEF MarkFailed, Raise, JobOK, Found, Settled, Working
<1>20. ASSUME NEW j \in Job, SendTimesOut(j)
      PROVE  JobOK(k)'
  <2>1. UNCHANGED <<used, owed, stored>>
    BY <1>20 DEF SendTimesOut, TakeFault, OutsideJobs, intake
  <2> QED
    BY <1>0, <2>1, <1>20 DEF SendTimesOut, TakeFault, JobOK, Found, Settled, Working
<1>21. ASSUME NEW j \in Job, MarkDeliveredFails(j)
      PROVE  JobOK(k)'
  <2>1. UNCHANGED <<used, owed, stored>>
    BY <1>21 DEF MarkDeliveredFails, TakeFault, OutsideJobs, intake
  <2> QED
    BY <1>0, <2>1, <1>21 DEF MarkDeliveredFails, TakeFault, JobOK, Found, Settled, Working
<1>22. ASSUME NEW j \in Job, StatementFails(j)
      PROVE  JobOK(k)'
  <2>1. UNCHANGED <<used, owed, stored>>
    BY <1>22 DEF StatementFails, Raise, TakeFault, OutsideJobs, intake
  <2> QED
    BY <1>0, <2>1, <1>22 DEF StatementFails, Raise, TakeFault, JobOK, Found, Settled, Working
<1>23. ASSUME NEW j \in Job, Shutdown(j)
      PROVE  JobOK(k)'
  <2>1. UNCHANGED <<used, owed, stored>>
    BY <1>23 DEF Shutdown, TakeFault, OutsideJobs, intake
  <2> QED
    BY <1>0, <2>1, <1>23 DEF Shutdown, TakeFault, JobOK, Found, Settled, Working
<1>24. ASSUME NEW j \in Job, Lose(j)
      PROVE  JobOK(k)'
  <2>1. UNCHANGED <<used, owed, stored>>
    BY <1>24 DEF Lose, TakeFault, OutsideJobs, intake
  <2> QED
    BY <1>0, <2>1, <1>24 DEF Lose, TakeFault, JobOK, Found, Settled, Working
<1>25. CASE UNCHANGED vars
  <2>1. UNCHANGED <<job, status, emails, ambiguous, used, owed, stored>>
    BY <1>25 DEF vars, intake, delivery
  <2> QED
    BY <1>0, <2>1 DEF JobOK
<1> QED
  BY <1>1, <1>2, <1>3, <1>4, <1>5, <1>6, <1>7, <1>8, <1>9, <1>10, <1>11, <1>12,
     <1>13, <1>14, <1>15, <1>16, <1>17, <1>18, <1>19, <1>20, <1>21, <1>22, <1>23,
     <1>24, <1>25
     DEF Next, Create, Perform, JobFault

-------------------------------------------------------------------------------
(* Intake *)

\* Nothing of the intake changes, and no job appears.
LEMMA IntakeStays ==
    ASSUME TypeOK, Intake,
           UNCHANGED <<req, found, wanted, todo, stored, used, pushed, owed>>,
           \A k \in Job : job'[k] = "none" <=> job[k] = "none"
    PROVE  Intake'
<1>1. \A r \in Row : \A m \in owed[r] : <<r, m>> \in Job
  BY DEF TypeOK, Job
<1>2. stored \subseteq Row /\ \A q \in Request : Inserting(q) => found[q] \in Row
  BY DEF TypeOK, Intake, InsertOpen
<1>3. StoredComplete'
  BY <1>1, <1>2 DEF Intake, StoredComplete
<1>4. \A q \in Request : Inserting(q)' => InsertOpen(q)'
  BY <1>1, <1>2 DEF Intake, Inserting, InsertOpen
<1>5. OneInsert' /\ StoredOnce'
  BY DEF Intake, OneInsert, Inserting, StoredOnce
<1> QED
  BY <1>3, <1>4, <1>5 DEF Intake

\* A request that is not inserting does not disturb the one that is.
LEMMA OthersInsert ==
    ASSUME TypeOK, Intake, NEW q \in Request, ~ Inserting(q)',
           UNCHANGED <<job, stored, used, pushed, owed>>,
           \A p \in Request \ {q} : /\ req'[p] = req[p] /\ found'[p] = found[p]
                                   /\ wanted'[p] = wanted[p] /\ todo'[p] = todo[p]
    PROVE  Intake'
<1>1. \A p \in Request : Inserting(p)' => p # q /\ Inserting(p)
  BY DEF Inserting
<1>2. \A p \in Request : Inserting(p)' => InsertOpen(p)'
  BY <1>1 DEF Intake, InsertOpen
<1>3. OneInsert'
  BY <1>1 DEF Intake, OneInsert
<1> QED
  BY <1>2, <1>3 DEF Intake, StoredOnce, StoredComplete

LEMMA IntakeStep ==
    ASSUME IInv, [Next]_vars
    PROVE  Intake'
<1>0. /\ TypeOK /\ Intake
      /\ req \in [Request -> {"idle", "found", "enqueueing"}]
      /\ found \in [Request -> Row \cup {NoRow}]
      /\ wanted \in [Request -> BOOLEAN]
      /\ todo \in [Request -> SUBSET Member]
      /\ owed \in [Row -> SUBSET Member] /\ used \subseteq Row /\ eligible \subseteq Member
      /\ job \in [Job -> {"none", "queued"} \cup Working \cup Settled]
  BY DEF IInv, TypeOK
<1>1. ASSUME NEW q \in Request, \E s \in BOOLEAN : Find(q, s)
      PROVE  Intake'
  <2>1. /\ UNCHANGED <<job, stored, used, pushed, owed>>
        /\ ~ Inserting(q)'
        /\ \A p \in Request \ {q} : /\ req'[p] = req[p] /\ found'[p] = found[p]
                                   /\ wanted'[p] = wanted[p] /\ todo'[p] = todo[p]
    BY <1>0, <1>1 DEF Find, delivery, Inserting
  <2> QED
    BY <1>0, <2>1, OthersInsert
<1>2. ASSUME NEW q \in Request, \E r \in Row : Save(q, r)
      PROVE  Intake'
  <2>1. PICK r \in Row : Save(q, r)
    BY <1>2
  <2>2. /\ stored = {} /\ stored' = {} /\ used' = used \cup {r} /\ r \notin used
        /\ UNCHANGED <<job, pushed>>
        /\ req' = [req EXCEPT ![q] = "enqueueing"]
    BY <2>1 DEF Save, delivery
  <2>3. \A p \in Request : ~ Inserting(p)
    BY <2>1 DEF Save, Blocked, Inserting
  <2>4. \A p \in Request : Inserting(p)' => p = q
    BY <1>0, <2>2, <2>3 DEF Inserting
  <2>5. \A m \in Member : job[<<r, m>>] = "none"
    <3>1. \A m \in Member : <<r, m>> \in Job /\ JobOK(<<r, m>>)
      BY DEF Job, IInv
    <3> QED
      BY <2>2, <3>1 DEF JobOK
  <2>6. /\ found'[q] = r /\ wanted'[q] = wanted[q]
        /\ todo'[q] = owed'[r] /\ todo'[q] \subseteq Member
        /\ wanted[q] => owed'[r] = {}
    BY <1>0, <2>1 DEF Save
  <2>7. InsertOpen(q)'
    BY <2>2, <2>5, <2>6 DEF InsertOpen
  <2> QED
    BY <2>2, <2>4, <2>7 DEF Intake, OneInsert, StoredOnce, StoredComplete
<1>3. ASSUME NEW q \in Request, SaveConflict(q)
      PROVE  Intake'
  <2>1. /\ UNCHANGED <<job, stored, used, pushed, owed>>
        /\ ~ Inserting(q)'
        /\ \A p \in Request \ {q} : /\ req'[p] = req[p] /\ found'[p] = found[p]
                                   /\ wanted'[p] = wanted[p] /\ todo'[p] = todo[p]
    BY <1>0, <1>3 DEF SaveConflict, Respond, delivery, Inserting
  <2> QED
    BY <1>0, <2>1, OthersInsert
<1>4. ASSUME NEW q \in Request, EnqueueEmail(q)
      PROVE  Intake'
  <2>1. /\ Inserting(q) /\ UNCHANGED <<req, found, wanted, stored, used, pushed, owed>>
    BY <1>4 DEF EnqueueEmail, Inserting
  <2>2. PICK m \in todo[q] : /\ todo' = [todo EXCEPT ![q] = todo[q] \ {m}]
                            /\ job' = [job EXCEPT ![<<found[q], m>>] = "queued"]
    BY <1>4 DEF EnqueueEmail
  <2>3. InsertOpen(q)
    BY <1>0, <2>1 DEF Intake
  <2>4. found[q] \in Row /\ owed[found[q]] \subseteq Member /\ m \in owed[found[q]]
    BY <1>0, <2>3 DEF InsertOpen
  <2>5. \A n \in owed[found[q]] : job'[<<found[q], n>>] = "none" <=> n \in todo'[q]
    <3> SUFFICES ASSUME NEW n \in owed[found[q]]
                 PROVE  job'[<<found[q], n>>] = "none" <=> n \in todo'[q]
      OBVIOUS
    <3>1. <<found[q], n>> \in Job /\ <<found[q], m>> \in Job
      BY <2>4 DEF Job
    <3>2. todo'[q] = todo[q] \ {m}
      BY <1>0, <2>2
    <3>3. CASE n = m
      BY <1>0, <2>2, <3>1, <3>2, <3>3
    <3>4. CASE n # m
      <4>1. job'[<<found[q], n>>] = job[<<found[q], n>>]
        BY <1>0, <2>2, <3>1, <3>4
      <4> QED
        BY <2>3, <3>2, <3>4, <4>1 DEF InsertOpen
    <3> QED
      BY <3>3, <3>4
  <2>6. todo'[q] \subseteq owed[found[q]]
    BY <1>0, <2>2, <2>3 DEF InsertOpen
  <2>7. InsertOpen(q)'
    BY <2>1, <2>3, <2>5, <2>6 DEF InsertOpen
  <2>8. \A p \in Request : Inserting(p)' => p = q
    BY <1>0, <2>1 DEF Inserting, Intake, OneInsert
  <2> QED
    BY <2>1, <2>3, <2>7, <2>8 DEF Intake, OneInsert, InsertOpen, StoredOnce, StoredComplete
<1>5. ASSUME NEW q \in Request, CommitAlert(q)
      PROVE  Intake'
  <2>1. Inserting(q) /\ InsertOpen(q) /\ todo[q] = {}
    BY <1>0, <1>5 DEF CommitAlert, Inserting, Intake
  <2>2. /\ stored = {} /\ stored' = {found[q]} /\ found[q] \in used
        /\ UNCHANGED <<job, used, owed>>
        /\ ~ wanted[q] => found[q] \in pushed'
    BY <2>1, <1>5 DEF CommitAlert, InsertOpen, delivery
  <2>3. \A p \in Request : ~ Inserting(p)'
    BY <1>0, <2>1, <1>5 DEF CommitAlert, Respond, Inserting, Intake, OneInsert
  <2>4. StoredComplete'
    BY <2>1, <2>2 DEF InsertOpen, StoredComplete
  <2> QED
    BY <2>2, <2>3, <2>4 DEF Intake, OneInsert, StoredOnce
<1>6. ASSUME NEW q \in Request, Rollback(q)
      PROVE  Intake'
  <2>1. /\ UNCHANGED <<job, stored, used, pushed, owed>>
        /\ ~ Inserting(q)'
        /\ \A p \in Request \ {q} : /\ req'[p] = req[p] /\ found'[p] = found[p]
                                   /\ wanted'[p] = wanted[p] /\ todo'[p] = todo[p]
    BY <1>0, <1>6 DEF Rollback, Respond, TakeFault, delivery, Inserting
  <2> QED
    BY <1>0, <2>1, OthersInsert
<1>7. ASSUME NEW q \in Request, Update(q)
      PROVE  Intake'
  <2>1. /\ UNCHANGED <<job, stored, used, pushed, owed>>
        /\ ~ Inserting(q)'
        /\ \A p \in Request \ {q} : /\ req'[p] = req[p] /\ found'[p] = found[p]
                                   /\ wanted'[p] = wanted[p] /\ todo'[p] = todo[p]
    BY <1>0, <1>7 DEF Update, Respond, delivery, Inserting
  <2> QED
    BY <1>0, <2>1, OthersInsert
<1>8. ASSUME NEW m \in Member, SetPreference(m)
      PROVE  Intake'
  <2>1. UNCHANGED <<req, found, wanted, todo, stored, used, pushed, owed, job>>
    BY <1>8 DEF SetPreference, intake, delivery
  <2> QED
    BY <1>0, <2>1, IntakeStays
<1>9. CASE DeleteTenant
  <2>1. UNCHANGED <<req, found, wanted, todo, stored, used, pushed, owed, job>>
    BY <1>9 DEF DeleteTenant, intake, delivery
  <2> QED
    BY <1>0, <2>1, IntakeStays
<1>10. ASSUME NEW j \in Job, Fetch(j)
      PROVE  Intake'
  <2>1. UNCHANGED <<req, found, wanted, todo, stored, used, pushed, owed>>
    BY <1>10 DEF Fetch, OutsideJobs, intake
  <2>2. \A k \in Job : job'[k] = "none" <=> job[k] = "none"
    BY <1>0, <1>10 DEF Fetch, Working
  <2> QED
    BY <1>0, <2>1, <2>2, IntakeStays
<1>11. ASSUME NEW j \in Job, AlertMissing(j)
      PROVE  Intake'
  <2>1. UNCHANGED <<req, found, wanted, todo, stored, used, pushed, owed>>
    BY <1>11 DEF AlertMissing, Raise, OutsideJobs, intake
  <2>2. \A k \in Job : job'[k] = "none" <=> job[k] = "none"
    BY <1>0, <1>11 DEF AlertMissing, Raise, Working
  <2> QED
    BY <1>0, <2>1, <2>2, IntakeStays
<1>12. ASSUME NEW j \in Job, Load(j)
      PROVE  Intake'
  <2>1. UNCHANGED <<req, found, wanted, todo, stored, used, pushed, owed>>
    BY <1>12 DEF Load, OutsideJobs, intake
  <2>2. \A k \in Job : job'[k] = "none" <=> job[k] = "none"
    BY <1>0, <1>12 DEF Load, Working
  <2> QED
    BY <1>0, <2>1, <2>2, IntakeStays
<1>13. ASSUME NEW j \in Job, Skip(j)
      PROVE  Intake'
  <2>1. UNCHANGED <<req, found, wanted, todo, stored, used, pushed, owed>>
    BY <1>13 DEF Skip, OutsideJobs, intake
  <2>2. \A k \in Job : job'[k] = "none" <=> job[k] = "none"
    BY <1>0, <1>13 DEF Skip, Working
  <2> QED
    BY <1>0, <2>1, <2>2, IntakeStays
<1>14. ASSUME NEW j \in Job, GiveUpUnconfirmed(j)
      PROVE  Intake'
  <2>1. UNCHANGED <<req, found, wanted, todo, stored, used, pushed, owed>>
    BY <1>14 DEF GiveUpUnconfirmed, OutsideJobs, intake
  <2>2. \A k \in Job : job'[k] = "none" <=> job[k] = "none"
    BY <1>0, <1>14 DEF GiveUpUnconfirmed, Working
  <2> QED
    BY <1>0, <2>1, <2>2, IntakeStays
<1>15. ASSUME NEW j \in Job, MarkSending(j)
      PROVE  Intake'
  <2>1. UNCHANGED <<req, found, wanted, todo, stored, used, pushed, owed>>
    BY <1>15 DEF MarkSending, OutsideJobs, intake
  <2>2. \A k \in Job : job'[k] = "none" <=> job[k] = "none"
    BY <1>0, <1>15 DEF MarkSending, Working
  <2> QED
    BY <1>0, <2>1, <2>2, IntakeStays
<1>16. ASSUME NEW j \in Job, Send(j)
      PROVE  Intake'
  <2>1. UNCHANGED <<req, found, wanted, todo, stored, used, pushed, owed>>
    BY <1>16 DEF Send, OutsideJobs, intake
  <2>2. \A k \in Job : job'[k] = "none" <=> job[k] = "none"
    BY <1>0, <1>16 DEF Send, Working
  <2> QED
    BY <1>0, <2>1, <2>2, IntakeStays
<1>17. ASSUME NEW j \in Job, SendFails(j)
      PROVE  Intake'
  <2>1. UNCHANGED <<req, found, wanted, todo, stored, used, pushed, owed>>
    BY <1>17 DEF SendFails, OutsideJobs, intake
  <2>2. \A k \in Job : job'[k] = "none" <=> job[k] = "none"
    BY <1>0, <1>17 DEF SendFails, Working
  <2> QED
    BY <1>0, <2>1, <2>2, IntakeStays
<1>18. ASSUME NEW j \in Job, MarkDelivered(j)
      PROVE  Intake'
  <2>1. UNCHANGED <<req, found, wanted, todo, stored, used, pushed, owed>>
    BY <1>18 DEF MarkDelivered, OutsideJobs, intake
  <2>2. \A k \in Job : job'[k] = "none" <=> job[k] = "none"
    BY <1>0, <1>18 DEF MarkDelivered, Working
  <2> QED
    BY <1>0, <2>1, <2>2, IntakeStays
<1>19. ASSUME NEW j \in Job, MarkFailed(j)
      PROVE  Intake'
  <2>1. UNCHANGED <<req, found, wanted, todo, stored, used, pushed, owed>>
    BY <1>19 DEF MarkFailed, Raise, OutsideJobs, intake
  <2>2. \A k \in Job : job'[k] = "none" <=> job[k] = "none"
    BY <1>0, <1>19 DEF MarkFailed, Raise, Working
  <2> QED
    BY <1>0, <2>1, <2>2, IntakeStays
<1>20. ASSUME NEW j \in Job, SendTimesOut(j)
      PROVE  Intake'
  <2>1. UNCHANGED <<req, found, wanted, todo, stored, used, pushed, owed>>
    BY <1>20 DEF SendTimesOut, TakeFault, OutsideJobs, intake
  <2>2. \A k \in Job : job'[k] = "none" <=> job[k] = "none"
    BY <1>0, <1>20 DEF SendTimesOut, TakeFault, Working
  <2> QED
    BY <1>0, <2>1, <2>2, IntakeStays
<1>21. ASSUME NEW j \in Job, MarkDeliveredFails(j)
      PROVE  Intake'
  <2>1. UNCHANGED <<req, found, wanted, todo, stored, used, pushed, owed>>
    BY <1>21 DEF MarkDeliveredFails, TakeFault, OutsideJobs, intake
  <2>2. \A k \in Job : job'[k] = "none" <=> job[k] = "none"
    BY <1>0, <1>21 DEF MarkDeliveredFails, TakeFault, Working
  <2> QED
    BY <1>0, <2>1, <2>2, IntakeStays
<1>22. ASSUME NEW j \in Job, StatementFails(j)
      PROVE  Intake'
  <2>1. UNCHANGED <<req, found, wanted, todo, stored, used, pushed, owed>>
    BY <1>22 DEF StatementFails, Raise, TakeFault, OutsideJobs, intake
  <2>2. \A k \in Job : job'[k] = "none" <=> job[k] = "none"
    BY <1>0, <1>22 DEF StatementFails, Raise, TakeFault, Working
  <2> QED
    BY <1>0, <2>1, <2>2, IntakeStays
<1>23. ASSUME NEW j \in Job, Shutdown(j)
      PROVE  Intake'
  <2>1. UNCHANGED <<req, found, wanted, todo, stored, used, pushed, owed>>
    BY <1>23 DEF Shutdown, TakeFault, OutsideJobs, intake
  <2>2. \A k \in Job : job'[k] = "none" <=> job[k] = "none"
    BY <1>0, <1>23 DEF Shutdown, TakeFault, Working
  <2> QED
    BY <1>0, <2>1, <2>2, IntakeStays
<1>24. ASSUME NEW j \in Job, Lose(j)
      PROVE  Intake'
  <2>1. UNCHANGED <<req, found, wanted, todo, stored, used, pushed, owed>>
    BY <1>24 DEF Lose, TakeFault, OutsideJobs, intake
  <2>2. \A k \in Job : job'[k] = "none" <=> job[k] = "none"
    BY <1>0, <1>24 DEF Lose, TakeFault, Working
  <2> QED
    BY <1>0, <2>1, <2>2, IntakeStays
<1>25. CASE UNCHANGED vars
  <2>1. UNCHANGED <<req, found, wanted, todo, stored, used, pushed, owed, job>>
    BY <1>25 DEF vars, intake, delivery
  <2> QED
    BY <1>0, <2>1, IntakeStays
<1> QED
  BY <1>1, <1>2, <1>3, <1>4, <1>5, <1>6, <1>7, <1>8, <1>9, <1>10, <1>11, <1>12,
     <1>13, <1>14, <1>15, <1>16, <1>17, <1>18, <1>19, <1>20, <1>21, <1>22, <1>23,
     <1>24, <1>25
     DEF Next, Create, Perform, JobFault

-------------------------------------------------------------------------------
(* The invariant and what follows from it *)

LEMMA InductiveInit == Init => IInv
<1> SUFFICES ASSUME Init
             PROVE  IInv
  OBVIOUS
<1>1. TypeOK
  BY TypeInit
<1>2. Intake
  BY DEF Init, Intake, OneInsert, Inserting, StoredOnce, StoredComplete
<1>3. ASSUME NEW j \in Job
      PROVE  JobOK(j)
  <2>1. job[j] = "none" /\ status[j] = "absent" /\ emails[j] = 0 /\ ambiguous[j] = 0
    BY DEF Init
  <2> QED
    BY <2>1 DEF JobOK, Found
<1> QED
  BY <1>1, <1>2, <1>3 DEF IInv

LEMMA InductiveStep == IInv /\ [Next]_vars => IInv'
<1> SUFFICES ASSUME IInv, [Next]_vars
             PROVE  IInv'
  OBVIOUS
<1>1. \A j \in Job : JobOK(j)'
  BY JobStep
<1> QED
  BY <1>1, TypeStep, IntakeStep DEF IInv, Job

LEMMA Inductive == Spec => []IInv
BY InductiveInit, InductiveStep, PTL DEF Spec

\* Requests, alert rows, jobs, delivery rows and e-mail counts always have their
\* types; in particular no job is retried more often than the limit.
THEOREM TypeCorrect == Spec => []TypeOK
<1>1. IInv => TypeOK
  BY DEF IInv
<1> QED
  BY <1>1, Inductive, PTL

\* However many deliveries of the event overlap and wherever a request fails, the
\* alert is stored at most once, and a stored alert has its push event and a job
\* for each member it owes an e-mail (alerts_controller.rb:24-37).
THEOREM StoredWithNotificationsAlways == Spec => []StoredWithNotifications
<1>1. IInv => StoredWithNotifications
  <2> SUFFICES ASSUME IInv
               PROVE  StoredWithNotifications
    OBVIOUS
  <2>1. Cardinality(stored) <= 1
    <3>1. CASE stored = {}
      BY <3>1, FS_EmptySet
    <3>2. CASE stored # {}
      <4>1. PICK r \in stored : TRUE
        BY <3>2
      <4>2. stored = {r}
        BY <4>1 DEF IInv, Intake, StoredOnce
      <4> QED
        <5>1. \A x : Cardinality({x}) = 1
          BY FS_Singleton, Zenon
        <5>2. Cardinality(stored) = 1
          BY <4>2, <5>1, Zenon
        <5> QED
          BY <5>2
    <3> QED
      BY <3>1, <3>2
  <2> QED
    BY <2>1 DEF IInv, Intake, StoredComplete, StoredWithNotifications
<1> QED
  BY <1>1, Inductive, PTL

\* No e-mail is about an alert that is not stored, or goes to a member the alert
\* did not owe one when it was created: jobs that outlive a rollback mail nobody
\* (alert_email_notification_job.rb:37).
THEOREM MailedAlertsStoredAlways == Spec => []MailedAlertsStored
<1>1. IInv => MailedAlertsStored
  <2> SUFFICES ASSUME IInv, NEW j \in Job, emails[j] > 0
               PROVE  j[1] \in stored /\ j[2] \in owed[j[1]]
    BY DEF MailedAlertsStored
  <2>1. JobOK(j) /\ emails[j] # 0
    BY DEF IInv, TypeOK
  <2> QED
    BY <2>1 DEF JobOK
<1> QED
  BY <1>1, Inductive, PTL

\* The row says "delivered" only of an accepted e-mail, and a second e-mail needs
\* one whose acceptance the job recorded as a failure, whatever shutdowns, kills,
\* failing statements and retries come in between.
THEOREM DuplicatesExplainedAlways == Spec => []DuplicatesExplained
<1>1. IInv => DuplicatesExplained
  BY DEF IInv, JobOK, DuplicatesExplained
<1> QED
  BY <1>1, Inductive, PTL

\* What a step may do to the outcome of job k.
Outcome(k) ==
    /\ status[k] = "delivered" /\ status'[k] # "delivered" =>
           job[k] = "failing" /\ status'[k] = "failed"
    /\ status[k] = "skipped" /\ status'[k] # "skipped" =>
           job[k] \in {"unconfirmed", "sent", "failing"}

LEMMA OutcomeStep ==
    ASSUME IInv, [Next]_vars, NEW k \in Job
    PROVE  Outcome(k)
<1>0. /\ JobOK(k)
      /\ status \in [Job -> {"absent", "sending", "delivered", "failed", "skipped"}]
  BY DEF IInv, TypeOK
<1>1. ASSUME NEW q \in Request, \E s \in BOOLEAN : Find(q, s)
      PROVE  Outcome(k)
  <2>1. status' = status
    BY <1>1 DEF Find, delivery
  <2> QED
    BY <1>0, <2>1 DEF Outcome
<1>2. ASSUME NEW q \in Request, \E r \in Row : Save(q, r)
      PROVE  Outcome(k)
  <2>1. status' = status
    BY <1>2 DEF Save, delivery
  <2> QED
    BY <1>0, <2>1 DEF Outcome
<1>3. ASSUME NEW q \in Request, SaveConflict(q)
      PROVE  Outcome(k)
  <2>1. status' = status
    BY <1>3 DEF SaveConflict, delivery
  <2> QED
    BY <1>0, <2>1 DEF Outcome
<1>4. ASSUME NEW q \in Request, EnqueueEmail(q)
      PROVE  Outcome(k)
  <2>1. status' = status
    BY <1>4 DEF EnqueueEmail, delivery
  <2> QED
    BY <1>0, <2>1 DEF Outcome
<1>5. ASSUME NEW q \in Request, CommitAlert(q)
      PROVE  Outcome(k)
  <2>1. status' = status
    BY <1>5 DEF CommitAlert, delivery
  <2> QED
    BY <1>0, <2>1 DEF Outcome
<1>6. ASSUME NEW q \in Request, Rollback(q)
      PROVE  Outcome(k)
  <2>1. status' = status
    BY <1>6 DEF Rollback, delivery
  <2> QED
    BY <1>0, <2>1 DEF Outcome
<1>7. ASSUME NEW q \in Request, Update(q)
      PROVE  Outcome(k)
  <2>1. status' = status
    BY <1>7 DEF Update, delivery
  <2> QED
    BY <1>0, <2>1 DEF Outcome
<1>8. ASSUME NEW m \in Member, SetPreference(m)
      PROVE  Outcome(k)
  <2>1. status' = status
    BY <1>8 DEF SetPreference, delivery
  <2> QED
    BY <1>0, <2>1 DEF Outcome
<1>9. CASE DeleteTenant
  BY <1>0, <1>9 DEF DeleteTenant, Outcome
<1>10. ASSUME NEW j \in Job, Fetch(j)
      PROVE  Outcome(k)
  <2>1. status' = status
    BY <1>10 DEF Fetch, delivery
  <2> QED
    BY <1>0, <2>1 DEF Outcome
<1>11. ASSUME NEW j \in Job, AlertMissing(j)
      PROVE  Outcome(k)
  <2>1. status' = status
    BY <1>11 DEF AlertMissing, delivery
  <2> QED
    BY <1>0, <2>1 DEF Outcome
<1>12. ASSUME NEW j \in Job, Load(j)
      PROVE  Outcome(k)
  <2>1. status' = status
    BY <1>12 DEF Load, delivery
  <2> QED
    BY <1>0, <2>1 DEF Outcome
<1>13. ASSUME NEW j \in Job, Skip(j)
      PROVE  Outcome(k)
  BY <1>0, <1>13 DEF Skip, Outcome, JobOK, Settled
<1>14. ASSUME NEW j \in Job, GiveUpUnconfirmed(j)
      PROVE  Outcome(k)
  BY <1>0, <1>14 DEF GiveUpUnconfirmed, Outcome, JobOK, Settled
<1>15. ASSUME NEW j \in Job, MarkSending(j)
      PROVE  Outcome(k)
  BY <1>0, <1>15 DEF MarkSending, Outcome, JobOK, Settled
<1>16. ASSUME NEW j \in Job, Send(j)
      PROVE  Outcome(k)
  <2>1. status' = status
    BY <1>16 DEF Send, delivery
  <2> QED
    BY <1>0, <2>1 DEF Outcome
<1>17. ASSUME NEW j \in Job, SendFails(j)
      PROVE  Outcome(k)
  <2>1. status' = status
    BY <1>17 DEF SendFails, delivery
  <2> QED
    BY <1>0, <2>1 DEF Outcome
<1>18. ASSUME NEW j \in Job, MarkDelivered(j)
      PROVE  Outcome(k)
  BY <1>0, <1>18 DEF MarkDelivered, Outcome, JobOK, Settled
<1>19. ASSUME NEW j \in Job, MarkFailed(j)
      PROVE  Outcome(k)
  BY <1>0, <1>19 DEF MarkFailed, Outcome, JobOK, Settled
<1>20. ASSUME NEW j \in Job, SendTimesOut(j)
      PROVE  Outcome(k)
  <2>1. status' = status
    BY <1>20 DEF SendTimesOut, delivery
  <2> QED
    BY <1>0, <2>1 DEF Outcome
<1>21. ASSUME NEW j \in Job, MarkDeliveredFails(j)
      PROVE  Outcome(k)
  <2>1. CASE status' = status
    BY <1>0, <2>1 DEF Outcome
  <2>2. CASE status' = [status EXCEPT ![j] = "delivered"]
    BY <1>0, <1>21, <2>2 DEF MarkDeliveredFails, Outcome, JobOK, Settled
  <2> QED
    BY <1>21, <2>1, <2>2 DEF MarkDeliveredFails
<1>22. ASSUME NEW j \in Job, StatementFails(j)
      PROVE  Outcome(k)
  <2>1. status' = status
    BY <1>22 DEF StatementFails, delivery
  <2> QED
    BY <1>0, <2>1 DEF Outcome
<1>23. ASSUME NEW j \in Job, Shutdown(j)
      PROVE  Outcome(k)
  <2>1. status' = status
    BY <1>23 DEF Shutdown, delivery
  <2> QED
    BY <1>0, <2>1 DEF Outcome
<1>24. ASSUME NEW j \in Job, Lose(j)
      PROVE  Outcome(k)
  <2>1. status' = status
    BY <1>24 DEF Lose, delivery
  <2> QED
    BY <1>0, <2>1 DEF Outcome
<1>25. CASE UNCHANGED vars
  <2>1. status' = status
    BY <1>25 DEF vars, delivery
  <2> QED
    BY <1>0, <2>1 DEF Outcome
<1> QED
  BY <1>1, <1>2, <1>3, <1>4, <1>5, <1>6, <1>7, <1>8, <1>9, <1>10, <1>11, <1>12,
     <1>13, <1>14, <1>15, <1>16, <1>17, <1>18, <1>19, <1>20, <1>21, <1>22, <1>23,
     <1>24, <1>25
     DEF Next, Create, Perform, JobFault

\* No step takes "delivered" back, a tenant deletion included, except the job that
\* never learned of it and records a failure; "skipped" is left only by an attempt
\* that had already looked at the row.
THEOREM OutcomesFinalAlways == Spec => OutcomesFinal
<1>1. IInv /\ [Next]_vars => [\A j \in Job : Outcome(j)]_vars
  BY OutcomeStep
<1>2. Spec => [][\A j \in Job : Outcome(j)]_vars
  BY <1>1, Inductive, PTL DEF Spec
<1> QED
  BY <1>2 DEF OutcomesFinal, Outcome
==============================================================================
