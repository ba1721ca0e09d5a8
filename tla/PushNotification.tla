--------------------------- MODULE PushNotification ---------------------------
(***************************************************************************)
(* Push notifications: services/notification-worker/worker.py, which reads *)
(* notification.requested.v1, and the ledger of deliveries it keeps        *)
(* through the control plane's notification_targets_controller.rb.         *)
(*                                                                         *)
(* A record is identified by its event_id, which is the same in every      *)
(* redelivery.  The events of one organization are followed.               *)
(***************************************************************************)
EXTENDS Integers, FiniteSets, Sequences

CONSTANTS
    Endpoint,     \* registered devices of the organization
    platform,     \* platform[e]: "expo", "ios", "android" or "webhook"
    Events,       \* the records of the topic, a sequence of event ids
    MaxAttempts,  \* bound: how often the worker takes up one event
    MaxCrashes    \* bound: deaths of the process outside its own errors

VARIABLES
    enabled,   \* endpoints that are enabled
    status,    \* status[<<endpoint, event>>] of the NotificationDelivery row
    tries,     \* its attempts
    pushes,    \* pushes[<<endpoint, event>>]: messages the provider accepted
    lost,      \* history: rows for which it did and its answer was lost
    pos,       \* the next record of the topic
    targets,   \* endpoints the worker still has to serve for this record
    doing,     \* what the worker is doing
    target,    \* the endpoint in question
    dead,      \* records in the dead-letter topic
    crashes

ledger == <<status, tries>>
sent == <<pushes, lost>>
vars == <<enabled, ledger, sent, pos, targets, doing, target, dead, crashes>>

Event == {Events[i] : i \in DOMAIN Events}
Row == Endpoint \X Event
event == Events[pos]

\* The errors of deliver; the first stands for all that are no ValueError.  An
\* answer that is no JSON raises one.
Error == {"RuntimeError", "unsupported", "DeviceNotRegistered", "undecodable"}

Init ==
    /\ enabled \in SUBSET Endpoint
    /\ status = [r \in Row |-> "none"] /\ tries = [r \in Row |-> 0]
    /\ pushes = [r \in Row |-> 0] /\ lost = {}
    /\ pos = 1 /\ targets = {} /\ doing = "polling" /\ target \in Endpoint
    /\ dead = {} /\ crashes = 0

----------------------------------------------------------------------------
(* The control plane *)

\* create: the enabled endpoints that have not got this event yet are claimed.
Claimed == {e \in enabled : status[<<e, event>>] # "delivered"}

create ==
    /\ status' = [r \in Row |-> IF r \in Claimed \X {event} THEN "sending" ELSE status[r]]
    /\ tries' = [r \in Row |-> IF r \in Claimed \X {event} THEN tries[r] + 1 ELSE tries[r]]

\* The body that update_delivery sends.
update_delivery(new) == [status |-> new]

\* update: params.require(:tenant_id) answers 400 where it is missing.
UpdateRefuses(body) == "tenant_id" \notin DOMAIN body

\* invalid_token_error?: the texts of Expo's errors do not start with its words.
invalid_token_error(error) == error = "invalid_token"

update(body, error) ==
    /\ status' = [status EXCEPT ![<<target, event>>] = body.status]
    /\ enabled' = IF body.status = "failed" /\ invalid_token_error(error)
                  THEN enabled \ {target} ELSE enabled
    /\ UNCHANGED tries

----------------------------------------------------------------------------
(* deliver *)

\* The record is polled and its targets are fetched.
Claim ==
    /\ doing = "polling" /\ pos <= Len(Events)
    /\ \A r \in Row : tries[r] < MaxAttempts
    /\ create
    /\ targets' = Claimed
    /\ doing' = "delivering"
    /\ UNCHANGED <<enabled, sent, pos, target, dead, crashes>>

\* A message for the next target: an unsupported platform; a message that Expo
\* accepts; one it does not accept, with an error of its own or no usable answer; or
\* one it accepts with no usable answer (timeout, error status, no JSON).
Push(e) ==
    /\ doing = "delivering" /\ e \in targets
    /\ targets' = targets \ {e} /\ target' = e
    /\ \/ /\ platform[e] = "webhook"
          /\ doing' = "unsupported"
          /\ UNCHANGED sent
       \/ /\ platform[e] # "webhook"
          /\ doing' = "accepted"
          /\ pushes' = [pushes EXCEPT ![<<e, event>>] = @ + 1]
          /\ UNCHANGED lost
       \/ /\ platform[e] # "webhook"
          /\ doing' \in {"RuntimeError", "DeviceNotRegistered", "undecodable"}
          /\ UNCHANGED sent
       \/ /\ platform[e] # "webhook"
          /\ doing' \in {"RuntimeError", "undecodable"}
          /\ pushes' = [pushes EXCEPT ![<<e, event>>] = @ + 1]
          /\ lost' = lost \cup {<<e, event>>}
    /\ UNCHANGED <<enabled, ledger, pos, dead, crashes>>

\* The message was accepted: "delivered".  A refusal raises HTTPStatusError.
ReportDelivered ==
    /\ doing = "accepted"
    /\ LET body == update_delivery("delivered")
       IN  IF UpdateRefuses(body)
           THEN doing' = "RuntimeError" /\ UNCHANGED <<enabled, ledger>>
           ELSE doing' = "delivering" /\ update(body, "none")
    /\ UNCHANGED <<sent, pos, targets, target, dead, crashes>>

\* An error: "failed", and the error goes on, to the dead-letter topic if it is a
\* ValueError and otherwise to the end of the process.  If the report itself is
\* refused, its HTTPStatusError takes the place of the error.
ReportFailed ==
    /\ doing \in Error
    /\ LET body == update_delivery("failed")
           permanent == ~UpdateRefuses(body) /\ doing # "RuntimeError"
       IN  /\ IF UpdateRefuses(body) THEN UNCHANGED <<enabled, ledger>>
              ELSE update(body, doing)
           /\ IF permanent THEN dead' = dead \cup {event} /\ pos' = pos + 1
              ELSE UNCHANGED <<dead, pos>>
    /\ targets' = {} /\ doing' = "polling"
    /\ UNCHANGED <<sent, target, crashes>>

\* All targets are served: handle_message commits.
Commit ==
    /\ doing = "delivering" /\ targets = {}
    /\ pos' = pos + 1 /\ doing' = "polling"
    /\ UNCHANGED <<enabled, ledger, sent, targets, target, dead, crashes>>

\* The process is killed at any moment, and started again.
Crash ==
    /\ crashes < MaxCrashes /\ doing # "polling"
    /\ crashes' = crashes + 1
    /\ targets' = {} /\ doing' = "polling"
    /\ UNCHANGED <<enabled, ledger, sent, pos, target, dead>>

Next == Claim \/ (\E e \in Endpoint : Push(e)) \/ ReportDelivered \/ ReportFailed
        \/ Commit \/ Crash

Spec == Init /\ [][Next]_vars

----------------------------------------------------------------------------
(* Properties *)

\* "A per-event/per-endpoint delivery ledger prevents ordinary replay duplicates"
\* (services/notification-worker/README.md:3): as long as the process is not
\* killed, no device whose pushes were all answered gets the message of one event
\* twice.
LedgerPreventsDuplicates ==
    crashes = 0 => \A r \in Row \ lost : pushes[r] <= 1
===============================================================================
