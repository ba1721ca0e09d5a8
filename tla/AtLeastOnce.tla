----------------------------- MODULE AtLeastOnce -----------------------------
(***************************************************************************)
(* The contract every SignalChord consumer owes one topic partition.       *)
(*                                                                         *)
(* A consumer handles records at any time, in any order and any number of  *)
(* times.  The group's committed offset passes records only after each of  *)
(* them has been handled, and moves back or past others only when an       *)
(* operator resets it, which is counted.  "Handled" means that the         *)
(* record's own processing returned, or that a copy of the record is       *)
(* stored in the dead-letter topic.                                        *)
(***************************************************************************)
EXTENDS Naturals

CONSTANT N          \* records 1..N of the partition

VARIABLES handled,  \* the records that have been handled at least once
          committed,\* the next record the group will be given
          resets    \* how many times an operator has moved the offset

vars == <<handled, committed, resets>>

Init ==
    /\ handled = {}
    /\ committed = 1
    /\ resets = 0

\* A record's processing completes, or its dead-letter copy is stored.
Handle(m) ==
    /\ handled' = handled \cup {m}
    /\ UNCHANGED <<committed, resets>>

\* The committed offset moves up to m, passing records that were all handled.
Commit(m) ==
    /\ committed < m
    /\ committed..(m - 1) \subseteq handled
    /\ committed' = m
    /\ UNCHANGED <<handled, resets>>

\* An operator moves the group to record m, back or forward.
Reset(m) ==
    /\ committed' = m
    /\ resets' = resets + 1
    /\ UNCHANGED handled

Next ==
    \/ \E m \in 1..N : Handle(m)
    \/ \E m \in 1..(N + 1) : Commit(m) \/ Reset(m)

Spec == Init /\ [][Next]_vars
==============================================================================
