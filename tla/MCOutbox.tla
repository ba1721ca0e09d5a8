------------------------------- MODULE MCOutbox -------------------------------
(* Model-checking instance of Outbox: two publishers overlap. *)
EXTENDS Outbox

MCEvent == 1..3
MCCallbackEvent == {3}
===============================================================================
