------------------------ MODULE MCAlertNotification ------------------------
(* Model-checking instance of AlertNotification: two overlapping requests. *)
EXTENDS AlertNotification
===============================================================================
