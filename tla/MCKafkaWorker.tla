---------------------------- MODULE MCKafkaWorker ----------------------------
(* Model-checking instance of KafkaWorker: two pods of one group. *)
EXTENDS KafkaWorker

CONSTANTS w1, w2, none

MCWorker == {w1, w2}
MCPoison == {2}
==============================================================================
