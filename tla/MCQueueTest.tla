---------------------------- MODULE MCQueueTest ----------------------------
(* Instances of QueueTest for TLC. *)
EXTENDS QueueTest

(* One step, and two steps of which the second is on the same queue.       *)
MCPatterns == {<<1>>, <<2, 1>>}
=============================================================================
