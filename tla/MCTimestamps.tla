---------------------------- MODULE MCTimestamps ----------------------------
(* Timestamps with a period of 16, in the proportions of the code: 14 of   *)
(* it forward, 2 of it backward.                                           *)
EXTENDS Timestamps
=============================================================================
