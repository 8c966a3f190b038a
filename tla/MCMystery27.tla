----------------------------- MODULE MCMystery27 -----------------------------
(* The instance of Mystery27 for TLC: two workers with two actions each, an *)
(* account of each parity, one page of the dashboard.                       *)
EXTENDS Mystery27

CONSTANTS w1, w2

Two == {w1, w2}
==============================================================================
