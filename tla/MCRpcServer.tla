----------------------------- MODULE MCRpcServer -----------------------------
(* Jobs for TLC: two clients, on one port or on two.                       *)
EXTENDS RpcServer

CONSTANTS a, b, k, v, w

Request(m, x) == [method |-> m, key |-> k, value |-> x]
Pair(x, y) == [c \in {a, b} |-> IF c = a THEN x ELSE y]

(* Job of a client a that asks m of port 1, once or twice, and a client b  *)
(* that asks n of port p.                                                  *)
Job(m, twice, n, p, mortal, hurry) ==
    [command |-> Pair(Request(m, v), Request(n, w)), reps |-> Pair(IF twice THEN 2 ELSE 1, 1),
     port |-> Pair(1, p), mortal |-> mortal, hurry |-> hurry]

SomeJobs ==
    {Job("read", TRUE, "write", 2, {}, FALSE), Job("write", FALSE, "delete", 2, {}, FALSE),
     Job("delete", TRUE, "write", 2, {}, FALSE),
     Job("write", FALSE, "read", 1, {a}, FALSE), Job("read", TRUE, "quit", 2, {}, FALSE),
     Job("other", TRUE, "reset", 1, {}, FALSE), Job("ping", TRUE, "stats", 1, {a, b}, FALSE),
     Job("sink", FALSE, "read", 2, {a}, TRUE)}
=============================================================================
