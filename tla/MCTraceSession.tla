--------------------------- MODULE MCTraceSession ---------------------------
(* Menus for TraceSession.                                                 *)
EXTENDS TraceSession

Session(cs, n, e, m) == [commands |-> cs, most |-> n, events |-> e, mortal |-> m]

(* Many commands, pauses and second traces, wraparound, self-tracing.      *)
AllMenus ==
    {Session({"go", "gowrap", "init", "on", "off", "flush", "reset", "dump",
              "stop", "1", "0", "-force"}, 3, 2, TRUE),
     Session({"on", "off", "dump", "reset"}, 5, 2, TRUE),
     Session({"gowrap", "stop"}, 2, 9, FALSE),
     Session({"kutrace::go", "kutrace::stop", "goipc", "quit", "test", "stat"}, 3, 2, TRUE)}

(* One run of the program starts a trace, another stops and dumps it.      *)
OneThenZero == {Session({"1", "0"}, 2, 2, FALSE)}
=============================================================================
