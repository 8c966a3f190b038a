--------------------------- MODULE MCTraceBuffer ---------------------------
(***************************************************************************)
(* Small instances of TraceBuffer for TLC.  CPUs and contexts are          *)
(* interchangeable, hence the symmetry set.                                *)
(***************************************************************************)
EXTENDS TraceBuffer, TLC

Symmetry == Permutations(CPU) \cup Permutations(Ctx)

NoFlags == {{}}
WrapOrIpc == {{"WRAP"}, {"IPC"}}
WrapFlags == {{"WRAP"}}
=============================================================================
