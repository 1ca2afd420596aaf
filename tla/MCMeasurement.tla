--------------------------- MODULE MCMeasurement ---------------------------
(***************************************************************************)
(* A measurement for TLC: two repetitions of one erroneous and one correct *)
(* case.  ToolRunBound names the executions that are tried: one that tells  *)
(* nothing, and others that lead to every verdict.                          *)
(***************************************************************************)
EXTENDS Measurement

Log(phrases) == [readable |-> TRUE, says |-> phrases]

MustRuns ==
  {[files |-> {}, log |-> NoLog],
   [files |-> {0}, log |-> Log({"Warning", "data race"})],
   [files |-> {0, 1}, log |-> Log({"no MPI usage errors", "data race"})]}

ItacRuns ==
  {[files |-> {}, log |-> Log({"ERROR:", "Signal 11"})],
   [files |-> {0, 1}, log |-> Log({"INFO:"})],
   [files |-> {0, 1}, log |-> Log({"ERROR:", "error class"})]}

ToolRunBound(t) == IF t = "MUST" THEN MustRuns ELSE ItacRuns
\* With MUST the case denies its error when it runs alone, with ITAC one rank does.
BareRunBound(t) == IF t = "MUST" THEN {{0, 1}} ELSE {{0}}
=============================================================================
