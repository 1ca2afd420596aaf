---------------------------- MODULE OrderMonitor ----------------------------
(***************************************************************************)
(* What the ordering oracle promises: an observer of two calls A and B on  *)
(* each rank, that knows only whether B began before A had ended, and that *)
(* records an execution as free of the error exactly when A preceded B on  *)
(* every rank.                                                             *)
(***************************************************************************)
CONSTANT Ranks

VARIABLES phaseA, phaseB,   \* "before", "in" or "after" the call, per rank
          tooEarly,         \* whether B began before the end of A, per rank
          notPresent        \* the ranks that reported the error as absent

vars == <<phaseA, phaseB, tooEarly, notPresent>>

Init ==
  /\ phaseA = [r \in Ranks |-> "before"]
  /\ phaseB = [r \in Ranks |-> "before"]
  /\ tooEarly = [r \in Ranks |-> FALSE]
  /\ notPresent = {}

BeginA(r) ==
  /\ phaseA[r] = "before"
  /\ phaseA' = [phaseA EXCEPT ![r] = "in"]
  /\ UNCHANGED <<phaseB, tooEarly, notPresent>>

EndA(r) ==
  /\ phaseA[r] = "in"
  /\ phaseA' = [phaseA EXCEPT ![r] = "after"]
  /\ UNCHANGED <<phaseB, tooEarly, notPresent>>

BeginB(r) ==
  /\ phaseB[r] = "before"
  /\ phaseB' = [phaseB EXCEPT ![r] = "in"]
  /\ tooEarly' = [tooEarly EXCEPT ![r] = phaseA[r] # "after"]
  /\ UNCHANGED <<phaseA, notPresent>>

EndB(r) ==
  /\ phaseB[r] = "in"
  /\ phaseB' = [phaseB EXCEPT ![r] = "after"]
  /\ UNCHANGED <<phaseA, tooEarly, notPresent>>

ReportAbsent(r) ==
  /\ phaseA[r] = "after" /\ phaseB[r] = "after"
  /\ ~tooEarly[r]
  /\ notPresent' = notPresent \cup {r}
  /\ UNCHANGED <<phaseA, phaseB, tooEarly>>

Next == \E r \in Ranks :
          BeginA(r) \/ EndA(r) \/ BeginB(r) \/ EndB(r) \/ ReportAbsent(r)

Spec == Init /\ [][Next]_vars
=============================================================================
