--------------------------- MODULE OverlapMonitor ---------------------------
(***************************************************************************)
(* What the overlap oracle of nondeterminism.h promises, with no counter:  *)
(* an observer that sees which threads are inside a bracketed MPI call and *)
(* remembers whether two of them were ever inside together.                *)
(***************************************************************************)
CONSTANT Threads

VARIABLES inside,      \* the threads between _BEGIN and _END
          overlapped   \* whether two of them ever met there

vars == <<inside, overlapped>>

TypeOK == inside \in SUBSET Threads /\ overlapped \in BOOLEAN

Init == inside = {} /\ overlapped = FALSE

Enter(t) ==
  /\ t \notin inside
  /\ inside' = inside \cup {t}
  /\ overlapped' = (overlapped \/ inside # {})

Leave(t) ==
  /\ t \in inside
  /\ inside' = inside \ {t}
  /\ UNCHANGED overlapped

Next == \E t \in Threads : Enter(t) \/ Leave(t)

Spec == Init /\ [][Next]_vars
=============================================================================
