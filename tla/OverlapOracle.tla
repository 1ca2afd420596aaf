--------------------------- MODULE OverlapOracle ---------------------------
(***************************************************************************)
(* The CHECK_OVERLAP macros of nondeterminism.h, which most cases of the   *)
(* OpenMP suite use to find out at run time whether the error they were    *)
(* written to contain has occurred in this run.  A team of threads runs a  *)
(* parallel region; each thread executes up to Calls MPI calls, each one   *)
(* between CHECK_OVERLAP_BEGIN and CHECK_OVERLAP_END.  After the region    *)
(* the main thread reads overlap_count.                                    *)
(*                                                                         *)
(* CHECK_OVERLAP_BEGIN is two atomic steps, not one: the capture of flag   *)
(* and, when what it captured was not zero, the increment of               *)
(* overlap_count.  Other threads run between them.                         *)
(***************************************************************************)
EXTENDS Integers, FiniteSets

CONSTANTS Threads,   \* the threads of the parallel region
          Calls      \* bound: bracketed calls each thread makes at most

ASSUME ThreadsAssumption == IsFiniteSet(Threads)
ASSUME CallsAssumption == Calls \in Nat

VARIABLES flag,           \* the shared counter of the macros
          overlap_count,  \* the shared counter the oracle reads at the end
          before,         \* the macro's local variable, per thread
          pc,             \* where each thread is
          calls           \* bracketed calls each thread has begun

vars == <<flag, overlap_count, before, pc, calls>>

\* "out": between calls; "captured": flag captured, test of before to come;
\* "call": in the MPI call; "done": at the barrier that ends the region.
Places == {"out", "captured", "call", "done"}

TypeOK ==
  /\ flag \in Nat
  /\ overlap_count \in Nat
  /\ before \in [Threads -> Nat]
  /\ pc \in [Threads -> Places]
  /\ calls \in [Threads -> Nat]

Init ==
  /\ flag = 0
  /\ overlap_count = 0
  /\ before = [t \in Threads |-> 0]
  /\ pc = [t \in Threads |-> "out"]
  /\ calls = [t \in Threads |-> 0]

\* Mutant: before = ++flag.
PreIncrement(t) ==
  /\ pc[t] = "out"
  /\ calls[t] < Calls
  /\ before' = [before EXCEPT ![t] = flag + 1]
  /\ flag' = flag + 1
  /\ calls' = [calls EXCEPT ![t] = @ + 1]
  /\ pc' = [pc EXCEPT ![t] = "captured"]
  /\ UNCHANGED overlap_count

\* atomic capture: before = flag++
CaptureFlag(t) ==
  /\ pc[t] = "out"
  /\ calls[t] < Calls
  /\ before' = [before EXCEPT ![t] = flag]
  /\ flag' = flag + 1
  /\ calls' = [calls EXCEPT ![t] = @ + 1]
  /\ pc' = [pc EXCEPT ![t] = "captured"]
  /\ UNCHANGED overlap_count

\* Mutant: only a third thread counts.
CountThird(t) ==
  /\ pc[t] = "captured"
  /\ overlap_count' = IF before[t] > 1 THEN overlap_count + 1 ELSE overlap_count
  /\ pc' = [pc EXCEPT ![t] = "call"]
  /\ UNCHANGED <<flag, before, calls>>

\* if (before != 0) atomic overlap_count++
CountOverlap(t) ==
  /\ pc[t] = "captured"
  /\ overlap_count' = IF before[t] # 0 THEN overlap_count + 1 ELSE overlap_count
  /\ pc' = [pc EXCEPT ![t] = "call"]
  /\ UNCHANGED <<flag, before, calls>>

\* Mutant: flag is decremented only by a thread that counted nothing.
EndIfFirst(t) ==
  /\ pc[t] = "call"
  /\ flag' = IF before[t] = 0 THEN flag - 1 ELSE flag
  /\ pc' = [pc EXCEPT ![t] = "out"]
  /\ UNCHANGED <<overlap_count, before, calls>>

\* Mutant: flag is decremented twice.
EndTwice(t) ==
  /\ pc[t] = "call"
  /\ flag' = flag - 2
  /\ pc' = [pc EXCEPT ![t] = "out"]
  /\ UNCHANGED <<overlap_count, before, calls>>

\* atomic --flag
CheckOverlapEnd(t) ==
  /\ pc[t] = "call"
  /\ flag' = flag - 1
  /\ pc' = [pc EXCEPT ![t] = "out"]
  /\ UNCHANGED <<overlap_count, before, calls>>

\* The thread makes no more calls and waits at the end of the region.
LeaveRegion(t) ==
  /\ pc[t] = "out"
  /\ pc' = [pc EXCEPT ![t] = "done"]
  /\ UNCHANGED <<flag, overlap_count, before, calls>>

Next ==
  \E t \in Threads :
    CaptureFlag(t) \/ CountOverlap(t) \/ CheckOverlapEnd(t) \/ LeaveRegion(t)

Spec == Init /\ [][Next]_vars
-----------------------------------------------------------------------------
\* The threads between the capture of flag and its decrement.
Bracketed == {t \in Threads : pc[t] \in {"captured", "call"}}

\* A thread that has seen an overlap and not counted it yet.
OverlapPending == \E t \in Threads : pc[t] = "captured" /\ before[t] # 0

RegionOver == \A t \in Threads : pc[t] = "done"

(* flag is the number of threads inside a bracket, which is what makes      *)
(* "before != 0" mean "somebody else is inside"; so it is back at zero when *)
(* the region is over, and the macros may be used again.                    *)
FlagCountsBracketed == flag = Cardinality(Bracketed)

(* Two threads that are inside their MPI calls at the same moment have been *)
(* counted: an overlap cannot slip through between the two atomic steps of  *)
(* CHECK_OVERLAP_BEGIN.                                                      *)
NoOverlapUncounted ==
  \A s, t \in Threads :
    (s # t /\ pc[s] = "call" /\ pc[t] = "call") => overlap_count > 0

(* The oracle implements the observer: at every moment "counted or about to *)
(* be counted" is exactly "two threads have met inside brackets", so when   *)
(* the region is over overlap_count # 0 neither misses nor invents one.     *)
Monitor == INSTANCE OverlapMonitor
             WITH inside <- Bracketed,
                  overlapped <- (overlap_count > 0 \/ OverlapPending)

ObservesOverlap == Monitor!Spec

=============================================================================
