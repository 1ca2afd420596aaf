------------------------ MODULE OverlapOracle_proofs ------------------------
(***************************************************************************)
(* Proofs about the CHECK_OVERLAP macros, for any finite team of threads   *)
(* and any number of bracketed calls.                                      *)
(***************************************************************************)
EXTENDS OverlapOracle, FiniteSetTheorems, TLAPS

(* The set of open brackets is finite, so it has a size.                    *)
LEMMA BracketedFinite ==
  IsFiniteSet(Bracketed) /\ Cardinality(Bracketed) \in Nat
<1>1. Bracketed \in SUBSET Threads
  BY DEF Bracketed
<1>2. IsFiniteSet(Bracketed)
  BY <1>1, ThreadsAssumption, FS_Subset
<1>3. QED
  BY <1>2, FS_CardinalityType

(* CHECK_OVERLAP_BEGIN opens one bracket.                                   *)
LEMMA CaptureOpens ==
  ASSUME TypeOK, NEW t \in Threads, CaptureFlag(t)
  PROVE  /\ Bracketed' = Bracketed \cup {t}
         /\ t \notin Bracketed
BY DEF TypeOK, CaptureFlag, Bracketed, Places

(* Counting the overlap opens and closes none.                              *)
LEMMA CountKeeps ==
  ASSUME TypeOK, NEW t \in Threads, CountOverlap(t)
  PROVE  Bracketed' = Bracketed
BY DEF TypeOK, CountOverlap, Bracketed, Places

(* CHECK_OVERLAP_END closes one bracket.                                    *)
LEMMA EndCloses ==
  ASSUME TypeOK, NEW t \in Threads, CheckOverlapEnd(t)
  PROVE  /\ Bracketed' = Bracketed \ {t}
         /\ t \in Bracketed
BY DEF TypeOK, CheckOverlapEnd, Bracketed, Places

(* Going to the barrier opens and closes none.                              *)
LEMMA LeaveKeeps ==
  ASSUME TypeOK, NEW t \in Threads, LeaveRegion(t)
  PROVE  Bracketed' = Bracketed
BY DEF TypeOK, LeaveRegion, Bracketed, Places

(* The strengthening that makes NoOverlapUncounted inductive: of two        *)
(* threads inside their brackets, one is about to count the overlap unless  *)
(* it has been counted already.                                             *)
PassedTest ==
  \A s, t \in Bracketed :
    (s # t /\ overlap_count = 0) =>
      \E u \in {s, t} : pc[u] = "captured" /\ before[u] # 0

IInv == TypeOK /\ FlagCountsBracketed /\ PassedTest

(* IInv holds initially and every step keeps it.                            *)
LEMMA Inductive ==
  /\ Init => IInv
  /\ IInv /\ [Next]_vars => IInv'
<1>1. Init => IInv
  <2> SUFFICES ASSUME Init PROVE IInv
    OBVIOUS
  <2>1. Bracketed = {}
    BY DEF Init, Bracketed
  <2>2. Cardinality(Bracketed) = 0
    BY <2>1, FS_EmptySet
  <2>3. TypeOK
    BY DEF Init, TypeOK, Places
  <2>4. QED
    BY <2>1, <2>2, <2>3 DEF IInv, FlagCountsBracketed, PassedTest, Init
<1>2. IInv /\ [Next]_vars => IInv'
  <2> SUFFICES ASSUME IInv, [Next]_vars PROVE IInv'
    OBVIOUS
  <2>0. TypeOK'
    <3> USE DEF IInv, TypeOK, Places
    <3>1. ASSUME NEW t \in Threads, CaptureFlag(t) PROVE TypeOK'
      BY <3>1 DEF CaptureFlag
    <3>2. ASSUME NEW t \in Threads, CountOverlap(t) PROVE TypeOK'
      BY <3>2 DEF CountOverlap
    <3>3. ASSUME NEW t \in Threads, CheckOverlapEnd(t) PROVE TypeOK'
      <4>1. t \in Bracketed
        BY <3>3, EndCloses
      <4>2. Cardinality(Bracketed) # 0
        BY <4>1, BracketedFinite, FS_EmptySet
      <4>3. flag - 1 \in Nat
        BY <4>2, BracketedFinite DEF FlagCountsBracketed
      <4>4. QED
        BY <3>3, <4>3 DEF CheckOverlapEnd
    <3>4. ASSUME NEW t \in Threads, LeaveRegion(t) PROVE TypeOK'
      BY <3>4 DEF LeaveRegion
    <3>5. CASE UNCHANGED vars
      BY <3>5 DEF vars
    <3>6. QED
      BY <3>1, <3>2, <3>3, <3>4, <3>5 DEF Next
  <2>1. ASSUME NEW t \in Threads, CaptureFlag(t)
        PROVE  FlagCountsBracketed' /\ PassedTest'
    <3>1. Bracketed' = Bracketed \cup {t} /\ t \notin Bracketed
      BY <2>1, CaptureOpens DEF IInv
    <3>2. Cardinality(Bracketed') = Cardinality(Bracketed) + 1
      BY <3>1, BracketedFinite, FS_AddElement
    <3>3. FlagCountsBracketed'
      BY <2>1, <3>2 DEF IInv, FlagCountsBracketed, CaptureFlag
    <3>4. ASSUME NEW s \in Bracketed PROVE flag # 0
      <4>1. Cardinality(Bracketed) # 0
        BY <3>4, BracketedFinite, FS_EmptySet
      <4>2. QED
        BY <4>1 DEF IInv, FlagCountsBracketed
    <3>5. ASSUME NEW s \in Bracketed PROVE pc'[t] = "captured" /\ before'[t] # 0
      BY <2>1, <3>4, <3>5 DEF CaptureFlag, IInv, TypeOK
    <3>6. \A u \in Bracketed : pc'[u] = pc[u] /\ before'[u] = before[u]
      BY <2>1, <3>1 DEF CaptureFlag, IInv, TypeOK, Bracketed
    <3>7. overlap_count' = overlap_count
      BY <2>1 DEF CaptureFlag
    <3>8. PassedTest'
      BY <3>1, <3>5, <3>6, <3>7 DEF PassedTest, IInv
    <3>9. QED
      BY <3>3, <3>8
  <2>2. ASSUME NEW t \in Threads, CountOverlap(t)
        PROVE  FlagCountsBracketed' /\ PassedTest'
    <3>1. Bracketed' = Bracketed
      BY <2>2, CountKeeps DEF IInv
    <3>2. FlagCountsBracketed'
      BY <2>2, <3>1 DEF IInv, FlagCountsBracketed, CountOverlap
    <3>3. overlap_count' = 0 => (overlap_count = 0 /\ before[t] = 0)
      BY <2>2 DEF CountOverlap, IInv, TypeOK
    <3>4. \A u \in Threads : before'[u] = before[u] /\ (u # t => pc'[u] = pc[u])
      BY <2>2 DEF CountOverlap, IInv, TypeOK
    <3>5. PassedTest'
      BY <3>1, <3>3, <3>4 DEF PassedTest, IInv, Bracketed
    <3>6. QED
      BY <3>2, <3>5
  <2>3. ASSUME NEW t \in Threads, CheckOverlapEnd(t)
        PROVE  FlagCountsBracketed' /\ PassedTest'
    <3>1. Bracketed' = Bracketed \ {t} /\ t \in Bracketed
      BY <2>3, EndCloses DEF IInv
    <3>2. Cardinality(Bracketed') = Cardinality(Bracketed) - 1
      BY <3>1, BracketedFinite, FS_RemoveElement
    <3>3. FlagCountsBracketed'
      BY <2>3, <3>2 DEF IInv, FlagCountsBracketed, CheckOverlapEnd
    <3>4. \A u \in Threads \ {t} : pc'[u] = pc[u] /\ before'[u] = before[u]
      BY <2>3 DEF CheckOverlapEnd, IInv, TypeOK
    <3>5. overlap_count' = overlap_count
      BY <2>3 DEF CheckOverlapEnd
    <3>6. PassedTest'
      BY <3>1, <3>4, <3>5 DEF PassedTest, IInv, Bracketed
    <3>7. QED
      BY <3>3, <3>6
  <2>4. ASSUME NEW t \in Threads, LeaveRegion(t)
        PROVE  FlagCountsBracketed' /\ PassedTest'
    <3>1. Bracketed' = Bracketed
      BY <2>4, LeaveKeeps DEF IInv
    <3>2. \A u \in Bracketed : pc'[u] = pc[u]
      BY <2>4 DEF LeaveRegion, IInv, TypeOK, Bracketed
    <3>3. QED
      BY <2>4, <3>1, <3>2 DEF LeaveRegion, IInv, FlagCountsBracketed, PassedTest
  <2>5. CASE UNCHANGED vars
    BY <2>0, <2>5 DEF vars, IInv, FlagCountsBracketed, PassedTest, Bracketed
  <2>6. QED
    BY <2>0, <2>1, <2>2, <2>3, <2>4, <2>5 DEF Next, IInv
<1>3. QED
  BY <1>1, <1>2

(* Every state is well typed; in particular flag never becomes negative,    *)
(* which needs it to be the number of open brackets.                        *)
THEOREM TypeCorrect == Spec => []TypeOK
<1>1. IInv => TypeOK
  BY DEF IInv
<1>2. QED
  BY Inductive, <1>1, PTL DEF Spec

(* flag always equals the number of threads inside a bracket.               *)
THEOREM FlagIsExact == Spec => []FlagCountsBracketed
<1>1. IInv => FlagCountsBracketed
  BY DEF IInv
<1>2. QED
  BY Inductive, <1>1, PTL DEF Spec

(* Two threads inside their MPI calls together have always been counted.    *)
THEOREM NoneMissed == Spec => []NoOverlapUncounted
<1>1. IInv => NoOverlapUncounted
  BY DEF IInv, TypeOK, PassedTest, NoOverlapUncounted, Bracketed
<1>2. QED
  BY Inductive, <1>1, PTL DEF Spec

(* The macros implement the observer: every step is an Enter, a Leave or a  *)
(* stutter of the monitor that knows only who is inside and whether two     *)
(* threads have met.                                                        *)
THEOREM ImplementsMonitor == Spec => ObservesOverlap
<1> DEFINE Seen == overlap_count > 0 \/ OverlapPending
<1>1. Init => Monitor!Init
  BY DEF Init, Monitor!Init, Bracketed, OverlapPending
<1>2. IInv /\ [Next]_vars => [Monitor!Next]_(Monitor!vars)
  <2> SUFFICES ASSUME IInv, [Next]_vars PROVE [Monitor!Next]_(Monitor!vars)
    OBVIOUS
  <2>0. TypeOK
    BY DEF IInv
  <2>1. ASSUME NEW t \in Threads, CaptureFlag(t) PROVE Monitor!Enter(t)
    <3>1. Bracketed' = Bracketed \cup {t} /\ t \notin Bracketed
      BY <2>0, <2>1, CaptureOpens
    <3>2. flag # 0 <=> Bracketed # {}
      <4>1. Cardinality(Bracketed) = 0 <=> Bracketed = {}
        BY BracketedFinite, FS_EmptySet
      <4>2. QED
        BY <4>1 DEF IInv, FlagCountsBracketed
    <3>3. pc'[t] = "captured" /\ before'[t] = flag /\ overlap_count' = overlap_count
      BY <2>0, <2>1 DEF CaptureFlag, TypeOK
    <3>4. \A u \in Threads \ {t} : pc'[u] = pc[u] /\ before'[u] = before[u]
      BY <2>0, <2>1 DEF CaptureFlag, TypeOK
    <3>5. pc[t] = "out"
      BY <2>1 DEF CaptureFlag
    <3>6. OverlapPending' <=> (OverlapPending \/ flag # 0)
      BY <3>3, <3>4, <3>5 DEF OverlapPending
    <3>7. Seen' <=> (Seen \/ Bracketed # {})
      BY <3>2, <3>3, <3>6
    <3>8. QED
      BY <3>1, <3>7 DEF Monitor!Enter
  <2>2. ASSUME NEW t \in Threads, CountOverlap(t) PROVE UNCHANGED Monitor!vars
    <3>1. Bracketed' = Bracketed
      BY <2>0, <2>2, CountKeeps
    <3>2. \A u \in Threads : before'[u] = before[u] /\ (u # t => pc'[u] = pc[u])
      BY <2>0, <2>2 DEF CountOverlap, TypeOK
    <3>3. pc[t] = "captured" /\ pc'[t] = "call"
      BY <2>0, <2>2 DEF CountOverlap, TypeOK
    <3>4. CASE before[t] # 0
      <4>1. OverlapPending
        BY <3>3, <3>4 DEF OverlapPending
      <4>2. overlap_count' > 0
        BY <2>0, <2>2, <3>4 DEF CountOverlap, TypeOK
      <4>3. Seen <=> Seen'
        BY <4>1, <4>2
      <4>4. QED
        BY <3>1, <4>3 DEF Monitor!vars
    <3>5. CASE before[t] = 0
      <4>1. overlap_count' = overlap_count
        BY <2>2, <3>5 DEF CountOverlap
      <4>2. OverlapPending' <=> OverlapPending
        BY <3>2, <3>3, <3>5 DEF OverlapPending
      <4>3. Seen <=> Seen'
        BY <4>1, <4>2
      <4>4. QED
        BY <3>1, <4>3 DEF Monitor!vars
    <3>6. QED
      BY <3>4, <3>5
  <2>3. ASSUME NEW t \in Threads, CheckOverlapEnd(t) PROVE Monitor!Leave(t)
    <3>1. Bracketed' = Bracketed \ {t} /\ t \in Bracketed
      BY <2>0, <2>3, EndCloses
    <3>2. \A u \in Threads : before'[u] = before[u] /\ (u # t => pc'[u] = pc[u])
      BY <2>0, <2>3 DEF CheckOverlapEnd, TypeOK
    <3>3. pc[t] = "call" /\ pc'[t] = "out" /\ overlap_count' = overlap_count
      BY <2>0, <2>3 DEF CheckOverlapEnd, TypeOK
    <3>4. OverlapPending' <=> OverlapPending
      BY <3>2, <3>3 DEF OverlapPending
    <3>5. Seen' <=> Seen
      BY <3>3, <3>4
    <3>6. QED
      BY <3>1, <3>5 DEF Monitor!Leave
  <2>4. ASSUME NEW t \in Threads, LeaveRegion(t) PROVE UNCHANGED Monitor!vars
    <3>1. Bracketed' = Bracketed
      BY <2>0, <2>4, LeaveKeeps
    <3>2. \A u \in Threads : before'[u] = before[u] /\ (u # t => pc'[u] = pc[u])
      BY <2>0, <2>4 DEF LeaveRegion, TypeOK
    <3>3. pc[t] = "out" /\ pc'[t] = "done" /\ overlap_count' = overlap_count
      BY <2>0, <2>4 DEF LeaveRegion, TypeOK
    <3>4. OverlapPending' <=> OverlapPending
      BY <3>2, <3>3 DEF OverlapPending
    <3>5. Seen' <=> Seen
      BY <3>3, <3>4
    <3>6. QED
      BY <3>1, <3>5 DEF Monitor!vars
  <2>5. CASE UNCHANGED vars
    BY <2>5 DEF vars, Monitor!vars, Bracketed, OverlapPending
  <2>6. QED
    BY <2>1, <2>2, <2>3, <2>4, <2>5 DEF Next, Monitor!Next
<1>3. QED
  BY <1>1, <1>2, Inductive, PTL DEF Spec, ObservesOverlap, Monitor!Spec
=============================================================================
