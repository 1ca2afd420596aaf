------------------------- MODULE OrderOracle_proofs -------------------------
(***************************************************************************)
(* Proofs about the ENTER_CALL and EXIT_CALL macros and the way Parser.py  *)
(* reads what the ranks report, for any set of ranks.                      *)
(***************************************************************************)
EXTENDS OrderOracle, TLAPS

\* How many of its two macros a call has executed.
Steps(phase) == IF phase = "before" THEN 0 ELSE IF phase = "in" THEN 1 ELSE 2

\* The counter has been taken once for every macro executed.
FlagCountsMacros == \A r \in Ranks : flag[r] = Steps(pcA[r]) + Steps(pcB[r])

\* While B has not begun, A alone has drawn values.
AloneInOrder ==
  \A r \in Ranks :
    pcB[r] = "before" => /\ pcA[r] # "before" => before_a[r] = 0
                         /\ pcA[r] = "after" => after_a[r] = 1

\* B drew 2 only after both of A's values.
TwoMeansAfter ==
  \A r \in Ranks :
    (pcB[r] # "before" /\ before_b[r] = 2) =>
      /\ pcA[r] = "after" /\ before_a[r] = 0 /\ after_a[r] = 1
      /\ pcB[r] = "after" => after_b[r] = 3

\* A rank reports once both calls are done, and leaves a file if they were in order.
FilesMatchReports ==
  \A r \in Ranks : /\ r \in reported => BothDone(r)
                   /\ r \in signalFiles <=> (r \in reported /\ ExpectedOrder(r))

\* Parser.py runs when nothing changes any more, so its entry stays true.
EntryMatchesFiles ==
  manifested # -1 => /\ killed \/ reported = Ranks
                     /\ manifested = CheckIfErrorManifested(signalFiles)

IInv == /\ TypeOK
        /\ FlagCountsMacros
        /\ AloneInOrder
        /\ TwoMeansAfter
        /\ FilesMatchReports
        /\ EntryMatchesFiles

(* Every state is well typed.                                               *)
LEMMA TypeStep == TypeOK /\ [Next]_vars => TypeOK'
<1> SUFFICES ASSUME TypeOK, [Next]_vars PROVE TypeOK'
  OBVIOUS
<1> USE DEF TypeOK, Phases, TakeFlag, counters
<1>1. ASSUME NEW r \in Ranks, EnterCallA(r) PROVE TypeOK'
  BY <1>1 DEF EnterCallA
<1>2. ASSUME NEW r \in Ranks, ExitCallA(r) PROVE TypeOK'
  BY <1>2 DEF ExitCallA
<1>3. ASSUME NEW r \in Ranks, EnterCallB(r) PROVE TypeOK'
  BY <1>3 DEF EnterCallB
<1>4. ASSUME NEW r \in Ranks, ExitCallB(r) PROVE TypeOK'
  BY <1>4 DEF ExitCallB
<1>5. ASSUME NEW r \in Ranks, HasErrorManifested(r) PROVE TypeOK'
  BY <1>5 DEF HasErrorManifested
<1>6. CASE TimeLimit
  BY <1>6 DEF TimeLimit
<1>7. CASE Parse
  BY <1>7 DEF Parse, CheckIfErrorManifested
<1>8. CASE UNCHANGED vars
  BY <1>8 DEF vars
<1>9. QED
  BY <1>1, <1>2, <1>3, <1>4, <1>5, <1>6, <1>7, <1>8 DEF Next

(* The captured values, the files and the entry agree initially and after   *)
(* every step.                                                              *)
LEMMA Inductive ==
  /\ Init => IInv
  /\ IInv /\ [Next]_vars => IInv'
<1>1. Init => IInv
  <2> SUFFICES ASSUME Init PROVE IInv
    OBVIOUS
  <2>1. TypeOK
    BY DEF Init, Zero, TypeOK, Phases
  <2>2. FlagCountsMacros
    BY DEF Init, Zero, FlagCountsMacros, Steps
  <2>3. AloneInOrder /\ TwoMeansAfter /\ FilesMatchReports /\ EntryMatchesFiles
    BY DEF Init, AloneInOrder, TwoMeansAfter, FilesMatchReports, EntryMatchesFiles
  <2>4. QED
    BY <2>1, <2>2, <2>3 DEF IInv
<1>2. IInv /\ [Next]_vars => IInv'
  <2> SUFFICES ASSUME IInv, [Next]_vars PROVE IInv'
    OBVIOUS
  <2>0. TypeOK /\ TypeOK'
    BY TypeStep DEF IInv
  <2> DEFINE Rest == /\ FlagCountsMacros
                     /\ AloneInOrder
                     /\ TwoMeansAfter
                     /\ FilesMatchReports
                     /\ EntryMatchesFiles
  <2>1. ASSUME NEW r \in Ranks, EnterCallA(r) PROVE Rest'
    <3> USE <2>0, <2>1 DEF EnterCallA, TakeFlag, TypeOK, Phases, IInv
    <3>1. r \notin reported
      BY DEF FilesMatchReports, BothDone
    <3>2. FlagCountsMacros'
      BY DEF FlagCountsMacros, Steps
    <3>3. AloneInOrder'
      BY DEF AloneInOrder, FlagCountsMacros, Steps
    <3>4. TwoMeansAfter'
      BY DEF TwoMeansAfter
    <3>5. FilesMatchReports'
      BY <3>1 DEF FilesMatchReports, BothDone, ExpectedOrder
    <3>6. EntryMatchesFiles'
      BY DEF EntryMatchesFiles
    <3>7. QED
      BY <3>2, <3>3, <3>4, <3>5, <3>6
  <2>2. ASSUME NEW r \in Ranks, ExitCallA(r) PROVE Rest'
    <3> USE <2>0, <2>2 DEF ExitCallA, TakeFlag, TypeOK, Phases, IInv
    <3>1. r \notin reported
      BY DEF FilesMatchReports, BothDone
    <3>2. FlagCountsMacros'
      BY DEF FlagCountsMacros, Steps
    <3>3. AloneInOrder'
      BY DEF AloneInOrder, FlagCountsMacros, Steps
    <3>4. TwoMeansAfter'
      BY DEF TwoMeansAfter
    <3>5. FilesMatchReports'
      BY <3>1 DEF FilesMatchReports, BothDone, ExpectedOrder
    <3>6. EntryMatchesFiles'
      BY DEF EntryMatchesFiles
    <3>7. QED
      BY <3>2, <3>3, <3>4, <3>5, <3>6
  <2>3. ASSUME NEW r \in Ranks, EnterCallB(r) PROVE Rest'
    <3> USE <2>0, <2>3 DEF EnterCallB, TakeFlag, TypeOK, Phases, IInv
    <3>1. r \notin reported
      BY DEF FilesMatchReports, BothDone
    <3>2. FlagCountsMacros'
      BY DEF FlagCountsMacros, Steps
    <3>3. AloneInOrder'
      BY DEF AloneInOrder
    <3>4. TwoMeansAfter'
      BY DEF TwoMeansAfter, AloneInOrder, FlagCountsMacros, Steps
    <3>5. FilesMatchReports'
      BY <3>1 DEF FilesMatchReports, BothDone, ExpectedOrder
    <3>6. EntryMatchesFiles'
      BY DEF EntryMatchesFiles
    <3>7. QED
      BY <3>2, <3>3, <3>4, <3>5, <3>6
  <2>4. ASSUME NEW r \in Ranks, ExitCallB(r) PROVE Rest'
    <3> USE <2>0, <2>4 DEF ExitCallB, TakeFlag, TypeOK, Phases, IInv
    <3>1. r \notin reported
      BY DEF FilesMatchReports, BothDone
    <3>2. FlagCountsMacros'
      BY DEF FlagCountsMacros, Steps
    <3>3. AloneInOrder'
      BY DEF AloneInOrder
    <3>4. TwoMeansAfter'
      BY DEF TwoMeansAfter, FlagCountsMacros, Steps
    <3>5. FilesMatchReports'
      BY <3>1 DEF FilesMatchReports, BothDone, ExpectedOrder
    <3>6. EntryMatchesFiles'
      BY DEF EntryMatchesFiles
    <3>7. QED
      BY <3>2, <3>3, <3>4, <3>5, <3>6
  <2>5. ASSUME NEW r \in Ranks, HasErrorManifested(r) PROVE Rest'
    <3> USE <2>0, <2>5 DEF HasErrorManifested, counters, IInv
    <3>1. FilesMatchReports'
      BY DEF FilesMatchReports, BothDone, ExpectedOrder, TypeOK
    <3>2. EntryMatchesFiles'
      BY DEF EntryMatchesFiles, TypeOK
    <3>3. QED
      BY <3>1, <3>2 DEF FlagCountsMacros, AloneInOrder, TwoMeansAfter
  <2>6. CASE TimeLimit
    <3>1. Rest'
      BY <2>6 DEF TimeLimit, counters, IInv, FlagCountsMacros, AloneInOrder, TwoMeansAfter,
                  FilesMatchReports, BothDone, ExpectedOrder, EntryMatchesFiles
    <3>2. QED
      BY <2>0, <3>1 DEF IInv
  <2>7. CASE Parse
    <3>1. Rest'
      BY <2>7 DEF Parse, counters, IInv, FlagCountsMacros, AloneInOrder, TwoMeansAfter,
                  FilesMatchReports, BothDone, ExpectedOrder, EntryMatchesFiles
    <3>2. QED
      BY <2>0, <3>1 DEF IInv
  <2>8. CASE UNCHANGED vars
    <3>1. Rest'
      BY <2>8 DEF vars, counters, IInv, FlagCountsMacros, AloneInOrder, TwoMeansAfter,
                  FilesMatchReports, BothDone, ExpectedOrder, EntryMatchesFiles
    <3>2. QED
      BY <2>0, <3>1 DEF IInv
  <2>9. QED
    BY <2>0, <2>1, <2>2, <2>3, <2>4, <2>5, <2>6, <2>7, <2>8 DEF Next, IInv
<1>3. QED
  BY <1>1, <1>2

(* Every state is well typed: no counter goes below zero, and the entry of *)
(* the table is one of those that Parser.py writes.                         *)
THEOREM TypeCorrect == Spec => []TypeOK
<1>1. IInv => TypeOK
  BY DEF IInv
<1>2. QED
  BY Inductive, <1>1, PTL DEF Spec

(* When Parser.py records the error as absent, every rank had finished both *)
(* calls, A before B.                                                       *)
THEOREM AbsentMeansOrdered == Spec => []RecordedAbsentOnlyIfOrdered
<1>1. IInv => RecordedAbsentOnlyIfOrdered
  <2> SUFFICES ASSUME IInv, manifested = 0, NEW r \in Ranks
               PROVE  BothDone(r) /\ ~TooEarly(r)
    BY DEF RecordedAbsentOnlyIfOrdered
  <2>1. ParserRanks \subseteq signalFiles
    BY DEF IInv, EntryMatchesFiles, CheckIfErrorManifested
  <2>2. r \in signalFiles
    BY <2>1, RanksAssumption
  <2>3. QED
    BY <2>2 DEF IInv, FilesMatchReports, ExpectedOrder, TooEarly
<1>2. QED
  BY Inductive, <1>1, PTL DEF Spec

(* If the job has at least the ranks Parser.py looks for, a job that ran to *)
(* its end in order is recorded as free of the error.                       *)
THEOREM OrderedMeansAbsent ==
  ASSUME ParserRanks \subseteq Ranks
  PROVE  Spec => []OrderedRunBelieved
<1>1. IInv => OrderedRunBelieved
  <2> SUFFICES ASSUME IInv, manifested # -1, ~killed, \A r \in Ranks : ~TooEarly(r)
               PROVE  manifested = 0
    BY DEF OrderedRunBelieved
  <2>1. reported = Ranks
    BY DEF IInv, EntryMatchesFiles
  <2>2. ASSUME NEW r \in Ranks PROVE r \in signalFiles
    BY <2>1 DEF IInv, FilesMatchReports, TwoMeansAfter, TooEarly, BothDone, ExpectedOrder
  <2>3. ParserRanks \subseteq signalFiles
    BY <2>2
  <2>4. QED
    BY <2>3 DEF IInv, EntryMatchesFiles, CheckIfErrorManifested
<1>2. QED
  BY Inductive, <1>1, PTL DEF Spec

(* The macros implement the observer of the order of the two calls.         *)
THEOREM ImplementsMonitor == Spec => ObservesOrder
<1>1. Init => Monitor!Init
  BY DEF Init, Monitor!Init, TooEarly
<1>2. IInv /\ [Next]_vars => [Monitor!Next]_(Monitor!vars)
  <2> SUFFICES ASSUME IInv, [Next]_vars PROVE [Monitor!Next]_(Monitor!vars)
    OBVIOUS
  <2>0. TypeOK
    BY DEF IInv
  <2> USE DEF TooEarly
  <2>1. ASSUME NEW r \in Ranks, EnterCallA(r) PROVE Monitor!BeginA(r)
    BY <2>1 DEF EnterCallA, Monitor!BeginA
  <2>2. ASSUME NEW r \in Ranks, ExitCallA(r) PROVE Monitor!EndA(r)
    BY <2>2 DEF ExitCallA, Monitor!EndA
  <2>3. ASSUME NEW r \in Ranks, EnterCallB(r) PROVE Monitor!BeginB(r)
    <3>1. flag[r] = 2 <=> pcA[r] = "after"
      BY <2>0, <2>3 DEF EnterCallB, IInv, FlagCountsMacros, Steps, TypeOK, Phases
    <3>2. [q \in Ranks |-> TooEarly(q)]'
            = [[q \in Ranks |-> TooEarly(q)] EXCEPT ![r] = pcA[r] # "after"]
      BY <2>0, <2>3, <3>1 DEF EnterCallB, TypeOK
    <3>3. QED
      BY <2>3, <3>2 DEF EnterCallB, Monitor!BeginB
  <2>4. ASSUME NEW r \in Ranks, ExitCallB(r) PROVE Monitor!EndB(r)
    <3>1. [q \in Ranks |-> TooEarly(q)]' = [q \in Ranks |-> TooEarly(q)]
      BY <2>0, <2>4 DEF ExitCallB, TypeOK
    <3>2. QED
      BY <2>4, <3>1 DEF ExitCallB, Monitor!EndB
  <2>5. ASSUME NEW r \in Ranks, HasErrorManifested(r)
        PROVE  Monitor!ReportAbsent(r) \/ UNCHANGED Monitor!vars
    <3>1. CASE ExpectedOrder(r)
      BY <2>5, <3>1 DEF HasErrorManifested, counters, ExpectedOrder, Monitor!ReportAbsent
    <3>2. CASE ~ExpectedOrder(r)
      BY <2>5, <3>2 DEF HasErrorManifested, counters, Monitor!vars
    <3>3. QED
      BY <3>1, <3>2
  <2>6. CASE TimeLimit
    BY <2>6 DEF TimeLimit, counters, Monitor!vars
  <2>7. CASE Parse
    BY <2>7 DEF Parse, counters, Monitor!vars
  <2>8. CASE UNCHANGED vars
    BY <2>8 DEF vars, counters, Monitor!vars
  <2>9. QED
    BY <2>1, <2>2, <2>3, <2>4, <2>5, <2>6, <2>7, <2>8 DEF Next, Monitor!Next
<1>3. QED
  BY <1>1, <1>2, Inductive, PTL DEF Spec, ObservesOrder, Monitor!Spec
=============================================================================
