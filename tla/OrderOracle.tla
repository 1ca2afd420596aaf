---------------------------- MODULE OrderOracle ----------------------------
(***************************************************************************)
(* The ENTER_CALL and EXIT_CALL macros of nondeterminism.h: two threads of  *)
(* a rank run the calls A and B of a case, each between its two macros, and *)
(* each macro takes the next value of one shared counter.  After the region *)
(* the rank evaluates CHECK_FOR_EXPECTED_ORDER and, when the order was the  *)
(* expected one, has_error_manifested leaves the file error_not_present<r>. *)
(* A time limit may kill the whole job at any moment; Parser.py reads the   *)
(* files after the job has ended, one way or the other.                     *)
(***************************************************************************)
EXTENDS ParserRules

CONSTANT Ranks

\* Every rank of the job is one whose file Parser.py looks for.
ASSUME RanksAssumption == Ranks \subseteq ParserRanks

VARIABLES flag,                                \* the shared counter
          before_a, after_a, before_b, after_b, \* the captured values
          pcA, pcB,     \* where the thread that runs A (or B) is
          reported,     \* the ranks that have called has_error_manifested
          signalFiles,  \* the ranks whose signal file exists
          killed,       \* whether the time limit has stopped the job
          manifested    \* Parser.py's entry; -1 until it has run

counters == <<flag, before_a, after_a, before_b, after_b>>
vars == <<counters, pcA, pcB, reported, signalFiles, killed, manifested>>

Phases == {"before", "in", "after"}

TypeOK ==
  /\ flag \in [Ranks -> Nat]
  /\ before_a \in [Ranks -> Nat] /\ after_a \in [Ranks -> Nat]
  /\ before_b \in [Ranks -> Nat] /\ after_b \in [Ranks -> Nat]
  /\ pcA \in [Ranks -> Phases] /\ pcB \in [Ranks -> Phases]
  /\ reported \in SUBSET Ranks
  /\ signalFiles \in SUBSET Ranks
  /\ killed \in BOOLEAN
  /\ manifested \in {-1, 0, 1}

Zero == [r \in Ranks |-> 0]

\* DEF_ORDER_CAPTURING_VARIABLES
Init ==
  /\ flag = Zero
  /\ before_a = Zero /\ after_a = Zero /\ before_b = Zero /\ after_b = Zero
  /\ pcA = [r \in Ranks |-> "before"] /\ pcB = [r \in Ranks |-> "before"]
  /\ reported = {} /\ signalFiles = {}
  /\ killed = FALSE
  /\ manifested = -1

TakeFlag(r) == flag' = [flag EXCEPT ![r] = @ + 1]

EnterCallA(r) ==
  /\ ~killed /\ pcA[r] = "before"
  /\ before_a' = [before_a EXCEPT ![r] = flag[r]]
  /\ TakeFlag(r)
  /\ pcA' = [pcA EXCEPT ![r] = "in"]
  /\ UNCHANGED <<after_a, before_b, after_b, pcB, reported, signalFiles, killed, manifested>>

\* Mutant: the value is read but the counter not advanced.
ExitWithoutTaking(r) ==
  /\ ~killed /\ pcA[r] = "in"
  /\ after_a' = [after_a EXCEPT ![r] = flag[r]]
  /\ pcA' = [pcA EXCEPT ![r] = "after"]
  /\ UNCHANGED <<flag, before_a, before_b, after_b, pcB, reported, signalFiles, killed, manifested>>

ExitCallA(r) ==
  /\ ~killed /\ pcA[r] = "in"
  /\ after_a' = [after_a EXCEPT ![r] = flag[r]]
  /\ TakeFlag(r)
  /\ pcA' = [pcA EXCEPT ![r] = "after"]
  /\ UNCHANGED <<before_a, before_b, after_b, pcB, reported, signalFiles, killed, manifested>>

EnterCallB(r) ==
  /\ ~killed /\ pcB[r] = "before"
  /\ before_b' = [before_b EXCEPT ![r] = flag[r]]
  /\ TakeFlag(r)
  /\ pcB' = [pcB EXCEPT ![r] = "in"]
  /\ UNCHANGED <<before_a, after_a, after_b, pcA, reported, signalFiles, killed, manifested>>

ExitCallB(r) ==
  /\ ~killed /\ pcB[r] = "in"
  /\ after_b' = [after_b EXCEPT ![r] = flag[r]]
  /\ TakeFlag(r)
  /\ pcB' = [pcB EXCEPT ![r] = "after"]
  /\ UNCHANGED <<before_a, after_a, before_b, pcA, reported, signalFiles, killed, manifested>>

ExpectedOrder(r) ==
  before_a[r] = 0 /\ after_a[r] = 1 /\ before_b[r] = 2 /\ after_b[r] = 3

\* has_error_manifested(!CHECK_FOR_EXPECTED_ORDER), after the parallel region
HasErrorManifested(r) ==
  /\ ~killed
  /\ pcA[r] = "after" /\ pcB[r] = "after"
  /\ r \notin reported
  /\ reported' = reported \cup {r}
  /\ signalFiles' = IF ExpectedOrder(r) THEN signalFiles \cup {r} ELSE signalFiles
  /\ UNCHANGED <<counters, pcA, pcB, killed, manifested>>

\* The time limit stops every rank of the job wherever it is.
TimeLimit ==
  /\ ~killed /\ reported # Ranks
  /\ killed' = TRUE
  /\ UNCHANGED <<counters, pcA, pcB, reported, signalFiles, manifested>>

\* Mutant: a job without any signal file is taken for one still running.
ParseIfSignalled ==
  /\ killed \/ reported = Ranks
  /\ manifested = -1 /\ signalFiles # {}
  /\ manifested' = CheckIfErrorManifested(signalFiles)
  /\ UNCHANGED <<counters, pcA, pcB, reported, signalFiles, killed>>

\* Parser.py is run once the job is over.
Parse ==
  /\ killed \/ reported = Ranks
  /\ manifested = -1
  /\ manifested' = CheckIfErrorManifested(signalFiles)
  /\ UNCHANGED <<counters, pcA, pcB, reported, signalFiles, killed>>

Next ==
  \/ \E r \in Ranks :
       EnterCallA(r) \/ ExitCallA(r) \/ EnterCallB(r) \/ ExitCallB(r)
         \/ HasErrorManifested(r)
  \/ TimeLimit
  \/ Parse

\* A call may block for ever; what ends the job then is the time limit.
Fairness == WF_vars(TimeLimit) /\ WF_vars(Parse)

Spec == Init /\ [][Next]_vars

FairSpec == Spec /\ Fairness
-----------------------------------------------------------------------------
\* Read off the captured values: B was entered before A had returned.
TooEarly(r) == pcB[r] # "before" /\ before_b[r] # 2

BothDone(r) == pcA[r] = "after" /\ pcB[r] = "after"

(* The captured values decide the order: the oracle implements the observer *)
(* when "B began too early" is read off the value B captured on entry, and  *)
(* a rank leaves its file only if A had returned before B was called.       *)
Monitor == INSTANCE OrderMonitor
             WITH phaseA <- pcA, phaseB <- pcB, notPresent <- signalFiles,
                  tooEarly <- [r \in Ranks |-> TooEarly(r)]

ObservesOrder == Monitor!Spec

(* An execution recorded as free of the error was free of it on every rank: *)
(* a rank that is killed before it reports, or whose order was wrong, makes *)
(* Parser.py count the error as manifested.                                 *)
RecordedAbsentOnlyIfOrdered ==
  manifested = 0 => \A r \in Ranks : BothDone(r) /\ ~TooEarly(r)

(* Ranks that ran in order to the end and were not killed are believed: the *)
(* error is recorded as absent, so a run that was clean is never counted as *)
(* one in which a tool had an error to find.                                *)
OrderedRunBelieved ==
  (manifested # -1 /\ ~killed /\ \A r \in Ranks : ~TooEarly(r)) => manifested = 0

(* Whatever happens to the ranks, the table gets an entry for the job.      *)
EventuallyRecorded == <>(manifested # -1)
=============================================================================
