------------------------- MODULE Measurement_proofs -------------------------
(***************************************************************************)
(* Proofs about a measurement, for any number of jobs and cases, any       *)
(* number of killed and requeued tasks, and anything a run may leave.      *)
(***************************************************************************)
EXTENDS Measurement, ResultTable_proofs, SequenceTheorems, TLAPS

ResultTypes ==
  /\ DOMAIN results = Jobs
  /\ \A j \in Jobs : /\ results[j] = [written |-> results[j].written, rows |-> results[j].rows]
                     /\ results[j].written \in BOOLEAN

(* The types that the steps need: the script, the tasks and their           *)
(* directories.                                                             *)
Types ==
  /\ tool \in Tools
  /\ script \in [job : Jobs \cup {0}, kind : {"array", "parser", "finished", "aborted"}]
  /\ task \in [Tasks -> Places] /\ requeued \subseteq Tasks
  /\ dir \in [Tasks -> Dirs]
  /\ signalled \in [Tasks -> [bare : SUBSET Nat, files : SUBSET Nat]]
  /\ parser \in [Jobs -> {"none", "pending", "done"}]
  /\ ResultTypes

\* Tasks of jobs that the script has not come to do not exist yet.
NotYet ==
  \A t \in Tasks :
    /\ script.kind = "array" /\ t[1] >= script.job => task[t] = "not submitted"
    /\ script.kind = "parser" /\ t[1] > script.job => task[t] = "not submitted"
    /\ task[t] = "not submitted" => dir[t] = NoDir

\* What the script of a task has made by the time it has got somewhere.
TaskOrder ==
  \A t \in Tasks :
    /\ task[t] \in Running \cup {"done"} => dir[t].made
    /\ task[t] \in {"named", "bare", "ran", "done"} => dir[t].named

\* A task that was started once has in its directory what its runs have signalled.
Own(t) ==
  /\ dir[t].bare = signalled[t].bare /\ dir[t].files = signalled[t].files
  /\ task[t] \in {"not submitted", "waiting", "made", "named"} => dir[t].bare = {}
  /\ task[t] \in {"not submitted", "waiting", "made", "named", "bare"} => dir[t].files = {}
OwnSignals == \A t \in Tasks \ requeued : Own(t)

ParsedSucceeded ==
  \A j \in Jobs : parser[j] = "done" => Succeeded(j) /\ results[j].written

OnlyWritten == \A j \in Jobs : ~results[j].written => results[j].rows = <<>>

IInv == /\ Types /\ NotYet /\ TaskOrder /\ OwnSignals
        /\ ResultsAreFinal /\ ParsedSucceeded /\ OnlyWritten

(* A step of a task that leaves the rest alone keeps the results final, since *)
(* the task was not over: no row of its job is written.                      *)
LEMMA TaskLeavesResults ==
  ASSUME IInv, NEW t \in Tasks, task[t] \notin {"done", "failed"},
         NEW to \in Places, task' = [task EXCEPT ![t] = to],
         \A u \in Tasks \ {t} : dir'[u] = dir[u],
         UNCHANGED <<tool, parser, results>>
  PROVE  ResultsAreFinal' /\ ParsedSucceeded' /\ OnlyWritten'
<1>1. t = <<t[1], t[2]>> /\ t[1] \in Jobs /\ t[2] \in Cases
  BY DEF Tasks
<1>2. ~results[t[1]].written
  BY <1>1 DEF IInv, ResultsAreFinal, Over
<1>3. ASSUME NEW j \in Jobs, results[j].written
      PROVE  Over(j)' /\ results'[j].rows = Table(j)' /\ (Succeeded(j) => Succeeded(j)')
  <2>1. j # t[1]
    BY <1>2, <1>3
  <2>2. \A c \in Cases : <<j, c>> \in Tasks \ {t}
    BY <1>1, <2>1 DEF Tasks
  <2>3. \A c \in Cases : task'[<<j, c>>] = task[<<j, c>>] /\ dir'[<<j, c>>] = dir[<<j, c>>]
    BY <2>2 DEF IInv, Types
  <2>4. Over(j) /\ results[j].rows = Table(j)
    BY <1>3 DEF IInv, ResultsAreFinal
  <2>5. Table(j)' = Table(j)
    BY <2>3 DEF Table, Made
  <2>6. QED
    BY <2>3, <2>4, <2>5 DEF Over, Succeeded
<1>4. QED
  BY <1>3 DEF IInv, ResultsAreFinal, ParsedSucceeded, OnlyWritten

(* So do the signals of all other tasks stay their own.                      *)
LEMMA OthersKeepSignals ==
  ASSUME IInv, NEW t \in Tasks, NEW to, task' = [task EXCEPT ![t] = to],
         \A u \in Tasks \ {t} : dir'[u] = dir[u] /\ signalled'[u] = signalled[u],
         requeued \subseteq requeued', t \notin requeued' => Own(t)'
  PROVE  OwnSignals'
<1>1. ASSUME NEW u \in Tasks \ {t}, u \notin requeued'
      PROVE  Own(u)'
  <2>1. Own(u) /\ task'[u] = task[u]
    BY <1>1 DEF IInv, Types, OwnSignals
  <2>2. QED
    BY <2>1 DEF Own
<1>2. QED
  BY <1>1 DEF OwnSignals

(* A log that replaces a log is a log.                                       *)
LEMMA LogAfterType ==
  ASSUME NEW old \in Logs, NEW new \in Logs
  PROVE  LogAfter(tool, old, new) \in Logs
BY DEF LogAfter, Logs, MustPhrases

(* The script of a task, and the batch system that stops it.                 *)
LEMMA TaskKeeps ==
  ASSUME IInv, NEW t \in Tasks, TaskStep(t)
  PROVE  IInv'
<1> USE DEF Goes
<1>0. /\ Types /\ dir[t] \in Dirs /\ task[t] \in Places
      /\ signalled[t] \in [bare : SUBSET Nat, files : SUBSET Nat]
  BY DEF IInv, Types
<1>1. CASE MakeDirectory(t)
  <2>1. Types'
    BY <1>0, <1>1 DEF MakeDirectory, Types, ResultTypes, Places, Dirs, Nobody
  <2>2. NotYet'
    BY <1>0, <1>1 DEF MakeDirectory, IInv, Types, NotYet, Places
  <2>3. TaskOrder'
    BY <1>0, <1>1 DEF MakeDirectory, IInv, Types, TaskOrder, Running, Places, Dirs
  <2>4. OwnSignals'
    <3>1. task' = [task EXCEPT ![t] = "made"] /\ requeued \subseteq requeued'
      BY <1>1 DEF MakeDirectory
    <3>2. \A u \in Tasks \ {t} : dir'[u] = dir[u] /\ signalled'[u] = signalled[u]
      BY <1>0, <1>1 DEF MakeDirectory, Types
    <3>3. t \notin requeued' => Own(t)'
      <4>1. t \notin requeued' => Own(t)
        BY <1>1 DEF MakeDirectory, IInv, OwnSignals
      <4>2. QED
        BY <1>0, <1>1, <4>1 DEF MakeDirectory, Types, Own, Dirs, Nobody
    <3>4. QED
      BY <3>1, <3>2, <3>3, OthersKeepSignals
  <2>5. ResultsAreFinal' /\ ParsedSucceeded' /\ OnlyWritten'
    <3>1. task[t] \notin {"done", "failed"} /\ task' = [task EXCEPT ![t] = "made"]
      BY <1>1 DEF MakeDirectory
    <3>2. \A u \in Tasks \ {t} : dir'[u] = dir[u]
      BY <1>0, <1>1 DEF MakeDirectory, Types
    <3>3. UNCHANGED <<tool, parser, results>>
      BY <1>1 DEF MakeDirectory
    <3>4. QED
      BY <3>1, <3>2, <3>3, TaskLeavesResults DEF Places
  <2>6. QED
    BY <2>1, <2>2, <2>3, <2>4, <2>5 DEF IInv
<1>2. CASE WriteNames(t)
  <2>1. Types'
    BY <1>0, <1>2 DEF WriteNames, Types, ResultTypes, Places, Dirs
  <2>2. NotYet'
    BY <1>0, <1>2 DEF WriteNames, IInv, Types, NotYet, Places
  <2>3. TaskOrder'
    BY <1>0, <1>2 DEF WriteNames, IInv, Types, TaskOrder, Running, Places, Dirs
  <2>4. OwnSignals'
    <3>1. task' = [task EXCEPT ![t] = "named"] /\ requeued \subseteq requeued'
      BY <1>2 DEF WriteNames
    <3>2. \A u \in Tasks \ {t} : dir'[u] = dir[u] /\ signalled'[u] = signalled[u]
      BY <1>0, <1>2 DEF WriteNames, Types
    <3>3. t \notin requeued' => Own(t)'
      <4>1. t \notin requeued' => Own(t)
        BY <1>2 DEF WriteNames, IInv, OwnSignals
      <4>2. QED
        BY <1>0, <1>2, <4>1 DEF WriteNames, Types, Own, Dirs
    <3>4. QED
      BY <3>1, <3>2, <3>3, OthersKeepSignals
  <2>5. ResultsAreFinal' /\ ParsedSucceeded' /\ OnlyWritten'
    <3>1. task[t] \notin {"done", "failed"} /\ task' = [task EXCEPT ![t] = "named"]
      BY <1>2 DEF WriteNames
    <3>2. \A u \in Tasks \ {t} : dir'[u] = dir[u]
      BY <1>0, <1>2 DEF WriteNames, Types
    <3>3. UNCHANGED <<tool, parser, results>>
      BY <1>2 DEF WriteNames
    <3>4. QED
      BY <3>1, <3>2, <3>3, TaskLeavesResults DEF Places
  <2>6. QED
    BY <2>1, <2>2, <2>3, <2>4, <2>5 DEF IInv
<1>3. CASE RunWithoutTool(t)
  <2>0. PICK ranks \in BareRuns(tool) :
          /\ dir' = [dir EXCEPT ![t].bare = @ \cup ranks]
          /\ signalled' = [signalled EXCEPT ![t].bare = ranks]
    BY <1>3 DEF RunWithoutTool
  <2>1. ranks \in SUBSET Nat
    BY <1>0, MeasurementAssumption DEF Types
  <2>2. Types'
    BY <1>0, <1>3, <2>0, <2>1 DEF RunWithoutTool, Types, ResultTypes, Places, Dirs
  <2>3. NotYet'
    BY <1>0, <1>3, <2>0, <2>1 DEF RunWithoutTool, IInv, Types, NotYet, Places
  <2>4. TaskOrder'
    BY <1>0, <1>3, <2>0, <2>1 DEF RunWithoutTool, IInv, Types, TaskOrder, Running, Places, Dirs
  <2>5. OwnSignals'
    <3>1. task' = [task EXCEPT ![t] = "bare"] /\ requeued \subseteq requeued'
      BY <1>3 DEF RunWithoutTool
    <3>2. \A u \in Tasks \ {t} : dir'[u] = dir[u] /\ signalled'[u] = signalled[u]
      BY <1>0, <1>3, <2>0, <2>1 DEF RunWithoutTool, Types
    <3>3. t \notin requeued' => Own(t)'
      <4>1. t \notin requeued' => Own(t)
        BY <1>3 DEF RunWithoutTool, IInv, OwnSignals
      <4>2. QED
        BY <1>0, <1>3, <2>0, <2>1, <4>1 DEF RunWithoutTool, Types, Own, Dirs
    <3>4. QED
      BY <3>1, <3>2, <3>3, OthersKeepSignals
  <2>6. ResultsAreFinal' /\ ParsedSucceeded' /\ OnlyWritten'
    <3>1. task[t] \notin {"done", "failed"} /\ task' = [task EXCEPT ![t] = "bare"]
      BY <1>3 DEF RunWithoutTool
    <3>2. \A u \in Tasks \ {t} : dir'[u] = dir[u]
      BY <1>0, <1>3, <2>0 DEF RunWithoutTool, Types
    <3>3. UNCHANGED <<tool, parser, results>>
      BY <1>3 DEF RunWithoutTool
    <3>4. QED
      BY <3>1, <3>2, <3>3, TaskLeavesResults DEF Places
  <2>7. QED
    BY <2>2, <2>3, <2>4, <2>5, <2>6 DEF IInv
<1>4. CASE RunWithTool(t)
  <2>0. PICK run \in ToolRuns(tool) :
          /\ dir' = [dir EXCEPT ![t].files = @ \cup run.files, ![t].log = LogAfter(tool, @, run.log)]
          /\ signalled' = [signalled EXCEPT ![t].files = run.files]
    BY <1>4 DEF RunWithTool
  <2>1. run \in [files : SUBSET Nat, log : Logs] /\ LogAfter(tool, dir[t].log, run.log) \in Logs
    BY <1>0, LogAfterType, MeasurementAssumption DEF Types, Dirs
  <2>2. Types'
    BY <1>0, <1>4, <2>0, <2>1 DEF RunWithTool, Types, ResultTypes, Places, Dirs
  <2>3. NotYet'
    BY <1>0, <1>4, <2>0, <2>1 DEF RunWithTool, IInv, Types, NotYet, Places
  <2>4. TaskOrder'
    BY <1>0, <1>4, <2>0, <2>1 DEF RunWithTool, IInv, Types, TaskOrder, Running, Places, Dirs
  <2>5. OwnSignals'
    <3>1. task' = [task EXCEPT ![t] = "ran"] /\ requeued \subseteq requeued'
      BY <1>4 DEF RunWithTool
    <3>2. \A u \in Tasks \ {t} : dir'[u] = dir[u] /\ signalled'[u] = signalled[u]
      BY <1>0, <1>4, <2>0, <2>1 DEF RunWithTool, Types
    <3>3. t \notin requeued' => Own(t)'
      <4>1. t \notin requeued' => Own(t)
        BY <1>4 DEF RunWithTool, IInv, OwnSignals
      <4>2. QED
        BY <1>0, <1>4, <2>0, <2>1, <4>1 DEF RunWithTool, Types, Own, Dirs
    <3>4. QED
      BY <3>1, <3>2, <3>3, OthersKeepSignals
  <2>6. ResultsAreFinal' /\ ParsedSucceeded' /\ OnlyWritten'
    <3>1. task[t] \notin {"done", "failed"} /\ task' = [task EXCEPT ![t] = "ran"]
      BY <1>4 DEF RunWithTool
    <3>2. \A u \in Tasks \ {t} : dir'[u] = dir[u]
      BY <1>0, <1>4, <2>0 DEF RunWithTool, Types
    <3>3. UNCHANGED <<tool, parser, results>>
      BY <1>4 DEF RunWithTool
    <3>4. QED
      BY <3>1, <3>2, <3>3, TaskLeavesResults DEF Places
  <2>7. QED
    BY <2>2, <2>3, <2>4, <2>5, <2>6 DEF IInv
<1>5. CASE CleanUp(t)
  <2>1. Types'
    BY <1>0, <1>5 DEF CleanUp, Types, ResultTypes, Places, Dirs
  <2>2. NotYet'
    BY <1>0, <1>5 DEF CleanUp, IInv, Types, NotYet, Places
  <2>3. TaskOrder'
    BY <1>0, <1>5 DEF CleanUp, IInv, Types, TaskOrder, Running, Places, Dirs
  <2>4. OwnSignals'
    <3>1. task' = [task EXCEPT ![t] = "done"] /\ requeued \subseteq requeued'
      BY <1>5 DEF CleanUp
    <3>2. \A u \in Tasks \ {t} : dir'[u] = dir[u] /\ signalled'[u] = signalled[u]
      BY <1>0, <1>5 DEF CleanUp, Types
    <3>3. t \notin requeued' => Own(t)'
      <4>1. t \notin requeued' => Own(t)
        BY <1>5 DEF CleanUp, IInv, OwnSignals
      <4>2. QED
        BY <1>0, <1>5, <4>1 DEF CleanUp, Types, Own, Dirs
    <3>4. QED
      BY <3>1, <3>2, <3>3, OthersKeepSignals
  <2>5. ResultsAreFinal' /\ ParsedSucceeded' /\ OnlyWritten'
    <3>1. task[t] \notin {"done", "failed"} /\ task' = [task EXCEPT ![t] = "done"]
      BY <1>5 DEF CleanUp
    <3>2. \A u \in Tasks \ {t} : dir'[u] = dir[u]
      BY <1>0, <1>5 DEF CleanUp, Types
    <3>3. UNCHANGED <<tool, parser, results>>
      BY <1>5 DEF CleanUp
    <3>4. QED
      BY <3>1, <3>2, <3>3, TaskLeavesResults DEF Places
  <2>6. QED
    BY <2>1, <2>2, <2>3, <2>4, <2>5 DEF IInv
<1>6. CASE Kill(t)
  <2>1. Types'
    BY <1>0, <1>6 DEF Kill, Types, ResultTypes, Places, Dirs, Running
  <2>2. NotYet'
    BY <1>0, <1>6 DEF Kill, IInv, Types, NotYet, Places, Running
  <2>3. TaskOrder'
    BY <1>0, <1>6 DEF Kill, IInv, Types, TaskOrder, Running, Places, Dirs
  <2>4. OwnSignals'
    <3>1. task' = [task EXCEPT ![t] = "failed"] /\ requeued \subseteq requeued'
      BY <1>6 DEF Kill, Running
    <3>2. \A u \in Tasks \ {t} : dir'[u] = dir[u] /\ signalled'[u] = signalled[u]
      BY <1>0, <1>6 DEF Kill, Types
    <3>3. t \notin requeued' => Own(t)'
      <4>1. t \notin requeued' => Own(t)
        BY <1>6 DEF Kill, IInv, OwnSignals
      <4>2. QED
        BY <1>0, <1>6, <4>1 DEF Kill, Types, Own, Dirs, Running
    <3>4. QED
      BY <3>1, <3>2, <3>3, OthersKeepSignals
  <2>5. ResultsAreFinal' /\ ParsedSucceeded' /\ OnlyWritten'
    <3>1. task[t] \notin {"done", "failed"} /\ task' = [task EXCEPT ![t] = "failed"]
      BY <1>6 DEF Kill, Running
    <3>2. \A u \in Tasks \ {t} : dir'[u] = dir[u]
      BY <1>0, <1>6 DEF Kill, Types
    <3>3. UNCHANGED <<tool, parser, results>>
      BY <1>6 DEF Kill
    <3>4. QED
      BY <3>1, <3>2, <3>3, TaskLeavesResults DEF Places
  <2>6. QED
    BY <2>1, <2>2, <2>3, <2>4, <2>5 DEF IInv
<1>7. CASE Requeue(t)
  <2>1. Types'
    BY <1>0, <1>7 DEF Requeue, Types, ResultTypes, Places, Dirs, Running
  <2>2. NotYet'
    BY <1>0, <1>7 DEF Requeue, IInv, Types, NotYet, Places, Running
  <2>3. TaskOrder'
    BY <1>0, <1>7 DEF Requeue, IInv, Types, TaskOrder, Running, Places, Dirs
  <2>4. OwnSignals'
    <3>1. task' = [task EXCEPT ![t] = "waiting"] /\ requeued \subseteq requeued'
      BY <1>7 DEF Requeue, Running
    <3>2. \A u \in Tasks \ {t} : dir'[u] = dir[u] /\ signalled'[u] = signalled[u]
      BY <1>0, <1>7 DEF Requeue, Types
    <3>3. t \notin requeued' => Own(t)'
      BY <1>7 DEF Requeue
    <3>4. QED
      BY <3>1, <3>2, <3>3, OthersKeepSignals
  <2>5. ResultsAreFinal' /\ ParsedSucceeded' /\ OnlyWritten'
    <3>1. task[t] \notin {"done", "failed"} /\ task' = [task EXCEPT ![t] = "waiting"]
      BY <1>7 DEF Requeue, Running
    <3>2. \A u \in Tasks \ {t} : dir'[u] = dir[u]
      BY <1>0, <1>7 DEF Requeue, Types
    <3>3. UNCHANGED <<tool, parser, results>>
      BY <1>7 DEF Requeue
    <3>4. QED
      BY <3>1, <3>2, <3>3, TaskLeavesResults DEF Places
  <2>6. QED
    BY <2>1, <2>2, <2>3, <2>4, <2>5 DEF IInv
<1>8. QED
  BY <1>1, <1>2, <1>3, <1>4, <1>5, <1>6, <1>7 DEF TaskStep

(* The steps that leave the tasks, the directories and the results as they are. *)
LEMMA UnchangedKeeps ==
  ASSUME IInv, UNCHANGED <<tool, task, requeued, dir, signalled, results>>
  PROVE  OwnSignals' /\ TaskOrder' /\ ResultsAreFinal' /\ OnlyWritten'
<1>1. OwnSignals'
  BY DEF IInv, OwnSignals, Own
<1>2. TaskOrder'
  BY DEF IInv, TaskOrder
<1>3. ResultsAreFinal' /\ OnlyWritten'
  BY DEF IInv, ResultsAreFinal, OnlyWritten, Over, Table, Made
<1>4. QED
  BY <1>1, <1>2, <1>3

(* The jobs are counted from 1.                                             *)
LEMMA JobsAreNumbers == Jobs \subseteq Nat /\ 1 \in Jobs
<1>1. NumJobs \in Nat \ {0}
  BY MeasurementAssumption
<1>2. QED
  BY <1>1 DEF Jobs

(* The script submits the array job of a job that no task of exists.        *)
LEMMA SubmitArrayKeeps ==
  ASSUME IInv, SubmitArray
  PROVE  IInv'
<1>1. /\ script.job \in Jobs /\ script.kind = "array" /\ Types
      /\ script \in [job : Jobs \cup {0}, kind : {"array", "parser", "finished", "aborted"}]
  BY DEF SubmitArray, Submitting, IInv, Types
<1>2. \A c \in Cases : <<script.job, c>> \in Tasks /\ task[<<script.job, c>>] = "not submitted"
  <2>1. ASSUME NEW c \in Cases
        PROVE  <<script.job, c>> \in Tasks /\ task[<<script.job, c>>] = "not submitted"
    <3>1. <<script.job, c>> \in Tasks /\ <<script.job, c>>[1] = script.job
      BY <1>1 DEF Tasks
    <3>2. script.job >= script.job
      BY <1>1 DEF Jobs
    <3>3. QED
      BY <1>1, <3>1, <3>2 DEF IInv, NotYet
  <2>2. QED
    BY <2>1
<1>3. \A u \in Tasks : /\ u[1] \in Jobs /\ u[2] \in Cases /\ u = <<u[1], u[2]>>
                       /\ u[1] # script.job => task'[u] = task[u]
                       /\ u[1] = script.job => task'[u] = "waiting" /\ task[u] = "not submitted"
  <2>1. ASSUME NEW u \in Tasks
        PROVE  u[1] \in Jobs /\ u[2] \in Cases /\ u = <<u[1], u[2]>>
    BY DEF Tasks
  <2>2. ASSUME NEW u \in Tasks
        PROVE  task'[u] = IF u[1] = script.job THEN "waiting" ELSE task[u]
    BY DEF SubmitArray
  <2>3. ASSUME NEW u \in Tasks, u[1] = script.job
        PROVE  task[u] = "not submitted"
    <3>1. u = <<script.job, u[2]>> /\ u[2] \in Cases
      BY <2>1, <2>3
    <3>2. QED
      BY <1>2, <3>1
  <2>4. QED
    BY <2>1, <2>2, <2>3
<1>4. Types'
  BY <1>1 DEF SubmitArray, Types, ResultTypes, Places
<1>5. NotYet'
  <2>1. script'.kind = "parser" /\ script'.job = script.job
    BY <1>1 DEF SubmitArray
  <2>2. ASSUME NEW u \in Tasks
        PROVE  /\ u[1] > script.job => task'[u] = "not submitted"
               /\ task'[u] = "not submitted" => dir'[u] = NoDir
    <3>1. u[1] \in Nat /\ script.job \in Nat
      BY <1>1, <1>3, JobsAreNumbers
    <3>2. u[1] > script.job => u[1] >= script.job /\ u[1] # script.job
      BY <3>1
    <3>3. CASE u[1] # script.job
      <4>1. task'[u] = task[u] /\ dir'[u] = dir[u]
        BY <1>3, <3>3 DEF SubmitArray
      <4>2. /\ u[1] >= script.job => task[u] = "not submitted"
            /\ task[u] = "not submitted" => dir[u] = NoDir
        BY <1>1 DEF IInv, NotYet
      <4>3. QED
        BY <3>2, <3>3, <4>1, <4>2
    <3>4. CASE u[1] = script.job
      <4>1. task'[u] = "waiting"
        BY <1>3, <3>4
      <4>2. QED
        BY <3>1, <3>2, <3>4, <4>1
    <3>5. QED
      BY <3>3, <3>4
  <2>3. QED
    BY <2>1, <2>2 DEF NotYet
<1>6. TaskOrder'
  BY <1>3 DEF SubmitArray, IInv, TaskOrder, Running
<1>7. OwnSignals'
  <2>1. ASSUME NEW u \in Tasks \ requeued
        PROVE  Own(u)'
    <3>1. Own(u)
      BY <2>1 DEF IInv, OwnSignals
    <3>2. QED
      BY <1>3, <3>1 DEF SubmitArray, Own
  <2>2. QED
    BY <2>1 DEF SubmitArray, OwnSignals
<1>8. ResultsAreFinal' /\ ParsedSucceeded' /\ OnlyWritten'
  <2>1. CASE Cases = {}
    <3>1. \A j \in Jobs : Over(j)' /\ Succeeded(j)' /\ Table(j)' = Table(j)
      BY <2>1 DEF SubmitArray, Over, Succeeded, Table, Made
    <3>2. QED
      BY <3>1 DEF SubmitArray, IInv, ResultsAreFinal, ParsedSucceeded, OnlyWritten
  <2>2. CASE Cases # {}
    <3>1. ~Over(script.job)
      BY <1>2, <2>2 DEF Over
    <3>2. ~results[script.job].written
      BY <1>1, <3>1 DEF IInv, ResultsAreFinal
    <3>3. ASSUME NEW j \in Jobs, results[j].written
          PROVE  Over(j)' /\ Table(j)' = Table(j) /\ (Succeeded(j) => Succeeded(j)')
      <4>1. j # script.job /\ Over(j)
        BY <3>2, <3>3 DEF IInv, ResultsAreFinal
      <4>2. \A c \in Cases : <<j, c>> \in Tasks /\ task'[<<j, c>>] = task[<<j, c>>]
        BY <1>3, <4>1 DEF Tasks
      <4>3. QED
        BY <4>1, <4>2 DEF SubmitArray, Over, Succeeded, Table, Made
    <3>4. QED
      BY <3>3 DEF SubmitArray, IInv, ResultsAreFinal, ParsedSucceeded, OnlyWritten
  <2>3. QED
    BY <2>1, <2>2
<1>9. QED
  BY <1>4, <1>5, <1>6, <1>7, <1>8 DEF IInv

(* The rest of the script.                                                   *)
LEMMA ScriptKeeps ==
  ASSUME IInv, ArrayRefused \/ SubmitParser \/ ParserRefused
  PROVE  IInv'
<1>0. /\ Types /\ script.job \in Jobs /\ script.kind \in {"array", "parser"} /\ NumJobs \in Nat \ {0}
      /\ UNCHANGED <<tool, task, requeued, dir, signalled, results>>
      /\ script \in [job : Jobs \cup {0}, kind : {"array", "parser", "finished", "aborted"}]
  BY MeasurementAssumption
     DEF ArrayRefused, SubmitParser, ParserRefused, Submitting, IInv, Types, tasks
<1>1. OwnSignals' /\ TaskOrder' /\ ResultsAreFinal' /\ OnlyWritten'
  BY <1>0, UnchangedKeeps
<1>2. NextJob \in [job : Jobs \cup {0}, kind : {"array", "parser", "finished", "aborted"}]
  BY <1>0 DEF NextJob, Jobs
<1>3. Types'
  BY <1>0, <1>2 DEF ArrayRefused, SubmitParser, ParserRefused, Types, ResultTypes
<1>4. NotYet'
  <2>1. \A u \in Tasks : u[1] \in Nat
    BY DEF Tasks, Jobs
  <2>2. CASE ArrayRefused
    BY <1>0, <2>2 DEF ArrayRefused, IInv, NotYet
  <2>3. CASE SubmitParser \/ ParserRefused
    <3>1. script.kind = "parser" /\ script' = NextJob
      BY <2>3 DEF SubmitParser, ParserRefused, Submitting
    <3>2. /\ script'.kind = "array" => script'.job = script.job + 1
          /\ script'.kind # "parser"
      BY <3>1 DEF NextJob
    <3>3. ASSUME NEW u \in Tasks
          PROVE  u[1] >= script.job + 1 => u[1] > script.job
      BY <1>0, <2>1 DEF Jobs
    <3>4. QED
      BY <1>0, <3>1, <3>2, <3>3 DEF IInv, NotYet
  <2>4. QED
    BY <1>0, <2>2, <2>3 DEF SubmitParser, ParserRefused
<1>5. ParsedSucceeded'
  BY <1>0 DEF ArrayRefused, SubmitParser, ParserRefused, IInv, Types, ParsedSucceeded, Succeeded
<1>6. QED
  BY <1>1, <1>3, <1>4, <1>5 DEF IInv

(* Parser.py on a job that is over writes the rows of its directories.       *)
LEMMA ParseKeeps ==
  ASSUME IInv, NEW j \in Jobs, Over(j), Parse(j), UNCHANGED <<tool, tasks>>
  PROVE  /\ ResultTypes'
         /\ \A i \in Jobs : results[i].written => results'[i].written
         /\ ResultsAreFinal' /\ OnlyWritten'
         /\ (\A c \in Made(j) : dir[<<j, c>>].named) => results'[j].written
<1>1. \A i \in Jobs : /\ Table(i)' = Table(i) /\ (Over(i) => Over(i)')
  BY DEF tasks, Table, Made, Over
<1>2. ResultTypes /\ ResultsAreFinal /\ OnlyWritten
  BY DEF IInv, Types
<1>3. CASE \A c \in Made(j) : dir[<<j, c>>].named
  <2>1. results' = [results EXCEPT ![j] = [written |-> TRUE, rows |-> Table(j)]]
    BY <1>3 DEF Parse
  <2>2. \A i \in Jobs : results'[i] = IF i = j THEN [written |-> TRUE, rows |-> Table(j)] ELSE results[i]
    BY <1>2, <2>1 DEF ResultTypes
  <2>3. ResultTypes'
    <3>1. DOMAIN results' = Jobs
      BY <1>2, <2>1 DEF ResultTypes
    <3>2. ASSUME NEW i \in Jobs
          PROVE  /\ results'[i] = [written |-> results'[i].written, rows |-> results'[i].rows]
                 /\ results'[i].written \in BOOLEAN
      <4>1. CASE i = j
        <5>1. results'[i] = [written |-> TRUE, rows |-> Table(j)]
          BY <2>2, <4>1
        <5>2. QED
          BY <5>1
      <4>2. CASE i # j
        BY <1>2, <2>2, <4>2 DEF ResultTypes
      <4>3. QED
        BY <4>1, <4>2
    <3>3. QED
      BY <3>1, <3>2 DEF ResultTypes
  <2>4. \A i \in Jobs : results[i].written => results'[i].written
    BY <2>2
  <2>5. ASSUME NEW i \in Jobs
        PROVE  /\ results'[i].written => Over(i)' /\ results'[i].rows = Table(i)'
               /\ ~results'[i].written => results'[i].rows = <<>>
    <3>1. CASE i = j
      BY <1>1, <2>2, <3>1
    <3>2. CASE i # j
      BY <1>1, <1>2, <2>2, <3>2 DEF ResultsAreFinal, OnlyWritten
    <3>3. QED
      BY <3>1, <3>2
  <2>6. ResultsAreFinal' /\ OnlyWritten'
    BY <2>5 DEF ResultsAreFinal, OnlyWritten
  <2>7. results'[j].written
    BY <2>2
  <2>8. QED
    BY <2>3, <2>4, <2>6, <2>7
<1>4. CASE ~(\A c \in Made(j) : dir[<<j, c>>].named)
  BY <1>1, <1>2, <1>4 DEF Parse, ResultTypes, ResultsAreFinal, OnlyWritten
<1>5. QED
  BY <1>3, <1>4

(* The parsing job, and the run of Parser.py before the results are gathered. *)
LEMMA ParsingKeeps ==
  ASSUME IInv, NEW j \in Jobs, ParsingJob(j) \/ ParseAgain(j)
  PROVE  IInv'
<1>1. /\ Parse(j) /\ UNCHANGED <<tool, script, tasks>>
      /\ UNCHANGED <<tool, task, requeued, dir, signalled, script>>
  BY DEF ParsingJob, ParseAgain, tasks
<1>2. Over(j)
  <2>1. CASE ParsingJob(j)
    BY <2>1 DEF ParsingJob, Succeeded, Over
  <2>2. CASE ParseAgain(j)
    <3>1. PICK c \in Cases : dir[<<j, c>>].made
      BY <2>2 DEF ParseAgain, Made
    <3>2. <<j, c>> \in Tasks
      BY DEF Tasks
    <3>3. task[<<j, c>>] # "not submitted"
      <4>1. NoDir.made = FALSE
        BY DEF NoDir
      <4>2. QED
        BY <3>1, <3>2, <4>1 DEF IInv, NotYet
    <3>4. QED
      BY <2>2, <3>3 DEF ParseAgain, AllJobsOver
  <2>3. QED
    BY <2>1, <2>2
<1>3. /\ ResultTypes'
      /\ \A i \in Jobs : results[i].written => results'[i].written
      /\ ResultsAreFinal' /\ OnlyWritten'
      /\ (\A c \in Made(j) : dir[<<j, c>>].named) => results'[j].written
  BY <1>1, <1>2, ParseKeeps
<1>4. Types'
  BY <1>1, <1>3 DEF ParsingJob, ParseAgain, IInv, Types, ResultTypes
<1>5. NotYet' /\ TaskOrder'
  BY <1>1 DEF IInv, NotYet, TaskOrder
<1>6. OwnSignals'
  BY <1>1 DEF IInv, OwnSignals, Own
<1>7. ParsedSucceeded'
  <2>1. ASSUME NEW i \in Jobs, parser[i] = "done"
        PROVE  Succeeded(i)' /\ results'[i].written
    BY <1>1, <1>3, <2>1 DEF IInv, ParsedSucceeded, Succeeded
  <2>2. CASE ParsingJob(j)
    <3>1. Succeeded(j) /\ \A i \in Jobs : parser'[i] = "done" => i = j \/ parser[i] = "done"
      BY <2>2 DEF ParsingJob, IInv, Types
    <3>2. \A c \in Made(j) : <<j, c>> \in Tasks /\ task[<<j, c>>] = "done"
      BY <3>1 DEF Made, Succeeded, Tasks
    <3>3. \A c \in Made(j) : dir[<<j, c>>].named
      BY <3>2 DEF IInv, TaskOrder
    <3>4. results'[j].written /\ Succeeded(j)'
      BY <1>1, <1>3, <3>1, <3>3 DEF Succeeded
    <3>5. QED
      BY <2>1, <3>1, <3>4 DEF ParsedSucceeded
  <2>3. CASE ParseAgain(j)
    BY <2>1, <2>3 DEF ParseAgain, ParsedSucceeded
  <2>4. QED
    BY <2>2, <2>3
<1>8. QED
  BY <1>3, <1>4, <1>5, <1>6, <1>7 DEF IInv

(* Gathering only reads, and so does a step that changes nothing.            *)
LEMMA ReadersKeep ==
  ASSUME IInv, UNCHANGED <<tool, script, tasks, parser, results>>
  PROVE  IInv'
<1>1. OwnSignals' /\ TaskOrder' /\ ResultsAreFinal' /\ OnlyWritten'
  BY UnchangedKeeps DEF tasks
<1>2. Types' /\ NotYet'
  BY DEF tasks, IInv, Types, ResultTypes, NotYet
<1>3. ParsedSucceeded'
  BY DEF tasks, IInv, ParsedSucceeded, Succeeded
<1>4. QED
  BY <1>1, <1>2, <1>3 DEF IInv

(* A table without rows has no cases.                                       *)
LEMMA EmptyTable == DOMAIN <<>> = {}
<1>1. <<>> \in Seq({}) /\ Len(<<>>) = 0
  BY EmptySeq
<1>2. DOMAIN <<>> = 1..0
  BY <1>1, LenProperties
<1>3. \A n \in 1..0 : FALSE
  OBVIOUS
<1>4. QED
  BY <1>2, <1>3

(* Nothing is there in the beginning.                                        *)
LEMMA InitHolds ==
  ASSUME Init
  PROVE  IInv
<1> USE DEF Init
<1>1. NoDir \in Dirs /\ Nobody \in [bare : SUBSET Nat, files : SUBSET Nat]
  BY DEF NoDir, Dirs, Nobody, Logs, NoLog
<1>2. Types
  <2>1. 1 \in Jobs
    BY JobsAreNumbers
  <2>2. QED
    BY <1>1, <2>1 DEF Types, ResultTypes, Places
<1>3. NotYet /\ TaskOrder
  BY DEF NotYet, TaskOrder, Running
<1>4. OwnSignals
  BY DEF OwnSignals, Own, NoDir, Nobody
<1>5. ResultsAreFinal /\ ParsedSucceeded /\ OnlyWritten
  <2>1. \A j \in Jobs : results[j].written = FALSE /\ results[j].rows = <<>> /\ parser[j] = "none"
    OBVIOUS
  <2>2. QED
    BY <2>1 DEF ResultsAreFinal, ParsedSucceeded, OnlyWritten
<1>6. QED
  BY <1>2, <1>3, <1>4, <1>5 DEF IInv

(* Every step of a measurement keeps the invariant.                         *)
LEMMA NextKeeps ==
  ASSUME IInv, [Next]_vars
  PROVE  IInv'
<1>1. CASE SubmitArray
  BY <1>1, SubmitArrayKeeps
<1>2. CASE ArrayRefused \/ SubmitParser \/ ParserRefused
  BY <1>2, ScriptKeeps
<1>3. CASE \E t \in Tasks : TaskStep(t)
  BY <1>3, TaskKeeps
<1>4. CASE \E j \in Jobs : ParsingJob(j) \/ ParseAgain(j)
  BY <1>4, ParsingKeeps
<1>5. CASE \E j \in Jobs : AddDirectory(j) \/ GatheringFails(j)
  BY <1>5, ReadersKeep DEF AddDirectory, GatheringFails
<1>6. CASE StartGathering \/ WriteTable
  BY <1>6, ReadersKeep DEF StartGathering, WriteTable
<1>7. CASE Finished \/ UNCHANGED vars
  BY <1>7, ReadersKeep DEF Finished, vars
<1>8. QED
  BY <1>1, <1>2, <1>3, <1>4, <1>5, <1>6, <1>7 DEF Next

(* The invariant holds throughout.                                          *)
LEMMA Inductive == Spec => []IInv
<1>1. Init => IInv
  BY InitHolds
<1>2. IInv /\ [Next]_vars => IInv'
  BY NextKeeps
<1>3. QED
  BY <1>1, <1>2, PTL DEF Spec

(* What Parser.py has read is what is there in the end, in every execution of *)
(* every measurement: no row of a results.json is ever stale.                 *)
THEOREM Final == Spec => []ResultsAreFinal
<1>1. IInv => ResultsAreFinal
  BY DEF IInv
<1>2. QED
  BY <1>1, Inductive, PTL

(* A parsing job never ends without a row for every case of its array job.    *)
THEOREM Complete == Spec => []ParsingJobIsComplete
<1>1. ASSUME IInv, NEW j \in Jobs, parser[j] = "done"
      PROVE  results[j].written /\ DOMAIN results[j].rows = Cases
  <2>1. Succeeded(j) /\ results[j].written /\ results[j].rows = Table(j)
    BY <1>1 DEF IInv, ParsedSucceeded, ResultsAreFinal
  <2>2. \A c \in Cases : <<j, c>> \in Tasks /\ task[<<j, c>>] = "done"
    BY <2>1 DEF Succeeded, Tasks
  <2>3. Made(j) = Cases
    BY <1>1, <2>2 DEF Made, IInv, TaskOrder
  <2>4. QED
    BY <2>1, <2>3 DEF Table
<1>2. IInv => ParsingJobIsComplete
  BY <1>1 DEF ParsingJobIsComplete
<1>3. QED
  BY <1>2, Inductive, PTL

(* A task that was started once is given the verdict of its own execution: the *)
(* error counts as absent only if both ranks have signalled in that very run.  *)
THEOREM Absent == Spec => []AbsentOnlyIfSignalled
<1>1. ASSUME IInv, NEW j \in Jobs, NEW c \in DOMAIN results[j].rows, <<j, c>> \notin requeued
      PROVE  /\ results[j].rows[c].error_present = 0 => ParserRanks \subseteq signalled[<<j, c>>].files
             /\ results[j].rows[c].error_present_without_tool = 0
                  => ParserRanks \subseteq signalled[<<j, c>>].bare
  <2>1. results[j].written /\ results[j].rows = Table(j)
    BY <1>1, EmptyTable DEF IInv, OnlyWritten, ResultsAreFinal, Types
  <2>2. c \in Made(j) /\ results[j].rows[c] = Row(tool, c \in Erroneous, dir[<<j, c>>])
    BY <1>1, <2>1 DEF Table
  <2>3. <<j, c>> \in Tasks
    BY <2>2 DEF Made, Tasks
  <2>4. /\ dir[<<j, c>>].bare = signalled[<<j, c>>].bare
        /\ dir[<<j, c>>].files = signalled[<<j, c>>].files
    BY <1>1, <2>3 DEF IInv, OwnSignals, Own
  <2>5. QED
    BY <2>2, <2>4 DEF Row, CheckIfErrorManifested
<1>2. IInv => AbsentOnlyIfSignalled
  BY <1>1 DEF AbsentOnlyIfSignalled
<1>3. QED
  BY <1>2, Inductive, PTL

\* The row of a case in a table: some verdict, and none of the other kind of case.
OfCase(c, row) ==
  /\ row.score \in Scores /\ OneSided(c \in Erroneous, row.score)
  /\ \E col \in Columns : row.score[col] > 0

\* What gather_results.py has added up so far.
IsGather == gather = [at |-> gather.at, left |-> gather.left, table |-> gather.table]
Gathered == IsGather /\ \A c \in DOMAIN gather.table : OfCase(c, gather.table[c])

(* The output parsers return one of four numbers for every log.              *)
LEMMA VerdictIsNumber ==
  ASSUME NEW log \in Logs, NEW t \in Tools
  PROVE  ErrorFound(t, log) \in {-2, -1, 0, 1}
<1>1. log.readable \in BOOLEAN
  BY DEF Logs
<1>2. MustErrorFound(log) \in {-2, -1, 0, 1}
  BY <1>1 DEF MustErrorFound
<1>3. ItacErrorFound(log) \in {-2, -1, 0, 1}
  BY <1>1 DEF ItacErrorFound
<1>4. QED
  BY <1>2, <1>3 DEF ErrorFound, Tools

(* Every row that Parser.py has written is one of its case.                  *)
LEMMA RowsAreOfTheirCases ==
  ASSUME IInv, NEW j \in Jobs, results[j].written, NEW c \in DOMAIN results[j].rows
  PROVE  OfCase(c, results[j].rows[c])
<1> DEFINE d == dir[<<j, c>>]
           found == ErrorFound(tool, d.log)
           col == Column(c \in Erroneous, found)
<1>1. results[j].rows = Table(j)
  BY DEF IInv, ResultsAreFinal
<1>2. c \in Made(j) /\ results[j].rows[c] = Row(tool, c \in Erroneous, d)
  BY <1>1 DEF Table
<1>3. <<j, c>> \in Tasks
  BY <1>2 DEF Made, Tasks
<1>4. d \in Dirs /\ tool \in Tools
  BY <1>3 DEF IInv, Types
<1>5. found \in Int
  BY <1>4, VerdictIsNumber DEF Dirs
<1>6. (c \in Erroneous) \in BOOLEAN
  OBVIOUS
<1>7. col \in Columns /\ One(col) \in Scores /\ OneSided(c \in Erroneous, One(col))
  BY <1>5, <1>6, OneColumn
<1>8. One(col)[col] = 1
  BY <1>7 DEF One, Zeros
<1>9. results[j].rows[c].score = One(col)
  BY <1>2 DEF Row
<1>10. QED
  BY <1>7, <1>8, <1>9 DEF OfCase

(* The sum of two rows of a case is one of that case.                        *)
LEMMA SumIsOfItsCase ==
  ASSUME NEW c, NEW a, NEW b, OfCase(c, a), OfCase(c, b)
  PROVE  OfCase(c, AddRows(a, b))
<1>1. (c \in Erroneous) \in BOOLEAN
  OBVIOUS
<1>2. /\ AddRows(a, b).score \in Scores
      /\ OneSided(c \in Erroneous, AddRows(a, b).score)
  BY <1>1, AddKeepsSide DEF OfCase
<1>3. PICK col \in Columns : a.score[col] > 0
  BY DEF OfCase
<1>4. AddRows(a, b).score[col] = a.score[col] + b.score[col]
  BY DEF AddRows
<1>5. a.score[col] \in Nat /\ b.score[col] \in Nat
  BY DEF OfCase, Scores
<1>6. AddRows(a, b).score[col] > 0
  BY <1>3, <1>4, <1>5
<1>7. QED
  BY <1>2, <1>6 DEF OfCase

(* Only adding a directory changes the table.                               *)
LEMMA GatheredIsInductive ==
  ASSUME IInv, Gathered, [Next]_vars
  PROVE  Gathered'
<1>1. CASE IsGather' /\ UNCHANGED gather.table
  BY <1>1 DEF Gathered, OfCase
<1>2. CASE \E j \in Jobs : AddDirectory(j)
  <2>1. PICK j \in Jobs : AddDirectory(j)
    BY <1>2
  <2>2. results[j].written /\ DOMAIN gather.table \subseteq DOMAIN results[j].rows
    BY <2>1 DEF AddDirectory, Gatherable
  <2>3. gather'.table = Added(j)
    BY <2>1 DEF AddDirectory
  <2>4. \A c \in DOMAIN Added(j) : OfCase(c, Added(j)[c])
    <3>1. CASE gather.table = <<>>
      <4>1. Added(j) = results[j].rows
        BY <3>1 DEF Added
      <4>2. QED
        BY <2>2, <4>1, RowsAreOfTheirCases
    <3>2. CASE gather.table # <<>>
      <4>1. Added(j) = [c \in DOMAIN gather.table |-> AddRows(gather.table[c], results[j].rows[c])]
        BY <3>2 DEF Added
      <4>2. ASSUME NEW c \in DOMAIN gather.table
            PROVE  OfCase(c, AddRows(gather.table[c], results[j].rows[c]))
        <5>1. OfCase(c, gather.table[c])
          BY DEF Gathered
        <5>2. OfCase(c, results[j].rows[c])
          BY <2>2, RowsAreOfTheirCases
        <5>3. QED
          BY <5>1, <5>2, SumIsOfItsCase
      <4>3. QED
        BY <4>1, <4>2
    <3>3. QED
      BY <3>1, <3>2
  <2>5. IsGather'
    BY <2>1 DEF AddDirectory, Gathered, IsGather
  <2>6. QED
    BY <2>3, <2>4, <2>5 DEF Gathered, OfCase
<1>3. CASE UNCHANGED gather
  BY <1>3 DEF Gathered, IsGather, OfCase
<1>4. CASE StartGathering \/ WriteTable \/ \E j \in Jobs : GatheringFails(j)
  <2>1. /\ \/ gather' = [gather EXCEPT !.at = gather'.at, !.left = gather'.left]
           \/ gather' = [gather EXCEPT !.at = gather'.at]
        /\ IsGather
    BY <1>4 DEF StartGathering, WriteTable, GatheringFails, Gathered, IsGather
  <2>2. IsGather' /\ UNCHANGED gather.table
    BY <2>1 DEF IsGather
  <2>3. QED
    BY <1>1, <2>2
<1>5. CASE \E t \in Tasks : TaskStep(t)
  BY <1>3, <1>5 DEF TaskStep, MakeDirectory, WriteNames, RunWithoutTool, RunWithTool,
                    CleanUp, Kill, Requeue
<1>6. CASE SubmitArray \/ ArrayRefused \/ SubmitParser \/ ParserRefused
  BY <1>3, <1>6 DEF SubmitArray, ArrayRefused, SubmitParser, ParserRefused
<1>7. CASE \E j \in Jobs : ParsingJob(j) \/ ParseAgain(j)
  BY <1>3, <1>7 DEF ParsingJob, ParseAgain
<1>8. CASE Finished \/ UNCHANGED vars
  BY <1>3, <1>8 DEF Finished, vars
<1>9. QED
  BY <1>2, <1>4, <1>5, <1>6, <1>7, <1>8 DEF Next

(* The table of every measurement holds rows of the cases they are for.       *)
LEMMA GatheredHolds == Spec => []Gathered
<1>1. Init => Gathered
  <2>1. ASSUME Init
        PROVE  IsGather /\ DOMAIN gather.table = {}
    <3>1. gather = [at |-> "idle", left |-> {}, table |-> <<>>]
      BY <2>1 DEF Init
    <3>2. QED
      BY <3>1, EmptyTable DEF IsGather
  <2>2. QED
    BY <2>1 DEF Gathered
<1>2. IInv /\ Gathered /\ [Next]_vars => Gathered'
  BY GatheredIsInductive
<1>3. QED
  BY <1>1, <1>2, Inductive, PTL DEF Spec

-----------------------------------------------------------------------------
(***************************************************************************)
(* gather_results.py: the sum does not depend on the order in which        *)
(* os.scandir yields the directories.                                      *)
(***************************************************************************)
Done == Directories \ gather.left

\* What the directories have to say about a case.
Scored(c, col) == [j \in Directories |-> results[j].rows[c].score[col]]
Present(c) == [j \in Directories |-> results[j].rows[c].error_present]
PresentBare(c) == [j \in Directories |-> results[j].rows[c].error_present_without_tool]

\* Gathering begins when nothing else happens any more.
GatherTypes ==
  /\ IsGather
  /\ gather.at \in {"idle", "running", "failed", "written"} /\ gather.left \subseteq Directories
  /\ gather.at = "idle" => gather.left = {} /\ gather.table = <<>>
  /\ gather.at = "written" => gather.left = {}
  /\ gather.at # "idle" => AllJobsOver

\* The table is the sum over the directories that were added, each of which has its cases.
SumSoFar(c) ==
  /\ gather.table[c] \in Rows
  /\ \A col \in Columns : gather.table[c].score[col] = PartialSums(Scored(c, col))[Done]
  /\ gather.table[c].error_present = PartialSums(Present(c))[Done]
  /\ gather.table[c].error_present_without_tool = PartialSums(PresentBare(c))[Done]

Counted ==
  gather.at # "idle" =>
    /\ Done = {} => gather.table = <<>>
    /\ Done # {} => DOMAIN gather.table # {}
    /\ \A j \in Done : results[j].written /\ DOMAIN gather.table \subseteq DOMAIN results[j].rows
    /\ \A c \in DOMAIN gather.table : SumSoFar(c)

Reasons ==
  gather.at # "idle" /\ ~Failure => gather.at # "failed" /\ DOMAIN gather.table \in {{}, Cases}

GInv == IInv /\ GatherTypes /\ Counted /\ Reasons /\ IsTable(gather.table)

(* Once all jobs are over no step changes a directory, or the results of one.  *)
LEMMA Settled ==
  ASSUME IInv, AllJobsOver, gather.at # "idle", [Next]_vars
  PROVE  /\ AllJobsOver' /\ UNCHANGED <<tool, task, requeued, dir, signalled>>
         /\ \A j \in Directories : parser'[j] = parser[j] /\ results'[j] = results[j]
<1>1. CASE UNCHANGED <<tool, script, tasks, parser, results>>
  BY <1>1 DEF tasks, AllJobsOver, Over, Succeeded
<1>2. CASE SubmitArray \/ ArrayRefused \/ SubmitParser \/ ParserRefused
  BY <1>2 DEF SubmitArray, ArrayRefused, SubmitParser, ParserRefused, Submitting, AllJobsOver
<1>3. ASSUME NEW t \in Tasks, TaskStep(t)
      PROVE  FALSE
  <2>1. task[t] \in {"waiting"} \cup Running
    BY <1>3 DEF TaskStep, MakeDirectory, WriteNames, RunWithoutTool, RunWithTool, CleanUp,
                Kill, Requeue, Goes, Running
  <2>2. PICK j \in Jobs, c \in Cases : t = <<j, c>>
    BY DEF Tasks
  <2>3. task[t] \in {"not submitted", "done", "failed"}
    BY <2>2 DEF AllJobsOver, Over
  <2>4. QED
    BY <2>1, <2>3 DEF Running
<1>4. ASSUME NEW j \in Jobs, ParsingJob(j)
      PROVE  Cases = {}
  <2>1. Succeeded(j) /\ parser[j] = "pending"
    BY <1>4 DEF ParsingJob
  <2>2. \A c \in Cases : task[<<j, c>>] = "not submitted"
    BY <2>1 DEF AllJobsOver
  <2>3. QED
    BY <2>1, <2>2 DEF Succeeded
<1>5. CASE \E j \in Jobs : ParsingJob(j)
  <2>1. Cases = {} /\ UNCHANGED <<tool, script, task, requeued, dir, signalled>>
    BY <1>4, <1>5 DEF ParsingJob, tasks
  <2>2. Directories = {}
    BY <2>1 DEF Directories, Made
  <2>3. AllJobsOver'
    BY <2>1 DEF AllJobsOver
  <2>4. QED
    BY <2>1, <2>2, <2>3
<1>6. CASE \E j \in Jobs : ParseAgain(j)
  BY <1>6 DEF ParseAgain
<1>7. CASE \/ StartGathering \/ WriteTable \/ Finished \/ UNCHANGED vars
           \/ \E j \in Jobs : AddDirectory(j) \/ GatheringFails(j)
  BY <1>1, <1>7 DEF StartGathering, WriteTable, Finished, AddDirectory, GatheringFails, vars
<1>8. QED
  BY <1>2, <1>3, <1>5, <1>6, <1>7 DEF Next

(* A results.json that was written is a table of cases.                       *)
LEMMA ResultsType ==
  ASSUME IInv, NEW j \in Jobs, results[j].written
  PROVE  /\ DOMAIN results[j].rows = Made(j)
         /\ results[j].rows \in [Made(j) -> Rows]
<1>1. results[j].rows = Table(j)
  BY DEF IInv, ResultsAreFinal
<1>2. ASSUME NEW c \in Made(j)
      PROVE  Row(tool, c \in Erroneous, dir[<<j, c>>]) \in Rows
  <2> DEFINE d == dir[<<j, c>>]
             found == ErrorFound(tool, d.log)
             col == Column(c \in Erroneous, found)
  <2>1. <<j, c>> \in Tasks
    BY <1>2 DEF Made, Tasks
  <2>2. d \in Dirs /\ tool \in Tools
    BY <2>1 DEF IInv, Types
  <2>3. found \in Int /\ (c \in Erroneous) \in BOOLEAN
    BY <2>2, VerdictIsNumber DEF Dirs
  <2>4. One(col) \in Scores
    BY <2>3, OneColumn
  <2>5. CheckIfErrorManifested(d.files) \in Nat /\ CheckIfErrorManifested(d.bare) \in Nat
    BY DEF CheckIfErrorManifested
  <2> HIDE DEF d
  <2>6. Row(tool, c \in Erroneous, d) \in Rows
    BY <2>4, <2>5 DEF Row, Rows, Scores
  <2>7. QED
    BY <2>6 DEF d
<1>3. QED
  BY <1>1, <1>2 DEF Table

(* The sum of two rows.                                                       *)
LEMMA SumType ==
  ASSUME NEW a \in Rows, NEW b \in Rows
  PROVE  AddRows(a, b) \in Rows
BY DEF Rows, AddRows

LEMMA DirectoriesAreFinite == IsFiniteSet(Directories)
<1>1. IsFiniteSet(Jobs)
  BY FS_Interval, MeasurementAssumption DEF Jobs
<1>2. QED
  BY <1>1, FS_Subset DEF Directories

(* Without a failure every directory has a row for every case.                *)
LEMMA AllHere ==
  ASSUME IInv, AllJobsOver, ~Failure, NEW j \in Directories
  PROVE  results[j].written /\ DOMAIN results[j].rows = Cases
<1>1. PICK c \in Cases : dir[<<j, c>>].made
  BY DEF Directories, Made
<1>2. \A x \in Cases : <<j, x>> \in Tasks
  BY DEF Tasks, Directories
<1>3. task[<<j, c>>] # "not submitted"
  <2>1. NoDir.made = FALSE
    BY DEF NoDir
  <2>2. QED
    BY <1>1, <1>2, <2>1 DEF IInv, NotYet
<1>4. Over(j) /\ (parser[j] = "pending" => ~Succeeded(j))
  BY <1>3 DEF AllJobsOver, Directories
<1>5. Succeeded(j)
  BY <1>2, <1>4 DEF Over, Succeeded, Failure
<1>6. parser[j] = "done"
  BY <1>4, <1>5 DEF Failure, IInv, Types, Directories
<1>7. results[j].written
  BY <1>6 DEF IInv, ParsedSucceeded, Directories
<1>8. Made(j) = Cases
  BY <1>2, <1>5 DEF IInv, TaskOrder, Succeeded, Made
<1>9. QED
  BY <1>7, <1>8, ResultsType DEF Directories

(* Adding a directory adds what it says to each of the sums.                  *)
LEMMA AddingOne ==
  ASSUME NEW f, DOMAIN f = Directories, NEW j \in gather.left, GatherTypes,
         f[j] \in Nat, \A i \in Done : f[i] \in Nat
  PROVE  PartialSums(f)[Done \cup {j}] = PartialSums(f)[Done] + f[j]
<1>1. /\ j \notin Done /\ Done \cup {j} \in SUBSET Directories /\ (Done \cup {j}) \ {j} = Done
      /\ Done \in SUBSET Directories
  BY DEF Done, GatherTypes
<1>2. PartialSums(f)[Done] \in Nat
  BY <1>1, DirectoriesAreFinite, PartialSumType
<1>3. \A i \in Done \cup {j} : f[i] \in Nat
  OBVIOUS
<1>4. PartialSums(f)[Done \cup {j}] = f[j] + PartialSums(f)[(Done \cup {j}) \ {j}]
  <2>1. j \in Done \cup {j}
    OBVIOUS
  <2>2. QED
    BY <1>1, <1>3, <2>1, DirectoriesAreFinite, SumWithout
<1>5. PartialSums(f)[(Done \cup {j}) \ {j}] = PartialSums(f)[Done]
  BY <1>1
<1>6. QED
  BY <1>2, <1>4, <1>5

(* gather_results.py adds the rows of a directory to its table.               *)
LEMMA AddKeepsSum ==
  ASSUME GInv, NEW j \in Jobs, AddDirectory(j), NEW c \in DOMAIN Added(j)
  PROVE  /\ c \in DOMAIN results[j].rows
         /\ Added(j)[c] \in Rows
         /\ \A col \in Columns :
              Added(j)[c].score[col] = PartialSums(Scored(c, col))[Done \cup {j}]
         /\ Added(j)[c].error_present = PartialSums(Present(c))[Done \cup {j}]
         /\ Added(j)[c].error_present_without_tool = PartialSums(PresentBare(c))[Done \cup {j}]
<1> DEFINE row == results[j].rows[c]
<1>1. /\ gather.at = "running" /\ j \in gather.left
      /\ results[j].written /\ DOMAIN gather.table \subseteq DOMAIN results[j].rows
  BY DEF AddDirectory, Gatherable
<1>2. c \in DOMAIN results[j].rows
  BY <1>1 DEF Added
<1>3. \A i \in Done \cup {j} : i \in Jobs /\ results[i].written /\ c \in DOMAIN results[i].rows
  <2>1. ASSUME NEW i \in Done
        PROVE  i \in Jobs /\ results[i].written /\ c \in DOMAIN results[i].rows
    <3>1. /\ results[i].written /\ DOMAIN gather.table \subseteq DOMAIN results[i].rows
          /\ DOMAIN gather.table # {} /\ i \in Jobs
      BY <1>1 DEF GInv, Counted, Done, Directories
    <3>2. c \in DOMAIN gather.table
      BY <3>1, EmptyTable DEF Added
    <3>3. QED
      BY <3>1, <3>2
  <2>2. QED
    BY <1>1, <1>2, <2>1
<1>4. \A i \in Done \cup {j} : results[i].rows[c] \in Rows
  BY <1>3, ResultsType DEF GInv
<1>5. /\ \A col \in Columns : \A i \in Done \cup {j} : Scored(c, col)[i] = results[i].rows[c].score[col]
      /\ \A i \in Done \cup {j} : Present(c)[i] = results[i].rows[c].error_present
      /\ \A i \in Done \cup {j} : PresentBare(c)[i] = results[i].rows[c].error_present_without_tool
  BY <1>1 DEF Scored, Present, PresentBare, Done, GInv, GatherTypes
<1>6. \A i \in Done \cup {j} :
        /\ \A col \in Columns : Scored(c, col)[i] \in Nat
        /\ Present(c)[i] \in Nat /\ PresentBare(c)[i] \in Nat
  BY <1>4, <1>5 DEF Rows
<1>7. /\ \A col \in Columns :
           PartialSums(Scored(c, col))[Done \cup {j}] = PartialSums(Scored(c, col))[Done] + row.score[col]
      /\ PartialSums(Present(c))[Done \cup {j}] = PartialSums(Present(c))[Done] + row.error_present
      /\ PartialSums(PresentBare(c))[Done \cup {j}]
           = PartialSums(PresentBare(c))[Done] + row.error_present_without_tool
  <2>1. /\ \A col \in Columns : DOMAIN Scored(c, col) = Directories
        /\ DOMAIN Present(c) = Directories /\ DOMAIN PresentBare(c) = Directories
    BY DEF Scored, Present, PresentBare
  <2>2. GatherTypes
    BY DEF GInv
  <2>3. ASSUME NEW col \in Columns
        PROVE  PartialSums(Scored(c, col))[Done \cup {j}]
                 = PartialSums(Scored(c, col))[Done] + Scored(c, col)[j]
    BY <1>1, <1>6, <2>1, <2>2, AddingOne
  <2>4. PartialSums(Present(c))[Done \cup {j}] = PartialSums(Present(c))[Done] + Present(c)[j]
    BY <1>1, <1>6, <2>1, <2>2, AddingOne
  <2>5. PartialSums(PresentBare(c))[Done \cup {j}]
          = PartialSums(PresentBare(c))[Done] + PresentBare(c)[j]
    BY <1>1, <1>6, <2>1, <2>2, AddingOne
  <2>6. QED
    BY <1>5, <2>3, <2>4, <2>5
<1>8. row \in Rows
  BY <1>4
<1>9. CASE gather.table = <<>>
  <2>1. Added(j)[c] = row
    BY <1>9 DEF Added
  <2>2. Done = {}
    BY <1>1, <1>9, EmptyTable DEF GInv, Counted
  <2>3. /\ \A col \in Columns : PartialSums(Scored(c, col))[{}] = 0
        /\ PartialSums(Present(c))[{}] = 0 /\ PartialSums(PresentBare(c))[{}] = 0
    BY SumOfNone, DirectoriesAreFinite DEF Scored, Present, PresentBare
  <2> HIDE DEF row
  <2>4. /\ \A col \in Columns : 0 + row.score[col] = row.score[col]
        /\ 0 + row.error_present = row.error_present
        /\ 0 + row.error_present_without_tool = row.error_present_without_tool
    BY <1>8 DEF Rows
  <2>5. QED
    BY <1>2, <1>7, <1>8, <2>1, <2>2, <2>3, <2>4
<1>10. CASE gather.table # <<>>
  <2>1. c \in DOMAIN gather.table /\ Added(j)[c] = AddRows(gather.table[c], row)
    BY <1>10 DEF Added
  <2>2. SumSoFar(c)
    BY <1>1, <2>1 DEF GInv, Counted
  <2>3. Added(j)[c] \in Rows
    BY <1>8, <2>1, <2>2, SumType DEF SumSoFar
  <2> HIDE DEF row
  <2>4. QED
    BY <1>2, <1>7, <2>1, <2>2, <2>3 DEF SumSoFar, AddRows
<1>11. QED
  BY <1>9, <1>10

(* What a step that leaves the directories alone leaves as it was.            *)
LEMMA SameDirectories ==
  ASSUME UNCHANGED <<task, dir>>,
         \A j \in Directories : parser'[j] = parser[j] /\ results'[j] = results[j]
  PROVE  /\ Directories' = Directories /\ (Failure' <=> Failure)
         /\ \A c : Present(c)' = Present(c) /\ PresentBare(c)' = PresentBare(c)
         /\ \A c, col : Scored(c, col)' = Scored(c, col)
<1>1. Directories' = Directories
  BY DEF Directories, Made
<1>2. Failure' <=> Failure
  BY <1>1 DEF Failure
<1>3. QED
  BY <1>1, <1>2 DEF Present, PresentBare, Scored

(* A step that leaves the table, and what was added to it, as they are.       *)
LEMMA SameTable ==
  ASSUME GInv, gather.at # "idle", UNCHANGED <<task, dir>>, UNCHANGED gather.table,
         \A j \in Directories : parser'[j] = parser[j] /\ results'[j] = results[j],
         UNCHANGED gather.left
  PROVE  Counted' /\ IsTable(gather.table)'
<1>1. /\ Directories' = Directories
      /\ \A c : Present(c)' = Present(c) /\ PresentBare(c)' = PresentBare(c)
      /\ \A c, col : Scored(c, col)' = Scored(c, col)
  BY SameDirectories
<1>2. Done' = Done
  BY <1>1 DEF Done
<1>3. ASSUME NEW c \in DOMAIN gather.table
      PROVE  SumSoFar(c)'
  <2>1. SumSoFar(c)
    BY DEF GInv, Counted
  <2>2. QED
    BY <1>1, <1>2, <2>1 DEF SumSoFar
<1>4. /\ Done = {} => gather.table = <<>>
      /\ Done # {} => DOMAIN gather.table # {}
      /\ \A j \in Done : results[j].written /\ DOMAIN gather.table \subseteq DOMAIN results[j].rows
  BY DEF GInv, Counted
<1>5. \A j \in Done : results'[j] = results[j]
  BY DEF Done
<1>6. Counted'
  BY <1>2, <1>3, <1>4, <1>5 DEF Counted
<1>7. IsTable(gather.table)'
  BY DEF GInv, IsTable
<1>8. QED
  BY <1>6, <1>7

(* Steps of the others: all is over before the first directory is added.      *)
LEMMA OthersKeepTable ==
  ASSUME GInv, [Next]_vars, UNCHANGED gather
  PROVE  GatherTypes' /\ Counted' /\ Reasons' /\ IsTable(gather.table)'
<1>1. CASE gather.at = "idle"
  BY <1>1 DEF GInv, GatherTypes, IsGather, Counted, Reasons, IsTable
<1>2. CASE gather.at # "idle"
  <2>1. AllJobsOver /\ IInv
    BY <1>2 DEF GInv, GatherTypes
  <2>2. /\ AllJobsOver' /\ UNCHANGED <<task, dir>>
        /\ \A j \in Directories : parser'[j] = parser[j] /\ results'[j] = results[j]
    BY <1>2, <2>1, Settled
  <2>3. Directories' = Directories /\ (Failure' <=> Failure)
    BY <2>2, SameDirectories
  <2>4. GatherTypes'
    BY <2>2, <2>3 DEF GInv, GatherTypes, IsGather
  <2>5. Counted' /\ IsTable(gather.table)'
    BY <1>2, <2>2, SameTable
  <2>6. Reasons'
    BY <2>3 DEF GInv, Reasons
  <2>7. QED
    BY <2>4, <2>5, <2>6
<1>3. QED
  BY <1>1, <1>2

(* The first step of gather_results.py, and its last ones.                    *)
LEMMA EndsKeepTable ==
  ASSUME GInv, NEW j \in Jobs, StartGathering \/ WriteTable \/ GatheringFails(j)
  PROVE  GatherTypes' /\ Counted' /\ Reasons' /\ IsTable(gather.table)'
<1>1. /\ IsGather /\ UNCHANGED <<tool, script, task, dir, parser, results>>
      /\ AllJobsOver => AllJobsOver'
  BY DEF StartGathering, WriteTable, GatheringFails, tasks, GInv, GatherTypes,
         AllJobsOver, Over, Succeeded
<1>2. /\ Directories' = Directories /\ (Failure' <=> Failure)
  BY <1>1, SameDirectories
<1>3. CASE StartGathering
  <2>1. gather' = [at |-> "running", left |-> Directories, table |-> <<>>]
    BY <1>1, <1>3 DEF StartGathering, GInv, GatherTypes, IsGather, Directories
  <2>2. Done' = {} /\ DOMAIN <<>> = {}
    BY <1>2, <2>1, EmptyTable DEF Done
  <2>3. GatherTypes'
    <3>1. gather'.at = "running" /\ gather'.left = Directories /\ IsGather'
      BY <2>1 DEF IsGather
    <3>2. AllJobsOver'
      BY <1>1, <1>3 DEF StartGathering
    <3>3. QED
      BY <1>2, <3>1, <3>2 DEF GatherTypes
  <2>4. Counted' /\ Reasons'
    BY <2>1, <2>2 DEF Counted, Reasons
  <2>5. IsTable(gather.table)'
    BY <1>3, <2>1 DEF GInv, GatherTypes, StartGathering, IsTable
  <2>6. QED
    BY <2>3, <2>4, <2>5
<1>4. CASE WriteTable \/ GatheringFails(j)
  <2>1. /\ gather' = [gather EXCEPT !.at = gather'.at] /\ gather.at = "running"
        /\ gather'.at \in {"written", "failed"}
        /\ gather'.at = "written" => gather.left = {}
        /\ gather'.at = "failed" => GatheringFails(j)
    BY <1>1, <1>4 DEF WriteTable, GatheringFails, IsGather
  <2>2. IsGather' /\ UNCHANGED gather.table /\ UNCHANGED gather.left
    BY <1>1, <2>1 DEF IsGather
  <2>3. GatherTypes'
    BY <1>1, <1>2, <2>1, <2>2 DEF GInv, GatherTypes
  <2>4. Counted' /\ IsTable(gather.table)'
    BY <1>1, <2>1, <2>2, SameTable
  <2>5. ASSUME ~Failure
        PROVE  gather'.at # "failed" /\ DOMAIN gather.table \in {{}, Cases}
    <3>1. DOMAIN gather.table \in {{}, Cases} /\ AllJobsOver /\ IInv /\ gather.left \subseteq Directories
      BY <2>1, <2>5 DEF GInv, Reasons, GatherTypes
    <3>2. \A i \in gather.left : results[i].written /\ DOMAIN results[i].rows = Cases
      BY <2>5, <3>1, AllHere
    <3>3. \A i \in gather.left : Gatherable(i)
      BY <3>1, <3>2 DEF Gatherable
    <3>4. QED
      BY <2>1, <3>1, <3>3 DEF GatheringFails
  <2>6. Reasons'
    BY <1>2, <2>2, <2>5 DEF Reasons
  <2>7. QED
    BY <2>3, <2>4, <2>6
<1>5. QED
  BY <1>3, <1>4

(* Each of the other steps of gather_results.py takes one directory.          *)
LEMMA AddKeepsTable ==
  ASSUME GInv, NEW j \in Jobs, AddDirectory(j)
  PROVE  GatherTypes' /\ Counted' /\ Reasons' /\ IsTable(gather.table)'
<1>1. /\ IsGather /\ UNCHANGED <<tool, script, task, dir, parser, results>>
      /\ gather.at = "running" /\ j \in gather.left /\ j \in Directories
      /\ AllJobsOver /\ AllJobsOver' /\ IInv
  BY DEF AddDirectory, tasks, GInv, GatherTypes, AllJobsOver, Over, Succeeded
<1>2. /\ Directories' = Directories /\ (Failure' <=> Failure)
      /\ \A c : Present(c)' = Present(c) /\ PresentBare(c)' = PresentBare(c)
      /\ \A c, col : Scored(c, col)' = Scored(c, col)
  BY <1>1, SameDirectories
<1>3. gather' = [at |-> "running", left |-> gather.left \ {j}, table |-> Added(j)]
  BY <1>1 DEF AddDirectory, IsGather
<1>4. Done' = Done \cup {j}
  BY <1>1, <1>2, <1>3 DEF Done, GInv, GatherTypes
<1>5. /\ results[j].written /\ results[j].rows \in [Made(j) -> Rows] /\ Made(j) # {}
      /\ DOMAIN results[j].rows = Made(j) /\ DOMAIN gather.table \subseteq Made(j)
  BY <1>1, ResultsType DEF AddDirectory, Gatherable, Directories
<1>6. GatherTypes'
  <2>1. gather'.at = "running" /\ gather'.left \subseteq Directories /\ IsGather'
    BY <1>1, <1>3 DEF IsGather, GInv, GatherTypes
  <2>2. QED
    BY <1>1, <1>2, <2>1 DEF GatherTypes
<1>7. Counted'
  <2>1. DOMAIN Added(j) # {}
    <3>1. CASE gather.table = <<>>
      BY <1>5, <3>1 DEF Added
    <3>2. CASE gather.table # <<>>
      <4>1. DOMAIN gather.table # {}
        BY <1>1, <3>2 DEF GInv, Counted
      <4>2. QED
        BY <3>2, <4>1 DEF Added
    <3>3. QED
      BY <3>1, <3>2
  <2>2. ASSUME NEW i \in Done \cup {j}
        PROVE  results'[i].written /\ DOMAIN Added(j) \subseteq DOMAIN results'[i].rows
    <3>1. DOMAIN Added(j) \subseteq DOMAIN results[j].rows
      BY AddKeepsSum
    <3>2. CASE i = j
      BY <1>1, <1>5, <3>1, <3>2
    <3>3. CASE i \in Done
      <4>1. /\ results[i].written /\ DOMAIN gather.table \subseteq DOMAIN results[i].rows
            /\ gather.table # <<>>
        BY <1>1, <3>3, EmptyTable DEF GInv, Counted
      <4>2. QED
        BY <1>1, <4>1 DEF Added
    <3>4. QED
      BY <3>2, <3>3
  <2>3. ASSUME NEW c \in DOMAIN Added(j)
        PROVE  SumSoFar(c)'
    <3>1. /\ Added(j)[c] \in Rows
          /\ \A col \in Columns :
               Added(j)[c].score[col] = PartialSums(Scored(c, col))[Done \cup {j}]
          /\ Added(j)[c].error_present = PartialSums(Present(c))[Done \cup {j}]
          /\ Added(j)[c].error_present_without_tool = PartialSums(PresentBare(c))[Done \cup {j}]
      BY AddKeepsSum
    <3>2. gather'.table = Added(j)
      BY <1>3
    <3>3. QED
      BY <1>2, <1>4, <3>1, <3>2 DEF SumSoFar
  <2>4. gather'.table = Added(j) /\ Done' # {}
    BY <1>3, <1>4
  <2>5. QED
    BY <1>4, <2>1, <2>2, <2>3, <2>4 DEF Counted
<1>8. Reasons'
  <2>1. ASSUME ~Failure
        PROVE  DOMAIN Added(j) \in {{}, Cases}
    <3>1. DOMAIN results[j].rows = Cases
      BY <1>1, <2>1, AllHere
    <3>2. DOMAIN gather.table \in {{}, Cases}
      BY <1>1, <2>1 DEF GInv, Reasons
    <3>3. QED
      BY <3>1, <3>2 DEF Added
  <2>2. gather'.at = "running" /\ gather'.table = Added(j)
    BY <1>3
  <2>3. QED
    BY <1>2, <2>1, <2>2 DEF Reasons
<1>9. IsTable(gather.table)'
  <2>1. Made(j) \subseteq Cases
    BY DEF Made
  <2>2. CASE gather.table = <<>>
    <3>1. gather'.table \in [Made(j) -> Rows]
      BY <1>3, <1>5, <2>2 DEF Added
    <3>2. QED
      BY <2>1, <3>1 DEF IsTable
  <2>3. CASE gather.table # <<>>
    <3>1. gather'.table = [c \in DOMAIN gather.table |-> AddRows(gather.table[c], results[j].rows[c])]
      BY <1>3, <2>3 DEF Added
    <3>2. ASSUME NEW c \in DOMAIN gather.table
          PROVE  AddRows(gather.table[c], results[j].rows[c]) \in Rows
      <4>1. gather.table[c] \in Rows
        BY <1>1 DEF GInv, Counted, SumSoFar
      <4>2. QED
        BY <1>5, <4>1, SumType
    <3>3. gather'.table \in [DOMAIN gather.table -> Rows]
      BY <3>1, <3>2
    <3>4. QED
      BY <1>5, <2>1, <3>3 DEF IsTable
  <2>4. QED
    BY <2>2, <2>3
<1>10. QED
  BY <1>6, <1>7, <1>8, <1>9

(* The table and what is known of it hold throughout a measurement.           *)
LEMMA GatheringInductive == Spec => []GInv
<1>1. Init => GInv
  <2>1. ASSUME Init
        PROVE  GInv
    <3>1. gather = [at |-> "idle", left |-> {}, table |-> <<>>] /\ IInv
      BY <2>1, InitHolds DEF Init
    <3>2. GatherTypes
      BY <3>1 DEF GatherTypes, IsGather
    <3>3. Counted /\ Reasons
      BY <3>1 DEF Counted, Reasons
    <3>4. IsTable(gather.table)
      <4>1. <<>> \in [{} -> Rows]
        BY EmptyTable
      <4>2. QED
        BY <3>1, <4>1 DEF IsTable
    <3>5. QED
      BY <3>1, <3>2, <3>3, <3>4 DEF GInv
  <2>2. QED
    BY <2>1
<1>2. GInv /\ [Next]_vars => GInv'
  <2>1. ASSUME GInv, [Next]_vars
        PROVE  GInv'
    <3>1. IInv'
      BY <2>1, NextKeeps DEF GInv
    <3>2. CASE UNCHANGED gather
      BY <2>1, <3>1, <3>2, OthersKeepTable DEF GInv
    <3>3. CASE StartGathering \/ WriteTable
      <4>1. 1 \in Jobs
        BY JobsAreNumbers
      <4>2. QED
        BY <2>1, <3>1, <3>3, <4>1, EndsKeepTable DEF GInv
    <3>4. CASE \E j \in Jobs : GatheringFails(j)
      BY <2>1, <3>1, <3>4, EndsKeepTable DEF GInv
    <3>5. CASE \E j \in Jobs : AddDirectory(j)
      BY <2>1, <3>1, <3>5, AddKeepsTable DEF GInv
    <3>6. CASE SubmitArray \/ ArrayRefused \/ SubmitParser \/ ParserRefused
      BY <3>2, <3>6 DEF SubmitArray, ArrayRefused, SubmitParser, ParserRefused
    <3>7. CASE \E t \in Tasks : TaskStep(t)
      BY <3>2, <3>7 DEF TaskStep, MakeDirectory, WriteNames, RunWithoutTool, RunWithTool,
                        CleanUp, Kill, Requeue
    <3>8. CASE \E j \in Jobs : ParsingJob(j) \/ ParseAgain(j)
      BY <3>2, <3>8 DEF ParsingJob, ParseAgain
    <3>9. CASE Finished \/ UNCHANGED vars
      BY <3>2, <3>9 DEF Finished, vars
    <3>10. QED
      BY <2>1, <3>3, <3>4, <3>5, <3>6, <3>7, <3>8, <3>9 DEF Next
  <2>2. QED
    BY <2>1
<1>3. QED
  BY <1>1, <1>2, PTL DEF Spec

(* The gathered table counts every run once: it is the sum over the directories, *)
(* in whatever order they were added.                                            *)
THEOREM Sums == Spec => []TableIsSum
<1>1. ASSUME GInv, gather.at = "written", NEW c \in DOMAIN gather.table
      PROVE  /\ \A col \in Columns : gather.table[c].score[col] = SumFunction(Scored(c, col))
             /\ gather.table[c].error_present = SumFunction(Present(c))
             /\ gather.table[c].error_present_without_tool = SumFunction(PresentBare(c))
  <2>1. Done = Directories
    BY <1>1 DEF GInv, GatherTypes, Done
  <2>2. SumSoFar(c)
    BY <1>1 DEF GInv, Counted
  <2>3. /\ \A col \in Columns : SumFunction(Scored(c, col)) = PartialSums(Scored(c, col))[Directories]
        /\ SumFunction(Present(c)) = PartialSums(Present(c))[Directories]
        /\ SumFunction(PresentBare(c)) = PartialSums(PresentBare(c))[Directories]
    BY SumIsPartial DEF Scored, Present, PresentBare
  <2>4. QED
    BY <2>1, <2>2, <2>3 DEF SumSoFar
<1>2. GInv => TableIsSum
  BY <1>1 DEF TableIsSum, Scored, Present, PresentBare
<1>3. QED
  BY <1>2, GatheringInductive, PTL

(* Some run has put a case into a column exactly when the sum says so.        *)
LEMMA ColumnsOfAnswers ==
  ASSUME GInv, gather.at = "written", NEW c \in DOMAIN gather.table, NEW col \in Columns
  PROVE  gather.table[c].score[col] > 0
           <=> \E n \in Answers(c) : Column(c \in Erroneous, n) = col
<1> DEFINE found(j) == ErrorFound(tool, dir[<<j, c>>].log)
           f == Scored(c, col)
<1>1. Done = Directories
  BY DEF GInv, GatherTypes, Done
<1>2. gather.table[c].score[col] = PartialSums(f)[Directories]
  BY <1>1 DEF GInv, Counted, SumSoFar
<1>3. ASSUME NEW j \in Directories
      PROVE  f[j] = One(Column(c \in Erroneous, found(j)))[col]
  <2>1. j \in Jobs /\ results[j].written /\ c \in DOMAIN results[j].rows
    BY <1>1 DEF GInv, Counted, Directories
  <2>2. results[j].rows = Table(j)
    BY <2>1 DEF GInv, IInv, ResultsAreFinal
  <2>3. results[j].rows[c] = Row(tool, c \in Erroneous, dir[<<j, c>>])
    BY <2>1, <2>2 DEF Table
  <2>4. f[j] = results[j].rows[c].score[col]
    BY DEF Scored
  <2>5. QED
    BY <2>3, <2>4 DEF Row
<1>4. \A column : One(column)[col] = IF column = col THEN 1 ELSE 0
  BY DEF One, Zeros
<1>5. \A j \in Directories : f[j] = IF Column(c \in Erroneous, found(j)) = col THEN 1 ELSE 0
  BY <1>3, <1>4
<1>6. DOMAIN f = Directories
  BY DEF Scored
<1>7. Answers(c) = {found(j) : j \in Directories}
  BY DEF Answers
<1> HIDE DEF f, found
<1>8. \A j \in Directories : f[j] \in Nat /\ (f[j] > 0 <=> Column(c \in Erroneous, found(j)) = col)
  BY <1>5
<1>9. PartialSums(f)[Directories] > 0 <=> \E j \in Directories : f[j] > 0
  BY <1>6, <1>8, DirectoriesAreFinite, SumIsPositive
<1>10. QED
  BY <1>2, <1>7, <1>8, <1>9

(* The strongest column of the sum is that of the strongest answer.           *)
LEMMA StrongestAnswer ==
  ASSUME NEW erroneous \in BOOLEAN, NEW s \in Scores, NEW answers \in SUBSET {-2, -1, 0, 1},
         \A col \in Columns : s[col] > 0 <=> \E n \in answers : Column(erroneous, n) = col
  PROVE  Strongest(erroneous, s) = Verdict(erroneous, answers)
<1>1. /\ Column(erroneous, -1) = "ERR"
      /\ Column(erroneous, 1) = IF erroneous THEN "TP" ELSE "FP"
      /\ Column(erroneous, -2) = IF erroneous THEN "TW" ELSE "FW"
      /\ Column(erroneous, 0) = IF erroneous THEN "FN" ELSE "TN"
  BY DEF Column
<1>2. /\ s.TP > 0 \/ s.FP > 0 <=> 1 \in answers
      /\ Above0(s, {"TP", "FP"}) <=> 1 \in answers
      /\ Above0(s, {"TW", "FW"}) <=> -2 \in answers
      /\ Above0(s, {"TN", "FN"}) <=> 0 \in answers
      /\ Above0(s, {"TP", "FP", "TW", "FW"}) <=> 1 \in answers \/ -2 \in answers
  BY <1>1 DEF Above0, Columns
<1>3. /\ (\E n \in answers : n > 0) <=> 1 \in answers
      /\ (\A n \in answers : n <= 0) <=> 1 \notin answers
      /\ answers \subseteq {-1, 0} <=> 1 \notin answers /\ -2 \notin answers
  OBVIOUS
<1>4. QED
  BY <1>2, <1>3 DEF Strongest, Verdict

(* From the logs to the verdict: however many runs are added, in whatever order, *)
(* and however differently the tool answered from run to run, no assertion of    *)
(* reduce_data fails and the strongest answer of all is left.                    *)
THEOREM Reduces == Spec => []VerdictIsStrongest
<1>1. ASSUME GInv, Gathered, gather.at = "written", NEW c \in DOMAIN gather.table
      PROVE  LET s == gather.table[c].score
             IN Reducible(s) /\ Reduced(s) = One(Verdict(c \in Erroneous, Answers(c)))
  <2> DEFINE s == gather.table[c].score
  <2>1. (c \in Erroneous) \in BOOLEAN
    OBVIOUS
  <2>2. s \in Scores /\ OneSided(c \in Erroneous, s) /\ \E col \in Columns : s[col] > 0
    BY <1>1 DEF Gathered, OfCase
  <2>3. Reducible(s) /\ Reduced(s) = One(Strongest(c \in Erroneous, s))
    BY <2>1, <2>2, StrongestRemains
  <2>4. Answers(c) \in SUBSET {-2, -1, 0, 1}
    <3>1. Done = Directories
      BY <1>1 DEF GInv, GatherTypes, Done
    <3>2. \A j \in Directories : j \in Jobs /\ results[j].written /\ c \in DOMAIN results[j].rows
      BY <1>1, <3>1 DEF GInv, Counted, Directories
    <3>3. \A j \in Directories : c \in Made(j)
      BY <1>1, <3>2, ResultsType DEF GInv
    <3>4. \A j \in Directories : <<j, c>> \in Tasks
      BY <3>2, <3>3 DEF Made, Tasks
    <3>5. tool \in Tools /\ \A j \in Directories : dir[<<j, c>>].log \in Logs
      BY <1>1, <3>4 DEF GInv, IInv, Types, Dirs
    <3>6. QED
      BY <3>5, VerdictIsNumber DEF Answers
  <2>5. \A col \in Columns : s[col] > 0 <=> \E n \in Answers(c) : Column(c \in Erroneous, n) = col
    BY <1>1, ColumnsOfAnswers
  <2> HIDE DEF s
  <2>6. Strongest(c \in Erroneous, s) = Verdict(c \in Erroneous, Answers(c))
    BY <2>1, <2>2, <2>4, <2>5, StrongestAnswer
  <2>7. QED
    BY <2>3, <2>6 DEF s
<1>2. GInv /\ Gathered => VerdictIsStrongest
  BY <1>1 DEF VerdictIsStrongest
<1>3. QED
  BY <1>2, GatheringInductive, GatheredHolds, PTL

(* Only a killed task or a job without a parsing job makes gathering fail, or    *)
(* leaves a case out.                                                            *)
THEOREM FailureHasReason == Spec => []GatheringFailsOnlyAfterFailure
<1>1. GInv => GatheringFailsOnlyAfterFailure
  BY DEF GInv, Reasons, GatheringFailsOnlyAfterFailure
<1>2. QED
  BY <1>1, GatheringInductive, PTL

(* Every state of a measurement is well typed, the tables included.              *)
THEOREM TypeCorrect == Spec => []TypeOK
<1>1. ASSUME GInv, NEW j \in Jobs
      PROVE  results[j].written \in BOOLEAN /\ IsTable(results[j].rows)
  <2>1. results[j].written \in BOOLEAN
    BY <1>1 DEF GInv, IInv, Types, ResultTypes
  <2>2. CASE results[j].written
    <3>1. results[j].rows \in [Made(j) -> Rows] /\ Made(j) \subseteq Cases
      BY <1>1, <2>2, ResultsType DEF GInv, Made
    <3>2. QED
      BY <2>1, <3>1 DEF IsTable
  <2>3. CASE ~results[j].written
    <3>1. results[j].rows = <<>> /\ <<>> \in [{} -> Rows]
      BY <1>1, <2>3, EmptyTable DEF GInv, IInv, OnlyWritten
    <3>2. QED
      BY <2>1, <3>1 DEF IsTable
  <2>4. QED
    BY <2>1, <2>2, <2>3
<1>2. GInv => TypeOK
  <2>1. Directories \subseteq Jobs
    BY DEF Directories
  <2>2. QED
    BY <1>1, <2>1 DEF GInv, IInv, Types, GatherTypes, TypeOK
<1>3. QED
  BY <1>2, GatheringInductive, PTL
=============================================================================
