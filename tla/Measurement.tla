---------------------------- MODULE Measurement ----------------------------
(***************************************************************************)
(* One measurement with one tool, from run_measurement.sh to the table in  *)
(* output/: an array job per repetition with one task per case, a parsing  *)
(* job that depends on it (afterok), Parser.py on each job's directory,    *)
(* and gather_results.py over the directories of all jobs.  The batch      *)
(* system may refuse a submission, kill a task, and run a killed task once *)
(* more in the directory it has.                                           *)
(***************************************************************************)
EXTENDS ResultTable, FiniteSets, FiniteSetsExt

CONSTANTS
  NumJobs,        \* NUM_RUNS times the lines of cflags_list
  Cases,          \* the array task ids, one per file found
  Erroneous,      \* those without "correct/" in the name of the file
  MaxKilled,      \* bound on the tasks that the batch system kills for good
  MaxRequeued,    \* bound on those that it kills and starts once more
  BareRuns(_),    \* per tool, the sets of ranks that may signal in a run without tool
  ToolRuns(_)     \* what a run with a tool may leave: its files and its log

Tools == {"MUST", "ITAC"}
Logs == [readable : BOOLEAN, says : SUBSET (MustPhrases \cup ItacPhrases)]

ASSUME MeasurementAssumption ==
  /\ NumJobs \in Nat \ {0} /\ MaxKilled \in Nat /\ MaxRequeued \in Nat
  /\ Erroneous \subseteq Cases
  /\ \A t \in Tools : /\ BareRuns(t) \subseteq SUBSET Nat
                      /\ ToolRuns(t) \subseteq [files : SUBSET Nat, log : Logs]

Jobs == 1..NumJobs
Tasks == Jobs \X Cases

VARIABLES
  tool,       \* TOOL
  script,     \* run_measurement.sh: the job it submits next, and the job of which kind
  task,       \* per task: how far its script has got
  requeued,   \* the tasks that were started once more
  dir,        \* per task: its directory
  signalled,  \* per task: who signalled in its last execution; not known to the scripts
  parser,     \* per job: its parsing job
  results,    \* per job: its results.json
  gather      \* gather_results.py

tasks == <<task, requeued, dir, signalled>>
vars == <<tool, script, tasks, parser, results, gather>>

Places == {"not submitted", "waiting", "made", "named", "bare", "ran", "done", "failed"}
Running == {"made", "named", "bare", "ran"}
Over(j) == \A c \in Cases : task[<<j, c>>] \in {"done", "failed"}
Succeeded(j) == \A c \in Cases : task[<<j, c>>] = "done"

NoLog == [readable |-> FALSE, says |-> {}]
NoDir == [made |-> FALSE, named |-> FALSE, bare |-> {}, files |-> {}, log |-> NoLog]
Nobody == [bare |-> {}, files |-> {}]

Init ==
  /\ tool \in Tools
  /\ script = [job |-> 1, kind |-> "array"]
  /\ task = [t \in Tasks |-> "not submitted"]
  /\ requeued = {}
  /\ dir = [t \in Tasks |-> NoDir]
  /\ signalled = [t \in Tasks |-> Nobody]
  /\ parser = [j \in Jobs |-> "none"]
  /\ results = [j \in Jobs |-> [written |-> FALSE, rows |-> <<>>]]
  /\ gather = [at |-> "idle", left |-> {}, table |-> <<>>]
-----------------------------------------------------------------------------
(***************************************************************************)
(* run_measurement.sh                                                      *)
(***************************************************************************)
Submitting(kind) == script.kind = kind /\ script.job \in Jobs
\* Mutant: one job too many.
OneMore == [job |-> script.job + 1, kind |-> "array"]

NextJob == IF script.job = NumJobs THEN [job |-> 0, kind |-> "finished"]
                                   ELSE [job |-> script.job + 1, kind |-> "array"]

SubmitArray ==
  /\ Submitting("array")
  /\ script' = [script EXCEPT !.kind = "parser"]
  /\ task' = [t \in Tasks |-> IF t[1] = script.job THEN "waiting" ELSE task[t]]
  /\ UNCHANGED <<tool, requeued, dir, signalled, parser, results, gather>>

\* The answer holds no number: the script exits.
ArrayRefused ==
  /\ Submitting("array")
  /\ script' = [job |-> 0, kind |-> "aborted"]
  /\ UNCHANGED <<tool, tasks, parser, results, gather>>

SubmitParser ==
  /\ Submitting("parser")
  /\ parser' = [parser EXCEPT ![script.job] = "pending"]
  /\ script' = NextJob
  /\ UNCHANGED <<tool, tasks, results, gather>>

\* JID, the number that is tested, is still the one of the array job.
ParserRefused ==
  /\ Submitting("parser")
  /\ script' = NextJob
  /\ UNCHANGED <<tool, tasks, parser, results, gather>>
-----------------------------------------------------------------------------
(***************************************************************************)
(* The script of a task, as job_script_generator.sh puts it together.      *)
(***************************************************************************)
Goes(t, from, to) == task[t] = from /\ task' = [task EXCEPT ![t] = to]

\* mkdir -p; cd; cp: what an earlier attempt has left stays.
MakeDirectory(t) ==
  /\ Goes(t, "waiting", "made")
  /\ dir' = [dir EXCEPT ![t].made = TRUE]
  /\ signalled' = [signalled EXCEPT ![t] = Nobody]
  /\ UNCHANGED <<tool, script, requeued, parser, results, gather>>

\* case_name, cflags_used
WriteNames(t) ==
  /\ Goes(t, "made", "named")
  /\ dir' = [dir EXCEPT ![t].named = TRUE]
  /\ UNCHANGED <<tool, script, requeued, signalled, parser, results, gather>>

\* The program may be stopped by the time limit: the task goes on all the same.
RunWithoutTool(t) ==
  /\ Goes(t, "named", "bare")
  /\ \E ranks \in BareRuns(tool) :
       /\ dir' = [dir EXCEPT ![t].bare = @ \cup ranks]
       /\ signalled' = [signalled EXCEPT ![t].bare = ranks]
  /\ UNCHANGED <<tool, script, requeued, parser, results, gather>>

RunWithTool(t) ==
  /\ Goes(t, "bare", "ran")
  /\ \E run \in ToolRuns(tool) :
       /\ dir' = [dir EXCEPT ![t].files = @ \cup run.files, ![t].log = LogAfter(tool, @, run.log)]
       /\ signalled' = [signalled EXCEPT ![t].files = run.files]
  /\ UNCHANGED <<tool, script, requeued, parser, results, gather>>

\* The last command, rm testcase.c, decides that the task has succeeded.
CleanUp(t) ==
  /\ Goes(t, "ran", "done")
  /\ UNCHANGED <<tool, script, requeued, dir, signalled, parser, results, gather>>

\* The batch system: the limit of the job, a node that fails.
Kill(t) ==
  /\ task[t] \in {"waiting"} \cup Running
  /\ Cardinality({u \in Tasks : task[u] = "failed"}) < MaxKilled
  /\ Goes(t, task[t], "failed")
  /\ UNCHANGED <<tool, script, requeued, dir, signalled, parser, results, gather>>

Requeue(t) ==
  /\ task[t] \in Running /\ t \notin requeued /\ Cardinality(requeued) < MaxRequeued
  /\ Goes(t, task[t], "waiting")
  /\ requeued' = requeued \cup {t}
  /\ UNCHANGED <<tool, script, dir, signalled, parser, results, gather>>
-----------------------------------------------------------------------------
(***************************************************************************)
(* Parser.py on the directory of a job: it ends without a file when a case *)
(* has no name.                                                            *)
(***************************************************************************)
Made(j) == {c \in Cases : dir[<<j, c>>].made}

\* Mutant: a case whose output could not be read is left out.
ReadableOnly(j) ==
  [c \in {x \in Made(j) : ErrorFound(tool, dir[<<j, x>>].log) # -1} |-> Row(tool, c \in Erroneous, dir[<<j, c>>])]

Table(j) == [c \in Made(j) |-> Row(tool, c \in Erroneous, dir[<<j, c>>])]
Parse(j) ==
  IF \A c \in Made(j) : dir[<<j, c>>].named
  THEN results' = [results EXCEPT ![j] = [written |-> TRUE, rows |-> Table(j)]]
  ELSE UNCHANGED results

\* Mutant: submitted without the dependency.
AtOnce(j) ==
  /\ parser[j] = "pending" /\ Made(j) # {}
  /\ Parse(j)
  /\ parser' = [parser EXCEPT ![j] = "done"]
  /\ UNCHANGED <<tool, script, tasks, gather>>

\* --dependency afterok: all tasks of the array job have succeeded.
ParsingJob(j) ==
  /\ parser[j] = "pending" /\ Succeeded(j)
  /\ Parse(j)
  /\ parser' = [parser EXCEPT ![j] = "done"]
  /\ UNCHANGED <<tool, script, tasks, gather>>

\* What the user waits for: nothing runs, and what is pending never will.
AllJobsOver ==
  /\ script.kind \in {"finished", "aborted"}
  /\ \A j \in Jobs : \/ \A c \in Cases : task[<<j, c>>] = "not submitted"
                     \/ Over(j) /\ (parser[j] = "pending" => ~Succeeded(j))

\* gather_results.sh runs Parser.py on every directory once more.
ParseAgain(j) ==
  /\ AllJobsOver /\ gather.at = "idle" /\ Made(j) # {}
  /\ Parse(j)
  /\ UNCHANGED <<tool, script, tasks, parser, gather>>
-----------------------------------------------------------------------------
(***************************************************************************)
(* gather_results.py: os.scandir yields the directories in any order.      *)
(***************************************************************************)
StartGathering ==
  /\ AllJobsOver /\ gather.at = "idle"
  /\ gather' = [gather EXCEPT !.at = "running", !.left = {j \in Jobs : Made(j) # {}}]
  /\ UNCHANGED <<tool, script, tasks, parser, results>>

\* The table that is empty is replaced, so the first one decides on the cases.
Gatherable(j) == results[j].written /\ DOMAIN gather.table \subseteq DOMAIN results[j].rows
Added(j) == IF gather.table = <<>> THEN results[j].rows
            ELSE [c \in DOMAIN gather.table |-> AddRows(gather.table[c], results[j].rows[c])]

AddDirectory(j) ==
  /\ gather.at = "running" /\ j \in gather.left /\ Gatherable(j)
  /\ gather' = [gather EXCEPT !.left = @ \ {j}, !.table = Added(j)]
  /\ UNCHANGED <<tool, script, tasks, parser, results>>

\* FileNotFoundError or KeyError
GatheringFails(j) ==
  /\ gather.at = "running" /\ j \in gather.left /\ ~Gatherable(j)
  /\ gather' = [gather EXCEPT !.at = "failed"]
  /\ UNCHANGED <<tool, script, tasks, parser, results>>

WriteTable ==
  /\ gather.at = "running" /\ gather.left = {}
  /\ gather' = [gather EXCEPT !.at = "written"]
  /\ UNCHANGED <<tool, script, tasks, parser, results>>

Finished == gather.at \in {"failed", "written"} /\ UNCHANGED vars
-----------------------------------------------------------------------------
TaskStep(t) ==
  \/ MakeDirectory(t) \/ WriteNames(t) \/ RunWithoutTool(t) \/ RunWithTool(t)
  \/ CleanUp(t) \/ Kill(t) \/ Requeue(t)

Next ==
  \/ SubmitArray \/ ArrayRefused \/ SubmitParser \/ ParserRefused
  \/ \E t \in Tasks : TaskStep(t)
  \/ \E j \in Jobs : ParsingJob(j) \/ ParseAgain(j) \/ AddDirectory(j) \/ GatheringFails(j)
  \/ StartGathering \/ WriteTable
  \/ Finished

Spec == Init /\ [][Next]_vars
-----------------------------------------------------------------------------
Dirs == [made : BOOLEAN, named : BOOLEAN, bare : SUBSET Nat, files : SUBSET Nat, log : Logs]
Rows == [score : [Columns -> Nat], error_present : Nat, error_present_without_tool : Nat]
IsTable(table) == \E S \in SUBSET Cases : table \in [S -> Rows]

TypeOK ==
  /\ tool \in Tools
  /\ script \in [job : Jobs \cup {0}, kind : {"array", "parser", "finished", "aborted"}]
  /\ task \in [Tasks -> Places] /\ requeued \subseteq Tasks
  /\ dir \in [Tasks -> Dirs]
  /\ signalled \in [Tasks -> [bare : SUBSET Nat, files : SUBSET Nat]]
  /\ parser \in [Jobs -> {"none", "pending", "done"}]
  /\ \A j \in Jobs : results[j].written \in BOOLEAN /\ IsTable(results[j].rows)
  /\ gather.at \in {"idle", "running", "failed", "written"} /\ gather.left \subseteq Jobs
  /\ IsTable(gather.table)

(* What Parser.py has read is what is there in the end: no task that still runs *)
(* changes a directory after its rows were written, so no row is stale.         *)
ResultsAreFinal == \A j \in Jobs : results[j].written => Over(j) /\ results[j].rows = Table(j)

(* A parsing job does not end in an exception and finds a row for every case.   *)
ParsingJobIsComplete ==
  \A j \in Jobs : parser[j] = "done" => results[j].written /\ DOMAIN results[j].rows = Cases

(* When a task was started once, its row says that the error was absent, in the *)
(* run with or in the one without the tool, only if both ranks have said so in  *)
(* that very run.                                                               *)
AbsentOnlyIfSignalled ==
  \A j \in Jobs : \A c \in DOMAIN results[j].rows :
    <<j, c>> \notin requeued =>
      /\ results[j].rows[c].error_present = 0 => ParserRanks \subseteq signalled[<<j, c>>].files
      /\ results[j].rows[c].error_present_without_tool = 0 => ParserRanks \subseteq signalled[<<j, c>>].bare

Directories == {j \in Jobs : Made(j) # {}}

(* A table that is written counts every run of its cases once, whatever the     *)
(* order of the directories was.                                                *)
TableIsSum ==
  gather.at = "written" =>
    \A c \in DOMAIN gather.table :
      /\ \A col \in Columns :
           gather.table[c].score[col] = SumFunction([j \in Directories |-> results[j].rows[c].score[col]])
      /\ gather.table[c].error_present = SumFunction([j \in Directories |-> results[j].rows[c].error_present])
      /\ gather.table[c].error_present_without_tool =
           SumFunction([j \in Directories |-> results[j].rows[c].error_present_without_tool])

Failure == \/ \E t \in Tasks : task[t] = "failed"
           \/ \E j \in Directories : parser[j] = "none"

(* Gathering ends in an exception, or leaves a case out of the table, only when *)
(* a task was killed or a job had no parsing job.                               *)
GatheringFailsOnlyAfterFailure ==
  gather.at = "failed" \/ (gather.at = "written" /\ DOMAIN gather.table \notin {{}, Cases}) => Failure

Answers(c) == {ErrorFound(tool, dir[<<j, c>>].log) : j \in Directories}

(* From the logs to the published verdict: in a table that is written the       *)
(* assertions of reduce_data hold, and each case is left in the one column of   *)
(* the strongest of the answers that are in the directories, so none of them    *)
(* falls between the tests of the columns or is lost on the way.                *)
VerdictIsStrongest ==
  gather.at = "written" =>
    \A c \in DOMAIN gather.table :
      LET s == gather.table[c].score
      IN Reducible(s) /\ Reduced(s) = One(Verdict(c \in Erroneous, Answers(c)))
=============================================================================
