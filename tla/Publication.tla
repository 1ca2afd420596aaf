----------------------------- MODULE Publication -----------------------------
(***************************************************************************)
(* The way into output/ that does not go through the batch system:         *)
(* tool_runner_CI.sh runs one tool on one category, case after case, and   *)
(* Parser.py on the directories this makes; add_missing_data.py merges the *)
(* files of the categories into one table per tool, enters the cases that  *)
(* are missing, and asserts that every case is there.                      *)
(*   workflow  visualize.yml: each job has a machine of its own, a job that *)
(*             fails takes those of its tool along, and add_missing_data.py *)
(*             runs once, after all jobs, beside all results: the artifacts *)
(*             are unpacked one directory below the one it looks in        *)
(*   by hand   somebody runs the scripts in one experiment directory, one  *)
(*             category after the other, puts the files into output/ and   *)
(*             calls add_missing_data.py when he likes                     *)
(***************************************************************************)
EXTENDS ResultTable, Sequences, FiniteSets

CONSTANTS
  Tools,
  GivenCategory,  \* the tools whose jobs in visualize.yml name a category
  Categories,     \* the matrix of visualize.yml
  Merged,         \* categories in analyze_helper.py
  CasesOf,        \* per category, its cases in the order of find
  Erroneous,      \* the cases without "correct/" in the name of the file
  Measured,       \* the cases in the table of an earlier measurement
  MaxCalls,       \* bound on the calls of add_missing_data.py by hand
  RunsOf(_)       \* what an execution with a tool may leave: its files and its log

Cases == UNION {{CasesOf[c][i] : i \in 1..Len(CasesOf[c])} : c \in Categories}

Logs == [readable : BOOLEAN, says : SUBSET STRING]
Runs == [files : SUBSET Nat, log : Logs]

ASSUME PublicationAssumption ==
  /\ GivenCategory \subseteq Tools /\ Merged \subseteq Categories
  /\ Erroneous \subseteq Cases /\ Measured \subseteq Cases /\ IsFiniteSet(Cases) /\ MaxCalls \in Nat
  /\ \A c \in Categories : CasesOf[c] \in Seq(Cases)
  /\ \A c, d \in Categories : \A i \in 1..Len(CasesOf[c]), j \in 1..Len(CasesOf[d]) :
       CasesOf[c][i] = CasesOf[d][j] => c = d /\ i = j
  /\ \A tool \in Tools : RunsOf(tool) \subseteq Runs

Jobs == Tools \X Categories
Here == "here"                  \* the one experiment directory of scripts run by hand
Places == Categories \cup {Here}

VARIABLES
  mode,     \* "workflow" or "by hand"
  job,      \* per job: how far its script has got, and how many cases it has executed
  dirs,     \* per tool and place: the directories 0, 1, ... of the experiment
  results,  \* per job: results_<category>_<tool>.json in the experiment
  output,   \* per job: output/results_<category>_<tool>.json, a copy of it put there by hand
  unpacked, \* per job: output/results_<tool>/results_<category>_<tool>.json, a copy of it
            \* that the workflow has downloaded
  table,    \* per tool: results_<tool>.json in output/
  script,   \* add_missing_data.py: where it is, its data, how often it was called
  ran,      \* per job: what its executions have left; not known to the scripts
  fresh,    \* the jobs that began in an empty directory; not known to the scripts
  late      \* the jobs whose file came after a call had read output/; likewise

ghosts == <<ran, fresh, late>>
vars == <<mode, job, dirs, results, output, unpacked, table, script, ghosts>>

NoFile == [there |-> FALSE, rows |-> <<>>]
File(rows) == [there |-> TRUE, rows |-> rows]
NoLog == [readable |-> FALSE, says |-> {}]
NoDir == [case |-> "none", files |-> {}, bare |-> {}, log |-> NoLog]

\* The keys of a table: the case_id with the category behind it, the case_id of a
\* measurement, the file name of a case that was missing.
CategoryKey(c, i) == <<"category", c, i>>
MeasuredKey(case) == <<"measured", case>>
MissingKey(case) == <<"missing", case>>

Entry(case, row) == [case |-> case, row |-> row]
MissingEntry(case) ==
  Entry(case, [score |-> One("ERR"), error_present |-> 1, error_present_without_tool |-> 1])

\* A case whose error was found, or a correct one in which none was.
MeasuredTable ==
  [k \in {MeasuredKey(case) : case \in Measured} |->
     Entry(k[2], [score |-> One(IF k[2] \in Erroneous THEN "TP" ELSE "TN"),
                  error_present |-> 1, error_present_without_tool |-> 1])]

Init ==
  /\ mode \in {"workflow", "by hand"}
  /\ job = [j \in Jobs |-> [at |-> "queued", done |-> 0]]
  /\ dirs = [p \in Tools \X Places |-> <<>>]
  /\ results = [j \in Jobs |-> NoFile]
  /\ output = [j \in Jobs |-> NoFile]
  /\ unpacked = [j \in Jobs |-> NoFile]
  /\ table \in [Tools -> IF mode = "workflow" THEN {NoFile} ELSE {NoFile, File(MeasuredTable)}]
  /\ script = [at |-> "idle", data |-> <<>>, calls |-> 0]
  /\ ran = [j \in Jobs |-> <<>>] /\ fresh = {} /\ late = {}
-----------------------------------------------------------------------------
(***************************************************************************)
(* tool_runner_CI.sh                                                       *)
(***************************************************************************)
Place(j) == <<j[1], IF mode = "workflow" THEN j[2] ELSE Here>>
Goes(j, from, to) == job[j].at = from /\ job' = [job EXCEPT ![j].at = to]
Busy(tool) == \E c \in Categories : job[<<tool, c>>].at = "running"
Named(j) == mode = "by hand" \/ j[1] \in GivenCategory

Start(j) ==
  /\ Named(j) /\ (mode = "by hand" => ~Busy(j[1]))
  /\ Goes(j, "queued", "running")
  /\ fresh' = IF dirs[Place(j)] = <<>> THEN fresh \cup {j} ELSE fresh
  /\ UNCHANGED <<mode, dirs, results, output, unpacked, table, script, ran, late>>

\* "No known error category given": the script exits, and the job succeeds.
NoCategory(j) ==
  /\ ~Named(j)
  /\ Goes(j, "queued", "over")
  /\ UNCHANGED <<mode, dirs, results, output, unpacked, table, script, ghosts>>

\* mkdir fails when the directory is there: the script goes on, the files stay.
Prepared(ds, i) == IF i <= Len(ds) THEN ds[i] ELSE NoDir

ExecuteTool(j) ==
  LET i == job[j].done + 1
      ds == dirs[Place(j)]
      old == Prepared(ds, i)
  IN /\ job[j].at = "running" /\ i <= Len(CasesOf[j[2]])
     /\ \E run \in RunsOf(j[1]) :
          LET new == [case |-> CasesOf[j[2]][i], files |-> old.files \cup run.files,
                      bare |-> {}, log |-> LogAfter(j[1], old.log, run.log)]
          IN /\ dirs' = [dirs EXCEPT ![Place(j)] = IF i <= Len(ds) THEN [ds EXCEPT ![i] = new]
                                                                     ELSE Append(ds, new)]
             /\ ran' = [ran EXCEPT ![j] = Append(@, run)]
     /\ job' = [job EXCEPT ![j].done = i]
     /\ UNCHANGED <<mode, results, output, unpacked, table, script, fresh, late>>

\* Parser.py on all directories: the one without_tool is never there.
Parsed(tool, ds) == [i \in 1..Len(ds) |-> Entry(ds[i].case, Row(tool, ds[i].case \in Erroneous, ds[i]))]

Parse(j) ==
  /\ job[j].done = Len(CasesOf[j[2]])
  /\ Goes(j, "running", "over")
  /\ results' = [results EXCEPT ![j] = File(Parsed(j[1], dirs[Place(j)]))]
  /\ UNCHANGED <<mode, dirs, output, unpacked, table, script, ghosts>>

\* A tool cannot be installed, a machine is lost; fail-fast cancels the other
\* jobs of the matrix.
JobFails(j) ==
  /\ mode = "workflow" /\ job[j].at \in {"queued", "running"}
  /\ job' = [k \in Jobs |-> IF k[1] = j[1] /\ job[k].at # "over" THEN [job[k] EXCEPT !.at = "failed"]
                                                                 ELSE job[k]]
  /\ UNCHANGED <<mode, dirs, results, output, unpacked, table, script, ghosts>>
-----------------------------------------------------------------------------
(***************************************************************************)
(* The files reach output/ one by one, by hand.  In the workflow all that   *)
(* were uploaded are downloaded when all jobs have succeeded: as no artifact *)
(* is named, each of them, results_<tool>, goes to a directory of its name.  *)
(***************************************************************************)
\* Mutant: it waits until there is a file of every job.
NeedsFiles ==
  /\ mode = "workflow" /\ script.at = "idle"
  /\ \A j \in Jobs : job[j].at = "over" /\ results[j].there
  /\ unpacked' = results
  /\ script' = [script EXCEPT !.at = "called"]
  /\ UNCHANGED <<mode, job, dirs, results, output, table, ghosts>>

GenerateVisualization ==
  /\ mode = "workflow" /\ script.at = "idle"
  /\ \A j \in Jobs : job[j].at = "over"
  /\ unpacked' = results
  /\ script' = [script EXCEPT !.at = "called"]
  /\ UNCHANGED <<mode, job, dirs, results, output, table, ghosts>>

Copy(j) ==
  /\ mode = "by hand" /\ results[j].there /\ ~output[j].there
  /\ output' = [output EXCEPT ![j] = results[j]]
  /\ late' = IF script.calls > 0 THEN late \cup {j} ELSE late
  /\ UNCHANGED <<mode, job, dirs, results, unpacked, table, script, ran, fresh>>

Call ==
  /\ mode = "by hand" /\ script.at \in {"idle", "saved", "failed"} /\ script.calls < MaxCalls
  /\ script' = [script EXCEPT !.at = "called"]
  /\ UNCHANGED <<mode, job, dirs, results, output, unpacked, table, ghosts>>
-----------------------------------------------------------------------------
(***************************************************************************)
(* add_missing_data.py: what it reads of one tool is apart from what it    *)
(* reads of another, so that it may read all at once.                      *)
(***************************************************************************)
\* The table data with the rows entered, each at its key: a row that is there is replaced.
Entered(data, rows) ==
  [k \in DOMAIN data \cup DOMAIN rows |-> IF k \in DOMAIN rows THEN rows[k] ELSE data[k]]

\* Mutant: the key in a file of a category is taken as it is.
PlainKeys(tool) ==
  LET found == {c \in Merged : output[<<tool, c>>].there}
      Of(c) == output[<<tool, c>>].rows
  IN Entered(table[tool].rows,
             [k \in {<<"", i>> : i \in UNION {DOMAIN Of(c) : c \in found}} |->
                Of(CHOOSE c \in found : k[2] \in DOMAIN Of(c))[k[2]]])

\* Mutant: no file of a category is looked for when there is a table.
CategoriesInstead(tool) ==
  LET found == {c \in Merged : output[<<tool, c>>].there}
      Of(c) == output[<<tool, c>>].rows
  IN IF table[tool].there THEN table[tool].rows
     ELSE [k \in UNION {{CategoryKey(c, i) : i \in DOMAIN Of(c)} : c \in found} |-> Of(k[2])[k[3]]]

\* load_data_and_merge
LoadAndMerge(tool) ==
  LET found == {c \in Merged : output[<<tool, c>>].there}
      Of(c) == output[<<tool, c>>].rows
  IN Entered(table[tool].rows,
             [k \in UNION {{CategoryKey(c, i) : i \in DOMAIN Of(c)} : c \in found} |-> Of(k[2])[k[3]]])

Load ==
  /\ script.at = "called"
  /\ script' = [script EXCEPT !.at = "loaded", !.calls = @ + 1,
                              !.data = [tool \in Tools |-> LoadAndMerge(tool)]]
  /\ UNCHANGED <<mode, job, dirs, results, output, unpacked, table, ghosts>>

HasCase(data, case) == \E k \in DOMAIN data : data[k].case = case

\* Mutant: it is asked for the key instead of the case.
CompletedByKey(data) ==
  Entered(data, [k \in {MissingKey(case) : case \in {c \in Cases : MissingKey(c) \notin DOMAIN data}} |->
                   MissingEntry(k[2])])

\* add_missing_data: nothing is added to a table that has as many rows as there are cases.
Completed(data) ==
  IF Cardinality(DOMAIN data) = Cardinality(Cases) THEN data
  ELSE Entered(data, [k \in {MissingKey(case) : case \in {c \in Cases : ~HasCase(data, c)}} |->
                        MissingEntry(k[2])])

\* assert (len(testcases) == len(data[tool]))
Complete(data) == Cardinality(DOMAIN data) = Cardinality(Cases)

AddMissing ==
  LET data == [tool \in Tools |-> Completed(script.data[tool])]
  IN /\ script.at = "loaded"
     /\ script' = [script EXCEPT !.data = data,
                     !.at = IF \A tool \in Tools : Complete(data[tool]) THEN "added" ELSE "failed"]
     /\ UNCHANGED <<mode, job, dirs, results, output, unpacked, table, ghosts>>

SaveData ==
  /\ script.at = "added"
  /\ table' = [tool \in Tools |-> File(script.data[tool])]
  /\ script' = [script EXCEPT !.at = "saved", !.data = <<>>]
  /\ UNCHANGED <<mode, job, dirs, results, output, unpacked, ghosts>>
-----------------------------------------------------------------------------
Next ==
  \/ \E j \in Jobs : Start(j) \/ NoCategory(j) \/ ExecuteTool(j) \/ Parse(j) \/ JobFails(j) \/ Copy(j)
  \/ GenerateVisualization \/ Call
  \/ Load \/ AddMissing \/ SaveData

\* The workflow ends, and the user stops when he likes: there is no step then.
\* GitHub executes every job, and a time limit ends every execution of a tool.
Spec == Init /\ [][Next]_vars /\ WF_vars(mode = "workflow" /\ Next)
-----------------------------------------------------------------------------
Keys == {CategoryKey(c, i) : c \in Categories, i \in 1..Cardinality(Cases)}
        \cup {MeasuredKey(case) : case \in Cases} \cup {MissingKey(case) : case \in Cases}
IsEntry(e) == e.case \in Cases /\ e.row.score \in {One(col) : col \in Columns}
              /\ {e.row.error_present, e.row.error_present_without_tool} \subseteq {0, 1}
IsTable(rows) == DOMAIN rows \subseteq Keys /\ \A k \in DOMAIN rows : IsEntry(rows[k])

TypeOK ==
  /\ mode \in {"workflow", "by hand"}
  /\ job \in [Jobs -> [at : {"queued", "running", "over", "failed"}, done : 0..Cardinality(Cases)]]
  /\ \A p \in Tools \X Places : \A i \in 1..Len(dirs[p]) : dirs[p][i].case \in Cases
  /\ \A j \in Jobs : \A file \in {results[j], output[j], unpacked[j]} :
       file.there \in BOOLEAN /\ \A i \in 1..Len(file.rows) : IsEntry(file.rows[i])
  /\ \A tool \in Tools : table[tool].there \in BOOLEAN /\ IsTable(table[tool].rows)
  /\ script.at \in {"idle", "called", "loaded", "added", "saved", "failed"} /\ script.calls \in 0..(MaxCalls + 1)
  /\ \A tool \in DOMAIN script.data : IsTable(script.data[tool])
  /\ fresh \subseteq Jobs /\ late \subseteq Jobs

(* A file of results that the runner writes in an empty directory has one row *)
(* per case of its category, with the verdict and the signals of the execution *)
(* of that very case; the error is never said to be absent without the tool,   *)
(* which is not tried.  In a directory that was used before, the cases are     *)
(* still there, and the verdicts of tools whose output is redirected are right.*)
RowsAreOfTheirRuns ==
  \A j \in Jobs : results[j].there =>
    /\ j \in fresh => Len(results[j].rows) = Len(CasesOf[j[2]])
    /\ \A i \in 1..Len(CasesOf[j[2]]) :
         LET case == CasesOf[j[2]][i]
             row == results[j].rows[i].row
         IN /\ results[j].rows[i].case = case
            /\ j \in fresh => (row.error_present = 0 <=> ParserRanks \subseteq ran[j][i].files)
            /\ j \in fresh \/ j[1] # "MUST" =>
                 row.score = One(Column(case \in Erroneous, ErrorFound(j[1], ran[j][i].log)))
            /\ row.error_present_without_tool = 1

Entries(tool, case) == Cardinality({k \in DOMAIN table[tool].rows : table[tool].rows[k].case = case})
EachOnce(tool) == \A case \in Cases : Entries(tool, case) = 1

\* Results of one case from two sources, or of more directories than it has cases.
MixedUp(tool) ==
  \/ \E case \in Measured : MeasuredKey(case) \in DOMAIN table[tool].rows
  \/ \E j \in late : j[1] = tool /\ j[2] \in Merged
  \/ \E j \in Jobs \ fresh : j[1] = tool /\ output[j].there

(* "assert (len(testcases) == len(data[tool]))": in the workflow it holds and  *)
(* each case then has one row.  It fails, or holds although a case has two     *)
(* rows and another one none, only where results that came after a call, an    *)
(* earlier measurement or a used directory were mixed in.                      *)
PublishedOncePerCase ==
  /\ script.at = "failed" => \E tool \in Tools : MixedUp(tool)
  /\ script.at = "saved" => \A tool \in Tools : EachOnce(tool) \/ MixedUp(tool)
  /\ mode = "workflow" => \A tool \in Tools : ~MixedUp(tool)

(* A case is entered as one on which the tool crashed only if its category is  *)
(* not among those that are merged, or its results were not in output/ when the *)
(* table was completed; and each such case is, unless something was mixed up.   *)
MissingIffNotFound ==
  \A tool \in Tools, c \in Categories : \A i \in 1..Len(CasesOf[c]) :
    LET missing == MissingKey(CasesOf[c][i]) \in DOMAIN table[tool].rows
        found == c \in Merged /\ output[<<tool, c>>].there
    IN /\ missing => ~found \/ <<tool, c>> \in late
       /\ script.at = "saved" /\ ~MixedUp(tool) /\ ~found => missing

(* "need to add missing data": what the workflow enters as a crash is missing,  *)
(* there are no results of its category to merge.  (It does not hold: the       *)
(* results are there, in a directory in which load_data_and_merge does not look.) *)
OnlyMissingAdded ==
  mode = "workflow" /\ script.at = "saved" =>
    \A tool \in Tools, c \in Merged : \A i \in 1..Len(CasesOf[c]) :
      MissingKey(CasesOf[c][i]) \in DOMAIN table[tool].rows => ~unpacked[<<tool, c>>].there

(* Every execution of the workflow completes the tables, unless one of its jobs *)
(* fails: the jobs that exit without results do not keep it waiting.            *)
WorkflowEnds == <>(mode = "workflow" => script.at = "saved" \/ \E j \in Jobs : job[j].at = "failed")
=============================================================================
