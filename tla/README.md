# Verification of MPI-CorrBench

MPI-CorrBench measures correctness tools for MPI. It is a corpus of small
programs, each either erroneous in one documented way or the corrected twin of
such a program, and a harness that runs a tool over the corpus and decides from
what is left behind whether the tool was right. Where the error of a program
depends on the schedule, the program itself judges, at run time, whether the
error occurred. What is hard to test here, and modelled: that oracle
(`nondeterminism.h`), the programs and what they are labelled as, and the scripts that
turn what an execution leaves behind into a score.

Paths below are relative to `src/`.

## Inventory

### Run-time oracle (`micro-benches/0-level/openmp/nondeterminism.h`)
* State, per rank: `flag`, `overlap_count`, `before_a/after_a/before_b/after_b`;
  on disk, one file `error_not_present<rank>` per rank.
* Operations: `CHECK_OVERLAP_BEGIN/END` around calls that must not overlap;
  `ENTER/EXIT_CALL_A/B` around two calls that must be ordered;
  `CHECK_FOR_EXPECTED_ORDER`; `fill_message_buffer` and
  `has_buffer_expected_content`; `has_error_manifested(bool)`, which leaves the
  file when told `false` and does nothing when told `true`.
* Interaction: called by every program of the OpenMP suite, from several
  threads; the files are read by `scripts/Parser.py` after the job.
* Hard: the macros are several atomic steps; ranks signal one by one, and may be
  killed by `MPI_Abort`, by the time limit, or block for ever.
* Correct when: an overlap (or wrong order) is neither missed nor invented; a job
  is recorded as free of the error only if it was.

### The OpenMP suite (`micro-benches/0-level/openmp`)
* 105 files in `data_race`, `ordering`, `ordering/dependant`, `threading` and
  `memory`, each directory with a `correct` one.
* State: shared and private buffers, requests, handles, locks; the messages and
  collective calls in flight; the thread level provided.
* Operations: the OpenMP constructs and the MPI calls of the program.
* Hard: everything. Two ranks times two threads, messages, nonblocking calls.
* Correct when: an erroneous program can commit the misuse it is labelled with
  and no other; a `correct` one commits none, reports none, and ends; a program's
  report agrees with what happened.

### Result parser (`scripts/Parser.py`, `scripts/*/parse-output.py`)
* State: a JSON table `tool -> case -> [TP,TN,FP,FN,TW,FW,ERR,manifested,...]`.
* Operations: for each case directory, read the signal files of the run with and
  without tool, the exit code and flags, call the tool's own parser, classify.
* Correct when: a missing signal is never taken for "no error"; exactly one
  class is counted; a table has a row for every case and no row is stale.

### Measurement pipeline (`run_measurement.sh`, `job_script_generator.sh`, `parsing_job.sh`, `tool_runner_CI.sh`, `*/execute_tool.sh`)
* State: directories per tool, case and job; batch jobs and their dependences.
* Hard: a failing submission, requeued array tasks, directories used twice, the
  time limit (`timeout -k 120 120`).

### Gathering and scoring (`gather_results.py`, `visualization/analyze_helper.py`, `add_missing_data.py`)
* State: the sum of the tables of all runs. Operations: add, reduce a case to
  one verdict, fill in cases that were not run.

### Level-0 programs without threads (`0-level/coll`, `pt2pt`, `rma`, `usertypes`, `conflo`)
* 311 programs of two processes with one wrong argument, mismatch, misplaced or
  missing call each. Those of `conflo` look at `argc`: run with an argument
  they are meant to be correct.
* State: buffers, datatypes, windows, requests; messages and collectives in flight.
* Hard: what MPI leaves to the library (buffering, early return from collectives,
  the numbers behind its constants) decides whether some of them are wrong.
* Correct when: a program misuses MPI in every interleaving and on every library,
  in the way its name says; with an argument, never.

### Adopted correct programs (`0-level/correct`)
* Tests of MPICH for collectives, point-to-point messages, one-sided
  communication and datatypes, with helpers in `include/mpitest.h` that run
  through communicators and windows. A tool that reports an error in one of them is
  scored as wrong.
* State: as above, and communicators, epochs of every kind, accesses in flight.
* Four of `rma` are algorithms: a shared counter over one-sided accesses, as a flat
  array and as a tree (`fetchandadd`, `fetchandadd_tree`, and `_am` of each).
* Hard: a later version of the standard or a stricter reading makes old tests wrong;
  what a rank may do while one-sided accesses are only half complete.
* Correct when: no execution misuses MPI, and every one ends with nothing left over;
  the counters give every call the number of calls before it.

### Continuous integration (`scripts/tool_runner_CI.sh`, `.github/workflows/visualize.yml`, `visualization/add_missing_data.py`)
* State: directories and a result file per tool and category, artifacts, the tables
  in `output`.
* Operations: run one tool over one category, parse, upload; merge the categories,
  add an entry for every case that has none, assert that all are there, save.
* Hard: jobs that fail, runs without a category, scripts called again by hand with
  results of different origin.
* Correct when: a row describes the execution of that case; every case is published
  once; a case counts as crashed exactly if it has no result that the script finds.
  Those of the workflow it does not find: see the disagreements.

### Not programs of interest here
* `2-level`: patches for external mini applications whose source is elsewhere.
* Plot, inspection and performance scripts.

`PROJECT.json` lists all of these under `components`, with what is modelled of
each, and under `hazards` every hazard, at its line. Three hazards have no property:
programs that share one request (too many states for a run), the rows of runs with other
flags (not modelled), and the files that a requeued task finds, of which nothing that
holds can be said.

## Modules

| module | models |
|---|---|
| `OverlapMonitor` | abstract: an observer that sees who is inside a bracket and remembers whether two met |
| `OverlapOracle` | the `CHECK_OVERLAP` macros, one action per atomic step, any team |
| `OverlapOracle_proofs` | its theorems |
| `OrderMonitor` | abstract: an observer of calls A and B that knows only whether B began before A ended |
| `OrderOracle` | the `ENTER/EXIT` macros, `has_error_manifested`, the time limit and the parser |
| `OrderOracle_proofs` | its theorems |
| `ParserRules` | pure rules of `Parser.py` (signal files) |
| `ResultTable` | pure rules from the output of a tool to a row, the sum of rows, and `reduce_data` |
| `ResultTable_proofs` | its theorems, and lemmas about sums over a finite set |
| `Measurement` | one measurement: `run_measurement.sh`, the script of every task, the batch system, the parsing jobs, gathering |
| `Measurement_proofs` | its theorems |
| `MCMeasurement` | the executions of a tool that TLC tries |
| `Publication` | the runner and the workflow of continuous integration, `add_missing_data.py`, and the same scripts called by hand |
| `Publication_proofs` | its theorems |
| `MCPublication` | its cases and executions for TLC |
| `OmpMpiOps` | the instructions a case of the suite is written in |
| `HybridMPI` | the machine: 2 ranks of 2 threads, OpenMP, MPI, oracle; executes the cases of a constant |
| `HybridMPI_proofs` | its theorems, for any cases: types, the overlap macros as an observer, what code keeps apart, what is reported |
| `DataRaceCases`, `OrderingCases`, `ThreadingCases`, `MemoryCases` | the programs, one definition each |
| `MCOpenMP` | the groups of programs that TLC runs, and what their code rules out (`CasesAssumption`) |
| `PlainOps` | the instructions the programs without threads are written in: C memory, datatypes, MPI calls |
| `PlainMpi` | the machine: two ranks, what MPI accepts, messages, collectives, windows; stops at the first misuse |
| `PlainMpi_proofs` | its theorems: types, and what is left behind, for any programs |
| `CollCases`, `Pt2ptCases`, `TypeCases`, `RmaCases` | the programs of `coll`, `pt2pt`, `usertypes`, `rma`, one definition each |
| `ConfloCollCases`, `ConfloPt2ptCases`, `ConfloTypeCases`, `ConfloRmaCases` | those of `conflo` |
| `MtestOps` | the helpers of `correct/include/mpitest.h` and more MPI calls |
| `CorrectCollCases`, `CorrectPt2ptCases` | the programs of `correct/coll` and `correct/pt2pt` |
| `CorrectRmaCases`, `CorrectLockCases`, `CorrectStridedCases` | those of `correct/rma`: with fences and posted epochs; with locks and flushes; with derived types and several windows |
| `MCPlain` | the table of all these programs, and what is claimed of them |
| `TicketCounter` | abstract: a counter that gives every call the number of calls before it |
| `CounterSetup` | which elements of the window each client of `fetchandadd` and `fetchandadd_tree` adds to and reads |
| `FetchAndAdd` | both counters: epochs, single accesses, sums, the final test |
| `FetchAndAdd_proofs` | any two clients meet in exactly one element, at any depth of the tree, and both counters implement `TicketCounter` |
| `MCFetchAndAdd` | its constants for TLC |

Composition: `HybridMPI` EXTENDS `OmpMpiOps` and `ParserRules`; `MCOpenMP` EXTENDS
`HybridMPI` and the case modules and defines groups of programs, functions from
names to cases; a `.cfg` gives the constant `Program` one of them as its value.
One run executes a whole group: the program is chosen initially. `OverlapOracle` and `OrderOracle` are
the oracle alone, for any number of threads or ranks; `HybridMPI` embeds the same
macros (`Capture`, `Count`, `End`, `TakeFlag`) in the programs that use them.
`ResultTable` EXTENDS `ParserRules`, `Measurement` EXTENDS `ResultTable`, and the
proof modules follow the same chain, and so does `Publication`. `PlainMpi` and the
eight modules of erroneous programs EXTEND `PlainOps`, a module of `conflo` also the
one of the directory it varies, the modules of correct programs EXTEND `MtestOps`, and
`MCPlain` puts them together. `HybridMPI_proofs` and `PlainMpi_proofs` extend the machines
alone, without the programs: what they prove holds of any table of programs that satisfies
the machine's `ProgramAssumption`. `FetchAndAdd` EXTENDS `CounterSetup` and has an instance
of `TicketCounter`. `Measurement` does not contain `HybridMPI`: what
an execution may leave behind (signal files, a log) is its constant `ToolRuns`.

A definition whose comment begins with "Mutant:" is not a model of the code. It
is a plausible wrong variant of the definition that follows it, kept to
demonstrate that a property notices the difference; nothing uses it otherwise.

### From code to `HybridMPI`

A case is a record: the thread level asked for, whether `main` gives up when less
is provided (and says so first), its label, the memory as main has prepared it,
and for each rank and thread the instructions it executes. Translation:

* Local computation, printing and `DISTURB_THREAD_ORDER` (a sleep; any schedule
  is possible without it) are left out. `USE_DISTURBED_THREAD_ORDER` is not
  defined in the variants modelled; it only changes sleeps and, in a few
  corrected twins, turns a report into `true`.
* A buffer has one cell per thread. `fill_message_buffer` stores a pattern id;
  the pattern bytes that are compared as ints (6 is 0, 7 is -1) are those ints.
  A variable nobody has stored into holds `Uninit`, and a condition that reads it
  may come out either way.
* An MPI call is entered (`Enter`) and left (`Leave...`) in separate steps. What
  it posts is queued; `Deliver`, `GoAhead` and `Combine` are the library.
  A standard send may be buffered (`BufferSend`) or wait for its receive; the
  library reads its data at any moment before that. Messages between two ranks
  match in order of posting.
* `MPI_Probe` returns the status of a message that stays in the queue;
  `MPI_Mprobe` takes it out.
* An `omp single`, `sections` or group of tasks is a work instruction with items;
  any thread may take any item that is ready. A barrier is a meeting of the team.
* `omp critical` and `omp_set_lock` are one lock per rank: no case uses two.
* Handles (communicators, datatypes, info objects) are cells that are 1 while
  valid.
* `seen` collects the misuses that have really happened. It is the reference the
  labels and reports are compared with and is no variable of the code:
  `level` (more threads in MPI than the provided level allows), `overlap` (two
  collectives of a rank at once), `mismatch` (the ranks' n-th collectives
  differ), `race` (conflicting access while MPI has the memory), `handle` (freed
  or never created), `finalize` (from the wrong thread, while another is in MPI,
  or a call after it), `request` (a wait for a request that is completed already),
  `uninit` (uninitialized data sent), `truncated`, `stolen` (a receive gets
  another message than the one probed for it). Misuse does not stop the program,
  as it need not in the code.
* `has_error_manifested(false)` after `MPI_Finalize` calls `MPI_Comm_rank`
  first, which need not work: the file may or may not appear.
* A thread that gives up because of the thread level may, by `MPI_Abort`, take
  the other rank down before it has signalled (`KilledByAbort`).

`ProgramAssumption` is what the machine takes for granted of a case: a
`CHECK_OVERLAP_END` comes after a `CHECK_OVERLAP_BEGIN` that no other end has closed, and
every begin has its end; the two atomic steps of a begin follow each other; a critical
section is closed in the code that opens it and contains no barrier or construct; the order
macros store into the four variables they have; no worksharing construct is in an
item of another, no item contains a barrier (`IsProgram`). The threads that OpenMP adds
begin with the fork and end with the join, `main` reports after their last meeting, and a
rank uses the overlap macros or the order macros (`IsTeam`). TLC evaluates it on every case
of the runs, and `CasesAssumption` of `MCOpenMP` on those the runs leave out.

What the code of a case rules out is said by constant operators on it. `MeetsBefore` counts
the forks, barriers and joins before an instruction: two instructions of different
threads may be executed at the same time only where it is equal (`Concurrent`). `Apart` says
of a set of operations that where they may be concurrent they are under the lock, or
in one construct in one item or in tasks of which one depends on the other. On it rest
`SafelyLabelled` (no misuse of threads but those of the label), `OverlapWatched` (the
macros are around whatever collectives are not kept apart, and `main` asks the
counter) and `QuietByDesign` (a correct case whose macros are kept apart). TLC evaluates
the first two on every case, without executing it. Exactly two fail, both corrected twins
that are not correct: `correct/two_collectives_4` (collectives in independent tasks) and
`correct/request_reuse` (a report after `MPI_Finalize`). The third holds of all corrected
cases of `threading` and of those of `ordering` but `probe` and `two_collectives_7`, whose
report compares data; in the suite as it is they have dropped the macros.

`RuledOut` are the misuses, other than those of threads, that the text of a case excludes,
and a case `RulesOutMisuse` when they are all but those of its label. Threads that may be
at two places at once (`Leaves`, by the same count of meetings) touch no common memory there
unless they hold the lock or are in turn, and no call leaves the library touching it
(`TouchesApart`); no handle is freed or used; nothing is awaited; no message is probed;
a receive has room for every message (`RoomForAll`); collective calls
are all alike (`CollectivesAgree`); all memory that is sent is stored into beforehand
(`AllStored`). `CasesAssumption` has TLC count the cases of which this holds.

OpenMP and MPI are not in the repository: the definitions that model them are
marked external in `PROJECT.json` and follow from how the programs use them.

### From code to `PlainMpi`

A program is a record: the category in its file name, the instructions of each
rank when it is run without argument (`plain`), and those when it is run with one
(`given`). The definition has the name of the file without the dashes, with
`Conflo` in front for that directory and `User` for the five of `usertypes` whose
names also occur in `pt2pt`; for `correct` it is the name of the file. Translation:

* Local computation and printing are left out; what `main` does to memory that MPI may
  still use (`Store`, `Free`) and its assertion are instructions. Leaving the block
  of a buffer frees it.
* A buffer is a variable and an address in it: a set of blocks of one C type each.
  A call's data must lie in it with the C types of its datatype (`Holds`); sizes
  are those of a 64-bit machine. A datatype is its type map, its extent and whether it
  is committed.
* A handle, pointer or status argument is NULL or not. `MPI_Test` says whether
  its pointers are; its outcome is not modelled, since every program waits afterwards.
* `Post` is the call of a send, receive or collective, `Leave` the return from a
  blocking one, `Request` an `MPI_Wait` or `MPI_Request_free`. The oldest send
  and receive that fit each other are matched (`Pair`, `Deliver`). A send is
  complete when it is received or the library has buffered it; a collective when the
  other rank has come, or earlier where the rank does not depend on the other. Which
  of the two the library does is chosen when the call is posted.
* A window has, per rank, the number of its fences and whether one is in force, the
  locks the rank holds, the ranks it has started to access and those it is posted to.
  A fence opens an epoch only if accesses of the rank follow before its next fence, and
  a fence that ends an epoch is a barrier; `MPI_Win_start` waits for the matching post
  and `MPI_Win_wait` for the completes; a lock blocks its rank until nobody holds
  one it excludes. That is the strictest thing a library may do.
* An access may act at the target at any moment from its call (between fences: from
  the moment the target has come to that fence) to the end of its epoch or a flush of its
  target; its origin is free again after a local flush too.
* Communicators are the ordered sets of their ranks; a handle that a rank has not got
  is one it may not use. `MTestGetIntracommGeneral`, `MTestGetIntercomm` and
  `MTestGetWin` are unrolled: the communicators and windows they make on two ranks, in
  their order, with the calls they make to agree on it.
* Loops over sizes are unrolled for two sizes, those over repetitions twice.
* `seen` is the first misuse; the program ends there. A `race` is two
  accesses to the same window memory that may meet, of which one changes it and that
  are not accumulations of one operation (`RaceFree`); everything else that touches
  memory MPI still uses is `busy`. Its kinds are listed in the
  head of `PlainMpi`. A call that is wrong in several ways has several kinds.
* `Libraries`: -1 as a rank is `MPI_ANY_SOURCE` or `MPI_PROC_NULL`, `MPI_TAG_UB`
  (a key, used as a tag) is or is not a legal tag, NULL is or is not
  `MPI_STATUS_IGNORE`. Every erroneous program is run on all of them.

* `ProgramAssumption` is what the machine takes for granted of a program: each rank's
  instructions are a sequence, and a window that is created is freed further down in it
  (`FreesWindows`; no program of the suite leaves `MPI_Win_free` out). TLC evaluates it on
  every program of `MCPlain`. Everything else that a program may get wrong is a misuse that the
  machine detects.

### From code to `Measurement`

* `script` is the position of `run_measurement.sh` in its loops; flags and
  repetitions are one number, the job. `sbatch` answers (`Submit...`) or does not
  (`...Refused`).
* A task executes the script that `job_script_generator.sh` has put together,
  one action per part whose effects the parser sees: the directory, the two name
  files, the execution without the tool, the one with it, the last command, which
  decides whether the task counts as succeeded.
* `dir` is the disk: which files of a task exist and what its log says.
  `mkdir -p` keeps what is there. `signalled` is what the current execution
  itself has signalled; it is no variable of the code but what `dir` is compared
  with.
* A log is the set of the phrases that the output parsers search for. MUST
  reports into a file it replaces and ThreadSanitizer adds files; ITAC's output is
  redirected into a file that is truncated (`Replace`).
* `Kill` ends a task for good, `Requeue` starts it once more in the directory it
  has; both are the batch system's (external), at most `MaxKilled` and
  `MaxRequeued` of them.
* The parsing job starts when all tasks of its array job have succeeded
  (`afterok`). `Parse` is the whole of `Parser.py`: no file is written when a
  `case_name` is missing, because that raises an exception.
* `ParseAgain` is `gather_results.sh`, which the user starts when nothing runs any
  more. `gather_results.py` then visits the directories in any order; it ends in
  an exception when a file or a case is missing.
* Exit code, flags and the count of "correct" error messages are copied or unused
  and are not modelled.

### From code to `Publication`

* `mode` tells the workflow from scripts called by hand, in one directory that
  stays. `ExecuteTool` is one iteration of `tool_runner_CI.sh`: the directory of the
  case is made or found, with its old files, and the tool runs once; there is no run
  without the tool. `Parse` is `Parser.py` on all directories that are there.
* `NoCategory` is a job of the workflow that calls the script without a category:
  it prints a message and exits with 0, so that the job succeeds without a result.
* `JobFails` is a job that fails or is cancelled, with `fail-fast` for the other
  categories of its tool; `needs` makes the publishing job wait for all and not run then.
* `Load`, `AddMissing` and `SaveData` are `add_missing_data.py`: reading all files
  that are in `output`, under keys that contain the category (`Entered`), completing them
  unless the number of rows is that of the cases, the assertion, the file.
* `GenerateVisualization` downloads the artifacts. `visualize.yml:139-141` gives
  `download-artifact@v3` a path and no name, so that it makes a directory per artifact:
  `output/results_<tool>/results_<category>_<tool>.json` (`unpacked`). The script opens
  `output/results_<category>_<tool>.json` (`output`), where only somebody who calls it by
  hand puts files (`Copy`). Jobs of one tool share the artifact's name and with it the
  directory; their files have different names. The action is external.
* `ran`, `fresh` and `late` are what the results are compared with and no variables of
  the code: the executions that really happened, whether a directory was new, and
  whether results came after a call.

### From code to `CounterSetup` and `FetchAndAdd`

* A client is a rank but 0. `CounterSetup` executes the loop that computes
  `acc_idx` and `get_idx`, one level per step (`Descend`), for the tree, and the list of
  all other elements for the flat array. The shift `1 << level` is the
  constant `Pow`, of which only the doubling is assumed.
* `FetchAndAdd` is a call: the lock of rank 0 (`Lock`), the accumulate and the get,
  which MPI may split into single elements and execute in any order (`AddOne`,
  `Read`), the unlock that completes them, and afterwards, outside the epoch,
  the sum of what was read (`SumUp`). At the end rank 0 gathers and sorts all values and
  counts errors where a number is missing (`Check`).
* The variants `_am` allocate the window by `MPI_Alloc_mem`, which changes nothing here.

## Runs

| run | question |
|---|---|
| `overlap_oracle` | Do the overlap macros tell exactly whether two of three threads met, with two calls each? Implements `OverlapMonitor`. |
| `order_oracle` | Is a job of two ranks recorded as free of the error exactly when A preceded B, if a time limit may strike at any moment? Implements `OrderMonitor`; an entry is eventually made. |
| `corrected` | Do the 32 corrected twins that are correct commit no misuse, report none and end, in every interleaving? |
| `errors` | Do 53 erroneous OpenMP programs commit only what they are labelled with, and block only if written to? Is a run that blocks recorded as one with the error, whichever ranks reported before? Do the macros report every overlap and early free, and are reports made from data true? Are two threads ever both between the macros uncounted? |
| `finding_signal_files` | A run whose only answer is "not manifested" is recorded as manifested. |
| `finding_isend` | `correct/data_race_isend` still contains the data race. |
| `finding_deadlock_probe` | `correct/dependant/deadlock_probe` still deadlocks. |
| `finding_artifacts` | The workflow publishes a result that was delivered as a crash of the tool. |
| `level0` | The 311 erroneous programs without threads, with each `argc` they look at, on three libraries, and 156 correct ones: which misuse MPI in every interleaving, which in none, is the misuse of a kind its name stands for, and does a program without misuse end with no window, request or message left? |
| `measurement` | Two jobs of an erroneous and a correct case, with refusals, a kill and a requeue: is what the parser has written final and complete? Is absence recorded only from signals of both ranks in that execution? Is the gathered table the sum in every order of the directories, does gathering fail only after a failure, and does `reduce_data` leave each case the strongest verdict that is in the logs? |
| `publication` | Two tools and two categories, by the workflow and by hand: are the rows those of their executions, is every case published once unless results of several origins were mixed, does a case count as crashed exactly if the script did not find its results, and does the workflow end? |
| `fetch_and_add` | Three clients with two calls each of both counters, the accesses of an epoch in any order: do any two clients meet in exactly one element, do both implement `TicketCounter`, and does the test always end without an error? |

In `MCOpenMP`, `Watched` and `Truthful` are the programs whose report is claimed to
be right in one direction. They are not all programs, for reasons in the code:
a program that judges a data race by the received values cannot notice a race
that left the values as they were, so only the macros and the unconditional reports
are claimed to miss nothing; and the macros count two threads between them, which is
more than two threads inside the calls, so only reports made from data that could
not have arrived otherwise are claimed to accuse nobody wrongly.

In `MCPlain` the labels are claimed of every program but those in a few named sets,
and the two `<=>` of `ErrorIsProvoked` and `GoodCaseIsGood` claim the contrary of
those; the next section says why each is there.

`CHECK_DEADLOCK FALSE` is set where the deadlock TLC would report is another
property's subject: `overlap_oracle` and `order_oracle` (a job that is over has no
step left), `errors` (some of its programs are written to deadlock,
`BlocksOnlyIfLabelled` says which), `corrected` (`Completes`), `publication`
(the workflow ends, `WorkflowEnds`, and a user stops when he likes) and one finding.
It is on in `level0`: a rank that waits for ever makes `End` possible, which records
it as `stuck`; and in `measurement` and `fetch_and_add`, where only a state in which
everything is done may repeat itself.

The runs of `HybridMPI` use a `VIEW` that leaves out the part of `job` that never
changes for a given name and level, so that states are compared by fewer values;
no two different states have the same view.

### Disagreements between code and comments

Three of the `finding_*` runs execute one program each; `PROJECT.json` quotes the lines.
`finding_artifacts` runs the workflow: jobs deliver their results, the artifacts are
unpacked into directories of their own, `add_missing_data.py` finds no file, swallows
the exceptions of both `open` calls, and enters every case of every tool as a
crash. `OnlyMissingAdded` says that the workflow enters only cases whose results were
not delivered. `WorkflowPublishesCrashes` proves the extent: whatever the jobs find, every
row that the workflow publishes is one of these. What it was written for works
where the files are where it looks (`MissingIffNotFound`, `PublishedOncePerCase`).

The following programs were seen in the same way, by giving `Program` the single case, and
have no run of their own:

* `data_race/correct/data_race_isend_3.c:44` fills its buffer while a receive
  into it is posted; `ordering/correct/two_collectives_4.c` calls collectives from
  several tasks at once.
* `data_race/correct/data_race_bcast.c:53`, `data_race/correct/info_set.c:40`,
  `ordering/correct/two_collectives_7.c:52` and
  `memory/correct/private_bcast.c:34` report an error although they are correct.
* `data_race/data_race_send.c:48` compares what was received with what was not
  sent and reports a buffer that arrived uncorrupted.
* `threading/wrong_threading_level_3.c:57`, `threading/finalize_missuse_3.c:66`
  and `threading/finalize_missuse_4.c:57` report the error regardless of whether
  it occurred, or deny it when it did.
* `ordering/correct/request_reuse.c:49` calls `has_error_manifested` after
  `MPI_Finalize`.
* `ordering/send_recv_same_buffer.c:58` compares buffers after the fact and can
  deny a data race that happened (`SameBufferAlone`, property `MisuseIsReported`).
* `ordering/two_collectives_3.c` may block (the ranks' collectives need not match).
* `data_race_bcast` and `data_race_ibcast` are meant as data races, but the master
  broadcasts only the part it has filled itself: `errors` checks them
  against an empty label and confirms there is none. `deadlock_task_send_recv` does
  not block with two threads that execute different tasks.

Programs without threads that are not what they are labelled; the sets are those of
`MCPlain`:

* `Benign`, nothing is wrong: `ArgError-MPIRecv-Tag` and `-MPIIRecv-Tag` receive
  with tag -1, which is `MPI_ANY_TAG` in both families of libraries;
  `TypeCreateStruct-Count-3` makes a type of the first two members only; the windows of
  the two `WinCreate-overlap` touch but do not overlap (sizes in bytes, addresses in
  elements); the assertion of
  `WinFence-assert` is 0; the data of `usertypes/ArgMismatch-MPIRecv-Type-2`, `-3`
  and `-6` have the same types, since type matching ignores how they are laid out.
  `conflo/usertypes/ArgError-MPITypeCreateStruct-Count-1` is inverted: it makes the
  valid type when `argc` is 1.
* `BenignIf...`, nothing is wrong on some libraries: rank -1 in `MPI_Put` and
  `MPI_Get` where it is `MPI_PROC_NULL`, in `MPI_Recv` where it is
  `MPI_ANY_SOURCE`; `MPI_TAG_UB + 1` where that is a small number; the NULL status
  of `MPITest-Status` where it is `MPI_STATUS_IGNORE`.
* `Unsafe`: the order of calls blocks or not as the library likes.
* `StillWrong`, with an argument too. In `coll`: an int reduced as `MPI_C_BOOL`
  (`Reduce-Op-3`); a root that scatters two ints of one (`Scatter-Count-1`, `-2`). In
  `pt2pt`: a request never waited for (`IIRecv-Reqest`); a receive into the
  pointer itself (`Send-Type-3`); both ranks send to and receive from rank 0
  (`MisplacedCall-MPISend`). In `rma`: the origin buffer is freed before the fence
  (`Get-SizeNotMatching`, `Put-SizeNotMatching`, `Put-buffer`); the window is over the
  pointer (`Get-buffer`, `Get-rank`); the target count stays `N * N` (`Put-count`);
  three fences on one rank and two on the other (`WinFence-1`); a barrier on one rank
  only (`WinFence-2`). In `usertypes`: `MPI_LONG_INT` is the pair type and not a long
  (`Send-Type-1`); the type committed is not the one made (`Contiguous-` and
  `Vector-NewType`); displacements without padding (`Struct-Count-1`, `-2`); an
  assertion that always fails (`Displacements-1`, whose text says so); ints received
  into doubles (`Recv-Type-3`); a buffer that is too short (`TypeCommit-1`). And
  `Send-Tag-2` where the key `MPI_TAG_UB` is not a legal tag.
* `Mislabelled`: the misuse is of another kind than the name says, because an earlier
  call is wrong already (`TypeCommit-1`, `MissingCall-MPITypeCommit`: the buffer is too
  short; `MissingCall-MPIGatherDeadlock`: ints gathered as floats;
  `conflo/rma/MissingCall-MPIWinCreate`: a negative displacement unit), because the
  wrong argument is accepted and the disagreement or the wait comes later
  (`IIRecv-Type3a`, `Reduce-Count-3`, rank -1 where it is `MPI_PROC_NULL` or
  `MPI_ANY_SOURCE`, the tag of `IISend-Tag-2` where it is small), or because it is
  really an overwritten handle or memory that is gone (`WinCreate-OverwriteWin`,
  `conflo/usertypes/ArgMismatch-MPIRecv-Type-4`, `WinCreate-invalidBuffer-2`).
* `conflo/coll/ArgError-MPIAllgather-SendCount.c:19` has the comment "always provoke
  the error" at the branch that does not.

Programs of `correct` that are not, strictly; the set is `NotCorrect` of `MCPlain`, and
`seen` at their end says how:

* Arguments: `opmax`, `opmin`, `opsum` and `opprod` reduce `MPI_CHAR` arithmetically;
  `recv_any.c:54` and `:66` transfer ints as `MPI_CHAR`; `nonblocking.c:143` gives
  `MPI_Ialltoallw` displacements in elements instead of bytes.
* Handles: `alltoallv0.c:41` goes on to the next communicator without freeing this one;
  `rqfreeb.c:110` frees an active receive (unless `USE_STRICT_MPI` is defined).
* Buffers used twice: `dtype_send.c:83`, `inactivereq.c:89`, `patterns.c:84` and `:112`
  and `sendrecv3.c:60` start an operation on a buffer that another one has not done
  with; `pt2pt/ArgMismatch-MPIIrecv-buffer-overlap.c` labels exactly this an error.
  `manyget.c:46` gets many times into one buffer in one epoch.
* Memory gone too early: `accfence2` (79 before 81), `contig_displ` (86 before 87),
  `test2_am` (105 before 111), `test3` (108 before 114) and `test3_am` (109 before 115)
  free the memory of a window before the window; in `test2` and `wintest` it is local to
  a block that is left before; `winname` uses `MTestFreeWin`
  (`include/mpitest.h:1378`), which does the same.
  `rma/MisplacedCall-MPIWinFree-bufferFree` labels this an error. The origin buffer of
  `fetch_and_op.c:176` and `:211` leaves its block before the operation is complete.
* Epochs: the fence of `mixedsync.c:104` asserts nothing and the rank's accesses of the
  next iteration follow, under the lock of line 80: a lock within a fence epoch, as in
  `rma/MisplacedCall-MPIWinLock`.
* Races: `reqops.c:100` stores into the window while fetching operations of the other
  rank are only locally complete; at line 190 both ranks put to one location.

A tool that reports these is scored with a false positive. Legal, although it looks
otherwise: `win_info` frees a communicator before the window made from it, and `acc_loc`
locks after a fence with `MPI_MODE_NOSUCCEED`. `bsend2` to `bsend4` and `bsendalign`
size the attached buffer without `MPI_BSEND_OVERHEAD`, which the model does not count.
`MTestGetIntracommGeneral` ignores `allowSmaller` in its case 3. With
`EXCLUDE_PARCOACH_UNSUPPORTED_FUNCTIONS` the helper `MTest_Init` does not call
`MPI_Init` (`include/mpitest.h:228-233`); the model has it undefined, as it has
`USE_WIN_ALLOCATE` and `ABSOLUTE`.

Seen while reading the scripts and the workflow:

* The workflow runs PARCOACH and MPI-Checker without a category: the script exits with
  0 and there are no results. Every case of theirs would be published as a crash also
  if the script found the files of the others.
* `conflo` and `correct` are run and uploaded, but `analyze_helper.py` does not have
  them among its categories: their cases would be, too, wherever the files are.
* `scripts/run_measurement.sh:61` tests `JID`, the number of the array job, a second time
  and not `JID_PARSER`: a refused parsing job goes unnoticed (`ParserRefused`), and
  its directories are only parsed by `gather_results.sh`.
* `add_missing_data.py:67` asserts on the number of rows. Where results of several
  origins are mixed it fails, or holds although one case has two rows and another
  none: `PublishedOncePerCase` says exactly where.
* A directory that `tool_runner_CI.sh` is given twice keeps its signal files.
* The parser of MPI-Checker searches for the capitalised name of the checker in a text
  it has made lower-case, which never matches, and an empty output counts as "found
  nothing".

* `scripts/gather_results.sh:47-48` has the call of `gather_results.py`
  commented out, although `README.md` describes it as the step that fills
  `output`: the model lets the user start it.
* `scripts/MUST/parse-output.py:63` looks at the logs of ThreadSanitizer only when
  MUST itself found neither error nor warning: a data race is scored as a mere
  warning when MUST also warns.
* A requeued task keeps the signal files of its first execution, so that a row can
  say "absent" for a run in which no rank said so. `AbsentOnlyIfSignalled` is
  therefore stated for tasks that were started once.
* `gather_results.py:84-89`: the directory that is scanned first decides which
  cases the sum has.

### Bounds, and why they are enough

* Two ranks and two threads: `NUM_THREADS` is 2 in `nondeterminism.h`, and every
  program of the suite talks to `size - rank - 1`.
* One cell of a buffer per thread: threads touch their own part or all of it.
* `nondeterministic_deadlock`: four of its iterations, the fewest with which the
  two threads of both ranks can block for messages nobody is at.
* `OverlapOracle`: three threads and two calls each (`Calls`), so that a third
  thread comes and goes while two are inside, and the counters are used again.
* `Measurement`: two jobs, so that jobs overlap, sums have two terms and the
  order of directories matters; an erroneous and a correct case, so that a
  directory can lack one of them; one task killed and one requeued, which is
  enough for every way in which a directory is incomplete or used twice. Each
  tool has three possible executions (`ToolRunBound`), which reach every column
  between them; without the tool (`BareRunBound`) both ranks signal in a
  measurement of MUST and one rank in one of ITAC.
* Programs have no loops, so `HybridMPI` needs no other bound.
* `PlainMpi`: two ranks, as the scripts start every case; in the erroneous programs
  counts and the sizes of buffers are those of the code, but for `BIG`, which is 10 for a
  length of 100000. A valid tag is whatever value names it: the properties see which tags
  agree and which are out of range. The three libraries are what the properties can
  tell apart in MPICH and Open MPI; a send of any size may be buffered.
* The correct programs: loops over counts run for 1 and 2, repetitions twice
  (`Repeats`); a "large" message and the arrays of `rma` have two elements (`SIZE`, for
  100 to a million), a matrix has as many rows (`XDIM` columns, for 8 to 1024);
  `NELM` and `NBLOCK` are 2 for 200 and 10. What the properties see of a count is whether
  accesses overlap and fit, and two elements have a first, a last and a neighbour.
  These programs use the constants of `mpi.h` by name, so that one library is enough.
* `FetchAndAdd`: four ranks, so that the tree has two levels and three clients, two of
  which share their way to the last level; two calls each, so that a call meets earlier
  ones of its own client and of others.
* `Publication`: a tool that the workflow gives a category and one that it does not;
  a category that is merged, of two cases, and one that is not; a case that an earlier
  measurement has a row for; two calls by hand, the least after which results come late.
* Left out of the passing runs because one program alone has millions of states:
  `two_collectives_3/4/6/7/8`, `correct/two_collectives_6`, `request_reuse` and
  its twin, `data_race_isend_3`. Their definitions exist and can be run alone, and the
  theorems of `HybridMPI_proofs` hold of them: what their threads may do at the same
  time, and that the macros report it, does not rest on a run.
  `two_collectives_5` (555,000 states) was checked alone.

### Fairness

`HybridMPI`: `WF_vars(Next)`. A program is a finite sequence of steps per thread
and the library makes progress when it can; nothing is assumed about which
thread moves. `PlainMpi` needs none: it states no liveness, because that a rank waits
for ever is a step of its own (`End`). `FetchAndAdd`: `WF_vars(Next)`, the ranks go on
when they can and MPI makes progress; a lock that is free is granted to somebody.
`Publication`: weak fairness of the workflow's steps, because GitHub executes every job
and a time limit ends every execution; none of a user. `OrderOracle`: `WF` of
`TimeLimit` (`timeout -k 120 120` around the execution) and of `Parse` (run by the
scripts when the job is over). Nothing is assumed of the ranks: a call may block for
ever.

## Proofs

Checked by TLAPS for every value of the constants.

`OverlapOracle_proofs`, for any finite team and any number of calls, from
`ThreadsAssumption` and `CallsAssumption`:
* `TypeCorrect`: in particular `flag` is never decremented below zero.
* `FlagIsExact`: `flag` is the number of threads inside brackets.
* `NoneMissed`: two threads inside their calls have been counted.
* `ImplementsMonitor`: the macros implement `OverlapMonitor`.

The inductive invariant is `TypeOK /\ FlagCountsBracketed /\ PassedTest`.
`NoOverlapUncounted` is not inductive: when the second thread passes its test
something must say that what it captured was not zero. `PassedTest` does: of any
two threads inside brackets one has captured a value other than zero, and has
counted it if it is past the test. `FlagCountsBracketed` is what makes a captured
zero mean "nobody else is inside".

`OrderOracle_proofs`, for any set of ranks the parser knows
(`RanksAssumption`):
* `TypeCorrect`: the counters, the captured values and the files are what they are
  taken to be, whenever the job is killed.
* `AbsentMeansOrdered`: a job recorded as free of the error ran A before B on
  every rank that the parser looks at, whenever it was killed.
* `OrderedMeansAbsent`: a job that ran in order and was not killed is recorded as
  free (this one needs `ParserRanks \subseteq Ranks`).
* `ImplementsMonitor`: the macros implement `OrderMonitor`.

The inductive invariant relates the shared counter to the phases of the two
threads (`FlagCountsMacros`), says which values a thread can have captured if it
ran alone (`AloneInOrder`) and that B captured 2 only after A had returned
(`TwoMeansAfter`), and that files and table entry follow from the reports.

`ResultTable_proofs`, for any rows:
* `OneColumn`: an execution is scored in exactly one column, one of those for
  its kind of case.
* `StrongestRemains`: a score of one kind of case that is not all zero passes every
  assertion of `reduce_data` and becomes a single 1 in the column of the
  strongest answer. The proof follows the seven blocks in their order: for an
  erroneous case the blocks about correct ones find zeros, and vice versa.

It also holds the lemmas about sums that the next module needs. `SumFunction` of the
community modules is a fold, and folds recur over the subsets of a set. The
library's induction theorems take an operator as a parameter, which no prover
here can instantiate, so `SmallestSubset` derives what is needed from the well-foundedness of
the strict subset relation in first-order form: a set of subsets that is not empty
has a smallest member. Each lemma then assumes a smallest counterexample and refutes
it: the functions defined by the recursion exist (`SumsExist`) and agree
(`SumsAgree`), a sum of numbers is a number (`PartialSumType`), and whichever
element is taken out first, the rest adds up to the same (`SumWithout`), and a sum is
positive only by one of its terms (`SumIsPositive`). `SumWithout` is
why the table does not depend on the order of the directories.

`Measurement_proofs`, for any number of jobs, cases, kills and requeues, and
anything that an execution may leave (`MeasurementAssumption`):
* `Final`: what `Parser.py` has written agrees with the directories for good.
* `Complete`: a parsing job that has ended has written a row for every case.
* `Absent`: a row of a task that was started once says "absent" only if both
  ranks have signalled in that very execution.
* `Reduces`: the gathered table can always be reduced, to the column of the strongest
  answer that the output parser reads from any of the case's logs.
* `Sums`: that table is, case by case, the sum over all directories, each counted
  once, in whatever order they were listed.
* `FailureHasReason`: gathering ends in an exception, or leaves a case out, only when a
  task was killed or a job had no parsing job.
* `TypeCorrect`.

`ResultsAreFinal` is not inductive alone. The invariant `IInv` adds what ties
the script, the tasks and the disk together: tasks of jobs not yet submitted do not
exist and have no directory (`NotYet`; otherwise submitting a job could undo that
it is over), a task that has got somewhere has made its directory and its names
(`TaskOrder`; it makes the parsing job's exception impossible), signal files are
those of the only execution (`OwnSignals`), and a parsing job that is done has
found all tasks succeeded (`ParsedSucceeded`). `Reduces` adds `Gathered`: every
row of the growing sum has a positive column and none of the other kind of case. It then
goes back from the sum to the logs: a column of the sum is positive exactly when some answer
belongs there (`ColumnsOfAnswers`, from `SumIsPositive`), and the parsers give one of four
numbers (`VerdictIsNumber`), each with a column of its own, so none falls between the tests.
`Sums` and `FailureHasReason` need to know what the sum holds while it grows: `GInv`
says that it is the sum over the directories done so far, each of which has rows of all
its cases (`Counted`), and that without a failure nothing is missing and nothing was
raised (`Reasons`). Gathering begins when all jobs are over, and from then on no
step changes what a directory holds (`Settled`), so that no summand goes stale.

`Publication_proofs`, for any tools, categories and cases, any calls in any order
and anything that the executions may leave, from `PublicationAssumption` (the
cases are finitely many, and each is in one category):
* `RightRows`: a file of results has the verdict and the signals of the executions of
  its own cases.
* `OncePerCase`: the assertion of `add_missing_data.py` holds and each case has one row,
  for every tool of which nothing was mixed up; in the workflow nothing ever is.
* `MissingIsMissing`: a case is entered as a crash of the tool only if the script found no
  results of its category or they came later, and, when the table is saved and nothing
  was mixed up, it is if it found none.
* `WorkflowPublishesCrashes`: every table that the workflow saves has exactly the row of a
  crash for each case, whatever was delivered. The download fills directories in which
  the script does not look, and nothing else puts a file where it does (`Orderly`).
* `TypeCorrect`.

The invariant has two halves. `RunnerInv`: no two jobs that run are in one directory
(`Alone`), a job of the workflow begins in an empty one (`OwnMachine`), and the
directories up to the last execution hold the files and the verdicts of the
job's own executions (`Executed`), or, where an earlier job has left its own, still
the cases and, for a tool whose output is redirected, the verdicts. `ScriptInv`: for a
tool of which nothing is mixed up the table is empty or has exactly one key
for each case, that of its file or the one for missing cases (`Full`). A row's key tells its case
(`Labelled`), so that the rows of such a table and the cases correspond one to one: that
is why the assertion holds (`FullTable`) and why it is no coincidence. Completing a table of
rows from files makes it full (`CompletedIsFull`), also where the number of rows is
already that of the cases and nothing is looked at. A call loses no row (`Kept`) and reads
every file that is there (`Delivered`); whatever comes after a call is late. TLC has checked
`IInv` on the instance of the run.

`HybridMPI_proofs`, for any table of cases (`ProgramAssumption`), any interleaving of
threads, tasks and messages, and any thread level the library provides:
* `TypeCorrect`: a thread is at a place of its code or of the item it has taken, `flag`
  never falls below zero, no other misuse is recorded than those the model knows.
* `NoOverlapMissed`: two threads of a rank are never both past the test of
  `CHECK_OVERLAP_BEGIN` and before `CHECK_OVERLAP_END` while `overlap_count` is zero.
* `MacrosObserve`: the macros of each rank implement `OverlapMonitor`.
* `FlagCountsThreads`: `flag` is the number of threads between the macros, in a case
  without order macros.
* `CallsKeptApart`: two threads are never at a collective call together where the code
  has them `Apart`.
* `ThreadMisuseIsLabelled`: a case that is `SafelyLabelled` commits no misuse of the
  thread level, of collectives or of `MPI_Finalize` but those of its label.
* `VerdictsOfTheCounter`: where `main` asks the counter, TRUE means that two threads met
  between the macros, and FALSE that none did and none will.
* `OverlapIsReported`: in a case that is `OverlapWatched` a run to the end in which two
  collectives overlapped has been reported.
* `QuietCasesAreSilent`: a case that is `QuietByDesign` satisfies `CorrectNeverReported`.
* `RuledOutNeverHappens`: no interleaving of a case commits a misuse that is `RuledOut`.
* `MisuseIsLabelled`: a case that `RulesOutMisuse` satisfies `OnlyTheLabelledMisuse`.

`OverlapOracle_proofs` shows the macros right for threads that do nothing else;
these theorems show that nothing a case does around and between them breaks
them: items and tasks taken in any order and holding brackets of their own, calls that block
inside a bracket, the order macros on the same `flag`, a rank that gives up.

The first invariant, `IInv`, is about each thread and the counters. It says where a
thread that goes on is: at `MPI_Init_thread`, at an instruction of its code or at one
of its item (`ThreadInv`). An open bracket is a thread and the depth, code or item, at which it is
between the macros (`Brackets`). `FlagCounts` is an inequality here: `flag` is at
least the number of open brackets, because the order macros increment `flag` and never
decrement it. `PassedTest`
is the invariant of `OverlapOracle_proofs` again: of two threads in brackets that nobody has
counted, one is about to count and has captured something other than zero. All steps
but the four of the macros open no bracket and make no thread forget that it is about to count
(`Quiet`), and `QuietKeeps` shows once that such steps preserve `IInv`.

The second, `Together`, is about what the threads of a rank know of each other, and is
inductive with `IInv`: they have the same number of meetings behind them (`TeamInv`, which is
what makes barriers exclude anything), nobody else is in the item of a thread and
what it depends on is done (`ItemInv`), the lock knows who holds it (`LockInv`), a thread
is in a call only at a call and stops only at the end of its code or for lack of a
level (`PlaceInv`), and MPI is finalized by a call of `main` that `main` is in or has left
behind (`FinalizeInv`). For it and all that follows a step of the machine is one of six kinds
(`Kinds`): nobody moves, a thread enters a call, executes an instruction or takes an item,
the team meets, a rank stops. `KeptApart` is the use of it all: two threads at operations
that the code has `Apart` would both hold the lock, or be in one item, or one in a task
that waits for that of the other.

With `Together` `flag` is exactly the number of threads inside (`FlagExact`), so that a
`capture` of zero means nobody is; with `HaveMet` (something is counted, or about to be) for
the memory of the observer, `capture` is its `Enter`, `end` its `Leave`, and all else a stutter. That
`main` is alone at its report (`AloneAtReport`) makes the counter final when it is read
(`ReportInv`). `OverlapInv` follows a counted overlap to the report: `main` has not
reached it when the collectives overlap, because a thread that is added is still
there, and cannot get past it without the verdict.

The third, `InOrder`, is about what the threads leave with MPI and in memory. The pending
messages and collectives of a rank are lists of records, each of an instruction that is in its
code (`RecordsInv`: a receive after a probe is one with another tag and fewer cells), so that
what is true of all instructions, as their lengths, roots and types, is true of
whatever meets. What memory and messages hold has been stored (`StoredInv`). What a step does
to these is said once (`Proper`): records stay records when they are matched, buffered,
marked or dropped, and the step commits nothing that is ruled out; every action is shown to be
`Proper`, with `KeptApart`'s argument, now about cells and not operations, for races
(`TouchedApart`).

`PlainMpi_proofs`, for any table of programs and any libraries (`ProgramAssumption`):
* `TypeCorrect`: handles denote operations of their rank, a rank that is inside a blocking
  call is in the one it has posted last, no other misuse is recorded than those the model
  knows.
* `NothingLeftBehind`: a program that ends without a misuse and without a rank that
  waits has freed its windows, has no request left and has received every message it sent.

The machine refuses `MPI_Finalize` to a rank that has pending requests, but a message
belongs to two ranks, and a handle may be overwritten, or denote an operation that somebody else's
step completes. `IInv` says of each rank (`RankInv`) that its handles denote
pending operations, each its own (`GoodHandles`), that it is in the call posted
last when it is inside one (`InItsCall`), that no handle is left after `MPI_Finalize`
(`NoHandleLeft`), and that the windows it has will be freed by what is left of its code
(`WillFree`). A step of one rank may match or complete operations of the other but takes
none of this away (`QuietOps`). `Conserved` says that as many sends as receives have
been transferred: a message completes one of each, a send to nobody and a
cancelled call count as none, and a blocking call that nobody has answered has not completed.
`AllExecuted` says that at a clean end every rank has executed its code and called
`MPI_Finalize`; with the parts above, the end is clean.

`FetchAndAdd_proofs`, for any number of clients and calls and
a tree of any depth, from `SizesAssumption` and `CallsAssumption`:
* `AlwaysMeetOnce`: of the elements a client reads exactly one is among those that
  another client adds to, and none among its own.
* `TypeCorrect`: all indices stay in the window that rank 0 allocates.
* `IsCounter`: both programs implement `TicketCounter`.

`SetupInv` is about the tree. The indices below a node are one interval, and those of
the nodes on a client's path are nested (`Nested`). Of any two clients, at every level
both have reached, they are at the same node or in disjoint intervals (`SameOrApart`);
once apart they stay so, and they parted at one level (`StayApart`, `PartSomewhere`),
where the one reads the node that the other enters. `CountInv` adds `Balance`: what a client
would read now, and its own calls, sum up to the number of epochs so far (and one more
where the epoch under way has added to an element it reads). `Epochs` and `Fresh` say
that the accesses of an epoch, in any order, are those of the holder of the lock and
that what it has read is still so. The number of a call is fixed when its epoch ends,
before it is added up: that is the step of `TicketCounter`, and the others are stutters.

Only model-checked: of `OnlyTheLabelledMisuse`, `WatchedMisuseIsReported` and
`TruthfulReportsAreTrue` what the code of a case does not rule out by its text (the cases
with nonblocking calls, probes or handles, those whose collectives differ, memory that is
read before it is written, messages that arrive or do not, reports that compare buffers); what is claimed of the particular programs that
`PlainMpi` executes (each is a finite computation that
TLC does in full, and there is nothing to generalise over); liveness (`EventuallyRecorded`, `Completes`,
`EventuallyPasses`, `WorkflowEnds`) and deadlock (`ENABLED`: `DeadlockIsRecorded`,
`BlocksOnlyIfLabelled`), which are out of the prover's reach.

## Not modelled

* Of `correct`, what needs more than two ranks: the programs on intercommunicators
  (`ic*`; with two ranks their loop finds none that is large enough, which is modelled
  once, as `icbarrier`; and `bsend5`), `redscatinter`, `redscatbkinter`, `neighb_coll`,
  the third rank's part of `atomic_get`, and the bodies of the three `atomic_rmw`, which
  exit at once on two ranks. A third rank would multiply the states of all others.
* Of `correct`, what does not communicate: `op_commutative`, `reduce_local`, `wtime`,
  `simple`, `waittestnull`, `probenull`, `big_count_status`, `greq1`, and the `datatype`
  programs, which compare what datatype calls return with computed values.
* `aint` and `get_struct`, which use dynamic windows; operations on `MPI_PROC_NULL` in
  the first block of `reqops`; the buffer space of `MPI_Bsend`; info objects and window
  attributes.
* The helpers of `analyze_helper.py` other than `reduce_data`: they select and format.
  The flags in a table are copied and never compared.
* `2-level`: patches for mini applications whose source is elsewhere.
* Plots, inspection and the tables of run times: presentation, and sums of floats.

`PROJECT.json` lists these under `components`.

## Plan

Done, in this order: the oracle with its monitors and proofs; the OpenMP suite; the
measurement pipeline with its proofs; the level-0 programs without threads; continuous
integration and missing data; the shared counters of `correct/rma` with their proofs;
the other correct programs.

Then proofs of what the runs check: gathering, publication, the types of the order oracle, the
machine without threads and the one with threads for any programs; last, for the one with
threads, what code keeps apart, the macros as the observer, and what is reported.

What could come next: the programs with four tasks per rank
(`two_collectives_3` and its kin, `request_reuse`) with a reduction that makes them small
enough for a run; `PlainMpi` on three ranks for the programs on intercommunicators; theorems about the
request variables of `HybridMPI` (which wait completes which operation), with which
`RuledOut` could speak of nonblocking calls and of handles too, and about the order macros
inside it.
