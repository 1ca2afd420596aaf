-------------------------- MODULE Publication_proofs --------------------------
(***************************************************************************)
(* Proofs about the publication of results, for any tools, categories and  *)
(* cases, and any number of calls of add_missing_data.py.                  *)
(***************************************************************************)
EXTENDS Publication, ResultTable_proofs, SequenceTheorems, FunctionTheorems, TLAPS

NumCases(c) == Len(CasesOf[c])

\* What the runner and the parser write.
Directory == [case : Cases, files : SUBSET Nat, bare : {{}}, log : Logs]
RowType == [score : {One(col) : col \in Columns},
            error_present : {0, 1}, error_present_without_tool : {0, 1}]
EntryType == [case : Cases, row : RowType]
FileType == [there : BOOLEAN, rows : Seq(EntryType)]

RunnerTypes ==
  /\ mode \in {"workflow", "by hand"}
  /\ job \in [Jobs -> [at : {"queued", "running", "over", "failed"}, done : Nat]]
  /\ dirs \in [Tools \X Places -> Seq(Directory)]
  /\ ran \in [Jobs -> Seq(Runs)]
  /\ results \in [Jobs -> FileType] /\ output \in [Jobs -> FileType]
  /\ unpacked \in [Jobs -> FileType]
  /\ fresh \subseteq Jobs /\ late \subseteq Jobs

\* There are no more directories, and no more rows, than cases.
Bounded ==
  /\ \A j \in Jobs : job[j].done <= NumCases(j[2]) /\ Len(results[j].rows) <= Cardinality(Cases)
  /\ \A p \in Tools \X Places : Len(dirs[p]) <= Cardinality(Cases)

\* A job begins with nothing, and leaves its file when it is over; what is in output/
\* is a copy of it, which the workflow does not put there.
Orderly(j) ==
  /\ Len(ran[j]) = job[j].done
  /\ job[j].at = "queued" => job[j].done = 0 /\ j \notin fresh
  /\ results[j].there => job[j].at = "over" /\ NumCases(j[2]) <= Len(results[j].rows)
  /\ ~results[j].there => results[j] = NoFile
  /\ output[j] \in {NoFile, results[j]} /\ (mode = "workflow" => output[j] = NoFile)

\* In the workflow each job has a directory of its own.
OwnMachine(j) ==
  mode = "workflow" =>
    /\ job[j].at = "queued" => dirs[Place(j)] = <<>>
    /\ job[j].at = "running" \/ results[j].there => j \in fresh

\* No two jobs that run are in one directory.
Alone ==
  \A j, k \in Jobs :
    job[j].at = "running" /\ job[k].at = "running" /\ Place(j) = Place(k) => j = k

\* What a job that runs has made so far.
Executed(j) ==
  /\ job[j].done <= Len(dirs[Place(j)])
  /\ j \in fresh => Len(dirs[Place(j)]) = job[j].done
  /\ \A i \in 1..job[j].done :
       LET d == dirs[Place(j)][i]
       IN /\ d.case = CasesOf[j[2]][i]
          /\ j \in fresh => d.files = ran[j][i].files
          /\ j \in fresh \/ j[1] # "MUST" => ErrorFound(j[1], d.log) = ErrorFound(j[1], ran[j][i].log)

\* What RowsAreOfTheirRuns says of the file of one job.
RowsRight(j) ==
  /\ j \in fresh => Len(results[j].rows) = NumCases(j[2])
  /\ \A i \in 1..NumCases(j[2]) :
       LET row == results[j].rows[i].row
       IN /\ results[j].rows[i].case = CasesOf[j[2]][i]
          /\ j \in fresh => (row.error_present = 0 <=> ParserRanks \subseteq ran[j][i].files)
          /\ j \in fresh \/ j[1] # "MUST" =>
               row.score = One(Column(CasesOf[j[2]][i] \in Erroneous, ErrorFound(j[1], ran[j][i].log)))
          /\ row.error_present_without_tool = 1

JobInv(j) ==
  /\ Orderly(j) /\ OwnMachine(j)
  /\ job[j].at = "running" => Executed(j)
  /\ results[j].there => RowsRight(j)

RunnerInv == RunnerTypes /\ Bounded /\ Alone /\ \A j \in Jobs : JobInv(j)
-----------------------------------------------------------------------------
(***************************************************************************)
(* add_missing_data.py                                                     *)
(***************************************************************************)
Found(tool) == {c \in Merged : output[<<tool, c>>].there}

\* The rows that the files of the categories lead to, and those for all other cases.
FileKeys(tool) == UNION {{CategoryKey(c, i) : i \in 1..NumCases(c)} : c \in Found(tool)}
FoundCases(tool) == UNION {{CasesOf[c][i] : i \in 1..NumCases(c)} : c \in Found(tool)}
OtherKeys(tool) == {MissingKey(case) : case \in Cases \ FoundCases(tool)}
Full(tool, data) == DOMAIN data = FileKeys(tool) \cup OtherKeys(tool)

\* The keys of a row tell its case.
Labelled(data) ==
  /\ \A c \in Categories : \A i \in 1..NumCases(c) :
       CategoryKey(c, i) \in DOMAIN data => data[CategoryKey(c, i)].case = CasesOf[c][i]
  /\ \A case \in Cases : MissingKey(case) \in DOMAIN data => data[MissingKey(case)].case = case

ScriptTypes ==
  /\ script = [at |-> script.at, data |-> script.data, calls |-> script.calls]
  /\ script.at \in {"idle", "called", "loaded", "added", "saved", "failed"}
  /\ script.calls \in 0..(MaxCalls + 1)
  /\ script.at = "called" => script.calls <= MaxCalls
  /\ script.data = <<>> \/ DOMAIN script.data = Tools
  /\ script.at \in {"loaded", "added"} => DOMAIN script.data = Tools
  /\ \A tool \in DOMAIN script.data : IsTable(script.data[tool]) /\ Labelled(script.data[tool])
  /\ DOMAIN table = Tools
  /\ \A tool \in Tools : /\ table[tool].there \in BOOLEAN
                         /\ IsTable(table[tool].rows) /\ Labelled(table[tool].rows)

\* Before the first call there is at most the table of a measurement.
FirstCall ==
  /\ script.calls = 0 =>
       /\ script.at \in {"idle", "called"} /\ late = {}
       /\ \A tool \in Tools : \A k \in DOMAIN table[tool].rows :
            \E case \in Measured : k = MeasuredKey(case)
  /\ script.calls > 0 => script.at # "idle"

\* A call loses no row of the table that it has read, and invents none of a measurement.
Kept(tool) ==
  script.at \in {"loaded", "added"} =>
    /\ DOMAIN table[tool].rows \subseteq DOMAIN script.data[tool]
    /\ \A case \in Cases : MeasuredKey(case) \in DOMAIN script.data[tool] =>
                             MeasuredKey(case) \in DOMAIN table[tool].rows

\* It reads all files that are there.
Delivered(tool) ==
  script.at \in {"loaded", "added"} =>
    \A c \in Found(tool) : <<tool, c>> \notin late =>
      \A i \in 1..NumCases(c) : CategoryKey(c, i) \in DOMAIN script.data[tool]

NotMissing(tool, data) ==
  \A c \in Found(tool) : <<tool, c>> \notin late =>
    \A i \in 1..NumCases(c) : MissingKey(CasesOf[c][i]) \notin DOMAIN data

Unmixed(tool) ==
  /\ DOMAIN table[tool].rows = {} \/ (script.calls > 0 /\ Full(tool, table[tool].rows))
  /\ script.at = "loaded" =>
       DOMAIN script.data[tool] = FileKeys(tool) \/ Full(tool, script.data[tool])
  /\ script.at = "added" => Full(tool, script.data[tool])
  /\ script.at = "saved" => Full(tool, table[tool].rows)

ToolInv(tool) ==
  /\ Kept(tool) /\ Delivered(tool) /\ NotMissing(tool, table[tool].rows)
  /\ script.at \in {"loaded", "added"} => NotMissing(tool, script.data[tool])
  /\ ~MixedUp(tool) => Unmixed(tool)

ScriptInv ==
  /\ ScriptTypes /\ FirstCall
  /\ \A tool \in Tools : ToolInv(tool)
  /\ script.at = "failed" => \E tool \in Tools : MixedUp(tool)
  /\ mode = "workflow" => late = {} /\ \A tool \in Tools : ~MixedUp(tool)

IInv == RunnerInv /\ ScriptInv
-----------------------------------------------------------------------------
(***************************************************************************)
(* The operators                                                           *)
(***************************************************************************)
(* A log in an empty directory is that of the one execution that wrote it.   *)
LEMMA FirstLog ==
  ASSUME NEW tool, NEW log \in Logs
  PROVE  ErrorFound(tool, LogAfter(tool, NoLog, log)) = ErrorFound(tool, log)
<1>1. CASE tool # "MUST"
  BY <1>1 DEF LogAfter
<1>2. CASE tool = "MUST"
  <2>1. log.readable \in BOOLEAN /\ NoLog.readable = FALSE /\ NoLog.says = {}
    BY DEF Logs, NoLog
  <2> DEFINE after == LogAfter(tool, NoLog, log)
  <2>2. after.readable = log.readable
    BY <1>2, <2>1 DEF LogAfter
  <2>3. log.readable => after.says = log.says
    BY <1>2, <2>1 DEF LogAfter
  <2>4. MustErrorFound(after) = MustErrorFound(log)
    <3> HIDE DEF after
    <3> QED  BY <2>1, <2>2, <2>3 DEF MustErrorFound
  <2> QED  BY <1>2, <2>4 DEF ErrorFound
<1> QED  BY <1>1, <1>2

(* A log stays a log.                                                        *)
LEMMA LogType ==
  ASSUME NEW tool, NEW old \in Logs, NEW log \in Logs
  PROVE  LogAfter(tool, old, log) \in Logs
BY DEF LogAfter, Logs

(* Every parser gives a number.                                              *)
LEMMA FoundIsNumber ==
  ASSUME NEW tool, NEW log \in Logs
  PROVE  ErrorFound(tool, log) \in Int
<1>1. log.readable \in BOOLEAN
  BY DEF Logs
<1>2. MustErrorFound(log) \in Int
  <2>1. log.says \cap {"Error", "Warning"} \in {{}, {"Warning"}} \/ "Error" \in log.says
    OBVIOUS
  <2> QED  BY <1>1, <2>1 DEF MustErrorFound
<1>3. ItacErrorFound(log) \in Int
  <2>1. log.says \cap {"ERROR:", "WARNING:"} \in {{}, {"WARNING:"}} \/ "ERROR:" \in log.says
    OBVIOUS
  <2> QED  BY <1>1, <2>1 DEF ItacErrorFound
<1>4. ParcoachErrorFound(log) \in Int /\ MpiCheckerErrorFound(log) \in Int
  BY <1>1 DEF ParcoachErrorFound, MpiCheckerErrorFound
<1> QED  BY <1>2, <1>3, <1>4 DEF ErrorFound

(* The row of one directory: one column, and the signals of the run with the *)
(* tool; the run without the tool, which there is not, seems to show the error. *)
LEMMA RowOfDirectory ==
  ASSUME NEW tool, NEW erroneous \in BOOLEAN, NEW d \in Directory
  PROVE  /\ Row(tool, erroneous, d) \in RowType
         /\ Row(tool, erroneous, d).score = One(Column(erroneous, ErrorFound(tool, d.log)))
         /\ Row(tool, erroneous, d).error_present = 0 <=> ParserRanks \subseteq d.files
         /\ Row(tool, erroneous, d).error_present_without_tool = 1
<1>1. d.log \in Logs /\ d.bare = {}
  BY DEF Directory
<1>2. Column(erroneous, ErrorFound(tool, d.log)) \in Columns
  BY <1>1, FoundIsNumber, OneColumn
<1>3. 0 \in ParserRanks
  BY DEF ParserRanks, NUM_MPI_RANKS
<1>4. CheckIfErrorManifested(d.bare) = 1
  BY <1>1, <1>3 DEF CheckIfErrorManifested
<1>5. CheckIfErrorManifested(d.files) \in {0, 1}
  BY DEF CheckIfErrorManifested
<1>6. CheckIfErrorManifested(d.files) = 0 <=> ParserRanks \subseteq d.files
  BY DEF CheckIfErrorManifested
<1> QED  BY <1>2, <1>4, <1>5, <1>6 DEF Row, RowType

(* A category has no more cases than there are: no two of its places hold the *)
(* same case.                                                                *)
LEMMA CasesOfCategory ==
  ASSUME NEW c \in Categories
  PROVE  /\ NumCases(c) \in Nat /\ NumCases(c) <= Cardinality(Cases) /\ Cardinality(Cases) \in Nat
         /\ \A i \in 1..NumCases(c) : CasesOf[c][i] \in Cases
<1>1. CasesOf[c] \in Seq(Cases) /\ IsFiniteSet(Cases)
  BY PublicationAssumption
<1>2. NumCases(c) \in Nat /\ CasesOf[c] \in [1..NumCases(c) -> Cases]
  BY <1>1, LenProperties DEF NumCases
<1>3. \A i, k \in 1..NumCases(c) : CasesOf[c][i] = CasesOf[c][k] => i = k
  BY PublicationAssumption DEF NumCases
<1>4. CasesOf[c] \in Injection(1..NumCases(c), Cases)
  BY <1>2, <1>3, Fun_IsInj
<1>5. Cardinality(1..NumCases(c)) <= Cardinality(Cases)
  BY ONLY <1>1, <1>4, FS_Injection
<1>6. Cardinality(1..NumCases(c)) = NumCases(c)
  BY <1>2, FS_Interval
<1> QED  BY <1>1, <1>2, <1>5, <1>6, FS_CardinalityType

(* The keys of different rows differ.                                        *)
LEMMA DistinctKeys ==
  /\ \A c, i, d, k : CategoryKey(c, i) = CategoryKey(d, k) => c = d /\ i = k
  /\ \A x, y : MissingKey(x) = MissingKey(y) => x = y
  /\ \A c, i, x : CategoryKey(c, i) # MissingKey(x) /\ CategoryKey(c, i) # MeasuredKey(x)
  /\ \A x, y : MissingKey(x) # MeasuredKey(y)
BY DEF CategoryKey, MissingKey, MeasuredKey

(* A table that has a row of each case in the files, and one for each other  *)
(* case, has as many rows as there are cases and each case once.             *)
LEMMA FullTable ==
  ASSUME NEW tool, NEW data, Full(tool, data), Labelled(data)
  PROVE  /\ Complete(data)
         /\ \A case \in Cases : Cardinality({k \in DOMAIN data : data[k].case = case}) = 1
<1> DEFINE CaseAt == [k \in DOMAIN data |-> data[k].case]
<1>0. Found(tool) \subseteq Categories
  BY PublicationAssumption DEF Found
<1>1. \A k \in FileKeys(tool) : \E c \in Found(tool) : \E i \in 1..NumCases(c) :
        k = CategoryKey(c, i) /\ data[k].case = CasesOf[c][i] /\ CasesOf[c][i] \in FoundCases(tool)
  BY <1>0 DEF Full, FileKeys, FoundCases, Labelled
<1>2. \A k \in OtherKeys(tool) :
        data[k].case \in Cases \ FoundCases(tool) /\ k = MissingKey(data[k].case)
  BY DEF Full, OtherKeys, Labelled
<1>3. \A c, d \in Found(tool) : \A i \in 1..NumCases(c), k \in 1..NumCases(d) :
        CasesOf[c][i] = CasesOf[d][k] => c = d /\ i = k
  BY <1>0, PublicationAssumption DEF NumCases
<1>4. \A k, l \in DOMAIN data : data[k].case = data[l].case => k = l
  <2> SUFFICES ASSUME NEW k \in DOMAIN data, NEW l \in DOMAIN data, data[k].case = data[l].case
               PROVE  k = l
    OBVIOUS
  <2>1. {k, l} \subseteq FileKeys(tool) \cup OtherKeys(tool)
    BY DEF Full
  <2>2. CASE k \in FileKeys(tool) /\ l \in FileKeys(tool)
    BY <2>2, <1>1, <1>3
  <2>3. CASE k \in OtherKeys(tool) /\ l \in OtherKeys(tool)
    BY <2>3, <1>2
  <2>4. CASE k \in FileKeys(tool) /\ l \in OtherKeys(tool)
    BY <2>4, <1>1, <1>2
  <2>5. CASE k \in OtherKeys(tool) /\ l \in FileKeys(tool)
    BY <2>5, <1>1, <1>2
  <2> QED  BY <2>1, <2>2, <2>3, <2>4, <2>5
<1>5. \A k \in DOMAIN data : data[k].case \in Cases
  BY <1>0, <1>1, <1>2, CasesOfCategory DEF Full
<1>6. \A case \in Cases : \E k \in DOMAIN data : data[k].case = case
  <2> SUFFICES ASSUME NEW case \in Cases PROVE \E k \in DOMAIN data : data[k].case = case
    OBVIOUS
  <2>1. CASE case \in FoundCases(tool)
    <3>1. PICK c \in Found(tool) : \E i \in 1..NumCases(c) : case = CasesOf[c][i]
      BY <2>1 DEF FoundCases
    <3>2. PICK i \in 1..NumCases(c) : case = CasesOf[c][i]
      BY <3>1
    <3>3. CategoryKey(c, i) \in DOMAIN data
      BY DEF Full, FileKeys
    <3> QED  BY <1>0, <3>2, <3>3 DEF Labelled
  <2>2. CASE case \notin FoundCases(tool)
    <3>1. MissingKey(case) \in DOMAIN data
      BY <2>2 DEF Full, OtherKeys
    <3> QED  BY <3>1 DEF Labelled
  <2> QED  BY <2>1, <2>2
<1>7. Complete(data)
  <2>1. IsFiniteSet(Cases)
    BY PublicationAssumption
  <2>2. CaseAt \in Injection(DOMAIN data, Cases)
    BY <1>4, <1>5, Fun_IsInj
  <2>3. CaseAt \in Surjection(DOMAIN data, Cases)
    BY <1>5, <1>6, Fun_IsSurj
  <2> HIDE DEF CaseAt
  <2>4. Cardinality(DOMAIN data) = Cardinality(Cases)
    BY ONLY <2>1, <2>2, <2>3, FS_Injection
  <2> QED  BY <2>4 DEF Complete
<1>8. ASSUME NEW case \in Cases
      PROVE  Cardinality({k \in DOMAIN data : data[k].case = case}) = 1
  <2>1. PICK k \in DOMAIN data : data[k].case = case
    BY <1>6
  <2>2. {l \in DOMAIN data : data[l].case = case} = {k}
    BY <1>4, <2>1
  <2> QED  BY <2>2, FS_Singleton
<1> QED  BY <1>7, <1>8

(* The rows that add_missing_data adds are those of the cases that have none. *)
LEMMA CompletedTable ==
  ASSUME NEW data, IsTable(data), Labelled(data)
  PROVE  /\ IsTable(Completed(data)) /\ Labelled(Completed(data))
         /\ DOMAIN data \subseteq DOMAIN Completed(data)
         /\ \A x : MeasuredKey(x) \in DOMAIN Completed(data) => MeasuredKey(x) \in DOMAIN data
         /\ \A case \in Cases : MissingKey(case) \in DOMAIN Completed(data) =>
              MissingKey(case) \in DOMAIN data \/ ~HasCase(data, case)
<1> DEFINE Lacking == {case \in Cases : ~HasCase(data, case)}
           Added == [k \in {MissingKey(case) : case \in Lacking} |-> MissingEntry(k[2])]
<1>1. Completed(data) = data \/ Completed(data) = Entered(data, Added)
  BY DEF Completed
<1>2. /\ DOMAIN Added = {MissingKey(case) : case \in Lacking}
      /\ \A case \in Lacking : Added[MissingKey(case)] = MissingEntry(case)
  BY DEF MissingKey
<1>3. \A case \in Cases : IsEntry(MissingEntry(case)) /\ MissingEntry(case).case = case
  BY DEF MissingEntry, Entry, IsEntry, Columns
<1>4. \A case \in Cases : MissingKey(case) \in Keys
  BY DEF Keys
<1> HIDE DEF Added
<1>5. CASE Completed(data) = data
  BY <1>5
<1>6. CASE Completed(data) = Entered(data, Added)
  <2> DEFINE D == Completed(data)
  <2>1. /\ DOMAIN D = DOMAIN Added \cup DOMAIN data
        /\ \A k \in DOMAIN Added : D[k] = Added[k]
        /\ \A k \in DOMAIN data : k \notin DOMAIN Added => D[k] = data[k]
    BY <1>6 DEF Entered
  <2> HIDE DEF D
  <2>2. \A c, i : CategoryKey(c, i) \in DOMAIN D =>
          CategoryKey(c, i) \in DOMAIN data /\ D[CategoryKey(c, i)] = data[CategoryKey(c, i)]
    BY <1>2, <2>1, DistinctKeys
  <2>3. \A x : MeasuredKey(x) \in DOMAIN D => MeasuredKey(x) \in DOMAIN data
    BY <1>2, <2>1, DistinctKeys
  <2>4. \A case \in Cases : MissingKey(case) \in DOMAIN D =>
          \/ case \in Lacking /\ D[MissingKey(case)] = MissingEntry(case)
          \/ MissingKey(case) \in DOMAIN data /\ D[MissingKey(case)] = data[MissingKey(case)]
    <3> SUFFICES ASSUME NEW case \in Cases, MissingKey(case) \in DOMAIN D
                 PROVE  \/ case \in Lacking /\ D[MissingKey(case)] = MissingEntry(case)
                        \/ /\ MissingKey(case) \in DOMAIN data
                           /\ D[MissingKey(case)] = data[MissingKey(case)]
      OBVIOUS
    <3>1. MissingKey(case) \in DOMAIN Added <=> case \in Lacking
      BY <1>2, DistinctKeys
    <3> QED  BY <1>2, <2>1, <3>1
  <2>5. IsTable(D)
    <3>1. \A k \in DOMAIN Added : k \in Keys /\ IsEntry(Added[k])
      BY <1>2, <1>3, <1>4
    <3> QED  BY <2>1, <3>1 DEF IsTable
  <2>6. Labelled(D)
    BY <1>3, <2>2, <2>4 DEF Labelled
  <2>7. \A case \in Cases : MissingKey(case) \in DOMAIN D =>
          MissingKey(case) \in DOMAIN data \/ ~HasCase(data, case)
    BY <2>4
  <2> QED  BY <2>1, <2>3, <2>5, <2>6, <2>7 DEF D
<1> QED  BY <1>1, <1>5, <1>6

(* It fills a table that has the rows of the files and no others.            *)
LEMMA CompletedIsFull ==
  ASSUME NEW tool, NEW data, Labelled(data),
         DOMAIN data = FileKeys(tool) \/ Full(tool, data)
  PROVE  Full(tool, Completed(data))
<1>1. CASE Full(tool, data)
  BY <1>1, FullTable DEF Completed, Complete
<1>2. CASE DOMAIN data = FileKeys(tool)
  <2> DEFINE CaseAt == [k \in DOMAIN data |-> data[k].case]
  <2>0. Found(tool) \subseteq Categories
    BY PublicationAssumption DEF Found
  <2>1. \A k \in DOMAIN data : \E c \in Found(tool) : \E i \in 1..NumCases(c) :
          k = CategoryKey(c, i) /\ data[k].case = CasesOf[c][i] /\ CasesOf[c][i] \in FoundCases(tool)
    BY <1>2, <2>0 DEF FileKeys, FoundCases, Labelled
  <2>2. \A c, d \in Found(tool) : \A i \in 1..NumCases(c), k \in 1..NumCases(d) :
          CasesOf[c][i] = CasesOf[d][k] => c = d /\ i = k
    BY <2>0, PublicationAssumption DEF NumCases
  <2>3. \A k, l \in DOMAIN data : data[k].case = data[l].case => k = l
    BY <2>1, <2>2
  <2>4. FoundCases(tool) \subseteq Cases
    BY <2>0, CasesOfCategory DEF FoundCases
  <2>5. \A case \in Cases : HasCase(data, case) <=> case \in FoundCases(tool)
    <3> SUFFICES ASSUME NEW case \in FoundCases(tool) PROVE HasCase(data, case)
      BY <2>1 DEF HasCase
    <3>1. PICK c \in Found(tool) : \E i \in 1..NumCases(c) : case = CasesOf[c][i]
      BY DEF FoundCases
    <3>2. PICK i \in 1..NumCases(c) : case = CasesOf[c][i]
      BY <3>1
    <3>3. CategoryKey(c, i) \in DOMAIN data
      BY <1>2 DEF FileKeys
    <3> QED  BY <2>0, <3>2, <3>3 DEF Labelled, HasCase
  <2>6. CASE Cardinality(DOMAIN data) = Cardinality(Cases)
    <3>1. IsFiniteSet(Cases)
      BY PublicationAssumption
    <3>2. CaseAt \in Injection(DOMAIN data, Cases)
      BY <2>1, <2>3, <2>4, Fun_IsInj
    <3>3. CaseAt \in Surjection(DOMAIN data, Cases)
      <4> HIDE DEF CaseAt
      <4> QED  BY ONLY <2>6, <3>1, <3>2, FS_Injection
    <3>4. \A case \in Cases : \E k \in DOMAIN data : CaseAt[k] = case
      <4> HIDE DEF CaseAt
      <4> QED  BY ONLY <3>3, Fun_SurjectionProperties
    <3>5. Cases \subseteq FoundCases(tool)
      BY <2>1, <3>4
    <3>6. OtherKeys(tool) = {}
      BY <3>5 DEF OtherKeys
    <3> QED  BY <1>2, <2>6, <3>6 DEF Full, Completed
  <2>7. CASE Cardinality(DOMAIN data) # Cardinality(Cases)
    <3> DEFINE Lacking == {case \in Cases : ~HasCase(data, case)}
               Added == [k \in {MissingKey(case) : case \in Lacking} |-> MissingEntry(k[2])]
    <3>1. Completed(data) = Entered(data, Added)
      BY <2>7 DEF Completed
    <3>2. Lacking = Cases \ FoundCases(tool)
      BY <2>5
    <3>3. DOMAIN Added = OtherKeys(tool)
      BY <3>2 DEF OtherKeys
    <3> HIDE DEF Added
    <3> QED  BY <1>2, <3>1, <3>3 DEF Full, Entered
  <2> QED  BY <2>6, <2>7
<1> QED  BY <1>1, <1>2
-----------------------------------------------------------------------------
(***************************************************************************)
(* The runner                                                              *)
(***************************************************************************)
LEMMA RowsByJob ==
  RowsAreOfTheirRuns <=> \A j \in Jobs : results[j].there => RowsRight(j)
BY DEF RowsAreOfTheirRuns, RowsRight, NumCases

LEMMA PlaceOfJob ==
  ASSUME NEW j \in Jobs
  PROVE  /\ j[1] \in Tools /\ j[2] \in Categories /\ j = <<j[1], j[2]>>
         /\ Place(j) \in Tools \X Places
         /\ \A k \in Jobs : Place(k) = Place(j) => k[1] = j[1] /\ (mode = "workflow" => k = j)
         /\ mode' = mode => Place(j)' = Place(j)
BY DEF Jobs, Places, Place

(* What a step leaves alone remains in order.                                *)
LEMMA JobKeeps ==
  ASSUME NEW k \in Jobs, JobInv(k), mode' = mode, job'[k] = job[k],
         dirs'[Place(k)] = dirs[Place(k)], ran'[k] = ran[k],
         results'[k] = results[k], output'[k] = output[k], k \in fresh' <=> k \in fresh
  PROVE  JobInv(k)'
<1>1. Place(k)' = Place(k)
  BY PlaceOfJob
<1>2. Orderly(k)' /\ OwnMachine(k)'
  BY <1>1 DEF JobInv, Orderly, OwnMachine
<1>3. (job[k].at = "running" => Executed(k))'
  BY <1>1 DEF JobInv, Executed
<1>4. (results[k].there => RowsRight(k))'
  BY DEF JobInv, RowsRight
<1> QED  BY <1>2, <1>3, <1>4 DEF JobInv

LEMMA RunnerInit == Init => RunnerInv
<1> SUFFICES ASSUME Init PROVE RunnerInv
  OBVIOUS
<1> USE DEF Init
<1>1. NoFile \in FileType /\ NoFile.there = FALSE /\ Len(NoFile.rows) = 0
  BY EmptySeq DEF NoFile, FileType
<1>2. RunnerTypes
  <2>1. <<>> \in Seq(Directory) /\ <<>> \in Seq(Runs)
    BY EmptySeq
  <2> QED  BY <1>1, <2>1 DEF RunnerTypes
<1>3. Bounded
  <2>1. Cardinality(Cases) \in Nat
    BY PublicationAssumption, FS_CardinalityType
  <2>2. \A j \in Jobs : NumCases(j[2]) \in Nat
    BY PlaceOfJob, CasesOfCategory
  <2>3. \A p \in Tools \X Places : Len(dirs[p]) = 0
    BY EmptySeq
  <2>4. \A j \in Jobs : job[j].done = 0 /\ Len(results[j].rows) = 0
    BY <1>1
  <2> HIDE DEF Init
  <2> QED  BY <2>1, <2>2, <2>3, <2>4 DEF Bounded
<1>4. Alone
  BY DEF Alone
<1>5. ASSUME NEW j \in Jobs PROVE JobInv(j)
  <2>1. dirs[Place(j)] = <<>>
    BY PlaceOfJob
  <2> QED  BY <1>1, <2>1 DEF JobInv, Orderly, OwnMachine
<1> QED  BY <1>2, <1>3, <1>4, <1>5 DEF RunnerInv

(* A job that starts is the only one in its directory.                       *)
LEMMA StartKeeps ==
  ASSUME RunnerInv, NEW j \in Jobs, Start(j)
  PROVE  RunnerInv'
<1> USE DEF RunnerInv
<1>0. /\ mode' = mode /\ dirs' = dirs /\ results' = results /\ output' = output /\ ran' = ran
      /\ unpacked' = unpacked
      /\ late' = late /\ job[j].at = "queued" /\ job' = [job EXCEPT ![j].at = "running"]
      /\ fresh' = IF dirs[Place(j)] = <<>> THEN fresh \cup {j} ELSE fresh
  BY DEF Start, Goes
<1>1. job'[j].at = "running" /\ job'[j].done = job[j].done /\ \A k \in Jobs \ {j} : job'[k] = job[k]
  BY <1>0 DEF RunnerTypes
<1>2. RunnerTypes'
  BY <1>0 DEF RunnerTypes
<1>3. Bounded'
  BY <1>0, <1>1 DEF Bounded
<1>4. Alone'
  <2> SUFFICES ASSUME NEW k \in Jobs \ {j}, job[k].at = "running", Place(k) = Place(j)
               PROVE  FALSE
    BY <1>0, <1>1, PlaceOfJob DEF Alone
  <2>1. mode # "workflow" /\ k[1] = j[1] /\ k[2] \in Categories /\ k = <<j[1], k[2]>>
    BY PlaceOfJob
  <2>2. Busy(j[1])
    BY <2>1 DEF Busy
  <2> QED  BY <2>1, <2>2 DEF Start, RunnerTypes
<1>5. ASSUME NEW k \in Jobs \ {j} PROVE JobInv(k)'
  BY <1>0, <1>1, JobKeeps
<1>6. JobInv(j)'
  <2>1. Orderly(j) /\ OwnMachine(j) /\ Place(j)' = Place(j)
    BY <1>0, PlaceOfJob DEF JobInv
  <2>2. job[j].done = 0 /\ j \notin fresh /\ ~results[j].there
    BY <1>0, <2>1 DEF Orderly
  <2>3. Orderly(j)'
    BY <1>0, <1>1, <2>1, <2>2 DEF Orderly
  <2>4. OwnMachine(j)'
    BY <1>0, <1>1, <2>1 DEF OwnMachine
  <2>5. Executed(j)'
    <3>1. Len(dirs[Place(j)]) \in Nat /\ (j \in fresh' => Len(dirs[Place(j)]) = 0)
      <4>1. Len(dirs[Place(j)]) \in Nat
        <5>1. dirs[Place(j)] \in Seq(Directory)
          BY PlaceOfJob DEF RunnerTypes
        <5> QED  BY <5>1, LenProperties
      <4>2. j \in fresh' => dirs[Place(j)] = <<>>
        BY <1>0, <2>2
      <4> QED  BY <4>1, <4>2, EmptySeq
    <3> QED  BY <1>0, <1>1, <2>1, <2>2, <3>1 DEF Executed
  <2> QED  BY <1>0, <2>2, <2>3, <2>4, <2>5 DEF JobInv
<1> QED  BY <1>2, <1>3, <1>4, <1>5, <1>6

LEMMA NoCategoryKeeps ==
  ASSUME RunnerInv, NEW j \in Jobs, NoCategory(j)
  PROVE  RunnerInv'
<1> USE DEF RunnerInv
<1>0. /\ mode' = mode /\ dirs' = dirs /\ results' = results /\ output' = output /\ ran' = ran
      /\ unpacked' = unpacked
      /\ late' = late /\ fresh' = fresh /\ job[j].at = "queued" /\ job' = [job EXCEPT ![j].at = "over"]
  BY DEF NoCategory, Goes, ghosts
<1>1. job'[j].at = "over" /\ job'[j].done = job[j].done /\ \A k \in Jobs \ {j} : job'[k] = job[k]
  BY <1>0 DEF RunnerTypes
<1>2. RunnerTypes'
  BY <1>0 DEF RunnerTypes
<1>3. Bounded'
  BY <1>0, <1>1 DEF Bounded
<1>4. Alone'
  BY <1>0, <1>1, PlaceOfJob DEF Alone
<1>5. ASSUME NEW k \in Jobs \ {j} PROVE JobInv(k)'
  BY <1>0, <1>1, JobKeeps
<1>6. JobInv(j)'
  BY <1>0, <1>1, PlaceOfJob DEF JobInv, Orderly, OwnMachine
<1> QED  BY <1>2, <1>3, <1>4, <1>5, <1>6

(* Copying puts into output/ what the job has left, downloading below it.    *)
LEMMA CopyKeeps ==
  ASSUME RunnerInv, mode' = mode, dirs' = dirs, results' = results, ran' = ran, job' = job,
         fresh' = fresh, late' \subseteq Jobs, unpacked' \in {unpacked, results},
         DOMAIN output' = Jobs, output' = [j \in Jobs |-> output'[j]],
         \A j \in Jobs : output'[j] \in {output[j], results[j]},
         mode = "workflow" => output' = output
  PROVE  RunnerInv'
<1> USE DEF RunnerInv
<1>1. RunnerTypes'
  BY DEF RunnerTypes
<1>2. Bounded' /\ Alone'
  BY PlaceOfJob DEF Bounded, Alone
<1>3. ASSUME NEW j \in Jobs PROVE JobInv(j)'
  <2>1. JobInv(j) /\ Place(j)' = Place(j)
    BY PlaceOfJob
  <2>2. Orderly(j)'
    BY <2>1 DEF JobInv, Orderly
  <2>3. OwnMachine(j)' /\ (job[j].at = "running" => Executed(j))'
    BY <2>1 DEF JobInv, OwnMachine, Executed
  <2>4. (results[j].there => RowsRight(j))'
    BY <2>1 DEF JobInv, RowsRight
  <2> QED  BY <2>2, <2>3, <2>4 DEF JobInv
<1> QED  BY <1>1, <1>2, <1>3

LEMMA JobFailsKeeps ==
  ASSUME RunnerInv, NEW j \in Jobs, JobFails(j)
  PROVE  RunnerInv'
<1> USE DEF RunnerInv
<1>0. /\ mode' = mode /\ dirs' = dirs /\ results' = results /\ output' = output /\ ran' = ran
      /\ unpacked' = unpacked
      /\ late' = late /\ fresh' = fresh
  BY DEF JobFails, ghosts
<1>1. \A k \in Jobs : \/ job'[k] = job[k]
                      \/ /\ job[k].at # "over" /\ job'[k] = [job[k] EXCEPT !.at = "failed"]
                         /\ job'[k].at = "failed" /\ job'[k].done = job[k].done
  BY DEF JobFails, RunnerTypes
<1>2. RunnerTypes'
  <2>1. job' \in [Jobs -> [at : {"queued", "running", "over", "failed"}, done : Nat]]
    BY DEF JobFails, RunnerTypes
  <2> QED  BY <1>0, <2>1 DEF RunnerTypes
<1>3. Bounded'
  BY <1>0, <1>1 DEF Bounded
<1>4. Alone'
  <2>1. \A k \in Jobs : (job'[k].at = "running" => job[k].at = "running") /\ Place(k)' = Place(k)
    BY <1>0, <1>1, PlaceOfJob
  <2> QED  BY <2>1 DEF Alone
<1>5. ASSUME NEW k \in Jobs PROVE JobInv(k)'
  <2>1. JobInv(k) /\ Place(k)' = Place(k)
    BY <1>0, PlaceOfJob
  <2>2. CASE job'[k] = job[k]
    BY <1>0, <2>1, <2>2, JobKeeps
  <2>3. CASE job[k].at # "over" /\ job'[k].at = "failed" /\ job'[k].done = job[k].done
    BY <1>0, <2>1, <2>3 DEF JobInv, Orderly, OwnMachine
  <2> QED  BY <1>1, <2>2, <2>3
<1> QED  BY <1>2, <1>3, <1>4, <1>5

(* A tool is executed on the next case, in the next directory of the job's   *)
(* place: a new one, or one that an earlier job has left.                    *)
LEMMA ExecuteKeeps ==
  ASSUME RunnerInv, NEW j \in Jobs, ExecuteTool(j)
  PROVE  RunnerInv'
<1> DEFINE p == Place(j)
           ds == dirs[p]
           i == job[j].done + 1
           old == Prepared(ds, i)
           New(run) == [case |-> CasesOf[j[2]][i], files |-> old.files \cup run.files,
                        bare |-> {}, log |-> LogAfter(j[1], old.log, run.log)]
<1> USE DEF RunnerInv
<1>0. /\ mode' = mode /\ results' = results /\ output' = output /\ late' = late /\ fresh' = fresh
      /\ unpacked' = unpacked /\ job[j].at = "running" /\ i <= NumCases(j[2]) /\ job' = [job EXCEPT ![j].done = i]
  BY DEF ExecuteTool, NumCases
<1>1. PICK run \in RunsOf(j[1]) :
        /\ dirs' = [dirs EXCEPT ![p] = IF i <= Len(ds) THEN [ds EXCEPT ![i] = New(run)]
                                                       ELSE Append(ds, New(run))]
        /\ ran' = [ran EXCEPT ![j] = Append(@, run)]
  BY DEF ExecuteTool
<1> DEFINE new == New(run)
<1>2. /\ job[j].done \in Nat /\ job'[j].done = i /\ job'[j].at = "running"
      /\ \A k \in Jobs \ {j} : job'[k] = job[k]
  BY <1>0 DEF RunnerTypes
<1>3. /\ p \in Tools \X Places /\ j[1] \in Tools /\ j[2] \in Categories
      /\ \A k \in Jobs : Place(k)' = Place(k)
  BY <1>0, PlaceOfJob
<1>4. /\ ds \in Seq(Directory) /\ Len(ds) \in Nat /\ \A m \in 1..Len(ds) : ds[m] \in Directory
      /\ ran[j] \in Seq(Runs) /\ Len(ran[j]) = job[j].done
  <2>1. ds \in Seq(Directory) /\ ran[j] \in Seq(Runs)
    BY <1>3 DEF RunnerTypes
  <2> QED  BY <2>1, LenProperties, ElementOfSeq DEF JobInv, Orderly
<1>5. run \in Runs /\ run.files \in SUBSET Nat /\ run.log \in Logs
  BY <1>3, PublicationAssumption DEF Runs
<1>6. old.files \in SUBSET Nat /\ old.log \in Logs
  <2>1. i <= Len(ds) => ds[i] \in Directory
    BY <1>2, <1>4
  <2>2. NoDir.files = {} /\ NoDir.log = NoLog /\ NoLog \in Logs
    BY DEF NoDir, NoLog, Logs
  <2> QED  BY <2>1, <2>2 DEF Prepared, Directory
<1>7. CasesOf[j[2]][i] \in Cases
  BY <1>0, <1>2, <1>3, CasesOfCategory
<1>8. new \in Directory
  BY <1>5, <1>6, <1>7, LogType DEF Directory
<1>9. new.case = CasesOf[j[2]][i] /\ new.files = old.files \cup run.files
      /\ new.log = LogAfter(j[1], old.log, run.log)
  OBVIOUS
<1> HIDE DEF new, New, old
<1>10. /\ ran' \in [Jobs -> Seq(Runs)]
       /\ Len(ran'[j]) = i /\ ran'[j][i] = run /\ \A m \in 1..job[j].done : ran'[j][m] = ran[j][m]
       /\ \A k \in Jobs \ {j} : ran'[k] = ran[k]
  <2>1. ran'[j] = Append(ran[j], run) /\ \A k \in Jobs \ {j} : ran'[k] = ran[k]
    BY <1>1 DEF RunnerTypes
  <2>2. /\ Append(ran[j], run) \in Seq(Runs)
        /\ Len(Append(ran[j], run)) = i /\ Append(ran[j], run)[i] = run
        /\ \A m \in 1..job[j].done : Append(ran[j], run)[m] = ran[j][m]
    BY <1>2, <1>4, <1>5
  <2>3. ran' \in [Jobs -> Seq(Runs)]
    BY <1>1, <2>2 DEF RunnerTypes
  <2> QED  BY <2>1, <2>2, <2>3
<1>11. Executed(j)
  BY <1>0 DEF JobInv
<1>12. job[j].done <= Len(ds)
  BY <1>11 DEF Executed
<1> DEFINE next == IF i <= Len(ds) THEN [ds EXCEPT ![i] = new] ELSE Append(ds, new)
<1>13. /\ next \in Seq(Directory) /\ next[i] = new
       /\ Len(next) = IF i <= Len(ds) THEN Len(ds) ELSE i
       /\ \A m \in 1..job[j].done : next[m] = ds[m]
  <2>1. CASE i <= Len(ds)
    <3>1. i \in 1..Len(ds)
      BY <1>2, <1>4, <2>1
    <3>2. /\ [ds EXCEPT ![i] = new] \in Seq(Directory)
          /\ Len([ds EXCEPT ![i] = new]) = Len(ds)
          /\ \A m \in 1..Len(ds) : [ds EXCEPT ![i] = new][m] = IF m = i THEN new ELSE ds[m]
      <4> HIDE DEF i, ds
      <4> QED  BY <1>4, <1>8, <3>1, ExceptSeq
    <3>3. \A m \in 1..job[j].done : m \in 1..Len(ds) /\ m # i
      BY <1>2, <1>4, <1>12
    <3> QED  BY <2>1, <3>1, <3>2, <3>3
  <2>2. CASE ~(i <= Len(ds))
    <3>1. Len(ds) = job[j].done /\ Len(ds) + 1 = i
      BY <1>2, <1>4, <1>12, <2>2
    <3>2. /\ Append(ds, new) \in Seq(Directory)
          /\ Len(Append(ds, new)) = Len(ds) + 1 /\ Append(ds, new)[Len(ds) + 1] = new
          /\ \A m \in 1..Len(ds) : Append(ds, new)[m] = ds[m]
      <4> HIDE DEF ds
      <4> QED  BY <1>4, <1>8
    <3> QED  BY <2>2, <3>1, <3>2
  <2> QED  BY <2>1, <2>2
<1> HIDE DEF next
<1>14. /\ dirs' \in [Tools \X Places -> Seq(Directory)] /\ dirs'[p] = next
       /\ \A q \in Tools \X Places : q # p => dirs'[q] = dirs[q]
  <2>1. dirs' = [dirs EXCEPT ![p] = next]
    BY <1>1 DEF next, new
  <2> QED  BY <1>3, <1>13, <2>1 DEF RunnerTypes
<1>15. RunnerTypes'
  <2>1. i \in Nat
    BY <1>2
  <2>2. job' \in [Jobs -> [at : {"queued", "running", "over", "failed"}, done : Nat]]
    <3> HIDE DEF i
    <3> QED  BY <1>0, <2>1 DEF RunnerTypes
  <2> QED  BY <1>0, <1>10, <1>14, <2>2 DEF RunnerTypes
<1>16. Bounded'
  <2>1. Len(next) <= Cardinality(Cases)
    <3>1. NumCases(j[2]) \in Nat /\ NumCases(j[2]) <= Cardinality(Cases) /\ Cardinality(Cases) \in Nat
      BY <1>3, CasesOfCategory
    <3>2. Len(ds) <= Cardinality(Cases)
      BY <1>3 DEF Bounded
    <3> QED  BY <1>0, <1>2, <1>4, <1>13, <3>1, <3>2
  <2>2. \A q \in Tools \X Places : Len(dirs'[q]) <= Cardinality(Cases)
    BY <1>14, <2>1 DEF Bounded
  <2>3. \A k \in Jobs : job'[k].done <= NumCases(k[2])
    BY <1>0, <1>2 DEF Bounded
  <2> QED  BY <1>0, <2>2, <2>3 DEF Bounded
<1>17. Alone'
  BY <1>0, <1>2, <1>3 DEF Alone
<1>18. ASSUME NEW k \in Jobs \ {j} PROVE JobInv(k)'
  <2>1. JobInv(k) /\ job'[k] = job[k] /\ ran'[k] = ran[k] /\ Place(k) \in Tools \X Places
    BY <1>2, <1>10, PlaceOfJob
  <2>2. CASE Place(k) # p
    BY <1>0, <1>14, <2>1, <2>2, JobKeeps
  <2>3. CASE Place(k) = p
    <3>1. mode # "workflow" /\ job[k].at # "running"
      BY <1>0, <2>3, PlaceOfJob DEF Alone
    <3>2. Orderly(k)'
      BY <1>0, <2>1 DEF JobInv, Orderly
    <3>3. (results[k].there => RowsRight(k))'
      BY <1>0, <2>1 DEF JobInv, RowsRight
    <3> QED  BY <1>0, <2>1, <3>1, <3>2, <3>3 DEF JobInv, OwnMachine
  <2> QED  BY <2>2, <2>3
<1>19. JobInv(j)'
  <2>1. ~results[j].there /\ JobInv(j)
    BY <1>0 DEF JobInv, Orderly
  <2>2. Orderly(j)'
    BY <1>0, <1>2, <1>10, <2>1 DEF JobInv, Orderly
  <2>3. OwnMachine(j)'
    BY <1>0, <1>2, <2>1 DEF JobInv, OwnMachine
  <2>4. Executed(j)'
    <3>1. i <= Len(next) /\ (j \in fresh => Len(next) = i)
      BY <1>2, <1>4, <1>11, <1>13 DEF Executed
    <3>2. \A m \in 1..job[j].done :
            /\ next[m].case = CasesOf[j[2]][m]
            /\ j \in fresh => next[m].files = ran'[j][m].files
            /\ j \in fresh \/ j[1] # "MUST" =>
                 ErrorFound(j[1], next[m].log) = ErrorFound(j[1], ran'[j][m].log)
      BY <1>10, <1>11, <1>13 DEF Executed
    <3>3. j \in fresh => old.files = {} /\ old.log = NoLog
      <4>1. j \in fresh => ~(i <= Len(ds))
        BY <1>2, <1>4, <1>11 DEF Executed
      <4> QED  BY <4>1 DEF old, Prepared, NoDir
    <3>4. j \in fresh => new.files = run.files /\ ErrorFound(j[1], new.log) = ErrorFound(j[1], run.log)
      BY <1>5, <1>9, <3>3, FirstLog
    <3>5. j[1] # "MUST" => new.log = run.log
      BY <1>9 DEF LogAfter
    <3>6. \A m \in 1..i : m \in 1..job[j].done \/ m = i
      BY <1>2
    <3>7. \A m \in 1..i :
            /\ next[m].case = CasesOf[j[2]][m]
            /\ j \in fresh => next[m].files = ran'[j][m].files
            /\ j \in fresh \/ j[1] # "MUST" =>
                 ErrorFound(j[1], next[m].log) = ErrorFound(j[1], ran'[j][m].log)
      BY <1>9, <1>10, <1>13, <3>2, <3>4, <3>5, <3>6
    <3>8. dirs'[Place(j)'] = next /\ fresh' = fresh /\ job'[j].done = i
      BY <1>0, <1>2, <1>3, <1>14
    <3> HIDE DEF i, ds
    <3> QED  BY <3>1, <3>7, <3>8 DEF Executed
  <2> QED  BY <1>0, <2>1, <2>2, <2>3, <2>4 DEF JobInv
<1> QED  BY <1>15, <1>16, <1>17, <1>18, <1>19

(* The parser writes one row per directory of the job's place.               *)
LEMMA ParseKeeps ==
  ASSUME RunnerInv, NEW j \in Jobs, Parse(j)
  PROVE  RunnerInv'
<1> DEFINE ds == dirs[Place(j)]
           rows == Parsed(j[1], ds)
<1> USE DEF RunnerInv
<1>0. /\ mode' = mode /\ dirs' = dirs /\ output' = output /\ ran' = ran
      /\ unpacked' = unpacked
      /\ late' = late /\ fresh' = fresh /\ job[j].done = NumCases(j[2])
      /\ job[j].at = "running" /\ job' = [job EXCEPT ![j].at = "over"]
      /\ results' = [results EXCEPT ![j] = File(rows)]
  BY DEF Parse, Goes, ghosts, NumCases
<1>1. job'[j].at = "over" /\ job'[j].done = job[j].done /\ \A k \in Jobs \ {j} : job'[k] = job[k]
  BY <1>0 DEF RunnerTypes
<1>2. results'[j] = File(rows) /\ \A k \in Jobs \ {j} : results'[k] = results[k]
  BY <1>0 DEF RunnerTypes
<1>3. /\ Place(j) \in Tools \X Places /\ \A k \in Jobs : Place(k)' = Place(k)
  BY <1>0, PlaceOfJob
<1>4. ds \in Seq(Directory) /\ Len(ds) \in Nat /\ \A m \in 1..Len(ds) : ds[m] \in Directory
  <2>1. ds \in Seq(Directory)
    BY <1>3 DEF RunnerTypes
  <2> QED  BY <2>1, LenProperties, ElementOfSeq
<1>5. \A m \in 1..Len(ds) :
        /\ rows[m].case = ds[m].case /\ rows[m] \in EntryType
        /\ rows[m].row.score = One(Column(ds[m].case \in Erroneous, ErrorFound(j[1], ds[m].log)))
        /\ rows[m].row.error_present = 0 <=> ParserRanks \subseteq ds[m].files
        /\ rows[m].row.error_present_without_tool = 1
  <2> SUFFICES ASSUME NEW m \in 1..Len(ds)
               PROVE  /\ rows[m].case = ds[m].case /\ rows[m] \in EntryType
                      /\ rows[m].row.score =
                           One(Column(ds[m].case \in Erroneous, ErrorFound(j[1], ds[m].log)))
                      /\ rows[m].row.error_present = 0 <=> ParserRanks \subseteq ds[m].files
                      /\ rows[m].row.error_present_without_tool = 1
    OBVIOUS
  <2> DEFINE erroneous == ds[m].case \in Erroneous
             row == Row(j[1], erroneous, ds[m])
  <2>1. rows[m] = Entry(ds[m].case, row)
    BY DEF Parsed
  <2>2. ds[m] \in Directory /\ erroneous \in BOOLEAN
    BY <1>4
  <2>3. /\ row \in RowType
        /\ row.score = One(Column(erroneous, ErrorFound(j[1], ds[m].log)))
        /\ row.error_present = 0 <=> ParserRanks \subseteq ds[m].files
        /\ row.error_present_without_tool = 1
    <3> HIDE DEF erroneous, ds
    <3> QED  BY <2>2, RowOfDirectory
  <2>4. ds[m].case \in Cases
    BY <2>2 DEF Directory
  <2> HIDE DEF row, ds, rows
  <2> QED  BY <2>1, <2>3, <2>4 DEF Entry, EntryType
<1>6. rows \in Seq(EntryType) /\ Len(rows) = Len(ds)
  <2>1. rows = [m \in 1..Len(ds) |-> rows[m]]
    BY DEF Parsed
  <2> HIDE DEF rows, ds
  <2> QED  BY <1>4, <1>5, <2>1
<1> HIDE DEF rows
<1>7. results'[j].there = TRUE /\ results'[j].rows = rows /\ results'[j] \in FileType
  BY <1>2, <1>6 DEF File, FileType
<1>8. RunnerTypes'
  <2>1. job' \in [Jobs -> [at : {"queued", "running", "over", "failed"}, done : Nat]]
    BY <1>0 DEF RunnerTypes
  <2>2. results' \in [Jobs -> FileType]
    BY <1>0, <1>2, <1>7 DEF RunnerTypes
  <2> QED  BY <1>0, <2>1, <2>2 DEF RunnerTypes
<1>9. Bounded'
  <2>1. Len(rows) <= Cardinality(Cases)
    BY <1>3, <1>6 DEF Bounded
  <2> QED  BY <1>0, <1>1, <1>2, <1>7, <2>1 DEF Bounded
<1>10. Alone'
  <2>1. \A k \in Jobs : job'[k].at = "running" => job[k].at = "running"
    BY <1>0, <1>1
  <2> QED  BY <1>3, <2>1 DEF Alone
<1>11. ASSUME NEW k \in Jobs \ {j} PROVE JobInv(k)'
  BY <1>0, <1>1, <1>2, JobKeeps
<1>12. JobInv(j)'
  <2>1. Orderly(j) /\ OwnMachine(j) /\ Executed(j) /\ ~results[j].there
    BY <1>0 DEF JobInv, Orderly
  <2>2. output[j] = NoFile
    BY <2>1 DEF Orderly
  <2>3. NumCases(j[2]) <= Len(rows)
    BY <1>0, <1>6, <2>1 DEF Executed
  <2>4. Orderly(j)'
    BY <1>0, <1>1, <1>7, <2>1, <2>2, <2>3 DEF Orderly
  <2>5. OwnMachine(j)'
    BY <1>0, <1>1, <1>7, <2>1 DEF OwnMachine
  <2>6. RowsRight(j)'
    <3>1. NumCases(j[2]) \in Nat
      BY PlaceOfJob, CasesOfCategory
    <3>2. j \in fresh => Len(rows) = NumCases(j[2])
      BY <1>0, <1>6, <2>1 DEF Executed
    <3>3. \A m \in 1..NumCases(j[2]) : m \in 1..Len(ds)
      BY <1>4, <1>6, <2>3, <3>1
    <3>4. \A m \in 1..NumCases(j[2]) :
            /\ ds[m].case = CasesOf[j[2]][m]
            /\ j \in fresh => ds[m].files = ran[j][m].files
            /\ j \in fresh \/ j[1] # "MUST" =>
                 ErrorFound(j[1], ds[m].log) = ErrorFound(j[1], ran[j][m].log)
      BY <1>0, <2>1 DEF Executed
    <3> HIDE DEF ds
    <3> QED  BY <1>0, <1>5, <1>7, <3>2, <3>3, <3>4 DEF RowsRight
  <2> QED  BY <1>0, <1>1, <2>4, <2>5, <2>6 DEF JobInv
<1> QED  BY <1>8, <1>9, <1>10, <1>11, <1>12

(* Every step keeps the files of the runner in order.                        *)
LEMMA RunnerInductive == RunnerInv /\ [Next]_vars => RunnerInv'
<1> SUFFICES ASSUME RunnerInv, [Next]_vars PROVE RunnerInv'
  OBVIOUS
<1>0. /\ late \subseteq Jobs /\ DOMAIN output = Jobs /\ DOMAIN results = Jobs
      /\ output = [j \in Jobs |-> output[j]] /\ results = [j \in Jobs |-> results[j]]
  BY DEF RunnerInv, RunnerTypes
<1>1. ASSUME mode' = mode, job' = job, dirs' = dirs, results' = results, output' = output,
             ran' = ran, fresh' = fresh, late' = late, unpacked' \in {unpacked, results}
      PROVE  RunnerInv'
  BY <1>0, <1>1, CopyKeeps
<1>2. ASSUME NEW j \in Jobs, Copy(j) PROVE RunnerInv'
  <2>1. /\ mode' = mode /\ job' = job /\ dirs' = dirs /\ results' = results /\ ran' = ran
        /\ fresh' = fresh /\ output' = [output EXCEPT ![j] = results[j]]
        /\ late' = IF script.calls > 0 THEN late \cup {j} ELSE late
        /\ mode # "workflow" /\ unpacked' = unpacked
    BY <1>2 DEF Copy
  <2>2. \A k \in Jobs : output'[k] \in {output[k], results[k]}
    BY <1>0, <2>1
  <2> QED  BY <1>0, <2>1, <2>2, CopyKeeps
<1>3. ASSUME GenerateVisualization PROVE RunnerInv'
  BY <1>1, <1>3 DEF GenerateVisualization, ghosts
<1>4. CASE Call \/ Load \/ AddMissing \/ SaveData
  BY <1>1, <1>4 DEF Call, Load, AddMissing, SaveData, ghosts
<1>5. CASE UNCHANGED vars
  BY <1>1, <1>5 DEF vars, ghosts
<1> QED  BY <1>2, <1>3, <1>4, <1>5, StartKeeps, NoCategoryKeeps, ExecuteKeeps, ParseKeeps,
            JobFailsKeeps DEF Next
-----------------------------------------------------------------------------
(***************************************************************************)
(* The script                                                              *)
(***************************************************************************)
(* A file in output/ has one row per case of its category, and then those of *)
(* surplus directories, of which there are none if its job began with none.  *)
LEMMA FileInOutput ==
  ASSUME RunnerInv, NEW tool \in Tools, NEW c \in Found(tool)
  PROVE  LET rows == output[<<tool, c>>].rows
         IN /\ c \in Categories /\ rows \in Seq(EntryType) /\ DOMAIN rows = 1..Len(rows)
            /\ Len(rows) \in Nat /\ NumCases(c) <= Len(rows) /\ Len(rows) <= Cardinality(Cases)
            /\ \A i \in 1..NumCases(c) : i \in DOMAIN rows /\ rows[i].case = CasesOf[c][i]
            /\ <<tool, c>> \in fresh => Len(rows) = NumCases(c)
<1> DEFINE j == <<tool, c>>
<1>1. c \in Categories /\ j \in Jobs /\ output[j].there
  BY PublicationAssumption DEF Found, Jobs
<1>2. j[1] = tool /\ j[2] = c
  OBVIOUS
<1> HIDE DEF j
<1>3. output[j] = results[j] /\ results[j].there
  BY <1>1 DEF RunnerInv, JobInv, Orderly, NoFile
<1>4. results[j].rows \in Seq(EntryType)
  BY <1>1 DEF RunnerInv, RunnerTypes, FileType
<1>5. Len(results[j].rows) \in Nat /\ DOMAIN results[j].rows = 1..Len(results[j].rows)
  BY <1>4, LenProperties
<1>6. NumCases(c) <= Len(results[j].rows) /\ Len(results[j].rows) <= Cardinality(Cases)
  BY <1>1, <1>2, <1>3 DEF RunnerInv, Bounded, JobInv, Orderly
<1>7. RowsRight(j)
  BY <1>1, <1>3 DEF RunnerInv, JobInv
<1>8. \A i \in 1..NumCases(c) : results[j].rows[i].case = CasesOf[c][i]
  BY <1>2, <1>7 DEF RowsRight
<1>9. \A i \in 1..NumCases(c) : i \in DOMAIN results[j].rows
  BY <1>1, <1>5, <1>6, CasesOfCategory
<1>10. j \in fresh => Len(results[j].rows) = NumCases(c)
  BY <1>2, <1>7 DEF RowsRight
<1> QED  BY <1>1, <1>3, <1>4, <1>5, <1>6, <1>8, <1>9, <1>10 DEF j

(* The rows of the files are entered at keys of their own, and nothing else. *)
LEMMA LoadedTable ==
  ASSUME RunnerInv, NEW tool \in Tools,
         IsTable(table[tool].rows), Labelled(table[tool].rows)
  PROVE  LET data == LoadAndMerge(tool)
         IN /\ IsTable(data) /\ Labelled(data)
            /\ DOMAIN table[tool].rows \subseteq DOMAIN data
            /\ \A x : MeasuredKey(x) \in DOMAIN data => MeasuredKey(x) \in DOMAIN table[tool].rows
            /\ \A x : MissingKey(x) \in DOMAIN data => MissingKey(x) \in DOMAIN table[tool].rows
            /\ \A c \in Found(tool) : \A i \in 1..NumCases(c) : CategoryKey(c, i) \in DOMAIN data
            /\ ~MixedUp(tool) => DOMAIN data = FileKeys(tool) \cup DOMAIN table[tool].rows
<1> DEFINE Of(c) == output[<<tool, c>>].rows
           New == UNION {{CategoryKey(c, i) : i \in DOMAIN Of(c)} : c \in Found(tool)}
           rows == [k \in New |-> Of(k[2])[k[3]]]
           old == table[tool].rows
           data == Entered(old, rows)
<1>1. LoadAndMerge(tool) = data
  BY DEF LoadAndMerge, Found
<1>2. \A c \in Found(tool) :
        /\ c \in Categories /\ Of(c) \in Seq(EntryType) /\ DOMAIN Of(c) = 1..Len(Of(c))
        /\ Len(Of(c)) \in Nat /\ NumCases(c) <= Len(Of(c)) /\ Len(Of(c)) <= Cardinality(Cases)
        /\ \A i \in 1..NumCases(c) : i \in DOMAIN Of(c) /\ Of(c)[i].case = CasesOf[c][i]
        /\ <<tool, c>> \in fresh => Len(Of(c)) = NumCases(c)
  BY FileInOutput
<1>3. \A k \in New : \E c \in Found(tool) : \E i \in DOMAIN Of(c) :
        k = CategoryKey(c, i) /\ rows[k] = Of(c)[i]
  <2>1. ASSUME NEW c \in Found(tool), NEW i \in DOMAIN Of(c)
        PROVE  rows[CategoryKey(c, i)] = Of(c)[i]
    <3> DEFINE k == CategoryKey(c, i)
    <3>1. k[2] = c /\ k[3] = i
      BY DEF CategoryKey
    <3>2. k \in New
      OBVIOUS
    <3> HIDE DEF k, New, Of
    <3> QED  BY <3>1, <3>2 DEF k
  <2>2. \A k \in New : \E c \in Found(tool) : \E i \in DOMAIN Of(c) : k = CategoryKey(c, i)
    OBVIOUS
  <2> HIDE DEF rows, New, Of
  <2> QED  BY <2>1, <2>2
<1>4. \A c \in Found(tool) : \A i \in DOMAIN Of(c) : CategoryKey(c, i) \in New
  OBVIOUS
<1>5. DOMAIN rows = New
  OBVIOUS
<1>6. \A c \in Found(tool) : \A i \in DOMAIN Of(c) :
        CategoryKey(c, i) \in Keys /\ IsEntry(Of(c)[i])
  <2> SUFFICES ASSUME NEW c \in Found(tool), NEW i \in DOMAIN Of(c)
               PROVE  CategoryKey(c, i) \in Keys /\ IsEntry(Of(c)[i])
    OBVIOUS
  <2>1. i \in 1..Cardinality(Cases) /\ c \in Categories
    BY <1>2, CasesOfCategory
  <2>2. Of(c)[i] \in EntryType
    <3> HIDE DEF Of
    <3> QED  BY <1>2, ElementOfSeq
  <2>3. IsEntry(Of(c)[i])
    <3> HIDE DEF Of
    <3> QED  BY <2>2 DEF IsEntry, EntryType, RowType
  <2> QED  BY <2>1, <2>3 DEF Keys
<1> HIDE DEF rows, New, Of
<1>7. /\ DOMAIN data = DOMAIN old \cup New
      /\ \A k \in New : data[k] = rows[k]
      /\ \A k \in DOMAIN old : k \notin New => data[k] = old[k]
  BY <1>5 DEF Entered
<1>8. \A k \in New : k \in Keys /\ IsEntry(data[k])
  BY <1>3, <1>6, <1>7
<1>9. \A c, i : CategoryKey(c, i) \in New =>
        c \in Found(tool) /\ i \in DOMAIN Of(c) /\ data[CategoryKey(c, i)] = Of(c)[i]
  BY <1>3, <1>7, DistinctKeys
<1>10. \A x : MeasuredKey(x) \notin New /\ MissingKey(x) \notin New
  BY <1>3, DistinctKeys
<1> HIDE DEF data
<1>11. IsTable(data)
  BY <1>7, <1>8 DEF IsTable
<1>12. Labelled(data)
  <2>1. ASSUME NEW c \in Categories, NEW i \in 1..NumCases(c), CategoryKey(c, i) \in DOMAIN data
        PROVE  data[CategoryKey(c, i)].case = CasesOf[c][i]
    <3>1. CASE CategoryKey(c, i) \in New
      BY <1>2, <1>9, <3>1
    <3>2. CASE CategoryKey(c, i) \notin New
      BY <1>7, <2>1, <3>2 DEF Labelled
    <3> QED  BY <3>1, <3>2
  <2>2. \A case \in Cases : MissingKey(case) \in DOMAIN data => data[MissingKey(case)].case = case
    BY <1>7, <1>10 DEF Labelled
  <2> QED  BY <2>1, <2>2 DEF Labelled
<1>13. \A x : /\ MeasuredKey(x) \in DOMAIN data => MeasuredKey(x) \in DOMAIN old
              /\ MissingKey(x) \in DOMAIN data => MissingKey(x) \in DOMAIN old
  BY <1>7, <1>10
<1>14. \A c \in Found(tool) : \A i \in 1..NumCases(c) : CategoryKey(c, i) \in DOMAIN data
  BY <1>2, <1>4, <1>7
<1>15. ASSUME ~MixedUp(tool) PROVE DOMAIN data = FileKeys(tool) \cup DOMAIN old
  <2>1. \A c \in Found(tool) : <<tool, c>> \in fresh
    <3> SUFFICES ASSUME NEW c \in Found(tool) PROVE <<tool, c>> \in fresh
      OBVIOUS
    <3>1. <<tool, c>> \in Jobs /\ output[<<tool, c>>].there
      BY <1>2 DEF Found, Jobs
    <3> QED  BY <1>15, <3>1 DEF MixedUp
  <2>2. \A c \in Found(tool) : DOMAIN Of(c) = 1..NumCases(c)
    BY <1>2, <2>1
  <2>3. New = FileKeys(tool)
    BY <2>2 DEF New, FileKeys
  <2> QED  BY <1>7, <2>3
<1> QED  BY <1>1, <1>7, <1>11, <1>12, <1>13, <1>14, <1>15

(* Nothing changes for the script while jobs run.                            *)
LEMMA ScriptKeeps ==
  ASSUME ScriptInv, mode' = mode, output' = output, table' = table, script' = script, late' = late,
         \A j \in Jobs : output[j].there => (j \in fresh' <=> j \in fresh)
  PROVE  ScriptInv'
<1>1. ScriptTypes' /\ FirstCall'
  BY DEF ScriptInv, ScriptTypes, FirstCall
<1>2. \A tool : Found(tool)' = Found(tool) /\ (MixedUp(tool)' <=> MixedUp(tool))
  BY DEF Found, MixedUp
<1>3. ASSUME NEW tool \in Tools PROVE ToolInv(tool)'
  <2>1. ToolInv(tool)
    BY DEF ScriptInv
  <2>2. Kept(tool)' /\ Delivered(tool)'
    BY <1>2, <2>1 DEF ToolInv, Kept, Delivered
  <2>3. /\ NotMissing(tool, table[tool].rows)'
        /\ (script.at \in {"loaded", "added"} => NotMissing(tool, script.data[tool]))'
    BY <1>2, <2>1 DEF ToolInv, NotMissing
  <2>4. FileKeys(tool)' = FileKeys(tool) /\ OtherKeys(tool)' = OtherKeys(tool)
    BY <1>2 DEF FileKeys, OtherKeys, FoundCases
  <2>5. (~MixedUp(tool) => Unmixed(tool))'
    BY <1>2, <2>1, <2>4 DEF ToolInv, Unmixed, Full
  <2> QED  BY <2>2, <2>3, <2>5 DEF ToolInv
<1> QED  BY <1>1, <1>2, <1>3 DEF ScriptInv

LEMMA ScriptInit == Init => ScriptInv
<1> SUFFICES ASSUME Init PROVE ScriptInv
  OBVIOUS
<1>0. /\ mode \in {"workflow", "by hand"} /\ late = {} /\ output = [j \in Jobs |-> NoFile]
      /\ script = [at |-> "idle", data |-> <<>>, calls |-> 0]
      /\ table \in [Tools -> IF mode = "workflow" THEN {NoFile} ELSE {NoFile, File(MeasuredTable)}]
  BY DEF Init
<1>1. script.at = "idle" /\ script.data = <<>> /\ script.calls = 0
  BY <1>0
<1>2. /\ DOMAIN MeasuredTable = {MeasuredKey(case) : case \in Measured}
      /\ \A k \in DOMAIN MeasuredTable : k \in Keys /\ IsEntry(MeasuredTable[k])
  <2>1. DOMAIN MeasuredTable = {MeasuredKey(case) : case \in Measured}
    BY DEF MeasuredTable
  <2>2. ASSUME NEW case \in Measured
        PROVE  MeasuredKey(case) \in Keys /\ IsEntry(MeasuredTable[MeasuredKey(case)])
    <3>1. case \in Cases
      BY PublicationAssumption
    <3>2. MeasuredKey(case)[2] = case
      BY DEF MeasuredKey
    <3>3. MeasuredTable[MeasuredKey(case)] =
            Entry(case, [score |-> One(IF case \in Erroneous THEN "TP" ELSE "TN"),
                         error_present |-> 1, error_present_without_tool |-> 1])
      BY <3>2 DEF MeasuredTable
    <3> QED  BY <3>1, <3>3 DEF Keys, Entry, IsEntry, Columns
  <2> QED  BY <2>1, <2>2
<1>3. ASSUME NEW tool \in Tools
      PROVE  /\ table[tool].there \in BOOLEAN
             /\ table[tool].rows = <<>> \/ (mode # "workflow" /\ table[tool].rows = MeasuredTable)
  <2>1. table[tool] = NoFile \/ (mode # "workflow" /\ table[tool] = File(MeasuredTable))
    BY <1>0
  <2>2. NoFile.there = FALSE /\ NoFile.rows = <<>>
    BY DEF NoFile
  <2>3. File(MeasuredTable).there = TRUE /\ File(MeasuredTable).rows = MeasuredTable
    BY DEF File
  <2> QED  BY <2>1, <2>2, <2>3
<1>4. DOMAIN <<>> = {}
  OBVIOUS
<1>5. ASSUME NEW tool \in Tools
      PROVE  /\ IsTable(table[tool].rows)
             /\ \A k \in DOMAIN table[tool].rows :
                  mode # "workflow" /\ \E case \in Measured : k = MeasuredKey(case)
  BY <1>2, <1>3, <1>4 DEF IsTable
<1>6. ASSUME NEW tool \in Tools PROVE Labelled(table[tool].rows)
  BY <1>5, DistinctKeys DEF Labelled
<1>7. DOMAIN table = Tools
  BY <1>0
<1>8. ScriptTypes
  <2>1. MaxCalls \in Nat
    BY PublicationAssumption
  <2>2. script.calls \in 0..(MaxCalls + 1)
    BY <1>1, <2>1
  <2>3. script = [at |-> script.at, data |-> script.data, calls |-> script.calls]
    BY <1>0, <1>1
  <2>4. \A tool \in DOMAIN script.data : FALSE
    BY <1>1, <1>4
  <2> HIDE DEF Init
  <2> QED  BY ONLY <1>1, <1>3, <1>5, <1>6, <1>7, <2>2, <2>3, <2>4 DEF ScriptTypes
<1>9. FirstCall
  <2>1. \A tool \in Tools : \A k \in DOMAIN table[tool].rows : \E case \in Measured : k = MeasuredKey(case)
    BY <1>5
  <2>2. ~(script.calls > 0)
    BY <1>1
  <2> HIDE DEF Init
  <2> QED  BY ONLY <1>0, <1>1, <2>1, <2>2 DEF FirstCall
<1>10. ASSUME NEW tool \in Tools PROVE Found(tool) = {}
  <2>1. \A c \in Merged : <<tool, c>> \in Jobs
    BY PublicationAssumption DEF Jobs
  <2> QED  BY <1>0, <2>1 DEF Found, NoFile
<1>11. ASSUME NEW tool \in Tools PROVE ToolInv(tool)
  <2>1. Kept(tool) /\ Delivered(tool)
    BY <1>1 DEF Kept, Delivered
  <2>2. NotMissing(tool, table[tool].rows)
    BY <1>10 DEF NotMissing
  <2>3. ~MixedUp(tool) => DOMAIN table[tool].rows = {}
    BY <1>5 DEF MixedUp
  <2> QED  BY <1>1, <2>1, <2>2, <2>3 DEF ToolInv, Unmixed
<1>12. ASSUME mode = "workflow", NEW tool \in Tools PROVE ~MixedUp(tool)
  <2>1. \A j \in Jobs : ~output[j].there
    BY <1>0 DEF NoFile
  <2> QED  BY <1>0, <1>5, <1>12, <2>1 DEF MixedUp
<1> QED  BY <1>0, <1>1, <1>8, <1>9, <1>11, <1>12 DEF ScriptInv

(* A copy that comes after a call is late.                                   *)
LEMMA CopyKeepsScript ==
  ASSUME RunnerInv, ScriptInv, NEW j \in Jobs, Copy(j)
  PROVE  ScriptInv'
<1>0. /\ mode' = mode /\ mode = "by hand" /\ table' = table /\ script' = script /\ fresh' = fresh
      /\ ~output[j].there /\ output' = [output EXCEPT ![j] = results[j]]
      /\ late' = IF script.calls > 0 THEN late \cup {j} ELSE late
  BY DEF Copy
<1>1. /\ \A k \in Jobs \ {j} : output'[k] = output[k]
      /\ \A k \in Jobs : output[k].there => output'[k].there
      /\ late \subseteq late' /\ (script.calls > 0 => j \in late')
  BY <1>0 DEF RunnerInv, RunnerTypes
<1>2. ScriptTypes' /\ FirstCall'
  <2>1. ScriptTypes'
    BY <1>0 DEF ScriptInv, ScriptTypes
  <2>2. FirstCall
    BY DEF ScriptInv
  <2>3. script.calls \in Nat
    BY PublicationAssumption DEF ScriptInv, ScriptTypes
  <2>4. script.calls = 0 => late' = late
    <3>1. script.calls = 0 => ~(script.calls > 0)
      BY <2>3
    <3>2. ~(script.calls > 0) => late' = late
      BY <1>0
    <3> QED  BY <3>1, <3>2
  <2>5. FirstCall'
    BY <1>0, <2>2, <2>4 DEF FirstCall
  <2> QED  BY <2>1, <2>5
<1>3. ASSUME NEW tool \in Tools, MixedUp(tool) PROVE MixedUp(tool)'
  BY <1>0, <1>1, <1>3 DEF MixedUp
<1>4. script.calls \in Nat
  <2>1. script.calls \in 0..(MaxCalls + 1)
    BY DEF ScriptInv, ScriptTypes
  <2> QED  BY <2>1
<1>5. ASSUME NEW tool \in Tools, NEW c \in Found(tool)', <<tool, c>> \notin late', script.calls > 0
      PROVE  c \in Found(tool) /\ <<tool, c>> \notin late
  <2>1. c \in Merged /\ output'[<<tool, c>>].there /\ <<tool, c>> \in Jobs
    BY PublicationAssumption DEF Found, Jobs
  <2>2. <<tool, c>> # j
    BY <1>1, <1>5
  <2> QED  BY <1>1, <1>5, <2>1, <2>2 DEF Found
<1>6. script.at \in {"loaded", "added", "saved", "failed"} => script.calls > 0
  BY <1>4 DEF ScriptInv, FirstCall
<1>7. ASSUME NEW tool \in Tools PROVE ToolInv(tool)'
  <2>0. ToolInv(tool)
    BY DEF ScriptInv
  <2>1. Kept(tool)'
    BY <1>0, <2>0 DEF ToolInv, Kept
  <2>2. Delivered(tool)'
    BY <1>0, <1>5, <1>6, <2>0 DEF ToolInv, Delivered
  <2>3. NotMissing(tool, table[tool].rows)'
    <3>1. CASE script.calls > 0
      BY <1>0, <1>5, <2>0, <3>1 DEF ToolInv, NotMissing
    <3>2. CASE script.calls = 0
      <4>1. \A x : MissingKey(x) \notin DOMAIN table[tool].rows
        BY <3>2, DistinctKeys DEF ScriptInv, FirstCall
      <4> QED  BY <1>0, <4>1 DEF NotMissing
    <3> QED  BY <1>4, <3>1, <3>2
  <2>4. (script.at \in {"loaded", "added"} => NotMissing(tool, script.data[tool]))'
    BY <1>0, <1>5, <1>6, <2>0 DEF ToolInv, NotMissing
  <2>5. ASSUME ~MixedUp(tool)' PROVE Unmixed(tool)'
    <3>1. Unmixed(tool)
      BY <1>3, <2>0, <2>5 DEF ToolInv
    <3>2. CASE script.calls = 0
      <4>1. script.at \in {"idle", "called"}
        BY <3>2 DEF ScriptInv, FirstCall
      <4>2. DOMAIN table[tool].rows = {}
        BY <3>1, <3>2 DEF Unmixed
      <4> QED  BY <1>0, <4>1, <4>2 DEF Unmixed
    <3>3. CASE script.calls > 0
      <4>1. ~(j[1] = tool /\ j[2] \in Merged)
        BY <1>1, <2>5, <3>3 DEF MixedUp
      <4>2. Found(tool)' = Found(tool)
        <5>1. \A c \in Merged : <<tool, c>> \in Jobs \ {j}
          BY <4>1, PublicationAssumption DEF Jobs
        <5> QED  BY <1>1, <5>1 DEF Found
      <4>3. FileKeys(tool)' = FileKeys(tool) /\ OtherKeys(tool)' = OtherKeys(tool)
        BY <4>2 DEF FileKeys, OtherKeys, FoundCases
      <4> QED  BY <1>0, <3>1, <4>3 DEF Unmixed, Full
    <3> QED  BY <1>4, <3>2, <3>3
  <2> QED  BY <2>1, <2>2, <2>3, <2>4, <2>5 DEF ToolInv
<1> QED  BY <1>0, <1>2, <1>3, <1>7 DEF ScriptInv

(* What is in output/ stays there, and is mixed up or not as before, when the *)
(* script reads and when it completes what it has read.                      *)
LEMMA SameOutput ==
  ASSUME mode' = mode, output' = output, late' = late, fresh' = fresh, table' = table
  PROVE  \A tool : /\ Found(tool)' = Found(tool)
                   /\ FileKeys(tool)' = FileKeys(tool) /\ OtherKeys(tool)' = OtherKeys(tool)
                   /\ MixedUp(tool)' <=> MixedUp(tool)
<1>1. \A tool : Found(tool)' = Found(tool) /\ (MixedUp(tool)' <=> MixedUp(tool))
  BY DEF Found, MixedUp
<1> QED  BY <1>1 DEF FileKeys, OtherKeys, FoundCases

(* Reading.                                                                  *)
LEMMA LoadKeepsScript ==
  ASSUME RunnerInv, ScriptInv, Load
  PROVE  ScriptInv'
<1> DEFINE loaded == [tool \in Tools |-> LoadAndMerge(tool)]
<1>0. /\ mode' = mode /\ output' = output /\ table' = table /\ fresh' = fresh /\ late' = late
      /\ script.at = "called"
      /\ script' = [script EXCEPT !.at = "loaded", !.calls = @ + 1, !.data = loaded]
  BY DEF Load, ghosts
<1>1. /\ script.calls \in Nat /\ script.calls <= MaxCalls /\ MaxCalls \in Nat
      /\ script = [at |-> script.at, data |-> script.data, calls |-> script.calls]
  BY <1>0, PublicationAssumption DEF ScriptInv, ScriptTypes
<1> HIDE DEF loaded
<1>2. script' = [at |-> "loaded", data |-> loaded, calls |-> script.calls + 1]
  BY <1>0, <1>1
<1>3. /\ script'.at = "loaded" /\ script'.data = loaded /\ script'.calls = script.calls + 1
      /\ script'.calls > 0 /\ script'.calls \in 0..(MaxCalls + 1)
  BY <1>1, <1>2
<1>4. DOMAIN loaded = Tools /\ \A tool \in Tools : loaded[tool] = LoadAndMerge(tool)
  BY DEF loaded
<1>5. \A tool \in Tools : IsTable(table[tool].rows) /\ Labelled(table[tool].rows)
  BY DEF ScriptInv, ScriptTypes
<1>6. ASSUME NEW tool \in Tools
      PROVE  /\ IsTable(loaded[tool]) /\ Labelled(loaded[tool])
             /\ DOMAIN table[tool].rows \subseteq DOMAIN loaded[tool]
             /\ \A x : MeasuredKey(x) \in DOMAIN loaded[tool] => MeasuredKey(x) \in DOMAIN table[tool].rows
             /\ \A x : MissingKey(x) \in DOMAIN loaded[tool] => MissingKey(x) \in DOMAIN table[tool].rows
             /\ \A c \in Found(tool) : \A i \in 1..NumCases(c) : CategoryKey(c, i) \in DOMAIN loaded[tool]
             /\ ~MixedUp(tool) => DOMAIN loaded[tool] = FileKeys(tool) \cup DOMAIN table[tool].rows
  BY <1>4, <1>5, LoadedTable
<1>7. ScriptTypes'
  <2>1. script' = [at |-> script'.at, data |-> script'.data, calls |-> script'.calls]
    BY <1>2, <1>3
  <2>2. \A tool \in Tools : /\ table[tool].there \in BOOLEAN
                            /\ IsTable(table[tool].rows) /\ Labelled(table[tool].rows)
    BY DEF ScriptInv, ScriptTypes
  <2>3. \A tool \in Tools : (IsTable(table[tool].rows) /\ Labelled(table[tool].rows))'
    BY <1>0, <2>2 DEF IsTable, IsEntry, Labelled
  <2>4. \A tool \in Tools : (IsTable(script.data[tool]) /\ Labelled(script.data[tool]))'
    BY <1>3, <1>6 DEF IsTable, IsEntry, Labelled
  <2>5. DOMAIN table = Tools
    BY DEF ScriptInv, ScriptTypes
  <2> QED  BY <1>0, <1>3, <1>4, <2>1, <2>2, <2>3, <2>4, <2>5 DEF ScriptTypes
<1>8. FirstCall'
  BY <1>1, <1>3 DEF FirstCall
<1>9. ASSUME NEW tool \in Tools PROVE ToolInv(tool)'
  <2>0. ToolInv(tool)
    BY DEF ScriptInv
  <2>1. Kept(tool)'
    BY <1>0, <1>3, <1>6 DEF Kept
  <2>2. Delivered(tool)'
    BY <1>0, <1>3, <1>6, SameOutput DEF Delivered
  <2>3. NotMissing(tool, table[tool].rows)'
    BY <1>0, <2>0, SameOutput DEF ToolInv, NotMissing
  <2>4. NotMissing(tool, script.data[tool])'
    BY <1>0, <1>3, <1>6, <2>0, SameOutput DEF ToolInv, NotMissing
  <2>5. ASSUME ~MixedUp(tool)' PROVE Unmixed(tool)'
    <3>1. ~MixedUp(tool) /\ Unmixed(tool)
      BY <1>0, <2>0, <2>5, SameOutput DEF ToolInv
    <3>2. FileKeys(tool)' = FileKeys(tool) /\ OtherKeys(tool)' = OtherKeys(tool)
      BY <1>0, SameOutput
    <3>3. DOMAIN loaded[tool] = FileKeys(tool) \cup DOMAIN table[tool].rows
      BY <1>6, <3>1
    <3> QED  BY <1>0, <1>3, <3>1, <3>2, <3>3 DEF Unmixed, Full
  <2> QED  BY <2>1, <2>2, <2>3, <2>4, <2>5 DEF ToolInv
<1>10. (mode = "workflow" => late = {} /\ \A tool \in Tools : ~MixedUp(tool))'
  BY <1>0, SameOutput DEF ScriptInv
<1> QED  BY <1>3, <1>7, <1>8, <1>9, <1>10 DEF ScriptInv

(* Completing: a table that is not mixed up has each case, so that the       *)
(* assertion holds of it.                                                    *)
LEMMA AddMissingKeepsScript ==
  ASSUME ScriptInv, AddMissing
  PROVE  ScriptInv'
<1> DEFINE data == [tool \in Tools |-> Completed(script.data[tool])]
           at == IF \A tool \in Tools : Complete(data[tool]) THEN "added" ELSE "failed"
<1>0. /\ mode' = mode /\ output' = output /\ table' = table /\ fresh' = fresh /\ late' = late
      /\ script.at = "loaded"
      /\ script' = [script EXCEPT !.data = data, !.at = at]
  BY DEF AddMissing, ghosts
<1>1. /\ script.calls \in 0..(MaxCalls + 1) /\ script.calls > 0
      /\ script = [at |-> script.at, data |-> script.data, calls |-> script.calls]
  <2>1. /\ script.calls \in 0..(MaxCalls + 1) /\ MaxCalls \in Nat
        /\ script = [at |-> script.at, data |-> script.data, calls |-> script.calls]
    BY PublicationAssumption DEF ScriptInv, ScriptTypes
  <2>2. script.calls # 0
    BY <1>0 DEF ScriptInv, FirstCall
  <2> QED  BY <2>1, <2>2
<1>2. at \in {"added", "failed"}
  OBVIOUS
<1>3. at = "failed" => \E tool \in Tools : ~Complete(data[tool])
  OBVIOUS
<1>4. DOMAIN data = Tools /\ \A tool \in Tools : data[tool] = Completed(script.data[tool])
  OBVIOUS
<1> HIDE DEF data, at
<1>5. script' = [at |-> at, data |-> data, calls |-> script.calls]
  BY <1>0, <1>1
<1>6. script'.at = at /\ script'.data = data /\ script'.calls = script.calls
  BY <1>5
<1>7. \A tool \in Tools : IsTable(script.data[tool]) /\ Labelled(script.data[tool])
  BY <1>0 DEF ScriptInv, ScriptTypes
<1>8. ASSUME NEW tool \in Tools
      PROVE  /\ IsTable(data[tool]) /\ Labelled(data[tool])
             /\ DOMAIN script.data[tool] \subseteq DOMAIN data[tool]
             /\ \A x : MeasuredKey(x) \in DOMAIN data[tool] => MeasuredKey(x) \in DOMAIN script.data[tool]
             /\ \A case \in Cases : MissingKey(case) \in DOMAIN data[tool] =>
                  MissingKey(case) \in DOMAIN script.data[tool] \/ ~HasCase(script.data[tool], case)
  BY <1>4, <1>7, CompletedTable
<1>9. ASSUME NEW tool \in Tools, ~MixedUp(tool) PROVE Full(tool, data[tool])
  <2>1. Unmixed(tool)
    BY <1>9 DEF ScriptInv, ToolInv
  <2>2. DOMAIN script.data[tool] = FileKeys(tool) \/ Full(tool, script.data[tool])
    BY <1>0, <2>1 DEF Unmixed
  <2> QED  BY <1>4, <1>7, <2>2, CompletedIsFull
<1>10. ScriptTypes'
  <2>1. script' = [at |-> script'.at, data |-> script'.data, calls |-> script'.calls]
    BY <1>5, <1>6
  <2>2. \A tool \in Tools : /\ table[tool].there \in BOOLEAN
                            /\ IsTable(table[tool].rows) /\ Labelled(table[tool].rows)
    BY DEF ScriptInv, ScriptTypes
  <2>3. \A tool \in Tools : (IsTable(table[tool].rows) /\ Labelled(table[tool].rows))'
    BY <1>0, <2>2 DEF IsTable, IsEntry, Labelled
  <2>4. \A tool \in Tools : (IsTable(script.data[tool]) /\ Labelled(script.data[tool]))'
    BY <1>6, <1>8 DEF IsTable, IsEntry, Labelled
  <2>5. DOMAIN table = Tools
    BY DEF ScriptInv, ScriptTypes
  <2> QED  BY <1>0, <1>1, <1>2, <1>4, <1>6, <2>1, <2>2, <2>3, <2>4, <2>5 DEF ScriptTypes
<1>11. FirstCall'
  <2>1. script'.calls # 0 /\ script'.at # "idle"
    BY <1>1, <1>2, <1>6
  <2> QED  BY <2>1 DEF FirstCall
<1>12. ASSUME NEW tool \in Tools PROVE ToolInv(tool)'
  <2>0. ToolInv(tool)
    BY DEF ScriptInv
  <2>1. Kept(tool)'
    <3>1. /\ DOMAIN table[tool].rows \subseteq DOMAIN script.data[tool]
          /\ \A case \in Cases : MeasuredKey(case) \in DOMAIN script.data[tool] =>
                                   MeasuredKey(case) \in DOMAIN table[tool].rows
      BY <1>0, <2>0 DEF ToolInv, Kept
    <3> QED  BY <1>0, <1>6, <1>8, <3>1 DEF Kept
  <2>2. Delivered(tool)'
    BY <1>0, <1>6, <1>8, <2>0, SameOutput DEF ToolInv, Delivered
  <2>3. NotMissing(tool, table[tool].rows)'
    BY <1>0, <2>0, SameOutput DEF ToolInv, NotMissing
  <2>4. NotMissing(tool, data[tool])
    <3> SUFFICES ASSUME NEW c \in Found(tool), <<tool, c>> \notin late, NEW i \in 1..NumCases(c)
                 PROVE  MissingKey(CasesOf[c][i]) \notin DOMAIN data[tool]
      BY DEF NotMissing
    <3>1. c \in Categories /\ CasesOf[c][i] \in Cases
      BY PublicationAssumption, CasesOfCategory DEF Found
    <3>2. MissingKey(CasesOf[c][i]) \notin DOMAIN script.data[tool]
      BY <1>0, <2>0 DEF ToolInv, NotMissing
    <3>3. CategoryKey(c, i) \in DOMAIN script.data[tool]
      BY <1>0, <2>0 DEF ToolInv, Delivered
    <3>4. HasCase(script.data[tool], CasesOf[c][i])
      BY <1>7, <3>1, <3>3 DEF HasCase, Labelled
    <3> QED  BY <1>8, <3>1, <3>2, <3>4
  <2>5. NotMissing(tool, script.data[tool])'
    BY <1>0, <1>6, <2>4, SameOutput DEF NotMissing
  <2>6. ASSUME ~MixedUp(tool)' PROVE Unmixed(tool)'
    <3>1. ~MixedUp(tool) /\ Unmixed(tool)
      BY <1>0, <2>0, <2>6, SameOutput DEF ToolInv
    <3>2. FileKeys(tool)' = FileKeys(tool) /\ OtherKeys(tool)' = OtherKeys(tool)
      BY <1>0, SameOutput
    <3>3. Full(tool, data[tool])
      BY <1>9, <3>1
    <3> QED  BY <1>0, <1>2, <1>6, <3>1, <3>2, <3>3 DEF Unmixed, Full
  <2> QED  BY <2>1, <2>2, <2>3, <2>5, <2>6 DEF ToolInv
<1>13. script'.at = "failed" => \E tool \in Tools : MixedUp(tool)'
  <2> SUFFICES ASSUME at = "failed" PROVE \E tool \in Tools : MixedUp(tool)'
    BY <1>6
  <2>1. PICK tool \in Tools : ~Complete(data[tool])
    BY <1>3
  <2>2. MixedUp(tool)
    BY <1>8, <1>9, <2>1, FullTable
  <2> QED  BY <1>0, <2>2, SameOutput
<1>14. (mode = "workflow" => late = {} /\ \A tool \in Tools : ~MixedUp(tool))'
  BY <1>0, SameOutput DEF ScriptInv
<1> QED  BY <1>10, <1>11, <1>12, <1>13, <1>14 DEF ScriptInv

(* Saving: what was read and completed becomes the table.                    *)
LEMMA SaveKeepsScript ==
  ASSUME ScriptInv, SaveData
  PROVE  ScriptInv'
<1>0. /\ mode' = mode /\ output' = output /\ fresh' = fresh /\ late' = late
      /\ script.at = "added"
      /\ table' = [tool \in Tools |-> File(script.data[tool])]
      /\ script' = [script EXCEPT !.at = "saved", !.data = <<>>]
  BY DEF SaveData, ghosts
<1>1. /\ script.calls \in 0..(MaxCalls + 1) /\ script.calls > 0
      /\ script = [at |-> script.at, data |-> script.data, calls |-> script.calls]
  <2>1. /\ script.calls \in 0..(MaxCalls + 1) /\ MaxCalls \in Nat
        /\ script = [at |-> script.at, data |-> script.data, calls |-> script.calls]
    BY PublicationAssumption DEF ScriptInv, ScriptTypes
  <2>2. script.calls # 0
    BY <1>0 DEF ScriptInv, FirstCall
  <2> QED  BY <2>1, <2>2
<1>2. script' = [at |-> "saved", data |-> <<>>, calls |-> script.calls]
  BY <1>0, <1>1
<1>3. script'.at = "saved" /\ script'.data = <<>> /\ script'.calls = script.calls
  BY <1>2
<1>4. DOMAIN table' = Tools
      /\ \A tool \in Tools : table'[tool].there = TRUE /\ table'[tool].rows = script.data[tool]
  BY <1>0 DEF File
<1>5. \A tool \in Tools : IsTable(script.data[tool]) /\ Labelled(script.data[tool])
  BY <1>0 DEF ScriptInv, ScriptTypes
<1>6. \A tool \in Tools :
        /\ DOMAIN table[tool].rows \subseteq DOMAIN script.data[tool]
        /\ \A case \in Cases : MeasuredKey(case) \in DOMAIN script.data[tool] =>
                                 MeasuredKey(case) \in DOMAIN table[tool].rows
  BY <1>0 DEF ScriptInv, ToolInv, Kept
<1>7. \A tool \in Tools :
        /\ Found(tool)' = Found(tool) /\ FileKeys(tool)' = FileKeys(tool)
        /\ OtherKeys(tool)' = OtherKeys(tool) /\ (MixedUp(tool)' <=> MixedUp(tool))
  <2>1. \A tool : Found(tool)' = Found(tool)
    BY <1>0 DEF Found
  <2>2. \A tool \in Tools : MixedUp(tool)' <=> MixedUp(tool)
    BY <1>0, <1>4, <1>6, PublicationAssumption DEF MixedUp
  <2> QED  BY <2>1, <2>2 DEF FileKeys, OtherKeys, FoundCases
<1>8. ScriptTypes'
  <2>1. script' = [at |-> script'.at, data |-> script'.data, calls |-> script'.calls]
    BY <1>2, <1>3
  <2>2. ASSUME NEW tool \in Tools
        PROVE  (/\ table[tool].there \in BOOLEAN
                /\ IsTable(table[tool].rows) /\ Labelled(table[tool].rows))'
    <3>1. table'[tool].there \in BOOLEAN /\ table'[tool].rows = script.data[tool]
      BY <1>4
    <3>2. IsTable(table[tool].rows)'
      BY <1>5, <3>1 DEF IsTable, IsEntry
    <3>3. Labelled(table[tool].rows)'
      BY <1>5, <3>1 DEF Labelled
    <3> QED  BY <3>1, <3>2, <3>3
  <2>3. \A tool \in DOMAIN script'.data : FALSE
    BY <1>3
  <2> QED  BY <1>1, <1>3, <1>4, <2>1, <2>2, <2>3 DEF ScriptTypes
<1>9. FirstCall'
  <2>1. script'.calls # 0 /\ script'.at # "idle"
    BY <1>1, <1>3
  <2> QED  BY <2>1 DEF FirstCall
<1>10. ASSUME NEW tool \in Tools PROVE ToolInv(tool)'
  <2>0. ToolInv(tool)
    BY DEF ScriptInv
  <2>1. Kept(tool)' /\ Delivered(tool)'
    BY <1>3 DEF Kept, Delivered
  <2>2. NotMissing(tool, table[tool].rows)'
    BY <1>0, <1>4, <1>7, <2>0 DEF ToolInv, NotMissing
  <2>3. ASSUME ~MixedUp(tool)' PROVE Unmixed(tool)'
    <3>1. Full(tool, script.data[tool])
      BY <1>0, <1>7, <2>0, <2>3 DEF ToolInv, Unmixed
    <3> QED  BY <1>1, <1>3, <1>4, <1>7, <3>1 DEF Unmixed, Full
  <2> QED  BY <1>3, <2>1, <2>2, <2>3 DEF ToolInv
<1>11. (mode = "workflow" => late = {} /\ \A tool \in Tools : ~MixedUp(tool))'
  BY <1>0, <1>7 DEF ScriptInv
<1> QED  BY <1>3, <1>8, <1>9, <1>10, <1>11 DEF ScriptInv

(* A call begins.                                                            *)
LEMMA CallKeepsScript ==
  ASSUME ScriptInv, Call
  PROVE  ScriptInv'
<1>0. /\ mode' = mode /\ output' = output /\ table' = table /\ fresh' = fresh /\ late' = late
      /\ script.at \in {"idle", "saved", "failed"} /\ script.calls < MaxCalls
      /\ script' = [script EXCEPT !.at = "called"]
  BY DEF Call, ghosts
<1>1. /\ script.calls \in 0..(MaxCalls + 1) /\ MaxCalls \in Nat /\ script.calls <= MaxCalls
      /\ script = [at |-> script.at, data |-> script.data, calls |-> script.calls]
  <2>1. /\ script.calls \in 0..(MaxCalls + 1) /\ MaxCalls \in Nat
        /\ script = [at |-> script.at, data |-> script.data, calls |-> script.calls]
    BY PublicationAssumption DEF ScriptInv, ScriptTypes
  <2> QED  BY <1>0, <2>1
<1>2. script' = [at |-> "called", data |-> script.data, calls |-> script.calls]
  BY <1>0, <1>1
<1>3. script'.at = "called" /\ script'.data = script.data /\ script'.calls = script.calls
  BY <1>2
<1>4. ScriptTypes'
  <2>1. script' = [at |-> script'.at, data |-> script'.data, calls |-> script'.calls]
    BY <1>2, <1>3
  <2>2. ScriptTypes
    BY DEF ScriptInv
  <2>3. \A tool \in Tools : (/\ table[tool].there \in BOOLEAN
                             /\ IsTable(table[tool].rows) /\ Labelled(table[tool].rows))'
    BY <1>0, <2>2 DEF ScriptTypes, IsTable, IsEntry, Labelled
  <2>4. \A tool \in DOMAIN script.data : (IsTable(script.data[tool]) /\ Labelled(script.data[tool]))'
    BY <1>3, <2>2 DEF ScriptTypes, IsTable, IsEntry, Labelled
  <2>5. DOMAIN table = Tools /\ (script.data = <<>> \/ DOMAIN script.data = Tools)
    BY <2>2 DEF ScriptTypes
  <2> QED  BY <1>0, <1>1, <1>3, <2>1, <2>3, <2>4, <2>5 DEF ScriptTypes
<1>5. FirstCall'
  <2>1. FirstCall
    BY DEF ScriptInv
  <2>2. script'.at # "idle"
    BY <1>3
  <2> QED  BY <1>0, <1>3, <2>1, <2>2 DEF FirstCall
<1>6. ASSUME NEW tool \in Tools PROVE ToolInv(tool)'
  <2>0. ToolInv(tool)
    BY DEF ScriptInv
  <2>1. Kept(tool)' /\ Delivered(tool)'
    BY <1>3 DEF Kept, Delivered
  <2>2. NotMissing(tool, table[tool].rows)'
    BY <1>0, <2>0, SameOutput DEF ToolInv, NotMissing
  <2>3. ASSUME ~MixedUp(tool)' PROVE Unmixed(tool)'
    <3>1. Unmixed(tool)
      BY <1>0, <2>0, <2>3, SameOutput DEF ToolInv
    <3>2. FileKeys(tool)' = FileKeys(tool) /\ OtherKeys(tool)' = OtherKeys(tool)
      BY <1>0, SameOutput
    <3> QED  BY <1>0, <1>3, <3>1, <3>2 DEF Unmixed, Full
  <2> QED  BY <1>3, <2>1, <2>2, <2>3 DEF ToolInv
<1>7. (mode = "workflow" => late = {} /\ \A tool \in Tools : ~MixedUp(tool))'
  BY <1>0, SameOutput DEF ScriptInv
<1> QED  BY <1>3, <1>4, <1>5, <1>6, <1>7 DEF ScriptInv


(* The only call of the workflow begins, and finds nothing at all.           *)
LEMMA GenerateKeepsScript ==
  ASSUME RunnerInv, ScriptInv, GenerateVisualization
  PROVE  ScriptInv'
<1>0. /\ mode' = mode /\ mode = "workflow" /\ output' = output /\ table' = table
      /\ late' = late /\ fresh' = fresh /\ script.at = "idle" /\ script' = [script EXCEPT !.at = "called"]
  BY DEF GenerateVisualization, ghosts
<1>1. /\ script.calls = 0 /\ MaxCalls \in Nat
      /\ script = [at |-> script.at, data |-> script.data, calls |-> script.calls]
  <2>1. /\ script.calls \in 0..(MaxCalls + 1) /\ MaxCalls \in Nat
        /\ script = [at |-> script.at, data |-> script.data, calls |-> script.calls]
    BY PublicationAssumption DEF ScriptInv, ScriptTypes
  <2>2. ~(script.calls > 0)
    BY <1>0 DEF ScriptInv, FirstCall
  <2> QED  BY <2>1, <2>2
<1>2. script' = [at |-> "called", data |-> script.data, calls |-> 0]
  BY <1>0, <1>1
<1>3. script'.at = "called" /\ script'.data = script.data /\ script'.calls = 0
  BY <1>2
<1>4. late = {} /\ \A tool \in Tools : ~MixedUp(tool)
  BY <1>0 DEF ScriptInv
<1>5. \A tool \in Tools : \A k \in DOMAIN table[tool].rows : \E case \in Measured : k = MeasuredKey(case)
  BY <1>1 DEF ScriptInv, FirstCall
<1>6. \A tool \in Tools : DOMAIN table[tool].rows = {}
  BY <1>4, <1>5 DEF MixedUp
<1>7. ScriptTypes'
  <2>1. script' = [at |-> script'.at, data |-> script'.data, calls |-> script'.calls]
    BY <1>2, <1>3
  <2>2. ScriptTypes
    BY DEF ScriptInv
  <2>3. \A tool \in Tools : (/\ table[tool].there \in BOOLEAN
                             /\ IsTable(table[tool].rows) /\ Labelled(table[tool].rows))'
    BY <1>0, <2>2 DEF ScriptTypes, IsTable, IsEntry, Labelled
  <2>4. \A tool \in DOMAIN script.data : (IsTable(script.data[tool]) /\ Labelled(script.data[tool]))'
    BY <1>3, <2>2 DEF ScriptTypes, IsTable, IsEntry, Labelled
  <2>5. DOMAIN table = Tools /\ (script.data = <<>> \/ DOMAIN script.data = Tools)
    BY <2>2 DEF ScriptTypes
  <2> QED  BY <1>0, <1>1, <1>3, <2>1, <2>3, <2>4, <2>5 DEF ScriptTypes
<1>8. FirstCall'
  <2>1. ~(script'.calls > 0)
    BY <1>3
  <2> QED  BY <1>0, <1>3, <1>4, <1>5, <2>1 DEF FirstCall
<1>9. \A tool \in Tools : MixedUp(tool)' <=> FALSE
  BY <1>0, <1>4, SameOutput
<1>10. ASSUME NEW tool \in Tools PROVE ToolInv(tool)'
  <2>1. Kept(tool)' /\ Delivered(tool)'
    BY <1>3 DEF Kept, Delivered
  <2>2. NotMissing(tool, table[tool].rows)'
    BY <1>0, <1>6 DEF NotMissing
  <2>3. Unmixed(tool)'
    BY <1>0, <1>3, <1>6 DEF Unmixed
  <2> QED  BY <1>3, <2>1, <2>2, <2>3 DEF ToolInv
<1> QED  BY <1>0, <1>3, <1>4, <1>7, <1>8, <1>9, <1>10 DEF ScriptInv
-----------------------------------------------------------------------------
(* The invariant is inductive.                                               *)
LEMMA ScriptInductive == RunnerInv /\ RunnerInv' /\ ScriptInv /\ [Next]_vars => ScriptInv'
<1> SUFFICES ASSUME RunnerInv, RunnerInv', ScriptInv, [Next]_vars PROVE ScriptInv'
  OBVIOUS
<1>1. ASSUME NEW j \in Jobs, Start(j) PROVE ScriptInv'
  <2>1. /\ mode' = mode /\ output' = output /\ table' = table /\ script' = script /\ late' = late
        /\ job[j].at = "queued" /\ fresh' \in {fresh, fresh \cup {j}}
    BY <1>1 DEF Start, Goes
  <2>2. ~output[j].there
    BY <2>1 DEF RunnerInv, JobInv, Orderly, NoFile
  <2>3. \A k \in Jobs : output[k].there => (k \in fresh' <=> k \in fresh)
    BY <2>1, <2>2
  <2> QED  BY <2>1, <2>3, ScriptKeeps
<1>2. ASSUME NEW j \in Jobs, NoCategory(j) \/ ExecuteTool(j) \/ Parse(j) \/ JobFails(j)
      PROVE  ScriptInv'
  <2>1. /\ mode' = mode /\ output' = output /\ table' = table /\ script' = script
        /\ late' = late /\ fresh' = fresh
    BY <1>2 DEF NoCategory, ExecuteTool, Parse, JobFails, ghosts
  <2> QED  BY <2>1, ScriptKeeps
<1>3. CASE UNCHANGED vars
  BY <1>3, ScriptKeeps DEF vars, ghosts
<1> QED  BY <1>1, <1>2, <1>3, CopyKeepsScript, GenerateKeepsScript, CallKeepsScript,
            LoadKeepsScript, AddMissingKeepsScript, SaveKeepsScript DEF Next

LEMMA Invariance == Spec => []IInv
<1>1. Init => IInv
  BY RunnerInit, ScriptInit DEF IInv
<1>2. IInv /\ [Next]_vars => IInv'
  BY RunnerInductive, ScriptInductive DEF IInv
<1> QED  BY <1>1, <1>2, PTL DEF Spec

(* A file of results has the verdict and the signals of the executions of    *)
(* its own cases, for any number of tools, categories and cases, and whatever *)
(* the executions leave.                                                     *)
THEOREM RightRows == Spec => []RowsAreOfTheirRuns
<1>1. IInv => RowsAreOfTheirRuns
  BY RowsByJob DEF IInv, RunnerInv, JobInv
<1> QED  BY <1>1, Invariance, PTL

(* A row says that a tool crashed on a case only if there was no file of its  *)
(* category to merge, and then, if nothing is mixed up, it does.              *)
THEOREM MissingIsMissing == Spec => []MissingIffNotFound
<1>1. IInv => MissingIffNotFound
  <2> SUFFICES ASSUME IInv, NEW tool \in Tools, NEW c \in Categories, NEW i \in 1..NumCases(c)
               PROVE  /\ MissingKey(CasesOf[c][i]) \in DOMAIN table[tool].rows =>
                           c \notin Found(tool) \/ <<tool, c>> \in late
                      /\ script.at = "saved" /\ ~MixedUp(tool) /\ c \notin Found(tool) =>
                           MissingKey(CasesOf[c][i]) \in DOMAIN table[tool].rows
    BY DEF MissingIffNotFound, Found, NumCases
  <2>1. ToolInv(tool)
    BY DEF IInv, ScriptInv
  <2>2. MissingKey(CasesOf[c][i]) \in DOMAIN table[tool].rows =>
          c \notin Found(tool) \/ <<tool, c>> \in late
    BY <2>1 DEF ToolInv, NotMissing
  <2>3. ASSUME script.at = "saved", ~MixedUp(tool), c \notin Found(tool)
        PROVE  MissingKey(CasesOf[c][i]) \in DOMAIN table[tool].rows
    <3>1. Full(tool, table[tool].rows)
      BY <2>1, <2>3 DEF ToolInv, Unmixed
    <3>2. Found(tool) \subseteq Categories
      BY PublicationAssumption DEF Found
    <3>3. \A d \in Found(tool) : \A k \in 1..NumCases(d) : CasesOf[d][k] # CasesOf[c][i]
      BY <2>3, <3>2, PublicationAssumption DEF NumCases
    <3>4. CasesOf[c][i] \in Cases \ FoundCases(tool)
      BY <3>3, CasesOfCategory DEF FoundCases
    <3> QED  BY <3>1, <3>4 DEF Full, OtherKeys
  <2> QED  BY <2>2, <2>3
<1> QED  BY <1>1, Invariance, PTL

(* The workflow enters every case as one on which the tool crashed, whatever  *)
(* its jobs have found: the script looks for no file where they are unpacked. *)
THEOREM WorkflowPublishesCrashes ==
  Spec => [](mode = "workflow" /\ script.at = "saved" =>
               \A tool \in Tools : DOMAIN table[tool].rows = {MissingKey(case) : case \in Cases})
<1>1. IInv => (mode = "workflow" /\ script.at = "saved" =>
                 \A tool \in Tools : DOMAIN table[tool].rows = {MissingKey(case) : case \in Cases})
  <2> SUFFICES ASSUME IInv, mode = "workflow", script.at = "saved", NEW tool \in Tools
               PROVE  DOMAIN table[tool].rows = {MissingKey(case) : case \in Cases}
    OBVIOUS
  <2>1. Full(tool, table[tool].rows)
    BY DEF IInv, ScriptInv, ToolInv, Unmixed
  <2>2. \A c \in Merged : ~output[<<tool, c>>].there
    <3>1. \A c \in Merged : <<tool, c>> \in Jobs
      BY PublicationAssumption DEF Jobs
    <3> QED  BY <3>1 DEF IInv, RunnerInv, JobInv, Orderly, NoFile
  <2>3. Found(tool) = {}
    BY <2>2 DEF Found
  <2> QED  BY <2>1, <2>3 DEF Full, FileKeys, OtherKeys, FoundCases
<1> QED  BY <1>1, Invariance, PTL

(* The assertion of add_missing_data.py holds and each case has one row, for *)
(* each tool of which nothing was mixed up; in the workflow nothing ever is. *)
THEOREM OncePerCase == Spec => []PublishedOncePerCase
<1>1. IInv => PublishedOncePerCase
  <2> SUFFICES ASSUME IInv PROVE PublishedOncePerCase
    OBVIOUS
  <2> USE DEF IInv
  <2>1. ASSUME script.at = "saved", NEW tool \in Tools, ~MixedUp(tool) PROVE EachOnce(tool)
    <3>1. Full(tool, table[tool].rows) /\ Labelled(table[tool].rows)
      BY <2>1 DEF ScriptInv, ToolInv, Unmixed, ScriptTypes
    <3> QED  BY <3>1, FullTable DEF EachOnce, Entries
  <2> QED  BY <2>1 DEF ScriptInv, PublishedOncePerCase
<1> QED  BY <1>1, Invariance, PTL

(* The jobs, the files and the tables hold what their readers take them to.  *)
THEOREM TypeCorrect == Spec => []TypeOK
<1>1. IInv => TypeOK
  <2> SUFFICES ASSUME IInv PROVE TypeOK
    OBVIOUS
  <2> USE DEF IInv
  <2>1. job \in [Jobs -> [at : {"queued", "running", "over", "failed"}, done : 0..Cardinality(Cases)]]
    <3>1. job \in [Jobs -> [at : {"queued", "running", "over", "failed"}, done : Nat]]
      BY DEF RunnerInv, RunnerTypes
    <3>2. ASSUME NEW j \in Jobs PROVE job[j].done \in 0..Cardinality(Cases)
      <4>1. NumCases(j[2]) \in Nat /\ NumCases(j[2]) <= Cardinality(Cases) /\ Cardinality(Cases) \in Nat
        BY PlaceOfJob, CasesOfCategory
      <4>2. job[j].done \in Nat /\ job[j].done <= NumCases(j[2])
        BY <3>1 DEF RunnerInv, Bounded
      <4> QED  BY <4>1, <4>2
    <3> QED  BY <3>1, <3>2
  <2>2. \A p \in Tools \X Places : \A i \in 1..Len(dirs[p]) : dirs[p][i].case \in Cases
    <3> SUFFICES ASSUME NEW p \in Tools \X Places, NEW i \in 1..Len(dirs[p])
                 PROVE  dirs[p][i].case \in Cases
      OBVIOUS
    <3>1. dirs[p] \in Seq(Directory)
      BY DEF RunnerInv, RunnerTypes
    <3>2. dirs[p][i] \in Directory
      BY <3>1, ElementOfSeq
    <3> QED  BY <3>2 DEF Directory
  <2>3. \A j \in Jobs : \A file \in {results[j], output[j], unpacked[j]} :
          file.there \in BOOLEAN /\ \A i \in 1..Len(file.rows) : IsEntry(file.rows[i])
    <3> SUFFICES ASSUME NEW file \in FileType
                 PROVE  file.there \in BOOLEAN /\ \A i \in 1..Len(file.rows) : IsEntry(file.rows[i])
      BY DEF RunnerInv, RunnerTypes
    <3>1. file.rows \in Seq(EntryType)
      BY DEF FileType
    <3>2. \A i \in 1..Len(file.rows) : file.rows[i] \in EntryType
      BY <3>1, ElementOfSeq
    <3> QED  BY <3>2 DEF FileType, EntryType, RowType, IsEntry
  <2>4. /\ \A tool \in Tools : table[tool].there \in BOOLEAN /\ IsTable(table[tool].rows)
        /\ script.at \in {"idle", "called", "loaded", "added", "saved", "failed"}
        /\ script.calls \in 0..(MaxCalls + 1)
        /\ \A tool \in DOMAIN script.data : IsTable(script.data[tool])
    BY DEF ScriptInv, ScriptTypes
  <2> QED  BY <2>1, <2>2, <2>3, <2>4 DEF TypeOK, RunnerInv, RunnerTypes
<1> QED  BY <1>1, Invariance, PTL
=============================================================================
