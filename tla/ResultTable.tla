---------------------------- MODULE ResultTable ----------------------------
(***************************************************************************)
(* The pure rules from a tool's output to its score: the parse-output.py   *)
(* of each tool, the row that Parser.py writes for one execution of a      *)
(* case, the sum of rows in gather_results.py, and reduce_data, which      *)
(* keeps the strongest verdict of a case.                                  *)
(*                                                                         *)
(* A log is the output file of a tool: whether it can be read, and which   *)
(* of the phrases that are searched for it contains.                       *)
(***************************************************************************)
EXTENDS ParserRules

MustPhrases == {"Error", "Warning", "data race", "no MPI usage errors"}
ItacPhrases == {"ERROR:", "Signal 11", "error class", "WARNING:", "INFO:"}
ParcoachPhrases == {"some warning(s)", "0 warning(s)"}
MpiCheckerPhrases == {"mpi-type-mismatch", "deadlock", "mpi-buffer-deref", "argument invalid",
                      "no matching wait", "buffer misused", "missing commit"}
MpiCheckerName == "clang-analyzer-optin.mpi.MPI-Checker"

\* An entry that is known to be an error counts; a data race that ThreadSanitizer
\* logged is looked at only when MUST itself reports neither error nor warning.
MustErrorFound(log) ==
  CASE ~log.readable -> -1
    [] log.readable /\ "Error" \in log.says -> 1
    [] log.readable /\ log.says \cap {"Error", "Warning"} = {"Warning"} -> -2
    [] log.readable /\ log.says \cap {"Error", "Warning"} = {} ->
         IF "data race" \in log.says THEN 1 ELSE IF "no MPI usage errors" \in log.says THEN 0 ELSE -1

\* A crash of the tool is no verdict unless some process named an error class.
ItacErrorFound(log) ==
  CASE ~log.readable \/ log.says = {} -> -1
    [] log.readable /\ "ERROR:" \in log.says ->
         IF "Signal 11" \notin log.says \/ "error class" \in log.says THEN 1 ELSE -1
    [] log.readable /\ log.says \cap {"ERROR:", "WARNING:"} = {"WARNING:"} -> -2
    [] log.readable /\ log.says \cap {"ERROR:", "WARNING:"} = {} ->
         IF "INFO:" \in log.says THEN 0 ELSE -1

\* PARCOACH: the numbers in front of "warning(s) issued", added up.
ParcoachErrorFound(log) ==
  CASE ~log.readable \/ log.says \cap ParcoachPhrases = {} -> -1
    [] log.readable /\ "some warning(s)" \in log.says -> 1
    [] OTHER -> 0

\* MPI-Checker: in the text in lower case nothing can match the name of its check,
\* which has capital letters; an empty output is one in which nothing was found.
LowerCase(says) == says \ {MpiCheckerName}
MpiCheckerErrorFound(log) ==
  IF LowerCase(log.says) \cap (MpiCheckerPhrases \cup {MpiCheckerName}) # {} THEN 1 ELSE 0

ErrorFound(tool, log) ==
  CASE tool = "MUST" -> MustErrorFound(log)
    [] tool = "ITAC" -> ItacErrorFound(log)
    [] tool = "PARCOACH" -> ParcoachErrorFound(log)
    [] OTHER -> MpiCheckerErrorFound(log)

\* What a run leaves where an earlier one has left its log.  MUST replaces its report
\* when it gets to write one, and adds to the logs of ThreadSanitizer; the output of
\* the other tools is redirected into the file, which so replaces the old one.
LogAfter(tool, old, new) ==
  IF tool # "MUST" THEN new
  ELSE [readable |-> old.readable \/ new.readable,
        says |-> (IF new.readable THEN new.says \ {"data race"} ELSE old.says)
                   \cup ((old.says \cup new.says) \cap {"data race"})]
-----------------------------------------------------------------------------
Columns == {"TP", "TN", "FP", "FN", "TW", "FW", "ERR"}
Zeros == [c \in Columns |-> 0]
One(column) == [Zeros EXCEPT ![column] = 1]

\* Mutant: a warning about a correct case counts as a warning about an erroneous one.
WarningIsWarning(erroneous, found) ==
  CASE found = -1 -> "ERR"
    [] found > 0 -> IF erroneous THEN "TP" ELSE "FP"
    [] found = -2 -> "TW"
    [] OTHER -> IF erroneous THEN "FN" ELSE "TN"

\* The column of one execution.
Column(erroneous, found) ==
  CASE found = -1 -> "ERR"
    [] found > 0 -> IF erroneous THEN "TP" ELSE "FP"
    [] found = -2 -> IF erroneous THEN "TW" ELSE "FW"
    [] OTHER -> IF erroneous THEN "FN" ELSE "TN"

\* Mutant: the files of the run with the tool are looked at twice.
OneDirectory(tool, erroneous, d) ==
  [score |-> One(Column(erroneous, ErrorFound(tool, d.log))),
   error_present |-> CheckIfErrorManifested(d.files),
   error_present_without_tool |-> CheckIfErrorManifested(d.files)]

\* The row of one directory: d.files and d.bare are the ranks whose signal file is
\* there, from the run with the tool and from the one without.
Row(tool, erroneous, d) ==
  [score |-> One(Column(erroneous, ErrorFound(tool, d.log))),
   error_present |-> CheckIfErrorManifested(d.files),
   error_present_without_tool |-> CheckIfErrorManifested(d.bare)]

\* Mutant: the second count of manifested errors is not added.
AddAllButOne(row, other) ==
  [score |-> [c \in Columns |-> row.score[c] + other.score[c]],
   error_present |-> row.error_present + other.error_present,
   error_present_without_tool |-> row.error_present_without_tool]

\* add_cases
AddRows(row, other) ==
  [score |-> [c \in Columns |-> row.score[c] + other.score[c]],
   error_present |-> row.error_present + other.error_present,
   error_present_without_tool |-> row.error_present_without_tool + other.error_present_without_tool]
-----------------------------------------------------------------------------
(***************************************************************************)
(* reduce_data: seven blocks in this order, each with its assertions.      *)
(***************************************************************************)
Above0(s, columns) == \E c \in columns : s[c] > 0

\* Mutant: a case that was found once keeps the runs in which nothing was found.
KeepsFN(s) == IF s.TP > 0 THEN [s EXCEPT !.TP = 1, !.TW = 0, !.FW = 0, !.ERR = 0] ELSE s

FoundFP(s) == IF s.FP > 0 THEN [s EXCEPT !.FP = 1, !.TN = 0, !.TW = 0, !.FW = 0, !.ERR = 0] ELSE s
FoundTP(s) == IF s.TP > 0 THEN [s EXCEPT !.TP = 1, !.FN = 0, !.TW = 0, !.FW = 0, !.ERR = 0] ELSE s
FoundTW(s) == IF s.TW > 0 THEN [s EXCEPT !.TW = 1, !.FN = 0, !.ERR = 0] ELSE s
FoundFW(s) == IF s.FW > 0 THEN [s EXCEPT !.TN = 0, !.FW = 1, !.ERR = 0] ELSE s
FoundTN(s) == IF s.TN > 0 THEN [s EXCEPT !.TN = 1, !.ERR = 0] ELSE s
FoundFN(s) == IF s.FN > 0 THEN [s EXCEPT !.FN = 1, !.ERR = 0] ELSE s
OnlyERR(s) == IF s.ERR > 0 THEN [s EXCEPT !.ERR = 1] ELSE s

\* The row at the head of each block.
AtTP(s) == FoundFP(s)
AtTW(s) == FoundTP(AtTP(s))
AtFW(s) == FoundTW(AtTW(s))
AtTN(s) == FoundFW(AtFW(s))
AtFN(s) == FoundTN(AtTN(s))
AtERR(s) == FoundFN(AtFN(s))
Reduced(s) == OnlyERR(AtERR(s))

\* None of the assertions fails.
Reducible(s) ==
  /\ s.FP > 0 => ~Above0(s, {"FN", "TP"})
  /\ AtTP(s).TP > 0 => ~Above0(AtTP(s), {"TN", "FP"})
  /\ AtTW(s).TW > 0 => ~Above0(AtTW(s), {"TP", "FP", "FW", "TN"})
  /\ AtFW(s).FW > 0 => ~Above0(AtFW(s), {"TP", "FP", "TW", "FN"})
  /\ AtTN(s).TN > 0 => ~Above0(AtTN(s), {"TP", "FP", "FN"})
  /\ AtFN(s).FN > 0 => ~Above0(AtFN(s), {"TN", "FP"}) /\ AtFN(s).TP <= 1
  /\ AtERR(s).ERR > 0 => ~Above0(AtERR(s), {"TN", "FP", "TP", "FN"})

\* What the blocks are for: the strongest thing the tool said in any execution.
Strongest(erroneous, s) ==
  CASE s.TP > 0 \/ s.FP > 0 -> IF erroneous THEN "TP" ELSE "FP"
    [] ~Above0(s, {"TP", "FP"}) /\ Above0(s, {"TW", "FW"}) -> IF erroneous THEN "TW" ELSE "FW"
    [] ~Above0(s, {"TP", "FP", "TW", "FW"}) /\ Above0(s, {"TN", "FN"}) -> IF erroneous THEN "FN" ELSE "TN"
    [] OTHER -> "ERR"

\* The same from what was found in the executions: the column of a warning only when
\* there is no error, of a clean answer only when there is no warning either.
Verdict(erroneous, answers) ==
  CASE \E n \in answers : n > 0 -> IF erroneous THEN "TP" ELSE "FP"
    [] (\A n \in answers : n <= 0) /\ -2 \in answers -> IF erroneous THEN "TW" ELSE "FW"
    [] answers \subseteq {-1, 0} /\ 0 \in answers -> IF erroneous THEN "FN" ELSE "TN"
    [] OTHER -> "ERR"
=============================================================================
