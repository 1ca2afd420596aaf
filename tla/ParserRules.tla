---------------------------- MODULE ParserRules ----------------------------
(***************************************************************************)
(* The pure rules of scripts/Parser.py: how the files one execution of a   *)
(* case leaves behind, and the count a tool's output parser returns, become *)
(* one row of the result table.                                            *)
(***************************************************************************)
EXTENDS Integers

\* The ranks Parser.py looks for, whatever number of ranks the job had.
NUM_MPI_RANKS == 2
ParserRanks == 0..(NUM_MPI_RANKS - 1)

\* Mutant: any file will do.
AnyFile(signalFiles) == IF signalFiles # {} THEN 0 ELSE 1

\* Mutant: one rank too many is looked for.
OneRankMore(signalFiles) == IF 0..NUM_MPI_RANKS \subseteq signalFiles THEN 0 ELSE 1

\* Mutant: the number of ranks that left no file is returned.
MissingFiles(signalFiles) ==
  IF ParserRanks \subseteq signalFiles THEN 0 ELSE IF signalFiles = {} THEN NUM_MPI_RANKS ELSE 1

\* check_if_error_manifested: 0 only if every rank left error_not_present<rank>.
CheckIfErrorManifested(signalFiles) ==
  IF ParserRanks \subseteq signalFiles THEN 0 ELSE 1
=============================================================================
