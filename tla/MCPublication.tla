---------------------------- MODULE MCPublication ----------------------------
(***************************************************************************)
(* Publication for TLC: a tool that the workflow gives a category and one   *)
(* that it does not, a category that is merged and one that is not, so that *)
(* the second leaves fewer directories than the first.                     *)
(***************************************************************************)
EXTENDS Publication

CaseLists == [coll |-> <<"reduce", "gather">>, correct |-> <<"exscan">>]

RunBound(tool) ==
  IF tool = "MUST"
  THEN {[files |-> {}, log |-> NoLog],
        [files |-> {0, 1}, log |-> [readable |-> TRUE, says |-> {"no MPI usage errors"}]]}
  ELSE {[files |-> {}, log |-> [readable |-> TRUE, says |-> {"deadlock"}]],
        [files |-> {}, log |-> [readable |-> TRUE, says |-> {MpiCheckerName}]]}
=============================================================================
