---------------------------- MODULE MCFetchAndAdd ----------------------------
(***************************************************************************)
(* The counters for TLC.                                                   *)
(***************************************************************************)
EXTENDS FetchAndAdd

PowersOfTwo == [k \in 0..Depth |-> 2 ^ k]
=============================================================================
