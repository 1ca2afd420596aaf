---------------------------- MODULE CounterSetup ----------------------------
(***************************************************************************)
(* micro-benches/0-level/correct/rma: which elements of rank 0's window a  *)
(* client of the counters adds to, and which it reads.                     *)
(*   fetchandadd.c       one element per client: a client adds to its own  *)
(*                       and reads all others                              *)
(*   fetchandadd_tree.c  the nodes of a binary tree over the ranks, in     *)
(*                       depth-first order: on its way from the root to    *)
(*                       its leaf a client adds to the nodes it enters and *)
(*                       reads their siblings                              *)
(* Every client computes its indices alone, one iteration of the loop per  *)
(* step.  The loop variables keep their values of earlier iterations, so   *)
(* that invariants can refer to them; the code only uses the last.         *)
(***************************************************************************)
EXTENDS Integers, FiniteSets

CONSTANTS NProcs,      \* nprocs
          Depth,       \* nlevels
          Pow          \* Pow[k] is 1 shifted left by k

\* What "mask <<= 1, nlevels++ while mask < nprocs" computes.
ASSUME SizesAssumption ==
  /\ NProcs \in Nat \ {0}
  /\ Depth \in Nat
  /\ Pow \in [0..Depth -> Nat \ {0}]
  /\ Pow[0] = 1
  /\ \A k \in 0..(Depth - 1) : Pow[k + 1] = 2 * Pow[k]
  /\ NProcs <= Pow[Depth]

Clients == 1..(NProcs - 1)
Routines == {"flat", "tree"}
Slots == 0..(2 * Pow[Depth] - 1)

VARIABLES routine,     \* which of the two programs runs
          level,       \* per client: iterations of the loop so far
          idx,         \* per client and iteration: the node reached
          tmp_rank,    \* per client and iteration: the rank within the node
          acc_idx, get_idx,      \* per client: the arrays of indices
          acc_type, get_type,    \* per client: the elements its datatypes select
          committed    \* the clients that have committed their datatypes

setupVars == <<routine, level, idx, tmp_rank, acc_idx, get_idx, acc_type, get_type, committed>>

\* The elements rank 0 allocates.
Window == IF routine = "flat" THEN 0..(NProcs - 1) ELSE Slots

SetupInit ==
  /\ routine \in Routines
  /\ level = [c \in Clients |-> 0]
  /\ idx = [c \in Clients |-> [l \in 0..Depth |-> 0]]
  /\ tmp_rank = [c \in Clients |-> [l \in 0..Depth |-> c]]
  /\ acc_idx = [c \in Clients |-> [l \in 0..(Depth - 1) |-> 0]]
  /\ get_idx = [c \in Clients |-> [l \in 0..(Depth - 1) |-> 0]]
  /\ acc_type = [c \in Clients |-> {}]
  /\ get_type = [c \in Clients |-> {}]
  /\ committed = {}

\* Of the node at index i with a left and a right half of m ranks each.
LeftChild(i) == i + 1
RightChild(i, m) == i + m * 2

\* Mutant: the right half starts one node too early.
TightDescend(c) ==
  LET l == level[c]
      m == Pow[Depth - 1 - l]
      inLeft == tmp_rank[c][l] < m
      mine == IF inLeft THEN LeftChild(idx[c][l]) ELSE idx[c][l] + m
      other == IF inLeft THEN idx[c][l] + m ELSE LeftChild(idx[c][l])
  IN /\ routine = "tree" /\ l < Depth
     /\ acc_idx' = [acc_idx EXCEPT ![c][l] = mine]
     /\ get_idx' = [get_idx EXCEPT ![c][l] = other]
     /\ idx' = [idx EXCEPT ![c][l + 1] = mine]
     /\ tmp_rank' = [tmp_rank EXCEPT ![c][l + 1] = tmp_rank[c][l] % m]
     /\ level' = [level EXCEPT ![c] = l + 1]
     /\ UNCHANGED <<routine, acc_type, get_type, committed>>

\* One iteration of "while (mask >= 1)".
Descend(c) ==
  LET l == level[c]
      m == Pow[Depth - 1 - l]                             \* mask
      inLeft == tmp_rank[c][l] < m
      mine == IF inLeft THEN LeftChild(idx[c][l]) ELSE RightChild(idx[c][l], m)
      other == IF inLeft THEN RightChild(idx[c][l], m) ELSE LeftChild(idx[c][l])
  IN /\ routine = "tree" /\ l < Depth
     /\ acc_idx' = [acc_idx EXCEPT ![c][l] = mine]
     /\ get_idx' = [get_idx EXCEPT ![c][l] = other]
     /\ idx' = [idx EXCEPT ![c][l + 1] = mine]
     /\ tmp_rank' = [tmp_rank EXCEPT ![c][l + 1] = tmp_rank[c][l] % m]
     /\ level' = [level EXCEPT ![c] = l + 1]
     /\ UNCHANGED <<routine, acc_type, get_type, committed>>

Commit(c, acc, get) ==
  /\ c \notin committed
  /\ acc_type' = [acc_type EXCEPT ![c] = acc]
  /\ get_type' = [get_type EXCEPT ![c] = get]
  /\ committed' = committed \cup {c}
  /\ UNCHANGED <<routine, level, idx, tmp_rank, acc_idx, get_idx>>

\* MPI_Type_create_indexed_block, when the loop has ended.
CommitTree(c) ==
  /\ routine = "tree" /\ level[c] = Depth
  /\ Commit(c, {acc_idx[c][l] : l \in 0..(Depth - 1)}, {get_idx[c][l] : l \in 0..(Depth - 1)})

\* Mutant: the second block is one element too long.
CommitLong(c) ==
  /\ routine = "flat"
  /\ Commit(c, {c}, 0..(c - 1) \cup (c + 1)..NProcs)

\* MPI_Type_indexed with the blocks before and after the client's own element.
CommitFlat(c) ==
  /\ routine = "flat"
  /\ Commit(c, {c}, 0..(c - 1) \cup (c + 1)..(NProcs - 1))

SetupStep(c) == Descend(c) \/ CommitTree(c) \/ CommitFlat(c)
SetupNext == \E c \in Clients : SetupStep(c)
SetupSpec == SetupInit /\ [][SetupNext]_setupVars

SetupTypeOK ==
  /\ routine \in Routines
  /\ level \in [Clients -> 0..Depth]
  /\ idx \in [Clients -> [0..Depth -> Nat]]
  /\ tmp_rank \in [Clients -> [0..Depth -> Nat]]
  /\ acc_idx \in [Clients -> [0..(Depth - 1) -> Nat]]
  /\ get_idx \in [Clients -> [0..(Depth - 1) -> Nat]]
  /\ acc_type \in [Clients -> SUBSET Window]
  /\ get_type \in [Clients -> SUBSET Window]
  /\ committed \in SUBSET Clients

(* A client sees every other client's calls exactly once, and its own never,  *)
(* in what it reads: of the elements it reads exactly one is among those that *)
(* the other adds to.  The accesses of one epoch, which MPI may execute in    *)
(* any order, are disjoint.                                                   *)
MeetOnce ==
  \A c, d \in committed :
    IF c = d THEN get_type[c] \cap acc_type[c] = {}
             ELSE \E s \in Slots : get_type[c] \cap acc_type[d] = {s}
=============================================================================
