----------------------------- MODULE FetchAndAdd -----------------------------
(***************************************************************************)
(* The counters of micro-benches/0-level/correct/rma: fetchandadd.c,       *)
(* fetchandadd_tree.c and their variants with MPI_Alloc_mem.  Rank 0 owns  *)
(* the memory; every other rank calls the counter NTIMES times.  A call    *)
(* adds one to some elements and reads others in one exclusive epoch, in   *)
(* which MPI may execute the accesses in any order, and adds up what it    *)
(* has read and the number of its own earlier calls after the epoch.       *)
(***************************************************************************)
EXTENDS CounterSetup, Sequences, TLC

CONSTANT NTIMES        \* calls of each client
ASSUME CallsAssumption == NTIMES \in Nat

VARIABLES phase,       \* setup until the window exists; then counting, freed, checked
          counter_mem, \* the elements of rank 0's window
          lock,        \* the client that has the window locked; 0: nobody
          toAdd, toGet,        \* what its accumulate and get have still to access
          pc,          \* per client: idle, epoch, unlocked
          got,         \* per client: what it has read last, by element
          localvalue,  \* per client: its calls so far
          counter_vals,        \* per client: the values it has obtained
          errs         \* of rank 0

epochVars == <<counter_mem, lock, toAdd, toGet, pc, got>>
callVars == <<localvalue, counter_vals>>
vars == <<setupVars, phase, epochVars, callVars, errs>>

Nobody == 0
Calls == 1..NTIMES

\* The sum of f over the set S, for f with natural values.
SumOver(f, S) == Cardinality(UNION {{s} \X (1..f[s]) : s \in S})

Init ==
  /\ SetupInit
  /\ phase = "setup"
  /\ counter_mem = [s \in Slots |-> 0]
  /\ lock = Nobody /\ toAdd = {} /\ toGet = {}
  /\ pc = [c \in Clients |-> "idle"]
  /\ got = [c \in Clients |-> [s \in Slots |-> 0]]
  /\ localvalue = [c \in Clients |-> 0]
  /\ counter_vals = [c \in Clients |-> [i \in Calls |-> 0]]
  /\ errs = 0
-----------------------------------------------------------------------------
Setup ==
  /\ phase = "setup"
  /\ SetupNext
  /\ UNCHANGED <<phase, epochVars, callVars, errs>>

\* MPI_Win_create, which all ranks call.
WinCreate ==
  /\ phase = "setup" /\ committed = Clients
  /\ phase' = "counting"
  /\ UNCHANGED <<setupVars, epochVars, callVars, errs>>

\* MPI_Win_lock(MPI_LOCK_EXCLUSIVE, 0), MPI_Accumulate and MPI_Get are posted.
Lock(c) ==
  /\ phase = "counting" /\ pc[c] = "idle" /\ localvalue[c] < NTIMES
  /\ lock = Nobody
  /\ lock' = c /\ pc' = [pc EXCEPT ![c] = "epoch"]
  /\ toAdd' = acc_type[c] /\ toGet' = get_type[c]
  /\ UNCHANGED <<setupVars, phase, counter_mem, got, callVars, errs>>

\* The accumulate reaches one element.
AddOne(s) ==
  /\ s \in toAdd
  /\ counter_mem' = [counter_mem EXCEPT ![s] = @ + 1]
  /\ toAdd' = toAdd \ {s}
  /\ UNCHANGED <<setupVars, phase, lock, toGet, pc, got, callVars, errs>>

\* The get reads one element.
Read(s) ==
  /\ s \in toGet
  /\ got' = [got EXCEPT ![lock][s] = counter_mem[s]]
  /\ toGet' = toGet \ {s}
  /\ UNCHANGED <<setupVars, phase, counter_mem, lock, toAdd, pc, callVars, errs>>

\* Mutant: MPI_Win_unlock does not wait for the get.
UnlockEarly(c) ==
  /\ lock = c /\ toAdd = {}
  /\ lock' = Nobody /\ pc' = [pc EXCEPT ![c] = "unlocked"] /\ toGet' = {}
  /\ UNCHANGED <<setupVars, phase, counter_mem, toAdd, got, callVars, errs>>

\* MPI_Win_unlock, which returns when both are done.
Unlock(c) ==
  /\ lock = c /\ toAdd = {} /\ toGet = {}
  /\ lock' = Nobody /\ pc' = [pc EXCEPT ![c] = "unlocked"]
  /\ UNCHANGED <<setupVars, phase, counter_mem, toAdd, toGet, got, callVars, errs>>

\* What the call returns.
Value(c) == localvalue[c] + SumOver(got[c], get_type[c])

\* Mutant: localvalue++ comes first.
CountFirst(c) ==
  /\ pc[c] = "unlocked"
  /\ counter_vals' = [counter_vals EXCEPT ![c][localvalue[c] + 1] = Value(c) + 1]
  /\ localvalue' = [localvalue EXCEPT ![c] = @ + 1]
  /\ pc' = [pc EXCEPT ![c] = "idle"]
  /\ UNCHANGED <<setupVars, phase, counter_mem, lock, toAdd, toGet, got, errs>>

\* The loop over val_array or get_array, and localvalue++.
SumUp(c) ==
  /\ pc[c] = "unlocked"
  /\ counter_vals' = [counter_vals EXCEPT ![c][localvalue[c] + 1] = Value(c)]
  /\ localvalue' = [localvalue EXCEPT ![c] = @ + 1]
  /\ pc' = [pc EXCEPT ![c] = "idle"]
  /\ UNCHANGED <<setupVars, phase, counter_mem, lock, toAdd, toGet, got, errs>>

\* MPI_Win_free, which all ranks call after the last iteration.
WinFree ==
  /\ phase = "counting"
  /\ \A c \in Clients : pc[c] = "idle" /\ localvalue[c] = NTIMES
  /\ phase' = "freed"
  /\ UNCHANGED <<setupVars, epochVars, callVars, errs>>

\* MPI_Gather: what the clients send, rank after rank, sorted.
Results ==
  LET all == [i \in 1..((NProcs - 1) * NTIMES) |->
                counter_vals[((i - 1) \div NTIMES) + 1][((i - 1) % NTIMES) + 1]]
  IN SortSeq(all, <)

\* Rank 0 counts the places at which the sorted values are not consecutive.
Check ==
  /\ phase = "freed"
  /\ errs' = Cardinality({i \in 2..((NProcs - 1) * NTIMES) : Results[i] # Results[i - 1] + 1})
  /\ phase' = "checked"
  /\ UNCHANGED <<setupVars, epochVars, callVars>>

\* MTest_Finalize, and the program ends.
Ended == phase = "checked" /\ UNCHANGED vars

GetNextval(c) == Lock(c) \/ Unlock(c) \/ SumUp(c)
Access == \E s \in Slots : AddOne(s) \/ Read(s)

Next == \/ Setup \/ WinCreate
        \/ \E c \in Clients : GetNextval(c)
        \/ Access
        \/ WinFree \/ Check
        \/ Ended

\* Every rank goes on when it can, and MPI makes progress.
Spec == Init /\ [][Next]_vars /\ WF_vars(Next)
-----------------------------------------------------------------------------
TypeOK ==
  /\ SetupTypeOK
  /\ phase \in {"setup", "counting", "freed", "checked"}
  /\ counter_mem \in [Slots -> Nat]
  /\ lock \in Clients \cup {Nobody}
  /\ toAdd \in SUBSET Slots /\ toGet \in SUBSET Slots
  /\ pc \in [Clients -> {"idle", "epoch", "unlocked"}]
  /\ got \in [Clients -> [Slots -> Nat]]
  /\ localvalue \in [Clients -> 0..NTIMES]
  /\ counter_vals \in [Clients -> [Calls -> Nat]]
  /\ errs \in Nat

\* A call has its number when its epoch ends, although it adds it up later.
Done(c) == localvalue[c] + (IF pc[c] = "unlocked" THEN 1 ELSE 0)
Number(c, i) == IF i <= localvalue[c] THEN counter_vals[c][i] ELSE Value(c)
Given == UNION {{<<Number(c, i), c, i>> : i \in 1..Done(c)} : c \in Clients}

Counter == INSTANCE TicketCounter WITH calls <- [c \in Clients |-> Done(c)], given <- Given

(* The clients share one counter: a call obtains the number of epochs before  *)
(* its own, whatever the order of the accesses in an epoch.                   *)
ImplementsCounter == Counter!Spec

(* The test always reaches its verdict, and finds no fault with the counter.  *)
EventuallyPasses == <>(phase = "checked" /\ errs = 0)
=============================================================================
