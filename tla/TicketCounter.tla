---------------------------- MODULE TicketCounter ----------------------------
(***************************************************************************)
(* What fetchandadd.c and fetchandadd_tree.c promise: a shared counter.    *)
(* Every call obtains the number of calls before it, whoever made them.    *)
(***************************************************************************)
EXTENDS Naturals, FiniteSets

CONSTANT Clients

VARIABLES calls,       \* per client: how often it has called
          given        \* the numbers given out: <<number, client, which call>>

Init ==
  /\ calls = [c \in Clients |-> 0]
  /\ given = {}

\* The next number goes to c.
GetNextval(c) ==
  /\ calls' = [calls EXCEPT ![c] = @ + 1]
  /\ given' = given \cup {<<Cardinality(given), c, calls[c] + 1>>}

Next == \E c \in Clients : GetNextval(c)

Spec == Init /\ [][Next]_<<calls, given>>
=============================================================================
