------------------------------ MODULE PlainMpi ------------------------------
(***************************************************************************)
(* What the single-threaded level-0 programs run on: two ranks that call   *)
(* MPI.  The module executes one program of the constant Program, chosen   *)
(* initially, up to its first misuse of MPI, which it remembers in seen:   *)
(*   argument    a call whose own arguments MPI does not accept            *)
(*   mismatch    calls of two ranks that belong together and disagree      *)
(*   order       a call at a moment it is not allowed                      *)
(*   busy        memory touched or freed while MPI still uses it           *)
(*   race        window memory touched by two at once, outcome undefined   *)
(*   lost        a handle overwritten that is still needed                 *)
(*   unfinished  communication that is never completed                     *)
(*   stuck       a rank that waits forever                                 *)
(*   aborted     the program's own assertion fails                         *)
(* What an erroneous program does next is undefined, and not modelled.     *)
(* The library may buffer a standard send and let a rank leave a           *)
(* collective early, wherever MPI leaves it the choice; and it defines     *)
(* what the numbers mean that programs use for a constant of mpi.h.        *)
(***************************************************************************)
EXTENDS PlainOps, SequencesExt, FiniteSets

CONSTANT Program    \* the programs, by name

VARIABLES job,      \* the program, its label, argc and the MPI library
          code,     \* per rank: the instructions it has still to execute
          inside,   \* per rank: whether it is in a blocking call
          env,      \* per rank: "before" MPI_Init, "up", "down" after MPI_Finalize
          comms,    \* per rank: the groups of its communicators, by handle variable
          types,    \* per rank: its datatypes, by handle variable
          wins,     \* per rank: its windows, by handle variable
          reqs,     \* per rank: its requests, by handle variable: a place in ops, or 0
          ops,      \* per rank: its sends, receives, collectives and accesses in order
          seen,     \* how MPI has been misused
          over      \* the program has ended, one way or the other

\* Rank r's code: a window that it creates it frees later on, and not before the
\* call returns (the suite has no program that lacks an MPI_Win_free).
FreesWindows(cs) ==
  \A i \in DOMAIN cs : cs[i].op = "wincreate" =>
    \E j \in DOMAIN cs : j > i /\ cs[j].op = "winfree" /\ cs[j].win = cs[i].win /\ cs[j].req = ""
IsCode(cs) == cs \in Seq(Range(cs)) /\ FreesWindows(cs)

ASSUME ProgramAssumption ==
  \A n \in DOMAIN Program : \A main \in {Program[n].plain, Program[n].given} :
    DOMAIN main = Ranks /\ \A r \in Ranks : IsCode(main[r])

data == <<comms, types, wins, reqs>>
vars == <<job, code, inside, env, data, ops, seen, over>>

\* Two families of libraries.  MPI_ANY_TAG is -1 in both; -1 as a rank is
\* MPI_ANY_SOURCE in the first and MPI_PROC_NULL in the second.  MPI_TAG_UB is
\* the key of an attribute: 0 in the first, in the second a large number that
\* may or may not be a legal tag.  MPI_STATUS_IGNORE is NULL in the first.
Libraries ==
  {[any_source |-> -1, proc_null |-> -2, keyval_tag_fits |-> TRUE, null_status |-> TRUE]} \cup
  {[any_source |-> -2, proc_null |-> -1, keyval_tag_fits |-> b, null_status |-> FALSE] : b \in BOOLEAN}

Runs(p) == IF p.plain = p.given THEN {1} ELSE {1, 2}
\* The correct programs use the constants of mpi.h by name: any library will do.
LibrariesFor(p) == IF p.label = Correct THEN {CHOOSE lib \in Libraries : TRUE} ELSE Libraries

Init ==
  /\ \E programs \in {Program} : \E n \in DOMAIN programs : \E p \in {programs[n]} :
       \E lib \in LibrariesFor(p), argc \in Runs(p) :
         /\ job = [name |-> n, label |-> p.label, argc |-> argc, lib |-> lib]
         /\ code = IF argc = 1 THEN p.plain ELSE p.given
  /\ inside = [r \in Ranks |-> FALSE]
  /\ env = [r \in Ranks |-> "before"]
  /\ comms = [r \in Ranks |-> (WORLD :> <<0, 1>>) @@ (SELF :> <<r>>)]
  /\ types = [r \in Ranks |-> <<>>]
  /\ wins = [r \in Ranks |-> <<>>]
  /\ reqs = [r \in Ranks |-> <<>>]
  /\ ops = [r \in Ranks |-> <<>>]
  /\ seen = {}
  /\ over = FALSE
-----------------------------------------------------------------------------
(***************************************************************************)
(* Data and communicators.                                                 *)
(***************************************************************************)
Sends == {"send", "isend"}
Receives == {"recv", "irecv"}
Reductions == {"reduce", "allreduce", "reduce_scatter", "scan", "exscan"}
Exchanges == {"gather", "scatter", "bcast", "allgather", "alltoall", "alltoallw"} \cup Reductions
MakesComm == {"split", "dup", "create", "intercomm", "merge"}
OnComm == Exchanges \cup MakesComm \cup {"barrier", "commfree"}
OnWin == {"wincreate", "winfree", "fence"}
Collectives == OnComm \cup OnWin
Accumulating == {"accumulate", "getacc"}
Accesses == {"put", "get"} \cup Accumulating
Nonblocking(c) == c.op \in {"isend", "irecv"} \/ (c.op \in Collectives \cup Accesses /\ c.req # "")
\* Calls on a window that are a rank's own: passive target; post, start, complete, wait.
Passive == {"lock", "unlock", "lockall", "unlockall", "flush", "flushlocal"}
Active == {"post", "start", "complete", "winwait"}
MakesType == {"contiguous", "vector", "hvector", "struct", "resized"}
Local == {"store", "load", "free", "assert"}

\* A handle variable of the program is set.
Assigned(f, x, v) == [y \in DOMAIN f \cup {x} |-> IF y = x THEN v ELSE f[y]]

TypeKnown(r, t) == t \in DOMAIN Predefined \cup DOMAIN types[r]
TypeOf(r, t) == IF t \in DOMAIN types[r] THEN types[r][t]
                ELSE IF t \in DOMAIN Predefined THEN Predefined[t] ELSE Predefined.MPI_INT
Data(r, n, t) == [count |-> n, type |-> TypeOf(r, t)]
GoodData(r, b, n, t) == n >= 0 /\ TypeKnown(r, t) /\ Holds(b, Data(r, n, t))

GoodComm(r, c) == c.comm \in DOMAIN comms[r]
GoodWin(r, c) == c.win \in DOMAIN wins[r]
\* The group of the communicator, or of the window.
Group(r, c) == IF c.win # "" /\ GoodWin(r, c) THEN wins[r][c.win].group
               ELSE IF GoodComm(r, c) THEN comms[r][c.comm] ELSE <<>>
Members(r, c) == 0..(Len(Group(r, c)) - 1)
Me(r, c) == (CHOOSE i \in DOMAIN Group(r, c) : Group(r, c)[i] = r) - 1
IsRank(r, c) == c.peer \in Members(r, c)
GoodDest(r, c) == IsRank(r, c) \/ c.peer = job.lib.proc_null
AnySource == {job.lib.any_source, MPI_ANY_SOURCE}
GoodSource(r, c) == GoodDest(r, c) \/ c.peer \in AnySource
GoodStatus(c) == c.status \/ job.lib.null_status
GoodTag(c) == IF c.tag \in {MPI_TAG_UB, KeyvalTag} THEN job.lib.keyval_tag_fits ELSE c.tag >= 0
\* Operations are defined on the types of a class; a char is a character, no number.
Arithmetic == {SUM, "MPI_MAX", "MPI_MIN", "MPI_PROD"}
Logical == {"MPI_LOR", "MPI_LAND", "MPI_LXOR"}
Numbers == DOMAIN Predefined \ ({MPI_CHAR, MPI_BYTE, MPI_C_BOOL} \cup DOMAIN PairTypes)
Fractions == {MPI_FLOAT, MPI_DOUBLE, "MPI_LONG_DOUBLE", "MPI_DOUBLE_COMPLEX"}
GoodOp(c) ==
  \A t \in {c.outs[i].type : i \in DOMAIN c.outs} :
    CASE c.op \notin Reductions \/ c.rop \in UserOps -> TRUE
      [] c.rop \in {"MPI_MAXLOC", "MPI_MINLOC"} -> t \in DOMAIN PairTypes
      [] c.rop \in Arithmetic -> t \in Numbers
      [] c.rop \in Logical -> t \in (Numbers \ Fractions) \cup {MPI_C_BOOL}
      [] OTHER -> FALSE

\* In a collective, members s and d of the communicator may be the same one.
Delivers(c, s, d) ==
  CASE c.op \in {"gather", "reduce"} -> d = c.peer
    [] c.op \in {"scatter", "bcast"} -> s = c.peer
    [] c.op = "scan" -> s <= d
    [] c.op = "exscan" -> s < d
    [] OTHER -> c.op \in Exchanges
Out(r, c, d) == Data(r, c.outs[d + 1].n, c.outs[d + 1].type)
In(r, c, s) == Data(r, c.ins[s + 1].n, c.ins[s + 1].type)
At(buf, part, x, c) == Plus(buf, part.at * (IF c.op = "alltoallw" THEN 1 ELSE x.type.extent))
\* The pieces of memory that hold what a rank sends to each, and gets from each.
Sent(r, c) ==
  {[buf |-> At(c.buf, c.outs[d + 1], Out(r, c, d), c), data |-> Out(r, c, d)] :
     d \in {d \in Members(r, c) : Delivers(c, Me(r, c), d) /\ ~(c.inplace /\ d = Me(r, c))}}
Got(r, c) ==
  {[buf |-> At(c.into, c.ins[i + 1], In(r, c, i), c), data |-> In(r, c, i)] :
     i \in {i \in Members(r, c) : Delivers(c, i, Me(r, c)) /\ ~(c.inplace /\ i = Me(r, c))}}
\* The bytes a piece covers; every element of it when the type has gaps.
Regions(p) ==
  LET t == p.data.type
  IN IF p.data.count = 0 THEN {}
     ELSE IF Len(t.map) = 1 /\ t.extent = Sizeof[t.map[1][1]] THEN {Region(p.buf, Bytes(p.data))}
     ELSE {Region(Plus(p.buf, i * t.extent + t.map[k][2]), Sizeof[t.map[k][1]]) :
             i \in 0..(p.data.count - 1), k \in DOMAIN t.map}
Disjoint(p, q) == \A x \in Regions(p), y \in Regions(q) : ~Overlap(x, y)

GoodExchange(r, c) ==
  /\ \A i \in Members(r, c) :
       /\ Delivers(c, Me(r, c), i) => c.outs[i + 1].n >= 0 /\ TypeKnown(r, c.outs[i + 1].type)
       /\ Delivers(c, i, Me(r, c)) => c.ins[i + 1].n >= 0 /\ TypeKnown(r, c.ins[i + 1].type)
  /\ \A p \in Sent(r, c) \cup Got(r, c) : Holds(p.buf, p.data)
  /\ ~c.inplace /\ Delivers(c, Me(r, c), Me(r, c)) => SameData(Out(r, c, Me(r, c)), In(r, c, Me(r, c)))
  /\ ~c.inplace => \A p \in Sent(r, c), q \in Got(r, c) : Disjoint(p, q)
  /\ c.op \notin Reductions => \A p, q \in Got(r, c) : p = q \/ Disjoint(p, q)

\* What an access reads and writes at the origin.
ReadsOrigin(c) == c.op \in {"put", "accumulate"} \/ (c.op = "getacc" /\ c.rop # NO_OP)
Origin(r, c) == [buf |-> c.buf, data |-> Data(r, c.count, c.type)]
Result(r, c) == [buf |-> c.into, data |-> In(r, c, 0)]
AccessParts(r, c) ==
  (IF ReadsOrigin(c) \/ c.op = "get" THEN {Origin(r, c)} ELSE {}) \cup
  (IF c.op = "getacc" THEN {Result(r, c)} ELSE {})

\* The rank of MPI_COMM_WORLD that a call addresses; of a lock, one or all of them.
Target(r, c) == IF c.peer \in Members(r, c) THEN Group(r, c)[c.peer + 1] ELSE c.peer
Targets(r, c) ==
  IF c.op = "lockall" THEN Range(Group(r, c))
  ELSE IF c.peer = ALL THEN DOMAIN wins[r][c.win].locks ELSE {Target(r, c)}

\* An accumulation of numbers, or a replacement; the elements are of one basic type.
BasicTypes(t) == {t.map[i][1] : i \in DOMAIN t.map}
GoodAccumulate(c, t) ==
  CASE c.op \notin Accumulating \/ c.rop = REPLACE \/ (c.op = "getacc" /\ c.rop = NO_OP) -> TRUE
    [] c.rop \in {"MPI_MAXLOC", "MPI_MINLOC"} -> \E p \in DOMAIN PairTypes : BasicTypes(t) = BasicTypes(PairTypes[p])
    [] c.rop = COMPARE_AND_SWAP -> BasicTypes(t) \cap {"float", "double", "longdouble"} = {}
    [] OTHER -> c.rop \in Arithmetic /\ Cardinality(BasicTypes(t)) = 1 /\ BasicTypes(t) \cap {"char", "byte", "bool"} = {}

\* An access: memory at the origin, the bytes of the window at the target.
GoodAccess(r, c) ==
  LET target == Data(r, c.rcount, c.rtype)
      there == wins[Target(r, c)][c.win]
  IN /\ \A p \in AccessParts(r, c) : p.data.count >= 0 /\ Holds(p.buf, p.data)
     /\ TypeKnown(r, c.type) /\ TypeKnown(r, c.rtype) /\ c.rcount >= 0
     /\ GoodAccumulate(c, target.type)
     /\ \/ c.peer = job.lib.proc_null
        \/ /\ IsRank(r, c) /\ c.win \in DOMAIN wins[Target(r, c)]
           /\ \A p \in AccessParts(r, c) : SameData(p.data, target)
           /\ c.tag * there.unit + Bytes(target) <= there.size

\* Accesses of a rank to a window that may still use its memory.
Outstanding(r, w) ==
  {i \in DOMAIN ops[r] : ops[r][i].call.op \in Accesses /\ ops[r][i].call.win = w /\ ops[r][i].use # {}}

GoodArguments(r, c) ==
  CASE c.op \in Sends -> /\ GoodComm(r, c) /\ GoodDest(r, c) /\ GoodTag(c) /\ c.req # NoHandle
                         /\ GoodData(r, c.buf, c.count, c.type)
    [] c.op \in Receives -> /\ GoodComm(r, c) /\ GoodSource(r, c) /\ c.req # NoHandle
                            /\ GoodStatus(c) /\ (GoodTag(c) \/ c.tag = ANY_TAG)
                            /\ GoodData(r, c.buf, c.count, c.type)
    [] c.op = "probe" -> GoodComm(r, c) /\ GoodSource(r, c)
    [] c.op \in {"wait", "test", "requestfree", "cancel"} -> c.req \in DOMAIN reqs[r] /\ c.ok /\ GoodStatus(c)
    [] c.op \in Exchanges -> GoodComm(r, c) /\ IsRank(r, c) /\ GoodOp(c) /\ GoodExchange(r, c)
    [] c.op \in OnComm -> GoodComm(r, c)
    [] c.op \in {"commit", "typefree"} -> c.type \in DOMAIN types[r]
    [] c.op = "struct" -> c.ok /\ c.count \in 0..Len(c.nums)
    [] c.op \in MakesType -> c.ok /\ c.count >= 0 /\ c.rcount >= 0 /\ TypeKnown(r, c.type)
    [] c.op = "wincreate" -> GoodComm(r, c) /\ c.count >= 0 /\ c.rcount > 0 /\ (c.count = 0 \/ Spans(c.buf, c.count))
    [] c.op = "fence" -> GoodWin(r, c) /\ (NOPRECEDE \in c.asserts => Outstanding(r, c.win) = {})
    [] c.op \in {"winfree"} \cup Passive \cup Active -> GoodWin(r, c)
    [] c.op \in Accesses -> GoodWin(r, c) /\ GoodAccess(r, c)
    [] c.op = "store" -> c.buf # Null
    [] OTHER -> TRUE
-----------------------------------------------------------------------------
(***************************************************************************)
(* The moment of a call.                                                   *)
(***************************************************************************)
\* Epochs of a window.  A fence opens one if accesses follow, and a fence that closes it.
FenceFollows(r, w) ==
  LET later == SelectSeq(Tail(code[r]), LAMBDA c : c.op \in Accesses \cup {"fence", "winfree"} /\ c.win = w)
      end == SelectSeq(later, LAMBDA c : c.op \notin Accesses)
  IN end # <<>> /\ later[1].op \in Accesses /\ end[1].op = "fence" /\ NOPRECEDE \notin end[1].asserts
Unlocked(x) == DOMAIN x.locks = {}
NotStarted(x) == x.started = {}
NotExposed(x) == DOMAIN x.exposed = {}
\* What an access belongs to: a lock, a started epoch, the epoch of the nth fence.
Synchronized(x, t) ==
  IF t \in DOMAIN x.locks THEN <<"lock">>
  ELSE IF t \in x.started THEN <<"post">>
  ELSE IF x.epoch = "fence" THEN <<"fence", x.fences>> ELSE <<>>
InEpoch(r, c) ==
  LET x == wins[r][c.win]
  IN CASE c.op \in Accesses /\ c.peer = job.lib.proc_null -> x.epoch # "none" \/ ~Unlocked(x) \/ ~NotStarted(x)
       [] c.op \in Accesses -> Synchronized(x, Target(r, c)) # <<>>
       [] c.op \in {"lock", "lockall"} -> /\ ~(x.epoch = "fence" /\ FenceFollows(r, c.win)) /\ NotStarted(x)
                                         /\ Targets(r, c) \cap DOMAIN x.locks = {}
       [] c.op \in Passive -> Targets(r, c) # {} /\ Targets(r, c) \subseteq DOMAIN x.locks
       [] c.op = "start" -> Unlocked(x) /\ NotStarted(x)
       [] c.op = "complete" -> ~NotStarted(x)
       [] c.op = "post" -> NotExposed(x)
       [] c.op = "winwait" -> ~NotExposed(x)
       [] OTHER -> Unlocked(x) /\ NotStarted(x) /\ NotExposed(x)

UsedTypes(c) ==
  (IF c.op \in Sends \cup Receives \cup Accesses THEN {c.type} ELSE {}) \cup
  (IF c.op \in Accesses THEN {c.rtype} ELSE {}) \cup
  {c.outs[i].type : i \in DOMAIN c.outs} \cup {c.ins[i].type : i \in DOMAIN c.ins}

InOrder(r, c) ==
  /\ c.op = "init" => env[r] = "before"
  /\ c.op \notin Local \cup {"init"} => env[r] = "up"
  /\ \A t \in UsedTypes(c) : TypeOf(r, t).committed
  /\ c.win # "" /\ GoodWin(r, c) => InEpoch(r, c)

\* Memory that outstanding calls of a rank may still read or write.
Touch(region, w) == [region |-> region, write |-> w]
PendingOps(r) == {i \in DOMAIN ops[r] : Nonblocking(ops[r][i].call) /\ ~ops[r][i].waited}
Touches(p, w) == {Touch(x, w) : x \in Regions(p)}
Uses(r, c) ==
  CASE c.op \in Exchanges ->
         UNION {Touches(p, FALSE) : p \in Sent(r, c)} \cup UNION {Touches(p, TRUE) : p \in Got(r, c)}
    [] c.op \in Sends \cup Receives -> Touches(Origin(r, c), c.op \in Receives)
    [] c.op \in Accesses /\ c.peer # job.lib.proc_null -> UNION {Touches(p, c.op = "get" \/ p.buf = c.into) : p \in AccessParts(r, c)}
    [] c.op \in {"store", "load"} -> {Touch(Region(c.buf, 1), c.op = "store")}
    [] c.op = "free" -> {Touch(AllOf(c.buf), TRUE)}
    [] OTHER -> {}

\* The operations of these kinds that have not been completed.
Open(r, kinds) == {i \in DOMAIN ops[r] : ~ops[r][i].done /\ ops[r][i].call.op \in kinds}

\* The window memory of the target that an access reads or writes.
OnlyReads(c) == c.op = "get" \/ (c.op = "getacc" /\ c.rop = NO_OP)
AtTarget(r, c) ==
  LET there == wins[Target(r, c)][c.win]
  IN IF c.op \notin Accesses \/ c.peer = job.lib.proc_null THEN {}
     ELSE Touches([buf |-> Plus([var |-> there.region.var, at |-> there.region.from], c.tag * there.unit),
                   data |-> Data(r, c.rcount, c.rtype)], ~OnlyReads(c))
\* Accesses to the memory of rank t that are not over there.
Incoming(t) ==
  UNION {{<<s, i>> : i \in {i \in Open(s, Accesses) : ops[s][i].target = t}} : s \in Ranks}
\* They begin when the target has come to the fence, too.
Begun(t) == {x \in Incoming(t) : LET y == ops[x[1]][x[2]]
                                IN y.sync[1] = "fence" => y.sync[2] = wins[t][y.call.win].fences}
\* Accumulations may meet: from one rank, which are ordered, or by one operation.
MayMeet(r, c, s, d) ==
  /\ {c.op, d.op} \subseteq Accumulating
  /\ r = s \/ (TypeOf(r, c.rtype).map[1][1] = TypeOf(s, d.rtype).map[1][1] /\ (c.rop = d.rop \/ NO_OP \in {c.rop, d.rop}))

Pending(r) ==
  UNION {ops[r][i].use : i \in {i \in DOMAIN ops[r] : i \in PendingOps(r) \/ ops[r][i].call.op \in Accesses}}
Windows(r) == {Touch(wins[r][w].region, FALSE) : w \in DOMAIN wins[r]}

Conflict(x, y) == Overlap(x.region, y.region) /\ (x.write \/ y.write)
Undisturbed(r, c) ==
  \A x \in Uses(r, c) : \A y \in Pending(r) \cup (IF c.op = "free" THEN Windows(r) ELSE {}) : ~Conflict(x, y)

\* Nothing else happens to what an access reads or writes at the target, and
\* none to what the rank itself touches.
AloneAtTarget(r, c) ==
  LET sync == Synchronized(wins[r][c.win], Target(r, c))
  IN \A u \in AtTarget(r, c) : \A x \in Incoming(Target(r, c)) :
       LET y == ops[x[1]][x[2]]
       IN \/ y.sync # sync \/ MayMeet(r, c, x[1], y.call)
          \/ \A v \in y.there : ~Conflict(u, v)
RaceFree(r, c) ==
  /\ c.op \in Accesses /\ GoodWin(r, c) /\ IsRank(r, c) => AloneAtTarget(r, c)
  /\ \A u \in Uses(r, c) : \A x \in Begun(r) : \A v \in ops[x[1]][x[2]].there : ~Conflict(u, v)

KeepsHandles(r, c) ==
  /\ Nonblocking(c) /\ c.req \in DOMAIN reqs[r] => reqs[r][c.req] = 0
  /\ c.op \in MakesComm /\ c.name # "" => c.name \notin DOMAIN comms[r]
  /\ c.op \in MakesType => c.name \notin DOMAIN types[r]
  /\ c.op = "wincreate" => c.win \notin DOMAIN wins[r]

NothingLeft(r, c) ==
  CASE c.op = "finalize" -> PendingOps(r) = {}
    [] c.op = "winfree" /\ GoodWin(r, c) -> Outstanding(r, c.win) = {}
    [] c.op = "requestfree" /\ c.req \in DOMAIN reqs[r] ->
         reqs[r][c.req] # 0 => ops[r][reqs[r][c.req]].call.op # "irecv"
    [] OTHER -> TRUE
-----------------------------------------------------------------------------
(***************************************************************************)
(* Communication: messages in the order of posting, collectives one by one.*)
(***************************************************************************)
Posted(r, c, eager) ==
  [call |-> c, group |-> Group(r, c), use |-> Uses(r, c), data |-> Data(r, c.count, c.type),
   out |-> [d \in IF c.op \in Exchanges THEN Members(r, c) ELSE {} |-> Out(r, c, d)],
   in |-> [i \in IF c.op \in Exchanges THEN Members(r, c) ELSE {} |-> In(r, c, i)],
   target |-> Target(r, c), there |-> AtTarget(r, c),
   sync |-> IF c.op \in Accesses THEN Synchronized(wins[r][c.win], Target(r, c)) ELSE <<>>,
   eager |-> eager, done |-> c.peer = job.lib.proc_null, cancelled |-> FALSE, waited |-> FALSE]

\* Send x of rank s is what y of rank d, a receive or probe, asks for.
Suits(s, x, d, y) ==
  /\ x.call.op \in Sends /\ ~x.done
  /\ x.target = d /\ y.target \in {s} \cup AnySource
  /\ x.call.comm = y.call.comm /\ y.call.tag \in {x.call.tag, ANY_TAG}
Belong(s, x, d, y) == Suits(s, x, d, y) /\ y.call.op \in Receives /\ ~y.done

\* The ith call of s is the message that the jth of d is to receive.
Pair(s, i, d, j) ==
  /\ Belong(s, ops[s][i], d, ops[d][j])
  /\ \A k \in 1..(i - 1) : ~Belong(s, ops[s][k], d, ops[d][j])
  /\ \A k \in 1..(j - 1) : ~Belong(s, ops[s][i], d, ops[d][k])

\* The collectives of a rank with the other one on a communicator or a window, in order.
Channel(c) == IF c.op \in {"fence", "winfree"} THEN c.win ELSE c.comm
Together(x) == x.call.op \in Collectives /\ Len(x.group) > 1
On(r, ch) == SelectSeq(ops[r], LAMBDA x : Together(x) /\ Channel(x.call) = ch)
\* Two collectives are the same call, both blocking or both not.
Alike(c, d) == c.op = d.op /\ (c.req = "" <=> d.req = "")
\* Rank r's ith call has met the collective that belongs to it.
Met(r, i) ==
  LET ch == Channel(ops[r][i].call)
      k == Cardinality({j \in 1..i : Together(ops[r][j]) /\ Channel(ops[r][j].call) = ch})
  IN Together(ops[r][i]) => k <= Len(On(Other(r), ch)) /\ Alike(On(Other(r), ch)[k].call, ops[r][i].call)

SameCall(c, d) == c.peer = d.peer /\ c.rop = d.rop
Agree(x, y, me) ==
  x.call.op \in Exchanges =>
    /\ SameCall(x.call, y.call)
    /\ Delivers(x.call, me, Other(me)) => SameData(x.out[Other(me)], y.in[me])
    /\ Delivers(x.call, Other(me), me) => SameData(y.out[me], x.in[Other(me)])

\* What is wrong between a collective and the one it meets.
Clash(r, x) ==
  LET others == On(Other(r), Channel(x.call))
      k == Len(On(r, Channel(x.call))) + 1
  IN CASE ~Together(x) \/ k > Len(others) -> {}
       [] ~Alike(others[k].call, x.call) -> {"order"}
       [] OTHER -> IF Agree(x, others[k], Me(r, x.call)) THEN {} ELSE {"mismatch"}

\* A rank may not leave before the other one has come.
NeedsOther(r, c) ==
  \/ c.op \in MakesComm \cup {"barrier", "wincreate", "winfree"}
  \/ c.op = "fence" /\ wins[r][c.win].epoch = "fence" /\ NOPRECEDE \notin c.asserts
  \/ c.op \in Exchanges /\ \E i \in Members(r, c) : i # Me(r, c) /\ Delivers(c, i, Me(r, c))
\* Whether a rank may go on by itself, where it is the library's choice.
MayGoOn(r, c) ==
  CASE c.op \in Sends /\ c.mode = "buffered" -> {TRUE}
    [] c.op \in Sends /\ c.mode # "synchronous" -> BOOLEAN
    [] c.op \in Collectives /\ ~NeedsOther(r, c) -> BOOLEAN
    [] OTHER -> {FALSE}

Completed(r, i) ==
  LET x == ops[r][i]
  IN CASE x.call.op \in Sends -> x.done \/ x.eager
       [] x.call.op \in Receives -> x.done
       [] x.call.op \in Accesses -> TRUE
       [] OTHER -> Met(r, i) \/ x.eager

\* A send that is ready has its receive.
ReceiveIsPosted(r, c) ==
  c.op \in Sends /\ c.mode = "ready" /\ IsRank(r, c) =>
    LET x == Posted(r, c, FALSE)
    IN \E j \in Open(x.target, Receives) : Belong(r, x, x.target, ops[x.target][j])
\* Another rank's lock that the lock has to wait for.
Excluded(r, c) ==
  LET x == wins[Other(r)]
  IN c.win \in DOMAIN x /\ \E t \in Targets(r, c) \cap DOMAIN x[c.win].locks :
       "exclusive" \in {c.mode, x[c.win].locks[t]}
\* Rank t has posted its window to rank r, which has not started yet.
Posts(t, r, w) == LET x == wins[t][w].exposed IN r \in DOMAIN x /\ x[r] = "posted"
\* The call cannot return yet.
Waits(r, c) ==
  CASE c.op = "wait" -> reqs[r][c.req] # 0 /\ ~Completed(r, reqs[r][c.req])
    [] c.op = "detach" -> \E i \in Open(r, Sends) : ops[r][i].call.mode = "buffered"
    [] c.op = "probe" -> \A s \in Ranks : \A i \in Open(s, Sends) : ~Suits(s, ops[s][i], r, Posted(r, c, FALSE))
    [] c.op \in {"lock", "lockall"} -> Excluded(r, c)
    [] c.op = "start" -> \E t \in Range(c.group) : ~Posts(t, r, c.win)
    [] c.op = "winwait" -> \E s \in DOMAIN wins[r][c.win].exposed : wins[r][c.win].exposed[s] # "completed"
    [] OTHER -> FALSE

Faults(r, c) ==
  (IF GoodArguments(r, c) THEN {} ELSE {"argument"}) \cup
  (IF InOrder(r, c) /\ ReceiveIsPosted(r, c) THEN {} ELSE {"order"}) \cup
  (IF Undisturbed(r, c) THEN {} ELSE {"busy"}) \cup
  (IF RaceFree(r, c) THEN {} ELSE {"race"}) \cup
  (IF KeepsHandles(r, c) THEN {} ELSE {"lost"}) \cup
  (IF NothingLeft(r, c) THEN {} ELSE {"unfinished"}) \cup
  (IF c.op # "assert" THEN {} ELSE {"aborted"})
-----------------------------------------------------------------------------
(***************************************************************************)
(* Steps.                                                                  *)
(***************************************************************************)
Ready(r) == ~over /\ ~inside[r] /\ code[r] # <<>>
Next1(r) == Head(code[r])
Advance(r) == code' = [code EXCEPT ![r] = Tail(@)]
\* The next call is one of these, and MPI allows it.
Legal(r, kinds) == Ready(r) /\ Next1(r).op \in kinds /\ Faults(r, Next1(r)) = {}

\* A misused call.
Misuse(r) ==
  /\ Ready(r) /\ Faults(r, Next1(r)) # {}
  /\ seen' = Faults(r, Next1(r))
  /\ over' = TRUE
  /\ UNCHANGED <<job, code, inside, env, data, ops>>

Environment(r) ==
  /\ Legal(r, {"init", "finalize"})
  /\ env' = [env EXCEPT ![r] = IF Next1(r).op = "init" THEN "up" ELSE "down"]
  /\ Advance(r)
  /\ UNCHANGED <<job, inside, data, ops, seen, over>>

\* main's own accesses, an MPI_Test whose outcome main waits for afterwards, and
\* MPI_Probe and MPI_Buffer_detach, which only wait.
Plain(r) ==
  /\ Legal(r, Local \cup {"test", "probe", "detach"}) /\ ~Waits(r, Next1(r))
  /\ Advance(r)
  /\ UNCHANGED <<job, inside, env, data, ops, seen, over>>

NewType(r, c) ==
  LET old == TypeOf(r, c.type)
  IN CASE c.op = "contiguous" -> Copies(old, c.count, old.extent)
       [] c.op = "vector" -> Copies(Copies(old, c.rcount, old.extent), c.count, c.tag * old.extent)
       [] c.op = "hvector" -> Copies(Copies(old, c.rcount, old.extent), c.count, c.tag)
       [] c.op = "resized" -> [old EXCEPT !.extent = c.tag, !.committed = FALSE]
       [] OTHER ->
            [map |-> FlattenSeq([b \in 1..c.count |->
                       [i \in 1..c.nums[b] |->
                          <<Predefined[c.olds[b]].map[1][1],
                            c.disps[b] + (i - 1) * Predefined[c.olds[b]].extent>>]]),
             extent |-> c.disps[c.count] + c.nums[c.count] * Predefined[c.olds[c.count]].extent,
             committed |-> FALSE]

Datatype(r) ==
  LET c == Next1(r)
  IN /\ Legal(r, MakesType \cup {"commit", "typefree"})
     /\ types' = [types EXCEPT ![r] =
          CASE c.op = "commit" -> [@ EXCEPT ![c.type].committed = TRUE]
            [] c.op = "typefree" -> [t \in DOMAIN @ \ {c.type} |-> @[t]]
            [] OTHER -> Assigned(@, c.name, NewType(r, c))]
     /\ Advance(r)
     /\ UNCHANGED <<job, inside, env, comms, wins, reqs, ops, seen, over>>

\* The accesses of a rank to targets are over: here, and there if they belong to a lock.
OverHere(os, r, w, targets) ==
  [os EXCEPT ![r] = [i \in DOMAIN @ |->
     IF @[i].call.op \in Accesses /\ @[i].call.win = w /\ @[i].target \in targets THEN [@[i] EXCEPT !.use = {}] ELSE @[i]]]
OverThere(os, r, w, targets) ==
  [os EXCEPT ![r] = [i \in DOMAIN @ |->
     IF @[i].call.win = w /\ @[i].target \in targets /\ @[i].sync = <<"lock">> THEN [@[i] EXCEPT !.done = TRUE] ELSE @[i]]]
\* The accesses to a rank that belong to an epoch of its window are over there.
EpochOver(os, t, w, sync) ==
  [s \in Ranks |-> [i \in DOMAIN os[s] |->
     IF os[s][i].call.win = w /\ os[s][i].target = t /\ os[s][i].sync = sync THEN [os[s][i] EXCEPT !.done = TRUE] ELSE os[s][i]]]

\* The windows after a rank's own call on one.
WindowsAfter(r, c) ==
  CASE c.op \in {"lock", "lockall"} -> [wins EXCEPT ![r][c.win].locks = [t \in Targets(r, c) |-> c.mode] @@ @]
    [] c.op \in {"unlock", "unlockall"} -> [wins EXCEPT ![r][c.win].locks = [t \in DOMAIN @ \ Targets(r, c) |-> @[t]]]
    [] c.op = "post" -> [wins EXCEPT ![r][c.win].exposed = [s \in Range(c.group) |-> "posted"]]
    [] c.op = "winwait" -> [wins EXCEPT ![r][c.win].exposed = <<>>]
    [] c.op = "start" ->
         [s \in Ranks |-> IF s \in Range(c.group) THEN [wins[s] EXCEPT ![c.win].exposed[r] = "started"] ELSE wins[s]]
    [] c.op = "complete" ->
         [s \in Ranks |-> IF s \in wins[r][c.win].started THEN [wins[s] EXCEPT ![c.win].exposed[r] = "completed"] ELSE wins[s]]
    [] OTHER -> wins
AccessesAfter(r, c) ==
  CASE c.op \in Accesses -> [ops EXCEPT ![r] = Append(@, Posted(r, c, FALSE))]
    [] c.op \in {"unlock", "unlockall", "flush"} -> OverThere(OverHere(ops, r, c.win, Targets(r, c)), r, c.win, Targets(r, c))
    [] c.op = "flushlocal" -> OverHere(ops, r, c.win, Targets(r, c))
    [] c.op = "complete" -> OverHere(ops, r, c.win, wins[r][c.win].started)
    [] c.op = "winwait" -> EpochOver(ops, r, c.win, <<"post">>)
    [] OTHER -> ops
OwnEpoch(ws, r, c) ==
  CASE c.op = "start" -> [ws EXCEPT ![r][c.win].started = Range(c.group)]
    [] c.op = "complete" -> [ws EXCEPT ![r][c.win].started = {}]
    [] OTHER -> ws

OneSided(r) ==
  LET c == Next1(r)
  IN /\ Legal(r, Accesses \cup Passive \cup Active) /\ ~Waits(r, c)
     /\ wins' = OwnEpoch(WindowsAfter(r, c), r, c)
     /\ ops' = AccessesAfter(r, c)
     /\ reqs' = IF Nonblocking(c) THEN [reqs EXCEPT ![r] = Assigned(@, c.req, Len(ops'[r]))] ELSE reqs
     /\ Advance(r)
     /\ UNCHANGED <<job, inside, env, comms, types, seen, over>>

NewWindow(ws, c, group) ==
  Assigned(ws, c.win,
           [region |-> Region(c.buf, c.count), size |-> c.count, unit |-> c.rcount, group |-> group,
            epoch |-> "none", fences |-> 0, locks |-> <<>>, started |-> {}, exposed |-> <<>>])

\* A send, receive or collective is posted; a blocking one is not left yet.
\* eager: the library would let the rank go on by itself; forgotten once it has.
Post(r) ==
  LET c == Next1(r)
  IN /\ Legal(r, Sends \cup Receives \cup Collectives)
     /\ \E eager \in MayGoOn(r, c) :
          ops' = [ops EXCEPT ![r] = Append(@, Posted(r, c, eager))]
     /\ wins' = IF c.op = "wincreate" THEN [wins EXCEPT ![r] = NewWindow(@, c, Group(r, c))] ELSE wins
     /\ seen' = Clash(r, Posted(r, c, FALSE))
     /\ over' = (seen' # {})
     /\ IF Nonblocking(c)
        THEN /\ reqs' = [reqs EXCEPT ![r] = Assigned(@, c.req, Len(ops[r]) + 1)]
             /\ Advance(r) /\ UNCHANGED inside
        ELSE /\ inside' = [inside EXCEPT ![r] = TRUE]
             /\ UNCHANGED <<code, reqs>>
     /\ UNCHANGED <<job, env, comms, types>>

\* What communicators and windows are like after a collective call has been left.
Communicators(cs, c) ==
  CASE c.op \in MakesComm /\ c.name # "" -> Assigned(cs, c.name, c.group)
    [] c.op = "commfree" -> [m \in DOMAIN cs \ {c.comm} |-> cs[m]]
    [] OTHER -> cs
Windowed(ws, c) ==
  CASE c.op = "winfree" -> [w \in DOMAIN ws \ {c.win} |-> ws[w]]
    [] c.op = "fence" -> [ws EXCEPT ![c.win].epoch = IF NOSUCCEED \in c.asserts THEN "none" ELSE "fence",
                                    ![c.win].fences = @ + 1]
    [] OTHER -> ws

\* The operations after a collective call has been left; a fence ends accesses.
Left(r, c) ==
  LET os == [ops EXCEPT ![r][Len(ops[r])].eager = FALSE]
  IN IF c.op # "fence" THEN os
     ELSE EpochOver(OverHere(os, r, c.win, Ranks), r, c.win, <<"fence", wins[r][c.win].fences>>)

\* Mutant: a rank stays in a call that it has left.
LeaveStaysInside(r) ==
  /\ ~over /\ inside[r] /\ Completed(r, Len(ops[r]))
  /\ ops' = Left(r, Next1(r))
  /\ wins' = [wins EXCEPT ![r] = Windowed(@, Next1(r))]
  /\ comms' = [comms EXCEPT ![r] = Communicators(@, Next1(r))]
  /\ Advance(r)
  /\ UNCHANGED <<job, inside, env, types, reqs, seen, over>>

Leave(r) ==
  /\ ~over /\ inside[r] /\ Completed(r, Len(ops[r]))
  /\ inside' = [inside EXCEPT ![r] = FALSE]
  /\ ops' = Left(r, Next1(r))
  /\ wins' = [wins EXCEPT ![r] = Windowed(@, Next1(r))]
  /\ comms' = [comms EXCEPT ![r] = Communicators(@, Next1(r))]
  /\ Advance(r)
  /\ UNCHANGED <<job, env, types, reqs, seen, over>>

\* MPI_Wait, and MPI_Request_free: the request is MPI_REQUEST_NULL afterwards.
Request(r) ==
  LET c == Next1(r)
      i == reqs[r][c.req]
  IN /\ Legal(r, {"wait", "requestfree"})
     /\ ~Waits(r, c)
     /\ ops' = IF i = 0 THEN ops ELSE [ops EXCEPT ![r][i].waited = TRUE, ![r][i].eager = FALSE, ![r][i].use = {},
                                         ![r][i].done = @ \/ ops[r][i].call.op = "get"]
     /\ reqs' = [reqs EXCEPT ![r][c.req] = 0]
     /\ Advance(r)
     /\ UNCHANGED <<job, inside, env, comms, types, wins, seen, over>>

\* Mutant: what has been cancelled counts as transferred.
CancelCompletes(r) ==
  LET i == reqs[r][Next1(r).req]
  IN /\ Legal(r, {"cancel"})
     /\ ops' = IF i \notin Open(r, Sends \cup Receives) THEN ops ELSE [ops EXCEPT ![r][i].done = TRUE]
     /\ Advance(r)
     /\ UNCHANGED <<job, inside, env, data, seen, over>>

\* MPI_Cancel undoes what has not been matched.
CancelRequest(r) ==
  LET i == reqs[r][Next1(r).req]
  IN /\ Legal(r, {"cancel"})
     /\ ops' = IF i \notin Open(r, Sends \cup Receives) THEN ops
               ELSE [ops EXCEPT ![r][i].done = TRUE, ![r][i].cancelled = TRUE]
     /\ Advance(r)
     /\ UNCHANGED <<job, inside, env, data, seen, over>>

Deliver(s, i, d, j) ==
  /\ ~over /\ Pair(s, i, d, j)
  /\ ops' = [r \in Ranks |-> [k \in DOMAIN ops[r] |->
               IF <<r, k>> \in {<<s, i>>, <<d, j>>} THEN [ops[r][k] EXCEPT !.done = TRUE, !.eager = FALSE]
               ELSE ops[r][k]]]
  /\ seen' = IF ReceivedAs(ops[s][i].data, ops[d][j].data) THEN {}
             ELSE {"mismatch"}
  /\ over' = (seen' # {})
  /\ UNCHANGED <<job, code, inside, env, data>>

\* Nobody can go on.
Waiting(r) == \/ inside[r] /\ ~Completed(r, Len(ops[r]))
              \/ Ready(r) /\ Faults(r, Next1(r)) = {} /\ Waits(r, Next1(r))
Unmatched(r) == \/ Open(r, Sends \cup Receives) # {}
                \/ \E i \in DOMAIN ops[r] : ops[r][i].call.op \in Collectives /\ ~Met(r, i)
End ==
  /\ ~over
  /\ \A r \in Ranks : code[r] = <<>> \/ Waiting(r)
  /\ \A s, d \in Ranks : \A i \in Open(s, Sends), j \in Open(d, Receives) : ~Pair(s, i, d, j)
  /\ over' = TRUE
  /\ seen' = IF \E r \in Ranks : Waiting(r) THEN {"stuck"}
             ELSE IF \E r \in Ranks : Unmatched(r) \/ env[r] # "down" THEN {"unfinished"}
             ELSE {}
  /\ UNCHANGED <<job, code, inside, env, data, ops>>

Rank(r) == \/ Misuse(r) \/ Environment(r) \/ Plain(r) \/ Datatype(r) \/ OneSided(r)
           \/ Post(r) \/ Leave(r) \/ Request(r) \/ CancelRequest(r)
Ended == over /\ UNCHANGED vars
Message == \E s \in Ranks : \E i \in Open(s, Sends) : \E d \in Ranks : \E j \in Open(d, Receives) : Deliver(s, i, d, j)
Next == (\E r \in Ranks : Rank(r)) \/ Message \/ End \/ Ended
Spec == Init /\ [][Next]_vars
-----------------------------------------------------------------------------
Kinds == {"argument", "mismatch", "order", "busy", "race", "lost", "unfinished", "stuck", "aborted"}

\* Types; a request handle denotes an operation of its rank, and a rank in a
\* blocking call is in the call it posted last.
TypeOK ==
  /\ job.lib \in Libraries /\ job.argc \in {1, 2}
  /\ inside \in [Ranks -> BOOLEAN] /\ env \in [Ranks -> {"before", "up", "down"}]
  /\ seen \subseteq Kinds /\ over \in BOOLEAN
  /\ \A r \in Ranks :
       /\ \A q \in DOMAIN reqs[r] : reqs[r][q] \in 0..Len(ops[r])
       /\ inside[r] => ops[r] # <<>> /\ Last(ops[r]).call = Head(code[r])

\* The calls of these kinds whose messages have been transferred.
Transferred(x) == x.done /\ ~x.cancelled /\ x.call.peer # job.lib.proc_null
Done(kinds) ==
  UNION {{<<r, i>> : i \in {i \in DOMAIN ops[r] : ops[r][i].call.op \in kinds /\ Transferred(ops[r][i])}} : r \in Ranks}

\* A program that ends without a misuse has completed everything: no window and
\* no request is left on a rank, and as many messages have been received as were
\* sent.
CleanEnd ==
  over /\ seen = {} =>
    /\ \A r \in Ranks : DOMAIN wins[r] = {} /\ \A q \in DOMAIN reqs[r] : reqs[r][q] = 0
    /\ Cardinality(Done(Sends)) = Cardinality(Done(Receives))
=============================================================================
