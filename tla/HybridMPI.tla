----------------------------- MODULE HybridMPI -----------------------------
(***************************************************************************)
(* What the OpenMP cases of the suite run on: two ranks, each a team of    *)
(* OpenMP threads that share memory and call MPI.  The module executes one *)
(* case of the constant Program, chosen initially, in every interleaving   *)
(* of threads and messages that OpenMP and MPI allow:                      *)
(*   - a call of MPI is entered and left in separate steps;                *)
(*   - a standard send may be buffered or wait for its receive, and the    *)
(*     data of a pending send is read at any moment before it completes;   *)
(*   - any thread may take any item of a worksharing construct or any task *)
(*     whose dependences are satisfied;                                    *)
(*   - the library may provide less than the requested thread level.       *)
(* It carries the oracle of nondeterminism.h and the signal files, and     *)
(* remembers in seen which misuse of MPI has really happened so far.       *)
(***************************************************************************)
EXTENDS OmpMpiOps, ParserRules, SequencesExt

CONSTANT Program    \* the cases, by name

VARIABLES job,       \* the case that runs, and the thread level the library provides
          th,        \* per thread: what it has still to execute, and where it is in it
          team,      \* per rank: region entered, items taken, lock, finalized
          mem,       \* per rank: memory cells
          reqs,      \* per rank: request variables
          queue,     \* per rank: its sends and receives in posting order
          coll,      \* per rank: its collective calls in posting order
          oracle,    \* per rank: the counters of nondeterminism.h
          verdicts,  \* per rank: the values has_error_manifested was called with
          files,     \* the ranks whose error_not_present file exists
          seen       \* the misuses that have happened

\* Instruction k of a sequence comes after an instruction that opens and before
\* the one that closes: between CHECK_OVERLAP_BEGIN and CHECK_OVERLAP_END, or in
\* a critical section.
Within(open, close, cs, k) ==
  \E i \in 1..(k - 1) : cs[i].op = open /\ \A j \in (i + 1)..(k - 1) : cs[j].op # close
Inside(cs, k) == Within("capture", "end", cs, k)
Locked(cs, k) == Within("lock", "unlock", cs, k)

\* Where the team meets, and how often it has done so before instruction k.
Meets == {"fork", "join", "bar"}
MeetsBefore(cs, k) == Cardinality({i \in 1..(k - 1) : cs[i].op \in Meets})

\* The macros and critical sections come in pairs with simple code in between;
\* CHECK_OVERLAP_BEGIN captures and counts, and the macros for the order of calls
\* have a variable each.
IsCode(cs) ==
  /\ cs \in Seq(Range(cs))
  /\ \A k \in DOMAIN cs :
       /\ cs[k].op \notin {"none", "init"}
       /\ cs[k].op = "end" => Inside(cs, k)
       /\ cs[k].op = "unlock" => Locked(cs, k)
       /\ cs[k].op \in {"capture", "work", "report"} => ~Inside(cs, k)
       /\ cs[k].op \in Meets \cup {"lock", "work"} => ~Locked(cs, k)
       /\ cs[k].op = "capture" => k + 1 \in DOMAIN cs /\ cs[k + 1].op = "count"
       /\ cs[k].op = "count" => k - 1 \in DOMAIN cs /\ cs[k - 1].op = "capture"
       /\ cs[k].op = "take" => cs[k].buf \in {"before_a", "after_a", "before_b", "after_b"}
  /\ ~Inside(cs, Len(cs) + 1) /\ ~Locked(cs, Len(cs) + 1)
\* No worksharing construct is nested in another, no item holds a barrier.
IsProgram(cs) ==
  /\ IsCode(cs)
  /\ \A k \in DOMAIN cs : cs[k].op = "work" =>
       /\ cs[k].items \in Seq(Range(cs[k].items))
       /\ \A i \in DOMAIN cs[k].items :
            LET item == cs[k].items[i].code
            IN IsCode(item) /\ item # <<>> /\ \A j \in DOMAIN item : item[j].op \notin Meets \cup {"work", "report"}

\* The instruction is such an operation, or an item of it contains one.
Does(x, ops) ==
  \/ x.op \in ops
  \/ x.op = "work" /\ \E i \in DOMAIN x.items : \E j \in DOMAIN x.items[i].code : x.items[i].code[j].op \in ops
Uses(code, op) == \E t \in Tids : \E k \in DOMAIN code[t] : Does(code[t][k], {op})

\* The threads of a rank: those that OpenMP adds live from fork to join, main
\* reports when they are gone, and the rank uses the macros of one kind.
IsTeam(code) ==
  /\ \A t \in Tids : IsProgram(code[t])
  /\ \A t \in Tids \ {0} :
       LET cs == code[t]
       IN /\ cs # <<>> => cs[1].op = "fork" /\ cs[Len(cs)].op = "join"
          /\ \A k \in DOMAIN cs : cs[k].op # "report"
          /\ \A k \in DOMAIN code[0] : code[0][k].op = "report" =>
                MeetsBefore(cs, Len(cs) + 1) <= MeetsBefore(code[0], k)
  /\ ~(Uses(code, "capture") /\ Uses(code, "take"))

ASSUME ProgramAssumption ==
  \A n \in DOMAIN Program :
    Program[n].level \in SINGLE..MULTIPLE /\ \A r \in Ranks : IsTeam(Program[n].code[r])

calls == <<reqs, queue, coll>>
results == <<verdicts, files>>
vars == <<job, th, team, mem, calls, oracle, results, seen>>

Procs == Ranks \X Tids
\* The code of a thread, and that of the item of a worksharing construct it is in.
CodeOf(p) == job.code[p[1]][p[2]]
ItemCode(p) == CodeOf(p)[th[p].at].items[th[p].item[2]].code
Nth(code, n) == IF n \in DOMAIN code THEN code[n] ELSE Blank

Op(p) == th[p].now
Finished(p) == Op(p).op = "none"
Terminated == \A p \in Procs : Finished(p)

\* The thread has executed its instruction; with the last one of an item it is
\* back at the construct.
Advance(p) ==
  LET t == [th[p] EXCEPT !.in = FALSE]
  IN IF t.item = NoItem THEN [t EXCEPT !.at = @ + 1, !.now = Nth(CodeOf(p), t.at + 1)]
     ELSE IF t.step < Len(ItemCode(p)) THEN [t EXCEPT !.step = @ + 1, !.now = ItemCode(p)[t.step + 1]]
     ELSE [t EXCEPT !.item = NoItem, !.step = 1, !.now = CodeOf(p)[t.at]]

\* A call is named by its thread and its place among the thread's calls.
LastCall(p) == <<p[2], th[p].calls>>
NoCall == <<-1, 0>>
NoRecord == [id |-> NoCall]

Init ==
  /\ \E n \in DOMAIN Program :
       /\ \E l \in {Program[n].level, Program[n].level - 1} \cap (SINGLE..MULTIPLE) :
            job = [name |-> n, level |-> Program[n].level, checks |-> Program[n].checks,
                   signals |-> Program[n].signals, label |-> Program[n].label,
                   code |-> Program[n].code, provided |-> l]
       /\ th = [p \in Procs |-> [at |-> p[2], item |-> NoItem, step |-> 1, in |-> FALSE,
                                 now |-> IF p[2] = 0 THEN InitThread ELSE Nth(Program[n].code[p[1]][1], 1),
                                 calls |-> 0, reg |-> NoCall, found |-> NoRecord, before |-> 0]]
       /\ mem = Program[n].mem
  /\ team = [r \in Ranks |-> [forked |-> FALSE, taken |-> {}, lock |-> -1, finalized |-> FALSE]]
  /\ reqs = [r \in Ranks |-> <<>>]
  /\ queue = [r \in Ranks |-> <<>>]
  /\ coll = [r \in Ranks |-> <<>>]
  /\ oracle = [r \in Ranks |-> [flag |-> 0, overlap_count |-> 0, before_a |-> 0, after_a |-> 0,
                                before_b |-> 0, after_b |-> 0]]
  /\ verdicts = [r \in Ranks |-> {}]
  /\ files = {}
  /\ seen = {}
-----------------------------------------------------------------------------
(***************************************************************************)
(* What an instruction touches, and which touches conflict.                *)
(***************************************************************************)
Touch(b, cs, w) == {[at |-> <<b, cs[i]>>, write |-> w] : i \in 1..Len(cs)}
TouchRequest(i) == {[at |-> i.req, write |-> TRUE]}

Accesses(r, i) ==
  CASE i.op \in {"store", "add", "judge", "recv", "mrecv", "recvprobed", "create", "use", "free"} ->
         Touch(i.buf, i.cells, TRUE)
    [] i.op = "send" -> Touch(i.buf, i.cells, FALSE)
    [] i.op = "sendrecv" -> Touch(i.buf, i.cells, FALSE) \cup Touch(i.into, i.cells, TRUE)
    [] i.op = "isend" -> Touch(i.buf, i.cells, FALSE) \cup TouchRequest(i)
    [] i.op = "irecv" -> Touch(i.buf, i.cells, TRUE) \cup TouchRequest(i)
    [] i.op = "wait" -> TouchRequest(i)
    [] i.op = "bcast" -> Touch(i.buf, i.cells, r # i.peer)
    [] i.op = "ibcast" -> Touch(i.buf, i.cells, r # i.peer) \cup TouchRequest(i)
    [] i.op = "reduce" -> Touch(i.buf, i.cells, FALSE) \cup
                            (IF r = i.peer THEN Touch(i.into, i.cells, TRUE) ELSE {})
    [] OTHER -> {}

Touches(r, i) == Accesses(r, i) \cup {[at |-> h, write |-> FALSE] : h \in i.uses}
Touched(p) == Touches(p[1], Op(p))

Conflict(A, B) == \E a \in A, b \in B : a.at = b.at /\ (a.write \/ b.write)

\* What the library may still touch on behalf of nonblocking calls.
Pending(r) ==
  UNION {Touch(x.buf, x.cells, x.kind = "recv") :
           x \in {y \in ToSet(queue[r]) : y.nonblocking /\ ~y.waited}}
  \cup
  UNION {Touch(x.buf, x.cells, r # x.root) :
           x \in {y \in ToSet(coll[r]) : y.nonblocking /\ ~y.waited}}

Mates(p) == {q \in Procs : q[1] = p[1] /\ q # p}
MatesInMpi(p) == {q \in Mates(p) : th[q].in}

Races(p) == \/ \E q \in MatesInMpi(p) : Conflict(Touched(p), Touched(q))
            \/ Conflict(Touched(p), Pending(p[1]))

\* A pending send or receive, and a pending collective call.  A receive that
\* follows a probe has a message in mind.
Message(id, i, kind, b) ==
  [id |-> id, kind |-> kind, meant |-> NoCall, peer |-> i.peer, tag |-> i.tag, buf |-> b, cells |-> i.cells,
   vals |-> <<>>, matched |-> FALSE, held |-> FALSE,
   nonblocking |-> i.op \in Nonblocking, waited |-> FALSE]

Collective(id, i) ==
  [id |-> id, op |-> IF i.op = "ibcast" THEN "bcast" ELSE i.op, root |-> i.peer, type |-> i.tag,
   buf |-> i.buf, cells |-> i.cells, into |-> i.into, vals |-> <<>>, done |-> FALSE,
   nonblocking |-> i.op \in Nonblocking, waited |-> FALSE]

\* Two ranks' calls that MPI may match with each other, and that are the same.
Alike(x, y) == x.op = y.op /\ x.root = y.root
Agree(x, y) == Alike(x, y) /\ x.type = y.type /\ Len(x.cells) = Len(y.cells)

\* The misuses a thread commits by entering its call: more threads in MPI than
\* the level allows, two collectives of one communicator at a time, ...
CallFaults(p) ==
  LET r == p[1]
      i == Op(p)
      level == \/ job.provided = SINGLE /\ team[r].forked
               \/ job.provided = FUNNELED /\ p[2] # 0
               \/ job.provided < MULTIPLE /\ MatesInMpi(p) # {}
      overlap == i.op \in Collectives /\ \E q \in MatesInMpi(p) : Op(q).op \in Collectives
      mismatch == /\ i.op \in Collectives /\ Len(coll[r]) + 1 \in DOMAIN coll[Other(r)]
                  /\ ~Agree(Collective(NoCall, i), coll[Other(r)][Len(coll[r]) + 1])
      handle == \/ \E h \in i.uses : mem[r][h] # 1
                \/ i.op \in {"use", "free"} /\ mem[r][<<i.buf, i.cells[1]>>] # 1
      finalize == \/ team[r].finalized
                  \/ i.op = "finalize" /\ (p[2] # 0 \/ MatesInMpi(p) # {})
  IN {f \in {"level"} : level} \cup {f \in {"overlap"} : overlap} \cup {f \in {"handle"} : handle}
       \cup {f \in {"finalize"} : finalize} \cup {f \in {"mismatch"} : mismatch}
       \cup {f \in {"race"} : Races(p)}
-----------------------------------------------------------------------------
(***************************************************************************)
(* MPI_Init_thread, and the way out when it provides too little.           *)
(***************************************************************************)
TooLow == job.checks /\ job.provided < job.level
Starting(r) == Op(<<r, 0>>).op = "init"
StopRank(r) ==
  th' = [p \in Procs |-> IF p[1] = r THEN [th[p] EXCEPT !.now = Blank] ELSE th[p]]

\* has_error_manifested(false), then exit or MPI_Abort
GiveUp(r) ==
  /\ Starting(r) /\ TooLow
  /\ StopRank(r)
  /\ IF job.signals
     THEN verdicts' = [verdicts EXCEPT ![r] = @ \cup {FALSE}] /\ files' = files \cup {r}
     ELSE UNCHANGED results
  /\ UNCHANGED <<job, team, mem, calls, oracle, seen>>

\* ... which takes the other rank down before it has signalled anything.
KilledByAbort(r) ==
  /\ Starting(r) /\ TooLow
  /\ Finished(<<Other(r), 0>>)
  /\ StopRank(r)
  /\ UNCHANGED <<job, team, mem, calls, oracle, results, seen>>

Begin(r) ==
  /\ Starting(r) /\ ~TooLow
  /\ th' = [th EXCEPT ![<<r, 0>>] = Advance(<<r, 0>>)]
  /\ UNCHANGED <<job, team, mem, calls, oracle, results, seen>>
-----------------------------------------------------------------------------
(***************************************************************************)
(* OpenMP.                                                                 *)
(***************************************************************************)
\* fork, join and barrier: the team meets, then every thread goes on.
Meet(r) ==
  /\ \A t \in Tids : Op(<<r, t>>).op \in Meets
  /\ th' = [p \in Procs |-> IF p[1] = r THEN Advance(p) ELSE th[p]]
  /\ team' = [team EXCEPT ![r].forked = TRUE]
  /\ UNCHANGED <<job, mem, calls, oracle, results, seen>>

\* An item has been executed when it was taken and nobody is in it any more.
ItemDone(r, x) == x \in team[r].taken /\ \A t \in Tids : th[<<r, t>>].item # x

\* A thread at a worksharing construct takes an item, or a task that is ready.
Take(p) ==
  LET work == Op(p)
  IN /\ work.op = "work"
     /\ \E i \in DOMAIN work.items :
          /\ <<work.tag, i>> \notin team[p[1]].taken
          /\ \A j \in work.items[i].after : ItemDone(p[1], <<work.tag, j>>)
          /\ th' = [th EXCEPT ![p].item = <<work.tag, i>>, ![p].now = Nth(work.items[i].code, 1)]
          /\ team' = [team EXCEPT ![p[1]].taken = @ \cup {<<work.tag, i>>}]
     /\ UNCHANGED <<job, mem, calls, oracle, results, seen>>

\* Nothing is left to take: on to what follows the construct.
Pass(p) ==
  /\ Op(p).op = "work"
  /\ \A i \in DOMAIN Op(p).items : <<Op(p).tag, i>> \in team[p[1]].taken
  /\ th' = [th EXCEPT ![p] = Advance(p)]
  /\ UNCHANGED <<job, team, mem, calls, oracle, results, seen>>

Acquire(p) ==
  /\ Op(p).op = "lock"
  /\ team[p[1]].lock = -1
  /\ team' = [team EXCEPT ![p[1]].lock = p[2]]
  /\ th' = [th EXCEPT ![p] = Advance(p)]
  /\ UNCHANGED <<job, mem, calls, oracle, results, seen>>

Release(p) ==
  /\ Op(p).op = "unlock"
  /\ team' = [team EXCEPT ![p[1]].lock = -1]
  /\ th' = [th EXCEPT ![p] = Advance(p)]
  /\ UNCHANGED <<job, mem, calls, oracle, results, seen>>

\* An ordinary store; it races when a call or the library has the cell.
Write(p) ==
  LET x == <<Op(p).buf, Op(p).cells[1]>>
  IN /\ Op(p).op \in {"store", "add"}
     /\ mem' = [mem EXCEPT ![p[1]][x] = IF Op(p).op = "add" THEN @ + Op(p).val ELSE Op(p).val]
     /\ seen' = seen \cup {f \in {"race"} : Races(p)}
     /\ th' = [th EXCEPT ![p] = Advance(p)]
     /\ UNCHANGED <<job, team, calls, oracle, results>>
-----------------------------------------------------------------------------
(***************************************************************************)
(* MPI: entering and leaving calls.                                        *)
(***************************************************************************)
\* A receive after MPI_Probe asks for the tag and the length of its status.
Probed(p, id) ==
  LET found == th[p].found
  IN [Message(id, Op(p), "recv", Op(p).buf) EXCEPT !.meant = found.id, !.tag = found.tag,
                                                   !.cells = SubSeq(@, 1, Len(found.cells))]

Posted(p, id) ==
  LET i == Op(p)
  IN CASE i.op \in {"send", "isend"} -> <<Message(id, i, "send", i.buf)>>
       [] i.op \in {"recv", "irecv"} -> <<Message(id, i, "recv", i.buf)>>
       [] i.op = "recvprobed" -> <<Probed(p, id)>>
       [] i.op = "sendrecv" -> <<Message(id, i, "recv", i.into), Message(id, i, "send", i.buf)>>
       [] OTHER -> <<>>

Enter(p) ==
  LET r == p[1]
      i == Op(p)
      id == <<p[2], th[p].calls + 1>>
  IN /\ i.op \in MpiOps /\ ~th[p].in
     /\ th' = [th EXCEPT ![p].in = TRUE, ![p].calls = @ + 1,
                         ![p].reg = IF i.op = "wait" /\ i.req \in DOMAIN reqs[r]
                                    THEN reqs[r][i.req] ELSE @]
     /\ queue' = [queue EXCEPT ![r] = @ \o Posted(p, id)]
     /\ coll' = IF i.op \in Collectives THEN [coll EXCEPT ![r] = Append(@, Collective(id, i))]
                                        ELSE coll
     /\ reqs' = IF i.op \in Nonblocking THEN [reqs EXCEPT ![r] = (i.req :> id) @@ @] ELSE reqs
     /\ team' = IF i.op = "finalize" THEN [team EXCEPT ![r].finalized = TRUE] ELSE team
     /\ seen' = seen \cup CallFaults(p)
     /\ UNCHANGED <<job, mem, oracle, results>>

\* The call has done its part: its buffer belongs to the program again.
Complete(r, id) ==
  /\ \A x \in ToSet(queue[r]) : x.id = id => x.matched \/ x.vals # <<>>
  /\ \A x \in ToSet(coll[r]) : x.id = id => x.done

\* The records without one of the call whose message has been received.
Without(records, id) ==
  LET over == {k \in DOMAIN records : records[k].id = id /\ records[k].matched}
  IN IF over = {} THEN records ELSE RemoveAt(records, CHOOSE k \in over : TRUE)

\* Its records, of which MPI_Sendrecv has two, are dropped, or kept while the
\* message is still to be received.
Retire(r, id) ==
  LET over(x) == IF x.id = id THEN [x EXCEPT !.waited = TRUE] ELSE x
      kept == Without(Without(queue[r], id), id)
  IN /\ queue' = [queue EXCEPT ![r] = [k \in DOMAIN kept |-> over(kept[k])]]
     /\ coll' = [coll EXCEPT ![r] = [k \in DOMAIN @ |-> over(@[k])]]

\* Calls that return at once, having posted or done their work.
LeaveImmediate(p) ==
  LET r == p[1]
      i == Op(p)
      x == <<i.buf, i.cells[1]>>
  IN /\ i.op \in Nonblocking \cup {"create", "use", "free", "finalize"} /\ th[p].in
     /\ mem' = CASE i.op = "create" -> [mem EXCEPT ![r][x] = 1]
                 [] i.op = "free" -> [mem EXCEPT ![r][x] = 0]
                 [] OTHER -> mem
     /\ th' = [th EXCEPT ![p] = Advance(p)]
     /\ UNCHANGED <<job, team, calls, oracle, results, seen>>

LeaveBlocking(p) ==
  /\ Op(p).op \in Blocking /\ th[p].in
  /\ Complete(p[1], LastCall(p))
  /\ Retire(p[1], LastCall(p))
  /\ th' = [th EXCEPT ![p] = Advance(p)]
  /\ UNCHANGED <<job, team, mem, reqs, oracle, results, seen>>

\* MPI_Wait: for the request it found in the variable when it was called, which
\* another thread may have completed in the meantime.
LeaveWait(p) ==
  LET r == p[1]
      i == Op(p)
      id == th[p].reg
      gone == \A x \in ToSet(queue[r]) \cup ToSet(coll[r]) : x.id = id => x.waited
  IN /\ i.op = "wait" /\ th[p].in
     /\ Complete(r, id)
     /\ Retire(r, id)
     /\ reqs' = [reqs EXCEPT ![r] = (i.req :> NoCall) @@ @]
     /\ seen' = IF gone THEN seen \cup {"request"} ELSE seen
     /\ th' = [th EXCEPT ![p] = [Advance(p) EXCEPT !.reg = NoCall]]
     /\ UNCHANGED <<job, team, mem, oracle, results>>
-----------------------------------------------------------------------------
(***************************************************************************)
(* MPI: messages.                                                          *)
(***************************************************************************)
Contents(r, x) == [k \in 1..Len(x.cells) |-> mem[r][<<x.buf, x.cells[k]>>]]
Payload(r, x) == IF x.vals # <<>> THEN x.vals ELSE Contents(r, x)
Undefined(data) == {f \in {"uninit"} : Uninit \in ToSet(data)}

\* The memory of rank r with data in the given cells of buffer b.
Put(r, b, cs, data) ==
  [mem EXCEPT ![r] = [x \in DOMAIN @ |->
     IF x[1] = b /\ \E j \in DOMAIN data : cs[j] = x[2]
     THEN data[CHOOSE j \in DOMAIN data : cs[j] = x[2]] ELSE @[x]]]

\* The library copies the data of a pending send, which may then return.
BufferSend(r, k) ==
  LET x == queue[r][k]
  IN /\ x.kind = "send" /\ ~x.matched /\ x.vals = <<>>
     /\ queue' = [queue EXCEPT ![r][k].vals = Contents(r, x)]
     /\ seen' = seen \cup Undefined(Contents(r, x))
     /\ UNCHANGED <<job, th, team, mem, reqs, coll, oracle, results>>

IsOpen(x, kind, peer) == x.kind = kind /\ x.peer = peer /\ ~x.matched /\ ~x.held
Fits(x, y) == y.tag \in {x.tag, AnyTag}

\* Send k of rank s meets receive l of rank d: the earliest that fit each other.
Deliver(s, d, k, l) ==
  LET x == queue[s][k]
      y == queue[d][l]
      long == Len(x.cells) > Len(y.cells)
      data == IF long THEN SubSeq(Payload(s, x), 1, Len(y.cells)) ELSE Payload(s, x)
      taken == [queue EXCEPT ![s][k].matched = TRUE, ![d][l].matched = TRUE]
  IN /\ IsOpen(x, "send", d) /\ IsOpen(y, "recv", s) /\ Fits(x, y)
     /\ \A j \in 1..(k - 1) : ~(IsOpen(queue[s][j], "send", d) /\ Fits(queue[s][j], y))
     /\ \A j \in 1..(l - 1) : ~(IsOpen(queue[d][j], "recv", s) /\ Fits(x, queue[d][j]))
     /\ mem' = Put(d, y.buf, y.cells, data)
     /\ queue' = IF x.waited THEN [taken EXCEPT ![s] = RemoveAt(@, k)] ELSE taken
     /\ seen' = seen \cup Undefined(data)
                     \cup {f \in {"truncated"} : long}
                     \cup {f \in {"stolen"} : y.meant \notin {NoCall, x.id}}
     /\ UNCHANGED <<job, th, team, reqs, coll, oracle, results>>

\* The messages of rank s that rank r may probe: sent, received by nobody, and
\* no earlier one fits.
Probable(s, r, tag) ==
  {k \in DOMAIN queue[s] :
     /\ IsOpen(queue[s][k], "send", r) /\ tag \in {queue[s][k].tag, AnyTag}
     /\ \A j \in 1..(k - 1) : ~(IsOpen(queue[s][j], "send", r) /\ tag \in {queue[s][j].tag, AnyTag})
     /\ \A y \in ToSet(queue[r]) : ~(IsOpen(y, "recv", s) /\ Fits(queue[s][k], y))}

\* MPI_Probe returns with the status of a message; MPI_Mprobe takes it as well.
\* The length goes where MPI_Get_count puts it.
LeaveProbe(p) ==
  LET r == p[1]
      i == Op(p)
  IN /\ i.op \in {"probe", "mprobe"} /\ th[p].in
     /\ \E k \in Probable(i.peer, r, i.tag) :
          /\ th' = [th EXCEPT ![p] = [Advance(p) EXCEPT !.found = queue[i.peer][k]]]
          /\ mem' = [mem EXCEPT ![r][i.req] = Len(queue[i.peer][k].cells)]
          /\ queue' = IF i.op = "mprobe" THEN [queue EXCEPT ![i.peer][k].held = TRUE] ELSE queue
     /\ UNCHANGED <<job, team, reqs, coll, oracle, results, seen>>

\* MPI_Mrecv: of the message the thread took with MPI_Mprobe.
LeaveMrecv(p) ==
  LET r == p[1]
      i == Op(p)
  IN /\ i.op = "mrecv" /\ th[p].in
     /\ \E k \in DOMAIN queue[i.peer] :
          LET x == queue[i.peer][k]
          IN /\ x.id = th[p].found.id
             /\ mem' = Put(r, i.buf, i.cells, Payload(i.peer, x))
             /\ queue' = IF x.waited THEN [queue EXCEPT ![i.peer] = RemoveAt(@, k)]
                                     ELSE [queue EXCEPT ![i.peer][k].matched = TRUE]
             /\ seen' = seen \cup Undefined(Payload(i.peer, x))
     /\ th' = [th EXCEPT ![p] = Advance(p)]
     /\ UNCHANGED <<job, team, reqs, coll, oracle, results>>
-----------------------------------------------------------------------------
(***************************************************************************)
(* MPI: collectives.  The n-th call of a rank goes with the n-th call of   *)
(* the other; different operations never complete.                           *)
(***************************************************************************)
\* The root of a broadcast and a contributor of a reduction may go ahead alone.
ContributesAlone(r, x) ==
  (x.op = "bcast" /\ x.root = r) \/ (x.op = "reduce" /\ x.root # r)

Total(a, b) == [k \in DOMAIN a |-> a[k] + b[k]]

GoAhead(r, n) ==
  LET x == coll[r][n]
  IN /\ ~x.done /\ ContributesAlone(r, x)
     /\ coll' = [coll EXCEPT ![r][n].done = TRUE, ![r][n].vals = Contents(r, x)]
     /\ seen' = seen \cup Undefined(Contents(r, x))
     /\ UNCHANGED <<job, th, team, mem, reqs, queue, oracle, results>>

Combine(r, n) ==
  LET x == coll[r][n]
      y == coll[Other(r)][n]
  IN /\ ~x.done /\ ~ContributesAlone(r, x)
     /\ n \in DOMAIN coll[Other(r)] /\ Alike(x, y)
     /\ \/ x.op = "barrier" /\ UNCHANGED <<mem, seen>>
        \/ /\ x.op = "bcast" /\ y.done
           /\ mem' = Put(r, x.buf, x.cells, y.vals)
           /\ UNCHANGED seen
        \/ /\ x.op = "reduce" /\ y.done
           /\ mem' = Put(r, x.into, x.cells, Total(Contents(r, x), y.vals))
           /\ seen' = seen \cup Undefined(Contents(r, x))
     /\ coll' = [coll EXCEPT ![r][n].done = TRUE]
     /\ UNCHANGED <<job, th, team, reqs, queue, oracle, results>>
-----------------------------------------------------------------------------
(***************************************************************************)
(* The oracle of nondeterminism.h.                                         *)
(***************************************************************************)
\* atomic capture: before = flag++
Capture(p) ==
  /\ Op(p).op = "capture"
  /\ th' = [th EXCEPT ![p] = [Advance(p) EXCEPT !.before = oracle[p[1]].flag]]
  /\ oracle' = [oracle EXCEPT ![p[1]].flag = @ + 1]
  /\ UNCHANGED <<job, team, mem, calls, results, seen>>

\* Mutant: only a third thread counts.
CountThird(p) ==
  /\ Op(p).op = "count"
  /\ oracle' = IF th[p].before > 1 THEN [oracle EXCEPT ![p[1]].overlap_count = @ + 1] ELSE oracle
  /\ th' = [th EXCEPT ![p] = Advance(p)]
  /\ UNCHANGED <<job, team, mem, calls, results, seen>>

\* if (before != 0) overlap_count++
Count(p) ==
  /\ Op(p).op = "count"
  /\ oracle' = IF th[p].before # 0 THEN [oracle EXCEPT ![p[1]].overlap_count = @ + 1] ELSE oracle
  /\ th' = [th EXCEPT ![p] = Advance(p)]
  /\ UNCHANGED <<job, team, mem, calls, results, seen>>

\* Mutant: flag is decremented twice.
EndTwice(p) ==
  /\ Op(p).op = "end"
  /\ oracle' = [oracle EXCEPT ![p[1]].flag = @ - 2]
  /\ th' = [th EXCEPT ![p] = Advance(p)]
  /\ UNCHANGED <<job, team, mem, calls, results, seen>>

\* CHECK_OVERLAP_END: --flag
End(p) ==
  /\ Op(p).op = "end"
  /\ oracle' = [oracle EXCEPT ![p[1]].flag = @ - 1]
  /\ th' = [th EXCEPT ![p] = Advance(p)]
  /\ UNCHANGED <<job, team, mem, calls, results, seen>>

\* ENTER_CALL_x and EXIT_CALL_x: x = flag++
TakeFlag(p) ==
  /\ Op(p).op = "take"
  /\ oracle' = [oracle EXCEPT ![p[1]][Op(p).buf] = oracle[p[1]].flag, ![p[1]].flag = @ + 1]
  /\ th' = [th EXCEPT ![p] = Advance(p)]
  /\ UNCHANGED <<job, team, mem, calls, results, seen>>

\* CHECK_FOR_EXPECTED_ORDER
ExpectedOrder(o) == o.before_a = 0 /\ o.after_a = 1 /\ o.before_b = 2 /\ o.after_b = 3

Holding(r, l) ==
  LET vals == {mem[r][<<l.buf, l.cells[k]>>] : k \in DOMAIN l.cells}
  IN CASE l.kind = "has" -> vals = {l.val}
       [] l.kind = "lacks" -> vals # {l.val}
       [] l.kind = "holds" -> l.val \in vals
       [] l.kind = "counted" -> oracle[r].overlap_count # 0
       [] l.kind = "disordered" -> ~ExpectedOrder(oracle[r])

\* What a condition may evaluate to: anything when it reads a variable nobody
\* has stored into.
Outcomes(r, cond) ==
  IF \E l \in UNION cond : \E k \in DOMAIN l.cells : mem[r][<<l.buf, l.cells[k]>>] = Uninit
  THEN BOOLEAN
  ELSE {\E clause \in cond : \A l \in clause : Holding(r, l)}

\* has_race = has_race || ...
Decide(p) ==
  LET r == p[1]
  IN /\ Op(p).op = "judge"
     /\ \E holds \in Outcomes(r, Op(p).cond) :
          mem' = IF holds THEN [mem EXCEPT ![r][<<Op(p).buf, Op(p).cells[1]>>] = 1] ELSE mem
     /\ seen' = seen \cup {f \in {"race"} : Races(p)}
     /\ th' = [th EXCEPT ![p] = Advance(p)]
     /\ UNCHANGED <<job, team, calls, oracle, results>>

\* has_error_manifested: a file only when the answer is no.  It asks MPI for the
\* rank, which a finalized library need not answer.
HasErrorManifested(p) ==
  LET r == p[1]
  IN /\ Op(p).op = "report"
     /\ \E manifested \in Outcomes(r, Op(p).cond) :
          /\ verdicts' = [verdicts EXCEPT ![r] = @ \cup {manifested}]
          /\ \/ ~manifested /\ files' = files \cup {r}
             \/ (manifested \/ team[r].finalized) /\ UNCHANGED files
          /\ seen' = seen \cup {f \in {"finalize"} : ~manifested /\ team[r].finalized}
     /\ th' = [th EXCEPT ![p] = Advance(p)]
     /\ UNCHANGED <<job, team, mem, calls, oracle>>
-----------------------------------------------------------------------------
InsideCall(p) ==
  /\ th[p].in
  /\ \/ LeaveImmediate(p) \/ LeaveBlocking(p) \/ LeaveWait(p)
     \/ LeaveProbe(p) \/ LeaveMrecv(p)

OutsideCalls(p) ==
  /\ ~th[p].in /\ ~Finished(p)
  /\ \/ Take(p) \/ Pass(p) \/ Acquire(p) \/ Release(p) \/ Write(p) \/ Enter(p)
     \/ Capture(p) \/ Count(p) \/ End(p) \/ TakeFlag(p) \/ Decide(p) \/ HasErrorManifested(p)

ThreadStep(p) == InsideCall(p) \/ OutsideCalls(p)

LibraryStep ==
  \/ \E r \in Ranks : \E k \in DOMAIN queue[r] : BufferSend(r, k)
  \/ \E s, d \in Ranks : \E k \in DOMAIN queue[s], l \in DOMAIN queue[d] : Deliver(s, d, k, l)
  \/ \E r \in Ranks : \E n \in DOMAIN coll[r] : GoAhead(r, n) \/ Combine(r, n)

\* Both ranks have exited.
Exited == Terminated /\ UNCHANGED vars

Next ==
  \/ \E r \in Ranks : GiveUp(r) \/ KilledByAbort(r) \/ Begin(r) \/ Meet(r)
  \/ \E p \in Procs : ThreadStep(p)
  \/ LibraryStep
  \/ Exited

\* A case has no loops, so all it takes to end is that something moves when it can.
Spec == Init /\ [][Next]_vars /\ WF_vars(Next)
-----------------------------------------------------------------------------
(***************************************************************************)
(* How the code of a rank can be written so that its threads do not        *)
(* execute certain operations at the same time.                            *)
(***************************************************************************)
\* The operations of the instruction are all executed with the lock, or between
\* the overlap macros.
UnderLock(cs, k, ops) ==
  LET x == cs[k]
  IN /\ x.op \in ops => Locked(cs, k)
     /\ x.op = "work" => \A i \in DOMAIN x.items : \A j \in DOMAIN x.items[i].code :
                           x.items[i].code[j].op \in ops => Locked(x.items[i].code, j)
AllInside(cs, k, ops) ==
  LET x == cs[k]
  IN /\ x.op \in ops => Inside(cs, k)
     /\ x.op = "work" => \A i \in DOMAIN x.items : \A j \in DOMAIN x.items[i].code :
                           x.items[i].code[j].op \in ops => Inside(x.items[i].code, j)

\* In one construct, of which only one item does so, or none that may be executed
\* at the same time as another.
ItemDoes(x, i, ops) == \E j \in DOMAIN x.items[i].code : x.items[i].code[j].op \in ops
InOneConstruct(x, y, ops) ==
  /\ x.op = "work" /\ y.op = "work" /\ x.tag = y.tag
  /\ \A i \in DOMAIN x.items, j \in DOMAIN y.items :
       ItemDoes(x, i, ops) /\ ItemDoes(y, j, ops) => i = j \/ i \in y.items[j].after \/ j \in x.items[i].after

\* Two threads may execute such operations between the same meetings of the team.
Concurrent(code, t, k, u, l, ops) ==
  /\ t # u /\ MeetsBefore(code[t], k) = MeetsBefore(code[u], l)
  /\ Does(code[t][k], ops) /\ Does(code[u][l], ops)

\* Critical sections, singles and dependences keep them apart, ...
Apart(code, ops) ==
  \A t, u \in Tids : \A k \in DOMAIN code[t], l \in DOMAIN code[u] : Concurrent(code, t, k, u, l, ops) =>
    \/ UnderLock(code[t], k, ops) /\ UnderLock(code[u], l, ops)
    \/ InOneConstruct(code[t][k], code[u][l], ops)
\* ... or the overlap macros are around them.
AllBracketed(code, ops) ==
  \A t, u \in Tids : \A k \in DOMAIN code[t], l \in DOMAIN code[u] : Concurrent(code, t, k, u, l, ops) =>
    AllInside(code[t], k, ops) /\ AllInside(code[u], l, ops)

\* The level is as high as the calls of the threads need.
OnlyMainDoes(code, ops) == \A t \in Tids \ {0} : \A k \in DOMAIN code[t] : ~Does(code[t][k], ops)
LevelIsEnough(code, level) ==
  \/ level = MULTIPLE
  \/ level = SERIALIZED /\ Apart(code, MpiOps)
  \/ level = FUNNELED /\ OnlyMainDoes(code, MpiOps)
  \/ /\ OnlyMainDoes(code, MpiOps)
     /\ \A k \in DOMAIN code[0] : Does(code[0][k], MpiOps) => MeetsBefore(code[0], k) = 0

\* Main finalizes MPI, and nobody uses it afterwards, has_error_manifested(false)
\* included.
FinalizesLast(code) ==
  \A t \in Tids : \A k \in DOMAIN code[t] : Does(code[t][k], {"finalize"}) =>
    /\ t = 0 /\ code[t][k].op = "finalize"
    /\ \A l \in DOMAIN code[0] : l > k =>
         ~Does(code[0][l], MpiOps) /\ (code[0][l].op = "report" => code[0][l].cond = Always)
    /\ \A u \in Tids \ {0} : \A l \in DOMAIN code[u] :
         MeetsBefore(code[u], l) >= MeetsBefore(code[0], k) => ~Does(code[u][l], MpiOps)

\* A case is labelled with the thread misuses that its code does not rule out.
SafelyLabelled(c) ==
  \A r \in Ranks :
    LET code == c.code[r]
    IN /\ "overlap" \in c.label \/ Apart(code, Collectives)
       /\ "level" \in c.label \/ (c.checks /\ LevelIsEnough(code, c.level))
       /\ "finalize" \in c.label \/ FinalizesLast(code)

\* Main reports whether overlap_count is zero.
AsksTheCounter(x) == x.op = "report" /\ x.cond = {{Counted}}
\* The collectives are kept apart, or watched by the macros and reported.
OverlapWatched(c) ==
  \A r \in Ranks :
    LET code == c.code[r]
    IN \/ Apart(code, Collectives)
       \/ AllBracketed(code, Collectives) /\ \E k \in DOMAIN code[0] : AsksTheCounter(code[0][k])

\* Every report of main asks for one of these conditions.
AsksOnly(code, conds) == \A k \in DOMAIN code[0] : code[0][k].op = "report" => code[0][k].cond \in conds

\* Where the macros begin, and between them.
AtMacros(cs, k) == cs[k].op = "capture" \/ Inside(cs, k)
MacroOps == {"capture", "count", "end"}
\* The operations of the instructions there.
InMacros(code) ==
  {op \in MacroOps \cup MpiOps : \E t \in Tids : \E k \in DOMAIN code[t] :
     LET x == code[t][k]
     IN \/ x.op = op /\ AtMacros(code[t], k)
        \/ /\ x.op = "work"
           /\ \E i \in DOMAIN x.items : \E j \in DOMAIN x.items[i].code :
                x.items[i].code[j].op = op /\ AtMacros(x.items[i].code, j)}
\* Nothing but calls of MPI is put between the macros.
AroundCalls(code) ==
  \A t \in Tids : \A k \in DOMAIN code[t] :
    LET x == code[t][k]
    IN /\ Inside(code[t], k) => x.op \in MacroOps \cup MpiOps
       /\ x.op = "work" => \A i \in DOMAIN x.items : \A j \in DOMAIN x.items[i].code :
            Inside(x.items[i].code, j) => x.items[i].code[j].op \in MacroOps \cup MpiOps
KeptOut(code) == AroundCalls(code) /\ Apart(code, InMacros(code))

\* A case that is labelled correct keeps the threads that use the macros apart,
\* and reports the counter or nothing.
QuietByDesign(c) ==
  c.label = {} =>
    \A r \in Ranks : KeptOut(c.code[r]) /\ AsksOnly(c.code[r], {{{Counted}}, Never})
-----------------------------------------------------------------------------
(***************************************************************************)
(* How the code of a case can be written so that it commits no other       *)
(* misuse than those of its label.                                         *)
(***************************************************************************)
Misuses == {"level", "overlap", "race", "handle", "finalize", "request", "uninit", "truncated",
            "stolen", "mismatch"}

Strands(code) ==
  UNION {{code[t]} \cup UNION {{i.code : i \in Range(x.items)} : x \in {y \in Range(code[t]) : y.op = "work"}} :
           t \in Tids}
Instructions(code) == UNION {Range(cs) : cs \in Strands(code)}
Avoids(code, ops) == \A i \in Instructions(code) : i.op \notin ops

Sends == {"send", "isend", "sendrecv"}
Receives == {"recv", "irecv", "sendrecv"}
Probing == {"probe", "mprobe", "recvprobed", "mrecv"}

\* What a thread at instruction k may execute there, in which item and whether
\* with the lock.
Leaves(cs, k) ==
  LET x == cs[k]
  IN IF x.op = "work"
     THEN UNION {{[does |-> x.items[i].code[j], item |-> i, locked |-> Locked(x.items[i].code, j)] :
                    j \in DOMAIN x.items[i].code} : i \in DOMAIN x.items}
     ELSE {[does |-> x, item |-> 0, locked |-> Locked(cs, k)]}
\* One item, or one of which each depends on the other having been executed.
InTurn(x, i, y, j) ==
  /\ x.op = "work" /\ y.op = "work" /\ x.tag = y.tag
  /\ i = j \/ i \in y.items[j].after \/ j \in x.items[i].after

\* Between the same meetings of the team two threads touch the same memory with
\* the lock or in turn, and no call leaves the library touching it.
TouchesApart(r, code) ==
  /\ Avoids(code, Nonblocking)
  /\ \A t, u \in Tids : \A k \in DOMAIN code[t], l \in DOMAIN code[u] :
       t # u /\ MeetsBefore(code[t], k) = MeetsBefore(code[u], l) =>
         \A a \in Leaves(code[t], k), b \in Leaves(code[u], l) :
           Conflict(Touches(r, a.does), Touches(r, b.does)) =>
             (a.locked /\ b.locked) \/ InTurn(code[t][k], a.item, code[u][l], b.item)

\* A receive has room for every message of the case.
RoomForAll(c) ==
  \A s, d \in Ranks : \A i \in Instructions(c.code[s]), j \in Instructions(c.code[d]) :
    i.op \in Sends /\ j.op \in Receives => ~(Len(i.cells) > Len(j.cells))
\* Any collective call of one rank may go with any of the other.
CollectivesAgree(c) ==
  \A r \in Ranks : \A i \in Instructions(c.code[r]), j \in Instructions(c.code[Other(r)]) :
    i.op \in Collectives /\ j.op \in Collectives => Agree(Collective(NoCall, i), Collective(NoCall, j))
\* Everything is stored into beforehand, and nothing is sent from elsewhere.
AllStored(c) ==
  /\ DOMAIN c.mem = Ranks
  /\ \A r \in Ranks :
       /\ \A x \in DOMAIN c.mem[r] : c.mem[r][x] # Uninit
       /\ \A i \in Instructions(c.code[r]) :
            /\ i.op \notin {"add", "reduce"} /\ (i.op = "store" => i.val # Uninit)
            /\ i.op \in Sends \cup {"bcast", "ibcast"} =>
                 \A k \in 1..Len(i.cells) : <<i.buf, i.cells[k]>> \in DOMAIN c.mem[r]

\* The misuses, other than those of threads, that the code rules out.
RuledOut(c) ==
  LET code == c.code
      avoids(ops) == \A r \in Ranks : Avoids(code[r], ops)
      holdsNone == \A r \in Ranks : \A i \in Instructions(code[r]) : i.uses = {}
      fits == avoids(Probing) /\ RoomForAll(c)
  IN {l \in {"race"} : \A r \in Ranks : TouchesApart(r, code[r])}
       \cup {l \in {"handle"} : holdsNone /\ avoids({"use", "free"})}
       \cup {l \in {"request"} : avoids({"wait"})} \cup {l \in {"stolen"} : avoids(Probing)}
       \cup {l \in {"truncated"} : fits} \cup {l \in {"uninit"} : fits /\ AllStored(c)}
       \cup {l \in {"mismatch"} : CollectivesAgree(c)}

\* The code of a case rules out every misuse that it is not labelled with.
RulesOutMisuse(c) ==
  SafelyLabelled(c) /\ Misuses \ ({"level", "overlap", "finalize"} \cup c.label) \subseteq RuledOut(c)
-----------------------------------------------------------------------------
TypeOK ==
  /\ job.name \in DOMAIN Program /\ job.provided \in SINGLE..MULTIPLE
  /\ \A p \in Procs : th[p].in \in BOOLEAN /\ th[p].at \in 0..(Len(CodeOf(p)) + 1)
  /\ \A r \in Ranks : /\ team[r].lock \in Tids \cup {-1}
                      /\ oracle[r].flag \in Nat /\ oracle[r].overlap_count \in Nat
  /\ verdicts \in [Ranks -> SUBSET BOOLEAN]
  /\ files \in SUBSET Ranks
  /\ seen \in SUBSET Misuses

\* The thread is inside the brackets of the overlap macros.
InBracket(p) ==
  /\ ~Finished(p)
  /\ Inside(CodeOf(p), th[p].at) \/ (th[p].item # NoItem /\ Inside(ItemCode(p), th[p].step))

(* In no case do two threads of a rank get past CHECK_OVERLAP_BEGIN together  *)
(* unnoticed, whatever else they execute inside and outside the brackets.     *)
NoOverlapUncounted ==
  \A p \in Procs : \A q \in Mates(p) :
    (\A u \in {p, q} : InBracket(u) /\ Op(u).op # "count") => oracle[p[1]].overlap_count # 0

\* Whether some rank has called has_error_manifested with the given value.
Said(v) == \E r \in Ranks : v \in verdicts[r]

(* A case commits no other misuse of MPI than it is written to contain, in    *)
(* any interleaving: the corrected twin of a case commits none.               *)
OnlyTheLabelledMisuse == seen \subseteq job.label

(* No interleaving makes a correct case report an error.                      *)
CorrectNeverReported == Said(TRUE) => job.label # {}

(* When a case that was run to its end has told the harness that the error    *)
(* manifested, MPI was misused in that run.                                   *)
ReportsAreTrue == Terminated /\ Said(TRUE) => seen # {}

(* A run to the end in which MPI was misused is reported: the macros around   *)
(* the calls miss no overlap and no wrong order of the calls themselves.      *)
MisuseIsReported == Terminated /\ seen # {} => Said(TRUE)

(* A run of which has_error_manifested was told only FALSE is recorded as one *)
(* without the error.                                                         *)
DeniedIsRecordedAbsent ==
  Terminated /\ Said(FALSE) /\ ~Said(TRUE) => CheckIfErrorManifested(files) = 0

\* The threads wait for each other and for messages nobody will send.
Blocked == ~ENABLED Next

(* When the threads block each other for ever the run counts as one with the  *)
(* error, whichever ranks have got through: "do nothing" is the default.      *)
DeadlockIsRecorded == CheckIfErrorManifested(files) # 1 => ~Blocked

(* No case but those written to deadlock can block, whatever else goes wrong. *)
BlocksOnlyIfLabelled == "deadlock" \notin job.label => ~Blocked

(* Every interleaving runs to the end of the program, unless the case is one  *)
(* that is written to deadlock.                                               *)
Completes == <>(Terminated \/ "deadlock" \in job.label)
=============================================================================
