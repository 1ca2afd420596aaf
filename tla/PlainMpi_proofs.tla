--------------------------- MODULE PlainMpi_proofs ---------------------------
(***************************************************************************)
(* What holds of the single-threaded programs whatever their code is: the  *)
(* handles of requests, and that a program which ends without a misuse of  *)
(* MPI leaves nothing behind.                                              *)
(***************************************************************************)
EXTENDS PlainMpi, SequenceTheorems, FiniteSetTheorems, TLAPS

Messages == Sends \cup Receives

IsList(s) == s \in Seq(Range(s))

\* One entry of ops.
Operation(x) ==
  DOMAIN x = {"call", "group", "use", "data", "out", "in", "target", "there", "sync",
              "eager", "done", "cancelled", "waited"}

\* What has not been completed is neither cancelled nor addressed to nobody; only
\* an access belongs to an epoch.
GoodOperation(x, nobody) ==
  /\ Operation(x)
  /\ x.done \in BOOLEAN
  /\ x.call.op \in Messages =>
       x.sync = <<>> /\ (~x.done => ~x.cancelled /\ x.call.peer # nobody)

GoodOps(r) == IsList(ops[r]) /\ \A i \in DOMAIN ops[r] : GoodOperation(ops[r][i], job.lib.proc_null)

\* A handle that is not null denotes an operation that is not completed yet, and
\* no two denote the same.
GoodHandles(r) ==
  \A q \in DOMAIN reqs[r] :
    /\ reqs[r][q] \in 0..Len(ops[r])
    /\ reqs[r][q] # 0 =>
         /\ reqs[r][q] \in PendingOps(r)
         /\ \A p \in DOMAIN reqs[r] : reqs[r][p] = reqs[r][q] => p = q

\* A rank in a blocking call is in the call it posted last.
InItsCall(r) ==
  inside[r] =>
    /\ code[r] # <<>> /\ ops[r] # <<>>
    /\ ops[r][Len(ops[r])].call = Head(code[r])
    /\ env[r] = "up"

NoHandleLeft(r) == env[r] = "down" => \A q \in DOMAIN reqs[r] : reqs[r][q] = 0

\* The code still frees a window.
WillFree(cs, w) == \E k \in DOMAIN cs : cs[k].op = "winfree" /\ cs[k].win = w /\ cs[k].req = ""

RankInv(r) ==
  /\ IsCode(code[r])
  /\ GoodOps(r)
  /\ GoodHandles(r)
  /\ InItsCall(r)
  /\ NoHandleLeft(r)
  /\ \A w \in DOMAIN wins[r] : WillFree(code[r], w)

Typed ==
  /\ job.lib \in Libraries /\ job.argc \in {1, 2}
  /\ inside \in [Ranks -> BOOLEAN] /\ env \in [Ranks -> {"before", "up", "down"}]
  /\ seen \subseteq Kinds /\ over \in BOOLEAN
  /\ DOMAIN code = Ranks /\ DOMAIN wins = Ranks /\ DOMAIN reqs = Ranks /\ DOMAIN ops = Ranks

\* As many messages have been received as were sent.
Conserved ==
  /\ IsFiniteSet(Done(Sends)) /\ IsFiniteSet(Done(Receives))
  /\ Cardinality(Done(Sends)) = Cardinality(Done(Receives))

AllExecuted == over /\ seen = {} => \A r \in Ranks : code[r] = <<>> /\ env[r] = "down"

IInv == Typed /\ (\A r \in Ranks : RankInv(r)) /\ Conserved /\ AllExecuted

-----------------------------------------------------------------------------
(***************************************************************************)
(* Lists and operations.                                                   *)
(***************************************************************************)
LEMMA ListProperties ==
  ASSUME NEW s, IsList(s)
  PROVE  Len(s) \in Nat /\ DOMAIN s = 1..Len(s) /\ (s # <<>> => Len(s) > 0)
BY LenProperties, EmptySeq DEF IsList

\* A list with other elements.
LEMMA SameDomain ==
  ASSUME NEW s, IsList(s), NEW f, f = [i \in DOMAIN s |-> f[i]]
  PROVE  IsList(f) /\ Len(f) = Len(s) /\ DOMAIN f = DOMAIN s
<1>1. Len(s) \in Nat /\ DOMAIN s = 1..Len(s)
  BY ListProperties
<1>2. f \in [1..Len(s) -> Range(f)]
  BY <1>1 DEF Range
<1>3. f \in Seq(Range(f))
  BY <1>1, <1>2, SeqDef
<1>4. DOMAIN f = 1..Len(f) /\ Len(f) \in Nat
  BY <1>3, LenProperties
<1>5. Len(f) = Len(s)
  BY <1>1, <1>2, <1>4
<1>6. QED
  BY <1>1, <1>3, <1>4, <1>5 DEF IsList

LEMMA Appended ==
  ASSUME NEW s, IsList(s), NEW x
  PROVE  LET t == Append(s, x)
         IN /\ IsList(t) /\ Len(t) = Len(s) + 1
            /\ \A i \in 1..Len(s) : t[i] = s[i]
            /\ t[Len(s) + 1] = x
<1> DEFINE S == Range(s) \cup {x}
           t == Append(s, x)
<1>1. s \in Seq(S) /\ x \in S
  BY SeqMonotonic DEF IsList
<1> HIDE DEF S
<1>2. t \in Seq(S) /\ Len(t) = Len(s) + 1 /\ (\A i \in 1..Len(s) : t[i] = s[i]) /\ t[Len(s) + 1] = x
  BY <1>1, AppendProperties
<1>3. t \in Seq(Range(t))
  BY <1>2, SeqOfRange
<1>4. QED
  BY <1>2, <1>3 DEF IsList

LEMMA Tailed ==
  ASSUME NEW s, IsList(s), s # <<>>
  PROVE  /\ IsList(Tail(s)) /\ Len(Tail(s)) = Len(s) - 1
         /\ \A i \in 1..Len(Tail(s)) : Tail(s)[i] = s[i + 1]
         /\ Head(s) = s[1]
<1>1. /\ Tail(s) \in Seq(Range(s)) /\ Len(Tail(s)) = Len(s) - 1
      /\ \A i \in 1..Len(Tail(s)) : Tail(s)[i] = s[i + 1]
  BY HeadTailProperties DEF IsList
<1>2. IsList(Tail(s))
  BY <1>1, SeqOfRange DEF IsList
<1>3. Head(s) = s[1]
  BY DEF IsList
<1>4. QED
  BY <1>1, <1>2, <1>3

\* The code that is left after an instruction.
LEMMA CodeLeft ==
  ASSUME NEW cs, IsCode(cs), cs # <<>>
  PROVE  /\ IsCode(Tail(cs))
         /\ Head(cs).op = "wincreate" => WillFree(Tail(cs), Head(cs).win)
         /\ \A w : WillFree(cs, w) =>
              WillFree(Tail(cs), w) \/ (Head(cs).op = "winfree" /\ Head(cs).win = w /\ Head(cs).req = "")
<1> DEFINE t == Tail(cs)
<1>1. IsList(cs)
  BY DEF IsCode, IsList
<1>2. /\ IsList(t) /\ Len(t) = Len(cs) - 1
      /\ \A i \in 1..Len(t) : t[i] = cs[i + 1]
      /\ Head(cs) = cs[1]
  BY <1>1, Tailed
<1>3. Len(cs) \in Nat /\ Len(cs) > 0 /\ DOMAIN cs = 1..Len(cs) /\ DOMAIN t = 1..Len(t)
  BY <1>1, <1>2, ListProperties
<1> HIDE DEF t
<1>4. \A i \in DOMAIN t : i + 1 \in DOMAIN cs /\ t[i] = cs[i + 1]
  BY <1>2, <1>3
<1>5. \A j \in DOMAIN cs : j > 1 => j - 1 \in DOMAIN t /\ t[j - 1] = cs[j]
  BY <1>2, <1>3
<1>6. FreesWindows(t)
  <2> SUFFICES ASSUME NEW i \in DOMAIN t, t[i].op = "wincreate"
               PROVE  \E j \in DOMAIN t : j > i /\ t[j].op = "winfree" /\ t[j].win = t[i].win /\ t[j].req = ""
    BY DEF FreesWindows
  <2>1. PICK j \in DOMAIN cs : j > i + 1 /\ cs[j].op = "winfree" /\ cs[j].win = cs[i + 1].win /\ cs[j].req = ""
    BY <1>4 DEF IsCode, FreesWindows
  <2>2. i \in Nat /\ i > 0 /\ j \in Nat
    BY <1>2, <1>3
  <2>3. j - 1 \in DOMAIN t /\ t[j - 1] = cs[j] /\ j - 1 > i
    <3>1. j > i + 1
      BY <2>1
    <3>2. j > 1 /\ j - 1 > i
      BY ONLY <2>2, <3>1
    <3>3. QED
      BY <1>5, <3>2
  <2>4. QED
    BY <1>4, <2>1, <2>3
<1>7. Head(cs).op = "wincreate" => WillFree(t, Head(cs).win)
  <2> SUFFICES ASSUME cs[1].op = "wincreate" PROVE WillFree(t, cs[1].win)
    BY <1>2
  <2>0. 1 \in DOMAIN cs
    BY <1>3
  <2>1. PICK j \in DOMAIN cs : j > 1 /\ cs[j].op = "winfree" /\ cs[j].win = cs[1].win /\ cs[j].req = ""
    BY <2>0 DEF IsCode, FreesWindows
  <2>2. QED
    BY <1>5, <2>1 DEF WillFree
<1>8. ASSUME NEW w, WillFree(cs, w)
      PROVE  WillFree(t, w) \/ (Head(cs).op = "winfree" /\ Head(cs).win = w /\ Head(cs).req = "")
  <2>1. PICK k \in DOMAIN cs : cs[k].op = "winfree" /\ cs[k].win = w /\ cs[k].req = ""
    BY <1>8 DEF WillFree
  <2>2. CASE k = 1
    BY <1>2, <2>1, <2>2
  <2>3. CASE k > 1
    BY <1>5, <2>1, <2>3 DEF WillFree
  <2>4. k = 1 \/ k > 1
    BY <1>3
  <2>5. QED
    BY <2>2, <2>3, <2>4
<1>9. IsCode(t)
  BY <1>2, <1>6 DEF IsCode, IsList
<1>10. QED
  BY <1>7, <1>8, <1>9 DEF t

-----------------------------------------------------------------------------
(***************************************************************************)
(* Steps that leave the messages alone.                                    *)
(***************************************************************************)
\* y is what has become of operation x.
Evolves(x, y) ==
  /\ Operation(y)
  /\ y.call = x.call /\ y.sync = x.sync
  /\ y.done \in BOOLEAN
  /\ x.call.op \in Messages => y.done \/ (y.done = x.done /\ y.cancelled = x.cancelled)

\* ... which is no transfer of a message.
Still(x, y) ==
  x.call.op \in Messages =>
    (y.done = x.done /\ y.cancelled = x.cancelled) \/ (~x.done /\ y.cancelled)

\* A call that has just been posted.
Fresh(y, c) ==
  /\ Operation(y)
  /\ y.call = c /\ ~y.waited /\ ~y.cancelled
  /\ y.done = (c.peer = job.lib.proc_null)
  /\ c.op \notin Accesses => y.sync = <<>>

SameOps(r) ==
  /\ IsList(ops'[r]) /\ Len(ops'[r]) = Len(ops[r])
  /\ \A i \in DOMAIN ops[r] : Evolves(ops[r][i], ops'[r][i])

StillOps(r) == \A i \in DOMAIN ops[r] : Still(ops[r][i], ops'[r][i])

\* No operation has been completed.
PendingKept(r) == \A i \in DOMAIN ops[r] : ops'[r][i].waited = ops[r][i].waited

QuietOps(r) == SameOps(r) /\ StillOps(r) /\ PendingKept(r)

MoreOps(r, c) ==
  /\ IsList(ops'[r]) /\ Len(ops'[r]) = Len(ops[r]) + 1
  /\ \A i \in DOMAIN ops[r] : ops'[r][i] = ops[r][i]
  /\ Fresh(ops'[r][Len(ops[r]) + 1], c)

LEMMA Evolution ==
  ASSUME NEW x, Operation(x), NEW v, x.done \in BOOLEAN
  PROVE  /\ Operation([x EXCEPT !.use = v]) /\ Evolves(x, [x EXCEPT !.use = v])
         /\ Operation([x EXCEPT !.eager = v]) /\ Evolves(x, [x EXCEPT !.eager = v])
         /\ Still(x, [x EXCEPT !.use = v]) /\ Still(x, [x EXCEPT !.eager = v])
         /\ Evolves(x, [x EXCEPT !.done = TRUE])
         /\ x.call.op \notin Messages => Still(x, [x EXCEPT !.done = TRUE])
         /\ Evolves(x, x) /\ Still(x, x)
BY DEF Evolves, Still, Operation

LEMMA Kinds1 ==
  /\ Messages \cap Accesses = {} /\ Messages \cap Collectives = {} /\ Accesses \cap Collectives = {}
  /\ Sends \cap Receives = {} /\ Messages = Sends \cup Receives
BY DEF Messages, Sends, Receives, Accesses, Accumulating, Collectives, OnComm, OnWin, Exchanges,
       Reductions, MakesComm

LEMMA OpsStayGood ==
  ASSUME NEW r \in Ranks, GoodOps(r), job' = job, NEW c,
         SameOps(r) \/ MoreOps(r, c)
  PROVE  GoodOps(r)'
<1> DEFINE nobody == job.lib.proc_null
<1>1. /\ IsList(ops[r]) /\ \A i \in DOMAIN ops[r] : GoodOperation(ops[r][i], nobody)
      /\ IsList(ops'[r])
  BY DEF GoodOps, SameOps, MoreOps
<1>2. /\ Len(ops[r]) \in Nat /\ DOMAIN ops[r] = 1..Len(ops[r])
      /\ Len(ops'[r]) \in Nat /\ DOMAIN ops'[r] = 1..Len(ops'[r])
  BY <1>1, ListProperties
<1>3. ASSUME NEW i \in DOMAIN ops[r], Evolves(ops[r][i], ops'[r][i])
      PROVE  GoodOperation(ops'[r][i], nobody)
  BY <1>1, <1>3 DEF Evolves, GoodOperation
<1>4. ASSUME NEW i, Fresh(ops'[r][i], c)
      PROVE  GoodOperation(ops'[r][i], nobody)
  BY <1>4, Kinds1 DEF Fresh, GoodOperation
<1>5. CASE SameOps(r)
  BY <1>1, <1>2, <1>3, <1>5 DEF SameOps, GoodOps
<1>6. CASE MoreOps(r, c)
  <2>1. ASSUME NEW i \in DOMAIN ops[r]
        PROVE  GoodOperation(ops'[r][i], nobody)
    BY <1>1, <1>6, <2>1 DEF MoreOps, GoodOperation
  <2>2. GoodOperation(ops'[r][Len(ops[r]) + 1], nobody)
    BY <1>4, <1>6 DEF MoreOps
  <2>3. \A i \in DOMAIN ops'[r] : i \in DOMAIN ops[r] \/ i = Len(ops[r]) + 1
    BY <1>2, <1>6 DEF MoreOps
  <2>4. \A i \in DOMAIN ops'[r] : GoodOperation(ops'[r][i], nobody)
    BY <2>1, <2>2, <2>3
  <2>5. QED
    BY <1>1, <2>4 DEF GoodOps
<1>7. QED
  BY <1>5, <1>6

\* The transferred messages of one rank.
DoneAt(kinds, r) == {i \in DOMAIN ops[r] : ops[r][i].call.op \in kinds /\ Transferred(ops[r][i])}

LEMMA DoneAtStays ==
  ASSUME NEW r \in Ranks, GoodOps(r), job' = job, NEW c, NEW kinds, kinds \subseteq Messages,
         (SameOps(r) /\ StillOps(r)) \/ MoreOps(r, c)
  PROVE  DoneAt(kinds, r)' = DoneAt(kinds, r)
<1>1. /\ Len(ops[r]) \in Nat /\ DOMAIN ops[r] = 1..Len(ops[r])
      /\ Len(ops'[r]) \in Nat /\ DOMAIN ops'[r] = 1..Len(ops'[r])
  BY ListProperties DEF GoodOps, SameOps, MoreOps
<1>2. CASE SameOps(r) /\ StillOps(r)
  <2>1. DOMAIN ops'[r] = DOMAIN ops[r]
    BY <1>1, <1>2 DEF SameOps
  <2>2. ASSUME NEW i \in DOMAIN ops[r]
        PROVE  /\ ops'[r][i].call = ops[r][i].call
               /\ ops[r][i].call.op \in kinds =>
                    (Transferred(ops[r][i])' <=> Transferred(ops[r][i]))
    <3>1. Evolves(ops[r][i], ops'[r][i]) /\ Still(ops[r][i], ops'[r][i])
      BY <1>2 DEF SameOps, StillOps
    <3>2. ops'[r][i].call = ops[r][i].call
      BY <3>1 DEF Evolves
    <3>3. QED
      BY <3>1, <3>2 DEF Still, Transferred
  <2>3. QED
    BY <2>1, <2>2 DEF DoneAt
<1>3. CASE MoreOps(r, c)
  <2>1. \A i : i \in DOMAIN ops'[r] <=> i \in DOMAIN ops[r] \/ i = Len(ops[r]) + 1
    BY <1>1, <1>3 DEF MoreOps
  <2>2. LET y == ops'[r][Len(ops[r]) + 1]
        IN ~(y.done /\ ~y.cancelled /\ y.call.peer # job'.lib.proc_null)
    BY <1>3 DEF MoreOps, Fresh
  <2>3. \A i \in DOMAIN ops[r] : ops'[r][i] = ops[r][i]
    BY <1>3 DEF MoreOps
  <2>4. QED
    BY <2>1, <2>2, <2>3 DEF DoneAt, Transferred
<1>4. QED
  BY <1>2, <1>3

LEMMA ConservedIfSame ==
  ASSUME Conserved,
         \A r \in Ranks : DoneAt(Sends, r)' = DoneAt(Sends, r) /\ DoneAt(Receives, r)' = DoneAt(Receives, r)
  PROVE  Conserved'
<1>1. Done(Sends)' = Done(Sends)
  BY DEF Done, DoneAt
<1>2. Done(Receives)' = Done(Receives)
  BY DEF Done, DoneAt
<1>3. QED
  BY <1>1, <1>2 DEF Conserved

LEMMA PendingStay ==
  ASSUME NEW r \in Ranks, GoodOps(r), NEW c, (SameOps(r) /\ PendingKept(r)) \/ MoreOps(r, c)
  PROVE  PendingOps(r) \subseteq PendingOps(r)' /\ Len(ops'[r]) \in Nat /\ Len(ops[r]) <= Len(ops'[r])
<1>1. /\ Len(ops[r]) \in Nat /\ DOMAIN ops[r] = 1..Len(ops[r])
      /\ Len(ops'[r]) \in Nat /\ DOMAIN ops'[r] = 1..Len(ops'[r])
  BY ListProperties DEF GoodOps, SameOps, MoreOps
<1>2. Len(ops[r]) <= Len(ops'[r]) /\ DOMAIN ops[r] \subseteq DOMAIN ops'[r]
  BY <1>1 DEF SameOps, MoreOps
<1>3. \A i \in DOMAIN ops[r] : ops'[r][i].call = ops[r][i].call /\ ops'[r][i].waited = ops[r][i].waited
  BY DEF SameOps, MoreOps, Evolves, PendingKept
<1>4. QED
  BY <1>1, <1>2, <1>3 DEF PendingOps

LEMMA HandlesStay ==
  ASSUME NEW r \in Ranks, GoodOps(r), GoodHandles(r), NEW c,
         (SameOps(r) /\ PendingKept(r)) \/ MoreOps(r, c),
         reqs'[r] = reqs[r]
  PROVE  GoodHandles(r)'
<1>1. PendingOps(r) \subseteq PendingOps(r)' /\ Len(ops'[r]) \in Nat /\ Len(ops[r]) <= Len(ops'[r])
  BY PendingStay
<1>2. Len(ops[r]) \in Nat
  BY ListProperties DEF GoodOps
<1>3. QED
  BY <1>1, <1>2 DEF GoodHandles

\* What another rank does to a rank: at most, it completes operations.
LEMMA Untouched ==
  ASSUME NEW r \in Ranks, RankInv(r), job' = job, SameOps(r), PendingKept(r),
         code'[r] = code[r], inside'[r] = inside[r], env'[r] = env[r], reqs'[r] = reqs[r],
         DOMAIN wins'[r] = DOMAIN wins[r]
  PROVE  RankInv(r)'
<1>1. GoodOps(r)'
  BY OpsStayGood DEF RankInv
<1>2. GoodHandles(r)'
  BY HandlesStay DEF RankInv
<1>3. InItsCall(r)'
  <2>1. /\ Len(ops[r]) \in Nat /\ DOMAIN ops[r] = 1..Len(ops[r])
        /\ (ops[r] # <<>> => Len(ops[r]) > 0)
    BY ListProperties DEF RankInv, GoodOps
  <2>2. ops[r] # <<>> => /\ ops'[r] # <<>>
                         /\ ops'[r][Len(ops'[r])].call = ops[r][Len(ops[r])].call
    <3>1. SUFFICES ASSUME ops[r] # <<>>
                   PROVE  ops'[r] # <<>> /\ ops'[r][Len(ops'[r])].call = ops[r][Len(ops[r])].call
      OBVIOUS
    <3>2. Len(ops[r]) \in DOMAIN ops[r] /\ Len(ops'[r]) = Len(ops[r]) /\ Len(ops[r]) > 0
      BY <2>1, <3>1 DEF SameOps
    <3>3. Len(<<>>) = 0
      BY EmptySeq
    <3>4. QED
      BY <3>2, <3>3 DEF SameOps, Evolves
  <2>3. QED
    BY <2>2 DEF RankInv, InItsCall
<1>4. NoHandleLeft(r)'
  BY DEF RankInv, NoHandleLeft
<1>5. QED
  BY <1>1, <1>2, <1>3, <1>4 DEF RankInv
-----------------------------------------------------------------------------
(***************************************************************************)
(* The steps of a rank.                                                    *)
(***************************************************************************)
LEMMA OpsUnchanged ==
  ASSUME NEW r \in Ranks, GoodOps(r), ops'[r] = ops[r]
  PROVE  QuietOps(r)
BY ListProperties DEF QuietOps, PendingKept, SameOps, StillOps, GoodOps, Evolves, Still, GoodOperation

LEMMA FaultsAreKinds ==
  ASSUME NEW r, NEW c PROVE Faults(r, c) \subseteq Kinds
<1> DEFINE A == GoodArguments(r, c)
           B == InOrder(r, c) /\ ReceiveIsPosted(r, c)
           C == Undisturbed(r, c)
           D == RaceFree(r, c)
           E == KeepsHandles(r, c)
           F == NothingLeft(r, c)
           G == c.op # "assert"
<1>1. Faults(r, c) = (IF A THEN {} ELSE {"argument"}) \cup (IF B THEN {} ELSE {"order"}) \cup
        (IF C THEN {} ELSE {"busy"}) \cup (IF D THEN {} ELSE {"race"}) \cup (IF E THEN {} ELSE {"lost"}) \cup
        (IF F THEN {} ELSE {"unfinished"}) \cup (IF G THEN {} ELSE {"aborted"})
  BY DEF Faults
<1> HIDE DEF A, B, C, D, E, F, G
<1>2. QED
  BY <1>1 DEF Kinds

LEMMA NoFault ==
  ASSUME NEW r, NEW c, Faults(r, c) = {}
  PROVE  GoodArguments(r, c) /\ InOrder(r, c) /\ NothingLeft(r, c)
<1> DEFINE A == GoodArguments(r, c)
           B == InOrder(r, c) /\ ReceiveIsPosted(r, c)
           C == Undisturbed(r, c)
           D == RaceFree(r, c)
           E == KeepsHandles(r, c)
           F == NothingLeft(r, c)
           G == c.op # "assert"
<1>1. Faults(r, c) = (IF A THEN {} ELSE {"argument"}) \cup (IF B THEN {} ELSE {"order"}) \cup
        (IF C THEN {} ELSE {"busy"}) \cup (IF D THEN {} ELSE {"race"}) \cup (IF E THEN {} ELSE {"lost"}) \cup
        (IF F THEN {} ELSE {"unfinished"}) \cup (IF G THEN {} ELSE {"aborted"})
  BY DEF Faults
<1> HIDE DEF A, B, C, D, E, F, G
<1>2. A /\ B /\ F
  BY <1>1
<1>3. QED
  BY <1>2 DEF A, B, F

\* Calls of MPI other than MPI_Init are made between it and MPI_Finalize.
LEMMA CallsWhileUp ==
  ASSUME NEW r, NEW c, Faults(r, c) = {}, c.op \notin Local \cup {"init"}
  PROVE  env[r] = "up"
BY NoFault DEF InOrder

\* The rank executes an instruction and is in no blocking call afterwards.
LEMMA Advances ==
  ASSUME NEW r \in Ranks, RankInv(r), DOMAIN code = Ranks, job' = job,
         code[r] # <<>>, Advance(r), ~inside'[r],
         GoodOps(r)', GoodHandles(r)', NoHandleLeft(r)',
         \A w \in DOMAIN wins'[r] :
           \/ w \in DOMAIN wins[r] /\ ~(Next1(r).op = "winfree" /\ Next1(r).win = w /\ Next1(r).req = "")
           \/ Next1(r).op = "wincreate" /\ Next1(r).win = w
  PROVE  RankInv(r)' /\ \A s \in Ranks \ {r} : code'[s] = code[s]
<1>1. code'[r] = Tail(code[r]) /\ \A s \in Ranks \ {r} : code'[s] = code[s]
  BY DEF Advance
<1>2. IsCode(code[r]) /\ \A w \in DOMAIN wins[r] : WillFree(code[r], w)
  BY DEF RankInv
<1>3. /\ IsCode(code'[r])
      /\ Next1(r).op = "wincreate" => WillFree(code'[r], Next1(r).win)
      /\ \A w : WillFree(code[r], w) =>
           WillFree(code'[r], w) \/ (Next1(r).op = "winfree" /\ Next1(r).win = w /\ Next1(r).req = "")
  <2> DEFINE cs == code[r]
  <2>1. IsCode(cs) /\ cs # <<>>
    BY <1>2
  <2> HIDE DEF cs
  <2>2. /\ IsCode(Tail(cs))
        /\ Head(cs).op = "wincreate" => WillFree(Tail(cs), Head(cs).win)
        /\ \A w : WillFree(cs, w) =>
             WillFree(Tail(cs), w) \/ (Head(cs).op = "winfree" /\ Head(cs).win = w /\ Head(cs).req = "")
    BY <2>1, CodeLeft
  <2>3. Next1(r) = Head(cs) /\ code'[r] = Tail(cs) /\ code[r] = cs
    BY <1>1 DEF cs, Next1
  <2>4. QED
    BY <2>2, <2>3
<1>4. \A w \in DOMAIN wins'[r] : WillFree(code'[r], w)
  BY <1>2, <1>3
<1>5. InItsCall(r)'
  BY DEF InItsCall
<1>6. QED
  BY <1>1, <1>3, <1>4, <1>5 DEF RankInv

\* The handle of a call that has just been posted.
LEMMA NewHandle ==
  ASSUME NEW r \in Ranks, GoodOps(r), GoodHandles(r), NEW c, MoreOps(r, c), Nonblocking(c),
         NEW q, reqs'[r] = Assigned(reqs[r], q, Len(ops[r]) + 1)
  PROVE  GoodHandles(r)'
<1> DEFINE n == Len(ops[r]) + 1
<1>1. PendingOps(r) \subseteq PendingOps(r)' /\ Len(ops'[r]) \in Nat
  BY PendingStay
<1>2. Len(ops[r]) \in Nat /\ Len(ops'[r]) = n /\ DOMAIN ops'[r] = 1..n
  BY ListProperties DEF GoodOps, MoreOps
<1>3. n \in PendingOps(r)'
  BY <1>2 DEF MoreOps, Fresh, PendingOps
<1>4. /\ DOMAIN reqs'[r] = DOMAIN reqs[r] \cup {q}
      /\ reqs'[r][q] = n
      /\ \A p \in DOMAIN reqs[r] : p # q => reqs'[r][p] = reqs[r][p]
  BY DEF Assigned
<1>5. \A p \in DOMAIN reqs[r] : reqs[r][p] \in 0..Len(ops[r])
  BY DEF GoodHandles
<1> HIDE DEF n
<1>6. SUFFICES ASSUME NEW p \in DOMAIN reqs'[r]
               PROVE  /\ reqs'[r][p] \in 0..Len(ops'[r])
                      /\ reqs'[r][p] # 0 =>
                           /\ reqs'[r][p] \in PendingOps(r)'
                           /\ \A p2 \in DOMAIN reqs'[r] : reqs'[r][p2] = reqs'[r][p] => p = p2
  BY DEF GoodHandles
<1>7. n \in Nat /\ n > 0 /\ \A k \in 0..Len(ops[r]) : k # n /\ k \in 0..n
  BY <1>2 DEF n
<1>8. CASE p = q
  BY <1>2, <1>3, <1>4, <1>5, <1>7, <1>8
<1>9. CASE p # q
  <2>1. p \in DOMAIN reqs[r] /\ reqs'[r][p] = reqs[r][p]
    BY <1>4, <1>9
  <2>2. reqs[r][p] \in 0..Len(ops'[r]) /\ reqs[r][p] # n
    BY <1>2, <1>5, <1>7, <2>1
  <2>3. reqs[r][p] # 0 => reqs[r][p] \in PendingOps(r)'
    BY <1>1, <2>1 DEF GoodHandles
  <2>4. ASSUME reqs[r][p] # 0, NEW p2 \in DOMAIN reqs'[r], reqs'[r][p2] = reqs'[r][p]
        PROVE  p = p2
    <3>1. p2 # q /\ p2 \in DOMAIN reqs[r] /\ reqs[r][p2] = reqs[r][p]
      BY <1>4, <2>1, <2>2, <2>4
    <3>2. QED
      BY <2>1, <2>4, <3>1 DEF GoodHandles
  <2>5. QED
    BY <2>1, <2>2, <2>3, <2>4
<1>10. QED
  BY <1>8, <1>9

\* A step of rank r that completes at most operations of the others.
LEMMA RankStep ==
  ASSUME NEW r \in Ranks, IInv, job' = job, Typed', ~over' \/ seen' # {}, RankInv(r)',
         DoneAt(Sends, r)' = DoneAt(Sends, r), DoneAt(Receives, r)' = DoneAt(Receives, r),
         \A s \in Ranks \ {r} :
           /\ QuietOps(s) /\ code'[s] = code[s] /\ inside'[s] = inside[s] /\ env'[s] = env[s]
           /\ reqs'[s] = reqs[s] /\ DOMAIN wins'[s] = DOMAIN wins[s]
  PROVE  IInv'
<1>1. \A s \in Ranks : RankInv(s)'
  BY Untouched DEF IInv, QuietOps
<1>2. \A s \in Ranks \ {r} : DoneAt(Sends, s)' = DoneAt(Sends, s) /\ DoneAt(Receives, s)' = DoneAt(Receives, s)
  BY DoneAtStays, Kinds1 DEF IInv, RankInv, QuietOps
<1>3. Conserved'
  BY <1>2, ConservedIfSame DEF IInv
<1>4. AllExecuted'
  BY DEF AllExecuted
<1>5. QED
  BY <1>1, <1>3, <1>4 DEF IInv

\* Nothing happens to the operations.
LEMMA OpsStay ==
  ASSUME NEW r \in Ranks, IInv, job' = job, ops' = ops
  PROVE  /\ \A s \in Ranks : QuietOps(s)
         /\ GoodOps(r)'
         /\ DoneAt(Sends, r)' = DoneAt(Sends, r) /\ DoneAt(Receives, r)' = DoneAt(Receives, r)
         /\ reqs' = reqs => GoodHandles(r)'
<1>1. \A s \in Ranks : QuietOps(s)
  BY OpsUnchanged DEF IInv, RankInv
<1>2. GoodOps(r) /\ GoodHandles(r)
  BY DEF IInv, RankInv
<1>3. GoodOps(r)'
  BY <1>1, <1>2, OpsStayGood DEF QuietOps
<1>4. DoneAt(Sends, r)' = DoneAt(Sends, r) /\ DoneAt(Receives, r)' = DoneAt(Receives, r)
  BY <1>1, <1>2, DoneAtStays, Kinds1 DEF QuietOps
<1>5. reqs' = reqs => GoodHandles(r)'
  BY <1>1, <1>2, HandlesStay DEF QuietOps
<1>6. QED
  BY <1>1, <1>3, <1>4, <1>5

LEMMA MisuseKeeps ==
  ASSUME IInv, NEW r \in Ranks, Misuse(r) PROVE IInv'
<1>1. /\ job' = job /\ code' = code /\ inside' = inside /\ env' = env /\ wins' = wins /\ reqs' = reqs
      /\ ops' = ops /\ over' = TRUE /\ seen' = Faults(r, Next1(r)) /\ Faults(r, Next1(r)) # {}
  BY DEF Misuse, data
<1>2. Typed'
  BY <1>1, FaultsAreKinds DEF IInv, Typed
<1>3. \A s \in Ranks : QuietOps(s)
  BY <1>1, OpsStay
<1>4. RankInv(r)'
  BY <1>1, <1>3, Untouched DEF IInv, QuietOps
<1>5. DoneAt(Sends, r)' = DoneAt(Sends, r) /\ DoneAt(Receives, r)' = DoneAt(Receives, r)
  BY <1>1, OpsStay
<1>6. QED
  BY <1>1, <1>2, <1>3, <1>4, <1>5, RankStep

LEMMA IsReady ==
  ASSUME IInv, NEW r \in Ranks, NEW kinds, Legal(r, kinds)
  PROVE  /\ ~over /\ inside[r] = FALSE /\ code[r] # <<>> /\ Next1(r).op \in kinds /\ Faults(r, Next1(r)) = {}
         /\ RankInv(r) /\ Typed /\ DOMAIN code = Ranks
BY DEF IInv, Typed, Legal, Ready

\* An instruction that changes no operation, handle or window.
LEMMA OnlyAdvances ==
  ASSUME IInv, NEW r \in Ranks, NEW kinds, Legal(r, kinds), "winfree" \notin kinds,
         Advance(r), job' = job, inside' = inside, wins' = wins, reqs' = reqs, ops' = ops, seen' = seen,
         over' = over, NEW e \in {"before", "up", "down"}, env' = [env EXCEPT ![r] = e], NoHandleLeft(r)'
  PROVE  IInv'
<1>1. /\ ~over /\ inside[r] = FALSE /\ code[r] # <<>> /\ Next1(r).op \in kinds /\ Faults(r, Next1(r)) = {}
      /\ RankInv(r) /\ Typed /\ DOMAIN code = Ranks
  BY IsReady
<1>2. Typed'
  BY <1>1 DEF Typed, Advance
<1>3. /\ \A s \in Ranks : QuietOps(s)
      /\ GoodOps(r)' /\ GoodHandles(r)'
      /\ DoneAt(Sends, r)' = DoneAt(Sends, r) /\ DoneAt(Receives, r)' = DoneAt(Receives, r)
  BY OpsStay
<1>4. RankInv(r)' /\ \A s \in Ranks \ {r} : code'[s] = code[s]
  BY <1>1, <1>3, Advances
<1>5. \A s \in Ranks \ {r} : env'[s] = env[s]
  BY <1>1 DEF Typed
<1>6. QED
  BY <1>1, <1>2, <1>3, <1>4, <1>5, RankStep

LEMMA EnvironmentKeeps ==
  ASSUME IInv, NEW r \in Ranks, Environment(r) PROVE IInv'
<1> DEFINE e == IF Next1(r).op = "init" THEN "up" ELSE "down"
<1>1. /\ Legal(r, {"init", "finalize"}) /\ Advance(r) /\ job' = job /\ inside' = inside /\ wins' = wins
      /\ reqs' = reqs /\ ops' = ops /\ seen' = seen /\ over' = over /\ env' = [env EXCEPT ![r] = e]
  BY DEF Environment, data
<1>2. /\ Next1(r).op \in {"init", "finalize"} /\ Faults(r, Next1(r)) = {} /\ RankInv(r) /\ Typed
  BY <1>1, IsReady
<1>3. NoHandleLeft(r)'
  <2>1. SUFFICES ASSUME env'[r] = "down", NEW q \in DOMAIN reqs[r] PROVE reqs[r][q] = 0
    BY <1>1 DEF NoHandleLeft
  <2>2. Next1(r).op = "finalize"
    BY <1>1, <1>2, <2>1 DEF Typed
  <2>3. PendingOps(r) = {}
    BY <1>2, <2>2, NoFault DEF NothingLeft
  <2>4. QED
    BY <1>2, <2>3 DEF RankInv, GoodHandles
<1>4. e \in {"before", "up", "down"}
  OBVIOUS
<1> HIDE DEF e
<1>5. QED
  BY <1>1, <1>3, <1>4, OnlyAdvances

LEMMA PlainKeeps ==
  ASSUME IInv, NEW r \in Ranks, Plain(r) PROVE IInv'
<1> DEFINE kinds == Local \cup {"test", "probe", "detach"}
<1>1. /\ Legal(r, kinds) /\ Advance(r) /\ job' = job /\ inside' = inside /\ wins' = wins
      /\ reqs' = reqs /\ ops' = ops /\ seen' = seen /\ over' = over /\ env' = env
  BY DEF Plain, data
<1>2. "winfree" \notin kinds
  BY DEF Local
<1> HIDE DEF kinds
<1>3. env[r] \in {"before", "up", "down"} /\ env' = [env EXCEPT ![r] = env[r]]
  BY <1>1, IsReady DEF Typed
<1>4. NoHandleLeft(r)'
  BY <1>1, IsReady DEF RankInv, NoHandleLeft
<1>5. QED
  BY <1>1, <1>2, <1>3, <1>4, OnlyAdvances

LEMMA DatatypeKeeps ==
  ASSUME IInv, NEW r \in Ranks, Datatype(r) PROVE IInv'
<1> DEFINE kinds == MakesType \cup {"commit", "typefree"}
<1>1. /\ Legal(r, kinds) /\ Advance(r) /\ job' = job /\ inside' = inside /\ wins' = wins
      /\ reqs' = reqs /\ ops' = ops /\ seen' = seen /\ over' = over /\ env' = env
  BY DEF Datatype
<1>2. "winfree" \notin kinds
  BY DEF MakesType
<1> HIDE DEF kinds
<1>3. env[r] \in {"before", "up", "down"} /\ env' = [env EXCEPT ![r] = env[r]]
  BY <1>1, IsReady DEF Typed
<1>4. NoHandleLeft(r)'
  BY <1>1, IsReady DEF RankInv, NoHandleLeft
<1>5. QED
  BY <1>1, <1>2, <1>3, <1>4, OnlyAdvances

\* An instruction after which the rank is in no blocking call, or still in none.
LEMMA RankAdvances ==
  ASSUME IInv, NEW r \in Ranks, ~over, code[r] # <<>>, Advance(r), job' = job, Typed', ~inside'[r],
         ~over' \/ seen' # {}, NEW c, (SameOps(r) /\ StillOps(r)) \/ MoreOps(r, c),
         GoodHandles(r)', NoHandleLeft(r)',
         \A w \in DOMAIN wins'[r] :
           \/ w \in DOMAIN wins[r] /\ ~(Next1(r).op = "winfree" /\ Next1(r).win = w /\ Next1(r).req = "")
           \/ Next1(r).op = "wincreate" /\ Next1(r).win = w,
         \A s \in Ranks \ {r} :
           /\ QuietOps(s) /\ inside'[s] = inside[s] /\ env'[s] = env[s]
           /\ reqs'[s] = reqs[s] /\ DOMAIN wins'[s] = DOMAIN wins[s]
  PROVE  IInv'
<1>1. RankInv(r) /\ GoodOps(r) /\ DOMAIN code = Ranks
  BY DEF IInv, RankInv, Typed
<1>2. GoodOps(r)'
  BY <1>1, OpsStayGood
<1>3. RankInv(r)' /\ \A s \in Ranks \ {r} : code'[s] = code[s]
  BY <1>1, <1>2, Advances
<1>4. DoneAt(Sends, r)' = DoneAt(Sends, r) /\ DoneAt(Receives, r)' = DoneAt(Receives, r)
  BY <1>1, DoneAtStays, Kinds1
<1>5. QED
  BY <1>3, <1>4, RankStep

\* The others do not notice.
LEMMA OthersQuiet ==
  ASSUME IInv, NEW r \in Ranks, \A s \in Ranks \ {r} : ops'[s] = ops[s]
  PROVE  \A s \in Ranks \ {r} : QuietOps(s)
BY OpsUnchanged DEF IInv, RankInv

LEMMA CancelRequestKeeps ==
  ASSUME IInv, NEW r \in Ranks, CancelRequest(r) PROVE IInv'
<1> DEFINE i == reqs[r][Next1(r).req]
           x == ops[r][i]
           open == i \in Open(r, Sends \cup Receives)
<1>1. /\ Legal(r, {"cancel"}) /\ Advance(r) /\ job' = job /\ inside' = inside /\ wins' = wins
      /\ reqs' = reqs /\ seen' = seen /\ over' = over /\ env' = env
      /\ ops' = IF ~open THEN ops ELSE [ops EXCEPT ![r][i].done = TRUE, ![r][i].cancelled = TRUE]
  BY DEF CancelRequest, data
<1>2. /\ ~over /\ inside[r] = FALSE /\ code[r] # <<>> /\ Next1(r).op = "cancel"
      /\ RankInv(r) /\ Typed /\ GoodOps(r) /\ GoodHandles(r)
  <2>1. Legal(r, {"cancel"})
    BY <1>1
  <2>2. /\ ~over /\ inside[r] = FALSE /\ code[r] # <<>> /\ Next1(r).op \in {"cancel"}
        /\ RankInv(r) /\ Typed
    BY <2>1, IsReady
  <2>3. QED
    BY <2>2 DEF RankInv
<1>3. DOMAIN ops = Ranks
  BY <1>2 DEF Typed
<1>4. DOMAIN ops' = Ranks /\ \A s \in Ranks \ {r} : ops'[s] = ops[s]
  BY <1>1, <1>3
<1>5. QuietOps(r)
  <2>1. CASE ~open
    BY <1>1, <1>2, <2>1, OpsUnchanged
  <2>2. CASE open
    <3>1. i \in DOMAIN ops[r] /\ ~x.done /\ x.call.op \in Messages
      BY <2>2 DEF Open, Messages
    <3>2. ops'[r] = [ops[r] EXCEPT ![i] = [x EXCEPT !.done = TRUE, !.cancelled = TRUE]]
      BY <1>1, <1>3, <2>2
    <3> DEFINE y == [x EXCEPT !.done = TRUE, !.cancelled = TRUE]
    <3>3. GoodOperation(x, job.lib.proc_null)
      BY <1>2, <3>1 DEF GoodOps
    <3>4. Evolves(x, y) /\ Still(x, y) /\ y.waited = x.waited
      BY <3>1, <3>3 DEF GoodOperation, Operation, Evolves, Still
    <3> HIDE DEF y
    <3>5. /\ ops'[r] = [k \in DOMAIN ops[r] |-> ops'[r][k]]
          /\ ops'[r][i] = y /\ \A k \in DOMAIN ops[r] : k # i => ops'[r][k] = ops[r][k]
      BY <3>1, <3>2 DEF y
    <3>6. IsList(ops'[r]) /\ Len(ops'[r]) = Len(ops[r])
      BY <1>2, <3>5, SameDomain DEF GoodOps
    <3>7. \A k \in DOMAIN ops[r] : Evolves(ops[r][k], ops[r][k]) /\ Still(ops[r][k], ops[r][k])
      BY <1>2 DEF GoodOps, GoodOperation, Evolves, Still
    <3>8. QED
      BY <3>4, <3>5, <3>6, <3>7 DEF QuietOps, SameOps, StillOps, PendingKept
  <2>3. QED
    BY <2>1, <2>2
<1> HIDE DEF i, x, open
<1>6. GoodHandles(r)'
  BY <1>1, <1>2, <1>5, HandlesStay DEF QuietOps
<1>7. NoHandleLeft(r)'
  BY <1>1, <1>2 DEF RankInv, NoHandleLeft
<1>8. Typed'
  BY <1>1, <1>2, <1>4 DEF Typed, Advance
<1>9. QED
  BY <1>1, <1>2, <1>4, <1>5, <1>6, <1>7, <1>8, OthersQuiet, RankAdvances DEF QuietOps

LEMMA RequestKeeps ==
  ASSUME IInv, NEW r \in Ranks, Request(r) PROVE IInv'
<1> DEFINE q == Next1(r).req
           i == reqs[r][q]
           x == ops[r][i]
<1>1. /\ Legal(r, {"wait", "requestfree"}) /\ Advance(r) /\ job' = job /\ inside' = inside /\ wins' = wins
      /\ reqs' = [reqs EXCEPT ![r][q] = 0] /\ seen' = seen /\ over' = over /\ env' = env
      /\ ops' = IF i = 0 THEN ops
                ELSE [ops EXCEPT ![r][i].waited = TRUE, ![r][i].eager = FALSE, ![r][i].use = {},
                                 ![r][i].done = @ \/ ops[r][i].call.op = "get"]
  BY DEF Request
<1>2. /\ ~over /\ inside[r] = FALSE /\ code[r] # <<>> /\ Next1(r).op \in {"wait", "requestfree"}
      /\ Faults(r, Next1(r)) = {} /\ RankInv(r) /\ Typed /\ GoodOps(r) /\ GoodHandles(r)
  BY <1>1, IsReady DEF RankInv
<1>3. DOMAIN ops = Ranks /\ DOMAIN reqs = Ranks
  BY <1>2 DEF Typed
<1>4. DOMAIN ops' = Ranks /\ \A s \in Ranks \ {r} : ops'[s] = ops[s]
  BY <1>1, <1>3
<1>5. /\ DOMAIN reqs' = Ranks /\ \A s \in Ranks \ {r} : reqs'[s] = reqs[s]
      /\ DOMAIN reqs'[r] = DOMAIN reqs[r] /\ \A p \in DOMAIN reqs[r] : reqs'[r][p] = IF p = q THEN 0 ELSE reqs[r][p]
  BY <1>1, <1>3
<1>6. q \in DOMAIN reqs[r]
  <2>1. GoodArguments(r, Next1(r))
    BY <1>2, NoFault
  <2>2. QED
    BY <1>2, <2>1 DEF GoodArguments, Sends, Receives, Exchanges, Reductions, OnComm, MakesComm, MakesType,
                      Passive, Active, Accesses, Accumulating
<1>7. /\ SameOps(r) /\ StillOps(r)
      /\ \A k \in DOMAIN ops[r] : k # i => ops'[r][k] = ops[r][k]
  <2>1. CASE i = 0
    BY <1>1, <1>2, <2>1, OpsUnchanged DEF QuietOps
  <2>2. CASE i # 0
    <3>1. i \in DOMAIN ops[r]
      BY <1>2, <1>6, <2>2 DEF GoodHandles, PendingOps
    <3>2. ops'[r] = [ops[r] EXCEPT ![i] = [x EXCEPT !.waited = TRUE, !.eager = FALSE, !.use = {},
                                                   !.done = x.done \/ x.call.op = "get"]]
      BY <1>1, <1>3, <2>2, <3>1
    <3> DEFINE y == [x EXCEPT !.waited = TRUE, !.eager = FALSE, !.use = {},
                              !.done = x.done \/ x.call.op = "get"]
    <3>3. GoodOperation(x, job.lib.proc_null)
      BY <1>2, <3>1 DEF GoodOps
    <3>4. Operation(y) /\ y.call = x.call /\ y.sync = x.sync /\ y.cancelled = x.cancelled
          /\ y.done = (x.done \/ x.call.op = "get")
      BY <3>3 DEF GoodOperation, Operation
    <3> HIDE DEF y
    <3>5. x.call.op \in Messages => y.done = x.done
      BY <3>3, <3>4 DEF GoodOperation, Messages, Sends, Receives
    <3>6. Evolves(x, y) /\ Still(x, y)
      BY <3>3, <3>4, <3>5 DEF GoodOperation, Evolves, Still
    <3>7. /\ ops'[r] = [k \in DOMAIN ops[r] |-> ops'[r][k]]
          /\ ops'[r][i] = y /\ \A k \in DOMAIN ops[r] : k # i => ops'[r][k] = ops[r][k]
      BY <3>1, <3>2 DEF y
    <3>8. IsList(ops'[r]) /\ Len(ops'[r]) = Len(ops[r])
      BY <1>2, <3>7, SameDomain DEF GoodOps
    <3>9. \A k \in DOMAIN ops[r] : Evolves(ops[r][k], ops[r][k]) /\ Still(ops[r][k], ops[r][k])
      BY <1>2 DEF GoodOps, GoodOperation, Evolves, Still
    <3>10. QED
      BY <3>6, <3>7, <3>8, <3>9 DEF SameOps, StillOps
  <2>3. QED
    BY <2>1, <2>2
<1>8. GoodHandles(r)'
  <2>1. SUFFICES ASSUME NEW p \in DOMAIN reqs[r]
                 PROVE  /\ reqs'[r][p] \in 0..Len(ops'[r])
                        /\ reqs'[r][p] # 0 =>
                             /\ reqs'[r][p] \in PendingOps(r)'
                             /\ \A p2 \in DOMAIN reqs'[r] : reqs'[r][p2] = reqs'[r][p] => p = p2
    BY <1>5 DEF GoodHandles
  <2>2. Len(ops'[r]) = Len(ops[r]) /\ Len(ops[r]) \in Nat /\ DOMAIN ops'[r] = DOMAIN ops[r]
    BY <1>2, <1>7, ListProperties DEF SameOps, GoodOps
  <2>3. CASE p = q
    BY <1>5, <2>2, <2>3
  <2>4. CASE p # q
    <3>1. reqs'[r][p] = reqs[r][p]
      BY <1>5, <2>4
    <3>2. reqs[r][p] \in 0..Len(ops'[r])
      BY <1>2, <2>2 DEF GoodHandles
    <3>3. ASSUME reqs[r][p] # 0 PROVE reqs[r][p] \in PendingOps(r)'
      <4>1. reqs[r][p] \in PendingOps(r) /\ reqs[r][p] # i
        BY <1>2, <1>6, <2>4, <3>3 DEF GoodHandles
      <4>2. ops'[r][reqs[r][p]] = ops[r][reqs[r][p]]
        BY <1>7, <4>1 DEF PendingOps
      <4>3. QED
        BY <2>2, <4>1, <4>2 DEF PendingOps
    <3>4. ASSUME reqs[r][p] # 0, NEW p2 \in DOMAIN reqs[r], reqs'[r][p2] = reqs[r][p] PROVE p = p2
      BY <1>2, <1>5, <3>4 DEF GoodHandles
    <3>5. QED
      BY <1>5, <3>1, <3>2, <3>3, <3>4
  <2>5. QED
    BY <2>3, <2>4
<1>9. NoHandleLeft(r)'
  BY <1>1, <1>2, <1>5 DEF RankInv, NoHandleLeft
<1> HIDE DEF q, i, x
<1>10. Typed'
  BY <1>1, <1>2, <1>4, <1>5 DEF Typed, Advance
<1>11. QED
  BY <1>1, <1>2, <1>4, <1>5, <1>7, <1>8, <1>9, <1>10, OthersQuiet, RankAdvances
-----------------------------------------------------------------------------
(***************************************************************************)
(* Ends of epochs: accesses are completed, here or at their targets.       *)
(***************************************************************************)
GoodList(l, nobody) == IsList(l) /\ \A i \in DOMAIN l : GoodOperation(l[i], nobody)

Quiet(a, b) ==
  /\ IsList(b) /\ Len(b) = Len(a)
  /\ \A i \in DOMAIN a : Evolves(a[i], b[i]) /\ Still(a[i], b[i]) /\ b[i].waited = a[i].waited

LEMMA QuietIsQuiet ==
  ASSUME NEW r \in Ranks PROVE QuietOps(r) <=> Quiet(ops[r], ops'[r])
BY DEF QuietOps, SameOps, StillOps, PendingKept, Quiet

LEMMA QuietKeepsGood ==
  ASSUME NEW a, NEW b, NEW nobody, GoodList(a, nobody), Quiet(a, b)
  PROVE  GoodList(b, nobody) /\ DOMAIN b = DOMAIN a
<1>1. DOMAIN a = 1..Len(a) /\ DOMAIN b = 1..Len(b)
  BY ListProperties DEF GoodList, Quiet
<1>2. DOMAIN b = DOMAIN a
  BY <1>1 DEF Quiet
<1>3. \A i \in DOMAIN a : GoodOperation(b[i], nobody)
  BY DEF GoodList, Quiet, GoodOperation, Evolves
<1>4. QED
  BY <1>2, <1>3 DEF GoodList, Quiet

LEMMA QuietQuiet ==
  ASSUME NEW a, NEW b, NEW c, NEW nobody, GoodList(a, nobody), Quiet(a, b), Quiet(b, c)
  PROVE  Quiet(a, c)
<1>1. DOMAIN b = DOMAIN a
  BY QuietKeepsGood
<1>2. ASSUME NEW i \in DOMAIN a
      PROVE  Evolves(a[i], c[i]) /\ Still(a[i], c[i]) /\ c[i].waited = a[i].waited
  <2>1. Evolves(a[i], b[i]) /\ Evolves(b[i], c[i]) /\ Still(a[i], b[i]) /\ Still(b[i], c[i])
    BY <1>1 DEF Quiet
  <2>2. a[i].done \in BOOLEAN
    BY DEF GoodList, GoodOperation
  <2>3. QED
    BY <1>1, <2>1, <2>2 DEF Quiet, Evolves, Still
<1>3. QED
  BY <1>2 DEF Quiet

\* A list of which some elements change quietly.
LEMMA QuietUpdate ==
  ASSUME NEW a, NEW b, NEW nobody, GoodList(a, nobody), b = [i \in DOMAIN a |-> b[i]],
         \A i \in DOMAIN a :
           \/ b[i] = a[i]
           \/ Evolves(a[i], b[i]) /\ Still(a[i], b[i]) /\ b[i].waited = a[i].waited
  PROVE  Quiet(a, b)
<1>1. IsList(b) /\ Len(b) = Len(a)
  BY SameDomain DEF GoodList
<1>2. \A i \in DOMAIN a : Evolves(a[i], a[i]) /\ Still(a[i], a[i])
  BY DEF GoodList, GoodOperation, Evolves, Still
<1>3. QED
  BY <1>1, <1>2 DEF Quiet

LEMMA AccessOver ==
  ASSUME NEW x, NEW nobody, GoodOperation(x, nobody), x.call.op \notin Messages \/ x.sync # <<>>
  PROVE  LET y == [x EXCEPT !.done = TRUE]
         IN Evolves(x, y) /\ Still(x, y) /\ y.waited = x.waited
BY DEF GoodOperation, Operation, Evolves, Still

LEMMA OriginFree ==
  ASSUME NEW x, NEW nobody, GoodOperation(x, nobody)
  PROVE  LET y == [x EXCEPT !.use = {}]
         IN Evolves(x, y) /\ Still(x, y) /\ y.waited = x.waited
BY DEF GoodOperation, Operation, Evolves, Still

LEMMA NotEager ==
  ASSUME NEW x, NEW nobody, GoodOperation(x, nobody)
  PROVE  LET y == [x EXCEPT !.eager = FALSE]
         IN Evolves(x, y) /\ Still(x, y) /\ y.waited = x.waited
BY DEF GoodOperation, Operation, Evolves, Still

LEMMA OverHereQuiet ==
  ASSUME NEW os, DOMAIN os = Ranks, NEW nobody, \A s \in Ranks : GoodList(os[s], nobody),
         NEW r \in Ranks, NEW w, NEW targets
  PROVE  LET new == OverHere(os, r, w, targets)
         IN DOMAIN new = Ranks /\ \A s \in Ranks : Quiet(os[s], new[s])
<1> DEFINE new == OverHere(os, r, w, targets)
           b == [i \in DOMAIN os[r] |->
                   IF os[r][i].call.op \in Accesses /\ os[r][i].call.win = w /\ os[r][i].target \in targets
                   THEN [os[r][i] EXCEPT !.use = {}] ELSE os[r][i]]
<1>1. new = [os EXCEPT ![r] = b]
  BY DEF OverHere
<1>2. DOMAIN new = Ranks /\ new[r] = b /\ \A s \in Ranks \ {r} : new[s] = os[s]
  BY <1>1
<1>3. Quiet(os[r], b)
  <2>1. b = [i \in DOMAIN os[r] |-> b[i]]
    OBVIOUS
  <2>2. \A i \in DOMAIN os[r] : b[i] = os[r][i] \/ b[i] = [os[r][i] EXCEPT !.use = {}]
    OBVIOUS
  <2>3. \A i \in DOMAIN os[r] : GoodOperation(os[r][i], nobody)
    BY DEF GoodList
  <2> HIDE DEF b
  <2>4. \A i \in DOMAIN os[r] :
           \/ b[i] = os[r][i]
           \/ Evolves(os[r][i], b[i]) /\ Still(os[r][i], b[i]) /\ b[i].waited = os[r][i].waited
    BY <2>2, <2>3, OriginFree
  <2>5. QED
    BY <2>1, <2>4, QuietUpdate
<1>4. ASSUME NEW s \in Ranks \ {r} PROVE Quiet(os[s], os[s])
  <2>1. os[s] = [i \in DOMAIN os[s] |-> os[s][i]]
    BY LenProperties DEF GoodList, IsList
  <2>2. QED
    BY <2>1, QuietUpdate
<1> HIDE DEF b, new
<1>5. QED
  BY <1>2, <1>3, <1>4 DEF new

LEMMA OverThereQuiet ==
  ASSUME NEW os, DOMAIN os = Ranks, NEW nobody, \A s \in Ranks : GoodList(os[s], nobody),
         NEW r \in Ranks, NEW w, NEW targets
  PROVE  LET new == OverThere(os, r, w, targets)
         IN DOMAIN new = Ranks /\ \A s \in Ranks : Quiet(os[s], new[s])
<1> DEFINE new == OverThere(os, r, w, targets)
           b == [i \in DOMAIN os[r] |->
                   IF os[r][i].call.win = w /\ os[r][i].target \in targets /\ os[r][i].sync = <<"lock">>
                   THEN [os[r][i] EXCEPT !.done = TRUE] ELSE os[r][i]]
<1>1. new = [os EXCEPT ![r] = b]
  BY DEF OverThere
<1>2. DOMAIN new = Ranks /\ new[r] = b /\ \A s \in Ranks \ {r} : new[s] = os[s]
  BY <1>1
<1>3. Quiet(os[r], b)
  <2>1. b = [i \in DOMAIN os[r] |-> b[i]]
    OBVIOUS
  <2>0. <<"lock">> # <<>>
    OBVIOUS
  <2>2. \A i \in DOMAIN os[r] : b[i] = os[r][i] \/ (os[r][i].sync # <<>> /\ b[i] = [os[r][i] EXCEPT !.done = TRUE])
    BY <2>0
  <2>3. \A i \in DOMAIN os[r] : GoodOperation(os[r][i], nobody)
    BY DEF GoodList
  <2> HIDE DEF b
  <2>4. \A i \in DOMAIN os[r] :
           \/ b[i] = os[r][i]
           \/ Evolves(os[r][i], b[i]) /\ Still(os[r][i], b[i]) /\ b[i].waited = os[r][i].waited
    BY <2>2, <2>3, AccessOver
  <2>5. QED
    BY <2>1, <2>4, QuietUpdate
<1>4. ASSUME NEW s \in Ranks \ {r} PROVE Quiet(os[s], os[s])
  <2>1. os[s] = [i \in DOMAIN os[s] |-> os[s][i]]
    BY LenProperties DEF GoodList, IsList
  <2>2. QED
    BY <2>1, QuietUpdate
<1> HIDE DEF b, new
<1>5. QED
  BY <1>2, <1>3, <1>4 DEF new

LEMMA EpochOverQuiet ==
  ASSUME NEW os, DOMAIN os = Ranks, NEW nobody, \A s \in Ranks : GoodList(os[s], nobody),
         NEW t, NEW w, NEW sync, sync # <<>>
  PROVE  LET new == EpochOver(os, t, w, sync)
         IN DOMAIN new = Ranks /\ \A s \in Ranks : Quiet(os[s], new[s])
<1> DEFINE new == EpochOver(os, t, w, sync)
           b(s) == [i \in DOMAIN os[s] |->
                      IF os[s][i].call.win = w /\ os[s][i].target = t /\ os[s][i].sync = sync
                      THEN [os[s][i] EXCEPT !.done = TRUE] ELSE os[s][i]]
<1>1. DOMAIN new = Ranks /\ \A s \in Ranks : new[s] = b(s)
  BY DEF EpochOver
<1>2. ASSUME NEW s \in Ranks PROVE Quiet(os[s], b(s))
  <2> DEFINE c == b(s)
  <2>1. c = [i \in DOMAIN os[s] |-> c[i]]
    OBVIOUS
  <2>2. \A i \in DOMAIN os[s] : c[i] = os[s][i] \/ (os[s][i].sync # <<>> /\ c[i] = [os[s][i] EXCEPT !.done = TRUE])
    OBVIOUS
  <2>3. \A i \in DOMAIN os[s] : GoodOperation(os[s][i], nobody)
    BY DEF GoodList
  <2> HIDE DEF c
  <2>4. \A i \in DOMAIN os[s] :
           \/ c[i] = os[s][i]
           \/ Evolves(os[s][i], c[i]) /\ Still(os[s][i], c[i]) /\ c[i].waited = os[s][i].waited
    BY <2>2, <2>3, AccessOver
  <2>5. Quiet(os[s], c)
    BY <2>1, <2>4, QuietUpdate
  <2>6. QED
    BY <2>5 DEF c
<1> HIDE DEF new, b
<1>3. QED
  BY <1>1, <1>2 DEF new
-----------------------------------------------------------------------------
(***************************************************************************)
(* Calls of MPI are entered and left.                                      *)
(***************************************************************************)
LEMMA GoodLists ==
  ASSUME IInv
  PROVE  DOMAIN ops = Ranks /\ \A s \in Ranks : GoodList(ops[s], job.lib.proc_null)
BY DEF IInv, Typed, RankInv, GoodOps, GoodList

LEMMA LeftQuiet ==
  ASSUME IInv, NEW r \in Ranks, inside[r], NEW c, ops' = Left(r, c)
  PROVE  DOMAIN ops' = Ranks /\ \A s \in Ranks : QuietOps(s)
<1> DEFINE nobody == job.lib.proc_null
           n == Len(ops[r])
           os == [ops EXCEPT ![r][n].eager = FALSE]
           here == OverHere(os, r, c.win, Ranks)
           sync == <<"fence", wins[r][c.win].fences>>
           there == EpochOver(here, r, c.win, sync)
<1>1. DOMAIN ops = Ranks /\ \A s \in Ranks : GoodList(ops[s], nobody)
  BY GoodLists
<1>2. n \in DOMAIN ops[r]
  <2>1. ops[r] # <<>> /\ IsList(ops[r])
    BY DEF IInv, RankInv, InItsCall, GoodOps
  <2>2. QED
    BY <2>1, ListProperties
<1>3. DOMAIN os = Ranks /\ \A s \in Ranks : Quiet(ops[s], os[s])
  <2>1. /\ DOMAIN os = Ranks
        /\ os[r] = [ops[r] EXCEPT ![n] = [ops[r][n] EXCEPT !.eager = FALSE]]
        /\ \A s \in Ranks \ {r} : os[s] = ops[s]
    BY <1>1, <1>2
  <2>2. Quiet(ops[r], os[r])
    <3>1. GoodOperation(ops[r][n], nobody)
      BY <1>1, <1>2 DEF GoodList
    <3> DEFINE y == [ops[r][n] EXCEPT !.eager = FALSE]
    <3>2. Evolves(ops[r][n], y) /\ Still(ops[r][n], y) /\ y.waited = ops[r][n].waited
      BY <3>1, NotEager
    <3> HIDE DEF y, n, os
    <3>3. os[r] = [ops[r] EXCEPT ![n] = y]
      BY <2>1 DEF y
    <3>4. /\ os[r] = [i \in DOMAIN ops[r] |-> os[r][i]] /\ os[r][n] = y
          /\ \A i \in DOMAIN ops[r] : i # n => os[r][i] = ops[r][i]
      BY <1>2, <3>3
    <3>5. QED
      BY <1>1, <3>2, <3>4, QuietUpdate
  <2>3. ASSUME NEW s \in Ranks \ {r} PROVE Quiet(ops[s], os[s])
    <3>1. os[s] = ops[s] /\ GoodList(ops[s], nobody)
      BY <1>1, <2>1
    <3>2. ops[s] = [i \in DOMAIN ops[s] |-> ops[s][i]]
      BY <3>1, LenProperties DEF GoodList, IsList
    <3>3. Quiet(ops[s], ops[s])
      BY <3>1, <3>2, QuietUpdate
    <3>4. QED
      BY <3>1, <3>3
  <2>4. QED
    BY <2>1, <2>2, <2>3
<1> HIDE DEF nobody, os
<1>4. \A s \in Ranks : GoodList(os[s], nobody)
  BY <1>1, <1>3, QuietKeepsGood
<1>5. CASE c.op # "fence"
  <2>1. ops' = os
    BY <1>5 DEF Left, os
  <2>2. QED
    BY <1>3, <2>1, QuietIsQuiet
<1>6. CASE c.op = "fence"
  <2>1. ops' = there
    BY <1>6 DEF Left, os
  <2>2. DOMAIN here = Ranks /\ \A s \in Ranks : Quiet(os[s], here[s])
    BY <1>3, <1>4, OverHereQuiet
  <2>3. sync # <<>>
    OBVIOUS
  <2> HIDE DEF here, sync
  <2>4. \A s \in Ranks : GoodList(here[s], nobody)
    BY <1>4, <2>2, QuietKeepsGood
  <2>5. DOMAIN there = Ranks /\ \A s \in Ranks : Quiet(here[s], there[s])
    BY <2>2, <2>3, <2>4, EpochOverQuiet
  <2> HIDE DEF there
  <2>6. \A s \in Ranks : Quiet(ops[s], there[s])
    BY <1>1, <1>3, <1>4, <2>2, <2>5, QuietQuiet
  <2>7. QED
    BY <2>1, <2>5, <2>6, QuietIsQuiet
<1>7. QED
  BY <1>5, <1>6

LEMMA LeaveKeeps ==
  ASSUME IInv, NEW r \in Ranks, Leave(r) PROVE IInv'
<1> DEFINE c == Next1(r)
<1>1. /\ ~over /\ inside[r] /\ inside' = [inside EXCEPT ![r] = FALSE] /\ ops' = Left(r, c)
      /\ wins' = [wins EXCEPT ![r] = Windowed(@, c)] /\ Advance(r)
      /\ job' = job /\ env' = env /\ reqs' = reqs /\ seen' = seen /\ over' = over
  BY DEF Leave
<1>2. RankInv(r) /\ GoodOps(r) /\ GoodHandles(r) /\ Typed
  BY DEF IInv, RankInv
<1>3. code[r] # <<>>
  BY <1>1, <1>2 DEF RankInv, InItsCall
<1>4. DOMAIN ops' = Ranks /\ \A s \in Ranks : QuietOps(s)
  BY <1>1, LeftQuiet
<1>5. GoodHandles(r)'
  BY <1>1, <1>2, <1>4, HandlesStay DEF QuietOps
<1>6. NoHandleLeft(r)'
  BY <1>1, <1>2 DEF RankInv, NoHandleLeft
<1>7. DOMAIN wins' = Ranks /\ wins'[r] = Windowed(wins[r], c) /\ \A s \in Ranks \ {r} : wins'[s] = wins[s]
  BY <1>1, <1>2 DEF Typed
<1>8. DOMAIN inside' = Ranks /\ inside'[r] = FALSE /\ \A s \in Ranks \ {r} : inside'[s] = inside[s]
  BY <1>1, <1>2 DEF Typed
<1>9. Typed'
  BY <1>1, <1>2, <1>4, <1>7 DEF Typed, Advance
<1>10. \A w \in DOMAIN wins'[r] : w \in DOMAIN wins[r] /\ ~(c.op = "winfree" /\ c.win = w)
  <2>1. CASE c.op = "winfree"
    BY <1>7, <2>1 DEF Windowed
  <2>2. CASE c.op = "fence"
    BY <1>7, <2>2 DEF Windowed
  <2>3. CASE c.op \notin {"winfree", "fence"}
    BY <1>7, <2>3 DEF Windowed
  <2>4. QED
    BY <2>1, <2>2, <2>3
<1>11. QED
  BY <1>1, <1>3, <1>4, <1>5, <1>6, <1>7, <1>8, <1>9, <1>10, RankAdvances DEF QuietOps

LEMMA PostedIsFresh ==
  ASSUME NEW r, NEW c, NEW eager PROVE Fresh(Posted(r, c, eager), c)
BY DEF Fresh, Posted, Operation

LEMMA AppendedIsMore ==
  ASSUME NEW r \in Ranks, GoodOps(r), NEW c, NEW eager, ops'[r] = Append(ops[r], Posted(r, c, eager))
  PROVE  MoreOps(r, c)
<1>1. IsList(ops[r]) /\ DOMAIN ops[r] = 1..Len(ops[r])
  BY ListProperties DEF GoodOps
<1> DEFINE x == Posted(r, c, eager)
<1>2. Fresh(x, c)
  BY PostedIsFresh
<1> HIDE DEF x
<1>3. ops'[r] = Append(ops[r], x)
  BY DEF x
<1>4. QED
  BY <1>1, <1>2, <1>3, Appended DEF MoreOps

LEMMA ClashIsKind ==
  ASSUME NEW r, NEW x PROVE Clash(r, x) \subseteq Kinds
BY DEF Clash, Kinds

LEMMA PostKeeps ==
  ASSUME IInv, NEW r \in Ranks, Post(r) PROVE IInv'
<1> DEFINE c == Next1(r)
           kinds == Sends \cup Receives \cup Collectives
<1>1. /\ Legal(r, kinds)
      /\ \E eager \in MayGoOn(r, c) : ops' = [ops EXCEPT ![r] = Append(@, Posted(r, c, eager))]
      /\ wins' = IF c.op = "wincreate" THEN [wins EXCEPT ![r] = NewWindow(@, c, Group(r, c))] ELSE wins
      /\ seen' = Clash(r, Posted(r, c, FALSE)) /\ over' = (seen' # {})
      /\ job' = job /\ env' = env
  BY DEF Post
<1>2. \/ /\ Nonblocking(c) /\ reqs' = [reqs EXCEPT ![r] = Assigned(@, c.req, Len(ops[r]) + 1)]
         /\ Advance(r) /\ inside' = inside
      \/ /\ ~Nonblocking(c) /\ inside' = [inside EXCEPT ![r] = TRUE] /\ code' = code /\ reqs' = reqs
  BY DEF Post
<1>3. /\ ~over /\ inside[r] = FALSE /\ code[r] # <<>> /\ c.op \in kinds /\ Faults(r, c) = {}
      /\ RankInv(r) /\ Typed
  <2>1. Legal(r, kinds)
    BY <1>1
  <2> HIDE DEF kinds
  <2>2. QED
    BY <2>1, IsReady
<1>4. env[r] = "up"
  <2>1. c.op \notin Local \cup {"init"}
    BY <1>3 DEF Local, Sends, Receives, Collectives, OnComm, OnWin, Exchanges, Reductions, MakesComm
  <2>2. QED
    BY <1>3, <2>1, CallsWhileUp
<1> HIDE DEF c, kinds
<1>5. GoodOps(r) /\ GoodHandles(r) /\ IsCode(code[r])
  BY <1>3 DEF RankInv
<1>6. PICK eager : ops' = [ops EXCEPT ![r] = Append(@, Posted(r, c, eager))]
  BY <1>1
<1>7. DOMAIN ops' = Ranks /\ ops'[r] = Append(ops[r], Posted(r, c, eager)) /\ \A s \in Ranks \ {r} : ops'[s] = ops[s]
  BY <1>3, <1>6 DEF Typed
<1>8. MoreOps(r, c) /\ \A s \in Ranks \ {r} : QuietOps(s)
  BY <1>5, <1>7, AppendedIsMore, OthersQuiet
<1>9. /\ DOMAIN wins' = Ranks /\ \A s \in Ranks \ {r} : wins'[s] = wins[s]
      /\ \A w \in DOMAIN wins'[r] : w \in DOMAIN wins[r] \/ (c.op = "wincreate" /\ c.win = w)
  BY <1>1, <1>3 DEF Typed, NewWindow, Assigned
<1>10. seen' \subseteq Kinds /\ over' \in BOOLEAN /\ (~over' \/ seen' # {})
  BY <1>1, ClashIsKind
<1>11. CASE /\ Nonblocking(c) /\ reqs' = [reqs EXCEPT ![r] = Assigned(@, c.req, Len(ops[r]) + 1)]
            /\ Advance(r) /\ inside' = inside
  <2>1. /\ DOMAIN reqs' = Ranks /\ reqs'[r] = Assigned(reqs[r], c.req, Len(ops[r]) + 1)
        /\ \A s \in Ranks \ {r} : reqs'[s] = reqs[s]
    BY <1>3, <1>11 DEF Typed
  <2>2. GoodHandles(r)'
    BY <1>5, <1>8, <1>11, <2>1, NewHandle
  <2>3. NoHandleLeft(r)'
    BY <1>1, <1>4 DEF NoHandleLeft
  <2>4. Typed'
    BY <1>1, <1>3, <1>7, <1>9, <1>10, <1>11, <2>1 DEF Typed, Advance
  <2>5. c.op = "winfree" => c.req # ""
    BY <1>11 DEF Nonblocking
  <2>6. QED
    BY <1>1, <1>3, <1>8, <1>9, <1>10, <1>11, <2>1, <2>2, <2>3, <2>4, <2>5, RankAdvances DEF c
<1>12. CASE ~Nonblocking(c) /\ inside' = [inside EXCEPT ![r] = TRUE] /\ code' = code /\ reqs' = reqs
  <2>1. inside' \in [Ranks -> BOOLEAN] /\ \A s \in Ranks \ {r} : inside'[s] = inside[s]
    BY <1>3, <1>12 DEF Typed
  <2>2. Typed'
    BY <1>1, <1>3, <1>7, <1>9, <1>10, <1>12, <2>1 DEF Typed
  <2>3. GoodOps(r)' /\ GoodHandles(r)'
    BY <1>1, <1>5, <1>8, <1>12, OpsStayGood, HandlesStay
  <2>4. InItsCall(r)'
    <3>1. ops'[r][Len(ops'[r])].call = c /\ Len(ops'[r]) > 0
      BY <1>5, <1>8, ListProperties DEF MoreOps, Fresh, GoodOps
    <3>2. ops'[r] # <<>>
      BY <3>1, EmptySeq
    <3>3. QED
      BY <1>1, <1>3, <1>4, <1>12, <3>1, <3>2 DEF InItsCall, c, Next1
  <2>5. NoHandleLeft(r)'
    BY <1>1, <1>4 DEF NoHandleLeft
  <2>6. \A w \in DOMAIN wins'[r] : WillFree(code'[r], w)
    <3>1. \A w \in DOMAIN wins[r] : WillFree(code[r], w)
      BY <1>3 DEF RankInv
    <3>2. ASSUME c.op = "wincreate" PROVE WillFree(code[r], c.win)
      <4>1. IsList(code[r])
        BY <1>5 DEF IsCode, IsList
      <4>2. c = code[r][1] /\ 1 \in DOMAIN code[r]
        BY <1>3, <4>1, ListProperties, Tailed DEF c, Next1
      <4>3. PICK k \in DOMAIN code[r] : code[r][k].op = "winfree" /\ code[r][k].win = c.win /\ code[r][k].req = ""
        BY <1>5, <3>2, <4>2 DEF IsCode, FreesWindows
      <4>4. QED
        BY <4>3 DEF WillFree
    <3>3. QED
      BY <1>9, <1>12, <3>1, <3>2
  <2>7. RankInv(r)'
    BY <1>5, <1>12, <2>3, <2>4, <2>5, <2>6 DEF RankInv
  <2>8. DoneAt(Sends, r)' = DoneAt(Sends, r) /\ DoneAt(Receives, r)' = DoneAt(Receives, r)
    BY <1>1, <1>5, <1>8, DoneAtStays, Kinds1
  <2>9. QED
    BY <1>1, <1>8, <1>9, <1>10, <1>12, <2>1, <2>2, <2>7, <2>8, RankStep
<1>13. QED
  BY <1>2, <1>11, <1>12
-----------------------------------------------------------------------------
(***************************************************************************)
(* One-sided communication.                                                *)
(***************************************************************************)
LEMMA AccessesQuiet ==
  ASSUME IInv, NEW r \in Ranks, NEW c, c.op \in Passive \cup Active, ops' = AccessesAfter(r, c)
  PROVE  DOMAIN ops' = Ranks /\ \A s \in Ranks : QuietOps(s)
<1> DEFINE nobody == job.lib.proc_null
           here == OverHere(ops, r, c.win, Targets(r, c))
           post == <<"post">>
<1>1. DOMAIN ops = Ranks /\ \A s \in Ranks : GoodList(ops[s], nobody)
  BY GoodLists
<1>2. c.op \notin Accesses
  BY DEF Passive, Active, Accesses, Accumulating
<1>3. CASE c.op \in {"unlock", "unlockall", "flush"}
  <2>1. ops' = OverThere(here, r, c.win, Targets(r, c))
    BY <1>2, <1>3 DEF AccessesAfter
  <2>2. DOMAIN here = Ranks /\ \A s \in Ranks : Quiet(ops[s], here[s])
    BY <1>1, OverHereQuiet
  <2> HIDE DEF here, nobody
  <2>3. \A s \in Ranks : GoodList(here[s], nobody)
    BY <1>1, <2>2, QuietKeepsGood
  <2>4. DOMAIN ops' = Ranks /\ \A s \in Ranks : Quiet(here[s], ops'[s])
    BY <2>1, <2>2, <2>3, OverThereQuiet
  <2>5. \A s \in Ranks : Quiet(ops[s], ops'[s])
    BY <1>1, <2>2, <2>4, QuietQuiet
  <2>6. QED
    BY <2>4, <2>5, QuietIsQuiet
<1>4. CASE c.op = "flushlocal"
  <2>1. ops' = here
    BY <1>2, <1>4 DEF AccessesAfter
  <2>2. QED
    BY <1>1, <2>1, OverHereQuiet, QuietIsQuiet
<1>5. CASE c.op = "complete"
  <2>1. ops' = OverHere(ops, r, c.win, wins[r][c.win].started)
    BY <1>2, <1>5 DEF AccessesAfter
  <2>2. QED
    BY <1>1, <2>1, OverHereQuiet, QuietIsQuiet
<1>6. CASE c.op = "winwait"
  <2>1. ops' = EpochOver(ops, r, c.win, post) /\ post # <<>>
    BY <1>2, <1>6 DEF AccessesAfter
  <2> HIDE DEF post
  <2>2. QED
    BY <1>1, <2>1, EpochOverQuiet, QuietIsQuiet
<1>7. CASE c.op \notin {"unlock", "unlockall", "flush", "flushlocal", "complete", "winwait"}
  <2>1. ops' = ops
    BY <1>2, <1>7 DEF AccessesAfter
  <2>2. QED
    BY <1>1, <2>1, OpsUnchanged DEF IInv, RankInv
<1>8. QED
  BY <1>3, <1>4, <1>5, <1>6, <1>7

LEMMA WindowsStay ==
  ASSUME NEW r \in Ranks, NEW c, DOMAIN wins = Ranks
  PROVE  LET new == OwnEpoch(WindowsAfter(r, c), r, c)
         IN DOMAIN new = Ranks /\ \A s \in Ranks : DOMAIN new[s] = DOMAIN wins[s]
<1> DEFINE w == WindowsAfter(r, c)
           new == OwnEpoch(w, r, c)
<1>1. DOMAIN w = Ranks /\ \A s \in Ranks : DOMAIN w[s] = DOMAIN wins[s]
  <2>1. CASE c.op \in {"lock", "lockall"}
    <3> DEFINE locks == [t \in Targets(r, c) |-> c.mode] @@ wins[r][c.win].locks
    <3>1. w = [wins EXCEPT ![r][c.win].locks = locks]
      BY <2>1 DEF WindowsAfter
    <3> HIDE DEF locks, w
    <3>2. QED
      BY <3>1
  <2>2. CASE c.op \in {"unlock", "unlockall"}
    <3> DEFINE locks == [t \in DOMAIN wins[r][c.win].locks \ Targets(r, c) |-> wins[r][c.win].locks[t]]
    <3>1. w = [wins EXCEPT ![r][c.win].locks = locks]
      BY <2>2 DEF WindowsAfter
    <3> HIDE DEF locks, w
    <3>2. QED
      BY <3>1
  <2>3. CASE c.op = "post"
    BY <2>3 DEF WindowsAfter
  <2>4. CASE c.op = "winwait"
    BY <2>4 DEF WindowsAfter
  <2>5. CASE c.op = "start"
    BY <2>5 DEF WindowsAfter
  <2>6. CASE c.op = "complete"
    BY <2>6 DEF WindowsAfter
  <2>7. CASE c.op \notin {"lock", "lockall", "unlock", "unlockall", "post", "winwait", "start", "complete"}
    BY <2>7 DEF WindowsAfter
  <2>8. QED
    BY <2>1, <2>2, <2>3, <2>4, <2>5, <2>6, <2>7
<1> HIDE DEF w
<1>2. DOMAIN new = Ranks /\ \A s \in Ranks : DOMAIN new[s] = DOMAIN w[s]
  <2>1. CASE c.op = "start"
    BY <1>1, <2>1 DEF OwnEpoch
  <2>2. CASE c.op = "complete"
    BY <1>1, <2>2 DEF OwnEpoch
  <2>3. CASE c.op \notin {"start", "complete"}
    BY <1>1, <2>3 DEF OwnEpoch
  <2>4. QED
    BY <2>1, <2>2, <2>3
<1> HIDE DEF new
<1>3. QED
  BY <1>1, <1>2 DEF new, w

LEMMA OneSidedKeeps ==
  ASSUME IInv, NEW r \in Ranks, OneSided(r) PROVE IInv'
<1> DEFINE c == Next1(r)
           kinds == Accesses \cup Passive \cup Active
           new == OwnEpoch(WindowsAfter(r, c), r, c)
<1>1. /\ Legal(r, kinds) /\ wins' = new /\ ops' = AccessesAfter(r, c)
      /\ reqs' = IF Nonblocking(c) THEN [reqs EXCEPT ![r] = Assigned(@, c.req, Len(ops'[r]))] ELSE reqs
      /\ Advance(r) /\ job' = job /\ inside' = inside /\ env' = env /\ seen' = seen /\ over' = over
  BY DEF OneSided
<1>2. /\ ~over /\ inside[r] = FALSE /\ code[r] # <<>> /\ c.op \in kinds /\ Faults(r, c) = {}
      /\ RankInv(r) /\ Typed
  <2>1. Legal(r, kinds)
    BY <1>1
  <2> HIDE DEF kinds
  <2>2. QED
    BY <2>1, IsReady
<1>3. env[r] = "up"
  <2>1. c.op \notin Local \cup {"init"}
    BY <1>2 DEF Local, Accesses, Accumulating, Passive, Active
  <2>2. QED
    BY <1>2, <2>1, CallsWhileUp
<1>4. DOMAIN wins' = Ranks /\ \A s \in Ranks : DOMAIN wins'[s] = DOMAIN wins[s]
  BY <1>1, <1>2, WindowsStay DEF Typed
<1>5. c.op # "winfree"
  BY <1>2 DEF Accesses, Accumulating, Passive, Active
<1>6. GoodOps(r) /\ GoodHandles(r)
  BY <1>2 DEF RankInv
<1>7. NoHandleLeft(r)'
  BY <1>1, <1>3 DEF NoHandleLeft
<1>8. CASE c.op \in Passive \cup Active
  <2>1. DOMAIN ops' = Ranks /\ \A s \in Ranks : QuietOps(s)
    BY <1>1, <1>8, AccessesQuiet
  <2>2. ~Nonblocking(c)
    BY <1>8 DEF Nonblocking, Passive, Active, Accesses, Accumulating, Collectives, OnComm, OnWin, Exchanges,
                Reductions, MakesComm
  <2> HIDE DEF c, kinds, new
  <2>3. GoodHandles(r)'
    BY <1>1, <1>6, <2>1, <2>2, HandlesStay DEF QuietOps
  <2>4. Typed'
    BY <1>1, <1>2, <1>4, <2>1, <2>2 DEF Typed, Advance
  <2>5. QED
    BY <1>1, <1>2, <1>4, <1>5, <1>7, <2>1, <2>2, <2>3, <2>4, RankAdvances DEF QuietOps, c
<1>9. CASE c.op \in Accesses
  <2>1. ops' = [ops EXCEPT ![r] = Append(@, Posted(r, c, FALSE))]
    BY <1>1, <1>9 DEF AccessesAfter, Accesses, Accumulating
  <2> HIDE DEF c, kinds, new
  <2>2. DOMAIN ops' = Ranks /\ ops'[r] = Append(ops[r], Posted(r, c, FALSE)) /\ \A s \in Ranks \ {r} : ops'[s] = ops[s]
    BY <1>2, <2>1 DEF Typed
  <2>3. MoreOps(r, c) /\ \A s \in Ranks \ {r} : QuietOps(s)
    BY <1>6, <2>2, AppendedIsMore, OthersQuiet
  <2>4. Len(ops'[r]) = Len(ops[r]) + 1
    BY <2>3 DEF MoreOps
  <2>5. DOMAIN reqs' = Ranks /\ \A s \in Ranks \ {r} : reqs'[s] = reqs[s]
    BY <1>1, <1>2 DEF Typed
  <2>6. GoodHandles(r)'
    <3>1. CASE Nonblocking(c)
      <4>1. reqs'[r] = Assigned(reqs[r], c.req, Len(ops[r]) + 1)
        BY <1>1, <1>2, <2>4, <3>1 DEF Typed
      <4>2. QED
        BY <1>6, <2>3, <3>1, <4>1, NewHandle
    <3>2. CASE ~Nonblocking(c)
      BY <1>1, <1>6, <2>3, <3>2, HandlesStay
    <3>3. QED
      BY <3>1, <3>2
  <2>7. Typed'
    BY <1>1, <1>2, <1>4, <2>2, <2>5 DEF Typed, Advance
  <2>8. QED
    BY <1>1, <1>2, <1>4, <1>5, <1>7, <2>3, <2>5, <2>6, <2>7, RankAdvances DEF c
<1>10. QED
  BY <1>2, <1>8, <1>9
-----------------------------------------------------------------------------
(***************************************************************************)
(* Messages, and the end.                                                  *)
(***************************************************************************)
\* One more message has been transferred.
LEMMA OneMore ==
  ASSUME NEW kinds, NEW s \in Ranks, NEW i, IsFiniteSet(Done(kinds)),
         i \notin DoneAt(kinds, s), DoneAt(kinds, s)' = DoneAt(kinds, s) \cup {i},
         \A r \in Ranks \ {s} : DoneAt(kinds, r)' = DoneAt(kinds, r)
  PROVE  /\ IsFiniteSet(Done(kinds)') /\ Cardinality(Done(kinds)) \in Nat
         /\ Cardinality(Done(kinds)') = Cardinality(Done(kinds)) + 1
<1>1. \A r, k : <<r, k>> \in Done(kinds) <=> r \in Ranks /\ k \in DoneAt(kinds, r)
  BY DEF Done, DoneAt
<1>2. \A x \in Done(kinds) : \E r \in Ranks : \E k \in DoneAt(kinds, r) : x = <<r, k>>
  BY DEF Done, DoneAt
<1>3. \A r, k : <<r, k>> \in Done(kinds)' <=> r \in Ranks /\ k \in DoneAt(kinds, r)'
  BY DEF Done, DoneAt
<1>4. \A x \in Done(kinds)' : \E r \in Ranks : \E k \in DoneAt(kinds, r)' : x = <<r, k>>
  BY DEF Done, DoneAt
<1> DEFINE a == Done(kinds)
           b == Done(kinds)'
<1>5. <<s, i>> \notin a
  BY <1>1
<1>6. b = a \cup {<<s, i>>}
  <2>1. ASSUME NEW x \in b PROVE x \in a \cup {<<s, i>>}
    <3>1. PICK r \in Ranks : \E k \in DoneAt(kinds, r)' : x = <<r, k>>
      BY <1>4
    <3>2. PICK k \in DoneAt(kinds, r)' : x = <<r, k>>
      BY <3>1
    <3>3. k \in DoneAt(kinds, r) \/ (r = s /\ k = i)
      BY <3>2
    <3>4. QED
      BY <1>1, <3>2, <3>3
  <2>2. ASSUME NEW x \in a PROVE x \in b
    <3>1. PICK r \in Ranks : \E k \in DoneAt(kinds, r) : x = <<r, k>>
      BY <1>2
    <3>2. PICK k \in DoneAt(kinds, r) : x = <<r, k>>
      BY <3>1
    <3>3. k \in DoneAt(kinds, r)'
      BY <3>2
    <3>4. QED
      BY <1>3, <3>2, <3>3
  <2>3. <<s, i>> \in b
    BY <1>3
  <2>4. QED
    BY <2>1, <2>2, <2>3
<1>7. IsFiniteSet(a)
  OBVIOUS
<1> HIDE DEF a, b
<1>8. IsFiniteSet(b) /\ Cardinality(a) \in Nat /\ Cardinality(b) = Cardinality(a) + 1
  BY ONLY <1>5, <1>6, <1>7, FS_AddElement, FS_CardinalityType
<1>9. QED
  BY <1>8 DEF a, b

LEMMA DeliverKeeps ==
  ASSUME IInv, NEW s \in Ranks, NEW d \in Ranks, NEW i \in Open(s, Sends), NEW j \in Open(d, Receives),
         Deliver(s, i, d, j)
  PROVE  IInv'
<1>1. /\ ~over /\ over' = (seen' # {}) /\ seen' \subseteq {"mismatch"}
      /\ job' = job /\ code' = code /\ inside' = inside /\ env' = env /\ wins' = wins /\ reqs' = reqs
  BY DEF Deliver, data
<1>2. Typed /\ (\A r \in Ranks : RankInv(r) /\ GoodOps(r)) /\ DOMAIN ops = Ranks
  BY DEF IInv, RankInv, Typed
<1>3. ops' = [r \in Ranks |-> [k \in DOMAIN ops[r] |->
                IF <<r, k>> \in {<<s, i>>, <<d, j>>} THEN [ops[r][k] EXCEPT !.done = TRUE, !.eager = FALSE]
                ELSE ops[r][k]]]
  BY DEF Deliver
<1>4. /\ i \in DOMAIN ops[s] /\ ops[s][i].call.op \in Sends /\ ~ops[s][i].done
      /\ j \in DOMAIN ops[d] /\ ops[d][j].call.op \in Receives /\ ~ops[d][j].done
  BY DEF Open
\* What becomes of an operation.
<1>5. ASSUME NEW r \in Ranks, NEW k \in DOMAIN ops[r]
      PROVE  /\ Evolves(ops[r][k], ops'[r][k]) /\ ops'[r][k].waited = ops[r][k].waited
             /\ ops'[r][k].cancelled = ops[r][k].cancelled
             /\ (<<r, k>> = <<s, i>> \/ <<r, k>> = <<d, j>>) => ops'[r][k].done
             /\ (<<r, k>> # <<s, i>> /\ <<r, k>> # <<d, j>>) => ops'[r][k].done = ops[r][k].done
  <2> DEFINE x == ops[r][k]
             y == [x EXCEPT !.done = TRUE, !.eager = FALSE]
  <2>1. GoodOperation(x, job.lib.proc_null)
    BY <1>2 DEF GoodOps
  <2>2. /\ Evolves(x, x) /\ Evolves(x, y) /\ y.waited = x.waited /\ y.cancelled = x.cancelled /\ y.done
    BY <2>1 DEF GoodOperation, Operation, Evolves
  <2>3. ops'[r][k] = IF <<r, k>> \in {<<s, i>>, <<d, j>>} THEN y ELSE x
    BY <1>3
  <2> HIDE DEF x, y
  <2>4. QED
    BY <2>2, <2>3 DEF x
<1>6. DOMAIN ops' = Ranks /\ \A r \in Ranks : SameOps(r) /\ PendingKept(r) /\ DOMAIN ops'[r] = DOMAIN ops[r]
  <2>1. DOMAIN ops' = Ranks
    BY <1>3
  <2>2. ASSUME NEW r \in Ranks PROVE SameOps(r) /\ PendingKept(r) /\ DOMAIN ops'[r] = DOMAIN ops[r]
    <3>1. ops'[r] = [k \in DOMAIN ops[r] |-> ops'[r][k]]
      BY <1>3
    <3>2. IsList(ops'[r]) /\ Len(ops'[r]) = Len(ops[r]) /\ DOMAIN ops'[r] = DOMAIN ops[r]
      BY <1>2, <3>1, SameDomain DEF GoodOps
    <3>3. QED
      BY <1>5, <3>2 DEF SameOps, PendingKept
  <2>3. QED
    BY <2>1, <2>2
<1>7. \A r \in Ranks : RankInv(r)'
  BY <1>1, <1>2, <1>6, Untouched
\* Neither was transferred before, and both are now.
<1>8. ASSUME NEW r \in Ranks, NEW k \in DOMAIN ops[r], <<r, k>> \notin {<<s, i>>, <<d, j>>}
      PROVE  Transferred(ops[r][k])' <=> Transferred(ops[r][k])
  BY <1>1, <1>5, <1>8 DEF Transferred, Evolves
<1>9. ~Transferred(ops[s][i]) /\ ~Transferred(ops[d][j])
  BY <1>4 DEF Transferred
<1>10. ASSUME NEW r \in Ranks, NEW k \in DOMAIN ops[r], ops[r][k].call.op \in Messages, ~ops[r][k].done, ops'[r][k].done
       PROVE  LET y == ops'[r][k] IN y.done /\ ~y.cancelled /\ y.call.peer # job'.lib.proc_null
  <2>1. GoodOperation(ops[r][k], job.lib.proc_null)
    BY <1>2 DEF GoodOps
  <2>2. QED
    BY <1>1, <1>5, <1>10, <2>1 DEF GoodOperation, Evolves
<1>11. \A r \in Ranks : \A k \in DOMAIN ops[r] : ops'[r][k].call = ops[r][k].call
  BY <1>5 DEF Evolves
<1>12. /\ i \notin DoneAt(Sends, s) /\ DoneAt(Sends, s)' = DoneAt(Sends, s) \cup {i}
       /\ \A r \in Ranks \ {s} : DoneAt(Sends, r)' = DoneAt(Sends, r)
  <2>1. i \notin DoneAt(Sends, s)
    BY <1>9 DEF DoneAt
  <2>2. i \in DoneAt(Sends, s)'
    <3>1. ops'[s][i].done
      BY <1>4, <1>5
    <3>2. QED
      BY <1>4, <1>6, <1>10, <1>11, <3>1, Kinds1 DEF DoneAt, Transferred
  <2>3. ASSUME NEW r \in Ranks, NEW k, <<r, k>> # <<s, i>>
        PROVE  k \in DoneAt(Sends, r)' <=> k \in DoneAt(Sends, r)
    <3>1. CASE k \notin DOMAIN ops[r]
      BY <1>6, <3>1 DEF DoneAt
    <3>2. CASE k \in DOMAIN ops[r] /\ <<r, k>> = <<d, j>>
      BY <1>4, <1>6, <1>11, <3>2, Kinds1 DEF DoneAt
    <3>3. CASE k \in DOMAIN ops[r] /\ <<r, k>> # <<d, j>>
      BY <1>6, <1>8, <1>11, <2>3, <3>3 DEF DoneAt
    <3>4. QED
      BY <3>1, <3>2, <3>3
  <2>4. \A k : k # i => (k \in DoneAt(Sends, s)' <=> k \in DoneAt(Sends, s))
    BY <2>3
  <2>5. \A r \in Ranks \ {s} : \A k : k \in DoneAt(Sends, r)' <=> k \in DoneAt(Sends, r)
    BY <2>3
  <2>6. DoneAt(Sends, s)' = DoneAt(Sends, s) \cup {i}
    BY <2>2, <2>4
  <2>7. QED
    BY <2>1, <2>5, <2>6
<1>13. /\ j \notin DoneAt(Receives, d) /\ DoneAt(Receives, d)' = DoneAt(Receives, d) \cup {j}
       /\ \A r \in Ranks \ {d} : DoneAt(Receives, r)' = DoneAt(Receives, r)
  <2>1. j \notin DoneAt(Receives, d)
    BY <1>9 DEF DoneAt
  <2>2. j \in DoneAt(Receives, d)'
    <3>1. ops'[d][j].done
      BY <1>4, <1>5
    <3>2. QED
      BY <1>4, <1>6, <1>10, <1>11, <3>1, Kinds1 DEF DoneAt, Transferred
  <2>3. ASSUME NEW r \in Ranks, NEW k, <<r, k>> # <<d, j>>
        PROVE  k \in DoneAt(Receives, r)' <=> k \in DoneAt(Receives, r)
    <3>1. CASE k \notin DOMAIN ops[r]
      BY <1>6, <3>1 DEF DoneAt
    <3>2. CASE k \in DOMAIN ops[r] /\ <<r, k>> = <<s, i>>
      BY <1>4, <1>6, <1>11, <3>2, Kinds1 DEF DoneAt
    <3>3. CASE k \in DOMAIN ops[r] /\ <<r, k>> # <<s, i>>
      BY <1>6, <1>8, <1>11, <2>3, <3>3 DEF DoneAt
    <3>4. QED
      BY <3>1, <3>2, <3>3
  <2>4. \A k : k # j => (k \in DoneAt(Receives, d)' <=> k \in DoneAt(Receives, d))
    BY <2>3
  <2>5. \A r \in Ranks \ {d} : \A k : k \in DoneAt(Receives, r)' <=> k \in DoneAt(Receives, r)
    BY <2>3
  <2>6. DoneAt(Receives, d)' = DoneAt(Receives, d) \cup {j}
    BY <2>2, <2>4
  <2>7. QED
    BY <2>1, <2>5, <2>6
<1>14. Conserved'
  <2>1. IsFiniteSet(Done(Sends)) /\ IsFiniteSet(Done(Receives)) /\ Cardinality(Done(Sends)) = Cardinality(Done(Receives))
    BY DEF IInv, Conserved
  <2>2. /\ IsFiniteSet(Done(Sends)') /\ Cardinality(Done(Sends)') = Cardinality(Done(Sends)) + 1
    BY <1>12, <2>1, OneMore
  <2>3. /\ IsFiniteSet(Done(Receives)') /\ Cardinality(Done(Receives)') = Cardinality(Done(Receives)) + 1
    BY <1>13, <2>1, OneMore
  <2>4. QED
    BY <2>1, <2>2, <2>3 DEF Conserved
<1>15. Typed'
  BY <1>1, <1>2, <1>6 DEF Typed, Kinds
<1>16. AllExecuted'
  BY <1>1 DEF AllExecuted
<1>17. QED
  BY <1>7, <1>14, <1>15, <1>16 DEF IInv

LEMMA EndKeeps ==
  ASSUME IInv, End PROVE IInv'
<1> DEFINE stuck == \E r \in Ranks : Waiting(r)
           left == \E r \in Ranks : Unmatched(r) \/ env[r] # "down"
<1>1. /\ \A r \in Ranks : code[r] = <<>> \/ Waiting(r)
      /\ over' = TRUE
      /\ seen' = IF stuck THEN {"stuck"} ELSE IF left THEN {"unfinished"} ELSE {}
      /\ job' = job /\ code' = code /\ inside' = inside /\ env' = env /\ wins' = wins /\ reqs' = reqs
      /\ ops' = ops
  BY DEF End, data
<1>2. seen' = {} => \A r \in Ranks : code'[r] = <<>> /\ env'[r] = "down"
  <2>1. seen' = {} => ~stuck /\ ~left
    <3> HIDE DEF stuck, left
    <3>1. QED
      BY <1>1
  <2>2. QED
    BY <1>1, <2>1
<1>3. seen' \subseteq {"stuck", "unfinished"}
  <2> HIDE DEF stuck, left
  <2>1. QED
    BY <1>1
<1> HIDE DEF stuck, left
<1>4. Typed'
  BY <1>1, <1>3 DEF IInv, Typed, Kinds
<1>5. \A r \in Ranks : QuietOps(r)
  BY <1>1, OpsStay
<1>6. \A r \in Ranks : RankInv(r)'
  BY <1>1, <1>5, Untouched DEF IInv, QuietOps
<1>7. \A r \in Ranks : DoneAt(Sends, r)' = DoneAt(Sends, r) /\ DoneAt(Receives, r)' = DoneAt(Receives, r)
  BY <1>1, OpsStay
<1>8. Conserved'
  BY <1>7, ConservedIfSame DEF IInv
<1>9. AllExecuted'
  BY <1>2 DEF AllExecuted
<1>10. QED
  BY <1>4, <1>6, <1>8, <1>9 DEF IInv

LEMMA NothingKeeps ==
  ASSUME IInv, UNCHANGED vars PROVE IInv'
<1>1. /\ job' = job /\ code' = code /\ inside' = inside /\ env' = env /\ wins' = wins /\ reqs' = reqs
      /\ ops' = ops /\ seen' = seen /\ over' = over
  BY DEF vars, data
<1>2. \A r \in Ranks : QuietOps(r)
  BY <1>1, OpsStay
<1>3. \A r \in Ranks : RankInv(r)'
  BY <1>1, <1>2, Untouched DEF IInv, QuietOps
<1>4. \A r \in Ranks : DoneAt(Sends, r)' = DoneAt(Sends, r) /\ DoneAt(Receives, r)' = DoneAt(Receives, r)
  BY <1>1, OpsStay
<1>5. Conserved'
  BY <1>4, ConservedIfSame DEF IInv
<1>6. Typed' /\ AllExecuted'
  BY <1>1 DEF IInv, Typed, AllExecuted
<1>7. QED
  BY <1>3, <1>5, <1>6 DEF IInv

LEMMA InitIsGood == Init => IInv
<1> SUFFICES ASSUME Init PROVE IInv
  OBVIOUS
<1>0. PICK n \in DOMAIN Program : \E lib \in LibrariesFor(Program[n]), argc \in Runs(Program[n]) :
        /\ job = [name |-> n, label |-> Program[n].label, argc |-> argc, lib |-> lib]
        /\ code = IF argc = 1 THEN Program[n].plain ELSE Program[n].given
  BY DEF Init
<1>1. PICK lib \in LibrariesFor(Program[n]), argc \in Runs(Program[n]) :
        /\ job = [name |-> n, label |-> Program[n].label, argc |-> argc, lib |-> lib]
        /\ code = IF argc = 1 THEN Program[n].plain ELSE Program[n].given
  BY <1>0
<1>2. /\ inside = [r \in Ranks |-> FALSE] /\ env = [r \in Ranks |-> "before"] /\ wins = [r \in Ranks |-> <<>>]
      /\ reqs = [r \in Ranks |-> <<>>] /\ ops = [r \in Ranks |-> <<>>] /\ seen = {} /\ over = FALSE
  BY DEF Init
<1>3. lib \in Libraries /\ argc \in {1, 2}
  <2>1. \E l : l \in Libraries
    BY DEF Libraries
  <2>2. LibrariesFor(Program[n]) \subseteq Libraries
    BY <2>1 DEF LibrariesFor
  <2>3. QED
    BY <2>2 DEF Runs
<1>4. DOMAIN code = Ranks /\ \A r \in Ranks : IsCode(code[r])
  BY <1>1, ProgramAssumption
<1>5. Typed
  BY <1>1, <1>2, <1>3, <1>4 DEF Typed
<1>6. ASSUME NEW r \in Ranks PROVE RankInv(r)
  <2>1. ops[r] = <<>> /\ wins[r] = <<>> /\ reqs[r] = <<>>
    BY <1>2
  <2>2. DOMAIN ops[r] = {} /\ DOMAIN wins[r] = {} /\ DOMAIN reqs[r] = {} /\ ops[r] \in Seq(Range(ops[r]))
    BY <2>1, EmptySeq
  <2>3. GoodOps(r) /\ GoodHandles(r)
    BY <2>2 DEF GoodOps, GoodHandles, IsList
  <2>4. InItsCall(r) /\ NoHandleLeft(r)
    BY <1>2, <2>2 DEF InItsCall, NoHandleLeft
  <2>5. QED
    BY <1>4, <2>2, <2>3, <2>4 DEF RankInv
<1>7. Conserved
  <2>1. ASSUME NEW r \in Ranks PROVE DOMAIN ops[r] = {}
    <3>1. ops[r] = <<>>
      BY <1>2
    <3>2. DOMAIN ops[r] = 1..0
      BY <3>1, EmptySeq
    <3>3. QED
      BY <3>2
  <2>2. Done(Sends) = {} /\ Done(Receives) = {}
    BY <2>1 DEF Done
  <2>3. QED
    BY <2>2, FS_EmptySet DEF Conserved
<1>8. AllExecuted
  BY <1>2 DEF AllExecuted
<1>9. QED
  BY <1>5, <1>6, <1>7, <1>8 DEF IInv

LEMMA NextKeeps ==
  ASSUME IInv, [Next]_vars PROVE IInv'
<1>1. ASSUME NEW r \in Ranks, Rank(r) PROVE IInv'
  BY <1>1, MisuseKeeps, EnvironmentKeeps, PlainKeeps, DatatypeKeeps, OneSidedKeeps, PostKeeps, LeaveKeeps,
     RequestKeeps, CancelRequestKeeps DEF Rank
<1>2. CASE Message
  BY <1>2, DeliverKeeps DEF Message
<1>3. CASE End
  BY <1>3, EndKeeps
<1>4. CASE Ended
  BY <1>4, NothingKeeps DEF Ended
<1>5. CASE UNCHANGED vars
  BY <1>5, NothingKeeps
<1>6. QED
  BY <1>1, <1>2, <1>3, <1>4, <1>5 DEF Next

\* The inductive invariant holds of every reachable state.
LEMMA Invariance == Spec => []IInv
<1>1. IInv /\ [Next]_vars => IInv'
  BY NextKeeps
<1>2. QED
  BY InitIsGood, <1>1, PTL DEF Spec
-----------------------------------------------------------------------------
\* Whatever the programs, every handle variable denotes an operation of its rank
\* or nothing, and a rank in a blocking call is in the call it posted last.
THEOREM TypeCorrect == Spec => []TypeOK
<1>1. IInv => TypeOK
  <2> SUFFICES ASSUME IInv PROVE TypeOK
    OBVIOUS
  <2>1. Typed /\ \A r \in Ranks : GoodHandles(r) /\ InItsCall(r)
    BY DEF IInv, RankInv
  <2>2. \A r \in Ranks : \A q \in DOMAIN reqs[r] : reqs[r][q] \in 0..Len(ops[r])
    BY <2>1 DEF GoodHandles
  <2>3. \A r \in Ranks : inside[r] => ops[r] # <<>> /\ Last(ops[r]).call = Head(code[r])
    BY <2>1 DEF InItsCall, Last
  <2>4. QED
    BY <2>1, <2>2, <2>3 DEF Typed, TypeOK
<1>2. QED
  BY <1>1, Invariance, PTL

\* Whatever the programs: one that ends without a misuse of MPI has freed its
\* windows and completed its requests, and received as many messages as it sent.
THEOREM NothingLeftBehind == Spec => []CleanEnd
<1>1. IInv => CleanEnd
  <2> SUFFICES ASSUME IInv, over, seen = {}
               PROVE  /\ \A r \in Ranks : DOMAIN wins[r] = {} /\ \A q \in DOMAIN reqs[r] : reqs[r][q] = 0
                      /\ Cardinality(Done(Sends)) = Cardinality(Done(Receives))
    BY DEF CleanEnd
  <2>1. ASSUME NEW r \in Ranks
        PROVE  DOMAIN wins[r] = {} /\ \A q \in DOMAIN reqs[r] : reqs[r][q] = 0
    <3>1. code[r] = <<>> /\ env[r] = "down" /\ RankInv(r)
      BY DEF IInv, AllExecuted
    <3>2. \A w : ~WillFree(code[r], w)
      BY <3>1, EmptySeq DEF WillFree
    <3>3. DOMAIN wins[r] = {}
      BY <3>1, <3>2 DEF RankInv
    <3>4. QED
      BY <3>1, <3>3 DEF RankInv, NoHandleLeft
  <2>2. Cardinality(Done(Sends)) = Cardinality(Done(Receives))
    BY DEF IInv, Conserved
  <2>3. QED
    BY <2>1, <2>2
<1>2. QED
  BY <1>1, Invariance, PTL
=============================================================================
