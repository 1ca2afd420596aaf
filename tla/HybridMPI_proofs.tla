--------------------------- MODULE HybridMPI_proofs ---------------------------
(***************************************************************************)
(* What holds of the OpenMP cases whatever their code is: where a thread   *)
(* is in it, what the overlap macros know of the threads of a rank, which  *)
(* calls the code keeps apart, what main reports, and which misuses no     *)
(* interleaving of a case commits.                                         *)
(***************************************************************************)
EXTENDS HybridMPI, FiniteSetTheorems, SequenceTheorems, TLAPS

Fields == {"at", "item", "step", "in", "now", "calls", "reg", "found", "before"}
Counters == {"flag", "overlap_count", "before_a", "after_a", "before_b", "after_b"}

\* The places of a thread that goes on: at MPI_Init_thread, in its code, or in an
\* item of the worksharing construct that it is at.
AtStart(p) == th[p].item = NoItem /\ th[p].at = 0 /\ Op(p).op = "init"
AtCode(p) == th[p].item = NoItem /\ th[p].at \in DOMAIN CodeOf(p) /\ Op(p) = CodeOf(p)[th[p].at]
AtItem(p) ==
  LET work == CodeOf(p)[th[p].at]
  IN /\ th[p].item # NoItem /\ th[p].at \in DOMAIN CodeOf(p) /\ work.op = "work"
     /\ th[p].item[2] \in DOMAIN work.items
     /\ th[p].step \in DOMAIN ItemCode(p) /\ Op(p) = ItemCode(p)[th[p].step]

ThreadInv(p) ==
  /\ DOMAIN th[p] = Fields
  /\ th[p].in \in BOOLEAN
  /\ th[p].at \in 0..(Len(CodeOf(p)) + 1)
  /\ th[p].item = NoItem => th[p].step = 1
  /\ ~Finished(p) => AtStart(p) \/ AtCode(p) \/ AtItem(p)

\* The open brackets of a thread, around the construct it is at or in its item,
\* and those of a rank.
Depths == {"code", "item"}
IsOpenAt(p, d) ==
  /\ ~Finished(p)
  /\ IF d = "code" THEN Inside(CodeOf(p), th[p].at) ELSE th[p].item # NoItem /\ Inside(ItemCode(p), th[p].step)
Brackets(r) == {b \in Tids \X Depths : IsOpenAt(<<r, b[1]>>, b[2])}

\* flag is at least the number of open brackets (a case may use the macros for
\* the order of calls as well, which never decrement it).
FlagCounts == \A r \in Ranks : oracle[r].flag \in Nat /\ Cardinality(Brackets(r)) <= oracle[r].flag

\* Of two threads in brackets one is about to count, unless one has counted.
PassedTest ==
  \A p \in Procs : \A q \in Mates(p) :
    InBracket(p) /\ InBracket(q) /\ oracle[p[1]].overlap_count = 0 =>
      \E u \in {p, q} : Op(u).op = "count" /\ th[u].before # 0

Programs == (\A p \in Procs : IsProgram(CodeOf(p))) /\ \A r \in Ranks : IsTeam(job.code[r])

TeamTyped ==
  /\ DOMAIN team = Ranks
  /\ \A r \in Ranks : DOMAIN team[r] = {"forked", "taken", "lock", "finalized"} /\ team[r].lock \in Tids \cup {-1}
OracleTyped ==
  DOMAIN oracle = Ranks /\ \A r \in Ranks : DOMAIN oracle[r] = Counters /\ oracle[r].overlap_count \in Nat
ResultsTyped == verdicts \in [Ranks -> SUBSET BOOLEAN] /\ files \in SUBSET Ranks
Typed ==
  /\ job.name \in DOMAIN Program /\ job.provided \in SINGLE..MULTIPLE
  /\ DOMAIN th = Procs
  /\ TeamTyped /\ OracleTyped /\ ResultsTyped
  /\ seen \in SUBSET Misuses

IInv == Typed /\ Programs /\ (\A p \in Procs : ThreadInv(p)) /\ FlagCounts /\ PassedTest

-----------------------------------------------------------------------------
(***************************************************************************)
(* The code of a thread.                                                   *)
(***************************************************************************)
LEMMA Lists ==
  ASSUME NEW cs, IsCode(cs)
  PROVE  Len(cs) \in Nat /\ DOMAIN cs = 1..Len(cs)
BY DEF IsCode

LEMMA WithinFirst == \A open, close, cs : ~Within(open, close, cs, 0) /\ ~Within(open, close, cs, 1)
BY DEF Within

LEMMA InsideFirst == \A cs : ~Inside(cs, 0) /\ ~Inside(cs, 1) /\ ~Locked(cs, 0) /\ ~Locked(cs, 1)
BY WithinFirst DEF Inside, Locked

LEMMA WithinNext ==
  ASSUME NEW open, NEW close, open # close, NEW cs, NEW k \in Nat, k > 0
  PROVE  /\ cs[k].op = open => Within(open, close, cs, k + 1)
         /\ cs[k].op = close => ~Within(open, close, cs, k + 1)
         /\ cs[k].op \notin {open, close} => (Within(open, close, cs, k + 1) <=> Within(open, close, cs, k))
<1> DEFINE c(i) == cs[i].op = open
           e(i) == cs[i].op = close
           W(m) == Within(open, close, cs, m)
<1>1. ~(c(k) /\ e(k))
  OBVIOUS
<1>2. \A m : W(m) <=> \E i \in 1..(m - 1) : c(i) /\ \A j \in (i + 1)..(m - 1) : ~e(j)
  BY DEF Within
<1>3. k + 1 - 1 = k
  OBVIOUS
<1> HIDE DEF c, e, W
<1>4. W(k + 1) <=> \E i \in 1..k : c(i) /\ \A j \in (i + 1)..k : ~e(j)
  BY <1>2, <1>3
<1>5. e(k) => ~W(k + 1)
  BY <1>1, <1>4
<1>6. c(k) => W(k + 1)
  <2>1. \A j \in (k + 1)..k : FALSE
    OBVIOUS
  <2>2. QED
    BY <1>4, <2>1
<1>7. ASSUME ~c(k), ~e(k), W(k + 1) PROVE W(k)
  BY <1>2, <1>4, <1>7
<1>8. ASSUME ~e(k), W(k) PROVE W(k + 1)
  BY <1>2, <1>4, <1>8
<1>9. QED
  BY <1>5, <1>6, <1>7, <1>8 DEF c, e, W

LEMMA InsideNext ==
  ASSUME NEW cs, NEW k \in Nat, k > 0
  PROVE  /\ cs[k].op = "capture" => Inside(cs, k + 1)
         /\ cs[k].op = "end" => ~Inside(cs, k + 1)
         /\ cs[k].op \notin {"capture", "end"} => (Inside(cs, k + 1) <=> Inside(cs, k))
BY WithinNext DEF Inside

LEMMA LockedNext ==
  ASSUME NEW cs, NEW k \in Nat, k > 0
  PROVE  /\ cs[k].op = "lock" => Locked(cs, k + 1)
         /\ cs[k].op = "unlock" => ~Locked(cs, k + 1)
         /\ cs[k].op \notin {"lock", "unlock"} => (Locked(cs, k + 1) <=> Locked(cs, k))
BY WithinNext DEF Locked

LEMMA NthIs ==
  ASSUME NEW cs, NEW k
  PROVE  Nth(cs, k).op # "none" => k \in DOMAIN cs /\ Nth(cs, k) = cs[k]
BY DEF Nth, Blank

\* The fields of a thread that has executed an instruction.
LEMMA AdvanceFields ==
  ASSUME NEW p, DOMAIN th[p] = Fields
  PROVE  /\ DOMAIN Advance(p) = Fields /\ Advance(p).in = FALSE /\ Advance(p).before = th[p].before
         /\ th[p].item = NoItem =>
              /\ Advance(p).at = th[p].at + 1 /\ Advance(p).now = Nth(CodeOf(p), th[p].at + 1)
              /\ Advance(p).item = NoItem /\ Advance(p).step = th[p].step
         /\ th[p].item # NoItem /\ th[p].step < Len(ItemCode(p)) =>
              /\ Advance(p).at = th[p].at /\ Advance(p).now = ItemCode(p)[th[p].step + 1]
              /\ Advance(p).item = th[p].item /\ Advance(p).step = th[p].step + 1
         /\ th[p].item # NoItem /\ ~(th[p].step < Len(ItemCode(p))) =>
              /\ Advance(p).at = th[p].at /\ Advance(p).now = CodeOf(p)[th[p].at]
              /\ Advance(p).item = NoItem /\ Advance(p).step = 1
<1> DEFINE t == [th[p] EXCEPT !.in = FALSE]
           cs == CodeOf(p)
           is == ItemCode(p)
<1>1. /\ DOMAIN t = Fields /\ t.in = FALSE /\ t.at = th[p].at /\ t.item = th[p].item /\ t.step = th[p].step
      /\ t.before = th[p].before
  BY DEF Fields
<1>2. Advance(p) = IF t.item = NoItem THEN [t EXCEPT !.at = @ + 1, !.now = Nth(cs, t.at + 1)]
                   ELSE IF t.step < Len(is) THEN [t EXCEPT !.step = @ + 1, !.now = is[t.step + 1]]
                   ELSE [t EXCEPT !.item = NoItem, !.step = 1, !.now = cs[t.at]]
  BY DEF Advance
<1> HIDE DEF t, cs, is
<1>3. CASE th[p].item = NoItem
  <2> DEFINE n == Nth(cs, t.at + 1)
  <2>1. Advance(p) = [t EXCEPT !.at = @ + 1, !.now = n]
    BY <1>1, <1>2, <1>3
  <2> HIDE DEF n
  <2>2. /\ DOMAIN Advance(p) = Fields /\ Advance(p).in = FALSE /\ Advance(p).before = th[p].before
        /\ Advance(p).at = th[p].at + 1 /\ Advance(p).now = n
        /\ Advance(p).item = NoItem /\ Advance(p).step = th[p].step
    BY <1>1, <1>3, <2>1 DEF Fields
  <2>3. QED
    BY <1>1, <1>3, <2>2 DEF n, cs
<1>4. CASE th[p].item # NoItem /\ th[p].step < Len(is)
  <2> DEFINE n == is[t.step + 1]
  <2>1. Advance(p) = [t EXCEPT !.step = @ + 1, !.now = n]
    BY <1>1, <1>2, <1>4
  <2> HIDE DEF n
  <2>2. /\ DOMAIN Advance(p) = Fields /\ Advance(p).in = FALSE /\ Advance(p).before = th[p].before
        /\ Advance(p).at = th[p].at /\ Advance(p).now = n
        /\ Advance(p).item = th[p].item /\ Advance(p).step = th[p].step + 1
    BY <1>1, <1>4, <2>1 DEF Fields
  <2>3. QED
    BY <1>1, <1>4, <2>2 DEF n, is
<1>5. CASE th[p].item # NoItem /\ ~(th[p].step < Len(is))
  <2> DEFINE n == cs[t.at]
  <2>1. Advance(p) = [t EXCEPT !.item = NoItem, !.step = 1, !.now = n]
    BY <1>1, <1>2, <1>5
  <2> HIDE DEF n
  <2>2. /\ DOMAIN Advance(p) = Fields /\ Advance(p).in = FALSE /\ Advance(p).before = th[p].before
        /\ Advance(p).at = th[p].at /\ Advance(p).now = n
        /\ Advance(p).item = NoItem /\ Advance(p).step = 1
    BY <1>1, <1>5, <2>1 DEF Fields
  <2>3. QED
    BY <1>1, <1>5, <2>2 DEF n, is, cs
<1>6. QED
  BY <1>3, <1>4, <1>5 DEF is

\* The instruction that a thread is at.
LEMMA AtInstruction ==
  ASSUME NEW p \in Procs, IsProgram(CodeOf(p)), ThreadInv(p), ~Finished(p)
  PROVE  /\ AtStart(p) \/ AtCode(p) => th[p].at \in Nat /\ th[p].step = 1
         /\ AtCode(p) => th[p].at > 0 /\ th[p].at <= Len(CodeOf(p))
         /\ AtItem(p) => /\ IsCode(ItemCode(p)) /\ th[p].step \in Nat /\ th[p].step > 0
                         /\ th[p].step <= Len(ItemCode(p)) /\ Op(p).op # "work"
         /\ Op(p).op = "end" => /\ AtCode(p) => Inside(CodeOf(p), th[p].at)
                                /\ AtItem(p) => Inside(ItemCode(p), th[p].step)
         /\ Op(p).op = "capture" =>
              /\ AtCode(p) => LET k == th[p].at + 1 IN k \in DOMAIN CodeOf(p) /\ CodeOf(p)[k].op = "count"
              /\ AtItem(p) => LET k == th[p].step + 1 IN k \in DOMAIN ItemCode(p) /\ ItemCode(p)[k].op = "count"
         /\ Op(p).op = "take" => Op(p).buf \in {"before_a", "after_a", "before_b", "after_b"}
         /\ Op(p).op # "none"
<1> DEFINE cs == CodeOf(p)
           is == ItemCode(p)
<1>1. IsCode(cs) /\ Len(cs) \in Nat /\ DOMAIN cs = 1..Len(cs)
  BY Lists DEF IsProgram
<1>2. th[p].at \in 0..(Len(cs) + 1) /\ (th[p].item = NoItem => th[p].step = 1)
  BY DEF ThreadInv
<1>3. AtItem(p) => /\ IsCode(is) /\ Len(is) \in Nat /\ DOMAIN is = 1..Len(is)
                   /\ \A j \in DOMAIN is : is[j].op # "work"
  <2>1. SUFFICES ASSUME AtItem(p)
                 PROVE  IsCode(is) /\ \A j \in DOMAIN is : is[j].op # "work"
    BY Lists
  <2>2. QED
    BY <2>1 DEF AtItem, IsProgram, ItemCode
<1>4. AtStart(p) \/ AtCode(p) \/ AtItem(p)
  BY DEF ThreadInv
<1>5. Op(p).op # "none"
  BY DEF Finished
<1>6. CASE AtStart(p)
  <2>1. ~AtCode(p) /\ ~AtItem(p) /\ Op(p).op = "init" /\ th[p].at = 0
    BY <1>1, <1>6 DEF AtStart, AtCode, AtItem
  <2>2. QED
    BY <1>2, <1>5, <1>6, <2>1 DEF AtStart
<1>7. CASE AtCode(p)
  <2>1. ~AtItem(p) /\ th[p].item = NoItem /\ th[p].at \in DOMAIN cs /\ Op(p) = cs[th[p].at]
    BY <1>7 DEF AtCode, AtItem
  <2> HIDE DEF cs, is
  <2>2. th[p].at \in Nat /\ th[p].at > 0 /\ th[p].at <= Len(cs)
    BY <1>1, <2>1
  <2>3. QED
    BY <1>1, <1>2, <1>5, <1>7, <2>1, <2>2 DEF IsCode, cs
<1>8. CASE AtItem(p)
  <2>1. /\ ~AtCode(p) /\ ~AtStart(p) /\ th[p].step \in DOMAIN is /\ Op(p) = is[th[p].step]
    BY <1>8 DEF AtCode, AtItem, AtStart
  <2> HIDE DEF cs, is
  <2>2. th[p].step \in Nat /\ th[p].step > 0 /\ th[p].step <= Len(is) /\ IsCode(is) /\ Op(p).op # "work"
    BY <1>3, <1>8, <2>1
  <2>3. QED
    BY <1>5, <1>8, <2>1, <2>2 DEF IsCode, is
<1>9. QED
  BY <1>4, <1>6, <1>7, <1>8

\* What executing an instruction does to the place and the brackets of a thread.
Here(p) == IF th[p].item = NoItem THEN "code" ELSE "item"

LEMMA ThreadAdvances ==
  ASSUME NEW p \in Procs, IsProgram(CodeOf(p)), ThreadInv(p), ~Finished(p), job' = job,
         DOMAIN th'[p] = Fields, th'[p].in \in BOOLEAN,
         th'[p].at = Advance(p).at, th'[p].item = Advance(p).item,
         th'[p].step = Advance(p).step, th'[p].now = Advance(p).now
  PROVE  /\ ThreadInv(p)'
         /\ \A d \in Depths : IsOpenAt(p, d)' => IsOpenAt(p, d) \/ (Op(p).op = "capture" /\ d = Here(p))
         /\ Op(p).op = "end" => IsOpenAt(p, Here(p)) /\ \A d \in Depths : d = Here(p) => ~IsOpenAt(p, d)'
         /\ Op(p).op = "capture" => Op(p)'.op = "count"
<1> DEFINE cs == CodeOf(p)
           is == ItemCode(p)
           at == th[p].at
           step == th[p].step
           op == Op(p).op
<1>1. IsCode(cs) /\ Len(cs) \in Nat /\ DOMAIN cs = 1..Len(cs) /\ CodeOf(p)' = cs
  BY Lists DEF IsProgram, CodeOf
<1>2. AtStart(p) \/ AtCode(p) \/ AtItem(p)
  BY DEF ThreadInv
<1>3. DOMAIN th[p] = Fields /\ at \in 0..(Len(cs) + 1)
  BY DEF ThreadInv
<1>4. Op(p)' = th'[p].now /\ (Finished(p)' <=> th'[p].now.op = "none")
  BY DEF Op, Finished
\* In its code.
<1>5. CASE th[p].item = NoItem
  <2>1. /\ th'[p].at = at + 1 /\ th'[p].now = Nth(cs, at + 1) /\ th'[p].item = NoItem /\ th'[p].step = step
    BY <1>3, <1>5, AdvanceFields
  <2>2. (AtStart(p) \/ AtCode(p)) /\ ~AtItem(p)
    BY <1>2, <1>5 DEF AtItem
  <2>3. at \in Nat /\ step = 1 /\ at + 1 \in 0..(Len(cs) + 1)
    <3>1. at \in Nat /\ step = 1
      BY <2>2, AtInstruction
    <3>2. at <= Len(cs)
      <4>1. CASE AtStart(p)
        BY <1>1, <4>1 DEF AtStart
      <4>2. CASE AtCode(p)
        BY <4>2, AtInstruction
      <4>3. QED
        BY <2>2, <4>1, <4>2
    <3> HIDE DEF at, cs, step
    <3>3. QED
      BY <1>1, <3>1, <3>2
  <2>4. th'[p].now.op # "none" => at + 1 \in DOMAIN cs /\ th'[p].now = cs[at + 1]
    BY <2>1, NthIs
  <2>5. ThreadInv(p)'
    <3>1. ~Finished(p)' => AtCode(p)'
      BY <1>1, <1>4, <2>1, <2>4 DEF AtCode
    <3>2. QED
      BY <1>1, <2>1, <2>3, <3>1 DEF ThreadInv
  <2>6. Here(p) = "code" /\ ~IsOpenAt(p, "item")'
    BY <1>5, <2>1 DEF Here, IsOpenAt
  <2>7. IsOpenAt(p, "code")' <=> th'[p].now.op # "none" /\ Inside(cs, at + 1)
    BY <1>1, <1>4, <2>1 DEF IsOpenAt
  <2>8. IsOpenAt(p, "code") <=> Inside(cs, at)
    BY DEF IsOpenAt
  <2>9. CASE AtStart(p)
    <3>1. ~Inside(cs, at + 1) /\ op = "init"
      <4>1. at + 1 = 1 /\ op = "init"
        BY <2>9 DEF AtStart
      <4>2. QED
        BY <4>1, InsideFirst
    <3>2. QED
      BY <2>5, <2>6, <2>7, <3>1 DEF Depths
  <2>10. CASE AtCode(p)
    <3>1. at > 0 /\ op = cs[at].op /\ (op = "end" => Inside(cs, at))
      BY <2>10, AtInstruction DEF AtCode
    <3>2. /\ op = "end" => ~Inside(cs, at + 1)
          /\ op \notin {"capture", "end"} => (Inside(cs, at + 1) <=> Inside(cs, at))
      <4> HIDE DEF cs, at, op
      <4>1. QED
        BY <2>3, <3>1, InsideNext
    <3>3. op = "capture" => at + 1 \in DOMAIN cs /\ cs[at + 1].op = "count"
      BY <2>10, AtInstruction
    <3>4. op = "capture" => th'[p].now.op = "count"
      BY <2>1, <3>3 DEF Nth
    <3>5. QED
      BY <1>4, <2>5, <2>6, <2>7, <2>8, <3>1, <3>2, <3>4 DEF Depths
  <2>11. QED
    BY <2>2, <2>9, <2>10
\* In an item.
<1>6. CASE th[p].item # NoItem
  <2>1. AtItem(p) /\ ~AtCode(p) /\ ~AtStart(p) /\ Here(p) = "item"
    BY <1>2, <1>6 DEF AtStart, AtCode, Here
  <2>2. /\ IsCode(is) /\ step \in Nat /\ step > 0 /\ step <= Len(is)
        /\ op = "end" => Inside(is, step)
        /\ op = "capture" => step + 1 \in DOMAIN is /\ is[step + 1].op = "count"
    BY <2>1, AtInstruction
  <2>3. Len(is) \in Nat /\ DOMAIN is = 1..Len(is)
    BY <2>2, Lists
  <2>4. /\ at \in DOMAIN cs /\ cs[at].op = "work" /\ th[p].item[2] \in DOMAIN cs[at].items
        /\ op = is[step].op
    BY <2>1 DEF AtItem
  <2>5. /\ op = "end" => ~Inside(is, step + 1)
        /\ op \notin {"capture", "end"} => (Inside(is, step + 1) <=> Inside(is, step))
    <3> HIDE DEF is, step, op
    <3>1. QED
      BY <2>2, <2>4, InsideNext
  <2>6. (IsOpenAt(p, "code") <=> Inside(cs, at)) /\ (IsOpenAt(p, "item") <=> Inside(is, step))
    BY <1>6 DEF IsOpenAt
  <2>7. CASE step < Len(is)
    <3>1. /\ th'[p].at = at /\ th'[p].now = is[step + 1] /\ th'[p].item = th[p].item /\ th'[p].step = step + 1
      BY <1>3, <1>6, <2>7, AdvanceFields
    <3>2. ItemCode(p)' = is
      BY <1>1, <3>1 DEF ItemCode
    <3>3. step + 1 \in DOMAIN is
      <4> HIDE DEF is, step
      <4>1. QED
        BY <2>2, <2>3, <2>7
    <3>4. AtItem(p)'
      BY <1>1, <1>4, <1>6, <2>4, <3>1, <3>2, <3>3 DEF AtItem
    <3>5. ThreadInv(p)'
      BY <1>1, <1>3, <1>6, <3>1, <3>4 DEF ThreadInv
    <3>6. IsOpenAt(p, "code")' => Inside(cs, at)
      BY <1>1, <3>1 DEF IsOpenAt
    <3>7. IsOpenAt(p, "item")' => Inside(is, step + 1)
      BY <3>1, <3>2 DEF IsOpenAt
    <3>8. QED
      BY <1>4, <2>1, <2>2, <2>5, <2>6, <3>1, <3>5, <3>6, <3>7 DEF Depths
  <2>8. CASE ~(step < Len(is))
    <3>1. /\ th'[p].at = at /\ th'[p].now = cs[at] /\ th'[p].item = NoItem /\ th'[p].step = 1
      BY <1>3, <1>6, <2>8, AdvanceFields
    <3>2. AtCode(p)'
      BY <1>1, <1>4, <2>4, <3>1 DEF AtCode
    <3>3. ThreadInv(p)'
      BY <1>1, <1>3, <3>1, <3>2 DEF ThreadInv
    <3>4. ~IsOpenAt(p, "item")'
      BY <3>1 DEF IsOpenAt
    <3>5. IsOpenAt(p, "code")' => Inside(cs, at)
      BY <1>1, <3>1 DEF IsOpenAt
    <3>6. op # "capture"
      <4> HIDE DEF is, step, op
      <4>1. QED
        BY <2>2, <2>3, <2>8
    <3>7. QED
      BY <2>1, <2>2, <2>6, <3>3, <3>4, <3>5, <3>6 DEF Depths
  <2>9. QED
    BY <2>7, <2>8
<1>7. QED
  BY <1>5, <1>6
-----------------------------------------------------------------------------
(***************************************************************************)
(* Steps that open no bracket.                                             *)
(***************************************************************************)
OpensNone(p) == \A d \in Depths : IsOpenAt(p, d)' => IsOpenAt(p, d)

Quiet(p) ==
  /\ ThreadInv(p)'
  /\ OpensNone(p)
  /\ Op(p).op = "count" /\ ~Finished(p)' => Op(p)'.op = "count" /\ th'[p].before = th[p].before

LEMMA InBracketIsOpen ==
  ASSUME NEW p
  PROVE  /\ InBracket(p) <=> \E d \in Depths : IsOpenAt(p, d)
         /\ InBracket(p)' <=> \E d \in Depths : IsOpenAt(p, d)'
BY DEF InBracket, IsOpenAt, Depths

LEMMA OpenMeansBracket ==
  ASSUME NEW r, NEW t, NEW d
  PROVE  /\ <<t, d>> \in Brackets(r) <=> t \in Tids /\ d \in Depths /\ IsOpenAt(<<r, t>>, d)
         /\ <<t, d>> \in Brackets(r)' <=> t \in Tids /\ d \in Depths /\ IsOpenAt(<<r, t>>, d)'
BY DEF Brackets

LEMMA BracketsArePairs ==
  ASSUME NEW r
  PROVE  /\ \A b \in Brackets(r) : \E t \in Tids, d \in Depths : b = <<t, d>>
         /\ \A b \in Brackets(r)' : \E t \in Tids, d \in Depths : b = <<t, d>>
BY DEF Brackets

LEMMA BracketsFinite ==
  ASSUME NEW r
  PROVE  /\ IsFiniteSet(Brackets(r)) /\ Cardinality(Brackets(r)) \in Nat
         /\ IsFiniteSet(Brackets(r)') /\ Cardinality(Brackets(r)') \in Nat
<1>1. IsFiniteSet(Tids) /\ IsFiniteSet(Depths)
  <2>1. ASSUME NEW a, NEW b PROVE IsFiniteSet({a, b})
    <3> DEFINE A == {a}
    <3>1. IsFiniteSet(A)
      BY FS_Singleton
    <3>2. {a, b} = A \cup {b}
      OBVIOUS
    <3> HIDE DEF A
    <3>3. IsFiniteSet(A \cup {b})
      BY <3>1, FS_AddElement
    <3>4. QED
      BY <3>2, <3>3
  <2>2. Tids = {0, 1}
    BY DEF Tids, NUM_THREADS
  <2>3. IsFiniteSet({0, 1}) /\ IsFiniteSet({"code", "item"})
    BY <2>1
  <2>4. QED
    BY <2>2, <2>3 DEF Depths
<1>2. IsFiniteSet(Tids \X Depths)
  BY <1>1, FS_Product
<1>3. Brackets(r) \subseteq Tids \X Depths /\ Brackets(r)' \subseteq Tids \X Depths
  BY DEF Brackets
<1>4. QED
  BY <1>2, <1>3, FS_Subset, FS_CardinalityType

LEMMA FewerBrackets ==
  ASSUME NEW r \in Ranks, \A t \in Tids : OpensNone(<<r, t>>)
  PROVE  Brackets(r)' \subseteq Brackets(r) /\ Cardinality(Brackets(r)') <= Cardinality(Brackets(r))
<1>1. Brackets(r)' \subseteq Brackets(r)
  <2>1. SUFFICES ASSUME NEW b \in Brackets(r)' PROVE b \in Brackets(r)
    OBVIOUS
  <2>2. PICK t \in Tids, d \in Depths : b = <<t, d>>
    BY BracketsArePairs
  <2>3. IsOpenAt(<<r, t>>, d)
    BY <2>2, OpenMeansBracket DEF OpensNone
  <2>4. QED
    BY <2>2, <2>3, OpenMeansBracket
<1>2. QED
  BY <1>1, BracketsFinite, FS_Subset

LEMMA FlagStays ==
  ASSUME IInv, NEW r \in Ranks, \A t \in Tids : OpensNone(<<r, t>>),
         oracle'[r].flag \in Nat, oracle[r].flag <= oracle'[r].flag
  PROVE  Cardinality(Brackets(r)') <= oracle'[r].flag
<1>1. Cardinality(Brackets(r)') <= Cardinality(Brackets(r))
  BY FewerBrackets
<1>2. Cardinality(Brackets(r)) <= oracle[r].flag /\ oracle[r].flag \in Nat
  BY DEF IInv, FlagCounts
<1>3. Cardinality(Brackets(r)) \in Nat /\ Cardinality(Brackets(r)') \in Nat
  BY BracketsFinite
<1>4. oracle'[r].flag \in Nat /\ oracle[r].flag <= oracle'[r].flag
  OBVIOUS
<1>5. QED
  BY ONLY <1>1, <1>2, <1>3, <1>4

LEMMA FlagsStay ==
  ASSUME IInv, \A p \in Procs : OpensNone(p),
         \A r \in Ranks : oracle'[r].flag \in Nat /\ oracle[r].flag <= oracle'[r].flag
  PROVE  FlagCounts'
<1>1. \A r \in Ranks : \A t \in Tids : OpensNone(<<r, t>>)
  BY DEF Procs
<1>2. QED
  BY <1>1, FlagStays DEF FlagCounts

\* Two threads one of which was about to count.
LEMMA PairStays ==
  ASSUME IInv, NEW p \in Procs, NEW q \in Mates(p), Quiet(p), Quiet(q), oracle[p[1]].overlap_count = 0,
         InBracket(p)', InBracket(q)'
  PROVE  \E u \in {p, q} : Op(u)'.op = "count" /\ th'[u].before # 0
<1>1. InBracket(p) /\ InBracket(q) /\ ~Finished(p)' /\ ~Finished(q)'
  BY InBracketIsOpen DEF Quiet, OpensNone, InBracket
<1>2. PICK u \in {p, q} : Op(u).op = "count" /\ th[u].before # 0
  BY <1>1 DEF IInv, PassedTest
<1>3. Quiet(u) /\ ~Finished(u)'
  BY <1>1
<1>4. QED
  BY <1>2, <1>3 DEF Quiet

LEMMA TestStays ==
  ASSUME IInv, \A p \in Procs : Quiet(p),
         \A r \in Ranks : oracle'[r].overlap_count = oracle[r].overlap_count
  PROVE  PassedTest'
<1>1. SUFFICES ASSUME NEW p \in Procs, NEW q \in Mates(p), InBracket(p)', InBracket(q)',
                      oracle'[p[1]].overlap_count = 0
               PROVE  \E u \in {p, q} : Op(u)'.op = "count" /\ th'[u].before # 0
  BY DEF PassedTest, Mates
<1>2. q \in Procs /\ p[1] \in Ranks
  BY DEF Mates, Procs
<1>3. oracle[p[1]].overlap_count = 0
  BY <1>1, <1>2
<1>4. QED
  BY <1>1, <1>2, <1>3, PairStays

LEMMA KeepsIfGood ==
  ASSUME IInv, job' = job, Typed', \A p \in Procs : ThreadInv(p)', FlagCounts', PassedTest'
  PROVE  IInv'
BY DEF IInv, Programs, CodeOf

LEMMA QuietKeeps ==
  ASSUME IInv, job' = job, Typed', \A p \in Procs : Quiet(p), oracle' = oracle
  PROVE  IInv'
<1>1. FlagCounts'
  <2>1. \A r \in Ranks : oracle[r].flag \in Nat
    BY DEF IInv, FlagCounts
  <2>2. \A r \in Ranks : oracle[r].flag <= oracle[r].flag
    BY <2>1
  <2>3. QED
    BY <2>1, <2>2, FlagsStay DEF Quiet
<1>2. PassedTest'
  BY TestStays
<1>3. QED
  BY <1>1, <1>2, KeepsIfGood DEF Quiet

\* A thread that stays where it is, stops, or executes an instruction.
LEMMA StaysQuiet ==
  ASSUME NEW p \in Procs, ThreadInv(p), job' = job, DOMAIN th'[p] = Fields, th'[p].in \in BOOLEAN,
         th'[p].at = th[p].at, th'[p].item = th[p].item, th'[p].step = th[p].step, th'[p].now = th[p].now,
         th'[p].before = th[p].before
  PROVE  Quiet(p)
<1>1. CodeOf(p)' = CodeOf(p) /\ ItemCode(p)' = ItemCode(p) /\ Op(p)' = Op(p) /\ (Finished(p)' <=> Finished(p))
  BY DEF CodeOf, ItemCode, Op, Finished
<1>2. ThreadInv(p)'
  BY <1>1 DEF ThreadInv, AtStart, AtCode, AtItem
<1>3. QED
  BY <1>1, <1>2 DEF Quiet, OpensNone, IsOpenAt

LEMMA StopQuiet ==
  ASSUME NEW p \in Procs, ThreadInv(p), job' = job, th'[p] = [th[p] EXCEPT !.now = Blank]
  PROVE  Quiet(p)
<1>1. /\ DOMAIN th'[p] = Fields /\ th'[p].in = th[p].in /\ th'[p].at = th[p].at /\ th'[p].item = th[p].item
      /\ th'[p].step = th[p].step /\ th'[p].now = Blank
  BY DEF ThreadInv, Fields
<1>2. Finished(p)' /\ CodeOf(p)' = CodeOf(p)
  BY <1>1 DEF Finished, Op, Blank, CodeOf
<1>3. ThreadInv(p)'
  BY <1>1, <1>2 DEF ThreadInv
<1>4. QED
  BY <1>2, <1>3 DEF Quiet, OpensNone, IsOpenAt

\* t is what the thread is after its instruction.
Follows(t, p) ==
  LET a == Advance(p)
  IN /\ DOMAIN t = Fields /\ t.in = a.in /\ t.at = a.at /\ t.item = a.item /\ t.step = a.step /\ t.now = a.now

LEMMA AdvanceQuiet ==
  ASSUME NEW p \in Procs, IsProgram(CodeOf(p)), ThreadInv(p), ~Finished(p), job' = job, Follows(th'[p], p),
         Op(p).op \notin {"capture", "count"}
  PROVE  Quiet(p)
<1>1. th'[p].in \in BOOLEAN
  BY AdvanceFields DEF Follows, ThreadInv
<1>2. ThreadInv(p)' /\ \A d \in Depths : IsOpenAt(p, d)' => IsOpenAt(p, d)
  BY <1>1, ThreadAdvances DEF Follows
<1>3. QED
  BY <1>2 DEF Quiet, OpensNone

\* One thread executes an instruction.
LEMMA OneAdvances ==
  ASSUME IInv, NEW p \in Procs, NEW t, job' = job, ~Finished(p), Op(p).op \notin {"capture", "count"},
         Follows(t, p), th' = [th EXCEPT ![p] = t]
  PROVE  DOMAIN th' = Procs /\ \A q \in Procs : Quiet(q)
<1>1. DOMAIN th = Procs /\ \A q \in Procs : ThreadInv(q) /\ IsProgram(CodeOf(q))
  BY DEF IInv, Typed, Programs
<1>2. DOMAIN th' = Procs /\ th'[p] = t /\ \A q \in Procs : q # p => th'[q] = th[q]
  BY <1>1
<1>3. Quiet(p)
  BY <1>1, <1>2, AdvanceQuiet
<1>4. ASSUME NEW q \in Procs, q # p PROVE Quiet(q)
  BY <1>1, <1>2, <1>4, StaysQuiet DEF ThreadInv
<1>5. QED
  BY <1>2, <1>3, <1>4

LEMMA AdvanceFollows ==
  ASSUME IInv, NEW p \in Procs
  PROVE  Follows(Advance(p), p)
BY AdvanceFields DEF Follows, IInv, ThreadInv

\* ... and changes no counter.
LEMMA QuietInstruction ==
  ASSUME IInv, NEW p \in Procs, NEW t, job' = job, ~Finished(p), Op(p).op \notin {"capture", "count"},
         Follows(t, p), th' = [th EXCEPT ![p] = t], oracle' = oracle,
         TeamTyped', ResultsTyped', seen' \in SUBSET Misuses
  PROVE  IInv'
<1>1. DOMAIN th' = Procs /\ \A q \in Procs : Quiet(q)
  BY OneAdvances
<1>2. Typed'
  BY <1>1 DEF IInv, Typed, OracleTyped
<1>3. QED
  BY <1>1, <1>2, QuietKeeps

\* The common case.
LEMMA PlainInstruction ==
  ASSUME IInv, NEW p \in Procs, job' = job, Op(p).op \notin {"none", "capture", "count"},
         th' = [th EXCEPT ![p] = Advance(p)], oracle' = oracle,
         TeamTyped', ResultsTyped', seen' \in SUBSET Misuses
  PROVE  IInv'
BY AdvanceFollows, QuietInstruction DEF Finished
-----------------------------------------------------------------------------
(***************************************************************************)
(* MPI_Init_thread, and OpenMP.                                            *)
(***************************************************************************)
LEMMA BeginKeeps ==
  ASSUME IInv, NEW r \in Ranks, Begin(r) PROVE IInv'
<1>1. <<r, 0>> \in Procs /\ Op(<<r, 0>>).op = "init"
  BY DEF Begin, Starting, Procs, Tids, NUM_THREADS
<1>2. TeamTyped' /\ ResultsTyped' /\ seen' \in SUBSET Misuses
  BY DEF Begin, IInv, Typed, TeamTyped, ResultsTyped, results
<1>3. QED
  BY <1>1, <1>2, PlainInstruction DEF Begin

LEMMA StopKeeps ==
  ASSUME IInv, NEW r \in Ranks, job' = job, StopRank(r), oracle' = oracle,
         TeamTyped', ResultsTyped', seen' \in SUBSET Misuses
  PROVE  IInv'
<1>1. DOMAIN th' = Procs
  BY DEF StopRank
<1>2. ASSUME NEW p \in Procs PROVE Quiet(p)
  <2>1. ThreadInv(p)
    BY DEF IInv
  <2>2. th'[p] = [th[p] EXCEPT !.now = Blank] \/ th'[p] = th[p]
    BY DEF StopRank
  <2>3. QED
    BY <2>1, <2>2, StopQuiet, StaysQuiet DEF ThreadInv
<1>3. Typed'
  BY <1>1 DEF IInv, Typed, OracleTyped
<1>4. QED
  BY <1>2, <1>3, QuietKeeps

LEMMA GiveUpKeeps ==
  ASSUME IInv, NEW r \in Ranks, GiveUp(r) \/ KilledByAbort(r) PROVE IInv'
<1>1. job' = job /\ StopRank(r) /\ oracle' = oracle /\ team' = team /\ seen' = seen
  BY DEF GiveUp, KilledByAbort
<1>2. \/ verdicts' = [verdicts EXCEPT ![r] = @ \cup {FALSE}] /\ files' = files \cup {r}
      \/ verdicts' = verdicts /\ files' = files
  BY DEF GiveUp, KilledByAbort, results
<1>3. ResultsTyped'
  BY <1>2 DEF IInv, Typed, ResultsTyped
<1>4. TeamTyped' /\ seen' \in SUBSET Misuses
  BY <1>1 DEF IInv, Typed, TeamTyped
<1>5. QED
  BY <1>1, <1>3, <1>4, StopKeeps

\* The whole team goes on at once.
LEMMA MeetKeeps ==
  ASSUME IInv, NEW r \in Ranks, Meet(r) PROVE IInv'
<1>1. /\ \A t \in Tids : Op(<<r, t>>).op \in Meets
      /\ th' = [p \in Procs |-> IF p[1] = r THEN Advance(p) ELSE th[p]]
      /\ team' = [team EXCEPT ![r].forked = TRUE]
      /\ job' = job /\ oracle' = oracle /\ verdicts' = verdicts /\ files' = files /\ seen' = seen
  BY DEF Meet, results
<1>2. ASSUME NEW p \in Procs PROVE Quiet(p)
  <2>1. ThreadInv(p) /\ IsProgram(CodeOf(p))
    BY DEF IInv, Programs
  <2>2. CASE p[1] = r
    <3>1. p = <<r, p[2]>> /\ p[2] \in Tids
      BY <2>2 DEF Procs
    <3>2. Op(p).op \in Meets
      BY <1>1, <3>1
    <3>3. Follows(th'[p], p)
      BY <1>1, <2>2, AdvanceFollows
    <3>4. QED
      BY <1>1, <2>1, <3>2, <3>3, AdvanceQuiet DEF Finished, Meets
  <2>3. CASE p[1] # r
    BY <1>1, <2>1, <2>3, StaysQuiet DEF ThreadInv
  <2>4. QED
    BY <2>2, <2>3
<1>3. Typed'
  <2>1. TeamTyped'
    BY <1>1 DEF IInv, Typed, TeamTyped
  <2>2. QED
    BY <1>1, <2>1 DEF IInv, Typed, OracleTyped, ResultsTyped
<1>4. QED
  BY <1>1, <1>2, <1>3, QuietKeeps

\* An item is entered at its first instruction.
LEMMA TakeKeeps ==
  ASSUME IInv, NEW p \in Procs, Take(p) PROVE IInv'
<1> DEFINE work == Op(p)
           cs == CodeOf(p)
<1>1. PICK i \in DOMAIN work.items :
        /\ th' = [th EXCEPT ![p].item = <<work.tag, i>>, ![p].now = Nth(work.items[i].code, 1)]
        /\ team' = [team EXCEPT ![p[1]].taken = @ \cup {<<work.tag, i>>}]
  BY DEF Take
<1>2. work.op = "work" /\ job' = job /\ oracle' = oracle /\ verdicts' = verdicts /\ files' = files /\ seen' = seen
  BY DEF Take, results
<1>3. ThreadInv(p) /\ IsProgram(cs) /\ ~Finished(p) /\ p[1] \in Ranks /\ DOMAIN th = Procs
  BY <1>2 DEF IInv, Typed, Programs, Finished, Procs
<1>4. AtCode(p) /\ th[p].step = 1
  <2>1. ~AtStart(p)
    BY <1>2 DEF AtStart
  <2>2. ~AtItem(p)
    BY <1>2, <1>3, AtInstruction
  <2>3. QED
    BY <1>3, <2>1, <2>2, AtInstruction DEF ThreadInv
<1>5. th[p].item = NoItem /\ th[p].at \in DOMAIN cs /\ work = cs[th[p].at]
  BY <1>4 DEF AtCode
<1>6. <<work.tag, i>> # NoItem
  <2>1. work.items \in Seq(Range(work.items))
    BY <1>2, <1>3, <1>5 DEF IsProgram
  <2>2. i # 0
    BY <2>1
  <2>3. QED
    BY <2>2 DEF NoItem
<1> DEFINE item == <<work.tag, i>>
           first == Nth(work.items[i].code, 1)
<1>7. item[2] = i
  OBVIOUS
<1>8. /\ DOMAIN th' = Procs /\ DOMAIN th'[p] = Fields
      /\ th'[p].in = th[p].in /\ th'[p].at = th[p].at /\ th'[p].step = 1 /\ th'[p].item = item
      /\ th'[p].now = first
      /\ \A q \in Procs : q # p => th'[q] = th[q]
  <2>1. DOMAIN th[p] = Fields
    BY <1>3 DEF ThreadInv
  <2>2. th' = [th EXCEPT ![p].item = item, ![p].now = first]
    BY <1>1
  <2> HIDE DEF item, first
  <2>3. QED
    BY <1>3, <1>4, <2>1, <2>2 DEF Fields
<1> HIDE DEF item, first
<1>9. CodeOf(p)' = cs /\ ItemCode(p)' = work.items[i].code
  BY <1>2, <1>5, <1>7, <1>8 DEF CodeOf, ItemCode
<1>10. Quiet(p)
  <2>1. first.op # "none" => 1 \in DOMAIN work.items[i].code /\ first = work.items[i].code[1]
    BY NthIs DEF first
  <2>2. ~Finished(p)' => AtItem(p)'
    BY <1>2, <1>5, <1>6, <1>7, <1>8, <1>9, <2>1 DEF AtItem, Finished, Op, item
  <2>3. ThreadInv(p)'
    BY <1>3, <1>6, <1>8, <1>9, <2>2 DEF ThreadInv, item
  <2>4. IsOpenAt(p, "code")' => IsOpenAt(p, "code")
    BY <1>3, <1>8, <1>9 DEF IsOpenAt
  <2>5. ~IsOpenAt(p, "item")'
    BY <1>8, InsideFirst DEF IsOpenAt
  <2>6. QED
    BY <1>2, <2>3, <2>4, <2>5 DEF Quiet, OpensNone, Depths
<1>11. \A q \in Procs : Quiet(q)
  <2>1. ASSUME NEW q \in Procs, q # p PROVE Quiet(q)
    BY <1>2, <1>8, <2>1, StaysQuiet DEF IInv, ThreadInv
  <2>2. QED
    BY <1>10, <2>1
<1>12. Typed'
  <2>1. TeamTyped'
    BY <1>1, <1>3 DEF IInv, Typed, TeamTyped
  <2>2. QED
    BY <1>2, <1>8, <2>1 DEF IInv, Typed, OracleTyped, ResultsTyped
<1>13. QED
  BY <1>2, <1>11, <1>12, QuietKeeps

\* Instructions that change the memory or the lock of a rank.
Raced(p) == {f \in {"race"} : Races(p)}

LEMMA SeenGrows ==
  ASSUME IInv, NEW S, S \subseteq Misuses, seen' = seen \cup S
  PROVE  seen' \in SUBSET Misuses
BY DEF IInv, Typed

LEMMA RacedIsMisuse == ASSUME NEW p PROVE Raced(p) \subseteq Misuses
<1> DEFINE race == Races(p)
<1>1. Raced(p) = {f \in {"race"} : race}
  BY DEF Raced
<1> HIDE DEF race
<1>2. QED
  BY <1>1 DEF Misuses

LEMMA SharedKeeps ==
  ASSUME IInv, NEW p \in Procs, Pass(p) \/ Acquire(p) \/ Release(p) \/ Write(p) \/ Decide(p)
  PROVE  IInv'
<1>1. /\ job' = job /\ oracle' = oracle /\ verdicts' = verdicts /\ files' = files
      /\ th' = [th EXCEPT ![p] = Advance(p)]
  BY DEF Pass, Acquire, Release, Write, Decide, results
<1>2. Op(p).op \in {"work", "lock", "unlock", "store", "add", "judge"}
  BY DEF Pass, Acquire, Release, Write, Decide
<1>3. p[1] \in Ranks /\ p[2] \in Tids
  BY DEF Procs
<1>4. TeamTyped'
  <2>1. \E l \in Tids \cup {-1} : team' = [team EXCEPT ![p[1]].lock = l] \/ team' = team
    <3>1. CASE Acquire(p)
      BY <1>3, <3>1 DEF Acquire
    <3>2. CASE Release(p)
      BY <3>2 DEF Release
    <3>3. CASE Pass(p) \/ Write(p) \/ Decide(p)
      BY <3>3 DEF Pass, Write, Decide
    <3>4. QED
      BY <3>1, <3>2, <3>3
  <2>2. PICK l \in Tids \cup {-1} : team' = [team EXCEPT ![p[1]].lock = l] \/ team' = team
    BY <2>1
  <2>3. QED
    BY <1>3, <2>2 DEF IInv, Typed, TeamTyped
<1>5. ResultsTyped'
  BY <1>1 DEF IInv, Typed, ResultsTyped
<1>6. seen' \in SUBSET Misuses
  <2>1. seen' = seen \/ seen' = seen \cup Raced(p)
    BY DEF Pass, Acquire, Release, Write, Decide, Raced
  <2>2. QED
    BY <2>1, SeenGrows, RacedIsMisuse DEF IInv, Typed
<1>7. QED
  BY <1>1, <1>2, <1>4, <1>5, <1>6, PlainInstruction

\* The report.
LEMMA OutcomesAreBoolean == ASSUME NEW r, NEW cond PROVE Outcomes(r, cond) \subseteq BOOLEAN
<1> DEFINE A == \E l \in UNION cond : \E k \in DOMAIN l.cells : mem[r][<<l.buf, l.cells[k]>>] = Uninit
           B == \E clause \in cond : \A l \in clause : Holding(r, l)
<1>1. Outcomes(r, cond) = IF A THEN BOOLEAN ELSE {B}
  BY DEF Outcomes
<1>2. B \in BOOLEAN
  OBVIOUS
<1> HIDE DEF A, B
<1>3. QED
  BY <1>1, <1>2

LEMMA ReportKeeps ==
  ASSUME IInv, NEW p \in Procs, HasErrorManifested(p) PROVE IInv'
<1> DEFINE r == p[1]
           outcomes == Outcomes(r, Op(p).cond)
           late(m) == {f \in {"finalize"} : ~m /\ team[r].finalized}
<1>1. \E m \in outcomes : /\ verdicts' = [verdicts EXCEPT ![r] = @ \cup {m}]
                          /\ files' = files \cup {r} \/ files' = files
                          /\ seen' = seen \cup late(m)
  BY DEF HasErrorManifested
<1>2. outcomes \subseteq BOOLEAN
  BY OutcomesAreBoolean
<1>3. \A m : late(m) \subseteq Misuses
  BY DEF Misuses
<1> HIDE DEF outcomes, late
<1>4. PICK m \in BOOLEAN : /\ verdicts' = [verdicts EXCEPT ![r] = @ \cup {m}]
                           /\ files' = files \cup {r} \/ files' = files
                           /\ seen' = seen \cup late(m)
  BY <1>1, <1>2
<1>5. /\ job' = job /\ oracle' = oracle /\ team' = team
      /\ th' = [th EXCEPT ![p] = Advance(p)] /\ Op(p).op = "report"
  BY DEF HasErrorManifested
<1>6. seen' \in SUBSET Misuses
  BY <1>3, <1>4, SeenGrows
<1>7. r \in Ranks
  BY DEF Procs
<1>8. ResultsTyped'
  BY <1>4, <1>7 DEF IInv, Typed, ResultsTyped
<1>9. TeamTyped'
  BY <1>5 DEF IInv, Typed, TeamTyped
<1>10. QED
  BY <1>5, <1>6, <1>8, <1>9, PlainInstruction
-----------------------------------------------------------------------------
(***************************************************************************)
(* Calls of MPI, and the library.                                          *)
(***************************************************************************)
LEMMA FaultsAreMisuses == ASSUME NEW p PROVE CallFaults(p) \subseteq Misuses
<1> DEFINE i == Op(p)
           n == Len(coll[p[1]]) + 1
           a == \/ job.provided = SINGLE /\ team[p[1]].forked
                \/ job.provided = FUNNELED /\ p[2] # 0
                \/ job.provided < MULTIPLE /\ MatesInMpi(p) # {}
           b == i.op \in Collectives /\ \E q \in MatesInMpi(p) : Op(q).op \in Collectives
           c == \/ \E h \in i.uses : mem[p[1]][h] # 1
                \/ i.op \in {"use", "free"} /\ mem[p[1]][<<i.buf, i.cells[1]>>] # 1
           d == \/ team[p[1]].finalized
                \/ i.op = "finalize" /\ (p[2] # 0 \/ MatesInMpi(p) # {})
           e == /\ i.op \in Collectives /\ n \in DOMAIN coll[Other(p[1])]
                /\ ~Agree(Collective(NoCall, i), coll[Other(p[1])][n])
           g == Races(p)
<1>1. CallFaults(p) = {f \in {"level"} : a} \cup {f \in {"overlap"} : b} \cup {f \in {"handle"} : c}
                        \cup {f \in {"finalize"} : d} \cup {f \in {"mismatch"} : e} \cup {f \in {"race"} : g}
  BY DEF CallFaults
<1> HIDE DEF a, b, c, d, e, g
<1>2. QED
  BY <1>1 DEF Misuses

LEMMA UndefinedIsMisuse == ASSUME NEW data PROVE Undefined(data) \subseteq Misuses
BY DEF Undefined, Misuses

LEMMA EnterKeeps ==
  ASSUME IInv, NEW p \in Procs, Enter(p) PROVE IInv'
<1> DEFINE reg == IF Op(p).op = "wait" /\ Op(p).req \in DOMAIN reqs[p[1]] THEN reqs[p[1]][Op(p).req] ELSE th[p].reg
<1>1. /\ th' = [th EXCEPT ![p].in = TRUE, ![p].calls = @ + 1, ![p].reg = reg]
      /\ job' = job /\ oracle' = oracle /\ verdicts' = verdicts /\ files' = files
      /\ team' = [team EXCEPT ![p[1]].finalized = TRUE] \/ team' = team
  BY DEF Enter, results
<1> HIDE DEF reg
<1>2. DOMAIN th = Procs /\ ThreadInv(p) /\ p[1] \in Ranks
  BY DEF IInv, Typed, Procs
<1>3. /\ DOMAIN th' = Procs /\ DOMAIN th'[p] = Fields /\ th'[p].in = TRUE
      /\ th'[p].at = th[p].at /\ th'[p].item = th[p].item /\ th'[p].step = th[p].step
      /\ th'[p].now = th[p].now /\ th'[p].before = th[p].before
      /\ \A q \in Procs : q # p => th'[q] = th[q]
  BY <1>1, <1>2 DEF ThreadInv, Fields
<1>4. ASSUME NEW q \in Procs PROVE Quiet(q)
  BY <1>1, <1>3, StaysQuiet DEF IInv, ThreadInv
<1>5. seen' \in SUBSET Misuses
  <2>1. seen' = seen \cup CallFaults(p)
    BY DEF Enter
  <2>2. QED
    BY <2>1, FaultsAreMisuses, SeenGrows
<1>6. TeamTyped'
  BY <1>1, <1>2 DEF IInv, Typed, TeamTyped
<1>7. Typed'
  BY <1>1, <1>3, <1>5, <1>6 DEF IInv, Typed, OracleTyped, ResultsTyped
<1>8. QED
  BY <1>1, <1>4, <1>7, QuietKeeps

\* A thread leaves its call; MPI_Wait and MPI_Probe note something for it.
LEMMA FollowsWith ==
  ASSUME NEW p, NEW t, NEW x, Follows(t, p)
  PROVE  Follows([t EXCEPT !.reg = x], p) /\ Follows([t EXCEPT !.found = x], p)
BY DEF Follows, Fields

LEMMA LeaveMrecvSeen ==
  ASSUME IInv, NEW p, LeaveMrecv(p) PROVE seen' \in SUBSET Misuses
<1>1. \E data : seen' = seen \cup Undefined(data)
  BY DEF LeaveMrecv
<1>2. QED
  BY <1>1, UndefinedIsMisuse, SeenGrows

LEMMA LeaveKeeps ==
  ASSUME IInv, NEW p \in Procs, InsideCall(p) PROVE IInv'
<1>1. /\ job' = job /\ oracle' = oracle /\ verdicts' = verdicts /\ files' = files /\ team' = team
  BY DEF InsideCall, LeaveImmediate, LeaveBlocking, LeaveWait, LeaveProbe, LeaveMrecv, results
<1>2. \E t : Follows(t, p) /\ th' = [th EXCEPT ![p] = t]
  <2>1. Follows(Advance(p), p)
    BY AdvanceFollows
  <2>2. \/ th' = [th EXCEPT ![p] = Advance(p)]
        \/ th' = [th EXCEPT ![p] = [Advance(p) EXCEPT !.reg = NoCall]]
        \/ \E x : th' = [th EXCEPT ![p] = [Advance(p) EXCEPT !.found = x]]
    BY DEF InsideCall, LeaveImmediate, LeaveBlocking, LeaveWait, LeaveProbe, LeaveMrecv
  <2> DEFINE a == Advance(p)
  <2> HIDE DEF a
  <2>3. \/ th' = [th EXCEPT ![p] = a]
        \/ th' = [th EXCEPT ![p] = [a EXCEPT !.reg = NoCall]]
        \/ \E x : th' = [th EXCEPT ![p] = [a EXCEPT !.found = x]]
    BY <2>2 DEF a
  <2>4. Follows(a, p)
    BY <2>1 DEF a
  <2>5. QED
    BY <2>3, <2>4, FollowsWith
<1>3. Op(p).op \notin {"none", "capture", "count"}
  BY DEF InsideCall, LeaveImmediate, LeaveBlocking, LeaveWait, LeaveProbe, LeaveMrecv, Nonblocking, Blocking
<1>4. seen' \in SUBSET Misuses
  <2>1. CASE LeaveMrecv(p)
    BY <2>1, LeaveMrecvSeen
  <2>2. CASE LeaveWait(p)
    <3>1. seen' = seen \cup {"request"} \/ seen' = seen
      BY <2>2 DEF LeaveWait
    <3>2. QED
      BY <3>1 DEF IInv, Typed, Misuses
  <2>3. CASE LeaveImmediate(p) \/ LeaveBlocking(p) \/ LeaveProbe(p)
    BY <2>3 DEF LeaveImmediate, LeaveBlocking, LeaveProbe, IInv, Typed
  <2>4. QED
    BY <2>1, <2>2, <2>3 DEF InsideCall
<1>5. TeamTyped' /\ ResultsTyped'
  BY <1>1 DEF IInv, Typed, TeamTyped, ResultsTyped
<1>6. QED
  BY <1>1, <1>2, <1>3, <1>4, <1>5, QuietInstruction DEF Finished

\* A step in which no thread moves.
LEMMA NobodyMoves ==
  ASSUME IInv, job' = job, th' = th, team' = team, oracle' = oracle, verdicts' = verdicts, files' = files,
         seen' \in SUBSET Misuses
  PROVE  IInv'
<1>1. ASSUME NEW p \in Procs PROVE Quiet(p)
  BY StaysQuiet DEF IInv, ThreadInv
<1>2. Typed'
  BY DEF IInv, Typed, TeamTyped, OracleTyped, ResultsTyped
<1>3. QED
  BY <1>1, <1>2, QuietKeeps

LEMMA LibraryKeeps ==
  ASSUME IInv, LibraryStep PROVE IInv'
<1>1. ASSUME NEW r, NEW k, BufferSend(r, k) PROVE IInv'
  <2>1. seen' \in SUBSET Misuses
    BY <1>1, UndefinedIsMisuse, SeenGrows DEF BufferSend
  <2>2. QED
    BY <1>1, <2>1, NobodyMoves DEF BufferSend, results
<1>2. ASSUME NEW s, NEW d, NEW k, NEW l, Deliver(s, d, k, l) PROVE IInv'
  <2> DEFINE x == queue[s][k]
             y == queue[d][l]
             long == Len(x.cells) > Len(y.cells)
             data == IF long THEN SubSeq(Payload(s, x), 1, Len(y.cells)) ELSE Payload(s, x)
             stolen == y.meant \notin {NoCall, x.id}
  <2>1. seen' = seen \cup Undefined(data) \cup {f \in {"truncated"} : long} \cup {f \in {"stolen"} : stolen}
    BY <1>2 DEF Deliver
  <2>2. Undefined(data) \subseteq Misuses
    BY UndefinedIsMisuse
  <2> HIDE DEF long, data, stolen
  <2>3. seen' \in SUBSET Misuses
    BY <2>1, <2>2 DEF IInv, Typed, Misuses
  <2>4. QED
    BY <1>2, <2>3, NobodyMoves DEF Deliver, results
<1>3. ASSUME NEW r, NEW n, GoAhead(r, n) PROVE IInv'
  <2>1. seen' \in SUBSET Misuses
    BY <1>3, UndefinedIsMisuse, SeenGrows DEF GoAhead
  <2>2. QED
    BY <1>3, <2>1, NobodyMoves DEF GoAhead, results
<1>4. ASSUME NEW r, NEW n, Combine(r, n) PROVE IInv'
  <2>1. seen' = seen \/ \E data : seen' = seen \cup Undefined(data)
    BY <1>4 DEF Combine
  <2>2. seen' \in SUBSET Misuses
    BY <2>1, UndefinedIsMisuse, SeenGrows DEF IInv, Typed
  <2>3. QED
    BY <1>4, <2>2, NobodyMoves DEF Combine, results
<1>5. QED
  BY <1>1, <1>2, <1>3, <1>4 DEF LibraryStep
-----------------------------------------------------------------------------
(***************************************************************************)
(* The oracle.                                                             *)
(***************************************************************************)
\* Everything of the invariant that counting does not concern.
LEMMA OracleStep ==
  ASSUME IInv, NEW p \in Procs, NEW t, job' = job, ~Finished(p), Follows(t, p), th' = [th EXCEPT ![p] = t],
         OracleTyped', team' = team, verdicts' = verdicts, files' = files, seen' = seen
  PROVE  /\ Typed' /\ (\A q \in Procs : ThreadInv(q)')
         /\ \A q \in Procs : q # p => Quiet(q)
         /\ \A d \in Depths : IsOpenAt(p, d)' => IsOpenAt(p, d) \/ (Op(p).op = "capture" /\ d = Here(p))
         /\ Op(p).op = "end" => IsOpenAt(p, Here(p)) /\ \A d \in Depths : d = Here(p) => ~IsOpenAt(p, d)'
         /\ Op(p).op = "capture" => Op(p)'.op = "count"
<1>1. DOMAIN th = Procs /\ \A q \in Procs : ThreadInv(q) /\ IsProgram(CodeOf(q))
  BY DEF IInv, Typed, Programs
<1>2. DOMAIN th' = Procs /\ th'[p] = t /\ \A q \in Procs : q # p => th'[q] = th[q]
  BY <1>1
<1>3. \A q \in Procs : q # p => Quiet(q)
  BY <1>1, <1>2, StaysQuiet DEF ThreadInv
<1>4. th'[p].in \in BOOLEAN
  BY <1>1, <1>2, AdvanceFields DEF Follows, ThreadInv
<1>5. Typed'
  BY <1>2 DEF IInv, Typed, TeamTyped, ResultsTyped
<1>6. /\ ThreadInv(p)'
      /\ \A d \in Depths : IsOpenAt(p, d)' => IsOpenAt(p, d) \/ (Op(p).op = "capture" /\ d = Here(p))
      /\ Op(p).op = "end" => IsOpenAt(p, Here(p)) /\ \A d \in Depths : d = Here(p) => ~IsOpenAt(p, d)'
      /\ Op(p).op = "capture" => Op(p)'.op = "count"
  BY <1>1, <1>2, <1>4, ThreadAdvances DEF Follows
<1>7. QED
  BY <1>3, <1>5, <1>6 DEF Quiet

\* The brackets of the ranks whose threads do nothing.
LEMMA OtherRank ==
  ASSUME NEW p \in Procs, \A q \in Procs : q # p => Quiet(q), NEW r \in Ranks, r # p[1]
  PROVE  \A t \in Tids : OpensNone(<<r, t>>)
<1>1. ASSUME NEW t \in Tids PROVE <<r, t>> \in Procs /\ <<r, t>> # p
  BY DEF Procs
<1>2. QED
  BY <1>1 DEF Quiet

LEMMA CaptureKeeps ==
  ASSUME IInv, NEW p \in Procs, Capture(p) PROVE IInv'
<1> DEFINE r == p[1]
           t == [Advance(p) EXCEPT !.before = oracle[r].flag]
           b == <<p[2], Here(p)>>
<1>1. /\ Op(p).op = "capture" /\ ~Finished(p)
      /\ th' = [th EXCEPT ![p] = t] /\ oracle' = [oracle EXCEPT ![r].flag = @ + 1]
      /\ job' = job /\ team' = team /\ verdicts' = verdicts /\ files' = files /\ seen' = seen
  BY DEF Capture, results, Finished
<1>2. r \in Ranks /\ p[2] \in Tids /\ p = <<r, p[2]>>
  BY DEF Procs
<1>3. DOMAIN oracle = Ranks /\ DOMAIN th = Procs /\ \A s \in Ranks : /\ DOMAIN oracle[s] = Counters
                                                /\ oracle[s].flag \in Nat /\ oracle[s].overlap_count \in Nat
  BY DEF IInv, Typed, OracleTyped, FlagCounts
<1>4. /\ DOMAIN oracle' = Ranks /\ DOMAIN oracle'[r] = Counters /\ oracle'[r].flag = oracle[r].flag + 1
      /\ oracle'[r].overlap_count = oracle[r].overlap_count /\ \A s \in Ranks : s # r => oracle'[s] = oracle[s]
  BY <1>1, <1>2, <1>3 DEF Counters
<1>5. Follows(t, p) /\ t.before = oracle[r].flag
  <2> DEFINE a == Advance(p)
             n == oracle[r].flag
  <2>1. Follows(a, p) /\ DOMAIN a = Fields
    BY AdvanceFollows DEF Follows
  <2> HIDE DEF a, n
  <2>2. [a EXCEPT !.before = n].before = n /\ Follows([a EXCEPT !.before = n], p)
    BY <2>1 DEF Follows, Fields
  <2>3. QED
    BY <2>2 DEF a, n
<1>6. th'[p].before = oracle[r].flag
  BY <1>1, <1>3, <1>5
<1> HIDE DEF t
<1>7. OracleTyped'
  BY <1>3, <1>4 DEF OracleTyped
<1>8. /\ Typed' /\ (\A q \in Procs : ThreadInv(q)')
      /\ \A q \in Procs : q # p => Quiet(q)
      /\ \A d \in Depths : IsOpenAt(p, d)' => IsOpenAt(p, d) \/ d = Here(p)
      /\ Op(p)'.op = "count"
  BY <1>1, <1>5, <1>7, OracleStep
<1>9. FlagCounts'
  <2>1. ASSUME NEW s \in Ranks, s # r PROVE oracle'[s].flag \in Nat /\ Cardinality(Brackets(s)') <= oracle'[s].flag
    <3>1. \A u \in Tids : OpensNone(<<s, u>>)
      BY <1>8, <2>1, OtherRank
    <3>2. oracle'[s].flag \in Nat /\ oracle[s].flag <= oracle'[s].flag
      BY <1>3, <1>4, <2>1
    <3>3. QED
      BY <3>1, <3>2, FlagStays
  <2>2. Brackets(r)' \subseteq Brackets(r) \cup {b}
    <3>1. SUFFICES ASSUME NEW x \in Brackets(r)' PROVE x \in Brackets(r) \cup {b}
      OBVIOUS
    <3>2. PICK u \in Tids, d \in Depths : x = <<u, d>>
      BY BracketsArePairs
    <3>3. IsOpenAt(<<r, u>>, d)'
      BY <3>2, OpenMeansBracket
    <3>4. CASE u = p[2]
      BY <1>2, <1>8, <3>2, <3>3, <3>4, OpenMeansBracket
    <3>5. CASE u # p[2]
      <4>1. <<r, u>> \in Procs /\ <<r, u>> # p
        BY <1>2, <3>5 DEF Procs
      <4>2. IsOpenAt(<<r, u>>, d)
        BY <1>8, <3>3, <4>1 DEF Quiet, OpensNone
      <4>3. QED
        BY <3>2, <4>2, OpenMeansBracket
    <3>6. QED
      BY <3>4, <3>5
  <2> HIDE DEF b, r
  <2>3. Cardinality(Brackets(r)') <= Cardinality(Brackets(r)) + 1
    <3>1. /\ IsFiniteSet(Brackets(r)) /\ Cardinality(Brackets(r)) \in Nat
          /\ IsFiniteSet(Brackets(r)') /\ Cardinality(Brackets(r)') \in Nat
      BY BracketsFinite
    <3> DEFINE B == Brackets(r)
               C == Brackets(r)'
    <3>2. IsFiniteSet(B) /\ Cardinality(B) \in Nat /\ Cardinality(C) \in Nat /\ C \subseteq B \cup {b}
      BY <2>2, <3>1
    <3> HIDE DEF B, C
    <3>3. /\ IsFiniteSet(B \cup {b})
          /\ Cardinality(B \cup {b}) = Cardinality(B) \/ Cardinality(B \cup {b}) = Cardinality(B) + 1
      BY <3>2, FS_AddElement
    <3>4. Cardinality(C) <= Cardinality(B \cup {b})
      BY <3>2, <3>3, FS_Subset
    <3>5. Cardinality(C) <= Cardinality(B) + 1
      BY ONLY <3>2, <3>3, <3>4
    <3>6. QED
      BY <3>5 DEF B, C
  <2>4. Cardinality(Brackets(r)) <= oracle[r].flag
    BY <1>2 DEF IInv, FlagCounts, r
  <2>5. oracle'[r].flag \in Nat /\ Cardinality(Brackets(r)') <= oracle'[r].flag
    <3>1. oracle[r].flag \in Nat /\ oracle'[r].flag = oracle[r].flag + 1
      BY <1>2, <1>3, <1>4 DEF r
    <3>2. Cardinality(Brackets(r)) \in Nat /\ Cardinality(Brackets(r)') \in Nat
      BY BracketsFinite
    <3>3. QED
      BY ONLY <2>3, <2>4, <3>1, <3>2
  <2>6. QED
    BY <2>1, <2>5 DEF FlagCounts
\* Whoever is in brackets has been counted in flag, which p has read.
<1>10. ASSUME NEW q \in Procs, q[1] = r, q # p, InBracket(q)' PROVE th'[p].before # 0
  <2>1. PICK d \in Depths : IsOpenAt(q, d)
    BY <1>8, <1>10, InBracketIsOpen DEF Quiet, OpensNone
  <2>2. q = <<r, q[2]>> /\ q[2] \in Tids
    BY <1>10 DEF Procs
  <2>3. <<q[2], d>> \in Brackets(r)
    BY <2>1, <2>2, OpenMeansBracket
  <2> HIDE DEF r
  <2>4. Cardinality(Brackets(r)) # 0
    BY <2>3, BracketsFinite, FS_EmptySet
  <2>5. Cardinality(Brackets(r)) <= oracle[r].flag /\ oracle[r].flag \in Nat /\ Cardinality(Brackets(r)) \in Nat
    BY <1>2, BracketsFinite DEF IInv, FlagCounts, r
  <2>6. oracle[r].flag # 0
    BY ONLY <2>4, <2>5
  <2>7. QED
    BY <1>6, <2>6 DEF r
<1>11. PassedTest'
  <2>1. SUFFICES ASSUME NEW u \in Procs, NEW v \in Mates(u), InBracket(u)', InBracket(v)',
                        oracle'[u[1]].overlap_count = 0
                 PROVE  \E x \in {u, v} : Op(x)'.op = "count" /\ th'[x].before # 0
    BY DEF PassedTest, Mates
  <2>2. v \in Procs /\ v[1] = u[1] /\ u # v /\ u[1] \in Ranks
    BY DEF Mates, Procs
  <2>3. CASE u = p
    BY <1>8, <1>10, <2>1, <2>2, <2>3
  <2>4. CASE v = p
    BY <1>8, <1>10, <2>1, <2>2, <2>4
  <2>5. CASE u # p /\ v # p
    <3>1. oracle[u[1]].overlap_count = 0
      BY <1>4, <2>1, <2>2
    <3>2. QED
      BY <1>8, <2>1, <2>2, <2>5, <3>1, PairStays
  <2>6. QED
    BY <2>3, <2>4, <2>5
<1>12. QED
  BY <1>1, <1>8, <1>9, <1>11, KeepsIfGood

\* A thread counts if it has seen another; otherwise the other is still to count.
LEMMA CountKeeps ==
  ASSUME IInv, NEW p \in Procs, Count(p) PROVE IInv'
<1> DEFINE r == p[1]
           t == Advance(p)
<1>1. /\ Op(p).op = "count" /\ ~Finished(p)
      /\ th' = [th EXCEPT ![p] = t]
      /\ oracle' = IF th[p].before # 0 THEN [oracle EXCEPT ![r].overlap_count = @ + 1] ELSE oracle
      /\ job' = job /\ team' = team /\ verdicts' = verdicts /\ files' = files /\ seen' = seen
  BY DEF Count, results, Finished
<1>2. Follows(t, p) /\ r \in Ranks
  BY AdvanceFollows DEF Procs
<1>3. DOMAIN oracle = Ranks /\ \A s \in Ranks : /\ DOMAIN oracle[s] = Counters
                                                /\ oracle[s].flag \in Nat /\ oracle[s].overlap_count \in Nat
  BY DEF IInv, Typed, OracleTyped, FlagCounts
<1>4. /\ DOMAIN oracle' = Ranks
      /\ \A s \in Ranks : DOMAIN oracle'[s] = Counters /\ oracle'[s].flag = oracle[s].flag
      /\ \A s \in Ranks : s # r => oracle'[s] = oracle[s]
      /\ th[p].before = 0 => oracle'[r] = oracle[r]
      /\ th[p].before # 0 => oracle'[r].overlap_count = oracle[r].overlap_count + 1
  BY <1>1, <1>2, <1>3 DEF Counters
<1>5. OracleTyped' /\ \A s \in Ranks : oracle'[s].overlap_count = 0 => oracle[s].overlap_count = 0
  <2>1. \A s \in Ranks : \/ oracle'[s].overlap_count = oracle[s].overlap_count
                         \/ oracle'[s].overlap_count = oracle[s].overlap_count + 1
    BY <1>4
  <2>2. QED
    BY <1>3, <1>4, <2>1 DEF OracleTyped
<1>6. oracle'[r].overlap_count = 0 => th[p].before = 0
  BY <1>2, <1>3, <1>4
<1> HIDE DEF t
<1>7. /\ Typed' /\ (\A q \in Procs : ThreadInv(q)')
      /\ \A q \in Procs : q # p => Quiet(q)
      /\ \A q \in Procs : OpensNone(q)
  BY <1>1, <1>2, <1>5, OracleStep DEF Quiet, OpensNone
<1>8. FlagCounts'
  <2>1. \A s \in Ranks : oracle'[s].flag \in Nat /\ oracle[s].flag <= oracle'[s].flag
    BY <1>3, <1>4
  <2>2. QED
    BY <1>7, <2>1, FlagsStay
<1>9. PassedTest'
  <2>1. SUFFICES ASSUME NEW u \in Procs, NEW v \in Mates(u), InBracket(u)', InBracket(v)',
                        oracle'[u[1]].overlap_count = 0
                 PROVE  \E x \in {u, v} : Op(x)'.op = "count" /\ th'[x].before # 0
    BY DEF PassedTest, Mates
  <2>2. v \in Procs /\ v[1] = u[1] /\ u # v /\ u[1] \in Ranks
    BY DEF Mates, Procs
  <2>3. oracle[u[1]].overlap_count = 0
    BY <1>5, <2>1, <2>2
  <2>4. CASE u # p /\ v # p
    BY <1>7, <2>1, <2>2, <2>3, <2>4, PairStays
  <2>5. CASE u = p \/ v = p
    <3>1. InBracket(u) /\ InBracket(v)
      BY <1>7, <2>1, <2>2, InBracketIsOpen DEF OpensNone
    <3>2. PICK x \in {u, v} : Op(x).op = "count" /\ th[x].before # 0
      BY <2>3, <3>1 DEF IInv, PassedTest
    <3>3. x # p
      BY <1>6, <2>1, <2>2, <2>5, <3>2
    <3>4. Quiet(x) /\ ~Finished(x)'
      BY <1>7, <2>1, <2>2, <3>3 DEF InBracket
    <3>5. QED
      BY <3>2, <3>4 DEF Quiet
  <2>6. QED
    BY <2>4, <2>5
<1>10. QED
  BY <1>1, <1>7, <1>8, <1>9, KeepsIfGood

LEMMA EndKeeps ==
  ASSUME IInv, NEW p \in Procs, End(p) PROVE IInv'
<1> DEFINE r == p[1]
           t == Advance(p)
<1>1. /\ Op(p).op = "end" /\ ~Finished(p)
      /\ th' = [th EXCEPT ![p] = t] /\ oracle' = [oracle EXCEPT ![r].flag = @ - 1]
      /\ job' = job /\ team' = team /\ verdicts' = verdicts /\ files' = files /\ seen' = seen
  BY DEF End, results, Finished
<1>2. Follows(t, p) /\ r \in Ranks /\ p[2] \in Tids /\ p = <<r, p[2]>>
  BY AdvanceFollows DEF Procs
<1>3. DOMAIN oracle = Ranks /\ \A s \in Ranks : /\ DOMAIN oracle[s] = Counters
                                                /\ oracle[s].flag \in Nat /\ oracle[s].overlap_count \in Nat
  BY DEF IInv, Typed, OracleTyped, FlagCounts
<1>4. /\ DOMAIN oracle' = Ranks /\ DOMAIN oracle'[r] = Counters /\ oracle'[r].flag = oracle[r].flag - 1
      /\ oracle'[r].overlap_count = oracle[r].overlap_count /\ \A s \in Ranks : s # r => oracle'[s] = oracle[s]
  BY <1>1, <1>2, <1>3 DEF Counters
<1>5. OracleTyped'
  BY <1>3, <1>4 DEF OracleTyped
<1> HIDE DEF t
<1>6. PICK h \in Depths : h = Here(p)
  BY DEF Here, Depths
<1> DEFINE b == <<p[2], h>>
<1>7. Typed' /\ IsOpenAt(p, h) /\ ~IsOpenAt(p, h)'
  BY <1>1, <1>2, <1>5, <1>6, OracleStep
<1>8. \A q \in Procs : Quiet(q)
  BY <1>1, <1>2, OneAdvances
<1>9. FlagCounts'
  <2>1. ASSUME NEW s \in Ranks PROVE Brackets(s)' \subseteq Brackets(s)
    <3>1. \A u \in Tids : OpensNone(<<s, u>>)
      BY <1>8 DEF Quiet, Procs
    <3>2. QED
      BY <3>1, FewerBrackets
  <2>2. ASSUME NEW s \in Ranks, s # r PROVE oracle'[s].flag \in Nat /\ Cardinality(Brackets(s)') <= oracle'[s].flag
    <3>1. \A u \in Tids : OpensNone(<<s, u>>)
      BY <1>8 DEF Quiet, Procs
    <3>2. oracle'[s].flag \in Nat /\ oracle[s].flag <= oracle'[s].flag
      BY <1>3, <1>4, <2>2
    <3>3. QED
      BY <3>1, <3>2, FlagStays
  <2>3. b \in Brackets(r) /\ b \notin Brackets(r)'
    BY <1>2, <1>7, OpenMeansBracket
  <2>4. Brackets(r)' \subseteq Brackets(r)
    BY <1>2, <2>1
  <2>5. /\ IsFiniteSet(Brackets(r)) /\ Cardinality(Brackets(r)) \in Nat
        /\ IsFiniteSet(Brackets(r)') /\ Cardinality(Brackets(r)') \in Nat
    BY BracketsFinite
  <2>6. Cardinality(Brackets(r)') < Cardinality(Brackets(r))
    <3> DEFINE B == Brackets(r)
               C == Brackets(r)'
    <3>1. IsFiniteSet(B) /\ C \subseteq B /\ b \in B /\ b \notin C
      BY <2>3, <2>4, <2>5
    <3> HIDE DEF B, C, b
    <3>2. IsFiniteSet(B) /\ C \subseteq B /\ B # C
      BY <3>1
    <3>3. Cardinality(C) <= Cardinality(B) /\ Cardinality(C) # Cardinality(B)
      BY ONLY <3>2, FS_Subset
    <3>4. Cardinality(C) \in Nat /\ Cardinality(B) \in Nat
      BY <2>5 DEF B, C
    <3>5. Cardinality(C) < Cardinality(B)
      BY ONLY <3>3, <3>4
    <3>6. QED
      BY <3>5 DEF B, C
  <2>7. Cardinality(Brackets(r)) <= oracle[r].flag /\ oracle[r].flag \in Nat /\ oracle'[r].flag = oracle[r].flag - 1
    BY <1>2, <1>4 DEF IInv, FlagCounts
  <2>8. oracle'[r].flag \in Nat /\ Cardinality(Brackets(r)') <= oracle'[r].flag
    BY ONLY <2>5, <2>6, <2>7
  <2>9. QED
    BY <2>2, <2>8 DEF FlagCounts
<1>10. PassedTest'
  BY <1>4, <1>8, TestStays
<1>11. QED
  BY <1>1, <1>7, <1>8, <1>9, <1>10, KeepsIfGood DEF Quiet

LEMMA TakeFlagKeeps ==
  ASSUME IInv, NEW p \in Procs, TakeFlag(p) PROVE IInv'
<1> DEFINE r == p[1]
           t == Advance(p)
           buf == Op(p).buf
           n == oracle[r].flag
<1>1. /\ Op(p).op = "take" /\ ~Finished(p)
      /\ th' = [th EXCEPT ![p] = t] /\ oracle' = [oracle EXCEPT ![r][buf] = n, ![r].flag = @ + 1]
      /\ job' = job /\ team' = team /\ verdicts' = verdicts /\ files' = files /\ seen' = seen
  BY DEF TakeFlag, results, Finished
<1>2. Follows(t, p) /\ r \in Ranks
  BY AdvanceFollows DEF Procs
<1>3. DOMAIN oracle = Ranks /\ \A s \in Ranks : /\ DOMAIN oracle[s] = Counters
                                                /\ oracle[s].flag \in Nat /\ oracle[s].overlap_count \in Nat
  BY DEF IInv, Typed, OracleTyped, FlagCounts
<1>4. buf \in {"before_a", "after_a", "before_b", "after_b"}
  BY <1>1, AtInstruction DEF IInv, Programs
<1> HIDE DEF t, buf, n
<1>5. /\ DOMAIN oracle' = Ranks /\ DOMAIN oracle'[r] = Counters /\ oracle'[r].flag = oracle[r].flag + 1
      /\ oracle'[r].overlap_count = oracle[r].overlap_count /\ \A s \in Ranks : s # r => oracle'[s] = oracle[s]
  BY <1>1, <1>2, <1>3, <1>4 DEF Counters
<1>6. OracleTyped'
  BY <1>3, <1>5 DEF OracleTyped
<1>7. Typed' /\ \A q \in Procs : Quiet(q)
  BY <1>1, <1>2, <1>6, OneAdvances, OracleStep
<1>8. FlagCounts'
  <2>1. \A s \in Ranks : oracle'[s].flag \in Nat /\ oracle[s].flag <= oracle'[s].flag
    BY <1>3, <1>5
  <2>2. QED
    BY <1>7, <2>1, FlagsStay DEF Quiet
<1>9. PassedTest'
  BY <1>5, <1>7, TestStays
<1>10. QED
  BY <1>1, <1>7, <1>8, <1>9, KeepsIfGood DEF Quiet
-----------------------------------------------------------------------------
(***************************************************************************)
(* The invariant, and what follows from it.                                *)
(***************************************************************************)
LEMMA ThreadsInitially ==
  ASSUME Init
  PROVE  th = [p \in Procs |-> [at |-> p[2], item |-> NoItem, step |-> 1, in |-> FALSE,
                               now |-> IF p[2] = 0 THEN InitThread ELSE Nth(CodeOf(p), 1),
                               calls |-> 0, reg |-> NoCall, found |-> NoRecord, before |-> 0]]
<1>1. PICK m \in DOMAIN Program : \E l :
        /\ job = [name |-> m, level |-> Program[m].level, checks |-> Program[m].checks,
                  signals |-> Program[m].signals, label |-> Program[m].label,
                  code |-> Program[m].code, provided |-> l]
        /\ th = [p \in Procs |-> [at |-> p[2], item |-> NoItem, step |-> 1, in |-> FALSE,
                                  now |-> IF p[2] = 0 THEN InitThread ELSE Nth(Program[m].code[p[1]][1], 1),
                                  calls |-> 0, reg |-> NoCall, found |-> NoRecord, before |-> 0]]
  BY DEF Init
<1>2. \A p \in Procs : p[2] # 0 => p[2] = 1
  BY DEF Procs, Tids, NUM_THREADS
<1>3. \A p \in Procs : p[2] # 0 => CodeOf(p) = Program[m].code[p[1]][1]
  BY <1>1, <1>2 DEF CodeOf
<1>4. QED
  BY <1>1, <1>3

LEMMA Initially == Init => IInv
<1> SUFFICES ASSUME Init PROVE IInv
  OBVIOUS
<1>1. PICK n \in DOMAIN Program : \E l \in {Program[n].level, Program[n].level - 1} \cap (SINGLE..MULTIPLE) :
        job = [name |-> n, level |-> Program[n].level, checks |-> Program[n].checks,
               signals |-> Program[n].signals, label |-> Program[n].label,
               code |-> Program[n].code, provided |-> l]
  BY DEF Init
<1>2. job.name \in DOMAIN Program /\ job.provided \in SINGLE..MULTIPLE /\ job.code = Program[job.name].code
  BY <1>1
<1>3. th = [p \in Procs |-> [at |-> p[2], item |-> NoItem, step |-> 1, in |-> FALSE,
                             now |-> IF p[2] = 0 THEN InitThread ELSE Nth(CodeOf(p), 1),
                             calls |-> 0, reg |-> NoCall, found |-> NoRecord, before |-> 0]]
  BY ThreadsInitially
<1>4. Programs
  BY <1>2, ProgramAssumption DEF Programs, IsTeam, CodeOf, Procs
<1>5. ASSUME NEW p \in Procs PROVE ThreadInv(p) /\ \A d \in Depths : ~IsOpenAt(p, d)
  <2> DEFINE cs == CodeOf(p)
             first == IF p[2] = 0 THEN InitThread ELSE Nth(cs, 1)
  <2>1. /\ DOMAIN th[p] = Fields /\ th[p].at = p[2] /\ th[p].item = NoItem /\ th[p].step = 1 /\ th[p].in = FALSE
        /\ th[p].now = first
    BY <1>3 DEF Fields
  <2>2. p[2] \in {0, 1} /\ Len(cs) \in Nat /\ DOMAIN cs = 1..Len(cs)
    BY <1>4, Lists DEF Procs, Tids, NUM_THREADS, Programs, IsProgram
  <2>3. th[p].at \in 0..(Len(cs) + 1)
    <3> HIDE DEF cs
    <3>1. QED
      BY <2>1, <2>2
  <2>4. p[2] = 0 => AtStart(p)
    BY <2>1 DEF AtStart, Op, InitThread, Blank
  <2>5. p[2] = 1 /\ ~Finished(p) => AtCode(p)
    BY <2>1, NthIs DEF AtCode, Op, Finished
  <2>6. ThreadInv(p)
    BY <2>1, <2>2, <2>3, <2>4, <2>5 DEF ThreadInv
  <2>7. \A d \in Depths : ~IsOpenAt(p, d)
    <3>1. ~Inside(cs, th[p].at)
      BY <2>1, <2>2, InsideFirst
    <3>2. QED
      BY <2>1, <3>1 DEF IsOpenAt
  <2>8. QED
    BY <2>6, <2>7
<1>6. \A r \in Ranks : Brackets(r) = {}
  <2>1. SUFFICES ASSUME NEW r \in Ranks, NEW b \in Brackets(r) PROVE FALSE
    OBVIOUS
  <2>2. PICK t \in Tids, d \in Depths : b = <<t, d>>
    BY BracketsArePairs
  <2>3. IsOpenAt(<<r, t>>, d) /\ <<r, t>> \in Procs
    BY <2>2, OpenMeansBracket DEF Procs
  <2>4. QED
    BY <1>5, <2>3
<1>7. FlagCounts
  <2>1. \A r \in Ranks : oracle[r].flag = 0
    BY DEF Init
  <2>2. QED
    BY <1>6, <2>1, FS_EmptySet DEF FlagCounts
<1>8. PassedTest
  <2>1. \A p \in Procs : ~InBracket(p)
    BY <1>5, InBracketIsOpen
  <2>2. QED
    BY <2>1 DEF PassedTest
<1>9. Typed
  <2>1. TeamTyped /\ OracleTyped
    BY DEF Init, TeamTyped, OracleTyped, Counters
  <2>2. ResultsTyped /\ seen \in SUBSET Misuses
    BY DEF Init, ResultsTyped
  <2>3. DOMAIN th = Procs
    BY <1>3
  <2>4. QED
    BY <1>2, <2>1, <2>2, <2>3 DEF Typed
<1>10. QED
  BY <1>4, <1>5, <1>7, <1>8, <1>9 DEF IInv

LEMMA ThreadKeeps ==
  ASSUME IInv, NEW p \in Procs, ThreadStep(p) PROVE IInv'
BY TakeKeeps, SharedKeeps, EnterKeeps, LeaveKeeps, CaptureKeeps, CountKeeps, EndKeeps, TakeFlagKeeps, ReportKeeps
   DEF ThreadStep, OutsideCalls

LEMMA Kept == IInv /\ [Next]_vars => IInv'
<1> SUFFICES ASSUME IInv, [Next]_vars PROVE IInv'
  OBVIOUS
<1>1. ASSUME NEW r \in Ranks, GiveUp(r) \/ KilledByAbort(r) \/ Begin(r) \/ Meet(r) PROVE IInv'
  BY <1>1, GiveUpKeeps, BeginKeeps, MeetKeeps
<1>2. CASE UNCHANGED vars
  <2>1. seen' \in SUBSET Misuses
    BY <1>2 DEF vars, IInv, Typed
  <2>2. QED
    BY <1>2, <2>1, NobodyMoves DEF vars, results
<1>3. QED
  BY <1>1, <1>2, ThreadKeeps, LibraryKeeps DEF Next, Exited

\* The inductive invariant holds of every reachable state.
LEMMA Invariance == Spec => []IInv
<1>1. Init => IInv
  BY Initially
<1>2. IInv /\ [Next]_vars => IInv'
  BY Kept
<1>3. QED
  BY <1>1, <1>2, PTL DEF Spec

(* Whatever the cases are, every state of a run is of the intended types: a   *)
(* thread is at a place of its code, and flag never falls below zero.         *)
THEOREM TypeCorrect == Spec => []TypeOK
<1>1. IInv => TypeOK
  BY DEF IInv, Typed, TeamTyped, OracleTyped, ResultsTyped, FlagCounts, ThreadInv, TypeOK
<1>2. QED
  BY <1>1, Invariance, PTL

LEMMA OverlapsAreCounted ==
  ASSUME IInv PROVE NoOverlapUncounted
<1>1. SUFFICES ASSUME NEW p \in Procs, NEW q \in Mates(p), \A u \in {p, q} : InBracket(u) /\ Op(u).op # "count",
                      oracle[p[1]].overlap_count = 0
               PROVE  FALSE
  BY DEF NoOverlapUncounted
<1>2. \E u \in {p, q} : Op(u).op = "count" /\ th[u].before # 0
  BY <1>1 DEF IInv, PassedTest
<1>3. QED
  BY <1>1, <1>2

(* Whatever two threads of a rank do, they are not both past the test of      *)
(* CHECK_OVERLAP_BEGIN and before CHECK_OVERLAP_END with overlap_count at     *)
(* zero: the flag that the later one captures counts the earlier.             *)
THEOREM NoOverlapMissed == Spec => []NoOverlapUncounted
<1>1. IInv => NoOverlapUncounted
  BY OverlapsAreCounted
<1>2. QED
  BY <1>1, Invariance, PTL
-----------------------------------------------------------------------------
(***************************************************************************)
(* The meetings of the team in the code of a thread.                       *)
(***************************************************************************)
MeetsUpTo(cs, n) == {i \in 1..n : cs[i].op \in Meets}

LEMMA MeetsFinite ==
  ASSUME NEW cs, NEW n \in Int
  PROVE  IsFiniteSet(MeetsUpTo(cs, n)) /\ Cardinality(MeetsUpTo(cs, n)) \in Nat
<1>1. IsFiniteSet(1..n)
  BY FS_Interval
<1>2. MeetsUpTo(cs, n) \subseteq 1..n
  BY DEF MeetsUpTo
<1>3. QED
  BY <1>1, <1>2, FS_Subset, FS_CardinalityType

LEMMA MeetsCounted ==
  ASSUME NEW cs, NEW k \in Int
  PROVE  MeetsBefore(cs, k) = Cardinality(MeetsUpTo(cs, k - 1)) /\ MeetsBefore(cs, k) \in Nat
<1>1. MeetsBefore(cs, k) = Cardinality(MeetsUpTo(cs, k - 1))
  BY DEF MeetsBefore, MeetsUpTo
<1>2. QED
  BY <1>1, MeetsFinite

LEMMA MeetsNext ==
  ASSUME NEW cs, NEW k \in Nat, k > 0
  PROVE  /\ cs[k].op \in Meets => MeetsBefore(cs, k + 1) = MeetsBefore(cs, k) + 1
         /\ cs[k].op \notin Meets => MeetsBefore(cs, k + 1) = MeetsBefore(cs, k)
<1> DEFINE m(i) == cs[i].op \in Meets
           A == MeetsUpTo(cs, k - 1)
           B == MeetsUpTo(cs, k)
<1>1. MeetsBefore(cs, k) = Cardinality(A) /\ MeetsBefore(cs, k + 1) = Cardinality(B)
  <2>1. k + 1 - 1 = k
    OBVIOUS
  <2>2. QED
    BY <2>1, MeetsCounted
<1>2. IsFiniteSet(A) /\ k \notin A
  BY MeetsFinite DEF MeetsUpTo
<1>3. A = {i \in 1..(k - 1) : m(i)} /\ B = {i \in 1..k : m(i)}
  BY DEF MeetsUpTo
<1> HIDE DEF m
<1>4. (m(k) => B = A \cup {k}) /\ (~m(k) => B = A)
  BY <1>3
<1> HIDE DEF A, B
<1>5. m(k) => Cardinality(B) = Cardinality(A) + 1
  BY <1>2, <1>4, FS_AddElement
<1>6. QED
  BY <1>1, <1>4, <1>5 DEF m

LEMMA MeetsGrow ==
  ASSUME NEW cs, NEW k \in Nat, NEW l \in Nat, k <= l
  PROVE  MeetsBefore(cs, k) <= MeetsBefore(cs, l)
<1>1. MeetsUpTo(cs, k - 1) \subseteq MeetsUpTo(cs, l - 1)
  BY DEF MeetsUpTo
<1>2. QED
  BY <1>1, MeetsFinite, MeetsCounted, FS_Subset

LEMMA MeetsNone == \A cs : MeetsBefore(cs, 0) = 0 /\ MeetsBefore(cs, 1) = 0
<1>1. \A cs : {i \in 1..(0 - 1) : cs[i].op \in Meets} = {} /\ {i \in 1..(1 - 1) : cs[i].op \in Meets} = {}
  OBVIOUS
<1>2. QED
  BY <1>1, FS_EmptySet DEF MeetsBefore
-----------------------------------------------------------------------------
(***************************************************************************)
(* Where a thread is exactly: every instruction of its code, or of the     *)
(* item it is in, comes after the one before.                              *)
(***************************************************************************)
Strand(p) == IF th[p].item = NoItem THEN CodeOf(p) ELSE ItemCode(p)
Spot(p) == IF th[p].item = NoItem THEN th[p].at ELSE th[p].step

HoldsLock(p) ==
  /\ ~Finished(p)
  /\ Locked(CodeOf(p), th[p].at) \/ (th[p].item # NoItem /\ Locked(ItemCode(p), th[p].step))

LEMMA ItemIsCode ==
  ASSUME NEW p \in Procs, IsProgram(CodeOf(p)), AtItem(p)
  PROVE  /\ IsCode(ItemCode(p)) /\ ItemCode(p) # <<>>
         /\ \A j \in DOMAIN ItemCode(p) : ItemCode(p)[j].op \notin Meets \cup {"work", "report"}
         /\ ~Inside(CodeOf(p), th[p].at) /\ ~Locked(CodeOf(p), th[p].at)
<1>1. th[p].at \in DOMAIN CodeOf(p) /\ CodeOf(p)[th[p].at].op = "work"
  BY DEF AtItem
<1>2. /\ IsCode(ItemCode(p)) /\ ItemCode(p) # <<>>
      /\ \A j \in DOMAIN ItemCode(p) : ItemCode(p)[j].op \notin Meets \cup {"work", "report"}
  BY DEF AtItem, IsProgram, ItemCode
<1>3. QED
  BY <1>1, <1>2 DEF IsProgram, IsCode

LEMMA WhereItIs ==
  ASSUME NEW p \in Procs, IsProgram(CodeOf(p)), ThreadInv(p), ~Finished(p)
  PROVE  /\ IsCode(Strand(p)) /\ Spot(p) \in Nat /\ Len(Strand(p)) \in Nat
         /\ Op(p).op # "init" \/ ~AtStart(p) => Spot(p) > 0 /\ Spot(p) <= Len(Strand(p)) /\ Op(p) = Strand(p)[Spot(p)]
         /\ AtStart(p) => Spot(p) = 0
         /\ InBracket(p) <=> Inside(Strand(p), Spot(p))
         /\ HoldsLock(p) <=> Locked(Strand(p), Spot(p))
<1>1. IsCode(CodeOf(p)) /\ Len(CodeOf(p)) \in Nat /\ DOMAIN CodeOf(p) = 1..Len(CodeOf(p))
  BY Lists DEF IsProgram
<1>2. AtStart(p) \/ AtCode(p) \/ AtItem(p)
  BY DEF ThreadInv
<1>3. CASE th[p].item = NoItem
  <2>1. Strand(p) = CodeOf(p) /\ Spot(p) = th[p].at /\ ~AtItem(p)
    BY <1>3 DEF Strand, Spot, AtItem
  <2>2. (InBracket(p) <=> Inside(CodeOf(p), th[p].at)) /\ (HoldsLock(p) <=> Locked(CodeOf(p), th[p].at))
    BY <1>3 DEF InBracket, HoldsLock
  <2>3. CASE AtStart(p)
    <3>1. th[p].at = 0 /\ Op(p).op = "init"
      BY <2>3 DEF AtStart
    <3>2. QED
      BY <1>1, <2>1, <2>2, <2>3, <3>1
  <2>4. CASE AtCode(p)
    <3>1. Op(p) = CodeOf(p)[th[p].at] /\ th[p].at \in Nat /\ th[p].at > 0 /\ th[p].at <= Len(CodeOf(p))
      BY <2>4, AtInstruction DEF AtCode
    <3>2. ~AtStart(p)
      BY <3>1 DEF AtStart
    <3>3. QED
      BY <1>1, <2>1, <2>2, <3>1, <3>2
  <2>5. QED
    BY <1>2, <2>1, <2>3, <2>4
<1>4. CASE th[p].item # NoItem
  <2>1. Strand(p) = ItemCode(p) /\ Spot(p) = th[p].step /\ AtItem(p) /\ ~AtStart(p)
    BY <1>2, <1>4 DEF Strand, Spot, AtStart, AtCode
  <2>2. IsCode(ItemCode(p)) /\ ~Inside(CodeOf(p), th[p].at) /\ ~Locked(CodeOf(p), th[p].at)
    BY <2>1, ItemIsCode
  <2>3. (InBracket(p) <=> Inside(ItemCode(p), th[p].step)) /\ (HoldsLock(p) <=> Locked(ItemCode(p), th[p].step))
    BY <1>4, <2>2 DEF InBracket, HoldsLock
  <2>4. Op(p) = ItemCode(p)[th[p].step] /\ th[p].step \in Nat /\ th[p].step > 0 /\ th[p].step <= Len(ItemCode(p))
    BY <2>1, AtInstruction DEF AtItem
  <2>5. Len(ItemCode(p)) \in Nat
    BY <2>2, Lists
  <2>6. QED
    BY <2>1, <2>2, <2>3, <2>4, <2>5
<1>5. QED
  BY <1>3, <1>4

\* The place after the instruction: the next in the strand, or out of it.
LEMMA WhereItGoes ==
  ASSUME NEW p \in Procs, IsProgram(CodeOf(p)), ThreadInv(p), ~Finished(p), job' = job, Follows(th'[p], p)
  PROVE  /\ th'[p].in = FALSE
         /\ InBracket(p)' <=> Inside(Strand(p), Spot(p) + 1)
         /\ HoldsLock(p)' <=> Locked(Strand(p), Spot(p) + 1)
         /\ th[p].item = NoItem => th'[p].at = th[p].at + 1 /\ th'[p].item = NoItem
         /\ th[p].item # NoItem => th'[p].at = th[p].at /\ th'[p].item \in {NoItem, th[p].item}
         /\ th'[p].item # NoItem => th'[p].item = th[p].item /\ ~Finished(p)'
         /\ Finished(p)' => th[p].item = NoItem /\ th'[p].at = Len(CodeOf(p)) + 1
         /\ ~Finished(p)' => Op(p)'.op = "work" \/ (Spot(p) + 1 <= Len(Strand(p)) /\ Op(p)' = Strand(p)[Spot(p) + 1])
<1> DEFINE cs == CodeOf(p)
           is == ItemCode(p)
           at == th[p].at
           step == th[p].step
<1>1. IsCode(cs) /\ Len(cs) \in Nat /\ DOMAIN cs = 1..Len(cs) /\ CodeOf(p)' = cs
  BY Lists DEF IsProgram, CodeOf
<1>2. AtStart(p) \/ AtCode(p) \/ AtItem(p)
  BY DEF ThreadInv
<1>3. DOMAIN th[p] = Fields /\ at \in 0..(Len(cs) + 1)
  BY DEF ThreadInv
<1>4. Op(p)' = th'[p].now /\ (Finished(p)' <=> th'[p].now.op = "none")
  BY DEF Op, Finished
<1>5. th'[p].in = FALSE
  BY <1>3, AdvanceFields DEF Follows
<1>6. CASE th[p].item = NoItem
  <2>1. /\ th'[p].at = at + 1 /\ th'[p].now = Nth(cs, at + 1) /\ th'[p].item = NoItem /\ th'[p].step = step
    BY <1>3, <1>6, AdvanceFields DEF Follows
  <2>2. Strand(p) = cs /\ Spot(p) = at
    BY <1>6 DEF Strand, Spot
  <2>3. at \in Nat /\ at <= Len(cs)
    <3>1. CASE AtStart(p)
      BY <1>1, <3>1 DEF AtStart
    <3>2. CASE AtCode(p)
      BY <3>2, AtInstruction
    <3>3. QED
      BY <1>2, <1>6, <3>1, <3>2 DEF AtItem
  <2>4. (InBracket(p)' <=> ~Finished(p)' /\ Inside(cs, at + 1)) /\ (HoldsLock(p)' <=> ~Finished(p)' /\ Locked(cs, at + 1))
    BY <1>1, <2>1 DEF InBracket, HoldsLock
  <2>5. CASE at + 1 \in DOMAIN cs
    <3>1. th'[p].now = cs[at + 1] /\ cs[at + 1].op # "none"
      BY <1>1, <2>1, <2>5 DEF Nth, IsCode
    <3>2. at + 1 <= Len(cs)
      <4> HIDE DEF cs, at
      <4>1. QED
        BY <1>1, <2>5
    <3>3. QED
      BY <1>4, <1>5, <1>6, <2>1, <2>2, <2>4, <3>1, <3>2
  <2>6. CASE at + 1 \notin DOMAIN cs
    <3>1. Finished(p)'
      BY <1>4, <2>1, <2>6 DEF Nth, Blank
    <3>2. at + 1 = Len(cs) + 1
      <4> HIDE DEF cs, at
      <4>1. QED
        BY <1>1, <2>3, <2>6
    <3>3. ~Inside(cs, at + 1) /\ ~Locked(cs, at + 1)
      BY <1>1, <3>2 DEF IsCode
    <3>4. QED
      BY <1>5, <1>6, <2>1, <2>2, <2>4, <3>1, <3>2, <3>3
  <2>7. QED
    BY <2>5, <2>6
<1>7. CASE th[p].item # NoItem
  <2>1. AtItem(p) /\ Strand(p) = is /\ Spot(p) = step
    BY <1>2, <1>7 DEF AtStart, AtCode, Strand, Spot
  <2>2. IsCode(is) /\ ~Inside(cs, at) /\ ~Locked(cs, at)
    BY <2>1, ItemIsCode
  <2>3. step \in Nat /\ step > 0 /\ step <= Len(is) /\ Len(is) \in Nat /\ DOMAIN is = 1..Len(is)
    BY <2>1, <2>2, AtInstruction, Lists
  <2>4. at \in DOMAIN cs /\ cs[at].op = "work"
    BY <2>1 DEF AtItem
  <2>5. CASE step < Len(is)
    <3>1. /\ th'[p].at = at /\ th'[p].now = is[step + 1] /\ th'[p].item = th[p].item /\ th'[p].step = step + 1
      BY <1>3, <1>7, <2>5, AdvanceFields DEF Follows
    <3>2. ItemCode(p)' = is
      BY <1>1, <3>1 DEF ItemCode
    <3>3. step + 1 \in DOMAIN is /\ step + 1 <= Len(is)
      <4> HIDE DEF is, step
      <4>1. QED
        BY <2>3, <2>5
    <3>4. ~Finished(p)'
      BY <1>4, <2>2, <3>1, <3>3 DEF IsCode
    <3>5. (InBracket(p)' <=> Inside(is, step + 1)) /\ (HoldsLock(p)' <=> Locked(is, step + 1))
      BY <1>1, <1>7, <2>2, <3>1, <3>2, <3>4 DEF InBracket, HoldsLock
    <3>6. QED
      BY <1>4, <1>5, <1>7, <2>1, <3>1, <3>3, <3>4, <3>5
  <2>6. CASE ~(step < Len(is))
    <3>1. /\ th'[p].at = at /\ th'[p].now = cs[at] /\ th'[p].item = NoItem /\ th'[p].step = 1
      BY <1>3, <1>7, <2>6, AdvanceFields DEF Follows
    <3>2. step + 1 = Len(is) + 1
      <4> HIDE DEF is, step
      <4>1. QED
        BY <2>3, <2>6
    <3>3. ~Inside(is, step + 1) /\ ~Locked(is, step + 1)
      BY <2>2, <3>2 DEF IsCode
    <3>4. ~InBracket(p)' /\ ~HoldsLock(p)'
      BY <1>1, <2>2, <3>1 DEF InBracket, HoldsLock
    <3>5. Op(p)'.op = "work" /\ ~Finished(p)'
      BY <1>4, <2>4, <3>1
    <3>6. QED
      BY <1>5, <1>7, <2>1, <3>1, <3>3, <3>4, <3>5
  <2>7. QED
    BY <2>5, <2>6
<1>8. QED
  BY <1>6, <1>7
-----------------------------------------------------------------------------
(***************************************************************************)
(* The second invariant: what the threads of a rank know of each other.    *)
(***************************************************************************)
ThreadMisuses == {"level", "overlap", "finalize"}
Met(p) == MeetsBefore(CodeOf(p), th[p].at)

\* A thread is in a call of MPI only at one, and in an item only while it runs;
\* it stops at the end of its code, or when the level is too low.
PlaceInv(p) ==
  /\ p[2] # 0 => th[p].at # 0
  /\ th[p].in => Op(p).op \in MpiOps
  /\ th[p].item # NoItem => ~Finished(p)
  /\ Finished(p) /\ ~TooLow => th[p].at = Len(CodeOf(p)) + 1
\* The team moves from meeting to meeting together, and not at all without a
\* sufficient level.
TeamInv(p) ==
  /\ \A q \in Mates(p) : Met(q) = Met(p)
  /\ team[p[1]].forked => Met(p) # 0
  /\ TooLow /\ p[2] = 0 => th[p].at = 0
\* Nobody else is in the item of a thread, and what it depends on is done.
ItemInv(p) ==
  th[p].item # NoItem =>
    LET work == CodeOf(p)[th[p].at]
    IN /\ th[p].item = <<work.tag, th[p].item[2]>> /\ th[p].item \in team[p[1]].taken
       /\ \A q \in Mates(p) : th[q].item # th[p].item
       /\ \A j \in work.items[th[p].item[2]].after : ItemDone(p[1], <<work.tag, j>>)
\* The lock knows who holds it.
LockInv(p) == HoldsLock(p) => team[p[1]].lock = p[2]
\* Main has finalized MPI, by a call that it is in or has left behind.
FinalizeInv(r) ==
  team[r].finalized /\ FinalizesLast(job.code[r]) =>
    \E k \in DOMAIN job.code[r][0] :
      /\ job.code[r][0][k].op = "finalize"
      /\ th[<<r, 0>>].at > k \/ (th[<<r, 0>>].at = k /\ th[<<r, 0>>].in)

Together ==
  /\ job.level \in SINGLE..MULTIPLE
  /\ \A p \in Procs : PlaceInv(p) /\ TeamInv(p) /\ ItemInv(p) /\ LockInv(p)
  /\ \A r \in Ranks : NoItem \notin team[r].taken /\ FinalizeInv(r)

\* The threads of a rank that are inside the macros, ...
InsideOf(r) == {t \in Tids : InBracket(<<r, t>>)}
\* ... of which flag is the number when nothing else uses it, ...
FlagExact(r) == ~Uses(job.code[r], "take") => oracle[r].flag = Cardinality(InsideOf(r))
\* ... and whether two of them have met, counted already or about to be.
HaveMet(r) ==
  \/ oracle[r].overlap_count # 0
  \/ \E t \in Tids : Op(<<r, t>>).op = "count" /\ th[<<r, t>>].before # 0
\* Where the counter is asked its answer is given: TRUE once something is counted;
\* FALSE when main is alone and nothing more will be counted.
ReportInv(r) ==
  /\ TooLow => ~HaveMet(r)
  /\ AsksOnly(job.code[r], {{{Counted}}, Never}) /\ TRUE \in verdicts[r] => oracle[r].overlap_count # 0
  /\ AsksOnly(job.code[r], {{{Counted}}}) /\ FALSE \in verdicts[r] =>
       ~HaveMet(r) /\ \A t \in Tids \ {0} : Finished(<<r, t>>)
\* An overlap that has happened is counted and not reported yet, or reported.
OverlapInv ==
  OverlapWatched(job) /\ "overlap" \in seen =>
    /\ ~TooLow
    /\ \E r \in Ranks : \E k \in DOMAIN job.code[r][0] :
         /\ AsksTheCounter(job.code[r][0][k]) /\ oracle[r].overlap_count # 0
         /\ th[<<r, 0>>].at <= k \/ TRUE \in verdicts[r]
(* A case commits no misuse of threads that its code rules out: too many      *)
(* threads in MPI for the level, two collectives at a time, or a call that    *)
(* comes too late for MPI_Finalize, has_error_manifested(false) included.     *)
Excused == SafelyLabelled(job) => seen \cap ThreadMisuses \subseteq job.label
-----------------------------------------------------------------------------
(***************************************************************************)
(* The kinds of steps.                                                     *)
(***************************************************************************)
OthersRest(p) == DOMAIN th' = Procs /\ \A q \in Procs : q # p => th'[q] = th[q]
NoThreadMisuse == \A f \in ThreadMisuses : f \in seen' => f \in seen

\* No thread moves.
Still == /\ th' = th /\ team' = team /\ oracle' = oracle /\ verdicts' = verdicts
         /\ NoThreadMisuse
\* A thread enters a call.
Entering(p) ==
  /\ Op(p).op \in MpiOps /\ ~th[p].in
  /\ OthersRest(p)
  /\ th'[p].in = TRUE /\ th'[p].at = th[p].at /\ th'[p].item = th[p].item /\ th'[p].step = th[p].step
  /\ th'[p].now = th[p].now /\ th'[p].before = th[p].before
  /\ \/ team' = team
     \/ Op(p).op = "finalize" /\ team' = [team EXCEPT ![p[1]].finalized = TRUE]
  /\ oracle' = oracle /\ verdicts' = verdicts /\ seen' = seen \cup CallFaults(p)
\* A thread executes an instruction.
LockStep(p) ==
  CASE Op(p).op = "lock" -> team[p[1]].lock = -1 /\ team' = [team EXCEPT ![p[1]].lock = p[2]]
    [] Op(p).op = "unlock" -> team' = [team EXCEPT ![p[1]].lock = -1]
    [] OTHER -> team' = team
CountStep(p) ==
  LET o == oracle[p[1]]
      n == oracle'[p[1]]
  IN /\ DOMAIN oracle' = Ranks /\ \A r \in Ranks : r # p[1] => oracle'[r] = oracle[r]
     /\ n.flag = CASE Op(p).op \in {"capture", "take"} -> o.flag + 1
                   [] Op(p).op = "end" -> o.flag - 1
                   [] OTHER -> o.flag
     /\ n.overlap_count = IF Op(p).op = "count" /\ th[p].before # 0 THEN o.overlap_count + 1 ELSE o.overlap_count
     /\ th'[p].before = IF Op(p).op = "capture" THEN o.flag ELSE th[p].before
ReportStep(p) ==
  IF Op(p).op = "report"
  THEN \E m \in Outcomes(p[1], Op(p).cond) :
         /\ verdicts' = [verdicts EXCEPT ![p[1]] = @ \cup {m}]
         /\ seen' = seen \cup {f \in {"finalize"} : ~m /\ team[p[1]].finalized}
  ELSE verdicts' = verdicts /\ NoThreadMisuse
Executing(p) ==
  /\ ~Finished(p) /\ Op(p).op \notin Meets /\ (Op(p).op = "init" => ~TooLow)
  /\ OthersRest(p) /\ Follows(th'[p], p)
  /\ LockStep(p) /\ CountStep(p) /\ ReportStep(p)
\* A thread takes an item.
Taking(p) ==
  LET work == Op(p)
  IN /\ work.op = "work" /\ ~th[p].in
     /\ \E i \in DOMAIN work.items :
          LET item == <<work.tag, i>>
          IN /\ item \notin team[p[1]].taken
             /\ \A j \in work.items[i].after : ItemDone(p[1], <<work.tag, j>>)
             /\ th'[p].item = item /\ th'[p].at = th[p].at /\ th'[p].step = th[p].step /\ th'[p].in = th[p].in
             /\ th'[p].now = Nth(work.items[i].code, 1) /\ th'[p].before = th[p].before
             /\ team' = [team EXCEPT ![p[1]].taken = @ \cup {item}]
     /\ OthersRest(p)
     /\ oracle' = oracle /\ verdicts' = verdicts /\ seen' = seen
\* The team meets; a rank stops.
Meeting(r) ==
  /\ \A t \in Tids : Op(<<r, t>>).op \in Meets
  /\ DOMAIN th' = Procs
  /\ \A p \in Procs : IF p[1] = r THEN th'[p] = Advance(p) ELSE th'[p] = th[p]
  /\ team' = [team EXCEPT ![r].forked = TRUE]
  /\ oracle' = oracle /\ verdicts' = verdicts /\ seen' = seen
Stopping(r) ==
  /\ Op(<<r, 0>>).op = "init" /\ TooLow
  /\ DOMAIN th' = Procs
  /\ \A p \in Procs : IF p[1] = r THEN th'[p] = [th[p] EXCEPT !.now = Blank] ELSE th'[p] = th[p]
  /\ verdicts' = verdicts \/ verdicts' = [verdicts EXCEPT ![r] = @ \cup {FALSE}]
  /\ team' = team /\ oracle' = oracle /\ seen' = seen

LEMMA NoneOfThem ==
  ASSUME NEW S, seen' = seen \cup S, S \cap ThreadMisuses = {}
  PROVE  NoThreadMisuse
BY DEF NoThreadMisuse

LEMMA OthersKept ==
  ASSUME IInv, NEW p \in Procs, NEW t, th' = [th EXCEPT ![p] = t]
  PROVE  OthersRest(p) /\ th'[p] = t
BY DEF IInv, Typed, OthersRest

LEMMA RacedAside == ASSUME NEW p PROVE Raced(p) \cap ThreadMisuses = {}
BY DEF Raced, ThreadMisuses

LEMMA UndefinedAside == ASSUME NEW data PROVE Undefined(data) \cap ThreadMisuses = {}
BY DEF Undefined, ThreadMisuses

\* An instruction that does nothing to the lock, the counters and the verdicts.
LEMMA OrdinaryIsExecuting ==
  ASSUME IInv, NEW p \in Procs, NEW t, Follows(t, p), th' = [th EXCEPT ![p] = t], th'[p].before = th[p].before,
         Op(p).op \notin Meets \cup {"none", "lock", "unlock", "capture", "count", "end", "take", "report"},
         Op(p).op = "init" => ~TooLow,
         team' = team, oracle' = oracle, verdicts' = verdicts, NoThreadMisuse
  PROVE  Executing(p)
<1>1. OthersRest(p) /\ th'[p] = t
  BY OthersKept
<1>2. LockStep(p) /\ ReportStep(p)
  BY DEF LockStep, ReportStep
<1>3. CountStep(p)
  BY DEF CountStep, IInv, Typed, OracleTyped
<1>4. QED
  BY <1>1, <1>2, <1>3 DEF Executing, Finished

LEMMA BeginIsExecuting ==
  ASSUME IInv, NEW r \in Ranks, Begin(r) PROVE job' = job /\ Executing(<<r, 0>>)
<1> DEFINE p == <<r, 0>>
<1>1. p \in Procs /\ Op(p).op = "init" /\ ~TooLow
  BY DEF Begin, Starting, Procs, Tids, NUM_THREADS
<1>2. /\ job' = job /\ team' = team /\ oracle' = oracle /\ verdicts' = verdicts /\ seen' = seen
      /\ th' = [th EXCEPT ![p] = Advance(p)]
  BY DEF Begin, results
<1>3. Follows(Advance(p), p) /\ th'[p] = Advance(p) /\ DOMAIN th[p] = Fields
  BY <1>1, <1>2, AdvanceFollows, OthersKept DEF IInv, ThreadInv
<1>4. th'[p].before = th[p].before
  BY <1>3, AdvanceFields
<1>5. NoThreadMisuse
  BY <1>2 DEF NoThreadMisuse
<1>6. Op(p).op \notin Meets \cup {"none", "lock", "unlock", "capture", "count", "end", "take", "report"}
  BY <1>1 DEF Meets
<1> HIDE DEF p
<1>7. Executing(p)
  BY <1>1, <1>2, <1>3, <1>4, <1>5, <1>6, OrdinaryIsExecuting
<1>8. QED
  BY <1>2, <1>7 DEF p

LEMMA SharedIsExecuting ==
  ASSUME IInv, NEW p \in Procs, Pass(p) \/ Acquire(p) \/ Release(p) \/ Write(p) \/ Decide(p)
  PROVE  job' = job /\ Executing(p)
<1>1. /\ job' = job /\ oracle' = oracle /\ verdicts' = verdicts
      /\ th' = [th EXCEPT ![p] = Advance(p)]
  BY DEF Pass, Acquire, Release, Write, Decide, results
<1>2. Op(p).op \in {"work", "lock", "unlock", "store", "add", "judge"}
  BY DEF Pass, Acquire, Release, Write, Decide
<1>3. OthersRest(p) /\ Follows(Advance(p), p) /\ th'[p] = Advance(p) /\ DOMAIN th[p] = Fields
  BY <1>1, AdvanceFollows, OthersKept DEF IInv, ThreadInv
<1>4. th'[p].before = th[p].before
  BY <1>3, AdvanceFields
<1>5. LockStep(p)
  BY <1>2 DEF LockStep, Pass, Acquire, Release, Write, Decide
<1>6. CountStep(p)
  BY <1>1, <1>2, <1>4 DEF CountStep, IInv, Typed, OracleTyped
<1>7. NoThreadMisuse
  <2>1. seen' = seen \/ seen' = seen \cup Raced(p)
    BY DEF Pass, Acquire, Release, Write, Decide, Raced
  <2>2. QED
    BY <2>1, NoneOfThem, RacedAside DEF NoThreadMisuse
<1>8. ReportStep(p)
  BY <1>1, <1>2, <1>7 DEF ReportStep
<1>9. ~Finished(p) /\ Op(p).op \notin Meets \cup {"init"}
  BY <1>2 DEF Finished, Meets
<1>10. QED
  BY <1>1, <1>3, <1>5, <1>6, <1>8, <1>9 DEF Executing

LEMMA ReportIsExecuting ==
  ASSUME IInv, NEW p \in Procs, HasErrorManifested(p) PROVE job' = job /\ Executing(p)
<1>1. /\ job' = job /\ oracle' = oracle /\ team' = team
      /\ th' = [th EXCEPT ![p] = Advance(p)] /\ Op(p).op = "report"
  BY DEF HasErrorManifested
<1>2. OthersRest(p) /\ Follows(Advance(p), p) /\ th'[p] = Advance(p) /\ DOMAIN th[p] = Fields
  BY <1>1, AdvanceFollows, OthersKept DEF IInv, ThreadInv
<1>3. th'[p].before = th[p].before
  BY <1>2, AdvanceFields
<1>4. LockStep(p)
  BY <1>1 DEF LockStep
<1>5. CountStep(p)
  BY <1>1, <1>3 DEF CountStep, IInv, Typed, OracleTyped
<1>6. ReportStep(p)
  BY <1>1 DEF ReportStep, HasErrorManifested
<1>7. ~Finished(p) /\ Op(p).op \notin Meets \cup {"init"}
  BY <1>1 DEF Finished, Meets
<1>8. QED
  BY <1>1, <1>2, <1>4, <1>5, <1>6, <1>7 DEF Executing

LEMMA OracleIsExecuting ==
  ASSUME IInv, NEW p \in Procs, Capture(p) \/ Count(p) \/ End(p) \/ TakeFlag(p) PROVE job' = job /\ Executing(p)
<1> DEFINE r == p[1]
           o == oracle[r]
<1>1. job' = job /\ team' = team /\ verdicts' = verdicts /\ seen' = seen
  BY DEF Capture, Count, End, TakeFlag, results
<1>2. Op(p).op \in {"capture", "count", "end", "take"}
  BY DEF Capture, Count, End, TakeFlag
<1>3. r \in Ranks /\ DOMAIN oracle = Ranks /\ DOMAIN o = Counters /\ Follows(Advance(p), p) /\ DOMAIN th[p] = Fields
  BY AdvanceFollows DEF Procs, IInv, Typed, OracleTyped, ThreadInv
<1>4. Advance(p).before = th[p].before
  BY <1>3, AdvanceFields
<1> DEFINE a == Advance(p)
<1>5. \E t : Follows(t, p) /\ th' = [th EXCEPT ![p] = t] /\ t.before = IF Op(p).op = "capture" THEN o.flag ELSE th[p].before
  <2>1. CASE Capture(p)
    <3>1. th' = [th EXCEPT ![p] = [a EXCEPT !.before = o.flag]] /\ Op(p).op = "capture"
      BY <2>1 DEF Capture
    <3>2. Follows(a, p)
      BY <1>3
    <3> HIDE DEF a, o
    <3>3. Follows([a EXCEPT !.before = o.flag], p) /\ [a EXCEPT !.before = o.flag].before = o.flag
      BY <3>2 DEF Follows, Fields
    <3>4. QED
      BY <3>1, <3>3
  <2>2. CASE ~Capture(p)
    <3>1. th' = [th EXCEPT ![p] = a] /\ Op(p).op # "capture"
      BY <2>2 DEF Count, End, TakeFlag
    <3>2. QED
      BY <1>3, <1>4, <3>1
  <2>3. QED
    BY <2>1, <2>2
<1>6. OthersRest(p) /\ Follows(th'[p], p) /\ th'[p].before = IF Op(p).op = "capture" THEN o.flag ELSE th[p].before
  BY <1>5, OthersKept
<1>7. LockStep(p) /\ ReportStep(p)
  BY <1>1, <1>2 DEF LockStep, ReportStep, NoThreadMisuse
<1>8. CountStep(p)
  <2> DEFINE buf == Op(p).buf
  <2>1. DOMAIN oracle' = Ranks /\ \A s \in Ranks : s # r => oracle'[s] = oracle[s]
    BY <1>3 DEF Capture, Count, End, TakeFlag
  <2>2. CASE Capture(p)
    <3>1. oracle' = [oracle EXCEPT ![r].flag = @ + 1] /\ Op(p).op = "capture"
      BY <2>2 DEF Capture
    <3>2. oracle'[r].flag = o.flag + 1 /\ oracle'[r].overlap_count = o.overlap_count
      BY <1>3, <3>1 DEF Counters
    <3>3. QED
      BY <1>6, <2>1, <3>1, <3>2 DEF CountStep
  <2>3. CASE Count(p)
    <3>1. oracle' = IF th[p].before # 0 THEN [oracle EXCEPT ![r].overlap_count = @ + 1] ELSE oracle
      BY <2>3 DEF Count
    <3>2. Op(p).op = "count"
      BY <2>3 DEF Count
    <3>3. /\ oracle'[r].flag = o.flag
          /\ oracle'[r].overlap_count = IF th[p].before # 0 THEN o.overlap_count + 1 ELSE o.overlap_count
      BY <1>3, <3>1 DEF Counters
    <3>4. QED
      BY <1>6, <2>1, <3>2, <3>3 DEF CountStep
  <2>4. CASE End(p)
    <3>1. oracle' = [oracle EXCEPT ![r].flag = @ - 1] /\ Op(p).op = "end"
      BY <2>4 DEF End
    <3>2. oracle'[r].flag = o.flag - 1 /\ oracle'[r].overlap_count = o.overlap_count
      BY <1>3, <3>1 DEF Counters
    <3>3. QED
      BY <1>6, <2>1, <3>1, <3>2 DEF CountStep
  <2>5. CASE TakeFlag(p)
    <3> DEFINE n == o.flag
    <3>1. oracle' = [oracle EXCEPT ![r][buf] = n, ![r].flag = @ + 1] /\ Op(p).op = "take"
      BY <2>5 DEF TakeFlag
    <3>2. buf \in {"before_a", "after_a", "before_b", "after_b"}
      BY <3>1, AtInstruction DEF IInv, Programs, Finished
    <3> HIDE DEF n, buf
    <3>3. oracle'[r].flag = o.flag + 1 /\ oracle'[r].overlap_count = o.overlap_count
      BY <1>3, <3>1, <3>2 DEF Counters
    <3>4. QED
      BY <1>6, <2>1, <3>1, <3>3 DEF CountStep
  <2>6. QED
    BY <2>2, <2>3, <2>4, <2>5
<1>9. ~Finished(p) /\ Op(p).op \notin Meets \cup {"init"}
  BY <1>2 DEF Finished, Meets
<1>10. QED
  BY <1>1, <1>6, <1>7, <1>8, <1>9 DEF Executing

LEMMA LeaveIsExecuting ==
  ASSUME IInv, NEW p \in Procs, InsideCall(p) PROVE job' = job /\ Executing(p)
<1>1. job' = job /\ oracle' = oracle /\ verdicts' = verdicts /\ team' = team
  BY DEF InsideCall, LeaveImmediate, LeaveBlocking, LeaveWait, LeaveProbe, LeaveMrecv, results
<1> DEFINE a == Advance(p)
<1>2. \E t : Follows(t, p) /\ th' = [th EXCEPT ![p] = t] /\ t.before = th[p].before
  <2>1. Follows(a, p) /\ a.before = th[p].before
    BY AdvanceFollows, AdvanceFields DEF IInv, ThreadInv
  <2>2. \/ th' = [th EXCEPT ![p] = a]
        \/ th' = [th EXCEPT ![p] = [a EXCEPT !.reg = NoCall]]
        \/ \E x : th' = [th EXCEPT ![p] = [a EXCEPT !.found = x]]
    BY DEF InsideCall, LeaveImmediate, LeaveBlocking, LeaveWait, LeaveProbe, LeaveMrecv
  <2> HIDE DEF a
  <2>3. \A x : [a EXCEPT !.reg = x].before = a.before /\ [a EXCEPT !.found = x].before = a.before
    BY <2>1 DEF Follows, Fields
  <2>4. \A x : Follows([a EXCEPT !.reg = x], p) /\ Follows([a EXCEPT !.found = x], p)
    BY <2>1, FollowsWith
  <2>5. CASE th' = [th EXCEPT ![p] = a]
    BY <2>1, <2>5
  <2>6. CASE th' = [th EXCEPT ![p] = [a EXCEPT !.reg = NoCall]]
    BY <2>1, <2>3, <2>4, <2>6
  <2>7. CASE \E x : th' = [th EXCEPT ![p] = [a EXCEPT !.found = x]]
    <3>1. PICK x : th' = [th EXCEPT ![p] = [a EXCEPT !.found = x]]
      BY <2>7
    <3>2. Follows([a EXCEPT !.found = x], p) /\ [a EXCEPT !.found = x].before = th[p].before
      BY <2>1, <2>3, <2>4
    <3>3. QED
      BY <3>1, <3>2
  <2>8. QED
    BY <2>2, <2>5, <2>6, <2>7
<1>3. Op(p).op \in MpiOps
  BY DEF InsideCall, LeaveImmediate, LeaveBlocking, LeaveWait, LeaveProbe, LeaveMrecv, MpiOps
<1>4. NoThreadMisuse
  <2>1. CASE LeaveMrecv(p)
    <3>1. \E data : seen' = seen \cup Undefined(data)
      BY <2>1 DEF LeaveMrecv
    <3>2. QED
      BY <3>1, NoneOfThem, UndefinedAside
  <2>2. CASE LeaveWait(p)
    <3>1. seen' = seen \cup {"request"} \/ seen' = seen
      BY <2>2 DEF LeaveWait
    <3>2. QED
      BY <3>1 DEF NoThreadMisuse, ThreadMisuses
  <2>3. CASE LeaveImmediate(p) \/ LeaveBlocking(p) \/ LeaveProbe(p)
    BY <2>3 DEF LeaveImmediate, LeaveBlocking, LeaveProbe, NoThreadMisuse
  <2>4. QED
    BY <2>1, <2>2, <2>3 DEF InsideCall
<1>5. PICK t : Follows(t, p) /\ th' = [th EXCEPT ![p] = t] /\ t.before = th[p].before
  BY <1>2
<1>6. th'[p].before = th[p].before
  BY <1>5, OthersKept
<1>7. Op(p).op \notin Meets \cup {"none", "lock", "unlock", "capture", "count", "end", "take", "report", "init"}
  BY <1>3 DEF MpiOps, Nonblocking, Blocking, Meets
<1>8. QED
  BY <1>1, <1>4, <1>5, <1>6, <1>7, OrdinaryIsExecuting

LEMMA EnterIsEntering ==
  ASSUME IInv, NEW p \in Procs, Enter(p) PROVE job' = job /\ Entering(p)
<1> DEFINE reg == IF Op(p).op = "wait" /\ Op(p).req \in DOMAIN reqs[p[1]] THEN reqs[p[1]][Op(p).req] ELSE th[p].reg
<1>1. /\ th' = [th EXCEPT ![p].in = TRUE, ![p].calls = @ + 1, ![p].reg = reg]
      /\ job' = job /\ oracle' = oracle /\ verdicts' = verdicts /\ seen' = seen \cup CallFaults(p)
      /\ Op(p).op \in MpiOps /\ ~th[p].in
  BY DEF Enter, results
<1> HIDE DEF reg
<1>2. DOMAIN th = Procs /\ DOMAIN th[p] = Fields
  BY DEF IInv, Typed, ThreadInv
<1>3. /\ DOMAIN th' = Procs /\ th'[p].in = TRUE
      /\ th'[p].at = th[p].at /\ th'[p].item = th[p].item /\ th'[p].step = th[p].step
      /\ th'[p].now = th[p].now /\ th'[p].before = th[p].before
      /\ \A q \in Procs : q # p => th'[q] = th[q]
  BY <1>1, <1>2 DEF Fields
<1>4. team' = team \/ (Op(p).op = "finalize" /\ team' = [team EXCEPT ![p[1]].finalized = TRUE])
  BY DEF Enter
<1>5. QED
  BY <1>1, <1>3, <1>4 DEF Entering, OthersRest

LEMMA TakeIsTaking ==
  ASSUME IInv, NEW p \in Procs, Take(p), ~th[p].in PROVE job' = job /\ Taking(p)
<1> DEFINE work == Op(p)
<1>1. PICK i \in DOMAIN work.items :
        /\ <<work.tag, i>> \notin team[p[1]].taken
        /\ \A j \in work.items[i].after : ItemDone(p[1], <<work.tag, j>>)
        /\ th' = [th EXCEPT ![p].item = <<work.tag, i>>, ![p].now = Nth(work.items[i].code, 1)]
        /\ team' = [team EXCEPT ![p[1]].taken = @ \cup {<<work.tag, i>>}]
  BY DEF Take
<1>2. work.op = "work" /\ job' = job /\ oracle' = oracle /\ verdicts' = verdicts /\ seen' = seen
  BY DEF Take, results
<1>3. DOMAIN th = Procs /\ DOMAIN th[p] = Fields
  BY DEF IInv, Typed, ThreadInv
<1> DEFINE item == <<work.tag, i>>
           first == Nth(work.items[i].code, 1)
<1>4. th' = [th EXCEPT ![p].item = item, ![p].now = first]
  BY <1>1
<1> HIDE DEF item, first
<1>5. /\ DOMAIN th' = Procs /\ th'[p].in = th[p].in /\ th'[p].at = th[p].at /\ th'[p].step = th[p].step
      /\ th'[p].item = item /\ th'[p].now = first /\ th'[p].before = th[p].before
      /\ \A q \in Procs : q # p => th'[q] = th[q]
  BY <1>3, <1>4 DEF Fields
<1>6. QED
  BY <1>1, <1>2, <1>5 DEF Taking, OthersRest, item, first

LEMMA ThreadKinds ==
  ASSUME IInv, NEW p \in Procs, ThreadStep(p)
  PROVE  job' = job /\ (Entering(p) \/ Executing(p) \/ Taking(p))
BY SharedIsExecuting, ReportIsExecuting, OracleIsExecuting, LeaveIsExecuting, EnterIsEntering, TakeIsTaking
   DEF ThreadStep, OutsideCalls

LEMMA RankKinds ==
  ASSUME IInv, NEW r \in Ranks, GiveUp(r) \/ KilledByAbort(r) \/ Meet(r)
  PROVE  job' = job /\ (Stopping(r) \/ Meeting(r))
<1>1. CASE GiveUp(r) \/ KilledByAbort(r)
  <2>1. /\ job' = job /\ StopRank(r) /\ oracle' = oracle /\ team' = team /\ seen' = seen /\ TooLow
        /\ Op(<<r, 0>>).op = "init"
    BY <1>1 DEF GiveUp, KilledByAbort, Starting
  <2>2. verdicts' = verdicts \/ verdicts' = [verdicts EXCEPT ![r] = @ \cup {FALSE}]
    BY <1>1 DEF GiveUp, KilledByAbort, results
  <2>3. QED
    BY <2>1, <2>2 DEF StopRank, Stopping
<1>2. CASE Meet(r)
  BY <1>2 DEF Meet, Meeting, results
<1>3. QED
  BY <1>1, <1>2

LEMMA LibraryIsStill ==
  ASSUME LibraryStep PROVE job' = job /\ Still
<1>1. ASSUME NEW r, NEW k, BufferSend(r, k) PROVE job' = job /\ Still
  <2>1. NoThreadMisuse
    BY <1>1, UndefinedAside, NoneOfThem DEF BufferSend
  <2>2. QED
    BY <1>1, <2>1 DEF BufferSend, results, Still
<1>2. ASSUME NEW s, NEW d, NEW k, NEW l, Deliver(s, d, k, l) PROVE job' = job /\ Still
  <2> DEFINE x == queue[s][k]
             y == queue[d][l]
             long == Len(x.cells) > Len(y.cells)
             data == IF long THEN SubSeq(Payload(s, x), 1, Len(y.cells)) ELSE Payload(s, x)
             stolen == y.meant \notin {NoCall, x.id}
             S == Undefined(data) \cup {f \in {"truncated"} : long} \cup {f \in {"stolen"} : stolen}
  <2>1. seen' = seen \cup S
    BY <1>2 DEF Deliver
  <2>2. Undefined(data) \cap ThreadMisuses = {}
    BY UndefinedAside
  <2> HIDE DEF long, data, stolen
  <2>3. S \cap ThreadMisuses = {}
    BY <2>2 DEF ThreadMisuses
  <2> HIDE DEF S
  <2>4. NoThreadMisuse
    BY <2>1, <2>3, NoneOfThem
  <2>5. QED
    BY <1>2, <2>4 DEF Deliver, results, Still
<1>3. ASSUME NEW r, NEW n, GoAhead(r, n) PROVE job' = job /\ Still
  <2>1. NoThreadMisuse
    BY <1>3, UndefinedAside, NoneOfThem DEF GoAhead
  <2>2. QED
    BY <1>3, <2>1 DEF GoAhead, results, Still
<1>4. ASSUME NEW r, NEW n, Combine(r, n) PROVE job' = job /\ Still
  <2>1. seen' = seen \/ \E data : seen' = seen \cup Undefined(data)
    BY <1>4 DEF Combine
  <2>2. NoThreadMisuse
    BY <2>1, UndefinedAside, NoneOfThem DEF NoThreadMisuse
  <2>3. QED
    BY <1>4, <2>2 DEF Combine, results, Still
<1>5. QED
  BY <1>1, <1>2, <1>3, <1>4 DEF LibraryStep

LEMMA Kinds ==
  ASSUME IInv, [Next]_vars
  PROVE  /\ job' = job
         /\ \/ Still
            \/ \E p \in Procs : Entering(p) \/ Executing(p) \/ Taking(p)
            \/ \E r \in Ranks : Meeting(r) \/ Stopping(r)
<1>1. CASE UNCHANGED vars
  BY <1>1 DEF vars, results, Still, NoThreadMisuse
<1>2. ASSUME NEW r \in Ranks, Begin(r) PROVE job' = job /\ \E p \in Procs : Executing(p)
  <2>1. job' = job /\ Executing(<<r, 0>>)
    BY <1>2, BeginIsExecuting
  <2>2. <<r, 0>> \in Procs
    BY DEF Procs, Tids, NUM_THREADS
  <2>3. QED
    BY <2>1, <2>2
<1>3. QED
  BY <1>1, <1>2, ThreadKinds, RankKinds, LibraryIsStill DEF Next, Exited
-----------------------------------------------------------------------------
(***************************************************************************)
(* What a step does to the thread that moves.                              *)
(***************************************************************************)
LEMMA Known ==
  ASSUME IInv, NEW p \in Procs
  PROVE  /\ IsProgram(CodeOf(p)) /\ ThreadInv(p) /\ DOMAIN th[p] = Fields
         /\ IsCode(CodeOf(p)) /\ Len(CodeOf(p)) \in Nat /\ DOMAIN CodeOf(p) = 1..Len(CodeOf(p))
         /\ th[p].at \in Nat /\ th[p].at <= Len(CodeOf(p)) + 1
         /\ p[1] \in Ranks /\ p[2] \in Tids /\ p = <<p[1], p[2]>> /\ CodeOf(p) = job.code[p[1]][p[2]]
         /\ IsTeam(job.code[p[1]])
<1>1. IsProgram(CodeOf(p)) /\ ThreadInv(p)
  BY DEF IInv, Programs
<1>2. IsCode(CodeOf(p)) /\ Len(CodeOf(p)) \in Nat /\ DOMAIN CodeOf(p) = 1..Len(CodeOf(p))
  BY <1>1, Lists DEF IsProgram
<1>3. th[p].at \in 0..(Len(CodeOf(p)) + 1) /\ DOMAIN th[p] = Fields
  BY <1>1 DEF ThreadInv
<1>4. p[1] \in Ranks /\ p[2] \in Tids /\ p = <<p[1], p[2]>>
  BY DEF Procs
<1>5. IsTeam(job.code[p[1]])
  BY <1>4 DEF IInv, Programs
<1>6. QED
  BY <1>1, <1>2, <1>3, <1>4, <1>5 DEF CodeOf

SamePlace(p) == /\ th'[p].at = th[p].at /\ th'[p].item = th[p].item /\ th'[p].step = th[p].step
                /\ th'[p].now = th[p].now /\ th'[p].before = th[p].before

LEMMA SamePlaceSame ==
  ASSUME NEW p, job' = job, SamePlace(p)
  PROVE  /\ CodeOf(p)' = CodeOf(p) /\ Op(p)' = Op(p) /\ (Finished(p)' <=> Finished(p)) /\ Met(p)' = Met(p)
         /\ (InBracket(p)' <=> InBracket(p)) /\ (HoldsLock(p)' <=> HoldsLock(p))
<1>1. CodeOf(p)' = CodeOf(p) /\ ItemCode(p)' = ItemCode(p) /\ Op(p)' = Op(p) /\ (Finished(p)' <=> Finished(p))
  BY DEF SamePlace, CodeOf, ItemCode, Op, Finished
<1>2. QED
  BY <1>1 DEF SamePlace, InBracket, HoldsLock, Met

LEMMA RestsSame ==
  ASSUME NEW p, th'[p] = th[p]
  PROVE  SamePlace(p) /\ th'[p].in = th[p].in
BY DEF SamePlace

\* The instruction of a thread in its code.
LEMMA OpIsCode ==
  ASSUME IInv, NEW p \in Procs, ~Finished(p), ~AtStart(p)
  PROVE  /\ th[p].at > 0 /\ th[p].at <= Len(CodeOf(p)) /\ th[p].at \in DOMAIN CodeOf(p)
         /\ Op(p).op # "init"
         /\ th[p].item = NoItem => Op(p) = CodeOf(p)[th[p].at]
         /\ th[p].item # NoItem => /\ AtItem(p) /\ CodeOf(p)[th[p].at].op = "work"
                                   /\ Op(p).op \notin Meets \cup {"work", "report"}
<1>1. IsCode(CodeOf(p)) /\ ThreadInv(p) /\ IsProgram(CodeOf(p)) /\ DOMAIN CodeOf(p) = 1..Len(CodeOf(p))
      /\ Len(CodeOf(p)) \in Nat
  BY Known
<1>2. AtCode(p) \/ AtItem(p)
  BY <1>1 DEF ThreadInv
<1>3. CASE AtCode(p)
  <2>1. th[p].item = NoItem /\ th[p].at \in DOMAIN CodeOf(p) /\ Op(p) = CodeOf(p)[th[p].at]
    BY <1>3 DEF AtCode
  <2>2. Op(p).op # "init"
    BY <1>1, <2>1 DEF IsCode
  <2>3. QED
    BY <1>1, <1>3, <2>1, <2>2, AtInstruction
<1>4. CASE AtItem(p)
  <2>1. th[p].item # NoItem /\ th[p].at \in DOMAIN CodeOf(p) /\ CodeOf(p)[th[p].at].op = "work"
        /\ th[p].step \in DOMAIN ItemCode(p) /\ Op(p) = ItemCode(p)[th[p].step]
    BY <1>4 DEF AtItem
  <2>2. IsCode(ItemCode(p)) /\ \A j \in DOMAIN ItemCode(p) : ItemCode(p)[j].op \notin Meets \cup {"work", "report"}
    BY <1>1, <1>4, ItemIsCode
  <2>3. Op(p).op # "init"
    BY <2>1, <2>2 DEF IsCode
  <2>4. th[p].at > 0 /\ th[p].at <= Len(CodeOf(p))
    BY <1>1, <2>1
  <2>5. QED
    BY <1>4, <2>1, <2>2, <2>3, <2>4
<1>5. QED
  BY <1>2, <1>3, <1>4

\* A thread that executes an instruction other than a meeting.
LEMMA Executed ==
  ASSUME IInv, job' = job, NEW p \in Procs, ~Finished(p), Follows(th'[p], p)
  PROVE  /\ th'[p].in = FALSE
         /\ th[p].item = NoItem => th'[p].at = th[p].at + 1 /\ th'[p].item = NoItem
         /\ th[p].item # NoItem => th'[p].at = th[p].at
         /\ th'[p].item # NoItem => th'[p].item = th[p].item /\ ~Finished(p)' /\ th'[p].at = th[p].at
         /\ Finished(p)' => th'[p].at = Len(CodeOf(p)) + 1
         /\ Met(p)' = IF Op(p).op \in Meets THEN Met(p) + 1 ELSE Met(p)
         /\ HoldsLock(p)' <=> Op(p).op = "lock" \/ (Op(p).op # "unlock" /\ HoldsLock(p))
         /\ Op(p).op = "unlock" => HoldsLock(p)
         /\ InBracket(p)' <=> Op(p).op = "capture" \/ (Op(p).op # "end" /\ InBracket(p))
         /\ Op(p).op = "end" => InBracket(p)
         /\ Op(p).op = "capture" => ~InBracket(p)
         /\ Op(p).op = "count" => InBracket(p)
         /\ Op(p)'.op = "count" <=> Op(p).op = "capture"
<1> DEFINE cs == Strand(p)
           k == Spot(p)
           op == Op(p).op
<1>1. ThreadInv(p) /\ IsProgram(CodeOf(p))
  BY Known
<1>2. /\ IsCode(cs) /\ k \in Nat /\ Len(cs) \in Nat
      /\ AtStart(p) => k = 0
      /\ ~AtStart(p) => k > 0 /\ k <= Len(cs) /\ Op(p) = cs[k]
      /\ InBracket(p) <=> Inside(cs, k)
      /\ HoldsLock(p) <=> Locked(cs, k)
  BY <1>1, WhereItIs
<1>3. /\ th'[p].in = FALSE
      /\ InBracket(p)' <=> Inside(cs, k + 1)
      /\ HoldsLock(p)' <=> Locked(cs, k + 1)
      /\ th[p].item = NoItem => th'[p].at = th[p].at + 1 /\ th'[p].item = NoItem
      /\ th[p].item # NoItem => th'[p].at = th[p].at /\ th'[p].item \in {NoItem, th[p].item}
      /\ th'[p].item # NoItem => th'[p].item = th[p].item /\ ~Finished(p)'
      /\ Finished(p)' => th[p].item = NoItem /\ th'[p].at = Len(CodeOf(p)) + 1
      /\ ~Finished(p)' => Op(p)'.op = "work" \/ (k + 1 <= Len(cs) /\ Op(p)' = cs[k + 1])
  BY <1>1, WhereItGoes
<1>4. Met(p)' = IF op \in Meets THEN Met(p) + 1 ELSE Met(p)
  <2>1. Met(p)' = MeetsBefore(CodeOf(p), th'[p].at) /\ Met(p) = MeetsBefore(CodeOf(p), th[p].at)
    BY DEF Met, CodeOf
  <2>2. CASE AtStart(p)
    <3>1. th[p].at = 0 /\ th'[p].at = 1 /\ op \notin Meets
      BY <1>3, <2>2 DEF AtStart, Meets
    <3>2. QED
      BY <2>1, <3>1, MeetsNone
  <2>3. CASE ~AtStart(p) /\ th[p].item = NoItem
    <3>1. th[p].at > 0 /\ th[p].at \in Nat /\ op = CodeOf(p)[th[p].at].op /\ th'[p].at = th[p].at + 1
      BY <1>3, <2>3, OpIsCode, Known
    <3>2. QED
      BY <2>1, <3>1, MeetsNext
  <2>4. CASE ~AtStart(p) /\ th[p].item # NoItem
    BY <1>3, <2>1, <2>4, OpIsCode
  <2>5. QED
    BY <2>2, <2>3, <2>4
<1>5. DOMAIN cs = 1..Len(cs)
  BY <1>2, Lists
<1>6. CASE AtStart(p)
  <2>1. k = 0 /\ op = "init" /\ k + 1 = 1
    BY <1>2, <1>6 DEF AtStart
  <2>2. ~Inside(cs, k) /\ ~Inside(cs, k + 1) /\ ~Locked(cs, k) /\ ~Locked(cs, k + 1)
    BY <2>1, InsideFirst
  <2>3. Op(p)'.op # "count"
    <3>1. ASSUME Op(p)'.op = "count" PROVE FALSE
      <4>1. ~Finished(p)' /\ 1 <= Len(cs) /\ cs[1].op = "count"
        BY <1>3, <2>1, <3>1 DEF Finished
      <4>2. 1 \in DOMAIN cs /\ 0 \notin DOMAIN cs
        BY <1>2, <1>5, <4>1
      <4> HIDE DEF cs
      <4>3. 1 - 1 \in DOMAIN cs
        BY <1>2, <4>1, <4>2 DEF IsCode
      <4>4. QED
        BY <4>2, <4>3
    <3>2. QED
      BY <3>1
  <2>4. QED
    BY <1>2, <1>3, <1>4, <2>1, <2>2, <2>3
<1>7. CASE ~AtStart(p)
  <2>1. k > 0 /\ k <= Len(cs) /\ op = cs[k].op /\ k \in DOMAIN cs
    <3>1. k > 0 /\ k <= Len(cs) /\ op = cs[k].op
      BY <1>2, <1>7
    <3> HIDE DEF cs, k
    <3>2. QED
      BY <1>2, <1>5, <3>1
  <2> HIDE DEF cs, k, op
  <2>2. /\ op = "end" => Inside(cs, k)
        /\ op = "unlock" => Locked(cs, k)
        /\ op = "capture" => ~Inside(cs, k) /\ k + 1 \in DOMAIN cs /\ cs[k + 1].op = "count"
        /\ op = "count" => k - 1 \in DOMAIN cs /\ cs[k - 1].op = "capture"
    BY <1>2, <2>1 DEF IsCode
  <2>3. op = "count" => Inside(cs, k)
    <3>1. SUFFICES ASSUME op = "count" PROVE Inside(cs, k)
      OBVIOUS
    <3>2. k - 1 \in Nat /\ k - 1 > 0 /\ cs[k - 1].op = "capture" /\ k - 1 + 1 = k
      BY <1>2, <1>5, <2>2, <3>1
    <3>3. QED
      BY <3>2, InsideNext
  <2>4. /\ op = "capture" => Inside(cs, k + 1)
        /\ op = "end" => ~Inside(cs, k + 1)
        /\ op \notin {"capture", "end"} => (Inside(cs, k + 1) <=> Inside(cs, k))
    BY <1>2, <2>1, InsideNext
  <2>5. /\ op = "lock" => Locked(cs, k + 1)
        /\ op = "unlock" => ~Locked(cs, k + 1)
        /\ op \notin {"lock", "unlock"} => (Locked(cs, k + 1) <=> Locked(cs, k))
    BY <1>2, <2>1, LockedNext
  <2>6. Op(p)'.op = "count" => op = "capture"
    <3>1. SUFFICES ASSUME Op(p)'.op = "count" PROVE op = "capture"
      OBVIOUS
    <3>2. k + 1 <= Len(cs) /\ cs[k + 1].op = "count"
      BY <1>3, <3>1 DEF Finished
    <3>3. k + 1 \in DOMAIN cs /\ k + 1 - 1 = k
      BY <1>2, <1>5, <3>2
    <3>4. cs[k + 1 - 1].op = "capture"
      BY <1>2, <3>2, <3>3 DEF IsCode
    <3>5. QED
      BY <2>1, <3>3, <3>4
  <2>7. op = "capture" => Op(p)'.op = "count"
    <3>1. SUFFICES ASSUME op = "capture" PROVE Op(p)'.op = "count"
      OBVIOUS
    <3>2. th'[p].in \in BOOLEAN /\ DOMAIN th'[p] = Fields
      BY <1>3 DEF Follows
    <3>3. QED
      BY <1>1, <3>1, <3>2, ThreadAdvances DEF Follows, op
  <2>8. QED
    BY <1>2, <1>3, <1>4, <2>2, <2>3, <2>4, <2>5, <2>6, <2>7 DEF op
<1>8. QED
  BY <1>6, <1>7

\* A thread that takes an item.
LEMMA Took ==
  ASSUME IInv, job' = job, NEW p \in Procs, Taking(p)
  PROVE  /\ ~Finished(p) /\ th[p].item = NoItem /\ Op(p) = CodeOf(p)[th[p].at] /\ th[p].at \in DOMAIN CodeOf(p)
         /\ th'[p].at = th[p].at /\ th'[p].in = FALSE /\ Met(p)' = Met(p)
         /\ ~Finished(p)' /\ Op(p)'.op # "count" /\ Op(p).op # "count"
         /\ ~InBracket(p) /\ ~InBracket(p)' /\ ~HoldsLock(p) /\ ~HoldsLock(p)'
         /\ th'[p].item # NoItem
<1> DEFINE cs == CodeOf(p)
           work == Op(p)
<1>1. /\ work.op = "work" /\ ~th[p].in /\ ~Finished(p)
      /\ \E i \in DOMAIN work.items : /\ th'[p].item = <<work.tag, i>> /\ th'[p].now = Nth(work.items[i].code, 1)
      /\ th'[p].at = th[p].at /\ th'[p].step = th[p].step /\ th'[p].in = th[p].in
  BY DEF Taking, Finished
<1>2. PICK i \in DOMAIN work.items : th'[p].item = <<work.tag, i>> /\ th'[p].now = Nth(work.items[i].code, 1)
  BY <1>1
<1>3. IsProgram(cs) /\ ThreadInv(p) /\ IsCode(cs)
  BY Known
<1>4. ~AtStart(p)
  BY <1>1 DEF AtStart
<1>5. th[p].item = NoItem /\ work = cs[th[p].at] /\ th[p].at \in DOMAIN cs
  BY <1>1, <1>4, OpIsCode
<1>6. th'[p].in = FALSE
  BY <1>1, <1>3 DEF ThreadInv
<1>7. CodeOf(p)' = cs
  BY DEF CodeOf
<1>8. ~Inside(cs, th[p].at) /\ ~Locked(cs, th[p].at)
  BY <1>1, <1>3, <1>5 DEF IsCode
<1>9. Met(p)' = Met(p)
  BY <1>1, <1>7 DEF Met
<1>10. work.items[i].code # <<>> /\ IsCode(work.items[i].code) /\ work.items \in Seq(Range(work.items))
  BY <1>1, <1>3, <1>5 DEF IsProgram
<1> DEFINE is == work.items[i].code
<1>11. ItemCode(p)' = is /\ th'[p].step = 1
  <2>1. th'[p].item[2] = i
    BY <1>2
  <2>2. ItemCode(p)' = cs[th'[p].at].items[th'[p].item[2]].code
    BY <1>7 DEF ItemCode
  <2>3. QED
    BY <1>1, <1>3, <1>5, <2>1, <2>2 DEF ThreadInv
<1> HIDE DEF is
<1>12. 1 \in DOMAIN is /\ 0 \notin DOMAIN is
  <2>1. is \in Seq(Range(is)) /\ is # <<>>
    BY <1>10 DEF is, IsCode
  <2>2. QED
    BY <2>1
<1>13. th'[p].now = is[1] /\ is[1].op \notin {"none", "count"}
  <2>1. th'[p].now = is[1]
    BY <1>2, <1>12 DEF Nth, is
  <2>2. is[1].op # "none"
    BY <1>10, <1>12 DEF IsCode, is
  <2>3. is[1].op = "count" => 1 - 1 \in DOMAIN is
    BY <1>10, <1>12 DEF IsCode, is
  <2>4. QED
    BY <1>12, <2>1, <2>2, <2>3
<1>14. ~Finished(p)' /\ Op(p)'.op # "count"
  BY <1>13 DEF Finished, Op
<1>15. ~InBracket(p) /\ ~HoldsLock(p)
  BY <1>5, <1>8 DEF InBracket, HoldsLock
<1>16. ~InBracket(p)' /\ ~HoldsLock(p)'
  BY <1>1, <1>7, <1>8, <1>11, InsideFirst DEF InBracket, HoldsLock
<1>17. th'[p].item # NoItem
  <2>1. i # 0
    BY <1>10
  <2>2. QED
    BY <1>2, <2>1 DEF NoItem
<1>18. QED
  BY <1>1, <1>5, <1>6, <1>9, <1>14, <1>15, <1>16, <1>17

\* Threads whose team has not met.
LEMMA NotMet ==
  ASSUME IInv, Together, NEW p \in Procs, p[2] # 0, Met(p) = 0
  PROVE  th[p].at = 1 /\ th[p].item = NoItem /\ ~th[p].in /\ Op(p).op \in {"none", "fork"}
<1> DEFINE cs == CodeOf(p)
<1>1. /\ PlaceInv(p) /\ th[p].at \in Nat /\ th[p].at <= Len(cs) + 1 /\ Len(cs) \in Nat /\ DOMAIN cs = 1..Len(cs)
      /\ IsCode(cs) /\ ThreadInv(p) /\ IsTeam(job.code[p[1]]) /\ cs = job.code[p[1]][p[2]] /\ p[2] \in Tids
  BY Known DEF Together
<1>2. th[p].at # 0
  BY <1>1 DEF PlaceInv
<1>3. cs # <<>> => cs[1].op = "fork"
  BY <1>1 DEF IsTeam
<1>4. th[p].at = 1
  <2>1. SUFFICES ASSUME th[p].at # 1 PROVE FALSE
    OBVIOUS
  <2>2. 2 <= th[p].at /\ 1 <= Len(cs)
    <3> HIDE DEF cs
    <3>1. QED
      BY <1>1, <1>2, <2>1
  <2>3. cs # <<>>
    <3>1. Len(<<>>) = 0
      OBVIOUS
    <3> HIDE DEF cs
    <3>2. QED
      BY <2>2, <3>1
  <2>4. MeetsBefore(cs, 1 + 1) = MeetsBefore(cs, 1) + 1
    BY <1>3, <2>3, MeetsNext DEF Meets
  <2>5. MeetsBefore(cs, 2) = 1
    BY <2>4, MeetsNone
  <2>6. MeetsBefore(cs, 2) <= MeetsBefore(cs, th[p].at)
    BY <1>1, <2>2, MeetsGrow
  <2>7. QED
    BY <2>5, <2>6 DEF Met
<1>5. CASE Finished(p)
  <2>1. Op(p).op = "none" /\ th[p].item = NoItem /\ ~th[p].in
    BY <1>1, <1>5 DEF Finished, PlaceInv, MpiOps, Nonblocking, Blocking, ThreadInv
  <2>2. QED
    BY <1>4, <2>1
<1>6. CASE ~Finished(p)
  <2>1. ~AtStart(p)
    BY <1>4 DEF AtStart
  <2>2. 1 \in DOMAIN cs /\ (th[p].item = NoItem => Op(p) = cs[1]) /\ (th[p].item # NoItem => cs[1].op = "work")
    BY <1>4, <1>6, <2>1, OpIsCode
  <2>3. cs # <<>>
    BY <2>2
  <2>4. th[p].item = NoItem /\ Op(p).op = "fork"
    BY <1>3, <2>2, <2>3
  <2>5. ~th[p].in
    BY <1>1, <2>4 DEF PlaceInv, MpiOps, Nonblocking, Blocking
  <2>6. QED
    BY <1>4, <2>4, <2>5
<1>7. QED
  BY <1>5, <1>6

\* Main at MPI_Init_thread, or stopped there.
LEMMA NotBegun ==
  ASSUME IInv, Together, NEW p \in Procs, th[p].at = 0
  PROVE  Met(p) = 0 /\ th[p].item = NoItem /\ ~th[p].in /\ Op(p).op \in {"none", "init"}
<1>1. PlaceInv(p) /\ ThreadInv(p)
  BY Known DEF Together
<1>2. Met(p) = 0
  BY MeetsNone DEF Met
<1>3. CASE Finished(p)
  <2>1. Op(p).op = "none" /\ th[p].item = NoItem /\ ~th[p].in
    BY <1>1, <1>3 DEF Finished, PlaceInv, MpiOps, Nonblocking, Blocking, ThreadInv
  <2>2. QED
    BY <1>2, <2>1
<1>4. CASE ~Finished(p)
  <2>1. AtStart(p)
    BY <1>4, OpIsCode
  <2>2. th[p].item = NoItem /\ Op(p).op = "init" /\ ~th[p].in
    BY <1>1, <2>1 DEF AtStart, PlaceInv, MpiOps, Nonblocking, Blocking, ThreadInv
  <2>3. QED
    BY <1>2, <2>2
<1>5. QED
  BY <1>3, <1>4

LEMMA InitIsStart ==
  ASSUME IInv, Together, NEW p \in Procs, Op(p).op = "init"
  PROVE  th[p].at = 0 /\ p[2] = 0
<1>1. ~Finished(p)
  BY DEF Finished
<1>2. AtStart(p)
  BY <1>1, OpIsCode
<1>3. PlaceInv(p)
  BY DEF Together
<1>4. QED
  BY <1>2, <1>3 DEF AtStart, PlaceInv

\* A rank whose main has not begun.
LEMMA RankNotBegun ==
  ASSUME IInv, Together, NEW r \in Ranks, th[<<r, 0>>].at = 0, NEW p \in Procs, p[1] = r
  PROVE  Met(p) = 0 /\ th[p].item = NoItem /\ ~th[p].in /\ Op(p).op \in {"none", "init", "fork"}
<1>1. <<r, 0>> \in Procs /\ p = <<r, p[2]>>
  BY Known DEF Procs, Tids, NUM_THREADS
<1>2. /\ Met(<<r, 0>>) = 0 /\ th[<<r, 0>>].item = NoItem /\ ~th[<<r, 0>>].in
      /\ Op(<<r, 0>>).op \in {"none", "init"}
  BY <1>1, NotBegun
<1>3. CASE p[2] = 0
  BY <1>1, <1>2, <1>3
<1>4. CASE p[2] # 0
  <2>1. <<r, 0>> # p
    BY <1>1, <1>4
  <2>2. p \in Mates(<<r, 0>>)
    BY <2>1 DEF Mates
  <2>3. Met(p) = 0
    BY <1>1, <1>2, <2>2 DEF Together, TeamInv
  <2>4. QED
    BY <1>4, <2>3, NotMet
<1>5. QED
  BY <1>3, <1>4

LEMMA NothingWhenTooLow ==
  ASSUME IInv, Together, TooLow, NEW p \in Procs
  PROVE  Met(p) = 0 /\ th[p].item = NoItem /\ ~th[p].in /\ Op(p).op \in {"none", "init", "fork"}
<1>1. <<p[1], 0>> \in Procs /\ p[1] \in Ranks
  BY Known DEF Procs, Tids, NUM_THREADS
<1>2. th[<<p[1], 0>>].at = 0
  <2> DEFINE m == <<p[1], 0>>
  <2>1. TeamInv(m) /\ m[2] = 0
    BY <1>1 DEF Together
  <2>2. QED
    BY <2>1 DEF TeamInv
<1>3. QED
  BY <1>1, <1>2, RankNotBegun

\* A thread of a rank that stops.
LEMMA Stopped ==
  ASSUME IInv, Together, job' = job, NEW r \in Ranks, Stopping(r), NEW p \in Procs, p[1] = r
  PROVE  /\ th'[p].at = th[p].at /\ th'[p].item = NoItem /\ th[p].item = NoItem
         /\ th'[p].in = FALSE /\ Met(p)' = Met(p) /\ Op(p)'.op = "none"
         /\ ~InBracket(p) /\ ~InBracket(p)' /\ ~HoldsLock(p)'
         /\ Op(p).op # "count"
<1>1. <<r, 0>> \in Procs
  BY DEF Procs, Tids, NUM_THREADS
<1>2. Met(p) = 0 /\ th[p].item = NoItem /\ ~th[p].in /\ Op(p).op \in {"none", "init", "fork"}
  BY NothingWhenTooLow DEF Stopping
<1>3. DOMAIN th[p] = Fields /\ th[p].in \in BOOLEAN
  BY Known DEF ThreadInv
<1>4. th'[p] = [th[p] EXCEPT !.now = Blank]
  BY DEF Stopping
<1>5. th'[p].at = th[p].at /\ th'[p].item = NoItem /\ th'[p].in = FALSE /\ th'[p].now = Blank
  BY <1>2, <1>3, <1>4 DEF Fields
<1>6. Op(p)'.op = "none" /\ Finished(p)' /\ CodeOf(p)' = CodeOf(p)
  BY <1>5 DEF Op, Finished, Blank, CodeOf
<1>7. ~InBracket(p)
  <2>1. CASE Finished(p)
    BY <2>1 DEF InBracket
  <2>2. CASE ~Finished(p)
    <3> DEFINE cs == CodeOf(p)
    <3>1. CASE AtStart(p)
      BY <1>2, <3>1, InsideFirst DEF AtStart, InBracket
    <3>2. CASE ~AtStart(p)
      <4>1. Op(p) = cs[th[p].at] /\ Op(p).op = "fork" /\ th[p].at \in DOMAIN cs
        BY <1>2, <2>2, <3>2, OpIsCode DEF Finished
      <4>2. p[2] # 0
        <5>1. p[2] = 0 => TeamInv(p) /\ th[p].at = 0
          BY DEF Together, TeamInv, Stopping
        <5>2. 0 \notin DOMAIN cs
          BY Known
        <5>3. QED
          BY <4>1, <5>1, <5>2
      <4>3. th[p].at = 1
        BY <1>2, <4>2, NotMet
      <4>4. QED
        BY <1>2, <4>3, InsideFirst DEF InBracket
    <3>3. QED
      BY <3>1, <3>2
  <2>3. QED
    BY <2>1, <2>2
<1>8. QED
  BY <1>2, <1>5, <1>6, <1>7 DEF InBracket, HoldsLock, Met
-----------------------------------------------------------------------------
(***************************************************************************)
(* The second invariant is kept.                                           *)
(***************************************************************************)
\* What a step does to the team of a rank.
LEMMA TeamEntering ==
  ASSUME IInv, NEW p \in Procs, Entering(p)
  PROVE  /\ \A r \in Ranks : team'[r].forked = team[r].forked /\ team'[r].taken = team[r].taken /\ team'[r].lock = team[r].lock
         /\ \A r \in Ranks : r # p[1] \/ Op(p).op # "finalize" => team'[r].finalized = team[r].finalized
<1>1. p[1] \in Ranks
  BY Known
<1>2. DOMAIN team = Ranks /\ \A r \in Ranks : DOMAIN team[r] = {"forked", "taken", "lock", "finalized"}
  BY DEF IInv, Typed, TeamTyped
<1>3. CASE team' = team
  BY <1>3
<1>4. CASE Op(p).op = "finalize" /\ team' = [team EXCEPT ![p[1]].finalized = TRUE]
  BY <1>1, <1>2, <1>4
<1>5. QED
  BY <1>3, <1>4 DEF Entering

LEMMA TeamExecuting ==
  ASSUME IInv, NEW p \in Procs, Executing(p)
  PROVE  /\ \A r \in Ranks : /\ team'[r].forked = team[r].forked /\ team'[r].taken = team[r].taken
                             /\ team'[r].finalized = team[r].finalized
         /\ \A r \in Ranks : r # p[1] => team'[r].lock = team[r].lock
         /\ Op(p).op = "lock" => team[p[1]].lock = -1 /\ team'[p[1]].lock = p[2]
         /\ Op(p).op \notin {"lock", "unlock"} => team'[p[1]].lock = team[p[1]].lock
<1>1. p[1] \in Ranks
  BY Known
<1>2. DOMAIN team = Ranks /\ \A r \in Ranks : DOMAIN team[r] = {"forked", "taken", "lock", "finalized"}
  BY DEF IInv, Typed, TeamTyped
<1>3. LockStep(p)
  BY DEF Executing
<1>4. CASE Op(p).op = "lock"
  <2>1. team[p[1]].lock = -1 /\ team' = [team EXCEPT ![p[1]].lock = p[2]]
    BY <1>3, <1>4 DEF LockStep
  <2>2. QED
    BY <1>1, <1>2, <1>4, <2>1
<1>5. CASE Op(p).op = "unlock"
  <2>1. team' = [team EXCEPT ![p[1]].lock = -1]
    BY <1>3, <1>5 DEF LockStep
  <2>2. QED
    BY <1>1, <1>2, <1>5, <2>1
<1>6. CASE Op(p).op \notin {"lock", "unlock"}
  <2>1. team' = team
    BY <1>3, <1>6 DEF LockStep
  <2>2. QED
    BY <1>6, <2>1
<1>7. QED
  BY <1>4, <1>5, <1>6

LEMMA TeamTaking ==
  ASSUME IInv, NEW p \in Procs, Taking(p)
  PROVE  /\ \A r \in Ranks : /\ team'[r].forked = team[r].forked /\ team'[r].lock = team[r].lock
                             /\ team'[r].finalized = team[r].finalized
         /\ \A r \in Ranks : r # p[1] => team'[r].taken = team[r].taken
         /\ team'[p[1]].taken = team[p[1]].taken \cup {th'[p].item}
         /\ th'[p].item \notin team[p[1]].taken
<1>1. p[1] \in Ranks
  BY Known
<1>2. DOMAIN team = Ranks /\ \A r \in Ranks : DOMAIN team[r] = {"forked", "taken", "lock", "finalized"}
  BY DEF IInv, Typed, TeamTyped
<1>3. th'[p].item \notin team[p[1]].taken /\ team' = [team EXCEPT ![p[1]].taken = @ \cup {th'[p].item}]
  BY DEF Taking
<1> DEFINE item == th'[p].item
<1> HIDE DEF item
<1>4. team' = [team EXCEPT ![p[1]].taken = @ \cup {item}]
  BY <1>3 DEF item
<1>5. /\ \A r \in Ranks : /\ team'[r].forked = team[r].forked /\ team'[r].lock = team[r].lock
                          /\ team'[r].finalized = team[r].finalized
      /\ \A r \in Ranks : r # p[1] => team'[r].taken = team[r].taken
      /\ team'[p[1]].taken = team[p[1]].taken \cup {item}
  BY <1>1, <1>2, <1>4
<1>6. QED
  BY <1>3, <1>5 DEF item

LEMMA TeamMeeting ==
  ASSUME IInv, NEW s \in Ranks, Meeting(s)
  PROVE  /\ \A r \in Ranks : /\ team'[r].taken = team[r].taken /\ team'[r].lock = team[r].lock
                             /\ team'[r].finalized = team[r].finalized
         /\ \A r \in Ranks : r # s => team'[r].forked = team[r].forked
<1>1. DOMAIN team = Ranks /\ \A r \in Ranks : DOMAIN team[r] = {"forked", "taken", "lock", "finalized"}
  BY DEF IInv, Typed, TeamTyped
<1>2. team' = [team EXCEPT ![s].forked = TRUE]
  BY DEF Meeting
<1>3. QED
  BY <1>1, <1>2

\* What happens to one thread.
LEMMA ThreadChanges ==
  ASSUME IInv, [Next]_vars, NEW p \in Procs
  PROVE  \/ th'[p] = th[p]
         \/ Entering(p) \/ Executing(p) \/ Taking(p) \/ Meeting(p[1]) \/ Stopping(p[1])
<1>1. CASE Still
  BY <1>1 DEF Still
<1>2. ASSUME NEW q \in Procs, Entering(q) \/ Executing(q) \/ Taking(q), q # p
      PROVE  th'[p] = th[p]
  BY <1>2 DEF Entering, Executing, Taking, OthersRest
<1>3. ASSUME NEW r \in Ranks, Meeting(r) \/ Stopping(r), r # p[1]
      PROVE  th'[p] = th[p]
  BY <1>3 DEF Meeting, Stopping
<1>4. QED
  BY <1>1, <1>2, <1>3, Kinds

LEMMA MeetingFollows ==
  ASSUME IInv, NEW p \in Procs, Meeting(p[1])
  PROVE  /\ Op(p).op \in Meets /\ ~Finished(p) /\ Follows(th'[p], p)
         /\ ~AtStart(p) /\ th[p].item = NoItem /\ Op(p) = CodeOf(p)[th[p].at] /\ th[p].at \in DOMAIN CodeOf(p)
<1>1. p = <<p[1], p[2]>> /\ p[2] \in Tids
  BY Known
<1>2. \A t \in Tids : Op(<<p[1], t>>).op \in Meets
  BY DEF Meeting
<1>3. Op(p).op \in Meets
  BY <1>1, <1>2
<1>4. th'[p] = Advance(p)
  BY DEF Meeting
<1>5. ~Finished(p) /\ ~AtStart(p)
  BY <1>3 DEF Finished, Meets, AtStart
<1>6. QED
  BY <1>3, <1>4, <1>5, AdvanceFollows, OpIsCode

LEMMA EnteringSame == ASSUME NEW p, Entering(p) PROVE SamePlace(p) /\ th'[p].in = TRUE /\ Op(p).op \in MpiOps
BY DEF Entering, SamePlace

\* The parts about one thread.
LEMMA PlaceKept ==
  ASSUME IInv, Together, [Next]_vars, NEW p \in Procs
  PROVE  PlaceInv(p)'
<1>1. job' = job
  BY Kinds
<1>2. PlaceInv(p) /\ (TooLow' <=> TooLow) /\ CodeOf(p)' = CodeOf(p)
  BY <1>1 DEF Together, TooLow, CodeOf
<1>3. CASE th'[p] = th[p]
  BY <1>1, <1>2, <1>3, RestsSame, SamePlaceSame DEF PlaceInv
<1>4. CASE Entering(p)
  <2>1. SamePlace(p) /\ Op(p).op \in MpiOps
    BY <1>4, EnteringSame
  <2>2. QED
    BY <1>1, <1>2, <2>1, SamePlaceSame DEF PlaceInv, SamePlace
<1>5. CASE ~Finished(p) /\ Follows(th'[p], p)
  <2>1. p[2] # 0 => th'[p].at # 0
    <3>1. th[p].at \in Nat /\ (th'[p].at = th[p].at + 1 \/ th'[p].at = th[p].at)
      BY <1>1, <1>5, Executed, Known
    <3>2. QED
      BY ONLY <1>2, <3>1 DEF PlaceInv
  <2>2. QED
    BY <1>1, <1>2, <1>5, <2>1, Executed DEF PlaceInv
<1>6. CASE Taking(p)
  BY <1>1, <1>2, <1>6, Took DEF PlaceInv
<1>7. CASE Stopping(p[1])
  <2>1. TooLow /\ p[1] \in Ranks
    BY <1>7, Known DEF Stopping
  <2>2. QED
    BY <1>1, <1>2, <1>7, <2>1, Stopped DEF PlaceInv
<1>8. Executing(p) => ~Finished(p) /\ Follows(th'[p], p)
  BY DEF Executing
<1>9. QED
  BY <1>3, <1>4, <1>5, <1>6, <1>7, <1>8, ThreadChanges, MeetingFollows

\* A team meets together, and nobody on his own.
LEMMA MetChanges ==
  ASSUME IInv, Together, [Next]_vars, NEW p \in Procs
  PROVE  Met(p)' = IF Meeting(p[1]) THEN Met(p) + 1 ELSE Met(p)
<1>1. job' = job
  BY Kinds
<1>2. CASE Meeting(p[1])
  BY <1>1, <1>2, MeetingFollows, Executed
<1>3. CASE ~Meeting(p[1])
  <2>1. CASE th'[p] = th[p]
    BY <1>1, <1>3, <2>1, RestsSame, SamePlaceSame
  <2>2. CASE Entering(p)
    BY <1>1, <1>3, <2>2, EnteringSame, SamePlaceSame
  <2>3. CASE Executing(p)
    <3>1. ~Finished(p) /\ Follows(th'[p], p) /\ Op(p).op \notin Meets
      BY <2>3 DEF Executing
    <3>2. QED
      BY <1>1, <1>3, <3>1, Executed
  <2>4. CASE Taking(p)
    BY <1>1, <1>3, <2>4, Took
  <2>5. CASE Stopping(p[1])
    BY <1>1, <1>3, <2>5, Stopped, Known
  <2>6. QED
    BY <1>3, <2>1, <2>2, <2>3, <2>4, <2>5, ThreadChanges
<1>4. QED
  BY <1>2, <1>3

LEMMA MetIsNat == ASSUME IInv, NEW p \in Procs PROVE Met(p) \in Nat
BY Known, MeetsCounted DEF Met

LEMMA TeamKept ==
  ASSUME IInv, Together, [Next]_vars, NEW p \in Procs
  PROVE  TeamInv(p)'
<1>1. TeamInv(p) /\ p[1] \in Ranks /\ job' = job /\ Met(p) \in Nat
  BY Kinds, Known, MetIsNat DEF Together
<1>2. ASSUME NEW q \in Mates(p) PROVE Met(q)' = Met(p)'
  <2>1. q \in Procs /\ q[1] = p[1]
    BY DEF Mates
  <2>2. Met(q) = Met(p)
    BY <1>1 DEF TeamInv
  <2>3. QED
    BY <2>1, <2>2, MetChanges
<1>3. team'[p[1]].forked => Met(p)' # 0
  <2>1. CASE Meeting(p[1])
    BY <1>1, <2>1, MetChanges
  <2>2. CASE ~Meeting(p[1])
    <3>1. team'[p[1]].forked = team[p[1]].forked
      <4>1. CASE Still
        BY <4>1 DEF Still
      <4>2. ASSUME NEW q \in Procs, Entering(q) \/ Executing(q) \/ Taking(q)
            PROVE  team'[p[1]].forked = team[p[1]].forked
        BY <1>1, <4>2, TeamEntering, TeamExecuting, TeamTaking
      <4>3. ASSUME NEW r \in Ranks, Meeting(r)
            PROVE  team'[p[1]].forked = team[p[1]].forked
        BY <1>1, <2>2, <4>3, TeamMeeting
      <4>4. ASSUME NEW r \in Ranks, Stopping(r)
            PROVE  team'[p[1]].forked = team[p[1]].forked
        BY <4>4 DEF Stopping
      <4>5. QED
        BY <4>1, <4>2, <4>3, <4>4, Kinds
    <3>2. QED
      BY <1>1, <2>2, <3>1, MetChanges DEF TeamInv
  <2>3. QED
    BY <2>1, <2>2
<1>4. TooLow' /\ p[2] = 0 => th'[p].at = 0
  <2>1. SUFFICES ASSUME TooLow, p[2] = 0 PROVE th'[p].at = 0
    BY <1>1 DEF TooLow
  <2>2. th[p].at = 0 /\ Op(p).op \in {"none", "init"}
    BY <1>1, <2>1, NotBegun DEF TeamInv
  <2>3. ~Executing(p)
    BY <2>1, <2>2 DEF Executing, Finished
  <2>4. ~Meeting(p[1])
    BY <2>2, MeetingFollows DEF Meets
  <2>5. CASE th'[p] = th[p]
    BY <2>2, <2>5
  <2>6. CASE Entering(p)
    BY <2>2, <2>6 DEF Entering
  <2>7. CASE Taking(p)
    BY <1>1, <2>2, <2>7, Took
  <2>8. CASE Stopping(p[1])
    BY <1>1, <2>2, <2>8, Stopped
  <2>9. QED
    BY <2>3, <2>4, <2>5, <2>6, <2>7, <2>8, ThreadChanges
<1>5. QED
  BY <1>2, <1>3, <1>4 DEF TeamInv, Mates

\* The items of a rank.
LEMMA ItemChanges ==
  ASSUME IInv, Together, [Next]_vars, NEW q \in Procs
  PROVE  th'[q].item \in {th[q].item, NoItem} \/ (Taking(q) /\ th'[q].item \notin team[q[1]].taken)
<1>1. job' = job
  BY Kinds
<1>2. CASE th'[q] = th[q]
  BY <1>2
<1>3. CASE Entering(q)
  BY <1>3 DEF Entering
<1>4. CASE ~Finished(q) /\ Follows(th'[q], q)
  BY <1>1, <1>4, Executed
<1>5. CASE Taking(q)
  BY <1>5, TeamTaking
<1>6. CASE Stopping(q[1])
  BY <1>1, <1>6, Stopped, Known
<1>7. Executing(q) => ~Finished(q) /\ Follows(th'[q], q)
  BY DEF Executing
<1>8. QED
  BY <1>2, <1>3, <1>4, <1>5, <1>6, <1>7, ThreadChanges, MeetingFollows

LEMMA TakenGrows ==
  ASSUME IInv, [Next]_vars, NEW r \in Ranks
  PROVE  /\ team[r].taken \subseteq team'[r].taken
         /\ \A x \in team'[r].taken : x \in team[r].taken \/ \E p \in Procs : Taking(p) /\ x = th'[p].item
<1>1. CASE Still
  BY <1>1 DEF Still
<1>2. ASSUME NEW p \in Procs, Entering(p) \/ Executing(p)
      PROVE  team'[r].taken = team[r].taken
  BY <1>2, TeamEntering, TeamExecuting
<1>3. ASSUME NEW p \in Procs, Taking(p)
      PROVE  team'[r].taken = team[r].taken \/ team'[r].taken = team[r].taken \cup {th'[p].item}
  <2>1. p[1] = r \/ p[1] # r
    OBVIOUS
  <2>2. QED
    BY <1>3, <2>1, TeamTaking
<1>4. ASSUME NEW s \in Ranks, Meeting(s)
      PROVE  team'[r].taken = team[r].taken
  BY <1>4, TeamMeeting
<1>5. ASSUME NEW s \in Ranks, Stopping(s)
      PROVE  team'[r].taken = team[r].taken
  BY <1>5 DEF Stopping
<1>6. CASE \E p \in Procs : Taking(p)
  BY <1>3, <1>6
<1>7. CASE team'[r].taken = team[r].taken
  BY <1>7
<1>8. QED
  BY <1>1, <1>2, <1>4, <1>5, <1>6, <1>7, Kinds DEF Still

LEMMA DoneKept ==
  ASSUME IInv, Together, [Next]_vars, NEW r \in Ranks, NEW x, ItemDone(r, x)
  PROVE  ItemDone(r, x)'
<1>1. x \in team[r].taken /\ x \in team'[r].taken /\ x # NoItem
  BY TakenGrows DEF ItemDone, Together
<1>2. ASSUME NEW t \in Tids PROVE th'[<<r, t>>].item # x
  <2> DEFINE q == <<r, t>>
  <2>1. q \in Procs /\ q[1] = r /\ th[q].item # x
    BY DEF Procs, ItemDone
  <2> HIDE DEF q
  <2>2. th'[q].item \in {th[q].item, NoItem} \/ th'[q].item \notin team[r].taken
    BY <2>1, ItemChanges
  <2>3. th'[q].item # x
    BY <1>1, <2>1, <2>2
  <2>4. QED
    BY <2>3 DEF q
<1>3. QED
  BY <1>1, <1>2 DEF ItemDone

LEMMA ItemKept ==
  ASSUME IInv, Together, [Next]_vars, NEW p \in Procs
  PROVE  ItemInv(p)'
<1> DEFINE cs == CodeOf(p)
           r == p[1]
           x == th[p].item
<1>1. job' = job /\ CodeOf(p)' = cs /\ r \in Ranks /\ ItemInv(p) /\ NoItem \notin team[r].taken
  BY Kinds, Known DEF Together, CodeOf
<1>2. ASSUME th'[p].item = x, th'[p].at = th[p].at, ~Taking(p), x # NoItem PROVE ItemInv(p)'
  <2> DEFINE work == cs[th[p].at]
  <2>1. /\ x = <<work.tag, x[2]>> /\ x \in team[r].taken
        /\ \A q \in Mates(p) : th[q].item # x
        /\ \A j \in work.items[x[2]].after : ItemDone(r, <<work.tag, j>>)
    BY <1>1, <1>2 DEF ItemInv
  <2>2. x \in team'[r].taken
    BY <1>1, <2>1, TakenGrows
  <2>3. ASSUME NEW q \in Mates(p) PROVE th'[q].item # x
    <3>1. q \in Procs /\ q[1] = r
      BY DEF Mates
    <3>2. th'[q].item \in {th[q].item, NoItem} \/ th'[q].item \notin team[r].taken
      BY <3>1, ItemChanges
    <3>3. QED
      BY <1>2, <2>1, <3>2
  <2>4. ASSUME NEW j \in work.items[x[2]].after
        PROVE  <<work.tag, j>> \in team'[r].taken /\ \A t \in Tids : th'[<<r, t>>].item # <<work.tag, j>>
    <3>1. PICK z : z = <<work.tag, j>>
      OBVIOUS
    <3>2. ItemDone(r, z)
      BY <2>1, <3>1
    <3>3. ItemDone(r, z)'
      BY <1>1, <3>2, DoneKept
    <3>4. QED
      BY <3>1, <3>3 DEF ItemDone
  <2>5. th'[p].item = x /\ CodeOf(p)'[th'[p].at] = work
    BY <1>1, <1>2
  <2> HIDE DEF work, x
  <2>6. QED
    BY <2>1, <2>2, <2>3, <2>4, <2>5 DEF ItemInv, Mates, ItemDone
<1>3. ASSUME th'[p].item = NoItem PROVE ItemInv(p)'
  BY <1>3 DEF ItemInv
<1>4. CASE Taking(p)
  <2> DEFINE work == cs[th[p].at]
             y == th'[p].item
  <2>1. /\ Op(p) = work /\ th[p].item = NoItem /\ th'[p].at = th[p].at /\ y # NoItem
    BY <1>1, <1>4, Took
  <2>2. PICK i \in DOMAIN work.items :
          /\ y = <<work.tag, i>>
          /\ \A j \in work.items[i].after : ItemDone(r, <<work.tag, j>>)
    BY <1>4, <2>1 DEF Taking
  <2>3. y \notin team[r].taken /\ y \in team'[r].taken
    BY <1>4, TeamTaking
  <2>4. ASSUME NEW q \in Mates(p) PROVE th'[q].item # y
    <3>1. q \in Procs /\ q[1] = r /\ q # p
      BY DEF Mates
    <3>2. th'[q] = th[q]
      BY <1>4, <3>1 DEF Taking, OthersRest
    <3>3. ItemInv(q)
      BY <3>1 DEF Together
    <3>4. th[q].item # NoItem => th[q].item \in team[r].taken
      BY <3>1, <3>3 DEF ItemInv
    <3>5. QED
      BY <2>1, <2>3, <3>2, <3>4
  <2>5. ASSUME NEW j \in work.items[i].after
        PROVE  <<work.tag, j>> \in team'[r].taken /\ \A t \in Tids : th'[<<r, t>>].item # <<work.tag, j>>
    <3>1. PICK z : z = <<work.tag, j>>
      OBVIOUS
    <3>2. ItemDone(r, z)
      BY <2>2, <3>1
    <3>3. ItemDone(r, z)'
      BY <1>1, <3>2, DoneKept
    <3>4. QED
      BY <3>1, <3>3 DEF ItemDone
  <2>6. y[2] = i /\ y = <<work.tag, y[2]>> /\ CodeOf(p)'[th'[p].at] = work
    BY <1>1, <2>1, <2>2
  <2> HIDE DEF work
  <2>7. QED
    BY <2>3, <2>4, <2>5, <2>6 DEF ItemInv, Mates, ItemDone
<1>5. CASE th'[p] = th[p] /\ ~Taking(p)
  BY <1>2, <1>3, <1>5
<1>6. CASE Entering(p) /\ ~Taking(p)
  BY <1>2, <1>3, <1>6 DEF Entering
<1>7. CASE ~Finished(p) /\ Follows(th'[p], p) /\ ~Taking(p)
  BY <1>1, <1>2, <1>3, <1>7, Executed
<1>8. CASE Stopping(p[1])
  BY <1>1, <1>3, <1>8, Stopped
<1>9. Executing(p) => ~Finished(p) /\ Follows(th'[p], p)
  BY DEF Executing
<1>10. QED
  BY <1>4, <1>5, <1>6, <1>7, <1>8, <1>9, ThreadChanges, MeetingFollows

\* The lock of a rank.
LEMMA LockChanges ==
  ASSUME IInv, Together, [Next]_vars, NEW r \in Ranks
  PROVE  \/ team'[r].lock = team[r].lock
         \/ \E q \in Procs : /\ q[1] = r /\ Executing(q)
                             /\ Op(q).op = "unlock" \/ (Op(q).op = "lock" /\ team[r].lock = -1)
<1>1. CASE Still
  BY <1>1 DEF Still
<1>2. ASSUME NEW p \in Procs, Entering(p) \/ Taking(p)
      PROVE  team'[r].lock = team[r].lock
  BY <1>2, TeamEntering, TeamTaking
<1>3. ASSUME NEW p \in Procs, Executing(p), team'[r].lock # team[r].lock
      PROVE  p[1] = r /\ (Op(p).op = "unlock" \/ (Op(p).op = "lock" /\ team[r].lock = -1))
  BY <1>3, TeamExecuting
<1>4. ASSUME NEW s \in Ranks, Meeting(s)
      PROVE  team'[r].lock = team[r].lock
  BY <1>4, TeamMeeting
<1>5. ASSUME NEW s \in Ranks, Stopping(s)
      PROVE  team'[r].lock = team[r].lock
  BY <1>5 DEF Stopping
<1>6. QED
  BY <1>1, <1>2, <1>3, <1>4, <1>5, Kinds

LEMMA LockKept ==
  ASSUME IInv, Together, [Next]_vars, NEW p \in Procs
  PROVE  LockInv(p)'
<1> DEFINE r == p[1]
<1>1. job' = job /\ r \in Ranks /\ LockInv(p) /\ p[2] \in Tids /\ p[2] # -1
  BY Kinds, Known DEF Together, Tids, NUM_THREADS
<1>2. SUFFICES ASSUME HoldsLock(p)' PROVE team'[r].lock = p[2]
  BY DEF LockInv
<1>3. CASE ~Executing(p) /\ HoldsLock(p)
  <2>1. team[r].lock = p[2]
    BY <1>1, <1>3 DEF LockInv
  <2>2. ASSUME NEW q \in Procs, q[1] = r, Executing(q), Op(q).op = "unlock" PROVE FALSE
    <3>1. HoldsLock(q) /\ LockInv(q)
      BY <1>1, <2>2, Executed DEF Executing, Together
    <3>2. q[2] = p[2]
      BY <2>1, <2>2, <3>1 DEF LockInv
    <3>3. q = p
      BY <2>2, <3>2, Known
    <3>4. QED
      BY <1>3, <2>2, <3>3
  <2>3. QED
    BY <1>1, <2>1, <2>2, LockChanges
<1>4. CASE Executing(p)
  <2>1. ~Finished(p) /\ Follows(th'[p], p)
    BY <1>4 DEF Executing
  <2>2. Op(p).op = "lock" \/ (Op(p).op # "unlock" /\ HoldsLock(p))
    BY <1>1, <1>2, <2>1, Executed
  <2>3. CASE Op(p).op = "lock"
    BY <1>4, <2>3, TeamExecuting
  <2>4. CASE Op(p).op \notin {"lock", "unlock"} /\ HoldsLock(p)
    <3>1. team'[r].lock = team[r].lock
      BY <1>4, <2>4, TeamExecuting
    <3>2. QED
      BY <1>1, <2>4, <3>1 DEF LockInv
  <2>5. QED
    BY <2>2, <2>3, <2>4
<1>5. ~Executing(p) => HoldsLock(p)
  <2>1. CASE th'[p] = th[p]
    BY <1>1, <1>2, <2>1, RestsSame, SamePlaceSame
  <2>2. CASE Entering(p)
    BY <1>1, <1>2, <2>2, EnteringSame, SamePlaceSame
  <2>3. CASE Meeting(p[1])
    <3>1. ~Finished(p) /\ Follows(th'[p], p) /\ Op(p).op # "lock"
      BY <2>3, MeetingFollows DEF Meets
    <3>2. QED
      BY <1>1, <1>2, <3>1, Executed
  <2>4. CASE Taking(p)
    BY <1>1, <1>2, <2>4, Took
  <2>5. CASE Stopping(p[1])
    BY <1>1, <1>2, <2>5, Stopped
  <2>6. QED
    BY <2>1, <2>2, <2>3, <2>4, <2>5, ThreadChanges
<1>6. QED
  BY <1>3, <1>4, <1>5

\* What a thread executes is what its code does where it is.
LEMMA DoesHere ==
  ASSUME IInv, NEW p \in Procs, NEW ops, ~Finished(p), ~AtStart(p), Op(p).op \in ops
  PROVE  th[p].at \in DOMAIN CodeOf(p) /\ Does(CodeOf(p)[th[p].at], ops)
<1>1. th[p].at \in DOMAIN CodeOf(p)
  BY OpIsCode
<1>2. CASE th[p].item = NoItem
  BY <1>1, <1>2, OpIsCode DEF Does
<1>3. CASE th[p].item # NoItem
  <2>1. AtItem(p) /\ CodeOf(p)[th[p].at].op = "work"
    BY <1>3, OpIsCode
  <2>2. /\ th[p].item[2] \in DOMAIN CodeOf(p)[th[p].at].items
        /\ th[p].step \in DOMAIN ItemCode(p) /\ Op(p) = ItemCode(p)[th[p].step]
    BY <2>1 DEF AtItem
  <2>3. QED
    BY <1>1, <2>1, <2>2 DEF Does, ItemCode
<1>4. QED
  BY <1>2, <1>3

\* Main leaves its call of MPI_Finalize behind.
LEMMA MainGoesOn ==
  ASSUME IInv, Together, [Next]_vars, NEW p \in Procs, NEW k \in DOMAIN CodeOf(p), CodeOf(p)[k].op = "finalize",
         th[p].at > k \/ (th[p].at = k /\ th[p].in)
  PROVE  th'[p].at > k \/ (th'[p].at = k /\ th'[p].in)
<1>1. job' = job /\ th[p].at \in Nat /\ k \in Nat
  BY Kinds, Known
<1>2. CASE th'[p] = th[p]
  BY <1>2
<1>3. CASE Entering(p)
  BY <1>3 DEF Entering
<1>4. CASE ~Finished(p) /\ Follows(th'[p], p)
  <2>1. CASE th[p].item = NoItem
    <3>1. th'[p].at = th[p].at + 1
      BY <1>1, <1>4, <2>1, Executed
    <3>2. QED
      BY <1>1, <3>1
  <2>2. CASE th[p].item # NoItem
    <3>1. th'[p].at = th[p].at
      BY <1>1, <1>4, <2>2, Executed
    <3>2. CodeOf(p)[th[p].at].op = "work"
      BY <1>4, <2>2, OpIsCode DEF AtStart
    <3>3. QED
      BY <1>1, <3>1, <3>2
  <2>3. QED
    BY <2>1, <2>2
<1>5. CASE Taking(p)
  BY <1>1, <1>5, Took DEF Taking
<1>6. CASE Stopping(p[1])
  <2>1. ~th[p].in /\ th'[p].at = th[p].at
    BY <1>1, <1>6, NothingWhenTooLow, Stopped, Known DEF Stopping
  <2>2. QED
    BY <2>1
<1>7. Executing(p) => ~Finished(p) /\ Follows(th'[p], p)
  BY DEF Executing
<1>8. QED
  BY <1>2, <1>3, <1>4, <1>5, <1>6, <1>7, ThreadChanges, MeetingFollows

LEMMA FinalizedBy ==
  ASSUME IInv, [Next]_vars, NEW r \in Ranks
  PROVE  \/ team'[r].finalized = team[r].finalized
         \/ \E p \in Procs : p[1] = r /\ Entering(p) /\ Op(p).op = "finalize"
<1>1. CASE Still
  BY <1>1 DEF Still
<1>2. ASSUME NEW p \in Procs, Executing(p) \/ Taking(p)
      PROVE  team'[r].finalized = team[r].finalized
  BY <1>2, TeamExecuting, TeamTaking
<1>3. ASSUME NEW p \in Procs, Entering(p), team'[r].finalized # team[r].finalized
      PROVE  p[1] = r /\ Op(p).op = "finalize"
  BY <1>3, TeamEntering
<1>4. ASSUME NEW s \in Ranks, Meeting(s)
      PROVE  team'[r].finalized = team[r].finalized
  BY <1>4, TeamMeeting
<1>5. ASSUME NEW s \in Ranks, Stopping(s)
      PROVE  team'[r].finalized = team[r].finalized
  BY <1>5 DEF Stopping
<1>6. QED
  BY <1>1, <1>2, <1>3, <1>4, <1>5, Kinds

LEMMA FinalizeKept ==
  ASSUME IInv, Together, [Next]_vars, NEW r \in Ranks
  PROVE  FinalizeInv(r)'
<1> DEFINE m == <<r, 0>>
           cs == job.code[r][0]
           Left(k) == cs[k].op = "finalize" /\ (th[m].at > k \/ (th[m].at = k /\ th[m].in))
<1>1. job' = job /\ m \in Procs /\ CodeOf(m) = cs /\ FinalizeInv(r)
  BY Kinds DEF Procs, Tids, NUM_THREADS, CodeOf, Together
<1>2. SUFFICES ASSUME team'[r].finalized, FinalizesLast(job.code[r])
               PROVE  \E k \in DOMAIN cs : cs[k].op = "finalize" /\ (th'[m].at > k \/ (th'[m].at = k /\ th'[m].in))
  BY <1>1 DEF FinalizeInv
<1>3. CASE team'[r].finalized = team[r].finalized
  <2>1. PICK k \in DOMAIN cs : Left(k)
    BY <1>1, <1>2, <1>3 DEF FinalizeInv
  <2>2. k \in DOMAIN CodeOf(m) /\ CodeOf(m)[k].op = "finalize" /\ (th[m].at > k \/ (th[m].at = k /\ th[m].in))
    BY <1>1, <2>1
  <2> HIDE DEF m
  <2>3. th'[m].at > k \/ (th'[m].at = k /\ th'[m].in)
    BY <1>1, <2>2, MainGoesOn
  <2>4. QED
    BY <1>1, <2>2, <2>3
<1>4. CASE \E p \in Procs : p[1] = r /\ Entering(p) /\ Op(p).op = "finalize"
  <2>1. PICK p \in Procs : p[1] = r /\ Entering(p) /\ Op(p).op = "finalize"
    BY <1>4
  <2>2. ~Finished(p) /\ ~AtStart(p)
    BY <2>1 DEF Finished, AtStart
  <2>3. th[p].at \in DOMAIN CodeOf(p) /\ Does(CodeOf(p)[th[p].at], {"finalize"})
    BY <2>1, <2>2, DoesHere
  <2>4. CodeOf(p) = job.code[r][p[2]] /\ p[2] \in Tids
    BY <2>1, Known
  <2>5. p[2] = 0 /\ CodeOf(p)[th[p].at].op = "finalize"
    BY <1>2, <2>3, <2>4 DEF FinalizesLast
  <2>6. p = m
    BY <2>1, <2>5, Known
  <2>7. th'[m].at = th[m].at /\ th'[m].in
    BY <2>1, <2>6 DEF Entering
  <2>8. QED
    BY <1>1, <2>3, <2>5, <2>6, <2>7
<1>5. QED
  BY <1>3, <1>4, FinalizedBy

LEMMA TogetherKept ==
  ASSUME IInv, Together, [Next]_vars PROVE Together'
<1>1. ASSUME NEW p \in Procs PROVE (PlaceInv(p) /\ TeamInv(p) /\ ItemInv(p) /\ LockInv(p))'
  BY PlaceKept, TeamKept, ItemKept, LockKept
<1>2. ASSUME NEW r \in Ranks PROVE (NoItem \notin team[r].taken /\ FinalizeInv(r))'
  <2>1. ASSUME NoItem \in team'[r].taken PROVE FALSE
    <3>1. job' = job /\ NoItem \notin team[r].taken
      BY Kinds DEF Together
    <3>2. \E p \in Procs : Taking(p) /\ NoItem = th'[p].item
      BY <2>1, <3>1, TakenGrows
    <3>3. QED
      BY <3>1, <3>2, Took
  <2>2. QED
    BY <2>1, FinalizeKept
<1>3. job'.level \in SINGLE..MULTIPLE
  BY Kinds DEF Together
<1>4. QED
  BY <1>1, <1>2, <1>3 DEF Together

LEMMA InitiallyTogether == Init => Together
<1> SUFFICES ASSUME Init PROVE Together
  OBVIOUS
<1>1. IInv
  BY Initially
<1>2. job.level \in SINGLE..MULTIPLE
  <2>1. PICK n \in DOMAIN Program : job.level = Program[n].level
    BY DEF Init
  <2>2. QED
    BY <2>1, ProgramAssumption
<1>3. \A r \in Ranks : team[r].forked = FALSE /\ team[r].taken = {} /\ team[r].finalized = FALSE
  BY DEF Init
<1>4. ASSUME NEW p \in Procs
      PROVE  th[p].at = p[2] /\ th[p].item = NoItem /\ ~th[p].in /\ Op(p) = IF p[2] = 0 THEN InitThread ELSE Nth(CodeOf(p), 1)
  BY ThreadsInitially DEF Op
<1>5. ASSUME NEW p \in Procs PROVE Met(p) = 0 /\ (p[2] = 0 \/ p[2] = 1)
  <2>1. p[2] = 0 \/ p[2] = 1
    BY DEF Procs, Tids, NUM_THREADS
  <2>2. QED
    BY <1>4, <2>1, MeetsNone DEF Met
<1>6. ASSUME NEW p \in Procs PROVE PlaceInv(p)
  <2>1. ASSUME Finished(p) PROVE th[p].at = Len(CodeOf(p)) + 1
    <3>1. Op(p).op = "none" /\ InitThread.op = "init"
      BY <2>1 DEF Finished, InitThread, Blank
    <3>2. p[2] = 1 /\ Op(p) = Nth(CodeOf(p), 1) /\ th[p].at = 1
      BY <1>4, <1>5, <3>1
    <3>3. IsCode(CodeOf(p)) /\ Len(CodeOf(p)) \in Nat /\ DOMAIN CodeOf(p) = 1..Len(CodeOf(p))
      BY <1>1, Known
    <3>4. 1 \notin DOMAIN CodeOf(p)
      BY <3>1, <3>2, <3>3 DEF Nth, IsCode
    <3> DEFINE n == Len(CodeOf(p))
    <3> HIDE DEF n
    <3>5. n = 0
      BY <3>3, <3>4 DEF n
    <3>6. QED
      BY <3>2, <3>5 DEF n
  <2>2. QED
    BY <1>4, <1>5, <2>1 DEF PlaceInv
<1>7. ASSUME NEW p \in Procs PROVE TeamInv(p)
  <2>1. \A q \in Mates(p) : Met(q) = Met(p)
    BY <1>5 DEF Mates
  <2>2. p[1] \in Ranks
    BY DEF Procs
  <2>3. QED
    BY <1>3, <1>4, <2>1, <2>2 DEF TeamInv
<1>8. ASSUME NEW p \in Procs PROVE ItemInv(p) /\ LockInv(p)
  <2>1. ItemInv(p)
    BY <1>4 DEF ItemInv
  <2>2. ~HoldsLock(p)
    <3>1. ~Locked(CodeOf(p), th[p].at)
      BY <1>4, <1>5, InsideFirst
    <3>2. QED
      BY <1>4, <3>1 DEF HoldsLock
  <2>3. QED
    BY <2>1, <2>2 DEF LockInv
<1>9. ASSUME NEW r \in Ranks PROVE NoItem \notin team[r].taken /\ FinalizeInv(r)
  BY <1>3 DEF FinalizeInv
<1>10. QED
  BY <1>2, <1>6, <1>7, <1>8, <1>9 DEF Together

LEMMA AlwaysTogether == Spec => []Together
<1>1. Init => Together
  BY InitiallyTogether
<1>2. IInv /\ Together /\ [Next]_vars => Together'
  BY TogetherKept
<1>3. QED
  BY <1>1, <1>2, Invariance, PTL DEF Spec
-----------------------------------------------------------------------------
(***************************************************************************)
(* Calls that the code keeps apart.                                        *)
(***************************************************************************)
\* The instruction is under the lock, and so is its thread.
LEMMA UnderLockHolds ==
  ASSUME IInv, NEW p \in Procs, NEW ops, ~Finished(p), ~AtStart(p), Op(p).op \in ops,
         UnderLock(CodeOf(p), th[p].at, ops)
  PROVE  HoldsLock(p)
<1>1. CASE th[p].item = NoItem
  BY <1>1, OpIsCode DEF UnderLock, HoldsLock
<1>2. CASE th[p].item # NoItem
  <2>1. AtItem(p) /\ CodeOf(p)[th[p].at].op = "work"
    BY <1>2, OpIsCode
  <2>2. /\ th[p].item[2] \in DOMAIN CodeOf(p)[th[p].at].items
        /\ th[p].step \in DOMAIN ItemCode(p) /\ Op(p) = ItemCode(p)[th[p].step]
    BY <2>1 DEF AtItem
  <2>3. Locked(ItemCode(p), th[p].step)
    BY <2>1, <2>2 DEF UnderLock, ItemCode
  <2>4. QED
    BY <1>2, <2>3 DEF HoldsLock
<1>3. QED
  BY <1>1, <1>2

\* The item a thread is in, when it executes such an operation of a construct.
LEMMA InItem ==
  ASSUME IInv, NEW p \in Procs, NEW ops, "work" \notin ops, ~Finished(p), ~AtStart(p), Op(p).op \in ops,
         CodeOf(p)[th[p].at].op = "work"
  PROVE  /\ th[p].item # NoItem /\ th[p].item[2] \in DOMAIN CodeOf(p)[th[p].at].items
         /\ ItemDoes(CodeOf(p)[th[p].at], th[p].item[2], ops)
<1>1. th[p].item # NoItem
  BY OpIsCode
<1>2. AtItem(p)
  BY <1>1, OpIsCode
<1>3. /\ th[p].item[2] \in DOMAIN CodeOf(p)[th[p].at].items
      /\ th[p].step \in DOMAIN ItemCode(p) /\ Op(p) = ItemCode(p)[th[p].step]
  BY <1>2 DEF AtItem
<1>4. QED
  BY <1>1, <1>3 DEF ItemDoes, ItemCode

LEMMA KeptApart ==
  ASSUME IInv, Together, NEW p \in Procs, NEW q \in Mates(p), NEW ops, ops \cap {"none", "init", "work"} = {},
         Apart(job.code[p[1]], ops), Op(p).op \in ops
  PROVE  Op(q).op \notin ops
<1> DEFINE r == p[1]
           code == job.code[r]
           x == CodeOf(p)[th[p].at]
           y == CodeOf(q)[th[q].at]
<1>1. q \in Procs /\ q[1] = r /\ q # p /\ p = <<r, p[2]>> /\ q = <<r, q[2]>> /\ p[2] \in Tids /\ q[2] \in Tids
  BY Known DEF Mates
<1>2. SUFFICES ASSUME Op(q).op \in ops PROVE FALSE
  OBVIOUS
<1>3. ~Finished(p) /\ ~AtStart(p) /\ ~Finished(q) /\ ~AtStart(q)
  BY <1>2 DEF Finished, AtStart
<1>4. CodeOf(p) = code[p[2]] /\ CodeOf(q) = code[q[2]] /\ Met(q) = Met(p)
  BY <1>1 DEF CodeOf, Together, TeamInv
<1>5. Does(x, ops) /\ Does(y, ops) /\ th[p].at \in DOMAIN CodeOf(p) /\ th[q].at \in DOMAIN CodeOf(q)
  BY <1>1, <1>2, <1>3, DoesHere
<1>6. Concurrent(code, p[2], th[p].at, q[2], th[q].at, ops)
  BY <1>1, <1>4, <1>5 DEF Concurrent, Met
<1>7. \/ UnderLock(CodeOf(p), th[p].at, ops) /\ UnderLock(CodeOf(q), th[q].at, ops)
      \/ InOneConstruct(x, y, ops)
  BY <1>1, <1>4, <1>5, <1>6 DEF Apart
<1>8. CASE UnderLock(CodeOf(p), th[p].at, ops) /\ UnderLock(CodeOf(q), th[q].at, ops)
  <2>1. HoldsLock(p) /\ HoldsLock(q) /\ LockInv(p) /\ LockInv(q)
    BY <1>1, <1>2, <1>3, <1>8, UnderLockHolds DEF Together
  <2>2. p[2] = q[2]
    BY <1>1, <2>1 DEF LockInv
  <2>3. QED
    BY <1>1, <2>2
<1>9. CASE InOneConstruct(x, y, ops)
  <2> DEFINE i == th[p].item[2]
             j == th[q].item[2]
  <2>1. x.op = "work" /\ y.op = "work" /\ x.tag = y.tag /\ "work" \notin ops
    BY <1>9 DEF InOneConstruct
  <2>2. th[p].item # NoItem /\ i \in DOMAIN x.items /\ ItemDoes(x, i, ops)
    BY <1>3, <2>1, InItem
  <2>3. th[q].item # NoItem /\ j \in DOMAIN y.items /\ ItemDoes(y, j, ops)
    BY <1>1, <1>2, <1>3, <2>1, InItem
  <2>4. i = j \/ i \in y.items[j].after \/ j \in x.items[i].after
    BY <1>9, <2>2, <2>3 DEF InOneConstruct
  <2>5. ItemInv(p) /\ ItemInv(q)
    BY <1>1 DEF Together
  <2>6. /\ th[p].item = <<x.tag, i>> /\ \A u \in Mates(p) : th[u].item # th[p].item
        /\ \A k \in x.items[i].after : ItemDone(r, <<x.tag, k>>)
    BY <2>2, <2>5 DEF ItemInv
  <2>7. th[q].item = <<y.tag, j>> /\ \A k \in y.items[j].after : ItemDone(r, <<y.tag, k>>)
    BY <1>1, <2>3, <2>5 DEF ItemInv
  <2>8. i # j
    BY <2>1, <2>6, <2>7
  <2>9. i \notin y.items[j].after
    BY <1>1, <2>1, <2>6, <2>7 DEF ItemDone
  <2>10. j \notin x.items[i].after
    BY <1>1, <2>1, <2>6, <2>7 DEF ItemDone
  <2>11. QED
    BY <2>4, <2>8, <2>9, <2>10
<1>10. QED
  BY <1>7, <1>8, <1>9

\* The operations of MPI are those of threads that have begun and are not at a construct.
LEMMA MpiOpsAre ==
  /\ MpiOps \cap {"none", "init", "work", "count", "capture", "end", "take", "report", "lock", "unlock"} = {}
  /\ MpiOps \cap Meets = {} /\ Collectives \subseteq MpiOps /\ "finalize" \in MpiOps
BY DEF MpiOps, Nonblocking, Blocking, Collectives, Meets
-----------------------------------------------------------------------------
(***************************************************************************)
(* The misuses that the code of a case rules out.                          *)
(***************************************************************************)
LEMMA InMpi ==
  ASSUME IInv, Together, NEW p \in Procs, NEW q \in MatesInMpi(p)
  PROVE  q \in Mates(p) /\ q \in Procs /\ q[1] = p[1] /\ q # p /\ Op(q).op \in MpiOps /\ ~Finished(q) /\ ~AtStart(q)
<1>1. q \in Mates(p) /\ q \in Procs /\ q[1] = p[1] /\ q # p /\ th[q].in
  BY DEF MatesInMpi, Mates
<1>2. Op(q).op \in MpiOps
  BY <1>1 DEF Together, PlaceInv
<1>3. QED
  BY <1>1, <1>2, MpiOpsAre DEF Finished, AtStart

LEMMA OnlyMainIs ==
  ASSUME IInv, NEW p \in Procs, NEW ops, OnlyMainDoes(job.code[p[1]], ops), ~Finished(p), ~AtStart(p), Op(p).op \in ops
  PROVE  p[2] = 0
<1>1. th[p].at \in DOMAIN CodeOf(p) /\ Does(CodeOf(p)[th[p].at], ops) /\ p[2] \in Tids
  BY DoesHere, Known
<1>2. QED
  BY <1>1 DEF OnlyMainDoes, CodeOf

LEMMA LevelRespected ==
  ASSUME IInv, Together, NEW p \in Procs, Op(p).op \in MpiOps, job.checks, LevelIsEnough(job.code[p[1]], job.level)
  PROVE  "level" \notin CallFaults(p)
<1> DEFINE r == p[1]
<1>1. ~Finished(p) /\ ~AtStart(p) /\ Op(p).op \notin {"none", "init", "fork"}
  BY MpiOpsAre DEF Finished, AtStart, Meets
<1>2. ~TooLow
  BY <1>1, NothingWhenTooLow
<1>3. /\ job.level \in {0, 1, 2, 3} /\ job.provided \in {0, 1, 2, 3} /\ job.provided >= job.level
      /\ SINGLE = 0 /\ FUNNELED = 1 /\ SERIALIZED = 2 /\ MULTIPLE = 3
  <2>1. job.level \in 0..3 /\ job.provided \in 0..3
    BY DEF Together, IInv, Typed, SINGLE, MULTIPLE
  <2>2. job.provided >= job.level
    BY <1>2, <2>1 DEF TooLow
  <2>3. QED
    BY <2>1, <2>2 DEF SINGLE, FUNNELED, SERIALIZED, MULTIPLE
<1>4. SUFFICES /\ ~(job.provided = SINGLE /\ team[r].forked)
               /\ ~(job.provided = FUNNELED /\ p[2] # 0)
               /\ ~(job.provided < MULTIPLE /\ MatesInMpi(p) # {})
  BY DEF CallFaults
<1>5. CASE job.level = MULTIPLE
  BY <1>3, <1>5
<1>6. CASE job.level = SERIALIZED /\ Apart(job.code[r], MpiOps)
  <2>1. ASSUME NEW q \in MatesInMpi(p) PROVE FALSE
    <3>1. q \in Mates(p) /\ Op(q).op \in MpiOps
      BY InMpi
    <3>2. QED
      BY <1>6, <3>1, KeptApart, MpiOpsAre
  <2>2. QED
    BY <1>3, <1>6, <2>1
<1>7. CASE OnlyMainDoes(job.code[r], MpiOps)
  <2>1. p[2] = 0
    BY <1>1, <1>7, OnlyMainIs
  <2>2. ASSUME NEW q \in MatesInMpi(p) PROVE FALSE
    <3>1. q \in Procs /\ q[1] = r /\ q # p /\ Op(q).op \in MpiOps /\ ~Finished(q) /\ ~AtStart(q)
      BY InMpi
    <3>2. q[2] = 0
      BY <1>7, <3>1, OnlyMainIs
    <3>3. QED
      BY <2>1, <3>1, <3>2, Known
  <2>3. CASE job.level = FUNNELED
    BY <1>3, <2>1, <2>2, <2>3
  <2>4. CASE \A k \in DOMAIN job.code[r][0] : Does(job.code[r][0][k], MpiOps) => MeetsBefore(job.code[r][0], k) = 0
    <3>1. th[p].at \in DOMAIN CodeOf(p) /\ Does(CodeOf(p)[th[p].at], MpiOps) /\ CodeOf(p) = job.code[r][0]
      BY <1>1, <2>1, DoesHere DEF CodeOf
    <3>2. Met(p) = 0
      BY <2>4, <3>1 DEF Met
    <3>3. ~team[r].forked
      BY <3>2 DEF Together, TeamInv
    <3>4. QED
      BY <2>1, <2>2, <3>3
  <2>5. QED
    BY <1>6, <1>5, <2>3, <2>4 DEF LevelIsEnough
<1>8. QED
  BY <1>5, <1>6, <1>7 DEF LevelIsEnough

LEMMA CollectivesApart ==
  ASSUME IInv, Together, NEW p \in Procs, Op(p).op \in MpiOps, Apart(job.code[p[1]], Collectives)
  PROVE  "overlap" \notin CallFaults(p)
<1>1. ASSUME Op(p).op \in Collectives, NEW q \in MatesInMpi(p) PROVE Op(q).op \notin Collectives
  <2>1. q \in Mates(p) /\ Collectives \cap {"none", "init", "work"} = {}
    BY InMpi, MpiOpsAre
  <2>2. QED
    BY <1>1, <2>1, KeptApart
<1>2. QED
  BY <1>1 DEF CallFaults

\* Where main is once MPI has been finalized.
LEMMA MainIsPast ==
  ASSUME IInv, Together, NEW r \in Ranks, team[r].finalized, FinalizesLast(job.code[r])
  PROVE  \E k \in DOMAIN job.code[r][0] :
           /\ k \in Nat /\ th[<<r, 0>>].at \in Nat
           /\ th[<<r, 0>>].at > k \/ (th[<<r, 0>>].at = k /\ th[<<r, 0>>].in)
           /\ \A l \in DOMAIN job.code[r][0] : l > k =>
                ~Does(job.code[r][0][l], MpiOps) /\ (job.code[r][0][l].op = "report" => job.code[r][0][l].cond = Always)
           /\ \A u \in Tids \ {0} : \A l \in DOMAIN job.code[r][u] :
                MeetsBefore(job.code[r][u], l) >= MeetsBefore(job.code[r][0], k) => ~Does(job.code[r][u][l], MpiOps)
<1> DEFINE m == <<r, 0>>
           cs == job.code[r][0]
<1>1. m \in Procs /\ CodeOf(m) = cs /\ 0 \in Tids
  BY DEF Procs, Tids, NUM_THREADS, CodeOf
<1>2. PICK k \in DOMAIN cs : cs[k].op = "finalize" /\ (th[m].at > k \/ (th[m].at = k /\ th[m].in))
  BY DEF Together, FinalizeInv
<1>3. k \in Nat /\ th[m].at \in Nat
  BY <1>1, <1>2, Known
<1>4. Does(cs[k], {"finalize"})
  BY <1>2 DEF Does
<1>5. QED
  BY <1>1, <1>2, <1>3, <1>4 DEF FinalizesLast

LEMMA FinalizedLast ==
  ASSUME IInv, Together, NEW p \in Procs, Op(p).op \in MpiOps, ~th[p].in, FinalizesLast(job.code[p[1]])
  PROVE  "finalize" \notin CallFaults(p)
<1> DEFINE r == p[1]
           m == <<r, 0>>
           code == job.code[r]
<1>1. ~Finished(p) /\ ~AtStart(p) /\ r \in Ranks /\ p = <<r, p[2]>> /\ p[2] \in Tids /\ CodeOf(p) = code[p[2]]
  BY MpiOpsAre, Known DEF Finished, AtStart
<1>2. m \in Procs /\ CodeOf(m) = code[0] /\ th[m].at \in Nat
  <2>1. m \in Procs
    BY <1>1 DEF Procs, Tids, NUM_THREADS
  <2>2. QED
    BY <2>1, Known DEF CodeOf
<1>3. th[p].at \in DOMAIN CodeOf(p) /\ Does(CodeOf(p)[th[p].at], MpiOps)
  BY <1>1, DoesHere
<1>4. ~team[r].finalized
  <2>1. SUFFICES ASSUME team[r].finalized PROVE FALSE
    OBVIOUS
  <2>2. PICK k \in DOMAIN code[0] :
          /\ k \in Nat
          /\ th[m].at > k \/ (th[m].at = k /\ th[m].in)
          /\ \A l \in DOMAIN code[0] : l > k => ~Does(code[0][l], MpiOps)
          /\ \A u \in Tids \ {0} : \A l \in DOMAIN code[u] :
               MeetsBefore(code[u], l) >= MeetsBefore(code[0], k) => ~Does(code[u][l], MpiOps)
    <3>1. r \in Ranks /\ team[r].finalized /\ FinalizesLast(job.code[r])
      BY <1>1, <2>1
    <3> HIDE DEF r
    <3>2. QED
      BY <3>1, MainIsPast
  <2>3. CASE p[2] = 0
    BY <1>1, <1>3, <2>2, <2>3
  <2>4. CASE p[2] # 0
    <3>1. p \in Mates(m)
      BY <1>1, <2>4 DEF Mates
    <3>2. Met(p) = Met(m)
      BY <1>2, <3>1 DEF Together, TeamInv
    <3>3. MeetsBefore(code[0], k) <= MeetsBefore(code[0], th[m].at)
      BY <1>2, <2>2, MeetsGrow
    <3>4. Met(p) = MeetsBefore(code[p[2]], th[p].at) /\ Met(m) = MeetsBefore(code[0], th[m].at)
      BY <1>1, <1>2 DEF Met
    <3>5. MeetsBefore(code[0], k) \in Nat /\ Met(p) \in Nat
      BY <2>2, MeetsCounted, MetIsNat
    <3>6. MeetsBefore(code[p[2]], th[p].at) >= MeetsBefore(code[0], k)
      BY <3>2, <3>3, <3>4, <3>5
    <3>7. QED
      BY <1>1, <1>3, <2>2, <2>4, <3>6
  <2>5. QED
    BY <2>3, <2>4
<1>5. ASSUME Op(p).op = "finalize" PROVE p[2] = 0 /\ MatesInMpi(p) = {}
  <2>1. Does(CodeOf(p)[th[p].at], {"finalize"})
    BY <1>1, <1>5, DoesHere
  <2>2. p[2] = 0 /\ \A u \in Tids \ {0} : \A l \in DOMAIN code[u] :
          MeetsBefore(code[u], l) >= MeetsBefore(code[0], th[p].at) => ~Does(code[u][l], MpiOps)
    BY <1>1, <1>3, <2>1 DEF FinalizesLast
  <2>3. ASSUME NEW q \in MatesInMpi(p) PROVE FALSE
    <3>1. q \in Mates(p) /\ q \in Procs /\ q[1] = r /\ q # p /\ Op(q).op \in MpiOps /\ ~Finished(q) /\ ~AtStart(q)
      BY InMpi
    <3>2. q[2] \in Tids \ {0} /\ CodeOf(q) = code[q[2]]
      BY <1>1, <2>2, <3>1, Known
    <3>3. th[q].at \in DOMAIN CodeOf(q) /\ Does(CodeOf(q)[th[q].at], MpiOps)
      BY <3>1, DoesHere
    <3>4. Met(q) = Met(p) /\ Met(p) \in Nat
      BY <3>1, MetIsNat DEF Together, TeamInv
    <3>5. MeetsBefore(code[q[2]], th[q].at) = MeetsBefore(code[0], th[p].at) /\ MeetsBefore(code[0], th[p].at) \in Nat
      BY <1>1, <2>2, <3>2, <3>4 DEF Met
    <3>6. QED
      BY <2>2, <3>2, <3>3, <3>5
  <2>4. QED
    BY <2>2, <2>3
<1>6. QED
  BY <1>4, <1>5 DEF CallFaults

\* A report is main's, and not an item.
LEMMA ReportIsMain ==
  ASSUME IInv, NEW p \in Procs, Op(p).op = "report"
  PROVE  p[2] = 0 /\ p = <<p[1], 0>> /\ th[p].item = NoItem /\ th[p].at \in DOMAIN CodeOf(p)
         /\ Op(p) = CodeOf(p)[th[p].at] /\ CodeOf(p) = job.code[p[1]][0]
<1>1. ~Finished(p) /\ ~AtStart(p)
  BY DEF Finished, AtStart
<1>2. th[p].item = NoItem /\ th[p].at \in DOMAIN CodeOf(p) /\ Op(p) = CodeOf(p)[th[p].at]
  BY <1>1, OpIsCode
<1>3. IsTeam(job.code[p[1]]) /\ p = <<p[1], p[2]>> /\ p[2] \in Tids /\ CodeOf(p) = job.code[p[1]][p[2]]
  BY Known
<1>4. p[2] = 0
  BY <1>2, <1>3 DEF IsTeam
<1>5. QED
  BY <1>2, <1>3, <1>4

LEMMA ReportedLast ==
  ASSUME IInv, Together, NEW p \in Procs, Op(p).op = "report", team[p[1]].finalized, FinalizesLast(job.code[p[1]])
  PROVE  Outcomes(p[1], Op(p).cond) = {TRUE}
<1> DEFINE r == p[1]
           cs == job.code[r][0]
<1>1. /\ p = <<r, 0>> /\ th[p].at \in DOMAIN cs /\ Op(p) = cs[th[p].at]
      /\ r \in Ranks
  BY ReportIsMain, Known
<1>2. ~th[p].in
  BY MpiOpsAre DEF Together, PlaceInv
<1>3. PICK k \in DOMAIN cs :
        /\ th[<<r, 0>>].at > k \/ (th[<<r, 0>>].at = k /\ th[<<r, 0>>].in)
        /\ \A l \in DOMAIN cs : l > k => (cs[l].op = "report" => cs[l].cond = Always)
  <2>1. r \in Ranks /\ team[r].finalized /\ FinalizesLast(job.code[r])
    BY <1>1
  <2> HIDE DEF r
  <2>2. QED
    BY <2>1, MainIsPast
<1>4. th[p].at > k
  BY <1>1, <1>2, <1>3
<1>5. Op(p).cond = Always
  BY <1>1, <1>3, <1>4
<1>6. UNION Always = {}
  BY DEF Always
<1>7. QED
  BY <1>5, <1>6 DEF Outcomes, Always

LEMMA FaultsExcused ==
  ASSUME IInv, Together, SafelyLabelled(job), NEW p \in Procs, Op(p).op \in MpiOps, ~th[p].in
  PROVE  CallFaults(p) \cap ThreadMisuses \subseteq job.label
<1>1. p[1] \in Ranks
  BY Known
<1>2. "level" \in job.label \/ "level" \notin CallFaults(p)
  BY <1>1, LevelRespected DEF SafelyLabelled
<1>3. "overlap" \in job.label \/ "overlap" \notin CallFaults(p)
  BY <1>1, CollectivesApart DEF SafelyLabelled
<1>4. "finalize" \in job.label \/ "finalize" \notin CallFaults(p)
  BY <1>1, FinalizedLast DEF SafelyLabelled
<1>5. QED
  BY <1>2, <1>3, <1>4 DEF ThreadMisuses

LEMMA ExcusedKept ==
  ASSUME IInv, Together, Excused, [Next]_vars PROVE Excused'
<1>1. job' = job
  BY Kinds
<1>2. SUFFICES ASSUME SafelyLabelled(job) PROVE seen' \cap ThreadMisuses \subseteq job.label
  BY <1>1 DEF Excused, SafelyLabelled
<1>3. seen \cap ThreadMisuses \subseteq job.label
  BY <1>2 DEF Excused
<1>4. CASE NoThreadMisuse \/ seen' = seen
  BY <1>3, <1>4 DEF NoThreadMisuse
<1>5. CASE \E p \in Procs : Entering(p)
  <2>1. PICK p \in Procs : Entering(p)
    BY <1>5
  <2>2. Op(p).op \in MpiOps /\ ~th[p].in /\ seen' = seen \cup CallFaults(p)
    BY <2>1 DEF Entering
  <2>3. CallFaults(p) \cap ThreadMisuses \subseteq job.label
    BY <1>2, <2>2, FaultsExcused
  <2>4. QED
    BY <1>3, <2>2, <2>3
<1>6. CASE \E p \in Procs : Executing(p)
  <2>1. PICK p \in Procs : Executing(p)
    BY <1>6
  <2>2. CASE Op(p).op # "report"
    BY <1>4, <2>1, <2>2 DEF Executing, ReportStep
  <2>3. CASE Op(p).op = "report"
    <3>1. PICK v \in Outcomes(p[1], Op(p).cond) : seen' = seen \cup {f \in {"finalize"} : ~v /\ team[p[1]].finalized}
      BY <2>1, <2>3 DEF Executing, ReportStep
    <3>2. CASE "finalize" \in job.label
      BY <1>3, <3>1, <3>2
    <3>3. CASE "finalize" \notin job.label
      <4>1. p[1] \in Ranks
        BY Known
      <4>2. FinalizesLast(job.code[p[1]])
        BY <1>2, <3>3, <4>1 DEF SafelyLabelled
      <4>3. team[p[1]].finalized => v = TRUE
        BY <2>3, <3>1, <4>2, ReportedLast
      <4>4. QED
        BY <1>3, <3>1, <4>3
    <3>4. QED
      BY <3>2, <3>3
  <2>4. QED
    BY <2>2, <2>3
<1>7. (\E p \in Procs : Taking(p)) \/ (\E r \in Ranks : Meeting(r) \/ Stopping(r)) => seen' = seen
  BY DEF Taking, Meeting, Stopping
<1>8. QED
  BY <1>4, <1>5, <1>6, <1>7, Kinds DEF Still

(* The part of OnlyTheLabelledMisuse that is about threads, for every case    *)
(* whose critical sections, singles, dependences, barriers and level rule out *)
(* what it is not labelled with.                                              *)
THEOREM ThreadMisuseIsLabelled == Spec => []Excused
<1>1. Init => Excused
  BY DEF Init, Excused
<1>2. IInv /\ Together /\ Excused /\ [Next]_vars => Excused'
  BY ExcusedKept
<1>3. QED
  BY <1>1, <1>2, Invariance, AlwaysTogether, PTL DEF Spec

(* Two threads of a rank are never at a collective call together when         *)
(* critical sections, singles or dependences are written around all of them.  *)
Exclusive == \A p \in Procs : \A q \in Mates(p) :
  Apart(job.code[p[1]], Collectives) => ~(Op(p).op \in Collectives /\ Op(q).op \in Collectives)

(* The exclusion that the corrected twins of the ordering cases rely on: the  *)
(* lock of an omp critical has one holder, an item of a worksharing construct *)
(* one thread, and a task waits for those it depends on.                      *)
THEOREM CallsKeptApart == Spec => []Exclusive
<1>1. IInv /\ Together => Exclusive
  <2>1. Collectives \cap {"none", "init", "work"} = {}
    BY MpiOpsAre
  <2>2. QED
    BY <2>1, KeptApart DEF Exclusive
<1>2. QED
  BY <1>1, Invariance, AlwaysTogether, PTL
-----------------------------------------------------------------------------
(***************************************************************************)
(* What the counters of the overlap macros say.                            *)
(***************************************************************************)
Pends(p) == Op(p).op = "count" /\ th[p].before # 0

LEMMA UsedHere ==
  ASSUME IInv, NEW p \in Procs, ~Finished(p), ~AtStart(p)
  PROVE  Uses(job.code[p[1]], Op(p).op)
<1>1. th[p].at \in DOMAIN CodeOf(p) /\ Does(CodeOf(p)[th[p].at], {Op(p).op})
  BY DoesHere
<1>2. QED
  BY <1>1, Known DEF Uses

\* Somebody is between the macros only where the code captures flag.
LEMMA BracketCaptures ==
  ASSUME IInv, NEW p \in Procs, InBracket(p) \/ Op(p).op = "count"
  PROVE  Uses(job.code[p[1]], "capture") /\ ~Uses(job.code[p[1]], "take") /\ InBracket(p)
<1> DEFINE cs == Strand(p)
           k == Spot(p)
<1>1. ~Finished(p) /\ IsProgram(CodeOf(p)) /\ ThreadInv(p)
  BY Known DEF InBracket, Finished
<1>2. /\ IsCode(cs) /\ k \in Nat /\ Len(cs) \in Nat
      /\ AtStart(p) => k = 0
      /\ ~AtStart(p) => k > 0 /\ k <= Len(cs) /\ Op(p) = cs[k]
      /\ InBracket(p) <=> Inside(cs, k)
  BY <1>1, WhereItIs
<1>3. DOMAIN cs = 1..Len(cs)
  BY <1>2, Lists
<1>4. ~AtStart(p)
  <2>1. ~Inside(cs, 0)
    BY InsideFirst
  <2>2. QED
    BY <1>2, <2>1 DEF AtStart
<1>5. Inside(cs, k)
  <2>1. CASE InBracket(p)
    BY <1>2, <2>1
  <2>2. CASE Op(p).op = "count"
    <3>1. k \in DOMAIN cs /\ cs[k].op = "count"
      <4>1. k > 0 /\ k <= Len(cs) /\ cs[k].op = "count"
        BY <1>2, <1>4, <2>2
      <4> HIDE DEF cs, k
      <4>2. QED
        BY <1>2, <1>3, <4>1
    <3> HIDE DEF cs, k
    <3>2. k - 1 \in DOMAIN cs /\ cs[k - 1].op = "capture"
      BY <1>2, <3>1 DEF IsCode
    <3>3. k - 1 \in Nat /\ k - 1 > 0 /\ k - 1 + 1 = k
      BY <1>2, <1>3, <3>2
    <3>4. QED
      BY <3>2, <3>3, InsideNext
  <2>3. QED
    BY <2>1, <2>2
<1>6. PICK i \in DOMAIN cs : cs[i].op = "capture"
  <2>1. PICK i \in 1..(k - 1) : cs[i].op = "capture"
    BY <1>5 DEF Inside, Within
  <2> HIDE DEF cs
  <2>2. k <= Len(cs)
    BY <1>2, <1>4
  <2> HIDE DEF k
  <2>3. i \in DOMAIN cs
    BY <1>2, <1>3, <2>2
  <2>4. QED
    BY <2>1, <2>3
<1>7. Does(CodeOf(p)[th[p].at], {"capture"}) \/ \E l \in DOMAIN CodeOf(p) : Does(CodeOf(p)[l], {"capture"})
  <2>1. CASE th[p].item = NoItem
    <3>1. cs = CodeOf(p)
      BY <2>1 DEF Strand
    <3>2. QED
      BY <1>6, <3>1 DEF Does
  <2>2. CASE th[p].item # NoItem
    <3>1. cs = ItemCode(p) /\ AtItem(p) /\ CodeOf(p)[th[p].at].op = "work"
      BY <1>1, <1>4, <2>2, OpIsCode DEF Strand
    <3>2. th[p].item[2] \in DOMAIN CodeOf(p)[th[p].at].items
      BY <3>1 DEF AtItem
    <3>3. QED
      BY <1>6, <3>1, <3>2 DEF Does, ItemCode
  <2>3. QED
    BY <2>1, <2>2
<1>8. Uses(job.code[p[1]], "capture")
  BY <1>1, <1>4, <1>7, OpIsCode, Known DEF Uses
<1>9. QED
  BY <1>2, <1>5, <1>8, Known DEF IsTeam

\* A thread that does not execute an instruction stays where it is, inside or out.
LEMMA BracketStays ==
  ASSUME IInv, Together, [Next]_vars, NEW p \in Procs, ~Executing(p)
  PROVE  (InBracket(p)' <=> InBracket(p)) /\ (Pends(p)' <=> Pends(p))
<1>1. job' = job
  BY Kinds
<1>2. CASE th'[p] = th[p]
  BY <1>1, <1>2, RestsSame, SamePlaceSame DEF Pends
<1>3. CASE Entering(p)
  BY <1>1, <1>3, EnteringSame, SamePlaceSame DEF Pends, SamePlace
<1>4. CASE Meeting(p[1])
  <2>1. ~Finished(p) /\ Follows(th'[p], p) /\ Op(p).op \notin {"capture", "end", "count"}
    BY <1>4, MeetingFollows DEF Meets
  <2>2. QED
    BY <1>1, <2>1, Executed DEF Pends
<1>5. CASE Taking(p)
  BY <1>1, <1>5, Took DEF Pends
<1>6. CASE Stopping(p[1])
  BY <1>1, <1>6, Stopped, Known DEF Pends
<1>7. QED
  BY <1>2, <1>3, <1>4, <1>5, <1>6, ThreadChanges

\* A thread that executes one does to flag and to the count what it is for.
LEMMA BracketMoves ==
  ASSUME IInv, [Next]_vars, NEW p \in Procs, Executing(p)
  PROVE  /\ \A q \in Procs : q # p => (InBracket(q)' <=> InBracket(q)) /\ (Pends(q)' <=> Pends(q))
         /\ Op(p).op = "capture" => ~InBracket(p) /\ InBracket(p)' /\ ~Pends(p) /\ (Pends(p)' <=> oracle[p[1]].flag # 0)
         /\ Op(p).op = "end" => InBracket(p) /\ ~InBracket(p)' /\ ~Pends(p) /\ ~Pends(p)'
         /\ Op(p).op \notin {"capture", "end"} => (InBracket(p)' <=> InBracket(p)) /\ ~Pends(p)'
         /\ Op(p).op \notin {"capture", "end", "count"} => ~Pends(p)
<1>1. job' = job /\ ~Finished(p) /\ Follows(th'[p], p)
  BY Kinds DEF Executing
<1>2. ASSUME NEW q \in Procs, q # p PROVE (InBracket(q)' <=> InBracket(q)) /\ (Pends(q)' <=> Pends(q))
  <2>1. th'[q] = th[q]
    BY <1>2 DEF Executing, OthersRest
  <2>2. QED
    BY <1>1, <2>1, RestsSame, SamePlaceSame DEF Pends
<1>3. /\ InBracket(p)' <=> Op(p).op = "capture" \/ (Op(p).op # "end" /\ InBracket(p))
      /\ Op(p).op = "end" => InBracket(p)
      /\ Op(p).op = "capture" => ~InBracket(p)
      /\ Op(p)'.op = "count" <=> Op(p).op = "capture"
  BY <1>1, Executed
<1>4. Op(p).op = "capture" => th'[p].before = oracle[p[1]].flag
  BY DEF Executing, CountStep
<1>5. QED
  BY <1>2, <1>3, <1>4 DEF Pends

LEMMA OracleMoves ==
  ASSUME IInv, [Next]_vars, NEW r \in Ranks
  PROVE  oracle'[r] = oracle[r] \/ \E p \in Procs : p[1] = r /\ Executing(p)
<1>1. CASE Still \/ (\E p \in Procs : Entering(p) \/ Taking(p)) \/ (\E s \in Ranks : Meeting(s) \/ Stopping(s))
  BY <1>1 DEF Still, Entering, Taking, Meeting, Stopping
<1>2. ASSUME NEW p \in Procs, Executing(p), p[1] # r PROVE oracle'[r] = oracle[r]
  BY <1>2 DEF Executing, CountStep
<1>3. QED
  BY <1>1, <1>2, Kinds

LEMMA InsideFinite ==
  ASSUME NEW r
  PROVE  /\ IsFiniteSet(InsideOf(r)) /\ Cardinality(InsideOf(r)) \in Nat
         /\ Cardinality(InsideOf(r)) = 0 <=> InsideOf(r) = {}
<1>1. IsFiniteSet(Tids)
  <2>1. NUM_THREADS - 1 \in Int /\ 0 \in Int
    BY DEF NUM_THREADS
  <2>2. QED
    BY <2>1, FS_Interval DEF Tids
<1>2. InsideOf(r) \subseteq Tids
  BY DEF InsideOf
<1> DEFINE S == InsideOf(r)
<1> HIDE DEF S
<1>3. IsFiniteSet(S)
  BY <1>1, <1>2, FS_Subset DEF S
<1>4. QED
  BY <1>3, FS_CardinalityType, FS_EmptySet DEF S

LEMMA InsideStays ==
  ASSUME IInv, Together, [Next]_vars, NEW r \in Ranks, \A p \in Procs : p[1] = r => ~Executing(p)
  PROVE  InsideOf(r)' = InsideOf(r) /\ oracle'[r] = oracle[r] /\ (HaveMet(r)' <=> HaveMet(r))
<1>1. ASSUME NEW t \in Tids
      PROVE  (InBracket(<<r, t>>)' <=> InBracket(<<r, t>>)) /\ (Pends(<<r, t>>)' <=> Pends(<<r, t>>))
  <2> DEFINE p == <<r, t>>
  <2>1. p \in Procs /\ p[1] = r
    BY DEF Procs
  <2> HIDE DEF p
  <2>2. (InBracket(p)' <=> InBracket(p)) /\ (Pends(p)' <=> Pends(p))
    BY <2>1, BracketStays
  <2>3. QED
    BY <2>2 DEF p
<1>2. oracle'[r] = oracle[r]
  BY OracleMoves
<1>3. InsideOf(r)' = InsideOf(r)
  BY <1>1 DEF InsideOf
<1>4. QED
  BY <1>1, <1>2, <1>3 DEF HaveMet, Pends

\* A thread of the rank executes an instruction.
LEMMA InsideMoves ==
  ASSUME IInv, Together, [Next]_vars, NEW p \in Procs, Executing(p)
  PROVE  /\ Op(p).op = "capture" => p[2] \notin InsideOf(p[1]) /\ InsideOf(p[1])' = InsideOf(p[1]) \cup {p[2]}
         /\ Op(p).op = "end" => p[2] \in InsideOf(p[1]) /\ InsideOf(p[1])' = InsideOf(p[1]) \ {p[2]}
         /\ Op(p).op \notin {"capture", "end"} => InsideOf(p[1])' = InsideOf(p[1])
<1> DEFINE r == p[1]
           u == p[2]
           In(t) == InBracket(<<r, t>>)
           After(t) == InBracket(<<r, t>>)'
<1>1. r \in Ranks /\ u \in Tids /\ p = <<r, u>>
  BY Known
<1>2. ASSUME NEW t \in Tids, t # u PROVE After(t) <=> In(t)
  <2> DEFINE q == <<r, t>>
  <2>1. q \in Procs /\ q # p
    BY <1>1, <1>2 DEF Procs
  <2> HIDE DEF q
  <2>2. InBracket(q)' <=> InBracket(q)
    BY <2>1, BracketMoves
  <2>3. QED
    BY <2>2 DEF q
<1>3. (In(u) <=> InBracket(p)) /\ (After(u) <=> InBracket(p)')
  BY <1>1
<1>4. /\ Op(p).op = "capture" => ~InBracket(p) /\ InBracket(p)'
      /\ Op(p).op = "end" => InBracket(p) /\ ~InBracket(p)'
      /\ Op(p).op \notin {"capture", "end"} => (InBracket(p)' <=> InBracket(p))
  BY BracketMoves
<1>5. InsideOf(r) = {t \in Tids : In(t)} /\ InsideOf(r)' = {t \in Tids : After(t)}
  BY <1>1 DEF InsideOf
<1> HIDE DEF In, After
<1>6. /\ Op(p).op = "capture" => u \notin InsideOf(r) /\ InsideOf(r)' = InsideOf(r) \cup {u}
      /\ Op(p).op = "end" => u \in InsideOf(r) /\ InsideOf(r)' = InsideOf(r) \ {u}
      /\ Op(p).op \notin {"capture", "end"} => InsideOf(r)' = InsideOf(r)
  BY <1>1, <1>2, <1>3, <1>4, <1>5
<1>7. QED
  BY <1>6

LEMMA FlagKept ==
  ASSUME IInv, Together, [Next]_vars, NEW r \in Ranks, FlagExact(r)
  PROVE  FlagExact(r)'
<1>1. job' = job
  BY Kinds
<1>2. SUFFICES ASSUME ~Uses(job.code[r], "take") PROVE oracle'[r].flag = Cardinality(InsideOf(r)')
  BY <1>1 DEF FlagExact
<1>3. oracle[r].flag = Cardinality(InsideOf(r))
  BY <1>2 DEF FlagExact
<1>4. CASE \A p \in Procs : p[1] = r => ~Executing(p)
  BY <1>3, <1>4, InsideStays
<1>5. CASE \E p \in Procs : p[1] = r /\ Executing(p)
  <2>1. PICK p \in Procs : p[1] = r /\ Executing(p)
    BY <1>5
  <2>2. Op(p).op # "take"
    <3>1. ASSUME Op(p).op = "take" PROVE FALSE
      <4>1. ~Finished(p) /\ ~AtStart(p)
        BY <3>1 DEF Finished, AtStart
      <4>2. QED
        BY <1>2, <2>1, <3>1, <4>1, UsedHere
    <3>2. QED
      BY <3>1
  <2>3. oracle'[r].flag = CASE Op(p).op \in {"capture", "take"} -> oracle[r].flag + 1
                            [] Op(p).op = "end" -> oracle[r].flag - 1
                            [] OTHER -> oracle[r].flag
    BY <2>1 DEF Executing, CountStep
  <2> DEFINE S == InsideOf(r)
             T == InsideOf(r)'
  <2>4. /\ Op(p).op = "capture" => p[2] \notin S /\ T = S \cup {p[2]}
        /\ Op(p).op = "end" => p[2] \in S /\ T = S \ {p[2]}
        /\ Op(p).op \notin {"capture", "end"} => T = S
    BY <2>1, InsideMoves
  <2>5. IsFiniteSet(S) /\ Cardinality(S) \in Nat
    BY InsideFinite
  <2> HIDE DEF S, T
  <2>6. CASE Op(p).op = "capture"
    <3>1. Cardinality(T) = Cardinality(S) + 1
      BY <2>4, <2>5, <2>6, FS_AddElement
    <3>2. QED
      BY <1>3, <2>3, <2>6, <3>1 DEF S, T
  <2>7. CASE Op(p).op = "end"
    <3>1. Cardinality(T) = Cardinality(S) - 1
      BY <2>4, <2>5, <2>7, FS_RemoveElement
    <3>2. QED
      BY <1>3, <2>3, <2>7, <3>1 DEF S, T
  <2>8. CASE Op(p).op \notin {"capture", "end"}
    <3>1. oracle'[r].flag = oracle[r].flag
      BY <2>2, <2>3, <2>8
    <3>2. QED
      BY <1>3, <2>4, <2>8, <3>1 DEF S, T
  <2>9. QED
    BY <2>6, <2>7, <2>8
<1>6. QED
  BY <1>4, <1>5

(* Between any two steps flag is the number of threads between                *)
(* CHECK_OVERLAP_BEGIN and CHECK_OVERLAP_END.                                 *)
FlagIsExact == \A r \in Ranks : FlagExact(r)

(* No increment or decrement of flag is lost or made twice, whatever calls,   *)
(* constructs and critical sections are around the macros.                    *)
THEOREM FlagCountsThreads == Spec => []FlagIsExact
<1>1. Init => FlagIsExact
  <2>1. SUFFICES ASSUME Init, NEW r \in Ranks PROVE oracle[r].flag = Cardinality(InsideOf(r))
    BY DEF FlagIsExact, FlagExact
  <2>2. ASSUME NEW t \in Tids PROVE ~InBracket(<<r, t>>)
    <3> DEFINE p == <<r, t>>
    <3>1. p \in Procs /\ p[2] \in {0, 1}
      BY DEF Procs, Tids, NUM_THREADS
    <3> HIDE DEF p
    <3>2. th[p].at = p[2] /\ th[p].item = NoItem
      BY <2>1, <3>1, ThreadsInitially
    <3>3. ~InBracket(p)
      BY <3>1, <3>2, InsideFirst DEF InBracket
    <3>4. QED
      BY <3>3 DEF p
  <2>3. oracle[r].flag = 0
    BY <2>1 DEF Init
  <2>4. InsideOf(r) = {}
    BY <2>2 DEF InsideOf
  <2>5. QED
    BY <2>3, <2>4, FS_EmptySet
<1>2. IInv /\ Together /\ FlagIsExact /\ [Next]_vars => FlagIsExact'
  BY FlagKept DEF FlagIsExact
<1>3. QED
  BY <1>1, <1>2, Invariance, AlwaysTogether, PTL DEF Spec

\* The macros implement the observer of OverlapMonitor, whatever the threads
\* execute besides.
Monitor(r) == INSTANCE OverlapMonitor WITH Threads <- Tids, inside <- InsideOf(r), overlapped <- HaveMet(r)

LEMMA CapturePends ==
  ASSUME IInv, Together, [Next]_vars, NEW p \in Procs, FlagExact(p[1]), Executing(p), Op(p).op = "capture"
  PROVE  HaveMet(p[1])' <=> HaveMet(p[1]) \/ InsideOf(p[1]) # {}
<1> DEFINE r == p[1]
<1>1. r \in Ranks /\ p[2] \in Tids /\ p = <<r, p[2]>> /\ ~Finished(p) /\ ~AtStart(p) /\ IsTeam(job.code[r])
  BY Known DEF Executing, AtStart
<1>2. ~Uses(job.code[r], "take")
  BY <1>1, UsedHere DEF IsTeam
<1>3. oracle[r].flag # 0 <=> InsideOf(r) # {}
  BY <1>2, InsideFinite DEF FlagExact
<1>4. oracle'[r].overlap_count = oracle[r].overlap_count
  BY DEF Executing, CountStep
<1>5. ~Pends(p) /\ (Pends(p)' <=> oracle[r].flag # 0)
  BY BracketMoves
<1>6. ASSUME NEW t \in Tids, t # p[2] PROVE Pends(<<r, t>>)' <=> Pends(<<r, t>>)
  <2> DEFINE q == <<r, t>>
  <2>1. q \in Procs /\ q # p
    BY <1>1, <1>6 DEF Procs
  <2> HIDE DEF q
  <2>2. Pends(q)' <=> Pends(q)
    BY <2>1, BracketMoves
  <2>3. QED
    BY <2>2 DEF q
<1>7. HaveMet(r) <=> oracle[r].overlap_count # 0 \/ \E t \in Tids : Pends(<<r, t>>)
  BY DEF HaveMet, Pends
<1>8. HaveMet(r)' <=> oracle'[r].overlap_count # 0 \/ \E t \in Tids : Pends(<<r, t>>)'
  BY DEF HaveMet, Pends
<1>9. QED
  BY <1>1, <1>3, <1>4, <1>5, <1>6, <1>7, <1>8

LEMMA MeetingStays ==
  ASSUME IInv, Together, [Next]_vars, NEW p \in Procs, Executing(p), Op(p).op # "capture"
  PROVE  HaveMet(p[1])' <=> HaveMet(p[1])
<1> DEFINE r == p[1]
           c == oracle[r].overlap_count
           d == oracle'[r].overlap_count
<1>1. r \in Ranks /\ p[2] \in Tids /\ p = <<r, p[2]>> /\ c \in Nat
  BY Known DEF IInv, Typed, OracleTyped
<1>2. d = IF Pends(p) THEN c + 1 ELSE c
  BY DEF Executing, CountStep, Pends
<1>3. ~Pends(p)'
  BY BracketMoves
<1>4. ASSUME NEW t \in Tids, t # p[2] PROVE Pends(<<r, t>>)' <=> Pends(<<r, t>>)
  <2> DEFINE q == <<r, t>>
  <2>1. q \in Procs /\ q # p
    BY <1>1, <1>4 DEF Procs
  <2> HIDE DEF q
  <2>2. Pends(q)' <=> Pends(q)
    BY <2>1, BracketMoves
  <2>3. QED
    BY <2>2 DEF q
<1>5. HaveMet(r) <=> c # 0 \/ \E t \in Tids : Pends(<<r, t>>)
  BY DEF HaveMet, Pends
<1>6. HaveMet(r)' <=> d # 0 \/ \E t \in Tids : Pends(<<r, t>>)'
  BY DEF HaveMet, Pends
<1> HIDE DEF c, d
<1>7. CASE Pends(p)
  <2>1. d # 0
    BY <1>1, <1>2, <1>7
  <2>2. QED
    BY <1>1, <1>5, <1>6, <1>7, <2>1
<1>8. CASE ~Pends(p)
  BY <1>1, <1>2, <1>3, <1>4, <1>5, <1>6, <1>8
<1>9. QED
  BY <1>7, <1>8

(* In every program the macros of a rank implement the observer: what the     *)
(* oracle alone was proved to promise, it keeps among the threads that OpenMP *)
(* forks, the items they take and the locks they wait for.                    *)
THEOREM MacrosObserve ==
  ASSUME NEW r \in Ranks PROVE Spec => Monitor(r)!Spec
<1>1. Init => Monitor(r)!Init
  <2>1. SUFFICES ASSUME Init PROVE InsideOf(r) = {} /\ HaveMet(r) = FALSE
    BY DEF Monitor!Init
  <2>2. ASSUME NEW t \in Tids PROVE ~InBracket(<<r, t>>) /\ ~Pends(<<r, t>>)
    <3> DEFINE p == <<r, t>>
    <3>1. p \in Procs /\ p[2] \in {0, 1}
      BY DEF Procs, Tids, NUM_THREADS
    <3> HIDE DEF p
    <3>2. th[p].at = p[2] /\ th[p].item = NoItem /\ th[p].before = 0
      BY <2>1, <3>1, ThreadsInitially
    <3>3. ~InBracket(p) /\ ~Pends(p)
      BY <3>1, <3>2, InsideFirst DEF InBracket, Pends
    <3>4. QED
      BY <3>3 DEF p
  <2>3. oracle[r].overlap_count = 0
    BY <2>1 DEF Init
  <2>4. QED
    BY <2>2, <2>3 DEF InsideOf, HaveMet, Pends
<1>2. IInv /\ Together /\ FlagIsExact /\ [Next]_vars => [Monitor(r)!Next]_(Monitor(r)!vars)
  <2> SUFFICES ASSUME IInv, Together, FlagIsExact, [Next]_vars PROVE [Monitor(r)!Next]_(Monitor(r)!vars)
    OBVIOUS
  <2>1. CASE \A p \in Procs : p[1] = r => ~Executing(p)
    <3>1. InsideOf(r)' = InsideOf(r) /\ (HaveMet(r)' <=> HaveMet(r))
      BY <2>1, InsideStays
    <3>2. HaveMet(r)' = HaveMet(r)
      BY <3>1 DEF HaveMet
    <3>3. QED
      BY <3>1, <3>2 DEF Monitor!vars
  <2>2. CASE \E p \in Procs : p[1] = r /\ Executing(p)
    <3>1. PICK p \in Procs : p[1] = r /\ Executing(p)
      BY <2>2
    <3>2. /\ Op(p).op = "capture" => p[2] \notin InsideOf(r) /\ InsideOf(r)' = InsideOf(r) \cup {p[2]}
          /\ Op(p).op = "end" => p[2] \in InsideOf(r) /\ InsideOf(r)' = InsideOf(r) \ {p[2]}
          /\ Op(p).op \notin {"capture", "end"} => InsideOf(r)' = InsideOf(r)
      BY <3>1, InsideMoves
    <3>3. p[2] \in Tids /\ FlagExact(p[1])
      BY <3>1, Known DEF FlagIsExact
    <3>4. CASE Op(p).op = "capture"
      <4>1. HaveMet(r)' <=> HaveMet(r) \/ InsideOf(r) # {}
        BY <3>1, <3>3, <3>4, CapturePends
      <4>2. HaveMet(r)' = (HaveMet(r) \/ InsideOf(r) # {})
        BY <4>1 DEF HaveMet
      <4>3. Monitor(r)!Enter(p[2])
        BY <3>2, <3>4, <4>2 DEF Monitor!Enter
      <4>4. QED
        BY <3>3, <4>3 DEF Monitor!Next
    <3>5. CASE Op(p).op # "capture"
      <4>1. HaveMet(r)' <=> HaveMet(r)
        BY <3>1, <3>5, MeetingStays
      <4>2. HaveMet(r)' = HaveMet(r)
        BY <4>1 DEF HaveMet
      <4>3. CASE Op(p).op = "end"
        <5>1. Monitor(r)!Leave(p[2])
          BY <3>2, <4>2, <4>3 DEF Monitor!Leave
        <5>2. QED
          BY <3>3, <5>1 DEF Monitor!Next
      <4>4. CASE Op(p).op # "end"
        BY <3>2, <3>5, <4>2, <4>4 DEF Monitor!vars
      <4>5. QED
        BY <4>3, <4>4
    <3>6. QED
      BY <3>4, <3>5
  <2>3. QED
    BY <2>1, <2>2
<1>3. QED
  BY <1>1, <1>2, Invariance, AlwaysTogether, FlagCountsThreads, PTL DEF Spec, Monitor!Spec
-----------------------------------------------------------------------------
(***************************************************************************)
(* What main reports.                                                      *)
(***************************************************************************)
\* Main is not at its report while another thread is in the region.
LEMMA NotReportedYet ==
  ASSUME IInv, Together, NEW r \in Ranks, NEW p \in Procs, p[1] = r, p[2] # 0, ~Finished(p),
         NEW k \in DOMAIN job.code[r][0], job.code[r][0][k].op = "report"
  PROVE  th[<<r, 0>>].at < k
<1> DEFINE m == <<r, 0>>
           cs == CodeOf(p)
           ms == job.code[r][0]
           l == th[p].at
           n == Len(cs)
<1>1. m \in Procs /\ p \in Mates(m) /\ CodeOf(m) = ms
  <2>1. m \in Procs
    BY DEF Procs, Tids, NUM_THREADS
  <2>2. QED
    BY <2>1 DEF Mates, CodeOf
<1>2. Met(p) = Met(m) /\ Met(m) \in Nat /\ th[m].at \in Nat /\ Met(p) = MeetsBefore(cs, l) /\ Met(m) = MeetsBefore(ms, th[m].at)
  BY <1>1, Known, MetIsNat DEF Together, TeamInv, Met
<1>3. ~AtStart(p)
  BY DEF Together, PlaceInv, AtStart
<1>4. l \in DOMAIN cs /\ l <= n /\ n \in Nat /\ l \in Nat /\ l > 0 /\ IsTeam(job.code[r]) /\ cs = job.code[r][p[2]]
      /\ p[2] \in Tids /\ k \in Nat
  BY <1>1, <1>3, OpIsCode, Known
<1>5. cs # <<>>
  BY <1>4
<1>6. cs[n].op \in Meets /\ MeetsBefore(cs, n + 1) <= MeetsBefore(ms, k)
  BY <1>4, <1>5 DEF IsTeam, Meets
<1> HIDE DEF cs, n, l, ms, m
<1>7. n > 0
  BY <1>4
<1>8. MeetsBefore(cs, n + 1) = MeetsBefore(cs, n) + 1
  BY <1>4, <1>6, <1>7, MeetsNext
<1>9. MeetsBefore(cs, l) <= MeetsBefore(cs, n) /\ MeetsBefore(cs, n) \in Nat /\ MeetsBefore(ms, k) \in Nat
  BY <1>4, MeetsGrow, MeetsCounted
<1>10. ~(k <= th[m].at)
  <2>1. SUFFICES ASSUME k <= th[m].at PROVE FALSE
    OBVIOUS
  <2>2. MeetsBefore(ms, k) <= MeetsBefore(ms, th[m].at)
    BY <1>2, <1>4, <2>1, MeetsGrow
  <2>3. MeetsBefore(ms, th[m].at) = MeetsBefore(cs, l) /\ MeetsBefore(cs, l) \in Nat
    BY <1>2
  <2>4. MeetsBefore(cs, n) + 1 <= MeetsBefore(ms, k)
    BY <1>6, <1>8
  <2>5. \A a, b, c \in Nat : ~(a + 1 <= b /\ b <= c /\ c <= a)
    OBVIOUS
  <2>6. QED
    BY <1>9, <2>2, <2>3, <2>4, <2>5
<1>11. QED
  BY <1>2, <1>4, <1>10 DEF m

LEMMA FinishedStays ==
  ASSUME IInv, Together, [Next]_vars, NEW p \in Procs, Finished(p)
  PROVE  Finished(p)'
<1>1. job' = job /\ Op(p).op = "none"
  BY Kinds DEF Finished
<1>2. ~Entering(p) /\ ~Taking(p) /\ ~Executing(p) /\ ~Meeting(p[1])
  BY <1>1, MpiOpsAre, MeetingFollows DEF Entering, Taking, Executing, Finished
<1>3. CASE th'[p] = th[p]
  BY <1>1, <1>3, RestsSame, SamePlaceSame
<1>4. CASE Stopping(p[1])
  <2>1. Op(p)'.op = "none"
    BY <1>1, <1>4, Stopped, Known
  <2>2. QED
    BY <2>1 DEF Finished
<1>5. QED
  BY <1>2, <1>3, <1>4, ThreadChanges

LEMMA CountGrows ==
  ASSUME IInv, [Next]_vars, NEW r \in Ranks, oracle[r].overlap_count # 0
  PROVE  oracle'[r].overlap_count # 0
<1>1. oracle[r].overlap_count \in Nat
  BY DEF IInv, Typed, OracleTyped
<1>2. ASSUME NEW p \in Procs, p[1] = r, Executing(p)
      PROVE  oracle'[r].overlap_count \in {oracle[r].overlap_count, oracle[r].overlap_count + 1}
  BY <1>2 DEF Executing, CountStep
<1>3. oracle'[r].overlap_count \in {oracle[r].overlap_count, oracle[r].overlap_count + 1}
  BY <1>2, OracleMoves
<1>4. QED
  BY <1>1, <1>3

\* How the verdicts of a rank grow.
LEMMA VerdictMoves ==
  ASSUME IInv, Together, [Next]_vars, NEW r \in Ranks
  PROVE  \/ verdicts'[r] = verdicts[r]
         \/ Stopping(r) /\ verdicts'[r] = verdicts[r] \cup {FALSE}
         \/ \E p \in Procs : /\ p[1] = r /\ Executing(p) /\ Op(p).op = "report"
                             /\ \E m \in Outcomes(r, Op(p).cond) : verdicts'[r] = verdicts[r] \cup {m}
<1>1. verdicts \in [Ranks -> SUBSET BOOLEAN]
  BY DEF IInv, Typed, ResultsTyped
<1>2. CASE Still \/ (\E p \in Procs : Entering(p) \/ Taking(p)) \/ (\E s \in Ranks : Meeting(s))
  BY <1>2 DEF Still, Entering, Taking, Meeting
<1>3. ASSUME NEW s \in Ranks, Stopping(s)
      PROVE  verdicts'[r] = verdicts[r] \/ (s = r /\ verdicts'[r] = verdicts[r] \cup {FALSE})
  BY <1>1, <1>3 DEF Stopping
<1>4. ASSUME NEW p \in Procs, Executing(p)
      PROVE  \/ verdicts'[r] = verdicts[r]
             \/ /\ p[1] = r /\ Op(p).op = "report"
                /\ \E m \in Outcomes(r, Op(p).cond) : verdicts'[r] = verdicts[r] \cup {m}
  <2>1. CASE Op(p).op # "report"
    BY <1>4, <2>1 DEF Executing, ReportStep
  <2>2. CASE Op(p).op = "report"
    <3>1. PICK m \in Outcomes(p[1], Op(p).cond) : verdicts' = [verdicts EXCEPT ![p[1]] = @ \cup {m}]
      BY <1>4, <2>2 DEF Executing, ReportStep
    <3>2. QED
      BY <1>1, <2>2, <3>1, Known
  <2>3. QED
    BY <2>1, <2>2
<1>5. QED
  BY <1>2, <1>3, <1>4, Kinds

\* The answer of the counter.
LEMMA CounterAnswers ==
  ASSUME NEW r \in Ranks
  PROVE  /\ Outcomes(r, {{Counted}}) = {oracle[r].overlap_count # 0}
         /\ Outcomes(r, Never) = {FALSE}
<1>1. UNION {{Counted}} = {Counted} /\ Counted.cells = <<>> /\ Counted.kind = "counted"
  BY DEF Counted
<1>2. Holding(r, Counted) = (oracle[r].overlap_count # 0)
  BY <1>1 DEF Holding
<1>3. Outcomes(r, {{Counted}}) = {oracle[r].overlap_count # 0}
  <2>0. \A l \in UNION {{Counted}} : DOMAIN l.cells = {}
    BY <1>1
  <2>1. ~\E l \in UNION {{Counted}} : \E k \in DOMAIN l.cells : mem[r][<<l.buf, l.cells[k]>>] = Uninit
    BY <2>0
  <2>2. (\E clause \in {{Counted}} : \A l \in clause : Holding(r, l)) = (oracle[r].overlap_count # 0)
    BY <1>2
  <2>3. QED
    BY <2>1, <2>2 DEF Outcomes
<1>4. UNION Never = {}
  BY DEF Never
<1>5. QED
  BY <1>3, <1>4 DEF Outcomes, Never

\* At a report main is alone.
LEMMA AloneAtReport ==
  ASSUME IInv, Together, NEW p \in Procs, Op(p).op = "report"
  PROVE  \A t \in Tids \ {0} : Finished(<<p[1], t>>)
<1> DEFINE r == p[1]
<1>1. /\ p = <<r, 0>> /\ th[p].at \in DOMAIN job.code[r][0] /\ Op(p) = job.code[r][0][th[p].at]
      /\ r \in Ranks /\ th[p].at \in Nat
  BY ReportIsMain, Known
<1>2. SUFFICES ASSUME NEW t \in Tids \ {0}, ~Finished(<<r, t>>) PROVE FALSE
  OBVIOUS
<1> DEFINE q == <<r, t>>
           k == th[p].at
<1>3. q \in Procs /\ q[1] = r /\ q[2] # 0 /\ ~Finished(q)
  BY <1>1, <1>2 DEF Procs
<1>4. k \in DOMAIN job.code[r][0] /\ job.code[r][0][k].op = "report" /\ r \in Ranks
  BY <1>1
<1> HIDE DEF q, r, k
<1>5. th[<<r, 0>>].at < k
  BY <1>3, <1>4, NotReportedYet
<1>6. QED
  BY <1>1, <1>5 DEF k

LEMMA NothingMeetsWhenTooLow ==
  ASSUME IInv, Together, [Next]_vars, NEW r \in Ranks, TooLow
  PROVE  HaveMet(r)' <=> HaveMet(r)
<1>1. ASSUME NEW p \in Procs, Executing(p) PROVE FALSE
  BY <1>1, NothingWhenTooLow DEF Executing, Finished, Meets
<1>2. QED
  BY <1>1, InsideStays

LEMMA ReportKept ==
  ASSUME IInv, Together, [Next]_vars, NEW r \in Ranks, FlagExact(r), ReportInv(r)
  PROVE  ReportInv(r)'
<1> DEFINE code == job.code[r]
<1>1. job' = job /\ (TooLow' <=> TooLow)
  BY Kinds DEF TooLow
<1>2. TooLow => ~HaveMet(r)'
  BY NothingMeetsWhenTooLow DEF ReportInv
<1>3. ASSUME NEW p \in Procs, p[1] = r, Op(p).op = "report"
      PROVE  \A conds : AsksOnly(code, conds) => Op(p).cond \in conds
  BY <1>3, ReportIsMain DEF AsksOnly
<1>4. ASSUME AsksOnly(code, {{{Counted}}, Never}), TRUE \in verdicts'[r] PROVE oracle'[r].overlap_count # 0
  <2>1. oracle[r].overlap_count # 0 => oracle'[r].overlap_count # 0
    BY CountGrows
  <2>2. TRUE \in verdicts[r] => oracle[r].overlap_count # 0
    BY <1>4 DEF ReportInv
  <2>3. ASSUME NEW p \in Procs, p[1] = r, Op(p).op = "report", NEW m \in Outcomes(r, Op(p).cond), m = TRUE
        PROVE  oracle[r].overlap_count # 0
    <3>1. Op(p).cond \in {{{Counted}}, Never}
      BY <1>3, <1>4, <2>3
    <3>2. QED
      BY <2>3, <3>1, CounterAnswers
  <2>4. CASE \E p \in Procs : /\ p[1] = r /\ Op(p).op = "report"
                              /\ \E m \in Outcomes(r, Op(p).cond) : verdicts'[r] = verdicts[r] \cup {m}
    <3>1. PICK p \in Procs : /\ p[1] = r /\ Op(p).op = "report"
                             /\ \E m \in Outcomes(r, Op(p).cond) : verdicts'[r] = verdicts[r] \cup {m}
      BY <2>4
    <3>2. PICK m \in Outcomes(r, Op(p).cond) : verdicts'[r] = verdicts[r] \cup {m}
      BY <3>1
    <3>3. TRUE \in verdicts[r] \/ m = TRUE
      BY <1>4, <3>2
    <3>4. QED
      BY <2>1, <2>2, <2>3, <3>1, <3>3
  <2>5. TRUE \in verdicts[r] => oracle'[r].overlap_count # 0
    BY <2>1, <2>2
  <2>6. QED
    BY <1>4, <2>4, <2>5, VerdictMoves
<1>5. ASSUME AsksOnly(code, {{{Counted}}}), FALSE \in verdicts'[r]
      PROVE  ~HaveMet(r)' /\ \A t \in Tids \ {0} : Finished(<<r, t>>)'
  <2>1. CASE FALSE \in verdicts[r]
    <3>1. ~HaveMet(r) /\ \A t \in Tids \ {0} : Finished(<<r, t>>)
      BY <1>5, <2>1 DEF ReportInv
    <3>2. ASSUME NEW t \in Tids \ {0} PROVE Finished(<<r, t>>)'
      <4> DEFINE q == <<r, t>>
      <4>1. q \in Procs /\ Finished(q)
        BY <3>1 DEF Procs
      <4> HIDE DEF q
      <4>2. Finished(q)'
        BY <4>1, FinishedStays
      <4>3. QED
        BY <4>2 DEF q
    <3>3. ~HaveMet(r)'
      <4>1. CASE \A p \in Procs : p[1] = r => ~Executing(p)
        BY <3>1, <4>1, InsideStays
      <4>2. ASSUME NEW p \in Procs, p[1] = r, Executing(p) PROVE ~HaveMet(r)'
        <5>1. CASE Op(p).op # "capture"
          BY <3>1, <4>2, <5>1, MeetingStays
        <5>2. CASE Op(p).op = "capture"
          <6>1. p[2] = 0
            BY <3>1, <4>2, Known DEF Executing
          <6>2. 0 \notin InsideOf(r)
            BY <4>2, <5>2, <6>1, InsideMoves
          <6>3. InsideOf(r) = {}
            BY <3>1, <6>2 DEF InsideOf, InBracket
          <6>4. QED
            BY <3>1, <4>2, <5>2, <6>3, CapturePends
        <5>3. QED
          BY <5>1, <5>2
      <4>3. QED
        BY <4>1, <4>2
    <3>4. QED
      BY <3>2, <3>3
  <2>2. CASE Stopping(r)
    <3>1. TooLow
      BY <2>2 DEF Stopping
    <3>2. ASSUME NEW t \in Tids PROVE Finished(<<r, t>>)'
      <4> DEFINE q == <<r, t>>
      <4>1. q \in Procs /\ q[1] = r
        BY DEF Procs
      <4> HIDE DEF q
      <4>2. Op(q)'.op = "none"
        BY <1>1, <2>2, <4>1, Stopped
      <4>3. QED
        BY <4>2 DEF Finished, q
    <3>3. QED
      BY <1>2, <3>1, <3>2
  <2>3. ASSUME NEW p \in Procs, p[1] = r, Executing(p), Op(p).op = "report",
               NEW m \in Outcomes(r, Op(p).cond), m = FALSE
        PROVE  ~HaveMet(r)' /\ \A t \in Tids \ {0} : Finished(<<r, t>>)'
    <3>1. Op(p).cond = {{Counted}}
      BY <1>3, <1>5, <2>3
    <3>2. oracle[r].overlap_count = 0
      BY <2>3, <3>1, CounterAnswers
    <3>3. p = <<r, 0>> /\ \A t \in Tids \ {0} : Finished(<<r, t>>)
      BY <2>3, AloneAtReport, ReportIsMain
    <3>4. \A t \in Tids : Op(<<r, t>>).op # "count"
      BY <2>3, <3>3 DEF Finished
    <3>5. ~HaveMet(r)
      BY <3>2, <3>4 DEF HaveMet
    <3>6. ~HaveMet(r)'
      BY <2>3, <3>5, MeetingStays
    <3>7. ASSUME NEW t \in Tids \ {0} PROVE Finished(<<r, t>>)'
      <4> DEFINE q == <<r, t>>
      <4>1. q \in Procs /\ Finished(q)
        BY <3>3 DEF Procs
      <4> HIDE DEF q
      <4>2. Finished(q)'
        BY <4>1, FinishedStays
      <4>3. QED
        BY <4>2 DEF q
    <3>8. QED
      BY <3>6, <3>7
  <2>4. CASE \E p \in Procs : /\ p[1] = r /\ Executing(p) /\ Op(p).op = "report"
                              /\ \E m \in Outcomes(r, Op(p).cond) : verdicts'[r] = verdicts[r] \cup {m}
    <3>1. PICK p \in Procs : /\ p[1] = r /\ Executing(p) /\ Op(p).op = "report"
                             /\ \E m \in Outcomes(r, Op(p).cond) : verdicts'[r] = verdicts[r] \cup {m}
      BY <2>4
    <3>2. PICK m \in Outcomes(r, Op(p).cond) : verdicts'[r] = verdicts[r] \cup {m}
      BY <3>1
    <3>3. FALSE \in verdicts[r] \/ m = FALSE
      BY <1>5, <3>2
    <3>4. QED
      BY <2>1, <2>3, <3>1, <3>3
  <2>5. QED
    BY <1>5, <2>1, <2>2, <2>4, VerdictMoves
<1>6. QED
  BY <1>1, <1>2, <1>4, <1>5 DEF ReportInv, AsksOnly

LEMMA InitiallyNothing ==
  ASSUME Init, NEW r \in Ranks
  PROVE  InsideOf(r) = {} /\ ~HaveMet(r) /\ verdicts[r] = {} /\ oracle[r].flag = 0 /\ seen = {}
<1>1. ASSUME NEW t \in Tids PROVE ~InBracket(<<r, t>>) /\ ~Pends(<<r, t>>)
  <2> DEFINE p == <<r, t>>
  <2>1. p \in Procs /\ p[2] \in {0, 1}
    BY DEF Procs, Tids, NUM_THREADS
  <2> HIDE DEF p
  <2>2. th[p].at = p[2] /\ th[p].item = NoItem /\ th[p].before = 0
    BY <2>1, ThreadsInitially
  <2>3. ~InBracket(p) /\ ~Pends(p)
    BY <2>1, <2>2, InsideFirst DEF InBracket, Pends
  <2>4. QED
    BY <2>3 DEF p
<1>2. oracle[r].overlap_count = 0 /\ oracle[r].flag = 0 /\ verdicts[r] = {} /\ seen = {}
  BY DEF Init
<1>3. QED
  BY <1>1, <1>2 DEF InsideOf, HaveMet, Pends

\* Every rank reports what its counter says.
ReportsRight == \A r \in Ranks : ReportInv(r)

LEMMA AlwaysReportsRight == Spec => []ReportsRight
<1>1. Init => ReportsRight
  <2>1. SUFFICES ASSUME Init, NEW r \in Ranks PROVE ReportInv(r)
    BY DEF ReportsRight
  <2>2. QED
    BY <2>1, InitiallyNothing DEF ReportInv
<1>2. IInv /\ Together /\ FlagIsExact /\ ReportsRight /\ [Next]_vars => ReportsRight'
  BY ReportKept DEF ReportsRight, FlagIsExact
<1>3. QED
  BY <1>1, <1>2, Invariance, AlwaysTogether, FlagCountsThreads, PTL DEF Spec

(* Where has_error_manifested is asked about overlap_count, TRUE means that   *)
(* two threads of the rank have met between the macros, and FALSE that they   *)
(* have not and will not.                                                     *)
VerdictIsWhetherTheyMet ==
  \A r \in Ranks :
    /\ AsksOnly(job.code[r], {{{Counted}}, Never}) /\ TRUE \in verdicts[r] => HaveMet(r)
    /\ AsksOnly(job.code[r], {{{Counted}}}) /\ FALSE \in verdicts[r] => ~HaveMet(r)

(* The counter is read once the team is gone: no update of it comes after the *)
(* report, and none that it reports is spurious.                              *)
THEOREM VerdictsOfTheCounter == Spec => []VerdictIsWhetherTheyMet
<1>1. ReportsRight => VerdictIsWhetherTheyMet
  BY DEF ReportsRight, ReportInv, VerdictIsWhetherTheyMet, HaveMet
<1>2. QED
  BY <1>1, AlwaysReportsRight, PTL
-----------------------------------------------------------------------------
(***************************************************************************)
(* Overlapping collectives between the macros are reported.                *)
(***************************************************************************)
\* An instruction inside the macros is executed inside them.
LEMMA AllInsideIs ==
  ASSUME IInv, NEW p \in Procs, NEW ops, ~Finished(p), ~AtStart(p), Op(p).op \in ops,
         AllInside(CodeOf(p), th[p].at, ops)
  PROVE  InBracket(p)
<1>1. CASE th[p].item = NoItem
  BY <1>1, OpIsCode DEF AllInside, InBracket
<1>2. CASE th[p].item # NoItem
  <2>1. AtItem(p) /\ CodeOf(p)[th[p].at].op = "work"
    BY <1>2, OpIsCode
  <2>2. /\ th[p].item[2] \in DOMAIN CodeOf(p)[th[p].at].items
        /\ th[p].step \in DOMAIN ItemCode(p) /\ Op(p) = ItemCode(p)[th[p].step]
    BY <2>1 DEF AtItem
  <2>3. Inside(ItemCode(p), th[p].step)
    BY <2>1, <2>2 DEF AllInside, ItemCode
  <2>4. QED
    BY <1>2, <2>3 DEF InBracket
<1>3. QED
  BY <1>1, <1>2

LEMMA WatchedOverlap ==
  ASSUME IInv, Together, OverlapWatched(job), NEW p \in Procs, Op(p).op \in MpiOps, "overlap" \in CallFaults(p)
  PROVE  /\ oracle[p[1]].overlap_count # 0
         /\ \E k \in DOMAIN job.code[p[1]][0] : AsksTheCounter(job.code[p[1]][0][k]) /\ th[<<p[1], 0>>].at < k
<1> DEFINE r == p[1]
           code == job.code[r]
<1>1. PICK q \in MatesInMpi(p) : Op(p).op \in Collectives /\ Op(q).op \in Collectives
  BY DEF CallFaults
<1>2. q \in Mates(p) /\ q \in Procs /\ q[1] = r /\ q # p /\ ~Finished(q) /\ ~AtStart(q)
  BY <1>1, InMpi
<1>3. ~Finished(p) /\ ~AtStart(p) /\ r \in Ranks /\ p[2] \in Tids /\ q[2] \in Tids /\ p[2] # q[2]
  BY <1>2, MpiOpsAre, Known DEF Finished, AtStart
<1>4. ~Apart(code, Collectives)
  BY CollectivesApart
<1>5. AllBracketed(code, Collectives) /\ \E k \in DOMAIN code[0] : AsksTheCounter(code[0][k])
  BY <1>3, <1>4 DEF OverlapWatched
<1>6. CodeOf(p) = code[p[2]] /\ CodeOf(q) = code[q[2]] /\ Met(q) = Met(p)
  BY <1>2 DEF CodeOf, Together, TeamInv
<1>7. /\ Does(CodeOf(p)[th[p].at], Collectives) /\ Does(CodeOf(q)[th[q].at], Collectives)
      /\ th[p].at \in DOMAIN CodeOf(p) /\ th[q].at \in DOMAIN CodeOf(q)
  BY <1>1, <1>2, <1>3, DoesHere
<1>8. Concurrent(code, p[2], th[p].at, q[2], th[q].at, Collectives)
  BY <1>3, <1>6, <1>7 DEF Concurrent, Met
<1>9. AllInside(CodeOf(p), th[p].at, Collectives) /\ AllInside(CodeOf(q), th[q].at, Collectives)
  BY <1>3, <1>5, <1>6, <1>7, <1>8 DEF AllBracketed
<1>10. InBracket(p) /\ InBracket(q)
  BY <1>1, <1>2, <1>3, <1>9, AllInsideIs
<1>11. Op(p).op # "count" /\ Op(q).op # "count"
  BY <1>1 DEF Collectives
<1>12. oracle[r].overlap_count # 0
  BY <1>2, <1>10, <1>11, OverlapsAreCounted DEF NoOverlapUncounted
<1>13. PICK k \in DOMAIN code[0] : AsksTheCounter(code[0][k])
  BY <1>5
<1>14. PICK u \in {p, q} : u[2] # 0
  BY <1>3
<1>15. u \in Procs /\ u[1] = r /\ ~Finished(u) /\ k \in DOMAIN job.code[r][0] /\ job.code[r][0][k].op = "report"
  BY <1>2, <1>3, <1>13, <1>14 DEF AsksTheCounter
<1> HIDE DEF r, code
<1>16. th[<<r, 0>>].at < k
  BY <1>3, <1>14, <1>15, NotReportedYet
<1>17. QED
  BY <1>12, <1>13, <1>16 DEF r, code

\* Main does not get past the report without the verdict.
LEMMA MainReports ==
  ASSUME IInv, Together, [Next]_vars, NEW r \in Ranks, NEW k \in DOMAIN job.code[r][0],
         AsksTheCounter(job.code[r][0][k]), oracle[r].overlap_count # 0, th[<<r, 0>>].at <= k
  PROVE  th'[<<r, 0>>].at <= k \/ TRUE \in verdicts'[r]
<1> DEFINE m == <<r, 0>>
           cs == job.code[r][0]
<1>1. m \in Procs /\ m[1] = r /\ CodeOf(m) = cs
  BY DEF Procs, Tids, NUM_THREADS, CodeOf
<1>2. job' = job /\ k \in Nat /\ k > 0 /\ th[m].at \in Nat /\ cs[k].op = "report" /\ cs[k].cond = {{Counted}}
  BY <1>1, Kinds, Known DEF AsksTheCounter
<1>3. CASE th'[m].at = th[m].at
  BY <1>3
<1>4. CASE Follows(th'[m], m) /\ ~Finished(m) /\ th'[m].at # th[m].at
  <2>1. th[m].item = NoItem /\ th'[m].at = th[m].at + 1
    BY <1>1, <1>2, <1>4, Executed
  <2>2. CASE th[m].at # k
    <3>1. th[m].at <= k
      OBVIOUS
    <3>2. \A a, b \in Nat : a <= b /\ a # b => a + 1 <= b
      OBVIOUS
    <3>3. th[m].at + 1 <= k
      BY ONLY <1>2, <2>2, <3>1, <3>2
    <3>4. th'[m].at <= k
      BY ONLY <2>1, <3>3
    <3>5. QED
      BY <3>4
  <2>3. CASE th[m].at = k
    <3>1. ~AtStart(m)
      BY <1>2, <2>3 DEF AtStart
    <3>2. Op(m) = cs[k]
      BY <1>1, <1>4, <2>1, <2>3, <3>1, OpIsCode
    <3>3. Op(m).op = "report" /\ Op(m).cond = {{Counted}}
      BY <1>2, <3>2
    <3>4. Executing(m)
      <4>1. ~Meeting(r)
        BY <1>1, <3>3, MeetingFollows DEF Meets
      <4>2. th'[m] # th[m] /\ ~Entering(m) /\ ~Taking(m) /\ ~Stopping(r)
        BY <1>4, <3>3, MpiOpsAre DEF Entering, Taking, Stopping
      <4>3. QED
        BY <1>1, <4>1, <4>2, ThreadChanges
    <3>5. PICK v \in Outcomes(m[1], Op(m).cond) : verdicts' = [verdicts EXCEPT ![m[1]] = @ \cup {v}]
      BY <3>3, <3>4 DEF Executing, ReportStep
    <3>6. v = TRUE
      BY <1>1, <3>3, <3>5, CounterAnswers
    <3>7. verdicts \in [Ranks -> SUBSET BOOLEAN]
      BY DEF IInv, Typed, ResultsTyped
    <3>8. QED
      BY <1>1, <3>5, <3>6, <3>7
  <2>4. QED
    BY <2>2, <2>3
<1>5. Entering(m) => th'[m].at = th[m].at
  BY DEF Entering
<1>6. Taking(m) => th'[m].at = th[m].at
  BY <1>1, <1>2, Took
<1>7. Stopping(r) => th'[m].at = th[m].at
  BY <1>1, <1>2, Stopped
<1>8. Executing(m) \/ Meeting(r) => Follows(th'[m], m) /\ ~Finished(m)
  BY <1>1, MeetingFollows DEF Executing
<1>9. QED
  BY <1>1, <1>3, <1>4, <1>5, <1>6, <1>7, <1>8, ThreadChanges

LEMMA OverlapKept ==
  ASSUME IInv, Together, OverlapInv, [Next]_vars PROVE OverlapInv'
<1>1. job' = job /\ (TooLow' <=> TooLow)
  BY Kinds DEF TooLow
<1>2. SUFFICES ASSUME OverlapWatched(job), "overlap" \in seen'
               PROVE  /\ ~TooLow
                      /\ \E r \in Ranks : \E k \in DOMAIN job.code[r][0] :
                           /\ AsksTheCounter(job.code[r][0][k]) /\ oracle'[r].overlap_count # 0
                           /\ th'[<<r, 0>>].at <= k \/ TRUE \in verdicts'[r]
  BY <1>1 DEF OverlapInv, OverlapWatched
<1>3. CASE "overlap" \in seen
  <2>1. PICK r \in Ranks : \E k \in DOMAIN job.code[r][0] :
          /\ AsksTheCounter(job.code[r][0][k]) /\ oracle[r].overlap_count # 0
          /\ th[<<r, 0>>].at <= k \/ TRUE \in verdicts[r]
    BY <1>2, <1>3 DEF OverlapInv
  <2>2. PICK k \in DOMAIN job.code[r][0] :
          /\ AsksTheCounter(job.code[r][0][k]) /\ oracle[r].overlap_count # 0
          /\ th[<<r, 0>>].at <= k \/ TRUE \in verdicts[r]
    BY <2>1
  <2>3. oracle'[r].overlap_count # 0
    BY <2>2, CountGrows
  <2>4. TRUE \in verdicts[r] => TRUE \in verdicts'[r]
    BY VerdictMoves
  <2>5. th'[<<r, 0>>].at <= k \/ TRUE \in verdicts'[r]
    BY <2>2, <2>4, MainReports
  <2>6. ~TooLow
    BY <1>2, <1>3 DEF OverlapInv
  <2>7. QED
    BY <2>2, <2>3, <2>5, <2>6
<1>4. CASE "overlap" \notin seen
  <2>1. PICK p \in Procs : Entering(p) /\ "overlap" \in CallFaults(p)
    <3>1. ~NoThreadMisuse /\ seen' # seen
      BY <1>2, <1>4 DEF NoThreadMisuse, ThreadMisuses
    <3>2. ASSUME NEW p \in Procs, Executing(p) PROVE FALSE
      <4>1. CASE Op(p).op # "report"
        BY <3>1, <3>2, <4>1 DEF Executing, ReportStep
      <4>2. CASE Op(p).op = "report"
        <5>1. PICK v : seen' = seen \cup {f \in {"finalize"} : ~v /\ team[p[1]].finalized}
          BY <3>2, <4>2 DEF Executing, ReportStep
        <5>2. QED
          BY <1>2, <1>4, <5>1
      <4>3. QED
        BY <4>1, <4>2
    <3>3. \E p \in Procs : Entering(p)
      BY <3>1, <3>2, Kinds DEF Still, Taking, Meeting, Stopping
    <3>4. QED
      BY <1>2, <1>4, <3>3 DEF Entering
  <2>2. Op(p).op \in MpiOps /\ oracle' = oracle /\ th'[p].at = th[p].at /\ OthersRest(p)
    BY <2>1 DEF Entering
  <2>3. ~TooLow
    BY <2>2, MpiOpsAre, NothingWhenTooLow DEF Meets
  <2>4. p[1] \in Ranks /\ <<p[1], 0>> \in Procs
    BY Known DEF Procs, Tids, NUM_THREADS
  <2>5. PICK k \in DOMAIN job.code[p[1]][0] : AsksTheCounter(job.code[p[1]][0][k]) /\ th[<<p[1], 0>>].at < k
    BY <1>2, <2>1, <2>2, WatchedOverlap
  <2>6. oracle'[p[1]].overlap_count # 0
    BY <1>2, <2>1, <2>2, WatchedOverlap
  <2>7. th'[<<p[1], 0>>].at = th[<<p[1], 0>>].at
    BY <2>2, <2>4 DEF OthersRest
  <2>8. th[<<p[1], 0>>].at \in Nat /\ k \in Nat
    BY <2>4, <2>5, Known
  <2>9. th'[<<p[1], 0>>].at <= k
    BY <2>5, <2>7, <2>8
  <2>10. QED
    BY <2>3, <2>4, <2>5, <2>6, <2>9
<1>5. QED
  BY <1>3, <1>4

LEMMA AlwaysOverlapInv == Spec => []OverlapInv
<1>1. Init => OverlapInv
  BY DEF Init, OverlapInv
<1>2. IInv /\ Together /\ OverlapInv /\ [Next]_vars => OverlapInv'
  BY OverlapKept
<1>3. QED
  BY <1>1, <1>2, Invariance, AlwaysTogether, PTL DEF Spec

(* Two collectives at a time, with the macros around all that can be, are     *)
(* reported by the end of the run.                                            *)
WatchedOverlapIsReported == OverlapWatched(job) /\ Terminated /\ "overlap" \in seen => Said(TRUE)

(* No interleaving of a case with the macros around its collectives hides     *)
(* their overlap from has_error_manifested: the share of                      *)
(* WatchedMisuseIsReported that rests on the macros.                          *)
THEOREM OverlapIsReported == Spec => []WatchedOverlapIsReported
<1>1. IInv /\ Together /\ OverlapInv => WatchedOverlapIsReported
  <2>1. SUFFICES ASSUME IInv, Together, OverlapInv, OverlapWatched(job), Terminated, "overlap" \in seen
                 PROVE  \E r \in Ranks : TRUE \in verdicts[r]
    BY DEF WatchedOverlapIsReported, Said
  <2>2. ~TooLow
    BY <2>1 DEF OverlapInv
  <2>3. PICK r \in Ranks : \E k \in DOMAIN job.code[r][0] : th[<<r, 0>>].at <= k \/ TRUE \in verdicts[r]
    BY <2>1 DEF OverlapInv
  <2>4. PICK k \in DOMAIN job.code[r][0] : th[<<r, 0>>].at <= k \/ TRUE \in verdicts[r]
    BY <2>3
  <2> DEFINE m == <<r, 0>>
  <2>5. m \in Procs /\ CodeOf(m) = job.code[r][0]
    BY DEF Procs, Tids, NUM_THREADS, CodeOf
  <2>6. th[m].at = Len(CodeOf(m)) + 1
    BY <2>1, <2>2, <2>5 DEF Together, PlaceInv, Terminated
  <2>7. k \in 1..Len(CodeOf(m)) /\ Len(CodeOf(m)) \in Nat
    BY <2>1, <2>4, <2>5, Known
  <2> HIDE DEF m
  <2>8. ~(th[m].at <= k)
    BY <2>6, <2>7
  <2>9. QED
    BY <2>4, <2>8 DEF m
<1>2. QED
  BY <1>1, Invariance, AlwaysTogether, AlwaysOverlapInv, PTL
-----------------------------------------------------------------------------
(***************************************************************************)
(* A case whose macros keep out of each other's way.                       *)
(***************************************************************************)
LEMMA IsInMacros ==
  ASSUME IInv, NEW p \in Procs, ~Finished(p), ~AtStart(p), InBracket(p) \/ Op(p).op = "capture",
         AroundCalls(job.code[p[1]])
  PROVE  Op(p).op \in InMacros(job.code[p[1]])
<1> DEFINE r == p[1]
           code == job.code[r]
           k == th[p].at
           x == CodeOf(p)[k]
<1>1. p[2] \in Tids /\ CodeOf(p) = code[p[2]] /\ k \in DOMAIN code[p[2]]
  BY OpIsCode, Known DEF CodeOf
<1>2. CASE th[p].item = NoItem
  <2>1. Op(p) = x /\ AtMacros(CodeOf(p), k)
    BY <1>2, OpIsCode DEF InBracket, AtMacros
  <2>2. Op(p).op \in MacroOps \cup MpiOps
    BY <1>1, <1>2, <2>1 DEF AroundCalls, InBracket, MacroOps
  <2>3. QED
    BY <1>1, <2>1, <2>2 DEF InMacros
<1>3. CASE th[p].item # NoItem
  <2> DEFINE i == th[p].item[2]
             j == th[p].step
  <2>1. AtItem(p) /\ x.op = "work"
    BY <1>3, OpIsCode
  <2>2. i \in DOMAIN x.items /\ j \in DOMAIN x.items[i].code /\ Op(p) = x.items[i].code[j]
    BY <2>1 DEF AtItem, ItemCode
  <2>3. IsProgram(CodeOf(p))
    BY <1>1, Known DEF IsTeam
  <2>4. ~Inside(CodeOf(p), k)
    BY <2>1, <2>3, ItemIsCode
  <2>5. AtMacros(x.items[i].code, j)
    BY <2>2, <2>4 DEF InBracket, AtMacros, ItemCode
  <2>6. Op(p).op \in MacroOps \cup MpiOps
    <3>1. Inside(x.items[i].code, j) => x.items[i].code[j].op \in MacroOps \cup MpiOps
      BY <1>1, <2>1, <2>2 DEF AroundCalls
    <3>2. "capture" \in MacroOps
      BY DEF MacroOps
    <3>3. QED
      BY <2>2, <2>5, <3>1, <3>2 DEF AtMacros
  <2>7. QED
    BY <1>1, <2>1, <2>2, <2>5, <2>6 DEF InMacros
<1>4. QED
  BY <1>2, <1>3

(* Where the code keeps the macros apart nobody meets between them.           *)
NobodyMeets == \A r \in Ranks : KeptOut(job.code[r]) => ~HaveMet(r)

LEMMA NobodyMeetsKept ==
  ASSUME IInv, Together, FlagIsExact, NobodyMeets, [Next]_vars PROVE NobodyMeets'
<1>1. job' = job
  BY Kinds
<1>2. SUFFICES ASSUME NEW r \in Ranks, KeptOut(job.code[r]) PROVE ~HaveMet(r)'
  BY <1>1 DEF NobodyMeets
<1>3. ~HaveMet(r)
  BY <1>2 DEF NobodyMeets
<1>4. CASE \A p \in Procs : p[1] = r => ~Executing(p)
  BY <1>3, <1>4, InsideStays
<1>5. ASSUME NEW p \in Procs, p[1] = r, Executing(p) PROVE ~HaveMet(r)'
  <2>1. CASE Op(p).op # "capture"
    BY <1>3, <1>5, <2>1, MeetingStays
  <2>2. CASE Op(p).op = "capture"
    <3>1. InsideOf(r) = {}
      <4>1. SUFFICES ASSUME NEW t \in Tids, InBracket(<<r, t>>) PROVE FALSE
        BY DEF InsideOf
      <4> DEFINE q == <<r, t>>
                 ops == InMacros(job.code[r])
      <4>2. q \in Procs /\ q[1] = r /\ q[2] = t /\ InBracket(q)
        BY <4>1 DEF Procs
      <4> HIDE DEF q
      <4>3. p[2] \notin InsideOf(r)
        BY <1>5, <2>2, InsideMoves
      <4>4. q \in Mates(p)
        BY <1>5, <4>1, <4>2, <4>3 DEF Mates, InsideOf, q
      <4>5. ~Finished(q) /\ ~AtStart(q)
        <5>1. ~Finished(q)
          BY <4>2 DEF InBracket
        <5>2. th[q].item = NoItem => th[q].at # 0
          BY <4>2, InsideFirst DEF InBracket
        <5>3. QED
          BY <5>1, <5>2 DEF AtStart
      <4>6. ~Finished(p) /\ ~AtStart(p)
        BY <2>2 DEF Finished, AtStart
      <4>7. AroundCalls(job.code[r]) /\ Apart(job.code[r], ops)
        BY <1>2 DEF KeptOut
      <4>8. Op(p).op \in ops /\ Op(q).op \in ops
        BY <1>5, <2>2, <4>2, <4>5, <4>6, <4>7, IsInMacros
      <4>9. ops \cap {"none", "init", "work"} = {}
        BY MpiOpsAre DEF InMacros, MacroOps
      <4> HIDE DEF ops
      <4>10. QED
        BY <1>5, <4>4, <4>7, <4>8, <4>9, KeptApart
    <3>2. QED
      BY <1>3, <1>5, <2>2, <3>1, CapturePends DEF FlagIsExact
  <2>3. QED
    BY <2>1, <2>2
<1>6. QED
  BY <1>4, <1>5

LEMMA AlwaysNobodyMeets == Spec => []NobodyMeets
<1>1. Init => NobodyMeets
  BY InitiallyNothing DEF NobodyMeets
<1>2. IInv /\ Together /\ FlagIsExact /\ NobodyMeets /\ [Next]_vars => NobodyMeets'
  BY NobodyMeetsKept
<1>3. QED
  BY <1>1, <1>2, Invariance, AlwaysTogether, FlagCountsThreads, PTL DEF Spec

(* No interleaving of a correct case whose macros are kept apart, or that has *)
(* none, makes it call has_error_manifested with TRUE.                        *)
THEOREM QuietCasesAreSilent == Spec => [](QuietByDesign(job) => CorrectNeverReported)
<1>1. NobodyMeets /\ VerdictIsWhetherTheyMet => (QuietByDesign(job) => CorrectNeverReported)
  BY DEF NobodyMeets, VerdictIsWhetherTheyMet, QuietByDesign, CorrectNeverReported, Said
<1>2. QED
  BY <1>1, AlwaysNobodyMeets, VerdictsOfTheCounter, PTL
-----------------------------------------------------------------------------
(***************************************************************************)
(* The records of the calls.                                               *)
(***************************************************************************)
IsList(q) == q \in Seq(Range(q))

LEMMA ListIs ==
  ASSUME NEW q, IsList(q)
  PROVE  /\ Len(q) \in Nat /\ DOMAIN q = 1..Len(q) /\ q = [k \in 1..Len(q) |-> q[k]]
         /\ \A k \in DOMAIN q : q[k] \in Range(q)
<1>1. q \in Seq(Range(q))
  BY DEF IsList
<1>2. Len(q) \in Nat /\ DOMAIN q = 1..Len(q) /\ q \in [1..Len(q) -> Range(q)]
  BY <1>1, LenProperties
<1>3. QED
  BY <1>2 DEF Range

LEMMA ListOf ==
  ASSUME NEW q, NEW n \in Nat, q = [k \in 1..n |-> q[k]]
  PROVE  IsList(q) /\ DOMAIN q = 1..n
<1>1. DOMAIN q = 1..n /\ q \in [1..n -> Range(q)]
  BY DEF Range
<1>2. QED
  BY <1>1, SeqDef DEF IsList

LEMMA ListIn ==
  ASSUME NEW S, NEW q \in Seq(S)
  PROVE  IsList(q) /\ Range(q) \subseteq S
BY SeqOfRange, RangeOfSeq DEF IsList

LEMMA ListExcept ==
  ASSUME NEW q, IsList(q), NEW k \in DOMAIN q, NEW e
  PROVE  /\ IsList([q EXCEPT ![k] = e]) /\ DOMAIN [q EXCEPT ![k] = e] = DOMAIN q
         /\ \A x \in Range([q EXCEPT ![k] = e]) : x = e \/ x \in Range(q)
<1> DEFINE s == [q EXCEPT ![k] = e]
<1>1. Len(q) \in Nat /\ DOMAIN q = 1..Len(q)
  BY ListIs
<1>2. s = [j \in 1..Len(q) |-> s[j]] /\ DOMAIN s = DOMAIN q
  BY <1>1
<1>3. \A j \in DOMAIN s : s[j] = e \/ s[j] = q[j]
  OBVIOUS
<1>4. \A x \in Range(s) : x = e \/ x \in Range(q)
  BY <1>2, <1>3 DEF Range
<1> HIDE DEF s
<1>5. IsList(s)
  BY <1>1, <1>2, ListOf
<1>6. QED
  BY <1>2, <1>4, <1>5 DEF s

LEMMA ListConcat ==
  ASSUME NEW q, NEW s, IsList(q), IsList(s)
  PROVE  IsList(q \o s) /\ Range(q \o s) = Range(q) \cup Range(s)
<1> DEFINE S == Range(q) \cup Range(s)
<1>1. q \in Seq(S) /\ s \in Seq(S)
  BY SeqMonotonic DEF IsList
<1> HIDE DEF S
<1>2. q \o s \in Seq(S)
  BY <1>1, ConcatProperties
<1>3. Range(q \o s) = Range(q) \cup Range(s)
  BY <1>1, RangeConcatenation
<1>4. QED
  BY <1>2, <1>3, ListIn

LEMMA ListAppend ==
  ASSUME NEW q, NEW e, IsList(q)
  PROVE  IsList(Append(q, e)) /\ \A x \in Range(Append(q, e)) : x = e \/ x \in Range(q)
<1> DEFINE S == Range(q) \cup {e}
<1>1. q \in Seq(S) /\ e \in S
  BY SeqMonotonic DEF IsList
<1>2. Append(q, e) \in Seq(S)
  BY <1>1, AppendProperties
<1> HIDE DEF S
<1>3. IsList(Append(q, e)) /\ Range(Append(q, e)) \subseteq S
  BY <1>2, ListIn
<1>4. QED
  BY <1>3 DEF S

LEMMA ListRemove ==
  ASSUME NEW q, IsList(q), NEW k \in DOMAIN q
  PROVE  IsList(RemoveAt(q, k)) /\ Range(RemoveAt(q, k)) \subseteq Range(q)
<1>1. Len(q) \in Nat /\ DOMAIN q = 1..Len(q) /\ k \in Nat /\ k > 0 /\ k <= Len(q)
  BY ListIs
<1>2. \A j \in 1..(k - 1) : q[j] \in Range(q)
  BY <1>1 DEF Range
<1>3. \A j \in (k + 1)..Len(q) : q[j] \in Range(q)
  BY <1>1 DEF Range
<1>4. SubSeq(q, 1, k - 1) \in Seq(Range(q)) /\ SubSeq(q, k + 1, Len(q)) \in Seq(Range(q))
  BY <1>1, <1>2, <1>3, SubSeqProperties
<1>5. RemoveAt(q, k) \in Seq(Range(q))
  BY <1>4, ConcatProperties DEF RemoveAt
<1>6. QED
  BY <1>5, ListIn

LEMMA ListWithout ==
  ASSUME NEW q, NEW id, IsList(q)
  PROVE  IsList(Without(q, id)) /\ Range(Without(q, id)) \subseteq Range(q)
BY ListRemove DEF Without
MessageFields == {"id", "kind", "meant", "peer", "tag", "buf", "cells", "vals", "matched", "held", "nonblocking", "waited"}
CollectiveFields == {"id", "op", "root", "type", "buf", "cells", "into", "vals", "done", "nonblocking", "waited"}

\* The record of a message, and of a collective call, is that of an instruction.
AsksFor(x, i) ==
  /\ x.nonblocking = (i.op \in Nonblocking) /\ x.kind \in {"send", "recv"}
  /\ x.kind = "send" => i.op \in Sends /\ x.buf = i.buf /\ x.cells = i.cells
  /\ x.kind = "recv" => /\ i.op \in Receives \cup {"recvprobed"}
                        /\ i.op # "recvprobed" => x.cells = i.cells /\ x.meant = NoCall
IsMessage(r, x) == DOMAIN x = MessageFields /\ \E i \in Instructions(job.code[r]) : AsksFor(x, i)

CalledBy(x, i) ==
  /\ i.op \in Collectives /\ x.nonblocking = (i.op \in Nonblocking)
  /\ x.op = Collective(NoCall, i).op /\ x.root = i.peer /\ x.type = i.tag /\ x.buf = i.buf /\ x.cells = i.cells
IsCollective(r, x) == DOMAIN x = CollectiveFields /\ \E i \in Instructions(job.code[r]) : CalledBy(x, i)

RecordsInv ==
  /\ DOMAIN queue = Ranks /\ DOMAIN coll = Ranks
  /\ \A r \in Ranks : /\ IsList(queue[r]) /\ \A x \in Range(queue[r]) : IsMessage(r, x)
                      /\ IsList(coll[r]) /\ \A x \in Range(coll[r]) : IsCollective(r, x)

\* The case that runs.
TheCase == Program[job.name]
CaseInv == /\ job.name \in DOMAIN Program /\ job.code = TheCase.code /\ job.label = TheCase.label
           /\ job.checks = TheCase.checks /\ job.level = TheCase.level

\* Nothing that a rank can read is uninitialised, in memory ...
MemStored == DOMAIN mem = Ranks /\ \A r \in Ranks : /\ DOMAIN mem[r] = DOMAIN TheCase.mem[r]
                                                    /\ \A y \in DOMAIN mem[r] : mem[r][y] # Uninit
\* ... or on its way.
Clean(vals) == \A k \in DOMAIN vals : vals[k] # Uninit
ValsStored == \A r \in Ranks : /\ \A x \in Range(queue[r]) : Clean(x.vals)
                               /\ \A x \in Range(coll[r]) : Clean(x.vals)
StoredInv == "uninit" \in RuledOut(TheCase) => MemStored /\ ValsStored

Absent == \A l \in RuledOut(TheCase) : l \notin seen
Harmless == \A l \in RuledOut(TheCase) : l \in seen' => l \in seen

\* What becomes of the records of a rank.
MessageFrom(r, y, x) ==
  /\ DOMAIN y = DOMAIN x /\ y.kind = x.kind /\ y.meant = x.meant /\ y.buf = x.buf /\ y.cells = x.cells
  /\ y.nonblocking = x.nonblocking
  /\ y.vals = x.vals \/ (x.kind = "send" /\ y.vals = Contents(r, x))
CollectiveFrom(r, y, x) ==
  /\ DOMAIN y = DOMAIN x /\ y.op = x.op /\ y.root = x.root /\ y.type = x.type /\ y.buf = x.buf /\ y.cells = x.cells
  /\ y.nonblocking = x.nonblocking
  /\ y.vals = x.vals \/ (x.op # "barrier" /\ y.vals = Contents(r, x))
BecomesMessage(r, y) == (\E x \in Range(queue[r]) : MessageFrom(r, y, x)) \/ (IsMessage(r, y) /\ y.vals = <<>>)
Becomes(Q) == DOMAIN Q = Ranks /\ \A r \in Ranks : IsList(Q[r]) /\ \A y \in Range(Q[r]) : BecomesMessage(r, y)
QueueMoves == Becomes(queue')
CollMoves ==
  DOMAIN coll' = Ranks /\ \A r \in Ranks : IsList(coll'[r]) /\ \A y \in Range(coll'[r]) :
    (\E x \in Range(coll[r]) : CollectiveFrom(r, y, x)) \/ (IsCollective(r, y) /\ y.vals = <<>>)

LEMMA RuledOutIs ==
  ASSUME NEW c
  PROVE  /\ RuledOut(c) \subseteq {"race", "handle", "request", "stolen", "truncated", "uninit", "mismatch"}
         /\ "race" \in RuledOut(c) => \A r \in Ranks : TouchesApart(r, c.code[r])
         /\ "handle" \in RuledOut(c) =>
              /\ \A r \in Ranks : Avoids(c.code[r], {"use", "free"})
              /\ \A r \in Ranks : \A i \in Instructions(c.code[r]) : i.uses = {}
         /\ "request" \in RuledOut(c) => \A r \in Ranks : Avoids(c.code[r], {"wait"})
         /\ RuledOut(c) \cap {"stolen", "truncated", "uninit"} # {} => \A r \in Ranks : Avoids(c.code[r], Probing)
         /\ RuledOut(c) \cap {"truncated", "uninit"} # {} => RoomForAll(c)
         /\ "uninit" \in RuledOut(c) => AllStored(c)
         /\ "mismatch" \in RuledOut(c) => CollectivesAgree(c)
BY DEF RuledOut

LEMMA OpIsInstruction ==
  ASSUME IInv, NEW p \in Procs, ~Finished(p), ~AtStart(p)
  PROVE  Op(p) \in Instructions(job.code[p[1]])
<1> DEFINE code == job.code[p[1]]
           cs == CodeOf(p)
           x == cs[th[p].at]
<1>1. th[p].at \in DOMAIN cs /\ cs = code[p[2]] /\ p[2] \in Tids
  BY OpIsCode, Known
<1>2. cs \in Strands(code)
  BY <1>1 DEF Strands
<1>3. CASE th[p].item = NoItem
  <2>1. Op(p) = x
    BY <1>3, OpIsCode
  <2>2. Op(p) \in Range(cs)
    BY <1>1, <2>1 DEF Range
  <2>3. QED
    BY <1>2, <2>2 DEF Instructions
<1>4. CASE th[p].item # NoItem
  <2>1. AtItem(p) /\ x.op = "work"
    BY <1>4, OpIsCode
  <2>2. th[p].item[2] \in DOMAIN x.items /\ th[p].step \in DOMAIN ItemCode(p) /\ Op(p) = ItemCode(p)[th[p].step]
    BY <2>1 DEF AtItem
  <2>3. x \in {y \in Range(code[p[2]]) : y.op = "work"} /\ x.items[th[p].item[2]] \in Range(x.items)
    BY <1>1, <2>1, <2>2 DEF Range
  <2>4. ItemCode(p) \in {i.code : i \in Range(x.items)}
    BY <2>3 DEF ItemCode
  <2>5. ItemCode(p) \in Strands(code)
    <3> DEFINE W(t) == {y \in Range(code[t]) : y.op = "work"}
               I(y) == {i.code : i \in Range(y.items)}
    <3>1. ItemCode(p) \in UNION {I(y) : y \in W(p[2])}
      BY <2>3, <2>4
    <3>2. Strands(code) = UNION {{code[t]} \cup UNION {I(y) : y \in W(t)} : t \in Tids}
      BY DEF Strands
    <3> HIDE DEF W, I
    <3>3. QED
      BY <1>1, <3>1, <3>2
  <2>6. Op(p) \in Range(ItemCode(p))
    BY <2>2 DEF Range
  <2>7. QED
    BY <2>5, <2>6 DEF Instructions
<1>5. QED
  BY <1>3, <1>4

LEMMA RecordsKept ==
  ASSUME RecordsInv, QueueMoves, CollMoves, job' = job
  PROVE  RecordsInv'
<1>1. ASSUME NEW r \in Ranks, NEW y \in Range(queue'[r]) PROVE IsMessage(r, y)
  <2>1. CASE IsMessage(r, y)
    BY <2>1
  <2>2. CASE \E x \in Range(queue[r]) : MessageFrom(r, y, x)
    <3>1. PICK x \in Range(queue[r]) : MessageFrom(r, y, x)
      BY <2>2
    <3>2. PICK i \in Instructions(job.code[r]) : AsksFor(x, i) /\ DOMAIN x = MessageFields
      BY DEF RecordsInv, IsMessage
    <3>3. AsksFor(y, i) /\ DOMAIN y = MessageFields
      BY <3>1, <3>2 DEF MessageFrom, AsksFor
    <3>4. QED
      BY <3>3 DEF IsMessage
  <2>3. QED
    BY <1>1, <2>1, <2>2 DEF QueueMoves, Becomes, BecomesMessage
<1>2. ASSUME NEW r \in Ranks, NEW y \in Range(coll'[r]) PROVE IsCollective(r, y)
  <2>1. CASE IsCollective(r, y)
    BY <2>1
  <2>2. CASE \E x \in Range(coll[r]) : CollectiveFrom(r, y, x)
    <3>1. PICK x \in Range(coll[r]) : CollectiveFrom(r, y, x)
      BY <2>2
    <3>2. PICK i \in Instructions(job.code[r]) : CalledBy(x, i) /\ DOMAIN x = CollectiveFields
      BY DEF RecordsInv, IsCollective
    <3>3. CalledBy(y, i) /\ DOMAIN y = CollectiveFields
      BY <3>1, <3>2 DEF CollectiveFrom, CalledBy
    <3>4. QED
      BY <3>3 DEF IsCollective
  <2>3. QED
    BY <1>2, <2>1, <2>2 DEF CollMoves
<1>3. QED
  BY <1>1, <1>2 DEF RecordsInv, QueueMoves, Becomes, CollMoves, IsMessage, IsCollective
LEMMA StoredIs ==
  ASSUME CaseInv, "uninit" \in RuledOut(TheCase), NEW r \in Ranks, NEW i \in Instructions(job.code[r])
  PROVE  /\ i.op \notin {"add", "reduce"} \cup Probing /\ (i.op = "store" => i.val # Uninit)
         /\ i.op \in Sends \cup {"bcast", "ibcast"} => \A k \in 1..Len(i.cells) : <<i.buf, i.cells[k]>> \in DOMAIN TheCase.mem[r]
<1>1. AllStored(TheCase) /\ (\A d \in Ranks : Avoids(TheCase.code[d], Probing)) /\ i \in Instructions(TheCase.code[r])
  BY RuledOutIs DEF CaseInv
<1>2. QED
  BY <1>1 DEF AllStored, Avoids

LEMMA ContentsClean ==
  ASSUME CaseInv, RecordsInv, "uninit" \in RuledOut(TheCase), MemStored, NEW r \in Ranks
  PROVE  /\ \A x \in Range(queue[r]) : x.kind = "send" => Clean(Contents(r, x))
         /\ \A x \in Range(coll[r]) : x.op # "reduce" /\ (x.op # "barrier" => Clean(Contents(r, x)))
<1>1. ASSUME NEW x, \A k \in 1..Len(x.cells) : <<x.buf, x.cells[k]>> \in DOMAIN TheCase.mem[r]
      PROVE  Clean(Contents(r, x))
  BY <1>1 DEF Clean, Contents, MemStored
<1>2. ASSUME NEW x \in Range(queue[r]), x.kind = "send" PROVE Clean(Contents(r, x))
  <2>1. PICK i \in Instructions(job.code[r]) : AsksFor(x, i)
    BY <1>2 DEF RecordsInv, IsMessage
  <2>2. i.op \in Sends /\ x.buf = i.buf /\ x.cells = i.cells
    BY <1>2, <2>1 DEF AsksFor
  <2>3. QED
    BY <1>1, <2>2, StoredIs
<1>3. ASSUME NEW x \in Range(coll[r]) PROVE x.op # "reduce" /\ (x.op # "barrier" => Clean(Contents(r, x)))
  <2>1. PICK i \in Instructions(job.code[r]) : CalledBy(x, i)
    BY <1>3 DEF RecordsInv, IsCollective
  <2>2. /\ i.op \in Collectives /\ x.buf = i.buf /\ x.cells = i.cells
        /\ x.op = IF i.op = "ibcast" THEN "bcast" ELSE i.op
    BY <2>1 DEF CalledBy, Collective
  <2>3. i.op # "reduce"
    BY StoredIs
  <2>4. i.op \in {"barrier", "bcast", "ibcast"}
    BY <2>2, <2>3 DEF Collectives
  <2>5. QED
    BY <1>1, <2>2, <2>4, StoredIs
<1>4. QED
  BY <1>2, <1>3

LEMMA ValsKept ==
  ASSUME CaseInv, RecordsInv, "uninit" \in RuledOut(TheCase), MemStored, ValsStored, QueueMoves, CollMoves
  PROVE  ValsStored'
<1>1. ASSUME NEW r \in Ranks, NEW y \in Range(queue'[r]) PROVE Clean(y.vals)
  <2>1. CASE y.vals = <<>>
    BY <2>1 DEF Clean
  <2>2. CASE \E x \in Range(queue[r]) : MessageFrom(r, y, x)
    BY <2>2, ContentsClean DEF MessageFrom, ValsStored
  <2>3. QED
    BY <1>1, <2>1, <2>2 DEF QueueMoves, Becomes, BecomesMessage
<1>2. ASSUME NEW r \in Ranks, NEW y \in Range(coll'[r]) PROVE Clean(y.vals)
  <2>1. CASE y.vals = <<>>
    BY <2>1 DEF Clean
  <2>2. CASE \E x \in Range(coll[r]) : CollectiveFrom(r, y, x)
    BY <2>2, ContentsClean DEF CollectiveFrom, ValsStored
  <2>3. QED
    BY <1>2, <2>1, <2>2 DEF CollMoves
<1>3. QED
  BY <1>1, <1>2 DEF ValsStored, Clean

LEMMA WriteStored ==
  ASSUME MemStored, job' = job, NEW r \in Ranks, NEW y, NEW v, v # Uninit, mem' = [mem EXCEPT ![r][y] = v]
  PROVE  MemStored'
<1>1. DOMAIN mem' = Ranks /\ mem'[r] = [mem[r] EXCEPT ![y] = v] /\ \A d \in Ranks : d # r => mem'[d] = mem[d]
  BY DEF MemStored
<1>2. DOMAIN mem'[r] = DOMAIN mem[r] /\ \A z \in DOMAIN mem[r] : mem'[r][z] = IF z = y THEN v ELSE mem[r][z]
  BY <1>1
<1>3. TheCase' = TheCase
  BY DEF TheCase
<1>4. ASSUME NEW d \in Ranks PROVE DOMAIN mem'[d] = DOMAIN TheCase.mem[d] /\ \A z \in DOMAIN mem'[d] : mem'[d][z] # Uninit
  <2>1. CASE d = r
    BY <1>2, <2>1 DEF MemStored
  <2>2. CASE d # r
    BY <1>1, <2>2 DEF MemStored
  <2>3. QED
    BY <2>1, <2>2
<1>5. QED
  BY <1>1, <1>3, <1>4 DEF MemStored

LEMMA PutStored ==
  ASSUME MemStored, job' = job, NEW r \in Ranks, NEW b, NEW cs, NEW data, Clean(data), mem' = Put(r, b, cs, data)
  PROVE  MemStored'
<1> DEFINE m == [x \in DOMAIN mem[r] |->
                   IF x[1] = b /\ \E j \in DOMAIN data : cs[j] = x[2]
                   THEN data[CHOOSE j \in DOMAIN data : cs[j] = x[2]] ELSE mem[r][x]]
<1>1. mem' = [mem EXCEPT ![r] = m]
  BY DEF Put
<1>2. ASSUME NEW x \in DOMAIN mem[r] PROVE m[x] # Uninit
  <2>1. CASE x[1] = b /\ \E j \in DOMAIN data : cs[j] = x[2]
    <3> DEFINE j == CHOOSE j \in DOMAIN data : cs[j] = x[2]
    <3>1. j \in DOMAIN data /\ m[x] = data[j]
      BY <2>1
    <3> HIDE DEF j, m
    <3>2. QED
      BY <3>1 DEF Clean
  <2>2. CASE ~(x[1] = b /\ \E j \in DOMAIN data : cs[j] = x[2])
    <3>1. m[x] = mem[r][x]
      BY <2>2
    <3> HIDE DEF m
    <3>2. QED
      BY <3>1 DEF MemStored
  <2>3. QED
    BY <2>1, <2>2
<1>3. DOMAIN m = DOMAIN mem[r]
  OBVIOUS
<1> HIDE DEF m
<1>4. DOMAIN mem' = Ranks /\ mem'[r] = m /\ \A d \in Ranks : d # r => mem'[d] = mem[d]
  BY <1>1 DEF MemStored
<1>5. TheCase' = TheCase
  BY DEF TheCase
<1>6. QED
  BY <1>2, <1>3, <1>4, <1>5 DEF MemStored
-----------------------------------------------------------------------------
(***************************************************************************)
(* What a call that is entered, or an access to memory, cannot be.         *)
(***************************************************************************)
LEMMA LeafHere ==
  ASSUME IInv, NEW p \in Procs, ~Finished(p), ~AtStart(p), Op(p).op # "work"
  PROVE  \E a \in Leaves(CodeOf(p), th[p].at) :
           /\ a.does = Op(p) /\ (a.locked => HoldsLock(p))
           /\ CodeOf(p)[th[p].at].op = "work" => th[p].item # NoItem /\ a.item = th[p].item[2]
<1> DEFINE x == CodeOf(p)[th[p].at]
           i == th[p].item[2]
           j == th[p].step
<1>1. CASE th[p].item = NoItem
  <2>1. x = Op(p) /\ x.op # "work"
    BY <1>1, OpIsCode
  <2> DEFINE a == [does |-> x, item |-> 0, locked |-> Locked(CodeOf(p), th[p].at)]
  <2>2. a \in Leaves(CodeOf(p), th[p].at)
    BY <2>1 DEF Leaves
  <2>3. a.does = Op(p) /\ (a.locked => HoldsLock(p))
    BY <2>1 DEF HoldsLock
  <2>4. QED
    BY <2>1, <2>2, <2>3
<1>2. CASE th[p].item # NoItem
  <2>1. AtItem(p) /\ x.op = "work"
    BY <1>2, OpIsCode
  <2>2. i \in DOMAIN x.items /\ ItemCode(p) = x.items[i].code /\ j \in DOMAIN x.items[i].code /\ Op(p) = x.items[i].code[j]
    BY <2>1 DEF AtItem, ItemCode
  <2> DEFINE Leaf(m, n) == [does |-> x.items[m].code[n], item |-> m, locked |-> Locked(x.items[m].code, n)]
  <2>3. Leaf(i, j) \in {Leaf(i, n) : n \in DOMAIN x.items[i].code}
    BY <2>2
  <2>4. Leaf(i, j) \in UNION {{Leaf(m, n) : n \in DOMAIN x.items[m].code} : m \in DOMAIN x.items}
    BY <2>2, <2>3
  <2>5. Leaf(i, j) \in Leaves(CodeOf(p), th[p].at)
    BY <2>1, <2>4 DEF Leaves
  <2>6. Leaf(i, j).does = Op(p) /\ Leaf(i, j).item = i /\ (Leaf(i, j).locked => HoldsLock(p))
    BY <1>2, <2>2 DEF HoldsLock
  <2>7. QED
    BY <1>2, <2>5, <2>6
<1>3. QED
  BY <1>1, <1>2

LEMMA TouchedApart ==
  ASSUME IInv, Together, NEW p \in Procs, NEW q \in Mates(p), TouchesApart(p[1], job.code[p[1]]),
         ~Finished(p), ~AtStart(p), Op(p).op # "work", ~Finished(q), ~AtStart(q), Op(q).op # "work"
  PROVE  ~Conflict(Touched(p), Touched(q))
<1> DEFINE r == p[1]
           code == job.code[r]
           x == CodeOf(p)[th[p].at]
           y == CodeOf(q)[th[q].at]
<1>1. q \in Procs /\ q[1] = r /\ q # p /\ p = <<r, p[2]>> /\ q = <<r, q[2]>> /\ p[2] \in Tids /\ q[2] \in Tids
  BY Known DEF Mates
<1>2. SUFFICES ASSUME Conflict(Touched(p), Touched(q)) PROVE FALSE
  OBVIOUS
<1>3. CodeOf(p) = code[p[2]] /\ CodeOf(q) = code[q[2]] /\ Met(q) = Met(p)
  BY <1>1 DEF CodeOf, Together, TeamInv
<1>4. PICK a \in Leaves(CodeOf(p), th[p].at) :
        /\ a.does = Op(p) /\ (a.locked => HoldsLock(p))
        /\ x.op = "work" => th[p].item # NoItem /\ a.item = th[p].item[2]
  BY LeafHere
<1>5. PICK b \in Leaves(CodeOf(q), th[q].at) :
        /\ b.does = Op(q) /\ (b.locked => HoldsLock(q))
        /\ y.op = "work" => th[q].item # NoItem /\ b.item = th[q].item[2]
  BY <1>1, LeafHere
<1>6. th[p].at \in DOMAIN code[p[2]] /\ th[q].at \in DOMAIN code[q[2]]
  BY <1>1, <1>3, OpIsCode
<1>7. Conflict(Touches(r, a.does), Touches(r, b.does))
  BY <1>1, <1>2, <1>4, <1>5 DEF Touched
<1>8. p[2] # q[2] /\ MeetsBefore(code[p[2]], th[p].at) = MeetsBefore(code[q[2]], th[q].at)
  BY <1>1, <1>3 DEF Met
<1>9. (a.locked /\ b.locked) \/ InTurn(x, a.item, y, b.item)
  BY <1>1, <1>3, <1>4, <1>5, <1>6, <1>7, <1>8 DEF TouchesApart
<1>10. CASE a.locked /\ b.locked
  <2>1. HoldsLock(p) /\ HoldsLock(q) /\ LockInv(p) /\ LockInv(q)
    BY <1>1, <1>4, <1>5, <1>10 DEF Together
  <2>2. QED
    BY <1>1, <1>8, <2>1 DEF LockInv
<1>11. CASE InTurn(x, a.item, y, b.item)
  <2> DEFINE i == th[p].item[2]
             j == th[q].item[2]
  <2>1. x.op = "work" /\ y.op = "work" /\ x.tag = y.tag
    BY <1>11 DEF InTurn
  <2>2. th[p].item # NoItem /\ th[q].item # NoItem /\ a.item = i /\ b.item = j
    BY <1>4, <1>5, <2>1
  <2>3. i = j \/ i \in y.items[j].after \/ j \in x.items[i].after
    BY <1>11, <2>2 DEF InTurn
  <2>4. ItemInv(p) /\ ItemInv(q)
    BY <1>1 DEF Together
  <2>5. /\ th[p].item = <<x.tag, i>> /\ \A u \in Mates(p) : th[u].item # th[p].item
        /\ \A k \in x.items[i].after : ItemDone(r, <<x.tag, k>>)
    BY <2>2, <2>4 DEF ItemInv
  <2>6. th[q].item = <<y.tag, j>> /\ \A k \in y.items[j].after : ItemDone(r, <<y.tag, k>>)
    BY <1>1, <2>2, <2>4 DEF ItemInv
  <2>7. i # j
    BY <2>1, <2>5, <2>6
  <2>8. i \notin y.items[j].after
    BY <1>1, <2>1, <2>5, <2>6 DEF ItemDone
  <2>9. j \notin x.items[i].after
    BY <1>1, <2>1, <2>5, <2>6 DEF ItemDone
  <2>10. QED
    BY <2>3, <2>7, <2>8, <2>9
<1>12. QED
  BY <1>9, <1>10, <1>11

LEMMA NothingPending ==
  ASSUME RecordsInv, NEW r \in Ranks, Avoids(job.code[r], Nonblocking)
  PROVE  Pending(r) = {}
<1>1. \A x \in Range(queue[r]) : ~x.nonblocking
  BY DEF RecordsInv, IsMessage, AsksFor, Avoids
<1>2. \A x \in Range(coll[r]) : ~x.nonblocking
  BY DEF RecordsInv, IsCollective, CalledBy, Avoids
<1>3. ToSet(queue[r]) = Range(queue[r]) /\ ToSet(coll[r]) = Range(coll[r])
  BY DEF ToSet, Range
<1>4. /\ {y \in ToSet(queue[r]) : y.nonblocking /\ ~y.waited} = {}
      /\ {y \in ToSet(coll[r]) : y.nonblocking /\ ~y.waited} = {}
  BY <1>1, <1>2, <1>3
<1> DEFINE A == {y \in ToSet(queue[r]) : y.nonblocking /\ ~y.waited}
           B == {y \in ToSet(coll[r]) : y.nonblocking /\ ~y.waited}
<1>5. Pending(r) = UNION {Touch(x.buf, x.cells, x.kind = "recv") : x \in A} \cup
                   UNION {Touch(x.buf, x.cells, r # x.root) : x \in B}
  BY DEF Pending
<1>6. A = {} /\ B = {}
  BY <1>4
<1> HIDE DEF A, B
<1>7. QED
  BY <1>5, <1>6

LEMMA NoRace ==
  ASSUME IInv, Together, CaseInv, RecordsInv, "race" \in RuledOut(TheCase), NEW p \in Procs,
         Op(p).op \in MpiOps \cup {"store", "add", "judge"}
  PROVE  ~Races(p)
<1>1. TouchesApart(p[1], job.code[p[1]]) /\ p[1] \in Ranks
  BY RuledOutIs, Known DEF CaseInv
<1>2. Pending(p[1]) = {}
  BY <1>1, NothingPending DEF TouchesApart
<1>3. ~Finished(p) /\ ~AtStart(p) /\ Op(p).op # "work"
  BY MpiOpsAre DEF Finished, AtStart
<1>4. ASSUME NEW q \in MatesInMpi(p) PROVE ~Conflict(Touched(p), Touched(q))
  <2>1. q \in Mates(p) /\ Op(q).op \in MpiOps /\ ~Finished(q) /\ ~AtStart(q)
    BY InMpi
  <2>2. Op(q).op # "work"
    BY <2>1, MpiOpsAre
  <2>3. QED
    BY <1>1, <1>3, <2>1, <2>2, TouchedApart
<1>5. ~Conflict(Touched(p), Pending(p[1]))
  BY <1>2 DEF Conflict
<1>6. QED
  BY <1>4, <1>5 DEF Races

LEMMA NoFault ==
  ASSUME IInv, Together, CaseInv, RecordsInv, NEW p \in Procs, Op(p).op \in MpiOps,
         NEW l \in RuledOut(TheCase)
  PROVE  l \notin CallFaults(p)
<1> DEFINE r == p[1]
           i == Op(p)
<1>1. ~Finished(p) /\ ~AtStart(p) /\ r \in Ranks /\ Other(r) \in Ranks
  BY MpiOpsAre, Known DEF Finished, AtStart, Ranks, Other
<1>2. i \in Instructions(job.code[r])
  BY <1>1, OpIsInstruction
<1>3. CASE l = "race"
  <2>1. ~Races(p)
    BY <1>3, NoRace
  <2>2. QED
    BY <1>3, <2>1 DEF CallFaults
<1>4. CASE l = "handle"
  <2>1. i.op \notin {"use", "free"} /\ i.uses = {}
    BY <1>1, <1>2, <1>4, RuledOutIs DEF CaseInv, Avoids
  <2>2. QED
    BY <1>4, <2>1 DEF CallFaults
<1>5. CASE l = "mismatch"
  <2>1. CollectivesAgree(TheCase)
    BY <1>5, RuledOutIs
  <2> DEFINE n == Len(coll[r]) + 1
             y == coll[Other(r)][n]
  <2>2. SUFFICES ASSUME i.op \in Collectives, n \in DOMAIN coll[Other(r)] PROVE Agree(Collective(NoCall, i), y)
    BY <1>5 DEF CallFaults
  <2>3. y \in Range(coll[Other(r)])
    BY <2>2 DEF Range
  <2>4. PICK j \in Instructions(job.code[Other(r)]) : CalledBy(y, j)
    BY <1>1, <2>3 DEF RecordsInv, IsCollective
  <2>5. Agree(Collective(NoCall, i), Collective(NoCall, j))
    BY <1>1, <1>2, <2>1, <2>2, <2>4 DEF CollectivesAgree, CaseInv, CalledBy
  <2>6. y.op = Collective(NoCall, j).op /\ y.root = Collective(NoCall, j).root /\ y.type = Collective(NoCall, j).type
        /\ y.cells = Collective(NoCall, j).cells
    BY <2>4 DEF CalledBy, Collective
  <2>7. QED
    BY <2>5, <2>6 DEF Agree, Alike
<1>6. QED
  BY <1>3, <1>4, <1>5, RuledOutIs DEF CallFaults
-----------------------------------------------------------------------------
(***************************************************************************)
(* Every step leaves the records, the memory and the misuses in order.     *)
(***************************************************************************)
InOrder == CaseInv /\ RecordsInv /\ StoredInv /\ Absent
Proper == /\ QueueMoves /\ CollMoves /\ Harmless
          /\ "uninit" \in RuledOut(TheCase) => MemStored'

LEMMA ProperKeeps ==
  ASSUME InOrder, Proper, job' = job
  PROVE  InOrder'
<1>1. TheCase' = TheCase /\ RuledOut(TheCase)' = RuledOut(TheCase) /\ CaseInv'
  BY DEF InOrder, CaseInv, TheCase
<1>2. RecordsInv'
  BY RecordsKept DEF InOrder, Proper
<1>3. StoredInv'
  BY <1>1, ValsKept DEF InOrder, Proper, StoredInv
<1>4. Absent'
  BY <1>1 DEF InOrder, Proper, Absent, Harmless
<1>5. QED
  BY <1>1, <1>2, <1>3, <1>4 DEF InOrder

LEMMA QueueRests == ASSUME RecordsInv, queue' = queue PROVE QueueMoves
BY DEF RecordsInv, QueueMoves, Becomes, BecomesMessage, MessageFrom

LEMMA CollRests == ASSUME RecordsInv, coll' = coll PROVE CollMoves
BY DEF RecordsInv, CollMoves, CollectiveFrom

LEMMA MemRests ==
  ASSUME InOrder, mem' = mem, job' = job, "uninit" \in RuledOut(TheCase)
  PROVE  MemStored'
BY DEF InOrder, StoredInv, MemStored, TheCase

LEMMA SeenRests ==
  ASSUME NEW S, seen' = seen \cup S, \A l \in RuledOut(TheCase) : l \notin S
  PROVE  Harmless
BY DEF Harmless

\* A step that does nothing to calls and memory.
LEMMA IdleIsProper ==
  ASSUME InOrder, job' = job, queue' = queue, coll' = coll, mem' = mem,
         seen' = seen \/ \E S \in SUBSET {"level", "overlap", "finalize"} : seen' = seen \cup S
  PROVE  Proper
<1>1. Harmless
  BY RuledOutIs DEF Harmless
<1>2. QED
  BY <1>1, QueueRests, CollRests, MemRests DEF Proper, InOrder

LEMMA RankIsProper ==
  ASSUME InOrder, NEW r \in Ranks, GiveUp(r) \/ KilledByAbort(r) \/ Begin(r) \/ Meet(r)
  PROVE  Proper
<1>1. job' = job /\ queue' = queue /\ coll' = coll /\ mem' = mem /\ seen' = seen
  BY DEF GiveUp, KilledByAbort, Begin, Meet, calls
<1>2. QED
  BY <1>1, IdleIsProper

LEMMA OracleIsProper ==
  ASSUME InOrder, NEW p \in Procs,
         \/ Take(p) \/ Pass(p) \/ Acquire(p) \/ Release(p)
         \/ Capture(p) \/ Count(p) \/ End(p) \/ TakeFlag(p) \/ HasErrorManifested(p)
  PROVE  Proper
<1>1. CASE HasErrorManifested(p)
  <2>1. job' = job /\ queue' = queue /\ coll' = coll /\ mem' = mem
    BY <1>1 DEF HasErrorManifested, calls
  <2>2. PICK m : seen' = seen \cup {f \in {"finalize"} : ~m /\ team[p[1]].finalized}
    BY <1>1 DEF HasErrorManifested
  <2>3. QED
    BY <2>1, <2>2, IdleIsProper
<1>2. CASE ~HasErrorManifested(p)
  <2>1. job' = job /\ queue' = queue /\ coll' = coll /\ mem' = mem /\ seen' = seen
    BY <1>2 DEF Take, Pass, Acquire, Release, Capture, Count, End, TakeFlag, calls
  <2>2. QED
    BY <2>1, IdleIsProper
<1>3. QED
  BY <1>1, <1>2

LEMMA RaceIsProper ==
  ASSUME IInv, Together, InOrder, NEW p \in Procs, Op(p).op \in {"store", "add", "judge"},
         seen' = seen \cup {f \in {"race"} : Races(p)}
  PROVE  Harmless
BY NoRace DEF InOrder, Harmless

LEMMA WriteIsProper ==
  ASSUME IInv, Together, InOrder, NEW p \in Procs, Write(p)
  PROVE  Proper
<1>1. /\ Op(p).op \in {"store", "add"} /\ job' = job /\ queue' = queue /\ coll' = coll
      /\ seen' = seen \cup {f \in {"race"} : Races(p)}
  BY DEF Write, calls
<1>2. Harmless
  BY <1>1, RaceIsProper
<1>3. ASSUME "uninit" \in RuledOut(TheCase) PROVE MemStored'
  <2>1. ~Finished(p) /\ ~AtStart(p) /\ p[1] \in Ranks
    BY <1>1, Known DEF Finished, AtStart
  <2>2. Op(p) \in Instructions(job.code[p[1]])
    BY <2>1, OpIsInstruction
  <2>3. Op(p).op # "add" /\ Op(p).op = "store" /\ Op(p).val # Uninit
    BY <1>1, <1>3, <2>1, <2>2, StoredIs DEF InOrder
  <2>4. mem' = [mem EXCEPT ![p[1]][<<Op(p).buf, Op(p).cells[1]>>] = Op(p).val]
    BY <2>3 DEF Write
  <2>5. QED
    BY <1>1, <1>3, <2>1, <2>3, <2>4, WriteStored DEF InOrder, StoredInv
<1>4. QED
  BY <1>1, <1>2, <1>3, QueueRests, CollRests DEF Proper, InOrder

LEMMA DecideIsProper ==
  ASSUME IInv, Together, InOrder, NEW p \in Procs, Decide(p)
  PROVE  Proper
<1>1. /\ Op(p).op = "judge" /\ job' = job /\ queue' = queue /\ coll' = coll
      /\ seen' = seen \cup {f \in {"race"} : Races(p)} /\ p[1] \in Ranks
  BY Known DEF Decide, calls
<1>2. Harmless
  BY <1>1, RaceIsProper
<1>3. ASSUME "uninit" \in RuledOut(TheCase) PROVE MemStored'
  <2>1. mem' = mem \/ mem' = [mem EXCEPT ![p[1]][<<Op(p).buf, Op(p).cells[1]>>] = 1]
    BY DEF Decide
  <2>2. 1 # Uninit
    BY DEF Uninit
  <2>3. QED
    BY <1>1, <1>3, <2>1, <2>2, MemRests, WriteStored DEF InOrder, StoredInv
<1>4. QED
  BY <1>1, <1>2, <1>3, QueueRests, CollRests DEF Proper, InOrder
LEMMA MessageIs ==
  ASSUME NEW r, NEW id, NEW i \in Instructions(job.code[r]), NEW kind, NEW b,
         kind = "send" => i.op \in Sends /\ b = i.buf,
         kind = "recv" => i.op \in Receives, kind \in {"send", "recv"}
  PROVE  IsMessage(r, Message(id, i, kind, b)) /\ Message(id, i, kind, b).vals = <<>>
<1> DEFINE x == Message(id, i, kind, b)
<1>1. DOMAIN x = MessageFields
  BY DEF Message, MessageFields
<1>2. /\ x.kind = kind /\ x.buf = b /\ x.cells = i.cells /\ x.meant = NoCall /\ x.vals = <<>>
      /\ x.nonblocking = (i.op \in Nonblocking)
  BY DEF Message
<1> HIDE DEF x
<1>3. AsksFor(x, i)
  BY <1>2 DEF AsksFor
<1>4. QED
  BY <1>1, <1>2, <1>3 DEF IsMessage, x

LEMMA PostedIs ==
  ASSUME NEW p \in Procs, NEW id, Op(p) \in Instructions(job.code[p[1]])
  PROVE  IsList(Posted(p, id)) /\ \A x \in Range(Posted(p, id)) : IsMessage(p[1], x) /\ x.vals = <<>>
<1> DEFINE i == Op(p)
           r == p[1]
           send == Message(id, i, "send", i.buf)
<1>1. ASSUME NEW x, IsMessage(r, x) /\ x.vals = <<>>
      PROVE  IsList(<<x>>) /\ \A z \in Range(<<x>>) : IsMessage(r, z) /\ z.vals = <<>>
  <2>1. <<x>> \in Seq({x})
    OBVIOUS
  <2>2. IsList(<<x>>) /\ Range(<<x>>) \subseteq {x}
    BY <2>1, ListIn
  <2>3. QED
    BY <1>1, <2>2
<1>2. CASE i.op \in {"send", "isend"}
  <2>1. Posted(p, id) = <<send>>
    BY <1>2 DEF Posted
  <2>2. IsMessage(r, send) /\ send.vals = <<>>
    <3>1. i.op \in Sends /\ i \in Instructions(job.code[r])
      BY <1>2 DEF Sends
    <3> HIDE DEF i
    <3>2. QED
      BY <3>1, MessageIs
  <2> HIDE DEF send
  <2>3. QED
    BY <1>1, <2>1, <2>2
<1>3. CASE i.op \in {"recv", "irecv"}
  <2> DEFINE m == Message(id, i, "recv", i.buf)
  <2>1. Posted(p, id) = <<m>>
    BY <1>3 DEF Posted
  <2>2. IsMessage(r, m) /\ m.vals = <<>>
    BY <1>3, MessageIs DEF Receives
  <2> HIDE DEF m
  <2>3. QED
    BY <1>1, <2>1, <2>2
<1>4. CASE i.op = "recvprobed"
  <2> DEFINE m == Probed(p, id)
             x == Message(id, i, "recv", i.buf)
  <2>1. Posted(p, id) = <<m>>
    BY <1>4 DEF Posted
  <2>2. DOMAIN x = MessageFields /\ x.kind = "recv" /\ x.vals = <<>> /\ x.nonblocking = (i.op \in Nonblocking)
    BY DEF Message, MessageFields
  <2>3. m = [x EXCEPT !.meant = th[p].found.id, !.tag = th[p].found.tag, !.cells = SubSeq(@, 1, Len(th[p].found.cells))]
    BY DEF Probed
  <2> HIDE DEF x, m
  <2>4. DOMAIN m = MessageFields /\ m.kind = "recv" /\ m.vals = <<>> /\ m.nonblocking = (i.op \in Nonblocking)
    BY <2>2, <2>3 DEF MessageFields
  <2>5. AsksFor(m, i)
    BY <1>4, <2>4 DEF AsksFor
  <2>6. QED
    BY <1>1, <2>1, <2>4, <2>5 DEF IsMessage
<1>5. CASE i.op = "sendrecv"
  <2> DEFINE m == Message(id, i, "recv", i.into)
  <2>1. Posted(p, id) = <<m, send>>
    BY <1>5 DEF Posted
  <2>2. IsMessage(r, m) /\ m.vals = <<>> /\ IsMessage(r, send) /\ send.vals = <<>>
    BY <1>5, MessageIs DEF Receives, Sends
  <2> HIDE DEF m, send
  <2>3. <<m, send>> \in Seq({m, send})
    OBVIOUS
  <2>4. IsList(<<m, send>>) /\ Range(<<m, send>>) \subseteq {m, send}
    BY <2>3, ListIn
  <2>5. QED
    BY <2>1, <2>2, <2>4
<1>6. CASE i.op \notin {"send", "isend", "recv", "irecv", "recvprobed", "sendrecv"}
  <2>1. Posted(p, id) = <<>>
    BY <1>6 DEF Posted
  <2>2. <<>> \in Seq({}) /\ Range(<<>>) = {}
    BY DEF Range
  <2>3. QED
    BY <2>1, <2>2, ListIn
<1>7. QED
  BY <1>2, <1>3, <1>4, <1>5, <1>6

LEMMA CollectiveIs ==
  ASSUME NEW r, NEW id, NEW i \in Instructions(job.code[r]), i.op \in Collectives
  PROVE  IsCollective(r, Collective(id, i)) /\ Collective(id, i).vals = <<>>
<1> DEFINE x == Collective(id, i)
<1>1. DOMAIN x = CollectiveFields
  BY DEF Collective, CollectiveFields
<1>2. CalledBy(x, i) /\ x.vals = <<>>
  BY DEF Collective, CalledBy
<1>3. QED
  BY <1>1, <1>2 DEF IsCollective

LEMMA EnterIsProper ==
  ASSUME IInv, Together, InOrder, NEW p \in Procs, Enter(p)
  PROVE  Proper
<1> DEFINE r == p[1]
           i == Op(p)
           id == <<p[2], th[p].calls + 1>>
<1>1. /\ i.op \in MpiOps /\ job' = job /\ mem' = mem /\ queue' = [queue EXCEPT ![r] = @ \o Posted(p, id)]
      /\ coll' = IF i.op \in Collectives THEN [coll EXCEPT ![r] = Append(@, Collective(id, i))] ELSE coll
      /\ seen' = seen \cup CallFaults(p)
  BY DEF Enter
<1>2. ~Finished(p) /\ ~AtStart(p) /\ r \in Ranks
  BY <1>1, MpiOpsAre, Known DEF Finished, AtStart
<1>3. i \in Instructions(job.code[r])
  BY <1>2, OpIsInstruction
<1>4. Harmless
  BY <1>1, NoFault DEF Harmless, InOrder
<1>5. QueueMoves
  <2>1. DOMAIN queue' = Ranks /\ queue'[r] = queue[r] \o Posted(p, id) /\ \A d \in Ranks : d # r => queue'[d] = queue[d]
    BY <1>1, <1>2 DEF InOrder, RecordsInv
  <2>2. IsList(Posted(p, id)) /\ \A x \in Range(Posted(p, id)) : IsMessage(r, x) /\ x.vals = <<>>
    BY <1>3, PostedIs
  <2>3. IsList(queue[r])
    BY <1>2 DEF InOrder, RecordsInv
  <2>4. IsList(queue'[r]) /\ Range(queue'[r]) = Range(queue[r]) \cup Range(Posted(p, id))
    BY <2>1, <2>2, <2>3, ListConcat
  <2>5. \A d \in Ranks : \A y \in Range(queue[d]) : MessageFrom(d, y, y)
    BY DEF MessageFrom
  <2>6. QED
    BY <2>1, <2>2, <2>4, <2>5 DEF QueueMoves, Becomes, BecomesMessage, InOrder, RecordsInv
<1>6. CollMoves
  <2>1. CASE i.op \in Collectives
    <3> DEFINE x == Collective(id, i)
    <3>1. DOMAIN coll' = Ranks /\ coll'[r] = Append(coll[r], x) /\ \A d \in Ranks : d # r => coll'[d] = coll[d]
      BY <1>1, <1>2, <2>1 DEF InOrder, RecordsInv
    <3>2. IsCollective(r, x) /\ x.vals = <<>>
      BY <1>3, <2>1, CollectiveIs
    <3>3. IsList(coll[r])
      BY <1>2 DEF InOrder, RecordsInv
    <3> HIDE DEF x
    <3>4. IsList(coll'[r]) /\ \A y \in Range(coll'[r]) : y = x \/ y \in Range(coll[r])
      BY <3>1, <3>3, ListAppend
    <3>5. \A d \in Ranks : \A y \in Range(coll[d]) : CollectiveFrom(d, y, y)
      BY DEF CollectiveFrom
    <3>6. QED
      BY <3>1, <3>2, <3>4, <3>5 DEF CollMoves, InOrder, RecordsInv
  <2>2. CASE i.op \notin Collectives
    BY <1>1, <2>2, CollRests DEF InOrder
  <2>3. QED
    BY <2>1, <2>2
<1>7. QED
  BY <1>1, <1>4, <1>5, <1>6, MemRests DEF Proper
LEMMA RetireMoves ==
  ASSUME RecordsInv, NEW r \in Ranks, NEW id, Retire(r, id)
  PROVE  QueueMoves /\ CollMoves
<1> DEFINE over(x) == IF x.id = id THEN [x EXCEPT !.waited = TRUE] ELSE x
           kept == Without(Without(queue[r], id), id)
           left == [k \in DOMAIN kept |-> over(kept[k])]
           calls1 == [k \in DOMAIN coll[r] |-> over(coll[r][k])]
<1>1. queue' = [queue EXCEPT ![r] = left] /\ coll' = [coll EXCEPT ![r] = calls1]
  BY DEF Retire
<1>2. IsList(kept) /\ Range(kept) \subseteq Range(queue[r])
  <2>1. IsList(queue[r])
    BY DEF RecordsInv
  <2>2. IsList(Without(queue[r], id)) /\ Range(Without(queue[r], id)) \subseteq Range(queue[r])
    BY <2>1, ListWithout
  <2> DEFINE once == Without(queue[r], id)
  <2> HIDE DEF once
  <2>3. IsList(Without(once, id)) /\ Range(Without(once, id)) \subseteq Range(once)
    BY <2>2, ListWithout DEF once
  <2>4. QED
    BY <2>2, <2>3 DEF once
<1>3. \A x \in Range(queue[r]) : MessageFrom(r, over(x), x)
  BY DEF MessageFrom, RecordsInv, IsMessage, MessageFields
<1>4. \A x \in Range(coll[r]) : CollectiveFrom(r, over(x), x)
  BY DEF CollectiveFrom, RecordsInv, IsCollective, CollectiveFields
<1> HIDE DEF kept, over
<1>5. Len(kept) \in Nat /\ DOMAIN kept = 1..Len(kept) /\ \A k \in DOMAIN kept : kept[k] \in Range(kept)
  BY <1>2, ListIs
<1>6. IsList(left) /\ \A y \in Range(left) : \E x \in Range(queue[r]) : MessageFrom(r, y, x)
  <2>1. left = [k \in 1..Len(kept) |-> left[k]] /\ \A k \in DOMAIN left : k \in DOMAIN kept /\ left[k] = over(kept[k])
    BY <1>5
  <2>2. \A k \in DOMAIN left : MessageFrom(r, left[k], kept[k]) /\ kept[k] \in Range(queue[r])
    BY <1>2, <1>3, <1>5, <2>1
  <2> HIDE DEF left
  <2>3. IsList(left)
    BY <1>5, <2>1, ListOf
  <2>4. \A y \in Range(left) : \E x \in Range(queue[r]) : MessageFrom(r, y, x)
    BY <2>2 DEF Range
  <2>5. QED
    BY <2>3, <2>4
<1>7. Len(coll[r]) \in Nat /\ DOMAIN coll[r] = 1..Len(coll[r]) /\ \A k \in DOMAIN coll[r] : coll[r][k] \in Range(coll[r])
  BY ListIs DEF RecordsInv
<1>8. IsList(calls1) /\ \A y \in Range(calls1) : \E x \in Range(coll[r]) : CollectiveFrom(r, y, x)
  <2>1. calls1 = [k \in 1..Len(coll[r]) |-> calls1[k]] /\ \A k \in DOMAIN calls1 : k \in DOMAIN coll[r] /\ calls1[k] = over(coll[r][k])
    BY <1>7
  <2>2. \A k \in DOMAIN calls1 : CollectiveFrom(r, calls1[k], coll[r][k]) /\ coll[r][k] \in Range(coll[r])
    BY <1>4, <1>7, <2>1
  <2> HIDE DEF calls1
  <2>3. IsList(calls1)
    BY <1>7, <2>1, ListOf
  <2>4. \A y \in Range(calls1) : \E x \in Range(coll[r]) : CollectiveFrom(r, y, x)
    BY <2>2 DEF Range
  <2>5. QED
    BY <2>3, <2>4
<1> HIDE DEF left, calls1
<1>9. /\ DOMAIN queue' = Ranks /\ queue'[r] = left /\ \A d \in Ranks : d # r => queue'[d] = queue[d]
      /\ DOMAIN coll' = Ranks /\ coll'[r] = calls1 /\ \A d \in Ranks : d # r => coll'[d] = coll[d]
  BY <1>1 DEF RecordsInv
<1>10. \A d \in Ranks : (\A y \in Range(queue[d]) : MessageFrom(d, y, y)) /\ \A y \in Range(coll[d]) : CollectiveFrom(d, y, y)
  BY DEF MessageFrom, CollectiveFrom
<1>11. QueueMoves
  BY <1>6, <1>9, <1>10 DEF QueueMoves, Becomes, BecomesMessage, RecordsInv
<1>12. CollMoves
  BY <1>8, <1>9, <1>10 DEF CollMoves, RecordsInv
<1>13. QED
  BY <1>11, <1>12

\* One record of a queue is marked, or goes.
LEMMA MarkMoves ==
  ASSUME RecordsInv, NEW Q, Becomes(Q), NEW r \in Ranks, NEW k \in DOMAIN Q[r],
         NEW z, z = [Q[r][k] EXCEPT !.matched = TRUE] \/ z = [Q[r][k] EXCEPT !.held = TRUE],
         NEW S, S = [Q EXCEPT ![r] = [@ EXCEPT ![k] = z]]
  PROVE  Becomes(S) /\ \A d \in Ranks : DOMAIN S[d] = DOMAIN Q[d]
<1> DEFINE y == Q[r][k]
<1>1. IsList(Q[r]) /\ y \in Range(Q[r])
  BY ListIs DEF Becomes
<1>2. DOMAIN y = MessageFields
  BY <1>1 DEF Becomes, BecomesMessage, RecordsInv, IsMessage, MessageFrom
<1>3. /\ DOMAIN z = DOMAIN y /\ z.kind = y.kind /\ z.meant = y.meant /\ z.buf = y.buf /\ z.cells = y.cells
      /\ z.nonblocking = y.nonblocking /\ z.vals = y.vals
  BY <1>2 DEF MessageFields
<1>4. S[r] = [Q[r] EXCEPT ![k] = z] /\ DOMAIN S = Ranks /\ \A d \in Ranks : d # r => S[d] = Q[d]
  BY DEF Becomes
<1>5. IsList(S[r]) /\ DOMAIN S[r] = DOMAIN Q[r] /\ \A x \in Range(S[r]) : x = z \/ x \in Range(Q[r])
  <2> DEFINE q == Q[r]
  <2> HIDE DEF q, y
  <2>1. IsList(q) /\ k \in DOMAIN q
    BY <1>1 DEF q
  <2>2. /\ IsList([q EXCEPT ![k] = z]) /\ DOMAIN [q EXCEPT ![k] = z] = DOMAIN q
        /\ \A x \in Range([q EXCEPT ![k] = z]) : x = z \/ x \in Range(q)
    BY <2>1, ListExcept
  <2>3. QED
    BY <1>4, <2>2 DEF q
<1> HIDE DEF y
<1>6. BecomesMessage(r, z)
  <2>1. CASE \E x \in Range(queue[r]) : MessageFrom(r, y, x)
    BY <1>3, <2>1 DEF BecomesMessage, MessageFrom
  <2>2. CASE IsMessage(r, y) /\ y.vals = <<>>
    <3>1. PICK i \in Instructions(job.code[r]) : AsksFor(y, i)
      BY <2>2 DEF IsMessage
    <3>2. AsksFor(z, i)
      BY <1>3, <3>1 DEF AsksFor
    <3>3. QED
      BY <1>2, <1>3, <2>2, <3>2 DEF BecomesMessage, IsMessage
  <2>3. QED
    BY <1>1, <2>1, <2>2 DEF Becomes, BecomesMessage
<1>7. QED
  BY <1>4, <1>5, <1>6 DEF Becomes

LEMMA DropMoves ==
  ASSUME NEW Q, Becomes(Q), NEW r \in Ranks, NEW k \in DOMAIN Q[r], NEW S, S = [Q EXCEPT ![r] = RemoveAt(@, k)]
  PROVE  Becomes(S)
<1>1. S[r] = RemoveAt(Q[r], k) /\ DOMAIN S = Ranks /\ \A d \in Ranks : d # r => S[d] = Q[d]
  BY DEF Becomes
<1>2. IsList(S[r]) /\ Range(S[r]) \subseteq Range(Q[r])
  BY <1>1, ListRemove DEF Becomes
<1>3. QED
  BY <1>1, <1>2 DEF Becomes

LEMMA BecomesItself == ASSUME RecordsInv PROVE Becomes(queue)
BY DEF RecordsInv, Becomes, BecomesMessage, MessageFrom

LEMMA LeaveIsProper ==
  ASSUME IInv, Together, InOrder, NEW p \in Procs, LeaveImmediate(p) \/ LeaveBlocking(p) \/ LeaveWait(p)
  PROVE  Proper
<1>0. p[1] \in Ranks
  BY Known
<1>1. CASE LeaveImmediate(p)
  <2> DEFINE y == <<Op(p).buf, Op(p).cells[1]>>
  <2>1. job' = job /\ queue' = queue /\ coll' = coll /\ seen' = seen
        /\ (mem' = mem \/ mem' = [mem EXCEPT ![p[1]][y] = 1] \/ mem' = [mem EXCEPT ![p[1]][y] = 0])
    BY <1>1 DEF LeaveImmediate, calls
  <2>2. ASSUME "uninit" \in RuledOut(TheCase) PROVE MemStored'
    <3>1. MemStored /\ 1 # Uninit /\ 0 # Uninit
      BY <2>2 DEF InOrder, StoredInv, Uninit
    <3> HIDE DEF y
    <3>2. QED
      BY <1>0, <2>1, <2>2, <3>1, MemRests, WriteStored
  <2>3. QED
    BY <2>1, <2>2, QueueRests, CollRests DEF Proper, InOrder, Harmless
<1>2. CASE LeaveBlocking(p)
  <2>1. job' = job /\ mem' = mem /\ seen' = seen /\ Retire(p[1], LastCall(p))
    BY <1>2 DEF LeaveBlocking
  <2>2. QED
    BY <1>0, <2>1, RetireMoves, MemRests DEF Proper, InOrder, Harmless
<1>3. CASE LeaveWait(p)
  <2>1. job' = job /\ mem' = mem /\ Retire(p[1], th[p].reg) /\ Op(p).op = "wait" /\ (seen' = seen \/ seen' = seen \cup {"request"})
    BY <1>3 DEF LeaveWait
  <2>2. "request" \notin RuledOut(TheCase)
    <3>1. ~Finished(p) /\ ~AtStart(p)
      BY <2>1 DEF Finished, AtStart
    <3>2. Op(p) \in Instructions(job.code[p[1]])
      BY <3>1, OpIsInstruction
    <3>3. QED
      BY <1>0, <2>1, <3>2, RuledOutIs DEF InOrder, CaseInv, Avoids
  <2>3. Harmless
    BY <2>1, <2>2 DEF Harmless
  <2>4. QED
    BY <1>0, <2>1, <2>3, RetireMoves, MemRests DEF Proper, InOrder
<1>4. QED
  BY <1>1, <1>2, <1>3
LEMMA ProbeIsProper ==
  ASSUME IInv, Together, InOrder, NEW p \in Procs, LeaveProbe(p) \/ LeaveMrecv(p)
  PROVE  Proper
<1> DEFINE s == Op(p).peer
           r == p[1]
<1>1. Op(p).op \in Probing /\ job' = job /\ coll' = coll
  BY DEF LeaveProbe, LeaveMrecv, Probing
<1>2. "uninit" \notin RuledOut(TheCase)
  <2>1. ~Finished(p) /\ ~AtStart(p) /\ r \in Ranks
    BY <1>1, Known DEF Finished, AtStart, Probing
  <2>2. Op(p) \in Instructions(job.code[r])
    BY <2>1, OpIsInstruction
  <2>3. QED
    BY <1>1, <2>1, <2>2, RuledOutIs DEF InOrder, CaseInv, Avoids
<1>3. Harmless
  BY <1>2 DEF LeaveProbe, LeaveMrecv, Undefined, Harmless
<1>4. PICK k \in DOMAIN queue[s] :
        \/ queue' = queue
        \/ queue' = [queue EXCEPT ![s][k].held = TRUE]
        \/ queue' = [queue EXCEPT ![s][k].matched = TRUE]
        \/ queue' = [queue EXCEPT ![s] = RemoveAt(@, k)]
  <2>1. CASE LeaveProbe(p)
    <3>1. PICK k \in Probable(s, r, Op(p).tag) :
            queue' = IF Op(p).op = "mprobe" THEN [queue EXCEPT ![s][k].held = TRUE] ELSE queue
      BY <2>1 DEF LeaveProbe
    <3>2. k \in DOMAIN queue[s]
      BY DEF Probable
    <3>3. QED
      BY <3>1, <3>2
  <2>2. CASE LeaveMrecv(p)
    BY <2>2 DEF LeaveMrecv
  <2>3. QED
    BY <2>1, <2>2
<1>5. QueueMoves
  <2>1. RecordsInv /\ Becomes(queue)
    BY BecomesItself DEF InOrder
  <2>2. CASE s \notin Ranks
    <3>1. DOMAIN queue' = Ranks /\ \A d \in Ranks : queue'[d] = queue[d]
      BY <1>4, <2>1, <2>2 DEF RecordsInv
    <3>2. QED
      BY <2>1, <3>1 DEF QueueMoves, Becomes
  <2>3. CASE s \in Ranks
    <3> HIDE DEF s
    <3>1. CASE queue' = queue
      BY <2>1, <3>1 DEF QueueMoves
    <3>2. CASE queue' = [queue EXCEPT ![s][k].held = TRUE]
      <4> DEFINE z == [queue[s][k] EXCEPT !.held = TRUE]
      <4>1. queue' = [queue EXCEPT ![s] = [@ EXCEPT ![k] = z]]
        BY <3>2
      <4>2. z = [queue[s][k] EXCEPT !.held = TRUE]
        OBVIOUS
      <4> HIDE DEF z
      <4>3. QED
        BY <1>4, <2>1, <2>3, <4>1, <4>2, MarkMoves DEF QueueMoves
    <3>3. CASE queue' = [queue EXCEPT ![s][k].matched = TRUE]
      <4> DEFINE z == [queue[s][k] EXCEPT !.matched = TRUE]
      <4>1. queue' = [queue EXCEPT ![s] = [@ EXCEPT ![k] = z]]
        BY <3>3
      <4>2. z = [queue[s][k] EXCEPT !.matched = TRUE]
        OBVIOUS
      <4> HIDE DEF z
      <4>3. QED
        BY <1>4, <2>1, <2>3, <4>1, <4>2, MarkMoves DEF QueueMoves
    <3>4. CASE queue' = [queue EXCEPT ![s] = RemoveAt(@, k)]
      BY <1>4, <2>1, <2>3, <3>4, DropMoves DEF QueueMoves
    <3>5. QED
      BY <1>4, <3>1, <3>2, <3>3, <3>4
  <2>4. QED
    BY <2>2, <2>3
<1>6. CollMoves
  BY <1>1, CollRests DEF InOrder
<1>7. QED
  BY <1>2, <1>3, <1>5, <1>6 DEF Proper
LEMMA NothingUndefined == ASSUME NEW data, Clean(data) PROVE Undefined(data) = {}
BY DEF Clean, Undefined, ToSet

LEMMA PayloadClean ==
  ASSUME InOrder, "uninit" \in RuledOut(TheCase), NEW r \in Ranks, NEW x \in Range(queue[r]), x.kind = "send"
  PROVE  Clean(Payload(r, x))
BY ContentsClean DEF InOrder, StoredInv, ValsStored, Payload

LEMMA BufferIsProper ==
  ASSUME InOrder, NEW r \in Ranks, NEW k \in DOMAIN queue[r], BufferSend(r, k)
  PROVE  Proper
<1> DEFINE x == queue[r][k]
           y == [x EXCEPT !.vals = Contents(r, x)]
<1>1. /\ x.kind = "send" /\ queue' = [queue EXCEPT ![r][k].vals = Contents(r, x)]
      /\ seen' = seen \cup Undefined(Contents(r, x)) /\ job' = job /\ mem' = mem /\ coll' = coll
  BY DEF BufferSend
<1>2. IsList(queue[r]) /\ x \in Range(queue[r])
  BY ListIs DEF InOrder, RecordsInv
<1>3. MessageFrom(r, y, x)
  BY <1>1, <1>2 DEF InOrder, RecordsInv, IsMessage, MessageFields, MessageFrom
<1>4. queue'[r] = [queue[r] EXCEPT ![k] = y] /\ DOMAIN queue' = Ranks /\ \A d \in Ranks : d # r => queue'[d] = queue[d]
  BY <1>1 DEF InOrder, RecordsInv
<1> HIDE DEF y, x
<1>5. IsList(queue'[r]) /\ \A z \in Range(queue'[r]) : z = y \/ z \in Range(queue[r])
  BY <1>2, <1>4, ListExcept
<1>6. QueueMoves
  BY <1>2, <1>3, <1>4, <1>5, BecomesItself DEF QueueMoves, Becomes, BecomesMessage, InOrder
<1>7. Harmless
  <2>1. ASSUME "uninit" \in RuledOut(TheCase) PROVE Undefined(Contents(r, x)) = {}
    BY <1>1, <1>2, <2>1, ContentsClean, NothingUndefined DEF InOrder, StoredInv
  <2>2. QED
    BY <1>1, <2>1 DEF Harmless, Undefined
<1>8. QED
  BY <1>1, <1>6, <1>7, CollRests, MemRests DEF Proper, InOrder

LEMMA DeliverIsProper ==
  ASSUME InOrder, NEW s \in Ranks, NEW d \in Ranks, NEW k \in DOMAIN queue[s], NEW l \in DOMAIN queue[d],
         Deliver(s, d, k, l)
  PROVE  Proper
<1> DEFINE x == queue[s][k]
           y == queue[d][l]
           long == Len(x.cells) > Len(y.cells)
           data == IF long THEN SubSeq(Payload(s, x), 1, Len(y.cells)) ELSE Payload(s, x)
           once == [queue EXCEPT ![s][k].matched = TRUE]
           taken == [queue EXCEPT ![s][k].matched = TRUE, ![d][l].matched = TRUE]
<1>1. /\ x.kind = "send" /\ y.kind = "recv" /\ job' = job /\ coll' = coll /\ mem' = Put(d, y.buf, y.cells, data)
      /\ queue' = taken \/ queue' = [taken EXCEPT ![s] = RemoveAt(@, k)]
      /\ seen' = seen \cup Undefined(data) \cup {f \in {"truncated"} : long}
                     \cup {f \in {"stolen"} : y.meant \notin {NoCall, x.id}}
  BY DEF Deliver, IsOpen
<1>2. x \in Range(queue[s]) /\ y \in Range(queue[d]) /\ RecordsInv /\ CaseInv
  BY ListIs DEF InOrder, RecordsInv
<1>3. QueueMoves
  <2>1. Becomes(once) /\ \A r \in Ranks : DOMAIN once[r] = DOMAIN queue[r]
    <3> DEFINE z == [x EXCEPT !.matched = TRUE]
    <3>1. once = [queue EXCEPT ![s] = [@ EXCEPT ![k] = z]]
      OBVIOUS
    <3>2. z = [queue[s][k] EXCEPT !.matched = TRUE]
      OBVIOUS
    <3>3. Becomes(queue)
      BY <1>2, BecomesItself
    <3> HIDE DEF z, once, x, y, data, long, taken
    <3>4. Becomes(once)
      BY <1>2, <3>1, <3>2, <3>3, MarkMoves
    <3>5. \A r \in Ranks : DOMAIN once[r] = DOMAIN queue[r]
      BY <1>2, <3>1, <3>2, <3>3, MarkMoves
    <3>6. QED
      BY <3>4, <3>5
  <2>2. Becomes(taken) /\ \A r \in Ranks : DOMAIN taken[r] = DOMAIN queue[r]
    <3> DEFINE z == [once[d][l] EXCEPT !.matched = TRUE]
    <3>1. taken = [once EXCEPT ![d] = [@ EXCEPT ![l] = z]]
      OBVIOUS
    <3>2. z = [once[d][l] EXCEPT !.matched = TRUE]
      OBVIOUS
    <3> HIDE DEF z, once, x, y, data, long, taken
    <3>3. l \in DOMAIN once[d]
      BY <2>1
    <3>4. Becomes(taken)
      BY <1>2, <2>1, <3>1, <3>2, <3>3, MarkMoves
    <3>5. \A r \in Ranks : DOMAIN taken[r] = DOMAIN once[r]
      BY <1>2, <2>1, <3>1, <3>2, <3>3, MarkMoves
    <3>6. QED
      BY <2>1, <3>4, <3>5
  <2> HIDE DEF taken
  <2>3. k \in DOMAIN taken[s]
    BY <2>2
  <2>4. QED
    BY <1>1, <2>2, <2>3, DropMoves DEF QueueMoves
<1>4. PICK i \in Instructions(job.code[s]) : AsksFor(x, i)
  BY <1>2 DEF RecordsInv, IsMessage
<1>5. PICK j \in Instructions(job.code[d]) : AsksFor(y, j)
  BY <1>2 DEF RecordsInv, IsMessage
<1>6. ASSUME \A r \in Ranks : Avoids(TheCase.code[r], Probing)
      PROVE  j.op \in Receives /\ y.cells = j.cells /\ y.meant = NoCall
  BY <1>1, <1>2, <1>5, <1>6 DEF AsksFor, Avoids, CaseInv, Probing
<1>7. ASSUME RuledOut(TheCase) \cap {"truncated", "uninit"} # {} PROVE ~long
  <2>1. RoomForAll(TheCase) /\ j.op \in Receives /\ y.cells = j.cells
    BY <1>6, <1>7, RuledOutIs
  <2>2. i.op \in Sends /\ x.cells = i.cells
    BY <1>1, <1>4 DEF AsksFor
  <2>3. QED
    BY <1>2, <2>1, <2>2 DEF RoomForAll, CaseInv
<1>8. ASSUME "uninit" \in RuledOut(TheCase) PROVE Clean(data)
  <2>1. data = Payload(s, x)
    BY <1>7, <1>8
  <2>2. QED
    BY <1>1, <1>2, <1>8, <2>1, PayloadClean
<1>9. Harmless
  <2>1. ASSUME "uninit" \in RuledOut(TheCase) PROVE Undefined(data) = {}
    BY <1>8, <2>1, NothingUndefined
  <2>2. ASSUME "truncated" \in RuledOut(TheCase) PROVE ~long
    BY <1>7, <2>2
  <2>3. ASSUME "stolen" \in RuledOut(TheCase) PROVE y.meant = NoCall
    BY <1>6, <2>3, RuledOutIs
  <2> HIDE DEF data, long, x, y
  <2>4. \A f \in Undefined(data) : f = "uninit"
    BY DEF Undefined
  <2>5. QED
    BY <1>1, <2>1, <2>2, <2>3, <2>4 DEF Harmless
<1>10. ASSUME "uninit" \in RuledOut(TheCase) PROVE MemStored'
  <2>1. MemStored /\ Clean(data)
    BY <1>8, <1>10 DEF InOrder, StoredInv
  <2> HIDE DEF data
  <2>2. QED
    BY <1>1, <2>1, PutStored
<1>11. QED
  BY <1>1, <1>2, <1>3, <1>9, <1>10, CollRests DEF Proper
\* One record of a collective call changes.
LEMMA OneCollective ==
  ASSUME RecordsInv, NEW r \in Ranks, NEW n \in DOMAIN coll[r], NEW y, CollectiveFrom(r, y, coll[r][n]),
         coll' = [coll EXCEPT ![r] = [@ EXCEPT ![n] = y]]
  PROVE  CollMoves
<1>1. IsList(coll[r]) /\ coll[r][n] \in Range(coll[r])
  BY ListIs DEF RecordsInv
<1>2. coll'[r] = [coll[r] EXCEPT ![n] = y] /\ DOMAIN coll' = Ranks /\ \A d \in Ranks : d # r => coll'[d] = coll[d]
  BY DEF RecordsInv
<1>3. IsList(coll'[r]) /\ \A z \in Range(coll'[r]) : z = y \/ z \in Range(coll[r])
  BY <1>1, <1>2, ListExcept
<1>4. \A d \in Ranks : \A z \in Range(coll[d]) : CollectiveFrom(d, z, z)
  BY DEF CollectiveFrom
<1>5. QED
  BY <1>1, <1>2, <1>3, <1>4 DEF CollMoves, RecordsInv

LEMMA GoAheadIsProper ==
  ASSUME InOrder, NEW r \in Ranks, NEW n \in DOMAIN coll[r], GoAhead(r, n)
  PROVE  Proper
<1> DEFINE x == coll[r][n]
           y == [x EXCEPT !.done = TRUE, !.vals = Contents(r, x)]
<1>1. /\ x.op # "barrier" /\ coll' = [coll EXCEPT ![r] = [@ EXCEPT ![n] = y]]
      /\ seen' = seen \cup Undefined(Contents(r, x)) /\ job' = job /\ mem' = mem /\ queue' = queue
  BY DEF GoAhead, ContributesAlone
<1>2. x \in Range(coll[r]) /\ RecordsInv
  BY ListIs DEF InOrder, RecordsInv
<1>3. CollectiveFrom(r, y, x)
  BY <1>1, <1>2 DEF RecordsInv, IsCollective, CollectiveFields, CollectiveFrom
<1> HIDE DEF y
<1>4. CollMoves
  BY <1>1, <1>2, <1>3, OneCollective
<1>5. Harmless
  <2>1. ASSUME "uninit" \in RuledOut(TheCase) PROVE Undefined(Contents(r, x)) = {}
    BY <1>1, <1>2, <2>1, ContentsClean, NothingUndefined DEF InOrder, StoredInv
  <2> HIDE DEF x
  <2>2. \A f \in Undefined(Contents(r, x)) : f = "uninit"
    BY DEF Undefined
  <2>3. QED
    BY <1>1, <2>1, <2>2 DEF Harmless
<1>6. QED
  BY <1>1, <1>2, <1>4, <1>5, QueueRests, MemRests DEF Proper

LEMMA CombineIsProper ==
  ASSUME InOrder, NEW r \in Ranks, NEW n \in DOMAIN coll[r], Combine(r, n)
  PROVE  Proper
<1> DEFINE x == coll[r][n]
           y == coll[Other(r)][n]
           z == [x EXCEPT !.done = TRUE]
<1>1. /\ n \in DOMAIN coll[Other(r)] /\ coll' = [coll EXCEPT ![r] = [@ EXCEPT ![n] = z]]
      /\ job' = job /\ queue' = queue
  BY DEF Combine
<1>2. \/ mem' = mem /\ seen' = seen
      \/ mem' = Put(r, x.buf, x.cells, y.vals) /\ seen' = seen
      \/ x.op = "reduce" /\ seen' = seen \cup Undefined(Contents(r, x))
  BY DEF Combine
<1>3. x \in Range(coll[r]) /\ y \in Range(coll[Other(r)]) /\ Other(r) \in Ranks /\ RecordsInv
  BY <1>1, ListIs DEF InOrder, RecordsInv, Other, Ranks
<1>4. CollectiveFrom(r, z, x)
  BY <1>3 DEF RecordsInv, IsCollective, CollectiveFields, CollectiveFrom
<1> HIDE DEF z
<1>5. CollMoves
  BY <1>1, <1>3, <1>4, OneCollective
<1>6. ASSUME "uninit" \in RuledOut(TheCase) PROVE x.op # "reduce" /\ MemStored /\ Clean(y.vals)
  BY <1>3, <1>6, ContentsClean DEF InOrder, StoredInv, ValsStored
<1>7. Harmless
  <2> HIDE DEF x, y
  <2>1. \A f \in Undefined(Contents(r, x)) : f = "uninit"
    BY DEF Undefined
  <2>2. QED
    BY <1>2, <1>6, <2>1 DEF Harmless
<1>8. ASSUME "uninit" \in RuledOut(TheCase) PROVE MemStored'
  <2>1. CASE mem' = mem
    BY <1>1, <1>8, <2>1, MemRests
  <2>2. CASE mem' = Put(r, x.buf, x.cells, y.vals)
    BY <1>1, <1>6, <1>8, <2>2, PutStored
  <2>3. QED
    BY <1>2, <1>6, <1>8, <2>1, <2>2
<1>9. QED
  BY <1>1, <1>3, <1>5, <1>7, <1>8, QueueRests DEF Proper

LEMMA ThreadIsProper ==
  ASSUME IInv, Together, InOrder, NEW p \in Procs, ThreadStep(p)
  PROVE  Proper
<1>1. CASE InsideCall(p)
  BY <1>1, LeaveIsProper, ProbeIsProper DEF InsideCall
<1>2. CASE OutsideCalls(p)
  BY <1>2, OracleIsProper, WriteIsProper, DecideIsProper, EnterIsProper DEF OutsideCalls
<1>3. QED
  BY <1>1, <1>2 DEF ThreadStep

LEMMA LibraryIsProper ==
  ASSUME InOrder, LibraryStep
  PROVE  Proper
BY BufferIsProper, DeliverIsProper, GoAheadIsProper, CombineIsProper DEF LibraryStep

LEMMA OrderKept == IInv /\ Together /\ InOrder /\ [Next]_vars => InOrder'
<1> SUFFICES ASSUME IInv, Together, InOrder, [Next]_vars PROVE InOrder'
  OBVIOUS
<1>1. job' = job
  BY Kinds
<1>2. Proper
  <2>1. CASE UNCHANGED vars
    <3>1. queue' = queue /\ coll' = coll /\ mem' = mem /\ seen' = seen
      BY <2>1 DEF vars, calls
    <3>2. QED
      BY <1>1, <3>1, IdleIsProper
  <2>2. CASE Next
    BY <2>2, <2>1, RankIsProper, ThreadIsProper, LibraryIsProper DEF Next, Exited
  <2>3. QED
    BY <2>1, <2>2
<1>3. QED
  BY <1>1, <1>2, ProperKeeps

LEMMA InitiallyInOrder == Init => InOrder
<1> SUFFICES ASSUME Init PROVE InOrder
  OBVIOUS
<1>1. PICK n \in DOMAIN Program :
        /\ job.name = n /\ job.level = Program[n].level /\ job.checks = Program[n].checks
        /\ job.label = Program[n].label /\ job.code = Program[n].code
        /\ mem = Program[n].mem
  BY DEF Init
<1>2. /\ queue = [r \in Ranks |-> <<>>] /\ coll = [r \in Ranks |-> <<>>] /\ seen = {}
  BY DEF Init
<1>3. CaseInv /\ TheCase = Program[n]
  BY <1>1 DEF CaseInv, TheCase
<1>4. IsList(<<>>) /\ Range(<<>>) = {}
  BY ListOf DEF IsList, Range
<1>5. RecordsInv
  BY <1>2, <1>4 DEF RecordsInv
<1>6. StoredInv
  BY <1>1, <1>2, <1>3, <1>4, RuledOutIs DEF StoredInv, MemStored, ValsStored, AllStored
<1>7. Absent
  BY <1>2 DEF Absent
<1>8. QED
  BY <1>3, <1>5, <1>6, <1>7 DEF InOrder

LEMMA AlwaysInOrder == Spec => []InOrder
<1>1. Init => InOrder
  BY InitiallyInOrder
<1>2. IInv /\ Together /\ InOrder /\ [Next]_vars => InOrder'
  BY OrderKept
<1>3. QED
  BY <1>1, <1>2, Invariance, AlwaysTogether, PTL DEF Spec

(* What the code of a case rules out does not happen in it, be it a data race *)
(* on a buffer, a stale handle or request, a message that is stolen, cut off  *)
(* or of undefined content, or collectives that do not match.                 *)
THEOREM RuledOutNeverHappens == Spec => [](seen \cap RuledOut(Program[job.name]) = {})
<1>1. InOrder => seen \cap RuledOut(Program[job.name]) = {}
  BY DEF InOrder, Absent, TheCase
<1>2. QED
  BY <1>1, AlwaysInOrder, PTL

(* A case commits no other misuse than it is labelled with when its code      *)
(* rules the others out.                                                      *)
THEOREM MisuseIsLabelled == Spec => [](RulesOutMisuse(Program[job.name]) => OnlyTheLabelledMisuse)
<1>1. ASSUME InOrder, Excused, TypeOK, RulesOutMisuse(Program[job.name]) PROVE OnlyTheLabelledMisuse
  <2> DEFINE c == Program[job.name]
  <2>1. /\ job.code = c.code /\ job.label = c.label /\ job.checks = c.checks /\ job.level = c.level
        /\ \A l \in RuledOut(c) : l \notin seen
    BY <1>1 DEF InOrder, CaseInv, TheCase, Absent
  <2>2. SafelyLabelled(c) /\ Misuses \ ({"level", "overlap", "finalize"} \cup c.label) \subseteq RuledOut(c)
    BY <1>1 DEF RulesOutMisuse
  <2>3. SafelyLabelled(job)
    BY <2>1, <2>2 DEF SafelyLabelled
  <2>4. seen \cap ThreadMisuses \subseteq job.label /\ seen \subseteq Misuses
    BY <1>1, <2>3 DEF Excused, TypeOK
  <2>5. QED
    BY <2>1, <2>2, <2>4 DEF OnlyTheLabelledMisuse, ThreadMisuses
<1>2. QED
  BY <1>1, AlwaysInOrder, ThreadMisuseIsLabelled, TypeCorrect, PTL
=============================================================================
