------------------------- MODULE CorrectPt2ptCases -------------------------
(***************************************************************************)
(* The programs of micro-benches/0-level/correct/pt2pt, each named after   *)
(* its file: messages of the MPICH test suite, run on two ranks.           *)
(***************************************************************************)
EXTENDS MtestOps

Bytes2(v) == Chars(v, SIZE)
Repeated(one(_)) == FlattenSeq([i \in 1..Repeats |-> one(i)])
\* a transfer for each request
Each2(call(_)) == [i \in 1..Repeats |-> call(i)]

\* MPI_Waitany, as often as there are requests
anyall ==
  LET row(i) == Plus(Ints("buf", 4), 8 * (i - 1))
  IN Tested01(<<Barrier(WORLD)>> \o Each2(LAMBDA i : Send(row(i), 3 - i, MPI_INT, 1, 3, WORLD)) \o <<Barrier(WORLD)>>,
              Each2(LAMBDA i : Irecv(row(i), 3 - i, MPI_INT, MPI_ANY_SOURCE, ANY_TAG, WORLD, REQ[i]))
              \o <<Barrier(WORLD)>> \o Waitall(2) \o <<Barrier(WORLD)>>)
\* the address of ii, from MPI_BOTTOM on, is in the type
bottom ==
  LET newtype == <<TypeStruct(1, <<1>>, <<0>>, <<MPI_INT>>, "newtype"), TypeCommit("newtype")>>
      ii == Ints("ii", 1)
  IN Tested01(newtype \o <<Store(ii), Send(ii, 1, "newtype", 1, 0, WORLD), TypeFree("newtype")>>,
              newtype \o <<Store(ii), Recv(ii, 1, "newtype", 0, 0, WORLD), TypeFree("newtype")>>)
-----------------------------------------------------------------------------
Bsend(b, n, t, dst, tag, c) == Mode("buffered", Send(b, n, t, dst, tag, c))
bsend1 ==
  Tested01(<<Bsend(Chars("msg1", 7), 7, MPI_CHAR, 0, 1, WORLD), Bsend(Doubles("msg2", 2), 2, MPI_DOUBLE, 0, 1, WORLD),
             Bsend(Chars("msg3", 17), 17, MPI_CHAR, 0, 1, WORLD),
             Recv(Chars("rmsg1", 64), 7, MPI_CHAR, 0, 1, WORLD), Recv(Doubles("rmsg2", 64), 10, MPI_DOUBLE, 0, 1, WORLD),
             Recv(Chars("rmsg3", 64), 17, MPI_CHAR, 0, 1, WORLD), BufferDetach>>,
           <<BufferDetach>>)
\* a is filled and sent again and again, which a buffered send makes safe.
RefilledA(sent(_)) == Repeated(LAMBDA j : <<Store(Ints("a", 10))>> \o sent(j))
Collected(r) ==
  IF r # 0 THEN <<>>
  ELSE ForRoots(LAMBDA i : Repeated(LAMBDA j : <<Recv(Ints("b", 10), 10, MPI_INT, i, 27 + j, WORLD)>>))
BsendA(j) == <<Bsend(Ints("a", 10), 10, MPI_INT, 0, 27 + j, WORLD)>>
\* MPI_Ibsend, or the start of a persistent MPI_Bsend
IbsendA(j) == <<Immediate(Mode("buffered", Isend(Ints("a", 10), 10, MPI_INT, 0, 27 + j, WORLD, "")), "request"), Wait("request")>>
bsend2 == Tested(LAMBDA r : RefilledA(BsendA) \o Collected(r) \o <<BufferDetach>>)
bsend3 == Tested(LAMBDA r : RefilledA(LAMBDA j : IbsendA(j) \o <<RequestFree("request")>>) \o Collected(r) \o <<BufferDetach>>)
bsend4 == Tested(LAMBDA r : RefilledA(IbsendA) \o Collected(r) \o <<BufferDetach>>)
bsendalign == Tested(LAMBDA r : Times(Repeats, RefilledA(BsendA) \o Collected(r) \o <<BufferDetach>>))

Three(call(_, _)) == [i \in 1..3 |-> call(Array("msg" \o ToString(i), "uchar", SIZE), i)]
bsendpending == OnIntracomms(LAMBDA c, me :
  IF me = 0
  THEN Three(LAMBDA m, i : Bsend(m, SIZE, "MPI_UNSIGNED_CHAR", 1, 0, c)) \o SendrecvNothing(1, 10, c) \o <<BufferDetach>>
  ELSE SendrecvNothing(0, 10, c) \o Three(LAMBDA m, i : Recv(m, SIZE, "MPI_UNSIGNED_CHAR", 0, 0, c)))
-----------------------------------------------------------------------------
MSG == Ints("msg", 1)
cancelanysrc ==
  LET posted == Irecv(MSG, 1, MPI_INT, MPI_ANY_SOURCE, 0, WORLD, "request")
  IN Tested01(<<posted, Cancel("request"), Wait("request"), Barrier(WORLD), posted, Wait("request")>>,
              <<Barrier(WORLD), Store(MSG), Send(MSG, 1, MPI_INT, 0, 0, WORLD)>>)
\* Only a message with tag 1 is sent.
rcancel ==
  LET buf(i) == Chars("bufs" \o ToString(i), SIZE)
  IN Tested01(<<Send(Null, 0, MPI_CHAR, 1, 1, WORLD)>>,
              [i \in 1..4 |-> Irecv(buf(i), SIZE, MPI_CHAR, 0, i - 1, WORLD, REQ[i])]
              \o FlattenSeq([k \in 1..3 |-> LET i == <<3, 4, 1>>[k] IN <<Cancel(REQ[i]), Wait(REQ[i])>>])
              \o <<Wait(REQ[2])>> \o [i \in 1..4 |-> Free(buf(i))])
\* The message has been received when its send is cancelled.
scancel2 ==
  LET buf == Chars("buf", 2)
      n == Ints("n", 1)
  IN Tested01(ForCounts(LAMBDA k : <<Isend(buf, k, MPI_CHAR, 1, 2 * k, WORLD, "req"), Barrier(WORLD), Cancel("req"),
                                     Wait("req"), Send(n, 1, MPI_INT, 1, 123, WORLD), Barrier(WORLD), Free(buf)>>),
              ForCounts(LAMBDA k : <<Recv(buf, k, MPI_CHAR, 0, 2 * k, WORLD), Barrier(WORLD),
                                     Recv(n, 1, MPI_INT, 0, 123, WORLD), Barrier(WORLD), Free(buf)>>))
issendselfcancel == Tested(LAMBDA r :
  <<Mode("synchronous", Isend(Null, 0, MPI_BYTE, 0, 123, SELF, "req")), Probe(MPI_ANY_SOURCE, ANY_TAG, SELF),
    Cancel("req"), RequestFree("req"), Irecv(Null, 0, MPI_BYTE, 0, 123, SELF, "req"), Cancel("req"), Wait("req")>>)
-----------------------------------------------------------------------------
\* Two ints, one int apart: the same buffer for every message
TwoOfThree == <<TypeVector(2, 1, 2, MPI_INT, "newtype"), TypeCommit("newtype")>>
dtype_send ==
  LET snd(m) == Each2(LAMBDA i : Mode(m, Isend(Ints("snd_buf", 3), 1, "newtype", 1, 0, WORLD, REQ[i])))
      rcv == Each2(LAMBDA i : Recv(Ints("rcv_buf", 3), 1, "newtype", 0, 0, WORLD))
      posted == Each2(LAMBDA i : Irecv(Ints("rcv_buf", 3), 1, "newtype", 0, 0, WORLD, REQ[i]))
      From(m) == TwoOfThree \o snd(m) \o <<TypeFree("newtype")>> \o Waitall(2) \o <<Barrier(WORLD)>>
      To == TwoOfThree \o rcv \o <<TypeFree("newtype"), Barrier(WORLD)>>
  IN Tested01(<<Barrier(WORLD)>> \o From("standard") \o From("synchronous") \o TwoOfThree \o <<Barrier(WORLD)>>
              \o snd("ready") \o <<TypeFree("newtype")>> \o Waitall(2) \o <<Barrier(WORLD)>>,
              <<Barrier(WORLD)>> \o To \o To \o TwoOfThree \o posted
              \o <<Barrier(WORLD), TypeFree("newtype")>> \o Waitall(2) \o <<Barrier(WORLD)>>)

PartOf(v, i) == Plus(Chars(v, SIZE * Repeats), SIZE * (i - 1))
SendParts == Each2(LAMBDA i : Isend(PartOf("buff", i), SIZE, MPI_BYTE, 1, 0, WORLD, REQ[i])) \o Waitall(2)
RecvParts(src) == Each2(LAMBDA i : Irecv(PartOf("buff", i), SIZE, MPI_BYTE, src, 0, WORLD, REQ[i])) \o Waitall(2)
BuffFreed == <<Free(Chars("buff", 4))>>
manylmt == Tested01(SendParts \o BuffFreed, RecvParts(0) \o BuffFreed)
huge_anysrc == Tested01(SendParts \o BuffFreed, RecvParts(MPI_ANY_SOURCE) \o BuffFreed)
huge_dupcomm ==
  LET comms == <<"comms1", "comms2">>
      part(i) == Plus(Ints("buff", 4), 8 * (i - 1))
      On(transfers) == [i \in 1..2 |-> Dup(WORLD, comms[i], <<0, 1>>)] \o transfers \o Waitall(2)
                       \o [i \in 1..2 |-> CommFree(comms[i])] \o BuffFreed
  IN Tested01(On(Each2(LAMBDA i : Isend(part(i), 2, MPI_INT, 1, 0, comms[i], REQ[i]))),
              On(Each2(LAMBDA i : Irecv(part(i), 2, MPI_INT, 0, 0, comms[i], REQ[i]))))
huge_underflow == Tested01(<<Send(Bytes2("buff"), 1, MPI_BYTE, 1, 0, WORLD)>> \o BuffFreed \o <<Barrier(WORLD)>>,
                           <<Recv(Bytes2("buff"), SIZE, MPI_BYTE, 0, 0, WORLD)>> \o BuffFreed \o <<Barrier(WORLD)>>)

\* Rank 0 receives what both ranks send into the same buffer. A persistent request
\* is started once; MPI_Test and MPI_Wait return at once while it is inactive.
inactivereq ==
  LET sent == <<Isend(Ints("buf", 10), 10, MPI_INT, 0, 27, WORLD, "r"), Wait("r")>>    \* MPI_Start
  IN Tested01([i \in 1..2 |-> Irecv(Ints("rbuf", 10), 10, MPI_INT, i - 1, 27, WORLD, REQ[i])] \o sent \o Waitall(2), sent)
isendirecv ==
  LET part(v, i) == Plus(Array(v, "float", 40), 80 * i)
  IN Tested(LAMBDA r :
       ForRoots(LAMBDA i : <<Irecv(part("in_buf", i), 20, MPI_FLOAT, i, 0, WORLD, REQ[i + 1])>>)
       \o ForRoots(LAMBDA i : <<Isend(part("out_buf", i), 20, MPI_FLOAT, i, 0, WORLD, REQ[i + 3])>>)
       \o Waitall(4) \o <<Free(Array("in_buf", "float", 40)), Free(Array("out_buf", "float", 40))>>)
ToMyself(r, sb, rb, n) ==
  <<Isend(sb, 0, MPI_INT, r, 0, WORLD, "request"), Recv(rb, n, MPI_INT, MPI_ANY_SOURCE, ANY_TAG, WORLD), Wait("request")>>
isendself == Tested(LAMBDA r : ToMyself(r, Ints("a", 10), Ints("b", 10), 1) \o ToMyself(r, Null, Null, 0))
\* MPI_Iprobe is called until there is a message.
isendselfprobe == Tested01(<<Isend(Ints("sendMsg", 1), 1, MPI_INT, 0, 0, WORLD, "request"), Probe(0, 0, WORLD),
                             Recv(Ints("recvMsg", 1), 1, MPI_INT, 0, 0, WORLD), Wait("request")>>, <<>>)
many_isend == Tested(LAMBDA r :
  Times(Repeats,
    <<Barrier(WORLD)>> \o ForRoots(LAMBDA i : <<Isend(Bytes2("sendbuf"), SIZE, MPI_CHAR, i, 0, WORLD, REQ[i + 1])>>)
    \o Times(2, <<Recv(Bytes2("recvbuf"), SIZE, MPI_CHAR, MPI_ANY_SOURCE, ANY_TAG, WORLD)>>) \o Waitall(2))
  \o <<Barrier(WORLD)>>)
TAG_UB == 32767              \* the value of MPI_TAG_UB is at least this
large_tag == Tested01(Repeated(LAMBDA x : <<Send(Ints("sendbuf", 16), 16, MPI_INT, 1, TAG_UB - x, WORLD)>>),
                      Repeated(LAMBDA x : <<Recv(Ints("recvbuf", 16), 16, MPI_INT, 0, TAG_UB - x, WORLD)>>))
-----------------------------------------------------------------------------
\* The tests of patterns, with messages of n bytes; tags are 1 and 2.
BUFFER == Bytes2("buffer")
To1(n, tag, rq) == Isend(BUFFER, n, MPI_BYTE, 1, tag, WORLD, rq)
From0(n, tag, rq) == Irecv(BUFFER, n, MPI_BYTE, 0, tag, WORLD, rq)
SendTo(d, n) == Send(BUFFER, n, MPI_BYTE, d, 1, WORLD)
RecvFrom(s, n) == Recv(BUFFER, n, MPI_BYTE, s, 1, WORLD)
FreeBuffer == <<Free(BUFFER)>>
TwoSent(n) == <<To1(n, 1, "request1"), To1(n, 2, "request2"), Wait("request1"), Wait("request2")>>
SendRecvTest(r, n) == IF r = 0 THEN <<SendTo(1, n)>> ELSE <<RecvFrom(0, n)>>
IsendIrecvTest(r, n) == IF r = 0 THEN <<To1(n, 1, "request"), Wait("request")>> ELSE <<From0(n, 1, "request"), Wait("request")>>
IsendIrecvTest2(r, n) ==
  (IF r = 0 THEN TwoSent(n)
   ELSE <<From0(n, 1, "request1"), From0(n, 2, "request2"), Wait("request1"), Wait("request2")>>) \o FreeBuffer
OutOfOrderTest(r, n) ==
  (IF r = 0 THEN TwoSent(n)
   ELSE <<From0(n, 2, "request1"), From0(n, 1, "request2"), Wait("request2"), Wait("request1")>>) \o FreeBuffer
ForceUnexpectedTest(r, n) ==
  (IF r = 0 THEN TwoSent(n) \o <<RecvFrom(1, n)>>
   ELSE <<From0(n, 2, "request2"), Wait("request2"), From0(n, 1, "request1"), Wait("request1"), SendTo(0, n)>>) \o FreeBuffer
RndvTest(r, n, reps) ==
  Times(reps, IF r = 0 THEN <<SendTo(1, n), RecvFrom(1, n)>> ELSE <<RecvFrom(0, n), SendTo(0, n)>>) \o FreeBuffer
AllPatterns(r) ==
  SendRecvTest(r, 1) \o IsendIrecvTest(r, 1) \o IsendIrecvTest2(r, 1) \o OutOfOrderTest(r, 1) \o ForceUnexpectedTest(r, 1)
  \o RndvTest(r, SIZE, 1) \o RndvTest(r, SIZE, Repeats)
  \o IsendIrecvTest2(r, SIZE) \o OutOfOrderTest(r, SIZE) \o ForceUnexpectedTest(r, SIZE)
patterns == Labelled(Correct, [r \in Ranks |-> Main(AllPatterns(r))])
-----------------------------------------------------------------------------
probe_unexp ==
  Tested01(ForCounts(LAMBDA n : Repeated(LAMBDA m :
             <<Recv(Null, 0, MPI_BYTE, MPI_ANY_SOURCE, 5 * n + m, WORLD), Send(Bytes2("buf"), n, MPI_BYTE, 1, 5 * n + m, WORLD)>>)),
           ForCounts(LAMBDA n : Repeated(LAMBDA m :
             <<Send(Null, 0, MPI_BYTE, 0, 5 * n + m, WORLD), Probe(MPI_ANY_SOURCE, ANY_TAG, WORLD),
               Recv(Bytes2("buf"), n, MPI_BYTE, 0, 5 * n + m, WORLD)>>)))
\* Four ints, sent as so many characters
recv_any == Tested01(Repeated(LAMBDA x : <<Recv(Ints("rbuf", 4), 16, MPI_CHAR, MPI_ANY_SOURCE, x, WORLD)>>),
                     Repeated(LAMBDA x : <<Send(Ints("sbuf", 4), 16, MPI_CHAR, 0, x, WORLD)>>))
\* Requests of every mode are freed while the sends are going on, and one of a receive.
rqfreeb ==
  LET place(v, i) == Plus(Ints(v, 5), 4 * (i - 1))
      Freed(m, i) == <<Store(place("smsg", i)), Mode(m, Isend(place("smsg", i), 1, MPI_INT, 1, i, WORLD, "r")), RequestFree("r")>>
  IN Tested01(<<Barrier(WORLD)>> \o Freed("standard", 1) \o Freed("buffered", 2) \o Freed("synchronous", 3) \o Freed("ready", 4)
              \o <<Store(place("smsg", 5)), Isend(place("smsg", 5), 1, MPI_INT, 1, 5, WORLD, "r"), Wait("r"), BufferDetach>>,
              [i \in 1..5 |-> Irecv(place("rmsg", i), 1, MPI_INT, 0, i, WORLD, REQ[i])]
              \o <<Barrier(WORLD)>> \o Waitall(4) \o <<RequestFree(REQ[5])>>)
rqstatus ==
  LET buf == Ints("buf", 2)
  IN Tested01(<<Store(buf), Mode("synchronous", Send(buf, 2, MPI_INT, 1, 10, WORLD)), Barrier(WORLD)>>,
              <<Irecv(buf, 2, MPI_INT, 0, 10, WORLD, "req"), Barrier(WORLD), Wait("req")>>)
sendall == Tested(LAMBDA r : ForCounts(LAMBDA n : Times(Repeats,
  LET row(i) == Plus(Ints("buffer", 4), 8 * i)
  IN <<Barrier(WORLD), Irecv(row(Other(r)), n, MPI_INT, Other(r), ANY_TAG, WORLD, "request"),
       Send(row(r), n, MPI_INT, Other(r), 0, WORLD), Wait("request"), Barrier(WORLD)>>)))
\* There and back, for three sizes
sendrecv ==
  LET n == <<1, SIZE, SIZE>>
      buf == <<Bytes2("buffer"), Bytes2("big_buffer"), Bytes2("big_buffer")>>
      There(i, p) == Send(buf[i], n[i], MPI_BYTE, p, 1, WORLD)
      Back(i, p) == Recv(buf[i], n[i], MPI_BYTE, p, 1, WORLD)
  IN Labelled(Correct, Each(FlattenSeq([i \in 1..3 |-> <<Store(buf[i]), There(i, 1), Back(i, 1)>>]),
                            FlattenSeq([i \in 1..3 |-> <<Back(i, 0), There(i, 0)>>])))
\* The buffers that are being sent are the ones received into.
sendrecv3 == Tested(LAMBDA r : ForCounts(LAMBDA n :
  LET p == Other(r)
      buf(i) == Ints("buf" \o ToString(i), n)
      Exchanged == SendrecvNothing(p, 10, WORLD) \o Each2(LAMBDA i : Isend(buf(i), n, MPI_INT, p, n, WORLD, REQ[i]))
                   \o Each2(LAMBDA i : Recv(buf(i), n, MPI_INT, p, n, WORLD)) \o Waitall(2)
  IN Exchanged \o Exchanged \o Each2(LAMBDA i : Free(buf(i)))))
srtest ==
  LET buffer == Chars("buffer", 512)
      There(p) == Send(buffer, 12, MPI_CHAR, p, 99, WORLD)
      Back == Recv(buffer, 512, MPI_CHAR, MPI_ANY_SOURCE, 99, WORLD)
  IN Labelled(Correct, Each(<<There(1), Back, Barrier(WORLD)>>, <<Back, There(0), Barrier(WORLD)>>))
=============================================================================
