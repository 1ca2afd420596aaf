-------------------------- MODULE CorrectCollCases --------------------------
(***************************************************************************)
(* The programs of micro-benches/0-level/correct/coll, each named after    *)
(* its file: collectives of the MPICH test suite, run on two ranks.        *)
(***************************************************************************)
EXTENDS MtestOps

Vecout(n) == Doubles("vecout", 2 * n)
allgather2 == OnIntracomms(LAMBDA c, me : ForCounts(LAMBDA n :
  <<AllgatherInPlace(me, Vecout(n), n, MPI_DOUBLE, c)>>))
Allgathered(c, n) == <<Allgather(Doubles("invec", n), n, MPI_DOUBLE, Vecout(n), n, MPI_DOUBLE, c)>>
allgather3 ==
  Tested(LAMBDA r :
    WithIntracomms(r, LAMBDA c, me : ForCounts(LAMBDA n : Allgathered(c, n)) \o MTestFreeComm(c))
    \o <<AllgatherInPlace(r, Null, 0, MPI_BYTE, WORLD)>>)
\* MPI_Allgatherv with blocks one after the other
allgatherv2 == allgather2
allgatherv3 == OnIntracomms(LAMBDA c, me : ForCounts(LAMBDA n : Allgathered(c, n)))

Objects(v, n) == Memory(v, UNION {{Block("int", i * 16, 1), Block("long", i * 16 + 8, 1)} : i \in 0..(n - 1)})
allgather_struct == OnIntracomms(LAMBDA c, me :
  <<TypeStruct(2, <<1, 1>>, <<0, 8>>, <<MPI_INT, MPI_LONG>>, "type"), TypeCommit("type"),
    Allgather(Objects("object", 1), 1, "type", Objects("gathered_objects", 2), 1, "type", c), TypeFree("type")>>)
-----------------------------------------------------------------------------
Allreduced(c, op) == ForCounts(LAMBDA n : <<AllreduceInPlace(Ints("buf", n), n, MPI_INT, op, c)>>)
allred2 == OnIntracomms(LAMBDA c, me : Allreduced(c, SUM))
allred6 == OnIntracomms(LAMBDA c, me : Allreduced(c, "op"))

MattypeOf(n) == <<TypeContiguous(n, MPI_INT, "mattype"), TypeCommit("mattype")>>
\* one matrix of n ints
MatrixProducts(c, n) ==
  <<Allreduce(Ints("buf", n), Ints("bufout", n), 1, "mattype", "op", c),
    AllreduceInPlace(Ints("bufout", n), 1, "mattype", "op", c)>>
allred3 == OnIntracomms(LAMBDA c, me : MattypeOf(4) \o MatrixProducts(c, 4) \o <<TypeFree("mattype")>>)
allred4 ==
  Tested(LAMBDA r : MattypeOf(9)
    \o WithIntracomms(r, LAMBDA c, me : MatrixProducts(c, 9) \o MTestFreeComm(c))
    \o <<TypeFree("mattype")>>)
allred5 == Tested(LAMBDA r : WithSmallIntracomms(r, LAMBDA c, size :
  <<Allreduce(Ints("bufin", 2 * size), Ints("bufout", 2 * size), 2 * size, MPI_INT, SUM, c)>> \o MTestFreeComm(c)))
allredmany == Tested(LAMBDA r :
  Times(Repeats, <<Allreduce(Doubles("wscale", 1), Doubles("scale", 1), 1, MPI_DOUBLE, SUM, WORLD)>>))
longuser == Tested(LAMBDA r : ForCounts(LAMBDA n :
  <<Allreduce(Doubles("inbuf", n), Doubles("outbuf", n), n, MPI_DOUBLE, "op", WORLD)>>))
iallred == Tested(LAMBDA r :
  <<Immediate(Allreduce(Ints("one", 1), Ints("isum", 1), 1, MPI_INT, SUM, WORLD), "request"),
    Allreduce(Ints("two", 1), Ints("sum", 1), 1, MPI_INT, SUM, WORLD), Wait("request")>>)
\* MPI_Test is called until the barrier is done.
ibarrier == Tested(LAMBDA r : <<Immediate(Barrier(WORLD), "barrier"), Wait("barrier")>>)
-----------------------------------------------------------------------------
alltoall1 == OnIntracomms(LAMBDA c, me : ForCounts(LAMBDA n :
  <<Alltoall(Ints("sendbuf", 2 * n), Ints("recvbuf", 2 * n), n, MPI_INT, c),
    AlltoallInPlace(Ints("recvbuf", 2 * n), n, MPI_INT, c)>>))

\* i elements to rank i, and as many as its own rank from each; in place i + rank;
\* displacements are in elements for MPI_Alltoallv, in bytes for MPI_Alltoallw.
Triangle(unit) == <<Part(0, 0, MPI_INT), Part(1, unit, MPI_INT)>>
Received(me, unit) == <<Part(me, 0, MPI_INT), Part(me, me * unit, MPI_INT)>>
Symmetric(me, unit) == <<Part(me, 0, MPI_INT), Part(1 + me, 4 * unit, MPI_INT)>>
alltoallv == OnIntracomms(LAMBDA c, me :
  <<Alltoallv(Ints("sbuf", 4), Triangle(1), Ints("rbuf", 4), Received(me, 1), c),
    AlltoallvInPlace(Ints("rbuf", 8), Symmetric(me, 1), c)>>)
alltoallw2 == OnIntracomms(LAMBDA c, me :
  <<Alltoallw(Ints("sbuf", 4), Triangle(4), Ints("rbuf", 4), Received(me, 4), c),
    AlltoallwInPlace(Ints("rbuf", 8), Symmetric(me, 4), c)>>)
\* Nothing is done on fewer than three ranks; the communicator is not freed.
alltoallv0 == Tested(LAMBDA r : WithIntracomms(r, LAMBDA c, me : <<>>))

\* The transposition of a matrix of GM rows, GN columns, distributed by rows: 20 and 30 in the program.
GM == 4
GN == 6
TransposeType(new) ==
  <<TypeVector(GM \div 2, 1, GN, MPI_FLOAT, "subrow"), TypeResized(4, "subrow", "subrow1"),
    TypeContiguous(GN \div 2, "subrow1", new), TypeCommit(new), TypeFree("subrow"), TypeFree("subrow1")>>
SubmatrixType(new) == <<TypeVector(GN \div 2, GM \div 2, GM, MPI_FLOAT, new), TypeCommit(new)>>
XTYPE == <<"xtype00", "xtype01", "xtype10", "xtype11">>      \* [lasti][lastj]
STYPE == <<"stype00", "stype01", "stype10", "stype11">>
Columns(ts, bytes) == <<Part(1, 0, ts[1]), Part(1, bytes, ts[2])>>
alltoallw1 ==
  Tested(LAMBDA r :
    FlattenSeq([i \in 1..4 |-> TransposeType(XTYPE[i]) \o SubmatrixType(STYPE[i])])
    \o <<Alltoallw(Array("localA", "float", GN * (GM \div 2)), Columns(<<XTYPE[2 * r + 1], XTYPE[2 * r + 2]>>, 4 * (GN \div 2)),
                   Array("localB", "float", GM * (GN \div 2)), Columns(<<STYPE[r + 1], STYPE[r + 3]>>, 4 * (GM \div 2)), WORLD)>>
    \o FlattenSeq([i \in 1..4 |-> <<TypeFree(XTYPE[i]), TypeFree(STYPE[i])>>]))

\* One element of an empty type is as much as no int.
EmptyType(new) == <<TypeContiguous(0, MPI_INT, new), TypeCommit(new)>>
OneEmpty == Same(1, "sendtype")
NoInt == Same(0, MPI_INT)
alltoallw_zeros ==
  LET sb == Ints("sendbuf", 1)
      rb == Ints("recvbuf", 1)
      Own(r) == IF r = 1 THEN NoInt ELSE OneEmpty
  IN Tested(LAMBDA r : EmptyType("sendtype")
       \o <<Alltoallw(sb, OneEmpty, rb, NoInt, WORLD), Alltoallw(sb, NoInt, rb, OneEmpty, WORLD),
            AlltoallwInPlace(rb, Own(r), WORLD),
            Alltoallv(sb, OneEmpty, rb, NoInt, WORLD), Alltoallv(sb, NoInt, rb, OneEmpty, WORLD),
            AlltoallvInPlace(rb, Own(r), WORLD), TypeFree("sendtype")>>)
-----------------------------------------------------------------------------
bcasttest == Tested(LAMBDA r : ForCounts(LAMBDA n :
  Times(Repeats, <<Bcast(Ints("buf", 2), n, MPI_INT, 0, WORLD)>>)))
bcastzerotype == Tested(LAMBDA r :
  EmptyType("type") \o <<Bcast(Chars("buf", 40), 10, "type", 0, WORLD), TypeFree("type")>>)

\* Rows of a table of ten by ten, five on each rank
TABLE == Ints("table", 100)
TableRow(me) == Plus(TABLE, me * 200)
ROW10 == Ints("row", 10)
coll2 == Tested(LAMBDA r : ForRoots(LAMBDA i :
  <<IF i = r THEN GatherInPlace(TABLE, 50, MPI_INT, i, WORLD) ELSE GatherFrom(TableRow(r), 50, MPI_INT, i, WORLD)>>))
coll3 == coll2          \* MPI_Gatherv with blocks one after the other
coll4 == Tested(LAMBDA r :
  <<Dup(WORLD, COMM, <<0, 1>>), Scatter(TABLE, 10, MPI_INT, ROW10, 10, MPI_INT, 0, COMM), CommFree(COMM)>>)
coll5 == Tested(LAMBDA r : <<Scatter(TABLE, 10, MPI_INT, ROW10, 10, MPI_INT, 0, WORLD)>>)
\* The rank's rows are where they belong, so that the call is made in place.
coll6 == Tested(LAMBDA r :
  <<Split(WORLD, "test_comm", <<0, 1>>), AllgatherInPlace(r, TABLE, 50, MPI_INT, "test_comm"),
    CommFree("test_comm")>>)
coll7 == Tested(LAMBDA r : <<AllgatherInPlace(r, TABLE, 50, MPI_INT, WORLD)>>)

DATA == Ints("data", 1)
RESULT == Ints("result", 1)
ReduceAndBcast(op, root) == <<Reduce(DATA, RESULT, 1, MPI_INT, op, root, WORLD), Bcast(RESULT, 1, MPI_INT, root, WORLD)>>
coll8 == Tested(LAMBDA r : ReduceAndBcast(SUM, 0) \o ReduceAndBcast("MPI_MIN", 0) \o ReduceAndBcast("MPI_MAX", 0))
coll9 == Tested(LAMBDA r : ReduceAndBcast("op", 0))
coll10 == Tested(LAMBDA r : ReduceAndBcast("op", 1))
Scanned(op) == <<Scan(DATA, RESULT, 1, MPI_INT, op, WORLD)>>
coll11 == Tested(LAMBDA r : Times(2, Scanned(SUM)) \o Times(2, Scanned("op_addem")) \o Scanned("op_assoc"))
scantst == coll11
DoubleInts(v) == PairArray(v, 2, "double", 8, 16)
coll12 == Tested(LAMBDA r :
  <<Reduce(DoubleInts("in"), DoubleInts("out"), 2, "MPI_DOUBLE_INT", "MPI_MAXLOC", 0, WORLD),
    Bcast(DoubleInts("out"), 2, "MPI_DOUBLE_INT", 0, WORLD),
    Allreduce(DoubleInts("in"), DoubleInts("out"), 2, "MPI_DOUBLE_INT", "MPI_MINLOC", WORLD)>>)
coll13 == Tested(LAMBDA r : <<Alltoall(Ints("sb", 256), Ints("rb", 256), 128, MPI_INT, WORLD)>>)
-----------------------------------------------------------------------------
exscan == OnIntracomms(LAMBDA c, me : ForCounts(LAMBDA n :
  <<Exscan(Ints("sendbuf", n), Ints("recvbuf", n), n, MPI_INT, SUM, c),
    ExscanInPlace(Ints("recvbuf", n), n, MPI_INT, SUM, c)>>))
exscan2 == Tested(LAMBDA r : <<Exscan(Ints("sendbuf", 1), Ints("recvbuf", 1), 1, MPI_INT, SUM, WORLD)>>)

\* Twelve doubles, ten apart
VecType == <<TypeVector(12, 1, 10, MPI_DOUBLE, "vec"), TypeCommit("vec")>>
VECIN == Doubles("vecin", 240)
VECOUT == Doubles("vecout", 24)
NoGather == Gather(Null, 0, MPI_BYTE, Null, 0, MPI_BYTE, 0, WORLD)
gather ==
  Tested(LAMBDA r :
    WithIntracomms(r, LAMBDA c, me :
      ForRoots(LAMBDA root : ForCounts(LAMBDA n :
        VecType \o <<Gather(VECIN, 1, "vec", VECOUT, 12, MPI_DOUBLE, root, c), TypeFree("vec")>>))
      \o MTestFreeComm(c))
    \o <<NoGather>>)
gather2 ==
  Tested(LAMBDA r :
    WithIntracomms(r, LAMBDA c, me :
      ForRoots(LAMBDA root : ForCounts(LAMBDA n :
        VecType \o <<IF me = root THEN GatherInPlace(VECOUT, 12, MPI_DOUBLE, root, c)
                     ELSE GatherFrom(VECIN, 1, "vec", root, c), TypeFree("vec")>>))
      \o MTestFreeComm(c))
    \o <<IF r = 0 THEN GatherInPlace(Null, 0, MPI_BYTE, 0, WORLD) ELSE NoGather>>)
scattern == Tested(LAMBDA r : VecType
  \o ForRoots(LAMBDA root : <<Scatter(VECIN, 1, "vec", Doubles("vecout", 12), 12, MPI_DOUBLE, root, WORLD)>>)
  \o <<TypeFree("vec")>>)

\* Every collective as its MPI_I variant, with MPI_Wait after it; twice each,
\* the second in place.  MPI_Ialltoallw gets the displacements, counted in
\* elements, that the calls before it got.
SBUF == Ints("sbuf", 4)
RBUF == Ints("rbuf", 4)
TwoEach == Blocks(2, MPI_INT)
Blocking(r) ==
  LET AtRoot(here, elsewhere) == IF r = 0 THEN here ELSE elsewhere
      gathered == Gather(SBUF, 2, MPI_INT, RBUF, 2, MPI_INT, 0, WORLD)
      scattered == Scatter(SBUF, 2, MPI_INT, RBUF, 2, MPI_INT, 0, WORLD)
      reduced == Reduce(SBUF, RBUF, 2, MPI_INT, SUM, 0, WORLD)
  IN <<Barrier(WORLD), Bcast(SBUF, 2, MPI_INT, 0, WORLD)>>
     \o Times(2, <<gathered, AtRoot(GatherInPlace(RBUF, 2, MPI_INT, 0, WORLD), gathered)>>)
     \o Times(2, <<scattered, AtRoot(ScatterInPlace(SBUF, 2, MPI_INT, 0, WORLD), scattered)>>)
     \o Times(2, <<Allgather(SBUF, 2, MPI_INT, RBUF, 2, MPI_INT, WORLD), AllgatherInPlace(r, RBUF, 2, MPI_INT, WORLD)>>)
     \o Times(2, <<Alltoall(SBUF, RBUF, 2, MPI_INT, WORLD), AlltoallInPlace(RBUF, 2, MPI_INT, WORLD)>>)
     \o <<Alltoallw(SBUF, TwoEach, RBUF, TwoEach, WORLD), AlltoallwInPlace(RBUF, TwoEach, WORLD),
          reduced, AtRoot(ReduceInPlace(RBUF, 2, MPI_INT, SUM, 0, WORLD), reduced),
          Allreduce(SBUF, RBUF, 2, MPI_INT, SUM, WORLD), AllreduceInPlace(RBUF, 2, MPI_INT, SUM, WORLD)>>
     \o Times(2, <<ReduceScatter(SBUF, RBUF, 2, MPI_INT, SUM, WORLD), ReduceScatterInPlace(RBUF, 2, MPI_INT, SUM, WORLD)>>)
     \o <<Scan(SBUF, RBUF, 2, MPI_INT, SUM, WORLD), ScanInPlace(RBUF, 2, MPI_INT, SUM, WORLD),
          Exscan(SBUF, RBUF, 2, MPI_INT, SUM, WORLD), ExscanInPlace(RBUF, 2, MPI_INT, SUM, WORLD)>>
nonblocking == Tested(LAMBDA r :
  FlattenSeq([i \in DOMAIN Blocking(r) |-> <<Immediate(Blocking(r)[i], "req"), Wait("req")>>])
  \o <<Free(SBUF), Free(RBUF)>>)
-----------------------------------------------------------------------------
\* root's matrix is reduced where it is, the others' from where they are.
ReducedMatrix(c, me, root) ==
  <<Reduce(Ints("buf", 4), Ints("bufout", 4), 1, "mattype", "op", root, c),
    IF me = root THEN ReduceInPlace(Ints("bufout", 4), 1, "mattype", "op", root, c)
    ELSE ReduceFrom(Ints("bufout", 4), 1, "mattype", "op", root, c)>>
red3 == OnIntracomms(LAMBDA c, me :
  MattypeOf(4) \o ForRoots(LAMBDA root : ReducedMatrix(c, me, root)) \o <<TypeFree("mattype")>>)
red4 == red3
reduce == OnIntracomms(LAMBDA c, me : ForCounts(LAMBDA n : ForRoots(LAMBDA root :
  <<Reduce(Ints("sendbuf", n), Ints("recvbuf", n), n, MPI_INT, SUM, root, c)>>)))
uoplong == Tested(LAMBDA r :
  <<TypeContiguous(3, MPI_DOUBLE, "tripleType"), TypeCommit("tripleType")>>
  \o ForCounts(LAMBDA n : <<Reduce(Doubles("inVal", 3 * n), Doubles("outVal", 3 * n), n, "tripleType", "op", 0, WORLD)>>)
  \o <<TypeFree("tripleType")>>)

\* n ints for each rank, from out of 2 * n, into memory for so many
ScatteredSum(n, room, op) == ReduceScatter(Ints("sendbuf", 2 * n), Ints("recvbuf", room), n, MPI_INT, op, WORLD)
MYCOUNT == 2                \* 524288 in the program
redscat == Tested(LAMBDA r : <<ScatteredSum(1, 1, SUM)>>)
redscat2 == Tested(LAMBDA r : ForCounts(LAMBDA n :
  <<ScatteredSum(n, n, "left_op"), ScatteredSum(n, n, "right_op"), ScatteredSum(n, n, "nc_sum_op")>>))
redscat3 == Tested(LAMBDA r :
  <<ScatteredSum(MYCOUNT, MYCOUNT, SUM), ReduceScatterInPlace(Ints("sendbuf", 2 * MYCOUNT), MYCOUNT, MPI_INT, SUM, WORLD)>>)
\* the same with MPI_Reduce_scatter_block
redscatblk3 == redscat3
red_scat_block2 == redscat2
red_scat_block == Tested(LAMBDA r :
  <<ScatteredSum(1, 2, SUM), ReduceScatterInPlace(Ints("recvbuf", 2), 1, MPI_INT, SUM, WORLD)>>)
-----------------------------------------------------------------------------
\* Three elements of each type of a class, reduced by op
ReduceThree(t, b, op) == <<Reduce(Array("in", b, 3), Array("out", b, 3), 3, t, op, 0, WORLD)>>
Characters(op) ==
  ReduceThree(MPI_CHAR, "char", op) \o ReduceThree("MPI_SIGNED_CHAR", "schar", op)
  \o ReduceThree("MPI_UNSIGNED_CHAR", "uchar", op)
LongOnes(op) == ReduceThree("MPI_LONG_DOUBLE", "longdouble", op) \o ReduceThree(MPI_LONG_LONG_INT, "longlong", op)
Complex(op) == ReduceThree("MPI_DOUBLE_COMPLEX", "doublecomplex", op)
opmax == Tested(LAMBDA r : Characters("MPI_MAX") \o LongOnes("MPI_MAX"))
opmin == Tested(LAMBDA r : Characters("MPI_MIN") \o LongOnes("MPI_MIN"))
opsum == Tested(LAMBDA r : Characters(SUM) \o Complex(SUM) \o LongOnes(SUM))
opprod == Tested(LAMBDA r : Characters("MPI_PROD") \o Complex("MPI_PROD") \o LongOnes("MPI_PROD"))
ReducePairs(t, b, d, size, op) == <<Reduce(PairArray("cinbuf", 3, b, d, size), PairArray("coutbuf", 3, b, d, size), 3, t, op, 0, WORLD)>>
Located(op) ==
  ReducePairs("MPI_2INT", "int", 4, 8, op) \o ReducePairs("MPI_FLOAT_INT", "float", 4, 8, op)
  \o ReducePairs(MPI_LONG_INT, "long", 8, 16, op) \o ReducePairs("MPI_SHORT_INT", "short", 4, 8, op)
  \o ReducePairs("MPI_DOUBLE_INT", "double", 8, 16, op) \o ReducePairs("MPI_LONG_DOUBLE_INT", "longdouble", 16, 32, op)
opmaxloc == Tested(LAMBDA r : Located("MPI_MAXLOC"))
opminloc == Tested(LAMBDA r : Located("MPI_MINLOC"))
-----------------------------------------------------------------------------
\* Intercommunicators of at least four ranks: icalltoall, icbarrier, icbcast and so on do nothing else.
icbarrier == Tested(WithoutIntercomms)
=============================================================================
