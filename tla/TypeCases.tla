----------------------------- MODULE TypeCases -----------------------------
(***************************************************************************)
(* The programs of micro-benches/0-level/usertypes, each named after its   *)
(* file: derived datatypes, made by a constructor, committed, used by a    *)
(* message from rank 0 to rank 1, and freed.                               *)
(***************************************************************************)
EXTENDS PlainOps

\* Both ranks make, and free; rank 0 sends one element of s, rank 1 receives n of t in b.
Exchanged(made, buf, s, b, n, t, freed) ==
  Each(made \o <<Send(buf, 1, s, 1, 0, WORLD)>> \o freed, made \o <<Recv(b, n, t, 0, 0, WORLD)>> \o freed)
Committed(call) == <<call, TypeCommit(call.name)>>
Pairs == Committed(TypeContiguous(2, MPI_INT, "two_ints"))
Freed(t) == <<TypeFree(t)>>

ArgErrorMPISendType1 ==
  LET buf == Array("buf", "long", 2)
  IN ArgError(Exchanged(Pairs, buf, "two_ints", buf, 1, "two_ints", Freed("two_ints")))
ArgErrorMPISendType4 ==
  LET buf == Array("buf", "unsigned", 4)
  IN ArgError(Exchanged(Committed(TypeContiguous(4, MPI_INT, "two_ints")),
                      buf, "two_ints", buf, 1, "two_ints", Freed("two_ints")))

\* Rank 0 alone makes, commits and frees a type.
MakesOne(call) == ArgError(Each(<<call, TypeCommit("type"), TypeFree("type")>>, <<>>))
ArgErrorMPITypeContiguousCount == MakesOne(TypeContiguous(-1, MPI_INT, "type"))
ArgErrorMPITypeContiguousNewType == MakesOne(TypeContiguous(24, MPI_INT, NoHandle))
ArgErrorMPITypeContiguousOldType == MakesOne(TypeContiguous(24, NoHandle, "type"))
ArgErrorMPITypeVectorBlocklength == MakesOne(TypeVector(2, -1, 4, MPI_INT, "type"))
ArgErrorMPITypeVectorCount == MakesOne(TypeVector(-1, 3, 4, MPI_INT, "type"))
ArgErrorMPITypeVectorNewType == MakesOne(TypeVector(2, 3, 4, MPI_INT, NoHandle))
ArgErrorMPITypeVectorOldType == MakesOne(TypeVector(2, 3, 4, NoHandle, "type"))

Matrix == Array("buf", "float", 256)
ArgErrorMPITypeCreateHVectorStride ==
  ArgError(Exchanged(Committed(TypeHvector(16, 1, 3, MPI_FLOAT, "col_t")),
                   Matrix, "col_t", Matrix, 1, "col_t", Freed("col_t")))
-----------------------------------------------------------------------------
\* struct S { int i; char c; double d; } and struct S { int i; unsigned int ui; char c; double d; }
StructS == Memory("buf", {Block("int", 0, 1), Block("char", 4, 1), Block("double", 8, 1)})
StructU == Memory("buf", {Block("int", 0, 1), Block("unsigned", 4, 1), Block("char", 8, 1),
                          Block("double", 16, 1)})
\* What MPI_Get_address stores, before the address of the struct is subtracted.
Absolute(offset) == 140000000 + offset
Structs(buf, n, lens, ds, ts) ==
  ArgError(Exchanged(Committed(TypeStruct(n, lens, ds, ts, "new_t")), buf, "new_t", buf, 1, "new_t", Freed("new_t")))
Ones == <<1, 1, 1>>
Offsets == <<0, 4, 8>>
InOrderOfS == <<MPI_INT, MPI_CHAR, MPI_DOUBLE>>

ArgErrorMPITypeCreateStructBlocklengths == Structs(StructU, 3, <<2, 1, 1>>, <<0, 8, 16>>, InOrderOfS)
ArgErrorMPITypeCreateStructCount1 == Structs(StructS, -1, Ones, Offsets, InOrderOfS)
ArgErrorMPITypeCreateStructCount2 == Structs(StructS, 4, Ones, Offsets, InOrderOfS)
ArgErrorMPITypeCreateStructCount3 == Structs(StructS, 2, Ones, Offsets, InOrderOfS)
ArgErrorMPITypeCreateStructDatatype1 == Structs(StructS, 3, Ones, Offsets, <<MPI_CHAR, MPI_INT, MPI_DOUBLE>>)
ArgErrorMPITypeCreateStructDatatype2 ==
  Structs(StructU, 4, <<1, 1, 1, 1>>, <<0, 4, 8, 16>>, <<MPI_INT, MPI_INT, MPI_CHAR, MPI_DOUBLE>>)
ArgErrorMPITypeCreateStructDisplacements1 == Structs(StructS, 3, Ones, <<0, 4, 5>>, InOrderOfS)
\* displacements[2] is assigned twice, displacements[1] not at all.
ArgErrorMPITypeCreateStructDisplacements2 == Structs(StructS, 3, Ones, <<0, Absolute(4), 8>>, InOrderOfS)
-----------------------------------------------------------------------------
UserArgMismatchMPIRecvType2 ==
  LET buf == Ints("buf", 2)
  IN ArgMismatch(Exchanged(Pairs, buf, "two_ints", buf, 2, MPI_INT, Freed("two_ints")))
UserArgMismatchMPIRecvType3 ==
  LET buf == Ints("buf", 4)
  IN ArgMismatch(Exchanged(Pairs, buf, "two_ints", buf, 3, MPI_INT, Freed("two_ints")))
UserArgMismatchMPIRecvType4 ==
  ArgMismatch(Exchanged(Pairs, Ints("buf", 4), "two_ints", Array("buf_d", "double", 2), 2, MPI_DOUBLE,
                      Freed("two_ints")))
UserArgMismatchMPIRecvType5 ==
  ArgMismatch(Exchanged(Pairs \o Committed(TypeContiguous(2, MPI_DOUBLE, "two_dbls")), Ints("buf", 4), "two_ints",
                      Array("buf_d", "double", 2), 1, "two_dbls", Freed("two_ints") \o Freed("two_dbls")))
\* Rank 1 makes the type again, with blocks of two.
UserArgMismatchMPIRecvType6 ==
  LET column(length) == Committed(TypeVector(16, length, 16, MPI_FLOAT, "col_t"))
  IN ArgMismatch(Each(column(1) \o <<Send(Matrix, 1, "col_t", 1, 0, WORLD)>> \o Freed("col_t"),
                      column(1) \o Freed("col_t") \o column(2)
                        \o <<Recv(Matrix, 1, "col_t", 0, 0, WORLD)>> \o Freed("col_t")))

\* buffer[24] is shorter than the vector of three times two blocks of three ints.
MisplacedCallMPITypeCommit1 ==
  LET made == <<TypeContiguous(3, MPI_INT, "type2"), TypeVector(3, 2, 6, "type2", "type")>>
      freed == <<TypeFree("type"), TypeFree("type2")>>
  IN MisplacedCall(Each(made \o <<Send(Ints("buffer", 24), 1, "type", 1, 123, WORLD),
                                  TypeCommit("type2"), TypeCommit("type")>> \o freed,
                        made \o <<Recv(Ints("buffer", 24), 1, "type", 0, 123, WORLD)>> \o freed))
\* 100 chars of buffer[4].
MissingCallMPITypeCommit ==
  LET buf == Array("buffer", "char", 4)
  IN MissingCall(Exchanged(<<TypeContiguous(100, MPI_CHAR, "type")>>, buf, "type", buf, 1, "type", Freed("type")))
=============================================================================
