-------------------------- MODULE ConfloTypeCases --------------------------
(***************************************************************************)
(* The programs of micro-benches/0-level/conflo/usertypes: a datatype, or  *)
(* the moment of its commit, depends on argc.                              *)
(***************************************************************************)
EXTENDS TypeCases

TwoInts(n) == LET buf == Ints("buf", 4)
              IN ArgError(Exchanged(Pairs, buf, "two_ints", buf, n, MPI_INT, Freed("two_ints")))
ConfloArgErrorMPIRecvCount2 == Unless(TwoInts(10), TwoInts(4))
\* n elements of type t at once, in an array of n elements of C type b.
Several(n, b, t) ==
  LET buf == Array("buf", b, n)
  IN ArgError(Exchanged(Committed(TypeContiguous(n, t, "several")), buf, "several", buf, 1, "several", Freed("several")))
ConfloArgErrorMPISendType1 == Unless(Several(2, "long", MPI_INT), Several(2, "long", MPI_LONG_INT))
ConfloArgErrorMPISendType4 == Unless(Several(4, "unsigned", MPI_INT), Several(4, "unsigned", MPI_UNSIGNED))

ConfloArgErrorMPITypeContiguousCount ==
  Unless(MakesOne(TypeContiguous(-1, MPI_INT, "type")), MakesOne(TypeContiguous(1, MPI_INT, "type")))
ConfloArgErrorMPITypeContiguousOldType ==
  Unless(MakesOne(TypeContiguous(24, NoHandle, "type")), MakesOne(TypeContiguous(24, MPI_INT, "type")))
\* The new type is new_type; committed and freed is type, which is never made.
MakesOther(call) == ArgError(Each(<<call, TypeCommit("type"), TypeFree("type")>>, <<>>))
ConfloArgErrorMPITypeContiguousNewType ==
  Unless(MakesOther(TypeContiguous(1, MPI_INT, NoHandle)), MakesOther(TypeContiguous(1, MPI_INT, "new_type")))
ConfloArgErrorMPITypeVectorNewType ==
  Unless(MakesOther(TypeVector(2, 3, 4, MPI_INT, NoHandle)), MakesOther(TypeVector(2, 3, 4, MPI_INT, "new_type")))
ConfloArgErrorMPITypeVectorBlocklength ==
  Unless(MakesOne(TypeVector(2, -1, 4, MPI_INT, "type")), MakesOne(TypeVector(2, 1, 4, MPI_INT, "type")))
ConfloArgErrorMPITypeVectorCount ==
  Unless(MakesOne(TypeVector(-1, 3, 4, MPI_INT, "type")), MakesOne(TypeVector(1, 3, 4, MPI_INT, "type")))
ConfloArgErrorMPITypeVectorOldType ==
  Unless(MakesOne(TypeVector(2, 3, 4, NoHandle, "type")), MakesOne(TypeVector(2, 3, 4, MPI_INT, "type")))
Strided(bytes) ==
  ArgError(Exchanged(Committed(TypeHvector(16, 1, bytes, MPI_FLOAT, "col_t")),
                     Matrix, "col_t", Matrix, 1, "col_t", Freed("col_t")))
ConfloArgErrorMPITypeCreateHVectorStride == Unless(Strided(3), Strided(4))
-----------------------------------------------------------------------------
\* Displacements without the padding before the double of struct S.
Packed == <<0, 4, 5>>
ConfloArgErrorMPITypeCreateStructCount1 ==
  Unless(Structs(StructS, 2, Ones, Packed, InOrderOfS), Structs(StructS, 3, Ones, Packed, InOrderOfS))
ConfloArgErrorMPITypeCreateStructCount2 ==
  Unless(Structs(StructS, 4, Ones, Packed, InOrderOfS), Structs(StructS, 3, Ones, Packed, InOrderOfS))
ConfloArgErrorMPITypeCreateStructDatatype ==
  Unless(Structs(StructS, 3, Ones, Offsets, <<MPI_CHAR, MPI_INT, MPI_DOUBLE>>),
         Structs(StructS, 3, Ones, Offsets, InOrderOfS))
\* displacements[0] is assigned three times, the others are uninitialized.
ConfloArgErrorMPITypeCreateStructDisplacements1 ==
  Unless(Structs(StructS, 3, Ones, <<5, Absolute(0), Absolute(0)>>, InOrderOfS), ArgError(Both(<<AssertFalse>>)))
ConfloArgErrorMPITypeCreateStructDisplacements2 ==
  Unless(Structs(StructS, 3, Ones, <<0, Absolute(4), 8>>, InOrderOfS), Structs(StructS, 3, Ones, Offsets, InOrderOfS))
-----------------------------------------------------------------------------
ReceivesAs(t) ==
  ArgMismatch(Exchanged(Pairs \o Committed(TypeContiguous(2, MPI_DOUBLE, "two_dbls")), Ints("buf", 4), "two_ints",
                        Array("buf_d", "double", 2), 1, t, Freed("two_ints")))
ConfloArgMismatchMPIRecvType3 == Unless(ReceivesAs("two_dbls"), ReceivesAs("two_ints"))
\* Rank 1 makes the type again, with blocks of two, into the same handle.
ConfloArgMismatchMPIRecvType4 ==
  LET column(length) == Committed(TypeVector(16, length, 16, MPI_FLOAT, "col_t"))
      sends == column(1) \o <<Send(Matrix, 1, "col_t", 1, 0, WORLD)>> \o Freed("col_t")
      receives(again) == column(1) \o again \o <<Recv(Matrix, 1, "col_t", 0, 0, WORLD)>> \o Freed("col_t")
  IN Unless(ArgMismatch(Each(sends, receives(column(2)))), ArgMismatch(Each(sends, receives(<<>>))))
\* buffer[24] is too short for the type, with an argument too.
ConfloMisplacedCallMPITypeCommit1 ==
  LET made == <<TypeContiguous(3, MPI_INT, "type2"), TypeVector(3, 2, 6, "type2", "type")>>
      commits == <<TypeCommit("type2"), TypeCommit("type")>>
      buf == Ints("buffer", 24)
      freed == <<TypeFree("type"), TypeFree("type2")>>
  IN Unless(MisplacedCallMPITypeCommit1,
            MisplacedCall(Exchanged(made \o commits, buf, "type", buf, 1, "type", freed)))
\* Does not look at argc.
ConfloMissingCallMPITypeCommit == MissingCallMPITypeCommit
=============================================================================
