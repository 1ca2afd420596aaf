------------------------- MODULE ResultTable_proofs -------------------------
(***************************************************************************)
(* Proofs about the rows of the result table, for any number of runs.      *)
(***************************************************************************)
EXTENDS ResultTable, FiniteSetsExt, FiniteSetTheorems, TLAPS

Scores == [Columns -> Nat]

\* The columns that a case without, or with, an error has nothing in.
Foreign(erroneous) == IF erroneous THEN {"TN", "FP", "FW"} ELSE {"TP", "FN", "TW"}
OneSided(erroneous, s) == \A c \in Foreign(erroneous) : s[c] = 0

(* Setting some columns of a score gives a score.                           *)
LEMMA BlocksKeepType ==
  ASSUME NEW s \in Scores
  PROVE  /\ FoundFP(s) \in Scores /\ FoundTP(s) \in Scores /\ FoundTW(s) \in Scores
         /\ FoundFW(s) \in Scores /\ FoundTN(s) \in Scores /\ FoundFN(s) \in Scores
         /\ OnlyERR(s) \in Scores
BY DEF Scores, Columns, FoundFP, FoundTP, FoundTW, FoundFW, FoundTN, FoundFN, OnlyERR

(* One execution scores in one column, and in none of those a case of the   *)
(* other kind scores in.                                                    *)
THEOREM OneColumn ==
  ASSUME NEW erroneous \in BOOLEAN, NEW found \in Int
  PROVE  /\ Column(erroneous, found) \in Columns \ Foreign(erroneous)
         /\ One(Column(erroneous, found)) \in Scores
         /\ OneSided(erroneous, One(Column(erroneous, found)))
<1>1. Column(erroneous, found) \in Columns \ Foreign(erroneous)
  BY DEF Column, Columns, Foreign
<1>2. \A c \in Columns : One(c) \in Scores
  BY DEF One, Zeros, Scores
<1>3. \A c \in Columns \ Foreign(erroneous) : OneSided(erroneous, One(c))
  BY DEF One, Zeros, OneSided, Foreign, Columns
<1>4. QED
  BY <1>1, <1>2, <1>3

(* Adding the rows of two runs keeps them apart from the other kind.        *)
LEMMA AddKeepsSide ==
  ASSUME NEW erroneous \in BOOLEAN, NEW a, NEW b, a.score \in Scores, b.score \in Scores,
         OneSided(erroneous, a.score), OneSided(erroneous, b.score)
  PROVE  /\ AddRows(a, b).score \in Scores
         /\ OneSided(erroneous, AddRows(a, b).score)
<1>1. AddRows(a, b).score = [c \in Columns |-> a.score[c] + b.score[c]]
  BY DEF AddRows
<1>2. \A c \in Columns : a.score[c] \in Nat /\ b.score[c] \in Nat
  BY DEF Scores
<1>3. AddRows(a, b).score \in Scores
  BY <1>1, <1>2 DEF Scores
<1>4. Foreign(erroneous) \subseteq Columns
  BY DEF Foreign, Columns
<1>5. OneSided(erroneous, AddRows(a, b).score)
  BY <1>1, <1>4 DEF OneSided
<1>6. QED
  BY <1>3, <1>5

(* Two scores that agree on every column are equal.                         *)
LEMMA SameScore ==
  ASSUME NEW f \in Scores, NEW g \in Scores, \A c \in Columns : f[c] = g[c]
  PROVE  f = g
BY DEF Scores

(* A score with a single 1 is left alone by the blocks behind the one that  *)
(* has put it there.                                                        *)
LEMMA BlocksKeepOne ==
  /\ \A c \in {"TP", "TW", "FN", "FP", "FW", "TN"} : OnlyERR(One(c)) = One(c)
  /\ \A c \in {"TP", "TW", "FN", "FP", "FW", "TN"} : FoundFN(One(c)) = One(c)
  /\ \A c \in {"TP", "TW", "FP", "FW", "TN"} : FoundTN(One(c)) = One(c)
  /\ \A c \in {"TP", "TW", "FP", "FW"} : FoundFW(One(c)) = One(c)
  /\ \A c \in {"TP", "FP", "TW"} : FoundTW(One(c)) = One(c)
  /\ FoundTP(One("FP")) = One("FP")
<1>1. \A c \in Columns : /\ One(c) \in Scores
                          /\ \A d \in Columns : One(c)[d] = IF d = c THEN 1 ELSE 0
  BY DEF One, Zeros, Scores
<1>2. ASSUME NEW c \in {"TP", "TW", "FN", "FP", "FW", "TN"} PROVE OnlyERR(One(c)) = One(c)
  <2>1. c \in Columns /\ OnlyERR(One(c)) \in Scores
    BY <1>1, BlocksKeepType DEF Columns
  <2>2. \A d \in Columns : OnlyERR(One(c))[d] = One(c)[d]
    BY <1>1, <2>1 DEF OnlyERR, Columns, Scores
  <2>3. QED
    BY <1>1, <2>1, <2>2, SameScore
<1>3. ASSUME NEW c \in {"TP", "TW", "FN", "FP", "FW", "TN"} PROVE FoundFN(One(c)) = One(c)
  <2>1. c \in Columns /\ FoundFN(One(c)) \in Scores
    BY <1>1, BlocksKeepType DEF Columns
  <2>2. One(c) \in Scores
    BY <1>1, <2>1
  <2>3. One(c).FN > 0 => One(c).FN = 1 /\ One(c).ERR = 0
    BY <1>1, <2>1 DEF Columns
  <2>4. \A d \in Columns : FoundFN(One(c))[d] = One(c)[d]
    BY <2>2, <2>3 DEF FoundFN, Columns, Scores
  <2>5. QED
    BY <2>1, <2>2, <2>4, SameScore
<1>4. ASSUME NEW c \in {"TP", "TW", "FP", "FW", "TN"} PROVE FoundTN(One(c)) = One(c)
  <2>1. c \in Columns /\ FoundTN(One(c)) \in Scores
    BY <1>1, BlocksKeepType DEF Columns
  <2>2. One(c) \in Scores
    BY <1>1, <2>1
  <2>3. One(c).TN > 0 => One(c).TN = 1 /\ One(c).ERR = 0
    BY <1>1, <2>1 DEF Columns
  <2>4. \A d \in Columns : FoundTN(One(c))[d] = One(c)[d]
    BY <2>2, <2>3 DEF FoundTN, Columns, Scores
  <2>5. QED
    BY <2>1, <2>2, <2>4, SameScore
<1>5. ASSUME NEW c \in {"TP", "TW", "FP", "FW"} PROVE FoundFW(One(c)) = One(c)
  <2>1. c \in Columns /\ FoundFW(One(c)) \in Scores
    BY <1>1, BlocksKeepType DEF Columns
  <2>2. One(c) \in Scores
    BY <1>1, <2>1
  <2>3. One(c).FW > 0 => One(c).FW = 1 /\ One(c).TN = 0 /\ One(c).ERR = 0
    BY <1>1, <2>1 DEF Columns
  <2>4. \A d \in Columns : FoundFW(One(c))[d] = One(c)[d]
    BY <2>2, <2>3 DEF FoundFW, Columns, Scores
  <2>5. QED
    BY <2>1, <2>2, <2>4, SameScore
<1>6. ASSUME NEW c \in {"TP", "FP", "TW"} PROVE FoundTW(One(c)) = One(c)
  <2>1. c \in Columns /\ FoundTW(One(c)) \in Scores
    BY <1>1, BlocksKeepType DEF Columns
  <2>2. One(c) \in Scores
    BY <1>1, <2>1
  <2>3. One(c).TW > 0 => One(c).TW = 1 /\ One(c).FN = 0 /\ One(c).ERR = 0
    BY <1>1, <2>1 DEF Columns
  <2>4. \A d \in Columns : FoundTW(One(c))[d] = One(c)[d]
    BY <2>2, <2>3 DEF FoundTW, Columns, Scores
  <2>5. QED
    BY <2>1, <2>2, <2>4, SameScore
<1>7. ASSUME NEW c \in {"FP"} PROVE FoundTP(One(c)) = One(c)
  <2>1. c \in Columns /\ FoundTP(One(c)) \in Scores
    BY <1>1, BlocksKeepType DEF Columns
  <2>2. One(c) \in Scores
    BY <1>1, <2>1
  <2>3. One(c).TP > 0 => One(c).TP = 1 /\ One(c).FN = 0 /\ One(c).TW = 0 /\ One(c).FW = 0 /\ One(c).ERR = 0
    BY <1>1, <2>1 DEF Columns
  <2>4. \A d \in Columns : FoundTP(One(c))[d] = One(c)[d]
    BY <2>2, <2>3 DEF FoundTP, Columns, Scores
  <2>5. QED
    BY <2>1, <2>2, <2>4, SameScore
<1>8. QED
  BY <1>2, <1>3, <1>4, <1>5, <1>6, <1>7

(* reduce_data on the score of an erroneous case: the blocks about correct  *)
(* cases leave it alone, no assertion fails, and TP wins over TW, TW over   *)
(* FN and FN over ERR, whatever the counts are.                             *)
LEMMA ErroneousReduced ==
  ASSUME NEW s \in Scores, OneSided(TRUE, s), \E c \in Columns : s[c] > 0
  PROVE  Reducible(s) /\ Reduced(s) = One(Strongest(TRUE, s))
<1>0. /\ s \in [Columns -> Nat] /\ s.TN = 0 /\ s.FP = 0 /\ s.FW = 0
      /\ s.TP \in Nat /\ s.TW \in Nat /\ s.FN \in Nat /\ s.ERR \in Nat
      /\ s.TP > 0 \/ s.TW > 0 \/ s.FN > 0 \/ s.ERR > 0
  BY DEF Scores, OneSided, Foreign, Columns
<1>1. AtTP(s) = s
  BY <1>0 DEF AtTP, FoundFP
<1>2. CASE s.TP > 0
  <2>1. /\ AtTW(s) \in Scores /\ AtTW(s) = One("TP")
    BY <1>0, <1>1, <1>2 DEF AtTW, FoundTP, Columns, One, Zeros, Scores
  <2>2. /\ AtFW(s) = One("TP") /\ AtTN(s) = One("TP") /\ AtFN(s) = One("TP")
        /\ AtERR(s) = One("TP") /\ Reduced(s) = One("TP")
    BY <2>1, BlocksKeepOne DEF AtFW, AtTN, AtFN, AtERR, Reduced
  <2>3. Reducible(s)
    BY <1>0, <1>1, <2>1, <2>2 DEF Reducible, Above0, One, Zeros, Columns
  <2>4. Strongest(TRUE, s) = "TP"
    BY <1>0, <1>2 DEF Strongest, Above0
  <2>5. QED
    BY <2>2, <2>3, <2>4
<1>3. CASE s.TP = 0 /\ s.TW > 0
  <2>1. AtTW(s) = s
    BY <1>1, <1>3 DEF AtTW, FoundTP
  <2>2. AtFW(s) = One("TW")
    BY <1>0, <1>3, <2>1 DEF AtFW, FoundTW, Columns, One, Zeros
  <2>3. /\ AtTN(s) = One("TW") /\ AtFN(s) = One("TW")
        /\ AtERR(s) = One("TW") /\ Reduced(s) = One("TW")
    BY <2>2, BlocksKeepOne DEF AtTN, AtFN, AtERR, Reduced
  <2>4. Reducible(s)
    BY <1>0, <1>1, <1>3, <2>1, <2>2, <2>3 DEF Reducible, Above0, One, Zeros, Columns
  <2>5. QED
    BY <1>0, <1>3, <2>3, <2>4 DEF Strongest, Above0
<1>4. CASE s.TP = 0 /\ s.TW = 0 /\ s.FN > 0
  <2>1. AtTW(s) = s /\ AtFW(s) = s /\ AtTN(s) = s /\ AtFN(s) = s
    BY <1>0, <1>1, <1>4 DEF AtTW, AtFW, AtTN, AtFN, FoundTP, FoundTW, FoundFW, FoundTN
  <2>2. AtERR(s) = One("FN")
    BY <1>0, <1>4, <2>1 DEF AtERR, FoundFN, Columns, One, Zeros
  <2>3. Reduced(s) = One("FN")
    BY <2>2, BlocksKeepOne DEF Reduced
  <2>4. Reducible(s)
    BY <1>0, <1>1, <1>4, <2>1, <2>2, <2>3 DEF Reducible, Above0, One, Zeros, Columns
  <2>5. QED
    BY <1>0, <1>4, <2>3, <2>4 DEF Strongest, Above0
<1>5. CASE s.TP = 0 /\ s.TW = 0 /\ s.FN = 0
  <2>1. /\ AtTW(s) = s /\ AtFW(s) = s /\ AtTN(s) = s /\ AtFN(s) = s /\ AtERR(s) = s
        /\ s.ERR > 0
    BY <1>0, <1>1, <1>5 DEF AtTW, AtFW, AtTN, AtFN, AtERR,
                            FoundTP, FoundTW, FoundFW, FoundTN, FoundFN
  <2>2. Reduced(s) = One("ERR")
    BY <1>0, <1>5, <2>1 DEF Reduced, OnlyERR, Columns, One, Zeros
  <2>3. Reducible(s)
    BY <1>0, <1>1, <1>5, <2>1 DEF Reducible, Above0
  <2>4. QED
    BY <1>0, <1>5, <2>2, <2>3 DEF Strongest, Above0
<1>6. \/ s.TP > 0
      \/ s.TP = 0 /\ s.TW > 0
      \/ s.TP = 0 /\ s.TW = 0 /\ s.FN > 0
      \/ s.TP = 0 /\ s.TW = 0 /\ s.FN = 0
  BY <1>0
<1>7. QED
  BY <1>2, <1>3, <1>4, <1>5, <1>6, Zenon

(* The same for a correct case: FP wins over FW, FW over TN and TN over ERR. *)
LEMMA CorrectReduced ==
  ASSUME NEW s \in Scores, OneSided(FALSE, s), \E c \in Columns : s[c] > 0
  PROVE  Reducible(s) /\ Reduced(s) = One(Strongest(FALSE, s))
<1>0. /\ s \in [Columns -> Nat] /\ s.TP = 0 /\ s.FN = 0 /\ s.TW = 0
      /\ s.FP \in Nat /\ s.FW \in Nat /\ s.TN \in Nat /\ s.ERR \in Nat
      /\ s.FP > 0 \/ s.FW > 0 \/ s.TN > 0 \/ s.ERR > 0
  BY DEF Scores, OneSided, Foreign, Columns
<1>1. CASE s.FP > 0
  <2>1. AtTP(s) = One("FP")
    BY <1>0, <1>1 DEF AtTP, FoundFP, Columns, One, Zeros
  <2>2. /\ AtTW(s) = One("FP") /\ AtFW(s) = One("FP") /\ AtTN(s) = One("FP")
        /\ AtFN(s) = One("FP") /\ AtERR(s) = One("FP") /\ Reduced(s) = One("FP")
    BY <2>1, BlocksKeepOne DEF AtTW, AtFW, AtTN, AtFN, AtERR, Reduced
  <2>3. Reducible(s)
    BY <1>0, <2>1, <2>2 DEF Reducible, Above0, One, Zeros, Columns
  <2>4. Strongest(FALSE, s) = "FP"
    BY <1>0, <1>1 DEF Strongest, Above0
  <2>5. QED
    BY <2>2, <2>3, <2>4
<1>2. CASE s.FP = 0 /\ s.FW > 0
  <2>1. AtTP(s) = s /\ AtTW(s) = s /\ AtFW(s) = s
    BY <1>0, <1>2 DEF AtTP, AtTW, AtFW, FoundFP, FoundTP, FoundTW
  <2>2. AtTN(s) = One("FW")
    BY <1>0, <1>2, <2>1 DEF AtTN, FoundFW, Columns, One, Zeros
  <2>3. AtFN(s) = One("FW") /\ AtERR(s) = One("FW") /\ Reduced(s) = One("FW")
    BY <2>2, BlocksKeepOne DEF AtFN, AtERR, Reduced
  <2>4. Reducible(s)
    BY <1>0, <1>2, <2>1, <2>2, <2>3 DEF Reducible, Above0, One, Zeros, Columns
  <2>5. QED
    BY <1>0, <1>2, <2>3, <2>4 DEF Strongest, Above0
<1>3. CASE s.FP = 0 /\ s.FW = 0 /\ s.TN > 0
  <2>1. AtTP(s) = s /\ AtTW(s) = s /\ AtFW(s) = s /\ AtTN(s) = s
    BY <1>0, <1>3 DEF AtTP, AtTW, AtFW, AtTN, FoundFP, FoundTP, FoundTW, FoundFW
  <2>2. AtFN(s) = One("TN")
    BY <1>0, <1>3, <2>1 DEF AtFN, FoundTN, Columns, One, Zeros
  <2>3. AtERR(s) = One("TN") /\ Reduced(s) = One("TN")
    BY <2>2, BlocksKeepOne DEF AtERR, Reduced
  <2>4. Reducible(s)
    BY <1>0, <1>3, <2>1, <2>2, <2>3 DEF Reducible, Above0, One, Zeros, Columns
  <2>5. QED
    BY <1>0, <1>3, <2>3, <2>4 DEF Strongest, Above0
<1>4. CASE s.FP = 0 /\ s.FW = 0 /\ s.TN = 0
  <2>1. /\ AtTP(s) = s /\ AtTW(s) = s /\ AtFW(s) = s /\ AtTN(s) = s /\ AtFN(s) = s
        /\ AtERR(s) = s /\ s.ERR > 0
    BY <1>0, <1>4 DEF AtTP, AtTW, AtFW, AtTN, AtFN, AtERR,
                      FoundFP, FoundTP, FoundTW, FoundFW, FoundTN, FoundFN
  <2>2. Reduced(s) = One("ERR")
    BY <1>0, <1>4, <2>1 DEF Reduced, OnlyERR, Columns, One, Zeros
  <2>3. Reducible(s)
    BY <1>0, <1>4, <2>1 DEF Reducible, Above0
  <2>4. QED
    BY <1>0, <1>4, <2>2, <2>3 DEF Strongest, Above0
<1>5. \/ s.FP > 0
      \/ s.FP = 0 /\ s.FW > 0
      \/ s.FP = 0 /\ s.FW = 0 /\ s.TN > 0
      \/ s.FP = 0 /\ s.FW = 0 /\ s.TN = 0
  BY <1>0
<1>6. QED
  BY <1>1, <1>2, <1>3, <1>4, <1>5, Zenon

(* Whatever the runs of a case were, and however many: reduce_data passes   *)
(* all its assertions on their sum, and leaves exactly the strongest thing  *)
(* the tool said in any of them.                                            *)
THEOREM StrongestRemains ==
  ASSUME NEW erroneous \in BOOLEAN, NEW s \in Scores,
         OneSided(erroneous, s), \E c \in Columns : s[c] > 0
  PROVE  Reducible(s) /\ Reduced(s) = One(Strongest(erroneous, s))
<1>1. CASE erroneous = TRUE
  BY <1>1, ErroneousReduced
<1>2. CASE erroneous = FALSE
  BY <1>2, CorrectReduced
<1>3. QED
  BY <1>1, <1>2
-----------------------------------------------------------------------------
(***************************************************************************)
(* Sums over a finite set, in whatever order its elements are chosen.      *)
(***************************************************************************)
(* Every set of subsets of a finite set has a smallest one: induction over   *)
(* the subsets, in the form in which the provers can use it.                 *)
LEMMA SmallestSubset ==
  ASSUME NEW D, IsFiniteSet(D), NEW B \in SUBSET SUBSET D, B # {}
  PROVE  \E T \in B : \A U \in B : U \subseteq T => U = T
<1>1. B \subseteq FiniteSubsetsOf(D)
  BY FS_FiniteSubsetsOfFinite
<1>2. IsWellFoundedOn(StrictSubsetOrdering(D), FiniteSubsetsOf(D))
  BY FS_StrictSubsetOrderingWellFounded
<1>3. PICK T \in B : \A U \in B : <<U, T>> \notin StrictSubsetOrdering(D)
  BY <1>1, <1>2, WFMin
<1>4. QED
  BY <1>3 DEF StrictSubsetOrdering

\* SumFunction, and the sums over the subsets that it goes through on its way.
Chosen(s) == CHOOSE x \in s : TRUE
PartialSums(f) ==
  LET iter[s \in SUBSET DOMAIN f] ==
        IF s = {} THEN 0 ELSE LET x == CHOOSE x \in s : TRUE IN f[x] + iter[s \ {x}]
  IN iter

LEMMA SumIsPartial ==
  ASSUME NEW f
  PROVE  SumFunction(f) = PartialSums(f)[DOMAIN f]
BY DEF SumFunction, SumFunctionOnSet, FoldFunctionOnSet, MapThenFoldSet, PartialSums

\* One step of the recursion, and the functions that are defined by it.
SumStep(f, g, s) == IF s = {} THEN 0 ELSE f[Chosen(s)] + g[s \ {Chosen(s)}]
SumsUpTo(f, T, g) == g = [s \in SUBSET T |-> SumStep(f, g, s)]

LEMMA ChosenIsIn ==
  ASSUME NEW s, s # {}
  PROVE  Chosen(s) \in s
BY DEF Chosen

(* Two functions defined by the recursion agree where both are defined.      *)
LEMMA SumsAgree ==
  ASSUME NEW f, NEW D, IsFiniteSet(D), NEW T \in SUBSET D, NEW U \in SUBSET D,
         NEW g, SumsUpTo(f, T, g), NEW h, SumsUpTo(f, U, h)
  PROVE  \A s \in SUBSET (T \cap U) : g[s] = h[s]
<1> DEFINE B == {s \in SUBSET (T \cap U) : g[s] # h[s]}
<1> SUFFICES ASSUME B # {} PROVE FALSE
  OBVIOUS
<1>1. PICK s \in B : \A r \in B : r \subseteq s => r = s
  <2>1. B \in SUBSET SUBSET D
    OBVIOUS
  <2> HIDE DEF B
  <2>2. QED
    BY <2>1, SmallestSubset
<1>2. g[s] = SumStep(f, g, s) /\ h[s] = SumStep(f, h, s)
  <2>1. s \in SUBSET T /\ s \in SUBSET U
    OBVIOUS
  <2>2. QED
    BY <2>1 DEF SumsUpTo
<1>3. CASE s = {}
  BY <1>2, <1>3 DEF SumStep
<1>4. CASE s # {}
  <2>1. Chosen(s) \in s
    BY <1>4, ChosenIsIn
  <2>2. s \ {Chosen(s)} \notin B
    BY <1>1, <2>1
  <2>3. g[s \ {Chosen(s)}] = h[s \ {Chosen(s)}]
    BY <2>2
  <2>4. QED
    BY <1>2, <1>4, <2>3 DEF SumStep
<1>5. QED
  BY <1>3, <1>4

(* There is such a function for every finite set.                            *)
LEMMA SumsExist ==
  ASSUME NEW f, NEW D, IsFiniteSet(D)
  PROVE  \E g : SumsUpTo(f, D, g)
<1> DEFINE B == {T \in SUBSET D : ~ \E g : SumsUpTo(f, T, g)}
<1> SUFFICES ASSUME B # {} PROVE FALSE
  OBVIOUS
<1>1. PICK T \in B : \A U \in B : U \subseteq T => U = T
  <2>1. B \in SUBSET SUBSET D
    OBVIOUS
  <2> HIDE DEF B
  <2>2. QED
    BY <2>1, SmallestSubset
<1> DEFINE Of(U) == CHOOSE g : SumsUpTo(f, U, g)
           g == [s \in SUBSET T |->
                   IF s = {} THEN 0
                   ELSE f[Chosen(s)] + Of(s \ {Chosen(s)})[s \ {Chosen(s)}]]
<1>2. ASSUME NEW U \in SUBSET T, U # T
      PROVE  SumsUpTo(f, U, Of(U))
  BY <1>1, <1>2
<1>3. ASSUME NEW s \in SUBSET T, s # T
      PROVE  g[s] = Of(s)[s]
  <2>0. SumsUpTo(f, s, Of(s))
    BY <1>2, <1>3
  <2>1. Of(s)[s] = SumStep(f, Of(s), s)
    <3> HIDE DEF Of
    <3>1. QED
      BY <2>0 DEF SumsUpTo
  <2>2. CASE s = {}
    BY <2>1, <2>2 DEF SumStep
  <2>3. CASE s # {}
    <3> DEFINE r == s \ {Chosen(s)}
    <3>1. r \in SUBSET s /\ r # s
      BY <2>3, ChosenIsIn
    <3>2. SumsUpTo(f, r, Of(r))
      BY <1>2, <1>3, <3>1
    <3>3. Of(s)[r] = Of(r)[r]
      <4>1. r \in SUBSET (s \cap r) /\ s \in SUBSET D /\ r \in SUBSET D
        BY <3>1, <1>3
      <4> HIDE DEF Of, r, g, B
      <4>2. \A q \in SUBSET (s \cap r) : Of(s)[q] = Of(r)[q]
        BY <2>0, <3>2, <4>1, SumsAgree
      <4>3. QED
        BY <4>1, <4>2
    <3> HIDE DEF Of
    <3>4. QED
      BY <2>1, <2>3, <3>3, <1>3 DEF SumStep
  <2>4. QED
    BY <2>2, <2>3
<1>4. ASSUME NEW s \in SUBSET T
      PROVE  g[s] = SumStep(f, g, s)
  <2>1. CASE s = {}
    BY <2>1 DEF SumStep
  <2>2. CASE s # {}
    <3>1. s \ {Chosen(s)} \in SUBSET T /\ s \ {Chosen(s)} # T
      BY <1>4, <2>2, ChosenIsIn
    <3>2. g[s \ {Chosen(s)}] = Of(s \ {Chosen(s)})[s \ {Chosen(s)}]
      BY <1>3, <3>1
    <3> HIDE DEF Of
    <3>3. QED
      BY <2>2, <3>2, <1>4 DEF SumStep
  <2>3. QED
    BY <2>1, <2>2
<1>5. SumsUpTo(f, T, g)
  <2>1. g = [s \in SUBSET T |-> g[s]]
    OBVIOUS
  <2> HIDE DEF g
  <2>2. QED
    BY <1>4, <2>1 DEF SumsUpTo
<1>6. QED
  BY <1>1, <1>5

LEMMA PartialSumsDefined ==
  ASSUME NEW f, IsFiniteSet(DOMAIN f)
  PROVE  SumsUpTo(f, DOMAIN f, PartialSums(f))
<1> DEFINE sums == CHOOSE g : SumsUpTo(f, DOMAIN f, g)
<1>1. PartialSums(f) = sums
  BY DEF PartialSums, SumsUpTo, SumStep, Chosen
<1>2. SumsUpTo(f, DOMAIN f, sums)
  BY SumsExist
<1>3. QED
  BY <1>1, <1>2

(* The sums of natural numbers are natural numbers.                          *)
LEMMA PartialSumType ==
  ASSUME NEW f, NEW D, D = DOMAIN f, IsFiniteSet(D),
         NEW T \in SUBSET D, \A x \in T : f[x] \in Nat
  PROVE  PartialSums(f)[T] \in Nat
<1> DEFINE P == PartialSums(f)
           B == {s \in SUBSET T : P[s] \notin Nat}
<1> SUFFICES ASSUME B # {} PROVE FALSE
  OBVIOUS
<1>0. \A s \in SUBSET T : P[s] = SumStep(f, P, s)
  <2>1. SumsUpTo(f, D, P)
    BY PartialSumsDefined
  <2> HIDE DEF P
  <2>2. QED
    BY <2>1 DEF SumsUpTo
<1>1. PICK s \in B : \A r \in B : r \subseteq s => r = s
  <2>1. B \in SUBSET SUBSET D
    OBVIOUS
  <2> HIDE DEF B
  <2>2. QED
    BY <2>1, SmallestSubset
<1>2. CASE s = {}
  <2>1. P[s] = 0
    BY <1>0, <1>2 DEF SumStep
  <2> HIDE DEF P
  <2>2. QED
    BY <2>1
<1>3. CASE s # {}
  <2>1. Chosen(s) \in s
    BY <1>3, ChosenIsIn
  <2>2. s \ {Chosen(s)} \notin B /\ f[Chosen(s)] \in Nat
    BY <1>1, <2>1
  <2>3. P[s \ {Chosen(s)}] \in Nat
    BY <2>2
  <2>4. P[s] = f[Chosen(s)] + P[s \ {Chosen(s)}]
    BY <1>0, <1>3 DEF SumStep
  <2> HIDE DEF P
  <2>5. P[s] \in Nat
    BY <2>2, <2>3, <2>4
  <2>6. QED
    BY <2>5 DEF P
<1>4. QED
  BY <1>2, <1>3

(* Whatever the order in which the elements are chosen, a sum is the sum     *)
(* without one of them and that one.                                         *)
LEMMA SumWithout ==
  ASSUME NEW f, NEW D, D = DOMAIN f, IsFiniteSet(D),
         NEW T \in SUBSET D, \A y \in T : f[y] \in Nat, NEW x \in T
  PROVE  PartialSums(f)[T] = f[x] + PartialSums(f)[T \ {x}]
<1> DEFINE P == PartialSums(f)
           B == {s \in SUBSET T : \E y \in s : P[s] # f[y] + P[s \ {y}]}
<1> SUFFICES ASSUME B # {} PROVE FALSE
  OBVIOUS
<1>0. /\ \A s \in SUBSET T : s # {} => P[s] = f[Chosen(s)] + P[s \ {Chosen(s)}]
      /\ \A s \in SUBSET T : P[s] \in Nat
  <2>1. SumsUpTo(f, D, P)
    BY PartialSumsDefined
  <2>2. \A s \in SUBSET T : P[s] \in Nat
    BY PartialSumType
  <2> HIDE DEF P
  <2>3. QED
    BY <2>1, <2>2 DEF SumsUpTo, SumStep
<1>1. PICK s \in B : \A r \in B : r \subseteq s => r = s
  <2>1. B \in SUBSET SUBSET D
    OBVIOUS
  <2> HIDE DEF B
  <2>2. QED
    BY <2>1, SmallestSubset
<1>2. PICK y \in s : P[s] # f[y] + P[s \ {y}]
  OBVIOUS
<1> DEFINE z == Chosen(s)
<1>3. z \in s /\ P[s] = f[z] + P[s \ {z}]
  BY <1>0, <1>2, ChosenIsIn
<1>4. y # z
  BY <1>2, <1>3
<1>5. \A r \in SUBSET s : r # s => \A u \in r : P[r] = f[u] + P[r \ {u}]
  BY <1>1
<1>6. P[s \ {z}] = f[y] + P[(s \ {z}) \ {y}]
  <2>1. s \ {z} \in SUBSET s /\ s \ {z} # s /\ y \in s \ {z}
    BY <1>3, <1>4
  <2> HIDE DEF P, z
  <2>2. QED
    BY <1>5, <2>1
<1>7. P[s \ {y}] = f[z] + P[(s \ {y}) \ {z}]
  <2>1. s \ {y} \in SUBSET s /\ s \ {y} # s /\ z \in s \ {y}
    BY <1>3, <1>4
  <2> HIDE DEF P, z
  <2>2. QED
    BY <1>5, <2>1
<1>8. (s \ {y}) \ {z} = (s \ {z}) \ {y}
  OBVIOUS
<1>9. f[y] \in Nat /\ f[z] \in Nat /\ P[(s \ {y}) \ {z}] \in Nat
  <2>1. y \in T /\ z \in T /\ (s \ {y}) \ {z} \in SUBSET T
    BY <1>3
  <2> HIDE DEF P, z
  <2>2. QED
    BY <1>0, <2>1
<1> HIDE DEF P, z
<1>10. P[s] = f[z] + (f[y] + P[(s \ {y}) \ {z}])
  BY <1>3, <1>6, <1>8
<1>11. f[y] + P[s \ {y}] = f[y] + (f[z] + P[(s \ {y}) \ {z}])
  BY <1>7
<1>12. \A a, b, c \in Nat : a + (b + c) = b + (a + c)
  OBVIOUS
<1>13. QED
  BY <1>2, <1>9, <1>10, <1>11, <1>12

(* A sum is positive exactly when one of the numbers is.                     *)
LEMMA SumIsPositive ==
  ASSUME NEW f, NEW D, D = DOMAIN f, IsFiniteSet(D),
         NEW T \in SUBSET D, \A y \in T : f[y] \in Nat
  PROVE  PartialSums(f)[T] > 0 <=> \E x \in T : f[x] > 0
<1> DEFINE P == PartialSums(f)
<1>1. ASSUME NEW x \in T, f[x] > 0
      PROVE  P[T] > 0
  <2>1. P[T] = f[x] + P[T \ {x}]
    BY SumWithout
  <2>2. P[T \ {x}] \in Nat
    BY PartialSumType
  <2>3. f[x] \in Nat
    OBVIOUS
  <2> HIDE DEF P
  <2>4. QED
    BY <1>1, <2>1, <2>2, <2>3
<1>2. ASSUME \A x \in T : f[x] = 0
      PROVE  P[T] = 0
  <2> DEFINE B == {s \in SUBSET T : P[s] # 0}
  <2> SUFFICES ASSUME B # {} PROVE FALSE
    OBVIOUS
  <2>1. PICK s \in B : \A r \in B : r \subseteq s => r = s
    <3>1. B \in SUBSET SUBSET D
      OBVIOUS
    <3> HIDE DEF B
    <3>2. QED
      BY <3>1, SmallestSubset
  <2>2. P[s] = SumStep(f, P, s)
    <3>1. SumsUpTo(f, D, P)
      BY PartialSumsDefined
    <3> HIDE DEF P
    <3>2. QED
      BY <3>1 DEF SumsUpTo
  <2>3. s # {}
    BY <2>1, <2>2 DEF SumStep
  <2>4. Chosen(s) \in s /\ P[s] = f[Chosen(s)] + P[s \ {Chosen(s)}]
    BY <2>2, <2>3, ChosenIsIn DEF SumStep
  <2>5. P[s \ {Chosen(s)}] = 0 /\ f[Chosen(s)] = 0
    BY <1>2, <2>1, <2>4
  <2>6. P[s] # 0
    BY <2>1
  <2> HIDE DEF P
  <2>7. QED
    BY <2>4, <2>5, <2>6
<1>3. \A x \in T : f[x] = 0 \/ f[x] > 0
  OBVIOUS
<1> HIDE DEF P
<1>4. P[T] > 0 <=> \E x \in T : f[x] > 0
  BY <1>1, <1>2, <1>3
<1>5. QED
  BY <1>4 DEF P

(* The sum of no elements.                                                   *)
LEMMA SumOfNone ==
  ASSUME NEW f, IsFiniteSet(DOMAIN f)
  PROVE  PartialSums(f)[{}] = 0
<1> DEFINE P == PartialSums(f)
<1>1. SumsUpTo(f, DOMAIN f, P)
  BY PartialSumsDefined
<1> HIDE DEF P
<1>2. P[{}] = SumStep(f, P, {})
  BY <1>1 DEF SumsUpTo
<1>3. P[{}] = 0
  BY <1>2 DEF SumStep
<1>4. QED
  BY <1>3 DEF P
=============================================================================
