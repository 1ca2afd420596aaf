-------------------------- MODULE FetchAndAdd_proofs --------------------------
(***************************************************************************)
(* The counters of correct/rma are a shared counter, for any number of     *)
(* clients and calls.  First, that any two clients meet in exactly one     *)
(* element; then, what the epochs make of it.                              *)
(***************************************************************************)
EXTENDS FetchAndAdd, FiniteSetTheorems, TLAPS

-----------------------------------------------------------------------------
(***************************************************************************)
(* The elements the clients of the counters add to and read meet in the    *)
(* right places.                                                           *)
(***************************************************************************)
\* A client with rank t within a node i whose halves have m ranks goes on to
\* node i2, where it has rank t2, and reads the node at j2.
Goes(i, t, m, i2, t2, j2) ==
  \/ t < m /\ t2 = t /\ i2 = i + 1 /\ j2 = i + 2 * m
  \/ t >= m /\ t2 = t - m /\ i2 = i + 2 * m /\ j2 = i + 1

\* Nodes i and j of n ranks each, where clients c and d have the ranks s and t,
\* are the same, or the ranks and nodes below i come before those below j.
Same(c, s, i, d, t, j) == c - s = d - t /\ i = j
Before(c, s, i, d, t, j, n) == c - s + n <= d - t /\ i + 2 * n - 2 < j
Apart(c, s, i, d, t, j, n) == Before(c, s, i, d, t, j, n) \/ Before(d, t, j, c, s, i, n)

\* The ranks below a node of level l, and the last node below that of client c.
Size(l) == Pow[Depth - l]
Last(c, l) == idx[c][l] + 2 * Size(l) - 2

SameAt(c, d, l) == Same(c, tmp_rank[c][l], idx[c][l], d, tmp_rank[d][l], idx[d][l])
ApartAt(c, d, l) == Apart(c, tmp_rank[c][l], idx[c][l], d, tmp_rank[d][l], idx[d][l], Size(l))

\* What one iteration has done.
Stepped(c, l) ==
  /\ acc_idx[c][l] = idx[c][l + 1]
  /\ Goes(idx[c][l], tmp_rank[c][l], Size(l + 1), idx[c][l + 1], tmp_rank[c][l + 1], get_idx[c][l])

Levels(c) == 0..level[c]
Iterations(c) == 0..(level[c] - 1)

InRange == \A c \in Clients : \A l \in Levels(c) : tmp_rank[c][l] < Size(l)
Iterated == \A c \in Clients : \A l \in Iterations(c) : Stepped(c, l)
Starts == \A c \in Clients : idx[c][0] = 0 /\ tmp_rank[c][0] = c

\* Deeper nodes of a client are below its earlier ones.
Nested ==
  \A c \in Clients : \A k \in Levels(c) : \A j \in 0..(k - 1) :
    idx[c][j] < idx[c][k] /\ Last(c, k) <= Last(c, j)

\* Two clients go the same way until they part, and never meet again.
SameOrApart ==
  \A c, d \in Clients : \A l \in Levels(c) \cap Levels(d) : SameAt(c, d, l) \/ ApartAt(c, d, l)
StayApart ==
  \A c, d \in Clients : \A l \in Levels(c) \cap Levels(d) : \A k \in 0..l :
    SameAt(c, d, l) => SameAt(c, d, k)
PartSomewhere ==
  \A c, d \in Clients : \A l \in Levels(c) \cap Levels(d) :
    ApartAt(c, d, l) => \E k \in 0..(l - 1) : SameAt(c, d, k) /\ ApartAt(c, d, k + 1)

\* What the datatypes select.
Selected ==
  \A c \in committed :
    \/ /\ routine = "flat"
       /\ acc_type[c] = {c} /\ get_type[c] = 0..(c - 1) \cup (c + 1)..(NProcs - 1)
    \/ /\ routine = "tree" /\ level[c] = Depth
       /\ acc_type[c] = {acc_idx[c][l] : l \in 0..(Depth - 1)}
       /\ get_type[c] = {get_idx[c][l] : l \in 0..(Depth - 1)}

Shape ==
  /\ routine \in Routines
  /\ level \in [Clients -> 0..Depth]
  /\ idx \in [Clients -> [0..Depth -> Nat]]
  /\ tmp_rank \in [Clients -> [0..Depth -> Nat]]
  /\ acc_idx \in [Clients -> [0..(Depth - 1) -> Nat]]
  /\ get_idx \in [Clients -> [0..(Depth - 1) -> Nat]]
  /\ acc_type \in [Clients -> SUBSET Nat]
  /\ get_type \in [Clients -> SUBSET Nat]
  /\ committed \in SUBSET Clients
  /\ \A c \in Clients \ committed : acc_type[c] = {} /\ get_type[c] = {}

Paths == Starts /\ InRange /\ Iterated /\ Nested
Pairs == SameOrApart /\ StayApart /\ PartSomewhere
SetupInv == Shape /\ Paths /\ Pairs /\ Selected
-----------------------------------------------------------------------------
LEMMA Sizes ==
  /\ Size(0) = Pow[Depth] /\ Size(Depth) = 1
  /\ \A l \in 0..Depth : Size(l) \in Nat \ {0}
  /\ \A l \in 0..(Depth - 1) : Size(l) = 2 * Size(l + 1) /\ Size(l + 1) = Pow[Depth - 1 - l]
<1>1. Depth \in Nat /\ Pow \in [0..Depth -> Nat \ {0}] /\ Pow[0] = 1
  BY SizesAssumption
<1>2. \A l \in 0..Depth : Depth - l \in 0..Depth
  BY <1>1
<1>3. ASSUME NEW l \in 0..(Depth - 1)
      PROVE  Size(l) = 2 * Size(l + 1) /\ Size(l + 1) = Pow[Depth - 1 - l]
  <2>1. Depth - 1 - l \in 0..(Depth - 1) /\ (Depth - 1 - l) + 1 = Depth - l /\ Depth - (l + 1) = Depth - 1 - l
    BY <1>1
  <2>2. QED
    BY <2>1, SizesAssumption DEF Size
<1>4. QED
  BY <1>1, <1>2, <1>3 DEF Size

LEMMA Remainder ==
  ASSUME NEW m \in Nat \ {0}, NEW a \in Nat, a < 2 * m
  PROVE  a % m = IF a < m THEN a ELSE a - m
<1>1. CASE a < m
  BY <1>1
<1>2. CASE m <= a
  BY <1>2
<1>3. QED
  BY <1>1, <1>2

\* One level further down, for one client and for two.
LEMMA GoesDown ==
  ASSUME NEW m \in Nat \ {0}, NEW i \in Nat, NEW t \in Nat, NEW i2 \in Nat, NEW t2 \in Nat, NEW j2 \in Nat,
         t < 2 * m, Goes(i, t, m, i2, t2, j2)
  PROVE  /\ t2 < m
         /\ i < i2 /\ i2 + 2 * m - 2 <= i + 2 * (2 * m) - 2
         /\ i < j2 /\ j2 + 2 * m - 2 <= i + 2 * (2 * m) - 2
         /\ i2 + 2 * m - 2 < j2 \/ j2 + 2 * m - 2 < i2
  BY DEF Goes

LEMMA GoDown ==
  ASSUME NEW m \in Nat \ {0}, NEW c \in Nat, NEW d \in Nat,
         NEW i \in Nat, NEW s \in Nat, NEW i2 \in Nat, NEW s2 \in Nat, NEW k2 \in Nat,
         NEW j \in Nat, NEW t \in Nat, NEW j2 \in Nat, NEW t2 \in Nat, NEW l2 \in Nat,
         s < 2 * m, Goes(i, s, m, i2, s2, k2),
         t < 2 * m, Goes(j, t, m, j2, t2, l2),
         Same(c, s, i, d, t, j) \/ Apart(c, s, i, d, t, j, 2 * m)
  PROVE  /\ Same(c, s2, i2, d, t2, j2) \/ Apart(c, s2, i2, d, t2, j2, m)
         /\ Apart(c, s, i, d, t, j, 2 * m) => Apart(c, s2, i2, d, t2, j2, m) /\ ~Same(c, s2, i2, d, t2, j2)
  BY DEF Goes, Same, Apart, Before
-----------------------------------------------------------------------------
LEMMA InitInv == SetupInit => SetupInv
<1> SUFFICES ASSUME SetupInit PROVE SetupInv
  OBVIOUS
<1> USE SizesAssumption, Sizes
<1>1. Shape
  BY DEF SetupInit, Shape, Clients
<1>2. \A c \in Clients : Levels(c) = {0} /\ Iterations(c) = {} /\ c \in Nat /\ c < Pow[Depth]
  BY DEF SetupInit, Levels, Iterations, Clients
<1>3. Paths
  BY <1>2 DEF SetupInit, Paths, Starts, InRange, Iterated, Nested
<1>4. \A c, d \in Clients : SameAt(c, d, 0) /\ ~ApartAt(c, d, 0)
  BY <1>2 DEF SetupInit, SameAt, Same, ApartAt, Apart, Before
<1>5. Pairs
  BY <1>2, <1>4 DEF Pairs, SameOrApart, StayApart, PartSomewhere
<1>6. Selected
  BY DEF SetupInit, Selected
<1>7. QED
  BY <1>1, <1>3, <1>5, <1>6 DEF SetupInv

LEMMA Update ==
  ASSUME NEW C, NEW D, NEW R, NEW f \in [C -> [D -> R]], NEW c \in C, NEW k \in D, NEW v \in R,
         NEW g, g = [f EXCEPT ![c][k] = v]
  PROVE  /\ g \in [C -> [D -> R]]
         /\ g[c][k] = v
         /\ \A j \in D : j # k => g[c][j] = f[c][j]
         /\ \A d \in C : d # c => g[d] = f[d]
<1>1. f[c] \in [D -> R]
  OBVIOUS
<1>2. [f[c] EXCEPT ![k] = v] \in [D -> R]
  BY <1>1
<1>3. QED
  BY <1>1, <1>2

LEMMA DescendInv ==
  ASSUME SetupInv, NEW c \in Clients, Descend(c)
  PROVE  SetupInv'
<1>n. Depth \in Nat
  BY SizesAssumption
<1> USE <1>n
<1>1. Shape /\ Starts /\ InRange /\ Iterated /\ Nested /\ Pairs /\ Selected
  BY DEF SetupInv, Paths
<1>0. PICK l \in 0..(Depth - 1) : l = level[c]
  <2>1. level[c] \in 0..Depth /\ level[c] < Depth
    BY <1>1 DEF Descend, Shape
  <2>2. QED
    BY <2>1
<1> DEFINE m == Size(l + 1)
<1>a. m \in Nat \ {0} /\ m = Pow[Depth - 1 - l] /\ Size(l) = 2 * m /\ l + 1 \in 0..Depth /\ l \in 0..Depth
  <2>1. l + 1 \in 0..Depth /\ l \in 0..Depth
    OBVIOUS
  <2>2. QED
    BY <2>1, Sizes
<1>b. /\ routine = "tree" /\ level[c] = l /\ l \in Levels(c)
      /\ tmp_rank[c][l] \in Nat /\ idx[c][l] \in Nat /\ tmp_rank[c][l] < 2 * m
  <2>1. routine = "tree" /\ level[c] = l /\ l \in Levels(c)
    BY <1>0 DEF Descend, Levels
  <2>2. tmp_rank[c][l] < 2 * m
    BY <1>1, <1>a, <2>1 DEF InRange
  <2>3. tmp_rank[c][l] \in Nat /\ idx[c][l] \in Nat
    <3>1. tmp_rank[c] \in [0..Depth -> Nat] /\ idx[c] \in [0..Depth -> Nat]
      BY <1>1 DEF Shape
    <3>2. QED
      BY <1>a, <3>1
  <2>4. QED
    BY <2>1, <2>2, <2>3
<1>c. PICK mine \in Nat, rest \in Nat, other \in Nat :
        /\ Goes(idx[c][l], tmp_rank[c][l], m, mine, rest, other)
        /\ level' = [level EXCEPT ![c] = l + 1]
        /\ acc_idx' = [acc_idx EXCEPT ![c][l] = mine]
        /\ get_idx' = [get_idx EXCEPT ![c][l] = other]
        /\ idx' = [idx EXCEPT ![c][l + 1] = mine]
        /\ tmp_rank' = [tmp_rank EXCEPT ![c][l + 1] = rest]
        /\ UNCHANGED <<routine, acc_type, get_type, committed>>
  <2>1. tmp_rank[c][l] % m = IF tmp_rank[c][l] < m THEN tmp_rank[c][l] ELSE tmp_rank[c][l] - m
    BY <1>a, <1>b, Remainder
  <2>2. CASE tmp_rank[c][l] < m
    <3>1. Goes(idx[c][l], tmp_rank[c][l], m, idx[c][l] + 1, tmp_rank[c][l], idx[c][l] + m * 2)
      BY <1>a, <1>b, <2>2 DEF Goes
    <3>2. /\ level' = [level EXCEPT ![c] = l + 1]
          /\ acc_idx' = [acc_idx EXCEPT ![c][l] = idx[c][l] + 1]
          /\ get_idx' = [get_idx EXCEPT ![c][l] = idx[c][l] + m * 2]
          /\ idx' = [idx EXCEPT ![c][l + 1] = idx[c][l] + 1]
          /\ tmp_rank' = [tmp_rank EXCEPT ![c][l + 1] = tmp_rank[c][l]]
          /\ UNCHANGED <<routine, acc_type, get_type, committed>>
      BY <1>0, <1>a, <1>b, <2>1, <2>2 DEF Descend, LeftChild, RightChild
    <3>3. idx[c][l] + 1 \in Nat /\ idx[c][l] + m * 2 \in Nat
      BY <1>a, <1>b
    <3>4. QED
      BY <1>b, <3>1, <3>2, <3>3
  <2>3. CASE tmp_rank[c][l] >= m
    <3>1. Goes(idx[c][l], tmp_rank[c][l], m, idx[c][l] + m * 2, tmp_rank[c][l] - m, idx[c][l] + 1)
      BY <1>a, <1>b, <2>3 DEF Goes
    <3>2. ~(tmp_rank[c][l] < m)
      BY <1>a, <1>b, <2>3
    <3>3. /\ level' = [level EXCEPT ![c] = l + 1]
          /\ acc_idx' = [acc_idx EXCEPT ![c][l] = idx[c][l] + m * 2]
          /\ get_idx' = [get_idx EXCEPT ![c][l] = idx[c][l] + 1]
          /\ idx' = [idx EXCEPT ![c][l + 1] = idx[c][l] + m * 2]
          /\ tmp_rank' = [tmp_rank EXCEPT ![c][l + 1] = tmp_rank[c][l] - m]
          /\ UNCHANGED <<routine, acc_type, get_type, committed>>
      BY <1>0, <1>a, <1>b, <2>1, <3>2 DEF Descend, LeftChild, RightChild
    <3>4. idx[c][l] + 1 \in Nat /\ idx[c][l] + m * 2 \in Nat /\ tmp_rank[c][l] - m \in Nat
      BY <1>a, <1>b, <2>3
    <3>5. QED
      BY <3>1, <3>3, <3>4
  <2>4. QED
    BY <1>a, <1>b, <2>2, <2>3
<1>d. /\ idx' \in [Clients -> [0..Depth -> Nat]] /\ idx'[c][l + 1] = mine
      /\ \A j \in 0..Depth : j # l + 1 => idx'[c][j] = idx[c][j]
      /\ \A d \in Clients : d # c => idx'[d] = idx[d]
  <2>1. idx \in [Clients -> [0..Depth -> Nat]]
    BY <1>1 DEF Shape
  <2>2. QED
    BY <1>a, <1>c, <2>1, Update
<1>e. /\ tmp_rank' \in [Clients -> [0..Depth -> Nat]] /\ tmp_rank'[c][l + 1] = rest
      /\ \A j \in 0..Depth : j # l + 1 => tmp_rank'[c][j] = tmp_rank[c][j]
      /\ \A d \in Clients : d # c => tmp_rank'[d] = tmp_rank[d]
  <2>1. tmp_rank \in [Clients -> [0..Depth -> Nat]]
    BY <1>1 DEF Shape
  <2>2. QED
    BY <1>a, <1>c, <2>1, Update
<1>f. /\ acc_idx' \in [Clients -> [0..(Depth - 1) -> Nat]] /\ acc_idx'[c][l] = mine
      /\ \A j \in 0..(Depth - 1) : j # l => acc_idx'[c][j] = acc_idx[c][j]
      /\ \A d \in Clients : d # c => acc_idx'[d] = acc_idx[d]
  <2>1. acc_idx \in [Clients -> [0..(Depth - 1) -> Nat]]
    BY <1>1 DEF Shape
  <2>2. QED
    BY <1>c, <2>1, Update
<1>g. /\ get_idx' \in [Clients -> [0..(Depth - 1) -> Nat]] /\ get_idx'[c][l] = other
      /\ \A j \in 0..(Depth - 1) : j # l => get_idx'[c][j] = get_idx[c][j]
      /\ \A d \in Clients : d # c => get_idx'[d] = get_idx[d]
  <2>1. get_idx \in [Clients -> [0..(Depth - 1) -> Nat]]
    BY <1>1 DEF Shape
  <2>2. QED
    BY <1>c, <2>1, Update
<1>h. /\ level' \in [Clients -> 0..Depth] /\ level'[c] = l + 1
      /\ \A d \in Clients : d # c => level'[d] = level[d]
  BY <1>1, <1>a, <1>c DEF Shape
<1>5. Shape'
  BY <1>1, <1>c, <1>d, <1>e, <1>f, <1>g, <1>h DEF Shape
<1>6. \A d \in Clients : /\ Levels(d)' = IF d = c THEN Levels(d) \cup {l + 1} ELSE Levels(d)
                         /\ Iterations(d)' = IF d = c THEN Iterations(d) \cup {l} ELSE Iterations(d)
  <2>1. 0..(l + 1) = 0..l \cup {l + 1} /\ 0..((l + 1) - 1) = 0..(l - 1) \cup {l}
    OBVIOUS
  <2>2. QED
    BY <1>b, <1>h, <2>1 DEF Levels, Iterations
<1>7. \A d \in Clients : /\ Levels(d) \subseteq 0..Depth /\ Iterations(d) \subseteq 0..(Depth - 1)
                         /\ \A k \in Iterations(d) : k \in Levels(d) /\ k + 1 \in Levels(d)
                         /\ \A k \in Levels(d) : \A j \in 0..(k - 1) : j \in Levels(d) /\ j \in Iterations(d)
  <2> TAKE d \in Clients
  <2>1. level[d] \in 0..Depth
    BY <1>1 DEF Shape
  <2>2. QED
    BY <2>1 DEF Levels, Iterations
<1>8. \A d \in Clients : /\ \A k \in Levels(d) : idx'[d][k] = idx[d][k] /\ tmp_rank'[d][k] = tmp_rank[d][k]
                         /\ \A k \in Iterations(d) : acc_idx'[d][k] = acc_idx[d][k] /\ get_idx'[d][k] = get_idx[d][k]
  <2> TAKE d \in Clients
  <2>1. CASE d = c
    <3>1. \A k \in Levels(c) : k \in 0..Depth /\ k # l + 1
      BY <1>a, <1>b, <1>7 DEF Levels
    <3>2. \A k \in Iterations(c) : k \in 0..(Depth - 1) /\ k # l
      BY <1>a, <1>b, <1>7 DEF Iterations
    <3>3. QED
      BY <1>d, <1>e, <1>f, <1>g, <2>1, <3>1, <3>2
  <2>2. CASE d # c
    BY <1>d, <1>e, <1>f, <1>g, <2>2
  <2>3. QED
    BY <2>1, <2>2
<1>9. Starts'
  <2>1. \A d \in Clients : 0 \in Levels(d)
    BY <1>1 DEF Levels, Shape
  <2>2. QED
    BY <1>1, <1>8, <2>1 DEF Starts
<1>10. Iterated'
  <2>1. Stepped(c, l)'
    BY <1>a, <1>b, <1>c, <1>d, <1>e, <1>f, <1>g DEF Stepped
  <2>2. ASSUME NEW d \in Clients, NEW k \in Iterations(d) PROVE Stepped(d, k)'
    <3>1. Stepped(d, k) /\ k \in Levels(d) /\ k + 1 \in Levels(d)
      BY <1>1, <1>7 DEF Iterated
    <3>2. QED
      BY <1>8, <3>1 DEF Stepped
  <2>3. ASSUME NEW d \in Clients, NEW k \in Iterations(d)' PROVE Stepped(d, k)'
    <3>1. CASE d = c /\ k = l
      BY <2>1, <3>1
    <3>2. CASE k \in Iterations(d)
      BY <2>2, <3>2
    <3>3. QED
      BY <1>6, <3>1, <3>2
  <2>4. QED
    BY <2>3 DEF Iterated
<1>11. InRange'
  <2>1. tmp_rank'[c][l + 1] < Size(l + 1)
    BY <1>a, <1>b, <1>c, <1>e, GoesDown
  <2>2. ASSUME NEW d \in Clients, NEW k \in Levels(d) PROVE tmp_rank'[d][k] < Size(k)
    BY <1>1, <1>8 DEF InRange
  <2>3. ASSUME NEW d \in Clients, NEW k \in Levels(d)' PROVE tmp_rank'[d][k] < Size(k)
    BY <1>6, <2>1, <2>2
  <2>4. QED
    BY <2>3 DEF InRange, Size
<1>12. Nested'
  <2>1. ASSUME NEW j \in 0..l
        PROVE  idx'[c][j] < idx'[c][l + 1] /\ mine + 2 * m - 2 <= idx'[c][j] + 2 * Size(j) - 2
    <3>1. j \in Levels(c) /\ j \in 0..Depth
      BY <1>b DEF Levels
    <3>2. idx'[c][j] = idx[c][j] /\ idx[c][j] \in Nat /\ Size(j) \in Nat
      BY <1>1, <1>8, <3>1, Sizes DEF Shape
    <3>3. idx[c][l] < mine /\ mine + 2 * m - 2 <= idx[c][l] + 2 * (2 * m) - 2
      BY <1>a, <1>b, <1>c, GoesDown
    <3>4. idx[c][j] <= idx[c][l] /\ idx[c][l] + 2 * (2 * m) - 2 <= idx[c][j] + 2 * Size(j) - 2
      <4>1. CASE j = l
        BY <1>a, <1>b, <4>1
      <4>2. CASE j # l
        <5>1. j \in 0..(l - 1)
          BY <4>2
        <5>2. idx[c][j] < idx[c][l] /\ Last(c, l) <= Last(c, j)
          BY <1>1, <1>b, <5>1 DEF Nested
        <5>3. QED
          BY <1>a, <1>b, <3>2, <5>2 DEF Last
      <4>3. QED
        BY <4>1, <4>2
    <3>5. idx[c][j] < mine
      BY <1>b, <3>2, <3>3, <3>4
    <3>6. mine + 2 * m - 2 <= idx[c][j] + 2 * Size(j) - 2
      BY <1>a, <1>b, <3>2, <3>3, <3>4
    <3>7. QED
      BY <1>d, <3>2, <3>5, <3>6
  <2>2. ASSUME NEW d \in Clients, NEW k \in Levels(d), NEW j \in 0..(k - 1)
        PROVE  idx'[d][j] < idx'[d][k] /\ idx'[d][k] + 2 * Size(k) - 2 <= idx'[d][j] + 2 * Size(j) - 2
    <3>1. j \in Levels(d)
      BY <1>7
    <3>2. QED
      BY <1>1, <1>8, <3>1 DEF Nested, Last
  <2>3. ASSUME NEW d \in Clients, NEW k \in Levels(d)', NEW j \in 0..(k - 1)
        PROVE  idx'[d][j] < idx'[d][k] /\ idx'[d][k] + 2 * Size(k) - 2 <= idx'[d][j] + 2 * Size(j) - 2
    <3>1. CASE d = c /\ k = l + 1
      <4>1. j \in 0..l
        BY <3>1
      <4>2. QED
        BY <1>d, <2>1, <3>1, <4>1
    <3>2. CASE k \in Levels(d)
      BY <2>2, <3>2
    <3>3. QED
      BY <1>6, <3>1, <3>2
  <2>4. QED
    BY <2>3 DEF Nested, Last, Size
<1>13. \A d, e \in Clients : \A k \in Levels(d) \cap Levels(e) :
         /\ SameAt(d, e, k)' = SameAt(d, e, k)
         /\ ApartAt(d, e, k)' = ApartAt(d, e, k)
  BY <1>8 DEF SameAt, ApartAt, Size
<1>14. \A d, e \in Clients : \A k \in Levels(d)' \cap Levels(e)' :
         \/ k \in Levels(d) \cap Levels(e)
         \/ k = l + 1 /\ l + 1 \notin Levels(d) \cap Levels(e)
  BY <1>6
<1>15. ASSUME NEW d \in Clients, NEW e \in Clients, l + 1 \in Levels(d)' \cap Levels(e)'
       PROVE  /\ l \in Levels(d) \cap Levels(e)
              /\ SameAt(d, e, l + 1)' \/ ApartAt(d, e, l + 1)'
              /\ ApartAt(d, e, l) => ApartAt(d, e, l + 1)' /\ ~SameAt(d, e, l + 1)'
              /\ SameAt(d, e, l) \/ ApartAt(d, e, l)
  <2>1. \A f \in {d, e} : l \in Levels(f) /\ l \in Iterations(f)'
    <3>1. \A f \in {d, e} : f \in Clients /\ l + 1 \in 0..level'[f] /\ level'[f] \in Nat
      BY <1>h, <1>15 DEF Levels
    <3>2. \A f \in {d, e} : l \in 0..level'[f] /\ l \in 0..(level'[f] - 1)
      BY <3>1
    <3>3. \A f \in {d, e} : l \in Levels(f)' /\ l \in Iterations(f)'
      BY <3>2 DEF Levels, Iterations
    <3>4. l # l + 1
      OBVIOUS
    <3>5. QED
      BY <1>6, <3>1, <3>3, <3>4
  <2>2. \A f \in {d, e} :
          Goes(idx[f][l], tmp_rank[f][l], m, idx'[f][l + 1], tmp_rank'[f][l + 1], get_idx'[f][l])
    <3>1. \A f \in {d, e} : Stepped(f, l)'
      BY <1>10, <2>1 DEF Iterated
    <3>2. QED
      BY <1>8, <2>1, <3>1 DEF Stepped, Size
  <2>3. SameAt(d, e, l) \/ ApartAt(d, e, l)
    BY <1>1, <2>1 DEF Pairs, SameOrApart
  <2>4. tmp_rank[d][l] < 2 * m /\ tmp_rank[e][l] < 2 * m
    BY <1>1, <1>a, <2>1 DEF InRange
  <2>5. d \in Nat /\ e \in Nat
    BY DEF Clients
  <2>6. ASSUME NEW f \in {d, e}
        PROVE  /\ idx[f][l] \in Nat /\ tmp_rank[f][l] \in Nat /\ get_idx'[f][l] \in Nat
               /\ idx'[f][l + 1] \in Nat /\ tmp_rank'[f][l + 1] \in Nat
    <3>1. /\ idx[f] \in [0..Depth -> Nat] /\ tmp_rank[f] \in [0..Depth -> Nat]
          /\ get_idx'[f] \in [0..(Depth - 1) -> Nat]
          /\ idx'[f] \in [0..Depth -> Nat] /\ tmp_rank'[f] \in [0..Depth -> Nat]
      BY <1>1, <1>d, <1>e, <1>g, f \in Clients DEF Shape
    <3>2. QED
      BY <1>a, <3>1
  <2> DEFINE i == idx[d][l]   s == tmp_rank[d][l]   i2 == idx'[d][l + 1]   s2 == tmp_rank'[d][l + 1]
             j == idx[e][l]   t == tmp_rank[e][l]   j2 == idx'[e][l + 1]   t2 == tmp_rank'[e][l + 1]
             k2 == get_idx'[d][l]   l2 == get_idx'[e][l]
  <2>7. /\ Same(d, s2, i2, e, t2, j2) \/ Apart(d, s2, i2, e, t2, j2, m)
        /\ ApartAt(d, e, l) => Apart(d, s2, i2, e, t2, j2, m) /\ ~Same(d, s2, i2, e, t2, j2)
    <3>1. Goes(i, s, m, i2, s2, k2) /\ Goes(j, t, m, j2, t2, l2)
      BY <2>2
    <3>2. /\ i \in Nat /\ s \in Nat /\ i2 \in Nat /\ s2 \in Nat /\ k2 \in Nat
          /\ j \in Nat /\ t \in Nat /\ j2 \in Nat /\ t2 \in Nat /\ l2 \in Nat
      BY <2>6
    <3>3. /\ Same(d, s, i, e, t, j) \/ Apart(d, s, i, e, t, j, 2 * m)
          /\ ApartAt(d, e, l) = Apart(d, s, i, e, t, j, 2 * m)
          /\ s < 2 * m /\ t < 2 * m
      BY <1>a, <2>3, <2>4 DEF SameAt, ApartAt
    <3>4. m \in Nat \ {0}
      BY <1>a
    <3> HIDE DEF m, i, j, s, t, i2, j2, s2, t2, k2, l2
    <3>5. QED
      BY <2>5, <3>1, <3>2, <3>3, <3>4, GoDown
  <2>8. QED
    BY <2>1, <2>3, <2>7 DEF SameAt, ApartAt, Size
<1>16. SameOrApart'
  <2>1. ASSUME NEW d \in Clients, NEW e \in Clients, NEW k \in Levels(d)' \cap Levels(e)'
        PROVE  SameAt(d, e, k)' \/ ApartAt(d, e, k)'
    <3>1. CASE k \in Levels(d) \cap Levels(e)
      BY <1>1, <1>13, <3>1 DEF Pairs, SameOrApart
    <3>2. CASE k = l + 1
      BY <1>15, <3>2
    <3>3. QED
      BY <1>14, <3>1, <3>2
  <2>2. QED
    BY <2>1 DEF SameOrApart
<1>17. StayApart'
  <2>1. ASSUME NEW d \in Clients, NEW e \in Clients, NEW k \in Levels(d) \cap Levels(e), NEW j \in 0..k, SameAt(d, e, k)
        PROVE  SameAt(d, e, j)'
    <3>1. j \in Levels(d) \cap Levels(e)
      BY <1>7
    <3>2. QED
      BY <1>1, <1>13, <2>1, <3>1 DEF Pairs, StayApart
  <2>2. ASSUME NEW d \in Clients, NEW e \in Clients, NEW k \in Levels(d)' \cap Levels(e)', NEW j \in 0..k, SameAt(d, e, k)'
        PROVE  SameAt(d, e, j)'
    <3>1. CASE k \in Levels(d) \cap Levels(e)
      BY <1>13, <2>1, <2>2, <3>1
    <3>2. CASE k = l + 1
      <4>1. SameAt(d, e, l) /\ l \in Levels(d) \cap Levels(e)
        BY <1>15, <2>2, <3>2
      <4>2. j = l + 1 \/ j \in 0..l
        BY <3>2
      <4>3. QED
        BY <2>1, <2>2, <3>2, <4>1, <4>2
    <3>3. QED
      BY <1>14, <3>1, <3>2
  <2>3. QED
    BY <2>2 DEF StayApart
<1>18. PartSomewhere'
  <2>1. ASSUME NEW d \in Clients, NEW e \in Clients, NEW k \in Levels(d) \cap Levels(e), ApartAt(d, e, k)
        PROVE  \E j \in 0..(k - 1) : SameAt(d, e, j)' /\ ApartAt(d, e, j + 1)'
    <3>1. PICK j \in 0..(k - 1) : SameAt(d, e, j) /\ ApartAt(d, e, j + 1)
      BY <1>1, <2>1 DEF Pairs, PartSomewhere
    <3>2. j \in Levels(d) \cap Levels(e) /\ j + 1 \in Levels(d) \cap Levels(e)
      BY <1>7
    <3>3. SameAt(d, e, j)' /\ ApartAt(d, e, j + 1)'
      BY <1>13, <3>1, <3>2
    <3>4. QED
      BY <3>3
  <2>2. ASSUME NEW d \in Clients, NEW e \in Clients, NEW k \in Levels(d)' \cap Levels(e)', ApartAt(d, e, k)'
        PROVE  \E j \in 0..(k - 1) : SameAt(d, e, j)' /\ ApartAt(d, e, j + 1)'
    <3>1. CASE k \in Levels(d) \cap Levels(e)
      BY <1>13, <2>1, <2>2, <3>1
    <3>2. CASE k = l + 1 /\ SameAt(d, e, l)
      <4>1. l \in Levels(d) \cap Levels(e) /\ l \in 0..(k - 1)
        BY <1>15, <2>2, <3>2
      <4>2. SameAt(d, e, l)' /\ ApartAt(d, e, l + 1)'
        BY <1>13, <2>2, <3>2, <4>1
      <4>3. QED
        BY <4>1, <4>2
    <3>3. CASE k = l + 1 /\ ApartAt(d, e, l)
      <4>1. PICK j \in 0..(l - 1) : SameAt(d, e, j)' /\ ApartAt(d, e, j + 1)'
        BY <1>15, <2>1, <2>2, <3>3
      <4>2. j \in 0..(k - 1)
        BY <3>3
      <4>3. QED
        BY <4>1, <4>2
    <3>4. QED
      BY <1>14, <1>15, <2>2, <3>1, <3>2, <3>3
  <2>3. QED
    BY <2>2 DEF PartSomewhere
<1>19. Selected'
  <2>1. ASSUME NEW d \in committed PROVE d \in Clients /\ d # c /\ (routine = "tree" => level[d] = Depth)
    BY <1>1, <1>b DEF Selected, Shape
  <2>2. ASSUME NEW d \in committed
        PROVE  /\ level'[d] = level[d] /\ acc_idx'[d] = acc_idx[d] /\ get_idx'[d] = get_idx[d]
               /\ acc_type'[d] = acc_type[d] /\ get_type'[d] = get_type[d]
    BY <1>c, <1>f, <1>g, <1>h, <2>1
  <2>3. QED
    BY <1>1, <1>c, <2>2 DEF Selected
<1>20. QED
  BY <1>5, <1>9, <1>10, <1>11, <1>12, <1>16, <1>17, <1>18, <1>19 DEF SetupInv, Paths, Pairs

LEMMA CommitInv ==
  ASSUME SetupInv, NEW c \in Clients, CommitTree(c) \/ CommitFlat(c)
  PROVE  SetupInv'
<1>n. Depth \in Nat /\ NProcs \in Nat
  BY SizesAssumption
<1> USE <1>n
<1>1. Shape /\ Paths /\ Pairs /\ Selected
  BY DEF SetupInv
<1>2. PICK acc \in SUBSET Nat, get \in SUBSET Nat :
        /\ Commit(c, acc, get)
        /\ \/ routine = "flat" /\ acc = {c} /\ get = 0..(c - 1) \cup (c + 1)..(NProcs - 1)
           \/ /\ routine = "tree" /\ level[c] = Depth
              /\ acc = {acc_idx[c][l] : l \in 0..(Depth - 1)}
              /\ get = {get_idx[c][l] : l \in 0..(Depth - 1)}
  <2>1. CASE CommitTree(c)
    <3>1. acc_idx[c] \in [0..(Depth - 1) -> Nat] /\ get_idx[c] \in [0..(Depth - 1) -> Nat]
      BY <1>1 DEF Shape
    <3>2. /\ {acc_idx[c][l] : l \in 0..(Depth - 1)} \in SUBSET Nat
          /\ {get_idx[c][l] : l \in 0..(Depth - 1)} \in SUBSET Nat
      BY <3>1
    <3>3. QED
      BY <2>1, <3>2 DEF CommitTree
  <2>2. CASE CommitFlat(c)
    <3>1. {c} \in SUBSET Nat /\ 0..(c - 1) \cup (c + 1)..(NProcs - 1) \in SUBSET Nat
      BY DEF Clients
    <3>2. QED
      BY <2>2, <3>1 DEF CommitFlat
  <2>3. QED
    BY <2>1, <2>2
<1>3. UNCHANGED <<routine, level, idx, tmp_rank, acc_idx, get_idx>>
  BY <1>2 DEF Commit
<1>4. Paths' /\ Pairs'
  BY <1>1, <1>3 DEF Paths, Starts, InRange, Iterated, Nested, Pairs, SameOrApart, StayApart, PartSomewhere,
                    Stepped, Levels, Iterations, SameAt, ApartAt, Last, Size
<1>5. Shape'
  BY <1>1, <1>2 DEF Commit, Shape
<1>6. Selected'
  <2>1. ASSUME NEW d \in committed
        PROVE  acc_type'[d] = acc_type[d] /\ get_type'[d] = get_type[d]
    BY <1>1, <1>2 DEF Commit, Shape
  <2>2. acc_type'[c] = acc /\ get_type'[c] = get
    BY <1>1, <1>2 DEF Commit, Shape
  <2>3. committed' = committed \cup {c}
    BY <1>2 DEF Commit
  <2>4. QED
    BY <1>1, <1>2, <1>3, <2>1, <2>2, <2>3 DEF Selected
<1>7. QED
  BY <1>4, <1>5, <1>6 DEF SetupInv

LEMMA SetupStutter == SetupInv /\ UNCHANGED setupVars => SetupInv'
<1> SUFFICES ASSUME SetupInv, UNCHANGED setupVars PROVE SetupInv'
  OBVIOUS
<1>1. /\ Shape /\ Paths /\ Pairs /\ Selected
      /\ UNCHANGED <<routine, level, idx, tmp_rank, acc_idx, get_idx, acc_type, get_type, committed>>
  BY DEF SetupInv, setupVars
<1>2. Paths' /\ Pairs'
  BY <1>1 DEF Paths, Starts, InRange, Iterated, Nested, Pairs, SameOrApart, StayApart, PartSomewhere,
              Stepped, Levels, Iterations, SameAt, ApartAt, Last, Size
<1>3. Shape' /\ Selected'
  BY <1>1 DEF Shape, Selected
<1>4. QED
  BY <1>2, <1>3 DEF SetupInv

LEMMA SetupStepInv == SetupInv /\ [SetupNext]_setupVars => SetupInv'
  BY DescendInv, CommitInv, SetupStutter DEF SetupNext, SetupStep
-----------------------------------------------------------------------------
\* Where the elements that a client on the leaf adds to and reads are.
LEMMA Inside ==
  ASSUME SetupInv, NEW c \in Clients, level[c] = Depth
  PROVE  /\ \A k \in 0..Depth : /\ idx[c][k] \in Nat /\ Size(k) \in Nat \ {0}
                                /\ Last(c, k) = idx[c][k] + 2 * Size(k) - 2 /\ Last(c, k) <= 2 * Pow[Depth] - 2
         /\ \A k \in 0..Depth : \A j \in 0..k : idx[c][j] <= idx[c][k] /\ Last(c, k) <= Last(c, j)
         /\ \A k \in 0..(Depth - 1) :
              /\ acc_idx[c][k] = idx[c][k + 1] /\ get_idx[c][k] \in Nat
              /\ idx[c][k] < get_idx[c][k] /\ get_idx[c][k] <= Last(c, k)
              /\ idx[c][k] < idx[c][k + 1]
              /\ get_idx[c][k] < idx[c][k + 1] \/ Last(c, k + 1) < get_idx[c][k]
<1>n. Depth \in Nat /\ Pow[Depth] \in Nat
  BY SizesAssumption
<1> USE <1>n
<1>1. Shape /\ Starts /\ InRange /\ Iterated /\ Nested
  BY DEF SetupInv, Paths
<1>2. Levels(c) = 0..Depth /\ Iterations(c) = 0..(Depth - 1)
  BY DEF Levels, Iterations
<1>3. ASSUME NEW k \in 0..Depth
      PROVE  idx[c][k] \in Nat /\ tmp_rank[c][k] \in Nat /\ Size(k) \in Nat \ {0} /\ Last(c, k) = idx[c][k] + 2 * Size(k) - 2
  <2>1. idx[c] \in [0..Depth -> Nat] /\ tmp_rank[c] \in [0..Depth -> Nat]
    BY <1>1 DEF Shape
  <2>2. QED
    BY <2>1, Sizes DEF Last
<1>4. ASSUME NEW k \in 0..Depth, NEW j \in 0..k
      PROVE  idx[c][j] <= idx[c][k] /\ Last(c, k) <= Last(c, j)
  <2>1. CASE j = k
    BY <1>3, <2>1
  <2>2. CASE j # k
    <3>1. j \in 0..(k - 1) /\ j \in 0..Depth
      BY <2>2
    <3>2. idx[c][j] < idx[c][k] /\ Last(c, k) <= Last(c, j)
      BY <1>1, <1>2, <3>1 DEF Nested
    <3>3. QED
      BY <1>3, <3>1, <3>2
  <2>3. QED
    BY <2>1, <2>2
<1>5. ASSUME NEW k \in 0..Depth
      PROVE  Last(c, k) <= 2 * Pow[Depth] - 2
  <2>1. Last(c, 0) = 2 * Pow[Depth] - 2 /\ 0 \in 0..k
    BY <1>1, <1>3, Sizes DEF Starts
  <2>2. QED
    BY <1>4, <2>1
<1>6. ASSUME NEW k \in 0..(Depth - 1)
      PROVE  /\ acc_idx[c][k] = idx[c][k + 1] /\ get_idx[c][k] \in Nat
             /\ idx[c][k] < get_idx[c][k] /\ get_idx[c][k] <= Last(c, k)
             /\ idx[c][k] < idx[c][k + 1]
             /\ get_idx[c][k] < idx[c][k + 1] \/ Last(c, k + 1) < get_idx[c][k]
  <2>1. k \in 0..Depth /\ k + 1 \in 0..Depth
    OBVIOUS
  <2>2. Stepped(c, k)
    BY <1>1, <1>2 DEF Iterated
  <2>3. get_idx[c][k] \in Nat
    <3>1. get_idx[c] \in [0..(Depth - 1) -> Nat]
      BY <1>1 DEF Shape
    <3>2. QED
      BY <3>1
  <2>4. Size(k) = 2 * Size(k + 1) /\ tmp_rank[c][k] < Size(k)
    BY <1>1, <1>2, <2>1, Sizes DEF InRange
  <2>5. QED
    BY <1>3, <2>1, <2>2, <2>3, <2>4 DEF Stepped, Goes
<1>7. QED
  BY <1>3, <1>4, <1>5, <1>6

\* A client reads exactly one of the elements that another adds to: the sibling
\* that it reads where the two part.
LEMMA TreesMeet ==
  ASSUME SetupInv, NEW c \in Clients, NEW d \in Clients, c # d, level[c] = Depth, level[d] = Depth
  PROVE  \E k \in 0..(Depth - 1) :
           /\ get_idx[c][k] = acc_idx[d][k]
           /\ \A i, j \in 0..(Depth - 1) : get_idx[c][i] = acc_idx[d][j] => i = k /\ j = k
<1>n. Depth \in Nat /\ c \in Nat /\ d \in Nat
  BY SizesAssumption DEF Clients
<1> USE <1>n
<1>1. Shape /\ InRange /\ Iterated /\ Pairs
  BY DEF SetupInv, Paths
<1>2. Levels(c) \cap Levels(d) = 0..Depth /\ Iterations(c) = 0..(Depth - 1) /\ Iterations(d) = 0..(Depth - 1)
  BY DEF Levels, Iterations
<1>3. \A k \in 0..Depth : tmp_rank[c][k] \in Nat /\ tmp_rank[d][k] \in Nat
  <2>1. tmp_rank[c] \in [0..Depth -> Nat] /\ tmp_rank[d] \in [0..Depth -> Nat]
    BY <1>1 DEF Shape
  <2>2. QED
    BY <2>1
<1>4. \A k \in 0..Depth : Size(k) \in Nat \ {0} /\ idx[c][k] \in Nat /\ idx[d][k] \in Nat
                         /\ Last(c, k) \in Int /\ Last(d, k) \in Int
  BY Inside
<1>5. ApartAt(c, d, Depth)
  <2>1. tmp_rank[c][Depth] = 0 /\ tmp_rank[d][Depth] = 0
    <3>1. tmp_rank[c][Depth] < 1 /\ tmp_rank[d][Depth] < 1
      BY <1>1, <1>2, Sizes DEF InRange, Levels
    <3>2. QED
      BY <1>3, <3>1
  <2>2. ~SameAt(c, d, Depth)
    BY <2>1 DEF SameAt, Same
  <2>3. QED
    BY <1>1, <1>2, <2>2 DEF Pairs, SameOrApart
<1>6. PICK k \in 0..(Depth - 1) : SameAt(c, d, k) /\ ApartAt(c, d, k + 1)
  BY <1>1, <1>2, <1>5 DEF Pairs, PartSomewhere
<1>7. \A j \in 0..Depth : ApartAt(c, d, j) => ~SameAt(c, d, j)
  BY <1>3, <1>4 DEF ApartAt, SameAt, Apart, Before, Same
<1>8. ASSUME NEW j \in 0..Depth
      PROVE  /\ j <= k => idx[c][j] = idx[d][j]
             /\ j > k => Last(c, j) < idx[d][j] \/ Last(d, j) < idx[c][j]
  <2>1. CASE j <= k
    <3>1. SameAt(c, d, j)
      BY <1>1, <1>2, <1>6, <2>1 DEF Pairs, StayApart
    <3>2. QED
      BY <2>1, <3>1 DEF SameAt, Same
  <2>2. CASE j > k
    <3>1. ~SameAt(c, d, j)
      <4>1. k + 1 \in 0..j /\ k + 1 \in 0..Depth
        BY <2>2
      <4>2. ~SameAt(c, d, k + 1)
        BY <1>6, <1>7, <4>1
      <4>3. QED
        BY <1>1, <1>2, <4>1, <4>2 DEF Pairs, StayApart
    <3>2. ApartAt(c, d, j)
      BY <1>1, <1>2, <3>1 DEF Pairs, SameOrApart
    <3>3. QED
      BY <2>2, <3>2 DEF ApartAt, Apart, Before, Last
  <2>3. QED
    BY <2>1, <2>2
<1>9. get_idx[c][k] = acc_idx[d][k]
  <2>1. Stepped(c, k) /\ Stepped(d, k)
    BY <1>1, <1>2 DEF Iterated
  <2>2. k \in 0..Depth /\ k + 1 \in 0..Depth
    OBVIOUS
  <2>3. ~SameAt(c, d, k + 1)
    BY <1>6, <1>7, <2>2
  <2>4. QED
    BY <1>3, <1>4, <1>6, <2>1, <2>2, <2>3 DEF Stepped, Goes, SameAt, Same
<1>10. ASSUME NEW i \in 0..(Depth - 1), NEW j \in 0..(Depth - 1), get_idx[c][i] = acc_idx[d][j]
       PROVE  i = k /\ j = k
  <2>1. i \in 0..Depth /\ j \in 0..Depth /\ i + 1 \in 0..Depth /\ j + 1 \in 0..Depth
    OBVIOUS
  <2> DEFINE g == get_idx[c][i]
             a == idx[d][j + 1]
  <2>2. g = a
    BY <1>10, Inside
  <2>3. /\ g \in Nat /\ idx[c][i] < g /\ g <= Last(c, i)
        /\ g < idx[c][i + 1] \/ Last(c, i + 1) < g
    BY Inside
  <2>4. /\ a <= Last(d, j + 1) /\ idx[d][j] < a /\ Last(d, j + 1) <= Last(d, j)
    <3>1. a <= Last(d, j + 1)
      BY <2>1, Inside
    <3>2. idx[d][j] < a
      BY Inside
    <3>3. j \in 0..(j + 1)
      OBVIOUS
    <3>4. QED
      BY <2>1, <3>1, <3>2, <3>3, Inside
  <2>5. CASE i = j
    <3>1. CASE i < k
      <4>1. idx[c][i + 1] = idx[d][i + 1] /\ Last(c, i + 1) = Last(d, i + 1)
        BY <1>8, <2>1, <3>1 DEF Last
      <4>2. QED
        BY <1>4, <2>1, <2>2, <2>3, <2>4, <2>5, <4>1
    <3>2. CASE i > k
      <4>1. Last(c, i) < idx[d][i] \/ Last(d, i) < idx[c][i]
        BY <1>8, <2>1, <3>2
      <4>2. QED
        BY <1>4, <2>1, <2>2, <2>3, <2>4, <2>5, <4>1
    <3>3. QED
      BY <2>5, <3>1, <3>2
  <2>6. CASE i < j
    <3>1. i + 1 \in 0..j /\ i \in 0..j
      BY <2>6
    <3>2. /\ idx[d][i + 1] <= idx[d][j] /\ Last(d, j) <= Last(d, i + 1)
          /\ idx[d][i] <= idx[d][j] /\ Last(d, j) <= Last(d, i)
      BY <2>1, <3>1, Inside
    <3>3. CASE i < k
      <4>1. idx[c][i + 1] = idx[d][i + 1] /\ Last(c, i + 1) = Last(d, i + 1)
        BY <1>8, <2>1, <3>3 DEF Last
      <4>2. QED
        BY <1>4, <2>1, <2>2, <2>3, <2>4, <3>2, <4>1
    <3>4. CASE i = k
      <4>1. g = idx[d][i + 1]
        BY <1>9, <3>4, Inside
      <4>2. QED
        BY <1>4, <2>1, <2>2, <2>4, <3>2, <4>1
    <3>5. CASE i > k
      <4>1. Last(c, i) < idx[d][i] \/ Last(d, i) < idx[c][i]
        BY <1>8, <2>1, <3>5
      <4>2. QED
        BY <1>4, <2>1, <2>2, <2>3, <2>4, <3>2, <4>1
    <3>6. QED
      BY <3>3, <3>4, <3>5
  <2>7. CASE i > j
    <3>1. j + 1 \in 0..i
      BY <2>7
    <3>2. idx[c][j + 1] <= idx[c][i] /\ Last(c, i) <= Last(c, j + 1)
      BY <2>1, <3>1, Inside
    <3>3. idx[c][j + 1] = a \/ Last(c, j + 1) < a \/ Last(d, j + 1) < idx[c][j + 1]
      BY <1>8, <2>1
    <3>4. QED
      BY <1>4, <2>1, <2>2, <2>3, <2>4, <3>2, <3>3
  <2>8. QED
    BY <2>5, <2>6, <2>7
<1>11. QED
  BY <1>9, <1>10

\* Nor does it read an element that it adds to itself.
LEMMA OwnTreeApart ==
  ASSUME SetupInv, NEW c \in Clients, level[c] = Depth
  PROVE  \A i, j \in 0..(Depth - 1) : get_idx[c][i] # acc_idx[c][j]
<1>n. Depth \in Nat
  BY SizesAssumption
<1> USE <1>n
<1> SUFFICES ASSUME NEW i \in 0..(Depth - 1), NEW j \in 0..(Depth - 1) PROVE get_idx[c][i] # acc_idx[c][j]
  OBVIOUS
<1>1. i \in 0..Depth /\ j \in 0..Depth /\ i + 1 \in 0..Depth /\ j + 1 \in 0..Depth
  OBVIOUS
<1>2. \A k \in 0..Depth : idx[c][k] \in Nat /\ Last(c, k) \in Int /\ idx[c][k] <= Last(c, k)
  BY Inside
<1>3. /\ acc_idx[c][j] = idx[c][j + 1] /\ get_idx[c][i] \in Nat /\ idx[c][i] < get_idx[c][i]
      /\ get_idx[c][i] < idx[c][i + 1] \/ Last(c, i + 1) < get_idx[c][i]
  BY Inside
<1>4. CASE i <= j
  <2>1. i + 1 \in 0..(j + 1)
    BY <1>4
  <2>2. idx[c][i + 1] <= idx[c][j + 1] /\ Last(c, j + 1) <= Last(c, i + 1)
    BY <1>1, <2>1, Inside
  <2>3. QED
    BY <1>1, <1>2, <1>3, <2>2
<1>5. CASE j < i
  <2>1. j + 1 \in 0..i
    BY <1>5
  <2>2. idx[c][j + 1] <= idx[c][i]
    BY <1>1, <2>1, Inside
  <2>3. QED
    BY <1>1, <1>2, <1>3, <2>2
<1>6. QED
  BY <1>4, <1>5

LEMMA SetupTypes == SetupInv => SetupTypeOK
<1> SUFFICES ASSUME SetupInv PROVE SetupTypeOK
  OBVIOUS
<1>n. Depth \in Nat /\ NProcs \in Nat /\ Pow[Depth] \in Nat /\ NProcs <= Pow[Depth]
  BY SizesAssumption
<1> USE <1>n
<1>1. Shape /\ Selected
  BY DEF SetupInv
<1>2. ASSUME NEW c \in committed
      PROVE  acc_type[c] \subseteq Window /\ get_type[c] \subseteq Window
  <2>1. c \in Clients
    BY <1>1 DEF Shape
  <2>2. CASE routine = "flat"
    <3>1. acc_type[c] = {c} /\ get_type[c] = 0..(c - 1) \cup (c + 1)..(NProcs - 1)
      BY <1>1, <2>2 DEF Selected
    <3>2. QED
      BY <2>1, <2>2, <3>1 DEF Window, Clients
  <2>3. CASE routine # "flat"
    <3>1. /\ level[c] = Depth
          /\ acc_type[c] = {acc_idx[c][l] : l \in 0..(Depth - 1)}
          /\ get_type[c] = {get_idx[c][l] : l \in 0..(Depth - 1)}
      BY <1>1, <2>3 DEF Selected
    <3>2. ASSUME NEW l \in 0..(Depth - 1)
          PROVE  acc_idx[c][l] \in Slots /\ get_idx[c][l] \in Slots
      <4>1. l \in 0..Depth /\ l + 1 \in 0..Depth
        OBVIOUS
      <4>2. /\ acc_idx[c][l] = idx[c][l + 1] /\ get_idx[c][l] \in Nat /\ get_idx[c][l] <= Last(c, l)
        BY <2>1, <3>1, Inside
      <4>3. /\ Last(c, l) \in Int /\ Last(c, l) <= 2 * Pow[Depth] - 2
            /\ idx[c][l + 1] \in Nat /\ idx[c][l + 1] <= 2 * Pow[Depth] - 2
        BY <2>1, <3>1, <4>1, Inside
      <4>4. QED
        BY <4>2, <4>3 DEF Slots
    <3>3. QED
      BY <2>3, <3>1, <3>2 DEF Window
  <2>4. QED
    BY <2>2, <2>3
<1>3. ASSUME NEW c \in Clients \ committed
      PROVE  acc_type[c] = {} /\ get_type[c] = {}
  BY <1>1 DEF Shape
<1>4. QED
  BY <1>1, <1>2, <1>3 DEF Shape, SetupTypeOK

LEMMA SetupMeets == SetupInv => MeetOnce
<1> SUFFICES ASSUME SetupInv, NEW c \in committed, NEW d \in committed
             PROVE  IF c = d THEN get_type[c] \cap acc_type[c] = {}
                             ELSE \E s \in Slots : get_type[c] \cap acc_type[d] = {s}
  BY DEF MeetOnce
<1>n. Depth \in Nat /\ NProcs \in Nat /\ Pow[Depth] \in Nat /\ NProcs <= Pow[Depth]
  BY SizesAssumption
<1> USE <1>n
<1>1. c \in Clients /\ d \in Clients /\ Selected
  BY DEF SetupInv, Shape
<1>2. CASE routine = "flat"
  <2>1. get_type[c] = 0..(c - 1) \cup (c + 1)..(NProcs - 1) /\ acc_type[c] = {c} /\ acc_type[d] = {d}
    BY <1>1, <1>2 DEF Selected
  <2>2. d \in Slots
    BY <1>1 DEF Clients, Slots
  <2>3. c = d => get_type[c] \cap acc_type[c] = {}
    BY <1>1, <2>1 DEF Clients
  <2>4. c # d => get_type[c] \cap acc_type[d] = {d}
    BY <1>1, <2>1 DEF Clients
  <2>5. QED
    BY <2>2, <2>3, <2>4
<1>3. CASE routine # "flat"
  <2>1. /\ level[c] = Depth /\ level[d] = Depth
        /\ get_type[c] = {get_idx[c][l] : l \in 0..(Depth - 1)}
        /\ acc_type[c] = {acc_idx[c][l] : l \in 0..(Depth - 1)}
        /\ acc_type[d] = {acc_idx[d][l] : l \in 0..(Depth - 1)}
    BY <1>1, <1>3 DEF Selected
  <2>2. CASE c = d
    <3>1. get_type[c] \cap acc_type[c] = {}
      BY <1>1, <2>1, OwnTreeApart
    <3>2. QED
      BY <2>2, <3>1
  <2>3. CASE c # d
    <3>1. PICK k \in 0..(Depth - 1) :
            /\ get_idx[c][k] = acc_idx[d][k]
            /\ \A i, j \in 0..(Depth - 1) : get_idx[c][i] = acc_idx[d][j] => i = k /\ j = k
      BY <1>1, <2>1, <2>3, TreesMeet
    <3>2. get_type[c] \cap acc_type[d] = {get_idx[c][k]}
      BY <2>1, <3>1
    <3>3. get_idx[c][k] \in Slots
      <4>1. SetupTypeOK
        BY SetupTypes
      <4>2. get_type[c] \subseteq Slots
        BY <1>1, <1>3, <4>1 DEF SetupTypeOK, Window
      <4>3. QED
        BY <2>1, <4>2
    <3>4. QED
      BY <2>3, <3>2, <3>3
  <2>4. QED
    BY <2>2, <2>3
<1>4. QED
  BY <1>2, <1>3
-----------------------------------------------------------------------------
(***************************************************************************)
(* The epochs.                                                             *)
(***************************************************************************)
\* One member for every unit that f has on S.
Units(f, S) == UNION {{s} \X (1..f[s]) : s \in S}

\* What the epoch under way has added so far.
Added == IF lock = Nobody THEN {} ELSE acc_type[lock] \ toAdd

Rest ==
  /\ phase \in {"setup", "counting", "freed", "checked"}
  /\ counter_mem \in [Slots -> Nat]
  /\ lock \in Clients \cup {Nobody}
  /\ pc \in [Clients -> {"idle", "epoch", "unlocked"}]
  /\ got \in [Clients -> [Slots -> Nat]]
  /\ localvalue \in [Clients -> 0..NTIMES]
  /\ counter_vals \in [Clients -> [Calls -> Nat]]
  /\ errs \in Nat

\* Nobody counts before the window exists, and everybody has committed then.
Phases ==
  /\ phase = "setup" => /\ lock = Nobody
                        /\ \A s \in Slots : counter_mem[s] = 0
                        /\ \A c \in Clients : pc[c] = "idle" /\ localvalue[c] = 0
  /\ phase # "setup" => committed = Clients

\* The epoch is the lock holder's, and accesses what its datatypes select.
Epochs ==
  /\ \A c \in Clients : pc[c] = "epoch" <=> lock = c
  /\ \A c \in Clients : pc[c] # "idle" => localvalue[c] < NTIMES
  /\ lock = Nobody => toAdd = {} /\ toGet = {}
  /\ lock # Nobody => toAdd \subseteq acc_type[lock] /\ toGet \subseteq get_type[lock]

\* What has been read in the epoch has not changed since.
Fresh == lock # Nobody => \A s \in get_type[lock] \ toGet : got[lock][s] = counter_mem[s]

\* What the clients could read, with their own calls, is the number of epochs
\* so far, and one more where the epoch under way has added.
Balance ==
  phase # "setup" =>
    \A c \in Clients :
      Done(c) + SumOver(counter_mem, get_type[c]) = Cardinality(Given) + Cardinality(get_type[c] \cap Added)

CountInv ==
  SetupInv /\ Rest /\ Phases /\ Epochs /\ Fresh /\ IsFiniteSet(Given) /\ Balance
-----------------------------------------------------------------------------
LEMMA FiniteUnits ==
  ASSUME NEW f, NEW S, IsFiniteSet(S), \A s \in S : f[s] \in Nat
  PROVE  /\ IsFiniteSet(Units(f, S))
         /\ SumOver(f, S) = Cardinality(Units(f, S)) /\ SumOver(f, S) \in Nat
<1> DEFINE g == [s \in S |-> {s} \X (1..f[s])]
           T == {{s} \X (1..f[s]) : s \in S}
<1>1. g \in Surjection(S, T)
  BY DEF Surjection
<1>2. IsFiniteSet(T)
  BY <1>1, FS_Surjection
<1>3. ASSUME NEW s \in S PROVE IsFiniteSet({s} \X (1..f[s]))
  <2>1. IsFiniteSet({s}) /\ IsFiniteSet(1..f[s])
    <3>1. 1 \in Int /\ f[s] \in Int
      OBVIOUS
    <3>2. QED
      BY <3>1, FS_Singleton, FS_Interval
  <2>2. QED
    BY <2>1, FS_Product
<1>4. IsFiniteSet(UNION T)
  BY <1>2, <1>3, FS_UNION
<1>5. QED
  BY <1>4, FS_CardinalityType DEF Units, SumOver

\* One unit more, and none.
LEMMA OneMore ==
  ASSUME NEW f \in [Slots -> Nat], NEW s \in Slots, NEW S \in SUBSET Slots, IsFiniteSet(S),
         NEW g \in [Slots -> Nat], g[s] = f[s] + 1, \A r \in Slots : r # s => g[r] = f[r]
  PROVE  SumOver(g, S) = SumOver(f, S) + (IF s \in S THEN 1 ELSE 0)
<1>1. IsFiniteSet(Units(f, S)) /\ SumOver(f, S) = Cardinality(Units(f, S)) /\ SumOver(f, S) \in Nat
  BY FiniteUnits
<1>2. SumOver(g, S) = Cardinality(Units(g, S))
  BY DEF SumOver, Units
<1>3. CASE s \in S
  <2>1. Units(g, S) = Units(f, S) \cup {<<s, f[s] + 1>>}
    <3>1. 1..(f[s] + 1) = 1..f[s] \cup {f[s] + 1}
      OBVIOUS
    <3>2. \A r \in S : g[r] = IF r = s THEN f[s] + 1 ELSE f[r]
      OBVIOUS
    <3>3. QED
      BY <1>3, <3>1, <3>2 DEF Units
  <2>2. <<s, f[s] + 1>> \notin Units(f, S)
    BY DEF Units
  <2>3. Cardinality(Units(f, S) \cup {<<s, f[s] + 1>>}) = Cardinality(Units(f, S)) + 1
    BY <1>1, <2>2, FS_AddElement
  <2>4. QED
    BY <1>1, <1>2, <1>3, <2>1, <2>3
<1>4. CASE s \notin S
  <2>1. Units(g, S) = Units(f, S)
    BY <1>4 DEF Units
  <2>2. QED
    BY <1>1, <1>2, <1>4, <2>1
<1>5. QED
  BY <1>3, <1>4

LEMMA NoUnits ==
  ASSUME NEW f, NEW S, \A s \in S : f[s] = 0
  PROVE  SumOver(f, S) = 0
<1>1. Units(f, S) = {}
  BY DEF Units
<1>2. QED
  BY <1>1, FS_EmptySet DEF SumOver, Units

LEMMA SameUnits ==
  ASSUME NEW f, NEW g, NEW S, \A s \in S : f[s] = g[s]
  PROVE  SumOver(f, S) = SumOver(g, S)
<1>1. {{s} \X (1..f[s]) : s \in S} = {{s} \X (1..g[s]) : s \in S}
  OBVIOUS
<1>2. QED
  BY <1>1 DEF SumOver

LEMMA FiniteSlots ==
  /\ IsFiniteSet(Slots)
  /\ \A S \in SUBSET Slots : IsFiniteSet(S) /\ Cardinality(S) \in Nat
<1>1. IsFiniteSet(Slots)
  <2>1. 2 * Pow[Depth] - 1 \in Int
    BY SizesAssumption
  <2>2. QED
    BY <2>1, FS_Interval DEF Slots
<1>2. QED
  BY <1>1, FS_Subset, FS_CardinalityType
-----------------------------------------------------------------------------
LEMMA Elements ==
  ASSUME CountInv
  PROVE  \A c \in Clients : /\ acc_type[c] \subseteq Slots /\ get_type[c] \subseteq Slots
                            /\ phase # "setup" => get_type[c] \cap acc_type[c] = {}
<1>1. SetupTypeOK /\ MeetOnce
  BY SetupTypes, SetupMeets DEF CountInv
<1>2. Window \subseteq Slots
  <2>1. NProcs \in Nat /\ Pow[Depth] \in Nat /\ NProcs <= Pow[Depth]
    BY SizesAssumption
  <2>2. QED
    BY <2>1 DEF Window, Slots
<1>3. QED
  BY <1>1, <1>2 DEF SetupTypeOK, MeetOnce, CountInv, Phases

\* A step that neither ends an epoch nor touches what a client has obtained.
LEMMA QuietStep ==
  ASSUME Rest, UNCHANGED callVars,
         \A c \in Clients : /\ pc'[c] = "unlocked" <=> pc[c] = "unlocked"
                            /\ pc[c] = "unlocked" => got'[c] = got[c] /\ get_type'[c] = get_type[c]
  PROVE  Given' = Given /\ \A c \in Clients : Done(c)' = Done(c)
<1>0. localvalue' = localvalue /\ counter_vals' = counter_vals
  BY DEF callVars
<1>1. ASSUME NEW c \in Clients PROVE Done(c)' = Done(c)
  BY <1>0 DEF Done
<1>2. ASSUME NEW c \in Clients, NEW i \in 1..Done(c)
      PROVE  Number(c, i)' = Number(c, i)
  <2>1. CASE i <= localvalue[c]
    BY <1>0, <2>1 DEF Number
  <2>2. CASE ~(i <= localvalue[c])
    <3>1. pc[c] = "unlocked"
      BY <2>2 DEF Done, Rest
    <3>2. got'[c] = got[c] /\ get_type'[c] = get_type[c]
      BY <3>1
    <3>3. Value(c)' = Value(c)
      BY <1>0, <3>2 DEF Value, SumOver
    <3>4. QED
      BY <1>0, <2>2, <3>3 DEF Number
  <2>3. QED
    BY <2>1, <2>2
<1>3. ASSUME NEW c \in Clients
      PROVE  {<<Number(c, i), c, i>> : i \in 1..Done(c)}' = {<<Number(c, i), c, i>> : i \in 1..Done(c)}
  BY <1>1, <1>2
<1>4. Given' = Given
  BY <1>3 DEF Given
<1>5. QED
  BY <1>1, <1>4

\* Before the window exists nothing has been counted.
LEMMA NothingGiven ==
  ASSUME \A c \in Clients : Done(c) = 0
  PROVE  Given = {} /\ IsFiniteSet(Given) /\ Cardinality(Given) = 0
<1>1. Given = {}
  BY DEF Given
<1>2. QED
  BY <1>1, FS_EmptySet

LEMMA InitCount == Init => CountInv
<1> SUFFICES ASSUME Init PROVE CountInv
  OBVIOUS
<1> USE CallsAssumption
<1>1. SetupInv
  BY InitInv DEF Init
<1>2. Rest
  BY DEF Init, Rest, Calls, Nobody
<1>3. Nobody \notin Clients
  BY SizesAssumption DEF Nobody, Clients
<1>4. Phases /\ Epochs /\ Fresh /\ Balance
  BY <1>3 DEF Init, Phases, Epochs, Fresh, Balance
<1>5. \A c \in Clients : Done(c) = 0
  BY DEF Init, Done
<1>6. QED
  BY <1>1, <1>2, <1>4, <1>5, NothingGiven DEF CountInv

LEMMA SetupCount ==
  ASSUME CountInv, Setup
  PROVE  CountInv' /\ Given' = Given /\ \A d \in Clients : Done(d)' = Done(d)
<1>1. /\ phase = "setup" /\ UNCHANGED <<phase, counter_mem, lock, toAdd, toGet, pc, got, localvalue, counter_vals, errs>>
      /\ SetupInv' /\ Rest /\ Phases /\ Epochs /\ Fresh
  BY SetupStepInv DEF Setup, epochVars, callVars, CountInv
<1>2. \A c \in Clients : Done(c) = 0 /\ Done(c)' = 0
  BY <1>1 DEF Phases, Done
<1>3. Given = {} /\ Given' = {}
  BY <1>2 DEF Given
<1>4. Rest'
  BY <1>1 DEF Rest
<1>5. Phases' /\ Epochs' /\ Fresh'
  BY <1>1 DEF Phases, Epochs, Fresh
<1>6. Balance'
  BY <1>1 DEF Balance
<1>7. QED
  BY <1>1, <1>2, <1>3, <1>4, <1>5, <1>6, FS_EmptySet DEF CountInv

LEMMA WinCreateCount ==
  ASSUME CountInv, WinCreate
  PROVE  CountInv' /\ Given' = Given /\ \A d \in Clients : Done(d)' = Done(d)
<1>1. /\ phase = "setup" /\ committed = Clients /\ phase' = "counting"
      /\ UNCHANGED <<setupVars, counter_mem, lock, toAdd, toGet, pc, got, localvalue, counter_vals, errs>>
      /\ Rest /\ Phases /\ Epochs /\ Fresh
  BY DEF WinCreate, epochVars, callVars, CountInv
<1>2. SetupInv' /\ committed' = Clients /\ acc_type' = acc_type /\ get_type' = get_type
  BY <1>1, SetupStutter DEF setupVars, CountInv
<1>3. \A c \in Clients : Done(c) = 0 /\ Done(c)' = 0
  BY <1>1 DEF Phases, Done
<1>4. Given = {} /\ Given' = {}
  BY <1>3 DEF Given
<1>5. Rest' /\ Phases' /\ Epochs' /\ Fresh'
  BY <1>1, <1>2 DEF Rest, Phases, Epochs, Fresh
<1>6. Balance'
  <2>1. ASSUME NEW c \in Clients
        PROVE  (Done(c) + SumOver(counter_mem, get_type[c]) = Cardinality(Given) + Cardinality(get_type[c] \cap Added))'
    <3>1. Added' = {}
      BY <1>1 DEF Phases, Added
    <3>2. \A s \in get_type'[c] : counter_mem'[s] = 0
      BY <1>1, <1>2, Elements DEF Phases
    <3>3. SumOver(counter_mem', get_type'[c]) = 0
      BY <3>2, NoUnits
    <3>4. Cardinality(Given') = 0 /\ Cardinality(get_type'[c] \cap Added') = 0
      BY <1>4, <3>1, FS_EmptySet
    <3>5. QED
      BY <1>3, <3>3, <3>4 DEF SumOver
  <2>2. QED
    BY <2>1 DEF Balance
<1>7. QED
  BY <1>2, <1>3, <1>4, <1>5, <1>6, FS_EmptySet DEF CountInv

LEMMA LockCount ==
  ASSUME CountInv, NEW c \in Clients, Lock(c)
  PROVE  CountInv' /\ Given' = Given /\ \A d \in Clients : Done(d)' = Done(d)
<1>1. /\ phase = "counting" /\ pc[c] = "idle" /\ localvalue[c] < NTIMES /\ lock = Nobody
      /\ lock' = c /\ pc' = [pc EXCEPT ![c] = "epoch"] /\ toAdd' = acc_type[c] /\ toGet' = get_type[c]
      /\ UNCHANGED <<setupVars, phase, counter_mem, got, localvalue, counter_vals, errs>>
      /\ Rest /\ Phases /\ Epochs /\ Balance
  BY DEF Lock, callVars, CountInv
<1>2. SetupInv' /\ UNCHANGED <<committed, acc_type, get_type>>
  BY <1>1, SetupStutter DEF setupVars, CountInv
<1>3. Given' = Given /\ \A d \in Clients : Done(d)' = Done(d)
  BY <1>1, <1>2, QuietStep DEF Rest, callVars
<1>4. Rest' /\ Phases'
  BY <1>1, <1>2 DEF Rest, Phases
<1>5. Nobody \notin Clients
  BY SizesAssumption DEF Nobody, Clients
<1>6. Epochs' /\ Fresh'
  BY <1>1, <1>2, <1>5 DEF Epochs, Fresh, Rest
<1>7. Added = {} /\ Added' = {}
  BY <1>1, <1>2, <1>5 DEF Added
<1>8. Balance'
  BY <1>1, <1>2, <1>3, <1>7 DEF Balance, SumOver
<1>9. QED
  BY <1>2, <1>3, <1>4, <1>6, <1>8 DEF CountInv

LEMMA AddOneCount ==
  ASSUME CountInv, NEW s \in Slots, AddOne(s)
  PROVE  CountInv' /\ Given' = Given /\ \A d \in Clients : Done(d)' = Done(d)
<1>1. /\ s \in toAdd /\ counter_mem' = [counter_mem EXCEPT ![s] = @ + 1] /\ toAdd' = toAdd \ {s}
      /\ UNCHANGED <<setupVars, phase, lock, toGet, pc, got, localvalue, counter_vals, errs>>
      /\ Rest /\ Phases /\ Epochs /\ Fresh /\ Balance
  BY DEF AddOne, callVars, CountInv
<1>2. SetupInv' /\ UNCHANGED <<committed, acc_type, get_type>>
  BY <1>1, SetupStutter DEF setupVars, CountInv
<1>3. Given' = Given /\ \A d \in Clients : Done(d)' = Done(d)
  BY <1>1, <1>2, QuietStep DEF callVars
<1>4. lock \in Clients /\ lock # Nobody /\ phase # "setup" /\ s \in acc_type[lock]
  BY <1>1 DEF Rest, Phases, Epochs
<1>5. counter_mem' \in [Slots -> Nat] /\ \A r \in Slots : r # s => counter_mem'[r] = counter_mem[r]
  BY <1>1 DEF Rest
<1>6. Rest' /\ Phases' /\ Epochs'
  BY <1>1, <1>2, <1>4, <1>5 DEF Rest, Phases, Epochs
<1>7. Fresh'
  <2>1. get_type[lock] \subseteq Slots /\ s \notin get_type[lock]
    BY <1>4, Elements
  <2>2. QED
    BY <1>1, <1>2, <1>5, <2>1 DEF Fresh
<1>8. Balance'
  <2>1. ASSUME NEW d \in Clients
        PROVE  (Done(d) + SumOver(counter_mem, get_type[d]) = Cardinality(Given) + Cardinality(get_type[d] \cap Added))'
    <3>1. get_type[d] \in SUBSET Slots /\ IsFiniteSet(get_type[d])
      BY Elements, FiniteSlots
    <3>2. SumOver(counter_mem', get_type[d]) = SumOver(counter_mem, get_type[d]) + (IF s \in get_type[d] THEN 1 ELSE 0)
      <4>1. counter_mem \in [Slots -> Nat] /\ counter_mem'[s] = counter_mem[s] + 1
        BY <1>1 DEF Rest
      <4>2. QED
        BY <1>5, <3>1, <4>1, OneMore
    <3>3. SumOver(counter_mem, get_type[d]) \in Nat
      BY <1>1, <3>1, FiniteUnits DEF Rest
    <3>4. Added' = Added \cup {s} /\ s \notin Added
      BY <1>1, <1>2, <1>4 DEF Added
    <3>5. Cardinality(get_type[d] \cap Added') = Cardinality(get_type[d] \cap Added) + (IF s \in get_type[d] THEN 1 ELSE 0)
      <4>1. IsFiniteSet(get_type[d] \cap Added) /\ Cardinality(get_type[d] \cap Added) \in Nat
        BY <3>1, FiniteSlots
      <4>2. CASE s \in get_type[d]
        <5>1. get_type[d] \cap Added' = (get_type[d] \cap Added) \cup {s} /\ s \notin get_type[d] \cap Added
          BY <3>4, <4>2
        <5>2. Cardinality((get_type[d] \cap Added) \cup {s}) = Cardinality(get_type[d] \cap Added) + 1
          BY <4>1, <5>1, FS_AddElement
        <5>3. QED
          BY <4>2, <5>1, <5>2
      <4>3. CASE s \notin get_type[d]
        <5>1. get_type[d] \cap Added' = get_type[d] \cap Added
          BY <3>4, <4>3
        <5>2. QED
          BY <4>1, <4>3, <5>1
      <4>4. QED
        BY <4>2, <4>3
    <3>6. Done(d) + SumOver(counter_mem, get_type[d]) = Cardinality(Given) + Cardinality(get_type[d] \cap Added)
      BY <1>1, <1>4 DEF Balance
    <3>7. Done(d) \in Nat /\ Cardinality(Given) \in Nat /\ Cardinality(get_type[d] \cap Added) \in Nat
      BY <1>1, <3>1, FiniteSlots, FS_CardinalityType DEF CountInv, Rest, Done
    <3>8. Done(d) + SumOver(counter_mem', get_type[d]) = Cardinality(Given) + Cardinality(get_type[d] \cap Added')
      BY <3>2, <3>3, <3>5, <3>6, <3>7
    <3>9. QED
      BY <1>2, <1>3, <3>8 DEF SumOver
  <2>2. QED
    BY <2>1 DEF Balance
<1>9. QED
  BY <1>2, <1>3, <1>6, <1>7, <1>8 DEF CountInv

LEMMA ReadCount ==
  ASSUME CountInv, NEW s \in Slots, Read(s)
  PROVE  CountInv' /\ Given' = Given /\ \A d \in Clients : Done(d)' = Done(d)
<1>1. /\ s \in toGet /\ got' = [got EXCEPT ![lock][s] = counter_mem[s]] /\ toGet' = toGet \ {s}
      /\ UNCHANGED <<setupVars, phase, counter_mem, lock, toAdd, pc, localvalue, counter_vals, errs>>
      /\ Rest /\ Phases /\ Epochs /\ Fresh /\ Balance
  BY DEF Read, callVars, CountInv
<1>2. SetupInv' /\ UNCHANGED <<committed, acc_type, get_type>>
  BY <1>1, SetupStutter DEF setupVars, CountInv
<1>3. lock \in Clients /\ lock # Nobody /\ pc[lock] = "epoch"
  BY <1>1 DEF Rest, Epochs
<1>4. /\ got' \in [Clients -> [Slots -> Nat]] /\ got'[lock][s] = counter_mem[s]
      /\ \A r \in Slots : r # s => got'[lock][r] = got[lock][r]
      /\ \A d \in Clients : d # lock => got'[d] = got[d]
  <2>1. counter_mem[s] \in Nat /\ got \in [Clients -> [Slots -> Nat]]
    BY <1>1 DEF Rest
  <2>2. QED
    BY <1>1, <1>3, <2>1, Update
<1>5. Given' = Given /\ \A d \in Clients : Done(d)' = Done(d)
  BY <1>1, <1>2, <1>3, <1>4, QuietStep DEF callVars
<1>6. Rest' /\ Phases' /\ Epochs'
  BY <1>1, <1>2, <1>3, <1>4 DEF Rest, Phases, Epochs
<1>7. Fresh'
  <2>1. get_type[lock] \subseteq Slots
    BY <1>3, Elements
  <2>2. QED
    BY <1>1, <1>2, <1>4, <2>1 DEF Fresh
<1>8. Balance'
  <2>1. Added' = Added
    BY <1>1, <1>2 DEF Added
  <2>2. QED
    BY <1>1, <1>2, <1>5, <2>1 DEF Balance, SumOver
<1>9. QED
  BY <1>2, <1>5, <1>6, <1>7, <1>8 DEF CountInv

\* The call whose epoch ends gets the number of the epochs before it.
LEMMA UnlockCount ==
  ASSUME CountInv, NEW c \in Clients, Unlock(c)
  PROVE  /\ CountInv'
         /\ Given' = Given \cup {<<Cardinality(Given), c, Done(c) + 1>>}
         /\ Done(c)' = Done(c) + 1
         /\ \A d \in Clients : d # c => Done(d)' = Done(d)
<1>1. /\ lock = c /\ toAdd = {} /\ toGet = {} /\ lock' = Nobody /\ pc' = [pc EXCEPT ![c] = "unlocked"]
      /\ UNCHANGED <<setupVars, phase, counter_mem, toAdd, toGet, got, localvalue, counter_vals, errs>>
      /\ Rest /\ Phases /\ Epochs /\ Fresh /\ Balance
  BY DEF Unlock, callVars, CountInv
<1>2. SetupInv' /\ UNCHANGED <<committed, acc_type, get_type>>
  BY <1>1, SetupStutter DEF setupVars, CountInv
<1>3. Nobody \notin Clients /\ c # Nobody
  BY SizesAssumption DEF Nobody, Clients
<1>4. pc[c] = "epoch" /\ localvalue[c] \in Nat /\ localvalue[c] < NTIMES /\ phase # "setup"
  BY <1>1, <1>3, CallsAssumption DEF Epochs, Rest, Phases
<1>5. /\ Done(c) = localvalue[c] /\ Done(c)' = Done(c) + 1
      /\ \A d \in Clients : d # c => Done(d)' = Done(d)
      /\ \A d \in Clients : Done(d) \in Nat
  BY <1>1, <1>4 DEF Done, Rest
<1>6. Value(c) = Cardinality(Given) /\ Cardinality(Given) \in Nat
  <2>1. Added = acc_type[c] /\ get_type[c] \cap Added = {}
    BY <1>1, <1>3, <1>4, Elements DEF Added
  <2>2. Done(c) + SumOver(counter_mem, get_type[c]) = Cardinality(Given) + 0
    BY <1>1, <1>4, <2>1, FS_EmptySet DEF Balance
  <2>3. \A s \in get_type[c] : got[c][s] = counter_mem[s]
    BY <1>1, <1>3 DEF Fresh
  <2>4. SumOver(got[c], get_type[c]) = SumOver(counter_mem, get_type[c])
    BY <2>3, SameUnits
  <2>5. Cardinality(Given) \in Nat
    BY FS_CardinalityType DEF CountInv
  <2>6. QED
    BY <1>5, <2>2, <2>4, <2>5 DEF Value
<1>7. ASSUME NEW d \in Clients, NEW i \in 1..Done(d)
      PROVE  Number(d, i)' = Number(d, i)
  BY <1>1, <1>2 DEF Number, Value, SumOver
<1>8. ASSUME NEW i, i = Done(c) + 1 PROVE Number(c, i)' = Cardinality(Given)
  BY <1>1, <1>2, <1>4, <1>5, <1>6, <1>8 DEF Number, Value, SumOver
<1>9. Given' = Given \cup {<<Cardinality(Given), c, Done(c) + 1>>}
  <2>1. ASSUME NEW d \in Clients, d # c
        PROVE  {<<Number(d, i), d, i>> : i \in 1..Done(d)}' = {<<Number(d, i), d, i>> : i \in 1..Done(d)}
    BY <1>5, <1>7, <2>1
  <2>2. {<<Number(c, i), c, i>> : i \in 1..Done(c)}'
          = {<<Number(c, i), c, i>> : i \in 1..Done(c)} \cup {<<Cardinality(Given), c, Done(c) + 1>>}
    <3>1. 1..(Done(c) + 1) = 1..Done(c) \cup {Done(c) + 1}
      BY <1>5
    <3>2. PICK n : n = [i \in 1..(Done(c) + 1) |-> IF i = Done(c) + 1 THEN Cardinality(Given) ELSE Number(c, i)]
      OBVIOUS
    <3>3. n[Done(c) + 1] = Cardinality(Given) /\ \A i \in 1..Done(c) : n[i] = Number(c, i)
      <4>1. Done(c) + 1 \in 1..(Done(c) + 1) /\ \A i \in 1..Done(c) : i \in 1..(Done(c) + 1) /\ i # Done(c) + 1
        BY <1>5
      <4>2. QED
        BY <3>2, <4>1
    <3>4. ASSUME NEW i \in 1..(Done(c) + 1) PROVE Number(c, i)' = n[i]
      <4>1. CASE i = Done(c) + 1
        BY <1>8, <3>3, <4>1
      <4>2. CASE i \in 1..Done(c)
        BY <1>7, <3>3, <4>2
      <4>3. QED
        BY <3>1, <4>1, <4>2
    <3>5. {<<Number(c, i), c, i>> : i \in 1..Done(c)}' = {<<n[i], c, i>> : i \in 1..(Done(c) + 1)}
      BY <1>5, <3>4
    <3>6. {<<Number(c, i), c, i>> : i \in 1..Done(c)} = {<<n[i], c, i>> : i \in 1..Done(c)}
      BY <3>3
    <3>7. QED
      BY <3>1, <3>3, <3>5, <3>6
  <2>3. QED
    BY <2>1, <2>2 DEF Given
<1>10. <<Cardinality(Given), c, Done(c) + 1>> \notin Given
  <2>1. ASSUME NEW d \in Clients, NEW i \in 1..Done(d)
        PROVE  <<Number(d, i), d, i>> # <<Cardinality(Given), c, Done(c) + 1>>
    BY <1>5
  <2>2. QED
    BY <2>1 DEF Given
<1>11. IsFiniteSet(Given') /\ Cardinality(Given') = Cardinality(Given) + 1
  BY <1>9, <1>10, FS_AddElement DEF CountInv
<1>12. Rest' /\ Phases' /\ Epochs' /\ Fresh'
  BY <1>1, <1>2, <1>3, <1>4 DEF Rest, Phases, Epochs, Fresh
<1>13. Balance'
  <2>1. ASSUME NEW d \in Clients
        PROVE  Done(d)' + SumOver(counter_mem, get_type[d]) = Cardinality(Given) + 1
    <3>1. Done(d) + SumOver(counter_mem, get_type[d]) = Cardinality(Given) + Cardinality(get_type[d] \cap acc_type[c])
      BY <1>1, <1>3, <1>4 DEF Balance, Added
    <3>2. SumOver(counter_mem, get_type[d]) \in Nat
      BY <1>1, Elements, FiniteSlots, FiniteUnits DEF Rest
    <3>3. MeetOnce /\ committed = Clients
      BY <1>1, <1>4, SetupMeets DEF CountInv, Phases
    <3>4. CASE d = c
      <4>1. get_type[d] \cap acc_type[c] = {}
        BY <3>3, <3>4 DEF MeetOnce
      <4>2. Cardinality(get_type[d] \cap acc_type[c]) = 0
        BY <4>1, FS_EmptySet
      <4>3. Done(d)' = Done(d) + 1 /\ Done(d) \in Nat
        BY <1>5, <3>4
      <4>4. QED
        BY <1>6, <3>1, <3>2, <4>2, <4>3
    <3>5. CASE d # c
      <4>1. \E s \in Slots : get_type[d] \cap acc_type[c] = {s}
        BY <3>3, <3>5 DEF MeetOnce
      <4>2. Cardinality(get_type[d] \cap acc_type[c]) = 1
        BY <4>1, FS_Singleton
      <4>3. QED
        BY <1>5, <3>1, <3>5, <4>2
    <3>6. QED
      BY <3>4, <3>5
  <2>2. Added' = {}
    BY <1>1 DEF Added
  <2>3. \A d \in Clients : Cardinality(get_type'[d] \cap Added') = 0
    BY <2>2, FS_EmptySet
  <2>4. Cardinality(Given)' = Cardinality(Given) + 1
    BY <1>11
  <2>5. QED
    BY <1>1, <1>2, <1>6, <2>1, <2>3, <2>4 DEF Balance, SumOver
<1>14. QED
  BY <1>2, <1>5, <1>9, <1>11, <1>12, <1>13 DEF CountInv

\* Adding up later does not change the number.
LEMMA SumUpCount ==
  ASSUME CountInv, NEW c \in Clients, SumUp(c)
  PROVE  CountInv' /\ Given' = Given /\ \A d \in Clients : Done(d)' = Done(d)
<1>1. /\ pc[c] = "unlocked" /\ pc' = [pc EXCEPT ![c] = "idle"]
      /\ localvalue' = [localvalue EXCEPT ![c] = localvalue[c] + 1]
      /\ counter_vals' = [counter_vals EXCEPT ![c][localvalue[c] + 1] = Value(c)]
      /\ UNCHANGED <<setupVars, phase, counter_mem, lock, toAdd, toGet, got, errs>>
      /\ Rest /\ Phases /\ Epochs /\ Fresh /\ Balance
  BY DEF SumUp, CountInv
<1>2. SetupInv' /\ UNCHANGED <<committed, acc_type, get_type>>
  BY <1>1, SetupStutter DEF setupVars, CountInv
<1>3. localvalue[c] \in Nat /\ localvalue[c] < NTIMES /\ phase # "setup" /\ lock # c
  BY <1>1, CallsAssumption DEF Epochs, Rest, Phases
<1>4. localvalue[c] + 1 \in 0..NTIMES /\ localvalue[c] + 1 \in Calls
  BY <1>3, CallsAssumption DEF Calls
<1>5. Value(c) \in Nat
  <2>1. SumOver(got[c], get_type[c]) \in Nat
    <3>1. get_type[c] \in SUBSET Slots /\ IsFiniteSet(get_type[c])
      BY Elements, FiniteSlots
    <3>2. \A s \in get_type[c] : got[c][s] \in Nat
      BY <1>1, <3>1 DEF Rest
    <3>3. QED
      BY <3>1, <3>2, FiniteUnits
  <2>2. QED
    BY <1>3, <2>1 DEF Value
<1>6. /\ counter_vals' \in [Clients -> [Calls -> Nat]] /\ counter_vals'[c][localvalue[c] + 1] = Value(c)
      /\ \A i \in Calls : i # localvalue[c] + 1 => counter_vals'[c][i] = counter_vals[c][i]
      /\ \A d \in Clients : d # c => counter_vals'[d] = counter_vals[d]
  <2>1. counter_vals \in [Clients -> [Calls -> Nat]]
    BY <1>1 DEF Rest
  <2>2. QED
    BY <1>1, <1>4, <1>5, <2>1, Update
<1>7. /\ localvalue' \in [Clients -> 0..NTIMES] /\ localvalue'[c] = localvalue[c] + 1
      /\ pc'[c] = "idle" /\ \A d \in Clients : d # c => localvalue'[d] = localvalue[d] /\ pc'[d] = pc[d]
  BY <1>1, <1>4 DEF Rest
<1>8. ASSUME NEW d \in Clients PROVE Done(d)' = Done(d) /\ Done(d) \in Nat
  BY <1>1, <1>3, <1>7, CallsAssumption DEF Done, Rest
<1>9. ASSUME NEW d \in Clients, NEW i \in 1..Done(d)
      PROVE  Number(d, i)' = Number(d, i)
  <2>1. CASE d # c
    BY <1>1, <1>2, <1>6, <1>7, <2>1 DEF Number, Value, SumOver
  <2>2. CASE d = c
    <3>1. i \in Calls /\ Done(c) = localvalue[c] + 1
      <4>1. Done(c) = localvalue[c] + 1
        BY <1>1 DEF Done
      <4>2. i \in 1..(localvalue[c] + 1)
        BY <2>2, <4>1
      <4>3. QED
        BY <1>3, <4>1, <4>2, CallsAssumption DEF Calls
    <3>2. CASE i = localvalue[c] + 1
      BY <1>3, <1>6, <1>7, <2>2, <3>2 DEF Number
    <3>3. CASE i # localvalue[c] + 1
      BY <1>3, <1>6, <1>7, <2>2, <3>1, <3>3 DEF Number
    <3>4. QED
      BY <3>2, <3>3
  <2>3. QED
    BY <2>1, <2>2
<1>10. Given' = Given
  <2>1. ASSUME NEW d \in Clients
        PROVE  {<<Number(d, i), d, i>> : i \in 1..Done(d)}' = {<<Number(d, i), d, i>> : i \in 1..Done(d)}
    BY <1>8, <1>9
  <2>2. QED
    BY <2>1 DEF Given
<1>11. Rest' /\ Phases'
  BY <1>1, <1>2, <1>3, <1>6, <1>7 DEF Rest, Phases
<1>12. Epochs' /\ Fresh'
  BY <1>1, <1>2, <1>3, <1>7 DEF Epochs, Fresh
<1>13. Balance'
  <2>1. Added' = Added
    BY <1>1, <1>2 DEF Added
  <2>2. QED
    BY <1>1, <1>2, <1>8, <1>10, <2>1 DEF Balance, SumOver
<1>14. QED
  BY <1>2, <1>8, <1>10, <1>11, <1>12, <1>13 DEF CountInv

\* The steps that touch neither the setup nor the counters.
LEMMA OtherCount ==
  ASSUME CountInv, WinFree \/ Check \/ UNCHANGED vars
  PROVE  CountInv' /\ Given' = Given /\ \A d \in Clients : Done(d)' = Done(d)
<1>1. /\ UNCHANGED <<setupVars, counter_mem, lock, toAdd, toGet, pc, got, localvalue, counter_vals>>
      /\ Rest /\ Phases /\ Epochs /\ Fresh /\ Balance
  BY DEF WinFree, Check, vars, epochVars, callVars, CountInv
<1>2. SetupInv' /\ UNCHANGED <<committed, acc_type, get_type>>
  BY <1>1, SetupStutter DEF setupVars, CountInv
<1>3. Given' = Given /\ \A d \in Clients : Done(d)' = Done(d)
  BY <1>1, <1>2, QuietStep DEF callVars
<1>4. errs' \in Nat /\ phase' \in {"setup", "counting", "freed", "checked"} /\ (phase' = "setup" <=> phase = "setup")
  <2>1. CASE Check
    <3>1. (NProcs - 1) * NTIMES \in Int
      BY SizesAssumption, CallsAssumption
    <3>2. IsFiniteSet(2..((NProcs - 1) * NTIMES))
      BY <3>1, FS_Interval
    <3>3. \A S \in SUBSET (2..((NProcs - 1) * NTIMES)) : Cardinality(S) \in Nat
      BY <3>2, FS_Subset, FS_CardinalityType
    <3>4. errs' = Cardinality({i \in 2..((NProcs - 1) * NTIMES) : Results[i] # Results[i - 1] + 1})
      BY <2>1 DEF Check
    <3>5. QED
      BY <2>1, <3>3, <3>4 DEF Check
  <2>2. CASE WinFree \/ UNCHANGED vars
    BY <1>1, <2>2 DEF WinFree, vars, Rest
  <2>3. QED
    BY <2>1, <2>2
<1>5. Rest' /\ Phases' /\ Epochs' /\ Fresh'
  BY <1>1, <1>2, <1>4 DEF Rest, Phases, Epochs, Fresh
<1>6. Balance'
  <2>1. Added' = Added
    BY <1>1, <1>2 DEF Added
  <2>2. QED
    BY <1>1, <1>2, <1>3, <1>4, <2>1 DEF Balance, SumOver
<1>7. QED
  BY <1>2, <1>3, <1>5, <1>6 DEF CountInv
-----------------------------------------------------------------------------
\* Every step gives out no number, or the next one to one client.
LEMMA CountStep ==
  ASSUME CountInv, [Next]_vars
  PROVE  /\ CountInv'
         /\ \/ Given' = Given /\ \A c \in Clients : Done(c)' = Done(c)
            \/ \E c \in Clients : /\ Given' = Given \cup {<<Cardinality(Given), c, Done(c) + 1>>}
                                  /\ Done(c)' = Done(c) + 1
                                  /\ \A d \in Clients : d # c => Done(d)' = Done(d)
<1>1. CASE Setup
  BY <1>1, SetupCount
<1>2. CASE WinCreate
  BY <1>2, WinCreateCount
<1>3. ASSUME NEW c \in Clients, Lock(c) PROVE CountInv' /\ Given' = Given /\ \A d \in Clients : Done(d)' = Done(d)
  BY <1>3, LockCount
<1>4. CASE \E c \in Clients : Unlock(c)
  BY <1>4, UnlockCount
<1>5. ASSUME NEW c \in Clients, SumUp(c) PROVE CountInv' /\ Given' = Given /\ \A d \in Clients : Done(d)' = Done(d)
  BY <1>5, SumUpCount
<1>6. CASE Access
  BY <1>6, AddOneCount, ReadCount DEF Access
<1>7. CASE WinFree \/ Check \/ UNCHANGED vars
  BY <1>7, OtherCount
<1>8. QED
  BY <1>1, <1>2, <1>3, <1>4, <1>5, <1>6, <1>7 DEF Next, GetNextval, Ended

LEMMA CountTypes == CountInv => TypeOK
<1> SUFFICES ASSUME CountInv PROVE TypeOK
  OBVIOUS
<1>1. SetupTypeOK /\ Rest /\ Epochs
  BY SetupTypes DEF CountInv
<1>2. toAdd \in SUBSET Slots /\ toGet \in SUBSET Slots
  <2>1. CASE lock = Nobody
    BY <1>1, <2>1 DEF Epochs
  <2>2. CASE lock # Nobody
    BY <1>1, <2>2, Elements DEF Epochs, Rest
  <2>3. QED
    BY <2>1, <2>2
<1>3. QED
  BY <1>1, <1>2 DEF Rest, TypeOK
-----------------------------------------------------------------------------
\* The steps of the counter programs keep the invariant of the proof.
LEMMA AlwaysCountInv == Spec => []CountInv
<1>1. CountInv /\ [Next]_vars => CountInv'
  BY CountStep
<1>2. QED
  BY InitCount, <1>1, PTL DEF Spec

\* The variables of the counter programs keep their types: the datatypes never
\* select an element outside rank 0's window.
THEOREM TypeCorrect == Spec => []TypeOK
  BY AlwaysCountInv, CountTypes, PTL

\* For any number of processes: among the elements that a client reads exactly
\* one is updated by any other client, and none by itself.
THEOREM AlwaysMeetOnce == Spec => []MeetOnce
<1>1. CountInv => MeetOnce
  BY SetupMeets DEF CountInv
<1>2. QED
  BY AlwaysCountInv, <1>1, PTL

\* For any number of processes and calls: the programs implement one shared
\* counter, each call obtains the number of calls before it.
THEOREM IsCounter == Spec => ImplementsCounter
<1>1. Init => Counter!Init
  <2> SUFFICES ASSUME Init PROVE Counter!Init
    OBVIOUS
  <2>1. \A c \in Clients : Done(c) = 0
    BY DEF Init, Done
  <2>2. Given = {}
    BY <2>1 DEF Given
  <2>3. QED
    BY <2>1, <2>2 DEF Counter!Init
<1>2. CountInv /\ [Next]_vars => [Counter!Next]_<<[c \in Clients |-> Done(c)], Given>>
  <2> SUFFICES ASSUME CountInv, [Next]_vars
               PROVE  Counter!Next \/ UNCHANGED <<[c \in Clients |-> Done(c)], Given>>
    OBVIOUS
  <2>1. CASE Given' = Given /\ \A c \in Clients : Done(c)' = Done(c)
    BY <2>1
  <2>2. ASSUME NEW c \in Clients,
               Given' = Given \cup {<<Cardinality(Given), c, Done(c) + 1>>},
               Done(c)' = Done(c) + 1,
               \A d \in Clients : d # c => Done(d)' = Done(d)
        PROVE  Counter!GetNextval(c)
    <3>1. [d \in Clients |-> Done(d)]' = [[d \in Clients |-> Done(d)] EXCEPT ![c] = @ + 1]
      BY <2>2
    <3>2. [d \in Clients |-> Done(d)][c] = Done(c)
      OBVIOUS
    <3>3. Given' = Given \cup {<<Cardinality(Given), c, [d \in Clients |-> Done(d)][c] + 1>>}
      BY <2>2, <3>2
    <3>4. Counter!Cardinality(Given) = Cardinality(Given)
      BY DEF Counter!Cardinality, Cardinality
    <3>5. QED
      BY <3>1, <3>3, <3>4 DEF Counter!GetNextval
  <2>3. QED
    BY <2>1, <2>2, CountStep DEF Counter!Next
<1>3. QED
  BY <1>1, <1>2, AlwaysCountInv, PTL DEF Spec, ImplementsCounter, Counter!Spec
=============================================================================
