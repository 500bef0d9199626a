--------------------------- MODULE FdtEdit_proofs ---------------------------
(***************************************************************************)
(* The blob under every sequence of calls, for every buffer, name, value   *)
(* and size of a tag: the blocks fit into the buffer, the header counts    *)
(* the characters of the structure block, every property has its name.     *)
(***************************************************************************)
EXTENDS FdtEdit, SequenceTheorems, FiniteSetTheorems, WellFoundedInduction, TLAPS

\* One blob, whichever call has it in hand.
Blobs(magics) ==
  [magic : magics, mapAt : {HeaderSize, RsvMapOffset}, rsv : Seq(Sizes \cup {0}),
   struct : Seq(Cells), structSize : Nat, strings : Seq(Characters), size : Nat]
Blob == Blobs({"sw", "fdt"})

\* Cells whose names are in a table of n characters.
NamedCells(magic, n) ==
  {c \in Cells : c.tag = "PROP" => c.nameoff \in IF magic = "sw" THEN -n..-1 ELSE 0..n - 1}

EndsMap(f) == \E k \in DOMAIN f.rsv : f.rsv[k] = 0

\* The inductive invariant: types, names, room and header, and that the strings come
\* after the first node and the end of the reserve map before it.
Sound(f) ==
  /\ f \in Blob
  /\ f.struct \in Seq(NamedCells(f.magic, Len(f.strings)))
  /\ f.rsv # <<>> => DataSize(f) <= f.size
  /\ f.structSize = SizeOf(f.struct)
  /\ f.magic = "sw" => f.mapAt = RsvMapOffset
  /\ f.magic = "sw" /\ f.struct = <<>> => f.strings = <<>>
  /\ f.magic = "fdt" \/ f.struct # <<>> => EndsMap(f)

Inv == Sound(fdt) /\ ret \in Int

\* What a name that is too long makes of it.
Lost == ~ShortNames /\ fdt \in Blobs({"lost"}) /\ ret \in Int

-----------------------------------------------------------------------------
(* Numbers: least ones, induction for a set of them, and the existence of   *)
(* a function that is given by its first value and by a table of steps.     *)

LEMMA Least ==
  ASSUME NEW T \in SUBSET Nat, T # {}
  PROVE  \E x \in T : \A y \in T : x <= y
<1> DEFINE R == OpToRel(<, Nat)
<1>1. IsWellFoundedOn(R, Nat)
  BY NatLessThanWellFounded
<1>2. \A x \in Nat, y \in Nat : y < x => <<y, x>> \in R
  BY DEF OpToRel
<1> HIDE DEF R
<1>3. \E x \in T : \A y \in T : ~ (<<y, x>> \in R)
  BY <1>1, WFMin
<1>4. \A x, y \in T : x \in Nat /\ y \in Nat
  OBVIOUS
<1>5. \A x \in T, y \in T : ~ (<<y, x>> \in R) => x <= y
  BY <1>2, <1>4
<1> QED
  BY <1>3, <1>5

LEMMA SetInduction ==
  ASSUME NEW S \in SUBSET Nat, 0 \in S, \A n \in S : n + 1 \in S
  PROVE  S = Nat
<1> SUFFICES ASSUME Nat \ S # {} PROVE FALSE
  OBVIOUS
<1>1. PICK x \in Nat \ S : \A y \in Nat \ S : x <= y
  BY Least
<1>2. x # 0 /\ x - 1 \in Nat
  BY <1>1
<1>3. x - 1 \in S
  BY <1>1, <1>2
<1> QED
  BY <1>1, <1>3

\* f starts at base and takes the steps up to n.
Follows(f, V, base, n, step) ==
  /\ f \in [0..n -> V]
  /\ f[0] = base
  /\ \A i \in 1..n : f[i] = step[i][f[i - 1]]

LEMMA Recursion ==
  ASSUME NEW V, NEW base \in V, NEW n \in Nat, NEW step \in [1..n -> [V -> V]]
  PROVE  \E f : Follows(f, V, base, n, step)
<1> DEFINE Is(f, m) == f[0] = base /\ \A i \in 1..m : f[i] = step[i][f[i - 1]]
           S == {m \in Nat : m <= n => \E f \in [0..m -> V] : Is(f, m)}
<1>1. 0 \in S
  <2> DEFINE f == [i \in 0..0 |-> base]
  <2>1. f \in [0..0 -> V] /\ Is(f, 0)
    OBVIOUS
  <2> HIDE DEF f, Is
  <2> QED
    BY <2>1
<1>2. ASSUME NEW m \in S
      PROVE  m + 1 \in S
  <2>0. m \in Nat /\ m + 1 \in Nat
    OBVIOUS
  <2> SUFFICES ASSUME m + 1 <= n
               PROVE  \E f \in [0..m + 1 -> V] : Is(f, m + 1)
    BY <2>0
  <2>1. PICK f \in [0..m -> V] : Is(f, m)
    BY <2>0
  <2> DEFINE g == [i \in 0..m + 1 |-> IF i = m + 1 THEN step[m + 1][f[m]] ELSE f[i]]
  <2>2. m \in 0..m /\ m + 1 \in 1..n /\ step[m + 1] \in [V -> V]
    BY <2>0
  <2>3. g \in [0..m + 1 -> V]
    BY <2>0, <2>2
  <2>4. g[0] = base
    BY <2>0, <2>1
  <2>5. ASSUME NEW i \in 1..m + 1
        PROVE  g[i] = step[i][g[i - 1]]
    <3>1. i - 1 \in 0..m /\ i - 1 # m + 1 /\ i \in 0..m + 1
      BY <2>0
    <3>2. g[i - 1] = f[i - 1]
      BY <3>1
    <3>3. CASE i = m + 1
      <4>1. i - 1 = m
        BY <2>0, <3>3
      <4> QED
        BY <3>1, <3>2, <3>3, <4>1
    <3>4. CASE i # m + 1
      <4>1. i \in 1..m /\ g[i] = f[i]
        BY <2>0, <3>1, <3>4
      <4> HIDE DEF g
      <4> QED
        BY <2>1, <3>2, <4>1
    <3> QED
      BY <3>3, <3>4
  <2>6. Is(g, m + 1)
    <3> HIDE DEF g
    <3> QED
      BY <2>4, <2>5
  <2> HIDE DEF g, Is
  <2> QED
    BY <2>3, <2>6
<1>3. n \in S
  <2>1. S \in SUBSET Nat
    OBVIOUS
  <2> HIDE DEF S
  <2>2. S = Nat
    BY <1>1, <1>2, <2>1, SetInduction
  <2> QED
    BY <2>2
<1>4. PICK f \in [0..n -> V] : Is(f, n)
  BY <1>3
<1>5. Follows(f, V, base, n, step)
  BY <1>4 DEF Follows
<1> QED
  BY <1>5

LEMMA LeastInt ==
  ASSUME NEW a \in Int, NEW b \in Int, NEW S \in SUBSET (a..b), S # {}
  PROVE  Min(S) \in S /\ \A y \in S : Min(S) <= y
<1> DEFINE T == {x - a : x \in S}
<1>1. T \in SUBSET Nat /\ T # {}
  OBVIOUS
<1>2. PICK t \in T : \A y \in T : t <= y
  <2> HIDE DEF T
  <2> QED
    BY <1>1, Least
<1>3. PICK x \in S : t = x - a
  OBVIOUS
<1>4. ASSUME NEW y \in S
      PROVE  x <= y
  <2>1. t <= y - a
    BY <1>2
  <2> QED
    BY <2>1, <1>3
<1>5. \E z \in S : \A y \in S : z <= y
  BY <1>4
<1> QED
  BY <1>5 DEF Min

LEMMA FirstOfRange ==
  ASSUME NEW a \in Int, NEW b \in Int, NEW S \in SUBSET (a..b), NEW o
  PROVE  (S = {} /\ FirstOf(S, o) = o) \/ FirstOf(S, o) \in S
BY LeastInt DEF FirstOf

-----------------------------------------------------------------------------
(* Sizes of cells and of sequences of them.                                 *)

LEMMA Multiple ==
  ASSUME NEW m \in Nat, NEW t \in Nat \ {0}
  PROVE  (m * t) \div t = m
OBVIOUS

LEMMA AlignIs ==
  ASSUME NEW n \in Nat
  PROVE  \E m \in Nat : Align(n) = m * TagSize /\ Align(n) \in Nat
<1>1. TagSize \in Nat /\ TagSize >= 1
  BY FdtEditAssumption
<1>2. n + TagSize - 1 \in Nat
  BY <1>1
<1>3. (n + TagSize - 1) \div TagSize \in Nat
  BY <1>1, <1>2
<1>4. ((n + TagSize - 1) \div TagSize) * TagSize \in Nat
  BY <1>1, <1>3
<1> QED
  BY <1>3, <1>4 DEF Align

\* The size of a cell is a number of tags.
LEMMA CellIs ==
  ASSUME NEW c \in Cells
  PROVE  /\ CellSize(c) \in Nat /\ CellSize(c) >= TagSize
         /\ \E m \in Nat : CellSize(c) = m * TagSize
<1>0. TagSize \in Nat /\ TagSize >= 1 /\ Names \subseteq Seq(Characters)
  BY FdtEditAssumption
<1>1. CASE c.tag = "BEGIN_NODE"
  <2>0. c.name \in Names \cup {<<>>}
    BY <1>1 DEF Cells
  <2>1. Len(c.name) + 1 \in Nat
    <3>1. CASE c.name = <<>>
      BY <3>1
    <3>2. CASE c.name \in Names
      <4>1. c.name \in Seq(Characters)
        BY <1>0, <3>2
      <4> QED
        BY <4>1
    <3> QED
      BY <2>0, <3>1, <3>2
  <2>2. PICK m \in Nat : Align(Len(c.name) + 1) = m * TagSize /\ Align(Len(c.name) + 1) \in Nat
    BY <2>1, AlignIs
  <2>3. CellSize(c) = TagSize + Align(Len(c.name) + 1)
    BY <1>1 DEF CellSize
  <2>4. CellSize(c) = (m + 1) * TagSize /\ m + 1 \in Nat
    BY <1>0, <2>2, <2>3
  <2>5. CellSize(c) \in Nat /\ CellSize(c) >= TagSize
    BY <1>0, <2>2, <2>3
  <2> QED
    BY <2>4, <2>5
<1>2. CASE c.tag = "PROP"
  <2>1. Len(c.val) \in Nat
    BY <1>2 DEF Cells
  <2>2. PICK m \in Nat : Align(Len(c.val)) = m * TagSize /\ Align(Len(c.val)) \in Nat
    BY <2>1, AlignIs
  <2>3. CellSize(c) = 3 * TagSize + Align(Len(c.val))
    BY <1>2 DEF CellSize
  <2>4. CellSize(c) = (m + 3) * TagSize /\ m + 3 \in Nat
    BY <1>0, <2>2, <2>3
  <2>5. CellSize(c) \in Nat /\ CellSize(c) >= TagSize
    BY <1>0, <2>2, <2>3
  <2> QED
    BY <2>4, <2>5
<1>3. CASE c.tag \notin {"BEGIN_NODE", "PROP"}
  <2>1. CellSize(c) = TagSize
    BY <1>3 DEF CellSize
  <2>2. TagSize = 1 * TagSize /\ 1 \in Nat
    BY <1>0
  <2> QED
    BY <1>0, <2>1, <2>2
<1> QED
  BY <1>1, <1>2, <1>3

\* The sizes of the beginnings of a sequence, one cell after the other.
Adds(cells, u) ==
  /\ u \in [0..Len(cells) -> Nat]
  /\ u[0] = 0
  /\ \A i \in 1..Len(cells) : u[i] = u[i - 1] + CellSize(cells[i])

LEMMA AddsExists ==
  ASSUME NEW cells \in Seq(Cells)
  PROVE  \E u : Adds(cells, u)
<1> DEFINE n == Len(cells)
           step == [i \in 1..n |-> [m \in Nat |-> m + CellSize(cells[i])]]
<1>1. n \in Nat
  OBVIOUS
<1>2. \A i \in 1..n : CellSize(cells[i]) \in Nat
  BY CellIs
<1>3. step \in [1..n -> [Nat -> Nat]]
  BY <1>2
<1>4. \A i \in 1..n, m \in Nat : step[i][m] = m + CellSize(cells[i])
  OBVIOUS
<1>0. 0 \in Nat
  OBVIOUS
<1> HIDE DEF step, n
<1>5. PICK u \in [0..n -> Nat] : u[0] = 0 /\ \A i \in 1..n : u[i] = step[i][u[i - 1]]
  <2>1. \E u : Follows(u, Nat, 0, n, step)
    BY <1>0, <1>1, <1>3, Recursion
  <2> QED
    BY <2>1 DEF Follows
<1>6. ASSUME NEW i \in 1..n
      PROVE  u[i] = u[i - 1] + CellSize(cells[i])
  <2>1. i - 1 \in 0..n
    BY <1>1
  <2> QED
    BY <1>4, <1>5, <2>1
<1> QED
  BY <1>5, <1>6 DEF Adds, n

LEMMA AddsUnique ==
  ASSUME NEW cells \in Seq(Cells), NEW u, NEW v, Adds(cells, u), Adds(cells, v)
  PROVE  u = v
<1> DEFINE n == Len(cells)
           S == {m \in Nat : m <= n => u[m] = v[m]}
<1>0. n \in Nat
  OBVIOUS
<1>1. 0 \in S
  BY DEF Adds
<1>2. ASSUME NEW m \in S
      PROVE  m + 1 \in S
  <2>1. m \in Nat
    OBVIOUS
  <2>2. CASE m + 1 <= n
    <3>1. m + 1 \in 1..n /\ (m + 1) - 1 = m /\ u[m] = v[m]
      BY <1>0, <2>1, <2>2
    <3> QED
      BY <3>1 DEF Adds
  <2> QED
    BY <2>1, <2>2
<1>3. S \in SUBSET Nat
  OBVIOUS
<1> HIDE DEF S
<1>4. S = Nat
  BY <1>1, <1>2, <1>3, SetInduction
<1>5. \A m \in 0..n : u[m] = v[m]
  BY <1>4 DEF S
<1> QED
  BY <1>5 DEF Adds

LEMMA SizeOfIs ==
  ASSUME NEW cells \in Seq(Cells), NEW u, Adds(cells, u)
  PROVE  SizeOf(cells) = u[Len(cells)] /\ SizeOf(cells) \in Nat
<1> DEFINE Is(w) == w = [k \in 0..Len(cells) |->
                           IF k = 0 THEN 0 ELSE w[k - 1] + CellSize(cells[k])]
           w == CHOOSE x : Is(x)
<1>1. Is(u)
  <2>1. \A k \in 0..Len(cells) : k # 0 => k \in 1..Len(cells)
    OBVIOUS
  <2>2. \A k \in 0..Len(cells) : u[k] = IF k = 0 THEN 0 ELSE u[k - 1] + CellSize(cells[k])
    BY <2>1 DEF Adds
  <2> QED
    BY <2>2 DEF Adds
<1>2. Is(w)
  BY <1>1
<1>3. SizeOf(cells) = w[Len(cells)]
  BY Zenon DEF SizeOf
<1> HIDE DEF w
<1>4. Adds(cells, w)
  <2>1. DOMAIN w = 0..Len(cells) /\ w[0] = 0
    BY <1>2
  <2>2. \A i \in 1..Len(cells) : w[i] = w[i - 1] + CellSize(cells[i])
    BY <1>2
  <2> DEFINE S == {m \in Nat : m <= Len(cells) => w[m] \in Nat}
  <2>3. 0 \in S
    BY <2>1
  <2>4. ASSUME NEW m \in S
        PROVE  m + 1 \in S
    <3>1. CASE m + 1 <= Len(cells)
      <4>1. m + 1 \in 1..Len(cells) /\ (m + 1) - 1 = m /\ w[m] \in Nat
        BY <3>1
      <4>2. CellSize(cells[m + 1]) \in Nat
        BY <4>1, CellIs
      <4> QED
        BY <2>2, <4>1, <4>2
    <3> QED
      BY <3>1
  <2>5. S \in SUBSET Nat
    OBVIOUS
  <2> HIDE DEF S
  <2>6. S = Nat
    BY <2>3, <2>4, <2>5, SetInduction
  <2>7. \A m \in 0..Len(cells) : w[m] \in Nat
    BY <2>6 DEF S
  <2>8. w \in [0..Len(cells) -> Nat]
    <3>1. w = [k \in 0..Len(cells) |-> w[k]]
      BY <1>2
    <3> QED
      BY <2>7, <3>1
  <2> QED
    BY <2>1, <2>2, <2>8 DEF Adds
<1>5. w = u
  BY <1>4, AddsUnique
<1>6. Len(cells) \in 0..Len(cells)
  OBVIOUS
<1> QED
  BY <1>3, <1>5, <1>6 DEF Adds

LEMMA SizeOfNat ==
  ASSUME NEW cells \in Seq(Cells)
  PROVE  SizeOf(cells) \in Nat
BY AddsExists, SizeOfIs

LEMMA SizeOfJoined ==
  ASSUME NEW s \in Seq(Cells), NEW t \in Seq(Cells)
  PROVE  SizeOf(s \o t) = SizeOf(s) + SizeOf(t)
<1> DEFINE m == Len(s)
           n == Len(t)
<1>1. m \in Nat /\ n \in Nat /\ s \o t \in Seq(Cells) /\ Len(s \o t) = m + n
  OBVIOUS
<1>2. PICK u : Adds(s, u)
  BY AddsExists
<1>3. PICK v : Adds(t, v)
  BY AddsExists
<1> DEFINE w == [i \in 0..m + n |-> IF i <= m THEN u[i] ELSE u[m] + v[i - m]]
<1>4. u \in [0..m -> Nat] /\ v \in [0..n -> Nat] /\ u[0] = 0 /\ v[0] = 0 /\ u[m] \in Nat
  BY <1>1, <1>2, <1>3 DEF Adds
<1>5. w \in [0..m + n -> Nat]
  <2>1. \A i \in 0..m + n : i <= m => u[i] \in Nat
    BY <1>1, <1>4
  <2>2. ASSUME NEW i \in 0..m + n, ~ (i <= m)
        PROVE  v[i - m] \in Nat
    <3>1. i - m \in 0..n
      BY <1>1, <2>2
    <3> QED
      BY <1>4, <3>1
  <2> QED
    BY <1>1, <1>4, <2>1, <2>2
<1>6. w[0] = 0
  BY <1>1, <1>4
<1>7. ASSUME NEW i \in 1..m + n
      PROVE  w[i] = w[i - 1] + CellSize((s \o t)[i])
  <2>1. CASE i <= m
    <3>1. i \in 1..m /\ i - 1 \in 0..m + n /\ i - 1 <= m
      BY <1>1, <2>1
    <3>2. w[i] = u[i] /\ w[i - 1] = u[i - 1]
      BY <1>1, <2>1, <3>1
    <3>3. (s \o t)[i] = s[i]
      BY <2>1, <3>1
    <3> HIDE DEF w
    <3> QED
      BY <1>2, <3>1, <3>2, <3>3 DEF Adds
  <2>2. CASE i > m
    <3>1. i - m \in 1..n /\ i - 1 \in 0..m + n /\ (i - m) - 1 = (i - 1) - m
      BY <1>1, <2>2
    <3>2. w[i] = u[m] + v[i - m] /\ w[i - 1] = u[m] + v[(i - m) - 1]
      <4>1. CASE i - 1 = m
        <5>1. (i - m) - 1 = 0 /\ v[0] = 0 /\ w[i - 1] = u[m]
          BY <1>1, <1>4, <3>1, <4>1
        <5>2. w[i] = u[m] + v[i - m]
          BY <1>1, <2>2, <3>1
        <5> HIDE DEF w
        <5> QED
          BY <5>1, <5>2, <1>4
      <4>2. CASE i - 1 # m
        <5>1. i - 1 > m
          BY <1>1, <2>2, <4>2
        <5> QED
          BY <1>1, <2>2, <3>1, <5>1
      <4> QED
        BY <4>1, <4>2
    <3>3. (s \o t)[i] = t[i - m]
      BY <1>1, <2>2, <3>1
    <3>4. v[i - m] = v[(i - m) - 1] + CellSize(t[i - m])
      BY <1>3, <3>1 DEF Adds
    <3>5. v[(i - m) - 1] \in Nat /\ CellSize(t[i - m]) \in Nat
      <4>1. (i - m) - 1 \in 0..n
        BY <1>1, <3>1
      <4>2. t[i - m] \in Cells
        BY <3>1
      <4> QED
        BY <1>4, <4>1, <4>2, CellIs
    <3> HIDE DEF w
    <3> QED
      BY <1>4, <3>2, <3>3, <3>4, <3>5
  <2> QED
    BY <1>1, <2>1, <2>2
<1>8. w[m + n] = u[m] + v[n]
  <2>1. CASE n = 0
    <3> QED
      BY <1>1, <1>4, <2>1
  <2>2. CASE n # 0
    <3>1. ~ (m + n <= m) /\ (m + n) - m = n /\ m + n \in 0..m + n
      BY <1>1, <2>2
    <3> QED
      BY <3>1
  <2> QED
    BY <2>1, <2>2
<1> HIDE DEF w
<1>9. Adds(s \o t, w)
  BY <1>1, <1>5, <1>6, <1>7 DEF Adds
<1> QED
  BY <1>1, <1>2, <1>3, <1>8, <1>9, SizeOfIs

LEMMA SizeOfOne ==
  ASSUME NEW c \in Cells
  PROVE  SizeOf(<<c>>) = CellSize(c)
<1> DEFINE u == [i \in 0..1 |-> IF i = 0 THEN 0 ELSE CellSize(c)]
<1>1. <<c>> \in Seq(Cells) /\ Len(<<c>>) = 1 /\ <<c>>[1] = c /\ CellSize(c) \in Nat
  BY CellIs
<1>2. u \in [0..1 -> Nat] /\ u[0] = 0 /\ u[1] = CellSize(c)
  BY <1>1
<1> HIDE DEF u
<1>3. \A i \in 1..1 : u[i] = u[i - 1] + CellSize(<<c>>[i])
  BY <1>1, <1>2
<1>4. Adds(<<c>>, u)
  BY <1>1, <1>2, <1>3 DEF Adds
<1> QED
  BY <1>1, <1>2, <1>4, SizeOfIs

LEMMA SizeOfAppended ==
  ASSUME NEW s \in Seq(Cells), NEW c \in Cells
  PROVE  SizeOf(Append(s, c)) = SizeOf(s) + CellSize(c)
<1>1. Append(s, c) = s \o <<c>> /\ <<c>> \in Seq(Cells)
  OBVIOUS
<1> QED
  BY <1>1, SizeOfJoined, SizeOfOne

LEMMA SizeOfNone == SizeOf(<<>>) = 0
<1> DEFINE u == [i \in 0..0 |-> 0]
<1>1. <<>> \in Seq(Cells) /\ Len(<<>>) = 0
  OBVIOUS
<1>2. Adds(<<>>, u) /\ u[0] = 0
  BY <1>1 DEF Adds
<1> HIDE DEF u
<1> QED
  BY <1>1, <1>2, SizeOfIs

\* Cells of the same size one by one.
LEMMA SizeOfAlike ==
  ASSUME NEW s \in Seq(Cells), NEW t \in Seq(Cells), Len(s) = Len(t),
         \A i \in 1..Len(s) : CellSize(s[i]) = CellSize(t[i])
  PROVE  SizeOf(s) = SizeOf(t)
<1>1. PICK u : Adds(s, u)
  BY AddsExists
<1>2. Adds(t, u)
  BY <1>1 DEF Adds
<1> QED
  BY <1>1, <1>2, SizeOfIs

\* A sequence cut in two.
LEMMA SizeOfCut ==
  ASSUME NEW s \in Seq(Cells), NEW k \in 0..Len(s)
  PROVE  /\ SubSeq(s, 1, k) \in Seq(Cells) /\ SubSeq(s, k + 1, Len(s)) \in Seq(Cells)
         /\ Len(SubSeq(s, 1, k)) = k /\ Len(SubSeq(s, k + 1, Len(s))) = Len(s) - k
         /\ s = SubSeq(s, 1, k) \o SubSeq(s, k + 1, Len(s))
         /\ SizeOf(s) = SizeOf(SubSeq(s, 1, k)) + SizeOf(SubSeq(s, k + 1, Len(s)))
<1>1. SubSeq(s, 1, k) \in Seq(Cells) /\ SubSeq(s, k + 1, Len(s)) \in Seq(Cells)
  BY SubSeqProperties
<1>2. s = SubSeq(s, 1, k) \o SubSeq(s, k + 1, Len(s))
  <2>1. 1 \in 1..Len(s) + 1 /\ k \in 1 - 1..Len(s) /\ Len(s) \in k..Len(s)
    OBVIOUS
  <2>2. SubSeq(s, 1, k) \o SubSeq(s, k + 1, Len(s)) = SubSeq(s, 1, Len(s))
    BY <2>1, ConcatAdjacentSubSeq
  <2> QED
    BY <2>2, SubSeqFull
<1>3. Len(SubSeq(s, 1, k)) = k /\ Len(SubSeq(s, k + 1, Len(s))) = Len(s) - k
  OBVIOUS
<1> QED
  BY <1>1, <1>2, <1>3, SizeOfJoined

\* A sequence cut in three.
LEMMA SizeOfCutTwice ==
  ASSUME NEW s \in Seq(Cells), NEW j \in 0..Len(s), NEW k \in 0..Len(s), j <= k
  PROVE  /\ SubSeq(s, j + 1, k) \in Seq(Cells)
         /\ SizeOf(s) = SizeOf(SubSeq(s, 1, j)) + SizeOf(SubSeq(s, j + 1, k))
                         + SizeOf(SubSeq(s, k + 1, Len(s)))
<1> DEFINE a == SubSeq(s, 1, k)
<1>1. a \in Seq(Cells) /\ Len(a) = k /\ SizeOf(s) = SizeOf(a) + SizeOf(SubSeq(s, k + 1, Len(s)))
  BY SizeOfCut
<1>2. j \in 0..Len(a)
  BY <1>1
<1>3. SubSeq(a, 1, j) = SubSeq(s, 1, j) /\ SubSeq(a, j + 1, Len(a)) = SubSeq(s, j + 1, k)
  BY <1>1
<1> HIDE DEF a
<1>4. /\ SubSeq(a, j + 1, Len(a)) \in Seq(Cells)
      /\ SizeOf(a) = SizeOf(SubSeq(a, 1, j)) + SizeOf(SubSeq(a, j + 1, Len(a)))
  BY <1>1, <1>2, SizeOfCut
<1> QED
  BY <1>1, <1>3, <1>4

\* A run of NOPs takes a tag each.
LEMMA SizeOfNops ==
  ASSUME NEW n \in Nat
  PROVE  /\ [k \in 1..n |-> Only("NOP")] \in Seq(Cells)
         /\ SizeOf([k \in 1..n |-> Only("NOP")]) = n * TagSize
<1> DEFINE s == [k \in 1..n |-> Only("NOP")]
           u == [i \in 0..n |-> i * TagSize]
<1>0. TagSize \in Nat
  BY FdtEditAssumption
<1>1. Only("NOP") \in Cells /\ CellSize(Only("NOP")) = TagSize
  BY DEF Only, Cells, CellSize
<1>2. s \in Seq(Cells) /\ Len(s) = n /\ \A i \in 1..n : s[i] = Only("NOP")
  BY <1>1
<1>3. u \in [0..n -> Nat] /\ u[0] = 0 /\ u[n] = n * TagSize
  BY <1>0
<1>4. ASSUME NEW i \in 1..n
      PROVE  u[i] = u[i - 1] + TagSize
  <2>1. i \in 0..n /\ i - 1 \in 0..n /\ i \in Nat
    OBVIOUS
  <2>2. i * TagSize = (i - 1) * TagSize + TagSize
    BY <1>0, <2>1
  <2> QED
    BY <2>1, <2>2
<1> HIDE DEF s, u
<1>5. Adds(s, u)
  BY <1>1, <1>2, <1>3, <1>4 DEF Adds
<1>6. SizeOf(s) = n * TagSize
  BY <1>2, <1>3, <1>5, SizeOfIs
<1> QED
  BY <1>2, <1>6 DEF s

LEMMA SizeOfTags ==
  ASSUME NEW s \in Seq(Cells)
  PROVE  \E m \in Nat : SizeOf(s) = m * TagSize
<1>1. PICK u : Adds(s, u)
  BY AddsExists
<1> DEFINE S == {i \in Nat : i <= Len(s) => \E m \in Nat : u[i] = m * TagSize}
<1>0. TagSize \in Nat
  BY FdtEditAssumption
<1>2. 0 \in S
  <2>1. u[0] = 0 * TagSize /\ 0 \in Nat
    BY <1>0, <1>1 DEF Adds
  <2> QED
    BY <2>1
<1>3. ASSUME NEW i \in S
      PROVE  i + 1 \in S
  <2> SUFFICES ASSUME i + 1 <= Len(s)
               PROVE  \E m \in Nat : u[i + 1] = m * TagSize
    OBVIOUS
  <2>1. i \in Nat /\ i + 1 \in 1..Len(s) /\ (i + 1) - 1 = i
    OBVIOUS
  <2>2. PICK m \in Nat : u[i] = m * TagSize
    BY <2>1
  <2>3. PICK c \in Nat : CellSize(s[i + 1]) = c * TagSize
    BY <2>1, CellIs
  <2>4. u[i + 1] = u[i] + CellSize(s[i + 1])
    BY <1>1, <2>1 DEF Adds
  <2>5. u[i + 1] = (m + c) * TagSize /\ m + c \in Nat
    BY <1>0, <2>2, <2>3, <2>4
  <2> QED
    BY <2>5
<1>4. S \in SUBSET Nat
  OBVIOUS
<1> HIDE DEF S
<1>5. S = Nat
  BY <1>2, <1>3, <1>4, SetInduction
<1>6. SizeOf(s) = u[Len(s)]
  BY <1>1, SizeOfIs
<1> QED
  BY <1>5, <1>6 DEF S

\* Nothing has no size but nothing.
LEMMA SizeOfSome ==
  ASSUME NEW s \in Seq(Cells), SizeOf(s) = 0
  PROVE  s = <<>>
<1> SUFFICES ASSUME s # <<>> PROVE FALSE
  OBVIOUS
<1>1. Len(s) >= 1 /\ Len(s) - 1 \in 0..Len(s) /\ s[Len(s)] \in Cells
  OBVIOUS
<1> DEFINE a == SubSeq(s, 1, Len(s) - 1)
<1>2. a \in Seq(Cells) /\ s = Append(a, s[Len(s)])
  BY <1>1
<1> HIDE DEF a
<1>3. SizeOf(s) = SizeOf(a) + CellSize(s[Len(s)])
  BY <1>1, <1>2, SizeOfAppended
<1>4. SizeOf(a) \in Nat /\ CellSize(s[Len(s)]) \in Nat /\ CellSize(s[Len(s)]) >= TagSize
  BY <1>1, <1>2, SizeOfNat, CellIs
<1>5. TagSize \in Nat /\ TagSize >= 1
  BY FdtEditAssumption
<1> QED
  BY <1>3, <1>4, <1>5

-----------------------------------------------------------------------------
(* What the reading functions return.                                       *)

LEMMA BlobParts ==
  ASSUME NEW f \in Blob
  PROVE  /\ f.struct \in Seq(Cells) /\ Len(f.struct) \in Nat /\ DOMAIN f.struct = 1..Len(f.struct)
         /\ f.strings \in Seq(Characters) /\ Len(f.strings) \in Nat
         /\ f.rsv \in Seq(Sizes \cup {0}) /\ Len(f.rsv) \in Nat /\ DOMAIN f.rsv = 1..Len(f.rsv)
         /\ f.structSize \in Nat /\ f.size \in Nat /\ f.magic \in {"sw", "fdt"}
         /\ f.mapAt \in Nat
BY FdtEditAssumption DEF Blob, Blobs

LEMMA FindStringIn ==
  ASSUME NEW tab \in Seq(Characters), NEW s \in Seq(Characters)
  PROVE  FindString(tab, s) = -1 \/ FindString(tab, s) \in 0..Len(tab) - 1
<1> DEFINE S == {p \in 0..Len(tab) - Len(s) - 1 :
                   SubSeq(tab, p + 1, p + Len(s) + 1) = Append(s, NUL)}
<1>1. Len(tab) \in Nat /\ Len(s) \in Nat
  OBVIOUS
<1>2. S \in SUBSET (0..Len(tab) - 1)
  BY <1>1
<1>3. FindString(tab, s) = FirstOf(S, -1)
  BY DEF FindString
<1> HIDE DEF S
<1>4. 0 \in Int /\ Len(tab) - 1 \in Int
  BY <1>1
<1> QED
  BY <1>2, <1>3, <1>4, FirstOfRange

LEMMA StringAtIs ==
  ASSUME NEW f \in Blob, NEW o \in -Len(f.strings)..Len(f.strings) - 1
  PROVE  StringAt(f, o) \in Seq(Characters)
<1> DEFINE n == Len(f.strings)
           from == (IF o < 0 THEN n ELSE 0) + o + 1
           S == {k \in from..n : f.strings[k] = NUL}
           nul == FirstOf(S, n + 1)
<1>1. n \in Nat /\ f.strings \in Seq(Characters) /\ o \in Int
  BY BlobParts
<1>2. from \in Int /\ from >= 1
  BY <1>1
<1>3. S \in SUBSET (1..n)
  BY <1>1, <1>2
<1>4. StringAt(f, o) = SubSeq(f.strings, from, nul - 1)
  BY DEF StringAt
<1> HIDE DEF S, from, n
<1>5. nul \in Int /\ nul <= n + 1
  <2>1. 1 \in Int /\ n \in Int
    BY <1>1
  <2>2. (S = {} /\ nul = n + 1) \/ nul \in S
    BY <1>3, <2>1, FirstOfRange, Zenon
  <2>3. \A k \in S : k \in Int /\ k <= n + 1
    BY <1>3, <2>1
  <2> HIDE DEF nul
  <2> QED
    BY <1>1, <2>2, <2>3
<1> HIDE DEF nul
<1>6. \A i \in from..nul - 1 : f.strings[i] \in Characters
  <2> SUFFICES ASSUME NEW i \in from..nul - 1
               PROVE  f.strings[i] \in Characters
    OBVIOUS
  <2>1. i \in 1..n
    BY <1>1, <1>2, <1>5
  <2> QED
    BY <1>1, <2>1 DEF n
<1>7. nul - 1 \in Int
  BY <1>5
<1> QED
  BY <1>2, <1>4, <1>6, <1>7, SubSeqProperties

LEMMA CountIn ==
  ASSUME NEW a \in Int, NEW b \in Int, NEW S \in SUBSET (a..b)
  PROVE  Cardinality(S) \in Nat
<1>1. IsFiniteSet(S)
  BY FS_Interval, FS_Subset
<1> QED
  BY <1>1, FS_CardinalityType

\* The next node is further on, within the block, or an error.
LEMMA NextNode ==
  ASSUME NEW f \in Blob, NEW offset \in Int, NEW depth \in Int, offset <= Len(f.struct)
  PROVE  LET p == fdt_next_node(f, offset, depth)
         IN /\ p \in [at : Int, depth : Int]
            /\ p.at < 0 \/ (p.at > offset /\ p.at <= Len(f.struct))
<1> DEFINE n == Len(f.struct)
           from == IF offset < 0 THEN 0 ELSE offset + 1
           tag(k) == fdt_next_tag(f, k)
           left(k) == depth - Cardinality({j \in from..k - 1 : tag(j) = "END_NODE"})
           S == {k \in from..n : \/ tag(k) \in {"BEGIN_NODE", "END", "TRUNCATED"}
                                 \/ tag(k) = "END_NODE" /\ left(k) <= 0}
           stop == Min(S)
           p == fdt_next_node(f, offset, depth)
<1>1. n \in Nat
  BY BlobParts
<1>2. CASE offset >= 0 /\ ~IsNode(f, offset)
  <2>1. p = [at |-> BADOFFSET, depth |-> depth]
    BY <1>2 DEF fdt_next_node
  <2> QED
    BY <2>1 DEF BADOFFSET
<1>3. CASE ~ (offset >= 0 /\ ~IsNode(f, offset))
  <2>1. from \in Int /\ from >= 0 /\ from > offset /\ from <= n
    <3>1. CASE offset < 0
      BY <1>1, <3>1
    <3>2. CASE ~ (offset < 0)
      <4>1. IsNode(f, offset)
        BY <1>3, <3>2
      <4>2. offset \in 0..n - 1
        BY <4>1 DEF IsNode, fdt_next_tag
      <4> QED
        BY <1>1, <3>2, <4>2
    <3> QED
      BY <3>1, <3>2
  <2>2. n \in S
    <3>1. tag(n) = "TRUNCATED"
      BY <1>1 DEF fdt_next_tag
    <3> QED
      BY <1>1, <2>1, <3>1
  <2>3. \A k \in Int : left(k) \in Int
    <3> SUFFICES ASSUME NEW k \in Int
                 PROVE  left(k) \in Int
      OBVIOUS
    <3> DEFINE E == {j \in from..k - 1 : tag(j) = "END_NODE"}
    <3>1. k - 1 \in Int /\ E \in SUBSET (from..k - 1)
      BY <2>1
    <3> HIDE DEF E
    <3>2. Cardinality(E) \in Nat
      BY <2>1, <3>1, CountIn
    <3>3. left(k) = depth - Cardinality(E)
      BY DEF E
    <3> QED
      BY <3>2, <3>3
  <2>4. S \in SUBSET (from..n) /\ S # {}
    BY <2>2
  <2>5. stop \in S
    <3> HIDE DEF S
    <3>1. n \in Int
      BY <1>1
    <3> QED
      BY <2>1, <2>4, <3>1, LeastInt
  <2>6. p = CASE tag(stop) = "BEGIN_NODE" -> [at |-> stop, depth |-> left(stop) + 1]
              [] tag(stop) = "END_NODE"   -> [at |-> stop + 1, depth |-> left(stop) - 1]
              [] tag(stop) = "END"        -> [at |-> NOTFOUND, depth |-> left(stop)]
              [] tag(stop) = "TRUNCATED"  -> [at |-> TRUNCATED, depth |-> left(stop)]
    BY <1>3, Zenon DEF fdt_next_node
  <2>7. stop \in from..n /\ tag(stop) \in {"BEGIN_NODE", "END", "TRUNCATED", "END_NODE"}
    BY <2>5
  <2>10. \A k \in Int : tag(k) = "END_NODE" => k < n
    BY <1>1 DEF fdt_next_tag
  <2> HIDE DEF stop, S, p
  <2>8. tag(stop) = "END_NODE" => stop < n
    <3>1. stop \in Int
      BY <1>1, <2>1, <2>7
    <3> HIDE DEF tag
    <3> QED
      BY <2>10, <3>1
  <2>9. left(stop) \in Int /\ stop \in Int
    <3>1. stop \in Int
      BY <1>1, <2>1, <2>7
    <3> HIDE DEF left
    <3> QED
      BY <2>3, <3>1
  <2> HIDE DEF tag, left, from
  <2> QED
    <3>1. CASE tag(stop) = "BEGIN_NODE"
      <4>1. p = [at |-> stop, depth |-> left(stop) + 1]
        BY <2>6, <3>1
      <4> QED
        BY <1>1, <2>1, <2>7, <2>9, <4>1 DEF p
    <3>2. CASE tag(stop) = "END_NODE"
      <4>1. p = [at |-> stop + 1, depth |-> left(stop) - 1]
        BY <2>6, <3>2
      <4> QED
        BY <1>1, <2>1, <2>7, <2>8, <2>9, <3>2, <4>1 DEF p
    <3>3. CASE tag(stop) = "END"
      <4>1. p = [at |-> NOTFOUND, depth |-> left(stop)]
        BY <2>6, <3>3
      <4> QED
        BY <2>9, <4>1 DEF p, NOTFOUND
    <3>4. CASE tag(stop) = "TRUNCATED"
      <4>1. p = [at |-> TRUNCATED, depth |-> left(stop)]
        BY <2>6, <3>4
      <4> QED
        BY <2>9, <4>1 DEF p, TRUNCATED
    <3> QED
      BY <2>7, <3>1, <3>2, <3>3, <3>4
<1> QED
  BY <1>2, <1>3

\* Places a walk can be at.
Places(f) == {p \in [at : Int, depth : Int] : p.at <= Len(f.struct)}

\* A walk inside a node: it ends, outside, with an error or behind where it began.
LEMMA WalkInside ==
  ASSUME NEW f \in Blob, NEW node \in 0..Len(f.struct) - 1
  PROVE  LET way == Walk(f, [at |-> node, depth |-> 0], Inside)
         IN \E n \in Nat \ {0} :
              /\ Len(way) = n + 1 /\ DOMAIN way = 1..n + 1
              /\ \A i \in 1..n + 1 : way[i] \in Places(f)
              /\ Last(way) \in Places(f) /\ ~Inside(Last(way))
              /\ Last(way).at < 0 \/ Last(way).at > node
<1> DEFINE m == Len(f.struct) + 2
           start == [at |-> node, depth |-> 0]
           Go(p) == Inside(p)
           V == Places(f)
           step == [i \in 1..m |-> [p \in V |->
                     IF Go(p) THEN fdt_next_node(f, p.at, p.depth) ELSE p]]
           Is(w) == w = [n \in 0..m |->
                      IF n = 0 THEN start
                      ELSE LET p == w[n - 1]
                           IN IF Go(p) THEN fdt_next_node(f, p.at, p.depth) ELSE p]
           place == CHOOSE w : Is(w)
           S == {n \in 0..m : ~Go(place[n])}
           end == Min(S)
           way == Walk(f, start, Inside)
<1>1. m \in Nat /\ m = Len(f.struct) + 2 /\ Len(f.struct) \in Nat
  BY BlobParts
<1>2. start \in V
  BY <1>1 DEF Places
<1>3. \A p \in V : fdt_next_node(f, p.at, p.depth) \in V
  <2> SUFFICES ASSUME NEW p \in V
               PROVE  fdt_next_node(f, p.at, p.depth) \in V
    OBVIOUS
  <2>1. p.at \in Int /\ p.depth \in Int /\ p.at <= Len(f.struct)
    BY DEF Places
  <2>2. LET q == fdt_next_node(f, p.at, p.depth)
        IN /\ q \in [at : Int, depth : Int]
           /\ q.at < 0 \/ (q.at > p.at /\ q.at <= Len(f.struct))
    BY <2>1, NextNode
  <2> DEFINE q == fdt_next_node(f, p.at, p.depth)
  <2>3. q \in [at : Int, depth : Int] /\ (q.at < 0 \/ q.at <= Len(f.struct))
    BY <2>2
  <2> HIDE DEF q
  <2>4. q.at \in Int
    BY <2>3
  <2>5. q.at <= Len(f.struct)
    BY <1>1, <2>3, <2>4
  <2>6. q \in V
    BY <2>3, <2>5 DEF Places
  <2> QED
    BY <2>6 DEF q
<1>4. step \in [1..m -> [V -> V]]
  BY <1>3
<1>5. \A i \in 1..m, p \in V :
        step[i][p] = IF Go(p) THEN fdt_next_node(f, p.at, p.depth) ELSE p
  OBVIOUS
<1> HIDE DEF step, m, start, V, Go
<1>6. PICK w : Follows(w, V, start, m, step)
  BY <1>1, <1>2, <1>4, Recursion
<1>7. Is(w)
  <2>1. w \in [0..m -> V] /\ w[0] = start /\ \A i \in 1..m : w[i] = step[i][w[i - 1]]
    BY <1>6 DEF Follows
  <2>2. ASSUME NEW n \in 0..m, n # 0
        PROVE  w[n] = IF Go(w[n - 1]) THEN fdt_next_node(f, w[n - 1].at, w[n - 1].depth) ELSE w[n - 1]
    <3>1. n \in 1..m /\ n - 1 \in 0..m
      BY <1>1, <2>2
    <3>2. w[n - 1] \in V /\ w[n] = step[n][w[n - 1]]
      BY <2>1, <3>1
    <3> QED
      BY <1>5, <3>1, <3>2
  <2>3. \A n \in 0..m : w[n] = IF n = 0 THEN start
                               ELSE IF Go(w[n - 1]) THEN fdt_next_node(f, w[n - 1].at, w[n - 1].depth)
                                    ELSE w[n - 1]
    BY <2>1, <2>2
  <2> QED
    BY <2>1, <2>3
<1>8. Is(place)
  BY <1>7
<1>9. way = [n \in 1..end + 1 |-> place[n - 1]]
  BY Zenon DEF Walk, m, start, Go, Inside
<1> HIDE DEF place
<1>10. /\ place[0] = start
       /\ \A n \in 1..m : place[n] = IF Go(place[n - 1])
                                    THEN fdt_next_node(f, place[n - 1].at, place[n - 1].depth)
                                    ELSE place[n - 1]
  <2>1. 0 \in 0..m /\ \A n \in 1..m : n \in 0..m /\ n # 0
    BY <1>1
  <2>2. \A n \in 0..m : place[n] = IF n = 0 THEN start
                                   ELSE IF Go(place[n - 1])
                                        THEN fdt_next_node(f, place[n - 1].at, place[n - 1].depth)
                                        ELSE place[n - 1]
    BY <1>8
  <2> QED
    BY <2>1, <2>2
<1> HIDE DEF Is
<1>11. \A n \in 0..m : place[n] \in V
  <2> DEFINE T == {n \in Nat : n <= m => place[n] \in V}
  <2>1. 0 \in T
    BY <1>2, <1>10
  <2>2. ASSUME NEW n \in T
        PROVE  n + 1 \in T
    <3> SUFFICES ASSUME n + 1 <= m
                 PROVE  place[n + 1] \in V
      OBVIOUS
    <3>1. n + 1 \in 1..m /\ (n + 1) - 1 = n /\ place[n] \in V
      BY <1>1
    <3> QED
      BY <1>3, <1>10, <3>1
  <2>3. T \in SUBSET Nat
    OBVIOUS
  <2> HIDE DEF T
  <2>4. T = Nat
    BY <2>1, <2>2, <2>3, SetInduction
  <2> QED
    BY <2>4 DEF T
\* Inside the node every step goes further on.
<1>12. ASSUME NEW l \in 0..m, \A j \in 0..l - 1 : Go(place[j])
       PROVE  place[l].at < 0 \/ place[l].at >= node + l
  <2> DEFINE T == {n \in Nat : n <= l => place[n].at < 0 \/ place[n].at >= node + n}
  <2>1. 0 \in T
    BY <1>10 DEF start
  <2>2. ASSUME NEW n \in T
        PROVE  n + 1 \in T
    <3> SUFFICES ASSUME n + 1 <= l
                 PROVE  place[n + 1].at < 0 \/ place[n + 1].at >= node + (n + 1)
      OBVIOUS
    <3>1. n + 1 \in 1..m /\ n \in 0..m /\ (n + 1) - 1 = n /\ n \in 0..l - 1 /\ n \in Nat
      BY <1>1
    <3>2. Go(place[n])
      BY <1>12, <3>1
    <3> DEFINE a == place[n].at
               d == place[n].depth
    <3>3. a \in Int /\ d \in Int /\ a <= Len(f.struct)
      BY <1>11, <3>1 DEF V, Places
    <3>4. a >= 0 /\ a >= node + n
      BY <3>1, <3>2, <3>3 DEF Go, Inside
    <3>5. place[n + 1] = fdt_next_node(f, a, d)
      BY <1>10, <3>1, <3>2
    <3> HIDE DEF a, d
    <3>6. LET p == fdt_next_node(f, a, d)
          IN /\ p \in [at : Int, depth : Int]
             /\ p.at < 0 \/ (p.at > a /\ p.at <= Len(f.struct))
      BY <3>3, NextNode
    <3>7. place[n + 1].at \in Int /\ (place[n + 1].at < 0 \/ place[n + 1].at > a)
      BY <3>5, <3>6
    <3> QED
      BY <3>1, <3>3, <3>4, <3>7
  <2>3. T \in SUBSET Nat
    OBVIOUS
  <2> HIDE DEF T
  <2>4. T = Nat
    BY <2>1, <2>2, <2>3, SetInduction
  <2> QED
    BY <2>4 DEF T
<1>13. S # {}
  <2> SUFFICES ASSUME S = {} PROVE FALSE
    OBVIOUS
  <2>1. \A j \in 0..m : Go(place[j])
    OBVIOUS
  <2>2. m \in 0..m /\ \A j \in 0..m - 1 : j \in 0..m
    BY <1>1
  <2>3. place[m].at < 0 \/ place[m].at >= node + m
    BY <1>12, <2>1, <2>2
  <2>4. place[m].at >= 0 /\ place[m].at \in Int /\ place[m].at <= Len(f.struct)
    BY <1>11, <2>1, <2>2 DEF V, Places, Go, Inside
  <2> QED
    BY <1>1, <2>3, <2>4
<1>14. end \in S /\ \A n \in S : end <= n
  <2>1. S \in SUBSET (0..m) /\ 0 \in Int /\ m \in Int
    BY <1>1
  <2> HIDE DEF S
  <2> QED
    BY <1>13, <2>1, LeastInt
<1>15. end \in 0..m /\ ~Go(place[end])
  BY <1>14
<1>16. \A n \in 0..end - 1 : Go(place[n])
  <2> SUFFICES ASSUME NEW n \in 0..end - 1, ~Go(place[n])
               PROVE  FALSE
    OBVIOUS
  <2> HIDE DEF end
  <2>1. n \in 0..m /\ ~ (end <= n)
    BY <1>1, <1>15
  <2> QED
    BY <1>14, <2>1
<1> HIDE DEF S, end
<1>17. end # 0
  BY <1>10, <1>15 DEF Go, Inside, start
<1>18. place[end].at < 0 \/ place[end].at > node
  <2>1. place[end].at < 0 \/ place[end].at >= node + end
    BY <1>12, <1>15, <1>16
  <2>2. place[end].at \in Int /\ end \in Nat
    BY <1>1, <1>11, <1>15 DEF V, Places
  <2> QED
    BY <1>17, <2>1, <2>2
<1>19. end \in Nat \ {0} /\ \A i \in 1..end + 1 : i - 1 \in 0..m
  BY <1>1, <1>15, <1>17
<1> HIDE DEF way
<1>20. way \in Seq(V) /\ Len(way) = end + 1 /\ DOMAIN way = 1..end + 1
  <2>1. way \in [1..end + 1 -> V]
    BY <1>9, <1>11, <1>19
  <2>2. end + 1 \in Nat
    BY <1>19
  <2> QED
    BY <2>1, <2>2
<1>21. Last(way) = place[end]
  <2>1. end + 1 \in 1..end + 1 /\ (end + 1) - 1 = end
    BY <1>19
  <2> QED
    BY <1>9, <1>20, <2>1 DEF Last
<1>22. \A i \in 1..end + 1 : way[i] \in V
  BY <1>20
<1>23. place[end] \in V /\ ~Inside(place[end])
  BY <1>11, <1>15 DEF Go
<1> QED
  BY <1>18, <1>19, <1>20, <1>21, <1>22, <1>23 DEF way, start, V

LEMMA EndOfNode ==
  ASSUME NEW f \in Blob, NEW node \in 0..Len(f.struct) - 1
  PROVE  LET end == NodeEndOffset(f, node)
         IN end \in Int /\ (end < 0 \/ end \in node + 1..Len(f.struct))
<1> DEFINE way == Walk(f, [at |-> node, depth |-> 0], Inside)
           p == Last(way)
<1>1. p \in Places(f) /\ (p.at < 0 \/ p.at > node)
  BY WalkInside
<1>2. NodeEndOffset(f, node) = p.at
  BY Zenon DEF NodeEndOffset
<1> HIDE DEF p
<1>3. p.at \in Int /\ p.at <= Len(f.struct) /\ Len(f.struct) \in Nat
  BY <1>1, BlobParts DEF Places
<1> QED
  BY <1>1, <1>2, <1>3

LEMMA SubnodeOffset ==
  ASSUME NEW f \in Blob, NEW node \in 0..Len(f.struct) - 1, NEW name
  PROVE  fdt_subnode_offset(f, node, name) \in Int
<1> DEFINE way == Walk(f, [at |-> node, depth |-> 0], Inside)
           hits == {i \in 1..Len(way) - 1 : way[i].depth = 1 /\ NodenameEq(f, way[i].at, name)}
<1>1. PICK n \in Nat \ {0} : /\ Len(way) = n + 1
                            /\ \A i \in 1..n + 1 : way[i] \in Places(f)
                            /\ Last(way) \in Places(f)
  BY WalkInside
<1>2. fdt_subnode_offset(f, node, name) =
        IF hits # {} THEN way[Min(hits)].at
        ELSE IF Last(way).depth < 0 THEN NOTFOUND ELSE Last(way).at
  BY Zenon DEF fdt_subnode_offset
<1> HIDE DEF way
<1>3. CASE hits # {}
  <2>1. hits \in SUBSET (1..n) /\ 1 \in Int /\ n \in Int
    BY <1>1
  <2>5. \A i \in hits : i \in 1..n + 1
    BY <2>1
  <2> HIDE DEF hits
  <2>2. Min(hits) \in hits
    BY <1>3, <2>1, LeastInt
  <2>3. Min(hits) \in 1..n + 1
    BY <2>2, <2>5
  <2>4. way[Min(hits)].at \in Int
    BY <1>1, <2>3 DEF Places
  <2> QED
    BY <1>2, <1>3, <2>4
<1>4. CASE hits = {}
  BY <1>1, <1>2, <1>4 DEF Places, NOTFOUND
<1> QED
  BY <1>3, <1>4

LEMMA PropertyFrom ==
  ASSUME NEW f \in Blob, NEW offset \in 0..Len(f.struct), NEW wanted
  PROVE  LET k == PropFrom(f, offset, wanted)
         IN k \in Int /\ (k >= 0 => k \in 0..Len(f.struct) - 1 /\ IsProp(f, k))
<1> DEFINE S == {j \in offset..Len(f.struct) :
                  fdt_next_tag(f, j) # "NOP" /\ (IsProp(f, j) => j \in wanted)}
           k == Min(S)
           r == PropFrom(f, offset, wanted)
<1>1. Len(f.struct) \in Nat
  BY BlobParts
<1>2. Len(f.struct) \in S
  BY <1>1 DEF fdt_next_tag, IsProp
<1>3. S \in SUBSET (offset..Len(f.struct)) /\ offset \in Int /\ Len(f.struct) \in Int
  BY <1>1
<1>4. r = CASE fdt_next_tag(f, k) = "PROP"      -> k
            [] fdt_next_tag(f, k) = "END"       -> BADSTRUCTURE
            [] fdt_next_tag(f, k) = "TRUNCATED" -> TRUNCATED
            [] OTHER                            -> NOTFOUND
  BY Zenon DEF PropFrom
<1> HIDE DEF S, r
<1>5. k \in S
  BY <1>2, <1>3, LeastInt
<1>6. k \in offset..Len(f.struct)
  BY <1>3, <1>5
<1> HIDE DEF k
<1>7. CASE fdt_next_tag(f, k) = "PROP"
  <2>1. r = k
    BY <1>4, <1>7
  <2>2. k \in 0..Len(f.struct) - 1
    BY <1>1, <1>6, <1>7 DEF fdt_next_tag
  <2> QED
    BY <1>7, <2>1, <2>2 DEF r, IsProp
<1>8. CASE fdt_next_tag(f, k) # "PROP"
  <2>1. r \in {BADSTRUCTURE, TRUNCATED, NOTFOUND}
    BY <1>4, <1>8
  <2>2. r \in Int /\ r < 0
    BY <2>1 DEF BADSTRUCTURE, TRUNCATED, NOTFOUND
  <2> QED
    BY <2>2 DEF r
<1> QED
  BY <1>7, <1>8

LEMMA GetProperty ==
  ASSUME NEW f \in Blob, NEW node \in 0..Len(f.struct) - 1, NEW name
  PROVE  LET k == fdt_get_property(f, node, name)
         IN k \in Int /\ (k >= 0 => k \in 0..Len(f.struct) - 1 /\ IsProp(f, k))
<1>1. node + 1 \in 0..Len(f.struct)
  BY BlobParts
<1>2. CASE IsNode(f, node)
  <2>1. PICK wanted : fdt_get_property(f, node, name) = PropFrom(f, node + 1, wanted)
    BY <1>2 DEF fdt_get_property
  <2> QED
    BY <1>1, <2>1, PropertyFrom
<1>3. CASE ~IsNode(f, node)
  BY <1>3 DEF fdt_get_property, BADOFFSET
<1> QED
  BY <1>2, <1>3

-----------------------------------------------------------------------------
(* Blobs that stay sound.                                                   *)

LEMMA NamedAreCells ==
  ASSUME NEW m, NEW n, NEW s \in Seq(NamedCells(m, n))
  PROVE  s \in Seq(Cells)
<1>1. NamedCells(m, n) \subseteq Cells
  BY DEF NamedCells
<1> QED
  BY <1>1, SeqMonotonic

\* A longer table has the names of a shorter one.
LEMMA NamedMore ==
  ASSUME NEW m, NEW a \in Nat, NEW b \in Nat, a <= b
  PROVE  NamedCells(m, a) \subseteq NamedCells(m, b)
<1>1. -a..-1 \subseteq -b..-1 /\ 0..a - 1 \subseteq 0..b - 1
  OBVIOUS
<1> QED
  BY <1>1 DEF NamedCells

LEMMA NewCells ==
  /\ \A tag \in {"NOP", "END_NODE", "END"} :
       Only(tag) \in Cells /\ Only(tag).tag = tag /\ CellSize(Only(tag)) = TagSize
  /\ \A name \in Names \cup {<<>>} :
       /\ BeginNode(name) \in Cells /\ BeginNode(name).tag = "BEGIN_NODE"
       /\ CellSize(BeginNode(name)) = TagSize + Align(Len(name) + 1)
  /\ \A o \in Int, val \in Seq(Characters) :
       /\ Prop(o, val) \in Cells /\ Prop(o, val).tag = "PROP" /\ Prop(o, val).nameoff = o
       /\ CellSize(Prop(o, val)) = 3 * TagSize + Align(Len(val))
<1>1. ASSUME NEW tag \in {"NOP", "END_NODE", "END"}
      PROVE  Only(tag) \in Cells /\ Only(tag).tag = tag /\ CellSize(Only(tag)) = TagSize
  BY DEF Only, Cells, CellSize
<1>2. ASSUME NEW name \in Names \cup {<<>>}
      PROVE  /\ BeginNode(name) \in Cells /\ BeginNode(name).tag = "BEGIN_NODE"
             /\ CellSize(BeginNode(name)) = TagSize + Align(Len(name) + 1)
  BY DEF BeginNode, Cells, CellSize
<1>3. ASSUME NEW o \in Int, NEW val \in Seq(Characters)
      PROVE  /\ Prop(o, val) \in Cells /\ Prop(o, val).tag = "PROP" /\ Prop(o, val).nameoff = o
             /\ CellSize(Prop(o, val)) = 3 * TagSize + Align(Len(val))
  BY DEF Prop, Cells, CellSize
<1> QED
  BY <1>1, <1>2, <1>3

LEMMA NoNameNeeded ==
  ASSUME NEW m, NEW n, NEW c \in Cells, c.tag # "PROP"
  PROVE  c \in NamedCells(m, n)
BY DEF NamedCells

LEMMA DataSizeIs ==
  ASSUME NEW f \in Blob
  PROVE  /\ OffDtStruct(f) \in Nat
         /\ DataSize(f) \in Nat
         /\ DataSize(f) = OffDtStruct(f) + f.structSize + Len(f.strings)
<1>1. f.mapAt \in Nat /\ RsvSize \in Nat
  BY FdtEditAssumption, BlobParts
<1>2. RsvSize * Len(f.rsv) \in Nat
  BY <1>1, BlobParts
<1>3. OffDtStruct(f) \in Nat
  BY <1>1, <1>2 DEF OffDtStruct
<1>4. DataSize(f) = OffDtStruct(f) + f.structSize + Len(f.strings)
  BY DEF DataSize
<1> QED
  BY <1>3, <1>4, BlobParts

\* The unsigned numbers are those of a blob with its map behind the header.
LEMMA HasRoom ==
  ASSUME NEW f, Sound(f), EndsMap(f)
  PROVE  DataSize(f) <= f.size /\ ~Overruns(f) /\ OffDtStruct(f) >= f.mapAt
<1>1. f \in Blob
  BY DEF Sound
<1>2. f.rsv # <<>>
  BY DEF EndsMap
<1>3. /\ DataSize(f) = OffDtStruct(f) + f.structSize + Len(f.strings) /\ OffDtStruct(f) \in Nat
      /\ f.structSize \in Nat /\ Len(f.strings) \in Nat /\ f.size \in Nat
      /\ f.mapAt \in Nat /\ Len(f.rsv) \in Nat /\ RsvSize \in Nat
  BY <1>1, BlobParts, DataSizeIs, FdtEditAssumption
<1>4. DataSize(f) <= f.size
  BY <1>2 DEF Sound
<1>5. ~Overruns(f)
  BY <1>3, <1>4 DEF Overruns
<1>6. RsvSize * Len(f.rsv) \in Nat
  BY <1>3
<1>7. OffDtStruct(f) >= f.mapAt
  BY <1>3, <1>6 DEF OffDtStruct
<1> QED
  BY <1>4, <1>5, <1>7

LEMMA ReturnsSound ==
  ASSUME NEW f, NEW r \in Int, Sound(f), Returns(f, r)
  PROVE  Inv'
BY DEF Returns, Inv

\* Other cells, as much larger or smaller as the header is told.
LEMMA SoundRestructured ==
  ASSUME NEW f, Sound(f), NEW cells \in Seq(NamedCells(f.magic, Len(f.strings))),
         NEW delta \in Int, SizeOf(cells) = SizeOf(f.struct) + delta,
         DataSize(f) + delta <= f.size, EndsMap(f), f.magic = "fdt" \/ cells # <<>>
  PROVE  Sound(Restructured(f, cells, delta))
<1> DEFINE g == Restructured(f, cells, delta)
<1>1. f \in Blob
  BY DEF Sound
<1>2. cells \in Seq(Cells)
  BY NamedAreCells
<1>3. f.structSize + delta \in Nat /\ f.structSize + delta = SizeOf(cells)
  BY <1>2, SizeOfNat DEF Sound
<1>4. /\ g \in Blob /\ g.magic = f.magic /\ g.rsv = f.rsv /\ g.struct = cells
      /\ g.mapAt = f.mapAt /\ g.structSize = f.structSize + delta /\ g.strings = f.strings /\ g.size = f.size
  BY <1>1, <1>2, <1>3 DEF Restructured, Blob, Blobs
<1> HIDE DEF g
<1>5. DataSize(g) <= g.size
  <2>1. DataSize(g) = DataSize(f) + delta
    <3>1. OffDtStruct(g) = OffDtStruct(f)
      BY <1>4 DEF OffDtStruct
    <3>2. f.structSize \in Int /\ Len(f.strings) \in Int /\ OffDtStruct(f) \in Int
      BY <1>1, BlobParts, DataSizeIs
    <3> QED
      BY <1>4, <3>1, <3>2 DEF DataSize
  <2> QED
    BY <1>4, <2>1
<1>6. EndsMap(g)
  BY <1>4 DEF EndsMap
<1>7. Sound(g)
  BY <1>3, <1>4, <1>5, <1>6 DEF Sound
<1> QED
  BY <1>7 DEF g

LEMMA SpliceSound ==
  ASSUME NEW f, Sound(f), f.magic = "fdt", NEW cells \in Seq(NamedCells(f.magic, Len(f.strings))),
         NEW delta \in Int, SizeOf(cells) = SizeOf(f.struct) + delta, NEW r \in Int,
         Splice(f, cells, delta, r)
  PROVE  Inv'
<1>1. EndsMap(f)
  BY DEF Sound
<1>2. CASE Room(f, delta)
  <2>1. Sound(Restructured(f, cells, delta))
    BY <1>1, <1>2, SoundRestructured DEF Room
  <2>2. Returns(Restructured(f, cells, delta), r)
    BY <1>2 DEF Splice
  <2> QED
    BY <2>1, <2>2, ReturnsSound
<1>3. CASE ~Room(f, delta)
  <2>1. Returns(f, NOSPACE) /\ NOSPACE \in Int
    BY <1>3 DEF Splice, NOSPACE
  <2> QED
    BY <2>1, ReturnsSound
<1> QED
  BY <1>2, <1>3

\* The writer's cell at the end.
LEMMA GrabSound ==
  ASSUME Inv, fdt.magic = "sw", EndsMap(fdt),
         NEW cell \in NamedCells(fdt.magic, Len(fdt.strings)), Grab(cell)
  PROVE  Inv'
<1>1. Sound(fdt) /\ fdt \in Blob /\ fdt.struct \in Seq(NamedCells(fdt.magic, Len(fdt.strings)))
  BY DEF Inv, Sound
<1>2. fdt.struct \in Seq(Cells) /\ cell \in Cells
  BY <1>1, NamedAreCells DEF NamedCells
<1> DEFINE cells == Append(fdt.struct, cell)
<1>3. /\ cells \in Seq(NamedCells(fdt.magic, Len(fdt.strings))) /\ cells # <<>>
      /\ SizeOf(cells) = SizeOf(fdt.struct) + CellSize(cell) /\ CellSize(cell) \in Int
  BY <1>1, <1>2, SizeOfAppended, CellIs
<1> HIDE DEF cells
<1>4. CASE CanGrab(fdt, CellSize(cell))
  <2>1. DataSize(fdt) + CellSize(cell) <= fdt.size
    <3>1. /\ DataSize(fdt) = OffDtStruct(fdt) + fdt.structSize + Len(fdt.strings)
          /\ OffDtStruct(fdt) \in Int /\ fdt.structSize \in Int /\ Len(fdt.strings) \in Int
          /\ fdt.size \in Int /\ fdt.structSize >= 0 /\ DataSize(fdt) <= fdt.size
      BY <1>1, DataSizeIs, BlobParts, HasRoom
    <3> DEFINE left == fdt.size - OffDtStruct(fdt) - Len(fdt.strings)
    <3>2. left < 0 \/ fdt.structSize + CellSize(cell) <= left
      BY <1>4 DEF CanGrab
    <3>3. left \in Int /\ left >= fdt.structSize /\ fdt.size = left + OffDtStruct(fdt) + Len(fdt.strings)
      BY <3>1
    <3> HIDE DEF left
    <3>4. fdt.structSize + CellSize(cell) <= left
      BY <1>3, <3>1, <3>2, <3>3
    <3> QED
      BY <1>3, <3>1, <3>3, <3>4
  <2>2. Sound(Restructured(fdt, cells, CellSize(cell)))
    BY <1>1, <1>3, <2>1, SoundRestructured
  <2>3. Returns(Restructured(fdt, cells, CellSize(cell)), 0)
    BY <1>4 DEF Grab, cells
  <2> QED
    BY <2>2, <2>3, ReturnsSound
<1>5. CASE ~CanGrab(fdt, CellSize(cell))
  <2>1. Returns(fdt, NOSPACE) /\ NOSPACE \in Int
    BY <1>5 DEF Grab, NOSPACE
  <2> QED
    BY <1>1, <2>1, ReturnsSound
<1> QED
  BY <1>4, <1>5

-----------------------------------------------------------------------------
(* Writing in order.                                                        *)

LEMMA InitSound ==
  ASSUME Init
  PROVE  Inv
<1>1. PICK n \in Buffers : fdt = [magic |-> "sw", mapAt |-> RsvMapOffset, rsv |-> <<>>,
                                  struct |-> <<>>, structSize |-> 0, strings |-> <<>>, size |-> n]
  BY DEF Init
<1>2. n \in Nat
  BY FdtEditAssumption
<1>3. /\ <<>> \in Seq(Sizes \cup {0}) /\ <<>> \in Seq(Cells) /\ <<>> \in Seq(Characters)
      /\ <<>> \in Seq(NamedCells(fdt.magic, Len(fdt.strings)))
  OBVIOUS
<1>4. fdt \in Blob
  BY <1>1, <1>2, <1>3 DEF Blob, Blobs
<1>5. fdt.rsv = <<>> /\ fdt.mapAt = RsvMapOffset
  BY <1>1
<1>6. Sound(fdt)
  BY <1>1, <1>3, <1>4, <1>5, SizeOfNone DEF Sound
<1> QED
  BY <1>6 DEF Init, Inv

LEMMA AddReservemapEntrySound ==
  ASSUME Inv, NEW size \in Sizes \cup {0}, AddReservemapEntry(size)
  PROVE  Inv'
<1>1. Sound(fdt) /\ fdt \in Blob /\ fdt.magic = "sw"
  BY DEF Inv, Sound, AddReservemapEntry, Writing
<1>2. CASE Returns(fdt, BADSTATE) \/ Returns(fdt, NOSPACE)
  BY <1>1, <1>2, ReturnsSound DEF BADSTATE, NOSPACE
<1>3. CASE ~ (Returns(fdt, BADSTATE) \/ Returns(fdt, NOSPACE))
  <2> DEFINE rsv == Append(fdt.rsv, size)
             g == [fdt EXCEPT !.rsv = rsv]
  <2>1. Returns(g, 0) /\ fdt.structSize = 0 /\ ~ (OffDtStruct(fdt) + RsvSize > fdt.size)
    BY <1>3 DEF AddReservemapEntry
  <2>2. fdt.struct = <<>> /\ fdt.strings = <<>>
    BY <1>1, <2>1, BlobParts, SizeOfSome DEF Sound
  <2>3. rsv \in Seq(Sizes \cup {0}) /\ Len(rsv) = Len(fdt.rsv) + 1 /\ Len(fdt.rsv) \in Nat
    BY <1>1, BlobParts
  <2> HIDE DEF rsv
  <2>4. /\ g \in Blob /\ g.rsv = rsv /\ g.magic = "sw" /\ g.struct = <<>> /\ g.structSize = 0
        /\ g.strings = <<>> /\ g.size = fdt.size /\ g.mapAt = fdt.mapAt
    BY <1>1, <2>1, <2>2, <2>3 DEF Blob, Blobs
  <2> HIDE DEF g
  <2>5. DataSize(g) <= g.size
    <3>1. RsvSize \in Nat
      BY FdtEditAssumption
    <3>2. OffDtStruct(g) = OffDtStruct(fdt) + RsvSize
      <4>1. RsvSize * (Len(fdt.rsv) + 1) = RsvSize * Len(fdt.rsv) + RsvSize
        BY <2>3, <3>1
      <4>2. RsvSize * Len(fdt.rsv) \in Nat /\ fdt.mapAt \in Nat
        BY <1>1, <2>3, <3>1, BlobParts
      <4>3. g.mapAt = fdt.mapAt /\ Len(g.rsv) = Len(fdt.rsv) + 1
        BY <2>3, <2>4
      <4>4. OffDtStruct(g) = fdt.mapAt + RsvSize * (Len(fdt.rsv) + 1)
        BY <4>3, Zenon DEF OffDtStruct
      <4>5. OffDtStruct(fdt) = fdt.mapAt + RsvSize * Len(fdt.rsv)
        BY Zenon DEF OffDtStruct
      <4> QED
        BY <3>1, <4>1, <4>2, <4>4, <4>5
    <3>3. OffDtStruct(fdt) \in Nat /\ fdt.size \in Nat
      BY <1>1, DataSizeIs, BlobParts
    <3>4. DataSize(g) = OffDtStruct(fdt) + RsvSize
      BY <2>4, <3>1, <3>2, <3>3 DEF DataSize
    <3> QED
      BY <2>1, <2>4, <3>1, <3>3, <3>4
  <2>6. g.struct \in Seq(NamedCells(g.magic, Len(g.strings)))
    BY <2>4
  <2>7. Sound(g)
    BY <1>1, <2>4, <2>5, <2>6, SizeOfNone DEF Sound
  <2> QED
    BY <2>1, <2>7, ReturnsSound
<1> QED
  BY <1>2, <1>3

LEMMA BeginANodeSound ==
  ASSUME Inv, NEW name \in Names \cup {<<>>}, BeginANode(name)
  PROVE  Inv'
<1>1. fdt.magic = "sw" /\ fdt \in Blob
  BY DEF Inv, Sound, BeginANode, Writing
<1>2. EndsMap(fdt)
  <2>1. fdt.rsv # <<>> /\ Last(fdt.rsv) = 0
    BY DEF BeginANode, MapFinished
  <2>2. Len(fdt.rsv) \in DOMAIN fdt.rsv
    BY <1>1, <2>1, BlobParts
  <2> QED
    BY <2>1, <2>2 DEF EndsMap, Last
<1>3. BeginNode(name) \in NamedCells(fdt.magic, Len(fdt.strings))
  BY NewCells, NoNameNeeded
<1> QED
  BY <1>1, <1>2, <1>3, GrabSound DEF BeginANode

LEMMA EndNodeSound ==
  ASSUME Inv, EndNode
  PROVE  Inv'
<1>1. fdt.magic = "sw" /\ Sound(fdt)
  BY DEF Inv, EndNode, Writing
<1>2. fdt.struct # <<>>
  <2> SUFFICES ASSUME fdt.struct = <<>>
               PROVE  Open = 0
    BY DEF EndNode
  <2>1. DOMAIN fdt.struct = {}
    OBVIOUS
  <2>2. /\ {k \in DOMAIN fdt.struct : fdt.struct[k].tag = "BEGIN_NODE"} = {}
        /\ {k \in DOMAIN fdt.struct : fdt.struct[k].tag = "END_NODE"} = {}
    BY <2>1
  <2> QED
    BY <2>2, FS_EmptySet DEF Open
<1>3. EndsMap(fdt)
  BY <1>1, <1>2 DEF Sound
<1>4. Only("END_NODE") \in NamedCells(fdt.magic, Len(fdt.strings))
  <2>1. Only("END_NODE") \in Cells /\ Only("END_NODE").tag = "END_NODE"
    BY NewCells
  <2> QED
    BY <2>1, NoNameNeeded
<1> QED
  BY <1>1, <1>3, <1>4, GrabSound DEF EndNode

\* The names the writer's cells have are in a table that grew downwards, too; a name for
\* which there is no room is refused unless it is longer than all that is in front.
LEMMA FindAddStringSwIs ==
  ASSUME NEW f, Sound(f), f.magic = "sw", f.struct # <<>>, NEW s \in Seq(Characters)
  PROVE  LET found == FindAddStringSw(f, s)
         IN /\ found.f \in Blob /\ found.f.magic = "sw" /\ found.f.struct = f.struct
            /\ found.f.rsv = f.rsv
            /\ ~Overruns(found.f) => /\ Sound(found.f)
                                     /\ found.at # 0 => found.at \in -Len(found.f.strings)..-1
            /\ Overruns(found.f) => ~ (Len(s) < RsvMapOffset)
<1> DEFINE p == FindString(f.strings, s)
           offset == -Len(f.strings) - Len(s) - 1
           top == OffDtStruct(f) + f.structSize
           strings == Append(s, NUL) \o f.strings
           g == [f EXCEPT !.strings = strings]
           found == FindAddStringSw(f, s)
<1>1. f \in Blob /\ f.strings \in Seq(Characters) /\ Len(f.strings) \in Nat /\ Len(s) \in Nat
  BY BlobParts DEF Sound
<1>2. p = -1 \/ p \in 0..Len(f.strings) - 1
  BY <1>1, FindStringIn
<1>7. EndsMap(f) /\ ~Overruns(f) /\ DataSize(f) <= f.size /\ OffDtStruct(f) >= RsvMapOffset
  BY HasRoom DEF Sound
<1>8. OffDtStruct(f) \in Nat /\ f.structSize \in Nat /\ f.size \in Nat /\ RsvMapOffset \in Nat
  BY <1>1, DataSizeIs, BlobParts, FdtEditAssumption
<1> HIDE DEF p
<1>3. CASE p >= 0
  <2>1. found = [at |-> p - Len(f.strings), f |-> f]
    BY <1>2, <1>3 DEF FindAddStringSw, p
  <2>2. p - Len(f.strings) \in -Len(f.strings)..-1
    BY <1>1, <1>2, <1>3
  <2> QED
    BY <1>1, <1>7, <2>1, <2>2
<1>4. CASE p < 0 /\ f.size + offset \in 0..top - 1
  <2>1. found = [at |-> 0, f |-> f]
    BY <1>2, <1>4 DEF FindAddStringSw, p
  <2> QED
    BY <1>1, <1>7, <2>1
<1>5. CASE p < 0 /\ ~ (f.size + offset \in 0..top - 1)
  <2>1. found = [at |-> offset, f |-> g]
    BY <1>2, <1>5 DEF FindAddStringSw, p
  <2>2. strings \in Seq(Characters) /\ Len(strings) = Len(f.strings) + Len(s) + 1
    <3>1. NUL \in Characters
      BY FdtEditAssumption
    <3>2. Append(s, NUL) \in Seq(Characters) /\ Len(Append(s, NUL)) = Len(s) + 1
      BY <3>1
    <3>3. strings \in Seq(Characters) /\ Len(strings) = (Len(s) + 1) + Len(f.strings)
      BY <1>1, <3>2, ConcatProperties
    <3> HIDE DEF strings
    <3>4. \A a, b \in Nat : (a + 1) + b = b + a + 1
      OBVIOUS
    <3> QED
      BY <1>1, <3>3, <3>4
  <2> HIDE DEF strings
  <2>3. /\ g \in Blob /\ g.magic = "sw" /\ g.rsv = f.rsv /\ g.struct = f.struct
        /\ g.structSize = f.structSize /\ g.strings = strings /\ g.size = f.size
        /\ g.mapAt = f.mapAt
    BY <1>1, <2>2 DEF Blob, Blobs
  <2> HIDE DEF g
  <2>4. ASSUME ~Overruns(g)
        PROVE  DataSize(g) <= g.size
    <3>1. OffDtStruct(g) = OffDtStruct(f)
      BY <2>3 DEF OffDtStruct
    <3>2. f.size + offset = f.size - Len(strings) /\ Len(strings) <= f.size
      BY <1>1, <1>8, <2>2, <2>3, <2>4 DEF Overruns
    <3>3. f.size - Len(strings) >= OffDtStruct(f) + f.structSize
      BY <1>1, <1>5, <1>8, <2>2, <3>2
    <3> QED
      BY <1>1, <1>8, <2>2, <2>3, <3>1, <3>3 DEF DataSize
  <2>8. ASSUME Overruns(g)
        PROVE  ~ (Len(s) < RsvMapOffset)
    <3>1. OffDtStruct(f) + f.structSize + Len(f.strings) <= f.size
      BY <1>7 DEF DataSize
    <3>2. Len(f.strings) + Len(s) + 1 > f.size
      BY <2>2, <2>3, <2>8 DEF Overruns
    <3> QED
      BY <1>1, <1>7, <1>8, <3>1, <3>2
  <2>5. g.struct \in Seq(NamedCells(g.magic, Len(g.strings)))
    <3>1. NamedCells("sw", Len(f.strings)) \subseteq NamedCells("sw", Len(strings))
      <4>1. Len(strings) \in Nat /\ Len(f.strings) <= Len(strings)
        BY <1>1, <2>2
      <4> QED
        BY <1>1, <4>1, NamedMore
    <3>2. f.struct \in Seq(NamedCells("sw", Len(f.strings)))
      BY DEF Sound
    <3> QED
      BY <2>3, <3>1, <3>2, SeqMonotonic
  <2>6. ~Overruns(g) => Sound(g)
    BY <2>3, <2>4, <2>5 DEF Sound, EndsMap
  <2>7. offset \in -Len(strings)..-1
    BY <1>1, <2>2
  <2> QED
    BY <2>1, <2>3, <2>6, <2>7, <2>8
<1> QED
  BY <1>2, <1>3, <1>4, <1>5

LEMMA PropertySound ==
  ASSUME Inv, NEW name \in Props, NEW val \in Values, Property(name, val)
  PROVE  Inv' \/ Lost'
<1> DEFINE found == FindAddStringSw(fdt, name)
           g == found.f
           lost == [g EXCEPT !.magic = "lost"]
           cell == Prop(found.at, val)
           cells == Append(fdt.struct, cell)
<1>1. Sound(fdt) /\ fdt.magic = "sw" /\ fdt.struct # <<>>
  BY DEF Inv, Property, Writing
<1>2. name \in Seq(Characters) /\ val \in Seq(Characters)
  BY FdtEditAssumption
<1>3. /\ g \in Blob /\ g.magic = "sw" /\ g.struct = fdt.struct /\ g.rsv = fdt.rsv
      /\ ~Overruns(g) => Sound(g) /\ (found.at # 0 => found.at \in -Len(g.strings)..-1)
      /\ Overruns(g) => ~ (Len(name) < RsvMapOffset)
  BY <1>1, <1>2, FindAddStringSwIs
<1>5. \/ Overruns(g) /\ \E r \in {0, NOSPACE} : Returns(lost, r)
      \/ ~Overruns(g) /\ Returns(g, NOSPACE)
      \/ /\ ~Overruns(g) /\ found.at # 0 /\ CanGrab(g, CellSize(cell))
         /\ Returns(Restructured(g, cells, CellSize(cell)), 0)
  BY Zenon DEF Property
<1> HIDE DEF g, found, cells, cell
<1>8. CASE Overruns(g) /\ \E r \in {0, NOSPACE} : Returns(lost, r)
  <2>1. ~ShortNames
    BY <1>3, <1>8 DEF ShortNames
  <2>2. lost \in Blobs({"lost"})
    BY <1>3 DEF Blob, Blobs
  <2>3. fdt' = lost /\ ret' \in Int
    BY <1>8 DEF Returns, NOSPACE
  <2>4. ~ShortNames'
    BY <2>1 DEF ShortNames
  <2>5. fdt' \in Blobs({"lost"})
    BY <2>2, <2>3
  <2> QED
    BY <2>1, <2>3, <2>5 DEF Lost
<1>6. CASE ~Overruns(g) /\ Returns(g, NOSPACE)
  BY <1>3, <1>6, ReturnsSound DEF NOSPACE
<1>7. CASE /\ ~Overruns(g) /\ found.at # 0 /\ CanGrab(g, CellSize(cell))
           /\ Returns(Restructured(g, cells, CellSize(cell)), 0)
  <2>11. Sound(g) /\ g.struct \in Seq(NamedCells(g.magic, Len(g.strings)))
    BY <1>3, <1>7 DEF Sound
  <2>1. found.at \in Int /\ found.at \in -Len(g.strings)..-1
    BY <1>3, <1>7, BlobParts
  <2>2. cell \in Cells /\ cell.tag = "PROP" /\ cell.nameoff = found.at
    BY <1>2, <2>1, NewCells DEF cell
  <2>3. cell \in NamedCells(g.magic, Len(g.strings))
    BY <1>3, <2>1, <2>2 DEF NamedCells
  <2>4. CellSize(cell) \in Int
    BY <2>2, CellIs
  <2>5. g.struct \in Seq(Cells)
    BY <1>3, BlobParts
  <2>6. SizeOf(cells) = SizeOf(g.struct) + CellSize(cell)
    BY <1>3, <2>2, <2>5, SizeOfAppended DEF cells
  <2>7. cells \in Seq(NamedCells(g.magic, Len(g.strings))) /\ cells # <<>>
    BY <1>3, <2>3, <2>11, AppendProperties DEF cells
  <2>9. EndsMap(g)
    BY <1>1, <1>3, <2>11 DEF Sound
  <2>8. DataSize(g) + CellSize(cell) <= g.size
    <3>1. /\ DataSize(g) = OffDtStruct(g) + g.structSize + Len(g.strings)
          /\ OffDtStruct(g) \in Int /\ g.structSize \in Int /\ Len(g.strings) \in Int
          /\ g.size \in Int /\ g.structSize >= 0 /\ DataSize(g) <= g.size
      BY <1>3, <2>9, <2>11, DataSizeIs, BlobParts, HasRoom
    <3> QED
      BY <1>7, <2>4, <3>1 DEF CanGrab
  <2>10. Sound(Restructured(g, cells, CellSize(cell)))
    BY <1>3, <2>4, <2>6, <2>7, <2>8, <2>9, <2>11, SoundRestructured
  <2> QED
    BY <1>7, <2>10, ReturnsSound
<1> QED
  BY <1>5, <1>6, <1>7, <1>8

\* The strings moved up, every name is counted from their start.
LEMMA FinishSound ==
  ASSUME Inv, Finish
  PROVE  Inv'
<1> DEFINE n == Len(fdt.strings)
           Moved(c) == IF c.tag = "PROP" THEN [c EXCEPT !.nameoff = @ + n] ELSE c
           moved == FromStart(fdt.struct, n)
           cells == Append(moved, Only("END"))
           g == [fdt EXCEPT !.magic = "fdt", !.struct = cells, !.structSize = @ + TagSize,
                            !.size = DataSize(fdt) + TagSize]
           S == NamedCells("fdt", n)
<1>1. Sound(fdt) /\ fdt \in Blob /\ fdt.magic = "sw" /\ fdt.struct # <<>>
  BY DEF Inv, Sound, Finish, Writing
<1>2. Returns(fdt, NOSPACE) \/ Returns(g, 0)
  BY Zenon DEF Finish
<1>3. CASE Returns(fdt, NOSPACE)
  BY <1>1, <1>3, ReturnsSound DEF NOSPACE
<1>4. CASE Returns(g, 0)
  <2>1. /\ n \in Nat /\ TagSize \in Nat /\ DataSize(fdt) \in Nat /\ fdt.structSize \in Nat
        /\ Len(fdt.struct) \in Nat /\ DOMAIN fdt.struct = 1..Len(fdt.struct)
        /\ fdt.struct \in Seq(Cells) /\ fdt.struct \in Seq(NamedCells("sw", n))
    BY <1>1, FdtEditAssumption, BlobParts, DataSizeIs DEF Sound
  <2>2. ASSUME NEW c \in NamedCells("sw", n)
        PROVE  Moved(c) \in S /\ CellSize(Moved(c)) = CellSize(c)
    <3>1. CASE c.tag = "PROP"
      <4>1. c \in [tag : {"PROP"}, nameoff : Int, val : Seq(Characters)] /\ c.nameoff \in -n..-1
        BY <3>1 DEF NamedCells, Cells
      <4>2. /\ Moved(c) \in [tag : {"PROP"}, nameoff : Int, val : Seq(Characters)]
            /\ Moved(c).nameoff = c.nameoff + n /\ Moved(c).tag = "PROP" /\ Moved(c).val = c.val
        BY <2>1, <3>1, <4>1
      <4> HIDE DEF Moved
      <4>3. Moved(c).nameoff \in 0..n - 1
        BY <2>1, <4>1, <4>2
      <4>4. Moved(c) \in S
        BY <4>2, <4>3 DEF NamedCells, Cells
      <4> QED
        BY <3>1, <4>2, <4>4 DEF CellSize
    <3>2. CASE c.tag # "PROP"
      BY <3>2 DEF NamedCells
    <3> QED
      BY <3>1, <3>2
  <2> HIDE DEF Moved, S
  <2>3. \A k \in 1..Len(fdt.struct) : fdt.struct[k] \in NamedCells("sw", n)
    BY <2>1
  <2>15. moved = [k \in 1..Len(fdt.struct) |-> Moved(fdt.struct[k])]
    BY <2>1 DEF FromStart, Moved
  <2> HIDE DEF moved
  <2>4. moved \in Seq(S) /\ Len(moved) = Len(fdt.struct)
    BY <2>1, <2>2, <2>3, <2>15
  <2>5. \A k \in 1..Len(fdt.struct) : CellSize(fdt.struct[k]) = CellSize(moved[k])
    BY <2>1, <2>2, <2>3, <2>15
  <2>6. moved \in Seq(Cells)
    BY <2>4, NamedAreCells DEF S
  <2>7. SizeOf(moved) = SizeOf(fdt.struct)
    BY <2>1, <2>4, <2>5, <2>6, SizeOfAlike
  <2>8. Only("END") \in Cells /\ CellSize(Only("END")) = TagSize /\ Only("END") \in S
    BY NewCells, NoNameNeeded DEF S
  <2>9. cells \in Seq(S) /\ cells \in Seq(Cells) /\ SizeOf(cells) = SizeOf(fdt.struct) + TagSize
    BY <2>4, <2>6, <2>7, <2>8, SizeOfAppended
  <2> HIDE DEF cells
  <2>14. fdt.structSize + TagSize \in Nat /\ DataSize(fdt) + TagSize \in Nat
    BY <2>1
  <2>10. /\ g \in Blob /\ g.magic = "fdt" /\ g.rsv = fdt.rsv /\ g.struct = cells
         /\ g.structSize = fdt.structSize + TagSize /\ g.strings = fdt.strings
         /\ g.size = DataSize(fdt) + TagSize /\ g.mapAt = fdt.mapAt
    BY <1>1, <2>9, <2>14 DEF Blob, Blobs
  <2> HIDE DEF g
  <2>11. DataSize(g) <= g.size
    <3>1. OffDtStruct(g) = OffDtStruct(fdt) /\ OffDtStruct(fdt) \in Nat
      BY <1>1, <2>10, DataSizeIs DEF OffDtStruct
    <3> QED
      BY <2>1, <2>10, <3>1 DEF DataSize
  <2>12. EndsMap(g)
    BY <1>1, <2>10 DEF Sound, EndsMap
  <2>13. Sound(g)
    BY <1>1, <2>9, <2>10, <2>11, <2>12 DEF Sound, S
  <2> QED
    BY <1>4, <2>13, ReturnsSound
<1> QED
  BY <1>2, <1>3, <1>4

LEMMA WrongStateSound ==
  ASSUME Inv, WrongState
  PROVE  Inv'
<1>1. Sound(fdt) /\ (Returns(fdt, BADSTATE) \/ Returns(fdt, BADLAYOUT) \/ Returns(fdt, BADMAGIC))
  BY DEF Inv, WrongState
<1> QED
  BY <1>1, ReturnsSound DEF BADSTATE, BADLAYOUT, BADMAGIC

-----------------------------------------------------------------------------
(* Splices.                                                                 *)

\* The set of cells an edit may use, and what it starts from.
LEMMA Editing ==
  ASSUME NEW f, Sound(f), f.magic = "fdt"
  PROVE  /\ f \in Blob /\ f.struct \in Seq(Cells) /\ Len(f.struct) \in Nat
         /\ f.struct \in Seq(NamedCells(f.magic, Len(f.strings)))
         /\ Len(f.strings) \in Nat /\ EndsMap(f)
BY BlobParts DEF Sound

\* A piece of a sequence is made of its elements.
LEMMA Pieces ==
  ASSUME NEW S, NEW s \in Seq(S), NEW k \in 0..Len(s)
  PROVE  SubSeq(s, 1, k) \in Seq(S) /\ SubSeq(s, k + 1, Len(s)) \in Seq(S)
<1>1. \A i \in 1..Len(s) : s[i] \in S
  OBVIOUS
<1>2. 1 \in Int /\ k \in Int /\ k + 1 \in Int /\ Len(s) \in Int
  OBVIOUS
<1>3. \A i \in 1..k : s[i] \in S
  BY <1>1, <1>2
<1>4. \A i \in k + 1..Len(s) : s[i] \in S
  BY <1>1, <1>2
<1> QED
  BY <1>2, <1>3, <1>4, SubSeqProperties

\* From j to k something else is put in.
Put(s, j, k, t) == SubSeq(s, 1, j) \o t \o SubSeq(s, k + 1, Len(s))

LEMMA Spliced ==
  ASSUME NEW m, NEW n, NEW s \in Seq(NamedCells(m, n)), NEW j \in 0..Len(s), NEW k \in 0..Len(s),
         j <= k, NEW t \in Seq(NamedCells(m, n))
  PROVE  /\ Put(s, j, k, t) \in Seq(NamedCells(m, n))
         /\ SizeOf(SubSeq(s, j + 1, k)) \in Nat /\ SizeOf(t) \in Nat /\ SizeOf(s) \in Nat
         /\ SizeOf(Put(s, j, k, t)) = SizeOf(s) + (SizeOf(t) - SizeOf(SubSeq(s, j + 1, k)))
<1> DEFINE a == SubSeq(s, 1, j)
           b == SubSeq(s, k + 1, Len(s))
           c == SubSeq(s, j + 1, k)
<1>1. a \in Seq(NamedCells(m, n)) /\ b \in Seq(NamedCells(m, n))
  BY Pieces
<1>2. /\ s \in Seq(Cells) /\ t \in Seq(Cells) /\ a \in Seq(Cells) /\ b \in Seq(Cells)
  BY <1>1, NamedAreCells
<1>3. c \in Seq(Cells) /\ SizeOf(s) = SizeOf(a) + SizeOf(c) + SizeOf(b)
  BY <1>2, SizeOfCutTwice
<1> HIDE DEF a, b, c
<1>4. a \o t \in Seq(Cells) /\ a \o t \in Seq(NamedCells(m, n))
  BY <1>1, <1>2, ConcatProperties
<1>5. (a \o t) \o b \in Seq(NamedCells(m, n))
  BY <1>1, <1>4, ConcatProperties
<1>6. SizeOf((a \o t) \o b) = SizeOf(a) + SizeOf(t) + SizeOf(b)
  BY <1>2, <1>4, SizeOfJoined
<1>7. SizeOf(a) \in Nat /\ SizeOf(b) \in Nat /\ SizeOf(c) \in Nat /\ SizeOf(t) \in Nat /\ SizeOf(s) \in Nat
  BY <1>2, <1>3, SizeOfNat
<1>8. SizeOf((a \o t) \o b) = SizeOf(s) + (SizeOf(t) - SizeOf(c))
  BY <1>3, <1>6, <1>7
<1> QED
  BY <1>5, <1>7, <1>8 DEF a, b, c, Put

\* One cell put in.
LEMMA Inserted ==
  ASSUME NEW m, NEW n, NEW s \in Seq(NamedCells(m, n)), NEW i \in 1..Len(s) + 1,
         NEW c \in NamedCells(m, n)
  PROVE  /\ InsertAt(s, i, c) \in Seq(NamedCells(m, n))
         /\ SizeOf(InsertAt(s, i, c)) = SizeOf(s) + CellSize(c)
<1> DEFINE t == <<c>>
<1>1. PICK j \in 0..Len(s) : j = i - 1
  OBVIOUS
<1>2. InsertAt(s, i, c) = Put(s, j, j, t)
  <2>1. i - 1 = j /\ i = j + 1
    BY <1>1
  <2> QED
    BY <2>1, Zenon DEF InsertAt, Put
<1>3. c \in Cells
  BY DEF NamedCells
<1>4. t \in Seq(NamedCells(m, n)) /\ SizeOf(t) = CellSize(c)
  BY <1>3, SizeOfOne
<1> HIDE DEF t
<1>5. j \in Int /\ j + 1 \in Int /\ j < j + 1 /\ j <= j
  BY <1>1
<1>6. SubSeq(s, j + 1, j) = <<>>
  BY <1>5, SubSeqEmpty
<1>7. /\ Put(s, j, j, t) \in Seq(NamedCells(m, n))
      /\ SizeOf(t) \in Nat /\ SizeOf(s) \in Nat
      /\ SizeOf(Put(s, j, j, t)) = SizeOf(s) + (SizeOf(t) - SizeOf(SubSeq(s, j + 1, j)))
  BY <1>4, <1>5, Spliced
<1>8. SizeOf(Put(s, j, j, t)) = SizeOf(s) + SizeOf(t)
  <2>1. SizeOf(SubSeq(s, j + 1, j)) = 0
    BY <1>6, SizeOfNone, Zenon
  <2>2. SizeOf(Put(s, j, j, t)) = SizeOf(s) + (SizeOf(t) - 0)
    BY <1>7, <2>1, Zenon
  <2> QED
    BY <1>7, <2>2
<1> QED
  BY <1>2, <1>4, <1>7, <1>8

\* Cells j + 1 to k taken out.
Without(s, j, k) == SubSeq(s, 1, j) \o SubSeq(s, k + 1, Len(s))

LEMMA CutOut ==
  ASSUME NEW m, NEW n, NEW s \in Seq(NamedCells(m, n)), NEW j \in 0..Len(s), NEW k \in 0..Len(s),
         j <= k
  PROVE  /\ Without(s, j, k) \in Seq(NamedCells(m, n))
         /\ SizeOf(SubSeq(s, j + 1, k)) \in Nat
         /\ SizeOf(Without(s, j, k)) = SizeOf(s) + (-SizeOf(SubSeq(s, j + 1, k)))
<1> DEFINE a == SubSeq(s, 1, j)
           b == SubSeq(s, k + 1, Len(s))
<1>1. a \in Seq(NamedCells(m, n))
  BY Pieces
<1>2. Put(s, j, k, <<>>) = a \o b
  <2>1. a \o <<>> = a
    BY <1>1, ConcatEmptySeq
  <2> HIDE DEF a, b
  <2>2. Put(s, j, k, <<>>) = (a \o <<>>) \o b
    BY Zenon DEF Put, a, b
  <2> QED
    BY <2>1, <2>2, Zenon
<1>3. <<>> \in Seq(NamedCells(m, n))
  OBVIOUS
<1> DEFINE none == <<>>
<1>7. none \in Seq(NamedCells(m, n))
  BY <1>3
<1> HIDE DEF none
<1>8. /\ Put(s, j, k, none) \in Seq(NamedCells(m, n))
      /\ SizeOf(SubSeq(s, j + 1, k)) \in Nat /\ SizeOf(s) \in Nat
      /\ SizeOf(Put(s, j, k, none)) = SizeOf(s) + (SizeOf(none) - SizeOf(SubSeq(s, j + 1, k)))
  BY <1>7, Spliced
<1>4. /\ Put(s, j, k, <<>>) \in Seq(NamedCells(m, n))
      /\ SizeOf(SubSeq(s, j + 1, k)) \in Nat /\ SizeOf(s) \in Nat
      /\ SizeOf(Put(s, j, k, <<>>)) = SizeOf(s) + (SizeOf(<<>>) - SizeOf(SubSeq(s, j + 1, k)))
  BY <1>8 DEF none
<1>5. SizeOf(Put(s, j, k, <<>>)) = SizeOf(s) + (0 - SizeOf(SubSeq(s, j + 1, k)))
  BY <1>4, SizeOfNone, Zenon
<1>6. SizeOf(Put(s, j, k, <<>>)) = SizeOf(s) + (-SizeOf(SubSeq(s, j + 1, k)))
  BY <1>4, <1>5
<1>9. Without(s, j, k) = a \o b
  BY Zenon DEF Without, a, b
<1> QED
  BY <1>2, <1>4, <1>6, <1>9, Zenon

LEMMA SubSeqOne ==
  ASSUME NEW S, NEW s \in Seq(S), NEW i \in 1..Len(s)
  PROVE  SubSeq(s, i, i) = <<s[i]>>
<1>1. SubSeq(s, i, i) = <<s[i]>> \o SubSeq(s, i + 1, i)
  BY SubSeqRecursiveFirst
<1>2. SubSeq(s, i + 1, i) = <<>>
  BY SubSeqEmpty
<1>3. <<s[i]>> \in Seq(S)
  OBVIOUS
<1> QED
  BY <1>1, <1>2, <1>3, ConcatEmptySeq

LEMMA Removed ==
  ASSUME NEW m, NEW n, NEW s \in Seq(NamedCells(m, n)), NEW i \in 1..Len(s)
  PROVE  /\ RemoveAt(s, i) \in Seq(NamedCells(m, n))
         /\ CellSize(s[i]) \in Int
         /\ SizeOf(RemoveAt(s, i)) = SizeOf(s) + (-CellSize(s[i]))
<1>1. PICK j \in 0..Len(s) : j = i - 1
  OBVIOUS
<1>2. j + 1 = i /\ j <= i /\ i \in 0..Len(s) /\ i - 1 = j
  BY <1>1
<1> DEFINE u == Without(s, j, i)
<1>3. /\ u \in Seq(NamedCells(m, n))
      /\ SizeOf(u) = SizeOf(s) + (-SizeOf(SubSeq(s, j + 1, i)))
  BY <1>2, CutOut
<1>4. RemoveAt(s, i) = u
  BY <1>2, Zenon DEF RemoveAt, Without
<1>5. SubSeq(s, j + 1, i) = <<s[i]>>
  BY <1>2, SubSeqOne, Zenon
<1>6. s[i] \in Cells
  BY ElementOfSeq DEF NamedCells
<1>7. SizeOf(<<s[i]>>) = CellSize(s[i]) /\ CellSize(s[i]) \in Int
  BY <1>6, SizeOfOne, CellIs
<1> HIDE DEF u
<1> QED
  BY <1>3, <1>4, <1>5, <1>7

\* One cell replaced.
LEMMA Replaced ==
  ASSUME NEW m, NEW n, NEW s \in Seq(NamedCells(m, n)), NEW i \in 1..Len(s),
         NEW c \in NamedCells(m, n)
  PROVE  /\ [s EXCEPT ![i] = c] \in Seq(NamedCells(m, n))
         /\ s[i] \in Cells /\ c \in Cells
         /\ SizeOf([s EXCEPT ![i] = c]) = SizeOf(s) + (CellSize(c) - CellSize(s[i]))
<1> DEFINE t == [s EXCEPT ![i] = c]
           l == Len(s)
<1>1. /\ t \in Seq(NamedCells(m, n)) /\ Len(t) = Len(s)
      /\ \A j \in 1..Len(s) : t[j] = IF j = i THEN c ELSE s[j]
  BY ExceptSeq
<1> HIDE DEF t
<1>2. PICK j \in 0..l : j = i - 1
  OBVIOUS
<1>3. l \in Nat /\ i \in 0..l /\ j <= i /\ j + 1 = i
  BY <1>2
<1>4. s[i] \in Cells /\ c \in Cells
  <2>1. s[i] \in NamedCells(m, n)
    OBVIOUS
  <2> QED
    BY <2>1 DEF NamedCells
<1>5. s \in Seq(Cells) /\ t \in Seq(Cells)
  BY <1>1, NamedAreCells
<1>6. /\ SizeOf(s) = SizeOf(SubSeq(s, 1, j)) + SizeOf(SubSeq(s, j + 1, i)) + SizeOf(SubSeq(s, i + 1, l))
      /\ SizeOf(t) = SizeOf(SubSeq(t, 1, j)) + SizeOf(SubSeq(t, j + 1, i)) + SizeOf(SubSeq(t, i + 1, l))
  BY <1>1, <1>3, <1>5, SizeOfCutTwice
<1>7. SubSeq(t, 1, j) = SubSeq(s, 1, j) /\ SubSeq(t, i + 1, l) = SubSeq(s, i + 1, l)
  BY <1>1, <1>3
<1>8. SubSeq(s, j + 1, i) = <<s[i]>> /\ SubSeq(t, j + 1, i) = <<c>>
  <2>1. SubSeq(s, j + 1, i) = SubSeq(s, i, i) /\ SubSeq(t, j + 1, i) = SubSeq(t, i, i)
    BY <1>3
  <2>2. SubSeq(s, i, i) = <<s[i]>> /\ SubSeq(t, i, i) = <<t[i]>>
    BY <1>1, SubSeqOne
  <2> QED
    BY <1>1, <2>1, <2>2
<1>9. SizeOf(<<c>>) = CellSize(c) /\ SizeOf(<<s[i]>>) = CellSize(s[i])
  BY <1>4, SizeOfOne
<1>10. /\ SizeOf(SubSeq(s, 1, j)) \in Int /\ SizeOf(SubSeq(s, i + 1, l)) \in Int
       /\ CellSize(c) \in Int /\ CellSize(s[i]) \in Int
  <2>1. CellSize(c) \in Int /\ CellSize(s[i]) \in Int
    BY <1>4, CellIs
  <2>2. SubSeq(s, 1, j) \in Seq(Cells) /\ SubSeq(s, i + 1, l) \in Seq(Cells)
    BY <1>3, <1>5, SizeOfCut
  <2>3. SizeOf(SubSeq(s, 1, j)) \in Nat /\ SizeOf(SubSeq(s, i + 1, l)) \in Nat
    BY <2>2, SizeOfNat
  <2> QED
    BY <2>1, <2>3
<1>11. SizeOf(t) = SizeOf(s) + (CellSize(c) - CellSize(s[i]))
  <2>1. \A a, b, x, y \in Int : a + x + b = (a + y + b) + (x - y)
    OBVIOUS
  <2>2. SizeOf(s) = SizeOf(SubSeq(s, 1, j)) + CellSize(s[i]) + SizeOf(SubSeq(s, i + 1, l))
    BY <1>6, <1>8, <1>9
  <2>3. SizeOf(t) = SizeOf(SubSeq(s, 1, j)) + CellSize(c) + SizeOf(SubSeq(s, i + 1, l))
    BY <1>6, <1>7, <1>8, <1>9
  <2> QED
    BY <1>10, <2>1, <2>2, <2>3
<1> QED
  BY <1>1, <1>4, <1>11 DEF t

-----------------------------------------------------------------------------
(* Editing properties.                                                      *)

\* What it is to add a string: only the table grows, within the room there is.
Extends(f, g) ==
  /\ g \in Blob /\ g.magic = f.magic /\ g.rsv = f.rsv /\ g.struct = f.struct
  /\ g.structSize = f.structSize /\ g.size = f.size /\ g.mapAt = f.mapAt
  /\ Len(g.strings) \in Nat /\ Len(f.strings) <= Len(g.strings)
  /\ DataSize(f) <= f.size => DataSize(g) <= g.size

LEMMA FindAddStringAny ==
  ASSUME NEW f \in Blob, NEW s \in Seq(Characters)
  PROVE  LET added == FindAddString(f, s)
         IN /\ added.at \in Int
            /\ Extends(f, added.f)
            /\ added.at >= 0 => added.at \in 0..Len(added.f.strings) - 1
            /\ added.at < 0 => added = [at |-> NOSPACE, f |-> f]
<1> DEFINE p == FindString(f.strings, s)
           strings == f.strings \o Append(s, NUL)
           g == [f EXCEPT !.strings = strings]
           added == FindAddString(f, s)
<1>1. f \in Blob /\ f.strings \in Seq(Characters) /\ Len(f.strings) \in Nat /\ Len(s) \in Nat
  BY BlobParts
<1>6. Extends(f, f)
  BY <1>1 DEF Extends
<1>2. p = -1 \/ p \in 0..Len(f.strings) - 1
  BY <1>1, FindStringIn
<1> HIDE DEF p
<1>3. CASE p >= 0
  <2>1. added = [at |-> p, f |-> f]
    BY <1>2, <1>3 DEF FindAddString, p
  <2> QED
    BY <1>1, <1>2, <1>3, <1>6, <2>1
<1>4. CASE p < 0 /\ ~Room(f, Len(s) + 1)
  <2>1. added = [at |-> NOSPACE, f |-> f]
    BY <1>2, <1>4 DEF FindAddString, p
  <2> QED
    BY <1>6, <2>1 DEF NOSPACE
<1>5. CASE p < 0 /\ Room(f, Len(s) + 1)
  <2>1. added = [at |-> Len(f.strings), f |-> g]
    BY <1>2, <1>5 DEF FindAddString, p
  <2>2. strings \in Seq(Characters) /\ Len(strings) = Len(f.strings) + (Len(s) + 1)
    <3>1. NUL \in Characters
      BY FdtEditAssumption
    <3>2. Append(s, NUL) \in Seq(Characters) /\ Len(Append(s, NUL)) = Len(s) + 1
      BY <3>1
    <3> QED
      BY <1>1, <3>2, ConcatProperties
  <2> HIDE DEF strings
  <2>3. /\ g \in Blob /\ g.magic = f.magic /\ g.rsv = f.rsv /\ g.struct = f.struct
        /\ g.structSize = f.structSize /\ g.strings = strings /\ g.size = f.size
        /\ g.mapAt = f.mapAt
    BY <1>1, <2>2 DEF Blob, Blobs
  <2> HIDE DEF g
  <2>4. DataSize(g) <= g.size
    <3>1. OffDtStruct(g) = OffDtStruct(f)
      BY <2>3 DEF OffDtStruct
    <3>2. OffDtStruct(f) \in Nat /\ f.structSize \in Nat /\ f.size \in Nat
      BY <1>1, DataSizeIs, BlobParts
    <3>4. DataSize(g) = OffDtStruct(f) + f.structSize + (Len(f.strings) + (Len(s) + 1))
      BY <2>2, <2>3, <3>1 DEF DataSize
    <3>5. DataSize(f) = OffDtStruct(f) + f.structSize + Len(f.strings)
      BY DEF DataSize
    <3>6. PICK o \in Nat, z \in Nat, a \in Nat, b \in Nat :
            o = OffDtStruct(f) /\ z = f.structSize /\ a = Len(f.strings) /\ b = Len(s)
      BY <1>1, <3>2
    <3>7. DataSize(g) = o + z + (a + (b + 1)) /\ DataSize(f) = o + z + a
      BY <3>4, <3>5, <3>6
    <3>8. DataSize(g) = DataSize(f) + (b + 1)
      BY <3>7
    <3>9. DataSize(f) + (b + 1) <= f.size
      BY <1>5, <3>6 DEF Room
    <3> QED
      BY <2>3, <3>8, <3>9
  <2>5. Len(strings) \in Nat /\ Len(f.strings) <= Len(strings)
    <3>1. \A a, b \in Nat : a + (b + 1) \in Nat /\ a <= a + (b + 1)
      OBVIOUS
    <3> QED
      BY <1>1, <2>2, <3>1
  <2>6. Extends(f, g)
    BY <2>3, <2>4, <2>5 DEF Extends
  <2>7. Len(f.strings) \in 0..Len(strings) - 1
    BY <1>1, <2>2
  <2> QED
    BY <2>1, <2>3, <2>6, <2>7
<1> QED
  BY <1>2, <1>3, <1>4, <1>5

LEMMA FindAddStringIs ==
  ASSUME NEW f, Sound(f), f.magic = "fdt", NEW s \in Seq(Characters)
  PROVE  LET added == FindAddString(f, s)
         IN /\ added.at \in Int
            /\ Sound(added.f) /\ added.f.magic = "fdt" /\ added.f.struct = f.struct
            /\ added.f.rsv = f.rsv /\ added.f.size = f.size
            /\ added.at >= 0 => added.at \in 0..Len(added.f.strings) - 1
<1> DEFINE added == FindAddString(f, s)
           g == added.f
<1>1. f \in Blob /\ Len(f.strings) \in Nat /\ DataSize(f) <= f.size
  BY Editing, HasRoom
<1>2. added.at \in Int /\ Extends(f, g) /\ (added.at >= 0 => added.at \in 0..Len(g.strings) - 1)
  BY <1>1, FindAddStringAny
<1> HIDE DEF added, g
<1>3. g.struct \in Seq(NamedCells(g.magic, Len(g.strings)))
  <2>1. NamedCells(f.magic, Len(f.strings)) \subseteq NamedCells(f.magic, Len(g.strings))
    BY <1>1, <1>2, NamedMore DEF Extends
  <2>2. f.struct \in Seq(NamedCells(f.magic, Len(f.strings)))
    BY DEF Sound
  <2>3. f.struct \in Seq(NamedCells(f.magic, Len(g.strings)))
    BY <2>1, <2>2, SeqMonotonic
  <2> QED
    BY <1>2, <2>3 DEF Extends
<1>4. Sound(g)
  BY <1>1, <1>2, <1>3 DEF Extends, Sound, EndsMap
<1> QED
  BY <1>2, <1>4 DEF added, g, Extends

LEMMA AddPropertySound ==
  ASSUME Inv, fdt.magic = "fdt", NEW node \in Offsets, NEW name \in Props,
         NEW val \in Seq(Characters), AddProperty(node, name, val)
  PROVE  Inv'
<1> DEFINE added == FindAddString(fdt, name)
           g == added.f
           cell == Prop(added.at, val)
           cells == InsertAt(fdt.struct, node + 2, cell)
<1>1. Sound(fdt) /\ name \in Seq(Characters)
  BY FdtEditAssumption DEF Inv
<1>2. /\ added.at \in Int
      /\ Sound(g) /\ g.magic = "fdt" /\ g.struct = fdt.struct /\ g.rsv = fdt.rsv /\ g.size = fdt.size
      /\ added.at >= 0 => added.at \in 0..Len(g.strings) - 1
  BY <1>1, FindAddStringIs
<1>3. \/ Returns(fdt, BADOFFSET)
      \/ Returns(fdt, added.at)
      \/ IsNode(fdt, node) /\ added.at >= 0 /\ Splice(g, cells, CellSize(cell), 0)
  <2> DEFINE At == added.at
  <2>1. \/ ~IsNode(fdt, node) /\ Returns(fdt, BADOFFSET)
        \/ IsNode(fdt, node) /\ At < 0 /\ Returns(fdt, At)
        \/ IsNode(fdt, node) /\ ~ (At < 0) /\ Splice(g, cells, CellSize(cell), 0)
    BY Zenon DEF AddProperty
  <2>2. ~ (At < 0) => At >= 0
    BY <1>2
  <2> QED
    BY <2>1, <2>2
<1> HIDE DEF g, added
<1>4. CASE Returns(fdt, BADOFFSET)
  BY <1>1, <1>4, ReturnsSound DEF BADOFFSET
<1>5. CASE Returns(fdt, added.at)
  BY <1>1, <1>2, <1>5, ReturnsSound
<1>6. CASE IsNode(fdt, node) /\ added.at >= 0 /\ Splice(g, cells, CellSize(cell), 0)
  <2> DEFINE NC == NamedCells(g.magic, Len(g.strings))
  <2>1. g.struct \in Seq(NC) /\ fdt.struct = g.struct
    BY <1>2, Editing
  <2>2. cell \in Cells /\ cell.tag = "PROP" /\ cell.nameoff = added.at
    BY <1>2, NewCells
  <2>3. cell \in NC
    BY <1>2, <1>6, <2>2 DEF NamedCells
  <2> HIDE DEF cell, NC
  <2>4. node + 2 \in 1..Len(g.struct) + 1
    <3>1. Len(g.struct) \in Nat
      BY <1>2, Editing
    <3> QED
      BY <1>2, <3>1 DEF Offsets
  <2>5. CellSize(cell) \in Int
    BY <2>2, CellIs
  <2>6. cells = InsertAt(g.struct, node + 2, cell)
    BY <1>2
  <2> HIDE DEF cells
  <2>8. cells \in Seq(NC) /\ SizeOf(cells) = SizeOf(g.struct) + CellSize(cell)
    BY <2>1, <2>3, <2>4, <2>6, Inserted DEF NC
  <2>10. 0 \in Int
    OBVIOUS
  <2> QED
    BY <1>2, <1>6, <2>5, <2>8, <2>10, SpliceSound DEF NC
<1> QED
  BY <1>3, <1>4, <1>5, <1>6

\* A cell that is a property.
LEMMA PropertyCell ==
  ASSUME NEW f, Sound(f), f.magic = "fdt", NEW at \in 0..Len(f.struct) - 1, IsProp(f, at)
  PROVE  /\ at + 1 \in 1..Len(f.struct)
         /\ f.struct[at + 1] \in NamedCells(f.magic, Len(f.strings)) /\ f.struct[at + 1] \in Cells
         /\ f.struct[at + 1].tag = "PROP" /\ f.struct[at + 1].val \in Seq(Characters)
<1>1. Len(f.struct) \in Nat /\ f.struct \in Seq(NamedCells(f.magic, Len(f.strings)))
  BY Editing
<1>2. at + 1 \in 1..Len(f.struct)
  BY <1>1
<1>3. f.struct[at + 1] \in NamedCells(f.magic, Len(f.strings))
  BY <1>1, <1>2, ElementOfSeq
<1>4. f.struct[at + 1].tag = "PROP"
  BY DEF IsProp, fdt_next_tag
<1>5. f.struct[at + 1] \in Cells
  BY <1>3 DEF NamedCells
<1> QED
  BY <1>2, <1>3, <1>4, <1>5 DEF Cells

\* Its value replaced.
LEMMA Revalued ==
  ASSUME NEW f, Sound(f), f.magic = "fdt", NEW at \in 0..Len(f.struct) - 1, IsProp(f, at),
         NEW val \in Seq(Characters)
  PROVE  LET cells == [f.struct EXCEPT ![at + 1].val = val]
             delta == Align(Len(val)) - Align(Len(f.struct[at + 1].val))
         IN /\ cells \in Seq(NamedCells(f.magic, Len(f.strings)))
            /\ delta \in Int
            /\ SizeOf(cells) = SizeOf(f.struct) + delta
<1> DEFINE old == f.struct[at + 1]
           new == [old EXCEPT !.val = val]
           NC == NamedCells(f.magic, Len(f.strings))
           cells == [f.struct EXCEPT ![at + 1] = new]
<1>1. /\ at + 1 \in 1..Len(f.struct) /\ old \in NC /\ old \in Cells
      /\ old.tag = "PROP" /\ old.val \in Seq(Characters)
  BY PropertyCell
<1>2. f.struct \in Seq(NC)
  BY Editing
<1> HIDE DEF old
<1>3. old \in [tag : {"PROP"}, nameoff : Int, val : Seq(Characters)]
  BY <1>1 DEF Cells
<1>4. /\ new \in [tag : {"PROP"}, nameoff : Int, val : Seq(Characters)]
      /\ new.tag = "PROP" /\ new.nameoff = old.nameoff /\ new.val = val
  BY <1>3
<1> HIDE DEF new
<1>5. new \in NC
  BY <1>1, <1>4 DEF NamedCells, Cells
<1>6. /\ cells \in Seq(NC) /\ SizeOf(cells) = SizeOf(f.struct) + (CellSize(new) - CellSize(old))
  BY <1>1, <1>2, <1>5, Replaced DEF old
<1>7. Align(Len(val)) \in Int /\ Align(Len(old.val)) \in Int /\ TagSize \in Int
  <2>1. Len(val) \in Nat /\ Len(old.val) \in Nat
    BY <1>1
  <2> QED
    <3>1. Align(Len(val)) \in Nat /\ Align(Len(old.val)) \in Nat
      BY <2>1, AlignIs
    <3> QED
      BY <3>1, FdtEditAssumption
<1>8. CellSize(new) = 3 * TagSize + Align(Len(val)) /\ CellSize(old) = 3 * TagSize + Align(Len(old.val))
  BY <1>1, <1>4 DEF CellSize
<1>9. CellSize(new) - CellSize(old) = Align(Len(val)) - Align(Len(old.val))
  BY <1>7, <1>8
<1>10. [f.struct EXCEPT ![at + 1].val = val] = cells
  BY DEF new, old
<1> HIDE DEF cells
<1>11. /\ cells \in Seq(NC) /\ Align(Len(val)) - Align(Len(old.val)) \in Int
       /\ SizeOf(cells) = SizeOf(f.struct) + (Align(Len(val)) - Align(Len(old.val)))
  BY <1>6, <1>7, <1>9
<1> QED
  BY <1>10, <1>11, Zenon DEF old

LEMMA ResizedSound ==
  ASSUME Inv, fdt.magic = "fdt", NEW at \in 0..Len(fdt.struct) - 1, IsProp(fdt, at),
         NEW val \in Seq(Characters), Resized(at, val)
  PROVE  Inv'
<1>1. Sound(fdt) /\ 0 \in Int
  BY DEF Inv
<1> DEFINE cells == [fdt.struct EXCEPT ![at + 1].val = val]
           delta == Align(Len(val)) - Align(Len(fdt.struct[at + 1].val))
<1>2. /\ cells \in Seq(NamedCells(fdt.magic, Len(fdt.strings)))
      /\ delta \in Int
      /\ SizeOf(cells) = SizeOf(fdt.struct) + delta
  BY <1>1, Revalued
<1>3. Splice(fdt, cells, delta, 0)
  BY DEF Resized
<1> HIDE DEF cells, delta
<1> QED
  BY <1>1, <1>2, <1>3, SpliceSound

LEMMA SetPropSound ==
  ASSUME Inv, NEW node \in Offsets, NEW name \in Props, NEW val \in Values, SetProp(node, name, val)
  PROVE  Inv'
<1> DEFINE at == fdt_get_property(fdt, node, name)
<1>1. Sound(fdt) /\ fdt \in Blob /\ fdt.magic = "fdt" /\ val \in Seq(Characters)
  BY FdtEditAssumption DEF Inv, Sound, SetProp, Finished
<1>2. at \in Int /\ (at >= 0 => at \in 0..Len(fdt.struct) - 1 /\ IsProp(fdt, at))
  BY <1>1, GetProperty DEF Offsets
<1>3. \/ at >= 0 /\ Resized(at, val)
      \/ AddProperty(node, name, val)
      \/ Returns(fdt, at)
  <2>1. ~ (at = NOTFOUND /\ at >= 0)
    BY DEF NOTFOUND
  <2> QED
    BY <2>1 DEF SetProp
<1> HIDE DEF at
<1>4. CASE at >= 0 /\ Resized(at, val)
  BY <1>1, <1>2, <1>4, ResizedSound
<1>5. CASE AddProperty(node, name, val)
  BY <1>1, <1>5, AddPropertySound
<1>6. CASE Returns(fdt, at)
  BY <1>1, <1>2, <1>6, ReturnsSound
<1> QED
  BY <1>3, <1>4, <1>5, <1>6

LEMMA AppendPropSound ==
  ASSUME Inv, NEW node \in Offsets, NEW name \in Props, NEW val \in Values,
         AppendProp(node, name, val)
  PROVE  Inv'
<1> DEFINE at == fdt_get_property(fdt, node, name)
<1>1. Sound(fdt) /\ fdt \in Blob /\ fdt.magic = "fdt" /\ val \in Seq(Characters)
  BY FdtEditAssumption DEF Inv, Sound, AppendProp, Finished
<1>2. at \in Int /\ (at >= 0 => at \in 0..Len(fdt.struct) - 1 /\ IsProp(fdt, at))
  BY <1>1, GetProperty DEF Offsets
<1>3. \/ at >= 0 /\ Resized(at, fdt.struct[at + 1].val \o val)
      \/ AddProperty(node, name, val)
  BY DEF AppendProp
<1> HIDE DEF at
<1>4. CASE at >= 0 /\ Resized(at, fdt.struct[at + 1].val \o val)
  <2>1. fdt.struct[at + 1].val \in Seq(Characters)
    BY <1>1, <1>2, <1>4, PropertyCell
  <2>2. fdt.struct[at + 1].val \o val \in Seq(Characters)
    BY <1>1, <2>1, ConcatProperties
  <2> QED
    BY <1>1, <1>2, <1>4, <2>2, ResizedSound
<1>5. CASE AddProperty(node, name, val)
  BY <1>1, <1>5, AddPropertySound
<1> QED
  BY <1>3, <1>4, <1>5

LEMMA DelPropSound ==
  ASSUME Inv, NEW node \in Offsets, NEW name \in Props, DelProp(node, name)
  PROVE  Inv'
<1> DEFINE at == fdt_get_property(fdt, node, name)
           cells == RemoveAt(fdt.struct, at + 1)
           delta == -CellSize(fdt.struct[at + 1])
<1>1. Sound(fdt) /\ fdt \in Blob /\ fdt.magic = "fdt"
  BY DEF Inv, Sound, DelProp, Finished
<1>2. at \in Int /\ (at >= 0 => at \in 0..Len(fdt.struct) - 1 /\ IsProp(fdt, at))
  BY <1>1, GetProperty DEF Offsets
<1>3. Returns(fdt, at) \/ (at >= 0 /\ Splice(fdt, cells, delta, 0))
  <2>1. \/ at < 0 /\ Returns(fdt, at)
        \/ ~ (at < 0) /\ Splice(fdt, cells, delta, 0)
    BY Zenon DEF DelProp
  <2> HIDE DEF at
  <2> QED
    BY <1>2, <2>1
<1> HIDE DEF at
<1>4. CASE Returns(fdt, at)
  BY <1>1, <1>2, <1>4, ReturnsSound
<1>5. CASE at >= 0 /\ Splice(fdt, cells, delta, 0)
  <2>1. at + 1 \in 1..Len(fdt.struct)
    BY <1>1, <1>2, <1>5, PropertyCell
  <2>2. fdt.struct \in Seq(NamedCells(fdt.magic, Len(fdt.strings)))
    BY <1>1, Editing
  <2>3. /\ cells \in Seq(NamedCells(fdt.magic, Len(fdt.strings)))
        /\ CellSize(fdt.struct[at + 1]) \in Int
        /\ SizeOf(cells) = SizeOf(fdt.struct) + delta
    BY <2>1, <2>2, Removed
  <2>4. delta \in Int /\ 0 \in Int
    BY <2>3
  <2> HIDE DEF cells, delta
  <2> QED
    BY <1>1, <1>5, <2>3, <2>4, SpliceSound
<1> QED
  BY <1>3, <1>4, <1>5

\* Other cells of the same size.
LEMMA SoundRecelled ==
  ASSUME NEW f, Sound(f), f.magic = "fdt", NEW cells \in Seq(NamedCells(f.magic, Len(f.strings))),
         SizeOf(cells) = SizeOf(f.struct)
  PROVE  Sound([f EXCEPT !.struct = cells])
<1> DEFINE g == [f EXCEPT !.struct = cells]
<1>1. f \in Blob /\ EndsMap(f)
  BY Editing
<1>2. cells \in Seq(Cells)
  BY NamedAreCells
<1>3. /\ g \in Blob /\ g.magic = f.magic /\ g.rsv = f.rsv /\ g.struct = cells
      /\ g.structSize = f.structSize /\ g.strings = f.strings /\ g.size = f.size
      /\ g.mapAt = f.mapAt
  BY <1>1, <1>2 DEF Blob, Blobs
<1> HIDE DEF g
<1>4. DataSize(g) = DataSize(f) /\ EndsMap(g)
  BY <1>1, <1>3 DEF DataSize, OffDtStruct, EndsMap
<1>5. Sound(g)
  BY <1>3, <1>4 DEF Sound
<1> QED
  BY <1>5 DEF g

LEMMA SetPropInplaceSound ==
  ASSUME Inv, NEW node \in Offsets, NEW name \in Props, NEW val \in Values,
         SetPropInplace(node, name, val)
  PROVE  Inv'
<1> DEFINE at == fdt_get_property(fdt, node, name)
           old == fdt.struct[at + 1].val
           cells == [fdt.struct EXCEPT ![at + 1].val = val]
<1>1. Sound(fdt) /\ fdt \in Blob /\ fdt.magic = "fdt" /\ val \in Seq(Characters)
  BY FdtEditAssumption DEF Inv, Sound, SetPropInplace, Finished
<1>2. at \in Int /\ (at >= 0 => at \in 0..Len(fdt.struct) - 1 /\ IsProp(fdt, at))
  BY <1>1, GetProperty DEF Offsets
<1>3. \/ Returns(fdt, at) \/ Returns(fdt, NOSPACE)
      \/ at >= 0 /\ Len(old) = Len(val) /\ Returns([fdt EXCEPT !.struct = cells], 0)
  <2>1. at < 0 \/ at >= 0
    BY <1>2
  <2>2. [fdt EXCEPT !.struct[at + 1].val = val] = [fdt EXCEPT !.struct = cells]
    OBVIOUS
  <2> HIDE DEF at
  <2> QED
    BY <2>1, <2>2 DEF SetPropInplace, at
<1> HIDE DEF at
<1>4. CASE Returns(fdt, at) \/ Returns(fdt, NOSPACE)
  BY <1>1, <1>2, <1>4, ReturnsSound DEF NOSPACE
<1>5. CASE at >= 0 /\ Len(old) = Len(val) /\ Returns([fdt EXCEPT !.struct = cells], 0)
  <2>1. /\ cells \in Seq(NamedCells(fdt.magic, Len(fdt.strings)))
        /\ SizeOf(cells) = SizeOf(fdt.struct) + (Align(Len(val)) - Align(Len(old)))
    BY <1>1, <1>2, <1>5, Revalued
  <2>2. Align(Len(val)) = Align(Len(old)) /\ Align(Len(val)) \in Int
    <3>1. Len(val) \in Nat
      BY <1>1
    <3> QED
      BY <1>5, <3>1, AlignIs
  <2>3. fdt.struct \in Seq(Cells)
    BY <1>1, Editing
  <2>4. SizeOf(fdt.struct) \in Nat
    BY <2>3, SizeOfNat
  <2> HIDE DEF cells, old
  <2>5. SizeOf(cells) = SizeOf(fdt.struct)
    BY <2>1, <2>2, <2>4
  <2>6. Sound([fdt EXCEPT !.struct = cells])
    BY <1>1, <2>1, <2>5, SoundRecelled
  <2> QED
    BY <1>5, <2>6, ReturnsSound
<1> QED
  BY <1>3, <1>4, <1>5

\* Cells from + 1 to to become NOPs.
LEMMA NoppedSound ==
  ASSUME NEW f, f = fdt, Sound(f), f.magic = "fdt", NEW from \in 0..Len(f.struct),
         NEW to \in 0..Len(f.struct), from <= to
  PROVE  Sound(Nopped(from, to))
<1> DEFINE s == f.struct
           NC == NamedCells(f.magic, Len(f.strings))
           n == SizeOf(SubSeq(s, from + 1, to)) \div TagSize
           nops == [k \in 1..n |-> Only("NOP")]
           cells == Put(s, from, to, nops)
<1>1. s \in Seq(NC) /\ s \in Seq(Cells)
  BY Editing
<1> HIDE DEF s, NC
<1>2. SubSeq(s, from + 1, to) \in Seq(Cells)
  BY <1>1, SizeOfCutTwice DEF s
<1>3. PICK m \in Nat : SizeOf(SubSeq(s, from + 1, to)) = m * TagSize
  BY <1>2, SizeOfTags
<1>4. n = m
  <2>1. TagSize \in Nat \ {0}
    BY FdtEditAssumption
  <2>2. (m * TagSize) \div TagSize = m
    BY <2>1, Multiple
  <2> QED
    BY <1>3, <2>2, Zenon
<1>5. n \in Nat
  BY <1>4
<1> HIDE DEF n
<1>6. SizeOf(nops) = SizeOf(SubSeq(s, from + 1, to)) /\ SizeOf(nops) \in Nat
  <2>1. nops \in Seq(Cells) /\ SizeOf(nops) = n * TagSize
    BY <1>5, SizeOfNops
  <2> HIDE DEF nops
  <2>2. SizeOf(nops) = m * TagSize
    BY <1>4, <2>1
  <2>3. SizeOf(nops) \in Nat
    BY <2>1, SizeOfNat
  <2> QED
    BY <1>3, <2>2, <2>3
<1>7. nops \in Seq(NC)
  <2>1. Only("NOP") \in Cells /\ Only("NOP").tag # "PROP"
    BY NewCells
  <2>2. Only("NOP") \in NC
    BY <2>1, NoNameNeeded DEF NC
  <2> QED
    BY <1>5, <2>2
<1> HIDE DEF nops
<1>8. /\ cells \in Seq(NC) /\ SizeOf(s) \in Nat
      /\ SizeOf(cells) = SizeOf(s) + (SizeOf(nops) - SizeOf(SubSeq(s, from + 1, to)))
  BY <1>1, <1>7, Spliced DEF NC, s
<1> HIDE DEF cells
<1>9. SizeOf(cells) = SizeOf(s)
  <2>1. \A x, y \in Int : x + (y - y) = x
    OBVIOUS
  <2> QED
    BY <1>6, <1>8, <2>1
<1>10. Sound([f EXCEPT !.struct = cells])
  BY <1>8, <1>9, SoundRecelled DEF NC, s
<1>11. Nopped(from, to) = [f EXCEPT !.struct = cells]
  BY DEF Nopped, cells, nops, n, s, Put
<1> QED
  BY <1>10, <1>11

LEMMA NopPropertySound ==
  ASSUME Inv, NEW node \in Offsets, NEW name \in Props, NopProperty(node, name)
  PROVE  Inv'
<1> DEFINE at == fdt_get_property(fdt, node, name)
<1>1. Sound(fdt) /\ fdt \in Blob /\ fdt.magic = "fdt"
  BY DEF Inv, Sound, NopProperty, Finished
<1>2. at \in Int /\ (at >= 0 => at \in 0..Len(fdt.struct) - 1 /\ IsProp(fdt, at))
  BY <1>1, GetProperty DEF Offsets
<1>3. Returns(fdt, at) \/ (at >= 0 /\ Returns(Nopped(at, at + 1), 0))
  <2>1. \/ at < 0 /\ Returns(fdt, at)
        \/ ~ (at < 0) /\ Returns(Nopped(at, at + 1), 0)
    BY Zenon DEF NopProperty
  <2> HIDE DEF at
  <2> QED
    BY <1>2, <2>1
<1> HIDE DEF at
<1>4. CASE Returns(fdt, at)
  BY <1>1, <1>2, <1>4, ReturnsSound
<1>5. CASE at >= 0 /\ Returns(Nopped(at, at + 1), 0)
  <2>1. Len(fdt.struct) \in Nat
    BY <1>1, Editing
  <2>2. at \in 0..Len(fdt.struct) /\ at + 1 \in 0..Len(fdt.struct) /\ at <= at + 1
    BY <1>2, <1>5, <2>1
  <2>3. Sound(Nopped(at, at + 1))
    BY <1>1, <2>2, NoppedSound
  <2> QED
    BY <1>5, <2>3, ReturnsSound
<1> QED
  BY <1>3, <1>4, <1>5

-----------------------------------------------------------------------------
(* Editing nodes.                                                           *)

LEMMA NopNodeSound ==
  ASSUME Inv, NEW node \in Offsets, NopNode(node)
  PROVE  Inv'
<1> DEFINE end == NodeEndOffset(fdt, node)
<1>1. Sound(fdt) /\ fdt \in Blob /\ fdt.magic = "fdt"
  BY DEF Inv, Sound, NopNode, Finished
<1>2. end \in Int /\ (end < 0 \/ end \in node + 1..Len(fdt.struct))
  BY <1>1, EndOfNode DEF Offsets
<1>3. \/ Returns(fdt, end)
      \/ ~ (end < 0) /\ Returns(Nopped(node, end), 0)
  BY Zenon DEF NopNode
<1> HIDE DEF end
<1>4. CASE Returns(fdt, end)
  BY <1>1, <1>2, <1>4, ReturnsSound
<1>5. CASE ~ (end < 0) /\ Returns(Nopped(node, end), 0)
  <2>1. Len(fdt.struct) \in Nat
    BY <1>1, Editing
  <2>2. node \in 0..Len(fdt.struct) /\ end \in 0..Len(fdt.struct) /\ node <= end
    BY <1>2, <1>5, <2>1 DEF Offsets
  <2>3. Sound(Nopped(node, end))
    BY <1>1, <2>2, NoppedSound
  <2> QED
    BY <1>5, <2>3, ReturnsSound
<1> QED
  BY <1>3, <1>4, <1>5

LEMMA DelNodeSound ==
  ASSUME Inv, NEW node \in Offsets, DelNode(node)
  PROVE  Inv'
<1> DEFINE end == NodeEndOffset(fdt, node)
           cells == Without(fdt.struct, node, end)
           delta == -SizeOf(SubSeq(fdt.struct, node + 1, end))
<1>1. Sound(fdt) /\ fdt \in Blob /\ fdt.magic = "fdt"
  BY DEF Inv, Sound, DelNode, Finished
<1>2. end \in Int /\ (end < 0 \/ end \in node + 1..Len(fdt.struct))
  BY <1>1, EndOfNode DEF Offsets
<1>3. \/ Returns(fdt, end)
      \/ ~ (end < 0) /\ Splice(fdt, cells, delta, 0)
  BY Zenon DEF DelNode, Without
<1> HIDE DEF end
<1>4. CASE Returns(fdt, end)
  BY <1>1, <1>2, <1>4, ReturnsSound
<1>5. CASE ~ (end < 0) /\ Splice(fdt, cells, delta, 0)
  <2>1. Len(fdt.struct) \in Nat /\ fdt.struct \in Seq(NamedCells(fdt.magic, Len(fdt.strings)))
    BY <1>1, Editing
  <2>2. node \in 0..Len(fdt.struct) /\ end \in 0..Len(fdt.struct) /\ node <= end
    BY <1>2, <1>5, <2>1 DEF Offsets
  <2>3. /\ cells \in Seq(NamedCells(fdt.magic, Len(fdt.strings)))
        /\ SizeOf(SubSeq(fdt.struct, node + 1, end)) \in Nat
        /\ SizeOf(cells) = SizeOf(fdt.struct) + delta
    BY <2>1, <2>2, CutOut
  <2>4. delta \in Int /\ 0 \in Int
    BY <2>3
  <2> HIDE DEF cells, delta
  <2> QED
    BY <1>1, <1>5, <2>3, <2>4, SpliceSound
<1> QED
  BY <1>3, <1>4, <1>5

LEMMA AddSubnodeSound ==
  ASSUME Inv, NEW parent \in Offsets, NEW name \in Names, AddSubnode(parent, name)
  PROVE  Inv'
<1> DEFINE there == fdt_subnode_offset(fdt, parent, name)
           S == {k \in parent + 1..Len(fdt.struct) : fdt_next_tag(fdt, k) \notin {"PROP", "NOP"}}
           offset == Min(S)
           two == <<BeginNode(name), Only("END_NODE")>>
           NC == NamedCells(fdt.magic, Len(fdt.strings))
           cells == Put(fdt.struct, offset, offset, two)
           delta == CellSize(BeginNode(name)) + TagSize
<1>1. Sound(fdt) /\ fdt \in Blob /\ fdt.magic = "fdt"
  BY DEF Inv, Sound, AddSubnode, Finished
<1>2. there \in Int
  BY <1>1, SubnodeOffset DEF Offsets
<1>3. /\ Len(fdt.struct) \in Nat /\ fdt.struct \in Seq(NC)
      /\ parent \in 0..Len(fdt.struct) - 1 /\ parent + 1 \in Int
  BY <1>1, Editing DEF Offsets
<1>4. offset \in 0..Len(fdt.struct)
  <2>1. Len(fdt.struct) \in S
    BY <1>3 DEF fdt_next_tag
  <2>2. S \in SUBSET (parent + 1..Len(fdt.struct)) /\ Len(fdt.struct) \in Int
    BY <1>3
  <2> HIDE DEF S
  <2>3. offset \in S
    BY <1>3, <2>1, <2>2, LeastInt
  <2>4. offset \in parent + 1..Len(fdt.struct)
    BY <2>2, <2>3
  <2> HIDE DEF offset
  <2> QED
    BY <1>3, <2>4
<1>5. \/ Returns(fdt, EXISTS) \/ Returns(fdt, there)
      \/ Splice(fdt, cells, delta, offset)
  <2>1. ~ (there >= 0 /\ there = NOTFOUND)
    BY DEF NOTFOUND
  <2>2. AddSubnode(parent, name) =>
          CASE there >= 0       -> Returns(fdt, EXISTS)
            [] there = NOTFOUND -> Splice(fdt, cells, delta, offset)
            [] OTHER            -> Returns(fdt, there)
    BY Zenon DEF AddSubnode, Put
  <2> HIDE DEF there, cells, delta, offset
  <2> QED
    BY <2>1, <2>2
<1> HIDE DEF there, S, offset
<1>6. CASE Returns(fdt, EXISTS) \/ Returns(fdt, there)
  BY <1>1, <1>2, <1>6, ReturnsSound DEF EXISTS
<1>7. CASE Splice(fdt, cells, delta, offset)
  <2>1. BeginNode(name) \in Cells /\ Only("END_NODE") \in Cells /\ CellSize(Only("END_NODE")) = TagSize
    BY NewCells
  <2>2. BeginNode(name) \in NC /\ Only("END_NODE") \in NC
    BY <2>1, NewCells, NoNameNeeded
  <2> HIDE DEF NC
  <2>3. two \in Seq(NC) /\ SizeOf(two) = delta
    <3>1. two = Append(<<BeginNode(name)>>, Only("END_NODE")) /\ <<BeginNode(name)>> \in Seq(Cells)
      BY <2>1
    <3>2. SizeOf(<<BeginNode(name)>>) = CellSize(BeginNode(name))
      BY <2>1, SizeOfOne
    <3>3. SizeOf(Append(<<BeginNode(name)>>, Only("END_NODE"))) =
            SizeOf(<<BeginNode(name)>>) + CellSize(Only("END_NODE"))
      BY <2>1, <3>1, SizeOfAppended
    <3>4. SizeOf(two) = delta
      BY <2>1, <3>1, <3>2, <3>3, Zenon
    <3>5. two \in Seq(NC)
      BY <2>2
    <3> QED
      BY <3>4, <3>5
  <2>4. delta \in Int /\ offset \in Int /\ offset <= offset
    BY <1>3, <1>4, <2>1, CellIs, FdtEditAssumption
  <2> HIDE DEF two, delta
  <2>5. SizeOf(SubSeq(fdt.struct, offset + 1, offset)) = 0
    <3>1. offset + 1 \in Int /\ offset < offset + 1
      BY <2>4
    <3>2. SubSeq(fdt.struct, offset + 1, offset) = <<>>
      BY <2>4, <3>1, SubSeqEmpty
    <3> QED
      BY <3>2, SizeOfNone, Zenon
  <2>6. /\ cells \in Seq(NC) /\ SizeOf(fdt.struct) \in Nat
        /\ SizeOf(cells) = SizeOf(fdt.struct)
                             + (SizeOf(two) - SizeOf(SubSeq(fdt.struct, offset + 1, offset)))
    BY <1>3, <1>4, <2>3, <2>4, Spliced DEF NC
  <2> HIDE DEF cells
  <2>7. SizeOf(cells) = SizeOf(fdt.struct) + delta
    <3>1. SizeOf(cells) = SizeOf(fdt.struct) + (delta - 0)
      BY <2>3, <2>5, <2>6, Zenon
    <3> QED
      BY <2>4, <2>6, <3>1
  <2> QED
    BY <1>1, <1>7, <2>4, <2>6, <2>7, SpliceSound DEF NC
<1> QED
  BY <1>5, <1>6, <1>7

LEMMA SetNameSound ==
  ASSUME Inv, NEW node \in Offsets, NEW name \in Names, SetName(node, name)
  PROVE  Inv'
<1> DEFINE old == fdt.struct[node + 1]
           new == [old EXCEPT !.name = name]
           NC == NamedCells(fdt.magic, Len(fdt.strings))
           cells == [fdt.struct EXCEPT ![node + 1] = new]
           delta == Align(Len(name) + 1) - Align(Len(old.name) + 1)
<1>1. Sound(fdt) /\ fdt \in Blob /\ fdt.magic = "fdt"
  BY DEF Inv, Sound, SetName, Finished
<1>2. \/ Returns(fdt, BADOFFSET)
      \/ IsNode(fdt, node) /\ Splice(fdt, cells, delta, 0)
  <2>1. [fdt.struct EXCEPT ![node + 1].name = name] = cells
    OBVIOUS
  <2> HIDE DEF cells
  <2> QED
    BY <2>1 DEF SetName, fdt_get_name
<1>3. CASE Returns(fdt, BADOFFSET)
  BY <1>1, <1>3, ReturnsSound DEF BADOFFSET
<1>4. CASE IsNode(fdt, node) /\ Splice(fdt, cells, delta, 0)
  <2>1. Len(fdt.struct) \in Nat /\ fdt.struct \in Seq(NC)
    BY <1>1, Editing
  <2>2. node + 1 \in 1..Len(fdt.struct)
    BY <2>1 DEF Offsets
  <2>3. old \in NC
    BY <2>1, <2>2, ElementOfSeq
  <2>4. old.tag = "BEGIN_NODE"
    BY <1>4 DEF IsNode, fdt_next_tag
  <2> HIDE DEF old
  <2>5. old \in [tag : {"BEGIN_NODE"}, name : Names \cup {<<>>}]
    BY <2>3, <2>4 DEF NamedCells, Cells
  <2>6. /\ new \in [tag : {"BEGIN_NODE"}, name : Names \cup {<<>>}]
        /\ new.tag = "BEGIN_NODE" /\ new.name = name /\ old.name \in Names \cup {<<>>}
    BY <2>5
  <2> HIDE DEF new
  <2>7. new \in Cells /\ old \in Cells
    BY <2>5, <2>6 DEF Cells
  <2>8. new \in NC
    BY <2>6, <2>7, NoNameNeeded
  <2>9. /\ cells \in Seq(NC)
        /\ SizeOf(cells) = SizeOf(fdt.struct) + (CellSize(new) - CellSize(old))
    BY <2>1, <2>2, <2>8, Replaced DEF old
  <2>10. ASSUME NEW x \in Names \cup {<<>>}
         PROVE  Align(Len(x) + 1) \in Int
    <3>1. Len(x) + 1 \in Nat
      <4>1. CASE x = <<>>
        BY <4>1
      <4>2. CASE x \in Names
        <5>1. x \in Seq(Characters)
          BY <4>2, FdtEditAssumption
        <5> QED
          BY <5>1
      <4> QED
        BY <4>1, <4>2
    <3> QED
      BY <3>1, AlignIs
  <2>11. Align(Len(name) + 1) \in Int /\ Align(Len(old.name) + 1) \in Int /\ TagSize \in Int
    BY <2>6, <2>10, FdtEditAssumption
  <2>12. CellSize(new) = TagSize + Align(Len(name) + 1) /\ CellSize(old) = TagSize + Align(Len(old.name) + 1)
    BY <2>4, <2>6 DEF CellSize
  <2>13. CellSize(new) - CellSize(old) = delta /\ delta \in Int /\ 0 \in Int
    BY <2>11, <2>12
  <2> HIDE DEF cells, delta, NC
  <2> QED
    BY <1>1, <1>4, <2>9, <2>13, SpliceSound DEF NC
<1> QED
  BY <1>2, <1>3, <1>4

-----------------------------------------------------------------------------
(* The blob as a whole.                                                     *)

\* The reserve map ends at its first zero.
LEMMA MapEnd ==
  ASSUME Sound(fdt), fdt.magic = "fdt"
  PROVE  /\ NumMemRsv \in Nat /\ NumMemRsv + 1 \in 1..Len(fdt.rsv)
         /\ fdt.rsv[NumMemRsv + 1] = 0
<1> DEFINE S == {k \in DOMAIN fdt.rsv : fdt.rsv[k] = 0}
           z == FirstOf(S, Len(fdt.rsv) + 1)
<1>1. fdt \in Blob /\ Len(fdt.rsv) \in Nat /\ DOMAIN fdt.rsv = 1..Len(fdt.rsv) /\ S # {}
  BY Editing, BlobParts DEF EndsMap
<1>2. S \in SUBSET (1..Len(fdt.rsv)) /\ 1 \in Int /\ Len(fdt.rsv) \in Int
  BY <1>1
<1>3. \A k \in S : fdt.rsv[k] = 0
  OBVIOUS
<1>4. NumMemRsv = z - 1
  BY DEF NumMemRsv
<1> HIDE DEF S
<1>5. z \in S
  BY <1>1, <1>2, FirstOfRange, Zenon
<1> HIDE DEF z
<1>6. z \in 1..Len(fdt.rsv) /\ fdt.rsv[z] = 0
  BY <1>2, <1>3, <1>5
<1>7. z - 1 \in Nat /\ (z - 1) + 1 = z
  BY <1>1, <1>6
<1> QED
  BY <1>4, <1>6, <1>7, Zenon

\* Another reserve map or another size of the buffer.
LEMMA SoundMoved ==
  ASSUME NEW f, Sound(f), f.magic = "fdt", NEW rsv \in Seq(Sizes \cup {0}),
         \E k \in DOMAIN rsv : rsv[k] = 0, NEW size \in Nat,
         NEW at \in {HeaderSize, RsvMapOffset},
         NEW g, g = [f EXCEPT !.mapAt = at, !.rsv = rsv, !.size = size], DataSize(g) <= size
  PROVE  Sound(g)
<1>1. f \in Blob
  BY DEF Sound
<1>2. /\ g \in Blob /\ g.magic = f.magic /\ g.rsv = rsv /\ g.struct = f.struct
      /\ g.structSize = f.structSize /\ g.strings = f.strings /\ g.size = size
  BY <1>1 DEF Blob, Blobs
<1>3. EndsMap(g)
  BY <1>2 DEF EndsMap
<1> QED
  BY <1>2, <1>3 DEF Sound

LEMMA AddMemRsvSound ==
  ASSUME Inv, NEW size \in Sizes, AddMemRsv(size)
  PROVE  Inv'
<1> DEFINE n == NumMemRsv
           s == fdt.rsv
           rsv == InsertAt(s, n + 1, size)
           g == [fdt EXCEPT !.rsv = rsv]
<1>1. Sound(fdt) /\ fdt \in Blob /\ fdt.magic = "fdt"
  BY DEF Inv, Sound, AddMemRsv, Finished
<1>2. Returns(fdt, NOSPACE) \/ (Room(fdt, RsvSize) /\ Returns(g, 0))
  BY Zenon DEF AddMemRsv
<1>3. CASE Returns(fdt, NOSPACE)
  BY <1>1, <1>3, ReturnsSound DEF NOSPACE
<1>4. CASE Room(fdt, RsvSize) /\ Returns(g, 0)
  <2>1. n \in Nat /\ n + 1 \in 1..Len(s) /\ s[n + 1] = 0 /\ s \in Seq(Sizes \cup {0}) /\ Len(s) \in Nat
    BY <1>1, MapEnd, BlobParts
  <2> HIDE DEF n, s
  <2>2. PICK i \in 1..Len(s) : i = n + 1
    BY <2>1
  <2> DEFINE a == SubSeq(s, 1, i - 1)
             t == <<size>>
             b == SubSeq(s, i, Len(s))
  <2>3. /\ a \in Seq(Sizes \cup {0}) /\ t \in Seq(Sizes \cup {0}) /\ b \in Seq(Sizes \cup {0})
        /\ Len(a) = i - 1 /\ Len(t) = 1 /\ Len(b) = Len(s) - i + 1 /\ b[1] = s[i]
    BY <2>1
  <2>4. rsv = (a \o t) \o b
    BY <2>2 DEF InsertAt
  <2> HIDE DEF a, t, b, rsv
  <2>5. a \o t \in Seq(Sizes \cup {0}) /\ Len(a \o t) = i
    <3>1. a \o t \in Seq(Sizes \cup {0}) /\ Len(a \o t) = Len(a) + Len(t)
      BY <2>3, ConcatProperties, Zenon
    <3>2. Len(a) + Len(t) = i
      BY <2>1, <2>3
    <3> QED
      BY <3>1, <3>2, Zenon
  <2>6. rsv \in Seq(Sizes \cup {0}) /\ Len(rsv) = Len(s) + 1 /\ rsv[i + 1] = 0
    <3>3. /\ rsv \in Seq(Sizes \cup {0}) /\ Len(rsv) = i + Len(b)
          /\ \A j \in 1..i + Len(b) : rsv[j] = IF j <= i THEN (a \o t)[j] ELSE b[j - i]
      BY <2>3, <2>4, <2>5, ConcatProperties, Zenon
    <3>4. i + 1 \in 1..i + Len(b) /\ ~ (i + 1 <= i)
      BY <2>1, <2>3
    <3>1. rsv \in Seq(Sizes \cup {0}) /\ Len(rsv) = i + Len(b) /\ rsv[i + 1] = b[(i + 1) - i]
      BY <3>3, <3>4, Zenon
    <3>2. (i + 1) - i = 1 /\ i + Len(b) = Len(s) + 1
      BY <2>1, <2>3
    <3> QED
      BY <2>1, <2>2, <2>3, <3>1, <3>2
  <2>7. i + 1 \in DOMAIN rsv
    BY <2>1, <2>6
  <2>8. /\ g = [fdt EXCEPT !.mapAt = fdt.mapAt, !.rsv = rsv, !.size = fdt.size]
        /\ fdt.size \in Nat /\ fdt.mapAt \in {HeaderSize, RsvMapOffset}
    BY <1>1 DEF Blob, Blobs
  <2>9. /\ g.rsv = rsv /\ g.structSize = fdt.structSize /\ g.strings = fdt.strings
        /\ g.mapAt = fdt.mapAt
    BY <1>1 DEF Blob, Blobs
  <2> HIDE DEF g
  <2>10. DataSize(g) <= fdt.size
    <3>1. RsvSize \in Nat /\ fdt.mapAt \in Nat /\ fdt.structSize \in Nat /\ Len(fdt.strings) \in Nat
      BY <1>1, BlobParts, FdtEditAssumption
    <3>2. RsvSize * (Len(s) + 1) = RsvSize * Len(s) + RsvSize /\ RsvSize * Len(s) \in Nat
      BY <2>1, <3>1
    <3>5. Len(g.rsv) = Len(s) + 1
      BY <2>6, <2>9
    <3>3. OffDtStruct(g) = OffDtStruct(fdt) + RsvSize /\ OffDtStruct(fdt) \in Nat
      <4>1. OffDtStruct(g) = fdt.mapAt + RsvSize * (Len(s) + 1)
        BY <2>9, <3>5, Zenon DEF OffDtStruct
      <4>2. OffDtStruct(fdt) = fdt.mapAt + RsvSize * Len(s)
        BY Zenon DEF OffDtStruct, s
      <4> QED
        BY <3>1, <3>2, <4>1, <4>2
    <3>4. DataSize(g) = DataSize(fdt) + RsvSize
      BY <2>9, <3>1, <3>3 DEF DataSize
    <3> QED
      BY <1>4, <3>4 DEF Room
  <2>11. Sound(g)
    BY <1>1, <2>6, <2>7, <2>8, <2>10, SoundMoved
  <2> QED
    BY <1>4, <2>11, ReturnsSound
<1> QED
  BY <1>2, <1>3, <1>4

LEMMA DelMemRsvSound ==
  ASSUME Inv, NEW n \in Nat, DelMemRsv(n)
  PROVE  Inv'
<1> DEFINE m == NumMemRsv
           s == fdt.rsv
           rsv == RemoveAt(s, n + 1)
           g == [fdt EXCEPT !.rsv = rsv]
<1>1. Sound(fdt) /\ fdt \in Blob /\ fdt.magic = "fdt"
  BY DEF Inv, Sound, DelMemRsv, Finished
<1>2. Returns(fdt, NOTFOUND) \/ (~ (n >= m) /\ Returns(g, 0))
  BY Zenon DEF DelMemRsv
<1>3. CASE Returns(fdt, NOTFOUND)
  BY <1>1, <1>3, ReturnsSound DEF NOTFOUND
<1>4. CASE ~ (n >= m) /\ Returns(g, 0)
  <2>1. m \in Nat /\ m + 1 \in 1..Len(s) /\ s[m + 1] = 0 /\ s \in Seq(Sizes \cup {0}) /\ Len(s) \in Nat
    BY <1>1, MapEnd, BlobParts
  <2> HIDE DEF m, s
  <2>2. n < m /\ n + 1 \in 1..Len(s) /\ n + 2 <= m + 1
    BY <1>4, <2>1
  <2> DEFINE a == SubSeq(s, 1, n)
             b == SubSeq(s, n + 2, Len(s))
  <2>3. /\ a \in Seq(Sizes \cup {0}) /\ b \in Seq(Sizes \cup {0})
        /\ Len(a) = n /\ Len(b) = Len(s) - n - 1 /\ b[m - n] = s[m + 1] /\ m - n \in 1..Len(b)
    BY <2>1, <2>2
  <2>4. rsv = a \o b
    <3>1. (n + 1) - 1 = n /\ (n + 1) + 1 = n + 2
      OBVIOUS
    <3> QED
      BY <3>1 DEF RemoveAt
  <2> HIDE DEF a, b, rsv
  <2>5. rsv \in Seq(Sizes \cup {0}) /\ Len(rsv) = Len(s) - 1 /\ rsv[m] = 0
    <3>1. m \in Int /\ n < m /\ m <= n + Len(b)
      BY <2>1, <2>2, <2>3
    <3>3. /\ rsv \in Seq(Sizes \cup {0}) /\ Len(rsv) = n + Len(b)
          /\ \A j \in 1..n + Len(b) : rsv[j] = IF j <= n THEN a[j] ELSE b[j - n]
      BY <2>3, <2>4, ConcatProperties, Zenon
    <3>4. m \in 1..n + Len(b) /\ ~ (m <= n)
      BY <2>3, <3>1
    <3>2. rsv \in Seq(Sizes \cup {0}) /\ Len(rsv) = n + Len(b) /\ rsv[m] = b[m - n]
      BY <3>3, <3>4, Zenon
    <3> QED
      BY <2>1, <2>3, <3>2
  <2>6. m \in DOMAIN rsv
    BY <2>1, <2>2, <2>5
  <2>8. /\ g = [fdt EXCEPT !.mapAt = fdt.mapAt, !.rsv = rsv, !.size = fdt.size]
        /\ fdt.size \in Nat /\ fdt.mapAt \in {HeaderSize, RsvMapOffset}
    BY <1>1 DEF Blob, Blobs
  <2>9. /\ g.rsv = rsv /\ g.structSize = fdt.structSize /\ g.strings = fdt.strings
        /\ g.mapAt = fdt.mapAt
    BY <1>1 DEF Blob, Blobs
  <2> HIDE DEF g
  <2>10. DataSize(g) <= fdt.size
    <3>1. RsvSize \in Nat /\ fdt.mapAt \in Nat /\ fdt.structSize \in Nat /\ Len(fdt.strings) \in Nat
      BY <1>1, BlobParts, FdtEditAssumption
    <3>2. RsvSize * (Len(s) - 1) = RsvSize * Len(s) - RsvSize /\ RsvSize * Len(s) \in Nat
      BY <2>1, <3>1
    <3>6. Len(g.rsv) = Len(s) - 1
      BY <2>5, <2>9
    <3>3. OffDtStruct(g) = OffDtStruct(fdt) - RsvSize /\ OffDtStruct(fdt) \in Nat
      <4>1. OffDtStruct(g) = fdt.mapAt + RsvSize * (Len(s) - 1)
        BY <2>9, <3>6, Zenon DEF OffDtStruct
      <4>2. OffDtStruct(fdt) = fdt.mapAt + RsvSize * Len(s)
        BY Zenon DEF OffDtStruct, s
      <4> QED
        BY <3>1, <3>2, <4>1, <4>2
    <3>4. DataSize(g) = DataSize(fdt) - RsvSize
      BY <2>9, <3>1, <3>3 DEF DataSize
    <3>5. DataSize(fdt) <= fdt.size /\ DataSize(fdt) \in Nat
      BY <1>1, DataSizeIs, HasRoom, Editing
    <3> QED
      BY <2>8, <3>1, <3>4, <3>5
  <2>11. Sound(g)
    BY <1>1, <2>5, <2>6, <2>8, <2>10, SoundMoved
  <2> QED
    BY <1>4, <2>11, ReturnsSound
<1> QED
  BY <1>2, <1>3, <1>4

LEMMA OpenIntoSound ==
  ASSUME Inv, NEW n \in Buffers, OpenInto(n)
  PROVE  Inv'
<1> DEFINE g == [fdt EXCEPT !.size = n]
<1>1. Sound(fdt) /\ fdt \in Blob /\ fdt.magic = "fdt" /\ n \in Nat
  BY FdtEditAssumption DEF Inv, Sound, OpenInto, Finished
<1>2. Returns(fdt, NOSPACE) \/ (~ (fdt.size > n) /\ Returns(g, 0))
  BY Zenon DEF OpenInto
<1>3. CASE Returns(fdt, NOSPACE)
  BY <1>1, <1>3, ReturnsSound DEF NOSPACE
<1>4. CASE ~ (fdt.size > n) /\ Returns(g, 0)
  <2>1. /\ g = [fdt EXCEPT !.mapAt = fdt.mapAt, !.rsv = fdt.rsv, !.size = n]
        /\ fdt.mapAt \in {HeaderSize, RsvMapOffset} /\ DataSize(g) = DataSize(fdt)
    BY <1>1 DEF Blob, Blobs, DataSize, OffDtStruct
  <2> HIDE DEF g
  <2>2. DataSize(g) <= n
    <3>1. DataSize(fdt) <= fdt.size /\ DataSize(fdt) \in Nat /\ fdt.size \in Nat
      BY <1>1, DataSizeIs, BlobParts, HasRoom, Editing
    <3> QED
      BY <1>1, <1>4, <2>1, <3>1
  <2>3. fdt.rsv \in Seq(Sizes \cup {0}) /\ \E k \in DOMAIN fdt.rsv : fdt.rsv[k] = 0
    BY <1>1, BlobParts DEF Sound, EndsMap
  <2>4. Sound(g)
    BY <1>1, <2>1, <2>2, <2>3, SoundMoved
  <2> QED
    BY <1>4, <2>4, ReturnsSound
<1> QED
  BY <1>2, <1>3, <1>4

LEMMA PackSound ==
  ASSUME Inv, Pack
  PROVE  Inv'
<1> DEFINE rsv == SubSeq(fdt.rsv, 1, NumMemRsv + 1)
           packed == [fdt EXCEPT !.mapAt = HeaderSize, !.rsv = rsv]
           g == [packed EXCEPT !.size = DataSize(packed)]
<1>1. Sound(fdt) /\ fdt \in Blob /\ fdt.magic = "fdt"
  BY DEF Inv, Sound, Pack, Finished
<1>2. Returns(g, 0)
  BY DEF Pack
<1>3. /\ NumMemRsv + 1 \in 1..Len(fdt.rsv) /\ fdt.rsv[NumMemRsv + 1] = 0
      /\ fdt.rsv \in Seq(Sizes \cup {0}) /\ Len(fdt.rsv) \in Nat
  BY <1>1, MapEnd, BlobParts
<1>4. rsv \in Seq(Sizes \cup {0}) /\ \E k \in DOMAIN rsv : rsv[k] = 0
  <2>1. PICK i \in 1..Len(fdt.rsv) : i = NumMemRsv + 1
    BY <1>3
  <2>2. SubSeq(fdt.rsv, 1, i) \in Seq(Sizes \cup {0})
    BY <1>3, <2>1
  <2>3. SubSeq(fdt.rsv, 1, i)[i] = 0 /\ i \in DOMAIN SubSeq(fdt.rsv, 1, i)
    BY <1>3, <2>1
  <2> QED
    BY <2>1, <2>2, <2>3
<1> HIDE DEF rsv
<1>5. packed \in Blob
  BY <1>1, <1>4 DEF Blob, Blobs
<1>6. DataSize(packed) \in Nat
  BY <1>5, DataSizeIs
<1> DEFINE size == DataSize(packed)
<1>7. size \in Nat /\ g = [fdt EXCEPT !.mapAt = HeaderSize, !.rsv = rsv, !.size = size]
  BY <1>6
<1>8. DataSize(g) = size /\ DataSize(g) <= size
  <2>1. /\ g.rsv = packed.rsv /\ g.structSize = packed.structSize /\ g.strings = packed.strings
        /\ g.mapAt = packed.mapAt
    <3> HIDE DEF packed
    <3> QED
      BY <1>5 DEF Blob, Blobs
  <2>2. DataSize(g) = size
    BY <2>1 DEF DataSize, OffDtStruct
  <2> QED
    BY <1>7, <2>2
<1> HIDE DEF size, g, packed
<1>9. Sound(g)
  BY <1>1, <1>4, <1>7, <1>8, SoundMoved
<1> QED
  BY <1>2, <1>9, ReturnsSound

-----------------------------------------------------------------------------
(* Collecting the strings.                                                  *)

\* The new blob, as it is while the names are added again to its table.
Alike ==
  {b \in Blob : /\ b.magic = "fdt" /\ b.mapAt = fdt.mapAt /\ b.rsv = fdt.rsv /\ b.structSize = fdt.structSize
                /\ b.size \in {0, fdt.size} /\ Len(b.struct) = Len(fdt.struct)
                /\ \A i \in 1..Len(fdt.struct) :
                     /\ b.struct[i].tag = fdt.struct[i].tag
                     /\ CellSize(b.struct[i]) = CellSize(fdt.struct[i])}

\* The names of the first k cells are in the new table, and it fits.
Collected(b, k) ==
  b.size # 0 => /\ DataSize(b) <= b.size
                /\ \A i \in 1..k : b.struct[i] \in NamedCells("fdt", Len(b.strings))

\* The name of one cell is added.
Readded(new, k) ==
  LET found == FindAddString(new, StringAt(fdt, fdt.struct[k].nameoff))
  IN IF new.size = 0 \/ fdt.struct[k].tag # "PROP" THEN new
     ELSE IF found.at < 0 THEN [new EXCEPT !.size = 0]
     ELSE [found.f EXCEPT !.struct[k].nameoff = found.at]

LEMMA AlikeParts ==
  ASSUME NEW b \in Alike, NEW k \in 1..Len(fdt.struct)
  PROVE  /\ b \in Blob /\ b.struct \in Seq(Cells) /\ Len(b.struct) = Len(fdt.struct)
         /\ Len(b.strings) \in Nat /\ b.struct[k] \in Cells
         /\ b.struct[k].tag = fdt.struct[k].tag
<1>1. b \in Blob /\ Len(b.struct) = Len(fdt.struct) /\ b.struct[k].tag = fdt.struct[k].tag
  BY DEF Alike
<1>2. b.struct \in Seq(Cells) /\ Len(b.strings) \in Nat
  BY <1>1, BlobParts
<1>3. b.struct[k] \in Cells
  BY <1>1, <1>2, ElementOfSeq
<1> QED
  BY <1>1, <1>2, <1>3

LEMMA ReaddedIs ==
  ASSUME Sound(fdt), fdt.magic = "fdt", NEW k \in 1..Len(fdt.struct), NEW b \in Alike
  PROVE  Readded(b, k) \in Alike /\ (Collected(b, k - 1) => Collected(Readded(b, k), k))
<1> DEFINE s == StringAt(fdt, fdt.struct[k].nameoff)
           found == FindAddString(b, s)
           g == found.f
           old == b.struct[k]
           new == [old EXCEPT !.nameoff = found.at]
           cells == [b.struct EXCEPT ![k] = new]
           h == [g EXCEPT !.struct = cells]
<1>1. /\ b \in Blob /\ b.struct \in Seq(Cells) /\ Len(b.struct) = Len(fdt.struct)
      /\ Len(b.strings) \in Nat /\ old \in Cells /\ old.tag = fdt.struct[k].tag
  BY AlikeParts
<1>2. Len(fdt.struct) \in Nat /\ k \in Int /\ \A i \in 1..k : i = k \/ i \in 1..k - 1
  BY Editing
<1>3. CASE b.size = 0
  <2>1. Readded(b, k) = b
    BY <1>3 DEF Readded
  <2> QED
    BY <1>3, <2>1, Zenon DEF Collected
<1>4. CASE fdt.struct[k].tag # "PROP"
  <2>1. Readded(b, k) = b
    BY <1>4 DEF Readded
  <2>2. old \in NamedCells("fdt", Len(b.strings))
    BY <1>1, <1>4, NoNameNeeded
  <2> HIDE DEF found, s
  <2>3. Collected(b, k - 1) => Collected(b, k)
    BY <1>2, <2>2 DEF Collected
  <2> QED
    BY <2>1, <2>3, Zenon
<1>5. CASE b.size # 0 /\ fdt.struct[k].tag = "PROP"
  <2>1. s \in Seq(Characters)
    <3>1. fdt.struct[k] \in NamedCells("fdt", Len(fdt.strings)) /\ Len(fdt.strings) \in Nat
          /\ fdt \in Blob
      BY Editing, ElementOfSeq
    <3>2. fdt.struct[k].nameoff \in 0..Len(fdt.strings) - 1
      BY <1>5, <3>1 DEF NamedCells
    <3>3. fdt.struct[k].nameoff \in -Len(fdt.strings)..Len(fdt.strings) - 1
      BY <3>1, <3>2
    <3> QED
      BY <3>1, <3>3, StringAtIs
  <2> HIDE DEF s
  <2>2. /\ found.at \in Int /\ Extends(b, g)
        /\ found.at >= 0 => found.at \in 0..Len(g.strings) - 1
    BY <1>1, <2>1, FindAddStringAny, Zenon
  <2>3. Readded(b, k) = IF found.at < 0 THEN [b EXCEPT !.size = 0]
                        ELSE [g EXCEPT !.struct[k].nameoff = found.at]
    BY <1>5 DEF Readded, s
  <2> HIDE DEF found
  <2>4. CASE found.at < 0
    <3> DEFINE none == [b EXCEPT !.size = 0]
    <3>1. /\ none \in Blob /\ none.size = 0 /\ none.magic = b.magic /\ none.rsv = b.rsv
          /\ none.structSize = b.structSize /\ none.struct = b.struct /\ none.mapAt = b.mapAt
      BY <1>1 DEF Blob, Blobs
    <3> HIDE DEF none
    <3>2. none \in Alike
      BY <3>1 DEF Alike
    <3>3. Collected(none, k)
      BY <3>1 DEF Collected
    <3>4. Readded(b, k) = none
      BY <2>3, <2>4 DEF none
    <3> QED
      BY <3>2, <3>3, <3>4, Zenon
  <2>5. CASE ~ (found.at < 0)
    <3>1. /\ g \in Blob /\ g.magic = b.magic /\ g.rsv = b.rsv /\ g.struct = b.struct
          /\ g.structSize = b.structSize /\ g.size = b.size /\ g.mapAt = b.mapAt
          /\ Len(g.strings) \in Nat /\ Len(b.strings) <= Len(g.strings)
          /\ (DataSize(b) <= b.size => DataSize(g) <= g.size)
      BY <2>2 DEF Extends
    <3>2. found.at \in 0..Len(g.strings) - 1 /\ found.at \in Int
      BY <2>2, <2>5
    <3>3. Readded(b, k) = h
      <4>1. [g EXCEPT !.struct[k].nameoff = found.at] = h
        BY <3>1
      <4> QED
        BY <2>3, <2>5, <4>1, Zenon
    <3> HIDE DEF g, old
    <3>4. old \in [tag : {"PROP"}, nameoff : Int, val : Seq(Characters)]
      BY <1>1, <1>5 DEF Cells
    <3>5. /\ new \in [tag : {"PROP"}, nameoff : Int, val : Seq(Characters)]
          /\ new.tag = "PROP" /\ new.nameoff = found.at /\ new.val = old.val /\ old.tag = "PROP"
      BY <3>2, <3>4
    <3> HIDE DEF new
    <3>6. new \in Cells /\ new \in NamedCells("fdt", Len(g.strings)) /\ CellSize(new) = CellSize(old)
      BY <3>2, <3>5 DEF Cells, NamedCells, CellSize
    <3>7. /\ cells \in Seq(Cells) /\ Len(cells) = Len(b.struct)
          /\ \A i \in 1..Len(b.struct) : cells[i] = IF i = k THEN new ELSE b.struct[i]
      BY <1>1, <3>6, ExceptSeq
    <3> HIDE DEF cells
    <3>8. /\ h \in Blob /\ h.magic = g.magic /\ h.rsv = g.rsv /\ h.struct = cells
          /\ h.structSize = g.structSize /\ h.strings = g.strings /\ h.size = g.size
          /\ h.mapAt = g.mapAt
      BY <3>1, <3>7 DEF Blob, Blobs
    <3> HIDE DEF h
    <3>9. h \in Alike
      <4>1. \A i \in 1..Len(fdt.struct) :
              cells[i].tag = b.struct[i].tag /\ CellSize(cells[i]) = CellSize(b.struct[i])
        BY <1>1, <3>5, <3>6, <3>7 DEF old
      <4> QED
        BY <1>1, <3>1, <3>7, <3>8, <4>1 DEF Alike
    <3>10. ASSUME Collected(b, k - 1)
           PROVE  Collected(h, k)
      <4>1. DataSize(b) <= b.size /\ \A i \in 1..k - 1 : b.struct[i] \in NamedCells("fdt", Len(b.strings))
        BY <1>5, <3>10 DEF Collected
      <4>2. DataSize(h) <= h.size
        BY <3>1, <3>8, <4>1 DEF DataSize, OffDtStruct
      <4>3. NamedCells("fdt", Len(b.strings)) \subseteq NamedCells("fdt", Len(g.strings))
        BY <1>1, <3>1, NamedMore
      <4>4. ASSUME NEW i \in 1..k
            PROVE  cells[i] \in NamedCells("fdt", Len(g.strings))
        <5>1. i \in 1..Len(b.struct)
          BY <1>1, <1>2
        <5>2. CASE i = k
          BY <3>6, <3>7, <5>1, <5>2
        <5>3. CASE i # k
          <6>1. i \in 1..k - 1
            BY <1>2, <5>3
          <6> QED
            BY <3>7, <4>1, <4>3, <5>1, <5>3, <6>1
        <5> QED
          BY <5>2, <5>3
      <4> QED
        BY <3>8, <4>2, <4>4 DEF Collected
    <3> QED
      BY <3>3, <3>9, <3>10, Zenon
  <2> QED
    BY <2>4, <2>5
<1> QED
  BY <1>3, <1>4, <1>5

LEMMA RemoveUnusedStringsSound ==
  ASSUME Inv, RemoveUnusedStrings
  PROVE  Inv'
<1> DEFINE n == Len(fdt.struct)
           empty == [fdt EXCEPT !.strings = <<>>]
           Is(w) == w = [k \in 0..n |-> IF k = 0 THEN empty ELSE Readded(w[k - 1], k)]
           w == CHOOSE x : Is(x)
<1>1. Sound(fdt) /\ fdt \in Blob /\ fdt.magic = "fdt"
  BY DEF Inv, Sound, RemoveUnusedStrings, Finished
<1>2. n \in Nat /\ fdt.struct \in Seq(Cells)
  BY <1>1, Editing
<1>3. IF w[n].size = 0 THEN Returns(fdt, NOSPACE) ELSE Returns(w[n], 0)
  BY Zenon DEF RemoveUnusedStrings, Readded
<1>4. empty \in Alike /\ Collected(empty, 0)
  <2>1. <<>> \in Seq(Characters)
    OBVIOUS
  <2>2. /\ empty \in Blob /\ empty.magic = "fdt" /\ empty.rsv = fdt.rsv /\ empty.size = fdt.size
        /\ empty.struct = fdt.struct /\ empty.structSize = fdt.structSize
        /\ empty.strings = <<>> /\ empty.mapAt = fdt.mapAt
    BY <1>1, <2>1 DEF Blob, Blobs
  <2> HIDE DEF empty
  <2>3. empty \in Alike
    BY <2>2 DEF Alike
  <2>4. DataSize(empty) <= empty.size
    <3>1. OffDtStruct(empty) = OffDtStruct(fdt)
      BY <2>2 DEF OffDtStruct
    <3>2. DataSize(fdt) = OffDtStruct(fdt) + fdt.structSize + Len(fdt.strings)
          /\ OffDtStruct(fdt) \in Nat /\ fdt.structSize \in Nat /\ Len(fdt.strings) \in Nat
          /\ fdt.size \in Nat /\ DataSize(fdt) <= fdt.size
      BY <1>1, DataSizeIs, BlobParts, HasRoom, Editing
    <3>3. DataSize(empty) = OffDtStruct(fdt) + fdt.structSize
      BY <2>2, <3>1, <3>2 DEF DataSize
    <3> QED
      BY <2>2, <3>2, <3>3
  <2> QED
    BY <2>3, <2>4 DEF Collected
<1> HIDE DEF empty
<1>5. Is(w)
  <2> DEFINE step == [k \in 1..n |-> [b \in Alike |-> Readded(b, k)]]
  <2>1. step \in [1..n -> [Alike -> Alike]]
    BY <1>1, ReaddedIs
  <2>2. \A k \in 1..n, b \in Alike : step[k][b] = Readded(b, k)
    OBVIOUS
  <2> HIDE DEF step, n
  <2>3. \E u : Follows(u, Alike, empty, n, step)
    BY <1>2, <1>4, <2>1, Recursion
  <2>4. PICK u \in [0..n -> Alike] : u[0] = empty /\ \A i \in 1..n : u[i] = step[i][u[i - 1]]
    BY <2>3 DEF Follows
  <2>5. ASSUME NEW i \in 1..n
        PROVE  u[i] = Readded(u[i - 1], i)
    <3>1. i - 1 \in 0..n
      BY <1>2
    <3> QED
      BY <2>2, <2>4, <3>1
  <2>6. \A k \in 0..n : k # 0 => k \in 1..n
    BY <1>2
  <2>7. \A k \in 0..n : u[k] = IF k = 0 THEN empty ELSE Readded(u[k - 1], k)
    BY <2>4, <2>5, <2>6
  <2>8. Is(u)
    BY <2>4, <2>7
  <2> QED
    BY <2>8
<1> HIDE DEF w, n
<1>6. w[0] = empty /\ \A i \in 1..n : w[i] = Readded(w[i - 1], i)
  BY <1>2, <1>5
<1> DEFINE S == {m \in Nat : m <= n => w[m] \in Alike /\ Collected(w[m], m)}
<1>7. 0 \in S
  BY <1>4, <1>6
<1>8. ASSUME NEW m \in S
      PROVE  m + 1 \in S
  <2>1. m \in Nat /\ m + 1 \in Nat
    OBVIOUS
  <2>2. CASE m + 1 <= n
    <3>1. m + 1 \in 1..n /\ (m + 1) - 1 = m /\ w[m] \in Alike /\ Collected(w[m], m)
      BY <1>2, <2>1, <2>2
    <3>2. w[m + 1] = Readded(w[m], m + 1)
      BY <1>6, <3>1
    <3>3. Readded(w[m], m + 1) \in Alike /\ Collected(Readded(w[m], m + 1), m + 1)
      BY <1>1, <3>1, ReaddedIs DEF n
    <3> QED
      BY <2>1, <3>2, <3>3
  <2> QED
    BY <2>1, <2>2
<1>9. S \in SUBSET Nat
  OBVIOUS
<1> HIDE DEF S
<1>10. S = Nat
  BY <1>7, <1>8, <1>9, SetInduction
<1>11. w[n] \in Alike /\ Collected(w[n], n)
  BY <1>2, <1>10 DEF S
<1> DEFINE new == w[n]
<1>12. CASE Returns(fdt, NOSPACE)
  BY <1>1, <1>12, ReturnsSound DEF NOSPACE
<1>13. CASE new.size # 0 /\ Returns(new, 0)
  <2>0. new \in Alike /\ Collected(new, n)
    BY <1>11
  <2> HIDE DEF new
  <2>1. /\ new \in Blob /\ new.magic = "fdt" /\ new.rsv = fdt.rsv
        /\ new.structSize = fdt.structSize /\ Len(new.struct) = n
        /\ \A i \in 1..n : CellSize(new.struct[i]) = CellSize(fdt.struct[i])
    BY <2>0 DEF Alike, n
  <2>2. DataSize(new) <= new.size /\ \A i \in 1..n : new.struct[i] \in NamedCells("fdt", Len(new.strings))
    BY <1>13, <2>0 DEF Collected
  <2>3. new.struct \in Seq(Cells)
    BY <2>1, BlobParts
  <2>4. SizeOf(new.struct) = SizeOf(fdt.struct)
    BY <1>2, <2>1, <2>3, SizeOfAlike DEF n
  <2>5. new.struct \in Seq(NamedCells("fdt", Len(new.strings)))
    BY <1>2, <2>1, <2>2, <2>3
  <2>6. EndsMap(new)
    BY <1>1, <2>1 DEF Sound, EndsMap
  <2>7. Sound(new)
    BY <1>1, <2>1, <2>2, <2>4, <2>5, <2>6 DEF Sound
  <2> QED
    BY <1>13, <2>7, ReturnsSound
<1> QED
  BY <1>3, <1>12, <1>13

-----------------------------------------------------------------------------
(* Every call.                                                              *)

LEMMA WriteSound ==
  ASSUME Inv, Write
  PROVE  Inv' \/ Lost'
<1>1. ASSUME NEW size \in Sizes, AddReservemapEntry(size)
      PROVE  Inv'
  BY <1>1, AddReservemapEntrySound
<1>2. CASE AddReservemapEntry(0)
  BY <1>2, AddReservemapEntrySound
<1>3. ASSUME NEW name \in Names \cup {<<>>}, BeginANode(name)
      PROVE  Inv'
  BY <1>3, BeginANodeSound
<1>4. CASE EndNode
  BY <1>4, EndNodeSound
<1>5. ASSUME NEW name \in Props, NEW val \in Values, Property(name, val)
      PROVE  Inv' \/ Lost'
  BY <1>5, PropertySound
<1>6. CASE Finish
  BY <1>6, FinishSound
<1> QED
  BY <1>1, <1>2, <1>3, <1>4, <1>5, <1>6, Zenon DEF Write

LEMMA EditPropsSound ==
  ASSUME Inv, EditProps
  PROVE  Inv'
<1>1. PICK node \in Offsets, name \in Props :
        \/ DelProp(node, name) \/ NopProperty(node, name)
        \/ \E val \in Values : \/ SetProp(node, name, val)
                               \/ AppendProp(node, name, val)
                               \/ SetPropInplace(node, name, val)
  BY Zenon DEF EditProps
<1>2. CASE DelProp(node, name)
  BY <1>2, DelPropSound
<1>3. CASE NopProperty(node, name)
  BY <1>3, NopPropertySound
<1>4. ASSUME NEW val \in Values, SetProp(node, name, val)
      PROVE  Inv'
  BY <1>4, SetPropSound
<1>5. ASSUME NEW val \in Values, AppendProp(node, name, val)
      PROVE  Inv'
  BY <1>5, AppendPropSound
<1>6. ASSUME NEW val \in Values, SetPropInplace(node, name, val)
      PROVE  Inv'
  BY <1>6, SetPropInplaceSound
<1> QED
  BY <1>1, <1>2, <1>3, <1>4, <1>5, <1>6, Zenon

LEMMA EditNodesSound ==
  ASSUME Inv, EditNodes
  PROVE  Inv'
<1>1. PICK node \in Offsets :
        \/ DelNode(node) \/ NopNode(node)
        \/ \E name \in Names : AddSubnode(node, name) \/ SetName(node, name)
  BY Zenon DEF EditNodes
<1>2. CASE DelNode(node)
  BY <1>2, DelNodeSound
<1>3. CASE NopNode(node)
  BY <1>3, NopNodeSound
<1>4. ASSUME NEW name \in Names, AddSubnode(node, name)
      PROVE  Inv'
  BY <1>4, AddSubnodeSound
<1>5. ASSUME NEW name \in Names, SetName(node, name)
      PROVE  Inv'
  BY <1>5, SetNameSound
<1> QED
  BY <1>1, <1>2, <1>3, <1>4, <1>5, Zenon

LEMMA EditBlobSound ==
  ASSUME Inv, EditBlob
  PROVE  Inv'
<1>1. ASSUME NEW size \in Sizes, AddMemRsv(size)
      PROVE  Inv'
  BY <1>1, AddMemRsvSound
<1>2. ASSUME NEW n \in 0..2, DelMemRsv(n)
      PROVE  Inv'
  BY <1>2, DelMemRsvSound
<1>3. CASE Pack
  BY <1>3, PackSound
<1>4. ASSUME NEW n \in Buffers, OpenInto(n)
      PROVE  Inv'
  BY <1>4, OpenIntoSound
<1>5. CASE RemoveUnusedStrings
  BY <1>5, RemoveUnusedStringsSound
<1> QED
  BY <1>1, <1>2, <1>3, <1>4, <1>5, Zenon DEF EditBlob

\* No call knows a blob whose header is lost.
LEMMA LostStays ==
  ASSUME Lost, [Next]_vars
  PROVE  Lost'
<1>1. fdt.magic = "lost" /\ fdt \in Blobs({"lost"})
  BY DEF Lost, Blobs
<1>2. ~Writing /\ ~Finished
  BY <1>1 DEF Writing, Finished
<1>3. ~Write
  BY <1>2, Zenon DEF Write, AddReservemapEntry, BeginANode, EndNode, Property, Finish
<1>4. ~EditProps
  BY <1>2, Zenon DEF EditProps, DelProp, NopProperty, SetProp, AppendProp, SetPropInplace
<1>5. ~EditNodes
  BY <1>2, Zenon DEF EditNodes, DelNode, NopNode, AddSubnode, SetName
<1>6. ~EditBlob
  BY <1>2, Zenon DEF EditBlob, AddMemRsv, DelMemRsv, Pack, OpenInto, RemoveUnusedStrings
<1>7. WrongState \/ UNCHANGED vars
  BY <1>3, <1>4, <1>5, <1>6 DEF Next
<1>8. fdt' = fdt /\ ret' \in Int
  <2>1. CASE WrongState
    BY <1>2, <2>1 DEF WrongState, Returns, BADMAGIC
  <2>2. CASE UNCHANGED vars
    BY <2>2 DEF vars, Lost
  <2> QED
    BY <1>7, <2>1, <2>2
<1> QED
  BY <1>1, <1>8 DEF Lost

THEOREM SoundAlways == Spec => [](Inv \/ Lost)
<1>1. Init => Inv
  BY InitSound
<1>2. Inv /\ [Next]_vars => Inv' \/ Lost'
  <2> SUFFICES ASSUME Inv, [Next]_vars
               PROVE  Inv' \/ Lost'
    OBVIOUS
  <2>1. CASE Write
    BY <2>1, WriteSound
  <2>2. CASE WrongState
    BY <2>2, WrongStateSound
  <2>3. CASE EditProps
    BY <2>3, EditPropsSound
  <2>4. CASE EditNodes
    BY <2>4, EditNodesSound
  <2>5. CASE EditBlob
    BY <2>5, EditBlobSound
  <2>6. CASE UNCHANGED vars
    <3>1. Returns(fdt, ret) /\ Sound(fdt) /\ ret \in Int
      BY <2>6 DEF Returns, Inv, vars
    <3> QED
      BY <3>1, ReturnsSound
  <2> QED
    BY <2>1, <2>2, <2>3, <2>4, <2>5, <2>6 DEF Next
<1>3. Lost /\ [Next]_vars => Lost'
  BY LostStays
<1> QED
  BY <1>1, <1>2, <1>3, PTL DEF Spec

\* Whatever is written, edited, moved and collected, the blob has its types and every
\* property a name in the table, counted from the end while the tree is written and from
\* the start afterwards (fdt_sw.c:230-245, fdt_rw.c:448-484), until a name that is too
\* long takes the header with it.
THEOREM TypeCorrect == Spec => []TypeOK
<1>1. Inv => TypeOK
  <2> SUFFICES ASSUME Inv
               PROVE  TypeOK
    OBVIOUS
  <2>1. Sound(fdt) /\ ret \in Int /\ fdt \in Blob
    BY DEF Inv, Sound
  <2>2. ASSUME NEW k \in DOMAIN fdt.struct, fdt.struct[k].tag = "PROP"
        PROVE  fdt.struct[k].nameoff \in IF Writing THEN -Len(fdt.strings)..-1
                                        ELSE 0..Len(fdt.strings) - 1
    <3>1. k \in 1..Len(fdt.struct)
      BY <2>1, BlobParts
    <3>2. fdt.struct[k] \in NamedCells(fdt.magic, Len(fdt.strings))
      BY <2>1, <3>1, ElementOfSeq DEF Sound
    <3> QED
      BY <2>2, <3>2 DEF NamedCells, Writing
  <2> QED
    BY <2>1, <2>2 DEF TypeOK, Blob, Blobs
<1>2. Lost => TypeOK
  BY DEF Lost, TypeOK, Blobs
<1> QED
  BY <1>1, <1>2, SoundAlways, PTL

\* Where every property's name is shorter than what fdt_create leaves in front of the
\* reserve map, no sequence of calls brings the blob past the end of the buffer it was
\* given: once the map is begun, header, reserve map, structure block and strings together
\* always fit (fdt_rw.c:56-69, fdt_sw.c:27-40, :167-170).  That names are short is needed:
\* the test for room is one of unsigned numbers.
THEOREM BlocksFit == ShortNames => (Spec => []Fits)
<1> SUFFICES ASSUME ShortNames
             PROVE  Spec => []Fits
  OBVIOUS
<1>1. Inv => Fits
  BY DEF Inv, Sound, Fits
<1>2. Lost => Fits
  BY DEF Lost
<1> QED
  BY <1>1, <1>2, SoundAlways, PTL

\* The size of the structure block in the header, which every call corrects by a
\* difference, is the sum of the sizes of its cells after any number of calls
\* (fdt_rw.c:84-97, fdt_sw.c:43).
THEOREM HeaderIsTrue == Spec => []HeaderTrue
<1>1. Inv => HeaderTrue
  BY DEF Inv, Sound, HeaderTrue
<1>2. Lost => HeaderTrue
  BY DEF Lost, Blobs, HeaderTrue
<1> QED
  BY <1>1, <1>2, SoundAlways, PTL

=============================================================================
