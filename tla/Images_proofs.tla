--------------------------- MODULE Images_proofs ---------------------------
(***************************************************************************)
(* The way through an image file, for every file that is well made: the    *)
(* image's IVT is found (ImageIsFound), what is downloaded and started is  *)
(* what the file describes (AskedIsRun), and the registers of its DCD are  *)
(* set before (RegistersAreSet).                                           *)
(***************************************************************************)
EXTENDS Images, SequenceTheorems, FiniteSetTheorems, WellFoundedInduction, TLAPS

LEMMA Least ==
  ASSUME NEW T \in SUBSET Nat, T # {}
  PROVE  \E x \in T : \A y \in T : x <= y
<1> DEFINE R == OpToRel(<, Nat)
<1>1. IsWellFoundedOn(R, Nat)
  BY NatLessThanWellFounded
<1>2. \A x \in Nat, y \in Nat : y < x => <<y, x>> \in R
  BY DEF OpToRel
<1> HIDE DEF R
<1>3. \E x \in T : \A y \in T : ~ (<<y, x>> \in R)
  BY <1>1, WFMin
<1>4. \A x, y \in T : x \in Nat /\ y \in Nat
  OBVIOUS
<1>5. \A x \in T, y \in T : ~ (<<y, x>> \in R) => x <= y
  BY <1>2, <1>4
<1> QED
  BY <1>3, <1>5

LEMMA FirstOfLeast ==
  ASSUME NEW S \in SUBSET Nat, NEW a \in S, NEW o
  PROVE  FirstOf(S, o) \in S /\ FirstOf(S, o) <= a
<1>1. \E x \in S : \A y \in S : x <= y
  BY Least
<1> QED
  BY <1>1 DEF FirstOf, Min

LEMMA SmallMod == \A a \in 0..W - 1 : a % W = a
BY ImagesAssumption

LEMMA Step256 ==
  ASSUME NEW a \in Nat, NEW b \in Nat, a % 256 = 0, b % 256 = 0, a <= b
  PROVE  \E n \in Nat : b = a + 256 * n /\ n <= b \div 256
BY Z3T(20)

LEMMA Aligned ==
  ASSUME NEW a \in Nat, a % 256 = 0, NEW d \in {0, 8, 12, 16, 20, 40}
  PROVE  ((a + d) \div 4) * 4 = a + d
BY Z3T(20)

LEMMA More256 ==
  ASSUME NEW a \in Nat, NEW b \in Nat, a % 256 = 0, b % 256 = 0, a < b
  PROVE  a + 256 <= b /\ (a + 256) % 256 = 0
BY Z3T(20)

-----------------------------------------------------------------------------
(* Sequences put together.                                                 *)

LEMMA SetInduction ==
  ASSUME NEW S \in SUBSET Nat, 0 \in S, \A n \in S : n + 1 \in S
  PROVE  S = Nat
<1> SUFFICES ASSUME Nat \ S # {} PROVE FALSE
  OBVIOUS
<1>1. PICK x \in Nat \ S : \A y \in Nat \ S : x <= y
  BY Least
<1>2. x # 0 /\ x - 1 \in Nat
  BY <1>1
<1>3. x - 1 \in S
  BY <1>1, <1>2
<1> QED
  BY <1>1, <1>3

LEMMA FlattenExists ==
  ASSUME NEW us, NEW n \in Nat
  PROVE  \E f : f = [i \in 1..n |-> IF i = 1 THEN us[i] ELSE f[i-1] \o us[i]]
<1> DEFINE Solves(f, m) == f = [i \in 1..m |-> IF i = 1 THEN us[i] ELSE f[i-1] \o us[i]]
           S == {m \in Nat : \E f : Solves(f, m)}
<1>1. 0 \in S
  <2>1. Solves([i \in 1..0 |-> 0], 0)
    OBVIOUS
  <2> QED
    BY <2>1
<1>2. ASSUME NEW m \in S
      PROVE  m + 1 \in S
  <2>0. m \in Nat
    OBVIOUS
  <2>1. PICK f : Solves(f, m)
    OBVIOUS
  <2> DEFINE g == [i \in 1..(m + 1) |-> IF i = m + 1 THEN IF i = 1 THEN us[i] ELSE f[i-1] \o us[i]
                                        ELSE f[i]]
  <2>2. \A i \in 1..(m + 1) : g[i] = IF i = 1 THEN us[i] ELSE g[i-1] \o us[i]
    <3> SUFFICES ASSUME NEW i \in 1..(m + 1)
                 PROVE  g[i] = IF i = 1 THEN us[i] ELSE g[i-1] \o us[i]
      OBVIOUS
    <3>1. CASE i = 1
      BY <3>1, <2>1
    <3>2. CASE i # 1
      <4>1. i - 1 \in 1..(m + 1) /\ i - 1 \in 1..m
        BY <3>2
      <4>2. g[i - 1] = f[i - 1]
        BY <4>1
      <4>3. CASE i = m + 1
        BY <3>2, <4>2, <4>3
      <4>4. CASE i # m + 1
        <5>1. i \in 1..m
          BY <4>4
        <5>2. f[i] = f[i-1] \o us[i]
          BY <2>1, <3>2, <5>1
        <5> QED
          BY <3>2, <4>2, <4>4, <5>2
      <4> QED
        BY <4>3, <4>4
    <3> QED
      BY <3>1, <3>2
  <2>3. Solves(g, m + 1)
    BY <2>2
  <2>4. \E h : Solves(h, m + 1)
    <3> HIDE DEF Solves, g
    <3> QED
      BY <2>3
  <2> HIDE DEF Solves, g
  <2> QED
    BY <2>0, <2>4
<1>3. n \in S
  <2> HIDE DEF S
  <2>1. S \in SUBSET Nat
    BY DEF S
  <2> QED
    BY <1>1, <1>2, <2>1, SetInduction
<1> QED
  BY <1>3

LEMMA Flattened ==
  ASSUME NEW V, NEW us \in Seq(Seq(V))
  PROVE  \E F \in [0..Len(us) -> Seq(V)] :
           /\ F[0] = <<>>
           /\ \A i \in 1..Len(us) : F[i] = F[i - 1] \o us[i]
           /\ FlattenSeq(us) = F[Len(us)]
<1> DEFINE n == Len(us)
           Solves(f) == f = [i \in 1..n |-> IF i = 1 THEN us[i] ELSE f[i-1] \o us[i]]
           f == CHOOSE g : Solves(g)
           F == [i \in 0..n |-> IF i = 0 THEN <<>> ELSE f[i]]
           S == {m \in Nat : m <= n => F[m] \in Seq(V)}
<1>0. n \in Nat
  OBVIOUS
<1>1. Solves(f)
  <2>1. \E g : Solves(g)
    BY <1>0, FlattenExists
  <2> HIDE DEF Solves
  <2> QED
    BY <2>1
<1>2. ASSUME NEW i \in 1..n
      PROVE  F[i] = F[i - 1] \o us[i]
  <2>1. us[i] \in Seq(V) /\ i - 1 \in 0..n /\ i \in 0..n /\ i # 0
    OBVIOUS
  <2>2. f[i] = IF i = 1 THEN us[i] ELSE f[i-1] \o us[i]
    BY <1>1
  <2> HIDE DEF f
  <2>3. CASE i = 1
    <3>1. F[i] = us[i] /\ F[i - 1] = <<>>
      BY <2>1, <2>2, <2>3
    <3>2. <<>> \o us[i] = us[i]
      BY <2>1, ConcatEmptySeq
    <3> QED
      BY <3>1, <3>2
  <2>4. CASE i # 1
    <3>1. i - 1 # 0 /\ F[i] = f[i]
      BY <2>1, <2>4
    <3>2. F[i - 1] = f[i - 1]
      BY <2>1, <3>1
    <3> HIDE DEF F
    <3> QED
      BY <2>2, <2>4, <3>1, <3>2
  <2> QED
    BY <2>3, <2>4
<1> HIDE DEF f, Solves
<1>3. F[0] = <<>>
  BY <1>0
<1>4. ASSUME NEW m \in S
      PROVE  m + 1 \in S
  <2>1. m \in Nat /\ (m <= n => F[m] \in Seq(V))
    OBVIOUS
  <2>2. CASE m + 1 <= n
    <3>1. m + 1 \in 1..n /\ m <= n /\ us[m + 1] \in Seq(V)
      BY <2>1, <2>2, <1>0
    <3>2. F[m + 1] = F[m] \o us[m + 1]
      <4>1. (m + 1) - 1 = m
        BY <2>1
      <4> HIDE DEF F
      <4> QED
        BY <1>2, <3>1, <4>1
    <3>3. F[m + 1] \in Seq(V)
      <4> HIDE DEF F
      <4> QED
        BY <2>1, <3>1, <3>2, ConcatProperties
    <3> HIDE DEF F
    <3> QED
      BY <2>1, <3>3
  <2> HIDE DEF F
  <2> QED
    BY <2>1, <2>2
<1>5. S = Nat
  <2>1. 0 \in S
    BY <1>3
  <2>2. S \in SUBSET Nat
    OBVIOUS
  <2> HIDE DEF S
  <2> QED
    BY <1>4, <2>1, <2>2, SetInduction
<1>6. \A i \in 0..n : F[i] \in Seq(V)
  <2> HIDE DEF F
  <2> QED
    BY <1>5, <1>0
<1>7. F \in [0..n -> Seq(V)]
  BY <1>6
<1>8. FlattenSeq(us) = F[n]
  <2>1. CASE n = 0
    <3>1. us = <<>>
      BY <2>1, EmptySeq
    <3>2. FlattenSeq(us) = us
      BY <2>1 DEF FlattenSeq
    <3> QED
      BY <1>3, <2>1, <3>1, <3>2
  <2>2. CASE n # 0
    <3>1. FlattenSeq(us) = f[n]
      BY <2>2, Zenon DEF FlattenSeq, f, Solves
    <3>2. F[n] = f[n]
      BY <1>0, <2>2
    <3> QED
      BY <3>1, <3>2
  <2> QED
    BY <2>1, <2>2
<1> HIDE DEF F, n
<1> QED
  BY <1>2, <1>3, <1>7, <1>8 DEF n

\* The one sequence is the beginning of the other.
Begins(s, t) == Len(s) <= Len(t) /\ \A j \in 1..Len(s) : t[j] = s[j]

\* What is put together up to a part is the beginning of the whole.
LEMMA Beginnings ==
  ASSUME NEW V, NEW us \in Seq(Seq(V)), NEW F \in [0..Len(us) -> Seq(V)],
         \A i \in 1..Len(us) : F[i] = F[i - 1] \o us[i],
         NEW k \in 0..Len(us)
  PROVE  Begins(F[k], F[Len(us)])
<1> DEFINE n == Len(us)
           S == {m \in Nat : k + m <= n => Begins(F[k], F[k + m])}
<1>0. n \in Nat /\ k \in Nat
  OBVIOUS
<1>1. 0 \in S
  <2>1. k + 0 = k /\ F[k] \in Seq(V)
    BY <1>0
  <2>2. Begins(F[k], F[k])
    BY <2>1 DEF Begins
  <2> QED
    BY <2>1, <2>2
<1>2. ASSUME NEW m \in S
      PROVE  m + 1 \in S
  <2>1. m \in Nat /\ (k + m <= n => Begins(F[k], F[k + m]))
    OBVIOUS
  <2>2. ASSUME k + (m + 1) <= n
        PROVE  Begins(F[k], F[k + (m + 1)])
    <3>1. PICK h \in 0..n, i \in 1..n : h = k + m /\ i = k + (m + 1) /\ i - 1 = h /\ h <= n
      BY <1>0, <2>1, <2>2
    <3>2. F[i] = F[h] \o us[i]
      BY <3>1
    <3>3. F[h] \in Seq(V) /\ us[i] \in Seq(V) /\ F[k] \in Seq(V)
      <4>1. us[i] \in Seq(V)
        BY ElementOfSeq
      <4>2. F[h] \in Seq(V) /\ F[k] \in Seq(V)
        OBVIOUS
      <4> QED
        BY <4>1, <4>2
    <3>4. Begins(F[k], F[h])
      BY <2>1, <3>1
    <3>5. /\ Len(F[i]) = Len(F[h]) + Len(us[i])
          /\ \A j \in 1..Len(F[h]) : F[i][j] = F[h][j]
      BY <3>2, <3>3, ConcatProperties
    <3>6. \A j \in 1..Len(F[k]) : j \in 1..Len(F[h])
      BY <3>3, <3>4 DEF Begins
    <3>7. \A j \in 1..Len(F[k]) : F[i][j] = F[k][j]
      BY <3>4, <3>5, <3>6 DEF Begins
    <3>8. Len(F[k]) <= Len(F[i])
      BY <3>3, <3>4, <3>5, LenProperties DEF Begins
    <3> QED
      BY <3>1, <3>7, <3>8 DEF Begins
  <2> QED
    BY <2>1, <2>2
<1>3. n - k \in Nat /\ k + (n - k) = n
  BY <1>0
<1>4. n - k \in S
  <2>1. S \in SUBSET Nat
    OBVIOUS
  <2> HIDE DEF S
  <2> QED
    BY <1>1, <1>2, <1>3, <2>1, SetInduction
<1>5. Begins(F[k], F[n])
  <2> QED
    BY <1>3, <1>4
<1> QED
  BY <1>5

-----------------------------------------------------------------------------
(* The words of a DCD.                                                      *)

\* t is s, of m pairs, with the pair u behind it.
PairMore(t, s, m, u) ==
  /\ Len(t) = 2 * (m + 1)
  /\ \A j \in 1..2 * m : t[j] = s[j]
  /\ t[2 * m + 1] = u[1] /\ t[2 * m + 2] = u[2]

LEMMA TwoMore ==
  ASSUME NEW s, s \in Seq(Nat), NEW m \in Nat, Len(s) = 2 * m, NEW u, u \in Seq(Nat), Len(u) = 2
  PROVE  PairMore(s \o u, s, m, u)
<1> DEFINE t == s \o u
<1>3. /\ t \in Seq(Nat) /\ Len(t) = 2 * m + 2
      /\ \A j \in 1..2 * m + 2 : t[j] = IF j <= 2 * m THEN s[j] ELSE u[j - 2 * m]
  <2>1. /\ t \in Seq(Nat) /\ Len(t) = Len(s) + Len(u)
        /\ \A j \in 1..Len(s) + Len(u) : t[j] = IF j <= Len(s) THEN s[j] ELSE u[j - Len(s)]
    BY ConcatProperties
  <2>2. Len(s) + Len(u) = 2 * m + 2
    OBVIOUS
  <2> HIDE DEF t
  <2> QED
    BY <2>1, <2>2
<1> HIDE DEF t
<1>4. 2 * m + 1 \in 1..2 * m + 2 /\ 2 * m + 2 \in 1..2 * m + 2 /\ \A j \in 1..2 * m : j \in 1..2 * m + 2
  OBVIOUS
<1>5. /\ ~ (2 * m + 1 <= 2 * m) /\ (2 * m + 1) - 2 * m = 1
      /\ ~ (2 * m + 2 <= 2 * m) /\ (2 * m + 2) - 2 * m = 2
      /\ 2 * (m + 1) = 2 * m + 2
  OBVIOUS
<1>6. t[2 * m + 1] = u[1] /\ t[2 * m + 2] = u[2]
  <2>1. /\ t[2 * m + 1] = IF 2 * m + 1 <= 2 * m THEN s[2 * m + 1] ELSE u[(2 * m + 1) - 2 * m]
        /\ t[2 * m + 2] = IF 2 * m + 2 <= 2 * m THEN s[2 * m + 2] ELSE u[(2 * m + 2) - 2 * m]
    BY <1>3, <1>4
  <2> QED
    BY <1>5, <2>1
<1>7. \A j \in 1..2 * m : t[j] = s[j]
  BY <1>3, <1>4
<1> QED
  BY <1>3, <1>5, <1>6, <1>7 DEF t, PairMore

LEMMA PairIs ==
  ASSUME NEW args \in Seq(Nat \X Nat), NEW i \in 1..Len(args)
  PROVE  args[i] \in Seq(Nat) /\ Len(args[i]) = 2 /\ args[i] = <<args[i][1], args[i][2]>>
<1>1. args[i] \in Nat \X Nat
  BY ElementOfSeq
<1>2. PICK a \in Nat, b \in Nat : args[i] = <<a, b>>
  BY <1>1, SMTT(30)
<1> QED
  BY <1>2

\* Registers are laid down one after another, address before value.
LEMMA PairsFlat ==
  ASSUME NEW args \in Seq(Nat \X Nat)
  PROVE  /\ FlattenSeq(args) \in Seq(Nat) /\ Len(FlattenSeq(args)) = 2 * Len(args)
         /\ \A i \in 1..Len(args) : <<FlattenSeq(args)[2 * i - 1], FlattenSeq(args)[2 * i]>> = args[i]
<1>1. ASSUME NEW i \in 1..Len(args)
      PROVE  args[i] \in Seq(Nat)
  BY PairIs
<1>2. args \in Seq(Seq(Nat))
  <2>1. PICK k \in Nat : k = Len(args)
    OBVIOUS
  <2>2. args = [i \in 1..k |-> args[i]]
    BY <2>1
  <2>3. args \in [1..k -> Seq(Nat)]
    BY <1>1, <2>1, <2>2, Zenon
  <2> QED
    BY <2>3
<1>3. PICK F \in [0..Len(args) -> Seq(Nat)] :
        /\ F[0] = <<>>
        /\ \A i \in 1..Len(args) : F[i] = F[i - 1] \o args[i]
        /\ FlattenSeq(args) = F[Len(args)]
  BY <1>2, Flattened
<1> DEFINE n == Len(args)
           Good(m) == /\ Len(F[m]) = 2 * m
                      /\ \A i \in 1..m : <<F[m][2 * i - 1], F[m][2 * i]>> = args[i]
           S == {m \in Nat : m <= n => Good(m)}
<1>0. n \in Nat
  OBVIOUS
<1>4. Good(0)
  BY <1>3
<1>5. ASSUME NEW m \in Nat, m + 1 <= n, Good(m)
      PROVE  Good(m + 1)
  <2>2. m \in 0..n /\ m + 1 \in 1..n /\ m + 1 \in 0..n /\ (m + 1) - 1 = m
    BY <1>0, <1>5
  <2>3. args[m + 1] \in Seq(Nat) /\ Len(args[m + 1]) = 2 /\ args[m + 1] = <<args[m + 1][1], args[m + 1][2]>>
    BY <2>2, PairIs
  <2>4. PICK u : u = args[m + 1] /\ u \in Seq(Nat) /\ Len(u) = 2 /\ u = <<u[1], u[2]>>
    BY <2>3
  <2>5. F[m + 1] = F[m] \o u
    <3> HIDE DEF n
    <3> QED
      BY <1>3, <2>2, <2>4 DEF n
  <2>6. F[m] \in Seq(Nat) /\ Len(F[m]) = 2 * m
    BY <1>5, <2>2
  <2>8. /\ Len(F[m + 1]) = 2 * (m + 1)
        /\ \A j \in 1..2 * m : F[m + 1][j] = F[m][j]
        /\ F[m + 1][2 * m + 1] = u[1] /\ F[m + 1][2 * m + 2] = u[2]
    <3>1. PICK s : s = F[m]
      OBVIOUS
    <3> HIDE DEF n, Good
    <3>2. PairMore(s \o u, s, m, u)
      BY <2>4, <2>6, <3>1, TwoMore
    <3> QED
      BY <2>5, <3>1, <3>2 DEF PairMore
  <2>9. ASSUME NEW i \in 1..m + 1
        PROVE  <<F[m + 1][2 * i - 1], F[m + 1][2 * i]>> = args[i]
    <3>1. CASE i = m + 1
      <4>1. 2 * i - 1 = 2 * m + 1 /\ 2 * i = 2 * m + 2
        BY <3>1
      <4> HIDE DEF Good, n
      <4> QED
        BY <2>4, <2>8, <3>1, <4>1
    <3>2. CASE i # m + 1
      <4>1. i \in 1..m /\ 2 * i - 1 \in 1..2 * m /\ 2 * i \in 1..2 * m
        BY <3>2
      <4>2. <<F[m][2 * i - 1], F[m][2 * i]>> = args[i]
        BY <1>5, <4>1
      <4>3. F[m + 1][2 * i - 1] = F[m][2 * i - 1] /\ F[m + 1][2 * i] = F[m][2 * i]
        BY <2>8, <4>1
      <4> HIDE DEF Good, n
      <4> QED
        BY <4>2, <4>3
    <3> QED
      BY <3>1, <3>2
  <2> QED
    BY <2>8, <2>9
<1>6. n \in S
  <2> HIDE DEF Good, n
  <2>1. 0 \in S
    BY <1>4
  <2>2. ASSUME NEW m \in S PROVE m + 1 \in S
    <3>1. m \in Nat /\ (m <= n => Good(m))
      OBVIOUS
    <3>2. m + 1 <= n => m <= n
      BY <1>0, <3>1
    <3> QED
      BY <1>5, <3>1, <3>2
  <2>3. S \in SUBSET Nat
    OBVIOUS
  <2> HIDE DEF S
  <2> QED
    BY <1>0, <2>1, <2>2, <2>3, SetInduction
<1>7. Good(n)
  <2> HIDE DEF Good
  <2> QED
    BY <1>0, <1>6
<1>8. F[n] \in Seq(Nat) /\ n \in 0..n
  BY <1>0
<1> QED
  BY <1>3, <1>7, <1>8

\* A command as DcdMade has it.
CommandMade(c) ==
  \/ c.tag = WRT_DAT /\ c.args \in Seq(Nat \X Nat)
  \/ c.tag = CHK_DAT /\ c.args \in Seq(Nat)
  \/ c.tag = NOP_CMD /\ c.args = <<>>

\* A command's registers follow its header.
PairsBehind(c) ==
  /\ Len(Command(c)) = 1 + 2 * Len(c.args)
  /\ \A i \in 1..Len(c.args) : <<Command(c)[2 * i], Command(c)[2 * i + 1]>> = c.args[i]

LEMMA CommandIs ==
  ASSUME NEW c, CommandMade(c)
  PROVE  /\ Command(c) \in Seq(Nat) /\ Len(Command(c)) \in Nat \ {0}
         /\ Command(c)[1] = Header(c.tag, 4 * Len(Command(c)))
         /\ Written(c) \in Seq(Nat \X Nat)
         /\ c.tag = WRT_DAT => PairsBehind(c)
         /\ c.tag = NOP_CMD => Len(Command(c)) = 1
<1>1. WRT_DAT # CHK_DAT /\ WRT_DAT # NOP_CMD /\ CHK_DAT # NOP_CMD
      /\ WRT_DAT \in Nat /\ CHK_DAT \in Nat /\ NOP_CMD \in Nat
  BY DEF WRT_DAT, CHK_DAT, NOP_CMD
<1>2. CASE c.tag = WRT_DAT
  <2>1. c.args \in Seq(Nat \X Nat)
    BY <1>1, <1>2 DEF CommandMade
  <2>2. PICK n \in Nat : n = Len(c.args)
    BY <2>1
  <2>3. PICK flat : flat = FlattenSeq(c.args)
    OBVIOUS
  <2>4. /\ flat \in Seq(Nat) /\ Len(flat) = 2 * n
        /\ \A i \in 1..n : <<flat[2 * i - 1], flat[2 * i]>> = c.args[i]
    BY <2>1, <2>2, <2>3, PairsFlat
  <2>5. PICK h \in Nat : h = Header(c.tag, 4 + 8 * n)
    BY <1>1, <1>2 DEF Header
  <2>6. Command(c) = <<h>> \o flat
    BY <1>2, <2>2, <2>3, <2>5 DEF Command
  <2>7. PICK s : s = <<h>> \o flat
    OBVIOUS
  <2>8. /\ s \in Seq(Nat) /\ Len(s) = 1 + 2 * n /\ s[1] = h
        /\ \A j \in 1..2 * n : s[j + 1] = flat[j]
    BY <2>4, <2>7
  <2>9. ASSUME NEW i \in 1..n
        PROVE  <<s[2 * i], s[2 * i + 1]>> = c.args[i]
    <3>1. 2 * i - 1 \in 1..2 * n /\ 2 * i \in 1..2 * n /\ (2 * i - 1) + 1 = 2 * i
      OBVIOUS
    <3>2. s[2 * i] = flat[2 * i - 1] /\ s[2 * i + 1] = flat[2 * i]
      BY <2>8, <3>1
    <3> QED
      BY <2>4, <3>2
  <2>10. h = Header(c.tag, 4 * Len(s)) /\ Len(s) \in Nat \ {0}
    BY <2>5, <2>8
  <2> QED
    BY <1>1, <1>2, <2>1, <2>2, <2>6, <2>7, <2>8, <2>9, <2>10 DEF Written, PairsBehind
<1>3. CASE c.tag # WRT_DAT
  <2>1. c.args \in Seq(Nat) /\ c.tag \in Nat
    <3>1. <<>> \in Seq(Nat)
      OBVIOUS
    <3>2. \/ c.tag = CHK_DAT /\ c.args \in Seq(Nat)
          \/ c.tag = NOP_CMD /\ c.args = <<>>
      BY <1>3 DEF CommandMade
    <3> QED
      BY <1>1, <3>1, <3>2, Zenon
  <2>2. PICK n \in Nat : n = Len(c.args)
    BY <2>1
  <2>5. PICK h \in Nat : h = Header(c.tag, 4 + 4 * n)
    BY <2>1 DEF Header
  <2>6. Command(c) = <<h>> \o c.args
    BY <1>3, <2>2, <2>5 DEF Command
  <2>7. PICK s : s = <<h>> \o c.args
    OBVIOUS
  <2>8. s \in Seq(Nat) /\ Len(s) = 1 + n /\ s[1] = h
    BY <2>1, <2>2, <2>7
  <2>9. c.tag = NOP_CMD => n = 0
    BY <1>1, <1>3, <2>2 DEF CommandMade
  <2>10. h = Header(c.tag, 4 * Len(s)) /\ Len(s) \in Nat \ {0}
    BY <2>5, <2>8
  <2>11. Written(c) \in Seq(Nat \X Nat)
    BY <1>3 DEF Written
  <2> QED
    BY <1>3, <2>6, <2>7, <2>8, <2>9, <2>10, <2>11
<1> QED
  BY <1>2, <1>3

LEMMA SeqWider ==
  ASSUME NEW A, NEW B, A \subseteq B, NEW s \in Seq(A)
  PROVE  s \in Seq(B)
<1>1. PICK k \in Nat : k = Len(s)
  OBVIOUS
<1>2. s \in [1..k -> A]
  BY <1>1
<1>3. s \in [1..k -> B]
  BY <1>2
<1> QED
  BY <1>3

\* The body of a DCD after each of its commands, and the registers written by then.
Parts(dcd, n, B, R) ==
  /\ n \in Nat /\ B \in [0..n -> Seq(Nat)] /\ R \in [0..n -> Seq(Nat \X Nat)]
  /\ B[0] = <<>> /\ R[0] = <<>>
  /\ \A i \in 1..n : CommandMade(dcd[i])
  /\ \A i \in 1..n : B[i] = B[i - 1] \o Command(dcd[i])
  /\ \A i \in 1..n : R[i] = R[i - 1] \o Written(dcd[i])
  /\ \A i \in 0..n : Begins(B[i], B[n])
  /\ dcd # <<>> => DcdWords(dcd) = <<Header(DCD_TAG, 4 + 4 * Len(B[n]))>> \o B[n]
  /\ FlattenSeq([i \in DOMAIN dcd |-> Written(dcd[i])]) = R[n]

LEMMA DcdParts ==
  ASSUME NEW f, DcdMade(f)
  PROVE  \E n, B, R : Parts(f.dcd, n, B, R)
<1>1. PICK n, dcd : n = Len(f.dcd) /\ dcd = f.dcd
  OBVIOUS
<1>2. n \in Nat /\ DOMAIN dcd = 1..n
  BY <1>1 DEF DcdMade
<1>3. \A i \in 1..n : CommandMade(dcd[i])
  BY <1>1, <1>2 DEF DcdMade, CommandMade
<1>4. \A i \in 1..n : Command(dcd[i]) \in Seq(Nat) /\ Written(dcd[i]) \in Seq(Nat \X Nat)
  BY <1>3, CommandIs
<1>5. PICK us, vs : us = [i \in DOMAIN dcd |-> Command(dcd[i])] /\ vs = [i \in DOMAIN dcd |-> Written(dcd[i])]
  OBVIOUS
<1>6. us \in [1..n -> Seq(Nat)] /\ vs \in [1..n -> Seq(Nat \X Nat)]
  BY <1>2, <1>4, <1>5
<1>7. us \in Seq(Seq(Nat)) /\ vs \in Seq(Seq(Nat \X Nat)) /\ Len(us) = n /\ Len(vs) = n
  BY <1>2, <1>6
<1>8. PICK B \in [0..Len(us) -> Seq(Nat)] :
        /\ B[0] = <<>>
        /\ \A i \in 1..Len(us) : B[i] = B[i - 1] \o us[i]
        /\ FlattenSeq(us) = B[Len(us)]
  BY <1>7, Flattened
<1>9. PICK R \in [0..Len(vs) -> Seq(Nat \X Nat)] :
        /\ R[0] = <<>>
        /\ \A i \in 1..Len(vs) : R[i] = R[i - 1] \o vs[i]
        /\ FlattenSeq(vs) = R[Len(vs)]
  BY <1>7, Flattened
<1>10. \A i \in 1..n : us[i] = Command(dcd[i]) /\ vs[i] = Written(dcd[i])
  BY <1>2, <1>5
<1>11. \A i \in 0..n : Begins(B[i], B[n])
  BY <1>7, <1>8, Beginnings
<1>12. dcd # <<>> => DcdWords(dcd) = <<Header(DCD_TAG, 4 + 4 * Len(B[n]))>> \o B[n]
  <2>1. FlattenSeq([i \in DOMAIN dcd |-> Command(dcd[i])]) = B[n]
    BY <1>5, <1>7, <1>8
  <2> QED
    BY <2>1, Zenon DEF DcdWords
<1>13. \A i \in 1..n : B[i] = B[i - 1] \o Command(dcd[i]) /\ R[i] = R[i - 1] \o Written(dcd[i])
  BY <1>7, <1>8, <1>9, <1>10
<1>14. FlattenSeq([i \in DOMAIN dcd |-> Written(dcd[i])]) = R[n]
  BY <1>5, <1>7, <1>9
<1>15. B \in [0..n -> Seq(Nat)] /\ R \in [0..n -> Seq(Nat \X Nat)] /\ B[0] = <<>> /\ R[0] = <<>>
  BY <1>7, <1>8, <1>9
<1>16. Parts(dcd, n, B, R)
  BY <1>2, <1>3, <1>11, <1>12, <1>13, <1>14, <1>15 DEF Parts
<1> QED
  BY <1>1, <1>16

\* Where the words of a command are: behind the header and what comes before it.
StandsAt(vs, b, d, c) ==
  /\ Len(b) \in Nat /\ Len(d) = Len(b) + Len(c) /\ 1 + Len(d) <= Len(vs)
  /\ \A j \in 1..Len(c) : vs[1 + Len(b) + j] = c[j]

LEMMA CommandAt ==
  ASSUME NEW dcd, dcd # <<>>, NEW n, NEW B, NEW R, Parts(dcd, n, B, R), NEW i \in 1..n,
         NEW c, c = Command(dcd[i]), NEW b, b = B[i - 1], NEW d, d = B[i], NEW vs, vs = DcdWords(dcd)
  PROVE  StandsAt(vs, b, d, c)
<1>1. PICK e : e = B[n]
  OBVIOUS
<1>2. n \in Nat /\ i - 1 \in 0..n /\ i \in 0..n /\ n \in 0..n
  BY DEF Parts
<1>3. b \in Seq(Nat) /\ d \in Seq(Nat) /\ e \in Seq(Nat) /\ d = b \o c /\ Begins(d, e)
  BY <1>1, <1>2 DEF Parts
<1>4. c \in Seq(Nat)
  BY <1>1, CommandIs DEF Parts
<1>5. PICK h : h = Header(DCD_TAG, 4 + 4 * Len(e))
  OBVIOUS
<1>6. h \in Nat
  BY <1>3, <1>5 DEF Header, DCD_TAG
<1>7. PICK ws : ws = <<h>> \o e
  OBVIOUS
<1>8. DcdWords(dcd) = ws
  BY <1>1, <1>5, <1>7 DEF Parts
<1>9. PICK p \in Nat, q \in Nat, r \in Nat : p = Len(b) /\ q = Len(c) /\ r = Len(e)
  BY <1>3, <1>4
<1>10. Len(d) = p + q /\ p + q <= r /\ \A j \in 1..p + q : d[j] = e[j]
  <2>1. Len(d) = p + q
    BY <1>3, <1>4, <1>9, ConcatProperties
  <2>2. Len(d) <= Len(e) /\ \A j \in 1..Len(d) : e[j] = d[j]
    BY <1>3 DEF Begins
  <2> QED
    BY <1>9, <2>1, <2>2
<1>11. \A j \in 1..q : d[p + j] = c[j]
  <2>1. \A j \in 1..p + q : d[j] = IF j <= p THEN b[j] ELSE c[j - p]
    BY <1>3, <1>4, <1>9, ConcatProperties
  <2>2. ASSUME NEW j \in 1..q
        PROVE  p + j \in 1..p + q /\ ~ (p + j <= p) /\ (p + j) - p = j
    OBVIOUS
  <2> QED
    BY <2>1, <2>2
<1>12. ws \in Seq(Nat) /\ Len(ws) = 1 + r /\ \A j \in 1..r : ws[1 + j] = e[j]
  BY <1>3, <1>6, <1>7, <1>9
<1>13. ASSUME NEW j \in 1..q
       PROVE  ws[1 + p + j] = c[j]
  <2>1. p + j \in 1..r /\ p + j \in 1..p + q /\ 1 + p + j = 1 + (p + j)
    BY <1>10
  <2> QED
    BY <1>10, <1>11, <1>12, <2>1
<1>14. 1 + Len(d) <= Len(ws) /\ Len(d) = Len(b) + Len(c) /\ Len(b) \in Nat
  <2>1. 1 + (p + q) <= 1 + r
    BY <1>10
  <2> QED
    BY <1>9, <1>10, <1>12, <2>1
<1>15. \A j \in 1..Len(c) : ws[1 + Len(b) + j] = c[j]
  BY <1>9, <1>13
<1> HIDE DEF Command, DcdWords
<1> QED
  BY <1>8, <1>14, <1>15 DEF StandsAt

\* A walk forward that puts together what it finds.
Collects(on, count, part, step) ==
  \A k \in Nat : on[k] = IF k >= count THEN <<>> ELSE part[k] \o on[step[k]]

LEMMA CollectsExists ==
  ASSUME NEW V, NEW count \in Nat, NEW part \in [0..count - 1 -> Seq(V)],
         NEW step \in [0..count - 1 -> Nat], \A k \in 0..count - 1 : step[k] > k
  PROVE  \E on \in [Nat -> Seq(V)] : Collects(on, count, part, step)
<1> DEFINE Holds_(on, m) ==
             \A k \in Nat : k + m >= count => on[k] = IF k >= count THEN <<>> ELSE part[k] \o on[step[k]]
           S == {m \in Nat : \E on \in [Nat -> Seq(V)] : Holds_(on, m)}
<1>1. 0 \in S
  <2> DEFINE on == [k \in Nat |-> <<>>]
  <2>1. on \in [Nat -> Seq(V)] /\ Holds_(on, 0)
    OBVIOUS
  <2> HIDE DEF on, Holds_
  <2> QED
    BY <2>1
<1>2. ASSUME NEW m \in S
      PROVE  m + 1 \in S
  <2>0. m \in Nat
    OBVIOUS
  <2>1. PICK f \in [Nat -> Seq(V)] : Holds_(f, m)
    OBVIOUS
  <2> HIDE DEF S
  <2>2. CASE count <= m
    <3>1. Holds_(f, m + 1)
      <4> SUFFICES ASSUME NEW k \in Nat
                   PROVE  f[k] = IF k >= count THEN <<>> ELSE part[k] \o f[step[k]]
        OBVIOUS
      <4>1. k + m >= count
        BY <2>0, <2>2
      <4> QED
        BY <2>1, <4>1
    <3> HIDE DEF Holds_
    <3> QED
      BY <2>0, <3>1 DEF S
  <2>3. CASE m < count
    <3>1. PICK k \in 0..count - 1 : k + m + 1 = count
      <4>1. (count - m) - 1 \in 0..count - 1 /\ ((count - m) - 1) + m + 1 = count
        BY <2>0, <2>3
      <4> QED
        BY <4>1
    <3> DEFINE g == [f EXCEPT ![k] = part[k] \o f[step[k]]]
    <3>2. part[k] \in Seq(V) /\ step[k] \in Nat /\ step[k] # k /\ f[step[k]] \in Seq(V) /\ k \in Nat
      <4>1. step[k] \in Nat /\ step[k] > k /\ k \in Nat /\ part[k] \in Seq(V)
        OBVIOUS
      <4>2. f[step[k]] \in Seq(V)
        BY <4>1
      <4> HIDE DEF Holds_
      <4> QED
        BY <4>1, <4>2
    <3>3. part[k] \o f[step[k]] \in Seq(V)
      BY <3>2, ConcatProperties
    <3>4. g \in [Nat -> Seq(V)]
      BY <3>3
    <3>5. g[k] = part[k] \o f[step[k]] /\ \A j \in Nat : j # k => g[j] = f[j]
      BY <3>2
    <3> HIDE DEF g
    <3>6. ASSUME NEW j \in Nat, j + (m + 1) >= count
          PROVE  g[j] = IF j >= count THEN <<>> ELSE part[j] \o g[step[j]]
      <4>1. CASE j = k
        <5>1. ~ (j >= count)
          BY <2>0, <3>1, <4>1
        <5>2. g[step[k]] = f[step[k]]
          BY <3>2, <3>5
        <5>3. g[k] = part[k] \o g[step[k]]
          BY <3>5, <5>2, Zenon
        <5>4. g[j] = part[j] \o g[step[j]]
          BY <4>1, <5>3, Zenon
        <5> QED
          BY <5>1, <5>4, Zenon
      <4>2. CASE j # k
        <5>1. j + m >= count
          <6>1. PICK l \in Nat : l = m /\ j + (l + 1) >= count /\ k + l + 1 = count /\ k \in Nat
            BY <2>0, <3>1, <3>6
          <6>2. j > k
            BY <4>2, <6>1
          <6> QED
            BY <6>1, <6>2
        <5>2. f[j] = IF j >= count THEN <<>> ELSE part[j] \o f[step[j]]
          BY <2>1, <5>1
        <5>3. CASE j >= count
          BY <3>5, <4>2, <5>2, <5>3
        <5>4. CASE ~ (j >= count)
          <6>1. j \in 0..count - 1 /\ j >= k
            BY <2>0, <3>1, <5>1, <5>4
          <6>2. step[j] \in Nat /\ step[j] > j
            BY <6>1
          <6>3. step[j] # k
            BY <6>1, <6>2
          <6>4. g[step[j]] = f[step[j]]
            BY <3>5, <6>2, <6>3
          <6> QED
            BY <3>5, <4>2, <5>2, <5>4, <6>4
        <5> QED
          BY <5>3, <5>4
      <4> QED
        BY <4>1, <4>2
    <3>7. Holds_(g, m + 1)
      BY <3>6
    <3> HIDE DEF Holds_
    <3> QED
      BY <2>0, <3>4, <3>7 DEF S
  <2> QED
    BY <2>0, <2>2, <2>3
<1>3. count \in S
  <2>1. S \in SUBSET Nat
    OBVIOUS
  <2> HIDE DEF S
  <2> QED
    BY <1>1, <1>2, <2>1, SetInduction
<1>4. PICK on \in [Nat -> Seq(V)] : Holds_(on, count)
  BY <1>3
<1>5. \A k \in Nat : k + count >= count
  OBVIOUS
<1>6. Collects(on, count, part, step)
  BY <1>4, <1>5 DEF Collects
<1> QED
  BY <1>6

LEMMA CollectsTyped ==
  ASSUME NEW V, NEW count \in Nat, NEW part \in [0..count - 1 -> Seq(V)],
         NEW step \in [0..count - 1 -> Nat], \A k \in 0..count - 1 : step[k] > k,
         NEW on, Collects(on, count, part, step)
  PROVE  \A k \in Nat : on[k] \in Seq(V)
<1> DEFINE S == {m \in Nat : \A k \in Nat : k + m >= count => on[k] \in Seq(V)}
<1>0. <<>> \in Seq(V)
  OBVIOUS
<1>1. 0 \in S
  <2>1. ASSUME NEW k \in Nat, k + 0 >= count
        PROVE  on[k] = <<>>
    BY <2>1 DEF Collects
  <2> QED
    BY <1>0, <2>1
<1>2. ASSUME NEW m \in S
      PROVE  m + 1 \in S
  <2>0. m \in Nat
    OBVIOUS
  <2>1. \A k \in Nat : k + m >= count => on[k] \in Seq(V)
    OBVIOUS
  <2>2. ASSUME NEW k \in Nat, k + (m + 1) >= count
        PROVE  on[k] \in Seq(V)
    <3>1. CASE k >= count
      BY <1>0, <3>1 DEF Collects
    <3>2. CASE ~ (k >= count)
      <4>1. k \in 0..count - 1
        BY <3>2
      <4>2. step[k] \in Nat /\ step[k] > k /\ part[k] \in Seq(V)
        BY <4>1
      <4>3. step[k] + m >= count
        BY <2>0, <2>2, <4>2
      <4>4. on[step[k]] \in Seq(V)
        BY <2>1, <4>2, <4>3
      <4>5. on[k] = part[k] \o on[step[k]]
        BY <3>2 DEF Collects
      <4> QED
        BY <4>2, <4>4, <4>5, ConcatProperties
    <3> QED
      BY <3>1, <3>2
  <2> HIDE DEF S
  <2> QED
    BY <2>0, <2>2 DEF S
<1>3. count \in S
  <2>1. S \in SUBSET Nat
    OBVIOUS
  <2> HIDE DEF S
  <2> QED
    BY <1>1, <1>2, <2>1, SetInduction
<1> QED
  BY <1>3

-----------------------------------------------------------------------------
(* What the loop of RunDCD makes of them.                                   *)

LEMMA HeaderIs ==
  ASSUME NEW tag \in Nat, NEW len \in Nat, len < 65536
  PROVE  Header(tag, len) \in Nat /\ Tag(Header(tag, len)) = tag /\ Length(Header(tag, len)) = len
BY Z3T(20) DEF Header, Tag, Length

LEMMA HeaderRead ==
  ASSUME NEW c, c.tag \in Nat, NEW n \in Nat, 4 * n < 65536
  PROVE  Tag(Header(c.tag, 4 * n)) = c.tag /\ Length(Header(c.tag, 4 * n)) = 4 * n
<1>1. PICK a : a = c.tag
  OBVIOUS
<1>2. PICK b \in Nat : b = 4 * n /\ b < 65536
  OBVIOUS
<1>3. a \in Nat
  BY <1>1
<1>4. Tag(Header(a, b)) = a /\ Length(Header(a, b)) = b
  BY <1>2, <1>3, HeaderIs
<1> QED
  BY <1>1, <1>2, <1>4

LEMMA Quarter ==
  ASSUME NEW n \in Nat
  PROVE  (4 * n) \div 4 = n /\ (8 * n) \div 8 = n
BY Z3T(20)

\* What the loop has found behind each word, from the end on.
Loops(from, count, V, on) ==
  /\ \A k \in Nat : on[k] \in Seq(V)
  /\ \A k \in Nat : k >= count => on[k] = <<>>
  /\ \A k \in 0..count - 1 : on[k] = Registers(from, k) \o on[k + 1 + Skipped(from, k)]
  /\ DcdRegisters(from) = on[1]

LEMMA DcdRegistersIs ==
  ASSUME NEW V, NEW from, NEW count \in Nat, count = Length(DcdWord(from, 0)) \div 4,
         \A k \in 0..count - 1 : Registers(from, k) \in Seq(V) /\ Skipped(from, k) \in Nat
  PROVE  \E on : Loops(from, count, V, on)
<1> DEFINE Solves(f) == f = [k \in Nat |-> IF k >= Length(DcdWord(from, 0)) \div 4 THEN <<>>
                                       ELSE Registers(from, k) \o f[k + 1 + Skipped(from, k)]]
           on == CHOOSE f : Solves(f)
           part == [k \in 0..count - 1 |-> Registers(from, k)]
           step == [k \in 0..count - 1 |-> k + 1 + Skipped(from, k)]
<1>1. part \in [0..count - 1 -> Seq(V)]
  OBVIOUS
<1>2. step \in [0..count - 1 -> Nat] /\ \A k \in 0..count - 1 : step[k] > k
  <2>1. ASSUME NEW k \in 0..count - 1
        PROVE  k + 1 + Skipped(from, k) \in Nat /\ k + 1 + Skipped(from, k) > k
    <3>1. Skipped(from, k) \in Nat /\ k \in Nat
      OBVIOUS
    <3> QED
      BY <3>1
  <2> QED
    BY <2>1
<1>3. \A k \in 0..count - 1 : part[k] = Registers(from, k) /\ step[k] = k + 1 + Skipped(from, k)
  OBVIOUS
<1> HIDE DEF part, step
<1>4. ASSUME NEW f, \A k \in Nat : f[k] = IF k >= count THEN <<>> ELSE part[k] \o f[step[k]]
      PROVE  \A k \in Nat : f[k] = IF k >= count THEN <<>>
                                   ELSE Registers(from, k) \o f[k + 1 + Skipped(from, k)]
  <2> SUFFICES ASSUME NEW k \in Nat, ~ (k >= count)
               PROVE  f[k] = Registers(from, k) \o f[k + 1 + Skipped(from, k)]
    BY <1>4
  <2>1. k \in 0..count - 1
    OBVIOUS
  <2> QED
    BY <1>3, <1>4, <2>1
<1>5. \E f : Solves(f)
  <2>1. PICK f \in [Nat -> Seq(V)] : Collects(f, count, part, step)
    BY <1>1, <1>2, CollectsExists
  <2>2. \A k \in Nat : f[k] = IF k >= count THEN <<>>
                              ELSE Registers(from, k) \o f[k + 1 + Skipped(from, k)]
    BY <1>4, <2>1 DEF Collects
  <2>3. f = [k \in Nat |-> f[k]]
    OBVIOUS
  <2>4. Solves(f)
    BY <2>2, <2>3
  <2> HIDE DEF Solves
  <2> QED
    BY <2>4
<1>6. Solves(on)
  <2> HIDE DEF Solves
  <2> QED
    BY <1>5
<1>7. DcdRegisters(from) = on[1]
  BY Zenon DEF DcdRegisters, on, Solves
<1> HIDE DEF on
<1>8. \A k \in Nat : on[k] = IF k >= count THEN <<>> ELSE Registers(from, k) \o on[k + 1 + Skipped(from, k)]
  BY <1>6
<1> HIDE DEF Solves
<1>9. Collects(on, count, part, step)
  <2> SUFFICES ASSUME NEW k \in Nat
               PROVE  on[k] = IF k >= count THEN <<>> ELSE part[k] \o on[step[k]]
    BY DEF Collects
  <2>1. CASE k >= count
    BY <1>8, <2>1
  <2>2. CASE ~ (k >= count)
    <3>1. k \in 0..count - 1
      BY <2>2
    <3>2. on[k] = Registers(from, k) \o on[k + 1 + Skipped(from, k)]
      BY <1>8, <2>2
    <3> QED
      BY <1>3, <2>2, <3>1, <3>2
  <2> QED
    BY <2>1, <2>2
<1>10. \A k \in Nat : on[k] \in Seq(V)
  BY <1>1, <1>2, <1>9, CollectsTyped
<1>11. \A k \in Nat : k >= count => on[k] = <<>>
  BY <1>8
<1>12. \A k \in 0..count - 1 : on[k] = Registers(from, k) \o on[k + 1 + Skipped(from, k)]
  <2>1. \A k \in 0..count - 1 : k \in Nat /\ ~ (k >= count)
    OBVIOUS
  <2> QED
    BY <1>8, <2>1
<1> QED
  BY <1>7, <1>10, <1>11, <1>12 DEF Loops

\* What the loop makes of one command.
LEMMA CommandRead ==
  ASSUME NEW c, CommandMade(c), NEW from, NEW k \in Nat, W \in Nat,
         4 * Len(Command(c)) < 65536, 4 * Len(Command(c)) <= W,
         \A j \in 1..Len(Command(c)) : DcdWord(from, k + (j - 1)) = Command(c)[j]
  PROVE  Registers(from, k) = Written(c) /\ k + 1 + Skipped(from, k) = k + Len(Command(c))
<1>1. /\ Command(c) \in Seq(Nat) /\ Len(Command(c)) \in Nat \ {0}
      /\ Command(c)[1] = Header(c.tag, 4 * Len(Command(c)))
  BY CommandIs
<1>10. c.tag = WRT_DAT => PairsBehind(c)
  BY CommandIs
<1>11. c.tag = NOP_CMD => Len(Command(c)) = 1
  BY CommandIs
<1>2. PICK ws, n : n \in Nat \ {0} /\ ws = Command(c) /\ n = Len(Command(c))
  BY <1>1
<1>3. WRT_DAT # CHK_DAT /\ WRT_DAT # NOP_CMD /\ CHK_DAT # NOP_CMD
      /\ WRT_DAT \in Nat /\ CHK_DAT \in Nat /\ NOP_CMD \in Nat
  BY DEF WRT_DAT, CHK_DAT, NOP_CMD
<1>4. c.tag \in {WRT_DAT, CHK_DAT, NOP_CMD} /\ c.tag \in Nat
  BY <1>3 DEF CommandMade
<1>5. DcdWord(from, k) = Header(c.tag, 4 * n)
  <2>1. k + (1 - 1) = k /\ 1 \in 1..n
    BY <1>2
  <2>2. DcdWord(from, k + (1 - 1)) = ws[1]
    BY <1>2, <2>1
  <2> QED
    BY <1>1, <1>2, <2>1, <2>2
<1>6. Tag(DcdWord(from, k)) = c.tag /\ Length(DcdWord(from, k)) = 4 * n
  <2>1. n \in Nat /\ 4 * n < 65536
    BY <1>2
  <2>2. Tag(Header(c.tag, 4 * n)) = c.tag /\ Length(Header(c.tag, 4 * n)) = 4 * n
    BY <1>4, <2>1, HeaderRead
  <2> QED
    BY <1>5, <2>2
<1>7. ArgBytes(from, k) = 4 * (n - 1)
  <2>1. 4 * n - 4 \in 0..W - 1 /\ 4 * n - 4 = 4 * (n - 1)
    BY <1>2
  <2> QED
    <3>1. ArgBytes(from, k) = (4 * n - 4) % W
      BY <1>6 DEF ArgBytes
    <3> QED
      BY <2>1, <3>1, SmallMod
<1>8. CASE c.tag = WRT_DAT
  <2>1. c.args \in Seq(Nat \X Nat)
    BY <1>3, <1>8 DEF CommandMade
  <2>2. PICK a \in Nat : a = Len(c.args)
    BY <2>1
  <2>3. n = 1 + 2 * a
    BY <1>10, <1>2, <1>8, <2>2 DEF PairsBehind
  <2>4. ArgBytes(from, k) \div 8 = a
    <3>1. 4 * (n - 1) = 8 * a
      BY <2>3
    <3> QED
      BY <1>7, <3>1, Quarter
  <2>5. Registers(from, k) = [i \in 1..a |-> <<DcdWord(from, k + 2 * i - 1), DcdWord(from, k + 2 * i)>>]
    BY <1>6, <1>8, <2>4 DEF Registers
  <2>6. ASSUME NEW i \in 1..a
        PROVE  <<DcdWord(from, k + 2 * i - 1), DcdWord(from, k + 2 * i)>> = c.args[i]
    <3>1. /\ 2 * i \in 1..n /\ k + 2 * i - 1 = k + (2 * i - 1)
          /\ 2 * i + 1 \in 1..n /\ k + 2 * i = k + ((2 * i + 1) - 1)
      BY <2>3
    <3>2. DcdWord(from, k + 2 * i - 1) = ws[2 * i]
      BY <1>2, <3>1
    <3>3. DcdWord(from, k + 2 * i) = ws[2 * i + 1]
      BY <1>2, <3>1
    <3>4. <<ws[2 * i], ws[2 * i + 1]>> = c.args[i]
      BY <1>10, <1>2, <1>8, <2>2 DEF PairsBehind
    <3> QED
      BY <3>2, <3>3, <3>4
  <2>7. c.args = [i \in 1..a |-> c.args[i]]
    BY <2>1, <2>2
  <2>8. Registers(from, k) = c.args
    <3>1. Registers(from, k) = [i \in 1..a |-> c.args[i]]
      BY <2>5, <2>6
    <3> QED
      BY <2>7, <3>1
  <2>9. Skipped(from, k) = 2 * a
    BY <1>3, <1>6, <1>8, <2>4 DEF Skipped
  <2> QED
    BY <1>2, <1>8, <2>3, <2>8, <2>9 DEF Written
<1>9. CASE c.tag # WRT_DAT
  <2>1. Registers(from, k) = <<>> /\ Written(c) = <<>>
    BY <1>6, <1>9 DEF Registers, Written
  <2>2. CASE c.tag = CHK_DAT
    <3>1. Skipped(from, k) = ArgBytes(from, k) \div 4
      BY <1>3, <1>6, <2>2 DEF Skipped
    <3>2. Skipped(from, k) = n - 1
      <4>1. n - 1 \in Nat
        BY <1>2
      <4> QED
        BY <1>7, <3>1, <4>1, Quarter
    <3> QED
      BY <1>2, <2>1, <3>2
  <2>3. CASE c.tag = NOP_CMD
    <3>1. Skipped(from, k) = 0
      BY <1>3, <1>6, <2>3 DEF Skipped
    <3> QED
      BY <1>11, <1>2, <2>1, <2>3, <3>1
  <2> QED
    BY <1>4, <1>9, <2>2, <2>3
<1> QED
  BY <1>8, <1>9

LEMMA WIs == W \in Nat \ {0}
BY ImagesAssumption

\* The pairs of words that the loop can take for registers.
Pairs(from) == (Nat \X Nat) \cup {<<DcdWord(from, a), DcdWord(from, b)>> : a, b \in Int}

LEMMA LoopTyped ==
  ASSUME NEW from, NEW k \in Nat, DcdWord(from, k) \in Nat
  PROVE  Registers(from, k) \in Seq(Pairs(from)) /\ Skipped(from, k) \in Nat
<1>1. PICK w \in Nat : w = DcdWord(from, k)
  OBVIOUS
<1>2. PICK len \in Nat : len = Length(w)
  BY Z3T(20) DEF Length
<1>3. PICK bytes \in Nat : bytes = ArgBytes(from, k)
  <2>1. (len - 4) % W \in Nat
    BY WIs, <1>2
  <2> QED
    BY <1>1, <1>2, <2>1 DEF ArgBytes
<1>4. bytes \div 8 \in Nat /\ bytes \div 4 \in Nat
  BY Z3T(20)
<1>5. PICK a \in Nat, b \in Nat : a = bytes \div 8 /\ b = bytes \div 4
  BY <1>4
<1>6. Skipped(from, k) \in Nat
  <2>1. Skipped(from, k) \in {2 * a, b, 0}
    BY <1>3, <1>5, Zenon DEF Skipped
  <2> QED
    BY <2>1
<1>7. CASE Tag(DcdWord(from, k)) # WRT_DAT
  <2>1. Registers(from, k) = <<>>
    BY <1>7 DEF Registers
  <2> QED
    BY <1>6, <2>1
<1>8. CASE Tag(DcdWord(from, k)) = WRT_DAT
  <2>1. Registers(from, k) = [i \in 1..a |-> <<DcdWord(from, k + 2 * i - 1), DcdWord(from, k + 2 * i)>>]
    BY <1>3, <1>5, <1>8, Zenon DEF Registers
  <2>2. ASSUME NEW i \in 1..a
        PROVE  <<DcdWord(from, k + 2 * i - 1), DcdWord(from, k + 2 * i)>> \in Pairs(from)
    <3>1. PICK x \in Int, y \in Int : x = k + 2 * i - 1 /\ y = k + 2 * i
      OBVIOUS
    <3>2. <<DcdWord(from, x), DcdWord(from, y)>> \in Pairs(from)
      BY DEF Pairs
    <3> QED
      BY <3>1, <3>2
  <2>3. Registers(from, k) \in [1..a -> Pairs(from)]
    BY <2>1, <2>2, Zenon
  <2> QED
    BY <1>6, <2>3
<1> QED
  BY <1>7, <1>8

LEMMA Threefold ==
  ASSUME NEW V, NEW x, NEW y, NEW z, x \in Seq(V), y \in Seq(V), z \in Seq(V)
  PROVE  (x \o y) \o z = x \o (y \o z)
BY ConcatAssociative

\* The words of a file's DCD are read from an offset on; the registers its commands name.
DcdReads(f, from) ==
  /\ 4 * Len(DcdWords(f.dcd)) <= W
  /\ \A j \in 1..Len(DcdWords(f.dcd)) : DcdWord(from, j - 1) = DcdWords(f.dcd)[j]
RegistersOf(f) == FlattenSeq([i \in DOMAIN f.dcd |-> Written(f.dcd[i])])

\* What the loop of RunDCD finds is what the commands name.
LEMMA RegistersAre ==
  ASSUME NEW f, DcdMade(f), f.dcd # <<>>, NEW from, DcdReads(f, from)
  PROVE  DcdRegisters(from) = RegistersOf(f)
<1>22. /\ 4 * Len(DcdWords(f.dcd)) <= W
       /\ \A j \in 1..Len(DcdWords(f.dcd)) : DcdWord(from, j - 1) = DcdWords(f.dcd)[j]
  BY DEF DcdReads
<1>1. PICK n, B, R : Parts(f.dcd, n, B, R)
  BY DcdParts
<1> DEFINE V == Pairs(from)
<1>2. /\ n \in Nat /\ B \in [0..n -> Seq(Nat)] /\ R \in [0..n -> Seq(Nat \X Nat)]
      /\ B[0] = <<>> /\ R[0] = <<>>
      /\ \A i \in 1..n : CommandMade(f.dcd[i]) /\ R[i] = R[i - 1] \o Written(f.dcd[i])
  BY <1>1 DEF Parts
<1>3. PICK ws, dcd : ws = DcdWords(f.dcd) /\ dcd = f.dcd
  OBVIOUS
<1>20. Parts(dcd, n, B, R) /\ dcd # <<>> /\ DcdWords(dcd) = ws
  BY <1>1, <1>3
<1>4. PICK e, h : e = B[n] /\ h = Header(DCD_TAG, 4 + 4 * Len(e))
  OBVIOUS
<1>5. e \in Seq(Nat) /\ ws = <<h>> \o e
  <2>1. n \in 0..n
    BY <1>2
  <2> QED
    BY <1>1, <1>2, <1>3, <1>4, <2>1 DEF Parts
<1>6. PICK count \in Nat : count = 1 + Len(e) /\ count = Len(ws) /\ count # 0
  <2>1. h \in Nat
    BY <1>4, <1>5 DEF Header, DCD_TAG
  <2>2. Len(<<h>> \o e) = 1 + Len(e) /\ Len(e) \in Nat
    BY <1>5, <2>1
  <2> QED
    BY <1>5, <2>2
<1>7. h = Header(DCD_TAG, 4 * count) /\ ws[1] = h /\ ws \in Seq(Nat)
  <2>1. 4 + 4 * Len(e) = 4 * count
    BY <1>5, <1>6
  <2>2. h \in Nat
    BY <1>4, <1>5 DEF Header, DCD_TAG
  <2> QED
    BY <1>4, <1>5, <2>1, <2>2
<1>8. ASSUME NEW j \in 1..count
      PROVE  DcdWord(from, j - 1) = ws[j] /\ ws[j] \in Nat
  BY <1>3, <1>6, <1>7, <1>22, ElementOfSeq
<1>9. 4 * count < 65536 /\ 4 * count <= W
  <2>1. 4 * Len(DcdWords(f.dcd)) < 65536
    BY DEF DcdMade
  <2>2. 4 * Len(DcdWords(f.dcd)) <= W
    BY <1>22
  <2>3. Len(DcdWords(f.dcd)) = count
    BY <1>3, <1>6
  <2> QED
    BY <2>1, <2>2, <2>3
<1>10. count = Length(DcdWord(from, 0)) \div 4
  <2>1. 1 \in 1..count /\ 1 - 1 = 0
    BY <1>6
  <2>2. DcdWord(from, 0) = Header(DCD_TAG, 4 * count)
    <3>1. DcdWord(from, 1 - 1) = ws[1]
      BY <1>8, <2>1
    <3> QED
      BY <1>7, <2>1, <3>1
  <2>3. PICK len \in Nat, tag \in Nat : len = 4 * count /\ len < 65536 /\ tag = DCD_TAG
    BY <1>9 DEF DCD_TAG
  <2>4. Length(Header(tag, len)) = len
    BY <2>3, HeaderIs
  <2>5. Length(DcdWord(from, 0)) = 4 * count
    BY <2>2, <2>3, <2>4
  <2> QED
    BY <2>5, Quarter
<1>11. \A k \in 0..count - 1 : Registers(from, k) \in Seq(V) /\ Skipped(from, k) \in Nat
  <2> SUFFICES ASSUME NEW k \in 0..count - 1
               PROVE  Registers(from, k) \in Seq(V) /\ Skipped(from, k) \in Nat
    OBVIOUS
  <2>1. PICK j \in 1..count : j = k + 1 /\ j - 1 = k
    OBVIOUS
  <2>2. DcdWord(from, k) \in Nat /\ k \in Nat
    <3>1. DcdWord(from, j - 1) \in Nat
      BY <1>8
    <3> QED
      BY <2>1, <3>1
  <2> HIDE DEF V
  <2> QED
    BY <2>2, LoopTyped DEF V
<1> HIDE DEF V
<1>21. PICK on : Loops(from, count, V, on)
  BY <1>10, <1>11, DcdRegistersIs
<1>12. /\ \A k \in Nat : on[k] \in Seq(V)
       /\ \A k \in Nat : k >= count => on[k] = <<>>
       /\ \A k \in 0..count - 1 : on[k] = Registers(from, k) \o on[k + 1 + Skipped(from, k)]
       /\ DcdRegisters(from) = on[1]
  BY <1>21 DEF Loops
<1>13. ASSUME NEW i \in 0..n
       PROVE  R[i] \in Seq(V) /\ B[i] \in Seq(Nat)
  <2>1. R[i] \in Seq(Nat \X Nat) /\ B[i] \in Seq(Nat)
    BY <1>2
  <2>2. (Nat \X Nat) \subseteq V
    BY DEF V, Pairs
  <2> QED
    BY <2>1, <2>2, SeqWider
<1> DEFINE S == {m \in Nat : m <= n => R[m] \o on[1 + Len(B[m])] = on[1]}
<1>14. 0 \in S
  <2>1. 1 + Len(<<>>) = 1 /\ on[1] \in Seq(V)
    BY <1>12
  <2>2. <<>> \o on[1] = on[1]
    BY <2>1, ConcatEmptySeq
  <2> QED
    BY <1>2, <2>1, <2>2
<1>15. ASSUME NEW m \in Nat, m + 1 <= n, R[m] \o on[1 + Len(B[m])] = on[1]
       PROVE  R[m + 1] \o on[1 + Len(B[m + 1])] = on[1]
  <2> HIDE DEF S
  <2>1. PICK i \in 1..n : i = m + 1 /\ i - 1 = m /\ i \in 0..n /\ m \in 0..n
    BY <1>2, <1>15
  <2>2. PICK c, b, d : c = dcd[i] /\ b = B[m] /\ d = B[i]
    OBVIOUS
  <2>12. CommandMade(c)
    BY <1>2, <1>3, <2>1, <2>2
  <2>3. PICK k \in Nat, q \in Nat \ {0} :
          /\ k = 1 + Len(b) /\ q = Len(Command(c)) /\ 1 + Len(d) = k + q /\ k + q <= count
          /\ \A j \in 1..q : ws[k + j] = Command(c)[j]
    <3>1. /\ Len(b) \in Nat /\ Len(d) = Len(b) + Len(Command(c)) /\ 1 + Len(d) <= Len(ws)
          /\ \A j \in 1..Len(Command(c)) : ws[1 + Len(b) + j] = Command(c)[j]
      <4>1. PICK x : x = Command(c)
        OBVIOUS
      <4>2. /\ x = Command(dcd[i]) /\ b = B[i - 1] /\ d = B[i]
        BY <2>1, <2>2, <4>1
      <4>3. StandsAt(ws, b, d, x)
        BY <1>20, <4>2, CommandAt
      <4> QED
        BY <4>1, <4>3 DEF StandsAt
    <3>2. Len(Command(c)) \in Nat \ {0}
      BY <2>12, CommandIs
    <3>3. PICK k \in Nat, q \in Nat \ {0} : k = 1 + Len(b) /\ q = Len(Command(c))
      BY <3>1, <3>2
    <3>4. 1 + Len(d) = k + q /\ k + q <= count /\ \A j \in 1..q : ws[k + j] = Command(c)[j]
      BY <1>6, <3>1, <3>3
    <3> QED
      BY <3>3, <3>4
  <2>4. \A j \in 1..q : DcdWord(from, k + (j - 1)) = Command(c)[j]
    <3> SUFFICES ASSUME NEW j \in 1..q
                 PROVE  DcdWord(from, k + (j - 1)) = Command(c)[j]
      OBVIOUS
    <3>1. PICK l \in 1..count : l = k + j /\ l - 1 = k + (j - 1)
      BY <2>3
    <3>2. DcdWord(from, l - 1) = ws[l]
      BY <1>8
    <3> QED
      BY <2>3, <3>1, <3>2
  <2>5. Registers(from, k) = Written(c) /\ k + 1 + Skipped(from, k) = k + q
    <3>1. CommandMade(c)
      BY <2>12
    <3>2. 4 * q < 65536 /\ 4 * q <= W /\ W \in Nat
      BY <1>9, <2>3, WIs
    <3>3. /\ 4 * Len(Command(c)) < 65536 /\ 4 * Len(Command(c)) <= W
          /\ \A j \in 1..Len(Command(c)) : DcdWord(from, k + (j - 1)) = Command(c)[j]
      BY <2>3, <2>4, <3>2
    <3>4. Registers(from, k) = Written(c) /\ k + 1 + Skipped(from, k) = k + Len(Command(c))
      BY <3>1, <3>2, <3>3, CommandRead
    <3> QED
      BY <2>3, <3>4
  <2>6. on[k] = Written(c) \o on[k + q]
    <3>1. k \in 0..count - 1
      BY <1>6, <2>3
    <3> QED
      BY <1>12, <2>5, <3>1
  <2>7. R[i] = R[m] \o Written(c)
    BY <1>2, <1>3, <2>1, <2>2
  <2>8. Written(c) \in Seq(V) /\ on[k + q] \in Seq(V) /\ R[m] \in Seq(V)
    <3>0. Written(c) \in Seq(Nat \X Nat)
      BY <2>12, CommandIs
    <3>1. Written(c) \in Seq(Nat \X Nat) /\ (Nat \X Nat) \subseteq V
      BY <3>0 DEF V, Pairs
    <3>2. Written(c) \in Seq(V)
      BY <3>1, SeqWider
    <3>3. k + q \in Nat
      BY <2>3
    <3> QED
      BY <1>12, <1>13, <2>1, <3>2, <3>3
  <2>9. (R[m] \o Written(c)) \o on[k + q] = R[m] \o (Written(c) \o on[k + q])
    <3>1. PICK x, y, z : x = R[m] /\ y = Written(c) /\ z = on[k + q]
      OBVIOUS
    <3>2. x \in Seq(V) /\ y \in Seq(V) /\ z \in Seq(V)
      BY <2>8, <3>1
    <3>3. (x \o y) \o z = x \o (y \o z)
      BY <3>2, Threefold
    <3> QED
      BY <3>1, <3>3
  <2>10. R[m] \o on[k] = on[1]
    BY <1>15, <2>2, <2>3
  <2>11. R[i] \o on[k + q] = on[1]
    BY <2>6, <2>7, <2>9, <2>10
  <2> QED
    BY <2>1, <2>2, <2>3, <2>11
<1>16. n \in S
  <2>1. ASSUME NEW m \in S
        PROVE  m + 1 \in S
    <3>1. m \in Nat /\ (m <= n => R[m] \o on[1 + Len(B[m])] = on[1])
      OBVIOUS
    <3>2. m + 1 \in Nat /\ (m + 1 <= n => m <= n)
      BY <1>2, <3>1
    <3>3. m + 1 <= n => R[m + 1] \o on[1 + Len(B[m + 1])] = on[1]
      <4> HIDE DEF S
      <4> QED
        BY <1>15, <3>1, <3>2
    <3> QED
      BY <3>2, <3>3
  <2>2. S \in SUBSET Nat
    OBVIOUS
  <2> HIDE DEF S
  <2> QED
    BY <1>2, <1>14, <2>1, <2>2, SetInduction
<1>17. R[n] \o on[count] = on[1]
  <2>1. R[n] \o on[1 + Len(B[n])] = on[1]
    <3>1. n \in Nat /\ n <= n
      BY <1>2
    <3>2. n <= n => R[n] \o on[1 + Len(B[n])] = on[1]
      BY <1>16
    <3> QED
      BY <3>1, <3>2
  <2> QED
    BY <1>4, <1>6, <2>1
<1>18. R[n] = on[1]
  <2>1. on[count] = <<>>
    BY <1>12
  <2>2. R[n] \in Seq(V)
    BY <1>2, <1>13
  <2>3. R[n] \o <<>> = R[n]
    BY <2>2, ConcatEmptySeq
  <2> QED
    BY <1>17, <2>1, <2>3
<1> QED
  BY <1>1, <1>12, <1>18 DEF Parts, RegistersOf

LEMMA DcdTyped ==
  ASSUME NEW f, DcdMade(f)
  PROVE  DcdWords(f.dcd) \in Seq(Nat)
<1>1. CASE f.dcd = <<>>
  BY <1>1 DEF DcdWords
<1>2. CASE f.dcd # <<>>
  <2>1. PICK n, B, R : Parts(f.dcd, n, B, R)
    BY DcdParts
  <2>2. PICK e, h : e = B[n] /\ h = Header(DCD_TAG, 4 + 4 * Len(e))
    OBVIOUS
  <2>3. e \in Seq(Nat) /\ DcdWords(f.dcd) = <<h>> \o e
    <3>1. n \in 0..n /\ B \in [0..n -> Seq(Nat)]
      BY <2>1 DEF Parts
    <3> QED
      BY <1>2, <2>1, <2>2, <3>1 DEF Parts
  <2>4. h \in Nat
    BY <2>2, <2>3 DEF Header, DCD_TAG
  <2> QED
    BY <2>3, <2>4
<1> QED
  BY <1>1, <1>2

-----------------------------------------------------------------------------
(* Well-made files.                                                         *)

LEMMA Constants ==
  /\ W \in Nat /\ RamBase \in 0..W - 1 /\ RamBase2 \in 0..W - 1
  /\ InitialSize \in Nat /\ ScuShift \in Nat /\ TreeSize \in Nat
BY ImagesAssumption

\* What is true of well-made files of every kind.
LEMMA Made ==
  ASSUME NEW f, WellMade(f)
  PROVE  /\ f.kind \in {"code", "ivt", "legacy", "fit", "containers"} /\ f.sig \in Barkers
         /\ f.size \in Nat /\ f.size < W /\ f.at \in Nat /\ f.at % 256 = 0 /\ f.at + 256 <= f.size
         /\ \A h \in f.hdmi : h \in Nat /\ h % 256 = 0 /\ h < f.at
         /\ f.kind = "containers" => f.hdmi = {} /\ f.at < InitialSize
         /\ f.dcd # <<>> => DcdWords(f.dcd) \in Seq(Nat)
<1>1. /\ f.kind \in {"code", "ivt", "legacy", "fit", "containers"}
      /\ f.size \in Nat /\ f.size < W /\ f.at \in Nat /\ f.at % 256 = 0
      /\ \A h \in f.hdmi : h \in Nat /\ h % 256 = 0 /\ h < f.at
      /\ f.kind = "containers" => f.hdmi = {} /\ f.at < InitialSize
      /\ f.dcd # <<>> => DcdWords(f.dcd) \in Seq(Nat)
  BY DcdTyped DEF WellMade
<1>2. f.sig \in Barkers
  BY DEF WellMade, Barkers
<1>3. PICK a \in Nat, s \in Nat : a = f.at /\ s = f.size
  BY <1>1
<1>4. CASE f.kind = "containers"
  <2>1. a + 1024 <= s
    BY <1>3, <1>4 DEF WellMade
  <2> QED
    BY <1>1, <1>2, <1>3, <2>1
<1>5. CASE f.kind \in {"legacy", "fit"}
  <2>1. f.at + (PayloadOffset(f) - f.at + LegacyHeader) <= f.size
    BY <1>5 DEF WellMade
  <2>2. a + 1152 <= s
    BY <1>3, <2>1 DEF PayloadOffset, PayloadAt, IVT_OFFSET_SD, LegacyHeader
  <2> QED
    BY <1>1, <1>2, <1>3, <2>2
<1>6. CASE f.kind \in {"code", "ivt"}
  <2>1. a + 256 <= s
    BY <1>3, <1>6 DEF WellMade
  <2> QED
    BY <1>1, <1>2, <1>3, <2>1
<1> QED
  BY <1>1, <1>4, <1>5, <1>6

-----------------------------------------------------------------------------
(* The words of a file.                                                     *)

\* The words ws are laid down from o on in w; w has no others.
Holds(w, o, ws) ==
  \A i \in DOMAIN ws : o + 4 * (i - 1) \in DOMAIN w /\ w[o + 4 * (i - 1)] = ws[i]
Solely(w, o, ws) ==
  \A k \in DOMAIN w : \E i \in DOMAIN ws : k = o + 4 * (i - 1) /\ k \in Nat /\ k >= o

LEMMA AtWord ==
  ASSUME NEW o \in Nat, NEW ws, DOMAIN ws \subseteq Nat \ {0}
  PROVE  Holds(At(o, ws), o, ws) /\ Solely(At(o, ws), o, ws)
<1>1. ASSUME NEW i \in DOMAIN ws
      PROVE  /\ o + 4 * (i - 1) \in DOMAIN At(o, ws) /\ At(o, ws)[o + 4 * (i - 1)] = ws[i]
             /\ o + 4 * (i - 1) \in Nat /\ o + 4 * (i - 1) >= o
  <2>1. i \in Nat \ {0}
    OBVIOUS
  <2>2. ((o + 4 * (i - 1)) - o) \div 4 + 1 = i /\ o + 4 * (i - 1) \in Nat /\ o + 4 * (i - 1) >= o
    BY <2>1
  <2>3. QED
    BY <2>2 DEF At
<1>2. DOMAIN At(o, ws) = {o + 4 * (i - 1) : i \in DOMAIN ws}
  BY DEF At
<1>3. QED
  BY <1>1, <1>2 DEF Holds, Solely

Behind(w, o) == \A k \in DOMAIN w : k \in Nat /\ k >= o

LEMMA Over ==
  ASSUME NEW f, NEW g
  PROVE  /\ DOMAIN (f ++ g) = DOMAIN f \cup DOMAIN g
         /\ \A k \in DOMAIN f : (f ++ g)[k] = f[k]
         /\ \A k \in DOMAIN g \ DOMAIN f : (f ++ g)[k] = g[k]
BY DEF ++

LEMMA NoDcd == DcdWords(<<>>) = <<>>
BY DEF DcdWords

Twelve(o, sig, base, reserved, dcd, boot) ==
  <<sig, base, reserved, IF dcd = <<>> THEN 0 ELSE base + o + 48, base + o + 32, base + o, 0, 0,
    boot[1], boot[2], boot[3], 0>>

\* An IVT and its boot data; the DCD comes behind them.
LEMMA IvtWords ==
  ASSUME NEW o \in Nat, NEW sig, NEW base, NEW reserved, NEW dcd, NEW boot,
         dcd # <<>> => DcdWords(dcd) \in Seq(Nat)
  PROVE  /\ Holds(IvtAt(o, sig, base, reserved, dcd, boot), o, Twelve(o, sig, base, reserved, dcd, boot))
         /\ Behind(IvtAt(o, sig, base, reserved, dcd, boot), o)
         /\ dcd = <<>> => \A k \in DOMAIN IvtAt(o, sig, base, reserved, dcd, boot) : k < o + 48
<1> DEFINE t == Twelve(o, sig, base, reserved, dcd, boot)
           rest == DcdWords(dcd)
           w == IvtAt(o, sig, base, reserved, dcd, boot)
<1>1. w = At(o, t) ++ At(o + 48, rest)
  BY DEF IvtAt, Twelve
<1>2. DOMAIN t = 1..12 /\ DOMAIN t \subseteq Nat \ {0}
  BY DEF Twelve
<1>3. DOMAIN rest \subseteq Nat \ {0} /\ (dcd = <<>> => DOMAIN rest = {})
  BY NoDcd
<1> HIDE DEF t, rest, w
<1>4. o + 48 \in Nat
  OBVIOUS
<1>5. Holds(At(o, t), o, t) /\ Solely(At(o, t), o, t)
  BY <1>2, AtWord
<1>6. Solely(At(o + 48, rest), o + 48, rest)
  BY <1>3, <1>4, AtWord
<1>7. \A i \in 1..12 : o + 4 * (i - 1) \in DOMAIN w /\ w[o + 4 * (i - 1)] = t[i]
  <2> SUFFICES ASSUME NEW i \in 1..12
               PROVE  o + 4 * (i - 1) \in DOMAIN w /\ w[o + 4 * (i - 1)] = t[i]
    OBVIOUS
  <2>1. PICK k : k = o + 4 * (i - 1)
    OBVIOUS
  <2>2. k \in DOMAIN At(o, t) /\ At(o, t)[k] = t[i]
    BY <1>2, <1>5, <2>1 DEF Holds
  <2>3. k \in DOMAIN w /\ w[k] = At(o, t)[k]
    BY <1>1, <2>2, Over, Zenon
  <2>4. QED
    BY <2>1, <2>2, <2>3
<1>8. ASSUME NEW k \in DOMAIN w
      PROVE  k \in Nat /\ k >= o /\ (dcd = <<>> => k < o + 48)
  <2>1. k \in DOMAIN At(o, t) \/ k \in DOMAIN At(o + 48, rest)
    <3>1. DOMAIN (At(o, t) ++ At(o + 48, rest)) = DOMAIN At(o, t) \cup DOMAIN At(o + 48, rest)
      BY Over, Zenon
    <3> QED
      BY <1>1, <3>1
  <2>2. CASE k \in DOMAIN At(o, t)
    <3>1. PICK i \in 1..12 : k = o + 4 * (i - 1) /\ k \in Nat /\ k >= o
      BY <1>2, <1>5, <2>2 DEF Solely
    <3>2. QED
      BY <3>1
  <2>3. CASE k \in DOMAIN At(o + 48, rest)
    <3>1. PICK i \in DOMAIN rest : k = o + 48 + 4 * (i - 1) /\ k \in Nat /\ k >= o + 48
      BY <1>6, <2>3 DEF Solely
    <3>2. i \in Nat \ {0} /\ dcd # <<>>
      BY <1>3
    <3>3. QED
      BY <3>1, <3>2
  <2>4. QED
    BY <2>1, <2>2, <2>3
<1>9. Holds(w, o, t)
  BY <1>2, <1>7 DEF Holds
<1>10. Behind(w, o) /\ (dcd = <<>> => \A k \in DOMAIN w : k < o + 48)
  BY <1>8 DEF Behind
<1>11. QED
  BY <1>9, <1>10 DEF t, w

LEMMA OverHolds ==
  ASSUME NEW f, NEW g, NEW o, NEW ws
  PROVE  /\ Holds(f, o, ws) => Holds(f ++ g, o, ws)
         /\ Holds(g, o, ws) /\ (\A i \in DOMAIN ws : o + 4 * (i - 1) \notin DOMAIN f)
              => Holds(f ++ g, o, ws)
<1> SUFFICES ASSUME NEW i \in DOMAIN ws, NEW k, k = o + 4 * (i - 1)
             PROVE  /\ k \in DOMAIN f /\ f[k] = ws[i] =>
                         k \in DOMAIN (f ++ g) /\ (f ++ g)[k] = ws[i]
                    /\ k \in DOMAIN g /\ g[k] = ws[i] /\ k \notin DOMAIN f =>
                         k \in DOMAIN (f ++ g) /\ (f ++ g)[k] = ws[i]
  BY DEF Holds
<1> QED
  BY DEF ++

LEMMA OverBehind ==
  ASSUME NEW f, NEW g, NEW o \in Nat, NEW p \in Nat, p >= o, Behind(f, o), Behind(g, p)
  PROVE  Behind(f ++ g, o)
<1> SUFFICES ASSUME NEW k \in DOMAIN (f ++ g) PROVE k \in Nat /\ k >= o
  BY DEF Behind
<1>1. k \in DOMAIN f \/ k \in DOMAIN g
  BY DEF ++
<1>2. QED
  BY <1>1 DEF Behind

LEMMA AtBehind ==
  ASSUME NEW o \in Nat, NEW ws, DOMAIN ws \subseteq Nat \ {0}
  PROVE  Behind(At(o, ws), o)
BY AtWord DEF Solely, Behind

\* The words at the place of the image's IVT.
PluginBoot(f) == <<RamBase + f.at - IVT_OFFSET_SD, PluginBytes, 1>>
FirstWords(f) ==
  IF f.kind = "containers"
  THEN <<f.sig, 0, IF f.dcd = <<>> THEN 0 ELSE RamBase + f.at + 640, 0,
         RamBase + f.at + 192, 0, RamBase + f.at, 0, 0, 0, 128, 0>>
  ELSE Twelve(f.at, f.sig, RamBase, IF f.kind \in {"legacy", "fit"} THEN PayloadAt ELSE 0,
              IF f.kind = "code" THEN f.dcd ELSE <<>>,
              IF f.kind = "code" THEN <<RamBase, f.size, 0>> ELSE PluginBoot(f))

LEMMA ContainerBehind ==
  ASSUME NEW o \in Nat, NEW images, Len(images) \in Nat
  PROVE  Behind(ContainerAt(o, images), o)
<1> DEFINE four == <<Len(images), 0, 0, 0>>
           rest == [i \in 1..10 * Len(images) |->
                      LET im == images[(i - 1) \div 10 + 1]
                      IN CASE i % 10 = 1 -> im.offset
                           [] i % 10 = 3 -> im.addr
                           [] i % 10 = 7 -> im.size
                           [] OTHER      -> 0]
<1>1. DOMAIN four \subseteq Nat \ {0}
  OBVIOUS
<1>2. DOMAIN rest \subseteq Nat \ {0}
  <2>1. DOMAIN rest = 1..10 * Len(images)
    OBVIOUS
  <2> HIDE DEF rest
  <2>2. QED
    BY <2>1
<1>3. ContainerAt(o, images) = At(o, four) ++ At(o + 16, rest)
  BY DEF ContainerAt
<1> HIDE DEF four, rest
<1>4. o + 16 \in Nat /\ o + 16 >= o
  OBVIOUS
<1>5. Behind(At(o, four), o) /\ Behind(At(o + 16, rest), o + 16)
  BY <1>1, <1>2, <1>4, AtBehind, Zenon
<1>6. Behind(At(o, four) ++ At(o + 16, rest), o)
  BY <1>4, <1>5, OverBehind
<1>7. QED
  BY <1>3, <1>6

\* Of every kind of file: its IVT is where it should be, and nothing in front of it.
LEMMA MainFirst ==
  ASSUME NEW f, WellMade(f)
  PROVE  Holds(MainWords(f), f.at, FirstWords(f)) /\ Behind(MainWords(f), f.at)
<1>1. /\ f.kind \in {"code", "ivt", "legacy", "fit", "containers"} /\ f.at \in Nat
      /\ f.dcd # <<>> => DcdWords(f.dcd) \in Seq(Nat)
      /\ f.kind = "containers" => \A c \in {1, 2} : Len(f.containers[c]) \in Nat
  <2>1. f.kind = "containers" => \A c \in {1, 2} : \E S : f.containers[c] \in Seq(S)
    BY DEF WellMade
  <2> QED
    BY <2>1, Made
<1>2. CASE f.kind = "code"
  <2>1. MainWords(f) = IvtAt(f.at, f.sig, RamBase, 0, f.dcd, <<RamBase, f.size, 0>>)
    BY <1>2 DEF MainWords
  <2>2. FirstWords(f) = Twelve(f.at, f.sig, RamBase, 0, f.dcd, <<RamBase, f.size, 0>>)
    BY <1>2 DEF FirstWords
  <2>3. QED
    BY <1>1, <2>1, <2>2, IvtWords
<1>3. CASE f.kind = "ivt"
  <2> DEFINE a == IvtAt(f.at, f.sig, RamBase, 0, <<>>, PluginBoot(f))
             b == IvtAt(f.at + PluginBytes, f.sig, RamBase2, 0, <<>>,
                        <<RamBase2 + f.at - IVT_OFFSET_SD, f.size, 0>>)
  <2>1. MainWords(f) = a ++ b
    BY <1>3 DEF MainWords, PluginBoot
  <2>2. FirstWords(f) = Twelve(f.at, f.sig, RamBase, 0, <<>>, PluginBoot(f))
    BY <1>3 DEF FirstWords
  <2>3. f.at + PluginBytes \in Nat /\ f.at + PluginBytes >= f.at
    BY <1>1 DEF PluginBytes
  <2>4. Holds(a, f.at, FirstWords(f)) /\ Behind(a, f.at)
    BY <1>1, <2>2, IvtWords
  <2>5. Behind(b, f.at + PluginBytes)
    BY <2>3, IvtWords
  <2> HIDE DEF a, b
  <2>6. QED
    BY <1>1, <2>1, <2>3, <2>4, <2>5, OverHolds, OverBehind
<1>4. CASE f.kind \in {"legacy", "fit"}
  <2> DEFINE a == IvtAt(f.at, f.sig, RamBase, PayloadAt, <<>>, PluginBoot(f))
             ws == IF f.kind = "legacy" THEN <<IH_MAGIC, 0, 0, 0, RamBase2, RamBase2 + 4>>
                   ELSE <<FDT_MAGIC>>
             b == At(PayloadOffset(f), ws)
  <2>1. MainWords(f) = a ++ b
    <3>1. CASE f.kind = "legacy"
      BY <3>1 DEF MainWords, PluginBoot
    <3>2. CASE f.kind = "fit"
      BY <3>2 DEF MainWords, PluginBoot
    <3>3. QED
      BY <1>4, <3>1, <3>2
  <2>2. FirstWords(f) = Twelve(f.at, f.sig, RamBase, PayloadAt, <<>>, PluginBoot(f))
    BY <1>4 DEF FirstWords
  <2>3. PayloadOffset(f) \in Nat /\ PayloadOffset(f) >= f.at
    BY <1>1 DEF PayloadOffset, PayloadAt, IVT_OFFSET_SD
  <2>4. Holds(a, f.at, FirstWords(f)) /\ Behind(a, f.at)
    BY <1>1, <2>2, IvtWords
  <2>5. Behind(b, PayloadOffset(f))
    <3>1. DOMAIN ws \subseteq Nat \ {0}
      OBVIOUS
    <3> HIDE DEF ws
    <3>2. QED
      BY <2>3, <3>1, AtBehind
  <2> HIDE DEF a, b
  <2>6. QED
    BY <1>1, <2>1, <2>3, <2>4, <2>5, OverHolds, OverBehind
<1>5. CASE f.kind = "containers"
  <2> DEFINE second == f.at + IF f.sig = MX8_IVT2 THEN 128 ELSE 64
             a == At(f.at, FirstWords(f))
             b == At(f.at + 640, DcdWords(f.dcd))
             c == At(second, <<f.sig, 0, 0, 0, RamBase + f.at + 400, 0, RamBase + second, 0>>)
             d == ContainerAt(f.at + 192, f.containers[1])
             e == ContainerAt(f.at + 400, f.containers[2])
  <2>1. MainWords(f) = a ++ b ++ (c ++ d ++ e)
    BY <1>5 DEF MainWords, FirstWords
  <2>2. /\ second \in Nat /\ second >= f.at /\ f.at + 640 \in Nat /\ f.at + 640 >= f.at
        /\ f.at + 192 \in Nat /\ f.at + 192 >= f.at /\ f.at + 400 \in Nat /\ f.at + 400 >= f.at
    <3>1. PICK n \in {64, 128} : second = f.at + n
      OBVIOUS
    <3> HIDE DEF second
    <3>2. QED
      BY <1>1, <3>1, SMTT(30)
  <2>3. Holds(a, f.at, FirstWords(f)) /\ Behind(a, f.at)
    <3>1. DOMAIN FirstWords(f) \subseteq Nat \ {0}
      BY <1>5 DEF FirstWords
    <3>2. QED
      BY <1>1, <3>1, AtWord, AtBehind
  <2>4. Behind(b, f.at + 640)
    <3>1. DOMAIN DcdWords(f.dcd) \subseteq Nat \ {0}
      BY <1>1, NoDcd
    <3>2. QED
      BY <2>2, <3>1, AtBehind
  <2>5. Behind(c, second)
    BY <2>2, AtBehind
  <2>6. Behind(d, f.at + 192) /\ Behind(e, f.at + 400)
    <3>1. Len(f.containers[1]) \in Nat /\ Len(f.containers[2]) \in Nat
      BY <1>1, <1>5
    <3> QED
      BY <2>2, <3>1, ContainerBehind, SMTT(30)
  <2> HIDE DEF a, b, c, d, e, second
  <2>7. Behind(c ++ d ++ e, f.at)
    <3>1. Behind(c, f.at)
      BY <1>1, <2>2, <2>5 DEF Behind
    <3>2. Behind(c ++ d, f.at)
      BY <1>1, <2>2, <2>6, <3>1, OverBehind
    <3>3. QED
      BY <1>1, <2>2, <2>6, <3>2, OverBehind
  <2>8. Behind(a ++ b, f.at) /\ Holds(a ++ b, f.at, FirstWords(f))
    BY <1>1, <2>2, <2>3, <2>4, OverBehind, OverHolds
  <2>9. Behind(a ++ b ++ (c ++ d ++ e), f.at)
    BY <1>1, <2>7, <2>8, OverBehind
  <2>10. QED
    BY <2>1, <2>8, <2>9, OverHolds
<1>6. QED
  BY <1>1, <1>2, <1>3, <1>4, <1>5

LEMMA LayoutFirst ==
  ASSUME NEW f, NEW o, NEW ws, Holds(MainWords(f), o, ws)
  PROVE  Holds(Layout(f), o, ws)
BY OverHolds DEF Layout

\* HDMI firmware has its IVTs, each at its own step, in front of the image.
LEMMA LayoutHdmi ==
  ASSUME NEW f, WellMade(f), Behind(MainWords(f), f.at), NEW h \in f.hdmi
  PROVE  Holds(Layout(f), h, Twelve(h, IVT, RamBase, 0, <<>>, <<RamBase, 0, 16>>))
<1> DEFINE t(g) == Twelve(g, IVT, RamBase, 0, <<>>, <<RamBase, 0, 16>>)
<1>1. /\ f.at \in Nat /\ f.at % 256 = 0
      /\ \A g \in f.hdmi : g \in Nat /\ g % 256 = 0 /\ g < f.at
  BY Made
<1>2. ASSUME NEW g \in f.hdmi
      PROVE  /\ Holds(HdmiWords(g), g, t(g)) /\ Behind(HdmiWords(g), g)
             /\ \A k \in DOMAIN HdmiWords(g) : k < g + 48
  BY <1>1, NoDcd, IvtWords DEF HdmiWords
<1>3. DOMAIN t(h) = 1..12
  BY DEF Twelve
<1> DEFINE rest == [k \in UNION {DOMAIN HdmiWords(g) : g \in f.hdmi} |->
                     HdmiWords(CHOOSE g \in f.hdmi : k \in DOMAIN HdmiWords(g))[k]]
<1>4. Layout(f) = MainWords(f) ++ rest
  BY DEF Layout
<1> HIDE DEF t
<1> SUFFICES ASSUME NEW i \in 1..12
             PROVE  h + 4 * (i - 1) \in DOMAIN Layout(f) /\ Layout(f)[h + 4 * (i - 1)] = t(h)[i]
  BY <1>3 DEF Holds, t
<1>5. PICK k \in Nat : k = h + 4 * (i - 1) /\ h <= k /\ k < h + 48
  BY <1>1
<1>6. k \in DOMAIN HdmiWords(h) /\ HdmiWords(h)[k] = t(h)[i]
  BY <1>2, <1>3, <1>5 DEF Holds
<1>7. ASSUME NEW g \in f.hdmi, k \in DOMAIN HdmiWords(g)
      PROVE  g = h
  <2>1. g <= k /\ k < g + 48 /\ g \in Nat /\ g % 256 = 0 /\ h \in Nat /\ h % 256 = 0
    BY <1>1, <1>2, <1>7 DEF Behind
  <2>2. \A a, b \in Nat : a % 256 = 0 /\ b % 256 = 0 /\ a < b + 48 /\ b < a + 48 => a = b
    OBVIOUS
  <2>3. QED
    BY <1>5, <2>1, <2>2
<1>8. (CHOOSE g \in f.hdmi : k \in DOMAIN HdmiWords(g)) = h
  BY <1>6, <1>7
<1>9. k \in DOMAIN rest /\ rest[k] = t(h)[i]
  BY <1>6, <1>8
<1>10. k \notin DOMAIN MainWords(f)
  <2>1. h + 256 <= f.at
    BY <1>1, More256
  <2>2. QED
    BY <1>1, <1>5, <2>1 DEF Behind
<1> HIDE DEF rest
<1>11. k \in DOMAIN Layout(f) /\ Layout(f)[k] = rest[k]
  BY <1>4, <1>9, <1>10 DEF ++
<1>12. QED
  BY <1>5, <1>9, <1>11

\* No other step in front of the image has a word at all.
LEMMA LayoutNone ==
  ASSUME NEW f, WellMade(f), Behind(MainWords(f), f.at),
         NEW o \in Nat, o % 256 = 0, o < f.at, o \notin f.hdmi
  PROVE  o \notin DOMAIN Layout(f)
<1>1. /\ f.at \in Nat
      /\ \A g \in f.hdmi : g \in Nat /\ g % 256 = 0 /\ g < f.at
  BY Made
<1>2. ASSUME NEW g \in f.hdmi, o \in DOMAIN HdmiWords(g)
      PROVE  FALSE
  <2>1. g <= o /\ o < g + 48 /\ g \in Nat /\ g % 256 = 0 /\ g # o
    BY <1>1, <1>2, NoDcd, IvtWords DEF HdmiWords, Behind
  <2>2. \A a, b \in Nat : a % 256 = 0 /\ b % 256 = 0 /\ a <= b /\ b < a + 48 => a = b
    OBVIOUS
  <2>3. QED
    BY <2>1, <2>2
<1>3. o \notin DOMAIN MainWords(f)
  BY <1>1 DEF Behind
<1>4. QED
  BY <1>2, <1>3 DEF Layout, ++

-----------------------------------------------------------------------------
(* Reading a file that the tools have made.                                 *)

\* There is an image in the file, and its words are as they were written.
Laid == file \in Files /\ file.kind # "none" /\ words = Layout(file)

LEMMA LaidWell ==
  ASSUME Laid
  PROVE  WellMade(file) /\ Holds(words, file.at, FirstWords(file)) /\ Behind(MainWords(file), file.at)
BY FilesAssumption, MainFirst, LayoutFirst DEF Laid

LEMMA Fourth ==
  ASSUME NEW a \in Nat, a % 256 = 0
  PROVE  a % 4 = 0
BY Z3T(20)

LEMMA Whole4 ==
  ASSUME NEW k \in Nat, k % 4 = 0
  PROVE  (k \div 4) * 4 = k
BY Z3T(20)

LEMMA More4 ==
  ASSUME NEW k \in Nat, k % 4 = 0, NEW i \in Nat
  PROVE  (k + 4 * i) % 4 = 0
BY Z3T(20)

LEMMA RoomIn ==
  ASSUME NEW a, NEW s, a \in Nat, s \in Nat, a % 256 = 0, a + 256 <= s
  PROVE  a % 4 = 0 /\ a + 4 * (1 - 1) = a /\ a < s /\ a + 48 <= s
BY Fourth

\* A word inside the file is read where it was laid down.
LEMMA WordAt ==
  ASSUME NEW k \in Nat, k % 4 = 0, k < file.size, file.size \in Nat, file.size < W
  PROVE  Word(k) = IF k \in DOMAIN words THEN words[k] ELSE 0
<1>1. k \in 0..W - 1
  <2>1. PICK s \in Nat : s = file.size
    OBVIOUS
  <2> QED
    BY <2>1, Constants
<1>2. ((k % W) \div 4) * 4 = k
  BY <1>1, SmallMod, Whole4
<1>3. ~ (k >= file.size)
  OBVIOUS
<1> QED
  BY <1>2, <1>3 DEF Word

LEMMA WordHeld ==
  ASSUME NEW o \in Nat, o % 4 = 0, NEW ws, NEW i \in DOMAIN ws, i \in Nat \ {0},
         NEW k \in Nat, k = o + 4 * (i - 1), k < file.size,
         Holds(words, o, ws), file.size \in Nat, file.size < W
  PROVE  Word(k) = ws[i]
<1>1. k % 4 = 0
  <2>1. i - 1 \in Nat
    OBVIOUS
  <2> QED
    BY <2>1, More4
<1>2. k \in DOMAIN words /\ words[k] = ws[i]
  BY DEF Holds
<1>3. Word(k) = words[k]
  BY <1>1, <1>2, WordAt
<1> QED
  BY <1>2, <1>3

\* An IVT of twelve words is read as it was written; its boot data is right behind it.
LEMMA IvtRead ==
  ASSUME NEW o \in Nat, o % 4 = 0, NEW sig, NEW base \in Nat, NEW reserved, NEW dcd, NEW boot,
         Holds(words, o, Twelve(o, sig, base, reserved, dcd, boot)),
         o + 48 <= file.size, file.size \in Nat, file.size < W
  PROVE  /\ Word(o) = sig /\ Image(o) = base /\ Reserved(o) = reserved /\ Self(o) = base + o
         /\ Word(o + 12) = IF dcd = <<>> THEN 0 ELSE base + o + 48
         /\ BootAt(o) = o + 32 /\ Word(o + 32) = boot[1] /\ Word(BootAt(o)) = boot[1]
         /\ Word(o + 36) = boot[2] /\ Word(BootAt(o) + 4) = boot[2]
         /\ Word(o + 40) = boot[3] /\ PluginFlag(o) = boot[3] /\ Word(o + 44) = 0
<1> DEFINE ws == Twelve(o, sig, base, reserved, dcd, boot)
<1>1. /\ DOMAIN ws = 1..12
      /\ ws[1] = sig /\ ws[2] = base /\ ws[3] = reserved /\ ws[5] = base + o + 32 /\ ws[6] = base + o
      /\ ws[4] = IF dcd = <<>> THEN 0 ELSE base + o + 48
      /\ ws[9] = boot[1] /\ ws[10] = boot[2] /\ ws[11] = boot[3] /\ ws[12] = 0
  BY DEF Twelve
<1> HIDE DEF ws
<1>2. Holds(words, o, ws)
  BY DEF ws
<1>3. ASSUME NEW i \in 1..12, NEW k \in Nat, k = o + 4 * (i - 1)
      PROVE  Word(k) = ws[i]
  <2>1. k < file.size
    <3>1. PICK s \in Nat : s = file.size
      OBVIOUS
    <3> QED
      BY <1>3, <3>1
  <2>2. i \in DOMAIN ws /\ i \in Nat \ {0}
    BY <1>1
  <2> QED
    BY <1>2, <1>3, <2>1, <2>2, WordHeld
<1>4. /\ Word(o) = ws[1] /\ Word(o + 4) = ws[2] /\ Word(o + 8) = ws[3] /\ Word(o + 12) = ws[4]
      /\ Word(o + 16) = ws[5] /\ Word(o + 20) = ws[6] /\ Word(o + 32) = ws[9] /\ Word(o + 36) = ws[10]
      /\ Word(o + 40) = ws[11] /\ Word(o + 44) = ws[12]
  BY <1>3
<1>5. BootAt(o) = o + 32
  <2>1. (o \div 4) * 4 = o
    BY Whole4
  <2>2. 32 \in 0..W - 1
    <3>1. PICK s \in Nat : s = file.size
      OBVIOUS
    <3> QED
      BY <3>1, Constants
  <2>3. ((base + o + 32) - (base + o)) % W = 32
    <3>1. (base + o + 32) - (base + o) = 32
      OBVIOUS
    <3> QED
      BY <2>2, <3>1, SmallMod
  <2>4. Place(o, base + o + 32, base + o) = o + (32 \div 4) * 4
    BY <2>3 DEF Place
  <2>5. BootAt(o) = Place(o, base + o + 32, base + o)
    BY <1>1, <1>4, <2>1 DEF BootAt, Self
  <2> QED
    BY <2>4, <2>5
<1>6. o + 32 + 8 = o + 40 /\ o + 32 + 4 = o + 36
  OBVIOUS
<1> QED
  BY <1>1, <1>4, <1>5, <1>6 DEF PluginFlag, Image, Reserved, Self

-----------------------------------------------------------------------------
(* The steps of 0x100 that have a barker.                                   *)

LEMMA AtImage ==
  ASSUME Laid
  PROVE  Word(file.at) \in Barkers /\ (file.kind # "containers" => PluginFlag(file.at) \in {0, 1})
<1>1. WellMade(file) /\ Holds(words, file.at, FirstWords(file))
  BY LaidWell
<1>2. /\ file.sig \in Barkers /\ file.size \in Nat /\ file.size < W
      /\ file.at \in Nat /\ file.at % 256 = 0 /\ file.at + 256 <= file.size
  BY <1>1, Made
<1>3. CASE file.kind = "containers"
  <2>1. 1 \in DOMAIN FirstWords(file) /\ FirstWords(file)[1] = file.sig
    BY <1>3 DEF FirstWords
  <2>2. file.at \in Nat /\ file.at % 4 = 0 /\ file.at < file.size
        /\ file.at = file.at + 4 * (1 - 1)
    BY <1>2, RoomIn
  <2>3. Word(file.at) = FirstWords(file)[1]
    <3>1. PICK i \in Nat \ {0} : i = 1
      OBVIOUS
    <3>2. i \in DOMAIN FirstWords(file) /\ file.at = file.at + 4 * (i - 1)
      BY <2>1, <2>2, <3>1
    <3>3. Word(file.at) = FirstWords(file)[i]
      BY <1>1, <1>2, <2>2, <3>2, WordHeld, ZenonT(20)
    <3> QED
      BY <3>1, <3>3
  <2> QED
    BY <1>2, <1>3, <2>1, <2>3
<1>4. CASE file.kind # "containers"
  <2> DEFINE reserved == IF file.kind \in {"legacy", "fit"} THEN PayloadAt ELSE 0
             dcd == IF file.kind = "code" THEN file.dcd ELSE <<>>
             boot == IF file.kind = "code" THEN <<RamBase, file.size, 0>> ELSE PluginBoot(file)
  <2>1. FirstWords(file) = Twelve(file.at, file.sig, RamBase, reserved, dcd, boot)
    BY <1>4 DEF FirstWords
  <2>2. boot[3] \in {0, 1}
    BY DEF PluginBoot
  <2> HIDE DEF reserved, dcd, boot
  <2>3. RamBase \in Nat
    BY ImagesAssumption
  <2>4. Word(file.at) = file.sig /\ PluginFlag(file.at) = boot[3]
    <3>1. file.at % 4 = 0 /\ file.at + 48 <= file.size
      BY <1>2, RoomIn
    <3> QED
      BY <1>1, <1>2, <2>1, <2>3, <3>1, IvtRead
  <2> QED
    BY <1>2, <2>2, <2>4
<1> QED
  BY <1>3, <1>4

LEMMA AtHdmi ==
  ASSUME Laid, NEW h \in file.hdmi
  PROVE  PluginFlag(h) \notin {0, 1}
<1>1. WellMade(file) /\ Behind(MainWords(file), file.at)
  BY LaidWell
<1>2. /\ file.size \in Nat /\ file.size < W /\ file.at \in Nat /\ file.at + 256 <= file.size
      /\ h \in Nat /\ h % 256 = 0 /\ h < file.at
  BY <1>1, Made
<1>3. Holds(words, h, Twelve(h, IVT, RamBase, 0, <<>>, <<RamBase, 0, 16>>))
  BY <1>1, LayoutHdmi DEF Laid
<1>4. RamBase \in Nat
  BY ImagesAssumption
<1>5. h + 256 <= file.size /\ h % 4 = 0 /\ h + 48 <= file.size
  <2>1. PICK a \in Nat, s \in Nat : a = file.at /\ s = file.size
    BY <1>2
  <2> QED
    BY <1>2, <2>1, Fourth
<1> DEFINE boot == <<RamBase, 0, 16>>
<1>6. boot[3] = 16
  OBVIOUS
<1> HIDE DEF boot
<1>7. PluginFlag(h) = boot[3]
  BY <1>2, <1>3, <1>4, <1>5, IvtRead, SMTT(30) DEF boot
<1> QED
  BY <1>6, <1>7

\* In front of the image no other step than those of HDMI firmware has one.
LEMMA NoBarker ==
  ASSUME Laid, NEW o \in Nat, o % 256 = 0, o < file.at, Word(o) \in Barkers
  PROVE  o \in file.hdmi
<1> SUFFICES ASSUME o \notin file.hdmi PROVE FALSE
  OBVIOUS
<1>1. WellMade(file) /\ Behind(MainWords(file), file.at)
  BY LaidWell
<1>2. /\ file.size \in Nat /\ file.size < W /\ file.at \in Nat /\ file.at + 256 <= file.size
  BY <1>1, Made
<1>3. o \notin DOMAIN words
  BY <1>1, LayoutNone DEF Laid
<1>4. o \in Nat /\ o % 4 = 0 /\ o < file.size
  <2>1. PICK a \in Nat, s \in Nat : a = file.at /\ s = file.size
    BY <1>2
  <2> QED
    BY <1>2, <2>1, Fourth
<1>5. Word(o) = 0
  BY <1>2, <1>3, <1>4, WordAt
<1> QED
  BY <1>5 DEF Barkers, IVT, IVT2, MX8_IVT, MX8_IVT2

\* The search from a step at or in front of the image finds the image's IVT, or one of
\* HDMI firmware at that step or behind it.
LEMMA Finds ==
  ASSUME Laid, NEW size \in Nat, file.at < size,
         NEW begin \in Nat, begin % 256 = 0, begin <= file.at
  PROVE  GetIvtOffset(size, begin) \in file.hdmi \cup {file.at}
<1> DEFINE S == {o \in {begin + 256 * n : n \in 0..size \div 256} : o < size /\ Word(o) \in Barkers}
<1>1. WellMade(file)
  BY LaidWell
<1>2. file.at \in Nat /\ file.at % 256 = 0
  BY <1>1, Made
<1>3. S \in SUBSET Nat
  OBVIOUS
<1>4. file.at \in S
  <2>1. PICK n \in Nat : file.at = begin + 256 * n /\ n <= file.at \div 256
    BY <1>2, Step256, ZenonT(20)
  <2>2. n \in 0..size \div 256
    <3>1. file.at \div 256 <= size \div 256 /\ file.at \div 256 \in Nat /\ size \div 256 \in Nat
      BY <1>2, Z3T(20)
    <3> QED
      BY <2>1, <3>1
  <2>3. Word(file.at) \in Barkers
    BY AtImage
  <2> QED
    BY <2>1, <2>2, <2>3
<1>5. FirstOf(S, NoIvt) \in S /\ FirstOf(S, NoIvt) <= file.at
  <2> HIDE DEF S
  <2> QED
    BY <1>3, <1>4, FirstOfLeast
<1>6. PICK o : o = FirstOf(S, NoIvt)
  OBVIOUS
<1>7. /\ o \in Nat /\ o <= file.at /\ Word(o) \in Barkers
      /\ \E n \in 0..size \div 256 : o = begin + 256 * n
  <2>1. o \in S /\ o <= file.at
    BY <1>5, <1>6
  <2>2. S \subseteq Nat
    BY <1>3
  <2>3. Word(o) \in Barkers /\ \E n \in 0..size \div 256 : o = begin + 256 * n
    BY <2>1
  <2> HIDE DEF S
  <2> QED
    BY <2>1, <2>2, <2>3
<1>8. o % 256 = 0
  <2>1. \A n \in Nat : (begin + 256 * n) % 256 = 0
    BY Z3T(20)
  <2> QED
    BY <1>7, <2>1
<1>9. o \in file.hdmi \cup {file.at}
  BY <1>2, <1>7, <1>8, NoBarker
<1> QED
  BY <1>6, <1>9 DEF GetIvtOffset

-----------------------------------------------------------------------------
(* The search as a loop.                                                    *)

\* Where the search stands: at a step in front of the image or at it, until it is found.
Searches ==
  /\ pc = "search" =>
       /\ file.kind # "containers" /\ ImgIVTOffset \in Nat
       /\ ImgIVTOffset % 256 = 0 /\ ImgIVTOffset <= file.at
  /\ pc = "headers" => file.kind # "containers" /\ ImgIVTOffset \in file.hdmi \cup {file.at}
  /\ pc = "containers" => file.kind = "containers"
  /\ pc \notin {"search", "headers", "containers"} => ImgIVTOffset = file.at

Inv == file \in Files /\ words = Layout(file) /\ (HasImage => Searches)

LEMMA InitInv == Init => Inv
<1> SUFFICES ASSUME Init, HasImage PROVE Searches
  BY DEF Init, Inv
<1>1. WellMade(file)
  BY FilesAssumption DEF Init, HasImage
<1>2. /\ file.kind = "containers" <=> file.dev \in {"MX8QM", "MX8QXP"}
      /\ file.at \in Nat
  BY <1>1, Made DEF WellMade
<1>3. /\ pc = IF file.dev \in {"MX8QM", "MX8QXP"} THEN "containers" ELSE "search"
      /\ ImgIVTOffset = 0
  BY DEF Init
<1>4. 0 % 256 = 0
  OBVIOUS
<1> QED
  BY <1>2, <1>3, <1>4 DEF Searches

\* The steps behind the search keep what it has found.
After == pc \notin {"search", "headers", "containers"}

LEMMA RestKeeps ==
  ASSUME RunPlugIn \/ FindPayload \/ RunSingleDCD \/ LoadFirmware \/ FitFirmware \/ FitFdt
         \/ FitLoadable \/ RunMultiDCD \/ LoadInitial \/ LoadImage \/ Ended
  PROVE  After /\ After' /\ UNCHANGED <<file, words, ImgIVTOffset>>
<1>1. CASE RunPlugIn
  BY <1>1 DEF RunPlugIn, After, Fails, Downloads, Parses, Goes
<1>2. CASE FindPayload
  BY <1>2 DEF FindPayload, After, Parses, Goes
<1>3. CASE RunSingleDCD
  BY <1>3 DEF RunSingleDCD, RunDCD, After, Fails, Parses, Goes
<1>4. CASE LoadFirmware
  BY <1>4 DEF LoadFirmware, After, Fails, Downloads, Parses, Goes
<1>5. CASE FitFirmware
  BY <1>5 DEF FitFirmware, After, Fails, Downloads, Parses, Goes
<1>6. CASE FitFdt
  BY <1>6 DEF FitFdt, After, Fails, Downloads, Parses, Goes
<1>7. CASE FitLoadable
  BY <1>7 DEF FitLoadable, After, Fails, Downloads, Parses, Goes
<1>8. CASE RunMultiDCD
  BY <1>8 DEF RunMultiDCD, RunDCD, After, Fails, Parses, Goes
<1>9. CASE LoadInitial
  BY <1>9 DEF LoadInitial, After, Fails, Downloads, Parses, Goes
<1>10. CASE LoadImage
  BY <1>10 DEF LoadImage, After, Fails, Downloads, Parses, Goes
<1>11. CASE Ended
  BY <1>11 DEF Ended, After, vars
<1> QED
  BY <1>1, <1>2, <1>3, <1>4, <1>5, <1>6, <1>7, <1>8, <1>9, <1>10, <1>11

LEMMA StepInv == Inv /\ [Next]_vars => Inv'
<1> SUFFICES ASSUME Inv, [Next]_vars PROVE Inv'
  OBVIOUS
<1>1. CASE FindIvt
  <2>1. pc = "search" /\ pc' = "headers" /\ UNCHANGED <<file, words>>
        /\ ImgIVTOffset' = GetIvtOffset(file.size, ImgIVTOffset)
    BY <1>1 DEF FindIvt, Parses, Goes
  <2>2. ASSUME HasImage
        PROVE  file.kind # "containers" /\ ImgIVTOffset' \in file.hdmi \cup {file.at}
    <3>1. Laid
      BY <2>2 DEF Inv, Laid, HasImage
    <3>2. /\ file.kind # "containers" /\ ImgIVTOffset \in Nat
          /\ ImgIVTOffset % 256 = 0 /\ ImgIVTOffset <= file.at
      BY <2>1, <2>2 DEF Inv, Searches
    <3>3. file.size \in Nat /\ file.at \in Nat /\ file.at + 256 <= file.size
      BY <3>1, LaidWell, Made
    <3>4. file.at < file.size
      BY <3>3
    <3> QED
      BY <2>1, <3>1, <3>2, <3>3, <3>4, Finds
  <2> QED
    BY <2>1, <2>2 DEF Inv, Searches, HasImage
<1>2. CASE ReadHeaders
  <2>1. /\ pc = "headers" /\ UNCHANGED <<file, words>>
        /\ \/ /\ PluginFlag(ImgIVTOffset) \notin {0, 1}
              /\ pc' = "search" /\ ImgIVTOffset' = (ImgIVTOffset + 256) % W
           \/ /\ PluginFlag(ImgIVTOffset) \in {0, 1}
              /\ pc' \in {"plugin", "dcd", "load"} /\ ImgIVTOffset' = ImgIVTOffset
    BY <1>2 DEF ReadHeaders, Parses, Goes
  <2>2. ASSUME HasImage
        PROVE  Searches'
    <3>1. Laid
      BY <2>2 DEF Inv, Laid, HasImage
    <3>2. file.kind # "containers" /\ ImgIVTOffset \in file.hdmi \cup {file.at}
      BY <2>1, <2>2 DEF Inv, Searches
    <3>3. CASE PluginFlag(ImgIVTOffset) \notin {0, 1}
      <4>1. ImgIVTOffset \in file.hdmi
        BY <3>1, <3>2, <3>3, AtImage
      <4>2. /\ ImgIVTOffset \in Nat /\ ImgIVTOffset % 256 = 0 /\ ImgIVTOffset < file.at
            /\ file.at \in Nat /\ file.at % 256 = 0
            /\ file.size \in Nat /\ file.at + 256 <= file.size /\ file.size < W
        BY <3>1, <4>1, LaidWell, Made
      <4>3. ImgIVTOffset + 256 <= file.at /\ (ImgIVTOffset + 256) % 256 = 0
        BY <4>2, More256
      <4>4. ImgIVTOffset + 256 \in 0..W - 1
        <5>1. PICK a \in Nat, s \in Nat : a = file.at /\ s = file.size
          BY <4>2
        <5>2. W \in Nat
          BY ImagesAssumption
        <5> QED
          BY <4>2, <4>3, <5>1, <5>2
      <4>5. ImgIVTOffset' = ImgIVTOffset + 256
        BY <2>1, <3>3, <4>4, SmallMod
      <4>6. pc' = "search" /\ ImgIVTOffset' \in Nat /\ ImgIVTOffset' % 256 = 0
            /\ ImgIVTOffset' <= file.at /\ file' = file
        BY <2>1, <3>3, <4>3, <4>4, <4>5
      <4> QED
        BY <3>2, <4>6 DEF Searches
    <3>4. CASE PluginFlag(ImgIVTOffset) \in {0, 1}
      <4>1. ImgIVTOffset = file.at
        BY <3>1, <3>2, <3>4, AtHdmi
      <4> QED
        BY <2>1, <3>4, <4>1 DEF Searches
    <3> QED
      BY <3>3, <3>4
  <2> QED
    BY <2>1, <2>2 DEF Inv, HasImage
<1>3. CASE FindContainers
  <2>1. /\ pc = "containers" /\ UNCHANGED <<file, words>>
        /\ pc' \in {"failed", "multiDcd", "initial"}
        /\ ImgIVTOffset' = GetIvtOffset(InitialSize, 0)
    BY <1>3 DEF FindContainers, Parses, Goes
  <2>2. ASSUME HasImage
        PROVE  ImgIVTOffset' = file.at
    <3>1. Laid
      BY <2>2 DEF Inv, Laid, HasImage
    <3>2. file.kind = "containers"
      BY <2>1, <2>2 DEF Inv, Searches
    <3>3. file.at \in Nat /\ file.hdmi = {} /\ file.at < InitialSize
      BY <3>1, <3>2, LaidWell, Made
    <3>4. InitialSize \in Nat /\ 0 % 256 = 0 /\ 0 <= file.at
      BY <3>3, ImagesAssumption
    <3>5. GetIvtOffset(InitialSize, 0) \in file.hdmi \cup {file.at}
      BY <3>1, <3>3, <3>4, Finds
    <3> QED
      BY <2>1, <3>3, <3>5
  <2> QED
    BY <2>1, <2>2 DEF Inv, Searches, HasImage
<1>4. CASE UNCHANGED vars
  BY <1>4 DEF Inv, Searches, HasImage, vars
<1>5. CASE After /\ After' /\ UNCHANGED <<file, words, ImgIVTOffset>>
  BY <1>5 DEF Inv, Searches, HasImage, After
<1> QED
  BY <1>1, <1>2, <1>3, <1>4, <1>5, RestKeeps DEF Next, Step

\* Whatever the files are, if they are well made the IVT in use is the image's own.
THEOREM ImageIsFound == Spec => []FindsTheImage
<1>1. Inv => FindsTheImage
  BY DEF Inv, Searches, FindsTheImage
<1> QED
  BY <1>1, InitInv, StepInv, PTL DEF Spec

-----------------------------------------------------------------------------
(* The first elements of a sequence.                                        *)

Upto(s, n) == [k \in 1..n |-> s[k]]

LEMMA UptoSeq ==
  ASSUME NEW S, NEW s \in Seq(S), NEW n \in 0..Len(s)
  PROVE  Upto(s, n) \in Seq(S) /\ Len(Upto(s, n)) = n
<1>1. \A k \in 1..n : s[k] \in S
  OBVIOUS
<1>2. Upto(s, n) \in [1..n -> S]
  BY <1>1 DEF Upto
<1>3. n \in Nat
  OBVIOUS
<1> QED
  BY <1>2, <1>3

LEMMA UptoMore ==
  ASSUME NEW S, NEW s \in Seq(S), NEW n \in 0..Len(s) - 1
  PROVE  Append(Upto(s, n), s[n + 1]) = Upto(s, n + 1)
<1>1. Upto(s, n) \in Seq(S) /\ Len(Upto(s, n)) = n /\ s[n + 1] \in S
  BY UptoSeq
<1>2. Upto(s, n + 1) \in Seq(S) /\ Len(Upto(s, n + 1)) = n + 1
  BY UptoSeq
<1>3. /\ Append(Upto(s, n), s[n + 1]) \in Seq(S) /\ Len(Append(Upto(s, n), s[n + 1])) = n + 1
      /\ \A k \in 1..n : Append(Upto(s, n), s[n + 1])[k] = Upto(s, n)[k]
      /\ Append(Upto(s, n), s[n + 1])[n + 1] = s[n + 1]
  BY <1>1, AppendProperties
<1>4. \A k \in 1..n + 1 : Append(Upto(s, n), s[n + 1])[k] = Upto(s, n + 1)[k]
  BY <1>3 DEF Upto
<1> QED
  BY <1>2, <1>3, <1>4, SeqEqual

LEMMA UptoEnds ==
  ASSUME NEW S, NEW s \in Seq(S)
  PROVE  Upto(s, 0) = <<>> /\ Upto(s, Len(s)) = s
<1>1. Upto(s, 0) \in Seq(S) /\ Len(Upto(s, 0)) = 0
  BY UptoSeq
<1>2. Upto(s, Len(s)) \in Seq(S) /\ Len(Upto(s, Len(s))) = Len(s)
  BY UptoSeq
<1>3. \A k \in 1..Len(s) : Upto(s, Len(s))[k] = s[k]
  BY DEF Upto
<1> QED
  BY <1>1, <1>2, <1>3, EmptySeq, SeqEqual

LEMMA UptoPrefix ==
  ASSUME NEW S, NEW s \in Seq(S), NEW n \in 0..Len(s)
  PROVE  IsPrefix(Upto(s, n), s)
<1>1. Len(Upto(s, n)) = n /\ Upto(s, n) \in Seq(S)
  BY UptoSeq
<1>2. SubSeq(Upto(s, n), 1, n) = Upto(s, n)
  BY <1>1
<1>3. SubSeq(s, 1, n) = Upto(s, n)
  BY DEF Upto
<1> QED
  BY <1>1, <1>2, <1>3 DEF IsPrefix

-----------------------------------------------------------------------------
(* What the files ask for, element by element.                              *)

Sequence(s, n) == n \in Nat /\ Len(s) = n /\ \E S : s \in Seq(S)

LEMMA Joined ==
  ASSUME NEW S, NEW s \in Seq(S), NEW n \in Nat, NEW t, t \in [1..n -> S]
  PROVE  /\ Sequence(s \o t, Len(s) + n)
         /\ \A k \in 1..Len(s) : (s \o t)[k] = s[k]
         /\ \A k \in 1..n : (s \o t)[Len(s) + k] = t[k]
<1>1. t \in Seq(S) /\ Len(t) = n
  OBVIOUS
<1>2. /\ s \o t \in Seq(S) /\ Len(s \o t) = Len(s) + n
      /\ \A k \in 1..Len(s) + n : (s \o t)[k] = IF k <= Len(s) THEN s[k] ELSE t[k - Len(s)]
  BY <1>1, ConcatProperties
<1>3. Len(s) \in Nat
  OBVIOUS
<1>4. \A k \in 1..Len(s) : (s \o t)[k] = s[k]
  BY <1>2, <1>3
<1>5. ASSUME NEW k \in 1..n
      PROVE  (s \o t)[Len(s) + k] = t[k]
  <2>1. Len(s) + k \in 1..Len(s) + n /\ ~(Len(s) + k <= Len(s)) /\ (Len(s) + k) - Len(s) = k
    BY <1>3
  <2> QED
    BY <1>2, <2>1
<1>6. Sequence(s \o t, Len(s) + n)
  BY <1>2, <1>3 DEF Sequence
<1> QED
  BY <1>4, <1>5, <1>6

LEMMA Short ==
  ASSUME NEW s, NEW a, NEW b
  PROVE  /\ s = <<a>> => Sequence(s, 1) /\ s[1] = a
         /\ s = <<a, b>> => Sequence(s, 2) /\ s[1] = a /\ s[2] = b
<1>1. <<a>> \in Seq({a}) /\ Len(<<a>>) = 1
  OBVIOUS
<1>2. <<a, b>> \in Seq({a, b}) /\ Len(<<a, b>>) = 2
  OBVIOUS
<1>3. Sequence(<<a>>, 1)
  BY <1>1 DEF Sequence
<1>4. Sequence(<<a, b>>, 2)
  BY <1>2 DEF Sequence
<1> QED
  BY <1>3, <1>4

LEMMA AskedCode ==
  ASSUME NEW f, f.kind = "code"
  PROVE  Sequence(Asked(f), 1) /\ Asked(f)[1] = Load(0, f.size, RamBase)
<1>1. Asked(f) = << Load(0, f.size, RamBase) >>
  BY DEF Asked
<1> QED
  BY <1>1, Short

LEMMA AskedBehind ==
  ASSUME NEW f, f.kind \in {"ivt", "legacy"}
  PROVE  /\ Sequence(Asked(f), 2) /\ Asked(f)[1] = Plugin(f)
         /\ Asked(f)[2] = IF f.kind = "ivt" THEN Load(0, f.size, RamBase2)
                          ELSE Load(PayloadOffset(f) + LegacyHeader,
                                    f.size - (PayloadOffset(f) + LegacyHeader), RamBase2)
<1> DEFINE second == IF f.kind = "ivt" THEN Load(0, f.size, RamBase2)
                     ELSE Load(PayloadOffset(f) + LegacyHeader,
                               f.size - (PayloadOffset(f) + LegacyHeader), RamBase2)
<1>1. Asked(f) = << Plugin(f), second >>
  BY DEF Asked
<1> HIDE DEF second
<1>2. Sequence(Asked(f), 2) /\ Asked(f)[1] = Plugin(f) /\ Asked(f)[2] = second
  <2>1. PICK s, a, b : s = Asked(f) /\ a = Plugin(f) /\ b = second
    OBVIOUS
  <2>2. s = <<a, b>>
    BY <1>1, <2>1
  <2>3. Sequence(s, 2) /\ s[1] = a /\ s[2] = b
    BY <2>2, Short
  <2> QED
    BY <2>1, <2>3
<1> QED
  BY <1>2 DEF second

FitData(f, im, addr) == Load(PayloadOffset(f) + TreeSize + im.offset, im.size, addr)
FitImageOf(f, type, i) == Named(f.fit, NamesOf(f.fit, type)[i])
Loadables(f) == Len(NamesOf(f.fit, "loadables"))

LEMMA AskedFit ==
  ASSUME NEW f, f.kind = "fit", Loadables(f) \in Nat
  PROVE  LET firmware == FitImageOf(f, "firmware", 1) IN
         /\ Sequence(Asked(f), 3 + Loadables(f)) /\ Asked(f)[1] = Plugin(f)
         /\ Asked(f)[2] = FitData(f, firmware, firmware.load)
         /\ Asked(f)[3] = FitData(f, FitImageOf(f, "fdt", 1), firmware.load + firmware.size)
         /\ \A i \in 1..Loadables(f) :
              Asked(f)[3 + i] = FitData(f, FitImageOf(f, "loadables", i), FitImageOf(f, "loadables", i).load)
<1> DEFINE a == Plugin(f)
           firmware == FitImageOf(f, "firmware", 1)
           b == FitData(f, firmware, firmware.load)
           c == FitData(f, FitImageOf(f, "fdt", 1), firmware.load + firmware.size)
           n == Loadables(f)
           r == [i \in 1..n |-> FitData(f, FitImageOf(f, "loadables", i), FitImageOf(f, "loadables", i).load)]
           S == {a, b, c} \cup {r[i] : i \in 1..n}
<1>1. Asked(f) = <<a>> \o (<<b, c>> \o r)
  BY DEF Asked, FitLoads, FitData, FitImageOf, Loadables
<1>2. \A i \in 1..n : r[i] = FitData(f, FitImageOf(f, "loadables", i), FitImageOf(f, "loadables", i).load)
  OBVIOUS
<1>3. n \in Nat /\ r = [i \in 1..n |-> r[i]]
  OBVIOUS
<1> HIDE DEF a, b, c, r, n
<1>4. r \in [1..n -> S] /\ <<a>> \in Seq(S) /\ <<b, c>> \in Seq(S) /\ <<a, b, c>> \in Seq(S)
  BY <1>3
<1>5. r \in Seq(S) /\ Len(r) = n
  BY <1>3, <1>4
<1>6. <<a>> \o (<<b, c>> \o r) = (<<a>> \o <<b, c>>) \o r
  BY <1>4, <1>5, ConcatAssociative
<1>7. <<a>> \o <<b, c>> = <<a, b, c>>
  <2>1. PICK u \in Seq(S), v \in Seq(S), w \in Seq(S) : u = <<a>> /\ v = <<b, c>> /\ w = <<a, b, c>>
    BY <1>4
  <2>2. /\ Len(u) = 1 /\ u[1] = a /\ Len(v) = 2 /\ v[1] = b /\ v[2] = c
        /\ Len(w) = 3 /\ w[1] = a /\ w[2] = b /\ w[3] = c
    BY <2>1
  <2>3. /\ u \o v \in Seq(S) /\ Len(u \o v) = Len(u) + Len(v)
        /\ \A k \in 1..Len(u) + Len(v) : (u \o v)[k] = IF k <= Len(u) THEN u[k] ELSE v[k - Len(u)]
    BY ConcatProperties
  <2>4. \A k \in 1..3 : (u \o v)[k] = w[k]
    BY <2>2, <2>3
  <2>5. Len(u \o v) = Len(w) /\ \A k \in 1..Len(u \o v) : (u \o v)[k] = w[k]
    BY <2>2, <2>3, <2>4
  <2>6. u \o v = w
    BY <2>3, <2>5, SeqEqual
  <2> QED
    BY <2>1, <2>6
<1>8. /\ Sequence(Asked(f), 3 + n) /\ Asked(f)[1] = a /\ Asked(f)[2] = b /\ Asked(f)[3] = c
      /\ \A i \in 1..n : Asked(f)[3 + i] = r[i]
  <2>1. PICK s \in Seq(S) : s = <<a, b, c>>
    BY <1>4
  <2>2. Len(s) = 3 /\ s[1] = a /\ s[2] = b /\ s[3] = c
    BY <2>1
  <2>3. Asked(f) = s \o r
    BY <1>1, <1>6, <1>7, <2>1
  <2>4. /\ Sequence(s \o r, Len(s) + n)
        /\ \A k \in 1..Len(s) : (s \o r)[k] = s[k]
        /\ \A k \in 1..n : (s \o r)[Len(s) + k] = r[k]
    BY <1>3, <1>4, Joined
  <2>5. Asked(f)[1] = s[1] /\ Asked(f)[2] = s[2] /\ Asked(f)[3] = s[3]
    <3>1. 1 \in 1..Len(s) /\ 2 \in 1..Len(s) /\ 3 \in 1..Len(s)
      BY <2>2
    <3>2. (s \o r)[1] = s[1] /\ (s \o r)[2] = s[2] /\ (s \o r)[3] = s[3]
      BY <2>4, <3>1, Zenon
    <3> QED
      BY <2>3, <3>2
  <2>6. Sequence(Asked(f), 3 + n) /\ \A i \in 1..n : Asked(f)[3 + i] = r[i]
    BY <2>2, <2>3, <2>4, Zenon
  <2> QED
    BY <2>2, <2>5, <2>6
<1> QED
  BY <1>2, <1>8 DEF a, b, c, n

\* The images of both containers, one after the other.
ImagesOf(f) == f.containers[1] \o f.containers[2]
MultiLoad(im) == Load(im.offset - IVT_OFFSET_SD, im.size, SCUViewAddr(im.addr))
SubImage == [offset : IVT_OFFSET_SD..W - 1, addr : 0..W - 1, size : Nat]

LEMMA ContainersOf ==
  ASSUME NEW f, WellMade(f), f.kind = "containers"
  PROVE  /\ \A c \in {1, 2} : f.containers[c] \in Seq(SubImage) /\ Len(f.containers[c]) \in 0..MaxImages
         /\ ImagesOf(f) \in Seq(SubImage)
         /\ Len(ImagesOf(f)) = Len(f.containers[1]) + Len(f.containers[2])
         /\ \A i \in 1..Len(f.containers[1]) : ImagesOf(f)[i] = f.containers[1][i]
         /\ \A i \in 1..Len(f.containers[2]) :
              ImagesOf(f)[Len(f.containers[1]) + i] = f.containers[2][i]
<1>1. \A c \in {1, 2} : f.containers[c] \in Seq(SubImage) /\ Len(f.containers[c]) <= MaxImages
  BY DEF WellMade, SubImage
<1>2. PICK s \in Seq(SubImage), t \in Seq(SubImage) :
        s = f.containers[1] /\ t = f.containers[2] /\ Len(s) <= MaxImages /\ Len(t) <= MaxImages
  BY <1>1
<1>3. /\ s \o t \in Seq(SubImage) /\ Len(s \o t) = Len(s) + Len(t)
      /\ \A i \in 1..Len(s) + Len(t) : (s \o t)[i] = IF i <= Len(s) THEN s[i] ELSE t[i - Len(s)]
  BY ConcatProperties
<1>4. Len(s) \in 0..MaxImages /\ Len(t) \in 0..MaxImages
  <2>1. Len(s) \in Nat /\ Len(t) \in Nat
    BY LenProperties
  <2>2. MaxImages \in Nat
    BY DEF MaxImages
  <2>3. Len(s) <= MaxImages /\ Len(t) <= MaxImages
    BY <1>2
  <2> QED
    BY <2>1, <2>2, <2>3
<1>5. ASSUME NEW i \in 1..Len(s)
      PROVE  (s \o t)[i] = s[i]
  BY <1>3, <1>4
<1>6. ASSUME NEW i \in 1..Len(t)
      PROVE  (s \o t)[Len(s) + i] = t[i]
  <2>1. Len(s) + i \in 1..Len(s) + Len(t) /\ ~(Len(s) + i <= Len(s)) /\ (Len(s) + i) - Len(s) = i
    BY <1>4
  <2> QED
    BY <1>3, <2>1
<1>7. ImagesOf(f) = s \o t
  BY <1>2 DEF ImagesOf
<1>8. \A c \in {1, 2} : f.containers[c] \in Seq(SubImage) /\ Len(f.containers[c]) \in 0..MaxImages
  BY <1>2, <1>4
<1> QED
  BY <1>2, <1>3, <1>5, <1>6, <1>7, <1>8

LEMMA AskedContainers ==
  ASSUME NEW f, WellMade(f), f.kind = "containers"
  PROVE  /\ Sequence(Asked(f), 1 + Len(ImagesOf(f)))
         /\ Asked(f)[1] = Load(0, InitialSize, SCUViewAddr(RamBase + f.at) - f.at)
         /\ \A i \in 1..Len(ImagesOf(f)) : Asked(f)[1 + i] = MultiLoad(ImagesOf(f)[i])
<1> DEFINE a == Load(0, InitialSize, SCUViewAddr(RamBase + f.at) - f.at)
           images == ImagesOf(f)
           n == Len(images)
           r == [i \in 1..n |-> MultiLoad(images[i])]
           S == {a} \cup {r[i] : i \in 1..n}
<1>1. Asked(f) = <<a>> \o r
  BY DEF Asked, ImagesOf, MultiLoad
<1>2. \A i \in 1..n : r[i] = MultiLoad(images[i])
  OBVIOUS
<1>3. r = [i \in 1..n |-> r[i]]
  OBVIOUS
<1>4. n \in Nat
  BY ContainersOf
<1> HIDE DEF a, r, n, images
<1>5. r \in [1..n -> S] /\ <<a>> \in Seq(S)
  BY <1>3
<1>6. PICK s \in Seq(S) : s = <<a>>
  BY <1>5
<1>7. Len(s) = 1 /\ s[1] = a
  BY <1>6
<1>8. /\ Sequence(s \o r, Len(s) + n)
      /\ \A k \in 1..Len(s) : (s \o r)[k] = s[k]
      /\ \A k \in 1..n : (s \o r)[Len(s) + k] = r[k]
  BY <1>4, <1>5, Joined
<1>9. Asked(f) = s \o r
  BY <1>1, <1>6
<1>10. Sequence(Asked(f), 1 + n) /\ \A k \in 1..n : Asked(f)[1 + k] = r[k]
  BY <1>7, <1>8, <1>9, Zenon
<1>11. Asked(f)[1] = a
  <2>1. 1 \in 1..Len(s)
    BY <1>7
  <2>2. (s \o r)[1] = s[1]
    BY <1>8, <2>1, Zenon
  <2> QED
    BY <1>7, <1>9, <2>2
<1> QED
  BY <1>2, <1>10, <1>11 DEF a, n, images

-----------------------------------------------------------------------------
(* Reading an image that is not one of containers.                          *)

SingleBoot(f) == IF f.kind = "code" THEN <<RamBase, f.size, 0>> ELSE PluginBoot(f)

LEMMA SingleRead ==
  ASSUME Laid, file.kind # "containers"
  PROVE  LET o == file.at IN
         /\ Image(o) = RamBase /\ Self(o) = RamBase + o
         /\ Reserved(o) = IF file.kind \in {"legacy", "fit"} THEN PayloadAt ELSE 0
         /\ PluginFlag(o) = IF file.kind = "code" THEN 0 ELSE 1
         /\ file.kind # "code" => Word(BootAt(o)) = RamBase + o - IVT_OFFSET_SD
                                  /\ Word(BootAt(o) + 4) = PluginBytes
<1>1. WellMade(file) /\ Holds(words, file.at, FirstWords(file))
  BY LaidWell
<1>2. /\ file.size \in Nat /\ file.size < W
      /\ file.at \in Nat /\ file.at % 256 = 0 /\ file.at + 256 <= file.size
  BY <1>1, Made
<1> DEFINE reserved == IF file.kind \in {"legacy", "fit"} THEN PayloadAt ELSE 0
           dcd == IF file.kind = "code" THEN file.dcd ELSE <<>>
           boot == SingleBoot(file)
<1>3. FirstWords(file) = Twelve(file.at, file.sig, RamBase, reserved, dcd, boot)
  BY DEF FirstWords, SingleBoot
<1>4. /\ file.kind = "code" => boot[3] = 0
      /\ file.kind # "code" => boot[1] = RamBase + file.at - IVT_OFFSET_SD /\ boot[2] = PluginBytes
                               /\ boot[3] = 1
  BY DEF SingleBoot, PluginBoot
<1> HIDE DEF reserved, dcd, boot
<1>5. file.at % 4 = 0 /\ file.at + 48 <= file.size
  BY <1>2, RoomIn
<1>6. RamBase \in Nat
  BY Constants
<1>7. LET o == file.at IN
      /\ Image(o) = RamBase /\ Self(o) = RamBase + o /\ Reserved(o) = reserved
      /\ PluginFlag(o) = boot[3] /\ Word(BootAt(o)) = boot[1] /\ Word(BootAt(o) + 4) = boot[2]
  BY <1>1, <1>2, <1>3, <1>5, <1>6, IvtRead, SMTT(30)
<1> QED
  BY <1>4, <1>7 DEF reserved

-----------------------------------------------------------------------------
(* Reading what a plugin prepares the memory for.                           *)

LEMMA Beside ==
  ASSUME NEW f, NEW g, NEW o \in Nat, NEW ws, NEW n \in Nat, DOMAIN ws = 1..n, Holds(g, o, ws),
         \A k \in DOMAIN f : k \in Nat /\ (k < o \/ k >= o + 4 * n)
  PROVE  Holds(f ++ g, o, ws)
<1>1. ASSUME NEW i \in DOMAIN ws
      PROVE  o + 4 * (i - 1) \notin DOMAIN f
  <2>1. PICK k \in Nat : k = o + 4 * (i - 1) /\ o <= k /\ k < o + 4 * n
    OBVIOUS
  <2>2. ~(k < o) /\ ~(k >= o + 4 * n)
    BY <2>1
  <2>3. k \notin DOMAIN f
    BY <2>2, Zenon
  <2> QED
    BY <2>1, <2>3
<1> QED
  BY <1>1, OverHolds

\* Behind the image's IVT no word is that of HDMI firmware.
LEMMA HdmiBefore ==
  ASSUME NEW f, WellMade(f), NEW k \in DOMAIN Layout(f)
  PROVE  k \in DOMAIN MainWords(f) \/ (k \in Nat /\ k < f.at)
<1> SUFFICES ASSUME k \notin DOMAIN MainWords(f) PROVE k \in Nat /\ k < f.at
  OBVIOUS
<1>1. /\ f.at \in Nat /\ f.at % 256 = 0
      /\ \A g \in f.hdmi : g \in Nat /\ g % 256 = 0 /\ g < f.at
  BY Made
<1>2. PICK h \in f.hdmi : k \in DOMAIN HdmiWords(h)
  BY DEF Layout, ++
<1>3. k \in Nat /\ k < h + 48
  BY <1>1, <1>2, NoDcd, IvtWords DEF HdmiWords, Behind
<1>4. h + 256 <= f.at
  BY <1>1, More256
<1> QED
  BY <1>1, <1>3, <1>4

PayloadWords(f) ==
  IF f.kind = "legacy" THEN <<IH_MAGIC, 0, 0, 0, RamBase2, RamBase2 + 4>> ELSE <<FDT_MAGIC>>

LEMMA PayloadRead ==
  ASSUME Laid, file.kind \in {"legacy", "fit"}
  PROVE  LET o == PayloadOffset(file) IN
         /\ o \in Nat /\ o + LegacyHeader <= file.size
         /\ file.kind = "legacy" => Word(o) = IH_MAGIC /\ Word(o + 16) = RamBase2 /\ Word(o + 20) = RamBase2 + 4
         /\ file.kind = "fit" => Word(o) = FDT_MAGIC
<1> DEFINE o == PayloadOffset(file)
           ws == PayloadWords(file)
           a == IvtAt(file.at, file.sig, RamBase, PayloadAt, <<>>, PluginBoot(file))
<1>1. WellMade(file)
  BY LaidWell
<1>2. /\ file.size \in Nat /\ file.size < W /\ file.at \in Nat /\ file.at % 4 = 0
      /\ file.at + (o - file.at + LegacyHeader) <= file.size
  <2>1. file.at % 256 = 0 /\ file.at \in Nat
    BY <1>1, Made
  <2>2. file.at % 4 = 0
    BY <2>1, Fourth
  <2> QED
    BY <1>1, <2>2, Made DEF WellMade
<1>3. o = file.at + 1088
  BY <1>2 DEF PayloadOffset, PayloadAt, IVT_OFFSET_SD
<1>4. PICK p \in Nat, s \in Nat : p = file.at /\ s = file.size
  BY <1>2
<1>5. o = p + 1088 /\ o \in Nat /\ o + 64 <= s /\ p % 4 = 0
  BY <1>2, <1>3, <1>4 DEF LegacyHeader
<1>6. o % 4 = 0
  <2>1. 1088 = 4 * 272
    OBVIOUS
  <2>2. (p + 4 * 272) % 4 = 0
    BY <1>5, More4
  <2> QED
    BY <1>5, <2>1, <2>2
<1>7. MainWords(file) = a ++ At(o, ws)
  <2>1. CASE file.kind = "legacy"
    BY <2>1 DEF MainWords, PluginBoot, PayloadWords
  <2>2. CASE file.kind = "fit"
    BY <2>2 DEF MainWords, PluginBoot, PayloadWords
  <2> QED
    BY <2>1, <2>2
<1>8. \A k \in DOMAIN a : k \in Nat /\ k < file.at + 48
  BY <1>2, NoDcd, IvtWords DEF Behind
<1>9. /\ file.kind = "legacy" => DOMAIN ws = 1..6 /\ ws[1] = IH_MAGIC /\ ws[5] = RamBase2 /\ ws[6] = RamBase2 + 4
      /\ file.kind = "fit" => DOMAIN ws = 1..1 /\ ws[1] = FDT_MAGIC
  BY DEF PayloadWords
<1> HIDE DEF o, ws, a
<1>10. PICK n \in {1, 6} : DOMAIN ws = 1..n
  BY <1>9
<1>11. Holds(At(o, ws), o, ws)
  <2>1. DOMAIN ws \subseteq Nat \ {0}
    BY <1>10
  <2> QED
    BY <1>5, <2>1, AtWord
<1>12. Holds(words, o, ws)
  <2>1. \A k \in DOMAIN a : k \in Nat /\ (k < o \/ k >= o + 4 * n)
    BY <1>4, <1>5, <1>8
  <2>2. Holds(MainWords(file), o, ws)
    BY <1>5, <1>7, <1>10, <1>11, <2>1, Beside
  <2> QED
    BY <2>2, LayoutFirst DEF Laid
<1>13. ASSUME NEW i \in DOMAIN ws, NEW k \in Nat, k = o + 4 * (i - 1)
       PROVE  Word(k) = ws[i]
  <2>1. k < s /\ i \in Nat \ {0}
    BY <1>5, <1>10, <1>13
  <2> QED
    BY <1>2, <1>4, <1>5, <1>6, <1>12, <1>13, <2>1, WordHeld
<1>14. CASE file.kind = "legacy"
  <2>1. 1 \in DOMAIN ws /\ 5 \in DOMAIN ws /\ 6 \in DOMAIN ws
    BY <1>9, <1>14
  <2>2. Word(o) = ws[1] /\ Word(o + 16) = ws[5] /\ Word(o + 20) = ws[6]
    BY <1>5, <1>13, <2>1
  <2> QED
    BY <1>4, <1>5, <1>9, <1>14, <2>2 DEF o, LegacyHeader
<1>15. CASE file.kind = "fit"
  <2>1. 1 \in DOMAIN ws
    BY <1>9, <1>15
  <2>2. Word(o) = ws[1]
    BY <1>5, <1>13, <2>1
  <2> QED
    BY <1>4, <1>5, <1>9, <1>15, <2>2 DEF o, LegacyHeader
<1> QED
  BY <1>14, <1>15

\* The IVT behind a plugin is the first one there.
LEMMA SecondRead ==
  ASSUME Laid, file.kind = "ivt"
  PROVE  LET s == file.at + PluginBytes IN
         /\ s \in Nat /\ Word(s) \in {IVT, IVT2} /\ s < file.size /\ file.at + 256 <= file.size
         /\ Image(s) = RamBase2 /\ Self(s) = RamBase2 + s
         /\ Word(BootAt(s)) = RamBase2 + file.at - IVT_OFFSET_SD
         /\ \A d \in {32, 36, 40, 44, 48, 52, 56, 60} : Word(file.at + d) \notin {IVT, IVT2}
<1> DEFINE a == IvtAt(file.at, file.sig, RamBase, 0, <<>>, PluginBoot(file))
           second == <<RamBase2 + file.at - IVT_OFFSET_SD, file.size, 0>>
           b == IvtAt(file.at + PluginBytes, file.sig, RamBase2, 0, <<>>, second)
           ws == Twelve(file.at + PluginBytes, file.sig, RamBase2, 0, <<>>, second)
<1>1. WellMade(file) /\ Holds(words, file.at, FirstWords(file))
  BY LaidWell
<1>2. /\ file.size \in Nat /\ file.size < W /\ file.at \in Nat /\ file.at % 256 = 0
      /\ file.at + 256 <= file.size
  BY <1>1, Made
<1>3. file.sig \in {IVT, IVT2} /\ RamBase + file.at - IVT_OFFSET_SD \notin {IVT, IVT2}
  BY <1>1 DEF WellMade
<1>4. PICK p \in Nat, z \in Nat : p = file.at /\ z = file.size /\ p + 256 <= z /\ p % 4 = 0 /\ z < W
  BY <1>2, Fourth
<1>5. p + 64 \in Nat /\ (p + 64) % 4 = 0
  <2>1. (p + 4 * 16) % 4 = 0
    BY <1>4, More4
  <2> QED
    BY <2>1
<1>6. MainWords(file) = a ++ b
  BY DEF MainWords, PluginBoot
<1>7. \A k \in DOMAIN a : k \in Nat /\ k < p + 48
  BY <1>4, NoDcd, IvtWords DEF Behind
<1>8. file.at + PluginBytes = p + 64
  BY <1>4 DEF PluginBytes
<1>9. DOMAIN ws = 1..12
  BY DEF Twelve
<1>10. Holds(b, p + 64, ws) /\ \A k \in DOMAIN b : k \in Nat /\ k >= p + 64
  BY <1>5, <1>8, NoDcd, IvtWords DEF Behind
<1>11. second[1] = RamBase2 + file.at - IVT_OFFSET_SD
  OBVIOUS
<1>12. FirstWords(file) = Twelve(file.at, file.sig, RamBase, 0, <<>>, PluginBoot(file))
  BY DEF FirstWords
<1>13. /\ PluginBoot(file)[1] = RamBase + file.at - IVT_OFFSET_SD
       /\ PluginBoot(file)[2] = 64 /\ PluginBoot(file)[3] = 1
  BY DEF PluginBoot, PluginBytes
<1> HIDE DEF a, b, second
<1>14. Holds(words, p + 64, ws)
  <2>1. \A k \in DOMAIN a : k \in Nat /\ (k < p + 64 \/ k >= p + 64 + 4 * 12)
    BY <1>4, <1>7
  <2> HIDE DEF ws
  <2>2. Holds(MainWords(file), p + 64, ws)
    BY <1>5, <1>6, <1>9, <1>10, <2>1, Beside
  <2> QED
    BY <2>2, LayoutFirst DEF Laid
<1>15. RamBase \in Nat /\ RamBase2 \in Nat
  BY Constants
<1>16. /\ Word(p + 64) = file.sig /\ Image(p + 64) = RamBase2 /\ Self(p + 64) = RamBase2 + (p + 64)
       /\ Word(BootAt(p + 64)) = second[1]
  <2>1. Holds(words, p + 64, Twelve(p + 64, file.sig, RamBase2, 0, <<>>, second))
    BY <1>8, <1>14
  <2>2. p + 64 + 48 <= file.size
    BY <1>4
  <2> QED
    BY <1>2, <1>5, <1>15, <2>1, <2>2, IvtRead
<1>17. Word(p + 32) \notin {IVT, IVT2} /\ Word(p + 36) = 64 /\ Word(p + 40) = 1 /\ Word(p + 44) = 0
  <2>1. Holds(words, p, Twelve(p, file.sig, RamBase, 0, <<>>, PluginBoot(file)))
    BY <1>1, <1>4, <1>12
  <2>2. p + 48 <= file.size
    BY <1>4
  <2>3. PICK boot : boot = PluginBoot(file)
    OBVIOUS
  <2>4. Holds(words, p, Twelve(p, file.sig, RamBase, 0, <<>>, boot))
    BY <2>1, <2>3
  <2>5. Word(p + 32) = boot[1] /\ Word(p + 36) = boot[2] /\ Word(p + 40) = boot[3] /\ Word(p + 44) = 0
    <3>1. p \in Nat /\ p % 4 = 0 /\ file.size \in Nat /\ file.size < W
      BY <1>2, <1>4
    <3> QED
      BY <1>15, <2>2, <2>4, <3>1, IvtRead
  <2> QED
    BY <1>3, <1>13, <2>3, <2>5
<1>18. ASSUME NEW i \in {12, 13, 14, 15}, NEW k \in Nat, k = p + 4 * i
       PROVE  Word(k) = 0
  <2>1. p + 48 <= k /\ k < p + 64 /\ k < z
    BY <1>4, <1>18
  <2>2. k % 4 = 0
    BY <1>4, <1>18, More4
  <2>3. k \notin DOMAIN MainWords(file)
    <3>1. k \notin DOMAIN a /\ k \notin DOMAIN b
      <4>1. ~(k < p + 48) /\ ~(k >= p + 64)
        BY <2>1
      <4> QED
        BY <1>7, <1>10, <4>1, Zenon
    <3>2. DOMAIN (a ++ b) = DOMAIN a \cup DOMAIN b
      BY Over, Zenon
    <3> QED
      BY <1>6, <3>1, <3>2
  <2>4. ~(k < file.at)
    BY <1>4, <2>1
  <2>5. k \notin DOMAIN words
    BY <1>1, <2>3, <2>4, HdmiBefore DEF Laid
  <2>6. k < file.size
    BY <1>4, <2>1
  <2> QED
    BY <1>2, <2>2, <2>5, <2>6, WordAt
<1>19. Word(p + 48) = 0 /\ Word(p + 52) = 0 /\ Word(p + 56) = 0 /\ Word(p + 60) = 0
  <2>1. /\ p + 48 \in Nat /\ p + 48 = p + 4 * 12 /\ p + 52 \in Nat /\ p + 52 = p + 4 * 13
        /\ p + 56 \in Nat /\ p + 56 = p + 4 * 14 /\ p + 60 \in Nat /\ p + 60 = p + 4 * 15
    OBVIOUS
  <2> QED
    BY <1>18, <2>1
<1>20. 0 \notin {IVT, IVT2} /\ 1 \notin {IVT, IVT2} /\ 64 \notin {IVT, IVT2}
  BY DEF IVT, IVT2
<1>21. \A d \in {32, 36, 40, 44, 48, 52, 56, 60} : Word(p + d) \notin {IVT, IVT2}
  BY <1>17, <1>19, <1>20
<1>22. p + 64 < file.size
  BY <1>4
<1> QED
  BY <1>2, <1>3, <1>4, <1>5, <1>8, <1>11, <1>16, <1>21, <1>22

-----------------------------------------------------------------------------
(* Reading containers, of a file that begins with them.                     *)

LEMMA AtWithin ==
  ASSUME NEW o \in Nat, NEW ws, NEW n \in Nat, DOMAIN ws = 1..n
  PROVE  Holds(At(o, ws), o, ws) /\ \A k \in DOMAIN At(o, ws) : k \in Nat /\ o <= k /\ k < o + 4 * n
<1>1. DOMAIN ws \subseteq Nat \ {0}
  OBVIOUS
<1>2. Holds(At(o, ws), o, ws) /\ Solely(At(o, ws), o, ws)
  BY <1>1, AtWord
<1>3. ASSUME NEW k \in DOMAIN At(o, ws)
      PROVE  k \in Nat /\ o <= k /\ k < o + 4 * n
  <2>1. PICK i \in 1..n : k = o + 4 * (i - 1)
    BY <1>2 DEF Solely
  <2> QED
    BY <2>1
<1> QED
  BY <1>2, <1>3

ContainerHead(images) == <<Len(images), 0, 0, 0>>
ContainerRest(images) ==
  [i \in 1..10 * Len(images) |->
     LET im == images[(i - 1) \div 10 + 1]
     IN CASE i % 10 = 1 -> im.offset
          [] i % 10 = 3 -> im.addr
          [] i % 10 = 7 -> im.size
          [] OTHER      -> 0]

\* The words of the j-th image.
ImageWords(ws, j, im) ==
  /\ 10 * j + 1 \in DOMAIN ws /\ ws[10 * j + 1] = im.offset
  /\ 10 * j + 3 \in DOMAIN ws /\ ws[10 * j + 3] = im.addr
  /\ 10 * j + 7 \in DOMAIN ws /\ ws[10 * j + 7] = im.size

LEMMA RestWords ==
  ASSUME NEW images, Len(images) \in Nat, NEW j \in 0..Len(images) - 1
  PROVE  ImageWords(ContainerRest(images), j, images[j + 1])
<1>7. PICK r : r = ContainerRest(images)
  OBVIOUS
<1>1. j \in Nat /\ \A d \in {1, 3, 7} : 10 * j + d \in 1..10 * Len(images)
  OBVIOUS
<1>2. \A d \in {1, 3, 7} : (10 * j + d) % 10 = d /\ ((10 * j + d) - 1) \div 10 = j
  BY <1>1, Z3T(20)
<1>3. ASSUME NEW i \in 1..10 * Len(images), (i - 1) \div 10 = j
      PROVE  /\ i \in DOMAIN r
             /\ i % 10 = 1 => r[i] = images[j + 1].offset
             /\ i % 10 = 3 => r[i] = images[j + 1].addr
             /\ i % 10 = 7 => r[i] = images[j + 1].size
  BY <1>3, <1>7 DEF ContainerRest
<1>4. PICK x \in 1..10 * Len(images), y \in 1..10 * Len(images), z \in 1..10 * Len(images) :
        x = 10 * j + 1 /\ y = 10 * j + 3 /\ z = 10 * j + 7
  BY <1>1
<1>5. /\ x % 10 = 1 /\ (x - 1) \div 10 = j /\ y % 10 = 3 /\ (y - 1) \div 10 = j
      /\ z % 10 = 7 /\ (z - 1) \div 10 = j
  BY <1>2, <1>4
<1>6. /\ x \in DOMAIN r /\ r[x] = images[j + 1].offset /\ y \in DOMAIN r /\ r[y] = images[j + 1].addr
      /\ z \in DOMAIN r /\ r[z] = images[j + 1].size
  BY <1>3, <1>5
<1> QED
  BY <1>4, <1>6, <1>7 DEF ImageWords

LEMMA FewImages ==
  ASSUME NEW m \in 0..MaxImages
  PROVE  m \in Nat /\ 10 * m \in 0..40 /\ m <= 4
BY DEF MaxImages

LEMMA UptoForty == \A n \in 0..40 : n \in Nat /\ n <= 40
OBVIOUS

LEMMA ContainerHolds ==
  ASSUME NEW o \in Nat, NEW images, Len(images) \in 0..MaxImages,
         NEW p \in Nat, p = o + 16, NEW q \in Nat, q = o + 176
  PROVE  /\ Holds(ContainerAt(o, images), o, ContainerHead(images))
         /\ Holds(ContainerAt(o, images), p, ContainerRest(images))
         /\ DOMAIN ContainerHead(images) = 1..4 /\ DOMAIN ContainerRest(images) = 1..10 * Len(images)
         /\ \A k \in DOMAIN ContainerAt(o, images) : k \in Nat /\ o <= k /\ k < q
<1> DEFINE four == ContainerHead(images)
           rest == ContainerRest(images)
<1>1. DOMAIN four = 1..4
  BY DEF ContainerHead
<1>2. DOMAIN rest = 1..10 * Len(images)
  BY DEF ContainerRest
<1>3. ContainerAt(o, images) = At(o, four) ++ At(o + 16, rest)
  BY DEF ContainerAt, ContainerHead, ContainerRest
<1>4. PICK n \in 0..40 : n = 10 * Len(images)
  BY FewImages
<1>10. n \in Nat /\ n <= 40
  BY <1>4, UptoForty, Zenon
<1> HIDE DEF four, rest
<1>5. Holds(At(o, four), o, four) /\ \A k \in DOMAIN At(o, four) : k \in Nat /\ o <= k /\ k < o + 4 * 4
  BY <1>1, AtWithin
<1>6. /\ Holds(At(o + 16, rest), o + 16, rest)
      /\ \A k \in DOMAIN At(o + 16, rest) : k \in Nat /\ o + 16 <= k /\ k < o + 16 + 4 * n
  BY <1>2, <1>4, AtWithin
<1>7. Holds(ContainerAt(o, images), o, four)
  BY <1>3, <1>5, OverHolds
<1>8. Holds(ContainerAt(o, images), o + 16, rest)
  <2>1. \A k \in DOMAIN At(o, four) : k \in Nat /\ (k < o + 16 \/ k >= o + 16 + 4 * n)
    BY <1>5
  <2> QED
    BY <1>2, <1>3, <1>4, <1>6, <2>1, Beside
<1>9. ASSUME NEW k \in DOMAIN ContainerAt(o, images)
      PROVE  k \in Nat /\ o <= k /\ k < o + 176
  <2>1. DOMAIN (At(o, four) ++ At(o + 16, rest)) = DOMAIN At(o, four) \cup DOMAIN At(o + 16, rest)
    BY Over, Zenon
  <2>2. CASE k \in DOMAIN At(o, four)
    <3>1. k \in Nat /\ o <= k /\ k < o + 4 * 4
      BY <1>5, <2>2
    <3> QED
      BY <3>1
  <2>3. CASE k \in DOMAIN At(o + 16, rest)
    <3>1. k \in Nat /\ o + 16 <= k /\ k < o + 16 + 4 * n
      BY <1>6, <2>3
    <3> QED
      BY <1>10, <3>1
  <2> QED
    BY <1>3, <2>1, <2>2, <2>3
<1> QED
  BY <1>1, <1>2, <1>7, <1>8, <1>9 DEF four, rest

SecondAt(f) == IF f.sig = MX8_IVT2 THEN 128 ELSE 64
SecondWords(f) == <<f.sig, 0, 0, 0, RamBase + 400, 0, RamBase + SecondAt(f), 0>>

\* The five regions of a file of containers are read as they were written.
LEMMA MultiHeld ==
  ASSUME Laid, file.kind = "containers", file.at = 0
  PROVE  /\ Holds(words, 0, FirstWords(file)) /\ Holds(words, SecondAt(file), SecondWords(file))
         /\ \A c \in {1, 2} :
              LET o == IF c = 1 THEN 192 ELSE 400 IN
              /\ Holds(words, o, ContainerHead(file.containers[c]))
              /\ Holds(words, o + 16, ContainerRest(file.containers[c]))
<1> DEFINE second == SecondAt(file)
           a == At(0, FirstWords(file))
           b == At(640, DcdWords(file.dcd))
           c == At(second, SecondWords(file))
           d == ContainerAt(192, file.containers[1])
           e == ContainerAt(400, file.containers[2])
<1>1. WellMade(file) /\ Holds(words, file.at, FirstWords(file))
  BY LaidWell
<1>2. MainWords(file) = (a ++ b) ++ ((c ++ d) ++ e)
  <2>1. \A x \in {0, 192, 400, 640} : 0 + x = x /\ RamBase + 0 + x = RamBase + x /\ RamBase + 0 = RamBase
    BY Constants
  <2>2. FirstWords(file) =
          <<file.sig, 0, IF file.dcd = <<>> THEN 0 ELSE RamBase + file.at + 640, 0,
            RamBase + file.at + 192, 0, RamBase + file.at, 0, 0, 0, 128, 0>>
    BY DEF FirstWords
  <2>3. file.at + SecondAt(file) = SecondAt(file) /\ file.at + 640 = 640 /\ file.at + 192 = 192
        /\ file.at + 400 = 400 /\ RamBase + file.at + 400 = RamBase + 400
    BY Constants DEF SecondAt
  <2>4. MainWords(file) =
          (At(file.at, FirstWords(file)) ++ At(file.at + 640, DcdWords(file.dcd)))
          ++ ((At(file.at + SecondAt(file),
                  <<file.sig, 0, 0, 0, RamBase + file.at + 400, 0, RamBase + (file.at + SecondAt(file)), 0>>)
               ++ ContainerAt(file.at + 192, file.containers[1]))
              ++ ContainerAt(file.at + 400, file.containers[2]))
    BY <2>2 DEF MainWords, SecondAt
  <2> QED
    BY <2>3, <2>4 DEF SecondWords
<1>3. second \in {64, 128}
  BY DEF SecondAt
<1>4. DOMAIN FirstWords(file) = 1..11 \/ DOMAIN FirstWords(file) = 1..12
  BY DEF FirstWords
<1>5. DOMAIN SecondWords(file) = 1..8
  BY DEF SecondWords
<1> HIDE DEF second
<1>6. \A k \in DOMAIN a : k \in Nat /\ k < 48
  <2>1. PICK n \in {11, 12} : DOMAIN FirstWords(file) = 1..n
    BY <1>4
  <2>2. \A k \in DOMAIN a : k \in Nat /\ 0 <= k /\ k < 0 + 4 * n
    BY <2>1, AtWithin
  <2> QED
    BY <2>2
<1>7. \A k \in DOMAIN b : k \in Nat /\ k >= 640
  <2>1. DOMAIN DcdWords(file.dcd) \subseteq Nat \ {0}
    <3>1. file.dcd # <<>> => DcdWords(file.dcd) \in Seq(Nat)
      BY <1>1, Made
    <3> QED
      BY <3>1, NoDcd
  <2> QED
    BY <2>1, AtBehind DEF Behind
<1>8. Holds(c, second, SecondWords(file)) /\ \A k \in DOMAIN c : k \in Nat /\ 64 <= k /\ k < 160
  <2>1. Holds(c, second, SecondWords(file)) /\ \A k \in DOMAIN c : k \in Nat /\ second <= k /\ k < second + 4 * 8
    <3>1. second \in Nat /\ 8 \in Nat
      BY <1>3
    <3> QED
      BY <1>5, <3>1, AtWithin, Zenon
  <2> QED
    BY <1>3, <2>1
<1>9. \A i \in {1, 2} : Len(file.containers[i]) \in 0..MaxImages
  BY <1>1, ContainersOf
<1>10. /\ Holds(d, 192, ContainerHead(file.containers[1])) /\ Holds(d, 208, ContainerRest(file.containers[1]))
       /\ DOMAIN ContainerHead(file.containers[1]) = 1..4
       /\ DOMAIN ContainerRest(file.containers[1]) = 1..10 * Len(file.containers[1])
       /\ \A k \in DOMAIN d : k \in Nat /\ 192 <= k /\ k < 368
  <2>1. PICK o \in Nat, p \in Nat, q \in Nat : o = 192 /\ p = 208 /\ q = 368 /\ p = o + 16 /\ q = o + 176
    OBVIOUS
  <2>2. PICK images : images = file.containers[1]
    OBVIOUS
  <2>3. Len(images) \in 0..MaxImages
    BY <1>9, <2>2
  <2>4. /\ Holds(ContainerAt(o, images), o, ContainerHead(images))
        /\ Holds(ContainerAt(o, images), p, ContainerRest(images))
        /\ DOMAIN ContainerHead(images) = 1..4 /\ DOMAIN ContainerRest(images) = 1..10 * Len(images)
        /\ \A k \in DOMAIN ContainerAt(o, images) : k \in Nat /\ o <= k /\ k < q
    BY <2>1, <2>3, ContainerHolds, SMTT(30)
  <2>5. d = ContainerAt(o, images)
    BY <2>1, <2>2
  <2> HIDE DEF d
  <2> QED
    BY <2>1, <2>2, <2>4, <2>5
<1>11. /\ Holds(e, 400, ContainerHead(file.containers[2])) /\ Holds(e, 416, ContainerRest(file.containers[2]))
       /\ DOMAIN ContainerHead(file.containers[2]) = 1..4
       /\ DOMAIN ContainerRest(file.containers[2]) = 1..10 * Len(file.containers[2])
       /\ \A k \in DOMAIN e : k \in Nat /\ 400 <= k /\ k < 576
  <2>1. PICK o \in Nat, p \in Nat, q \in Nat : o = 400 /\ p = 416 /\ q = 576 /\ p = o + 16 /\ q = o + 176
    OBVIOUS
  <2>2. PICK images : images = file.containers[2]
    OBVIOUS
  <2>3. Len(images) \in 0..MaxImages
    BY <1>9, <2>2
  <2>4. /\ Holds(ContainerAt(o, images), o, ContainerHead(images))
        /\ Holds(ContainerAt(o, images), p, ContainerRest(images))
        /\ DOMAIN ContainerHead(images) = 1..4 /\ DOMAIN ContainerRest(images) = 1..10 * Len(images)
        /\ \A k \in DOMAIN ContainerAt(o, images) : k \in Nat /\ o <= k /\ k < q
    BY <2>1, <2>3, ContainerHolds, SMTT(30)
  <2>5. e = ContainerAt(o, images)
    BY <2>1, <2>2
  <2> HIDE DEF e
  <2> QED
    BY <2>1, <2>2, <2>4, <2>5
<1> HIDE DEF a, b, c, d, e
<1>12. \A k \in DOMAIN (a ++ b) : k \in Nat /\ (k < 48 \/ k >= 640)
  <2>1. DOMAIN (a ++ b) = DOMAIN a \cup DOMAIN b
    BY Over, Zenon
  <2> QED
    BY <1>6, <1>7, <2>1
<1>13. \A k \in DOMAIN (c ++ d) : k \in Nat /\ k < 368
  <2>1. DOMAIN (c ++ d) = DOMAIN c \cup DOMAIN d
    BY Over, Zenon
  <2> QED
    BY <1>8, <1>10, <2>1
<1>14. ASSUME NEW o \in Nat, NEW ws, NEW n \in Nat, DOMAIN ws = 1..n, o > 47, 4 * n <= 640 - o,
              Holds((c ++ d) ++ e, o, ws)
       PROVE  Holds(words, o, ws)
  <2>1. \A k \in DOMAIN (a ++ b) : k \in Nat /\ (k < o \/ k >= o + 4 * n)
    BY <1>12, <1>14
  <2>2. Holds(MainWords(file), o, ws)
    BY <1>2, <1>14, <2>1, Beside
  <2> QED
    BY <2>2, LayoutFirst DEF Laid
<1>15. Holds(words, second, SecondWords(file))
  <2>1. Holds((c ++ d) ++ e, second, SecondWords(file))
    BY <1>8, OverHolds
  <2>2. second \in Nat /\ second > 47 /\ 4 * 8 <= 640 - second
    BY <1>3
  <2> QED
    BY <1>5, <1>14, <2>1, <2>2
<1>16. ASSUME NEW o \in Nat, NEW ws, NEW n \in Nat, DOMAIN ws = 1..n, o > 191, 4 * n <= 640 - o,
              Holds(d, o, ws)
       PROVE  Holds(words, o, ws)
  <2>1. \A k \in DOMAIN c : k \in Nat /\ (k < o \/ k >= o + 4 * n)
    BY <1>8, <1>16
  <2>2. Holds(c ++ d, o, ws)
    BY <1>16, <2>1, Beside
  <2>3. Holds((c ++ d) ++ e, o, ws)
    BY <2>2, OverHolds
  <2> QED
    BY <1>14, <1>16, <2>3
<1>17. ASSUME NEW o \in Nat, NEW ws, NEW n \in Nat, DOMAIN ws = 1..n, o > 399, 4 * n <= 640 - o,
              Holds(e, o, ws)
       PROVE  Holds(words, o, ws)
  <2>1. \A k \in DOMAIN (c ++ d) : k \in Nat /\ (k < o \/ k >= o + 4 * n)
    BY <1>13, <1>17
  <2>2. Holds((c ++ d) ++ e, o, ws)
    BY <1>17, <2>1, Beside
  <2> QED
    BY <1>14, <1>17, <2>2
<1>18. PICK n1 \in 0..40, n2 \in 0..40 : n1 = 10 * Len(file.containers[1]) /\ n2 = 10 * Len(file.containers[2])
  <2>1. Len(file.containers[1]) \in 0..MaxImages /\ Len(file.containers[2]) \in 0..MaxImages
    BY <1>9
  <2> QED
    BY <2>1, FewImages
<1>22. n1 \in Nat /\ n1 <= 40 /\ n2 \in Nat /\ n2 <= 40
  BY <1>18, UptoForty, Zenon
<1>19. Holds(words, 192, ContainerHead(file.containers[1])) /\ Holds(words, 400, ContainerHead(file.containers[2]))
  <2>1. 192 \in Nat /\ 400 \in Nat /\ 4 \in Nat /\ 192 > 191 /\ 400 > 399
        /\ 4 * 4 <= 640 - 192 /\ 4 * 4 <= 640 - 400
    OBVIOUS
  <2>2. Holds(words, 192, ContainerHead(file.containers[1]))
    <3>1. PICK o \in Nat : o = 192
      OBVIOUS
    <3>2. o > 191 /\ 4 * 4 <= 640 - o /\ Holds(d, o, ContainerHead(file.containers[1]))
      BY <1>10, <3>1
    <3>3. PICK n \in Nat : DOMAIN ContainerHead(file.containers[1]) = 1..n /\ 4 * n <= 640 - o
      BY <1>10, <3>2
    <3>4. Holds(words, o, ContainerHead(file.containers[1]))
      BY <1>16, <3>2, <3>3
    <3> QED
      BY <3>1, <3>4
  <2>3. Holds(words, 400, ContainerHead(file.containers[2]))
    <3>1. PICK o \in Nat : o = 400
      OBVIOUS
    <3>2. o > 399 /\ 4 * 4 <= 640 - o /\ Holds(e, o, ContainerHead(file.containers[2]))
      BY <1>11, <3>1
    <3>3. PICK n \in Nat : DOMAIN ContainerHead(file.containers[2]) = 1..n /\ 4 * n <= 640 - o
      BY <1>11, <3>2
    <3>4. Holds(words, o, ContainerHead(file.containers[2]))
      BY <1>17, <3>2, <3>3
    <3> QED
      BY <3>1, <3>4
  <2> QED
    BY <2>2, <2>3
<1>20. Holds(words, 208, ContainerRest(file.containers[1]))
  <2>1. 208 \in Nat /\ n1 \in Nat /\ 208 > 191 /\ 4 * n1 <= 640 - 208
    BY <1>22
  <2>2. DOMAIN ContainerRest(file.containers[1]) = 1..n1
    BY <1>10, <1>18
  <2> QED
    BY <1>10, <1>16, <2>1, <2>2, ZenonT(20)
<1>21. Holds(words, 416, ContainerRest(file.containers[2]))
  <2>1. 416 \in Nat /\ n2 \in Nat /\ 416 > 399 /\ 4 * n2 <= 640 - 416
    BY <1>22
  <2>2. DOMAIN ContainerRest(file.containers[2]) = 1..n2
    BY <1>11, <1>18
  <2> QED
    BY <1>11, <1>17, <2>1, <2>2, SMTT(30)
<1> QED
  BY <1>1, <1>15, <1>19, <1>20, <1>21 DEF second

LEMMA Small1024 ==
  ASSUME NEW s, s \in Nat, 1024 <= s, s < W
  PROVE  \A k \in Nat : k < 1024 => k < s /\ k \in 0..W - 1 /\ k % W = k
<1>1. \A k \in Nat : k < 1024 => k < s /\ k \in 0..W - 1
  BY Constants
<1> QED
  BY <1>1, SmallMod

\* What is at info says where the image im is and goes.
Describes(info, im) == Word(info) = im.offset /\ Word(info + 8) = im.addr /\ Word(info + 24) = im.size

\* What the headers of the containers say, and what they say of each image.
LEMMA MultiRead ==
  ASSUME Laid, file.kind = "containers", file.at = 0
  PROVE  /\ Word(0) = file.sig /\ SelfV2(0) = RamBase
         /\ BootAtV2(0) = 192 /\ NrImages(0) = Len(file.containers[1])
         /\ IvtTwo(0) = SecondAt(file)
         /\ BootAtV2(SecondAt(file)) = 400 /\ NrImages(SecondAt(file)) = Len(file.containers[2])
         /\ \A c \in {1, 2}, j \in 0..3 :
              j < Len(file.containers[c]) =>
                Describes(16 + ((IF c = 1 THEN 192 ELSE 400) + 40 * j), file.containers[c][j + 1])
<1>1. WellMade(file)
  BY LaidWell
<1>2. file.size \in Nat /\ file.size < W /\ 1024 <= file.size
  <2>1. file.at + 1024 <= file.size
    BY <1>1 DEF WellMade
  <2>2. file.size \in Nat /\ file.size < W
    BY <1>1, Made
  <2> QED
    BY <2>1, <2>2
<1>3. \A k \in Nat : k < 1024 => k < file.size /\ k \in 0..W - 1 /\ k % W = k
  BY <1>2, Small1024
<1>5. /\ Holds(words, 0, FirstWords(file)) /\ Holds(words, SecondAt(file), SecondWords(file))
      /\ \A c \in {1, 2} :
           LET o == IF c = 1 THEN 192 ELSE 400 IN
           /\ Holds(words, o, ContainerHead(file.containers[c]))
           /\ Holds(words, o + 16, ContainerRest(file.containers[c]))
  BY MultiHeld
<1>6. PICK base \in Nat : base = RamBase
  BY Constants
<1>7. Word(0) = file.sig /\ Word(16) = base + 192 /\ Word(24) = base /\ Word(40) = 128
  <2> DEFINE ws == FirstWords(file)
  <2>1. /\ 1 \in DOMAIN ws /\ 5 \in DOMAIN ws /\ 7 \in DOMAIN ws /\ 11 \in DOMAIN ws
        /\ ws[1] = file.sig /\ ws[5] = RamBase + file.at + 192 /\ ws[7] = RamBase + file.at /\ ws[11] = 128
    BY DEF FirstWords
  <2>2. RamBase + file.at + 192 = base + 192 /\ RamBase + file.at = base
    BY <1>6
  <2> HIDE DEF ws
  <2>3. Holds(words, 0, ws)
    BY <1>5 DEF ws
  <2>4. ASSUME NEW i \in DOMAIN ws, i \in {1, 5, 7, 11}, NEW k \in Nat, k < 1024, k = 4 * (i - 1)
        PROVE  Word(k) = ws[i]
    <3>1. PICK o \in Nat : o = 0 /\ o % 4 = 0 /\ k = o + 4 * (i - 1)
      BY <2>4
    <3>2. i \in Nat \ {0} /\ Holds(words, o, ws)
      BY <2>3, <2>4, <3>1
    <3>3. o \in Nat /\ o % 4 = 0 /\ k \in Nat /\ k < 1024 /\ k = o + 4 * (i - 1) /\ i \in DOMAIN ws
      BY <2>4, <3>1
    <3>4. k \in Nat /\ k < file.size
      BY <1>3, <2>4
    <3> QED
      BY <1>2, <3>2, <3>3, <3>4, WordHeld
  <2>5. Word(0) = ws[1] /\ Word(16) = ws[5] /\ Word(24) = ws[7] /\ Word(40) = ws[11]
    BY <2>1, <2>4
  <2> QED
    BY <2>1, <2>2, <2>5
<1>8. PICK second \in {64, 128} : second = SecondAt(file)
  BY DEF SecondAt
<1>9. Word(second + 16) = base + 400 /\ Word(second + 24) = base + second
  <2> DEFINE ws == SecondWords(file)
  <2>1. 5 \in DOMAIN ws /\ 7 \in DOMAIN ws /\ ws[5] = base + 400 /\ ws[7] = base + second
    BY <1>6, <1>8 DEF SecondWords
  <2> HIDE DEF ws
  <2>2. Holds(words, second, ws) /\ second \in Nat /\ second % 4 = 0
    BY <1>5, <1>8 DEF ws
  <2>3. ASSUME NEW i \in DOMAIN ws, i \in {5, 7}, NEW k \in Nat, k < 1024, k = second + 4 * (i - 1)
        PROVE  Word(k) = ws[i]
    <3>1. i \in Nat \ {0}
      BY <2>3
    <3>2. k \in Nat /\ k < file.size
      BY <1>3, <2>3
    <3> QED
      BY <1>2, <2>2, <2>3, <3>1, <3>2, WordHeld
  <2>4. /\ second + 16 \in Nat /\ second + 16 < 1024 /\ second + 16 = second + 4 * (5 - 1)
        /\ second + 24 \in Nat /\ second + 24 < 1024 /\ second + 24 = second + 4 * (7 - 1)
    BY <1>8
  <2>5. Word(second + 16) = ws[5] /\ Word(second + 24) = ws[7]
    BY <2>1, <2>3, <2>4
  <2> QED
    BY <2>1, <2>5
<1>10. SelfV2(0) = RamBase /\ BootAtV2(0) = 192
  <2>1. SelfV2(0) = base
    BY <1>7 DEF SelfV2
  <2>2. ((base + 192) - base) % W = 192
    <3>1. PICK n \in Nat : n < 1024 /\ n = 192
      OBVIOUS
    <3>2. (base + 192) - base = n
      BY <3>1
    <3> QED
      BY <1>3, <3>1, <3>2
  <2>3. BootAtV2(0) = 0 + (192 \div 4) * 4
    BY <1>7, <2>1, <2>2 DEF BootAtV2, Place
  <2> QED
    BY <1>6, <2>1, <2>3
<1>11. BootAtV2(second) = 400
  <2>1. SelfV2(second) = base + second
    BY <1>9 DEF SelfV2
  <2>2. ((base + 400) - (base + second)) % W = 400 - second
    <3>1. PICK n \in Nat : n < 1024 /\ n = 400 - second
      BY <1>8
    <3>2. (base + 400) - (base + second) = n
      BY <1>8, <3>1
    <3>3. n % W = n
      BY <1>3, <3>1
    <3> QED
      BY <3>1, <3>2, <3>3
  <2>3. BootAtV2(second) = second + ((400 - second) \div 4) * 4
    BY <1>9, <2>1, <2>2 DEF BootAtV2, Place
  <2> QED
    BY <1>8, <2>3
<1>12. IvtTwo(0) = SecondAt(file)
  <2>1. IvtTwo(0) = IF Word(0) = MX8_IVT2 THEN 4 * 0 + (128 \div 4) * 4 ELSE 0 + 64
    BY <1>7 DEF IvtTwo
  <2>2. 4 * 0 + (128 \div 4) * 4 = 128 /\ 0 + 64 = 64
    OBVIOUS
  <2> QED
    BY <1>7, <2>1, <2>2 DEF SecondAt
<1>13. ASSUME NEW c \in {1, 2}, NEW o \in {192, 400}, o = IF c = 1 THEN 192 ELSE 400
       PROVE  Word(o) = Len(file.containers[c])
  <2> DEFINE ws == ContainerHead(file.containers[c])
  <2>1. 1 \in DOMAIN ws /\ ws[1] = Len(file.containers[c])
    BY DEF ContainerHead
  <2> HIDE DEF ws
  <2>2. Holds(words, o, ws)
    BY <1>5, <1>13 DEF ws
  <2>3. PICK i \in Nat \ {0} : i = 1 /\ o = o + 4 * (i - 1)
    OBVIOUS
  <2>4. o \in Nat /\ o % 4 = 0 /\ o \in Nat /\ o < 1024 /\ i \in DOMAIN ws
    BY <2>1, <2>3
  <2>5. o < file.size
    BY <1>3, <2>4
  <2>6. Word(o) = ws[i]
    BY <1>2, <2>2, <2>3, <2>4, <2>5, WordHeld
  <2> QED
    BY <2>1, <2>3, <2>6
<1>14. ASSUME NEW c \in {1, 2}, NEW j \in 0..3, j < Len(file.containers[c])
       PROVE  Describes(16 + ((IF c = 1 THEN 192 ELSE 400) + 40 * j), file.containers[c][j + 1])
  <2>10. PICK o, info : o \in {192, 400} /\ o = (IF c = 1 THEN 192 ELSE 400) /\ info = 16 + (o + 40 * j)
    OBVIOUS
  <2>1. PICK images : images = file.containers[c]
    OBVIOUS
  <2>2. PICK ws : ws = ContainerRest(images)
    OBVIOUS
  <2>3. Len(images) \in Nat /\ j \in 0..Len(images) - 1
    <3>1. PICK n \in 0..MaxImages : n = Len(images)
      BY <1>1, <2>1, ContainersOf, Zenon
    <3>2. n \in Nat
      BY FewImages
    <3> QED
      BY <1>14, <2>1, <3>1, <3>2
  <2>4. ImageWords(ws, j, images[j + 1])
    BY <2>2, <2>3, RestWords
  <2>5. PICK p \in {208, 416} : p = o + 16
    BY <2>10
  <2>6. Holds(words, p, ws) /\ p \in Nat /\ p % 4 = 0
    BY <1>5, <2>10, <2>1, <2>2, <2>5
  <2>7. \A d \in {1, 3, 7}, k \in Nat :
          10 * j + d \in DOMAIN ws /\ k < 1024 /\ k = info + 4 * (d - 1) => Word(k) = ws[10 * j + d]
    <3> SUFFICES ASSUME NEW d \in {1, 3, 7}, NEW k \in Nat, k < 1024,
                        10 * j + d \in DOMAIN ws, k = info + 4 * (d - 1)
                 PROVE  Word(k) = ws[10 * j + d]
      OBVIOUS
    <3>1. PICK i \in Nat \ {0} : i = 10 * j + d
      OBVIOUS
    <3>2. k = p + 4 * (i - 1)
      BY <2>10, <2>5, <3>1
    <3>3. i \in DOMAIN ws /\ Holds(words, p, ws) /\ p \in Nat /\ p % 4 = 0
      BY <2>6, <3>1
    <3>4. k \in Nat /\ k < file.size
      BY <1>3
    <3>5. Word(k) = ws[i]
      BY <1>2, <3>2, <3>3, <3>4, WordHeld
    <3> QED
      BY <3>1, <3>5
  <2>8. /\ info \in Nat /\ info < 1024 /\ info = info + 4 * (1 - 1) /\ info + 8 \in Nat /\ info + 8 < 1024 /\ info + 8 = info + 4 * (3 - 1)
        /\ info + 24 \in Nat /\ info + 24 < 1024 /\ info + 24 = info + 4 * (7 - 1)
    BY <2>10
  <2>9. Word(info) = ws[10 * j + 1] /\ Word(info + 8) = ws[10 * j + 3] /\ Word(info + 24) = ws[10 * j + 7]
    <3>1. 1 \in {1, 3, 7} /\ 3 \in {1, 3, 7} /\ 7 \in {1, 3, 7}
      OBVIOUS
    <3>2. PICK a, b, d, x \in Nat, y \in Nat, z \in Nat :
            a = 10 * j + 1 /\ b = 10 * j + 3 /\ d = 10 * j + 7 /\ x = info /\ y = info + 8 /\ z = info + 24
      BY <2>8
    <3>3. Word(x) = ws[a]
      BY <2>4, <2>7, <2>8, <3>1, <3>2 DEF ImageWords
    <3>4. Word(y) = ws[b]
      BY <2>4, <2>7, <2>8, <3>1, <3>2 DEF ImageWords
    <3>5. Word(z) = ws[d]
      BY <2>4, <2>7, <2>8, <3>1, <3>2 DEF ImageWords
    <3> QED
      BY <3>2, <3>3, <3>4, <3>5
  <2> QED
    BY <2>1, <2>4, <2>9, <2>10 DEF Describes, ImageWords
<1>15. NrImages(0) = Len(file.containers[1]) /\ NrImages(second) = Len(file.containers[2])
  <2>1. Word(192) = Len(file.containers[1]) /\ Word(400) = Len(file.containers[2])
    BY <1>13
  <2> QED
    BY <1>10, <1>11, <2>1 DEF NrImages
<1> QED
  BY <1>7, <1>8, <1>10, <1>11, <1>12, <1>14, <1>15

-----------------------------------------------------------------------------
(* How far a run has come.                                                  *)

Loaded(n) == n \in 0..Len(Asked(file)) /\ loads = Upto(Asked(file), n)

\* The entry after n loadables.
EntryUpto(n) ==
  LET with == {i \in 1..n : FitImageOf(file, "loadables", i).entry # NoEntry}
  IN IF with = {} THEN RamBase ELSE FitImageOf(file, "loadables", Max(with)).entry

\* All but the last part is there, and the parameters are those of the last.
LastIsNext ==
  LET n == Len(Asked(file)) IN
  /\ file.kind \in {"code", "ivt", "legacy"} /\ Loaded(n - 1)
  /\ Asked(file)[n] = Load(par.CodeOffset, (file.size - par.CodeOffset) % W, par.PhyRAMAddr4KRL)
  /\ par.ExecutingAddr = EntryOf(file)

PluginIsNext ==
  file.kind \in {"ivt", "legacy", "fit"} /\ par.ExecutingAddr = RamBase

FitIsNext(n, entries) ==
  /\ file.kind = "fit" /\ Loaded(n)
  /\ par.CodeOffset = PayloadOffset(file) /\ par.ExecutingAddr = EntryUpto(entries)

Runs ==
  /\ pc \in {"search", "headers", "containers", "plugin", "payload", "dcd", "load", "firmware", "fdt",
            "loadables", "multiDcd", "initial", "images", "done", "failed"}
  /\ {"CodeOffset", "ExecutingAddr"} \subseteq DOMAIN par
  /\ pc \in {"search", "headers", "containers", "plugin", "multiDcd", "initial"} => Loaded(0)
  /\ pc \notin {"loadables", "images", "done", "failed"} => next = 0
  /\ pc \in {"plugin", "payload"} => PluginIsNext
  /\ pc = "payload" => Loaded(1)
  /\ pc \in {"dcd", "load"} => LastIsNext
  /\ pc = "firmware" => FitIsNext(1, 0)
  /\ pc = "fdt" => FitIsNext(2, 0)
  /\ pc = "loadables" => next \in 0..Loadables(file) /\ FitIsNext(3 + next, next)
  /\ pc \in {"multiDcd", "initial", "images"} => file.kind = "containers"
  /\ pc = "images" => next \in 0..Len(ImagesOf(file)) /\ Loaded(1 + next)
  /\ pc = "done" => Loaded(Len(Asked(file))) /\ par.ExecutingAddr = EntryOf(file)
  /\ pc = "failed" => \E n \in 0..Len(Asked(file)) : Loaded(n)

RunInv == HasImage /\ IvtFirst(file) => Runs

LEMMA AskedOf ==
  ASSUME Laid
  PROVE  /\ \E S : Asked(file) \in Seq(S)
         /\ Len(Asked(file)) \in Nat
         /\ file.kind = "code" => Len(Asked(file)) = 1
         /\ file.kind \in {"ivt", "legacy"} => Len(Asked(file)) = 2
         /\ file.kind = "fit" => Loadables(file) \in Nat /\ Len(Asked(file)) = 3 + Loadables(file)
         /\ file.kind = "containers" => Len(Asked(file)) = 1 + Len(ImagesOf(file))
<1>1. WellMade(file) /\ file.kind \in {"code", "ivt", "legacy", "fit", "containers"}
  BY LaidWell, Made
<1>2. CASE file.kind = "code"
  BY <1>2, AskedCode DEF Sequence
<1>3. CASE file.kind \in {"ivt", "legacy"}
  BY <1>3, AskedBehind DEF Sequence
<1>4. CASE file.kind = "fit"
  <2>1. Loadables(file) \in Nat
    <3>1. Loadables(file) \in 0..MaxLoadables - 1
      BY <1>1, <1>4 DEF WellMade, Loadables
    <3>2. MaxLoadables \in Nat
      BY ImagesAssumption
    <3> QED
      BY <3>1, <3>2
  <2>2. Sequence(Asked(file), 3 + Loadables(file))
    BY <1>4, <2>1, AskedFit
  <2> QED
    BY <1>4, <2>1, <2>2 DEF Sequence
<1>5. CASE file.kind = "containers"
  BY <1>1, <1>5, AskedContainers DEF Sequence
<1> QED
  BY <1>1, <1>2, <1>3, <1>4, <1>5

LEMMA LoadedNone ==
  ASSUME Laid
  PROVE  Loaded(0) <=> loads = <<>>
<1>1. PICK S : Asked(file) \in Seq(S)
  BY AskedOf
<1>2. Upto(Asked(file), 0) = <<>> /\ 0 \in 0..Len(Asked(file))
  BY <1>1, UptoEnds
<1> QED
  BY <1>2 DEF Loaded

\* The files do not change.
LEMMA SameFile ==
  ASSUME UNCHANGED file
  PROVE  /\ Asked(file)' = Asked(file) /\ EntryOf(file)' = EntryOf(file)
         /\ Loadables(file)' = Loadables(file) /\ ImagesOf(file)' = ImagesOf(file)
         /\ PayloadOffset(file)' = PayloadOffset(file)
         /\ \A n : EntryUpto(n)' = EntryUpto(n)
<1>1. Asked(file)' = Asked(file)
  BY DEF Asked, SCUViewAddr
<1>2. \A n : EntryUpto(n)' = EntryUpto(n)
  BY DEF EntryUpto
<1> QED
  BY <1>1, <1>2

\* One part more.
LEMMA LoadedMore ==
  ASSUME Laid, UNCHANGED file, NEW n \in Nat, n < Len(Asked(file)), Loaded(n),
         loads' = Append(loads, Asked(file)[n + 1])
  PROVE  Loaded(n + 1)'
<1>1. PICK S : Asked(file) \in Seq(S)
  BY AskedOf
<1>2. Len(Asked(file)) \in Nat
  BY AskedOf
<1>3. n \in 0..Len(Asked(file)) - 1 /\ n + 1 \in 0..Len(Asked(file))
  BY <1>2
<1>4. loads' = Upto(Asked(file), n + 1)
  BY <1>1, <1>3, UptoMore DEF Loaded
<1> QED
  BY <1>3, <1>4, SameFile DEF Loaded

LEMMA LoadedSame ==
  ASSUME UNCHANGED <<file, loads>>, NEW n
  PROVE  Loaded(n)' <=> Loaded(n)
BY SameFile DEF Loaded

-----------------------------------------------------------------------------
(* Every step of a run.                                                     *)

\* A file whose parts are where the code looks for them, before a step; the IVT found.
Ready == Laid /\ IvtFirst(file) /\ (file.kind = "fit" => FindsTheNamed) /\ Searches

LEMMA LastPrimed ==
  ASSUME UNCHANGED file, NEW n, n = Len(Asked(file)), Loaded(n - 1)', file.kind \in {"code", "ivt", "legacy"},
         Asked(file)[n] = Load(par'.CodeOffset, (file.size - par'.CodeOffset) % W, par'.PhyRAMAddr4KRL),
         par'.ExecutingAddr = EntryOf(file)
  PROVE  LastIsNext'
BY SameFile DEF LastIsNext

LEMMA SmallSize ==
  ASSUME Laid
  PROVE  /\ file.size \in Nat /\ file.size < W /\ file.size % W = file.size /\ (file.size - 0) % W = file.size
         /\ 0 % W = 0 /\ 256 <= file.size /\ file.at \in Nat
<1>1. /\ file.size \in Nat /\ file.size < W /\ file.at \in Nat /\ file.at + 256 <= file.size
  BY LaidWell, Made
<1>2. PICK s \in Nat, a \in Nat : s = file.size /\ s < W /\ a = file.at /\ a + 256 <= s
  BY <1>1
<1>3. s \in 0..W - 1 /\ 0 \in 0..W - 1 /\ s - 0 = s /\ 256 <= s
  BY <1>2, Constants
<1>4. s % W = s /\ 0 % W = 0
  BY <1>3, SmallMod
<1> QED
  BY <1>2, <1>3, <1>4

LEMMA RunsSearch ==
  ASSUME Ready, Runs, FindIvt
  PROVE  Runs'
<1>1. pc = "search" /\ pc' = "headers" /\ UNCHANGED <<file, par, next, loads>>
  BY DEF FindIvt, Parses, Goes
<1>2. Loaded(0)'
  BY <1>1, LoadedSame DEF Runs
<1> QED
  BY <1>1, <1>2 DEF Runs

LEMMA RunsHeaders ==
  ASSUME Ready, Runs, ReadHeaders
  PROVE  Runs'
<1> DEFINE o == ImgIVTOffset
           phys == (Self(o) - o) % W
<1>1. /\ pc = "headers" /\ UNCHANGED <<file, next, loads>>
      /\ par' = [PhyRAMAddr4KRL |-> phys, CodeOffset |-> (Image(o) - phys) % W,
                 ExecutingAddr |-> Image(o), pIVT |-> Self(o)]
      /\ \/ PluginFlag(o) \notin {0, 1} /\ pc' = "search"
         \/ PluginFlag(o) \in {0, 1} /\ pc' = (CASE PluginFlag(o) = 1 \/ Reserved(o) # 0 -> "plugin"
                      [] PluginFlag(o) = 0 /\ Reserved(o) = 0 /\ DCDAddress(o) # 0 -> "dcd"
                      [] OTHER -> "load")
  BY DEF ReadHeaders, Parses, Goes
<1> HIDE DEF phys
<1>2. /\ {"CodeOffset", "ExecutingAddr"} \subseteq DOMAIN par'
      /\ par'.PhyRAMAddr4KRL = phys /\ par'.CodeOffset = (Image(o) - phys) % W /\ par'.ExecutingAddr = Image(o)
  BY <1>1
<1>3. Loaded(0)' /\ next' = 0
  BY <1>1, LoadedSame DEF Runs
<1>4. CASE PluginFlag(o) \notin {0, 1}
  <2>1. pc' = "search"
    BY <1>1, <1>4
  <2> QED
    BY <1>2, <1>3, <2>1 DEF Runs
<1>5. CASE PluginFlag(o) \in {0, 1}
  <2>1. Laid /\ file.kind # "containers" /\ o \in file.hdmi \cup {file.at}
    BY <1>1 DEF Ready, Searches
  <2>2. o = file.at
    BY <1>5, <2>1, AtHdmi
  <2>3. /\ Image(o) = RamBase /\ Self(o) = RamBase + o
        /\ Reserved(o) = IF file.kind \in {"legacy", "fit"} THEN PayloadAt ELSE 0
        /\ PluginFlag(o) = IF file.kind = "code" THEN 0 ELSE 1
    BY <2>1, <2>2, SingleRead
  <2>4. par'.ExecutingAddr = RamBase
    BY <1>2, <2>3
  <2>5. CASE file.kind = "code"
    <3>1. pc' \in {"dcd", "load"}
      BY <1>1, <1>5, <2>3, <2>5
    <3>2. phys = RamBase /\ (Image(o) - phys) % W = 0
      <4>1. PICK base \in 0..W - 1, a \in Nat : base = RamBase /\ a = o
        BY <2>1, <2>2, Constants, SmallSize
      <4>2. (base + a) - a = base /\ base - base = 0
        BY <4>1, Constants
      <4>3. base % W = base /\ 0 % W = 0
        BY <2>1, <4>1, SmallMod, SmallSize
      <4> QED
        BY <2>3, <4>1, <4>2, <4>3 DEF phys
    <3>3. Len(Asked(file)) = 1 /\ Asked(file)[1] = Load(0, file.size, RamBase)
      BY <2>5, AskedCode DEF Sequence
    <3>4. (file.size - 0) % W = file.size
      BY <2>1, SmallSize
    <3>5. PICK n : n = 1
      OBVIOUS
    <3>6. Asked(file)[n] = Load(par'.CodeOffset, (file.size - par'.CodeOffset) % W, par'.PhyRAMAddr4KRL)
      BY <1>2, <3>2, <3>3, <3>4, <3>5
    <3>7. EntryOf(file) = RamBase
      BY <2>5 DEF EntryOf
    <3>8. n - 1 = 0 /\ n = Len(Asked(file)) /\ file.kind \in {"code", "ivt", "legacy"}
      BY <2>5, <3>3, <3>5
    <3>9. LastIsNext'
      BY <1>1, <1>3, <2>4, <3>6, <3>7, <3>8, LastPrimed
    <3> QED
      BY <1>2, <1>3, <3>1, <3>9 DEF Runs
  <2>6. CASE file.kind # "code"
    <3>1. pc' = "plugin"
      BY <1>1, <1>5, <2>3, <2>6
    <3>2. file.kind \in {"ivt", "legacy", "fit"}
      BY <2>1, <2>6, LaidWell, Made
    <3>3. PluginIsNext'
      BY <1>1, <2>4, <3>2 DEF PluginIsNext
    <3> QED
      BY <1>2, <1>3, <3>1, <3>3 DEF Runs
  <2> QED
    BY <2>5, <2>6
<1> QED
  BY <1>4, <1>5

LEMMA RunsFails ==
  ASSUME Runs, NEW n, Loaded(n), pc' = "failed", UNCHANGED <<file, loads, par>>
  PROVE  Runs'
<1>1. Loaded(n)' /\ n \in 0..Len(Asked(file))'
  BY LoadedSame, SameFile DEF Loaded
<1>2. \E m \in 0..Len(Asked(file))' : Loaded(m)'
  BY <1>1
<1> QED
  BY <1>2 DEF Runs

LEMMA RunsPlugin ==
  ASSUME Ready, Runs, RunPlugIn
  PROVE  Runs'
<1>1. pc = "plugin" /\ Loaded(0) /\ PluginIsNext /\ next = 0
  BY DEF RunPlugIn, Runs
<1>2. CASE Fails
  BY <1>1, <1>2, RunsFails DEF Fails, Parses, Goes
<1>3. CASE /\ loads' = Append(loads, Load(ImgIVTOffset, Word(BootAt(ImgIVTOffset) + 4), Self(ImgIVTOffset)))
           /\ pc' = "payload" /\ UNCHANGED <<file, par, next>>
  <2>1. Laid /\ ImgIVTOffset = file.at /\ file.kind \in {"ivt", "legacy", "fit"}
    BY <1>1 DEF Ready, Searches, PluginIsNext
  <2>2. Self(file.at) = RamBase + file.at /\ Word(BootAt(file.at) + 4) = PluginBytes
    BY <2>1, SingleRead
  <2>3. loads' = Append(loads, Plugin(file))
    BY <1>3, <2>1, <2>2 DEF Plugin
  <2>4. Asked(file)[1] = Plugin(file) /\ 0 < Len(Asked(file))
    <3>1. CASE file.kind = "fit"
      <4>1. Loadables(file) \in Nat /\ Len(Asked(file)) = 3 + Loadables(file)
        BY <2>1, <3>1, AskedOf
      <4>2. Asked(file)[1] = Plugin(file)
        BY <3>1, <4>1, AskedFit
      <4> QED
        BY <4>1, <4>2
    <3>2. CASE file.kind \in {"ivt", "legacy"}
      BY <3>2, AskedBehind DEF Sequence
    <3> QED
      BY <2>1, <3>1, <3>2
  <2>5. PICK n \in Nat : n = 0 /\ n + 1 = 1
    OBVIOUS
  <2>6. Loaded(n + 1)'
    BY <1>1, <1>3, <2>1, <2>3, <2>4, <2>5, LoadedMore
  <2>7. PluginIsNext'
    BY <1>1, <1>3 DEF PluginIsNext
  <2>8. Loaded(1)' /\ next' = 0 /\ {"CodeOffset", "ExecutingAddr"} \subseteq DOMAIN par'
    BY <1>1, <1>3, <2>5, <2>6 DEF Runs
  <2> QED
    BY <1>3, <2>7, <2>8 DEF Runs
<1> QED
  BY <1>2, <1>3 DEF RunPlugIn, Downloads, Goes

LEMMA RunsDcd ==
  ASSUME Ready, Runs, RunSingleDCD
  PROVE  Runs'
<1>1. pc = "dcd" /\ LastIsNext /\ next = 0
  BY DEF RunSingleDCD, Runs
<1>2. CASE Fails
  BY <1>1, <1>2, RunsFails DEF Fails, Parses, Goes, LastIsNext
<1>3. CASE pc' = "load" /\ UNCHANGED <<file, par, next, loads>>
  <2>1. LastIsNext'
    <3>1. PICK n : n = Len(Asked(file))
      OBVIOUS
    <3>2. Loaded(n - 1)'
      BY <1>1, <1>3, <3>1, LoadedSame DEF LastIsNext
    <3> QED
      BY <1>1, <1>3, <3>1, <3>2, LastPrimed DEF LastIsNext
  <2> QED
    BY <1>1, <1>3, <2>1 DEF Runs
<1> QED
  BY <1>2, <1>3 DEF RunSingleDCD, RunDCD, Goes

LEMMA RunsLoad ==
  ASSUME Ready, Runs, LoadFirmware
  PROVE  Runs'
<1>1. pc = "load" /\ LastIsNext
  BY DEF LoadFirmware, Runs
<1>2. CASE Fails
  BY <1>1, <1>2, RunsFails DEF Fails, Parses, Goes, LastIsNext
<1>3. CASE /\ loads' = Append(loads, Load(par.CodeOffset, (file.size - par.CodeOffset) % W, par.PhyRAMAddr4KRL))
           /\ pc' = "done" /\ UNCHANGED <<file, par, next>>
  <2>1. PICK n : n = Len(Asked(file))
    OBVIOUS
  <2>2. Len(Asked(file)) \in {1, 2}
    BY <1>1, AskedOf DEF LastIsNext, Ready
  <2>3. PICK m \in Nat : m = n - 1 /\ m + 1 = n /\ m < n
    BY <2>1, <2>2
  <2>4. Loaded(m) /\ loads' = Append(loads, Asked(file)[m + 1])
    BY <1>1, <1>3, <2>1, <2>3 DEF LastIsNext
  <2>5. Loaded(m + 1)'
    BY <1>3, <2>1, <2>3, <2>4, LoadedMore DEF Ready
  <2>6. Loaded(Len(Asked(file)))'
    BY <1>3, <2>1, <2>3, <2>5, SameFile
  <2>7. par'.ExecutingAddr = EntryOf(file)' /\ {"CodeOffset", "ExecutingAddr"} \subseteq DOMAIN par'
    BY <1>1, <1>3, SameFile DEF LastIsNext, Runs
  <2> QED
    BY <1>3, <2>6, <2>7 DEF Runs
<1> QED
  BY <1>2, <1>3 DEF LoadFirmware, Downloads, Goes

\* The IVT behind the plugin is found 64 bytes behind the first.
LEMMA SecondFound ==
  ASSUME Laid, file.kind = "ivt", NEW o, o = file.at
  PROVE  FirstOf({d \in {32 + 4 * n : n \in 0..file.size \div 4} :
                    d + o < file.size /\ Word(o + d) \in {IVT, IVT2}}, NoIvt) = 64
<1> DEFINE S == {d \in {32 + 4 * n : n \in 0..file.size \div 4} :
                   d + o < file.size /\ Word(o + d) \in {IVT, IVT2}}
<1>1. /\ Word(o + 64) \in {IVT, IVT2} /\ o + 64 < file.size
      /\ \A d \in {32, 36, 40, 44, 48, 52, 56, 60} : Word(o + d) \notin {IVT, IVT2}
  BY SecondRead DEF PluginBytes
<1>2. file.size \in Nat /\ 256 <= file.size /\ o \in Nat
  BY SmallSize
<1>3. S \in SUBSET Nat
  BY <1>2
<1>4. 64 \in S
  <2>1. PICK z \in Nat : z = file.size /\ 256 <= z
    BY <1>2
  <2>2. 8 <= z \div 4 /\ z \div 4 \in Nat
    BY <2>1, Z3T(20)
  <2>3. 8 \in 0..file.size \div 4 /\ 64 = 32 + 4 * 8 /\ 64 + o = o + 64
    BY <1>2, <2>1, <2>2
  <2> QED
    BY <1>1, <2>3
<1>5. ASSUME NEW d \in S, d <= 64
      PROVE  d = 64
  <2>1. PICK n \in 0..file.size \div 4 : d = 32 + 4 * n
    OBVIOUS
  <2>2. n \in Nat
    OBVIOUS
  <2>3. Word(o + d) \in {IVT, IVT2}
    OBVIOUS
  <2>4. d \in {32, 36, 40, 44, 48, 52, 56, 60, 64}
    BY <1>5, <2>1, <2>2
  <2> QED
    BY <1>1, <2>3, <2>4
<1>6. FirstOf(S, NoIvt) \in S /\ FirstOf(S, NoIvt) <= 64
  <2> HIDE DEF S
  <2> QED
    BY <1>3, <1>4, FirstOfLeast
<1> HIDE DEF S
<1>7. FirstOf(S, NoIvt) = 64
  BY <1>5, <1>6
<1> QED
  BY <1>7 DEF S

LEMMA RunsPayload ==
  ASSUME Ready, Runs, FindPayload
  PROVE  Runs'
<1> DEFINE o == ImgIVTOffset
           pI == o + Reserved(o) + IVT_OFFSET_SD
           second == FirstOf({d \in {32 + 4 * n : n \in 0..file.size \div 4} :
                                d + o < file.size /\ Word(o + d) \in {IVT, IVT2}}, NoIvt)
           s == o + second
           IVTOffset == Self(o) - Word(BootAt(o))
           phys == (Word(BootAt(s)) + IVTOffset - o) % W
<1>1. /\ pc = "payload" /\ UNCHANGED <<file, next, loads>>
      /\ \/ /\ Reserved(o) # 0 /\ Word(pI) = IH_MAGIC /\ pc' = "load"
            /\ par' = [PhyRAMAddr4KRL |-> Word(pI + 16), ExecutingAddr |-> Word(pI + 20), pIVT |-> 0,
                       CodeOffset |-> Reserved(o) + LegacyHeader + IVT_OFFSET_SD]
         \/ /\ Reserved(o) # 0 /\ Word(pI) = FDT_MAGIC /\ pc' = "firmware"
            /\ par' = [par EXCEPT !.CodeOffset = pI]
         \/ pc' = "failed" /\ UNCHANGED par
         \/ /\ Reserved(o) = 0 /\ second # NoIvt /\ pc' = "load"
            /\ par' = [PhyRAMAddr4KRL |-> phys, CodeOffset |-> (Image(s) - phys) % W,
                       ExecutingAddr |-> Image(s), pIVT |-> Self(s)]
  BY DEF FindPayload, Parses, Goes
<1>2. /\ PluginIsNext /\ Loaded(1) /\ next = 0 /\ {"CodeOffset", "ExecutingAddr"} \subseteq DOMAIN par
      /\ Laid /\ IvtFirst(file) /\ o = file.at /\ file.kind \in {"ivt", "legacy", "fit"}
  BY <1>1 DEF Runs, Ready, Searches, PluginIsNext
<1>3. /\ Self(o) = RamBase + o
      /\ Reserved(o) = IF file.kind \in {"legacy", "fit"} THEN PayloadAt ELSE 0
      /\ Word(BootAt(o)) = RamBase + o - IVT_OFFSET_SD
  BY <1>2, SingleRead
<1>4. o \in Nat
  BY <1>2, SmallSize
<1>5. next' = 0 /\ Loaded(1)'
  BY <1>1, <1>2, LoadedSame
<1> HIDE DEF second, s, IVTOffset, phys
<1>6. CASE pc' = "failed" /\ UNCHANGED par
  BY <1>1, <1>2, <1>6, RunsFails
<1>7. CASE file.kind = "legacy" /\ pc' # "failed"
  <2>1. file.at = 0
    BY <1>2, <1>7 DEF IvtFirst
  <2>2. pI = PayloadOffset(file) /\ Reserved(o) # 0
    BY <1>2, <1>3, <1>7 DEF PayloadOffset, PayloadAt
  <2>3. Word(pI) = IH_MAGIC /\ Word(pI + 16) = RamBase2 /\ Word(pI + 20) = RamBase2 + 4
    BY <1>2, <1>7, <2>2, PayloadRead
  <2> HIDE DEF pI
  <2>4. /\ pc' = "load"
        /\ par' = [PhyRAMAddr4KRL |-> RamBase2, ExecutingAddr |-> RamBase2 + 4, pIVT |-> 0,
                   CodeOffset |-> Reserved(o) + LegacyHeader + IVT_OFFSET_SD]
    BY <1>1, <1>7, <2>2, <2>3 DEF IH_MAGIC, FDT_MAGIC
  <2>5. /\ {"CodeOffset", "ExecutingAddr"} \subseteq DOMAIN par' /\ par'.PhyRAMAddr4KRL = RamBase2
        /\ par'.ExecutingAddr = RamBase2 + 4 /\ par'.CodeOffset = Reserved(o) + LegacyHeader + IVT_OFFSET_SD
    BY <2>4
  <2>6. PICK from \in Nat : from = 1152
    OBVIOUS
  <2>7. par'.CodeOffset = from /\ PayloadOffset(file) + LegacyHeader = from
    BY <1>3, <1>7, <2>1, <2>5, <2>6 DEF PayloadOffset, PayloadAt, LegacyHeader, IVT_OFFSET_SD
  <2>8. (file.size - from) % W = file.size - from
    <3>1. PICK z \in Nat : z = file.size /\ z < W /\ from <= z
      BY <1>2, <1>7, <2>7, PayloadRead, SmallSize
    <3>2. z - from \in 0..W - 1
      BY <3>1, Constants
    <3> QED
      BY <3>1, <3>2, SmallMod
  <2>9. /\ Len(Asked(file)) = 2
        /\ Asked(file)[2] = Load(PayloadOffset(file) + LegacyHeader, file.size - (PayloadOffset(file) + LegacyHeader),
                                 RamBase2)
    BY <1>7, AskedBehind DEF Sequence
  <2>10. Asked(file)[2] = Load(par'.CodeOffset, (file.size - par'.CodeOffset) % W, par'.PhyRAMAddr4KRL)
    BY <2>5, <2>7, <2>8, <2>9
  <2>11. EntryOf(file) = RamBase2 + 4
    BY <1>7 DEF EntryOf
  <2>12. PICK n : n = 2 /\ n - 1 = 1
    OBVIOUS
  <2>13. LastIsNext'
    BY <1>1, <1>5, <1>7, <2>5, <2>9, <2>10, <2>11, <2>12, LastPrimed
  <2> QED
    BY <1>5, <2>4, <2>5, <2>13 DEF Runs
<1>8. CASE file.kind = "fit" /\ pc' # "failed"
  <2>1. pI = PayloadOffset(file) /\ Reserved(o) # 0
    BY <1>2, <1>3, <1>8 DEF PayloadOffset, PayloadAt
  <2>2. Word(pI) = FDT_MAGIC
    BY <1>2, <1>8, <2>1, PayloadRead
  <2> HIDE DEF pI
  <2>3. pc' = "firmware" /\ par' = [par EXCEPT !.CodeOffset = pI]
    BY <1>1, <1>8, <2>1, <2>2 DEF IH_MAGIC, FDT_MAGIC
  <2>4. /\ {"CodeOffset", "ExecutingAddr"} \subseteq DOMAIN par' /\ par'.CodeOffset = PayloadOffset(file)
        /\ par'.ExecutingAddr = RamBase
    BY <1>2, <2>1, <2>3 DEF PluginIsNext
  <2>5. EntryUpto(0) = RamBase
    <3>1. {i \in 1..0 : FitImageOf(file, "loadables", i).entry # NoEntry} = {}
      OBVIOUS
    <3> QED
      BY <3>1 DEF EntryUpto
  <2>6. FitIsNext(1, 0)'
    BY <1>1, <1>5, <1>8, <2>4, <2>5, SameFile DEF FitIsNext
  <2> QED
    BY <1>5, <2>3, <2>4, <2>6 DEF Runs
<1>9. CASE file.kind = "ivt" /\ pc' # "failed"
  <2>1. Reserved(o) = 0 /\ second = 64
    BY <1>2, <1>3, <1>9, SecondFound DEF second
  <2>2. s = file.at + PluginBytes
    BY <1>2, <2>1 DEF s, PluginBytes
  <2>3. /\ pc' = "load"
        /\ par' = [PhyRAMAddr4KRL |-> phys, CodeOffset |-> (Image(s) - phys) % W,
                   ExecutingAddr |-> Image(s), pIVT |-> Self(s)]
    BY <1>1, <1>9, <2>1
  <2>4. Image(s) = RamBase2 /\ Word(BootAt(s)) = RamBase2 + o - IVT_OFFSET_SD
    BY <1>2, <1>9, <2>2, SecondRead
  <2>5. phys = RamBase2 /\ (RamBase2 - RamBase2) % W = 0
    <3>1. PICK b1 \in Nat, b2 \in 0..W - 1, a \in Nat : b1 = RamBase /\ b2 = RamBase2 /\ a = o
      BY <1>4, Constants
    <3>2. IVTOffset = 1024
      BY <1>3, <3>1 DEF IVTOffset, IVT_OFFSET_SD
    <3>3. Word(BootAt(s)) + IVTOffset - o = b2 /\ b2 - b2 = 0
      BY <2>4, <3>1, <3>2, Constants DEF IVT_OFFSET_SD
    <3>4. b2 % W = b2 /\ 0 % W = 0
      BY <1>2, <3>1, SmallMod, SmallSize
    <3> QED
      BY <3>1, <3>3, <3>4 DEF phys
  <2>6. /\ {"CodeOffset", "ExecutingAddr"} \subseteq DOMAIN par' /\ par'.PhyRAMAddr4KRL = RamBase2
        /\ par'.ExecutingAddr = RamBase2 /\ par'.CodeOffset = 0
    BY <2>3, <2>4, <2>5
  <2>7. Len(Asked(file)) = 2 /\ Asked(file)[2] = Load(0, file.size, RamBase2)
    BY <1>9, AskedBehind DEF Sequence
  <2>8. Asked(file)[2] = Load(par'.CodeOffset, (file.size - par'.CodeOffset) % W, par'.PhyRAMAddr4KRL)
    BY <1>2, <2>6, <2>7, SmallSize
  <2>9. EntryOf(file) = RamBase2
    BY <1>9 DEF EntryOf
  <2>10. PICK n : n = 2 /\ n - 1 = 1
    OBVIOUS
  <2>11. LastIsNext'
    BY <1>1, <1>5, <1>9, <2>6, <2>7, <2>8, <2>9, <2>10, LastPrimed
  <2> QED
    BY <1>5, <2>3, <2>6, <2>11 DEF Runs
<1> QED
  BY <1>1, <1>2, <1>6, <1>7, <1>8, <1>9

LEMMA RunsFitFirmware ==
  ASSUME Ready, Runs, FitFirmware
  PROVE  Runs'
<1>1. pc = "firmware" /\ FitIsNext(1, 0) /\ next = 0 /\ {"CodeOffset", "ExecutingAddr"} \subseteq DOMAIN par
  BY DEF FitFirmware, Runs
<1>2. CASE Fails
  BY <1>1, <1>2, RunsFails DEF Fails, Parses, Goes, FitIsNext
<1> DEFINE im == fit[<<"firmware", 0>>]
           image == FitImageOf(file, "firmware", 1)
<1>3. CASE /\ loads' = Append(loads, LoadImageOf(im, im.num["load"]))
           /\ pc' = "fdt" /\ UNCHANGED <<file, par, next>>
  <2>1. Laid /\ file.kind = "fit" /\ FindsTheNamed /\ Loaded(1) /\ par.CodeOffset = PayloadOffset(file)
    BY <1>1 DEF Ready, FitIsNext
  <2>2. Found(im, image)
    BY <2>1 DEF FindsTheNamed, FitImageOf
  <2>3. LoadImageOf(im, im.num["load"]) = FitData(file, image, image.load)
    BY <2>1, <2>2 DEF LoadImageOf, FitData, Found
  <2>4. Loadables(file) \in Nat /\ Len(Asked(file)) = 3 + Loadables(file)
    BY <2>1, AskedOf
  <2>5. Asked(file)[2] = FitData(file, image, image.load)
    BY <2>1, <2>4, AskedFit
  <2> HIDE DEF im, image
  <2>6. PICK n \in Nat : n = 1 /\ n + 1 = 2 /\ n < Len(Asked(file))
    BY <2>4
  <2>7. Loaded(n + 1)'
    BY <1>3, <2>1, <2>3, <2>5, <2>6, LoadedMore
  <2>8. FitIsNext(2, 0)'
    BY <1>1, <1>3, <2>6, <2>7, SameFile DEF FitIsNext
  <2> QED
    BY <1>1, <1>3, <2>8 DEF Runs
<1> QED
  BY <1>2, <1>3 DEF FitFirmware, Downloads, Goes

LEMMA RunsFitFdt ==
  ASSUME Ready, Runs, FitFdt
  PROVE  Runs'
<1>1. pc = "fdt" /\ FitIsNext(2, 0) /\ next = 0 /\ {"CodeOffset", "ExecutingAddr"} \subseteq DOMAIN par
  BY DEF FitFdt, Runs
<1>2. CASE Fails
  BY <1>1, <1>2, RunsFails DEF Fails, Parses, Goes, FitIsNext
<1> DEFINE im == fit[<<"fdt", 0>>]
           image == FitImageOf(file, "fdt", 1)
           firmware == FitImageOf(file, "firmware", 1)
<1>3. CASE /\ loads' = Append(loads, LoadImageOf(im, Last(loads).addr + Last(loads).size))
           /\ pc' = "loadables" /\ UNCHANGED <<file, par, next>>
  <2>1. Laid /\ file.kind = "fit" /\ FindsTheNamed /\ Loaded(2) /\ par.CodeOffset = PayloadOffset(file)
    BY <1>1 DEF Ready, FitIsNext
  <2>2. Found(im, image)
    BY <2>1 DEF FindsTheNamed, FitImageOf
  <2>3. Loadables(file) \in Nat /\ Len(Asked(file)) = 3 + Loadables(file)
    BY <2>1, AskedOf
  <2>4. /\ Asked(file)[2] = FitData(file, firmware, firmware.load)
        /\ Asked(file)[3] = FitData(file, image, firmware.load + firmware.size)
    BY <2>1, <2>3, AskedFit
  <2>5. Last(loads) = Asked(file)[2]
    <3>1. PICK S : Asked(file) \in Seq(S)
      BY <2>1, AskedOf
    <3>2. PICK n \in 0..Len(Asked(file)) : n = 2
      BY <2>3
    <3>3. loads = Upto(Asked(file), n) /\ Len(loads) = n
      BY <2>1, <3>1, <3>2, UptoSeq DEF Loaded
    <3>4. loads[n] = Asked(file)[n]
      BY <3>2, <3>3 DEF Upto
    <3> QED
      BY <3>2, <3>3, <3>4 DEF Last
  <2>6. Last(loads).addr = firmware.load /\ Last(loads).size = firmware.size
    BY <2>4, <2>5 DEF FitData, Load
  <2>7. LoadImageOf(im, Last(loads).addr + Last(loads).size) = FitData(file, image, firmware.load + firmware.size)
    BY <2>1, <2>2, <2>6 DEF LoadImageOf, FitData, Found
  <2> HIDE DEF im, image, firmware
  <2>8. PICK n \in Nat : n = 2 /\ n + 1 = 3 /\ n < Len(Asked(file))
    BY <2>3
  <2>9. Loaded(n + 1)'
    BY <1>3, <2>1, <2>4, <2>7, <2>8, LoadedMore
  <2>10. FitIsNext(3 + next, next)'
    BY <1>1, <1>3, <2>8, <2>9, SameFile DEF FitIsNext
  <2>11. next' = 0 /\ next' \in 0..Loadables(file)'
    BY <1>1, <1>3, <2>3, SameFile
  <2> QED
    BY <1>1, <1>3, <2>10, <2>11 DEF Runs
<1> QED
  BY <1>2, <1>3 DEF FitFdt, Downloads, Goes

\* A loadable with an entry is the last of those with one; another changes nothing.
LEMMA EntryMore ==
  ASSUME NEW n \in Nat
  PROVE  EntryUpto(n + 1) = IF FitImageOf(file, "loadables", n + 1).entry # NoEntry
                            THEN FitImageOf(file, "loadables", n + 1).entry ELSE EntryUpto(n)
<1> DEFINE image(i) == FitImageOf(file, "loadables", i)
           with(m) == {i \in 1..m : image(i).entry # NoEntry}
<1> HIDE DEF image
<1>1. CASE image(n + 1).entry # NoEntry
  <2>1. n + 1 \in with(n + 1) /\ \A i \in with(n + 1) : i \in Nat /\ n + 1 >= i
    BY <1>1
  <2>2. \A i \in with(n + 1) : (\A y \in with(n + 1) : i >= y) => i = n + 1
    BY <2>1
  <2> HIDE DEF with
  <2>3. Max(with(n + 1)) = n + 1
    BY <2>1, <2>2 DEF Max
  <2>4. EntryUpto(n + 1) = IF with(n + 1) = {} THEN RamBase ELSE image(Max(with(n + 1))).entry
    BY DEF EntryUpto, with, image
  <2>5. with(n + 1) # {}
    BY <2>1
  <2> QED
    BY <1>1, <2>3, <2>4, <2>5 DEF image
<1>2. CASE ~(image(n + 1).entry # NoEntry)
  <2>1. with(n + 1) = with(n)
    BY <1>2
  <2> HIDE DEF with
  <2>2. /\ EntryUpto(n + 1) = IF with(n + 1) = {} THEN RamBase ELSE image(Max(with(n + 1))).entry
        /\ EntryUpto(n) = IF with(n) = {} THEN RamBase ELSE image(Max(with(n))).entry
    BY DEF EntryUpto, with, image
  <2> QED
    BY <1>2, <2>1, <2>2 DEF image
<1> QED
  BY <1>1, <1>2

LEMMA RunsFitLoadable ==
  ASSUME Ready, Runs, FitLoadable
  PROVE  Runs'
<1>1. /\ pc = "loadables" /\ next \in 0..Loadables(file) /\ FitIsNext(3 + next, next)
      /\ {"CodeOffset", "ExecutingAddr"} \subseteq DOMAIN par
  BY DEF FitLoadable, Runs
<1>2. CASE Fails
  BY <1>1, <1>2, RunsFails DEF Fails, Parses, Goes, FitIsNext
<1>3. /\ Laid /\ file.kind = "fit" /\ FindsTheNamed /\ Loaded(3 + next) /\ par.CodeOffset = PayloadOffset(file)
      /\ par.ExecutingAddr = EntryUpto(next)
  BY <1>1 DEF Ready, FitIsNext
<1>4. Loadables(file) \in Nat /\ Len(Asked(file)) = 3 + Loadables(file)
  BY <1>3, AskedOf
<1>5. PICK k \in Nat, m \in Nat : k = next /\ m = Loadables(file) /\ k <= m
  BY <1>1, <1>4
<1> DEFINE im == fit[<<"loadables", next>>]
           image == FitImageOf(file, "loadables", next + 1)
<1>6. ASSUME k < m
      PROVE  Found(im, image)
  <2>1. PICK i \in 1..Loadables(file) : i = next + 1 /\ i - 1 = next
    BY <1>5, <1>6
  <2>2. Found(fit[<<"loadables", i - 1>>], FitImageOf(file, "loadables", i))
    BY <1>3, <2>1 DEF FindsTheNamed, FitImageOf, Loadables
  <2> QED
    BY <2>1, <2>2
<1>7. k = m => im.node \in Int \ Nat
  BY <1>3, <1>5 DEF FindsTheNamed, Loadables
<1>8. im.node \in Int /\ (im.node < 0 <=> k = m)
  <2>1. CASE k = m
    BY <1>7, <2>1
  <2>2. CASE k < m
    <3>1. im.node \in Nat
      BY <1>6, <2>2 DEF Found
    <3> QED
      BY <2>2, <3>1
  <2> QED
    BY <1>5, <2>1, <2>2
<1>9. CASE im.node < 0 /\ pc' = "done" /\ UNCHANGED <<file, loads, par, next>>
  <2>1. k = m
    BY <1>8, <1>9
  <2>2. Loaded(Len(Asked(file)))'
    <3>1. Loaded(Len(Asked(file)))
      BY <1>3, <1>4, <1>5, <2>1
    <3>2. Loaded(Len(Asked(file)))' = Loaded(Len(Asked(file)))
      BY <1>9, SameFile DEF Loaded
    <3> QED
      BY <3>1, <3>2
  <2>3. EntryOf(file) = EntryUpto(next)
    <3>1. EntryUpto(Loadables(file)) = FitEntry(file)
      BY DEF EntryUpto, FitEntry, FitImageOf, Loadables
    <3> QED
      BY <1>3, <1>5, <2>1, <3>1 DEF EntryOf
  <2>4. par'.ExecutingAddr = EntryOf(file)'
    BY <1>3, <1>9, <2>3, SameFile
  <2> QED
    BY <1>1, <1>9, <2>2, <2>4 DEF Runs
<1>10. CASE /\ Exists(im, {"load", "data-offset", "data-size"})
            /\ loads' = Append(loads, LoadImageOf(im, im.num["load"]))
            /\ pc' = "loadables" /\ UNCHANGED file
            /\ next' = next + 1
            /\ par' = IF Exists(im, {"entry"})
                      THEN [par EXCEPT !.ExecutingAddr = im.num["entry"], !.pIVT = 0] ELSE par
  <2>1. k < m
    <3>1. ~ (im.node < 0)
      BY <1>8, <1>10 DEF Exists
    <3> QED
      BY <1>5, <1>8, <3>1
  <2>2. Found(im, image)
    BY <1>6, <2>1
  <2>3. LoadImageOf(im, im.num["load"]) = FitData(file, image, image.load)
    BY <1>3, <2>2 DEF LoadImageOf, FitData, Found
  <2>4. PICK i \in 1..Loadables(file) : i = next + 1 /\ 3 + i = (3 + next) + 1
    BY <1>5, <2>1
  <2>5. Asked(file)[3 + i] = FitData(file, image, image.load)
    BY <1>3, <1>4, <2>4, AskedFit
  <2>6. PICK n \in Nat : n = 3 + next /\ n < Len(Asked(file))
    BY <1>4, <1>5, <2>1
  <2> HIDE DEF im, image
  <2>7. Loaded(n + 1)'
    <3>1. loads' = Append(loads, Asked(file)[n + 1])
      BY <1>10, <2>3, <2>4, <2>5, <2>6
    <3> QED
      BY <1>3, <1>10, <2>6, <3>1, LoadedMore
  <2>8. next' \in 0..Loadables(file)' /\ Loaded(3 + next)'
    <3>1. next' = k + 1 /\ n + 1 = 3 + next' /\ k + 1 \in 0..Loadables(file)
      BY <1>5, <1>10, <2>1, <2>6
    <3>2. Loaded(3 + next)'
      BY <2>7, <3>1 DEF Loaded
    <3> QED
      BY <1>10, <3>1, <3>2, SameFile
  <2>9. par'.ExecutingAddr = EntryUpto(next + 1)
    <3>1. EntryUpto(k + 1) = IF FitImageOf(file, "loadables", k + 1).entry # NoEntry
                             THEN FitImageOf(file, "loadables", k + 1).entry ELSE EntryUpto(k)
      BY EntryMore
    <3>2. EntryUpto(next + 1) = IF image.entry # NoEntry THEN image.entry ELSE EntryUpto(next)
      BY <1>5, <3>1 DEF image
    <3>3. CASE Exists(im, {"entry"})
      <4>1. par'.ExecutingAddr = im.num["entry"]
        BY <1>1, <1>10, <3>3
      <4> QED
        BY <2>2, <3>2, <3>3, <4>1 DEF Found
    <3>4. CASE ~Exists(im, {"entry"})
      BY <1>3, <1>10, <2>2, <3>2, <3>4 DEF Found
    <3> QED
      BY <3>3, <3>4
  <2>10. {"CodeOffset", "ExecutingAddr"} \subseteq DOMAIN par' /\ par'.CodeOffset = PayloadOffset(file)
    BY <1>1, <1>3, <1>10
  <2>11. FitIsNext(3 + next, next)'
    <3>1. EntryUpto(next)' = EntryUpto(next + 1)
      BY <1>10, SameFile DEF EntryUpto
    <3> QED
      BY <1>3, <1>10, <2>8, <2>9, <2>10, <3>1, SameFile DEF FitIsNext
  <2> QED
    BY <1>10, <2>8, <2>10, <2>11 DEF Runs
<1> QED
  BY <1>2, <1>9, <1>10 DEF FitLoadable, Fails, Downloads, Parses, Goes

LEMMA RunsContainers ==
  ASSUME Ready, Runs, FindContainers
  PROVE  Runs'
<1>1. /\ pc = "containers" /\ pc' \in {"failed", "multiDcd", "initial"} /\ UNCHANGED <<file, par, next, loads>>
  BY DEF FindContainers, Parses, Goes
<1>2. Loaded(0) /\ next = 0 /\ file.kind = "containers" /\ {"CodeOffset", "ExecutingAddr"} \subseteq DOMAIN par
  BY <1>1 DEF Runs, Ready, Searches
<1>3. Loaded(0)'
  BY <1>1, <1>2, LoadedSame
<1>4. CASE pc' = "failed"
  BY <1>1, <1>2, <1>4, RunsFails
<1>5. CASE pc' \in {"multiDcd", "initial"}
  BY <1>1, <1>2, <1>3, <1>5 DEF Runs
<1> QED
  BY <1>1, <1>4, <1>5

LEMMA RunsMultiDcd ==
  ASSUME Ready, Runs, RunMultiDCD
  PROVE  Runs'
<1>1. /\ pc = "multiDcd" /\ Loaded(0) /\ next = 0 /\ file.kind = "containers"
      /\ {"CodeOffset", "ExecutingAddr"} \subseteq DOMAIN par
  BY DEF RunMultiDCD, Runs
<1>2. CASE Fails
  BY <1>1, <1>2, RunsFails DEF Fails, Parses, Goes
<1>3. CASE pc' = "initial" /\ UNCHANGED <<file, par, next, loads>>
  <2>1. Loaded(0)'
    BY <1>1, <1>3, LoadedSame
  <2> QED
    BY <1>1, <1>3, <2>1 DEF Runs
<1> QED
  BY <1>2, <1>3 DEF RunMultiDCD, RunDCD, Goes

\* What the SCU sees of an address is an address.
LEMMA SeenWithin ==
  ASSUME NEW a \in 0..W - 1
  PROVE  SCUViewAddr(a) \in 0..W - 1
<1>1. a \in ScuWindow => a - ScuShift \in 0..W - 1
  <2> SUFFICES ASSUME a \in ScuWindow PROVE a - ScuShift \in 0..W - 1
    OBVIOUS
  <2>1. a \in ScuShift..W - 1
    BY ImagesAssumption
  <2> QED
    BY <2>1, Constants
<1> QED
  BY <1>1 DEF SCUViewAddr

LEMMA RunsInitial ==
  ASSUME Ready, Runs, LoadInitial
  PROVE  Runs'
<1>1. /\ pc = "initial" /\ Loaded(0) /\ next = 0 /\ file.kind = "containers"
      /\ {"CodeOffset", "ExecutingAddr"} \subseteq DOMAIN par
  BY DEF LoadInitial, Runs
<1>2. CASE Fails
  BY <1>1, <1>2, RunsFails DEF Fails, Parses, Goes
<1>3. CASE /\ loads' = Append(loads, Load(0, InitialSize, (SCUViewAddr(SelfV2(ImgIVTOffset)) - ImgIVTOffset) % W))
           /\ pc' = "images" /\ UNCHANGED <<file, par, next>>
  <2>1. Laid /\ ImgIVTOffset = 0 /\ file.at = 0
    BY <1>1 DEF Ready, Searches, IvtFirst
  <2>2. SelfV2(0) = RamBase
    BY <1>1, <2>1, MultiRead
  <2>3. PICK a \in 0..W - 1 : a = SCUViewAddr(RamBase)
    BY Constants, SeenWithin
  <2>4. (a - 0) % W = a /\ a - 0 = a
    BY <2>3, SmallMod, Constants
  <2>5. RamBase + file.at = RamBase
    BY <2>1, Constants
  <2>6. WellMade(file)
    BY <2>1, LaidWell
  <2>7. Asked(file)[1] = Load(0, InitialSize, SCUViewAddr(RamBase + file.at) - file.at)
    BY <1>1, <2>6, AskedContainers
  <2>8. loads' = Append(loads, Asked(file)[1])
    BY <1>3, <2>1, <2>2, <2>3, <2>4, <2>5, <2>7
  <2>9. Len(ImagesOf(file)) \in Nat /\ Len(Asked(file)) = 1 + Len(ImagesOf(file))
    BY <1>1, <2>1, <2>6, AskedOf, ContainersOf
  <2>10. PICK n \in Nat : n = 0 /\ n + 1 = 1 /\ n < Len(Asked(file))
    BY <2>9
  <2>11. Loaded(n + 1)'
    BY <1>1, <1>3, <2>1, <2>8, <2>10, LoadedMore
  <2>12. next' = 0 /\ next' \in 0..Len(ImagesOf(file))' /\ Loaded(1 + next)'
    <3>1. n + 1 = 1 + next' /\ next' = 0
      BY <1>1, <1>3, <2>10
    <3>2. Loaded(1 + next)'
      BY <2>11, <3>1 DEF Loaded
    <3> QED
      BY <1>3, <2>9, <3>1, <3>2, SameFile
  <2> QED
    BY <1>1, <1>3, <2>12 DEF Runs
<1> QED
  BY <1>2, <1>3 DEF LoadInitial, Downloads, Goes

\* What the header of an image says, one container after the other.
LEMMA ImageHeader ==
  ASSUME Laid, file.kind = "containers", file.at = 0,
         NEW k \in Nat, k < Len(ImagesOf(file)),
         NEW info, info = 16 + IF k < NrImages(0) THEN BootAtV2(0) + 40 * k
                               ELSE BootAtV2(IvtTwo(0)) + 40 * (k - NrImages(0))
  PROVE  LET im == ImagesOf(file)[k + 1] IN
         im \in SubImage /\ Describes(info, im)
<1>1. WellMade(file)
  BY LaidWell
<1>2. PICK n1 \in 0..MaxImages, n2 \in 0..MaxImages :
        n1 = Len(file.containers[1]) /\ n2 = Len(file.containers[2])
  BY <1>1, ContainersOf
<1>9. n1 \in Nat /\ n1 <= 4 /\ n2 \in Nat /\ n2 <= 4
  BY FewImages
<1>3. /\ ImagesOf(file) \in Seq(SubImage) /\ Len(ImagesOf(file)) = n1 + n2
      /\ \A i \in 1..n1 : ImagesOf(file)[i] = file.containers[1][i]
      /\ \A i \in 1..n2 : ImagesOf(file)[n1 + i] = file.containers[2][i]
  BY <1>1, <1>2, ContainersOf, ZenonT(20)
<1>4. /\ BootAtV2(0) = 192 /\ NrImages(0) = n1
      /\ BootAtV2(IvtTwo(0)) = 400
  BY <1>2, MultiRead
<1>5. ASSUME NEW c \in {1, 2}, NEW j \in Nat, j < 4, j < Len(file.containers[c]),
             info = 16 + ((IF c = 1 THEN 192 ELSE 400) + 40 * j)
      PROVE  Describes(info, file.containers[c][j + 1])
  <2>1. j \in 0..3
    BY <1>5
  <2>2. Describes(16 + ((IF c = 1 THEN 192 ELSE 400) + 40 * j), file.containers[c][j + 1])
    <3>1. j < Len(file.containers[c])
      BY <1>5
    <3> DEFINE Of(d, i) ==
                 i < Len(file.containers[d]) =>
                   Describes(16 + ((IF d = 1 THEN 192 ELSE 400) + 40 * i), file.containers[d][i + 1])
    <3>2. \A d \in {1, 2}, i \in 0..3 : Of(d, i)
      BY MultiRead
    <3> HIDE DEF Of
    <3>3. Of(c, j)
      BY <2>1, <3>2
    <3> QED
      BY <3>1, <3>3 DEF Of
  <2> QED
    BY <1>5, <2>2
<1>6. ImagesOf(file)[k + 1] \in SubImage
  BY <1>3
<1>7. CASE k < n1
  <2>1. k < 4 /\ k + 1 \in 1..n1
    BY <1>7, <1>9
  <2>5. k < Len(file.containers[1])
    BY <1>2, <1>7
  <2>2. info = 16 + ((IF 1 = 1 THEN 192 ELSE 400) + 40 * k)
    BY <1>4, <1>7
  <2>3. ImagesOf(file)[k + 1] = file.containers[1][k + 1]
    BY <1>3, <2>1
  <2>4. Describes(info, file.containers[1][k + 1])
    BY <1>5, <2>1, <2>2, <2>5
  <2> QED
    BY <1>6, <2>3, <2>4
<1>8. CASE ~ (k < n1)
  <2>1. PICK j \in Nat : j < 4 /\ j = k - n1 /\ j < n2 /\ j + 1 \in 1..n2 /\ k + 1 = n1 + (j + 1)
    BY <1>3, <1>8, <1>9
  <2>5. j < Len(file.containers[2])
    BY <1>2, <2>1
  <2>2. info = 16 + ((IF 2 = 1 THEN 192 ELSE 400) + 40 * j)
    BY <1>4, <1>8, <2>1
  <2>3. ImagesOf(file)[k + 1] = file.containers[2][j + 1]
    BY <1>3, <2>1
  <2>4. Describes(info, file.containers[2][j + 1])
    BY <1>5, <2>1, <2>2, <2>5
  <2> QED
    BY <1>6, <2>3, <2>4
<1> QED
  BY <1>7, <1>8

LEMMA RunsImage ==
  ASSUME Ready, Runs, LoadImage
  PROVE  Runs'
<1> DEFINE o == ImgIVTOffset
           first == NrImages(o)
           last == first + NrImages(IvtTwo(o))
           info == 16 + IF next < first THEN BootAtV2(o) + 40 * next
                        ELSE BootAtV2(IvtTwo(o)) + 40 * (next - first)
<1>1. /\ pc = "images" /\ Loaded(1 + next) /\ next \in 0..Len(ImagesOf(file)) /\ file.kind = "containers"
      /\ {"CodeOffset", "ExecutingAddr"} \subseteq DOMAIN par
  BY DEF LoadImage, Runs
<1>2. CASE Fails
  BY <1>1, <1>2, RunsFails DEF Fails, Parses, Goes
<1>3. Laid /\ o = 0 /\ file.at = 0 /\ WellMade(file)
  BY <1>1, LaidWell DEF Ready, Searches, IvtFirst
<1>4. PICK k \in Nat, m \in Nat : k = next /\ m = Len(ImagesOf(file)) /\ k <= m
  BY <1>1, <1>3, ContainersOf
<1>5. last = m /\ SelfV2(o) = RamBase /\ Len(Asked(file)) = 1 + m
  <2>1. /\ SelfV2(0) = RamBase /\ NrImages(0) = Len(file.containers[1])
        /\ NrImages(IvtTwo(0)) = Len(file.containers[2])
    BY <1>1, <1>3, MultiRead
  <2>2. m = Len(file.containers[1]) + Len(file.containers[2])
    BY <1>1, <1>3, <1>4, ContainersOf
  <2>3. Len(Asked(file)) = 1 + m
    BY <1>1, <1>3, <1>4, AskedOf
  <2> QED
    BY <1>3, <2>1, <2>2, <2>3
<1>6. CASE /\ next < last
           /\ loads' = Append(loads, Load((Word(info) - IVT_OFFSET_SD) % W, Word(info + 24), SCUViewAddr(Word(info + 8))))
           /\ pc' = "images" /\ next' = next + 1 /\ UNCHANGED <<file, par>>
  <2>1. k < m
    BY <1>4, <1>5, <1>6
  <2>2. PICK im \in SubImage : im = ImagesOf(file)[k + 1] /\ Describes(info, im)
    <3>1. info = 16 + IF k < NrImages(0) THEN BootAtV2(0) + 40 * k
                      ELSE BootAtV2(IvtTwo(0)) + 40 * (k - NrImages(0))
      BY <1>3, <1>4
    <3> HIDE DEF info
    <3> QED
      BY <1>1, <1>3, <1>4, <2>1, <3>1, ImageHeader
  <2> HIDE DEF info, last
  <2>3. (im.offset - IVT_OFFSET_SD) % W = im.offset - IVT_OFFSET_SD
    <3>1. PICK off \in Nat : off = im.offset /\ off \in 1024..W - 1
      BY <2>2, Constants DEF SubImage, IVT_OFFSET_SD
    <3>2. off - 1024 \in 0..W - 1
      BY <3>1, Constants
    <3> QED
      BY <3>1, <3>2, SmallMod DEF IVT_OFFSET_SD
  <2>4. PICK i \in 1..Len(ImagesOf(file)) : i = k + 1
    BY <1>4, <2>1
  <2>5. Asked(file)[1 + i] = MultiLoad(im)
    BY <1>1, <1>3, <2>2, <2>4, AskedContainers
  <2>6. loads' = Append(loads, MultiLoad(im))
    BY <1>6, <2>2, <2>3 DEF MultiLoad, Describes
  <2>7. PICK n \in Nat : n = 1 + next /\ n < Len(Asked(file)) /\ n + 1 = 1 + i
    BY <1>4, <1>5, <2>1, <2>4
  <2>8. Loaded(n + 1)'
    BY <1>1, <1>3, <1>6, <2>5, <2>6, <2>7, LoadedMore
  <2>9. next' \in 0..Len(ImagesOf(file))' /\ Loaded(1 + next)'
    <3>1. next' = k + 1 /\ n + 1 = 1 + next' /\ k + 1 \in 0..Len(ImagesOf(file))
      BY <1>4, <1>6, <2>1, <2>7
    <3>2. Loaded(1 + next)'
      BY <2>8, <3>1 DEF Loaded
    <3> QED
      BY <1>6, <3>1, <3>2, SameFile
  <2> QED
    BY <1>1, <1>6, <2>9 DEF Runs
<1>7. CASE /\ next >= last /\ par' = [par EXCEPT !.ExecutingAddr = SelfV2(o)]
           /\ pc' = "done" /\ UNCHANGED <<file, loads>>
  <2>1. k = m
    BY <1>4, <1>5, <1>7
  <2>2. Loaded(Len(Asked(file)))'
    <3>1. Loaded(Len(Asked(file)))
      BY <1>1, <1>4, <1>5, <2>1
    <3>2. Loaded(Len(Asked(file)))' = Loaded(Len(Asked(file)))
      BY <1>7, SameFile DEF Loaded
    <3> QED
      BY <3>1, <3>2
  <2>3. EntryOf(file) = RamBase
    BY <1>1, <1>3, Constants DEF EntryOf
  <2>4. par'.ExecutingAddr = EntryOf(file)' /\ {"CodeOffset", "ExecutingAddr"} \subseteq DOMAIN par'
    BY <1>1, <1>5, <1>7, <2>3, SameFile
  <2> QED
    BY <1>7, <2>2, <2>4 DEF Runs
<1> QED
  BY <1>2, <1>6, <1>7 DEF LoadImage, Downloads, Parses, Goes

LEMMA RunInit ==
  ASSUME Init, HasImage
  PROVE  Runs
<1>1. /\ file \in Files /\ words = Layout(file) /\ pc \in {"containers", "search"}
      /\ next = 0 /\ loads = <<>>
      /\ par = [PhyRAMAddr4KRL |-> 0, CodeOffset |-> 0, ExecutingAddr |-> 0, pIVT |-> 0]
  BY DEF Init
<1>2. Loaded(0)
  BY <1>1, LoadedNone DEF Laid, HasImage
<1>3. {"CodeOffset", "ExecutingAddr"} \subseteq DOMAIN par
  BY <1>1
<1> QED
  BY <1>1, <1>2, <1>3 DEF Runs

LEMMA RunEnded ==
  ASSUME Runs, UNCHANGED vars
  PROVE  Runs'
<1>1. UNCHANGED <<file, words, fit, pc, par, next, loads>>
  BY DEF vars
<1>2. \A n : Loaded(n)' <=> Loaded(n)
  BY <1>1, LoadedSame
<1>3. /\ Len(Asked(file))' = Len(Asked(file)) /\ Loaded(Len(Asked(file)))' <=> Loaded(Len(Asked(file)))
      /\ Loadables(file)' = Loadables(file) /\ Len(ImagesOf(file))' = Len(ImagesOf(file))
      /\ EntryOf(file)' = EntryOf(file)
  BY <1>1, SameFile DEF Loaded
<1>4. Loaded(1 + next)' <=> Loaded(1 + next)
  BY <1>1, SameFile DEF Loaded
<1>5. LastIsNext' <=> LastIsNext
  BY <1>1, SameFile DEF LastIsNext, Loaded
<1>6. PluginIsNext' <=> PluginIsNext
  BY <1>1 DEF PluginIsNext
<1>7. \A n, m : FitIsNext(n, m)' <=> FitIsNext(n, m)
  BY <1>1, SameFile DEF FitIsNext, Loaded
<1>8. FitIsNext(3 + next, next)' <=> FitIsNext(3 + next, next)
  BY <1>1, SameFile DEF FitIsNext, Loaded, EntryUpto
<1>9. CASE pc \in {"search", "headers", "containers", "plugin", "payload", "dcd", "load"}
  BY <1>1, <1>2, <1>5, <1>6, <1>9 DEF Runs
<1>10. CASE pc \in {"firmware", "fdt"}
  BY <1>1, <1>7, <1>10 DEF Runs
<1>11. CASE pc = "loadables"
  BY <1>1, <1>3, <1>8, <1>11 DEF Runs
<1>12. CASE pc \in {"multiDcd", "initial", "images"}
  BY <1>1, <1>2, <1>3, <1>4, <1>12 DEF Runs
<1>13. CASE pc = "done"
  BY <1>1, <1>3, <1>13 DEF Runs
<1>14. CASE pc = "failed"
  <2>1. PICK n : Loaded(n)
    BY <1>14 DEF Runs
  <2> QED
    BY <1>1, <1>14, <2>1, RunsFails
<1> QED
  BY <1>9, <1>10, <1>11, <1>12, <1>13, <1>14 DEF Runs

LEMMA RunStep ==
  ASSUME Inv, FindsTheNamed, RunInv, [Next]_vars
  PROVE  RunInv'
<1> SUFFICES ASSUME HasImage', IvtFirst(file)' PROVE Runs'
  BY DEF RunInv
<1>1. file' = file
  <2>1. CASE FindIvt \/ ReadHeaders \/ FindContainers
    BY <2>1 DEF FindIvt, ReadHeaders, FindContainers, Parses, Goes
  <2>2. CASE UNCHANGED vars
    BY <2>2 DEF vars
  <2> QED
    BY <2>1, <2>2, RestKeeps DEF Next, Step
<1>2. HasImage /\ IvtFirst(file)
  BY <1>1 DEF HasImage, IvtFirst
<1>3. Ready /\ Runs
  BY <1>2 DEF Ready, RunInv, Inv, Laid, HasImage
<1>4. CASE UNCHANGED vars
  BY <1>3, <1>4, RunEnded
<1>5. CASE Ended
  BY <1>3, <1>5, RunEnded DEF Ended
<1>6. CASE Step
  BY <1>3, <1>6, RunsSearch, RunsHeaders, RunsPlugin, RunsPayload, RunsDcd, RunsLoad, RunsFitFirmware,
     RunsFitFdt, RunsFitLoadable, RunsContainers, RunsMultiDcd, RunsInitial, RunsImage DEF Step
<1> QED
  BY <1>4, <1>5, <1>6 DEF Next

LEMMA RunHolds ==
  ASSUME Inv, RunInv
  PROVE  RunsWhatIsAsked
<1> SUFFICES ASSUME HasImage, IvtFirst(file), Laid, Runs
             PROVE  /\ IsPrefix(loads, Asked(file))
                    /\ pc = "done" => loads = Asked(file) /\ par.ExecutingAddr = EntryOf(file)
  BY DEF RunsWhatIsAsked, RunInv, Inv, Laid, HasImage
<1>1. PICK S : Asked(file) \in Seq(S)
  BY AskedOf
<1>2. ASSUME NEW n, Loaded(n)
      PROVE  IsPrefix(loads, Asked(file))
  BY <1>1, <1>2, UptoPrefix DEF Loaded
<1>3. pc = "done" => loads = Asked(file) /\ par.ExecutingAddr = EntryOf(file)
  BY <1>1, UptoEnds DEF Runs, Loaded
<1>4. \E n : Loaded(n)
  BY DEF Runs, LastIsNext, FitIsNext
<1> QED
  BY <1>2, <1>3, <1>4

\* Whatever the files are, if they are well made, those with a legacy image or containers begin
\* with their IVT, and a look into the tree of a FIT finds what its default configuration
\* names, what is downloaded and started is what the file describes (MxHidDevice.cpp:517-816).
THEOREM AskedIsRun == Spec /\ []FindsTheNamed => []RunsWhatIsAsked
<1>1. Init => Inv /\ RunInv
  BY InitInv, RunInit DEF RunInv
<1>2. Inv /\ RunInv /\ FindsTheNamed /\ [Next]_vars => Inv' /\ RunInv'
  BY StepInv, RunStep
<1>3. Inv /\ RunInv => RunsWhatIsAsked
  BY RunHolds
<1> QED
  BY <1>1, <1>2, <1>3, PTL DEF Spec

-----------------------------------------------------------------------------
(* The DCD of a file.                                                       *)

LEMMA DcdOf ==
  ASSUME Laid, file.dcd # <<>>
  PROVE  /\ WellMade(file) /\ DcdMade(file) /\ file.kind \in {"code", "containers"}
         /\ DcdWords(file.dcd) \in Seq(Nat)
<1>1. WellMade(file)
  BY LaidWell
<1>2. DcdMade(file)
  BY <1>1 DEF WellMade
<1> QED
  BY <1>1, <1>2, DcdTyped DEF DcdMade

\* The DCD is laid down where DcdOffset says.
LEMMA DcdHeld ==
  ASSUME Laid, file.dcd # <<>>
  PROVE  Holds(words, DcdOffset(file), DcdWords(file.dcd))
<1>1. /\ WellMade(file) /\ file.kind \in {"code", "containers"} /\ DcdWords(file.dcd) \in Seq(Nat)
  BY DcdOf
<1>2. PICK o \in Nat : o = file.at
  BY <1>1, Made
<1>12. PICK ws : ws = DcdWords(file.dcd) /\ ws \in Seq(Nat)
  BY <1>1
<1>13. PICK n \in Nat : n = Len(ws) /\ DOMAIN ws = 1..n
  BY <1>12
<1>3. ws = DcdWords(file.dcd) /\ ws \in Seq(Nat) /\ n = Len(ws) /\ DOMAIN ws = 1..n
  BY <1>12, <1>13
<1>4. PICK p \in Nat, d \in {48, 640} : p = o + d /\ p = DcdOffset(file)
                                      /\ d = IF file.kind = "containers" THEN 640 ELSE 48
  <2>1. CASE file.kind = "containers"
    BY <1>2, <2>1 DEF DcdOffset
  <2>2. CASE file.kind # "containers"
    BY <1>2, <2>2 DEF DcdOffset
  <2> QED
    BY <2>1, <2>2
<1>5. PICK t : t = FirstWords(file)
  OBVIOUS
<1>6. DOMAIN t = 1..12
  BY <1>5 DEF FirstWords, Twelve
<1>7. PICK a, b : a = At(o, t) /\ b = At(p, ws)
  OBVIOUS
<1>8. Solely(a, o, t) /\ Holds(b, p, ws)
  <2>1. DOMAIN t \subseteq Nat \ {0} /\ DOMAIN ws \subseteq Nat \ {0}
    BY <1>3, <1>6
  <2> QED
    BY <1>7, <2>1, AtWord
<1>9. Holds(a ++ b, p, ws)
  <2>1. ASSUME NEW i \in DOMAIN ws
        PROVE  p + 4 * (i - 1) \notin DOMAIN a
    <3> SUFFICES ASSUME p + 4 * (i - 1) \in DOMAIN a PROVE FALSE
      OBVIOUS
    <3>1. PICK j \in 1..12 : p + 4 * (i - 1) = o + 4 * (j - 1)
      BY <1>6, <1>8 DEF Solely
    <3>2. i \in 1..n
      BY <1>3
    <3> QED
      BY <1>4, <3>1, <3>2
  <2> QED
    BY <1>8, <2>1, OverHolds
<1>10. CASE file.kind = "code"
  <2>1. MainWords(file) = IvtAt(file.at, file.sig, RamBase, 0, file.dcd, <<RamBase, file.size, 0>>)
    BY <1>10 DEF MainWords
  <2>2. t = Twelve(file.at, file.sig, RamBase, 0, file.dcd, <<RamBase, file.size, 0>>)
    BY <1>5, <1>10 DEF FirstWords
  <2>3. IvtAt(file.at, file.sig, RamBase, 0, file.dcd, <<RamBase, file.size, 0>>) = a ++ b
    <3>1. p = file.at + 48
      BY <1>2, <1>4, <1>10
    <3> QED
      BY <1>2, <1>3, <1>7, <2>2, <3>1 DEF IvtAt, Twelve
  <2>4. Holds(Layout(file), p, ws)
    BY <1>9, <2>1, <2>3, LayoutFirst
  <2> QED
    BY <1>3, <1>4, <2>4 DEF Laid
<1>11. CASE file.kind = "containers"
  <2> DEFINE second == file.at + IF file.sig = MX8_IVT2 THEN 128 ELSE 64
             c == At(second, <<file.sig, 0, 0, 0, RamBase + file.at + 400, 0, RamBase + second, 0>>)
             d_ == ContainerAt(file.at + 192, file.containers[1])
             e == ContainerAt(file.at + 400, file.containers[2])
  <2>1. MainWords(file) = At(file.at, FirstWords(file)) ++ At(file.at + 640, DcdWords(file.dcd)) ++ (c ++ d_ ++ e)
    BY <1>11 DEF MainWords, FirstWords
  <2> HIDE DEF c, d_, e, second
  <2>2. MainWords(file) = (a ++ b) ++ (c ++ d_ ++ e)
    <3>1. p = file.at + 640
      BY <1>2, <1>4, <1>11
    <3> QED
      BY <1>2, <1>3, <1>5, <1>7, <2>1, <3>1
  <2>3. Holds(MainWords(file), p, ws)
    BY <1>9, <2>2, OverHolds
  <2>4. Holds(Layout(file), p, ws)
    BY <2>3, LayoutFirst
  <2> QED
    BY <1>3, <1>4, <2>4 DEF Laid
<1> QED
  BY <1>1, <1>10, <1>11

LEMMA Four48 ==
  ASSUME NEW a \in Nat, a % 256 = 0
  PROVE  (a + 48) % 4 = 0 /\ (a + 640) % 4 = 0 /\ (48 \div 4) * 4 = 48 /\ (640 \div 4) * 4 = 640
BY Z3T(20)

\* Its words are read as they were written.
LEMMA DcdRead ==
  ASSUME Laid, file.dcd # <<>>
  PROVE  /\ \A j \in 1..Len(DcdWords(file.dcd)) :
              Word(DcdOffset(file) + 4 * (j - 1)) = DcdWords(file.dcd)[j]
         /\ 4 * Len(DcdWords(file.dcd)) <= W /\ Len(DcdWords(file.dcd)) \in Nat
         /\ DcdOffset(file) \in Nat
<1>1. /\ WellMade(file) /\ DcdMade(file) /\ file.kind \in {"code", "containers"} /\ DcdWords(file.dcd) \in Seq(Nat)
  BY DcdOf
<1>2. PICK a \in Nat, s \in Nat : a = file.at /\ s = file.size /\ s < W /\ a % 256 = 0
  BY <1>1, Made
<1>8. PICK ws : ws = DcdWords(file.dcd) /\ ws \in Seq(Nat)
  BY <1>1
<1>9. PICK n \in Nat : n = Len(ws) /\ DOMAIN ws = 1..n
  BY <1>8
<1>3. ws = DcdWords(file.dcd) /\ n = Len(ws) /\ DOMAIN ws = 1..n
  BY <1>8, <1>9
<1>4. PICK o \in Nat : o = DcdOffset(file) /\ o % 4 = 0 /\ o + 4 * n <= s
  <2>1. DcdOffset(file) + 4 * n <= s
    BY <1>1, <1>2, <1>3 DEF DcdMade
  <2>2. CASE file.kind = "containers"
    <3>1. DcdOffset(file) = a + 640
      BY <1>2, <2>2 DEF DcdOffset
    <3> QED
      BY <1>2, <2>1, <3>1, Four48, SMTT(30)
  <2>3. CASE file.kind # "containers"
    <3>1. DcdOffset(file) = a + 48
      BY <1>2, <2>3 DEF DcdOffset
    <3> QED
      BY <1>2, <2>1, <3>1, Four48
  <2> QED
    BY <2>2, <2>3
<1>5. Holds(words, o, ws)
  BY <1>3, <1>4, DcdHeld
<1>6. ASSUME NEW j \in 1..n
      PROVE  Word(o + 4 * (j - 1)) = ws[j]
  <2>1. PICK k \in Nat : k = o + 4 * (j - 1) /\ k < s
    BY <1>4
  <2>2. j \in DOMAIN ws /\ j \in Nat \ {0} /\ k < file.size /\ file.size \in Nat /\ file.size < W
    BY <1>2, <1>3, <2>1
  <2>3. Word(k) = ws[j]
    BY <1>4, <1>5, <2>1, <2>2, WordHeld, SMTT(30)
  <2> QED
    BY <2>1, <2>3
<1>7. 4 * n <= W
  BY <1>2, <1>4, WIs
<1> QED
  BY <1>3, <1>4, <1>6, <1>7

LEMMA DcdHeader ==
  ASSUME NEW n \in Nat, 4 * n < 65536
  PROVE  Length(Header(DCD_TAG, 4 * n)) = 4 * n
<1>1. PICK len \in Nat : len = 4 * n /\ len < 65536
  OBVIOUS
<1>2. PICK tag \in Nat : tag = DCD_TAG
  BY DEF DCD_TAG
<1>3. Length(Header(tag, len)) = len
  BY <1>1, <1>2, HeaderIs
<1> QED
  BY <1>1, <1>2, <1>3

\* What RunDCD sends for the DCD of the file.
Sent(r) ==
  IF file.dev = "MX50" THEN r = FlattenSeq([i \in DOMAIN file.dcd |-> Written(file.dcd[i])])
  ELSE /\ Len(r) = 1 /\ r[1][2] = 4 * Len(DcdWords(file.dcd))
       /\ \A i \in DOMAIN DcdWords(file.dcd) :
            Word(r[1][1] + 4 * (i - 1)) = DcdWords(file.dcd)[i]

LEMMA DcdSent ==
  ASSUME Laid, file.dcd # <<>>, NEW from, from = DcdOffset(file), NEW size, size = Length(Word(from)), NEW r,
         r = IF file.dev = "MX50" THEN DcdRegisters(from) ELSE <<<<from, size>>>>
  PROVE  Sent(r)
<1>1. DcdMade(file) /\ DcdWords(file.dcd) \in Seq(Nat)
  BY DcdOf
<1>6. PICK ws : ws = DcdWords(file.dcd) /\ ws \in Seq(Nat)
  BY <1>1
<1>7. PICK n \in Nat : n = Len(ws) /\ DOMAIN ws = 1..n
  BY <1>6
<1>2. ws = DcdWords(file.dcd) /\ n = Len(ws) /\ DOMAIN ws = 1..n
  BY <1>6, <1>7
<1>3. (\A j \in 1..n : Word(from + 4 * (j - 1)) = ws[j]) /\ 4 * n <= W /\ from \in Nat
  BY <1>2, DcdRead
<1>4. CASE file.dev = "MX50"
  <2>1. \A j \in 1..Len(DcdWords(file.dcd)) : DcdWord(from, j - 1) = DcdWords(file.dcd)[j]
    BY <1>2, <1>3 DEF DcdWord
  <2>2. PICK f : f = file /\ DcdMade(f) /\ f.dcd # <<>>
    BY <1>1
  <2>3. DcdRegisters(from) = FlattenSeq([i \in DOMAIN f.dcd |-> Written(f.dcd[i])])
    <3>1. DcdReads(f, from)
      BY <1>2, <1>3, <2>1, <2>2 DEF DcdReads
    <3> QED
      BY <2>2, <3>1, RegistersAre DEF RegistersOf
  <2> QED
    BY <1>4, <2>2, <2>3 DEF Sent
<1>5. CASE file.dev # "MX50"
  <2>1. r = <<<<from, size>>>>
    BY <1>5
  <2>2. size = 4 * n
    <3>1. 1 \in 1..n /\ ws[1] = Header(DCD_TAG, 4 * n)
      <4>1. PICK k, B, R : Parts(file.dcd, k, B, R)
        BY <1>1, DcdParts
      <4>2. PICK e, h : e = B[k] /\ h = Header(DCD_TAG, 4 + 4 * Len(e))
        OBVIOUS
      <4>3. e \in Seq(Nat) /\ ws = <<h>> \o e
        <5>1. k \in 0..k /\ B \in [0..k -> Seq(Nat)]
          BY <4>1 DEF Parts
        <5> QED
          BY <1>2, <4>1, <4>2, <5>1 DEF Parts
      <4>4. PICK l \in Nat : l = Len(e)
        BY <4>3
      <4>5. h \in Nat
        BY <4>2, <4>4 DEF Header, DCD_TAG
      <4>6. Len(ws) = 1 + l /\ ws[1] = h
        BY <4>3, <4>4, <4>5
      <4>7. n = 1 + l /\ 4 + 4 * l = 4 * n /\ 1 \in 1..n
        BY <1>2, <4>6
      <4> QED
        BY <4>2, <4>4, <4>6, <4>7
    <3>2. Word(from) = Header(DCD_TAG, 4 * n)
      <4>1. from + 4 * (1 - 1) = from
        BY <1>3
      <4> QED
        BY <1>3, <3>1, <4>1
    <3>3. 4 * n < 65536
      BY <1>1, <1>2 DEF DcdMade
    <3>4. Length(Header(DCD_TAG, 4 * n)) = 4 * n
      BY <3>3, DcdHeader
    <3> QED
      BY <3>2, <3>4
  <2>3. Len(r) = 1 /\ r[1] = <<from, size>> /\ r[1][1] = from /\ r[1][2] = size
    BY <2>1
  <2> QED
    BY <1>2, <1>3, <1>5, <2>2, <2>3 DEF Sent
<1> QED
  BY <1>4, <1>5

\* The place of a DCD that an IVT gives.
LEMMA PlaceOf ==
  ASSUME NEW a \in Nat, NEW d \in {48, 640}, d < W, NEW addr, NEW self,
         self = RamBase + a, addr = RamBase + a + d
  PROVE  Place(a, addr, self) = a + d
<1>1. addr - self = d
  BY Constants
<1>2. d \in 0..W - 1
  BY WIs
<1>3. d % W = d
  BY <1>2, SmallMod
<1>4. (d \div 4) * 4 = d
  BY Z3T(20)
<1> QED
  BY <1>1, <1>3, <1>4 DEF Place

LEMMA CodeDcd ==
  ASSUME Laid, file.dcd # <<>>, file.kind = "code"
  PROVE  LET o == file.at IN
         /\ PluginFlag(o) = 0 /\ Reserved(o) = 0 /\ DCDAddress(o) # 0
         /\ Place(o, DCDAddress(o), Self(o)) = DcdOffset(file)
<1>1. WellMade(file) /\ Holds(words, file.at, FirstWords(file))
  BY LaidWell
<1>2. /\ file.size \in Nat /\ file.size < W
      /\ file.at \in Nat /\ file.at % 256 = 0 /\ file.at + 256 <= file.size
  BY <1>1, Made
<1>3. file.at % 4 = 0 /\ file.at + 48 <= file.size
  BY <1>2, RoomIn
<1>4. RamBase \in Nat
  BY Constants
<1>5. PICK boot : boot = <<RamBase, file.size, 0>>
  OBVIOUS
<1>6. FirstWords(file) = Twelve(file.at, file.sig, RamBase, 0, file.dcd, boot)
  BY <1>5 DEF FirstWords
<1>7. /\ Reserved(file.at) = 0 /\ Self(file.at) = RamBase + file.at
      /\ Word(file.at + 12) = IF file.dcd = <<>> THEN 0 ELSE RamBase + file.at + 48
      /\ PluginFlag(file.at) = boot[3]
  BY <1>1, <1>2, <1>3, <1>4, <1>6, IvtRead, SMTT(30)
<1>8. DCDAddress(file.at) = RamBase + file.at + 48 /\ PluginFlag(file.at) = 0
  BY <1>5, <1>7 DEF DCDAddress
<1>9. RamBase + file.at + 48 # 0
  BY <1>2, <1>4
<1>10. 256 <= W
  <2>1. PICK a \in Nat, s \in Nat : a = file.at /\ s = file.size /\ s < W /\ a + 256 <= s
    BY <1>2
  <2> QED
    BY <2>1, WIs
<1>11. PICK a \in Nat, d \in {48, 640} : a = file.at /\ d = 48
  BY <1>2
<1>12. Place(a, DCDAddress(a), Self(a)) = a + d
  <2>1. PICK addr, self : addr = DCDAddress(a) /\ self = Self(a)
    OBVIOUS
  <2>2. self = RamBase + a /\ addr = RamBase + a + d
    BY <1>7, <1>8, <1>11, <2>1
  <2>3. Place(a, addr, self) = a + d
    <3>1. d < W
      BY <1>10, <1>11, WIs
    <3> QED
      BY <2>2, <3>1, PlaceOf
  <2> QED
    BY <2>1, <2>3
<1>13. DcdOffset(file) = file.at + 48
  BY DEF DcdOffset
<1> QED
  BY <1>7, <1>8, <1>9, <1>11, <1>12, <1>13

LEMMA MultiDcdAt ==
  ASSUME Laid, file.dcd # <<>>, file.kind = "containers"
  PROVE  LET o == file.at IN
         /\ Word(o + 8) # 0 /\ Place(o, Word(o + 8), SelfV2(o)) = DcdOffset(file)
<1>1. WellMade(file) /\ Holds(words, file.at, FirstWords(file))
  BY LaidWell
<1>2. PICK a \in Nat, s \in Nat : a = file.at /\ s = file.size /\ s < W /\ a % 256 = 0 /\ a + 1024 <= s
  <2>1. file.at + 1024 <= file.size
    BY <1>1 DEF WellMade
  <2> QED
    BY <1>1, <2>1, Made
<1>3. PICK ws : ws = FirstWords(file)
  OBVIOUS
<1>4. DOMAIN ws = 1..12 /\ ws[3] = RamBase + file.at + 640 /\ ws[7] = RamBase + file.at
  BY <1>3 DEF FirstWords
<1>5. a % 4 = 0 /\ Holds(words, a, ws) /\ file.size \in Nat /\ file.size < W
  BY <1>1, <1>2, <1>3, Fourth
<1>6. Word(a + 8) = ws[3]
  <2>1. PICK k \in Nat, i \in DOMAIN ws : k = a + 8 /\ i = 3 /\ i \in Nat \ {0} /\ k = a + 4 * (i - 1) /\ k < file.size
    BY <1>2, <1>4
  <2> QED
    BY <1>5, <2>1, WordHeld
<1>7. SelfV2(a) = ws[7]
  <2>1. PICK k \in Nat, i \in DOMAIN ws : k = a + 24 /\ i = 7 /\ i \in Nat \ {0} /\ k = a + 4 * (i - 1) /\ k < file.size
    BY <1>2, <1>4
  <2> QED
    BY <1>5, <2>1, WordHeld DEF SelfV2
<1>8. RamBase + a + 640 # 0 /\ 1024 <= W
  <2>1. RamBase + a + 640 # 0
    BY Constants
  <2>2. 1024 <= W
    BY <1>2, WIs
  <2> QED
    BY <2>1, <2>2
<1>9. PICK d \in {48, 640} : d = 640
  OBVIOUS
<1>10. Place(a, Word(a + 8), SelfV2(a)) = a + d
  <2>1. PICK addr, self : addr = Word(a + 8) /\ self = SelfV2(a)
    OBVIOUS
  <2>2. self = RamBase + a /\ addr = RamBase + a + d
    BY <1>2, <1>4, <1>6, <1>7, <1>9, <2>1
  <2>3. Place(a, addr, self) = a + d
    <3>1. d < W
      BY <1>8, <1>9, WIs
    <3> QED
      BY <2>2, <3>1, PlaceOf
  <2> QED
    BY <2>1, <2>3
<1>11. DcdOffset(file) = file.at + 640
  BY DEF DcdOffset
<1> QED
  BY <1>2, <1>4, <1>6, <1>8, <1>9, <1>10, <1>11
-----------------------------------------------------------------------------
(* The registers as an invariant.                                           *)

\* How a file with a DCD goes: it is run once, before anything is downloaded.
RunsTheDcd ==
  /\ pc \in {"search", "headers", "dcd", "containers", "multiDcd", "load", "initial", "images", "done", "failed"}
  /\ pc = "dcd" => file.kind = "code"
  /\ pc = "multiDcd" => file.kind = "containers"
  /\ pc \in {"load", "initial", "images", "done"} => Sent(regs)

RegsInv == HasImage /\ file.dcd # <<>> => RunsTheDcd

\* The registers sent stay what they are.
LEMMA SentKept ==
  ASSUME RunsTheDcd, pc \in {"load", "initial", "images", "done"}, UNCHANGED <<file, words, regs>>,
         pc' \in {"initial", "images", "load", "done", "failed"}
  PROVE  RunsTheDcd'
BY DEF RunsTheDcd, Sent, Word

\* Whatever RunDCD is told of the DCD's place, it sends the file's or it fails.
LEMMA DcdRun ==
  ASSUME Laid, file.dcd # <<>>, NEW from, from = DcdOffset(file), NEW to, to \in {"load", "initial"},
         RunDCD(from, to)
  PROVE  RunsTheDcd'
<1>1. CASE Fails
  BY <1>1 DEF Fails, Parses, Goes, RunsTheDcd
<1>2. CASE /\ regs' = IF file.dev = "MX50" THEN DcdRegisters(from) ELSE <<<<from, Length(Word(from))>>>>
           /\ Goes(to)
  <2>1. PICK r, size : r = regs' /\ size = Length(Word(from))
    OBVIOUS
  <2>2. r = IF file.dev = "MX50" THEN DcdRegisters(from) ELSE <<<<from, size>>>>
    BY <1>2, <2>1
  <2>3. Sent(r)
    BY <2>1, <2>2, DcdSent
  <2>4. pc' = to /\ UNCHANGED <<file, words>>
    BY <1>2 DEF Goes
  <2>5. Sent(regs)'
    BY <2>1, <2>3, <2>4 DEF Sent, Word
  <2> QED
    BY <2>4, <2>5 DEF RunsTheDcd
<1> QED
  BY <1>1, <1>2 DEF RunDCD

LEMMA RegsStep ==
  ASSUME Inv, RegsInv, [Next]_vars
  PROVE  RegsInv'
<1> SUFFICES ASSUME HasImage', file'.dcd # <<>> PROVE RunsTheDcd'
  BY DEF RegsInv
<1>1. file' = file /\ words' = words
  <2>1. CASE FindIvt \/ ReadHeaders \/ FindContainers
    BY <2>1 DEF FindIvt, ReadHeaders, FindContainers, Parses, Goes
  <2>2. CASE UNCHANGED vars
    BY <2>2 DEF vars
  <2> QED
    BY <2>1, <2>2, RestKeeps DEF Next, Step
<1>2. HasImage /\ file.dcd # <<>>
  BY <1>1 DEF HasImage
<1>3. Laid /\ Searches /\ RunsTheDcd
  BY <1>2 DEF RegsInv, Inv, Laid, HasImage
<1>4. file.kind \in {"code", "containers"}
  BY <1>2, <1>3, DcdOf
<1>5. CASE FindIvt
  <2>1. pc' = "headers"
    BY <1>5 DEF FindIvt, Parses, Goes
  <2> QED
    BY <2>1 DEF RunsTheDcd
<1>6. CASE ReadHeaders
  <2>1. /\ pc = "headers"
        /\ \/ PluginFlag(ImgIVTOffset) \notin {0, 1} /\ pc' = "search"
           \/ PluginFlag(ImgIVTOffset) \in {0, 1}
              /\ pc' = (CASE PluginFlag(ImgIVTOffset) = 1 \/ Reserved(ImgIVTOffset) # 0 -> "plugin"
                          [] PluginFlag(ImgIVTOffset) = 0 /\ Reserved(ImgIVTOffset) = 0
                               /\ DCDAddress(ImgIVTOffset) # 0 -> "dcd"
                          [] OTHER -> "load")
    BY <1>6 DEF ReadHeaders, Parses, Goes
  <2>2. file.kind = "code" /\ ImgIVTOffset \in file.hdmi \cup {file.at}
    BY <1>3, <1>4, <2>1 DEF Searches
  <2>3. CASE PluginFlag(ImgIVTOffset) \notin {0, 1}
    <3>1. pc' = "search"
      BY <2>1, <2>3
    <3> QED
      BY <3>1 DEF RunsTheDcd
  <2>4. CASE PluginFlag(ImgIVTOffset) \in {0, 1}
    <3>1. ImgIVTOffset = file.at
      BY <1>3, <2>2, <2>4, AtHdmi
    <3>2. PluginFlag(ImgIVTOffset) = 0 /\ Reserved(ImgIVTOffset) = 0 /\ DCDAddress(ImgIVTOffset) # 0
      BY <1>2, <1>3, <2>2, <3>1, CodeDcd
    <3>3. pc' = "dcd"
      BY <2>1, <3>2
    <3> QED
      BY <1>1, <2>2, <3>3 DEF RunsTheDcd
  <2> QED
    BY <2>3, <2>4
<1>7. CASE RunSingleDCD
  <2>1. pc = "dcd"
    BY <1>7 DEF RunSingleDCD
  <2>2. file.kind = "code" /\ ImgIVTOffset = file.at
    BY <1>3, <2>1 DEF RunsTheDcd, Searches
  <2>3. PICK from : from = Place(ImgIVTOffset, DCDAddress(ImgIVTOffset), Self(ImgIVTOffset))
    OBVIOUS
  <2>4. from = DcdOffset(file)
    BY <1>2, <1>3, <2>2, <2>3, CodeDcd
  <2>5. RunDCD(from, "load")
    BY <1>7, <2>3 DEF RunSingleDCD
  <2> QED
    BY <1>2, <1>3, <2>4, <2>5, DcdRun
<1>8. CASE RunMultiDCD
  <2>1. pc = "multiDcd"
    BY <1>8 DEF RunMultiDCD
  <2>2. file.kind = "containers" /\ ImgIVTOffset = file.at
    BY <1>3, <2>1 DEF RunsTheDcd, Searches
  <2>3. PICK from : from = Place(ImgIVTOffset, Word(ImgIVTOffset + 8), SelfV2(ImgIVTOffset))
    OBVIOUS
  <2>4. from = DcdOffset(file)
    BY <1>2, <1>3, <2>2, <2>3, MultiDcdAt
  <2>5. RunDCD(from, "initial")
    BY <1>8, <2>3 DEF RunMultiDCD
  <2> QED
    BY <1>2, <1>3, <2>4, <2>5, DcdRun
<1>9. CASE LoadFirmware \/ LoadInitial \/ LoadImage
  <2>1. pc \in {"load", "initial", "images"} /\ pc' \in {"images", "done", "failed"} /\ regs' = regs
    <3>1. CASE LoadFirmware
      BY <3>1 DEF LoadFirmware, Fails, Downloads, Parses, Goes
    <3>2. CASE LoadInitial
      BY <3>2 DEF LoadInitial, Fails, Downloads, Parses, Goes
    <3>3. CASE LoadImage
      BY <3>3 DEF LoadImage, Fails, Downloads, Parses, Goes
    <3> QED
      BY <1>9, <3>1, <3>2, <3>3
  <2> QED
    BY <1>1, <1>3, <2>1, SentKept
<1>10. CASE FindContainers
  <2>1. /\ pc = "containers" /\ ImgIVTOffset' = GetIvtOffset(InitialSize, 0)
        /\ pc' = (IF Word(ImgIVTOffset') \notin {MX8_IVT, MX8_IVT2} THEN "failed"
                  ELSE IF Word(ImgIVTOffset' + 8) # 0 THEN "multiDcd" ELSE "initial")
    BY <1>10 DEF FindContainers, Parses, Goes
  <2>2. file.kind = "containers"
    BY <1>3, <2>1 DEF Searches
  <2>3. ImgIVTOffset' = file.at
    <3>1. file.at \in Nat /\ file.hdmi = {} /\ file.at < InitialSize
      BY <1>3, <2>2, LaidWell, Made
    <3>2. InitialSize \in Nat /\ 0 % 256 = 0 /\ 0 <= file.at
      BY <3>1, ImagesAssumption
    <3>3. GetIvtOffset(InitialSize, 0) \in file.hdmi \cup {file.at}
      BY <1>3, <3>1, <3>2, Finds
    <3> QED
      BY <2>1, <3>1, <3>3
  <2>4. Word(file.at + 8) # 0
    BY <1>2, <1>3, <2>2, MultiDcdAt
  <2>5. pc' \in {"failed", "multiDcd"}
    BY <2>1, <2>3, <2>4
  <2> QED
    BY <1>1, <2>2, <2>5 DEF RunsTheDcd
<1>11. CASE RunPlugIn \/ FindPayload \/ FitFirmware \/ FitFdt \/ FitLoadable
  <2>1. pc \in {"plugin", "payload", "firmware", "fdt", "loadables"}
    BY <1>11 DEF RunPlugIn, FindPayload, FitFirmware, FitFdt, FitLoadable
  <2> QED
    BY <1>3, <2>1 DEF RunsTheDcd
<1>12. CASE UNCHANGED vars \/ Ended
  BY <1>3, <1>12 DEF Ended, vars, RunsTheDcd, Sent, Word
<1> QED
  BY <1>5, <1>6, <1>7, <1>8, <1>9, <1>10, <1>11, <1>12 DEF Next, Step

\* Whatever the files are, if they are well made a part is given the registers, or the
\* table, that the file's DCD holds, before anything is downloaded.
THEOREM RegistersAreSet == Spec => []SetsRegisters
<1>1. Init => Inv /\ RegsInv
  <2>1. Init => RunsTheDcd
    BY DEF Init, RunsTheDcd
  <2> QED
    BY <2>1, InitInv DEF RegsInv
<1>2. Inv /\ RegsInv /\ [Next]_vars => Inv' /\ RegsInv'
  BY StepInv, RegsStep
<1>3. Inv /\ RegsInv => SetsRegisters
  BY DEF RegsInv, RunsTheDcd, Sent, SetsRegisters
<1> QED
  BY <1>1, <1>2, <1>3, PTL DEF Spec
=============================================================================
