-------------------------- MODULE HeaderPairsProofs --------------------------
(***************************************************************************)
(* Header lists of any length, with names and values of any characters. The *)
(* block of a list has three parts: its length, eight cells of sizes for    *)
(* each pair, and the texts. Where the texts of each pair end is one        *)
(* function, ends; the pass that computes the size, the pass that fills the *)
(* block and the reader all go along it.                                    *)
(***************************************************************************)
EXTENDS HeaderPairs, SequenceTheorems, WellFoundedInduction, TLAPS

Characters == UNION {{s[i] : i \in DOMAIN s} : s \in Strings}
Cells == Characters \cup Nat \cup {"0", "of", "four", "bytes"}

AnyLists == Seq(Strings \X Strings)

LEMMA StringsAreCells ==
  ASSUME NEW s \in Strings
  PROVE  s \in Seq(Cells) /\ Len(s) \in Nat
<1> DEFINE C == {s[i] : i \in DOMAIN s}
<1>1. s \in Seq(C)
  BY PairsAssumption
<1>2. C \subseteq Cells
  BY DEF Cells, Characters
<1> HIDE DEF C
<1>3. s \in Seq(Cells)
  BY <1>1, <1>2
<1> QED BY <1>3

-----------------------------------------------------------------------------
(* Induction over a set of numbers, and functions defined by a step from    *)
(* one number to the next.                                                  *)
LEMMA AllNaturals ==
  ASSUME NEW T, 0 \in T, \A n \in T \cap Nat : n + 1 \in T
  PROVE  Nat \subseteq T
<1> DEFINE R == OpToRel(<, Nat)
           S == Nat \ T
<1>1. IsWellFoundedOn(R, Nat)
  BY NatLessThanWellFounded
<1> SUFFICES ASSUME S # {} PROVE FALSE
  OBVIOUS
<1>2. PICK x \in S : \A y \in S : ~ (<<y, x>> \in R)
  <2>1. S \subseteq Nat
    OBVIOUS
  <2> HIDE DEF R, S
  <2> QED BY <1>1, <2>1, WFMin
<1>3. x - 1 \in T \cap Nat
  <2>1. x \in Nat /\ x # 0
    OBVIOUS
  <2>2. x - 1 \in Nat /\ x - 1 < x
    BY <2>1
  <2>3. x - 1 \notin S
    BY <1>2, <2>1, <2>2 DEF OpToRel
  <2> QED BY <2>2, <2>3
<1>4. (x - 1) + 1 = x
  OBVIOUS
<1> QED BY <1>3, <1>4

LEMMA Upward ==
  ASSUME NEW a \in Nat, NEW b \in Nat, NEW T, a \in T,
         \A k \in a .. b : k + 1 <= b /\ k \in T => k + 1 \in T
  PROVE  \A k \in a .. b : k \in T
<1> DEFINE S == {k \in Nat : a + k <= b => a + k \in T}
<1>1. 0 \in S
  OBVIOUS
<1>2. ASSUME NEW k \in S \cap Nat PROVE k + 1 \in S
  <2>1. CASE a + (k + 1) <= b
    <3>1. a + k \in a .. b /\ (a + k) + 1 <= b /\ a + k \in T
      BY <2>1
    <3>2. (a + k) + 1 \in T /\ (a + k) + 1 = a + (k + 1)
      BY <3>1
    <3> QED BY <3>2
  <2>2. CASE ~ (a + (k + 1) <= b)
    BY <2>2
  <2> QED BY <2>1, <2>2
<1>3. Nat \subseteq S
  <2> HIDE DEF S
  <2> QED BY <1>1, <1>2, AllNaturals
<1>4. ASSUME NEW k \in a .. b PROVE k \in T
  <2>1. k - a \in S /\ a + (k - a) = k /\ k <= b
    BY <1>3
  <2> QED BY <2>1
<1> QED BY <1>4

StepsTo(X, x, N, F, g) ==
  g \in [0 .. N -> X] /\ g[0] = x /\ \A i \in 1 .. N : g[i] = F[<<g[i - 1], i>>]

LEMMA Steps ==
  ASSUME NEW X, NEW x \in X, NEW N \in Nat, NEW F \in [X \X (1 .. N) -> X]
  PROVE  \E g : StepsTo(X, x, N, F, g)
<1> DEFINE Good(k, g) == g \in [0 .. k -> X] /\ g[0] = x
                           /\ \A i \in 1 .. k : g[i] = F[<<g[i - 1], i>>]
           T == {k \in Nat : \E g : Good(k, g)}
<1>1. 0 \in T
  <2>1. Good(0, [i \in 0 .. 0 |-> x])
    OBVIOUS
  <2> QED BY <2>1
<1>2. ASSUME NEW k \in 0 .. N, k + 1 <= N, NEW g, Good(k, g)
      PROVE  \E h : Good(k + 1, h)
  <2> DEFINE h == [i \in 0 .. k + 1 |-> IF i = k + 1 THEN F[<<g[k], k + 1>>] ELSE g[i]]
  <2>2. F[<<g[k], k + 1>>] \in X
    BY <1>2
  <2>3. h \in [0 .. k + 1 -> X] /\ h[0] = x
    BY <1>2, <2>2
  <2>4. ASSUME NEW i \in 1 .. k + 1 PROVE h[i] = F[<<h[i - 1], i>>]
    <3>1. CASE i = k + 1
      <4>1. h[i] = F[<<g[k], k + 1>>] /\ i - 1 = k
        BY <3>1
      <4>2. h[k] = g[k]
        OBVIOUS
      <4> HIDE DEF h
      <4> QED BY <3>1, <4>1, <4>2
    <3>2. CASE i # k + 1
      BY <1>2, <3>2
    <3> QED BY <3>1, <3>2
  <2>5. Good(k + 1, h)
    BY <2>3, <2>4
  <2> QED BY <2>5
<1>3. N \in T
  <2>1. \A k \in 0 .. N : k + 1 <= N /\ k \in T => k + 1 \in T
    <3> HIDE DEF Good
    <3> QED BY <1>2
  <2> HIDE DEF T, Good
  <2> QED BY <1>1, <2>1, Upward
<1> QED BY <1>3 DEF StepsTo

-----------------------------------------------------------------------------
IsJoin(c, a, b) ==
  /\ Len(a) \in Nat /\ Len(b) \in Nat /\ Len(c) = Len(a) + Len(b)
  /\ \A j \in 1 .. Len(a) : c[j] = a[j]
  /\ \A j \in 1 .. Len(b) : c[Len(a) + j] = b[j]

LEMMA Joined ==
  ASSUME NEW P, NEW a \in Seq(P), NEW b \in Seq(P)
  PROVE  a \o b \in Seq(P) /\ IsJoin(a \o b, a, b)
  BY DEF IsJoin

(* Sequences that grow: g[i] is the first i of s, one after the other.      *)
Grows(s, g) ==
  /\ Len(s) \in Nat /\ g[0] = <<>>
  /\ \A i \in 1 .. Len(s) : IsJoin(g[i], g[i - 1], s[i])

LEMMA GrowthKeeps ==
  ASSUME NEW s, NEW g, Grows(s, g), NEW i \in 1 .. Len(s)
  PROVE  \A k \in i .. Len(s) :
           /\ Len(g[k]) \in Nat /\ Len(g[i]) <= Len(g[k])
           /\ \A j \in 1 .. Len(g[i]) : g[k][j] = g[i][j]
<1> DEFINE Kept(c) == /\ Len(c) \in Nat /\ Len(g[i]) <= Len(c)
                      /\ \A j \in 1 .. Len(g[i]) : c[j] = g[i][j]
           T == {k \in i .. Len(s) : Kept(g[k])}
<1>0. Len(s) \in Nat /\ i \in Nat /\ Len(g[i]) \in Nat
  BY DEF Grows, IsJoin
<1>1. Kept(g[i])
  BY <1>0
<1>2. ASSUME NEW a, NEW b, NEW c, IsJoin(c, a, b), Kept(a) PROVE Kept(c)
  BY <1>0, <1>2 DEF IsJoin
<1> HIDE DEF Kept
<1>3. ASSUME NEW k \in i .. Len(s), k + 1 <= Len(s), k \in T PROVE k + 1 \in T
  <2>1. k + 1 \in 1 .. Len(s) /\ (k + 1) - 1 = k /\ k + 1 \in i .. Len(s)
    BY <1>0, <1>3
  <2>2. IsJoin(g[k + 1], g[k], s[k + 1])
    BY <2>1 DEF Grows
  <2>3. Kept(g[k + 1])
    BY <1>2, <1>3, <2>2
  <2> QED BY <2>1, <2>3
<1>4. i \in T
  BY <1>0, <1>1
<1>5. \A k \in i .. Len(s) : k \in T
  <2> HIDE DEF T
  <2> QED BY <1>0, <1>3, <1>4, Upward
<1> QED BY <1>5 DEF Kept

(* A list of sequences, one after the other: e[i] is where the i-th ends.   *)
LaidOut(c, s, e) ==
  /\ e \in [0 .. Len(s) -> Nat] /\ e[0] = 0 /\ e[Len(s)] = Len(c)
  /\ \A i \in 1 .. Len(s) : e[i] = e[i - 1] + Len(s[i])
  /\ \A i \in 1 .. Len(s) : \A j \in 1 .. Len(s[i]) : c[e[i - 1] + j] = s[i][j]

LEMMA GrownIsLaidOut ==
  ASSUME NEW s, NEW g, Grows(s, g)
  PROVE  \E e : LaidOut(g[Len(s)], s, e)
<1> DEFINE n == Len(s)
           e == [i \in 0 .. n |-> Len(g[i])]
<1>0. n \in Nat /\ g[0] = <<>> /\ \A i \in 1 .. n : IsJoin(g[i], g[i - 1], s[i])
  BY DEF Grows
<1>1. \A i \in 0 .. n : Len(g[i]) \in Nat
  <2>1. \A i \in 1 .. n : Len(g[i]) \in Nat
    BY <1>0 DEF IsJoin
  <2> QED BY <1>0, <2>1
<1>2. e \in [0 .. n -> Nat] /\ e[0] = 0 /\ e[n] = Len(g[n])
  BY <1>0, <1>1
<1>3. \A i \in 1 .. n : e[i] = Len(g[i]) /\ e[i - 1] = Len(g[i - 1])
  BY <1>0
<1> HIDE DEF e
<1>4. \A i \in 1 .. n : e[i] = e[i - 1] + Len(s[i])
  BY <1>0, <1>3 DEF IsJoin
<1>5. ASSUME NEW i \in 1 .. n, NEW j \in 1 .. Len(s[i]) PROVE g[n][e[i - 1] + j] = s[i][j]
  <2> DEFINE x == Len(g[i - 1]) + j
  <2>1. /\ Len(g[i - 1]) \in Nat /\ Len(s[i]) \in Nat
        /\ Len(g[i]) = Len(g[i - 1]) + Len(s[i]) /\ g[i][x] = s[i][j]
    BY <1>0 DEF IsJoin
  <2>2. x \in 1 .. Len(g[i])
    <3>1. \A a, b \in Nat : \A m \in 1 .. b : a + m \in 1 .. a + b
      OBVIOUS
    <3> QED BY <2>1, <3>1, Zenon
  <2>3. n \in i .. n
    BY <1>0
  <2>4. e[i - 1] + j = x
    BY <1>3
  <2> HIDE DEF x
  <2>5. g[n][x] = g[i][x]
    BY <2>2, <2>3, GrowthKeeps
  <2> QED BY <2>1, <2>4, <2>5
<1>6. LaidOut(g[n], s, e)
  BY <1>2, <1>4, <1>5 DEF LaidOut
<1> QED BY <1>6

LEMMA FlattenGrows ==
  ASSUME NEW P, NEW s \in Seq(Seq(P)), Len(s) # 0
  PROVE  \E g : Grows(s, g) /\ FlattenSeq(s) = g[Len(s)] /\ FlattenSeq(s) \in Seq(P)
<1> DEFINE n == Len(s)
           Q == Seq(P)
           A == [p \in Q \X (1 .. n) |-> p[1] \o s[p[2]]]
<1>0. n \in Nat \ {0} /\ \A i \in 1 .. n : s[i] \in Q
  OBVIOUS
<1>e. <<>> \in Q /\ \A t \in Q : <<>> \o t = t
  OBVIOUS
<1>q. \A a, b \in Q : a \o b \in Q /\ IsJoin(a \o b, a, b)
  BY Joined
<1> HIDE DEF n, Q
<1>1. PICK g \in [0 .. n -> Q] :
        g[0] = <<>> /\ \A i \in 1 .. n : g[i] = A[<<g[i - 1], i>>]
  <2>1. A \in [Q \X (1 .. n) -> Q]
    BY <1>0, <1>q
  <2>2. n \in Nat
    BY <1>0
  <2>3. <<>> \in Q
    BY <1>e
  <2> HIDE DEF A
  <2>4. \E g : StepsTo(Q, <<>>, n, A, g)
    BY <2>1, <2>2, <2>3, Steps
  <2> QED BY <2>4 DEF StepsTo
<1>2. \A i \in 1 .. n : g[i - 1] \in Q /\ s[i] \in Q
  BY <1>0, <1>1
<1>3. \A i \in 1 .. n : g[i] = g[i - 1] \o s[i]
  <2> TAKE i \in 1 .. n
  <2>1. A[<<g[i - 1], i>>] = g[i - 1] \o s[i]
    BY <1>2
  <2> HIDE DEF A
  <2> QED BY <1>1, <2>1
<1> HIDE DEF A
<1>4. g[1] = s[1]
  <2>1. 1 \in 1 .. n /\ 1 - 1 = 0
    BY <1>0
  <2>2. g[1] = g[0] \o s[1]
    BY <1>3, <2>1
  <2> QED BY <1>0, <1>1, <1>e, <2>1, <2>2
<1> DEFINE F == CHOOSE f : f = [i \in 1 .. n |-> IF i = 1 THEN s[i] ELSE f[i - 1] \o s[i]]
<1> DEFINE G == [i \in 1 .. n |-> g[i]]
<1>5. G = [i \in 1 .. n |-> IF i = 1 THEN s[i] ELSE G[i - 1] \o s[i]]
  <2>1. ASSUME NEW i \in 1 .. n PROVE G[i] = IF i = 1 THEN s[i] ELSE G[i - 1] \o s[i]
    <3>1. CASE i = 1
      BY <1>4, <3>1
    <3>2. CASE i # 1
      <4>1. i - 1 \in 1 .. n
        BY <1>0, <3>2
      <4> QED BY <1>3, <3>2, <4>1
    <3> QED BY <3>1, <3>2
  <2> QED BY <2>1
<1>6. F = [i \in 1 .. n |-> IF i = 1 THEN s[i] ELSE F[i - 1] \o s[i]]
  <2> HIDE DEF G
  <2> QED BY <1>5, Zenon
<1>7. FlattenSeq(s) = F[n]
  BY Zenon DEF FlattenSeq, n
<1> HIDE DEF F, G
<1>8. \A i \in 1 .. n : F[i] = g[i]
  <2> DEFINE T == {i \in 1 .. n : F[i] = g[i]}
  <2>1. 1 \in T
    BY <1>0, <1>4, <1>6
  <2>2. ASSUME NEW k \in 1 .. n, k + 1 <= n, k \in T PROVE k + 1 \in T
    <3>1. k + 1 \in 1 .. n /\ (k + 1) - 1 = k /\ k + 1 # 1
      BY <1>0, <2>2
    <3>2. F[k + 1] = F[k] \o s[k + 1]
      BY <1>6, <3>1
    <3>3. g[k + 1] = g[k] \o s[k + 1]
      BY <1>3, <3>1
    <3> QED BY <2>2, <3>1, <3>2, <3>3
  <2>3. \A k \in 1 .. n : k \in T
    <3> HIDE DEF T
    <3> QED BY <1>0, <2>1, <2>2, Upward
  <2> QED BY <2>3
<1>9. n \in 1 .. n
  BY <1>0
<1>10. FlattenSeq(s) = g[n] /\ g[n] \in Q
  BY <1>0, <1>1, <1>7, <1>8, <1>9
<1>11. \A i \in 1 .. n : IsJoin(g[i], g[i - 1], s[i])
  <2> TAKE i \in 1 .. n
  <2>1. IsJoin(g[i - 1] \o s[i], g[i - 1], s[i])
    BY <1>2, <1>q
  <2> QED BY <1>3, <2>1
<1>12. n \in Nat
  BY <1>0
<1> QED BY <1>1, <1>10, <1>11, <1>12, Zenon DEF Grows, Q, n

LEMMA FlattenIsLaidOut ==
  ASSUME NEW P, NEW s \in Seq(Seq(P)), Len(s) # 0
  PROVE  FlattenSeq(s) \in Seq(P) /\ \E e : LaidOut(FlattenSeq(s), s, e)
BY FlattenGrows, GrownIsLaidOut

-----------------------------------------------------------------------------
(* The block of a list. The texts of the i-th pair end at ends[i], counted  *)
(* from where the texts begin.                                              *)
Ends(list, ends) ==
  /\ ends \in [0 .. Len(list) -> Nat] /\ ends[0] = 0
  /\ \A i \in 1 .. Len(list) :
       ends[i] = ends[i - 1] + Len(list[i][1]) + Len(list[i][2]) + 2

TextsFrom(list) == 4 + 8 * Len(list)

HoldsSizes(list, cells) ==
  /\ cells[1] = Len(list)
  /\ \A i \in 1 .. Len(list) :
       cells[8 * i - 3] = Len(list[i][1]) /\ cells[8 * i + 1] = Len(list[i][2])

HoldsTexts(list, cells, ends) ==
  \A i \in 1 .. Len(list) :
    /\ \A j \in 1 .. Len(list[i][1]) : cells[TextsFrom(list) + ends[i - 1] + j] = list[i][1][j]
    /\ \A j \in 1 .. Len(list[i][2]) :
         cells[TextsFrom(list) + ends[i - 1] + Len(list[i][1]) + 1 + j] = list[i][2][j]

LEMMA PairFacts ==
  ASSUME NEW list \in AnyLists, NEW i \in 1 .. Len(list)
  PROVE  /\ list[i] = <<list[i][1], list[i][2]>>
         /\ list[i][1] \in Seq(Cells) /\ Len(list[i][1]) \in Nat
         /\ list[i][2] \in Seq(Cells) /\ Len(list[i][2]) \in Nat
<1>1. list[i] \in Strings \X Strings
  BY DEF AnyLists
<1>2. list[i][1] \in Strings /\ list[i][2] \in Strings /\ list[i] = <<list[i][1], list[i][2]>>
  BY <1>1
<1> QED BY <1>2, StringsAreCells

LEMMA WordFacts ==
  ASSUME NEW m \in Nat
  PROVE  Word(m) \in Seq(Cells) /\ Len(Word(m)) = 4 /\ Word(m)[1] = m
<1>1. m \in Cells /\ "of" \in Cells /\ "four" \in Cells /\ "bytes" \in Cells
  BY DEF Cells
<1> QED BY <1>1 DEF Word

IsSizes(t, m, n) == t \in Seq(Cells) /\ Len(t) = 8 /\ t[1] = m /\ t[5] = n

IsTexts(t, a, b) ==
  /\ t \in Seq(Cells) /\ Len(a) \in Nat /\ Len(b) \in Nat
  /\ Len(t) = Len(a) + Len(b) + 2
  /\ \A j \in 1 .. Len(a) : t[j] = a[j]
  /\ \A j \in 1 .. Len(b) : t[Len(a) + 1 + j] = b[j]

LEMMA SizesOfPair ==
  ASSUME NEW m \in Nat, NEW n \in Nat
  PROVE  IsSizes(Word(m) \o Word(n), m, n)
<1> DEFINE a == Word(m)
           b == Word(n)
<1>1. /\ a \in Seq(Cells) /\ Len(a) = 4 /\ a[1] = m
      /\ b \in Seq(Cells) /\ Len(b) = 4 /\ b[1] = n
  BY WordFacts
<1> HIDE DEF a, b
<1>2. a \o b \in Seq(Cells) /\ IsJoin(a \o b, a, b)
  BY <1>1, Joined
<1>3. Len(a \o b) = 8 /\ (a \o b)[1] = m /\ (a \o b)[5] = n
  <2>1. 1 \in 1 .. 4 /\ 4 + 1 = 5
    OBVIOUS
  <2>2. (a \o b)[1] = a[1]
    BY <1>1, <1>2, <2>1 DEF IsJoin
  <2>3. (a \o b)[4 + 1] = b[1]
    BY <1>1, <1>2, <2>1 DEF IsJoin
  <2>4. Len(a \o b) = 4 + 4
    BY <1>1, <1>2 DEF IsJoin
  <2> QED BY <1>1, <2>1, <2>2, <2>3, <2>4
<1> QED BY <1>2, <1>3, Zenon DEF a, b, IsSizes

LEMMA TextsOfPair ==
  ASSUME NEW a \in Seq(Cells), NEW b \in Seq(Cells), NEW t,
         t = a \o <<"0">> \o b \o <<"0">>
  PROVE  IsTexts(t, a, b)
<1> DEFINE z == <<"0">>
           c == a \o z
           d == c \o b
<1>0. z \in Seq(Cells) /\ Len(z) = 1
  BY DEF Cells
<1>1. t = d \o z
  OBVIOUS
<1>2. c \in Seq(Cells) /\ IsJoin(c, a, z)
  <2> HIDE DEF z
  <2> QED BY <1>0, Joined
<1> HIDE DEF z, c
<1>3. d \in Seq(Cells) /\ IsJoin(d, c, b)
  BY <1>2, Joined
<1> HIDE DEF d
<1>4. t \in Seq(Cells) /\ IsJoin(t, d, z)
  BY <1>0, <1>1, <1>3, Joined
<1>5. /\ Len(a) \in Nat /\ Len(b) \in Nat /\ Len(c) = Len(a) + 1
      /\ Len(d) = Len(a) + 1 + Len(b) /\ Len(t) = Len(a) + Len(b) + 2
  BY <1>0, <1>2, <1>3, <1>4 DEF IsJoin
<1>6. ASSUME NEW j \in 1 .. Len(a) PROVE t[j] = a[j]
  <2>1. j \in 1 .. Len(c) /\ j \in 1 .. Len(d)
    BY <1>5
  <2>2. c[j] = a[j]
    BY <1>2 DEF IsJoin
  <2>3. d[j] = c[j]
    BY <1>3, <2>1 DEF IsJoin
  <2>4. t[j] = d[j]
    BY <1>4, <2>1 DEF IsJoin
  <2> QED BY <2>2, <2>3, <2>4
<1>7. ASSUME NEW j \in 1 .. Len(b) PROVE t[Len(a) + 1 + j] = b[j]
  <2>1. Len(c) + j \in 1 .. Len(d) /\ Len(c) + j = Len(a) + 1 + j
    BY <1>5
  <2>2. d[Len(c) + j] = b[j]
    BY <1>3 DEF IsJoin
  <2>3. t[Len(c) + j] = d[Len(c) + j]
    BY <1>4, <2>1 DEF IsJoin
  <2> QED BY <2>1, <2>2, <2>3
<1> QED BY <1>4, <1>5, <1>6, <1>7 DEF IsTexts

SizesOf(list) == [i \in DOMAIN list |-> Word(Len(list[i][1])) \o Word(Len(list[i][2]))]
TextsOf(list) == [i \in DOMAIN list |-> list[i][1] \o <<"0">> \o list[i][2] \o <<"0">>]

(* What the sequences of a list's pairs come to in a row.                   *)
LEMMA InARow ==
  ASSUME NEW list \in AnyLists, Len(list) # 0, NEW s, DOMAIN s = DOMAIN list,
         \A i \in 1 .. Len(list) : s[i] \in Seq(Cells), s = [i \in DOMAIN list |-> s[i]]
  PROVE  /\ FlattenSeq(s) \in Seq(Cells) /\ Len(s) = Len(list)
         /\ \E e : LaidOut(FlattenSeq(s), s, e)
<1>0. Len(list) \in Nat /\ DOMAIN list = 1 .. Len(list)
  BY DEF AnyLists
<1>1. s \in Seq(Seq(Cells)) /\ Len(s) = Len(list)
  <2> DEFINE n == Len(list)
             Q == Seq(Cells)
  <2>1. n \in Nat /\ s = [i \in 1 .. n |-> s[i]] /\ \A i \in 1 .. n : s[i] \in Q
    BY <1>0
  <2> HIDE DEF n, Q
  <2>2. s \in Seq(Q) /\ Len(s) = n
    BY <2>1
  <2> QED BY <2>2 DEF n, Q
<1>2. Len(s) # 0
  BY <1>1
<1> QED BY <1>1, <1>2, FlattenIsLaidOut

SizesPart(list, c) ==
  /\ c \in Seq(Cells) /\ Len(c) = 8 * Len(list)
  /\ \A i \in 1 .. Len(list) :
       c[8 * i - 7] = Len(list[i][1]) /\ c[8 * i - 3] = Len(list[i][2])

TextsPart(list, c, ends) ==
  /\ c \in Seq(Cells) /\ Len(c) = ends[Len(list)]
  /\ \A i \in 1 .. Len(list) :
       /\ \A j \in 1 .. Len(list[i][1]) : c[ends[i - 1] + j] = list[i][1][j]
       /\ \A j \in 1 .. Len(list[i][2]) :
            c[ends[i - 1] + Len(list[i][1]) + 1 + j] = list[i][2][j]

(* Eight cells for each pair.                                               *)
LEMMA SizesAreLaidOut ==
  ASSUME NEW list \in AnyLists, Len(list) # 0
  PROVE  SizesPart(list, FlattenSeq(SizesOf(list)))
<1> DEFINE n == Len(list)
           s == SizesOf(list)
           c == FlattenSeq(s)
<1>0. n \in Nat \ {0} /\ DOMAIN list = 1 .. n
  BY DEF AnyLists
<1>1. s = [i \in DOMAIN list |-> s[i]] /\ DOMAIN s = DOMAIN list
  BY DEF SizesOf
<1>2. \A i \in 1 .. n : IsSizes(s[i], Len(list[i][1]), Len(list[i][2]))
  <2> TAKE i \in 1 .. n
  <2>1. Len(list[i][1]) \in Nat /\ Len(list[i][2]) \in Nat
    BY PairFacts
  <2>2. s[i] = Word(Len(list[i][1])) \o Word(Len(list[i][2]))
    BY <1>0 DEF SizesOf
  <2> HIDE DEF n, s
  <2> QED BY <2>1, <2>2, SizesOfPair
<1> HIDE DEF s
<1>3. \A i \in 1 .. n : s[i] \in Seq(Cells)
  BY <1>2 DEF IsSizes
<1>4. c \in Seq(Cells) /\ Len(s) = n /\ \E e : LaidOut(c, s, e)
  BY <1>0, <1>1, <1>3, InARow
<1>5. PICK e : LaidOut(c, s, e)
  BY <1>4
<1> HIDE DEF n, c
<1>6. /\ e[0] = 0 /\ e[n] = Len(c)
      /\ \A i \in 1 .. n : e[i] = e[i - 1] + 8
      /\ \A i \in 1 .. n : \A j \in 1 .. 8 : c[e[i - 1] + j] = s[i][j]
  BY <1>2, <1>4, <1>5 DEF LaidOut, IsSizes
<1>7. \A i \in 0 .. n : e[i] = 8 * i
  <2> DEFINE T == {i \in 0 .. n : e[i] = 8 * i}
  <2>1. 0 \in T
    BY <1>0, <1>6
  <2>2. ASSUME NEW k \in 0 .. n, k + 1 <= n, k \in T PROVE k + 1 \in T
    <3>1. k + 1 \in 1 .. n /\ (k + 1) - 1 = k /\ e[k] = 8 * k /\ k + 1 \in 0 .. n
      BY <1>0, <2>2
    <3>2. e[k + 1] = e[k] + 8
      BY <1>6, <3>1
    <3>3. e[k + 1] = 8 * (k + 1)
      BY <3>1, <3>2
    <3> QED BY <3>1, <3>3
  <2>3. \A k \in 0 .. n : k \in T
    <3> HIDE DEF T
    <3> QED BY <1>0, <2>1, <2>2, Upward
  <2> QED BY <2>3
<1>8. Len(c) = 8 * n
  BY <1>0, <1>6, <1>7
<1>9. ASSUME NEW i \in 1 .. n
      PROVE  c[8 * i - 7] = Len(list[i][1]) /\ c[8 * i - 3] = Len(list[i][2])
  <2>1. e[i - 1] = 8 * (i - 1) /\ 8 * (i - 1) + 1 = 8 * i - 7 /\ 8 * (i - 1) + 5 = 8 * i - 3
    BY <1>0, <1>7
  <2>2. c[e[i - 1] + 1] = s[i][1] /\ c[e[i - 1] + 5] = s[i][5]
    BY <1>6
  <2>3. s[i][1] = Len(list[i][1]) /\ s[i][5] = Len(list[i][2])
    BY <1>2 DEF IsSizes
  <2> QED BY <2>1, <2>2, <2>3
<1> QED BY <1>4, <1>8, <1>9 DEF c, s, n, SizesPart

LEMMA TextsAreLaidOut ==
  ASSUME NEW list \in AnyLists, Len(list) # 0
  PROVE  \E ends : Ends(list, ends) /\ TextsPart(list, FlattenSeq(TextsOf(list)), ends)
<1> DEFINE n == Len(list)
           s == TextsOf(list)
           c == FlattenSeq(s)
           a(i) == list[i][1]
           b(i) == list[i][2]
<1>0. n \in Nat \ {0} /\ DOMAIN list = 1 .. n
  BY DEF AnyLists
<1>1. s = [i \in DOMAIN list |-> s[i]] /\ DOMAIN s = DOMAIN list
  BY DEF TextsOf
<1>2. \A i \in 1 .. n : IsTexts(s[i], a(i), b(i))
  <2> TAKE i \in 1 .. n
  <2>1. a(i) \in Seq(Cells) /\ b(i) \in Seq(Cells)
    BY PairFacts
  <2>2. s[i] = a(i) \o <<"0">> \o b(i) \o <<"0">>
    BY <1>0 DEF TextsOf
  <2> HIDE DEF n, s, a, b
  <2> QED BY <2>1, <2>2, TextsOfPair
<1> HIDE DEF s, a, b
<1>3. \A i \in 1 .. n : s[i] \in Seq(Cells)
  BY <1>2 DEF IsTexts
<1>4. c \in Seq(Cells) /\ Len(s) = n /\ \E e : LaidOut(c, s, e)
  BY <1>0, <1>1, <1>3, InARow
<1>5. PICK e : LaidOut(c, s, e)
  BY <1>4
<1> HIDE DEF n, c
<1>6. /\ e \in [0 .. n -> Nat] /\ e[0] = 0 /\ e[n] = Len(c)
      /\ \A i \in 1 .. n : e[i] = e[i - 1] + Len(s[i])
      /\ \A i \in 1 .. n : \A j \in 1 .. Len(s[i]) : c[e[i - 1] + j] = s[i][j]
  BY <1>4, <1>5 DEF LaidOut
<1>7. \A i \in 1 .. n : e[i - 1] \in Nat
  BY <1>0, <1>6
<1>8. ASSUME NEW i \in 1 .. n
      PROVE  e[i] = e[i - 1] + Len(a(i)) + Len(b(i)) + 2
  <2>1. Len(a(i)) \in Nat /\ Len(b(i)) \in Nat /\ Len(s[i]) = Len(a(i)) + Len(b(i)) + 2
    BY <1>2 DEF IsTexts
  <2>2. e[i] = e[i - 1] + Len(s[i]) /\ e[i - 1] \in Nat
    BY <1>6, <1>7
  <2> QED BY <2>1, <2>2
<1>9. ASSUME NEW i \in 1 .. n, NEW j \in 1 .. Len(a(i))
      PROVE  c[e[i - 1] + j] = a(i)[j]
  <2>1. /\ Len(a(i)) \in Nat /\ Len(b(i)) \in Nat /\ Len(s[i]) = Len(a(i)) + Len(b(i)) + 2
        /\ s[i][j] = a(i)[j]
    BY <1>2 DEF IsTexts
  <2>2. j \in 1 .. Len(s[i])
    BY <2>1
  <2> QED BY <1>6, <2>1, <2>2
<1>10. ASSUME NEW i \in 1 .. n, NEW j \in 1 .. Len(b(i))
       PROVE  c[e[i - 1] + Len(a(i)) + 1 + j] = b(i)[j]
  <2> DEFINE k == Len(a(i)) + 1 + j
  <2>1. /\ Len(a(i)) \in Nat /\ Len(b(i)) \in Nat /\ Len(s[i]) = Len(a(i)) + Len(b(i)) + 2
        /\ s[i][k] = b(i)[j]
    BY <1>2 DEF IsTexts
  <2>2. k \in 1 .. Len(s[i]) /\ e[i - 1] + Len(a(i)) + 1 + j = e[i - 1] + k
    BY <1>7, <2>1
  <2> HIDE DEF k
  <2> QED BY <1>6, <2>1, <2>2
<1>11. Ends(list, e)
  BY <1>6, <1>8 DEF Ends, n, a, b
<1>12. TextsPart(list, c, e)
  BY <1>4, <1>6, <1>9, <1>10 DEF TextsPart, n, a, b
<1> QED BY <1>11, <1>12 DEF c, s

LEMMA EndsFacts ==
  ASSUME NEW list \in AnyLists, NEW ends, Ends(list, ends)
  PROVE  \A i \in 1 .. Len(list) :
           /\ ends[i - 1] \in Nat /\ ends[i] \in Nat
           /\ Len(list[i][1]) \in Nat /\ Len(list[i][2]) \in Nat
           /\ ends[i] = ends[i - 1] + Len(list[i][1]) + Len(list[i][2]) + 2
<1>1. Len(list) \in Nat
  BY DEF AnyLists
<1>2. \A i \in 1 .. Len(list) : Len(list[i][1]) \in Nat /\ Len(list[i][2]) \in Nat
  BY PairFacts
<1>3. \A i \in 1 .. Len(list) : ends[i - 1] \in Nat /\ ends[i] \in Nat
  <2> DEFINE n == Len(list)
  <2>1. ends \in [0 .. n -> Nat] /\ n \in Nat
    BY <1>1 DEF Ends
  <2> HIDE DEF n
  <2>2. \A i \in 1 .. n : ends[i - 1] \in Nat /\ ends[i] \in Nat
    BY <2>1
  <2> QED BY <2>2 DEF n
<1> QED BY <1>2, <1>3 DEF Ends

LEMMA EndsGrow ==
  ASSUME NEW list \in AnyLists, NEW ends, Ends(list, ends), NEW i \in 1 .. Len(list)
  PROVE  ends[i] <= ends[Len(list)]
<1> DEFINE n == Len(list)
           T == {k \in i .. n : ends[i] <= ends[k]}
<1>0. n \in Nat /\ i \in Nat /\ i \in 1 .. n
  BY DEF AnyLists
<1> HIDE DEF n
<1>1. i \in T
  BY <1>0, EndsFacts DEF n
<1>2. ASSUME NEW k \in i .. n, k + 1 <= n, k \in T PROVE k + 1 \in T
  <2>1. k + 1 \in 1 .. n /\ (k + 1) - 1 = k /\ k + 1 \in i .. n
    BY <1>0, <1>2
  <2>2. /\ ends[k] \in Nat /\ ends[k + 1] \in Nat
        /\ Len(list[k + 1][1]) \in Nat /\ Len(list[k + 1][2]) \in Nat
        /\ ends[k + 1] = ends[k] + Len(list[k + 1][1]) + Len(list[k + 1][2]) + 2
    BY <2>1, EndsFacts DEF n
  <2>3. ends[i] \in Nat
    BY <1>0, EndsFacts DEF n
  <2>4. ends[i] <= ends[k]
    BY <1>2
  <2>5. ends[i] <= ends[k + 1]
    <3>1. \A x, y, z, a, b \in Nat : x <= y /\ z = y + a + b + 2 => x <= z
      OBVIOUS
    <3> QED BY <2>2, <2>3, <2>4, <3>1, Zenon
  <2> QED BY <2>1, <2>5
<1>3. \A k \in i .. n : k \in T
  <2> HIDE DEF T
  <2> QED BY <1>0, <1>1, <1>2, Upward
<1> QED BY <1>0, <1>3 DEF n

Block(list, cells, ends) ==
  /\ Ends(list, ends) /\ Len(cells) = TextsFrom(list) + ends[Len(list)]
  /\ HoldsSizes(list, cells) /\ HoldsTexts(list, cells, ends)

LEMMA MarshalledBlock ==
  ASSUME NEW list \in AnyLists, Len(list) # 0
  PROVE  marshalPairs(list) \in Seq(Cells) /\ \E ends : Block(list, marshalPairs(list), ends)
<1> DEFINE n == Len(list)
           w == Word(n)
           S == FlattenSeq(SizesOf(list))
           T == FlattenSeq(TextsOf(list))
           c == w \o S
           cells == c \o T
<1>0. n \in Nat \ {0}
  BY DEF AnyLists
<1>1. marshalPairs(list) = cells
  BY Zenon DEF marshalPairs, SizesOf, TextsOf
<1>2. w \in Seq(Cells) /\ Len(w) = 4 /\ w[1] = n
  BY <1>0, WordFacts
<1>3. SizesPart(list, S)
  BY SizesAreLaidOut
<1>4. PICK ends : Ends(list, ends) /\ TextsPart(list, T, ends)
  BY TextsAreLaidOut
<1> HIDE DEF w, S, T
<1>5. c \in Seq(Cells) /\ IsJoin(c, w, S)
  BY <1>2, <1>3, Joined DEF SizesPart
<1> HIDE DEF c
<1>6. cells \in Seq(Cells) /\ IsJoin(cells, c, T)
  BY <1>4, <1>5, Joined DEF TextsPart
<1> HIDE DEF cells
<1>7. Len(c) = TextsFrom(list) /\ TextsFrom(list) \in Nat
  BY <1>0, <1>2, <1>3, <1>5 DEF IsJoin, SizesPart, TextsFrom
<1>8. Len(cells) = TextsFrom(list) + ends[n]
  BY <1>4, <1>6, <1>7 DEF IsJoin, TextsPart
<1>9. HoldsSizes(list, cells)
  <2>1. \A j \in 1 .. Len(c) : cells[j] = c[j]
    BY <1>6 DEF IsJoin
  <2>2. Len(S) = 8 * n /\ \A j \in 1 .. 8 * n : c[4 + j] = S[j]
    BY <1>2, <1>3, <1>5 DEF IsJoin, SizesPart
  <2>3. cells[1] = n
    <3>1. 1 \in 1 .. Len(c)
      BY <1>0, <1>7 DEF TextsFrom
    <3>2. c[1] = w[1]
      BY <1>2, <1>5 DEF IsJoin
    <3> QED BY <1>2, <2>1, <3>1, <3>2
  <2>4. ASSUME NEW i \in 1 .. n
        PROVE  cells[8 * i - 3] = Len(list[i][1]) /\ cells[8 * i + 1] = Len(list[i][2])
    <3>1. /\ 8 * i - 7 \in 1 .. 8 * n /\ 8 * i - 3 \in 1 .. 8 * n
          /\ 4 + (8 * i - 7) = 8 * i - 3 /\ 4 + (8 * i - 3) = 8 * i + 1
          /\ 8 * i - 3 \in 1 .. Len(c) /\ 8 * i + 1 \in 1 .. Len(c)
      BY <1>0, <1>7 DEF TextsFrom
    <3>2. S[8 * i - 7] = Len(list[i][1]) /\ S[8 * i - 3] = Len(list[i][2])
      BY <1>3 DEF SizesPart
    <3>3. c[4 + (8 * i - 7)] = S[8 * i - 7] /\ c[4 + (8 * i - 3)] = S[8 * i - 3]
      BY <2>2, <3>1
    <3> QED BY <2>1, <3>1, <3>2, <3>3
  <2> QED BY <2>3, <2>4 DEF HoldsSizes
<1>10. HoldsTexts(list, cells, ends)
  <2>1. Len(T) \in Nat /\ \A j \in 1 .. Len(T) : cells[TextsFrom(list) + j] = T[j]
    BY <1>6, <1>7 DEF IsJoin
  <2>2. ASSUME NEW i \in 1 .. n
        PROVE  /\ \A j \in 1 .. Len(list[i][1]) :
                    cells[TextsFrom(list) + ends[i - 1] + j] = list[i][1][j]
               /\ \A j \in 1 .. Len(list[i][2]) :
                    cells[TextsFrom(list) + ends[i - 1] + Len(list[i][1]) + 1 + j] = list[i][2][j]
    <3> DEFINE a == Len(list[i][1])
               b == Len(list[i][2])
               e == ends[i - 1]
    <3>1. a \in Nat /\ b \in Nat /\ e \in Nat /\ e + a + b + 2 <= Len(T)
      <4>1. a \in Nat /\ b \in Nat /\ e \in Nat /\ ends[i] = e + a + b + 2
        BY <1>4, EndsFacts
      <4>2. ends[i] <= Len(T)
        BY <1>4, EndsGrow DEF TextsPart
      <4> QED BY <4>1, <4>2
    <3>2. /\ \A j \in 1 .. a : T[e + j] = list[i][1][j]
          /\ \A j \in 1 .. b : T[e + a + 1 + j] = list[i][2][j]
      BY <1>4 DEF TextsPart
    <3> HIDE DEF a, b, e
    <3>3. \A j \in 1 .. a : e + j \in 1 .. Len(T) /\ TextsFrom(list) + e + j = TextsFrom(list) + (e + j)
      BY <1>7, <2>1, <3>1
    <3>4. \A j \in 1 .. b : /\ e + a + 1 + j \in 1 .. Len(T)
                            /\ TextsFrom(list) + e + a + 1 + j = TextsFrom(list) + (e + a + 1 + j)
      BY <1>7, <2>1, <3>1
    <3>5. \A j \in 1 .. a : cells[TextsFrom(list) + e + j] = list[i][1][j]
      BY <2>1, <3>2, <3>3
    <3>6. \A j \in 1 .. b : cells[TextsFrom(list) + e + a + 1 + j] = list[i][2][j]
      BY <2>1, <3>2, <3>4
    <3> QED BY <3>5, <3>6 DEF a, b, e
  <2> QED BY <2>2 DEF HoldsTexts
<1> QED BY <1>1, <1>4, <1>6, <1>8, <1>9, <1>10 DEF Block

(* The pass that computes the size.                                         *)
LEMMA SizeOfBlock ==
  ASSUME NEW list \in AnyLists, NEW ends, Ends(list, ends)
  PROVE  pairsSize(list) = TextsFrom(list) + ends[Len(list)]
<1> DEFINE n == Len(list)
           size == CHOOSE f : f = [i \in 0 .. n |->
                     IF i = 0 THEN 4 ELSE f[i - 1] + 8 + Len(list[i][1]) + 1 + Len(list[i][2]) + 1]
           w == [i \in 0 .. n |-> 4 + 8 * i + ends[i]]
<1>0. n \in Nat
  BY DEF AnyLists
<1>1. pairsSize(list) = size[n]
  BY Zenon DEF pairsSize
<1>2. w = [i \in 0 .. n |->
            IF i = 0 THEN 4 ELSE w[i - 1] + 8 + Len(list[i][1]) + 1 + Len(list[i][2]) + 1]
  <2>1. ASSUME NEW i \in 0 .. n
        PROVE  w[i] = IF i = 0 THEN 4
                      ELSE w[i - 1] + 8 + Len(list[i][1]) + 1 + Len(list[i][2]) + 1
    <3>1. CASE i = 0
      BY <1>0, <3>1 DEF Ends
    <3>2. CASE i # 0
      <4>1. i \in 1 .. n /\ i - 1 \in 0 .. n
        BY <1>0, <3>2
      <4>2. w[i] = 4 + 8 * i + ends[i] /\ w[i - 1] = 4 + 8 * (i - 1) + ends[i - 1]
        BY <4>1
      <4>3. /\ ends[i - 1] \in Nat /\ ends[i] \in Nat
            /\ Len(list[i][1]) \in Nat /\ Len(list[i][2]) \in Nat
            /\ ends[i] = ends[i - 1] + Len(list[i][1]) + Len(list[i][2]) + 2
        BY <4>1, EndsFacts
      <4> DEFINE p == ends[i - 1]
                 q == ends[i]
                 a == Len(list[i][1])
                 b == Len(list[i][2])
      <4>4. p \in Nat /\ q \in Nat /\ a \in Nat /\ b \in Nat /\ q = p + a + b + 2 /\ i \in Nat
        BY <1>0, <4>1, <4>3
      <4> HIDE DEF p, q, a, b
      <4>5. 4 + 8 * i + q = (4 + 8 * (i - 1) + p) + 8 + a + 1 + b + 1
        BY <4>4
      <4> HIDE DEF w
      <4> QED BY <3>2, <4>2, <4>5, Zenon DEF p, q, a, b
    <3> QED BY <3>1, <3>2
  <2> QED BY <2>1
<1>3. size = [i \in 0 .. n |->
               IF i = 0 THEN 4 ELSE size[i - 1] + 8 + Len(list[i][1]) + 1 + Len(list[i][2]) + 1]
  <2> HIDE DEF w, n
  <2> QED BY <1>2, Zenon
<1> HIDE DEF size, w
<1>4. \A i \in 0 .. n : size[i] = w[i]
  <2> DEFINE T == {i \in 0 .. n : size[i] = w[i]}
  <2>1. 0 \in T
    BY <1>0, <1>2, <1>3
  <2>2. ASSUME NEW k \in 0 .. n, k + 1 <= n, k \in T PROVE k + 1 \in T
    <3>1. k + 1 \in 0 .. n /\ (k + 1) - 1 = k /\ k + 1 # 0
      BY <1>0, <2>2
    <3>2. size[k + 1] = size[k] + 8 + Len(list[k + 1][1]) + 1 + Len(list[k + 1][2]) + 1
      BY <1>3, <3>1
    <3>3. w[k + 1] = w[k] + 8 + Len(list[k + 1][1]) + 1 + Len(list[k + 1][2]) + 1
      BY <1>2, <3>1
    <3> QED BY <2>2, <3>1, <3>2, <3>3
  <2>3. \A k \in 0 .. n : k \in T
    <3> HIDE DEF T
    <3> QED BY <1>0, <2>1, <2>2, Upward
  <2> QED BY <2>3
<1>5. w[n] = 4 + 8 * n + ends[n]
  BY <1>0 DEF w
<1> QED BY <1>0, <1>1, <1>4, <1>5 DEF TextsFrom

LEMMA TextIsSeen ==
  ASSUME NEW cells \in Seq(Cells), NEW t \in Seq(Cells), NEW p \in Nat,
         p + Len(t) <= Len(cells), \A j \in 1 .. Len(t) : cells[p + j] = t[j]
  PROVE  SubSeq(cells, p + 1, p + Len(t)) = t
<1> DEFINE v == SubSeq(cells, p + 1, p + Len(t))
<1>1. /\ v \in Seq(Cells) /\ Len(v) = Len(t)
      /\ \A j \in 1 .. Len(t) : v[j] = cells[p + j]
  OBVIOUS
<1> HIDE DEF v
<1>2. v = t
  BY <1>1, SeqEqual
<1> QED BY <1>2 DEF v

(* The reader. Its second pointer goes along the same ends.                 *)
LEMMA ReaderReads ==
  ASSUME NEW list \in AnyLists, Len(list) # 0, NEW cells \in Seq(Cells), NEW ends,
         Block(list, cells, ends)
  PROVE  pairs(cells) = list
<1> DEFINE n == cells[1]
           size(k) == cells[4 * k + 1]
           s == CHOOSE f : f = [k \in 1 .. 2 * n |->
                  IF k = 1 THEN 4 + n * 8 ELSE after(f[k - 1], size(k - 1))]
           view(k) == SubSeq(cells, s[k] + 1, s[k] + size(k))
<1>1. pairs(cells) = IF cells = <<>> THEN <<>>
                                     ELSE [i \in 1 .. n |-> <<view(2 * i - 1), view(2 * i)>>]
  BY Zenon DEF pairs
<1>2. n = Len(list) /\ n \in Nat \ {0}
  BY DEF Block, HoldsSizes, AnyLists
<1>3. cells # <<>>
  <2>1. Len(cells) = TextsFrom(list) + ends[Len(list)] /\ ends[Len(list)] \in Nat
    BY <1>2 DEF Block, Ends
  <2>2. Len(cells) # 0
    BY <1>2, <2>1 DEF TextsFrom
  <2> QED BY <2>2
<1>4. \A i \in 1 .. n : size(2 * i - 1) = Len(list[i][1]) /\ size(2 * i) = Len(list[i][2])
  <2> TAKE i \in 1 .. n
  <2>1. 4 * (2 * i - 1) + 1 = 8 * i - 3 /\ 4 * (2 * i) + 1 = 8 * i + 1
    BY <1>2
  <2> QED BY <1>2, <2>1 DEF Block, HoldsSizes
<1>5. \A i \in 1 .. n :
        /\ ends[i - 1] \in Nat /\ ends[i] \in Nat
        /\ Len(list[i][1]) \in Nat /\ Len(list[i][2]) \in Nat
        /\ ends[i] = ends[i - 1] + Len(list[i][1]) + Len(list[i][2]) + 2
  BY <1>2, EndsFacts DEF Block
<1> HIDE DEF n, size
<1>6. \A k \in 1 .. 2 * n : size(k) \in Nat
  <2> TAKE k \in 1 .. 2 * n
  <2>1. \E i \in 1 .. n : k = 2 * i - 1 \/ k = 2 * i
    <3>1. CASE k % 2 = 0
      <4>1. k \div 2 \in 1 .. n /\ k = 2 * (k \div 2)
        BY <1>2, <3>1
      <4> QED BY <4>1
    <3>2. CASE k % 2 = 1
      <4>1. (k + 1) \div 2 \in 1 .. n /\ k = 2 * ((k + 1) \div 2) - 1
        BY <1>2, <3>2
      <4> QED BY <4>1
    <3>3. k % 2 = 0 \/ k % 2 = 1
      BY <1>2
    <3> QED BY <3>1, <3>2, <3>3
  <2> QED BY <1>4, <1>5, <2>1
<1>7. s = [k \in 1 .. 2 * n |-> IF k = 1 THEN 4 + n * 8 ELSE after(s[k - 1], size(k - 1))]
  <2> DEFINE F == [p \in Nat \X (1 .. 2 * n) |-> p[1] + size(p[2]) + 1]
  <2>1. F \in [Nat \X (1 .. 2 * n) -> Nat] /\ 4 + n * 8 \in Nat /\ 2 * n \in Nat
    BY <1>2, <1>6
  <2>2. PICK g : StepsTo(Nat, 4 + n * 8, 2 * n, F, g)
    <3> HIDE DEF F
    <3> QED BY <2>1, Steps
  <2>3. /\ g \in [0 .. 2 * n -> Nat] /\ g[0] = 4 + n * 8
        /\ \A k \in 1 .. 2 * n : g[k] = F[<<g[k - 1], k>>]
    BY <2>2 DEF StepsTo
  <2>4. \A k \in 1 .. 2 * n : g[k] = g[k - 1] + size(k) + 1
    <3> TAKE k \in 1 .. 2 * n
    <3>1. g[k - 1] \in Nat
      BY <1>2, <2>3
    <3>2. F[<<g[k - 1], k>>] = g[k - 1] + size(k) + 1
      BY <3>1
    <3> HIDE DEF F
    <3> QED BY <2>3, <3>2
  <2> HIDE DEF F
  <2> DEFINE G == [k \in 1 .. 2 * n |-> g[k - 1]]
  <2>5. G = [k \in 1 .. 2 * n |-> IF k = 1 THEN 4 + n * 8 ELSE after(G[k - 1], size(k - 1))]
    <3>1. ASSUME NEW k \in 1 .. 2 * n
          PROVE  G[k] = IF k = 1 THEN 4 + n * 8 ELSE after(G[k - 1], size(k - 1))
      <4>1. CASE k = 1
        BY <2>3, <4>1
      <4>2. CASE k # 1
        <5>1. k - 1 \in 1 .. 2 * n
          BY <1>2, <4>2
        <5>2. G[k] = g[k - 1] /\ G[k - 1] = g[(k - 1) - 1]
          BY <5>1
        <5>3. g[k - 1] = g[(k - 1) - 1] + size(k - 1) + 1
          BY <2>4, <5>1
        <5> HIDE DEF G
        <5> QED BY <4>2, <5>2, <5>3, Zenon DEF after
      <4> QED BY <4>1, <4>2
    <3> QED BY <3>1
  <2> HIDE DEF G
  <2> QED BY <2>5, Zenon
<1> HIDE DEF s
<1>8. \A k \in 1 .. 2 * n : k # 1 => s[k] = s[k - 1] + size(k - 1) + 1
  BY <1>7 DEF after
<1>9. s[1] = TextsFrom(list) + ends[0]
  BY <1>2, <1>7 DEF TextsFrom, Block, Ends
<1>10. TextsFrom(list) \in Nat
  BY <1>2 DEF TextsFrom
<1>11. ASSUME NEW i \in 1 .. n, s[2 * i - 1] = TextsFrom(list) + ends[i - 1]
       PROVE  /\ s[2 * i] = TextsFrom(list) + ends[i - 1] + Len(list[i][1]) + 1
              /\ i + 1 <= n => s[2 * (i + 1) - 1] = TextsFrom(list) + ends[i]
  <2> DEFINE a == Len(list[i][1])
             b == Len(list[i][2])
             e == ends[i - 1]
             t == TextsFrom(list)
  <2>1. a \in Nat /\ b \in Nat /\ e \in Nat /\ t \in Nat /\ ends[i] = e + a + b + 2
    BY <1>5, <1>10
  <2>2. size(2 * i - 1) = a /\ size(2 * i) = b
    BY <1>4
  <2> HIDE DEF a, b, t, e
  <2>3. s[2 * i] = t + e + a + 1
    <3>1. 2 * i \in 1 .. 2 * n /\ 2 * i # 1
      BY <1>2
    <3>2. s[2 * i] = s[2 * i - 1] + size(2 * i - 1) + 1
      BY <1>8, <3>1
    <3>3. s[2 * i - 1] = t + e
      BY <1>11 DEF t, e
    <3> QED BY <2>1, <2>2, <3>2, <3>3
  <2>4. ASSUME i + 1 <= n PROVE s[2 * (i + 1) - 1] = t + ends[i]
    <3> DEFINE k == 2 * (i + 1) - 1
    <3>1. k \in 1 .. 2 * n /\ k # 1 /\ k - 1 = 2 * i
      BY <1>2, <2>4
    <3>2. s[k] = s[2 * i] + size(2 * i) + 1
      <4> HIDE DEF k
      <4> QED BY <1>8, <3>1
    <3> HIDE DEF k
    <3>3. s[k] = t + ends[i]
      BY <2>1, <2>2, <2>3, <3>2
    <3> QED BY <3>3 DEF k
  <2> QED BY <2>3, <2>4 DEF t, a, e
<1>12. \A i \in 1 .. n : s[2 * i - 1] = TextsFrom(list) + ends[i - 1]
  <2> DEFINE T == {i \in 1 .. n : s[2 * i - 1] = TextsFrom(list) + ends[i - 1]}
  <2>1. 1 \in T
    BY <1>2, <1>9
  <2>2. ASSUME NEW i \in 1 .. n, i + 1 <= n, i \in T PROVE i + 1 \in T
    <3>1. i + 1 \in 1 .. n /\ (i + 1) - 1 = i
      BY <1>2, <2>2
    <3>2. s[2 * (i + 1) - 1] = TextsFrom(list) + ends[i]
      BY <1>11, <2>2
    <3> QED BY <3>1, <3>2
  <2>3. \A i \in 1 .. n : i \in T
    <3> HIDE DEF T
    <3> QED BY <1>2, <2>1, <2>2, Upward
  <2> QED BY <2>3
<1>13. \A i \in 1 .. n : s[2 * i] = TextsFrom(list) + ends[i - 1] + Len(list[i][1]) + 1
  BY <1>11, <1>12
<1>14. ASSUME NEW i \in 1 .. n PROVE view(2 * i - 1) = list[i][1] /\ view(2 * i) = list[i][2]
  <2> DEFINE a == list[i][1]
             b == list[i][2]
             p == TextsFrom(list) + ends[i - 1]
             q == p + Len(a) + 1
  <2>1. a \in Seq(Cells) /\ b \in Seq(Cells)
    BY <1>2, PairFacts
  <2>2. Len(a) \in Nat /\ Len(b) \in Nat /\ p \in Nat /\ q \in Nat
    <3>1. Len(a) \in Nat /\ Len(b) \in Nat /\ ends[i - 1] \in Nat
      BY <1>5
    <3>2. p \in Nat
      BY <1>10, <3>1
    <3> HIDE DEF a, b, p
    <3> QED BY <3>1, <3>2
  <2>3. p + Len(a) <= Len(cells) /\ q + Len(b) <= Len(cells)
    <3>1. Len(cells) = TextsFrom(list) + ends[n] /\ ends[i] <= ends[n]
      BY <1>2, EndsGrow DEF Block
    <3>2. ends[n] \in Nat /\ ends[i] \in Nat
      BY <1>2, <1>5 DEF Block, Ends
    <3>3. TextsFrom(list) + ends[i] = q + Len(b) + 1
      <4> DEFINE x == ends[i - 1]
                 t == TextsFrom(list)
                 l == Len(list[i][1])
                 m == Len(list[i][2])
      <4>1. x \in Nat /\ l \in Nat /\ m \in Nat /\ t \in Nat /\ ends[i] = x + l + m + 2
        BY <1>5, <1>10
      <4> HIDE DEF x, t, l, m
      <4>2. t + ends[i] = t + x + l + 1 + m + 1
        BY <4>1
      <4> QED BY <4>2 DEF x, t, l, m
    <3>4. q = p + Len(a) + 1
      OBVIOUS
    <3> HIDE DEF a, b, p, q
    <3>5. q + Len(b) + 1 <= Len(cells)
      BY <1>10, <3>1, <3>2, <3>3
    <3> QED BY <2>2, <3>4, <3>5
  <2>4. /\ \A j \in 1 .. Len(a) : cells[p + j] = a[j]
        /\ \A j \in 1 .. Len(b) : cells[q + j] = b[j]
    BY <1>2 DEF Block, HoldsTexts
  <2>5. /\ s[2 * i - 1] = p /\ size(2 * i - 1) = Len(a)
        /\ s[2 * i] = q /\ size(2 * i) = Len(b)
    BY <1>4, <1>12, <1>13
  <2> HIDE DEF a, b, p, q
  <2>6. SubSeq(cells, p + 1, p + Len(a)) = a /\ SubSeq(cells, q + 1, q + Len(b)) = b
    BY <2>1, <2>2, <2>3, <2>4, TextIsSeen
  <2>7. view(2 * i - 1) = a /\ view(2 * i) = b
    BY <2>5, <2>6
  <2> QED BY <2>7 DEF a, b
<1> HIDE DEF view
<1>15. \A i \in 1 .. n : <<view(2 * i - 1), view(2 * i)>> = list[i]
  BY <1>2, <1>14, PairFacts
<1>16. [i \in 1 .. n |-> <<view(2 * i - 1), view(2 * i)>>] = list
  <2>1. list = [i \in 1 .. n |-> list[i]]
    BY <1>2 DEF AnyLists
  <2> QED BY <1>15, <2>1
<1> QED BY <1>1, <1>3, <1>16, Zenon

-----------------------------------------------------------------------------
LEMMA ListsAreAny == Lists \subseteq AnyLists
<1> SUFFICES ASSUME NEW list \in Lists PROVE list \in AnyLists
  OBVIOUS
<1>1. PICK n \in 0 .. MaxPairs : list \in [1 .. n -> Strings \X Strings]
  BY DEF Lists
<1>2. n \in Nat
  BY PairsAssumption
<1> QED BY <1>1, <1>2 DEF AnyLists

(* The code for lists, apart from the states it runs in: whatever list is   *)
(* put into a block, the block has the size that was asked for, and is read *)
(* as that list.                                                            *)
THEOREM BlocksAreRead ==
  \A list \in AnyLists :
    /\ exportPairs(list).size = Len(exportPairs(list).cells)
    /\ pairs(exportPairs(list).cells) = list
<1> TAKE list \in AnyLists
<1>1. CASE list = <<>>
  BY <1>1 DEF exportPairs, Null, pairs
<1>2. CASE list # <<>>
  <2>1. Len(list) # 0
    BY <1>2 DEF AnyLists
  <2>2. marshalPairs(list) \in Seq(Cells)
    BY <2>1, MarshalledBlock
  <2>3. PICK ends : Block(list, marshalPairs(list), ends)
    BY <2>1, MarshalledBlock
  <2>4. pairs(marshalPairs(list)) = list
    BY <2>1, <2>2, <2>3, ReaderReads
  <2>5. pairsSize(list) = Len(marshalPairs(list))
    BY <2>3, SizeOfBlock DEF Block
  <2> QED BY <1>2, <2>4, <2>5 DEF exportPairs
<1> QED BY <1>1, <1>2

(* The block is the one of the plugin's list.                               *)
PairsInv ==
  /\ headers \in Lists /\ buffer = exportPairs(headers)
  /\ decoded = Unread \/ decoded = headers

LEMMA PairsInitInv == PairsInit => PairsInv
<1> SUFFICES ASSUME PairsInit PROVE PairsInv
  OBVIOUS
<1>1. <<>> \in Lists
  <2>1. 0 \in 0 .. MaxPairs /\ <<>> \in [1 .. 0 -> Strings \X Strings]
    BY PairsAssumption
  <2> QED BY <2>1 DEF Lists
<1> QED BY <1>1 DEF PairsInit, PairsInv, exportPairs

LEMMA PairsNextInv == PairsInv /\ [PairsNext]_pairsVars => PairsInv'
<1> SUFFICES ASSUME PairsInv, [PairsNext]_pairsVars PROVE PairsInv'
  OBVIOUS
<1>1. CASE UNCHANGED pairsVars
  BY <1>1 DEF PairsInv, pairsVars
<1>2. ASSUME NEW list \in Lists, MakeHeaderStringPairsBuffer(list) PROVE PairsInv'
  BY <1>2 DEF MakeHeaderStringPairsBuffer, PairsInv
<1>3. CASE ReadPairs
  <2>1. headers \in AnyLists
    BY ListsAreAny DEF PairsInv
  <2>2. decoded' = headers
    BY <1>3, <2>1, BlocksAreRead DEF ReadPairs, PairsInv
  <2> QED BY <1>3, <2>2 DEF ReadPairs, PairsInv
<1> QED BY <1>1, <1>2, <1>3 DEF PairsNext

(* Whatever list a plugin hands over, and however the host reads it: the    *)
(* second pass over the list fills exactly the block that the first one     *)
(* asked for, and the pairs that are read are the pairs of the list.        *)
THEOREM HeadersArrive == PairsSpec => []PairsArrive
<1>1. PairsInv => PairsArrive
  <2> SUFFICES ASSUME PairsInv PROVE PairsArrive
    OBVIOUS
  <2>1. headers \in AnyLists
    BY ListsAreAny DEF PairsInv
  <2> QED BY <2>1, BlocksAreRead DEF PairsInv, PairsArrive
<1> QED BY <1>1, PairsInitInv, PairsNextInv, PTL DEF PairsSpec
=============================================================================
