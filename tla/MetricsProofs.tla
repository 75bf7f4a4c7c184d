---------------------------- MODULE MetricsProofs ----------------------------
(***************************************************************************)
(* The metrics of any plugin: any number of objects, made by resolving in   *)
(* parts and by extension, any values of tags that do not hold the          *)
(* separator, any number of ids.                                            *)
(*                                                                          *)
(* The prefix of an object spells the tags and values it was given: one     *)
(* after the other, with a "." after each. Where no value holds a "." a     *)
(* name spells one list only, and a list is spelled by one name only, so    *)
(* what the host counts under names is what the plugin counts under lists.  *)
(***************************************************************************)
EXTENDS Metrics, SequenceTheorems, WellFoundedInduction, TLAPS

TagNames == {"t1", "t2"}
Pieces == STRING \cup TagNames \cup {".", "name"}   \* that literals are strings is no fact of the provers

NoSeparatorInValues ==
  Fields \subseteq Seq(Pieces) /\ \A f \in Fields : \A i \in DOMAIN f : f[i] # "."

Labels == Seq(TagNames \X Fields)

(* The name n has, for each tag and value of L, the tag, a ".", the value   *)
(* and a "."; the i-th of them ends at cut[i].                              *)
CutsAt(n, L, cut) ==
  /\ L \in Labels /\ cut \in [0 .. Len(L) -> Nat]
  /\ cut[0] = 0 /\ cut[Len(L)] = Len(n)
  /\ \A i \in 1 .. Len(L) :
       /\ cut[i] = cut[i - 1] + Len(L[i][2]) + 3
       /\ n[cut[i - 1] + 1] = L[i][1] /\ n[cut[i - 1] + 2] = "."
       /\ \A j \in 1 .. Len(L[i][2]) : n[cut[i - 1] + 2 + j] = L[i][2][j]
       /\ n[cut[i]] = "."

Spells(n, L) == n \in Seq(Pieces) /\ \E cut : CutsAt(n, L, cut)

-----------------------------------------------------------------------------
LEMMA LeastNatural ==
  ASSUME NEW T, T \subseteq Nat, T # {}
  PROVE  \E x \in T : \A y \in T : x <= y
<1> DEFINE R == OpToRel(<, Nat)
<1>1. IsWellFoundedOn(R, Nat)
  BY NatLessThanWellFounded
<1>2. PICK x \in T : \A y \in T : ~ (<<y, x>> \in R)
  <2> HIDE DEF R
  <2> QED BY <1>1, WFMin
<1>3. \A y \in T : ~ (y < x)
  BY <1>2 DEF OpToRel
<1> QED BY <1>3

LEMMA LabelFacts ==
  ASSUME NoSeparatorInValues, NEW L \in Labels, NEW i \in 1 .. Len(L)
  PROVE  /\ L[i] = <<L[i][1], L[i][2]>> /\ L[i][1] \in TagNames
         /\ L[i][2] \in Seq(Pieces) /\ Len(L[i][2]) \in Nat
         /\ \A j \in 1 .. Len(L[i][2]) : L[i][2][j] # "."
<1>1. L[i] \in TagNames \X Fields
  BY DEF Labels
<1> QED BY <1>1 DEF NoSeparatorInValues

(* Where two lists have the same cut, the same tag and value follow.        *)
LEMMA NextLabel ==
  ASSUME NoSeparatorInValues, NEW n, NEW L, NEW K, NEW c, NEW d,
         CutsAt(n, L, c), CutsAt(n, K, d),
         NEW i \in 1 .. Len(L), i \in 1 .. Len(K), c[i - 1] = d[i - 1]
  PROVE  L[i] = K[i]
<1> DEFINE p == c[i - 1]
           f == L[i][2]
           g == K[i][2]
<1>0. /\ L \in Labels /\ c \in [0 .. Len(L) -> Nat] /\ Len(L) \in Nat
      /\ K \in Labels /\ d \in [0 .. Len(K) -> Nat]
  BY DEF CutsAt, Labels
<1>1. /\ p \in Nat /\ Len(f) \in Nat /\ Len(g) \in Nat /\ f \in Seq(Pieces) /\ g \in Seq(Pieces)
      /\ \A j \in 1 .. Len(f) : f[j] # "."
      /\ \A j \in 1 .. Len(g) : g[j] # "."
  <2>1. i - 1 \in 0 .. Len(L)
    BY <1>0
  <2> QED BY <1>0, <2>1, LabelFacts
<1>2. /\ c[i] = p + Len(f) + 3 /\ n[p + 1] = L[i][1] /\ n[c[i]] = "."
      /\ \A j \in 1 .. Len(f) : n[p + 2 + j] = f[j]
  BY DEF CutsAt
<1>3. /\ d[i] = p + Len(g) + 3 /\ n[p + 1] = K[i][1] /\ n[d[i]] = "."
      /\ \A j \in 1 .. Len(g) : n[p + 2 + j] = g[j]
  BY DEF CutsAt
<1>4. L[i] = <<L[i][1], f>> /\ K[i] = <<K[i][1], g>>
  BY <1>0, LabelFacts
<1> HIDE DEF p, f, g
<1>5. ~ (Len(f) < Len(g))
  <2> SUFFICES ASSUME Len(f) < Len(g) PROVE FALSE
    OBVIOUS
  <2>1. Len(f) + 1 \in 1 .. Len(g) /\ p + 2 + (Len(f) + 1) = c[i]
    BY <1>1, <1>2
  <2>2. n[p + 2 + (Len(f) + 1)] = g[Len(f) + 1] /\ g[Len(f) + 1] # "."
    BY <1>1, <1>3, <2>1
  <2> QED BY <1>2, <2>1, <2>2
<1>6. ~ (Len(g) < Len(f))
  <2> SUFFICES ASSUME Len(g) < Len(f) PROVE FALSE
    OBVIOUS
  <2>1. Len(g) + 1 \in 1 .. Len(f) /\ p + 2 + (Len(g) + 1) = d[i]
    BY <1>1, <1>3
  <2>2. n[p + 2 + (Len(g) + 1)] = f[Len(g) + 1] /\ f[Len(g) + 1] # "."
    BY <1>1, <1>2, <2>1
  <2> QED BY <1>3, <2>1, <2>2
<1>7. Len(f) = Len(g)
  BY <1>1, <1>5, <1>6
<1>8. \A j \in 1 .. Len(f) : f[j] = g[j]
  BY <1>2, <1>3, <1>7
<1>9. f = g
  BY <1>1, <1>7, <1>8, SeqEqual
<1> QED BY <1>2, <1>3, <1>4, <1>9

(* A name spells one list.                                                  *)
LEMMA CutsAgree ==
  ASSUME NoSeparatorInValues, NEW n, NEW L, NEW K, NEW c, NEW d,
         CutsAt(n, L, c), CutsAt(n, K, d),
         NEW i \in 0 .. Len(L), i \in 0 .. Len(K)
  PROVE  c[i] = d[i]
<1> DEFINE T == {j \in 0 .. i : c[j] # d[j]}
<1>0. Len(L) \in Nat /\ Len(K) \in Nat
  BY DEF CutsAt, Labels
<1>6. ASSUME NEW j \in 1 .. Len(L), j \in 1 .. Len(K), c[j - 1] = d[j - 1] PROVE c[j] = d[j]
  <2>1. L[j] = K[j]
    BY <1>6, NextLabel
  <2> QED BY <1>6, <2>1 DEF CutsAt
<1> SUFFICES ASSUME T # {} PROVE FALSE
  BY <1>0
<1>1. PICK j \in T : \A k \in T : j <= k
  <2>1. T \subseteq Nat
    BY <1>0
  <2> HIDE DEF T
  <2> QED BY <2>1, LeastNatural
<1>2. j # 0
  BY <1>1 DEF CutsAt
<1>3. j - 1 \in 0 .. i /\ j - 1 \notin T
  BY <1>0, <1>1, <1>2
<1>4. c[j - 1] = d[j - 1] /\ j \in 1 .. Len(L) /\ j \in 1 .. Len(K)
  BY <1>0, <1>1, <1>2, <1>3
<1>5. c[j] = d[j]
  BY <1>4, <1>6
<1> QED BY <1>1, <1>5

LEMMA CutsGrow ==
  ASSUME NoSeparatorInValues, NEW n, NEW L, NEW c, CutsAt(n, L, c), NEW i \in 0 .. Len(L), i # Len(L)
  PROVE  c[i] < c[Len(L)]
<1> DEFINE T == {j \in 0 .. Len(L) : j > i /\ c[j] <= c[i]}
<1>0. L \in Labels /\ c \in [0 .. Len(L) -> Nat] /\ Len(L) \in Nat
  BY DEF CutsAt, Labels
<1> SUFFICES ASSUME T # {} PROVE FALSE
  <2>1. c[i] \in Nat /\ c[Len(L)] \in Nat /\ Len(L) \notin T => Len(L) \in 0 .. Len(L) /\ ~(c[Len(L)] <= c[i])
    BY <1>0
  <2>2. c[i] \in Nat /\ c[Len(L)] \in Nat
    BY <1>0
  <2> QED BY <2>1, <2>2
<1>1. PICK j \in T : \A k \in T : j <= k
  <2>1. T \subseteq Nat
    BY <1>0
  <2> HIDE DEF T
  <2> QED BY <2>1, LeastNatural
<1>2. j \in 1 .. Len(L) /\ j - 1 \in 0 .. Len(L) /\ j - 1 \notin T
  BY <1>0, <1>1
<1>3. j > i /\ c[j] <= c[i] /\ (j - 1 > i => c[j - 1] > c[i])
  BY <1>0, <1>1, <1>2
<1> HIDE DEF T
<1>4. c[j] = c[j - 1] + Len(L[j][2]) + 3
  BY <1>2 DEF CutsAt
<1>5. Len(L[j][2]) \in Nat
  BY <1>0, <1>2, LabelFacts
<1>6. c[j - 1] \in Nat /\ c[i] \in Nat /\ j \in Nat /\ i \in Nat
  BY <1>0, <1>2
<1>7. c[j] > c[j - 1]
  BY <1>4, <1>5, <1>6
<1>8. j - 1 = i \/ j - 1 > i
  BY <1>3, <1>6
<1>9. c[j - 1] >= c[i]
  <2>1. CASE j - 1 = i
    BY <1>6, <2>1
  <2>2. CASE j - 1 > i
    BY <1>3, <1>6, <2>2
  <2> QED BY <1>8, <2>1, <2>2
<1>10. c[j] \in Nat
  BY SMTT(40), <1>4, <1>5, <1>6
<1> QED BY <1>3, <1>6, <1>7, <1>9, <1>10

LEMMA NameSpellsOne ==
  ASSUME NoSeparatorInValues, NEW n, NEW L, NEW K, Spells(n, L), Spells(n, K)
  PROVE  L = K
<1>1. PICK c : CutsAt(n, L, c)
  BY DEF Spells
<1>2. PICK d : CutsAt(n, K, d)
  BY DEF Spells
<1>3. /\ L \in Labels /\ Len(L) \in Nat /\ c \in [0 .. Len(L) -> Nat]
      /\ K \in Labels /\ Len(K) \in Nat /\ d \in [0 .. Len(K) -> Nat]
  BY <1>1, <1>2 DEF CutsAt, Labels
<1>4. c[Len(L)] = Len(n) /\ d[Len(K)] = Len(n)
  BY <1>1, <1>2 DEF CutsAt
<1>5. Len(L) = Len(K)
  <2>1. CASE Len(L) < Len(K)
    <3>1. c[Len(L)] = d[Len(L)]
      BY <1>1, <1>2, <1>3, <2>1, CutsAgree
    <3>2. d[Len(L)] < d[Len(K)]
      BY <1>2, <1>3, <2>1, CutsGrow
    <3>3. d[Len(L)] \in Nat
      BY <1>3, <2>1
    <3> QED BY <1>4, <3>1, <3>2, <3>3
  <2>2. CASE Len(K) < Len(L)
    <3>1. c[Len(K)] = d[Len(K)]
      BY <1>1, <1>2, <1>3, <2>2, CutsAgree
    <3>2. c[Len(K)] < c[Len(L)]
      BY <1>1, <1>3, <2>2, CutsGrow
    <3>3. c[Len(K)] \in Nat
      BY <1>3, <2>2
    <3> QED BY <1>4, <3>1, <3>2, <3>3
  <2> QED BY <1>3, <2>1, <2>2
<1>6. ASSUME NEW i \in 1 .. Len(L) PROVE L[i] = K[i]
  <2>1. i - 1 \in 0 .. Len(L) /\ i - 1 \in 0 .. Len(K) /\ i \in 1 .. Len(K)
    BY <1>3, <1>5
  <2>2. c[i - 1] = d[i - 1]
    BY <1>1, <1>2, <1>3, <2>1, CutsAgree
  <2> QED BY <1>1, <1>2, <1>3, <2>1, <2>2, NextLabel
<1> QED BY <1>3, <1>5, <1>6, SeqEqual DEF Labels

(* A list is spelled by one name.                                           *)
LEMMA SpelledByOne ==
  ASSUME NoSeparatorInValues, NEW n, NEW m, NEW L, Spells(n, L), Spells(m, L)
  PROVE  n = m
<1>1. PICK c : CutsAt(n, L, c)
  BY DEF Spells
<1>2. PICK d : CutsAt(m, L, d)
  BY DEF Spells
<1>3. /\ L \in Labels /\ Len(L) \in Nat /\ n \in Seq(Pieces) /\ m \in Seq(Pieces)
      /\ c \in [0 .. Len(L) -> Nat] /\ d \in [0 .. Len(L) -> Nat]
  BY <1>1, <1>2 DEF CutsAt, Spells, Labels
<1>4. ASSUME NEW i \in 0 .. Len(L) PROVE c[i] = d[i]
  <2> DEFINE T == {j \in 0 .. Len(L) : c[j] # d[j]}
  <2> SUFFICES ASSUME T # {} PROVE FALSE
    OBVIOUS
  <2>1. PICK j \in T : \A k \in T : j <= k
    <3>1. T \subseteq Nat
      BY <1>3
    <3> HIDE DEF T
    <3> QED BY <3>1, LeastNatural
  <2>2. j # 0
    BY <1>1, <1>2, <2>1 DEF CutsAt
  <2>3. j \in 1 .. Len(L) /\ j - 1 \in 0 .. Len(L) /\ j - 1 \notin T
    BY <1>3, <2>1, <2>2
  <2>4. c[j - 1] = d[j - 1] /\ c[j] # d[j]
    BY <2>1, <2>3
  <2> HIDE DEF T
  <2>5. c[j] = c[j - 1] + Len(L[j][2]) + 3
    BY <1>1, <2>3 DEF CutsAt
  <2>6. d[j] = d[j - 1] + Len(L[j][2]) + 3
    BY <1>2, <2>3 DEF CutsAt
  <2> QED BY <2>4, <2>5, <2>6
<1>5. Len(n) = Len(m) /\ Len(n) \in Nat
  BY SMTT(40), <1>1, <1>2, <1>3, <1>4 DEF CutsAt
<1>6. ASSUME NEW x \in 1 .. Len(n) PROVE n[x] = m[x]
  <2> DEFINE T == {j \in 0 .. Len(L) : x <= c[j]}
  <2>1. PICK i \in T : \A k \in T : i <= k
    <3>1. T \subseteq Nat /\ Len(L) \in T
      BY <1>1, <1>3 DEF CutsAt
    <3> HIDE DEF T
    <3> QED BY <3>1, LeastNatural
  <2>2. i # 0
    BY <1>1, <2>1 DEF CutsAt
  <2>3. i \in 1 .. Len(L) /\ i - 1 \in 0 .. Len(L) /\ i - 1 \notin T
    BY <1>3, <2>1, <2>2
  <2>4. c[i - 1] < x /\ x <= c[i] /\ c[i - 1] \in Nat
    <3>1. ~(x <= c[i - 1]) /\ x <= c[i]
      BY <2>1, <2>3
    <3> HIDE DEF T
    <3>2. c[i - 1] \in Nat /\ x \in Nat
      <4>1. i - 1 \in 0 .. Len(L) /\ x \in 1 .. Len(n)
        BY <2>3
      <4>2. c[i - 1] \in Nat
        BY <1>3, <4>1
      <4>3. x \in Nat
        BY <1>5, <4>1
      <4> QED BY <4>2, <4>3
    <3> QED BY <3>1, <3>2
  <2> DEFINE p == c[i - 1]
             f == L[i][2]
  <2>5. /\ c[i] = p + Len(f) + 3 /\ n[p + 1] = L[i][1] /\ n[p + 2] = "."
        /\ \A j \in 1 .. Len(f) : n[p + 2 + j] = f[j]
        /\ n[c[i]] = "."
    BY <1>1, <2>3 DEF CutsAt
  <2>6. /\ m[p + 1] = L[i][1] /\ m[p + 2] = "."
        /\ \A j \in 1 .. Len(f) : m[p + 2 + j] = f[j]
        /\ m[c[i]] = "."
    <3>1. d[i - 1] = p /\ d[i] = c[i]
      BY <1>4, <2>3
    <3>2. /\ m[d[i - 1] + 1] = L[i][1] /\ m[d[i - 1] + 2] = "."
          /\ \A j \in 1 .. Len(f) : m[d[i - 1] + 2 + j] = f[j]
          /\ m[d[i]] = "."
      BY <1>2, <2>3 DEF CutsAt
    <3> HIDE DEF p, f
    <3> QED BY <3>1, <3>2
  <2>7. Len(f) \in Nat
    BY <1>3, <2>3, LabelFacts
  <2> HIDE DEF p, f, T
  <2>10. p \in Nat /\ x \in Nat /\ p < x /\ x <= p + Len(f) + 3
    BY <1>5, <2>4, <2>5 DEF p
  <2>8. x = p + 1 \/ x = p + 2 \/ x = c[i] \/ x - p - 2 \in 1 .. Len(f)
    BY <2>5, <2>7, <2>10
  <2>9. x = p + 2 + (x - p - 2)
    BY <2>10
  <2> QED BY <2>5, <2>6, <2>8, <2>9
<1> QED BY <1>3, <1>5, <1>6, SeqEqual

(* The places of a tag and a value of k pieces, with both separators, after *)
(* the first p pieces of l.                                                 *)
LEMMA PartPlaces ==
  ASSUME NEW p \in Nat, NEW k \in Nat, NEW l \in Nat, NEW q, q = p + k + 3, q <= l
  PROVE  /\ p + 1 \in 1 .. l /\ p + 2 \in 1 .. l /\ q \in 1 .. l
         /\ \A j \in 1 .. k : p + 2 + j \in 1 .. l
OBVIOUS

(* One more tag and value.                                                  *)
LEMMA SpellMore ==
  ASSUME NoSeparatorInValues, NEW n, NEW L, Spells(n, L), NEW t \in TagNames, NEW f \in Fields
  PROVE  Spells(n \o (<<t>> \o separator \o f \o separator), Append(L, <<t, f>>))
<1> DEFINE w == <<t>> \o separator \o f \o separator
           m == n \o w
           K == Append(L, <<t, f>>)
<1>1. PICK c : CutsAt(n, L, c)
  BY DEF Spells
<1>2. /\ L \in Labels /\ Len(L) \in Nat /\ c \in [0 .. Len(L) -> Nat]
      /\ n \in Seq(Pieces) /\ Len(n) \in Nat
      /\ f \in Seq(Pieces) /\ Len(f) \in Nat /\ t \in Pieces
  <2>1. t \in Pieces
    BY DEF Pieces
  <2>2. f \in Seq(Pieces) /\ n \in Seq(Pieces)
    BY DEF NoSeparatorInValues, Spells
  <2> QED BY <1>1, <2>1, <2>2 DEF CutsAt, Labels
<1>3. /\ w \in Seq(Pieces) /\ Len(w) = Len(f) + 3 /\ w[1] = t /\ w[2] = "."
      /\ \A j \in 1 .. Len(f) : w[2 + j] = f[j]
      /\ w[Len(f) + 3] = "."
  <2>1. "." \in Pieces
    BY DEF Pieces
  <2> QED BY <1>2, <2>1 DEF separator
<1>4. /\ K \in Labels /\ Len(K) = Len(L) + 1 /\ K[Len(L) + 1] = <<t, f>>
      /\ \A i \in 1 .. Len(L) : K[i] = L[i]
  <2>1. <<t, f>> \in TagNames \X Fields
    OBVIOUS
  <2> QED BY <1>2, <2>1, AppendProperties DEF Labels
<1> HIDE DEF w, K
<1>5. /\ m \in Seq(Pieces) /\ Len(m) = Len(n) + Len(f) + 3
      /\ \A x \in 1 .. Len(n) : m[x] = n[x]
      /\ \A x \in 1 .. Len(f) + 3 : m[Len(n) + x] = w[x]
  <2>1. /\ m \in Seq(Pieces) /\ Len(m) = Len(n) + Len(w)
        /\ \A x \in 1 .. Len(m) : m[x] = IF x <= Len(n) THEN n[x] ELSE w[x - Len(n)]
    <3>1. n \in Seq(Pieces) /\ w \in Seq(Pieces)
      BY <1>2, <1>3
    <3> QED BY <3>1, ConcatProperties
  <2>2. Len(m) = Len(n) + Len(f) + 3
    BY <1>2, <1>3, <2>1
  <2>3. ASSUME NEW x \in 1 .. Len(n) PROVE m[x] = n[x]
    BY <1>2, <2>1, <2>2
  <2>4. ASSUME NEW x \in 1 .. Len(f) + 3 PROVE m[Len(n) + x] = w[x]
    <3>1. Len(n) + x \in 1 .. Len(m) /\ ~(Len(n) + x <= Len(n)) /\ Len(n) + x - Len(n) = x
      BY <1>2, <2>2
    <3> QED BY <2>1, <3>1
  <2> QED BY <2>1, <2>2, <2>3, <2>4
<1> HIDE DEF m
<1> DEFINE d == [i \in 0 .. Len(K) |-> IF i \in 0 .. Len(L) THEN c[i] ELSE Len(n) + Len(f) + 3]
<1>6. d \in [0 .. Len(K) -> Nat]
  BY <1>2
<1>7. \A i \in 0 .. Len(L) : d[i] = c[i]
  BY <1>2, <1>4
<1>8. d[Len(K)] = Len(m) /\ d[0] = 0
  BY <1>1, <1>2, <1>4, <1>5 DEF CutsAt
<1>9. c[Len(L)] = Len(n)
  BY <1>1 DEF CutsAt
<1> HIDE DEF d
<1>10. ASSUME NEW i \in 1 .. Len(L)
       PROVE  /\ d[i] = d[i - 1] + Len(K[i][2]) + 3
              /\ m[d[i - 1] + 1] = K[i][1] /\ m[d[i - 1] + 2] = "."
              /\ \A j \in 1 .. Len(K[i][2]) : m[d[i - 1] + 2 + j] = K[i][2][j]
              /\ m[d[i]] = "."
  <2>1. /\ c[i] = c[i - 1] + Len(L[i][2]) + 3
        /\ n[c[i - 1] + 1] = L[i][1] /\ n[c[i - 1] + 2] = "."
        /\ \A j \in 1 .. Len(L[i][2]) : n[c[i - 1] + 2 + j] = L[i][2][j]
        /\ n[c[i]] = "."
    BY <1>1 DEF CutsAt
  <2>2. i - 1 \in 0 .. Len(L) /\ i \in 0 .. Len(L)
    BY <1>2
  <2>3. d[i] = c[i] /\ d[i - 1] = c[i - 1] /\ K[i] = L[i] /\ Len(L[i][2]) \in Nat
    BY <1>2, <1>4, <1>7, <2>2, LabelFacts
  <2>4. c[i - 1] \in Nat /\ c[i] \in Nat /\ c[i] <= Len(n)
    <3>1. i # Len(L) => c[i] < c[Len(L)]
      BY <1>1, <2>2, CutsGrow
    <3> QED BY <1>2, <1>9, <2>2, <3>1
  <2>5. \A j \in 1 .. Len(L[i][2]) : m[c[i - 1] + 2 + j] = n[c[i - 1] + 2 + j]
    <3>1. ASSUME NEW j \in 1 .. Len(L[i][2]) PROVE c[i - 1] + 2 + j \in 1 .. Len(n)
      <4>1. c[i] = c[i - 1] + Len(L[i][2]) + 3 /\ Len(n) \in Nat /\ Len(L[i][2]) \in Nat
        BY <1>2, <2>1, <2>3
      <4> QED BY <2>4, <4>1, PartPlaces
    <3> QED BY <1>5, <3>1
  <2>6. /\ m[c[i - 1] + 1] = n[c[i - 1] + 1] /\ m[c[i - 1] + 2] = n[c[i - 1] + 2]
        /\ m[c[i]] = n[c[i]]
    <3>1. /\ c[i - 1] + 1 \in 1 .. Len(n) /\ c[i - 1] + 2 \in 1 .. Len(n)
          /\ c[i] \in 1 .. Len(n)
      <4>1. c[i] = c[i - 1] + Len(L[i][2]) + 3 /\ Len(n) \in Nat /\ Len(L[i][2]) \in Nat
        BY <1>2, <2>1, <2>3
      <4> QED BY <2>4, <4>1, PartPlaces
    <3> QED BY <1>5, <3>1
  <2> QED BY <2>1, <2>3, <2>5, <2>6
<1>11. LET i == Len(K)
       IN  /\ d[i] = d[i - 1] + Len(K[i][2]) + 3
           /\ m[d[i - 1] + 1] = K[i][1] /\ m[d[i - 1] + 2] = "."
           /\ \A j \in 1 .. Len(K[i][2]) : m[d[i - 1] + 2 + j] = K[i][2][j]
           /\ m[d[i]] = "."
  <2>1. Len(K) - 1 = Len(L) /\ Len(L) \in 0 .. Len(L) /\ d[Len(L)] = Len(n)
    BY <1>2, <1>4, <1>7, <1>9
  <2>2. K[Len(K)][1] = t /\ K[Len(K)][2] = f
    BY <1>4
  <2>3. /\ m[Len(n) + 1] = t /\ m[Len(n) + 2] = "." /\ m[Len(n) + (Len(f) + 3)] = "."
        /\ \A j \in 1 .. Len(f) : m[Len(n) + (2 + j)] = f[j]
    <3>1. /\ 1 \in 1 .. Len(f) + 3 /\ 2 \in 1 .. Len(f) + 3 /\ Len(f) + 3 \in 1 .. Len(f) + 3
          /\ \A j \in 1 .. Len(f) : 2 + j \in 1 .. Len(f) + 3
      BY <1>2
    <3> QED BY <1>3, <1>5, <3>1
  <2>4. /\ m[Len(n) + Len(f) + 3] = "."
        /\ \A j \in 1 .. Len(f) : m[Len(n) + 2 + j] = f[j]
    BY <1>2, <2>3
  <2> QED BY <1>5, <1>8, <2>1, <2>2, <2>3, <2>4
<1>12. CutsAt(m, K, d)
  <2>1. \A i \in 1 .. Len(K) : i \in 1 .. Len(L) \/ i = Len(K)
    BY <1>2, <1>4
  <2> QED BY <1>4, <1>6, <1>8, <1>10, <1>11, <2>1 DEF CutsAt
<1>13. Spells(m, K)
  BY <1>4, <1>5, <1>6, <1>12 DEF Spells
<1> QED BY <1>13 DEF m, w, K

LEMMA SpellNothing ==
  ASSUME NoSeparatorInValues PROVE Spells(<<>>, <<>>)
<1> DEFINE c == [i \in 0 .. 0 |-> 0]
<1>1. c \in [0 .. 0 -> Nat] /\ c[0] = 0
  OBVIOUS
<1> HIDE DEF c
<1>2. <<>> \in Labels /\ Len(<<>>) = 0 /\ 1 .. 0 = {}
  BY DEF Labels
<1>3. CutsAt(<<>>, <<>>, c)
  BY <1>1, <1>2 DEF CutsAt
<1> QED BY <1>3 DEF Spells

-----------------------------------------------------------------------------
(* Of the values given at once there are at most two (FieldLists).          *)
LEMMA FlattenOne ==
  ASSUME NEW s, Len(s) = 1 PROVE FlattenSeq(s) = s[1]
<1> DEFINE F(f) == f = [i \in 1 .. Len(s) |-> IF i = 1 THEN s[i] ELSE f[i - 1] \o s[i]]
<1>1. F([i \in 1 .. Len(s) |-> s[1]])
  OBVIOUS
<1>2. \A f : F(f) => f[1] = s[1]
  OBVIOUS
<1> HIDE DEF F
<1>3. F(CHOOSE f : F(f))
  BY <1>1
<1>4. (CHOOSE f : F(f))[1] = s[1]
  BY <1>2, <1>3
<1> QED BY <1>4 DEF FlattenSeq, F

LEMMA FlattenTwo ==
  ASSUME NEW s, Len(s) = 2 PROVE FlattenSeq(s) = s[1] \o s[2]
<1> DEFINE F(f) == f = [i \in 1 .. Len(s) |-> IF i = 1 THEN s[i] ELSE f[i - 1] \o s[i]]
<1>1. F([i \in 1 .. Len(s) |-> IF i = 1 THEN s[1] ELSE s[1] \o s[2]])
  OBVIOUS
<1>2. \A f : F(f) => f[Len(s)] = s[1] \o s[2]
  OBVIOUS
<1> HIDE DEF F
<1>3. F(CHOOSE f : F(f))
  BY <1>1
<1>4. (CHOOSE f : F(f))[Len(s)] = s[1] \o s[2]
  BY <1>2, <1>3
<1>5. Len(s) # 0
  OBVIOUS
<1> QED BY <1>4, <1>5, Zenon DEF FlattenSeq, F

LEMMA FieldListFacts ==
  ASSUME NEW fields \in FieldLists
  PROVE  \/ fields = << >> /\ Len(fields) = 0
         \/ /\ Len(fields) = 1 /\ DOMAIN fields = {1} /\ 1 .. 1 = {1}
            /\ fields[1] \in Fields
         \/ /\ Len(fields) = 2 /\ DOMAIN fields = {1, 2} /\ 1 .. 2 = {1, 2}
            /\ fields[1] \in Fields /\ fields[2] \in Fields
<1>1. PICK n \in 0 .. 2 : fields \in [1 .. n -> Fields]
  BY DEF FieldLists
<1>2. CASE n = 0
  <2>1. fields \in [{} -> Fields]
    BY <1>1, <1>2
  <2> QED BY <2>1
<1>3. CASE n = 1
  BY <1>1, <1>3
<1>4. CASE n = 2
  BY <1>1, <1>4
<1> QED BY <1>1, <1>2, <1>3, <1>4

Part(t, f) == <<t>> \o separator \o f \o separator

Tags == {<<"t1">>, <<"t2">>, <<"t1", "t2">>}

(* prefixWithFields spells what Fix lists.                                  *)
LEMMA PrefixSpells ==
  ASSUME NoSeparatorInValues, NEW m, Spells(m.prefix, m.fixed), m.tags \in Tags,
         NEW fields \in FieldLists, Len(fields) <= Len(m.tags)
  PROVE  Spells(prefixWithFields(m, fields), Fix(m, fields))
<1> DEFINE parts == [i \in DOMAIN fields |->
                       <<m.tags[i]>> \o separator \o fields[i] \o separator]
           given == [i \in DOMAIN fields |-> <<m.tags[i], fields[i]>>]
<1>1. m.prefix \in Seq(Pieces) /\ m.fixed \in Labels
  BY DEF Spells, CutsAt
<1>2. CASE Len(fields) = 0
  <2>1. fields = << >>
    BY <1>2, FieldListFacts
  <2>2. parts = << >> /\ given = << >>
    BY <2>1
  <2>3. FlattenSeq(parts) = << >>
    BY <2>2 DEF FlattenSeq
  <2>4. m.prefix \o << >> = m.prefix /\ m.fixed \o << >> = m.fixed
    BY <1>1, ConcatEmptySeq DEF Labels
  <2> QED BY <2>2, <2>3, <2>4 DEF prefixWithFields, Fix
<1>3. CASE Len(fields) = 1
  <2>1. DOMAIN fields = 1 .. 1 /\ fields[1] \in Fields /\ m.tags[1] \in TagNames
    BY <1>3, FieldListFacts DEF Tags, TagNames
  <2>2. Len(parts) = 1 /\ parts[1] = Part(m.tags[1], fields[1])
    BY <2>1 DEF Part
  <2>3. FlattenSeq(parts) = Part(m.tags[1], fields[1])
    <3> HIDE DEF parts
    <3> QED BY <2>2, FlattenOne
  <2>4. given = << <<m.tags[1], fields[1]>> >>
    BY <2>1
  <2>5. Fix(m, fields) = Append(m.fixed, <<m.tags[1], fields[1]>>)
    BY <1>1, <2>1, <2>4 DEF Fix, Labels
  <2>6. prefixWithFields(m, fields) = m.prefix \o Part(m.tags[1], fields[1])
    BY <2>3 DEF prefixWithFields
  <2> QED BY <2>1, <2>5, <2>6, SpellMore DEF Part
<1>4. CASE Len(fields) = 2
  <2> DEFINE p == Part(m.tags[1], fields[1])
             q == Part(m.tags[2], fields[2])
             l == <<m.tags[1], fields[1]>>
             k == <<m.tags[2], fields[2]>>
  <2>1. /\ DOMAIN fields = 1 .. 2 /\ fields[1] \in Fields /\ fields[2] \in Fields
        /\ m.tags[1] \in TagNames /\ m.tags[2] \in TagNames
    BY <1>4, FieldListFacts DEF Tags, TagNames
  <2>2. Len(parts) = 2 /\ parts[1] = p /\ parts[2] = q
    BY <2>1 DEF Part
  <2>3. FlattenSeq(parts) = p \o q
    <3> HIDE DEF parts, p, q
    <3> QED BY <2>2, FlattenTwo
  <2>4. given = << l, k >>
    BY <2>1
  <2>5. l \in TagNames \X Fields /\ k \in TagNames \X Fields
    BY <2>1
  <2>6. p \in Seq(Pieces) /\ q \in Seq(Pieces)
    <3>1. /\ "." \in Pieces /\ m.tags[1] \in Pieces /\ m.tags[2] \in Pieces
          /\ fields[1] \in Seq(Pieces) /\ fields[2] \in Seq(Pieces)
      BY <2>1 DEF Pieces, NoSeparatorInValues
    <3> QED BY <3>1 DEF Part, separator
  <2>7. Fix(m, fields) = Append(Append(m.fixed, l), k)
    <3>1. Fix(m, fields) = m.fixed \o << l, k >>
      BY <2>4 DEF Fix
    <3>2. m.fixed \in Seq(TagNames \X Fields)
      BY <1>1 DEF Labels
    <3> HIDE DEF l, k
    <3>3. Append(m.fixed, l) \in Seq(TagNames \X Fields)
      BY <2>5, <3>2, AppendProperties
    <3>4. Append(Append(m.fixed, l), k) = m.fixed \o << l, k >>
      <4> DEFINE a == Append(Append(m.fixed, l), k)
                 b == m.fixed \o << l, k >>
      <4>1. /\ a \in Seq(TagNames \X Fields) /\ Len(a) = Len(m.fixed) + 2
            /\ a[Len(m.fixed) + 1] = l /\ a[Len(m.fixed) + 2] = k
            /\ \A i \in 1 .. Len(m.fixed) : a[i] = m.fixed[i]
        BY <2>5, <3>2, <3>3, AppendProperties
      <4>2. /\ b \in Seq(TagNames \X Fields) /\ Len(b) = Len(m.fixed) + 2
            /\ b[Len(m.fixed) + 1] = l /\ b[Len(m.fixed) + 2] = k
            /\ \A i \in 1 .. Len(m.fixed) : b[i] = m.fixed[i]
        BY <2>5, <3>2
      <4>3. \A i \in 1 .. Len(a) :
              i \in 1 .. Len(m.fixed) \/ i = Len(m.fixed) + 1 \/ i = Len(m.fixed) + 2
        BY <3>2, <4>1
      <4> HIDE DEF a, b
      <4>4. \A i \in 1 .. Len(a) : a[i] = b[i]
        BY <4>1, <4>2, <4>3
      <4>5. a = b
        BY <4>1, <4>2, <4>4, SeqEqual
      <4> QED BY <4>5 DEF a, b
    <3> QED BY <3>1, <3>4
  <2>8. prefixWithFields(m, fields) = (m.prefix \o p) \o q
    <3>1. prefixWithFields(m, fields) = m.prefix \o (p \o q)
      BY <2>3 DEF prefixWithFields
    <3> HIDE DEF p, q
    <3>2. m.prefix \in Seq(Pieces)
      BY <1>1
    <3>3. (m.prefix \o p) \o q = m.prefix \o (p \o q)
      <4>1. \A s, t, u \in Seq(Pieces) : (s \o t) \o u = s \o (t \o u)
        BY ConcatAssociative
      <4> QED BY <2>6, <3>2, <4>1, Zenon
    <3> QED BY <3>1, <3>3
  <2>9. Spells(m.prefix \o p, Append(m.fixed, l))
    BY <2>1, SpellMore DEF Part
  <2>10. Spells((m.prefix \o p) \o q, Append(Append(m.fixed, l), k))
    BY <2>1, <2>9, SpellMore DEF Part
  <2> QED BY <2>7, <2>8, <2>10
<1>5. Len(fields) \in {0, 1, 2}
  BY FieldListFacts
<1> QED BY <1>2, <1>3, <1>4, <1>5

-----------------------------------------------------------------------------
(* What holds of the objects, of the ids and of the numbers.                *)
IdCaches == UNION {[D -> Nat] : D \in SUBSET Seq(Pieces)}

MetricObjects ==
  [class : {"Metric", "Counter"}, tags : Tags, prefix : Seq(Pieces),
   metric_ids : IdCaches, fixed : Labels]

MetricsTypeOK == metrics \in Seq(MetricObjects) /\ series \in Seq(Seq(Pieces))

Cached(ids) == \A x \in DOMAIN ids : ids[x] \in DOMAIN series /\ series[ids[x]] = x

ObjectsSpell ==
  \A k \in DOMAIN metrics :
    Spells(metrics[k].prefix, metrics[k].fixed) /\ Cached(metrics[k].metric_ids)

Keeps(s) ==
  /\ s.metric_id \in DOMAIN series
  /\ \E p : Spells(p, s.labels) /\ series[s.metric_id] = p \o name

CountersKeep == \A s \in simple : Keeps(s)

CountsAgree ==
  \A p, L : Spells(p, L) => Get(value, p \o name) = Get(counted, L)

MetricsInv == MetricsTypeOK /\ ObjectsSpell /\ CountersKeep /\ CountsAgree

LEMMA MetricsInitInv ==
  ASSUME NoSeparatorInValues, MetricsInit PROVE MetricsInv
<1>1. NoIds \in IdCaches /\ DOMAIN NoIds = {}
  <2>1. NoIds \in [{} -> Nat]
    BY DEF NoIds
  <2> QED BY <2>1 DEF IdCaches
<1>2. Spells(<< >>, << >>) /\ << >> \in Seq(Pieces) /\ << >> \in Labels
  BY SpellNothing DEF Labels
<1>3. PICK m : /\ metrics = <<m>> /\ m \in MetricObjects
               /\ m.prefix = << >> /\ m.fixed = << >> /\ m.metric_ids = NoIds
  <2>1. PICK class \in {"Metric", "Counter"}, tags \in Tags :
          metrics = <<New(class, tags, << >>, << >>)>>
    BY DEF MetricsInit, Tags
  <2> DEFINE r == New(class, tags, << >>, << >>)
  <2>2. /\ r.prefix = << >> /\ r.fixed = << >> /\ r.metric_ids = NoIds
        /\ r = [class |-> class, tags |-> tags, prefix |-> << >>, metric_ids |-> NoIds,
                fixed |-> << >>]
    BY DEF New
  <2>3. r \in MetricObjects
    <3> HIDE DEF r
    <3> DEFINE e == << >>
    <3>1. e \in Seq(Pieces) /\ e \in Labels
      BY <1>2
    <3>2. r = [class |-> class, tags |-> tags, prefix |-> e, metric_ids |-> NoIds,
               fixed |-> e]
      BY <2>2
    <3> HIDE DEF e
    <3> QED BY <1>1, <2>1, <3>1, <3>2 DEF MetricObjects
  <2> QED BY <2>1, <2>2, <2>3
<1>4. MetricsTypeOK
  <2>1. series = << >> /\ << >> \in Seq(Seq(Pieces))
    BY DEF MetricsInit
  <2> QED BY <1>3, <2>1 DEF MetricsTypeOK
<1>5. ObjectsSpell
  <2>1. DOMAIN metrics = {1} /\ metrics[1] = m
    BY <1>3
  <2> QED BY <1>1, <1>2, <1>3, <2>1 DEF ObjectsSpell, Cached
<1>6. CountersKeep
  BY DEF MetricsInit, CountersKeep
<1>7. CountsAgree
  BY <1>1 DEF MetricsInit, CountsAgree, Get
<1> QED BY <1>4, <1>5, <1>6, <1>7 DEF MetricsInv

-----------------------------------------------------------------------------
(* Counting under a name counts under the list it spells, and under no      *)
(* other.                                                                   *)
LEMMA AddCounts ==
  ASSUME NEW f, NEW x, NEW y
  PROVE  Get(Add(f, x), y) = Get(f, y) + (IF y = x THEN 1 ELSE 0)
<1>1. CASE y \in DOMAIN f \cup {x}
  BY <1>1 DEF Get, Add
<1>2. CASE y \notin DOMAIN f \cup {x}
  BY <1>2 DEF Get, Add
<1> QED BY <1>1, <1>2

LEMMA NamesDiffer ==
  ASSUME NEW p \in Seq(Pieces), NEW q \in Seq(Pieces), p \o name = q \o name
  PROVE  p = q
<1>1. name \in Seq(Pieces)
  BY DEF name, Pieces
<1>2. \A s, t, v \in Seq(Pieces) : s \o v = t \o v => s = t
  BY ConcatSimplifications, Zenon
<1> QED BY <1>1, <1>2

LEMMA CountingAgrees ==
  ASSUME NoSeparatorInValues, CountsAgree, NEW p, NEW L, Spells(p, L),
         value' = Add(value, p \o name), counted' = Add(counted, L)
  PROVE  CountsAgree'
<1> SUFFICES ASSUME NEW q, NEW K, Spells(q, K)
             PROVE  Get(value', q \o name) = Get(counted', K)
  BY DEF CountsAgree
<1>1. Get(value, q \o name) = Get(counted, K)
  BY DEF CountsAgree
<1>2. Get(value', q \o name) = Get(value, q \o name) + (IF q \o name = p \o name THEN 1 ELSE 0)
  BY AddCounts
<1>3. Get(counted', K) = Get(counted, K) + (IF K = L THEN 1 ELSE 0)
  BY AddCounts
<1>4. p \in Seq(Pieces) /\ q \in Seq(Pieces)
  BY DEF Spells
<1>5. q \o name = p \o name => K = L
  BY <1>4, NamesDiffer, NameSpellsOne
<1>6. K = L => q = p
  BY SpelledByOne
<1> QED BY <1>1, <1>2, <1>3, <1>5, <1>6

-----------------------------------------------------------------------------
(* Every call that resolves a name leaves the host with an id for it, in    *)
(* the cache of the object or not, and all earlier ids as they were.        *)
SeriesGrow == \A i \in DOMAIN series : i \in DOMAIN series' /\ series'[i] = series[i]

LEMMA DefinedNames ==
  ASSUME series \in Seq(Seq(Pieces)), NEW n \in Seq(Pieces), NEW id \in MetricIds,
         defineMetric(n, id)
  PROVE  /\ series' \in Seq(Seq(Pieces)) /\ SeriesGrow
         /\ id \in DOMAIN series' /\ series'[id] = n
<1>1. CASE id \in DOMAIN series /\ series[id] = n /\ UNCHANGED series
  BY <1>1 DEF SeriesGrow
<1>2. CASE id = Len(series) + 1 /\ series' = Append(series, n)
  BY <1>2, AppendProperties DEF SeriesGrow
<1> QED BY <1>1, <1>2 DEF defineMetric

LEMMA CacheGrows ==
  ASSUME NEW c \in IdCaches, NEW n \in Seq(Pieces), NEW id \in Nat
  PROVE  [x \in DOMAIN c \cup {n} |-> IF x = n THEN id ELSE c[x]] \in IdCaches
<1>1. PICK D \in SUBSET Seq(Pieces) : c \in [D -> Nat]
  BY DEF IdCaches
<1>2. [x \in DOMAIN c \cup {n} |-> IF x = n THEN id ELSE c[x]] \in [D \cup {n} -> Nat]
  BY <1>1
<1> QED BY <1>1, <1>2 DEF IdCaches

LEMMA CachedStays ==
  ASSUME NEW ids, Cached(ids), SeriesGrow PROVE Cached(ids)'
  BY DEF Cached, SeriesGrow

LEMMA CountersStay ==
  ASSUME NEW s, Keeps(s), SeriesGrow PROVE Keeps(s)'
  BY DEF Keeps, SeriesGrow

LEMMA ResolvedNames ==
  ASSUME NoSeparatorInValues, MetricsInv, NEW k \in DOMAIN metrics,
         NEW fields \in FieldLists, NEW id \in MetricIds,
         RightNumber(k, fields), resolveWithFields(k, fields, id)
  PROVE  /\ MetricsTypeOK' /\ ObjectsSpell' /\ SeriesGrow
         /\ id \in DOMAIN series'
         /\ series'[id] = prefixWithFields(metrics[k], fields) \o name
         /\ Spells(prefixWithFields(metrics[k], fields), Fix(metrics[k], fields))
<1> DEFINE m == metrics[k]
           p == prefixWithFields(m, fields)
           n == p \o name
<1>1. /\ metrics \in Seq(MetricObjects) /\ series \in Seq(Seq(Pieces))
      /\ m \in MetricObjects /\ m.tags \in Tags /\ m.metric_ids \in IdCaches
      /\ Spells(m.prefix, m.fixed) /\ Cached(m.metric_ids)
  <2>1. m \in MetricObjects
    BY DEF MetricsInv, MetricsTypeOK
  <2> QED BY <2>1 DEF MetricsInv, MetricsTypeOK, ObjectsSpell, MetricObjects
<1>2. Spells(p, Fix(m, fields)) /\ p \in Seq(Pieces)
  <2>1. Len(fields) <= Len(m.tags)
    BY <1>1, FieldListFacts DEF RightNumber
  <2>2. Spells(p, Fix(m, fields))
    BY <1>1, <2>1, PrefixSpells
  <2> QED BY <2>2 DEF Spells
<1>3. n \in Seq(Pieces)
  <2>1. name \in Seq(Pieces)
    BY DEF name, Pieces
  <2> HIDE DEF p
  <2> QED BY <1>2, <2>1, ConcatProperties
<1>4. resolveFullName(k, n, id)
  BY DEF resolveWithFields
<1> HIDE DEF n, p
<1>5. CASE n \in DOMAIN m.metric_ids
  <2>1. id = m.metric_ids[n] /\ UNCHANGED <<metrics, series>>
    BY <1>4, <1>5 DEF resolveFullName
  <2>2. SeriesGrow /\ MetricsTypeOK' /\ ObjectsSpell'
    BY <2>1 DEF SeriesGrow, MetricsInv, MetricsTypeOK, ObjectsSpell, Cached
  <2>3. id \in DOMAIN series' /\ series'[id] = n
    BY <1>1, <1>5, <2>1 DEF Cached
  <2> QED BY <1>2, <2>2, <2>3 DEF n, p
<1>6. CASE n \notin DOMAIN m.metric_ids
  <2>0. PICK old : old = m.metric_ids
    OBVIOUS
  <2> DEFINE c == [x \in DOMAIN old \cup {n} |-> IF x = n THEN id ELSE old[x]]
  <2>1. defineMetric(n, id) /\ metrics' = [metrics EXCEPT ![k].metric_ids = c]
    BY <1>4, <1>6, <2>0 DEF resolveFullName
  <2>2. /\ series' \in Seq(Seq(Pieces)) /\ SeriesGrow
        /\ id \in DOMAIN series' /\ series'[id] = n
    BY <1>1, <1>3, <2>1, DefinedNames
  <2>3. c \in IdCaches
    <3>1. id \in Nat
      BY DEF MetricIds
    <3>2. old \in IdCaches
      BY <1>1, <2>0
    <3> QED BY <1>3, <3>1, <3>2, CacheGrows
  <2>4. \A x \in DOMAIN c : c[x] \in DOMAIN series' /\ series'[c[x]] = x
    <3>1. Cached(old)
      BY <1>1, <2>0
    <3>2. Cached(old)'
      BY <2>2, <3>1, CachedStays
    <3> QED BY <2>2, <3>2 DEF Cached
  <2> HIDE DEF c
  <2>5. metrics' = [metrics EXCEPT ![k] = [m EXCEPT !.metric_ids = c]]
    BY <1>1, <2>1
  <2> DEFINE r == [m EXCEPT !.metric_ids = c]
  <2>6. /\ r \in MetricObjects /\ r.metric_ids = c
        /\ r.prefix = m.prefix /\ r.fixed = m.fixed
    BY <1>1, <2>3 DEF MetricObjects
  <2> HIDE DEF m, r
  <2>7. metrics' \in Seq(MetricObjects) /\ DOMAIN metrics' = DOMAIN metrics
    BY <1>1, <2>5, <2>6 DEF r
  <2>8. ObjectsSpell'
    <3> SUFFICES ASSUME NEW i \in DOMAIN metrics
                 PROVE  /\ Spells(metrics'[i].prefix, metrics'[i].fixed)
                        /\ Cached(metrics[i].metric_ids)'
      BY <2>7 DEF ObjectsSpell
    <3>1. CASE i = k
      <4>1. metrics'[i] = r
        BY <1>1, <2>5, <3>1 DEF r
      <4> QED BY <1>1, <2>4, <2>6, <4>1 DEF Cached
    <3>2. CASE i # k
      <4>1. metrics'[i] = metrics[i]
        BY <1>1, <2>5, <3>2
      <4>2. Cached(metrics[i].metric_ids) /\ Spells(metrics[i].prefix, metrics[i].fixed)
        BY DEF MetricsInv, ObjectsSpell
      <4>3. PICK ids : ids = metrics[i].metric_ids
        OBVIOUS
      <4>4. Cached(ids)
        BY <4>2, <4>3
      <4>5. Cached(ids)'
        BY <2>2, <4>4, CachedStays
      <4> QED BY <4>1, <4>2, <4>3, <4>5 DEF Cached
    <3> QED BY <3>1, <3>2
  <2> QED BY <1>2, <2>2, <2>7, <2>8 DEF MetricsTypeOK, n, p, m
<1> QED BY <1>5, <1>6

LEMMA SimpleStays ==
  ASSUME CountersKeep, SeriesGrow, UNCHANGED simple PROVE CountersKeep'
<1> SUFFICES ASSUME NEW s \in simple PROVE Keeps(s)'
  BY DEF CountersKeep
<1> QED BY CountersStay DEF CountersKeep

LEMMA SameNumbers ==
  ASSUME CountsAgree, UNCHANGED <<value, counted>> PROVE CountsAgree'
  BY DEF CountsAgree

LEMMA AbortKeeps == ASSUME MetricsInv, abort PROVE MetricsInv'
  BY DEF abort, MetricsInv, MetricsTypeOK, ObjectsSpell, Cached, CountersKeep, Keeps,
         CountsAgree

LEMMA IncrementKeeps ==
  ASSUME NoSeparatorInValues, MetricsInv, NEW k \in DOMAIN metrics,
         NEW fields \in FieldLists, increment(k, fields)
  PROVE  MetricsInv'
<1>1. CASE WrongNumber(k, fields)
  BY <1>1, AbortKeeps DEF WrongNumber
<1>2. ASSUME NEW id \in MetricIds, RightNumber(k, fields), resolveWithFields(k, fields, id),
             value' = Add(value, series'[id]),
             counted' = Add(counted, Fix(metrics[k], fields)), UNCHANGED simple
      PROVE  MetricsInv'
  <2>1. PICK p, L : p = prefixWithFields(metrics[k], fields) /\ L = Fix(metrics[k], fields)
    OBVIOUS
  <2>2. /\ MetricsTypeOK' /\ ObjectsSpell' /\ SeriesGrow
        /\ series'[id] = p \o name /\ Spells(p, L)
    BY <1>2, <2>1, ResolvedNames
  <2>3. CountsAgree'
    BY <1>2, <2>1, <2>2, CountingAgrees DEF MetricsInv
  <2>4. CountersKeep'
    BY <1>2, <2>2, SimpleStays DEF MetricsInv
  <2> QED BY <2>2, <2>3, <2>4 DEF MetricsInv
<1> QED BY <1>1, <1>2 DEF increment

LEMMA ResolveKeeps ==
  ASSUME NoSeparatorInValues, MetricsInv, NEW k \in DOMAIN metrics,
         NEW fields \in FieldLists, resolve(k, fields)
  PROVE  MetricsInv'
<1>1. CASE WrongNumber(k, fields)
  BY <1>1, AbortKeeps DEF WrongNumber
<1>2. ASSUME NEW id \in MetricIds, RightNumber(k, fields), resolveWithFields(k, fields, id),
             simple' = simple \cup {[metric_id |-> id, labels |-> Fix(metrics[k], fields)]},
             UNCHANGED <<value, counted>>
      PROVE  MetricsInv'
  <2>1. PICK p, L : p = prefixWithFields(metrics[k], fields) /\ L = Fix(metrics[k], fields)
    OBVIOUS
  <2>2. /\ MetricsTypeOK' /\ ObjectsSpell' /\ SeriesGrow
        /\ id \in DOMAIN series' /\ series'[id] = p \o name /\ Spells(p, L)
    BY <1>2, <2>1, ResolvedNames
  <2>3. CountsAgree'
    BY <1>2, SameNumbers DEF MetricsInv
  <2>4. CountersKeep'
    <3> SUFFICES ASSUME NEW s \in simple' PROVE Keeps(s)'
      BY DEF CountersKeep
    <3>1. CASE s \in simple
      BY <2>2, <3>1, CountersStay DEF MetricsInv, CountersKeep
    <3>2. CASE s = [metric_id |-> id, labels |-> L]
      BY <2>2, <3>2 DEF Keeps
    <3> QED BY <1>2, <2>1, <3>1, <3>2
  <2> QED BY <2>2, <2>3, <2>4 DEF MetricsInv
<1> QED BY <1>1, <1>2 DEF resolve

LEMMA GetKeeps ==
  ASSUME NoSeparatorInValues, MetricsInv, NEW k \in DOMAIN metrics,
         NEW fields \in FieldLists, get(k, fields)
  PROVE  MetricsInv'
<1>1. CASE WrongNumber(k, fields)
  BY <1>1, AbortKeeps DEF WrongNumber
<1>2. ASSUME NEW id \in MetricIds, RightNumber(k, fields), resolveWithFields(k, fields, id),
             UNCHANGED <<simple, value, counted>>
      PROVE  MetricsInv'
  BY <1>2, ResolvedNames, SimpleStays, SameNumbers DEF MetricsInv
<1> QED BY <1>1, <1>2 DEF get

LEMMA SimpleIncrementKeeps ==
  ASSUME NoSeparatorInValues, MetricsInv, NEW s \in simple, SimpleCounter_increment(s)
  PROVE  MetricsInv'
<1>1. PICK p : Spells(p, s.labels) /\ series[s.metric_id] = p \o name
  BY DEF MetricsInv, CountersKeep, Keeps
<1>2. CountsAgree'
  BY <1>1, CountingAgrees DEF MetricsInv, SimpleCounter_increment
<1>3. SeriesGrow /\ UNCHANGED <<metrics, simple, series>>
  BY DEF SimpleCounter_increment, SeriesGrow
<1>4. MetricsTypeOK' /\ ObjectsSpell'
  BY <1>3 DEF MetricsInv, MetricsTypeOK, ObjectsSpell, Cached
<1> QED BY <1>2, <1>3, <1>4, SimpleStays DEF MetricsInv

(* One more object.                                                         *)
LEMMA AppendKeeps ==
  ASSUME MetricsInv, NEW r \in MetricObjects, Spells(r.prefix, r.fixed),
         Cached(r.metric_ids), metrics' = Append(metrics, r),
         UNCHANGED <<simple, series, value, counted>>
  PROVE  MetricsInv'
<1>1. SeriesGrow /\ CountersKeep' /\ CountsAgree'
  BY SimpleStays, SameNumbers DEF SeriesGrow, MetricsInv
<1>2. /\ metrics \in Seq(MetricObjects) /\ metrics' \in Seq(MetricObjects)
      /\ \A i \in DOMAIN metrics' :
           metrics'[i] = r \/ (i \in DOMAIN metrics /\ metrics'[i] = metrics[i])
  <2>1. metrics \in Seq(MetricObjects)
    BY DEF MetricsInv, MetricsTypeOK
  <2>2. /\ metrics' \in Seq(MetricObjects) /\ Len(metrics') = Len(metrics) + 1
        /\ metrics'[Len(metrics) + 1] = r
        /\ \A i \in 1 .. Len(metrics) : metrics'[i] = metrics[i]
    BY <2>1, AppendProperties
  <2>3. /\ DOMAIN metrics = 1 .. Len(metrics) /\ DOMAIN metrics' = 1 .. Len(metrics) + 1
        /\ Len(metrics) \in Nat
    BY <2>1, <2>2
  <2> QED BY <2>1, <2>2, <2>3
<1>3. ObjectsSpell'
  BY <1>2 DEF MetricsInv, ObjectsSpell, Cached
<1> QED BY <1>1, <1>2, <1>3 DEF MetricsInv, MetricsTypeOK

LEMMA PartialKeeps ==
  ASSUME NoSeparatorInValues, MetricsInv, NEW k \in DOMAIN metrics,
         NEW fields \in FieldLists, partiallyResolve(k, fields)
  PROVE  MetricsInv'
<1>1. PICK m : m = metrics[k]
  OBVIOUS
<1>2. /\ m \in MetricObjects /\ m.tags \in Tags
      /\ Spells(m.prefix, m.fixed) /\ Cached(m.metric_ids)
  <2>1. m \in MetricObjects
    BY <1>1 DEF MetricsInv, MetricsTypeOK
  <2> QED BY <1>1, <2>1 DEF MetricsInv, ObjectsSpell, MetricObjects
<1>3. CASE abort
  BY <1>3, AbortKeeps
<1> DEFINE tags == SubSeq(m.tags, Len(fields) + 1, Len(m.tags))
           p == prefixWithFields(m, fields)
           L == Fix(m, fields)
           r == [m EXCEPT !.prefix = p, !.tags = tags, !.fixed = L]
<1>4. CASE /\ ~ (Len(fields) >= Len(m.tags)) /\ metrics' = Append(metrics, r)
           /\ UNCHANGED <<simple, series, value, counted>>
  <2>1. Len(fields) < Len(m.tags) /\ Len(fields) \in {0, 1, 2}
    BY <1>2, <1>4, FieldListFacts DEF Tags
  <2>2. tags \in Tags
    <3>1. CASE Len(fields) = 0
      <4>1. tags = m.tags
        BY <1>2, <3>1 DEF Tags
      <4> QED BY <1>2, <4>1
    <3>2. CASE Len(fields) # 0
      <4>1. \/ m.tags = <<"t1", "t2">> /\ Len(m.tags) = 2
            \/ m.tags # <<"t1", "t2">> /\ Len(m.tags) = 1
        <5>1. /\ Len(<<"t1">>) = 1 /\ Len(<<"t2">>) = 1 /\ Len(<<"t1", "t2">>) = 2
          OBVIOUS
        <5>2. m.tags \in {<<"t1">>, <<"t2">>, <<"t1", "t2">>}
          BY <1>2 DEF Tags
        <5> QED BY <5>1, <5>2
      <4>2. Len(fields) = 1 /\ m.tags = <<"t1", "t2">>
        <5>1. CASE m.tags = <<"t1", "t2">> /\ Len(m.tags) = 2
          <6>1. Len(fields) = 1
            BY <2>1, <3>2, <5>1
          <6> QED BY <5>1, <6>1, Zenon
        <5>2. CASE Len(m.tags) = 1
          BY <2>1, <3>2, <5>2
        <5> QED BY <4>1, <5>1, <5>2
      <4>3. tags = SubSeq(<<"t1", "t2">>, 2, 2)
        BY <4>2
      <4>4. SubSeq(<<"t1", "t2">>, 2, 2) = <<"t2">>
        <5> DEFINE a == <<"t1", "t2">>
                   b == SubSeq(a, 2, 2)
                   c == <<"t2">>
        <5>1. a \in Seq(TagNames) /\ Len(a) = 2 /\ a[2] = "t2"
          BY DEF TagNames
        <5> HIDE DEF a
        <5>2. b \in Seq(TagNames) /\ Len(b) = 1 /\ b[1] = "t2"
          BY <5>1, SubSeqProperties
        <5>3. c \in Seq(TagNames) /\ Len(c) = 1 /\ c[1] = "t2"
          BY DEF TagNames
        <5> HIDE DEF b, c
        <5>4. b = c
          BY <5>2, <5>3, SeqEqual
        <5> QED BY <5>4 DEF a, b, c
      <4> QED BY <4>3, <4>4 DEF Tags
    <3> QED BY <3>1, <3>2
  <2>3. Spells(p, L) /\ p \in Seq(Pieces) /\ L \in Labels
    <3>1. Spells(p, L)
      BY <1>2, <2>1, PrefixSpells
    <3> QED BY <3>1 DEF Spells, CutsAt
  <2> HIDE DEF tags, p, L
  <2>4. r \in MetricObjects /\ r.prefix = p /\ r.fixed = L /\ r.metric_ids = m.metric_ids
    BY <1>2, <2>2, <2>3 DEF MetricObjects
  <2> HIDE DEF r
  <2> QED BY <1>2, <1>4, <2>3, <2>4, AppendKeeps
<1> QED BY <1>1, <1>3, <1>4 DEF partiallyResolve

LEMMA ExtendKeeps ==
  ASSUME NoSeparatorInValues, MetricsInv, NEW k \in DOMAIN metrics,
         NEW fields \in FieldLists, extendAndResolve(k, fields, <<"t2">>)
  PROVE  MetricsInv'
<1>1. PICK m : m = metrics[k]
  OBVIOUS
<1>2. m.tags \in Tags /\ Spells(m.prefix, m.fixed)
  <2>1. m \in MetricObjects
    BY <1>1 DEF MetricsInv, MetricsTypeOK
  <2> QED BY <1>1, <2>1 DEF MetricsInv, ObjectsSpell, MetricObjects
<1> DEFINE p == prefixWithFields(m, fields)
           L == Fix(m, fields)
           r == New("Counter", <<"t2">>, p, L)
<1>3. /\ metrics' = Append(metrics, r) /\ Len(fields) = Len(m.tags)
      /\ UNCHANGED <<simple, series, value, counted>>
  BY <1>1 DEF extendAndResolve, RightNumber
<1>4. Spells(p, L) /\ p \in Seq(Pieces) /\ L \in Labels
  <2>1. Len(fields) <= Len(m.tags)
    BY <1>2, <1>3 DEF Tags
  <2>2. Spells(p, L)
    BY <1>2, <2>1, PrefixSpells
  <2> QED BY <2>2 DEF Spells, CutsAt
<1> HIDE DEF p, L
<1>5. NoIds \in IdCaches /\ DOMAIN NoIds = {}
  <2>1. NoIds \in [{} -> Nat]
    BY DEF NoIds
  <2> QED BY <2>1 DEF IdCaches
<1>6. r \in MetricObjects /\ r.prefix = p /\ r.fixed = L /\ r.metric_ids = NoIds
  BY <1>4, <1>5 DEF New, MetricObjects, Tags
<1>7. Cached(r.metric_ids)
  BY <1>5, <1>6 DEF Cached
<1> HIDE DEF r
<1> QED BY <1>3, <1>4, <1>6, <1>7, AppendKeeps

LEMMA MetricsNextInv ==
  ASSUME NoSeparatorInValues, MetricsInv, [MetricsNext]_metricVars PROVE MetricsInv'
<1>1. CASE UNCHANGED metricVars
  BY <1>1 DEF metricVars, MetricsInv, MetricsTypeOK, ObjectsSpell, Cached, CountersKeep,
              Keeps, CountsAgree
<1>2. CASE MetricsNext
  BY <1>2, IncrementKeeps, ResolveKeeps, GetKeeps, SimpleIncrementKeeps, PartialKeeps,
     ExtendKeeps DEF MetricsNext
<1> QED BY <1>1, <1>2

-----------------------------------------------------------------------------
LEMMA MetricsInvIndependent ==
  ASSUME NoSeparatorInValues, MetricsInv PROVE CombinationsAreIndependent
<1> SUFFICES ASSUME NEW k \in DOMAIN metrics,
                    NEW fields \in [1 .. Len(metrics[k].tags) -> Fields]
             PROVE  Reads(metrics[k], fields) = Get(counted, Fix(metrics[k], fields))
  BY DEF CombinationsAreIndependent
<1>1. PICK m : m = metrics[k]
  OBVIOUS
<1>2. m.tags \in Tags /\ Spells(m.prefix, m.fixed) /\ Cached(m.metric_ids)
  <2>1. m \in MetricObjects
    BY <1>1 DEF MetricsInv, MetricsTypeOK
  <2> QED BY <1>1, <2>1 DEF MetricsInv, ObjectsSpell, MetricObjects
<1>3. Len(m.tags) \in 0 .. 2 /\ fields \in [1 .. Len(m.tags) -> Fields]
  BY <1>1, <1>2 DEF Tags
<1>4. fields \in FieldLists /\ Len(fields) <= Len(m.tags)
  <2>1. PICK n \in 0 .. 2 : n = Len(m.tags)
    BY <1>3
  <2>2. fields \in [1 .. n -> Fields]
    BY <1>3, <2>1
  <2>3. fields \in FieldLists
    BY <2>2 DEF FieldLists
  <2>4. Len(fields) = n
    BY <2>2
  <2> QED BY <2>1, <2>3, <2>4
<1>5. Spells(prefixWithFields(m, fields), Fix(m, fields))
  BY <1>2, <1>4, PrefixSpells
<1>6. Reads(m, fields) = Get(value, prefixWithFields(m, fields) \o name)
  BY <1>2 DEF Reads, Cached
<1> QED BY <1>1, <1>5, <1>6 DEF MetricsInv, CountsAgree

(* Of a plugin none of whose tags takes a value with a "." in it: whichever *)
(* object reads a combination of tags, by a cached id or by its name, finds *)
(* what was counted for this combination through any object, and no more.   *)
THEOREM CountersAreIndependent ==
  NoSeparatorInValues => (MetricsSpec => []CombinationsAreIndependent)
<1> SUFFICES ASSUME NoSeparatorInValues PROVE MetricsSpec => []CombinationsAreIndependent
  OBVIOUS
<1>1. MetricsInit => MetricsInv
  BY MetricsInitInv
<1>2. MetricsInv /\ [MetricsNext]_metricVars => MetricsInv'
  BY MetricsNextInv
<1>3. MetricsInv => CombinationsAreIndependent
  BY MetricsInvIndependent
<1> QED BY <1>1, <1>2, <1>3, PTL DEF MetricsSpec
=============================================================================
