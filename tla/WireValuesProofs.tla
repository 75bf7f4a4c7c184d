-------------------------- MODULE WireValuesProofs --------------------------
(***************************************************************************)
(* The values that cross the border of the component, for any addresses     *)
(* and lengths of texts, any numbers within their widths, and any widths    *)
(* of a u32 and a u64 that are multiples of each other and of 65536.        *)
(*                                                                          *)
(* A type is a layout: it says which cells of memory a value is in and      *)
(* which flat words it is passed as. Holds(area, T, v, b) says that the     *)
(* cells of v, and no others, are in the area from b on; TakesAt(T, v,      *)
(* words, k) that the words from k on are those of v. Each layout is built  *)
(* of smaller ones, and a lemma for each way of building says what the      *)
(* parts of a value are held in; the literals of the bindings are then the  *)
(* places of those parts. The state machines of FieldsCalls and             *)
(* RequestAttributes keep an invariant that says of the last call what      *)
(* these lemmas say of any.                                                 *)
(***************************************************************************)
EXTENDS HeaderPairsProofs, RequestAttributes, FieldsCalls, FiniteSetTheorems

-----------------------------------------------------------------------------
(* Cells and areas.                                                         *)
LEMMA CellEq ==
  ASSUME NEW a, NEW n, NEW v, NEW b, NEW m, NEW w
  PROVE  Cell(a, n, v) = Cell(b, m, w) <=> a = b /\ n = m /\ v = w
BY DEF Cell

LEMMA CellParts ==
  ASSUME NEW a, NEW n, NEW v
  PROVE  Cell(a, n, v).at = a /\ Cell(a, n, v).bytes = n /\ Cell(a, n, v).value = v
BY DEF Cell

(* Cells of an area of n bytes.                                             *)
IsCell(c, n) ==
  /\ c = Cell(c.at, c.bytes, c.value)
  /\ c.at \in Nat /\ c.bytes \in Nat \ {0} /\ c.at + c.bytes <= n
Within(C, n) == \A c \in C : IsCell(c, n)

LEMMA MovedTwice ==
  ASSUME NEW C, NEW n, Within(C, n), NEW x \in Int, NEW y \in Int
  PROVE  Moved(Moved(C, x), y) = Moved(C, x + y)
<1>1. ASSUME NEW c \in C
      PROVE  Cell(Cell(c.at + x, c.bytes, c.value).at + y,
                  Cell(c.at + x, c.bytes, c.value).bytes,
                  Cell(c.at + x, c.bytes, c.value).value)
               = Cell(c.at + (x + y), c.bytes, c.value)
  <2>1. c.at \in Int /\ (c.at + x) + y = c.at + (x + y)
    BY DEF Within, IsCell
  <2> QED
    BY <2>1, CellParts
<1> QED
  BY <1>1 DEF Moved

LEMMA MovedByNothing ==
  ASSUME NEW C, NEW n, Within(C, n)
  PROVE  Moved(C, 0) = C
<1>1. ASSUME NEW c \in C  PROVE Cell(c.at + 0, c.bytes, c.value) = c
  BY DEF Within, IsCell
<1> QED
  BY <1>1 DEF Moved

LEMMA MovedIn ==
  ASSUME NEW C, NEW n \in Nat, Within(C, n), NEW b \in Nat, NEW c \in Moved(C, b)
  PROVE  /\ c = Cell(c.at, c.bytes, c.value)
         /\ c.at \in Nat /\ b <= c.at /\ c.bytes \in Nat \ {0} /\ c.at + c.bytes <= b + n
<1>1. PICK d \in C : c = Cell(d.at + b, d.bytes, d.value)
  BY DEF Moved
<1>2. d.at \in Nat /\ d.bytes \in Nat \ {0} /\ d.at + d.bytes <= n
  BY DEF Within, IsCell
<1>3. c.at = d.at + b /\ c.bytes = d.bytes /\ c.value = d.value
  BY <1>1, CellParts
<1> QED
  BY <1>1, <1>2, <1>3

(* The area has exactly the cells C from b on, for n bytes.                 *)
HasAt(area, C, b, n) ==
  /\ Moved(C, b) \subseteq area
  /\ \A c \in area : c.at \in b .. b + n - 1 => c \in Moved(C, b)

Holds(area, T, v, b) == HasAt(area, T.cells[v], b, T.size)

IsRead(area, at, n, v) ==
  Cell(at, n, v) \in area /\ \A c \in area : c.at = at /\ c.bytes = n => c.value = v

LEMMA ReadIs ==
  ASSUME NEW area, NEW at, NEW n, NEW v, IsRead(area, at, n, v)
  PROVE  Read(area, at, n) = v
BY CellParts DEF Read, IsRead

-----------------------------------------------------------------------------
(* Types.                                                                   *)
LEMMA LargestIs ==
  ASSUME NEW S, NEW m \in S, m \in Int, \A n \in S : n \in Int /\ n <= m
  PROVE  Largest(S) = m
<1>1. \A k \in S : (\A n \in S : n <= k) => k = m
  OBVIOUS
<1> QED
  BY <1>1 DEF Largest

LEMMA RoundUpFits ==
  ASSUME NEW n \in Nat, NEW a \in {1, 2, 4, 8}
  PROVE  RoundUp(n, a) \in Nat /\ n <= RoundUp(n, a)
<1>1. CASE a = 1
  BY <1>1 DEF RoundUp
<1>2. CASE a = 2
  BY <1>2 DEF RoundUp
<1>3. CASE a = 4
  BY <1>3 DEF RoundUp
<1>4. CASE a = 8
  BY <1>4 DEF RoundUp
<1> QED
  BY <1>1, <1>2, <1>3, <1>4

(* An area that has C, which has E, has E.                                  *)
LEMMA HasPart ==
  ASSUME NEW area, NEW C, NEW n \in Nat, Within(C, n), NEW b \in Nat, HasAt(area, C, b, n),
         NEW E, NEW m \in Nat, Within(E, m), NEW k \in Nat, HasAt(C, E, k, m), k + m <= n
  PROVE  HasAt(area, E, b + k, m)
<1>1. Moved(E, b + k) = Moved(Moved(E, k), b)
  BY MovedTwice
<1>2. Moved(E, b + k) \subseteq area
  BY <1>1 DEF HasAt, Moved
<1>3. ASSUME NEW c \in area, c.at \in b + k .. b + k + m - 1
      PROVE  c \in Moved(E, b + k)
  <2>1. c \in Moved(C, b)
    BY <1>3 DEF HasAt
  <2>2. PICK d \in C : c = Cell(d.at + b, d.bytes, d.value)
    BY <2>1 DEF Moved
  <2>3. d.at \in Nat /\ c.at = d.at + b
    BY <2>2, CellParts DEF Within, IsCell
  <2>4. d \in Moved(E, k)
    BY <1>3, <2>3 DEF HasAt
  <2>5. c \in Moved(Moved(E, k), b)
    BY <2>2, <2>4 DEF Moved
  <2> QED
    BY <1>1, <2>5
<1> QED
  BY <1>2, <1>3 DEF HasAt

LEMMA ReadHas ==
  ASSUME NEW area, NEW n \in Nat \ {0}, NEW v, NEW b \in Nat,
         HasAt(area, {Cell(0, n, v)}, b, n)
  PROVE  Read(area, b, n) = v
<1>1. Moved({Cell(0, n, v)}, b) = {Cell(b, n, v)}
  BY CellParts DEF Moved
<1>2. Cell(b, n, v) \in area
  BY <1>1 DEF HasAt
<1>3. ASSUME NEW c \in area, c.at = b  PROVE c.value = v
  <2>1. b \in b .. b + n - 1
    OBVIOUS
  <2>2. c = Cell(b, n, v)
    BY <1>1, <1>3, <2>1 DEF HasAt
  <2> QED
    BY <2>2, CellParts
<1>4. \A c \in area : c.at = b /\ c.bytes = n => c.value = v
  BY <1>3
<1> QED
  BY <1>2, <1>4, ReadIs DEF IsRead

(* What a type is: its cells fit into its size, and tell its values apart.  *)
IsLayout(T) ==
  /\ T.align \in {1, 2, 4, 8} /\ T.size \in Nat
  /\ \A v \in T.values : Within(T.cells[v], T.size)

Tells(T) == \A v, w \in T.values : T.cells[v] \subseteq T.cells[w] => v = w

LEMMA NumberLayout ==
  ASSUME NEW n \in {1, 2, 4, 8}
  PROVE  IsLayout(Number(n)) /\ Tells(Number(n))
<1>1. ASSUME NEW v \in Numbers(n)  PROVE Within({Cell(0, n, v)}, n)
  BY CellParts DEF Within, IsCell
<1> QED
  BY <1>1, CellEq DEF IsLayout, Number, Tells

LEMMA TextLayout == IsLayout(Text) /\ Tells(Text)
<1>1. ASSUME NEW t  PROVE Within({Cell(0, 4, t), Cell(4, 4, TextLen(t))}, 8)
  BY CellParts DEF Within, IsCell
<1> QED
  BY <1>1, CellEq DEF IsLayout, Text, Tells

LEMMA UnitLayout == IsLayout(Unit) /\ Tells(Unit)
BY DEF IsLayout, Unit, Tells, Within

LEMMA PairParts ==
  ASSUME NEW T, NEW U, IsLayout(T), IsLayout(U), NEW v \in Pair(T, U).values
  PROVE  /\ v = <<v[1], v[2]>> /\ v[1] \in T.values /\ v[2] \in U.values
         /\ Pair(T, U).cells[v] = T.cells[v[1]] \cup Moved(U.cells[v[2]], SecondAt(T, U))
BY DEF Pair

LEMMA PairLayout ==
  ASSUME NEW T, NEW U, IsLayout(T), IsLayout(U)
  PROVE  /\ IsLayout(Pair(T, U))
         /\ SecondAt(T, U) \in Nat /\ T.size <= SecondAt(T, U)
         /\ SecondAt(T, U) + U.size <= Pair(T, U).size
         /\ Pair(T, U).align = IF T.align <= U.align THEN U.align ELSE T.align
<1> DEFINE P == Pair(T, U)
           k == SecondAt(T, U)
<1>1. T.align \in {1, 2, 4, 8} /\ U.align \in {1, 2, 4, 8} /\ T.size \in Nat /\ U.size \in Nat
  BY DEF IsLayout
<1>2. k \in Nat /\ T.size <= k
  BY <1>1, RoundUpFits DEF SecondAt
<1>3. Largest({T.align, U.align}) = IF T.align <= U.align THEN U.align ELSE T.align
  BY <1>1, LargestIs
<1>4. P.align = Largest({T.align, U.align}) /\ P.size = RoundUp(k + U.size, P.align)
  BY DEF Pair
<1>5. P.align \in {1, 2, 4, 8}
  BY <1>1, <1>3, <1>4
<1>6. k + U.size \in Nat
  BY <1>1, <1>2
<1>7. P.size \in Nat /\ k + U.size <= P.size
  BY <1>4, <1>5, <1>6, RoundUpFits
<1>8. ASSUME NEW v \in P.values  PROVE Within(P.cells[v], P.size)
  <2>1. /\ v[1] \in T.values /\ v[2] \in U.values
        /\ P.cells[v] = T.cells[v[1]] \cup Moved(U.cells[v[2]], k)
    BY PairParts
  <2>2. Within(T.cells[v[1]], T.size) /\ Within(U.cells[v[2]], U.size)
    BY <2>1 DEF IsLayout
  <2>3. ASSUME NEW c \in T.cells[v[1]]  PROVE IsCell(c, P.size)
    BY <1>1, <1>2, <1>7, <2>2 DEF Within, IsCell
  <2>4. ASSUME NEW c \in Moved(U.cells[v[2]], k)  PROVE IsCell(c, P.size)
    <3>1. /\ c = Cell(c.at, c.bytes, c.value) /\ c.at \in Nat /\ c.bytes \in Nat \ {0}
          /\ c.at + c.bytes <= k + U.size
      BY <1>1, <1>2, <2>2, MovedIn
    <3> QED
      BY <1>1, <1>2, <1>7, <3>1 DEF IsCell
  <2> QED
    BY <2>1, <2>3, <2>4 DEF Within
<1> QED
  BY <1>2, <1>3, <1>4, <1>5, <1>7, <1>8 DEF IsLayout

(* The cells of a pair have those of its first, and of its second.          *)
LEMMA PairHas ==
  ASSUME NEW T, NEW U, IsLayout(T), IsLayout(U), NEW v \in Pair(T, U).values
  PROVE  /\ Holds(Pair(T, U).cells[v], T, v[1], 0)
         /\ Holds(Pair(T, U).cells[v], U, v[2], SecondAt(T, U))
<1> DEFINE k == SecondAt(T, U)
           A == T.cells[v[1]]
           B == U.cells[v[2]]
<1>1. T.size \in Nat /\ U.size \in Nat /\ k \in Nat /\ T.size <= k
  BY PairLayout DEF IsLayout
<1>2. Pair(T, U).cells[v] = A \cup Moved(B, k) /\ v[1] \in T.values /\ v[2] \in U.values
  BY PairParts
<1>3. Within(A, T.size) /\ Within(B, U.size)
  BY <1>2 DEF IsLayout
<1>4. Moved(A, 0) = A
  BY <1>3, MovedByNothing
<1>5. ASSUME NEW c \in Moved(B, k)  PROVE c.at \in Nat /\ k <= c.at
  BY <1>1, <1>3, MovedIn
<1>6. ASSUME NEW c \in A  PROVE c.at \in Nat /\ c.at < T.size
  BY <1>1, <1>3 DEF Within, IsCell
<1>7. HasAt(A \cup Moved(B, k), A, 0, T.size)
  BY <1>1, <1>4, <1>5 DEF HasAt
<1>8. HasAt(A \cup Moved(B, k), B, k, U.size)
  BY <1>1, <1>6 DEF HasAt
<1> QED
  BY <1>2, <1>7, <1>8 DEF Holds

LEMMA PairTells ==
  ASSUME NEW T, NEW U, IsLayout(T), IsLayout(U), Tells(T), Tells(U)
  PROVE  Tells(Pair(T, U))
<1> DEFINE P == Pair(T, U)
           k == SecondAt(T, U)
<1>1. SUFFICES ASSUME NEW v \in P.values, NEW w \in P.values, P.cells[v] \subseteq P.cells[w]
               PROVE  v = w
  BY DEF Tells
<1>2. /\ v = <<v[1], v[2]>> /\ v[1] \in T.values /\ v[2] \in U.values
      /\ w = <<w[1], w[2]>> /\ w[1] \in T.values /\ w[2] \in U.values
      /\ P.cells[v] = T.cells[v[1]] \cup Moved(U.cells[v[2]], k)
      /\ P.cells[w] = T.cells[w[1]] \cup Moved(U.cells[w[2]], k)
  BY PairParts
<1>3. k \in Nat /\ T.size \in Nat /\ T.size <= k /\ U.size \in Nat
  BY PairLayout DEF IsLayout
<1>4. Within(T.cells[v[1]], T.size) /\ Within(T.cells[w[1]], T.size)
  BY <1>2 DEF IsLayout
<1>5. Within(U.cells[v[2]], U.size) /\ Within(U.cells[w[2]], U.size)
  BY <1>2 DEF IsLayout
<1>6. T.cells[v[1]] \subseteq T.cells[w[1]]
  <2>1. ASSUME NEW c \in T.cells[v[1]]  PROVE c \notin Moved(U.cells[w[2]], k)
    <3>1. c.at \in Nat /\ c.at < T.size
      BY <1>3, <1>4 DEF Within, IsCell
    <3>2. c \in Moved(U.cells[w[2]], k) => k <= c.at
      BY <1>3, <1>5, MovedIn
    <3> QED
      BY <1>3, <3>1, <3>2
  <2> QED
    BY <1>1, <1>2, <2>1
<1>7. U.cells[v[2]] \subseteq U.cells[w[2]]
  <2>1. SUFFICES ASSUME NEW c \in U.cells[v[2]]  PROVE c \in U.cells[w[2]]
    OBVIOUS
  <2> DEFINE d == Cell(c.at + k, c.bytes, c.value)
  <2>2. c = Cell(c.at, c.bytes, c.value) /\ c.at \in Nat
    BY <1>5 DEF Within, IsCell
  <2>3. d \in P.cells[w]
    BY <1>1, <1>2 DEF Moved
  <2>4. d.at = c.at + k
    BY CellParts
  <2>5. d \notin T.cells[w[1]]
    BY <1>3, <1>4, <2>2, <2>4 DEF Within, IsCell
  <2>6. PICK e \in U.cells[w[2]] : d = Cell(e.at + k, e.bytes, e.value)
    BY <1>2, <2>3, <2>5 DEF Moved
  <2>7. e = Cell(e.at, e.bytes, e.value) /\ e.at \in Nat
    BY <1>5 DEF Within, IsCell
  <2>8. e.at + k = c.at + k /\ e.bytes = c.bytes /\ e.value = c.value
    BY <2>6, CellEq
  <2>9. e.at = c.at
    BY <1>3, <2>2, <2>7, <2>8
  <2> QED
    BY <2>2, <2>7, <2>8, <2>9
<1>8. v[1] = w[1] /\ v[2] = w[2]
  BY <1>2, <1>6, <1>7 DEF Tells
<1> QED
  BY <1>2, <1>8

(* What is loaded where a value is, is the value.                           *)
LEMMA LoadHolds ==
  ASSUME NEW T, IsLayout(T), Tells(T), NEW v \in T.values, NEW area, NEW b \in Nat,
         Holds(area, T, v, b)
  PROVE  Load(T, area, b) = v
<1>1. Store(T, v, b) \subseteq area
  BY DEF Holds, HasAt, Store
<1>2. T.size \in Nat /\ \A w \in T.values : Within(T.cells[w], T.size)
  BY DEF IsLayout
<1>3. ASSUME NEW w \in T.values, Store(T, w, b) \subseteq area  PROVE w = v
  <2>1. ASSUME NEW c \in T.cells[w]  PROVE c \in T.cells[v]
    <3> DEFINE d == Cell(c.at + b, c.bytes, c.value)
    <3>1. /\ c = Cell(c.at, c.bytes, c.value) /\ c.at \in Nat /\ c.bytes \in Nat \ {0}
          /\ c.at + c.bytes <= T.size
      BY <1>2 DEF Within, IsCell
    <3>2. d \in area
      BY <1>3 DEF Store, Moved
    <3>3. d.at \in b .. b + T.size - 1
      BY <1>2, <3>1, CellParts
    <3>4. PICK e \in T.cells[v] : d = Cell(e.at + b, e.bytes, e.value)
      BY <3>2, <3>3 DEF Holds, HasAt, Moved
    <3>5. e = Cell(e.at, e.bytes, e.value) /\ e.at \in Nat
      BY <1>2 DEF Within, IsCell
    <3>6. e.at + b = c.at + b /\ e.bytes = c.bytes /\ e.value = c.value
      BY <3>4, CellEq
    <3>7. e.at = c.at
      BY <3>1, <3>5, <3>6
    <3> QED
      BY <3>1, <3>5, <3>6, <3>7
  <2> QED
    BY <2>1 DEF Tells
<1> QED
  BY <1>1, <1>3 DEF Load

LEMMA HoldsNumber ==
  ASSUME NEW n \in {1, 2, 4, 8}, NEW v \in Numbers(n), NEW area, NEW b \in Nat,
         Holds(area, Number(n), v, b)
  PROVE  Read(area, b, n) = v
<1>1. Number(n).cells[v] = {Cell(0, n, v)} /\ Number(n).size = n
  BY DEF Number
<1> QED
  BY <1>1, ReadHas DEF Holds

LEMMA HoldsText ==
  ASSUME NEW t \in Texts, NEW area, NEW b \in Nat, Holds(area, Text, t, b)
  PROVE  read_string(area, b) = t
<1> DEFINE C == {Cell(0, 4, t), Cell(4, 4, TextLen(t))}
<1>1. Text.cells[t] = C /\ Text.size = 8
  BY DEF Text
<1>2. HasAt(area, C, b, 8)
  BY <1>1 DEF Holds
<1>3. Within(C, 8)
  BY CellParts DEF Within, IsCell
<1>4. ASSUME NEW x, NEW k \in {0, 4}, Cell(k, 4, x) \in C,
             \A c \in C : c.at = k => c = Cell(k, 4, x)
      PROVE  Read(area, b + k, 4) = x
  <2> DEFINE E == {Cell(0, 4, x)}
  <2>1. Within(E, 4)
    BY CellParts DEF Within, IsCell
  <2>2. Moved(E, k) = {Cell(k, 4, x)}
    BY CellParts DEF Moved
  <2>3. \A c \in C : c.at \in k .. k + 4 - 1 => c.at = k
    BY CellParts
  <2>4. HasAt(C, E, k, 4)
    BY <1>4, <2>2, <2>3 DEF HasAt
  <2>5. k \in Nat /\ k + 4 <= 8 /\ b + k \in Nat
    OBVIOUS
  <2> HIDE DEF C, E
  <2>6. HasAt(area, E, b + k, 4)
    BY <1>2, <1>3, <2>1, <2>4, <2>5, HasPart
  <2> QED
    BY <2>5, <2>6, ReadHas DEF E
<1>5. Read(area, b, 4) = t
  <2>1. \A c \in C : c.at = 0 => c = Cell(0, 4, t)
    BY CellParts
  <2>2. Read(area, b + 0, 4) = t
    BY <1>4, <2>1
  <2> QED
    BY <2>2
<1>6. Read(area, b + 4, 4) = TextLen(t)
  <2>1. \A c \in C : c.at = 4 => c = Cell(4, 4, TextLen(t))
    BY CellParts
  <2> QED
    BY <1>4, <2>1
<1> QED
  BY <1>5, <1>6 DEF read_string, string_lift

(* The cases of a variant, and the largest alignment and size of a payload. *)
IsCases(Cs) ==
  /\ \E n \in Nat : DOMAIN Cs = 1 .. n
  /\ \A i \in DOMAIN Cs : IsLayout(Cs[i][2])
  /\ \A i, j \in DOMAIN Cs : Cs[i][1] = Cs[j][1] => i = j

AreLargest(Cs, a, s) ==
  /\ \E i \in DOMAIN Cs : Cs[i][2].align = a
  /\ \E i \in DOMAIN Cs : Cs[i][2].size = s
  /\ \A i \in DOMAIN Cs : Cs[i][2].align <= a /\ Cs[i][2].size <= s

LEMMA CaseIs ==
  ASSUME NEW Cs, IsCases(Cs), NEW i \in DOMAIN Cs, NEW x
  PROVE  CaseIndex(Cs, <<Cs[i][1], x>>) = i
<1>1. <<Cs[i][1], x>>[1] = Cs[i][1]
  OBVIOUS
<1> QED
  BY <1>1 DEF CaseIndex, IsCases

LEMMA VariantSize ==
  ASSUME NEW Cs, IsCases(Cs), NEW a, NEW s, AreLargest(Cs, a, s)
  PROVE  /\ Variant(Cs).align = a /\ a \in {1, 2, 4, 8} /\ PayloadAt(Cs) = a
         /\ s \in Nat /\ Variant(Cs).size = RoundUp(a + s, a)
         /\ Variant(Cs).size \in Nat /\ a + s <= Variant(Cs).size
<1>1. \A i \in DOMAIN Cs : Cs[i][2].align \in {1, 2, 4, 8} /\ Cs[i][2].size \in Nat
  BY DEF IsCases, IsLayout
<1>2. a \in {1, 2, 4, 8} /\ s \in Nat
  BY <1>1 DEF AreLargest
<1>3. CaseAlign(Cs) = a
  <2> DEFINE S == {Cs[i][2].align : i \in DOMAIN Cs}
  <2>1. a \in S /\ a \in Int /\ \A n \in S : n \in Int /\ n <= a
    BY <1>1, <1>2 DEF AreLargest
  <2> HIDE DEF S
  <2>2. Largest(S) = a
    BY <2>1, LargestIs
  <2> QED
    BY <2>2 DEF CaseAlign, S
<1>4. Largest({Cs[i][2].size : i \in DOMAIN Cs}) = s
  <2> DEFINE S == {Cs[i][2].size : i \in DOMAIN Cs}
  <2>1. s \in S /\ s \in Int /\ \A n \in S : n \in Int /\ n <= s
    BY <1>1, <1>2 DEF AreLargest
  <2> HIDE DEF S
  <2>2. Largest(S) = s
    BY <2>1, LargestIs
  <2> QED
    BY <2>2 DEF S
<1>5. PayloadAt(Cs) = a
  BY <1>2, <1>3 DEF PayloadAt, RoundUp
<1>6. Variant(Cs).align = a /\ Variant(Cs).size = RoundUp(a + s, a)
  BY <1>3, <1>4, <1>5 DEF Variant
<1>7. a + s \in Nat
  BY <1>2
<1>8. RoundUp(a + s, a) \in Nat /\ a + s <= RoundUp(a + s, a)
  BY <1>2, <1>7, RoundUpFits
<1> QED
  BY <1>2, <1>5, <1>6, <1>8

LEMMA VariantParts ==
  ASSUME NEW Cs, IsCases(Cs), NEW a, NEW s, AreLargest(Cs, a, s),
         NEW i \in DOMAIN Cs, NEW x \in Cs[i][2].values
  PROVE  /\ <<Cs[i][1], x>> \in Variant(Cs).values
         /\ Variant(Cs).cells[<<Cs[i][1], x>>]
              = {Cell(0, 1, i - 1)} \cup Moved(Cs[i][2].cells[x], a)
<1> DEFINE v == <<Cs[i][1], x>>
<1>1. v \in CaseValues(Cs)
  BY DEF CaseValues
<1>2. v[2] = x /\ CaseIndex(Cs, v) = i /\ PayloadAt(Cs) = a
  BY CaseIs, VariantSize
<1> HIDE DEF v
<1>3. CaseCells(Cs, v) = {Cell(0, 1, i - 1)} \cup Moved(Cs[i][2].cells[x], a)
  BY <1>2 DEF CaseCells
<1>4. v \in Variant(Cs).values /\ Variant(Cs).cells[v] = CaseCells(Cs, v)
  BY <1>1 DEF Variant
<1> QED
  BY <1>3, <1>4 DEF v

LEMMA VariantValue ==
  ASSUME NEW Cs, NEW v \in Variant(Cs).values
  PROVE  \E i \in DOMAIN Cs : \E x \in Cs[i][2].values : v = <<Cs[i][1], x>>
BY DEF Variant, CaseValues

(* The cells of a variant have its discriminant, and then its payload.      *)
LEMMA VariantHas ==
  ASSUME NEW Cs, IsCases(Cs), NEW a, NEW s, AreLargest(Cs, a, s),
         NEW i \in DOMAIN Cs, NEW x \in Cs[i][2].values
  PROVE  /\ Within(Variant(Cs).cells[<<Cs[i][1], x>>], Variant(Cs).size)
         /\ HasAt(Variant(Cs).cells[<<Cs[i][1], x>>], {Cell(0, 1, i - 1)}, 0, 1)
         /\ Holds(Variant(Cs).cells[<<Cs[i][1], x>>], Cs[i][2], x, a)
         /\ a + Cs[i][2].size <= Variant(Cs).size
<1> DEFINE C == Variant(Cs).cells[<<Cs[i][1], x>>]
           D == {Cell(0, 1, i - 1)}
           P == Cs[i][2].cells[x]
           n == Cs[i][2].size
           z == Variant(Cs).size
<1>1. C = D \cup Moved(P, a)
  BY VariantParts
<1>2. a \in {1, 2, 4, 8} /\ s \in Nat /\ z \in Nat /\ a + s <= z
  BY VariantSize
<1>3. n \in Nat /\ n <= s /\ Within(P, n)
  BY DEF IsCases, IsLayout, AreLargest
<1>4. a + n <= z
  BY <1>2, <1>3
<1>5. ASSUME NEW c \in Moved(P, a)
      PROVE  /\ c = Cell(c.at, c.bytes, c.value) /\ c.at \in Nat /\ a <= c.at
             /\ c.bytes \in Nat \ {0} /\ c.at + c.bytes <= a + n
  BY <1>2, <1>3, MovedIn
<1>6. ASSUME NEW c \in D  PROVE c = Cell(c.at, c.bytes, c.value) /\ c.at = 0 /\ c.bytes = 1
  BY CellParts
<1>7. Moved(D, 0) = D
  BY CellParts DEF Moved
<1> HIDE DEF C, D, P, n, z
<1>8. Within(C, z)
  BY <1>1, <1>2, <1>3, <1>4, <1>5, <1>6 DEF Within, IsCell
<1>9. HasAt(C, D, 0, 1)
  BY <1>1, <1>2, <1>5, <1>7 DEF HasAt
<1>10. HasAt(C, P, a, n)
  BY <1>1, <1>2, <1>6 DEF HasAt
<1> QED
  BY <1>4, <1>8, <1>9, <1>10 DEF Holds, C, D, P, n, z

LEMMA VariantLayout ==
  ASSUME NEW Cs, IsCases(Cs), NEW a, NEW s, AreLargest(Cs, a, s)
  PROVE  IsLayout(Variant(Cs))
<1>1. Variant(Cs).align \in {1, 2, 4, 8} /\ Variant(Cs).size \in Nat
  BY VariantSize
<1>2. ASSUME NEW v \in Variant(Cs).values
      PROVE  Within(Variant(Cs).cells[v], Variant(Cs).size)
  <2>1. PICK i \in DOMAIN Cs : \E x \in Cs[i][2].values : v = <<Cs[i][1], x>>
    BY VariantValue
  <2>2. PICK x \in Cs[i][2].values : v = <<Cs[i][1], x>>
    BY <2>1
  <2> QED
    BY <2>2, VariantHas
<1> QED
  BY <1>1, <1>2 DEF IsLayout

(* Where a variant is, its discriminant and its payload are read.           *)
LEMMA HoldsVariant ==
  ASSUME NEW Cs, IsCases(Cs), NEW a, NEW s, AreLargest(Cs, a, s),
         NEW i \in DOMAIN Cs, NEW x \in Cs[i][2].values, NEW area, NEW b \in Nat,
         Holds(area, Variant(Cs), <<Cs[i][1], x>>, b)
  PROVE  Read(area, b, 1) = i - 1 /\ Holds(area, Cs[i][2], x, b + a)
<1> DEFINE C == Variant(Cs).cells[<<Cs[i][1], x>>]
           D == {Cell(0, 1, i - 1)}
           P == Cs[i][2].cells[x]
           n == Cs[i][2].size
           z == Variant(Cs).size
<1>1. Within(C, z) /\ HasAt(C, D, 0, 1) /\ HasAt(C, P, a, n) /\ a + n <= z
  BY VariantHas DEF Holds
<1>2. HasAt(area, C, b, z)
  BY DEF Holds
<1>3. a \in Nat /\ z \in Nat /\ 0 + 1 <= z
  BY VariantSize
<1>4. n \in Nat /\ Within(P, n)
  BY DEF IsCases, IsLayout
<1>5. Within(D, 1)
  BY CellParts DEF Within, IsCell
<1> HIDE DEF C, D, P, n, z
<1>6. HasAt(area, D, b + 0, 1)
  BY <1>1, <1>2, <1>3, <1>5, HasPart
<1>7. HasAt(area, P, b + a, n)
  BY <1>1, <1>2, <1>3, <1>4, HasPart
<1>8. b + 0 = b
  OBVIOUS
<1>9. Read(area, b, 1) = i - 1
  BY <1>6, <1>8, ReadHas DEF D
<1> QED
  BY <1>7, <1>9 DEF Holds, P, n

LEMMA HoldsPair ==
  ASSUME NEW T, NEW U, IsLayout(T), IsLayout(U), NEW v \in Pair(T, U).values,
         NEW area, NEW b \in Nat, Holds(area, Pair(T, U), v, b)
  PROVE  Holds(area, T, v[1], b) /\ Holds(area, U, v[2], b + SecondAt(T, U))
<1> DEFINE C == Pair(T, U).cells[v]
           A == T.cells[v[1]]
           B == U.cells[v[2]]
           k == SecondAt(T, U)
           z == Pair(T, U).size
           m == T.size
           n == U.size
<1>1. HasAt(C, A, 0, m) /\ HasAt(C, B, k, n)
  BY PairHas DEF Holds
<1>2. /\ z \in Nat /\ k \in Nat /\ m \in Nat /\ n \in Nat /\ m <= k /\ k + n <= z
      /\ Within(C, z)
  BY PairLayout DEF IsLayout
<1>3. Within(A, m) /\ Within(B, n)
  BY PairParts DEF IsLayout
<1>4. HasAt(area, C, b, z)
  BY DEF Holds
<1>5. 0 + m <= z /\ b + 0 = b
  BY <1>2
<1> HIDE DEF C, A, B, k, z, m, n
<1>6. HasAt(area, A, b + 0, m)
  BY <1>1, <1>2, <1>3, <1>4, <1>5, HasPart
<1>7. HasAt(area, B, b + k, n)
  BY <1>1, <1>2, <1>3, <1>4, HasPart
<1> QED
  BY <1>5, <1>6, <1>7 DEF Holds, A, B, k, m, n

(* Variants of two cases.                                                   *)
Two(a, T, b, U) == << <<a, T>>, <<b, U>> >>

LEMMA TwoCases ==
  ASSUME NEW T, NEW U, IsLayout(T), IsLayout(U), NEW a, NEW b, a # b
  PROVE  /\ IsCases(Two(a, T, b, U))
         /\ AreLargest(Two(a, T, b, U), IF T.align <= U.align THEN U.align ELSE T.align,
                       IF T.size <= U.size THEN U.size ELSE T.size)
<1> DEFINE Cs == Two(a, T, b, U)
<1>1. /\ DOMAIN Cs = 1 .. 2 /\ Cs[1][1] = a /\ Cs[1][2] = T /\ Cs[2][1] = b /\ Cs[2][2] = U
  BY DEF Two
<1> HIDE DEF Cs
<1>2. \A i \in DOMAIN Cs : i = 1 \/ i = 2
  BY <1>1
<1>3. 1 \in DOMAIN Cs /\ 2 \in DOMAIN Cs
  BY <1>1
<1>4. IsCases(Cs)
  BY <1>1, <1>2 DEF IsCases
<1>5. T.align \in Nat /\ U.align \in Nat /\ T.size \in Nat /\ U.size \in Nat
  BY DEF IsLayout
<1>6. AreLargest(Cs, IF T.align <= U.align THEN U.align ELSE T.align,
                     IF T.size <= U.size THEN U.size ELSE T.size)
  BY <1>1, <1>2, <1>3, <1>5 DEF AreLargest
<1> QED
  BY <1>4, <1>6 DEF Cs

LEMMA OptionCases ==
  ASSUME NEW T, IsLayout(T)
  PROVE  /\ OptionOf(T) = Variant(Two("None", Unit, "Some", T))
         /\ IsCases(Two("None", Unit, "Some", T))
         /\ AreLargest(Two("None", Unit, "Some", T), T.align, T.size)
<1>1. Unit.align = 1 /\ Unit.size = 0
  BY DEF Unit
<1>2. T.align \in Nat /\ 1 <= T.align /\ T.size \in Nat
  BY DEF IsLayout
<1>3. /\ (IF Unit.align <= T.align THEN T.align ELSE Unit.align) = T.align
      /\ (IF Unit.size <= T.size THEN T.size ELSE Unit.size) = T.size
  BY <1>1, <1>2
<1>4. "None" # "Some"
  OBVIOUS
<1> QED
  BY <1>3, <1>4, TwoCases, UnitLayout DEF OptionOf, Two

LEMMA OptionLayout ==
  ASSUME NEW T, IsLayout(T)
  PROVE  /\ IsLayout(OptionOf(T)) /\ OptionOf(T).align = T.align
         /\ OptionOf(T).size = RoundUp(T.align + T.size, T.align)
BY OptionCases, VariantLayout, VariantSize

LEMMA OptionValue ==
  ASSUME NEW T, NEW v \in OptionOf(T).values
  PROVE  v = None \/ \E x \in T.values : v = Some(x)
<1> DEFINE Cs == Two("None", Unit, "Some", T)
<1>1. OptionOf(T) = Variant(Cs)
  BY DEF OptionOf, Two
<1>2. /\ DOMAIN Cs = {1, 2} /\ Cs[1][1] = "None" /\ Cs[1][2] = Unit
      /\ Cs[2][1] = "Some" /\ Cs[2][2] = T
  BY DEF Two
<1>3. Unit.values = {<<>>}
  BY DEF Unit
<1> HIDE DEF Cs
<1>4. PICK i \in DOMAIN Cs : \E x \in Cs[i][2].values : v = <<Cs[i][1], x>>
  BY <1>1, VariantValue
<1> QED
  BY <1>2, <1>3, <1>4 DEF None, Some

LEMMA OptionRead ==
  ASSUME NEW T, IsLayout(T), NEW v \in OptionOf(T).values, NEW area, NEW b \in Nat,
         Holds(area, OptionOf(T), v, b),
         NEW r, \A x \in T.values : v = Some(x) /\ Holds(area, T, x, b + T.align) => r = x
  PROVE  read_option(Read(area, b, 1), r) = v
<1> DEFINE Cs == Two("None", Unit, "Some", T)
<1>1. OptionOf(T) = Variant(Cs) /\ IsCases(Cs) /\ AreLargest(Cs, T.align, T.size)
  BY OptionCases
<1>2. /\ DOMAIN Cs = {1, 2} /\ Cs[1][1] = "None" /\ Cs[1][2] = Unit
      /\ Cs[2][1] = "Some" /\ Cs[2][2] = T
  BY DEF Two
<1>3. Unit.values = {<<>>}
  BY DEF Unit
<1> HIDE DEF Cs
<1>4. CASE v = None
  <2>1. v = <<Cs[1][1], <<>>>> /\ 1 \in DOMAIN Cs /\ <<>> \in Cs[1][2].values
    BY <1>2, <1>3, <1>4 DEF None
  <2>2. Read(area, b, 1) = 1 - 1
    BY <1>1, <2>1, HoldsVariant
  <2> QED
    BY <1>4, <2>2 DEF read_option
<1>5. ASSUME NEW x \in T.values, v = Some(x)  PROVE read_option(Read(area, b, 1), r) = v
  <2>1. v = <<Cs[2][1], x>> /\ 2 \in DOMAIN Cs /\ x \in Cs[2][2].values
    BY <1>2, <1>5 DEF Some
  <2>2. Read(area, b, 1) = 2 - 1 /\ Holds(area, Cs[2][2], x, b + T.align)
    BY <1>1, <2>1, HoldsVariant
  <2>3. r = x
    BY <1>2, <1>5, <2>2
  <2> QED
    BY <1>5, <2>2, <2>3 DEF read_option
<1> QED
  BY <1>4, <1>5, OptionValue

LEMMA ResultCases ==
  ASSUME NEW T, IsLayout(T), NEW E, IsLayout(E)
  PROVE  /\ ResultOf(T, E) = Variant(Two("Ok", T, "Err", E))
         /\ IsCases(Two("Ok", T, "Err", E))
         /\ AreLargest(Two("Ok", T, "Err", E), IF T.align <= E.align THEN E.align ELSE T.align,
                       IF T.size <= E.size THEN E.size ELSE T.size)
<1>1. "Ok" # "Err"
  OBVIOUS
<1> QED
  BY <1>1, TwoCases DEF ResultOf, Two

ResultAlign(T, E) == IF T.align <= E.align THEN E.align ELSE T.align

LEMMA ResultLayout ==
  ASSUME NEW T, IsLayout(T), NEW E, IsLayout(E)
  PROVE  /\ IsLayout(ResultOf(T, E)) /\ ResultOf(T, E).align = ResultAlign(T, E)
         /\ ResultOf(T, E).size =
              RoundUp(ResultAlign(T, E) + IF T.size <= E.size THEN E.size ELSE T.size,
                      ResultAlign(T, E))
<1> DEFINE Cs == Two("Ok", T, "Err", E)
           a == ResultAlign(T, E)
           s == IF T.size <= E.size THEN E.size ELSE T.size
<1>1. ResultOf(T, E) = Variant(Cs) /\ IsCases(Cs) /\ AreLargest(Cs, a, s)
  BY ResultCases DEF ResultAlign
<1> HIDE DEF Cs, a, s
<1>2. /\ IsLayout(Variant(Cs)) /\ Variant(Cs).align = a
      /\ Variant(Cs).size = RoundUp(a + s, a)
  BY <1>1, VariantLayout, VariantSize
<1> QED
  BY <1>1, <1>2 DEF a, s

LEMMA ResultValue ==
  ASSUME NEW T, NEW E, NEW v \in ResultOf(T, E).values
  PROVE  (\E x \in T.values : v = Ok(x)) \/ (\E x \in E.values : v = Err(x))
<1> DEFINE Cs == Two("Ok", T, "Err", E)
<1>1. ResultOf(T, E) = Variant(Cs)
  BY DEF ResultOf, Two
<1>2. /\ DOMAIN Cs = {1, 2} /\ Cs[1][1] = "Ok" /\ Cs[1][2] = T
      /\ Cs[2][1] = "Err" /\ Cs[2][2] = E
  BY DEF Two
<1> HIDE DEF Cs
<1>4. PICK i \in DOMAIN Cs : \E x \in Cs[i][2].values : v = <<Cs[i][1], x>>
  BY <1>1, VariantValue
<1> QED
  BY <1>2, <1>4 DEF Ok, Err

LEMMA ResultRead ==
  ASSUME NEW T, IsLayout(T), NEW E, IsLayout(E), NEW v \in ResultOf(T, E).values,
         NEW area, NEW b \in Nat, Holds(area, ResultOf(T, E), v, b), NEW r, NEW e,
         \A x \in T.values : v = Ok(x) /\ Holds(area, T, x, b + ResultAlign(T, E)) => r = x,
         \A x \in E.values : v = Err(x) /\ Holds(area, E, x, b + ResultAlign(T, E)) => e = x
  PROVE  read_result(Read(area, b, 1), r, e) = v
<1> DEFINE Cs == Two("Ok", T, "Err", E)
           a == ResultAlign(T, E)
           s == IF T.size <= E.size THEN E.size ELSE T.size
<1>1. ResultOf(T, E) = Variant(Cs) /\ IsCases(Cs) /\ AreLargest(Cs, a, s)
  BY ResultCases DEF ResultAlign
<1>2. /\ DOMAIN Cs = {1, 2} /\ Cs[1][1] = "Ok" /\ Cs[1][2] = T
      /\ Cs[2][1] = "Err" /\ Cs[2][2] = E
  BY DEF Two
<1> HIDE DEF Cs, a, s
<1>4. ASSUME NEW x \in T.values, v = Ok(x)  PROVE read_result(Read(area, b, 1), r, e) = v
  <2>1. v = <<Cs[1][1], x>> /\ 1 \in DOMAIN Cs /\ x \in Cs[1][2].values
    BY <1>2, <1>4 DEF Ok
  <2>2. Read(area, b, 1) = 1 - 1 /\ Holds(area, Cs[1][2], x, b + a)
    BY <1>1, <2>1, HoldsVariant
  <2>3. r = x
    BY <1>2, <1>4, <2>2 DEF a
  <2> QED
    BY <1>4, <2>2, <2>3 DEF read_result
<1>5. ASSUME NEW x \in E.values, v = Err(x)  PROVE read_result(Read(area, b, 1), r, e) = v
  <2>1. v = <<Cs[2][1], x>> /\ 2 \in DOMAIN Cs /\ x \in Cs[2][2].values
    BY <1>2, <1>5 DEF Err
  <2>2. Read(area, b, 1) = 2 - 1 /\ Holds(area, Cs[2][2], x, b + a)
    BY <1>1, <2>1, HoldsVariant
  <2>3. e = x
    BY <1>2, <1>5, <2>2 DEF a
  <2> QED
    BY <1>5, <2>2, <2>3 DEF read_result
<1> QED
  BY <1>4, <1>5, ResultValue

LEMMA StoreHolds ==
  ASSUME NEW T, IsLayout(T), NEW v \in T.values, NEW b \in Nat
  PROVE  Holds(Store(T, v, b), T, v, b)
BY DEF Holds, HasAt, Store

(* The elements of a list are each where it is looked for.                  *)
LEMMA ListHolds ==
  ASSUME NEW T, IsLayout(T), T.size \in {8, 16}, NEW list \in Seq(T.values),
         NEW i \in 1 .. Len(list)
  PROVE  (i - 1) * T.size \in Nat /\ Holds(StoreList(T, list), T, list[i], (i - 1) * T.size)
<1> DEFINE z == T.size
           area == StoreList(T, list)
<1>1. \A j \in 1 .. Len(list) : (j - 1) * z \in Nat
  OBVIOUS
<1>2. DOMAIN list = 1 .. Len(list) /\ Len(list) \in Nat
  OBVIOUS
<1>3. Store(T, list[i], (i - 1) * z) \subseteq area
  BY <1>2 DEF StoreList
<1>4. ASSUME NEW c \in area, c.at \in (i - 1) * z .. (i - 1) * z + z - 1
      PROVE  c \in Store(T, list[i], (i - 1) * z)
  <2>1. PICK j \in 1 .. Len(list) : c \in Store(T, list[j], (j - 1) * z)
    BY <1>2 DEF StoreList
  <2>2. Within(T.cells[list[j]], z) /\ z \in Nat
    BY DEF IsLayout
  <2>3. /\ c.at \in Nat /\ (j - 1) * z <= c.at /\ c.bytes \in Nat \ {0}
        /\ c.at + c.bytes <= (j - 1) * z + z
    BY <1>1, <2>1, <2>2, MovedIn DEF Store
  <2>4. j = i
    <3>1. CASE z = 8
      BY <1>4, <2>3, <3>1
    <3>2. CASE z = 16
      BY <1>4, <2>3, <3>2
    <3> QED
      BY <3>1, <3>2
  <2> QED
    BY <2>1, <2>4
<1> QED
  BY <1>1, <1>3, <1>4 DEF Holds, HasAt, Store

LEMMA ListLoads ==
  ASSUME NEW T, IsLayout(T), Tells(T), T.size \in {8, 16}, NEW list \in Seq(T.values)
  PROVE  LoadList(T, StoreList(T, list), Len(list)) = list
<1>1. ASSUME NEW i \in 1 .. Len(list)
      PROVE  Load(T, StoreList(T, list), (i - 1) * T.size) = list[i]
  BY ListHolds, LoadHolds
<1>2. list = [i \in 1 .. Len(list) |-> list[i]]
  OBVIOUS
<1> QED
  BY <1>1, <1>2 DEF LoadList

-----------------------------------------------------------------------------
(* Lists of texts and of entries.                                           *)
LEMMA TextStored ==
  ASSUME NEW t \in Texts, NEW b \in Int
  PROVE  Moved(Text.cells[t], b) = {Cell(b + 4, 4, TextLen(t)), Cell(b, 4, t)}
<1>1. Text.cells[t] = {Cell(0, 4, t), Cell(4, 4, TextLen(t))}
  BY DEF Text
<1> QED
  BY <1>1, CellParts DEF Moved

LEMMA EntryFacts ==
  /\ IsLayout(Entry) /\ Tells(Entry) /\ Entry.size = 16 /\ SecondAt(Text, Text) = 8
  /\ Entry.values = Texts \X Texts
<1>1. Text.size = 8 /\ Text.align = 4 /\ Text.values = Texts
  BY DEF Text
<1>2. SecondAt(Text, Text) = 8
  BY <1>1 DEF SecondAt, RoundUp
<1>3. IsLayout(Entry) /\ Tells(Entry) /\ Entry.align = 4
  BY <1>1, TextLayout, PairLayout, PairTells DEF Entry, FieldName, FieldValue
<1>4. Entry.size = RoundUp(8 + 8, 4)
  BY <1>1, <1>2, <1>3 DEF Entry, Pair, FieldName, FieldValue
<1>5. Entry.size = 16
  BY <1>4 DEF RoundUp
<1> QED
  BY <1>1, <1>2, <1>3, <1>5 DEF Entry, Pair, FieldName, FieldValue

LEMMA EntryStored ==
  ASSUME NEW e \in Texts \X Texts, NEW b \in Int
  PROVE  Store(Entry, e, b) = {Cell(b + 4, 4, TextLen(e[1])), Cell(b, 4, e[1]),
                               Cell(b + 12, 4, TextLen(e[2])), Cell(b + 8, 4, e[2])}
<1>1. e[1] \in Texts /\ e[2] \in Texts
  OBVIOUS
<1>2. Entry.cells[e] = Text.cells[e[1]] \cup Moved(Text.cells[e[2]], 8)
  BY TextLayout, EntryFacts, PairParts DEF Entry, FieldName, FieldValue
<1>3. Moved(Text.cells[e[2]], 8) = {Cell(12, 4, TextLen(e[2])), Cell(8, 4, e[2])}
  <2>1. PICK k \in Int : k = 8
    OBVIOUS
  <2>2. Moved(Text.cells[e[2]], k) = {Cell(k + 4, 4, TextLen(e[2])), Cell(k, 4, e[2])}
    BY <1>1, TextStored
  <2>3. k + 4 = 12
    BY <2>1
  <2> QED
    BY <2>1, <2>2, <2>3
<1>4. Text.cells[e[1]] = {Cell(0, 4, e[1]), Cell(4, 4, TextLen(e[1]))}
  BY <1>1 DEF Text
<1>5. Store(Entry, e, b) = {Cell(0 + b, 4, e[1]), Cell(4 + b, 4, TextLen(e[1])),
                            Cell(12 + b, 4, TextLen(e[2])), Cell(8 + b, 4, e[2])}
  <2> DEFINE C == {Cell(0, 4, e[1]), Cell(4, 4, TextLen(e[1])),
                   Cell(12, 4, TextLen(e[2])), Cell(8, 4, e[2])}
  <2>1. Entry.cells[e] = C
    BY <1>2, <1>3, <1>4
  <2>2. Moved(C, b) = {Cell(0 + b, 4, e[1]), Cell(4 + b, 4, TextLen(e[1])),
                       Cell(12 + b, 4, TextLen(e[2])), Cell(8 + b, 4, e[2])}
    BY CellParts DEF Moved
  <2> QED
    BY <2>1, <2>2 DEF Store
<1>6. 0 + b = b /\ 4 + b = b + 4 /\ 12 + b = b + 12 /\ 8 + b = b + 8
  OBVIOUS
<1> QED
  BY <1>5, <1>6

LEMMA ValuesWritten ==
  ASSUME NEW list \in Seq(Texts)
  PROVE  write_values(list) = StoreList(FieldValue, list)
<1>1. ASSUME NEW i \in DOMAIN list
      PROVE  {Cell((i - 1) * 8 + 4, 4, TextLen(list[i])), Cell((i - 1) * 8, 4, list[i])}
               = Store(Text, list[i], (i - 1) * Text.size)
  <2>1. list[i] \in Texts /\ (i - 1) * 8 \in Int /\ Text.size = 8
    BY DEF Text
  <2> QED
    BY <2>1, TextStored DEF Store
<1> QED
  BY <1>1 DEF write_values, StoreList, FieldValue

LEMMA EntriesWritten ==
  ASSUME NEW list \in Seq(Texts \X Texts)
  PROVE  write_entries(list) = StoreList(Entry, list)
<1>1. ASSUME NEW i \in DOMAIN list
      PROVE  {Cell((i - 1) * 16 + 4, 4, TextLen(list[i][1])), Cell((i - 1) * 16, 4, list[i][1]),
              Cell((i - 1) * 16 + 12, 4, TextLen(list[i][2])),
              Cell((i - 1) * 16 + 8, 4, list[i][2])}
               = Store(Entry, list[i], (i - 1) * Entry.size)
  <2>1. list[i] \in Texts \X Texts /\ (i - 1) * 16 \in Int /\ Entry.size = 16
    BY EntryFacts
  <2> QED
    BY <2>1, EntryStored
<1> QED
  BY <1>1 DEF write_entries, StoreList

(* What the code for lists of values is for: the host has the list the      *)
(* program passed, and the program the one the host returned.               *)
THEOREM ValuesArrive ==
  \A list \in Seq(Texts) :
    /\ LoadList(FieldValue, write_values(list), Len(list)) = list
    /\ read_values(StoreList(FieldValue, list), Len(list)) = list
<1>1. SUFFICES ASSUME NEW list \in Seq(Texts)
               PROVE  /\ LoadList(FieldValue, write_values(list), Len(list)) = list
                      /\ read_values(StoreList(FieldValue, list), Len(list)) = list
  OBVIOUS
<1>2. /\ IsLayout(FieldValue) /\ Tells(FieldValue) /\ FieldValue.size = 8
      /\ list \in Seq(FieldValue.values)
  BY TextLayout DEF FieldValue, Text
<1>3. LoadList(FieldValue, write_values(list), Len(list)) = list
  BY <1>2, ValuesWritten, ListLoads
<1>4. ASSUME NEW i \in 1 .. Len(list)
      PROVE  read_string(StoreList(FieldValue, list), (i - 1) * 8) = list[i]
  BY <1>2, ListHolds, HoldsText DEF FieldValue
<1>5. list = [i \in 1 .. Len(list) |-> list[i]]
  OBVIOUS
<1> QED
  BY <1>3, <1>4, <1>5 DEF read_values

(* The same for entries.                                                    *)
THEOREM EntriesArrive ==
  \A list \in Seq(Texts \X Texts) :
    /\ LoadList(Entry, write_entries(list), Len(list)) = list
    /\ read_entries(StoreList(Entry, list), Len(list)) = list
<1>1. SUFFICES ASSUME NEW list \in Seq(Texts \X Texts)
               PROVE  /\ LoadList(Entry, write_entries(list), Len(list)) = list
                      /\ read_entries(StoreList(Entry, list), Len(list)) = list
  OBVIOUS
<1>2. LoadList(Entry, write_entries(list), Len(list)) = list
  BY EntryFacts, EntriesWritten, ListLoads
<1>3. ASSUME NEW i \in 1 .. Len(list)
      PROVE  <<read_string(StoreList(Entry, list), (i - 1) * 16),
               read_string(StoreList(Entry, list), (i - 1) * 16 + 8)>> = list[i]
  <2> DEFINE area == StoreList(Entry, list)
             b == (i - 1) * 16
  <2>1. b \in Nat /\ Holds(area, Entry, list[i], b)
    BY EntryFacts, ListHolds
  <2>2. list[i] \in Entry.values /\ list[i][1] \in Texts /\ list[i][2] \in Texts
        /\ list[i] = <<list[i][1], list[i][2]>>
    BY EntryFacts
  <2> HIDE DEF area, b
  <2>3. Holds(area, Text, list[i][1], b) /\ Holds(area, Text, list[i][2], b + 8)
    BY <2>1, <2>2, TextLayout, EntryFacts, HoldsPair DEF Entry, FieldName, FieldValue
  <2>4. read_string(area, b) = list[i][1] /\ read_string(area, b + 8) = list[i][2]
    BY <2>1, <2>2, <2>3, HoldsText
  <2> QED
    BY <2>2, <2>4 DEF area, b
<1>4. list = [i \in 1 .. Len(list) |-> list[i]]
  OBVIOUS
<1> QED
  BY <1>2, <1>3, <1>4 DEF read_entries

-----------------------------------------------------------------------------
(* Outcomes of calls.                                                       *)
Refusals == {"InvalidSyntax", "Forbidden", "Immutable"}

HeaderErrorCases ==
  << <<"InvalidSyntax", Unit>>, <<"Forbidden", Unit>>, <<"Immutable", Unit>> >>

LEMMA HeaderErrorFacts ==
  /\ HeaderError = Variant(HeaderErrorCases)
  /\ IsCases(HeaderErrorCases) /\ AreLargest(HeaderErrorCases, 1, 0)
  /\ IsLayout(HeaderError) /\ HeaderError.align = 1 /\ HeaderError.size = 1
<1> DEFINE Cs == HeaderErrorCases
<1>1. HeaderError = Variant(Cs)
  BY DEF HeaderError, HeaderErrorCases
<1>2. /\ DOMAIN Cs = 1 .. 3
      /\ Cs[1] = <<"InvalidSyntax", Unit>> /\ Cs[2] = <<"Forbidden", Unit>>
      /\ Cs[3] = <<"Immutable", Unit>>
  BY DEF HeaderErrorCases
<1>3. Unit.align = 1 /\ Unit.size = 0
  BY DEF Unit
<1> HIDE DEF Cs
<1>4. \A i \in DOMAIN Cs : i \in {1, 2, 3} /\ Cs[i][2] = Unit
  BY <1>2
<1>5. IsCases(Cs)
  BY <1>2, <1>4, UnitLayout DEF IsCases
<1>6. 1 \in DOMAIN Cs /\ Cs[1][2] = Unit
  BY <1>2, <1>4
<1>7. AreLargest(Cs, 1, 0)
  BY <1>3, <1>4, <1>6 DEF AreLargest
<1>8. IsLayout(Variant(Cs)) /\ Variant(Cs).align = 1 /\ Variant(Cs).size = RoundUp(1 + 0, 1)
  BY <1>5, <1>7, VariantLayout, VariantSize
<1>9. RoundUp(1 + 0, 1) = 1
  BY DEF RoundUp
<1> QED
  BY <1>1, <1>5, <1>7, <1>8, <1>9 DEF Cs

LEMMA HeaderErrorRead ==
  ASSUME NEW r \in Refusals, NEW area, NEW b \in Nat,
         Holds(area, HeaderError, <<r, <<>>>>, b)
  PROVE  read_header_error(area, b) = <<r, <<>>>>
<1> DEFINE Cs == HeaderErrorCases
<1>1. /\ DOMAIN Cs = 1 .. 3
      /\ Cs[1] = <<"InvalidSyntax", Unit>> /\ Cs[2] = <<"Forbidden", Unit>>
      /\ Cs[3] = <<"Immutable", Unit>> /\ Unit.values = {<<>>}
  <2>1. Unit.values = {<<>>}
    BY DEF Unit
  <2> QED
    BY <2>1 DEF HeaderErrorCases
<1>2. HeaderError = Variant(Cs) /\ IsCases(Cs) /\ AreLargest(Cs, 1, 0)
  BY HeaderErrorFacts
<1> HIDE DEF Cs
<1>3. ASSUME NEW i \in DOMAIN Cs, r = Cs[i][1]  PROVE Read(area, b, 1) = i - 1
  <2>1. <<>> \in Cs[i][2].values
    BY <1>1
  <2> QED
    BY <1>2, <1>3, <2>1, HoldsVariant
<1>4. CASE r = "InvalidSyntax"
  <2>1. Read(area, b, 1) = 1 - 1
    BY <1>1, <1>3, <1>4
  <2> QED
    BY <1>4, <2>1 DEF read_header_error
<1>5. CASE r = "Forbidden"
  <2>1. Read(area, b, 1) = 2 - 1
    BY <1>1, <1>3, <1>5
  <2> QED
    BY <1>5, <2>1 DEF read_header_error
<1>6. CASE r = "Immutable"
  <2>1. Read(area, b, 1) = 3 - 1
    BY <1>1, <1>3, <1>6
  <2> QED
    BY <1>6, <2>1 DEF read_header_error
<1> QED
  BY <1>4, <1>5, <1>6 DEF Refusals

LEMMA HeaderErrorValues ==
  /\ \A r \in Refusals : <<r, <<>>>> \in HeaderError.values
  /\ \A e \in HeaderError.values : \E r \in Refusals : e = <<r, <<>>>>
<1> DEFINE Cs == HeaderErrorCases
<1>1. /\ DOMAIN Cs = 1 .. 3
      /\ Cs[1] = <<"InvalidSyntax", Unit>> /\ Cs[2] = <<"Forbidden", Unit>>
      /\ Cs[3] = <<"Immutable", Unit>> /\ Unit.values = {<<>>}
  <2>1. Unit.values = {<<>>}
    BY DEF Unit
  <2> QED
    BY <2>1 DEF HeaderErrorCases
<1>2. HeaderError = Variant(Cs) /\ IsCases(Cs) /\ AreLargest(Cs, 1, 0)
  BY HeaderErrorFacts
<1> HIDE DEF Cs
<1>3. ASSUME NEW i \in DOMAIN Cs  PROVE <<Cs[i][1], <<>>>> \in Variant(Cs).values
  <2>1. <<>> \in Cs[i][2].values
    BY <1>1
  <2> QED
    BY <1>2, <2>1, VariantParts
<1>4. \A r \in Refusals : \E i \in DOMAIN Cs : r = Cs[i][1]
  <2>1. 1 \in DOMAIN Cs /\ 2 \in DOMAIN Cs /\ 3 \in DOMAIN Cs
    BY <1>1
  <2>2. "InvalidSyntax" = Cs[1][1] /\ "Forbidden" = Cs[2][1] /\ "Immutable" = Cs[3][1]
    BY <1>1
  <2> QED
    BY <2>1, <2>2 DEF Refusals
<1>5. \A i \in DOMAIN Cs : Cs[i][1] \in Refusals /\ Cs[i][2].values = {<<>>}
  BY <1>1 DEF Refusals
<1> QED
  BY <1>2, <1>3, <1>4, <1>5, VariantValue

(* A wrapper returns the outcome the host meant.                            *)
Outcome(refusal, ok) == IF refusal = "none" THEN Ok(ok) ELSE Err(<<refusal, <<>>>>)

LEMMA OutcomeRead ==
  ASSUME NEW refusal \in Refusals \cup {"none"}
  PROVE  read_outcome(Store(ResultOf(Unit, HeaderError), Outcome(refusal, <<>>), 0))
           = Outcome(refusal, <<>>)
<1> DEFINE T == ResultOf(Unit, HeaderError)
           v == Outcome(refusal, <<>>)
           area == Store(T, v, 0)
<1>1. /\ IsLayout(Unit) /\ Unit.align = 1 /\ Unit.values = {<<>>}
      /\ IsLayout(HeaderError) /\ HeaderError.align = 1
  BY UnitLayout, HeaderErrorFacts DEF Unit
<1>2. ResultAlign(Unit, HeaderError) = 1
  BY <1>1 DEF ResultAlign
<1>3. IsLayout(T)
  BY <1>1, ResultLayout
<1>4. v \in T.values
  <2> DEFINE Cs == Two("Ok", Unit, "Err", HeaderError)
  <2>1. /\ T = Variant(Cs) /\ IsCases(Cs)
        /\ AreLargest(Cs, ResultAlign(Unit, HeaderError),
                      IF Unit.size <= HeaderError.size THEN HeaderError.size ELSE Unit.size)
    BY <1>1, ResultCases DEF ResultAlign
  <2>2. /\ 1 \in DOMAIN Cs /\ 2 \in DOMAIN Cs /\ Cs[1][1] = "Ok" /\ Cs[1][2] = Unit
        /\ Cs[2][1] = "Err" /\ Cs[2][2] = HeaderError
    BY DEF Two
  <2> HIDE DEF Cs, T
  <2>3. CASE refusal = "none"
    BY <1>1, <2>1, <2>2, <2>3, VariantParts DEF Outcome, Ok
  <2>4. CASE refusal \in Refusals
    <3>1. <<refusal, <<>>>> \in Cs[2][2].values
      BY <2>2, <2>4, HeaderErrorValues
    <3>2. v = <<Cs[2][1], <<refusal, <<>>>>>>
      BY <2>2, <2>4 DEF Outcome, Err, Refusals
    <3> QED
      BY <2>1, <2>2, <3>1, <3>2, VariantParts
  <2> QED
    BY <2>3, <2>4
<1>5. Holds(area, T, v, 0)
  BY <1>3, <1>4, StoreHolds
<1> HIDE DEF area, v
<1>6. \A x \in Unit.values : v = Ok(x) /\ Holds(area, Unit, x, 0 + ResultAlign(Unit, HeaderError))
        => <<>> = x
  BY <1>1
<1>7. \A x \in HeaderError.values :
        v = Err(x) /\ Holds(area, HeaderError, x, 0 + ResultAlign(Unit, HeaderError))
          => read_header_error(area, 1) = x
  BY <1>2, HeaderErrorRead, HeaderErrorValues
<1>8. read_result(Read(area, 0, 1), <<>>, read_header_error(area, 1)) = v
  BY <1>1, <1>4, <1>5, <1>6, <1>7, ResultRead
<1> QED
  BY <1>8 DEF read_outcome, area, v

LEMMA ResultHas ==
  ASSUME NEW T, IsLayout(T), NEW E, IsLayout(E)
  PROVE  /\ \A x \in T.values : Ok(x) \in ResultOf(T, E).values
         /\ \A x \in E.values : Err(x) \in ResultOf(T, E).values
<1> DEFINE Cs == Two("Ok", T, "Err", E)
<1>1. /\ ResultOf(T, E) = Variant(Cs) /\ IsCases(Cs)
      /\ AreLargest(Cs, IF T.align <= E.align THEN E.align ELSE T.align,
                    IF T.size <= E.size THEN E.size ELSE T.size)
  BY ResultCases
<1>2. /\ 1 \in DOMAIN Cs /\ 2 \in DOMAIN Cs /\ Cs[1][1] = "Ok" /\ Cs[1][2] = T
      /\ Cs[2][1] = "Err" /\ Cs[2][2] = E
  BY DEF Two
<1> HIDE DEF Cs
<1> QED
  BY <1>1, <1>2, VariantParts DEF Ok, Err

LEMMA FromListRead ==
  ASSUME NEW refusal \in Refusals \cup {"none"}, NEW area,
         area = Store(ResultOf(Number(4), HeaderError), Outcome(refusal, NewHandle), 0)
  PROVE  read_result(Read(area, 0, 1), Read(area, 4, 4), read_header_error(area, 4))
           = Outcome(refusal, NewHandle)
<1> DEFINE N == Number(4)
           T == ResultOf(N, HeaderError)
           v == Outcome(refusal, NewHandle)
<1>1. IsLayout(HeaderError) /\ HeaderError.align = 1
  BY HeaderErrorFacts
<1>2. IsLayout(N) /\ N.align = 4 /\ N.values = Numbers(4) /\ NewHandle \in Numbers(4)
  BY NumberLayout, FieldsAssumption DEF Number
<1>3. ResultAlign(N, HeaderError) = 4
  BY <1>1, <1>2 DEF ResultAlign
<1>4. IsLayout(T)
  BY <1>1, <1>2, ResultLayout
<1>5. v \in T.values
  <2>1. refusal \in Refusals => <<refusal, <<>>>> \in HeaderError.values
    BY HeaderErrorValues
  <2>2. "none" \notin Refusals
    BY DEF Refusals
  <2> HIDE DEF T, N
  <2>3. /\ \A x \in N.values : Ok(x) \in ResultOf(N, HeaderError).values
        /\ \A x \in HeaderError.values : Err(x) \in ResultOf(N, HeaderError).values
    BY <1>1, <1>2, ResultHas
  <2> QED
    BY <1>2, <2>1, <2>2, <2>3 DEF Outcome, T
<1>6. Holds(area, T, v, 0)
  BY <1>4, <1>5, StoreHolds
<1> HIDE DEF v, N
<1>7. \A x \in N.values : v = Ok(x) /\ Holds(area, N, x, 0 + ResultAlign(N, HeaderError))
        => Read(area, 4, 4) = x
  BY <1>2, <1>3, HoldsNumber DEF N
<1>8. \A x \in HeaderError.values :
        v = Err(x) /\ Holds(area, HeaderError, x, 0 + ResultAlign(N, HeaderError))
          => read_header_error(area, 4) = x
  BY <1>3, HeaderErrorRead, HeaderErrorValues
<1> QED
  BY <1>1, <1>2, <1>5, <1>6, <1>7, <1>8, ResultRead DEF v

-----------------------------------------------------------------------------
(* Fields. The entries the host holds are those the program's calls made,   *)
(* and are texts.                                                           *)
EntryLists == Seq(Texts \X Texts)

FieldsInv ==
  /\ fields \in [Resources -> [list : EntryLists, mutable : BOOLEAN]]
  /\ told \in [Resources -> EntryLists]
  /\ heap \in Int /\ held \in Int
  /\ EntriesAgree /\ ResultsAgree /\ MemoryBalances

LEMMA KeptAreEntries ==
  ASSUME NEW list \in EntryLists, NEW keep
  PROVE  Kept(list, keep) \in EntryLists
<1> DEFINE E == Texts \X Texts
           s == [i \in DOMAIN list |-> IF keep[i] THEN <<list[i]>> ELSE <<>>]
<1>1. DOMAIN list = 1 .. Len(list) /\ Len(list) \in Nat /\ \A i \in 1 .. Len(list) : list[i] \in E
  BY DEF EntryLists
<1>2. ASSUME NEW i \in 1 .. Len(list)  PROVE s[i] \in Seq(E)
  <2>1. <<list[i]>> \in Seq(E) /\ <<>> \in Seq(E)
    BY <1>1
  <2> QED
    BY <1>1, <2>1
<1>3. s \in Seq(Seq(E)) /\ Len(s) = Len(list)
  <2> DEFINE Q == Seq(E)
  <2>1. s \in [1 .. Len(list) -> Q]
    BY <1>1, <1>2
  <2> HIDE DEF Q, s
  <2>2. s \in Seq(Q) /\ Len(s) = Len(list)
    BY <1>1, <2>1
  <2> QED
    BY <2>2 DEF Q
<1>4. Kept(list, keep) = FlattenSeq(s)
  BY DEF Kept
<1> HIDE DEF s
<1>5. CASE Len(s) = 0
  <2>1. FlattenSeq(s) = s
    BY <1>5, Zenon DEF FlattenSeq
  <2>2. s = <<>>
    BY <1>3, <1>5
  <2> QED
    BY <1>4, <2>1, <2>2 DEF EntryLists
<1>6. CASE Len(s) # 0
  <2>1. FlattenSeq(s) \in Seq(E)
    BY <1>3, <1>6, FlattenIsLaidOut
  <2> QED
    BY <1>4, <2>1 DEF EntryLists
<1> QED
  BY <1>5, <1>6

LEMMA ListsAreSequences ==
  ASSUME NEW S, NEW list \in ListsOf(S)
  PROVE  list \in Seq(S)
<1>1. PICK n \in 0 .. MaxLength : list \in [1 .. n -> S]
  BY DEF ListsOf
<1>2. n \in Nat
  BY FieldsAssumption
<1> QED
  BY <1>1, <1>2

LEMMA BlocksAreCounted ==
  ASSUME NEW list \in Seq(Texts)
  PROVE  TextBlocks(list) \in Nat
<1>1. IsFiniteSet(1 .. Len(list))
  BY FS_Interval
<1>2. {i \in DOMAIN list : TextLen(list[i]) # 0} \subseteq 1 .. Len(list)
  OBVIOUS
<1>3. IsFiniteSet({i \in DOMAIN list : TextLen(list[i]) # 0})
  BY <1>1, <1>2, FS_Subset
<1> QED
  BY <1>3, FS_CardinalityType DEF TextBlocks

LEMMA FieldsInitInv == FieldsInit => FieldsInv
<1> SUFFICES ASSUME FieldsInit  PROVE FieldsInv
  OBVIOUS
<1>1. PICK list \in IncomingLists :
        /\ fields = [incoming |-> [list |-> list, mutable |-> FALSE],
                     own |-> [list |-> <<>>, mutable |-> TRUE]]
        /\ told = [incoming |-> list, own |-> <<>>]
  BY DEF FieldsInit
<1>2. list \in EntryLists /\ <<>> \in EntryLists
  BY FieldsAssumption DEF EntryLists
<1>3. /\ fields \in [Resources -> [list : EntryLists, mutable : BOOLEAN]]
      /\ told \in [Resources -> EntryLists] /\ EntriesAgree
  <2> DEFINE f == [list |-> list, mutable |-> FALSE]
             g == [list |-> <<>>, mutable |-> TRUE]
  <2>1. f \in [list : EntryLists, mutable : BOOLEAN] /\ g \in [list : EntryLists, mutable : BOOLEAN]
    BY <1>2
  <2>2. f.list = list /\ g.list = <<>>
    OBVIOUS
  <2>3. fields = [incoming |-> f, own |-> g]
    BY <1>1
  <2> HIDE DEF f, g
  <2>4. /\ DOMAIN fields = Resources /\ fields["incoming"] = f /\ fields["own"] = g
        /\ fields = [r \in Resources |-> fields[r]]
    BY <2>3 DEF Resources
  <2>5. /\ DOMAIN told = Resources /\ told["incoming"] = list /\ told["own"] = <<>>
        /\ told = [r \in Resources |-> told[r]]
    BY <1>1 DEF Resources
  <2>6. \A r \in Resources : r = "incoming" \/ r = "own"
    BY DEF Resources
  <2>7. fields \in [Resources -> [list : EntryLists, mutable : BOOLEAN]]
    BY <2>1, <2>4, <2>6
  <2>8. told \in [Resources -> EntryLists]
    BY <1>2, <2>5, <2>6
  <2>9. EntriesAgree
    BY <2>2, <2>4, <2>5, <2>6 DEF EntriesAgree
  <2> QED
    BY <2>7, <2>8, <2>9
<1>4. heap = 0 /\ held = 0 /\ got = Nothing
  BY DEF FieldsInit
<1> QED
  BY <1>3, <1>4 DEF FieldsInv, ResultsAgree, MemoryBalances, Nothing

(* A call that changes what a resource holds.                               *)
LEMMA ChangeKeeps ==
  ASSUME FieldsInv, NEW r \in Resources, NEW refusal \in Refusals \cup {"none"},
         NEW received \in EntryLists, NEW layout \in Int,
         Change(r, refusal, received, received, layout)
  PROVE  FieldsInv'
<1>1. /\ fields' \in [Resources -> [list : EntryLists, mutable : BOOLEAN]]
      /\ told' \in [Resources -> EntryLists]
      /\ EntriesAgree'
  BY DEF Change, FieldsInv, EntriesAgree
<1>2. got' = [value |-> read_outcome(Store(ResultOf(Unit, HeaderError), Outcome(refusal, <<>>), 0)),
              meant |-> Outcome(refusal, <<>>)]
  BY DEF Change, Outcome
<1>3. ResultsAgree'
  BY <1>2, OutcomeRead DEF ResultsAgree
<1>4. heap' = heap /\ held' = held
  BY DEF Change, FieldsInv, AllocArgument, FreeArgument
<1> QED
  BY <1>1, <1>3, <1>4 DEF FieldsInv, MemoryBalances

(* A call that returns a list.                                              *)
LEMMA ReturnKeeps ==
  ASSUME FieldsInv, NEW list, Len(list) \in Nat, NEW texts \in Seq(Texts), NEW stride \in Nat,
         Return(list, list, texts, stride)
  PROVE  FieldsInv'
<1>1. fields' = fields /\ told' = told /\ ResultsAgree'
  BY DEF Return, ResultsAgree
<1>2. TextBlocks(texts) \in Nat
  BY BlocksAreCounted
<1>3. heap' = heap + TextBlocks(texts) /\ held' = held + TextBlocks(texts)
  <2> DEFINE n == Len(list) * stride
  <2>1. Blocks(n) = cabi_dealloc(n) /\ Blocks(n) \in Int
    BY DEF Blocks, cabi_dealloc
  <2>2. heap' = heap + Blocks(n) + TextBlocks(texts) - cabi_dealloc(n)
    BY DEF Return
  <2> QED
    BY <1>2, <2>1, <2>2 DEF Return, FieldsInv
<1> QED
  BY <1>1, <1>2, <1>3 DEF FieldsInv, EntriesAgree, MemoryBalances

LEMMA RefusalIs ==
  ASSUME NEW r \in Resources, NEW name, NEW values
  PROVE  Refusal(r, name, values) \in Refusals \cup {"none"}
BY DEF Refusal, Refusals

LEMMA FieldsNextInv == FieldsInv /\ [FieldsNext]_fieldsVars => FieldsInv'
<1> SUFFICES ASSUME FieldsInv, [FieldsNext]_fieldsVars  PROVE FieldsInv'
  OBVIOUS
<1>0. \A r \in Resources : /\ fields[r].list \in EntryLists /\ told[r] = fields[r].list
                          /\ Len(fields[r].list) \in Nat
  BY DEF FieldsInv, EntriesAgree, EntryLists
<1>1. CASE Fields_new
  <2>1. <<>> \in EntryLists
    BY DEF EntryLists
  <2> QED
    BY <1>1, <2>1 DEF Fields_new, FieldsInv, EntriesAgree, ResultsAgree, MemoryBalances, Nothing
<1>2. CASE Fields_from_list
  <2>1. PICK list \in ListsOf(FieldNames \X FieldValues) :
          LET texts == UNION {{list[i][1], list[i][2]} : i \in DOMAIN list}
              refusal == IF texts \cap Invalid # {} THEN "InvalidSyntax"
                         ELSE IF texts \cap Forbidden # {} THEN "Forbidden" ELSE "none"
              result == IF refusal = "none" THEN Ok(NewHandle) ELSE Err(<<refusal, <<>>>>)
              area == Store(ResultOf(Number(4), HeaderError), result, 0)
          IN  /\ IF refusal = "none"
                   THEN /\ fields' = [fields EXCEPT !["own"] =
                                        [list |-> LoadList(Entry, write_entries(list), Len(list)),
                                         mutable |-> TRUE]]
                        /\ told' = [told EXCEPT !["own"] = list]
                   ELSE UNCHANGED <<fields, told>>
              /\ got' = [value |-> read_result(Read(area, 0, 1), Read(area, 4, 4),
                                               read_header_error(area, 4)),
                         meant |-> result]
              /\ heap' = heap + AllocArgument(Layout(Len(list), 16))
                              - FreeArgument(Layout(Len(list), 16), result)
              /\ UNCHANGED held
    BY <1>2 DEF Fields_from_list
  <2>2. PICK refusal \in Refusals \cup {"none"} :
          LET area == Store(ResultOf(Number(4), HeaderError), Outcome(refusal, NewHandle), 0)
          IN  /\ IF refusal = "none"
                   THEN /\ fields' = [fields EXCEPT !["own"] =
                                        [list |-> LoadList(Entry, write_entries(list), Len(list)),
                                         mutable |-> TRUE]]
                        /\ told' = [told EXCEPT !["own"] = list]
                   ELSE UNCHANGED <<fields, told>>
              /\ got' = [value |-> read_result(Read(area, 0, 1), Read(area, 4, 4),
                                               read_header_error(area, 4)),
                         meant |-> Outcome(refusal, NewHandle)]
    BY <2>1 DEF Refusals, Outcome
  <2>3. list \in EntryLists
    <3>1. list \in Seq(FieldNames \X FieldValues)
      BY <2>1, ListsAreSequences
    <3>2. FieldNames \X FieldValues \subseteq Texts \X Texts
      BY FieldsAssumption
    <3> QED
      BY <3>1, <3>2 DEF EntryLists
  <2>4. LoadList(Entry, write_entries(list), Len(list)) = list
    BY <2>3, EntriesArrive DEF EntryLists
  <2>5. /\ fields' \in [Resources -> [list : EntryLists, mutable : BOOLEAN]]
        /\ told' \in [Resources -> EntryLists]
        /\ EntriesAgree'
    <3> DEFINE f == [list |-> list, mutable |-> TRUE]
    <3>1. f \in [list : EntryLists, mutable : BOOLEAN] /\ f.list = list
      BY <2>3
    <3>2. \/ fields' = [fields EXCEPT !["own"] = f] /\ told' = [told EXCEPT !["own"] = list]
          \/ fields' = fields /\ told' = told
      BY <2>2, <2>4
    <3> HIDE DEF f
    <3>3. "own" \in Resources
      BY DEF Resources
    <3> QED
      BY <2>3, <3>1, <3>2, <3>3 DEF FieldsInv, EntriesAgree
  <2>6. ResultsAgree'
    BY <2>2, FromListRead DEF ResultsAgree
  <2>7. heap' = heap /\ held' = held
    BY <2>1 DEF FieldsInv, AllocArgument, FreeArgument
  <2> QED
    BY <2>5, <2>6, <2>7 DEF FieldsInv, MemoryBalances
<1>3. CASE DropResults
  BY <1>3 DEF DropResults, FieldsInv, EntriesAgree, ResultsAgree, MemoryBalances, Nothing
<1>4. ASSUME NEW r \in Resources, Fields_entries(r)  PROVE FieldsInv'
  <2> DEFINE list == fields[r].list
             names == [i \in DOMAIN list |-> list[i][1]]
  <2>1. list \in Seq(Texts \X Texts) /\ Len(list) \in Nat
    BY <1>0 DEF EntryLists
  <2>2. names \in Seq(Texts) /\ ValuesOf(list) \in Seq(Texts)
    BY <2>1 DEF ValuesOf
  <2>3. read_entries(StoreList(Entry, list), Len(list)) = list
    BY <2>1, EntriesArrive
  <2>4. Return(list, list, ValuesOf(list) \o names, 16)
    BY <1>4, <2>3 DEF Fields_entries
  <2>5. ValuesOf(list) \o names \in Seq(Texts)
    BY <2>2
  <2> QED
    BY <2>1, <2>4, <2>5, ReturnKeeps
<1>5. ASSUME NEW r \in Resources, Fields_clone(r)  PROVE FieldsInv'
  BY <1>0, <1>5 DEF Fields_clone, FieldsInv, EntriesAgree, ResultsAgree, MemoryBalances, Nothing
<1>6. ASSUME NEW r \in Resources, NEW n \in FieldNames, Fields_get(r, n)  PROVE FieldsInv'
  <2> DEFINE list == Named(fields[r].list, n)
             values == ValuesOf(list)
  <2>1. list \in EntryLists
    BY <1>0, KeptAreEntries DEF Named
  <2>2. values \in Seq(Texts) /\ Len(values) \in Nat
    BY <2>1 DEF ValuesOf, EntryLists
  <2>3. read_values(StoreList(FieldValue, values), Len(values)) = values
    BY <2>2, ValuesArrive
  <2>4. Return(values, values, values, 8)
    BY <1>6, <2>3 DEF Fields_get
  <2> QED
    BY <2>2, <2>4, ReturnKeeps
<1>7. ASSUME NEW r \in Resources, NEW n \in FieldNames, Fields_has(r, n)  PROVE FieldsInv'
  BY <1>7 DEF Fields_has, FieldsInv, EntriesAgree, ResultsAgree, MemoryBalances
<1>8. ASSUME NEW r \in Resources, NEW n \in FieldNames, Fields_delete(r, n)  PROVE FieldsInv'
  <2>1. Other(fields[r].list, n) \in EntryLists
    BY <1>0, KeptAreEntries DEF Other
  <2>2. Change(r, Refusal(r, n, {}), Other(fields[r].list, n), Other(fields[r].list, n), 0)
    BY <1>0, <1>8 DEF Fields_delete
  <2> QED
    BY <2>1, <2>2, RefusalIs, ChangeKeeps
<1>9. ASSUME NEW r \in Resources, NEW n \in FieldNames, NEW v \in FieldValues,
             Fields_append(r, n, v)
      PROVE  FieldsInv'
  <2>1. Append(fields[r].list, <<n, v>>) \in EntryLists
    BY <1>0, FieldsAssumption DEF EntryLists
  <2>2. Change(r, Refusal(r, n, {v}), Append(fields[r].list, <<n, v>>),
               Append(fields[r].list, <<n, v>>), 0)
    BY <1>0, <1>9 DEF Fields_append
  <2> QED
    BY <2>1, <2>2, RefusalIs, ChangeKeeps
<1>10. ASSUME NEW r \in Resources, NEW n \in FieldNames, NEW values \in ListsOf(FieldValues),
              Fields_set(r, n, values)
       PROVE  FieldsInv'
  <2>1. values \in Seq(Texts) /\ Len(values) \in Nat
    BY ListsAreSequences, FieldsAssumption
  <2>2. LoadList(FieldValue, write_values(values), Len(values)) = values
    BY <2>1, ValuesArrive
  <2> DEFINE list == Other(fields[r].list, n) \o Entries(n, values)
  <2>3. Other(fields[r].list, n) \in Seq(Texts \X Texts)
    BY <1>0, KeptAreEntries DEF Other, EntryLists
  <2>4. Entries(n, values) \in Seq(Texts \X Texts)
    BY <2>1, FieldsAssumption DEF Entries
  <2>5. list \in EntryLists
    BY <2>3, <2>4 DEF EntryLists
  <2>6. Change(r, Refusal(r, n, ElementsOf(values)), list, list, Layout(Len(values), 8))
    BY <1>0, <1>10, <2>2 DEF Fields_set
  <2>7. Layout(Len(values), 8) \in Int
    BY <2>1 DEF Layout
  <2> QED
    BY <2>5, <2>6, <2>7, RefusalIs, ChangeKeeps
<1>11. CASE UNCHANGED fieldsVars
  BY <1>11 DEF fieldsVars, FieldsInv, EntriesAgree, ResultsAgree, MemoryBalances
<1> QED
  BY <1>1, <1>2, <1>3, <1>4, <1>5, <1>6, <1>7, <1>8, <1>9, <1>10, <1>11 DEF FieldsNext

LEMMA FieldsInvariant == FieldsSpec => []FieldsInv
BY FieldsInitInv, FieldsNextInv, PTL DEF FieldsSpec

(* Whatever calls a program makes, of any number and with any lists, every  *)
(* fields resource has the entries they made of it, in order and case.      *)
THEOREM EntriesAgreeAlways == FieldsSpec => []EntriesAgree
<1>1. FieldsInv => EntriesAgree
  BY DEF FieldsInv
<1> QED
  BY <1>1, FieldsInvariant, PTL

(* Lists, booleans and errors that a wrapper returns are what the host      *)
(* meant.                                                                   *)
THEOREM ResultsAgreeAlways == FieldsSpec => []ResultsAgree
<1>1. FieldsInv => ResultsAgree
  BY DEF FieldsInv
<1> QED
  BY <1>1, FieldsInvariant, PTL

(* The arrays of arguments and results are freed once, and every block left *)
(* is that of a text the program owns.                                      *)
THEOREM MemoryBalancesAlways == FieldsSpec => []MemoryBalances
<1>1. FieldsInv => MemoryBalances
  BY DEF FieldsInv
<1> QED
  BY <1>1, FieldsInvariant, PTL

-----------------------------------------------------------------------------
(* Flat words. The words from k on are those of a value.                    *)
FitAt(C, words, k) == \A c \in C : words[k + c.at + 1] % Values(c.bytes) = c.value
TakesAt(T, v, words, k) == FitAt(T.words[v], words, k)

(* A type numbers its words, and no words are those of two values.          *)
IsFlat(T) ==
  /\ T.flat \in Nat /\ \A v \in T.values : \A c \in T.words[v] : c.at \in Nat
  /\ \A v, w \in T.values : \A k \in Nat : \A words :
       TakesAt(T, v, words, k) /\ TakesAt(T, w, words, k) => v = w

LEMMA MovedTakes ==
  ASSUME NEW C, \A c \in C : c.at \in Nat, NEW m \in Nat, NEW k \in Nat, NEW words
  PROVE  FitAt(Moved(C, m), words, k) <=> FitAt(C, words, k + m)
<1>1. ASSUME NEW c \in C
      PROVE  /\ Cell(c.at + m, c.bytes, c.value).at = c.at + m
             /\ Cell(c.at + m, c.bytes, c.value).bytes = c.bytes
             /\ Cell(c.at + m, c.bytes, c.value).value = c.value
             /\ k + (c.at + m) + 1 = (k + m) + c.at + 1
  <2>1. c.at \in Nat
    OBVIOUS
  <2> QED
    BY <2>1, CellParts
<1> QED
  BY <1>1 DEF Moved, FitAt

LEMMA BothFit ==
  ASSUME NEW C, NEW D, NEW words, NEW k
  PROVE  FitAt(C \cup D, words, k) <=> FitAt(C, words, k) /\ FitAt(D, words, k)
BY DEF FitAt

LEMMA OneFits ==
  ASSUME NEW at \in Nat, NEW n, NEW v, NEW words, NEW k \in Nat
  PROVE  FitAt({Cell(at, n, v)}, words, k) <=> words[k + at + 1] % Values(n) = v
BY CellParts DEF FitAt

LEMMA NumberTakes ==
  ASSUME NEW n \in {1, 2, 4, 8}
  PROVE  /\ IsFlat(Number(n)) /\ Number(n).flat = 1
         /\ \A v \in Numbers(n) : \A k \in Nat : \A words :
              TakesAt(Number(n), v, words, k) <=> words[k + 1] % Values(n) = v
<1>1. ASSUME NEW v \in Numbers(n), NEW k \in Nat, NEW words
      PROVE  TakesAt(Number(n), v, words, k) <=> words[k + 1] % Values(n) = v
  <2>1. Number(n).words[v] = {Cell(0, n, v)}
    BY DEF Number
  <2>2. k + 0 + 1 = k + 1
    OBVIOUS
  <2> QED
    BY <2>1, <2>2, CellParts DEF TakesAt, FitAt
<1>2. \A v \in Numbers(n) : \A c \in Number(n).words[v] : c.at \in Nat
  BY CellParts DEF Number
<1>3. Number(n).flat = 1 /\ Number(n).values = Numbers(n)
  BY DEF Number
<1> QED
  BY <1>1, <1>2, <1>3 DEF IsFlat

LEMMA TextTakes ==
  /\ IsFlat(Text) /\ Text.flat = 2
  /\ \A t \in Texts : \A k \in Nat : \A words :
       TakesAt(Text, t, words, k)
         <=> words[k + 1] % W32 = t /\ words[k + 2] % W32 = TextLen(t)
<1>1. ASSUME NEW t \in Texts, NEW k \in Nat, NEW words
      PROVE  TakesAt(Text, t, words, k)
               <=> words[k + 1] % W32 = t /\ words[k + 2] % W32 = TextLen(t)
  <2>1. Text.words[t] = {Cell(0, 4, t), Cell(1, 4, TextLen(t))}
    BY DEF Text
  <2>2. k + 0 + 1 = k + 1 /\ k + 1 + 1 = k + 2 /\ Values(4) = W32
    BY DEF Values
  <2> QED
    BY <2>1, <2>2, CellParts DEF TakesAt, FitAt
<1>2. \A t \in Texts : \A c \in Text.words[t] : c.at \in Nat
  BY CellParts DEF Text
<1>3. Text.flat = 2 /\ Text.values = Texts
  BY DEF Text
<1> QED
  BY <1>1, <1>2, <1>3 DEF IsFlat

LEMMA UnitTakes ==
  /\ IsFlat(Unit) /\ Unit.flat = 0 /\ Unit.values = {<<>>}
  /\ \A words, k : TakesAt(Unit, <<>>, words, k)
<1>1. Unit.values = {<<>>} /\ Unit.flat = 0 /\ Unit.words[<<>>] = {}
  BY DEF Unit
<1> QED
  BY <1>1 DEF IsFlat, TakesAt, FitAt

LEMMA PairTakes ==
  ASSUME NEW T, NEW U, IsLayout(T), IsLayout(U), IsFlat(T), IsFlat(U)
  PROVE  /\ IsFlat(Pair(T, U)) /\ Pair(T, U).flat = T.flat + U.flat
         /\ \A v \in Pair(T, U).values : \A k \in Nat : \A words :
              TakesAt(Pair(T, U), v, words, k)
                <=> TakesAt(T, v[1], words, k) /\ TakesAt(U, v[2], words, k + T.flat)
<1> DEFINE P == Pair(T, U)
<1>1. T.flat \in Nat /\ U.flat \in Nat
  BY DEF IsFlat
<1>2. P.flat = T.flat + U.flat
  BY DEF Pair
<1>3. ASSUME NEW v \in P.values
      PROVE  /\ v = <<v[1], v[2]>> /\ v[1] \in T.values /\ v[2] \in U.values
             /\ P.words[v] = T.words[v[1]] \cup Moved(U.words[v[2]], T.flat)
  BY PairParts DEF Pair
<1>4. ASSUME NEW v \in P.values, NEW k \in Nat, NEW words
      PROVE  TakesAt(P, v, words, k)
               <=> TakesAt(T, v[1], words, k) /\ TakesAt(U, v[2], words, k + T.flat)
  <2> DEFINE A == T.words[v[1]]
             B == U.words[v[2]]
  <2>1. P.words[v] = A \cup Moved(B, T.flat) /\ \A c \in B : c.at \in Nat
    BY <1>3 DEF IsFlat
  <2>2. FitAt(Moved(B, T.flat), words, k) <=> FitAt(B, words, k + T.flat)
    BY <1>1, <2>1, MovedTakes
  <2> QED
    BY <2>1, <2>2, BothFit DEF TakesAt
<1>5. ASSUME NEW v \in P.values, NEW c \in P.words[v]  PROVE c.at \in Nat
  <2>1. c \in T.words[v[1]] \/ c \in Moved(U.words[v[2]], T.flat)
    BY <1>3
  <2>2. CASE c \in T.words[v[1]]
    BY <1>3, <2>2 DEF IsFlat
  <2>3. CASE c \in Moved(U.words[v[2]], T.flat)
    <3>1. PICK d \in U.words[v[2]] : c = Cell(d.at + T.flat, d.bytes, d.value)
      BY <2>3 DEF Moved
    <3>2. d.at \in Nat /\ c.at = d.at + T.flat
      BY <1>3, <3>1, CellParts DEF IsFlat
    <3> QED
      BY <1>1, <3>2
  <2> QED
    BY <2>1, <2>2, <2>3
<1>6. ASSUME NEW v \in P.values, NEW w \in P.values, NEW k \in Nat, NEW words,
             TakesAt(P, v, words, k), TakesAt(P, w, words, k)
      PROVE  v = w
  <2>1. /\ TakesAt(T, v[1], words, k) /\ TakesAt(T, w[1], words, k)
        /\ TakesAt(U, v[2], words, k + T.flat) /\ TakesAt(U, w[2], words, k + T.flat)
    BY <1>4, <1>6
  <2>2. k + T.flat \in Nat
    BY <1>1
  <2>3. v[1] = w[1] /\ v[2] = w[2]
    BY <1>3, <2>1, <2>2 DEF IsFlat
  <2> QED
    BY <1>3, <2>3
<1>7. P.flat \in Nat
  BY <1>1, <1>2
<1> HIDE DEF P
<1>8. IsFlat(P)
  BY <1>5, <1>6, <1>7 DEF IsFlat
<1> QED
  BY <1>2, <1>4, <1>8 DEF P

LEMMA VariantTakes ==
  ASSUME NEW Cs, IsCases(Cs), \A i \in DOMAIN Cs : IsFlat(Cs[i][2]),
         NEW f, \E i \in DOMAIN Cs : Cs[i][2].flat = f, \A i \in DOMAIN Cs : Cs[i][2].flat <= f
  PROVE  /\ IsFlat(Variant(Cs)) /\ Variant(Cs).flat = 1 + f
         /\ \A i \in DOMAIN Cs : \A x \in Cs[i][2].values : \A k \in Nat : \A words :
              TakesAt(Variant(Cs), <<Cs[i][1], x>>, words, k)
                <=> words[k + 1] % W32 = i - 1 /\ TakesAt(Cs[i][2], x, words, k + 1)
<1> DEFINE V == Variant(Cs)
<1>1. f \in Nat /\ V.flat = 1 + f
  <2> DEFINE S == {Cs[i][2].flat : i \in DOMAIN Cs}
  <2>1. \A i \in DOMAIN Cs : Cs[i][2].flat \in Nat
    BY DEF IsFlat
  <2>2. f \in S /\ f \in Nat /\ \A n \in S : n \in Int /\ n <= f
    BY <2>1
  <2> HIDE DEF S
  <2>3. Largest(S) = f
    BY <2>2, LargestIs
  <2> QED
    BY <2>2, <2>3 DEF Variant, S
<1>2. ASSUME NEW i \in DOMAIN Cs, NEW x \in Cs[i][2].values
      PROVE  V.words[<<Cs[i][1], x>>] = {Cell(0, 4, i - 1)} \cup Moved(Cs[i][2].words[x], 1)
  <2> DEFINE v == <<Cs[i][1], x>>
  <2>1. v \in CaseValues(Cs)
    BY DEF CaseValues
  <2>2. v[2] = x /\ CaseIndex(Cs, v) = i
    BY CaseIs
  <2> HIDE DEF v
  <2>3. CaseWords(Cs, v) = {Cell(0, 4, i - 1)} \cup Moved(Cs[i][2].words[x], 1)
    BY <2>2 DEF CaseWords
  <2>4. V.words[v] = CaseWords(Cs, v)
    BY <2>1 DEF Variant
  <2> QED
    BY <2>3, <2>4 DEF v
<1>3. ASSUME NEW i \in DOMAIN Cs, NEW x \in Cs[i][2].values, NEW k \in Nat, NEW words
      PROVE  TakesAt(V, <<Cs[i][1], x>>, words, k)
               <=> words[k + 1] % W32 = i - 1 /\ TakesAt(Cs[i][2], x, words, k + 1)
  <2> DEFINE v == <<Cs[i][1], x>>
             B == Cs[i][2].words[x]
  <2>1. V.words[v] = {Cell(0, 4, i - 1)} \cup Moved(B, 1) /\ \A c \in B : c.at \in Nat
    BY <1>2 DEF IsFlat
  <2>2. FitAt(Moved(B, 1), words, k) <=> TakesAt(Cs[i][2], x, words, k + 1)
    BY <2>1, MovedTakes DEF TakesAt
  <2>3. k + 0 + 1 = k + 1 /\ Values(4) = W32
    BY DEF Values
  <2>4. FitAt({Cell(0, 4, i - 1)}, words, k) <=> words[k + 1] % W32 = i - 1
    BY <2>3, OneFits
  <2> HIDE DEF V, v, B
  <2>7. TakesAt(V, v, words, k)
          <=> words[k + 1] % W32 = i - 1 /\ TakesAt(Cs[i][2], x, words, k + 1)
    BY <2>1, <2>2, <2>4, BothFit DEF TakesAt
  <2> QED
    BY <2>7 DEF v
<1>4. ASSUME NEW v \in V.values, NEW c \in V.words[v]  PROVE c.at \in Nat
  <2>1. PICK i \in DOMAIN Cs : \E x \in Cs[i][2].values : v = <<Cs[i][1], x>>
    BY VariantValue
  <2>2. PICK x \in Cs[i][2].values : v = <<Cs[i][1], x>>
    BY <2>1
  <2>3. c \in {Cell(0, 4, i - 1)} \cup Moved(Cs[i][2].words[x], 1)
    BY <1>2, <2>2
  <2>4. CASE c = Cell(0, 4, i - 1)
    BY <2>4, CellParts
  <2>5. CASE c \in Moved(Cs[i][2].words[x], 1)
    <3>1. PICK d \in Cs[i][2].words[x] : c = Cell(d.at + 1, d.bytes, d.value)
      BY <2>5 DEF Moved
    <3>2. d.at \in Nat /\ c.at = d.at + 1
      BY <3>1, CellParts DEF IsFlat
    <3> QED
      BY <3>2
  <2> QED
    BY <2>3, <2>4, <2>5
<1>5. ASSUME NEW v \in V.values, NEW w \in V.values, NEW k \in Nat, NEW words,
             TakesAt(V, v, words, k), TakesAt(V, w, words, k)
      PROVE  v = w
  <2>1. PICK i \in DOMAIN Cs : \E x \in Cs[i][2].values : v = <<Cs[i][1], x>>
    BY VariantValue
  <2>2. PICK x \in Cs[i][2].values : v = <<Cs[i][1], x>>
    BY <2>1
  <2>3. PICK j \in DOMAIN Cs : \E y \in Cs[j][2].values : w = <<Cs[j][1], y>>
    BY VariantValue
  <2>4. PICK y \in Cs[j][2].values : w = <<Cs[j][1], y>>
    BY <2>3
  <2>5. words[k + 1] % W32 = i - 1 /\ TakesAt(Cs[i][2], x, words, k + 1)
    BY <1>3, <1>5, <2>2
  <2>6. words[k + 1] % W32 = j - 1 /\ TakesAt(Cs[j][2], y, words, k + 1)
    BY <1>3, <1>5, <2>4
  <2>7. i \in Int /\ j \in Int /\ k + 1 \in Nat
    BY DEF IsCases
  <2>8. i = j
    BY <2>5, <2>6, <2>7
  <2>9. x = y
    BY <2>5, <2>6, <2>7, <2>8 DEF IsFlat
  <2> QED
    BY <2>2, <2>4, <2>8, <2>9
<1>6. V.flat \in Nat
  BY <1>1
<1> HIDE DEF V
<1>7. IsFlat(V)
  BY <1>4, <1>5, <1>6 DEF IsFlat
<1> QED
  BY <1>1, <1>3, <1>7 DEF V

(* What the host takes the words of a value for is the value.               *)
LEMMA Lifted ==
  ASSUME NEW T, IsFlat(T), NEW v \in T.values, NEW words, TakesAt(T, v, words, 0)
  PROVE  LiftFlat(T, words) = v
<1>1. ASSUME NEW w \in T.values  PROVE Takes(T, w, words) <=> TakesAt(T, w, words, 0)
  <2>1. \A c \in T.words[w] : 0 + c.at + 1 = c.at + 1
    BY DEF IsFlat
  <2> QED
    BY <2>1 DEF Takes, TakesAt, FitAt
<1>2. \A w \in T.values : Takes(T, w, words) <=> w = v
  BY <1>1 DEF IsFlat
<1> QED
  BY <1>2 DEF LiftFlat

LEMMA OptionTakes ==
  ASSUME NEW T, IsLayout(T), IsFlat(T)
  PROVE  /\ IsFlat(OptionOf(T)) /\ OptionOf(T).flat = 1 + T.flat
         /\ \A k \in Nat : \A words :
              TakesAt(OptionOf(T), None, words, k) <=> words[k + 1] % W32 = 0
         /\ \A x \in T.values : \A k \in Nat : \A words :
              TakesAt(OptionOf(T), Some(x), words, k)
                <=> words[k + 1] % W32 = 1 /\ TakesAt(T, x, words, k + 1)
<1> DEFINE Cs == Two("None", Unit, "Some", T)
<1>1. OptionOf(T) = Variant(Cs) /\ IsCases(Cs)
  BY OptionCases
<1>2. /\ DOMAIN Cs = {1, 2} /\ Cs[1][1] = "None" /\ Cs[1][2] = Unit
      /\ Cs[2][1] = "Some" /\ Cs[2][2] = T
  BY DEF Two
<1>3. T.flat \in Nat /\ IsFlat(Unit) /\ Unit.flat = 0 /\ Unit.values = {<<>>}
  BY UnitTakes DEF IsFlat
<1> HIDE DEF Cs
<1>4. /\ \A i \in DOMAIN Cs : IsFlat(Cs[i][2]) /\ Cs[i][2].flat <= T.flat
      /\ \E i \in DOMAIN Cs : Cs[i][2].flat = T.flat
  BY <1>2, <1>3
<1>5. /\ IsFlat(Variant(Cs)) /\ Variant(Cs).flat = 1 + T.flat
      /\ \A i \in DOMAIN Cs : \A x \in Cs[i][2].values : \A k \in Nat : \A words :
           TakesAt(Variant(Cs), <<Cs[i][1], x>>, words, k)
             <=> words[k + 1] % W32 = i - 1 /\ TakesAt(Cs[i][2], x, words, k + 1)
  BY <1>1, <1>4, VariantTakes
<1>6. ASSUME NEW k \in Nat, NEW words
      PROVE  TakesAt(OptionOf(T), None, words, k) <=> words[k + 1] % W32 = 0
  <2>1. None = <<Cs[1][1], <<>>>> /\ 1 \in DOMAIN Cs /\ <<>> \in Cs[1][2].values
    BY <1>2, <1>3 DEF None
  <2>2. TakesAt(OptionOf(T), None, words, k)
          <=> words[k + 1] % W32 = 1 - 1 /\ TakesAt(Unit, <<>>, words, k + 1)
    BY <1>1, <1>2, <1>5, <2>1
  <2> QED
    BY <2>2, UnitTakes
<1>7. ASSUME NEW x \in T.values, NEW k \in Nat, NEW words
      PROVE  TakesAt(OptionOf(T), Some(x), words, k)
                <=> words[k + 1] % W32 = 1 /\ TakesAt(T, x, words, k + 1)
  <2>1. Some(x) = <<Cs[2][1], x>> /\ 2 \in DOMAIN Cs /\ x \in Cs[2][2].values
    BY <1>2 DEF Some
  <2>2. TakesAt(OptionOf(T), Some(x), words, k)
          <=> words[k + 1] % W32 = 2 - 1 /\ TakesAt(T, x, words, k + 1)
    BY <1>1, <1>2, <1>5, <2>1
  <2> QED
    BY <2>2
<1> QED
  BY <1>1, <1>5, <1>6, <1>7

-----------------------------------------------------------------------------
(* Casts.                                                                   *)
LEMMA Widths ==
  /\ W32 \in Nat /\ 2 * 65536 <= W32 /\ W64 \in Nat /\ 2 * W32 <= W64
  /\ \E n \in Nat \ {0} : W64 = n * W32
<1>1. PICK n \in 2 .. W32 : W32 = n * 65536
  BY WidthsAssumption
<1>2. PICK m \in 2 .. W32 : W64 = m * W32
  BY WidthsAssumption
<1>3. W32 \in Nat /\ n \in Nat /\ m \in Nat /\ 2 <= n /\ 2 <= m
  BY WidthsAssumption
<1>4. 2 * W32 <= m * W32 /\ m * W32 \in Nat
  BY <1>3
<1> QED
  BY <1>1, <1>2, <1>3, <1>4

LEMMA ModSmall ==
  ASSUME NEW n \in Nat, NEW w \in Nat, n < w
  PROVE  n % w = n /\ (n - w) % w = n
OBVIOUS

LEMMA ModMore ==
  ASSUME NEW n \in Nat, NEW w \in Nat, n < w, NEW h \in Int
  PROVE  (n + w * h) % w = n
OBVIOUS

LEMMA ModWide ==
  ASSUME NEW n \in Nat, NEW w \in Nat \ {0}, NEW k \in Nat \ {0}, n < w
  PROVE  ((n - w) % (k * w)) % w = n
<1>1. k * w \in Nat /\ w <= k * w
  OBVIOUS
<1>2. (n - w) % (k * w) = n - w + k * w
  BY <1>1
<1>3. n - w + k * w = n + w * (k - 1)
  OBVIOUS
<1>4. PICK h \in Int : h = k - 1
  OBVIOUS
<1>5. (n + w * h) % w = n
  BY ModMore
<1> QED
  BY <1>2, <1>3, <1>4, <1>5

LEMMA NumberIs ==
  ASSUME NEW n \in {1, 2, 4, 8}, NEW v \in Numbers(n)
  PROVE  /\ v \in Nat /\ v < Values(n) /\ Values(n) \in Nat /\ v % Values(n) = v
         /\ n # 8 => v < W32
         /\ n \in {1, 2} => v < 65536
<1>1. v \in 0 .. Values(n) - 1
  BY ValuesAssumption
<1>2. /\ n = 1 => Values(n) = 256
      /\ n = 2 => Values(n) = 65536
      /\ n = 4 => Values(n) = W32
      /\ n = 8 => Values(n) = W64
  BY DEF Values
<1>3. Values(n) \in Nat
  BY <1>2, Widths
<1>4. v \in Nat /\ v < Values(n)
  BY <1>1, <1>3
<1>5. v % Values(n) = v
  BY <1>3, <1>4, ModSmall
<1> QED
  BY <1>2, <1>3, <1>4, <1>5, Widths

LEMMA TextIs ==
  ASSUME NEW t \in Texts
  PROVE  /\ t \in Nat /\ t < W32 /\ t % W32 = t
         /\ TextLen(t) \in Nat /\ TextLen(t) < W32 /\ TextLen(t) % W32 = TextLen(t)
<1>1. t \in 0 .. W32 - 1 /\ TextLen(t) \in 0 .. W32 - 1
  BY ValuesAssumption
<1>2. t \in Nat /\ t < W32 /\ TextLen(t) \in Nat /\ TextLen(t) < W32
  BY <1>1, Widths
<1> QED
  BY <1>2, Widths, ModSmall

LEMMA Cast64 ==
  ASSUME NEW n \in Nat, n < W64
  PROVE  as_u64(as_i64(n)) = n /\ as_i64(n) % W64 = n
<1>1. as_i64(n) = n \/ as_i64(n) = n - W64
  BY DEF as_i64
<1>2. n % W64 = n /\ (n - W64) % W64 = n
  BY Widths, ModSmall
<1> QED
  BY <1>1, <1>2 DEF as_u64

LEMMA Cast32 ==
  ASSUME NEW n \in Nat, n < W32
  PROVE  as_i32(n) % W32 = n /\ as_u64(as_i32(n)) % W32 = n
<1>1. as_i32(n) = n \/ as_i32(n) = n - W32
  BY DEF as_i32
<1>2. n % W32 = n /\ (n - W32) % W32 = n
  BY Widths, ModSmall
<1>3. n % W64 = n
  <2>1. n < W64
    BY Widths
  <2> QED
    BY <2>1, Widths, ModSmall
<1>4. PICK k \in Nat \ {0} : W64 = k * W32
  BY Widths
<1>5. ((n - W32) % W64) % W32 = n
  <2>1. W32 \in Nat \ {0}
    BY Widths
  <2>2. ((n - W32) % (k * W32)) % W32 = n
    BY <2>1, ModWide
  <2> QED
    BY <1>4, <2>2
<1> QED
  BY <1>1, <1>2, <1>3, <1>5 DEF as_u64

LEMMA HalfWritten ==
  ASSUME NEW n \in Nat, n < W32, NEW high \in Int
  PROVE  half_written(n, high) % W32 = n
BY Widths, ModMore DEF half_written

LEMMA SmallFits ==
  ASSUME NEW n \in Nat, n < 65536
  PROVE  n % W32 = n /\ as_u64(n) % W32 = n /\ as_i32(n) = n
<1>1. n < W32 /\ n < W64
  BY Widths
<1>2. n % W32 = n /\ n % W64 = n
  BY <1>1, Widths, ModSmall
<1>3. n < W32 \div 2
  BY Widths
<1> QED
  BY <1>2, <1>3 DEF as_u64, as_i32

-----------------------------------------------------------------------------
(* The types of attributes.                                                 *)
MethodCases ==
  << <<"Get", Unit>>, <<"Head", Unit>>, <<"Post", Unit>>, <<"Put", Unit>>,
     <<"Delete", Unit>>, <<"Connect", Unit>>, <<"Options", Unit>>,
     <<"Trace", Unit>>, <<"Patch", Unit>>, <<"Other", Text>> >>
SchemeCases == << <<"Http", Unit>>, <<"Https", Unit>>, <<"Other", Text>> >>

(* Cases of no payload, but for the last, which is a text.                  *)
LastIsText(Cs, n) ==
  /\ n \in Nat \ {0} /\ DOMAIN Cs = 1 .. n
  /\ \A i \in 1 .. n - 1 : Cs[i][2] = Unit
  /\ Cs[n][2] = Text
  /\ \A i, j \in 1 .. n : Cs[i][1] = Cs[j][1] => i = j

LEMMA NamedLayout ==
  ASSUME NEW Cs, NEW n, LastIsText(Cs, n)
  PROVE  /\ IsCases(Cs) /\ AreLargest(Cs, 4, 8) /\ IsLayout(Variant(Cs))
         /\ Variant(Cs).align = 4 /\ Variant(Cs).size = 12
         /\ IsFlat(Variant(Cs)) /\ Variant(Cs).flat = 3
<1>1. /\ Unit.align = 1 /\ Unit.size = 0 /\ Unit.flat = 0
      /\ Text.align = 4 /\ Text.size = 8 /\ Text.flat = 2
  <2>1. Unit.align = 1 /\ Unit.size = 0 /\ Unit.flat = 0
    BY DEF Unit
  <2>2. Text.align = 4 /\ Text.size = 8 /\ Text.flat = 2
    BY DEF Text
  <2> QED
    BY <2>1, <2>2
<1>2. \A i \in DOMAIN Cs : Cs[i][2] = Unit \/ Cs[i][2] = Text
  BY DEF LastIsText
<1>3. n \in DOMAIN Cs /\ Cs[n][2] = Text
  BY DEF LastIsText
<1>4. IsCases(Cs)
  BY <1>2, UnitLayout, TextLayout DEF IsCases, LastIsText
<1>5. AreLargest(Cs, 4, 8)
  BY <1>1, <1>2, <1>3 DEF AreLargest
<1>6. /\ IsLayout(Variant(Cs)) /\ Variant(Cs).align = 4
      /\ Variant(Cs).size = RoundUp(4 + 8, 4)
  BY <1>4, <1>5, VariantLayout, VariantSize
<1>7. RoundUp(4 + 8, 4) = 12
  BY DEF RoundUp
<1>8. /\ \A i \in DOMAIN Cs : IsFlat(Cs[i][2]) /\ Cs[i][2].flat <= 2
      /\ \E i \in DOMAIN Cs : Cs[i][2].flat = 2
  BY <1>1, <1>2, <1>3, UnitTakes, TextTakes
<1>9. IsFlat(Variant(Cs)) /\ Variant(Cs).flat = 1 + 2
  BY <1>4, <1>8, VariantTakes
<1> QED
  BY <1>4, <1>5, <1>6, <1>7, <1>9

LEMMA NamedValue ==
  ASSUME NEW Cs, NEW n, LastIsText(Cs, n), NEW v \in Variant(Cs).values
  PROVE  \/ \E i \in 1 .. n - 1 : v = <<Cs[i][1], <<>>>>
         \/ \E t \in Texts : v = <<Cs[n][1], t>>
<1>1. PICK i \in DOMAIN Cs : \E x \in Cs[i][2].values : v = <<Cs[i][1], x>>
  BY VariantValue
<1>2. PICK x \in Cs[i][2].values : v = <<Cs[i][1], x>>
  BY <1>1
<1>3. Text.values = Texts
  BY DEF Text
<1>4. i \in 1 .. n - 1 \/ i = n
  BY DEF LastIsText
<1> QED
  BY <1>2, <1>3, <1>4, UnitTakes DEF LastIsText

(* Where such a value is, its number and its text are read, and the words   *)
(* of its number and of its text are its own.                               *)
LEMMA NamedHolds ==
  ASSUME NEW Cs, NEW n, LastIsText(Cs, n), NEW area, NEW b \in Nat
  PROVE  /\ \A i \in 1 .. n - 1 : Holds(area, Variant(Cs), <<Cs[i][1], <<>>>>, b)
              => Read(area, b, 1) = i - 1
         /\ \A t \in Texts : Holds(area, Variant(Cs), <<Cs[n][1], t>>, b)
              => Read(area, b, 1) = n - 1 /\ read_string(area, b + 4) = t
<1>1. IsCases(Cs) /\ AreLargest(Cs, 4, 8)
  BY NamedLayout
<1>2. ASSUME NEW i \in 1 .. n - 1, Holds(area, Variant(Cs), <<Cs[i][1], <<>>>>, b)
      PROVE  Read(area, b, 1) = i - 1
  <2>1. i \in DOMAIN Cs /\ <<>> \in Cs[i][2].values
    BY UnitTakes DEF LastIsText
  <2> QED
    BY <1>1, <1>2, <2>1, HoldsVariant
<1>3. ASSUME NEW t \in Texts, Holds(area, Variant(Cs), <<Cs[n][1], t>>, b)
      PROVE  Read(area, b, 1) = n - 1 /\ read_string(area, b + 4) = t
  <2>1. n \in DOMAIN Cs /\ Cs[n][2] = Text /\ b + 4 \in Nat
    BY DEF LastIsText
  <2>2. t \in Cs[n][2].values
    BY <2>1 DEF Text
  <2>3. Read(area, b, 1) = n - 1 /\ Holds(area, Cs[n][2], t, b + 4)
    BY <1>1, <1>3, <2>1, <2>2, HoldsVariant
  <2> QED
    BY <2>1, <2>3, HoldsText
<1> QED
  BY <1>2, <1>3

LEMMA NamedTakes ==
  ASSUME NEW Cs, NEW n, LastIsText(Cs, n), NEW k \in Nat, NEW words
  PROVE  /\ \A i \in 1 .. n - 1 : words[k + 1] % W32 = i - 1
              => TakesAt(Variant(Cs), <<Cs[i][1], <<>>>>, words, k)
         /\ \A t \in Texts :
              /\ words[k + 1] % W32 = n - 1
              /\ words[k + 2] % W32 = t /\ words[k + 3] % W32 = TextLen(t)
              => TakesAt(Variant(Cs), <<Cs[n][1], t>>, words, k)
<1>1. IsCases(Cs)
  BY NamedLayout
<1>2. /\ \A i \in DOMAIN Cs : IsFlat(Cs[i][2]) /\ Cs[i][2].flat <= 2
      /\ \E i \in DOMAIN Cs : Cs[i][2].flat = 2
  <2>1. \A i \in DOMAIN Cs : Cs[i][2] = Unit \/ Cs[i][2] = Text
    BY DEF LastIsText
  <2>2. n \in DOMAIN Cs /\ Cs[n][2] = Text
    BY DEF LastIsText
  <2> QED
    BY <2>1, <2>2, UnitTakes, TextTakes
<1>3. \A i \in DOMAIN Cs : \A x \in Cs[i][2].values :
        TakesAt(Variant(Cs), <<Cs[i][1], x>>, words, k)
          <=> words[k + 1] % W32 = i - 1 /\ TakesAt(Cs[i][2], x, words, k + 1)
  BY <1>1, <1>2, VariantTakes
<1>4. ASSUME NEW i \in 1 .. n - 1, words[k + 1] % W32 = i - 1
      PROVE  TakesAt(Variant(Cs), <<Cs[i][1], <<>>>>, words, k)
  <2>1. i \in DOMAIN Cs /\ Cs[i][2] = Unit
    BY DEF LastIsText
  <2> QED
    BY <1>3, <1>4, <2>1, UnitTakes
<1>5. ASSUME NEW t \in Texts, words[k + 1] % W32 = n - 1,
             words[k + 2] % W32 = t, words[k + 3] % W32 = TextLen(t)
      PROVE  TakesAt(Variant(Cs), <<Cs[n][1], t>>, words, k)
  <2>1. n \in DOMAIN Cs /\ Cs[n][2] = Text
    BY DEF LastIsText
  <2>2. t \in Cs[n][2].values
    BY <2>1 DEF Text
  <2>3. k + 1 \in Nat /\ (k + 1) + 1 = k + 2 /\ (k + 1) + 2 = k + 3
    OBVIOUS
  <2>4. TakesAt(Text, t, words, k + 1)
    BY <1>5, <2>3, TextTakes
  <2> QED
    BY <1>3, <1>5, <2>1, <2>2, <2>4
<1> QED
  BY <1>4, <1>5

LEMMA MethodNames ==
  /\ MethodCases[1][1] = "Get"
  /\ MethodCases[2][1] = "Head"
  /\ MethodCases[3][1] = "Post"
  /\ MethodCases[4][1] = "Put"
  /\ MethodCases[5][1] = "Delete"
  /\ MethodCases[6][1] = "Connect"
  /\ MethodCases[7][1] = "Options"
  /\ MethodCases[8][1] = "Trace"
  /\ MethodCases[9][1] = "Patch"
  /\ MethodCases[10][1] = "Other"
BY DEF MethodCases

LEMMA MethodIs == Method = Variant(MethodCases) /\ LastIsText(MethodCases, 10)
<1>1. /\ DOMAIN MethodCases = 1 .. 10
      /\ MethodCases[1] = <<"Get", Unit>>
      /\ MethodCases[2] = <<"Head", Unit>>
      /\ MethodCases[3] = <<"Post", Unit>>
      /\ MethodCases[4] = <<"Put", Unit>>
      /\ MethodCases[5] = <<"Delete", Unit>>
      /\ MethodCases[6] = <<"Connect", Unit>>
      /\ MethodCases[7] = <<"Options", Unit>>
      /\ MethodCases[8] = <<"Trace", Unit>>
      /\ MethodCases[9] = <<"Patch", Unit>>
      /\ MethodCases[10] = <<"Other", Text>>
  BY DEF MethodCases
<1>2. \A i \in 1 .. 10 : \/ i = 1 \/ i = 2 \/ i = 3 \/ i = 4 \/ i = 5
                         \/ i = 6 \/ i = 7 \/ i = 8 \/ i = 9 \/ i = 10
  OBVIOUS
<1>3. \A i, j \in 1 .. 10 : MethodCases[i][1] = MethodCases[j][1] => i = j
  BY <1>1, <1>2, SMTT(60)
<1>4. \A i \in 1 .. 9 : MethodCases[i][2] = Unit
  BY <1>1
<1>5. LastIsText(MethodCases, 10)
  BY <1>1, <1>3, <1>4 DEF LastIsText
<1> QED
  BY <1>1, <1>5 DEF Method, MethodCases

LEMMA SchemeIs ==
  /\ Scheme = Variant(SchemeCases) /\ LastIsText(SchemeCases, 3)
  /\ SchemeCases[1][1] = "Http" /\ SchemeCases[2][1] = "Https" /\ SchemeCases[3][1] = "Other"
<1>1. /\ DOMAIN SchemeCases = 1 .. 3 /\ SchemeCases[1] = <<"Http", Unit>>
      /\ SchemeCases[2] = <<"Https", Unit>> /\ SchemeCases[3] = <<"Other", Text>>
  BY DEF SchemeCases
<1>2. \A i, j \in 1 .. 3 : SchemeCases[i][1] = SchemeCases[j][1] => i = j
  BY <1>1
<1>3. \A i \in 1 .. 2 : SchemeCases[i][2] = Unit
  BY <1>1
<1>4. LastIsText(SchemeCases, 3)
  BY <1>1, <1>2, <1>3 DEF LastIsText
<1> QED
  BY <1>1, <1>4 DEF Scheme, SchemeCases

-----------------------------------------------------------------------------
(* What a getter reads where an attribute is.                               *)
LEMMA MethodRead ==
  ASSUME NEW v \in Method.values
  PROVE  read_method(Store(Method, v, 0)) = v
<1> SUFFICES ASSUME NEW area, area = Store(Method, v, 0)  PROVE read_method(area) = v
  OBVIOUS
<1>1. Holds(area, Method, v, 0)
  BY MethodIs, NamedLayout, StoreHolds
<1>2. ASSUME NEW i \in 1 .. 9, v = <<MethodCases[i][1], <<>>>>
      PROVE  Read(area, 0, 1) = i - 1
  <2>1. PICK b \in Nat : b = 0
    OBVIOUS
  <2>2. Holds(area, Variant(MethodCases), <<MethodCases[i][1], <<>>>>, b)
    BY <1>1, <1>2, <2>1, MethodIs
  <2>3. i \in 1 .. 10 - 1
    OBVIOUS
  <2>4. Read(area, b, 1) = i - 1
    BY <2>2, <2>3, MethodIs, NamedHolds
  <2> QED
    BY <2>1, <2>4
<1>3. CASE v = <<MethodCases[1][1], <<>>>>
  <2>1. v = <<"Get", <<>>>>
    BY <1>3, MethodNames
  <2>2. Read(area, 0, 1) = 0
    BY <1>2, <1>3
  <2> QED
    BY <2>1, <2>2 DEF read_method
<1>4. CASE v = <<MethodCases[2][1], <<>>>>
  <2>1. v = <<"Head", <<>>>>
    BY <1>4, MethodNames
  <2>2. Read(area, 0, 1) = 1
    BY <1>2, <1>4
  <2> QED
    BY <2>1, <2>2 DEF read_method
<1>5. CASE v = <<MethodCases[3][1], <<>>>>
  <2>1. v = <<"Post", <<>>>>
    BY <1>5, MethodNames
  <2>2. Read(area, 0, 1) = 2
    BY <1>2, <1>5
  <2> QED
    BY <2>1, <2>2 DEF read_method
<1>6. CASE v = <<MethodCases[4][1], <<>>>>
  <2>1. v = <<"Put", <<>>>>
    BY <1>6, MethodNames
  <2>2. Read(area, 0, 1) = 3
    BY <1>2, <1>6
  <2> QED
    BY <2>1, <2>2 DEF read_method
<1>7. CASE v = <<MethodCases[5][1], <<>>>>
  <2>1. v = <<"Delete", <<>>>>
    BY <1>7, MethodNames
  <2>2. Read(area, 0, 1) = 4
    BY <1>2, <1>7
  <2> QED
    BY <2>1, <2>2 DEF read_method
<1>8. CASE v = <<MethodCases[6][1], <<>>>>
  <2>1. v = <<"Connect", <<>>>>
    BY <1>8, MethodNames
  <2>2. Read(area, 0, 1) = 5
    BY <1>2, <1>8
  <2> QED
    BY <2>1, <2>2 DEF read_method
<1>9. CASE v = <<MethodCases[7][1], <<>>>>
  <2>1. v = <<"Options", <<>>>>
    BY <1>9, MethodNames
  <2>2. Read(area, 0, 1) = 6
    BY <1>2, <1>9
  <2> QED
    BY <2>1, <2>2 DEF read_method
<1>10. CASE v = <<MethodCases[8][1], <<>>>>
  <2>1. v = <<"Trace", <<>>>>
    BY <1>10, MethodNames
  <2>2. Read(area, 0, 1) = 7
    BY <1>2, <1>10
  <2> QED
    BY <2>1, <2>2 DEF read_method
<1>11. CASE v = <<MethodCases[9][1], <<>>>>
  <2>1. v = <<"Patch", <<>>>>
    BY <1>11, MethodNames
  <2>2. Read(area, 0, 1) = 8
    BY <1>2, <1>11
  <2> QED
    BY <2>1, <2>2 DEF read_method
<1>12. ASSUME NEW t \in Texts, v = <<MethodCases[10][1], t>>  PROVE read_method(area) = v
  <2>1. PICK b \in Nat : b = 0
    OBVIOUS
  <2>2. PICK n : n = 10 /\ LastIsText(MethodCases, n)
    BY MethodIs
  <2>3. Holds(area, Variant(MethodCases), <<MethodCases[n][1], t>>, b)
    BY <1>1, <1>12, <2>1, <2>2, MethodIs
  <2>4. Read(area, b, 1) = n - 1 /\ read_string(area, b + 4) = t
    BY <2>2, <2>3, NamedHolds
  <2>5. Read(area, 0, 1) = 9 /\ read_string(area, 4) = t
    BY <2>1, <2>2, <2>4
  <2>6. v = <<"Other", t>>
    BY <1>12, MethodNames
  <2> QED
    BY <2>5, <2>6 DEF read_method
<1>13. \/ \E i \in 1 .. 9 : v = <<MethodCases[i][1], <<>>>>
       \/ \E t \in Texts : v = <<MethodCases[10][1], t>>
  <2>1. \/ \E i \in 1 .. 10 - 1 : v = <<MethodCases[i][1], <<>>>>
        \/ \E t \in Texts : v = <<MethodCases[10][1], t>>
    BY MethodIs, NamedValue
  <2> QED
    BY <2>1
<1>14. \A i \in 1 .. 9 : \/ i = 1 \/ i = 2 \/ i = 3 \/ i = 4 \/ i = 5
                         \/ i = 6 \/ i = 7 \/ i = 8 \/ i = 9
  OBVIOUS
<1> QED
  BY <1>3, <1>4, <1>5, <1>6, <1>7, <1>8, <1>9, <1>10, <1>11, <1>12, <1>13, <1>14

LEMMA SchemeValue ==
  ASSUME NEW v \in Scheme.values
  PROVE  \/ v = <<"Http", <<>>>> \/ v = <<"Https", <<>>>> \/ \E t \in Texts : v = <<"Other", t>>
<1>1. \/ \E i \in 1 .. 3 - 1 : v = <<SchemeCases[i][1], <<>>>>
      \/ \E t \in Texts : v = <<SchemeCases[3][1], t>>
  BY SchemeIs, NamedValue
<1>2. \A i \in 1 .. 3 - 1 : i = 1 \/ i = 2
  OBVIOUS
<1> QED
  BY <1>1, <1>2, SchemeIs

LEMMA SchemeRead ==
  ASSUME NEW v \in Scheme.values, NEW area, NEW b \in Nat, Holds(area, Scheme, v, b),
         NEW s, s = CASE Read(area, b, 1) = 0 -> <<"Http", <<>>>>
                      [] Read(area, b, 1) = 1 -> <<"Https", <<>>>>
                      [] OTHER -> <<"Other", read_string(area, b + 4)>>
  PROVE  v = s
<1>0. ASSUME NEW i \in 1 .. 3 - 1, Holds(area, Variant(SchemeCases), <<SchemeCases[i][1], <<>>>>, b)
      PROVE  Read(area, b, 1) = i - 1
  BY <1>0, SchemeIs, NamedHolds
<1>1. CASE v = <<"Http", <<>>>>
  <2>1. Holds(area, Variant(SchemeCases), <<SchemeCases[1][1], <<>>>>, b) /\ 1 \in 1 .. 3 - 1
    BY <1>1, SchemeIs
  <2>2. Read(area, b, 1) = 0
    BY <1>0, <2>1
  <2> QED
    BY <1>1, <2>2
<1>2. CASE v = <<"Https", <<>>>>
  <2>1. Holds(area, Variant(SchemeCases), <<SchemeCases[2][1], <<>>>>, b) /\ 2 \in 1 .. 3 - 1
    BY <1>2, SchemeIs
  <2>2. Read(area, b, 1) = 1
    BY <1>0, <2>1
  <2> QED
    BY <1>2, <2>2
<1>3. ASSUME NEW t \in Texts, v = <<"Other", t>>  PROVE v = s
  <2>1. Holds(area, Variant(SchemeCases), <<SchemeCases[3][1], t>>, b)
    BY <1>3, SchemeIs
  <2>2. Read(area, b, 1) = 3 - 1 /\ read_string(area, b + 4) = t
    BY <2>1, SchemeIs, NamedHolds
  <2>3. Read(area, b, 1) = 2
    BY <2>2
  <2> QED
    BY <1>3, <2>2, <2>3
<1>4. \/ v = <<"Http", <<>>>> \/ v = <<"Https", <<>>>> \/ \E t \in Texts : v = <<"Other", t>>
  BY SchemeValue
<1> QED
  BY <1>1, <1>2, <1>3, <1>4

LEMMA OptionSchemeRead ==
  ASSUME NEW v \in OptionOf(Scheme).values
  PROVE  read_option_scheme(Store(OptionOf(Scheme), v, 0)) = v
<1> DEFINE area == Store(OptionOf(Scheme), v, 0)
           s == CASE Read(area, 4, 1) = 0 -> <<"Http", <<>>>>
                  [] Read(area, 4, 1) = 1 -> <<"Https", <<>>>>
                  [] OTHER -> <<"Other", read_string(area, 8)>>
<1>1. IsLayout(Scheme) /\ Scheme.align = 4
  BY SchemeIs, NamedLayout
<1>2. Holds(area, OptionOf(Scheme), v, 0)
  BY <1>1, OptionLayout, StoreHolds
<1> HIDE DEF area
<1>3. ASSUME NEW x \in Scheme.values, Holds(area, Scheme, x, 0 + Scheme.align)  PROVE s = x
  <2>1. Holds(area, Scheme, x, 4) /\ 4 \in Nat
    BY <1>1, <1>3
  <2>2. s = CASE Read(area, 4, 1) = 0 -> <<"Http", <<>>>>
              [] Read(area, 4, 1) = 1 -> <<"Https", <<>>>>
              [] OTHER -> <<"Other", read_string(area, 4 + 4)>>
    OBVIOUS
  <2> HIDE DEF s
  <2> QED
    BY <2>1, <2>2, SchemeRead
<1> HIDE DEF s
<1>4. read_option(Read(area, 0, 1), s) = v
  BY <1>1, <1>2, <1>3, OptionRead
<1> QED
  BY <1>4 DEF read_option_scheme, area, s

LEMMA OptionTextRead ==
  ASSUME NEW v \in OptionOf(Text).values
  PROVE  read_option_string(Store(OptionOf(Text), v, 0)) = v
<1> DEFINE area == Store(OptionOf(Text), v, 0)
           s == read_string(area, 4)
<1>1. IsLayout(Text) /\ Text.align = 4 /\ Text.values = Texts
  BY TextLayout DEF Text
<1>2. Holds(area, OptionOf(Text), v, 0)
  BY <1>1, OptionLayout, StoreHolds
<1> HIDE DEF area
<1>3. ASSUME NEW x \in Text.values, Holds(area, Text, x, 0 + Text.align)  PROVE s = x
  <2>1. Holds(area, Text, x, 4) /\ 4 \in Nat
    BY <1>1, <1>3
  <2> QED
    BY <1>1, <2>1, HoldsText
<1> HIDE DEF s
<1>4. read_option(Read(area, 0, 1), s) = v
  BY <1>1, <1>2, <1>3, OptionRead
<1> QED
  BY <1>4 DEF read_option_string, area, s

LEMMA OptionDurationRead ==
  ASSUME NEW v \in OptionOf(Duration).values
  PROVE  read_duration(Store(OptionOf(Duration), v, 0)) = v
<1> DEFINE area == Store(OptionOf(Duration), v, 0)
           s == as_u64(as_i64(Read(area, 8, 8)))
<1>1. IsLayout(Duration) /\ Duration.align = 8 /\ Duration.values = Numbers(8)
  BY NumberLayout DEF Duration, Number
<1>2. Holds(area, OptionOf(Duration), v, 0)
  BY <1>1, OptionLayout, StoreHolds
<1> HIDE DEF area
<1>3. ASSUME NEW x \in Duration.values, Holds(area, Duration, x, 0 + Duration.align)
      PROVE  s = x
  <2>1. Holds(area, Number(8), x, 8) /\ 8 \in Nat
    BY <1>1, <1>3 DEF Duration
  <2>2. Read(area, 8, 8) = x
    BY <1>1, <2>1, HoldsNumber
  <2>3. x \in Nat /\ x < W64
    BY <1>1, NumberIs DEF Values
  <2> QED
    BY <2>2, <2>3, Cast64
<1> HIDE DEF s
<1>4. read_option(Read(area, 0, 1), s) = v
  BY <1>1, <1>2, <1>3, OptionRead
<1> QED
  BY <1>4 DEF read_duration, area, s

LEMMA DatetimeRead ==
  ASSUME NEW v \in Datetime.values
  PROVE  datetime_at(v) = v
<1> DEFINE area == Store(Datetime, v, 0)
<1>1. /\ IsLayout(Number(8)) /\ Number(8).size = 8 /\ Number(8).align = 8
      /\ IsLayout(Number(4)) /\ Number(4).align = 4
      /\ Number(8).values = Numbers(8) /\ Number(4).values = Numbers(4)
  BY NumberLayout DEF Number
<1>2. SecondAt(Number(8), Number(4)) = 8
  BY <1>1 DEF SecondAt, RoundUp
<1>3. Holds(area, Datetime, v, 0)
  BY <1>1, PairLayout, StoreHolds DEF Datetime
<1>4. v = <<v[1], v[2]>> /\ v[1] \in Numbers(8) /\ v[2] \in Numbers(4)
  BY <1>1, PairParts DEF Datetime
<1> HIDE DEF area
<1>5. Holds(area, Number(8), v[1], 0) /\ Holds(area, Number(4), v[2], 0 + 8)
  BY <1>1, <1>2, <1>3, HoldsPair DEF Datetime
<1>6. Read(area, 0, 8) = v[1] /\ Read(area, 8, 4) = v[2]
  BY <1>4, <1>5, HoldsNumber
<1>7. v[1] \in Nat /\ v[1] < W64 /\ v[2] \in Nat /\ v[2] < W32
  BY <1>4, NumberIs DEF Values
<1>8. as_u64(as_i64(v[1])) = v[1] /\ as_i32(v[2]) % W32 = v[2]
  BY <1>7, Cast64, Cast32
<1> QED
  BY <1>4, <1>6, <1>8 DEF datetime_at, read_datetime, area

LEMMA StringRead ==
  ASSUME NEW t \in Text.values
  PROVE  string_at(t) = t
<1>1. IsLayout(Text) /\ Text.values = Texts
  BY TextLayout DEF Text
<1>2. Holds(Store(Text, t, 0), Text, t, 0)
  BY <1>1, StoreHolds
<1> QED
  BY <1>1, <1>2, HoldsText DEF string_at

-----------------------------------------------------------------------------
(* What the host takes the words of a setter for.                           *)
LEMMA FirstWord ==
  ASSUME NEW n \in Nat, n < 65536, NEW words, words[1] = n
  PROVE  words[0 + 1] % W32 = n
BY SmallFits

LEMMA MethodWritten ==
  ASSUME NEW v \in Method.values
  PROVE  LiftFlat(Method, write_method(v)) = v
<1>1. IsFlat(Method)
  BY MethodIs, NamedLayout
<1>2. ASSUME NEW i \in 1 .. 9, v = <<MethodCases[i][1], <<>>>>, NEW words,
             words[1] = i - 1
      PROVE  LiftFlat(Method, words) = v
  <2>1. words[0 + 1] % W32 = i - 1
    <3>1. PICK n \in Nat : n = i - 1 /\ n < 65536
      OBVIOUS
    <3>2. words[1] = n
      BY <1>2, <3>1
    <3>3. words[0 + 1] % W32 = n
      BY <3>1, <3>2, FirstWord
    <3> QED
      BY <3>1, <3>3
  <2>2. i \in 1 .. 10 - 1 /\ 0 \in Nat
    OBVIOUS
  <2>3. TakesAt(Variant(MethodCases), <<MethodCases[i][1], <<>>>>, words, 0)
    BY <2>1, <2>2, MethodIs, NamedTakes
  <2>4. TakesAt(Method, v, words, 0)
    BY <1>2, <2>3, MethodIs
  <2> QED
    BY <1>1, <2>4, Lifted
<1>3. CASE v = <<MethodCases[1][1], <<>>>>
  <2>1. v = <<"Get", <<>>>>
    BY <1>3, MethodNames
  <2>2. write_method(v) = <<0, 0, 0>>
    BY <2>1 DEF write_method
  <2>3. write_method(v)[1] = 1 - 1
    BY <2>2
  <2> QED
    BY <1>2, <1>3, <2>3
<1>4. CASE v = <<MethodCases[2][1], <<>>>>
  <2>1. v = <<"Head", <<>>>>
    BY <1>4, MethodNames
  <2>2. write_method(v) = <<1, 0, 0>>
    BY <2>1 DEF write_method
  <2>3. write_method(v)[1] = 2 - 1
    BY <2>2
  <2> QED
    BY <1>2, <1>4, <2>3
<1>5. CASE v = <<MethodCases[3][1], <<>>>>
  <2>1. v = <<"Post", <<>>>>
    BY <1>5, MethodNames
  <2>2. write_method(v) = <<2, 0, 0>>
    BY <2>1 DEF write_method
  <2>3. write_method(v)[1] = 3 - 1
    BY <2>2
  <2> QED
    BY <1>2, <1>5, <2>3
<1>6. CASE v = <<MethodCases[4][1], <<>>>>
  <2>1. v = <<"Put", <<>>>>
    BY <1>6, MethodNames
  <2>2. write_method(v) = <<3, 0, 0>>
    BY <2>1 DEF write_method
  <2>3. write_method(v)[1] = 4 - 1
    BY <2>2
  <2> QED
    BY <1>2, <1>6, <2>3
<1>7. CASE v = <<MethodCases[5][1], <<>>>>
  <2>1. v = <<"Delete", <<>>>>
    BY <1>7, MethodNames
  <2>2. write_method(v) = <<4, 0, 0>>
    BY <2>1 DEF write_method
  <2>3. write_method(v)[1] = 5 - 1
    BY <2>2
  <2> QED
    BY <1>2, <1>7, <2>3
<1>8. CASE v = <<MethodCases[6][1], <<>>>>
  <2>1. v = <<"Connect", <<>>>>
    BY <1>8, MethodNames
  <2>2. write_method(v) = <<5, 0, 0>>
    BY <2>1 DEF write_method
  <2>3. write_method(v)[1] = 6 - 1
    BY <2>2
  <2> QED
    BY <1>2, <1>8, <2>3
<1>9. CASE v = <<MethodCases[7][1], <<>>>>
  <2>1. v = <<"Options", <<>>>>
    BY <1>9, MethodNames
  <2>2. write_method(v) = <<6, 0, 0>>
    BY <2>1 DEF write_method
  <2>3. write_method(v)[1] = 7 - 1
    BY <2>2
  <2> QED
    BY <1>2, <1>9, <2>3
<1>10. CASE v = <<MethodCases[8][1], <<>>>>
  <2>1. v = <<"Trace", <<>>>>
    BY <1>10, MethodNames
  <2>2. write_method(v) = <<7, 0, 0>>
    BY <2>1 DEF write_method
  <2>3. write_method(v)[1] = 8 - 1
    BY <2>2
  <2> QED
    BY <1>2, <1>10, <2>3
<1>11. CASE v = <<MethodCases[9][1], <<>>>>
  <2>1. v = <<"Patch", <<>>>>
    BY <1>11, MethodNames
  <2>2. write_method(v) = <<8, 0, 0>>
    BY <2>1 DEF write_method
  <2>3. write_method(v)[1] = 9 - 1
    BY <2>2
  <2> QED
    BY <1>2, <1>11, <2>3
<1>12. ASSUME NEW t \in Texts, v = <<MethodCases[10][1], t>>
       PROVE  LiftFlat(Method, write_method(v)) = v
  <2> DEFINE words == write_method(v)
  <2>1. v = <<"Other", t>>
    BY <1>12, MethodNames
  <2>2. words = <<9, t, TextLen(t)>>
    BY <2>1 DEF write_method
  <2>3. words[1] = 9 /\ words[2] = t /\ words[3] = TextLen(t)
    BY <2>2
  <2> HIDE DEF words
  <2>4. /\ words[0 + 1] % W32 = 10 - 1
        /\ words[0 + 2] % W32 = t /\ words[0 + 3] % W32 = TextLen(t)
    <3>1. words[0 + 1] % W32 = 9
      BY <2>3, FirstWord
    <3> QED
      BY <2>3, <3>1, TextIs
  <2>5. TakesAt(Variant(MethodCases), <<MethodCases[10][1], t>>, words, 0)
    BY <2>4, MethodIs, NamedTakes
  <2>6. TakesAt(Method, v, words, 0)
    BY <1>12, <2>5, MethodIs
  <2>7. LiftFlat(Method, words) = v
    BY <1>1, <2>6, Lifted
  <2> QED
    BY <2>7 DEF words
<1>13. \/ \E i \in 1 .. 9 : v = <<MethodCases[i][1], <<>>>>
       \/ \E t \in Texts : v = <<MethodCases[10][1], t>>
  <2>1. \/ \E i \in 1 .. 10 - 1 : v = <<MethodCases[i][1], <<>>>>
        \/ \E t \in Texts : v = <<MethodCases[10][1], t>>
    BY MethodIs, NamedValue
  <2> QED
    BY <2>1
<1>14. \A i \in 1 .. 9 : \/ i = 1 \/ i = 2 \/ i = 3 \/ i = 4 \/ i = 5
                         \/ i = 6 \/ i = 7 \/ i = 8 \/ i = 9
  OBVIOUS
<1> QED
  BY <1>3, <1>4, <1>5, <1>6, <1>7, <1>8, <1>9, <1>10, <1>11, <1>12, <1>13, <1>14

LEMMA OptionTextTakes ==
  ASSUME NEW words, NEW k \in Nat
  PROVE  /\ words[k + 1] % W32 = 0 => TakesAt(OptionOf(Text), None, words, k)
         /\ \A t \in Texts :
              /\ words[k + 1] % W32 = 1
              /\ words[k + 2] % W32 = t /\ words[k + 3] % W32 = TextLen(t)
              => TakesAt(OptionOf(Text), Some(t), words, k)
<1>1. Text.values = Texts
  BY DEF Text
<1>2. ASSUME NEW t \in Texts, words[k + 1] % W32 = 1,
             words[k + 2] % W32 = t, words[k + 3] % W32 = TextLen(t)
      PROVE  TakesAt(OptionOf(Text), Some(t), words, k)
  <2>1. k + 1 \in Nat /\ (k + 1) + 1 = k + 2 /\ (k + 1) + 2 = k + 3
    OBVIOUS
  <2>2. TakesAt(Text, t, words, k + 1)
    BY <1>2, <2>1, TextTakes
  <2> QED
    BY <1>1, <1>2, <2>2, TextLayout, TextTakes, OptionTakes
<1>3. ASSUME words[k + 1] % W32 = 0  PROVE TakesAt(OptionOf(Text), None, words, k)
  BY <1>3, TextLayout, TextTakes, OptionTakes
<1> QED
  BY <1>2, <1>3

LEMMA OptionNumberTakes ==
  ASSUME NEW n \in {1, 2, 4, 8}, NEW words, NEW k \in Nat
  PROVE  /\ words[k + 1] % W32 = 0 => TakesAt(OptionOf(Number(n)), None, words, k)
         /\ \A x \in Numbers(n) :
              words[k + 1] % W32 = 1 /\ words[k + 2] % Values(n) = x
              => TakesAt(OptionOf(Number(n)), Some(x), words, k)
<1>1. Number(n).values = Numbers(n)
  BY DEF Number
<1>2. ASSUME NEW x \in Numbers(n), words[k + 1] % W32 = 1, words[k + 2] % Values(n) = x
      PROVE  TakesAt(OptionOf(Number(n)), Some(x), words, k)
  <2>1. k + 1 \in Nat /\ (k + 1) + 1 = k + 2
    OBVIOUS
  <2>2. TakesAt(Number(n), x, words, k + 1)
    BY <1>2, <2>1, NumberTakes
  <2> QED
    BY <1>1, <1>2, <2>2, NumberLayout, NumberTakes, OptionTakes
<1>3. ASSUME words[k + 1] % W32 = 0  PROVE TakesAt(OptionOf(Number(n)), None, words, k)
  BY <1>3, NumberLayout, NumberTakes, OptionTakes
<1> QED
  BY <1>2, <1>3

LEMMA SchemeTakes ==
  ASSUME NEW s \in Scheme.values, NEW words, NEW k \in Nat,
         NEW a, NEW b, NEW c, write_scheme(s) = <<a, b, c>>,
         words[k + 1] = a, words[k + 2] = b, words[k + 3] = c
  PROVE  TakesAt(Scheme, s, words, k)
<1>1. /\ 0 % W32 = 0 /\ 1 % W32 = 1 /\ 2 % W32 = 2
  BY SmallFits
<1>2. \A i \in 1 .. 3 - 1 : words[k + 1] % W32 = i - 1
              => TakesAt(Variant(SchemeCases), <<SchemeCases[i][1], <<>>>>, words, k)
  BY SchemeIs, NamedTakes
<1>3. CASE s = <<"Http", <<>>>>
  <2>1. write_scheme(s) = <<0, 0, 0>>
    BY <1>3 DEF write_scheme
  <2>2. words[k + 1] % W32 = 0
    BY <1>1, <2>1
  <2> QED
    BY <1>2, <1>3, <2>2, SchemeIs
<1>4. CASE s = <<"Https", <<>>>>
  <2>1. write_scheme(s) = <<1, 0, 0>>
    BY <1>4 DEF write_scheme
  <2>2. words[k + 1] % W32 = 1
    BY <1>1, <2>1
  <2> QED
    BY <1>2, <1>4, <2>2, SchemeIs
<1>5. ASSUME NEW t \in Texts, s = <<"Other", t>>  PROVE TakesAt(Scheme, s, words, k)
  <2>1. write_scheme(s) = <<2, t, TextLen(t)>>
    BY <1>5 DEF write_scheme
  <2>2. /\ words[k + 1] % W32 = 2
        /\ words[k + 2] % W32 = t /\ words[k + 3] % W32 = TextLen(t)
    BY <1>1, <2>1, TextIs
  <2>3. PICK n \in Nat : n = 3 /\ LastIsText(SchemeCases, n)
    BY SchemeIs
  <2>4. words[k + 1] % W32 = n - 1
    BY <2>2, <2>3
  <2>5. TakesAt(Variant(SchemeCases), <<SchemeCases[n][1], t>>, words, k)
    BY <2>2, <2>3, <2>4, NamedTakes
  <2> QED
    BY <1>5, <2>3, <2>5, SchemeIs
<1> QED
  BY <1>3, <1>4, <1>5, SchemeValue

LEMMA OptionSchemeWritten ==
  ASSUME NEW v \in OptionOf(Scheme).values
  PROVE  LiftFlat(OptionOf(Scheme), write_option_scheme(v)) = v
<1>1. IsLayout(Scheme) /\ IsFlat(Scheme)
  BY SchemeIs, NamedLayout
<1>2. IsFlat(OptionOf(Scheme))
  BY <1>1, OptionTakes
<1>3. CASE v = None
  <2> SUFFICES ASSUME NEW words, words = write_option_scheme(v)
               PROVE  LiftFlat(OptionOf(Scheme), words) = v
    OBVIOUS
  <2>1. words = <<0, 0, 0, 0>>
    BY <1>3 DEF write_option_scheme
  <2>2. words[0 + 1] % W32 = 0
    BY <2>1, FirstWord
  <2>3. TakesAt(OptionOf(Scheme), v, words, 0)
    BY <1>1, <1>3, <2>2, OptionTakes
  <2> QED
    BY <1>2, <2>3, Lifted
<1>4. ASSUME NEW s \in Scheme.values, v = Some(s)
      PROVE  LiftFlat(OptionOf(Scheme), write_option_scheme(v)) = v
  <2> SUFFICES ASSUME NEW words, words = write_option_scheme(v)
               PROVE  LiftFlat(OptionOf(Scheme), words) = v
    OBVIOUS
  <2>1. v # None /\ v[2] = s
    BY <1>4 DEF None, Some
  <2>2. words = <<1>> \o write_scheme(s)
    BY <2>1 DEF write_option_scheme
  <2>3. PICK a, b, c : write_scheme(s) = <<a, b, c>>
    BY DEF write_scheme
  <2>4. words[1] = 1 /\ words[2] = a /\ words[3] = b /\ words[4] = c
    BY <2>2, <2>3
  <2>5. PICK k \in Nat : k = 0
    OBVIOUS
  <2>6. words[k + 1] % W32 = 1
    BY <2>4, <2>5, FirstWord
  <2>7. /\ (k + 1) + 1 = 2 /\ (k + 1) + 2 = 3 /\ (k + 1) + 3 = 4 /\ k + 1 \in Nat
    BY <2>5
  <2>8. TakesAt(Scheme, s, words, k + 1)
    BY <2>3, <2>4, <2>7, SchemeTakes
  <2>9. TakesAt(OptionOf(Scheme), v, words, k)
    BY <1>1, <1>4, <2>6, <2>8, OptionTakes
  <2> QED
    BY <1>2, <2>5, <2>9, Lifted
<1> QED
  BY <1>3, <1>4, OptionValue

LEMMA OptionTextWritten ==
  ASSUME NEW v \in OptionOf(Text).values
  PROVE  LiftFlat(OptionOf(Text), write_option_string(v)) = v
<1> SUFFICES ASSUME NEW words, words = write_option_string(v)
             PROVE  LiftFlat(OptionOf(Text), words) = v
  OBVIOUS
<1>1. IsFlat(OptionOf(Text)) /\ Text.values = Texts
  BY TextLayout, TextTakes, OptionTakes DEF Text
<1>2. PICK k \in Nat : k = 0
  OBVIOUS
<1>3. CASE v = None
  <2>1. words = <<0, 0, 0>>
    BY <1>3 DEF write_option_string
  <2>2. words[k + 1] % W32 = 0
    BY <1>2, <2>1, FirstWord
  <2>3. TakesAt(OptionOf(Text), v, words, k)
    BY <1>3, <2>2, OptionTextTakes
  <2> QED
    BY <1>1, <1>2, <2>3, Lifted
<1>4. ASSUME NEW t \in Texts, v = Some(t)  PROVE LiftFlat(OptionOf(Text), words) = v
  <2>1. v # None /\ v[2] = t
    BY <1>4 DEF None, Some
  <2>2. words = <<1, t, TextLen(t)>>
    BY <2>1 DEF write_option_string
  <2>3. words[k + 1] = 1 /\ words[k + 2] = t /\ words[k + 3] = TextLen(t)
    BY <1>2, <2>2
  <2>4. 1 % W32 = 1 /\ t % W32 = t /\ TextLen(t) % W32 = TextLen(t)
    BY SmallFits, TextIs
  <2>5. TakesAt(OptionOf(Text), v, words, k)
    BY <1>4, <2>3, <2>4, OptionTextTakes
  <2> QED
    BY <1>1, <1>2, <2>5, Lifted
<1> QED
  BY <1>1, <1>3, <1>4, OptionValue

LEMMA DurationWritten ==
  ASSUME NEW v \in OptionOf(Duration).values
  PROVE  LiftFlat(OptionOf(Duration), write_duration(v)) = v
<1> SUFFICES ASSUME NEW words, words = write_duration(v)
             PROVE  LiftFlat(OptionOf(Duration), words) = v
  OBVIOUS
<1>1. IsFlat(OptionOf(Duration)) /\ Duration.values = Numbers(8)
  BY NumberLayout, NumberTakes, OptionTakes DEF Duration, Number
<1>2. PICK k \in Nat : k = 0
  OBVIOUS
<1>3. CASE v = None
  <2>1. words = <<0, 0>>
    BY <1>3 DEF write_duration
  <2>2. words[k + 1] % W32 = 0
    BY <1>2, <2>1, FirstWord
  <2>3. TakesAt(OptionOf(Duration), v, words, k)
    BY <1>3, <2>2, OptionNumberTakes DEF Duration
  <2> QED
    BY <1>1, <1>2, <2>3, Lifted
<1>4. ASSUME NEW x \in Numbers(8), v = Some(x)  PROVE LiftFlat(OptionOf(Duration), words) = v
  <2>1. v # None /\ v[2] = x
    BY <1>4 DEF None, Some
  <2>2. words = <<1, as_i64(x)>>
    BY <2>1 DEF write_duration
  <2>3. words[k + 1] = 1 /\ words[k + 2] = as_i64(x)
    BY <1>2, <2>2
  <2>4. x \in Nat /\ x < W64 /\ Values(8) = W64
    BY NumberIs DEF Values
  <2>5. 1 % W32 = 1 /\ as_i64(x) % Values(8) = x
    BY <2>4, SmallFits, Cast64
  <2>6. words[k + 1] % W32 = 1 /\ words[k + 2] % Values(8) = x
    BY <2>3, <2>5
  <2>7. TakesAt(OptionOf(Duration), v, words, k)
    BY <1>4, <2>6, OptionNumberTakes DEF Duration
  <2> QED
    BY <1>1, <1>2, <2>7, Lifted
<1> QED
  BY <1>1, <1>3, <1>4, OptionValue

LEMMA StatusWritten ==
  ASSUME NEW c \in StatusCode.values
  PROVE  as_u16(c) = c /\ LiftFlat(StatusCode, <<as_i32(c)>>) = c
<1> SUFFICES ASSUME NEW words, words = <<as_i32(c)>>
             PROVE  as_u16(c) = c /\ LiftFlat(StatusCode, words) = c
  OBVIOUS
<1>1. IsFlat(StatusCode) /\ StatusCode.values = Numbers(2)
  BY NumberTakes DEF StatusCode, Number
<1>2. c \in Nat /\ c < 65536 /\ Values(2) = 65536 /\ c % 65536 = c
  BY <1>1, NumberIs DEF Values
<1>3. words[1] = c
  BY <1>2, SmallFits
<1>4. PICK k \in Nat : k = 0
  OBVIOUS
<1>5. words[k + 1] % Values(2) = c
  BY <1>2, <1>3, <1>4
<1>6. TakesAt(StatusCode, c, words, k)
  BY <1>1, <1>5, NumberTakes DEF StatusCode
<1> QED
  BY <1>1, <1>2, <1>4, <1>6, Lifted DEF as_u16

-----------------------------------------------------------------------------
(* Attributes. The host holds what the program set, of the right type; only *)
(* the 200 a response starts with need not be a number the program uses.    *)
Attributes == {"method", "path_with_query", "scheme", "authority", "status_code",
               "connect_timeout", "first_byte_timeout", "between_bytes_timeout"}

AttributeValues(a) == TypeOf[a].values \cup (IF a = "status_code" THEN {200} ELSE {})

AttributesInv ==
  /\ head \in Heads
  /\ DOMAIN attrs = Attributes /\ \A a \in Attributes : attrs[a] \in AttributeValues(a)
  /\ HostHoldsWhatWasSet /\ GettersAgree

LEMMA TypesOfAttributes ==
  /\ DOMAIN TypeOf = Attributes
  /\ TypeOf.method = Method /\ TypeOf.path_with_query = OptionOf(Text)
  /\ TypeOf.scheme = OptionOf(Scheme) /\ TypeOf.authority = OptionOf(Text)
  /\ TypeOf.status_code = StatusCode /\ TypeOf.connect_timeout = OptionOf(Duration)
  /\ TypeOf.first_byte_timeout = OptionOf(Duration)
  /\ TypeOf.between_bytes_timeout = OptionOf(Duration)
BY DEF TypeOf, Attributes

(* A getter: the answer is what the host meant, and nothing else changes.   *)
AnswerFits == answer'.value = answer'.meant /\ UNCHANGED <<head, attrs, asked>>

LEMMA U64Read ==
  ASSUME NEW n \in Number(8).values
  PROVE  u64_of_i64(n) = n
<1>1. n \in Numbers(8)
  BY DEF Number
<1>2. n \in Nat /\ n < W64
  BY <1>1, NumberIs DEF Values
<1> QED
  BY <1>2, Cast64 DEF u64_of_i64

LEMMA HeldValues ==
  ASSUME AttributesInv
  PROVE  /\ head.method \in Method.values /\ attrs.method \in Method.values
         /\ head.path_with_query \in OptionOf(Text).values
         /\ attrs.path_with_query \in OptionOf(Text).values
         /\ head.scheme \in OptionOf(Scheme).values /\ attrs.scheme \in OptionOf(Scheme).values
         /\ head.authority \in OptionOf(Text).values /\ attrs.authority \in OptionOf(Text).values
         /\ attrs.connect_timeout \in OptionOf(Duration).values
         /\ attrs.first_byte_timeout \in OptionOf(Duration).values
         /\ attrs.between_bytes_timeout \in OptionOf(Duration).values
         /\ head.status_code \in StatusCode.values
         /\ as_u16(head.status_code) = head.status_code
         /\ as_u16(attrs.status_code) = attrs.status_code
<1>1. \A a \in {"method", "path_with_query", "scheme", "authority", "status_code"} :
        head[a] \in TypeOf[a].values
  BY HeadsAssumption DEF AttributesInv
<1>2. \A a \in Attributes : attrs[a] \in AttributeValues(a)
  BY DEF AttributesInv
<1>3. \A a \in Attributes : a # "status_code" => attrs[a] \in TypeOf[a].values
  BY <1>2 DEF AttributeValues
<1>4. attrs.status_code \in StatusCode.values \cup {200}
  BY <1>2, TypesOfAttributes DEF AttributeValues, Attributes
<1>5. as_u16(200) = 200
  BY DEF as_u16
<1>6. \A c \in StatusCode.values : as_u16(c) = c
  BY StatusWritten
<1>7. head.status_code \in StatusCode.values
  BY <1>1, TypesOfAttributes
<1>8. /\ as_u16(head.status_code) = head.status_code
      /\ as_u16(attrs.status_code) = attrs.status_code
  BY <1>4, <1>5, <1>6, <1>7
<1>9. /\ head.method \in Method.values /\ head.path_with_query \in OptionOf(Text).values
      /\ head.scheme \in OptionOf(Scheme).values /\ head.authority \in OptionOf(Text).values
  BY <1>1, TypesOfAttributes
<1>10. /\ attrs.method \in Method.values /\ attrs.path_with_query \in OptionOf(Text).values
       /\ attrs.scheme \in OptionOf(Scheme).values /\ attrs.authority \in OptionOf(Text).values
  BY <1>3, TypesOfAttributes DEF Attributes
<1>11. /\ attrs.connect_timeout \in OptionOf(Duration).values
       /\ attrs.first_byte_timeout \in OptionOf(Duration).values
       /\ attrs.between_bytes_timeout \in OptionOf(Duration).values
  BY <1>3, TypesOfAttributes DEF Attributes
<1> QED
  BY <1>7, <1>8, <1>9, <1>10, <1>11

LEMMA GettersFit ==
  ASSUME AttributesInv, Getter
  PROVE  AnswerFits
<1>0. /\ TypeOf.method = Method /\ TypeOf.path_with_query = OptionOf(Text)
      /\ TypeOf.scheme = OptionOf(Scheme) /\ TypeOf.authority = OptionOf(Text)
      /\ TypeOf.connect_timeout = OptionOf(Duration)
      /\ TypeOf.first_byte_timeout = OptionOf(Duration)
      /\ TypeOf.between_bytes_timeout = OptionOf(Duration)
      /\ head.method \in Method.values /\ attrs.method \in Method.values
      /\ head.path_with_query \in OptionOf(Text).values
      /\ attrs.path_with_query \in OptionOf(Text).values
      /\ head.scheme \in OptionOf(Scheme).values /\ attrs.scheme \in OptionOf(Scheme).values
      /\ head.authority \in OptionOf(Text).values /\ attrs.authority \in OptionOf(Text).values
      /\ attrs.connect_timeout \in OptionOf(Duration).values
      /\ attrs.first_byte_timeout \in OptionOf(Duration).values
      /\ attrs.between_bytes_timeout \in OptionOf(Duration).values
      /\ as_u16(head.status_code) = head.status_code
      /\ as_u16(attrs.status_code) = attrs.status_code
  BY TypesOfAttributes, HeldValues
<1>1. CASE IncomingRequest_method
  BY <1>0, <1>1, MethodRead DEF IncomingRequest_method, Get, AnswerFits
<1>2. CASE IncomingRequest_path_with_query
  BY <1>0, <1>2, OptionTextRead DEF IncomingRequest_path_with_query, Get, AnswerFits
<1>3. CASE IncomingRequest_scheme
  BY <1>0, <1>3, OptionSchemeRead DEF IncomingRequest_scheme, Get, AnswerFits
<1>4. CASE IncomingRequest_authority
  BY <1>0, <1>4, OptionTextRead DEF IncomingRequest_authority, Get, AnswerFits
<1>5. CASE OutgoingRequest_method
  BY <1>0, <1>5, MethodRead DEF OutgoingRequest_method, Get, AnswerFits
<1>6. CASE OutgoingRequest_path_with_query
  BY <1>0, <1>6, OptionTextRead DEF OutgoingRequest_path_with_query, Get, AnswerFits
<1>7. CASE OutgoingRequest_scheme
  BY <1>0, <1>7, OptionSchemeRead DEF OutgoingRequest_scheme, Get, AnswerFits
<1>8. CASE OutgoingRequest_authority
  BY <1>0, <1>8, OptionTextRead DEF OutgoingRequest_authority, Get, AnswerFits
<1>9. CASE RequestOptions_connect_timeout
  BY <1>0, <1>9, OptionDurationRead DEF RequestOptions_connect_timeout, Get, AnswerFits
<1>10. CASE RequestOptions_first_byte_timeout
  BY <1>0, <1>10, OptionDurationRead DEF RequestOptions_first_byte_timeout, Get, AnswerFits
<1>11. CASE RequestOptions_between_bytes_timeout
  BY <1>0, <1>11, OptionDurationRead DEF RequestOptions_between_bytes_timeout, Get, AnswerFits
<1>12. CASE IncomingResponse_status
  BY <1>0, <1>12 DEF IncomingResponse_status, AnswerFits
<1>13. CASE OutgoingResponse_status_code
  BY <1>0, <1>13 DEF OutgoingResponse_status_code, AnswerFits
<1>14. CASE monotonic_clock_now
  BY <1>14, U64Read DEF monotonic_clock_now, Returned, AnswerFits
<1>15. CASE monotonic_clock_resolution
  BY <1>15, U64Read DEF monotonic_clock_resolution, Returned, AnswerFits
<1>16. CASE wall_clock_now
  BY <1>16, DatetimeRead DEF wall_clock_now, Returned, AnswerFits
<1>17. CASE wall_clock_resolution
  BY <1>17, DatetimeRead DEF wall_clock_resolution, Returned, AnswerFits
<1>18. CASE get_random_u64
  BY <1>18, U64Read DEF get_random_u64, Returned, AnswerFits
<1>19. CASE get_random_bytes
  BY <1>19, StringRead DEF get_random_bytes, Returned, AnswerFits
<1>20. CASE Error_to_debug_string
  BY <1>20, StringRead DEF Error_to_debug_string, Returned, AnswerFits
<1> QED
  BY <1>1, <1>2, <1>3, <1>4, <1>5, <1>6, <1>7, <1>8, <1>9, <1>10, <1>11, <1>12, <1>13,
     <1>14, <1>15, <1>16, <1>17, <1>18, <1>19, <1>20 DEF Getter

LEMMA SetKeeps ==
  ASSUME AttributesInv, NEW a \in Attributes, NEW v \in TypeOf[a].values, NEW words,
         LiftFlat(TypeOf[a], words) = v, Set(a, v, words)
  PROVE  AttributesInv'
<1>1. UNCHANGED head /\ GettersAgree'
  BY DEF Set, NoAnswer, GettersAgree
<1>2. CASE attrs' = [attrs EXCEPT ![a] = v] /\ asked' = [asked EXCEPT ![a] = v]
  <2>1. attrs = asked /\ DOMAIN attrs = Attributes
        /\ \A b \in Attributes : attrs[b] \in AttributeValues(b)
    BY DEF AttributesInv, HostHoldsWhatWasSet
  <2>2. attrs' = asked' /\ DOMAIN attrs' = Attributes
    BY <1>2, <2>1
  <2>3. ASSUME NEW b \in Attributes  PROVE attrs'[b] \in AttributeValues(b)
    <3>1. v \in AttributeValues(a)
      BY DEF AttributeValues
    <3>2. attrs'[b] = IF b = a THEN v ELSE attrs[b]
      BY <1>2, <2>1
    <3> QED
      BY <2>1, <3>1, <3>2
  <2> QED
    BY <1>1, <2>2, <2>3 DEF AttributesInv, HostHoldsWhatWasSet
<1>3. CASE UNCHANGED <<attrs, asked>>
  BY <1>1, <1>3 DEF AttributesInv, HostHoldsWhatWasSet
<1> QED
  BY <1>2, <1>3 DEF Set

LEMMA SettersKeep ==
  ASSUME AttributesInv, Setter
  PROVE  AttributesInv'
<1>0. /\ head.method \in TypeOf.method.values
      /\ head.path_with_query \in TypeOf.path_with_query.values
      /\ head.scheme \in TypeOf.scheme.values
      /\ head.status_code \in TypeOf.status_code.values
      /\ TypeOf.method = Method /\ TypeOf.path_with_query = OptionOf(Text)
      /\ TypeOf.scheme = OptionOf(Scheme) /\ TypeOf.status_code = StatusCode
      /\ {"method", "path_with_query", "scheme", "status_code"} \subseteq Attributes
  BY TypesOfAttributes, HeldValues DEF Attributes
<1>1. CASE OutgoingRequest_set_method
  <2>1. PICK m \in TypeOf.method.values : Set("method", m, write_method(m))
    BY <1>1 DEF OutgoingRequest_set_method, Arguments
  <2>2. "method" \in Attributes /\ LiftFlat(TypeOf.method, write_method(m)) = m
    BY TypesOfAttributes, MethodWritten DEF Attributes
  <2> QED
    BY <2>1, <2>2, SetKeeps
<1>2. CASE OutgoingRequest_set_path_with_query
  <2>1. PICK p \in TypeOf.path_with_query.values : Set("path_with_query", p, write_option_string(p))
    BY <1>2 DEF OutgoingRequest_set_path_with_query, Arguments
  <2>2. /\ "path_with_query" \in Attributes
        /\ LiftFlat(TypeOf.path_with_query, write_option_string(p)) = p
    BY TypesOfAttributes, OptionTextWritten DEF Attributes
  <2> QED
    BY <2>1, <2>2, SetKeeps
<1>3. CASE OutgoingRequest_set_scheme
  <2>1. PICK s \in TypeOf.scheme.values : Set("scheme", s, write_option_scheme(s))
    BY <1>3 DEF OutgoingRequest_set_scheme, Arguments
  <2>2. "scheme" \in Attributes /\ LiftFlat(TypeOf.scheme, write_option_scheme(s)) = s
    BY TypesOfAttributes, OptionSchemeWritten DEF Attributes
  <2> QED
    BY <2>1, <2>2, SetKeeps
<1>4. CASE OutgoingRequest_set_authority
  <2>1. PICK t \in TypeOf.authority.values : Set("authority", t, write_option_string(t))
    BY <1>4 DEF OutgoingRequest_set_authority, Arguments
  <2>2. "authority" \in Attributes /\ LiftFlat(TypeOf.authority, write_option_string(t)) = t
    BY TypesOfAttributes, OptionTextWritten DEF Attributes
  <2> QED
    BY <2>1, <2>2, SetKeeps
<1>5. CASE RequestOptions_set_connect_timeout
  <2>1. PICK d \in TypeOf.connect_timeout.values : Set("connect_timeout", d, write_duration(d))
    BY <1>5 DEF RequestOptions_set_connect_timeout, Arguments
  <2>2. "connect_timeout" \in Attributes /\ LiftFlat(TypeOf.connect_timeout, write_duration(d)) = d
    BY TypesOfAttributes, DurationWritten DEF Attributes
  <2> QED
    BY <2>1, <2>2, SetKeeps
<1>6. CASE RequestOptions_set_first_byte_timeout
  <2>1. PICK d \in TypeOf.first_byte_timeout.values :
          Set("first_byte_timeout", d, write_duration(d))
    BY <1>6 DEF RequestOptions_set_first_byte_timeout, Arguments
  <2>2. /\ "first_byte_timeout" \in Attributes
        /\ LiftFlat(TypeOf.first_byte_timeout, write_duration(d)) = d
    BY TypesOfAttributes, DurationWritten DEF Attributes
  <2> QED
    BY <2>1, <2>2, SetKeeps
<1>7. CASE RequestOptions_set_between_bytes_timeout
  <2>1. PICK d \in TypeOf.between_bytes_timeout.values :
          Set("between_bytes_timeout", d, write_duration(d))
    BY <1>7 DEF RequestOptions_set_between_bytes_timeout, Arguments
  <2>2. /\ "between_bytes_timeout" \in Attributes
        /\ LiftFlat(TypeOf.between_bytes_timeout, write_duration(d)) = d
    BY TypesOfAttributes, DurationWritten DEF Attributes
  <2> QED
    BY <2>1, <2>2, SetKeeps
<1>8. CASE OutgoingResponse_set_status_code
  <2>1. PICK c \in TypeOf.status_code.values : Set("status_code", c, <<as_i32(c)>>)
    BY <1>8 DEF OutgoingResponse_set_status_code, Arguments
  <2>2. "status_code" \in Attributes /\ LiftFlat(TypeOf.status_code, <<as_i32(c)>>) = c
    BY TypesOfAttributes, StatusWritten DEF Attributes
  <2> QED
    BY <2>1, <2>2, SetKeeps
<1>9. CASE copy_method
  <2> DEFINE words == write_method(read_method(Store(Method, head.method, 0)))
  <2>1. Set("method", head.method, words)
    BY <1>9 DEF copy_method
  <2>2. LiftFlat(TypeOf.method, words) = head.method
    BY <1>0, MethodRead, MethodWritten
  <2> HIDE DEF words
  <2> QED
    BY <1>0, <2>1, <2>2, TypesOfAttributes, SetKeeps
<1>10. CASE copy_path_with_query
  <2> DEFINE words ==
        write_option_string(read_option_string(Store(OptionOf(Text), head.path_with_query, 0)))
  <2>1. Set("path_with_query", head.path_with_query, words)
    BY <1>10 DEF copy_path_with_query
  <2>2. LiftFlat(TypeOf.path_with_query, words) = head.path_with_query
    BY <1>0, OptionTextRead, OptionTextWritten
  <2> HIDE DEF words
  <2> QED
    BY <1>0, <2>1, <2>2, TypesOfAttributes, SetKeeps
<1>11. CASE copy_scheme
  <2> DEFINE words ==
        write_option_scheme(read_option_scheme(Store(OptionOf(Scheme), head.scheme, 0)))
  <2>1. Set("scheme", head.scheme, words)
    BY <1>11 DEF copy_scheme
  <2>2. LiftFlat(TypeOf.scheme, words) = head.scheme
    BY <1>0, OptionSchemeRead, OptionSchemeWritten
  <2> HIDE DEF words
  <2> QED
    BY <1>0, <2>1, <2>2, TypesOfAttributes, SetKeeps
<1>12. CASE copy_status
  <2> DEFINE words == <<as_i32(as_u16(head.status_code))>>
  <2>1. Set("status_code", head.status_code, words)
    BY <1>12 DEF copy_status
  <2>2. LiftFlat(TypeOf.status_code, words) = head.status_code
    BY <1>0, StatusWritten
  <2> HIDE DEF words
  <2> QED
    BY <1>0, <2>1, <2>2, TypesOfAttributes, SetKeeps
<1> QED
  BY <1>1, <1>2, <1>3, <1>4, <1>5, <1>6, <1>7, <1>8, <1>9, <1>10, <1>11, <1>12 DEF Setter

LEMMA AttributesInitInv == AttributesInit => AttributesInv
<1> SUFFICES ASSUME AttributesInit  PROVE AttributesInv
  OBVIOUS
<1>1. head \in Heads /\ attrs = Fresh /\ asked = Fresh /\ answer = NoAnswer
  BY DEF AttributesInit
<1>2. <<"Get", <<>>>> \in Method.values
  <2>1. IsCases(MethodCases) /\ AreLargest(MethodCases, 4, 8)
    BY MethodIs, NamedLayout
  <2>2. 1 \in DOMAIN MethodCases /\ <<>> \in MethodCases[1][2].values
    BY MethodIs, UnitTakes DEF LastIsText
  <2>3. <<MethodCases[1][1], <<>>>> \in Variant(MethodCases).values
    BY <2>1, <2>2, VariantParts
  <2>4. <<MethodCases[1][1], <<>>>> = <<"Get", <<>>>>
    BY MethodNames
  <2> QED
    BY <2>3, <2>4, MethodIs
<1>3. ASSUME NEW T, IsLayout(T)  PROVE None \in OptionOf(T).values
  <2> DEFINE Cs == Two("None", Unit, "Some", T)
  <2>1. OptionOf(T) = Variant(Cs) /\ IsCases(Cs) /\ AreLargest(Cs, T.align, T.size)
    BY <1>3, OptionCases
  <2>2. 1 \in DOMAIN Cs /\ Cs[1][1] = "None" /\ Cs[1][2] = Unit
    BY DEF Two
  <2> HIDE DEF Cs
  <2>3. <<Cs[1][1], <<>>>> \in Variant(Cs).values
    BY <2>1, <2>2, UnitTakes, VariantParts
  <2> QED
    BY <2>1, <2>2, <2>3 DEF None
<1>4. /\ None \in OptionOf(Text).values /\ None \in OptionOf(Scheme).values
      /\ None \in OptionOf(Duration).values
  <2>1. IsLayout(Text) /\ IsLayout(Scheme) /\ IsLayout(Duration)
    BY TextLayout, SchemeIs, NamedLayout, NumberLayout DEF Duration
  <2> QED
    BY <1>3, <2>1
<1>5. DOMAIN attrs = Attributes
  BY <1>1, TypesOfAttributes DEF Fresh
<1>6. ASSUME NEW a \in Attributes  PROVE attrs[a] \in AttributeValues(a)
  <2>1. attrs[a] = CASE a = "method" -> <<"Get", <<>>>> [] a = "status_code" -> 200
                     [] OTHER -> None
    BY <1>1, TypesOfAttributes DEF Fresh
  <2>2. CASE a = "method"
    BY <1>2, <2>1, <2>2, TypesOfAttributes DEF AttributeValues
  <2>3. CASE a = "status_code"
    BY <2>1, <2>3 DEF AttributeValues
  <2>4. CASE a # "method" /\ a # "status_code"
    <3>1. attrs[a] = None
      BY <2>1, <2>4
    <3>2. None \in TypeOf[a].values
      BY <1>4, <2>4, TypesOfAttributes DEF Attributes
    <3> QED
      BY <3>1, <3>2 DEF AttributeValues
  <2> QED
    BY <2>2, <2>3, <2>4
<1> QED
  BY <1>1, <1>5, <1>6 DEF AttributesInv, HostHoldsWhatWasSet, GettersAgree, NoAnswer

LEMMA AttributesNextInv == AttributesInv /\ [AttributesNext]_attributesVars => AttributesInv'
<1> SUFFICES ASSUME AttributesInv, [AttributesNext]_attributesVars  PROVE AttributesInv'
  OBVIOUS
<1>1. CASE Getter
  <2>1. AnswerFits
    BY <1>1, GettersFit
  <2> QED
    BY <2>1 DEF AnswerFits, AttributesInv, HostHoldsWhatWasSet, GettersAgree
<1>2. CASE Setter
  BY <1>2, SettersKeep
<1>3. CASE UNCHANGED attributesVars
  BY <1>3 DEF attributesVars, AttributesInv, HostHoldsWhatWasSet, GettersAgree
<1> QED
  BY <1>1, <1>2, <1>3 DEF AttributesNext

LEMMA AttributesInvariant == AttributesSpec => []AttributesInv
BY AttributesInitInv, AttributesNextInv, PTL DEF AttributesSpec

(* Whatever the program sets and copies, in any order and with any values   *)
(* of the types, the host holds it as it was meant: no cast of the setters  *)
(* loses or adds bits.                                                      *)
THEOREM HostHoldsAlways == AttributesSpec => []HostHoldsWhatWasSet
<1>1. AttributesInv => HostHoldsWhatWasSet
  BY DEF AttributesInv
<1> QED
  BY <1>1, AttributesInvariant, PTL

(* Every getter, clock and random number returns what the host holds.       *)
THEOREM GettersAgreeAlways == AttributesSpec => []GettersAgree
<1>1. AttributesInv => GettersAgree
  BY DEF AttributesInv
<1> QED
  BY <1>1, AttributesInvariant, PTL
=============================================================================
