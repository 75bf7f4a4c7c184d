---------------------------- MODULE CanonicalABI ----------------------------
(***************************************************************************)
(* How the host of a WebAssembly component passes values: the layout of a   *)
(* result in the guest's memory and the flat arguments of a call, computed  *)
(* from the types of the interface. The generated bindings have the same    *)
(* numbers as literals; RequestAttributes, FieldsCalls and ErrorCodes       *)
(* compare the two.                                                         *)
(***************************************************************************)
EXTENDS Integers, Sequences

CONSTANTS
  Texts,        \* strings and byte lists, by the address of their bytes
  TextLen(_),   \* the length of each
  W32, W64,     \* how many values a u32 and a u64 have (scaled down)
  Numbers(_)    \* the numbers of so many bytes that are used

(* How many values a number of n bytes has.                                 *)
Values(n) == CASE n = 1 -> 256 [] n = 2 -> 65536 [] n = 4 -> W32 [] n = 8 -> W64

ASSUME WidthsAssumption ==
  /\ W32 \in Nat /\ \E n \in 2 .. W32 : W32 = n * 65536
  /\ W64 \in Nat /\ \E n \in 2 .. W32 : W64 = n * W32

ASSUME ValuesAssumption ==
  /\ \A n \in {1, 2, 4, 8} : Numbers(n) \subseteq 0 .. Values(n) - 1
  /\ \A t \in Texts : t \in 0 .. W32 - 1 /\ TextLen(t) \in 0 .. W32 - 1

(* Memory is a set of cells, and so are the flat words of an argument, by   *)
(* their index. Bytes in no cell were not written.                          *)
Cell(at, n, v) == [at |-> at, bytes |-> n, value |-> v]
Moved(cells, by) == {Cell(c.at + by, c.bytes, c.value) : c \in cells}

Garbage == -1
Trap == <<"Trap", <<>>>>

Read(area, at, n) ==
  IF \E c \in area : c.at = at /\ c.bytes = n
    THEN (CHOOSE c \in area : c.at = at /\ c.bytes = n).value
    ELSE Garbage

Largest(S) == CHOOSE m \in S : \A n \in S : n <= m
RoundUp(n, a) == ((n + a - 1) \div a) * a

-----------------------------------------------------------------------------
(* A type is what both sides know of it: its alignment, size and number of  *)
(* flat words, its values, and the cells and the words of each value. The   *)
(* values are a number, the address of a text, a tuple, or <<case name,     *)
(* payload>>.                                                               *)

Number(n) ==
  [align |-> n, size |-> n, flat |-> 1, values |-> Numbers(n),
   cells |-> [v \in Numbers(n) |-> {Cell(0, n, v)}],
   words |-> [v \in Numbers(n) |-> {Cell(0, n, v)}]]

Text ==
  [align |-> 4, size |-> 8, flat |-> 2, values |-> Texts,
   cells |-> [t \in Texts |-> {Cell(0, 4, t), Cell(4, 4, TextLen(t))}],
   words |-> [t \in Texts |-> {Cell(0, 4, t), Cell(1, 4, TextLen(t))}]]

(* Records: of no field and of two.                                         *)
Unit ==
  [align |-> 1, size |-> 0, flat |-> 0, values |-> {<<>>},
   cells |-> [v \in {<<>>} |-> {}], words |-> [v \in {<<>>} |-> {}]]

SecondAt(T, U) == RoundUp(T.size, U.align)

Pair(T, U) ==
  LET align == Largest({T.align, U.align})
      both == T.values \X U.values
  IN  [align |-> align, size |-> RoundUp(SecondAt(T, U) + U.size, align),
       flat |-> T.flat + U.flat, values |-> both,
       cells |-> [v \in both |-> T.cells[v[1]] \cup Moved(U.cells[v[2]], SecondAt(T, U))],
       words |-> [v \in both |-> T.words[v[1]] \cup Moved(U.words[v[2]], T.flat)]]

(* A variant has a discriminant and then the payload of one of its cases,   *)
(* each a name and a type.                                                  *)
CaseIndex(Cs, v) == CHOOSE i \in DOMAIN Cs : Cs[i][1] = v[1]
CaseAlign(Cs) == Largest({Cs[i][2].align : i \in DOMAIN Cs})
PayloadAt(Cs) == RoundUp(1, CaseAlign(Cs))
CaseValues(Cs) ==
  UNION {{<<Cs[i][1], v>> : v \in Cs[i][2].values} : i \in DOMAIN Cs}

CaseCells(Cs, v) ==
  LET i == CaseIndex(Cs, v)
  IN  {Cell(0, 1, i - 1)} \cup Moved(Cs[i][2].cells[v[2]], PayloadAt(Cs))
CaseWords(Cs, v) ==
  LET i == CaseIndex(Cs, v)
  IN  {Cell(0, 4, i - 1)} \cup Moved(Cs[i][2].words[v[2]], 1)

Variant(Cs) ==
  [align |-> CaseAlign(Cs),
   size |-> RoundUp(PayloadAt(Cs) + Largest({Cs[i][2].size : i \in DOMAIN Cs}),
                    CaseAlign(Cs)),
   flat |-> 1 + Largest({Cs[i][2].flat : i \in DOMAIN Cs}),
   values |-> CaseValues(Cs),
   cells |-> [v \in CaseValues(Cs) |-> CaseCells(Cs, v)],
   words |-> [v \in CaseValues(Cs) |-> CaseWords(Cs, v)]]

OptionOf(T) == Variant(<< <<"None", Unit>>, <<"Some", T>> >>)
ResultOf(T, E) == Variant(<< <<"Ok", T>>, <<"Err", E>> >>)

None    == <<"None", <<>>>>
Some(v) == <<"Some", v>>
Ok(v)   == <<"Ok", v>>
Err(v)  == <<"Err", v>>

-----------------------------------------------------------------------------
(* What the host writes for the value v of type T from address `at` on, and *)
(* what it reads there that the program wrote.                              *)
Store(T, v, at) == Moved(T.cells[v], at)
Load(T, area, at) ==
  IF \E v \in T.values : Store(T, v, at) \subseteq area
    THEN CHOOSE v \in T.values : Store(T, v, at) \subseteq area
    ELSE Garbage

(* A list is an array of its elements, given by its address and its length. *)
StoreList(T, list) ==
  UNION {Store(T, list[i], (i - 1) * T.size) : i \in DOMAIN list}
LoadList(T, area, len) == [i \in 1 .. len |-> Load(T, area, (i - 1) * T.size)]

(* What the host takes flat arguments for: of each word only the bits that  *)
(* its type has.                                                            *)
Takes(T, v, words) ==
  \A c \in T.words[v] : words[c.at + 1] % Values(c.bytes) = c.value
LiftFlat(T, words) ==
  IF \E v \in T.values : Takes(T, v, words)
    THEN CHOOSE v \in T.values : Takes(T, v, words)
    ELSE Trap

-----------------------------------------------------------------------------
(* A text is its value only by the address and the number of its bytes.     *)
string_lift(ptr, len) == IF ptr \in Texts /\ len = TextLen(ptr) THEN ptr ELSE Garbage

(* The casts of the generated code: a number that does not fit in a signed  *)
(* word becomes negative, and a negative one is wrapped.                    *)
as_i32(n) == IF n < W32 \div 2 THEN n ELSE n - W32
as_i64(n) == IF n < W64 \div 2 THEN n ELSE n - W64
as_u64(n) == n % W64

(* A pointer written into a word of eight bytes leaves the upper four as    *)
(* they were, uninitialised: `high` is what happens to be there.            *)
half_written(ptr, high) == ptr + W32 * high

(* What is read where a string, an option or a result is.                     *)
read_string(area, at) == string_lift(Read(area, at, 4), Read(area, at + 4, 4))
read_option(disc, value) ==
  CASE disc = 0 -> None [] disc = 1 -> Some(value) [] OTHER -> Trap
read_result(disc, ok, err) ==
  CASE disc = 0 -> Ok(ok) [] disc = 1 -> Err(err) [] OTHER -> Trap

(* The flat words of an option of a string.                                 *)
write_option_string(v) ==
  IF v = None THEN <<0, 0, 0>> ELSE <<1, v[2], TextLen(v[2])>>
=============================================================================
