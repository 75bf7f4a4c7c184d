----------------------------- MODULE HeaderPairs -----------------------------
(***************************************************************************)
(* Lists of headers on their way between the plugin and its host            *)
(* (proxy_wasm_api.h). One pass over the list computes the size of a block, *)
(* another fills it: the number of pairs, the sizes of all names and values,*)
(* then their characters with a zero after each. The reader has the block   *)
(* and trusts what is written in it.                                        *)
(***************************************************************************)
EXTENDS Integers, SequencesExt

CONSTANTS
  Strings,     \* names and values: sequences of characters
  MaxPairs     \* bound: pairs of a list

ASSUME PairsAssumption ==
  /\ \A s \in Strings : s \in Seq({s[i] : i \in DOMAIN s})
  /\ MaxPairs \in Nat

VARIABLES
  headers,   \* the plugin's list
  buffer,    \* its block: the size asked of malloc, and the cells written
  decoded    \* the pairs the other side reads

pairsVars == <<headers, buffer, decoded>>

Null == [size |-> 0, cells |-> <<>>]
Unread == << <<"unread">> >>

PairsInit == headers = <<>> /\ buffer = Null /\ decoded = Unread

-----------------------------------------------------------------------------
(* A 32-bit number takes four cells.                                        *)
Word(n) == <<n, "of", "four", "bytes">>

pairsSize(list) ==
  LET size[i \in 0 .. Len(list)] ==
        IF i = 0 THEN 4 ELSE size[i - 1] + 8 + Len(list[i][1]) + 1 + Len(list[i][2]) + 1
  IN  size[Len(list)]

marshalPairs(list) ==
  Word(Len(list))
    \o FlattenSeq([i \in DOMAIN list |-> Word(Len(list[i][1])) \o Word(Len(list[i][2]))])
    \o FlattenSeq([i \in DOMAIN list |-> list[i][1] \o <<"0">> \o list[i][2] \o <<"0">>])

exportPairs(list) ==
  IF list = <<>> THEN Null ELSE [size |-> pairsSize(list), cells |-> marshalPairs(list)]

(* Mutant: the reader does not step over the zero.                          *)
after_text(s, size) == s + size

after(s, size) == s + size + 1

(* The reader's two pointers: p runs over the sizes, s over the characters. *)
pairs(cells) ==
  LET n == cells[1]
      size(k) == cells[4 * k + 1]     \* k-th of the 2n sizes
      s[k \in 1 .. 2 * n] == IF k = 1 THEN 4 + n * 8 ELSE after(s[k - 1], size(k - 1))
      view(k) == SubSeq(cells, s[k] + 1, s[k] + size(k))
  IN  IF cells = <<>> THEN <<>>
                      ELSE [i \in 1 .. n |-> <<view(2 * i - 1), view(2 * i)>>]

MakeHeaderStringPairsBuffer(list) ==
  /\ buffer = Null /\ decoded = Unread
  /\ headers' = list
  /\ buffer' = exportPairs(list)
  /\ UNCHANGED decoded

(* The host hands the list back: the SDK reads a buffer it did not write.   *)
ReadPairs ==
  /\ decoded = Unread
  /\ decoded' = pairs(buffer.cells)
  /\ UNCHANGED <<headers, buffer>>

Lists == UNION {[1 .. n -> Strings \X Strings] : n \in 0 .. MaxPairs}

PairsNext == (\E list \in Lists : MakeHeaderStringPairsBuffer(list)) \/ ReadPairs

PairsSpec == PairsInit /\ [][PairsNext]_pairsVars

-----------------------------------------------------------------------------
(* The second pass fills exactly the block the first one asked for, and     *)
(* what is read is what was written, with empty strings, with characters    *)
(* that look like the zero, and for no headers at all.                      *)
PairsArrive ==
  /\ buffer.size = Len(buffer.cells)
  /\ decoded = Unread \/ decoded = headers
=============================================================================
