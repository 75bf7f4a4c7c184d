----------------------------- MODULE FieldsCalls -----------------------------
(***************************************************************************)
(* The content of fields (headers and trailers), and the memory their       *)
(* wrappers use. An argument that is a list is copied into an array the     *)
(* wrapper allocates and frees; a result that is a list comes in an array   *)
(* the host allocated in the program's memory, whose elements become values *)
(* of the program while the array is freed. Empty arrays and texts have no  *)
(* memory at all.                                                           *)
(***************************************************************************)
EXTENDS CanonicalABI, SequencesExt, FiniteSets

CONSTANTS
  FieldNames, FieldValues,  \* texts the program uses
  SameName(_, _),           \* names that differ in case only
  Invalid, Forbidden,       \* names and values the host refuses
  IncomingLists,            \* contents of the fields the host gives
  NewHandle,                \* of fields made from a list
  MaxLength, MaxCalls       \* bounds: entries of a list, calls of a behaviour

ASSUME FieldsAssumption ==
  /\ FieldNames \subseteq Texts /\ FieldValues \subseteq Texts
  /\ IncomingLists \subseteq Seq(Texts \X Texts)
  /\ NewHandle \in Numbers(4)
  /\ MaxLength \in Nat

VARIABLES
  fields,   \* [resource -> its entries in the host, and whether mutable]
  told,     \* [resource -> the entries the program's calls made of it]
  heap,     \* blocks allocated in the program's memory by these calls
  held,     \* blocks owned by values the program has
  got,      \* the last result, and what the host meant
  calls

fieldsVars == <<fields, told, heap, held, got, calls>>

(* The fields of an incoming message, and those the program made.           *)
Resources == {"incoming", "own"}

FieldName == Text
FieldValue == Text
Entry == Pair(FieldName, FieldValue)
HeaderError ==
  Variant(<< <<"InvalidSyntax", Unit>>, <<"Forbidden", Unit>>, <<"Immutable", Unit>> >>)

Nothing == [value |-> <<>>, meant |-> <<>>]

FieldsInit ==
  /\ \E list \in IncomingLists :
       /\ fields = [incoming |-> [list |-> list, mutable |-> FALSE],
                    own |-> [list |-> <<>>, mutable |-> TRUE]]
       /\ told = [incoming |-> list, own |-> <<>>]
  /\ heap = 0 /\ held = 0
  /\ got = Nothing
  /\ calls = 0

-----------------------------------------------------------------------------
(* Memory.                                                                  *)

Blocks(size) == IF size = 0 THEN 0 ELSE 1

TextBlocks(texts) == Cardinality({i \in DOMAIN texts : TextLen(texts[i]) # 0})

(* What alloc and dealloc under `layout.size() != 0` leave of an array.     *)
Layout(len, stride) == len * stride
AllocArgument(layout) == IF layout # 0 THEN 1 ELSE 0

(* Mutant: dealloc only where the result is Ok.                             *)
FreeArgumentOfOk(layout, result) == IF layout # 0 /\ result[1] = "Ok" THEN 1 ELSE 0

FreeArgument(layout, result) == IF layout # 0 THEN 1 ELSE 0

cabi_dealloc(size) == IF size = 0 THEN 0 ELSE 1

-----------------------------------------------------------------------------
(* Reading results and writing arguments.                                   *)

read_header_error(area, at) ==
  LET n == Read(area, at, 1)
  IN  CASE n = 0 -> <<"InvalidSyntax", <<>>>> [] n = 1 -> <<"Forbidden", <<>>>>
        [] OTHER -> <<"Immutable", <<>>>>

read_outcome(area) ==
  read_result(Read(area, 0, 1), <<>>, read_header_error(area, 1))

(* Names at base + 0 and + 4, values at base + 8 and + 12, base = i * 16.   *)
write_entries(list) ==
  UNION {{Cell((i - 1) * 16 + 4, 4, TextLen(list[i][1])), Cell((i - 1) * 16, 4, list[i][1]),
          Cell((i - 1) * 16 + 12, 4, TextLen(list[i][2])),
          Cell((i - 1) * 16 + 8, 4, list[i][2])} : i \in DOMAIN list}
read_entries(area, len) ==
  [i \in 1 .. len |-> <<read_string(area, (i - 1) * 16), read_string(area, (i - 1) * 16 + 8)>>]

(* Mutant: values at the stride of entries.                                 *)
write_values_wide(list) ==
  UNION {{Cell((i - 1) * 16 + 4, 4, TextLen(list[i])), Cell((i - 1) * 16, 4, list[i])}
           : i \in DOMAIN list}

write_values(list) ==
  UNION {{Cell((i - 1) * 8 + 4, 4, TextLen(list[i])), Cell((i - 1) * 8, 4, list[i])}
           : i \in DOMAIN list}

(* Mutant: a list of values read from its second element on.                *)
read_values_late(area, len) == [i \in 1 .. len |-> read_string(area, i * 8)]

read_values(area, len) == [i \in 1 .. len |-> read_string(area, (i - 1) * 8)]

-----------------------------------------------------------------------------
(* The host's fields.                                                       *)

Refusal(r, name, values) ==
  IF ~fields[r].mutable THEN "Immutable"
  ELSE IF name \in Invalid \/ \E v \in values : v \in Invalid THEN "InvalidSyntax"
  ELSE IF name \in Forbidden THEN "Forbidden" ELSE "none"

Kept(list, keep) == FlattenSeq([i \in DOMAIN list |-> IF keep[i] THEN <<list[i]>> ELSE <<>>])
Named(list, name) == Kept(list, [i \in DOMAIN list |-> SameName(list[i][1], name)])
Other(list, name) == Kept(list, [i \in DOMAIN list |-> ~SameName(list[i][1], name)])
ValuesOf(list) == [i \in DOMAIN list |-> list[i][2]]
Entries(name, values) == [i \in DOMAIN values |-> <<name, values[i]>>]
ElementsOf(s) == {s[i] : i \in DOMAIN s}

(* A call that changes r: `received` is what the host makes of it, `meant`  *)
(* what the program does.                                                   *)
Change(r, refusal, received, meant, layout) ==
  LET result == IF refusal = "none" THEN Ok(<<>>) ELSE Err(<<refusal, <<>>>>)
  IN  /\ IF refusal = "none"
           THEN /\ Len(received) <= MaxLength
                /\ fields' = [fields EXCEPT ![r].list = received]
                /\ told' = [told EXCEPT ![r] = meant]
           ELSE UNCHANGED <<fields, told>>
      /\ got' = [value |-> read_outcome(Store(ResultOf(Unit, HeaderError), result, 0)),
                 meant |-> result]
      /\ heap' = heap + AllocArgument(layout) - FreeArgument(layout, result)
      /\ UNCHANGED held

(* A call that returns a list of r: texts of it the program then owns.      *)
Return(list, value, texts, stride) ==
  /\ got' = [value |-> value, meant |-> list]
  /\ heap' = heap + Blocks(Len(list) * stride) + TextBlocks(texts)
                  - cabi_dealloc(Len(list) * stride)
  /\ held' = held + TextBlocks(texts)
  /\ UNCHANGED <<fields, told>>

-----------------------------------------------------------------------------
ListsOf(S) == UNION {[1 .. n -> S] : n \in 0 .. MaxLength}

Fields_new ==
  /\ fields' = [fields EXCEPT !["own"] = [list |-> <<>>, mutable |-> TRUE]]
  /\ told' = [told EXCEPT !["own"] = <<>>]
  /\ got' = Nothing
  /\ UNCHANGED <<heap, held>>

Fields_from_list ==
  \E list \in ListsOf(FieldNames \X FieldValues) :
    LET texts == UNION {{list[i][1], list[i][2]} : i \in DOMAIN list}
        refusal == IF texts \cap Invalid # {} THEN "InvalidSyntax"
                   ELSE IF texts \cap Forbidden # {} THEN "Forbidden" ELSE "none"
        result == IF refusal = "none" THEN Ok(NewHandle) ELSE Err(<<refusal, <<>>>>)
        area == Store(ResultOf(Number(4), HeaderError), result, 0)
    IN  /\ IF refusal = "none"
             THEN /\ fields' = [fields EXCEPT !["own"] =
                                  [list |-> LoadList(Entry, write_entries(list), Len(list)),
                                   mutable |-> TRUE]]
                  /\ told' = [told EXCEPT !["own"] = list]
             ELSE UNCHANGED <<fields, told>>
        /\ got' = [value |-> read_result(Read(area, 0, 1), Read(area, 4, 4),
                                         read_header_error(area, 4)),
                   meant |-> result]
        /\ heap' = heap + AllocArgument(Layout(Len(list), 16))
                        - FreeArgument(Layout(Len(list), 16), result)
        /\ UNCHANGED held

Fields_get(r, name) ==
  LET values == ValuesOf(Named(fields[r].list, name))
  IN  Return(values, read_values(StoreList(FieldValue, values), Len(values)), values, 8)

(* bool_lift of 0 or 1.                                                     *)
Fields_has(r, name) ==
  LET present == Named(fields[r].list, name) # <<>>
      ret == IF present THEN 1 ELSE 0
  IN  /\ got' = [value |-> <<ret = 1>>, meant |-> <<present>>]
      /\ UNCHANGED <<fields, told, heap, held>>

Fields_set(r, name, values) ==
  LET received == LoadList(FieldValue, write_values(values), Len(values))
  IN  Change(r, Refusal(r, name, ElementsOf(values)),
             Other(fields[r].list, name) \o Entries(name, received),
             Other(told[r], name) \o Entries(name, values), Layout(Len(values), 8))

Fields_delete(r, name) ==
  Change(r, Refusal(r, name, {}), Other(fields[r].list, name), Other(told[r], name), 0)

Fields_append(r, name, value) ==
  Change(r, Refusal(r, name, {value}), Append(fields[r].list, <<name, value>>),
         Append(told[r], <<name, value>>), 0)

Fields_entries(r) ==
  LET list == fields[r].list
  IN  Return(list, read_entries(StoreList(Entry, list), Len(list)),
             ValuesOf(list) \o [i \in DOMAIN list |-> list[i][1]], 16)

(* A clone is mutable, whatever it is a clone of.                           *)
Fields_clone(r) ==
  /\ fields' = [fields EXCEPT !["own"] = [list |-> fields[r].list, mutable |-> TRUE]]
  /\ told' = [told EXCEPT !["own"] = told[r]]
  /\ got' = Nothing
  /\ UNCHANGED <<heap, held>>

(* The program drops what it got.                                           *)
DropResults ==
  /\ held > 0
  /\ heap' = heap - held /\ held' = 0
  /\ got' = Nothing
  /\ UNCHANGED <<fields, told>>

FieldsNext ==
  /\ calls < MaxCalls /\ calls' = calls + 1
  /\ \/ Fields_new \/ Fields_from_list \/ DropResults
     \/ \E r \in Resources : Fields_entries(r) \/ Fields_clone(r)
     \/ \E r \in Resources, n \in FieldNames :
          \/ Fields_get(r, n) \/ Fields_has(r, n) \/ Fields_delete(r, n)
          \/ \E v \in FieldValues : Fields_append(r, n, v)
          \/ \E values \in ListsOf(FieldValues) : Fields_set(r, n, values)

FieldsSpec == FieldsInit /\ [][FieldsNext]_fieldsVars

-----------------------------------------------------------------------------
(* The entries of every fields resource are those the program's calls made  *)
(* of it, in order and with the case they were given in, and those of an    *)
(* incoming message are as they came.                                       *)
EntriesAgree == \A r \in Resources : fields[r].list = told[r]

(* What get, has, entries and the error results return is what the host     *)
(* meant, down to the last element of a list.                               *)
ResultsAgree == got.value = got.meant

(* The blocks of memory are those the program's values own: an array that   *)
(* carried a list is freed once, also when the call fails, and one of size  *)
(* zero is not freed.                                                       *)
MemoryBalances == heap = held
=============================================================================
