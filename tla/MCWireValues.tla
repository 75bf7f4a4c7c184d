---------------------------- MODULE MCWireValues ----------------------------
(***************************************************************************)
(* The modules about the values of calls: every behaviour is one of error   *)
(* codes, of attributes, of fields, or of the header lists of plugins; what *)
(* it is not about stays as it is.                                          *)
(***************************************************************************)
EXTENDS HeaderPairs, ErrorCodes, RequestAttributes, FieldsCalls

VARIABLE about   \* "codes", "attributes", "fields" or "pairs"

vars == <<about, codesVars, attributesVars, fieldsVars, pairsVars>>

W32MC == 1048576
W64MC == 1073741824

(* The boundaries of every width, an empty text and some others.            *)
TextsMC == {1, 64, 65, 66, 70}
TextLenMC(t) == CASE t = 1 -> 0 [] t \in {64, 65} -> 3 [] t = 66 -> 5 [] t = 70 -> 4
                  [] OTHER -> -1
NumbersMC(n) ==
  CASE n = 1 -> {0, 255} [] n = 2 -> {1, 65535}
    [] n = 4 -> {0, 7, W32MC \div 2, W32MC - 1}
    [] n = 8 -> {0, W32MC \div 2, W64MC \div 2, W64MC - 1}

(* Attributes: a host that refuses one text and one timeout; heads with and *)
(* without every optional part.                                             *)
AcceptsMC(a, v) ==
  CASE a = "method" -> v # <<"Other", 1>>
    [] a = "authority" -> v # <<"Some", 1>>
    [] a = "connect_timeout" -> v # <<"Some", 0>>
    [] OTHER -> TRUE

HeadsMC ==
  {[method |-> m, path_with_query |-> p, scheme |-> s, authority |-> p,
    status_code |-> c]
     : m \in {<<"Delete", <<>>>>, <<"Other", 64>>},
       p \in {<<"None", <<>>>>, <<"Some", 64>>},
       s \in {<<"None", <<>>>>, <<"Some", <<"Https", <<>>>>>>, <<"Some", <<"Other", 64>>>>},
       c \in {1, 65535}}

(* Fields: two spellings of a name, one that is forbidden, one that is      *)
(* invalid, and an empty value.                                             *)
SameNameMC(a, b) == a = b \/ {a, b} = {64, 65}
ListsMC == {<<>>, << <<65, 66>>, <<64, 1>> >>}

(* Header lists: an empty string, and one with a zero of its own.           *)
StringsMC == {<<>>, <<"a">>, <<"b", "0">>}

-----------------------------------------------------------------------------
NoCodes == site = "none" /\ sent = <<>> /\ arrived = <<>>
NoAttributes ==
  /\ head = <<>> /\ attrs = <<>> /\ asked = <<>>
  /\ answer = NoAnswer /\ attributeCalls = 0
NoFields ==
  /\ fields = [r \in Resources |-> [list |-> <<>>, mutable |-> FALSE]]
  /\ told = [r \in Resources |-> <<>>]
  /\ heap = 0 /\ held = 0 /\ got = Nothing /\ calls = 0

Init ==
  /\ PairsInit
  /\ \/ about = "codes" /\ CodesInit /\ NoAttributes /\ NoFields
     \/ about = "attributes" /\ AttributesInit /\ NoCodes /\ NoFields
     \/ about = "fields" /\ FieldsInit /\ NoCodes /\ NoAttributes
     \/ about = "pairs" /\ NoCodes /\ NoAttributes /\ NoFields

Next ==
  /\ UNCHANGED about
  /\ \/ /\ about = "codes" /\ CodesNext
        /\ UNCHANGED <<attributesVars, fieldsVars, pairsVars>>
     \/ /\ about = "attributes" /\ AttributesNext
        /\ UNCHANGED <<codesVars, fieldsVars, pairsVars>>
     \/ /\ about = "fields" /\ FieldsNext
        /\ UNCHANGED <<codesVars, attributesVars, pairsVars>>
     \/ /\ about = "pairs" /\ PairsNext
        /\ UNCHANGED <<codesVars, attributesVars, fieldsVars>>

Spec == Init /\ [][Next]_vars
=============================================================================
