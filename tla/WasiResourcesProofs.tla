------------------------- MODULE WasiResourcesProofs -------------------------
(***************************************************************************)
(* What holds for any program of safe Rust on the wrappers, for any number  *)
(* of variables and of indices and whichever free index the host uses next. *)
(* A step removes resources without children, adds one, or moves on what    *)
(* one can still give out; a lemma for each says that the handle table and  *)
(* its owners go on to agree.                                               *)
(***************************************************************************)
EXTENDS WasiResources, TLAPS

Values == [kind : Kinds \cup {"none"}, handle : Handles \cup {MAX}]
Entries == [kind : Kinds \cup {"none"}, parent : Handles \cup {MAX},
            stage : {"pending", "ready", "spent"}]

(* c is what its parent gives out once.                                     *)
Once(tb, c) ==
  /\ tb[c].kind # "none" /\ tb[c].parent # MAX
  /\ \/ tb[c].kind \in Streams
     \/ tb[c].kind = "fields" /\ tb[tb[c].parent].kind = "future-trailers"

Owners(vl, tb) ==
  /\ \A v \in Names : vl[v].kind = "none" => vl[v] = NoValue
  /\ \A v \in Names : vl[v].kind # "none" =>
       vl[v].handle \in Handles /\ tb[vl[v].handle].kind = vl[v].kind
  /\ \A h \in Handles : tb[h].kind # "none" => \E v \in Names : vl[v].handle = h
  /\ \A v, w \in Names : vl[v].handle = vl[w].handle => v = w \/ vl[v].handle = MAX

Parents(tb) ==
  \A h \in Handles : tb[h].kind # "none" /\ tb[h].parent # MAX =>
    /\ tb[h].parent \in Handles
    /\ <<tb[tb[h].parent].kind, tb[h].kind>> \in Family

(* Who gave it out has no more to give, and gave it to one child only.      *)
Spent(tb) ==
  /\ \A c \in Handles : Once(tb, c) => tb[tb[c].parent].stage = "spent"
  /\ \A c, d \in Handles :
       /\ Once(tb, c) /\ Once(tb, d)
       /\ tb[c].parent = tb[d].parent /\ tb[c].kind = tb[d].kind
       => c = d

(* The inductive invariant, first of any owners and table.                  *)
Good(vl, tb) ==
  /\ vl \in [Names -> Values] /\ tb \in [Handles -> Entries]
  /\ Owners(vl, tb) /\ Parents(tb) /\ Spent(tb)

IInv ==
  /\ Good(value, table)
  /\ abandoned \subseteq {"outgoing-body", "response-outparam"}
  /\ fate \in {"running", "returned", "trapped", "misuse", "failed"}
  /\ NothingStays

-----------------------------------------------------------------------------
(* "none" is no kind, and no child or parent is of it.                      *)
LEMMA KindsAreSome ==
  /\ "none" \notin Kinds
  /\ \A j, k : <<j, k>> \in Family => j \in Kinds /\ k \in Kinds
  /\ \A j, k : <<j, k>> \in Family /\ k \in Streams =>
       j \in {"incoming-body", "outgoing-body"}
  BY DEF Kinds, Family, Streams, Futures

(* Resources without children can go, with what owns them.                  *)
LEMMA RemoveGood ==
  ASSUME NEW vl, NEW tb, Good(vl, tb), NEW S \in SUBSET Names,
         \A a \in S : vl[a].kind # "none",
         NEW H, H = {vl[a].handle : a \in S},
         \A c \in Handles : tb[c].kind # "none" => tb[c].parent \notin H
  PROVE  Good([v \in Names |-> IF v \in S THEN NoValue ELSE vl[v]], Without(tb, H))
<1> DEFINE vn == [v \in Names |-> IF v \in S THEN NoValue ELSE vl[v]]
           tn == Without(tb, H)
<1>1. /\ \A h \in Handles : tn[h] = IF h \in H THEN NoEntry ELSE tb[h]
      /\ \A v \in Names : vn[v] = IF v \in S THEN NoValue ELSE vl[v]
  BY DEF Without
<1>2. NoEntry \in Entries /\ NoEntry.kind = "none" /\ NoValue \in Values
      /\ NoValue.kind = "none" /\ NoValue.handle = MAX
  BY DEF NoEntry, NoValue, Entries, Values
<1>3. vn \in [Names -> Values] /\ tn \in [Handles -> Entries]
  BY <1>2 DEF Good, Without
<1>4. Owners(vn, tn)
  <2> HIDE DEF vn, tn
  <2>1. \A v \in Names : vn[v].kind = "none" => vn[v] = NoValue
    BY <1>1 DEF Good, Owners
  <2>2. \A v \in Names : vn[v].kind # "none" =>
          vn[v].handle \in Handles /\ tn[vn[v].handle].kind = vn[v].kind
    <3> SUFFICES ASSUME NEW v \in Names, vn[v].kind # "none"
                 PROVE  vn[v].handle \in Handles /\ tn[vn[v].handle].kind = vn[v].kind
      OBVIOUS
    <3>1. v \notin S /\ vn[v] = vl[v]
      BY <1>1, <1>2
    <3>2. vl[v].handle \in Handles /\ tb[vl[v].handle].kind = vl[v].kind
      BY <3>1 DEF Good, Owners
    <3>3. vl[v].handle \notin H
      <4>1. ASSUME NEW a \in S, vl[a].handle = vl[v].handle PROVE FALSE
        BY <4>1, <3>1, <3>2, MaxAssumption DEF Good, Owners
      <4> QED BY <4>1
    <3> QED BY <1>1, <3>1, <3>2, <3>3
  <2>3. \A h \in Handles : tn[h].kind # "none" => \E v \in Names : vn[v].handle = h
    <3> SUFFICES ASSUME NEW h \in Handles, tn[h].kind # "none"
                 PROVE  \E v \in Names : vn[v].handle = h
      OBVIOUS
    <3>1. h \notin H /\ tb[h].kind # "none"
      BY <1>1, <1>2
    <3>2. PICK v \in Names : vl[v].handle = h
      BY <3>1 DEF Good, Owners
    <3> QED BY <1>1, <3>1, <3>2
  <2>4. \A v, w \in Names : vn[v].handle = vn[w].handle => v = w \/ vn[v].handle = MAX
    BY <1>1, <1>2 DEF Good, Owners
  <2> QED BY <2>1, <2>2, <2>3, <2>4 DEF Owners
<1>5. \A h \in Handles : tn[h].kind # "none" /\ tn[h].parent # MAX =>
        /\ tn[h] = tb[h] /\ tb[h].parent \in Handles /\ tb[h].parent \notin H
        /\ tn[tb[h].parent] = tb[tb[h].parent]
  BY <1>1, <1>2 DEF Good, Parents
<1>6. Parents(tn)
  BY <1>5 DEF Good, Parents
<1>7. \A c \in Handles : Once(tn, c) => Once(tb, c) /\ tn[c] = tb[c]
                                        /\ tn[tn[c].parent] = tb[tb[c].parent]
  BY <1>5 DEF Once
<1>8. Spent(tn)
  <2> HIDE DEF tn
  <2> QED BY <1>7 DEF Good, Spent
<1> QED BY <1>3, <1>4, <1>6, <1>8 DEF Good

(* A new resource can come under a free index, without a parent or as a     *)
(* child it can have. What is given out once must be the first, and its     *)
(* parent must have moved on.                                               *)
LEMMA AddGood ==
  ASSUME NEW vl, NEW tb, Good(vl, tb),
         NEW out \in Names, vl[out] = NoValue,
         NEW n \in Handles, tb[n].kind = "none",
         NEW k \in Kinds, NEW p \in Handles \cup {MAX},
         p # MAX => <<tb[p].kind, k>> \in Family,
         p # MAX /\ (k \in Streams \/ (k = "fields" /\ tb[p].kind = "future-trailers")) =>
           /\ tb[p].stage = "spent"
           /\ \A c \in Handles : ~(tb[c].kind = k /\ tb[c].parent = p)
  PROVE  Good([vl EXCEPT ![out] = from_handle(k, n)], With(tb, n, Entry(k, p)))
<1> DEFINE vn == [vl EXCEPT ![out] = from_handle(k, n)]
           tn == With(tb, n, Entry(k, p))
<1>1. /\ \A v \in Names : vn[v] = IF v = out THEN [kind |-> k, handle |-> n] ELSE vl[v]
      /\ \A h \in Handles : tn[h] = IF h = n THEN Entry(k, p) ELSE tb[h]
  BY DEF Good, With, from_handle
<1>2. /\ Entry(k, p) \in Entries
      /\ Entry(k, p).kind = k /\ Entry(k, p).parent = p
      /\ [kind |-> k, handle |-> n] \in Values
      /\ k # "none"
  BY KindsAreSome DEF Entry, Entries, Values
<1>3. vn \in [Names -> Values] /\ tn \in [Handles -> Entries]
  BY <1>2 DEF Good, With, from_handle
<1>4. \A v \in Names : vl[v].handle # n
  <2> SUFFICES ASSUME NEW v \in Names, vl[v].handle = n PROVE FALSE
    OBVIOUS
  <2>1. vl[v].kind # "none"
    BY MaxAssumption DEF Good, Owners, NoValue
  <2> QED BY <2>1 DEF Good, Owners
<1>5. Owners(vn, tn)
  <2> HIDE DEF vn, tn
  <2>1. \A v \in Names : vn[v].kind = "none" => vn[v] = NoValue
    BY <1>1, <1>2 DEF Good, Owners
  <2>2. \A v \in Names : vn[v].kind # "none" =>
          vn[v].handle \in Handles /\ tn[vn[v].handle].kind = vn[v].kind
    BY <1>1, <1>2, <1>4 DEF Good, Owners
  <2>3. \A h \in Handles : tn[h].kind # "none" => \E v \in Names : vn[v].handle = h
    <3> SUFFICES ASSUME NEW h \in Handles, tn[h].kind # "none"
                 PROVE  \E v \in Names : vn[v].handle = h
      OBVIOUS
    <3>1. CASE h = n BY <3>1, <1>1
    <3>2. CASE h # n
      <4>1. PICK v \in Names : vl[v].handle = h
        BY <3>2, <1>1 DEF Good, Owners
      <4>2. v # out
        BY <4>1, MaxAssumption DEF NoValue
      <4> QED BY <4>1, <4>2, <1>1
    <3> QED BY <3>1, <3>2
  <2>4. \A v, w \in Names : vn[v].handle = vn[w].handle => v = w \/ vn[v].handle = MAX
    BY <1>1, <1>4 DEF Good, Owners
  <2> QED BY <2>1, <2>2, <2>3, <2>4 DEF Owners
<1>6. \A h \in Handles : tb[h].kind # "none" /\ tb[h].parent # MAX =>
        /\ h # n /\ tn[h] = tb[h] /\ tb[h].parent \in Handles
        /\ tb[h].parent # n /\ tn[tb[h].parent] = tb[tb[h].parent]
  <2> HIDE DEF tn
  <2> SUFFICES ASSUME NEW h \in Handles, tb[h].kind # "none", tb[h].parent # MAX
               PROVE  /\ h # n /\ tn[h] = tb[h] /\ tb[h].parent \in Handles
                      /\ tb[h].parent # n /\ tn[tb[h].parent] = tb[tb[h].parent]
    OBVIOUS
  <2>1. tb[h].parent \in Handles /\ tb[tb[h].parent].kind \in Kinds
    BY KindsAreSome DEF Good, Parents
  <2>2. tb[h].parent # n /\ h # n
    BY <2>1, KindsAreSome
  <2> QED BY <2>1, <2>2, <1>1
<1>7. p # MAX => p \in Handles /\ p # n /\ tn[p] = tb[p]
  BY <1>1, KindsAreSome
<1>8. Parents(tn)
  <2> HIDE DEF tn
  <2> SUFFICES ASSUME NEW h \in Handles, tn[h].kind # "none", tn[h].parent # MAX
               PROVE  /\ tn[h].parent \in Handles
                      /\ <<tn[tn[h].parent].kind, tn[h].kind>> \in Family
    BY DEF Parents
  <2>1. CASE h = n BY <2>1, <1>1, <1>2, <1>7
  <2>2. CASE h # n
    <3>1. tn[h] = tb[h]
      BY <2>2, <1>1
    <3> QED BY <3>1, <1>6 DEF Good, Parents
  <2> QED BY <2>1, <2>2
<1>9. \A c \in Handles : Once(tn, c) =>
        \/ c = n /\ tn[c].kind = k /\ tn[c].parent = p /\ p # MAX
             /\ tn[p].stage = "spent"
             /\ \A d \in Handles : ~(tb[d].kind = k /\ tb[d].parent = p)
        \/ c # n /\ Once(tb, c) /\ tn[c] = tb[c] /\ tn[tb[c].parent] = tb[tb[c].parent]
  <2> HIDE DEF tn
  <2> SUFFICES ASSUME NEW c \in Handles, Once(tn, c)
               PROVE  \/ c = n /\ tn[c].kind = k /\ tn[c].parent = p /\ p # MAX
                           /\ tn[p].stage = "spent"
                           /\ \A d \in Handles : ~(tb[d].kind = k /\ tb[d].parent = p)
                      \/ /\ c # n /\ Once(tb, c) /\ tn[c] = tb[c]
                         /\ tn[tb[c].parent] = tb[tb[c].parent]
    OBVIOUS
  <2>1. CASE c = n BY <2>1, <1>1, <1>2, <1>7 DEF Once
  <2>2. CASE c # n
    <3>1. tn[c] = tb[c]
      BY <2>2, <1>1
    <3> QED BY <2>2, <3>1, <1>6 DEF Once
  <2> QED BY <2>1, <2>2
<1>10. Spent(tn)
  <2> HIDE DEF tn
  <2>1. \A c \in Handles : Once(tn, c) => tn[tn[c].parent].stage = "spent"
    BY <1>9 DEF Good, Spent
  <2>2. ASSUME NEW c \in Handles, NEW d \in Handles, Once(tn, c), Once(tn, d),
               tn[c].parent = tn[d].parent, tn[c].kind = tn[d].kind
        PROVE  c = d
    BY <2>2, <1>9 DEF Good, Spent
  <2> QED BY <2>1, <2>2 DEF Spent
<1> QED BY <1>3, <1>5, <1>8, <1>10 DEF Good

(* A resource can move on from one stage to a later one.                    *)
LEMMA StageGood ==
  ASSUME NEW vl, NEW tb, Good(vl, tb), NEW h \in Handles,
         NEW s \in {"ready", "spent"}, s = "spent" \/ tb[h].stage = "pending"
  PROVE  Good(vl, [tb EXCEPT ![h].stage = s])
<1> DEFINE tn == [tb EXCEPT ![h].stage = s]
<1>1. tn \in [Handles -> Entries]
  BY DEF Good, Entries
<1>2. \A g \in Handles : /\ tn[g].kind = tb[g].kind /\ tn[g].parent = tb[g].parent
                         /\ tn[g].stage = IF g = h THEN s ELSE tb[g].stage
  BY DEF Good, Entries
<1> HIDE DEF tn
<1>3. Owners(vl, tn)
  BY <1>2 DEF Good, Owners
<1>4. Parents(tn)
  BY <1>2 DEF Good, Parents
<1>5. \A c \in Handles : Once(tn, c) => Once(tb, c) /\ tb[c].parent \in Handles
  BY <1>2 DEF Good, Parents, Once
<1>6. Spent(tn)
  BY <1>2, <1>5 DEF Good, Spent
<1>7. QED BY <1>1, <1>3, <1>4, <1>6 DEF Good, tn

-----------------------------------------------------------------------------
(* The steps that the wrappers are made of keep the invariant.              *)

Running == IInv /\ fate = "running"

(* What can be an argument: a variable that owns something.                 *)
Owning(S) == S \subseteq Names /\ \A a \in S : value[a].kind # "none"

LEMMA IsAOwning ==
  ASSUME IInv, NEW v \in Names, NEW k \in Kinds, IsA(v, k)
  PROVE  /\ Owning({v}) /\ value[v] # NoValue
         /\ HandleOf(v) \in Handles /\ HandleOf(v) # MAX
         /\ table[HandleOf(v)].kind = k
  BY KindsAreSome, MaxAssumption DEF IInv, Good, Owners, Owning, IsA, HandleOf, NoValue

LEMMA StutterKeeps == ASSUME Running, UNCHANGED resourceVars PROVE IInv'
  BY DEF Running, IInv, resourceVars, NothingStays, Live

LEMMA TrapKeeps == ASSUME Running, Trap PROVE IInv'
  BY DEF Running, IInv, Trap, NothingStays

LEMMA PanicKeeps ==
  ASSUME Running, NEW why \in {"misuse", "failed"}, Panic(why) PROVE IInv'
  BY DEF Running, IInv, Panic, NothingStays

(* A step that leaves good owners and a good table and goes on running.     *)
LEMMA GoodKeeps ==
  ASSUME Running, Good(value', table'), fate' = fate,
         abandoned' \subseteq {"outgoing-body", "response-outparam"}
  PROVE  IInv'
  BY DEF Running, IInv, NothingStays

(* The arguments of a call hand over all they own: nothing is left for the  *)
(* drop at its end.                                                         *)
LEMMA ArgumentsGiveAll ==
  ASSUME IInv, NEW args, Owning(args)
  PROVE  Given(args) = {value[a].handle : a \in args} /\ Kept(args) = {}
<1>1. \A a \in args : /\ take_handle(value[a]).given = value[a].handle
                      /\ DropHandles(take_handle(value[a]).left) = {}
  BY DEF take_handle, DropHandles, IInv, Good, Values, Owning
<1>2. Given(args) = {value[a].handle : a \in args}
  BY <1>1 DEF Given
<1>3. Kept(args) = {}
  BY <1>1 DEF Kept
<1> QED BY <1>2, <1>3

(* The table and the owners after `args` were given away.                   *)
GivenAway(args) == [v \in Names |-> IF v \in args THEN NoValue ELSE value[v]]

LEMMA GivingIsGood ==
  ASSUME IInv, NEW args, Owning(args), Children(Given(args)) = {}
  PROVE  Good(GivenAway(args), Without(table, Given(args)))
<1>1. \A c \in Handles : table[c].kind # "none" => table[c].parent \notin Given(args)
  BY DEF Children, Live
<1> QED BY <1>1, ArgumentsGiveAll, RemoveGood DEF IInv, GivenAway, Owning

LEMMA GiveKeeps ==
  ASSUME Running, NEW args, Owning(args), Give(args)
  PROVE  IInv'
<1>1. CASE Trap
  BY <1>1, TrapKeeps
<1>2. CASE ~Trap
  <2>1. /\ Children(Given(args)) = {}
        /\ table' = Without(Without(table, Given(args)), {})
        /\ value' = GivenAway(args)
        /\ UNCHANGED <<abandoned, fate>>
    BY <1>2, ArgumentsGiveAll DEF Give, EndCall, Running, GivenAway
  <2>2. Without(Without(table, Given(args)), {}) = Without(table, Given(args))
    BY DEF Without
  <2>3. Good(value', table')
    BY <2>1, <2>2, GivingIsGood DEF Running
  <2> QED BY <2>1, <2>3, GoodKeeps DEF Running, IInv
<1> QED BY <1>1, <1>2

(* Make, for what is not given out once.                                    *)
LEMMA MakeKeeps ==
  ASSUME Running, NEW args, Owning(args), NEW out \in Names,
         NEW k \in Kinds, NEW p \in Handles \cup {MAX},
         p # MAX => /\ args = {} /\ <<table[p].kind, k>> \in Family
                    /\ k \notin Streams
                    /\ ~(k = "fields" /\ table[p].kind = "future-trailers"),
         Make(args, out, k, p)
  PROVE  IInv'
<1>1. CASE Trap
  BY <1>1, TrapKeeps
<1>2. CASE ~Trap
  <2> DEFINE tb == Without(table, Given(args))
             vs(n) == [value EXCEPT ![out] = from_handle(k, n)]
  <2>1. /\ value[out] = NoValue /\ Children(Given(args)) = {}
        /\ \E n \in Reuse({h \in Handles : tb[h].kind = "none"}) :
             EndCall(args, With(tb, n, Entry(k, p)), vs(n))
    BY <1>2 DEF Make
  <2>2. PICK n \in {h \in Handles : tb[h].kind = "none"} :
               EndCall(args, With(tb, n, Entry(k, p)), vs(n))
    BY <2>1, ReuseAssumption
  <2>3. Given(args) = {value[a].handle : a \in args} /\ Kept(args) = {}
    BY ArgumentsGiveAll DEF Running
  <2>4. /\ table' = Without(With(tb, n, Entry(k, p)), {})
        /\ value' = [v \in Names |-> IF v \in args THEN NoValue ELSE vs(n)[v]]
        /\ UNCHANGED <<abandoned, fate>>
    BY <2>2, <2>3 DEF EndCall
  <2>5. table' = With(tb, n, Entry(k, p))
    BY <2>4 DEF Without, With
  <2>6. out \notin args
    BY <2>1 DEF Owning, NoValue
  <2>7. value' = [GivenAway(args) EXCEPT ![out] = from_handle(k, n)]
    BY <2>4, <2>6 DEF GivenAway, Running, IInv, Good
  <2>8. Good(GivenAway(args), tb) /\ GivenAway(args)[out] = NoValue
    BY <2>1, GivingIsGood DEF Running, GivenAway
  <2>9. p # MAX => tb = table
    BY <2>3 DEF Without, Running, IInv, Good
  <2>10. Good(value', table')
    <3> HIDE DEF tb
    <3> QED BY <2>2, <2>5, <2>7, <2>8, <2>9, AddGood
  <2> QED BY <2>4, <2>10, GoodKeeps DEF Running, IInv
<1> QED BY <1>1, <1>2

LEMMA ChildKeeps ==
  ASSUME Running, NEW self \in Names, NEW j \in Kinds, IsA(self, j),
         NEW out \in Names, NEW k \in Kinds, <<j, k>> \in Family, k \notin Streams,
         ~(k = "fields" /\ j = "future-trailers"), Child(self, out, k)
  PROVE  IInv'
<1>1. Owning({}) /\ HandleOf(self) \in Handles /\ table[HandleOf(self)].kind = j
  BY IsAOwning DEF Running, Owning
<1> QED BY <1>1, MakeKeeps DEF Child

LEMMA RootKeeps ==
  ASSUME Running, NEW out \in Names, NEW k \in Kinds, Make({}, out, k, MAX)
  PROVE  IInv'
  BY MakeKeeps DEF Owning

LEMMA SpendKeeps ==
  ASSUME Running, NEW self \in Names, NEW j \in Kinds, IsA(self, j), Spend(self)
  PROVE  IInv'
<1>1. HandleOf(self) \in Handles
  BY IsAOwning DEF Running
<1>2. Good(value', table')
  BY <1>1, StageGood DEF Spend, Running, IInv
<1> QED BY <1>2, GoodKeeps DEF Spend, Running, IInv

(* What self gives out, at most once if it is its child.                    *)
LEMMA SpendForKeeps ==
  ASSUME Running, NEW self \in Names, NEW j \in Kinds, IsA(self, j),
         NEW out \in Names, NEW k \in Kinds, NEW p \in {MAX, HandleOf(self)},
         p # MAX => <<j, k>> \in Family
                      /\ (k \in Streams \/ (k = "fields" /\ j = "future-trailers")),
         StageOf(self) = "ready", SpendFor(self, out, k, p)
  PROVE  IInv'
<1> DEFINE h == HandleOf(self)
           tb == [table EXCEPT ![h].stage = "spent"]
<1>1. h \in Handles /\ table[h].kind = j /\ table[h].stage = "ready"
  BY IsAOwning DEF Running, StageOf
<1>2. Good(value, tb)
  BY <1>1, StageGood DEF Running, IInv
<1>3. \A g \in Handles : /\ tb[g].kind = table[g].kind /\ tb[g].parent = table[g].parent
                         /\ tb[g].stage = IF g = h THEN "spent" ELSE table[g].stage
  BY DEF Running, IInv, Good, Entries
<1>4. PICK n \in Handles : /\ ~Live(n)
                          /\ table' = With(tb, n, Entry(k, p))
                          /\ value' = [value EXCEPT ![out] = from_handle(k, n)]
  <2>1. PICK n \in Reuse({g \in Handles : ~Live(g)}) :
               /\ table' = With(tb, n, Entry(k, p))
               /\ value' = [value EXCEPT ![out] = from_handle(k, n)]
    BY DEF SpendFor
  <2>2. n \in Handles /\ ~Live(n)
    BY ReuseAssumption
  <2> QED BY <2>1, <2>2
<1>5. value[out] = NoValue /\ UNCHANGED <<abandoned, fate>>
  BY DEF SpendFor
<1>6. p # MAX => \A c \in Handles : ~(tb[c].kind = k /\ tb[c].parent = p)
  <2> SUFFICES ASSUME p # MAX, NEW c \in Handles, table[c].kind = k, table[c].parent = p
               PROVE  FALSE
    BY <1>3
  <2>1. Once(table, c)
    BY <1>1, KindsAreSome DEF Once
  <2> QED BY <2>1, <1>1 DEF Running, IInv, Good, Spent
<1>7. Good(value', table')
  <2> HIDE DEF tb, h
  <2>1. p \in Handles \cup {MAX} /\ (p # MAX => p = h /\ tb[p].stage = "spent" /\ tb[p].kind = j)
    BY <1>1, <1>3 DEF h
  <2>2. tb[n].kind = "none"
    BY <1>3, <1>4 DEF Live
  <2> QED BY <1>2, <1>4, <1>5, <1>6, <2>1, <2>2, AddGood
<1> QED BY <1>5, <1>7, GoodKeeps DEF Running, IInv

LEMMA GiveOutKeeps ==
  ASSUME Running, NEW self \in Names, NEW j \in Kinds, IsA(self, j),
         NEW out \in Names, NEW k \in Kinds, NEW p \in {MAX, HandleOf(self)},
         p # MAX => <<j, k>> \in Family
                      /\ (k \in Streams \/ (k = "fields" /\ j = "future-trailers")),
         GiveOut(self, out, k, p)
  PROVE  IInv'
  BY SpendForKeeps DEF GiveOut

LEMMA StreamCallKeeps ==
  ASSUME Running, NEW self \in Names, NEW j \in Streams, IsA(self, j),
         NEW out \in Names, StreamCall(self, out)
  PROVE  IInv'
<1>1. j \in Kinds /\ "error" \in Kinds
  BY DEF Kinds
<1>2. CASE UNCHANGED resourceVars
  BY <1>2, StutterKeeps
<1>3. CASE Spend(self)
  BY <1>1, <1>3, SpendKeeps
<1>4. CASE StageOf(self) = "ready" /\ SpendFor(self, out, "error", MAX)
  BY <1>1, <1>4, SpendForKeeps
<1> QED BY <1>2, <1>3, <1>4 DEF StreamCall

LEMMA DropKeeps ==
  ASSUME Running, NEW v \in Names, NEW k \in Kinds, Drop(v, k)
  PROVE  IInv'
<1>1. CASE Trap
  BY <1>1, TrapKeeps
<1>2. CASE ~Trap
  <2>1. IsA(v, k) /\ Owning({v}) /\ HandleOf(v) # MAX
    BY IsAOwning DEF Drop, Running
  <2>2. DropHandles(value[v]) = {HandleOf(v)}
    BY <2>1 DEF DropHandles, HandleOf
  <2>3. /\ Children({HandleOf(v)}) = {}
        /\ table' = Without(table, {HandleOf(v)})
        /\ value' = [value EXCEPT ![v] = NoValue]
        /\ abandoned' = abandoned \cup ({k} \cap {"outgoing-body", "response-outparam"})
        /\ fate' = fate
    BY <1>2, <2>2 DEF Drop
  <2>4. Given({v}) = {HandleOf(v)}
    BY <2>1, ArgumentsGiveAll DEF Running, HandleOf
  <2>5. value' = GivenAway({v})
    BY <2>3 DEF GivenAway, Running, IInv, Good
  <2>6. Good(value', table')
    BY <2>1, <2>3, <2>4, <2>5, GivingIsGood DEF Running
  <2> QED BY <2>3, <2>6, GoodKeeps DEF Running, IInv
<1> QED BY <1>1, <1>2
-----------------------------------------------------------------------------
(* Which kinds there are and which pairs of them are parent and child, as   *)
(* far as the wrappers need it.                                             *)
LEMMA KindsAndFamily ==
  /\ Streams \cup Futures \cup
     {"fields", "incoming-request", "outgoing-request", "request-options",
      "response-outparam", "incoming-response", "incoming-body",
      "outgoing-response", "outgoing-body", "pollable", "error"} = Kinds
  /\ \A j \in {"incoming-request", "outgoing-request", "incoming-response",
             "outgoing-response", "future-trailers"} :
       j \in Kinds /\ <<j, "fields">> \in Family
  /\ \A j \in {"input-stream", "output-stream", "future-trailers",
             "future-incoming-response"} :
       j \in Kinds /\ <<j, "pollable">> \in Family
  /\ <<"incoming-body", "input-stream">> \in Family
  /\ <<"outgoing-body", "output-stream">> \in Family
  /\ "input-stream" \in Streams /\ "output-stream" \in Streams
  /\ "fields" \notin Streams /\ "pollable" \notin Streams
  BY DEF Kinds, Family, Streams, Futures

(* Every wrapper of wasi:http keeps the invariant.                          *)
LEMMA HttpCallKeeps == ASSUME Running, HttpCall PROVE IInv'
<1> USE KindsAndFamily
<1>1. ASSUME NEW out \in Names,
             Fields_new(out) \/ Fields_from_list(out) \/ RequestOptions_new(out)
      PROVE  IInv'
  BY <1>1, RootKeeps, StutterKeeps DEF Fields_new, Fields_from_list, RequestOptions_new
<1>2. ASSUME NEW v \in Names, NEW out \in Names,
             \/ Fields_clone(v, out)
             \/ IncomingRequest_headers(v, out) \/ IncomingRequest_consume(v, out)
             \/ OutgoingRequest_new(v, out) \/ OutgoingRequest_body(v, out)
             \/ OutgoingRequest_headers(v, out)
             \/ OutgoingResponse_new(v, out) \/ OutgoingResponse_headers(v, out)
             \/ OutgoingResponse_body(v, out)
             \/ IncomingResponse_headers(v, out) \/ IncomingResponse_consume(v, out)
             \/ IncomingBody_stream(v, out) \/ IncomingBody_finish(v, out)
             \/ OutgoingBody_write(v, out)
             \/ FutureTrailers_subscribe(v, out) \/ FutureTrailers_get(v, out)
             \/ FutureIncomingResponse_subscribe(v, out)
             \/ FutureIncomingResponse_get(v, out)
      PROVE  IInv'
  <2>1. CASE Fields_clone(v, out)
    BY <2>1, RootKeeps DEF Fields_clone
  <2>2. CASE IncomingRequest_headers(v, out)
    BY <2>2, ChildKeeps DEF IncomingRequest_headers
  <2>3. CASE OutgoingRequest_headers(v, out)
    BY <2>3, ChildKeeps DEF OutgoingRequest_headers
  <2>4. CASE OutgoingResponse_headers(v, out)
    BY <2>4, ChildKeeps DEF OutgoingResponse_headers
  <2>5. CASE IncomingResponse_headers(v, out)
    BY <2>5, ChildKeeps DEF IncomingResponse_headers
  <2>6. CASE FutureTrailers_subscribe(v, out)
    BY <2>6, ChildKeeps DEF FutureTrailers_subscribe
  <2>7. CASE FutureIncomingResponse_subscribe(v, out)
    BY <2>7, ChildKeeps DEF FutureIncomingResponse_subscribe
  <2>8. CASE IncomingRequest_consume(v, out)
    BY <2>8, GiveOutKeeps DEF IncomingRequest_consume
  <2>9. CASE OutgoingRequest_body(v, out)
    BY <2>9, GiveOutKeeps DEF OutgoingRequest_body
  <2>10. CASE OutgoingResponse_body(v, out)
    BY <2>10, GiveOutKeeps DEF OutgoingResponse_body
  <2>11. CASE IncomingResponse_consume(v, out)
    BY <2>11, GiveOutKeeps DEF IncomingResponse_consume
  <2>12. CASE IncomingBody_stream(v, out)
    BY <2>12, GiveOutKeeps DEF IncomingBody_stream
  <2>13. CASE OutgoingBody_write(v, out)
    BY <2>13, GiveOutKeeps DEF OutgoingBody_write
  <2>14. CASE OutgoingRequest_new(v, out)
    <3>1. Owning({v})
      BY <2>14, IsAOwning DEF OutgoingRequest_new, Running
    <3> QED BY <2>14, <3>1, MakeKeeps DEF OutgoingRequest_new
  <2>15. CASE OutgoingResponse_new(v, out)
    <3>1. Owning({v})
      BY <2>15, IsAOwning DEF OutgoingResponse_new, Running
    <3> QED BY <2>15, <3>1, MakeKeeps DEF OutgoingResponse_new
  <2>16. CASE IncomingBody_finish(v, out)
    <3>1. Owning({v})
      BY <2>16, IsAOwning DEF IncomingBody_finish, Running
    <3> QED BY <2>16, <3>1, MakeKeeps DEF IncomingBody_finish
  <2>17. CASE FutureTrailers_get(v, out)
    BY <2>17, GiveOutKeeps, SpendKeeps, StutterKeeps DEF FutureTrailers_get
  <2>18. CASE FutureIncomingResponse_get(v, out)
    BY <2>18, GiveOutKeeps, SpendKeeps, StutterKeeps DEF FutureIncomingResponse_get
  <2> QED BY <1>2, <2>1, <2>2, <2>3, <2>4, <2>5, <2>6, <2>7, <2>8, <2>9, <2>10, <2>11, <2>12, <2>13, <2>14, <2>15, <2>16, <2>17, <2>18
<1>3. ASSUME NEW v \in Names, NEW w \in Names, NEW out \in Names, NEW opt \in {{}, {w}},
             \/ send_request(v, opt, out) \/ ResponseOutparam_set(v, opt)
             \/ OutgoingBody_finish(v, opt)
      PROVE  IInv'
  <2>1. \A k \in Kinds : (\A o \in opt : IsA(o, k)) => Owning(opt)
    BY IsAOwning DEF Running, Owning
  <2>2. \A k \in Kinds : IsA(v, k) => Owning({v})
    BY IsAOwning DEF Running
  <2>3. Owning(opt) /\ Owning({v}) => Owning({v} \cup opt)
    BY DEF Owning
  <2>4. CASE send_request(v, opt, out)
    <3>1. Owning({v} \cup opt)
      BY <2>1, <2>2, <2>3, <2>4 DEF send_request
    <3> QED BY <2>4, <3>1, MakeKeeps, GiveKeeps DEF send_request
  <2>5. CASE ResponseOutparam_set(v, opt)
    <3>1. Owning({v} \cup opt)
      BY <2>1, <2>2, <2>3, <2>5 DEF ResponseOutparam_set
    <3> QED BY <2>5, <3>1, GiveKeeps DEF ResponseOutparam_set
  <2>6. CASE OutgoingBody_finish(v, opt)
    <3>1. Owning({v} \cup opt)
      BY <2>1, <2>2, <2>3, <2>6 DEF OutgoingBody_finish
    <3> QED BY <2>6, <3>1, GiveKeeps DEF OutgoingBody_finish
  <2> QED BY <1>3, <2>4, <2>5, <2>6
<1> QED BY <1>1, <1>2, <1>3 DEF HttpCall

(* Every wrapper of wasi:io, wasi:cli and the clocks does.                  *)
LEMMA IoCallKeeps == ASSUME Running, IoCall PROVE IInv'
<1> USE KindsAndFamily
<1>1. ASSUME NEW out \in Names,
             \/ get_stdin(out) \/ get_stdout(out) \/ get_stderr(out)
             \/ subscribe_instant(out) \/ subscribe_duration(out)
      PROVE  IInv'
  BY <1>1, RootKeeps DEF get_stdin, get_stdout, get_stderr, subscribe_instant,
                         subscribe_duration
<1>2. ASSUME NEW v \in Names, NEW out \in Names,
             InputStream_subscribe(v, out) \/ OutputStream_subscribe(v, out)
      PROVE  IInv'
  BY <1>2, ChildKeeps DEF InputStream_subscribe, OutputStream_subscribe
<1>3. ASSUME NEW v \in Names, NEW out \in Names,
             \/ InputStream_read(v, out) \/ InputStream_blocking_read(v, out)
             \/ InputStream_skip(v, out) \/ InputStream_blocking_skip(v, out)
             \/ OutputStream_check_write(v, out) \/ OutputStream_write(v, out)
             \/ OutputStream_blocking_write_and_flush(v, out)
             \/ OutputStream_flush(v, out) \/ OutputStream_blocking_flush(v, out)
             \/ OutputStream_write_zeroes(v, out)
             \/ OutputStream_blocking_write_zeroes_and_flush(v, out)
      PROVE  IInv'
  <2>1. \E j \in Streams : IsA(v, j) /\ StreamCall(v, out)
    BY <1>3 DEF InputStream_read, InputStream_blocking_read, InputStream_skip,
      InputStream_blocking_skip, OutputStream_check_write, OutputStream_write,
      OutputStream_blocking_write_and_flush, OutputStream_flush,
      OutputStream_blocking_flush, OutputStream_write_zeroes,
      OutputStream_blocking_write_zeroes_and_flush
  <2> QED BY <2>1, StreamCallKeeps
<1>4. ASSUME NEW v \in Names, NEW w \in Names, NEW out \in Names,
             OutputStream_splice(v, w, out) \/ OutputStream_blocking_splice(v, w, out)
      PROVE  IInv'
  BY <1>4, StreamCallKeeps DEF OutputStream_splice, OutputStream_blocking_splice
<1>5. ASSUME NEW v \in Names,
             \/ http_error_code(v) \/ Error_to_debug_string(v)
             \/ Pollable_ready(v) \/ Pollable_block(v)
      PROVE  IInv'
  BY <1>5, StutterKeeps DEF http_error_code, Error_to_debug_string, Pollable_ready,
                            Pollable_block
<1>6. ASSUME NEW set \in SUBSET Names, poll(set) PROVE IInv'
  BY <1>6, StutterKeeps, TrapKeeps DEF poll
<1> QED BY <1>1, <1>2, <1>3, <1>4, <1>5, <1>6 DEF IoCall

(* Every drop does.                                                         *)
LEMMA DropCallKeeps == ASSUME Running, DropCall PROVE IInv'
<1>1. PICK v \in Names : \E k \in Kinds : Drop(v, k)
  BY KindsAndFamily DEF DropCall, DropFields, DropIncomingRequest, DropOutgoingRequest,
    DropRequestOptions, DropResponseOutparam, DropIncomingResponse, DropIncomingBody,
    DropFutureTrailers, DropOutgoingResponse, DropOutgoingBody,
    DropFutureIncomingResponse, DropPollable, DropError, DropInputStream,
    DropOutputStream, Streams, Futures
<1> QED BY <1>1, DropKeeps

(* A function that returns owns nothing, so no entry has an owner.          *)
LEMMA ReturnKeeps == ASSUME Running, Return PROVE IInv'
<1>1. \A h \in Handles : ~Live(h)
  BY MaxAssumption DEF Running, IInv, Good, Owners, Return, Live, NoValue
<1> QED BY <1>1 DEF Running, IInv, Return, NothingStays, Live

LEMMA SettleKeeps == ASSUME Running, NEW h \in Handles, Settle(h) PROVE IInv'
<1>1. Good(value', table')
  BY StageGood DEF Settle, Running, IInv
<1> QED BY <1>1, GoodKeeps DEF Settle, Running, IInv

(* The call of an export: two resources, two owners.                        *)
LEMMA ExportIsGood ==
  ASSUME NEW request \in Names, NEW out \in Names, export_handle(request, out)
  PROVE  IInv
<1> DEFINE Exported(h, g) ==
             /\ table = With(With([i \in Handles |-> NoEntry], h,
                                  Entry("incoming-request", MAX)),
                             g, Entry("response-outparam", MAX))
             /\ value = [v \in Names |->
                           CASE v = request -> from_handle("incoming-request", h)
                             [] v = out -> from_handle("response-outparam", g)
                             [] OTHER -> NoValue]
<1>0. PICK h \in Reuse(Handles) : \E g \in Reuse(Handles \ {h}) : Exported(h, g)
  BY DEF export_handle
<1>1. PICK g \in Reuse(Handles \ {h}) : Exported(h, g)
  BY <1>0
<1>2. h \in Handles /\ g \in Handles /\ g # h
  BY ReuseAssumption
<1> DEFINE v0 == [v \in Names |-> NoValue]
           t0 == [i \in Handles |-> NoEntry]
           v1 == [v0 EXCEPT ![request] = from_handle("incoming-request", h)]
           t1 == With(t0, h, Entry("incoming-request", MAX))
<1>3. Good(v0, t0)
  BY DEF Good, Owners, Parents, Spent, Once, NoValue, NoEntry, Values, Entries
<1>4. Good(v1, t1)
  <2>1. v0[request] = NoValue /\ t0[h].kind = "none"
    BY <1>2 DEF NoEntry
  <2> HIDE DEF v0, t0
  <2> QED BY <1>2, <1>3, <2>1, AddGood, KindsAndFamily
<1>5. value = [v1 EXCEPT ![out] = from_handle("response-outparam", g)]
  BY <1>1 DEF export_handle
<1>6. Good(value, table)
  <2>1. v1[out] = NoValue /\ t1[g].kind = "none"
    BY <1>2 DEF export_handle, With, NoEntry
  <2> HIDE DEF v1, t1
  <2>2. table = With(t1, g, Entry("response-outparam", MAX))
    BY <1>1 DEF t1
  <2> QED BY <1>2, <1>4, <1>5, <2>1, <2>2, AddGood, KindsAndFamily
<1> QED BY <1>6 DEF IInv, export_handle, NothingStays

-----------------------------------------------------------------------------
(* Every step of a program keeps the invariant.                             *)
LEMMA AnyStepKeeps == IInv /\ [AnyStep]_resourceVars => IInv'
<1> SUFFICES ASSUME IInv, [AnyStep]_resourceVars PROVE IInv'
  OBVIOUS
<1>1. CASE AnyStep
  <2>1. Running
    BY <1>1 DEF AnyStep, Running
  <2> QED BY <1>1, <2>1, HttpCallKeeps, IoCallKeeps, DropCallKeeps, ReturnKeeps,
             PanicKeeps, SettleKeeps DEF AnyStep
<1>2. CASE UNCHANGED resourceVars
  BY <1>2 DEF IInv, resourceVars, NothingStays, Live
<1> QED BY <1>1, <1>2

(* The invariant holds in every program of safe Rust on the wrappers.       *)
THEOREM Invariance == AnyProgram => []IInv
<1>1. (\E request, out \in Names : export_handle(request, out)) => IInv
  BY ExportIsGood
<1> QED BY <1>1, AnyStepKeeps, PTL DEF AnyProgram

(* The invariant gives each of the properties of WasiResources.             *)
LEMMA GoodIsEnough ==
  IInv => TypeOK /\ HandlesHaveOneOwner
<1> SUFFICES ASSUME IInv PROVE TypeOK /\ HandlesHaveOneOwner
  OBVIOUS
<1>1. TypeOK
  BY DEF IInv, Good, TypeOK, Values, Entries
<1>2. HandlesHaveOneOwner
  <2>1. \A v \in Names : value[v] # NoValue => value[v].kind # "none"
    BY DEF IInv, Good, Owners
  <2> QED BY <2>1 DEF IInv, Good, Owners, HandlesHaveOneOwner, HandleOf, Live
<1> QED BY <1>1, <1>2

(* Owners, table and fate keep their types.                                 *)
THEOREM TypeCorrect == AnyProgram => []TypeOK
  BY Invariance, GoodIsEnough, PTL

(* Whatever a program calls and whichever indices the host uses again, each *)
(* handle of the table has exactly one owner, of its own kind.              *)
THEOREM HandlesAreOwnedOnce == AnyProgram => []HandlesHaveOneOwner
  BY Invariance, GoodIsEnough, PTL

(* A program that returned left nothing in the table.                       *)
THEOREM ReturnLeavesNothing == AnyProgram => []NothingStays
<1>1. IInv => NothingStays
  BY DEF IInv
<1> QED BY <1>1, Invariance, PTL

-----------------------------------------------------------------------------
(***************************************************************************)
(* The resources by the names of their owners. Which variable owns what,    *)
(* which is a child of which, and what can be said of their stages is all   *)
(* that decides whether a call traps or fails: the indices do not matter.   *)
(* A program proves that it keeps the rules by such a picture of each of    *)
(* its places, and the lemmas that follow say how a call changes one.       *)
(***************************************************************************)
ChildOf(v, w) ==
  /\ value[v].kind # "none" /\ value[w].kind # "none"
  /\ table[HandleOf(v)].parent = HandleOf(w)

Childless(S) == \A a \in S, v \in Names : ~ChildOf(v, a)

(* own: [Names -> kinds], kin: pairs of child and parent, ready: variables  *)
(* with something to give out, unspent: those that may have.                *)
Picture(p) ==
  /\ \A v \in Names : value[v].kind = p.own[v]
  /\ \A v, w \in Names : ChildOf(v, w) <=> <<v, w>> \in p.kin
  /\ \A v \in p.ready : v \in Names /\ p.own[v] # "none" /\ StageOf(v) = "ready"
  /\ \A v \in p.unspent : v \in Names /\ p.own[v] # "none" /\ StageOf(v) # "spent"

(* What a step makes of the picture p: the variables `gone` lose what they  *)
(* own, those in `spent` have no more to give, those in `out` get a         *)
(* resource of kind k, child of those in par. Only what has no children can *)
(* go.                                                                      *)
Redrawn(p, gone, spent, out, k, par, q) ==
  /\ \A v \in Names : q.own[v] = IF v \in out THEN k
                                  ELSE IF v \in gone THEN "none" ELSE p.own[v]
  /\ \A v, w \in Names : <<v, w>> \in q.kin <=>
       IF v \in out THEN w \in par ELSE v \notin gone /\ <<v, w>> \in p.kin
  /\ \A v \in Names, a \in gone : <<v, a>> \notin p.kin
  /\ \A v \in q.ready : \/ v \in p.ready /\ v \notin gone \cup spent
                        \/ v \in out /\ k \notin Futures
  /\ \A v \in q.unspent : \/ v \in p.unspent /\ v \notin gone \cup spent
                          \/ v \in out

(* The variables other than `gone` and `out` keep their entries, but for    *)
(* the stage of those in `spent`. Those in `out` get a new one.             *)
Replaces(gone, spent, out, k) ==
  /\ \A v \in gone : value'[v] = NoValue
  /\ \A v \in Names \ (gone \cup out) :
       /\ value'[v] = value[v]
       /\ value[v].kind # "none" =>
            /\ table'[HandleOf(v)].parent = table[HandleOf(v)].parent
            /\ v \notin spent => table'[HandleOf(v)].stage = table[HandleOf(v)].stage
  /\ \A o \in out :
       /\ value[o].kind = "none" /\ value'[o].kind = k
       /\ table'[HandleOf(o)'].stage = IF k \in Futures THEN "pending" ELSE "ready"

LEMMA OwnerFacts ==
  ASSUME IInv
  PROVE  /\ \A v \in Names : value[v].kind # "none" =>
              /\ HandleOf(v) \in Handles /\ HandleOf(v) # MAX
              /\ table[HandleOf(v)].kind = value[v].kind /\ value[v].kind \in Kinds
         /\ \A v \in Names : value[v].kind = "none" => HandleOf(v) = MAX
         /\ \A v, w \in Names : value[v].kind # "none" /\ HandleOf(v) = HandleOf(w) => v = w
         /\ \A h \in Handles : Live(h) =>
              \E v \in Names : value[v].kind # "none" /\ HandleOf(v) = h
<1>1. \A v \in Names : value[v].kind = "none" => HandleOf(v) = MAX
  BY DEF IInv, Good, Owners, HandleOf, NoValue
<1>2. \A v \in Names : value[v].kind # "none" =>
              /\ HandleOf(v) \in Handles /\ HandleOf(v) # MAX
              /\ table[HandleOf(v)].kind = value[v].kind /\ value[v].kind \in Kinds
  BY MaxAssumption DEF IInv, Good, Owners, HandleOf, Values
<1>3. \A v, w \in Names : value[v].kind # "none" /\ HandleOf(v) = HandleOf(w) => v = w
  BY <1>2 DEF IInv, Good, Owners, HandleOf
<1>4. \A h \in Handles : Live(h) => \E v \in Names : HandleOf(v) = h
  BY DEF IInv, Good, Owners, HandleOf, Live
<1>5. \A h \in Handles : Live(h) =>
              \E v \in Names : value[v].kind # "none" /\ HandleOf(v) = h
  BY <1>1, <1>4, MaxAssumption
<1> QED BY <1>1, <1>2, <1>3, <1>5

(* A parent of an owned resource is owned.                                  *)
LEMMA ParentIsOwned ==
  ASSUME IInv, NEW v \in Names, value[v].kind # "none",
         table[HandleOf(v)].parent # MAX
  PROVE  \E w \in Names : ChildOf(v, w)
<1>1. HandleOf(v) \in Handles /\ table[HandleOf(v)].kind # "none"
  BY OwnerFacts
<1>2. /\ table[HandleOf(v)].parent \in Handles
      /\ table[table[HandleOf(v)].parent].kind # "none"
  BY <1>1, KindsAreSome DEF IInv, Good, Parents
<1>3. PICK w \in Names : value[w].kind # "none" /\ HandleOf(w) = table[HandleOf(v)].parent
  BY <1>2, OwnerFacts DEF Live
<1> QED BY <1>3 DEF ChildOf

LEMMA PictureOwns ==
  ASSUME IInv, NEW p, Picture(p), NEW v \in Names
  PROVE  p.own[v] = "none" <=> value[v] = NoValue
  BY DEF Picture, IInv, Good, Owners, NoValue

(* No call with childless arguments traps for their children.               *)
LEMMA ChildlessGive ==
  ASSUME IInv, NEW args, Owning(args), Childless(args)
  PROVE  Children(Given(args)) = {}
<1> SUFFICES ASSUME NEW c \in Handles, Live(c), table[c].parent \in Given(args)
             PROVE  FALSE
  BY DEF Children
<1>1. PICK a \in args : table[c].parent = HandleOf(a)
  BY ArgumentsGiveAll DEF HandleOf
<1>2. a \in Names /\ value[a].kind # "none"
  BY DEF Owning
<1>3. PICK v \in Names : value[v].kind # "none" /\ HandleOf(v) = c
  BY OwnerFacts
<1>4. ChildOf(v, a)
  BY <1>1, <1>2, <1>3 DEF ChildOf
<1> QED BY <1>4 DEF Childless

(* What a redrawn picture loses has no children.                            *)
LEMMA LostIsChildless ==
  ASSUME NEW p, Picture(p), NEW gone, NEW spent, NEW out, NEW k, NEW par, NEW q,
         Redrawn(p, gone, spent, out, k, par, q), gone \subseteq Names
  PROVE  Childless(gone)
  BY DEF Picture, Redrawn, Childless

(* How a step that replaces some variables' resources changes a picture.    *)
LEMMA PictureMoves ==
  ASSUME IInv, IInv', NEW gone \in SUBSET Names, NEW spent, NEW out \in SUBSET Names,
         NEW k \in Kinds \cup {"none"}, NEW par,
         Childless(gone), Replaces(gone, spent, out, k),
         \A o \in out, w \in Names : ChildOf(o, w)' <=> w \in par,
         NEW p, NEW q, Picture(p), Redrawn(p, gone, spent, out, k, par, q),
         out # {} => k # "none"
  PROVE  Picture(q)'
<1> DEFINE Rest == Names \ (gone \cup out)
<1>1. \A v \in Names : value'[v].kind = q.own[v]
  BY DEF Picture, Redrawn, Replaces, NoValue
<1>2. \A v \in Rest : /\ HandleOf(v)' = HandleOf(v) /\ value'[v].kind = value[v].kind
                      /\ value[v].kind # "none" =>
                           table'[HandleOf(v)].parent = table[HandleOf(v)].parent
  BY DEF Replaces, HandleOf
<1>3. ASSUME NEW v \in Names, NEW w \in Names, v \notin out
      PROVE  ChildOf(v, w)' <=> v \notin gone /\ ChildOf(v, w)
  <2>1. CASE v \in gone
    BY <2>1 DEF Replaces, ChildOf, NoValue
  <2>2. CASE v \in Rest /\ value[v].kind = "none"
    BY <2>2, <1>2 DEF ChildOf
  <2>3. CASE v \in Rest /\ value[v].kind # "none" /\ table[HandleOf(v)].parent = MAX
    <3>1. ~ChildOf(v, w)
      BY <2>3, OwnerFacts DEF ChildOf
    <3>2. IInv' => (value'[w].kind # "none" => HandleOf(w)' # MAX)
      BY MaxAssumption DEF IInv, Good, Owners, HandleOf
    <3>3. ~ChildOf(v, w)'
      BY <2>3, <1>2, <3>2 DEF ChildOf
    <3> QED BY <3>1, <3>3
  <2>4. CASE v \in Rest /\ value[v].kind # "none" /\ table[HandleOf(v)].parent # MAX
    <3>1. PICK u \in Names : ChildOf(v, u)
      BY <2>4, ParentIsOwned
    <3>2. u \in Rest /\ u # w => HandleOf(u)' # HandleOf(w)'
      <4>1. u \in Rest => value'[u].kind # "none"
        BY <3>1, <1>2 DEF ChildOf
      <4>2. IInv' => (value'[u].kind # "none" /\ HandleOf(u)' = HandleOf(w)' => u = w)
        BY MaxAssumption DEF IInv, Good, Owners, HandleOf
      <4> QED BY <4>1, <4>2
    <3>3. u \in Rest
      BY <3>1 DEF Childless, Replaces, ChildOf
    <3>4. ChildOf(v, u)'
      BY <2>4, <3>1, <3>3, <1>2 DEF ChildOf
    <3>5. ChildOf(v, w)' <=> w = u
      BY <3>2, <3>3, <3>4 DEF ChildOf
    <3>6. ChildOf(v, w) <=> w = u
      BY <3>1, OwnerFacts DEF ChildOf
    <3> QED BY <2>4, <3>5, <3>6
  <2> QED BY <1>3, <2>1, <2>2, <2>3, <2>4
<1>4. \A v, w \in Names : ChildOf(v, w)' <=> <<v, w>> \in q.kin
  BY <1>3 DEF Picture, Redrawn
<1>5. \A v \in q.ready : v \in Names /\ q.own[v] # "none" /\ StageOf(v)' = "ready"
  BY <1>2 DEF Picture, Redrawn, Replaces, StageOf
<1>6. \A v \in q.unspent : v \in Names /\ q.own[v] # "none" /\ StageOf(v)' # "spent"
  BY <1>2 DEF Picture, Redrawn, Replaces, StageOf
<1> QED BY <1>1, <1>4, <1>5, <1>6 DEF Picture

(* The call of the export: a request to consume, and an outparam.           *)
LEMMA ExportDraws ==
  ASSUME NEW request \in Names, NEW out \in Names, export_handle(request, out),
         NEW p, p.kin = {}, p.ready \subseteq {request}, p.unspent = {},
         \A v \in Names : p.own[v] = CASE v = request -> "incoming-request"
                                      [] v = out -> "response-outparam"
                                      [] OTHER -> "none"
  PROVE  Picture(p) /\ abandoned = {} /\ fate = "running"
<1>1. request # out /\ abandoned = {} /\ fate = "running"
  BY DEF export_handle
<1> DEFINE Exported(h, g) ==
             /\ table = With(With([i \in Handles |-> NoEntry], h,
                                  Entry("incoming-request", MAX)),
                             g, Entry("response-outparam", MAX))
             /\ value = [v \in Names |->
                           CASE v = request -> from_handle("incoming-request", h)
                             [] v = out -> from_handle("response-outparam", g)
                             [] OTHER -> NoValue]
<1>2. PICK h \in Reuse(Handles) : \E g \in Reuse(Handles \ {h}) : Exported(h, g)
  BY DEF export_handle
<1>3. PICK g \in Reuse(Handles \ {h}) : Exported(h, g)
  BY <1>2
<1>4. h \in Handles /\ g \in Handles /\ h # g
  BY ReuseAssumption
<1>5. \A v \in Names : value[v].kind = p.own[v]
  BY <1>1, <1>3 DEF from_handle, NoValue
<1>6. \A v \in Names : value[v].kind # "none" =>
        HandleOf(v) \in Handles /\ table[HandleOf(v)].parent = MAX
  <2>1. table[h].parent = MAX /\ table[g].parent = MAX
    BY <1>3, <1>4 DEF With, Entry
  <2>2. \A v \in Names : value[v].kind # "none" => HandleOf(v) \in {h, g}
    BY <1>1, <1>3 DEF from_handle, NoValue, HandleOf
  <2> QED BY <1>4, <2>1, <2>2
<1>7. \A v, w \in Names : ~ChildOf(v, w)
  BY <1>6, MaxAssumption DEF ChildOf
<1>8. StageOf(request) = "ready" /\ p.own[request] # "none"
  BY <1>1, <1>3, <1>4 DEF StageOf, HandleOf, from_handle, With, Entry, Futures
<1> QED BY <1>1, <1>5, <1>7, <1>8 DEF Picture

(* The wrappers a picture allows: they do not trap, and leave the picture   *)
(* redrawn.                                                                 *)
Goes(q) == Picture(q)' /\ UNCHANGED <<abandoned, fate>>

(* A call without effect.                                                   *)
LEMMA IdleDraws ==
  ASSUME UNCHANGED resourceVars, NEW p, NEW q, Picture(p),
         Redrawn(p, {}, {}, {}, "none", {}, q)
  PROVE  Goes(q)
  BY DEF Goes, Picture, Redrawn, ChildOf, HandleOf, StageOf, resourceVars

LEMMA GiveGoes ==
  ASSUME Running, NEW args, Owning(args), Childless(args), Give(args)
  PROVE  value' = GivenAway(args) /\ UNCHANGED <<abandoned, fate>>
  BY ChildlessGive, ArgumentsGiveAll DEF Give, EndCall, Running, GivenAway

LEMMA GiveDraws ==
  ASSUME Running, IInv', NEW args, Owning(args), NEW p, NEW q, Picture(p), Give(args),
         Redrawn(p, args, {}, {}, "none", {}, q)
  PROVE  Goes(q)
<1>1. args \in SUBSET Names /\ Childless(args)
  BY DEF Owning, Childless, Picture, Redrawn
<1>2. Children(Given(args)) = {}
  BY <1>1, ChildlessGive DEF Running
<1>3. Given(args) = {HandleOf(a) : a \in args} /\ Kept(args) = {}
  BY ArgumentsGiveAll DEF Running, HandleOf
<1>4. /\ table' = Without(Without(table, Given(args)), {})
      /\ value' = GivenAway(args)
      /\ UNCHANGED <<abandoned, fate>>
  BY <1>2, <1>3 DEF Give, EndCall, GivenAway
<1>5. \A h \in Handles : h \notin Given(args) => table'[h] = table[h]
  BY <1>4 DEF Without
<1>6. \A v \in Names : value[v].kind # "none" /\ v \notin args =>
        HandleOf(v) \in Handles /\ HandleOf(v) \notin Given(args)
  BY <1>1, <1>3, OwnerFacts DEF Running
<1>7. Replaces(args, {}, {}, "none")
  BY <1>1, <1>4, <1>5, <1>6 DEF Replaces, GivenAway
<1>8. Picture(q)'
  BY <1>1, <1>7, PictureMoves DEF Running
<1> QED BY <1>4, <1>8 DEF Goes

LEMMA MakeReplaces ==
  ASSUME Running, IInv', NEW args, Owning(args), Childless(args),
         NEW out \in Names, NEW k \in Kinds, NEW m, Make(args, out, k, m)
  PROVE  /\ Replaces(args, {}, {out}, k) /\ UNCHANGED <<abandoned, fate>>
         /\ table'[HandleOf(out)'].parent = m
<1> DEFINE tb == Without(table, Given(args))
           vs(n) == [value EXCEPT ![out] = from_handle(k, n)]
<1>1. value[out] = NoValue /\ Children(Given(args)) = {}
  BY ChildlessGive DEF Make, Running
<1>2. PICK n \in {h \in Handles : tb[h].kind = "none"} :
             EndCall(args, With(tb, n, Entry(k, m)), vs(n))
  BY <1>1, ReuseAssumption DEF Make
<1>3. Given(args) = {HandleOf(a) : a \in args} /\ Kept(args) = {}
  BY ArgumentsGiveAll DEF Running, HandleOf
<1>4. /\ table' = Without(With(tb, n, Entry(k, m)), {})
      /\ value' = [v \in Names |-> IF v \in args THEN NoValue ELSE vs(n)[v]]
      /\ UNCHANGED <<abandoned, fate>>
  BY <1>2, <1>3 DEF EndCall
<1>5. out \notin args
  BY <1>1 DEF Owning, NoValue
<1>6. /\ \A v \in args : value'[v] = NoValue
      /\ \A v \in Names : v \notin args /\ v # out => value'[v] = value[v]
      /\ value'[out] = [kind |-> k, handle |-> n]
  BY <1>4, <1>5 DEF Running, IInv, Good, Owning, from_handle
<1>7. /\ table'[n] = Entry(k, m)
      /\ \A h \in Handles : h # n /\ h \notin Given(args) => table'[h] = table[h]
  BY <1>4 DEF With, Without
<1>8. \A v \in Names : value[v].kind # "none" /\ v \notin args =>
        HandleOf(v) \in Handles /\ HandleOf(v) \notin Given(args) /\ HandleOf(v) # n
  <2> SUFFICES ASSUME NEW v \in Names, value[v].kind # "none", v \notin args
               PROVE  /\ HandleOf(v) \in Handles /\ HandleOf(v) \notin Given(args)
                      /\ HandleOf(v) # n
    OBVIOUS
  <2>1. HandleOf(v) \in Handles /\ table[HandleOf(v)].kind # "none"
    BY OwnerFacts DEF Running
  <2>2. \A a \in args : a \in Names /\ HandleOf(a) # HandleOf(v)
    BY OwnerFacts DEF Running, Owning
  <2>3. HandleOf(v) \notin Given(args)
    BY <1>3, <2>2
  <2> QED BY <2>1, <2>3 DEF Without
<1>9. Replaces(args, {}, {out}, k)
  BY <1>1, <1>6, <1>7, <1>8 DEF Replaces, NoValue, HandleOf, Entry
<1> QED BY <1>4, <1>6, <1>7, <1>9 DEF HandleOf, Entry

(* A new resource that is no child.                                         *)
LEMMA RootDraws ==
  ASSUME Running, IInv', NEW args, Owning(args), NEW out \in Names, NEW k \in Kinds,
         NEW p, NEW q, Picture(p), Make(args, out, k, MAX),
         Redrawn(p, args, {}, {out}, k, {}, q)
  PROVE  Goes(q)
<1>1. args \in SUBSET Names /\ Childless(args)
  BY DEF Owning, Childless, Picture, Redrawn
<1>2. /\ Replaces(args, {}, {out}, k) /\ UNCHANGED <<abandoned, fate>>
      /\ table'[HandleOf(out)'].parent = MAX
  BY <1>1, MakeReplaces
<1>3. \A w \in Names : ~ChildOf(out, w)'
  <2>1. IInv' => \A w \in Names : value'[w].kind # "none" => HandleOf(w)' # MAX
    BY MaxAssumption DEF IInv, Good, Owners, HandleOf
  <2> QED BY <1>2, <2>1 DEF ChildOf
<1>4. Picture(q)'
  BY <1>1, <1>2, <1>3, PictureMoves, KindsAreSome DEF Running
<1> QED BY <1>2, <1>4 DEF Goes

(* Whose handle a new resource has for its parent is its parent's child.    *)
LEMMA NewChildOf ==
  ASSUME IInv, IInv', NEW out \in Names, NEW self \in Names, self # out,
         value[self].kind # "none", value'[self] = value[self],
         value'[out].kind # "none", table'[HandleOf(out)'].parent = HandleOf(self)
  PROVE  \A w \in Names : ChildOf(out, w)' <=> w \in {self}
<1>1. HandleOf(self)' = HandleOf(self)
  BY DEF HandleOf
<1>2. \A w \in Names : value'[self].kind # "none" /\ HandleOf(self)' = HandleOf(w)'
                       => w = self
  BY MaxAssumption DEF IInv, Good, Owners, HandleOf
<1> QED BY <1>1, <1>2 DEF ChildOf

(* A new child.                                                             *)
LEMMA ChildDraws ==
  ASSUME Running, IInv', NEW self \in Names, NEW j \in Kinds, IsA(self, j),
         NEW out \in Names, NEW k \in Kinds,
         NEW p, NEW q, Picture(p), Child(self, out, k),
         Redrawn(p, {}, {}, {out}, k, {self}, q)
  PROVE  Goes(q)
<1>1. Owning({}) /\ Childless({})
  BY DEF Owning, Childless
<1>2. /\ Replaces({}, {}, {out}, k) /\ UNCHANGED <<abandoned, fate>>
      /\ table'[HandleOf(out)'].parent = HandleOf(self)
  BY <1>1, MakeReplaces DEF Child
<1>3. value[self].kind # "none" /\ self # out /\ value'[self] = value[self]
      /\ value'[out].kind # "none"
  BY <1>2, KindsAreSome DEF Replaces, IsA
<1>4. \A w \in Names : ChildOf(out, w)' <=> w \in {self}
  BY <1>2, <1>3, NewChildOf DEF Running
<1>5. Picture(q)'
  BY <1>1, <1>2, <1>4, PictureMoves, KindsAreSome DEF Running
<1> QED BY <1>2, <1>5 DEF Goes

(* What is given out, once and for all or not.                              *)
LEMMA SpendForReplaces ==
  ASSUME Running, NEW self \in Names, NEW j \in Kinds, IsA(self, j),
         NEW out \in Names, NEW k \in Kinds, NEW m, SpendFor(self, out, k, m)
  PROVE  /\ Replaces({}, {self}, {out}, k) /\ UNCHANGED <<abandoned, fate>>
         /\ table'[HandleOf(out)'].parent = m
         /\ value'[self] = value[self] /\ self # out
<1>1. PICK n \in Handles :
        /\ ~Live(n)
        /\ table' = With([table EXCEPT ![HandleOf(self)].stage = "spent"], n, Entry(k, m))
        /\ value' = [value EXCEPT ![out] = from_handle(k, n)]
  <2>1. PICK n \in Reuse({h \in Handles : ~Live(h)}) :
          /\ table' = With([table EXCEPT ![HandleOf(self)].stage = "spent"], n, Entry(k, m))
          /\ value' = [value EXCEPT ![out] = from_handle(k, n)]
    BY DEF SpendFor
  <2>2. n \in {h \in Handles : ~Live(h)}
    BY ReuseAssumption
  <2> QED BY <2>1, <2>2
<1>2. value[out] = NoValue /\ UNCHANGED <<abandoned, fate>>
  BY DEF SpendFor
<1>3. HandleOf(self) \in Handles /\ self # out
  BY <1>2, IsAOwning DEF Running, IsA
<1>4. /\ \A v \in Names : v # out => value'[v] = value[v]
      /\ value'[out] = [kind |-> k, handle |-> n]
  BY <1>1 DEF Running, IInv, Good, from_handle
<1>5. /\ table'[n] = Entry(k, m)
      /\ \A h \in Handles : h # n => table'[h].parent = table[h].parent
      /\ \A h \in Handles : h # n /\ h # HandleOf(self) => table'[h].stage = table[h].stage
  BY <1>1 DEF With, Running, IInv, Good, Entries
<1>6. \A v \in Names : value[v].kind # "none" => HandleOf(v) \in Handles /\ HandleOf(v) # n
  BY <1>1, OwnerFacts DEF Running, Live
<1>7. \A v \in Names : value[v].kind # "none" /\ v # self => HandleOf(v) # HandleOf(self)
  BY OwnerFacts DEF Running
<1>8. Replaces({}, {self}, {out}, k)
  BY <1>2, <1>4, <1>5, <1>6, <1>7 DEF Replaces, HandleOf, Entry, NoValue
<1> QED BY <1>2, <1>3, <1>4, <1>5, <1>8 DEF HandleOf, Entry

LEMMA SpendForDraws ==
  ASSUME Running, IInv', NEW self \in Names, NEW j \in Kinds, IsA(self, j),
         NEW out \in Names, NEW k \in Kinds, NEW m \in {MAX, HandleOf(self)},
         NEW p, NEW q, Picture(p), SpendFor(self, out, k, m),
         Redrawn(p, {}, {self}, {out}, k, IF m = MAX THEN {} ELSE {self}, q)
  PROVE  Goes(q)
<1>1. /\ Replaces({}, {self}, {out}, k) /\ UNCHANGED <<abandoned, fate>>
      /\ table'[HandleOf(out)'].parent = m
      /\ value'[self] = value[self] /\ self # out
  BY SpendForReplaces
<1>2. value[self].kind # "none" /\ HandleOf(self) # MAX /\ value'[out].kind # "none"
  BY <1>1, IsAOwning, KindsAreSome DEF Running, IsA, Replaces
<1>3. ASSUME m = MAX PROVE \A w \in Names : ~ChildOf(out, w)'
  <2>1. IInv' => \A w \in Names : value'[w].kind # "none" => HandleOf(w)' # MAX
    BY MaxAssumption DEF IInv, Good, Owners, HandleOf
  <2> QED BY <1>1, <1>3, <2>1 DEF ChildOf
<1>4. ASSUME m # MAX PROVE \A w \in Names : ChildOf(out, w)' <=> w \in {self}
  BY <1>1, <1>2, <1>4, NewChildOf DEF Running
<1>5. Childless({})
  BY DEF Childless
<1>6. Picture(q)'
  <2>1. \A w \in Names : ChildOf(out, w)' <=> w \in (IF m = MAX THEN {} ELSE {self})
    BY <1>3, <1>4
  <2> QED BY <1>1, <1>5, <2>1, PictureMoves, KindsAreSome DEF Running
<1> QED BY <1>1, <1>6 DEF Goes

LEMMA GiveOutDraws ==
  ASSUME Running, IInv', NEW self \in Names, NEW j \in Kinds, IsA(self, j),
         NEW out \in Names, NEW k \in Kinds,
         NEW p, NEW q, Picture(p), GiveOut(self, out, k, MAX),
         Redrawn(p, {}, {self}, {out}, k, {}, q)
  PROVE  Goes(q)
  BY SpendForDraws DEF GiveOut

LEMMA GiveChildDraws ==
  ASSUME Running, IInv', NEW self \in Names, NEW j \in Kinds, IsA(self, j),
         NEW out \in Names, NEW k \in Kinds,
         NEW p, NEW q, Picture(p), GiveOut(self, out, k, HandleOf(self)),
         Redrawn(p, {}, {self}, {out}, k, {self}, q)
  PROVE  Goes(q)
<1>1. HandleOf(self) # MAX
  BY IsAOwning DEF Running
<1> QED BY <1>1, SpendForDraws DEF GiveOut

LEMMA SpendDraws ==
  ASSUME Running, IInv', NEW self \in Names, NEW j \in Kinds, IsA(self, j),
         NEW p, NEW q, Picture(p), Spend(self),
         Redrawn(p, {}, {self}, {}, "none", {}, q)
  PROVE  Goes(q)
<1>1. UNCHANGED <<value, abandoned, fate>>
  BY DEF Spend
<1>2. \A h \in Handles : /\ table'[h].parent = table[h].parent
                         /\ h # HandleOf(self) => table'[h].stage = table[h].stage
  BY DEF Spend, Running, IInv, Good, Entries
<1>3. \A v \in Names : value[v].kind # "none" =>
        HandleOf(v) \in Handles /\ (v # self => HandleOf(v) # HandleOf(self))
  BY OwnerFacts DEF Running
<1>4. Replaces({}, {self}, {}, "none") /\ Childless({})
  BY <1>1, <1>2, <1>3 DEF Replaces, Childless
<1>5. Picture(q)'
  BY <1>4, PictureMoves DEF Running
<1> QED BY <1>1, <1>5 DEF Goes

LEMMA DropDraws ==
  ASSUME Running, IInv', NEW v \in Names, NEW k \in Kinds, Drop(v, k),
         k \notin {"outgoing-body", "response-outparam"},
         NEW p, NEW q, Picture(p),
         Redrawn(p, {v}, {}, {}, "none", {}, q)
  PROVE  Goes(q)
<1>1. Owning({v}) /\ HandleOf(v) # MAX
  BY IsAOwning DEF Drop, Running
<1>2. Childless({v})
  BY DEF Childless, Picture, Redrawn
<1>3. DropHandles(value[v]) = {HandleOf(v)} /\ Given({v}) = {HandleOf(v)}
  BY <1>1, ArgumentsGiveAll DEF DropHandles, HandleOf, Running
<1>4. Children({HandleOf(v)}) = {}
  BY <1>1, <1>2, <1>3, ChildlessGive DEF Running
<1>5. /\ table' = Without(table, {HandleOf(v)})
      /\ value' = [value EXCEPT ![v] = NoValue]
      /\ UNCHANGED <<abandoned, fate>>
  BY <1>3, <1>4 DEF Drop, Running, IInv
<1>6. \A w \in Names : value[w].kind # "none" /\ w # v =>
        HandleOf(w) \in Handles /\ HandleOf(w) # HandleOf(v)
  BY OwnerFacts DEF Running
<1>7. Replaces({v}, {}, {}, "none")
  <2>1. \A w \in Names : value'[w] = IF w = v THEN NoValue ELSE value[w]
    BY <1>5 DEF Running, IInv, Good
  <2>2. \A h \in Handles : h # HandleOf(v) => table'[h] = table[h]
    BY <1>5 DEF Without
  <2> QED BY <1>6, <2>1, <2>2 DEF Replaces
<1>8. Picture(q)'
  BY <1>2, <1>7, PictureMoves DEF Running
<1> QED BY <1>5, <1>8 DEF Goes

(* A stream call ends with an error, or takes what the stream can give.     *)
LEMMA StreamCallDraws ==
  ASSUME Running, IInv', NEW self \in Names, NEW j \in Streams, IsA(self, j),
         NEW out \in Names, StreamCall(self, out),
         NEW p, NEW q, Picture(p), Redrawn(p, {}, {self}, {}, "none", {}, q)
  PROVE  UNCHANGED <<abandoned, fate>> /\ (value'[out] # NoValue \/ Goes(q))
<1>1. j \in Kinds
  BY DEF Kinds
<1>2. CASE UNCHANGED resourceVars
  <2>1. Redrawn(p, {}, {}, {}, "none", {}, q)
    BY DEF Redrawn
  <2> QED BY <1>2, <2>1, IdleDraws DEF Goes
<1>3. CASE Spend(self)
  BY <1>1, <1>3, SpendDraws DEF Goes
<1>4. CASE SpendFor(self, out, "error", MAX)
  <2>1. UNCHANGED <<abandoned, fate>> /\ Replaces({}, {self}, {out}, "error")
    BY <1>1, <1>4, SpendForReplaces DEF Kinds
  <2>2. value'[out] # NoValue
    BY <2>1 DEF Replaces, NoValue
  <2> QED BY <2>1, <2>2
<1> QED BY <1>2, <1>3, <1>4 DEF StreamCall

(* The host settles a future.                                               *)
LEMMA SettleDraws ==
  ASSUME Running, NEW h \in Handles, Settle(h), NEW p, Picture(p)
  PROVE  Goes(p)
<1>1. UNCHANGED <<value, abandoned, fate>>
  BY DEF Settle
<1>2. \A g \in Handles : /\ table'[g].parent = table[g].parent
                         /\ \/ table'[g].stage = table[g].stage
                            \/ table[g].stage = "pending" /\ table'[g].stage = "ready"
  BY DEF Settle, Running, IInv, Good, Entries
<1>3. \A v \in Names : value[v].kind # "none" => HandleOf(v) \in Handles
  BY OwnerFacts DEF Running
<1>4. \A v, w \in Names : ChildOf(v, w)' <=> ChildOf(v, w)
  BY <1>1, <1>2, <1>3 DEF ChildOf, HandleOf
<1>5. \A v \in Names : value[v].kind # "none" =>
        \/ StageOf(v)' = StageOf(v)
        \/ StageOf(v) = "pending" /\ StageOf(v)' = "ready"
  BY <1>1, <1>2, <1>3 DEF StageOf, HandleOf
<1> QED BY <1>1, <1>4, <1>5 DEF Goes, Picture

(* After the wait for the pollable of a future, the future is ready unless  *)
(* what it had is gone.                                                     *)
LEMMA BlockDraws ==
  ASSUME Running, NEW v \in Names, NEW f \in Names, Pollable_block(v),
         NEW p, NEW q, Picture(p), <<v, f>> \in p.kin, f \in p.unspent,
         Redrawn([p EXCEPT !.ready = @ \cup {f}], {}, {}, {}, "none", {}, q),
         p = [own |-> p.own, kin |-> p.kin, ready |-> p.ready, unspent |-> p.unspent]
  PROVE  Goes(q)
<1>1. UNCHANGED resourceVars
  BY DEF Pollable_block
<1>2. StageOf(f) = "ready"
  <2>1. ChildOf(v, f)
    BY DEF Picture
  <2>2. HandleOf(f) \in Handles /\ HandleOf(f) # MAX
    BY <2>1, OwnerFacts DEF ChildOf, Running
  <2>3. StageOf(f) # "pending"
    BY <2>1, <2>2 DEF Pollable_block, MayBeReady, ChildOf, StageOf
  <2>4. StageOf(f) \in {"pending", "ready", "spent"}
    BY <2>2 DEF StageOf, Running, IInv, Good, Entries
  <2> QED BY <2>3, <2>4 DEF Picture
<1>3. Picture([p EXCEPT !.ready = @ \cup {f}])
  <2> DEFINE r == [p EXCEPT !.ready = @ \cup {f}]
  <2>1. r.own = p.own /\ r.kin = p.kin /\ r.ready = p.ready \cup {f} /\ r.unspent = p.unspent
    OBVIOUS
  <2> HIDE DEF r
  <2> QED BY <1>2, <2>1 DEF Picture
<1> QED BY <1>1, <1>3, IdleDraws
=============================================================================
