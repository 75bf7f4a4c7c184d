-------------------------- MODULE PluginSdkProofs --------------------------
(***************************************************************************)
(* The parts of the SDK that keep state.                                    *)
(*                                                                          *)
(* PluginHost, for any number of contexts and of root ids: the host's       *)
(* bookkeeping and the plugin's tables agree, so no callback meets a null   *)
(* pointer. IInv adds to the invariants of PluginHost only that the host    *)
(* deletes a root after its streams, and that only roots ask for time.      *)
(*                                                                          *)
(* Callouts, for any number of tokens and calls: a token that is not being  *)
(* answered is in the table of the call the host has under it; of one that  *)
(* is, the host knows no more than what is left to do when the callback     *)
(* returns.                                                                 *)
(***************************************************************************)
EXTENDS PluginHost, Callouts, TLAPS


(* Only a root context may put off its end (RootContext::onDone).           *)
OnlyRootsClose == \A id \in Ids : stage[id] = "closing" => parent[id] = 0

(* A stream that exists was created under a root that exists.               *)
Hierarchy ==
  \A id \in Ids :
    Exists(id) /\ parent[id] # 0 => Exists(parent[id]) /\ parent[parent[id]] = 0

(* The two conjuncts of IInv about one context.                             *)
Agrees(id) ==
  LET o == context_map[id] IN
    /\ o \in Objects
    /\ o \notin freed
    /\ heap[o].id = id
    /\ heap[o].kind = IF parent[id] = 0 THEN "root" ELSE "stream"
    /\ creates[o] = 1

Outlives(id) ==
  LET o == heap[context_map[id]] IN
    o.kind = "stream" =>
      /\ parent[id] \in DOMAIN context_map
      /\ o.root = context_map[parent[id]]
      /\ o.custom <=> heap[o.root].root_id \in ContextFactories

IInv ==
  /\ TypeOK /\ NeverCrashes /\ RegistryAgrees /\ RootsOutliveStreams
  /\ Hierarchy /\ OnlyRootsClose

-----------------------------------------------------------------------------
(* The steps of the tables, apart from the host.                            *)

LEMMA Entered ==
  ASSUME RegistryTypeOK, NEW id \in Ids, NEW object \in Object,
         Enter(id, object)
  PROVE  /\ heap' \in Seq(Object)
         /\ Len(heap') = Len(heap) + 1
         /\ \A o \in Objects : heap'[o] = heap[o] /\ creates'[o] = creates[o]
         /\ heap'[Len(heap) + 1] = object
         /\ creates' \in Seq(Nat)
         /\ Len(creates') = Len(heap')
         /\ creates'[Len(heap) + 1] = 1
         /\ DOMAIN context_map' = DOMAIN context_map \cup {id}
         /\ context_map'[id] = Len(heap) + 1
         /\ \A i \in DOMAIN context_map : i # id => context_map'[i] = context_map[i]
  BY DEF RegistryTypeOK, Enter, Bind, Objects

LEMMA InitInvariant == Init => IInv
<1> SUFFICES ASSUME Init PROVE IInv
  OBVIOUS
<1> USE DEF Init, RegistryInit
<1>1. /\ Len(heap) = 0
      /\ heap \in Seq(Object)
      /\ creates \in Seq(Nat)
      /\ DOMAIN context_map = {}
      /\ DOMAIN root_map = {}
  OBVIOUS
<1>2. TypeOK
  BY <1>1 DEF TypeOK, RegistryTypeOK
<1>3. NeverCrashes /\ RegistryAgrees /\ RootsOutliveStreams
  BY <1>1 DEF NeverCrashes, RegistryAgrees, RootsOutliveStreams, Exists
<1>4. Hierarchy /\ OnlyRootsClose
  BY DEF Hierarchy, OnlyRootsClose, Exists
<1> QED
  BY <1>2, <1>3, <1>4 DEF IInv

(* A context that enters the tables under an id the host did not use: the   *)
(* others keep their objects, the new one gets its own.                     *)
LEMMA EnteredAgrees ==
  ASSUME IInv, NEW id \in Ids, NEW p \in Ids \cup {0}, NEW object \in Object,
         Created(id, p), Enter(id, object), UNCHANGED <<freed, crashed>>,
         object.id = id, object.kind = IF p = 0 THEN "root" ELSE "stream",
         DOMAIN root_map' \subseteq RootIds,
         \A r \in DOMAIN root_map' : root_map'[r] \in Objects',
         p # 0 => /\ IsRoot(p)
                  /\ object.root = context_map[p]
                  /\ object.custom <=> heap[context_map[p]].root_id \in ContextFactories
  PROVE  IInv'
<1> USE DEF IInv
<1>1. /\ id \notin DOMAIN context_map
      /\ DOMAIN context_map = {i \in Ids : Exists(i)}
      /\ id # p
  BY IdsAssumption DEF Created, Exists, IsRoot, RegistryAgrees
<1>2. /\ heap' \in Seq(Object)
      /\ Len(heap') = Len(heap) + 1
      /\ \A o \in Objects : heap'[o] = heap[o] /\ creates'[o] = creates[o]
      /\ heap'[Len(heap) + 1] = object
      /\ creates' \in Seq(Nat)
      /\ Len(creates') = Len(heap')
      /\ creates'[Len(heap) + 1] = 1
      /\ DOMAIN context_map' = DOMAIN context_map \cup {id}
      /\ context_map'[id] = Len(heap) + 1
      /\ \A i \in DOMAIN context_map : context_map'[i] = context_map[i]
  <2>1. RegistryTypeOK
    BY DEF TypeOK
  <2>2. \A i \in DOMAIN context_map : i # id
    BY <1>1
  <2> HIDE DEF IInv
  <2> QED
    BY <2>1, <2>2, Entered, Zenon
<1>3. /\ Objects' = Objects \cup {Len(heap) + 1}
      /\ Len(heap) + 1 \notin Objects
  <2>1. Len(heap) \in Nat
    BY DEF TypeOK, RegistryTypeOK
  <2> QED
    BY <1>2, <2>1 DEF Objects
<1>4. TypeOK'
  <2>1. RegistryTypeOK'
    BY <1>1, <1>2, <1>3 DEF TypeOK, RegistryTypeOK
  <2>2. /\ stage' \in [Ids -> {"none", "live", "closing", "done", "logged"}]
        /\ parent' \in [Ids -> Ids \cup {0}]
    BY DEF TypeOK, Created
  <2> QED
    BY <2>1, <2>2 DEF TypeOK
<1>5. /\ stage'[id] = "live" /\ parent'[id] = p
      /\ \A i \in Ids : i # id => stage'[i] = stage[i] /\ parent'[i] = parent[i]
  BY DEF TypeOK, Created
<1>6. \A i \in Ids : Exists(i)' <=> Exists(i) \/ i = id
  BY <1>5 DEF Exists
<1>7. NeverCrashes'
  BY DEF NeverCrashes
<1>8. RegistryAgrees'
  <2>1. DOMAIN context_map' = {i \in Ids : Exists(i)'}
    BY <1>1, <1>2, <1>6
  <2>2. ASSUME NEW i \in DOMAIN context_map' PROVE Agrees(i)'
    <3>1. CASE i = id
      BY <1>2, <1>3, <1>5, <3>1 DEF Agrees, TypeOK, RegistryTypeOK
    <3>2. CASE i # id
      BY <1>1, <1>2, <1>3, <1>5, <3>2
         DEF Agrees, TypeOK, RegistryTypeOK, RegistryAgrees
    <3> QED
      BY <3>1, <3>2
  <2> QED
    BY <2>1, <2>2 DEF RegistryAgrees, Agrees
<1>9. RootsOutliveStreams'
  <2>1. ASSUME NEW i \in DOMAIN context_map' PROVE Outlives(i)'
    <3>1. CASE i = id
      <4>1. heap'[context_map'[i]] = object
        BY <1>2, <3>1
      <4>2. CASE p = 0
        BY <4>1, <4>2 DEF Outlives
      <4>3. CASE p # 0
        <5>1. p \in DOMAIN context_map /\ context_map[p] \in Objects
          BY <1>1, <4>3 DEF IsRoot, RegistryAgrees, TypeOK, RegistryTypeOK
        <5> QED
          BY <1>2, <1>5, <3>1, <4>1, <4>3, <5>1 DEF Outlives
      <4> QED
        BY <4>2, <4>3
    <3>2. CASE i # id
      <4>1. /\ i \in DOMAIN context_map
            /\ context_map[i] \in Objects
            /\ heap'[context_map'[i]] = heap[context_map[i]]
            /\ parent'[i] = parent[i]
        BY <1>1, <1>2, <1>5, <3>2 DEF TypeOK, RegistryTypeOK
      <4>2. SUFFICES ASSUME heap[context_map[i]].kind = "stream"
                     PROVE  Outlives(i)'
        BY <4>1 DEF Outlives
      <4>3. /\ parent[i] \in DOMAIN context_map
            /\ heap[context_map[i]].root = context_map[parent[i]]
            /\ heap[context_map[i]].custom <=>
                 heap[heap[context_map[i]].root].root_id \in ContextFactories
        BY <4>1, <4>2 DEF RootsOutliveStreams
      <4>4. context_map[parent[i]] \in Objects
        BY <4>3 DEF TypeOK, RegistryTypeOK
      <4> QED
        BY <1>2, <4>1, <4>3, <4>4 DEF Outlives
    <3> QED
      BY <3>1, <3>2
  <2> QED
    BY <2>1 DEF RootsOutliveStreams, Outlives
<1>10. Hierarchy'
  <2>1. SUFFICES ASSUME NEW i \in Ids, stage'[i] # "none", parent'[i] # 0
                 PROVE  stage'[parent'[i]] # "none" /\ parent'[parent'[i]] = 0
    BY DEF Hierarchy, Exists
  <2>2. CASE i = id
    BY <1>1, <1>5, <1>6, <2>1, <2>2 DEF IsRoot, Exists
  <2>3. CASE i # id
    <3>1. Exists(i) /\ parent[i] # 0 /\ parent'[i] = parent[i]
      BY <1>5, <2>1, <2>3 DEF Exists
    <3>2. parent[i] \in Ids
      BY <3>1 DEF TypeOK
    <3>3. Exists(parent[i]) /\ parent[parent[i]] = 0
      BY <3>1 DEF Hierarchy
    <3>4. parent[i] # id
      BY <3>3 DEF Created, Exists
    <3> QED
      BY <1>5, <1>6, <3>1, <3>2, <3>3, <3>4 DEF Exists
  <2> QED
    BY <2>2, <2>3
<1>11. OnlyRootsClose'
  BY <1>5 DEF OnlyRootsClose, TypeOK
<1> QED
  BY <1>4, <1>7, <1>8, <1>9, <1>10, <1>11

(* A step of the host about contexts that stay.                             *)
LEMMA HostMovesOn ==
  ASSUME IInv, UNCHANGED <<registryVars, parent>>,
         stage' \in [Ids -> {"none", "live", "closing", "done", "logged"}],
         \A i \in Ids : stage'[i] = "none" <=> stage[i] = "none",
         \A i \in Ids : stage'[i] = "closing" => parent[i] = 0
  PROVE  IInv'
<1> USE DEF IInv, registryVars
<1>1. TypeOK'
  BY DEF TypeOK, RegistryTypeOK, Objects
<1>2. NeverCrashes' /\ OnlyRootsClose'
  BY DEF NeverCrashes, OnlyRootsClose
<1>3. RegistryAgrees'
  BY DEF RegistryAgrees, Exists
<1>4. RootsOutliveStreams'
  BY DEF RootsOutliveStreams
<1>5. Hierarchy'
  BY DEF Hierarchy, Exists, TypeOK
<1> QED
  BY <1>1, <1>2, <1>3, <1>4, <1>5

(* What the host knows of a context is what getContext and getRootContext   *)
(* find.                                                                    *)
LEMMA FoundByKind ==
  ASSUME IInv, NEW id \in Ids, Exists(id)
  PROVE  /\ Known(id)
         /\ IsKind(id, "root") <=> parent[id] = 0
         /\ IsKind(id, "stream") <=> parent[id] # 0
  BY DEF IInv, RegistryAgrees, Known, IsKind

LEMMA CreateRootPreserves ==
  ASSUME IInv, NEW id \in Ids, CreateRoot(id)
  PROVE  IInv'
<1>1. PICK r \in RootIds : EnsureRootContext(id, r)
  BY DEF CreateRoot
<1>2. Created(id, 0) /\ ~Known(id)
  BY DEF CreateRoot, Created, Known, IInv, RegistryAgrees, Exists
<1>3. /\ Enter(id, RootObject(id, r))
      /\ root_map' = Bind(root_map, r, Len(heap) + 1)
      /\ UNCHANGED <<freed, crashed>>
  BY <1>1, <1>2 DEF EnsureRootContext, IsKind
<1>4. /\ RootObject(id, r) \in Object
      /\ RootObject(id, r).id = id
      /\ RootObject(id, r).kind = "root"
  <2>1. Len(heap) \in Nat
    BY DEF IInv, TypeOK, RegistryTypeOK
  <2> QED
    BY <2>1 DEF RootObject, Object
<1>5. /\ DOMAIN root_map' \subseteq RootIds
      /\ \A s \in DOMAIN root_map' : root_map'[s] \in Objects'
  <2>1. heap' = Append(heap, RootObject(id, r)) /\ heap \in Seq(Object)
    BY <1>3 DEF Enter, IInv, TypeOK, RegistryTypeOK
  <2>2. Len(heap') = Len(heap) + 1 /\ Len(heap) \in Nat
    BY <1>4, <2>1
  <2> QED
    BY <1>3, <2>2 DEF Bind, Objects, IInv, TypeOK, RegistryTypeOK
<1> QED
  BY <1>2, <1>3, <1>4, <1>5, EnteredAgrees

LEMMA CreateStreamPreserves ==
  ASSUME IInv, NEW id \in Ids, NEW p \in Ids, CreateStream(id, p)
  PROVE  IInv'
<1>1. /\ Created(id, p)
      /\ IsRoot(p)
      /\ p # 0
      /\ ~Known(id)
      /\ IsKind(p, "root")
  <2>1. Created(id, p) /\ IsRoot(p) /\ p # 0
    BY IdsAssumption DEF CreateStream
  <2> QED
    BY <2>1, FoundByKind DEF Created, Known, IInv, RegistryAgrees, Exists, IsRoot
<1> DEFINE object == StreamObject(id, context_map[p])
<1>2. Enter(id, object) /\ UNCHANGED <<freed, root_map, crashed>>
  BY <1>1 DEF CreateStream, EnsureContext, IsKind
<1>3. context_map[p] \in Objects /\ heap[context_map[p]] \in Object
  BY <1>1 DEF IsKind, Known, IInv, TypeOK, RegistryTypeOK, Objects
<1>4. /\ object \in Object
      /\ object.id = id
      /\ object.kind = "stream"
      /\ object.root = context_map[p]
      /\ object.custom <=> heap[context_map[p]].root_id \in ContextFactories
  <2>1. object \in Object
    <3>1. /\ context_map[p] \in Nat
          /\ heap[context_map[p]].root_id \in RootIds
      BY <1>3 DEF Object, Objects
    <3> QED
      BY <3>1 DEF StreamObject, Object
  <2>2. object.id = id /\ object.kind = "stream" /\ object.root = context_map[p]
    BY DEF StreamObject
  <2>3. object.custom = (heap[context_map[p]].root_id \in ContextFactories)
    BY DEF StreamObject
  <2> QED
    BY <2>1, <2>2, <2>3, Zenon
<1>5. /\ DOMAIN root_map' \subseteq RootIds
      /\ \A s \in DOMAIN root_map' : root_map'[s] \in Objects'
  <2>1. heap' = Append(heap, object) /\ heap \in Seq(Object)
    BY <1>2 DEF Enter, IInv, TypeOK, RegistryTypeOK
  <2>2. Len(heap') = Len(heap) + 1 /\ Len(heap) \in Nat
    BY <1>4, <2>1
  <2> QED
    BY <1>2, <2>2 DEF Objects, IInv, TypeOK, RegistryTypeOK
<1> HIDE DEF object
<1> QED
  BY <1>1, <1>2, <1>4, <1>5, EnteredAgrees

LEMMA DeletePreserves ==
  ASSUME IInv, NEW id \in Ids, DeleteContext(id)
  PROVE  IInv'
<1> USE DEF IInv
<1>1. /\ Exists(id)
      /\ Known(id)
      /\ \A i \in Ids : Exists(i) => parent[i] # id
  BY FoundByKind DEF DeleteContext, Exists, Streams
<1>2. /\ freed' = freed \cup {context_map[id]}
      /\ DOMAIN context_map' = DOMAIN context_map \ {id}
      /\ \A i \in DOMAIN context_map' : context_map'[i] = context_map[i]
      /\ UNCHANGED <<heap, root_map, creates, crashed>>
  BY <1>1 DEF DeleteContext, Delete, Restrict
<1>3. /\ parent' = parent
      /\ stage' = [stage EXCEPT ![id] = "none"]
      /\ \A i \in Ids : Exists(i)' <=> Exists(i) /\ i # id
  BY DEF DeleteContext, TypeOK, Exists
<1>4. TypeOK'
  BY <1>1, <1>2, <1>3 DEF TypeOK, RegistryTypeOK, Objects, Known
<1>5. NeverCrashes' /\ OnlyRootsClose'
  BY <1>2, <1>3 DEF NeverCrashes, OnlyRootsClose, TypeOK
<1>6. RegistryAgrees'
  <2>1. DOMAIN context_map' = {i \in Ids : Exists(i)'}
    BY <1>2, <1>3 DEF RegistryAgrees
  <2>2. ASSUME NEW i \in DOMAIN context_map' PROVE Agrees(i)'
    <3>1. i \in DOMAIN context_map /\ i # id
      BY <1>2
    <3>2. Agrees(i) /\ heap[context_map[id]].id = id
      BY <1>1, <3>1 DEF RegistryAgrees, Agrees, Known, TypeOK, RegistryTypeOK
    <3>3. context_map[i] # context_map[id]
      BY <3>1, <3>2 DEF Agrees
    <3> QED
      BY <1>2, <1>3, <3>2, <3>3 DEF Agrees, Objects
  <2> QED
    BY <2>1, <2>2 DEF RegistryAgrees, Agrees
<1>7. RootsOutliveStreams'
  <2>1. ASSUME NEW i \in DOMAIN context_map' PROVE Outlives(i)'
    <3>1. /\ i \in DOMAIN context_map
          /\ parent[i] # id
          /\ Outlives(i)
      BY <1>1, <1>2 DEF RootsOutliveStreams, Outlives, RegistryAgrees
    <3> QED
      BY <1>2, <1>3, <3>1 DEF Outlives
  <2> QED
    BY <2>1 DEF RootsOutliveStreams, Outlives
<1>8. Hierarchy'
  BY <1>1, <1>3 DEF Hierarchy, Exists, TypeOK
<1> QED
  BY <1>4, <1>5, <1>6, <1>7, <1>8

LEMMA CallPreserves ==
  ASSUME IInv, NEW id \in Ids, Call(id)
  PROVE  IInv'
<1>1. UNCHANGED <<registryVars, hostVars>>
  BY FoundByKind DEF Call, RootCallback, StreamCallback, IsRoot
<1> QED
  BY <1>1, HostMovesOn DEF hostVars, IInv, TypeOK, OnlyRootsClose

LEMMA EndPreserves ==
  ASSUME IInv, NEW id \in Ids, Done(id) \/ PluginDone(id) \/ Log(id)
  PROVE  IInv'
<1>1. Exists(id)
  BY DEF Done, PluginDone, Log, Exists
<1>2. UNCHANGED <<registryVars, parent>>
  BY <1>1, FoundByKind
     DEF Done, PluginDone, Log, BaseCallback, RootCallback, IInv, OnlyRootsClose
<1>3. /\ stage' \in [Ids -> {"none", "live", "closing", "done", "logged"}]
      /\ \A i \in Ids : stage'[i] = "none" <=> stage[i] = "none"
      /\ \A i \in Ids : stage'[i] = "closing" => parent[i] = 0
  BY DEF Done, PluginDone, Log, IsRoot, IInv, TypeOK, OnlyRootsClose
<1> QED
  BY <1>2, <1>3, HostMovesOn

-----------------------------------------------------------------------------
LEMMA NextInvariant == IInv /\ [Next]_vars => IInv'
<1> SUFFICES ASSUME IInv, [Next]_vars PROVE IInv'
  OBVIOUS
<1>1. ASSUME NEW id \in Ids, CreateRoot(id) PROVE IInv'
  BY <1>1, CreateRootPreserves
<1>2. ASSUME NEW id \in Ids, NEW p \in Ids, CreateStream(id, p) PROVE IInv'
  BY <1>2, CreateStreamPreserves
<1>3. ASSUME NEW id \in Ids, Call(id) PROVE IInv'
  BY <1>3, CallPreserves
<1>4. ASSUME NEW id \in Ids, Done(id) \/ PluginDone(id) \/ Log(id) PROVE IInv'
  BY <1>4, EndPreserves
<1>5. ASSUME NEW id \in Ids, DeleteContext(id) PROVE IInv'
  BY <1>5, DeletePreserves
<1>6. CASE UNCHANGED vars
  BY <1>6, HostMovesOn DEF vars, hostVars, IInv, TypeOK, OnlyRootsClose
<1> QED
  BY <1>1, <1>2, <1>3, <1>4, <1>5, <1>6 DEF Next

LEMMA Invariance == Spec => []IInv
  BY InitInvariant, NextInvariant, PTL DEF Spec

(* The tables and the host's bookkeeping keep their types.                  *)
THEOREM TypeCorrect == Spec => []TypeOK
<1>1. IInv => TypeOK
  BY DEF IInv
<1> QED
  BY <1>1, Invariance, PTL

(* A host that keeps the ABI's rules never makes an export of               *)
(* proxy_wasm_intrinsics.cc call through a null pointer, however many       *)
(* contexts it creates and deletes under the same ids.                      *)
THEOREM CallbacksFindContexts == Spec => []NeverCrashes
<1>1. IInv => NeverCrashes
  BY DEF IInv
<1> QED
  BY <1>1, Invariance, PTL

(* The table holds exactly the contexts the host has not deleted, each an   *)
(* object of its kind that was told of its creation once.                   *)
THEOREM RegistryTablesAgree == Spec => []RegistryAgrees
<1>1. IInv => RegistryAgrees
  BY DEF IInv
<1> QED
  BY <1>1, Invariance, PTL

(* The root a stream context points to exists as long as the stream does.   *)
THEOREM StreamsKeepRoots == Spec => []RootsOutliveStreams
<1>1. IInv => RootsOutliveStreams
  BY DEF IInv
<1> QED
  BY <1>1, Invariance, PTL

-----------------------------------------------------------------------------
(* The tables of Callouts.                                                  *)
Calls == 1 .. made
CallKinds == {"http", "simple", "call", "stream"}

IsTable(f, C) == DOMAIN f \subseteq Tokens /\ \A t \in DOMAIN f : f[t] \in C
Sides == {{}, {"local"}, {"remote"}}
HostCalls(C) == {Free} \cup {Under(k, c, s) : k \in CallKinds, c \in C, s \in Sides}

CalloutsTypeOK ==
  /\ made \in Nat
  /\ IsTable(http_calls_, Calls) /\ IsTable(simple_grpc_calls_, Calls)
  /\ IsTable(grpc_calls_, Calls) /\ IsTable(grpc_streams_, Calls)
  /\ local_close_ \subseteq Calls /\ remote_close_ \subseteq Calls
  /\ host \in [Tokens -> HostCalls(Calls)]

(* No two tokens have the same call, nor has one the call of the callback   *)
(* for another.                                                             *)
Distinct ==
  /\ \A t, u \in Tokens : host[t] # Free /\ host[t].call = host[u].call => t = u
  /\ \A t \in Tokens :
       running # NoCallback /\ host[t] # Free /\ host[t].call = running.call
         => t = running.token

(* The callback of the token t has ended its call, or closes its stream.    *)
Answered(t) == running.of \in {"http", "simple", "call", "close"} /\ t = running.token

OfKind(t, k) == IF host[t].kind = k THEN host[t].call ELSE 0

(* What the SDK and the host know of a token that is not being answered.    *)
Settled(t) ==
  /\ Find(http_calls_, t) = OfKind(t, "http")
  /\ Find(simple_grpc_calls_, t) = OfKind(t, "simple")
  /\ Find(grpc_calls_, t) = OfKind(t, "call")
  /\ Find(grpc_streams_, t) = OfKind(t, "stream")
  /\ host[t].kind = "stream" =>
       host[t].closed = (IF host[t].call \in local_close_ THEN {"local"} ELSE {})
                          \cup (IF host[t].call \in remote_close_ THEN {"remote"} ELSE {})

(* A callback runs for the call it is meant for, and the tables have its    *)
(* token for this call or not at all. A stream that closes is still open on *)
(* its own side, or the host has forgotten it.                              *)
Underway ==
  running # NoCallback =>
    LET t == running.token
        c == running.call
        Only(of, f) == Find(f, t) \in {0, IF running.of = of THEN c ELSE 0}
    IN  /\ t \in Tokens /\ c \in Calls /\ running.meant = c
        /\ running.of \in {"http", "simple", "call", "stream", "close"}
        /\ running.of # "stream" =>
             /\ Only("http", http_calls_) /\ Only("simple", simple_grpc_calls_)
             /\ Only("call", grpc_calls_) /\ Only("close", grpc_streams_)
        /\ running.of \in {"http", "simple", "call"} => host[t] = Free
        /\ running.of = "close" =>
             /\ c \notin remote_close_
             /\ IF t \in DOMAIN grpc_streams_ /\ c \notin local_close_
                  THEN host[t] = Under("stream", c, {"remote"})
                  ELSE host[t] = Free

CalloutsInv ==
  /\ CalloutsTypeOK /\ Distinct /\ Underway
  /\ \A t \in Tokens : Answered(t) \/ Settled(t)
  /\ ~Typed => ~misused
-----------------------------------------------------------------------------
(* What the operations of a table do to what is found in it.                *)
LEMMA PutFacts ==
  \A f, t, c : /\ \A u : u \in DOMAIN Put(f, t, c) <=> u \in DOMAIN f \/ u = t
               /\ \A u : Find(Put(f, t, c), u) = IF u = t THEN c ELSE Find(f, u)
  BY DEF Put, Find

LEMMA PutIsTable ==
  ASSUME NEW f, NEW C, NEW D, C \subseteq D, IsTable(f, C), NEW t \in Tokens, NEW c \in D
  PROVE  IsTable(Put(f, t, c), D)
  BY DEF Put, IsTable

LEMMA EraseFacts ==
  ASSUME NEW f, NEW t
  PROVE  /\ DOMAIN Erase(f, t) = DOMAIN f \ {t}
         /\ \A u : Find(Erase(f, t), u) = IF u = t THEN 0 ELSE Find(f, u)
  BY DEF Erase, Find, Restrict

LEMMA EraseIsTable ==
  ASSUME NEW f, NEW C, IsTable(f, C), NEW t
  PROVE  IsTable(Erase(f, t), C)
  BY DEF Erase, IsTable, Restrict

LEMMA MoreCalls ==
  ASSUME NEW f, NEW C, NEW D, C \subseteq D, IsTable(f, C)
  PROVE  IsTable(f, D)
  BY DEF IsTable

(* A token is in a table when it leads to a call.                           *)
LEMMA FindFacts ==
  ASSUME made \in Nat, NEW f, IsTable(f, Calls), NEW t
  PROVE  /\ t \in DOMAIN f <=> Find(f, t) # 0
         /\ t \in DOMAIN f => t \in Tokens /\ Find(f, t) = f[t] /\ f[t] \in Calls
  BY DEF IsTable, Find, Calls

LEMMA UnderFacts ==
  /\ Free.kind = "none" /\ Free.call = 0 /\ Free.closed = {}
  /\ "none" \notin CallKinds
  /\ NoCallback.of = "none"
  /\ \A k, c, s : /\ Under(k, c, s).kind = k /\ Under(k, c, s).call = c
                  /\ Under(k, c, s).closed = s
                  /\ k \in CallKinds => Under(k, c, s) # Free
  BY DEF Free, Under, CallKinds, NoCallback

LEMMA HostFacts ==
  ASSUME CalloutsTypeOK, NEW t \in Tokens
  PROVE  /\ host[t].kind = "none" <=> host[t] = Free
         /\ host[t] # Free =>
              /\ host[t].call \in Calls /\ host[t].kind \in CallKinds
              /\ host[t].closed \in Sides
              /\ host[t] = Under(host[t].kind, host[t].call, host[t].closed)
         /\ host[t].call = 0 <=> host[t] = Free
<1>1. host[t] \in HostCalls(Calls)
  BY DEF CalloutsTypeOK
<1>2. 0 \notin Calls
  BY DEF CalloutsTypeOK, Calls
<1>3. CASE host[t] = Free
  BY <1>3, <1>2, UnderFacts
<1>4. CASE host[t] # Free
  <2>1. PICK k \in CallKinds, c \in Calls, s \in Sides : host[t] = Under(k, c, s)
    BY <1>1, <1>4 DEF HostCalls
  <2> QED BY <2>1, <1>2, <1>4, UnderFacts
<1> QED BY <1>3, <1>4

-----------------------------------------------------------------------------
(* A call of kind k under a token that is free.                             *)
LEMMA StartKeeps ==
  ASSUME CalloutsInv, NEW t \in Tokens, NEW k \in CallKinds, Start(t, k),
         http_calls_' = IF k = "http" THEN Put(http_calls_, t, made') ELSE http_calls_,
         simple_grpc_calls_' = IF k = "simple" THEN Put(simple_grpc_calls_, t, made')
                                               ELSE simple_grpc_calls_,
         grpc_calls_' = IF k = "call" THEN Put(grpc_calls_, t, made') ELSE grpc_calls_,
         grpc_streams_' = IF k = "stream" THEN Put(grpc_streams_, t, made')
                                          ELSE grpc_streams_
  PROVE  CalloutsInv'
<1> DEFINE c == made + 1
           new == Under(k, c, {})
<1>1. /\ made \in Nat /\ made' = c /\ t # running.token
      /\ host[t] = Free /\ UNCHANGED <<local_close_, remote_close_, running, misused>>
  BY HostFacts DEF CalloutsInv, CalloutsTypeOK, Start, FreshToken, streamVars
<1>2. host' = [host EXCEPT ![t] = new]
  BY <1>1 DEF Start
<1>3. Calls' = Calls \cup {c} /\ c \notin Calls /\ c \in Calls' /\ Calls \subseteq Calls'
  BY <1>1 DEF Calls
<1>4. \A u \in Tokens : host'[u] = IF u = t THEN new ELSE host[u]
  BY <1>2 DEF CalloutsInv, CalloutsTypeOK
<1>5. new # Free /\ new.call = c /\ new.kind = k /\ new.closed = {}
  BY UnderFacts
<1> HIDE DEF c, new
<1>6. /\ \A u : Find(http_calls_', u) = IF k = "http" /\ u = t THEN c ELSE Find(http_calls_, u)
      /\ \A u : Find(simple_grpc_calls_', u) =
                   IF k = "simple" /\ u = t THEN c ELSE Find(simple_grpc_calls_, u)
      /\ \A u : Find(grpc_calls_', u) = IF k = "call" /\ u = t THEN c ELSE Find(grpc_calls_, u)
      /\ \A u : Find(grpc_streams_', u) =
                   IF k = "stream" /\ u = t THEN c ELSE Find(grpc_streams_, u)
      /\ \A u : u # t => (u \in DOMAIN grpc_streams_' <=> u \in DOMAIN grpc_streams_)
  <2>1. \A u : Find(http_calls_', u) = IF k = "http" /\ u = t THEN c ELSE Find(http_calls_, u)
    BY <1>1, PutFacts
  <2>2. \A u : Find(simple_grpc_calls_', u) =
                  IF k = "simple" /\ u = t THEN c ELSE Find(simple_grpc_calls_, u)
    BY <1>1, PutFacts
  <2>3. \A u : Find(grpc_calls_', u) = IF k = "call" /\ u = t THEN c ELSE Find(grpc_calls_, u)
    BY <1>1, PutFacts
  <2>4. \A u : Find(grpc_streams_', u) =
                  IF k = "stream" /\ u = t THEN c ELSE Find(grpc_streams_, u)
    BY <1>1, PutFacts
  <2>5. \A u : u # t => (u \in DOMAIN grpc_streams_' <=> u \in DOMAIN grpc_streams_)
    BY <1>1, PutFacts
  <2> QED BY <2>1, <2>2, <2>3, <2>4, <2>5
<1>7. CalloutsTypeOK'
  <2>1. IsTable(http_calls_', Calls') /\ IsTable(simple_grpc_calls_', Calls')
    BY <1>1, <1>3, PutIsTable, MoreCalls DEF CalloutsInv, CalloutsTypeOK
  <2>2. IsTable(grpc_calls_', Calls') /\ IsTable(grpc_streams_', Calls')
    BY <1>1, <1>3, PutIsTable, MoreCalls DEF CalloutsInv, CalloutsTypeOK
  <2>3. local_close_' \subseteq Calls' /\ remote_close_' \subseteq Calls'
    BY <1>1, <1>3 DEF CalloutsInv, CalloutsTypeOK
  <2>4. HostCalls(Calls) \subseteq HostCalls(Calls') /\ new \in HostCalls(Calls')
    BY <1>3 DEF HostCalls, new, Sides
  <2>5. host' \in [Tokens -> HostCalls(Calls')]
    BY <2>4, <1>2 DEF CalloutsInv, CalloutsTypeOK
  <2>6. made' \in Nat
    BY <1>1 DEF c
  <2> QED BY <2>1, <2>2, <2>3, <2>5, <2>6 DEF CalloutsTypeOK
<1>8. \A u \in Tokens : host[u] # Free => host[u].call # c
  BY <1>3, HostFacts DEF CalloutsInv
<1>9. Distinct'
  <2>1. running # NoCallback => running.call # c
    BY <1>3 DEF CalloutsInv, Underway
  <2>2. \A u, v \in Tokens : host'[u] # Free /\ host'[u].call = host'[v].call => u = v
    <3> SUFFICES ASSUME NEW u \in Tokens, NEW v \in Tokens, host'[u] # Free,
                        host'[u].call = host'[v].call, u # v
                 PROVE  FALSE
      OBVIOUS
    <3>1. CASE u = t
      BY <3>1, <1>3, <1>4, <1>5, <1>8, UnderFacts, HostFacts, <1>1 DEF CalloutsInv, Calls
    <3>2. CASE u # t
      BY <3>2, <1>4, <1>5, <1>8 DEF CalloutsInv, Distinct
    <3> QED BY <3>1, <3>2
  <2>3. \A u \in Tokens : running # NoCallback /\ host'[u] # Free
                           /\ host'[u].call = running.call => u = running.token
    BY <2>1, <1>4, <1>5 DEF CalloutsInv, Distinct
  <2> QED BY <1>1, <2>2, <2>3 DEF Distinct
<1>10. Underway'
  <2> SUFFICES ASSUME running # NoCallback PROVE Underway'
    BY <1>1 DEF Underway
  <2>1. running.token \in Tokens /\ running.token # t
    BY <1>1 DEF CalloutsInv, Underway
  <2> QED BY <1>1, <1>3, <1>4, <1>6, <2>1 DEF CalloutsInv, Underway
<1>11. ASSUME NEW u \in Tokens PROVE (Answered(u) \/ Settled(u))'
  <2>1. CASE u = t
    <3>1. /\ Find(http_calls_, t) = 0 /\ Find(simple_grpc_calls_, t) = 0
          /\ Find(grpc_calls_, t) = 0 /\ Find(grpc_streams_, t) = 0
      BY <1>1, UnderFacts DEF CalloutsInv, Answered, Settled, OfKind
    <3>2. c \notin local_close_ /\ c \notin remote_close_
      BY <1>3 DEF CalloutsInv, CalloutsTypeOK
    <3>3. host'[t] = new
      BY <1>4
    <3>4. Settled(t)'
      BY <1>1, <1>5, <1>6, <3>1, <3>2, <3>3 DEF Settled, OfKind, CallKinds
    <3> QED BY <2>1, <3>4
  <2>2. CASE u # t
    <3>1. Answered(u) => Answered(u)'
      BY <1>1 DEF Answered
    <3>2. Settled(u) => Settled(u)'
      BY <1>1, <1>4, <1>6, <2>2 DEF Settled, OfKind
    <3> QED BY <3>1, <3>2 DEF CalloutsInv
  <2> QED BY <2>1, <2>2
<1> QED BY <1>1, <1>7, <1>9, <1>10, <1>11 DEF CalloutsInv

-----------------------------------------------------------------------------
(* Call c is the one of token t, and of no other.                           *)
Owns(t, c) ==
  /\ \A u \in Tokens : u # t /\ host[u] # Free => host[u].call # c
  /\ running # NoCallback /\ running.token # t => running.call # c

LEMMA OwnsFacts ==
  ASSUME CalloutsInv, NEW t \in Tokens, NEW c,
         \/ host[t] # Free /\ host[t].call = c
         \/ running # NoCallback /\ running.token = t /\ running.call = c
  PROVE  Owns(t, c)
  BY DEF CalloutsInv, Distinct, Owns

(* A step that changes nothing but what is known of token t and its call c. *)
LEMMA StepAt ==
  ASSUME CalloutsInv, NEW t \in Tokens, NEW c \in Calls, Owns(t, c), NEW x,
         UNCHANGED made, ~Typed /\ ~misused => ~misused',
         http_calls_' \in {http_calls_, Erase(http_calls_, t)},
         simple_grpc_calls_' \in {simple_grpc_calls_, Erase(simple_grpc_calls_, t)},
         grpc_calls_' \in {grpc_calls_, Erase(grpc_calls_, t)},
         grpc_streams_' \in {grpc_streams_, Erase(grpc_streams_, t)},
         local_close_' \in {local_close_, local_close_ \cup {c}},
         remote_close_' \in {remote_close_, remote_close_ \cup {c}},
         host' = [host EXCEPT ![t] = x],
         \/ x = Free
         \/ host[t] # Free /\ x \in HostCalls({host[t].call}),
         \/ UNCHANGED running
         \/ running' = NoCallback /\ running.token = t
         \/ running = NoCallback /\ running'.token = t /\ running'.call = c,
         \/ UNCHANGED running /\ ~Answered(t)
         \/ Underway',
         (Answered(t) \/ Settled(t))'
  PROVE  CalloutsInv'
<1>1. Calls' = Calls
  BY DEF Calls
<1>2. \A u \in Tokens : host'[u] = IF u = t THEN x ELSE host[u]
  BY DEF CalloutsInv, CalloutsTypeOK
<1>3. /\ \A u : u # t => /\ Find(http_calls_', u) = Find(http_calls_, u)
                        /\ Find(simple_grpc_calls_', u) = Find(simple_grpc_calls_, u)
                        /\ Find(grpc_calls_', u) = Find(grpc_calls_, u)
                        /\ Find(grpc_streams_', u) = Find(grpc_streams_, u)
      /\ \A u : u # t => (u \in DOMAIN grpc_streams_' <=> u \in DOMAIN grpc_streams_)
  <2>1. \A f, u : u # t => Find(Erase(f, t), u) = Find(f, u)
    BY EraseFacts
  <2>2. \A f : DOMAIN Erase(f, t) = DOMAIN f \ {t}
    BY EraseFacts
  <2> QED BY <2>1, <2>2
<1>4. \A d : d # c => /\ d \in local_close_' <=> d \in local_close_
                     /\ d \in remote_close_' <=> d \in remote_close_
  OBVIOUS
<1>5. x = Free \/ (host[t] # Free /\ x.call = host[t].call /\ x \in HostCalls(Calls))
  <2> SUFFICES ASSUME host[t] # Free, x \in HostCalls({host[t].call}), x # Free
               PROVE  x.call = host[t].call /\ x \in HostCalls(Calls)
    OBVIOUS
  <2>1. PICK k \in CallKinds, s \in Sides : x = Under(k, host[t].call, s)
    BY DEF HostCalls
  <2>2. host[t].call \in Calls
    BY HostFacts DEF CalloutsInv
  <2> QED BY <2>1, <2>2, UnderFacts DEF HostCalls
<1>6. CalloutsTypeOK'
  <2>1. IsTable(http_calls_', Calls) /\ IsTable(simple_grpc_calls_', Calls)
    BY EraseIsTable DEF CalloutsInv, CalloutsTypeOK
  <2>2. IsTable(grpc_calls_', Calls) /\ IsTable(grpc_streams_', Calls)
    BY EraseIsTable DEF CalloutsInv, CalloutsTypeOK
  <2>3. local_close_' \subseteq Calls /\ remote_close_' \subseteq Calls
    BY DEF CalloutsInv, CalloutsTypeOK
  <2>4. host' \in [Tokens -> HostCalls(Calls)]
    BY <1>5 DEF CalloutsInv, CalloutsTypeOK, HostCalls
  <2> QED BY <1>1, <2>1, <2>2, <2>3, <2>4 DEF CalloutsInv, CalloutsTypeOK
<1>7. Distinct'
  <2>1. \A u, v \in Tokens : host'[u] # Free /\ host'[u].call = host'[v].call => u = v
    <3> SUFFICES ASSUME NEW u \in Tokens, NEW v \in Tokens, host'[u] # Free,
                        host'[u].call = host'[v].call
                 PROVE  u = v
      OBVIOUS
    <3>1. host[u] # Free /\ host[u].call = host'[u].call
      BY <1>2, <1>5
    <3>2. host'[u].call # 0
      BY <3>1, HostFacts DEF CalloutsInv
    <3>3. host'[v] # Free
      BY <3>2, UnderFacts
    <3>4. host[v].call = host'[v].call
      BY <3>3, <1>2, <1>5
    <3> QED BY <3>1, <3>4 DEF CalloutsInv, Distinct
  <2>2. ASSUME NEW u \in Tokens, running' # NoCallback, host'[u] # Free,
               host'[u].call = running'.call
        PROVE  u = running'.token
    <3>1. host[u] # Free /\ host[u].call = host'[u].call
      BY <1>2, <1>5, <2>2
    <3> QED BY <2>2, <3>1 DEF CalloutsInv, Distinct, Owns
  <2> QED BY <2>1, <2>2 DEF Distinct
<1>8. Underway'
  <2> SUFFICES ASSUME UNCHANGED running, ~Answered(t), running # NoCallback
               PROVE  Underway'
    BY DEF Underway
  <2>1. CASE running.of = "stream"
    BY <2>1, <1>1 DEF CalloutsInv, Underway
  <2>2. CASE running.of # "stream"
    <3>1. running.token # t /\ running.call # c /\ running.token \in Tokens
      BY <2>2 DEF CalloutsInv, Underway, Answered, Owns
    <3> QED BY <2>2, <3>1, <1>1, <1>2, <1>3, <1>4 DEF CalloutsInv, Underway
  <2> QED BY <2>1, <2>2
<1>9. ASSUME NEW u \in Tokens, u # t PROVE (Answered(u) \/ Settled(u))'
  <2>1. CASE Answered(u)
    BY <2>1, <1>9, UnderFacts DEF Answered
  <2>2. CASE Settled(u)
    <3>1. host'[u] = host[u]
      BY <1>2, <1>9
    <3>2. host[u].kind = "stream" => host[u].call # c
      BY <1>9, UnderFacts DEF Owns
    <3> QED BY <2>2, <3>1, <3>2, <1>3, <1>4, <1>9 DEF Settled, OfKind
  <2> QED BY <2>1, <2>2 DEF CalloutsInv
<1> QED BY <1>6, <1>7, <1>8, <1>9 DEF CalloutsInv

-----------------------------------------------------------------------------
(* A token in a table leads to a call it owns, whether or not that call is  *)
(* being answered.                                                          *)
LEMMA TableFacts ==
  ASSUME CalloutsInv, NEW t \in Tokens
  PROVE  /\ t \in DOMAIN http_calls_ <=> Find(http_calls_, t) # 0
         /\ t \in DOMAIN simple_grpc_calls_ <=> Find(simple_grpc_calls_, t) # 0
         /\ t \in DOMAIN grpc_calls_ <=> Find(grpc_calls_, t) # 0
         /\ t \in DOMAIN grpc_streams_ <=> Find(grpc_streams_, t) # 0
         /\ t \in DOMAIN simple_grpc_calls_ =>
              Find(simple_grpc_calls_, t) = simple_grpc_calls_[t]
         /\ t \in DOMAIN grpc_calls_ => Find(grpc_calls_, t) = grpc_calls_[t]
         /\ t \in DOMAIN grpc_streams_ => Find(grpc_streams_, t) = grpc_streams_[t]
  BY FindFacts DEF CalloutsInv, CalloutsTypeOK

LEMMA UnchangedHost ==
  ASSUME CalloutsInv, NEW t \in Tokens
  PROVE  /\ host = [host EXCEPT ![t] = host[t]]
         /\ host[t] = Free \/ (host[t] # Free /\ host[t] \in HostCalls({host[t].call}))
<1>1. host = [host EXCEPT ![t] = host[t]]
  BY DEF CalloutsInv, CalloutsTypeOK
<1>2. host[t] # Free => host[t] \in HostCalls({host[t].call})
  BY HostFacts DEF CalloutsInv, HostCalls
<1> QED BY <1>1, <1>2

LEMMA CancelKeeps ==
  ASSUME CalloutsInv, NEW t \in Tokens, cancel(t)
  PROVE  CalloutsInv'
<1> DEFINE c == grpc_calls_[t]
<1>1. /\ Find(grpc_calls_, t) = c /\ c # 0
      /\ grpc_calls_' = Erase(grpc_calls_, t)
      /\ UNCHANGED <<http_calls_, simple_grpc_calls_, grpc_streams_, local_close_,
                     remote_close_, running, made, misused>>
  BY TableFacts DEF cancel, streamVars
<1>2. /\ Find(grpc_calls_', t) = 0
      /\ Find(http_calls_', t) = Find(http_calls_, t)
      /\ Find(simple_grpc_calls_', t) = Find(simple_grpc_calls_, t)
      /\ Find(grpc_streams_', t) = Find(grpc_streams_, t)
  BY <1>1, EraseFacts
<1>3. \A x : host' = [host EXCEPT ![t] = x] => host'[t] = x
  BY DEF CalloutsInv, CalloutsTypeOK
<1>4. host' = IF host[t].call = c THEN [host EXCEPT ![t] = Free] ELSE host
  BY DEF cancel, Cancelled
<1> HIDE DEF c
<1>5. CASE ~Answered(t)
  <2>1. host[t].kind = "call" /\ host[t].call = c
    BY <1>1, <1>5 DEF CalloutsInv, Settled, OfKind
  <2>2. host[t] # Free /\ c \in Calls
    BY <2>1, <1>1, UnderFacts, HostFacts DEF CalloutsInv
  <2>3. Owns(t, c)
    BY <2>1, <2>2, OwnsFacts
  <2>4. host' = [host EXCEPT ![t] = Free] /\ host'[t] = Free
    BY <1>4, <2>1, <1>3
  <2>5. Settled(t)'
    BY <1>2, <2>1, <2>4, <1>5, UnderFacts DEF CalloutsInv, Settled, OfKind
  <2> QED BY <1>1, <1>5, <2>2, <2>3, <2>4, <2>5, StepAt
<1>6. CASE Answered(t)
  <2>1. /\ running # NoCallback /\ t = running.token /\ running.call = c /\ c \in Calls
        /\ host[t] = Free /\ running.of = "call"
    BY <1>1, <1>6, UnderFacts DEF CalloutsInv, Underway, Answered
  <2>2. Owns(t, c)
    BY <2>1, OwnsFacts
  <2>3. host' = host
    BY <1>1, <1>4, <2>1, UnderFacts
  <2>4. Underway'
    BY <1>1, <1>2, <2>1, <2>3 DEF CalloutsInv, Underway, Calls
  <2>5. Answered(t)'
    BY <1>1, <1>6 DEF Answered
  <2>6. host' = [host EXCEPT ![t] = Free]
    BY <2>3, <2>1, UnchangedHost
  <2> QED BY <1>1, <2>1, <2>2, <2>4, <2>5, <2>6, StepAt
<1> QED BY <1>5, <1>6

LEMMA ResetKeeps ==
  ASSUME CalloutsInv, NEW t \in Tokens, reset(t)
  PROVE  CalloutsInv'
<1> DEFINE c == grpc_streams_[t]
<1>1. /\ Find(grpc_streams_, t) = c /\ c # 0
      /\ grpc_streams_' = Erase(grpc_streams_, t)
      /\ UNCHANGED <<http_calls_, simple_grpc_calls_, grpc_calls_, local_close_,
                     remote_close_, running, made, misused>>
  BY TableFacts DEF reset, streamVars
<1>2. /\ Find(grpc_streams_', t) = 0 /\ t \notin DOMAIN grpc_streams_'
      /\ Find(http_calls_', t) = Find(http_calls_, t)
      /\ Find(simple_grpc_calls_', t) = Find(simple_grpc_calls_, t)
      /\ Find(grpc_calls_', t) = Find(grpc_calls_, t)
  BY <1>1, EraseFacts
<1>3. \A x : host' = [host EXCEPT ![t] = x] => host'[t] = x
  BY DEF CalloutsInv, CalloutsTypeOK
<1>4. host' = IF host[t].call = c THEN [host EXCEPT ![t] = Free] ELSE host
  BY DEF reset, Cancelled
<1> HIDE DEF c
<1>5. CASE ~Answered(t)
  <2>1. host[t].kind = "stream" /\ host[t].call = c
    BY <1>1, <1>5 DEF CalloutsInv, Settled, OfKind
  <2>2. host[t] # Free /\ c \in Calls
    BY <2>1, <1>1, UnderFacts, HostFacts DEF CalloutsInv
  <2>3. Owns(t, c)
    BY <2>1, <2>2, OwnsFacts
  <2>4. host' = [host EXCEPT ![t] = Free] /\ host'[t] = Free
    BY <1>4, <2>1, <1>3
  <2>5. Settled(t)'
    BY <1>2, <2>1, <2>4, <1>5, UnderFacts DEF CalloutsInv, Settled, OfKind
  <2> QED BY <1>1, <1>5, <2>2, <2>3, <2>4, <2>5, StepAt
<1>6. CASE Answered(t)
  <2>1. /\ running # NoCallback /\ t = running.token /\ running.call = c /\ c \in Calls
        /\ running.of = "close"
    BY <1>1, <1>6, UnderFacts DEF CalloutsInv, Underway, Answered
  <2>2. Owns(t, c)
    BY <2>1, OwnsFacts
  <2>3. host[t] = Free \/ host[t].call = c
    BY <2>1, UnderFacts DEF CalloutsInv, Underway
  <2>4. host' = [host EXCEPT ![t] = Free]
    BY <1>1, <1>4, <2>3, UnderFacts, UnchangedHost
  <2>5. host'[t] = Free
    BY <2>4, <1>3
  <2>6. Underway'
    BY <1>1, <1>2, <2>1, <2>5 DEF CalloutsInv, Underway, Calls
  <2>7. Answered(t)'
    BY <1>1, <1>6 DEF Answered
  <2> QED BY <1>1, <2>1, <2>2, <2>4, <2>6, <2>7, StepAt
<1> QED BY <1>5, <1>6

(* close, and send with end_of_stream.                                      *)
LEMMA CloseKeeps ==
  ASSUME CalloutsInv, NEW t \in Tokens, t \in DOMAIN grpc_streams_,
         host' = Closed(t, grpc_streams_[t]), LocalClose(t, grpc_streams_[t]),
         ~Typed /\ ~misused => ~misused'
  PROVE  CalloutsInv'
<1> DEFINE c == grpc_streams_[t]
<1>1. /\ Find(grpc_streams_, t) = c /\ c # 0
      /\ grpc_streams_' = IF c \in remote_close_ THEN Erase(grpc_streams_, t)
                                                 ELSE grpc_streams_
      /\ local_close_' = local_close_ \cup {c}
      /\ UNCHANGED <<http_calls_, simple_grpc_calls_, grpc_calls_, remote_close_,
                     running, made>>
  BY TableFacts DEF LocalClose
<1>2. /\ Find(grpc_streams_', t) = IF c \in remote_close_ THEN 0 ELSE c
      /\ Find(http_calls_', t) = Find(http_calls_, t)
      /\ Find(simple_grpc_calls_', t) = Find(simple_grpc_calls_, t)
      /\ Find(grpc_calls_', t) = Find(grpc_calls_, t)
  BY <1>1, EraseFacts
<1>3. \A x : host' = [host EXCEPT ![t] = x] => host'[t] = x
  BY DEF CalloutsInv, CalloutsTypeOK
<1> DEFINE x == IF "remote" \in host[t].closed THEN Free
                                               ELSE Under(host[t].kind, c, {"local"})
<1>4. host' = IF host[t].call # c THEN host ELSE [host EXCEPT ![t] = x]
  BY DEF Closed, CalloutsInv, CalloutsTypeOK
<1> HIDE DEF c
<1>5. CASE ~Answered(t)
  <2>1. host[t].kind = "stream" /\ host[t].call = c
    BY <1>1, <1>5 DEF CalloutsInv, Settled, OfKind
  <2>2. host[t] # Free /\ c \in Calls
    BY <2>1, <1>1, UnderFacts, HostFacts DEF CalloutsInv
  <2>3. Owns(t, c)
    BY <2>1, <2>2, OwnsFacts
  <2>4. host' = [host EXCEPT ![t] = x] /\ host'[t] = x
    BY <1>4, <2>1, <1>3
  <2>5. x = Free \/ (host[t] # Free /\ x \in HostCalls({host[t].call}))
    BY <2>1, <2>2 DEF HostCalls, CallKinds, Sides
  <2>6. "remote" \in host[t].closed <=> c \in remote_close_
    BY <2>1, <1>5 DEF CalloutsInv, Settled
  <2>7. Settled(t)'
    <3>1. /\ Find(http_calls_, t) = 0 /\ Find(simple_grpc_calls_, t) = 0
          /\ Find(grpc_calls_, t) = 0
      BY <2>1, <1>5 DEF CalloutsInv, Settled, OfKind
    <3>2. CASE c \in remote_close_
      BY <3>1, <3>2, <1>2, <2>4, <2>6, UnderFacts DEF Settled, OfKind
    <3>3. CASE c \notin remote_close_
      <4>1. host'[t].kind = "stream" /\ host'[t].call = c /\ host'[t].closed = {"local"}
        BY <3>3, <2>1, <2>4, <2>6, UnderFacts
      <4> QED BY <3>1, <3>3, <4>1, <1>1, <1>2 DEF Settled, OfKind
    <3> QED BY <3>2, <3>3
  <2>8. /\ grpc_streams_' \in {grpc_streams_, Erase(grpc_streams_, t)}
        /\ UNCHANGED running /\ ~Answered(t)
        /\ remote_close_' \in {remote_close_, remote_close_ \cup {c}}
    BY <1>1, <1>5
  <2>9. ASSUME NEW y, host' = [host EXCEPT ![t] = y],
               y = Free \/ (host[t] # Free /\ y \in HostCalls({host[t].call}))
        PROVE  CalloutsInv'
    BY <1>1, <2>2, <2>3, <2>7, <2>8, <2>9, StepAt
  <2> HIDE DEF x
  <2> QED BY <2>4, <2>5, <2>9
<1>6. CASE Answered(t)
  <2>1. /\ running # NoCallback /\ t = running.token /\ running.call = c /\ c \in Calls
        /\ running.of = "close" /\ c \notin remote_close_
    BY <1>1, <1>6, UnderFacts DEF CalloutsInv, Underway, Answered
  <2>2. Owns(t, c)
    BY <2>1, OwnsFacts
  <2>3. host[t] = Free \/ (host[t].call = c /\ "remote" \in host[t].closed)
    BY <2>1, UnderFacts DEF CalloutsInv, Underway
  <2>4. host' = [host EXCEPT ![t] = Free]
    BY <1>1, <1>4, <2>3, UnderFacts, UnchangedHost
  <2>5. host'[t] = Free
    BY <2>4, <1>3
  <2>6. Underway'
    BY <1>1, <1>2, <2>1, <2>5 DEF CalloutsInv, Underway, Calls
  <2>7. Answered(t)'
    BY <1>1, <1>6 DEF Answered
  <2> QED BY <1>1, <2>1, <2>2, <2>4, <2>6, <2>7, StepAt
<1> QED BY <1>5, <1>6

-----------------------------------------------------------------------------
(* A callback for the call the host has under t, of which t is then free    *)
(* unless it closes a stream.                                               *)
LEMMA NoOneAnswered ==
  ASSUME CalloutsInv, running = NoCallback
  PROVE  \A t \in Tokens : ~Answered(t) /\ Settled(t)
  BY UnderFacts DEF CalloutsInv, Answered

LEMMA HttpAnswerKeeps ==
  ASSUME CalloutsInv, NEW t \in Tokens, onHttpCallResponse(t)
  PROVE  CalloutsInv'
<1> DEFINE c == host[t].call
<1>1. /\ running = NoCallback /\ host' = [host EXCEPT ![t] = Free] /\ host'[t] = Free
      /\ UNCHANGED <<http_calls_, simple_grpc_calls_, grpc_calls_, grpc_streams_,
                     local_close_, remote_close_, made, misused>>
  BY DEF onHttpCallResponse, CallBack, tables, streamVars, CalloutsInv, CalloutsTypeOK
<1>2. host[t] # Free /\ c \in Calls /\ host[t].kind = "http"
  BY UnderFacts, HostFacts DEF CalloutsInv, onHttpCallResponse
<1>3. Owns(t, c)
  BY <1>2, OwnsFacts
<1>4. /\ Find(http_calls_, t) = c /\ Find(simple_grpc_calls_, t) = 0
      /\ Find(grpc_calls_, t) = 0 /\ Find(grpc_streams_, t) = 0
  BY <1>1, <1>2, NoOneAnswered DEF Settled, OfKind
<1>5. running' = [of |-> "http", token |-> t, meant |-> c, call |-> c]
  BY <1>4 DEF onHttpCallResponse
<1>6. Underway'
  BY <1>1, <1>2, <1>4, <1>5 DEF Underway, Calls
<1>7. Answered(t)'
  BY <1>5 DEF Answered
<1> HIDE DEF c
<1>8. running'.token = t /\ running'.call = c
  BY <1>5
<1> QED BY <1>1, <1>2, <1>3, <1>6, <1>7, <1>8, StepAt

LEMMA GrpcAnswerKeeps ==
  ASSUME CalloutsInv, NEW t \in Tokens, onGrpcAnswer(t)
  PROVE  CalloutsInv'
<1> DEFINE c == host[t].call
<1>1. /\ running = NoCallback /\ host' = [host EXCEPT ![t] = Free] /\ host'[t] = Free
      /\ UNCHANGED <<http_calls_, simple_grpc_calls_, grpc_calls_, grpc_streams_,
                     local_close_, remote_close_, made, misused>>
  BY DEF onGrpcAnswer, CallBack, tables, streamVars, CalloutsInv, CalloutsTypeOK
<1>2. host[t] # Free /\ c \in Calls /\ host[t].kind \in {"simple", "call"}
  BY UnderFacts, HostFacts DEF CalloutsInv, onGrpcAnswer
<1>3. Owns(t, c)
  BY <1>2, OwnsFacts
<1>4. /\ Find(http_calls_, t) = 0 /\ Find(grpc_streams_, t) = 0
      /\ Find(simple_grpc_calls_, t) = IF host[t].kind = "simple" THEN c ELSE 0
      /\ Find(grpc_calls_, t) = IF host[t].kind = "call" THEN c ELSE 0
  BY <1>1, <1>2, NoOneAnswered DEF Settled, OfKind
<1>5. running' = [of |-> host[t].kind, token |-> t, meant |-> c, call |-> c]
  <2>1. c # 0
    BY <1>2 DEF Calls, CalloutsInv, CalloutsTypeOK
  <2>2. CASE host[t].kind = "simple"
    BY <2>1, <2>2, <1>4, TableFacts DEF onGrpcAnswer, Callback
  <2>3. CASE host[t].kind = "call"
    BY <2>1, <2>3, <1>4, TableFacts DEF onGrpcAnswer, Callback
  <2> QED BY <1>2, <2>2, <2>3
<1>6. Underway'
  BY <1>1, <1>2, <1>4, <1>5 DEF Underway, Calls
<1>7. Answered(t)'
  BY <1>2, <1>5 DEF Answered
<1> HIDE DEF c
<1>8. running'.token = t /\ running'.call = c
  BY <1>5
<1> QED BY <1>1, <1>2, <1>3, <1>6, <1>7, <1>8, StepAt

(* The callback of a stream that is open on its remote side.                *)
LEMMA StreamFound ==
  ASSUME CalloutsInv, running = NoCallback, NEW t \in Tokens, host[t].kind = "stream"
  PROVE  /\ Callback(t) = [of |-> "stream", token |-> t, meant |-> host[t].call,
                           call |-> host[t].call]
         /\ Find(http_calls_, t) = 0 /\ Find(simple_grpc_calls_, t) = 0
         /\ Find(grpc_calls_, t) = 0 /\ Find(grpc_streams_, t) = host[t].call
         /\ host[t] # Free /\ host[t].call \in Calls
         /\ t \in DOMAIN grpc_streams_
<1>1. /\ Find(http_calls_, t) = 0 /\ Find(simple_grpc_calls_, t) = 0
      /\ Find(grpc_calls_, t) = 0 /\ Find(grpc_streams_, t) = host[t].call
  BY NoOneAnswered DEF Settled, OfKind
<1>2. host[t] # Free /\ host[t].call \in Calls /\ host[t].call # 0
  BY UnderFacts, HostFacts DEF CalloutsInv
<1> QED BY <1>1, <1>2, TableFacts DEF Callback

LEMMA ReceiveKeeps ==
  ASSUME CalloutsInv, NEW t \in Tokens, onGrpcReceive(t)
  PROVE  CalloutsInv'
<1> DEFINE c == host[t].call
<1>1. /\ running = NoCallback /\ host' = host /\ host[t].kind = "stream"
      /\ UNCHANGED <<http_calls_, simple_grpc_calls_, grpc_calls_, grpc_streams_,
                     local_close_, remote_close_, made, misused>>
  BY DEF onGrpcReceive, CallBack, tables, streamVars
<1>2. /\ host[t] # Free /\ c \in Calls
      /\ running' = [of |-> "stream", token |-> t, meant |-> c, call |-> c]
  BY <1>1, StreamFound DEF onGrpcReceive
<1>3. Owns(t, c)
  BY <1>2, OwnsFacts
<1>4. Underway'
  BY <1>1, <1>2 DEF Underway, Calls
<1>5. Settled(t)'
  BY <1>1, NoOneAnswered DEF Settled, OfKind
<1> HIDE DEF c
<1>6. running'.token = t /\ running'.call = c
  BY <1>2
<1> QED BY <1>1, <1>2, <1>3, <1>4, <1>5, <1>6, UnchangedHost, StepAt

LEMMA GrpcCloseKeeps ==
  ASSUME CalloutsInv, NEW t \in Tokens, onGrpcClose(t)
  PROVE  CalloutsInv'
<1> DEFINE c == host[t].call
           x == IF "local" \in host[t].closed THEN Free
                                              ELSE Under("stream", c, {"remote"})
<1>1. /\ running = NoCallback /\ host[t].kind = "stream" /\ "remote" \notin host[t].closed
      /\ host' = [host EXCEPT ![t] = x] /\ host'[t] = x
      /\ UNCHANGED <<http_calls_, simple_grpc_calls_, grpc_calls_, grpc_streams_,
                     local_close_, remote_close_, made, misused>>
  BY DEF onGrpcClose, CallBack, tables, streamVars, CalloutsInv, CalloutsTypeOK
<1>2. /\ host[t] # Free /\ c \in Calls
      /\ running' = [of |-> "close", token |-> t, meant |-> c, call |-> c]
  BY <1>1, StreamFound DEF onGrpcClose
<1>3. Owns(t, c)
  BY <1>2, OwnsFacts
<1>4. /\ c \notin remote_close_ /\ ("local" \in host[t].closed <=> c \in local_close_)
  BY <1>1, NoOneAnswered DEF Settled
<1>5. Underway'
  BY <1>1, <1>2, <1>4, StreamFound DEF Underway, Calls
<1>6. Answered(t)'
  BY <1>2 DEF Answered
<1>7. x = Free \/ (host[t] # Free /\ x \in HostCalls({host[t].call}))
  BY <1>2 DEF HostCalls, CallKinds, Sides
<1>8. running'.token = t /\ running'.call = c
  BY <1>2
<1> HIDE DEF c
<1>9. ASSUME NEW y, host' = [host EXCEPT ![t] = y],
             y = Free \/ (host[t] # Free /\ y \in HostCalls({host[t].call}))
      PROVE  CalloutsInv'
  BY <1>1, <1>2, <1>3, <1>5, <1>6, <1>8, <1>9, StepAt
<1> HIDE DEF x
<1> QED BY <1>1, <1>7, <1>9

-----------------------------------------------------------------------------
(* What is known of the callback that returns.                              *)
LEMMA ReturnFacts ==
  ASSUME CalloutsInv, NEW of \in {"http", "simple", "call", "stream", "close"},
         CallbackReturns(of)
  PROVE  /\ running # NoCallback /\ running.of = of /\ running' = NoCallback
         /\ UNCHANGED <<host, made>>
         /\ running.token \in Tokens /\ running.call \in Calls
         /\ Owns(running.token, running.call)
         /\ Underway'
<1>1. /\ running # NoCallback /\ running.of = of /\ running' = NoCallback
      /\ UNCHANGED <<host, made>>
  BY UnderFacts DEF CallbackReturns
<1>2. running.token \in Tokens /\ running.call \in Calls
  BY <1>1 DEF CalloutsInv, Underway
<1>3. Owns(running.token, running.call)
  BY <1>1, <1>2, OwnsFacts
<1>4. Underway'
  BY <1>1 DEF Underway
<1> QED BY <1>1, <1>2, <1>3, <1>4

(* The callback of an answer returns: what it was found by is erased.       *)
LEMMA EndKeeps ==
  ASSUME CalloutsInv, NEW of \in {"http", "simple", "call"}, CallbackReturns(of),
         http_calls_' = IF of = "http" THEN Erase(http_calls_, running.token) ELSE http_calls_,
         simple_grpc_calls_' = IF of = "simple" THEN Erase(simple_grpc_calls_, running.token)
                                                ELSE simple_grpc_calls_,
         grpc_calls_' = IF of = "call" THEN Erase(grpc_calls_, running.token) ELSE grpc_calls_,
         UNCHANGED <<grpc_streams_, local_close_, remote_close_, misused>>
  PROVE  CalloutsInv'
<1>0. PICK t \in Tokens : t = running.token
  BY ReturnFacts
<1>1. /\ running # NoCallback /\ running.of = of /\ running' = NoCallback
      /\ UNCHANGED <<host, made>> /\ t \in Tokens /\ running.call \in Calls
      /\ Owns(t, running.call) /\ Underway'
  BY <1>0, ReturnFacts
<1>2. host[t] = Free
  BY <1>0, <1>1 DEF CalloutsInv, Underway
<1>3. /\ Find(http_calls_', t) = 0 /\ Find(simple_grpc_calls_', t) = 0
      /\ Find(grpc_calls_', t) = 0 /\ Find(grpc_streams_', t) = 0
  <2>1. \A f : Find(Erase(f, t), t) = 0
    BY EraseFacts
  <2>2. /\ of # "http" => Find(http_calls_, t) = 0
        /\ of # "simple" => Find(simple_grpc_calls_, t) = 0
        /\ of # "call" => Find(grpc_calls_, t) = 0
        /\ Find(grpc_streams_, t) = 0
    BY <1>0, <1>1 DEF CalloutsInv, Underway
  <2> QED BY <1>0, <2>1, <2>2
<1>4. Settled(t)'
  BY <1>1, <1>2, <1>3, UnderFacts DEF Settled, OfKind
<1>5. host' = [host EXCEPT ![t] = Free]
  BY <1>1, <1>2, UnchangedHost
<1>6. /\ http_calls_' \in {http_calls_, Erase(http_calls_, t)}
      /\ simple_grpc_calls_' \in {simple_grpc_calls_, Erase(simple_grpc_calls_, t)}
      /\ grpc_calls_' \in {grpc_calls_, Erase(grpc_calls_, t)}
  BY <1>0
<1> QED BY <1>0, <1>1, <1>4, <1>5, <1>6, StepAt

LEMMA EndReceiveKeeps ==
  ASSUME CalloutsInv, EndReceive
  PROVE  CalloutsInv'
<1>0. PICK t \in Tokens : t = running.token
  BY ReturnFacts DEF EndReceive
<1>1. /\ running # NoCallback /\ running.of = "stream" /\ running' = NoCallback
      /\ UNCHANGED <<host, made>> /\ t \in Tokens /\ running.call \in Calls
      /\ Owns(t, running.call) /\ Underway'
  BY <1>0, ReturnFacts DEF EndReceive
<1>2. UNCHANGED <<http_calls_, simple_grpc_calls_, grpc_calls_, grpc_streams_,
                  local_close_, remote_close_, misused>>
  BY DEF EndReceive, tables, streamVars
<1>3. Settled(t)
  BY <1>0, <1>1 DEF CalloutsInv, Answered
<1>4. Settled(t)'
  BY <1>1, <1>2, <1>3 DEF Settled, OfKind
<1> QED BY <1>0, <1>1, <1>2, <1>4, UnchangedHost, StepAt

LEMMA RemoteCloseKeeps ==
  ASSUME CalloutsInv, doRemoteClose
  PROVE  CalloutsInv'
<1>0. PICK t \in Tokens, c \in Calls : t = running.token /\ c = running.call
  BY ReturnFacts DEF doRemoteClose
<1>1. /\ running # NoCallback /\ running.of = "close" /\ running' = NoCallback
      /\ UNCHANGED <<host, made>> /\ t \in Tokens /\ c \in Calls
      /\ Owns(t, c) /\ Underway'
  BY <1>0, ReturnFacts DEF doRemoteClose
<1>2. /\ Find(http_calls_, t) = 0 /\ Find(simple_grpc_calls_, t) = 0
      /\ Find(grpc_calls_, t) = 0 /\ Find(grpc_streams_, t) \in {0, c}
      /\ c \notin remote_close_ /\ c # 0
      /\ host[t] = IF t \in DOMAIN grpc_streams_ /\ c \notin local_close_
                     THEN Under("stream", c, {"remote"}) ELSE Free
  BY <1>0, <1>1 DEF CalloutsInv, Underway, CalloutsTypeOK, Calls
<1>3. running.token = t
  BY <1>0
<1>4. CASE t \notin DOMAIN grpc_streams_
  <2>1. UNCHANGED <<http_calls_, simple_grpc_calls_, grpc_calls_, grpc_streams_,
                    local_close_, remote_close_, misused>>
    BY <1>0, <1>4 DEF doRemoteClose, tables, streamVars
  <2>2. Find(grpc_streams_, t) = 0
    BY <1>1, <1>4, TableFacts
  <2>3. Settled(t)'
    BY <1>1, <1>2, <1>4, <2>1, <2>2, UnderFacts DEF Settled, OfKind
  <2> QED BY <1>1, <1>3, <2>1, <2>3, UnchangedHost, StepAt
<1>5. CASE t \in DOMAIN grpc_streams_
  <2>1. Find(grpc_streams_, t) = c
    BY <1>1, <1>2, <1>5, TableFacts
  <2>2. /\ remote_close_' = remote_close_ \cup {c}
        /\ grpc_streams_' = IF c \in local_close_ THEN Erase(grpc_streams_, t)
                                                  ELSE grpc_streams_
        /\ UNCHANGED <<http_calls_, simple_grpc_calls_, grpc_calls_, local_close_>>
    BY <1>0, <1>5 DEF doRemoteClose, RemoteClose
  <2>3. ~Typed /\ ~misused => ~misused'
    BY <1>0, <1>5, <2>1 DEF doRemoteClose, RemoteClose
  <2>4. Find(grpc_streams_', t) = IF c \in local_close_ THEN 0 ELSE c
    BY <2>1, <2>2, EraseFacts
  <2>5. Settled(t)'
    <3>1. CASE c \in local_close_
      BY <3>1, <1>1, <1>2, <2>2, <2>4, UnderFacts DEF Settled, OfKind
    <3>2. CASE c \notin local_close_
      <4>1. host'[t].kind = "stream" /\ host'[t].call = c /\ host'[t].closed = {"remote"}
        BY <3>2, <1>1, <1>2, <1>5, UnderFacts
      <4> QED BY <3>2, <4>1, <1>2, <2>2, <2>4 DEF Settled, OfKind
    <3> QED BY <3>1, <3>2
  <2> QED BY <1>1, <1>3, <2>2, <2>3, <2>5, UnchangedHost, StepAt
<1> QED BY <1>4, <1>5

-----------------------------------------------------------------------------
LEMMA IInvInit == CalloutsInit => CalloutsInv
<1> SUFFICES ASSUME CalloutsInit PROVE CalloutsInv
  OBVIOUS
<1> USE DEF CalloutsInit
<1>1. DOMAIN Empty = {} /\ \A t : Find(Empty, t) = 0
  BY DEF Empty, Find
<1>2. CalloutsTypeOK
  BY <1>1 DEF CalloutsTypeOK, IsTable, HostCalls
<1>3. Distinct /\ Underway
  BY DEF Distinct, Underway
<1>4. \A t \in Tokens : Settled(t)
  BY <1>1, UnderFacts DEF Settled, OfKind
<1> QED BY <1>2, <1>3, <1>4 DEF CalloutsInv

LEMMA IInvNext ==
  ASSUME ~Typed PROVE CalloutsInv /\ [CalloutsNext]_calloutVars => CalloutsInv'
<1> SUFFICES ASSUME CalloutsInv, [CalloutsNext]_calloutVars PROVE CalloutsInv'
  OBVIOUS
<1>1. CASE UNCHANGED calloutVars
  BY <1>1 DEF calloutVars, tables, streamVars, CalloutsInv, CalloutsTypeOK, Distinct, Underway,
              Answered, Settled, OfKind, Calls
<1>2. CASE Plugin
  <2> SUFFICES ASSUME NEW t \in Tokens,
                      \/ httpCall(t) \/ grpcSimpleCall(t) \/ grpcCallHandler(t)
                      \/ grpcStreamHandler(t) \/ cancel(t) \/ reset(t) \/ close(t) \/ send(t)
               PROVE  CalloutsInv'
    BY <1>2 DEF Plugin
  <2>1. CASE httpCall(t)
    BY <2>1, StartKeeps DEF httpCall, CallKinds
  <2>2. CASE grpcSimpleCall(t)
    BY <2>2, StartKeeps DEF grpcSimpleCall, CallKinds
  <2>3. CASE grpcCallHandler(t)
    BY <2>3, StartKeeps DEF grpcCallHandler, CallKinds
  <2>4. CASE grpcStreamHandler(t)
    BY <2>4, StartKeeps DEF grpcStreamHandler, CallKinds
  <2>5. CASE cancel(t)
    BY <2>5, CancelKeeps
  <2>6. CASE reset(t)
    BY <2>6, ResetKeeps
  <2>7. CASE close(t)
    BY <2>7, CloseKeeps DEF close
  <2>8. CASE send(t)
    BY <2>8, CloseKeeps DEF send
  <2> QED BY <2>1, <2>2, <2>3, <2>4, <2>5, <2>6, <2>7, <2>8
<1>3. CASE Returns
  <2>1. CASE EndHttpCallResponse
    BY <2>1, EndKeeps DEF EndHttpCallResponse, streamVars
  <2>2. CASE EndSimpleCall
    BY <2>2, EndKeeps DEF EndSimpleCall, streamVars
  <2>3. CASE EndCall
    BY <2>3, EndKeeps DEF EndCall, streamVars
  <2>4. CASE EndReceive
    BY <2>4, EndReceiveKeeps
  <2>5. CASE doRemoteClose
    BY <2>5, RemoteCloseKeeps
  <2> QED BY <1>3, <2>1, <2>2, <2>3, <2>4, <2>5 DEF Returns
<1>4. ASSUME NEW t \in Tokens, Answer(t) \/ onGrpcReceive(t) \/ onGrpcClose(t)
      PROVE  CalloutsInv'
  BY <1>4, HttpAnswerKeeps, GrpcAnswerKeeps, ReceiveKeeps, GrpcCloseKeeps DEF Answer
<1> QED BY <1>1, <1>2, <1>3, <1>4 DEF CalloutsNext

(* However the calls, the answers and the handlers' own calls interleave,   *)
(* the tables and the host agree, token by token, for streams of the base   *)
(* class: the template's send closes its side even when the host refuses it.*)
THEOREM CalloutsInvariance == ASSUME ~Typed PROVE CalloutsSpec => []CalloutsInv
BY IInvInit, IInvNext, PTL DEF CalloutsSpec

(* Every answer and every event of a stream reaches the callback of its own *)
(* call, for any number of tokens and calls, when no stream is of the class *)
(* templated on messages.                                                   *)
THEOREM AnswersReach == ASSUME ~Typed PROVE CalloutsSpec => []AnswersReachTheirCall
<1>1. CalloutsInv => AnswersReachTheirCall
  BY DEF CalloutsInv, Underway, NoCallback, AnswersReachTheirCall
<1> QED BY <1>1, CalloutsInvariance, PTL

(* Between callbacks the tables hold the calls the host has under the same  *)
(* tokens, and no others, when no stream is of the class templated on       *)
(* messages.                                                                *)
THEOREM TablesAgreeAlways == ASSUME ~Typed PROVE CalloutsSpec => []TablesAgree
<1>1. ASSUME CalloutsInv PROVE TablesAgree
  <2> SUFFICES ASSUME running = NoCallback
               PROVE  \A t \in Tokens :
                        /\ t \in DOMAIN http_calls_ <=> host[t].kind = "http"
                        /\ t \in DOMAIN simple_grpc_calls_ <=> host[t].kind = "simple"
                        /\ t \in DOMAIN grpc_calls_ <=> host[t].kind = "call"
                        /\ t \in DOMAIN grpc_streams_ <=> host[t].kind = "stream"
    BY <1>1 DEF TablesAgree, CalloutsInv, CalloutsTypeOK, IsTable
  <2> TAKE t \in Tokens
  <2>1. host[t].kind \in CallKinds => host[t].call # 0
    BY <1>1, HostFacts, UnderFacts DEF CalloutsInv
  <2> QED BY <1>1, <2>1, NoOneAnswered, TableFacts DEF Settled, OfKind, CallKinds
<1> QED BY <1>1, CalloutsInvariance, PTL

(* No code of the SDK uses a handler it has destroyed, when no stream is of *)
(* the class templated on messages.                                         *)
THEOREM NoUseAfterErase ==
  ASSUME ~Typed PROVE CalloutsSpec => []NoHandlerUsedAfterErase
<1>1. CalloutsInv => NoHandlerUsedAfterErase
  BY DEF CalloutsInv, NoHandlerUsedAfterErase
<1> QED BY <1>1, CalloutsInvariance, PTL
=============================================================================
