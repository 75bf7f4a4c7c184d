----------------------------- MODULE PluginHost -----------------------------
(***************************************************************************)
(* A plugin in a host that keeps the rules of the proxy-wasm ABI, as the    *)
(* SDK documents them (proxy_wasm_api.h): a stream context is created under *)
(* a root context that exists, callbacks go to contexts that were not       *)
(* deleted, a context is logged and deleted when onDone returned true or    *)
(* RootContext::done was called, a root context after its streams. Ids are  *)
(* used again after a delete.                                               *)
(***************************************************************************)
EXTENDS ContextRegistry

VARIABLES
  stage,   \* [Ids -> "none", "live", "closing", "done" or "logged"]
  parent   \* [Ids -> the parent it was created with, 0 for a root]

hostVars == <<stage, parent>>
vars == <<registryVars, hostVars>>

Exists(id) == stage[id] # "none"
IsRoot(id) == Exists(id) /\ parent[id] = 0
Streams(id) == {s \in Ids : Exists(s) /\ parent[s] = id}

TypeOK ==
  /\ RegistryTypeOK
  /\ stage \in [Ids -> {"none", "live", "closing", "done", "logged"}]
  /\ parent \in [Ids -> Ids \cup {0}]

Init ==
  /\ RegistryInit
  /\ stage = [id \in Ids |-> "none"]
  /\ parent = [id \in Ids |-> 0]

Created(id, p) ==
  /\ stage[id] = "none"
  /\ stage' = [stage EXCEPT ![id] = "live"]
  /\ parent' = [parent EXCEPT ![id] = p]

CreateRoot(id) ==
  /\ Created(id, 0)
  /\ \E r \in RootIds : EnsureRootContext(id, r)

CreateStream(id, p) ==
  /\ IsRoot(p)
  /\ stage[p] = "live"
  /\ Created(id, p)
  /\ EnsureContext(id, p)

(* Stream callbacks come while the stream is live; a root gets its timers   *)
(* and the answers to its callouts until it is deleted.                     *)
Call(id) ==
  /\ Exists(id)
  /\ \/ IsRoot(id) /\ RootCallback(id)
     \/ ~IsRoot(id) /\ stage[id] = "live" /\ StreamCallback(id)
  /\ UNCHANGED hostVars

(* onDoneBase: a stream context is always done, a root may ask for time.    *)
Done(id) ==
  /\ stage[id] = "live"
  /\ \E next \in {"done"} \cup (IF IsRoot(id) THEN {"closing"} ELSE {}) :
       stage' = [stage EXCEPT ![id] = next]
  /\ BaseCallback(id)
  /\ UNCHANGED parent

(* RootContext::done, from a callback of a root that is closing.            *)
PluginDone(id) ==
  /\ stage[id] = "closing"
  /\ stage' = [stage EXCEPT ![id] = "done"]
  /\ RootCallback(id)
  /\ UNCHANGED parent

Log(id) ==
  /\ stage[id] = "done"
  /\ stage' = [stage EXCEPT ![id] = "logged"]
  /\ BaseCallback(id)
  /\ UNCHANGED parent

DeleteContext(id) ==
  /\ stage[id] = "logged"
  /\ Streams(id) = {}
  /\ stage' = [stage EXCEPT ![id] = "none"]
  /\ Delete(id)
  /\ UNCHANGED parent

Next ==
  /\ ~crashed
  /\ \E id \in Ids :
       \/ CreateRoot(id)
       \/ \E p \in Ids : CreateStream(id, p)
       \/ Call(id) \/ Done(id) \/ PluginDone(id) \/ Log(id) \/ DeleteContext(id)

Spec == Init /\ [][Next]_vars

-----------------------------------------------------------------------------
(* No callback of such a host reaches a null pointer, whatever the order in *)
(* which contexts come and go (the exports of proxy_wasm_intrinsics.cc      *)
(* check none of the pointers they call through).                           *)
NeverCrashes == ~crashed

(* The table holds exactly the contexts the host has not deleted, each as   *)
(* an object of the kind the host created it as, told of its creation once. *)
RegistryAgrees ==
  /\ DOMAIN context_map = {id \in Ids : Exists(id)}
  /\ \A id \in DOMAIN context_map :
       LET o == context_map[id] IN
         /\ o \notin freed
         /\ heap[o].id = id
         /\ heap[o].kind = IF parent[id] = 0 THEN "root" ELSE "stream"
         /\ creates[o] = 1

(* The root_ pointer of a stream context that exists leads to the object of *)
(* the root context it was created under, and the stream is of the class    *)
(* registered for that root's id, although roots and streams of several     *)
(* plugins come and go under the same ids.                                  *)
RootsOutliveStreams ==
  \A id \in DOMAIN context_map :
    LET o == heap[context_map[id]] IN
      o.kind = "stream" =>
        /\ parent[id] \in DOMAIN context_map
        /\ o.root = context_map[parent[id]]
        /\ o.custom <=> heap[o.root].root_id \in ContextFactories
=============================================================================
