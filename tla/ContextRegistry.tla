-------------------------- MODULE ContextRegistry --------------------------
(***************************************************************************)
(* The plugin's side of proxy-wasm: the tables by which the C++ SDK finds   *)
(* the object a callback is for (proxy_wasm_intrinsics.cc), and the exports *)
(* that create, use and delete these objects. Which calls a host makes, and *)
(* in which order, is up to the modules that extend this one.               *)
(*                                                                          *)
(* A call through a null pointer is undefined in C++; in the WebAssembly    *)
(* build it reads address 0 and ends in a trap, here: crashed.              *)
(***************************************************************************)
EXTENDS Naturals, Sequences, Functions

CONSTANTS
  Ids,               \* context ids a host uses
  RootIds,           \* values of the property plugin_root_id
  RootFactories,     \* root ids with a registered RootFactory
  ContextFactories,  \* root ids with a registered ContextFactory
  MaxObjects         \* bound on the contexts ever created

ASSUME IdsAssumption       == Ids \subseteq Nat \ {0}
ASSUME FactoriesAssumption == /\ RootFactories \subseteq RootIds
                              /\ ContextFactories \subseteq RootIds
ASSUME ObjectsAssumption   == MaxObjects \in Nat

VARIABLES
  heap,         \* every context object ever created, in order
  freed,        \* objects destroyed since: their addresses dangle
  context_map,  \* context id -> object
  root_map,     \* root_context_map: root id -> object
  creates,      \* onCreate calls per object
  crashed

registryVars == <<heap, freed, context_map, root_map, creates, crashed>>

(* An object: a RootContext or a Context of root `root`, of the plugin's    *)
(* own class if a factory made it.                                          *)
Object == [kind : {"root", "stream"}, id : Ids, root_id : RootIds,
           root : Nat, custom : BOOLEAN]
Objects == 1 .. Len(heap)
RootObject(id, rootId) ==
  [kind |-> "root", id |-> id, root_id |-> rootId,
   root |-> Len(heap) + 1, custom |-> rootId \in RootFactories]
(* Mutant: a stream belongs to the root its root's name leads to.           *)
StreamObjectOfNamedRoot(id, root) ==
  [kind |-> "stream", id |-> id, root_id |-> heap[root].root_id,
   root |-> root_map[heap[root].root_id],
   custom |-> heap[root].root_id \in ContextFactories]
StreamObject(id, root) ==
  [kind |-> "stream", id |-> id, root_id |-> heap[root].root_id,
   root |-> root, custom |-> heap[root].root_id \in ContextFactories]

RegistryInit ==
  /\ heap = <<>>
  /\ freed = {}
  /\ context_map = <<>>
  /\ root_map = <<>>
  /\ creates = <<>>
  /\ crashed = FALSE

(* getContextBase, getContext and getRootContext find an object, or one of  *)
(* the kind they are for; else they return nullptr.                         *)
Known(id) == id \in DOMAIN context_map
IsKind(id, kind) == Known(id) /\ heap[context_map[id]].kind = kind

Crash == crashed' = TRUE /\ UNCHANGED <<heap, freed, context_map, root_map, creates>>

(* context_map[id] = std::move(object)                                      *)
Bind(map, key, object) ==
  [k \in DOMAIN map \cup {key} |-> IF k = key THEN object ELSE map[k]]

(* A new object, entered in the table, and the onCreate that follows.       *)
Enter(id, object) ==
  /\ Len(heap) < MaxObjects
  /\ heap' = Append(heap, object)
  /\ creates' = Append(creates, 1)
  /\ context_map' = Bind(context_map, id, Len(heap) + 1)

(* onCreate on an object that exists already.                               *)
CreateAgain(id) ==
  /\ creates' = [creates EXCEPT ![context_map[id]] = @ + 1]
  /\ UNCHANGED <<heap, freed, context_map, root_map, crashed>>

(* Mutant: a root of the plugin's class is entered under its name alone.   *)
EnsureRootContextNamedOnly(id, rootId) ==
  \/ /\ ~Known(id)
     /\ Len(heap) < MaxObjects
     /\ heap' = Append(heap, RootObject(id, rootId))
     /\ creates' = Append(creates, 1)
     /\ root_map' = Bind(root_map, rootId, Len(heap) + 1)
     /\ context_map' = IF rootId \in RootFactories THEN context_map
                                                  ELSE Bind(context_map, id, Len(heap) + 1)
     /\ UNCHANGED <<freed, crashed>>
  \/ IsKind(id, "root") /\ CreateAgain(id)

(* proxy_on_context_create(id, 0): ensureRootContext(id)->onCreate(), when  *)
(* the host's plugin_root_id is rootId.                                     *)
EnsureRootContext(id, rootId) ==
  \/ /\ ~Known(id)
     /\ Enter(id, RootObject(id, rootId))
     /\ root_map' = Bind(root_map, rootId, Len(heap) + 1)
     /\ UNCHANGED <<freed, crashed>>
  \/ IsKind(id, "root") /\ CreateAgain(id)
  \/ IsKind(id, "stream") /\ Crash

(* proxy_on_context_create(id, parent): ensureContext(id, parent)           *)
(* ->onCreate(). An unknown id needs a root context as its parent.          *)
EnsureContext(id, parent) ==
  \/ /\ ~Known(id)
     /\ IsKind(parent, "root")
     /\ Enter(id, StreamObject(id, context_map[parent]))
     /\ UNCHANGED <<freed, root_map, crashed>>
  \/ ~Known(id) /\ ~IsKind(parent, "root") /\ Crash
  \/ IsKind(id, "stream") /\ CreateAgain(id)
  \/ IsKind(id, "root") /\ Crash

(* The exports that call through getContext (stream callbacks),             *)
(* getRootContext (configuration, timers, callouts, queues) and             *)
(* getContextBase (done, log).                                              *)
StreamCallback(id) ==
  IF IsKind(id, "stream") THEN UNCHANGED registryVars ELSE Crash
RootCallback(id) ==
  IF IsKind(id, "root") THEN UNCHANGED registryVars ELSE Crash
BaseCallback(id) ==
  IF Known(id) THEN UNCHANGED registryVars ELSE Crash

(* Mutant: the entry of a deleted context stays.                            *)
DeleteKeepsEntry(id) ==
  \/ /\ Known(id)
     /\ freed' = freed \cup {context_map[id]}
     /\ UNCHANGED <<heap, context_map, root_map, creates, crashed>>
  \/ ~Known(id) /\ Crash

(* proxy_on_delete: onDelete(), then the entry and its object go. The name  *)
(* of a root context in root_context_map stays.                             *)
Delete(id) ==
  \/ /\ Known(id)
     /\ freed' = freed \cup {context_map[id]}
     /\ context_map' = Restrict(context_map, DOMAIN context_map \ {id})
     /\ UNCHANGED <<heap, root_map, creates, crashed>>
  \/ ~Known(id) /\ Crash

-----------------------------------------------------------------------------
RegistryTypeOK ==
  /\ heap \in Seq(Object)
  /\ creates \in Seq(Nat)
  /\ Len(creates) = Len(heap)
  /\ freed \subseteq Objects
  /\ DOMAIN context_map \subseteq Ids
  /\ \A id \in DOMAIN context_map : context_map[id] \in Objects
  /\ DOMAIN root_map \subseteq RootIds
  /\ \A r \in DOMAIN root_map : root_map[r] \in Objects
  /\ crashed \in BOOLEAN

(* "Returns `RootContext` object for the root context named by `root_id`,   *)
(* or nullptr if none is found." (proxy_wasm_api.h:678): what getRoot finds *)
(* in root_context_map exists.                                              *)
GetRootFindsContexts ==
  \A r \in DOMAIN root_map : root_map[r] \notin freed
=============================================================================
