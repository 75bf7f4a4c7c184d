---------------------------- MODULE ProxySession ----------------------------
(***************************************************************************)
(* The plugin in this repository's host: Proxy::handle creates contexts 1   *)
(* and 2 for every request, sends all callbacks to context 2 and deletes    *)
(* neither (guest.rs declares no proxy_on_done, _log or _delete). A host    *)
(* may call `handle` again on an instance whose last call returned: the     *)
(* export runs the constructors once only (bindings.rs), and the plugin's   *)
(* tables are static. After a trap it discards the instance. What a call    *)
(* does between its callbacks is ProxyHandle's.                             *)
(***************************************************************************)
EXTENDS ContextRegistry

CONSTANT MaxRequests   \* bound on the calls of handle on one instance

VARIABLES
  step,   \* "idle", "root", "callbacks" or "stopped": where handle is
  ranOn   \* per request so far: the object its callbacks went to

vars == <<registryVars, step, ranOn>>

(* proxy_get_property("plugin_root_id"), as host.rs answers it.             *)
PluginRootId == ""

Init == RegistryInit /\ step = "idle" /\ ranOn = <<>>

(* proxy_on_context_create(1, 0)                                            *)
CreateRoot ==
  /\ step = "idle" /\ Len(ranOn) < MaxRequests
  /\ step' = "root"
  /\ EnsureRootContext(1, PluginRootId)
  /\ UNCHANGED ranOn

(* proxy_on_context_create(2, 1)                                            *)
CreateContext ==
  /\ step = "root"
  /\ step' = "callbacks"
  /\ EnsureContext(2, 1)
  /\ ranOn' = Append(ranOn, context_map'[2])

Callback ==
  /\ step = "callbacks"
  /\ StreamCallback(2)
  /\ UNCHANGED <<step, ranOn>>

(* handle returns, or traps.                                                *)
Return ==
  /\ step = "callbacks"
  /\ step' \in {"idle", "stopped"}
  /\ UNCHANGED <<registryVars, ranOn>>

Next == ~crashed /\ (CreateRoot \/ CreateContext \/ Callback \/ Return)

Spec == Init /\ [][Next]_vars

-----------------------------------------------------------------------------
(* "HTTP request/response context which is a chile of a root context and is *)
(* created for each request/response" (proxy/lib.rs:112), a setup handle    *)
(* means to simulate (line 118): no two requests run on one context object. *)
FreshContextPerRequest ==
  \A m, n \in DOMAIN ranOn : ranOn[m] = ranOn[n] => m = n
=============================================================================
