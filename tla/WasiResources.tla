--------------------------- MODULE WasiResources ---------------------------
(***************************************************************************)
(* The resources of src/bindings.rs. A WASI resource (a request, a body, a  *)
(* stream, ...) lives in the host. The component holds a number for it, its *)
(* handle, an index of the component's handle table; a Rust value of the    *)
(* generated bindings owns that number and drops the resource when it goes  *)
(* out of scope. This module has one action for every wrapper that makes,   *)
(* takes, uses or drops a resource, and lets a program of safe Rust call    *)
(* them in any order. ProxyResources and HelloComponent are two programs    *)
(* on top of it.                                                            *)
(*                                                                          *)
(* Rust checks that a value is used at its type and not after it was moved. *)
(* It does not know which resource is a child of which, that some are given *)
(* out once, or that a generated wrapper leaves no owner of a handle it     *)
(* passed on: that is what can go wrong here. What the calls carry apart    *)
(* from handles is in the modules RequestAttributes, FieldsCalls,           *)
(* ErrorCodes and ProxyHandle.                                              *)
(***************************************************************************)
CONSTANTS
  Names,          \* variables of the Rust program that can own a resource
  Handles,        \* indices of the component's handle table
  MAX,            \* u32::MAX, what take_handle leaves behind
  Reuse(_)        \* the free indices the host may use next, of a set of them

ASSUME MaxAssumption   == MAX \notin Handles
ASSUME ReuseAssumption == \A F \in SUBSET Handles : Reuse(F) \subseteq F

VARIABLES
  value,      \* [Names -> what the variable owns]
  table,      \* [Handles -> entry of the handle table]
  abandoned,  \* kinds of those that were dropped where they must not be
  fate        \* how the call of the program stands

resourceVars == <<value, table, abandoned, fate>>

Streams == {"input-stream", "output-stream"}
Futures == {"future-trailers", "future-incoming-response"}
Kinds == Streams \cup Futures \cup
         {"fields", "incoming-request", "outgoing-request", "request-options",
          "response-outparam", "incoming-response", "incoming-body",
          "outgoing-response", "outgoing-body", "pollable", "error"}

(* Which resource may be a child of which, from the comments of the         *)
(* wrappers that return one.                                                *)
Family ==
  ({"incoming-request", "outgoing-request", "incoming-response",
    "outgoing-response", "future-trailers"} \X {"fields"})
    \cup {<<"incoming-body", "input-stream">>, <<"outgoing-body", "output-stream">>}
    \cup ((Streams \cup Futures) \X {"pollable"})

(* A variable that owns nothing, and an index that is not in use.           *)
NoValue == [kind |-> "none", handle |-> MAX]
NoEntry == [kind |-> "none", parent |-> MAX, stage |-> "spent"]

(* A future is "pending" until the host settles it. What gives a resource   *)
(* out once is "ready" before and "spent" after; a closed stream is "spent".*)
Entry(k, p) == [kind |-> k, parent |-> p,
                stage |-> IF k \in Futures THEN "pending" ELSE "ready"]

TypeOK ==
  /\ value \in [Names -> [kind : Kinds \cup {"none"}, handle : Handles \cup {MAX}]]
  /\ table \in [Handles -> [kind : Kinds \cup {"none"}, parent : Handles \cup {MAX},
                            stage : {"pending", "ready", "spent"}]]
  /\ abandoned \subseteq {"outgoing-body", "response-outparam"}
  /\ fate \in {"running", "returned", "trapped", "misuse", "failed"}

-----------------------------------------------------------------------------
(* _rt::Resource.                                                           *)

from_handle(k, h) == [kind |-> k, handle |-> h]

(* Mutant: the wrapper passes the handle on and its argument keeps it.      *)
CopyHandle(r) == [given |-> r.handle, left |-> r]

(* The handle goes to the callee and u32::MAX stays in the value.           *)
take_handle(r) == [given |-> r.handle, left |-> [r EXCEPT !.handle = MAX]]

(* The handles [resource-drop] gets when the value goes out of scope.       *)
DropHandles(r) == IF r.handle = MAX THEN {} ELSE {r.handle}

-----------------------------------------------------------------------------
(* What the wrappers are made of.                                           *)

Live(h) == table[h].kind # "none"
HandleOf(v) == value[v].handle
StageOf(v) == table[HandleOf(v)].stage
IsA(v, k) == value[v].kind = k

Children(H) == {c \in Handles : Live(c) /\ table[c].parent \in H}

Trap == fate' = "trapped" /\ UNCHANGED <<value, table, abandoned>>

(* The handles a call passes by value, and those its arguments still hold   *)
(* and drop at its end.                                                     *)
Given(args) == {take_handle(value[a]).given : a \in args}
Kept(args) == UNION {DropHandles(take_handle(value[a]).left) : a \in args}

(* The table without the handles H, and with a new entry.                   *)
Without(tb, H) == [h \in Handles |-> IF h \in H THEN NoEntry ELSE tb[h]]
With(tb, n, e) == [tb EXCEPT ![n] = e]

(* The end of a call that took `args` and left the table tb: the arguments  *)
(* go out of scope. Dropping a handle that is not in the table traps.       *)
EndCall(args, tb, vs) ==
  IF \E h \in Kept(args) : tb[h].kind = "none"
    THEN Trap
    ELSE /\ table' = Without(tb, Kept(args))
         /\ value' = [v \in Names |-> IF v \in args THEN NoValue ELSE vs[v]]
         /\ UNCHANGED <<abandoned, fate>>

(* A wrapper that takes `args` by value. A parent whose children are alive  *)
(* traps, whoever owns it.                                                  *)
Give(args) ==
  IF Children(Given(args)) # {}
    THEN Trap
    ELSE LET tb == Without(table, Given(args))
         IN  EndCall(args, tb, value)

(* The same, returning a new resource of kind k, child of p, in `out`.      *)
Make(args, out, k, p) ==
  /\ value[out] = NoValue
  /\ IF Children(Given(args)) # {}
       THEN Trap
       ELSE LET tb == Without(table, Given(args))
            IN  \E n \in Reuse({h \in Handles : tb[h].kind = "none"}) :
                  EndCall(args, With(tb, n, Entry(k, p)),
                          [value EXCEPT ![out] = from_handle(k, n)])

Child(self, out, k) == Make({}, out, k, HandleOf(self))

(* A call that borrows `self` and spends it, without or with a resource of  *)
(* kind k as its result.                                                    *)
Spend(self) ==
  /\ table' = [table EXCEPT ![HandleOf(self)].stage = "spent"]
  /\ UNCHANGED <<value, abandoned, fate>>

SpendFor(self, out, k, p) ==
  /\ value[out] = NoValue
  /\ \E n \in Reuse({h \in Handles : ~Live(h)}) :
       /\ table' = With([table EXCEPT ![HandleOf(self)].stage = "spent"],
                        n, Entry(k, p))
       /\ value' = [value EXCEPT ![out] = from_handle(k, n)]
  /\ UNCHANGED <<abandoned, fate>>

(* consume, body, stream, write: success on the first call only.            *)
GiveOut(self, out, k, p) == StageOf(self) = "ready" /\ SpendFor(self, out, k, p)

(* The operations of streams: Ok, Err(Closed), or Err(LastOperationFailed)  *)
(* with an error resource, after which the stream is closed.                *)
StreamCall(self, out) ==
  \/ UNCHANGED resourceVars
  \/ Spend(self)
  \/ StageOf(self) = "ready" /\ SpendFor(self, out, "error", MAX)

-----------------------------------------------------------------------------
(* wasi:http/types: fields. The calls that only read or edit their content  *)
(* are in FieldsCalls.                                                      *)

Fields_new(out) == Make({}, out, "fields", MAX)
Fields_from_list(out) == Make({}, out, "fields", MAX) \/ UNCHANGED resourceVars
Fields_clone(self, out) == IsA(self, "fields") /\ Make({}, out, "fields", MAX)

(* Requests.                                                                *)

IncomingRequest_headers(self, out) ==
  IsA(self, "incoming-request") /\ Child(self, out, "fields")

IncomingRequest_consume(self, out) ==
  IsA(self, "incoming-request") /\ GiveOut(self, out, "incoming-body", MAX)

OutgoingRequest_new(headers, out) ==
  IsA(headers, "fields") /\ Make({headers}, out, "outgoing-request", MAX)

OutgoingRequest_body(self, out) ==
  IsA(self, "outgoing-request") /\ GiveOut(self, out, "outgoing-body", MAX)

OutgoingRequest_headers(self, out) ==
  IsA(self, "outgoing-request") /\ Child(self, out, "fields")

RequestOptions_new(out) == Make({}, out, "request-options", MAX)

(* outgoing_handler::handle: a future, or Err(ErrorCode). Both arguments are *)
(* taken in either case.                                                    *)
send_request(request, options, out) ==
  /\ IsA(request, "outgoing-request")
  /\ \A o \in options : IsA(o, "request-options")
  /\ \/ Make({request} \cup options, out, "future-incoming-response", MAX)
     \/ Give({request} \cup options)

(* Responses.                                                               *)

OutgoingResponse_new(headers, out) ==
  IsA(headers, "fields") /\ Make({headers}, out, "outgoing-response", MAX)

OutgoingResponse_headers(self, out) ==
  IsA(self, "outgoing-response") /\ Child(self, out, "fields")

OutgoingResponse_body(self, out) ==
  IsA(self, "outgoing-response") /\ GiveOut(self, out, "outgoing-body", MAX)

(* ResponseOutparam::set with Ok(response), or with Err(ErrorCode) when      *)
(* there is none.                                                           *)
ResponseOutparam_set(param, response) ==
  /\ IsA(param, "response-outparam")
  /\ \A r \in response : IsA(r, "outgoing-response")
  /\ Give({param} \cup response)

IncomingResponse_headers(self, out) ==
  IsA(self, "incoming-response") /\ Child(self, out, "fields")

IncomingResponse_consume(self, out) ==
  IsA(self, "incoming-response") /\ GiveOut(self, out, "incoming-body", MAX)

(* Bodies.                                                                  *)

IncomingBody_stream(self, out) ==
  IsA(self, "incoming-body") /\ GiveOut(self, out, "input-stream", HandleOf(self))

IncomingBody_finish(this, out) ==
  IsA(this, "incoming-body") /\ Make({this}, out, "future-trailers", MAX)

OutgoingBody_write(self, out) ==
  IsA(self, "outgoing-body") /\ GiveOut(self, out, "output-stream", HandleOf(self))

OutgoingBody_finish(this, trailers) ==
  /\ IsA(this, "outgoing-body")
  /\ \A t \in trailers : IsA(t, "fields")
  /\ Give({this} \cup trailers)

(* Futures: None while pending, then the result once, Err(()) later. The    *)
(* result is a resource, no trailers, or Err(ErrorCode).                    *)

FutureTrailers_subscribe(self, out) ==
  IsA(self, "future-trailers") /\ Child(self, out, "pollable")

FutureIncomingResponse_subscribe(self, out) ==
  IsA(self, "future-incoming-response") /\ Child(self, out, "pollable")

FutureTrailers_get(self, out) ==
  /\ IsA(self, "future-trailers")
  /\ \/ GiveOut(self, out, "fields", HandleOf(self))
     \/ StageOf(self) = "ready" /\ Spend(self)
     \/ StageOf(self) # "ready" /\ UNCHANGED resourceVars

FutureIncomingResponse_get(self, out) ==
  /\ IsA(self, "future-incoming-response")
  /\ \/ GiveOut(self, out, "incoming-response", MAX)
     \/ StageOf(self) = "ready" /\ Spend(self)
     \/ StageOf(self) # "ready" /\ UNCHANGED resourceVars

(* wasi:io streams, and the standard streams of wasi:cli.                   *)

get_stdin(out) == Make({}, out, "input-stream", MAX)
get_stdout(out) == Make({}, out, "output-stream", MAX)
get_stderr(out) == Make({}, out, "output-stream", MAX)

InputStream_read(self, out) == IsA(self, "input-stream") /\ StreamCall(self, out)
InputStream_blocking_read(self, out) ==
  IsA(self, "input-stream") /\ StreamCall(self, out)
InputStream_skip(self, out) == IsA(self, "input-stream") /\ StreamCall(self, out)
InputStream_blocking_skip(self, out) ==
  IsA(self, "input-stream") /\ StreamCall(self, out)
InputStream_subscribe(self, out) ==
  IsA(self, "input-stream") /\ Child(self, out, "pollable")

OutputStream_check_write(self, out) ==
  IsA(self, "output-stream") /\ StreamCall(self, out)
OutputStream_write(self, out) == IsA(self, "output-stream") /\ StreamCall(self, out)
OutputStream_blocking_write_and_flush(self, out) ==
  IsA(self, "output-stream") /\ StreamCall(self, out)
OutputStream_flush(self, out) == IsA(self, "output-stream") /\ StreamCall(self, out)
OutputStream_blocking_flush(self, out) ==
  IsA(self, "output-stream") /\ StreamCall(self, out)
OutputStream_subscribe(self, out) ==
  IsA(self, "output-stream") /\ Child(self, out, "pollable")
OutputStream_write_zeroes(self, out) ==
  IsA(self, "output-stream") /\ StreamCall(self, out)
OutputStream_blocking_write_zeroes_and_flush(self, out) ==
  IsA(self, "output-stream") /\ StreamCall(self, out)

(* Either stream can end a splice.                                          *)
OutputStream_splice(self, src, out) ==
  /\ IsA(self, "output-stream") /\ IsA(src, "input-stream")
  /\ StreamCall(self, out) \/ StreamCall(src, out)
OutputStream_blocking_splice(self, src, out) == OutputStream_splice(self, src, out)

(* wasi:io errors and pollables, and the clocks that make pollables.        *)

http_error_code(err) == IsA(err, "error") /\ UNCHANGED resourceVars
Error_to_debug_string(self) == IsA(self, "error") /\ UNCHANGED resourceVars

subscribe_instant(out) == Make({}, out, "pollable", MAX)
subscribe_duration(out) == Make({}, out, "pollable", MAX)

(* A pollable of a future is ready once the future is settled. The          *)
(* readiness of streams and clocks comes and goes.                          *)
MayBeReady(v) ==
  LET p == table[HandleOf(v)].parent
  IN  p # MAX => table[p].stage # "pending"

Pollable_ready(self) == IsA(self, "pollable") /\ UNCHANGED resourceVars

Pollable_block(self) ==
  IsA(self, "pollable") /\ MayBeReady(self) /\ UNCHANGED resourceVars

(* An empty list traps, and no other list waits if one of it is ready.      *)
poll(in) ==
  /\ \A v \in in : IsA(v, "pollable")
  /\ IF in = {} THEN Trap
               ELSE (\E v \in in : MayBeReady(v)) /\ UNCHANGED resourceVars

-----------------------------------------------------------------------------
(* Going out of scope.                                                      *)

(* Mutant: a type whose Drop does not reach [resource-drop].                *)
ForgetHandle(v, k) ==
  /\ IsA(v, k)
  /\ value' = [value EXCEPT ![v] = NoValue]
  /\ UNCHANGED <<table, abandoned, fate>>

(* [resource-drop] of a parent with live children traps. A body that was    *)
(* not finished is corrupt, an outparam that was not set is an error.       *)
Drop(v, k) ==
  /\ IsA(v, k)
  /\ IF Children(DropHandles(value[v])) # {}
       THEN Trap
       ELSE /\ table' = Without(table, DropHandles(value[v]))
            /\ value' = [value EXCEPT ![v] = NoValue]
            /\ abandoned' = abandoned \cup
                 ({k} \cap {"outgoing-body", "response-outparam"})
            /\ UNCHANGED fate

DropFields(v) == Drop(v, "fields")
DropIncomingRequest(v) == Drop(v, "incoming-request")
DropOutgoingRequest(v) == Drop(v, "outgoing-request")
DropRequestOptions(v) == Drop(v, "request-options")
DropResponseOutparam(v) == Drop(v, "response-outparam")
DropIncomingResponse(v) == Drop(v, "incoming-response")
DropIncomingBody(v) == Drop(v, "incoming-body")
DropFutureTrailers(v) == Drop(v, "future-trailers")
DropOutgoingResponse(v) == Drop(v, "outgoing-response")
DropOutgoingBody(v) == Drop(v, "outgoing-body")
DropFutureIncomingResponse(v) == Drop(v, "future-incoming-response")
DropPollable(v) == Drop(v, "pollable")
DropError(v) == Drop(v, "error")
DropInputStream(v) == Drop(v, "input-stream")
DropOutputStream(v) == Drop(v, "output-stream")

-----------------------------------------------------------------------------
(* The export: the host passes the request and the outparam.                *)
export_handle(request, out) ==
  /\ request # out
  /\ \E h \in Reuse(Handles) : \E g \in Reuse(Handles \ {h}) :
       /\ table = With(With([i \in Handles |-> NoEntry], h, Entry("incoming-request", MAX)),
                       g, Entry("response-outparam", MAX))
       /\ value = [v \in Names |->
                     CASE v = request -> from_handle("incoming-request", h)
                       [] v = out -> from_handle("response-outparam", g)
                       [] OTHER -> NoValue]
  /\ abandoned = {}
  /\ fate = "running"

(* The function returns: Rust has dropped or moved every local by then.     *)
Return ==
  /\ \A v \in Names : value[v] = NoValue
  /\ fate' = "returned"
  /\ UNCHANGED <<value, table, abandoned>>

(* unwrap() of what the program itself made an error ("misuse"), or of an   *)
(* error from outside ("failed"): a panic ends the instance.                *)
Panic(why) == fate' = why /\ UNCHANGED <<value, table, abandoned>>

(* The host settles a future.                                               *)
Settle(h) ==
  /\ table[h].kind \in Futures /\ table[h].stage = "pending"
  /\ table' = [table EXCEPT ![h].stage = "ready"]
  /\ UNCHANGED <<value, abandoned, fate>>

-----------------------------------------------------------------------------
(* Any program.                                                             *)

HttpCall ==
  \/ \E out \in Names :
       \/ Fields_new(out) \/ Fields_from_list(out) \/ RequestOptions_new(out)
  \/ \E v, out \in Names :
       \/ Fields_clone(v, out)
       \/ IncomingRequest_headers(v, out) \/ IncomingRequest_consume(v, out)
       \/ OutgoingRequest_new(v, out) \/ OutgoingRequest_body(v, out)
       \/ OutgoingRequest_headers(v, out)
       \/ OutgoingResponse_new(v, out) \/ OutgoingResponse_headers(v, out)
       \/ OutgoingResponse_body(v, out)
       \/ IncomingResponse_headers(v, out) \/ IncomingResponse_consume(v, out)
       \/ IncomingBody_stream(v, out) \/ IncomingBody_finish(v, out)
       \/ OutgoingBody_write(v, out)
       \/ FutureTrailers_subscribe(v, out) \/ FutureTrailers_get(v, out)
       \/ FutureIncomingResponse_subscribe(v, out)
       \/ FutureIncomingResponse_get(v, out)
  \/ \E v, w, out \in Names : \E opt \in {{}, {w}} :
       \/ send_request(v, opt, out)
       \/ ResponseOutparam_set(v, opt)
       \/ OutgoingBody_finish(v, opt)

IoCall ==
  \/ \E out \in Names :
       \/ get_stdin(out) \/ get_stdout(out) \/ get_stderr(out)
       \/ subscribe_instant(out) \/ subscribe_duration(out)
  \/ \E v, out \in Names :
       \/ InputStream_read(v, out) \/ InputStream_blocking_read(v, out)
       \/ InputStream_skip(v, out) \/ InputStream_blocking_skip(v, out)
       \/ InputStream_subscribe(v, out)
       \/ OutputStream_check_write(v, out) \/ OutputStream_write(v, out)
       \/ OutputStream_blocking_write_and_flush(v, out)
       \/ OutputStream_flush(v, out) \/ OutputStream_blocking_flush(v, out)
       \/ OutputStream_subscribe(v, out) \/ OutputStream_write_zeroes(v, out)
       \/ OutputStream_blocking_write_zeroes_and_flush(v, out)
  \/ \E v, w, out \in Names :
       OutputStream_splice(v, w, out) \/ OutputStream_blocking_splice(v, w, out)
  \/ \E v \in Names :
       \/ http_error_code(v) \/ Error_to_debug_string(v)
       \/ Pollable_ready(v) \/ Pollable_block(v)
  \/ \E in \in SUBSET Names : poll(in)

DropCall ==
  \E v \in Names :
    \/ DropFields(v) \/ DropIncomingRequest(v) \/ DropOutgoingRequest(v)
    \/ DropRequestOptions(v) \/ DropResponseOutparam(v)
    \/ DropIncomingResponse(v) \/ DropIncomingBody(v) \/ DropFutureTrailers(v)
    \/ DropOutgoingResponse(v) \/ DropOutgoingBody(v)
    \/ DropFutureIncomingResponse(v) \/ DropPollable(v) \/ DropError(v)
    \/ DropInputStream(v) \/ DropOutputStream(v)

AnyStep ==
  /\ fate = "running"
  /\ \/ HttpCall \/ IoCall \/ DropCall
     \/ Return \/ Panic("misuse") \/ Panic("failed")
     \/ \E h \in Handles : Settle(h)

AnyProgram ==
  /\ \E request, out \in Names : export_handle(request, out)
  /\ [][AnyStep]_resourceVars

-----------------------------------------------------------------------------
(* Every handle of the component's table has exactly one owner in the       *)
(* program, at its own type, and every owner's handle is in the table: no   *)
(* wrapper loses a handle, keeps one it passed on, or drops one twice, even  *)
(* when the host uses the numbers again.                                    *)
HandlesHaveOneOwner ==
  /\ \A v \in Names : value[v] # NoValue =>
       HandleOf(v) \in Handles /\ table[HandleOf(v)].kind = value[v].kind
  /\ \A h \in Handles : Live(h) => \E v \in Names : HandleOf(v) = h
  /\ \A v, w \in Names : HandleOf(v) = HandleOf(w) => v = w \/ HandleOf(v) = MAX

(* A program that returns has given up every resource: nothing stays in the *)
(* table of an instance that serves further requests.                       *)
NothingStays == fate = "returned" => \A h \in Handles : ~Live(h)
=============================================================================
