------------------------------ MODULE Callouts ------------------------------
(***************************************************************************)
(* The outbound calls of a root context (proxy_wasm_api.h): four tables     *)
(* from the host's tokens to callbacks and handlers, and the handlers'      *)
(* methods, which the plugin may call from inside a callback. The host      *)
(* answers every call once, with a failure when it times out, and does not  *)
(* use a token again for as long as it is being answered: the tables are    *)
(* only cleared when the callback is over.                                  *)
(***************************************************************************)
EXTENDS Integers, Functions

CONSTANTS
  Tokens,
  MaxCalls,   \* bound: calls of one behaviour
  Typed       \* whether streams are of the class templated on messages

VARIABLES
  http_calls_, simple_grpc_calls_, grpc_calls_, grpc_streams_,  \* [token -> call]
  local_close_, remote_close_,   \* the streams whose member is true
  running,    \* the callback in progress: its token, the call it was meant
              \* for and the call whose callback it is (0 for none)
  host,       \* [Tokens -> the call the host has under the token]
  made,       \* how many calls were made; they are numbered from 1
  misused     \* whether the SDK used a handler after it destroyed it

tables == <<http_calls_, simple_grpc_calls_, grpc_calls_, grpc_streams_>>
streamVars == <<local_close_, remote_close_>>
calloutVars == <<tables, streamVars, running, host, made, misused>>

(* The host's view: a call of some kind, and the sides that are closed.     *)
Under(kind, c, sides) == [kind |-> kind, call |-> c, closed |-> sides]
Free == Under("none", 0, {})
NoCallback == [of |-> "none", token |-> 0, meant |-> 0, call |-> 0]
Empty == [t \in {} |-> 0]

Put(table, t, c) == [u \in DOMAIN table \cup {t} |-> IF u = t THEN c ELSE table[u]]
Erase(table, t) == Restrict(table, DOMAIN table \ {t})
Find(table, t) == IF t \in DOMAIN table THEN table[t] ELSE 0

CalloutsInit ==
  /\ http_calls_ = Empty /\ simple_grpc_calls_ = Empty
  /\ grpc_calls_ = Empty /\ grpc_streams_ = Empty
  /\ local_close_ = {} /\ remote_close_ = {}
  /\ running = NoCallback
  /\ host = [t \in Tokens |-> Free]
  /\ made = 0
  /\ misused = FALSE

-----------------------------------------------------------------------------
(* The plugin, from any callback. A call the host refuses changes nothing.  *)

FreshToken(t) == host[t].kind = "none" /\ t # running.token

Start(t, kind) ==
  /\ made < MaxCalls /\ made' = made + 1
  /\ FreshToken(t)
  /\ host' = [host EXCEPT ![t] = Under(kind, made', {})]
  /\ UNCHANGED <<streamVars, running, misused>>

httpCall(t) ==
  /\ Start(t, "http")
  /\ http_calls_' = Put(http_calls_, t, made')
  /\ UNCHANGED <<simple_grpc_calls_, grpc_calls_, grpc_streams_>>

grpcSimpleCall(t) ==
  /\ Start(t, "simple")
  /\ simple_grpc_calls_' = Put(simple_grpc_calls_, t, made')
  /\ UNCHANGED <<http_calls_, grpc_calls_, grpc_streams_>>

grpcCallHandler(t) ==
  /\ Start(t, "call")
  /\ grpc_calls_' = Put(grpc_calls_, t, made')
  /\ UNCHANGED <<http_calls_, simple_grpc_calls_, grpc_streams_>>

grpcStreamHandler(t) ==
  /\ Start(t, "stream")
  /\ grpc_streams_' = Put(grpc_streams_, t, made')
  /\ UNCHANGED <<http_calls_, simple_grpc_calls_, grpc_calls_>>

(* grpcCancel and grpcClose in the host. A token it no longer has under     *)
(* this call is NotFound.                                                   *)
Cancelled(t, c) == IF host[t].call = c THEN [host EXCEPT ![t] = Free] ELSE host
Closed(t, c) ==
  IF host[t].call # c THEN host
  ELSE [host EXCEPT ![t] = IF "remote" \in @.closed THEN Free
                                                     ELSE Under(@.kind, c, {"local"})]

(* GrpcCallHandlerBase::cancel, also from its own onSuccess or onFailure.   *)
cancel(t) ==
  /\ t \in DOMAIN grpc_calls_
  /\ host' = Cancelled(t, grpc_calls_[t])
  /\ grpc_calls_' = Erase(grpc_calls_, t)
  /\ UNCHANGED <<http_calls_, simple_grpc_calls_, grpc_streams_, streamVars,
                 running, made, misused>>

(* GrpcStreamHandlerBase.                                                   *)
reset(t) ==
  /\ t \in DOMAIN grpc_streams_
  /\ host' = Cancelled(t, grpc_streams_[t])
  /\ grpc_streams_' = Erase(grpc_streams_, t)
  /\ UNCHANGED <<http_calls_, simple_grpc_calls_, grpc_calls_, streamVars,
                 running, made, misused>>

(* The own side of stream c is closed: with the other side it is erased.    *)
LocalClose(t, c) ==
  /\ local_close_' = local_close_ \cup {c}
  /\ grpc_streams_' = IF c \in remote_close_ THEN Erase(grpc_streams_, t)
                                             ELSE grpc_streams_
  /\ UNCHANGED <<http_calls_, simple_grpc_calls_, grpc_calls_, remote_close_,
                 running, made>>

(* Mutant: a closed stream is left to doRemoteClose.                        *)
close_only_marks(t) ==
  /\ t \in DOMAIN grpc_streams_
  /\ host' = Closed(t, grpc_streams_[t])
  /\ local_close_' = local_close_ \cup {grpc_streams_[t]}
  /\ UNCHANGED <<tables, remote_close_, running, made, misused>>

close(t) ==
  /\ t \in DOMAIN grpc_streams_
  /\ host' = Closed(t, grpc_streams_[t])
  /\ LocalClose(t, grpc_streams_[t])
  /\ UNCHANGED misused

(* send with end_of_stream, on a side that is still open; one without       *)
(* leaves all as it is. The base class does nothing either when the host    *)
(* refuses; the send of the template writes local_close_ after the base's,  *)
(* whether the host accepted and whatever became of the handler.            *)
send(t) ==
  \E accepted \in {TRUE, ~Typed} :
    /\ t \in DOMAIN grpc_streams_
    /\ grpc_streams_[t] \notin local_close_
    /\ IF accepted
         THEN /\ host' = Closed(t, grpc_streams_[t])
              /\ LocalClose(t, grpc_streams_[t])
              /\ misused' = (misused \/ (Typed /\ t \notin DOMAIN grpc_streams_'))
         ELSE /\ local_close_' = local_close_ \cup {grpc_streams_[t]}
              /\ UNCHANGED <<tables, remote_close_, running, host, made, misused>>

Plugin ==
  \E t \in Tokens :
    \/ httpCall(t) \/ grpcSimpleCall(t) \/ grpcCallHandler(t) \/ grpcStreamHandler(t)
    \/ cancel(t) \/ reset(t) \/ close(t) \/ send(t)

-----------------------------------------------------------------------------
(* The host calls back. The tables are asked in this order.                 *)

Callback(t) ==
  LET found(of, c) == [of |-> of, token |-> t, meant |-> host[t].call, call |-> c]
  IN  CASE t \in DOMAIN simple_grpc_calls_ -> found("simple", simple_grpc_calls_[t])
        [] t \in DOMAIN grpc_calls_ /\ t \notin DOMAIN simple_grpc_calls_ ->
             found("call", grpc_calls_[t])
        [] OTHER -> found("stream", Find(grpc_streams_, t))

CallBack(t) ==
  /\ running = NoCallback
  /\ UNCHANGED <<tables, streamVars, made, misused>>

onHttpCallResponse(t) ==
  /\ host[t].kind = "http"
  /\ running' = [of |-> "http", token |-> t, meant |-> host[t].call,
                 call |-> Find(http_calls_, t)]
  /\ host' = [host EXCEPT ![t] = Free]
  /\ CallBack(t)

(* onGrpcReceive or onGrpcClose of a unary call.                            *)
onGrpcAnswer(t) ==
  /\ host[t].kind \in {"simple", "call"}
  /\ running' = Callback(t)
  /\ host' = [host EXCEPT ![t] = Free]
  /\ CallBack(t)

(* onGrpcReceive, onGrpcReceiveInitialMetadata and ...TrailingMetadata of a *)
(* stream.                                                                  *)
onGrpcReceive(t) ==
  /\ host[t].kind = "stream" /\ "remote" \notin host[t].closed
  /\ running' = Callback(t)
  /\ UNCHANGED host
  /\ CallBack(t)

onGrpcClose(t) ==
  /\ host[t].kind = "stream" /\ "remote" \notin host[t].closed
  /\ running' = [Callback(t) EXCEPT !.of = IF @ = "stream" THEN "close" ELSE @]
  /\ host' = [host EXCEPT ![t] = IF "local" \in @.closed THEN Free
                                     ELSE Under("stream", @.call, {"remote"})]
  /\ CallBack(t)

(* What is left to do when the callback returns.                            *)

CallbackReturns(of) ==
  /\ running.of = of
  /\ running' = NoCallback
  /\ UNCHANGED <<host, made>>

EndHttpCallResponse ==
  /\ CallbackReturns("http")
  /\ http_calls_' = Erase(http_calls_, running.token)
  /\ UNCHANGED <<simple_grpc_calls_, grpc_calls_, grpc_streams_, streamVars, misused>>

(* Mutant: a failed call keeps its callback.                                *)
EndSimpleCallOfSuccess ==
  /\ CallbackReturns("simple")
  /\ \/ simple_grpc_calls_' = Erase(simple_grpc_calls_, running.token)
     \/ UNCHANGED simple_grpc_calls_
  /\ UNCHANGED <<http_calls_, grpc_calls_, grpc_streams_, streamVars, misused>>

EndSimpleCall ==
  /\ CallbackReturns("simple")
  /\ simple_grpc_calls_' = Erase(simple_grpc_calls_, running.token)
  /\ UNCHANGED <<http_calls_, grpc_calls_, grpc_streams_, streamVars, misused>>

(* Mutant: the handler is left to its own cancel().                         *)
KeepCall ==
  /\ CallbackReturns("call")
  /\ UNCHANGED <<tables, streamVars, misused>>

EndCall ==
  /\ CallbackReturns("call")
  /\ grpc_calls_' = Erase(grpc_calls_, running.token)
  /\ UNCHANGED <<http_calls_, simple_grpc_calls_, grpc_streams_, streamVars, misused>>

EndReceive == CallbackReturns("stream") /\ UNCHANGED <<tables, streamVars, misused>>

(* The rest of doRemoteClose on the handler `this`.                         *)
RemoteClose(this) ==
  /\ remote_close_' = remote_close_ \cup {this}
  /\ grpc_streams_' = IF this \in local_close_ THEN Erase(grpc_streams_, running.token)
                                               ELSE grpc_streams_
  /\ misused' = (misused \/ Find(grpc_streams_, running.token) # this)
  /\ UNCHANGED <<http_calls_, simple_grpc_calls_, grpc_calls_, local_close_>>

(* Mutant: without the look whether the handler was erased meanwhile.       *)
RemoteCloseAnyway == CallbackReturns("close") /\ RemoteClose(running.call)

doRemoteClose ==
  /\ CallbackReturns("close")
  /\ IF running.token \in DOMAIN grpc_streams_
       THEN RemoteClose(running.call)
       ELSE UNCHANGED <<tables, streamVars, misused>>

Answer(t) == onHttpCallResponse(t) \/ onGrpcAnswer(t)

Returns ==
  \/ EndHttpCallResponse \/ EndSimpleCall \/ EndCall \/ EndReceive \/ doRemoteClose

CalloutsNext ==
  \/ Plugin \/ Returns
  \/ \E t \in Tokens : Answer(t) \/ onGrpcReceive(t) \/ onGrpcClose(t)

(* Callbacks return. A call is answered, at the latest when it times out,   *)
(* although other callbacks keep the plugin busy in between.                *)
CalloutsFairness == WF_calloutVars(Returns) /\ \A t \in Tokens : SF_calloutVars(Answer(t))

CalloutsSpec == CalloutsInit /\ [][CalloutsNext]_calloutVars /\ CalloutsFairness

-----------------------------------------------------------------------------
(* Every answer and every event of a stream reaches the callback of its own *)
(* call, although tokens are used again and three kinds share them.         *)
AnswersReachTheirCall == running.call = running.meant

(* Between callbacks the tables hold exactly the calls the host has not     *)
(* answered and the streams with a side that is open: no callback outlives  *)
(* its call, none is dropped before.                                        *)
TablesAgree ==
  LET Has(kind) == {t \in Tokens : host[t].kind = kind}
  IN  running = NoCallback =>
        /\ DOMAIN http_calls_ = Has("http")
        /\ DOMAIN simple_grpc_calls_ = Has("simple")
        /\ DOMAIN grpc_calls_ = Has("call")
        /\ DOMAIN grpc_streams_ = Has("stream")

(* No code of the SDK uses a handler it has destroyed. In particular a      *)
(* stream whose remote side is closed can be sent to: "we can still send in *)
(* this state" (proxy_wasm_api.h:2028).                                     *)
NoHandlerUsedAfterErase == ~misused

(* Every unary call leaves the tables: none waits for good.                 *)
Pending(c) ==
  \E t \in Tokens : c \in {Find(http_calls_, t), Find(simple_grpc_calls_, t),
                           Find(grpc_calls_, t)}
CallsEnd == \A c \in 1 .. MaxCalls : Pending(c) ~> ~Pending(c)
=============================================================================
