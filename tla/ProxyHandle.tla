---------------------------- MODULE ProxyHandle ----------------------------
(***************************************************************************)
(* One call of Proxy::handle (proxy/lib.rs): the proxy forwards an HTTP     *)
(* request to the upstream its `destination` header names, relays the       *)
(* request body and trailers, then relays the response the same way, and    *)
(* shows every part to the proxy-wasm plugin (the guest) first.             *)
(*                                                                          *)
(* The handler is one sequential process; what makes it hard is that every  *)
(* call it makes can meet a peer that sent more, stopped reading, closed or *)
(* failed in the meantime. The WASI host and the two peers are therefore    *)
(* actions of their own, which interleave with every step of the handler.   *)
(*                                                                          *)
(* Bytes are counted, never named: the handler passes on each buffer it     *)
(* read unchanged (line 85 writes data[..]), and streams keep their order,  *)
(* so lengths are all that can go wrong.                                    *)
(***************************************************************************)
EXTENDS Integers

CONSTANTS
  MaxBody,        \* [Dir -> bytes in the longest body its sender sends]
  SourceWindow,   \* bytes of a body the host reads ahead of the handler
  SinkWindow,     \* bytes the host accepts ahead of the receiving peer
  EchoWindow,     \* request bytes an upstream takes ahead of its answer
  DropLosesData   \* may a dropped output-stream lose what was not flushed?

(* The two messages the handler relays, named by the `request: bool`        *)
(* parameter of stream_data.                                                *)
Dir == {"request", "response"}

ASSUME MaxBodyAssumption      == MaxBody \in [Dir -> Nat]
ASSUME SourceWindowAssumption == SourceWindow \in Nat \ {0}
ASSUME SinkWindowAssumption   == SinkWindow \in Nat \ {0}
ASSUME EchoWindowAssumption   == EchoWindow \in Nat \ {0}
ASSUME DropAssumption         == DropLosesData \in BOOLEAN

VARIABLES
  (* the handler *)
  pc,         \* the next step of handle / stream_data
  dir,        \* the message being relayed
  permit,     \* `buffer`: what check_write allowed
  data,       \* data.len(): bytes read and not yet written
  outparam,   \* what the client was told: "unset", "response", "error"
  (* the plugin, as the callbacks show it the exchange *)
  phase,      \* [Dir -> last kind of callback]
  announced,  \* [Dir -> body bytes announced]
  (* the host: incoming messages *)
  headOk,     \* the request head can be forwarded
  hasLength,  \* [Dir -> the head carries a Content-Length]
  body,       \* [Dir -> length of the body its sender means to send]
  denied,     \* what the host denied the handler, or the plugin: "nothing",
              \* the "status" of the response, a "host_call" of a callback
  sent,       \* [Dir -> bytes its sender has sent]
  rd,         \* [Dir -> bytes the handler has read]
  srcEnd,     \* [Dir -> "open", "closed" or "failed" input-stream]
  trailers,   \* [Dir -> outcome of its FutureTrailers]
  future,     \* the FutureIncomingResponse
  (* the host: outgoing messages *)
  sink,       \* [Dir -> output-stream: "none", "open", "dropped"]
  wr,         \* [Dir -> bytes written to it]
  dlv,        \* [Dir -> bytes the receiver got]
  sinkEnd,    \* [Dir -> "open", or "closed" by the receiver]
  lost,       \* [Dir -> bytes were lost when the stream was dropped]
  bodyOut     \* [Dir -> OutgoingBody: "none", "open", "finished", "aborted"]

handlerVars == <<pc, dir, permit, data, outparam>>
guestVars   == <<phase, announced>>
headVars    == <<headOk, hasLength, body, denied>>
srcVars     == <<sent, rd, srcEnd, trailers, future>>
sinkVars    == <<sink, wr, dlv, sinkEnd, lost, bodyOut>>
vars == <<handlerVars, guestVars, headVars, srcVars, sinkVars>>

Phases == {"none", "headers", "body", "trailers"}
Pcs == {"create", "build", "request_headers", "send", "open", "source",
        "destination", "check", "read", "callback", "write", "flush",
        "drop", "trailers", "finish", "future", "response_headers", "set",
        "done", "panicked"}

TypeOK ==
  /\ pc \in Pcs
  /\ dir \in Dir
  /\ permit \in 0 .. SinkWindow
  /\ data \in 0 .. SinkWindow
  /\ outparam \in {"unset", "response", "error"}
  /\ phase \in [Dir -> Phases]
  /\ announced \in [Dir -> Nat]
  /\ headOk \in BOOLEAN
  /\ hasLength \in [Dir -> BOOLEAN]
  /\ body \in [Dir -> Nat]
  /\ denied \in {"nothing", "status", "host_call"}
  /\ sent \in [Dir -> Nat]
  /\ rd \in [Dir -> Nat]
  /\ srcEnd \in [Dir -> {"open", "closed", "failed"}]
  /\ trailers \in [Dir -> {"pending", "none", "some", "failed"}]
  /\ future \in {"none", "refused", "pending", "ok", "error"}
  /\ sink \in [Dir -> {"none", "open", "dropped"}]
  /\ wr \in [Dir -> Nat]
  /\ dlv \in [Dir -> Nat]
  /\ sinkEnd \in [Dir -> {"open", "closed"}]
  /\ lost \in [Dir -> BOOLEAN]
  /\ bodyOut \in [Dir -> {"none", "open", "finished", "aborted"}]

Init ==
  /\ pc = "create"
  /\ dir = "request"
  /\ permit = 0
  /\ data = 0
  /\ outparam = "unset"
  /\ phase = [d \in Dir |-> "none"]
  /\ announced = [d \in Dir |-> 0]
  /\ headOk \in BOOLEAN
  /\ hasLength \in [Dir -> BOOLEAN]
  /\ \E m \in 0 .. MaxBody["request"], n \in 0 .. MaxBody["response"] :
       body = [d \in Dir |-> IF d = "request" THEN m ELSE n]
  /\ denied = "nothing"
  /\ sent = [d \in Dir |-> 0]
  /\ rd = [d \in Dir |-> 0]
  /\ srcEnd = [d \in Dir |-> "open"]
  /\ trailers = [d \in Dir |-> "pending"]
  /\ future = "none"
  /\ sink = [d \in Dir |-> "none"]
  /\ wr = [d \in Dir |-> 0]
  /\ dlv = [d \in Dir |-> 0]
  /\ sinkEnd = [d \in Dir |-> "open"]
  /\ lost = [d \in Dir |-> FALSE]
  /\ bodyOut = [d \in Dir |-> "none"]

-----------------------------------------------------------------------------
(* The handler, in program order. A step ends where the handler waits for   *)
(* the host or asks it something whose answer may have changed meanwhile.   *)

Goto(l) == pc' = l

(* unwrap() of an Err, assert! and panic! end the instance. The host        *)
(* answers for an outparam nobody set and treats an unfinished body as      *)
(* corrupted.                                                               *)
Stop ==
  /\ Goto("panicked")
  /\ outparam' = IF outparam = "unset" THEN "error" ELSE outparam
  /\ bodyOut' = [d \in Dir |-> IF bodyOut[d] = "open" THEN "aborted"
                                                      ELSE bodyOut[d]]
  /\ UNCHANGED <<dir, permit, data, srcVars, sink, wr, dlv, sinkEnd, lost>>

Trap == Stop /\ UNCHANGED <<guestVars, headVars>>

(* The host denied what no peer decides.                                    *)
Denied(what) ==
  /\ Stop
  /\ denied' = what
  /\ UNCHANGED <<headOk, hasLength, body>>

(* A callback returns and the handler goes on at l, or it traps: proxy_log  *)
(* and proxy_get_property, which the plugin calls from inside it, unwrap    *)
(* what the host answers them. Neither the status a callback returns nor    *)
(* the end_of_stream it is passed, the constant false, has any effect.      *)
Callback(l) ==
  \/ /\ Goto(l)
     /\ UNCHANGED <<dir, permit, data, outparam, headVars, srcVars, sinkVars>>
  \/ Denied("host_call")

(* The plugin is shown a part of message d, of n body bytes.                *)
Show(d, part, n) ==
  /\ phase' = [phase EXCEPT ![d] = part]
  /\ announced' = [announced EXCEPT ![d] = @ + n]

(* Both contexts.                                                           *)
CreateContexts ==
  /\ pc = "create"
  /\ Callback("build")
  /\ UNCHANGED guestVars

(* Mutant: a head without a destination makes the handler return.           *)
BuildRequestReturns ==
  /\ pc = "build"
  /\ Goto(IF headOk THEN "request_headers" ELSE "done")
  /\ UNCHANGED <<dir, permit, data, outparam, guestVars, headVars, srcVars,
                 sinkVars>>

(* request_target takes the only `destination` header, and the host accepts *)
(* it and the rest of the head for an outgoing request.                     *)
HasTarget == headOk

(* request_target and the set_* calls.                                      *)
BuildRequest ==
  /\ pc = "build"
  /\ \/ /\ HasTarget
        /\ Goto("request_headers")
        /\ UNCHANGED <<dir, permit, data, outparam, guestVars, headVars,
                       srcVars, sinkVars>>
     \/ ~HasTarget /\ Trap

OnRequestHeaders ==
  /\ pc = "request_headers"
  /\ Show("request", "headers", 0)
  /\ Callback("send")

(* consume, body and send_request: the host may refuse the request.         *)
SendRequest ==
  /\ pc = "send"
  /\ Goto("open")
  /\ future' = "pending"
  /\ bodyOut' = [bodyOut EXCEPT !["request"] = "open"]
  /\ UNCHANGED <<dir, permit, data, outparam, guestVars, headVars, sent, rd,
                 srcEnd, trailers, sink, wr, dlv, sinkEnd, lost>>

SendRefused ==
  /\ pc = "send"
  /\ Goto("panicked")
  /\ future' = "refused"
  /\ outparam' = "error"
  /\ bodyOut' = [bodyOut EXCEPT !["request"] = "aborted"]
  /\ UNCHANGED <<dir, permit, data, guestVars, headVars, sent, rd, srcEnd,
                 trailers, sink, wr, dlv, sinkEnd, lost>>

OpenStreams ==
  /\ pc = "open"
  /\ sink' = [sink EXCEPT ![dir] = "open"]
  /\ Goto("source")
  /\ UNCHANGED <<dir, permit, data, outparam, guestVars, headVars, srcVars,
                 wr, dlv, sinkEnd, lost, bodyOut>>

(* Mutant: only bytes make a source ready, its end does not.                *)
SourceHasBytes(d) == rd[d] < sent[d]

(* Mutant: the host's window counted one byte too large.                    *)
RoomTooLarge(d) == SinkWindow + 1 - (wr[d] - dlv[d])

(* stream_data: wait for the source, then for the destination.              *)
SourceReady(d) == rd[d] < sent[d] \/ srcEnd[d] # "open"
Room(d) == SinkWindow - (wr[d] - dlv[d])
SinkReady(d) == sinkEnd[d] = "closed" \/ Room(d) > 0

AwaitSource ==
  /\ pc = "source"
  /\ SourceReady(dir)
  /\ Goto("destination")
  /\ UNCHANGED <<dir, permit, data, outparam, guestVars, headVars, srcVars,
                 sinkVars>>

(* Mutant: the wait for the destination is left out.                        *)
NoWaitForDestination ==
  /\ pc = "destination"
  /\ Goto("check")
  /\ UNCHANGED <<dir, permit, data, outparam, guestVars, headVars, srcVars,
                 sinkVars>>

AwaitDestination ==
  /\ pc = "destination"
  /\ SinkReady(dir)
  /\ Goto("check")
  /\ UNCHANGED <<dir, permit, data, outparam, guestVars, headVars, srcVars,
                 sinkVars>>

(* check_write: the host may permit less than it has room for.              *)
CheckWrite ==
  /\ pc = "check"
  /\ \/ /\ sinkEnd[dir] = "open"
        /\ \E n \in 1 .. Room(dir) : permit' = n
        /\ Goto("read")
        /\ UNCHANGED <<dir, data, outparam, guestVars, headVars, srcVars,
                       sinkVars>>
     \/ sinkEnd[dir] = "closed" /\ Trap

(* Mutant: reads whole windows, whatever check_write allowed.               *)
ReadWindow ==
  /\ pc = "read"
  /\ \E n \in 1 .. SinkWindow :
       /\ n <= sent[dir] - rd[dir]
       /\ rd' = [rd EXCEPT ![dir] = @ + n]
       /\ data' = n
  /\ Goto("callback")
  /\ UNCHANGED <<dir, permit, outparam, guestVars, headVars, sent, srcEnd,
                 trailers, future, sinkVars>>

(* source.read(buffer): Ok may carry less than asked for and than there is. *)
ReadData ==
  /\ pc = "read"
  /\ \E n \in 1 .. permit :
       /\ n <= sent[dir] - rd[dir]
       /\ rd' = [rd EXCEPT ![dir] = @ + n]
       /\ data' = n
  /\ Goto("callback")
  /\ UNCHANGED <<dir, permit, outparam, guestVars, headVars, sent, srcEnd,
                 trailers, future, sinkVars>>

(* Mutant: a sender's end is taken for the end of its bytes.                *)
ReadClosedEarly ==
  /\ pc = "read"
  /\ srcEnd[dir] = "closed"
  /\ Goto("flush")
  /\ UNCHANGED <<dir, permit, data, outparam, guestVars, headVars, srcVars,
                 sinkVars>>

ReadClosed ==
  /\ pc = "read"
  /\ srcEnd[dir] = "closed"
  /\ rd[dir] = sent[dir]
  /\ Goto("flush")
  /\ UNCHANGED <<dir, permit, data, outparam, guestVars, headVars, srcVars,
                 sinkVars>>

(* Mutant: an error of the source is taken for one that passes.             *)
ReadFailedRetries ==
  /\ pc = "read"
  /\ srcEnd[dir] = "failed"
  /\ Goto("source")
  /\ UNCHANGED <<dir, permit, data, outparam, guestVars, headVars, srcVars,
                 sinkVars>>

ReadFailed ==
  /\ pc = "read"
  /\ srcEnd[dir] = "failed"
  /\ Trap

OnBody ==
  /\ pc = "callback"
  /\ Show(dir, "body", data)
  /\ Callback("write")

(* destination.write: closed since check_write is an Err, and more than it  *)
(* allowed would trap in the host.                                          *)
WriteAccepted(d) == sinkEnd[d] = "open" /\ data <= permit

Write ==
  /\ pc = "write"
  /\ \/ /\ WriteAccepted(dir)
        /\ wr' = [wr EXCEPT ![dir] = @ + data]
        /\ data' = 0
        /\ Goto("source")
        /\ UNCHANGED <<dir, permit, outparam, guestVars, headVars, srcVars,
                       sink, dlv, sinkEnd, lost, bodyOut>>
     \/ ~WriteAccepted(dir) /\ Trap

(* destination.flush() only asks for a flush: it reports a closed stream,   *)
(* and waits for nothing.                                                   *)
Flush ==
  /\ pc = "flush"
  /\ \/ /\ sinkEnd[dir] = "open"
        /\ Goto("drop")
        /\ UNCHANGED <<dir, permit, data, outparam, guestVars, headVars,
                       srcVars, sinkVars>>
     \/ sinkEnd[dir] = "closed" /\ Trap

(* Mutant: dropping a stream always cancels what it has not passed on.      *)
DropCancels ==
  /\ pc = "drop"
  /\ sink' = [sink EXCEPT ![dir] = "dropped"]
  /\ lost' = [lost EXCEPT ![dir] = dlv[dir] < wr[dir]]
  /\ Goto("trailers")
  /\ UNCHANGED <<dir, permit, data, outparam, guestVars, headVars, srcVars,
                 wr, dlv, sinkEnd, bodyOut>>

(* stream_data returns and the block that owns both streams ends. The host  *)
(* may lose what a dropped output-stream has not passed on yet.             *)
DropStreams ==
  /\ pc = "drop"
  /\ sink' = [sink EXCEPT ![dir] = "dropped"]
  /\ \E l \in BOOLEAN : /\ l => DropLosesData /\ dlv[dir] < wr[dir]
                        /\ lost' = [lost EXCEPT ![dir] = l]
  /\ Goto("trailers")
  /\ UNCHANGED <<dir, permit, data, outparam, guestVars, headVars, srcVars,
                 wr, dlv, sinkEnd, bodyOut>>

(* Mutants: an error instead of trailers is taken for no trailers, and the  *)
(* plugin is not shown the trailers there are.                              *)
AwaitTrailersOrError ==
  /\ pc = "trailers"
  /\ trailers[dir] \in {"none", "failed"}
  /\ Goto("finish")
  /\ UNCHANGED <<dir, permit, data, outparam, guestVars, headVars, srcVars,
                 sinkVars>>

AwaitTrailersUnseen ==
  /\ pc = "trailers"
  /\ trailers[dir] \in {"none", "some"}
  /\ Goto("finish")
  /\ UNCHANGED <<dir, permit, data, outparam, guestVars, headVars, srcVars,
                 sinkVars>>

(* IncomingBody::finish, the wait for the trailers it promises, and the     *)
(* plugin's look at them.                                                   *)
AwaitTrailers ==
  /\ pc = "trailers"
  /\ trailers[dir] = "none"
  /\ Goto("finish")
  /\ UNCHANGED <<dir, permit, data, outparam, guestVars, headVars, srcVars,
                 sinkVars>>

OnTrailers ==
  /\ pc = "trailers"
  /\ trailers[dir] = "some"
  /\ Show(dir, "trailers", 0)
  /\ Callback("finish")

TrailersFailed ==
  /\ pc = "trailers"
  /\ trailers[dir] = "failed"
  /\ Trap

(* OutgoingBody::finish fails when the Content-Length of the forwarded head *)
(* is not what was written.                                                 *)
LengthMatches(d) == hasLength[d] => wr[d] = body[d]

Finish ==
  /\ pc = "finish"
  /\ \/ /\ LengthMatches(dir)
        /\ bodyOut' = [bodyOut EXCEPT ![dir] = "finished"]
        /\ Goto(IF dir = "request" THEN "future" ELSE "done")
        /\ UNCHANGED <<dir, permit, data, outparam, guestVars, headVars,
                       srcVars, sink, wr, dlv, sinkEnd, lost>>
     \/ ~LengthMatches(dir) /\ Trap

(* Mutants: the response is taken without waiting for it, or only a good    *)
(* one is waited for.                                                       *)
TakeResponse ==
  /\ pc = "future"
  /\ \/ /\ future = "ok"
        /\ Goto("response_headers")
        /\ UNCHANGED <<dir, permit, data, outparam, guestVars, headVars,
                       srcVars, sinkVars>>
     \/ future \in {"pending", "error"} /\ Trap

AwaitGoodResponse ==
  /\ pc = "future"
  /\ future = "ok"
  /\ Goto("response_headers")
  /\ UNCHANGED <<dir, permit, data, outparam, guestVars, headVars, srcVars,
                 sinkVars>>

(* future.subscribe().block() and the unwrap()s of what get() returns.      *)
AwaitResponse ==
  /\ pc = "future"
  /\ \/ /\ future = "ok"
        /\ Goto("response_headers")
        /\ UNCHANGED <<dir, permit, data, outparam, guestVars, headVars,
                       srcVars, sinkVars>>
     \/ future = "error" /\ Trap

(* The host may refuse to have the upstream's status in a response it sends *)
(* (set_status_code); otherwise the plugin is shown the head.               *)
OnResponseHeaders ==
  /\ pc = "response_headers"
  /\ \/ Denied("status") /\ UNCHANGED guestVars
     \/ Show("response", "headers", 0) /\ Callback("set")

SetOutparam ==
  /\ pc = "set"
  /\ outparam' = "response"
  /\ bodyOut' = [bodyOut EXCEPT !["response"] = "open"]
  /\ dir' = "response"
  /\ Goto("open")
  /\ UNCHANGED <<permit, data, guestVars, headVars, srcVars, sink, wr, dlv,
                 sinkEnd, lost>>

StreamData ==
  \/ AwaitSource \/ AwaitDestination \/ CheckWrite
  \/ ReadData \/ ReadClosed \/ ReadFailed \/ OnBody \/ Write \/ Flush

Handle ==
  \/ CreateContexts \/ BuildRequest \/ OnRequestHeaders
  \/ SendRequest \/ SendRefused \/ OpenStreams \/ StreamData \/ DropStreams
  \/ AwaitTrailers \/ OnTrailers \/ TrailersFailed \/ Finish
  \/ AwaitResponse \/ OnResponseHeaders \/ SetOutparam

-----------------------------------------------------------------------------
(* The host and the peers: the client sends the request and receives the    *)
(* response, the upstream does the converse.                                *)

(* The sender of a message has begun it.                                    *)
Started(d) == d = "request" \/ future = "ok"

(* A sender sends while the host's window has room for it.                  *)
PeerSend(d) ==
  /\ Started(d)
  /\ srcEnd[d] = "open"
  /\ sent[d] < body[d]
  /\ sent[d] - rd[d] < SourceWindow
  /\ sent' = [sent EXCEPT ![d] = @ + 1]
  /\ UNCHANGED <<handlerVars, guestVars, headVars, rd, srcEnd, trailers,
                 future, sinkVars>>

PeerEndBody(d) ==
  /\ Started(d)
  /\ srcEnd[d] = "open"
  /\ sent[d] = body[d]
  /\ srcEnd' = [srcEnd EXCEPT ![d] = "closed"]
  /\ UNCHANGED <<handlerVars, guestVars, headVars, sent, rd, trailers,
                 future, sinkVars>>

PeerEndMessage(d) ==
  /\ srcEnd[d] = "closed"
  /\ trailers[d] = "pending"
  /\ \E t \in {"none", "some"} : trailers' = [trailers EXCEPT ![d] = t]
  /\ UNCHANGED <<handlerVars, guestVars, headVars, sent, rd, srcEnd,
                 future, sinkVars>>

(* The connection to the sender breaks before its message is over.          *)
PeerAbort(d) ==
  /\ Started(d)
  /\ trailers[d] = "pending"
  /\ srcEnd' = [srcEnd EXCEPT ![d] = IF @ = "open" THEN "failed" ELSE @]
  /\ trailers' = [trailers EXCEPT ![d] = "failed"]
  /\ UNCHANGED <<handlerVars, guestVars, headVars, sent, rd, future,
                 sinkVars>>

UpstreamAnswers ==
  /\ future = "pending"
  /\ future' \in {"ok", "error"}
  /\ UNCHANGED <<handlerVars, guestVars, headVars, sent, rd, srcEnd,
                 trailers, sinkVars>>

(* An upstream that answers while it reads takes at most EchoWindow request *)
(* bytes ahead of the response bytes it could send. One whose answer is     *)
(* over, or failed, holds nothing back.                                     *)
UpstreamReads ==
  \/ future = "error"
  \/ srcEnd["response"] # "open"
  \/ dlv["request"] < sent["response"] + EchoWindow

(* A receiver takes the next byte the host accepted from the handler.       *)
PeerReceive(d) ==
  /\ sinkEnd[d] = "open"
  /\ ~lost[d]
  /\ dlv[d] < wr[d]
  /\ d = "request" => UpstreamReads
  /\ dlv' = [dlv EXCEPT ![d] = @ + 1]
  /\ UNCHANGED <<handlerVars, guestVars, headVars, srcVars, sink, wr,
                 sinkEnd, lost, bodyOut>>

(* The receiver saw the message end as the handler ended it.                *)
Complete(d) == bodyOut[d] = "finished" /\ (dlv[d] = wr[d] \/ lost[d])

PeerCloseSink(d) ==
  /\ sinkEnd[d] = "open"
  /\ sink[d] # "none"
  /\ ~Complete(d)
  /\ sinkEnd' = [sinkEnd EXCEPT ![d] = "closed"]
  /\ UNCHANGED <<handlerVars, guestVars, headVars, srcVars, sink, wr, dlv,
                 lost, bodyOut>>

Environment ==
  \/ UpstreamAnswers
  \/ \E d \in Dir : \/ PeerSend(d) \/ PeerEndBody(d) \/ PeerEndMessage(d)
                    \/ PeerAbort(d) \/ PeerReceive(d) \/ PeerCloseSink(d)

(* The handler returned or trapped and the peers have nothing left to do.   *)
Ended == pc \in {"done", "panicked"}
Terminated == Ended /\ UNCHANGED vars

Next == Handle \/ Environment \/ Terminated

Spec == Init /\ [][Next]_vars

(* The host runs a handler that can take a step, senders keep sending what  *)
(* fits until their message is over, upstreams answer, receivers read.      *)
Fairness ==
  /\ WF_vars(Handle)
  /\ WF_vars(UpstreamAnswers)
  /\ \A d \in Dir : /\ WF_vars(PeerSend(d) \/ PeerEndBody(d)
                                           \/ PeerEndMessage(d))
                    /\ WF_vars(PeerReceive(d))

FairSpec == Spec /\ Fairness
-----------------------------------------------------------------------------
(* Safety *)

(* A peer is told that a message is complete (OutgoingBody::finish, lines   *)
(* 169-171 and 219-221) only when its sender ended it cleanly, trailers     *)
(* included, and the handler has written every byte of it.                  *)
CleanEndIsWhole ==
  \A d \in Dir : bodyOut[d] = "finished" =>
    /\ srcEnd[d] = "closed"
    /\ trailers[d] \in {"none", "some"}
    /\ wr[d] = body[d]

(* Every write fits what check_write allowed, although receivers read and   *)
(* close between the two calls and a plugin callback runs (lines 66-85): a  *)
(* larger write would trap. The handler holds no byte besides this buffer.  *)
WritesWithinPermit ==
  /\ pc = "write" => data \in 1 .. permit /\ permit <= Room(dir)
  /\ \A d \in Dir :
       rd[d] - wr[d] = IF d = dir THEN data ELSE 0

(* The handler traps only because of what the outside did: a head nobody    *)
(* can forward, a sender that broke off, a receiver that closed early, an   *)
(* upstream that refused or failed, a host that refuses the response's      *)
(* status or fails a call the plugin makes. No interleaving makes another   *)
(* of its unwrap()s fail, the Content-Length check of finish, the write and *)
(* what get() returns included.                                             *)
TrapHasCause ==
  pc = "panicked" =>
    \/ ~headOk
    \/ future \in {"refused", "error"}
    \/ trailers[dir] = "failed"
    \/ sinkEnd[dir] = "closed"
    \/ denied # "nothing"

(* The client always learns how its request ended: the handler never ends   *)
(* with the outparam unset, and what the client was told agrees with what   *)
(* happened: a response only after the whole request went to the upstream   *)
(* and the upstream answered, an intact one only if the handler returned.   *)
AnswerAgrees ==
  /\ Ended => outparam # "unset"
  /\ outparam = "response" => future = "ok" /\ bodyOut["request"] = "finished"
  /\ outparam = "error" => bodyOut["response"] = "none"
  /\ bodyOut["response"] = "finished" <=> pc = "done"

(* Each message is relayed as BodyRelay promises, as long as the host keeps *)
(* what it accepted from a stream that was dropped.                         *)
RelayEnded(d) == CASE trailers[d] = "failed" -> "broken"
                   [] trailers[d] = "pending" -> "no"
                   [] OTHER -> "clean"
RelayOutcome(d) == CASE sinkEnd[d] = "closed" \/ bodyOut[d] = "aborted" -> "broken"
                     [] Complete(d) -> "complete"
                     [] OTHER -> "open"

RequestRelay == INSTANCE BodyRelay WITH
  sent <- sent["request"], ended <- RelayEnded("request"),
  got <- dlv["request"], outcome <- RelayOutcome("request")

ResponseRelay == INSTANCE BodyRelay WITH
  sent <- sent["response"], ended <- RelayEnded("response"),
  got <- dlv["response"], outcome <- RelayOutcome("response")

RelaysBodies == RequestRelay!Spec /\ ResponseRelay!Spec

(* The plugin sees each message as FilterStream promises: no part goes on   *)
(* before its callback, and trailers are not skipped (lines 76-85, 136,     *)
(* 166, 182, 216).                                                          *)
RequestFilter == INSTANCE FilterStream WITH
  phase <- phase["request"], announced <- announced["request"],
  head <- future \in {"pending", "ok", "error"},
  forwarded <- wr["request"], trailers <- trailers["request"],
  closed <- bodyOut["request"] = "finished"

ResponseFilter == INSTANCE FilterStream WITH
  phase <- phase["response"], announced <- announced["response"],
  head <- outparam = "response",
  forwarded <- wr["response"], trailers <- trailers["response"],
  closed <- bodyOut["response"] = "finished"

FiltersMessages == RequestFilter!Spec /\ ResponseFilter!Spec

-----------------------------------------------------------------------------
(* Waiting. stream_data reads the response only after the whole request is  *)
(* written, so an upstream that answers while it reads can wait for the     *)
(* handler while the handler waits for it.                                  *)
CircularWait ==
  /\ pc = "destination"
  /\ dir = "request"
  /\ Room("request") = 0
  /\ ~UpstreamReads
  /\ sent["response"] = SourceWindow
  /\ sent["response"] < body["response"]

(* Every fair step of the outside.                                          *)
PeerProgress ==
  \/ UpstreamAnswers
  \/ \E d \in Dir : \/ PeerSend(d) \/ PeerEndBody(d) \/ PeerEndMessage(d)
                    \/ PeerReceive(d)

(* When the next step of the handler, and a fair step of the outside, can   *)
(* be taken.                                                                *)
HandlerReady ==
  CASE pc = "source" -> SourceReady(dir)
    [] pc \in {"destination", "check"} -> SinkReady(dir)
    [] pc = "read" -> \/ permit > 0 /\ rd[dir] < sent[dir]
                      \/ srcEnd[dir] = "closed" /\ rd[dir] = sent[dir]
                      \/ srcEnd[dir] = "failed"
    [] pc = "trailers" -> trailers[dir] # "pending"
    [] pc = "future" -> future \in {"ok", "error"}
    [] OTHER -> ~Ended

PeersReady ==
  \/ future = "pending"
  \/ \E d \in Dir :
       \/ /\ Started(d) /\ srcEnd[d] = "open"
          /\ \/ sent[d] = body[d]
             \/ sent[d] < body[d] /\ sent[d] - rd[d] < SourceWindow
       \/ srcEnd[d] = "closed" /\ trailers[d] = "pending"
       \/ /\ sinkEnd[d] = "open" /\ ~lost[d] /\ dlv[d] < wr[d]
          /\ d = "request" => UpstreamReads

WaitsOnlyInCircularWait == ~Ended /\ ~HandlerReady /\ ~PeersReady => CircularWait

(* A handler that never returns is in this one circular wait: no other      *)
(* order of blocking on source, destination, trailers and future (lines     *)
(* 57, 60, 160, 175, 210) leaves it waiting for good. The first two parts   *)
(* say that WaitsOnlyInCircularWait means what it says.                     *)
StuckOnlyInCircularWait ==
  /\ HandlerReady <=> ENABLED Handle
  /\ PeersReady <=> ENABLED PeerProgress
  /\ WaitsOnlyInCircularWait

(* The circular wait is a deadlock, not a delay: whatever else the client   *)
(* and the upstream still send, read or end, neither the handler nor a peer *)
(* leaves it until one of them breaks its connection (lines 60 and 175).    *)
CircularWaitLasts ==
  [][CircularWait => \/ CircularWait'
                     \/ sinkEnd'["request"] = "closed"
                     \/ srcEnd'["response"] = "failed"]_vars

(* Every request ends, with a return or a trap, unless the circular wait    *)
(* takes it.                                                                *)
EndsUnlessCircular == <>(Ended \/ CircularWait)

(* A sender that breaks off while its message is relayed is never covered   *)
(* up: the receiver learns that its message is broken, and does not wait    *)
(* for the rest for good (lines 92 and 162), unless the circular wait keeps *)
(* the handler from seeing it.                                              *)
BreaksAreTold ==
  \A d \in Dir :
    trailers[d] = "failed" /\ bodyOut[d] = "open"
      ~> RelayOutcome(d) = "broken" \/ CircularWait

(* A handler that returned leaves the end of the response in the host's     *)
(* buffers, in streams it dropped: all of it still reaches a client that    *)
(* keeps reading, if the host keeps it.                                     *)
ResponseArrives ==
  pc = "done" ~> \/ dlv["response"] = body["response"]
                 \/ sinkEnd["response"] = "closed"

-----------------------------------------------------------------------------
(* What the documentation of the interfaces asks for and the handler does   *)
(* not do.                                                                  *)

(* "We are done, so flush all the data we wrote and return." (proxy/lib.rs: *)
(* 88), where "Dropping an `output-stream` while there's still an active    *)
(* write in progress may result in the data being lost" (src/bindings.rs:   *)
(* 6771): a message that ended for its receiver reached it whole.           *)
CompleteIsWhole == \A d \in Dir : Complete(d) => dlv[d] = body[d]
=============================================================================
