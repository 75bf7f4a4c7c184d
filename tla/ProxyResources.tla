--------------------------- MODULE ProxyResources ---------------------------
(***************************************************************************)
(* The resources of Proxy::handle (proxy/lib.rs): every wrapper its         *)
(* statements call and every drop Rust adds, in the order they happen, on   *)
(* the handle table of WasiResources. Locals of an inner block are dropped  *)
(* at its end in reverse order, temporaries at the end of their statement,  *)
(* the others when `handle` returns. What the calls carry is in ProxyHandle.*)
(***************************************************************************)
EXTENDS WasiResources

(* The variables and temporaries of handle, request_target and stream_data. *)
Locals ==
  {"request", "out", "headers", "temporary", "req", "received_body",
   "sent_body", "future", "source", "destination", "source_ready",
   "destination_ready", "error", "trailers_future", "trailers", "copy",
   "res", "response"}

ASSUME LocalsAssumption == Locals \subseteq Names

VARIABLES
  at,    \* the next statement, or drop
  dir    \* the message being relayed

vars == <<resourceVars, at, dir>>

Init ==
  /\ export_handle("request", "out")
  /\ at = "target"
  /\ dir = "request"

-----------------------------------------------------------------------------
(* The call A at statement l; the program goes on at one of `next`.         *)
Step(l, A, next) ==
  /\ at = l /\ A
  /\ at' \in next
  /\ UNCHANGED dir

(* The same with an unwrap() of what only a wrong order of calls makes an   *)
(* error: of v nothing is left to give out, or v was not waited for.        *)
Unwrap(l, v, A, next) ==
  /\ at = l
  /\ IF StageOf(v) = "ready" THEN A /\ at' \in next
                              ELSE Panic("misuse") /\ UNCHANGED at
  /\ UNCHANGED dir

(* unwrap() of an error from outside, of a statement of handle or of a host *)
(* call that a plugin's callback makes there, a failed assertion, a panic!. *)
Failure(l) ==
  /\ at = l
  /\ Panic("failed")
  /\ UNCHANGED <<at, dir>>

(* Where a stream call leads: to `ok`, to `closed` or to the error.         *)
Outcome(v, ok, closed) ==
  IF value'["error"] # NoValue THEN {"error"}
  ELSE IF table'[HandleOf(v)].stage = "spent" THEN {closed} ELSE {ok}

request_target ==
  \/ Failure("target")
  \/ Step("target", IncomingRequest_headers("request", "headers"), {"get"})
  \/ Failure("get")
  \/ Step("get", DropFields("headers"), {"request_headers"})

BuildRequest ==
  \/ Step("request_headers", IncomingRequest_headers("request", "temporary"), {"clone"})
  \/ Step("clone", Fields_clone("temporary", "headers"), {"clone_end"})
  \/ Step("clone_end", DropFields("temporary"), {"new_request"})
  \/ Step("new_request", OutgoingRequest_new("headers", "req"), {"set"})
  \/ Failure("set")
  \/ Step("set", OutgoingRequest_headers("req", "temporary"), {"entries"})
  \/ Failure("entries")
  \/ Step("entries", DropFields("temporary"), {"consume"})

SendRequest ==
  \/ Unwrap("consume", "request", IncomingRequest_consume("request", "received_body"), {"body"})
  \/ Unwrap("body", "req", OutgoingRequest_body("req", "sent_body"), {"send"})
  \/ Step("send", send_request("req", {}, "future"),
          IF value'["future"] = NoValue THEN {"error"} ELSE {"stream"})

OpenStreams ==
  \/ Unwrap("stream", "received_body", IncomingBody_stream("received_body", "source"), {"write"})
  \/ Unwrap("write", "sent_body", OutgoingBody_write("sent_body", "destination"), {"loop"})

stream_data ==
  \/ Step("loop", InputStream_subscribe("source", "source_ready"), {"await_source"})
  \/ Step("await_source", Pollable_block("source_ready"), {"subscribe"})
  \/ Step("subscribe", OutputStream_subscribe("destination", "destination_ready"),
          {"await_destination"})
  \/ Step("await_destination", Pollable_block("destination_ready"), {"check"})
  \/ Step("check", OutputStream_check_write("destination", "error"),
          Outcome("destination", "read", "error"))
  \/ Step("read", InputStream_read("source", "error"),
          Outcome("source", "write_data", "flush"))
  \/ Failure("write_data")
  \/ Step("write_data", OutputStream_write("destination", "error"),
          Outcome("destination", "next", "error"))
  \/ Step("flush", OutputStream_flush("destination", "error"),
          Outcome("destination", "next", "error"))
  \/ Step("next", DropPollable("destination_ready"), {"next_source"})
  \/ Step("next_source", DropPollable("source_ready"),
          {IF StageOf("source") = "spent" THEN "close" ELSE "loop"})

(* Mutant: the streams are dropped after the bodies they are children of.   *)
CloseLate ==
  Step("close", IncomingBody_finish("received_body", "trailers_future"), {"await_trailers"})

CloseStreams ==
  \/ Step("close", DropOutputStream("destination"), {"close_source"})
  \/ Step("close_source", DropInputStream("source"), {"finish"})

AwaitTrailers ==
  \/ Step("finish", IncomingBody_finish("received_body", "trailers_future"),
          {"await_trailers"})
  \/ Step("await_trailers", FutureTrailers_subscribe("trailers_future", "temporary"),
          {"block_trailers"})
  \/ Step("block_trailers", Pollable_block("temporary"), {"blocked_trailers"})
  \/ Step("blocked_trailers", DropPollable("temporary"), {"get_trailers"})

Trailers ==
  \/ Unwrap("get_trailers", "trailers_future",
            FutureTrailers_get("trailers_future", "trailers"),
            IF value'["trailers"] = NoValue THEN {"finish_body", "error"}
                                            ELSE {"clone_trailers"})
  \/ Step("clone_trailers", Fields_clone("trailers", "copy"), {"finish_trailers"})
  \/ Failure("finish_trailers")

(* Mutant: a message without trailers is left to the drop of its body.      *)
FinishWithTrailersOnly ==
  \/ Step("finish_trailers", OutgoingBody_finish("sent_body", {"copy"}),
          {"drop_trailers", "error"})
  \/ Step("finish_body", DropOutgoingBody("sent_body"), {"drop_future"})
  \/ Step("drop_trailers", DropFields("trailers"), {"drop_future"})
  \/ Step("drop_future", DropFutureTrailers("trailers_future"),
          {IF dir = "request" THEN "await_response" ELSE "drop_res"})

FinishBody ==
  \/ Step("finish_trailers", OutgoingBody_finish("sent_body", {"copy"}),
          {"drop_trailers", "error"})
  \/ Step("finish_body", OutgoingBody_finish("sent_body", {}), {"drop_future", "error"})
  \/ Step("drop_trailers", DropFields("trailers"), {"drop_future"})
  \/ Step("drop_future", DropFutureTrailers("trailers_future"),
          {IF dir = "request" THEN "await_response" ELSE "drop_res"})

AwaitResponse ==
  \/ Step("await_response", FutureIncomingResponse_subscribe("future", "temporary"),
          {"block_response"})
  \/ Step("block_response", Pollable_block("temporary"), {"blocked_response"})
  \/ Step("blocked_response", DropPollable("temporary"), {"get_response"})
  \/ Unwrap("get_response", "future", FutureIncomingResponse_get("future", "res"),
            IF value'["res"] = NoValue THEN {"error"} ELSE {"response_headers"})

BuildResponse ==
  \/ Step("response_headers", IncomingResponse_headers("res", "temporary"), {"clone_response"})
  \/ Step("clone_response", Fields_clone("temporary", "headers"), {"clone_response_end"})
  \/ Step("clone_response_end", DropFields("temporary"), {"new_response"})
  \/ Step("new_response", OutgoingResponse_new("headers", "response"), {"set_status"})
  \/ Failure("set_status")
  \/ Step("set_status", OutgoingResponse_headers("response", "temporary"),
          {"response_entries"})
  \/ Failure("response_entries")
  \/ Step("response_entries", DropFields("temporary"), {"consume_response"})

SetOutparam ==
  \/ Unwrap("consume_response", "res", IncomingResponse_consume("res", "received_body"),
          {"response_body"})
  \/ Unwrap("response_body", "response", OutgoingResponse_body("response", "sent_body"), {"outparam"})
  \/ /\ at = "outparam"
     /\ ResponseOutparam_set("out", {"response"})
     /\ at' = "stream"
     /\ dir' = "response"

(* Locals go in reverse order of declaration, parameters after them.        *)
End ==
  \/ Step("drop_res", DropIncomingResponse("res"), {"drop_response_future"})
  \/ Step("drop_response_future", DropFutureIncomingResponse("future"), {"drop_request"})
  \/ Step("drop_request", DropIncomingRequest("request"), {"return"})
  \/ Step("return", Return, {"return"})

Handle ==
  \/ request_target \/ BuildRequest \/ SendRequest
  \/ OpenStreams \/ stream_data \/ CloseStreams
  \/ AwaitTrailers \/ Trailers \/ FinishBody
  \/ AwaitResponse \/ BuildResponse \/ SetOutparam
  \/ End
  \/ Failure("error")

Host == (\E h \in Handles : Settle(h)) /\ UNCHANGED <<at, dir>>

Next == fate = "running" /\ (Handle \/ Host)

Spec == Init /\ [][Next]_vars

-----------------------------------------------------------------------------
(* On no path does the handler break a rule of its resources: it drops no   *)
(* parent before its children, takes nothing twice, and asks no future      *)
(* before it waited, so that none of the unwraps of lines 140-141, 151-152, *)
(* 162, 176, 189-190 and 201-202 fails for a reason of its own.             *)
RulesKept == fate \notin {"trapped", "misuse"}

(* A handler that returns has set the outparam and finished both bodies:    *)
(* none was merely dropped, which would corrupt the message.                *)
NothingAbandoned == fate = "returned" => abandoned = {}

(* The handler is a program of safe Rust on the wrappers, so what holds for *)
(* any program (HandlesHaveOneOwner, NothingStays, ...) holds for it.       *)
IsProgram == AnyProgram
=============================================================================
