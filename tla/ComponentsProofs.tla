-------------------------- MODULE ComponentsProofs --------------------------
(***************************************************************************)
(* The three programs of the repository, each by itself and on one handle   *)
(* table.                                                                   *)
(*                                                                          *)
(* Proxy::handle is one of the programs of WasiResources: every statement   *)
(* of it is a step of one wrapper, a drop, a return or a panic. So it       *)
(* inherits what WasiResourcesProofs says of any program. What it must do   *)
(* by itself, drop children before parents, ask a future after it waited    *)
(* for it, finish bodies and set the outparam, follows from a picture of    *)
(* its resources at each place in the program.                              *)
(*                                                                          *)
(* The host calls, for any sizes of messages, any limit of a write that     *)
(* lets a newline through and any number of calls: what they leave in the   *)
(* handle table, when they trap, and what becomes of the lines they write.  *)
(* The hello component, for any handles the host gives out. Then all three: *)
(* the program that runs keeps the invariant of its own part; the others    *)
(* stay where they are, and every property of theirs speaks of a place they *)
(* never reach.                                                             *)
(***************************************************************************)
EXTENDS MCComponents, WasiResourcesProofs, FiniteSetTheorems

LEMMA LocalsAreNames ==
  \A v \in {"request", "out", "headers", "temporary", "req", "received_body",
            "sent_body", "future", "source", "destination", "source_ready",
            "destination_ready", "error", "trailers_future", "trailers", "copy",
            "res", "response"} : v \in Names
  BY LocalsAssumption DEF Locals

LEMMA PanicIsStep ==
  ASSUME fate = "running", NEW why \in {"misuse", "failed"}, Panic(why)
  PROVE  AnyStep
  BY DEF AnyStep

(* What the handler does to the request before it streams.                  *)
LEMMA RequestIsProgram ==
  ASSUME fate = "running", request_target \/ BuildRequest \/ SendRequest \/ OpenStreams
  PROVE  AnyStep
<1> USE LocalsAreNames, PanicIsStep
<1>1. CASE request_target
  BY <1>1 DEF request_target, Step, Failure, HttpCall, DropCall, AnyStep
<1>2. CASE BuildRequest
  BY <1>2 DEF BuildRequest, Step, Failure, HttpCall, DropCall, AnyStep
<1>3. CASE SendRequest
  BY <1>3 DEF SendRequest, Step, Unwrap, HttpCall, AnyStep
<1>4. CASE OpenStreams
  BY <1>4 DEF OpenStreams, Unwrap, HttpCall, AnyStep
<1> QED BY <1>1, <1>2, <1>3, <1>4

LEMMA StreamingIsProgram ==
  ASSUME fate = "running",
         stream_data \/ CloseStreams \/ AwaitTrailers \/ Trailers \/ FinishBody
  PROVE  AnyStep
<1> USE LocalsAreNames, PanicIsStep
<1>1. CASE stream_data
  BY <1>1 DEF stream_data, Step, Failure, IoCall, DropCall, AnyStep
<1>2. CASE CloseStreams
  BY <1>2 DEF CloseStreams, Step, DropCall, AnyStep
<1>3. CASE AwaitTrailers
  BY <1>3 DEF AwaitTrailers, Step, HttpCall, IoCall, DropCall, AnyStep
<1>4. CASE Trailers
  BY <1>4 DEF Trailers, Step, Unwrap, Failure, HttpCall, AnyStep
<1>5. CASE FinishBody
  BY <1>5 DEF FinishBody, Step, HttpCall, DropCall, AnyStep
<1> QED BY <1>1, <1>2, <1>3, <1>4, <1>5

LEMMA ResponseIsProgram ==
  ASSUME fate = "running", AwaitResponse \/ BuildResponse \/ SetOutparam \/ End
  PROVE  AnyStep
<1> USE LocalsAreNames, PanicIsStep
<1>1. CASE AwaitResponse
  BY <1>1 DEF AwaitResponse, Step, Unwrap, HttpCall, IoCall, DropCall, AnyStep
<1>2. CASE BuildResponse
  BY <1>2 DEF BuildResponse, Step, Failure, HttpCall, DropCall, AnyStep
<1>3. CASE SetOutparam
  BY <1>3 DEF SetOutparam, Unwrap, HttpCall, AnyStep
<1>4. CASE End
  BY <1>4 DEF End, Step, DropCall, AnyStep
<1> QED BY <1>1, <1>2, <1>3, <1>4

-----------------------------------------------------------------------------
(* Which resources the handler owns at each place. Parts of its program:    *)
Streaming ==
  {"loop", "await_source", "subscribe", "await_destination", "check", "read",
   "write_data", "flush", "next", "next_source"}
Polling == Streaming \ {"loop"}
PollingBoth == Polling \ {"await_source", "subscribe", "next_source"}
Relaying == {"stream", "write", "close", "close_source", "finish"} \cup Streaming
AwaitingTrailers == {"await_trailers", "block_trailers", "blocked_trailers", "get_trailers"}
Finishing == {"clone_trailers", "finish_trailers", "finish_body"}
Closing == {"drop_trailers", "drop_future"}
AwaitingResponse == {"await_response", "block_response", "blocked_response", "get_response"}
Ending == {"drop_response_future", "drop_request", "return"}
Sent == {"set", "entries", "consume", "body", "send"}
Preparing == {"target", "get", "request_headers", "clone", "clone_end", "new_request"}
             \cup Sent
Answering ==
  {"set_status", "response_entries", "consume_response", "response_body", "outparam"}

(* The kind of what v owns at the place l, in the direction d.              *)
KindAt(v, l, d) ==
  CASE v = "request" /\ l # "return" -> "incoming-request"
    [] v = "out" /\ d = "request" -> "response-outparam"
    [] v = "headers" /\ l \in {"get", "clone_end", "new_request", "clone_response_end",
                              "new_response"} -> "fields"
    [] v = "temporary" /\ l \in {"clone", "clone_end", "entries", "clone_response",
                                 "clone_response_end", "response_entries"} -> "fields"
    [] v = "temporary" /\ l \in {"block_trailers", "blocked_trailers", "block_response",
                                 "blocked_response"} -> "pollable"
    [] v = "req" /\ l \in Sent -> "outgoing-request"
    [] v = "received_body" /\ l \in {"body", "send", "response_body", "outparam"} \cup Relaying
         -> "incoming-body"
    [] v = "sent_body" /\ l \in {"send", "outparam"} \cup Relaying \cup AwaitingTrailers
                                                    \cup Finishing -> "outgoing-body"
    [] v = "future" /\ l \notin Preparing \cup {"drop_request", "return"}
         -> "future-incoming-response"
    [] v = "source" /\ l \in {"write", "close", "close_source"} \cup Streaming
         -> "input-stream"
    [] v = "destination" /\ l \in {"close"} \cup Streaming -> "output-stream"
    [] v = "source_ready" /\ l \in Polling -> "pollable"
    [] v = "destination_ready" /\ l \in PollingBoth -> "pollable"
    [] v = "trailers_future" /\ l \in AwaitingTrailers \cup Finishing \cup Closing
         -> "future-trailers"
    [] v = "trailers" /\ l \in {"clone_trailers", "finish_trailers", "drop_trailers"}
         -> "fields"
    [] v = "copy" /\ l = "finish_trailers" -> "fields"
    [] v = "res" /\ l \in {"response_headers", "clone_response", "clone_response_end",
                         "new_response"} \cup Answering -> "incoming-response"
    [] v = "res" /\ d = "response" /\ l \notin AwaitingResponse \cup Ending
         -> "incoming-response"
    [] v = "response" /\ l \in Answering -> "outgoing-response"
    [] OTHER -> "none"

(* Who is a child of whom; x is there to choose by the place.               *)
KinAt(l) ==
  {<<"headers", "request">> : x \in {l} \cap {"get"}}
  \cup {<<"temporary", "request">> : x \in {l} \cap {"clone", "clone_end"}}
  \cup {<<"temporary", "req">> : x \in {l} \cap {"entries"}}
  \cup {<<"temporary", "trailers_future">> :
           x \in {l} \cap {"block_trailers", "blocked_trailers"}}
  \cup {<<"temporary", "future">> : x \in {l} \cap {"block_response", "blocked_response"}}
  \cup {<<"temporary", "res">> : x \in {l} \cap {"clone_response", "clone_response_end"}}
  \cup {<<"temporary", "response">> : x \in {l} \cap {"response_entries"}}
  \cup {<<"source", "received_body">> :
           x \in {l} \cap ({"write", "close", "close_source"} \cup Streaming)}
  \cup {<<"destination", "sent_body">> : x \in {l} \cap ({"close"} \cup Streaming)}
  \cup {<<"source_ready", "source">> : x \in {l} \cap Polling}
  \cup {<<"destination_ready", "destination">> : x \in {l} \cap PollingBoth}
  \cup {<<"trailers", "trailers_future">> :
           x \in {l} \cap {"clone_trailers", "finish_trailers", "drop_trailers"}}

(* What was not used yet: a body to take, a stream to open, a settled       *)
(* future to ask.                                                           *)
ReadyAt(l) ==
  {"request" : x \in {l} \cap (Preparing \ {"body", "send"})}
  \cup {"req" : x \in {l} \cap (Sent \ {"send"})}
  \cup {"received_body" :
           x \in {l} \cap {"body", "send", "stream", "response_body", "outparam"}}
  \cup {"sent_body" : x \in {l} \cap {"send", "outparam", "stream", "write"}}
  \cup {"trailers_future" : x \in {l} \cap {"blocked_trailers", "get_trailers"}}
  \cup {"future" : x \in {l} \cap {"blocked_response", "get_response"}}
  \cup {"res" : x \in {l} \cap {"response_headers", "clone_response", "clone_response_end",
                              "new_response", "set_status", "response_entries",
                              "consume_response"}}
  \cup {"response" : x \in {l} \cap (Answering \ {"outparam"})}

(* The futures whose result is still to come, or is there.                  *)
UnspentAt(l, d) ==
  {"trailers_future" : x \in {l} \cap {"await_trailers", "block_trailers"}}
  \cup {"future" : x \in {l} \cap {"await_response", "block_response"}}
  \cup {"future" : x \in IF d = "request"
                        THEN {l} \cap (Relaying \cup AwaitingTrailers \cup Finishing
                                       \cup Closing)
                        ELSE {}}

PlaceAt(l, d) ==
  [own |-> [v \in Names |-> KindAt(v, l, d)], kin |-> KinAt(l),
   ready |-> ReadyAt(l), unspent |-> UnspentAt(l, d)]

(* Wherever the handler is, the picture of the place is the state of its    *)
(* resources, and nothing was abandoned on the way. (At "error" it panics.) *)
Directions == {"request", "response"}
Place == fate = "running" /\ at # "error" => Picture(PlaceAt(at, dir))
PlaceInv == IInv /\ abandoned = {} /\ RulesKept /\ dir \in Directions /\ Place

-----------------------------------------------------------------------------
(* From place to place: how the picture at l becomes the one at n.          *)
Moves(l, gone, spent, out, k, par, n) ==
  \A d \in Directions : Redrawn(PlaceAt(l, d), gone, spent, out, k, par, PlaceAt(n, d))

Gains(l, v, k, par, n) == Moves(l, {}, {}, {v}, k, par, n)
Loses(l, gone, n) == Moves(l, gone, {}, {}, "none", {}, n)
Idles(l, spent, n) == Moves(l, {}, spent, {}, "none", {}, n)

(* v was waited for, and f, whose pollable it is, is ready.                 *)
Readies(l, v, f, n) ==
  \A d \in Directions :
    /\ <<v, f>> \in PlaceAt(l, d).kin /\ f \in PlaceAt(l, d).unspent
    /\ Redrawn([PlaceAt(l, d) EXCEPT !.ready = @ \cup {f}], {}, {}, {}, "none", {},
               PlaceAt(n, d))

(* request_target, then the request for the upstream.                       *)
LEMMA RequestMoves ==
  /\ Gains("target", "headers", "fields", {"request"}, "get")
  /\ Loses("get", {"headers"}, "request_headers")
  /\ Gains("request_headers", "temporary", "fields", {"request"}, "clone")
  /\ Gains("clone", "headers", "fields", {}, "clone_end")
  /\ Loses("clone_end", {"temporary"}, "new_request")
  /\ Moves("new_request", {"headers"}, {}, {"req"}, "outgoing-request", {}, "set")
  /\ Gains("set", "temporary", "fields", {"req"}, "entries")
  /\ Loses("entries", {"temporary"}, "consume")
<1> USE LocalsAreNames DEF Moves, Gains, Loses, Idles, Readies, Redrawn, PlaceAt,
         KindAt, KinAt, ReadyAt, UnspentAt, Streaming, Polling, PollingBoth, Relaying,
         AwaitingTrailers, Finishing, Closing, AwaitingResponse, Ending, Sent, Preparing,
         Answering, Directions, Futures
<1>1. Gains("target", "headers", "fields", {"request"}, "get")
  BY SMTT(30)
<1>2. Loses("get", {"headers"}, "request_headers")
  BY SMTT(30)
<1>3. Gains("request_headers", "temporary", "fields", {"request"}, "clone")
  BY SMTT(30)
<1>4. Gains("clone", "headers", "fields", {}, "clone_end")
  BY SMTT(30)
<1>5. Loses("clone_end", {"temporary"}, "new_request")
  BY SMTT(30)
<1>6. Moves("new_request", {"headers"}, {}, {"req"}, "outgoing-request", {}, "set")
  BY SMTT(30)
<1>7. Gains("set", "temporary", "fields", {"req"}, "entries")
  BY SMTT(30)
<1>8. Loses("entries", {"temporary"}, "consume")
  BY SMTT(30)
<1> HIDE DEF Moves, Gains, Loses, Idles, Readies, Redrawn, PlaceAt,
         KindAt, KinAt, ReadyAt, UnspentAt, Streaming, Polling, PollingBoth, Relaying,
         AwaitingTrailers, Finishing, Closing, AwaitingResponse, Ending, Sent, Preparing,
         Answering, Directions, Futures
<1> QED BY ONLY <1>1, <1>2, <1>3, <1>4, <1>5, <1>6, <1>7, <1>8

(* Its body, its sending, and the streams of either message.                *)
LEMMA SendMoves ==
  /\ Moves("consume", {}, {"request"}, {"received_body"}, "incoming-body", {}, "body")
  /\ Moves("body", {}, {"req"}, {"sent_body"}, "outgoing-body", {}, "send")
  /\ Moves("send", {"req"}, {}, {"future"}, "future-incoming-response", {}, "stream")
  /\ Moves("stream", {}, {"received_body"}, {"source"}, "input-stream", {"received_body"},
           "write")
  /\ Moves("write", {}, {"sent_body"}, {"destination"}, "output-stream", {"sent_body"},
           "loop")
  /\ \A d \in Directions : PlaceAt("send", d).own["future"] = "none"
  /\ \A d \in Directions : /\ "request" \in PlaceAt("consume", d).ready
                          /\ "req" \in PlaceAt("body", d).ready
                          /\ "received_body" \in PlaceAt("stream", d).ready
                          /\ "sent_body" \in PlaceAt("write", d).ready
<1> USE LocalsAreNames DEF Moves, Gains, Loses, Idles, Readies, Redrawn, PlaceAt,
         KindAt, KinAt, ReadyAt, UnspentAt, Streaming, Polling, PollingBoth, Relaying,
         AwaitingTrailers, Finishing, Closing, AwaitingResponse, Ending, Sent, Preparing,
         Answering, Directions, Futures
<1>1. Moves("consume", {}, {"request"}, {"received_body"}, "incoming-body", {}, "body")
  BY SMTT(30)
<1>2. Moves("body", {}, {"req"}, {"sent_body"}, "outgoing-body", {}, "send")
  BY SMTT(30)
<1>3. Moves("send", {"req"}, {}, {"future"}, "future-incoming-response", {}, "stream")
  BY SMTT(30)
<1>4. Moves("stream", {}, {"received_body"}, {"source"}, "input-stream", {"received_body"},
           "write")
  BY SMTT(30)
<1>5. Moves("write", {}, {"sent_body"}, {"destination"}, "output-stream", {"sent_body"},
           "loop")
  BY SMTT(30)
<1>6. \A d \in Directions : PlaceAt("send", d).own["future"] = "none"
  OBVIOUS
<1>7. \A d \in Directions : /\ "request" \in PlaceAt("consume", d).ready
                          /\ "req" \in PlaceAt("body", d).ready
                          /\ "received_body" \in PlaceAt("stream", d).ready
                          /\ "sent_body" \in PlaceAt("write", d).ready
  OBVIOUS
<1> HIDE DEF Moves, Gains, Loses, Idles, Readies, Redrawn, PlaceAt,
         KindAt, KinAt, ReadyAt, UnspentAt, Streaming, Polling, PollingBoth, Relaying,
         AwaitingTrailers, Finishing, Closing, AwaitingResponse, Ending, Sent, Preparing,
         Answering, Directions, Futures
<1> QED BY ONLY <1>1, <1>2, <1>3, <1>4, <1>5, <1>6, <1>7

(* stream_data.                                                             *)
LEMMA StreamMoves ==
  /\ Gains("loop", "source_ready", "pollable", {"source"}, "await_source")
  /\ Idles("await_source", {}, "subscribe")
  /\ Gains("subscribe", "destination_ready", "pollable", {"destination"}, "await_destination")
  /\ Idles("await_destination", {}, "check")
  /\ Idles("check", {"destination"}, "read")
  /\ Idles("read", {"source"}, "write_data") /\ Idles("read", {"source"}, "flush")
  /\ Idles("write_data", {"destination"}, "next") /\ Idles("flush", {"destination"}, "next")
  /\ Loses("next", {"destination_ready"}, "next_source")
  /\ Loses("next_source", {"source_ready"}, "close")
     /\ Loses("next_source", {"source_ready"}, "loop")
<1> USE LocalsAreNames DEF Moves, Gains, Loses, Idles, Readies, Redrawn, PlaceAt,
         KindAt, KinAt, ReadyAt, UnspentAt, Streaming, Polling, PollingBoth, Relaying,
         AwaitingTrailers, Finishing, Closing, AwaitingResponse, Ending, Sent, Preparing,
         Answering, Directions, Futures
<1>1. Gains("loop", "source_ready", "pollable", {"source"}, "await_source")
  BY SMTT(30)
<1>2. Idles("await_source", {}, "subscribe")
  BY SMTT(30)
<1>3. Gains("subscribe", "destination_ready", "pollable", {"destination"}, "await_destination")
  BY SMTT(30)
<1>4. Idles("await_destination", {}, "check")
  BY SMTT(30)
<1>5. Idles("check", {"destination"}, "read")
  BY SMTT(30)
<1>6. Idles("read", {"source"}, "write_data") /\ Idles("read", {"source"}, "flush")
  BY SMTT(30)
<1>7. Idles("write_data", {"destination"}, "next") /\ Idles("flush", {"destination"}, "next")
  BY SMTT(30)
<1>8. Loses("next", {"destination_ready"}, "next_source")
  BY SMTT(30)
<1>9. Loses("next_source", {"source_ready"}, "close")
     /\ Loses("next_source", {"source_ready"}, "loop")
  BY SMTT(30)
<1> HIDE DEF Moves, Gains, Loses, Idles, Readies, Redrawn, PlaceAt,
         KindAt, KinAt, ReadyAt, UnspentAt, Streaming, Polling, PollingBoth, Relaying,
         AwaitingTrailers, Finishing, Closing, AwaitingResponse, Ending, Sent, Preparing,
         Answering, Directions, Futures
<1> QED BY ONLY <1>1, <1>2, <1>3, <1>4, <1>5, <1>6, <1>7, <1>8, <1>9

(* The end of a message.                                                    *)
LEMMA FinishMoves ==
  /\ Loses("close", {"destination"}, "close_source")
  /\ Loses("close_source", {"source"}, "finish")
  /\ Moves("finish", {"received_body"}, {}, {"trailers_future"}, "future-trailers", {},
           "await_trailers")
  /\ Gains("await_trailers", "temporary", "pollable", {"trailers_future"}, "block_trailers")
  /\ Readies("block_trailers", "temporary", "trailers_future", "blocked_trailers")
  /\ Loses("blocked_trailers", {"temporary"}, "get_trailers")
  /\ Moves("get_trailers", {}, {"trailers_future"}, {"trailers"}, "fields",
           {"trailers_future"}, "clone_trailers")
  /\ Idles("get_trailers", {"trailers_future"}, "finish_body")
  /\ Gains("clone_trailers", "copy", "fields", {}, "finish_trailers")
  /\ Loses("finish_trailers", {"sent_body", "copy"}, "drop_trailers")
  /\ Loses("finish_body", {"sent_body"}, "drop_future")
  /\ Loses("drop_trailers", {"trailers"}, "drop_future")
  /\ Redrawn(PlaceAt("drop_future", "request"), {"trailers_future"}, {}, {}, "none", {},
             PlaceAt("await_response", "request"))
  /\ Redrawn(PlaceAt("drop_future", "response"), {"trailers_future"}, {}, {}, "none", {},
             PlaceAt("drop_res", "response"))
  /\ \A d \in Directions : /\ "trailers_future" \in PlaceAt("get_trailers", d).ready
                          /\ PlaceAt("get_trailers", d).own["trailers"] = "none"
<1> USE LocalsAreNames DEF Moves, Gains, Loses, Idles, Readies, Redrawn, PlaceAt,
         KindAt, KinAt, ReadyAt, UnspentAt, Streaming, Polling, PollingBoth, Relaying,
         AwaitingTrailers, Finishing, Closing, AwaitingResponse, Ending, Sent, Preparing,
         Answering, Directions, Futures
<1>1. Loses("close", {"destination"}, "close_source")
  BY SMTT(30)
<1>2. Loses("close_source", {"source"}, "finish")
  BY SMTT(30)
<1>3. Moves("finish", {"received_body"}, {}, {"trailers_future"}, "future-trailers", {},
           "await_trailers")
  BY SMTT(30)
<1>4. Gains("await_trailers", "temporary", "pollable", {"trailers_future"}, "block_trailers")
  BY SMTT(30)
<1>5. Readies("block_trailers", "temporary", "trailers_future", "blocked_trailers")
  BY SMTT(30)
<1>6. Loses("blocked_trailers", {"temporary"}, "get_trailers")
  BY SMTT(30)
<1>7. Moves("get_trailers", {}, {"trailers_future"}, {"trailers"}, "fields",
           {"trailers_future"}, "clone_trailers")
  BY SMTT(30)
<1>8. Idles("get_trailers", {"trailers_future"}, "finish_body")
  BY SMTT(30)
<1>9. Gains("clone_trailers", "copy", "fields", {}, "finish_trailers")
  BY SMTT(30)
<1>10. Loses("finish_trailers", {"sent_body", "copy"}, "drop_trailers")
  BY SMTT(30)
<1>11. Loses("finish_body", {"sent_body"}, "drop_future")
  BY SMTT(30)
<1>12. Loses("drop_trailers", {"trailers"}, "drop_future")
  BY SMTT(30)
<1>13. Redrawn(PlaceAt("drop_future", "request"), {"trailers_future"}, {}, {}, "none", {},
             PlaceAt("await_response", "request"))
  BY SMTT(30)
<1>14. Redrawn(PlaceAt("drop_future", "response"), {"trailers_future"}, {}, {}, "none", {},
             PlaceAt("drop_res", "response"))
  BY SMTT(30)
<1>15. \A d \in Directions : /\ "trailers_future" \in PlaceAt("get_trailers", d).ready
                          /\ PlaceAt("get_trailers", d).own["trailers"] = "none"
  OBVIOUS
<1> HIDE DEF Moves, Gains, Loses, Idles, Readies, Redrawn, PlaceAt,
         KindAt, KinAt, ReadyAt, UnspentAt, Streaming, Polling, PollingBoth, Relaying,
         AwaitingTrailers, Finishing, Closing, AwaitingResponse, Ending, Sent, Preparing,
         Answering, Directions, Futures
<1> QED BY ONLY <1>1, <1>2, <1>3, <1>4, <1>5, <1>6, <1>7, <1>8, <1>9, <1>10, <1>11,
          <1>12, <1>13, <1>14, <1>15

(* The response, and the return of handle.                                  *)
LEMMA ResponseMoves ==
  /\ Gains("await_response", "temporary", "pollable", {"future"}, "block_response")
  /\ Readies("block_response", "temporary", "future", "blocked_response")
  /\ Loses("blocked_response", {"temporary"}, "get_response")
  /\ Moves("get_response", {}, {"future"}, {"res"}, "incoming-response", {},
           "response_headers")
  /\ Gains("response_headers", "temporary", "fields", {"res"}, "clone_response")
  /\ Gains("clone_response", "headers", "fields", {}, "clone_response_end")
  /\ Loses("clone_response_end", {"temporary"}, "new_response")
  /\ Moves("new_response", {"headers"}, {}, {"response"}, "outgoing-response", {},
           "set_status")
  /\ Gains("set_status", "temporary", "fields", {"response"}, "response_entries")
  /\ Loses("response_entries", {"temporary"}, "consume_response")
  /\ Moves("consume_response", {}, {"res"}, {"received_body"}, "incoming-body", {},
           "response_body")
  /\ Moves("response_body", {}, {"response"}, {"sent_body"}, "outgoing-body", {}, "outparam")
  /\ Redrawn(PlaceAt("outparam", "request"), {"out", "response"}, {}, {}, "none", {},
             PlaceAt("stream", "response"))
  /\ PlaceAt("outparam", "response").own["out"] = "none"
  /\ Loses("drop_res", {"res"}, "drop_response_future")
  /\ Loses("drop_response_future", {"future"}, "drop_request")
  /\ Loses("drop_request", {"request"}, "return")
  /\ \A d \in Directions : /\ "future" \in PlaceAt("get_response", d).ready
                          /\ PlaceAt("get_response", d).own["res"] = "none"
                          /\ "res" \in PlaceAt("consume_response", d).ready
                          /\ "response" \in PlaceAt("response_body", d).ready
<1> USE LocalsAreNames DEF Moves, Gains, Loses, Idles, Readies, Redrawn, PlaceAt,
         KindAt, KinAt, ReadyAt, UnspentAt, Streaming, Polling, PollingBoth, Relaying,
         AwaitingTrailers, Finishing, Closing, AwaitingResponse, Ending, Sent, Preparing,
         Answering, Directions, Futures
<1>1. Gains("await_response", "temporary", "pollable", {"future"}, "block_response")
  BY SMTT(30)
<1>2. Readies("block_response", "temporary", "future", "blocked_response")
  BY SMTT(30)
<1>3. Loses("blocked_response", {"temporary"}, "get_response")
  BY SMTT(30)
<1>4. Moves("get_response", {}, {"future"}, {"res"}, "incoming-response", {},
           "response_headers")
  BY SMTT(30)
<1>5. Gains("response_headers", "temporary", "fields", {"res"}, "clone_response")
  BY SMTT(30)
<1>6. Gains("clone_response", "headers", "fields", {}, "clone_response_end")
  BY SMTT(30)
<1>7. Loses("clone_response_end", {"temporary"}, "new_response")
  BY SMTT(30)
<1>8. Moves("new_response", {"headers"}, {}, {"response"}, "outgoing-response", {},
           "set_status")
  BY SMTT(30)
<1>9. Gains("set_status", "temporary", "fields", {"response"}, "response_entries")
  BY SMTT(30)
<1>10. Loses("response_entries", {"temporary"}, "consume_response")
  BY SMTT(30)
<1>11. Moves("consume_response", {}, {"res"}, {"received_body"}, "incoming-body", {},
           "response_body")
  BY SMTT(30)
<1>12. Moves("response_body", {}, {"response"}, {"sent_body"}, "outgoing-body", {}, "outparam")
  BY SMTT(30)
<1>13. Redrawn(PlaceAt("outparam", "request"), {"out", "response"}, {}, {}, "none", {},
             PlaceAt("stream", "response"))
  BY SMTT(30)
<1>14. PlaceAt("outparam", "response").own["out"] = "none"
  OBVIOUS
<1>15. Loses("drop_res", {"res"}, "drop_response_future")
  BY SMTT(30)
<1>16. Loses("drop_response_future", {"future"}, "drop_request")
  BY SMTT(30)
<1>17. Loses("drop_request", {"request"}, "return")
  BY SMTT(30)
<1>18. \A d \in Directions : /\ "future" \in PlaceAt("get_response", d).ready
                          /\ PlaceAt("get_response", d).own["res"] = "none"
                          /\ "res" \in PlaceAt("consume_response", d).ready
                          /\ "response" \in PlaceAt("response_body", d).ready
  OBVIOUS
<1> HIDE DEF Moves, Gains, Loses, Idles, Readies, Redrawn, PlaceAt,
         KindAt, KinAt, ReadyAt, UnspentAt, Streaming, Polling, PollingBoth, Relaying,
         AwaitingTrailers, Finishing, Closing, AwaitingResponse, Ending, Sent, Preparing,
         Answering, Directions, Futures
<1> QED BY ONLY <1>1, <1>2, <1>3, <1>4, <1>5, <1>6, <1>7, <1>8, <1>9, <1>10, <1>11,
          <1>12, <1>13, <1>14, <1>15, <1>16, <1>17, <1>18

-----------------------------------------------------------------------------
(* The handler at a place, about to take a step; d is its direction.        *)
Placed(d) ==
  /\ PlaceInv /\ IInv' /\ fate = "running"
  /\ d \in Directions /\ dir = d

(* The program goes on at n with what the picture of n shows.               *)
LEMMA PlaceReached ==
  ASSUME PlaceInv, IInv', NEW n, NEW d \in Directions, at' = n, dir' = d,
         \/ Goes(PlaceAt(n, d))
         \/ n = "error" /\ UNCHANGED <<abandoned, fate>>
  PROVE PlaceInv'
<1>1. UNCHANGED <<abandoned, fate>>
  BY DEF Goes
<1>2. RulesKept' /\ abandoned' = {}
  BY <1>1 DEF PlaceInv, RulesKept
<1>3. Place'
  <2>1. CASE n = "error"
    BY <2>1 DEF Place
  <2>2. CASE Goes(PlaceAt(n, d))
    BY <2>2 DEF Place, Goes
  <2> QED BY <2>1, <2>2
<1> QED BY <1>2, <1>3 DEF PlaceInv

(* What that gives to every step.                                           *)
LEMMA PlacedFacts ==
  ASSUME NEW d, Placed(d)
  PROVE  /\ Running /\ IInv /\ IInv' /\ PlaceInv /\ dir = d /\ d \in Directions
         /\ at # "error" => Picture(PlaceAt(at, d))
  BY DEF Placed, PlaceInv, Place, Running

(* What the picture calls ready is.                                         *)
LEMMA ReadyFacts ==
  ASSUME NEW d, Placed(d), at # "error"
  PROVE  \A v \in PlaceAt(at, d).ready : StageOf(v) = "ready"
  BY PlacedFacts DEF Picture

(* A panic for a reason from outside.                                       *)
LEMMA FailureKeeps ==
  ASSUME NEW d, Placed(d), NEW l, Failure(l) PROVE PlaceInv'
  BY PlacedFacts DEF Failure, Panic, PlaceInv, RulesKept, Place

(* Reading the headers for the path of the request.                         *)
LEMMA TargetKeeps ==
  ASSUME NEW d, Placed(d), request_target PROVE PlaceInv'
<1> USE LocalsAreNames, KindsAndFamily, RequestMoves, PlacedFacts
       DEF Moves, Gains, Loses, Idles
<1>1. CASE Step("target", IncomingRequest_headers("request", "headers"), {"get"})
  BY <1>1, ChildDraws, PlaceReached DEF Step, IncomingRequest_headers
<1>2. CASE Failure("target") \/ Failure("get")
  BY <1>2, FailureKeeps
<1>3. CASE Step("get", DropFields("headers"), {"request_headers"})
  BY <1>3, DropDraws, PlaceReached DEF Step, DropFields
<1> QED BY ONLY <1>1, <1>2, <1>3, request_target DEF request_target

(* The upstream request, made of a copy of the headers.                     *)
LEMMA BuildRequestKeeps ==
  ASSUME NEW d, Placed(d), BuildRequest PROVE PlaceInv'
<1> USE LocalsAreNames, KindsAndFamily, RequestMoves, PlacedFacts
       DEF Moves, Gains, Loses, Idles
<1>1. CASE Step("request_headers", IncomingRequest_headers("request", "temporary"), {"clone"})
  BY <1>1, ChildDraws, PlaceReached DEF Step, IncomingRequest_headers
<1>2. CASE Step("clone", Fields_clone("temporary", "headers"), {"clone_end"})
  <2>1. Owning({})
    BY DEF Owning
  <2> QED BY <1>2, <2>1, RootDraws, PlaceReached DEF Step, Fields_clone
<1>3. CASE Step("clone_end", DropFields("temporary"), {"new_request"})
  BY <1>3, DropDraws, PlaceReached DEF Step, DropFields
<1>4. CASE Step("new_request", OutgoingRequest_new("headers", "req"), {"set"})
  <2>1. Owning({"headers"})
    BY <1>4, IsAOwning DEF Step, OutgoingRequest_new
  <2> QED BY <1>4, <2>1, RootDraws, PlaceReached DEF Step, OutgoingRequest_new
<1>5. CASE Failure("set") \/ Failure("entries")
  BY <1>5, FailureKeeps
<1>6. CASE Step("set", OutgoingRequest_headers("req", "temporary"), {"entries"})
  BY <1>6, ChildDraws, PlaceReached DEF Step, OutgoingRequest_headers
<1>7. CASE Step("entries", DropFields("temporary"), {"consume"})
  BY <1>7, DropDraws, PlaceReached DEF Step, DropFields
<1> QED BY ONLY <1>1, <1>2, <1>3, <1>4, <1>5, <1>6, <1>7, BuildRequest DEF BuildRequest

(* The two bodies and the future of the answer, or an error of the sending. *)
LEMMA SendKeeps ==
  ASSUME NEW d, Placed(d), SendRequest PROVE PlaceInv'
<1> USE LocalsAreNames, KindsAndFamily, SendMoves, PlacedFacts
       DEF Moves, Gains, Loses, Idles
<1>1. CASE Unwrap("consume", "request", IncomingRequest_consume("request", "received_body"),
                 {"body"})
  <2>1. StageOf("request") = "ready"
    BY <1>1, ReadyFacts DEF Unwrap
  <2> QED BY <1>1, <2>1, GiveOutDraws, SendMoves, PlaceReached DEF Unwrap,
            IncomingRequest_consume
<1>2. CASE Unwrap("body", "req", OutgoingRequest_body("req", "sent_body"),
                 {"send"})
  <2>1. StageOf("req") = "ready"
    BY <1>2, ReadyFacts DEF Unwrap
  <2> QED BY <1>2, <2>1, GiveOutDraws, PlaceReached DEF Unwrap, OutgoingRequest_body
<1>3. CASE Step("send", send_request("req", {}, "future"),
               IF value'["future"] = NoValue THEN {"error"} ELSE {"stream"})
  <2>1. /\ Owning({"req"}) /\ Picture(PlaceAt("send", d)) /\ UNCHANGED dir
        /\ at' \in IF value'["future"] = NoValue THEN {"error"} ELSE {"stream"}
        /\ \/ Make({"req"}, "future", "future-incoming-response", MAX)
           \/ Give({"req"})
    <3>1. {"req"} \cup {} = {"req"}
      OBVIOUS
    <3> QED BY <1>3, <3>1, IsAOwning DEF Step, send_request
  <2>2. CASE Make({"req"}, "future", "future-incoming-response", MAX)
    <3>1. Goes(PlaceAt("stream", d))
      BY <2>1, <2>2, RootDraws
    <3>2. PlaceAt("stream", d).own["future"] = "future-incoming-response"
      BY DEF Redrawn
    <3>3. value'["future"] # NoValue
      BY <3>1, <3>2 DEF Goes, Picture, NoValue
    <3> QED BY <2>1, <3>1, <3>3, PlaceReached
  <2>3. CASE Give({"req"})
    <3>1. Childless({"req"})
      BY <2>1, LostIsChildless
    <3>2. UNCHANGED <<abandoned, fate>> /\ value' = GivenAway({"req"})
      BY <2>1, <2>3, <3>1, GiveGoes
    <3>3. value["future"] = NoValue
      BY <2>1, PictureOwns
    <3>4. value'["future"] = NoValue
      BY <3>2, <3>3 DEF GivenAway
    <3> QED BY <2>1, <3>2, <3>4, PlaceReached
  <2> QED BY <2>1, <2>2, <2>3
<1> QED BY ONLY <1>1, <1>2, <1>3, SendRequest DEF SendRequest

(* A stream is opened at the place only where its body has one to give.     *)
LEMMA OpenKeeps ==
  ASSUME NEW d, Placed(d), OpenStreams PROVE PlaceInv'
<1> USE LocalsAreNames, KindsAndFamily, SendMoves, PlacedFacts
       DEF Moves, Gains, Loses, Idles
<1>1. CASE Unwrap("stream", "received_body", IncomingBody_stream("received_body", "source"),
                 {"write"})
  <2>1. StageOf("received_body") = "ready"
    BY <1>1, ReadyFacts DEF Unwrap
  <2> QED BY <1>1, <2>1, GiveChildDraws, PlaceReached DEF Unwrap, IncomingBody_stream
<1>2. CASE Unwrap("write", "sent_body", OutgoingBody_write("sent_body", "destination"),
                 {"loop"})
  <2>1. StageOf("sent_body") = "ready"
    BY <1>2, ReadyFacts DEF Unwrap
  <2> QED BY <1>2, <2>1, GiveChildDraws, PlaceReached DEF Unwrap, OutgoingBody_write
<1> QED BY ONLY <1>1, <1>2, OpenStreams DEF OpenStreams

(* A round of stream_data: both pollables go before the streams they poll.  *)
LEMMA StreamKeeps ==
  ASSUME NEW d, Placed(d), stream_data PROVE PlaceInv'
<1> USE LocalsAreNames, KindsAndFamily, StreamMoves, PlacedFacts
       DEF Moves, Gains, Loses, Idles
<1>1. CASE Step("loop", InputStream_subscribe("source", "source_ready"), {"await_source"})
  BY <1>1, ChildDraws, PlaceReached DEF Step, InputStream_subscribe
<1>2. CASE Step("await_source", Pollable_block("source_ready"), {"subscribe"})
  BY <1>2, IdleDraws, PlaceReached DEF Step, Pollable_block
<1>3. CASE Step("subscribe", OutputStream_subscribe("destination", "destination_ready"),
               {"await_destination"})
  BY <1>3, ChildDraws, PlaceReached DEF Step, OutputStream_subscribe
<1>4. CASE Step("await_destination", Pollable_block("destination_ready"), {"check"})
  BY <1>4, IdleDraws, PlaceReached DEF Step, Pollable_block
<1>5. CASE Step("check", OutputStream_check_write("destination", "error"),
               Outcome("destination", "read", "error"))
  <2>1. /\ IsA("destination", "output-stream") /\ StreamCall("destination", "error")
        /\ Picture(PlaceAt("check", d)) /\ UNCHANGED dir
        /\ \/ value'["error"] # NoValue /\ at' = "error"
           \/ value'["error"] = NoValue /\ at' \in {"read", "error"}
    BY <1>5 DEF Step, Outcome, OutputStream_check_write
  <2>2. /\ UNCHANGED <<abandoned, fate>>
        /\ value'["error"] # NoValue \/ Goes(PlaceAt("read", d))
    BY <2>1, StreamCallDraws
  <2> QED BY <2>1, <2>2, PlaceReached
<1>6. CASE Step("read", InputStream_read("source", "error"),
               Outcome("source", "write_data", "flush"))
  <2>1. /\ IsA("source", "input-stream") /\ StreamCall("source", "error")
        /\ Picture(PlaceAt("read", d)) /\ UNCHANGED dir
        /\ \/ value'["error"] # NoValue /\ at' = "error"
           \/ value'["error"] = NoValue /\ at' \in {"write_data", "flush"}
    BY <1>6 DEF Step, Outcome, InputStream_read
  <2>2. /\ UNCHANGED <<abandoned, fate>>
        /\ value'["error"] # NoValue \/ Goes(PlaceAt("write_data", d))
    BY <2>1, StreamCallDraws
  <2>3. /\ UNCHANGED <<abandoned, fate>>
        /\ value'["error"] # NoValue \/ Goes(PlaceAt("flush", d))
    BY <2>1, StreamCallDraws
  <2> QED BY <2>1, <2>2, <2>3, PlaceReached
<1>7. CASE Step("write_data", OutputStream_write("destination", "error"),
               Outcome("destination", "next", "error"))
  <2>1. /\ IsA("destination", "output-stream") /\ StreamCall("destination", "error")
        /\ Picture(PlaceAt("write_data", d)) /\ UNCHANGED dir
        /\ \/ value'["error"] # NoValue /\ at' = "error"
           \/ value'["error"] = NoValue /\ at' \in {"next", "error"}
    BY <1>7 DEF Step, Outcome, OutputStream_write
  <2>2. /\ UNCHANGED <<abandoned, fate>>
        /\ value'["error"] # NoValue \/ Goes(PlaceAt("next", d))
    BY <2>1, StreamCallDraws
  <2> QED BY <2>1, <2>2, PlaceReached
<1>8. CASE Step("flush", OutputStream_flush("destination", "error"),
               Outcome("destination", "next", "error"))
  <2>1. /\ IsA("destination", "output-stream") /\ StreamCall("destination", "error")
        /\ Picture(PlaceAt("flush", d)) /\ UNCHANGED dir
        /\ \/ value'["error"] # NoValue /\ at' = "error"
           \/ value'["error"] = NoValue /\ at' \in {"next", "error"}
    BY <1>8 DEF Step, Outcome, OutputStream_flush
  <2>2. /\ UNCHANGED <<abandoned, fate>>
        /\ value'["error"] # NoValue \/ Goes(PlaceAt("next", d))
    BY <2>1, StreamCallDraws
  <2> QED BY <2>1, <2>2, PlaceReached
<1>9. CASE Step("next", DropPollable("destination_ready"), {"next_source"})
  BY <1>9, DropDraws, PlaceReached DEF Step, DropPollable
<1>10. CASE Step("next_source", DropPollable("source_ready"),
               {IF StageOf("source") = "spent" THEN "close" ELSE "loop"})
  <2>1. Goes(PlaceAt("close", d)) /\ Goes(PlaceAt("loop", d))
    BY <1>10, DropDraws DEF Step, DropPollable
  <2> QED BY <1>10, <2>1, PlaceReached DEF Step
<1>11. CASE Failure("write_data")
  BY <1>11, FailureKeeps
<1> QED BY ONLY <1>1, <1>2, <1>3, <1>4, <1>5, <1>6, <1>7, <1>8, <1>9, <1>10, <1>11, stream_data
          DEF stream_data

(* The streams go before the bodies.                                        *)
LEMMA CloseKeeps ==
  ASSUME NEW d, Placed(d), CloseStreams PROVE PlaceInv'
<1> USE LocalsAreNames, KindsAndFamily, FinishMoves, PlacedFacts
       DEF Moves, Gains, Loses, Idles
<1>1. CASE Step("close", DropOutputStream("destination"), {"close_source"})
  BY <1>1, DropDraws, PlaceReached DEF Step, DropOutputStream
<1>2. CASE Step("close_source", DropInputStream("source"), {"finish"})
  BY <1>2, DropDraws, PlaceReached DEF Step, DropInputStream
<1> QED BY ONLY <1>1, <1>2, CloseStreams DEF CloseStreams

(* The body becomes the future of its trailers, which is waited for.        *)
LEMMA AwaitTrailersKeeps ==
  ASSUME NEW d, Placed(d), AwaitTrailers PROVE PlaceInv'
<1> USE LocalsAreNames, KindsAndFamily, FinishMoves, PlacedFacts
       DEF Moves, Gains, Loses, Idles
<1>1. CASE Step("finish", IncomingBody_finish("received_body", "trailers_future"),
               {"await_trailers"})
  <2>1. Owning({"received_body"})
    BY <1>1, IsAOwning DEF Step, IncomingBody_finish
  <2> QED BY <1>1, <2>1, RootDraws, PlaceReached DEF Step, IncomingBody_finish
<1>2. CASE Step("await_trailers", FutureTrailers_subscribe("trailers_future", "temporary"),
               {"block_trailers"})
  BY <1>2, ChildDraws, PlaceReached DEF Step, FutureTrailers_subscribe
<1>3. CASE Step("block_trailers", Pollable_block("temporary"), {"blocked_trailers"})
  <2>1. Goes(PlaceAt("blocked_trailers", d))
    BY <1>3, BlockDraws DEF Step, Readies, PlaceAt
  <2> QED BY <1>3, <2>1, PlaceReached DEF Step
<1>4. CASE Step("blocked_trailers", DropPollable("temporary"), {"get_trailers"})
  BY <1>4, DropDraws, PlaceReached DEF Step, DropPollable
<1> QED BY ONLY <1>1, <1>2, <1>3, <1>4, AwaitTrailers DEF AwaitTrailers

(* The trailers, or none, or an error of the transfer.                      *)
LEMMA TrailersKeep ==
  ASSUME NEW d, Placed(d), Trailers PROVE PlaceInv'
<1> USE LocalsAreNames, KindsAndFamily, FinishMoves, PlacedFacts
       DEF Moves, Gains, Loses, Idles
<1>1. CASE Unwrap("get_trailers", "trailers_future",
                 FutureTrailers_get("trailers_future", "trailers"),
                 IF value'["trailers"] = NoValue THEN {"finish_body", "error"}
                                             ELSE {"clone_trailers"})
  <2>1. StageOf("trailers_future") = "ready"
    BY <1>1, ReadyFacts DEF Unwrap
  <2>2. /\ IsA("trailers_future", "future-trailers")
        /\ Picture(PlaceAt("get_trailers", d)) /\ UNCHANGED dir
        /\ at' \in IF value'["trailers"] = NoValue THEN {"finish_body", "error"}
                 ELSE {"clone_trailers"}
        /\ \/ GiveOut("trailers_future", "trailers", "fields", HandleOf("trailers_future"))
           \/ Spend("trailers_future")
    BY <1>1, <2>1 DEF Unwrap, FutureTrailers_get
  <2>3. CASE GiveOut("trailers_future", "trailers", "fields", HandleOf("trailers_future"))
    <3>1. Goes(PlaceAt("clone_trailers", d))
      BY <2>2, <2>3, GiveChildDraws
    <3>2. PlaceAt("clone_trailers", d).own["trailers"] = "fields"
      BY DEF Redrawn
    <3>3. value'["trailers"] # NoValue
      BY <3>1, <3>2 DEF Goes, Picture, NoValue
    <3> QED BY <2>2, <3>1, <3>3, PlaceReached
  <2>4. CASE Spend("trailers_future")
    <3>1. value'["trailers"] = NoValue /\ UNCHANGED <<abandoned, fate>>
      BY <2>2, <2>4, PictureOwns DEF Spend
    <3>2. Goes(PlaceAt("finish_body", d))
      BY <2>2, <2>4, SpendDraws
    <3> QED BY <2>2, <3>1, <3>2, PlaceReached
  <2> QED BY <2>2, <2>3, <2>4
<1>2. CASE Step("clone_trailers", Fields_clone("trailers", "copy"), {"finish_trailers"})
  <2>1. Owning({})
    BY DEF Owning
  <2> QED BY <1>2, <2>1, RootDraws, PlaceReached DEF Step, Fields_clone
<1>3. CASE Failure("finish_trailers")
  BY <1>3, FailureKeeps
<1> QED BY ONLY <1>1, <1>2, <1>3, Trailers DEF Trailers

(* The sent body is finished in each case, not dropped.                     *)
LEMMA FinishBodyKeeps ==
  ASSUME NEW d, Placed(d), FinishBody PROVE PlaceInv'
<1> USE LocalsAreNames, KindsAndFamily, FinishMoves, PlacedFacts
       DEF Moves, Gains, Loses, Idles
<1>1. CASE Step("finish_trailers", OutgoingBody_finish("sent_body", {"copy"}),
               {"drop_trailers", "error"})
  <2>1. /\ Owning({"sent_body", "copy"}) /\ Give({"sent_body", "copy"})
        /\ Picture(PlaceAt("finish_trailers", d))
        /\ UNCHANGED dir /\ at' \in {"drop_trailers", "error"}
    <3>1. {"sent_body"} \cup {"copy"} = {"sent_body", "copy"}
      OBVIOUS
    <3>2. \A t \in {"sent_body", "copy"} : Owning({t})
      BY <1>1, IsAOwning DEF Step, OutgoingBody_finish
    <3> QED BY <1>1, <3>1, <3>2 DEF Step, OutgoingBody_finish, Owning
  <2>2. Goes(PlaceAt("drop_trailers", d))
    BY <2>1, GiveDraws
  <2> QED BY <2>1, <2>2, PlaceReached DEF Goes
<1>2. CASE Step("finish_body", OutgoingBody_finish("sent_body", {}), {"drop_future", "error"})
  <2>1. /\ Owning({"sent_body"}) /\ Give({"sent_body"}) /\ Picture(PlaceAt("finish_body", d))
        /\ UNCHANGED dir /\ at' \in {"drop_future", "error"}
    <3>1. {"sent_body"} \cup {} = {"sent_body"}
      OBVIOUS
    <3>2. \A t \in {"sent_body"} : Owning({t})
      BY <1>2, IsAOwning DEF Step, OutgoingBody_finish
    <3> QED BY <1>2, <3>1, <3>2 DEF Step, OutgoingBody_finish, Owning
  <2>2. Goes(PlaceAt("drop_future", d))
    BY <2>1, GiveDraws
  <2> QED BY <2>1, <2>2, PlaceReached DEF Goes
<1>3. CASE Step("drop_trailers", DropFields("trailers"), {"drop_future"})
  BY <1>3, DropDraws, PlaceReached DEF Step, DropFields
<1>4. CASE Step("drop_future", DropFutureTrailers("trailers_future"),
               {IF dir = "request" THEN "await_response" ELSE "drop_res"})
  <2>1. /\ d = "request" => Goes(PlaceAt("await_response", d))
        /\ d = "response" => Goes(PlaceAt("drop_res", d))
    BY <1>4, DropDraws DEF Step, DropFutureTrailers
  <2> QED BY <1>4, <2>1, PlaceReached DEF Step, Directions
<1> QED BY ONLY <1>1, <1>2, <1>3, <1>4, FinishBody DEF FinishBody

(* The future of the answer is waited for before it is asked.               *)
LEMMA AwaitResponseKeeps ==
  ASSUME NEW d, Placed(d), AwaitResponse PROVE PlaceInv'
<1> USE LocalsAreNames, KindsAndFamily, ResponseMoves, PlacedFacts
       DEF Moves, Gains, Loses, Idles
<1>1. CASE Step("await_response", FutureIncomingResponse_subscribe("future", "temporary"),
               {"block_response"})
  BY <1>1, ChildDraws, PlaceReached DEF Step, FutureIncomingResponse_subscribe
<1>2. CASE Step("block_response", Pollable_block("temporary"), {"blocked_response"})
  <2>1. Goes(PlaceAt("blocked_response", d))
    BY <1>2, BlockDraws DEF Step, Readies, PlaceAt
  <2> QED BY <1>2, <2>1, PlaceReached DEF Step
<1>3. CASE Step("blocked_response", DropPollable("temporary"), {"get_response"})
  BY <1>3, DropDraws, PlaceReached DEF Step, DropPollable
<1>4. CASE Unwrap("get_response", "future", FutureIncomingResponse_get("future", "res"),
                 IF value'["res"] = NoValue THEN {"error"} ELSE {"response_headers"})
  <2>1. StageOf("future") = "ready"
    BY <1>4, ReadyFacts DEF Unwrap
  <2>2. /\ IsA("future", "future-incoming-response")
        /\ Picture(PlaceAt("get_response", d)) /\ UNCHANGED dir
        /\ at' \in IF value'["res"] = NoValue THEN {"error"} ELSE {"response_headers"}
        /\ GiveOut("future", "res", "incoming-response", MAX) \/ Spend("future")
    BY <1>4, <2>1 DEF Unwrap, FutureIncomingResponse_get
  <2>3. CASE GiveOut("future", "res", "incoming-response", MAX)
    <3>1. Goes(PlaceAt("response_headers", d))
      BY <2>2, <2>3, GiveOutDraws
    <3>2. PlaceAt("response_headers", d).own["res"] = "incoming-response"
      BY DEF Redrawn
    <3>3. value'["res"] # NoValue
      BY <3>1, <3>2 DEF Goes, Picture, NoValue
    <3> QED BY <2>2, <3>1, <3>3, PlaceReached
  <2>4. CASE Spend("future")
    <3>1. value'["res"] = NoValue /\ UNCHANGED <<abandoned, fate>>
      BY <2>2, <2>4, PictureOwns DEF Spend
    <3> QED BY <2>2, <3>1, PlaceReached
  <2> QED BY <2>2, <2>3, <2>4
<1> QED BY ONLY <1>1, <1>2, <1>3, <1>4, AwaitResponse DEF AwaitResponse

(* The response, made of a copy of the headers.                             *)
LEMMA BuildResponseKeeps ==
  ASSUME NEW d, Placed(d), BuildResponse PROVE PlaceInv'
<1> USE LocalsAreNames, KindsAndFamily, ResponseMoves, PlacedFacts
       DEF Moves, Gains, Loses, Idles
<1>1. CASE Step("response_headers", IncomingResponse_headers("res", "temporary"),
               {"clone_response"})
  BY <1>1, ChildDraws, PlaceReached DEF Step, IncomingResponse_headers
<1>2. CASE Step("clone_response", Fields_clone("temporary", "headers"), {"clone_response_end"})
  <2>1. Owning({})
    BY DEF Owning
  <2> QED BY <1>2, <2>1, RootDraws, PlaceReached DEF Step, Fields_clone
<1>3. CASE Step("clone_response_end", DropFields("temporary"), {"new_response"})
  BY <1>3, DropDraws, PlaceReached DEF Step, DropFields
<1>4. CASE Step("new_response", OutgoingResponse_new("headers", "response"), {"set_status"})
  <2>1. Owning({"headers"})
    BY <1>4, IsAOwning DEF Step, OutgoingResponse_new
  <2> QED BY <1>4, <2>1, RootDraws, PlaceReached DEF Step, OutgoingResponse_new
<1>5. CASE Failure("set_status") \/ Failure("response_entries")
  BY <1>5, FailureKeeps
<1>6. CASE Step("set_status", OutgoingResponse_headers("response", "temporary"),
               {"response_entries"})
  BY <1>6, ChildDraws, PlaceReached DEF Step, OutgoingResponse_headers
<1>7. CASE Step("response_entries", DropFields("temporary"), {"consume_response"})
  BY <1>7, DropDraws, PlaceReached DEF Step, DropFields
<1> QED BY ONLY <1>1, <1>2, <1>3, <1>4, <1>5, <1>6, <1>7, BuildResponse DEF BuildResponse

(* The outparam is set once: the pictures of the request own it, those of   *)
(* the response do not.                                                     *)
LEMMA SetOutparamKeeps ==
  ASSUME NEW d, Placed(d), SetOutparam PROVE PlaceInv'
<1> USE LocalsAreNames, KindsAndFamily, ResponseMoves, PlacedFacts
       DEF Moves, Gains, Loses, Idles
<1>1. CASE Unwrap("consume_response", "res", IncomingResponse_consume("res", "received_body"),
                 {"response_body"})
  <2>1. StageOf("res") = "ready"
    BY <1>1, ReadyFacts DEF Unwrap
  <2> QED BY <1>1, <2>1, GiveOutDraws, PlaceReached DEF Unwrap, IncomingResponse_consume
<1>2. CASE Unwrap("response_body", "response", OutgoingResponse_body("response", "sent_body"),
                 {"outparam"})
  <2>1. StageOf("response") = "ready"
    BY <1>2, ReadyFacts DEF Unwrap
  <2> QED BY <1>2, <2>1, GiveOutDraws, PlaceReached DEF Unwrap, OutgoingResponse_body
<1>3. CASE /\ at = "outparam"
            /\ ResponseOutparam_set("out", {"response"})
            /\ at' = "stream"
            /\ dir' = "response"
  <2>1. /\ Owning({"out", "response"}) /\ Give({"out", "response"})
        /\ value["out"] # NoValue
    <3>1. {"out"} \cup {"response"} = {"out", "response"}
      OBVIOUS
    <3>2. value["out"] # NoValue /\ \A t \in {"out", "response"} : Owning({t})
      BY <1>3, IsAOwning DEF ResponseOutparam_set
    <3> QED BY <1>3, <3>1, <3>2 DEF ResponseOutparam_set, Owning
  <2>2. d = "request" /\ Picture(PlaceAt("outparam", d))
    BY <1>3, <2>1, PictureOwns DEF Directions
  <2>3. Goes(PlaceAt("stream", "response"))
    BY <2>1, <2>2, GiveDraws
  <2> QED BY <1>3, <2>3, PlaceReached DEF Directions
<1> QED BY ONLY <1>1, <1>2, <1>3, SetOutparam DEF SetOutparam

(* What is left goes in reverse order, nothing is left at the return.       *)
LEMMA EndKeeps ==
  ASSUME NEW d, Placed(d), End PROVE PlaceInv'
<1> USE LocalsAreNames, KindsAndFamily, ResponseMoves, PlacedFacts
       DEF Moves, Gains, Loses, Idles
<1>1. CASE Step("drop_res", DropIncomingResponse("res"), {"drop_response_future"})
  BY <1>1, DropDraws, PlaceReached DEF Step, DropIncomingResponse
<1>2. CASE Step("drop_response_future", DropFutureIncomingResponse("future"), {"drop_request"})
  BY <1>2, DropDraws, PlaceReached DEF Step, DropFutureIncomingResponse
<1>3. CASE Step("drop_request", DropIncomingRequest("request"), {"return"})
  BY <1>3, DropDraws, PlaceReached DEF Step, DropIncomingRequest
<1>4. CASE Step("return", Return, {"return"})
  BY <1>4 DEF Step, Return, PlaceInv, RulesKept, Place
<1> QED BY ONLY <1>1, <1>2, <1>3, <1>4, End DEF End

(* The host settles a future under the handler's feet: no picture shows it. *)
LEMMA SettleKeepsPlace ==
  ASSUME NEW d, Placed(d), Host PROVE PlaceInv'
<1>1. PICK h \in Handles : Settle(h)
  BY DEF Host
<1>2. at # "error" => Goes(PlaceAt(at, d))
  BY <1>1, PlacedFacts, SettleDraws
<1>3. UNCHANGED <<abandoned, fate, at, dir>>
  BY <1>1 DEF Host, Settle
<1> QED BY <1>2, <1>3, PlacedFacts, PlaceReached

LEMMA HandleKeepsPlace ==
  ASSUME NEW d, Placed(d), Handle PROVE PlaceInv'
  BY TargetKeeps, BuildRequestKeeps, SendKeeps, OpenKeeps, StreamKeeps, CloseKeeps,
     AwaitTrailersKeeps, TrailersKeep, FinishBodyKeeps, AwaitResponseKeeps,
     BuildResponseKeeps, SetOutparamKeeps, EndKeeps, FailureKeeps DEF Handle

LEMMA StepIsAnyStep == [Next]_vars => [AnyStep]_resourceVars
<1>1. ASSUME Next PROVE AnyStep
  <2>1. fate = "running"
    BY <1>1 DEF Next
  <2>2. CASE Handle
    BY <2>1, <2>2, RequestIsProgram, StreamingIsProgram, ResponseIsProgram, PanicIsStep
       DEF Handle, Failure
  <2>3. CASE Host
    BY <2>1, <2>3 DEF Host, AnyStep
  <2> QED BY <1>1, <2>2, <2>3 DEF Next
<1>2. UNCHANGED vars => UNCHANGED resourceVars
  BY DEF vars
<1> QED BY <1>1, <1>2

(* The export starts with a request and its outparam.                       *)
LEMMA InitPlace == Init => PlaceInv
<1> SUFFICES ASSUME Init PROVE PlaceInv
  OBVIOUS
<1>1. IInv
  BY LocalsAreNames, ExportIsGood DEF Init
<1> DEFINE p == PlaceAt("target", "request")
<1>2. /\ p.kin = {} /\ p.ready \subseteq {"request"} /\ p.unspent = {}
      /\ \A v \in Names : p.own[v] = CASE v = "request" -> "incoming-request"
                                      [] v = "out" -> "response-outparam"
                                      [] OTHER -> "none"
  BY DEF PlaceAt, KindAt, KinAt, ReadyAt, UnspentAt, Streaming, Polling, PollingBoth,
     Relaying, AwaitingTrailers, Finishing, Closing, AwaitingResponse, Ending, Sent,
     Preparing, Answering
<1> HIDE DEF p
<1>3. Picture(p) /\ abandoned = {} /\ fate = "running"
  BY <1>2, LocalsAreNames, ExportDraws DEF Init
<1> QED BY <1>1, <1>3 DEF p, Init, PlaceInv, RulesKept, Place, Directions

LEMMA NextPlace == PlaceInv /\ [Next]_vars => PlaceInv'
<1> SUFFICES ASSUME PlaceInv, [Next]_vars PROVE PlaceInv'
  OBVIOUS
<1>1. IInv'
  BY StepIsAnyStep, AnyStepKeeps DEF PlaceInv
<1>2. CASE Next
  <2>1. Placed(dir)
    BY <1>1, <1>2 DEF Placed, PlaceInv, Next
  <2> QED BY <1>2, <2>1, HandleKeepsPlace, SettleKeepsPlace DEF Next
<1>3. CASE UNCHANGED vars
  BY <1>1, <1>3 DEF vars, resourceVars, PlaceInv, RulesKept, Place, Picture, ChildOf,
                    HandleOf, StageOf
<1> QED BY <1>2, <1>3

-----------------------------------------------------------------------------
(* Every behaviour of the handler is one of a program of safe Rust on the   *)
(* wrappers (lib.rs:107-224 on bindings.rs).                                *)
THEOREM HandlerIsProgram == Spec => IsProgram
<1>1. Init => \E request, out \in Names : export_handle(request, out)
  BY LocalsAreNames DEF Init
<1> QED BY <1>1, StepIsAnyStep, PTL DEF Spec, IsProgram, AnyProgram

(* The handler owns each of its handles once, whatever the host does: none  *)
(* is lost, doubled or dropped twice.                                       *)
THEOREM HandlerOwnsOnce == Spec => []HandlesHaveOneOwner
  BY HandlerIsProgram, HandlesAreOwnedOnce, PTL DEF IsProgram

(* A call of handle that returns leaves nothing in the table.               *)
THEOREM HandlerLeavesNothing == Spec => []NothingStays
  BY HandlerIsProgram, ReturnLeavesNothing, PTL DEF IsProgram

(* On no path, in no order of the host's answers and with any reuse of the  *)
(* indices does handle break a rule of its resources: nothing is dropped    *)
(* before its children, taken twice or asked too early (lib.rs:107-224).    *)
THEOREM HandlerKeepsRules == Spec => []RulesKept
<1>1. PlaceInv => RulesKept
  BY DEF PlaceInv
<1> QED BY <1>1, InitPlace, NextPlace, PTL DEF Spec

(* No outparam and no outgoing body is dropped unused on the way to the     *)
(* return (lib.rs:176-182 and 203).                                         *)
THEOREM HandlerAbandonsNothing == Spec => []NothingAbandoned
<1>1. PlaceInv => NothingAbandoned
  BY DEF PlaceInv, NothingAbandoned
<1> QED BY <1>1, InitPlace, NextPlace, PTL DEF Spec

-----------------------------------------------------------------------------
LEMMA HostLocalsAreNames == "stream" \in Names /\ "error" \in Names
  BY HostLocalsAssumption DEF HostLocals

-----------------------------------------------------------------------------
(* The handle table. Between its creation and its drop the call of          *)
(* proxy_log owns its stream, and nothing else is owned ever.               *)
Logging == {"message", "newline", "drop"}

HostPlaceAt(l) ==
  [own |-> [v \in Names |-> IF v = "stream" /\ l \in Logging THEN "output-stream" ELSE "none"],
   kin |-> {}, ready |-> {}, unspent |-> {}]

HostPlace == fate = "running" /\ callAt # "unwrap" => Picture(HostPlaceAt(callAt))

(* What the message has to do with a trap.                                  *)
HostPlaceInv ==
  /\ IInv /\ abandoned = {}
  /\ fate \in {"running", "trapped", "failed"}
  /\ message.size \in Nat /\ LogTrapsHaveCause
  /\ HostPlace

LEMMA HostMoves ==
  /\ Redrawn(HostPlaceAt("plugin"), {}, {}, {"stream"}, "output-stream", {},
             HostPlaceAt("message"))
  /\ Redrawn(HostPlaceAt("message"), {}, {"stream"}, {}, "none", {}, HostPlaceAt("newline"))
  /\ Redrawn(HostPlaceAt("newline"), {}, {"stream"}, {}, "none", {}, HostPlaceAt("drop"))
  /\ Redrawn(HostPlaceAt("drop"), {"stream"}, {}, {}, "none", {}, HostPlaceAt("plugin"))
  BY HostLocalsAreNames DEF Redrawn, HostPlaceAt, Logging

HostPlaced == HostPlaceInv /\ fate = "running"

LEMMA HostPlacedFacts ==
  ASSUME HostPlaced
  PROVE  /\ Running /\ IInv /\ message.size \in Nat
         /\ callAt # "unwrap" => Picture(HostPlaceAt(callAt))
  BY DEF HostPlaced, HostPlaceInv, HostPlace, Running

(* The call goes on at n with what the picture of n shows.                  *)
LEMMA HostPlaceReached ==
  ASSUME HostPlaced, IInv', NEW n, callAt' = n, message'.size \in Nat,
         \/ n = "unwrap" /\ UNCHANGED <<abandoned, fate>>
         \/ Goes(HostPlaceAt(n))
  PROVE  HostPlaceInv'
<1>1. UNCHANGED <<abandoned, fate>>
  BY DEF Goes
<1>2. HostPlace'
  BY DEF HostPlace, Goes
<1> QED BY <1>1, <1>2 DEF HostPlaced, HostPlaceInv, LogTrapsHaveCause

(* What leaves the resources alone leaves them as they are pictured.        *)
LEMMA HostPlaceStays ==
  ASSUME HostPlaced, UNCHANGED <<resourceVars, message, callAt>> PROVE HostPlaceInv'
<1>1. IInv'
  BY HostPlacedFacts, StutterKeeps
<1>2. HostPlace'
  BY DEF HostPlaced, HostPlaceInv, HostPlace, resourceVars, Picture, ChildOf, HandleOf, StageOf
<1> QED BY <1>1, <1>2 DEF HostPlaced, HostPlaceInv, LogTrapsHaveCause, resourceVars

(* The consoles of the levels are those C++ means.                          *)
LEMMA ConsoleFacts ==
  /\ \A l : ConsoleOf(l) \in Consoles \cup {"none"}
  /\ "none" \notin Consoles
  /\ \A l \in PluginLevels, c \in Consoles : l \in LevelsOf(c) <=> ConsoleOf(l) = c
<1>1. \A l : ConsoleOf(l) \in Consoles \cup {"none"}
  BY DEF ConsoleOf, Consoles
<1>2. /\ LevelsOf("stdout") = {0, 1, 2} /\ LevelsOf("stderr") = {3, 4, 5}
      /\ PluginLevels = {-1, 0, 1, 2, 3, 4, 5, 6}
  BY DEF LevelsOf, CppLogLevel, PluginLevels
<1>3. /\ \A l \in {0, 1, 2} : ConsoleOf(l) = "stdout"
      /\ \A l \in {3, 4, 5} : ConsoleOf(l) = "stderr"
      /\ \A l \in {-1, 6} : ConsoleOf(l) = "none"
  BY DEF ConsoleOf, LogLevel
<1> QED BY <1>1, <1>2, <1>3 DEF Consoles

LEMMA StartLogPlaced ==
  ASSUME HostPlaced, StartLog PROVE IInv' /\ HostPlaceInv'
<1> USE HostPlacedFacts, HostLocalsAreNames
<1>1. callAt = "plugin" /\ message'.size \in Nat
  BY SizesAssumption DEF StartLog
<1>2. CASE message'.null /\ Trap
  <2>1. IInv'
    BY <1>2, TrapKeeps
  <2> QED BY <1>1, <1>2, <2>1 DEF Trap, HostPlaced, HostPlaceInv, HostPlace, LogTrapsHaveCause
<1>3. CASE (get_stdout("stream") \/ get_stderr("stream")) /\ callAt' = "message"
  <2>1. Make({}, "stream", "output-stream", MAX) /\ Owning({})
    BY <1>3 DEF get_stdout, get_stderr, Owning
  <2>2. IInv'
    BY <1>3, IoCallKeeps DEF IoCall
  <2>3. Goes(HostPlaceAt("message"))
    BY <1>1, <2>1, <2>2, HostMoves, RootDraws, KindsAndFamily
  <2> QED BY <1>1, <1>3, <2>2, <2>3, HostPlaceReached
<1>4. CASE UNCHANGED resourceVars /\ callAt' = "plugin"
  <2>1. IInv'
    BY <1>4, StutterKeeps
  <2>2. Goes(HostPlaceAt("plugin"))
    <3>1. Redrawn(HostPlaceAt("plugin"), {}, {}, {}, "none", {}, HostPlaceAt("plugin"))
      BY DEF Redrawn, HostPlaceAt
    <3> QED BY <1>1, <1>4, <3>1, IdleDraws
  <2> QED BY <1>1, <1>4, <2>1, <2>2, HostPlaceReached
<1>5. \/ message'.null /\ Trap
      \/ (get_stdout("stream") \/ get_stderr("stream")) /\ callAt' = "message"
      \/ UNCHANGED resourceVars /\ callAt' = "plugin"
  <2>1. ConsoleOf(message'.level) \in {"stdout", "stderr", "none"}
    BY ConsoleFacts DEF Consoles
  <2> QED BY <2>1 DEF StartLog, Returns
<1> QED BY <1>2, <1>3, <1>4, <1>5

(* A write of no more than the limit does not trap.                         *)
LEMMA WritePlaced ==
  ASSUME HostPlaced, NEW l \in {"message", "newline"}, callAt = l,
         NEW n, NEW STATE what, NEW STATE size, size \in Nat,
         Write(what, size, n), UNCHANGED message,
         n = IF l = "message" THEN "newline" ELSE "drop",
         size > WriteLimit => message.size > WriteLimit
  PROVE  IInv' /\ HostPlaceInv'
<1> USE HostPlacedFacts, HostLocalsAreNames
<1>1. CASE size > WriteLimit
  <2>1. Trap
    BY <1>1 DEF Write
  <2>2. IInv'
    BY <2>1, TrapKeeps
  <2> QED BY <1>1, <2>1, <2>2 DEF Trap, HostPlaced, HostPlaceInv, HostPlace, LogTrapsHaveCause
<1>2. CASE ~(size > WriteLimit)
  <2>1. /\ OutputStream_blocking_write_and_flush("stream", "error")
        /\ \/ callAt' = "unwrap"
           \/ value'["error"] = NoValue /\ callAt' = n
    BY <1>2 DEF Write
  <2>2. IInv'
    BY <2>1, IoCallKeeps DEF IoCall
  <2>3. UNCHANGED <<abandoned, fate>> /\ (value'["error"] # NoValue \/ Goes(HostPlaceAt(n)))
    <3>1. Redrawn(HostPlaceAt(l), {}, {"stream"}, {}, "none", {}, HostPlaceAt(n))
      BY HostMoves
    <3> QED BY <2>1, <2>2, <3>1, StreamCallDraws, KindsAndFamily
               DEF OutputStream_blocking_write_and_flush
  <2> QED BY <2>1, <2>2, <2>3, HostPlaceReached
<1> QED BY <1>1, <1>2

LEMMA EndLogPlaced ==
  ASSUME HostPlaced, EndLog PROVE IInv' /\ HostPlaceInv'
<1> USE HostPlacedFacts, HostLocalsAreNames
<1>1. IInv'
  BY DropCallKeeps DEF EndLog, DropCall
<1>2. Goes(HostPlaceAt("plugin"))
  BY <1>1, HostMoves, DropDraws, KindsAndFamily DEF EndLog, DropOutputStream
<1> QED BY <1>1, <1>2, HostPlaceReached DEF EndLog, Returns

LEMMA PropertyPlaced ==
  ASSUME HostPlaced, NEW path, Property(path) PROVE IInv' /\ HostPlaceInv'
<1>1. CASE Panic("failed")
  <2>1. IInv'
    BY <1>1, PanicKeeps, HostPlacedFacts
  <2> QED BY <1>1, <2>1 DEF Property, Panic, HostPlaced, HostPlaceInv, HostPlace, LogTrapsHaveCause
<1>2. CASE UNCHANGED resourceVars /\ callAt' = "plugin"
  <2>1. UNCHANGED <<resourceVars, message, callAt>>
    BY <1>2 DEF Property
  <2> QED BY <2>1, HostPlaceStays DEF HostPlaceInv
<1> QED BY <1>1, <1>2 DEF Property, Returns

LEMMA HostNextPlace ==
  ASSUME HostPlaceInv, HostNext PROVE HostPlaceInv'
<1>1. HostPlaced
  BY DEF HostNext, HostPlaced
<1>2. CASE StartLog
  BY <1>1, <1>2, StartLogPlaced
<1>3. CASE WriteMessage
  <2>1. message.size \in Nat
    BY <1>1, HostPlacedFacts
  <2> QED BY <1>1, <1>3, <2>1, WritePlaced DEF WriteMessage
<1>4. CASE WriteNewline
  <2>1. ~(1 > WriteLimit)
    BY WriteLimitAssumption
  <2> QED BY <1>1, <1>4, <2>1, WritePlaced DEF WriteNewline
<1>5. CASE EndLog
  BY <1>1, <1>5, EndLogPlaced
<1>6. CASE UnwrapWrite
  <2>1. IInv'
    BY <1>1, <1>6, PanicKeeps, HostPlacedFacts DEF UnwrapWrite
  <2> QED BY <1>1, <1>6, <2>1 DEF UnwrapWrite, Panic, hostCallVars, HostPlaced, HostPlaceInv,
                                 HostPlace, LogTrapsHaveCause
<1>7. CASE proxy_get_log_level
  <2>1. UNCHANGED <<resourceVars, message, callAt>>
    BY <1>7 DEF proxy_get_log_level, Returns
  <2> QED BY <1>1, <2>1, HostPlaceStays
<1>8. CASE EnsureRootContext \/ GetProperty
  BY <1>1, <1>8, PropertyPlaced DEF EnsureRootContext, GetProperty
<1> QED BY <1>2, <1>3, <1>4, <1>5, <1>6, <1>7, <1>8 DEF HostNext, proxy_log

LEMMA HostInitPlace == HostInit => HostPlaceInv
<1> SUFFICES ASSUME HostInit PROVE HostPlaceInv
  OBVIOUS
<1>1. IInv
  BY DEF HostInit, IInv, Good, Values, Entries, Owners, Parents, Spent, Once, NothingStays,
         NoValue, NoEntry, Live
<1>2. Picture(HostPlaceAt("plugin"))
  BY DEF HostInit, Picture, HostPlaceAt, Logging, NoValue, ChildOf
<1> QED BY <1>1, <1>2 DEF HostInit, HostPlaceInv, HostPlace, LogTrapsHaveCause, NoMessage

-----------------------------------------------------------------------------
(* The lines on the standard streams.                                       *)
Messages == [level : PluginLevels, size : Sizes, null : BOOLEAN]

LinesTypeOK ==
  /\ logged \in Seq(Messages)
  /\ console \in [Consoles -> Seq(Messages \cup {"newline"})]

(* The lines of the first n messages l are on their streams w, with so many *)
(* further pieces after them.                                               *)
Lined(w, l, n, further) ==
  \A c \in Consoles :
    /\ Len(w[c]) = 2 * LineOf(l, c, n) + further[c]
    /\ \A i \in Due(l, c, n) :
         /\ w[c][2 * LineOf(l, c, i) - 1] = l[i]
         /\ w[c][2 * LineOf(l, c, i)] = "newline"

NoPiece == [c \in Consoles |-> 0]
PieceOn(k) == [c \in Consoles |-> IF c = k THEN 1 ELSE 0]

(* Between host calls every line is there, during one those of the messages *)
(* before. The message being written is the last one logged.                *)
LinesInv ==
  /\ LinesTypeOK
  /\ fate = "running" =>
       /\ callAt \in {"plugin", "message", "newline", "drop", "unwrap"}
       /\ callAt \in {"message", "newline"} =>
            /\ Len(logged) > 0 /\ message = logged[Len(logged)]
            /\ ConsoleOf(message.level) \in Consoles
       /\ callAt \in {"plugin", "drop"} => Lined(console, logged, Len(logged), NoPiece)
       /\ callAt = "message" => Lined(console, logged, Len(logged) - 1, NoPiece)
       /\ callAt = "newline" =>
            LET c == ConsoleOf(message.level)
            IN  /\ Lined(console, logged, Len(logged) - 1, PieceOn(c))
                /\ console[c][Len(console[c])] = message

LEMMA DueFacts ==
  ASSUME NEW l, NEW c, NEW n \in Nat
  PROVE  /\ IsFiniteSet(Due(l, c, n)) /\ LineOf(l, c, n) \in Nat
         /\ \A i \in Due(l, c, n) : LineOf(l, c, i) \in 1 .. LineOf(l, c, n)
<1>1. ASSUME NEW i \in 0 .. n
      PROVE  IsFiniteSet(Due(l, c, i)) /\ LineOf(l, c, i) \in Nat
  <2>1. IsFiniteSet(1 .. i) /\ Due(l, c, i) \in SUBSET (1 .. i)
    BY FS_Interval DEF Due
  <2> QED BY <2>1, FS_Subset, FS_CardinalityType DEF LineOf
<1>2. ASSUME NEW i \in Due(l, c, n) PROVE LineOf(l, c, i) \in 1 .. LineOf(l, c, n)
  <2>1. i \in 1 .. n /\ i \in Due(l, c, i) /\ Due(l, c, i) \in SUBSET Due(l, c, n)
    BY DEF Due
  <2>2. LineOf(l, c, i) <= LineOf(l, c, n)
    BY <1>1, <2>1, FS_Subset DEF LineOf
  <2>3. LineOf(l, c, i) # 0
    BY <1>1, <2>1, FS_EmptySet DEF LineOf
  <2> QED BY <1>1, <2>1, <2>2, <2>3
<1> QED BY <1>1, <1>2

(* One more message is one line more on the stream of its level, if any.    *)
LEMMA NextLine ==
  ASSUME NEW l, NEW c, NEW n \in Nat
  PROVE  /\ l[n + 1].level \in LevelsOf(c) =>
              /\ Due(l, c, n + 1) = Due(l, c, n) \cup {n + 1}
              /\ LineOf(l, c, n + 1) = LineOf(l, c, n) + 1
         /\ l[n + 1].level \notin LevelsOf(c) =>
              /\ Due(l, c, n + 1) = Due(l, c, n)
              /\ LineOf(l, c, n + 1) = LineOf(l, c, n)
<1>1. Due(l, c, n + 1) = IF l[n + 1].level \in LevelsOf(c)
                             THEN Due(l, c, n) \cup {n + 1} ELSE Due(l, c, n)
  BY DEF Due
<1>2. n + 1 \notin Due(l, c, n) /\ IsFiniteSet(Due(l, c, n))
  <2>1. n + 1 \notin Due(l, c, n)
    BY DEF Due
  <2> QED BY <2>1, DueFacts
<1>3. Cardinality(Due(l, c, n) \cup {n + 1}) = LineOf(l, c, n) + 1
  BY <1>2, FS_AddElement DEF LineOf
<1> QED BY <1>1, <1>3 DEF LineOf

(* What is logged later moves no line.                                      *)
LEMMA LinesStay ==
  ASSUME NEW l, NEW k, NEW n \in Nat, \A i \in 1 .. n : k[i] = l[i],
         NEW w, NEW further, Lined(w, l, n, further)
  PROVE  Lined(w, k, n, further)
<1>1. \A c, i : i \in 0 .. n => Due(k, c, i) = Due(l, c, i) /\ LineOf(k, c, i) = LineOf(l, c, i)
  BY DEF Due, LineOf
<1>2. \A c : \A i \in Due(l, c, n) : i \in 1 .. n
  BY DEF Due
<1> QED BY <1>1, <1>2 DEF Lined

(* A piece more on one stream leaves the lines that are there.              *)
LEMMA PieceKeepsLines ==
  ASSUME NEW S, NEW w \in [Consoles -> Seq(S)], NEW l, NEW n \in Nat, NEW k \in Consoles,
         NEW piece, piece \in S, Lined(w, l, n, NoPiece),
         NEW u, u = [w EXCEPT ![k] = Append(@, piece)]
  PROVE  Lined(u, l, n, PieceOn(k))
<1>1. u[k] = Append(w[k], piece) /\ \A c \in Consoles \ {k} : u[c] = w[c]
  OBVIOUS
<1>2. /\ Len(u[k]) = Len(w[k]) + 1 /\ u[k][Len(u[k])] = piece
      /\ \A i \in 1 .. Len(w[k]) : u[k][i] = w[k][i]
  BY <1>1
<1>3. ASSUME NEW c \in Consoles, NEW i \in Due(l, c, n)
      PROVE  /\ u[c][2 * LineOf(l, c, i) - 1] = w[c][2 * LineOf(l, c, i) - 1]
             /\ u[c][2 * LineOf(l, c, i)] = w[c][2 * LineOf(l, c, i)]
  <2>1. LineOf(l, c, i) \in 1 .. LineOf(l, c, n) /\ LineOf(l, c, n) \in Nat
    BY DueFacts
  <2>2. Len(w[c]) = 2 * LineOf(l, c, n)
    BY <2>1 DEF Lined, NoPiece
  <2>3. 2 * LineOf(l, c, i) \in 1 .. Len(w[c]) /\ 2 * LineOf(l, c, i) - 1 \in 1 .. Len(w[c])
    BY <2>1, <2>2
  <2> QED BY <1>1, <1>2, <2>3
<1>4. \A c \in Consoles : Len(u[c]) = 2 * LineOf(l, c, n) + PieceOn(k)[c]
  <2>1. \A c \in Consoles : Len(w[c]) = 2 * LineOf(l, c, n) /\ LineOf(l, c, n) \in Nat
    BY DueFacts DEF Lined, NoPiece
  <2> QED BY <1>1, <1>2, <2>1 DEF PieceOn
<1>5. ASSUME NEW c \in Consoles, NEW i \in Due(l, c, n)
      PROVE  /\ u[c][2 * LineOf(l, c, i) - 1] = l[i]
             /\ u[c][2 * LineOf(l, c, i)] = "newline"
  <2>1. /\ w[c][2 * LineOf(l, c, i) - 1] = l[i]
        /\ w[c][2 * LineOf(l, c, i)] = "newline"
    BY DEF Lined
  <2> QED BY <1>3, <2>1
<1> QED BY <1>4, <1>5 DEF Lined

(* A message and a newline make a line.                                     *)
LEMMA LineEnds ==
  ASSUME NEW S, NEW w \in [Consoles -> Seq(S)], NEW l, NEW n \in Nat, NEW k \in Consoles,
         Lined(w, l, n, PieceOn(k)), w[k][Len(w[k])] = l[n + 1], "newline" \in S,
         \A c \in Consoles : l[n + 1].level \in LevelsOf(c) <=> c = k,
         NEW u, u = [w EXCEPT ![k] = Append(@, "newline")]
  PROVE  Lined(u, l, n + 1, NoPiece)
<1>1. u[k] = Append(w[k], "newline") /\ \A c \in Consoles \ {k} : u[c] = w[c]
  OBVIOUS
<1>2. /\ Len(u[k]) = Len(w[k]) + 1 /\ u[k][Len(u[k])] = "newline"
      /\ \A i \in 1 .. Len(w[k]) : u[k][i] = w[k][i]
  BY <1>1
<1>3. \A c \in Consoles : LineOf(l, c, n) \in Nat
  BY DueFacts
<1>4. /\ Len(w[k]) = 2 * LineOf(l, k, n) + 1
      /\ \A c \in Consoles \ {k} : Len(w[c]) = 2 * LineOf(l, c, n)
  BY <1>3 DEF Lined, PieceOn
<1>5. ASSUME NEW c \in Consoles, NEW i \in Due(l, c, n)
      PROVE  /\ u[c][2 * LineOf(l, c, i) - 1] = l[i]
             /\ u[c][2 * LineOf(l, c, i)] = "newline"
  <2>1. LineOf(l, c, i) \in 1 .. LineOf(l, c, n) /\ LineOf(l, c, n) \in Nat
    BY DueFacts
  <2>2. 2 * LineOf(l, c, i) \in 1 .. Len(w[c]) /\ 2 * LineOf(l, c, i) - 1 \in 1 .. Len(w[c])
    <3>1. CASE c = k
      BY <1>4, <2>1, <3>1
    <3>2. CASE c # k
      BY <1>4, <2>1, <3>2
    <3> QED BY <3>1, <3>2
  <2>3. /\ w[c][2 * LineOf(l, c, i) - 1] = l[i]
        /\ w[c][2 * LineOf(l, c, i)] = "newline"
    BY DEF Lined
  <2> QED BY <1>1, <1>2, <2>2, <2>3
<1>6. ASSUME NEW c \in Consoles
      PROVE  Len(u[c]) = 2 * LineOf(l, c, n + 1) /\ LineOf(l, c, n + 1) \in Nat
  <2>1. CASE c = k
    <3>1. LineOf(l, c, n + 1) = LineOf(l, c, n) + 1
      BY <2>1, NextLine
    <3> QED BY <1>2, <1>3, <1>4, <2>1, <3>1
  <2>2. CASE c # k
    <3>1. LineOf(l, c, n + 1) = LineOf(l, c, n)
      BY <2>2, NextLine
    <3> QED BY <1>1, <1>3, <1>4, <2>2, <3>1
  <2> QED BY <2>1, <2>2
<1>7. ASSUME NEW c \in Consoles, NEW i \in Due(l, c, n + 1), i \notin Due(l, c, n)
      PROVE  /\ u[c][2 * LineOf(l, c, i) - 1] = l[i]
             /\ u[c][2 * LineOf(l, c, i)] = "newline"
  <2>1. i = n + 1 /\ c = k /\ LineOf(l, c, n + 1) = LineOf(l, c, n) + 1
    BY <1>7, NextLine
  <2>2. /\ 2 * LineOf(l, c, i) = Len(u[c]) /\ 2 * LineOf(l, c, i) - 1 = Len(w[c])
        /\ Len(w[c]) \in 1 .. Len(w[c])
    BY <1>2, <1>3, <1>4, <2>1
  <2> QED BY <1>2, <2>1, <2>2
<1>8. \A c \in Consoles : Len(u[c]) = 2 * LineOf(l, c, n + 1) + NoPiece[c]
  BY <1>6 DEF NoPiece
<1>9. ASSUME NEW c \in Consoles, NEW i \in Due(l, c, n + 1)
      PROVE  /\ u[c][2 * LineOf(l, c, i) - 1] = l[i]
             /\ u[c][2 * LineOf(l, c, i)] = "newline"
  BY <1>5, <1>7
<1> QED BY <1>8, <1>9 DEF Lined

(* A message without a console is on no line.                               *)
LEMMA NoLine ==
  ASSUME NEW w, NEW l, NEW n \in Nat, Lined(w, l, n, NoPiece),
         \A c \in Consoles : l[n + 1].level \notin LevelsOf(c)
  PROVE  Lined(w, l, n + 1, NoPiece)
<1>1. \A c \in Consoles : /\ Due(l, c, n + 1) = Due(l, c, n)
                          /\ LineOf(l, c, n + 1) = LineOf(l, c, n)
  BY NextLine
<1> QED BY <1>1 DEF Lined

LEMMA StartLogKeepsLines ==
  ASSUME LinesInv, fate = "running", StartLog PROVE LinesInv'
<1> DEFINE n == Len(logged)
<1>1. /\ callAt = "plugin" /\ message' \in Messages
      /\ logged' = Append(logged, message') /\ console' = console
  BY DEF StartLog, Messages
<1>2. /\ n \in Nat /\ logged' \in Seq(Messages) /\ Len(logged') = n + 1
      /\ logged'[n + 1] = message' /\ \A i \in 1 .. n : logged'[i] = logged[i]
  BY <1>1 DEF LinesInv, LinesTypeOK
<1>3. Lined(console, logged', n, NoPiece)
  <2>1. Lined(console, logged, n, NoPiece)
    BY <1>1 DEF LinesInv
  <2> QED BY <1>2, <2>1, LinesStay
<1>4. LinesTypeOK'
  BY <1>1, <1>2 DEF LinesInv, LinesTypeOK
<1>5. CASE message'.null /\ Trap
  BY <1>4, <1>5 DEF LinesInv, Trap
<1>6. CASE callAt' = "message" /\ ConsoleOf(message'.level) # "none"
  <2>1. ConsoleOf(message'.level) \in Consoles /\ Len(logged') - 1 = n
    BY <1>2, <1>6, ConsoleFacts
  <2> QED BY <1>1, <1>2, <1>3, <1>4, <1>6, <2>1 DEF LinesInv
<1>7. CASE callAt' = "plugin" /\ ConsoleOf(message'.level) = "none"
  <2>1. message'.level \in PluginLevels
    BY <1>1 DEF Messages
  <2>2. \A c \in Consoles : logged'[n + 1].level \notin LevelsOf(c)
    BY <1>2, <1>7, <2>1, ConsoleFacts
  <2>3. Lined(console', logged', Len(logged'), NoPiece)
    BY <1>1, <1>2, <1>3, <2>2, NoLine
  <2> QED BY <1>4, <1>7, <2>3 DEF LinesInv
<1>8. \/ message'.null /\ Trap
      \/ callAt' = "message" /\ ConsoleOf(message'.level) # "none"
      \/ callAt' = "plugin" /\ ConsoleOf(message'.level) = "none"
  <2>1. ConsoleOf(message'.level) \in {"stdout", "stderr", "none"}
    BY ConsoleFacts DEF Consoles
  <2> QED BY <2>1 DEF StartLog, Returns
<1> QED BY <1>5, <1>6, <1>7, <1>8

(* What a write does to the streams.                                        *)
LEMMA WriteFacts ==
  ASSUME NEW STATE what, NEW STATE size, NEW n, Write(what, size, n)
  PROVE  LET written == [console EXCEPT ![ConsoleOf(message.level)] = Append(@, what)]
         IN  \/ fate' = "trapped" /\ UNCHANGED console
             \/ callAt' = "unwrap" /\ console' \in {console, written}
             \/ callAt' = n /\ console' = written
  BY DEF Write, Trap

LEMMA WriteMessageKeepsLines ==
  ASSUME LinesInv, fate = "running", WriteMessage PROVE LinesInv'
<1> DEFINE n == Len(logged) - 1
           k == ConsoleOf(message.level)
           S == Messages \cup {"newline"}
           written == [console EXCEPT ![k] = Append(@, message)]
<1>1. /\ n \in Nat /\ k \in Consoles /\ message = logged[Len(logged)] /\ message \in S
      /\ Lined(console, logged, n, NoPiece) /\ console \in [Consoles -> Seq(S)]
      /\ UNCHANGED <<logged, message>>
  BY DEF WriteMessage, LinesInv, LinesTypeOK
<1>2. \/ fate' = "trapped" /\ UNCHANGED console
      \/ callAt' = "unwrap" /\ console' \in {console, written}
      \/ callAt' = "newline" /\ console' = written
  BY WriteFacts DEF WriteMessage
<1>3. Lined(written, logged, n, PieceOn(k)) /\ written[k][Len(written[k])] = message
  <2>1. /\ n \in Nat /\ k \in Consoles /\ message \in S
        /\ Lined(console, logged, n, NoPiece) /\ console \in [Consoles -> Seq(S)]
    BY <1>1
  <2> HIDE DEF n, k, S
  <2>2. \A u : u = [console EXCEPT ![k] = Append(@, message)] =>
          Lined(u, logged, n, PieceOn(k)) BY <2>1, PieceKeepsLines
  <2>3. \A u : u = [console EXCEPT ![k] = Append(@, message)] =>
          u[k][Len(u[k])] = message
    BY <2>1
  <2> QED BY <2>2, <2>3
<1>4. written \in [Consoles -> Seq(S)]
  BY <1>1
<1>5. LinesTypeOK'
  BY <1>1, <1>2, <1>4 DEF LinesInv, LinesTypeOK
<1> HIDE DEF written
<1>6. CASE fate' = "trapped"
  BY <1>5, <1>6 DEF LinesInv
<1>7. CASE callAt' = "unwrap"
  BY <1>5, <1>7 DEF LinesInv
<1>8. CASE callAt' = "newline" /\ console' = written
  <2>1. /\ Len(logged') > 0 /\ message' = logged'[Len(logged')]
        /\ ConsoleOf(message'.level) = k
    BY <1>1
  <2>2. Len(logged') - 1 = n
    BY <1>1
  <2> HIDE DEF n, k
  <2> QED BY <1>1, <1>3, <1>5, <1>8, <2>1, <2>2 DEF LinesInv
<1> QED BY <1>2, <1>6, <1>7, <1>8

LEMMA WriteNewlineKeepsLines ==
  ASSUME LinesInv, fate = "running", WriteNewline PROVE LinesInv'
<1> DEFINE n == Len(logged) - 1
           k == ConsoleOf(message.level)
           S == Messages \cup {"newline"}
           written == [console EXCEPT ![k] = Append(@, "newline")]
<1>1. /\ n \in Nat /\ n + 1 = Len(logged) /\ k \in Consoles /\ message = logged[n + 1]
      /\ message \in Messages /\ Lined(console, logged, n, PieceOn(k))
      /\ console[k][Len(console[k])] = message /\ console \in [Consoles -> Seq(S)]
      /\ UNCHANGED <<logged, message>>
  BY DEF WriteNewline, LinesInv, LinesTypeOK
<1>2. \/ fate' = "trapped" /\ UNCHANGED console
      \/ callAt' = "unwrap" /\ console' \in {console, written}
      \/ callAt' = "drop" /\ console' = written
  <2>1. Write("newline", 1, "drop")
    BY DEF WriteNewline
  <2> QED BY <2>1 DEF Write, Trap
<1>3. Lined(written, logged, n + 1, NoPiece)
  <2>1. \A c \in Consoles : logged[n + 1].level \in LevelsOf(c) <=> c = k
    BY <1>1, ConsoleFacts DEF Messages
  <2>2. "newline" \in S
    OBVIOUS
  <2>3. \A u : u = [console EXCEPT ![k] = Append(@, "newline")] =>
          Lined(u, logged, n + 1, NoPiece)
    <3> HIDE DEF n, k, S
    <3> QED BY <1>1, <2>1, <2>2, LineEnds
  <2> QED BY <2>3
<1>4. written \in [Consoles -> Seq(S)]
  BY <1>1
<1>5. LinesTypeOK'
  BY <1>1, <1>2, <1>4 DEF LinesInv, LinesTypeOK
<1> HIDE DEF written
<1>6. CASE fate' = "trapped"
  BY <1>5, <1>6 DEF LinesInv
<1>7. CASE callAt' = "unwrap"
  BY <1>5, <1>7 DEF LinesInv
<1>8. CASE callAt' = "drop" /\ console' = written
  <2>1. Lined(console', logged', Len(logged'), NoPiece)
    BY <1>1, <1>3, <1>8
  <2> QED BY <1>5, <1>8, <2>1 DEF LinesInv
<1> QED BY <1>2, <1>6, <1>7, <1>8

LEMMA HostNextLines ==
  ASSUME LinesInv, HostNext PROVE LinesInv'
<1>1. fate = "running"
  BY DEF HostNext
<1>2. CASE StartLog
  BY <1>1, <1>2, StartLogKeepsLines
<1>3. CASE WriteMessage
  BY <1>1, <1>3, WriteMessageKeepsLines
<1>4. CASE WriteNewline
  BY <1>1, <1>4, WriteNewlineKeepsLines
<1>5. CASE EndLog
  BY <1>1, <1>5 DEF EndLog, Returns, LinesInv, LinesTypeOK
<1>6. CASE UnwrapWrite
  BY <1>6 DEF UnwrapWrite, Panic, hostCallVars, LinesInv, LinesTypeOK
<1>7. ASSUME UNCHANGED <<message, logged, console>>, callAt = "plugin", callAt' = "plugin"
      PROVE  LinesInv'
  BY <1>1, <1>7 DEF LinesInv, LinesTypeOK
<1>8. CASE proxy_get_log_level
  BY <1>7, <1>8 DEF proxy_get_log_level, Returns
<1>9. CASE EnsureRootContext \/ GetProperty
  <2>1. PICK path : Property(path)
    BY <1>9 DEF EnsureRootContext, GetProperty
  <2> QED BY <1>7, <2>1 DEF Property, Returns
<1> QED BY <1>2, <1>3, <1>4, <1>5, <1>6, <1>8, <1>9 DEF HostNext, proxy_log

LEMMA HostInitLines == HostInit => LinesInv
<1> SUFFICES ASSUME HostInit PROVE LinesInv
  OBVIOUS
<1>1. \A c \in Consoles : Due(logged, c, 0) = {} /\ LineOf(logged, c, 0) = 0
  BY FS_EmptySet DEF Due, LineOf
<1>2. Lined(console, logged, 0, NoPiece)
  BY <1>1 DEF HostInit, Lined, NoPiece
<1> QED BY <1>2 DEF HostInit, LinesInv, LinesTypeOK

-----------------------------------------------------------------------------
HostInv == HostPlaceInv /\ LinesInv

LEMMA HostInitInv == HostInit => HostInv
  BY HostInitPlace, HostInitLines DEF HostInit, HostInv

LEMMA HostNextInv == HostInv /\ [HostNext]_hostVars => HostInv'
<1>1. HostInv /\ HostNext => HostInv'
  BY HostNextPlace, HostNextLines DEF HostInv
<1>2. HostInv /\ UNCHANGED hostVars => HostInv'
  BY DEF hostVars, hostCallVars, resourceVars, HostInv, HostPlaceInv, HostPlace, Picture,
         ChildOf, HandleOf, StageOf, LinesInv, LinesTypeOK, IInv, NothingStays, Live,
         LogTrapsHaveCause
<1> QED BY <1>1, <1>2

(* Between host calls nothing is left in the table.                         *)
LEMMA BetweenCallsNothing ==
  ASSUME HostInv, callAt = "plugin", fate = "running" PROVE \A h \in Handles : ~Live(h)
<1>1. Picture(HostPlaceAt("plugin")) /\ IInv
  BY DEF HostInv, HostPlaceInv, HostPlace
<1>2. \A v \in Names : value[v].kind = "none"
  BY <1>1 DEF Picture, HostPlaceAt, Logging
<1> QED BY <1>1, <1>2, OwnerFacts

LEMMA HostInvLines == HostInv => LinesAreMessages
<1> SUFFICES ASSUME HostInv, callAt = "plugin", fate = "running", NEW c \in Consoles
             PROVE  /\ Len(console[c]) = 2 * LineOf(logged, c, Len(logged))
                    /\ \A i \in Due(logged, c, Len(logged)) :
                         /\ console[c][2 * LineOf(logged, c, i) - 1] = logged[i]
                         /\ console[c][2 * LineOf(logged, c, i)] = "newline"
  BY DEF LinesAreMessages
<1>1. Lined(console, logged, Len(logged), NoPiece) /\ Len(logged) \in Nat
  BY DEF HostInv, LinesInv, LinesTypeOK
<1>2. Len(console[c]) = 2 * LineOf(logged, c, Len(logged))
  BY <1>1, DueFacts DEF Lined, NoPiece
<1> QED BY <1>1, <1>2 DEF Lined

(* Between host calls every line is whole, on its stream and in order, for  *)
(* any number and any sizes of messages (host.rs:17-37).                    *)
THEOREM LinesAreWhole == HostSpec => []LinesAreMessages
  BY HostInitInv, HostNextInv, HostInvLines, PTL DEF HostSpec

(* Nothing but a message longer than a write takes, or a null pointer,      *)
(* makes a log call trap (host.rs:26 and 31).                               *)
THEOREM LogTrapsAreCaused == HostSpec => []LogTrapsHaveCause
<1>1. HostInv => LogTrapsHaveCause
  BY DEF HostInv, HostPlaceInv
<1> QED BY <1>1, HostInitInv, HostNextInv, PTL DEF HostSpec

-----------------------------------------------------------------------------
(* The hello component returns only after its three bytes have left the     *)
(* host. That needs no more than the place in the program: from the drop of *)
(* the stream on the bytes are in the network, and no resource call returns *)
(* by itself.                                                               *)
AfterFlush == {"drop_stream", "finish", "set", "drop_request", "return"}

Sending ==
  /\ helloAt \in AfterFlush => sent = "network"
  /\ fate = "returned" => helloAt = "return"

(* A call other than Return leaves the program running, or traps or panics. *)
LEMMA CallsDoNotReturn ==
  /\ \A args : Give(args) => fate' # "returned" \/ UNCHANGED fate
  /\ \A args, out, k, p : Make(args, out, k, p) => fate' # "returned" \/ UNCHANGED fate
  /\ \A self, out, k, p : GiveOut(self, out, k, p) => UNCHANGED fate
  /\ \A v, k : Drop(v, k) => fate' # "returned" \/ UNCHANGED fate
  /\ \A self, out : StreamCall(self, out) => UNCHANGED fate
  BY DEF Give, Make, GiveOut, SpendFor, Drop, StreamCall, Spend, EndCall, Trap, resourceVars

LEMMA HandleKeepsSending ==
  ASSUME Sending, fate = "running", HelloHandle
  PROVE  Sending'
<1> USE CallsDoNotReturn DEF Sending, AfterFlush
<1>1. CASE MakeResponse
  BY <1>1 DEF MakeResponse, HelloStep, Expect, Panic, Fields_new, OutgoingResponse_new,
              OutgoingResponse_body, OutgoingBody_write
<1>2. CASE BlockingWrite
  BY <1>2 DEF BlockingWrite, resourceVars
<1>3. CASE Flushed
  BY <1>3 DEF Flushed, HelloStep, resourceVars
<1>4. CASE FinishResponse
  BY <1>4 DEF FinishResponse, HelloStep, DropOutputStream, OutgoingBody_finish
<1>5. CASE HandOver
  BY <1>5 DEF HandOver, HelloStep, ResponseOutparam_set
<1>6. CASE HelloEnd
  BY <1>6 DEF HelloEnd, HelloStep, DropIncomingRequest, Return
<1>7. CASE HelloFails
  BY <1>7 DEF HelloFails, HelloStep, Panic
<1> QED BY <1>1, <1>2, <1>3, <1>4, <1>5, <1>6, <1>7 DEF HelloHandle

LEMMA NextKeepsSending == Sending /\ [HelloNext]_helloVars => Sending'
<1> SUFFICES ASSUME Sending, [HelloNext]_helloVars PROVE Sending'
  OBVIOUS
<1>1. CASE UNCHANGED helloVars
  BY <1>1 DEF helloVars, resourceVars, Sending
<1>2. CASE fate = "running" /\ HelloHandle
  BY <1>2, HandleKeepsSending
<1>3. CASE fate = "running" /\ WriteFails
  BY <1>3, CallsDoNotReturn DEF WriteFails, HelloStep, OutputStream_blocking_write_and_flush,
                                Sending, AfterFlush
<1>4. CASE fate = "running" /\ Transmit
  BY <1>4 DEF Transmit, resourceVars, Sending
<1> QED BY <1>1, <1>2, <1>3, <1>4 DEF HelloNext

-----------------------------------------------------------------------------
(* A call that returns has sent its three bytes (src/lib.rs:18), on either  *)
(* kind of host.                                                            *)
THEOREM SentBeforeReturn == HelloSpec => []ReturnsAfterSending
<1>1. HelloInit => Sending
  BY DEF HelloInit, export_handle, Sending, AfterFlush
<1>2. Sending => ReturnsAfterSending
  BY DEF Sending, AfterFlush, ReturnsAfterSending
<1> QED BY <1>1, <1>2, NextKeepsSending, PTL DEF HelloSpec

(* A step is one of a program, or leaves the resources as they are.         *)
LEMMA HelloLocalsAreNames == \A v \in HelloLocals : v \in Names
  BY HelloLocalsAssumption

LEMMA HelloStepIsAnyStep == [HelloNext]_helloVars => [AnyStep]_resourceVars
<1> SUFFICES ASSUME HelloNext PROVE AnyStep \/ UNCHANGED resourceVars
  BY DEF helloVars
<1>1. \A v \in {"request", "out", "hdrs", "resp", "body", "stream", "error"} : v \in Names
  BY HelloLocalsAreNames DEF HelloLocals
<1>2. fate = "running"
  BY DEF HelloNext
<1>3. \A why \in {"misuse", "failed"} : Panic(why) => AnyStep
  BY <1>2 DEF AnyStep
<1> USE <1>1, <1>2, <1>3
<1>4. CASE MakeResponse
  BY <1>4 DEF MakeResponse, HelloStep, Expect, HttpCall, AnyStep
<1>5. CASE WriteFails
  BY <1>5 DEF WriteFails, HelloStep, IoCall, AnyStep
<1>6. CASE FinishResponse
  BY <1>6 DEF FinishResponse, HelloStep, HttpCall, DropCall, AnyStep
<1>7. CASE HandOver
  BY <1>7 DEF HandOver, HelloStep, HttpCall, AnyStep
<1>8. CASE HelloEnd
  BY <1>8 DEF HelloEnd, HelloStep, DropCall, AnyStep
<1>9. CASE HelloFails
  BY <1>9 DEF HelloFails, HelloStep
<1>10. CASE BlockingWrite \/ Flushed \/ Transmit
  BY <1>10 DEF BlockingWrite, Flushed, HelloStep, Transmit
<1> QED BY <1>4, <1>5, <1>6, <1>7, <1>8, <1>9, <1>10 DEF HelloNext, HelloHandle

LEMMA HelloIsProgram == HelloSpec => AnyProgram
<1>1. HelloInit => \E request, out \in Names : export_handle(request, out)
  BY HelloLocalsAreNames DEF HelloInit, HelloLocals
<1> QED BY <1>1, HelloStepIsAnyStep, PTL DEF HelloSpec, AnyProgram

(* The component owns each of its handles once, and leaves none when it     *)
(* returns: it inherits both as a program on the wrappers.                  *)
THEOREM HelloLeavesNothing == HelloSpec => [](HandlesHaveOneOwner /\ NothingStays)
  BY HelloIsProgram, HandlesAreOwnedOnce, ReturnLeavesNothing, PTL

-----------------------------------------------------------------------------
(* The resources at each place of the component, as in ProxyResourcesProofs.*)
WithStream == {"blocking_write", "and_flush", "drop_stream"}
WithBody == {"write", "finish"} \cup WithStream
WithResponse == {"body", "set"} \cup WithBody

HelloKindAt(v, l) ==
  CASE v = "request" /\ l # "return" -> "incoming-request"
    [] v = "out" /\ l \notin {"drop_request", "return"} -> "response-outparam"
    [] v = "hdrs" /\ l = "response" -> "fields"
    [] v = "resp" /\ l \in WithResponse -> "outgoing-response"
    [] v = "body" /\ l \in WithBody -> "outgoing-body"
    [] v = "stream" /\ l \in WithStream -> "output-stream"
    [] OTHER -> "none"

HelloPlaceAt(l) ==
  [own |-> [v \in Names |-> HelloKindAt(v, l)],
   kin |-> {<<"stream", "body">> : x \in {l} \cap WithStream},
   ready |-> {"resp" : x \in {l} \cap {"body"}} \cup {"body" : x \in {l} \cap {"write"}},
   unspent |-> {}]

(* Wherever the component is, the picture of the place is the state of its  *)
(* resources, and nothing was abandoned on the way.                         *)
HelloPlace == fate = "running" /\ helloAt # "error" => Picture(HelloPlaceAt(helloAt))
HelloPlaceInv ==
  /\ IInv /\ abandoned = {} /\ fate \notin {"trapped", "misuse"}
  /\ HelloPlace

HelloMoves(l, gone, spent, out, k, par, n) ==
  Redrawn(HelloPlaceAt(l), gone, spent, out, k, par, HelloPlaceAt(n))

(* From place to place: how the picture of one becomes that of the next.    *)
LEMMA MakeMoves ==
  /\ HelloMoves("fields", {}, {}, {"hdrs"}, "fields", {}, "response")
  /\ HelloMoves("response", {"hdrs"}, {}, {"resp"}, "outgoing-response", {}, "body")
  /\ HelloMoves("body", {}, {"resp"}, {"body"}, "outgoing-body", {}, "write")
  /\ HelloMoves("write", {}, {"body"}, {"stream"}, "output-stream", {"body"},
                "blocking_write")
  /\ HelloMoves("blocking_write", {}, {}, {}, "none", {}, "and_flush")
  /\ HelloMoves("and_flush", {}, {}, {}, "none", {}, "drop_stream")
  /\ "resp" \in HelloPlaceAt("body").ready /\ "body" \in HelloPlaceAt("write").ready
<1> USE HelloLocalsAreNames DEF HelloMoves, Redrawn, HelloPlaceAt, HelloKindAt,
        WithStream, WithBody, WithResponse, HelloLocals, Futures
<1>1. HelloMoves("fields", {}, {}, {"hdrs"}, "fields", {}, "response")
  OBVIOUS
<1>2. HelloMoves("response", {"hdrs"}, {}, {"resp"}, "outgoing-response", {}, "body")
  OBVIOUS
<1>3. HelloMoves("body", {}, {"resp"}, {"body"}, "outgoing-body", {}, "write")
  OBVIOUS
<1>4. HelloMoves("write", {}, {"body"}, {"stream"}, "output-stream", {"body"},
                "blocking_write")
  OBVIOUS
<1>5. /\ HelloMoves("blocking_write", {}, {}, {}, "none", {}, "and_flush")
      /\ HelloMoves("and_flush", {}, {}, {}, "none", {}, "drop_stream")
  OBVIOUS
<1>6. "resp" \in HelloPlaceAt("body").ready /\ "body" \in HelloPlaceAt("write").ready
  OBVIOUS
<1> QED BY ONLY <1>1, <1>2, <1>3, <1>4, <1>5, <1>6

LEMMA HandOverMoves ==
  /\ HelloMoves("drop_stream", {"stream"}, {}, {}, "none", {}, "finish")
  /\ HelloMoves("finish", {"body"}, {}, {}, "none", {}, "set")
  /\ HelloMoves("set", {"out", "resp"}, {}, {}, "none", {}, "drop_request")
  /\ HelloMoves("drop_request", {"request"}, {}, {}, "none", {}, "return")
<1> USE HelloLocalsAreNames DEF HelloMoves, Redrawn, HelloPlaceAt, HelloKindAt,
        WithStream, WithBody, WithResponse, HelloLocals, Futures
<1>1. HelloMoves("drop_stream", {"stream"}, {}, {}, "none", {}, "finish")
  OBVIOUS
<1>2. HelloMoves("finish", {"body"}, {}, {}, "none", {}, "set")
  OBVIOUS
<1>3. HelloMoves("set", {"out", "resp"}, {}, {}, "none", {}, "drop_request")
  OBVIOUS
<1>4. HelloMoves("drop_request", {"request"}, {}, {}, "none", {}, "return")
  OBVIOUS
<1> QED BY ONLY <1>1, <1>2, <1>3, <1>4

(* The component at a place, about to take a step.                          *)
HelloPlaced == HelloPlaceInv /\ IInv' /\ fate = "running"

LEMMA HelloPlacedFacts ==
  ASSUME HelloPlaced
  PROVE  /\ Running /\ IInv /\ IInv'
         /\ helloAt # "error" => Picture(HelloPlaceAt(helloAt))
         /\ helloAt # "error" => \A v \in HelloPlaceAt(helloAt).ready : StageOf(v) = "ready"
         /\ \A v \in {"request", "out", "hdrs", "resp", "body", "stream", "error"} : v \in Names
  BY HelloLocalsAreNames DEF HelloPlaced, HelloPlaceInv, HelloPlace, Running, Picture, HelloLocals

(* The program goes on at n with what the picture of n shows.               *)
LEMMA HelloPlaceReached ==
  ASSUME HelloPlaced, NEW n, helloAt' = n,
         \/ Goes(HelloPlaceAt(n))
         \/ n = "error" /\ UNCHANGED <<abandoned, fate>>
  PROVE  HelloPlaceInv'
<1>1. UNCHANGED <<abandoned, fate>>
  BY DEF Goes
<1>2. HelloPlace'
  <2>1. CASE n = "error"
    BY <2>1 DEF HelloPlace
  <2>2. CASE Goes(HelloPlaceAt(n))
    BY <2>2 DEF HelloPlace, Goes
  <2> QED BY <2>1, <2>2
<1> QED BY <1>1, <1>2 DEF HelloPlaced, HelloPlaceInv

(* The response is made of new headers, and each of its parts is asked for  *)
(* once: no expect() of lines 15 and 16 fails.                              *)
LEMMA MakeResponseKeeps ==
  ASSUME HelloPlaced, MakeResponse PROVE HelloPlaceInv'
<1> USE KindsAndFamily, MakeMoves, HelloPlacedFacts DEF HelloMoves
<1>1. CASE HelloStep("fields", Fields_new("hdrs"), {"response"})
  <2>1. Owning({})
    BY DEF Owning
  <2> QED BY <1>1, <2>1, RootDraws, HelloPlaceReached DEF HelloStep, Fields_new
<1>2. CASE HelloStep("response", OutgoingResponse_new("hdrs", "resp"), {"body"})
  <2>1. Owning({"hdrs"})
    BY <1>2, IsAOwning DEF HelloStep, OutgoingResponse_new
  <2> QED BY <1>2, <2>1, RootDraws, HelloPlaceReached DEF HelloStep, OutgoingResponse_new
<1>3. CASE Expect("body", "resp", OutgoingResponse_body("resp", "body"), {"write"})
  <2>1. StageOf("resp") = "ready"
    BY <1>3 DEF Expect
  <2> QED BY <1>3, <2>1, GiveOutDraws, HelloPlaceReached DEF Expect, OutgoingResponse_body
<1>4. CASE Expect("write", "body", OutgoingBody_write("body", "stream"), {"blocking_write"})
  <2>1. StageOf("body") = "ready"
    BY <1>4 DEF Expect
  <2> QED BY <1>4, <2>1, GiveChildDraws, HelloPlaceReached DEF Expect, OutgoingBody_write
<1> QED BY ONLY <1>1, <1>2, <1>3, <1>4, MakeResponse DEF MakeResponse

(* The write, which may fail, and the wait for its end.                     *)
LEMMA WriteKeeps ==
  ASSUME HelloPlaced, BlockingWrite \/ Flushed \/ WriteFails PROVE HelloPlaceInv'
<1> USE KindsAndFamily, MakeMoves, HelloPlacedFacts DEF HelloMoves
<1>1. CASE BlockingWrite
  BY <1>1, IdleDraws, HelloPlaceReached DEF BlockingWrite
<1>2. CASE Flushed
  BY <1>2, IdleDraws, HelloPlaceReached DEF Flushed, HelloStep
<1>3. CASE WriteFails
  <2>1. UNCHANGED <<abandoned, fate>> /\ helloAt' = "error"
    BY <1>3 DEF WriteFails, HelloStep, OutputStream_blocking_write_and_flush, StreamCall,
                Spend, SpendFor, resourceVars
  <2> QED BY <2>1, HelloPlaceReached
<1> QED BY ONLY <1>1, <1>2, <1>3, BlockingWrite \/ Flushed \/ WriteFails

(* The stream goes before its body, the body is finished.                   *)
LEMMA FinishResponseKeeps ==
  ASSUME HelloPlaced, FinishResponse PROVE HelloPlaceInv'
<1> USE KindsAndFamily, HandOverMoves, HelloPlacedFacts DEF HelloMoves
<1>1. CASE HelloStep("drop_stream", DropOutputStream("stream"), {"finish"})
  BY <1>1, DropDraws, HelloPlaceReached DEF HelloStep, DropOutputStream
<1>2. CASE HelloStep("finish", OutgoingBody_finish("body", {}), {"set", "error"})
  <2>1. /\ Owning({"body"}) /\ Give({"body"}) /\ Picture(HelloPlaceAt("finish"))
        /\ helloAt' \in {"set", "error"}
    <3>1. {"body"} \cup {} = {"body"}
      OBVIOUS
    <3> QED BY <1>2, <3>1, IsAOwning DEF HelloStep, OutgoingBody_finish
  <2>2. Goes(HelloPlaceAt("set"))
    BY <2>1, GiveDraws
  <2> QED BY <2>1, <2>2, HelloPlaceReached DEF Goes
<1> QED BY ONLY <1>1, <1>2, FinishResponse DEF FinishResponse

(* The outparam takes the response, the request goes last.                  *)
LEMMA HandOverKeeps ==
  ASSUME HelloPlaced, HandOver \/ HelloEnd PROVE HelloPlaceInv'
<1> USE KindsAndFamily, HandOverMoves, HelloPlacedFacts DEF HelloMoves
<1>1. CASE HandOver
  <2>1. /\ Owning({"out", "resp"}) /\ Give({"out", "resp"}) /\ Picture(HelloPlaceAt("set"))
        /\ helloAt' = "drop_request"
    <3>1. {"out"} \cup {"resp"} = {"out", "resp"}
      OBVIOUS
    <3>2. \A t \in {"out", "resp"} : Owning({t})
      BY <1>1, IsAOwning DEF HandOver, HelloStep, ResponseOutparam_set
    <3> QED BY <1>1, <3>1, <3>2 DEF HandOver, HelloStep, ResponseOutparam_set, Owning
  <2> QED BY <2>1, GiveDraws, HelloPlaceReached
<1>2. CASE HelloStep("drop_request", DropIncomingRequest("request"), {"return"})
  BY <1>2, DropDraws, HelloPlaceReached DEF HelloStep, DropIncomingRequest
<1>3. CASE HelloStep("return", Return, {"return"})
  BY <1>3 DEF HelloStep, Return, HelloPlaced, HelloPlaceInv, HelloPlace
<1> QED BY ONLY <1>1, <1>2, <1>3, HandOver \/ HelloEnd DEF HelloEnd

LEMMA HelloInitPlace == HelloInit => HelloPlaceInv
<1> SUFFICES ASSUME HelloInit PROVE HelloPlaceInv
  OBVIOUS
<1>1. "request" \in Names /\ "out" \in Names
  BY HelloLocalsAreNames DEF HelloLocals
<1>2. IInv
  BY <1>1, ExportIsGood DEF HelloInit
<1> DEFINE p == HelloPlaceAt("fields")
<1>3. /\ p.kin = {} /\ p.ready \subseteq {"request"} /\ p.unspent = {}
      /\ \A v \in Names : p.own[v] = CASE v = "request" -> "incoming-request"
                                      [] v = "out" -> "response-outparam"
                                      [] OTHER -> "none"
  BY DEF HelloPlaceAt, HelloKindAt, WithStream, WithBody, WithResponse
<1> HIDE DEF p
<1>4. Picture(p) /\ abandoned = {} /\ fate = "running"
  BY <1>1, <1>3, ExportDraws DEF HelloInit
<1> QED BY <1>2, <1>4 DEF p, HelloInit, HelloPlaceInv, HelloPlace

LEMMA HelloNextPlace == HelloPlaceInv /\ [HelloNext]_helloVars => HelloPlaceInv'
<1> SUFFICES ASSUME HelloPlaceInv, [HelloNext]_helloVars PROVE HelloPlaceInv'
  OBVIOUS
<1>1. IInv'
  BY HelloStepIsAnyStep, AnyStepKeeps DEF HelloPlaceInv
<1>2. CASE HelloNext
  <2>1. HelloPlaced
    BY <1>1, <1>2 DEF HelloPlaced, HelloNext
  <2>2. CASE HelloFails
    BY <2>1, <2>2 DEF HelloFails, HelloStep, Panic, HelloPlaced, HelloPlaceInv, HelloPlace
  <2>3. CASE Transmit
    BY <2>1, <2>3 DEF Transmit, resourceVars, HelloPlaced, HelloPlaceInv, HelloPlace,
                      Picture, ChildOf, HandleOf, StageOf
  <2> QED BY <1>2, <2>1, <2>2, <2>3, MakeResponseKeeps, WriteKeeps, FinishResponseKeeps,
             HandOverKeeps DEF HelloNext, HelloHandle
<1>3. CASE UNCHANGED helloVars
  BY <1>1, <1>3 DEF helloVars, resourceVars, HelloPlaceInv, HelloPlace, Picture, ChildOf,
                    HandleOf, StageOf
<1> QED BY <1>2, <1>3

(* Whatever the host does, the component breaks no rule of its resources    *)
(* and drops neither the outparam nor the body (src/lib.rs:9-26).           *)
THEOREM HelloKeepsRules ==
  HelloSpec => [](fate \notin {"trapped", "misuse"} /\ abandoned = {})
<1>1. HelloPlaceInv => fate \notin {"trapped", "misuse"} /\ abandoned = {}
  BY DEF HelloPlaceInv
<1> QED BY <1>1, HelloInitPlace, HelloNextPlace, PTL DEF HelloSpec

-----------------------------------------------------------------------------
(* All three.                                                               *)
ProxyRuns == program = "proxy" /\ PlaceInv /\ NoHello /\ NoHostCalls
HelloRuns == program = "hello" /\ HelloPlaceInv /\ Sending /\ NoProxy /\ NoHostCalls
HostRuns == program = "host calls" /\ HostInv /\ NoProxy /\ NoHello

ProgramInv == ProxyRuns \/ HelloRuns \/ HostRuns

LEMMA ProgramInit == MCInit => ProgramInv
<1>1. Init => PlaceInv
  BY InitPlace
<1>2. HelloInit => HelloPlaceInv /\ Sending
  BY HelloInitPlace DEF HelloInit, export_handle, Sending, AfterFlush
<1>3. HostInit => HostInv
  BY HostInitInv
<1> QED
  BY <1>1, <1>2, <1>3 DEF MCInit, ProgramInv, ProxyRuns, HelloRuns, HostRuns

LEMMA OthersStay ==
  /\ UNCHANGED proxyOnly /\ NoProxy => NoProxy'
  /\ UNCHANGED helloOnly /\ NoHello => NoHello'
  /\ UNCHANGED hostOnly /\ NoHostCalls => NoHostCalls'
  BY DEF proxyOnly, helloOnly, hostOnly, hostCallVars, NoProxy, NoHello, NoHostCalls

LEMMA ProgramNext == ProgramInv /\ [MCNext]_allVars => ProgramInv'
<1>1. /\ UNCHANGED allVars => /\ UNCHANGED <<program, proxyOnly, helloOnly, hostOnly>>
                              /\ UNCHANGED vars /\ UNCHANGED helloVars /\ UNCHANGED hostVars
  BY DEF allVars, proxyOnly, helloOnly, hostOnly, vars, helloVars, hostVars
<1>2. [MCNext]_allVars =>
        /\ UNCHANGED program
        /\ program = "proxy" => [Next]_vars /\ UNCHANGED <<helloOnly, hostOnly>>
        /\ program = "hello" => [HelloNext]_helloVars /\ UNCHANGED <<proxyOnly, hostOnly>>
        /\ program = "host calls" => [HostNext]_hostVars /\ UNCHANGED <<proxyOnly, helloOnly>>
  BY <1>1 DEF MCNext
<1>3. ProxyRuns /\ [MCNext]_allVars => ProxyRuns'
  BY <1>2, NextPlace, OthersStay DEF ProxyRuns
<1>4. HelloRuns /\ [MCNext]_allVars => HelloRuns'
  BY <1>2, HelloNextPlace, NextKeepsSending, OthersStay DEF HelloRuns
<1>5. HostRuns /\ [MCNext]_allVars => HostRuns'
  BY <1>2, HostNextInv, OthersStay DEF HostRuns
<1> QED BY <1>3, <1>4, <1>5 DEF ProgramInv

LEMMA ProgramInvariance == MCSpec => []ProgramInv
  BY ProgramInit, ProgramNext, PTL DEF MCSpec

-----------------------------------------------------------------------------
(* Neither component breaks a rule of its resources, on any host            *)
(* (proxy/lib.rs:63-227, src/lib.rs:8-30).                                  *)
THEOREM ComponentsKeepTheirRules == MCSpec => []ComponentsKeepRules
<1>1. ProgramInv => ComponentsKeepRules
  BY DEF ProgramInv, ProxyRuns, HelloRuns, HostRuns, PlaceInv, HelloPlaceInv,
         ComponentsKeepRules, RulesKept
<1> QED BY <1>1, ProgramInvariance, PTL

(* A component that returns abandoned no message, a host call that returns  *)
(* leaves no stream in the table (host.rs:17-37).                           *)
THEOREM ComponentsLeaveNothing == MCSpec => []NothingLeft
<1>1. ProxyRuns \/ HelloRuns => NothingLeft
  BY DEF ProxyRuns, HelloRuns, PlaceInv, HelloPlaceInv, NoHostCalls, NothingLeft,
         NothingAbandoned
<1>2. HostRuns => NothingLeft
  BY BetweenCallsNothing DEF HostRuns, HostInv, HostPlaceInv, NothingLeft, NothingAbandoned
<1> QED BY <1>1, <1>2, ProgramInvariance, PTL DEF ProgramInv

(* What the hello component and the host calls promise by themselves holds  *)
(* of them here: a step of the composition is one of theirs, or none.       *)
THEOREM ComponentsKeepPromises ==
  MCSpec => [](ReturnsAfterSending /\ LinesAreMessages /\ LogTrapsHaveCause)
<1>1. ProxyRuns \/ HelloRuns =>
        LinesAreMessages /\ LogTrapsHaveCause
  BY DEF ProxyRuns, HelloRuns, NoHostCalls, LinesAreMessages, LogTrapsHaveCause,
         PlaceInv, HelloPlaceInv, RulesKept
<1>2. HostRuns => LinesAreMessages /\ LogTrapsHaveCause
  BY HostInvLines DEF HostRuns, HostInv, HostPlaceInv
<1>3. ProgramInv => ReturnsAfterSending
  BY DEF ProgramInv, ProxyRuns, HelloRuns, HostRuns, NoHello, Sending, AfterFlush,
         ReturnsAfterSending
<1> QED BY <1>1, <1>2, <1>3, ProgramInvariance, PTL DEF ProgramInv
=============================================================================
