--------------------------- MODULE HelloComponent ---------------------------
(***************************************************************************)
(* The hello component (src/src/lib.rs): every request gets the three bytes *)
(* "OK\n". It writes them with blocking_write_and_flush, so it waits for    *)
(* the host before it finishes the body and hands the response over, on a   *)
(* host that may or may not move a body whose response it has not seen.     *)
(***************************************************************************)
EXTENDS WasiResources

(* The variables of `handle`, and the error of its write.                   *)
HelloLocals == {"request", "out", "hdrs", "resp", "body", "stream", "error"}

ASSUME HelloLocalsAssumption == HelloLocals \subseteq Names

VARIABLES
  helloAt,  \* the next statement, or drop
  sent,     \* where the three bytes are: "program", "host" or "network"
  eager     \* whether the host moves a body before it has the response

helloVars == <<resourceVars, helloAt, sent, eager>>

HelloInit ==
  /\ export_handle("request", "out")
  /\ helloAt = "fields"
  /\ sent = "program"
  /\ eager \in BOOLEAN

-----------------------------------------------------------------------------
HelloStep(l, A, next) ==
  /\ helloAt = l /\ A
  /\ helloAt' \in next
  /\ UNCHANGED <<sent, eager>>

(* expect() of what only a wrong order of calls makes an error.             *)
Expect(l, v, A, next) ==
  /\ helloAt = l
  /\ IF StageOf(v) = "ready" THEN A /\ helloAt' \in next
                              ELSE Panic("misuse") /\ UNCHANGED helloAt
  /\ UNCHANGED <<sent, eager>>

MakeResponse ==
  \/ HelloStep("fields", Fields_new("hdrs"), {"response"})
  \/ HelloStep("response", OutgoingResponse_new("hdrs", "resp"), {"body"})
  \/ Expect("body", "resp", OutgoingResponse_body("resp", "body"), {"write"})
  \/ Expect("write", "body", OutgoingBody_write("body", "stream"), {"blocking_write"})

BlockingWrite ==
  /\ helloAt = "blocking_write"
  /\ sent' = "host" /\ helloAt' = "and_flush"
  /\ UNCHANGED <<resourceVars, eager>>

(* Mutant: write and flush, neither of which waits, as in the proxy.        *)
FlushWithoutWaiting == HelloStep("and_flush", UNCHANGED resourceVars, {"drop_stream"})

(* The call returns when the bytes have left the host ...                   *)
Flushed ==
  /\ sent = "network"
  /\ HelloStep("and_flush", UNCHANGED resourceVars, {"drop_stream"})

(* ... or with an error of the stream, which is closed then.                *)
WriteFails ==
  HelloStep("and_flush", OutputStream_blocking_write_and_flush("stream", "error")
                      /\ table'[HandleOf("stream")].stage = "spent", {"error"})

(* Mutant: without the inner block the stream outlives the body.            *)
FinishBeforeDrop ==
  \/ HelloStep("drop_stream", OutgoingBody_finish("body", {}), {"late_drop", "error"})
  \/ HelloStep("late_drop", DropOutputStream("stream"), {"set"})

FinishResponse ==
  \/ HelloStep("drop_stream", DropOutputStream("stream"), {"finish"})
  \/ HelloStep("finish", OutgoingBody_finish("body", {}), {"set", "error"})

HandOver == HelloStep("set", ResponseOutparam_set("out", {"resp"}), {"drop_request"})

HelloEnd ==
  \/ HelloStep("drop_request", DropIncomingRequest("request"), {"return"})
  \/ HelloStep("return", Return, {"return"})

(* expect() and unwrap() of an error from the host.                         *)
HelloFails == HelloStep("error", Panic("failed"), {"error"})

HelloHandle ==
  \/ MakeResponse \/ BlockingWrite \/ Flushed \/ FinishResponse
  \/ HandOver \/ HelloEnd \/ HelloFails

(* A host that is not eager holds the body back for the response's head.    *)
Transmit ==
  /\ sent = "host"
  /\ eager \/ value["out"] = NoValue
  /\ sent' = "network"
  /\ UNCHANGED <<resourceVars, helloAt, eager>>

HelloNext == fate = "running" /\ (HelloHandle \/ WriteFails \/ Transmit)

(* The program runs on when it can, the host moves what it may move. No     *)
(* stream has to fail.                                                      *)
HelloFairness ==
  /\ WF_helloVars(fate = "running" /\ HelloHandle)
  /\ WF_helloVars(fate = "running" /\ Transmit)

HelloSpec == HelloInit /\ [][HelloNext]_helloVars /\ HelloFairness

-----------------------------------------------------------------------------
(* A call that comes to its return has its three bytes out: nothing is left *)
(* to a drop that may lose it, unlike in the proxy (lib.rs:18).             *)
ReturnsAfterSending == helloAt = "return" => sent = "network"

(* On a host that moves bodies early every call ends by itself, with an     *)
(* answer or because the host reported an error. (On any other host it      *)
(* waits for good in line 18, before the host learns of the response.)      *)
HelloAnswers == eager ~> fate \in {"returned", "failed"}
=============================================================================
