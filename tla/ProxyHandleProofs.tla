------------------------- MODULE ProxyHandleProofs -------------------------
(***************************************************************************)
(* Proofs about ProxyHandle, for bodies and windows of every size.          *)
(*                                                                          *)
(* The invariants of ProxyHandle are not inductive: that a message finished *)
(* whole needs to know what each step of stream_data still owes the sink.   *)
(* IInv adds that, in four parts. The refinements of FilterStream and       *)
(* BodyRelay need Shown and Kept besides, and that the handler waits for    *)
(* good in one place needs Waits.                                           *)
(***************************************************************************)
EXTENDS ProxyHandle, TLAPS

(* Where the bytes of a message are: read, shown to the plugin, written,    *)
(* delivered, in this order; only the buffer of the current message is      *)
(* between two of these places.                                             *)
Lengths ==
  \A d \in Dir :
    /\ dlv[d] <= wr[d]
    /\ Room(d) >= 0
    /\ rd[d] <= sent[d]
    /\ sent[d] <= body[d]
    /\ sent[d] - rd[d] <= SourceWindow
    /\ rd[d] = IF d = dir THEN wr[d] + data ELSE wr[d]

(* The buffer fits what the sink was found to have room for.                *)
Buffer ==
  /\ pc \notin {"callback", "write", "panicked"} => data = 0
  /\ pc \in {"read", "callback", "write"} => permit <= Room(dir)
  /\ pc \in {"callback", "write"} => data \in 1 .. permit

(* A message that ended cleanly was sent as a whole.                        *)
SourceEnds ==
  \A d \in Dir :
    /\ srcEnd[d] = "closed" => sent[d] = body[d]
    /\ trailers[d] \in {"none", "some"} => srcEnd[d] = "closed"
    /\ srcEnd[d] = "failed" => trailers[d] = "failed"
    /\ bodyOut[d] = "finished" => /\ trailers[d] \in {"none", "some"}
                                  /\ wr[d] = body[d]

(* What the place in the program says of the exchange.                      *)
Place ==
  /\ pc \in {"flush", "drop", "trailers", "finish"} =>
       srcEnd[dir] = "closed" /\ rd[dir] = sent[dir]
  /\ pc = "finish" => trailers[dir] \in {"none", "some"}
  /\ pc \in {"create", "build", "request_headers", "send"} =>
       /\ dir = "request"
       /\ bodyOut["request"] = "none"
  /\ pc \in {"open", "source", "destination", "check", "read", "callback",
             "write", "flush", "drop", "trailers", "finish"} =>
       bodyOut[dir] = "open"
  /\ pc \in {"future", "response_headers", "set"} =>
       /\ dir = "request"
       /\ bodyOut["request"] = "finished"
  /\ pc \in {"response_headers", "set"} => future = "ok"
  /\ pc = "done" => dir = "response" /\ bodyOut["response"] = "finished"
  /\ pc # "done" => bodyOut["response"] # "finished"
  /\ pc # "panicked" => outparam = IF dir = "request" THEN "unset"
                                                      ELSE "response"
  /\ pc = "panicked" => outparam = IF dir = "request" THEN "error"
                                                      ELSE "response"
  /\ dir = "request" => bodyOut["response"] = "none"
  /\ dir = "response" => future = "ok" /\ bodyOut["request"] = "finished"

IInv == TypeOK /\ Lengths /\ Buffer /\ SourceEnds /\ Place /\ TrapHasCause

(* The steps of the handler that only move on: they leave the host alone.   *)
MoveOn == AwaitSource \/ AwaitDestination \/ ReadClosed \/ AwaitTrailers

-----------------------------------------------------------------------------
LEMMA InitInvariant == Init => IInv
<1> SUFFICES ASSUME Init PROVE IInv
  OBVIOUS
<1> USE DEF Init, Dir
<1>1. TypeOK
  <2>1. PICK m \in 0 .. MaxBody["request"], n \in 0 .. MaxBody["response"] :
          body = [d \in Dir |-> IF d = "request" THEN m ELSE n]
    OBVIOUS
  <2>2. body \in [Dir -> Nat]
    BY <2>1, MaxBodyAssumption
  <2>3. lost \in [Dir -> BOOLEAN]
    OBVIOUS
  <2> QED  BY <2>2, <2>3, SinkWindowAssumption DEF TypeOK, Pcs, Phases
<1>2. Lengths
  BY <1>1, SourceWindowAssumption, SinkWindowAssumption DEF TypeOK, Lengths, Room
<1>3. Buffer /\ SourceEnds /\ Place /\ TrapHasCause
  BY DEF Buffer, SourceEnds, Place, TrapHasCause
<1> QED  BY <1>1, <1>2, <1>3 DEF IInv

LEMMA TypeStep == ASSUME IInv, [Next]_vars PROVE TypeOK'
<1> USE SinkWindowAssumption DEF IInv, TypeOK, Pcs, Phases, Dir, Goto, Callback, Show, Denied,
      Trap, Stop, handlerVars, guestVars, headVars, srcVars, sinkVars
<1>1. CASE Handle
  <2>1. CASE CreateContexts  BY <2>1 DEF CreateContexts
  <2>2. CASE BuildRequest  BY <2>2 DEF BuildRequest
  <2>3. CASE OnRequestHeaders  BY <2>3 DEF OnRequestHeaders
  <2>4. CASE SendRequest  BY <2>4 DEF SendRequest
  <2>5. CASE SendRefused  BY <2>5 DEF SendRefused
  <2>6. CASE OpenStreams  BY <2>6 DEF OpenStreams
  <2>7. CASE MoveOn  BY <2>7 DEF MoveOn, AwaitSource, AwaitDestination, ReadClosed, AwaitTrailers
  <2>8. CASE CheckWrite  BY <2>8 DEF CheckWrite, Room, Lengths
  <2>9. CASE ReadData  BY <2>9 DEF ReadData
  <2>10. CASE ReadFailed  BY <2>10 DEF ReadFailed
  <2>11. CASE OnBody  BY <2>11 DEF OnBody
  <2>12. CASE Write  BY <2>12 DEF Write
  <2>13. CASE Flush  BY <2>13 DEF Flush
  <2>14. CASE DropStreams
    <3>1. PICK l \in BOOLEAN : lost' = [lost EXCEPT ![dir] = l]
      BY <2>14 DEF DropStreams
    <3>2. lost' \in [Dir -> BOOLEAN]  BY <3>1, Zenon
    <3> QED  BY <2>14, <3>2 DEF DropStreams
  <2>15. CASE OnTrailers  BY <2>15 DEF OnTrailers
  <2>16. CASE TrailersFailed  BY <2>16 DEF TrailersFailed
  <2>17. CASE Finish  BY <2>17 DEF Finish
  <2>18. CASE AwaitResponse  BY <2>18 DEF AwaitResponse
  <2>19. CASE OnResponseHeaders  BY <2>19 DEF OnResponseHeaders
  <2>20. CASE SetOutparam  BY <2>20 DEF SetOutparam
  <2> QED  BY <1>1, <2>1, <2>2, <2>3, <2>4, <2>5, <2>6, <2>7, <2>8, <2>9, <2>10,
              <2>11, <2>12, <2>13, <2>14, <2>15, <2>16, <2>17, <2>18, <2>19, <2>20
           DEF Handle, StreamData, MoveOn
<1>2. CASE Environment
  <2>1. CASE UpstreamAnswers  BY <2>1 DEF UpstreamAnswers
  <2>2. ASSUME NEW d \in Dir, PeerSend(d) PROVE TypeOK'  BY <2>2 DEF PeerSend
  <2>3. ASSUME NEW d \in Dir, PeerEndBody(d) PROVE TypeOK'  BY <2>3 DEF PeerEndBody
  <2>4. ASSUME NEW d \in Dir, PeerEndMessage(d) PROVE TypeOK'  BY <2>4 DEF PeerEndMessage
  <2>5. ASSUME NEW d \in Dir, PeerAbort(d) PROVE TypeOK'  BY <2>5 DEF PeerAbort
  <2>6. ASSUME NEW d \in Dir, PeerReceive(d) PROVE TypeOK'  BY <2>6 DEF PeerReceive
  <2>7. ASSUME NEW d \in Dir, PeerCloseSink(d) PROVE TypeOK'  BY <2>7 DEF PeerCloseSink
  <2> QED  BY <1>2, <2>1, <2>2, <2>3, <2>4, <2>5, <2>6, <2>7 DEF Environment
<1>3. CASE UNCHANGED vars  BY <1>3 DEF vars
<1> QED  BY <1>1, <1>2, <1>3 DEF Next, Terminated

LEMMA LengthsStep == ASSUME IInv, [Next]_vars PROVE Lengths'
<1> USE SourceWindowAssumption, SinkWindowAssumption DEF IInv, TypeOK, Lengths, Room, Dir, Goto
<1>1. CASE ReadData  BY <1>1 DEF ReadData, Buffer, sinkVars, headVars
<1>2. CASE Write /\ WriteAccepted(dir)  BY <1>2 DEF Write, WriteAccepted, Buffer,
      Trap, Stop, srcVars, headVars
<1>3. CASE SetOutparam  BY <1>3 DEF SetOutparam, Buffer, srcVars, headVars
<1>4. ASSUME NEW d \in Dir, PeerSend(d) PROVE Lengths'
  BY <1>4 DEF PeerSend, handlerVars, headVars, sinkVars
<1>5. ASSUME NEW d \in Dir, PeerReceive(d) PROVE Lengths'
  BY <1>5 DEF PeerReceive, handlerVars, headVars, srcVars
<1>6. CASE UNCHANGED <<dir, data, body, sent, rd, wr, dlv>>  BY <1>6
<1> QED
  BY <1>1, <1>2, <1>3, <1>4, <1>5, <1>6
  DEF Next, Handle, StreamData, Environment, Terminated, vars, handlerVars, headVars, srcVars,
      sinkVars, Trap, Stop, Denied, Callback, CreateContexts, BuildRequest, OnRequestHeaders,
      SendRequest, SendRefused, OpenStreams, AwaitSource, AwaitDestination, CheckWrite, ReadClosed,
      ReadFailed,
      OnBody, Write, Flush, DropStreams, AwaitTrailers, OnTrailers, TrailersFailed,
      Finish, AwaitResponse, OnResponseHeaders, UpstreamAnswers, PeerEndBody,
      PeerEndMessage, PeerAbort, PeerCloseSink

LEMMA BufferStep == ASSUME IInv, [Next]_vars PROVE Buffer'
<1> USE SinkWindowAssumption DEF IInv, TypeOK, Buffer, Room, Dir, Goto
<1>1. CASE CheckWrite  BY <1>1 DEF CheckWrite, Trap, Stop, sinkVars
<1>2. CASE ReadData  BY <1>2 DEF ReadData, sinkVars
<1>3. CASE OnBody  BY <1>3 DEF OnBody, Callback, Denied, Stop, sinkVars
<1>4. CASE Write  BY <1>4 DEF Write, Trap, Stop
<1>5. ASSUME NEW d \in Dir, PeerReceive(d) PROVE Buffer'
  BY <1>5 DEF PeerReceive, handlerVars
<1>6. CASE UNCHANGED <<pc, dir, permit, data, wr, dlv>>  BY <1>6
<1>7. CASE data' = data /\ data = 0 /\ pc' \notin {"read", "callback", "write"}  BY <1>7
<1>8. CASE data' = data /\ pc' = "panicked"  BY <1>8
<1> QED
  BY <1>1, <1>2, <1>3, <1>4, <1>5, <1>6, <1>7, <1>8
  DEF Next, Handle, StreamData, Environment, Terminated, vars, handlerVars, sinkVars, Trap, Stop,
      Denied, Callback, CreateContexts, BuildRequest, OnRequestHeaders, SendRequest, SendRefused,
      OpenStreams, AwaitSource, AwaitDestination, ReadClosed, ReadFailed, Flush, DropStreams,
      AwaitTrailers, OnTrailers, TrailersFailed, Finish, AwaitResponse,
      OnResponseHeaders, SetOutparam, UpstreamAnswers, PeerSend, PeerEndBody,
      PeerEndMessage, PeerAbort, PeerCloseSink

LEMMA SourceEndsStep == ASSUME IInv, [Next]_vars PROVE SourceEnds'
<1> USE DEF IInv, TypeOK, SourceEnds, Dir, Goto
<1>1. CASE Stop /\ UNCHANGED body  BY <1>1 DEF Stop, srcVars
<1>2. CASE SendRequest \/ SendRefused \/ SetOutparam
  BY <1>2 DEF SendRequest, SendRefused, SetOutparam, headVars, srcVars
<1>3. CASE Write /\ WriteAccepted(dir)
  BY <1>3 DEF Write, WriteAccepted, Place, headVars, srcVars
<1>4. CASE Finish /\ LengthMatches(dir)
  BY <1>4 DEF Finish, Place, Lengths, Buffer, headVars, srcVars
<1>5. ASSUME NEW d \in Dir, PeerSend(d) PROVE SourceEnds'
  BY <1>5 DEF PeerSend, headVars, sinkVars
<1>6. ASSUME NEW d \in Dir, PeerEndBody(d) \/ PeerEndMessage(d) \/ PeerAbort(d)
      PROVE SourceEnds'
  BY <1>6 DEF PeerEndBody, PeerEndMessage, PeerAbort, headVars, sinkVars
<1>7. CASE UNCHANGED <<srcEnd, sent, body, trailers, bodyOut, wr>>  BY <1>7
<1> QED
  BY <1>1, <1>2, <1>3, <1>4, <1>5, <1>6, <1>7
  DEF Next, Handle, StreamData, Environment, Terminated, vars, headVars, srcVars, sinkVars,
      Trap, Denied, Callback, CreateContexts, BuildRequest, OnRequestHeaders, OpenStreams,
      AwaitSource, AwaitDestination, CheckWrite, ReadData, ReadClosed, ReadFailed, OnBody,
       Write, Flush,
      DropStreams, AwaitTrailers, OnTrailers, TrailersFailed, Finish, AwaitResponse,
      OnResponseHeaders, UpstreamAnswers, PeerReceive, PeerCloseSink

LEMMA PlaceStep == ASSUME IInv, [Next]_vars PROVE Place'
<1> USE DEF IInv, TypeOK, Place, Dir, Goto
<1>1. CASE Stop /\ pc # "done"
  BY <1>1 DEF Stop, srcVars
<1>2. CASE CreateContexts \/ OnRequestHeaders \/ (BuildRequest /\ HasTarget)
  BY <1>2, <1>1 DEF CreateContexts, OnRequestHeaders, BuildRequest, HasTarget, Callback, Denied,
                    srcVars, sinkVars
<1>3. CASE SendRequest \/ SendRefused
  BY <1>3 DEF SendRequest, SendRefused
<1>4. CASE OpenStreams \/ MoveOn
  BY <1>4 DEF OpenStreams, MoveOn, AwaitSource, AwaitDestination, ReadClosed, AwaitTrailers,
              srcVars, sinkVars
<1>5. CASE ReadData \/ OnBody
  BY <1>5, <1>1 DEF ReadData, OnBody, Callback, Denied, srcVars, sinkVars
<1>6. CASE CheckWrite  BY <1>6, <1>1 DEF CheckWrite, Trap, srcVars, sinkVars
<1>7. CASE Write  BY <1>7, <1>1 DEF Write, Trap, srcVars
<1>8. CASE Flush  BY <1>8, <1>1 DEF Flush, Trap, srcVars, sinkVars
<1>9. CASE DropStreams \/ OnTrailers
  BY <1>9, <1>1 DEF DropStreams, OnTrailers, Callback, Denied, srcVars, sinkVars
<1>10. CASE Finish  BY <1>10, <1>1 DEF Finish, Trap, srcVars
<1>11. CASE AwaitResponse  BY <1>11, <1>1 DEF AwaitResponse, Trap, srcVars, sinkVars
<1>12. CASE OnResponseHeaders
  BY <1>12, <1>1 DEF OnResponseHeaders, Callback, Denied, srcVars, sinkVars
<1>13. CASE SetOutparam  BY <1>13 DEF SetOutparam, srcVars
<1>14. CASE UpstreamAnswers  BY <1>14 DEF UpstreamAnswers, handlerVars, sinkVars
<1>15. ASSUME NEW d \in Dir, PeerSend(d) \/ PeerEndBody(d) \/ PeerEndMessage(d) \/ PeerAbort(d)
       PROVE Place'
  <2>1. CASE PeerSend(d)  BY <2>1 DEF PeerSend, handlerVars, sinkVars
  <2>2. CASE PeerEndBody(d)  BY <2>2 DEF PeerEndBody, handlerVars, sinkVars
  <2>3. CASE PeerEndMessage(d)  BY <2>3 DEF PeerEndMessage, handlerVars, sinkVars
  <2>4. CASE PeerAbort(d)  BY <2>4 DEF PeerAbort, handlerVars, sinkVars
  <2> QED  BY <1>15, <2>1, <2>2, <2>3, <2>4
<1>16. CASE UNCHANGED <<handlerVars, srcVars, bodyOut>>
  BY <1>16 DEF handlerVars, srcVars
<1>17. CASE BuildRequest \/ ReadFailed \/ TrailersFailed
  BY <1>17, <1>1, <1>2 DEF BuildRequest, HasTarget, ReadFailed, TrailersFailed, Trap
<1>18. CASE Handle
  BY <1>18, <1>2, <1>3, <1>4, <1>5, <1>6, <1>7, <1>8, <1>9, <1>10, <1>11, <1>12, <1>13, <1>17
  DEF Handle, StreamData, MoveOn
<1>19. CASE Environment
  BY <1>19, <1>14, <1>15, <1>16 DEF Environment, PeerReceive, PeerCloseSink
<1> QED
  BY <1>16, <1>18, <1>19 DEF Next, Terminated, vars, sinkVars

LEMMA TrapHasCauseStep == ASSUME IInv, [Next]_vars PROVE TrapHasCause'
<1> USE DEF IInv, TypeOK, TrapHasCause, Dir, Goto
<1>1. CASE BuildRequest  BY <1>1 DEF BuildRequest, HasTarget, Trap, headVars
<1>2. CASE SendRefused  BY <1>2 DEF SendRefused
<1>3. CASE CheckWrite \/ Flush
  BY <1>3 DEF CheckWrite, Flush, Trap, Stop
<1>4. CASE ReadFailed  BY <1>4 DEF ReadFailed, Trap, Stop, SourceEnds, srcVars
<1>5. CASE Write  BY <1>5 DEF Write, WriteAccepted, Buffer, Trap, Stop
<1>6. CASE TrailersFailed  BY <1>6 DEF TrailersFailed, Trap, Stop, srcVars
<1>7. CASE Finish
  BY <1>7 DEF Finish, LengthMatches, Place, Lengths, Buffer, SourceEnds, Trap, Stop
<1>8. CASE AwaitResponse  BY <1>8 DEF AwaitResponse, Trap, Stop, srcVars
<1>9. CASE Environment \/ UNCHANGED vars
  BY <1>9 DEF Environment, UpstreamAnswers, PeerSend, PeerEndBody, PeerEndMessage, PeerAbort,
              PeerReceive, PeerCloseSink, vars, handlerVars, headVars, srcVars, sinkVars
<1>10. CASE Denied("status") \/ Denied("host_call")
  BY <1>10 DEF Denied
<1>11. CASE pc' # "panicked"  BY <1>11
<1> QED
  BY <1>1, <1>2, <1>3, <1>4, <1>5, <1>6, <1>7, <1>8, <1>9, <1>10, <1>11
  DEF Next, Handle, StreamData, Terminated, CreateContexts, OnRequestHeaders, SendRequest,
      OpenStreams, AwaitSource, AwaitDestination, ReadData, ReadClosed, OnBody, DropStreams,
      AwaitTrailers, OnTrailers, OnResponseHeaders, SetOutparam, Callback

-----------------------------------------------------------------------------
LEMMA IInvStep == IInv /\ [Next]_vars => IInv'
  BY TypeStep, LengthsStep, BufferStep, SourceEndsStep, PlaceStep, TrapHasCauseStep DEF IInv

LEMMA Invariance == Spec => []IInv
<1>1. IInv /\ [Next]_vars => IInv'
  BY IInvStep
<1> QED
  BY InitInvariant, <1>1, PTL DEF Spec

(* ProxyHandle never leaves its types, the host's windows included: what    *)
(* check_write allows and what the handler holds stay within SinkWindow.    *)
THEOREM TypeCorrect == Spec => []TypeOK
<1>1. IInv => TypeOK
  BY DEF IInv
<1> QED
  BY Invariance, <1>1, PTL

(* A message that the handler finishes was sent as a whole and written as a *)
(* whole, whatever the lengths, the windows and the interleaving with peers.*)
THEOREM FinishedMessagesAreWhole == Spec => []CleanEndIsWhole
<1>1. IInv => CleanEndIsWhole
  BY DEF IInv, SourceEnds, CleanEndIsWhole
<1> QED
  BY Invariance, <1>1, PTL

(* No write exceeds what the host has room for when it happens, and the     *)
(* handler holds exactly one buffer of one message.                         *)
THEOREM WritesFit == Spec => []WritesWithinPermit
<1>1. IInv => WritesWithinPermit
  BY DEF IInv, TypeOK, Lengths, Buffer, WritesWithinPermit, Room, Dir
<1> QED
  BY Invariance, <1>1, PTL

(* Every trap of the handler has one of the causes TrapHasCause names, in   *)
(* the callbacks' host calls and the unwrap()s of every statement of handle *)
(* included: what a step found ready, permitted or whole is still so when   *)
(* the next one relies on it.                                               *)
THEOREM TrapsAreCaused == Spec => []TrapHasCause
<1>1. IInv => TrapHasCause
  BY DEF IInv
<1> QED
  BY Invariance, <1>1, PTL

(* The client is told exactly once how its request ended, and truly.        *)
THEOREM AnswersAgree == Spec => []AnswerAgrees
<1>1. IInv => AnswerAgrees
  BY DEF IInv, TypeOK, Place, AnswerAgrees, Ended, Dir
<1> QED
  BY Invariance, <1>1, PTL

-----------------------------------------------------------------------------
(* ProxyHandle implements the two specifications of what it promises:       *)
(* FilterStream to the plugin, and, if the host keeps what it accepted,     *)
(* BodyRelay to the peers.                                                  *)
Streaming == {"open", "source", "destination", "check", "read", "callback",
              "write", "flush", "drop", "trailers"}

(* What the plugin was shown at each place of the program: every byte that  *)
(* was read, but for the buffer it is about to see, and the trailers, if    *)
(* there are any, before finish.                                            *)
Shown ==
  /\ \A d \in Dir : announced[d] = IF d = dir /\ pc = "callback" THEN wr[d] ELSE rd[d]
  /\ pc \in {"create", "build", "request_headers"} => phase["request"] = "none"
  /\ pc \in {"create", "build", "request_headers", "send"} => future = "none"
  /\ pc = "send" => phase["request"] = "headers"
  /\ pc \in Streaming => phase[dir] \in {"headers", "body"}
  /\ pc \in Streaming \cup {"finish", "future"} => future \in {"pending", "ok", "error"}
  /\ pc = "finish" /\ trailers[dir] = "some" => phase[dir] = "trailers"
  /\ dir = "request" /\ pc \notin {"set", "panicked"} => phase["response"] = "none"
  /\ pc = "set" => phase["response"] = "headers"

(* What a broken sender and a kept stream look like.                        *)
Kept ==
  \A d \in Dir : /\ trailers[d] = "failed" => srcEnd[d] # "open"
                 /\ lost[d] => DropLosesData

-----------------------------------------------------------------------------
LEMMA ShownInit == Init => Shown /\ Kept
  BY DEF Init, Shown, Kept, Streaming, Dir

LEMMA ShownStep == ASSUME IInv, Shown, [Next]_vars PROVE Shown'
<1> USE DEF IInv, TypeOK, Shown, Streaming, Dir, Goto
<1>1. CASE Trap /\ pc \notin {"callback", "set", "done"}
  BY <1>1 DEF Trap, Stop, guestVars, srcVars
<1>2. CASE CreateContexts \/ (BuildRequest /\ HasTarget)
  BY <1>2 DEF CreateContexts, BuildRequest, HasTarget, Callback, Denied, Stop,
           guestVars, srcVars, sinkVars
<1>3. CASE OnRequestHeaders \/ OnResponseHeaders
  BY <1>3 DEF OnRequestHeaders, OnResponseHeaders, Callback, Denied, Stop, Show,
           Place, guestVars, srcVars, sinkVars
<1>4. CASE SendRequest \/ SendRefused
  BY <1>4 DEF SendRequest, SendRefused, Place, guestVars
<1>5. CASE OpenStreams \/ MoveOn
  BY <1>5 DEF OpenStreams, MoveOn, AwaitSource, AwaitDestination, ReadClosed, AwaitTrailers,
              guestVars, srcVars, sinkVars
<1>6. CASE ReadData
  BY <1>6 DEF ReadData, Lengths, Buffer, guestVars, sinkVars
<1>7. CASE OnBody
  BY <1>7 DEF OnBody, Callback, Denied, Stop, Show, Lengths, srcVars, sinkVars
<1>8. CASE CheckWrite  BY <1>8, <1>1 DEF CheckWrite, guestVars, srcVars, sinkVars
<1>9. CASE Write  BY <1>9, <1>1 DEF Write, guestVars, srcVars
<1>10. CASE Flush  BY <1>10, <1>1 DEF Flush, guestVars, srcVars, sinkVars
<1>11. CASE DropStreams  BY <1>11 DEF DropStreams, guestVars, srcVars
<1>12. CASE OnTrailers
  BY <1>12 DEF OnTrailers, Callback, Denied, Stop, Show, srcVars, sinkVars
<1>13. CASE Finish  BY <1>13, <1>1 DEF Finish, guestVars, srcVars
<1>14. CASE AwaitResponse  BY <1>14, <1>1 DEF AwaitResponse, guestVars, srcVars, sinkVars
<1>15. CASE SetOutparam
  BY <1>15 DEF SetOutparam, Place, guestVars, srcVars
<1>16. CASE BuildRequest \/ ReadFailed \/ TrailersFailed
  BY <1>16, <1>1, <1>2 DEF BuildRequest, ReadFailed, TrailersFailed
<1>17. CASE Environment
  BY <1>17 DEF Place, Environment, UpstreamAnswers, PeerSend, PeerEndBody, PeerEndMessage,
           PeerAbort,
               PeerReceive, PeerCloseSink, handlerVars, guestVars, srcVars, sinkVars
<1>18. CASE UNCHANGED vars
  BY <1>18 DEF vars, handlerVars, guestVars, srcVars, sinkVars
<1> QED
  BY <1>2, <1>3, <1>4, <1>5, <1>6, <1>7, <1>8, <1>9, <1>10, <1>11, <1>12, <1>13, <1>14,
     <1>15, <1>16, <1>17, <1>18
  DEF Next, Handle, StreamData, MoveOn, Terminated

LEMMA KeptStep == ASSUME IInv, Kept, [Next]_vars PROVE Kept'
<1> USE DEF IInv, TypeOK, Kept, Dir
<1>1. ASSUME NEW d \in Dir, PeerEndBody(d) \/ PeerEndMessage(d) \/ PeerAbort(d) PROVE Kept'
  BY <1>1 DEF PeerEndBody, PeerEndMessage, PeerAbort, sinkVars
<1>2. CASE DropStreams
  BY <1>2 DEF DropStreams, srcVars
<1>3. CASE UNCHANGED <<trailers, srcEnd, lost>>
  BY <1>3
<1> QED
  BY <1>1, <1>2, <1>3
  DEF Next, Handle, StreamData, Environment, Terminated, vars, srcVars, sinkVars, Trap, Stop,
      Denied, Callback,
      CreateContexts, BuildRequest, OnRequestHeaders, SendRequest, SendRefused, OpenStreams,
      AwaitSource, AwaitDestination, CheckWrite, ReadData, ReadClosed, ReadFailed, OnBody,
      Write, Flush, AwaitTrailers, OnTrailers, TrailersFailed, Finish, AwaitResponse,
      OnResponseHeaders, SetOutparam, UpstreamAnswers, PeerSend, PeerReceive, PeerCloseSink

LEMMA ShownInvariance == Spec => [](IInv /\ Shown /\ Kept)
<1>1. IInv /\ Shown /\ Kept /\ [Next]_vars => (IInv /\ Shown /\ Kept)'
  BY IInvStep, ShownStep, KeptStep
<1>2. Init => IInv /\ Shown /\ Kept
  BY InitInvariant, ShownInit
<1> QED
  BY <1>1, <1>2, PTL DEF Spec

-----------------------------------------------------------------------------
(* Waiting. What stream_data was told, that its source or its sink is       *)
(* ready, still holds when it acts on it; nothing of the response is        *)
(* written, and no stream is dropped, before its time.                      *)
Waits ==
  /\ pc \in {"destination", "check", "read"} => SourceReady(dir)
  /\ pc = "check" => SinkReady(dir)
  /\ pc = "read" => permit > 0
  /\ pc \in {"create", "build", "request_headers", "send", "open", "source",
             "destination", "check", "read", "callback", "write", "flush", "drop"} => ~lost[dir]
  /\ dir = "request" => wr["response"] = 0 /\ ~lost["response"]

LEMMA WaitsInit == Init => Waits
  BY DEF Init, Waits, Dir

LEMMA WaitsStep == ASSUME IInv, Waits, [Next]_vars PROVE Waits'
<1> USE DEF IInv, TypeOK, Waits, Dir, Goto, SourceReady, SinkReady
<1>1. CASE Stop
  BY <1>1 DEF Stop
<1>2. CASE CreateContexts \/ OnRequestHeaders \/ (BuildRequest /\ HasTarget)
  BY <1>2, <1>1 DEF CreateContexts, OnRequestHeaders, BuildRequest, HasTarget, Callback, Denied,
                    sinkVars
<1>3. CASE SendRequest \/ SendRefused \/ OpenStreams
  BY <1>3 DEF SendRequest, SendRefused, OpenStreams
<1>4. CASE AwaitSource
  BY <1>4 DEF AwaitSource, srcVars, sinkVars
<1>5. CASE AwaitDestination
  BY <1>5 DEF AwaitDestination, Room, srcVars, sinkVars
<1>6. CASE CheckWrite
  BY <1>6, <1>1 DEF CheckWrite, Trap, Room, srcVars, sinkVars
<1>7. CASE ReadData \/ ReadClosed \/ OnBody
  BY <1>7, <1>1 DEF ReadData, ReadClosed, OnBody, Callback, Denied, sinkVars
<1>8. CASE Write
  BY <1>8, <1>1 DEF Write, Trap
<1>9. CASE Flush
  BY <1>9, <1>1 DEF Flush, Trap, sinkVars
<1>10. CASE DropStreams
  BY <1>10 DEF DropStreams
<1>11. CASE AwaitTrailers \/ OnTrailers
  BY <1>11, <1>1 DEF AwaitTrailers, OnTrailers, Callback, Denied, sinkVars
<1>12. CASE Finish
  BY <1>12, <1>1 DEF Finish, Trap
<1>13. CASE AwaitResponse \/ OnResponseHeaders
  BY <1>13, <1>1 DEF AwaitResponse, OnResponseHeaders, Callback, Denied, Trap, sinkVars
<1>14. CASE SetOutparam
  BY <1>14 DEF SetOutparam, Place
<1>15. CASE BuildRequest \/ ReadFailed \/ TrailersFailed
  BY <1>15, <1>1, <1>2 DEF BuildRequest, HasTarget, ReadFailed, TrailersFailed, Trap
<1>16. CASE UpstreamAnswers
  BY <1>16 DEF UpstreamAnswers, Room, handlerVars, sinkVars
<1>17. ASSUME NEW d \in Dir, PeerSend(d) \/ PeerEndBody(d) \/ PeerEndMessage(d) \/ PeerAbort(d)
       PROVE Waits'
  <2>1. CASE PeerSend(d)  BY <2>1 DEF PeerSend, Room, handlerVars, sinkVars
  <2>2. CASE PeerEndBody(d)  BY <2>2 DEF PeerEndBody, Room, handlerVars, sinkVars
  <2>3. CASE PeerEndMessage(d)  BY <2>3 DEF PeerEndMessage, Room, handlerVars, sinkVars
  <2>4. CASE PeerAbort(d)  BY <2>4 DEF PeerAbort, Room, handlerVars, sinkVars
  <2> QED  BY <1>17, <2>1, <2>2, <2>3, <2>4
<1>18. ASSUME NEW d \in Dir, PeerReceive(d) \/ PeerCloseSink(d)  PROVE Waits'
  <2>1. CASE PeerReceive(d)
    <3>1. \A e \in Dir : dlv'[e] \in Nat /\ dlv[e] <= dlv'[e]
      BY <2>1 DEF PeerReceive
    <3>2. UNCHANGED <<pc, dir, permit, rd, sent, srcEnd, wr, sinkEnd, lost>>
      BY <2>1 DEF PeerReceive, handlerVars, srcVars
    <3>3. dir \in Dir /\ wr[dir] \in Nat /\ dlv[dir] \in Nat /\ SinkWindow \in Nat
      BY SinkWindowAssumption
    <3>4. Room(dir) > 0 => Room(dir)' > 0
      BY <3>1, <3>2, <3>3 DEF Room
    <3>5. pc' = "check" => SinkReady(dir)'
      BY <3>2, <3>4
    <3> QED  BY <3>2, <3>5
  <2>2. CASE PeerCloseSink(d)  BY <2>2 DEF PeerCloseSink, Room, handlerVars, srcVars
  <2> QED  BY <1>18, <2>1, <2>2
<1>19. CASE UNCHANGED vars
  BY <1>19 DEF vars, handlerVars, srcVars, sinkVars, Room
<1> QED
  BY <1>2, <1>3, <1>4, <1>5, <1>6, <1>7, <1>8, <1>9, <1>10, <1>11, <1>12, <1>13, <1>14,
     <1>15, <1>16, <1>17, <1>18, <1>19
  DEF Next, Handle, StreamData, Environment, Terminated

(* A sender whose bytes are all read can send, or end its body.             *)
LEMMA SenderMoves ==
  ASSUME IInv, NEW d \in Dir, Started(d), srcEnd[d] = "open", sent[d] - rd[d] < SourceWindow
  PROVE  PeersReady
<1>1. sent[d] = body[d] \/ sent[d] < body[d]
  BY DEF IInv, TypeOK, Lengths
<1> QED
  BY <1>1 DEF PeersReady

(* The upstream that holds the request back has filled the window of its    *)
(* response.                                                                *)
LEMMA SinkBlocks ==
  ASSUME IInv, Shown, Waits, pc = "destination", ~SinkReady(dir), ~PeersReady
  PROVE  CircularWait
<1> USE DEF IInv, TypeOK, Dir
<1>1. sinkEnd[dir] = "open" /\ Room(dir) = 0 /\ dlv[dir] < wr[dir] /\ ~lost[dir]
  BY SinkWindowAssumption DEF SinkReady, Room, Lengths, Waits
<1>2. dir = "request" /\ ~UpstreamReads
  BY <1>1 DEF PeersReady
<1>3. future = "ok" /\ srcEnd["response"] = "open"
  BY <1>2 DEF PeersReady, Shown, Streaming, UpstreamReads
<1>4. rd["response"] = 0
  BY <1>2 DEF Waits, Lengths
<1>5. ~(sent["response"] - rd["response"] < SourceWindow)
  BY <1>3, SenderMoves DEF Started
<1>6. sent["response"] = SourceWindow
  BY <1>4, <1>5, SourceWindowAssumption DEF Lengths
<1>7. sent["response"] < body["response"]
  <2>1. sent["response"] # body["response"]
    BY <1>3 DEF PeersReady, Started
  <2> QED  BY <2>1 DEF Lengths
<1> QED
  BY <1>1, <1>2, <1>6, <1>7 DEF CircularWait

(* The handler waits for good in the circular wait alone: wherever else it  *)
(* blocks, on the source, the destination, the trailers or the future, a    *)
(* fair step of a peer can be taken.                                        *)
THEOREM WaitsAreCircular == Spec => []WaitsOnlyInCircularWait
<1>1. ASSUME IInv, Shown, Waits, ~Ended, ~HandlerReady, ~PeersReady  PROVE CircularWait
  <2> USE DEF IInv, TypeOK, Dir
  <2>1. pc \in {"source", "destination", "check", "read", "trailers", "future"}
    BY <1>1 DEF HandlerReady, Pcs, Ended
  <2>2. CASE pc = "source"
    <3>1. srcEnd[dir] = "open" /\ sent[dir] - rd[dir] < SourceWindow
      BY <1>1, <2>2, SourceWindowAssumption DEF HandlerReady, SourceReady, Lengths
    <3>2. Started(dir)
      BY <1>1 DEF Started, Place
    <3> QED  BY <1>1, <3>1, <3>2, SenderMoves
  <2>3. CASE pc = "destination"
    BY <1>1, <2>3, SinkBlocks DEF HandlerReady
  <2>4. CASE pc = "check"
    BY <1>1, <2>4 DEF HandlerReady, Waits
  <2>5. CASE pc = "read"
    BY <1>1, <2>5 DEF HandlerReady, Waits, SourceReady, Lengths
  <2>6. CASE pc = "trailers"
    BY <1>1, <2>6 DEF HandlerReady, Place, PeersReady
  <2>7. CASE pc = "future"
    BY <1>1, <2>7 DEF HandlerReady, Shown, PeersReady
  <2> QED  BY <2>1, <2>2, <2>3, <2>4, <2>5, <2>6, <2>7
<1>2. IInv /\ Shown /\ Waits => WaitsOnlyInCircularWait
  BY <1>1 DEF WaitsOnlyInCircularWait
<1>3. IInv /\ Waits /\ [Next]_vars => Waits'
  BY WaitsStep
<1> QED
  BY ShownInvariance, WaitsInit, <1>2, <1>3, PTL DEF Spec

(* An upstream sends nothing of its response before it answers.             *)
Answered == future # "ok" => sent["response"] = 0

LEMMA AnsweredStep == ASSUME IInv, Shown, Answered, [Next]_vars PROVE Answered'
<1> USE DEF IInv, TypeOK, Answered, Dir
<1>1. CASE SendRequest \/ SendRefused
  BY <1>1 DEF SendRequest, SendRefused, Shown
<1>2. CASE UpstreamAnswers
  BY <1>2 DEF UpstreamAnswers
<1>3. ASSUME NEW d \in Dir, PeerSend(d) PROVE Answered'
  BY <1>3 DEF PeerSend, Started
<1>4. CASE UNCHANGED <<future, sent>>
  BY <1>4
<1> QED
  BY <1>1, <1>2, <1>3, <1>4
  DEF Next, Handle, StreamData, Environment, Terminated, vars, srcVars, sinkVars, Trap, Stop,
      Denied, Callback, CreateContexts, BuildRequest, OnRequestHeaders, OpenStreams, AwaitSource,
      AwaitDestination, CheckWrite, ReadData, ReadClosed, ReadFailed, OnBody, Write, Flush,
      DropStreams, AwaitTrailers, OnTrailers, TrailersFailed, Finish, AwaitResponse,
      OnResponseHeaders, SetOutparam, PeerEndBody, PeerEndMessage, PeerAbort, PeerReceive,
      PeerCloseSink

(* Once the handler and its peers wait for each other, nothing they may     *)
(* still do resolves it but a broken connection: the upstream has nothing   *)
(* to send into its full window, and reads on only after sending.           *)
THEOREM CircularWaitIsForGood == Spec => CircularWaitLasts
<1> DEFINE Stays == \/ CircularWait'
                    \/ sinkEnd'["request"] = "closed"
                    \/ srcEnd'["response"] = "failed"
<1>1. ASSUME IInv, Waits, Answered, [Next]_vars, CircularWait  PROVE Stays
  <2> USE DEF IInv, TypeOK, Dir, CircularWait, Room, UpstreamReads
  <2>1. /\ future = "ok" /\ rd["response"] = 0
        /\ srcEnd["response"] = "open"
        /\ ~(dlv["request"] < sent["response"] + EchoWindow)
    BY <1>1, SourceWindowAssumption DEF Answered, Waits, Lengths
  <2>2. CASE UNCHANGED <<pc, dir, future, sent, srcEnd, body, wr, dlv>>
    BY <1>1, <2>2
  <2>3. CASE Handle
    <3>1. AwaitDestination
      BY <1>1, <2>3 DEF Handle, StreamData, CreateContexts, BuildRequest, OnRequestHeaders,
        SendRequest, SendRefused, OpenStreams, AwaitSource, CheckWrite, ReadData, ReadClosed,
        ReadFailed, OnBody, Write, Flush, DropStreams, AwaitTrailers, OnTrailers, TrailersFailed,
        Finish, AwaitResponse, OnResponseHeaders, SetOutparam
    <3> QED  BY <1>1, <3>1 DEF AwaitDestination, SinkReady, sinkVars
  <2>4. CASE Environment
    <3>1. ASSUME NEW d \in Dir, PeerSend(d)  PROVE Stays
      <4>1. d = "request"
        BY <1>1, <2>1, <3>1, SourceWindowAssumption DEF PeerSend
      <4> QED  BY <1>1, <3>1, <4>1 DEF PeerSend, handlerVars, headVars, sinkVars
    <3>2. ASSUME NEW d \in Dir, PeerEndBody(d)  PROVE Stays
      <4>1. d = "request"
        BY <1>1, <3>2 DEF PeerEndBody
      <4> QED  BY <1>1, <3>2, <4>1 DEF PeerEndBody, handlerVars, headVars, sinkVars
    <3>3. ASSUME NEW d \in Dir, PeerEndMessage(d)  PROVE Stays
      BY <1>1, <2>2, <3>3 DEF PeerEndMessage, handlerVars, headVars, sinkVars
    <3>4. ASSUME NEW d \in Dir, PeerAbort(d)  PROVE Stays
      BY <1>1, <2>1, <3>4 DEF PeerAbort, handlerVars, headVars, sinkVars
    <3>5. ASSUME NEW d \in Dir, PeerReceive(d)  PROVE Stays
      <4>1. d = "response"
        BY <1>1, <3>5 DEF PeerReceive
      <4> QED  BY <1>1, <3>5, <4>1 DEF PeerReceive, handlerVars, headVars, srcVars
    <3>6. ASSUME NEW d \in Dir, PeerCloseSink(d)  PROVE Stays
      BY <1>1, <2>1, <3>6 DEF PeerCloseSink, handlerVars, headVars, srcVars
    <3>7. CASE UpstreamAnswers
      BY <2>1, <3>7 DEF UpstreamAnswers
    <3> QED  BY <2>4, <3>1, <3>2, <3>3, <3>4, <3>5, <3>6, <3>7 DEF Environment
  <2> QED
    BY <1>1, <2>2, <2>3, <2>4 DEF Next, Terminated, vars, handlerVars, headVars, srcVars, sinkVars
<1>2. IInv /\ Waits /\ Answered /\ [Next]_vars => [CircularWait => Stays]_vars
  BY <1>1
<1>3. IInv /\ Waits /\ [Next]_vars => Waits'
  BY WaitsStep
<1>4. IInv /\ Shown /\ Answered /\ [Next]_vars => Answered'
  BY AnsweredStep
<1>5. Init => Answered
  BY DEF Init, Answered, Dir
<1> QED
  BY ShownInvariance, WaitsInit, <1>2, <1>3, <1>4, <1>5, PTL DEF Spec, CircularWaitLasts

-----------------------------------------------------------------------------
(* Each step of ProxyHandle is a step of FilterStream, or none, for either  *)
(* message.                                                                 *)
LEMMA RequestFiltered ==
  ASSUME IInv, Shown, [Next]_vars
  PROVE  [RequestFilter!Next]_(RequestFilter!vars)
<1> USE DEF IInv, TypeOK, Shown, Streaming, Place, Dir, Goto, RequestFilter!vars
<1>1. CASE Trap  BY <1>1 DEF Trap, Stop, guestVars, srcVars
<1>2. CASE OnRequestHeaders
  BY <1>2 DEF OnRequestHeaders, Callback, Denied, Stop, Show, srcVars, sinkVars,
              RequestFilter!Next, RequestFilter!OnHeaders
<1>3. CASE OnResponseHeaders
  BY <1>3 DEF OnResponseHeaders, Callback, Denied, Stop, Show, guestVars, srcVars, sinkVars
<1>4. CASE SendRequest
  BY <1>4 DEF SendRequest, guestVars, RequestFilter!Next, RequestFilter!ForwardHead
<1>5. CASE SendRefused
  BY <1>5 DEF SendRefused, guestVars
<1>6. CASE OnBody
  <2>1. CASE dir = "request"
    BY <1>6, <2>1 DEF OnBody, Callback, Denied, Stop, Show, Buffer, srcVars, sinkVars,
                      RequestFilter!Next, RequestFilter!OnBody
  <2>2. CASE dir = "response"
    BY <1>6, <2>2 DEF OnBody, Callback, Denied, Stop, Show, srcVars, sinkVars
  <2> QED  BY <2>1, <2>2
<1>7. CASE Write /\ WriteAccepted(dir)
  <2>1. CASE dir = "request"
    BY <1>7, <2>1 DEF Write, WriteAccepted, Buffer, Lengths, guestVars, srcVars,
                      RequestFilter!Next, RequestFilter!ForwardBody
  <2>2. CASE dir = "response"
    BY <1>7, <2>2 DEF Write, WriteAccepted, guestVars, srcVars
  <2> QED  BY <2>1, <2>2
<1>8. CASE OnTrailers
  <2>1. CASE dir = "request"
    BY <1>8, <2>1 DEF OnTrailers, Callback, Denied, Stop, Show, Buffer, Lengths, srcVars, sinkVars,
                      RequestFilter!Next, RequestFilter!OnTrailers
  <2>2. CASE dir = "response"
    BY <1>8, <2>2 DEF OnTrailers, Callback, Denied, Stop, Show, srcVars, sinkVars
  <2> QED  BY <2>1, <2>2
<1>9. CASE Finish /\ LengthMatches(dir)
  <2>1. CASE dir = "request"
    BY <1>9, <2>1 DEF Finish, Buffer, Lengths, guestVars, srcVars,
                      RequestFilter!Next, RequestFilter!Close
  <2>2. CASE dir = "response"
    BY <1>9, <2>2 DEF Finish, guestVars, srcVars
  <2> QED  BY <2>1, <2>2
<1>10. CASE SetOutparam  BY <1>10 DEF SetOutparam, guestVars, srcVars
<1>11. CASE UpstreamAnswers  BY <1>11 DEF UpstreamAnswers, guestVars, sinkVars
<1>12. ASSUME NEW d \in Dir, PeerEndMessage(d) \/ PeerAbort(d)
       PROVE  [RequestFilter!Next]_(RequestFilter!vars)
  BY <1>12 DEF PeerEndMessage, PeerAbort, guestVars, sinkVars,
               RequestFilter!Next, RequestFilter!End
<1>13. CASE UNCHANGED <<guestVars, future, wr, trailers, bodyOut>>  BY <1>13 DEF guestVars
<1>14. CASE CreateContexts
  BY <1>14 DEF CreateContexts, Callback, Denied, Stop, guestVars, srcVars, sinkVars
<1> QED
  BY <1>1, <1>2, <1>3, <1>4, <1>5, <1>6, <1>7, <1>8, <1>9, <1>10, <1>11, <1>12, <1>13, <1>14
  DEF Next, Handle, StreamData, Environment, Terminated, vars, srcVars, sinkVars,
      BuildRequest, OpenStreams, AwaitSource, AwaitDestination, CheckWrite,
      ReadData, ReadClosed, ReadFailed, Write, Flush, DropStreams, AwaitTrailers,
      TrailersFailed, Finish, AwaitResponse, PeerSend, PeerEndBody,
      PeerReceive, PeerCloseSink

LEMMA ResponseFiltered ==
  ASSUME IInv, Shown, [Next]_vars
  PROVE  [ResponseFilter!Next]_(ResponseFilter!vars)
<1> USE DEF IInv, TypeOK, Shown, Streaming, Place, Dir, Goto, ResponseFilter!vars
<1>1. CASE Trap  BY <1>1 DEF Trap, Stop, guestVars, srcVars
<1>2. CASE OnRequestHeaders
  BY <1>2 DEF OnRequestHeaders, Callback, Denied, Stop, Show, srcVars, sinkVars
<1>3. CASE OnResponseHeaders
  BY <1>3 DEF OnResponseHeaders, Callback, Denied, Stop, Show, guestVars, srcVars, sinkVars,
              ResponseFilter!Next, ResponseFilter!OnHeaders
<1>4. CASE SendRequest \/ SendRefused
  BY <1>4 DEF SendRequest, SendRefused, guestVars
<1>5. CASE SetOutparam
  BY <1>5 DEF SetOutparam, guestVars, srcVars,
              ResponseFilter!Next, ResponseFilter!ForwardHead
<1>6. CASE OnBody
  <2>1. CASE dir = "response"
    BY <1>6, <2>1 DEF OnBody, Callback, Denied, Stop, Show, Buffer, srcVars, sinkVars,
                      ResponseFilter!Next, ResponseFilter!OnBody
  <2>2. CASE dir = "request"
    BY <1>6, <2>2 DEF OnBody, Callback, Denied, Stop, Show, srcVars, sinkVars
  <2> QED  BY <2>1, <2>2
<1>7. CASE Write /\ WriteAccepted(dir)
  <2>1. CASE dir = "response"
    BY <1>7, <2>1 DEF Write, WriteAccepted, Buffer, Lengths, guestVars, srcVars,
                      ResponseFilter!Next, ResponseFilter!ForwardBody
  <2>2. CASE dir = "request"
    BY <1>7, <2>2 DEF Write, WriteAccepted, guestVars, srcVars
  <2> QED  BY <2>1, <2>2
<1>8. CASE OnTrailers
  <2>1. CASE dir = "response"
    BY <1>8, <2>1 DEF OnTrailers, Callback, Denied, Stop, Show, Buffer, Lengths, srcVars, sinkVars,
                      ResponseFilter!Next, ResponseFilter!OnTrailers
  <2>2. CASE dir = "request"
    BY <1>8, <2>2 DEF OnTrailers, Callback, Denied, Stop, Show, srcVars, sinkVars
  <2> QED  BY <2>1, <2>2
<1>9. CASE Finish /\ LengthMatches(dir)
  <2>1. CASE dir = "response"
    BY <1>9, <2>1 DEF Finish, Buffer, Lengths, guestVars, srcVars,
                      ResponseFilter!Next, ResponseFilter!Close
  <2>2. CASE dir = "request"
    BY <1>9, <2>2 DEF Finish, guestVars, srcVars
  <2> QED  BY <2>1, <2>2
<1>10. ASSUME NEW d \in Dir, PeerEndMessage(d) \/ PeerAbort(d)
       PROVE  [ResponseFilter!Next]_(ResponseFilter!vars)
  BY <1>10 DEF PeerEndMessage, PeerAbort, handlerVars, guestVars, sinkVars,
               ResponseFilter!Next, ResponseFilter!End
<1>11. CASE UNCHANGED <<outparam, guestVars, wr, trailers, bodyOut>>  BY <1>11 DEF guestVars
<1>12. CASE CreateContexts
  BY <1>12 DEF CreateContexts, Callback, Denied, Stop, guestVars, srcVars, sinkVars
<1> QED
  BY <1>1, <1>2, <1>3, <1>4, <1>5, <1>6, <1>7, <1>8, <1>9, <1>10, <1>11, <1>12
  DEF Next, Handle, StreamData, Environment, Terminated, vars, handlerVars, srcVars, sinkVars,
      BuildRequest, OpenStreams, AwaitSource, AwaitDestination, CheckWrite,
      ReadData, ReadClosed, ReadFailed, Write, Flush, DropStreams, AwaitTrailers,
      TrailersFailed, Finish, AwaitResponse, UpstreamAnswers, PeerSend, PeerEndBody,
      PeerReceive, PeerCloseSink

(* The plugin is shown each message in order, each part before it goes on,  *)
(* and the trailers of every message that has some before it is finished,   *)
(* in every exchange (lines 76-85, 136, 158-169, 182, 208-221).             *)
THEOREM PluginSeesFirst == Spec => FiltersMessages
<1>1. Init => RequestFilter!Init /\ ResponseFilter!Init
  BY DEF Init, RequestFilter!Init, ResponseFilter!Init, Dir
<1>2. IInv /\ Shown /\ Kept /\ [Next]_vars =>
        /\ [RequestFilter!Next]_(RequestFilter!vars)
        /\ [ResponseFilter!Next]_(ResponseFilter!vars)
  BY RequestFiltered, ResponseFiltered
<1> QED
  BY <1>1, <1>2, ShownInvariance, PTL
  DEF Spec, FiltersMessages, RequestFilter!Spec, ResponseFilter!Spec

-----------------------------------------------------------------------------
(* BodyRelay, for a message d: what its peers see of each step. The two     *)
(* instances of BodyRelay differ in d only.                                 *)
RelaySend(d) ==
  /\ RelayEnded(d) = "no" /\ sent'[d] = sent[d] + 1
  /\ RelayEnded(d)' = RelayEnded(d) /\ dlv'[d] = dlv[d] /\ RelayOutcome(d)' = RelayOutcome(d)
RelayEnd(d) ==
  /\ RelayEnded(d) = "no" /\ RelayEnded(d)' \in {"clean", "broken"}
  /\ sent'[d] = sent[d] /\ dlv'[d] = dlv[d] /\ RelayOutcome(d)' = RelayOutcome(d)
RelayDeliver(d) ==
  /\ RelayOutcome(d) # "complete" /\ dlv[d] < sent[d] /\ dlv'[d] = dlv[d] + 1
  /\ sent'[d] = sent[d] /\ RelayEnded(d)' = RelayEnded(d) /\ RelayOutcome(d)' = RelayOutcome(d)
RelayComplete(d) ==
  /\ RelayOutcome(d) = "open" /\ RelayEnded(d) = "clean"
  /\ dlv'[d] \in {dlv[d], dlv[d] + 1} /\ dlv'[d] = sent[d]
  /\ RelayOutcome(d)' = "complete"
  /\ sent'[d] = sent[d] /\ RelayEnded(d)' = RelayEnded(d)
RelayBreak(d) ==
  /\ RelayOutcome(d) = "open" /\ RelayOutcome(d)' = "broken"
  /\ sent'[d] = sent[d] /\ RelayEnded(d)' = RelayEnded(d) /\ dlv'[d] = dlv[d]
RelayStutter(d) ==
  /\ sent'[d] = sent[d] /\ dlv'[d] = dlv[d]
  /\ RelayEnded(d)' = RelayEnded(d) /\ RelayOutcome(d)' = RelayOutcome(d)
RelayStep(d) ==
  RelaySend(d) \/ RelayEnd(d) \/ RelayDeliver(d) \/ RelayComplete(d) \/ RelayBreak(d)
  \/ RelayStutter(d)

LEMMA Relayed ==
  ASSUME IInv, Kept, ~DropLosesData, [Next]_vars, NEW d \in Dir
  PROVE  RelayStep(d)
<1> USE DEF IInv, TypeOK, Kept, Dir, Goto, RelayEnded, RelayOutcome, Complete
<1>1. CASE Stop
  BY <1>1 DEF Stop, srcVars, RelayStep, RelayBreak, RelayStutter
<1>2. CASE SendRequest \/ SendRefused \/ SetOutparam
  BY <1>2 DEF SendRequest, SendRefused, SetOutparam, Place, srcVars,
              RelayStep, RelayBreak, RelayStutter
<1>3. CASE Write /\ WriteAccepted(dir)
  BY <1>3 DEF Write, WriteAccepted, Place, srcVars, RelayStep, RelayStutter
<1>4. CASE DropStreams
  BY <1>4 DEF DropStreams, srcVars, RelayStep, RelayStutter
<1>5. CASE Finish /\ LengthMatches(dir)
  <2>1. /\ UNCHANGED <<sent, trailers, sinkEnd, dlv, wr, lost>>
        /\ bodyOut' = [bodyOut EXCEPT ![dir] = "finished"]
        /\ bodyOut[dir] = "open"
        /\ trailers[dir] \in {"none", "some"}
        /\ wr[dir] = sent[dir]
    BY <1>5 DEF Finish, Place, Lengths, Buffer, srcVars
  <2>2. CASE d = dir /\ sinkEnd[d] = "open" /\ dlv[d] = wr[d]
    BY <2>1, <2>2 DEF RelayStep, RelayComplete
  <2>3. CASE ~(d = dir /\ sinkEnd[d] = "open" /\ dlv[d] = wr[d])
    <3>1. ~lost[d] /\ ~lost'[d]
      BY <2>1
    <3>2. RelayOutcome(d)' = RelayOutcome(d)
      <4>1. CASE d # dir
        BY <2>1, <4>1
      <4>2. CASE sinkEnd[d] = "closed"
        BY <2>1, <4>2
      <4>3. CASE d = dir /\ sinkEnd[d] = "open" /\ dlv[d] # wr[d]
        BY <2>1, <3>1, <4>3
      <4> QED
        BY <2>3, <4>1, <4>2, <4>3
    <3> HIDE DEF RelayOutcome
    <3> QED
      BY <2>1, <3>2 DEF RelayStep, RelayStutter
  <2> QED
    BY <2>2, <2>3
<1>6. ASSUME NEW e \in Dir, PeerSend(e) PROVE RelayStep(d)
  BY <1>6 DEF PeerSend, SourceEnds, sinkVars, RelayStep, RelaySend, RelayStutter
<1>7. ASSUME NEW e \in Dir, PeerEndMessage(e) \/ PeerAbort(e) PROVE RelayStep(d)
  BY <1>7 DEF PeerEndMessage, PeerAbort, SourceEnds, sinkVars, RelayStep, RelayEnd, RelayStutter
<1>8. ASSUME NEW e \in Dir, PeerReceive(e) PROVE RelayStep(d)
  <2>1. /\ UNCHANGED <<sent, trailers, sinkEnd, bodyOut, wr, lost>>
        /\ dlv' = [dlv EXCEPT ![e] = @ + 1]
        /\ sinkEnd[e] = "open" /\ ~lost[e] /\ dlv[e] < wr[e] /\ wr[e] <= sent[e]
    BY <1>8 DEF PeerReceive, Lengths, Buffer, srcVars
  <2>2. CASE e # d
    BY <2>1, <2>2 DEF RelayStep, RelayStutter
  <2>3. CASE e = d /\ bodyOut[d] = "finished" /\ dlv'[d] = wr[d]
    <3>1. sent[d] = wr[d] /\ trailers[d] \in {"none", "some"}
      BY <2>3 DEF SourceEnds
    <3> QED
      BY <2>1, <2>3, <3>1 DEF RelayStep, RelayComplete
  <2>4. CASE e = d /\ ~(bodyOut[d] = "finished" /\ dlv'[d] = wr[d])
    BY <2>1, <2>4 DEF RelayStep, RelayDeliver
  <2> QED
    BY <2>2, <2>3, <2>4
<1>9. ASSUME NEW e \in Dir, PeerCloseSink(e) PROVE RelayStep(d)
  BY <1>9 DEF PeerCloseSink, srcVars, RelayStep, RelayBreak, RelayStutter
<1>10. CASE UNCHANGED <<sent, trailers, dlv, sinkEnd, bodyOut, wr, lost>>
  BY <1>10 DEF RelayStep, RelayStutter
<1> QED
  BY <1>1, <1>2, <1>3, <1>4, <1>5, <1>6, <1>7, <1>8, <1>9, <1>10
  DEF Next, Handle, StreamData, Environment, Terminated, vars, srcVars, sinkVars, Trap,
      Denied, Callback,
      CreateContexts, BuildRequest, OnRequestHeaders, OpenStreams, AwaitSource,
      AwaitDestination, CheckWrite, ReadData, ReadClosed, ReadFailed, OnBody, Write, Flush,
      AwaitTrailers, OnTrailers, TrailersFailed, Finish, AwaitResponse, OnResponseHeaders,
      UpstreamAnswers, PeerEndBody

(* If the host keeps what a dropped stream accepted, a receiver gets a      *)
(* prefix of what was sent, and a message ends as complete for it only when *)
(* it is whole: all else reaches it as broken.                              *)
THEOREM PeersSeeWholeMessages == ASSUME ~DropLosesData PROVE Spec => RelaysBodies
<1>1. Init => RequestRelay!Init /\ ResponseRelay!Init
  BY DEF Init, RequestRelay!Init, ResponseRelay!Init, RelayEnded, RelayOutcome, Complete, Dir
<1>2. IInv /\ Shown /\ Kept /\ [Next]_vars =>
        /\ [RequestRelay!Next]_(RequestRelay!vars)
        /\ [ResponseRelay!Next]_(ResponseRelay!vars)
  <2> SUFFICES ASSUME IInv, Kept, [Next]_vars
               PROVE  /\ [RequestRelay!Next]_(RequestRelay!vars)
                      /\ [ResponseRelay!Next]_(ResponseRelay!vars)
    OBVIOUS
  <2>1. RelayStep("request") /\ RelayStep("response")
    BY Relayed DEF Dir
  <2> USE DEF RelayStep, RelaySend, RelayEnd, RelayDeliver, RelayComplete, RelayBreak, RelayStutter
  <2>2. [RequestRelay!Next]_(RequestRelay!vars)
    BY <2>1 DEF RequestRelay!Next, RequestRelay!vars, RequestRelay!Send, RequestRelay!End,
                RequestRelay!Deliver, RequestRelay!Complete, RequestRelay!Break
  <2>3. [ResponseRelay!Next]_(ResponseRelay!vars)
    BY <2>1 DEF ResponseRelay!Next, ResponseRelay!vars, ResponseRelay!Send, ResponseRelay!End,
                ResponseRelay!Deliver, ResponseRelay!Complete, ResponseRelay!Break
  <2> QED
    BY <2>2, <2>3
<1> QED
  BY <1>1, <1>2, ShownInvariance, PTL
  DEF Spec, RelaysBodies, RequestRelay!Spec, ResponseRelay!Spec
=============================================================================
