---------------------------- MODULE FilterStream ----------------------------
(***************************************************************************)
(* What a proxy-wasm host promises the plugin about one message: callbacks  *)
(* come in the order of the message's parts (headers, body, trailers), and  *)
(* no part goes on to the peer before the plugin was shown it. A message    *)
(* goes on as a whole only when it is known whether it has trailers, and if *)
(* it has, after the plugin has seen them.                                  *)
(***************************************************************************)
EXTENDS Integers

VARIABLES
  phase,      \* the last kind of callback
  announced,  \* body bytes the plugin was told of
  head,       \* the head went on to the peer
  forwarded,  \* body bytes that went on to the peer
  trailers,   \* of the sender: "pending", "none", "some" or "failed"
  closed      \* the message went on as a whole, trailers included

vars == <<phase, announced, head, forwarded, trailers, closed>>

Init == /\ phase = "none"
        /\ announced = 0
        /\ head = FALSE
        /\ forwarded = 0
        /\ trailers = "pending"
        /\ closed = FALSE

OnHeaders == /\ phase = "none"
             /\ phase' = "headers"
             /\ UNCHANGED <<announced, head, forwarded, trailers, closed>>

ForwardHead == /\ phase = "headers"
               /\ head' = TRUE
               /\ UNCHANGED <<phase, announced, forwarded, trailers, closed>>

OnBody == /\ phase \in {"headers", "body"}
          /\ ~closed
          /\ phase' = "body"
          /\ announced' > announced
          /\ UNCHANGED <<head, forwarded, trailers, closed>>

ForwardBody == /\ head
               /\ ~closed
               /\ forwarded' > forwarded
               /\ forwarded' <= announced
               /\ UNCHANGED <<phase, announced, head, trailers, closed>>

(* The sender ends its message, or breaks off.                              *)
End == /\ trailers = "pending"
       /\ trailers' \in {"none", "some", "failed"}
       /\ UNCHANGED <<phase, announced, head, forwarded, closed>>

OnTrailers == /\ phase \in {"headers", "body"}
              /\ trailers = "some"
              /\ forwarded = announced
              /\ ~closed
              /\ phase' = "trailers"
              /\ UNCHANGED <<announced, head, forwarded, trailers, closed>>

Close == /\ head
         /\ forwarded = announced
         /\ \/ trailers = "none"
            \/ trailers = "some" /\ phase = "trailers"
         /\ closed' = TRUE
         /\ UNCHANGED <<phase, announced, head, forwarded, trailers>>

Next == \/ OnHeaders \/ ForwardHead \/ OnBody \/ ForwardBody
        \/ End \/ OnTrailers \/ Close

Spec == Init /\ [][Next]_vars
=============================================================================
