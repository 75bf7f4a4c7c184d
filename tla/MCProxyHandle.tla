--------------------------- MODULE MCProxyHandle ---------------------------
(***************************************************************************)
(* The body lengths the runs of ProxyHandle check. The windows are in the   *)
(* cfg files, smaller than the bodies, so that every wait happens.          *)
(***************************************************************************)
EXTENDS ProxyHandle

(* Both bodies longer than a window of two: several reads, several writes,  *)
(* full windows, and a handler that catches up with either peer.            *)
MCBothBodies == [d \in Dir |-> 3]

(* A request that fills all windows of ProxyWaiting.cfg (1 + 2 + 1) and a   *)
(* response longer than the window it is read through (1).                  *)
MCLongRequest == [d \in Dir |-> IF d = "request" THEN 4 ELSE 2]

(* For the run with liveness both heads have a Content-Length or neither    *)
(* has: it is looked at in Finish only, which waits for nothing.            *)
MCInit == Init /\ hasLength["request"] = hasLength["response"]
MCFairSpec == MCInit /\ [][Next]_vars /\ Fairness

(* The shortest bodies that show what a dropped stream may lose.            *)
MCOneByte == [d \in Dir |-> 1]
=============================================================================
