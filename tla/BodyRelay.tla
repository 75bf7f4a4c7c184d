----------------------------- MODULE BodyRelay -----------------------------
(***************************************************************************)
(* What an HTTP relay promises about one message: the receiver gets a       *)
(* prefix of what the sender sent, in order, and is told the message is     *)
(* complete only when the sender ended it properly and every byte of it     *)
(* arrived. Anything else reaches the receiver as a broken message.         *)
(***************************************************************************)
EXTENDS Integers

VARIABLES
  sent,     \* bytes the sender has sent
  ended,    \* how the sender ended the message: "no", "clean", "broken"
  got,      \* bytes the receiver got
  outcome   \* what the receiver knows: "open", "complete", "broken"

vars == <<sent, ended, got, outcome>>

Init == /\ sent = 0
        /\ ended = "no"
        /\ got = 0
        /\ outcome = "open"

Send == /\ ended = "no"
        /\ sent' = sent + 1
        /\ UNCHANGED <<ended, got, outcome>>

End == /\ ended = "no"
       /\ ended' \in {"clean", "broken"}
       /\ UNCHANGED <<sent, got, outcome>>

(* The receiver gets a byte.                                                *)
Deliver == /\ outcome # "complete"
           /\ got < sent
           /\ got' = got + 1
           /\ UNCHANGED <<sent, ended, outcome>>

(* The receiver learns that the message is over, maybe with its last byte.  *)
Complete == /\ outcome = "open"
            /\ ended = "clean"
            /\ got' \in {got, got + 1}
            /\ got' = sent
            /\ outcome' = "complete"
            /\ UNCHANGED <<sent, ended>>

Break == /\ outcome = "open"
         /\ outcome' = "broken"
         /\ UNCHANGED <<sent, ended, got>>

Next == Send \/ End \/ Deliver \/ Complete \/ Break

Spec == Init /\ [][Next]_vars
=============================================================================
