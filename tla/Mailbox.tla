------------------------------ MODULE Mailbox ------------------------------
(***************************************************************************)
(* What the host interface promises to the callbacks of the driver: the    *)
(* WINC1500 has one receive buffer, a message put there is handed to its   *)
(* callback exactly once, and the buffer is not written again while that   *)
(* message waits or its callback still reads from it.                      *)
(***************************************************************************)
EXTENDS Naturals

VARIABLES
  sent,        \* messages the WINC has put into the buffer
  handled,     \* messages handed to a callback
  reading      \* the last callback still reads from the buffer

vars == <<sent, handled, reading>>

Init == sent = 0 /\ handled = 0 /\ reading = FALSE

Post ==
  /\ sent = handled /\ ~reading
  /\ sent' = sent + 1
  /\ UNCHANGED <<handled, reading>>

Deliver ==
  /\ handled < sent
  /\ handled' = handled + 1
  /\ reading' \in BOOLEAN
  /\ UNCHANGED sent

Release ==
  /\ reading
  /\ reading' = FALSE
  /\ UNCHANGED <<sent, handled>>

Next == Post \/ Deliver \/ Release

Spec == Init /\ [][Next]_vars

(* Every message is delivered and its buffer released.                      *)
Liveness == WF_vars(Deliver) /\ WF_vars(Release)
=============================================================================
