------------------------------- MODULE HifMC -------------------------------
(***************************************************************************)
(* Hif for TLC, with a history variable: whether a bus error has hit an    *)
(* access after which the receiving side may stop for good, one that comes *)
(* after bit 0 of CTRL_0 was cleared.                                      *)
(***************************************************************************)
EXTENDS Hif

VARIABLE spoiled

mcVars == <<vars, spoiled>>

spoils == spoiled' = (spoiled \/ (busErrors' # busErrors /\ pc \notin {"status", "clear"}))

MCInit == Init /\ spoiled = FALSE

MCNext == Next /\ spoils

MCSpec ==
  /\ MCInit /\ [][MCNext]_mcVars
  /\ WF_mcVars(pinIsr /\ spoils)
  /\ WF_mcVars(hif_handle_isr /\ spoils)

(* As long as the bus errors, any number of them, hit only the accesses     *)
(* that leave the message in place (the reading and the clearing of CTRL_0, *)
(* m2m_hif.c:433-455), every message is delivered to its callback and its   *)
(* buffer released: the loop of hif_handle_isr, the counting of interrupts  *)
(* and RX done never leave chip and host waiting for each other.            *)
DeliversEveryMessage == <>spoiled \/ Box!Liveness
=============================================================================
