-------------------------------- MODULE Hif --------------------------------
(***************************************************************************)
(* The receiving side of the host interface (winc/driver/source/m2m_hif.c) *)
(* with the pin interrupt of winc/bsp/source/nm_bsp_mega.c and the         *)
(* WINC1500 at the other end of the bus.  Three agents interleave:         *)
(*   the chip  puts a message into its only receive buffer once the host   *)
(*             has set "RX done", raises CTRL_0 bit 0, pulls the pin low;  *)
(*   the ISR   counts the falling edges of the pin in u8Interrupt;         *)
(*   the host  runs hif_handle_isr from the main loop.                     *)
(* Each bus transaction of the host and each half of a read-modify-write   *)
(* of u8Interrupt is a step of its own.                                    *)
(*                                                                         *)
(* Faults names the bus transactions that may fail, MaxBusErrors says how  *)
(* often; Msgs bounds the messages the chip sends, MaxReads the calls of   *)
(* hif_receive with which one callback reads a message.  A transaction     *)
(* that fails reports it; that a register write can be lost unnoticed is a *)
(* matter of Spi and left out here.                                        *)
(***************************************************************************)
EXTENDS Integers

CONSTANTS Msgs, MaxReads, Faults, MaxBusErrors

BusAccesses == {"status", "clear", "header", "payload", "rxdone"}

ASSUME HifAssumption ==
  /\ Msgs \in Nat
  /\ MaxReads \in Nat
  /\ MaxBusErrors \in Nat
  /\ Faults \subseteq BusAccesses

VARIABLES
  sent, handled,        \* messages the chip sent, last one handed to a callback
  new, rxReady,         \* CTRL_0: bit 0 (message present), bit 1 (RX done)
  isc,                  \* the pin senses falling edges
  edge,                 \* the interrupt flag of the pin
  u8Interrupt, u8HifRXDone,   \* gstrHifCxt
  held,                 \* the value of u8Interrupt loaded by u8Interrupt--
  pc,                   \* where the host is
  caller,               \* who called hif_set_rx_done: "callback" or "hif_isr"
  left,                 \* calls of hif_receive the callback still has to make
  busErrors             \* bus transactions that failed so far

chip == <<sent, new, rxReady>>
pin == <<isc, edge>>
vars == <<chip, pin, handled, u8Interrupt, u8HifRXDone, held, pc, caller, left, busErrors>>

HostPoints == {"loop", "dec", "status", "clear", "header", "callback", "rxdone"}

-----------------------------------------------------------------------------
(* hif_init has run, the firmware of the chip is up                         *)
Init ==
  /\ sent = 0 /\ handled = 0
  /\ new = FALSE /\ rxReady = TRUE
  /\ isc = TRUE /\ edge = FALSE
  /\ u8Interrupt = 0 /\ u8HifRXDone = FALSE
  /\ held = 0
  /\ pc = "loop" /\ caller = "hif_isr" /\ left = 0
  /\ busErrors = 0

-----------------------------------------------------------------------------
(* The chip: a message goes into the buffer, the pin falls.  An edge is     *)
(* noticed only while the pin senses edges.                                 *)
post ==
  /\ rxReady /\ sent < Msgs
  /\ sent' = sent + 1
  /\ new' = TRUE /\ rxReady' = FALSE
  /\ edge' = (edge \/ (isc /\ ~new))
  /\ UNCHANGED <<isc, handled, u8Interrupt, u8HifRXDone, held, pc, caller, left, busErrors>>

(* ISR(CONF_WIFI_M2M_INT_vect): the pin is low as long as bit 0 is set      *)
pinIsr ==
  /\ edge
  /\ edge' = FALSE
  /\ u8Interrupt' = IF new THEN (u8Interrupt + 1) % 256 ELSE u8Interrupt
  /\ UNCHANGED <<chip, isc, handled, u8HifRXDone, held, pc, caller, left, busErrors>>

-----------------------------------------------------------------------------
(* The host.  A bus transaction either succeeds or fails.                   *)
busOk == UNCHANGED busErrors

busFails(access) ==
  /\ access \in Faults /\ busErrors < MaxBusErrors
  /\ busErrors' = busErrors + 1

(* hif_handle_isr: while (u8Interrupt), and the load of u8Interrupt--       *)
load ==
  /\ pc = "loop" /\ u8Interrupt # 0
  /\ held' = u8Interrupt
  /\ pc' = "dec"
  /\ UNCHANGED <<chip, pin, handled, u8Interrupt, u8HifRXDone, caller, left, busErrors>>

store ==
  /\ pc = "dec"
  /\ u8Interrupt' = held - 1
  /\ pc' = "status"
  /\ UNCHANGED <<chip, pin, handled, u8HifRXDone, held, caller, left, busErrors>>

(* hif_isr: read CTRL_0.  A failure and a "false interrupt" both make       *)
(* hif_handle_isr call hif_isr again; a new message turns the interrupt off *)
readStatusOnce ==                   \* variant: no second attempt after a bus error
  /\ pc = "status"
  /\ \/ busFails("status") /\ pc' = "loop" /\ UNCHANGED isc
     \/ busOk /\ new /\ isc' = FALSE /\ pc' = "clear"
  /\ UNCHANGED <<chip, edge, handled, u8Interrupt, u8HifRXDone, held, caller, left>>

readStatus ==
  /\ pc = "status"
  /\ \/ busFails("status") /\ UNCHANGED <<pc, isc>>
     \/ busOk /\ ~new /\ UNCHANGED <<pc, isc>>
     \/ busOk /\ new /\ isc' = FALSE /\ pc' = "clear"
  /\ UNCHANGED <<chip, edge, handled, u8Interrupt, u8HifRXDone, held, caller, left>>

(* hif_isr: write CTRL_0 with bit 0 cleared                                 *)
clearStatusEarly ==                 \* variant: "RX done" is written back as set
  /\ pc = "clear"
  /\ new' = FALSE /\ rxReady' = TRUE /\ u8HifRXDone' = TRUE /\ pc' = "header" /\ busOk
  /\ UNCHANGED <<sent, pin, handled, u8Interrupt, held, caller, left>>

clearStatus ==
  /\ pc = "clear"
  /\ \/ busFails("clear") /\ pc' = "status" /\ UNCHANGED <<new, u8HifRXDone>>
     \/ busOk /\ new' = FALSE /\ u8HifRXDone' = TRUE /\ pc' = "header"
  /\ UNCHANGED <<sent, rxReady, pin, handled, u8Interrupt, held, caller, left>>

(* hif_isr: read the address and the header, check them, call the callback. *)
(* After a failure hif_isr is called again, although bit 0 is already       *)
(* clear; only a wrong size or an unknown group leaves the interrupt off    *)
readHeader ==
  /\ pc = "header"
  /\ \/ /\ busFails("header")
        /\ isc' \in BOOLEAN
        /\ pc' = "status"
        /\ UNCHANGED <<handled, left>>
     \/ /\ busOk
        /\ handled' = sent
        /\ left' \in 0 .. MaxReads
        /\ pc' = "callback"
        /\ UNCHANGED isc
  /\ UNCHANGED <<chip, edge, u8Interrupt, u8HifRXDone, held, caller>>

(* hif_set_rx_done: the interrupt is turned on before bit 1 is written      *)
startRxDoneDeaf(who) ==             \* variant: the interrupt stays off
  /\ u8HifRXDone' = FALSE /\ isc' = isc /\ caller' = who /\ pc' = "rxdone"

startRxDone(who) ==
  /\ u8HifRXDone' = FALSE
  /\ isc' = TRUE
  /\ caller' = who
  /\ pc' = "rxdone"

(* A bus error is returned to the caller: the callback does not try again,  *)
(* hif_isr does, from its beginning                                         *)
writeRxDone ==
  /\ pc = "rxdone"
  /\ \/ /\ busFails("rxdone")
        /\ pc' = IF caller = "callback" THEN "callback" ELSE "status"
        /\ UNCHANGED rxReady
     \/ /\ busOk
        /\ rxReady' = TRUE
        /\ pc' = IF caller = "callback" THEN "callback" ELSE "loop"
  /\ UNCHANGED <<sent, new, pin, handled, u8Interrupt, u8HifRXDone, held, caller, left>>

(* hif_receive in the callback: all but the last part of the message        *)
receivePart ==
  /\ pc = "callback" /\ left > 1
  /\ \/ busFails("payload") /\ left' = 0
     \/ busOk /\ left' = left - 1
  /\ UNCHANGED <<chip, pin, handled, u8Interrupt, u8HifRXDone, held, pc, caller>>

(* hif_receive of the last part, or with isDone: it sets RX done            *)
receiveAny ==                       \* variant: RX done after any part
  /\ pc = "callback" /\ left > 0 /\ u8HifRXDone
  /\ busOk /\ left' = left - 1 /\ startRxDone("callback")
  /\ UNCHANGED <<chip, edge, handled, u8Interrupt, held>>

receiveLast ==
  /\ pc = "callback" /\ left = 1
  /\ left' = 0
  /\ \/ busFails("payload") /\ UNCHANGED <<u8HifRXDone, isc, caller, pc>>
     \/ busOk /\ startRxDone("callback")
  /\ UNCHANGED <<chip, edge, handled, u8Interrupt, held>>

(* hif_receive(0, NULL, 0, 1): the rest of the message is given up          *)
giveUp ==
  /\ pc = "callback" /\ left > 0
  /\ left' = 0
  /\ startRxDone("callback")
  /\ UNCHANGED <<chip, edge, handled, u8Interrupt, held, busErrors>>

(* The callback returns to hif_isr, which sets RX done if nobody has        *)
callbackReturns ==
  /\ pc = "callback"
  /\ left' = 0
  /\ IF u8HifRXDone THEN startRxDone("hif_isr")
     ELSE pc' = "loop" /\ UNCHANGED <<u8HifRXDone, isc, caller>>
  /\ UNCHANGED <<chip, edge, handled, u8Interrupt, held, busErrors>>

hif_handle_isr ==
  \/ load \/ store \/ readStatus \/ clearStatus \/ readHeader
  \/ receivePart \/ receiveLast \/ giveUp \/ callbackReturns \/ writeRxDone

Next == post \/ pinIsr \/ hif_handle_isr

Spec == Init /\ [][Next]_vars

(* The pin interrupt is served and the main loop keeps running.             *)
FairSpec == Spec /\ WF_vars(pinIsr) /\ WF_vars(hif_handle_isr)

-----------------------------------------------------------------------------
TypeOK ==
  /\ sent \in 0 .. Msgs /\ handled \in 0 .. Msgs
  /\ new \in BOOLEAN /\ rxReady \in BOOLEAN
  /\ isc \in BOOLEAN /\ edge \in BOOLEAN
  /\ u8Interrupt \in 0 .. 255 /\ held \in 0 .. 255
  /\ u8HifRXDone \in BOOLEAN
  /\ pc \in HostPoints
  /\ caller \in {"callback", "hif_isr"}
  /\ left \in 0 .. MaxReads
  /\ busErrors \in 0 .. MaxBusErrors

(* A message that waits in the chip is known to the host: its edge is       *)
(* latched, counted, or being handled ("must be at that place because of    *)
(* the race of interrupt increment and that decrement").  Otherwise the     *)
(* chip, which waits for RX done, and the host, which waits for an          *)
(* interrupt, would wait for each other for ever.                           *)
NoLostInterrupt ==
  new => edge \/ u8Interrupt > 0 \/ pc \in {"status", "clear"}

(* The message a callback reads, and RX done, belong together: from the     *)
(* moment the host takes a message until it is given back, the chip may not *)
(* post, and RX done is never owed for nothing.                             *)
BufferHasOneOwner ==
  /\ rxReady => ~new /\ ~u8HifRXDone /\ left = 0
  /\ left > 0 => u8HifRXDone /\ pc = "callback"

Box == INSTANCE Mailbox WITH reading <- left > 0

(* Every message is handed to a callback once, in order, and the buffer is  *)
(* not overwritten before: hif_isr, hif_receive and the interrupt implement *)
(* the one-place mailbox the callbacks rely on, whatever the bus does.      *)
ImplementsMailbox == Box!Spec

(* m2m_hif.c:583-584: hif_isr is retried after a bus error "until we get    *)
(* that interrupt", so that handling an interrupt comes to an end.          *)
HandlingEnds == pc = "status" ~> pc = "loop"
=============================================================================
