----------------------------- MODULE HifProofs -----------------------------
(***************************************************************************)
(* Proofs about the receiving side of the host interface, for every number *)
(* of messages, every reading pattern of the callbacks and every placement *)
(* of bus errors.                                                          *)
(*                                                                         *)
(* The argument: a message is always in exactly one place.  Either the     *)
(* chip may post (rxReady), or a message waits in the chip and its edge is *)
(* latched, counted or being handled, or the host owns the buffer.         *)
(* Turning the interrupt on before RX done is written is what makes        *)
(* ChipMayPost inductive: no edge can fall while the pin is deaf.          *)
(***************************************************************************)
EXTENDS Hif, TLAPS

(* the two halves of the type invariant *)
Flags ==
  /\ new \in BOOLEAN /\ rxReady \in BOOLEAN /\ isc \in BOOLEAN /\ edge \in BOOLEAN
  /\ u8HifRXDone \in BOOLEAN /\ pc \in HostPoints /\ caller \in {"callback", "hif_isr"}
Counts ==
  /\ sent \in 0 .. Msgs /\ handled \in 0 .. Msgs
  /\ u8Interrupt \in 0 .. 255 /\ held \in 0 .. 255
  /\ left \in 0 .. MaxReads /\ busErrors \in 0 .. MaxBusErrors

(* the chip may post: nothing waits, nothing is read, the pin listens *)
ChipMayPost ==
  rxReady => /\ ~new /\ ~u8HifRXDone /\ left = 0
             /\ handled = sent /\ isc
             /\ pc \in {"loop", "callback"}

(* a message waits: the host holds nothing *)
MessageWaits ==
  new => ~u8HifRXDone /\ left = 0 /\ sent = handled + 1 /\ pc \notin {"header", "rxdone"}

(* its edge is in exactly one place *)
EdgeLatched == edge => new /\ u8Interrupt = 0 /\ pc \in {"loop", "callback"}
EdgeCounted == u8Interrupt # 0 =>
                 u8Interrupt = 1 /\ new /\ pc \in {"loop", "callback", "dec"}
EdgeTaken == pc = "dec" => held = 1 /\ u8Interrupt = 1

(* the host owns the buffer *)
Reading == left > 0 => u8HifRXDone /\ pc = "callback"
Clearing == pc = "clear" => new
Fetching == pc = "header" => ~new /\ u8HifRXDone /\ left = 0 /\ sent = handled + 1
Calling == pc = "callback" /\ ~new => handled = sent
Returning == pc = "rxdone" => ~new /\ handled = sent /\ isc /\ ~u8HifRXDone /\ left = 0

IInv ==
  /\ Flags /\ Counts /\ NoLostInterrupt
  /\ ChipMayPost /\ MessageWaits
  /\ EdgeLatched /\ EdgeCounted /\ EdgeTaken
  /\ Reading /\ Clearing /\ Fetching /\ Calling /\ Returning

-----------------------------------------------------------------------------
LEMMA InitEstablishesIInv == Init => IInv
<1> SUFFICES ASSUME Init PROVE IInv
  OBVIOUS
<1>1. Flags
  BY DEF Init, Flags, HostPoints
<1>2. Counts
  BY HifAssumption DEF Init, Counts
<1>3. ChipMayPost /\ MessageWaits /\ Reading /\ Clearing /\ Fetching /\ Calling /\ Returning
  BY DEF Init, ChipMayPost, MessageWaits, Reading, Clearing, Fetching, Calling, Returning
<1>4. NoLostInterrupt /\ EdgeLatched /\ EdgeCounted /\ EdgeTaken
  BY DEF Init, NoLostInterrupt, EdgeLatched, EdgeCounted, EdgeTaken
<1>5. QED
  BY <1>1, <1>2, <1>3, <1>4 DEF IInv

(* One case per step of the chip, of the interrupt and of the host; under   *)
(* each the type, the owner of the buffer and the place of the edge.        *)
LEMMA NextKeepsIInv ==
  ASSUME IInv, [Next]_vars
  PROVE  IInv'
<1> USE HifAssumption DEF IInv, chip, pin, busOk, busFails
<1>1. CASE post
  <2>1. Flags'
    BY <1>1 DEF post, Flags
  <2>2. Counts'
    BY <1>1 DEF post, Counts
  <2>3. (ChipMayPost /\ MessageWaits /\ Reading /\ Clearing
         /\ Fetching /\ Calling /\ Returning)'
    BY <1>1 DEF post, ChipMayPost, MessageWaits, Reading, Clearing, Fetching, Calling,
       Returning
  <2>4. (NoLostInterrupt /\ EdgeLatched /\ EdgeCounted /\ EdgeTaken)'
    BY <1>1 DEF post, ChipMayPost, NoLostInterrupt, EdgeLatched, EdgeCounted, EdgeTaken
  <2>5. QED
    BY <2>1, <2>2, <2>3, <2>4
<1>2. CASE pinIsr
  <2>1. Flags'
    BY <1>2 DEF pinIsr, Flags
  <2>2. Counts'
    BY <1>2 DEF pinIsr, Counts
  <2>3. (ChipMayPost /\ MessageWaits /\ Reading /\ Clearing
         /\ Fetching /\ Calling /\ Returning)'
    BY <1>2 DEF pinIsr, ChipMayPost, MessageWaits, Reading, Clearing, Fetching, Calling,
       Returning
  <2>4. (NoLostInterrupt /\ EdgeLatched /\ EdgeCounted /\ EdgeTaken)'
    BY <1>2 DEF pinIsr, NoLostInterrupt, EdgeLatched, EdgeCounted, EdgeTaken
  <2>5. QED
    BY <2>1, <2>2, <2>3, <2>4
<1>3. CASE load
  <2>1. Flags'
    BY <1>3 DEF load, Flags, HostPoints
  <2>2. Counts'
    BY <1>3 DEF load, Counts
  <2>3. (ChipMayPost /\ MessageWaits /\ Reading /\ Clearing
         /\ Fetching /\ Calling /\ Returning)'
    BY <1>3 DEF load, ChipMayPost, MessageWaits, Reading, Clearing, Fetching, Calling,
       Returning, EdgeCounted
  <2>4. (NoLostInterrupt /\ EdgeLatched /\ EdgeCounted /\ EdgeTaken)'
    BY <1>3 DEF load, NoLostInterrupt, EdgeLatched, EdgeCounted, EdgeTaken
  <2>5. QED
    BY <2>1, <2>2, <2>3, <2>4
<1>4. CASE store
  <2>1. Flags'
    BY <1>4 DEF store, Flags, HostPoints
  <2>2. Counts'
    BY <1>4 DEF store, Counts, EdgeTaken
  <2>3. (ChipMayPost /\ MessageWaits /\ Reading /\ Clearing
         /\ Fetching /\ Calling /\ Returning)'
    BY <1>4 DEF store, ChipMayPost, MessageWaits, Reading, Clearing, Fetching, Calling,
       Returning
  <2>4. (NoLostInterrupt /\ EdgeLatched /\ EdgeCounted /\ EdgeTaken)'
    BY <1>4 DEF store, NoLostInterrupt, EdgeLatched, EdgeCounted, EdgeTaken
  <2>5. QED
    BY <2>1, <2>2, <2>3, <2>4
<1>5. CASE readStatus
  <2>1. Flags'
    BY <1>5 DEF readStatus, Flags, HostPoints
  <2>2. Counts'
    BY <1>5 DEF readStatus, Counts
  <2>3. (ChipMayPost /\ MessageWaits /\ Reading /\ Clearing
         /\ Fetching /\ Calling /\ Returning)'
    BY <1>5 DEF readStatus, ChipMayPost, MessageWaits, Reading, Clearing, Fetching, Calling,
       Returning
  <2>4. (NoLostInterrupt /\ EdgeLatched /\ EdgeCounted /\ EdgeTaken)'
    BY <1>5 DEF readStatus, NoLostInterrupt, EdgeLatched, EdgeCounted, EdgeTaken
  <2>5. QED
    BY <2>1, <2>2, <2>3, <2>4
<1>6. CASE clearStatus
  <2> pc = "clear" /\ new /\ ~rxReady /\ ~u8HifRXDone /\ ~edge /\ u8Interrupt = 0
    BY <1>6 DEF clearStatus, Clearing, ChipMayPost, MessageWaits, EdgeLatched, EdgeCounted
  <2> left = 0 /\ sent = handled + 1
    BY DEF MessageWaits
  <2> /\ UNCHANGED <<sent, rxReady, edge, handled, u8Interrupt, held, left>>
      /\ busOk \/ busFails("clear")
      /\ pc' = "status" \/ (~new' /\ pc' = "header")
    BY <1>6 DEF clearStatus
  <2>1. Flags'
    BY <1>6 DEF clearStatus, Flags, HostPoints
  <2>2. Counts'
    BY DEF Counts
  <2>3. (ChipMayPost /\ MessageWaits /\ Reading /\ Clearing
         /\ Fetching /\ Calling /\ Returning)'
    <3>1. CASE pc' = "status" /\ UNCHANGED <<new, u8HifRXDone>>
      BY <3>1 DEF ChipMayPost, MessageWaits, Reading, Clearing, Fetching, Calling, Returning
    <3>2. CASE new' = FALSE /\ u8HifRXDone' = TRUE /\ pc' = "header"
      BY <3>2 DEF ChipMayPost, MessageWaits, Reading, Clearing, Fetching, Calling, Returning
    <3>3. QED
      BY <1>6, <3>1, <3>2 DEF clearStatus
  <2>4. (NoLostInterrupt /\ EdgeLatched /\ EdgeCounted /\ EdgeTaken)'
    BY DEF NoLostInterrupt, EdgeLatched, EdgeCounted, EdgeTaken
  <2>5. QED
    BY <2>1, <2>2, <2>3, <2>4
<1>7. CASE readHeader
  <2>1. Flags'
    BY <1>7 DEF readHeader, Flags, HostPoints
  <2>2. Counts'
    BY <1>7 DEF readHeader, Counts
  <2>3. (ChipMayPost /\ MessageWaits /\ Reading /\ Clearing
         /\ Fetching /\ Calling /\ Returning)'
    BY <1>7 DEF readHeader, ChipMayPost, MessageWaits, Reading, Clearing, Fetching, Calling,
       Returning
  <2>4. (NoLostInterrupt /\ EdgeLatched /\ EdgeCounted /\ EdgeTaken)'
    BY <1>7 DEF readHeader, NoLostInterrupt, EdgeLatched, EdgeCounted, EdgeTaken
  <2>5. QED
    BY <2>1, <2>2, <2>3, <2>4
<1>8. CASE receivePart
  <2>1. Flags'
    BY <1>8 DEF receivePart, Flags
  <2>2. Counts'
    BY <1>8 DEF receivePart, Counts
  <2>3. (ChipMayPost /\ MessageWaits /\ Reading /\ Clearing
         /\ Fetching /\ Calling /\ Returning)'
    BY <1>8 DEF receivePart, Counts, ChipMayPost, MessageWaits, Reading, Clearing, Fetching,
       Calling, Returning
  <2>4. (NoLostInterrupt /\ EdgeLatched /\ EdgeCounted /\ EdgeTaken)'
    BY <1>8 DEF receivePart, NoLostInterrupt, EdgeLatched, EdgeCounted, EdgeTaken
  <2>5. QED
    BY <2>1, <2>2, <2>3, <2>4
<1>9. CASE receiveLast
  <2> left = 1 /\ left' = 0 /\ pc = "callback" /\ u8HifRXDone /\ ~new /\ ~edge /\ u8Interrupt = 0
    BY <1>9 DEF receiveLast, MessageWaits, Reading, EdgeLatched, EdgeCounted
  <2> UNCHANGED <<sent, new, rxReady, edge, handled, u8Interrupt, held>>
    BY <1>9 DEF receiveLast
  <2>1. CASE busFails("payload") /\ UNCHANGED <<u8HifRXDone, isc, caller, pc>>
    <3>1. Flags'
      BY <2>1 DEF Flags
    <3>2. Counts'
      BY <2>1 DEF Counts
    <3>3. (ChipMayPost /\ MessageWaits /\ Reading /\ Clearing
           /\ Fetching /\ Calling /\ Returning)'
      BY <2>1 DEF ChipMayPost, MessageWaits, Reading, Clearing, Fetching, Calling, Returning
    <3>4. (NoLostInterrupt /\ EdgeLatched /\ EdgeCounted /\ EdgeTaken)'
      BY <2>1 DEF NoLostInterrupt, EdgeLatched, EdgeCounted, EdgeTaken
    <3>5. QED
      BY <3>1, <3>2, <3>3, <3>4
  <2>2. CASE busOk /\ startRxDone("callback")
    <3>1. Flags'
      BY <2>2 DEF startRxDone, Flags, HostPoints
    <3>2. Counts'
      BY <2>2 DEF Counts
    <3>3. (ChipMayPost /\ MessageWaits /\ Reading /\ Clearing
           /\ Fetching /\ Calling /\ Returning)'
      BY <2>2 DEF startRxDone, ChipMayPost, MessageWaits, Reading, Clearing, Fetching,
         Calling, Returning
    <3>4. (NoLostInterrupt /\ EdgeLatched /\ EdgeCounted /\ EdgeTaken)'
      BY <2>2 DEF startRxDone, NoLostInterrupt, EdgeLatched, EdgeCounted, EdgeTaken
    <3>5. QED
      BY <3>1, <3>2, <3>3, <3>4
  <2>3. QED
    BY <1>9, <2>1, <2>2 DEF receiveLast
<1>10. CASE giveUp
  <2>1. Flags'
    BY <1>10 DEF giveUp, startRxDone, Flags, HostPoints
  <2>2. Counts'
    BY <1>10 DEF giveUp, Counts
  <2>3. (ChipMayPost /\ MessageWaits /\ Reading /\ Clearing
         /\ Fetching /\ Calling /\ Returning)'
    BY <1>10 DEF giveUp, startRxDone, ChipMayPost, MessageWaits, Reading, Clearing,
       Fetching, Calling, Returning
  <2>4. (NoLostInterrupt /\ EdgeLatched /\ EdgeCounted /\ EdgeTaken)'
    BY <1>10 DEF giveUp, startRxDone, MessageWaits, NoLostInterrupt, EdgeLatched,
       EdgeCounted, EdgeTaken
  <2>5. QED
    BY <2>1, <2>2, <2>3, <2>4
<1>11. CASE callbackReturns
  <2>1. Flags'
    BY <1>11 DEF callbackReturns, startRxDone, Flags, HostPoints
  <2>2. Counts'
    BY <1>11 DEF callbackReturns, Counts
  <2>3. (ChipMayPost /\ MessageWaits /\ Reading /\ Clearing
         /\ Fetching /\ Calling /\ Returning)'
    BY <1>11 DEF callbackReturns, startRxDone, ChipMayPost, MessageWaits, Reading, Clearing,
       Fetching, Calling, Returning
  <2>4. (NoLostInterrupt /\ EdgeLatched /\ EdgeCounted /\ EdgeTaken)'
    BY <1>11 DEF callbackReturns, startRxDone, MessageWaits, NoLostInterrupt, EdgeLatched,
       EdgeCounted, EdgeTaken
  <2>5. QED
    BY <2>1, <2>2, <2>3, <2>4
<1>12. CASE writeRxDone
  <2>1. Flags'
    BY <1>12 DEF writeRxDone, Flags, HostPoints
  <2>2. Counts'
    BY <1>12 DEF writeRxDone, Counts
  <2>3. (ChipMayPost /\ MessageWaits /\ Reading /\ Clearing
         /\ Fetching /\ Calling /\ Returning)'
    BY <1>12 DEF writeRxDone, ChipMayPost, MessageWaits, Reading, Clearing, Fetching,
       Calling, Returning
  <2>4. (NoLostInterrupt /\ EdgeLatched /\ EdgeCounted /\ EdgeTaken)'
    BY <1>12 DEF writeRxDone, NoLostInterrupt, EdgeLatched, EdgeCounted, EdgeTaken
  <2>5. QED
    BY <2>1, <2>2, <2>3, <2>4
<1>13. CASE UNCHANGED vars
  BY <1>13 DEF vars, Flags, Counts, ChipMayPost, MessageWaits, Reading, Clearing, Fetching,
     Calling, Returning, NoLostInterrupt, EdgeLatched, EdgeCounted, EdgeTaken
<1>14. QED
  BY <1>1, <1>2, <1>3, <1>4, <1>5, <1>6, <1>7, <1>8, <1>9, <1>10, <1>11, <1>12, <1>13
     DEF Next, hif_handle_isr

LEMMA Inductive == Spec => []IInv
<1>1. Init => IInv
  BY InitEstablishesIInv
<1>2. IInv /\ [Next]_vars => IInv'
  BY NextKeepsIInv
<1>3. QED
  BY <1>1, <1>2, PTL DEF Spec

(* Every reachable state of the host interface is well typed; the interrupt *)
(* counter of m2m_hif.c never wraps.                                        *)
THEOREM TypeCorrect == Spec => []TypeOK
<1>1. IInv => TypeOK
  BY DEF IInv, Flags, Counts, TypeOK
<1>2. QED
  BY <1>1, Inductive, PTL

(* No message waits in the chip unknown to the host, wherever the interrupt *)
(* falls between the halves of u8Interrupt-- and whatever bus access fails. *)
THEOREM InterruptsAreNotLost == Spec => []NoLostInterrupt
<1>1. IInv => NoLostInterrupt
  BY DEF IInv
<1>2. QED
  BY <1>1, Inductive, PTL

(* The buffer belongs to the chip or to the callback, never to both.        *)
THEOREM OneOwner == Spec => []BufferHasOneOwner
<1>1. IInv => BufferHasOneOwner
  BY DEF IInv, ChipMayPost, Reading, BufferHasOneOwner
<1>2. QED
  BY <1>1, Inductive, PTL

(* The receiving side implements the one-place mailbox: exactly once, in    *)
(* order, nothing overwritten, under every bus error that is reported.      *)
THEOREM Refinement == Spec => ImplementsMailbox
<1>1. Init => Box!Init
  BY DEF Init, Box!Init
<1>2. IInv /\ [Next]_vars => [Box!Next]_(Box!vars)
  <2> SUFFICES ASSUME IInv, [Next]_vars
               PROVE  [Box!Next]_(Box!vars)
    OBVIOUS
  <2> USE HifAssumption DEF chip, pin, Box!vars
  <2>1. CASE post
    <3>1. sent = handled /\ ~(left > 0)
      BY <2>1 DEF post, IInv, ChipMayPost
    <3>2. Box!Post
      BY <2>1, <3>1 DEF post, Box!Post
    <3>3. QED
      BY <3>2 DEF Box!Next
  <2>2. CASE readHeader
    <3>1. CASE handled' = handled /\ left' = left /\ sent' = sent
      BY <3>1
    <3>2. CASE handled' = sent /\ sent' = sent
      <4>1. sent = handled + 1 /\ handled \in Nat
        BY <2>2 DEF readHeader, IInv, Fetching, Counts
      <4>2. Box!Deliver
        BY <3>2, <4>1 DEF Box!Deliver
      <4>3. QED
        BY <4>2 DEF Box!Next
    <3>3. QED
      BY <2>2, <3>1, <3>2 DEF readHeader
  <2>3. CASE receivePart \/ receiveLast \/ giveUp \/ callbackReturns
    <3>1. UNCHANGED <<sent, handled>>
      BY <2>3 DEF receivePart, receiveLast, giveUp, callbackReturns
    <3>2. left \in Nat /\ (left' = 0 \/ (left > 1 /\ left' = left - 1))
      BY <2>3 DEF receivePart, receiveLast, giveUp, callbackReturns, IInv, Counts
    <3>3. CASE left > 0 /\ left' = 0
      <4>1. Box!Release
        BY <3>1, <3>3 DEF Box!Release
      <4>2. QED
        BY <4>1 DEF Box!Next
    <3>4. CASE (left > 0) = (left' > 0)
      BY <3>1, <3>4
    <3>5. QED
      BY <3>2, <3>3, <3>4
  <2>4. CASE pinIsr \/ load \/ store \/ readStatus \/ clearStatus \/ writeRxDone
             \/ UNCHANGED vars
    BY <2>4 DEF pinIsr, load, store, readStatus, clearStatus, writeRxDone, vars
  <2>5. QED
    BY <2>1, <2>2, <2>3, <2>4 DEF Next, hif_handle_isr
<1>3. QED
  BY <1>1, <1>2, Inductive, PTL DEF Spec, ImplementsMailbox, Box!Spec
=============================================================================
