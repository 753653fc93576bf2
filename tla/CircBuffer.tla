----------------------------- MODULE CircBuffer -----------------------------
(***************************************************************************)
(* struct umqtt_circ_buffer of umqtt/umqtt.h and its operations            *)
(* (umqtt/umqtt.c).  An address is its offset from start, so that bend is  *)
(* length - 1.  Each round of the loop of umqtt_circ_push, and of          *)
(* umqtt_circ_pop, is a step: a call of umqtt_circ_pop for len bytes is    *)
(* len steps of popByte, cut short when the buffer is empty.               *)
(***************************************************************************)
EXTENDS Integers, Sequences

CONSTANTS
  Byte,
  length,      \* size of the array
  Data         \* the byte strings that may be pushed

ASSUME CircAssumption ==
  /\ length \in Nat \ {0}
  /\ Data \subseteq Seq(Byte)

VARIABLES
  start,       \* the array, indexed from 0
  pointer, datalen,
  dend,        \* where umqtt_circ_push writes next
  data,        \* what it still has to write
  pushing,     \* it is in its loop
  out          \* the byte popped last

ringVars == <<start, pointer, datalen, dend, data, pushing, out>>

Offsets == 0 .. length - 1
bend == length - 1

RingInit ==
  /\ start \in [Offsets -> Byte]
  /\ pointer = 0 /\ datalen = 0
  /\ dend = 0 /\ data = <<>> /\ pushing = FALSE
  /\ out \in Byte

umqtt_circ_init ==
  /\ ~pushing
  /\ pointer' = 0 /\ datalen' = 0
  /\ UNCHANGED <<start, dend, data, pushing, out>>

wrap(p) == IF p > bend THEN 0 ELSE p

(* umqtt_circ_push: where the new bytes go *)
beginPushUnwrapped(d) ==                     \* variant: the modulo is missing
  /\ ~pushing /\ pushing' = TRUE /\ data' = d
  /\ dend' = pointer + datalen
  /\ UNCHANGED <<start, pointer, datalen, out>>

beginPush(d) ==
  /\ ~pushing
  /\ pushing' = TRUE
  /\ data' = d
  /\ dend' = (pointer + datalen) % length
  /\ UNCHANGED <<start, pointer, datalen, out>>

isFullEarly == datalen >= length - 1         \* variant: one cell is never used
isFull == datalen # 0 /\ wrap(dend) = pointer

pushByte ==
  /\ pushing /\ data # <<>> /\ ~isFull
  /\ start' = [start EXCEPT ![wrap(dend)] = Head(data)]
  /\ dend' = wrap(dend) + 1
  /\ data' = Tail(data)
  /\ datalen' = datalen + 1
  /\ UNCHANGED <<pointer, pushing, out>>

(* the loop ends, or stops at a full buffer and returns the rest *)
endPush ==
  /\ pushing
  /\ data = <<>> \/ isFull
  /\ pushing' = FALSE
  /\ UNCHANGED <<start, pointer, datalen, dend, data, out>>

popByte ==
  /\ ~pushing /\ datalen > 0
  /\ out' = start[pointer]
  /\ pointer' = wrap(pointer + 1)
  /\ datalen' = datalen - 1
  /\ UNCHANGED <<start, dend, data, pushing>>

RingNext ==
  \/ umqtt_circ_init
  \/ \E d \in Data : beginPush(d)
  \/ pushByte \/ endPush \/ popByte

RingSpec == RingInit /\ [][RingNext]_ringVars

-----------------------------------------------------------------------------
RingTypeOK ==
  /\ start \in [Offsets -> Byte]
  /\ pointer \in Offsets
  /\ datalen \in 0 .. length
  /\ dend \in 0 .. length
  /\ data \in Seq(Byte)
  /\ pushing \in BOOLEAN
  /\ out \in Byte

(* The bytes in the buffer, oldest first.  pointer + datalen is less than   *)
(* twice the length, so one wrap is enough.                                 *)
cell(i) == IF pointer + i - 1 > bend THEN pointer + i - 1 - length ELSE pointer + i - 1
Contents == [i \in 1 .. datalen |-> start[cell(i)]]

Queue == INSTANCE Fifo WITH Capacity <- length, queue <- Contents

(* The circular buffer is a queue of length bytes, whatever the order of    *)
(* pushes, pops and resets and however often its indices wrap around.       *)
ImplementsFifo == Queue!Spec

(* umqtt_circ_push leaves bytes behind only when all cells are taken.       *)
PushesWhileThereIsRoom ==
  [][pushing /\ ~pushing' /\ data # <<>> => datalen = length]_ringVars
=============================================================================
