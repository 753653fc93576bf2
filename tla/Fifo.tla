-------------------------------- MODULE Fifo --------------------------------
(***************************************************************************)
(* A bounded queue of bytes: what the circular buffers of umqtt stand for. *)
(***************************************************************************)
EXTENDS Naturals, Sequences

CONSTANTS Byte, Capacity

VARIABLES
  queue,     \* the bytes in the buffer, oldest first
  out        \* the byte taken last

vars == <<queue, out>>

Init == queue = <<>> /\ out \in Byte

Put(b) ==
  /\ Len(queue) < Capacity
  /\ queue' = Append(queue, b)
  /\ UNCHANGED out

Get ==
  /\ queue # <<>>
  /\ out' = Head(queue)
  /\ queue' = Tail(queue)

Clear ==
  /\ queue' = <<>>
  /\ UNCHANGED out

Next == (\E b \in Byte : Put(b)) \/ Get \/ Clear

Spec == Init /\ [][Next]_vars
=============================================================================
