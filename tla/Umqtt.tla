------------------------------- MODULE Umqtt -------------------------------
(***************************************************************************)
(* The MQTT client: umqtt/umqtt.c as mqtt_client/mqtt_client.c uses it,    *)
(* with the broker at the other end of a TCP connection.                   *)
(*                                                                         *)
(* TCP delivers the bytes of the broker in segments, and                   *)
(* Socket_ReadSocketData hands a segment on in chunks of the size of the   *)
(* user's buffer: a chunk may end anywhere.  MQTT_CLIENT_receive pushes a  *)
(* chunk into the receive ring, which drops what does not fit, and         *)
(* umqtt_process takes packets from the ring while it holds two bytes.     *)
(* A pop finds fewer bytes than asked for without saying so; the rest of   *)
(* the destination keeps what the stack held, a value of Garbage here.     *)
(*                                                                         *)
(* A byte is a record of its value and of whether it starts a packet; the  *)
(* code sees the value only.  The ring is the queue CircBuffer implements. *)
(***************************************************************************)
EXTENDS Integers, Sequences, FiniteSetsExt, MqttLength

CONSTANTS
  RX_BUFF_SIZE,     \* bytes in the receive ring
  RecvSize,         \* size of gau8SocketBuffer: most bytes of a chunk
  Topics,           \* lengths of the PUBLISH packets after the fixed header
  Payload,          \* what the bytes of a payload may be
  Garbage,          \* what an uninitialised byte may hold
  MaxSessions, MaxSubscribes, MaxPublishes

ASSUME UmqttAssumption ==
  /\ RX_BUFF_SIZE \in Nat \ {0, 1} /\ RecvSize \in Nat \ {0}
  /\ Topics \subseteq 3 .. 16383 /\ Garbage \cup Payload \subseteq 0 .. 255
  /\ {MaxSessions, MaxSubscribes, MaxPublishes} \subseteq Nat

VARIABLES
  wire,             \* bytes the broker sent that TCP has not delivered
  cut,              \* history: a chunk of this session ended inside a packet
  rxbuff,           \* the receive ring
  pc,               \* "idle", or "process": umqtt_process is in its loop
  state, nack_subscribe,      \* umqtt_conn
  answer,           \* what the broker said to CONNECT in this session
  owed,             \* SUBSCRIBEs the broker has not answered
  sessions, publishes,        \* bounds
  subscribes        \* SUBSCRIBEs of this session

broker == <<answer, owed, publishes>>
bounds == <<sessions, subscribes>>
vars == <<wire, cut, rxbuff, pc, state, nack_subscribe, broker, bounds>>

(* enum umqtt_packet_type, shifted into a header *)
CONNACK == 32
PUBLISH == 48
SUBACK == 144

-----------------------------------------------------------------------------
Init ==
  /\ wire = <<>> /\ cut = FALSE /\ rxbuff = <<>> /\ pc = "idle"
  /\ state = "INIT" /\ nack_subscribe = 0
  /\ answer = "none" /\ owed = 0
  /\ sessions = 0 /\ subscribes = 0 /\ publishes = 0

(* MQTT_CLIENT_connect, umqtt_connect: on a TCP connection just opened      *)
umqtt_connectKeeping ==           \* variant: the counters are not reset
  /\ pc = "idle" /\ sessions < MaxSessions
  /\ sessions' = sessions + 1 /\ rxbuff' = <<>> /\ state' = "CONNECTING"
  /\ wire' = <<>> /\ cut' = FALSE /\ answer' = "awaited" /\ owed' = 0 /\ subscribes' = 0
  /\ UNCHANGED <<pc, nack_subscribe, publishes>>

umqtt_connect ==
  /\ pc = "idle" /\ sessions < MaxSessions
  /\ sessions' = sessions + 1
  /\ rxbuff' = <<>>
  /\ state' = "CONNECTING"
  /\ nack_subscribe' = 0
  /\ wire' = <<>> /\ cut' = FALSE /\ answer' = "awaited" /\ owed' = 0 /\ subscribes' = 0
  /\ UNCHANGED <<pc, publishes>>

(* umqtt_subscribe: cloud.c calls it on the event of connected_callback     *)
umqtt_subscribe ==
  /\ pc = "idle" /\ state = "CONNECTED" /\ subscribes < MaxSubscribes
  /\ subscribes' = subscribes + 1
  /\ nack_subscribe' = nack_subscribe + 1
  /\ owed' = owed + 1
  /\ UNCHANGED <<wire, cut, rxbuff, pc, state, answer, sessions, publishes>>

-----------------------------------------------------------------------------
(* The broker                                                               *)
Packet(header, body) ==
  LET values == <<header>> \o umqtt_encode_length(Len(body)) \o body
  IN [i \in DOMAIN values |-> [val |-> values[i], first |-> i = 1]]

sendConnack(rc) ==
  /\ answer = "awaited"
  /\ answer' = IF rc = 0 THEN "accepted" ELSE "refused"
  /\ wire' = wire \o Packet(CONNACK, <<0, rc>>)
  /\ UNCHANGED <<cut, rxbuff, pc, state, nack_subscribe, owed, publishes, bounds>>

sendSuback ==
  /\ owed > 0
  /\ owed' = owed - 1
  /\ wire' = wire \o Packet(SUBACK, <<0, 1, 0>>)
  /\ UNCHANGED <<cut, rxbuff, pc, state, nack_subscribe, answer, publishes, bounds>>

(* a topic of one character, then the payload, all of its bytes alike *)
sendPublish(n, p) ==
  /\ answer = "accepted" /\ subscribes > 0 /\ publishes < MaxPublishes
  /\ publishes' = publishes + 1
  /\ wire' = wire \o Packet(PUBLISH, [i \in 1 .. n |-> IF i = 1 THEN 0 ELSE IF i <= 3 THEN 1 ELSE p])
  /\ UNCHANGED <<cut, rxbuff, pc, state, nack_subscribe, answer, owed, bounds>>

-----------------------------------------------------------------------------
(* Socket_ReadSocketData: a chunk is what is left of a segment, or as much  *)
(* of it as the buffer holds, wherever packets begin and end                *)
Chunk(n) == n \in 1 .. RecvSize /\ n <= Len(wire)
endsInside(n) == n < Len(wire) /\ ~wire[n + 1].first

(* umqtt_circ_push, umqtt_circ_pop: as many as there is room, or as there are *)
pushed(data) == rxbuff \o SubSeq(data, 1, Min({Len(data), RX_BUFF_SIZE - Len(rxbuff)}))
popped(n) == SubSeq(rxbuff, n + 1, Len(rxbuff))

(* MQTT_CLIENT_receive *)
MQTT_CLIENT_receive(n) ==
  /\ pc = "idle" /\ Chunk(n)
  /\ cut' = (cut \/ endsInside(n))
  /\ rxbuff' = pushed(SubSeq(wire, 1, n))
  /\ wire' = SubSeq(wire, n + 1, Len(wire))
  /\ pc' = "process"
  /\ UNCHANGED <<state, nack_subscribe, broker, bounds>>

(* byte i of what is popped, g if the ring does not have it *)
byte(i, g) == IF i <= Len(rxbuff) THEN rxbuff[i].val ELSE g

(* buf[1 .. 4] and the number of bytes the length takes *)
lengthBytes(g) == [i \in 1 .. 4 |-> byte(i + 1, g)]
lengthSize(g) ==
  CHOOSE i \in 1 .. 4 :
    /\ lengthBytes(g)[i] < 128 \/ i = 4
    /\ \A j \in 1 .. i - 1 : lengthBytes(g)[j] >= 128

(* umqtt_packet_arrived: the packet whose header is h, whose second byte of *)
(* data is d; failed_connect_callback is not set, the others only report    *)
arrivedUnchecked(h, d) ==         \* variant: the return code is not looked at
  /\ state' = IF h \div 16 = 2 THEN "CONNECTED" ELSE state
  /\ nack_subscribe' = IF h \div 16 = 9 THEN nack_subscribe - 1 ELSE nack_subscribe

umqtt_packet_arrived(h, d) ==
  /\ state' = IF h \div 16 # 2 THEN state ELSE IF d = 0 THEN "CONNECTED" ELSE "FAILED"
  /\ nack_subscribe' = IF h \div 16 = 9 THEN nack_subscribe - 1 ELSE nack_subscribe

(* one round of the loop of umqtt_process; data[1] is beyond a packet of    *)
(* less than two bytes, and a length below zero pops nothing                *)
second(size, len, d) == IF len >= 2 THEN byte(1 + size + 2, d) ELSE d
poppedShort(size, len) ==           \* variant: one byte is left
  popped(1 + size + (IF len > 0 THEN len - 1 ELSE 0))
poppedPacket(size, len) == popped(1 + size + (IF len > 0 THEN len ELSE 0))

processPacket ==
  /\ pc = "process" /\ Len(rxbuff) >= 2
  /\ \E g, d \in Garbage :
       LET size == lengthSize(g)
           len == umqtt_decode_length(lengthBytes(g))
       IN /\ umqtt_packet_arrived(rxbuff[1].val, second(size, len, d))
          /\ rxbuff' = poppedPacket(size, len)
  /\ UNCHANGED <<wire, cut, pc, broker, bounds>>

processed ==
  /\ pc = "process" /\ Len(rxbuff) < 2
  /\ pc' = "idle"
  /\ UNCHANGED <<wire, cut, rxbuff, state, nack_subscribe, broker, bounds>>

Next ==
  \/ umqtt_connect \/ umqtt_subscribe
  \/ \E rc \in {0, 5} : sendConnack(rc)
  \/ sendSuback
  \/ \E n \in Topics, p \in Payload : sendPublish(n, p)
  \/ \E n \in 1 .. RecvSize : MQTT_CLIENT_receive(n)
  \/ processPacket \/ processed

Spec == Init /\ [][Next]_vars

-----------------------------------------------------------------------------
(* Every packet umqtt_process takes starts where a packet of the broker     *)
(* starts, although the ring holds fewer bytes than a chunk and truncates   *)
(* it; and nothing is left in the ring for the next chunk to follow.  Until *)
(* the first chunk that ends inside a packet: what follows such a chunk is  *)
(* taken for a packet.                                                      *)
StaysInStep ==
  ~cut =>
    /\ pc = "process" /\ rxbuff # <<>> => rxbuff[1].first
    /\ pc = "idle" => rxbuff = <<>>

(* connected_callback posts CLOUD_EVENT_SUCCESS: the client is connected    *)
(* only while the broker has accepted the connection of this session,       *)
(* whatever earlier sessions, in step or not, have left behind; unless a    *)
(* chunk of this one ended inside a packet.                                 *)
ConnectedMeansAccepted == state = "CONNECTED" => answer = "accepted" \/ cut

(* nack_subscribe counts every SUBSCRIBE whose SUBACK has not been handled. *)
(* It may count too many, since a SUBACK that arrives behind another packet *)
(* is dropped, but never too few, nor any of an earlier session; while the  *)
(* client is in step.                                                       *)
Unacked == owed + Cardinality({i \in DOMAIN wire : wire[i].first /\ wire[i].val = SUBACK})
UnackedIsCounted == ~cut => nack_subscribe >= Unacked /\ subscribes >= nack_subscribe
=============================================================================
