--------------------------- MODULE MqttCoreProofs ---------------------------
(***************************************************************************)
(* Proofs about the MQTT core, for any number of sessions, packets and     *)
(* failed sends.                                                           *)
(*                                                                         *)
(* The argument: what waits in the receive buffer is of this session,      *)
(* because every send empties the buffer (ReceivedInSession).  A reply is  *)
(* awaited only while the flag that keeps its request from being made      *)
(* again is set (Flagged), so in the first session the timers in the list  *)
(* are those of the awaited replies (FirstSession), and a reply that is    *)
(* handled was not late.                                                   *)
(***************************************************************************)
EXTENDS MqttCore, SequenceTheorems, TLAPS

Packet == [type : {"CONNACK", "PUBLISH", "PUBACK"} \cup Timed, good : BOOLEAN,
           session : 1 .. MaxSessions]

(* the parts of the type invariant *)
FlagTypes ==
  /\ mqttState \in {"DISCONNECTED", "CONNECTING", "WAITFORCONNACK", "CONNECTED"}
  /\ mqttTxFlags \subseteq {"CONNECT", "PUBLISH", "SUBSCRIBE", "UNSUBSCRIBE", "PINGREQ"}
  /\ mqttRxFlags \subseteq Timed \cup {"PUBACK"} /\ qos \in {0, 1}
TimeTypes == occurred \subseteq Timers /\ timers \subseteq Timers /\ doubled \in BOOLEAN
Received == rxbuff \in Seq(Packet) /\ Len(rxbuff) <= 2
HistoryTypes ==
  /\ owed \subseteq DOMAIN Reply
  /\ session \in 0 .. MaxSessions /\ accepted \in 0 .. session
  /\ awaited \subseteq Timed /\ late \subseteq awaited
CountTypes ==
  /\ made \in 0 .. MaxMade
  /\ pushed \in 0 .. MaxPushed /\ sendErrors \in 0 .. MaxSendErrors

(* what waits in the buffer is of this session *)
ReceivedInSession == \A i \in 1 .. Len(rxbuff) : rxbuff[i].session = session

(* before the first CONNECT there is nothing to wait for *)
NotBegun ==
  session = 0 =>
    /\ mqttState \in {"DISCONNECTED", "CONNECTING"} /\ rxbuff = <<>>
    /\ owed = {} /\ timers = {} /\ awaited = {} /\ occurred = {}
MayConnect == "CONNECT" \in mqttTxFlags => session < MaxSessions
Fresh == mqttState = "WAITFORCONNACK" => awaited = {}

(* a request is not made while its reply is awaited *)
Flagged ==
  /\ awaited \cap {"SUBACK", "UNSUBACK"} \subseteq mqttRxFlags
  /\ "SUBSCRIBE" \in mqttTxFlags => "SUBACK" \notin mqttRxFlags
  /\ "UNSUBSCRIBE" \in mqttTxFlags => "UNSUBACK" \notin mqttRxFlags
  /\ "PINGREQ" \in mqttTxFlags => "PINGRESP" \notin awaited

(* in the first session, the timers are those of the replies awaited *)
FirstSession ==
  session <= 1 =>
    /\ timers \cap Timed \subseteq awaited
    /\ occurred \cap Timed \subseteq late
    /\ mqttState = "WAITFORCONNACK" => timers \subseteq {"CONNACK"}
LateOccurred == late \subseteq occurred

Types == FlagTypes /\ TimeTypes /\ Received /\ HistoryTypes /\ CountTypes
IInv ==
  /\ Types
  /\ ReceivedInSession /\ NotBegun /\ MayConnect /\ Fresh
  /\ Flagged /\ FirstSession /\ LateOccurred
  /\ SessionByItsConnack /\ TimersMatchReplies /\ TimersCreatedOnce /\ KeepAliveArmed

-----------------------------------------------------------------------------
LEMMA BoundsAreNat ==
  MaxSessions \in Nat /\ MaxMade \in Nat /\ MaxPushed \in Nat /\ MaxSendErrors \in Nat
  BY MqttCoreAssumption

LEMMA TypesAreTypeOK == Types => TypeOK
  BY DEF Types, FlagTypes, TimeTypes, Received, HistoryTypes, CountTypes, TypeOK, Packet

LEMMA InitEstablishesIInv == Init => IInv
<1> SUFFICES ASSUME Init PROVE IInv
  OBVIOUS
<1>1. FlagTypes /\ TimeTypes
  BY DEF Init, FlagTypes, TimeTypes
<1>5. HistoryTypes /\ CountTypes
  BY BoundsAreNat DEF Init, HistoryTypes, CountTypes
<1>2. Received /\ ReceivedInSession
  BY DEF Init, Received, ReceivedInSession
<1>3. /\ NotBegun /\ Fresh /\ Flagged /\ LateOccurred
      /\ MayConnect /\ FirstSession
  BY DEF Init, NotBegun, MayConnect, Fresh, Flagged, FirstSession, LateOccurred
<1>4. SessionByItsConnack /\ TimersMatchReplies /\ TimersCreatedOnce /\ KeepAliveArmed
  BY DEF Init, SessionByItsConnack, TimersMatchReplies, TimersCreatedOnce, KeepAliveArmed
<1> QED
  BY <1>1, <1>2, <1>3, <1>4, <1>5 DEF IInv, Types

-----------------------------------------------------------------------------
(* The receive buffer is emptied, loses its first packet, is kept, or gets  *)
(* packets of this session.                                                 *)
BufferStep ==
  \/ rxbuff' = <<>>
  \/ rxbuff # <<>> /\ rxbuff' = Tail(rxbuff) /\ session' = session
  \/ rxbuff' = rxbuff /\ session' = session
  \/ \E p, q \in [type : {"CONNACK", "PUBLISH", "PUBACK"} \cup Timed, good : BOOLEAN,
                   session : {session}] :
        /\ rxbuff' \in {<<p>>, <<p, q>>}
        /\ session' = session /\ session \in 1 .. MaxSessions

LEMMA BufferKeepsItsSession ==
  ASSUME Received, ReceivedInSession, BufferStep
  PROVE  Received' /\ ReceivedInSession'
<1>1. CASE rxbuff' = <<>>
  BY <1>1 DEF Received, ReceivedInSession
<1>2. CASE rxbuff # <<>> /\ rxbuff' = Tail(rxbuff) /\ session' = session
  <2>1. /\ Tail(rxbuff) \in Seq(Packet)
        /\ Len(Tail(rxbuff)) = Len(rxbuff) - 1
        /\ \A i \in 1 .. Len(Tail(rxbuff)) : Tail(rxbuff)[i] = rxbuff[i + 1]
    BY <1>2, HeadTailProperties DEF Received
  <2> QED
    BY <1>2, <2>1 DEF Received, ReceivedInSession
<1>3. CASE rxbuff' = rxbuff /\ session' = session
  BY <1>3 DEF Received, ReceivedInSession
<1>4. ASSUME NEW p \in [type : {"CONNACK", "PUBLISH", "PUBACK"} \cup Timed, good : BOOLEAN,
                        session : {session}],
             NEW q \in [type : {"CONNACK", "PUBLISH", "PUBACK"} \cup Timed, good : BOOLEAN,
                        session : {session}],
             rxbuff' \in {<<p>>, <<p, q>>},
             session' = session, session \in 1 .. MaxSessions
      PROVE  Received' /\ ReceivedInSession'
  <2>1. p \in Packet /\ q \in Packet /\ p.session = session /\ q.session = session
    BY <1>4 DEF Packet
  <2>2. CASE rxbuff' = <<p>>
    BY <1>4, <2>1, <2>2 DEF Received, ReceivedInSession
  <2>3. CASE rxbuff' = <<p, q>>
    BY <1>4, <2>1, <2>3 DEF Received, ReceivedInSession
  <2> QED
    BY <1>4, <2>2, <2>3
<1> QED
  BY <1>1, <1>2, <1>3, <1>4 DEF BufferStep

LEMMA HeadIsOfThisSession ==
  ASSUME Received, ReceivedInSession, rxbuff # <<>>
  PROVE  Head(rxbuff).session = session /\ session \in 1 .. MaxSessions
<1>1. Len(rxbuff) >= 1 /\ Head(rxbuff) = rxbuff[1] /\ rxbuff[1] \in Packet
  BY EmptySeq, HeadTailProperties, ElementOfSeq DEF Received
<1> QED
  BY <1>1 DEF ReceivedInSession, Packet

-----------------------------------------------------------------------------
(* The actions.  Types, Order and Timing are the invariant but for the      *)
(* buffer.                                                                  *)
OwnTypes == FlagTypes /\ TimeTypes /\ HistoryTypes /\ CountTypes
Order == NotBegun /\ MayConnect /\ Fresh /\ SessionByItsConnack /\ LateOccurred
Timing == Flagged /\ FirstSession /\ TimersMatchReplies /\ TimersCreatedOnce /\ KeepAliveArmed
Rest == OwnTypes /\ Order /\ Timing

LEMMA Creating ==
  ASSUME IInv, MQTT_CreateConnectPacket
  PROVE  Rest'
<1> USE BoundsAreNat DEF IInv, Types, Timers, Timed, Reply
<1>1. OwnTypes'
  BY DEF MQTT_CreateConnectPacket, flags, time, history, counts, FlagTypes,
      TimeTypes, HistoryTypes, CountTypes, LateOccurred, Flagged, OwnTypes
<1>2. Order'
  BY DEF MQTT_CreateConnectPacket, flags, time, history, counts, NotBegun,
      MayConnect, Fresh, SessionByItsConnack, LateOccurred, HistoryTypes,
      Flagged, Order
<1>3. Timing'
  BY DEF MQTT_CreateConnectPacket, flags, time, history, counts, Flagged,
      FirstSession, TimersMatchReplies, TimersCreatedOnce, KeepAliveArmed, TimeTypes,
      HistoryTypes, LateOccurred, Fresh, NotBegun, Timing
<1> QED
  BY <1>1, <1>2, <1>3 DEF Rest

LEMMA CreatingPublish ==
  ASSUME IInv, \E q \in {0, 1} : MQTT_CreatePublishPacket(q)
  PROVE  Rest'
<1> USE BoundsAreNat DEF IInv, Types, Timers, Timed, Reply
<1>1. OwnTypes'
  <2>1. FlagTypes'
    BY DEF MQTT_CreatePublishPacket, make, time, history, FlagTypes
  <2>2. TimeTypes'
    BY DEF MQTT_CreatePublishPacket, make, time, history, TimeTypes
  <2>3. HistoryTypes'
    BY DEF MQTT_CreatePublishPacket, make, time, history, HistoryTypes, LateOccurred,
        Flagged, MayConnect
  <2>4. CountTypes'
    BY DEF MQTT_CreatePublishPacket, make, time, history, CountTypes
  <2> QED
    BY <2>1, <2>2, <2>3, <2>4 DEF OwnTypes
<1>2. Order'
  BY DEF MQTT_CreatePublishPacket, make, time, history, NotBegun, MayConnect,
      Fresh, SessionByItsConnack, LateOccurred, HistoryTypes, Flagged, Order
<1>3. Timing'
  BY DEF MQTT_CreatePublishPacket, make, time, history, Flagged, FirstSession,
      TimersMatchReplies, TimersCreatedOnce, KeepAliveArmed, TimeTypes, HistoryTypes,
      LateOccurred, Fresh, NotBegun, Timing
<1> QED
  BY <1>1, <1>2, <1>3 DEF Rest

LEMMA CreatingRequest ==
  ASSUME IInv, MQTT_CreateSubscribePacket \/ MQTT_CreateUnsubscribePacket
  PROVE  Rest'
<1> USE BoundsAreNat DEF IInv, Types, Timers, Timed, Reply
<1>1. OwnTypes'
  <2>1. FlagTypes'
    BY DEF MQTT_CreateSubscribePacket, MQTT_CreateUnsubscribePacket, create, make,
        time, history, FlagTypes
  <2>2. TimeTypes'
    BY DEF MQTT_CreateSubscribePacket, MQTT_CreateUnsubscribePacket, create, make,
        time, history, TimeTypes
  <2>3. HistoryTypes'
    BY DEF MQTT_CreateSubscribePacket, MQTT_CreateUnsubscribePacket, create, make,
        time, history, HistoryTypes, LateOccurred, Flagged, MayConnect
  <2>4. CountTypes'
    BY DEF MQTT_CreateSubscribePacket, MQTT_CreateUnsubscribePacket, create, make,
        time, history, CountTypes
  <2> QED
    BY <2>1, <2>2, <2>3, <2>4 DEF OwnTypes
<1>2. Order'
  BY DEF MQTT_CreateSubscribePacket, MQTT_CreateUnsubscribePacket, create, make,
      time, history, NotBegun, MayConnect, Fresh, SessionByItsConnack,
      LateOccurred, HistoryTypes, Flagged, Order
<1>3. Timing'
  <2>1. Flagged'
    BY DEF MQTT_CreateSubscribePacket, MQTT_CreateUnsubscribePacket, create, make,
        time, history, Flagged, HistoryTypes, Fresh, FlagTypes
  <2>2. FirstSession'
    BY DEF MQTT_CreateSubscribePacket, MQTT_CreateUnsubscribePacket, create, make,
        time, history, FirstSession, HistoryTypes, LateOccurred, NotBegun, Fresh,
        Flagged
  <2>3. TimersMatchReplies'
    BY DEF MQTT_CreateSubscribePacket, MQTT_CreateUnsubscribePacket, create, make,
        time, history, TimersMatchReplies, HistoryTypes, NotBegun, FirstSession,
        Fresh, LateOccurred, Flagged
  <2>4. TimersCreatedOnce'
    BY DEF MQTT_CreateSubscribePacket, MQTT_CreateUnsubscribePacket, create, make,
        time, history, TimersCreatedOnce, HistoryTypes, NotBegun, FirstSession,
        Fresh, Flagged
  <2>5. KeepAliveArmed'
    BY DEF MQTT_CreateSubscribePacket, MQTT_CreateUnsubscribePacket, create, make,
        time, history, KeepAliveArmed
  <2> QED
    BY <2>1, <2>2, <2>3, <2>4, <2>5 DEF Timing
<1> QED
  BY <1>1, <1>2, <1>3 DEF Rest

LEMMA Disconnecting ==
  ASSUME IInv, MQTT_Disconnect
  PROVE  Rest'
<1> USE BoundsAreNat DEF IInv, Types, Timers, Timed, Reply
<1>1. OwnTypes'
  <2>1. FlagTypes'
    BY DEF MQTT_Disconnect, sent, notSent, history, FlagTypes
  <2>2. TimeTypes'
    BY DEF MQTT_Disconnect, sent, notSent, history, TimeTypes
  <2>3. HistoryTypes'
    BY DEF MQTT_Disconnect, sent, notSent, history, HistoryTypes, LateOccurred,
        Flagged, MayConnect
  <2>4. CountTypes'
    BY DEF MQTT_Disconnect, sent, notSent, history, CountTypes
  <2> QED
    BY <2>1, <2>2, <2>3, <2>4 DEF OwnTypes
<1>2. Order'
  BY DEF MQTT_Disconnect, sent, notSent, history, NotBegun, MayConnect, Fresh,
      SessionByItsConnack, LateOccurred, HistoryTypes, Flagged, Order
<1>3. Timing'
  BY DEF MQTT_Disconnect, sent, notSent, history, Flagged, FirstSession,
      TimersMatchReplies, TimersCreatedOnce, KeepAliveArmed, TimeTypes, HistoryTypes,
      LateOccurred, Fresh, NotBegun, Timing
<1> QED
  BY <1>1, <1>2, <1>3 DEF Rest

LEMMA Expiring ==
  ASSUME IInv, \E timer \in Timers : expires(timer)
  PROVE  Rest'
<1> USE BoundsAreNat DEF IInv, Types, Timers, Timed, Reply
<1>1. OwnTypes'
  BY DEF expires, flags, counts, FlagTypes, TimeTypes, HistoryTypes, CountTypes,
      LateOccurred, Flagged, OwnTypes
<1>2. Order'
  BY DEF expires, flags, counts, NotBegun, MayConnect, Fresh, SessionByItsConnack,
      LateOccurred, HistoryTypes, Flagged, Order
<1>3. Timing'
  BY DEF expires, flags, counts, Flagged, FirstSession, TimersMatchReplies,
      TimersCreatedOnce, KeepAliveArmed, TimeTypes, HistoryTypes, LateOccurred, Fresh, NotBegun,
      Timing
<1> QED
  BY <1>1, <1>2, <1>3 DEF Rest

LEMMA SendingConnect ==
  ASSUME IInv, mqttSendConnect
  PROVE  Rest'
<1> USE BoundsAreNat DEF IInv, Types, Timers, Timed, Reply
<1>1. OwnTypes'
  <2>1. FlagTypes'
    BY DEF mqttSendConnect, create_delete, sent, notSent, time, FlagTypes
  <2>2. TimeTypes'
    BY DEF mqttSendConnect, create_delete, sent, notSent, time, TimeTypes
  <2>3. HistoryTypes'
    <3>1. session \in 0 .. MaxSessions /\ session < MaxSessions /\ accepted \in 0 .. session
      BY DEF mqttSendConnect, HistoryTypes, MayConnect
    <3>2. session' \in 0 .. MaxSessions /\ accepted' \in 0 .. session'
      BY <3>1 DEF mqttSendConnect
    <3>3. owed' \subseteq DOMAIN Reply /\ awaited' \subseteq Timed /\ late' \subseteq awaited'
      BY DEF mqttSendConnect, HistoryTypes
    <3> QED
      BY <3>2, <3>3 DEF HistoryTypes
  <2>4. CountTypes'
    BY DEF mqttSendConnect, create_delete, sent, notSent, time, CountTypes
  <2> QED
    BY <2>1, <2>2, <2>3, <2>4 DEF OwnTypes
<1>2. Order'
  <2>1. NotBegun'
    <3>1. session \in Nat /\ (session' = 0 => session' = session)
      BY DEF mqttSendConnect, HistoryTypes
    <3>2. session' = session => UNCHANGED <<mqttState, time, owed, awaited>>
      BY <3>1 DEF mqttSendConnect
    <3> QED
      BY <3>1, <3>2 DEF mqttSendConnect, NotBegun, time
  <2>2. MayConnect'
    BY DEF mqttSendConnect, create_delete, sent, notSent, time, MayConnect,
        HistoryTypes
  <2>3. Fresh'
    BY DEF mqttSendConnect, create_delete, sent, notSent, time, Fresh
  <2>4. SessionByItsConnack'
    BY DEF mqttSendConnect, create_delete, sent, notSent, time, SessionByItsConnack,
        HistoryTypes
  <2>5. LateOccurred'
    BY DEF mqttSendConnect, create_delete, sent, notSent, time, LateOccurred,
        HistoryTypes, Flagged
  <2> QED
    BY <2>1, <2>2, <2>3, <2>4, <2>5 DEF Order
<1>3. Timing'
  <2>1. Flagged'
    BY DEF mqttSendConnect, create_delete, sent, notSent, time, Flagged,
        HistoryTypes, Fresh, FlagTypes
  <2>2. FirstSession'
    BY DEF mqttSendConnect, create_delete, sent, notSent, time, FirstSession,
        HistoryTypes, LateOccurred, NotBegun, Fresh, Flagged
  <2>3. TimersMatchReplies'
    BY DEF mqttSendConnect, create_delete, sent, notSent, time, TimersMatchReplies,
        HistoryTypes, NotBegun, FirstSession, Fresh, LateOccurred, Flagged
  <2>4. TimersCreatedOnce'
    <3>1. session \in Nat /\ (session' = session \/ session' = session + 1)
      BY DEF mqttSendConnect, HistoryTypes
    <3>2. CASE session' = session
      <4>1. doubled' = doubled
        BY <3>1, <3>2 DEF mqttSendConnect, time
      <4> QED
        BY <3>2, <4>1 DEF TimersCreatedOnce
    <3>3. CASE session' = session + 1 /\ session # 0
      BY <3>1, <3>3 DEF TimersCreatedOnce
    <3>4. CASE session' = session + 1 /\ session = 0
      <4>1. timers = {} /\ ~doubled
        BY <3>4 DEF NotBegun, TimersCreatedOnce
      <4>2. doubled' = (doubled \/ {"CONNACK"} \cap (timers \ {}) # {})
        BY <3>1, <3>4 DEF mqttSendConnect, create_delete
      <4> QED
        BY <4>1, <4>2 DEF TimersCreatedOnce
    <3> QED
      BY <3>1, <3>2, <3>3, <3>4
  <2>5. KeepAliveArmed'
    BY DEF mqttSendConnect, create_delete, sent, notSent, time, KeepAliveArmed
  <2> QED
    BY <2>1, <2>2, <2>3, <2>4, <2>5 DEF Timing
<1> QED
  BY <1>1, <1>2, <1>3 DEF Rest

LEMMA SendingPublish ==
  ASSUME IInv, mqttSendPublish
  PROVE  Rest'
<1> USE BoundsAreNat DEF IInv, Types, Timers, Timed, Reply
<1>1. OwnTypes'
  <2>1. FlagTypes'
    BY DEF mqttSendPublish, next, PingTimer, create_delete, sent, notSent, history,
        FlagTypes
  <2>2. TimeTypes'
    BY DEF mqttSendPublish, next, PingTimer, create_delete, sent, notSent, history,
        TimeTypes
  <2>3. HistoryTypes'
    BY DEF mqttSendPublish, next, PingTimer, create_delete, sent, notSent, history,
        HistoryTypes, LateOccurred, Flagged, MayConnect
  <2>4. CountTypes'
    BY DEF mqttSendPublish, next, PingTimer, create_delete, sent, notSent, history,
        CountTypes
  <2> QED
    BY <2>1, <2>2, <2>3, <2>4 DEF OwnTypes
<1>2. Order'
  BY DEF mqttSendPublish, next, PingTimer, create_delete, sent, notSent, history,
      NotBegun, MayConnect, Fresh, SessionByItsConnack, LateOccurred,
      HistoryTypes, Flagged, Order
<1>3. Timing'
  BY DEF mqttSendPublish, next, PingTimer, create_delete, sent, notSent, history,
      Flagged, FirstSession, TimersMatchReplies, TimersCreatedOnce, KeepAliveArmed, TimeTypes,
      HistoryTypes, LateOccurred, Fresh, NotBegun, Timing
<1> QED
  BY <1>1, <1>2, <1>3 DEF Rest

LEMMA SendingSubscribe ==
  ASSUME IInv, send("SUBSCRIBE")
  PROVE  Rest'
<1> USE BoundsAreNat DEF IInv, Types, Timers, Timed, Reply
<1>1. OwnTypes'
  <2>1. FlagTypes'
    BY DEF send, next, PingTimer, create_delete, sent, notSent, FlagTypes
  <2>2. TimeTypes'
    BY DEF send, next, PingTimer, create_delete, sent, notSent, TimeTypes
  <2>3. HistoryTypes'
    BY DEF send, next, PingTimer, create_delete, sent, notSent, HistoryTypes,
        LateOccurred, Flagged, MayConnect
  <2>4. CountTypes'
    BY DEF send, next, PingTimer, create_delete, sent, notSent, CountTypes
  <2> QED
    BY <2>1, <2>2, <2>3, <2>4 DEF OwnTypes
<1>2. Order'
  BY DEF send, next, PingTimer, create_delete, sent, notSent, NotBegun, MayConnect,
      Fresh, SessionByItsConnack, LateOccurred, HistoryTypes, Flagged, Order
<1>3. Timing'
  <2>1. Flagged'
    BY DEF send, next, PingTimer, create_delete, sent, notSent, Flagged,
        HistoryTypes, Fresh, FlagTypes
  <2>2. FirstSession'
    BY DEF send, next, PingTimer, create_delete, sent, notSent, FirstSession,
        HistoryTypes, LateOccurred, NotBegun, Fresh, Flagged
  <2>3. TimersMatchReplies'
    BY DEF send, next, PingTimer, create_delete, sent, notSent, TimersMatchReplies,
        HistoryTypes, NotBegun, FirstSession, Fresh, LateOccurred, Flagged
  <2>4. TimersCreatedOnce'
    <3>1. session <= 1 => "SUBACK" \notin timers
      BY DEF send, next, HistoryTypes, Flagged, FirstSession
    <3>2. session' = session /\ (session \in Nat)
      BY DEF send, HistoryTypes
    <3>3. doubled' => doubled \/ "SUBACK" \in timers
      BY DEF send, PingTimer, create_delete, sent, notSent
    <3> QED
      BY <3>1, <3>2, <3>3 DEF TimersCreatedOnce
  <2>5. KeepAliveArmed'
    BY DEF send, next, PingTimer, create_delete, sent, notSent, KeepAliveArmed
  <2> QED
    BY <2>1, <2>2, <2>3, <2>4, <2>5 DEF Timing
<1> QED
  BY <1>1, <1>2, <1>3 DEF Rest

LEMMA SendingUnsubscribe ==
  ASSUME IInv, send("UNSUBSCRIBE")
  PROVE  Rest'
<1> USE BoundsAreNat DEF IInv, Types, Timers, Timed, Reply
<1>1. OwnTypes'
  <2>1. FlagTypes'
    BY DEF send, next, PingTimer, create_delete, sent, notSent, FlagTypes
  <2>2. TimeTypes'
    BY DEF send, next, PingTimer, create_delete, sent, notSent, TimeTypes
  <2>3. HistoryTypes'
    BY DEF send, next, PingTimer, create_delete, sent, notSent, HistoryTypes,
        LateOccurred, Flagged, MayConnect
  <2>4. CountTypes'
    BY DEF send, next, PingTimer, create_delete, sent, notSent, CountTypes
  <2> QED
    BY <2>1, <2>2, <2>3, <2>4 DEF OwnTypes
<1>2. Order'
  BY DEF send, next, PingTimer, create_delete, sent, notSent, NotBegun, MayConnect,
      Fresh, SessionByItsConnack, LateOccurred, HistoryTypes, Flagged, Order
<1>3. Timing'
  <2>1. Flagged'
    BY DEF send, next, PingTimer, create_delete, sent, notSent, Flagged,
        HistoryTypes, Fresh, FlagTypes
  <2>2. FirstSession'
    BY DEF send, next, PingTimer, create_delete, sent, notSent, FirstSession,
        HistoryTypes, LateOccurred, NotBegun, Fresh, Flagged
  <2>3. TimersMatchReplies'
    BY DEF send, next, PingTimer, create_delete, sent, notSent, TimersMatchReplies,
        HistoryTypes, NotBegun, FirstSession, Fresh, LateOccurred, Flagged
  <2>4. TimersCreatedOnce'
    <3>1. session <= 1 => "UNSUBACK" \notin timers
      BY DEF send, next, HistoryTypes, Flagged, FirstSession
    <3>2. session' = session /\ (session \in Nat)
      BY DEF send, HistoryTypes
    <3>3. doubled' => doubled \/ "UNSUBACK" \in timers
      BY DEF send, PingTimer, create_delete, sent, notSent
    <3> QED
      BY <3>1, <3>2, <3>3 DEF TimersCreatedOnce
  <2>5. KeepAliveArmed'
    BY DEF send, next, PingTimer, create_delete, sent, notSent, KeepAliveArmed
  <2> QED
    BY <2>1, <2>2, <2>3, <2>4, <2>5 DEF Timing
<1> QED
  BY <1>1, <1>2, <1>3 DEF Rest

LEMMA SendingPingreq ==
  ASSUME IInv, mqttSendPingreq
  PROVE  Rest'
<1> USE BoundsAreNat DEF IInv, Types, Timers, Timed, Reply
<1>1. OwnTypes'
  <2>1. FlagTypes'
    BY DEF mqttSendPingreq, next, create_delete, sent, notSent, flags, FlagTypes
  <2>2. TimeTypes'
    BY DEF mqttSendPingreq, next, create_delete, sent, notSent, flags, TimeTypes
  <2>3. HistoryTypes'
    BY DEF mqttSendPingreq, next, create_delete, sent, notSent, flags, HistoryTypes,
        LateOccurred, Flagged, MayConnect
  <2>4. CountTypes'
    BY DEF mqttSendPingreq, next, create_delete, sent, notSent, flags, CountTypes
  <2> QED
    BY <2>1, <2>2, <2>3, <2>4 DEF OwnTypes
<1>2. Order'
  BY DEF mqttSendPingreq, next, create_delete, sent, notSent, flags, NotBegun,
      MayConnect, Fresh, SessionByItsConnack, LateOccurred, HistoryTypes,
      Flagged, Order
<1>3. Timing'
  <2>1. Flagged'
    BY DEF mqttSendPingreq, next, create_delete, sent, notSent, flags, Flagged,
        HistoryTypes, Fresh, FlagTypes
  <2>2. FirstSession'
    BY DEF mqttSendPingreq, next, create_delete, sent, notSent, flags, FirstSession,
        HistoryTypes, LateOccurred, NotBegun, Fresh, Flagged
  <2>3. TimersMatchReplies'
    BY DEF mqttSendPingreq, next, create_delete, sent, notSent, flags,
        TimersMatchReplies, HistoryTypes, NotBegun, FirstSession, Fresh,
        LateOccurred, Flagged
  <2>4. TimersCreatedOnce'
    <3>1. session <= 1 => "PINGRESP" \notin timers
      BY DEF mqttSendPingreq, next, HistoryTypes, Flagged, FirstSession
    <3>2. session' = session /\ (session \in Nat)
      BY DEF mqttSendPingreq, HistoryTypes
    <3>3. doubled' => doubled \/ "PINGRESP" \in timers
      BY DEF mqttSendPingreq, create_delete, sent, notSent
    <3> QED
      BY <3>1, <3>2, <3>3 DEF TimersCreatedOnce
  <2>5. KeepAliveArmed'
    <3>1. mqttState' = mqttState /\ timers \subseteq timers' /\ (doubled => doubled')
      BY DEF mqttSendPingreq, create_delete, sent, notSent, TimeTypes
    <3>2. /\ "PINGREQ" \in mqttTxFlags => "PINGREQ" \in mqttTxFlags' \/ "PINGRESP" \in awaited'
          /\ "PINGRESP" \in awaited => "PINGRESP" \in awaited'
      BY DEF mqttSendPingreq, sent, notSent, flags
    <3> QED
      BY <3>1, <3>2 DEF KeepAliveArmed
  <2> QED
    BY <2>1, <2>2, <2>3, <2>4, <2>5 DEF Timing
<1> QED
  BY <1>1, <1>2, <1>3 DEF Rest

LEMMA ClosingLate ==
  ASSUME IInv, closeLate \/ connackMissing
  PROVE  Rest'
<1> USE BoundsAreNat DEF IInv, Types, Timers, Timed, Reply
<1>1. OwnTypes'
  BY DEF closeLate, connackMissing, replyIsLate, ends, MQTT_Close, create_delete,
      flags, time, history, counts, FlagTypes, TimeTypes, HistoryTypes,
      CountTypes, LateOccurred, Flagged, OwnTypes
<1>2. Order'
  BY DEF closeLate, connackMissing, replyIsLate, ends, MQTT_Close, create_delete,
      flags, time, history, counts, NotBegun, MayConnect, Fresh,
      SessionByItsConnack, LateOccurred, HistoryTypes, Flagged, Order
<1>3. Timing'
  BY DEF closeLate, connackMissing, replyIsLate, ends, MQTT_Close, create_delete,
      flags, time, history, counts, Flagged, FirstSession, TimersMatchReplies,
      TimersCreatedOnce, KeepAliveArmed, TimeTypes, HistoryTypes, LateOccurred, Fresh, NotBegun,
      Timing
<1> QED
  BY <1>1, <1>2, <1>3 DEF Rest

LEMMA ProcessingConnack ==
  ASSUME IInv, mqttProcessConnack
  PROVE  Rest'
<1> USE BoundsAreNat DEF IInv, Types, Timers, Timed, Reply
<1>h. Head(rxbuff).session = session /\ session \in 1 .. MaxSessions
  BY HeadIsOfThisSession DEF mqttProcessConnack, received
<1>1. OwnTypes'
  <2>1. FlagTypes'
    BY <1>h
    DEF mqttProcessConnack, received, replyIsLate, PingTimer, create_delete,
        counts, FlagTypes
  <2>2. TimeTypes'
    BY <1>h
    DEF mqttProcessConnack, received, replyIsLate, PingTimer, create_delete,
        counts, TimeTypes
  <2>3. HistoryTypes'
    BY <1>h
    DEF mqttProcessConnack, received, replyIsLate, PingTimer, create_delete,
        counts, HistoryTypes, LateOccurred, Flagged, MayConnect
  <2>4. CountTypes'
    BY <1>h
    DEF mqttProcessConnack, received, replyIsLate, PingTimer, create_delete,
        counts, CountTypes
  <2> QED
    BY <2>1, <2>2, <2>3, <2>4 DEF OwnTypes
<1>2. Order'
  BY <1>h
  DEF mqttProcessConnack, received, replyIsLate, PingTimer, create_delete,
      counts, NotBegun, MayConnect, Fresh, SessionByItsConnack, LateOccurred,
      HistoryTypes, Flagged, Order
<1>3. Timing'
  BY <1>h
  DEF mqttProcessConnack, received, replyIsLate, PingTimer, create_delete,
      counts, Flagged, FirstSession, TimersMatchReplies, TimersCreatedOnce, KeepAliveArmed,
      TimeTypes, HistoryTypes, LateOccurred, Fresh, NotBegun, Timing
<1> QED
  BY <1>1, <1>2, <1>3 DEF Rest

LEMMA ProcessingPingresp ==
  ASSUME IInv, mqttProcessPingresp
  PROVE  Rest'
<1> USE BoundsAreNat DEF IInv, Types, Timers, Timed, Reply
<1>1. OwnTypes'
  BY DEF mqttProcessPingresp, inSession, received, replyIsLate, PingTimer,
      create_delete, counts, FlagTypes, TimeTypes, HistoryTypes, CountTypes,
      LateOccurred, Flagged, OwnTypes
<1>2. Order'
  BY DEF mqttProcessPingresp, inSession, received, replyIsLate, PingTimer,
      create_delete, counts, NotBegun, MayConnect, Fresh, SessionByItsConnack,
      LateOccurred, HistoryTypes, Flagged, Order
<1>3. Timing'
  BY DEF mqttProcessPingresp, inSession, received, replyIsLate, PingTimer,
      create_delete, counts, Flagged, FirstSession, TimersMatchReplies,
      TimersCreatedOnce, KeepAliveArmed, TimeTypes, HistoryTypes, LateOccurred, Fresh, NotBegun,
      Timing
<1> QED
  BY <1>1, <1>2, <1>3 DEF Rest

LEMMA ProcessingAck ==
  ASSUME IInv, processAck("SUBACK") \/ processAck("UNSUBACK")
  PROVE  Rest'
<1> USE BoundsAreNat DEF IInv, Types, Timers, Timed, Reply
<1>1. OwnTypes'
  BY DEF processAck, inSession, received, replyIsLate, create_delete, counts,
      FlagTypes, TimeTypes, HistoryTypes, CountTypes, LateOccurred, Flagged,
      OwnTypes
<1>2. Order'
  BY DEF processAck, inSession, received, replyIsLate, create_delete, counts,
      NotBegun, MayConnect, Fresh, SessionByItsConnack, LateOccurred,
      HistoryTypes, Flagged, Order
<1>3. Timing'
  BY DEF processAck, inSession, received, replyIsLate, create_delete, counts,
      Flagged, FirstSession, TimersMatchReplies, TimersCreatedOnce, KeepAliveArmed, TimeTypes,
      HistoryTypes, LateOccurred, Fresh, NotBegun, Timing
<1> QED
  BY <1>1, <1>2, <1>3 DEF Rest

LEMMA ProcessingPublish ==
  ASSUME IInv, mqttProcessPublish \/ mqttProcessPuback
  PROVE  Rest'
<1> USE BoundsAreNat DEF IInv, Types, Timers, Timed, Reply
<1>1. OwnTypes'
  BY DEF mqttProcessPublish, mqttProcessPuback, inSession, received, replyIsLate,
      flags, time, history, counts, FlagTypes, TimeTypes, HistoryTypes,
      CountTypes, LateOccurred, Flagged, OwnTypes
<1>2. Order'
  BY DEF mqttProcessPublish, mqttProcessPuback, inSession, received, replyIsLate,
      flags, time, history, counts, NotBegun, MayConnect, Fresh,
      SessionByItsConnack, LateOccurred, HistoryTypes, Flagged, Order
<1>3. Timing'
  <2>1. Flagged'
    BY DEF mqttProcessPublish, mqttProcessPuback, inSession, received, replyIsLate,
        flags, time, history, counts, Flagged, HistoryTypes, Fresh, FlagTypes
  <2>2. FirstSession'
    BY DEF mqttProcessPublish, mqttProcessPuback, inSession, received, replyIsLate,
        flags, time, history, counts, FirstSession, HistoryTypes, LateOccurred,
        NotBegun, Fresh, Flagged
  <2>3. TimersMatchReplies'
    BY DEF mqttProcessPublish, mqttProcessPuback, inSession, received, replyIsLate,
        flags, time, history, counts, TimersMatchReplies, HistoryTypes, NotBegun,
        FirstSession, Fresh, LateOccurred, Flagged
  <2>4. TimersCreatedOnce'
    BY DEF mqttProcessPublish, mqttProcessPuback, inSession, received, replyIsLate,
        flags, time, history, counts, TimersCreatedOnce, HistoryTypes, NotBegun,
        FirstSession, Fresh, Flagged
  <2>5. KeepAliveArmed'
    BY DEF mqttProcessPublish, mqttProcessPuback, inSession, received, replyIsLate,
        flags, time, history, counts, KeepAliveArmed
  <2> QED
    BY <2>1, <2>2, <2>3, <2>4, <2>5 DEF Timing
<1> QED
  BY <1>1, <1>2, <1>3 DEF Rest

LEMMA Receiving ==
  ASSUME IInv, \E requests \in segments : MQTT_GetReceivedData(requests)
  PROVE  Rest'
<1> USE BoundsAreNat DEF IInv, Types, Timers, Timed, Reply
<1>0. PICK requests \in segments : MQTT_GetReceivedData(requests)
  OBVIOUS
<1>1. OwnTypes'
  BY <1>0
  DEF MQTT_GetReceivedData, flags, time, history, FlagTypes, TimeTypes,
      HistoryTypes, CountTypes, LateOccurred, Flagged, OwnTypes
<1>2. Order'
  <2>1. NotBegun'
    BY <1>0
    DEF MQTT_GetReceivedData, flags, time, history, NotBegun, HistoryTypes,
        segments
  <2>2. MayConnect'
    BY <1>0
    DEF MQTT_GetReceivedData, flags, time, history, MayConnect, HistoryTypes
  <2>3. Fresh'
    BY <1>0
    DEF MQTT_GetReceivedData, flags, time, history, Fresh
  <2>4. SessionByItsConnack'
    BY <1>0
    DEF MQTT_GetReceivedData, flags, time, history, SessionByItsConnack,
        HistoryTypes
  <2>5. LateOccurred'
    BY <1>0
    DEF MQTT_GetReceivedData, flags, time, history, LateOccurred, HistoryTypes,
        Flagged
  <2> QED
    BY <2>1, <2>2, <2>3, <2>4, <2>5 DEF Order
<1>3. Timing'
  BY <1>0
  DEF MQTT_GetReceivedData, flags, time, history, Flagged, FirstSession,
      TimersMatchReplies, TimersCreatedOnce, KeepAliveArmed, TimeTypes, HistoryTypes,
      LateOccurred, Fresh, NotBegun, Timing
<1> QED
  BY <1>1, <1>2, <1>3 DEF Rest

-----------------------------------------------------------------------------
(* The buffer *)
LEMMA SendingEmptiesBuffer ==
  ASSUME MQTT_TransmissionHandler
  PROVE  BufferStep
  BY DEF MQTT_TransmissionHandler, mqttSendConnect, mqttSendPublish, mqttSendPingreq,
         send, BufferStep

LEMMA ApplicationKeepsBuffer ==
  ASSUME Application
  PROVE  BufferStep
  BY DEF Application, MQTT_CreateConnectPacket, MQTT_Disconnect, MQTT_CreatePublishPacket,
         MQTT_CreateSubscribePacket, MQTT_CreateUnsubscribePacket, create, BufferStep

LEMMA ReceptionTakesFromBuffer ==
  ASSUME MQTT_ReceptionHandler
  PROVE  BufferStep
  BY DEF MQTT_ReceptionHandler, closeLate, mqttProcessConnack, connackMissing,
         mqttProcessPingresp, processAck, mqttProcessPublish, mqttProcessPuback,
         inSession, received, history, BufferStep

LEMMA ExpiryKeepsBuffer ==
  ASSUME NEW timer, expires(timer)
  PROVE  BufferStep
  BY DEF expires, BufferStep

(* a request is answered, and a PUBLISH pushed, in a session only *)
LEMMA ReceivedPacketsAreOfThisSession ==
  ASSUME IInv, \E requests \in segments : MQTT_GetReceivedData(requests)
  PROVE  BufferStep
<1>1. PICK requests \in segments : MQTT_GetReceivedData(requests)
  OBVIOUS
<1>2. session \in 1 .. MaxSessions /\ session' = session
  <2>1. "push" \in requests \/ owed # {} \/ requests = {}
    BY DEF segments
  <2>2. PICK request \in requests : TRUE
    BY <1>1 DEF MQTT_GetReceivedData
  <2>3. session # 0
    BY <1>1, <2>1, <2>2 DEF MQTT_GetReceivedData, IInv, NotBegun
  <2> QED
    BY <1>1, <2>3, BoundsAreNat DEF MQTT_GetReceivedData, IInv, Types, HistoryTypes
<1> DEFINE Packets == [type : {"CONNACK", "PUBLISH", "PUBACK"} \cup Timed, good : BOOLEAN,
                       session : {session}]
<1>3. ASSUME NEW request \in requests PROVE packets(request) \subseteq Packets
  <2>1. request \in DOMAIN Reply \cup {"push"}
    BY <1>1 DEF segments, IInv, Types, HistoryTypes
  <2>2. CASE request = "push"
    BY <2>2 DEF packets
  <2>3. CASE request # "push"
    <3>1. Reply[request] \in {"CONNACK", "PUBLISH", "PUBACK"} \cup Timed
      BY <2>1, <2>3 DEF Reply, Timed
    <3> QED
      BY <3>1, <2>3 DEF packets
  <2> QED
    BY <2>2, <2>3
<1>4. PICK p \in Packets, q \in Packets : rxbuff' \in {<<p>>, <<p, q>>}
  <2>1. PICK first \in requests : \E p \in packets(first) :
           \/ rxbuff' = <<p>>
           \/ \E second \in requests : \E q \in packets(second) : rxbuff' = <<p, q>>
    BY <1>1 DEF MQTT_GetReceivedData
  <2> QED
    BY <2>1, <1>3
<1> QED
  BY <1>2, <1>4 DEF BufferStep

-----------------------------------------------------------------------------
LEMMA NextPreservesIInv == IInv /\ [Next]_vars => IInv'
<1> SUFFICES ASSUME IInv, [Next]_vars PROVE IInv'
  OBVIOUS
<1>1. CASE UNCHANGED vars
  BY <1>1 DEF vars, flags, time, history, counts, IInv, Types, FlagTypes, TimeTypes, Received,
     HistoryTypes, CountTypes, ReceivedInSession, NotBegun, MayConnect, Fresh, Flagged,
     FirstSession, LateOccurred, SessionByItsConnack, TimersMatchReplies, TimersCreatedOnce,
     KeepAliveArmed
<1>2. ASSUME BufferStep, Rest' PROVE IInv'
  <2>1. Received' /\ ReceivedInSession'
    BY <1>2, BufferKeepsItsSession DEF IInv, Types
  <2> QED
    BY <1>2, <2>1 DEF IInv, Types, Rest, OwnTypes, Order, Timing
<1>3. CASE Application
  <2>1. Rest'
    BY <1>3, Creating, CreatingPublish, CreatingRequest, Disconnecting DEF Application
  <2> QED
    BY <1>2, <1>3, <2>1, ApplicationKeepsBuffer
<1>4. CASE MQTT_TransmissionHandler
  <2>1. Rest'
    BY <1>4, SendingConnect, SendingPublish, SendingSubscribe, SendingUnsubscribe,
       SendingPingreq DEF MQTT_TransmissionHandler
  <2> QED
    BY <1>2, <1>4, <2>1, SendingEmptiesBuffer
<1>5. CASE MQTT_ReceptionHandler
  <2>1. Rest'
    BY <1>5, ClosingLate, ProcessingConnack, ProcessingPingresp, ProcessingAck,
       ProcessingPublish DEF MQTT_ReceptionHandler
  <2> QED
    BY <1>2, <1>5, <2>1, ReceptionTakesFromBuffer
<1>6. CASE \E timer \in Timers : expires(timer)
  BY <1>2, <1>6, Expiring, ExpiryKeepsBuffer
<1>7. CASE \E requests \in segments : MQTT_GetReceivedData(requests)
  BY <1>2, <1>7, Receiving, ReceivedPacketsAreOfThisSession
<1> QED
  BY <1>1, <1>3, <1>4, <1>5, <1>6, <1>7 DEF Next

LEMMA InvariantHolds == Spec => []IInv
  BY InitEstablishesIInv, NextPreservesIInv, PTL DEF Spec

(* Every variable keeps its type, and the buffer holds two packets at most. *)
THEOREM TypeCorrect == Spec => []TypeOK
<1>1. IInv => TypeOK
  BY TypesAreTypeOK DEF IInv
<1> QED
  BY InvariantHolds, <1>1, PTL

(* A session is entered by the CONNACK of its own CONNECT (mqtt_core.c:     *)
(* 679-680).                                                                *)
THEOREM OwnConnack == Spec => []SessionByItsConnack
<1>1. IInv => SessionByItsConnack
  BY DEF IInv
<1> QED
  BY InvariantHolds, <1>1, PTL

(* A reply that is awaited is timed, and in the first session only such a   *)
(* reply is ever late (mqtt_core.c:1105-1112, 1245-1339).                   *)
THEOREM TimersMatch == Spec => []TimersMatchReplies
<1>1. IInv => TimersMatchReplies
  BY DEF IInv
<1> QED
  BY InvariantHolds, <1>1, PTL

(* In one session, no timer is created while it is in the list of the       *)
(* scheduler (timeout.c would close the list to a ring).                    *)
THEOREM NoTimerTwice == Spec => []TimersCreatedOnce
<1>1. IInv => TimersCreatedOnce
  BY DEF IInv
<1> QED
  BY InvariantHolds, <1>1, PTL

(* With a keep-alive time, a session always has its next sign of life       *)
(* under way: no publish, failed send or timer an earlier session left      *)
(* disarms it (mqtt_core.c:1064-1083, 815-833).                             *)
THEOREM KeepAliveStaysArmed == Spec => []KeepAliveArmed
<1>1. IInv => KeepAliveArmed
  BY DEF IInv
<1> QED
  BY InvariantHolds, <1>1, PTL
=============================================================================
