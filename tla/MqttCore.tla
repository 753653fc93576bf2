------------------------------ MODULE MqttCore ------------------------------
(***************************************************************************)
(* The MQTT client of the library (mqtt/mqtt_core/mqtt_core.c) with the    *)
(* layer it sends and receives through (mqtt_comm_layer.c) and the         *)
(* packets adafruit_service.c has it make.  The firmware as built has none *)
(* of them: they are a library for a main loop that calls                  *)
(* MQTT_TransmissionHandler and MQTT_ReceptionHandler, and that calls them *)
(* when it likes.  Between the calls the application makes packets, data   *)
(* arrive (MQTT_GetReceivedData) and timers expire.  None of these is      *)
(* interrupted by another.                                                 *)
(*                                                                         *)
(* A packet made is a flag of mqttTxFlags, a reply awaited one of          *)
(* mqttRxFlags.  The application opens a socket before each CONNECT.       *)
(* A list like that of timeout.c is broken by creating a timer that is in  *)
(* it already: nothing is said of what follows (doubled).                  *)
(***************************************************************************)
EXTENDS Naturals, Sequences, FiniteSets

CONSTANTS
  KeepAlive,        \* is keepAliveTimer set? (to two seconds or more)
  MaxSessions,
  MaxMade,          \* packets made in all
  MaxPushed, MaxSendErrors

ASSUME MqttCoreAssumption ==
  /\ KeepAlive \in BOOLEAN
  /\ {MaxSessions, MaxMade, MaxPushed, MaxSendErrors} \subseteq Nat

VARIABLES
  mqttState,
  mqttTxFlags, mqttRxFlags,         \* sets of packet types
  qos,                              \* of txPublishPacket
  occurred,                         \* the flags ...TimeoutOccured, named by what is late
  timers,                           \* timers in the list of the scheduler
  rxbuff,                           \* packets received and not processed
  owed,                             \* requests of this connection the broker has not answered
  session,                          \* CONNECTs sent
  accepted,                         \* history: the session whose CONNACK was accepted last
  awaited, late,                    \* history: replies awaited in this session, those timed out
  doubled,
  made, pushed, sendErrors

flags == <<mqttTxFlags, mqttRxFlags, qos>>
time == <<occurred, timers, doubled>>
history == <<accepted, awaited, late>>
counts == <<made, pushed, sendErrors>>
vars == <<mqttState, flags, time, rxbuff, owed, session, history, counts>>

Requests == <<"CONNECT", "DISCONNECT", "PUBLISH", "SUBSCRIBE", "UNSUBSCRIBE", "PINGREQ">>
Timed == {"PINGRESP", "SUBACK", "UNSUBACK"}
Reply == [CONNECT |-> "CONNACK", PUBLISH |-> "PUBACK", SUBSCRIBE |-> "SUBACK",
          UNSUBSCRIBE |-> "UNSUBACK", PINGREQ |-> "PINGRESP"]

Init ==
  /\ mqttState = "DISCONNECTED"
  /\ mqttTxFlags = {} /\ mqttRxFlags = {} /\ qos = 0
  /\ occurred = {} /\ timers = {} /\ doubled = FALSE
  /\ rxbuff = <<>> /\ owed = {} /\ session = 0
  /\ accepted = 0 /\ awaited = {} /\ late = {}
  /\ made = 0 /\ pushed = 0 /\ sendErrors = 0

-----------------------------------------------------------------------------
(* The application.  CONNECT drops whatever else is to be sent.             *)
make == made < MaxMade /\ made' = made + 1 /\ UNCHANGED <<pushed, sendErrors>>

MQTT_CreateConnectPacket ==
  /\ session < MaxSessions /\ "CONNECT" \notin mqttTxFlags
  /\ mqttTxFlags' = {"CONNECT"}
  /\ mqttState' = "CONNECTING"
  /\ UNCHANGED <<mqttRxFlags, qos, time, rxbuff, owed, session, history, counts>>

(* the packet is zeroed even if it is refused                               *)
MQTT_CreatePublishPacket(q) ==
  /\ make
  /\ IF mqttState = "CONNECTED"
     THEN qos' = q /\ mqttTxFlags' = mqttTxFlags \cup {"PUBLISH"}
     ELSE qos' = 0 /\ UNCHANGED mqttTxFlags
  /\ UNCHANGED <<mqttState, mqttRxFlags, time, rxbuff, owed, session, history>>

(* SUBSCRIBE and UNSUBSCRIBE: refused while a reply is awaited              *)
create(request) ==
  /\ make
  /\ mqttState = "CONNECTED" /\ Reply[request] \notin mqttRxFlags
  /\ mqttTxFlags' = mqttTxFlags \cup {request}
  /\ UNCHANGED <<mqttState, mqttRxFlags, qos, time, rxbuff, owed, session, history>>

MQTT_CreateSubscribePacket == create("SUBSCRIBE")
MQTT_CreateUnsubscribePacket == create("UNSUBSCRIBE")

(* MQTT_Send, and the state after a send that worked or did not             *)
sent == UNCHANGED sendErrors
notSent == sendErrors < MaxSendErrors /\ sendErrors' = sendErrors + 1
tried == sent \/ notSent

(* only the timer of the next PINGREQ is deleted                            *)
MQTT_Disconnect ==
  /\ mqttState \in {"CONNECTED", "WAITFORCONNACK"}
  /\ timers' = timers \ {"PINGREQ"}
  /\ rxbuff' = <<>>
  /\ \/ sent /\ mqttTxFlags' = {} /\ owed' = {}
     \/ notSent /\ UNCHANGED <<mqttTxFlags, owed>>
  /\ mqttState' = "DISCONNECTED"
  /\ UNCHANGED <<mqttRxFlags, qos, occurred, doubled, session, history, made, pushed>>

-----------------------------------------------------------------------------
(* Timers: timeout_create and timeout_delete of the library's scheduler, a   *)
(* list in which each timer has one link, and the callbacks check...State;   *)
(* those of PINGREQ and PINGRESP start themselves again                     *)
create_delete(created, deleted) ==
  /\ timers' = (timers \ deleted) \cup created
  /\ doubled' = (doubled \/ created \cap (timers \ deleted) # {})

expires(timer) ==
  /\ timer \in timers
  /\ occurred' = occurred \cup {timer}
  /\ timers' = IF timer \in {"PINGREQ", "PINGRESP"} THEN timers ELSE timers \ {timer}
  /\ late' = late \cup ({timer} \cap awaited)
  /\ UNCHANGED <<mqttState, flags, doubled, rxbuff, owed, session, accepted, awaited, counts>>

-----------------------------------------------------------------------------
(* MQTT_TransmissionHandler.  Every send empties both buffers, so a packet  *)
(* received and not yet processed is lost.                                  *)
sendConnectKeeping ==               \* variant: the receive buffer is not emptied
  /\ mqttState \in {"CONNECTING", "DISCONNECTED"} /\ "CONNECT" \in mqttTxFlags
  /\ sent /\ UNCHANGED rxbuff
  /\ mqttTxFlags' = mqttTxFlags \ {"CONNECT"} /\ mqttState' = "WAITFORCONNACK"
  /\ create_delete({"CONNACK"}, {}) /\ occurred' = occurred \ {"CONNACK"}
  /\ session' = session + 1 /\ owed' = {"CONNECT"} /\ awaited' = {} /\ late' = {}
  /\ UNCHANGED <<mqttRxFlags, qos, accepted, made, pushed>>

mqttSendConnect ==
  /\ mqttState \in {"CONNECTING", "DISCONNECTED"} /\ "CONNECT" \in mqttTxFlags
  /\ rxbuff' = <<>>
  /\ \/ /\ sent
        /\ mqttTxFlags' = mqttTxFlags \ {"CONNECT"}
        /\ mqttState' = "WAITFORCONNACK"
        /\ create_delete({"CONNACK"}, {}) /\ occurred' = occurred \ {"CONNACK"}
        /\ session' = session + 1 /\ owed' = {"CONNECT"}
        /\ awaited' = {} /\ late' = {}
     \/ notSent /\ UNCHANGED <<mqttState, mqttTxFlags, time, owed, session, awaited, late>>
  /\ UNCHANGED <<mqttRxFlags, qos, accepted, made, pushed>>

(* in CONNECTED, the packet of the lowest flag                              *)
Lowest == CHOOSE i \in 1 .. Len(Requests) :
            /\ Requests[i] \in mqttTxFlags
            /\ \A j \in 1 .. i - 1 : Requests[j] \notin mqttTxFlags
next(request) == mqttState = "CONNECTED" /\ request \in mqttTxFlags /\ Requests[Lowest] = request

PingTimer == IF KeepAlive THEN {"PINGREQ"} ELSE {}

mqttSendPublish ==
  /\ next("PUBLISH")
  /\ rxbuff' = <<>>
  /\ create_delete(PingTimer, {"PINGREQ"})
  /\ \/ /\ sent
        /\ mqttTxFlags' = mqttTxFlags \ {"PUBLISH"}
        /\ IF qos = 1 THEN mqttRxFlags' = mqttRxFlags \cup {"PUBACK"} /\ owed' = owed \cup {"PUBLISH"}
           ELSE UNCHANGED <<mqttRxFlags, owed>>
     \/ notSent /\ UNCHANGED <<mqttTxFlags, mqttRxFlags, owed>>
  /\ UNCHANGED <<mqttState, qos, occurred, session, history, made, pushed>>

(* mqttSendSubscribe, mqttSendUnsubscribe                                   *)
sendUntimed(request) ==             \* variant: no timer for the reply
  /\ next(request) /\ rxbuff' = <<>> /\ sent
  /\ mqttTxFlags' = mqttTxFlags \ {request}
  /\ mqttRxFlags' = mqttRxFlags \cup {Reply[request]}
  /\ create_delete(PingTimer, {"PINGREQ"}) /\ occurred' = occurred \ {Reply[request]}
  /\ owed' = owed \cup {request} /\ awaited' = awaited \cup {Reply[request]}
  /\ UNCHANGED <<mqttState, qos, session, accepted, late, made, pushed>>

send(request) ==
  /\ next(request)
  /\ rxbuff' = <<>>
  /\ \/ /\ sent
        /\ mqttTxFlags' = mqttTxFlags \ {request}
        /\ mqttRxFlags' = mqttRxFlags \cup {Reply[request]}
        /\ create_delete(PingTimer \cup {Reply[request]}, {"PINGREQ"})
        /\ occurred' = occurred \ {Reply[request]}
        /\ owed' = owed \cup {request}
        /\ awaited' = awaited \cup {Reply[request]}
     \/ /\ notSent
        /\ create_delete(PingTimer, {"PINGREQ"})
        /\ UNCHANGED <<mqttTxFlags, mqttRxFlags, occurred, owed, awaited>>
  /\ UNCHANGED <<mqttState, qos, session, accepted, late, made, pushed>>

(* A PINGREQ that is not sent waits for the timer again.                    *)
sendPingreqOnce ==                  \* variant: the flag goes although nothing was sent
  /\ next("PINGREQ") /\ "PINGREQ" \in occurred /\ tried
  /\ occurred' = occurred \ {"PINGREQ"} /\ rxbuff' = <<>>
  /\ mqttTxFlags' = mqttTxFlags \ {"PINGREQ"}
  /\ IF sendErrors' = sendErrors
     THEN /\ mqttRxFlags' = mqttRxFlags \cup {"PINGRESP"} /\ create_delete({"PINGRESP"}, {})
          /\ owed' = owed \cup {"PINGREQ"} /\ awaited' = awaited \cup {"PINGRESP"}
     ELSE UNCHANGED <<mqttRxFlags, timers, doubled, owed, awaited>>
  /\ UNCHANGED <<mqttState, qos, session, accepted, late, made, pushed>>

mqttSendPingreq ==
  /\ next("PINGREQ") /\ "PINGREQ" \in occurred
  /\ occurred' = occurred \ {"PINGREQ"}
  /\ rxbuff' = <<>>
  /\ \/ /\ sent
        /\ mqttTxFlags' = mqttTxFlags \ {"PINGREQ"}
        /\ mqttRxFlags' = mqttRxFlags \cup {"PINGRESP"}
        /\ create_delete({"PINGRESP"}, {})
        /\ owed' = owed \cup {"PINGREQ"}
        /\ awaited' = awaited \cup {"PINGRESP"}
     \/ notSent /\ UNCHANGED <<flags, timers, doubled, owed, awaited>>
  /\ UNCHANGED <<mqttState, qos, session, accepted, late, made, pushed>>

MQTT_TransmissionHandler ==
  \/ mqttSendConnect \/ mqttSendPublish \/ mqttSendPingreq
  \/ send("SUBSCRIBE") \/ send("UNSUBSCRIBE")

-----------------------------------------------------------------------------
(* MQTT_ReceptionHandler                                                    *)
MQTT_Close == owed' = {}
ends == mqttState' = "DISCONNECTED" /\ MQTT_Close
replyIsLate == occurred \cap Timed # {}

(* a reply is late: close, whatever has been received                       *)
closeLate ==
  /\ replyIsLate
  /\ ends
  /\ UNCHANGED <<flags, time, rxbuff, session, history, counts>>

received(type) == ~replyIsLate /\ rxbuff # <<>> /\ Head(rxbuff).type = type

(* In WAITFORCONNACK: any packet stops the timer; what follows a CONNACK in *)
(* the buffer stays there.                                                  *)
mqttProcessConnack ==
  /\ mqttState = "WAITFORCONNACK" /\ "CONNACK" \notin occurred
  /\ received("CONNACK")
  /\ rxbuff' = Tail(rxbuff)
  /\ IF Head(rxbuff).good
     THEN /\ mqttState' = "CONNECTED" /\ accepted' = Head(rxbuff).session
          /\ mqttTxFlags' = mqttTxFlags \cup PingTimer
          /\ create_delete(PingTimer, {"CONNACK"})
     ELSE /\ mqttState' = "DISCONNECTED" /\ create_delete({}, {"CONNACK"})
          /\ UNCHANGED <<mqttTxFlags, accepted>>
  /\ UNCHANGED <<mqttRxFlags, qos, occurred, owed, session, awaited, late, counts>>

(* another packet first, or the CONNACK is late                             *)
connackMissing ==
  /\ mqttState = "WAITFORCONNACK" /\ ~replyIsLate /\ rxbuff # <<>>
  /\ \/ "CONNACK" \in occurred /\ UNCHANGED <<timers, doubled>>
     \/ /\ "CONNACK" \notin occurred /\ Head(rxbuff).type # "CONNACK"
        /\ create_delete({}, {"CONNACK"})
  /\ ends
  /\ UNCHANGED <<flags, occurred, rxbuff, session, history, counts>>

inSession(type) == mqttState = "CONNECTED" /\ received(type)

(* mqttProcessPingresp makes the next PINGREQ possible.  It, like SUBACK,   *)
(* UNSUBACK and PUBLISH, drops what follows in the buffer.                  *)
processPingrespTimed ==            \* variant: the timer is not deleted
  /\ inSession("PINGRESP") /\ "PINGRESP" \in mqttRxFlags
  /\ mqttTxFlags' = mqttTxFlags \cup PingTimer
  /\ rxbuff' = <<>> /\ awaited' = awaited \ {"PINGRESP"}
  /\ UNCHANGED <<mqttState, mqttRxFlags, qos, time, owed, session, accepted, late, counts>>

mqttProcessPingresp ==
  /\ inSession("PINGRESP") /\ "PINGRESP" \in mqttRxFlags
  /\ create_delete({}, {"PINGRESP"})
  /\ mqttTxFlags' = mqttTxFlags \cup PingTimer
  /\ rxbuff' = <<>>
  /\ awaited' = awaited \ {"PINGRESP"}
  /\ UNCHANGED <<mqttState, mqttRxFlags, qos, occurred, owed, session, accepted, late, counts>>

(* mqttProcessSuback, mqttProcessUnsuback: a refusal or another identifier  *)
(* ends the session, but closes nothing                                     *)
processAck(type) ==
  /\ inSession(type) /\ type \in mqttRxFlags
  /\ create_delete({}, {type})
  /\ mqttRxFlags' = mqttRxFlags \ {type}
  /\ rxbuff' = <<>>
  /\ awaited' = awaited \ {type}
  /\ mqttState' = IF Head(rxbuff).good THEN mqttState ELSE "DISCONNECTED"
  /\ UNCHANGED <<mqttTxFlags, qos, occurred, owed, session, accepted, late, counts>>

mqttProcessPublish ==
  /\ inSession("PUBLISH")
  /\ rxbuff' = <<>>
  /\ UNCHANGED <<mqttState, flags, time, owed, session, history, counts>>

mqttProcessPuback ==
  /\ inSession("PUBACK")
  /\ rxbuff' = Tail(rxbuff)
  /\ mqttRxFlags' = IF Head(rxbuff).good THEN mqttRxFlags \ {"PUBACK"} ELSE mqttRxFlags
  /\ UNCHANGED <<mqttState, mqttTxFlags, qos, time, owed, session, history, counts>>

MQTT_ReceptionHandler ==
  \/ closeLate \/ mqttProcessConnack \/ connackMissing
  \/ mqttProcessPingresp \/ processAck("SUBACK") \/ processAck("UNSUBACK")
  \/ mqttProcessPublish \/ mqttProcessPuback

-----------------------------------------------------------------------------
(* The broker answers in segments of one or two packets, publishes, or      *)
(* refuses; MQTT_GetReceivedData puts a segment in the place of what was    *)
(* there.                                                                   *)
packets(request) ==
  IF request = "push" THEN {[type |-> "PUBLISH", good |-> TRUE, session |-> session]}
  ELSE [type : {Reply[request]}, good : IF request = "PINGREQ" THEN {TRUE} ELSE BOOLEAN,
        session : {session}]

MQTT_GetReceivedData(requests) ==
  /\ "push" \in requests => mqttState = "CONNECTED" /\ pushed < MaxPushed
  /\ "CONNECT" \in requests => requests \subseteq {"CONNECT"}
  /\ \E first \in requests : \E p \in packets(first) :
       \/ requests = {first} /\ rxbuff' = <<p>>
       \/ \E second \in requests \ {first} : \E q \in packets(second) : rxbuff' = <<p, q>>
  /\ owed' = owed \ requests
  /\ pushed' = IF "push" \in requests THEN pushed + 1 ELSE pushed
  /\ UNCHANGED <<mqttState, flags, time, session, history, made, sendErrors>>

segments == {s \in SUBSET (owed \cup {"push"}) : Cardinality(s) \in 1 .. 2}

Application ==
  \/ MQTT_CreateConnectPacket \/ MQTT_Disconnect
  \/ \E q \in {0, 1} : MQTT_CreatePublishPacket(q)
  \/ MQTT_CreateSubscribePacket \/ MQTT_CreateUnsubscribePacket

Timers == {"CONNACK", "PINGREQ"} \cup Timed

Next ==
  /\ ~doubled
  /\ \/ Application
     \/ MQTT_TransmissionHandler \/ MQTT_ReceptionHandler
     \/ \E timer \in Timers : expires(timer)
     \/ \E requests \in segments : MQTT_GetReceivedData(requests)

Spec == Init /\ [][Next]_vars

-----------------------------------------------------------------------------
TypeOK ==
  /\ mqttState \in {"DISCONNECTED", "CONNECTING", "WAITFORCONNACK", "CONNECTED"}
  /\ mqttTxFlags \subseteq {"CONNECT", "PUBLISH", "SUBSCRIBE", "UNSUBSCRIBE", "PINGREQ"}
  /\ mqttRxFlags \subseteq Timed \cup {"PUBACK"} /\ qos \in {0, 1}
  /\ occurred \subseteq Timers /\ timers \subseteq Timers /\ doubled \in BOOLEAN
  /\ rxbuff \in Seq([type : {"CONNACK", "PUBLISH", "PUBACK"} \cup Timed, good : BOOLEAN,
                     session : 1 .. MaxSessions]) /\ Len(rxbuff) <= 2
  /\ owed \subseteq DOMAIN Reply
  /\ session \in 0 .. MaxSessions /\ accepted \in 0 .. session
  /\ awaited \subseteq Timed /\ late \subseteq awaited
  /\ made \in 0 .. MaxMade /\ pushed \in 0 .. MaxPushed /\ sendErrors \in 0 .. MaxSendErrors

(* A session is entered by the CONNACK of its own CONNECT, never by one     *)
(* that an earlier connection left in the buffer (mqtt_core.c:679-680).     *)
SessionByItsConnack == mqttState = "CONNECTED" => accepted = session

(* No reply is awaited for ever: while one is, its timer runs or has run    *)
(* out (mqtt_core.c:1245-1254, 1290-1299, 1328-1339).  Conversely, in the   *)
(* first session a timeout means that a reply of this session is late: an   *)
(* answered request never ends it (mqtt_core.c:1105-1112).  The flags and   *)
(* timers a session leaves behind end the next ones.                        *)
TimersMatchReplies ==
  /\ mqttState = "CONNECTED" => awaited \subseteq timers \cup occurred
  /\ session = 1 => occurred \cap Timed \subseteq late

(* No timer is created while it is in the scheduler's list as long as one   *)
(* session lasts, in whatever order packets are sent and arrive.            *)
TimersCreatedOnce == doubled => session > 1

(* With a keep-alive time a session is never without the next sign of life: *)
(* the timer of PINGREQ runs, and one is flagged or its PINGRESP awaited,   *)
(* whatever is published, lost or not sent and whatever timers an earlier   *)
(* session left (mqtt_core.c:1064-1083, 1304-1342, 815-833).                *)
KeepAliveArmed ==
  KeepAlive /\ mqttState = "CONNECTED" /\ ~doubled =>
    /\ "PINGREQ" \in timers
    /\ "PINGREQ" \in mqttTxFlags \/ "PINGRESP" \in awaited
=============================================================================
