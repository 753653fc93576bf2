------------------------------- MODULE Cloud -------------------------------
(***************************************************************************)
(* The connection manager of the robot: the state machine of               *)
(* cloud/cloud.c, the WINC callbacks of cloud/network.c that feed it, the  *)
(* part of the socket layer and of the MQTT client they drive, and the     *)
(* WINC1500 with the network behind it as the environment.                 *)
(*                                                                         *)
(* The callbacks run inside m2m_wifi_handle_events, which CLOUD_runTask    *)
(* calls before it looks at the one-element event slot.  Several messages  *)
(* may be handled in one call, so a callback is a step of its own and the  *)
(* dispatch of the slot is another.                                        *)
(*                                                                         *)
(* Faults names the misbehaviours the environment may show:                *)
(*   "drop"    the access point is lost after the DHCP exchange started;   *)
(*   "renew"   an IP address is obtained again (lease renewal);            *)
(*   "refuse"  hif_send fails, so a request never reaches the WINC;        *)
(*   "reject"  the broker answers CONNECT with a refusing CONNACK;         *)
(*   "odd"     a ping reply carries an error code the callback ignores;    *)
(*   "late"    a success decided before the link was lost arrives after.   *)
(* Join, ping, DNS and connect failures and a peer that closes the TCP     *)
(* connection are always possible.                                         *)
(***************************************************************************)
EXTENDS Integers

CONSTANTS
  TCP_SOCK_MAX,   \* number of TCP sockets of the driver
  MaxAsked,       \* requests of one kind the WINC holds before it refuses one
  Faults          \* the misbehaviours allowed, see above

FaultKinds == {"drop", "renew", "refuse", "reject", "odd", "late"}

ASSUME ConstantsAssumption ==
  /\ TCP_SOCK_MAX \in Nat \ {0}
  /\ MaxAsked \in Nat \ {0}
  /\ Faults \subseteq FaultKinds

VARIABLES
  current_state, occured_event,               \* cloud.c
  endpoint_ip, tcpClientSocket,               \* network.c
  mqtt,                                       \* umqtt_conn.state
  bIsUsed, bIsRecvPending, u8NextTcpSock,     \* socket.c, TCP part of the table
  driverUp, link,                             \* the WINC: started, Wi-Fi link
  pings, lookups, connects, sends, armed,     \* requests it has yet to answer
  tcp, owed,                                  \* TCP sessions, CONNACKs to come
  control                                     \* "wild": called through handler[STATES_NUM]

host == <<current_state, endpoint_ip, tcpClientSocket>>
table == <<bIsUsed, bIsRecvPending, u8NextTcpSock>>
session == <<sends, armed, tcp, owed>>
asked == <<pings, lookups, connects>>
vars == <<host, occured_event, mqtt, table, driverUp, link, asked, session, control>>

Sockets == 0 .. TCP_SOCK_MAX - 1

(* cloudState_t, cloudEvent_t (cloud.h) *)
INIT == 0
WIFI_CONNECT == 1
WAIT_FOR_INTERNET == 2
DNS_REQUEST == 3
TLS_CONNECT == 4
MQTT == 5
SUBSCRIBE == 6
SENDING == 7
STATES_NUM == 7
CloudEvents == {"SUCCESS", "FAIL", "NO_EVENT"}

Links == {"down", "joining", "dhcp", "up"}
MqttStates == {"INIT", "CONNECTING", "CONNECTED", "FAILED"}
(* the TCP session of a socket's current use; "gone": once open, lost since *)
Sessions == {"idle", "connecting", "open", "gone"}

-----------------------------------------------------------------------------
(* CLOUD_startApp has run: the driver came up and SUCCESS is posted, or     *)
(* wifiInit failed and FAIL is posted.  Nobody calls wifiInit again.        *)
Init ==
  /\ driverUp \in BOOLEAN
  /\ occured_event = IF driverUp THEN "SUCCESS" ELSE "FAIL"
  /\ current_state = INIT /\ endpoint_ip = 0 /\ tcpClientSocket = -1
  /\ mqtt = "INIT"
  /\ bIsUsed = [s \in Sockets |-> FALSE]
  /\ bIsRecvPending = [s \in Sockets |-> FALSE]
  /\ u8NextTcpSock = 0
  /\ link = "down"
  /\ pings = 0 /\ lookups = 0
  /\ connects = [s \in Sockets |-> 0]
  /\ sends = [s \in Sockets |-> 0]
  /\ armed = [s \in Sockets |-> FALSE]
  /\ tcp = [s \in Sockets |-> "idle"]
  /\ owed = {}
  /\ control = "loop"

-----------------------------------------------------------------------------
(* hif_send: may a request be accepted (TRUE) or refused (FALSE)?           *)
Answers(room) ==
  {ok \in BOOLEAN : IF ok THEN driverUp /\ room
                    ELSE ~driverUp \/ ~room \/ "refuse" \in Faults}

(* socket.c close(s), called by a callback; c and t are connects and tcp as *)
(* the message leaves them.  The messages of the old session are discarded  *)
(* from now on, except a CONNECT reply the WINC has already queued.         *)
close(s, c, t) ==
  IF s \in Sockets /\ bIsUsed[s]
  THEN /\ bIsUsed' = [bIsUsed EXCEPT ![s] = FALSE]
       /\ bIsRecvPending' = [bIsRecvPending EXCEPT ![s] = FALSE]
       /\ sends' = [sends EXCEPT ![s] = 0]
       /\ armed' = [armed EXCEPT ![s] = FALSE]
       /\ tcp' = [t EXCEPT ![s] = "idle"]
       /\ owed' = owed \ {s}
       /\ connects' \in {c, [c EXCEPT ![s] = 0]}
  ELSE /\ connects' = c
       /\ tcp' = t
       /\ UNCHANGED <<bIsUsed, bIsRecvPending, sends, armed, owed>>

(* socket.c send(s): refused without a word to the caller, who ignores rc   *)
send(s) ==
  IF s \in Sockets /\ bIsUsed[s]
  THEN \E ok \in Answers(sends[s] < MaxAsked) :
         sends' = IF ok THEN [sends EXCEPT ![s] = @ + 1] ELSE sends
  ELSE UNCHANGED sends

(* socket.c socket(): the next free entry from u8NextTcpSock on, or -1      *)
FreeFrom(d) ==
  /\ ~bIsUsed[(u8NextTcpSock + d) % TCP_SOCK_MAX]
  /\ \A e \in 0 .. d - 1 : bIsUsed[(u8NextTcpSock + e) % TCP_SOCK_MAX]

socket ==
  IF \A s \in Sockets : bIsUsed[s] THEN {-1}
  ELSE {(u8NextTcpSock + d) % TCP_SOCK_MAX : d \in {e \in Sockets : FreeFrom(e)}}

NextIndexNoWrap(sock) == sock + 1        \* variant: the modulo is missing
NextIndex(sock) == (sock + 1) % TCP_SOCK_MAX

-----------------------------------------------------------------------------
(* The handlers of cloud.c.  Each is called with the slot already cleared.  *)
rcIgnored(ok) == "NO_EVENT"              \* variant: rc is not looked at
rcEvent(ok) == IF ok THEN "NO_EVENT" ELSE "FAIL"

wifiConnect ==
  /\ \E ok \in Answers(TRUE) :
       /\ link' = IF ok THEN "joining" ELSE link
       /\ tcp' = IF ok THEN [s \in Sockets |-> IF tcp[s] = "open" THEN "gone" ELSE tcp[s]]
                 ELSE tcp
       /\ occured_event' = rcEvent(ok)
  /\ current_state' = WIFI_CONNECT
  /\ UNCHANGED <<endpoint_ip, tcpClientSocket, mqtt, table, asked, sends, armed, owed, control>>

waitForInternet ==
  /\ \E ok \in Answers(pings < MaxAsked) :
       pings' = IF ok THEN pings + 1 ELSE pings
  /\ occured_event' = "NO_EVENT"           \* rc of m2m_ping_req is not looked at
  /\ current_state' = WAIT_FOR_INTERNET
  /\ UNCHANGED <<endpoint_ip, tcpClientSocket, mqtt, table, link, lookups, connects, session, control>>

requestDns ==
  /\ endpoint_ip' = 0
  /\ \E ok \in Answers(lookups < MaxAsked) :
       /\ lookups' = IF ok THEN lookups + 1 ELSE lookups
       /\ occured_event' = rcEvent(ok)
  /\ current_state' = DNS_REQUEST
  /\ UNCHANGED <<tcpClientSocket, mqtt, table, link, pings, connects, session, control>>

tlsConnect ==
  /\ \E sock \in socket :
       /\ tcpClientSocket' = sock
       /\ \/ /\ sock = -1
             /\ occured_event' = "FAIL"
             /\ UNCHANGED <<table, connects, session>>
          \/ /\ sock # -1
             /\ u8NextTcpSock' = NextIndex(sock)
             /\ bIsUsed' = [bIsUsed EXCEPT ![sock] = TRUE]
             /\ bIsRecvPending' = [bIsRecvPending EXCEPT ![sock] = FALSE]
             /\ \E ok \in Answers(connects[sock] < MaxAsked) :
                  /\ connects' = IF ok THEN [connects EXCEPT ![sock] = @ + 1] ELSE connects
                  /\ tcp' = [tcp EXCEPT ![sock] = IF ok THEN "connecting" ELSE "idle"]
                  /\ occured_event' = rcEvent(ok)
             /\ UNCHANGED <<sends, armed, owed>>
  /\ current_state' = TLS_CONNECT
  /\ UNCHANGED <<endpoint_ip, mqtt, link, pings, lookups, control>>

mqttConnect ==
  /\ mqtt' = "CONNECTING"
  /\ send(tcpClientSocket)
  /\ owed' = IF sends' # sends /\ tcp[tcpClientSocket] = "open"
             THEN owed \cup {tcpClientSocket} ELSE owed
  /\ occured_event' = "NO_EVENT"
  /\ current_state' = MQTT
  /\ UNCHANGED <<endpoint_ip, tcpClientSocket, table, link, asked, armed, tcp, control>>

startSubscribe ==
  /\ send(tcpClientSocket)
  /\ occured_event' = "SUCCESS"
  /\ current_state' = SUBSCRIBE
  /\ UNCHANGED <<endpoint_ip, tcpClientSocket, mqtt, table, link, asked, armed, tcp, owed, control>>

startSending ==
  /\ send(tcpClientSocket)
  /\ occured_event' = "NO_EVENT"
  /\ current_state' = SENDING
  /\ UNCHANGED <<endpoint_ip, tcpClientSocket, mqtt, table, link, asked, armed, tcp, owed, control>>

(* handler[SENDING] lies behind the end of the table: the call goes         *)
(* anywhere, and the program takes no further step of its own.              *)
callBeyondTable ==
  /\ control' = "wild"
  /\ occured_event' = "NO_EVENT"
  /\ UNCHANGED <<host, mqtt, table, link, asked, session>>

(* errorHandler: the state a failure falls back to.  In SENDING it also     *)
(* deletes send_task from the scheduler, in which nothing ever puts it.     *)
errorHandlerStays(s) == s                \* variant: no fallback
errorHandler(s) ==
  IF s \in {TLS_CONNECT, MQTT} THEN DNS_REQUEST
  ELSE IF s \in {WAIT_FOR_INTERNET, DNS_REQUEST} THEN s - 1
  ELSE INIT

(* handler[s]() *)
callHandler(s) ==
  \/ s = INIT /\ wifiConnect
  \/ s = WIFI_CONNECT /\ waitForInternet
  \/ s = WAIT_FOR_INTERNET /\ requestDns
  \/ s = DNS_REQUEST /\ tlsConnect
  \/ s = TLS_CONNECT /\ mqttConnect
  \/ s = MQTT /\ startSubscribe
  \/ s = SUBSCRIBE /\ startSending
  \/ s >= STATES_NUM /\ callBeyondTable

CLOUD_runTask ==
  /\ control = "loop"
  /\ occured_event # "NO_EVENT"
  /\ callHandler(IF occured_event = "FAIL" THEN errorHandler(current_state)
                 ELSE current_state)
  /\ UNCHANGED driverUp

-----------------------------------------------------------------------------
(* Messages of the WINC and the callbacks they reach.                       *)
CLOUD_receiveEvent(ev) == occured_event' = ev

quiet == UNCHANGED <<host, driverUp, control>>

(* NETWORK_wifiCallback, DISCONNECTED *)
disconnected ==
  /\ link' = "down"
  /\ close(tcpClientSocket, connects,
           [s \in Sockets |-> IF tcp[s] = "open" THEN "gone" ELSE tcp[s]])
  /\ CLOUD_receiveEvent("FAIL")
  /\ quiet /\ UNCHANGED <<mqtt, u8NextTcpSock, pings, lookups>>

joinFailed == link = "joining" /\ disconnected

linkDropped == link \in {"dhcp", "up"} /\ "drop" \in Faults /\ disconnected

joinedSignals ==                         \* variant: CONNECTED taken for DHCP_CONF
  /\ link = "joining"
  /\ link' = "dhcp"
  /\ CLOUD_receiveEvent("SUCCESS")
  /\ quiet /\ UNCHANGED <<mqtt, table, asked, session>>

joined ==                                \* CONNECTED is not acted upon
  /\ link = "joining"
  /\ link' = "dhcp"
  /\ quiet /\ UNCHANGED <<occured_event, mqtt, table, asked, session>>

(* NETWORK_wifiCallback, DHCP_CONF *)
dhcpConf ==
  /\ link = "dhcp" \/ (link = "up" /\ "renew" \in Faults)
  /\ link' = "up"
  /\ CLOUD_receiveEvent("SUCCESS")
  /\ quiet /\ UNCHANGED <<mqtt, table, asked, session>>

CanSucceed == link = "up" \/ "late" \in Faults

(* NETWORK_pingCallback *)
pingReply(code) ==
  /\ pings > 0
  /\ pings' = pings - 1
  /\ \/ code = "ok" /\ CanSucceed /\ CLOUD_receiveEvent("SUCCESS")
     \/ code \in {"unreachable", "timeout"} /\ CLOUD_receiveEvent("FAIL")
     \/ code = "other" /\ "odd" \in Faults /\ UNCHANGED occured_event
  /\ quiet /\ UNCHANGED <<mqtt, table, link, lookups, connects, session>>

(* NETWORK_dnsCallback *)
dnsSilent(ip) == IF ip # 0 THEN "SUCCESS" ELSE "NO_EVENT"     \* variant: a failure is not reported
dnsEvent(ip) == IF ip # 0 THEN "SUCCESS" ELSE "FAIL"

dnsReply(ip) ==
  /\ lookups > 0
  /\ lookups' = lookups - 1
  /\ ip # 0 => CanSucceed
  /\ endpoint_ip' = IF ip # 0 THEN ip ELSE endpoint_ip
  /\ CLOUD_receiveEvent(dnsEvent(ip))
  /\ UNCHANGED <<current_state, tcpClientSocket, mqtt, table, driverUp, link,
                 pings, connects, session, control>>

(* the oldest outstanding CONNECT of the socket belongs to its current use  *)
fresh(s) == connects[s] = 1 /\ tcp[s] = "connecting"

(* m2m_ip_cb hands a CONNECT reply on without comparing sessions;           *)
(* NETWORK_wifiSocketHandler, SOCKET_MSG_CONNECT                            *)
connectReplyUnchecked(s, ok) ==          \* variant: s8Error is not looked at
  /\ connects[s] > 0
  /\ connects' = [connects EXCEPT ![s] = @ - 1]
  /\ tcp' = [tcp EXCEPT ![s] = IF ~fresh(s) THEN @ ELSE IF ok THEN "open" ELSE "idle"]
  /\ CLOUD_receiveEvent("SUCCESS")
  /\ quiet /\ UNCHANGED <<mqtt, table, link, pings, lookups, sends, armed, owed>>

connectReply(s, ok) ==
  /\ connects[s] > 0
  /\ LET c == [connects EXCEPT ![s] = @ - 1]
         t == [tcp EXCEPT ![s] = IF ~fresh(s) THEN @ ELSE IF ok THEN "open" ELSE "idle"]
     IN \/ /\ ok /\ (CanSucceed \/ ~fresh(s))
           /\ connects' = c /\ tcp' = t
           /\ CLOUD_receiveEvent("SUCCESS")
           /\ UNCHANGED <<bIsUsed, bIsRecvPending, sends, armed, owed>>
        \/ /\ ~ok
           /\ close(s, c, t)
           /\ CLOUD_receiveEvent("FAIL")
  /\ quiet /\ UNCHANGED <<mqtt, u8NextTcpSock, link, pings, lookups>>

(* socket.c recv(r): does it set up a receive request?                      *)
recvAlways(r) == r \in Sockets /\ ~bIsRecvPending[r]     \* variant: bIsUsed not tested
recvRequests(r) == r \in Sockets /\ bIsUsed[r] /\ ~bIsRecvPending[r]

(* SOCKET_MSG_SEND: recv on tcpClientSocket, whichever socket has sent      *)
sendReply(s) ==
  /\ sends[s] > 0
  /\ sends' = [sends EXCEPT ![s] = @ - 1]
  /\ LET r == tcpClientSocket
     IN IF recvRequests(r)
        THEN /\ bIsRecvPending' = [bIsRecvPending EXCEPT ![r] = TRUE]
             /\ \E ok \in Answers(TRUE) : armed' = [armed EXCEPT ![r] = ok]
        ELSE UNCHANGED <<bIsRecvPending, armed>>
  /\ quiet /\ UNCHANGED <<occured_event, mqtt, bIsUsed, u8NextTcpSock, link, asked, tcp, owed>>

(* SOCKET_MSG_RECV with data: MQTT_CLIENT_receive, umqtt_process.  Whatever *)
(* socket it came from feeds the one MQTT connection.                       *)
recvData(s, packet) ==
  /\ armed[s] /\ tcp[s] = "open"
  /\ armed' = [armed EXCEPT ![s] = FALSE]
  /\ bIsRecvPending' = [bIsRecvPending EXCEPT ![s] = FALSE]
  /\ \/ /\ packet = "accepted" /\ s \in owed
        /\ mqtt' = "CONNECTED" /\ owed' = owed \ {s}
        /\ CLOUD_receiveEvent("SUCCESS")
     \/ /\ packet = "refused" /\ s \in owed /\ "reject" \in Faults
        /\ mqtt' = "FAILED" /\ owed' = owed \ {s}
        /\ UNCHANGED occured_event         \* failed_connect_callback is not set
     \/ /\ packet = "other" /\ s \notin owed
        /\ UNCHANGED <<mqtt, owed, occured_event>>
  /\ quiet /\ UNCHANGED <<bIsUsed, u8NextTcpSock, link, asked, sends, tcp>>

(* SOCKET_MSG_RECV with a zero or negative size *)
recvErrorOpen(s) ==                      \* variant: the socket is not closed
  /\ armed[s] /\ tcp[s] # "open"
  /\ armed' = [armed EXCEPT ![s] = FALSE]
  /\ bIsRecvPending' = [bIsRecvPending EXCEPT ![s] = FALSE]
  /\ CLOUD_receiveEvent("FAIL")
  /\ quiet /\ UNCHANGED <<mqtt, bIsUsed, u8NextTcpSock, link, asked, sends, tcp, owed>>

recvError(s) ==
  /\ armed[s] /\ tcp[s] # "open"
  /\ close(s, connects, tcp)
  /\ CLOUD_receiveEvent("FAIL")
  /\ quiet /\ UNCHANGED <<mqtt, u8NextTcpSock, link, pings, lookups>>

(* the broker closes the connection; the host hears of it through recv only *)
peerClose(s) ==
  /\ tcp[s] = "open"
  /\ tcp' = [tcp EXCEPT ![s] = "gone"]
  /\ quiet /\ UNCHANGED <<occured_event, mqtt, table, link, asked, sends, armed, owed>>

PingCodes == {"ok", "unreachable", "timeout", "other"}
Packets == {"accepted", "refused", "other"}

Message ==
  \/ joinFailed \/ linkDropped \/ joined \/ dhcpConf
  \/ \E code \in PingCodes : pingReply(code)
  \/ \E ip \in {0, 1} : dnsReply(ip)
  \/ \E s \in Sockets :
       \/ \E ok \in BOOLEAN : connectReply(s, ok)
       \/ sendReply(s)
       \/ \E packet \in Packets : recvData(s, packet)
       \/ recvError(s)
       \/ peerClose(s)

Next == CLOUD_runTask \/ (control = "loop" /\ Message)

Spec == Init /\ [][Next]_vars

(* The main loop calls CLOUD_runTask for ever, and m2m_wifi_handle_events   *)
(* retries until a message is read.  The network is good infinitely often:  *)
(* a request that keeps being made is granted in the end.                   *)
FairSpec ==
  /\ Spec
  /\ WF_vars(CLOUD_runTask)
  /\ SF_vars(joined) /\ SF_vars(dhcpConf)
  /\ SF_vars(pingReply("ok")) /\ SF_vars(dnsReply(1))
  /\ \A s \in Sockets :
       /\ SF_vars(connectReply(s, TRUE))
       /\ WF_vars(sendReply(s)) /\ WF_vars(recvError(s))
       /\ SF_vars(recvData(s, "accepted"))
-----------------------------------------------------------------------------
TypeOK ==
  /\ current_state \in INIT .. SENDING
  /\ occured_event \in CloudEvents
  /\ endpoint_ip \in {0, 1}
  /\ tcpClientSocket \in Sockets \cup {-1}
  /\ mqtt \in MqttStates
  /\ bIsUsed \in [Sockets -> BOOLEAN]
  /\ bIsRecvPending \in [Sockets -> BOOLEAN]
  /\ u8NextTcpSock \in Sockets
  /\ driverUp \in BOOLEAN
  /\ link \in Links
  /\ pings \in 0 .. MaxAsked
  /\ lookups \in 0 .. MaxAsked
  /\ connects \in [Sockets -> 0 .. MaxAsked]
  /\ sends \in [Sockets -> 0 .. MaxAsked]
  /\ armed \in [Sockets -> BOOLEAN]
  /\ tcp \in [Sockets -> Sessions]
  /\ owed \in SUBSET Sockets
  /\ control \in {"loop", "wild"}

(* The manager never waits for nothing: with the event slot empty, every    *)
(* state whose handler looks at the return code of its request has that     *)
(* request outstanding, and INIT and SUBSCRIBE, which wait for no message,  *)
(* are never left with an empty slot.  Holds under every fault, although    *)
(* events are untyped and the slot is overwritten.                          *)
NoLostWakeup ==
  occured_event = "NO_EVENT" /\ control = "loop" =>
    /\ current_state \notin {INIT, SUBSCRIBE}
    /\ current_state = WIFI_CONNECT => link \in {"joining", "dhcp"}
    /\ current_state = DNS_REQUEST => lookups > 0
    /\ current_state = TLS_CONNECT =>
         tcpClientSocket \in Sockets /\ connects[tcpClientSocket] > 0

(* Nothing is pending for a closed socket but a CONNECT reply: close takes  *)
(* the receive request, the send replies, the TCP session and the CONNACK   *)
(* of the old use with it, so a later user of the id starts clean.          *)
ClosedSocketsAreClean ==
  \A s \in Sockets : ~bIsUsed[s] =>
    ~bIsRecvPending[s] /\ ~armed[s] /\ sends[s] = 0 /\ tcp[s] = "idle" /\ s \notin owed

(* A stage is entered only from the stage before it and on a SUCCESS; after *)
(* a FAIL the manager redoes a stage it had reached, and never advances     *)
(* past it (INIT has no stage before it and is redone at once).             *)
ForwardOnlyOnSuccess ==
  [][current_state' > current_state =>
       /\ current_state' = current_state + 1
       /\ occured_event = "SUCCESS" \/ current_state = INIT]_vars

(* Without faults, no reply outlives the stage that asked for it: each      *)
(* outstanding request is the one the current stage made, it is alone, and  *)
(* no event is waiting to be overwritten by its answer.  Hence no SUCCESS   *)
(* reaches SENDING, for which the table of handlers has no entry (cloud.c:  *)
(* 60-69); it does once a lease is renewed.                                 *)
NoReplyOutlivesItsStage ==
  /\ control = "loop"
  /\ pings > 0 => pings = 1 /\ current_state = WAIT_FOR_INTERNET
  /\ lookups > 0 => lookups = 1 /\ current_state = DNS_REQUEST
  /\ \A s \in Sockets : connects[s] > 0 =>
       connects[s] = 1 /\ current_state = TLS_CONNECT /\ s = tcpClientSocket
  /\ link \in {"joining", "dhcp"} => current_state = WIFI_CONNECT
  /\ current_state \in WIFI_CONNECT .. TLS_CONNECT /\ occured_event # "NO_EVENT" =>
       /\ pings = 0 /\ lookups = 0 /\ link \notin {"joining", "dhcp"}
       /\ \A s \in Sockets : connects[s] = 0

(* Without faults, a socket is closed before the next one is opened: every  *)
(* path that abandons a connection has gone through close.                  *)
OnlyCurrentSocketOpen == \A s \in Sockets : bIsUsed[s] => s = tcpClientSocket

(* Without faults, SUBSCRIBE and PUBLISH are sent in an accepted session.   *)
PublishesInSession == current_state \in {SUBSCRIBE, SENDING} => mqtt = "CONNECTED"

(* Without faults, a connection is asked for only to a resolved address,    *)
(* although requestDns clears endpoint_ip and tlsConnect does not test it;  *)
(* and send is called on a socket whose connect has succeeded (socket.h:    *)
(* "Must use a successfully connected Socket"), although nobody looks.      *)
UsesWhatIsThere ==
  [][\A s \in Sockets :
       /\ connects'[s] > connects[s] => endpoint_ip # 0
       /\ sends'[s] > sends[s] => tcp[s] \in {"open", "gone"}]_vars

(* Without faults, and whatever joins, pings, lookups and connects fail and *)
(* connections break on the way, the robot gets to SENDING and stays able   *)
(* to get back there, unless the broker drops its connections for ever.     *)
Recovers ==
  driverUp /\ <>[](\A s \in Sockets : tcp[s] # "gone") => []<>(current_state = SENDING)

(* socket.h, connect: after a successful connect the application must call  *)
(* recv to receive any packets, until the connection is terminated.  So in  *)
(* SENDING, with nothing left to handle, a receive request is outstanding.  *)
KeepsReceiving ==
  current_state = SENDING /\ occured_event = "NO_EVENT" /\ tcp[tcpClientSocket] = "open"
    => sends[tcpClientSocket] > 0 \/ armed[tcpClientSocket]
=============================================================================
