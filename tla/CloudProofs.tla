---------------------------- MODULE CloudProofs ----------------------------
(***************************************************************************)
(* What TLAPS proves of the connection manager, for any number of sockets, *)
(* any bound on outstanding requests and any set of faults.                *)
(***************************************************************************)
EXTENDS Cloud, TLAPS

USE ConstantsAssumption

(* The strengthening is small: the three invariants are inductive together. *)
IInv == TypeOK /\ NoLostWakeup /\ ClosedSocketsAreClean

(* An index reduced modulo the table size is an index of the table.         *)
LEMMA ModInTable ==
  ASSUME NEW n \in Nat
  PROVE  n % TCP_SOCK_MAX \in Sockets
  BY DEF Sockets

(* socket() yields -1 or a free entry of the table.                         *)
LEMMA SocketIsFree ==
  ASSUME TypeOK, NEW sock \in socket
  PROVE  sock = -1 \/ (sock \in Sockets /\ ~bIsUsed[sock])
<1>1. CASE \A s \in Sockets : bIsUsed[s]
  BY <1>1 DEF socket
<1>2. CASE ~ \A s \in Sockets : bIsUsed[s]
  <2>1. PICK d \in Sockets : FreeFrom(d) /\ sock = (u8NextTcpSock + d) % TCP_SOCK_MAX
    BY <1>2 DEF socket
  <2>2. u8NextTcpSock + d \in Nat
    BY DEF TypeOK, Sockets
  <2>3. QED
    BY <2>1, <2>2, ModInTable DEF FreeFrom
<1>3. QED
  BY <1>1, <1>2

LEMMA InitIInv == Init => IInv
<1> SUFFICES ASSUME Init PROVE IInv
  OBVIOUS
<1>1. 0 \in Sockets
  BY DEF Sockets
<1>2. TypeOK
  BY <1>1 DEF Init, TypeOK, CloudEvents, MqttStates, Links, Sessions, INIT, SENDING
<1>3. NoLostWakeup
  BY DEF Init, NoLostWakeup
<1>4. ClosedSocketsAreClean
  BY DEF Init, ClosedSocketsAreClean
<1>5. QED
  BY <1>2, <1>3, <1>4 DEF IInv

-----------------------------------------------------------------------------
(* close leaves the table well-typed and the closed entry clean, if the     *)
(* connects and sessions it is given are.                                   *)
LEMMA CloseIsClean ==
  ASSUME TypeOK, ClosedSocketsAreClean,
         NEW s \in Sockets \cup {-1},
         NEW c \in [Sockets -> 0 .. MaxAsked],
         NEW t \in [Sockets -> Sessions],
         \A q \in Sockets : ~bIsUsed[q] => t[q] = "idle",
         close(s, c, t)
  PROVE  /\ bIsUsed' \in [Sockets -> BOOLEAN]
         /\ bIsRecvPending' \in [Sockets -> BOOLEAN]
         /\ sends' \in [Sockets -> 0 .. MaxAsked]
         /\ armed' \in [Sockets -> BOOLEAN]
         /\ tcp' \in [Sockets -> Sessions]
         /\ owed' \in SUBSET Sockets
         /\ connects' \in [Sockets -> 0 .. MaxAsked]
         /\ ClosedSocketsAreClean'
<1>1. CASE s \in Sockets /\ bIsUsed[s]
  <2>1. "idle" \in Sessions /\ 0 \in 0 .. MaxAsked
    BY DEF Sessions
  <2>2. /\ bIsUsed' = [bIsUsed EXCEPT ![s] = FALSE]
        /\ bIsRecvPending' = [bIsRecvPending EXCEPT ![s] = FALSE]
        /\ sends' = [sends EXCEPT ![s] = 0]
        /\ armed' = [armed EXCEPT ![s] = FALSE]
        /\ tcp' = [t EXCEPT ![s] = "idle"]
        /\ owed' = owed \ {s}
        /\ connects' \in {c, [c EXCEPT ![s] = 0]}
    BY <1>1 DEF close
  <2>3. ClosedSocketsAreClean'
    BY <1>1, <2>2 DEF TypeOK, ClosedSocketsAreClean
  <2>4. QED
    BY <1>1, <2>1, <2>2, <2>3 DEF TypeOK
<1>2. CASE ~(s \in Sockets /\ bIsUsed[s])
  BY <1>2 DEF close, TypeOK, ClosedSocketsAreClean
<1>3. QED
  BY <1>1, <1>2

(* send counts within its bound and only for an open socket.                *)
LEMMA SendIsBounded ==
  ASSUME TypeOK, NEW s, send(s)
  PROVE  /\ sends' \in [Sockets -> 0 .. MaxAsked]
         /\ \A q \in Sockets : ~bIsUsed[q] => sends'[q] = sends[q]
         /\ sends' # sends => s \in Sockets /\ bIsUsed[s]
<1>1. CASE s \in Sockets /\ bIsUsed[s]
  <2>1. PICK ok \in Answers(sends[s] < MaxAsked) :
          sends' = IF ok THEN [sends EXCEPT ![s] = @ + 1] ELSE sends
    BY <1>1 DEF send
  <2>2. ok => sends[s] < MaxAsked
    BY DEF Answers
  <2>3. QED
    BY <1>1, <2>1, <2>2 DEF TypeOK
<1>2. CASE ~(s \in Sockets /\ bIsUsed[s])
  BY <1>2 DEF send, TypeOK
<1>3. QED
  BY <1>1, <1>2

-----------------------------------------------------------------------------
(* The main loop preserves the invariant: one case per handler of cloud.c.  *)
LEMMA HandlersKeepIInv ==
  ASSUME IInv, CLOUD_runTask
  PROVE  IInv'
<1> USE DEF IInv
<1> DEFINE state == IF occured_event = "FAIL" THEN errorHandler(current_state)
                    ELSE current_state
<1>1. callHandler(state) /\ UNCHANGED driverUp
  BY DEF CLOUD_runTask
<1>2. CASE wifiConnect
  <2>1. PICK ok \in Answers(TRUE) :
          /\ link' = IF ok THEN "joining" ELSE link
          /\ tcp' = IF ok THEN [s \in Sockets |-> IF tcp[s] = "open" THEN "gone" ELSE tcp[s]]
                    ELSE tcp
          /\ occured_event' = rcEvent(ok)
    BY <1>2 DEF wifiConnect
  <2>2. TypeOK'
    BY <1>1, <1>2, <2>1 DEF wifiConnect, TypeOK, Sessions, Links, CloudEvents, rcEvent,
       host, table, asked, INIT, SENDING, WIFI_CONNECT
  <2>3. NoLostWakeup'
    BY <1>2, <2>1 DEF wifiConnect, NoLostWakeup, rcEvent, INIT, SUBSCRIBE, WIFI_CONNECT,
       DNS_REQUEST, TLS_CONNECT
  <2>4. ClosedSocketsAreClean'
    BY <1>2, <2>1 DEF wifiConnect, ClosedSocketsAreClean, TypeOK, table, asked
  <2>5. QED
    BY <2>2, <2>3, <2>4
<1>3. CASE waitForInternet
  <2>1. PICK ok \in Answers(pings < MaxAsked) : pings' = IF ok THEN pings + 1 ELSE pings
    BY <1>3 DEF waitForInternet
  <2>2. ok => pings < MaxAsked
    BY DEF Answers
  <2>3. TypeOK'
    BY <1>1, <1>3, <2>1, <2>2 DEF waitForInternet, TypeOK, CloudEvents, table, session,
       INIT, SENDING, WAIT_FOR_INTERNET
  <2>4. NoLostWakeup'
    BY <1>3 DEF waitForInternet, NoLostWakeup, INIT, SUBSCRIBE, WIFI_CONNECT,
       WAIT_FOR_INTERNET, DNS_REQUEST, TLS_CONNECT
  <2>5. ClosedSocketsAreClean'
    BY <1>3 DEF waitForInternet, ClosedSocketsAreClean, table, session
  <2>6. QED
    BY <2>3, <2>4, <2>5
<1>4. CASE requestDns
  <2>1. PICK ok \in Answers(lookups < MaxAsked) :
          /\ lookups' = IF ok THEN lookups + 1 ELSE lookups
          /\ occured_event' = rcEvent(ok)
    BY <1>4 DEF requestDns
  <2>2. ok => lookups < MaxAsked
    BY DEF Answers
  <2>3. TypeOK'
    BY <1>1, <1>4, <2>1, <2>2 DEF requestDns, TypeOK, CloudEvents, rcEvent, table, session,
       INIT, SENDING, DNS_REQUEST
  <2>4. NoLostWakeup'
    BY <1>4, <2>1 DEF requestDns, NoLostWakeup, TypeOK, rcEvent, INIT, SUBSCRIBE,
       WIFI_CONNECT, DNS_REQUEST, TLS_CONNECT
  <2>5. ClosedSocketsAreClean'
    BY <1>4 DEF requestDns, ClosedSocketsAreClean, table, session
  <2>6. QED
    BY <2>3, <2>4, <2>5
<1>5. CASE tlsConnect
  <2>1. PICK sock \in socket :
          /\ tcpClientSocket' = sock
          /\ \/ /\ sock = -1
                /\ occured_event' = "FAIL"
                /\ UNCHANGED <<table, connects, session>>
             \/ /\ sock # -1
                /\ u8NextTcpSock' = NextIndex(sock)
                /\ bIsUsed' = [bIsUsed EXCEPT ![sock] = TRUE]
                /\ bIsRecvPending' = [bIsRecvPending EXCEPT ![sock] = FALSE]
                /\ \E ok \in Answers(connects[sock] < MaxAsked) :
                     /\ connects' = IF ok THEN [connects EXCEPT ![sock] = @ + 1] ELSE connects
                     /\ tcp' = [tcp EXCEPT ![sock] = IF ok THEN "connecting" ELSE "idle"]
                     /\ occured_event' = rcEvent(ok)
                /\ UNCHANGED <<sends, armed, owed>>
    BY <1>5 DEF tlsConnect
  <2>2. CASE sock = -1
    <3>1. /\ tcpClientSocket' = -1
          /\ occured_event' = "FAIL"
          /\ UNCHANGED <<table, connects, session>>
      BY <2>1, <2>2
    <3>2. TypeOK'
      BY <1>1, <1>5, <3>1 DEF tlsConnect, TypeOK, CloudEvents, table, session, INIT,
         SENDING, TLS_CONNECT
    <3>3. NoLostWakeup'
      BY <3>1 DEF NoLostWakeup
    <3>4. ClosedSocketsAreClean'
      BY <3>1 DEF ClosedSocketsAreClean, table, session
    <3>5. QED
      BY <3>2, <3>3, <3>4
  <2>3. CASE sock # -1
    <3>1. sock \in Sockets /\ ~bIsUsed[sock]
      BY <2>3, SocketIsFree
    <3>2. NextIndex(sock) \in Sockets
      BY <3>1, ModInTable DEF NextIndex, Sockets
    <3>3. PICK ok \in Answers(connects[sock] < MaxAsked) :
            /\ connects' = IF ok THEN [connects EXCEPT ![sock] = @ + 1] ELSE connects
            /\ tcp' = [tcp EXCEPT ![sock] = IF ok THEN "connecting" ELSE "idle"]
            /\ occured_event' = rcEvent(ok)
      BY <2>1, <2>3
    <3>4. ok => connects[sock] < MaxAsked
      BY DEF Answers
    <3>5. connects' \in [Sockets -> 0 .. MaxAsked]
      BY <3>1, <3>3, <3>4 DEF TypeOK
    <3>6. tcp' \in [Sockets -> Sessions]
      BY <3>1, <3>3 DEF TypeOK, Sessions
    <3>7. TypeOK'
      <4>1. /\ tcpClientSocket' = sock
            /\ u8NextTcpSock' = NextIndex(sock)
            /\ bIsUsed' = [bIsUsed EXCEPT ![sock] = TRUE]
            /\ bIsRecvPending' = [bIsRecvPending EXCEPT ![sock] = FALSE]
            /\ UNCHANGED <<sends, armed, owed>>
        BY <2>1, <2>3
      <4>2. /\ current_state' = TLS_CONNECT
            /\ UNCHANGED <<endpoint_ip, mqtt, link, pings, lookups, control, driverUp>>
        BY <1>1, <1>5 DEF tlsConnect
      <4>3. occured_event' \in CloudEvents
        BY <3>3 DEF rcEvent, CloudEvents
      <4>4. QED
        BY <3>1, <3>2, <3>5, <3>6, <4>1, <4>2, <4>3 DEF TypeOK, INIT, SENDING, TLS_CONNECT
    <3>8. NoLostWakeup'
      BY <1>5, <2>1, <3>1, <3>3 DEF tlsConnect, NoLostWakeup, TypeOK, rcEvent, INIT,
         SUBSCRIBE, WIFI_CONNECT, DNS_REQUEST, TLS_CONNECT
    <3>9. ClosedSocketsAreClean'
      BY <2>1, <2>3, <3>1, <3>3 DEF ClosedSocketsAreClean, TypeOK
    <3>10. QED
      BY <3>7, <3>8, <3>9
  <2>4. QED
    BY <2>2, <2>3
<1>6. CASE mqttConnect
  <2>1. send(tcpClientSocket) /\ tcpClientSocket \in Sockets \cup {-1}
    BY <1>6 DEF mqttConnect, TypeOK
  <2>2. /\ sends' \in [Sockets -> 0 .. MaxAsked]
        /\ \A q \in Sockets : ~bIsUsed[q] => sends'[q] = sends[q]
        /\ sends' # sends => tcpClientSocket \in Sockets /\ bIsUsed[tcpClientSocket]
    BY <2>1, SendIsBounded
  <2>3. TypeOK'
    BY <1>1, <1>6, <2>2 DEF mqttConnect, TypeOK, CloudEvents, MqttStates, table, asked,
       INIT, SENDING, MQTT
  <2>4. NoLostWakeup'
    BY <1>6 DEF mqttConnect, NoLostWakeup, INIT, SUBSCRIBE, WIFI_CONNECT, DNS_REQUEST,
       TLS_CONNECT, MQTT
  <2>5. ClosedSocketsAreClean'
    BY <1>6, <2>2 DEF mqttConnect, ClosedSocketsAreClean, table, asked
  <2>6. QED
    BY <2>3, <2>4, <2>5
<1>7. CASE startSubscribe \/ startSending
  <2>1. send(tcpClientSocket)
    BY <1>7 DEF startSubscribe, startSending
  <2>2. /\ sends' \in [Sockets -> 0 .. MaxAsked]
        /\ \A q \in Sockets : ~bIsUsed[q] => sends'[q] = sends[q]
    BY <2>1, SendIsBounded
  <2>3. TypeOK'
    BY <1>1, <1>7, <2>2 DEF startSubscribe, startSending, TypeOK, CloudEvents, table, asked,
       INIT, SENDING, SUBSCRIBE
  <2>4. NoLostWakeup'
    BY <1>7 DEF startSubscribe, startSending, NoLostWakeup, INIT, SUBSCRIBE, WIFI_CONNECT,
       DNS_REQUEST, TLS_CONNECT, SENDING
  <2>5. ClosedSocketsAreClean'
    BY <1>7, <2>2 DEF startSubscribe, startSending, ClosedSocketsAreClean, table, asked
  <2>6. QED
    BY <2>3, <2>4, <2>5
<1>8. CASE callBeyondTable
  BY <1>1, <1>8 DEF callBeyondTable, TypeOK, NoLostWakeup, ClosedSocketsAreClean,
     CloudEvents, host, table, asked, session
<1>9. QED
  BY <1>1, <1>2, <1>3, <1>4, <1>5, <1>6, <1>7, <1>8 DEF callHandler

-----------------------------------------------------------------------------
(* A message that closes socket s and reports FAIL preserves the invariant, *)
(* whatever it made of the connects c and sessions t before.                *)
LEMMA FailureKeepsIInv ==
  ASSUME IInv,
         NEW s \in Sockets \cup {-1},
         NEW c \in [Sockets -> 0 .. MaxAsked],
         NEW t \in [Sockets -> Sessions],
         \A q \in Sockets : ~bIsUsed[q] => t[q] = "idle",
         close(s, c, t),
         CLOUD_receiveEvent("FAIL"),
         quiet,
         link' \in Links,
         UNCHANGED <<mqtt, u8NextTcpSock, pings, lookups>>
  PROVE  IInv'
<1>1. TypeOK /\ ClosedSocketsAreClean
  BY DEF IInv
<1>2. /\ bIsUsed' \in [Sockets -> BOOLEAN]
      /\ bIsRecvPending' \in [Sockets -> BOOLEAN]
      /\ sends' \in [Sockets -> 0 .. MaxAsked]
      /\ armed' \in [Sockets -> BOOLEAN]
      /\ tcp' \in [Sockets -> Sessions]
      /\ owed' \in SUBSET Sockets
      /\ connects' \in [Sockets -> 0 .. MaxAsked]
      /\ ClosedSocketsAreClean'
  BY <1>1, CloseIsClean
<1>3. TypeOK'
  BY <1>1, <1>2 DEF TypeOK, CLOUD_receiveEvent, CloudEvents, quiet, host
<1>4. NoLostWakeup'
  BY DEF NoLostWakeup, CLOUD_receiveEvent
<1>5. QED
  BY <1>2, <1>3, <1>4 DEF IInv

(* The messages preserve the invariant: one case per message.               *)
LEMMA MessagesKeepIInv ==
  ASSUME IInv, Message
  PROVE  IInv'
<1> USE DEF IInv
<1>1. CASE joinFailed \/ linkDropped
  <2> DEFINE t == [s \in Sockets |-> IF tcp[s] = "open" THEN "gone" ELSE tcp[s]]
  <2>1. disconnected
    BY <1>1 DEF joinFailed, linkDropped
  <2>2. /\ close(tcpClientSocket, connects, t)
        /\ CLOUD_receiveEvent("FAIL")
        /\ quiet
        /\ link' \in Links
        /\ UNCHANGED <<mqtt, u8NextTcpSock, pings, lookups>>
    BY <2>1 DEF disconnected, Links
  <2>3. /\ tcpClientSocket \in Sockets \cup {-1}
        /\ connects \in [Sockets -> 0 .. MaxAsked]
    BY DEF TypeOK
  <2>4. t \in [Sockets -> Sessions]
    BY DEF TypeOK, Sessions
  <2>5. \A q \in Sockets : ~bIsUsed[q] => t[q] = "idle"
    BY DEF ClosedSocketsAreClean
  <2> HIDE DEF t
  <2>6. QED
    BY <2>2, <2>3, <2>4, <2>5, FailureKeepsIInv
<1>2. CASE joined
  <2>1. TypeOK'
    BY <1>2 DEF joined, quiet, host, table, asked, session, TypeOK, Links
  <2>2. NoLostWakeup'
    BY <1>2 DEF joined, quiet, host, asked, NoLostWakeup
  <2>3. ClosedSocketsAreClean'
    BY <1>2 DEF joined, table, session, ClosedSocketsAreClean
  <2>4. QED
    BY <2>1, <2>2, <2>3
<1>3. CASE dhcpConf
  <2>1. TypeOK'
    BY <1>3 DEF dhcpConf, quiet, host, table, asked, session, TypeOK, Links,
       CLOUD_receiveEvent, CloudEvents
  <2>2. NoLostWakeup'
    BY <1>3 DEF dhcpConf, CLOUD_receiveEvent, NoLostWakeup
  <2>3. ClosedSocketsAreClean'
    BY <1>3 DEF dhcpConf, table, session, ClosedSocketsAreClean
  <2>4. QED
    BY <2>1, <2>2, <2>3
<1>4. ASSUME NEW code \in PingCodes, pingReply(code)
      PROVE  IInv'
  <2>1. occured_event' \in CloudEvents
    BY <1>4 DEF pingReply, CLOUD_receiveEvent, CloudEvents, TypeOK
  <2>2. TypeOK'
    BY <1>4, <2>1 DEF pingReply, quiet, host, table, session, TypeOK
  <2>3. NoLostWakeup'
    BY <1>4 DEF pingReply, quiet, host, CLOUD_receiveEvent, NoLostWakeup
  <2>4. ClosedSocketsAreClean'
    BY <1>4 DEF pingReply, table, session, ClosedSocketsAreClean
  <2>5. QED
    BY <2>2, <2>3, <2>4
<1>5. ASSUME NEW ip \in {0, 1}, dnsReply(ip)
      PROVE  IInv'
  <2>1. occured_event' \in CloudEvents /\ occured_event' # "NO_EVENT"
    BY <1>5 DEF dnsReply, dnsEvent, CLOUD_receiveEvent, CloudEvents
  <2>2. TypeOK'
    BY <1>5, <2>1 DEF dnsReply, table, session, TypeOK
  <2>3. NoLostWakeup'
    BY <2>1 DEF NoLostWakeup
  <2>4. ClosedSocketsAreClean'
    BY <1>5 DEF dnsReply, table, session, ClosedSocketsAreClean
  <2>5. QED
    BY <2>2, <2>3, <2>4
<1>6. ASSUME NEW s \in Sockets, NEW ok \in BOOLEAN, connectReply(s, ok)
      PROVE  IInv'
  <2> DEFINE c == [connects EXCEPT ![s] = @ - 1]
  <2> DEFINE t == [tcp EXCEPT ![s] = IF ~fresh(s) THEN @ ELSE IF ok THEN "open" ELSE "idle"]
  <2>1. c \in [Sockets -> 0 .. MaxAsked]
    BY <1>6 DEF connectReply, TypeOK
  <2>2. t \in [Sockets -> Sessions]
    BY DEF TypeOK, Sessions
  <2>3. \A q \in Sockets : ~bIsUsed[q] => t[q] = "idle"
    BY DEF ClosedSocketsAreClean, TypeOK, fresh
  <2>4. quiet /\ UNCHANGED <<mqtt, u8NextTcpSock, link, pings, lookups>>
    BY <1>6 DEF connectReply
  <2>5. \/ /\ connects' = c /\ tcp' = t
           /\ CLOUD_receiveEvent("SUCCESS")
           /\ UNCHANGED <<bIsUsed, bIsRecvPending, sends, armed, owed>>
        \/ close(s, c, t) /\ CLOUD_receiveEvent("FAIL")
    BY <1>6 DEF connectReply
  <2> HIDE DEF c, t
  <2>6. CASE close(s, c, t) /\ CLOUD_receiveEvent("FAIL")
    <3>1. link' \in Links
      BY <2>4 DEF TypeOK
    <3>2. QED
      BY <2>1, <2>2, <2>3, <2>4, <2>6, <3>1, FailureKeepsIInv
  <2>7. CASE /\ connects' = c /\ tcp' = t
             /\ CLOUD_receiveEvent("SUCCESS")
             /\ UNCHANGED <<bIsUsed, bIsRecvPending, sends, armed, owed>>
    <3>1. TypeOK'
      BY <2>1, <2>2, <2>4, <2>7 DEF quiet, host, TypeOK, CLOUD_receiveEvent, CloudEvents
    <3>2. NoLostWakeup'
      BY <2>7 DEF CLOUD_receiveEvent, NoLostWakeup
    <3>3. ClosedSocketsAreClean'
      BY <2>3, <2>7 DEF ClosedSocketsAreClean
    <3>4. QED
      BY <3>1, <3>2, <3>3
  <2>8. QED
    BY <2>5, <2>6, <2>7
<1>7. ASSUME NEW s \in Sockets, sendReply(s)
      PROVE  IInv'
  <2> DEFINE r == tcpClientSocket
  <2>1. \/ /\ r \in Sockets /\ bIsUsed[r]
           /\ bIsRecvPending' = [bIsRecvPending EXCEPT ![r] = TRUE]
           /\ \E ok \in BOOLEAN : armed' = [armed EXCEPT ![r] = ok]
        \/ UNCHANGED <<bIsRecvPending, armed>>
    BY <1>7 DEF sendReply, recvRequests, Answers
  <2>2. /\ bIsRecvPending' \in [Sockets -> BOOLEAN]
        /\ armed' \in [Sockets -> BOOLEAN]
        /\ \A q \in Sockets : ~bIsUsed[q] =>
              bIsRecvPending'[q] = bIsRecvPending[q] /\ armed'[q] = armed[q]
    BY <2>1 DEF TypeOK
  <2>3. sends' \in [Sockets -> 0 .. MaxAsked] /\ bIsUsed[s]
    BY <1>7 DEF sendReply, TypeOK, ClosedSocketsAreClean
  <2>4. TypeOK'
    BY <1>7, <2>2, <2>3 DEF sendReply, quiet, host, asked, TypeOK
  <2>5. NoLostWakeup'
    BY <1>7 DEF sendReply, quiet, host, asked, NoLostWakeup
  <2>6. ClosedSocketsAreClean'
    BY <1>7, <2>2, <2>3 DEF sendReply, TypeOK, ClosedSocketsAreClean
  <2>7. QED
    BY <2>4, <2>5, <2>6
<1>8. ASSUME NEW s \in Sockets, NEW packet \in Packets, recvData(s, packet)
      PROVE  IInv'
  <2>1. /\ occured_event' \in CloudEvents /\ mqtt' \in MqttStates
        /\ owed' \in SUBSET owed
        /\ occured_event' # "NO_EVENT" \/ UNCHANGED occured_event
    BY <1>8 DEF recvData, CLOUD_receiveEvent, CloudEvents, MqttStates, TypeOK
  <2>2. /\ bIsRecvPending' = [bIsRecvPending EXCEPT ![s] = FALSE]
        /\ armed' = [armed EXCEPT ![s] = FALSE]
        /\ quiet /\ UNCHANGED <<bIsUsed, u8NextTcpSock, link, asked, sends, tcp>>
    BY <1>8 DEF recvData
  <2>3. TypeOK'
    BY <2>1, <2>2 DEF quiet, host, asked, TypeOK
  <2>4. NoLostWakeup'
    BY <2>1, <2>2 DEF quiet, host, asked, NoLostWakeup
  <2>5. ClosedSocketsAreClean'
    BY <2>1, <2>2 DEF TypeOK, ClosedSocketsAreClean
  <2>6. QED
    BY <2>3, <2>4, <2>5
<1>9. ASSUME NEW s \in Sockets, recvError(s)
      PROVE  IInv'
  <2>1. /\ close(s, connects, tcp)
        /\ CLOUD_receiveEvent("FAIL")
        /\ quiet /\ UNCHANGED <<mqtt, u8NextTcpSock, link, pings, lookups>>
    BY <1>9 DEF recvError
  <2>2. /\ connects \in [Sockets -> 0 .. MaxAsked]
        /\ tcp \in [Sockets -> Sessions]
        /\ link' \in Links
    BY <2>1 DEF TypeOK
  <2>3. \A q \in Sockets : ~bIsUsed[q] => tcp[q] = "idle"
    BY DEF ClosedSocketsAreClean
  <2>4. QED
    BY <2>1, <2>2, <2>3, FailureKeepsIInv
<1>10. ASSUME NEW s \in Sockets, peerClose(s)
       PROVE  IInv'
  <2>1. TypeOK'
    BY <1>10 DEF peerClose, quiet, host, table, asked, TypeOK, Sessions
  <2>2. NoLostWakeup'
    BY <1>10 DEF peerClose, quiet, host, asked, NoLostWakeup
  <2>3. ClosedSocketsAreClean'
    BY <1>10 DEF peerClose, table, TypeOK, ClosedSocketsAreClean
  <2>4. QED
    BY <2>1, <2>2, <2>3
<1>11. QED
  BY <1>1, <1>2, <1>3, <1>4, <1>5, <1>6, <1>7, <1>8, <1>9, <1>10 DEF Message

-----------------------------------------------------------------------------
(* Every reachable state satisfies the three invariants together.           *)
THEOREM Inductive == Spec => []IInv
<1>1. ASSUME IInv, [Next]_vars
      PROVE  IInv'
  <2>1. CASE UNCHANGED vars
    <3>1. TypeOK'
      BY <1>1, <2>1 DEF IInv, TypeOK, vars, host, table, asked, session
    <3>2. NoLostWakeup'
      BY <1>1, <2>1 DEF IInv, NoLostWakeup, vars, host, asked
    <3>3. ClosedSocketsAreClean'
      BY <1>1, <2>1 DEF IInv, ClosedSocketsAreClean, vars, table, session
    <3>4. QED
      BY <3>1, <3>2, <3>3 DEF IInv
  <2>2. QED
    BY <1>1, <2>1, HandlersKeepIInv, MessagesKeepIInv DEF Next
<1>2. QED
  BY InitIInv, <1>1, PTL DEF Spec

(* Every variable keeps its type, the counters their bounds: in particular  *)
(* u8NextTcpSock stays an index of the socket table.                        *)
THEOREM TypeCorrect == Spec => []TypeOK
<1>1. IInv => TypeOK
  BY DEF IInv
<1>2. QED
  BY <1>1, Inductive, PTL

(* The manager never waits for nothing, under any of the faults.            *)
THEOREM NeverLosesWakeup == Spec => []NoLostWakeup
<1>1. IInv => NoLostWakeup
  BY DEF IInv
<1>2. QED
  BY <1>1, Inductive, PTL

(* Whoever reuses a socket id starts clean, under any of the faults.        *)
THEOREM CloseLeavesClean == Spec => []ClosedSocketsAreClean
<1>1. IInv => ClosedSocketsAreClean
  BY DEF IInv
<1>2. QED
  BY <1>1, Inductive, PTL

(* Stages are only advanced one at a time, and only on a SUCCESS.           *)
THEOREM NeverSkipsAStage == Spec => ForwardOnlyOnSuccess
<1> DEFINE A == current_state' > current_state =>
                  /\ current_state' = current_state + 1
                  /\ occured_event = "SUCCESS" \/ current_state = INIT
<1>1. ASSUME TypeOK, CLOUD_runTask
      PROVE  A
  <2> DEFINE s == IF occured_event = "FAIL" THEN errorHandler(current_state)
                  ELSE current_state
  <2>1. callHandler(s) /\ (occured_event = "SUCCESS" \/ occured_event = "FAIL")
    BY <1>1 DEF CLOUD_runTask, TypeOK, CloudEvents
  <2> HIDE DEF s
  <2>2. current_state' = s + 1 \/ current_state' = current_state
    <3>1. wifiConnect => current_state' = WIFI_CONNECT
      BY DEF wifiConnect
    <3>2. waitForInternet => current_state' = WAIT_FOR_INTERNET
      BY DEF waitForInternet
    <3>3. requestDns => current_state' = DNS_REQUEST
      BY DEF requestDns
    <3>4. tlsConnect => current_state' = TLS_CONNECT
      BY DEF tlsConnect
    <3>5. mqttConnect => current_state' = MQTT
      BY DEF mqttConnect
    <3>6. startSubscribe => current_state' = SUBSCRIBE
      BY DEF startSubscribe
    <3>7. startSending => current_state' = SENDING
      BY DEF startSending
    <3>8. callBeyondTable => current_state' = current_state
      BY DEF callBeyondTable, host
    <3>9. QED
      BY <2>1, <3>1, <3>2, <3>3, <3>4, <3>5, <3>6, <3>7, <3>8 DEF callHandler, INIT,
         WIFI_CONNECT, WAIT_FOR_INTERNET, DNS_REQUEST, TLS_CONNECT, MQTT, SUBSCRIBE,
         SENDING
  <2>3. CASE occured_event = "FAIL"
    <3>1. current_state \in 0 .. 7
      BY <1>1 DEF TypeOK, INIT, SENDING
    <3>2. (s = 0 /\ current_state = 0) \/ (s \in Nat /\ s + 1 <= current_state)
      BY <2>3, <3>1 DEF s, errorHandler, INIT, WIFI_CONNECT, WAIT_FOR_INTERNET,
         DNS_REQUEST, TLS_CONNECT, MQTT
    <3>3. CASE s = 0 /\ current_state = 0
      BY <2>2, <3>3 DEF INIT
    <3>4. CASE s \in Nat /\ s + 1 <= current_state
      BY <2>2, <3>1, <3>4
    <3>5. QED
      BY <3>2, <3>3, <3>4
  <2>4. CASE occured_event = "SUCCESS"
    BY <1>1, <2>2, <2>4 DEF s, TypeOK, INIT, SENDING
  <2>5. QED
    BY <2>1, <2>3, <2>4
<1>2. Message => UNCHANGED current_state
  BY DEF Message, joinFailed, linkDropped, disconnected, joined, dhcpConf, pingReply,
     dnsReply, connectReply, sendReply, recvData, recvError, peerClose, quiet, host
<1>3. TypeOK /\ [Next]_vars => [A]_vars
  <2>1. SUFFICES ASSUME TypeOK, [Next]_vars PROVE [A]_vars
    OBVIOUS
  <2>2. CASE Message \/ UNCHANGED vars
    <3>1. current_state' = current_state /\ current_state \in Int
      BY <1>2, <2>1, <2>2 DEF vars, host, TypeOK, INIT, SENDING
    <3>2. QED
      BY <3>1
  <2>3. QED
    BY <1>1, <2>1, <2>2 DEF Next
<1>4. QED
  BY <1>3, TypeCorrect, PTL DEF Spec, ForwardOnlyOnSuccess

-----------------------------------------------------------------------------
(***************************************************************************)
(* A network without the faults of Cloud's Faults: joins, pings, lookups   *)
(* and connects fail and connections break, but leases are not renewed,    *)
(* requests are not refused and no late answer comes.  For any number of   *)
(* sockets and any limit on requests.                                      *)
(*                                                                         *)
(* Then the stage the manager is in tells which request is under way       *)
(* (StageAwaits), that a socket is open only from TLS_CONNECT on and never *)
(* after a failure (ClosedBefore), and that the connection is still the    *)
(* one that was made (Connected).                                          *)
(***************************************************************************)

(* The requests under way are those of the present stage, each is alone,    *)
(* and while one is, no event waits.                                        *)
StageAwaits ==
  /\ control = "loop"
  /\ pings > 0 => pings = 1 /\ current_state = WAIT_FOR_INTERNET /\ occured_event = "NO_EVENT"
  /\ lookups > 0 => lookups = 1 /\ current_state = DNS_REQUEST /\ occured_event = "NO_EVENT"
  /\ \A s \in Sockets : connects[s] > 0 =>
       /\ connects[s] = 1 /\ current_state = TLS_CONNECT /\ occured_event = "NO_EVENT"
       /\ s = tcpClientSocket /\ bIsUsed[s] /\ tcp[s] = "connecting"
  /\ link \in {"joining", "dhcp"} => current_state = WIFI_CONNECT /\ occured_event = "NO_EVENT"

(* From the join on the link is up, and so is the driver.                   *)
LinkIsUp ==
  /\ current_state >= WAIT_FOR_INTERNET => link = "up"
  /\ current_state = WIFI_CONNECT /\ occured_event = "SUCCESS" => link = "up"
  /\ ~driverUp => link = "down" /\ current_state <= WIFI_CONNECT /\ occured_event # "SUCCESS"

(* A socket is open only from TLS_CONNECT on, and never after a failure.    *)
ClosedBefore ==
  /\ \A s \in Sockets : bIsUsed[s] =>
       s = tcpClientSocket /\ current_state >= TLS_CONNECT /\ occured_event # "FAIL"
  /\ current_state >= TLS_CONNECT => endpoint_ip # 0
  /\ current_state = DNS_REQUEST /\ occured_event = "SUCCESS" => endpoint_ip # 0

(* Nothing is sent before the connect has succeeded; the connection is      *)
(* there until a failure is seen; and what follows MQTT follows a CONNACK.  *)
Connected ==
  /\ current_state = TLS_CONNECT => \A s \in Sockets : sends[s] = 0 /\ ~armed[s]
  /\ \/ current_state = TLS_CONNECT /\ occured_event = "SUCCESS"
     \/ current_state >= MQTT /\ occured_event # "FAIL"
     => /\ tcpClientSocket \in Sockets /\ bIsUsed[tcpClientSocket]
        /\ tcp[tcpClientSocket] \in {"open", "gone"}
  /\ owed # {} => current_state = MQTT /\ occured_event = "NO_EVENT"
  /\ current_state = MQTT /\ occured_event = "SUCCESS" => mqtt = "CONNECTED"
  /\ current_state >= SUBSCRIBE => mqtt = "CONNECTED"
  /\ current_state = SENDING => occured_event # "SUCCESS"

Calm == StageAwaits /\ LinkIsUp /\ ClosedBefore /\ Connected

-----------------------------------------------------------------------------
LEMMA InitIsCalm == Init => Calm
<1> SUFFICES ASSUME Init PROVE Calm
  OBVIOUS
<1> QED
  BY DEF Init, Calm, StageAwaits, LinkIsUp, ClosedBefore, Connected, INIT, WIFI_CONNECT,
     WAIT_FOR_INTERNET, DNS_REQUEST, TLS_CONNECT, MQTT, SUBSCRIBE, SENDING

(* Without faults and with room, a request reaches the WINC if the driver   *)
(* is up.                                                                   *)
LEMMA OnlyAnswer ==
  ASSUME Faults = {}, TypeOK, NEW room \in BOOLEAN, room, NEW ok \in Answers(room)
  PROVE  ok = driverUp
  BY DEF Answers, TypeOK

(* Nothing under way: so it is before each handler runs.                    *)
Quiet ==
  /\ pings = 0 /\ lookups = 0 /\ link \notin {"joining", "dhcp"}
  /\ \A s \in Sockets : connects[s] = 0

LEMMA QuietBeforeHandlers == IInv /\ Calm /\ occured_event # "NO_EVENT" => Quiet
  BY DEF IInv, TypeOK, Calm, StageAwaits, Quiet

(* A closed socket and all that went with it                                *)
LEMMA ClosingCurrent ==
  ASSUME IInv, NEW c \in [Sockets -> 0 .. MaxAsked], NEW t, NEW s \in Sockets \cup {-1},
         close(s, c, t), \A q \in Sockets : bIsUsed[q] => q = s,
         \A q \in Sockets : c[q] = 0
  PROVE  /\ \A q \in Sockets : ~bIsUsed'[q] /\ connects'[q] = 0 /\ ~armed'[q] /\ sends'[q] = 0
         /\ owed' = {}
<1>1. CASE s \in Sockets /\ bIsUsed[s]
  BY <1>1 DEF close, IInv, TypeOK, ClosedSocketsAreClean
<1>2. CASE ~(s \in Sockets /\ bIsUsed[s])
  BY <1>2 DEF close, IInv, TypeOK, ClosedSocketsAreClean
<1> QED
  BY <1>1, <1>2

(* ... after which, if the failure is told, the calm invariant holds.       *)
LEMMA FailureKeepsCalm ==
  ASSUME IInv, Calm, occured_event' = "FAIL", quiet, UNCHANGED <<pings, lookups, mqtt>>,
         pings = 0, lookups = 0, link' \notin {"joining", "dhcp"},
         current_state = WIFI_CONNECT \/ link' = link, driverUp \/ link' = "down",
         \A q \in Sockets : ~bIsUsed'[q] /\ connects'[q] = 0 /\ ~armed'[q] /\ sends'[q] = 0,
         owed' = {}
  PROVE  Calm'
<1> USE DEF quiet, host, Calm, IInv, TypeOK
<1>1. StageAwaits'
  BY DEF StageAwaits
<1>2. LinkIsUp'
  BY DEF LinkIsUp, WIFI_CONNECT, WAIT_FOR_INTERNET
<1>3. ClosedBefore'
  BY DEF ClosedBefore, TLS_CONNECT, DNS_REQUEST
<1>4. Connected'
  BY DEF Connected, TLS_CONNECT, MQTT, SUBSCRIBE, SENDING
<1> QED
  BY <1>1, <1>2, <1>3, <1>4

-----------------------------------------------------------------------------
(* The handlers *)
LEMMA HandlersKeepCalm ==
  ASSUME Faults = {}, IInv, Calm, CLOUD_runTask
  PROVE  Calm'
<1> USE DEF Calm, INIT, WIFI_CONNECT, WAIT_FOR_INTERNET, DNS_REQUEST, TLS_CONNECT, MQTT, SUBSCRIBE,
            SENDING, STATES_NUM
<1> DEFINE state == IF occured_event = "FAIL" THEN errorHandler(current_state) ELSE current_state
<1>1. /\ callHandler(state) /\ UNCHANGED driverUp /\ Quiet /\ occured_event # "NO_EVENT"
      /\ control = "loop"
  BY QuietBeforeHandlers DEF CLOUD_runTask
<1>2. occured_event = "FAIL" => \A s \in Sockets : ~bIsUsed[s]
  BY DEF ClosedBefore
<1>3. TypeOK /\ ClosedSocketsAreClean /\ current_state \in 0 .. 7
  BY DEF IInv, TypeOK
<1>4. ~driverUp => state = INIT \/ state = WIFI_CONNECT
  BY <1>3 DEF LinkIsUp, errorHandler
<1>5. ~driverUp => state = INIT
  BY <1>1, <1>3 DEF LinkIsUp, errorHandler, TypeOK, CloudEvents
<1>6. CASE state = INIT
  <2>1. wifiConnect
    BY <1>1, <1>6 DEF callHandler
  <2>2. PICK ok \in Answers(TRUE) :
          /\ link' = (IF ok THEN "joining" ELSE link)
          /\ occured_event' = rcEvent(ok)
    BY <2>1 DEF wifiConnect
  <2>3. ok = driverUp
    BY <1>3, OnlyAnswer
  <2>4. \A s \in Sockets : ~bIsUsed[s]
    BY <1>1, <1>2, <1>3, <1>6 DEF ClosedBefore, errorHandler
  <2>5. \A s \in Sockets : sends[s] = 0 /\ ~armed[s] /\ s \notin owed
    BY <1>3, <2>4 DEF ClosedSocketsAreClean
  <2>6. owed = {}
    BY <1>3, <2>5 DEF TypeOK
  <2>7. /\ current_state' = 1 /\ control' = "loop"
        /\ UNCHANGED <<endpoint_ip, tcpClientSocket, mqtt, bIsUsed, pings, lookups, connects,
                       sends, armed, owed, driverUp>>
    BY <1>1, <2>1 DEF wifiConnect, table, asked
  <2>8. occured_event' = IF driverUp THEN "NO_EVENT" ELSE "FAIL"
    BY <2>2, <2>3 DEF rcEvent
  <2>9. StageAwaits' /\ ClosedBefore' /\ Connected'
    BY <1>1, <2>2, <2>3, <2>4, <2>6, <2>7, <2>8 DEF Quiet, StageAwaits, ClosedBefore, Connected
  <2>10. LinkIsUp'
    BY <2>2, <2>3, <2>7, <2>8 DEF LinkIsUp
  <2> QED
    BY <2>9, <2>10
<1>7. CASE state = WIFI_CONNECT
  <2>1. waitForInternet /\ driverUp
    BY <1>1, <1>5, <1>7 DEF callHandler
  <2>2. PICK ok \in Answers(pings < MaxAsked) : pings' = IF ok THEN pings + 1 ELSE pings
    BY <2>1 DEF waitForInternet
  <2>3. pings' = 1
    BY <1>1, <1>3, <2>1, <2>2 DEF Quiet, Answers, TypeOK
  <2>4. /\ current_state' = 2 /\ control' = "loop" /\ occured_event' = "NO_EVENT"
        /\ UNCHANGED <<endpoint_ip, tcpClientSocket, mqtt, bIsUsed, link, lookups, connects,
                       sends, armed, owed, driverUp>>
    BY <1>1, <2>1 DEF waitForInternet, table, session
  <2>5. link = "up" /\ \A s \in Sockets : ~bIsUsed[s]
    BY <1>1, <1>2, <1>3, <1>7 DEF LinkIsUp, ClosedBefore, errorHandler, TypeOK, CloudEvents
  <2>6. owed = {}
    BY <1>3, <2>5 DEF ClosedSocketsAreClean, TypeOK
  <2> QED
    BY <1>1, <2>1, <2>3, <2>4, <2>5, <2>6 DEF Quiet, StageAwaits, LinkIsUp, ClosedBefore, Connected
<1>8. CASE state = WAIT_FOR_INTERNET
  <2>1. requestDns /\ driverUp
    BY <1>1, <1>5, <1>8 DEF callHandler
  <2>2. PICK ok \in Answers(lookups < MaxAsked) :
          lookups' = (IF ok THEN lookups + 1 ELSE lookups) /\ occured_event' = rcEvent(ok)
    BY <2>1 DEF requestDns
  <2>3. ok
    BY <1>1, <1>3, <2>1, <2>2 DEF Quiet, Answers, TypeOK
  <2>4. lookups' = 1 /\ occured_event' = "NO_EVENT"
    BY <1>1, <2>2, <2>3 DEF Quiet, rcEvent
  <2>5. /\ current_state' = 3 /\ control' = "loop"
        /\ UNCHANGED <<tcpClientSocket, mqtt, bIsUsed, link, pings, connects,
                       sends, armed, owed, driverUp>>
    BY <1>1, <2>1 DEF requestDns, table, session
  <2>6. link = "up" /\ \A s \in Sockets : ~bIsUsed[s]
    BY <1>1, <1>2, <1>3, <1>8 DEF LinkIsUp, ClosedBefore, errorHandler
  <2>7. owed = {}
    BY <1>3, <2>6 DEF ClosedSocketsAreClean, TypeOK
  <2> QED
    BY <1>1, <2>1, <2>4, <2>5, <2>6, <2>7 DEF Quiet, StageAwaits, LinkIsUp, ClosedBefore, Connected
<1>9. CASE state = DNS_REQUEST
  <2>1. tlsConnect /\ driverUp
    BY <1>1, <1>5, <1>9 DEF callHandler
  <2>2. link = "up" /\ (\A s \in Sockets : ~bIsUsed[s]) /\ endpoint_ip # 0
    BY <1>1, <1>2, <1>3, <1>9 DEF LinkIsUp, ClosedBefore, errorHandler, TypeOK, CloudEvents
  <2>3. PICK sock \in socket :
          /\ tcpClientSocket' = sock
          /\ \/ sock = -1
             \/ /\ bIsUsed' = [bIsUsed EXCEPT ![sock] = TRUE]
                /\ \E ok \in Answers(connects[sock] < MaxAsked) :
                     /\ connects' = IF ok THEN [connects EXCEPT ![sock] = @ + 1] ELSE connects
                     /\ tcp' = [tcp EXCEPT ![sock] = IF ok THEN "connecting" ELSE "idle"]
                     /\ occured_event' = rcEvent(ok)
                /\ UNCHANGED <<sends, armed, owed>>
    BY <2>1 DEF tlsConnect
  <2>4. sock \in Sockets
    <3>1. 0 \in Sockets
      BY DEF Sockets
    <3>2. ~ \A s \in Sockets : bIsUsed[s]
      BY <2>2, <3>1
    <3>3. PICK d \in Sockets : sock = (u8NextTcpSock + d) % TCP_SOCK_MAX
      BY <3>2 DEF socket
    <3>4. u8NextTcpSock + d \in Nat
      BY <1>3 DEF TypeOK, Sockets
    <3> QED
      BY <3>3, <3>4, ModInTable
  <2>5. PICK ok \in Answers(connects[sock] < MaxAsked) :
          /\ connects' = IF ok THEN [connects EXCEPT ![sock] = @ + 1] ELSE connects
          /\ tcp' = [tcp EXCEPT ![sock] = IF ok THEN "connecting" ELSE "idle"]
          /\ occured_event' = rcEvent(ok)
    BY <2>3, <2>4 DEF Sockets
  <2>6. ok
    BY <1>1, <1>3, <2>1, <2>4, <2>5 DEF Quiet, Answers, TypeOK
  <2>7. /\ connects' = [connects EXCEPT ![sock] = 1] /\ tcp' = [tcp EXCEPT ![sock] = "connecting"]
        /\ bIsUsed' = [bIsUsed EXCEPT ![sock] = TRUE] /\ occured_event' = "NO_EVENT"
        /\ UNCHANGED <<sends, armed, owed>>
    <3>1. sock # -1 /\ connects[sock] = 0
      BY <1>1, <2>4 DEF Quiet, Sockets
    <3>2. connects' = [connects EXCEPT ![sock] = 0 + 1]
      BY <2>5, <2>6, <3>1
    <3> QED
      BY <2>3, <2>5, <2>6, <3>1, <3>2 DEF rcEvent
  <2>8. /\ current_state' = 4 /\ control' = "loop" /\ tcpClientSocket' = sock
        /\ UNCHANGED <<endpoint_ip, mqtt, link, pings, lookups, driverUp>>
    BY <1>1, <2>1, <2>3 DEF tlsConnect
  <2>9. owed = {} /\ \A s \in Sockets : sends[s] = 0 /\ ~armed[s]
    BY <1>3, <2>2 DEF ClosedSocketsAreClean, TypeOK
  <2>10. StageAwaits'
    BY <1>1, <1>3, <2>2, <2>4, <2>7, <2>8 DEF Quiet, StageAwaits, TypeOK
  <2>11. LinkIsUp' /\ ClosedBefore'
    BY <1>3, <2>1, <2>2, <2>4, <2>7, <2>8 DEF LinkIsUp, ClosedBefore, TypeOK
  <2>12. Connected'
    BY <2>7, <2>8, <2>9 DEF Connected
  <2> QED
    BY <2>10, <2>11, <2>12
<1>10. CASE state = TLS_CONNECT
  <2>1. mqttConnect /\ occured_event = "SUCCESS" /\ current_state = TLS_CONNECT
    BY <1>1, <1>3, <1>10 DEF callHandler, errorHandler, TypeOK, CloudEvents
  <2>2. /\ tcpClientSocket \in Sockets /\ bIsUsed[tcpClientSocket]
        /\ tcp[tcpClientSocket] \in {"open", "gone"} /\ owed = {}
    BY <2>1 DEF Connected
  <2>3. /\ current_state' = 5 /\ control' = "loop" /\ occured_event' = "NO_EVENT"
        /\ UNCHANGED <<endpoint_ip, tcpClientSocket, bIsUsed, link, pings, lookups, connects, tcp,
                       driverUp>>
    BY <1>1, <2>1 DEF mqttConnect, table, asked
  <2>4. StageAwaits' /\ LinkIsUp'
    BY <1>1, <2>1, <2>3 DEF Quiet, StageAwaits, LinkIsUp
  <2>5. ClosedBefore' /\ Connected'
    BY <2>1, <2>2, <2>3 DEF ClosedBefore, Connected
  <2> QED
    BY <2>4, <2>5
<1>11. CASE state = MQTT
  <2>1. startSubscribe /\ occured_event = "SUCCESS" /\ current_state = MQTT
    BY <1>1, <1>3, <1>11 DEF callHandler, errorHandler, TypeOK, CloudEvents
  <2>2. /\ current_state' = 6 /\ control' = "loop" /\ occured_event' = "SUCCESS"
        /\ UNCHANGED <<endpoint_ip, tcpClientSocket, mqtt, bIsUsed, link, pings, lookups, connects,
                       armed, tcp, owed, driverUp>>
    BY <1>1, <2>1 DEF startSubscribe, table, asked
  <2>3. StageAwaits' /\ LinkIsUp'
    BY <1>1, <2>1, <2>2 DEF Quiet, StageAwaits, LinkIsUp
  <2>4. ClosedBefore' /\ Connected'
    BY <2>1, <2>2 DEF ClosedBefore, Connected
  <2> QED
    BY <2>3, <2>4
<1>12. CASE state = SUBSCRIBE
  <2>1. startSending /\ occured_event = "SUCCESS" /\ current_state = SUBSCRIBE
    BY <1>1, <1>3, <1>12 DEF callHandler, errorHandler, TypeOK, CloudEvents
  <2>2. /\ current_state' = 7 /\ control' = "loop" /\ occured_event' = "NO_EVENT"
        /\ UNCHANGED <<endpoint_ip, tcpClientSocket, mqtt, bIsUsed, link, pings, lookups, connects,
                       armed, tcp, owed, driverUp>>
    BY <1>1, <2>1 DEF startSending, table, asked
  <2>3. StageAwaits' /\ LinkIsUp'
    BY <1>1, <2>1, <2>2 DEF Quiet, StageAwaits, LinkIsUp
  <2>4. ClosedBefore' /\ Connected'
    BY <2>1, <2>2 DEF ClosedBefore, Connected
  <2> QED
    BY <2>3, <2>4
<1>13. state # SENDING
  BY <1>1, <1>3 DEF errorHandler, Connected, TypeOK, CloudEvents
<1>14. state \in 0 .. 7
  BY <1>3 DEF errorHandler
<1> QED
  BY <1>6, <1>7, <1>8, <1>9, <1>10, <1>11, <1>12, <1>13, <1>14

-----------------------------------------------------------------------------
(* The messages *)
LEMMA MessagesKeepCalm ==
  ASSUME Faults = {}, IInv, Calm, Message
  PROVE  Calm'
<1> USE DEF Calm, INIT, WIFI_CONNECT, WAIT_FOR_INTERNET, DNS_REQUEST, TLS_CONNECT, MQTT, SUBSCRIBE,
            SENDING
<1>1. TypeOK /\ ClosedSocketsAreClean
  BY DEF IInv
<1>2. CASE joinFailed
  <2> DEFINE t == [s \in Sockets |-> IF tcp[s] = "open" THEN "gone" ELSE tcp[s]]
  <2>1. current_state = WIFI_CONNECT /\ occured_event = "NO_EVENT"
    BY <1>2 DEF joinFailed, StageAwaits
  <2>2. /\ link' = "down" /\ close(tcpClientSocket, connects, t) /\ occured_event' = "FAIL"
        /\ quiet /\ UNCHANGED <<mqtt, pings, lookups>>
    BY <1>2 DEF joinFailed, disconnected, CLOUD_receiveEvent
  <2>3. /\ pings = 0 /\ lookups = 0
        /\ \A q \in Sockets : connects[q] = 0 /\ (bIsUsed[q] => q = tcpClientSocket)
    BY <1>1, <2>1 DEF StageAwaits, ClosedBefore, TypeOK
  <2>4. connects \in [Sockets -> 0 .. MaxAsked] /\ tcpClientSocket \in Sockets \cup {-1}
    BY <1>1 DEF TypeOK
  <2> HIDE DEF t
  <2>5. /\ \A q \in Sockets : ~bIsUsed'[q] /\ connects'[q] = 0 /\ ~armed'[q] /\ sends'[q] = 0
        /\ owed' = {}
    BY <2>2, <2>3, <2>4, ClosingCurrent
  <2> QED
    BY <2>1, <2>2, <2>3, <2>5, FailureKeepsCalm
<1>3. CASE joined
  <2>1. /\ link = "joining" /\ link' = "dhcp" /\ current_state = 1
        /\ UNCHANGED <<host, driverUp, control, occured_event, mqtt, table, asked, session>>
    BY <1>3 DEF joined, quiet, StageAwaits
  <2>2. driverUp
    BY <2>1 DEF LinkIsUp
  <2> QED
    BY <2>1, <2>2 DEF host, table, asked, session, StageAwaits, LinkIsUp, ClosedBefore, Connected
<1>4. CASE dhcpConf
  <2>1. /\ link = "dhcp" /\ link' = "up" /\ occured_event' = "SUCCESS"
        /\ UNCHANGED <<host, driverUp, control, mqtt, table, asked, session>>
    BY <1>4 DEF dhcpConf, quiet, CLOUD_receiveEvent
  <2>2. current_state = 1 /\ driverUp /\ pings = 0 /\ lookups = 0 /\ \A s \in Sockets : connects[s] = 0
    BY <1>1, <2>1 DEF StageAwaits, LinkIsUp, TypeOK
  <2> QED
    BY <2>1, <2>2 DEF host, table, asked, session, StageAwaits, LinkIsUp, ClosedBefore, Connected
<1>5. ASSUME NEW code \in PingCodes, pingReply(code) PROVE Calm'
  <2>1. /\ pings = 1 /\ pings' = 0 /\ current_state = 2 /\ driverUp
        /\ occured_event' \in {"SUCCESS", "FAIL"}
        /\ UNCHANGED <<host, driverUp, control, mqtt, table, link, lookups, connects, session>>
    BY <1>1, <1>5 DEF pingReply, quiet, CLOUD_receiveEvent, StageAwaits, LinkIsUp, TypeOK
  <2>2. /\ lookups = 0 /\ link = "up"
        /\ \A s \in Sockets : connects[s] = 0 /\ ~bIsUsed[s]
    BY <1>1, <2>1 DEF StageAwaits, LinkIsUp, ClosedBefore, TypeOK
  <2>3. owed = {}
    BY <2>1 DEF Connected
  <2> QED
    BY <2>1, <2>2, <2>3 DEF host, table, session, StageAwaits, LinkIsUp, ClosedBefore, Connected
<1>6. ASSUME NEW ip \in {0, 1}, dnsReply(ip) PROVE Calm'
  <2>1. /\ lookups = 1 /\ lookups' = 0 /\ current_state = 3 /\ driverUp
        /\ occured_event' = (IF ip # 0 THEN "SUCCESS" ELSE "FAIL")
        /\ endpoint_ip' = (IF ip # 0 THEN ip ELSE endpoint_ip)
        /\ UNCHANGED <<current_state, tcpClientSocket, mqtt, table, driverUp, link, pings,
                       connects, session, control>>
    BY <1>1, <1>6 DEF dnsReply, dnsEvent, CLOUD_receiveEvent, StageAwaits, LinkIsUp, TypeOK
  <2>2. /\ pings = 0 /\ link = "up"
        /\ \A s \in Sockets : connects[s] = 0 /\ ~bIsUsed[s]
    BY <1>1, <2>1 DEF StageAwaits, LinkIsUp, ClosedBefore, TypeOK
  <2>3. owed = {}
    BY <2>1 DEF Connected
  <2> QED
    BY <2>1, <2>2, <2>3 DEF table, session, StageAwaits, LinkIsUp, ClosedBefore, Connected
<1>7. ASSUME NEW s \in Sockets, NEW ok \in BOOLEAN, connectReply(s, ok) PROVE Calm'
  <2> DEFINE c == [connects EXCEPT ![s] = @ - 1]
             t == [tcp EXCEPT ![s] = IF ~fresh(s) THEN @ ELSE IF ok THEN "open" ELSE "idle"]
  <2>1. /\ connects[s] = 1 /\ current_state = 4 /\ s = tcpClientSocket /\ bIsUsed[s]
        /\ tcp[s] = "connecting" /\ pings = 0 /\ lookups = 0 /\ driverUp /\ link = "up"
        /\ \A q \in Sockets \ {s} : connects[q] = 0
    BY <1>1, <1>7 DEF connectReply, StageAwaits, LinkIsUp, TypeOK
  <2>2. \A q \in Sockets : bIsUsed[q] => q = s
    BY <2>1 DEF ClosedBefore
  <2>3. c \in [Sockets -> 0 .. MaxAsked] /\ \A q \in Sockets : c[q] = 0
    BY <1>1, <2>1 DEF TypeOK
  <2>4. quiet /\ UNCHANGED <<mqtt, link, pings, lookups>>
    BY <1>7 DEF connectReply
  <2>5. CASE ok
    <3>1. /\ connects' = c /\ tcp' = t /\ occured_event' = "SUCCESS"
          /\ UNCHANGED <<bIsUsed, sends, armed, owed>>
      BY <1>7, <2>5 DEF connectReply, CLOUD_receiveEvent
    <3>2. tcp'[s] = "open"
      BY <1>1, <2>1, <2>5, <3>1 DEF fresh, TypeOK
    <3>3. \A q \in Sockets : connects'[q] = 0
      BY <2>3, <3>1
    <3>4. StageAwaits' /\ LinkIsUp'
      BY <2>1, <2>4, <3>1, <3>3 DEF quiet, host, StageAwaits, LinkIsUp
    <3>5. ClosedBefore' /\ Connected'
      BY <2>1, <2>4, <3>1, <3>2 DEF quiet, host, ClosedBefore, Connected
    <3> QED
      BY <3>4, <3>5
  <2>6. CASE ~ok
    <3>1. close(s, c, t) /\ occured_event' = "FAIL"
      BY <1>7, <2>6 DEF connectReply, CLOUD_receiveEvent
    <3> HIDE DEF c, t
    <3>2. /\ \A q \in Sockets : ~bIsUsed'[q] /\ connects'[q] = 0 /\ ~armed'[q] /\ sends'[q] = 0
          /\ owed' = {}
      BY <2>2, <2>3, <3>1, ClosingCurrent
    <3> QED
      BY <2>1, <2>4, <3>1, <3>2, FailureKeepsCalm
  <2> QED
    BY <2>5, <2>6
<1>8. ASSUME NEW s \in Sockets, sendReply(s) PROVE Calm'
  <2>1. /\ sends[s] > 0
        /\ UNCHANGED <<host, driverUp, control, occured_event, mqtt, bIsUsed, link, asked, tcp, owed>>
    BY <1>8 DEF sendReply, quiet
  <2>2. current_state # TLS_CONNECT
    BY <1>1, <2>1 DEF Connected, TypeOK
  <2> QED
    BY <2>1, <2>2 DEF host, asked, StageAwaits, LinkIsUp, ClosedBefore, Connected
<1>9. ASSUME NEW s \in Sockets, NEW packet \in Packets, recvData(s, packet) PROVE Calm'
  <2>1. /\ armed[s] /\ tcp[s] = "open" /\ armed' = [armed EXCEPT ![s] = FALSE]
        /\ UNCHANGED <<host, driverUp, control, bIsUsed, link, asked, sends, tcp>>
    BY <1>9 DEF recvData, quiet
  <2>2. bIsUsed[s]
    BY <1>1, <2>1 DEF ClosedSocketsAreClean
  <2>3. current_state > TLS_CONNECT /\ occured_event # "FAIL" /\ s = tcpClientSocket
    BY <1>1, <2>1, <2>2 DEF ClosedBefore, Connected, TypeOK
  <2>4. CASE /\ s \in owed /\ mqtt' = "CONNECTED" /\ owed' = owed \ {s} /\ occured_event' = "SUCCESS"
    <3>1. current_state = 5 /\ owed' = {}
      <4>1. current_state = 5
        BY <2>4 DEF Connected
      <4>2. owed \subseteq {s}
        BY <1>1, <2>3 DEF TypeOK, ClosedSocketsAreClean, ClosedBefore
      <4> QED
        BY <2>4, <4>1, <4>2
    <3>2. StageAwaits' /\ LinkIsUp'
      <4>1. pings = 0 /\ lookups = 0 /\ (\A q \in Sockets : connects[q] = 0) /\ link = "up"
        BY <1>1, <3>1 DEF StageAwaits, LinkIsUp, TypeOK
      <4> QED
        BY <2>1, <2>4, <3>1, <4>1 DEF host, asked, StageAwaits, LinkIsUp
    <3>3. ClosedBefore' /\ Connected'
      BY <2>1, <2>2, <2>3, <2>4, <3>1 DEF host, ClosedBefore, Connected
    <3> QED
      BY <3>2, <3>3
  <2>5. CASE UNCHANGED <<mqtt, owed, occured_event>>
    BY <2>1, <2>3, <2>5 DEF host, asked, StageAwaits, LinkIsUp, ClosedBefore, Connected
  <2> QED
    BY <1>9, <2>4, <2>5 DEF recvData, CLOUD_receiveEvent
<1>10. ASSUME NEW s \in Sockets, recvError(s) PROVE Calm'
  <2>1. /\ armed[s] /\ close(s, connects, tcp) /\ occured_event' = "FAIL"
        /\ quiet /\ UNCHANGED <<mqtt, link, pings, lookups>>
    BY <1>10 DEF recvError, CLOUD_receiveEvent
  <2>2. bIsUsed[s]
    BY <1>1, <2>1 DEF ClosedSocketsAreClean
  <2>3. current_state > TLS_CONNECT /\ \A q \in Sockets : bIsUsed[q] => q = s
    BY <1>1, <2>1, <2>2 DEF ClosedBefore, Connected, TypeOK
  <2>4. /\ pings = 0 /\ lookups = 0 /\ link = "up" /\ driverUp
        /\ \A q \in Sockets : connects[q] = 0
    BY <1>1, <2>3 DEF StageAwaits, LinkIsUp, TypeOK
  <2>5. connects \in [Sockets -> 0 .. MaxAsked]
    BY <1>1 DEF TypeOK
  <2>6. /\ \A q \in Sockets : ~bIsUsed'[q] /\ connects'[q] = 0 /\ ~armed'[q] /\ sends'[q] = 0
        /\ owed' = {}
    BY <2>1, <2>3, <2>4, <2>5, ClosingCurrent
  <2> QED
    BY <2>1, <2>4, <2>6, FailureKeepsCalm
<1>11. ASSUME NEW s \in Sockets, peerClose(s) PROVE Calm'
  <2>1. /\ tcp[s] = "open" /\ tcp' = [tcp EXCEPT ![s] = "gone"]
        /\ UNCHANGED <<host, driverUp, control, occured_event, mqtt, table, link, asked, sends,
                       armed, owed>>
    BY <1>11 DEF peerClose, quiet
  <2>2. \A q \in Sockets : tcp[q] = "connecting" => tcp'[q] = "connecting"
    BY <1>1, <2>1 DEF TypeOK
  <2>3. \A q \in Sockets : tcp[q] \in {"open", "gone"} => tcp'[q] \in {"open", "gone"}
    BY <1>1, <2>1 DEF TypeOK
  <2> QED
    BY <2>1, <2>2, <2>3 DEF host, table, asked, StageAwaits, LinkIsUp, ClosedBefore, Connected
<1>12. ~linkDropped
  BY DEF linkDropped
<1> QED
  BY <1>2, <1>3, <1>4, <1>5, <1>6, <1>7, <1>8, <1>9, <1>10, <1>11, <1>12 DEF Message

LEMMA CalmThroughout ==
  ASSUME Faults = {}
  PROVE  Spec => [](IInv /\ Calm)
<1>1. ASSUME IInv, Calm, [Next]_vars PROVE Calm'
  <2>1. CASE UNCHANGED vars
    BY <1>1, <2>1 DEF Calm, StageAwaits, LinkIsUp, ClosedBefore, Connected, vars, host, table, asked,
       session
  <2> QED
    BY <1>1, <2>1, HandlersKeepCalm, MessagesKeepCalm DEF Next
<1> QED
  BY <1>1, InitIsCalm, Inductive, PTL DEF Spec

-----------------------------------------------------------------------------
(* Theorem: without faults no reply outlives the stage that asked for it,   *)
(* so no SUCCESS reaches SENDING, which has no handler (cloud.c:60-69, 247).*)
THEOREM RepliesInTheirStage ==
  ASSUME Faults = {}
  PROVE  Spec => []NoReplyOutlivesItsStage
<1>1. IInv /\ Calm => NoReplyOutlivesItsStage
  BY DEF IInv, TypeOK, Calm, StageAwaits, NoReplyOutlivesItsStage
<1> QED
  BY <1>1, CalmThroughout, PTL

(* Theorem: without faults every path that abandons a connection closes its *)
(* socket first (network.c, the close calls of the callbacks).              *)
THEOREM OneSocket ==
  ASSUME Faults = {}
  PROVE  Spec => []OnlyCurrentSocketOpen
<1>1. Calm => OnlyCurrentSocketOpen
  BY DEF Calm, ClosedBefore, OnlyCurrentSocketOpen
<1> QED
  BY <1>1, CalmThroughout, PTL

(* Theorem: without faults SUBSCRIBE and PUBLISH are sent in a session that *)
(* the broker has accepted (cloud.c, startSubscribe and startSending).      *)
THEOREM PublishesAccepted ==
  ASSUME Faults = {}
  PROVE  Spec => []PublishesInSession
<1>1. IInv /\ Calm => PublishesInSession
  BY DEF IInv, TypeOK, Calm, Connected, PublishesInSession, INIT, SUBSCRIBE, SENDING
<1> QED
  BY <1>1, CalmThroughout, PTL

(* What is asked of a socket in a step is asked of what is there.           *)
UsesThere(s) ==
  /\ connects'[s] > connects[s] => endpoint_ip # 0
  /\ sends'[s] > sends[s] => tcp[s] \in {"open", "gone"}

LEMMA HandlersUse ==
  ASSUME Faults = {}, IInv, Calm, CLOUD_runTask, NEW s \in Sockets
  PROVE  UsesThere(s)
<1> USE DEF Calm, INIT, WIFI_CONNECT, WAIT_FOR_INTERNET, DNS_REQUEST, TLS_CONNECT, MQTT, SUBSCRIBE,
            SENDING, STATES_NUM
<1> DEFINE state == IF occured_event = "FAIL" THEN errorHandler(current_state) ELSE current_state
<1>1. callHandler(state) /\ occured_event # "NO_EVENT" /\ TypeOK
  BY DEF CLOUD_runTask, IInv
<1>2. state = DNS_REQUEST => endpoint_ip # 0
  BY <1>1 DEF ClosedBefore, errorHandler, TypeOK, CloudEvents
<1>3. state \in {TLS_CONNECT, MQTT, SUBSCRIBE} => tcp[tcpClientSocket] \in {"open", "gone"}
  BY <1>1 DEF Connected, errorHandler, TypeOK, CloudEvents
<1>4. CASE wifiConnect \/ waitForInternet \/ requestDns \/ callBeyondTable
  <2>1. connects' = connects /\ sends' = sends
    BY <1>4 DEF wifiConnect, waitForInternet, requestDns, callBeyondTable, asked, session
  <2> QED
    BY <2>1, <1>1 DEF UsesThere, TypeOK
<1>5. CASE state = DNS_REQUEST /\ tlsConnect
  <2>1. sends' = sends
    BY <1>5 DEF tlsConnect, session
  <2> QED
    BY <2>1, <1>1, <1>2, <1>5 DEF UsesThere, TypeOK
<1>6. CASE state \in {TLS_CONNECT, MQTT, SUBSCRIBE} /\ (mqttConnect \/ startSubscribe \/ startSending)
  <2>1. connects' = connects /\ send(tcpClientSocket)
    BY <1>6 DEF mqttConnect, startSubscribe, startSending, asked
  <2>2. s # tcpClientSocket => sends'[s] = sends[s]
    BY <2>1, <1>1 DEF send, TypeOK
  <2> QED
    BY <2>1, <2>2, <1>1, <1>3, <1>6 DEF UsesThere, TypeOK
<1> QED
  BY <1>1, <1>4, <1>5, <1>6 DEF callHandler

LEMMA MessagesUse ==
  ASSUME IInv, Message, NEW s \in Sockets
  PROVE  UsesThere(s)
<1>1. TypeOK
  BY DEF IInv
<1>2. ASSUME NEW q \in Sockets \cup {-1}, NEW c \in [Sockets -> 0 .. MaxAsked], NEW t, close(q, c, t),
             c[s] <= connects[s]
      PROVE  UsesThere(s)
  <2>1. connects'[s] \in {c[s], 0} /\ sends'[s] \in {sends[s], 0}
    BY <1>1, <1>2 DEF close, TypeOK
  <2> QED
    BY <1>1, <1>2, <2>1 DEF UsesThere, TypeOK
<1>3. CASE joined \/ dhcpConf \/ (\E code \in PingCodes : pingReply(code)) \/ \E ip \in {0, 1} : dnsReply(ip)
  <2>1. connects' = connects /\ sends' = sends
    BY <1>3 DEF joined, dhcpConf, pingReply, dnsReply, asked, session
  <2> QED
    BY <1>1, <2>1 DEF UsesThere, TypeOK
<1>4. CASE joinFailed \/ linkDropped
  <2>1. close(tcpClientSocket, connects, [q \in Sockets |-> IF tcp[q] = "open" THEN "gone" ELSE tcp[q]])
    BY <1>4 DEF joinFailed, linkDropped, disconnected
  <2> QED
    BY <1>1, <1>2, <2>1 DEF TypeOK
<1>5. ASSUME NEW q \in Sockets,
             \/ sendReply(q) \/ peerClose(q)
             \/ \E packet \in Packets : recvData(q, packet)
      PROVE  UsesThere(s)
  <2>1. connects' = connects /\ sends' \in {sends, [sends EXCEPT ![q] = @ - 1]}
    BY <1>5 DEF sendReply, peerClose, recvData, asked
  <2> QED
    BY <1>1, <2>1 DEF UsesThere, TypeOK
<1>6. ASSUME NEW q \in Sockets, recvError(q) PROVE UsesThere(s)
  BY <1>1, <1>2, <1>6 DEF recvError, TypeOK
<1>7. ASSUME NEW q \in Sockets, NEW ok \in BOOLEAN, connectReply(q, ok) PROVE UsesThere(s)
  <2> DEFINE c == [connects EXCEPT ![q] = @ - 1]
  <2>1. c \in [Sockets -> 0 .. MaxAsked] /\ c[s] <= connects[s]
    BY <1>1, <1>7 DEF connectReply, TypeOK
  <2>2. CASE connects' = c /\ sends' = sends
    BY <1>1, <2>1, <2>2 DEF UsesThere, TypeOK
  <2>3. CASE \E t : close(q, c, t)
    BY <1>2, <2>1, <2>3
  <2> QED
    BY <1>7, <2>2, <2>3 DEF connectReply
<1> QED
  BY <1>3, <1>4, <1>5, <1>6, <1>7 DEF Message

(* Theorem: without faults a connect goes to an address that was looked up  *)
(* and what is sent goes over a connection that was made: no handler runs   *)
(* ahead of the reply it relies on (cloud.c, tlsConnect to startSending).   *)
THEOREM HandlersUseWhatIsThere ==
  ASSUME Faults = {}
  PROVE  Spec => UsesWhatIsThere
<1>1. ASSUME IInv, Calm, [Next]_vars
      PROVE  [\A s \in Sockets : UsesThere(s)]_vars
  BY <1>1, HandlersUse, MessagesUse DEF Next
<1>2. [\A s \in Sockets : UsesThere(s)]_vars <=>
      [\A s \in Sockets :
         /\ connects'[s] > connects[s] => endpoint_ip # 0
         /\ sends'[s] > sends[s] => tcp[s] \in {"open", "gone"}]_vars
  BY DEF UsesThere
<1> QED
  BY <1>1, <1>2, CalmThroughout, PTL DEF Spec, UsesWhatIsThere
=============================================================================
