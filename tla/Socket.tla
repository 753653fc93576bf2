------------------------------- MODULE Socket -------------------------------
(***************************************************************************)
(* The socket layer of the WINC1500 driver (winc/socket/source/socket.c):  *)
(* the table of sockets, the session ids that tell the uses of one socket  *)
(* apart, the requests to the chip and m2m_ip_cb, which takes the chip's   *)
(* answers, in any order and possibly after the socket was closed.  Data   *)
(* is read in chunks of the user's buffer, with a callback after each.     *)
(*                                                                         *)
(* A use of a socket is what lies between socket() or an accepted          *)
(* connection and close(); uses are numbered.  SessionIds is the number of *)
(* ids before gu16SessionID wraps (65535 in the code).                     *)
(***************************************************************************)
EXTENDS Integers, FiniteSets

CONSTANTS
  TCP_SOCK_MAX, UDP_SOCK_MAX,
  SessionIds,
  SslOptions,       \* the TLS options setsockopt turns on and off
  Buffers, Lengths, \* sizes of the application's buffer and of received data
  CallbackCalls,    \* what the application calls from the callback of a chunk
  LateAnswers,      \* the answers the chip gives although the socket was closed
  Faults,           \* {"send", "receive"}: which calls of the HIF may fail
  MaxUses, MaxAsked

TcpSockets == 0 .. TCP_SOCK_MAX - 1
UdpSockets == TCP_SOCK_MAX .. TCP_SOCK_MAX + UDP_SOCK_MAX - 1
Sockets == TcpSockets \cup UdpSockets
Commands == {"bind", "listen", "connect", "send", "recv"}

ASSUME SocketAssumption ==
  /\ TCP_SOCK_MAX \in Nat \ {0} /\ UDP_SOCK_MAX \in Nat \ {0}
  /\ SessionIds \in Nat \ {0} /\ Buffers \cup Lengths \subseteq Nat \ {0}
  /\ CallbackCalls \subseteq {"socket", "recv", "close"}
  /\ LateAnswers \subseteq Commands \cup {"accept"}
  /\ Faults \subseteq {"send", "receive"}
  /\ MaxUses \in Nat /\ MaxAsked \in Nat
  /\ "ACTIVE" \notin SslOptions

VARIABLES
  gastrSockets,             \* [bIsUsed, u16SessionID, u8SSLFlags, size, bIsRecvPending]
  gu16SessionID,
  u8NextTcpSock, u8NextUdpSock,
  reading,                  \* the data Socket_ReadSocketData delivers
  asked,                    \* the requests the chip still has to answer
  uses, use,                \* uses so far; the present one of each socket or 0
  tls,                      \* was the socket asked for, or accepted, with TLS?
  upset,                    \* did its receive meet a failure or a late answer?
  strays                    \* callbacks for a use other than the present one

own == <<gastrSockets, gu16SessionID, u8NextTcpSock, u8NextUdpSock>>
ghost == <<uses, use, tls, upset>>
vars == <<own, reading, asked, ghost, strays>>

Blank == [bIsUsed |-> FALSE, u16SessionID |-> 0, u8SSLFlags |-> {}, size |-> 0,
          bIsRecvPending |-> FALSE]
Nothing == [sock |-> 0, left |-> 0, at |-> "idle", released |-> FALSE, of |-> 0]

-----------------------------------------------------------------------------
(* socketInit: the host interface and the chip are up                       *)
Init ==
  /\ gastrSockets = [s \in Sockets |-> Blank]
  /\ gu16SessionID = 0 /\ u8NextTcpSock = 0 /\ u8NextUdpSock = 0
  /\ reading = Nothing
  /\ asked = {}
  /\ uses = 0 /\ use = [s \in Sockets |-> 0]
  /\ tls = [s \in Sockets |-> FALSE] /\ upset = [s \in Sockets |-> FALSE]
  /\ strays = {}

-----------------------------------------------------------------------------
(* Where the application may make a call: in the main loop or a callback    *)
mayCall(call) == reading.at = "idle" \/ (reading.at = "app" /\ call \in CallbackCalls)

(* SOCKET_REQUEST: hif_send, which may fail.  The request carries the       *)
(* session of the socket; of (its use) and n (equal ones before) are ours.  *)
Alike(cmd, s) == {r \in asked : r.cmd = cmd /\ r.sock = s /\ r.of = use[s]}

request(cmd, s) ==
  /\ Cardinality(asked) < MaxAsked
  /\ asked' = asked \cup {[cmd |-> cmd, sock |-> s, session |-> gastrSockets[s].u16SessionID,
                           ssl |-> "ACTIVE" \in gastrSockets[s].u8SSLFlags,
                           of |-> use[s], n |-> Cardinality(Alike(cmd, s))]}

refused == "send" \in Faults /\ UNCHANGED asked

(* ++gu16SessionID, and once more if it has become zero                     *)
nextSession == IF gu16SessionID = SessionIds THEN 1 ELSE gu16SessionID + 1

(* a socket gets its session id *)
begin(s, flags, isTls) ==
  /\ uses < MaxUses
  /\ gu16SessionID' = nextSession
  /\ uses' = uses + 1
  /\ use' = [use EXCEPT ![s] = uses + 1]
  /\ tls' = [tls EXCEPT ![s] = isTls]
  /\ upset' = [upset EXCEPT ![s] = FALSE]
  /\ gastrSockets' = [gastrSockets EXCEPT ![s].bIsUsed = TRUE, ![s].u16SessionID = nextSession,
                                          ![s].u8SSLFlags = flags]

(* socket(): the first free one from the next on, round robin.  The chip is *)
(* told of a TLS socket, with no answer, and nobody is told if that fails.  *)
FreeFrom(first, next, max) ==
  {k \in 0 .. max - 1 : ~gastrSockets[first + ((next + k) % max)].bIsUsed}

allocate(first, next, max, ssl) ==
  \E k \in FreeFrom(first, next, max) :
    /\ \A j \in FreeFrom(first, next, max) : k <= j
    /\ begin(first + ((next + k) % max), IF ssl THEN {"ACTIVE"} ELSE {}, ssl)
    /\ IF first = 0
       THEN u8NextTcpSock' = (next + k + 1) % max /\ UNCHANGED u8NextUdpSock
       ELSE u8NextUdpSock' = (next + k + 1) % max /\ UNCHANGED u8NextTcpSock

socket(stream, ssl) ==
  /\ mayCall("socket")
  /\ IF stream THEN allocate(0, u8NextTcpSock, TCP_SOCK_MAX, ssl)
               ELSE allocate(TCP_SOCK_MAX, u8NextUdpSock, UDP_SOCK_MAX, ssl)
  /\ UNCHANGED <<reading, asked, strays>>

(* bind, listen, connect, send, sendto: a request for a socket in use       *)
command(cmd, s) ==
  /\ reading.at = "idle" /\ gastrSockets[s].bIsUsed
  /\ request(cmd, s) \/ refused
  /\ UNCHANGED <<own, reading, ghost, strays>>

bind(s) == command("bind", s)
listen(s) == command("listen", s)
connect(s) == command("connect", s)
send(s) == command("send", s)

(* setsockopt: an option of a TLS socket is turned on or off                *)
sslSetSockOpt(s, opt) ==
  /\ reading.at = "idle" /\ gastrSockets[s].bIsUsed /\ s < TCP_SOCK_MAX
  /\ "ACTIVE" \in gastrSockets[s].u8SSLFlags
  /\ \E flags \in {gastrSockets[s].u8SSLFlags \cup {opt}, gastrSockets[s].u8SSLFlags \ {opt}} :
       gastrSockets' = [gastrSockets EXCEPT ![s].u8SSLFlags = flags]
  /\ UNCHANGED <<gu16SessionID, u8NextTcpSock, u8NextUdpSock, reading, asked, ghost, strays>>

(* recv, recvfrom: the buffer is the socket's; the chip is asked unless a   *)
(* receive is pending.  It counts as pending even if the request failed.    *)
recv(s, size) ==
  /\ mayCall("recv") /\ gastrSockets[s].bIsUsed
  /\ gastrSockets' = [gastrSockets EXCEPT ![s].size = size, ![s].bIsRecvPending = TRUE]
  /\ \/ gastrSockets[s].bIsRecvPending /\ UNCHANGED <<asked, upset>>
     \/ ~gastrSockets[s].bIsRecvPending /\ request("recv", s) /\ UNCHANGED upset
     \/ ~gastrSockets[s].bIsRecvPending /\ refused /\ upset' = [upset EXCEPT ![s] = TRUE]
  /\ UNCHANGED <<gu16SessionID, u8NextTcpSock, u8NextUdpSock, reading, uses, use, tls, strays>>

forget(s) ==
  /\ use' = [use EXCEPT ![s] = 0]
  /\ tls' = [tls EXCEPT ![s] = FALSE]
  /\ upset' = [upset EXCEPT ![s] = FALSE]

(* close: the table is cleaned whether or not the request, which has no     *)
(* answer, reaches the chip                                                 *)
close(s) ==
  /\ mayCall("close") /\ gastrSockets[s].bIsUsed
  /\ gastrSockets' = [gastrSockets EXCEPT ![s] = Blank]
  /\ forget(s)
  /\ UNCHANGED <<gu16SessionID, u8NextTcpSock, u8NextUdpSock, reading, asked, uses, strays>>

-----------------------------------------------------------------------------
(* m2m_ip_cb: the chip's answer to a request arrives.  Answers to requests  *)
(* of a socket that was closed come late or never.                          *)
arrives(r, cmd) ==
  /\ reading.at = "idle" /\ r \in asked /\ r.cmd = cmd
  /\ r.of = use[r.sock] \/ cmd \in LateAnswers
  /\ \A q \in asked : q.of = r.of /\ q.cmd = cmd => q.n <= r.n
  /\ asked' = asked \ {r}

(* the application's callback, with what the use of has asked for           *)
tell(s, of) ==
  strays' = IF of = use[s] THEN strays ELSE strays \cup {[of |-> of, to |-> use[s]]}

unread == "receive" \in Faults

(* The replies to bind, listen and connect carry no session and go to the   *)
(* application unchecked                                                    *)
uncheckedReply(r) ==
  /\ \E cmd \in {"bind", "listen", "connect"} : arrives(r, cmd)
  /\ UNCHANGED <<own, reading, ghost, strays>>

(* SOCKET_CMD_ACCEPT: the chip has taken a free TCP socket s for a          *)
(* connection; a listening socket takes any number of them                  *)
acceptReplyPlain(r, s) ==           \* variant: the flags are those of the new socket
  /\ reading.at = "idle" /\ r \in asked /\ r.cmd = "listen"
  /\ r.of = use[r.sock] \/ "accept" \in LateAnswers
  /\ s \in TcpSockets /\ ~gastrSockets[s].bIsUsed
  /\ begin(s, gastrSockets[s].u8SSLFlags, r.ssl)
  /\ UNCHANGED <<u8NextTcpSock, u8NextUdpSock, reading, asked, strays>>

acceptReply(r, s) ==
  /\ reading.at = "idle" /\ r \in asked /\ r.cmd = "listen"
  /\ r.of = use[r.sock] \/ "accept" \in LateAnswers
  /\ s \in TcpSockets /\ ~gastrSockets[s].bIsUsed
  /\ begin(s, gastrSockets[r.sock].u8SSLFlags, r.ssl)
  /\ UNCHANGED <<u8NextTcpSock, u8NextUdpSock, reading, asked, strays>>

(* SOCKET_CMD_SEND: only for the session of the socket *)
sendReplyAny(r) ==                  \* variant: the session is not compared
  /\ arrives(r, "send") /\ tell(r.sock, r.of)
  /\ UNCHANGED <<own, reading, ghost>>

sendReply(r) ==
  /\ arrives(r, "send")
  /\ \/ r.session = gastrSockets[r.sock].u16SessionID /\ tell(r.sock, r.of)
     \/ r.session # gastrSockets[r.sock].u16SessionID /\ UNCHANGED strays
     \/ unread /\ UNCHANGED strays
  /\ UNCHANGED <<own, reading, ghost>>

(* SOCKET_CMD_RECV: the pending flag is reset before the session is         *)
(* compared.  n units of data, or n = 0 for an error or a closed peer.      *)
recvReplyKeeps(r, n) ==             \* variant: data does not reset the pending flag
  /\ arrives(r, "recv") /\ n > 0 /\ r.session = gastrSockets[r.sock].u16SessionID
  /\ reading' = [sock |-> r.sock, left |-> n, at |-> "read", released |-> FALSE, of |-> r.of]
  /\ UNCHANGED <<own, ghost, strays>>

recvReply(r, n) ==
  /\ arrives(r, "recv")
  /\ \/ /\ gastrSockets' = [gastrSockets EXCEPT ![r.sock].bIsRecvPending = FALSE]
        /\ upset' = [upset EXCEPT ![r.sock] = gastrSockets[r.sock].bIsUsed /\ (@ \/ r.of # use[r.sock])]
        /\ IF r.session = gastrSockets[r.sock].u16SessionID /\ n > 0
           THEN reading' = [sock |-> r.sock, left |-> n, at |-> "read", released |-> FALSE,
                            of |-> r.of]
           ELSE UNCHANGED reading
        /\ IF r.session = gastrSockets[r.sock].u16SessionID /\ n = 0
           THEN tell(r.sock, r.of) ELSE UNCHANGED strays
     \/ /\ unread
        /\ upset' = [upset EXCEPT ![r.sock] = gastrSockets[r.sock].bIsUsed]
        /\ UNCHANGED <<gastrSockets, reading, strays>>
  /\ UNCHANGED <<gu16SessionID, u8NextTcpSock, u8NextUdpSock, uses, use, tls>>

(* Socket_ReadSocketData: read a chunk, which releases the chip's buffer if *)
(* it is the last, and call the application.  Without a buffer nothing is   *)
(* read; a socket that was closed and opened again has none.                *)
readChunkDone ==                    \* variant: every read releases the chip's buffer
  /\ reading.at = "read"
  /\ LET s == reading.sock
         n == IF reading.left > gastrSockets[s].size THEN gastrSockets[s].size ELSE reading.left
     IN /\ n > 0 /\ gastrSockets[s].bIsUsed
        /\ reading' = [reading EXCEPT !.left = @ - n, !.at = "app", !.released = TRUE]
        /\ tell(s, reading.of)
  /\ UNCHANGED <<own, asked, ghost>>

readChunk ==
  /\ reading.at = "read"
  /\ LET s == reading.sock
         last == reading.left <= gastrSockets[s].size
         n == IF last THEN reading.left ELSE gastrSockets[s].size
     IN \/ /\ n > 0 /\ gastrSockets[s].bIsUsed
           /\ reading' = [reading EXCEPT !.left = @ - n, !.at = "app", !.released = last]
           /\ tell(s, reading.of)
        \/ /\ n = 0 \/ ~gastrSockets[s].bIsUsed \/ unread
           /\ reading' = Nothing
           /\ UNCHANGED strays
  /\ UNCHANGED <<own, asked, ghost>>

(* The callback of the chunk returns: the rest is given up if it has closed *)
(* the socket                                                               *)
chunkTaken ==
  /\ reading.at = "app"
  /\ reading' = IF reading.left > 0 /\ gastrSockets[reading.sock].bIsUsed
                THEN [reading EXCEPT !.at = "read"] ELSE Nothing
  /\ UNCHANGED <<own, asked, ghost, strays>>

Socket_ReadSocketData == readChunk \/ chunkTaken

-----------------------------------------------------------------------------
(* TLS, listen and connect are for TCP sockets.                             *)
Application ==
  \/ \E ssl \in BOOLEAN : socket(TRUE, ssl)
  \/ socket(FALSE, FALSE)
  \/ \E s \in TcpSockets : listen(s) \/ connect(s)
  \/ \E s \in Sockets :
       \/ bind(s) \/ send(s) \/ close(s)
       \/ \E opt \in SslOptions : sslSetSockOpt(s, opt)
       \/ \E size \in Buffers : recv(s, size)

m2m_ip_cb ==
  \E r \in asked :
    \/ uncheckedReply(r) \/ sendReply(r)
    \/ \E s \in TcpSockets : acceptReply(r, s)
    \/ \E n \in Lengths \cup {0} : recvReply(r, n)

Next == Application \/ m2m_ip_cb \/ Socket_ReadSocketData

Spec == Init /\ [][Next]_vars

-----------------------------------------------------------------------------
Requests == [cmd : Commands, sock : Sockets, session : Nat, ssl : BOOLEAN, of : Nat, n : Nat]

TypeOK ==
  /\ gastrSockets \in [Sockets -> [bIsUsed : BOOLEAN, u16SessionID : 0 .. SessionIds,
                                   u8SSLFlags : SUBSET (SslOptions \cup {"ACTIVE"}),
                                   size : Nat, bIsRecvPending : BOOLEAN]]
  /\ gu16SessionID \in 0 .. SessionIds
  /\ u8NextTcpSock \in 0 .. TCP_SOCK_MAX - 1 /\ u8NextUdpSock \in 0 .. UDP_SOCK_MAX - 1
  /\ reading \in [sock : Sockets, left : Nat, at : {"idle", "read", "app"}, released : BOOLEAN,
                  of : Nat]
  /\ asked \subseteq Requests
  /\ uses \in 0 .. MaxUses /\ use \in [Sockets -> 0 .. uses]
  /\ tls \in [Sockets -> BOOLEAN] /\ upset \in [Sockets -> BOOLEAN]
  /\ strays \subseteq [of : Nat, to : Nat]

(* "The session ID is used to distinguish different socket connections"     *)
(* (socket.c:534): data and the end of a send reach the application only    *)
(* in the use of the socket they were asked for in, and never for a socket  *)
(* that is closed, unless all ids have been given away since.               *)
RepliesReachTheirUse ==
  \A c \in strays : c.to # 0 /\ c.to - c.of >= SessionIds

(* recv asks the chip again only when bIsRecvPending is off (socket.c:      *)
(* 863-890): the flag tells whether a receive of the present use is at the  *)
(* chip, and there is never a second one, unless the request or the reading *)
(* of its answer failed, or the answer to an earlier use came in.           *)
PendingMeansAsked ==
  \A s \in Sockets : gastrSockets[s].bIsUsed /\ ~upset[s] =>
    /\ gastrSockets[s].bIsRecvPending = (Alike("recv", s) # {})
    /\ \A q, r \in Alike("recv", s) : q = r

(* The chip's buffer is released with the last chunk of the data and not    *)
(* before (socket.c:155-171): the chip would overwrite what is still unread.*)
ReleasedWhenRead == reading.released => reading.left = 0

(* What a TLS socket sends, it sends with the TLS commands: whatever        *)
(* options are set meanwhile, and also when the connection was accepted     *)
(* (socket.c:253).                                                          *)
TlsStaysTls == \A r \in asked : r.of = use[r.sock] => r.ssl = tls[r.sock]

(* socket() fails only when every socket of the type is in use, wherever    *)
(* the round robin stands (socket.c:520-545).                               *)
FindsFreeSocket ==
  /\ FreeFrom(0, u8NextTcpSock, TCP_SOCK_MAX) = {} => \A s \in TcpSockets : gastrSockets[s].bIsUsed
  /\ FreeFrom(TCP_SOCK_MAX, u8NextUdpSock, UDP_SOCK_MAX) = {}
       => \A s \in UdpSockets : gastrSockets[s].bIsUsed
=============================================================================
