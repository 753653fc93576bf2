---------------------------- MODULE SocketProofs ----------------------------
(***************************************************************************)
(* Proofs about the socket layer, for any number of sockets, of session    *)
(* ids, of uses and of requests.                                           *)
(*                                                                         *)
(* The heart of it is the arithmetic of session ids: a request made in one *)
(* of the last SessionIds uses carries the id that lies as far behind      *)
(* gu16SessionID, in the cycle of ids, as its use lies behind the newest   *)
(* one (IdsFollowUses).  So the id a socket is given next differs from     *)
(* that of each such request, and an answer with the socket's id that was  *)
(* asked for in another use comes from SessionIds uses ago (Apart).        *)
(***************************************************************************)
EXTENDS Socket, FiniteSetTheorems, TLAPS

SocketType == [bIsUsed : BOOLEAN, u16SessionID : 0 .. SessionIds,
               u8SSLFlags : SUBSET (SslOptions \cup {"ACTIVE"}),
               size : Nat, bIsRecvPending : BOOLEAN]

(* the parts of the type invariant *)
SocketTypes ==
  /\ gastrSockets \in [Sockets -> SocketType]
  /\ gu16SessionID \in 0 .. SessionIds
NextTypes == u8NextTcpSock \in 0 .. TCP_SOCK_MAX - 1 /\ u8NextUdpSock \in 0 .. UDP_SOCK_MAX - 1
ReadingTypes ==
  reading \in [sock : Sockets, left : Nat, at : {"idle", "read", "app"}, released : BOOLEAN, of : Nat]
AskedTypes == asked \subseteq Requests /\ IsFiniteSet(asked)
UseTypes ==
  /\ uses \in 0 .. MaxUses /\ use \in [Sockets -> 0 .. uses]
  /\ tls \in [Sockets -> BOOLEAN] /\ upset \in [Sockets -> BOOLEAN]
StrayTypes == strays \subseteq [of : Nat, to : Nat]
Types == SocketTypes /\ NextTypes /\ ReadingTypes /\ AskedTypes /\ UseTypes /\ StrayTypes

(* A socket in use is in a numbered use and has an id, a free one is blank. *)
Used(s) == gastrSockets[s].bIsUsed
Id(s) == gastrSockets[s].u16SessionID
UsesNumbered ==
  /\ \A s \in Sockets :
       /\ Used(s) <=> use[s] # 0
       /\ Used(s) => Id(s) >= 1
       /\ ~Used(s) => Id(s) = 0 /\ ~gastrSockets[s].bIsRecvPending
  /\ uses >= 1 => gu16SessionID >= 1

(* The id of a use d before the newest, for d < SessionIds                  *)
IdBefore(d) ==
  IF gu16SessionID - d >= 1 THEN gu16SessionID - d ELSE gu16SessionID - d + SessionIds

IdsFollowUses ==
  /\ \A s \in Sockets : Used(s) /\ uses - use[s] < SessionIds => Id(s) = IdBefore(uses - use[s])
  /\ \A r \in asked : uses - r.of < SessionIds => r.session = IdBefore(uses - r.of)

RequestsNumbered == \A r \in asked : r.of \in 1 .. uses /\ r.session >= 1

Apart ==
  \A r \in asked :
    Used(r.sock) /\ r.session = Id(r.sock) /\ r.of # use[r.sock] => use[r.sock] - r.of >= SessionIds

(* The data being read is for the socket's use, or one SessionIds before.   *)
ReadingApart ==
  "socket" \notin CallbackCalls /\ reading.at # "idle" /\ Used(reading.sock) =>
    reading.of = use[reading.sock] \/ use[reading.sock] - reading.of >= SessionIds
NoStrays == "socket" \notin CallbackCalls => RepliesReachTheirUse

Sessions == UsesNumbered /\ IdsFollowUses /\ RequestsNumbered /\ Apart /\ ReadingApart /\ NoStrays

(* TLS *)
FlagsKept == \A s \in Sockets : Used(s) => (tls[s] <=> "ACTIVE" \in gastrSockets[s].u8SSLFlags)
RequestsKept == \A r \in asked : r.of = use[r.sock] => (r.ssl <=> tls[r.sock])
Tls == "accept" \notin LateAnswers => FlagsKept /\ RequestsKept

IInv == Types /\ Sessions /\ Tls /\ PendingMeansAsked /\ ReleasedWhenRead

-----------------------------------------------------------------------------
LEMMA Bounds ==
  /\ TCP_SOCK_MAX \in Nat \ {0} /\ UDP_SOCK_MAX \in Nat \ {0}
  /\ SessionIds \in Nat \ {0} /\ MaxUses \in Nat
  /\ Buffers \subseteq Nat \ {0} /\ Lengths \subseteq Nat \ {0}
  /\ "ACTIVE" \notin SslOptions
  /\ TcpSockets \subseteq Sockets /\ UdpSockets \subseteq Sockets /\ 0 \in Sockets
  BY SocketAssumption DEF Sockets, TcpSockets, UdpSockets

LEMMA InitEstablishesIInv == Init => IInv
<1> SUFFICES ASSUME Init PROVE IInv
  OBVIOUS
<1> USE Bounds DEF Init, Blank, Nothing, Used, Id
<1>1. SocketTypes /\ NextTypes /\ ReadingTypes /\ UseTypes /\ StrayTypes
  BY DEF SocketTypes, SocketType, NextTypes, ReadingTypes, UseTypes, StrayTypes
<1>2. AskedTypes
  BY FS_EmptySet DEF AskedTypes
<1>3. Sessions
  BY DEF Sessions, UsesNumbered, IdsFollowUses, RequestsNumbered, Apart, ReadingApart, NoStrays,
     RepliesReachTheirUse
<1>4. Tls /\ PendingMeansAsked /\ ReleasedWhenRead
  BY DEF Tls, FlagsKept, RequestsKept, PendingMeansAsked, ReleasedWhenRead
<1> QED
  BY <1>1, <1>2, <1>3, <1>4 DEF IInv, Types

-----------------------------------------------------------------------------
LEMMA SocketBegun ==
  ASSUME NEW old \in SocketType, NEW id \in 0 .. SessionIds,
         NEW flags \in SUBSET (SslOptions \cup {"ACTIVE"})
  PROVE  [old EXCEPT !.bIsUsed = TRUE, !.u16SessionID = id, !.u8SSLFlags = flags] \in SocketType
<1>1. [old EXCEPT !.bIsUsed = TRUE, !.u16SessionID = id] \in SocketType
  BY DEF SocketType
<1> QED
  BY <1>1 DEF SocketType

(* A socket is given its session.                                           *)
LEMMA Beginning ==
  ASSUME IInv, NEW s \in Sockets, ~Used(s),
         NEW flags \in SUBSET (SslOptions \cup {"ACTIVE"}), NEW isTls \in BOOLEAN,
         begin(s, flags, isTls),
         "accept" \notin LateAnswers => (isTls <=> "ACTIVE" \in flags),
         reading.at = "idle" \/ "socket" \in CallbackCalls,
         UNCHANGED <<reading, asked, strays>>, NextTypes'
  PROVE  IInv'
<1> USE Bounds DEF IInv, Types
<1>1. /\ uses' = uses + 1 /\ uses \in Nat /\ uses + 1 <= MaxUses
      /\ gu16SessionID' = nextSession /\ gu16SessionID \in 0 .. SessionIds
      /\ nextSession \in 1 .. SessionIds
  BY DEF begin, UseTypes, SocketTypes, nextSession
<1>2. /\ use' = [use EXCEPT ![s] = uses + 1] /\ tls' = [tls EXCEPT ![s] = isTls]
      /\ upset' = [upset EXCEPT ![s] = FALSE]
  BY DEF begin
<1>3. /\ gastrSockets'[s].bIsUsed /\ gastrSockets'[s].u16SessionID = nextSession
      /\ gastrSockets'[s].u8SSLFlags = flags
      /\ gastrSockets'[s].bIsRecvPending = gastrSockets[s].bIsRecvPending
      /\ \A t \in Sockets \ {s} : gastrSockets'[t] = gastrSockets[t]
      /\ gastrSockets' \in [Sockets -> SocketType]
  <2> DEFINE new == [gastrSockets[s] EXCEPT !.bIsUsed = TRUE, !.u16SessionID = nextSession,
                                            !.u8SSLFlags = flags]
  <2>1. gastrSockets \in [Sockets -> SocketType] /\ gastrSockets[s] \in SocketType
    BY DEF SocketTypes
  <2>2. gastrSockets' = [gastrSockets EXCEPT ![s] = new]
    BY <2>1 DEF begin, SocketType
  <2>3. new \in SocketType
    <3>1. nextSession \in 0 .. SessionIds
      BY <1>1
    <3> QED
      BY <2>1, <3>1, SocketBegun
  <2>4. /\ new.bIsUsed /\ new.u16SessionID = nextSession /\ new.u8SSLFlags = flags
        /\ new.bIsRecvPending = gastrSockets[s].bIsRecvPending
    BY <2>1 DEF SocketType
  <2> HIDE DEF new
  <2> QED
    BY <2>1, <2>2, <2>3, <2>4
<1>4. Types'
  <2>1. UseTypes'
    BY <1>1, <1>2 DEF UseTypes
  <2> QED
    BY <1>1, <1>3, <2>1 DEF SocketTypes, ReadingTypes, AskedTypes, StrayTypes
<1>5. /\ use'[s] = uses + 1 /\ \A t \in Sockets \ {s} : use'[t] = use[t]
      /\ \A t \in Sockets : use[t] \in 0 .. uses
      /\ tls'[s] = isTls /\ \A t \in Sockets \ {s} : tls'[t] = tls[t]
      /\ upset'[s] = FALSE /\ \A t \in Sockets \ {s} : upset'[t] = upset[t]
  BY <1>2 DEF UseTypes
<1>6. \A r \in asked : r.sock \in Sockets /\ r.of \in 1 .. uses /\ r.session \in Nat /\ r.session >= 1
  BY DEF AskedTypes, Requests, Sessions, RequestsNumbered
<1>7. UsesNumbered'
  BY <1>1, <1>3, <1>5 DEF Sessions, UsesNumbered, Used, Id
<1>8. IdsFollowUses'
  <2>1. ASSUME NEW u \in 1 .. uses, NEW i \in Nat, uses + 1 - u < SessionIds,
               i = IdBefore(uses - u)
        PROVE  i = IdBefore(uses - u)'
    BY <1>1, <2>1 DEF IdBefore, nextSession
  <2>2. ASSUME NEW t \in Sockets, Used(t)', (uses - use[t])' < SessionIds
        PROVE  Id(t)' = IdBefore(uses - use[t])'
    <3>1. CASE t = s
      BY <1>1, <1>3, <1>5, <3>1 DEF Id, IdBefore
    <3>2. CASE t # s
      <4>1. Used(t) /\ Id(t)' = Id(t) /\ use'[t] = use[t] /\ use[t] \in 1 .. uses /\ Id(t) \in Nat
        BY <1>1, <1>3, <1>5, <2>2, <3>2 DEF Used, Id, Sessions, UsesNumbered, SocketTypes, SocketType
      <4>2. Id(t) = IdBefore(uses - use[t])
        BY <1>1, <2>2, <4>1 DEF Sessions, IdsFollowUses
      <4> QED
        BY <1>1, <2>1, <2>2, <4>1, <4>2
    <3> QED
      BY <3>1, <3>2
  <2>3. ASSUME NEW r \in asked, uses' - r.of < SessionIds
        PROVE  r.session = IdBefore(uses - r.of)'
    <3>1. r.session = IdBefore(uses - r.of)
      BY <1>1, <1>6, <2>3 DEF Sessions, IdsFollowUses
    <3> QED
      BY <1>1, <1>6, <2>1, <2>3, <3>1
  <2> QED
    BY <2>2, <2>3 DEF IdsFollowUses
<1>9. RequestsNumbered'
  BY <1>1, <1>6 DEF RequestsNumbered
<1>10. Apart'
  <2> SUFFICES ASSUME NEW r \in asked, Used(r.sock)', r.session = Id(r.sock)', r.of # use'[r.sock]
               PROVE  use'[r.sock] - r.of >= SessionIds
    BY DEF Apart
  <2>1. CASE r.sock = s
    <3>1. r.session = nextSession
      BY <1>3, <2>1 DEF Id
    <3>2. uses - r.of < SessionIds => r.session = IdBefore(uses - r.of)
      BY DEF Sessions, IdsFollowUses
    <3>3. uses + 1 - r.of < SessionIds => FALSE
      BY <1>1, <1>6, <3>1, <3>2 DEF nextSession, IdBefore
    <3> QED
      BY <1>1, <1>5, <1>6, <2>1, <3>3
  <2>2. CASE r.sock # s
    BY <1>3, <1>5, <1>6, <2>2 DEF Sessions, Apart, Used, Id
  <2> QED
    BY <2>1, <2>2
<1>11. ReadingApart' /\ NoStrays'
  BY DEF ReadingApart, NoStrays, RepliesReachTheirUse, Sessions
<1>12. Tls'
  <2>1. "accept" \notin LateAnswers => FlagsKept'
    BY <1>3, <1>5 DEF Tls, FlagsKept, Used
  <2>2. "accept" \notin LateAnswers => RequestsKept'
    BY <1>1, <1>5, <1>6 DEF Tls, RequestsKept
  <2> QED
    BY <2>1, <2>2 DEF Tls
<1>13. PendingMeansAsked'
  <2> SUFFICES ASSUME NEW t \in Sockets, gastrSockets'[t].bIsUsed, ~upset'[t]
               PROVE  /\ gastrSockets'[t].bIsRecvPending = (Alike("recv", t)' # {})
                      /\ \A q, r \in Alike("recv", t)' : q = r
    BY DEF PendingMeansAsked
  <2>1. CASE t = s
    <3>1. Alike("recv", t)' = {}
      BY <1>1, <1>5, <1>6, <2>1 DEF Alike
    <3>2. ~gastrSockets'[t].bIsRecvPending /\ gastrSockets'[t].bIsRecvPending \in BOOLEAN
      BY <1>3, <2>1 DEF Sessions, UsesNumbered, SocketType
    <3> QED
      BY <3>1, <3>2
  <2>2. CASE t # s
    <3>1. Alike("recv", t)' = Alike("recv", t)
      BY <1>5, <2>2 DEF Alike
    <3> QED
      BY <1>3, <1>5, <2>2, <3>1 DEF PendingMeansAsked
  <2> QED
    BY <2>1, <2>2
<1>14. ReleasedWhenRead'
  BY DEF ReleasedWhenRead
<1> QED
  BY <1>4, <1>7, <1>8, <1>9, <1>10, <1>11, <1>12, <1>13, <1>14 DEF Sessions

-----------------------------------------------------------------------------
(* A request made for a socket now                                          *)
Fresh(r) ==
  /\ r.sock \in Sockets /\ Used(r.sock)
  /\ r.session = Id(r.sock) /\ r.of = use[r.sock]
  /\ r.ssl <=> "ACTIVE" \in gastrSockets[r.sock].u8SSLFlags

LEMMA Requesting ==
  ASSUME IInv, NEW cmd \in Commands, NEW s \in Sockets, Used(s), request(cmd, s)
  PROVE  /\ AskedTypes'
         /\ \E r \in asked' : r.cmd = cmd /\ r.sock = s /\ Fresh(r) /\ asked' = asked \cup {r}
<1> DEFINE r == [cmd |-> cmd, sock |-> s, session |-> gastrSockets[s].u16SessionID,
                 ssl |-> "ACTIVE" \in gastrSockets[s].u8SSLFlags,
                 of |-> use[s], n |-> Cardinality(Alike(cmd, s))]
<1>1. asked' = asked \cup {r}
  BY DEF request
<1>2. Cardinality(Alike(cmd, s)) \in Nat
  BY FS_Subset, FS_CardinalityType DEF Alike, IInv, Types, AskedTypes
<1>3. use[s] \in Nat /\ gastrSockets[s].u16SessionID \in Nat
  BY Bounds DEF IInv, Types, UseTypes, SocketTypes, SocketType
<1>4. r \in Requests
  BY <1>2, <1>3 DEF Requests
<1>5. AskedTypes'
  BY <1>1, <1>4, FS_AddElement DEF IInv, Types, AskedTypes
<1>6. r.cmd = cmd /\ r.sock = s /\ Fresh(r)
  BY DEF Fresh, Id
<1> HIDE DEF r
<1> QED
  BY <1>1, <1>5, <1>6

(* What stays when sockets keep their use, their id and their TLS, and      *)
(* requests are only made and answered                                      *)
LEMMA Keeping ==
  ASSUME IInv, UNCHANGED <<gu16SessionID, uses, use, tls>>,
         \A s \in Sockets :
           /\ Used(s)' <=> Used(s)
           /\ Id(s)' = Id(s)
           /\ "ACTIVE" \in gastrSockets'[s].u8SSLFlags <=> "ACTIVE" \in gastrSockets[s].u8SSLFlags
           /\ ~Used(s) => ~gastrSockets'[s].bIsRecvPending,
         \A r \in asked' : r \in asked \/ Fresh(r)
  PROVE  (UsesNumbered /\ IdsFollowUses /\ RequestsNumbered /\ Apart /\ Tls)'
<1> USE Bounds DEF IInv, Types, Sessions
<1>1. UsesNumbered'
  BY DEF UsesNumbered
<1>2. IdsFollowUses'
  BY DEF IdsFollowUses, IdBefore, Fresh
<1>3. RequestsNumbered'
  BY DEF RequestsNumbered, Fresh, UsesNumbered, UseTypes
<1>4. Apart'
  <2>1. \A r \in asked : r.sock \in Sockets
    BY DEF AskedTypes, Requests
  <2> QED
    BY <2>1 DEF Apart, Fresh
<1>5. Tls'
  <2>1. "accept" \notin LateAnswers => FlagsKept'
    BY DEF Tls, FlagsKept
  <2>2. "accept" \notin LateAnswers => RequestsKept'
    BY DEF Tls, FlagsKept, RequestsKept, Fresh
  <2> QED
    BY <2>1, <2>2 DEF Tls
<1> QED
  BY <1>1, <1>2, <1>3, <1>4, <1>5

(* The pending flags and the receives asked for stay as they are.           *)
LEMMA PendingKept ==
  ASSUME IInv, SocketTypes', UNCHANGED <<use, upset>>,
         \A t \in Sockets :
           /\ Used(t)' <=> Used(t)
           /\ gastrSockets'[t].bIsRecvPending <=> gastrSockets[t].bIsRecvPending,
         \A t \in Sockets : Alike("recv", t)' = Alike("recv", t)
  PROVE  PendingMeansAsked'
<1>1. \A t \in Sockets : gastrSockets'[t].bIsRecvPending = gastrSockets[t].bIsRecvPending
  BY DEF IInv, Types, SocketTypes, SocketType
<1> QED
  BY <1>1 DEF IInv, PendingMeansAsked, Used

(* bind, listen, connect, send *)
LEMMA Commanding ==
  ASSUME IInv, NEW cmd \in Commands \ {"recv"}, NEW s \in Sockets, command(cmd, s)
  PROVE  IInv'
<1> USE DEF IInv, Types, own, ghost
<1>1. /\ Used(s) /\ reading.at = "idle"
      /\ UNCHANGED <<gastrSockets, gu16SessionID, u8NextTcpSock, u8NextUdpSock, reading, strays,
                     uses, use, tls, upset>>
  BY DEF command, Used
<1>2. AskedTypes' /\ (\A r \in asked' : r \in asked \/ (Fresh(r) /\ r.cmd = cmd)) /\ asked \subseteq asked'
  <2>1. CASE request(cmd, s)
    BY <1>1, <2>1, Requesting
  <2>2. CASE refused
    BY <2>2 DEF refused, AskedTypes
  <2> QED
    BY <2>1, <2>2 DEF command
<1>3. (UsesNumbered /\ IdsFollowUses /\ RequestsNumbered /\ Apart /\ Tls)'
  BY <1>1, <1>2, Keeping DEF Used, Id, Sessions, UsesNumbered
<1>4. (SocketTypes /\ NextTypes /\ ReadingTypes /\ UseTypes /\ StrayTypes)'
  BY <1>1 DEF SocketTypes, NextTypes, ReadingTypes, UseTypes, StrayTypes
<1>5. (ReadingApart /\ NoStrays /\ ReleasedWhenRead)'
  BY <1>1 DEF Sessions, ReadingApart, NoStrays, RepliesReachTheirUse, ReleasedWhenRead, Used
<1>6. PendingMeansAsked'
  <2>1. \A t \in Sockets : Alike("recv", t)' = Alike("recv", t)
    BY <1>1, <1>2 DEF Alike
  <2> QED
    BY <1>1, <2>1 DEF PendingMeansAsked
<1> QED
  BY <1>2, <1>3, <1>4, <1>5, <1>6 DEF Sessions

LEMMA SettingOption ==
  ASSUME IInv, NEW s \in Sockets, NEW opt \in SslOptions, sslSetSockOpt(s, opt)
  PROVE  IInv'
<1> USE Bounds DEF IInv, Types, ghost
<1>1. PICK flags \in SUBSET (SslOptions \cup {"ACTIVE"}) :
        /\ gastrSockets' = [gastrSockets EXCEPT ![s].u8SSLFlags = flags]
        /\ "ACTIVE" \in flags /\ "ACTIVE" \in gastrSockets[s].u8SSLFlags
  <2>1. gastrSockets[s].u8SSLFlags \in SUBSET (SslOptions \cup {"ACTIVE"})
    BY DEF SocketTypes, SocketType
  <2>2. "ACTIVE" \in gastrSockets[s].u8SSLFlags
    BY DEF sslSetSockOpt
  <2>3. CASE gastrSockets' =
               [gastrSockets EXCEPT ![s].u8SSLFlags = gastrSockets[s].u8SSLFlags \cup {opt}]
    <3>1. /\ gastrSockets[s].u8SSLFlags \cup {opt} \in SUBSET (SslOptions \cup {"ACTIVE"})
          /\ "ACTIVE" \in gastrSockets[s].u8SSLFlags \cup {opt}
      BY <2>1, <2>2
    <3> QED
      BY <2>2, <2>3, <3>1
  <2>4. CASE gastrSockets' =
               [gastrSockets EXCEPT ![s].u8SSLFlags = gastrSockets[s].u8SSLFlags \ {opt}]
    BY <2>1, <2>2, <2>4
  <2> QED
    BY <2>3, <2>4 DEF sslSetSockOpt
<1>2. UNCHANGED <<gu16SessionID, u8NextTcpSock, u8NextUdpSock, reading, asked, strays,
                  uses, use, tls, upset>>
  BY DEF sslSetSockOpt
<1>3. gastrSockets \in [Sockets -> SocketType] /\ gastrSockets[s] \in SocketType
  BY DEF SocketTypes
<1>4. [gastrSockets[s] EXCEPT !.u8SSLFlags = flags] \in SocketType
  BY <1>3 DEF SocketType
<1>5. SocketTypes'
  BY <1>1, <1>2, <1>3, <1>4 DEF SocketTypes
<1>6. \A t \in Sockets :
        /\ Used(t)' <=> Used(t)
        /\ Id(t)' = Id(t)
        /\ "ACTIVE" \in gastrSockets'[t].u8SSLFlags <=> "ACTIVE" \in gastrSockets[t].u8SSLFlags
        /\ gastrSockets'[t].bIsRecvPending <=> gastrSockets[t].bIsRecvPending
  BY <1>1, <1>3 DEF Used, Id, SocketType
<1>7. (UsesNumbered /\ IdsFollowUses /\ RequestsNumbered /\ Apart /\ Tls)'
  BY <1>2, <1>6, Keeping DEF Sessions, UsesNumbered
<1>8. (NextTypes /\ ReadingTypes /\ UseTypes /\ StrayTypes /\ AskedTypes)'
  BY <1>2 DEF NextTypes, ReadingTypes, UseTypes, StrayTypes, AskedTypes
<1>9. (ReadingApart /\ NoStrays /\ ReleasedWhenRead)'
  BY <1>2, <1>6 DEF Sessions, ReadingApart, NoStrays, RepliesReachTheirUse, ReleasedWhenRead,
     ReadingTypes
<1>10. PendingMeansAsked'
  <2>1. \A t \in Sockets : Alike("recv", t)' = Alike("recv", t)
    BY <1>2 DEF Alike
  <2> QED
    BY <1>2, <1>5, <1>6, <2>1, PendingKept
<1> QED
  BY <1>5, <1>7, <1>8, <1>9, <1>10 DEF Sessions

-----------------------------------------------------------------------------
(* recv: the socket's buffer and pending flag change, perhaps a request     *)
LEMMA Receiving ==
  ASSUME IInv, NEW s \in Sockets, NEW size \in Buffers, recv(s, size)
  PROVE  IInv'
<1> USE Bounds DEF IInv, Types
<1>1. /\ Used(s) /\ gastrSockets' = [gastrSockets EXCEPT ![s].size = size, ![s].bIsRecvPending = TRUE]
      /\ UNCHANGED <<gu16SessionID, u8NextTcpSock, u8NextUdpSock, reading, uses, use, tls, strays>>
  BY DEF recv, Used
<1>2. gastrSockets \in [Sockets -> SocketType] /\ gastrSockets[s] \in SocketType
  BY DEF SocketTypes
<1>3. [gastrSockets[s] EXCEPT !.size = size, !.bIsRecvPending = TRUE] \in SocketType
  BY <1>2 DEF SocketType
<1>4. SocketTypes'
  BY <1>1, <1>2, <1>3 DEF SocketTypes
<1>5. \A t \in Sockets :
        /\ Used(t)' <=> Used(t)
        /\ Id(t)' = Id(t)
        /\ "ACTIVE" \in gastrSockets'[t].u8SSLFlags <=> "ACTIVE" \in gastrSockets[t].u8SSLFlags
  BY <1>1, <1>2 DEF Used, Id, SocketType
<1>6. /\ gastrSockets'[s].bIsRecvPending
      /\ \A t \in Sockets \ {s} : gastrSockets'[t].bIsRecvPending <=> gastrSockets[t].bIsRecvPending
  BY <1>1, <1>2 DEF SocketType
<1>7. \/ /\ gastrSockets[s].bIsRecvPending /\ UNCHANGED <<asked, upset>>
      \/ /\ ~gastrSockets[s].bIsRecvPending /\ UNCHANGED upset /\ AskedTypes'
         /\ \E r \in asked' : r.cmd = "recv" /\ r.sock = s /\ Fresh(r) /\ asked' = asked \cup {r}
      \/ UNCHANGED asked /\ upset' = [upset EXCEPT ![s] = TRUE]
  BY <1>1, Requesting DEF recv, refused, Commands
<1>8. AskedTypes' /\ \A r \in asked' : r \in asked \/ Fresh(r)
  BY <1>7 DEF AskedTypes
<1>9. (UsesNumbered /\ IdsFollowUses /\ RequestsNumbered /\ Apart /\ Tls)'
  <2>1. \A t \in Sockets : ~Used(t) => ~gastrSockets'[t].bIsRecvPending
    BY <1>1, <1>6 DEF Sessions, UsesNumbered
  <2> QED
    BY <1>1, <1>5, <1>8, <2>1, Keeping
<1>10. UseTypes'
  BY <1>1, <1>7 DEF UseTypes
<1>11. (NextTypes /\ ReadingTypes /\ StrayTypes)'
  BY <1>1 DEF NextTypes, ReadingTypes, StrayTypes
<1>12. (ReadingApart /\ NoStrays /\ ReleasedWhenRead)'
  BY <1>1, <1>5 DEF Sessions, ReadingApart, NoStrays, RepliesReachTheirUse, ReleasedWhenRead,
     ReadingTypes
<1>13. PendingMeansAsked'
  <2> SUFFICES ASSUME NEW t \in Sockets, gastrSockets'[t].bIsUsed, ~upset'[t]
               PROVE  /\ gastrSockets'[t].bIsRecvPending <=> Alike("recv", t)' # {}
                      /\ \A q, r \in Alike("recv", t)' : q = r
    <3>1. \A t \in Sockets : gastrSockets'[t].bIsRecvPending \in BOOLEAN
      BY <1>4 DEF SocketTypes, SocketType
    <3> QED
      BY <3>1 DEF PendingMeansAsked
  <2>1. gastrSockets[t].bIsUsed
    BY <1>5 DEF Used
  <2> DEFINE pending == gastrSockets[t].bIsRecvPending
  <2>5. ~upset[t] => /\ pending <=> Alike("recv", t) # {}
                     /\ \A q, r \in Alike("recv", t) : q = r
    BY <2>1, Zenon DEF PendingMeansAsked
  <2>2. CASE t # s
    <3>1. Alike("recv", t)' = Alike("recv", t)
      BY <1>1, <1>7, <2>2 DEF Alike
    <3>2. ~upset[t]
      BY <1>7, <2>2 DEF UseTypes
    <3> QED
      BY <1>6, <2>5, <2>2, <3>1, <3>2
  <2>3. CASE t = s /\ gastrSockets[s].bIsRecvPending /\ UNCHANGED <<asked, upset>>
    <3>1. Alike("recv", s)' = Alike("recv", s)
      BY <1>1, <2>3 DEF Alike
    <3> QED
      BY <1>6, <2>5, <2>3, <3>1
  <2>4. CASE t = s /\ ~gastrSockets[s].bIsRecvPending /\ UNCHANGED upset
    <3>1. Alike("recv", s) = {}
      BY <2>5, <2>4
    <3>2. PICK r \in asked' : r.cmd = "recv" /\ r.sock = s /\ Fresh(r) /\ asked' = asked \cup {r}
      BY <1>7, <2>4 DEF UseTypes
    <3>3. Alike("recv", s)' = {r}
      BY <1>1, <3>1, <3>2 DEF Alike, Fresh
    <3> QED
      BY <1>6, <2>4, <3>3
  <2> QED
    BY <1>7, <2>2, <2>3, <2>4 DEF UseTypes
<1> QED
  BY <1>4, <1>8, <1>9, <1>10, <1>11, <1>12, <1>13 DEF Sessions

(* close: the socket is blank and in no use                                 *)
LEMMA Closing ==
  ASSUME IInv, NEW s \in Sockets, close(s)
  PROVE  IInv'
<1> USE Bounds DEF IInv, Types
<1>1. /\ Used(s) /\ gastrSockets' = [gastrSockets EXCEPT ![s] = Blank]
      /\ use' = [use EXCEPT ![s] = 0] /\ tls' = [tls EXCEPT ![s] = FALSE]
      /\ upset' = [upset EXCEPT ![s] = FALSE]
      /\ UNCHANGED <<gu16SessionID, u8NextTcpSock, u8NextUdpSock, reading, asked, uses, strays>>
  BY DEF close, forget, Used
<1>2. Blank \in SocketType
  BY DEF Blank, SocketType
<1>3. SocketTypes' /\ UseTypes'
  BY <1>1, <1>2 DEF SocketTypes, UseTypes
<1>4. /\ gastrSockets'[s] = Blank /\ use'[s] = 0
      /\ \A t \in Sockets \ {s} :
           /\ gastrSockets'[t] = gastrSockets[t] /\ use'[t] = use[t]
           /\ tls'[t] = tls[t] /\ upset'[t] = upset[t]
  BY <1>1 DEF SocketTypes, UseTypes
<1>5. ~Used(s)' /\ Id(s)' = 0 /\ ~gastrSockets'[s].bIsRecvPending
  BY <1>4 DEF Used, Id, Blank
<1>6. \A t \in Sockets \ {s} : (Used(t)' <=> Used(t)) /\ Id(t)' = Id(t)
  BY <1>4 DEF Used, Id
<1>7. \A r \in asked : r.sock \in Sockets /\ r.of >= 1
  BY DEF AskedTypes, Requests, Sessions, RequestsNumbered
<1>8. UsesNumbered'
  BY <1>1, <1>4, <1>5, <1>6 DEF Sessions, UsesNumbered
<1>9. IdsFollowUses' /\ RequestsNumbered'
  BY <1>1, <1>4, <1>5, <1>6 DEF Sessions, IdsFollowUses, RequestsNumbered, IdBefore
<1>10. Apart'
  BY <1>1, <1>4, <1>5, <1>6, <1>7 DEF Sessions, Apart
<1>11. (ReadingApart /\ NoStrays /\ ReleasedWhenRead)'
  BY <1>1, <1>4, <1>5, <1>6 DEF Sessions, ReadingApart, NoStrays, RepliesReachTheirUse,
     ReleasedWhenRead, ReadingTypes
<1>12. Tls'
  <2>1. "accept" \notin LateAnswers => FlagsKept'
    BY <1>4, <1>5 DEF Tls, FlagsKept, Used
  <2>2. "accept" \notin LateAnswers => RequestsKept'
    BY <1>1, <1>4, <1>7 DEF Tls, RequestsKept
  <2> QED
    BY <2>1, <2>2 DEF Tls
<1>13. PendingMeansAsked'
  <2>1. \A t \in Sockets \ {s} : Alike("recv", t)' = Alike("recv", t)
    BY <1>1, <1>4 DEF Alike
  <2> QED
    BY <1>4, <1>5, <2>1 DEF PendingMeansAsked, Used
<1>14. (NextTypes /\ ReadingTypes /\ StrayTypes /\ AskedTypes)'
  BY <1>1 DEF NextTypes, ReadingTypes, StrayTypes, AskedTypes
<1> QED
  BY <1>3, <1>8, <1>9, <1>10, <1>11, <1>12, <1>13, <1>14 DEF Sessions

-----------------------------------------------------------------------------
(* An answer is taken: nothing is asked in its place.                       *)
LEMMA Arriving ==
  ASSUME IInv, NEW r \in asked, NEW cmd \in Commands, arrives(r, cmd)
  PROVE  /\ AskedTypes' /\ asked' = asked \ {r} /\ reading.at = "idle" /\ r.cmd = cmd
         /\ r \in Requests /\ r.sock \in Sockets /\ r.of \in 1 .. uses /\ r.session >= 1
<1> USE DEF IInv, Types, Sessions
<1>1. asked' = asked \ {r} /\ reading.at = "idle" /\ r.cmd = cmd
  BY DEF arrives
<1>2. AskedTypes'
  BY <1>1, FS_RemoveElement DEF AskedTypes
<1>3. r \in Requests /\ r.sock \in Sockets /\ r.of \in 1 .. uses /\ r.session >= 1
  BY DEF AskedTypes, Requests, RequestsNumbered
<1> QED
  BY <1>1, <1>2, <1>3

(* What tell adds to the strays                                             *)
LEMMA Telling ==
  ASSUME IInv, NEW s \in Sockets, NEW of \in Nat, tell(s, of),
         "socket" \notin CallbackCalls => Used(s) /\ (of = use[s] \/ use[s] - of >= SessionIds)
  PROVE  StrayTypes' /\ NoStrays'
<1>1. use[s] \in Nat
  BY DEF IInv, Types, UseTypes
<1>2. StrayTypes'
  BY <1>1 DEF tell, IInv, Types, StrayTypes
<1>3. ASSUME "socket" \notin CallbackCalls, of # use[s]
      PROVE  use[s] # 0 /\ use[s] - of >= SessionIds
  BY <1>3 DEF IInv, Sessions, UsesNumbered
<1>4. \A c \in strays' : c \in strays \/ (of # use[s] /\ c = [of |-> of, to |-> use[s]])
  BY DEF tell
<1>5. NoStrays'
  BY <1>3, <1>4 DEF IInv, Sessions, NoStrays, RepliesReachTheirUse
<1> QED
  BY <1>2, <1>5

(* bind, listen and connect replies, and the reply to a send                *)
LEMMA Answering ==
  ASSUME IInv, NEW r \in asked, uncheckedReply(r) \/ sendReply(r)
  PROVE  IInv'
<1> USE Bounds DEF IInv, Types
<1>1. PICK cmd \in Commands \ {"recv"} : arrives(r, cmd)
  BY DEF uncheckedReply, sendReply, Commands
<1>2. UNCHANGED <<gastrSockets, gu16SessionID, u8NextTcpSock, u8NextUdpSock, reading,
                  uses, use, tls, upset>>
  BY DEF uncheckedReply, sendReply, own, ghost
<1>3. /\ AskedTypes' /\ asked' = asked \ {r} /\ reading.at = "idle" /\ r.cmd # "recv"
      /\ r.sock \in Sockets /\ r.of \in 1 .. uses /\ r.session >= 1
  BY <1>1, Arriving
<1>4. StrayTypes' /\ NoStrays'
  <2>1. CASE UNCHANGED strays
    BY <2>1 DEF StrayTypes, Sessions, NoStrays, RepliesReachTheirUse
  <2>2. CASE r.session = Id(r.sock) /\ tell(r.sock, r.of)
    <3>1. Used(r.sock)
      BY <1>3, <2>2 DEF Sessions, UsesNumbered
    <3>2. r.of = use[r.sock] \/ use[r.sock] - r.of >= SessionIds
      BY <2>2, <3>1 DEF Sessions, Apart
    <3>3. r.of \in Nat
      BY <1>3 DEF UseTypes
    <3> QED
      BY <1>3, <2>2, <3>1, <3>2, <3>3, Telling
  <2> QED
    BY <2>1, <2>2 DEF uncheckedReply, sendReply, Id
<1>5. (UsesNumbered /\ IdsFollowUses /\ RequestsNumbered /\ Apart /\ Tls)'
  BY <1>2, <1>3, Keeping DEF Used, Id, Sessions, UsesNumbered
<1>6. (SocketTypes /\ NextTypes /\ ReadingTypes /\ UseTypes)'
  BY <1>2 DEF SocketTypes, NextTypes, ReadingTypes, UseTypes
<1>7. ReadingApart' /\ ReleasedWhenRead'
  BY <1>2 DEF Sessions, ReadingApart, ReleasedWhenRead, Used
<1>8. PendingMeansAsked'
  <2>1. \A t \in Sockets : Alike("recv", t)' = Alike("recv", t)
    BY <1>2, <1>3 DEF Alike
  <2> QED
    BY <1>2, <2>1 DEF PendingMeansAsked
<1> QED
  BY <1>3, <1>4, <1>5, <1>6, <1>7, <1>8 DEF Sessions

(* The reply to a receive resets the flag, whatever its session.            *)
LEMMA ReceiveAnswered ==
  ASSUME IInv, NEW r \in asked, NEW n \in Lengths \cup {0}, recvReply(r, n)
  PROVE  IInv'
<1> USE Bounds DEF IInv, Types
<1>1. /\ arrives(r, "recv") /\ "recv" \in Commands
      /\ UNCHANGED <<gu16SessionID, u8NextTcpSock, u8NextUdpSock, uses, use, tls>>
  BY DEF recvReply, Commands
<1>2. /\ AskedTypes' /\ asked' = asked \ {r} /\ reading.at = "idle" /\ r.cmd = "recv"
      /\ r.sock \in Sockets /\ r.of \in 1 .. uses /\ r.session >= 1 /\ r.of \in Nat
  BY <1>1, Arriving DEF UseTypes
<1>3. \/ /\ gastrSockets' = [gastrSockets EXCEPT ![r.sock].bIsRecvPending = FALSE]
         /\ upset' = [upset EXCEPT ![r.sock] = gastrSockets[r.sock].bIsUsed /\ (@ \/ r.of # use[r.sock])]
      \/ /\ UNCHANGED <<gastrSockets, reading, strays>>
         /\ upset' = [upset EXCEPT ![r.sock] = gastrSockets[r.sock].bIsUsed]
  BY DEF recvReply
<1>4. gastrSockets \in [Sockets -> SocketType] /\ gastrSockets[r.sock] \in SocketType
  BY <1>2 DEF SocketTypes
<1>5. SocketTypes'
  <2>1. [gastrSockets[r.sock] EXCEPT !.bIsRecvPending = FALSE] \in SocketType
    BY <1>4 DEF SocketType
  <2> QED
    BY <1>1, <1>3, <1>4, <2>1 DEF SocketTypes
<1>6. \A t \in Sockets :
        /\ Used(t)' <=> Used(t)
        /\ Id(t)' = Id(t)
        /\ "ACTIVE" \in gastrSockets'[t].u8SSLFlags <=> "ACTIVE" \in gastrSockets[t].u8SSLFlags
        /\ t # r.sock => (gastrSockets'[t].bIsRecvPending <=> gastrSockets[t].bIsRecvPending)
        /\ ~gastrSockets[t].bIsRecvPending => ~gastrSockets'[t].bIsRecvPending
  BY <1>2, <1>3, <1>4 DEF Used, Id, SocketType
<1>7. (UsesNumbered /\ IdsFollowUses /\ RequestsNumbered /\ Apart /\ Tls)'
  BY <1>1, <1>2, <1>6, Keeping DEF Sessions, UsesNumbered
<1>8. r.session = Id(r.sock)
        => Used(r.sock) /\ (r.of = use[r.sock] \/ use[r.sock] - r.of >= SessionIds)
  BY <1>2 DEF Sessions, UsesNumbered, Apart
<1>9. StrayTypes' /\ NoStrays'
  <2>1. CASE UNCHANGED strays
    BY <2>1 DEF StrayTypes, Sessions, NoStrays, RepliesReachTheirUse
  <2>2. CASE r.session = Id(r.sock) /\ tell(r.sock, r.of)
    BY <1>2, <1>8, <2>2, Telling
  <2> QED
    BY <2>1, <2>2 DEF recvReply, Id
<1>10. \/ UNCHANGED reading
       \/ /\ r.session = Id(r.sock) /\ n > 0
          /\ reading' = [sock |-> r.sock, left |-> n, at |-> "read", released |-> FALSE, of |-> r.of]
  BY DEF recvReply, Id
<1>11. ReadingTypes' /\ ReleasedWhenRead'
  <2>1. CASE UNCHANGED reading
    BY <2>1 DEF ReadingTypes, ReleasedWhenRead
  <2>2. CASE reading' = [sock |-> r.sock, left |-> n, at |-> "read", released |-> FALSE, of |-> r.of]
    <3>1. n \in Nat
      OBVIOUS
    <3>2. ReadingTypes'
      BY <1>2, <2>2, <3>1 DEF ReadingTypes
    <3>3. reading'.released = FALSE
      BY <2>2
    <3> QED
      BY <3>2, <3>3 DEF ReleasedWhenRead
  <2> QED
    BY <1>10, <2>1, <2>2
<1>12. ReadingApart'
  BY <1>1, <1>2, <1>6, <1>8, <1>10 DEF Sessions, ReadingApart
<1>13. UseTypes' /\ NextTypes'
  <2>1. UNCHANGED <<uses, use, tls>> /\ NextTypes'
    BY <1>1 DEF NextTypes
  <2>2. gastrSockets[r.sock].bIsUsed \in BOOLEAN /\ upset \in [Sockets -> BOOLEAN]
    BY <1>4 DEF SocketType, UseTypes
  <2>3. upset' \in [Sockets -> BOOLEAN]
    BY <1>2, <1>3, <2>2
  <2> QED
    BY <2>1, <2>3 DEF UseTypes
<1>14. PendingMeansAsked'
  <2> SUFFICES ASSUME NEW t \in Sockets, gastrSockets'[t].bIsUsed, ~upset'[t]
               PROVE  /\ gastrSockets'[t].bIsRecvPending <=> Alike("recv", t)' # {}
                      /\ \A q, p \in Alike("recv", t)' : q = p
    <3>1. \A t \in Sockets : gastrSockets'[t].bIsRecvPending \in BOOLEAN
      BY <1>5 DEF SocketTypes, SocketType
    <3> QED
      BY <3>1 DEF PendingMeansAsked
  <2>1. gastrSockets[t].bIsUsed
    BY <1>6 DEF Used
  <2> DEFINE pending == gastrSockets[t].bIsRecvPending
  <2>2. ~upset[t] => /\ pending <=> Alike("recv", t) # {}
                     /\ \A q, p \in Alike("recv", t) : q = p
    BY <2>1, Zenon DEF PendingMeansAsked
  <2>3. CASE t # r.sock
    <3>1. Alike("recv", t)' = Alike("recv", t)
      BY <1>1, <1>2, <2>3 DEF Alike
    <3>2. ~upset[t]
      BY <1>2, <1>3, <2>3 DEF UseTypes
    <3> QED
      BY <1>6, <2>2, <2>3, <3>1, <3>2
  <2>4. CASE t = r.sock
    <3>1. /\ gastrSockets' = [gastrSockets EXCEPT ![r.sock].bIsRecvPending = FALSE]
          /\ ~upset[t] /\ r.of = use[t]
      BY <1>2, <1>3, <2>1, <2>4 DEF UseTypes
    <3>2. ~gastrSockets'[t].bIsRecvPending
      BY <1>2, <1>4, <2>4, <3>1 DEF SocketType
    <3>3. r \in Alike("recv", t)
      BY <1>2, <2>4, <3>1 DEF Alike
    <3>4. Alike("recv", t)' = Alike("recv", t) \ {r}
      BY <1>1, <1>2 DEF Alike
    <3> QED
      BY <2>2, <3>1, <3>2, <3>3, <3>4
  <2> QED
    BY <2>3, <2>4
<1> QED
  BY <1>2, <1>5, <1>7, <1>9, <1>11, <1>12, <1>13, <1>14 DEF Sessions

(* A connection is accepted on a free socket.                               *)
LEMMA Accepting ==
  ASSUME IInv, NEW r \in asked, NEW s \in TcpSockets, acceptReply(r, s)
  PROVE  IInv'
<1> USE Bounds DEF IInv, Types
<1> DEFINE flags == gastrSockets[r.sock].u8SSLFlags
<1>1. /\ s \in Sockets /\ ~Used(s) /\ begin(s, flags, r.ssl) /\ reading.at = "idle"
      /\ UNCHANGED <<u8NextTcpSock, u8NextUdpSock, reading, asked, strays>>
  BY DEF acceptReply, Used
<1>2. r.sock \in Sockets /\ r.ssl \in BOOLEAN /\ r.of >= 1
  BY DEF AskedTypes, Requests, Sessions, RequestsNumbered
<1>3. flags \in SUBSET (SslOptions \cup {"ACTIVE"})
  BY <1>2 DEF SocketTypes, SocketType
<1>4. "accept" \notin LateAnswers => (r.ssl <=> "ACTIVE" \in flags)
  <2> SUFFICES ASSUME "accept" \notin LateAnswers PROVE r.ssl <=> "ACTIVE" \in flags
    OBVIOUS
  <2>1. r.of = use[r.sock]
    BY DEF acceptReply
  <2>2. Used(r.sock)
    BY <1>2, <2>1 DEF Sessions, UsesNumbered
  <2> QED
    BY <1>2, <2>1, <2>2 DEF Tls, FlagsKept, RequestsKept
<1>5. NextTypes'
  BY <1>1 DEF NextTypes
<1> HIDE DEF flags
<1> QED
  BY <1>1, <1>2, <1>3, <1>4, <1>5, Beginning

(* socket: the next free one is in the table, whatever the type             *)
LEMMA InRange ==
  ASSUME NEW n \in Nat, NEW max \in Nat \ {0}
  PROVE  n % max \in 0 .. max - 1
  OBVIOUS

LEMMA Allocating ==
  ASSUME IInv, NEW stream \in BOOLEAN, NEW ssl \in BOOLEAN, socket(stream, ssl)
  PROVE  IInv'
<1> USE Bounds DEF IInv, Types
<1>1. /\ reading.at = "idle" \/ "socket" \in CallbackCalls
      /\ UNCHANGED <<reading, asked, strays>>
  BY DEF socket, mayCall
<1> DEFINE flags == IF ssl THEN {"ACTIVE"} ELSE {}
<1>2. flags \in SUBSET (SslOptions \cup {"ACTIVE"}) /\ (ssl <=> "ACTIVE" \in flags)
  OBVIOUS
<1>3. \E s \in Sockets : ~Used(s) /\ begin(s, flags, ssl) /\ NextTypes'
  <2>1. CASE allocate(0, u8NextTcpSock, TCP_SOCK_MAX, ssl)
    <3>1. PICK k \in FreeFrom(0, u8NextTcpSock, TCP_SOCK_MAX) :
            /\ begin(0 + ((u8NextTcpSock + k) % TCP_SOCK_MAX), flags, ssl)
            /\ u8NextTcpSock' = (u8NextTcpSock + k + 1) % TCP_SOCK_MAX /\ UNCHANGED u8NextUdpSock
      BY <2>1 DEF allocate
    <3>2. k \in Nat /\ u8NextTcpSock \in Nat
      BY DEF FreeFrom, NextTypes
    <3>3. /\ (u8NextTcpSock + k) % TCP_SOCK_MAX \in 0 .. TCP_SOCK_MAX - 1
          /\ (u8NextTcpSock + k + 1) % TCP_SOCK_MAX \in 0 .. TCP_SOCK_MAX - 1
      BY <3>2, InRange
    <3>4. NextTypes'
      BY <3>1, <3>3 DEF NextTypes
    <3>5. 0 + ((u8NextTcpSock + k) % TCP_SOCK_MAX) \in Sockets
      BY <3>3 DEF Sockets, TcpSockets
    <3>6. ~Used(0 + ((u8NextTcpSock + k) % TCP_SOCK_MAX))
      BY DEF FreeFrom, Used
    <3> QED
      BY <3>1, <3>4, <3>5, <3>6
  <2>2. CASE allocate(TCP_SOCK_MAX, u8NextUdpSock, UDP_SOCK_MAX, ssl)
    <3>1. PICK k \in FreeFrom(TCP_SOCK_MAX, u8NextUdpSock, UDP_SOCK_MAX) :
            /\ begin(TCP_SOCK_MAX + ((u8NextUdpSock + k) % UDP_SOCK_MAX), flags, ssl)
            /\ u8NextUdpSock' = (u8NextUdpSock + k + 1) % UDP_SOCK_MAX /\ UNCHANGED u8NextTcpSock
      BY <2>2 DEF allocate
    <3>2. u8NextUdpSock + k \in Nat /\ u8NextUdpSock + k + 1 \in Nat /\ UDP_SOCK_MAX \in Nat \ {0}
      BY DEF FreeFrom, NextTypes
    <3>3. /\ (u8NextUdpSock + k) % UDP_SOCK_MAX \in 0 .. UDP_SOCK_MAX - 1
          /\ (u8NextUdpSock + k + 1) % UDP_SOCK_MAX \in 0 .. UDP_SOCK_MAX - 1
      BY ONLY <3>2, InRange
    <3>4. NextTypes'
      BY <3>1, <3>3 DEF NextTypes
    <3>5. TCP_SOCK_MAX + ((u8NextUdpSock + k) % UDP_SOCK_MAX) \in Sockets
      BY <3>3 DEF Sockets, UdpSockets
    <3>6. ~Used(TCP_SOCK_MAX + ((u8NextUdpSock + k) % UDP_SOCK_MAX))
      BY DEF FreeFrom, Used
    <3> QED
      BY <3>1, <3>4, <3>5, <3>6
  <2> QED
    BY <2>1, <2>2 DEF socket
<1> HIDE DEF flags
<1> QED
  BY <1>1, <1>2, <1>3, Beginning

-----------------------------------------------------------------------------
(* Socket_ReadSocketData *)
LEMMA Reading ==
  ASSUME IInv, Socket_ReadSocketData
  PROVE  IInv'
<1> USE Bounds DEF IInv, Types, own, ghost
<1>1. UNCHANGED <<gastrSockets, gu16SessionID, u8NextTcpSock, u8NextUdpSock, asked,
                  uses, use, tls, upset>>
  BY DEF Socket_ReadSocketData, readChunk, chunkTaken
<1>2. (SocketTypes /\ NextTypes /\ AskedTypes /\ UseTypes)'
  BY <1>1 DEF SocketTypes, NextTypes, AskedTypes, UseTypes
<1>3. (UsesNumbered /\ IdsFollowUses /\ RequestsNumbered /\ Apart /\ Tls)'
  BY <1>1, Keeping DEF Used, Id, Sessions, UsesNumbered
<1>4. PendingMeansAsked'
  <2>1. \A t \in Sockets : Alike("recv", t)' = Alike("recv", t)
    BY <1>1 DEF Alike
  <2> QED
    BY <1>1, <2>1 DEF PendingMeansAsked
<1>5. reading.sock \in Sockets /\ reading.left \in Nat /\ reading.of \in Nat
  BY DEF ReadingTypes
<1> DEFINE s == reading.sock
           last == reading.left <= gastrSockets[s].size
           taken == IF last THEN reading.left ELSE gastrSockets[s].size
<1>6. taken \in Nat /\ reading.left - taken \in Nat /\ (last => reading.left - taken = 0) /\ last \in BOOLEAN
  <2>1. gastrSockets[s].size \in Nat
    BY <1>5 DEF SocketTypes, SocketType
  <2> QED
    BY <1>5, <2>1
<1>7. CASE /\ reading.at = "read" /\ Used(s) /\ tell(s, reading.of)
           /\ reading' = [reading EXCEPT !.left = @ - taken, !.at = "app", !.released = last]
  <2>1. /\ reading'.left = reading.left - taken /\ reading'.released = last
        /\ reading'.sock = s /\ reading'.of = reading.of
    BY <1>7 DEF ReadingTypes
  <2>2. ReadingTypes'
    BY <1>5, <1>6, <1>7 DEF ReadingTypes
  <2>3. ReleasedWhenRead'
    BY <1>6, <2>1 DEF ReleasedWhenRead
  <2>4. "socket" \notin CallbackCalls => reading.of = use[s] \/ use[s] - reading.of >= SessionIds
    BY <1>7 DEF Sessions, ReadingApart
  <2>5. ReadingApart'
    BY <1>1, <2>1, <2>4 DEF ReadingApart
  <2>6. StrayTypes' /\ NoStrays'
    BY <1>5, <1>7, <2>4, Telling
  <2> QED
    BY <1>2, <1>3, <1>4, <2>2, <2>3, <2>5, <2>6 DEF Sessions
<1>8. CASE reading' = Nothing /\ UNCHANGED strays
  BY <1>1, <1>2, <1>3, <1>4, <1>8
     DEF Nothing, ReadingTypes, ReleasedWhenRead, Sessions, ReadingApart, NoStrays,
         RepliesReachTheirUse, StrayTypes
<1>9. CASE reading' = [reading EXCEPT !.at = "read"] /\ reading.at = "app" /\ UNCHANGED strays
  <2>1. ReadingTypes' /\ StrayTypes'
    BY <1>9 DEF ReadingTypes, StrayTypes
  <2>2. /\ reading'.left = reading.left /\ reading'.released = reading.released
        /\ reading'.sock = s /\ reading'.of = reading.of
    BY <1>9 DEF ReadingTypes
  <2>3. (ReleasedWhenRead /\ ReadingApart /\ NoStrays)'
    BY <1>1, <1>9, <2>2 DEF ReleasedWhenRead, Sessions, ReadingApart, NoStrays,
       RepliesReachTheirUse, Used
  <2> QED
    BY <1>2, <1>3, <1>4, <2>1, <2>3 DEF Sessions
<1> QED
  BY <1>7, <1>8, <1>9 DEF Socket_ReadSocketData, readChunk, chunkTaken, Used

LEMMA NextPreservesIInv == IInv /\ [Next]_vars => IInv'
<1> SUFFICES ASSUME IInv, [Next]_vars PROVE IInv'
  OBVIOUS
<1>1. CASE UNCHANGED vars
  <2> USE <1>1 DEF vars, own, ghost, IInv
  <2>1. Types'
    BY DEF Types, SocketTypes, NextTypes, ReadingTypes, AskedTypes, UseTypes, StrayTypes
  <2>2. Sessions'
    BY DEF Sessions, UsesNumbered, IdsFollowUses, IdBefore, RequestsNumbered, Apart, ReadingApart,
       NoStrays, RepliesReachTheirUse, Used, Id
  <2>3. Tls'
    BY DEF Tls, FlagsKept, RequestsKept, Used
  <2>4. PendingMeansAsked' /\ ReleasedWhenRead'
    BY DEF PendingMeansAsked, Alike, ReleasedWhenRead
  <2> QED
    BY <2>1, <2>2, <2>3, <2>4
<1>2. CASE Application
  <2>1. ASSUME NEW ssl \in BOOLEAN, socket(TRUE, ssl) PROVE IInv'
    BY <2>1, Allocating
  <2>2. CASE socket(FALSE, FALSE)
    BY <2>2, Allocating
  <2>3. ASSUME NEW s \in TcpSockets, listen(s) \/ connect(s) PROVE IInv'
    <3>1. s \in Sockets /\ {"listen", "connect"} \subseteq Commands \ {"recv"}
      BY Bounds DEF Commands
    <3> QED
      BY <2>3, <3>1, Commanding DEF listen, connect
  <2>4. ASSUME NEW s \in Sockets, bind(s) \/ send(s) PROVE IInv'
    <3>1. {"bind", "send"} \subseteq Commands \ {"recv"}
      BY DEF Commands
    <3> QED
      BY <2>4, <3>1, Commanding DEF bind, send
  <2> QED
    BY <1>2, <2>1, <2>2, <2>3, <2>4, Closing, SettingOption, Receiving DEF Application
<1>3. CASE m2m_ip_cb
  BY <1>3, Answering, Accepting, ReceiveAnswered DEF m2m_ip_cb
<1>4. CASE Socket_ReadSocketData
  BY <1>4, Reading
<1> QED
  BY <1>1, <1>2, <1>3, <1>4 DEF Next

LEMMA InvariantHolds == Spec => []IInv
  BY InitEstablishesIInv, NextPreservesIInv, PTL DEF Spec

-----------------------------------------------------------------------------
(* Theorem: answers and data reach the application only in the use of the   *)
(* socket they were asked for in, until all session ids have been given     *)
(* away since (socket.c:321-351, 533-541), if callbacks do not open sockets.*)
THEOREM RepliesInTheirUse ==
  ASSUME "socket" \notin CallbackCalls
  PROVE  Spec => []RepliesReachTheirUse
<1>1. IInv => RepliesReachTheirUse
  BY DEF IInv, Sessions, NoStrays
<1> QED
  BY <1>1, InvariantHolds, PTL

(* Theorem: the pending flag tells whether a receive is at the chip, and    *)
(* there is never a second one (socket.c:863-890).                          *)
THEOREM OneReceive == Spec => []PendingMeansAsked
<1>1. IInv => PendingMeansAsked
  BY DEF IInv
<1> QED
  BY <1>1, InvariantHolds, PTL

(* Theorem: the chip's buffer is not released before all of its data has    *)
(* been read (Socket_ReadSocketData, socket.c:144-192).                     *)
THEOREM ReleasedLast == Spec => []ReleasedWhenRead
<1>1. IInv => ReleasedWhenRead
  BY DEF IInv
<1> QED
  BY <1>1, InvariantHolds, PTL

(* Theorem: every request of a TLS socket is a TLS request, on accepted     *)
(* sockets too, if the chip accepts nothing on a socket that was closed     *)
(* (socket.c:253, 564-569).                                           *)
THEOREM TlsThroughout ==
  ASSUME "accept" \notin LateAnswers
  PROVE  Spec => []TlsStaysTls
<1>1. IInv => TlsStaysTls
  <2> SUFFICES ASSUME IInv, NEW r \in asked, r.of = use[r.sock] PROVE r.ssl = tls[r.sock]
    BY DEF TlsStaysTls
  <2>1. r.ssl <=> tls[r.sock]
    BY DEF IInv, Tls, RequestsKept
  <2>2. r.ssl \in BOOLEAN /\ tls[r.sock] \in BOOLEAN
    BY DEF IInv, Types, AskedTypes, UseTypes, Requests
  <2> QED
    BY <2>1, <2>2
<1> QED
  BY <1>1, InvariantHolds, PTL

(* Theorem: the state stays of its type; session ids stay within their      *)
(* range.                                                                   *)
THEOREM TypeCorrect == Spec => []TypeOK
<1>1. IInv => TypeOK
  BY DEF IInv, Types, SocketTypes, SocketType, NextTypes, ReadingTypes, AskedTypes, UseTypes,
     StrayTypes, TypeOK
<1> QED
  BY <1>1, InvariantHolds, PTL

(* Theorem: socket() finds a free socket of the type if there is one,       *)
(* wherever the round robin stands (socket.c:518-545).                      *)
THEOREM FreeSocketFound == Spec => []FindsFreeSocket
<1>1. ASSUME NEW first \in Nat, NEW max \in Nat \ {0}, NEW next \in 0 .. max - 1,
             FreeFrom(first, next, max) = {}, NEW s \in first .. first + max - 1
      PROVE  gastrSockets[s].bIsUsed
  <2> DEFINE k == IF s - first >= next THEN s - first - next ELSE s - first - next + max
  <2>1. k \in 0 .. max - 1
    OBVIOUS
  <2>2. (next + k) % max = s - first
    OBVIOUS
  <2>3. first + ((next + k) % max) = s
    BY <2>2
  <2> HIDE DEF k
  <2> QED
    BY <1>1, <2>1, <2>3 DEF FreeFrom
<1>2. IInv => FindsFreeSocket
  BY <1>1, Bounds DEF IInv, Types, NextTypes, FindsFreeSocket, TcpSockets, UdpSockets
<1> QED
  BY <1>2, InvariantHolds, PTL
=============================================================================
