---------------------------- MODULE UmqttProofs ----------------------------
(***************************************************************************)
(* The MQTT client and its ring.                                           *)
(*                                                                         *)
(* The circular buffer implements a bounded queue, for every length and    *)
(* every sequence of pushes, pops and resets: the invariant adds to the    *)
(* types where umqtt_circ_push writes.                                     *)
(*                                                                         *)
(* The client stays in step with the broker, for any lengths of packets,   *)
(* chunks and sessions, until a chunk ends inside a packet (cut), if the   *)
(* ring has four or five bytes (five in mqtt_client.c): then a CONNACK     *)
(* fits, and of everything else the ring holds no more than the header     *)
(* and length announce, so that one round of umqtt_process empties it.     *)
(* Each CONNECT starts in step again, whatever came before.                *)
(*                                                                         *)
(* Whether a packet stands at a place of the wire is said by the bytes     *)
(* from there on, so that packets before and behind it do not matter.      *)
(***************************************************************************)
EXTENDS CircBuffer, Umqtt, SequenceTheorems, FiniteSetTheorems, TLAPS

(* one wrap of an offset below twice the length *)
Wrapped(p) == IF p > bend THEN p - length ELSE p

WritesBehindContents == pushing => wrap(dend) = Wrapped(pointer + datalen)

RingInv == RingTypeOK /\ WritesBehindContents

(* The modulo of umqtt_circ_push is a single wrap.                          *)
LEMMA ModuloIsOneWrap ==
  ASSUME NEW n \in Nat \ {0}, NEW p \in 0 .. 2 * n - 1
  PROVE  p % n = IF p > n - 1 THEN p - n ELSE p
<1>1. p = n * (p \div n) + (p % n) /\ p % n \in 0 .. n - 1 /\ p \div n \in Int
  OBVIOUS
<1> DEFINE q == p \div n
<1> DEFINE r == p % n
<1> HIDE DEF q, r
<1>2. p = n * q + r /\ r \in 0 .. n - 1 /\ q \in Int
  BY <1>1 DEF q, r
<1>3. q = 0 \/ q = 1
  <2>1. CASE q >= 2
    <3>1. n * q >= 2 * n
      BY <2>1, <1>2
    <3>2. QED
      BY <3>1, <1>2
  <2>2. CASE q <= -1
    <3>1. n * q <= -n
      BY <2>2, <1>2
    <3>2. QED
      BY <3>1, <1>2
  <2>3. QED
    BY <1>2, <2>1, <2>2
<1>4. CASE q = 0
  <2>1. r = p
    BY <1>2, <1>4
  <2>2. QED
    BY <2>1, <1>2 DEF r
<1>5. CASE q = 1
  <2>1. r = p - n
    BY <1>2, <1>5
  <2>2. QED
    BY <2>1, <1>2 DEF r
<1>6. QED
  BY <1>3, <1>4, <1>5

-----------------------------------------------------------------------------
(* Contents is a sequence of datalen bytes.                                 *)
SequenceOfCells ==
  /\ Contents \in Seq(Byte)
  /\ Len(Contents) = datalen
  /\ \A i \in 1 .. datalen : Contents[i] = start[cell(i)]

LEMMA ContentsIsSequence == RingTypeOK => SequenceOfCells
<1> SUFFICES ASSUME RingTypeOK PROVE SequenceOfCells
  OBVIOUS
<1>1. \A i \in 1 .. datalen : cell(i) \in Offsets
  BY CircAssumption DEF RingTypeOK, cell, bend, Offsets
<1>2. Contents \in [1 .. datalen -> Byte]
  BY <1>1 DEF Contents, RingTypeOK
<1>3. datalen \in Nat
  BY CircAssumption DEF RingTypeOK
<1>4. QED
  BY <1>2, <1>3 DEF Contents, SequenceOfCells

LEMMA RingTypes ==
  ASSUME RingInv, [RingNext]_ringVars
  PROVE  RingTypeOK'
<1> USE CircAssumption DEF RingInv
<1>1. CASE umqtt_circ_init
  BY <1>1 DEF umqtt_circ_init, RingTypeOK, Offsets
<1>2. ASSUME NEW d \in Data, beginPush(d)
      PROVE  RingTypeOK'
  <2>1. (pointer + datalen) % length \in 0 .. length - 1
    BY DEF RingTypeOK, Offsets
  <2>2. QED
    BY <1>2, <2>1 DEF beginPush, RingTypeOK
<1>3. CASE pushByte
  <2>1. Head(data) \in Byte /\ Tail(data) \in Seq(Byte)
    BY <1>3 DEF pushByte, RingTypeOK
  <2>2. wrap(dend) \in Offsets
    BY DEF RingTypeOK, wrap, bend, Offsets
  <2>3. datalen < length
    BY <1>3 DEF pushByte, isFull, WritesBehindContents, Wrapped, RingTypeOK, Offsets, bend
  <2>4. start' \in [Offsets -> Byte]
    BY <1>3, <2>1, <2>2 DEF pushByte, RingTypeOK
  <2>5. datalen' \in 0 .. length /\ dend' \in 0 .. length
    BY <1>3, <2>2, <2>3 DEF pushByte, RingTypeOK, Offsets
  <2>6. QED
    BY <1>3, <2>1, <2>4, <2>5 DEF pushByte, RingTypeOK
<1>4. CASE endPush
  BY <1>4, Zenon DEF endPush, RingTypeOK
<1>5. CASE popByte
  BY <1>5 DEF popByte, RingTypeOK, wrap, bend, Offsets
<1>6. CASE UNCHANGED ringVars
  BY <1>6 DEF ringVars, RingTypeOK
<1>7. QED
  BY <1>1, <1>2, <1>3, <1>4, <1>5, <1>6 DEF RingNext

LEMMA PushPosition ==
  ASSUME RingInv, [RingNext]_ringVars
  PROVE  WritesBehindContents'
<1> USE CircAssumption DEF RingInv
<1>1. CASE umqtt_circ_init
  BY <1>1 DEF umqtt_circ_init, WritesBehindContents
<1>2. ASSUME NEW d \in Data, beginPush(d)
      PROVE  WritesBehindContents'
  <2>1. pointer + datalen \in 0 .. 2 * length - 1
    BY DEF RingTypeOK, Offsets
  <2>2. dend' = Wrapped(pointer + datalen)
    BY <1>2, <2>1, ModuloIsOneWrap, Zenon DEF beginPush, Wrapped, bend
  <2>3. Wrapped(pointer + datalen) \in Offsets
    BY <2>1 DEF Wrapped, bend, Offsets
  <2>4. QED
    BY <1>2, <2>2, <2>3 DEF beginPush, WritesBehindContents, Wrapped, wrap, bend, Offsets
<1>3. CASE pushByte
  BY <1>3 DEF pushByte, isFull, WritesBehindContents, Wrapped, wrap, RingTypeOK, Offsets, bend
<1>4. CASE endPush
  BY <1>4 DEF endPush, WritesBehindContents
<1>5. CASE popByte
  BY <1>5 DEF popByte, WritesBehindContents
<1>6. CASE UNCHANGED ringVars
  BY <1>6 DEF ringVars, WritesBehindContents, Wrapped, wrap
<1>7. QED
  BY <1>1, <1>2, <1>3, <1>4, <1>5, <1>6 DEF RingNext

LEMMA RingInductive == RingSpec => []RingInv
<1>1. RingInit => RingInv
  <2> SUFFICES ASSUME RingInit PROVE RingInv
    OBVIOUS
  <2>1. pointer \in Offsets /\ datalen \in 0 .. length /\ dend \in 0 .. length
    BY CircAssumption DEF RingInit, Offsets
  <2>2. start \in [Offsets -> Byte] /\ out \in Byte /\ data \in Seq(Byte)
    BY EmptySeq DEF RingInit
  <2>3. pushing \in BOOLEAN /\ WritesBehindContents
    BY Zenon DEF RingInit, WritesBehindContents
  <2>4. QED
    BY <2>1, <2>2, <2>3 DEF RingInv, RingTypeOK
<1>2. RingInv /\ [RingNext]_ringVars => RingInv'
  BY RingTypes, PushPosition DEF RingInv
<1>3. QED
  BY <1>1, <1>2, PTL DEF RingSpec

(* Offsets stay inside the array of the buffer, whatever its length.        *)
THEOREM TypeCorrect == RingSpec => []RingTypeOK
<1>1. RingInv => RingTypeOK
  BY DEF RingInv
<1>2. QED
  BY <1>1, RingInductive, PTL

(* umqtt_circ_push leaves bytes behind only when all cells are taken.       *)
THEOREM FullBeforeStopping == RingSpec => PushesWhileThereIsRoom
<1>1. RingInv /\ [RingNext]_ringVars
        => [pushing /\ ~pushing' /\ data # <<>> => datalen = length]_ringVars
  <2> SUFFICES ASSUME RingInv, endPush, data # <<>>
               PROVE  datalen = length
    BY DEF RingNext, umqtt_circ_init, beginPush, pushByte, popByte
  <2>1. pushing /\ datalen # 0 /\ wrap(dend) = pointer
    BY DEF endPush, isFull
  <2>2. QED
    BY <2>1, CircAssumption DEF RingInv, WritesBehindContents, Wrapped, RingTypeOK, Offsets, bend
<1>2. QED
  BY <1>1, RingInductive, PTL DEF RingSpec, PushesWhileThereIsRoom

(* The circular buffer implements the bounded queue.                        *)
THEOREM Refinement == RingSpec => ImplementsFifo
<1> USE CircAssumption
<1>1. RingInit => Queue!Init
  <2> SUFFICES ASSUME RingInit PROVE Contents = <<>>
    BY Zenon DEF RingInit, Queue!Init
  <2>1. RingTypeOK /\ datalen = 0
    BY EmptySeq DEF RingInit, RingTypeOK, Offsets
  <2>2. QED
    BY <2>1, ContentsIsSequence, EmptySeq DEF SequenceOfCells
<1>2. RingInv /\ RingInv' /\ [RingNext]_ringVars => [Queue!Next]_(Queue!vars)
  <2> SUFFICES ASSUME RingInv, RingInv', [RingNext]_ringVars
               PROVE  [Queue!Next]_(Queue!vars)
    OBVIOUS
  <2> USE DEF RingInv
  <2>1. /\ Contents \in Seq(Byte) /\ Len(Contents) = datalen
        /\ \A i \in 1 .. datalen : Contents[i] = start[cell(i)]
    BY ContentsIsSequence DEF SequenceOfCells
  <2>2. /\ Contents' \in Seq(Byte) /\ Len(Contents') = datalen'
        /\ \A i \in 1 .. datalen' : Contents'[i] = start'[cell(i)']
    <3>1. RingTypeOK'
      OBVIOUS
    <3>2. SequenceOfCells'
      BY <3>1, ContentsIsSequence, PTL
    <3>3. QED
      BY <3>2 DEF SequenceOfCells
  <2>3. CASE umqtt_circ_init
    <3>1. Contents' = <<>>
      BY <2>2, <2>3, EmptySeq DEF umqtt_circ_init
    <3>2. QED
      BY <2>3, <3>1 DEF umqtt_circ_init, Queue!Next, Queue!Clear
  <2>4. CASE pushByte
    <3>1. Head(data) \in Byte /\ datalen < length
      BY <2>4 DEF pushByte, RingTypeOK, isFull, WritesBehindContents, Wrapped, Offsets, bend
    <3>2. wrap(dend) = Wrapped(pointer + datalen) /\ wrap(dend) \in Offsets
      BY <2>4 DEF pushByte, WritesBehindContents, RingTypeOK, wrap, bend, Offsets
    <3>3. \A i \in 1 .. datalen : cell(i) # wrap(dend) /\ cell(i) \in Offsets
      BY <3>1, <3>2 DEF cell, Wrapped, bend, RingTypeOK, Offsets
    <3>4. \A i \in 1 .. datalen : Contents'[i] = Contents[i]
      BY <2>1, <2>2, <2>4, <3>3 DEF pushByte, cell, RingTypeOK
    <3>5. Contents'[datalen + 1] = Head(data)
      <4>1. cell(datalen + 1) = wrap(dend)
        BY <3>2 DEF cell, Wrapped, RingTypeOK, Offsets
      <4>2. QED
        BY <2>2, <2>4, <3>2, <4>1 DEF pushByte, cell, RingTypeOK
    <3>6. Contents' = Append(Contents, Head(data))
      <4> DEFINE app == Append(Contents, Head(data))
      <4>1. /\ app \in Seq(Byte) /\ Len(app) = datalen + 1
            /\ \A i \in 1 .. datalen : app[i] = Contents[i]
            /\ app[datalen + 1] = Head(data)
        BY <2>1, <3>1, AppendProperties
      <4> HIDE DEF app
      <4>2. Len(Contents') = Len(app) /\ datalen \in Nat
        BY <2>2, <2>4, <4>1 DEF pushByte, RingTypeOK
      <4>3. \A i \in 1 .. Len(Contents') : Contents'[i] = app[i]
        BY <3>4, <3>5, <4>1, <4>2
      <4>4. Contents' = app
        BY <2>2, <4>1, <4>2, <4>3, SeqEqual
      <4>5. QED
        BY <4>4 DEF app
    <3>7. Queue!Put(Head(data))
      BY <2>1, <2>4, <3>1, <3>6 DEF pushByte, Queue!Put
    <3>8. QED
      BY <3>1, <3>7 DEF Queue!Next
  <2>5. CASE popByte
    <3>1. datalen > 0 /\ Contents # <<>>
      BY <2>1, <2>5, EmptySeq DEF popByte
    <3>2. Head(Contents) = start[pointer]
      BY <2>1, <3>1 DEF cell, RingTypeOK, Offsets, bend
    <3>3. \A i \in 1 .. datalen - 1 : cell(i)' = cell(i + 1)
      BY <2>5 DEF popByte, cell, wrap, RingTypeOK, Offsets, bend
    <3>4. \A i \in 1 .. datalen - 1 : Contents'[i] = Contents[i + 1]
      <4> TAKE i \in 1 .. datalen - 1
      <4>1. datalen' = datalen - 1 /\ start' = start /\ datalen \in Int
        BY <2>5 DEF popByte, RingTypeOK
      <4>2. i \in 1 .. datalen' /\ i + 1 \in 1 .. datalen
        BY <4>1
      <4>3. Contents'[i] = start'[cell(i)']
        BY <2>2, <4>2
      <4>4. QED
        BY <2>1, <3>3, <4>1, <4>2, <4>3
    <3>5. Contents' = Tail(Contents)
      <4> DEFINE tail == Tail(Contents)
      <4>1. /\ tail \in Seq(Byte) /\ Len(tail) = datalen - 1
            /\ \A i \in 1 .. datalen - 1 : tail[i] = Contents[i + 1]
        BY <2>1, <3>1, HeadTailProperties
      <4> HIDE DEF tail
      <4>2. Len(Contents') = Len(tail)
        BY <2>2, <2>5, <4>1 DEF popByte
      <4>3. \A i \in 1 .. Len(Contents') : Contents'[i] = tail[i]
        BY <3>4, <4>1, <4>2
      <4>4. Contents' = tail
        BY <2>2, <4>1, <4>2, <4>3, SeqEqual
      <4>5. QED
        BY <4>4 DEF tail
    <3>6. Queue!Get
      BY <2>5, <3>1, <3>2, <3>5 DEF popByte, Queue!Get
    <3>7. QED
      BY <3>6 DEF Queue!Next
  <2>6. CASE endPush \/ (\E d \in Data : beginPush(d)) \/ UNCHANGED ringVars
    BY <2>6 DEF endPush, beginPush, ringVars, Contents, cell, Queue!vars
  <2>7. QED
    BY <2>3, <2>4, <2>5, <2>6 DEF RingNext
<1>3. QED
  BY <1>1, <1>2, RingInductive, PTL DEF RingSpec, ImplementsFifo, Queue!Spec

-----------------------------------------------------------------------------
(* A remainder smaller than the divisor is the number itself.               *)
LEMMA SmallMod ==
  ASSUME NEW n \in Nat \ {0}, NEW p \in 0 .. n - 1
  PROVE  p % n = p
<1> DEFINE q == p \div n
<1> DEFINE r == p % n
<1>1. p = n * q + r /\ r \in 0 .. n - 1 /\ q \in Int
  OBVIOUS
<1> HIDE DEF q, r
<1>2. CASE q >= 1
  <2>1. n * q >= n
    BY <1>2, <1>1
  <2>2. QED
    BY <1>1, <2>1
<1>3. CASE q <= -1
  <2>1. n * q <= -n
    BY <1>3, <1>1
  <2>2. QED
    BY <1>1, <2>1
<1>4. CASE q = 0
  <2>1. r = p
    BY <1>1, <1>4
  <2>2. QED
    BY <2>1 DEF r
<1>5. QED
  BY <1>1, <1>2, <1>3, <1>4

(* Quotient and remainder                                                   *)
LEMMA Division ==
  ASSUME NEW n \in Nat \ {0}, NEW x \in Int
  PROVE  x = n * (x \div n) + (x % n) /\ x % n \in 0 .. n - 1 /\ x \div n \in Int
OBVIOUS

(* An int of 16 bits is itself.                                             *)
LEMMA IntSmall == \A x \in Int : -32768 <= x /\ x < 32768 => int(x) = x
<1> SUFFICES ASSUME NEW x \in Int, -32768 <= x, x < 32768 PROVE int(x) = x
  OBVIOUS
<1> DEFINE y == x + 32768
<1>1. y \in Int /\ 0 <= y /\ y <= 65535
  OBVIOUS
<1>2. x = y - 32768
  OBVIOUS
<1> HIDE DEF y
<1>3. y % 65536 = y
  BY <1>1, SmallMod
<1>4. int(x) = y - 32768
  BY <1>3 DEF int, y
<1>5. QED
  BY <1>2, <1>4

(* The weights, unfolded: the recursive function exists.                    *)
LEMMA MulEquation ==
  mul = [i \in 1 .. 4 |-> IF i = 1 THEN 1 ELSE int(mul[i - 1] * 128)]
<1> DEFINE F(m) == [i \in 1 .. 4 |-> IF i = 1 THEN 1 ELSE int(m[i - 1] * 128)]
<1> DEFINE one == 1
<1> DEFINE two == int(one * 128)
<1> DEFINE three == int(two * 128)
<1> DEFINE four == int(three * 128)
<1> DEFINE w == [i \in 1 .. 4 |-> IF i = 1 THEN one ELSE IF i = 2 THEN two
                                  ELSE IF i = 3 THEN three ELSE four]
<1>1. w[1] = one /\ w[2] = two /\ w[3] = three /\ w[4] = four
  OBVIOUS
<1>2. \A i \in 1 .. 4 : w[i] = IF i = 1 THEN 1 ELSE int(w[i - 1] * 128)
  <2> HIDE DEF w, two, three, four
  <2>1. \A i \in 1 .. 4 : i = 1 \/ i = 2 \/ i = 3 \/ i = 4
    OBVIOUS
  <2>2. w[2] = int(w[1] * 128) /\ w[3] = int(w[2] * 128) /\ w[4] = int(w[3] * 128)
    BY <1>1 DEF two, three, four
  <2>3. QED
    BY <1>1, <2>1, <2>2
<1>3. w = F(w)
  BY <1>2
<1>4. QED
  BY <1>3 DEF mul

(* The weights of the bytes a length takes. The fourth overflows the int.   *)
LEMMA Weights == mul[1] = 1 /\ mul[2] = 128 /\ mul[3] = 16384
<1>1. \A i \in 1 .. 4 : mul[i] = IF i = 1 THEN 1 ELSE int(mul[i - 1] * 128)
  BY MulEquation
<1>2. mul[1] = 1
  BY <1>1
<1>3. mul[2] = int(mul[1] * 128)
  BY <1>1
<1>4. mul[2] = 128
  BY <1>2, <1>3, IntSmall
<1>5. mul[3] = int(mul[2] * 128)
  BY <1>1
<1>6. mul[3] = 16384
  BY <1>4, <1>5, IntSmall
<1>7. QED
  BY <1>2, <1>4, <1>6

(* One round of umqtt_encode_length                                         *)
LEMMA Septets ==
  ASSUME NEW len \in Lengths
  PROVE  /\ len = 128 * (len \div 128) + (len % 128)
         /\ len % 128 \in 0 .. 127 /\ len \div 128 \in 0 .. 255
         /\ len \div 128 \in Lengths
         /\ (len \div 128) \div 128 < 128
<1> DEFINE q == len \div 128
<1> DEFINE r == len % 128
<1> DEFINE p == q \div 128
<1> DEFINE s == q % 128
<1>1. len \in Int /\ 0 <= len /\ len < 32768
  BY DEF Lengths
<1>2. len = 128 * q + r /\ r \in 0 .. 127 /\ q \in Int
  BY <1>1, Division
<1> HIDE DEF q, r
<1>3. q = 128 * p + s /\ s \in 0 .. 127 /\ p \in Int
  BY <1>2, Division
<1> HIDE DEF p, s
<1>4. q \in 0 .. 255
  BY <1>1, <1>2
<1>5. p < 128
  BY <1>3, <1>4
<1>6. q \in Lengths
  BY <1>4 DEF Lengths
<1>7. QED
  BY <1>2, <1>4, <1>5, <1>6 DEF p, q, r

(* What umqtt_encode_length does in each round, for every length            *)
LEMMA DigitsEquation ==
  digits = [len \in Lengths |-> IF len < 128 THEN <<len>>
                                ELSE <<128 + (len % 128)>> \o digits[len \div 128]]
<1> DEFINE F(f) == [len \in Lengths |-> IF len < 128 THEN <<len>>
                                        ELSE <<128 + (len % 128)>> \o f[len \div 128]]
<1> DEFINE w == [len \in Lengths |->
                   IF len < 128 THEN <<len>>
                   ELSE <<128 + (len % 128)>> \o
                          (IF len \div 128 < 128 THEN <<len \div 128>>
                           ELSE <<128 + ((len \div 128) % 128)>> \o <<(len \div 128) \div 128>>)]
<1>1. ASSUME NEW len \in Lengths
      PROVE  w[len] = IF len < 128 THEN <<len>>
                      ELSE <<128 + (len % 128)>> \o w[len \div 128]
  <2> DEFINE q == len \div 128
  <2>1. q \in Lengths /\ q \div 128 < 128
    BY Septets
  <2>2. w[len] = IF len < 128 THEN <<len>>
                 ELSE <<128 + (len % 128)>> \o
                        (IF q < 128 THEN <<q>> ELSE <<128 + (q % 128)>> \o <<q \div 128>>)
    OBVIOUS
  <2> HIDE DEF q
  <2>3. w[q] = IF q < 128 THEN <<q>> ELSE <<128 + (q % 128)>> \o <<q \div 128>>
    BY <2>1
  <2> HIDE DEF w
  <2>4. w[len] = IF len < 128 THEN <<len>> ELSE <<128 + (len % 128)>> \o w[q]
    BY <2>2, <2>3
  <2>5. QED
    BY <2>4 DEF q
<1>2. w = [len \in Lengths |-> w[len]]
  OBVIOUS
<1> HIDE DEF w
<1>3. w = F(w)
  BY <1>1, <1>2, Zenon
<1>4. QED
  BY <1>3, Zenon DEF digits

(* A byte in front of a sequence                                            *)
LEMMA Join ==
  ASSUME NEW S, NEW a \in S, NEW s \in Seq(S)
  PROVE  /\ <<a>> \o s \in Seq(S) /\ Len(<<a>> \o s) = Len(s) + 1
         /\ (<<a>> \o s)[1] = a
         /\ \A i \in 1 .. Len(s) : (<<a>> \o s)[i + 1] = s[i]
<1>1. <<a>> \in Seq(S) /\ Len(<<a>>) = 1 /\ <<a>>[1] = a /\ Len(s) \in Nat
  OBVIOUS
<1>2. /\ <<a>> \o s \in Seq(S) /\ Len(<<a>> \o s) = 1 + Len(s)
      /\ \A i \in 1 .. 1 + Len(s) : (<<a>> \o s)[i] = IF i <= 1 THEN <<a>>[i] ELSE s[i - 1]
  BY <1>1, ConcatProperties
<1>3. ASSUME NEW i \in 1 .. Len(s) PROVE (<<a>> \o s)[i + 1] = s[i]
  <2>1. i + 1 \in 1 .. 1 + Len(s) /\ ~(i + 1 <= 1) /\ (i + 1) - 1 = i
    BY <1>1
  <2>2. QED
    BY <1>2, <2>1
<1>4. (<<a>> \o s)[1] = a
  BY <1>1, <1>2
<1>5. QED
  BY <1>1, <1>2, <1>3, <1>4

(* One round: the low seven bits, then the rest                             *)
LEMMA Round ==
  ASSUME NEW len \in Lengths
  PROVE  \E q \in Lengths, r \in 0 .. 127 :
           /\ len = 128 * q + r /\ q <= 255
           /\ digits[len] = IF len < 128 THEN <<len>> ELSE <<128 + r>> \o digits[q]
<1> DEFINE q == len \div 128
<1> DEFINE r == len % 128
<1>1. digits[len] = IF len < 128 THEN <<len>> ELSE <<128 + r>> \o digits[q]
  BY DigitsEquation, Zenon
<1>2. len = 128 * q + r /\ r \in 0 .. 127 /\ q \in 0 .. 255 /\ q \in Lengths
  BY Septets
<1> HIDE DEF q, r
<1>3. q <= 255
  BY <1>2
<1>4. QED
  BY <1>1, <1>2, <1>3, Zenon

(* Sequences of one, two and three bytes                                    *)
LEMMA OneByte ==
  ASSUME NEW S, NEW a \in S
  PROVE  <<a>> \in Seq(S) /\ Len(<<a>>) = 1 /\ <<a>>[1] = a
OBVIOUS

LEMMA TwoBytes ==
  ASSUME NEW S, NEW a \in S, NEW b \in S
  PROVE  LET f == <<a>> \o <<b>>
         IN f \in Seq(S) /\ Len(f) = 2 /\ f[1] = a /\ f[2] = b
<1> DEFINE s == <<b>>
<1> DEFINE f == <<a>> \o s
<1>1. s \in Seq(S) /\ Len(s) = 1 /\ s[1] = b
  OBVIOUS
<1> HIDE DEF s
<1>2. \A t \in Seq(S) :
        /\ <<a>> \o t \in Seq(S) /\ Len(<<a>> \o t) = Len(t) + 1 /\ (<<a>> \o t)[1] = a
        /\ \A i \in 1 .. Len(t) : (<<a>> \o t)[i + 1] = t[i]
  BY Join
<1>3. /\ f \in Seq(S) /\ Len(f) = Len(s) + 1 /\ f[1] = a
      /\ \A i \in 1 .. Len(s) : f[i + 1] = s[i]
  BY <1>2, <1>1, Zenon
<1> HIDE DEF f
<1>4. Len(f) = 2 /\ f[1 + 1] = s[1]
  BY <1>1, <1>3
<1>5. f \in Seq(S) /\ Len(f) = 2 /\ f[1] = a /\ f[2] = b
  BY <1>1, <1>3, <1>4
<1>6. QED
  BY <1>5 DEF f, s

LEMMA ThreeBytes ==
  ASSUME NEW S, NEW a \in S, NEW b \in S, NEW c \in S
  PROVE  LET f == <<a>> \o (<<b>> \o <<c>>)
         IN f \in Seq(S) /\ Len(f) = 3 /\ f[1] = a /\ f[2] = b /\ f[3] = c
<1> DEFINE s == <<b>> \o <<c>>
<1> DEFINE f == <<a>> \o s
<1>1. s \in Seq(S) /\ Len(s) = 2 /\ s[1] = b /\ s[2] = c
  BY TwoBytes
<1> HIDE DEF s
<1>2. \A t \in Seq(S) :
        /\ <<a>> \o t \in Seq(S) /\ Len(<<a>> \o t) = Len(t) + 1 /\ (<<a>> \o t)[1] = a
        /\ \A i \in 1 .. Len(t) : (<<a>> \o t)[i + 1] = t[i]
  BY Join
<1>3. /\ f \in Seq(S) /\ Len(f) = Len(s) + 1 /\ f[1] = a
      /\ \A i \in 1 .. Len(s) : f[i + 1] = s[i]
  BY <1>2, <1>1, Zenon
<1> HIDE DEF f
<1>4. Len(f) = 3 /\ f[1 + 1] = s[1] /\ f[2 + 1] = s[2]
  BY <1>1, <1>3
<1>5. f \in Seq(S) /\ Len(f) = 3 /\ f[1] = a /\ f[2] = b /\ f[3] = c
  BY <1>1, <1>3, <1>4
<1>6. QED
  BY <1>5 DEF f, s

(* What umqtt_encode_length writes: one, two or three bytes                 *)
InOne(e, len) == len < 128 /\ Len(e) = 1 /\ e[1] = len
InTwo(e, len, q, r) == len = 128 * q + r /\ Len(e) = 2 /\ e[1] = 128 + r /\ e[2] = q
InThree(e, len, p, s, r) ==
  /\ len = 128 * (128 * p + s) + r /\ Len(e) = 3
  /\ e[1] = 128 + r /\ e[2] = 128 + s /\ e[3] = p
Encodes(e, len) ==
  \/ InOne(e, len)
  \/ \E q \in 1 .. 127, r \in 0 .. 127 : InTwo(e, len, q, r)
  \/ \E p \in 1 .. 127, s \in 0 .. 127, r \in 0 .. 127 : InThree(e, len, p, s, r)

(* umqtt_encode_length writes one of these.                                 *)
LEMMA Encoding ==
  ASSUME NEW len \in Lengths
  PROVE  /\ umqtt_encode_length(len) \in Seq(0 .. 255)
         /\ Encodes(umqtt_encode_length(len), len)
<1> DEFINE B == 0 .. 255
<1> DEFINE e == digits[len]
<1>1. len \in Int /\ 0 <= len
  BY DEF Lengths
<1>2. PICK q \in Lengths, r \in 0 .. 127 :
        /\ len = 128 * q + r /\ q <= 255
        /\ e = IF len < 128 THEN <<len>> ELSE <<128 + r>> \o digits[q]
  BY Round, Zenon
<1>3. PICK p \in Lengths, s \in 0 .. 127 :
        /\ q = 128 * p + s /\ p <= 255
        /\ digits[q] = IF q < 128 THEN <<q>> ELSE <<128 + s>> \o digits[p]
  BY Round, Zenon
<1>4. q \in Int /\ 0 <= q /\ p \in Int /\ 0 <= p /\ r \in Int /\ s \in Int
  BY DEF Lengths
<1>5. p <= 1
  <2>1. q = 128 * p + s /\ 0 <= s /\ q <= 255
    BY <1>2, <1>3
  <2>2. QED
    BY <1>4, <2>1
<1>6. digits[p] = <<p>>
  <2>1. PICK a \in Lengths, b \in 0 .. 127 :
          /\ p = 128 * a + b /\ a <= 255
          /\ digits[p] = IF p < 128 THEN <<p>> ELSE <<128 + b>> \o digits[a]
    BY Round, Zenon
  <2>2. p < 128
    BY <1>4, <1>5
  <2>3. QED
    BY <2>1, <2>2
<1>7. 128 + r \in B /\ 128 + s \in B
  OBVIOUS
<1> HIDE DEF e, B
<1>8. CASE len < 128
  <2>1. e = <<len>>
    BY <1>2, <1>8
  <2>2. len \in B
    BY <1>1, <1>8 DEF B
  <2>3. e \in Seq(B) /\ Len(e) = 1 /\ e[1] = len
    BY <2>1, <2>2, OneByte
  <2>4. QED
    BY <1>8, <2>3, Zenon DEF umqtt_encode_length, Encodes, InOne, B, e
<1>9. CASE ~(len < 128) /\ q < 128
  <2>1. e = <<128 + r>> \o <<q>>
    BY <1>2, <1>3, <1>9
  <2>2. q \in 1 .. 127
    <3>1. len = 128 * q + r /\ r <= 127
      BY <1>2
    <3>2. QED
      BY <1>1, <1>4, <1>9, <3>1
  <2>3. q \in B
    BY <2>2 DEF B
  <2>4. e \in Seq(B) /\ Len(e) = 2 /\ e[1] = 128 + r /\ e[2] = q
    BY <1>7, <2>1, <2>3, TwoBytes
  <2>5. Encodes(e, len)
    BY <1>2, <2>2, <2>4, Zenon DEF Encodes, InTwo
  <2>6. QED
    BY <2>4, <2>5 DEF umqtt_encode_length, B, e
<1>10. CASE ~(len < 128) /\ ~(q < 128)
  <2>1. e = <<128 + r>> \o (<<128 + s>> \o <<p>>)
    BY <1>2, <1>3, <1>6, <1>10
  <2>2. p \in 1 .. 127
    <3>1. q = 128 * p + s /\ s <= 127
      BY <1>3
    <3>2. QED
      BY <1>4, <1>5, <1>10, <3>1
  <2>3. p \in B
    BY <2>2 DEF B
  <2>4. e \in Seq(B) /\ Len(e) = 3 /\ e[1] = 128 + r /\ e[2] = 128 + s /\ e[3] = p
    BY <1>7, <2>1, <2>3, ThreeBytes
  <2>5. len = 128 * (128 * p + s) + r
    <3>1. len = 128 * q + r /\ q = 128 * p + s
      BY <1>2, <1>3
    <3>2. QED
      BY <1>4, <3>1
  <2>6. Encodes(e, len)
    <3>1. InThree(e, len, p, s, r)
      BY <2>4, <2>5 DEF InThree
    <3>2. QED
      BY <2>2, <3>1, Zenon DEF Encodes
  <2>7. QED
    BY <2>4, <2>6 DEF umqtt_encode_length, B, e
<1>11. QED
  BY <1>8, <1>9, <1>10

(* umqtt_decode_length stops at the first byte below 128.                   *)
LEMMA LastOf ==
  ASSUME NEW buf, DOMAIN buf \subseteq Nat \ {0}, \A j \in DOMAIN buf : buf[j] \in Int,
         NEW n \in DOMAIN buf, buf[n] < 128, n <= 3,
         \A j \in 1 .. n - 1 : j \in DOMAIN buf /\ buf[j] >= 128
  PROVE  LastByte(buf) = n
<1> DEFINE P(i) == (buf[i] < 128 \/ i = 4) /\ \A j \in 1 .. i - 1 : buf[j] >= 128
<1>1. n \in DOMAIN buf /\ P(n)
  OBVIOUS
<1>2. ASSUME NEW i \in DOMAIN buf, P(i) PROVE i = n
  <2>1. i \in Nat /\ n \in Nat /\ 1 <= i /\ 1 <= n /\ buf[i] \in Int /\ buf[n] \in Int
    OBVIOUS
  <2>2. ~(i < n)
    <3>1. i < n => i \in 1 .. n - 1
      BY <2>1
    <3>2. QED
      BY <1>2, <2>1, <3>1
  <2>3. ~(n < i)
    <3>1. n < i => n \in 1 .. i - 1
      BY <2>1
    <3>2. QED
      BY <1>2, <2>1, <3>1
  <2>4. QED
    BY <2>1, <2>2, <2>3
<1>3. LastByte(buf) = CHOOSE i \in DOMAIN buf : P(i)
  BY DEF LastByte
<1> HIDE DEF P
<1>4. (CHOOSE i \in DOMAIN buf : P(i)) \in DOMAIN buf /\ P(CHOOSE i \in DOMAIN buf : P(i))
  BY <1>1
<1>5. QED
  BY <1>2, <1>3, <1>4

(* The mark of a byte does not count.                                       *)
LEMMA Septet == \A r \in 0 .. 127 : (128 + r) % 128 = r /\ r % 128 = r
<1> SUFFICES ASSUME NEW r \in 0 .. 127 PROVE (128 + r) % 128 = r /\ r % 128 = r
  OBVIOUS
<1> QED
  OBVIOUS

(* It decodes what starts with an encoding.                                 *)
LEMMA Decoding ==
  ASSUME NEW len \in Lengths, NEW buf, DOMAIN buf \subseteq Nat \ {0},
         \A j \in DOMAIN buf : buf[j] \in Int,
         \A j \in 1 .. Len(umqtt_encode_length(len)) :
           j \in DOMAIN buf /\ buf[j] = umqtt_encode_length(len)[j]
  PROVE  /\ LastByte(buf) = Len(umqtt_encode_length(len))
         /\ umqtt_decode_length(buf) = len
<1> DEFINE val[i \in 0 .. 4] ==
      IF i = 0 THEN 0 ELSE int(val[i - 1] + int((buf[i] % 128) * mul[i]))
<1>1. umqtt_decode_length(buf) = val[LastByte(buf)]
  BY DEF umqtt_decode_length
<1>2. \A i \in 0 .. 4 :
        val[i] = IF i = 0 THEN 0 ELSE int(val[i - 1] + int((buf[i] % 128) * mul[i]))
  <2> DEFINE F(f) == [i \in 0 .. 4 |->
        IF i = 0 THEN 0 ELSE int(f[i - 1] + int((buf[i] % 128) * mul[i]))]
  <2> DEFINE v0 == 0
  <2> DEFINE v1 == int(v0 + int((buf[1] % 128) * mul[1]))
  <2> DEFINE v2 == int(v1 + int((buf[2] % 128) * mul[2]))
  <2> DEFINE v3 == int(v2 + int((buf[3] % 128) * mul[3]))
  <2> DEFINE v4 == int(v3 + int((buf[4] % 128) * mul[4]))
  <2> DEFINE w == [i \in 0 .. 4 |-> IF i = 0 THEN v0 ELSE IF i = 1 THEN v1
                                    ELSE IF i = 2 THEN v2 ELSE IF i = 3 THEN v3 ELSE v4]
  <2>1. w[0] = v0 /\ w[1] = v1 /\ w[2] = v2 /\ w[3] = v3 /\ w[4] = v4
    <3> HIDE DEF v0, v1, v2, v3, v4
    <3>1. QED
      OBVIOUS
  <2>2. w = [i \in 0 .. 4 |-> w[i]]
    OBVIOUS
  <2>3. /\ w[1] = int(w[0] + int((buf[1] % 128) * mul[1]))
        /\ w[2] = int(w[1] + int((buf[2] % 128) * mul[2]))
        /\ w[3] = int(w[2] + int((buf[3] % 128) * mul[3]))
        /\ w[4] = int(w[3] + int((buf[4] % 128) * mul[4]))
        /\ w[0] = 0
    <3> HIDE DEF w
    <3>1. QED
      BY <2>1
  <2> HIDE DEF w, v0, v1, v2, v3, v4
  <2>4. ASSUME NEW i \in 0 .. 4
        PROVE  w[i] = IF i = 0 THEN 0 ELSE int(w[i - 1] + int((buf[i] % 128) * mul[i]))
    <3>1. i = 0 \/ i = 1 \/ i = 2 \/ i = 3 \/ i = 4
      OBVIOUS
    <3>2. 1 - 1 = 0 /\ 2 - 1 = 1 /\ 3 - 1 = 2 /\ 4 - 1 = 3
      OBVIOUS
    <3>3. QED
      BY <2>3, <3>1, <3>2
  <2>5. w = F(w)
    BY <2>2, <2>4
  <2>6. val = F(val)
    BY <2>5
  <2>7. QED
    BY <2>6, Zenon
<1> HIDE DEF val
<1> DEFINE e == umqtt_encode_length(len)
<1> DEFINE one(i) == int((buf[i] % 128) * mul[i])
<1>3. val[0] = 0 /\ val[1] = int(0 + one(1))
  BY <1>2
<1>4. val[2] = int(val[1] + one(2)) /\ val[3] = int(val[2] + one(3))
  <2>1. val[2] = int(val[2 - 1] + one(2)) /\ val[3] = int(val[3 - 1] + one(3))
    BY <1>2
  <2>2. QED
    BY <2>1
<1>5. e \in Seq(0 .. 255) /\ Encodes(e, len)
  BY Encoding
<1>6. \A j \in 1 .. Len(e) : j \in DOMAIN buf /\ buf[j] = e[j]
  OBVIOUS
<1>7. len \in Int /\ 0 <= len /\ len < 32768
  BY DEF Lengths
<1> HIDE DEF one, e
<1>8. ASSUME NEW n \in 1 .. 3,
             Len(e) = n /\ e[n] < 128 /\ (\A j \in 1 .. n - 1 : e[j] >= 128) /\ val[n] = len
      PROVE  LastByte(buf) = Len(e) /\ umqtt_decode_length(buf) = len
  <2>1. n \in DOMAIN buf /\ buf[n] < 128
    BY <1>6, <1>8
  <2>2. \A j \in 1 .. n - 1 : j \in 1 .. n
    OBVIOUS
  <2>3. \A j \in 1 .. n - 1 : j \in DOMAIN buf /\ buf[j] >= 128
    BY <1>6, <1>8, <2>2
  <2>4. LastByte(buf) = n
    BY <2>1, <2>3, LastOf
  <2>5. QED
    BY <1>1, <1>8, <2>4
<1>9. CASE InOne(e, len)
  <2>1. Len(e) = 1 /\ e[1] = len /\ len \in 0 .. 127
    BY <1>7, <1>9 DEF InOne
  <2>2. buf[1] = len
    BY <1>6, <2>1
  <2>3. one(1) = int(len * 1)
    BY <2>1, <2>2, Septet, Weights DEF one
  <2>4. one(1) = len
    BY <1>7, <2>3, IntSmall
  <2>5. val[1] = len
    BY <1>3, <1>7, <2>4, IntSmall
  <2>6. Len(e) = 1 /\ e[1] < 128 /\ (\A j \in 1 .. 1 - 1 : e[j] >= 128) /\ val[1] = len
    BY <2>1, <2>5
  <2>7. QED
    BY <1>8, <2>6 DEF e
<1>10. CASE \E q \in 1 .. 127, r \in 0 .. 127 : InTwo(e, len, q, r)
  <2>1. PICK q \in 1 .. 127, r \in 0 .. 127 : InTwo(e, len, q, r)
    BY <1>10, Zenon
  <2>2. len = 128 * q + r /\ Len(e) = 2 /\ e[1] = 128 + r /\ e[2] = q
    BY <2>1 DEF InTwo
  <2>3. buf[1] = 128 + r /\ buf[2] = q
    BY <1>6, <2>2
  <2>4. one(1) = int(r * 1) /\ one(2) = int(q * 128)
    <3>1. (128 + r) % 128 = r /\ q % 128 = q
      BY Septet
    <3>2. buf[1] % 128 = r /\ buf[2] % 128 = q
      BY <2>3, <3>1
    <3>3. QED
      BY <3>2, Weights DEF one
  <2>5. one(1) = r
    BY <2>4, IntSmall
  <2>6. one(2) = q * 128
    BY <2>4, IntSmall
  <2>7. val[1] = r
    BY <1>3, <2>5, IntSmall
  <2>8. val[2] = int(r + q * 128)
    BY <1>4, <2>6, <2>7
  <2>9. val[2] = len
    BY <1>7, <2>2, <2>8, IntSmall
  <2>10. e[2] < 128 /\ e[1] >= 128 /\ \A j \in 1 .. 2 - 1 : j = 1
    BY <2>2
  <2>11. Len(e) = 2 /\ e[2] < 128 /\ (\A j \in 1 .. 2 - 1 : e[j] >= 128) /\ val[2] = len
    BY <2>2, <2>9, <2>10
  <2>12. QED
    BY <1>8, <2>11 DEF e
<1>11. CASE \E p \in 1 .. 127, s \in 0 .. 127, r \in 0 .. 127 : InThree(e, len, p, s, r)
  <2>1. PICK p \in 1 .. 127, s \in 0 .. 127, r \in 0 .. 127 : InThree(e, len, p, s, r)
    BY <1>11, Zenon
  <2>2. /\ len = 128 * (128 * p + s) + r /\ Len(e) = 3
        /\ e[1] = 128 + r /\ e[2] = 128 + s /\ e[3] = p
    BY <2>1 DEF InThree
  <2>3. buf[1] = 128 + r /\ buf[2] = 128 + s /\ buf[3] = p
    BY <1>6, <2>2
  <2>4. one(1) = int(r * 1) /\ one(2) = int(s * 128) /\ one(3) = int(p * 16384)
    <3>1. (128 + r) % 128 = r /\ (128 + s) % 128 = s /\ p % 128 = p
      BY Septet
    <3>2. buf[1] % 128 = r /\ buf[2] % 128 = s /\ buf[3] % 128 = p
      BY <2>3, <3>1
    <3>3. QED
      BY <3>2, Weights DEF one
  <2>5. one(1) = r
    BY <2>4, IntSmall
  <2>6. one(2) = s * 128
    BY <2>4, IntSmall
  <2>7. one(3) = p * 16384
    <3>1. p * 16384 <= len
      BY <1>7, <2>2
    <3>2. QED
      BY <1>7, <2>4, <3>1, IntSmall
  <2>8. val[1] = r
    BY <1>3, <2>5, IntSmall
  <2>9. val[2] = r + s * 128
    BY <1>4, <2>6, <2>8, IntSmall
  <2>10. val[3] = int((r + s * 128) + p * 16384)
    BY <1>4, <2>7, <2>9
  <2>11. (r + s * 128) + p * 16384 = len
    BY <1>7, <2>2
  <2>12. val[3] = len
    BY <1>7, <2>10, <2>11, IntSmall
  <2>13. /\ e[3] < 128 /\ e[2] >= 128 /\ e[1] >= 128
         /\ \A j \in 1 .. 3 - 1 : j = 1 \/ j = 2
    BY <2>2
  <2>14. Len(e) = 3 /\ e[3] < 128 /\ (\A j \in 1 .. 3 - 1 : e[j] >= 128) /\ val[3] = len
    BY <2>2, <2>12, <2>13
  <2>15. QED
    BY <1>8, <2>14 DEF e
<1>12. QED
  BY <1>5, <1>9, <1>10, <1>11, Zenon DEF Encodes, e

(* What umqtt_encode_length writes, umqtt_decode_length reads, for every    *)
(* length of an int, though the weights overflow in its 16 bits.            *)
THEOREM LengthSurvives ==
  \A len \in Lengths : umqtt_decode_length(umqtt_encode_length(len)) = len
<1> SUFFICES ASSUME NEW len \in Lengths
             PROVE  umqtt_decode_length(umqtt_encode_length(len)) = len
  OBVIOUS
<1> DEFINE e == umqtt_encode_length(len)
<1>1. e \in Seq(0 .. 255)
  BY Encoding
<1> HIDE DEF e
<1>2. DOMAIN e = 1 .. Len(e) /\ Len(e) \in Nat
  BY <1>1
<1>3. DOMAIN e \subseteq Nat \ {0}
  BY <1>2
<1>4. ASSUME NEW j \in DOMAIN e PROVE e[j] \in Int
  <2>1. e[j] \in 0 .. 255
    BY <1>1, <1>2, ElementOfSeq
  <2>2. QED
    BY <2>1
<1>5. \A j \in 1 .. Len(e) : j \in DOMAIN e /\ e[j] = e[j]
  BY <1>2
<1>6. umqtt_decode_length(e) = len
  BY <1>3, <1>4, <1>5, Decoding DEF e
<1>7. QED
  BY <1>6 DEF e

-----------------------------------------------------------------------------
(* A byte on the wire or in the ring                                        *)
WireBytes == [val : 0 .. 255, first : BOOLEAN]
lengthOf(n) == Len(umqtt_encode_length(n))

(* A whole packet of header h and remaining length n stands at i of w.      *)
Encoded(w, i, n) == \A j \in 1 .. lengthOf(n) : w[i + j].val = umqtt_encode_length(n)[j]
Follow(w, i, k) == i + k <= Len(w) /\ \A j \in 1 .. k : ~w[i + j].first
Whole(w, i, h, n) == w[i].val = h /\ Encoded(w, i, n) /\ Follow(w, i, lengthOf(n) + n)

PacketAt(w, i) ==
  \/ Whole(w, i, CONNACK, 2) /\ i = 1 /\ Len(w) = 4
  \/ Whole(w, i, SUBACK, 3)
  \/ \E n \in Topics : Whole(w, i, PUBLISH, n)

(* The bytes of the broker are whole packets; a CONNACK is alone.           *)
Packets(w) ==
  /\ w # <<>> => w[1].first
  /\ \A i \in 1 .. Len(w) : w[i].first => PacketAt(w, i)

(* w starts with a CONNACK.                                                 *)
Greeting(w) == w # <<>> /\ w[1].val = CONNACK

(* An encoding has at most three bytes.                                     *)
LEMMA LengthOf ==
  ASSUME NEW n \in Lengths
  PROVE  /\ umqtt_encode_length(n) \in Seq(0 .. 255)
         /\ lengthOf(n) \in 1 .. 3 /\ n \in Nat
         /\ n < 128 => lengthOf(n) = 1
<1> DEFINE e == umqtt_encode_length(n)
<1>1. e \in Seq(0 .. 255) /\ Encodes(e, n)
  BY Encoding
<1>2. n \in Nat
  BY DEF Lengths
<1> HIDE DEF e
<1>3. CASE InOne(e, n)
  BY <1>1, <1>2, <1>3 DEF InOne, lengthOf, e
<1>4. CASE \E q \in 1 .. 127, r \in 0 .. 127 : InTwo(e, n, q, r)
  <2>1. PICK q \in 1 .. 127, r \in 0 .. 127 : InTwo(e, n, q, r)
    BY <1>4
  <2>2. Len(e) = 2 /\ n >= 128
    BY <2>1 DEF InTwo
  <2>3. QED
    BY <1>1, <1>2, <2>2 DEF lengthOf, e
<1>5. CASE \E p \in 1 .. 127, s \in 0 .. 127, r \in 0 .. 127 : InThree(e, n, p, s, r)
  <2>1. PICK p \in 1 .. 127, s \in 0 .. 127, r \in 0 .. 127 : InThree(e, n, p, s, r)
    BY <1>5, Zenon
  <2>2. Len(e) = 3 /\ n >= 128
    BY <2>1 DEF InThree
  <2>3. QED
    BY <1>1, <1>2, <2>2 DEF lengthOf, e
<1>6. QED
  BY <1>1, <1>3, <1>4, <1>5, Zenon DEF Encodes

(* What the broker puts on the wire                                         *)
IsPacket(p, h, n) ==
  /\ p \in Seq(WireBytes) /\ Len(p) = 1 + lengthOf(n) + n
  /\ p[1].first /\ \A j \in 2 .. 1 + lengthOf(n) + n : ~p[j].first
  /\ Whole(p, 1, h, n)

(* A packet of the broker is one.                                           *)
LEMMA PacketShape ==
  ASSUME NEW h \in 0 .. 255, NEW n \in Lengths, NEW b \in Seq(0 .. 255), Len(b) = n
  PROVE  /\ IsPacket(Packet(h, b), h, n)
         /\ \A k \in 1 .. n : Packet(h, b)[1 + lengthOf(n) + k].val = b[k]
<1> DEFINE V == 0 .. 255
<1> DEFINE e == umqtt_encode_length(n)
<1> DEFINE f == <<h>> \o e
<1> DEFINE values == f \o b
<1> DEFINE p == Packet(h, b)
<1>1. e \in Seq(V) /\ Len(e) = lengthOf(n) /\ lengthOf(n) \in 1 .. 3 /\ n \in Nat
  BY LengthOf DEF lengthOf
<1>2. p = [i \in DOMAIN values |-> [val |-> values[i], first |-> i = 1]]
  BY DEF Packet
<1>3. h \in V /\ b \in Seq(V)
  OBVIOUS
<1> HIDE DEF V, e, p
<1>4. \A t \in Seq(V) :
        /\ <<h>> \o t \in Seq(V) /\ Len(<<h>> \o t) = Len(t) + 1 /\ (<<h>> \o t)[1] = h
        /\ \A i \in 1 .. Len(t) : (<<h>> \o t)[i + 1] = t[i]
  BY <1>3, Join
<1>5. /\ f \in Seq(V) /\ Len(f) = lengthOf(n) + 1 /\ f[1] = h
      /\ \A i \in 1 .. lengthOf(n) : f[i + 1] = e[i]
  BY <1>4, <1>1, Zenon
<1> HIDE DEF f
<1>6. /\ values \in Seq(V) /\ Len(values) = lengthOf(n) + 1 + n
      /\ \A i \in 1 .. lengthOf(n) + 1 + n :
           values[i] = IF i <= lengthOf(n) + 1 THEN f[i] ELSE b[i - (lengthOf(n) + 1)]
  <2>1. /\ values \in Seq(V) /\ Len(values) = Len(f) + Len(b)
        /\ \A i \in 1 .. Len(f) + Len(b) :
             values[i] = IF i <= Len(f) THEN f[i] ELSE b[i - Len(f)]
    BY <1>3, <1>5, ConcatProperties
  <2> HIDE DEF values
  <2>2. QED
    BY <1>5, <2>1
<1> HIDE DEF values
<1> DEFINE l == lengthOf(n) + 1 + n
<1>7. l \in Nat /\ DOMAIN values = 1 .. l /\ \A i \in 1 .. l : values[i] \in V
  BY <1>1, <1>6
<1>8. \A i \in 1 .. l : p[i].val = values[i] /\ (p[i].first <=> i = 1)
  <2> TAKE i \in 1 .. l
  <2>1. p[i] = [val |-> values[i], first |-> i = 1]
    BY <1>2, <1>7
  <2>2. p[i].val = values[i]
    BY <2>1
  <2> DEFINE isFirst == i = 1
  <2>3. p[i].first = isFirst
    BY <2>1
  <2>4. QED
    BY <2>2, <2>3, Zenon
<1>9. p \in Seq(WireBytes) /\ Len(p) = l
  <2>1. p = [i \in 1 .. l |-> [val |-> values[i], first |-> i = 1]]
    BY <1>2, <1>7
  <2>2. \A i \in 1 .. l : [val |-> values[i], first |-> i = 1] \in WireBytes
    BY <1>7 DEF WireBytes, V
  <2> HIDE DEF l
  <2>3. p \in [1 .. l -> WireBytes]
    BY <2>1, <2>2
  <2>4. QED
    BY <1>7, <2>3
<1>10. p[1].first /\ p[1].val = h
  <2>1. 1 \in 1 .. l /\ values[1] = h
    BY <1>1, <1>5, <1>6
  <2>2. QED
    BY <1>8, <2>1
<1>11. \A j \in 2 .. l : ~p[j].first
  BY <1>8
<1>12. \A j \in 1 .. lengthOf(n) : p[1 + j].val = e[j]
  <2> TAKE j \in 1 .. lengthOf(n)
  <2>1. j \in Nat /\ 1 + j \in 1 .. l /\ 1 + j <= lengthOf(n) + 1 /\ 1 + j = j + 1
    BY <1>1
  <2>2. values[1 + j] = f[1 + j]
    BY <1>6, <2>1
  <2>3. f[1 + j] = e[j]
    BY <1>5, <2>1
  <2>4. QED
    BY <1>8, <2>1, <2>2, <2>3
<1>13. \A k \in 1 .. n : p[1 + lengthOf(n) + k].val = b[k]
  <2> TAKE k \in 1 .. n
  <2> DEFINE i == 1 + lengthOf(n) + k
  <2>1. i \in 1 .. l /\ ~(i <= lengthOf(n) + 1) /\ i - (lengthOf(n) + 1) = k
    BY <1>1
  <2> HIDE DEF i, l
  <2>2. values[i] = b[k]
    BY <1>6, <2>1 DEF l
  <2>3. p[i].val = b[k]
    BY <1>8, <2>1, <2>2
  <2>4. QED
    BY <2>3 DEF i
<1>14. l = 1 + lengthOf(n) + n
  BY <1>1
<1>15. Follow(p, 1, lengthOf(n) + n)
  <2>1. 1 + (lengthOf(n) + n) <= Len(p)
    BY <1>1, <1>9
  <2>2. \A j \in 1 .. lengthOf(n) + n : 1 + j \in 2 .. l
    BY <1>1
  <2>3. QED
    BY <1>11, <2>1, <2>2 DEF Follow
<1> HIDE DEF l
<1>16. Whole(p, 1, h, n)
  BY <1>10, <1>12, <1>15 DEF Whole, Encoded, e
<1>17. IsPacket(p, h, n)
  BY <1>9, <1>10, <1>11, <1>14, <1>16 DEF IsPacket
<1>18. QED
  BY <1>13, <1>17 DEF p

(* A packet is where it was when bytes before or behind it come or go.      *)
LEMMA Moved ==
  ASSUME NEW w, NEW v, Len(w) \in Nat, Len(v) \in Nat, NEW d \in Int,
         NEW i \in 1 .. Len(w), Len(w) + d <= Len(v),
         \A j \in i .. Len(w) : v[j + d] = w[j],
         NEW h, NEW n \in Lengths, Whole(w, i, h, n)
  PROVE  Whole(v, i + d, h, n)
<1>1. lengthOf(n) \in Nat /\ n \in Nat
  BY LengthOf
<1> DEFINE k == lengthOf(n) + n
<1>2. k \in Nat /\ lengthOf(n) <= k /\ i + k <= Len(w)
  BY <1>1 DEF Whole, Follow
<1> HIDE DEF k
<1>3. \A j \in 0 .. k : v[(i + d) + j] = w[i + j]
  <2> TAKE j \in 0 .. k
  <2>1. i + j \in i .. Len(w) /\ (i + d) + j = (i + j) + d
    BY <1>2
  <2>2. QED
    BY <2>1
<1>4. v[i + d].val = h
  <2>1. v[(i + d) + 0] = w[i + 0] /\ (i + d) + 0 = i + d /\ i + 0 = i
    BY <1>2, <1>3
  <2>2. QED
    BY <2>1 DEF Whole
<1>5. Encoded(v, i + d, n)
  <2> SUFFICES ASSUME NEW j \in 1 .. lengthOf(n)
               PROVE  v[(i + d) + j].val = umqtt_encode_length(n)[j]
    BY DEF Encoded
  <2>1. j \in 0 .. k
    BY <1>1, <1>2
  <2>2. QED
    BY <1>3, <2>1, Zenon DEF Whole, Encoded
<1>6. Follow(v, i + d, lengthOf(n) + n)
  <2>1. (i + d) + k <= Len(v)
    BY <1>2
  <2>2. ASSUME NEW j \in 1 .. k PROVE ~v[(i + d) + j].first
    <3>1. j \in 0 .. k
      BY <1>2
    <3>2. ~w[i + j].first
      BY DEF Whole, Follow, k
    <3>3. QED
      BY <1>3, <3>1, <3>2
  <2>3. QED
    BY <2>1, <2>2 DEF Follow, k
<1>7. QED
  BY <1>4, <1>5, <1>6 DEF Whole

(* where the SUBACKs are                                                    *)
Subacks(w) == {i \in 1 .. Len(w) : w[i].first /\ w[i].val = SUBACK}

(* Lengths of packets are lengths.                                          *)
LEMMA TopicsAreLengths == \A n \in Topics : n \in Lengths /\ n \in Nat /\ n >= 3
  BY UmqttAssumption DEF Lengths

LEMMA SmallLengths == 2 \in Lengths /\ 3 \in Lengths /\ lengthOf(2) = 1 /\ lengthOf(3) = 1
<1>1. 2 \in Lengths /\ 3 \in Lengths
  BY DEF Lengths
<1>2. QED
  BY <1>1, LengthOf

LEMMA Headers == CONNACK = 32 /\ PUBLISH = 48 /\ SUBACK = 144
  BY DEF CONNACK, PUBLISH, SUBACK

(* What may follow w: a CONNACK is the first packet of a session.           *)
MayFollow(w, h, n) ==
  \/ h = CONNACK /\ n = 2 /\ w = <<>>
  \/ h = SUBACK /\ n = 3
  \/ h = PUBLISH /\ n \in Topics

(* The broker sends another packet.                                         *)
LEMMA Appended ==
  ASSUME NEW w \in Seq(WireBytes), Packets(w), ~Greeting(w),
         NEW h, NEW n \in Lengths, NEW p, IsPacket(p, h, n), MayFollow(w, h, n)
  PROVE  /\ w \o p \in Seq(WireBytes) /\ Packets(w \o p)
         /\ h # CONNACK => ~Greeting(w \o p)
         /\ h # SUBACK => Subacks(w \o p) = Subacks(w)
         /\ h = SUBACK => Subacks(w \o p) = Subacks(w) \cup {Len(w) + 1}
<1> DEFINE v == w \o p
<1> DEFINE l == Len(w)
<1> DEFINE m == Len(p)
<1>1. /\ p \in Seq(WireBytes) /\ m = 1 + lengthOf(n) + n /\ p[1].first
      /\ \A j \in 2 .. m : ~p[j].first
      /\ Whole(p, 1, h, n)
  BY DEF IsPacket
<1>2. /\ v \in Seq(WireBytes) /\ Len(v) = l + m
      /\ \A i \in 1 .. l + m : v[i] = IF i <= l THEN w[i] ELSE p[i - l]
  BY <1>1, ConcatProperties
<1>3. l \in Nat /\ m \in Nat /\ m >= 1
  BY <1>1, LengthOf
<1>4. Len(v) \in Nat /\ l <= Len(v)
  BY <1>2, <1>3
<1> HIDE DEF v
<1>5. \A i \in 1 .. l : i \in 1 .. l + m /\ v[i] = w[i]
  BY <1>2, <1>3
<1>6. \A j \in 1 .. m : j + l \in 1 .. l + m /\ v[j + l] = p[j]
  <2> TAKE j \in 1 .. m
  <2>1. j + l \in 1 .. l + m /\ ~(j + l <= l) /\ (j + l) - l = j
    BY <1>3
  <2>2. QED
    BY <1>2, <2>1
<1>7. p[1].val = h
  BY <1>1 DEF Whole
<1>8. ASSUME NEW i \in 1 .. l, w[i].first PROVE PacketAt(v, i)
  <2>1. ASSUME NEW g, NEW k \in Lengths, Whole(w, i, g, k) PROVE Whole(v, i, g, k)
    <3> DEFINE d == 0
    <3>1. \A j \in i .. l : j + d = j /\ j \in 1 .. l
      BY <1>3
    <3>2. l + d <= Len(v) /\ i + d = i /\ d \in Int
      BY <1>3, <1>4
    <3> HIDE DEF d
    <3>3. \A j \in i .. l : v[j + d] = w[j]
      BY <1>5, <3>1
    <3>4. Whole(v, i + d, g, k)
      BY <1>3, <1>4, <2>1, <3>2, <3>3, Moved, Zenon
    <3>5. QED
      BY <3>2, <3>4
  <2>2. PacketAt(w, i)
    BY <1>8 DEF Packets
  <2>3. ~(Whole(w, i, CONNACK, 2) /\ i = 1 /\ Len(w) = 4)
    <3>1. i = 1 => w # <<>>
      BY <1>3
    <3>2. QED
      BY <3>1 DEF Greeting, Whole
  <2>4. QED
    BY <2>1, <2>2, <2>3, SmallLengths, TopicsAreLengths DEF PacketAt
<1>9. PacketAt(v, l + 1) /\ v[l + 1].first /\ v[l + 1].val = h
  <2>1. Whole(v, 1 + l, h, n)
    <3>1. \A j \in 1 .. m : v[j + l] = p[j]
      BY <1>6
    <3>2. 1 \in 1 .. m /\ m + l <= Len(v) /\ l \in Int
      BY <1>2, <1>3
    <3>3. QED
      BY <1>1, <1>3, <1>4, <3>1, <3>2, Moved, Zenon
  <2>2. 1 + l = l + 1 /\ 1 \in 1 .. m
    BY <1>3
  <2>3. v[l + 1] = p[1]
    BY <1>6, <2>2
  <2>4. h = CONNACK /\ n = 2 /\ w = <<>> => l + 1 = 1 /\ Len(v) = 4
    BY <1>1, <1>2, <1>3, SmallLengths
  <2>5. PacketAt(v, l + 1)
    BY <2>1, <2>2, <2>4 DEF PacketAt, MayFollow
  <2>6. QED
    BY <1>1, <1>7, <2>3, <2>5
<1>10. ASSUME NEW i \in 1 .. Len(v), v[i].first, i > l PROVE i = l + 1
  <2>1. i - l \in 1 .. m /\ (i - l) + l = i
    BY <1>2, <1>3, <1>10
  <2>2. p[i - l].first
    BY <1>6, <1>10, <2>1
  <2>3. ~(i - l \in 2 .. m)
    BY <1>1, <2>2
  <2>4. QED
    BY <1>3, <2>1, <2>3
<1>11. Packets(v)
  <2>1. ASSUME NEW i \in 1 .. Len(v), v[i].first PROVE PacketAt(v, i)
    <3>1. CASE i <= l
      BY <1>3, <1>5, <1>8, <2>1, <3>1
    <3>2. CASE i > l
      BY <1>9, <1>10, <2>1, <3>2
    <3>3. QED
      BY <1>3, <3>1, <3>2
  <2>2. v[1].first
    <3>1. CASE l = 0
      BY <1>9, <3>1
    <3>2. CASE l # 0
      BY <1>3, <1>5, <3>2 DEF Packets
    <3>3. QED
      BY <3>1, <3>2
  <2>3. QED
    BY <2>1, <2>2 DEF Packets
<1>12. ASSUME h # CONNACK PROVE ~Greeting(v)
  <2>1. CASE l = 0
    BY <1>9, <1>12, <2>1 DEF Greeting
  <2>2. CASE l # 0
    <3>1. 1 \in 1 .. l /\ w # <<>>
      BY <1>3, <2>2
    <3>2. v[1] = w[1]
      BY <1>5, <3>1
    <3>3. QED
      BY <3>1, <3>2 DEF Greeting
  <2>3. QED
    BY <2>1, <2>2
<1>13. /\ h # SUBACK => Subacks(v) = Subacks(w)
       /\ h = SUBACK => Subacks(v) = Subacks(w) \cup {l + 1}
  <2>1. \A i \in 1 .. l : i \in Subacks(v) <=> i \in Subacks(w)
    BY <1>2, <1>5 DEF Subacks
  <2>2. l + 1 \in Subacks(v) <=> h = SUBACK
    <3>1. l + 1 \in 1 .. Len(v)
      BY <1>2, <1>3
    <3>2. QED
      BY <1>9, <3>1 DEF Subacks
  <2>3. \A i \in Subacks(v) : i \in 1 .. l \/ i = l + 1
    <3>1. \A i \in Subacks(v) : i \in 1 .. Len(v) /\ v[i].first
      BY DEF Subacks
    <3>2. \A i \in 1 .. Len(v) : i \in 1 .. l \/ i > l
      BY <1>3, <1>4
    <3>3. QED
      BY <1>10, <3>1, <3>2
  <2>4. \A i \in Subacks(w) : i \in 1 .. l
    BY DEF Subacks
  <2>5. QED
    BY <2>1, <2>2, <2>3, <2>4, Zenon
<1>14. QED
  BY <1>2, <1>11, <1>12, <1>13 DEF v

(* TCP delivers the first n bytes: whole packets.                           *)
LEMMA WholeFits ==
  ASSUME NEW w, Len(w) \in Nat, NEW n \in 1 .. Len(w), n < Len(w) => w[n + 1].first,
         NEW h, NEW k \in Lengths, Whole(w, 1, h, k)
  PROVE  1 + lengthOf(k) + k <= n
<1> DEFINE l == lengthOf(k) + k
<1>1. lengthOf(k) \in Nat /\ k \in Nat
  BY LengthOf
<1>2. l \in Nat /\ 1 + lengthOf(k) + k = 1 + l
  BY <1>1
<1>3. 1 + l <= Len(w) /\ \A j \in 1 .. l : ~w[1 + j].first
  BY DEF Whole, Follow
<1> HIDE DEF l
<1>4. ~(n < 1 + l)
  <2>1. ASSUME n < 1 + l PROVE FALSE
    <3>1. n \in 1 .. l /\ n < Len(w) /\ 1 + n = n + 1
      BY <1>2, <1>3, <2>1
    <3>2. QED
      BY <1>3, <3>1
  <2>2. QED
    BY <2>1
<1>5. QED
  BY <1>2, <1>4

(* A segment holds the whole of the packet it starts with.                  *)
LEMMA FirstPacket ==
  ASSUME NEW w \in Seq(WireBytes), Packets(w),
         NEW n \in 1 .. Len(w), n < Len(w) => w[n + 1].first
  PROVE  \/ Whole(w, 1, CONNACK, 2) /\ n = 4 /\ Len(w) = 4
         \/ Whole(w, 1, SUBACK, 3) /\ n >= 5
         \/ \E t \in Topics : Whole(w, 1, PUBLISH, t) /\ n >= 5
<1>1. Len(w) \in Nat /\ n \in Nat /\ n <= Len(w) /\ 1 \in 1 .. Len(w)
  OBVIOUS
<1>2. w # <<>>
  BY <1>1
<1>3. PacketAt(w, 1)
  BY <1>1, <1>2 DEF Packets
<1>4. ASSUME NEW h, NEW k \in Lengths, Whole(w, 1, h, k) PROVE 1 + lengthOf(k) + k <= n
  BY <1>1, <1>4, WholeFits
<1>5. CASE Whole(w, 1, CONNACK, 2) /\ Len(w) = 4
  <2>1. 1 + lengthOf(2) + 2 <= n
    BY <1>4, <1>5, SmallLengths
  <2>2. QED
    BY <1>1, <1>5, <2>1, SmallLengths
<1>6. CASE Whole(w, 1, SUBACK, 3)
  <2>1. 1 + lengthOf(3) + 3 <= n
    BY <1>4, <1>6, SmallLengths
  <2>2. QED
    BY <1>1, <1>6, <2>1, SmallLengths
<1>7. CASE \E t \in Topics : Whole(w, 1, PUBLISH, t)
  <2>1. PICK t \in Topics : Whole(w, 1, PUBLISH, t)
    BY <1>7
  <2>2. t \in Lengths /\ t \in Nat /\ t >= 3
    BY TopicsAreLengths
  <2>3. lengthOf(t) \in 1 .. 3
    BY <2>2, LengthOf
  <2>4. 1 + lengthOf(t) + t <= n
    BY <1>4, <2>1, <2>2
  <2>5. n >= 5
    BY <1>1, <2>2, <2>3, <2>4
  <2>6. QED
    BY <2>1, <2>5
<1>8. QED
  BY <1>3, <1>5, <1>6, <1>7 DEF PacketAt

(* What is left on the wire behind a segment                                *)
LEMMA Delivered ==
  ASSUME NEW w \in Seq(WireBytes), Packets(w),
         NEW n \in 1 .. Len(w), n < Len(w) => w[n + 1].first
  PROVE  LET v == SubSeq(w, n + 1, Len(w))
         IN /\ v \in Seq(WireBytes) /\ Packets(v) /\ ~Greeting(v)
            /\ n = Len(w) => v = <<>>
            /\ IsFiniteSet(Subacks(w)) /\ IsFiniteSet(Subacks(v))
            /\ Cardinality(Subacks(v)) + (IF w[1].val = SUBACK THEN 1 ELSE 0)
                  <= Cardinality(Subacks(w))
<1> DEFINE l == Len(w)
<1> DEFINE v == SubSeq(w, n + 1, l)
<1>1. l \in Nat /\ n \in Nat /\ n <= l /\ 1 <= n
  OBVIOUS
<1>2. /\ v \in Seq(WireBytes) /\ Len(v) = l - n
      /\ \A i \in 1 .. l - n : v[i] = w[n + i]
  <2>1. \A i \in n + 1 .. l : w[i] \in WireBytes
    BY <1>1
  <2>2. /\ v \in Seq(WireBytes) /\ Len(v) = IF n + 1 <= l THEN l - (n + 1) + 1 ELSE 0
        /\ \A i \in 1 .. l - (n + 1) + 1 : v[i] = w[(n + 1) + i - 1]
    BY <1>1, <2>1, SubSeqProperties
  <2> HIDE DEF v
  <2>3. l - (n + 1) + 1 = l - n /\ l \in Int /\ n \in Int /\ (~(n + 1 <= l) => l - n = 0)
    BY <1>1
  <2>4. ASSUME NEW i \in 1 .. l - n PROVE v[i] = w[n + i]
    <3>1. i \in Int
      BY <1>1
    <3> HIDE DEF l
    <3>2. (n + 1) + i - 1 = n + i
      BY <2>3, <3>1
    <3>3. v[i] = w[(n + 1) + i - 1]
      BY <2>2, <2>3
    <3>4. QED
      BY <3>2, <3>3
  <2>5. Len(v) = l - n
    BY <2>2, <2>3, Zenon
  <2>6. QED
    BY <2>2, <2>4, <2>5
<1>3. Len(v) \in Nat
  BY <1>1, <1>2
<1>4. ~(w = <<>>) /\ w[1].first
  BY <1>1 DEF Packets
<1>5. n = l => v = <<>>
  <2> HIDE DEF v
  <2>1. n = l => Len(v) = 0
    BY <1>1, <1>2
  <2>2. QED
    BY <1>2, <2>1
<1> HIDE DEF v
<1>6. ASSUME NEW i \in 1 .. Len(v), v[i].first
      PROVE  \/ Whole(v, i, SUBACK, 3)
             \/ \E t \in Topics : Whole(v, i, PUBLISH, t)
  <2> DEFINE k == n + i
  <2>1. k \in 2 .. l /\ k \in 1 .. l /\ k # 1 /\ v[i] = w[k]
    BY <1>1, <1>2
  <2>2. ASSUME NEW g, NEW t \in Lengths, Whole(w, k, g, t) PROVE Whole(v, i, g, t)
    <3> DEFINE d == -n
    <3>1. d \in Int /\ l + d <= Len(v) /\ k + d = i
      BY <1>1, <1>2
    <3>2. \A j \in k .. l : v[j + d] = w[j]
      <4> TAKE j \in k .. l
      <4>1. j + d \in 1 .. l - n /\ n + (j + d) = j
        BY <1>1
      <4> HIDE DEF d
      <4>2. QED
        BY <1>2, <4>1, Zenon
    <3> HIDE DEF d, k
    <3>3. Whole(v, k + d, g, t)
      BY <1>1, <1>3, <2>1, <2>2, <3>1, <3>2, Moved, Zenon
    <3>4. QED
      BY <3>1, <3>3
  <2>3. PacketAt(w, k)
    BY <1>6, <2>1 DEF Packets
  <2> HIDE DEF k
  <2>4. QED
    BY <2>1, <2>2, <2>3, SmallLengths, TopicsAreLengths DEF PacketAt
<1>7. Packets(v) /\ ~Greeting(v)
  <2>1. ASSUME v # <<>> PROVE 1 \in 1 .. Len(v) /\ v[1].first
    <3>1. Len(v) # 0
      BY <1>2, <2>1
    <3>2. n < l /\ 1 \in 1 .. l - n /\ 1 \in 1 .. Len(v)
      BY <1>1, <1>2, <3>1
    <3>3. v[1] = w[n + 1]
      BY <1>2, <3>2
    <3>4. QED
      BY <3>2, <3>3
  <2>2. Packets(v)
    BY <1>6, <2>1 DEF Packets, PacketAt
  <2>3. ASSUME v # <<>> PROVE v[1].val # CONNACK
    <3>1. v[1].val = SUBACK \/ v[1].val = PUBLISH
      BY <1>6, <2>1, <2>3 DEF Whole
    <3>2. QED
      BY <3>1, Headers
  <2>4. QED
    BY <2>2, <2>3 DEF Greeting
<1>8. IsFiniteSet(Subacks(w)) /\ IsFiniteSet(Subacks(v))
  <2>1. \A k \in Nat : IsFiniteSet(1 .. k)
    BY FS_Interval
  <2>2. Subacks(w) \in SUBSET (1 .. l) /\ Subacks(v) \in SUBSET (1 .. Len(v))
    BY DEF Subacks
  <2>3. QED
    BY <1>1, <1>3, <2>1, <2>2, FS_Subset
<1>9. Cardinality(Subacks(v)) <= Cardinality(Subacks(w) \ {1})
  <2> DEFINE S == Subacks(v)
  <2> DEFINE T == Subacks(w) \ {1}
  <2> DEFINE f == [i \in S |-> n + i]
  <2>1. IsFiniteSet(T)
    BY <1>8, FS_RemoveElement
  <2>2. ASSUME NEW i \in S PROVE i \in Int /\ n + i \in T
    <3>1. i \in 1 .. Len(v) /\ v[i].first /\ v[i].val = SUBACK
      BY DEF Subacks
    <3>2. n + i \in 1 .. l /\ n + i # 1 /\ v[i] = w[n + i] /\ i \in Int
      BY <1>1, <1>2, <3>1
    <3>3. QED
      BY <3>1, <3>2 DEF Subacks
  <2> HIDE DEF S, T
  <2>3. f \in [S -> T]
    BY <2>2
  <2>4. \A i, j \in S : f[i] = f[j] => i = j
    BY <1>1, <2>2
  <2>5. f \in Injection(S, T)
    <3> HIDE DEF f
    <3>1. QED
      BY <2>3, <2>4 DEF Injection, IsInjective
  <2>6. Cardinality(S) <= Cardinality(T)
    BY <2>1, <2>5, FS_Injection
  <2>7. QED
    BY <2>6 DEF S, T
<1>10. Cardinality(Subacks(w) \ {1}) + (IF w[1].val = SUBACK THEN 1 ELSE 0)
         <= Cardinality(Subacks(w))
  <2>1. Cardinality(Subacks(w)) \in Nat
    BY <1>8, FS_CardinalityType
  <2>2. 1 \in Subacks(w) <=> w[1].val = SUBACK
    <3>1. 1 \in 1 .. l
      BY <1>1
    <3>2. QED
      BY <1>4, <3>1 DEF Subacks
  <2>3. Cardinality(Subacks(w) \ {1}) = IF 1 \in Subacks(w) THEN Cardinality(Subacks(w)) - 1
                                        ELSE Cardinality(Subacks(w))
    BY <1>8, FS_RemoveElement, Zenon
  <2>4. QED
    BY <2>1, <2>2, <2>3
<1>11. Cardinality(Subacks(v)) + (IF w[1].val = SUBACK THEN 1 ELSE 0) <= Cardinality(Subacks(w))
  <2> DEFINE a == Cardinality(Subacks(v))
  <2> DEFINE b == Cardinality(Subacks(w) \ {1})
  <2> DEFINE c == Cardinality(Subacks(w))
  <2> DEFINE z == IF w[1].val = SUBACK THEN 1 ELSE 0
  <2>1. IsFiniteSet(Subacks(w) \ {1})
    BY <1>8, FS_RemoveElement
  <2>2. a \in Nat /\ b \in Nat /\ c \in Nat /\ z \in Int
    BY <1>8, <2>1, FS_CardinalityType
  <2>3. a <= b /\ b + z <= c
    BY <1>9, <1>10
  <2> HIDE DEF a, b, c, z
  <2>4. a + z <= c
    BY <2>2, <2>3
  <2>5. QED
    BY <2>4 DEF a, c, z
<1>12. QED
  BY <1>2, <1>5, <1>7, <1>8, <1>11 DEF v

(* The smaller of two                                                       *)
LEMMA MinOfTwo ==
  ASSUME NEW a \in Int, NEW b \in Int
  PROVE  Min({a, b}) = IF a <= b THEN a ELSE b
<1> DEFINE m == IF a <= b THEN a ELSE b
<1>1. m \in {a, b} /\ \A y \in {a, b} : m <= y
  OBVIOUS
<1>2. \A x \in {a, b} : (\A y \in {a, b} : x <= y) => x = m
  OBVIOUS
<1>3. Min({a, b}) = CHOOSE x \in {a, b} : \A y \in {a, b} : x <= y
  BY DEF Min
<1> HIDE DEF m
<1>4. Min({a, b}) = m
  BY <1>1, <1>2, <1>3
<1>5. QED
  BY <1>4 DEF m

(* What the ring holds: nothing, or the first bytes of one packet.          *)
Starts(r, h, n) == r[1].first /\ r[1].val = h /\ Encoded(r, 1, n)
OnePacket(r) ==
  r # <<>> =>
    \/ Starts(r, CONNACK, 2) /\ Len(r) = 4
    \/ Starts(r, SUBACK, 3) /\ Len(r) = RX_BUFF_SIZE
    \/ \E n \in Topics : Starts(r, PUBLISH, n) /\ Len(r) = RX_BUFF_SIZE

(* umqtt_circ_push: the ring takes of a segment what it has room for.       *)
LEMMA Pushed ==
  ASSUME NEW w \in Seq(WireBytes), NEW n \in 1 .. Len(w), rxbuff = <<>>, RX_BUFF_SIZE \in 4 .. 5
  PROVE  LET r == pushed(SubSeq(w, 1, n))
         IN /\ r \in Seq(WireBytes) /\ Len(r) = IF n <= RX_BUFF_SIZE THEN n ELSE RX_BUFF_SIZE
            /\ \A j \in 1 .. Len(r) : r[j] = w[j]
<1> DEFINE s == SubSeq(w, 1, n)
<1> DEFINE m == IF n <= RX_BUFF_SIZE THEN n ELSE RX_BUFF_SIZE
<1> DEFINE t == SubSeq(s, 1, m)
<1>1. Len(w) \in Nat /\ n \in Int /\ 1 <= n /\ n <= Len(w) /\ RX_BUFF_SIZE \in Int
  OBVIOUS
<1>2. s \in Seq(WireBytes) /\ Len(s) = n /\ \A i \in 1 .. n : s[i] = w[i]
  <2>1. \A i \in 1 .. n : w[i] \in WireBytes
    BY <1>1
  <2>2. /\ s \in Seq(WireBytes) /\ Len(s) = IF 1 <= n THEN n - 1 + 1 ELSE 0
        /\ \A i \in 1 .. n - 1 + 1 : s[i] = w[1 + i - 1]
    BY <1>1, <2>1, SubSeqProperties
  <2> HIDE DEF s
  <2>3. \A i \in 1 .. n : i \in 1 .. n - 1 + 1 /\ 1 + i - 1 = i
    BY <1>1
  <2>4. \A i \in 1 .. n : s[i] = w[i]
    BY <2>2, <2>3
  <2>5. QED
    BY <1>1, <2>2, <2>4
<1> HIDE DEF s
<1>3. m \in Int /\ 1 <= m /\ m <= n
  BY <1>1
<1>4. Min({Len(s), RX_BUFF_SIZE - Len(rxbuff)}) = m
  <2>1. Len(s) = n /\ RX_BUFF_SIZE - Len(rxbuff) = RX_BUFF_SIZE
    BY <1>1, <1>2
  <2>2. Min({n, RX_BUFF_SIZE}) = m
    BY <1>1, MinOfTwo
  <2>3. QED
    BY <2>1, <2>2
<1>5. /\ t \in Seq(WireBytes) /\ Len(t) = m /\ \A i \in 1 .. m : t[i] = s[i]
  <2> HIDE DEF m
  <2>1. \A i \in 1 .. m : s[i] \in WireBytes
    BY <1>1, <1>2, <1>3
  <2>2. /\ t \in Seq(WireBytes) /\ Len(t) = IF 1 <= m THEN m - 1 + 1 ELSE 0
        /\ \A i \in 1 .. m - 1 + 1 : t[i] = s[1 + i - 1]
    BY <1>3, <2>1, SubSeqProperties
  <2> HIDE DEF t
  <2>3. \A i \in 1 .. m : i \in 1 .. m - 1 + 1 /\ 1 + i - 1 = i
    BY <1>3
  <2>4. \A i \in 1 .. m : t[i] = s[i]
    BY <2>2, <2>3
  <2>5. QED
    BY <1>3, <2>2, <2>4
<1>6. pushed(s) = <<>> \o t
  BY <1>4, Zenon DEF pushed
<1> HIDE DEF t, m
<1>7. pushed(s) = t
  BY <1>5, <1>6, ConcatEmptySeq
<1>8. \A i \in 1 .. m : t[i] = w[i]
  BY <1>1, <1>2, <1>3, <1>5
<1>9. QED
  BY <1>5, <1>7, <1>8 DEF s, m

(* The ring holds the first bytes of the first packet of a segment.         *)
LEMMA Received ==
  ASSUME NEW w \in Seq(WireBytes), Packets(w),
         NEW n \in 1 .. Len(w), n < Len(w) => w[n + 1].first,
         rxbuff = <<>>, RX_BUFF_SIZE \in 4 .. 5
  PROVE  LET r == pushed(SubSeq(w, 1, n))
         IN /\ r \in Seq(WireBytes) /\ OnePacket(r) /\ r # <<>> /\ w # <<>>
            /\ r[1].val = w[1].val
            /\ Greeting(r) => n = Len(w) /\ r[4] = w[4]
<1> DEFINE r == pushed(SubSeq(w, 1, n))
<1>1. /\ r \in Seq(WireBytes) /\ Len(r) = IF n <= RX_BUFF_SIZE THEN n ELSE RX_BUFF_SIZE
      /\ \A j \in 1 .. Len(r) : r[j] = w[j]
  BY Pushed
<1> HIDE DEF r
<1>2. n \in Int /\ 1 <= n /\ Len(w) \in Nat /\ n <= Len(w) /\ RX_BUFF_SIZE \in 4 .. 5
  OBVIOUS
<1>3. 1 \in 1 .. Len(r) /\ r # <<>> /\ w # <<>>
  BY <1>1, <1>2
<1>4. r[1] = w[1] /\ w[1].first
  BY <1>1, <1>3 DEF Packets
<1>5. ASSUME NEW h, NEW k \in Lengths, Whole(w, 1, h, k), n >= 4 PROVE Starts(r, h, k)
  <2>1. \A j \in 1 .. lengthOf(k) : 1 + j \in 1 .. Len(r)
    <3>1. lengthOf(k) \in 1 .. 3 /\ Len(r) >= 4 /\ Len(r) \in Int
      BY <1>1, <1>2, <1>5, LengthOf
    <3>2. QED
      BY <3>1
  <2>2. Encoded(r, 1, k)
    BY <1>1, <1>5, <2>1 DEF Whole, Encoded
  <2>3. QED
    BY <1>4, <1>5, <2>2 DEF Starts, Whole
<1>6. OnePacket(r) /\ (Greeting(r) => n = Len(w) /\ r[4] = w[4])
  <2>1. CASE Whole(w, 1, CONNACK, 2) /\ n = 4 /\ Len(w) = 4
    <3>1. Len(r) = 4
      BY <1>1, <1>2, <2>1
    <3>2. Starts(r, CONNACK, 2)
      BY <1>2, <1>5, <2>1, SmallLengths
    <3>3. r[4] = w[4]
      BY <1>1, <3>1
    <3>4. QED
      BY <2>1, <3>1, <3>2, <3>3 DEF OnePacket
  <2>2. CASE Whole(w, 1, SUBACK, 3) /\ n >= 5
    <3>1. Len(r) = RX_BUFF_SIZE
      BY <1>1, <1>2, <2>2
    <3>2. n >= 4
      BY <1>2, <2>2
    <3>3. Starts(r, SUBACK, 3)
      BY <1>5, <2>2, <3>2, SmallLengths
    <3>4. ~Greeting(r)
      BY <3>3, Headers DEF Starts, Greeting
    <3>5. QED
      BY <3>1, <3>3, <3>4 DEF OnePacket
  <2>3. CASE \E t \in Topics : Whole(w, 1, PUBLISH, t) /\ n >= 5
    <3>1. PICK t \in Topics : Whole(w, 1, PUBLISH, t) /\ n >= 5
      BY <2>3
    <3>2. Len(r) = RX_BUFF_SIZE
      BY <1>1, <1>2, <3>1
    <3>3. n >= 4
      BY <1>2, <3>1
    <3>4. Starts(r, PUBLISH, t)
      BY <1>5, <3>1, <3>3, TopicsAreLengths
    <3>5. ~Greeting(r)
      BY <3>4, Headers DEF Starts, Greeting
    <3>6. QED
      BY <3>2, <3>4, <3>5 DEF OnePacket
  <2>4. QED
    BY <2>1, <2>2, <2>3, FirstPacket
<1>7. QED
  BY <1>1, <1>3, <1>4, <1>6 DEF r

(* The last byte of an encoding is the first below 128.                     *)
LEMMA Marks ==
  ASSUME NEW n \in Lengths
  PROVE  LET e == umqtt_encode_length(n)
         IN /\ e[lengthOf(n)] < 128
            /\ \A j \in 1 .. lengthOf(n) - 1 : e[j] >= 128
<1> DEFINE e == umqtt_encode_length(n)
<1>1. Encodes(e, n) /\ lengthOf(n) = Len(e)
  BY Encoding DEF lengthOf
<1> HIDE DEF e
<1>2. CASE InOne(e, n)
  <2>1. lengthOf(n) = 1 /\ e[1] < 128
    BY <1>1, <1>2 DEF InOne
  <2>2. QED
    BY <2>1 DEF e
<1>3. CASE \E q \in 1 .. 127, r \in 0 .. 127 : InTwo(e, n, q, r)
  <2>1. PICK q \in 1 .. 127, r \in 0 .. 127 : InTwo(e, n, q, r)
    BY <1>3
  <2>2. lengthOf(n) = 2 /\ e[2] < 128 /\ e[1] >= 128 /\ \A j \in 1 .. 2 - 1 : j = 1
    BY <1>1, <2>1 DEF InTwo
  <2>3. QED
    BY <2>2 DEF e
<1>4. CASE \E p \in 1 .. 127, s \in 0 .. 127, r \in 0 .. 127 : InThree(e, n, p, s, r)
  <2>1. PICK p \in 1 .. 127, s \in 0 .. 127, r \in 0 .. 127 : InThree(e, n, p, s, r)
    BY <1>4, Zenon
  <2>2. /\ lengthOf(n) = 3 /\ e[3] < 128 /\ e[2] >= 128 /\ e[1] >= 128
        /\ \A j \in 1 .. 3 - 1 : j = 1 \/ j = 2
    BY <1>1, <2>1 DEF InThree
  <2>3. QED
    BY <2>2 DEF e
<1>5. QED
  BY <1>1, <1>2, <1>3, <1>4, Zenon DEF Encodes

(* umqtt_process finds the length in what the ring holds.                   *)
LEMMA Decoded ==
  ASSUME rxbuff \in Seq(WireBytes), NEW n \in Lengths, Encoded(rxbuff, 1, n),
         1 + lengthOf(n) <= Len(rxbuff), NEW g \in 0 .. 255
  PROVE  lengthSize(g) = lengthOf(n) /\ umqtt_decode_length(lengthBytes(g)) = n
<1> DEFINE e == umqtt_encode_length(n)
<1> DEFINE k == lengthOf(n)
<1> DEFINE b == lengthBytes(g)
<1>1. k \in 1 .. 3 /\ Len(e) = k /\ Len(rxbuff) \in Nat /\ 1 + k <= Len(rxbuff)
  BY LengthOf DEF lengthOf
<1>2. DOMAIN b = 1 .. 4 /\ \A i \in 1 .. 4 : b[i] = byte(i + 1, g)
  BY DEF lengthBytes
<1>3. \A i \in 1 .. 4 : b[i] \in Int
  <2> TAKE i \in 1 .. 4
  <2>1. b[i] = IF i + 1 <= Len(rxbuff) THEN rxbuff[i + 1].val ELSE g
    BY <1>2 DEF byte
  <2>2. CASE i + 1 <= Len(rxbuff)
    <3>1. i + 1 \in 1 .. Len(rxbuff)
      BY <1>1, <2>2
    <3>2. rxbuff[i + 1] \in WireBytes
      BY <3>1
    <3>3. QED
      BY <2>1, <2>2, <3>2 DEF WireBytes
  <2>3. CASE ~(i + 1 <= Len(rxbuff))
    <3>1. b[i] = g
      BY <2>1, <2>3
    <3>2. g \in Int
      OBVIOUS
    <3>3. QED
      BY <3>1, <3>2
  <2>4. QED
    BY <2>2, <2>3
<1>4. \A j \in 1 .. k : j \in 1 .. 4 /\ b[j] = e[j]
  <2> TAKE j \in 1 .. k
  <2>1. j \in 1 .. 4 /\ j + 1 <= Len(rxbuff) /\ j + 1 = 1 + j
    BY <1>1
  <2>2. b[j] = rxbuff[j + 1].val
    BY <1>2, <2>1 DEF byte
  <2>3. rxbuff[1 + j].val = e[j]
    BY DEF Encoded
  <2>4. QED
    BY <2>1, <2>2, <2>3
<1>5. e[k] < 128 /\ \A j \in 1 .. k - 1 : e[j] >= 128
  BY Marks
<1> HIDE DEF e, k, b
<1>6. b[k] < 128 /\ \A j \in 1 .. k - 1 : b[j] >= 128
  <2>1. k \in 1 .. k /\ \A j \in 1 .. k - 1 : j \in 1 .. k
    BY <1>1
  <2>2. QED
    BY <1>4, <1>5, <2>1
<1>7. lengthSize(g) = k
  <2> DEFINE P(i) == (b[i] < 128 \/ i = 4) /\ \A j \in 1 .. i - 1 : b[j] >= 128
  <2>1. k \in 1 .. 4 /\ P(k)
    BY <1>1, <1>6
  <2>2. ASSUME NEW i \in 1 .. 4, P(i) PROVE i = k
    <3>1. k \in 1 .. 4
      BY <1>1
    <3>2. b[i] \in Int /\ b[k] \in Int
      BY <1>3, <3>1, Zenon
    <3>3. i \in Int /\ k \in Int
      BY <3>1
    <3>4. ~(i < k)
      <4>1. i < k => i \in 1 .. k - 1 /\ i # 4
        BY <1>1, <3>3
      <4>2. QED
        BY <1>6, <2>2, <3>2, <4>1
    <3>5. ~(k < i)
      <4>1. k < i => k \in 1 .. i - 1
        BY <1>1, <3>3
      <4>2. QED
        BY <1>6, <2>2, <3>2, <4>1
    <3>6. QED
      BY <3>3, <3>4, <3>5
  <2>3. lengthSize(g) = CHOOSE i \in 1 .. 4 : P(i)
    BY DEF lengthSize, b
  <2> HIDE DEF P
  <2>4. (CHOOSE i \in 1 .. 4 : P(i)) \in 1 .. 4 /\ P(CHOOSE i \in 1 .. 4 : P(i))
    BY <2>1
  <2>5. QED
    BY <2>2, <2>3, <2>4
<1>8. umqtt_decode_length(b) = n
  <2>1. 1 .. 4 \subseteq Nat \ {0}
    OBVIOUS
  <2>2. DOMAIN b \subseteq Nat \ {0} /\ \A j \in DOMAIN b : b[j] \in Int
    BY <1>2, <1>3, <2>1
  <2>3. \A j \in 1 .. Len(umqtt_encode_length(n)) :
          j \in DOMAIN b /\ b[j] = umqtt_encode_length(n)[j]
    BY <1>1, <1>2, <1>4 DEF e
  <2>4. QED
    BY <2>2, <2>3, Decoding
<1>9. QED
  BY <1>7, <1>8 DEF k, b

(* One round of umqtt_process takes all that is in the ring.                *)
LEMMA Emptied ==
  ASSUME rxbuff \in Seq(WireBytes), rxbuff # <<>>, OnePacket(rxbuff), RX_BUFF_SIZE \in 4 .. 5,
         NEW g \in 0 .. 255, NEW d
  PROVE  /\ rxbuff[1].val \in {CONNACK, PUBLISH, SUBACK}
         /\ poppedPacket(lengthSize(g), umqtt_decode_length(lengthBytes(g))) = <<>>
         /\ Greeting(rxbuff) =>
              second(lengthSize(g), umqtt_decode_length(lengthBytes(g)), d) = rxbuff[4].val
<1>1. ASSUME NEW k \in Lengths, Encoded(rxbuff, 1, k), k >= 2, Len(rxbuff) >= 4,
             Len(rxbuff) <= 2 + k
      PROVE  /\ poppedPacket(lengthSize(g), umqtt_decode_length(lengthBytes(g))) = <<>>
             /\ lengthSize(g) = lengthOf(k) /\ umqtt_decode_length(lengthBytes(g)) = k
  <2>1. lengthOf(k) \in 1 .. 3 /\ k \in Nat /\ Len(rxbuff) \in Nat
    BY LengthOf
  <2>2. lengthSize(g) = lengthOf(k) /\ umqtt_decode_length(lengthBytes(g)) = k
    <3>1. 1 + lengthOf(k) <= Len(rxbuff)
      BY <1>1, <2>1
    <3>2. QED
      BY <1>1, <3>1, Decoded, Zenon
  <2> DEFINE m == (1 + lengthOf(k) + k) + 1
  <2>3. m \in Int /\ Len(rxbuff) < m
    BY <1>1, <2>1
  <2>4. poppedPacket(lengthOf(k), k) = SubSeq(rxbuff, m, Len(rxbuff))
    <3>1. k > 0
      BY <1>1, <2>1
    <3>2. QED
      BY <3>1 DEF poppedPacket, popped
  <2> HIDE DEF m
  <2>5. SubSeq(rxbuff, m, Len(rxbuff)) = <<>>
    BY <2>1, <2>3, SubSeqEmpty
  <2>6. QED
    BY <2>2, <2>4, <2>5
<1>2. CASE Starts(rxbuff, CONNACK, 2) /\ Len(rxbuff) = 4
  <2>1. lengthSize(g) = 1 /\ umqtt_decode_length(lengthBytes(g)) = 2
    BY <1>1, <1>2, SmallLengths DEF Starts
  <2>2. second(lengthSize(g), umqtt_decode_length(lengthBytes(g)), d) = rxbuff[4].val
    BY <1>2, <2>1 DEF byte, second
  <2>3. poppedPacket(lengthSize(g), umqtt_decode_length(lengthBytes(g))) = <<>>
    BY <1>1, <1>2, SmallLengths DEF Starts
  <2>4. QED
    BY <1>2, <2>2, <2>3 DEF Starts
<1>3. CASE Starts(rxbuff, SUBACK, 3) /\ Len(rxbuff) = RX_BUFF_SIZE
  <2>1. Encoded(rxbuff, 1, 3) /\ Len(rxbuff) >= 4 /\ Len(rxbuff) <= 2 + 3
    BY <1>3 DEF Starts
  <2>2. poppedPacket(lengthSize(g), umqtt_decode_length(lengthBytes(g))) = <<>>
    BY <1>1, <2>1, SmallLengths
  <2>3. QED
    BY <1>3, <2>2, Headers DEF Starts, Greeting
<1>4. CASE \E k \in Topics : Starts(rxbuff, PUBLISH, k) /\ Len(rxbuff) = RX_BUFF_SIZE
  <2>1. PICK k \in Topics : Starts(rxbuff, PUBLISH, k) /\ Len(rxbuff) = RX_BUFF_SIZE
    BY <1>4
  <2>2. Encoded(rxbuff, 1, k) /\ Len(rxbuff) >= 4 /\ Len(rxbuff) <= 2 + k /\ k >= 2
    BY <2>1, TopicsAreLengths DEF Starts
  <2>3. poppedPacket(lengthSize(g), umqtt_decode_length(lengthBytes(g))) = <<>>
    BY <1>1, <2>2, TopicsAreLengths
  <2>4. QED
    BY <2>1, <2>3, Headers DEF Starts, Greeting
<1>5. QED
  BY <1>2, <1>3, <1>4 DEF OnePacket

-----------------------------------------------------------------------------
(* The invariant.  A CONNACK on the way or in the ring means that nothing   *)
(* was subscribed yet, so that no packet follows it; SUBACKs on the way and *)
(* in the ring are counted.                                                 *)
ClientTypeOK ==
  /\ wire \in Seq(WireBytes) /\ rxbuff \in Seq(WireBytes)
  /\ owed \in Nat /\ nack_subscribe \in Nat /\ subscribes \in Nat
  /\ pc \in {"idle", "process"}

InRing == OnePacket(rxbuff) /\ (pc = "idle" => rxbuff = <<>>)

Handshake ==
  /\ answer = "awaited" \/ Greeting(wire) \/ Greeting(rxbuff) =>
       state = "CONNECTING" /\ subscribes = 0
  /\ answer = "awaited" => wire = <<>> /\ rxbuff = <<>>
  /\ Greeting(rxbuff) => wire = <<>>
  /\ Greeting(wire) /\ wire[4].val = 0 => answer = "accepted"
  /\ Greeting(rxbuff) /\ rxbuff[4].val = 0 => answer = "accepted"
  /\ state = "CONNECTED" => answer = "accepted"

inRing(r) == IF r # <<>> /\ r[1].val = SUBACK THEN 1 ELSE 0
Counted ==
  /\ nack_subscribe >= (owed + Cardinality(Subacks(wire))) + inRing(rxbuff)
  /\ subscribes >= nack_subscribe

ClientInv == ClientTypeOK /\ Packets(wire) /\ InRing /\ Handshake /\ Counted

(* Out of step there is nothing to keep: the next CONNECT starts afresh.    *)
StepInv == cut \/ ClientInv

(* The terms of the count are numbers.                                      *)
LEMMA CountTypes ==
  ASSUME ClientTypeOK
  PROVE  IsFiniteSet(Subacks(wire)) /\ Cardinality(Subacks(wire)) \in Nat
         /\ inRing(rxbuff) \in Nat /\ Unacked = owed + Cardinality(Subacks(wire))
<1>1. Len(wire) \in Nat /\ DOMAIN wire = 1 .. Len(wire)
  BY DEF ClientTypeOK
<1>2. IsFiniteSet(1 .. Len(wire))
  BY <1>1, FS_Interval
<1>3. Subacks(wire) \in SUBSET (1 .. Len(wire))
  BY DEF Subacks
<1>4. IsFiniteSet(Subacks(wire))
  BY <1>2, <1>3, FS_Subset
<1>5. Unacked = owed + Cardinality(Subacks(wire))
  BY <1>1 DEF Unacked, Subacks
<1>6. inRing(rxbuff) \in Nat
  BY DEF inRing
<1>7. QED
  BY <1>4, <1>5, <1>6, FS_CardinalityType

(* Nothing sent, nothing received                                           *)
LEMMA NothingSent ==
  /\ <<>> \in Seq(WireBytes) /\ Packets(<<>>) /\ OnePacket(<<>>) /\ ~Greeting(<<>>)
  /\ Subacks(<<>>) = {} /\ Cardinality(Subacks(<<>>)) = 0 /\ inRing(<<>>) = 0
<1>1. <<>> \in Seq(WireBytes) /\ Len(<<>>) = 0 /\ 1 .. 0 = {}
  BY EmptySeq
<1>2. Subacks(<<>>) = {}
  BY <1>1 DEF Subacks
<1>3. Packets(<<>>) /\ OnePacket(<<>>) /\ ~Greeting(<<>>) /\ inRing(<<>>) = 0
  BY <1>1 DEF Packets, OnePacket, Greeting, inRing
<1>4. QED
  BY <1>1, <1>2, <1>3, FS_EmptySet

(* The invariant holds before the first connection, and after each action.  *)
LEMMA InitClient == Init => ClientInv
<1> SUFFICES ASSUME Init PROVE ClientInv
  OBVIOUS
<1>1. wire = <<>> /\ rxbuff = <<>> /\ answer = "none" /\ state = "INIT"
  BY DEF Init
<1>2. owed = 0 /\ nack_subscribe = 0 /\ subscribes = 0 /\ pc = "idle"
  BY DEF Init
<1>3. ClientTypeOK /\ Packets(wire) /\ InRing
  BY <1>1, <1>2, NothingSent DEF ClientTypeOK, InRing
<1>4. Handshake
  BY <1>1, NothingSent DEF Handshake
<1>5. Counted
  BY <1>1, <1>2, NothingSent DEF Counted
<1>6. QED
  BY <1>3, <1>4, <1>5 DEF ClientInv

LEMMA ConnectStep ==
  ASSUME umqtt_connect
  PROVE  ClientInv'
<1>1. /\ wire' = <<>> /\ rxbuff' = <<>> /\ answer' = "awaited" /\ state' = "CONNECTING"
      /\ pc' = "idle"
  BY DEF umqtt_connect
<1>2. owed' = 0 /\ nack_subscribe' = 0 /\ subscribes' = 0
  BY DEF umqtt_connect
<1>3. ClientTypeOK' /\ Packets(wire)' /\ InRing'
  BY <1>1, <1>2, NothingSent DEF ClientTypeOK, InRing
<1>4. Handshake'
  BY <1>1, <1>2, NothingSent DEF Handshake
<1>5. Counted'
  BY <1>1, <1>2, NothingSent DEF Counted
<1>6. QED
  BY <1>3, <1>4, <1>5 DEF ClientInv

LEMMA SubscribeStep ==
  ASSUME ClientInv, umqtt_subscribe
  PROVE  ClientInv'
<1>1. /\ wire' = wire /\ rxbuff' = rxbuff /\ answer' = answer /\ state' = state
      /\ pc' = pc /\ state = "CONNECTED"
  BY DEF umqtt_subscribe
<1>2. /\ owed' = owed + 1 /\ nack_subscribe' = nack_subscribe + 1
      /\ subscribes' = subscribes + 1
  BY DEF umqtt_subscribe
<1>3. ClientTypeOK' /\ Packets(wire)' /\ InRing'
  BY <1>1, <1>2 DEF ClientInv, ClientTypeOK, InRing
<1>4. Handshake'
  BY <1>1, <1>2 DEF ClientInv, Handshake
<1>5. Counted'
  <2>1. Cardinality(Subacks(wire)) \in Nat /\ inRing(rxbuff) \in Nat
    BY CountTypes DEF ClientInv
  <2>2. owed \in Nat /\ nack_subscribe \in Nat /\ subscribes \in Nat
    BY DEF ClientInv, ClientTypeOK
  <2>3. QED
    BY <1>1, <1>2, <2>1, <2>2 DEF ClientInv, Counted
<1>6. QED
  BY <1>3, <1>4, <1>5 DEF ClientInv

LEMMA ConnackStep ==
  ASSUME ClientInv, NEW rc \in {0, 5}, sendConnack(rc)
  PROVE  ClientInv'
<1> DEFINE p == Packet(CONNACK, <<0, rc>>)
<1>1. /\ rxbuff' = rxbuff /\ pc' = pc /\ state' = state /\ owed' = owed
      /\ nack_subscribe' = nack_subscribe /\ subscribes' = subscribes
      /\ answer = "awaited" /\ answer' = IF rc = 0 THEN "accepted" ELSE "refused"
      /\ wire' = wire \o p
  BY DEF sendConnack, bounds
<1>2. wire = <<>> /\ rxbuff = <<>> /\ state = "CONNECTING" /\ subscribes = 0
  BY <1>1 DEF ClientInv, Handshake
<1>3. /\ IsPacket(p, CONNACK, 2)
      /\ \A k \in 1 .. 2 : p[1 + lengthOf(2) + k].val = <<0, rc>>[k]
  <2> DEFINE b == <<0, rc>>
  <2>1. b \in Seq(0 .. 255) /\ Len(b) = 2
    OBVIOUS
  <2>2. CONNACK \in 0 .. 255
    BY Headers
  <2> HIDE DEF b
  <2>3. QED
    BY <2>1, <2>2, SmallLengths, PacketShape, Zenon DEF b
<1>4. p[4].val = rc /\ p[1].val = CONNACK
  <2>1. p[1 + lengthOf(2) + 2].val = <<0, rc>>[2]
    BY <1>3
  <2>2. QED
    BY <1>3, <2>1, SmallLengths DEF IsPacket, Whole
<1> HIDE DEF p
<1>5. wire' = p /\ p \in Seq(WireBytes)
  BY <1>1, <1>2, <1>3, ConcatEmptySeq DEF IsPacket
<1>6. Packets(wire') /\ Subacks(wire') = Subacks(wire)
  <2>1. MayFollow(<<>>, CONNACK, 2) /\ CONNACK # SUBACK
    BY Headers DEF MayFollow
  <2>2. Packets(<<>> \o p) /\ Subacks(<<>> \o p) = Subacks(<<>>)
    BY <1>3, <2>1, NothingSent, SmallLengths, Appended
  <2>3. QED
    BY <1>1, <1>2, <2>2
<1>7. ClientTypeOK' /\ Packets(wire)' /\ InRing'
  BY <1>1, <1>3, <1>5, <1>6 DEF ClientInv, ClientTypeOK, InRing
<1>8. Handshake'
  <2>1. ~Greeting(rxbuff') /\ (rc = 0 => answer' = "accepted") /\ answer' # "awaited"
    BY <1>1, <1>2, NothingSent
  <2>2. wire'[4].val = rc
    BY <1>4, <1>5
  <2>3. QED
    BY <1>1, <1>2, <2>1, <2>2 DEF Handshake
<1>9. Counted'
  BY <1>1, <1>6 DEF ClientInv, Counted
<1>10. QED
  BY <1>7, <1>8, <1>9 DEF ClientInv

(* A session with a SUBSCRIBE is past its CONNACK.                          *)
LEMMA Greeted ==
  ASSUME ClientInv, subscribes > 0
  PROVE  ~Greeting(wire) /\ ~Greeting(rxbuff) /\ answer # "awaited"
<1>1. subscribes # 0
  BY DEF ClientInv, ClientTypeOK
<1>2. QED
  BY <1>1 DEF ClientInv, Handshake

LEMMA SubackStep ==
  ASSUME ClientInv, sendSuback
  PROVE  ClientInv'
<1> DEFINE b == <<0, 1, 0>>
<1> DEFINE p == Packet(SUBACK, b)
<1>1. /\ rxbuff' = rxbuff /\ pc' = pc /\ state' = state /\ owed' = owed - 1 /\ owed > 0
      /\ nack_subscribe' = nack_subscribe /\ subscribes' = subscribes /\ answer' = answer
      /\ wire' = wire \o p
  BY DEF sendSuback, bounds
<1>2. /\ owed \in Nat /\ nack_subscribe \in Nat /\ subscribes \in Nat
      /\ Cardinality(Subacks(wire)) \in Nat /\ inRing(rxbuff) \in Nat
      /\ IsFiniteSet(Subacks(wire))
  BY CountTypes DEF ClientInv, ClientTypeOK
<1>3. subscribes > 0
  BY <1>1, <1>2 DEF ClientInv, Counted
<1>4. ~Greeting(wire) /\ ~Greeting(rxbuff) /\ answer # "awaited"
  BY <1>3, Greeted
<1>5. IsPacket(p, SUBACK, 3)
  <2>1. b \in Seq(0 .. 255) /\ Len(b) = 3
    OBVIOUS
  <2>2. SUBACK \in 0 .. 255
    BY Headers
  <2> HIDE DEF b
  <2>3. QED
    BY <2>1, <2>2, SmallLengths, PacketShape, Zenon
<1> HIDE DEF p
<1>6. wire \in Seq(WireBytes) /\ Packets(wire)
  BY DEF ClientInv, ClientTypeOK
<1>7. /\ wire' \in Seq(WireBytes) /\ Packets(wire') /\ ~Greeting(wire')
      /\ Subacks(wire') = Subacks(wire) \cup {Len(wire) + 1}
  <2>1. MayFollow(wire, SUBACK, 3) /\ SUBACK # CONNACK
    BY Headers DEF MayFollow
  <2>2. /\ wire \o p \in Seq(WireBytes) /\ Packets(wire \o p) /\ ~Greeting(wire \o p)
        /\ Subacks(wire \o p) = Subacks(wire) \cup {Len(wire) + 1}
    BY <1>4, <1>5, <1>6, <2>1, SmallLengths, Appended
  <2>3. QED
    BY <1>1, <2>2
<1>8. ClientTypeOK' /\ Packets(wire)' /\ InRing'
  BY <1>1, <1>2, <1>7 DEF ClientInv, ClientTypeOK, InRing
<1>9. Handshake'
  BY <1>1, <1>4, <1>7 DEF ClientInv, Handshake
<1>10. Counted'
  <2>1. Cardinality(Subacks(wire')) <= Cardinality(Subacks(wire)) + 1
        /\ Cardinality(Subacks(wire')) \in Nat
    <3> DEFINE S == Subacks(wire)
    <3> DEFINE x == Len(wire) + 1
    <3>1. IsFiniteSet(S) /\ Cardinality(S) \in Nat /\ Subacks(wire') = S \cup {x}
      BY <1>2, <1>7
    <3> HIDE DEF S, x
    <3>2. /\ IsFiniteSet(S \cup {x})
          /\ Cardinality(S \cup {x}) = IF x \in S THEN Cardinality(S) ELSE Cardinality(S) + 1
      BY <3>1, FS_AddElement
    <3>3. Cardinality(S \cup {x}) \in Nat /\ Cardinality(S \cup {x}) <= Cardinality(S) + 1
      BY <3>1, <3>2
    <3>4. QED
      BY <3>1, <3>3 DEF S
  <2>2. QED
    BY <1>1, <1>2, <2>1 DEF ClientInv, Counted
<1>11. QED
  BY <1>8, <1>9, <1>10 DEF ClientInv

LEMMA PublishStep ==
  ASSUME ClientInv, NEW n \in Topics, NEW y \in Payload, sendPublish(n, y)
  PROVE  ClientInv'
<1> DEFINE b == [i \in 1 .. n |-> IF i = 1 THEN 0 ELSE IF i <= 3 THEN 1 ELSE y]
<1> DEFINE p == Packet(PUBLISH, b)
<1>1. /\ rxbuff' = rxbuff /\ pc' = pc /\ state' = state /\ owed' = owed /\ subscribes > 0
      /\ nack_subscribe' = nack_subscribe /\ subscribes' = subscribes /\ answer' = answer
      /\ wire' = wire \o p
  BY DEF sendPublish, bounds
<1>2. ~Greeting(wire) /\ ~Greeting(rxbuff) /\ answer # "awaited"
  BY <1>1, Greeted
<1>3. n \in Lengths /\ n \in Nat
  BY TopicsAreLengths
<1>4. IsPacket(p, PUBLISH, n)
  <2>1. b \in Seq(0 .. 255) /\ Len(b) = n
    <3>0. y \in 0 .. 255
      BY UmqttAssumption
    <3>1. b \in [1 .. n -> 0 .. 255]
      BY <3>0
    <3> HIDE DEF b
    <3>2. QED
      BY <1>3, <3>1
  <2>2. PUBLISH \in 0 .. 255
    BY Headers
  <2> HIDE DEF b
  <2>3. QED
    BY <1>3, <2>1, <2>2, PacketShape, Zenon
<1> HIDE DEF p
<1>5. wire \in Seq(WireBytes) /\ Packets(wire)
  BY DEF ClientInv, ClientTypeOK
<1>6. /\ wire' \in Seq(WireBytes) /\ Packets(wire') /\ ~Greeting(wire')
      /\ Subacks(wire') = Subacks(wire)
  <2>1. MayFollow(wire, PUBLISH, n) /\ PUBLISH # CONNACK /\ PUBLISH # SUBACK
    BY Headers DEF MayFollow
  <2>2. /\ wire \o p \in Seq(WireBytes) /\ Packets(wire \o p) /\ ~Greeting(wire \o p)
        /\ Subacks(wire \o p) = Subacks(wire)
    BY <1>2, <1>3, <1>4, <1>5, <2>1, Appended
  <2>3. QED
    BY <1>1, <2>2
<1>7. ClientTypeOK' /\ Packets(wire)' /\ InRing'
  BY <1>1, <1>6 DEF ClientInv, ClientTypeOK, InRing
<1>8. Handshake'
  BY <1>1, <1>2, <1>6 DEF ClientInv, Handshake
<1>9. Counted'
  BY <1>1, <1>6 DEF ClientInv, Counted
<1>10. QED
  BY <1>7, <1>8, <1>9 DEF ClientInv

LEMMA ReceiveStep ==
  ASSUME ClientInv, RX_BUFF_SIZE \in 4 .. 5,
         NEW n \in 1 .. RecvSize, MQTT_CLIENT_receive(n), ~endsInside(n)
  PROVE  ClientInv'
<1> DEFINE r == pushed(SubSeq(wire, 1, n))
<1> DEFINE v == SubSeq(wire, n + 1, Len(wire))
<1>1. /\ rxbuff' = r /\ wire' = v /\ pc' = "process" /\ pc = "idle" /\ Chunk(n)
      /\ state' = state /\ nack_subscribe' = nack_subscribe
      /\ answer' = answer /\ owed' = owed /\ subscribes' = subscribes
  BY DEF MQTT_CLIENT_receive, broker, bounds
<1>2. wire \in Seq(WireBytes) /\ Packets(wire) /\ rxbuff = <<>>
  BY <1>1 DEF ClientInv, ClientTypeOK, InRing
<1>3. n \in 1 .. Len(wire) /\ (n < Len(wire) => wire[n + 1].first)
  <2>1. n <= Len(wire) /\ (n < Len(wire) => wire[n + 1].first)
    BY <1>1 DEF Chunk, endsInside
  <2>2. Len(wire) \in Nat /\ n \in Nat /\ n >= 1
    <3> HIDE DEF r, v
    <3>1. RecvSize \in Int
      BY UmqttAssumption
    <3>2. n \in Int /\ n >= 1
      BY <3>1
    <3>3. QED
      BY <1>2, <3>2
  <2>3. n \in 1 .. Len(wire)
    BY <2>1, <2>2
  <2>4. QED
    BY <2>1, <2>3
<1>4. /\ r \in Seq(WireBytes) /\ OnePacket(r) /\ r # <<>> /\ wire # <<>>
      /\ r[1].val = wire[1].val
      /\ Greeting(r) => n = Len(wire) /\ r[4] = wire[4]
  BY <1>2, <1>3, Received
<1>5. /\ v \in Seq(WireBytes) /\ Packets(v) /\ ~Greeting(v)
      /\ n = Len(wire) => v = <<>>
      /\ IsFiniteSet(Subacks(v))
      /\ Cardinality(Subacks(v)) + (IF wire[1].val = SUBACK THEN 1 ELSE 0)
            <= Cardinality(Subacks(wire))
  BY <1>2, <1>3, Delivered
<1> HIDE DEF r, v
<1>6. ClientTypeOK' /\ Packets(wire)' /\ InRing'
  BY <1>1, <1>4, <1>5 DEF ClientInv, ClientTypeOK, InRing
<1>7. Handshake'
  <2>1. answer # "awaited"
    BY <1>4 DEF ClientInv, Handshake
  <2>2. Greeting(r) => Greeting(wire)
    BY <1>4 DEF Greeting
  <2>3. QED
    BY <1>1, <1>4, <1>5, <2>1, <2>2 DEF ClientInv, Handshake
<1>8. Counted'
  <2>1. inRing(r) = IF wire[1].val = SUBACK THEN 1 ELSE 0
    BY <1>4 DEF inRing
  <2>2. inRing(rxbuff) = 0
    BY <1>2, NothingSent
  <2>3. Cardinality(Subacks(v)) \in Nat /\ Cardinality(Subacks(wire)) \in Nat
        /\ inRing(r) \in Nat
    BY <1>5, <2>1, CountTypes, FS_CardinalityType DEF ClientInv
  <2>4. Cardinality(Subacks(v)) + inRing(r) <= Cardinality(Subacks(wire))
    BY <1>5, <2>1
  <2>5. owed \in Nat /\ nack_subscribe \in Nat /\ subscribes \in Nat
    BY DEF ClientInv, ClientTypeOK
  <2>6. nack_subscribe >= (owed + Cardinality(Subacks(wire))) + 0 /\ subscribes >= nack_subscribe
    BY <2>2 DEF ClientInv, Counted
  <2>7. nack_subscribe >= (owed + Cardinality(Subacks(v))) + inRing(r)
    BY <2>3, <2>4, <2>5, <2>6
  <2>8. QED
    BY <1>1, <2>6, <2>7 DEF Counted
<1>9. QED
  BY <1>6, <1>7, <1>8 DEF ClientInv

LEMMA ProcessStep ==
  ASSUME ClientInv, RX_BUFF_SIZE \in 4 .. 5, processPacket
  PROVE  ClientInv'
<1>1. /\ wire' = wire /\ pc' = pc /\ answer' = answer /\ owed' = owed /\ pc = "process"
      /\ subscribes' = subscribes /\ Len(rxbuff) >= 2
  BY DEF processPacket, broker, bounds
<1>2. PICK g, d \in Garbage :
        /\ umqtt_packet_arrived(rxbuff[1].val,
             second(lengthSize(g), umqtt_decode_length(lengthBytes(g)), d))
        /\ rxbuff' = poppedPacket(lengthSize(g), umqtt_decode_length(lengthBytes(g)))
  BY DEF processPacket
<1>3. rxbuff \in Seq(WireBytes) /\ rxbuff # <<>> /\ OnePacket(rxbuff)
  BY <1>1, EmptySeq DEF ClientInv, ClientTypeOK, InRing
<1>4. g \in 0 .. 255
  BY UmqttAssumption
<1> DEFINE h == rxbuff[1].val
<1> DEFINE rc == second(lengthSize(g), umqtt_decode_length(lengthBytes(g)), d)
<1>5. h \in {CONNACK, PUBLISH, SUBACK} /\ (Greeting(rxbuff) => rc = rxbuff[4].val)
  BY <1>3, <1>4, Emptied
<1>6. rxbuff' = <<>>
  BY <1>2, <1>3, <1>4, Emptied, Zenon
<1>7. /\ state' = IF h \div 16 # 2 THEN state ELSE IF rc = 0 THEN "CONNECTED" ELSE "FAILED"
      /\ nack_subscribe' = IF h \div 16 = 9 THEN nack_subscribe - 1 ELSE nack_subscribe
  BY <1>2 DEF umqtt_packet_arrived
<1> HIDE DEF rc
<1>8. /\ h = CONNACK => h \div 16 = 2
      /\ h = PUBLISH => h \div 16 = 3
      /\ h = SUBACK => h \div 16 = 9
  BY Headers
<1>9. nack_subscribe' = nack_subscribe - inRing(rxbuff)
  <2>1. inRing(rxbuff) = IF h = SUBACK THEN 1 ELSE 0
    BY <1>3 DEF inRing
  <2>2. nack_subscribe \in Nat
    BY DEF ClientInv, ClientTypeOK
  <2>3. nack_subscribe' = IF h = SUBACK THEN nack_subscribe - 1 ELSE nack_subscribe
    BY <1>5, <1>7, <1>8, Headers
  <2>4. QED
    BY <2>1, <2>2, <2>3
<1>10. Counted' /\ nack_subscribe' \in Nat
  <2>1. Cardinality(Subacks(wire)) \in Nat /\ inRing(rxbuff) \in Nat
    BY CountTypes DEF ClientInv
  <2>2. owed \in Nat /\ nack_subscribe \in Nat /\ subscribes \in Nat
    BY DEF ClientInv, ClientTypeOK
  <2>3. inRing(rxbuff') = 0
    BY <1>6, NothingSent
  <2>4. /\ nack_subscribe >= (owed + Cardinality(Subacks(wire))) + inRing(rxbuff)
        /\ subscribes >= nack_subscribe
    BY DEF ClientInv, Counted
  <2>5. /\ nack_subscribe' >= (owed + Cardinality(Subacks(wire))) + 0
        /\ subscribes >= nack_subscribe' /\ nack_subscribe' \in Nat
    BY <1>9, <2>1, <2>2, <2>4
  <2>6. QED
    BY <1>1, <2>3, <2>5 DEF Counted
<1>11. ClientTypeOK' /\ Packets(wire)' /\ InRing'
  BY <1>1, <1>6, <1>10, NothingSent DEF ClientInv, ClientTypeOK, InRing
<1>12. Handshake'
  <2>1. ~Greeting(rxbuff') /\ answer # "awaited"
    BY <1>3, <1>6, NothingSent DEF ClientInv, Handshake
  <2>2. CASE h = CONNACK
    <3>1. Greeting(rxbuff) /\ rc = rxbuff[4].val
      BY <1>3, <1>5, <2>2 DEF Greeting
    <3>2. wire = <<>> /\ (rc = 0 => answer = "accepted")
      BY <3>1 DEF ClientInv, Handshake
    <3>3. ~Greeting(wire') /\ (state' = "CONNECTED" => answer = "accepted")
      BY <1>1, <1>7, <1>8, <2>2, <3>2, NothingSent
    <3>4. QED
      BY <1>1, <2>1, <3>3 DEF Handshake
  <2>3. CASE h # CONNACK
    <3>1. state' = state
      BY <1>5, <1>7, <1>8, <2>3
    <3>2. QED
      BY <1>1, <2>1, <3>1 DEF ClientInv, Handshake
  <2>4. QED
    BY <2>2, <2>3
<1>13. QED
  BY <1>1, <1>10, <1>11, <1>12 DEF ClientInv

LEMMA ProcessedStep ==
  ASSUME ClientInv, RX_BUFF_SIZE \in 4 .. 5, processed
  PROVE  ClientInv'
<1>1. /\ wire' = wire /\ rxbuff' = rxbuff /\ answer' = answer /\ owed' = owed
      /\ state' = state /\ nack_subscribe' = nack_subscribe /\ subscribes' = subscribes
      /\ pc' = "idle" /\ Len(rxbuff) < 2
  BY DEF processed, broker, bounds
<1>2. rxbuff = <<>>
  <2>1. OnePacket(rxbuff)
    BY DEF ClientInv, InRing
  <2>2. rxbuff # <<>> => Len(rxbuff) = 4 \/ Len(rxbuff) = RX_BUFF_SIZE
    BY <2>1 DEF OnePacket
  <2>3. QED
    BY <1>1, <2>2
<1>3. ClientTypeOK' /\ Packets(wire)' /\ InRing'
  BY <1>1, <1>2 DEF ClientInv, ClientTypeOK, InRing
<1>4. Handshake' /\ Counted'
  BY <1>1 DEF ClientInv, Handshake, Counted
<1>5. QED
  BY <1>3, <1>4 DEF ClientInv

(* The invariant of the client                                              *)
LEMMA ClientInductive ==
  ASSUME RX_BUFF_SIZE \in 4 .. 5
  PROVE  Spec => []StepInv
<1>1. StepInv /\ [Next]_vars => StepInv'
  <2> SUFFICES ASSUME StepInv, [Next]_vars PROVE StepInv'
    OBVIOUS
  <2>1. CASE umqtt_connect
    BY <2>1, ConnectStep DEF StepInv
  <2>2. CASE cut /\ ~umqtt_connect
    <3>1. cut' = cut \/ cut' = TRUE
      BY <2>2 DEF Next, umqtt_subscribe, sendConnack, sendSuback, sendPublish,
         MQTT_CLIENT_receive, processPacket, processed, vars
    <3>2. QED
      BY <2>2, <3>1 DEF StepInv
  <2>3. CASE ClientInv /\ UNCHANGED vars
    <3>1. /\ wire' = wire /\ rxbuff' = rxbuff /\ answer' = answer /\ owed' = owed /\ pc' = pc
          /\ state' = state /\ nack_subscribe' = nack_subscribe /\ subscribes' = subscribes
      BY <2>3 DEF vars, broker, bounds
    <3>2. QED
      BY <2>3, <3>1 DEF ClientInv, ClientTypeOK, InRing, Handshake, Counted, StepInv
  <2>4. CASE ClientInv /\ \E n \in 1 .. RecvSize : MQTT_CLIENT_receive(n)
    <3>1. PICK n \in 1 .. RecvSize : MQTT_CLIENT_receive(n)
      BY <2>4
    <3>2. CASE endsInside(n)
      BY <3>1, <3>2 DEF MQTT_CLIENT_receive, StepInv
    <3>3. CASE ~endsInside(n)
      BY <2>4, <3>1, <3>3, ReceiveStep DEF StepInv
    <3>4. QED
      BY <3>2, <3>3
  <2>5. CASE ClientInv /\ Next /\ ~umqtt_connect
    BY <2>4, <2>5, SubscribeStep, ConnackStep, SubackStep, PublishStep, ProcessStep,
       ProcessedStep DEF Next, StepInv
  <2>6. QED
    BY <2>1, <2>2, <2>3, <2>5 DEF StepInv
<1>2. Init => StepInv
  BY InitClient DEF StepInv
<1>3. QED
  BY <1>1, <1>2, PTL DEF Spec

(* Until a chunk ends inside a packet the client stays in step with the     *)
(* packets of the broker, whatever their lengths and number, though the     *)
(* ring truncates them (umqtt_process); and again from the next CONNECT on. *)
THEOREM InStep ==
  ASSUME RX_BUFF_SIZE \in 4 .. 5
  PROVE  Spec => []StaysInStep
<1>1. StepInv => StaysInStep
  BY DEF StepInv, ClientInv, InRing, OnePacket, Starts, StaysInStep
<1>2. QED
  BY <1>1, ClientInductive, PTL

(* The client is connected only if the broker accepted this session         *)
(* (umqtt_packet_arrived), over any number of sessions, also after sessions *)
(* that were out of step; unless a chunk of this one ended inside a packet. *)
THEOREM AcceptedWhenConnected ==
  ASSUME RX_BUFF_SIZE \in 4 .. 5
  PROVE  Spec => []ConnectedMeansAccepted
<1>1. StepInv => ConnectedMeansAccepted
  BY DEF StepInv, ClientInv, Handshake, ConnectedMeansAccepted
<1>2. QED
  BY <1>1, ClientInductive, PTL

(* Until a chunk ends inside a packet nack_subscribe is at least the number *)
(* of SUBSCRIBEs the broker has still to answer or the client to read, and  *)
(* at most the number of those of this session.                             *)
THEOREM NoSubscribeLost ==
  ASSUME RX_BUFF_SIZE \in 4 .. 5
  PROVE  Spec => []UnackedIsCounted
<1>1. StepInv => UnackedIsCounted
  <2> SUFFICES ASSUME ClientInv PROVE UnackedIsCounted
    BY DEF StepInv, UnackedIsCounted
  <2>1. /\ owed \in Nat /\ nack_subscribe \in Nat /\ subscribes \in Nat
        /\ Cardinality(Subacks(wire)) \in Nat /\ inRing(rxbuff) \in Nat
        /\ Unacked = owed + Cardinality(Subacks(wire))
    BY CountTypes DEF ClientInv, ClientTypeOK
  <2>2. /\ nack_subscribe >= (owed + Cardinality(Subacks(wire))) + inRing(rxbuff)
        /\ subscribes >= nack_subscribe
    BY DEF ClientInv, Counted
  <2>3. QED
    BY <2>1, <2>2 DEF UnackedIsCounted
<1>2. QED
  BY <1>1, ClientInductive, PTL
=============================================================================
