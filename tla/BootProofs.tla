----------------------------- MODULE BootProofs -----------------------------
(***************************************************************************)
(* Proofs about the SPI protocol under the driver that uses it (Boot), for *)
(* any number of retries, polls, bytes, faults and initializations, and    *)
(* for answers late by any number of bytes.                                *)
(*                                                                         *)
(* The argument has two parts.  On the line, the host reads the answer to  *)
(* its own command, in order (OwnAnswer), unless that was lost in the rest *)
(* of another: so what a read returns is what its register held.  In the   *)
(* driver, each stage of the initialization has read something that holds  *)
(* from then on (SeenHolds, ChipHolds), which the later stages rely on     *)
(* (Achieved).                                                             *)
(***************************************************************************)
EXTENDS Boot, Integers, TLAPS, SequenceTheorems

(* The parts of the type invariant the proofs need                          *)
Points == {"idle", "cmd", "skip", "echo", "state", "header", "data", "block", "rsp", "done"}
Signs == Commands \cup {"00", "FF", "F0", "C3"}
Rest == [left : Nat, size : Nat, flags : SUBSET AllFlags]
Types ==
  /\ pc \in Points /\ pending \in Regs \cup {"none"}
  /\ command \in Commands /\ op \in [kind : Kinds, reg : Regs, value : SUBSET AllFlags]
  /\ tries \in 0 .. SPI_RESP_RETRY_COUNT /\ result \in {"ok", "fail"}
  /\ value \in SUBSET AllFlags /\ seen \in SUBSET (SUBSET AllFlags)
  /\ regs \in [Regs -> SUBSET AllFlags] /\ out \in Seq(Signs) /\ data \in Rest

(* The line, unless the last command was lost in the rest of an answer: the *)
(* data still to come are those of this access, all of them, and their      *)
(* header is right before them; while the host looks for the echo and the   *)
(* state, these are still to come, too.                                     *)
Bytes == 1 .. Len(out)
Plain == \A i \in Bytes : out[i] \in Commands \cup {"00"}
Whole == data.left = data.size /\ data.size = Size(op.kind) /\ data.flags \in seen

BeforeData ==
  /\ \A i \in Bytes : out[i] \in Commands \cup {"00"} \/ (out[i] = "F0" /\ i = Len(out) /\ data.left > 0)
  /\ data.left > 0 => Whole /\ out # <<>> /\ out[Len(out)] = "F0"

OwnAnswer ==
  ~stale =>
    /\ Reads(command) /\ pc \in {"echo", "state", "header"} => BeforeData
    /\ Reads(command) /\ pc = "echo" /\ data.left > 0 =>
         \E i \in Bytes : out[i] = command /\ i + 1 < Len(out) /\ out[i + 1] = "00"
    /\ Reads(command) /\ pc = "state" /\ data.left > 0 => \E i \in Bytes : out[i] = "00" /\ i < Len(out)
    /\ pc = "data" => out = <<>> /\ Whole
    /\ command = "writeBlock" /\ pc \in {"echo", "state", "block"} => Plain /\ data.left = 0
    /\ pc = "rsp" => data.left = 0 /\ \A i \in Bytes : out[i] = "C3" => op.value \in seen

(* Where an access is, and what it has come to                              *)
Phases ==
  /\ command \in {op.kind, "reset"}
  /\ pc = "skip" => command = "reset"
  /\ pc \in {"header", "data"} => Reads(command)
  /\ pc \in {"block", "rsp"} => command = "writeBlock"
  /\ command = "reset" => result = "fail"

Line == OwnAnswer /\ Phases /\ OkMeansDone
IInv == Types /\ Line

-----------------------------------------------------------------------------
(* Stages of the initialization, by the accesses made in them               *)
SpiStage == {"protocol", "setProtocol", "chipId", "packetSize", "setPacketSize"}
RomStage == {"efuse", "waitHost", "bootRom"}
ConfStage == {"version", "revision", "applyConf", "gp1"}
ReadyStage == {"clearState", "pinMux", "setPinMux", "intrEnable", "setIntrEnable", "revisionBlock"}
StartStage == {"startFirmware", "state"} \cup ReadyStage
InitStages == SpiStage \cup RomStage \cup ConfStage \cup StartStage

(* What the accesses may write                                              *)
Permitted(label, kind, reg, v, id) ==
  /\ kind = "writeBlock" => reg = "memory"
  /\ kind = "write" =>
       /\ reg \notin {"efuse", "waitHost"}
       /\ reg = "protocol" => "8k" \in v
       /\ reg = "bootRom" => label = "startFirmware" /\ v = {"start"}
       /\ reg = "gp1" => label = "applyConf" /\ v = Conf(id)
       /\ reg = "state" => v \in {{}, {"version"}}
  /\ label \in {"efuse", "waitHost", "bootRom", "gp1", "state"} => kind = "read" /\ reg = label
  /\ label = "revisionBlock" => kind = "readBlock" /\ reg = "revision"
  /\ label = "traffic" => reg = "memory"

Ops ==
  /\ at # "none" => Permitted(at, op.kind, op.reg, op.value, chipid)
  /\ pending \in {"none", "memory"}

(* When the driver makes them                                               *)
Places ==
  /\ at \in InitStages => driver = "starting"
  /\ driver = "up" => at \in {"none", "traffic"}
  /\ driver = "starting" => at \in InitStages
  /\ at = "none" <=> pc = "idle"
  /\ at \in InitStages \ {"protocol", "setProtocol"} => gu8Crc_off

(* What the chip has let the host see still holds.                          *)
SeenHolds ==
  /\ at = "revisionBlock" /\ seen # {} => understands
  /\ at = "efuse" /\ (\E v \in seen : "done" \in v) => regs["efuse"] = {"done"}
  /\ at \in {"waitHost", "gp1"} => seen \subseteq {regs[at]}
  /\ at = "bootRom" /\ {"finished"} \in seen => firmware # "rom"
  /\ at = "state" /\ {"init"} \in seen => firmware = "ready"

(* The chip                                                                 *)
ChipHolds ==
  /\ regs["efuse"] \in {{}, {"done"}}
  /\ firmware # "rom" => regs["efuse"] = {"done"}
  /\ regs["efuse"] = {"done"} /\ regs["waitHost"] # {} => firmware # "rom"
  /\ "finished" \in regs["bootRom"] => firmware # "rom"
  /\ "init" \in regs["state"] => firmware = "ready"
  /\ "crc" \in regs["protocol"] \/ "8k" \in regs["protocol"]
  /\ at \in SpiStage \cup RomStage \cup ConfStage => "start" \notin regs["bootRom"]

(* What the stages have achieved if every value read was one                *)
Reached(label, id) ==
  /\ label \in {"waitHost", "bootRom"} => regs["efuse"] = {"done"}
  /\ label \in ConfStage \cup StartStage => firmware # "rom"
  /\ label \in {"applyConf", "gp1"} \cup StartStage => id = "3A0"
  /\ label \in StartStage => regs["gp1"] = Conf("3A0")
  /\ label \in ReadyStage => firmware = "ready"

Achieved ==
  ~blind => /\ Reached(at, chipid)
            /\ firmware \in {"running", "ready"} => firmwareConf = Conf("3A0")

(* An access that took the bytes of another for its own has been noticed.   *)
Noticed == driver = "starting" /\ pc = "done" /\ result = "ok" /\ op.kind # "write" /\ stale => blind

Progress == Ops /\ Places /\ SeenHolds /\ ChipHolds /\ Achieved /\ UpMeansRunning
Stages == Noticed /\ Progress

-----------------------------------------------------------------------------
LEMMA Bounds ==
  /\ SPI_RETRY_COUNT \in Nat \ {0} /\ SPI_RESP_RETRY_COUNT \in Nat
  /\ RegBytes \in Nat \ {0} /\ BlockBytes \in Nat \ {0}
  /\ LateBy \subseteq Nat \ {0} /\ MaxFaults \in Nat /\ TIMEOUT \in Nat \ {0} /\ MaxInits \in Nat
  BY SpiAssumption, BootAssumption

LEMMA RegsAre ==
  Regs = {"protocol", "chipId", "efuse", "waitHost", "bootRom", "state", "gp1", "pinMux",
          "intrEnable", "revision", "globalReset", "flashMux", "flashCmd", "flashDone", "memory"}
  BY DEF Regs, Flags

LEMMA FlagsAre ==
  /\ Flags["protocol"] = {"crc", "8k"} /\ Flags["chipId"] = {"3A0"} /\ Flags["efuse"] = {"done"}
  /\ Flags["waitHost"] = {"skip"} /\ Flags["bootRom"] = {"finished", "start"}
  /\ Flags["state"] = {"version", "init"} /\ Flags["gp1"] = {"pmu", "reserved"}
  /\ Flags["pinMux"] = {"irq"} /\ Flags["intrEnable"] = {"irq"} /\ Flags["revision"] = {"good"}
  /\ Flags["globalReset"] = {"run"} /\ Flags["flashMux"] = {"flash"}
  /\ Flags["flashCmd"] = {"go"} /\ Flags["flashDone"] = {"done"} /\ Flags["memory"] = {"m"}
  BY DEF Flags

LEMMA FlagsInAll ==
  /\ \A r \in Regs : Flags[r] \subseteq AllFlags
  /\ {"crc", "8k", "3A0", "done", "skip", "finished", "start", "version", "init", "pmu",
      "reserved", "irq", "good", "run", "flash", "go", "m"} \subseteq AllFlags
<1>1. \A r \in Regs : Flags[r] \subseteq AllFlags
  BY DEF AllFlags
<1> QED
  BY <1>1, RegsAre, FlagsAre

-----------------------------------------------------------------------------
(* Reading bytes takes the first ones away.                                 *)
LEMMA ReadingBytes ==
  ASSUME Types, NEW n \in Nat, readBytes(n)
  PROVE  out' \in Seq(Signs) /\ data' \in Rest
<1>1. out \in Seq(Signs) /\ data \in Rest /\ Len(out) \in Nat
  BY DEF Types
<1>2. out' = SubSeq(out, n + 1, Len(out))
  BY DEF readBytes
<1>3. out' \in Seq(Signs)
  <2>1. CASE n <= Len(out)
    BY <1>1, <1>2, <2>1, SubSeqProperties
  <2>2. CASE n > Len(out)
    BY <1>1, <1>2, <2>2
  <2> QED
    BY <1>1, <2>1, <2>2
<1>4. data' \in Rest
  BY <1>1 DEF readBytes, NoData, Rest
<1> QED
  BY <1>3, <1>4

LEMMA ReadingAByte ==
  ASSUME Types, readByte
  PROVE  /\ out' \in Seq(Signs) /\ data' \in Rest /\ Len(out) \in Nat
         /\ Len(out') = IF Len(out) = 0 THEN 0 ELSE Len(out) - 1
         /\ \A i \in Bytes' : i + 1 \in Bytes /\ out'[i] = out[i + 1]
         /\ Len(out) > 0 => next = out[1] /\ 1 \in Bytes /\ (data.left > 0 => data' = data)
         /\ data.left = 0 => data'.left = 0 /\ (Len(out) = 0 => next = "00")
<1>1. out \in Seq(Signs) /\ data \in Rest /\ Len(out) \in Nat
  BY DEF Types
<1>2. out' \in Seq(Signs) /\ data' \in Rest
  BY ReadingBytes DEF readByte
<1>3. out' = SubSeq(out, 2, Len(out))
  BY DEF readByte, readBytes
<1>4. CASE Len(out) = 0
  <2>1. out' = <<>>
    BY <1>1, <1>3, <1>4
  <2> QED
    BY <1>1, <1>2, <1>4, <2>1 DEF readByte, readBytes, NoData, Rest, next, byteAt, Bytes
<1>5. CASE Len(out) > 0
  <2>1. Len(out') = Len(out) - 1 /\ \A i \in 1 .. Len(out) - 1 : out'[i] = out[i + 1]
    <3>1. \A i \in 2 .. Len(out) : out[i] \in Signs
      BY <1>1
    <3>2. /\ Len(out') = IF 2 <= Len(out) THEN Len(out) - 2 + 1 ELSE 0
          /\ \A i \in 1 .. Len(out) - 2 + 1 : out'[i] = out[2 + i - 1]
      BY <1>1, <1>3, <3>1, SubSeqProperties
    <3>3. ASSUME NEW i \in 1 .. Len(out) - 1 PROVE out'[i] = out[i + 1]
      <4>1. i \in 1 .. Len(out) - 2 + 1 /\ 2 + i - 1 = i + 1
        BY <1>1
      <4>2. out'[i] = out[2 + i - 1]
        BY <3>2, <4>1
      <4> QED
        BY <4>1, <4>2
    <3>4. Len(out') = Len(out) - 1
      <4>1. CASE Len(out) = 1
        BY <1>1, <3>2, <4>1
      <4>2. CASE 2 <= Len(out)
        <5>1. Len(out') = Len(out) - 2 + 1
          BY <3>2, <4>2
        <5> QED
          BY <1>1, <5>1
      <4>3. Len(out) = 1 \/ 2 <= Len(out)
        <5>1. \A n \in Nat : n > 0 => n = 1 \/ 2 <= n
          OBVIOUS
        <5>2. Len(out) \in Nat
          BY <1>1
        <5> QED
          BY ONLY <1>5, <5>1, <5>2
      <4> QED
        BY ONLY <4>1, <4>2, <4>3
    <3> QED
      BY <3>3, <3>4
  <2>2. (data.left > 0 => data' = data) /\ (data.left = 0 => data'.left = 0)
    BY <1>1, <1>5 DEF readByte, readBytes, NoData, Rest
  <2>3. next = out[1]
    <3>1. 1 <= Len(out) /\ ~(1 > Len(out) + data.left)
      BY <1>1, <1>5 DEF Rest
    <3> QED
      BY <3>1 DEF next, byteAt
  <2> QED
    BY <1>1, <1>2, <1>5, <2>1, <2>2, <2>3 DEF Bytes
<1> QED
  BY <1>1, <1>4, <1>5

(* What the host has still to read of an answer keeps its order.            *)
LEMMA ReadingBeforeData ==
  ASSUME Types, readByte, UNCHANGED <<op, seen>>, BeforeData
  PROVE  /\ data.left > 0 /\ out[1] # "F0" => BeforeData'
         /\ data.left = 0 => BeforeData' /\ data'.left = 0
         /\ data.left > 0 => data' = data /\ Len(out) > 0 /\ next = out[1]
                             /\ (out[1] = "F0" => Len(out) = 1)
         /\ data.left = 0 => next \in Commands \cup {"00"}
<1> USE DEF BeforeData
<1>1. data \in Rest /\ Len(out) \in Nat /\ Len(out') \in Nat
  BY ReadingAByte DEF Types
<1>2. CASE data.left = 0
  <2>1. \A i \in Bytes : out[i] \in Commands \cup {"00"}
    BY <1>2
  <2>2. data'.left = 0 /\ \A i \in Bytes' : out'[i] \in Commands \cup {"00"}
    BY <1>2, <2>1, ReadingAByte
  <2>3. next \in Commands \cup {"00"}
    BY <1>1, <1>2, <2>1, ReadingAByte
  <2> QED
    BY <1>2, <2>2, <2>3
<1>3. CASE data.left > 0
  <2>1. out # <<>> /\ out[Len(out)] = "F0" /\ Whole
    BY <1>3
  <2>2. Len(out) > 0 /\ next = out[1] /\ data' = data /\ 1 \in Bytes
    BY <1>1, <1>3, <2>1, ReadingAByte DEF Types
  <2>3. out[1] = "F0" => Len(out) = 1
    BY <2>2 DEF Commands, Kinds
  <2>4. ASSUME out[1] # "F0" PROVE BeforeData'
    <3>1. Len(out) > 1 /\ Len(out') = Len(out) - 1
      BY <1>1, <2>1, <2>2, <2>4, ReadingAByte
    <3>2. ASSUME NEW i \in Bytes'
          PROVE  out'[i] \in Commands \cup {"00"} \/ (out'[i] = "F0" /\ i = Len(out') /\ data'.left > 0)
      <4>1. i + 1 \in Bytes /\ out'[i] = out[i + 1] /\ i \in Nat
        BY <3>2, ReadingAByte DEF Bytes
      <4> QED
        BY <1>1, <1>3, <2>2, <3>1, <4>1
    <3>3. Len(out') \in Bytes' /\ out'[Len(out')] = "F0"
      <4>1. Len(out') \in Bytes'
        BY <1>1, <3>1 DEF Bytes
      <4>2. out'[Len(out')] = out[Len(out') + 1] /\ Len(out') + 1 = Len(out)
        BY <1>1, <3>1, <4>1, ReadingAByte
      <4> QED
        BY <2>1, <4>1, <4>2
    <3>4. Whole'
      BY <2>1, <2>2 DEF Whole
    <3>5. out' # <<>>
      BY <1>1, <3>1
    <3> QED
      BY <3>2, <3>3, <3>4, <3>5
  <2> QED
    BY <1>3, <2>2, <2>3, <2>4
<1> QED
  BY <1>1, <1>2, <1>3 DEF Rest

(* The bytes of an answer                                                   *)
LEMMA AnswerIsOwn ==
  ASSUME Types, NEW front \in Nat, NEW middle \in Nat,
         out' = Answer(command, front, middle), data' = AnswerData(command),
         UNCHANGED op, command # "reset" => command = op.kind,
         Reads(command) => regs[op.reg] \in seen'
  PROVE  /\ out' \in Seq(Signs) /\ data' \in Rest
         /\ Reads(command) =>
              /\ BeforeData'
              /\ \E i \in Bytes' : out'[i] = command /\ i + 1 < Len(out') /\ out'[i + 1] = "00"
         /\ command \in {"write", "writeBlock"} => Plain' /\ data'.left = 0
<1> USE Bounds
<1> DEFINE a == IF command = "reset" THEN <<"FF">> ELSE <<>>
           b == Idle(front)
           c == <<command, "00">>
           d == IF Reads(command) THEN Idle(middle) \o <<"F0">> ELSE <<>>
           ab == a \o b
           abc == ab \o c
<1>1. command \in Commands /\ command \in Signs /\ {"00", "FF", "F0"} \subseteq Signs
  BY DEF Types, Signs
<1>2. op.reg \in Regs /\ regs[op.reg] \in SUBSET AllFlags
  BY DEF Types
<1>3. data' \in Rest /\ (~Reads(command) => data'.left = 0)
  BY <1>2 DEF AnswerData, NoData, Size, Rest
<1>4. /\ b \in Seq(Signs) /\ Len(b) = front /\ \A i \in 1 .. front : b[i] = "00"
      /\ c \in Seq(Signs) /\ Len(c) = 2 /\ c[1] = command /\ c[2] = "00"
      /\ a \in Seq(Signs) /\ (command # "reset" => Len(a) = 0)
  BY <1>1 DEF Idle
<1>5. d \in Seq(Signs)
  BY <1>1 DEF Idle
<1>6. out' = abc \o d
  BY DEF Answer
<1> HIDE DEF a, b, c, d
<1>7. /\ ab \in Seq(Signs) /\ Len(ab) = Len(a) + Len(b) /\ Len(a) \in Nat /\ Len(ab) \in Nat
      /\ \A i \in 1 .. Len(ab) : ab[i] = IF i <= Len(a) THEN a[i] ELSE b[i - Len(a)]
  BY <1>4
<1> HIDE DEF ab
<1>8. abc \in Seq(Signs) /\ out' \in Seq(Signs)
  <2>1. abc \in Seq(Signs)
    BY <1>4, <1>7
  <2> QED
    BY <1>5, <1>6, <2>1
<1>9. CASE command # "reset"
  <2>1. Len(ab) = front /\ \A i \in 1 .. front : ab[i] = "00"
    BY <1>4, <1>7, <1>9
  <2>2a. abc = ab \o c
    OBVIOUS
  <2> HIDE DEF abc
  <2>2b. ab \in Seq(Signs) /\ c \in Seq(Signs)
    BY <1>4, <1>7
  <2>2c. /\ Len(abc) = Len(ab) + Len(c) /\ Len(abc) \in Nat
         /\ \A i \in 1 .. Len(abc) : abc[i] = IF i <= Len(ab) THEN ab[i] ELSE c[i - Len(ab)]
    BY <2>2a, <2>2b
  <2>2. /\ Len(abc) = front + 2 /\ Len(abc) \in Nat
        /\ \A i \in 1 .. front + 2 : abc[i] = IF i <= front THEN ab[i] ELSE c[i - front]
    BY <1>4, <2>1, <2>2c
  <2>3. /\ \A i \in 1 .. front : abc[i] = "00"
        /\ abc[front + 1] = command /\ abc[front + 2] = "00"
    <3>1. front + 1 \in 1 .. front + 2 /\ front + 2 \in 1 .. front + 2
      OBVIOUS
    <3>2. abc[front + 1] = c[front + 1 - front] /\ abc[front + 2] = c[front + 2 - front]
      BY <2>2, <3>1
    <3>3. front + 1 - front = 1 /\ front + 2 - front = 2
      OBVIOUS
    <3> QED
      BY <1>4, <2>1, <2>2, <3>2, <3>3
  <2>4. \A i \in 1 .. front + 2 : abc[i] \in Commands \cup {"00"}
    BY <1>1, <2>3
  <2>5. CASE ~Reads(command)
    <3>1. out' = abc
      BY <1>6, <1>8, <2>5 DEF d
    <3> QED
      BY <1>3, <1>8, <2>2, <2>4, <2>5, <3>1 DEF Plain, Bytes
  <2>6. CASE Reads(command)
    <3>1. d = Idle(middle) \o <<"F0">>
      BY <2>6 DEF d
    <3>2. /\ Len(d) = middle + 1 /\ d[middle + 1] = "F0"
          /\ \A i \in 1 .. middle : d[i] = "00"
      <4>1. /\ Idle(middle) \in Seq(Signs) /\ Len(Idle(middle)) = middle
            /\ \A i \in 1 .. middle : Idle(middle)[i] = "00"
        BY <1>1 DEF Idle
      <4> QED
        BY <3>1, <4>1
    <3>3. /\ Len(out') = front + middle + 3 /\ Len(out') \in Nat
          /\ \A i \in 1 .. front + middle + 3 :
               out'[i] = IF i <= front + 2 THEN abc[i] ELSE d[i - (front + 2)]
      <4>1. abc \in Seq(Signs) /\ d \in Seq(Signs)
        BY <1>5, <1>8
      <4>2. /\ Len(out') = Len(abc) + Len(d) /\ Len(out') \in Nat
            /\ \A i \in 1 .. Len(out') : out'[i] = IF i <= Len(abc) THEN abc[i] ELSE d[i - Len(abc)]
        BY <1>6, <4>1
      <4>3. Len(abc) = front + 2 /\ Len(d) = middle + 1 /\ Len(out') = front + middle + 3
        BY <2>2, <3>2, <4>2
      <4> QED
        BY <4>2, <4>3
    <3>4. out'[Len(out')] = "F0" /\ out' # <<>>
      <4>1. Len(out') \in 1 .. front + middle + 3 /\ ~(Len(out') <= front + 2)
            /\ Len(out') - (front + 2) = middle + 1
        BY <3>3
      <4> QED
        BY <3>2, <3>3, <4>1
    <3>5. ASSUME NEW i \in Bytes', i # Len(out') PROVE out'[i] \in Commands \cup {"00"}
      <4>1. i \in 1 .. front + middle + 3 /\ i \in Nat
        BY <3>3 DEF Bytes
      <4>2. CASE i <= front + 2
        BY <2>4, <3>3, <4>1, <4>2
      <4>3. CASE i > front + 2
        <5>1. i - (front + 2) \in 1 .. middle
          BY <3>3, <3>5, <4>1, <4>3
        <5>2. out'[i] = d[i - (front + 2)]
          BY <3>3, <4>1, <4>3
        <5> QED
          BY <3>2, <5>1, <5>2
      <4> QED
        BY <4>1, <4>2, <4>3
    <3>6. data'.left > 0 /\ Whole'
      <4>1. command = op.kind
        BY <1>9
      <4> QED
        BY <2>6, <4>1 DEF AnswerData, Whole, Size
    <3>7. BeforeData'
      BY <3>4, <3>5, <3>6 DEF BeforeData
    <3>8. /\ front + 1 \in Bytes' /\ out'[front + 1] = command
          /\ front + 1 + 1 < Len(out') /\ out'[front + 1 + 1] = "00"
      <4>1. /\ front + 1 \in 1 .. front + middle + 3 /\ front + 2 \in 1 .. front + middle + 3
            /\ front + 1 <= front + 2 /\ front + 1 + 1 = front + 2 /\ front + 2 < front + middle + 3
        OBVIOUS
      <4> QED
        BY <2>3, <3>3, <4>1 DEF Bytes
    <3> QED
      BY <1>3, <1>8, <2>6, <3>7, <3>8 DEF Reads
  <2> QED
    BY <2>5, <2>6
<1>10. CASE command = "reset"
  BY <1>3, <1>8, <1>10 DEF Reads
<1> QED
  BY <1>9, <1>10

-----------------------------------------------------------------------------
(* The steps of an access keep to the line.                                 *)
LEMMA SendingKeepsLine ==
  ASSUME Types, Line, spi_cmd
  PROVE  Types' /\ Line'
<1> USE Bounds
<1>1. /\ pc = "cmd" /\ pc' = (IF command = "reset" THEN "skip" ELSE "echo")
      /\ tries' = SPI_RESP_RETRY_COUNT
      /\ UNCHANGED <<command, op, retry, result, value>>
  BY DEF spi_cmd
<1>2. Phases' /\ OkMeansDone'
  BY <1>1 DEF Line, Phases, OkMeansDone
<1>3. CASE \E front, middle \in Nat : takeCommand(front, middle)
  <2>1. PICK front \in Nat, middle \in Nat : takeCommand(front, middle)
    BY <1>3
  <2>2. /\ regs' \in [Regs -> SUBSET AllFlags] /\ seen' \in SUBSET (SUBSET AllFlags)
        /\ pending' \in Regs \cup {"none"}
    <3>1. op.reg \in Regs /\ op.value \in SUBSET AllFlags /\ regs[op.reg] \in SUBSET AllFlags
      BY DEF Types
    <3>2. seen' \in {seen, seen \cup {regs[op.reg]}, seen \cup {op.value}}
      BY <2>1 DEF takeCommand
    <3> QED
      BY <2>1, <3>1, <3>2 DEF takeCommand, Types
  <2>3. Reads(command) => regs[op.reg] \in seen'
    BY <2>1 DEF takeCommand, Reads
  <2>4. command # "reset" => command = op.kind
    BY DEF Line, Phases
  <2>5. /\ out' = Answer(command, front, middle) /\ data' = AnswerData(command)
    BY <2>1 DEF takeCommand
  <2>6. /\ out' \in Seq(Signs) /\ data' \in Rest
        /\ Reads(command) =>
             /\ BeforeData'
             /\ \E i \in Bytes' : out'[i] = command /\ i + 1 < Len(out') /\ out'[i + 1] = "00"
        /\ command \in {"write", "writeBlock"} => Plain' /\ data'.left = 0
    BY <1>1, <2>3, <2>4, <2>5, AnswerIsOwn
  <2>7. OwnAnswer'
    BY <1>1, <2>6 DEF OwnAnswer
  <2> QED
    BY <1>1, <1>2, <2>2, <2>6, <2>7 DEF Types, Line, Points
<1>4. CASE loseCommand
  <2>1. UNCHANGED <<out, data, seen, regs, pending>> /\ stale' = leftover
    BY <1>4 DEF loseCommand, chip, line
  <2>2. ~stale' => Plain' /\ data'.left = 0
    <3>1. data.left \in Nat
      BY DEF Types, Rest
    <3>2. ~leftover => Plain /\ data.left = 0
      BY <3>1 DEF leftover, Plain, Bytes
    <3> QED
      BY <2>1, <3>2 DEF Plain, Bytes
  <2>3. OwnAnswer'
    BY <1>1, <2>2 DEF OwnAnswer, BeforeData, Plain
  <2> QED
    BY <1>1, <1>2, <2>1, <2>3 DEF Types, Line, Points
<1>5. loseCommand \/ \E front, middle \in Nat : takeCommand(front, middle)
  <2>1. CASE takeCommand(0, 0)
    BY <2>1
  <2>2. CASE \E front, middle \in {0} \cup LateBy : front + middle > 0 /\ takeCommand(front, middle)
    BY <2>2
  <2> QED
    BY <2>1, <2>2 DEF spi_cmd
<1> QED
  BY <1>3, <1>4, <1>5

LEMMA SkippingKeepsLine ==
  ASSUME Types, Line, skipByte
  PROVE  Types' /\ Line'
<1>1. /\ pc = "skip" /\ readByte /\ pc' = "echo" /\ command = "reset"
      /\ UNCHANGED <<command, op, tries, result, value, seen, stale, regs, pending>>
  BY DEF skipByte, Line, Phases
<1>2. out' \in Seq(Signs) /\ data' \in Rest
  BY <1>1, ReadingAByte
<1> QED
  BY <1>1, <1>2 DEF Types, Points, Line, OwnAnswer, Phases, OkMeansDone, Reads

LEMMA PollingEchoKeepsLine ==
  ASSUME Types, Line, pollEcho
  PROVE  Types' /\ Line'
<1> USE Bounds
<1>1. /\ pc = "echo" /\ readByte /\ tries \in 0 .. SPI_RESP_RETRY_COUNT
      /\ UNCHANGED <<command, op, result, value, seen, stale, regs, pending>>
  BY DEF pollEcho, Types
<1>2. \/ tries > 0 /\ tries' = tries - 1 /\ pc' = "echo" /\ next # command
      \/ tries' = SPI_RESP_RETRY_COUNT /\ pc' = "state"
  BY <1>1 DEF pollEcho, mayDiffer
<1>3. Types'
  BY <1>1, <1>2, ReadingAByte DEF Types, Points
<1>4. Phases' /\ OkMeansDone'
  BY <1>1, <1>2 DEF Line, Phases, OkMeansDone
<1>5. data \in Rest /\ data' \in Rest /\ Len(out) \in Nat /\ Len(out') \in Nat
  BY <1>1, ReadingAByte DEF Types
<1>6. CASE ~stale /\ Reads(command) /\ data.left = 0
  <2>1. BeforeData' /\ data'.left = 0
    BY <1>1, <1>6, ReadingBeforeData DEF Line, OwnAnswer
  <2> QED
    BY <1>1, <1>2, <1>3, <1>4, <1>6, <2>1 DEF Line, OwnAnswer, Reads
<1>7. CASE ~stale /\ Reads(command) /\ data.left > 0
  <2>1. BeforeData
    BY <1>1, <1>7 DEF Line, OwnAnswer
  <2>2. PICK i \in Bytes : out[i] = command /\ i + 1 < Len(out) /\ out[i + 1] = "00"
    BY <1>1, <1>7 DEF Line, OwnAnswer
  <2>3. i \in Nat /\ i >= 1 /\ i <= Len(out)
    BY <1>5 DEF Bytes
  <2>4. /\ Len(out) > 1 /\ Len(out') = Len(out) - 1 /\ next = out[1] /\ out[1] # "F0"
    BY <1>1, <1>5, <1>7, <2>1, <2>2, <2>3, ReadingAByte, ReadingBeforeData
  <2>5. BeforeData'
    BY <1>1, <1>7, <2>1, <2>4, ReadingBeforeData
  <2>6. i \in Bytes' /\ out'[i] = "00" /\ i < Len(out')
    <3>1. i \in Bytes' /\ i < Len(out')
      BY <1>5, <2>2, <2>3, <2>4 DEF Bytes
    <3> QED
      BY <1>1, <2>2, <3>1, ReadingAByte
  <2>7. i > 1 => \E j \in Bytes' : out'[j] = command /\ j + 1 < Len(out') /\ out'[j + 1] = "00"
    <3> SUFFICES ASSUME i > 1
                 PROVE  /\ i - 1 \in Bytes' /\ out'[i - 1] = command
                        /\ i - 1 + 1 < Len(out') /\ out'[i - 1 + 1] = "00"
      OBVIOUS
    <3>1. i - 1 \in Bytes' /\ i - 1 + 1 = i
      BY <1>5, <2>3, <2>4 DEF Bytes
    <3>2. out'[i - 1] = out[i - 1 + 1]
      BY <1>1, <3>1, ReadingAByte
    <3> QED
      BY <2>2, <2>6, <3>1, <3>2
  <2>8. i = 1 => pc' = "state"
    BY <1>2, <2>2, <2>4
  <2>9. i = 1 \/ i > 1
    BY <2>3
  <2>10. pc' = "echo" => \E j \in Bytes' : out'[j] = command /\ j + 1 < Len(out') /\ out'[j + 1] = "00"
    BY <2>7, <2>8, <2>9
  <2>11. OwnAnswer'
    BY <1>1, <1>2, <1>7, <2>5, <2>6, <2>10 DEF OwnAnswer, Reads
  <2> QED
    BY <1>3, <1>4, <2>11 DEF Line
<1>8. CASE ~stale /\ command = "writeBlock"
  <2>1. Plain' /\ data'.left = 0
    BY <1>1, <1>8, ReadingAByte DEF Line, OwnAnswer, Plain
  <2> QED
    BY <1>1, <1>2, <1>3, <1>4, <1>8, <2>1 DEF Line, OwnAnswer, Reads
<1>9. CASE stale \/ command \in {"reset", "write"}
  BY <1>1, <1>2, <1>3, <1>4, <1>9 DEF Line, OwnAnswer, Reads
<1> QED
  BY <1>5, <1>6, <1>7, <1>8, <1>9 DEF Types, Commands, Kinds, Reads, Rest

LEMMA PollingStateKeepsLine ==
  ASSUME Types, Line, pollState
  PROVE  Types' /\ Line'
<1> USE Bounds
<1>1. /\ pc = "state" /\ readByte /\ tries \in 0 .. SPI_RESP_RETRY_COUNT
      /\ UNCHANGED <<op, value, seen, stale, regs, pending>>
  BY DEF pollState, Types
<1>2. \/ tries > 0 /\ tries' = tries - 1 /\ UNCHANGED <<pc, command, result, retry>> /\ next # "00"
      \/ tries' = SPI_RESP_RETRY_COUNT /\ afterState
  BY <1>1 DEF pollState, mayDiffer
<1>3. \/ pc' = "state" /\ UNCHANGED <<command, result>> /\ next # "00"
      \/ pc' = "header" /\ UNCHANGED <<command, result>> /\ Reads(command)
      \/ pc' = "block" /\ UNCHANGED <<command, result>> /\ command = "writeBlock"
      \/ pc' = "done" /\ command = "write" /\ command' = command /\ result' = "ok"
      \/ pc' \in {"cmd", "done"} /\ command = "reset" /\ command' \in {op.kind, "reset"} /\ result' = result
           /\ (pc' = "done" => command' = "reset")
  BY <1>1, <1>2 DEF afterState, retryAgain, finishes, Types
<1>4. Types'
  BY <1>1, <1>2, <1>3, ReadingAByte DEF Types, Points, Commands, Kinds
<1>5. Phases' /\ OkMeansDone'
  BY <1>1, <1>3 DEF Line, Phases, OkMeansDone, Reads, Types, Kinds
<1>6. data \in Rest /\ data' \in Rest /\ Len(out) \in Nat /\ Len(out') \in Nat
  BY <1>1, ReadingAByte DEF Types
<1>7. CASE ~stale /\ Reads(command) /\ data.left = 0
  <2>1. BeforeData' /\ data'.left = 0
    BY <1>1, <1>7, ReadingBeforeData DEF Line, OwnAnswer
  <2> QED
    BY <1>1, <1>3, <1>4, <1>5, <1>7, <2>1 DEF Line, OwnAnswer, Reads
<1>8. CASE ~stale /\ Reads(command) /\ data.left > 0
  <2>1. BeforeData
    BY <1>1, <1>8 DEF Line, OwnAnswer
  <2>2. PICK i \in Bytes : out[i] = "00" /\ i < Len(out)
    BY <1>1, <1>8 DEF Line, OwnAnswer
  <2>3. i \in Nat /\ i >= 1
    BY <1>6 DEF Bytes
  <2>4. Len(out) > 1 /\ Len(out') = Len(out) - 1 /\ next = out[1] /\ out[1] # "F0"
    BY <1>1, <1>6, <1>8, <2>1, <2>2, <2>3, ReadingAByte, ReadingBeforeData
  <2>5. BeforeData'
    BY <1>1, <1>8, <2>1, <2>4, ReadingBeforeData
  <2>6. pc' = "state" => \E j \in Bytes' : out'[j] = "00" /\ j < Len(out')
    <3> SUFFICES ASSUME pc' = "state" PROVE i - 1 \in Bytes' /\ out'[i - 1] = "00" /\ i - 1 < Len(out')
      OBVIOUS
    <3>1. i # 1
      BY <1>3, <2>2, <2>4
    <3>2. i - 1 \in Bytes' /\ i - 1 + 1 = i /\ i - 1 < Len(out')
      BY <1>6, <2>2, <2>3, <2>4, <3>1 DEF Bytes
    <3>3. out'[i - 1] = out[i - 1 + 1]
      BY <1>1, <3>2, ReadingAByte
    <3> QED
      BY <2>2, <3>2, <3>3
  <2>7. OwnAnswer'
    BY <1>1, <1>3, <1>8, <2>5, <2>6 DEF OwnAnswer, Reads
  <2> QED
    BY <1>4, <1>5, <2>7 DEF Line
<1>9. CASE ~stale /\ command = "writeBlock"
  <2>1. Plain' /\ data'.left = 0
    BY <1>1, <1>9, ReadingAByte DEF Line, OwnAnswer, Plain
  <2> QED
    BY <1>1, <1>3, <1>4, <1>5, <1>9, <2>1 DEF Line, OwnAnswer, Reads
<1>10. CASE stale \/ command \in {"reset", "write"}
  BY <1>1, <1>3, <1>4, <1>5, <1>10 DEF Line, OwnAnswer, Reads
<1> QED
  BY <1>6, <1>7, <1>8, <1>9, <1>10 DEF Types, Commands, Kinds, Reads, Rest

LEMMA PollingHeaderKeepsLine ==
  ASSUME Types, Line, pollHeader
  PROVE  Types' /\ Line'
<1> USE Bounds
<1>1. /\ pc = "header" /\ readByte /\ tries \in 0 .. SPI_RESP_RETRY_COUNT
      /\ UNCHANGED <<op, value, seen, stale, regs, pending>> /\ Reads(command)
      /\ command = op.kind
  BY DEF pollHeader, Types, Line, Phases, Reads
<1>2. \/ next \in Headers \cup {"data"} /\ pc' = "data" /\ UNCHANGED <<tries, command, result>>
      \/ next \notin Headers /\ tries' = tries - 1 /\ tries > 0 /\ UNCHANGED <<pc, command, result>>
      \/ fails /\ UNCHANGED tries
  BY <1>1 DEF pollHeader, mayBe, mayDiffer, next
<1>3. Types'
  BY <1>1, <1>2, ReadingAByte DEF fails, Types, Points, Commands
<1>4. Phases' /\ OkMeansDone'
  BY <1>1, <1>2 DEF fails, Line, Phases, OkMeansDone
<1>5. data \in Rest /\ data' \in Rest /\ Len(out) \in Nat /\ Len(out') \in Nat
  BY <1>1, ReadingAByte DEF Types
<1>6. ASSUME ~stale PROVE OwnAnswer'
  <2>1. BeforeData
    BY <1>1, <1>6 DEF Line, OwnAnswer
  <2>2. CASE fails
    BY <1>1, <2>2 DEF fails, OwnAnswer, Reads
  <2>3. CASE data.left = 0
    <3>1. BeforeData' /\ data'.left = 0 /\ next \in Commands \cup {"00"}
      BY <1>1, <2>1, <2>3, ReadingBeforeData
    <3>2. next \notin Headers \cup {"data"}
      BY <3>1 DEF Headers, Commands, Kinds
    <3> QED
      BY <1>1, <1>2, <2>2, <3>1, <3>2 DEF OwnAnswer, Reads
  <2>4. CASE data.left > 0
    <3>1. /\ data' = data /\ Len(out) > 0 /\ next = out[1] /\ 1 \in Bytes
          /\ out[1] = "F0" => Len(out) = 1
          /\ out[1] # "F0" => BeforeData'
      BY <1>1, <1>5, <2>1, <2>4, ReadingBeforeData, ReadingAByte
    <3>2. CASE out[1] = "F0"
      <4>1. Len(out') = 0 /\ out' \in Seq(Signs)
        BY <1>1, <1>5, <3>1, <3>2, ReadingAByte
      <4>2. out' = <<>> /\ Whole'
        BY <1>1, <2>1, <2>4, <3>1, <4>1 DEF BeforeData, Whole
      <4>3. next \in Headers
        BY <3>1, <3>2 DEF Headers
      <4> QED
        BY <1>1, <1>2, <2>2, <4>2, <4>3 DEF OwnAnswer, Reads
    <3>3. CASE out[1] # "F0"
      <4>1. out[1] \in Commands \cup {"00"}
        BY <2>1, <3>1, <3>3 DEF BeforeData
      <4>2. next \notin Headers \cup {"data"}
        BY <3>1, <4>1 DEF Headers, Commands, Kinds
      <4> QED
        BY <1>1, <1>2, <2>2, <3>1, <3>3, <4>2 DEF OwnAnswer, Reads
    <3> QED
      BY <3>2, <3>3
  <2> QED
    BY <1>5, <2>3, <2>4 DEF Rest
<1>7. OwnAnswer'
  BY <1>1, <1>6 DEF OwnAnswer
<1> QED
  BY <1>3, <1>4, <1>7 DEF Line

LEMMA ReadingDataKeepsLine ==
  ASSUME Types, Line, readData
  PROVE  Types' /\ Line'
<1>1. /\ pc = "data" /\ result' = "ok" /\ pc' = "done"
      /\ value' \in (IF wholeAnswer THEN {data.flags} ELSE SUBSET Flags[op.reg])
      /\ UNCHANGED <<op, tries, seen, stale, regs, command, pending>>
  BY DEF readData, finishes
<1>2. out' \in Seq(Signs) /\ data' \in Rest
  <2>1. Size(op.kind) \in Nat
    BY Bounds DEF Size
  <2> QED
    BY <2>1, ReadingBytes DEF readData
<1>3. value' \in SUBSET AllFlags
  <2>1. data.flags \in SUBSET AllFlags /\ Flags[op.reg] \subseteq AllFlags
    BY FlagsInAll DEF Types, Rest
  <2> QED
    BY <1>1, <2>1
<1>4. Types'
  BY <1>1, <1>2, <1>3 DEF Types, Points
<1>5. Reads(command) /\ command = op.kind
  BY <1>1 DEF Line, Phases, Reads
<1>6. ~stale => value' \in seen
  BY <1>1 DEF Line, OwnAnswer, Whole, wholeAnswer
<1>7. Phases' /\ OkMeansDone'
  BY <1>1, <1>5, <1>6 DEF Phases, OkMeansDone, Reads
<1> QED
  BY <1>1, <1>4, <1>5, <1>7 DEF Line, OwnAnswer, Reads

LEMMA WritingDataKeepsLine ==
  ASSUME Types, Line, writeData
  PROVE  Types' /\ Line'
<1>1. /\ pc = "block" /\ pc' = "rsp" /\ command = "writeBlock" /\ op.kind = "writeBlock"
      /\ UNCHANGED <<command, op, tries, result, value, stale>>
  BY DEF writeData, Line, Phases
<1>2. Phases' /\ OkMeansDone'
  BY <1>1 DEF Line, Phases, OkMeansDone
<1>3. CASE UNCHANGED <<chip, seen>>
  <2>1. UNCHANGED <<out, data, seen, regs, pending>>
    BY <1>3 DEF chip, line
  <2>2. ~stale => Plain /\ data.left = 0
    BY <1>1 DEF Line, OwnAnswer
  <2>3. ~stale => \A i \in Bytes : out[i] # "C3"
    BY <2>2 DEF Plain, Commands, Kinds
  <2>4. OwnAnswer'
    BY <1>1, <2>1, <2>2, <2>3 DEF OwnAnswer, Reads, Bytes
  <2> QED
    BY <1>1, <1>2, <2>1, <2>4 DEF Line, Types, Points
<1>4. CASE ~UNCHANGED <<chip, seen>>
  <2>1. PICK late \in {0} \cup LateBy :
          /\ out' = Idle(rspLength - 2 + late) \o <<"C3", "00">> /\ data' = NoData
          /\ pending # "none" /\ pending' = "none"
          /\ regs' = [regs EXCEPT ![pending] = op.value] /\ seen' = seen \cup {op.value}
    BY <1>4 DEF writeData
  <2>2. out' \in Seq(Signs)
    <3>1. rspLength - 2 + late \in Nat
      BY Bounds DEF rspLength
    <3>2. Idle(rspLength - 2 + late) \in Seq(Signs) /\ <<"C3", "00">> \in Seq(Signs)
      BY <3>1 DEF Idle, Signs
    <3> QED
      BY <2>1, <3>2
  <2>3. data' \in Rest /\ data'.left = 0
    BY <2>1 DEF NoData, Rest
  <2>4. op.value \in SUBSET AllFlags /\ op.value \in seen' /\ pending \in Regs
    BY <2>1 DEF Types
  <2>5. Types'
    BY <1>1, <2>1, <2>2, <2>3, <2>4 DEF Types, Points
  <2>6. OwnAnswer'
    BY <1>1, <2>3, <2>4 DEF OwnAnswer, Reads
  <2> QED
    BY <1>2, <2>5, <2>6 DEF Line
<1> QED
  BY <1>3, <1>4

LEMMA RespondingKeepsLine ==
  ASSUME Types, Line, spi_data_rsp
  PROVE  Types' /\ Line'
<1>1. /\ pc = "rsp" /\ readBytes(rspLength) /\ rspLength \in {2, 3}
      /\ UNCHANGED <<op, tries, value, seen, stale, regs, pending>>
      /\ command = "writeBlock" /\ op.kind = "writeBlock"
  BY DEF spi_data_rsp, rspLength, Line, Phases
<1>2. out' \in Seq(Signs) /\ data' \in Rest
  BY <1>1, ReadingBytes
<1>3. CASE mayBe(rspLength - 1, {"C3"}) /\ finishes
  <2>1. Types'
    BY <1>1, <1>2, <1>3 DEF finishes, Types, Points
  <2>2. ASSUME ~stale PROVE op.value \in seen
    <3>1. data.left = 0 /\ (\A i \in Bytes : out[i] = "C3" => op.value \in seen) /\ Len(out) \in Nat
      BY <1>1, <2>2 DEF Line, OwnAnswer, Types
    <3>2. byteAt(rspLength - 1) \in {"C3", "data"} /\ rspLength - 1 \in {1, 2}
      BY <1>1, <1>3 DEF mayBe
    <3>3. rspLength - 1 <= Len(out) \/ byteAt(rspLength - 1) = "00"
      BY <3>1, <3>2 DEF byteAt
    <3>4. rspLength - 1 \in Bytes /\ out[rspLength - 1] \in {"C3", "data"}
      BY <3>1, <3>2, <3>3 DEF byteAt, Bytes
    <3>5. out[rspLength - 1] # "data"
      <4>1. out[rspLength - 1] \in Signs
        BY <3>4 DEF Bytes, Types
      <4> QED
        BY <4>1 DEF Signs, Commands, Kinds
    <3> QED
      BY <3>1, <3>4, <3>5
  <2> QED
    BY <1>1, <1>3, <2>1, <2>2 DEF finishes, Line, OwnAnswer, Phases, OkMeansDone, Reads
<1>4. CASE fails
  BY <1>1, <1>2, <1>4 DEF fails, Types, Points, Commands, Line, OwnAnswer, Phases, OkMeansDone, Reads
<1> QED
  BY <1>3, <1>4 DEF spi_data_rsp

LEMMA AccessKeepsInvariant ==
  ASSUME IInv, Access
  PROVE  IInv'
BY SendingKeepsLine, SkippingKeepsLine, PollingEchoKeepsLine, PollingStateKeepsLine,
   PollingHeaderKeepsLine, ReadingDataKeepsLine, WritingDataKeepsLine, RespondingKeepsLine
DEF IInv, Access

(* Between accesses                                                         *)
Rests == pc \in {"idle", "done"}

LEMMA StartingKeepsInvariant ==
  ASSUME IInv, Rests, NEW kind \in Kinds, NEW reg \in Regs, NEW v \in SUBSET AllFlags,
         start(kind, reg, v)
  PROVE  IInv'
<1>1. /\ op' = [kind |-> kind, reg |-> reg, value |-> v]
      /\ pc' = "cmd" /\ command' = kind /\ result' = "ok" /\ seen' = {}
      /\ UNCHANGED <<tries, value, regs, out, data, pending>>
  BY DEF start, chip, line
<1>2. command' \in Commands /\ command' # "reset"
  BY <1>1 DEF Commands, Kinds
<1>3. Types'
  BY <1>1, <1>2 DEF IInv, Types, Points
<1> QED
  BY <1>1, <1>2, <1>3 DEF IInv, Line, OwnAnswer, Phases, OkMeansDone

LEMMA EndingKeepsInvariant ==
  ASSUME IInv, Rests, NEW state, ends(state)
  PROVE  IInv'
<1>1. pc' = "idle" /\ UNCHANGED <<command, op, tries, result, value, seen, regs, out, data, pending>>
  BY DEF ends, chip, line
<1> QED
  BY <1>1 DEF IInv, Types, Points, Line, OwnAnswer, Phases, OkMeansDone

(* The chip changes its registers by itself, also while they are read.      *)
LEMMA ChipKeepsInvariant ==
  ASSUME IInv, Firmware
  PROVE  IInv'
<1>1. /\ UNCHANGED <<pc, command, op, tries, result, value, seen, stale, out, data, pending>>
      /\ regs' \in [Regs -> SUBSET AllFlags]
  <2>1. CASE \E r \in Regs, v \in SUBSET {"done", "finished", "init"} : sets(r, v)
    BY <2>1, FlagsInAll DEF sets, host, line, IInv, Types
  <2>2. CASE UNCHANGED spiVars
    BY <2>2 DEF spiVars, host, chip, line, IInv, Types
  <2> QED
    BY <2>1, <2>2, RegsAre
    DEF Firmware, efuseLoads, romFinishes, firmwareStarts, firmwareReady, flashRuns
<1> QED
  BY <1>1 DEF IInv, Types, Line, OwnAnswer, BeforeData, Plain, Whole, Phases, OkMeansDone, Bytes

(* Every step of the driver begins an access, or ends what it was doing.    *)
LEMMA ValuesRead ==
  ASSUME Types
  PROVE  \A v \in ReadValue : v \in SUBSET AllFlags
<1>1. op.reg \in Regs
  BY DEF Types
<1> QED
  BY <1>1, FlagsInAll DEF ReadValue, Types

Begins ==
  \E kind \in Kinds, reg \in Regs, v \in SUBSET AllFlags : \E label : accesses(label, kind, reg, v)
Ends == \E state : ends(state)

LEMMA DriverBeginsOrEnds ==
  ASSUME IInv, Driver, ~Access
  PROVE  Rests /\ (Begins \/ Ends)
<1> USE RegsAre, FlagsInAll, ValuesRead DEF IInv, Begins, Ends, Rests, answered, reads, writes, Kinds
<1>0. Types /\ value \in SUBSET AllFlags
  BY DEF Types
<1>1. CASE nm_spi_init
  <2>1. CASE readProtocol
    BY <1>0, <2>1 DEF readProtocol, wait_for_bootrom
  <2>2. CASE setProtocol \/ readChipId
    BY <1>0, <2>2 DEF setProtocol, readChipId, wait_for_bootrom
  <2>3. CASE spi_init_pkt_sz
    <3>1. ASSUME answered("packetSize"), NEW v \in ReadValue,
                 writes("setPacketSize", "protocol", v \cup {"8k"})
          PROVE  Rests /\ Begins
      <4>1. v \cup {"8k"} \in SUBSET AllFlags
        BY <1>0
      <4> QED
        BY <3>1, <4>1
    <3>2. CASE answered("setPacketSize") /\ wait_for_bootrom
      BY <3>2 DEF wait_for_bootrom
    <3> QED
      BY <2>3, <3>1, <3>2 DEF spi_init_pkt_sz
  <2> QED
    BY <1>1, <2>1, <2>2, <2>3 DEF nm_spi_init
<1>2. CASE waitEfuse
  BY <1>0, <1>2 DEF waitEfuse
<1>3. CASE waitBootRom
  BY <1>0, <1>3 DEF waitBootRom, versionNext
<1>4. CASE getChipId
  BY <1>0, <1>4 DEF getChipId, applyConf, Conf
<1>5. CASE chip_apply_conf
  BY <1>0, <1>5 DEF chip_apply_conf, applyConf, Conf
<1>6. CASE wait_for_firmware_start
  BY <1>0, <1>6 DEF wait_for_firmware_start
<1>7. CASE enable_interrupts
  BY <1>0, <1>7 DEF enable_interrupts
<1>8. CASE nm_get_firmware_full_info
  BY <1>0, <1>8 DEF nm_get_firmware_full_info
<1>9. CASE chip_deinit
  BY <1>0, <1>9 DEF chip_deinit, deinitFails
<1>10. CASE spi_flash_enable
  BY <1>0, <1>10 DEF spi_flash_enable, spi_flash_enter_low_power_mode, deinitFails
<1> QED
  BY <1>1, <1>2, <1>3, <1>4, <1>5, <1>6, <1>7, <1>8, <1>9, <1>10 DEF Driver

LEMMA OthersBeginOrEnd ==
  ASSUME IInv, traffic \/ nm_drv_deinit
  PROVE  Rests /\ (Begins \/ Ends)
BY RegsAre, FlagsInAll
DEF traffic, nm_drv_deinit, Begins, Ends, Rests, answered, reads, Kinds

LEMMA BeginningKeepsInvariant ==
  ASSUME IInv, Rests, Begins \/ Ends
  PROVE  IInv'
BY StartingKeepsInvariant, EndingKeepsInvariant DEF Begins, Ends, accesses

(* A reset of the chip                                                      *)
LEMMA InitializingKeepsInvariant ==
  ASSUME IInv, m2m_wifi_init
  PROVE  IInv'
<1>1. /\ op' = [kind |-> "read", reg |-> "protocol", value |-> {}]
      /\ pc' = "cmd" /\ command' = "read" /\ result' = "ok" /\ seen' = {}
      /\ out' = <<>> /\ data' = NoData /\ pending' = "none" /\ UNCHANGED <<tries, value>>
  BY DEF m2m_wifi_init
<1>2. regs' \in [Regs -> SUBSET AllFlags]
  <2>1. PICK skip \in SUBSET Flags["waitHost"] : regs' = PowerOn(skip)
    BY DEF m2m_wifi_init
  <2>2. skip \in SUBSET AllFlags
    BY <2>1, RegsAre, FlagsInAll
  <2> QED
    BY <2>1, <2>2, FlagsInAll DEF PowerOn
<1>3. Types'
  BY <1>1, <1>2, RegsAre DEF IInv, Types, Points, Kinds, Commands, NoData, Rest
<1> QED
  BY <1>1, <1>3 DEF IInv, Line, OwnAnswer, Phases, OkMeansDone

(* The invariant of the line holds at the start,                           *)
LEMMA InitInvariant == Init => IInv
<1> SUFFICES ASSUME Init PROVE IInv
  OBVIOUS
<1>1. regs \in [Regs -> SUBSET AllFlags]
  <2>1. PICK skip \in SUBSET Flags["waitHost"] : regs = PowerOn(skip)
    BY DEF Init
  <2>2. skip \in SUBSET AllFlags
    BY <2>1, RegsAre, FlagsInAll
  <2> QED
    BY <2>1, <2>2, FlagsInAll DEF PowerOn
<1>2. Types
  BY <1>1, RegsAre, Bounds DEF Init, NoAccess, Types, Points, Kinds, Commands, NoData, Rest
<1> QED
  BY <1>2 DEF Init, NoAccess, IInv, Line, OwnAnswer, Phases, OkMeansDone

(* and every step keeps it.                                                *)
LEMMA StepInvariant == IInv /\ [Next]_vars => IInv'
<1> SUFFICES ASSUME IInv, [Next]_vars PROVE IInv'
  OBVIOUS
<1>1. CASE Access
  BY <1>1, AccessKeepsInvariant
<1>2. CASE Driver /\ ~Access
  BY <1>2, DriverBeginsOrEnds, BeginningKeepsInvariant
<1>3. CASE traffic \/ nm_drv_deinit
  BY <1>3, OthersBeginOrEnd, BeginningKeepsInvariant
<1>4. CASE m2m_wifi_init
  BY <1>4, InitializingKeepsInvariant
<1>5. CASE Firmware
  BY <1>5, ChipKeepsInvariant
<1>6. CASE UNCHANGED vars
  BY <1>6 DEF vars, spiVars, host, chip, line, IInv, Types, Line, OwnAnswer, BeforeData, Plain,
              Whole, Phases, OkMeansDone, Bytes
<1> QED
  BY <1>1, <1>2, <1>3, <1>4, <1>5, <1>6 DEF Next

(* OkMeansDone (spi_data_read, spi_data_write and their callers in          *)
(* nmspi.c): a read that reports success returns what its register held     *)
(* during the access, and a block write that does was carried out, unless   *)
(* its last command was lost in the rest of an earlier answer.              *)
THEOREM ReadsAreReal == Spec => []OkMeansDone
<1>1. IInv => OkMeansDone
  BY DEF IInv, Line
<1> QED
  BY <1>1, InitInvariant, StepInvariant, PTL DEF Spec

-----------------------------------------------------------------------------
(* The steps of an access that neither send a command nor a block leave all *)
(* of this alone.                                                           *)
Busy == pc # "idle"

LEMMA BusyAccess == ASSUME Access PROVE Busy /\ Busy'
BY DEF Access, Busy, spi_cmd, skipByte, pollEcho, pollState, pollHeader, readData, writeData,
       spi_data_rsp, afterState, retryAgain, finishes, fails

LEMMA PollingKeepsProgress ==
  ASSUME Progress, Busy, Busy', UNCHANGED stageVars, blind => blind',
         UNCHANGED <<gu8Crc_off, op, seen, regs, pending>>
  PROVE  Progress'
<1> USE DEF Progress, stageVars, Busy
<1>1. Ops' /\ Places'
  BY DEF Ops, Permitted, Places
<1>2. SeenHolds' /\ ChipHolds'
  BY DEF SeenHolds, ChipHolds, understands
<1>3. Achieved' /\ UpMeansRunning'
  BY DEF Achieved, Reached, UpMeansRunning, understands
<1> QED
  BY <1>1, <1>2, <1>3

(* The chip takes a read.                                                   *)
LEMMA ReadingKeepsProgress ==
  ASSUME Types, Progress, Busy, Busy', understands, UNCHANGED stageVars, blind => blind',
         UNCHANGED <<gu8Crc_off, op, regs>>, pending' \in {"none", "memory"},
         seen' = seen \/ (Reads(op.kind) /\ seen' = seen \cup {regs[op.reg]})
  PROVE  Progress'
<1> USE DEF Progress, stageVars, Busy
<1>0. at # "none" /\ Permitted(at, op.kind, op.reg, op.value, chipid)
  BY DEF Ops, Places
<1>1. Ops' /\ Places'
  BY DEF Ops, Places
<1>2. ChipHolds' /\ Achieved' /\ UpMeansRunning'
  BY DEF ChipHolds, Achieved, Reached, UpMeansRunning, understands
<1>3. at \in {"efuse", "waitHost", "bootRom", "gp1", "state"} => op.reg = at
  BY <1>0 DEF Permitted
<1>4. SeenHolds'
  BY <1>3 DEF SeenHolds, ChipHolds, understands
<1> QED
  BY <1>1, <1>2, <1>4

(* The chip takes a register write.                                         *)
LEMMA WritingKeepsProgress ==
  ASSUME Types, Progress, Busy, Busy', understands, UNCHANGED stageVars, blind => blind',
         UNCHANGED <<gu8Crc_off, op>>,
         op.kind = "write", regs' = [regs EXCEPT ![op.reg] = op.value],
         seen' = seen \cup {op.value}, pending' \in {"none", "memory"}
  PROVE  Progress'
<1> USE DEF Progress, stageVars, Busy
<1>0. at # "none" /\ Permitted(at, op.kind, op.reg, op.value, chipid)
  BY DEF Ops, Places
<1>1. \A r \in Regs : regs'[r] = IF r = op.reg THEN op.value ELSE regs[r]
  BY DEF Types
<1>2. /\ \A r \in {"protocol", "efuse", "waitHost", "bootRom", "state", "gp1"} :
           r \in Regs /\ regs'[r] = IF r = op.reg THEN op.value ELSE regs[r]
  BY <1>1, RegsAre
<1>3. /\ regs'["efuse"] = regs["efuse"] /\ regs'["waitHost"] = regs["waitHost"]
      /\ at \notin {"efuse", "waitHost", "bootRom", "gp1", "state", "revisionBlock"}
      /\ driver = "up" => op.reg = "memory"
  BY <1>0, <1>2 DEF Permitted, Places
<1>4. Ops' /\ Places'
  BY DEF Ops, Places
<1>5. SeenHolds'
  BY <1>2, <1>3 DEF SeenHolds, understands
<1>6. ChipHolds'
  BY <1>0, <1>2, <1>3 DEF ChipHolds, Permitted, StartStage, SpiStage, RomStage, ConfStage
<1>7. /\ op.reg = "gp1" => at = "applyConf" /\ op.value = Conf(chipid)
      /\ op.reg = "bootRom" => at = "startFirmware"
  BY <1>0 DEF Permitted
<1>8. Achieved'
  BY <1>2, <1>3, <1>7 DEF Achieved, Reached, StartStage, ReadyStage
<1>9. UpMeansRunning'
  <2>1. ~blind /\ "start" \in regs'["bootRom"] => firmware # "rom" /\ regs'["gp1"] = Conf("3A0")
    BY <1>2, <1>7 DEF UpMeansRunning, Achieved, Reached, StartStage, ConfStage, ChipHolds
  <2>2. driver = "up" => regs'["protocol"] = regs["protocol"]
    BY <1>2, <1>3
  <2> QED
    BY <2>1, <2>2 DEF UpMeansRunning, understands
<1> QED
  BY <1>4, <1>5, <1>6, <1>8, <1>9

(* The chip takes a block.                                                  *)
LEMMA BlockKeepsProgress ==
  ASSUME Types, Progress, Busy, Busy', UNCHANGED stageVars, blind => blind',
         UNCHANGED <<gu8Crc_off, op>>,
         op.kind = "writeBlock", pending = "memory", pending' = "none",
         regs' = [regs EXCEPT ![pending] = op.value], seen' = seen \cup {op.value}
  PROVE  Progress'
<1> USE DEF Progress, stageVars, Busy
<1>0. at # "none" /\ Permitted(at, op.kind, op.reg, op.value, chipid)
  BY DEF Ops, Places
<1>1. \A r \in {"protocol", "efuse", "waitHost", "bootRom", "state", "gp1"} : regs'[r] = regs[r]
  BY RegsAre DEF Types
<1>2. at \notin {"efuse", "waitHost", "bootRom", "gp1", "state", "revisionBlock"}
  BY <1>0 DEF Permitted
<1>3. Ops' /\ Places'
  BY DEF Ops, Places
<1>4. SeenHolds' /\ ChipHolds'
  BY <1>1, <1>2 DEF SeenHolds, ChipHolds
<1>5. Achieved' /\ UpMeansRunning'
  BY <1>1 DEF Achieved, Reached, UpMeansRunning, understands
<1> QED
  BY <1>3, <1>4, <1>5

LEMMA AccessKeepsStages ==
  ASSUME IInv, Stages, Access, blind' = (blind \/ takesStale), UNCHANGED stageVars
  PROVE  Stages'
<1>1. Busy /\ Busy' /\ Types /\ Progress /\ (blind => blind')
  BY BusyAccess DEF IInv, Stages
<1>2. ASSUME skipByte \/ pollEcho \/ pollState \/ pollHeader \/ readData \/ spi_data_rsp PROVE Progress'
  BY <1>1, <1>2, PollingKeepsProgress
  DEF skipByte, pollEcho, pollState, pollHeader, readData, spi_data_rsp
<1>3. ASSUME spi_cmd PROVE Progress'
  <2>1. UNCHANGED <<gu8Crc_off, op>> /\ command \in {op.kind, "reset"}
    BY <1>3 DEF spi_cmd, IInv, Line, Phases
  <2>2. ASSUME understands, NEW front, NEW middle, takeCommand(front, middle) PROVE Progress'
    <3>1. pending' \in {"none", "memory"}
      BY <1>1, <2>1, <2>2 DEF takeCommand, Busy, Progress, Places, Ops, Permitted
    <3>2. CASE command = "write"
      BY <1>1, <2>1, <2>2, <3>1, <3>2, WritingKeepsProgress DEF takeCommand, Reads
    <3>3. CASE command # "write"
      <4>1. UNCHANGED regs /\ (seen' = seen \/ (Reads(op.kind) /\ seen' = seen \cup {regs[op.reg]}))
        <5>1. CASE Reads(command)
          BY <2>1, <2>2, <3>3, <5>1 DEF takeCommand, Reads
        <5>2. CASE ~Reads(command)
          <6>1. seen' = seen
            BY <2>2, <3>3, <5>2, Zenon DEF takeCommand
          <6>2. regs' = regs
            BY <2>2, <3>3 DEF takeCommand
          <6> QED
            BY <6>1, <6>2
        <5> QED
          BY <5>1, <5>2
      <4> QED
        BY <1>1, <2>1, <2>2, <3>1, <4>1, ReadingKeepsProgress
    <3> QED
      BY <3>2, <3>3
  <2>3. CASE loseCommand
    BY <1>1, <2>1, <2>3, PollingKeepsProgress DEF loseCommand, chip
  <2> QED
    BY <1>3, <2>2, <2>3 DEF spi_cmd
<1>4. ASSUME writeData PROVE Progress'
  <2>1. UNCHANGED <<gu8Crc_off, op>> /\ op.kind = "writeBlock"
    BY <1>4 DEF writeData, IInv, Line, Phases
  <2>2. CASE UNCHANGED <<chip, seen>>
    BY <1>1, <2>1, <2>2, PollingKeepsProgress DEF chip
  <2>3. CASE ~UNCHANGED <<chip, seen>>
    <3>1. /\ pending = "memory" /\ pending' = "none"
          /\ regs' = [regs EXCEPT ![pending] = op.value] /\ seen' = seen \cup {op.value}
      BY <1>1, <1>4, <2>3 DEF writeData, Progress, Ops
    <3> QED
      BY <1>1, <2>1, <3>1, BlockKeepsProgress
  <2> QED
    BY <2>2, <2>3
<1>5. Noticed'
  <2>1. CASE spi_cmd
    BY <2>1 DEF spi_cmd, Noticed
  <2>2. CASE ~spi_cmd
    <3>1. UNCHANGED <<op, stale, driver>>
      BY <2>2 DEF Access, skipByte, pollEcho, pollState, pollHeader, readData, writeData, spi_data_rsp,
                  stageVars
    <3> QED
      BY <3>1 DEF Noticed, takesStale
  <2> QED
    BY <2>1, <2>2
<1> QED
  BY <1>2, <1>3, <1>4, <1>5 DEF Access, Stages

-----------------------------------------------------------------------------
(* A step that begins an access enters a stage: this is what it owes.       *)
LEMMA EnteringKeepsStages ==
  ASSUME Types, Stages, NEW label, NEW kind \in Kinds, NEW reg, NEW v,
         accesses(label, kind, reg, v), label # "none",
         firmwareKept, driver' \in {driver, "stopping"},
         driver = "starting" => driver' = driver,
         Permitted(label, kind, reg, v, chipid'),
         ~blind' => ~blind /\ Reached(label, chipid'),
         label \in SpiStage \cup RomStage \cup ConfStage => "start" \notin regs["bootRom"],
         IF driver = "starting"
           THEN label \in InitStages /\ (label \notin {"protocol", "setProtocol"} => gu8Crc_off')
           ELSE /\ label \notin InitStages /\ UNCHANGED gu8Crc_off
                /\ driver' = "up" => label = "traffic"
  PROVE  Stages'
<1> USE DEF Stages, Progress, firmwareKept
<1>1. /\ at' = label /\ op' = [kind |-> kind, reg |-> reg, value |-> v]
      /\ UNCHANGED <<regs, pending>> /\ seen' = {} /\ pc' = "cmd"
  BY DEF accesses, start, chip
<1>2. Ops' /\ Places'
  BY <1>1 DEF Ops, Places
<1>3. SeenHolds' /\ ChipHolds'
  BY <1>1 DEF SeenHolds, ChipHolds
<1>4. Achieved' /\ UpMeansRunning'
  BY <1>1 DEF Achieved, Reached, UpMeansRunning, understands
<1> QED
  BY <1>1, <1>2, <1>3, <1>4 DEF Noticed

(* A step that ends what the driver was doing                               *)
LEMMA EndingKeepsStages ==
  ASSUME Types, Stages, NEW state \in {"failed", "down", "up"}, ends(state), firmwareKept,
         UNCHANGED chipid, blind => blind',
         state = "up" /\ ~blind => UpMeansRunning' /\ UNCHANGED blind
  PROVE  Stages'
<1> USE DEF Stages, Progress, firmwareKept
<1>1. /\ at' = "none" /\ pc' = "idle" /\ driver' = state
      /\ UNCHANGED <<regs, pending, op, seen>>
  BY DEF ends, chip
<1>2. Ops' /\ Places'
  BY <1>1
  DEF Ops, Places, InitStages, SpiStage, RomStage, ConfStage, StartStage, ReadyStage
<1>3. SeenHolds' /\ ChipHolds'
  BY <1>1 DEF SeenHolds, ChipHolds, SpiStage, RomStage, ConfStage
<1>4. Achieved' /\ UpMeansRunning'
  BY <1>1 DEF Achieved, Reached, UpMeansRunning, ConfStage, StartStage, ReadyStage
<1> QED
  BY <1>1, <1>2, <1>3, <1>4 DEF Noticed

(* What a read that succeeded has returned is what the chip was asked for.  *)
LEMMA SuccessIsSeen ==
  ASSUME IInv, Stages, pc = "done", ok, op.kind \in {"read", "readBlock"}, driver = "starting", ~blind
  PROVE  value \in seen
BY DEF IInv, Line, OkMeansDone, ok, Stages, Noticed

-----------------------------------------------------------------------------
(* The steps of the driver, stage by stage.                                 *)

(* nm_spi_init: the checksum is turned off, the packet size set.            *)
LEMMA SpiStageKeepsStages ==
  ASSUME IInv, Stages, nm_spi_init
  PROVE  Stages'
<1> USE DEF InitStages, SpiStage, RomStage, ConfStage, StartStage, ReadyStage
<1>1. Types /\ UNCHANGED chipid /\ continues
  BY DEF IInv, nm_spi_init, readProtocol, setProtocol, readChipId, spi_init_pkt_sz
<1>2. at \in SpiStage /\ driver = "starting" /\ "start" \notin regs["bootRom"]
      /\ (at \in {"chipId", "packetSize", "setPacketSize"} => gu8Crc_off)
  BY DEF nm_spi_init, readProtocol, setProtocol, readChipId, spi_init_pkt_sz, answered,
         Stages, Progress, Places, ChipHolds
<1>3. ASSUME NEW label \in SpiStage \cup {"efuse"}, NEW kind \in {"read", "write"}, NEW reg, NEW v,
             accesses(label, kind, reg, v), kind = "write" => reg = "protocol" /\ "8k" \in v,
             label = "efuse" => kind = "read" /\ reg = "efuse",
             label \notin {"protocol", "setProtocol"} => gu8Crc_off', blind => blind'
      PROVE  Stages'
  <2>1. Permitted(label, kind, reg, v, chipid') /\ Reached(label, chipid')
    BY <1>3 DEF Permitted, Reached
  <2> QED
    BY <1>1, <1>2, <1>3, <2>1, EnteringKeepsStages DEF continues, driverKept, Kinds
<1>4. CASE readProtocol
  BY <1>1, <1>3, <1>4 DEF readProtocol, reads, writes, wait_for_bootrom
<1>5. CASE setProtocol
  BY <1>3, <1>5 DEF setProtocol, reads
<1>6. CASE readChipId
  BY <1>2, <1>3, <1>6 DEF readChipId, reads, wait_for_bootrom, answered
<1>7. CASE spi_init_pkt_sz
  <2>1. CASE answered("packetSize")
    <3>1. PICK v \in ReadValue : writes("setPacketSize", "protocol", v \cup {"8k"})
      BY <1>7, <2>1 DEF spi_init_pkt_sz, answered
    <3>2. gu8Crc_off' /\ (blind => blind')
      BY <1>2, <1>7, <2>1 DEF spi_init_pkt_sz, answered, trusts
    <3> QED
      BY <1>3, <3>1, <3>2 DEF writes
  <2>2. CASE answered("setPacketSize")
    BY <1>2, <1>3, <1>7, <2>2 DEF spi_init_pkt_sz, reads, wait_for_bootrom, answered
  <2> QED
    BY <1>7, <2>1, <2>2 DEF spi_init_pkt_sz
<1> QED
  BY <1>4, <1>5, <1>6, <1>7 DEF nm_spi_init

(* wait_for_bootrom: the efuse, without a limit                            *)
LEMMA EfuseKeepsStages ==
  ASSUME IInv, Stages, waitEfuse
  PROVE  Stages'
<1> USE DEF InitStages, SpiStage, RomStage, ConfStage, StartStage, ReadyStage
<1>1. /\ Types /\ UNCHANGED <<chipid, gu8Crc_off>> /\ continues /\ blind' = (blind \/ ~ok)
      /\ at = "efuse" /\ pc = "done" /\ driver = "starting" /\ "start" \notin regs["bootRom"]
      /\ gu8Crc_off
  BY DEF IInv, waitEfuse, answered, Stages, Progress, Places, ChipHolds, trusts
<1>2. PICK v \in ReadValue : reads(IF "done" \in v THEN "waitHost" ELSE "efuse")
  BY DEF waitEfuse
<1>3. op.kind = "read"
  BY <1>1 DEF Stages, Progress, Ops, Permitted
<1>4. ok /\ ~blind /\ "done" \in v => regs["efuse"] = {"done"}
  <2>1. ok /\ ~blind => v \in seen
    BY <1>1, <1>2, <1>3, SuccessIsSeen DEF ReadValue
  <2> QED
    BY <1>1, <2>1 DEF Stages, Progress, SeenHolds
<1>5. ASSUME NEW label \in {"efuse", "waitHost"}, label = "waitHost" <=> "done" \in v, reads(label)
      PROVE  Stages'
  <2>1. Permitted(label, "read", label, {}, chipid')
    BY <1>5 DEF Permitted
  <2>2. ~blind' => ~blind /\ Reached(label, chipid')
    BY <1>1, <1>4, <1>5 DEF Reached
  <2> QED
    BY <1>1, <1>5, <2>1, <2>2, EnteringKeepsStages DEF continues, driverKept, Kinds, reads
<1> QED
  BY <1>2, <1>5

(* wait_for_bootrom: the boot ROM, unless the chip is to skip it            *)
LEMMA BootRomKeepsStages ==
  ASSUME IInv, Stages, waitBootRom
  PROVE  Stages'
<1> USE DEF InitStages, SpiStage, RomStage, ConfStage, StartStage, ReadyStage
<1>1. /\ Types /\ UNCHANGED <<chipid, gu8Crc_off>> /\ continues /\ blind' = (blind \/ ~ok)
      /\ at \in {"waitHost", "bootRom"} /\ pc = "done" /\ driver = "starting"
      /\ "start" \notin regs["bootRom"] /\ gu8Crc_off
  BY DEF IInv, waitBootRom, answered, Stages, Progress, Places, ChipHolds, trusts
<1>2. op.kind = "read"
  BY <1>1 DEF Stages, Progress, Ops, Permitted
<1>3. \A v \in ReadValue : ok /\ ~blind => v \in seen
  BY <1>1, <1>2, SuccessIsSeen DEF ReadValue
<1>4. ~blind => regs["efuse"] = {"done"}
  BY <1>1 DEF Stages, Progress, Achieved, Reached
<1>5. ASSUME NEW v \in ReadValue, ~blind, ok,
             \/ at = "waitHost" /\ v # {}
             \/ at = "bootRom" /\ v = {"finished"}
      PROVE  firmware # "rom"
  BY <1>3, <1>4, <1>5 DEF Stages, Progress, SeenHolds, ChipHolds
<1>6. ASSUME reads("bootRom") PROVE Stages'
  <2>1. /\ Permitted("bootRom", "read", "bootRom", {}, chipid')
        /\ (~blind' => ~blind /\ Reached("bootRom", chipid'))
    BY <1>1, <1>4 DEF Permitted, Reached
  <2> QED
    BY <1>1, <1>6, <2>1, EnteringKeepsStages DEF continues, driverKept, Kinds, reads
<1>7. ASSUME versionNext, ~blind' => firmware # "rom" PROVE Stages'
  <2>1. Permitted("version", "write", "state", {"version"}, chipid')
    BY DEF Permitted
  <2>2. ~blind' => ~blind /\ Reached("version", chipid')
    BY <1>1, <1>7 DEF Reached
  <2> QED
    BY <1>1, <1>7, <2>1, <2>2, EnteringKeepsStages DEF continues, driverKept, Kinds, versionNext, writes
<1>8. CASE answered("waitHost")
  <2>1. PICK v \in ReadValue : IF v = {} THEN reads("bootRom") ELSE versionNext
    BY <1>8 DEF waitBootRom, answered
  <2>2. CASE v = {}
    BY <1>6, <2>1, <2>2
  <2>3. CASE v # {}
    <3>1. ~blind' => firmware # "rom"
      BY <1>1, <1>5, <1>8, <2>1, <2>3 DEF answered
    <3> QED
      BY <1>7, <2>1, <2>3, <3>1
  <2> QED
    BY <2>2, <2>3
<1>9. CASE answered("bootRom")
  <2>1. PICK v \in ReadValue : IF v = {"finished"} THEN versionNext ELSE reads("bootRom")
    BY <1>9 DEF waitBootRom, answered
  <2>2. CASE v # {"finished"}
    BY <1>6, <2>1, <2>2
  <2>3. CASE v = {"finished"}
    <3>1. ~blind' => firmware # "rom"
      BY <1>1, <1>5, <1>9, <2>1, <2>3 DEF answered
    <3> QED
      BY <1>7, <2>1, <2>3, <3>1
  <2> QED
    BY <2>2, <2>3
<1> QED
  BY <1>8, <1>9 DEF waitBootRom

(* nmi_get_chipid and chip_apply_conf                                      *)
LEMMA ConfStageKeepsStages ==
  ASSUME IInv, Stages, getChipId \/ chip_apply_conf
  PROVE  Stages'
<1> USE DEF InitStages, SpiStage, RomStage, ConfStage, StartStage, ReadyStage
<1>0. (blind => blind') /\ at \in ConfStage /\ pc = "done" /\ UNCHANGED gu8Crc_off /\ continues
  <2>1. CASE getChipId
    <3>1. /\ pc = "done" /\ at \in {"version", "revision"} /\ UNCHANGED gu8Crc_off /\ continues
          /\ blind' = blind \/ trusts
      BY <2>1 DEF getChipId, answered
    <3>2. blind => blind'
      BY <3>1, Zenon DEF trusts
    <3> QED
      BY <3>1, <3>2 DEF ConfStage
  <2>2. CASE chip_apply_conf
    BY <2>2 DEF chip_apply_conf, answered
  <2> QED
    BY <2>1, <2>2
<1>1. /\ Types /\ UNCHANGED gu8Crc_off /\ continues /\ (blind => blind')
      /\ at \in ConfStage /\ pc = "done" /\ driver = "starting"
      /\ "start" \notin regs["bootRom"] /\ gu8Crc_off
  BY <1>0 DEF IInv, Stages, Progress, Places, ChipHolds
<1>2. /\ ~blind => firmware # "rom"
      /\ ~blind /\ at = "gp1" => chipid = "3A0"
  BY <1>1 DEF Stages, Progress, Achieved, Reached
<1>3. ASSUME applyConf(chipid'), ~blind' => chipid' = "3A0" PROVE Stages'
  <2>1. Permitted("applyConf", "write", "gp1", Conf(chipid'), chipid')
    BY DEF Permitted
  <2>2. ~blind' => ~blind /\ Reached("applyConf", chipid')
    BY <1>1, <1>2, <1>3 DEF Reached
  <2> QED
    BY <1>1, <1>3, <2>1, <2>2, EnteringKeepsStages
    DEF continues, driverKept, Kinds, applyConf, writes
<1>4. ASSUME accesses("revision", "read", "chipId", {}) PROVE Stages'
  <2>1. Permitted("revision", "read", "chipId", {}, chipid')
    BY DEF Permitted
  <2>2. ~blind' => ~blind /\ Reached("revision", chipid')
    BY <1>1, <1>2 DEF Reached
  <2> QED
    BY <1>1, <1>4, <2>1, <2>2, EnteringKeepsStages DEF continues, driverKept, Kinds
<1>5. CASE getChipId
  <2>1. CASE answered("version") /\ chipid = "3A0" /\ applyConf(chipid) /\ UNCHANGED <<chipid, blind>>
    BY <1>3, <2>1
  <2>2. CASE answered("version") /\ chipid = "none" /\ accesses("revision", "read", "chipId", {})
    BY <1>4, <2>2
  <2>3. CASE answered("revision") /\ chipid' = (IF ok THEN "3A0" ELSE "none") /\ trusts /\ applyConf(chipid')
    BY <1>3, <2>3 DEF trusts
  <2> QED
    BY <1>5, <2>1, <2>2, <2>3 DEF getChipId
<1>6. CASE chip_apply_conf
  <2>1. UNCHANGED <<chipid, blind>>
    BY <1>6 DEF chip_apply_conf
  <2>2. at \in {"applyConf", "gp1"} /\ (~blind => chipid = "3A0")
    BY <1>1, <1>6 DEF chip_apply_conf, answered, Stages, Progress, Achieved, Reached
  <2>3. CASE reads("gp1")
    <3>1. Permitted("gp1", "read", "gp1", {}, chipid')
      BY DEF Permitted
    <3>2. ~blind' => ~blind /\ Reached("gp1", chipid')
      BY <1>1, <1>2, <2>1, <2>2 DEF Reached
    <3> QED
      BY <1>1, <2>3, <3>1, <3>2, EnteringKeepsStages DEF continues, driverKept, Kinds, reads
  <2>4. CASE applyConf(chipid)
    BY <1>3, <2>1, <2>2, <2>4
  <2>5. CASE answered("gp1") /\ ok /\ value = Conf(chipid) /\ writes("startFirmware", "bootRom", {"start"})
    <3>1. ~blind => regs["gp1"] = Conf(chipid)
      BY <1>1, <2>5, SuccessIsSeen DEF answered, Stages, Progress, Places, Ops, Permitted, SeenHolds
    <3>2. Permitted("startFirmware", "write", "bootRom", {"start"}, chipid')
      BY DEF Permitted
    <3>3. ~blind' => ~blind /\ Reached("startFirmware", chipid')
      BY <1>1, <1>2, <2>1, <2>2, <3>1 DEF Reached
    <3> QED
      BY <1>1, <2>5, <3>2, <3>3, EnteringKeepsStages DEF continues, driverKept, Kinds, writes
  <2> QED
    BY <1>6, <2>3, <2>4, <2>5 DEF chip_apply_conf
<1> QED
  BY <1>5, <1>6

(* wait_for_firmware_start                                                 *)
LEMMA StartStageKeepsStages ==
  ASSUME IInv, Stages, wait_for_firmware_start
  PROVE  Stages'
<1> USE DEF InitStages, SpiStage, RomStage, ConfStage, StartStage, ReadyStage
<1>0. (blind => blind') /\ pc = "done" /\ at \in {"startFirmware", "state", "clearState"}
  <2>1. /\ pc = "done" /\ at \in {"startFirmware", "state", "clearState"}
        /\ blind' = blind \/ trusts
    BY DEF wait_for_firmware_start, answered
  <2>2. blind => blind'
    BY <2>1, Zenon DEF trusts
  <2> QED
    BY <2>1, <2>2
<1>1. /\ Types /\ UNCHANGED <<chipid, gu8Crc_off>> /\ firmwareKept /\ (blind => blind')
      /\ at \in {"startFirmware", "state", "clearState"} /\ pc = "done" /\ driver = "starting"
      /\ gu8Crc_off
  BY <1>0 DEF IInv, wait_for_firmware_start, continues, Stages, Progress, Places
<1>2. ~blind => /\ firmware # "rom" /\ chipid = "3A0" /\ regs["gp1"] = Conf("3A0")
                /\ at = "clearState" => firmware = "ready"
  BY <1>1 DEF Stages, Progress, Achieved, Reached
<1>3. ASSUME reads("state"), driverKept PROVE Stages'
  <2>1. Permitted("state", "read", "state", {}, chipid') /\ (~blind' => ~blind /\ Reached("state", chipid'))
    BY <1>1, <1>2 DEF Permitted, Reached
  <2> QED
    BY <1>1, <1>3, <2>1, EnteringKeepsStages DEF driverKept, Kinds, reads
<1>4. CASE answered("startFirmware")
  BY <1>3, <1>4 DEF wait_for_firmware_start, answered, continues
<1>5. CASE answered("state")
  <2>1. blind' = (blind \/ ~ok)
    BY <1>5 DEF wait_for_firmware_start, answered, trusts
  <2>2. PICK v \in ReadValue :
          \/ ends("failed")
          \/ v = {"init"} /\ writes("clearState", "state", {}) /\ driverKept
          \/ reads("state") /\ driverKept
    BY <1>5 DEF wait_for_firmware_start, answered
  <2>3. CASE ends("failed")
    BY <1>1, <2>3, EndingKeepsStages
  <2>4. CASE v = {"init"} /\ writes("clearState", "state", {}) /\ driverKept
    <3>1. op.kind = "read"
      BY <1>5 DEF answered, Stages, Progress, Places, Ops, Permitted
    <3>2. ok /\ ~blind => v \in seen
      BY <1>1, <2>2, <3>1, SuccessIsSeen DEF ReadValue
    <3>3. ok /\ ~blind => firmware = "ready"
      BY <1>5, <2>4, <3>2 DEF answered, Stages, Progress, SeenHolds
    <3>4. Permitted("clearState", "write", "state", {}, chipid')
      BY DEF Permitted
    <3>5. ~blind' => ~blind /\ Reached("clearState", chipid')
      BY <1>1, <1>2, <2>1, <3>3 DEF Reached
    <3> QED
      BY <1>1, <2>4, <3>4, <3>5, EnteringKeepsStages DEF driverKept, Kinds, writes
  <2>5. CASE reads("state") /\ driverKept
    BY <1>3, <2>5
  <2> QED
    BY <2>2, <2>3, <2>4, <2>5
<1>6. CASE answered("clearState")
  <2>1. reads("pinMux") /\ driverKept
    BY <1>6 DEF wait_for_firmware_start, answered, continues
  <2>2. Permitted("pinMux", "read", "pinMux", {}, chipid')
    BY DEF Permitted
  <2>3. ~blind' => ~blind /\ Reached("pinMux", chipid')
    BY <1>1, <1>2, <1>6 DEF Reached, answered
  <2> QED
    BY <1>1, <2>1, <2>2, <2>3, EnteringKeepsStages DEF driverKept, Kinds, reads
<1> QED
  BY <1>4, <1>5, <1>6 DEF wait_for_firmware_start

(* enable_interrupts and nm_get_firmware_full_info                         *)
LEMMA ReadyStageKeepsStages ==
  ASSUME IInv, Stages, enable_interrupts \/ nm_get_firmware_full_info
  PROVE  Stages'
<1> USE DEF InitStages, SpiStage, RomStage, ConfStage, StartStage, ReadyStage
<1>1. /\ Types /\ UNCHANGED <<chipid, gu8Crc_off, blind>> /\ firmwareKept
      /\ at \in ReadyStage /\ pc = "done" /\ driver = "starting" /\ gu8Crc_off
  BY DEF IInv, enable_interrupts, nm_get_firmware_full_info, answered, Stages, Progress, Places
<1>2. ~blind => /\ firmware # "rom" /\ chipid = "3A0" /\ regs["gp1"] = Conf("3A0")
                /\ firmware = "ready" /\ firmwareConf = Conf("3A0")
  BY <1>1 DEF Stages, Progress, Achieved, Reached
<1>3. ASSUME NEW label \in {"setPinMux", "intrEnable", "setIntrEnable", "revisionBlock"},
             NEW kind \in {"read", "write", "readBlock"}, NEW reg \in {"pinMux", "intrEnable", "revision"},
             NEW v, accesses(label, kind, reg, v), driverKept,
             label = "revisionBlock" => kind = "readBlock" /\ reg = "revision"
      PROVE  Stages'
  <2>1. Permitted(label, kind, reg, v, chipid')
    BY <1>3 DEF Permitted
  <2>2. ~blind' => ~blind /\ Reached(label, chipid')
    BY <1>1, <1>2 DEF Reached
  <2> QED
    BY <1>1, <1>3, <2>1, <2>2, EnteringKeepsStages DEF driverKept, Kinds
<1>4. CASE enable_interrupts
  BY <1>1, <1>3, <1>4, EndingKeepsStages DEF enable_interrupts, reads, writes
<1>5. CASE nm_get_firmware_full_info
  <2>1. CASE ~ok
    BY <1>1, <1>5, <2>1, EndingKeepsStages DEF nm_get_firmware_full_info
  <2>2. CASE ok
    <3>1. at = "revisionBlock" /\ ends("up")
      BY <1>5, <2>2 DEF nm_get_firmware_full_info, answered
    <3>2. ~blind => understands
      <4>1. op.kind = "readBlock"
        BY <3>1 DEF Stages, Progress, Ops, Permitted
      <4>2. ~blind => seen # {}
        BY <1>1, <2>2, <4>1, SuccessIsSeen
      <4> QED
        BY <3>1, <4>2 DEF Stages, Progress, SeenHolds
    <3>3. ~blind => "8k" \in regs["protocol"]
      BY <1>1, <3>2 DEF understands, Stages, Progress, ChipHolds
    <3>4. UNCHANGED regs
      BY <3>1 DEF ends, chip
    <3>5. UpMeansRunning'
      BY <1>1, <1>2, <3>2, <3>3, <3>4 DEF UpMeansRunning, understands, firmwareKept
    <3> QED
      BY <1>1, <3>1, <3>5, EndingKeepsStages
  <2> QED
    BY <2>1, <2>2
<1> QED
  BY <1>4, <1>5

(* Traffic and the way down                                                 *)
LEMMA UpStageKeepsStages ==
  ASSUME IInv, Stages, traffic \/ nm_drv_deinit \/ chip_deinit \/ spi_flash_enable
  PROVE  Stages'
<1> USE DEF InitStages, SpiStage, RomStage, ConfStage, StartStage, ReadyStage
<1> DEFINE Downs == {"globalReset", "stopFirmware", "flashMux", "setFlashMux", "flashArgument",
                     "flashGo", "flashDone", "releaseFlash"}
<1>1. Types /\ UNCHANGED chipid /\ firmwareKept /\ driver # "starting"
  BY DEF IInv, traffic, nm_drv_deinit, chip_deinit, spi_flash_enable,
         spi_flash_enter_low_power_mode, answered, Stages, Progress, Places
<1>2. ASSUME NEW label \in Downs, NEW kind \in {"read", "write"},
             NEW reg \in {"globalReset", "flashMux", "flashCmd", "flashDone"}, NEW v,
             accesses(label, kind, reg, v), driver' \in {driver, "stopping"}, driver' # "up",
             blind => blind', UNCHANGED gu8Crc_off
      PROVE  Stages'
  <2>1. Permitted(label, kind, reg, v, chipid') /\ Reached(label, chipid')
    BY <1>2 DEF Permitted, Reached
  <2> QED
    BY <1>1, <1>2, <2>1, EnteringKeepsStages DEF Kinds
<1>3. CASE traffic
  <2>1. CASE ends("up")
    <3>1. UNCHANGED <<regs, gu8Crc_off, blind, driver>>
      BY <1>3, <2>1 DEF traffic, ends, chip
    <3>2. UpMeansRunning'
      BY <1>1, <3>1 DEF Stages, Progress, UpMeansRunning, understands, firmwareKept
    <3> QED
      BY <1>1, <2>1, <3>1, <3>2, EndingKeepsStages
  <2>2. CASE \E kind \in Kinds, v \in SUBSET Flags["memory"] : accesses("traffic", kind, "memory", v)
    <3>1. PICK kind \in Kinds, v \in SUBSET Flags["memory"] : accesses("traffic", kind, "memory", v)
      BY <2>2
    <3>2. UNCHANGED <<gu8Crc_off, blind, driver>>
      BY <1>3, <3>1 DEF traffic, driverKept, accesses, start, ends
    <3>3. Permitted("traffic", kind, "memory", v, chipid') /\ Reached("traffic", chipid')
      BY DEF Permitted, Reached
    <3> QED
      BY <1>1, <3>1, <3>2, <3>3, EnteringKeepsStages
  <2> QED
    BY <1>3, <2>1, <2>2 DEF traffic
<1>4. CASE nm_drv_deinit
  BY <1>2, <1>4 DEF nm_drv_deinit, reads
<1>5. ASSUME ends("failed"), blind => blind' PROVE Stages'
  BY <1>1, <1>5, EndingKeepsStages
<1>6. driver # "up" \/ at \in {"none", "traffic"}
  BY DEF Stages, Progress, Places
<1>7. CASE chip_deinit
  BY <1>2, <1>5, <1>6, <1>7 DEF chip_deinit, deinitFails, answered, reads, writes, driverKept
<1>8. CASE spi_flash_enable
  <2>1. CASE answered("flashMux")
    BY <1>2, <1>5, <1>6, <1>8, <2>1
    DEF spi_flash_enable, spi_flash_enter_low_power_mode, deinitFails, answered, reads, writes, driverKept
  <2>2. CASE spi_flash_enter_low_power_mode /\ driverKept /\ UNCHANGED gu8Crc_off
    <3>1. (blind' = blind \/ trusts) /\ at \in Downs /\ driver' = driver
      BY <2>2 DEF spi_flash_enter_low_power_mode, answered, driverKept
    <3>4. blind => blind'
      BY <3>1, Zenon DEF trusts
    <3>2. (blind => blind') /\ driver' # "up" /\ driver' \in {driver, "stopping"}
      BY <1>6, <3>1, <3>4
    <3>3. \/ writes("flashArgument", "flashCmd", {})
          \/ writes("flashGo", "flashCmd", {"go"})
          \/ reads("flashDone")
          \/ writes("releaseFlash", "flashMux", {})
      BY <2>2 DEF spi_flash_enter_low_power_mode
    <3> QED
      BY <1>2, <2>2, <3>2, <3>3 DEF reads, writes
  <2>3. CASE answered("releaseFlash") /\ ends("down") /\ UNCHANGED blind
    BY <1>1, <2>3, EndingKeepsStages
  <2> QED
    BY <1>8, <2>1, <2>2, <2>3 DEF spi_flash_enable
<1> QED
  BY <1>3, <1>4, <1>7, <1>8

(* The bus is initialized, and the chip reset.                             *)
LEMMA InitializingKeepsStages ==
  ASSUME IInv, Stages, m2m_wifi_init
  PROVE  Stages'
<1> USE DEF InitStages, SpiStage, RomStage, ConfStage, StartStage, ReadyStage
<1>1. /\ at' = "protocol" /\ op' = [kind |-> "read", reg |-> "protocol", value |-> {}]
      /\ pc' = "cmd" /\ seen' = {} /\ pending' = "none" /\ driver' = "starting"
      /\ firmware' = "rom"
  BY DEF m2m_wifi_init
<1>2. /\ regs'["efuse"] = {} /\ regs'["bootRom"] = {} /\ regs'["state"] = {}
      /\ regs'["protocol"] = {"crc"}
  BY RegsAre DEF m2m_wifi_init, PowerOn
<1>3. Ops' /\ Places'
  BY <1>1 DEF Ops, Permitted, Places
<1>4. SeenHolds' /\ ChipHolds'
  BY <1>1, <1>2 DEF SeenHolds, ChipHolds
<1>5. Achieved' /\ UpMeansRunning'
  BY <1>1, <1>2 DEF Achieved, Reached, UpMeansRunning
<1> QED
  BY <1>1, <1>3, <1>4, <1>5 DEF Stages, Progress, Noticed

(* What the chip does by itself                                            *)
LEMMA ChipKeepsStages ==
  ASSUME IInv, Stages, Firmware
  PROVE  Stages'
<1> USE DEF Stages, Progress
<1>1. /\ UNCHANGED <<gu8Crc_off, pc, op, seen, pending, at, chipid, driver, blind>> /\ Noticed'
      /\ regs \in [Regs -> SUBSET AllFlags]
      /\ {"protocol", "efuse", "waitHost", "bootRom", "state", "gp1", "flashDone"} \subseteq Regs
  BY RegsAre DEF Firmware, efuseLoads, romFinishes, firmwareStarts, firmwareReady, flashRuns, sets,
                 spiVars, host, chip, IInv, Types, Noticed
<1>2. Ops' /\ Places'
  BY <1>1 DEF Ops, Places
<1>3. CASE efuseLoads
  <2>1. /\ regs["efuse"] = {} /\ regs' = [regs EXCEPT !["efuse"] = {"done"}]
        /\ firmware' \in {firmware, "booted"} /\ (regs["waitHost"] # {} => firmware' = "booted")
        /\ UNCHANGED firmwareConf
    BY <1>3 DEF efuseLoads, sets
  <2>2. firmware = "rom"
    BY <2>1 DEF ChipHolds
  <2> QED
    BY <1>1, <1>2, <2>1, <2>2
    DEF SeenHolds, ChipHolds, Achieved, Reached, UpMeansRunning, understands
<1>4. CASE romFinishes
  BY <1>1, <1>2, <1>4
  DEF romFinishes, sets, SeenHolds, ChipHolds, Achieved, Reached, UpMeansRunning, understands
<1>5. CASE firmwareStarts
  BY <1>1, <1>2, <1>5
  DEF firmwareStarts, spiVars, chip, SeenHolds, ChipHolds, Achieved, Reached, UpMeansRunning, understands
<1>6. CASE firmwareReady
  BY <1>1, <1>2, <1>6
  DEF firmwareReady, sets, SeenHolds, ChipHolds, Achieved, Reached, UpMeansRunning, understands
<1>7. CASE flashRuns
  BY <1>1, <1>2, <1>7
  DEF flashRuns, firmwareKept, sets, SeenHolds, ChipHolds, Achieved, Reached, UpMeansRunning, understands
<1> QED
  BY <1>3, <1>4, <1>5, <1>6, <1>7 DEF Firmware

(* The stages at the start                                                 *)
LEMMA InitialStages == Init => Stages
<1> SUFFICES ASSUME Init PROVE Stages
  OBVIOUS
<1>1. /\ regs["efuse"] = {} /\ regs["bootRom"] = {} /\ regs["state"] = {}
      /\ regs["protocol"] = {"crc"}
  BY RegsAre DEF Init, PowerOn
<1> QED
  BY <1>1
  DEF Init, NoAccess, Stages, Noticed, Progress, Ops, Places, SeenHolds, ChipHolds, Achieved, Reached,
      UpMeansRunning,
      InitStages, SpiStage, RomStage, ConfStage, StartStage, ReadyStage

(* All steps together                                                      *)
LEMMA StepKeepsStages ==
  ASSUME IInv, Stages, [Next]_vars
  PROVE  Stages'
<1>1. CASE Access /\ blind' = (blind \/ takesStale) /\ UNCHANGED stageVars
  BY <1>1, AccessKeepsStages
<1>2. CASE nm_spi_init \/ waitEfuse \/ waitBootRom
  BY <1>2, SpiStageKeepsStages, EfuseKeepsStages, BootRomKeepsStages
<1>3. CASE getChipId \/ chip_apply_conf \/ wait_for_firmware_start
  BY <1>3, ConfStageKeepsStages, StartStageKeepsStages
<1>4. CASE enable_interrupts \/ nm_get_firmware_full_info
  BY <1>4, ReadyStageKeepsStages
<1>5. CASE traffic \/ nm_drv_deinit \/ chip_deinit \/ spi_flash_enable
  BY <1>5, UpStageKeepsStages
<1>6. CASE m2m_wifi_init
  BY <1>6, InitializingKeepsStages
<1>7. CASE Firmware
  BY <1>7, ChipKeepsStages
<1>8. CASE UNCHANGED vars
  BY <1>8
  DEF vars, spiVars, host, chip, bootVars, stageVars, Stages, Noticed, Progress, Ops, Places, SeenHolds,
      ChipHolds, Achieved,
      Reached, UpMeansRunning, understands
<1> QED
  BY <1>1, <1>2, <1>3, <1>4, <1>5, <1>6, <1>7, <1>8 DEF Next, Driver

(* UpMeansRunning (chip_apply_conf, wait_for_firmware_start and nm_drv_init *)
(* in nmasic.c and nmdrv.c): whatever is lost on the line, the firmware     *)
(* starts with its configuration, and a successful initialization means     *)
(* that it runs and agrees with the host on the protocol.                   *)
THEOREM StartedMeansRunning == Spec => []UpMeansRunning
<1>1. Init => IInv /\ Stages
  BY InitInvariant, InitialStages
<1>2. IInv /\ Stages /\ [Next]_vars => (IInv /\ Stages)'
  BY StepInvariant, StepKeepsStages
<1>3. Stages => UpMeansRunning
  BY DEF Stages, Progress
<1> QED
  BY <1>1, <1>2, <1>3, PTL DEF Spec
=============================================================================
