----------------------------- MODULE WifiProofs -----------------------------
(***************************************************************************)
(* Proofs about the sending side of the host interface and the Wi-Fi       *)
(* driver, for every limit on polls, calls and bus errors.                 *)
(*                                                                         *)
(* The argument, in four independent parts: the count of wakers is zero    *)
(* between calls, so a call that finds it zero wakes the chip and keeps    *)
(* HOST_CORT_COMM set (Awake); the size in NMI_STATE_REG is this call's    *)
(* from before the buffer is asked for until it is given (Message); the    *)
(* flag of the scan can only be set by a scan the chip has taken (Scan);   *)
(* and a buffer given or asked for belongs to the present call, or one has *)
(* been given up or a bus error was met (Leak).                            *)
(***************************************************************************)
EXTENDS Wifi, TLAPS

Waking == {"wake", "wakeHost", "wakeClk", "wakeWait"}
Writing == {"header", "ctrl", "data", "post"}
Sleeping == {"sleepWait", "clearClk", "clearHost"}

(* the parts of the type invariant *)
HostTypes ==
  /\ u8ChipMode \in Modes /\ u8HifRXDone \in BOOLEAN
  /\ pc \in Points /\ op \in [kind : Kinds, arg : Modes]
  /\ ret \in {"ok", "bus", "alloc", "timeout"} /\ cnt \in Nat
ChipTypes ==
  /\ hostComm \in BOOLEAN /\ wakeClk \in BOOLEAN /\ ctrl2 \in BOOLEAN /\ ctrl4 \in BOOLEAN
  /\ clocks \in BOOLEAN /\ busy \in BOOLEAN /\ posted \in BOOLEAN
  /\ stateReg \in 0 .. 2 /\ chipMode \in Modes
  /\ buffer \in [size : 0 .. 2, parts : SUBSET {"header", "ctrl", "data"}]
CountTypes ==
  /\ calls \in 0 .. MaxCalls /\ busErrors \in 0 .. MaxBusErrors
  /\ giveUps \in Nat /\ timeouts \in Nat /\ lost \in Nat
  /\ u8ChipSleep \in 0 .. calls /\ (pc \in Waking => u8ChipSleep < calls)
WifiTypes ==
  /\ gu8scanInProgress \in BOOLEAN /\ scans \in Nat
  /\ inCallback \in {"no", "SCAN_DONE", "other"} /\ failed \in BOOLEAN /\ misled \in BOOLEAN
Types == HostTypes /\ ChipTypes /\ CountTypes /\ WifiTypes

(* Awake *)
CountBalanced ==
  ~MacReadFails \/ busErrors = 0 =>
    /\ pc \in {"idle", "done"} \cup Waking \cup Sleeping => u8ChipSleep = 0
    /\ u8ChipSleep <= 1
ReadKeepsAwake == u8HifRXDone => clocks
ModeKnown ==
  ~misled /\ u8ChipMode = "NO_PS" =>
    chipMode = "NO_PS" \/ (op.kind = "sleep" /\ pc \in {"sleep", "done"})
NeverSleepsInNoPs == ~misled /\ chipMode = "NO_PS" => clocks
WakesFirst == pc \in {"wakeClk", "wakeWait"} => hostComm
KeptAwake ==
  ~misled /\ pc \in Accesses =>
    clocks /\ (u8HifRXDone \/ hostComm \/ chipMode = "NO_PS")
Awake == ~MacReadFails =>
           ReadKeepsAwake /\ ModeKnown /\ NeverSleepsInNoPs /\ WakesFirst /\ KeptAwake

(* Message *)
SizeWritten == pc \in {"ctrl2", "poll", "addr"} => stateReg = Size(op.kind)
BufferGiven ==
  /\ pc \in {"poll", "addr"} /\ ~ctrl2 /\ ctrl4 => buffer = [size |-> Size(op.kind), parts |-> {}]
  /\ pc \in {"addr"} \cup Writing => ~ctrl2
  /\ pc \in Writing => ctrl4 /\ buffer.size = Size(op.kind)
BlocksInOrder ==
  /\ pc = "header" => buffer.parts = {}
  /\ pc = "ctrl" => buffer.parts = {"header"}
  /\ pc = "data" => buffer.parts = {"header", "ctrl"} /\ op.kind = "data"
  /\ pc = "post" => buffer.parts = Parts(op.kind)
OkPosted ==
  /\ pc \in {"sleep", "done"} \cup Sleeping /\ ret = "ok" /\ op.kind \notin Reads => posted
  /\ pc = "read" => op.kind \in Reads
Message == SizeWritten /\ BufferGiven /\ BlocksInOrder /\ OkPosted

(* Scan *)
FlagHasScan == gu8scanInProgress => scans > 0
FlagDown == pc # "idle" /\ op.kind \in {"scan", "stop"} => ~gu8scanInProgress
ScanPosted == pc # "idle" /\ op.kind = "scan" /\ posted => scans > 0
OneScan ==
  ~failed =>
    /\ scans <= 1
    /\ ~gu8scanInProgress /\ (pc = "idle" \/ op.kind \notin {"scan", "stop"}) => scans = 0
    /\ pc # "idle" /\ op.kind = "scan" /\ ~posted => scans = 0
    /\ pc # "idle" /\ op.kind = "stop" /\ posted => scans = 0
Scan == FlagHasScan /\ FlagDown /\ ScanPosted /\ OneScan

(* Leak *)
One(b) == IF b THEN 1 ELSE 0
BuffersCounted ==
  lost + One(ctrl4) + One(ctrl2)
    <= giveUps + busErrors + One(pc \in {"poll", "addr"} \cup Writing /\ (ctrl2 \/ ctrl4))
BitsTakenBack ==
  busErrors = 0 /\ timeouts = 0 =>
    /\ pc \in {"idle", "done", "wake", "wakeHost"} => ~hostComm /\ ~wakeClk
    /\ pc = "wakeClk" => ~wakeClk
    /\ pc = "clearHost" => ~wakeClk
    /\ (hostComm \/ wakeClk) => u8ChipMode # "NO_PS"
    /\ pc \in {"wakeHost", "wakeClk"} => u8ChipMode # "NO_PS"
Leak == BuffersCounted /\ BitsTakenBack

IInv == Types /\ CountBalanced /\ Awake /\ Message /\ Scan /\ Leak

-----------------------------------------------------------------------------
LEMMA BoundsAreNat ==
  /\ MaxPolls \in Nat /\ MaxCalls \in Nat /\ MaxBusErrors \in Nat /\ WAKUP_TRAILS_TIMEOUT \in Nat
  /\ MacReadFails \in BOOLEAN /\ "NO_PS" \in Modes
  BY HifSendAssumption

LEMMA InitEstablishesIInv == Init => IInv
<1> SUFFICES ASSUME Init PROVE IInv
  OBVIOUS
<1> USE BoundsAreNat DEF Init, HifInit, NoCall, NoBuffer
<1>1. Types
  <2>1. HostTypes
    BY DEF HostTypes, Points, Kinds, Reads
  <2>2. buffer \in [size : 0 .. 2, parts : SUBSET {"header", "ctrl", "data"}]
    OBVIOUS
  <2>3. ChipTypes
    BY <2>2 DEF ChipTypes
  <2>4. CountTypes
    BY DEF CountTypes, Waking
  <2>5. WifiTypes
    BY DEF WifiTypes
  <2> QED
    BY <2>1, <2>3, <2>4, <2>5 DEF Types
<1>2. CountBalanced /\ Awake
  BY DEF CountBalanced, Awake, ReadKeepsAwake, ModeKnown, NeverSleepsInNoPs, WakesFirst, KeptAwake,
     Accesses
<1>3. Message
  BY DEF Message, SizeWritten, BufferGiven, BlocksInOrder, OkPosted, Writing, Sleeping
<1>4. Scan
  BY DEF Scan, FlagHasScan, FlagDown, ScanPosted, OneScan
<1>5. Leak
  BY DEF Leak, BuffersCounted, BitsTakenBack, One, Writing
<1> QED
  BY <1>1, <1>2, <1>3, <1>4, <1>5 DEF IInv

-----------------------------------------------------------------------------
(* The steps *)
LEMMA Calling ==
  ASSUME NEW kind \in Kinds \ {"stop"}, NEW mode \in Modes, IInv, call(kind, mode), UNCHANGED wifi,
         kind = "scan" => ~gu8scanInProgress
  PROVE  IInv'
<1> USE BoundsAreNat DEF IInv, Types, Kinds, Reads, Points, Waking, Writing, Sleeping, Accesses
<1>1. Types'
  <2>1. HostTypes'
    BY DEF call, context, registers, chip, counts, wifi, history, HostTypes
  <2>2. ChipTypes'
    BY DEF call, context, registers, chip, counts, wifi, history, ChipTypes, Size,
       HostTypes, NoBuffer
  <2>3. CountTypes'
    BY DEF call, context, registers, chip, counts, wifi, history, CountTypes,
       CountBalanced
  <2>4. WifiTypes'
    BY DEF call, context, registers, chip, counts, wifi, history, WifiTypes
  <2> QED
    BY <2>1, <2>2, <2>3, <2>4 DEF Types
<1>2. CountBalanced' /\ Awake'
  BY DEF call, context, registers, chip, counts, wifi, history, CountBalanced,
     ReadKeepsAwake, ModeKnown, NeverSleepsInNoPs, WakesFirst, KeptAwake, Awake,
     HostTypes, ChipTypes, CountTypes, WifiTypes
<1>3. Message'
  BY DEF call, context, registers, chip, counts, wifi, history, SizeWritten,
     BufferGiven, BlocksInOrder, OkPosted, Message, Size, Parts, NoBuffer,
     HostTypes, ChipTypes
<1>4. Scan'
  BY DEF call, context, registers, chip, counts, wifi, history, FlagHasScan,
     FlagDown, ScanPosted, OneScan, Scan, HostTypes, ChipTypes, WifiTypes, Message,
     OkPosted
<1>5. Leak'
  BY DEF call, context, registers, chip, counts, wifi, history, BuffersCounted,
     BitsTakenBack, Leak, One, CountBalanced, CountTypes, ChipTypes, HostTypes,
     Message, BufferGiven
<1> QED
  BY <1>1, <1>2, <1>3, <1>4, <1>5 DEF IInv

LEMMA Stopping ==
  ASSUME IInv, m2m_wifi_wps /\ UNCHANGED <<scans, inCallback, history>>
  PROVE  IInv'
<1> USE BoundsAreNat DEF IInv, Types, Kinds, Reads, Points, Waking, Writing, Sleeping, Accesses
<1>1. Types'
  <2>1. HostTypes'
    BY DEF m2m_wifi_wps, call, context, registers, chip, counts, wifi, history,
       HostTypes
  <2>2. ChipTypes'
    BY DEF m2m_wifi_wps, call, context, registers, chip, counts, wifi, history,
       ChipTypes, Size, HostTypes, NoBuffer
  <2>3. CountTypes'
    BY DEF m2m_wifi_wps, call, context, registers, chip, counts, wifi, history,
       CountTypes, CountBalanced
  <2>4. WifiTypes'
    BY DEF m2m_wifi_wps, call, context, registers, chip, counts, wifi, history,
       WifiTypes
  <2> QED
    BY <2>1, <2>2, <2>3, <2>4 DEF Types
<1>2. CountBalanced' /\ Awake'
  BY DEF m2m_wifi_wps, call, context, registers, chip, counts, wifi, history,
     CountBalanced, ReadKeepsAwake, ModeKnown, NeverSleepsInNoPs, WakesFirst,
     KeptAwake, Awake, HostTypes, ChipTypes, CountTypes, WifiTypes
<1>3. Message'
  BY DEF m2m_wifi_wps, call, context, registers, chip, counts, wifi, history,
     SizeWritten, BufferGiven, BlocksInOrder, OkPosted, Message, Size, Parts,
     NoBuffer, HostTypes, ChipTypes
<1>4. Scan'
  BY DEF m2m_wifi_wps, call, context, registers, chip, counts, wifi, history,
     FlagHasScan, FlagDown, ScanPosted, OneScan, Scan, HostTypes, ChipTypes,
     WifiTypes, Message, OkPosted
<1>5. Leak'
  BY DEF m2m_wifi_wps, call, context, registers, chip, counts, wifi, history,
     BuffersCounted, BitsTakenBack, Leak, One, CountBalanced, CountTypes, ChipTypes,
     HostTypes, Message, BufferGiven
<1> QED
  BY <1>1, <1>2, <1>3, <1>4, <1>5 DEF IInv

LEMMA ChipWaking ==
  ASSUME IInv, hif_chip_wake, scans' = scansAfter,
         UNCHANGED <<gu8scanInProgress, inCallback, history>>
  PROVE  IInv'
<1> USE BoundsAreNat DEF IInv, Types, Kinds, Reads, Points, Waking, Writing, Sleeping, Accesses
<1>1. Types'
  BY DEF hif_chip_wake, firstAccess, scansAfter, context, registers, chip, counts,
     wifi, history, HostTypes, ChipTypes, CountTypes, WifiTypes, Size
<1>2. CountBalanced' /\ Awake'
  BY DEF hif_chip_wake, firstAccess, scansAfter, context, registers, chip, counts,
     wifi, history, CountBalanced, ReadKeepsAwake, ModeKnown, NeverSleepsInNoPs,
     WakesFirst, KeptAwake, Awake, HostTypes, ChipTypes, CountTypes, WifiTypes
<1>3. Message'
  BY DEF hif_chip_wake, firstAccess, scansAfter, context, registers, chip, counts,
     wifi, history, SizeWritten, BufferGiven, BlocksInOrder, OkPosted, Message,
     Size, Parts, NoBuffer, HostTypes, ChipTypes
<1>4. Scan'
  BY DEF hif_chip_wake, firstAccess, scansAfter, context, registers, chip, counts,
     wifi, history, FlagHasScan, FlagDown, ScanPosted, OneScan, Scan, HostTypes,
     ChipTypes, WifiTypes, Message, OkPosted
<1>5. Leak'
  BY DEF hif_chip_wake, firstAccess, scansAfter, context, registers, chip, counts,
     wifi, history, BuffersCounted, BitsTakenBack, Leak, One, CountBalanced,
     CountTypes, ChipTypes, HostTypes, Message, BufferGiven
<1> QED
  BY <1>1, <1>2, <1>3, <1>4, <1>5 DEF IInv

LEMMA SettingHostComm ==
  ASSUME IInv, setHostComm, scans' = scansAfter,
         UNCHANGED <<gu8scanInProgress, inCallback, history>>
  PROVE  IInv'
<1> USE BoundsAreNat DEF IInv, Types, Kinds, Reads, Points, Waking, Writing, Sleeping, Accesses
<1>1. Types'
  <2>1. HostTypes'
    BY DEF setHostComm, busOk, busFails, returns, scansAfter, context, registers,
       chip, counts, wifi, history, HostTypes
  <2>2. ChipTypes'
    BY DEF setHostComm, busOk, busFails, returns, scansAfter, context, registers,
       chip, counts, wifi, history, ChipTypes, Size, HostTypes, NoBuffer
  <2>3. CountTypes'
    BY DEF setHostComm, busOk, busFails, returns, scansAfter, context, registers,
       chip, counts, wifi, history, CountTypes, CountBalanced
  <2>4. WifiTypes'
    BY DEF setHostComm, busOk, busFails, returns, scansAfter, context, registers,
       chip, counts, wifi, history, WifiTypes
  <2> QED
    BY <2>1, <2>2, <2>3, <2>4 DEF Types
<1>2. CountBalanced' /\ Awake'
  BY DEF setHostComm, busOk, busFails, returns, scansAfter, context, registers,
     chip, counts, wifi, history, CountBalanced, ReadKeepsAwake, ModeKnown,
     NeverSleepsInNoPs, WakesFirst, KeptAwake, Awake, HostTypes, ChipTypes,
     CountTypes, WifiTypes
<1>3. Message'
  BY DEF setHostComm, busOk, busFails, returns, scansAfter, context, registers,
     chip, counts, wifi, history, SizeWritten, BufferGiven, BlocksInOrder, OkPosted,
     Message, Size, Parts, NoBuffer, HostTypes, ChipTypes
<1>4. Scan'
  BY DEF setHostComm, busOk, busFails, returns, scansAfter, context, registers,
     chip, counts, wifi, history, FlagHasScan, FlagDown, ScanPosted, OneScan, Scan,
     HostTypes, ChipTypes, WifiTypes, Message, OkPosted
<1>5. Leak'
  BY DEF setHostComm, busOk, busFails, returns, scansAfter, context, registers,
     chip, counts, wifi, history, BuffersCounted, BitsTakenBack, Leak, One,
     CountBalanced, CountTypes, ChipTypes, HostTypes, Message, BufferGiven
<1> QED
  BY <1>1, <1>2, <1>3, <1>4, <1>5 DEF IInv

LEMMA SettingWakeClk ==
  ASSUME IInv, setWakeClk, scans' = scansAfter,
         UNCHANGED <<gu8scanInProgress, inCallback, history>>
  PROVE  IInv'
<1> USE BoundsAreNat DEF IInv, Types, Kinds, Reads, Points, Waking, Writing, Sleeping, Accesses
<1>1. Types'
  <2>1. HostTypes'
    BY DEF setWakeClk, busOk, busFails, returns, scansAfter, context, registers,
       chip, counts, wifi, history, HostTypes
  <2>2. ChipTypes'
    BY DEF setWakeClk, busOk, busFails, returns, scansAfter, context, registers,
       chip, counts, wifi, history, ChipTypes, Size, HostTypes, NoBuffer
  <2>3. CountTypes'
    BY DEF setWakeClk, busOk, busFails, returns, scansAfter, context, registers,
       chip, counts, wifi, history, CountTypes, CountBalanced
  <2>4. WifiTypes'
    BY DEF setWakeClk, busOk, busFails, returns, scansAfter, context, registers,
       chip, counts, wifi, history, WifiTypes
  <2> QED
    BY <2>1, <2>2, <2>3, <2>4 DEF Types
<1>2. CountBalanced' /\ Awake'
  BY DEF setWakeClk, busOk, busFails, returns, scansAfter, context, registers, chip,
     counts, wifi, history, CountBalanced, ReadKeepsAwake, ModeKnown,
     NeverSleepsInNoPs, WakesFirst, KeptAwake, Awake, HostTypes, ChipTypes,
     CountTypes, WifiTypes
<1>3. Message'
  BY DEF setWakeClk, busOk, busFails, returns, scansAfter, context, registers, chip,
     counts, wifi, history, SizeWritten, BufferGiven, BlocksInOrder, OkPosted,
     Message, Size, Parts, NoBuffer, HostTypes, ChipTypes
<1>4. Scan'
  BY DEF setWakeClk, busOk, busFails, returns, scansAfter, context, registers, chip,
     counts, wifi, history, FlagHasScan, FlagDown, ScanPosted, OneScan, Scan,
     HostTypes, ChipTypes, WifiTypes, Message, OkPosted
<1>5. Leak'
  BY DEF setWakeClk, busOk, busFails, returns, scansAfter, context, registers, chip,
     counts, wifi, history, BuffersCounted, BitsTakenBack, Leak, One, CountBalanced,
     CountTypes, ChipTypes, HostTypes, Message, BufferGiven
<1> QED
  BY <1>1, <1>2, <1>3, <1>4, <1>5 DEF IInv

LEMMA WaitingForClock ==
  ASSUME IInv, waitForClock, scans' = scansAfter,
         UNCHANGED <<gu8scanInProgress, inCallback, history>>
  PROVE  IInv'
<1> USE BoundsAreNat DEF IInv, Types, Kinds, Reads, Points, Waking, Writing, Sleeping, Accesses
<1>1. Types'
  BY DEF waitForClock, busOk, busFails, returns, goto, firstAccess, scansAfter,
     context, registers, chip, counts, wifi, history, HostTypes, ChipTypes,
     CountTypes, WifiTypes, Size
<1>2. CountBalanced' /\ Awake'
  BY DEF waitForClock, busOk, busFails, returns, goto, firstAccess, scansAfter,
     context, registers, chip, counts, wifi, history, CountBalanced, ReadKeepsAwake,
     ModeKnown, NeverSleepsInNoPs, WakesFirst, KeptAwake, Awake, HostTypes,
     ChipTypes, CountTypes, WifiTypes
<1>3. Message'
  BY DEF waitForClock, busOk, busFails, returns, goto, firstAccess, scansAfter,
     context, registers, chip, counts, wifi, history, SizeWritten, BufferGiven,
     BlocksInOrder, OkPosted, Message, Size, Parts, NoBuffer, HostTypes, ChipTypes
<1>4. Scan'
  BY DEF waitForClock, busOk, busFails, returns, goto, firstAccess, scansAfter,
     context, registers, chip, counts, wifi, history, FlagHasScan, FlagDown,
     ScanPosted, OneScan, Scan, HostTypes, ChipTypes, WifiTypes, Message, OkPosted
<1>5. Leak'
  BY DEF waitForClock, busOk, busFails, returns, goto, firstAccess, scansAfter,
     context, registers, chip, counts, wifi, history, BuffersCounted, BitsTakenBack,
     Leak, One, CountBalanced, CountTypes, ChipTypes, HostTypes, Message,
     BufferGiven
<1> QED
  BY <1>1, <1>2, <1>3, <1>4, <1>5 DEF IInv

LEMMA WritingState ==
  ASSUME IInv, writeState, scans' = scansAfter,
         UNCHANGED <<gu8scanInProgress, inCallback, history>>
  PROVE  IInv'
<1> USE BoundsAreNat DEF IInv, Types, Kinds, Reads, Points, Waking, Writing, Sleeping, Accesses
<1>1. Types'
  BY DEF writeState, busOk, busFails, ERR1, hif_chip_sleep_sc, decremented, returns,
     goto, scansAfter, context, registers, chip, counts, wifi, history, HostTypes,
     ChipTypes, CountTypes, WifiTypes, Size
<1>2. CountBalanced' /\ Awake'
  BY DEF writeState, busOk, busFails, ERR1, hif_chip_sleep_sc, decremented, returns,
     goto, scansAfter, context, registers, chip, counts, wifi, history,
     CountBalanced, ReadKeepsAwake, ModeKnown, NeverSleepsInNoPs, WakesFirst,
     KeptAwake, Awake, HostTypes, ChipTypes, CountTypes, WifiTypes
<1>3. Message'
  BY DEF writeState, busOk, busFails, ERR1, hif_chip_sleep_sc, decremented, returns,
     goto, scansAfter, context, registers, chip, counts, wifi, history, SizeWritten,
     BufferGiven, BlocksInOrder, OkPosted, Message, Size, Parts, NoBuffer,
     HostTypes, ChipTypes
<1>4. Scan'
  BY DEF writeState, busOk, busFails, ERR1, hif_chip_sleep_sc, decremented, returns,
     goto, scansAfter, context, registers, chip, counts, wifi, history, FlagHasScan,
     FlagDown, ScanPosted, OneScan, Scan, HostTypes, ChipTypes, WifiTypes, Message,
     OkPosted
<1>5. Leak'
  BY DEF writeState, busOk, busFails, ERR1, hif_chip_sleep_sc, decremented, returns,
     goto, scansAfter, context, registers, chip, counts, wifi, history,
     BuffersCounted, BitsTakenBack, Leak, One, CountBalanced, CountTypes, ChipTypes,
     HostTypes, Message, BufferGiven
<1> QED
  BY <1>1, <1>2, <1>3, <1>4, <1>5 DEF IInv

LEMMA AskingForBuffer ==
  ASSUME IInv, askForBuffer, scans' = scansAfter,
         UNCHANGED <<gu8scanInProgress, inCallback, history>>
  PROVE  IInv'
<1> USE BoundsAreNat DEF IInv, Types, Kinds, Reads, Points, Waking, Writing, Sleeping, Accesses
<1>1. Types'
  <2>1. HostTypes'
    BY DEF askForBuffer, busOk, busFails, ERR1, hif_chip_sleep_sc, decremented,
       returns, goto, scansAfter, context, registers, chip, counts, wifi, history,
       HostTypes
  <2>2. ChipTypes'
    BY DEF askForBuffer, busOk, busFails, ERR1, hif_chip_sleep_sc, decremented,
       returns, goto, scansAfter, context, registers, chip, counts, wifi, history,
       ChipTypes, Size, HostTypes, NoBuffer
  <2>3. CountTypes'
    BY DEF askForBuffer, busOk, busFails, ERR1, hif_chip_sleep_sc, decremented,
       returns, goto, scansAfter, context, registers, chip, counts, wifi, history,
       CountTypes, CountBalanced
  <2>4. WifiTypes'
    BY DEF askForBuffer, busOk, busFails, ERR1, hif_chip_sleep_sc, decremented,
       returns, goto, scansAfter, context, registers, chip, counts, wifi, history,
       WifiTypes
  <2> QED
    BY <2>1, <2>2, <2>3, <2>4 DEF Types
<1>2. CountBalanced' /\ Awake'
  BY DEF askForBuffer, busOk, busFails, ERR1, hif_chip_sleep_sc, decremented,
     returns, goto, scansAfter, context, registers, chip, counts, wifi, history,
     CountBalanced, ReadKeepsAwake, ModeKnown, NeverSleepsInNoPs, WakesFirst,
     KeptAwake, Awake, HostTypes, ChipTypes, CountTypes, WifiTypes
<1>3. Message'
  BY DEF askForBuffer, busOk, busFails, ERR1, hif_chip_sleep_sc, decremented,
     returns, goto, scansAfter, context, registers, chip, counts, wifi, history,
     SizeWritten, BufferGiven, BlocksInOrder, OkPosted, Message, Size, Parts,
     NoBuffer, HostTypes, ChipTypes
<1>4. Scan'
  BY DEF askForBuffer, busOk, busFails, ERR1, hif_chip_sleep_sc, decremented,
     returns, goto, scansAfter, context, registers, chip, counts, wifi, history,
     FlagHasScan, FlagDown, ScanPosted, OneScan, Scan, HostTypes, ChipTypes,
     WifiTypes, Message, OkPosted
<1>5. Leak'
  BY DEF askForBuffer, busOk, busFails, ERR1, hif_chip_sleep_sc, decremented,
     returns, goto, scansAfter, context, registers, chip, counts, wifi, history,
     BuffersCounted, BitsTakenBack, Leak, One, CountBalanced, CountTypes, ChipTypes,
     HostTypes, Message, BufferGiven
<1> QED
  BY <1>1, <1>2, <1>3, <1>4, <1>5 DEF IInv

LEMMA Polling ==
  ASSUME IInv, pollForBuffer, scans' = scansAfter,
         UNCHANGED <<gu8scanInProgress, inCallback, history>>
  PROVE  IInv'
<1> USE BoundsAreNat DEF IInv, Types, Kinds, Reads, Points, Waking, Writing, Sleeping, Accesses
<1>1. Types'
  BY DEF pollForBuffer, noBuffer, busOk, busFails, goto, scansAfter, context,
     registers, chip, counts, wifi, history, HostTypes, ChipTypes, CountTypes,
     WifiTypes, Size
<1>2. CountBalanced' /\ Awake'
  BY DEF pollForBuffer, noBuffer, busOk, busFails, goto, scansAfter, context,
     registers, chip, counts, wifi, history, CountBalanced, ReadKeepsAwake,
     ModeKnown, NeverSleepsInNoPs, WakesFirst, KeptAwake, Awake, HostTypes,
     ChipTypes, CountTypes, WifiTypes
<1>3. Message'
  BY DEF pollForBuffer, noBuffer, busOk, busFails, goto, scansAfter, context,
     registers, chip, counts, wifi, history, SizeWritten, BufferGiven,
     BlocksInOrder, OkPosted, Message, Size, Parts, NoBuffer, HostTypes, ChipTypes
<1>4. Scan'
  BY DEF pollForBuffer, noBuffer, busOk, busFails, goto, scansAfter, context,
     registers, chip, counts, wifi, history, FlagHasScan, FlagDown, ScanPosted,
     OneScan, Scan, HostTypes, ChipTypes, WifiTypes, Message, OkPosted
<1>5. Leak'
  BY DEF pollForBuffer, noBuffer, busOk, busFails, goto, scansAfter, context,
     registers, chip, counts, wifi, history, BuffersCounted, BitsTakenBack, Leak,
     One, CountBalanced, CountTypes, ChipTypes, HostTypes, Message, BufferGiven
<1> QED
  BY <1>1, <1>2, <1>3, <1>4, <1>5 DEF IInv

LEMMA ReadingAddress ==
  ASSUME IInv, readAddress, scans' = scansAfter,
         UNCHANGED <<gu8scanInProgress, inCallback, history>>
  PROVE  IInv'
<1> USE BoundsAreNat DEF IInv, Types, Kinds, Reads, Points, Waking, Writing, Sleeping, Accesses
<1>1. Types'
  BY DEF readAddress, noBuffer, busOk, busFails, ERR1, hif_chip_sleep_sc,
     decremented, returns, goto, scansAfter, context, registers, chip, counts, wifi,
     history, HostTypes, ChipTypes, CountTypes, WifiTypes, Size
<1>2. CountBalanced' /\ Awake'
  BY DEF readAddress, noBuffer, busOk, busFails, ERR1, hif_chip_sleep_sc,
     decremented, returns, goto, scansAfter, context, registers, chip, counts, wifi,
     history, CountBalanced, ReadKeepsAwake, ModeKnown, NeverSleepsInNoPs,
     WakesFirst, KeptAwake, Awake, HostTypes, ChipTypes, CountTypes, WifiTypes
<1>3. Message'
  BY DEF readAddress, noBuffer, busOk, busFails, ERR1, hif_chip_sleep_sc,
     decremented, returns, goto, scansAfter, context, registers, chip, counts, wifi,
     history, SizeWritten, BufferGiven, BlocksInOrder, OkPosted, Message, Size,
     Parts, NoBuffer, HostTypes, ChipTypes
<1>4. Scan'
  BY DEF readAddress, noBuffer, busOk, busFails, ERR1, hif_chip_sleep_sc,
     decremented, returns, goto, scansAfter, context, registers, chip, counts, wifi,
     history, FlagHasScan, FlagDown, ScanPosted, OneScan, Scan, HostTypes,
     ChipTypes, WifiTypes, Message, OkPosted
<1>5. Leak'
  BY DEF readAddress, noBuffer, busOk, busFails, ERR1, hif_chip_sleep_sc,
     decremented, returns, goto, scansAfter, context, registers, chip, counts, wifi,
     history, BuffersCounted, BitsTakenBack, Leak, One, CountBalanced, CountTypes,
     ChipTypes, HostTypes, Message, BufferGiven
<1> QED
  BY <1>1, <1>2, <1>3, <1>4, <1>5 DEF IInv

LEMMA WritingBlock ==
  ASSUME IInv, writeBlock, scans' = scansAfter,
         UNCHANGED <<gu8scanInProgress, inCallback, history>>
  PROVE  IInv'
<1> USE BoundsAreNat DEF IInv, Types, Kinds, Reads, Points, Waking, Writing, Sleeping, Accesses
<1>1. Types'
  BY DEF writeBlock, After, busOk, busFails, ERR1, hif_chip_sleep_sc, decremented,
     returns, goto, scansAfter, context, registers, chip, counts, wifi, history,
     HostTypes, ChipTypes, CountTypes, WifiTypes, Size
<1>2. CountBalanced' /\ Awake'
  BY DEF writeBlock, After, busOk, busFails, ERR1, hif_chip_sleep_sc, decremented,
     returns, goto, scansAfter, context, registers, chip, counts, wifi, history,
     CountBalanced, ReadKeepsAwake, ModeKnown, NeverSleepsInNoPs, WakesFirst,
     KeptAwake, Awake, HostTypes, ChipTypes, CountTypes, WifiTypes
<1>3. Message'
  <2>1. SizeWritten'
    BY DEF writeBlock, After, busOk, busFails, ERR1, hif_chip_sleep_sc, decremented,
       returns, goto, scansAfter, context, registers, chip, counts, wifi, history,
       SizeWritten, HostTypes, Size
  <2>2. BufferGiven'
    BY DEF writeBlock, After, busOk, busFails, ERR1, hif_chip_sleep_sc, decremented,
       returns, goto, scansAfter, context, registers, chip, counts, wifi, history,
       BufferGiven, Message, SizeWritten, Size, ChipTypes
  <2>3. BlocksInOrder'
    <3>1. \/ busErrors' # busErrors /\ pc' = "done"
          \/ buffer' = [buffer EXCEPT !.parts = @ \cup {pc}] /\ pc' = After[pc]
      BY DEF writeBlock, busOk, busFails, ERR1, returns, goto, CountTypes
    <3>2. CASE pc' = "done"
      BY <3>2 DEF BlocksInOrder
    <3>3. ASSUME buffer' = [buffer EXCEPT !.parts = @ \cup {pc}], pc' = After[pc] PROVE BlocksInOrder'
      <4>1. buffer'.parts = buffer.parts \cup {pc} /\ op' = op
        BY <3>3 DEF writeBlock, ChipTypes
      <4>2. CASE pc = "header"
        BY <4>1, <4>2, <3>3 DEF After, Message, BlocksInOrder, Parts
      <4>3. CASE pc = "ctrl"
        BY <4>1, <4>3, <3>3 DEF After, Message, BlocksInOrder, Parts
      <4>4. CASE pc = "data"
        BY <4>1, <4>4, <3>3 DEF After, Message, BlocksInOrder, Parts
      <4> QED
        BY <4>2, <4>3, <4>4 DEF writeBlock
    <3> QED
      BY <3>1, <3>2, <3>3
  <2>4. OkPosted'
    BY DEF writeBlock, After, busOk, busFails, ERR1, hif_chip_sleep_sc, decremented,
       returns, goto, scansAfter, context, registers, chip, counts, wifi, history,
       OkPosted, Message, HostTypes, ChipTypes
  <2> QED
    BY <2>1, <2>2, <2>3, <2>4 DEF Message
<1>4. Scan'
  BY DEF writeBlock, After, busOk, busFails, ERR1, hif_chip_sleep_sc, decremented,
     returns, goto, scansAfter, context, registers, chip, counts, wifi, history,
     FlagHasScan, FlagDown, ScanPosted, OneScan, Scan, HostTypes, ChipTypes,
     WifiTypes, Message, OkPosted
<1>5. Leak'
  BY DEF writeBlock, After, busOk, busFails, ERR1, hif_chip_sleep_sc, decremented,
     returns, goto, scansAfter, context, registers, chip, counts, wifi, history,
     BuffersCounted, BitsTakenBack, Leak, One, CountBalanced, CountTypes, ChipTypes,
     HostTypes, Message, BufferGiven
<1> QED
  BY <1>1, <1>2, <1>3, <1>4, <1>5 DEF IInv

LEMMA Posting ==
  ASSUME IInv, post, scans' = scansAfter,
         UNCHANGED <<gu8scanInProgress, inCallback, history>>
  PROVE  IInv'
<1> USE BoundsAreNat DEF IInv, Types, Kinds, Reads, Points, Waking, Writing, Sleeping, Accesses
<1>1. Types'
  <2>1. HostTypes'
    BY DEF post, busOk, busFails, ERR1, hif_chip_sleep_sc, decremented, returns,
       goto, scansAfter, context, registers, chip, counts, wifi, history, HostTypes
  <2>2. ChipTypes'
    <3>1. CASE UNCHANGED <<chip, ctrl4, posted>>
      BY <3>1 DEF post, chip, ChipTypes
    <3>2. CASE posted' = TRUE /\ ~UNCHANGED <<chip, ctrl4, posted>>
      <4>1. /\ ctrl4' = FALSE /\ buffer' = NoBuffer /\ busy' \in BOOLEAN /\ posted' = TRUE
            /\ chipMode' \in {op.arg, chipMode}
            /\ UNCHANGED <<hostComm, wakeClk, ctrl2, stateReg, clocks>>
        BY <3>2 DEF post
      <4>2. NoBuffer \in [size : 0 .. 2, parts : SUBSET {"header", "ctrl", "data"}]
        BY DEF NoBuffer
      <4>3. op.arg \in Modes
        BY DEF HostTypes
      <4> QED
        BY <4>1, <4>2, <4>3 DEF ChipTypes
    <3> QED
      BY <3>1, <3>2 DEF post
  <2>3. CountTypes'
    BY DEF post, busOk, busFails, ERR1, hif_chip_sleep_sc, decremented, returns,
       goto, scansAfter, context, registers, chip, counts, wifi, history,
       CountTypes, CountBalanced
  <2>4. WifiTypes'
    BY DEF post, busOk, busFails, ERR1, hif_chip_sleep_sc, decremented, returns,
       goto, scansAfter, context, registers, chip, counts, wifi, history, WifiTypes
  <2> QED
    BY <2>1, <2>2, <2>3, <2>4 DEF Types
<1>2. CountBalanced' /\ Awake'
  BY DEF post, busOk, busFails, ERR1, hif_chip_sleep_sc, decremented, returns, goto,
     scansAfter, context, registers, chip, counts, wifi, history, CountBalanced,
     ReadKeepsAwake, ModeKnown, NeverSleepsInNoPs, WakesFirst, KeptAwake, Awake,
     HostTypes, ChipTypes, CountTypes, WifiTypes
<1>3. Message'
  BY DEF post, busOk, busFails, ERR1, hif_chip_sleep_sc, decremented, returns, goto,
     scansAfter, context, registers, chip, counts, wifi, history, SizeWritten,
     BufferGiven, BlocksInOrder, OkPosted, Message, Size, Parts, NoBuffer,
     HostTypes, ChipTypes
<1>4. Scan'
  BY DEF post, busOk, busFails, ERR1, hif_chip_sleep_sc, decremented, returns, goto,
     scansAfter, context, registers, chip, counts, wifi, history, FlagHasScan,
     FlagDown, ScanPosted, OneScan, Scan, HostTypes, ChipTypes, WifiTypes, Message,
     OkPosted
<1>5. Leak'
  <2>1. BuffersCounted'
    <3>1. pc = "post" /\ ctrl4 /\ ~ctrl2 /\ UNCHANGED <<ctrl2, lost, giveUps>> /\ pc' \in {"done", "sleep"}
      BY DEF post, ERR1, returns, goto, Message, BufferGiven
    <3>2. lost + 1 <= giveUps + busErrors + 1
      BY <3>1 DEF Leak, BuffersCounted, One, CountTypes
    <3>3. CASE busFails /\ UNCHANGED ctrl4
      BY <3>1, <3>2, <3>3 DEF busFails, BuffersCounted, One, CountTypes
    <3>4. CASE UNCHANGED busErrors /\ ctrl4' = FALSE
      BY <3>1, <3>2, <3>4 DEF BuffersCounted, One, CountTypes
    <3> QED
      BY <3>3, <3>4 DEF post, busOk, chip
  <2>2. BitsTakenBack'
    BY DEF post, busOk, busFails, ERR1, hif_chip_sleep_sc, decremented, returns,
       goto, scansAfter, context, registers, chip, counts, wifi, history,
       BitsTakenBack, Leak, CountBalanced, CountTypes, ChipTypes
  <2> QED
    BY <2>1, <2>2 DEF Leak
<1> QED
  BY <1>1, <1>2, <1>3, <1>4, <1>5 DEF IInv

LEMMA ReadingRegisters ==
  ASSUME IInv, readRegisters, scans' = scansAfter,
         UNCHANGED <<gu8scanInProgress, inCallback, history>>
  PROVE  IInv'
<1> USE BoundsAreNat DEF IInv, Types, Kinds, Reads, Points, Waking, Writing, Sleeping, Accesses
<1>1. Types'
  BY DEF readRegisters, busOk, busFails, returns, goto, scansAfter, context,
     registers, chip, counts, wifi, history, HostTypes, ChipTypes, CountTypes,
     WifiTypes, Size
<1>2. CountBalanced' /\ Awake'
  BY DEF readRegisters, busOk, busFails, returns, goto, scansAfter, context,
     registers, chip, counts, wifi, history, CountBalanced, ReadKeepsAwake,
     ModeKnown, NeverSleepsInNoPs, WakesFirst, KeptAwake, Awake, HostTypes,
     ChipTypes, CountTypes, WifiTypes
<1>3. Message'
  BY DEF readRegisters, busOk, busFails, returns, goto, scansAfter, context,
     registers, chip, counts, wifi, history, SizeWritten, BufferGiven,
     BlocksInOrder, OkPosted, Message, Size, Parts, NoBuffer, HostTypes, ChipTypes
<1>4. Scan'
  BY DEF readRegisters, busOk, busFails, returns, goto, scansAfter, context,
     registers, chip, counts, wifi, history, FlagHasScan, FlagDown, ScanPosted,
     OneScan, Scan, HostTypes, ChipTypes, WifiTypes, Message, OkPosted
<1>5. Leak'
  BY DEF readRegisters, busOk, busFails, returns, goto, scansAfter, context,
     registers, chip, counts, wifi, history, BuffersCounted, BitsTakenBack, Leak,
     One, CountBalanced, CountTypes, ChipTypes, HostTypes, Message, BufferGiven
<1> QED
  BY <1>1, <1>2, <1>3, <1>4, <1>5 DEF IInv

LEMMA GoingToSleep ==
  ASSUME IInv, hif_chip_sleep, scans' = scansAfter,
         UNCHANGED <<gu8scanInProgress, inCallback, history>>
  PROVE  IInv'
<1> USE BoundsAreNat DEF IInv, Types, Kinds, Reads, Points, Waking, Writing, Sleeping, Accesses
<1>1. Types'
  BY DEF hif_chip_sleep, decremented, scansAfter, context, registers, chip, counts,
     wifi, history, HostTypes, ChipTypes, CountTypes, WifiTypes, Size
<1>2. CountBalanced' /\ Awake'
  BY DEF hif_chip_sleep, decremented, scansAfter, context, registers, chip, counts,
     wifi, history, CountBalanced, ReadKeepsAwake, ModeKnown, NeverSleepsInNoPs,
     WakesFirst, KeptAwake, Awake, HostTypes, ChipTypes, CountTypes, WifiTypes
<1>3. Message'
  BY DEF hif_chip_sleep, decremented, scansAfter, context, registers, chip, counts,
     wifi, history, SizeWritten, BufferGiven, BlocksInOrder, OkPosted, Message,
     Size, Parts, NoBuffer, HostTypes, ChipTypes
<1>4. Scan'
  BY DEF hif_chip_sleep, decremented, scansAfter, context, registers, chip, counts,
     wifi, history, FlagHasScan, FlagDown, ScanPosted, OneScan, Scan, HostTypes,
     ChipTypes, WifiTypes, Message, OkPosted
<1>5. Leak'
  BY DEF hif_chip_sleep, decremented, scansAfter, context, registers, chip, counts,
     wifi, history, BuffersCounted, BitsTakenBack, Leak, One, CountBalanced,
     CountTypes, ChipTypes, HostTypes, Message, BufferGiven
<1> QED
  BY <1>1, <1>2, <1>3, <1>4, <1>5 DEF IInv

LEMMA WaitingForChip ==
  ASSUME IInv, waitForChip \/ clearWakeClk \/ clearHostComm, scans' = scansAfter,
         UNCHANGED <<gu8scanInProgress, inCallback, history>>
  PROVE  IInv'
<1> USE BoundsAreNat DEF IInv, Types, Kinds, Reads, Points, Waking, Writing, Sleeping, Accesses
<1>1. Types'
  <2>1. HostTypes'
    BY DEF waitForChip, clearWakeClk, clearHostComm, sleepFails, busOk, busFails,
       returns, scansAfter, context, registers, chip, counts, wifi, history,
       HostTypes
  <2>2. ChipTypes'
    BY DEF waitForChip, clearWakeClk, clearHostComm, sleepFails, busOk, busFails,
       returns, scansAfter, context, registers, chip, counts, wifi, history,
       ChipTypes, Size, HostTypes, NoBuffer
  <2>3. CountTypes'
    BY DEF waitForChip, clearWakeClk, clearHostComm, sleepFails, busOk, busFails,
       returns, scansAfter, context, registers, chip, counts, wifi, history,
       CountTypes, CountBalanced
  <2>4. WifiTypes'
    BY DEF waitForChip, clearWakeClk, clearHostComm, sleepFails, busOk, busFails,
       returns, scansAfter, context, registers, chip, counts, wifi, history,
       WifiTypes
  <2> QED
    BY <2>1, <2>2, <2>3, <2>4 DEF Types
<1>2. CountBalanced' /\ Awake'
  BY DEF waitForChip, clearWakeClk, clearHostComm, sleepFails, busOk, busFails,
     returns, scansAfter, context, registers, chip, counts, wifi, history,
     CountBalanced, ReadKeepsAwake, ModeKnown, NeverSleepsInNoPs, WakesFirst,
     KeptAwake, Awake, HostTypes, ChipTypes, CountTypes, WifiTypes
<1>3. Message'
  BY DEF waitForChip, clearWakeClk, clearHostComm, sleepFails, busOk, busFails,
     returns, scansAfter, context, registers, chip, counts, wifi, history,
     SizeWritten, BufferGiven, BlocksInOrder, OkPosted, Message, Size, Parts,
     NoBuffer, HostTypes, ChipTypes
<1>4. Scan'
  BY DEF waitForChip, clearWakeClk, clearHostComm, sleepFails, busOk, busFails,
     returns, scansAfter, context, registers, chip, counts, wifi, history,
     FlagHasScan, FlagDown, ScanPosted, OneScan, Scan, HostTypes, ChipTypes,
     WifiTypes, Message, OkPosted
<1>5. Leak'
  BY DEF waitForChip, clearWakeClk, clearHostComm, sleepFails, busOk, busFails,
     returns, scansAfter, context, registers, chip, counts, wifi, history,
     BuffersCounted, BitsTakenBack, Leak, One, CountBalanced, CountTypes, ChipTypes,
     HostTypes, Message, BufferGiven
<1> QED
  BY <1>1, <1>2, <1>3, <1>4, <1>5 DEF IInv

LEMMA Returning ==
  ASSUME IInv, callReturns
  PROVE  IInv'
<1> USE BoundsAreNat DEF IInv, Types, Kinds, Reads, Points, Waking, Writing, Sleeping, Accesses
<1>1. Types'
  BY DEF callReturns, remember, context, registers, chip, counts, wifi, history,
     HostTypes, ChipTypes, CountTypes, WifiTypes, Size
<1>2. CountBalanced' /\ Awake'
  BY DEF callReturns, remember, context, registers, chip, counts, wifi, history,
     CountBalanced, ReadKeepsAwake, ModeKnown, NeverSleepsInNoPs, WakesFirst,
     KeptAwake, Awake, HostTypes, ChipTypes, CountTypes, WifiTypes
<1>3. Message'
  BY DEF callReturns, remember, context, registers, chip, counts, wifi, history,
     SizeWritten, BufferGiven, BlocksInOrder, OkPosted, Message, Size, Parts,
     NoBuffer, HostTypes, ChipTypes
<1>4. Scan'
  BY DEF callReturns, remember, context, registers, chip, counts, wifi, history,
     FlagHasScan, FlagDown, ScanPosted, OneScan, Scan, HostTypes, ChipTypes,
     WifiTypes, Message, OkPosted
<1>5. Leak'
  BY DEF callReturns, remember, context, registers, chip, counts, wifi, history,
     BuffersCounted, BitsTakenBack, Leak, One, CountBalanced, CountTypes, ChipTypes,
     HostTypes, Message, BufferGiven
<1> QED
  BY <1>1, <1>2, <1>3, <1>4, <1>5 DEF IInv

LEMMA CallingBack ==
  ASSUME IInv, \E message \in {"SCAN_DONE", "other"} : m2m_wifi_cb(message)
  PROVE  IInv'
<1> USE BoundsAreNat DEF IInv, Types, Kinds, Reads, Points, Waking, Writing, Sleeping, Accesses
<1>1. Types'
  <2>1. HostTypes'
    BY DEF m2m_wifi_cb, context, registers, chip, counts, wifi, history, HostTypes
  <2>2. ChipTypes'
    BY DEF m2m_wifi_cb, context, registers, chip, counts, wifi, history, ChipTypes,
       Size, HostTypes, NoBuffer
  <2>3. CountTypes'
    BY DEF m2m_wifi_cb, context, registers, chip, counts, wifi, history, CountTypes,
       CountBalanced
  <2>4. WifiTypes'
    <3>1. PICK message \in {"SCAN_DONE", "other"} : m2m_wifi_cb(message)
      OBVIOUS
    <3>2. inCallback' \in {"SCAN_DONE", "other"} /\ UNCHANGED <<failed, misled>>
      BY <3>1 DEF m2m_wifi_cb, history
    <3>3. scans \in Nat /\ gu8scanInProgress \in BOOLEAN /\ failed \in BOOLEAN /\ misled \in BOOLEAN
      BY DEF WifiTypes
    <3>4. \/ scans > 0 /\ scans' = scans - 1 /\ gu8scanInProgress' = FALSE
          \/ scans' = scans /\ gu8scanInProgress' = gu8scanInProgress
      BY <3>1 DEF m2m_wifi_cb
    <3>5. scans' \in Nat
      BY <3>3, <3>4
    <3>6. gu8scanInProgress' \in BOOLEAN
      BY ONLY <3>3, <3>4, Zenon
    <3> QED
      BY <3>2, <3>3, <3>5, <3>6 DEF WifiTypes
  <2> QED
    BY <2>1, <2>2, <2>3, <2>4 DEF Types
<1>2. CountBalanced' /\ Awake'
  BY DEF m2m_wifi_cb, context, registers, chip, counts, wifi, history,
     CountBalanced, ReadKeepsAwake, ModeKnown, NeverSleepsInNoPs, WakesFirst,
     KeptAwake, Awake, HostTypes, ChipTypes, CountTypes, WifiTypes
<1>3. Message'
  BY DEF m2m_wifi_cb, context, registers, chip, counts, wifi, history, SizeWritten,
     BufferGiven, BlocksInOrder, OkPosted, Message, Size, Parts, NoBuffer,
     HostTypes, ChipTypes
<1>4. Scan'
  BY DEF m2m_wifi_cb, context, registers, chip, counts, wifi, history, FlagHasScan,
     FlagDown, ScanPosted, OneScan, Scan, HostTypes, ChipTypes, WifiTypes, Message,
     OkPosted
<1>5. Leak'
  BY DEF m2m_wifi_cb, context, registers, chip, counts, wifi, history,
     BuffersCounted, BitsTakenBack, Leak, One, CountBalanced, CountTypes, ChipTypes,
     HostTypes, Message, BufferGiven
<1> QED
  BY <1>1, <1>2, <1>3, <1>4, <1>5 DEF IInv

LEMMA GivingBack ==
  ASSUME IInv, hif_set_rx_done \/ callbackReturns
  PROVE  IInv'
<1> USE BoundsAreNat DEF IInv, Types, Kinds, Reads, Points, Waking, Writing, Sleeping, Accesses
<1>1. Types'
  <2>1. HostTypes'
    BY DEF hif_set_rx_done, callbackReturns, hifVars, context, registers, chip,
       counts, wifi, history, HostTypes
  <2>2. ChipTypes'
    BY DEF hif_set_rx_done, callbackReturns, hifVars, context, registers, chip,
       counts, wifi, history, ChipTypes, Size, HostTypes, NoBuffer
  <2>3. CountTypes'
    BY DEF hif_set_rx_done, callbackReturns, hifVars, context, registers, chip,
       counts, wifi, history, CountTypes, CountBalanced
  <2>4. WifiTypes'
    BY DEF hif_set_rx_done, callbackReturns, hifVars, context, registers, chip,
       counts, wifi, history, WifiTypes
  <2> QED
    BY <2>1, <2>2, <2>3, <2>4 DEF Types
<1>2. CountBalanced' /\ Awake'
  BY DEF hif_set_rx_done, callbackReturns, hifVars, context, registers, chip,
     counts, wifi, history, CountBalanced, ReadKeepsAwake, ModeKnown,
     NeverSleepsInNoPs, WakesFirst, KeptAwake, Awake, HostTypes, ChipTypes,
     CountTypes, WifiTypes
<1>3. Message'
  BY DEF hif_set_rx_done, callbackReturns, hifVars, context, registers, chip,
     counts, wifi, history, SizeWritten, BufferGiven, BlocksInOrder, OkPosted,
     Message, Size, Parts, NoBuffer, HostTypes, ChipTypes
<1>4. Scan'
  BY DEF hif_set_rx_done, callbackReturns, hifVars, context, registers, chip,
     counts, wifi, history, FlagHasScan, FlagDown, ScanPosted, OneScan, Scan,
     HostTypes, ChipTypes, WifiTypes, Message, OkPosted
<1>5. Leak'
  BY DEF hif_set_rx_done, callbackReturns, hifVars, context, registers, chip,
     counts, wifi, history, BuffersCounted, BitsTakenBack, Leak, One, CountBalanced,
     CountTypes, ChipTypes, HostTypes, Message, BufferGiven
<1> QED
  BY <1>1, <1>2, <1>3, <1>4, <1>5 DEF IInv

LEMMA GivingBuffer ==
  ASSUME IInv, giveBuffer, UNCHANGED wifi
  PROVE  IInv'
<1> USE BoundsAreNat DEF IInv, Types, Kinds, Reads, Points, Waking, Writing, Sleeping, Accesses
<1>1. Types'
  <2>1. HostTypes'
    BY DEF giveBuffer, context, registers, chip, counts, wifi, history, HostTypes
  <2>2. ChipTypes'
    <3>1. buffer' \in [size : 0 .. 2, parts : SUBSET {"header", "ctrl", "data"}]
      BY DEF giveBuffer, ChipTypes, NoBuffer
    <3> QED
      BY <3>1 DEF giveBuffer, ChipTypes
  <2>3. CountTypes'
    BY DEF giveBuffer, context, registers, chip, counts, wifi, history, CountTypes,
       CountBalanced
  <2>4. WifiTypes'
    BY DEF giveBuffer, context, registers, chip, counts, wifi, history, WifiTypes
  <2> QED
    BY <2>1, <2>2, <2>3, <2>4 DEF Types
<1>2. CountBalanced' /\ Awake'
  BY DEF giveBuffer, context, registers, chip, counts, wifi, history, CountBalanced,
     ReadKeepsAwake, ModeKnown, NeverSleepsInNoPs, WakesFirst, KeptAwake, Awake,
     HostTypes, ChipTypes, CountTypes, WifiTypes
<1>3. Message'
  BY DEF giveBuffer, context, registers, chip, counts, wifi, history, SizeWritten,
     BufferGiven, BlocksInOrder, OkPosted, Message, Size, Parts, NoBuffer,
     HostTypes, ChipTypes
<1>4. Scan'
  BY DEF giveBuffer, context, registers, chip, counts, wifi, history, FlagHasScan,
     FlagDown, ScanPosted, OneScan, Scan, HostTypes, ChipTypes, WifiTypes, Message,
     OkPosted
<1>5. Leak'
  BY DEF giveBuffer, context, registers, chip, counts, wifi, history,
     BuffersCounted, BitsTakenBack, Leak, One, CountBalanced, CountTypes, ChipTypes,
     HostTypes, Message, BufferGiven
<1> QED
  BY <1>1, <1>2, <1>3, <1>4, <1>5 DEF IInv

LEMMA ClockRunning ==
  ASSUME IInv, clockStarts \/ clockStops \/ notBusy, UNCHANGED wifi
  PROVE  IInv'
<1> USE BoundsAreNat DEF IInv, Types, Kinds, Reads, Points, Waking, Writing, Sleeping, Accesses
<1>1. Types'
  <2>1. HostTypes'
    BY DEF clockStarts, clockStops, notBusy, context, registers, chip, counts, wifi,
       history, HostTypes
  <2>2. ChipTypes'
    BY DEF clockStarts, clockStops, notBusy, context, registers, chip, counts, wifi,
       history, ChipTypes, Size, HostTypes, NoBuffer
  <2>3. CountTypes'
    BY DEF clockStarts, clockStops, notBusy, context, registers, chip, counts, wifi,
       history, CountTypes, CountBalanced
  <2>4. WifiTypes'
    BY DEF clockStarts, clockStops, notBusy, context, registers, chip, counts, wifi,
       history, WifiTypes
  <2> QED
    BY <2>1, <2>2, <2>3, <2>4 DEF Types
<1>2. CountBalanced' /\ Awake'
  BY DEF clockStarts, clockStops, notBusy, context, registers, chip, counts, wifi,
     history, CountBalanced, ReadKeepsAwake, ModeKnown, NeverSleepsInNoPs,
     WakesFirst, KeptAwake, Awake, HostTypes, ChipTypes, CountTypes, WifiTypes
<1>3. Message'
  BY DEF clockStarts, clockStops, notBusy, context, registers, chip, counts, wifi,
     history, SizeWritten, BufferGiven, BlocksInOrder, OkPosted, Message, Size,
     Parts, NoBuffer, HostTypes, ChipTypes
<1>4. Scan'
  BY DEF clockStarts, clockStops, notBusy, context, registers, chip, counts, wifi,
     history, FlagHasScan, FlagDown, ScanPosted, OneScan, Scan, HostTypes,
     ChipTypes, WifiTypes, Message, OkPosted
<1>5. Leak'
  BY DEF clockStarts, clockStops, notBusy, context, registers, chip, counts, wifi,
     history, BuffersCounted, BitsTakenBack, Leak, One, CountBalanced, CountTypes,
     ChipTypes, HostTypes, Message, BufferGiven
<1> QED
  BY <1>1, <1>2, <1>3, <1>4, <1>5 DEF IInv

LEMMA UnchangedKeepsIInv ==
  ASSUME IInv, UNCHANGED vars
  PROVE  IInv'
<1> USE DEF vars, hifVars, wifi, history, context, registers, chip, counts
<1>1. Types'
  BY DEF IInv, Types, HostTypes, ChipTypes, CountTypes, WifiTypes
<1>2. (CountBalanced /\ Awake)'
  BY DEF IInv, CountBalanced, Awake, ReadKeepsAwake, ModeKnown, NeverSleepsInNoPs, WakesFirst, KeptAwake
<1>3. Message'
  BY DEF IInv, Message, SizeWritten, BufferGiven, BlocksInOrder, OkPosted
<1>4. Scan'
  BY DEF IInv, Scan, FlagHasScan, FlagDown, ScanPosted, OneScan
<1>5. Leak'
  BY DEF IInv, Leak, BuffersCounted, BitsTakenBack
<1> QED
  BY <1>1, <1>2, <1>3, <1>4, <1>5 DEF IInv

-----------------------------------------------------------------------------
(* Every step of the driver, of the chip and of the callbacks               *)
LEMMA DriverKeepsIInv ==
  ASSUME IInv, driverStep
  PROVE  IInv'
<1> USE DEF driverStep
<1>1. hif_send /\ scans' = scansAfter /\ UNCHANGED <<gu8scanInProgress, inCallback, history>>
  OBVIOUS
<1>2. CASE hif_chip_wake
  BY <1>1, <1>2, ChipWaking
<1>3. CASE setHostComm
  BY <1>1, <1>3, SettingHostComm
<1>4. CASE setWakeClk
  BY <1>1, <1>4, SettingWakeClk
<1>5. CASE waitForClock
  BY <1>1, <1>5, WaitingForClock
<1>6. CASE writeState
  BY <1>1, <1>6, WritingState
<1>7. CASE askForBuffer
  BY <1>1, <1>7, AskingForBuffer
<1>8. CASE pollForBuffer
  BY <1>1, <1>8, Polling
<1>9. CASE readAddress
  BY <1>1, <1>9, ReadingAddress
<1>10. CASE writeBlock
  BY <1>1, <1>10, WritingBlock
<1>11. CASE post
  BY <1>1, <1>11, Posting
<1>12. CASE readRegisters
  BY <1>1, <1>12, ReadingRegisters
<1>13. CASE hif_chip_sleep
  BY <1>1, <1>13, GoingToSleep
<1>14. CASE waitForChip \/ clearWakeClk \/ clearHostComm
  BY <1>1, <1>14, WaitingForChip
<1> QED
  BY <1>1, <1>2, <1>3, <1>4, <1>5, <1>6, <1>7, <1>8, <1>9, <1>10, <1>11, <1>12, <1>13, <1>14
     DEF hif_send

(* All requests but m2m_wifi_wps are calls of hif_send or of the registers  *)
LEMMA RequestsAreCalls ==
  ASSUME Request
  PROVE  \/ m2m_wifi_wps /\ UNCHANGED <<scans, inCallback, history>>
         \/ \E kind \in Kinds \ {"stop"}, mode \in Modes :
              call(kind, mode) /\ UNCHANGED wifi /\ (kind = "scan" => ~gu8scanInProgress)
<1> DEFINE isCall ==
      \E kind \in Kinds \ {"stop"}, mode \in Modes :
        call(kind, mode) /\ UNCHANGED wifi /\ (kind = "scan" => ~gu8scanInProgress)
<1>1. ASSUME NEW kind \in {"config", "data", "mac", "version"}, call(kind, "NO_PS"), UNCHANGED wifi
      PROVE  isCall
  <2>1. kind \in Kinds \ {"stop"} /\ "NO_PS" \in Modes
    BY BoundsAreNat DEF Kinds, Reads
  <2> QED
    BY <1>1, <2>1
<1>2. CASE m2m_wifi_request_scan /\ UNCHANGED wifi
  <2>1. "scan" \in Kinds \ {"stop"} /\ "NO_PS" \in Modes
    BY BoundsAreNat DEF Kinds
  <2>2. call("scan", "NO_PS") /\ UNCHANGED wifi /\ ~gu8scanInProgress
    BY <1>2 DEF m2m_wifi_request_scan
  <2> QED
    BY <2>1, <2>2
<1>3. CASE (\E mode \in Modes : m2m_wifi_set_sleep_mode(mode)) /\ UNCHANGED wifi
  <2>1. "sleep" \in Kinds \ {"stop"}
    BY DEF Kinds
  <2> QED
    BY <1>3, <2>1 DEF m2m_wifi_set_sleep_mode
<1>4. CASE \/ m2m_wifi_wps /\ UNCHANGED <<scans, inCallback, history>>
           \/ (\E kind \in {"config", "data", "mac", "version"} : call(kind, "NO_PS")) /\ UNCHANGED wifi
  BY <1>1, <1>4
<1> QED
  BY <1>2, <1>3, <1>4
     DEF Request, m2m_wifi_connect_sc, m2m_wifi_set_static_ip, m2m_wifi_enable_ap,
         m2m_wifi_enable_sntp, m2m_wifi_set_cust_InfoElement, m2m_wifi_get_mac_address,
         m2m_wifi_get_firmware_version, m2m_ota_start_update, m2m_ota_get_firmware_version,
         m2m_ssl_handshake_rsp, m2m_ssl_set_active_ciphersuites, m2m_wifi_request_sleep

LEMMA NextPreservesIInv == IInv /\ [Next]_vars => IInv'
<1> SUFFICES ASSUME IInv, [Next]_vars PROVE IInv'
  OBVIOUS
<1>1. CASE UNCHANGED vars
  BY <1>1, UnchangedKeepsIInv
<1>2. CASE Request
  <2>1. CASE m2m_wifi_wps /\ UNCHANGED <<scans, inCallback, history>>
    BY <2>1, Stopping
  <2>2. CASE \E kind \in Kinds \ {"stop"}, mode \in Modes :
               call(kind, mode) /\ UNCHANGED wifi /\ (kind = "scan" => ~gu8scanInProgress)
    BY <2>2, Calling
  <2> QED
    BY <1>2, <2>1, <2>2, RequestsAreCalls
<1>3. CASE Driver
  BY <1>3, DriverKeepsIInv, Returning DEF Driver
<1>4. CASE Chip /\ UNCHANGED wifi
  BY <1>4, GivingBuffer, ClockRunning DEF Chip
<1>5. CASE \E message \in {"SCAN_DONE", "other"} : m2m_wifi_cb(message)
  BY <1>5, CallingBack
<1>6. CASE hif_set_rx_done \/ callbackReturns
  BY <1>6, GivingBack
<1> QED
  BY <1>1, <1>2, <1>3, <1>4, <1>5, <1>6 DEF Next

LEMMA InvariantHolds == Spec => []IInv
  BY InitEstablishesIInv, NextPreservesIInv, PTL DEF Spec

-----------------------------------------------------------------------------
(* Theorem: the registers and the buffers of the chip are accessed only     *)
(* while it is awake (hif_chip_wake, hif_chip_sleep, m2m_hif.c:144-188),    *)
(* from the main loop and from callbacks, whatever fails on the bus, if a   *)
(* failed read of the MAC address put the chip to sleep again, too.         *)
THEOREM AwakeThroughout ==
  ASSUME ~MacReadFails
  PROVE  Spec => []AwakeOnAccess
<1>1. IInv => AwakeOnAccess
  BY DEF IInv, Awake, KeptAwake, AwakeOnAccess
<1> QED
  BY <1>1, InvariantHolds, PTL

(* Theorem: a call writes into a buffer of its own size that was given      *)
(* after its request, posts it complete, and reports success only then      *)
(* (hif_send, m2m_hif.c:317-398), also after calls that gave up or failed.  *)
THEOREM MessagesWhole == Spec => []MessagesArriveWhole
<1>1. IInv => MessagesArriveWhole
  BY DEF IInv, Message, BufferGiven, BlocksInOrder, OkPosted, Writing, MessagesArriveWhole
<1> QED
  BY <1>1, InvariantHolds, PTL

(* Theorem: the flag of a scan is set only while the chip has a scan to     *)
(* end, so that it is cleared again, and the chip is asked for one scan at  *)
(* a time until a call fails (m2m_wifi.c:163-173, 743-758).                 *)
THEOREM FlagAgrees == Spec => []ScanFlagAgrees
<1>1. IInv => ScanFlagAgrees
  BY DEF IInv, Scan, FlagHasScan, OneScan, ScanFlagAgrees
<1> QED
  BY <1>1, InvariantHolds, PTL

(* Theorem: between calls the chip is not kept awake, unless the bus failed *)
(* or the clock did not start, and each buffer of the chip that was not     *)
(* posted goes with a bus error or with hif_send having given up            *)
(* (hif_chip_sleep, m2m_hif.c:166-188, and the loop at 342-366).            *)
THEOREM NoLeak == Spec => []NothingLeaks
<1>1. IInv => NothingLeaks
  <2>1. IInv /\ pc = "idle" /\ busErrors = 0 /\ timeouts = 0 => u8ChipSleep = 0 /\ ~wakeClk /\ ~hostComm
    BY DEF IInv, Leak, BitsTakenBack, CountBalanced
  <2>2. IInv => lost + One(ctrl4) + One(ctrl2)
                  <= giveUps + busErrors
                       + One(pc \in {"poll", "addr"} \cup Writing /\ (ctrl2 \/ ctrl4))
    BY DEF IInv, Leak, BuffersCounted
  <2>3. IInv => lost \in Nat /\ giveUps \in Nat /\ busErrors \in Nat
    BY BoundsAreNat DEF IInv, Types, CountTypes
  <2>4. One(pc \in {"poll", "addr"} \cup Writing /\ (ctrl2 \/ ctrl4)) <= One(ctrl4) + One(ctrl2)
    BY DEF One
  <2>5. IInv => lost <= giveUps + busErrors
    BY <2>2, <2>3, <2>4 DEF One
  <2> QED
    BY <2>1, <2>5 DEF NothingLeaks
<1> QED
  BY <1>1, InvariantHolds, PTL

(* Theorem: the state stays of its type; the count of hif_chip_wake is at   *)
(* most the number of calls made (m2m_hif.c:144-188).                       *)
THEOREM TypeCorrect == Spec => []TypeOK
<1>1. IInv => TypeOK
  <2> SUFFICES ASSUME IInv PROVE TypeOK
    OBVIOUS
  <2>1. HostTypes /\ ChipTypes /\ CountTypes /\ WifiTypes
    BY DEF IInv, Types
  <2>2. u8ChipSleep \in 0 .. MaxCalls
    BY <2>1, BoundsAreNat DEF CountTypes
  <2>3. HifTypeOK
    BY <2>1, <2>2 DEF HostTypes, ChipTypes, CountTypes, HifTypeOK
  <2> QED
    BY <2>1, <2>3 DEF WifiTypes, TypeOK
<1> QED
  BY <1>1, InvariantHolds, PTL
=============================================================================
