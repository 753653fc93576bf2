------------------------------ MODULE HifSend ------------------------------
(***************************************************************************)
(* The sending side of the host interface: hif_send of                     *)
(* winc/driver/source/m2m_hif.c with the waking and putting to sleep of    *)
(* the chip (chip_wake and chip_sleep of nmasic.c), and the registers of   *)
(* the WINC1500 they work on.  A call starts at pc = "wake", and ends at   *)
(* "done", where its caller takes the result (see Wifi).                   *)
(*                                                                         *)
(* Every access to the bus is a step and may fail.  The chip gives buffers *)
(* out, runs its clock and takes the messages; it stays awake as long as   *)
(* the host asks it to or has not read the chip's message.                 *)
(***************************************************************************)
EXTENDS Integers

CONSTANTS
  Modes,            \* power save modes, among them "NO_PS"
  MaxPolls,         \* 1000 in the code
  WAKUP_TRAILS_TIMEOUT,
  MacReadFails,     \* may reading the MAC address meet a bus error?
  MaxBusErrors, MaxCalls

ASSUME HifSendAssumption ==
  /\ "NO_PS" \in Modes
  /\ MaxPolls \in Nat \ {0} /\ WAKUP_TRAILS_TIMEOUT \in Nat
  /\ MacReadFails \in BOOLEAN /\ MaxBusErrors \in Nat /\ MaxCalls \in Nat

VARIABLES
  u8ChipMode, u8ChipSleep, u8HifRXDone,     \* gstrHifCxt
  pc, op, ret,                  \* where the call is, what it is, its result
  cnt,                          \* accesses counted by a polling loop
  hostComm, wakeClk,            \* HOST_CORT_COMM bit 0, WAKE_CLK_REG bit 1
  stateReg, ctrl2, ctrl4,       \* NMI_STATE_REG: size; CTRL_2 bit 1; CTRL_4: a buffer?
  clocks, busy,                 \* CLOCKS_EN bit 2, CORT_HOST_COMM bit 0
  chipMode,                     \* the mode the firmware was told
  buffer,                       \* the buffer CTRL_4 points to: its size and contents
  posted,                       \* has the chip taken the message of this call?
  calls, busErrors, giveUps, timeouts,
  lost                          \* buffers given out and not posted

registers == <<hostComm, wakeClk, stateReg, ctrl2, ctrl4>>
chip == <<clocks, busy, chipMode, buffer>>
counts == <<calls, busErrors, giveUps, timeouts, lost>>
context == <<u8ChipMode, u8ChipSleep, u8HifRXDone>>
hifVars == <<context, pc, op, ret, cnt, registers, chip, posted, counts>>

Reads == {"mac", "version"}                 \* calls that read registers only
Kinds == Reads \cup {"config", "data", "scan", "stop", "sleep"}
Size(kind) == IF kind = "data" THEN 2 ELSE 1
Parts(kind) == IF kind = "data" THEN {"header", "ctrl", "data"} ELSE {"header", "ctrl"}
NoBuffer == [size |-> 0, parts |-> {}]
NoCall == [kind |-> "config", arg |-> "NO_PS"]

HifInit ==
  /\ u8ChipMode = "NO_PS" /\ u8ChipSleep = 0 /\ u8HifRXDone = FALSE
  /\ pc = "idle" /\ op = NoCall /\ ret = "ok" /\ cnt = 0
  /\ hostComm = FALSE /\ wakeClk = FALSE
  /\ stateReg = 0 /\ ctrl2 = FALSE /\ ctrl4 = FALSE
  /\ clocks = TRUE /\ busy = FALSE /\ chipMode = "NO_PS" /\ buffer = NoBuffer
  /\ posted = FALSE
  /\ calls = 0 /\ busErrors = 0 /\ giveUps = 0 /\ timeouts = 0 /\ lost = 0

-----------------------------------------------------------------------------
(* Steps of a call.  goto is where it goes on, ERR1 the label of hif_send:  *)
(* the count goes down but the chip is not put to sleep.                    *)
goto(next) == pc' = next /\ UNCHANGED <<ret, u8ChipSleep>>
returns(result) == pc' = "done" /\ ret' = result

decremented == IF u8ChipSleep >= 1 THEN u8ChipSleep - 1 ELSE 0
hif_chip_sleep_sc == u8ChipSleep' = decremented
ERR1 == returns("bus") /\ hif_chip_sleep_sc

busOk == UNCHANGED busErrors
busFails == busErrors < MaxBusErrors /\ busErrors' = busErrors + 1

call(kind, arg) ==
  /\ pc = "idle" /\ calls < MaxCalls
  /\ pc' = "wake" /\ op' = [kind |-> kind, arg |-> arg]
  /\ ret' = "ok" /\ cnt' = 0 /\ posted' = FALSE
  /\ calls' = calls + 1
  /\ UNCHANGED <<context, registers, chip, busErrors, giveUps, timeouts, lost>>

firstAccess == IF op.kind \in Reads THEN "read" ELSE "state"

(* hif_chip_wake *)
hif_chip_wake ==
  /\ pc = "wake"
  /\ \/ u8HifRXDone /\ pc' = firstAccess /\ UNCHANGED u8ChipSleep
     \/ /\ ~u8HifRXDone /\ u8ChipSleep = 0 /\ u8ChipMode # "NO_PS"
        /\ pc' = "wakeHost" /\ UNCHANGED u8ChipSleep
     \/ /\ ~u8HifRXDone /\ ~(u8ChipSleep = 0 /\ u8ChipMode # "NO_PS")
        /\ pc' = firstAccess /\ u8ChipSleep' = u8ChipSleep + 1
  /\ UNCHANGED <<u8ChipMode, u8HifRXDone, op, ret, cnt, registers, chip, posted, counts>>

(* chip_wake: set the two bits, wait for the clock                          *)
setHostComm ==
  /\ pc = "wakeHost"
  /\ \/ busFails /\ returns("bus") /\ UNCHANGED hostComm
     \/ busOk /\ hostComm' = TRUE /\ pc' = "wakeClk" /\ UNCHANGED ret
  /\ UNCHANGED <<context, op, cnt, wakeClk, stateReg, ctrl2, ctrl4, chip, posted, calls, giveUps, timeouts, lost>>

setWakeClk ==
  /\ pc = "wakeClk"
  /\ \/ busFails /\ returns("bus") /\ UNCHANGED wakeClk
     \/ busOk /\ wakeClk' = TRUE /\ pc' = "wakeWait" /\ UNCHANGED ret
  /\ cnt' = 0
  /\ UNCHANGED <<context, op, hostComm, stateReg, ctrl2, ctrl4, chip, posted, calls, giveUps, timeouts, lost>>

waitForClockCounted ==              \* variant: the call counts although the chip sleeps on
  /\ pc = "wakeWait" /\ busOk
  /\ pc' = (IF clocks THEN firstAccess ELSE "done")
  /\ ret' = (IF clocks THEN ret ELSE "timeout")
  /\ u8ChipSleep' = u8ChipSleep + 1 /\ cnt' = 0
  /\ UNCHANGED <<u8ChipMode, u8HifRXDone, op, registers, chip, posted, calls, giveUps, timeouts, lost>>

waitForClock ==
  /\ pc = "wakeWait"
  /\ \/ busFails /\ returns("bus") /\ UNCHANGED <<u8ChipSleep, cnt, timeouts>>
     \/ /\ busOk /\ clocks
        /\ pc' = firstAccess /\ u8ChipSleep' = u8ChipSleep + 1 /\ cnt' = 0
        /\ UNCHANGED <<ret, timeouts>>
     \/ /\ busOk /\ ~clocks /\ cnt < WAKUP_TRAILS_TIMEOUT
        /\ cnt' = cnt + 1 /\ goto(pc) /\ UNCHANGED timeouts
     \/ /\ busOk /\ ~clocks /\ cnt = WAKUP_TRAILS_TIMEOUT
        /\ returns("timeout") /\ timeouts' = timeouts + 1 /\ UNCHANGED <<u8ChipSleep, cnt>>
  /\ UNCHANGED <<u8ChipMode, u8HifRXDone, op, registers, chip, posted, calls, giveUps, lost>>

(* hif_send: the size is written before the chip is asked for a buffer      *)
writeState ==
  /\ pc = "state"
  /\ \/ busFails /\ ERR1 /\ UNCHANGED stateReg
     \/ busOk /\ stateReg' = Size(op.kind) /\ goto("ctrl2")
  /\ UNCHANGED <<u8ChipMode, u8HifRXDone, op, cnt, hostComm, wakeClk, ctrl2, ctrl4, chip, posted,
                 calls, giveUps, timeouts, lost>>

askForBuffer ==
  /\ pc = "ctrl2"
  /\ \/ busFails /\ ERR1 /\ UNCHANGED ctrl2
     \/ busOk /\ ctrl2' = TRUE /\ goto("poll")
  /\ cnt' = 0
  /\ UNCHANGED <<u8ChipMode, u8HifRXDone, op, hostComm, wakeClk, stateReg, ctrl4, chip, posted,
                 calls, giveUps, timeouts, lost>>

(* at most MaxPolls reads of CTRL_2; a failed read ends the loop, too, and  *)
(* in either case there is no buffer: the call puts the chip to sleep       *)
noBufferAwake == returns("alloc") /\ UNCHANGED u8ChipSleep        \* variant: the chip is left awake

noBuffer == pc' = "sleep" /\ ret' = "alloc" /\ UNCHANGED u8ChipSleep

pollForBufferEager ==               \* variant: the address is read before bit 1 is clear
  /\ pc = "poll" /\ busOk /\ goto("addr")
  /\ UNCHANGED <<u8ChipMode, u8HifRXDone, op, cnt, registers, chip, posted, calls, giveUps, timeouts, lost>>

pollForBufferForever ==             \* variant: no limit
  /\ pc = "poll"
  /\ \/ busFails /\ noBuffer
     \/ busOk /\ goto(IF ctrl2 THEN pc ELSE "addr")
  /\ UNCHANGED <<u8ChipMode, u8HifRXDone, op, cnt, registers, chip, posted, calls, giveUps, timeouts, lost>>

pollForBuffer ==
  /\ pc = "poll"
  /\ \/ busFails /\ noBuffer /\ UNCHANGED <<cnt, giveUps>>
     \/ busOk /\ ~ctrl2 /\ goto("addr") /\ UNCHANGED <<cnt, giveUps>>
     \/ /\ busOk /\ ctrl2 /\ cnt + 1 < MaxPolls
        /\ cnt' = cnt + 1 /\ goto(pc) /\ UNCHANGED giveUps
     \/ /\ busOk /\ ctrl2 /\ cnt + 1 = MaxPolls
        /\ noBuffer /\ giveUps' = giveUps + 1 /\ UNCHANGED cnt
  /\ UNCHANGED <<u8ChipMode, u8HifRXDone, op, registers, chip, posted, calls, timeouts, lost>>

readAddress ==
  /\ pc = "addr"
  /\ \/ busFails /\ ERR1
     \/ busOk /\ ctrl4 /\ goto("header")
     \/ busOk /\ ~ctrl4 /\ noBuffer
  /\ UNCHANGED <<u8ChipMode, u8HifRXDone, op, cnt, registers, chip, posted, calls, giveUps, timeouts, lost>>

(* header, control block, data block *)
After == [header |-> "ctrl", ctrl |-> IF op.kind = "data" THEN "data" ELSE "post", data |-> "post"]

writeBlock ==
  /\ pc \in {"header", "ctrl", "data"}
  /\ \/ busFails /\ ERR1 /\ UNCHANGED buffer
     \/ busOk /\ buffer' = [buffer EXCEPT !.parts = @ \cup {pc}] /\ goto(After[pc])
  /\ UNCHANGED <<u8ChipMode, u8HifRXDone, op, cnt, registers, clocks, busy, chipMode, posted,
                 calls, giveUps, timeouts, lost>>

(* CTRL_3: the chip takes the message.  It does what it is told (mode) and  *)
(* may be busy for a while.                                                 *)
post ==
  /\ pc = "post"
  /\ \/ busFails /\ ERR1 /\ UNCHANGED <<chip, ctrl4, posted>>
     \/ /\ busOk /\ goto("sleep")
        /\ posted' = TRUE
        /\ buffer' = NoBuffer /\ ctrl4' = FALSE
        /\ chipMode' = IF op.kind = "sleep" THEN op.arg ELSE chipMode
        /\ busy' \in BOOLEAN
        /\ UNCHANGED clocks
  /\ UNCHANGED <<u8ChipMode, u8HifRXDone, op, cnt, hostComm, wakeClk, stateReg, ctrl2,
                 calls, giveUps, timeouts, lost>>

(* m2m_wifi_get_mac_address and m2m_wifi_get_otp_mac_address return without *)
(* hif_chip_sleep if a read fails, m2m_wifi_get_firmware_version does not   *)
readRegisters ==
  /\ pc = "read"
  /\ \/ busFails /\ op.kind = "mac" /\ MacReadFails /\ returns("bus") /\ UNCHANGED u8ChipSleep
     \/ busFails /\ op.kind = "version" /\ pc' = "sleep" /\ ret' = "bus" /\ UNCHANGED u8ChipSleep
     \/ busOk /\ goto("sleep")
  /\ UNCHANGED <<u8ChipMode, u8HifRXDone, op, cnt, registers, chip, posted, calls, giveUps, timeouts, lost>>

(* hif_chip_sleep *)
hif_chip_sleep ==
  /\ pc = "sleep"
  /\ u8ChipSleep' = decremented
  /\ pc' = IF decremented = 0 /\ u8ChipMode # "NO_PS" THEN "sleepWait" ELSE "done"
  /\ UNCHANGED <<u8ChipMode, u8HifRXDone, op, ret, cnt, registers, chip, posted, counts>>

(* chip_sleep: wait, without a limit, for the chip, then take the bits back.*)
(* A failure becomes the result of a call that had none.                    *)
sleepFails == busFails /\ returns(IF ret = "ok" THEN "bus" ELSE ret)

waitForChip ==
  /\ pc = "sleepWait"
  /\ \/ sleepFails
     \/ busOk /\ UNCHANGED ret /\ pc' = IF busy THEN pc ELSE "clearClk"
  /\ UNCHANGED <<context, op, cnt, registers, chip, posted, calls, giveUps, timeouts, lost>>

clearWakeClk ==
  /\ pc = "clearClk"
  /\ \/ sleepFails /\ UNCHANGED wakeClk
     \/ busOk /\ wakeClk' = FALSE /\ pc' = "clearHost" /\ UNCHANGED ret
  /\ UNCHANGED <<context, op, cnt, hostComm, stateReg, ctrl2, ctrl4, chip, posted, calls, giveUps, timeouts, lost>>

clearHostComm ==
  /\ pc = "clearHost"
  /\ \/ sleepFails /\ UNCHANGED hostComm
     \/ busOk /\ hostComm' = FALSE /\ pc' = "done" /\ UNCHANGED ret
  /\ UNCHANGED <<context, op, cnt, wakeClk, stateReg, ctrl2, ctrl4, chip, posted, calls, giveUps, timeouts, lost>>

hif_send ==
  \/ hif_chip_wake \/ setHostComm \/ setWakeClk \/ waitForClock
  \/ writeState \/ askForBuffer \/ pollForBuffer \/ readAddress \/ writeBlock \/ post
  \/ readRegisters
  \/ hif_chip_sleep \/ waitForChip \/ clearWakeClk \/ clearHostComm

-----------------------------------------------------------------------------
(* The chip: a buffer of the size in NMI_STATE_REG, or none                 *)
giveBuffer ==
  /\ ctrl2 /\ clocks
  /\ ctrl2' = FALSE
  /\ \/ ctrl4' = TRUE /\ buffer' = [size |-> stateReg, parts |-> {}]
     \/ ctrl4' = FALSE /\ buffer' = NoBuffer
  /\ lost' = IF ctrl4 THEN lost + 1 ELSE lost
  /\ UNCHANGED <<context, pc, op, ret, cnt, hostComm, wakeClk, stateReg, clocks, busy, chipMode,
                 posted, calls, busErrors, giveUps, timeouts>>

clockStarts ==
  /\ ~clocks /\ wakeClk
  /\ clocks' = TRUE
  /\ UNCHANGED <<context, pc, op, ret, cnt, registers, busy, chipMode, buffer, posted, counts>>

clockStops ==
  /\ clocks /\ chipMode # "NO_PS" /\ ~busy
  /\ ~hostComm /\ ~u8HifRXDone
  /\ clocks' = FALSE
  /\ UNCHANGED <<context, pc, op, ret, cnt, registers, busy, chipMode, buffer, posted, counts>>

notBusy ==
  /\ busy
  /\ busy' = FALSE
  /\ UNCHANGED <<context, pc, op, ret, cnt, registers, clocks, chipMode, buffer, posted, counts>>

Chip == giveBuffer \/ clockStarts \/ clockStops \/ notBusy

-----------------------------------------------------------------------------
Points == {"idle", "wake", "wakeHost", "wakeClk", "wakeWait", "state", "ctrl2", "poll", "addr",
           "header", "ctrl", "data", "post", "read", "sleep", "sleepWait", "clearClk", "clearHost",
           "done"}

HifTypeOK ==
  /\ u8ChipMode \in Modes /\ u8ChipSleep \in 0 .. MaxCalls /\ u8HifRXDone \in BOOLEAN
  /\ pc \in Points /\ op \in [kind : Kinds, arg : Modes]
  /\ ret \in {"ok", "bus", "alloc", "timeout"} /\ cnt \in Nat
  /\ {hostComm, wakeClk, ctrl2, ctrl4, clocks, busy, posted} \subseteq BOOLEAN
  /\ stateReg \in 0 .. 2 /\ chipMode \in Modes
  /\ buffer \in [size : 0 .. 2, parts : SUBSET {"header", "ctrl", "data"}]
  /\ calls \in 0 .. MaxCalls /\ busErrors \in 0 .. MaxBusErrors
  /\ giveUps \in Nat /\ timeouts \in Nat /\ lost \in Nat
=============================================================================
