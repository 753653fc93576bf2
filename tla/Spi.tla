-------------------------------- MODULE Spi --------------------------------
(***************************************************************************)
(* The SPI protocol of the WINC1500 (winc/driver/source/nmspi.c, built     *)
(* with USE_OLD_SPI_SW): one access of the host at a time, byte by byte,   *)
(* with its polls, its RESET and its retries, and the chip behind the      *)
(* line.  An access begins with `start` and ends at pc = "done", where the *)
(* caller takes the result (see Boot).                                     *)
(*                                                                         *)
(* A register holds a set of flags.  The line may lose a command or a      *)
(* block, and the chip may answer late: `faults` counts both.  A command   *)
(* with a checksum the chip does not expect, or without one it expects, is *)
(* not understood.  The byte exchange itself never fails                   *)
(* (nm_bus_wrapper_mega.c:91-143), so that error path is left out.         *)
(*                                                                         *)
(* The host reads on after a command the chip has not taken, and the chip  *)
(* goes on with the answer it was sending.  The bytes of its data have any *)
(* value, so that any of them may look like the byte a poll looks for.  No *)
(* block is longer than one packet of DATA_PKT_SZ (8K), which has one      *)
(* header.                                                                 *)
(***************************************************************************)
EXTENDS Naturals, Sequences

CONSTANTS
  SPI_RETRY_COUNT, SPI_RESP_RETRY_COUNT,    \* 10 and 10 in the code
  RegBytes, BlockBytes,     \* the data of an answer, with their checksum
  LateBy,           \* the numbers of bytes an answer can be late
  MaxFaults

ASSUME SpiAssumption ==
  /\ SPI_RETRY_COUNT \in Nat \ {0} /\ SPI_RESP_RETRY_COUNT \in Nat
  /\ RegBytes \in Nat \ {0} /\ BlockBytes \in Nat \ {0}
  /\ LateBy \subseteq Nat \ {0} /\ MaxFaults \in Nat

Flags == [protocol |-> {"crc", "8k"}, chipId |-> {"3A0"}, efuse |-> {"done"},
          waitHost |-> {"skip"}, bootRom |-> {"finished", "start"},
          state |-> {"version", "init"}, gp1 |-> {"pmu", "reserved"},
          pinMux |-> {"irq"}, intrEnable |-> {"irq"}, revision |-> {"good"},
          globalReset |-> {"run"}, flashMux |-> {"flash"}, flashCmd |-> {"go"},
          flashDone |-> {"done"}, memory |-> {"m"}]

Regs == DOMAIN Flags
AllFlags == UNION {Flags[r] : r \in Regs}

VARIABLES
  gu8Crc_off,
  pc, command,      \* where the access is, the command being sent
  op,               \* the access: kind, register, value
  tries, retry,     \* the counters of the loops
  result, value,    \* what the access returns
  seen,             \* history: the values the chip has taken this access with
  stale,            \* history: the last command was lost in the rest of an answer
  regs, out, data,  \* the chip: its registers, what it will send, the data after that
  pending,          \* the register of the block the chip waits for, or "none"
  faults

host == <<gu8Crc_off, pc, command, op, tries, retry, result, value>>
line == <<out, data>>
chip == <<regs, line, pending>>
spiVars == <<host, seen, stale, chip, faults>>

Kinds == {"read", "write", "readBlock", "writeBlock"}
Commands == Kinds \cup {"reset"}

(* What the chip sends: bytes, and then the data of an answer, of which the *)
(* host reads as many as it wants; "00" when there is nothing to send.      *)
Idle(n) == [i \in 1 .. n |-> "00"]
NoData == [left |-> 0, size |-> 0, flags |-> {}]
byteAt(i) ==
  CASE i <= Len(out) -> out[i]
    [] i > Len(out) + data.left -> "00"
    [] OTHER -> "data"
readBytes(n) ==
  LET rest == Len(out) + data.left - n
  IN  /\ out' = SubSeq(out, n + 1, Len(out))
      /\ data' = IF rest <= 0 THEN NoData ELSE IF rest < data.left THEN [data EXCEPT !.left = rest] ELSE data

next == byteAt(1)
readByte == readBytes(1)
mayBe(i, bytes) == byteAt(i) \in bytes \cup {"data"}
mayDiffer(bytes) == next \notin bytes

-----------------------------------------------------------------------------
(* The chip (external)                                                      *)
understands == ("crc" \in regs["protocol"]) = ~gu8Crc_off

Reads(c) == c \in {"read", "readBlock"}
Size(c) == IF c = "read" THEN RegBytes ELSE BlockBytes
Answer(c, front, middle) ==
  (IF c = "reset" THEN <<"FF">> ELSE <<>>)
    \o Idle(front) \o <<c, "00">> \o (IF Reads(c) THEN Idle(middle) \o <<"F0">> ELSE <<>>)
AnswerData(c) ==
  IF Reads(c) THEN [left |-> Size(c), size |-> Size(c), flags |-> regs[op.reg]] ELSE NoData

(* A command is taken, and what the chip was sending is dropped             *)
takeCommand(front, middle) ==
  /\ out' = Answer(command, front, middle) /\ data' = AnswerData(command)
  /\ regs' = IF command = "write" THEN [regs EXCEPT ![op.reg] = op.value] ELSE regs
  /\ pending' = IF command = "writeBlock" THEN op.reg ELSE "none"
  /\ seen' = CASE Reads(command) -> seen \cup {regs[op.reg]}
               [] command = "write" -> seen \cup {op.value}
               [] OTHER -> seen
  /\ stale' = FALSE

(* A command is lost: more than the echo and the state of an earlier one    *)
(* may be on its way.                                                       *)
leftover == data.left > 0 \/ \E i \in 1 .. Len(out) : out[i] \notin Commands \cup {"00"}
loseCommand == UNCHANGED <<chip, seen>> /\ stale' = leftover

fault == faults < MaxFaults /\ faults' = faults + 1
noFault == UNCHANGED faults

-----------------------------------------------------------------------------
(* The entry of spi_read_reg, spi_write_reg, nm_spi_read, nm_spi_write      *)
start(kind, reg, v) ==
  /\ op' = [kind |-> kind, reg |-> reg, value |-> v]
  /\ pc' = "cmd" /\ command' = kind
  /\ retry' = SPI_RETRY_COUNT /\ result' = "ok" /\ seen' = {}
  /\ UNCHANGED <<tries, value, stale, chip, faults>>

spi_cmd ==
  /\ pc = "cmd"
  /\ pc' = (IF command = "reset" THEN "skip" ELSE "echo")
  /\ tries' = SPI_RESP_RETRY_COUNT
  /\ \/ understands /\ takeCommand(0, 0) /\ noFault
     \/ /\ understands /\ fault
        /\ \E front, middle \in {0} \cup LateBy : front + middle > 0 /\ takeCommand(front, middle)
     \/ understands /\ fault /\ loseCommand
     \/ ~understands /\ noFault /\ loseCommand
  /\ UNCHANGED <<gu8Crc_off, command, op, retry, result, value>>

(* spi_cmd_rsp: a byte is skipped after RESET, then the echo of the command *)
(* and the state are looked for.  Neither loop reports that it gave up.     *)
skipByte ==
  /\ pc = "skip" /\ readByte
  /\ pc' = "echo"
  /\ UNCHANGED <<gu8Crc_off, command, op, tries, retry, result, value, seen, stale, regs, pending, faults>>

pollEcho ==
  /\ pc = "echo" /\ readByte
  /\ \/ mayDiffer({command}) /\ tries > 0 /\ tries' = tries - 1 /\ pc' = pc
     \/ (mayBe(1, {command}) \/ tries = 0) /\ tries' = SPI_RESP_RETRY_COUNT /\ pc' = "state"
  /\ UNCHANGED <<gu8Crc_off, command, op, retry, result, value, seen, stale, regs, pending, faults>>

fails == result' = "fail" /\ pc' = "cmd" /\ command' = "reset"
finishes == result' = "ok" /\ pc' = "done" /\ UNCHANGED command

(* After the RESET: another try, or the failure is returned                 *)
retryAgain ==
  /\ retry' = retry - 1
  /\ IF retry > 1 THEN pc' = "cmd" /\ command' = op.kind ELSE pc' = "done" /\ UNCHANGED command
  /\ UNCHANGED result

afterState ==
  \/ command = "reset" /\ retryAgain
  \/ command = "write" /\ finishes /\ UNCHANGED retry
  \/ Reads(command) /\ pc' = "header" /\ UNCHANGED <<command, result, retry>>
  \/ command = "writeBlock" /\ pc' = "block" /\ UNCHANGED <<command, result, retry>>

pollState ==
  /\ pc = "state" /\ readByte
  /\ \/ mayDiffer({"00"}) /\ tries > 0 /\ tries' = tries - 1 /\ UNCHANGED <<pc, command, result, retry>>
     \/ (mayBe(1, {"00"}) \/ tries = 0) /\ tries' = SPI_RESP_RETRY_COUNT /\ afterState
  /\ UNCHANGED <<gu8Crc_off, op, value, seen, stale, regs, pending, faults>>

(* spi_data_read: the header, any byte from F0 to FF, which on the last try *)
(* comes too late.  The data are those of an answer if the host reads all   *)
(* of them from the first on, and anything if not.                          *)
Headers == {"F0", "FF"}
pollHeader ==
  /\ pc = "header" /\ readByte
  /\ \/ mayBe(1, Headers) /\ tries > 0 /\ pc' = "data" /\ UNCHANGED <<tries, command, result>>
     \/ mayDiffer(Headers) /\ tries > 0 /\ tries' = tries - 1 /\ UNCHANGED <<pc, command, result>>
     \/ tries = 0 /\ fails /\ UNCHANGED tries
  /\ UNCHANGED <<gu8Crc_off, op, retry, value, seen, stale, regs, pending, faults>>

wholeAnswer == out = <<>> /\ data.left = data.size /\ data.size = Size(op.kind)

readData ==
  /\ pc = "data" /\ readBytes(Size(op.kind))
  /\ value' \in (IF wholeAnswer THEN {data.flags} ELSE SUBSET Flags[op.reg]) /\ finishes
  /\ UNCHANGED <<gu8Crc_off, op, tries, retry, seen, stale, regs, pending, faults>>

(* spi_data_write: the chip stores the block and answers at once, or late   *)
rspLength == IF gu8Crc_off THEN 3 ELSE 2

writeData ==
  /\ pc = "block" /\ pc' = "rsp"
  /\ \/ /\ pending # "none"
        /\ \E late \in {0} \cup LateBy :
             /\ out' = Idle(rspLength - 2 + late) \o <<"C3", "00">> /\ data' = NoData
             /\ IF late = 0 THEN noFault ELSE fault
        /\ regs' = [regs EXCEPT ![pending] = op.value]
        /\ seen' = seen \cup {op.value} /\ pending' = "none"
     \/ pending # "none" /\ fault /\ UNCHANGED <<chip, seen>>
     \/ pending = "none" /\ noFault /\ UNCHANGED <<chip, seen>>
  /\ UNCHANGED <<gu8Crc_off, command, op, tries, retry, result, value, stale>>

spi_data_rspIgnored ==              \* variant: the response is not looked at
  /\ pc = "rsp" /\ readBytes(rspLength) /\ finishes
  /\ UNCHANGED <<gu8Crc_off, op, tries, retry, value, seen, stale, regs, pending, faults>>

spi_data_rsp ==
  /\ pc = "rsp" /\ readBytes(rspLength)
  /\ \/ mayBe(rspLength - 1, {"C3"}) /\ mayBe(rspLength, {"00"}) /\ finishes
     \/ (byteAt(rspLength - 1) # "C3" \/ byteAt(rspLength) # "00") /\ fails
  /\ UNCHANGED <<gu8Crc_off, op, tries, retry, value, seen, stale, regs, pending, faults>>

Access == spi_cmd \/ skipByte \/ pollEcho \/ pollState \/ pollHeader \/ readData \/ writeData \/ spi_data_rsp

-----------------------------------------------------------------------------
SpiTypeOK ==
  /\ gu8Crc_off \in BOOLEAN
  /\ pc \in {"idle", "cmd", "skip", "echo", "state", "header", "data", "block", "rsp", "done"}
  /\ command \in Commands /\ op \in [kind : Kinds, reg : Regs, value : SUBSET AllFlags]
  /\ tries \in 0 .. SPI_RESP_RETRY_COUNT /\ retry \in 0 .. SPI_RETRY_COUNT
  /\ result \in {"ok", "fail"} /\ value \in SUBSET AllFlags /\ seen \subseteq SUBSET AllFlags
  /\ \A r \in Regs : regs[r] \subseteq Flags[r]
  /\ stale \in BOOLEAN /\ data.left \in 0 .. data.size /\ data.flags \subseteq AllFlags
  /\ pending \in Regs \cup {"none"} /\ faults \in 0 .. MaxFaults
=============================================================================
