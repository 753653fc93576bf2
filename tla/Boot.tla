-------------------------------- MODULE Boot --------------------------------
(***************************************************************************)
(* Bringing the WINC1500 up and down over its SPI bus: m2m_wifi_init,      *)
(* nm_drv_init with nm_spi_init, wait_for_bootrom, chip_apply_conf,        *)
(* wait_for_firmware_start and enable_interrupts, and nm_drv_deinit with   *)
(* spi_flash_enable(0).  `at` names the access whose result is awaited.    *)
(*                                                                         *)
(* A read without a result code (nm_read_reg) hands its caller whatever    *)
(* was in an uninitialized variable when the bus failed: any flags of the  *)
(* register.  `blind` remembers that the initialization used such a value, *)
(* or that of an access which was lost and took the rest of an earlier     *)
(* answer for its own.                                                     *)
(***************************************************************************)
EXTENDS Spi

CONSTANTS
  TIMEOUT,          \* polls of the firmware's state: 0xffffffff in the code
  MaxInits          \* how often the driver is initialized
ASSUME BootAssumption == TIMEOUT \in Nat \ {0} /\ MaxInits \in Nat

VARIABLES
  at, cnt,          \* the access waited for, the counter of the loops
  chipid,           \* the cached chip id: read, and a revision from 3A0 on?
  driver,           \* "down", "starting", "failed", "up" or "stopping"
  firmware,         \* the chip's processor: "rom", "booted", "running" or "ready"
  firmwareConf,     \* history: the configuration the firmware started with
  inits, blind

stageVars == <<at, cnt, chipid, driver, firmware, firmwareConf, inits>>
bootVars == <<stageVars, blind>>
vars == <<spiVars, bootVars>>

PowerOn(skip) ==
  [r \in Regs |-> CASE r = "protocol" -> {"crc"}
                    [] r \in {"chipId", "revision", "globalReset"} -> Flags[r]
                    [] r = "waitHost" -> skip
                    [] OTHER -> {}]

NoAccess == [kind |-> "read", reg |-> "chipId", value |-> {}]

Init ==
  /\ gu8Crc_off = FALSE /\ pc = "idle" /\ command = "read" /\ op = NoAccess
  /\ tries = 0 /\ retry = 0 /\ result = "ok" /\ value = {} /\ seen = {} /\ stale = FALSE
  /\ \E skip \in SUBSET Flags["waitHost"] : regs = PowerOn(skip)
  /\ out = <<>> /\ data = NoData /\ pending = "none" /\ faults = 0
  /\ at = "none" /\ cnt = 0 /\ chipid = "none" /\ driver = "down"
  /\ firmware = "rom" /\ firmwareConf = {} /\ inits = 0 /\ blind = FALSE

-----------------------------------------------------------------------------
(* Issuing accesses and taking their results                                *)
accesses(label, kind, reg, v) == at' = label /\ start(kind, reg, v)
reads(label) == accesses(label, "read", label, {})
writes(label, reg, v) == accesses(label, "write", reg, v)
answered(label) == pc = "done" /\ at = label
ok == result = "ok"

ends(state) ==
  /\ driver' = state /\ at' = "none" /\ pc' = "idle"
  /\ UNCHANGED <<command, op, tries, retry, result, value, seen, stale, chip, faults>>

(* nm_read_reg *)
ReadValue == IF ok THEN {value} ELSE SUBSET Flags[op.reg]
trusts == blind' = (blind \/ ~ok)

driverKept == UNCHANGED <<driver, inits>>
firmwareKept == UNCHANGED <<firmware, firmwareConf>>
continues == driverKept /\ firmwareKept

-----------------------------------------------------------------------------
(* m2m_wifi_init and nm_drv_init: the bus is initialized, which resets the  *)
(* chip (nm_bus_wrapper_mega.c:180), and nm_spi_init begins                 *)
m2m_wifi_init ==
  /\ driver \in {"down", "failed"} /\ pc = "idle" /\ inits < MaxInits
  /\ inits' = inits + 1 /\ driver' = "starting"
  /\ gu8Crc_off' = FALSE
  /\ \E skip \in SUBSET Flags["waitHost"] : regs' = PowerOn(skip)
  /\ firmware' = "rom" /\ firmwareConf' = {} /\ blind' = FALSE
  /\ at' = "protocol" /\ op' = [kind |-> "read", reg |-> "protocol", value |-> {}]
  /\ pc' = "cmd" /\ command' = "read" /\ retry' = SPI_RETRY_COUNT /\ result' = "ok" /\ seen' = {}
  /\ out' = <<>> /\ data' = NoData /\ stale' = FALSE /\ pending' = "none" /\ cnt' = 0
  /\ UNCHANGED <<tries, value, faults, chipid>>

(* nm_drv_init does not look at what nm_spi_init returns                    *)
wait_for_bootrom == reads("efuse")

readProtocol ==
  /\ answered("protocol")
  /\ \/ ok /\ gu8Crc_off /\ reads("chipId") /\ UNCHANGED gu8Crc_off
     \/ /\ ok /\ ~gu8Crc_off
        /\ writes("setProtocol", "protocol", (value \ {"crc"}) \cup {"8k"}) /\ UNCHANGED gu8Crc_off
     \/ ~ok /\ ~gu8Crc_off /\ reads("protocol") /\ gu8Crc_off' = TRUE
     \/ ~ok /\ gu8Crc_off /\ wait_for_bootrom /\ UNCHANGED gu8Crc_off
  /\ continues /\ UNCHANGED <<cnt, chipid, blind>>

setProtocol ==
  /\ answered("setProtocol")
  /\ gu8Crc_off' = TRUE /\ reads("chipId")
  /\ continues /\ UNCHANGED <<cnt, chipid, blind>>

readChipId ==
  /\ answered("chipId")
  /\ IF ok THEN accesses("packetSize", "read", "protocol", {}) ELSE wait_for_bootrom
  /\ continues /\ UNCHANGED <<gu8Crc_off, cnt, chipid, blind>>

(* spi_init_pkt_sz, in the same register: a failed read is written back     *)
spi_init_pkt_sz ==
  \/ /\ answered("packetSize") /\ trusts
     /\ \E v \in ReadValue : writes("setPacketSize", "protocol", v \cup {"8k"})
     /\ continues /\ UNCHANGED <<gu8Crc_off, cnt, chipid>>
  \/ /\ answered("setPacketSize") /\ wait_for_bootrom
     /\ continues /\ UNCHANGED <<gu8Crc_off, cnt, chipid, blind>>

nm_spi_init == readProtocol \/ setProtocol \/ readChipId \/ spi_init_pkt_sz

(* wait_for_bootrom: the efuse and the boot ROM for as long as they take.   *)
(* The limit of the second loop, ++cnt > TIMEOUT on 32 bits, is never met.  *)
waitEfuse ==
  /\ answered("efuse") /\ trusts
  /\ \E v \in ReadValue : reads(IF "done" \in v THEN "waitHost" ELSE "efuse")
  /\ continues /\ UNCHANGED <<gu8Crc_off, cnt, chipid>>

versionNext == writes("version", "state", {"version"})

waitBootRom ==
  /\ \/ answered("waitHost") /\ \E v \in ReadValue : IF v = {} THEN reads("bootRom") ELSE versionNext
     \/ answered("bootRom") /\ \E v \in ReadValue : IF v = {"finished"} THEN versionNext ELSE reads("bootRom")
  /\ trusts /\ continues /\ UNCHANGED <<gu8Crc_off, cnt, chipid>>

(* nmi_get_chipid, cached; 0 if it cannot be read                           *)
Conf(id) == IF id = "3A0" THEN {"pmu", "reserved"} ELSE {"reserved"}
applyConf(id) == writes("applyConf", "gp1", Conf(id))

getChipId ==
  /\ \/ answered("version") /\ chipid = "3A0" /\ applyConf(chipid) /\ UNCHANGED <<chipid, blind>>
     \/ answered("version") /\ chipid = "none" /\ accesses("revision", "read", "chipId", {})
        /\ UNCHANGED <<chipid, blind>>
     \/ /\ answered("revision")
        /\ chipid' = IF ok THEN "3A0" ELSE "none"
        /\ trusts /\ applyConf(chipid')
  /\ continues /\ UNCHANGED <<gu8Crc_off, cnt>>

chip_apply_confRead ==              \* variant: the write stands before the loop
  /\ \/ answered("applyConf") /\ reads("gp1")
     \/ answered("gp1") /\ (~ok \/ value # Conf(chipid)) /\ reads("gp1")
     \/ answered("gp1") /\ ok /\ value = Conf(chipid) /\ writes("startFirmware", "bootRom", {"start"})
  /\ continues /\ UNCHANGED <<gu8Crc_off, cnt, chipid, blind>>

chip_apply_conf ==
  /\ \/ answered("applyConf") /\ reads("gp1")
     \/ answered("gp1") /\ (~ok \/ value # Conf(chipid)) /\ applyConf(chipid)
     \/ answered("gp1") /\ ok /\ value = Conf(chipid) /\ writes("startFirmware", "bootRom", {"start"})
  /\ continues /\ UNCHANGED <<gu8Crc_off, cnt, chipid, blind>>

(* wait_for_firmware_start *)
firmwareStartAnyState ==            \* variant: any state of the firmware will do
  \/ /\ answered("startFirmware") /\ reads("state") /\ cnt' = 0
     /\ continues /\ UNCHANGED <<gu8Crc_off, chipid, blind>>
  \/ /\ answered("state") /\ trusts /\ cnt' = cnt + 1
     /\ \/ cnt + 1 >= TIMEOUT /\ ends("failed") /\ UNCHANGED inits
        \/ cnt + 1 < TIMEOUT /\ writes("clearState", "state", {}) /\ driverKept
     /\ firmwareKept /\ UNCHANGED <<gu8Crc_off, chipid>>
  \/ /\ answered("clearState") /\ reads("pinMux")
     /\ continues /\ UNCHANGED <<gu8Crc_off, cnt, chipid, blind>>

wait_for_firmware_start ==
  \/ /\ answered("startFirmware") /\ reads("state") /\ cnt' = 0
     /\ continues /\ UNCHANGED <<gu8Crc_off, chipid, blind>>
  \/ /\ answered("state") /\ trusts /\ cnt' = cnt + 1
     /\ \E v \in ReadValue :
          \/ cnt + 1 >= TIMEOUT /\ ends("failed") /\ UNCHANGED inits
          \/ cnt + 1 < TIMEOUT /\ v = {"init"} /\ writes("clearState", "state", {}) /\ driverKept
          \/ cnt + 1 < TIMEOUT /\ v # {"init"} /\ reads("state") /\ driverKept
     /\ firmwareKept /\ UNCHANGED <<gu8Crc_off, chipid>>
  \/ /\ answered("clearState") /\ reads("pinMux")
     /\ continues /\ UNCHANGED <<gu8Crc_off, cnt, chipid, blind>>

(* enable_interrupts, then nm_get_firmware_full_info, whose blocks are one  *)
enable_interrupts ==
  /\ \/ answered("pinMux") /\ ok /\ writes("setPinMux", "pinMux", value \cup {"irq"}) /\ driverKept
     \/ answered("setPinMux") /\ reads("intrEnable") /\ driverKept
     \/ answered("intrEnable") /\ ok /\ writes("setIntrEnable", "intrEnable", value \cup {"irq"}) /\ driverKept
     \/ at \in {"pinMux", "intrEnable"} /\ answered(at) /\ ~ok /\ ends("failed") /\ UNCHANGED inits
     \/ answered("setIntrEnable") /\ accesses("revisionBlock", "readBlock", "revision", {}) /\ driverKept
  /\ firmwareKept /\ UNCHANGED <<gu8Crc_off, cnt, chipid, blind>>

nm_get_firmware_full_info ==
  /\ answered("revisionBlock")
  /\ ends(IF ok THEN "up" ELSE "failed")
  /\ firmwareKept /\ UNCHANGED <<inits, gu8Crc_off, cnt, chipid, blind>>
-----------------------------------------------------------------------------
(* While the driver is up: any access of the host interface                 *)
traffic ==
  /\ driver = "up"
  /\ \/ /\ pc = "idle"
        /\ \E kind \in Kinds, v \in SUBSET Flags["memory"] : accesses("traffic", kind, "memory", v)
        /\ driverKept
     \/ answered("traffic") /\ ends("up") /\ UNCHANGED inits
  /\ firmwareKept /\ UNCHANGED <<gu8Crc_off, cnt, chipid, blind>>

(* nm_drv_deinit: chip_deinit, spi_flash_enable(0), and the checksum is on  *)
(* again.  A failure on the way leaves all the rest undone.                 *)
nm_drv_deinit ==
  /\ driver = "up" /\ pc = "idle"
  /\ driver' = "stopping" /\ reads("globalReset")
  /\ firmwareKept /\ UNCHANGED <<inits, gu8Crc_off, cnt, chipid, blind>>

deinitFails == ~ok /\ ends("failed") /\ UNCHANGED inits

chip_deinit ==
  /\ \/ answered("globalReset") /\ ok /\ writes("stopFirmware", "globalReset", value \ {"run"}) /\ driverKept
     \/ answered("globalReset") /\ deinitFails
     \/ answered("stopFirmware") /\ chipid = "3A0" /\ reads("flashMux") /\ driverKept
  /\ firmwareKept /\ UNCHANGED <<gu8Crc_off, cnt, chipid, blind>>

flashArguments == 4                 \* DATA_CNT, BUF1, BUF_DIR and DMA_ADDR before CMD_CNT

spi_flash_enter_low_power_mode ==
  \/ /\ answered("setFlashMux") \/ answered("flashArgument")
     /\ IF cnt < flashArguments
        THEN writes("flashArgument", "flashCmd", {}) /\ cnt' = cnt + 1
        ELSE writes("flashGo", "flashCmd", {"go"}) /\ UNCHANGED cnt
     /\ UNCHANGED blind
  \/ answered("flashGo") /\ reads("flashDone") /\ UNCHANGED <<cnt, blind>>
  \/ /\ answered("flashDone") /\ trusts /\ UNCHANGED cnt
     /\ \E v \in ReadValue :
          IF v = {"done"} THEN writes("releaseFlash", "flashMux", {}) ELSE reads("flashDone")

spi_flash_enable ==
  /\ \/ answered("flashMux") /\ ok /\ writes("setFlashMux", "flashMux", {"flash"}) /\ cnt' = 0
        /\ driverKept /\ UNCHANGED <<blind, gu8Crc_off>>
     \/ answered("flashMux") /\ deinitFails /\ UNCHANGED <<cnt, blind, gu8Crc_off>>
     \/ spi_flash_enter_low_power_mode /\ driverKept /\ UNCHANGED gu8Crc_off
     \/ /\ answered("releaseFlash") /\ ends("down")       \* and nm_spi_deinit
        /\ gu8Crc_off' = FALSE /\ UNCHANGED <<inits, cnt, blind>>
  /\ firmwareKept /\ UNCHANGED chipid

(* An access of the initialization succeeds with bytes that are not its own *)
takesStale == driver = "starting" /\ pc' = "done" /\ result' = "ok" /\ op.kind # "write" /\ stale

Driver ==
  \/ Access /\ blind' = (blind \/ takesStale) /\ UNCHANGED stageVars
  \/ nm_spi_init \/ waitEfuse \/ waitBootRom \/ getChipId \/ chip_apply_conf
  \/ wait_for_firmware_start \/ enable_interrupts \/ nm_get_firmware_full_info
  \/ chip_deinit \/ spi_flash_enable

-----------------------------------------------------------------------------
(* The chip's processor and its flash (external)                            *)
sets(r, v) ==
  /\ regs' = [regs EXCEPT ![r] = v]
  /\ UNCHANGED <<host, seen, stale, line, pending, faults, at, cnt, chipid, driver, inits, blind>>

efuseLoads ==
  /\ regs["efuse"] = {} /\ sets("efuse", {"done"})
  /\ firmware' = (IF regs["waitHost"] = {} THEN firmware ELSE "booted")
  /\ UNCHANGED firmwareConf

romFinishes ==
  /\ firmware = "rom" /\ regs["efuse"] = {"done"} /\ regs["bootRom"] = {}
  /\ sets("bootRom", {"finished"})
  /\ firmware' = "booted" /\ UNCHANGED firmwareConf

firmwareStarts ==
  /\ firmware = "booted" /\ regs["bootRom"] = {"start"} /\ regs["globalReset"] = {"run"}
  /\ firmware' = "running" /\ firmwareConf' = regs["gp1"]
  /\ UNCHANGED <<spiVars, at, cnt, chipid, driver, inits, blind>>

firmwareReady ==
  /\ firmware = "running" /\ regs["globalReset"] = {"run"}
  /\ sets("state", {"init"})
  /\ firmware' = "ready" /\ UNCHANGED firmwareConf

flashRuns == regs["flashCmd"] = {"go"} /\ regs["flashDone"] = {} /\ sets("flashDone", {"done"}) /\ firmwareKept

Firmware == efuseLoads \/ romFinishes \/ firmwareStarts \/ firmwareReady \/ flashRuns

Next == m2m_wifi_init \/ traffic \/ nm_drv_deinit \/ Driver \/ Firmware

Spec == Init /\ [][Next]_vars

(* The driver runs, and the chip does what it was told.                     *)
FairSpec == Spec /\ WF_vars(Driver) /\ WF_vars(Firmware)

-----------------------------------------------------------------------------
TypeOK ==
  /\ SpiTypeOK
  /\ cnt \in Nat /\ chipid \in {"none", "3A0"}
  /\ driver \in {"down", "starting", "failed", "up", "stopping"}
  /\ firmware \in {"rom", "booted", "running", "ready"}
  /\ firmwareConf \subseteq Flags["gp1"] /\ inits \in 0 .. MaxInits /\ blind \in BOOLEAN

(* A read or a block write that reports success was taken by the chip in    *)
(* this call, and what a read returns is what its register held: never the  *)
(* late answer to an earlier command (nmspi.c:746-871, 1022-1160), unless   *)
(* its last command was lost while the header or data of such an answer     *)
(* were still on their way (`stale`).  Not so for register writes:          *)
(* spi_cmd_rsp reports success after it gave up (nmspi.c:351-374).          *)
OkMeansDone ==
  pc = "done" /\ result = "ok" /\ op.kind # "write" /\ ~stale
    => (IF op.kind = "writeBlock" THEN op.value ELSE value) \in seen

(* Whatever writes were lost, the firmware is started only once the boot    *)
(* ROM has finished and its configuration has arrived; and when             *)
(* initialization succeeds, it runs with that configuration, and host and   *)
(* chip agree on checksums and on the packet size (nmasic.c:89-101,         *)
(* 411-461, nmdrv.c:280-350, nmspi.c:1208-1257): unless the host went on    *)
(* with the value of a read that failed or that was not its own.            *)
UpMeansRunning ==
  ~blind =>
    /\ "start" \in regs["bootRom"] => firmware # "rom" /\ regs["gp1"] = Conf("3A0")
    /\ driver = "up" => /\ firmware = "ready" /\ firmwareConf = Conf("3A0")
                        /\ understands /\ "8k" \in regs["protocol"]

(* Initialization comes to an end, although three of its loops have no      *)
(* limit: those that wait for the efuse, the boot ROM and the configuration *)
(* (nmasic.c:89-101, 411-438).  Not so if host and chip disagree on the     *)
(* checksums for good, or if the host did not see that the chip skips its   *)
(* boot ROM, and waits for it.                                              *)
WaitsForRom == at = "bootRom" /\ regs["waitHost"] = {"skip"}
InitEnds == driver = "starting" ~> (driver # "starting" \/ [](~understands) \/ []WaitsForRom)
=============================================================================
