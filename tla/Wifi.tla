-------------------------------- MODULE Wifi --------------------------------
(***************************************************************************)
(* The Wi-Fi driver (winc/driver/source/m2m_wifi.c) over the sending side  *)
(* of the host interface: the requests of the API, the flag of a scan in   *)
(* progress, the power save mode, and m2m_wifi_cb.  Calls are made from    *)
(* the main loop, or from the callback of a message of the chip, before or *)
(* after the chip's buffer has been given back (u8HifRXDone).              *)
(***************************************************************************)
EXTENDS HifSend

VARIABLES
  gu8scanInProgress,
  scans,            \* scans the chip has been asked for and has not ended
  inCallback,       \* "no", or the message whose callback runs
  failed,           \* history: has a call returned an error?
  misled            \* history: has the host given up power save without the chip?

history == <<failed, misled>>
wifi == <<gu8scanInProgress, scans, inCallback, history>>
vars == <<hifVars, wifi>>

Init ==
  /\ HifInit /\ gu8scanInProgress = FALSE /\ scans = 0 /\ inCallback = "no"
  /\ failed = FALSE /\ misled = FALSE

-----------------------------------------------------------------------------
(* Requests that the chip only has to be sent: checks of the arguments,     *)
(* which refuse a call before anything is sent, are left out.               *)
m2m_wifi_connect_sc == call("config", "NO_PS")      \* and default_connect, disconnect
m2m_wifi_set_static_ip == call("config", "NO_PS")   \* and the MAC, DHCP, listen interval
m2m_wifi_enable_ap == call("config", "NO_PS")       \* and P2P, gains, RSSI, ethernet packets
m2m_wifi_enable_sntp == call("config", "NO_PS")     \* and time, power, logs, voltage
m2m_wifi_set_cust_InfoElement == call("data", "NO_PS")
m2m_wifi_get_mac_address == call("mac", "NO_PS")
m2m_wifi_get_firmware_version == call("version", "NO_PS")

(* The OTA and TLS requests go the same way                                 *)
m2m_ota_start_update == call("config", "NO_PS")     \* and check, schedule, rollback, abort, switch
m2m_ota_get_firmware_version == call("version", "NO_PS")
m2m_ssl_handshake_rsp == call("data", "NO_PS")      \* and certificates
m2m_ssl_set_active_ciphersuites == call("config", "NO_PS")

(* only in the manual mode *)
m2m_wifi_request_sleep == u8ChipMode = "MANUAL" /\ call("config", "NO_PS")

m2m_wifi_set_sleep_mode(mode) == call("sleep", mode)

(* m2m_wifi_request_scan, ..._passive, ..._ssid_list: one scan at a time    *)
m2m_wifi_request_scan == ~gu8scanInProgress /\ call("scan", "NO_PS")

(* m2m_wifi_wps, m2m_wifi_start_provision_mode: "Stop Scan if it is ongoing"*)
m2m_wifi_wps ==
  /\ call("stop", "NO_PS")
  /\ gu8scanInProgress' = FALSE

Request ==
  \/ /\ \/ m2m_wifi_connect_sc \/ m2m_wifi_set_static_ip \/ m2m_wifi_enable_ap
        \/ m2m_wifi_enable_sntp \/ m2m_wifi_set_cust_InfoElement
        \/ m2m_wifi_get_mac_address \/ m2m_wifi_get_firmware_version
        \/ m2m_ota_start_update \/ m2m_ota_get_firmware_version
        \/ m2m_ssl_handshake_rsp \/ m2m_ssl_set_active_ciphersuites
        \/ m2m_wifi_request_sleep \/ m2m_wifi_request_scan
        \/ \E mode \in Modes : m2m_wifi_set_sleep_mode(mode)
     /\ UNCHANGED wifi
  \/ m2m_wifi_wps /\ UNCHANGED <<scans, inCallback, history>>

remember ==
  /\ failed' = (failed \/ ret # "ok")
  /\ misled' = (misled \/ (u8ChipMode' = "NO_PS" /\ chipMode # "NO_PS"))

(* The call returns.  The flag of a scan is set if it was sent, the mode of *)
(* the host changes even if the chip was not told.                          *)
callReturnsMarked ==                \* variant: the flag is set whatever hif_send returned
  /\ pc = "done" /\ pc' = "idle"
  /\ gu8scanInProgress' = (gu8scanInProgress \/ op.kind = "scan")
  /\ u8ChipMode' = IF op.kind = "sleep" THEN op.arg ELSE u8ChipMode
  /\ UNCHANGED <<u8ChipSleep, u8HifRXDone, op, ret, cnt, registers, chip, posted, counts, scans, inCallback>>
  /\ remember

callReturns ==
  /\ pc = "done"
  /\ pc' = "idle"
  /\ gu8scanInProgress' = (gu8scanInProgress \/ (op.kind = "scan" /\ ret = "ok"))
  /\ u8ChipMode' = IF op.kind = "sleep" THEN op.arg ELSE u8ChipMode
  /\ UNCHANGED <<u8ChipSleep, u8HifRXDone, op, ret, cnt, registers, chip, posted, counts, scans,
                 inCallback>>
  /\ remember

(* What the chip makes of the message it takes                              *)
scansAfter ==
  CASE op.kind = "scan" /\ posted' /\ ~posted -> scans + 1
    [] op.kind = "stop" /\ posted' /\ ~posted -> 0
    [] OTHER -> scans

driverStep ==
  /\ hif_send
  /\ scans' = scansAfter
  /\ UNCHANGED <<gu8scanInProgress, inCallback, history>>

-----------------------------------------------------------------------------
(* hif_isr has read the header of a message and calls m2m_wifi_cb.  The     *)
(* flag of the scan is cleared before the message is read.                  *)
m2m_wifi_cb(message) ==
  /\ pc = "idle" /\ inCallback = "no" /\ clocks
  /\ inCallback' = message
  /\ u8HifRXDone' = TRUE
  /\ \/ /\ message = "SCAN_DONE" /\ scans > 0
        /\ scans' = scans - 1 /\ gu8scanInProgress' = FALSE
     \/ message = "other" /\ UNCHANGED <<scans, gu8scanInProgress>>
  /\ UNCHANGED <<u8ChipMode, u8ChipSleep, pc, op, ret, cnt, registers, chip, posted, counts, history>>

(* hif_receive of the end of the message, or hif_isr at the end             *)
hif_set_rx_done ==
  /\ pc = "idle" /\ inCallback # "no" /\ u8HifRXDone
  /\ u8HifRXDone' = FALSE
  /\ UNCHANGED <<u8ChipMode, u8ChipSleep, pc, op, ret, cnt, registers, chip, posted, counts, wifi>>

callbackReturns ==
  /\ pc = "idle" /\ inCallback # "no" /\ ~u8HifRXDone
  /\ inCallback' = "no"
  /\ UNCHANGED <<hifVars, gu8scanInProgress, scans, history>>

Driver == driverStep \/ callReturns

Next ==
  \/ Request \/ Driver
  \/ Chip /\ UNCHANGED wifi
  \/ \E message \in {"SCAN_DONE", "other"} : m2m_wifi_cb(message)
  \/ hif_set_rx_done \/ callbackReturns

Spec == Init /\ [][Next]_vars

(* The driver runs; the chip's work on a message comes to an end.           *)
FairSpec == Spec /\ WF_vars(Driver) /\ WF_vars(notBusy /\ UNCHANGED wifi)

-----------------------------------------------------------------------------
TypeOK ==
  /\ HifTypeOK
  /\ gu8scanInProgress \in BOOLEAN /\ scans \in Nat
  /\ inCallback \in {"no", "SCAN_DONE", "other"} /\ {failed, misled} \subseteq BOOLEAN

Accesses == {"state", "ctrl2", "poll", "addr", "header", "ctrl", "data", "post", "read"}

(* The registers and buffers behind the bus are accessed only while the     *)
(* chip is awake, whatever failed before and whoever calls: the main loop   *)
(* or a callback (m2m_hif.c:144-164).  It takes that the chip was told when *)
(* the host gave power save up, which is not so after a failed              *)
(* m2m_wifi_set_sleep_mode (m2m_wifi.c:1093-1095).                          *)
AwakeOnAccess == ~misled => (pc \in Accesses => clocks)

(* The buffer hif_send writes to was given for this call and has its size,  *)
(* also after an earlier call has given up waiting for one; what is posted  *)
(* is complete (m2m_hif.c:317-398); and a call that reports success has     *)
(* posted.  (The converse fails: the chip may not go to sleep after that.)  *)
MessagesArriveWhole ==
  /\ pc \in {"header", "ctrl", "data", "post"} => buffer.size = Size(op.kind)
  /\ pc = "post" => buffer.parts = Parts(op.kind)
  /\ pc = "done" /\ ret = "ok" /\ op.kind \notin Reads => posted

(* The flag of a scan is never stuck: as long as it is set and no call is   *)
(* being made, the chip has a scan to end, and the flag with it             *)
(* (m2m_wifi.c:163-173, 744-747); otherwise no scan would ever be requested *)
(* again.  And while every call succeeds, the chip has one scan at a time.  *)
(* (A failed m2m_wifi_wps clears the flag although the scan goes on, and a  *)
(* scan that was posted may be reported as failed.)                         *)
ScanFlagAgrees ==
  /\ gu8scanInProgress /\ pc = "idle" => scans > 0
  /\ ~failed => scans <= 1

(* Waking and sleeping are balanced: when no call is made and none has      *)
(* failed on the bus or timed out, the host keeps the chip awake neither by *)
(* its count nor by the two bits.  And only a bus error or giving up loses  *)
(* a buffer of the chip (m2m_hif.c:342-366).                                *)
NothingLeaks ==
  /\ pc = "idle" /\ busErrors = 0 /\ timeouts = 0 => u8ChipSleep = 0 /\ ~wakeClk /\ ~hostComm
  /\ lost <= giveUps + busErrors

(* Every call returns, although chip_sleep waits for the chip without a     *)
(* limit (nmasic.c:283-288).                                                *)
CallsReturn == pc # "idle" ~> pc = "idle"
=============================================================================
