# Verification of the robowifi firmware

The firmware runs on an ATmega4809 and drives a small robot car: it joins a Wi-Fi
network through a WINC1500, keeps an MQTT session with io.adafruit.com and
subscribes to the feed its commands are published on. This directory holds TLA+
models of the parts whose behaviour is hard to test, TLC configurations that check
them on small instances, and TLAPS proofs that hold for every value of the
constants. File names below are relative to the root of the repository.

## 1. The system

There is one thread, the loop of `main.c`, which calls `CLOUD_runTask` for ever, and
a few interrupts: the pin of the WINC1500, the overflow of the RTC. All callbacks of
the Wi-Fi driver run inside `m2m_wifi_handle_events`, on the main loop's stack. The
other agents are the firmware of the WINC1500, the access point, the name server and
the MQTT broker.

| Component (source) | State | Operations | Interacts with |
|---|---|---|---|
| Connection manager (`cloud/cloud.c`, `cloud/network.c`) | `current_state`, the one-element slot `occured_event`, `endpoint_ip`, `tcpClientSocket` | seven stage handlers, `errorHandler`, five WINC callbacks | socket layer and Wi-Fi driver by calls, their callbacks post events; MQTT client |
| MQTT client (`umqtt/umqtt.c`, `mqtt_client/mqtt_client.c`) | `umqtt_conn`: state, unacknowledged counts, two rings | connect, subscribe, publish, ping, process received bytes | `send` of the socket layer; posts SUCCESS when connected |
| Ring (`struct umqtt_circ_buffer`) | array, `pointer`, `datalen` | init, push, pop, (unused) peek | MQTT client |
| MQTT core of the library, not in the build (`mqtt/mqtt_core`, `mqtt/mqtt_comm_bsd`, the SUBSCRIBE of the Adafruit service) | state, transmit and receive flags, timeout flags, one packet of each kind, one receive buffer | create packets, transmission and reception handler, six timer callbacks, disconnect | nothing calls it; its scheduler's `timeout_create` and the `send` of a socket |
| Socket layer (`winc/socket/source/socket.c`) | `gastrSockets[]`: used, receive pending, session id, TLS flags, user buffer | socket, bind, listen, connect, send, recv, close, name lookup, ping; `m2m_ip_cb` for replies | host interface |
| Wi-Fi driver (`winc/driver/source/m2m_wifi.c`; requests of `m2m_ota.c`, `m2m_ssl.c`) | scan in progress, callbacks | init, connect, scan, power modes and some forty other requests; `m2m_wifi_cb` | host interface |
| Host interface (`winc/driver/source/m2m_hif.c`, pin ISR in `winc/bsp/source/nm_bsp_mega.c`) | `gstrHifCxt`: interrupt count, RX done owed, receive address and size, sleep count, power mode | `hif_send`, `hif_handle_isr`/`hif_isr`, `hif_receive`, chip wake and sleep | bus; dispatches to the callbacks above |
| SPI protocol (`nmspi.c`, `nmbus.c`, bus wrapper) | CRC mode | register and block transfers with RESET and retries | the line to the chip |
| Chip control (`nmasic.c`, `nmdrv.c`, `spi_flash_enable`) | cached chip id, boot state in the chip | start and stop of the firmware, wake, sleep | SPI protocol |
| Timeout scheduler (`src/timeout.c`) | sorted list of timers, execute queue, time of the last timeout, RTC counter | create, delete, flush, call next callback, stopwatch; overflow ISR | connection manager polls it |
| Motors, peripheral set-up (`motoare.c`, `src/driver_init.c`, `usart_basic.c`, `spi_basic.c`) | registers | ports, direction and PWM, polled I/O | `main.c` calls the set-up of the motor pins |
| Not in the build or not called: the MQTT core above, `nmi2c.c`, `nmuart.c`, `m2m_crypto.c`, `m2m_periph.c`, `m2m_ate_mode.c`, transfers of `spi_flash.c`, `fingerprint.c`, `http.c` | | | |

What is hard, and what would make each part correct:

* *Connection manager.* Events have no type and no sender, and the slot keeps one.
  Correct: every reply is paired with the stage that asked for it, the machine never
  waits for a message nobody owes it, sockets are not leaked, publishes happen in a
  session, and it always works its way back to sending.
* *Host interface.* Chip, pin interrupt and main loop interleave at the level of bus
  accesses; accesses fail; the chip has one receive buffer and sleeps. Correct: no
  interrupt is lost, each message reaches its callback exactly once and is not
  overwritten while it is read, nothing is written to a sleeping chip or into
  another message's buffer, and what is woken goes to sleep again.
* *Ring and MQTT client.* Indices wrap; five bytes of receive buffer truncate every
  longer segment; TCP cuts packets anywhere; sessions are re-opened. Correct: a
  queue; the client stays in step with packet boundaries; connected only when
  accepted; no acknowledgement is missed.
* *MQTT core.* Six timers, three kinds of flags and one buffer each way, kept in
  agreement by hand at a dozen places. Correct: a session belongs to its own
  CONNACK, each awaited reply is timed and each timer is created once, the next
  PINGREQ is always timed. The library is in the repository and not in the build
  (`Debug/makedep.mk`, `robowifi.cproj`): what is said of it here is for whoever
  takes it up again.
* *Timeout scheduler.* The ISR and the main loop share lists through one `next`
  pointer; 16-bit counter, 32-bit time, both wrap. Correct: every timer is in
  exactly one place, ordered, never early, always run.
* *Socket layer.* Replies of an earlier use of a socket id; flags set before a
  request that fails; callbacks that close the socket being read. Correct: a socket
  never sees what belongs to an earlier use.
* *Bus and chip control.* Commands and answers lost or late, retries that run out,
  loops without a limit, writes nobody confirms. Correct: success means that it was
  done, and an initialized driver faces a chip that runs.

The complete list of hazards, at their lines, is in `PROJECT.json`.

## 2. Modules

| Module | Role | Runs |
|---|---|---|
| `Cloud` | connection manager with the socket table, the WINC1500 and the network | `cloud_calm`, `cloud_adverse`, `cloud_receiving` |
| `CloudProofs` | its invariants under all faults, and without | |
| `Hif` | receiving side of the host interface, pin ISR, chip | `hif_hangs` |
| `HifMC` | `Hif` with a history of where bus errors hit | `hif_any_fault` |
| `Mailbox` | what the host interface promises: a one-place mailbox | refined by `Hif` |
| `HifProofs` | invariants and refinement of `Hif` | |
| `HifSend` | sending side: `hif_send`, wake and sleep, the chip's buffers | in `wifi` |
| `Wifi` | requests and callbacks of the Wi-Fi driver, composed with `HifSend` | `wifi` |
| `WifiProofs` | their invariants | |
| `Socket`, `SocketProofs` | socket layer and chip's answers; invariants | `socket` |
| `Spi` | accesses of the SPI protocol, byte by byte, over a faulty line | in `bus` |
| `Boot` | the driver's start and stop, composed with `Spi` | `bus` |
| `BootProofs` | their invariants | |
| `MqttCore`, `MqttCoreProofs` | MQTT core of the library, broker, timers; invariants | `mqtt_core` |
| `CircBuffer`, `CircBufferMC` | the ring, byte by byte; its instance | `circ_buffer` |
| `Fifo` | a bounded queue | refined by `CircBuffer` |
| `MqttLength` | the remaining length of MQTT in 16-bit arithmetic | evaluated in `UmqttMC` |
| `Umqtt`, `UmqttMC` | MQTT client, receiving side, with TCP and the broker | `umqtt_whole` |
| `UmqttProofs` | invariants and refinement of the ring; invariants of the client; the lengths | |
| `Timeout`, `TimeoutProofs` | scheduler, overflow interrupt, RTC; invariants | `timeout` |

The components meet at three levels. `Cloud` covers the application down to the
calls of socket layer and driver, and keeps its own small copy of the socket table;
`Socket`, `Wifi` and `Hif` take the host interface as the place where calls may
fail; `Boot` and `Spi` are what lies below. A bus error of `Hif` and `HifSend` is a
"fail" of `Spi`.

In every module a definition with the comment "variant" is a plausible mistake in a
definition after it; no specification uses it. The variants show that each property
depends on the code: put in place of the definition they vary, they break it.

History variables record what happened; no step of the program depends on them.

### Cloud

*State.* `current_state`, `occured_event`, `endpoint_ip`, `tcpClientSocket`, `mqtt`
(`umqtt_conn.state`) and the TCP entries of `gastrSockets` are the program's
variables. `link`, `pings`, `lookups`, `connects`, `sends`, `armed`, `tcp`, `owed`
are what the WINC1500 and the network hold: requests to answer, sessions, CONNACKs
to come. `control` is "wild" once the program has called through memory behind the
handler table; nothing further is claimed then.

*Steps.* `CLOUD_runTask` is the dispatch of the slot with the whole handler it
calls. Every callback is a step, since several messages may be handled in one
`m2m_wifi_handle_events`. Requests can be refused only where `hif_send` can.

*Faults.* Joins, pings, lookups and connects may always fail and peers close
connections. The constant `Faults` adds a link lost after association, renewed
leases, refused requests, refusing brokers, ignored ping codes, and late answers.

*Runs.* `cloud_calm` (3 sockets, 3 requests of a kind, no `Faults`) checks pairing,
sockets, sessions, addresses, and `Recovers`. `cloud_adverse` (all faults, 2
sockets, 1 request) checks what survives everything: `NoLostWakeup`,
`ClosedSocketsAreClean`, `ForwardOnlyOnSuccess`. `NoLostWakeup` is about the stages
that look at the return code of their request; the other two are in section 4.
`cloud_receiving` shows a defect: in SENDING nothing re-arms `recv` after data
(`network.c:57`), while `socket.h:1366-1368` asks for a call of `recv` to receive
any further packets. With a renewed lease in SENDING `NoReplyOutlivesItsStage` does
not hold either (section 4). Of sockets, two already allow a current and a leaked
one, three the wrap of `u8NextTcpSock` past them. In the adverse run one request of
a kind is enough for a stale one to be outstanding beside the event it races with.

*Fairness.* Weak fairness of `CLOUD_runTask` is the main loop. The strong fairness
of joins, leases, pings, lookups, connects and the CONNACK says that the network
works infinitely often; the premise of `Recovers` excludes a broker that closes
every connection. Weak fairness of `sendReply` and `recvError` says that the
WINC1500 reports what it owes.

*Abstractions.* What a reply to a `recv` of an earlier use of a socket does to
`bIsRecvPending` is left to `Socket`. Runs do not check for deadlock: when no
message is owed the system does rest (after "wild", or where the code has the
hazards listed), and requests and sockets are bounded.

### Hif

*State.* `new` and `rxReady` are bits 0 and 1 of CTRL_0; `isc` and `edge` are the
sense control and flag of the pin; `u8Interrupt`, `u8HifRXDone` are fields of
`gstrHifCxt`; `pc` says which bus access of `hif_isr` comes next and `held` is the
value between load and store of `u8Interrupt--`, which the ISR may split. `left`
counts the calls of `hif_receive` a callback still makes. `u8Interrupt` has its 8
bits.

*Steps.* Each bus access is one, and fails where `Faults` names it and
`MaxBusErrors` allows. `post` is the chip, `pinIsr` the interrupt. A failure after
bit 0 is cleared goes back to `status`, where a clear bit is a "false interrupt" and
tried again, for ever: the code's `while(1)`.

*Runs.* `hif_any_fault`: every access may fail, up to three times; no interrupt is
lost, the buffer has one owner and `Hif` implements `Mailbox`; and under weak
fairness of the ISR and of the main loop every message is delivered and released
(`DeliversEveryMessage`) unless an error hits an access after bit 0 was cleared,
which the history variable `spoiled` of `HifMC` records. `hif_hangs` is that
exception: one error on a header, and `hif_handle_isr` never returns
(`m2m_hif.c:579`; the comment at 583-584 means to try again until the interrupt has
been handled). Four messages are two more than the chip and the callbacks can hold
at once, three reads distinguish first, middle and last part. Deadlock is not
checked: the chip stops after `Msgs` messages.

*Left out.* A bus access that fails says so here; a register write the line loses
unnoticed (section 4, *Bus*) is not a fault of this module. The second RX done of an
answer of size 0 to a random-number request. Sending from callbacks and the chip's
sleep are in `HifSend`.

### HifSend, Wifi

*State.* `u8ChipMode`, `u8ChipSleep`, `u8HifRXDone` of `gstrHifCxt`; the bits the
driver writes (`hostComm`, `wakeClk`, `stateReg`, CTRL_2, CTRL_4) and those of the
chip (`clocks`, `busy`, the mode it was told, the buffer CTRL_4 points to); in
`Wifi` the scan flag, and what the chip scans. `lost` counts buffers that were given
out and never posted; `failed` and `misled` are history.

*Steps.* A call goes from `pc` to `pc`: wake (with its poll for the clock), the
request for a buffer, up to 1000 polls for it, its address, the blocks, the post,
the sleep (with its poll without limit). Every access may fail, and a failure takes
the way of the code: `ERR1` counts down without putting the chip to sleep. The chip
gives a buffer at any time, also after the call has given up, starts and stops its
clock. The API's requests are calls of `hif_send` of two sizes, of
`nm_get_mac_address`, or reads of registers, and what they do to scan flag and power
mode is done when they return. They are made from the main loop, or in the callback
of a message before or after RX done.

*Run* `wifi`. `AwakeOnAccess`, `MessagesArriveWhole`, `ScanFlagAgrees`,
`NothingLeaks`, `CallsReturn`, with three calls, two polls for a buffer (1000), one
poll of the clock, one bus error, three power modes. Three calls are one that gives
up, one that meets its late buffer and one after it; of modes, the manual one alone
has requests of its own. MAC reads do not fail (section 4). Fairness: the driver
runs, and the chip's work on a message ends. No deadlock check: calls are bounded.

### Socket

*State.* The table `gastrSockets`, `gu16SessionID` (which skips 0), the two
round-robin indices; `reading`, the data `Socket_ReadSocketData` hands on in chunks;
`asked`, the requests the chip has to answer. A *use* of a socket lies between
`socket()`, or an accepted connection, and `close()`. Uses are numbered (`uses`,
`use`), and `strays` holds every callback made for another use than the present one.

*Steps.* Every call of the API that changes state, and the branches of `m2m_ip_cb`,
in any order over sockets, in order for equal requests of one use. Answers to
requests of a closed socket come late or never. Each chunk is two steps, before and
after the callback, from which the application may receive again or close.
`hif_send` and `hif_receive` may fail. A receive flag that a failure or an answer to
an earlier use made wrong is marked in `upset`.

*Run* `socket`. Two TCP sockets and one UDP socket, three uses, two requests at a
time, two session ids (65535): an id is given to a second use while the first has an
answer outstanding. Chunks of one and data of one or two units: whole and cut. The
answer of an accepted connection is not late, and no socket is opened in the
callback of a chunk (section 4). No deadlock check: uses are bounded.

### Spi, Boot

*State.* `Spi`: `gu8Crc_off`, the phase `pc` of an access, the counters of its polls
and retries; the chip's registers as sets of flags, what it will send, the register
whose block it waits for. What it sends are the bytes `out`, then the `data` of an
answer, as many bytes as `RegBytes` or `BlockBytes` say, checksum included. A byte
of data may have any value: it may look like an echo, a state, a header, which is
any byte from F0 to FF, or a response to a block. `seen` is history: the values the
chip has taken this access with; so is `stale`: the last command was lost while the
chip was still sending header or data of an earlier answer. `Boot`: which access is
awaited (`at`), the cached chip id, the state of driver and firmware. `blind`
remembers that the initialization went on with a value it did not read: that of a
failed `nm_read_reg`, which is an uninitialized variable, or that of an access with
`stale`.

*Steps.* A command, its echo, its state, the header and data of a read or the block
and response of a write are each polled as in the code, followed by RESET and
another try. The line loses a command or a block, or delays an answer before its
echo or its header by a number of bytes in `LateBy`, `MaxFaults` times. A command
with a checksum the chip does not expect is not understood. A command that is taken
ends what the chip was sending; one that is lost does not, and the host reads on in
it. `Boot` is every access of `m2m_wifi_init` to `nm_drv_init` in order, any
accesses while the driver is up, and `nm_drv_deinit`. Boot ROM, firmware and flash
move on their own.

*Run* `bus`. `OkMeansDone` and `UpMeansRunning`; `InitEnds` under weak fairness of
driver and chip. Two retries (10) of two polls (10); registers of four bytes, blocks
of eight, more than a RESET and its polls read; answers late by three bytes, so that
they answer the next command or the RESET, or by eight, beyond all polls of an
access; three faults, enough to fail an access for good and to make a lost retry
meet a late answer; three polls of the firmware's state (`TIMEOUT`, 0xffffffff, at
`nmasic.c:62`; the boot ROM is polled without limit, since `++cnt > TIMEOUT` on 32
bits is never true); two initializations, so that the second finds the chip id
cached. No deadlock check: the driver may stay down.

### MqttCore

The library is not compiled into the firmware and has no caller; its scheduler
(`timeout_create`, `timeout_delete`) is not in the repository. The module drives it
as its interface allows, and assumes no fairness: nothing here runs its handlers.

*State.* `mqttState`, the flags of packets to send (`mqttTxFlags`) and replies
awaited (`mqttRxFlags`), the timeout flags (`occurred`), the timers in the
scheduler's list, the receive buffer with the packets in it, and what the broker
owes. A packet is its type. `session`, `accepted`, `awaited` and `late` are history.

*Steps.* Making a packet; one call of `MQTT_TransmissionHandler` with the packet of
the lowest flag, of which the send may fail; one packet, or one look at the timeout
flags, in `MQTT_ReceptionHandler`; a segment overwriting the receive buffer
(`MQTT_GetReceivedData` writes from its start); a timer that expires. They are steps
of one thread. After a timer was created while it is in the list (`doubled`) the
list is a ring and nothing is claimed.

*Run* `mqtt_core`. With keep-alive, two sessions, three packets made, one publish of
the broker, one failing send: `SessionByItsConnack`, `TimersMatchReplies`,
`TimersCreatedOnce` and `KeepAliveArmed`, the part of a silent peer's detection that
does not depend on who runs the handlers. Two sessions show what one leaves to the
next, three packets every pair of requests in a session. No deadlock check: a
session that has ended rests.

### CircBuffer, Fifo

An address is its offset in the array. Each byte pushed or popped is a step, so the
refinement also covers what is visible between two bytes of one call. The abstract
queue `Fifo` is of `length` places, its `queue` mapped to `Contents`, the bytes from
`pointer` on. `circ_buffer` uses three cells, two byte values and pushes of up to
four bytes: each relation of pointer, end and wrap occurs, and a push that overflows
from every fill level.

### MqttLength, Umqtt

A byte on the wire is its value and a mark whether it starts a packet; the code sees
the value only, and `StaysInStep` compares what it does with the mark. `rxbuff` is
the queue that `CircBuffer` implements. A pop that finds too few bytes leaves the
rest of its destination uninitialised: a value of `Garbage`.

`recv` does not tell the chip how large the buffer is, and `Socket_ReadSocketData`
hands a longer segment on in chunks of 48 bytes, `RecvSize`; TCP may cut anywhere
too. So a chunk is any piece of what is under way that fits the buffer. `cut`
remembers that one of this session ended inside a packet: the client is out of step
from then on (section 4), and the properties claim nothing more. Until then it stays
in step even though the ring of 5 bytes drops most of a PUBLISH, because the pops of
the rest find nothing and say nothing. `ConnectedMeansAccepted` does not need the
earlier sessions in step, only the present one. `UnackedIsCounted` allows for too
large a count: a SUBACK behind another packet is dropped with the rest.

*Run* `umqtt_whole`. Buffers of 12 bytes (48); PUBLISHes with 3, 7 and 15 bytes
after the fixed header, so that two may share a chunk, and one is longer than any; a
payload of bytes that look like a SUBACK or not; two sessions, subscriptions and
publishes. The broker publishes once something was subscribed. `UmqttMC` has TLC
evaluate, for every length from 0 to 32767, that encoding and decoding agree in the
16-bit `int` of the AVR, where the weights overflow. Deadlock is not checked:
sessions, subscriptions and publishes are bounded by constants.

Not modelled: the bytes of outgoing packets (CONNECT is 99 bytes of the 100 of the
transmit ring), PINGREQ, which nobody sends, and the message callback, which does
nothing.

### Timeout

*State.* The links and times of the timers, the heads of list and queue, time of the
last timeout, load and CNT of the RTC, its interrupt flag and enable. `asked`, `age`
and `status` are history: the ticks asked for, those passed, and where the timer
should be; so is `raced`: a period ended inside a call. TOP stands for 65535 and ABS
for 2^32: 1 and 8 in the run, so that a timer of four ticks needs a dummy period and
the absolute time wraps within two timers (`scheduler_rebase_list` is reached). The
assumption on `Timeouts` keeps what 2^32 >> 65536 gives: a timeout plus the constant
added on wrapping is less than the wrap. `MaxOps` bounds the calls: three, which
fill a list, and insert into it or delete from it once more; with the dummy a list
of two timers has a middle.

*Steps.* `create` and `delete` are two steps: before and after the interrupt is off.
A pending enabled interrupt is served before anything else moves; on an empty list
it follows a null pointer, and the model stops. Calling the callback and its request
to be rescheduled are `callNextCallback` and a create. The delay of writing RTC.CNT
is not modelled, nor the stopwatch functions.

*Run* `timeout`. Ticks fall anywhere, also between the two steps of a call. Places,
order and types (`ListsWellFormed`), never early and every timer runs, all until
`raced`; and `IsrFindsTimer`: the interrupt meets an empty list before the first
call, or after `raced`, and at no other time. `FairSpec` is the counter, the
interrupt, the two halves of a call, and the poll in `CLOUD_runTask`
(`cloud.c:234`). Deadlock is not checked, for that interrupt.

## 3. What is proved

TLAPS checks the modules `*Proofs`. Assumptions are those of the modules
(`ConstantsAssumption`, `HifAssumption`, ...), which TLC evaluates too, and those
named here, which are hypotheses of the theorem.

* `CloudProofs`: `TypeCorrect`, `NeverLosesWakeup`, `CloseLeavesClean`,
  `NeverSkipsAStage`, under any faults. The inductive invariant `IInv` is the
  conjunction of `TypeOK`, `NoLostWakeup` and `ClosedSocketsAreClean`; they need
  each other because the handlers of the connect stage rely on a clean entry of the
  table. One lemma per helper (`close`, `send`, `socket`), one for handlers, one for
  failures, one for messages. Without faults (`Faults = {}`) also
  `RepliesInTheirStage`, `OneSocket`, `PublishesAccepted`, `HandlersUseWhatIsThere`.
  The invariant `Calm` adds to `IInv` what each stage has asked for and nothing else
  (`StageAwaits`), the state of the link, that sockets are closed before a stage
  that opens one, and that the MQTT client is connected only on a socket that is.
  Any number of sockets and requests.
* `HifProofs`: `TypeCorrect`, `InterruptsAreNotLost`, `OneOwner`, `Refinement`.
  `NoLostInterrupt` is not inductive: it needs to know that an edge is in exactly
  one place, latched, counted or taken (`EdgeLatched`, `EdgeCounted`, `EdgeTaken`),
  and that the pin listens whenever the chip may post (`ChipMayPost`), which holds
  because RX done is written after the interrupt is turned on. The refinement maps
  every step to a step of `Mailbox` or to a stutter.
* `WifiProofs`: `MessagesWhole`, `FlagAgrees`, `NoLeak`, `TypeCorrect`, and
  `AwakeThroughout` if `~MacReadFails`. Four independent parts over one count
  (`CountBalanced`: the chip is counted awake only within a call): *Awake* says who
  keeps the clock running at each `pc`, *Message* that size register, buffer and
  blocks are those of this call, *Scan* relates the flag to the scans of the chip,
  *Leak* counts the buffers that are out.
* `SocketProofs`: `OneReceive`, `ReleasedLast`, `TypeCorrect`, `FreeSocketFound`
  (`socket()` finds a free socket wherever the round robin stands),
  `RepliesInTheirUse` if callbacks open no socket, `TlsThroughout` if no accepted
  connection is late. Session ids and numbers of uses run in parallel
  (`IdsFollowUses`: the id of the use *d* before the newest, for *d* less than their
  number), so equal ids of different uses are at least all ids apart (`Apart`).
* `BootProofs`: `ReadsAreReal` and `StartedMeansRunning`, for any delays, retries
  and sizes of blocks. Unless the last command was lost in the rest of an earlier
  answer (`stale`), what the chip sends ends with the answer to the present command,
  and neither header nor data come before its own (`OwnAnswer`, `BeforeData`,
  `Whole`), so what a poll finds and a read takes is its own (`Plain`, `Phases`).
  Above it, an initialization that takes the rest of another answer is `blind`
  (`Noticed`), the driver's places are ordered (`Places`), each access writes only
  what its place may (`Ops`), and what a place was reached by still holds in the
  chip (`SeenHolds`, `ChipHolds`, `Achieved`).
* `MqttCoreProofs`: `OwnConnack`, `TimersMatch`, `NoTimerTwice`,
  `KeepAliveStaysArmed`, `TypeCorrect`. The invariant says that what is in the
  buffer was received in this session, which flags belong to which awaited reply and
  timer (`Flagged`), and that a first session has inherited none (`FirstSession`).
* `UmqttProofs`, the ring: `TypeCorrect`, `FullBeforeStopping`, `Refinement`. The
  modulo of `umqtt_circ_push` is one conditional wrap (`ModuloIsOneWrap`), and while
  a push runs `dend`, wrapped, is the cell after the last one. With it, pushing a
  byte appends to `Contents`, and popping takes its head.
* `UmqttProofs`, the lengths: `LengthSurvives`. `digits`, `mul` and `val` are
  recursive functions over the finite sets the code uses, whose equations a witness
  establishes one place after the other; no induction is needed, since a length of
  an `int` has at most three bytes.
* `UmqttProofs`, the client: `InStep`, `AcceptedWhenConnected`, `NoSubscribeLost`,
  if the ring has four or five bytes. The code's has five; with six a packet of five
  leaves room for the first byte of the next. Any buffer, topics, payloads,
  sessions, subscriptions and publishes. The invariant, which holds until a chunk of
  the session ends inside a packet (`cut`), says that the bytes on the wire are
  whole packets, a CONNACK alone (`Packets`), that the ring is empty between two
  receives and within one holds the first bytes of one packet (`InRing`), so that
  one round of `umqtt_process` empties it (`Round`, `Emptied`), what is still under
  way while the broker's answer is (`Handshake`), and that a SUBSCRIBE not yet
  acknowledged is at the broker, on the wire or in the ring (`Counted`).
* `TimeoutProofs`: `ListsAreWellFormed`, `NoTimerEarly`, `IsrEmptyInTwoCases`. What
  a linked list holds is the least set that contains its head and is closed under
  `next` (`reach`), so the lemmas about inserting, prepending and removing a node
  are about sets and need no induction. The invariant says which timers are in the
  list and in the queue (`Lists`), that the list is sorted (`Sorted`), what a call
  has read before it turned the interrupt off (`Calls`), that a list that is not
  empty is being timed (`Armed`), that the counter was loaded for its head
  (`Counts`), and that what is left of the time of each timer, in the arithmetic of
  ABS, is enough (`OnTime`). The last one needs sortedness and is needed for it when
  the head is taken, at a wrap and at a rebase.

Only model-checked: liveness (`Recovers`, `DeliversEveryMessage`, `EveryTimerRuns`,
`CallsReturn`, `InitEnds`), which is beyond the prover.

## 4. What does not hold

The properties are stated with these exceptions; each follows from the code at the
line named.

* *Connection manager.* A renewed lease in SENDING posts a SUCCESS, for which the
  table has no handler: the call goes through memory behind it (`cloud.c:247`).
  After the first data nothing is received any more (`cloud_receiving`). Two stages
  do not look at the return code of what they ask for: a refused ping leaves the
  machine in WAIT_FOR_INTERNET (`cloud.c:116`), a refused send of CONNECT in MQTT
  (`cloud.c:165-166`), each waiting for a message nobody owes it. A connect that is
  refused posts a FAIL and leaves its socket open, and the next attempt takes
  another (`cloud.c:134-156`; `OnlyCurrentSocketOpen` is checked and proved without
  faults).
* *Host interface, receiving.* A bus error after bit 0 of CTRL_0 was cleared is
  retried for ever (`hif_hangs`).
* *MQTT client.* A chunk that ends inside a packet puts the client out of step: the
  rest of the packet is taken for packets, a byte 0x90 for a SUBACK, and a fixed
  header cut after its second byte is decoded with one that has not arrived
  (`umqtt.c:318-330`). No TCP split is needed. Two PUBLISHes of 32 bytes in one
  segment, or one of more than 48, are cut at 48 bytes by `Socket_ReadSocketData`
  (`socket.c:155-193`), since `recv` does not tell the chip the size of the buffer
  (`socket.c:852-889`).
* *Timeout.* The overflow interrupt is turned on before any timer exists, and 64 s
  after reset it follows a null pointer (`timeout.c:80`). Delete tests the list
  before it turns the interrupt off: a tick in between leaves an empty list and the
  interrupt on (`timeout.c:213`; `raced`). A deleted timer that is in the queue is
  still executed (`timeout.c:224`). An insertion or deletion at the head restarts
  the period, so that all timers are late by the ticks counted before
  (`timeout.c:188`); once the 32-bit time has wrapped, after 48 days, a timer may be
  65536 ticks late, and after the rebase that follows one that is to expire before
  the head is put behind all others, late by almost 2^32 ticks (`timeout.c:125`,
  `timeout.c:154`).
* *Wi-Fi driver.* A failed read of the MAC address returns without the matching
  `hif_chip_sleep`, and the count never reaches zero again (`m2m_wifi.c:1007-1021`;
  `MacReadFails`). `m2m_wifi_set_sleep_mode` changes the mode of the host even if
  the chip was not told (`m2m_wifi.c:1093-1095`): a host that believes in NO_PS no
  longer wakes it (`misled`). A scan that is never answered blocks all later ones
  (`m2m_wifi.c:733`).
* *Socket layer.* `recv` marks itself pending before a request that may fail, and
  then never asks again (`socket.c:867`). An answer to a `recv` of an earlier use
  clears the flag of the present one before the sessions are compared: two receives
  may be at the chip (`socket.c:321`). An application that closes the socket in the
  callback of a chunk and opens and arms a new one there gets the rest of the old
  data on it (`socket.c:178`; "socket" in `CallbackCalls`). A connection accepted
  after the listening socket was closed has the TLS flags of whatever is in its
  entry (`socket.c:253`; "accept" in `LateAnswers`).
* *Bus.* A register write whose answer never comes is reported as done
  (`nmspi.c:351-374`). Any byte from F0 to FF is a header (`nmspi.c:773`): after a
  late answer whose block is longer than a RESET reads, a lost RESET and a lost
  retry, the next try finds a header in the rest of the block and returns bytes of
  it as success (`nmspi.c:789`; `stale`). If the wait-for-host register of a chip
  that skips waiting was misread as 0, the boot ROM is polled for ever: `++cnt >
  TIMEOUT` with 0xffffffff is never true (`nmasic.c:62`, `nmasic.c:424-438`;
  `WaitsForRom`). `nm_spi_init` returns 0 when it fails, and `nm_drv_init` does not
  look at it. A failed `nm_read_reg` returns an uninitialized value, which is
  written back or taken for the state of the firmware (`nmspi.c:1178`; `blind`). If
  host and chip disagree on checksums for good, initialization does not end.
* *MQTT core.* Flags of late replies and timers survive their session: the next ones
  are ended by them (`mqtt_core.c:1105`), and a timer still in the list is created
  again, which closes the list to a ring (`mqtt_core.c:1038`). The comment at
  `mqtt_core.c:587-590` lets a SUBSCRIBE be made only after the SUBACK of the one
  before, but the check at 591 looks at the flag that is set when that is sent: one
  that waits to be sent is overwritten, and no property excludes it.

## 5. What is not modelled

* *The MQTT library* is modelled (`MqttCore`) and is not part of the firmware: it is
  in neither `Debug/makedep.mk` nor `robowifi.cproj`, and nothing calls it.
* *Other buses* (`nmi2c.c`, `nmuart.c`), *crypto, periphery and ATE requests*:
  compiled out (`CONF_WINC_USE_SPI`; `CONF_CRYPTO_HW`, `CONF_PERIPH`, `_M2M_ATE_FW_`
  undefined).
* *WINC flash* reading, writing and erasing: no caller. Only the low-power command
  of `nm_drv_deinit` is in `Boot`.
* *Chip control* `cpu_halt`, `chip_reset`, GPIO: no caller.
* *Motors.* `main.c` only sets up the pins; the message callback of the MQTT client
  does nothing.
* *Fingerprint sensor, HTTP*: not called; blocking I/O.
* *Peripheral drivers*: register set-up and polled bytes, without protocol.
* *Details*: bytes of outgoing packets, `setsockopt`'s server names, lists of cipher
  suites, contents of Wi-Fi requests and events, the Ethernet bypass, the stopwatch
  functions, the delay of writing RTC.CNT, the deletion of `send_task` in
  `errorHandler` (`cloud.c:214`), which is never in the scheduler, user-supplied
  arguments the API refuses before it does anything.

The share of the source's lines the map names is bounded by its headers:
`m2m_wifi.h`, `m2m_types.h`, `socket.h`, `atmel_start_pins.h` and `port.h` are some
ten thousand lines of documentation, constants and pin macros with no step to
translate; most of the rest that is unmapped is compiled out or never called, as
above.

## 6. State of the plan

Done, in this order: the connection manager; the host interface, receiving and
sending; the ring and the MQTT client; the scheduler; the Wi-Fi driver; the socket
layer; SPI and chip control; the MQTT core; proofs of the safety properties of all
of these.

Left: `Cloud` over `Socket` instead of its copy of the table; a client that survives
a cut packet once the code has one; flash and OTA transfers and motor commands once
something calls them.
