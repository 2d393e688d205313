# A verification project for the DoIP ECU firmware

The repository is the firmware of a vehicle gateway on an NXP S32K148: FreeRTOS,
lwIP, a CAN stack, a link to a SoC over SPI, and a diagnostics-over-IP (DoIP, ISO
13400) server between a socket adaptor and the UDS module. This directory has TLA+
models of its core, the TLC configurations that check them, and TLAPS proofs of what
matters most. Paths below are relative to `src/FUXIN_S32K148/`.

## 1. The system

| Component | State | Operations | Hard behaviour | What makes it correct |
|---|---|---|---|---|
| **Socket adaptor**, `LIB/SoAd/SoAd.c`, `SoAd_LWIP.c`, `SoAd_Cfg.c` | `SocketAdminList` (state and two lwIP descriptors per entry) | `SoAd_MainFunction` scans the table: create, accept, read; `SoAd_SocketClose`, `SoAd_SendIpMessage` from above | several entries share a port and pass one listening descriptor around; few descriptors; creation fails and is retried | one listener per port, none lost; descriptors owned and none leaked; a port with a free entry comes back |
| **DoIP server**, `LIB/DoIP/DoIP.c`, task `Demo/ENET/doip_app.c` | `connectionStatus`, four `pending...` variables, `targetConnectionMap`, response buffers | `DoIp_HandleTcpRx`, `DoIp_HandleUdpRx`, `DoIp_MainFunction`, `DoIp_HandleTpTransmit` | alive check loops that time out slots they are looping over, pending activations, two timers per slot, stale socket numbers, the CAN task reading the tables without a lock | a tester keeps its slot until a timeout; a pending activation is answered; buffers freed once |
| **Diagnostic transport and gate**, `LIB/canstack/Bsw/CanTp/CanTp.c`, `Dcm/Dcm_Cbk.c`, `Dcm/Dcm.c` | a receive and a transmit channel, `gDiagState`, request buffer, P2 and repetition | frames from CAN interrupts, `CanTp_MainFunction` and `Dcm_MainFunction` in the CAN task, requests from the doip task | three clients and one gate, closed by a test and a write apart; segmented messages under lost, doubled and late frames; pending responses | one whole request at a time; Dcm is told the end of every reception it accepted; every request ends |
| **Publish/subscribe bus**, `LIB/pubsub_lib/pubsub.c` | topics, sticky messages, bounded queues, reference counts | publish, subscribe, unsubscribe, get, flush, overflow, free | queues emptied without the lock while it is held; counts shared by tasks; full queues; a subscriber freed during publications | a message lives as long as it is referenced and no longer; order per topic; no push to a freed queue |
| **Power mode manager**, `APL/powermanage/pwrmanage_apl.c` | mode, latches, timers, request counters | four handlers of one periodic task; messages of six topics | many inputs at once, the last assignment wins; two timeouts that ask the SoC first; halt and wake-up | the ignition wins; no timeout unasked; no halt right after a wake-up; a quiet vehicle sleeps |
| **Byte ring buffer**, `LIB/ringbuffer/ringbuffer.c` | head, tail, a snapshot in the reader | `rbWrite` in interrupts, `rbRead` in tasks | wrap, full against empty, a write inside a read | a FIFO of bytes |
| **DoIP client**, `LIB/DoIPC/doip_client.c` | one connection | connect, activate, exchange | blocking reads, parts of messages | every call ends; a denied activation is no success |
| **SPI link to the SoC**, `FML/comModule/com_soc_fml.c`, task `APL/communication/communication_apl.c` | transfer buffers, three frames awaiting acknowledgement, one buffer for sending again, queues of one event | handshake, send, acknowledge, time out, receive | two tasks and two interrupts on the same buffers, between each other's statements | a sent frame is kept until acknowledged; received data are looked at; the link goes on |
| **Update / version record**, `FML/update/update_fml.c` | a flash sector | erase, program, verify | reset between steps | one version survives |
| **DTC and DID store**, `FML/udsAndMcuDiag/uds_store_fml.c` | shadow copy, flash | periodic check, write | reset, failed write | the two agree in the end |
| Start-up, rest of the CAN stack, DTC logic, vehicle signals, drivers, vendored code | | | | not modelled, see section 7 |

How they interact. `doip_loop_task` calls `SoAd_MainFunction` and `DoIp_MainFunction`
in a loop. The scan calls DoIP's receive handlers, which call back into
`SoAd_SocketClose` and `SoAd_SendIpMessage` and give diagnostic requests to Dcm through
`Dcm_StartOfReception`, `Dcm_CopyRxData` and `Dcm_RxIndication`. CAN frames come to the
same three functions through `CanTp_RxIndication`, in the interrupt of the CAN
controller. The CAN task runs `CanTp_MainFunction` and `Dcm_MainFunction` every 10 ms;
answers, whoever has asked, go through CanTp's transmit channel to
`DoIp_HandleTpTransmit`, which reads the connection table and sends on a socket. DoIP and
the adaptor thus share their tables with a second task and no lock, and Dcm its gate
with an interrupt. The bus carries CAN signals and SoC answers to the power manager;
the ring buffers lie between UART and SPI interrupts and the tasks that read them.

## 2. Modules

| Module | What it is |
|---|---|
| `AcceptPool` | abstract: what clients of one TCP port see - a pool of `Slots` connections |
| `SoAd` | the socket table, lwIP's descriptors, and the operations on them |
| `Adaptor`, `MCSoAd` | EXTENDS `SoAd`: the scan, under an upper layer that may close any entry whatever it has become; its instances for TLC with the refinement mapping to one `AcceptPool` per port |
| `DoIP`, `MCDoIP` | EXTENDS `SoAd`: the server, composed with the adaptor, the testers, and Dcm and the CAN task as they look from here |
| `CanTp` | the receive channel of the transport layer, the gate of Dcm with its three clients, services, P2 and answers; its constants are in `CanTp.cfg` |
| `PubSub`, `MCPubSub` | the bus, and two topics and two subscribers for TLC |
| `PowerManager` | the power modes; its constants are in `Power.cfg` |
| `ByteFifo` | abstract: a bounded FIFO of bytes |
| `RingBuffer`, `MCRing` | the ring buffer in steps, with the mapping to `ByteFifo` |
| `SpiLink` | the link to the SoC: the tasks RX and TX, the two interrupts, and a SoC of which nothing is assumed; its constants are in `SpiLink.cfg` and `SpiFrames.cfg` |
| `SoAdProofs`, `DoIPProofs`, `DoIPStepProofs`, `PubSubProofs`, `RingProofs`, `PowerProofs`, `CanTpProofs`, `SpiProofs` | the proofs of section 5 |

A convention of `DoIP`, `CanTp`, `SpiLink` and parts of `SoAd`: where handlers call each other, the
state is gathered in a record (`Tables`, `State`), operations are functions from record
to record composed in the order of the code, and `Become` stores the result in the
variables. One action is one handler.

### SoAd

`sock[i]` is entry `i` of `SocketAdminList`: `state`, `handle` (`SocketHandle`) and
`conn` (`ConnectionHandle`). `fds` is lwIP's descriptor table, modelled from its use:
the lowest free descriptor is given out, closing one that is not open does nothing.
`idx` is the loop variable of `scanSockets`; one step of `Scan` is one iteration, so the
upper layer may act between two entries.

| Action or operator | Code |
|---|---|
| `SoAd_Init` | entries whose endpoint appeared before become `DUPLICATE` |
| `CreateFails`, `CreateSucceeds` | `socketCreate`, `SoAd_CreateSocketImpl` |
| `AcceptNone`, `AcceptClient` | `socketAccept`: the entry becomes the connection, the first free duplicate becomes the listener and copies the descriptor |
| `SoAd_SocketClose` | a function of table and descriptors, since a handler calls it more than once |
| `Scan`, `ReadKeeps` (`Adaptor`) | `scanSockets`; the layer above keeps the socket it has read from |
| `UpperClose` (`Adaptor`) | the layer above closes an entry: any, at any time |

`UpperClose` has no guard, since the firmware has none: DoIP closes the socket number
written in a slot of its connection table (`DoIP.c` 357, 857) or in the pending
activation (840), whatever that entry is by now - the listener of the port, INIT, a
duplicate. `SoAd_SocketClose` makes a listener INIT and closes its descriptor
(`SoAd.c` 42-47). If an entry of the port is connected at that time, it is left with the
number of a descriptor that is closed; lwIP may give the number out again, and what the
comparisons of descriptors in `SoAd_SocketClose` find is then chance. The history variable
`torn` remembers that this has happened. `OneListener`, `HandlesAgree`, `DescriptorsOwned`,
`PortsArePools` and `PortComesBack` say what holds until then; TLC violates each of them
without that exception, which is a fault of the code. `NoneLeaks` holds at all times, and
`DuplicateHasListener` too if there is one TCP port (`NoEntryStranded`). With one entry to a
port, as in the shipped table, no port is ever torn (`OneEntryNeverTorn`).

Abstracted: remote addresses and the contents of messages. `socketCreate` may fail
at any of three calls; all of them leave the entry as it was, with the descriptor
closed. `SoAd_SocketStatusCheck` is modelled as it is, a check that never closes.

### DoIP

One action is one iteration of one of the loops of `doip_loop_task`; `pc` says which
(`scan` of the sockets, `alive` for the loop over the slots in the middle of
`handleRoutingActivationReq`, `main` for `DoIp_MainFunction`), `idx` is its variable.
The CAN task (`DoIp_HandleTpTransmit`) may run between any two of them, and so may Dcm
(`DcmFinishes`) and the network (`PeerBreaks`). `DoIp_HandleTpTransmit` is one action:
`CanTp_MainFunction` calls it with the interrupts masked, so that the doip task does not
run between its reading of the address (`AnswerAddress`) and the send.

| Variable | Code |
|---|---|
| `conn` | `connectionStatus`: socket, address, activation type, state, general and alive timer, awaiting flag |
| `pend` | `pendingRoutingActivation{SocketNr,Sa,ActivationType,TxBuffer}`; address and type of one that is over are reset in the model, since nothing reads them |
| `bufs` | response buffers of routing activations that are allocated between two steps |
| `tmap` | `targetConnectionMap` |
| `req` | the arguments of the request in the alive check loop |
| `dcm` | Dcm as DoIP sees it: `idle`, `processing`, `responding`, and `lost` when an answer was refused and CanTp has forgotten it |
| `activated`, `obs`, `dcm.entitled` | history: which addresses were activated over the connection a socket has; what the last step sent or did that a tester or a comment can see; whether the asker was activated when it asked. No guard reads them. |

Abstracted: message bytes (a message is its type, its addresses, and whether its length
is right); the split of the TCP stream into messages; `initialInactivityTimer` and the
authentication and confirmation flags, which nothing reads; the address of the last UDP
sender; the vehicle announcements. `lookupSaTa` is translated as it stands, including
that it compares the type of *slot* i with activation i, and that `connectionIndex` is
uninitialised when no slot matches: the model then chooses any slot, the value that
means "unregistered", or another value (`Garbage`).

`AuthTypes` and `ConfirmTypes`, the activation types with callbacks, are empty in all
runs, as in the shipped configuration; the proofs hold for every choice.

### CanTp

`rx` is `Admin.pRxState[1]` (physical channel 1), `tx` whether its transmit half waits
to hand an answer to DoIP, `dcm` is `gDiagState` (a set of flags: in the code idle is a
bit like the others), the request buffer, P2 and the repetition of an answer, `pc`
where the CAN task is in its cycle, `mail` the flow controls between CanIf's buffer and
the bus, `tester` the tester on CAN and `doip` the request of the doip task between the
calls of `handleDiagnosticMessage`. Lengths are counted in frames.

| Action or operator | Code |
|---|---|
| `Ask`, `SendCF` with `RxSFPdu`, `RxFFPdu`, `RxCFPdu`, `GoingCF`, `MinBufferAccess` | `CanTp_RxIndication` and the functions it calls, in the interrupt; a frame is delivered, lost or delivered twice |
| `AskAll` | a functional request, in one frame with buffer and PDU of its own |
| `CanTp_TxConfirmation` | the confirmation of a flow control, in whatever state the channel is by now |
| `DoipTests`, `DoipStarts`, `DoipFinishes` | `handleDiagnosticMessage`: the test and the write of `Dcm_StartOfReception` apart, since nothing masks the interrupts there |
| `L_CanTp_RxMainFunction`, `L_CanTp_TxMainFunction` | the halves of `CanTp_MainFunction` |
| `UdsRepeatServiceCall`, `P2Expires`, `P2Runs`, `RepeatTransmitCheck`, `UdsSidDispatcher` | `Dcm_MainFunction`, function by function |
| `StartResult`, `Copied`, `Indicated`, `Confirmed`, `ProcessingDone` | `Dcm_StartOfReception`, `Dcm_CopyRxData`, `Dcm_RxIndication`, `Dcm_TxConfirmation`, `DsdInternal_ProcessingDone` |

A service is external: it ends with an answer, without one, or not yet. History
variables: `got` (frames of the reception in progress), `open` (receptions Dcm accepted
and was not told the end of), `told` (what it was told in this step) and `flaws`, which
collects the ways the code has round its own gate (section 4) so that the properties can
say what holds while none was taken. Abstracted: payloads, the second (functional)
receive channel's frames beyond single ones, S3 and session timers, security, padding.

### PubSub

Everything under the mutex of `pubsub.c` is atomic up to the pushes, each of which is a
step of its own (`PushNext`), because the owners of the queues run `ps_get`,
`ps_unref_msg`, `ps_flush` and `ps_overflow` without the mutex. A message is its number
in the order of publication. `Publish`, `Subscribe` (with the replay of sticky messages),
`Unsubscribe`, `ps_clean_sticky`, `FreeBegin`/`FreeEnd` (`ps_free_subscriber`: the
subscriptions go under the lock, the queue is emptied after) and `OverflowRead`/
`OverflowReset` (the two halves of `ps_overflow`) are the operations. `Flush` is one turn
of `ps_flush`, by the owner that frees its subscriber or by another task on a subscriber
in use, as the publishers of the power manager's topics do. An owner may free its
subscriber while it holds a message, which it gives back afterwards (`ps_call`,
`ps_wait_one`, 798-821). `Forget` is an owner that never gives its message back:
`getAntiThelsSts` returns on Disarm and Arm without `ps_unref_msg` (`pwrmanage_apl.c`
163-170). `leaked` counts those references; it, `sent` and `owed` are history.
Abstracted: values, response topics, hidden subscribers, the count that
`ps_publish` returns; `ps_call` and `ps_wait_one` are sequences of these operations.

### PowerManager

Time is counted in iterations of the task (40 ms). One action is one handler
(`Normal_Work`, `One_Hour_Work`, `Silent_Work`, every `Period`-th time
`Power_Save_Work`, which is cut at the 100 ms that `getCanWorkSts` waits between the look
at the ignition, the wake-up source and the messages (889) and the halt (912)). `inbox`
holds one message per topic, since publishers flush their topic first, and `Publish`,
`Wire` (the ignition), `NetworkSleeps`/`NetworkWakes` and `Wake` come between any two
handlers, the first four of them also during that wait. `OneHourTo`, `SilentTo` and `SaveTo` say where a
handler goes after its assignments in the order of the code, the last one winning;
`latch` and `initial` are the static flags of a signal that must be seen to change.
`stay` and `asked` are history. `NetworkSleeps` and `NetworkWakes` are the callbacks that
set `NmSleepMode` (`Nm.c` 52-94). At this commit nothing that runs calls them, since the call of
`CanNm_MainFunction` is commented out (`com_vehicle_fml.c` 227): `NmSleepMode` stays 0,
and the unit never halts. The model lets the network sleep or not, and assumes neither.

### RingBuffer

`rbRead` is cut at its accesses of `rbTail`: the two comparisons of its own, and the
comparison and the subtraction in each of the two calls of `rbCanRead` that the macro
`min(count, rbCanRead(rb))` expands to (`ringbuffer.c` 51, 137); then the copy, and the
advance of `rbHead`. `rbWrite` is one step that may come between any two of them, as in
the buffers whose writer runs above the reader: `canRingbuffer` and `uartsocRingbuffer`,
written in interrupts, and `spiRbTx`, written by the CAN task and read by TX below it.
`wholePackageSpirbTx` is the other way round and is not modelled (section 7). `ByteFifo` is
what callers may expect. The mapping gives the FIFO's content as the unread bytes seen
from the reader's place. `Lost` is where the program becomes undefined: "pastEnd", a copy
that runs past the end of `rbBuff`, and "overrun", a copy of more bytes than the caller
asked for.

### SpiLink

The SoC is the master of the SPI. RX (`spi_transfer_task_fml`) takes an event, packs
`slaveBuffer.tx`, looks at the SoC's last frame, and arms a transfer; the SoC runs it, or
TX (`spi_prv_send_task_apl`) gives it up after a while. RX has the higher priority
(`Sources/rtos.c` 229-230), so TX runs only while RX waits (`TxRuns`), and RX may come
between two statements of TX.

| Variable | Code |
|---|---|
| `event`, `called` | `spiQueue`, of one event; `spiCallbackQueue`, with whether the data it stands for are still in `slaveBuffer.rx` |
| `tx`, `armed`, `waited` | `slaveBuffer.tx`; a transfer is prepared, and `spiReceiveTimeout` |
| `rxTask`, `txTask` | where the two tasks are; `txTask.slot` is the `i` of the loop at 355-373 |
| `job`, `taken` | the event RX works on; the slot it has marked full and not labelled yet |
| `store`, `watch`, `again` | `spiStoreSendData`, `spiTimeoutOdlid` with `ackTimeoutTimes`, `spiTimeoutBuffer` |
| `pending`, `packed` | `wholePackageSpirbTx` with `spiRingbufferQueue`, and `spiMsgId` |
| `soc` | the SoC: what it may still send, what it can have heard of this transfer, what it has heard last |
| `fate`, `missed` | history: what has become of a frame; RX took an event that may cost it the SoC's data |

| Action | Code |
|---|---|
| `RxTake`; `RxPack`, `RxLabel` | `spi_transfer_task_fml` takes an event; the two step functions (`Handled`) with `package_..._fml`, `copy_slave_buffer_tx_fml` and `check_resend_frame_fml`, up to the mark `full = 1` on a slot; number, length and data of the slot (280-282, 563-565) |
| `RxCallback`; `RxArm`, `RxGivesUp` | `rx_soc_data_process_fml_api`; `start_spi_Transfer_fml_api` |
| `TxLook`, `TxPeek`, `TxPost`, `TxRead` | `spi_data_to_soc_fml_api`: a transfer or an event under way, what there is to send, the event; `read_spi_ringbuffer_fml_api` |
| `TxTime`, `TxFind`, `TxLeave`, `TxNumber`, `TxCopy`, `TxCopied`, `TxMeasure`, `TxDone` | `spi_timeout_process_fml_api`: the counting, and for each late frame the search, `full = 0`, `spiId = 0`, the beginning and the end of the copy with the mark, the length |
| `SocAsks` | `soc_isr_hander_fml` |
| `SocIsIdle`, `SocIsStrange`, `SocShakes`, `SocAcknowledges`, `SocSends` | `spi_slave_callback`, by what the SoC has sent |

Abstracted: a frame is its kind and number; the ring holds whole frames, of which the
oldest are dropped for a new one; whether the SoC hears a transfer is its choice, and it
acknowledges what it heard last. RX takes an event, packs, labels, looks at the callback
and arms in steps of their own, since an event may be taken while a transfer is armed
(one that `soc_isr_hander_fml` posts), and `spi_slave_callback` may then come between any
two of them, in particular between the mark on a slot and its number. Within the loops of
`RxPack` the interrupt finds nothing else to change. TX cannot come within RX, which
has the higher priority and does not wait there. The wait of
up to 15 ticks at the end of `start_spi_Transfer_fml_api` is time only. `len` is
uninitialised for events no case handles; the buffer is sent as it is in any case.

A sent frame can be lost in six ways, which the property names: no slot is free when it
is sent (275-286, 558-568); the acknowledgement of a frame with the same number frees its
slot (474); so does an acknowledgement of number 0, or of the number TX has left there,
between the mark on its slot and its number (562-563, 279-280); RX writes another frame
into the slot from which TX has not finished copying it (361-367); the buffer for sending
again is overwritten by the next late frame; RX sends it again before TX has noted its
length (367-369). The history variable `fate` marks a frame lost only where a copy is
given away and no other is left (`Lost`, `Held`).

## 3. Runs

| Run | Instance | What it asks | States, time |
|---|---|---|---|
| `adaptor` | one UDP entry, two TCP entries on one port, one on another, 5 descriptors (one too few) | `SoAdTypeOK`, `OneListener`, `DuplicateHasListener`, `HandlesAgree`, `DescriptorsOwned`, `NoneLeaks`; every port is an `AcceptPool` (`PortsArePools`); `PortComesBack` | 253 920, 70 s |
| `shipped` | `SoAd_Cfg.c`: a UDP and a TCP socket, one slot, one tester 0xbeef, one activation type 0, one target 0x1111; a stranger, an unknown type, a peer that disappears | `SilentIsReleased` | 20 702, 25 s |
| `two_slots` | two testers, two TCP sockets on one port, two slots, two buffers | `TypeOK`, `PendingBufferAllocated`, `SlotsHaveSockets`, `GrantedIsRegistered`, `NoTakeover`, `NeverForgotten` | 1 987 598, 40 s |
| `cantp` | three requests of 1, 4 or 5 frames over CAN, to all, or over DoIP; a buffer of 4 frames, blocks of 2, sequence numbers modulo 3; one fault | `CanTpTypeOK`, `WholeMessage`, `NoneDropped`, `OneRequestAtATime`; `ServedToTheEnd`, `RequestEnds` | 1 038 410, 2 min |
| `pubsub` | topics a and a.b, two publications; one subscriber of a with a queue of two messages that overflows, unsubscribes and is freed, one of both topics with a queue of one that forgets and is flushed | `PSTypeOK`, `RefsExact`, `TopicInOrder`, `TopicsExact`, `FreedIsUnknown`, `OverflowConserved`; `MessagesAreFreed` | 577 235, 95 s |
| `power` | both timers 4 iterations long, three of them the window in which the SoC is asked; three events | `PMTypeOK`, `AccIsNormal`, `HourAsksSoc`, `CanWakeStaysUp`; `FullStay`, `QuietSleeps` | 1 037 325, 65 s |
| `ring` | 4 bytes of two values, writes and reads of up to 5 | `RingTypeOK`; the buffer is a `ByteFifo` until a read leaves it or its caller's memory (`FifoUnlessLost`); `WrittenIsRead` | 13 568, 10 s |
| `spi_frames` | one slot, two numbers for frames, room for one in the ring, time-outs of 0; two frames to send, no request of the SoC | `KeptUntilAcknowledged` | 1 294 000, 1 min |
| `spi` | the same with one frame to send and one request of the SoC | `SocDataIsRead`; `LinkGoesOn` | 546 774, 35 s |

Each property has a mutant, an operator with a plausible bug (a comment above it says
which) that makes TLC find the property violated in the same instance: the properties
can fail, and the bounds reach the case.

**Bounds.**

- `adaptor`: two entries on one port are the least with a listener and a connection at
  once, or a listener and a duplicate, and so with a port that is torn; the entry on
  another port makes the comparison of descriptors in `SoAd_SocketClose` tell something;
  with one descriptor too few, creation and accept fail for want of one. More
  entries to a port, and a port that is the only one, are left to the proofs.
- `shipped`, `two_slots`: in the shipped configuration no activation is ever pending -
  the only TCP socket is the slot's own - so the pending logic needs two sockets. The
  code's timeouts of 500 ms and 5 minutes are ticks: `AliveTimeout` and `GeneralTimeout`
  are at most 2, general at least as long as alive where both matter, which keeps the
  order of the two. Timers stop by themselves (a timer past its limit fires). `MaxBufs`
  = 2 is one buffer for the pending activation and one for the request being handled;
  heap exhaustion is reached. `two_slots` has no targets related to an activation, no
  strangers and no broken peers, so that diagnostics and lost peers, the subject of
  `shipped`, do not multiply its states.
- `cantp`: the shortest numbers with every case: a single frame, a message that needs a
  second block and wraps the sequence number, one that does not fit. `NAr` = `NCr` = 1
  lets every timer run out; longer ones only delay that. One fault is a lost or doubled
  frame, a lost flow control, or a tester that does not wait; three requests are one for
  each client at once. P2 is not counted: it may run out in any cycle.
- `pubsub`: a topic and its prefix, so that a message comes to one subscriber twice and
  to the other from two topics; sticky messages of children; one subscriber that is freed;
  queues of one message overflow at the second.
  `MaxDrops` only stops a subscriber from subscribing after it dropped one.
- `power`: the windows keep the order start < stop of the code, a request interval
  shorter than the window and a hold longer than two `Power_Save_Work`s. Three events
  are what the shortest way round an answer or a latch takes; more time than the
  timers' is capped where nothing looks at it any more.
- `ring`: every pair of pointer positions, and lengths beyond the capacity.
- `spi_frames`, `spi`: one slot is full with the first frame, so that the second meets a
  full table, a slot that is being copied and a buffer in use; two numbers are shared by
  two data frames and the frames of DIDs and version. Time-outs of 0 let every timer run
  out at the next call, which is the most that can happen. The requests of the SoC meet
  the frames in `spi`, where one frame is enough for an armed transfer under an event.

**Fairness** is what the scheduling gives, and nothing is assumed of testers, services
or the bus:

- `doip_loop_task` never blocks (weak fairness of its next step); CanTp's main function
  calls `DoIp_HandleTpTransmit` (weak); Dcm answers or gives up within its P2 time
  (weak); lwIP does not refuse to open a socket every single time (strong, per socket).
- `CanTp`: the CAN task and the doip task go on (weak), P2, which is counted down in
  every cycle, runs out (strong, since the action is enabled in one phase of the cycle).
- `PubSub`: the holder of the mutex runs (weak; FreeRTOS mutexes inherit priority); an
  owner finishes what it began, by giving a message back or, where it does not, by
  forgetting it (weak), and its loop comes back to `ps_get` or to the next turn of
  `ps_flush` whatever it calls in between (strong).
- `PowerManager`: the scheduler wakes the task every 40 ms (weak). Nothing is assumed of
  the network: that it sleeps is a condition of `QuietSleeps`.
- `RingBuffer`: the reader polls and is not starved (weak).
- `SpiLink`: RX goes on when an event is there (weak); TX runs whenever RX waits, which
  it does after every transfer (strong, since RX preempts it). Nothing is assumed of the
  SoC: `LinkGoesOn` is carried by the time-out.

**What the passing runs show.** The adaptor's moves of the listening role are right: any
order of connects, closes and failures looks like a pool of connections per port, and the
port comes back, until the layer above closes a listener under a connection; no
descriptor leaks even then. In the server, whatever one step interleaves -
including `handleTimeout` twice in one iteration and inside the loop that sends alive
checks - buffers are never freed twice, a registered tester loses its slot only by a
timeout or a failed alive check, and a pending activation is never dropped silently; a
silent tester is released. The transport layer delivers whole messages and always tells
Dcm; Dcm serves one client at a time and ends every request, except through the five
ways named below. The bus counts its references exactly and keeps the order of each
topic, and every message is freed that its owners give back. The power manager asks
before one hour runs out, never halts on a CAN wake-up, and halts in a quiet car whose
network sleeps. The ring buffer is a FIFO but for two windows. The SPI link keeps what it has sent
until it is acknowledged, but for six ways to lose it, and looks at what the SoC sends.

## 4. Findings

A run each checks a statement that a comment in the code makes, and finds it violated;
the lines are quoted in `PROJECT.json`.

| Run | The code says | What happens |
|---|---|---|
| `v_diagnosticonlywhenactivated` | "Connection not registered!", "SA not registered on receiving socket" | with no matching slot `connectionIndex` is uninitialised; the message can reach Dcm (shipped configuration) |
| `v_timeoutclosesconnection` | "Close current connection (which has timed out anyway)" | a slot survives the closing of its socket; its timer later closes the listener the entry has become (shipped) |
| `v_answergoestoasker` | "Target of response is the source of the initiating party" | the slot is read when the response is sent and may belong to another tester by then |

`flaws` in `CanTp` names the ways round the gate of Dcm. The properties hold until one
that matters to them is taken; TLC violates each without its exception.

| Flaw | Where | What happens |
|---|---|---|
| `unaccepted` | `CanTp.c` 2682-2688 | a new message while a refusal is under way ends, at Dcm, a reception Dcm never accepted: it becomes idle in the middle of another client's request |
| `race` | `Dcm_Cbk.c` 102-116 | a CAN frame between the doip task's test of the gate and its write: both are in |
| `pending` | `Dcm.c` 962 | the "response pending" is given to a channel that is busy, nobody looks at the result, and P2 is not started again |
| `lost` | `DoIP.c` 1352-1355, `CanTp.c` 1235-1242 | an answer is refused if the socket it is to leave by is closed or being opened (a connection that is gone, with the socket listening again, is told as a failed send); CanTp forgets it and Dcm, which is not told, refuses every later request |
| `stale` | `Dcm.c` 4812-4824 | a failed transmission opens the gate but leaves the repetition of an older answer set, which then ends the next request |

Other faults the models contain, which no run singles out: the status check never closes
a connection (`SoAd_LWIP.c` 30); a stale slot closes the listener of a port that has
connections, after which descriptors are mixed up (`DoIP.c` 857, `torn`); an anti-theft
message is never freed (`pwrmanage_apl.c` 163-170, `leaked`); the ignition wire is not
looked at again after the wait for the network, before the halt (`pwrmanage_apl.c` 889,
912); a second pending activation drops the first's buffer
(`DoIP.c` 639-642); a pending activation may wait for ever, its timers restarted by each
further request (`DoIP.c` 392, 631); a pending activation is denied although a failed
alive check has freed a slot; one address on two sockets after a timeout granted it
(`DoIP.c` 863); a read past the end of the ring buffer when a write goes round the end
between the comparison in `rbRead` and its call of `rbCanRead`, and a read of more bytes
than the caller asked for when a write falls between the two calls of `rbCanRead` in
`min` (`ringbuffer.c` 51, 137), both of which `FifoUnlessLost` names; five minutes of silence that end in standby without the SoC
having been asked, although the comment at `pwrmanage_apl.c` 60 says that both timers ask
it: the counter of requests is not reset when silent mode is left in its last part
(770-780).

On the SPI link, besides the six ways to lose a frame: after a frame of the SoC that asks
for the version, the version frame clears the receive buffer, so that data which came with
the next transfer are acknowledged and never looked at (`com_soc_fml.c` 791-795, 1044); a late
frame is sent again only when new data are queued, since nothing else posts the event
(653-655); a time-out takes back whatever event waits (312-315). Seen while reading, outside
the model: `value+8 <= get_write_space` (594) allows a frame that `rbWrite`, which wants
one byte more, refuses, and its index is queued all the same; the index queue may be full
when the ring is not (623-630); RX may read the ring between TX's two statements that drop
a frame (590-591).

## 5. Proofs

The theorems hold for every value of the constants that satisfies the modules'
assumptions, which are ranges: any number of sockets, ports, descriptors, slots,
testers, activation types, targets and buffers, any times, lengths, block sizes and
capacities. The few that say more: socket numbers below 0xff, the value that means
none; slots below the two values that are no slot; addresses other than 0, which is what
an unused slot has; configured types apart from unknown ones; `BS < SnMod`, as a block
is shorter than the sequence numbers.

**SoAdProofs.** `SoAdInv` is inductive: `AlwaysInv`, and `SoundInv` until a port is torn.
`AlwaysInv` is types; which states belong to TCP and UDP; that an entry which is open has
the number of a descriptor; `NoneLeaks`. `SoundInv` is `InitAlone` - an entry is INIT only
while all others of its port are duplicates; `OneListener`; `HandlesAgree`; `UdpOwned`;
`DescriptorsOwned`. The parts need each other: that closing finds the listener by
descriptor needs `HandlesAgree`; that accepting keeps `HandlesAgree` needs the new
connection to be on a descriptor that was free, so `DescriptorsOwned`; that creating a
socket keeps `OneListener`, and that a listener closed without a connection leaves its
port as it was before it was opened, needs `InitAlone`. These results rest on it:

- `NoEntryStranded` (`DuplicateHasListener`). Initially the entry a duplicate waits for is
  the first of its port, the least of a set of numbers; from then on each operation hands
  the role on before it gives it up, also in a torn port if it is the only one.
- `OneEntryNeverTorn`: with one entry to a port, as in the shipped table, nothing is ever
  torn, so that the other theorems hold there without their exception.
- `EveryPortIsPool`: under the mapping of `MCSoAd`, which hides entries, descriptors and the
  scan, each step is a step of `AcceptPool` or a stutter, for any table and any port; a
  step that tears a port is `Tear`, after which the pool promises nothing.
  The number of busy slots is a cardinality, so a lemma each says what a step does to
  the set of connections of a port: it gains one entry, loses one, or stays; and that the
  pool listens only while a slot is free is a count of the entries of the port, of which
  the listener is none of the busy ones. `PortsRefinePools` is the case of the run.

The other theorems are `SoAdTypeCorrect`, `AtMostOneListener`, `HandlesTellPorts`,
`NoDescriptorLost`, `NoDescriptorLeaks`.

**DoIPProofs.** `TablesOK(st, k)` says that a record of tables is typed, that a slot has a
socket exactly when it has an address, that the pending socket and buffer are set
together, and that at least `k` buffers besides the pending one are allocated. A lemma
per operation shows it kept, for `k` = 1 while a request is in its alive check loop: this
is where `handleTimeout` inside the loop could free the wrong buffer. `LoopOK` adds that a
loop over *all* slots starts only when all are registered, and so closes and sends only
on sockets the table has. The theorems are `DoIPTypeCorrect`, `NoDoubleFree`,
`NoSocketOutOfRange`.

**DoIPStepProofs.** `SlotsTakenRightly` (`NoTakeover`) and `PendingIsAnswered`
(`NeverForgotten`) go through every action, with the invariant: which operation can take
a slot or clear `pend`, and when it runs. `GrantsAreInTheTable` (`GrantedIsRegistered`)
says of every record of tables on the way through a handler which responses have been
added so far, and that each that grants an activation is for a slot which still has
that address and socket: nothing that runs later in the same handler may take it away.

**CanTpProofs.** `CanTpInv` is `Good(State, ...) /\ Others`, and `Good` is stated of a
record, so that one lemma per function of the code serves every action that calls it.
`StateOK` has the types and `Channel`: what Dcm has accepted is what the channel
receives, what is left of it fits the room in the buffer, and no reception is open that
the channel does not work on. `Gate` says who holds the gate unless it has been gone
round. A doubled frame is the function twice, and the lemma too. Theorems: `CanTpTypes`,
`NoneIsDropped`, `ClientsTakeTurns`, `RequestsAreServed`.

That a message is whole (`WholeMessage`) does not follow from what the channel holds: it
compares sequence numbers modulo `SnMod`, and the same number may be of another frame or
another message. `WholeInv` adds `Sound` - what has been taken is the beginning of one
message, `left` and `sn` agree with it, and what Dcm has is whole - and `Session`, which
relates the channel, the flow controls on their way and the tester. `InStep`: the tester
waits whenever the channel is not ready, at most one flow control is under way, and in a
block `next - Len(got)` is what the tester has sent of it and the channel has not taken,
hence less than `BS`, hence (`BS < SnMod`) told by the sequence number if it is not zero.
A lost or doubled frame, and a new request in the middle of one, keep this. A tester that
gives up waiting does not: the flow control it no longer waits for may be taken for that
of its next message (`OutOfStep`, with `Ahead`: the tester has sent what the channel has
not asked for). That is still harmless if nothing is lost from then on, and not
otherwise: a tester that does not wait and then a lost frame can make the tail of a
message pass for the continuation of another. So the theorem `LastFaultWhole` is of
behaviours in which such a tester is the last of the `MaxFaults` faults, after any number of
others; `MessagesAreWhole` and `RequestsAreWhole` are of at most one fault, whichever it
is, as in the run. The invariant was checked by TLC for one, two and three faults before
it was proved.

**RingProofs.** `RingInv` is the types and `ReaderOK`: at each point of `rbRead`, what the
reader knows about pointers that the writer may have moved since - that at least the
`size` bytes it is about to copy are unread, contiguous and no more than were asked for,
whichever call of `rbCanRead` gave them. The difference of pointers of which one went
around the end is a number near 65536 in its 16 bits; that a capacity and a length
together stay below that (an assumption, with room in the firmware) makes it either
"overrun" or the length asked for. From it `RingIsFifo` shows
each step to be a step of `ByteFifo` or a stutter, by the index arithmetic of `Place`.

**PowerProofs.** `PMInv` adds to the types that timers are off outside their mode
(`TimersFresh`), that a run of the five minute timer is no longer than the stay
(`FiveWithinStay`), that the halt is entered in `Sleep` only (`SleepIsHalt`) and the
counter of the period (`CountIsPeriodic`). `AskedIsQuiet` says that what let
`Power_Save_Work` ask the network still stands when the wait is over; that a wake-up
keeps the unit up rests on it. `AccWins` needs a second layer, since it is
about the end of an iteration and each handler may undo what the one before did:
`AccInv` says at which points the mode may still be wrong. Theorems:
`PowerTypeCorrect`, `HourAlwaysAsks`, `CanWakeHolds`, `StandbyAfterFullStay`, `AccWins`.

**PubSubProofs.** `PSInv` is `Order /\ Counts`. `Order` is the properties that are not about
counts and what they rest on: only published messages go round, a task without the lock
has left no push undone, what is being pushed is the latest message of its topic, what a
queue or an owner still has is older, and nobody is on a list twice. `Counts` says that
`ref[m]` is the number of holders of `m`: places in queues (a cardinality of
pairs of subscriber and position), sticky topics, owners, the publisher, and references
that an owner has forgotten. `Places` of a
queue after an append or a removal of its head are lemmas, the latter by a bijection
between the places; then a lemma per operation says whose places it changes, and the
count follows. The theorems with a run are `PSTypesCorrect`, `RefsAreExact`,
`TopicsInOrder`, `TopicsAreExact`, `FreedUnknown` and `OverflowIsConserved`.
`StickyLatest` says that a sticky message is the latest of its topic. Two more say what the counts are for: whoever can still get at a
message, a push that is not done yet included, finds it alive (`FreedIsUnused`), and a
message whose count has gone down to zero is never referenced again (`FreedStaysFreed`).

**SpiProofs.** What RX does between two events is a function of a record, and `KeptIn` says
of such a record what `KeptUntilAcknowledged` says of a state; a lemma per function keeps
it. With the types it is inductive: the places of TX are needed, since a frame may be in
TX's hands only. `LookedAt` says for each point of RX whether a transfer can be armed and
data can wait, as long as no event was missed. Theorems: `SpiTypeCorrect`,
`SentFramesAreKept`, `SocDataLookedAt`.

Model-checked only: all liveness (`PortComesBack`, `SilentIsReleased`, `RequestEnds`,
`MessagesAreFreed`, `QuietSleeps`, `WrittenIsRead`, `LinkGoesOn`), which needs ENABLED. Of the
safety properties that the runs check each is stated by a theorem; `WholeMessage` and
`OneRequestAtATime` under the hypothesis on faults above, without which they are false.

## 6. What remains

The modules of the plan that exist are those of section 2. Left, most important first:

1. `FrameRing`: the bytes and indices of the SPI ring, with RX reading it between the
   two statements in which TX drops a frame, and the index queue at its limit.
2. `FlashStore`: the version record and the DTC store, with a reset between any two
   steps and a failing program step.
3. `DoIP` extended: the announcement timer (window and count), and the byte stream of
   one connection, with the client of `doip_client.c` at the other end; a server with
   two activation types, one with an authentication callback, for `lookupSaTa` and the
   slot a refused authentication keeps.
4. Proofs: that the scan and the closes of the server (`DoIP`) are steps of `Adaptor`,
   several of them in one handler, so that the theorems about descriptors carry over to
   the two composed.

## 7. Not modelled

- **Most of the tree** is the SDK, lwIP, FreeRTOS, FatFs, cJSON, MQTT, printf and drivers:
  vendored, generated or pure I/O. The modules cover the firmware's own control logic,
  which is a small share of its lines.
- **CAN stack.** `OsekNm` is in no build list, and the call of `CanNm_MainFunction` is
  commented out (`com_vehicle_fml.c` 227); of the network only the two callbacks that set
  `NmSleepMode` are modelled. `Com` packs signals. Of `CanIf` only the transmit buffer that flow controls
  meet is modelled; of `Dcm` the services themselves are external. Segmented answers
  over CAN do not exist in this configuration: answers go to DoIP.
- **Task start-up**, `Sources/rtos.c`: read for the concurrency of the models. The
  creation of the power manager's task is commented out at this commit (235); the model
  is of the code as it would run.
- **Of the SPI link**: the layout of frames and the data in them, in both directions; the
  bytes of the ring and its queue of indices, which hold whole frames here; the DMA; the
  start of an update that the SoC may ask for.
- **Update**, `update_fml.c`: a reset between the erase (178) and the program step (180)
  loses the mark of the slot; interrupts stay disabled on a failure. Sequential, and
  `erase_updata_pflash_fml` is called nowhere.
- **DTC and DID store**, `uds_store_fml.c`: copies of generated tables; the unprotected
  comparison (292) and a change back within one period (275-278) are its hazards.
- **DoIP client**: one blocking thread called from a test. **Tdrm**: lookups in generated
  tables with debouncing. **Vehicle signals**: layout.
- **Memory**: overlapping copies and sizes (`SoAd_SendIpMessage` copies into 200 bytes)
  are outside the models' data abstraction.
- **Of the ring buffers**: `wholePackageSpirbTx`, which TX writes (`com_soc_fml.c` 614) and
  RX, above it, reads (545), so that the reader may come inside `rbWrite`: between the two
  parts of a write that goes round the end, or when the tail stands behind the last byte
  and is not yet back at the first (`ringbuffer.c` 86-105). TX reads it too, to drop a
  frame (`com_soc_fml.c` 591), and `rbCanRead`, interrupted there by RX, may find the
  pointers past all its comparisons and return nothing (27-42).
- **Sub-statement interleavings** of the DoIP task with the CAN task: a handler is one
  step, except where section 2 says otherwise. The CAN side reads one word of the table,
  so that its interesting interleavings are between handlers.
