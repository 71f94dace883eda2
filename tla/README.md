# TLA+ models of xesp-usbh

This directory models the USB host stack of the repository: the Host
Controller Driver (`components/usb/hcd.c`, "HCD"), the transfer layer above it
(`main/xesp_usbh_xfer.c`), the device layer and port event task on top
(`main/xesp_usbh.c`, `main/xesp_usbh_port.c`), and the parser of configuration
descriptors (`main/xesp_usbh_parse.c`). The model is written from the source. Comments
and documentation are used only as statements to compare the code with.

- [1. The system](#1-the-system) is the inventory of its parts.
- [2. The modules](#2-the-modules) says which module models what, and how.
- [3. What is checked](#3-what-is-checked) lists the runs and their bounds.
- [4. What the code does differently](#4-what-the-code-does-differently) lists
  the statements of the code that the model refutes.
- [5. What is proved](#5-what-is-proved) explains the theorems.
- [6. What is not modelled](#6-what-is-not-modelled), and the plan.

## 1. The system

A USB device hangs on the one root port of an ESP32-S2. From the hardware up:

| part | source | state | operations | runs in |
|---|---|---|---|---|
| controller and bus (not in the repository) | used through `usbh_hal_*` | root port, channels, interrupts, debounce lock | raises port and channel interrupts, executes transfer descriptor lists | hardware |
| HCD port | `hcd.c` | state, flags, last event, waiting task, `port_mux` | init, deinit, commands (power, reset, suspend, resume, disable), event handling with debounce, recovery | tasks; interrupt |
| HCD pipes | `hcd.c` | per pipe: state, pending/in-flight/done IRPs, flags, waiting task; per port: idle and active list | alloc, free, update, enqueue, dequeue, abort, commands (abort, reset, clear, halt) | tasks; interrupt |
| HCD transfer descriptors | `hcd.c` | descriptor list of a pipe | fill, continue (stages of a control transfer), parse | both |
| transfer layer | `xesp_usbh_xfer.c` | pool of two IRPs, event queue, event bits, enqueue mutex | blocking transfer, pipe event task, open and close an endpoint | clients, one task |
| port event task | `xesp_usbh_port.c` | queue of port events | setup, one callback per event | one task |
| device layer | `xesp_usbh.c` | table of open pipes and its mutex, counter of opened devices | open/close device and endpoint, descriptors, address assignment, reaction to port events | clients, port event task |
| configuration parser | `xesp_usbh_parse.c` | allocation pool | parse a configuration into interfaces and endpoints | a client |
| printing, example application | `usb_utils.c`, `main.c` | none | printing, MIDI example | a client |

**How they interact.** Tasks call the driver. Inside it one spinlock (the
critical section) protects everything; on this single-core chip it masks the
interrupt and the scheduler. Three things happen outside of it: a command that
waits blocks on the task notification of its task and is woken by the
interrupt; the delays of reset, resume and debounce; and callbacks, which the
interrupt handler and the invalidation of pipes make with the critical section
left. `port_mux` lets one task at a time be inside `hcd_port_command` or
`hcd_port_handle_event`. Above the driver, callbacks post events to queues; the
pipe event task takes one IRP per event from the pipe and sets the event bits
of that IRP, for which the client blocks; the port event task handles port
events, opens the control pipe, and closes the device.

**What is hard.** Most of what can go wrong lies between two critical sections:

- a task waits, and meanwhile clients, interrupts, the port and other tasks
  change the pipe or the port it waits for;
- one wake-up, one flag or one event slot stands for several things (a task
  notification serves pipes and ports, `waiting_xfer_done` serves pipe and port
  commands, `last_event` keeps one event, a pipe event means "some IRP");
- list membership is decided from counters that do not count the in-flight IRP;
- a device can be lost at any of these points.

**What makes each part correct.**

- *Pipes.* An IRP is in one place; IRPs finish in order, once, with a final
  status; the two lists hold each pipe once; an executing channel has an IRP;
  commands exclude each other, and one that is woken up finds its transfer over;
  an invalid pipe stays invalid
  and idle; every command returns and every IRP finishes.
- *Port.* Its state agrees with the device; a suspended port executes nothing;
  the count of pipes to wait for is exact; a lost device is not forgotten and
  leaves no valid pipe; a port function returns; recovery is possible.
- *Transfer layer.* An IRP in the pool is used by nobody; a transfer that is
  reported as done was completed; every transfer returns; the event task never
  waits for a transfer.
- *Device layer.* One entry per open pipe and one control pipe; entry, pipe and
  device agree on the address; nothing of a lost device is left when the next
  one is connected; assigning an address returns and gives the mutex back.
- *Transfer descriptors.* The device sees the stages of a control transfer, in
  order, with the right direction and PID; a client is told that its transfer
  completed, and how many bytes moved, only if all were executed; the slot of a
  channel is taken exactly while a transfer is in flight.
- *Parser.* It finds what the descriptors mean, finds nothing that is not there
  when they are cut short, and frees every block it allocated.

## 2. The modules

```
IrpFifo      what a pipe promises                (abstract)
   ^ implemented by
HcdPipe      pipes, their port as an environment
   ^ EXTENDS             ^ EXTENDS
HcdPort                XferLayer
(also implements HcdPipe's environment)
UsbhDevice   the device layer, over a reduced driver and transfer layer

ControlTransfer   what device and client may rely on   (abstract)
   ^ implemented by
XferDesc          the descriptor list of a channel        ConfigParse
   ^ EXTENDS                                                 ^ EXTENDS
Requests: requests, from the client to the wire and back ----+

TransferPlans: the stages of a transfer, for ControlTransfer and XferDesc
MCHcdPipe, MCHcdPort, MCXferLayer, MCUsbhDevice, MCRequests: values for TLC

Proofs (each EXTENDS the module it is about, and those to its left):
HcdPipeProofs <- HcdPipeFifo <- HcdPortProofs, XferLayerProofs
XferDescProofs, ConfigParseProofs <- RequestsProofs
UsbhDeviceProofs
```

**`HcdPipe`.** One action is one critical section, or the part of a function
between two points where it leaves the critical section. The interrupt handler
runs to completion, so it is one action.

| code | model |
|---|---|
| `pipe_t` | record `pipe[p]`; the two tail queues are sequences, and their counters are the lengths |
| `irp->reserved_ptr`, `reserved_flags`, `status` | `irp[i].ptr`, `.flag`, `.status` |
| `pipes_idle_tailq`, `pipes_active_tailq` | sequences `idle`, `active` |
| the HAL channel is active | `p \in hw` |
| a task inside `hcd_irp_enqueue` or a blocking `hcd_pipe_command` | `call[t]` |
| FreeRTOS notification value not zero | `t \in notified` |
| the loop variable of `_port_invalidate_all_pipes` | `inval` |
| failed `assert`, use of freed memory, list macro on the wrong list | `fault`, and the run ends |
| `hcd_irp_enqueue` | `EnqueueCheck`, then `EnqueueStart`, `EnqueuePend` or `EnqueueReject` |
| `hcd_irp_dequeue`, `hcd_irp_abort` | `Dequeue`, `AbortIrp` |
| `hcd_pipe_alloc`, `_free`, `_update`, `_get_event` | `Alloc`, `FreePipe`, `Update`, `GetEvent` |
| `hcd_pipe_command` | `CommandNow`, `CommandClear`, or `CommandBlock`, `CommandWake`, then `ResumeDone` or `ResumeInvalid` |
| `_intr_hdlr_chan` | `ChanDoneNext`, `ChanDonePause`, `ChanDoneCommand`, `ChanError`, `ChanIgnored` |
| `_port_pause_all_pipes`, `_port_unpause_all_pipes`, `_port_invalidate_all_pipes` | `PausesAll`, `UnpauseAll`, `InvalidateBegin`/`InvalidateNext` |

The section "The port" of `HcdPipe` is an environment: the port may do whatever
`_intr_hdlr_hprt` and the port functions could do to its pipes. `HcdPort` shows that
it is wide enough (`IsPipeSpec`, proved in `HcdPortProofs`). The constants
`TaskPortStates` and `LossPortStates` narrow the environment in the runs.

*Rules.* The driver relies on habits of its clients that no interface states.
They are named in the constant `Rules`, each is a guard on the actions it
concerns, and a run says which it assumes: `batch` (dequeue only when nothing
is in flight), `quiet` (enqueue nothing on a paused pipe), `still` (no dequeue
and no free while pipes are invalidated), `turns` (no pipe is allocated or
commanded during a port command, nor the other way round), `fresh` (a reset
comes before the first pipe). Runs without a rule show what holds without it.

**`IrpFifo`** is the abstract specification of a pipe: a queue per pipe whose
first `ndone` IRPs are finished; IRPs are submitted at the back, finish in
order, may be cancelled out of order, and leave at the front.
`HcdPipe!IsFifo` maps `done`, in-flight and pending IRPs to that queue.

**`HcdPort`** adds the port functions, the port interrupt and the bus. `ctl`
says where the holder of `port_mux` is; each delay and each wait is a place.
`hprt` keeps the fields the pipes do not use, and `bus` the device, the root
port and the debounce lock, modelled from the calls `hcd.c` makes. The
interrupt comes before any other step once it is raised (`~Interrupted`),
because it preempts tasks; the environment moves between interrupts.

**`XferLayer`** uses the actions of `HcdPipe` for the driver. `xfer[t]` is the
stage of a client in take, enqueue, wait and give; `pool` is the free list and
its semaphore (taken and given in two steps each, as in the code); `evtq`,
`evtask` and `bits` are the queue, the task and the event groups. Events are
the numbers of `hcd_pipe_event_t`, and an event group ORs them: they are sets
of bits here. The callback is part of the action that makes it. The port task
appears as far as it uses this layer: it opens, closes and invalidates. A close
takes the results of its pipe (`CloseDequeue`); where clients share the pipe, it
may be in the wrong list by then (`CloseMisplaced`, a fault).

**`UsbhDevice`** models the device layer and the port task. It does not extend
`HcdPipe`: what the table and its mutex depend on is when transfers end, when
pipes become invalid, and in which order port events are handled, and the
product with the queues of every pipe would leave no room for two clients and
two connections. So the layers below are reduced to what this one can observe:

| code | model |
|---|---|
| `open_pipes`, `num_ctlr_pipes_opened`, `connect_xEvent` | `open_pipes`, `num_opened`, `connect` |
| `open_pipes_mutex` | `mutex`; a function that takes and gives it within one step needs it free |
| the port (state, enabled device, event slot), what the root port noticed, the pipes | `hcd` |
| the device, its address, and how often one was connected | `bus` |
| `port_evt_queue` and the place of `port_event_task` in the callback | `portq`, `ptask` |
| the place of a client, its `open_idx`, its handles | `client[t]` |
| `xesp_usbh_open_device` | `OpenBegin`, `OpenWait`, `OpenSearch`, `OpenFound` |
| `xesp_usbh_get_device_descriptor` | `DescBegin`, `DescEnd`, `DescInfo`, `DescAddr`, then `SetAddr` ... |
| `xesp_usb_set_addr_auto`, `xesp_usbh_set_addr` | `SetAddr`, `SetAddrBegin`, `SetAddrEnd`, `SetAddrUpdate` |
| `xesp_usbh_open_endpoint` | `EpLookup`, `EpAlloc`, `EpRegister`; for the control pipe `PortLookup`, `PortAlloc`, `PortRegister` |
| `xesp_usbh_close_endpoint`, `xesp_usbh_close_device` | `EpClose`, `DeviceClose`, `PortClose` |
| any other transfer (strings, configuration, data) | `XferBegin`, `XferEnd` |
| `port_event_callback` | the `Port...` actions, one per call that another task can come between |

A handle is an address: a freed handle may be given out again, so a client may
hold a handle that is now the pipe of somebody else. A reset and a debounce are
one step here (`HcdPort` has their delays), an error resets the pipe within the
transfer (as the pipe event task does), and the result of a transfer is its own
(`XferLayer` says when it is not). An overcurrent is not distinguished from a
port error, as the callback does nothing for either.

`hcd_pipe_update`, which ends the assignment of an address, refuses a pipe that
is invalid or has an IRP pending or done, but not one with an IRP in flight. The
transfers of other clients are not followed that far, so with one on the pipe
`Update` may do either (`CanUpdate`, `CanRefuse`). Its result is only logged
(`xesp_usbh.c:693`).

Its rules are `own` (a client does not use a handle after its pipe was freed),
`prompt` (no device is closed while a client opens an endpoint), `slow` (the
bus does not change before the port has handled the last event) and `alone` (a
client has the control pipe to itself while it assigns the address).

**`XferDesc`** is the life of one transfer. `HcdPipe` decides which IRP a pipe
executes and ends it in one step; here the step is taken apart, and the queues
and the port are reduced to what starts and ends a transfer.

| code | model |
|---|---|
| `xfer_desc_list`, `ctrl_data_stg_in`, `ctrl_data_stg_skip` | fields of `pipe[p]` |
| the HAL channel: slot, next descriptor, direction, PID, pending event | `chan[p]`; `ChanRun` executes one descriptor, `ChanFail` fails it |
| setup packet, `num_bytes`, `actual_num_bytes`, `status` of an IRP | `irp[i]`; of the setup packet its direction and `wLength` |
| `_xfer_desc_list_fill` | `Filled` and `Loaded`, in every action that starts a transfer |
| `_xfer_desc_list_continue` | `Continued`, in `IntrHalt` |
| `_xfer_desc_list_parse` | `Parsed`, `ParsedError` and `Released`, in every action that ends one |
| `_intr_hdlr_chan` | `IntrDone`, `IntrHalt`, `IntrError`, `IntrIgnored` |
| what the device has seen of the transfer in flight | `wire` (a history variable) |

**`ControlTransfer`** is the abstract specification. A transfer has a plan, the
stages of `TransferPlans`, derived from the setup packet the way a device does:
whether there are data is said by `wLength`, and not by `num_bytes`, which the
driver uses. The two agree for the requests of the repository (`Fits`).
`XferNext` assumes that, and `RequestsImplementXfer` proves it of the clients
in `Requests`.

**`ConfigParse`** has the parser as operators, function by function, over a sequence
of descriptors. The parser's state is an offset, a pool and what was found; the pool
is the number of pointers in each node and the number of blocks behind it. `Meaning`
says what the same descriptors mean, from the order of the descriptors alone,
without offsets and loops. The parser's loops are recursive functions over their
turns. Each turn of a loop passes a descriptor at least (`bLength` is not 0), so
that it ends within as many turns as there are descriptors (`turns`). `Overruns`
says when the merge of alternatives writes behind `alternate_counts`, which has an
element for each interface that came and is indexed by their numbers: the result is
then `Corrupt`. `WellFormed` is what a device sends (no descriptor is shorter than
the bus allows), `Regular` what the parser is made for.

**`Requests`** composes the two: `Ask` enqueues a request through `XferDesc`,
the device answers it, `EventServe` and `EventReset` are the pipe event task,
and `ReturnConfig` parses what came in the IRP's buffer. If the parser overruns its
array the step is `ConfigOverruns` instead, which sets `fault`. `heap` counts the
blocks that are allocated, `client[t].got` what the client can free. The
buffer is the device whose descriptors it holds; the byte behind the received
ones is any of `Garbage` where it is not known to be 0. The transfer layer is
the one of `XferLayer` with its steps joined: an IRP is taken, filled in and
enqueued in one step. `HCD_PIPE_CMD_CLEAR`, which nothing above the driver
uses, is an action of `XferDesc` and no step of `Requests`.

*Fault states.* After a failed assertion or a memory error the model takes no
step, because what such a program does is undefined. Safety properties
speak of what comes before; liveness properties allow `Over`. Deadlock checking
is off in every run for that reason.

*Mutants.* A definition marked `mutant` is the definition after it with a
plausible bug. Each property has one under which its run fails. They are not
part of the specifications.

## 3. What is checked

| run | instance | properties |
|---|---|---|
| `pipe_faults` | 1 pipe, 3 IRPs, 2 tasks, all pipe commands, stall errors, port pausing, resuming and losing its device, no rules | `TypeOK`, `IrpPlacement`, `ChannelHasIrp`, `PortLists`, `CommandExclusive`, `ResultsFinal`, `IsFifo` |
| `pipe_live` | 1 pipe, 3 IRPs, ABORT and RESET, no errors and no port commands, fair | `WokenInTime`, `CommandReturns`, `IrpsFinish` |
| `port_commands` | 1 pipe, 2 IRPs, all port commands, all bus faults | `PortTypeOK`, `EnabledHasDevice`, `IsPipeSpec` |
| `port_rules` | 2 pipes, all port commands, disconnections, rules `batch`, `quiet`, `turns`, `fresh`, `still` | `SuspendedIsQuiet`, `PauseCount`, `LossNotForgotten`, `LossEventsRecover`, `LossInvalidatesAll`, `QueuedIffActive`, `InvalidIsDrained`, `InvalidStays` |
| `port_live` | 1 pipe, 2 port tasks, all port commands, no faults, rules `turns`, `fresh`, fair | `PortReturns` |
| `xfer_pool` | 1 pipe shared by 2 clients, errors, loss, closing | `XferTypeOK`, `PoolSound`, `EventTaskNeverBlocks` |
| `xfer_live` | 2 pipes, a client each, errors, closing, fair | `DoneMeansCompleted`, `TransfersReturn` |
| `usbh_table` | 2 clients, 3 pipes, 2 connections, unplugging and port errors, rules `own`, `prompt`, `slow`, `alone` | `UsbhTypeOK`, `TableExact`, `OneControlPipe`, `AddressAgrees`, `ConnectedIsValid` |
| `config_request` | a control and a bulk pipe, 2 IRPs, 2 clients, 4 devices, stalls, loss and replacement of the device, fair; 1561 layouts of descriptors | `RequestsTypeOK`, `SlotIffInFlight`, `DirectionAgrees`, `IsControlTransfer`, `TransfersEnd`, `ParsedAsMeant`, `CutIsPrefix`, `HeapBalanced` |
| `pipe_in_flight_idle`, `usbh_addr_wait`, `xfer_shared` | see section 4 | one each, violated |

**Why the bounds are enough.** No action relates more than two IRPs of a pipe
to each other (one in flight, the next pending), so three IRPs fill all three
places at once and leave a queue of two. Two tasks suffice for one to wait
while the other acts; more tasks only repeat what the second one does, as only
one is ever inside a command of a pipe. Two pipes are needed where the lists or
the count of pausing pipes matter, and those runs have two; the others have
one, to afford more IRPs and commands. One error event suffices: the code
treats the three alike (the transfer layer treats a stall like a transfer
error). Endpoint characteristics have two values where an update is observed.
The pool of `XferLayer` has the two IRPs it has in the code, and the event
queue its ten places. In `UsbhDevice` two connections are one device and its
successor, which is all a stale entry, handle or event can be confused with;
three pipes are the control pipe and an endpoint for each of two clients. Pipes
are interchangeable in the specifications; the runs that use this symmetry
check no liveness.

In `config_request` the control pipe makes transfers with and without data, and the
bulk pipe the other kind of list; a third pipe would only repeat one of them. The
channel errors differ in the status they leave and in whether the event task resets
the pipe; the run has the stall, which does. (An overflow does not, see section 4;
the proofs of section 5 have all three.) A string has the full 256 bytes. The four
devices are a MIDI device with an association, alternatives and class specific
descriptors; one longer than 256 bytes, whose last endpoint is cut between its two
header bytes; a keyboard, whose HID descriptor the parser refuses; and one with its
interfaces in the reverse order, the second of them beyond the 256 bytes, with which
`ConfigOverruns` happens. The layouts are all sequences of up to four pieces out of
six (two interface numbers, an endpoint, class specific descriptors of both kinds,
an association) behind a configuration descriptor; the devices; and one that
promises an interface it does not have. Four pieces are enough for alternatives in
either order, for class specific descriptors on both sides of an endpoint, and for
an endpoint that ends an interface while another follows; the MIDI device fills the
pool beyond its first node. A layout is cut at every byte. The parser's properties
speak of the regular layouts (`Regular`), which a comment there describes.

**Fairness.** A task inside a driver function that can run does run: the tasks
of the stack block between calls, and FreeRTOS runs the others then. A channel
that executes ends its transfer, because the controller reports a completion or
an error (three retries). An interrupt that is raised is served. Delays end.
The application is not obliged to anything: it need not call anything, and a device need
not be plugged in. `port_live` relies on one more fact, part of `BusEnable`: a
device answers the end of a reset within the recovery delay or not at all.
`usbh_addr_wait` assumes the same of the tasks, of the interrupts of the port,
and of transfers, which end unless the loss of the device is noticed first
(`_intr_hdlr_chan` then ignores the channel, `hcd.c:632`, and only the
invalidation of the pipe ends the transfer). `config_request` has one
fairness condition for each pipe: its device answers or its transaction fails,
its interrupt is served, and if the device is lost the port task invalidates
it. It asks nothing of clients and of the event task.

## 4. What the code does differently

Three runs refute a statement of the code or its documentation, and are listed
in `PROJECT.json` as findings:

- `pipe_in_flight_idle`: `hcd_irp_dequeue` moves a pipe to the idle list with
  an IRP in flight. The next dequeue removes it from a list it is not in.
- `usbh_addr_wait`: `xesp_usb_set_addr_auto` waits for a transfer with
  `open_pipes_mutex` taken. When the device is unplugged meanwhile, the transfer
  ends when the port task invalidates the pipe; the port task waits for the
  mutex first. Neither ever goes on.
- `xfer_shared`: one event of a pipe is taken for one IRP. A reset retires IRPs
  without events, and closing an endpoint takes IRPs whose events are queued;
  afterwards results go to the wrong transfers, and a failed or cancelled
  transfer is reported as done.

The modules state more of what the code says of itself. Each of these is
refuted by the instance named (constants not mentioned are those of the run of
the same module with one pipe); they are kept as definitions, not as runs:

| definition | says | refuted with |
|---|---|---|
| `IdleHasNoIrps` | `hcd.c:918` "idle pipes ... don't have queue transfer" | SUSPENDED, rule `batch`: an IRP enqueued on a paused idle pipe is never started |
| `HaltedStartsNothing` | `hcd.h:59` "IRPs will no longer be executed" | stall, SUSPENDED, RESUMING: a resume starts the IRPs of a halted pipe |
| `SuspendedIsQuiet` | `hcd.c:989` "All pipes are guaranteed paused at this point" | CLEAR, stall, SUSPENDED: a clear starts a transfer on a suspended port |
| `SuspendedIsQuiet` | the same | rules of `port_rules`, two port tasks: a notification left over from a pipe command ends the wait for the pipes |
| `CommandReturns` | `hcd.h:413` commands block until the IRP is complete | ABORT, stall: the error path of `_intr_hdlr_chan` (`hcd.c:673`) wakes up nobody |
| `CommandReturns` | the same | RESET, SUSPENDED: a port pause takes the completion a pipe command waits for |
| `ChannelHalted` | `hcd.c:1337` `assert(chan_halted)` | RESET, RESETTING, loss: a stale notification ends the wait early |
| `WokenInTime` | `hcd.c:1337` and `hcd.c:1346`, the assertions of a command that was woken up | a loss; or SUSPENDED without the rule `turns`: a notification is left over from a wait that ended otherwise. `WakesInTime` says that these are the only ways |
| `UpdatedWhenEmpty` | `hcd.h:378` "All IRPs have been dequeued" | two addresses: a pipe is updated with an IRP in flight |
| `ResetIsQuiet` | `hcd.c:258` pause "before attempting to reset" | RESETTING: a bus reset neither pauses nor invalidates |
| `IrpPlacement` | `hcd.c:1800` "Check that IRP has not already been enqueued" | two tasks that enqueue one IRP on two pipes: the check is outside of the critical section |
| `PortReturns` | `hcd.h:261` returns `ESP_ERR_INVALID_RESPONSE` after a disconnect | SUSPEND, unplug: nobody wakes the task |
| `LossInvalidatesAll` | `hcd.c:248` "Each pipe will be put into the invalid state" | two pipes, unplug, no rule: a dequeue during the walk cuts it short |
| `LossNotForgotten` | `hcd.h:78` each event should be handled | unplug, error: the second event overwrites the first |
| `CanRecover` | `hcd.h:317` conditions of a recovery | SUSPEND, unplug: flags of the interrupted pause stay set |
| `DisconnectedIsPowered` | `hcd.h:41` "powered but no device" | POWER_OFF before a disconnection is handled |
| `LossEventsRecover` | `hcd.h:84` "Port is now HCD_PORT_STATE_RECOVERY" | error: the port is DISABLED, or NOT_POWERED after an overcurrent. It holds where only disconnections happen (`port_rules`) |
| `SomebodyWaits` | `hcd.c:499` a task must be waiting | DISABLE, unplug, error, two port tasks: `disable_requested` is left over |
| `MutexGivenBack` | `xesp_usbh.c:653` the mutex serialises the assignment | 1 client, unplug: the device was closed before `xesp_usb_set_addr_auto`, which returns with the mutex taken |
| `AllOpen` | `xesp_usbh.h:24` "all threads will open the connected device" | 2 clients, no faults: the first of two waiting clients clears the bit |
| `NotSkipped` | `xesp_usbh.h:28` "which connection events you have already been informed of" | 1 client, unplug: the counter is read after the mutex was given back |
| `PortTaskReturns` | the port task serves its queue | 1 client, unplug: the deadlock of `usbh_addr_wait` |
| `TableExact` | `xesp_usbh.c:53` "all the currently open pipes" | without rule `own`, unplug: a client closes a pipe that is being opened for the next device |
| `AddressAgrees` | `xesp_usbh.c:36` "usb device address" | without `prompt`, unplug: an endpoint is opened with the address of the former device |
| `AddressAgrees` | the same | 1 client, failing transfers: after a `SET_ADDRESS` that failed the pipe has the new address and the entry none; with 2 clients an endpoint may also be opened with an address that is then withdrawn |
| `AddressAgrees` | the same | 2 clients, without `alone`: a transfer of the other client is pending on the control pipe when `SET_ADDRESS` returns, `hcd_pipe_update` refuses, which is only logged (`xesp_usbh.c:693`): the device and the entry have the address, the pipe has not |
| `OneControlPipe` | `xesp_usbh.c:40` "is the main control endpoint (EP0)", one per port | without `slow`, unplug and port errors: an error overwritten by a disconnection leaves a transfer waiting, its pipe is not closed, and the next device gets a second control pipe |

In the rows of `TableExact`, `AddressAgrees` and `OneControlPipe` the run
`usbh_table` differs as named.

More that was met while modelling, and that needs no run to be seen:

- After a `DISCONNECTION` event the port is powered off, and nothing powers it on
  again.
- `xesp_usbh_get_config_descriptor` returns `XUSB_OK` after a transfer that failed,
  leaving the caller's pointer as it was, and after a parse that failed
  (`xesp_usbh.c:560`), although `xesp_usbh.h:52` says that this value means success.
  `main.c:135` passes an uninitialised pointer and uses it on success. The function
  also ignores `config_idx`: line 539 asks for index 1.
- After an overflow `pipe_event_task` does not reset the pipe
  (`xesp_usbh_xfer.c:114`): it stays halted, and requests pending behind the failed
  one wait until something else resets it.
- The class specific bytes behind the last descriptor are copied with the length the
  descriptor states, also when fewer bytes came: `extras` may then hold bytes behind
  the received ones.
- The parser refuses an interface with a class descriptor other than `CS_INTERFACE`
  before its endpoints, as HID devices have. Interface numbers with a gap are
  compared with positions, so that an interface is lost.
- `alternate_counts` has an element for each interface descriptor that came, and is
  indexed by interface numbers without a test (`xesp_usbh_parse.c:266`). A number
  beyond the array is written behind it: of a device that numbers its interfaces
  with gaps, or of one that sends them out of order and whose configuration is cut
  at 256 bytes (`ConfigOverruns` of `config_request`). `CutIsPrefix` says that the
  order of the numbers is enough to be safe.
- A `bLength` of 0 makes the loops of the parser spin; `RequestsAssumption` excludes
  it.
- A string of fewer than two bytes would get a length of 65534 or 65535
  (`xesp_usbh.c:591`); `RequestsAssumption` excludes it. (The other end is no
  problem: 254 fits the `uint8_t` of `utf16_to_utf8`.)
- `main.c` frees neither `data_buff` nor the MIDI configuration when it opens the
  device again.
- `hcd_install` notices that the port could not be allocated and goes on
  (`hcd.c:798`).

## 5. What is proved

Every theorem is about the specifications TLC checks, for every value of their
constants that satisfies the named assumptions. Where a theorem needs more, a
rule or a restriction, that is a hypothesis in its statement.

### Pipes

`HcdPipeProofs`: for every set of pipes, IRPs and tasks, every choice of
commands, errors and port states, with or without rules.

| theorem | states |
|---|---|
| `TypeCorrect` | `PipeSpec => []TypeOK` |
| `ChannelsHaveIrps` | `PipeSpec => []ChannelHasIrp`: the interrupt never finds a NULL in-flight IRP |
| `ListsCorrect` | `PipeSpec => []PortLists`: every allocated pipe is in the lists once |
| `CommandsExclusive` | `PipeSpec => []CommandExclusive`: one task inside a command of a pipe |
| `Invariant` | `PipeSpec => []IInv`, from which the first three follow |

They assume `NullAssumption` (the NULL pointers are no objects) and
`ParameterAssumption` (the ranges of the constants), and nothing of the
clients.

**The argument.** None of the three invariants is inductive alone. *Types:*
`TakeNext` writes `Head(pending)` and `ReturnCurIrp` appends `inflight` to
`done`, so the types need that a channel which ends a transfer has an IRP in
flight (`ChannelHasIrp`), that an aborted IRP is in the pending queue of the
pipe it names (`PendingPlaced`), and that a counter about to be decremented is
positive (part of `RestInv`). *`ChannelHasIrp`* needs that the pipes which an
unpause starts are allocated (`Lists`), and that a pipe is freed only when its
queues are empty. *`Lists`* needs that the walks visit allocated pipes, that a
freed pipe has given its IRPs back (`FreeIsEmpty`), and that a pipe without
IRPs is in the idle list, from which `hcd_irp_enqueue` and `hcd_pipe_free`
remove it. `IInv` is their conjunction; `PortLists` speaks of lengths, which
follow from `Distinct` by counting. `CommandExclusive` is proved separately,
with the types as a fact, because only the steps of commands touch it.

Most actions change one pipe. `OnePipe` says once what such a step has to show
(the pipe stays of its kind, the pending IRPs stay in place, a running channel
keeps an IRP), `NoPipeChange` and `FlagChange` treat the rest, and each action
then has one lemma that shows what it does to its pipe. The lemmas on queue
operations (`TakeNextOk`, `RetireOk`, ...) rest on facts on sequences
(`AppendElems`, `HeadTailElems`, `WithoutElems`). Only `UnpauseAll`, the pause
and the invalidation change several pipes or walk over them.

`HcdPipeFifo`: where the IRPs are.

| theorem | states |
|---|---|
| `PlacementKept` | `OwnedIrps`: `PipeSpec => []IrpPlacement`: every IRP is in one place of one pipe |
| `FinalResults` | `OwnedIrps`: `PipeSpec => ResultsFinal` |
| `PipesAreFifos` | `OwnedIrps`: `PipeSpec => IsFifo`: the pipes implement `IrpFifo` |
| `OwnersKeepPlacement`, `OwnersGetFinalResults`, `OwnersHaveFifos` | the same from `[]OneOwner` |

`hcd_irp_enqueue` checks an IRP before it enters the critical section, so two
tasks that enqueue one IRP break all three (section 4 has the run). `OneOwner`
says that no two tasks are between the check and the critical section with one
IRP. `OwnedIrps` is the condition on the clients that implies it: no IRP is
submitted by two tasks. The instance of `pipe_faults` satisfies it, the transfer
layer does not: there every client can take every IRP, and ownership comes from
the pool. The three theorems on `XferLayer` below have no such hypothesis.

**The argument.** The invariant is `IrpPlacement` with `IInv`. A pipe's queue,
as a client sees it, is `done`, then in flight, then pending. Almost every step
leaves that queue as it is and only moves the borders in it. `Moves` says so of
one pipe: the queue stays, `ndone` does not shrink, finished results stay, no IRP
in flight becomes cancelled. Each operation on a pipe object (take the
next IRP, return the current one, retire) is shown to move it, and moves
compose. So a handler, which is a composition of such operations, needs no
case analysis, and its step is a finish or a stutter of `IrpFifo`.
What is left are the steps that add an IRP, cancel one, and take one out.

The second part of `HcdPipeProofs`: what clients gain that follow the rules `batch` and `quiet`
(`ClientRules`, a hypothesis on the constant `Rules`).

| theorem | states |
|---|---|
| `ListsExact` | `PipeSpec => []QueuedIffActive` |
| `InvalidDrained` | `PipeSpec => []InvalidIsDrained` |
| `InvalidForGood` | `PipeSpec => InvalidStays` |

**The argument.** Without the rules a pipe can be in the idle list with an IRP in
flight (`pipe_in_flight_idle`). `RuleInv` says that a pipe outside of the active
list has no IRP, that an invalid pipe is drained, and that the walk over the
idle list stands at a pipe it has invalidated. It relates a pipe to the lists,
to its channel and to the walk, but no two pipes to each other, so each step
only has to treat a single pipe well (`TreatedWell`).

The third part of `HcdPipeProofs`: a command that waits is woken up in time.

| theorem | hypotheses | states |
|---|---|---|
| `WakesInTime` | `DeviceStays`, `TurnsTaken` | `PipeSpec => []WokenInTime`: a command that was woken up finds nothing in flight and its channel halted |

`DeviceStays` says that the port loses no device, `TurnsTaken` that port commands
that pause the pipes take turns with pipe commands (rule `turns`), or that there
are none. TLC refutes `WokenInTime` without either (section 4). Transfers
may fail, and nothing is asked of the clients. That every command is woken up
at all is liveness (`CommandReturns`).

**The argument.** `pipe_cmd_processing` keeps others off the pipe while a command
waits, but the notification is the task's and not the pipe's: it could stem from an
earlier wait, for another pipe or for the port. `WaitInv` says that it does not. A
command with a notification, or woken up by one, has nothing in flight on its pipe
(`AnswerIsFinal`); only a task that waits is notified, and it takes the notification
along (`OneNotification`, `PortWaits`); while a port command has the port in hand no
pipe command is under way (`OneTurn`); and nothing is walked over (`Connected`). The
step that could break it is one that starts a transfer, and all of those (an
enqueue, a clear, a resumed port, the next IRP after an interrupt) find either the
flag of the command or a port that is not theirs to use.

### Port

`HcdPortProofs`: the port of `hcd.c` in place of the environment, for every set
of pipes, IRPs and tasks, all port commands and all bus faults.

| theorem | states |
|---|---|
| `PortSimulates` | `Spec => IsPipeSpec`: the port does nothing that `HcdPipe` does not allow its port |
| `PipesBelowPort`, `IrpsBelowPort` | so the results on pipes hold below this port (those on IRPs with `OwnedIrps`) |
| `PortTypeCorrect` | `Spec => []PortTypeOK` |
| `EnabledPortHasDevice` | `Spec => []EnabledHasDevice`: an enabled, suspended or resuming port has its device |
| `PortInvariant` | `Spec => []PortInv`, from which the others follow |

They assume `PortAssumption` and `EnvironmentAssumption` (the environment of
`HcdPipe` may put the port into each state that `hcd.c` puts it into).

**The argument.** A step of the port is one of `HcdPipe`'s environment only
if the port waits for its pipes and walks over them inside a port function, so
the simulation needs `PlaceInv`: where the holder of `port_mux` may be while a
task waits for the port, or while a walk is on. `EnabledHasDevice` is not
inductive, because an interrupt that says "enabled" would make it false after a
disconnection, and a debounce that ends would, if the device were enabled.
`BusInv` says that neither can be: such an interrupt comes in the recovery time of a
reset, no reset and no enabled port has an unhandled connection event, and
whatever is on the bus was reported or is about to be.

The second half of `HcdPortProofs`: a device is lost.

| theorem | hypothesis | states |
|---|---|---|
| `LossInvalidates` | rule `still` | `Spec => LossInvalidatesAll`: the walk misses no pipe |
| `LossRecovers` | `Unplugs` | `Spec => []LossEventsRecover` |
| `LossRemembered` | `Unplugs`, rules `still`, `turns`, `fresh` | `Spec => []LossNotForgotten` |
| `RulesBelowPort` | rules `batch`, `quiet` | `ListsExact`, `InvalidDrained`, `InvalidForGood` below this port |

`Unplugs` says that the one thing that goes wrong on the bus is that a device is
unplugged: an error after it overwrites the event slot (section 4). Each
hypothesis was left out where the proof did not need it; TLC refutes the
properties without the rest (section 4).

**The argument.** *`LossInvalidates`:* the walk keeps a cursor over a list that
others may change, as it leaves the critical section for each pipe. `WalkInv`
says that the pipes up to the cursor are invalid (`Walked`), and all of the
active list once the walk is in the idle list. It is kept because a pipe without
a device never becomes valid (`Gone`, shown for the steps of `HcdPipe`), and
because with `still` no step but the walk's own changes the lists: what else
moves a pipe needs an enabled port. *`LossRemembered`:* a disconnection fills the
event slot, and `UnplugInv` says that nothing overwrites it before it is
handled: the port stays in the recovery state, the debounce lock is closed, and
an interrupt that disables the port was asked for by a reset or a disable
command. `RememberInv` adds what the port functions have to keep: a reset is
only begun without pipes (`fresh`, `turns`), and one that waits for the port to be
disabled finds it so, or finds the loss reported.

The third part: a port command pauses the pipes.

| theorem | hypothesis | states |
|---|---|---|
| `SuspendedQuiet` | `OnePortTask`, rules `batch`, `quiet`, `turns` | `Spec => []SuspendedIsQuiet`: a suspended port executes nothing |
| `PauseCounted` | these, rule `fresh`, no error events | `Spec => []PauseCount`: a waiting port command counts the pipes that will report |
| `PauseInvariant` | as `SuspendedQuiet` | `Spec => []PauseInv`, on which both rest |

`OnePortTask` says that one task calls the port functions, as `port_event_task`
does once `port_setup` has initialised and powered the port; any task may command pipes. With
two such tasks one can be in a pipe command, woken up by its transfer, when the other's walk
notifies it again; a task has one notification for all its waits, and the one
left over ends its next pause at once. TLC refutes both properties for two port tasks,
and without `turns`; it refutes `SuspendedIsQuiet` without `batch` or `quiet`;
and `PauseCount` without `fresh` (HALT, port errors), and with a stall: the error path of
`_intr_hdlr_chan` neither clears `waiting_xfer_done` nor notifies (a listed
hazard), so the count names a pipe that will never report. `SuspendedQuiet`
holds even so, because the command then never returns. (That `PauseCounted` has
`batch` and `quiet` is due to `PauseInv`; TLC found no counterexample without
them.)

**The argument.** *`SuspendedQuiet`:* the port is suspended in a step long after the
pipes were paused. `NoteInv` says that until then the task can only have been
notified for this wait: a pipe command or port command that waits is notified at
most once, after what it waits for has happened, and takes its notification along
before it returns. `PipesPause` says that meanwhile no pipe starts a transfer (each
active pipe is paused or has an IRP in flight, and no pipe command is under way),
and that the channels still executing are waited for and not more than the count, so
that none is left when the count is 0; that needs `turns`. `InsideInv` says that the
task in a port function is in no pipe function. *`PauseCounted`:* the flag
`waiting_xfer_done` of a pipe serves pipe commands and port commands alike.
`CountInv` says that a pipe which waits has a transfer in flight, on an executing
channel if the device is there, and that it waits for its own command (`cmd`) or for
the port, whose count is the number of such pipes. An interrupt of one pipe takes
exactly that pipe out of the set (`Relaxed`), and all other steps leave the set
alone (`Like`). When the walk over the pipes invalidates them, no port command is
waiting, because the walk belongs to the one task.

### Transfers

`XferDescProofs`, `RequestsProofs`: for every set
of pipes of either type, IRPs, setup packets, sizes, channel errors, clients and
devices.

| theorem | states |
|---|---|
| `XferTypes` | `XferSpec => []XferDescTypeOK` |
| `XferInvariant` | `XferSpec => []XferInv`, from which the next two follow |
| `SlotTheorem` | `XferSpec => []SlotIffInFlight` |
| `DirectionTheorem` | `XferSpec => []DirectionAgrees` |
| `DescriptorsImplementTransfers` | `XferSpec => IsControlTransfer`: the refinement |
| `RequestsImplementXfer` | `RequestsSpec => XferSpec`: the composition |
| `RequestsUseSlots` | `RequestsSpec => [](SlotIffInFlight /\ DirectionAgrees)` |
| `RequestsAreTransfers` | `RequestsSpec => IsControlTransfer` |
| `RequestsInvariant` | `RequestsSpec => [](XferInv /\ NamesOK /\ RequestsInv)`, for the next two |
| `RequestsTypes` | `RequestsSpec => []RequestsTypeOK` |
| `HeapIsBalanced` | `RequestsSpec => []HeapBalanced`: no block leaks, none is freed twice, until a merge overruns its array |
| `ParserIsRight` | `RequestsSpec => []ParsedAsMeant`: what came whole is parsed as it is meant |
| `CutParserIsRight` | `RequestsSpec => []CutIsPrefix`: what was cut gives nothing, or prefixes, and overruns nothing if the interfaces come in order |

They assume `XferDescAssumption` (pipes, IRPs and their types), and those on
`Requests` also `RequestsAssumption` (what clients ask, that there are finitely
many, that a configuration begins with its own descriptor, that descriptors are long
enough to be skipped, and that `Layouts` are `WellFormed`). The last two rest on
`AsMeantHolds` and `AsPrefixHolds` of `ConfigParseProofs`, which say the same of any
one configuration that is `WellFormed` and `Regular`, of any length and with any
number of interfaces.

**The argument.** `SlotIffInFlight` and `DirectionAgrees` are not inductive: the
direction of the next stage is computed from two flags that an earlier step wrote,
and the list was filled from an IRP that nothing may have touched since. `XferInv`
is a conjunction over the pipes. *`Owns`* says that the IRPs in a pipe's three
places are its own, each once, with the flag of its place, so that no step for
another pipe or IRP disturbs the transfer. *`Agree`* says that the setup packet and
`num_bytes` of its IRPs agree on whether there are data. *`Runnable`* says of a pipe
with a transfer (`Busy`) that flags and list are those that `_xfer_desc_list_fill`
makes of the IRP in flight (`LaidControl`, `LaidBulk`), that what the device has
seen are the stages before the channel's position, that the bytes which moved are
those the list lacks, and that the direction and PID of an executing channel are
those of its next stage (`PlacedControl`, `PlacedBulk`); and of one without
(`Resting`) that its channel has nothing. A step changes one pipe (`OnePipe`) and
leaves the others as they are (`Frame`); each action then has one lemma. The
refinement has one step per action, from the invariant: `ChanRun` is the next stage,
the starts and ends of transfers are `Begin`, `IntrDone` may report a result because
at the end of the list the stages seen are the whole plan, and everything else
leaves the abstract state alone.

`XferNext` allows a request only if setup packet and IRP agree (`Fits`). In the
composition that is a fact and not an assumption: each `Ask` fits by the
definitions of `SetupOf` and `NumBytes`, and `NamesOK` (a client waits for an
IRP, events and resets are of a pipe) gives the other steps their objects: each
is one of `XferDesc`, or leaves its variables alone.

*The heap.* `ParseConfig` says how many blocks a configuration holds, counted at
each allocation, and `Freed` how many `malloc_pool_free_all_ptrs` finds when it
walks the nodes. That they are the same (`ParseFrees`), for every sequence of
descriptors, every number of bytes received and every byte behind them, is an
induction over the loops of the parser: after each turn the pool is one of
`Pools` (its nodes are counts, and their sum is the number of blocks,
`ParserState`), or the parser has given up, and `malloc_pool` keeps `Pools`
whether it opens a node or not (`MallocIn`). The induction theorems of the
library take an operator; `NumbersIn` has a set in its place, proved from
`WFMin`, and "the recursive function up to `k` exists" is a set of numbers. The
sum over the clients is an induction over the sizes of their sets in the same
way (`HeldChanges`: the sum changes by as much as one client's part).
`RequestsInv` then says that a client has something to free only after its
request has returned, that no two clients wait for the same IRP, and that the
heap is that sum.

*The parser* (`ConfigParseProofs`). It goes by offsets, `Meaning` by the order of
the descriptors. `Reads` is the bridge: an offset that is the start of
descriptor `k` (`Starts`, `StartOnce`) reads `k`'s length, and `k`'s type if both
bytes of its header came (`Arrived`). Each loop is followed by induction over
its turns: skipping ends at the start of some later descriptor, at the end of
the data or before one of another type (`SkipIs`, `BehindIs`), the endpoint loop
has found the endpoints it passed, in order (`EndpointsAre`), the outer one the
interfaces (`InterfacesAre`). A set of numbers in ascending order is `Nth`.
Merging picks from the interfaces found those of one number, and the n-th of
them is the n-th found with that number (`NthOfPlaces`), so `MergedAs` speaks of
descriptors and no longer of positions in an array.
*Cut anywhere:* what arrived is an initial segment, the n-th of an initial
segment is the n-th of the whole (`NthInitial`), and so the alternatives and
endpoints found are prefixes (`AlternativesBegin`, `EndpointsBegin`). A type byte
that was not received needs no case of its own: every descriptor the parser
keeps is longer than what is left there. `MergedAs` speaks of runs that
stay within `alternate_counts`. If the interfaces come in the order of their
numbers (`InOrder`), so do those that arrived: below the greatest number that came there is
one of each, hence more interfaces than that number, and nothing is overrun.
*Whole:* the parser must not give up. Between an interface and its last endpoint
there is nothing that it would not pass (`Regular`), so as long as an endpoint
is left, the parser stands at one (`Ready`); it has found as many as turns went
by (`Counted`), hence all when it stops. `CountIs` shows by the same induction
that `config_interface_count` counts the interfaces found.

### Device layer

`UsbhDeviceProofs`: for every number of clients, pipes, slots and connections,
every length of the event queue, with all bus faults but where a hypothesis
says otherwise.

| theorem | hypothesis | states |
|---|---|---|
| `DeviceTypeCorrect` | none | `UsbhSpec => []UsbhTypeOK` |
| `TableIsExact` | rule `own` | `UsbhSpec => []TableExact` |
| `PhaseKept` | rule `slow` | `UsbhSpec => []PhaseInv`: one port event at a time |
| `ControlPipeIsOne` | rule `slow` | `UsbhSpec => []OneControlPipe` |
| `ConnectedPipesValid` | rules `own`, `prompt`, `slow` | `UsbhSpec => []ConnectedIsValid` |
| `OneAssigns` | none | `UsbhSpec => []HolderInv`: who assigns an address holds the mutex and a control entry with the new address |
| `AddressesAgree` | all four rules, transfers fail only with their device | `UsbhSpec => []AddressAgrees` |

They assume `UsbhAssumption` (finitely many pipes, not more than slots; bounds
are positive). Each hypothesis is one that TLC refutes the property
without (section 4); `ConnectedIsValid` is refuted with `slow` alone and with
`slow` and `own`.

**The argument.** *Types:* `num_opened` stays a number of a connection only because
the connections that are queued, being handled and counted never exceed those that
happened (`Counted`). *`TableExact`* is about steps of different tasks: a pipe is
allocated, entered, freed and cleared in separate steps. `TableInv` gives each
allocated pipe exactly one place: a slot, the port task or one client, and says that
no client keeps an endpoint that is not in the table. *`PhaseInv`* says where the
one event slot, the queue and the event in the port task's hands may be, together
with what the port knows of the bus; with it the remaining theorems need no case
analysis over late events. *`OneControlPipe`* follows from when a control pipe may
be open (`MayHavePipes`): while its device is there, or its loss is not handled yet;
the port task enters one only when there is none (`ControlInv`).
*`ConnectedIsValid`:* closing a device gives up at a pipe that still has IRPs.
`ClosedInv` says that nothing of a lost device is left, in the driver or in the
hands of a client that opens an endpoint, when the port recovers, and that otherwise
`MayHavePipes`. It holds because the pipes are invalid when the device is closed,
which ended their transfers, so that closing does not give up. *`AddressAgrees`:*
the device takes its address when the transfer succeeds, the entry has it before and
the pipe after, and other clients open endpoints meanwhile. `Settled` says that all
agree, `Changing` how far an assignment has come; one always holds, and `HolderInv`
says that the mutex keeps the table as the assigning client found it. `ControlInv`
is needed too, as the assignment takes the first control entry it finds.

### Transfer layer

`XferLayerProofs`: for every number of clients, pipes and IRPs, every length of
the event queue, all commands, errors and bus faults. The tasks of the layer run
over the driver of `HcdPipe`, and not over a promise of it.

| theorem | hypothesis | states |
|---|---|---|
| `LayerInvariant` | none | `XferSpec => []LayerInv`, which the others rest on |
| `XferTypeCorrect` | none | `XferSpec => []XferTypeOK` |
| `PoolIsSound` | none | `XferSpec => []PoolSound`: pool, semaphore and clients agree on who has which IRP |
| `PoolKeepsPlacement` | none | `XferSpec => []IrpPlacement` |
| `PoolKeepsFifos` | none | `XferSpec => IsFifo` |
| `PoolKeepsResults` | none | `XferSpec => ResultsFinal` |
| `EventTaskRuns` | none | `XferSpec => []EventTaskNeverBlocks`: the event task resets no pipe with a transfer in flight |
| `DoneIsCompleted` | `PipesApart` | `XferSpec => []DoneMeansCompleted`: `XUSB_OK` means that the transfer was completed |

They assume `XferAssumption` (the tasks are different, each client may submit
every IRP, the clients and the IRPs are finitely many and there is an IRP) besides
the assumptions on pipes. `PipesApart` says that no two clients transfer on one
pipe. Without it TLC refutes the property (`xfer_shared`, section 4); the
instance of `xfer_live` satisfies it.

**The argument.** *Ownership.* `HcdPipeFifo` proves what it says of one step from
`OneOwner`, which is here a consequence: `OwnInv` says that the free list and
the clients' IRPs are all IRPs, each once, and `CallInv` that a task inside
`hcd_irp_enqueue` is a client at that place with its own IRP. `UseInv` closes the
circle: an IRP that is in a pipe, in the hands of the event task or has event
bits has a client which waits for it, so what goes back to the pool is used
nowhere. `CountInv` relates the free list to the semaphore, which is taken before and
given after it.

*The event task.* A reset of a pipe with a transfer in flight would block the
one task that ends transfers. It resets after failures only, and a failure leaves
its pipe halted or invalid; but the event is handled long after the failure, when
the pipe may have been cleared and started again. `HaltInv` says that it cannot have been
started: a valid pipe that is not halted has no failure in the queue or in the
task's hands, a halted one has at most one and nothing in flight, and it leaves
the halted state only by that one's reset. A pipe is invalid only while there is no device,
so the walk of the port task, which sends an event per pipe, meets no pipe that
counts as running.

*Results.* An event names a pipe and not an IRP: the task takes the first result
of that pipe, sets the event's bits for it, and the client reads the status from
the IRP. The three agree because, with `PipesApart`, a pipe has one
transfer at a time (`UsesInv`: an IRP is in a pipe of its own client, and the
client waits). `ReportInv` says that a pipe has at most one report of a
completion, in the queue or in the task's hands, that it comes before every
failure of the pipe, and that it finds a completed IRP, or none (`Answered`: a
close took it first, or the pipe was freed). `StatusInv` carries that on to
the bits: where they are those of a completion, the status is.

### Model-checked only

Liveness only (`CommandReturns`, `IrpsFinish`, `PortReturns`, `TransfersReturn`,
`TransfersEnd`): under fairness it is out of the prover's reach. Every other
property of a passing run is a theorem.

## 6. What is not modelled

- *Installation* (`hcd_install`, `hcd_uninstall`): once, before everything else.
- *Isochronous and interrupt transfers*: the driver has none.
- *Of the device layer*: maximum packet sizes; a second port (the table has a
  port per entry, and the program uses one); what the application does with
  descriptors; more than one endpoint per client.
- *Of the parser*: the bytes of a descriptor beyond its header and its counters;
  descriptors with a length of 0 or 1 (see `RequestsAssumption`); what the program
  does after its parser wrote behind `alternate_counts` (`ConfigOverruns`).
- *Printing, example, hardware tests*: no state of the system.
- *Data*: addresses, packet sizes and payloads, except for the fact that an
  endpoint's characteristics change; return codes, except where a caller acts
  on them; memory allocation failures.
- *Weak spots of the abstraction.* In `HcdPipe` and the modules on it objects have
  names and not addresses, so a freed pipe is not confused with a new one at the
  same address (`UsbhDevice` has reused handles). The callback
  of an interrupt is atomic with it. `_internal_pipe_event_notify` reads the
  waiting task and notifies it in one step. `XferDesc` has no blocking pipe
  command and no pause of the port (`HcdPipe` has them): its `Reset` is the end of
  the command, with the transfer in flight over. `Requests` serves a loss
  only after the queue of pipe events is empty, when it opens the next device's
  pipes.

**Plan.** `Requests` over `XferLayer` in place of its joined steps, if the product
stays small enough.
