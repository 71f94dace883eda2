----------------------------- MODULE UsbhDevice -----------------------------
(***************************************************************************)
(* The device layer (main/xesp_usbh.c) and the port event task             *)
(* (main/xesp_usbh_port.c): the table of open pipes and its mutex, the     *)
(* reaction to port events, opening a device, assigning its address,       *)
(* opening and closing endpoints.                                          *)
(*                                                                         *)
(* The layers below are reduced to what this one sees of them (HcdPipe,    *)
(* HcdPort and XferLayer say more): a pipe is free, active or invalid and  *)
(* has an address; a transfer ends, with a result; port events are kept in *)
(* one slot and announced through a queue.  One action is what a task does *)
(* between two points at which other tasks can intervene to any effect.    *)
(***************************************************************************)
EXTENDS Naturals, Sequences, FiniteSets, FiniteSetsExt

CONSTANTS
    Clients,        \* the tasks of the application
    PortTask,       \* port_event_task
    Pipes,          \* the handles of pipes; there are as many as channels
    NoPipe, NoTask, \* NULL
    MAX_PIPES,      \* XESP_USBH_MAX_PIPES
    MaxConnections, \* bound: how many connections the bus reports
    QueueLen,       \* PORT_EVENT_QUEUE_LEN
    Faults,         \* what goes wrong: "unplug", "bus", "transfer"
    Rules           \* rules the clients and the bus keep: see Keeps

ASSUME UsbhAssumption ==
    /\ PortTask \notin Clients /\ NoTask \notin Clients \cup {PortTask}
    /\ NoPipe \notin Pipes
    /\ IsFiniteSet(Pipes) /\ MAX_PIPES \in Nat \ {0} /\ Cardinality(Pipes) <= MAX_PIPES
    /\ MaxConnections \in Nat \ {0} /\ QueueLen \in Nat \ {0}
    /\ Faults \subseteq {"unplug", "bus", "transfer"}
    /\ Rules \subseteq {"own", "prompt", "slow", "alone"}

VARIABLES
    open_pipes,     \* the table
    num_opened,     \* num_ctlr_pipes_opened
    connect,        \* the bit of connect_xEvent
    mutex,          \* the holder of open_pipes_mutex
    hcd,            \* the port, its event slot, and the state of each pipe
    bus,            \* the device on the bus
    portq,          \* port_evt_queue
    ptask,          \* where port_event_task is
    client          \* where each client is, and the handles it keeps

usbhVars == <<open_pipes, num_opened, connect, mutex, hcd, bus, portq, ptask, client>>

Slots == 1 .. MAX_PIPES
Addrs == 0 .. MAX_PIPES - 1

PortEvents == {"CONNECTION", "DISCONNECTION", "ERROR", "SUDDEN_DISCONN"}
PortStates == {"NOT_POWERED", "DISCONNECTED", "DISABLED", "RESETTING", "ENABLED", "RECOVERY"}

\* An entry is free when its port is NULL; port and pipe are set and cleared together.
Entry == [pipe : Pipes \cup {NoPipe}, nth_open : 0 .. MaxConnections,
          is_control : BOOLEAN, addr : Addrs]
Empty == [pipe |-> NoPipe, nth_open |-> 0, is_control |-> FALSE, addr |-> 0]

HcdRecord ==
    [state : PortStates, conn : BOOLEAN, event : PortEvents \cup {"NONE"},
     powered : BOOLEAN, seen : BOOLEAN, lock : BOOLEAN,
     pipe : [Pipes -> [state : {"FREE", "ACTIVE", "INVALID"}, addr : Addrs]]]

ClientPlaces ==
    {"open", "wait", "blocked", "search", "found", "ready", "xfer", "desc", "desc_lock", "desc_addr",
     "addr_lock", "addr_start", "addr", "addr_update", "ep_alloc", "ep_reg", "stopped"}

Handle == Pipes \cup {NoPipe}

TaskRecord ==
    [at : {"idle", "find", "handle", "reset", "sudden", "lookup", "alloc", "register",
           "connect", "close", "recover", "on", "off", "stopped"},
     event : PortEvents \cup {"NONE"}, control : Handle, state : PortStates, pipe : Handle]

ClientRecord ==
    [at : ClientPlaces, idx : 0 .. MaxConnections, ctrl : Handle, ep : Handle, on : Handle,
     slot : Slots \cup {0}, addr : Addrs, result : {"none", "busy", "ok", "error"}]

UsbhTypeOK ==
    /\ open_pipes \in [Slots -> Entry]
    /\ num_opened \in 0 .. MaxConnections
    /\ connect \in BOOLEAN
    /\ mutex \in Clients \cup {PortTask, NoTask}
    /\ hcd \in HcdRecord
    /\ bus \in [attached : BOOLEAN, addr : Addrs, count : 0 .. MaxConnections]
    /\ portq \in Seq(PortEvents)
    /\ ptask \in TaskRecord
    /\ client \in [Clients -> ClientRecord]

Idle == [at |-> "idle", event |-> "NONE", control |-> NoPipe, state |-> "NOT_POWERED",
         pipe |-> NoPipe]
NewClient == [at |-> "open", idx |-> 0, ctrl |-> NoPipe, ep |-> NoPipe, on |-> NoPipe,
              slot |-> 0, addr |-> 0, result |-> "none"]

\* What xesp_usbh_port_setup leaves: the port is powered, no event was handled.
PoweredPort == [state |-> "DISCONNECTED", conn |-> FALSE, event |-> "NONE",
                powered |-> TRUE, seen |-> FALSE, lock |-> FALSE,
                pipe |-> [p \in Pipes |-> [state |-> "FREE", addr |-> 0]]]

\* xesp_usbh_init has run, and a device is plugged in.
UsbhInit ==
    /\ open_pipes = [i \in Slots |-> Empty]
    /\ num_opened = 0 /\ connect = FALSE /\ mutex = NoTask
    /\ hcd = PoweredPort
    /\ bus = [attached |-> TRUE, addr |-> 0, count |-> 0]
    /\ portq = <<>> /\ ptask = Idle
    /\ client = [t \in Clients |-> NewClient]

\* Rules no interface states.  "own": a client never uses a handle after its pipe was freed,
\* whoever freed it.  "prompt": no device is closed while a client opens an endpoint.  "slow":
\* the bus does not change before the port has handled the last event.  "alone": a client has
\* the control pipe to itself while it assigns the address.
Keeps(rule, holds) == rule \in Rules => holds

-----------------------------------------------------------------------------
(* The table *)

Used == {i \in Slots : open_pipes[i].pipe # NoPipe}
FreeSlots == Slots \ Used
ControlSlots == {i \in Used : open_pipes[i].is_control}

\* new_xesp_usbh_get_pipe_info: the first entry with that handle.  The entry of a NULL
\* handle is the first free one.
InfoOf(p) == {i \in Slots : open_pipes[i].pipe = p}

Freed(p) == hcd.pipe[p].state = "FREE"
Unlocked == mutex = NoTask

\* The step of a task that uses a NULL pointer or freed memory: the program stops.
PortStops == ptask' = [ptask EXCEPT !.at = "stopped"]
Stops(t) == client' = [client EXCEPT ![t].at = "stopped"]
Running == ptask.at # "stopped" /\ \A t \in Clients : client[t].at # "stopped"

PortGoes(place) == ptask' = [ptask EXCEPT !.at = place]
Goes(t, place) == client' = [client EXCEPT ![t].at = place]

TableUnchanged == UNCHANGED <<open_pipes, num_opened, connect, mutex>>
BelowUnchanged == UNCHANGED <<hcd, bus, portq>>

-----------------------------------------------------------------------------
(* The pipes below *)

\* The clients that wait for a transfer on a pipe.
Waiting(p) == {t \in Clients : client[t].result = "busy" /\ client[t].on = p}

\* hcd_pipe_alloc: the device is enabled, and there is a channel left.
CanAlloc == hcd.conn /\ \E p \in Pipes : Freed(p)
NewPipe(p, a) == hcd' = [hcd EXCEPT !.pipe[p] = [state |-> "ACTIVE", addr |-> a]]

\* xesp_usbh_xfer_close_endpoint frees a pipe unless an IRP is left in it.
CanClose(p) == Waiting(p) = {}
FreePipes(S) ==
    hcd' = [hcd EXCEPT !.pipe = [p \in Pipes |->
              IF p \in S THEN [state |-> "FREE", addr |-> 0] ELSE hcd.pipe[p]]]

\* Entries are cleared after their pipes were freed.
ClearedNever(S) == open_pipes  \* mutant: the entries stay
Cleared(S) == [i \in Slots |-> IF i \in S THEN Empty ELSE open_pipes[i]]

\* The last free entry is taken; xesp_usbh_open_endpoint.
RegisteredCounted(p, control, a) ==  \* mutant: other endpoints are counted as devices
    LET n == num_opened + 1
    IN  /\ num_opened' = n
        /\ open_pipes' = [open_pipes EXCEPT ![Max(FreeSlots)] =
              [pipe |-> p, nth_open |-> n, is_control |-> control, addr |-> a]]
Registered(p, control, a) ==
    LET n == IF control THEN num_opened + 1 ELSE num_opened
    IN  /\ num_opened' = n
        /\ open_pipes' = [open_pipes EXCEPT ![Max(FreeSlots)] =
              [pipe |-> p, nth_open |-> n, is_control |-> control, addr |-> a]]

Valid(handle, S) == IF "own" \in Rules /\ handle \in S THEN NoPipe ELSE handle
Told(c, S) == [c EXCEPT !.ctrl = Valid(@, S), !.ep = Valid(@, S)]

\* xesp_usbh_close_device: in the order of the table, up to the first pipe that cannot
\* be closed.
Closed == {i \in Used : \A j \in Used : j <= i => CanClose(open_pipes[j].pipe)}
ClosedPipes == {open_pipes[i].pipe : i \in Closed}
CloseDevice ==
    /\ Unlocked
    /\ Keeps("prompt", \A t \in Clients : client[t].at \notin {"ep_alloc", "ep_reg"})
    /\ open_pipes' = Cleared(Closed)
    /\ FreePipes(ClosedPipes)

-----------------------------------------------------------------------------
(* The bus, the port interrupt and the channels *)

\* The bus shows a device.
Line == bus.attached /\ hcd.powered

\* The callback of the port: the event is kept in the slot and announced.
Event(h, e) ==
    /\ Keeps("slow", hcd.event = "NONE")
    /\ hcd' = [h EXCEPT !.event = e]
    /\ portq' = IF Len(portq) < QueueLen THEN Append(portq, e) ELSE portq

Connects == Line /\ ~hcd.seen /\ ~hcd.lock
Disconnects == ~Line /\ hcd.seen /\ ~hcd.lock

BusStep == TableUnchanged /\ UNCHANGED <<ptask, client>>

\* The interrupt notices an unplugged device before another one is plugged in, unless the
\* debounce lock keeps it from doing so.  A new device has the address 0.
Plug ==
    /\ ~bus.attached /\ ~Disconnects
    /\ bus' = [bus EXCEPT !.attached = TRUE, !.addr = 0]
    /\ UNCHANGED <<hcd, portq>> /\ BusStep

Unplug ==
    /\ "unplug" \in Faults /\ bus.attached
    /\ bus' = [bus EXCEPT !.attached = FALSE]
    /\ UNCHANGED <<hcd, portq>> /\ BusStep

IsrConnection ==
    /\ Connects
    /\ bus.count < MaxConnections
    /\ Event([hcd EXCEPT !.seen = TRUE, !.lock = TRUE], "CONNECTION")
    /\ bus' = [bus EXCEPT !.count = @ + 1]
    /\ BusStep

IsrDisconnection ==
    /\ Disconnects
    /\ LET h == [hcd EXCEPT !.seen = FALSE, !.lock = TRUE]
       IN  IF hcd.conn
           THEN Event([h EXCEPT !.state = "RECOVERY", !.conn = FALSE], "SUDDEN_DISCONN")
           ELSE Event(h, "DISCONNECTION")
    /\ UNCHANGED bus /\ BusStep

IsrError ==
    /\ "bus" \in Faults /\ hcd.conn
    /\ Event([hcd EXCEPT !.state = "DISABLED", !.conn = FALSE], "ERROR")
    /\ UNCHANGED bus /\ BusStep

\* A transfer ends: the device answers at the address of the pipe, or does not answer.
\* Interrupts of channels are ignored once the loss of the device is noticed.
Answers(p) == bus.attached /\ bus.addr = hcd.pipe[p].addr

TransferOk(t) ==
    /\ client[t].result = "busy" /\ hcd.conn /\ Answers(client[t].on)
    /\ client' = [client EXCEPT ![t].result = "ok"]
    /\ bus' = IF client[t].at = "addr" THEN [bus EXCEPT !.addr = client[t].addr] ELSE bus
    /\ UNCHANGED <<hcd, portq, ptask>> /\ TableUnchanged

TransferError(t) ==
    /\ client[t].result = "busy" /\ hcd.conn
    /\ "transfer" \in Faults \/ ~Answers(client[t].on)
    /\ client' = [client EXCEPT ![t].result = "error"]
    /\ UNCHANGED ptask /\ BelowUnchanged /\ TableUnchanged

-----------------------------------------------------------------------------
(* port_event_task and port_event_callback *)

PortReceive ==
    /\ ptask.at = "idle" /\ portq # <<>>
    /\ ptask' = [Idle EXCEPT !.at = "find", !.event = Head(portq)]
    /\ portq' = Tail(portq)
    /\ UNCHANGED <<hcd, bus, client>> /\ TableUnchanged

\* The control pipe is looked up with the mutex; it and the state of the port are used
\* later.
PortFind ==
    /\ ptask.at = "find" /\ Unlocked
    /\ ptask' = [ptask EXCEPT !.at = "handle", !.state = hcd.state,
                   !.control = IF ControlSlots = {} THEN NoPipe
                               ELSE open_pipes[Max(ControlSlots)].pipe]
    /\ UNCHANGED client /\ BelowUnchanged /\ TableUnchanged

\* hcd_port_handle_event handles what is in the slot, which may be a later event than
\* the one announced, or none.
Invalidated ==
    [p \in Pipes |-> IF Freed(p) THEN hcd.pipe[p]
                     ELSE [hcd.pipe[p] EXCEPT !.state = "INVALID"]]
\* _port_debounce returns at once when the port is not powered; the caller then takes
\* that for a disconnected bus.
Debounced ==
    IF hcd.state # "NOT_POWERED"
    THEN [hcd EXCEPT !.lock = FALSE, !.state = IF Line THEN "DISABLED" ELSE "DISCONNECTED"]
    ELSE [hcd EXCEPT !.state = IF hcd.event = "DISCONNECTION" THEN "DISCONNECTED" ELSE @]

HandleLoss ==
    /\ hcd.event \in {"SUDDEN_DISCONN", "ERROR"}
    /\ hcd' = [hcd EXCEPT !.event = "NONE", !.pipe = Invalidated]
    /\ client' = [t \in Clients |-> IF client[t].result = "busy"
                                    THEN [client[t] EXCEPT !.result = "error"]
                                    ELSE client[t]]

HandleConnection ==
    /\ hcd.event \in {"CONNECTION", "DISCONNECTION"}
    /\ hcd' = [Debounced EXCEPT !.event = "NONE"]
    /\ UNCHANGED client

HandleNothing == hcd.event = "NONE" /\ UNCHANGED <<hcd, client>>

PortHandle ==
    /\ ptask.at = "handle"
    /\ HandleLoss \/ HandleConnection \/ HandleNothing
    /\ PortGoes(CASE ptask.event = "CONNECTION" -> "reset"
                  [] ptask.event = "DISCONNECTION" -> "close"
                  [] ptask.event = "SUDDEN_DISCONN" -> "reset"
                  [] ptask.event = "ERROR" -> "idle")
    /\ UNCHANGED <<bus, portq>> /\ TableUnchanged

\* HCD_PORT_CMD_RESET: a device that answers is enabled, and forgets its address.
Enables ==
    IF bus.attached
    THEN /\ hcd' = [hcd EXCEPT !.state = "ENABLED", !.conn = TRUE]
         /\ bus' = [bus EXCEPT !.addr = 0]
    ELSE /\ hcd' = [hcd EXCEPT !.state = "RESETTING", !.conn = FALSE]
         /\ UNCHANGED bus

\* mutant: the state of the port is not looked at
ResetPortAny == IF hcd.event = "NONE" THEN Enables ELSE UNCHANGED <<hcd, bus>>
ResetPort ==
    IF hcd.event = "NONE" /\ hcd.state \in {"DISABLED", "ENABLED"}
    THEN Enables ELSE UNCHANGED <<hcd, bus>>

PortReset ==
    /\ ptask.at = "reset"
    /\ ResetPort
    /\ PortGoes(IF ptask.event = "CONNECTION" THEN "lookup" ELSE "sudden")
    /\ UNCHANGED <<portq, client>> /\ TableUnchanged

\* The control pipe of a device that is enabled is opened: xesp_usbh_open_endpoint with a
\* NULL handle uses the entry of that handle, which is a free one.
PortLookup ==
    /\ ptask.at = "lookup"
    /\ IF hcd.state # "ENABLED" THEN PortGoes("idle")
       ELSE IF InfoOf(NoPipe) = {} THEN PortStops
       ELSE PortGoes("alloc")
    /\ UNCHANGED client /\ BelowUnchanged /\ TableUnchanged

PortAlloc ==
    /\ ptask.at = "alloc"
    /\ IF CanAlloc
       THEN \E p \in Pipes : /\ Freed(p) /\ NewPipe(p, 0)
                             /\ ptask' = [ptask EXCEPT !.at = "register", !.pipe = p]
       ELSE PortGoes("connect") /\ UNCHANGED hcd
    /\ UNCHANGED <<bus, portq, client>> /\ TableUnchanged

PortRegister ==
    /\ ptask.at = "register" /\ Unlocked
    /\ IF FreeSlots = {} THEN UNCHANGED <<open_pipes, num_opened>>
       ELSE Registered(ptask.pipe, TRUE, 0)
    /\ ptask' = [ptask EXCEPT !.at = "connect", !.pipe = NoPipe]
    /\ UNCHANGED <<connect, mutex, client>> /\ BelowUnchanged

\* xEventGroupSetBits wakes all the clients that are blocked, and the bit is cleared if
\* there was one; this happens whether or not the pipe was opened.
Blocked == {t \in Clients : client[t].at = "blocked"}
Woken == [t \in Clients |-> IF t \in Blocked THEN [client[t] EXCEPT !.at = "search"]
                            ELSE client[t]]

PortConnect ==
    /\ ptask.at = "connect"
    /\ connect' = (Blocked = {})
    /\ client' = Woken
    /\ PortGoes("idle")
    /\ UNCHANGED <<open_pipes, num_opened, mutex>> /\ BelowUnchanged

\* After a sudden disconnection the device is closed if its control pipe is invalid.
PortSudden ==
    /\ ptask.at = "sudden"
    /\ IF ptask.control = NoPipe THEN PortGoes("close")
       ELSE IF Freed(ptask.control) THEN PortStops
       ELSE PortGoes(IF hcd.pipe[ptask.control].state = "INVALID" THEN "close" ELSE "idle")
    /\ UNCHANGED client /\ BelowUnchanged /\ TableUnchanged

PortClose ==
    /\ ptask.at = "close"
    /\ CloseDevice
    /\ PortGoes(IF ptask.event = "DISCONNECTION" THEN "off"
                ELSE IF ptask.state = "RECOVERY" THEN "recover" ELSE "on")
    /\ client' = [t \in Clients |-> Told(client[t], ClosedPipes)]
    /\ UNCHANGED <<num_opened, connect, mutex, bus, portq>>

PortOff ==
    /\ ptask.at = "off"
    /\ hcd' = IF hcd.event = "NONE" /\ hcd.state # "NOT_POWERED"
              THEN [hcd EXCEPT !.state = "NOT_POWERED", !.powered = FALSE] ELSE hcd
    /\ PortGoes("idle")
    /\ UNCHANGED <<bus, portq, client>> /\ TableUnchanged

\* hcd_port_recover succeeds if the port has no pipe left.
CanRecover ==
    /\ hcd.state = "RECOVERY" /\ hcd.event = "NONE" /\ ~hcd.conn
    /\ \A p \in Pipes : Freed(p)

PortRecover ==
    /\ ptask.at = "recover"
    /\ hcd' = IF CanRecover
              THEN [hcd EXCEPT !.state = "NOT_POWERED", !.powered = FALSE,
                             !.seen = FALSE, !.lock = FALSE]
              ELSE hcd
    /\ PortGoes("on")
    /\ UNCHANGED <<bus, portq, client>> /\ TableUnchanged

PortOn ==
    /\ ptask.at = "on"
    /\ hcd' = IF hcd.event = "NONE" /\ hcd.state = "NOT_POWERED"
              THEN [hcd EXCEPT !.state = "DISCONNECTED", !.powered = TRUE] ELSE hcd
    /\ PortGoes("idle")
    /\ UNCHANGED <<bus, portq, client>> /\ TableUnchanged

-----------------------------------------------------------------------------
(* xesp_usbh_open_device *)

ClientStep == UNCHANGED ptask /\ BelowUnchanged

\* A caller that has opened every device waits for the next connection.
OpenBegin(t) ==
    /\ client[t].at = "open"
    /\ Goes(t, IF client[t].idx >= num_opened THEN "wait" ELSE "search")
    /\ TableUnchanged /\ ClientStep

\* xEventGroupWaitBits: a bit that is set already is cleared.
OpenWait(t) ==
    /\ client[t].at = "wait"
    /\ Goes(t, IF connect THEN "search" ELSE "blocked")
    /\ connect' = FALSE
    /\ UNCHANGED <<open_pipes, num_opened, mutex>> /\ ClientStep

\* The first control pipe the caller has not opened; without one it starts again.
NotOpened(t) == {i \in ControlSlots : client[t].idx < open_pipes[i].nth_open}

OpenSearch(t) ==
    /\ client[t].at = "search" /\ Unlocked
    /\ client' = [client EXCEPT ![t] =
          IF NotOpened(t) = {} THEN [@ EXCEPT !.at = "open"]
          ELSE [@ EXCEPT !.at = "found", !.ctrl = open_pipes[Min(NotOpened(t))].pipe,
                         !.ep = NoPipe]]
    /\ TableUnchanged /\ ClientStep

\* The counter is read without the mutex, and may count later devices.
OpenFound(t) ==
    /\ client[t].at = "found"
    /\ client' = [client EXCEPT ![t] = [@ EXCEPT !.at = "ready", !.idx = num_opened]]
    /\ TableUnchanged /\ ClientStep

\* The caller gives the device up, as app_main does after an error.
OpenAgain(t) ==
    /\ client[t].at = "ready"
    /\ Goes(t, "open")
    /\ TableUnchanged /\ ClientStep

-----------------------------------------------------------------------------
(* Transfers *)

\* The driver refuses a transfer on a pipe that is not active.
Begun(c, p, place) ==
    [c EXCEPT !.at = place, !.on = p,
              !.result = IF hcd.pipe[p].state = "ACTIVE" /\ hcd.state = "ENABLED"
                         THEN "busy" ELSE "error"]

Transfer(t, p, place) ==
    IF Freed(p) THEN Stops(t)
    ELSE client' = [client EXCEPT ![t] = Begun(@, p, place)]

Ended(t, place) == client[t].at = place /\ client[t].result \in {"ok", "error"}

\* The pipes that get an address.
Assigned ==
    {open_pipes[client[t].slot].pipe :
        t \in {c \in Clients : client[c].at \in {"addr_start", "addr", "addr_update"}}}

\* A transfer on an endpoint, or one that asks the device for a string or a configuration.
XferBegin(t) ==
    /\ client[t].at = "ready"
    /\ \E p \in {client[t].ctrl, client[t].ep} \ {NoPipe} :
          Keeps("alone", p \notin Assigned) /\ Transfer(t, p, "xfer")
    /\ TableUnchanged /\ ClientStep

XferEnd(t) ==
    /\ Ended(t, "xfer")
    /\ client' = [client EXCEPT ![t] = [@ EXCEPT !.at = "ready", !.on = NoPipe,
                                                 !.result = "none"]]
    /\ TableUnchanged /\ ClientStep

\* xesp_usbh_get_device_descriptor.
DescBegin(t) ==
    /\ client[t].at = "ready" /\ client[t].ctrl # NoPipe
    /\ Keeps("alone", client[t].ctrl \notin Assigned)
    /\ Transfer(t, client[t].ctrl, "desc")
    /\ TableUnchanged /\ ClientStep

DescEnd(t) ==
    /\ Ended(t, "desc")
    /\ client' = [client EXCEPT ![t] =
          [@ EXCEPT !.at = IF client[t].result = "ok" THEN "desc_lock" ELSE "ready",
                    !.on = NoPipe, !.result = "none"]]
    /\ TableUnchanged /\ ClientStep

\* The entry of the control pipe of the port, NULL when the device was closed.
DescInfo(t) ==
    /\ client[t].at = "desc_lock" /\ Unlocked
    /\ IF ControlSlots = {} THEN Stops(t)
       ELSE client' = [client EXCEPT ![t] = [@ EXCEPT !.at = "desc_addr",
                                                      !.slot = Min(ControlSlots)]]
    /\ TableUnchanged /\ ClientStep

\* The entry is read again without the mutex.
DescAddr(t) ==
    /\ client[t].at = "desc_addr"
    /\ client' = [client EXCEPT ![t] =
          [@ EXCEPT !.at = IF open_pipes[client[t].slot].addr = 0 THEN "addr_lock"
                           ELSE "ready",
                    !.slot = 0]]
    /\ TableUnchanged /\ ClientStep

-----------------------------------------------------------------------------
(* xesp_usb_set_addr_auto and xesp_usbh_set_addr *)

FreeAddrs == Addrs \ ({0} \cup {open_pipes[i].addr : i \in Used})

\* Without a control pipe, or an address, the function returns with the mutex taken.
SetAddr(t) ==
    LET info == Min(ControlSlots)
    IN  /\ client[t].at = "addr_lock" /\ Unlocked
        /\ IF ControlSlots = {} \/ (open_pipes[info].addr = 0 /\ FreeAddrs = {})
           THEN mutex' = t /\ Goes(t, "ready") /\ UNCHANGED open_pipes
           ELSE IF open_pipes[info].addr # 0
           THEN Goes(t, "ready") /\ UNCHANGED <<mutex, open_pipes>>
           ELSE /\ mutex' = t
                /\ open_pipes' = [open_pipes EXCEPT ![info].addr = Min(FreeAddrs)]
                /\ client' = [client EXCEPT ![t] =
                      [@ EXCEPT !.at = "addr_start", !.slot = info,
                                !.addr = Min(FreeAddrs)]]
        /\ UNCHANGED <<num_opened, connect>> /\ ClientStep

\* The transfer is made, and waited for, with the mutex taken.
SetAddrBegin(t) ==
    /\ client[t].at = "addr_start"
    /\ Keeps("alone", Waiting(open_pipes[client[t].slot].pipe) = {})
    /\ Transfer(t, open_pipes[client[t].slot].pipe, "addr")
    /\ TableUnchanged /\ ClientStep

SetAddrEnd(t) ==
    /\ Ended(t, "addr")
    /\ Goes(t, "addr_update")
    /\ TableUnchanged /\ ClientStep

\* hcd_pipe_update refuses a pipe that is invalid, or has a transfer that is pending or done;
\* one that another client waits for may be in flight, or done.
CanUpdate(p) == hcd.pipe[p].state = "ACTIVE" /\ Cardinality(Waiting(p)) <= 1
CanRefuse(p) == hcd.pipe[p].state = "INVALID" \/ Waiting(p) # {}

\* mutant: the pipe keeps its old address
UpdateNever(p, a) == UNCHANGED hcd
Update(p, a) ==
    \/ CanUpdate(p) /\ hcd' = [hcd EXCEPT !.pipe[p].addr = a]
    \/ CanRefuse(p) /\ UNCHANGED hcd

\* The pipe is updated whatever the result of the transfer, and whether it was updated is
\* only logged.  After an error the entry has no address again.

SetAddrUpdate(t) ==
    LET p == client[t].on
        c == client[t]
    IN  /\ c.at = "addr_update"
        /\ Update(p, c.addr)
        /\ open_pipes' = IF c.result = "ok" THEN open_pipes
                         ELSE [open_pipes EXCEPT ![c.slot].addr = 0]
        /\ mutex' = NoTask
        /\ client' = [client EXCEPT ![t] =
              [@ EXCEPT !.at = "ready", !.on = NoPipe, !.slot = 0, !.addr = 0,
                        !.result = "none"]]
        /\ UNCHANGED <<num_opened, connect, ptask, bus, portq>>

-----------------------------------------------------------------------------
(* Endpoints: xesp_usbh_open_endpoint, xesp_usbh_close_endpoint *)

\* The address is that of the control pipe, read without the mutex.  A client opens one
\* endpoint of a device at a time, a bound of the model.
EpLookup(t) ==
    /\ client[t].at = "ready" /\ client[t].ep = NoPipe
    /\ \E i \in InfoOf(client[t].ctrl) :
          /\ open_pipes[i].addr # 0
          /\ client' = [client EXCEPT ![t] = [@ EXCEPT !.at = "ep_alloc",
                                                       !.addr = open_pipes[i].addr]]
    /\ TableUnchanged /\ ClientStep

EpAlloc(t) ==
    LET c == client[t]
    IN  /\ c.at = "ep_alloc"
        /\ IF CanAlloc
           THEN \E p \in Pipes :
                   /\ Freed(p) /\ NewPipe(p, c.addr)
                   /\ client' = [client EXCEPT ![t] = [c EXCEPT !.at = "ep_reg", !.on = p]]
           ELSE /\ client' = [client EXCEPT ![t] = [c EXCEPT !.at = "ready", !.addr = 0]]
                /\ UNCHANGED hcd
        /\ UNCHANGED <<ptask, bus, portq>> /\ TableUnchanged

EpRegister(t) ==
    LET c == client[t]
    IN  /\ c.at = "ep_reg" /\ Unlocked
        /\ IF FreeSlots = {} THEN UNCHANGED <<open_pipes, num_opened>>
           ELSE Registered(c.on, FALSE, c.addr)
        /\ client' = [client EXCEPT ![t] =
              [c EXCEPT !.at = "ready", !.on = NoPipe, !.addr = 0,
                        !.ep = IF FreeSlots = {} THEN NoPipe ELSE c.on]]
        /\ UNCHANGED <<connect, mutex>> /\ ClientStep

EpClose(t) ==
    LET p == client[t].ep
    IN  /\ client[t].at = "ready" /\ p # NoPipe /\ Unlocked
        /\ IF Freed(p) THEN Stops(t) /\ UNCHANGED <<hcd, open_pipes>>
           ELSE IF CanClose(p)
           THEN /\ FreePipes({p})
                /\ open_pipes' = Cleared(InfoOf(p))
                /\ client' = [client EXCEPT ![t].ep = NoPipe]
           ELSE UNCHANGED <<hcd, open_pipes, client>>
        /\ UNCHANGED <<num_opened, connect, mutex, ptask, bus, portq>>

\* xesp_usbh_close_device, called by a client.
DeviceClose(t) ==
    /\ client[t].at = "ready"
    /\ CloseDevice
    /\ client' = [[u \in Clients |-> Told(client[u], ClosedPipes)] EXCEPT
                     ![t] = [@ EXCEPT !.at = "open", !.ctrl = NoPipe, !.ep = NoPipe]]
    /\ UNCHANGED <<num_opened, connect, mutex, ptask, bus, portq>>

-----------------------------------------------------------------------------
BusNext ==
    \/ Plug \/ Unplug \/ IsrConnection \/ IsrDisconnection \/ IsrError
    \/ \E t \in Clients : TransferOk(t) \/ TransferError(t)

PortNext ==
    \/ PortReceive \/ PortFind \/ PortHandle \/ PortReset \/ PortLookup \/ PortAlloc
    \/ PortRegister \/ PortConnect \/ PortSudden \/ PortClose \/ PortOff \/ PortRecover
    \/ PortOn

\* What a client decides to do, and what it does once it is inside a function.
ClientCall(t) ==
    OpenAgain(t) \/ XferBegin(t) \/ DescBegin(t) \/ EpLookup(t) \/ EpClose(t) \/ DeviceClose(t)

ClientNext(t) ==
    \/ OpenBegin(t) \/ OpenWait(t) \/ OpenSearch(t) \/ OpenFound(t) \/ XferEnd(t)
    \/ DescEnd(t) \/ DescInfo(t) \/ DescAddr(t) \/ SetAddr(t) \/ SetAddrBegin(t)
    \/ SetAddrEnd(t) \/ SetAddrUpdate(t) \/ EpAlloc(t) \/ EpRegister(t)

UsbhNext ==
    /\ Running
    /\ BusNext \/ PortNext \/ \E t \in Clients : ClientCall(t) \/ ClientNext(t)

UsbhSpec == UsbhInit /\ [][UsbhNext]_usbhVars

\* Tasks run, transfers end while the device is there, and interrupts are served.
UsbhFairness ==
    /\ WF_usbhVars(Running /\ PortNext)
    /\ WF_usbhVars(Running /\ (IsrConnection \/ IsrDisconnection))
    /\ \A t \in Clients :
          /\ WF_usbhVars(Running /\ ClientNext(t))
          /\ WF_usbhVars(Running /\ (TransferOk(t) \/ TransferError(t)))

FairUsbhSpec == UsbhSpec /\ UsbhFairness

-----------------------------------------------------------------------------
(* Properties *)

\* The pipes between their allocation and their registration.
Registering ==
    (IF ptask.at = "register" THEN {ptask.pipe} ELSE {})
    \cup {client[t].on : t \in {c \in Clients : client[c].at = "ep_reg"}}

\* The table holds each allocated pipe once, and nothing else, but for the pipes that a
\* task is about to enter: no pipe is leaked, and no entry names freed memory.
TableExact ==
    /\ {open_pipes[i].pipe : i \in Used} \cup Registering = {p \in Pipes : ~Freed(p)}
    /\ \A i \in Used : InfoOf(open_pipes[i].pipe) = {i} /\ open_pipes[i].pipe \notin Registering
    /\ \A i \in FreeSlots : open_pipes[i] = Empty

\* At most one control pipe is open, as there is one port: the functions that look for
\* "the" control pipe of the port (xesp_usb_set_addr_auto takes the first, the port callback
\* the last) find that of the device.
OneControlPipe == Cardinality(ControlSlots) <= 1

\* An entry, its pipe and the device agree on the address, unless it is just being assigned.
Assigning == \E t \in Clients : client[t].at \in {"addr_start", "addr", "addr_update"}
AddressAgrees ==
    hcd.conn /\ bus.attached /\ ~Assigning =>
        \A i \in Used :
            LET p == hcd.pipe[open_pipes[i].pipe]
            IN  p.state = "ACTIVE" =>
                    p.addr = open_pipes[i].addr /\ bus.addr = p.addr

\* While a device is connected no pipe is invalid: those of an earlier device were closed
\* before this one was reset, and no late event of the earlier one invalidates its pipes.
ConnectedIsValid == hcd.conn => \A p \in Pipes : hcd.pipe[p].state # "INVALID"

\* open_pipes_mutex is held only by a task that is inside the function that took it.
\* Refuted: xesp_usb_set_addr_auto keeps it when the control pipe has gone.
MutexGivenBack ==
    \A t \in Clients : mutex = t => client[t].at \in {"addr_start", "addr", "addr_update"}

\* The counter a client keeps stands for the device it was given, so that it is given every
\* later one.  Refuted: the counter is read after the mutex was given back.
NotSkipped ==
    \A t \in Clients : client[t].at = "ready" /\ client[t].ctrl # NoPipe =>
        \A i \in ControlSlots : open_pipes[i].nth_open <= client[t].idx =>
            client[t].ctrl = open_pipes[i].pipe

\* "Multiple thread can wait on this next device, and all threads will open the connected
\* device": a client that is blocked in open_device has no device left to open.  Refuted: of
\* two clients that are about to wait, the first one clears the bit.
AllOpen ==
    \A t \in Clients :
        client[t].at = "blocked" /\ NotOpened(t) # {} ~> client[t].at # "blocked" \/ ~Running

\* "Blocks until the irp is completed": the transfer that assigns an address returns.
\* Refuted: its end needs the port task, which needs the mutex this client holds.
SetAddrReturns ==
    \A t \in Clients : client[t].at = "addr" ~> client[t].at # "addr" \/ ~Running

\* The port task returns to its queue.  Refuted by the same deadlock.
PortTaskReturns == ptask.at # "idle" ~> ptask.at = "idle" \/ ~Running
=============================================================================
