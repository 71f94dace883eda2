------------------------------ MODULE Requests ------------------------------
(***************************************************************************)
(* The requests of main/xesp_usbh.c for descriptors, addresses and         *)
(* configurations, from the client that makes one to the stages on the     *)
(* wire (XferDesc) and back to the parsed configuration (ConfigParse) and  *)
(* the memory it holds.                                                    *)
(*                                                                         *)
(* The transfer layer between them is the one of XferLayer, with its steps *)
(* joined: a client takes an IRP and enqueues it in one step, and the task *)
(* of the pipe events serves an event in one step, in two if it resets the *)
(* pipe.                                                                   *)
(***************************************************************************)
EXTENDS XferDesc, ConfigParse

CONSTANTS
    Clients,    \* the tasks that make requests
    Requests,   \* Requests[t]: the requests client t makes, as <<kind, pipe>>
    Devices,    \* Devices[d]: the descriptors of device d, which may be connected
    Strings,    \* the lengths of their string descriptors
    Layouts     \* the descriptors for which the parser is compared with their meaning

XESP_USB_MAX_XFER_BYTES == 256

Kinds == {"device", "config", "string", "set", "read"}

-----------------------------------------------------------------------------
(* The setup packets (private_include/usb.h, usb_utils.h) and num_bytes *)

Control(in, n) == [in |-> in, wLength |-> n]

SetupOf(kind) ==
    CASE kind = "device" -> Control(TRUE, 18)
      [] kind \in {"config", "string"} -> Control(TRUE, XESP_USB_MAX_XFER_BYTES)
      [] kind = "set" -> Control(FALSE, 0)
      [] kind = "read" -> ZeroSetup

NumBytes(kind) ==
    CASE kind \in {"device", "read"} -> 64
      [] kind \in {"config", "string"} -> XESP_USB_MAX_XFER_BYTES
      [] kind = "set" -> 0

\* The bytes device d sends for request kind.
Sends(kind, d) ==
    CASE kind = "device" -> {18}
      [] kind = "config" -> {Min({XESP_USB_MAX_XFER_BYTES, TotalLength(Devices[d])})}
      [] kind = "string" -> Strings
      [] kind = "read" -> {0, 64}
      [] kind = "set" -> {0}

ASSUME RequestsAssumption ==
    /\ \A kind \in Kinds : SetupOf(kind) \in Setups /\ NumBytes(kind) \in Sizes
    /\ Requests \in [Clients -> SUBSET (Kinds \X Pipes)]
    /\ \A t \in Clients : \A r \in Requests[t] : EpType[r[2]] = "CTRL" <=> r[1] # "read"
    /\ IsFiniteSet(Clients) /\ Cardinality(Clients) <= Cardinality(Irps)
    /\ "none" \notin DOMAIN Devices
    /\ \A name \in DOMAIN Devices :
          LET d == Devices[name]
          IN  /\ d \in Seq(Descriptors) /\ d[1].type = CONFIG /\ d[1].len = ConfigSize
              /\ \A k \in DOMAIN d : d[k].len >= 2
    /\ \A d \in Layouts : WellFormed(d)
    /\ Strings \subseteq 2 .. XESP_USB_MAX_XFER_BYTES

-----------------------------------------------------------------------------
(* The state of a client and of the tasks *)

VARIABLES
    client,     \* what each client is doing
    buffer,     \* the device whose descriptors were moved into the buffer of each IRP
    bits,       \* the event set for each IRP
    evtq,       \* pipe_evt_queue
    resets,     \* the event for which pipe_event_task resets a pipe
    heap,       \* the blocks that are allocated
    fault       \* a client has written outside of a block

allVars == <<vars, client, buffer, bits, evtq, resets, heap, fault>>

\* The event that a request returns, and the blocks that can be freed through what it gives.
Nothing == [event |-> "NONE", blocks |-> 0]
Out == [at |-> "out", kind |-> "none", irp |-> NoIrp, got |-> Nothing]

NotResetting == [pipe |-> NoPipe, irp |-> NoIrp, event |-> "NONE"]

Events == {"NONE", "IRP_DONE", "INVALID", "ERROR_XFER", "ERROR_IRP_NOT_AVAIL",
           "ERROR_OVERFLOW", "ERROR_STALL"}

RequestsTypeOK ==
    /\ XferDescTypeOK
    /\ \A t \in Clients :
          /\ client[t].at \in {"out", "wait", "back"}
          /\ client[t].kind \in Kinds \cup {"none"}
          /\ client[t].irp \in Irps \cup {NoIrp}
          /\ client[t].at = "wait" <=> client[t].irp # NoIrp
          /\ client[t].got.event \in Events /\ client[t].got.blocks \in Nat
    /\ \A t, u \in Clients : client[t].irp = client[u].irp /\ client[t].irp # NoIrp => t = u
    /\ buffer \in [Irps -> DOMAIN Devices \cup {"none"}]
    /\ bits \in [Irps -> Events]
    /\ evtq \in Seq([pipe : Pipes, event : Events])
    /\ resets.pipe \in Pipes \cup {NoPipe} /\ resets.event \in Events
    /\ heap \in Nat /\ fault \in BOOLEAN

RequestsInit ==
    /\ XferInit
    /\ client = [t \in Clients |-> Out]
    /\ buffer = [i \in Irps |-> "none"]
    /\ bits = [i \in Irps |-> "NONE"]
    /\ evtq = <<>> /\ resets = NotResetting
    /\ heap = 0 /\ fault = FALSE

-----------------------------------------------------------------------------
(* Clients: xesp_usbh_get_device_descriptor, xesp_usbh_get_config_descriptor,  *)
(* xesp_usbh_get_string_descriptor, xesp_usbh_set_addr, xesp_usbh_set_config,  *)
(* xesp_usbh_xfer_from_pipe                                                    *)

\* mutant: the IRP is back in the pool before the request has returned
AskAny(t, kind, p, i) ==
    /\ client[t].at = "out" /\ <<kind, p>> \in Requests[t]
    /\ Submit(p, i, SetupOf(kind), NumBytes(kind))
    /\ client' = [client EXCEPT ![t] = [Out EXCEPT !.at = "wait", !.kind = kind, !.irp = i]]
    /\ UNCHANGED <<buffer, bits, evtq, resets, heap>>

\* The client takes an IRP of the pool, fills in the request and enqueues it.
Ask(t, kind, p, i) ==
    /\ client[t].at = "out" /\ <<kind, p>> \in Requests[t]
    /\ \A u \in Clients : client[u].irp # i
    /\ Submit(p, i, SetupOf(kind), NumBytes(kind))
    /\ client' = [client EXCEPT ![t] = [Out EXCEPT !.at = "wait", !.kind = kind, !.irp = i]]
    /\ UNCHANGED <<buffer, bits, evtq, resets, heap>>

\* What a request returns: its event, but for a configuration always success.
EventOf(kind, e) == IF kind = "config" THEN "IRP_DONE" ELSE e

\* The pipe is not valid, or halted: hcd_irp_enqueue refuses the IRP.
AskRefused(t, kind, p) ==
    /\ client[t].at = "out" /\ <<kind, p>> \in Requests[t]
    /\ ~Accepts(p)
    /\ client' = [client EXCEPT ![t] = [Out EXCEPT !.at = "back", !.kind = kind,
                                                   !.got.event = EventOf(kind, "NONE")]]
    /\ UNCHANGED <<vars, buffer, bits, evtq, resets, heap>>

\* The byte behind n received ones: cleared with the first 256 of the buffer, left from
\* an earlier transfer, or outside of the buffer.
BehindData(n) ==
    IF n + RequestSize + 1 < XESP_USB_MAX_XFER_BYTES THEN {0}
    ELSE Garbage

Told(t) == client[t].at = "wait" /\ bits[client[t].irp] # "NONE"
Gives(t, kind) == client[t].kind = kind /\ bits[client[t].irp] = "IRP_DONE"

\* The bits of the IRP are set: the request clears them with the wait, uses the data,
\* gives the IRP back and returns.  (The IRP is cleared when it is taken again, and nobody
\* reads it before.)
Return(t, got, blocks) ==
    LET i == client[t].irp
    IN  /\ client' = [client EXCEPT
                        ![t] = [at |-> "back", kind |-> @.kind, irp |-> NoIrp,
                                got |-> [got EXCEPT !.event = EventOf(client[t].kind, bits[i])]]]
        /\ bits' = [bits EXCEPT ![i] = "NONE"]
        /\ buffer' = [buffer EXCEPT ![i] = "none"]
        /\ heap' = heap + blocks
        /\ Clear(i)
        /\ UNCHANGED <<evtq, resets>>

\* What xesp_usbh_parse_config may make of the data in the buffer of IRP i.
ParsesTo(i) ==
    LET n == irp[i].actual
        sent == IF buffer[i] = "none" THEN <<>> ELSE Devices[buffer[i]]
    IN  {ParseConfig(sent, n, next) : next \in BehindData(n)}

ReturnConfig(t) ==
    /\ Told(t) /\ Gives(t, "config")
    /\ \E config \in ParsesTo(client[t].irp) :
          /\ ~config.fault
          /\ Return(t, [Nothing EXCEPT !.blocks = IF config.ok THEN Freed(config.pool) ELSE 0],
                    config.blocks)

\* The numbers of the interfaces that came are beyond their count.
ConfigOverruns(t) ==
    /\ Told(t) /\ Gives(t, "config")
    /\ \E config \in ParsesTo(client[t].irp) : config.fault
    /\ fault' = TRUE
    /\ UNCHANGED <<vars, client, buffer, bits, evtq, resets, heap>>

ReturnString(t) ==
    /\ Told(t) /\ Gives(t, "string")
    /\ Return(t, [Nothing EXCEPT !.blocks = 1], 1)

ReturnOther(t) ==
    /\ Told(t) /\ ~Gives(t, "config") /\ ~Gives(t, "string")
    /\ Return(t, Nothing, 0)

\* The client frees what it was given: xesp_usbh_free_config_descriptor, free.
Forget(t) ==
    /\ client[t].at = "back"
    /\ heap' = heap - client[t].got.blocks
    /\ client' = [client EXCEPT ![t] = Out]
    /\ UNCHANGED <<vars, buffer, bits, evtq, resets>>

-----------------------------------------------------------------------------
(* The controller, its interrupts, and the task of the pipe events *)

Emit(p, e) == evtq' = Append(evtq, [pipe |-> p, event |-> e])
Still == UNCHANGED <<client, bits, resets, heap>>

KindOn(p) == client[CHOOSE t \in Clients : client[t].irp = pipe[p].inflight].kind

\* The device does what the next stage asks it to: it sends what it has, or takes what
\* it is sent.
DeviceSends(p) ==
    /\ Executes(p) /\ chan[p].in /\ Current(p).len > 0
    /\ \E d \in IF KindOn(p) = "config" THEN DOMAIN Devices ELSE {"none"} :
          /\ \E m \in Sends(KindOn(p), d) \cap (0 .. Room(p)) : ChanRun(p, m)
          /\ buffer' = [buffer EXCEPT ![pipe[p].inflight] = d]
    /\ Still /\ UNCHANGED evtq

DeviceTakes(p) ==
    /\ Executes(p) /\ ~(chan[p].in /\ Current(p).len > 0)
    /\ ChanRun(p, IF Current(p).setup THEN 0 ELSE Current(p).len)
    /\ Still /\ UNCHANGED <<buffer, evtq>>

DeviceFails(p) == Fails(p) /\ Still /\ UNCHANGED <<buffer, evtq>>

Device(p) == DeviceSends(p) \/ DeviceTakes(p) \/ DeviceFails(p)

\* The interrupt, with the callback of the pipe if there is an event.
ChanInterrupt(p) ==
    /\ \/ IntrDone(p) /\ Emit(p, "IRP_DONE")
       \/ IntrError(p) /\ Emit(p, ErrorEvent(chan[p].error))
       \/ (IntrHalt(p) \/ IntrIgnored(p)) /\ UNCHANGED evtq
    /\ Still /\ UNCHANGED buffer

Unplug == Lose /\ Still /\ UNCHANGED <<buffer, evtq>>

\* The port task handles the loss: it invalidates the pipes with the callback of each, ...
InvalidatePipe(p) == Invalidate(p) /\ Emit(p, "INVALID") /\ Still /\ UNCHANGED buffer

\* ... closes the endpoints, which tells the clients whose IRPs are left, ...
CloseEndpoint(p) ==
    /\ ~conn /\ pipe[p].state = "INVALID" /\ Dequeue(p)
    /\ bits' = [bits EXCEPT ![Head(pipe[p].done)] = "ERROR_IRP_NOT_AVAIL"]
    /\ UNCHANGED <<client, buffer, evtq, resets, heap>>

\* ... and opens those of the next device.
Replug ==
    /\ Reallocate /\ evtq = <<>> /\ resets = NotResetting
    /\ Still /\ UNCHANGED <<buffer, evtq>>

\* The events after which pipe_event_task resets the pipe before it sets the bits.
Resets(e) == e \in {"NONE", "ERROR_XFER", "INVALID", "ERROR_STALL"}

EventServe ==
    LET p == Head(evtq).pipe
        e == Head(evtq).event
        i == Head(pipe[p].done)
    IN  /\ evtq # <<>> /\ resets = NotResetting
        /\ \/ pipe[p].done = <<>> /\ UNCHANGED <<vars, bits, resets>>
           \/ Dequeue(p) /\ Resets(e)
              /\ resets' = [pipe |-> p, irp |-> i, event |-> e] /\ UNCHANGED bits
           \/ Dequeue(p) /\ ~Resets(e)
              /\ bits' = [bits EXCEPT ![i] = e] /\ UNCHANGED resets
        /\ evtq' = Tail(evtq)
        /\ UNCHANGED <<client, buffer, heap>>

\* The driver refuses the reset of a pipe that is invalid or whose device is lost.
EventReset ==
    /\ resets # NotResetting
    /\ \/ Reset(resets.pipe)
       \/ ~(conn /\ pipe[resets.pipe].state # "INVALID") /\ UNCHANGED vars
    /\ bits' = [bits EXCEPT ![resets.irp] = resets.event]
    /\ resets' = NotResetting
    /\ UNCHANGED <<client, buffer, evtq, heap>>

-----------------------------------------------------------------------------
Client(t) ==
    \/ \E kind \in Kinds, p \in Pipes :
          AskRefused(t, kind, p) \/ \E i \in Irps : Ask(t, kind, p, i)
    \/ ReturnConfig(t) \/ ReturnString(t) \/ ReturnOther(t) \/ Forget(t)

\* A device answers or its transaction fails, interrupts are served, and a loss is handled.
Proceeds(p) == Device(p) \/ ChanInterrupt(p) \/ InvalidatePipe(p)

TasksNext ==
    \/ \E t \in Clients : Client(t)
    \/ \E p \in Pipes : Proceeds(p) \/ CloseEndpoint(p)
    \/ EventServe \/ EventReset \/ Unplug \/ Replug

\* After a memory error the model says nothing more, and stays where it is.
RequestsNext ==
    \/ ~fault /\ TasksNext /\ UNCHANGED fault
    \/ ~fault /\ \E t \in Clients : ConfigOverruns(t)
    \/ fault /\ UNCHANGED allVars

RequestsSpec == RequestsInit /\ [][RequestsNext]_allVars

FairRequestsSpec ==
    RequestsSpec /\ \A p \in Pipes : WF_allVars(~fault /\ Proceeds(p) /\ UNCHANGED fault)

-----------------------------------------------------------------------------
(* Properties *)

\* A configuration that came whole is parsed as what its descriptors mean: every
\* interface under its number with its alternatives in order, each with its endpoints,
\* and the class specific descriptors with what they follow (xesp_usbh_parse_config).
\* The parser has no state: all layouts are compared at once, before the first step.
ParsedAsMeant == RequestsInit => \A d \in Layouts : Regular(d) => AsMeant(d)

\* A device may have more descriptors than a transfer has room, or send fewer.  Of a
\* configuration that is cut anywhere the client gets nothing, or every interface, with
\* the first of its alternatives and of their endpoints: never one that the device does
\* not have, and none in the place of another.  Only if the interfaces do not come in the
\* order of their numbers may the parser write behind alternate_counts instead
\* (xesp_usbh_parse.c:266).
CutIsPrefix == RequestsInit => \A d \in Layouts : Regular(d) => AsPrefix(d)

\* Every block that is allocated can be freed by the client that holds it: a parser that
\* gives up in the middle has freed all it had, and a pool of several nodes knows them all.
HeapBalanced == heap = MapThenSumSet(LAMBDA t : client[t].got.blocks, Clients)

\* A transfer ends: each stage is continued with the next, and an error, a loss of the
\* device or the last stage ends it.
TransfersEnd ==
    \A p \in Pipes, i \in Irps : pipe[p].inflight = i ~> pipe[p].inflight # i \/ fault
=============================================================================
