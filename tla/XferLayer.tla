------------------------------ MODULE XferLayer ------------------------------
(***************************************************************************)
(* The transfer layer (main/xesp_usbh_xfer.c) over the pipes of the driver *)
(* (HcdPipe): blocking transfers with IRPs from a pool, and the task that  *)
(* turns pipe events into the event bits the clients wait for.             *)
(*                                                                         *)
(* The task that handles port events is here as far as it uses this layer: *)
(* it opens and closes endpoints and invalidates the pipes of a lost       *)
(* device.  The callback of the driver is part of the step that calls it:  *)
(* no task runs before the interrupt handler ends, and the tasks of this   *)
(* layer have a lower priority than the one that invalidates the pipes.    *)
(***************************************************************************)
EXTENDS HcdPipe

CONSTANTS
    Clients,        \* the tasks that make transfers
    EventTask,      \* pipe_event_task
    PortTask,       \* port_event_task
    Uses,           \* Uses[t]: the pipes client t transfers on
    QueueLen        \* PIPE_EVENT_QUEUE_LEN

ASSUME XferAssumption ==
    /\ Clients \cup {EventTask, PortTask} \subseteq Tasks
    /\ EventTask \notin Clients /\ PortTask \notin Clients /\ EventTask # PortTask
    /\ Uses \in [Clients -> SUBSET Pipes]
    /\ \A t \in Clients : Submits[t] = Irps
    /\ QueueLen \in Nat \ {0}
    /\ Irps # {} /\ IsFiniteSet(Irps) /\ IsFiniteSet(Clients)

VARIABLES
    pool,       \* the IRPs nobody uses, and the semaphore that counts them
    xfer,       \* the transfer each client is making
    evtq,       \* pipe_evt_queue
    evtask,     \* where pipe_event_task is
    bits,       \* irp_xfer_done_xEvents: the bits set for each IRP
    status,     \* the status the driver left in each IRP
    enqmutex,   \* the holder of irp_enqueue_xSemaphore
    closing,    \* the pipe that PortTask is closing, and whether its IRPs are dequeued
    lost        \* the loss of the device is reported and not handled yet

xferVars == <<pool, xfer, evtq, evtask, bits, status, enqmutex, closing, lost>>
allVars == <<vars, xferVars>>

-----------------------------------------------------------------------------
(* Types *)

\* The events as numbers, as sets of bits: the event group ORs them.
EventBits(e) ==
    CASE e = "NONE" -> {}                 [] e = "IRP_DONE" -> {0}
      [] e = "INVALID" -> {1}             [] e = "ERROR_XFER" -> {0, 1}
      [] e = "ERROR_IRP_NOT_AVAIL" -> {2} [] e = "ERROR_OVERFLOW" -> {0, 2}
      [] e = "ERROR_STALL" -> {1, 2}

XUSB_OK == EventBits("IRP_DONE")

Message == [pipe : Pipes, event : PipeEvents]

XferTypeOK ==
    /\ TypeOK
    /\ pool \in [free : Seq(Irps), count : 0 .. Cardinality(Irps)]
    /\ xfer \in [Clients -> [at : {"out", "taking", "taken", "enqueue", "wait", "end",
                                   "given"},
                             irp : Irps \cup {NoIrp}, result : SUBSET {0, 1, 2}]]
    /\ evtq \in Seq(Message)
    /\ evtask \in [at : {"wait", "dequeue", "reset", "set"}, pipe : Pipes \cup {NoPipe},
                   event : PipeEvents, irp : Irps \cup {NoIrp}]
    /\ bits \in [Irps -> SUBSET {0, 1, 2}]
    /\ status \in [Irps -> Statuses]
    /\ enqmutex \in Tasks \cup {NoTask}
    /\ closing \in [pipe : Pipes \cup {NoPipe}, drained : BOOLEAN]
    /\ lost \in BOOLEAN

NotClosing == [pipe |-> NoPipe, drained |-> FALSE]
Waits == [at |-> "wait", pipe |-> NoPipe, event |-> "NONE", irp |-> NoIrp]
Out == [at |-> "out", irp |-> NoIrp, result |-> {}]

\* xesp_usbh_xfer_init has run, and a device is enabled.
XferInit ==
    /\ PipeInit /\ port.state = "ENABLED"
    /\ \E s \in [1 .. Cardinality(Irps) -> Irps] :
          Elems(s) = Irps /\ pool = [free |-> s, count |-> Cardinality(Irps)]
    /\ xfer = [t \in Clients |-> Out]
    /\ evtq = <<>>
    /\ evtask = Waits
    /\ bits = [i \in Irps |-> {}]
    /\ status = [i \in Irps |-> "none"]
    /\ enqmutex = NoTask /\ closing = NotClosing /\ lost = FALSE

SetXfer(t, x) == xfer' = [xfer EXCEPT ![t] = x]

-----------------------------------------------------------------------------
(* The pool: xesp_usbh_xfer_take_irp and xesp_usbh_xfer_give_irp *)

\* The semaphore counts the transfers that may still begin, ...
TakeCount(t) ==
    /\ xfer[t].at = "out" /\ pool.count > 0
    /\ pool' = [pool EXCEPT !.count = @ - 1]
    /\ SetXfer(t, [Out EXCEPT !.at = "taking"])
    /\ UNCHANGED <<vars, evtq, evtask, bits, status, enqmutex, closing, lost>>

\* ... so the free list has an IRP, which is cleared.
TakeIrp(t) ==
    LET n == Len(pool.free)
        i == pool.free[n]
    IN  /\ xfer[t].at = "taking"
        /\ pool' = [pool EXCEPT !.free = SubSeq(@, 1, n - 1)]
        /\ irp' = [irp EXCEPT ![i] = NewIrp]
        /\ status' = [status EXCEPT ![i] = "none"]
        /\ SetXfer(t, [Out EXCEPT !.at = "taken", !.irp = i])
        /\ UNCHANGED <<pipe, idle, active, hw, call, notified, inval, port, fault>>
        /\ UNCHANGED <<evtq, evtask, bits, enqmutex, closing, lost>>

GiveIrp(t) ==
    /\ xfer[t].at = "end"
    /\ pool' = [pool EXCEPT !.free = Append(@, xfer[t].irp)]
    /\ SetXfer(t, [Out EXCEPT !.at = "given"])
    /\ UNCHANGED <<vars, evtq, evtask, bits, status, enqmutex, closing, lost>>

GiveCount(t) ==
    /\ xfer[t].at = "given"
    /\ pool' = [pool EXCEPT !.count = @ + 1]
    /\ SetXfer(t, Out)
    /\ UNCHANGED <<vars, evtq, evtask, bits, status, enqmutex, closing, lost>>

-----------------------------------------------------------------------------
(* xesp_usbh_xfer_irp *)

Enqueue(t, p) ==
    /\ xfer[t].at = "taken" /\ enqmutex = NoTask
    /\ p \in Uses[t]
    /\ EnqueueCheck(t, p, xfer[t].irp)
    /\ enqmutex' = t
    /\ SetXfer(t, [xfer[t] EXCEPT !.at = "enqueue"])
    /\ UNCHANGED <<pool, evtq, evtask, bits, status, closing, lost>>

Enqueued(t) ==
    /\ xfer[t].at = "enqueue"
    /\ EnqueueStart(t) \/ EnqueuePend(t)
    /\ enqmutex' = NoTask
    /\ SetXfer(t, [xfer[t] EXCEPT !.at = "wait"])
    /\ UNCHANGED <<pool, evtq, evtask, bits, status, closing, lost>>

\* The driver refuses the IRP: the transfer ends with HCD_PIPE_EVENT_NONE.
Refused(t) ==
    /\ xfer[t].at = "enqueue" /\ EnqueueReject(t)
    /\ enqmutex' = NoTask
    /\ SetXfer(t, [xfer[t] EXCEPT !.at = "end"])
    /\ UNCHANGED <<pool, evtq, evtask, bits, status, closing, lost>>

\* xEventGroupWaitBits: the bits that are set, all together, are the result, and are
\* cleared.
ClearedNever(b) == b  \* mutant: xClearOnExit is pdFALSE
Cleared(b) == {}
WaitBits(t) ==
    LET i == xfer[t].irp
    IN  /\ xfer[t].at = "wait" /\ bits[i] # {}
        /\ bits' = [bits EXCEPT ![i] = Cleared(@)]
        /\ SetXfer(t, [xfer[t] EXCEPT !.at = "end", !.result = bits[i]])
        /\ UNCHANGED <<vars, pool, evtq, evtask, status, enqmutex, closing, lost>>

\* mutant: XFER_DONE_BIT whatever the event
SetBitsDone(i, e) == bits' = [bits EXCEPT ![i] = @ \cup {0}]
SetBits(i, e) == bits' = [bits EXCEPT ![i] = @ \cup EventBits(e)]

-----------------------------------------------------------------------------
(* pipe_isr_callback: an event of a pipe is sent to pipe_evt_queue *)

\* Nothing waits in an interrupt: an event that does not fit is lost.
SentDoneOnly(p, e) ==  \* mutant: only completions are sent
    IF e = "IRP_DONE" /\ Len(evtq) < QueueLen
    THEN Append(evtq, [pipe |-> p, event |-> e]) ELSE evtq
Sent(p, e) ==
    IF Len(evtq) < QueueLen THEN Append(evtq, [pipe |-> p, event |-> e]) ELSE evtq

\* The interrupt of a channel, with the callback unless it is ignored.
ChanEvent(p) ==
    /\ ChanStep(p)
    /\ evtq' = IF port.conn /\ fault' = "none" THEN Sent(p, pipe'[p].last_event) ELSE evtq
    /\ UNCHANGED <<pool, xfer, evtask, bits, status, enqmutex, closing, lost>>

\* The device is lost.
Disconnect ==
    /\ port.conn
    /\ \E s \in LossPortStates : PortLost(s)
    /\ lost' = TRUE
    /\ UNCHANGED <<pool, xfer, evtq, evtask, bits, status, enqmutex, closing>>

\* The port task invalidates the pipes, with the callback of each.
InvalidatePipe ==
    /\ closing = NotClosing /\ Len(evtq) < QueueLen
    /\ (lost /\ InvalidateBegin) \/ InvalidateNext
    /\ lost' = FALSE
    /\ evtq' = IF inval'.cur = NoPipe THEN evtq ELSE Sent(inval'.cur, "INVALID")
    /\ UNCHANGED <<pool, xfer, evtask, bits, status, enqmutex, closing>>

-----------------------------------------------------------------------------
(* pipe_event_task *)

\* The events after which the pipe is reset, and the order of what the task does.
ResetsAny(e) == TRUE  \* mutant: a missing break
Resets(e) == e \in {"NONE", "ERROR_XFER", "INVALID", "ERROR_STALL"}
After(at, e) ==
    CASE at = "dequeue" -> IF Resets(e) THEN "reset" ELSE "set"
      [] at = "reset" -> "set"
      [] at = "set" -> "wait"

At(place) == evtask.at = place
Proceeds == evtask' = [evtask EXCEPT !.at = After(@, evtask.event)]

Receive ==
    /\ At("wait") /\ evtq # <<>>
    /\ evtask' = [at |-> "dequeue", pipe |-> Head(evtq).pipe, event |-> Head(evtq).event,
                  irp |-> NoIrp]
    /\ evtq' = Tail(evtq)
    /\ UNCHANGED <<vars, pool, xfer, bits, status, enqmutex, closing, lost>>

\* A task takes the next result of a pipe; the status stays in the IRP.
TakeResult(t, p) ==
    /\ Dequeue(t, p)
    /\ LET i == Head(pipe[p].done) IN status' = [status EXCEPT ![i] = irp[i].status]

EventDequeue ==
    LET p == evtask.pipe
    IN  /\ At("dequeue") /\ TakeResult(EventTask, p)
        /\ evtask' = [evtask EXCEPT !.irp = Head(pipe[p].done),
                                    !.at = After(@, evtask.event)]
        /\ UNCHANGED <<pool, xfer, evtq, bits, enqmutex, closing, lost>>

\* Another event, or the closing of the endpoint, has taken the IRP.
EventTooLate ==
    /\ At("dequeue") /\ Allocated(evtask.pipe) /\ pipe[evtask.pipe].done = <<>>
    /\ evtask' = Waits
    /\ UNCHANGED <<vars, pool, xfer, evtq, bits, status, enqmutex, closing, lost>>

\* The endpoint was closed while the event was in the queue; or the driver panics.
EventPanic ==
    /\ \/ ~At("wait") /\ ~At("set") /\ ~Allocated(evtask.pipe) /\ Fail("use_after_free")
       \/ At("dequeue") /\ DequeueMisplaced(EventTask, evtask.pipe)
    /\ UNCHANGED xferVars

\* The reset of a pipe with nothing in flight, or a reset that the driver refuses.
EventReset ==
    LET p == evtask.pipe
    IN  /\ At("reset") /\ Allocated(p)
        /\ \/ CommandNow(EventTask, p, "RESET")
           \/ ~CommandAllowed(EventTask, p) /\ UNCHANGED vars
        /\ Proceeds
        /\ UNCHANGED <<pool, xfer, evtq, bits, status, enqmutex, closing, lost>>

EventSet ==
    /\ At("set")
    /\ SetBits(evtask.irp, evtask.event)
    /\ Proceeds
    /\ UNCHANGED <<vars, pool, xfer, evtq, status, enqmutex, closing, lost>>

-----------------------------------------------------------------------------
(* xesp_usbh_xfer_open_endpoint and xesp_usbh_xfer_close_endpoint *)

\* A new pipe is not one that an event in the queue names.
Open(p) ==
    /\ closing = NotClosing /\ NoWalk
    /\ evtask.pipe # p /\ \A n \in DOMAIN evtq : evtq[n].pipe # p
    /\ Alloc(PortTask, p)
    /\ UNCHANGED xferVars

Close(p) ==
    /\ closing = NotClosing /\ NoWalk /\ enqmutex = NoTask
    /\ Allocated(p)
    /\ closing' = [pipe |-> p, drained |-> FALSE]
    /\ enqmutex' = PortTask
    /\ UNCHANGED <<vars, pool, xfer, evtq, evtask, bits, status, lost>>

\* The clients whose results are taken from the pipe are told so.
CloseDequeue ==
    LET p == closing.pipe
    IN  /\ closing # NotClosing /\ ~closing.drained
        /\ TakeResult(PortTask, p)
        /\ SetBits(Head(pipe[p].done), "ERROR_IRP_NOT_AVAIL")
        /\ UNCHANGED <<pool, xfer, evtq, evtask, enqmutex, closing, lost>>

\* A pipe that clients share may be in the idle list meanwhile.
CloseMisplaced ==
    /\ closing # NotClosing /\ ~closing.drained
    /\ DequeueMisplaced(PortTask, closing.pipe)
    /\ UNCHANGED xferVars

CloseDrained ==
    /\ closing # NotClosing /\ ~closing.drained
    /\ pipe[closing.pipe].done = <<>>
    /\ closing' = [closing EXCEPT !.drained = TRUE]
    /\ UNCHANGED <<vars, pool, xfer, evtq, evtask, bits, status, enqmutex, lost>>

\* A pipe that still has IRPs is not freed, and stays open.
CloseEnd ==
    LET p == closing.pipe
    IN  /\ closing.drained
        /\ \/ FreePipe(PortTask, p)
           \/ Queue(pipe[p]) # <<>> /\ UNCHANGED vars
        /\ closing' = NotClosing /\ enqmutex' = NoTask
        /\ UNCHANGED <<pool, xfer, evtq, evtask, bits, status, lost>>

-----------------------------------------------------------------------------
ClientXfer(t) ==
    \/ TakeIrp(t) \/ GiveIrp(t) \/ GiveCount(t)
    \/ \E p \in Pipes : Enqueue(t, p)
    \/ Enqueued(t) \/ Refused(t) \/ WaitBits(t)

EventXfer ==
    Receive \/ EventDequeue \/ EventTooLate \/ EventPanic \/ EventReset \/ EventSet

CloseXfer == CloseDequeue \/ CloseMisplaced \/ CloseDrained \/ CloseEnd

XferNext ==
    /\ fault = "none"
    /\ \/ \E t \in Clients : TakeCount(t) \/ ClientXfer(t)
       \/ \E p \in Pipes : ChanEvent(p) \/ Open(p) \/ Close(p)
       \/ EventXfer \/ CloseXfer
       \/ Disconnect \/ InvalidatePipe

XferSpec == XferInit /\ [][XferNext]_allVars

\* The tasks are scheduled and the transfers end; a client need not begin one.
XferFairness ==
    /\ \A t \in Clients : WF_allVars(fault = "none" /\ ClientXfer(t))
    /\ \A p \in Pipes : WF_allVars(fault = "none" /\ ChanEvent(p))
    /\ WF_allVars(fault = "none" /\ EventXfer)
    /\ WF_allVars(fault = "none" /\ CloseXfer)

FairXferSpec == XferSpec /\ XferFairness

-----------------------------------------------------------------------------
(* Properties *)

\* An IRP belongs to the pool or to the one client that took it; an IRP in the pool
\* is in no pipe and has no bits left that the next client would take for its own; and
\* a client that passed the semaphore finds an IRP.
PoolSound ==
    LET taking == {t \in Clients : xfer[t].at = "taking"}
        given == {t \in Clients : xfer[t].at = "given"}
    IN  /\ Elems(pool.free) = Irps \ {xfer[t].irp : t \in Clients}
        /\ Len(pool.free) = Cardinality(Elems(pool.free))
        /\ \A t, u \in Clients : xfer[t].irp = xfer[u].irp /\ xfer[t].irp # NoIrp => t = u
        /\ \A i \in Elems(pool.free) : irp[i] = NewIrp /\ bits[i] = {}
        /\ Len(pool.free) = pool.count + Cardinality(taking) + Cardinality(given)

\* A transfer that returns HCD_PIPE_EVENT_IRP_DONE was completed.
DoneMeansCompleted ==
    \A t \in Clients :
        xfer[t].at = "end" /\ xfer[t].result = XUSB_OK => status[xfer[t].irp] = "COMPLETED"

\* The one task that serves the events of all pipes never waits for a transfer: there
\* is none in flight on a pipe it resets.
EventTaskNeverBlocks ==
    At("reset") /\ Allocated(evtask.pipe) /\ CommandAllowed(EventTask, evtask.pipe)
        => pipe[evtask.pipe].inflight = NoIrp

\* A transfer returns.
TransfersReturn == \A t \in Clients : xfer[t].at = "wait" ~> xfer[t].at = "end" \/ Over
=============================================================================
