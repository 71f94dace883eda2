------------------------------ MODULE HcdPipe ------------------------------
(***************************************************************************)
(* The pipes of the Host Controller Driver (components/usb/hcd.c): the     *)
(* queues of I/O request packets (IRPs) of every pipe, the two lists of    *)
(* pipes the port keeps, the channel interrupt, the pipe commands that     *)
(* block a task, and the three walks a port makes over its pipes.          *)
(*                                                                         *)
(* Every action is one critical section, or the part of a function between *)
(* two points where it leaves the critical section (a blocking wait, the   *)
(* callback of an invalidated pipe).  The interrupt handler runs to        *)
(* completion on the single core of the ESP32-S2, so it is one action.     *)
(*                                                                         *)
(* The rest of the port is the environment of this module: the section     *)
(* "The port" lets the port state change in every way _intr_hdlr_hprt and  *)
(* the port functions can change it.  HcdPort models that part in detail.  *)
(*                                                                         *)
(* A definition marked "mutant" is no part of the specification: it is the *)
(* definition that follows it with a plausible bug, and some property is   *)
(* violated when it takes the place of that definition.                    *)
(***************************************************************************)
EXTENDS Naturals, FiniteSets, Sequences

CONSTANTS
    Pipes,          \* pipe objects (pipe_t)
    Irps,           \* IRPs (usb_irp_t)
    Tasks,          \* FreeRTOS tasks that call the driver
    Addrs,          \* values of the endpoint characteristics (dev_addr, mps)
    NoPipe, NoIrp, NoTask,      \* the NULL pointers
    Submits,        \* Submits[t]: the IRPs task t enqueues
    PipeCmds,       \* the pipe commands the tasks issue
    ErrorEvents,    \* the error events the hardware raises on a channel
    TaskPortStates, \* the states the port functions give the port, ENABLED apart
    LossPortStates, \* the states the port can be left in when its device is lost
    Rules           \* rules the tasks keep: see Keeps

ASSUME NullAssumption ==
    /\ NoPipe \notin Pipes
    /\ NoIrp \notin Irps
    /\ NoTask \notin Tasks

ASSUME ParameterAssumption ==
    /\ Addrs # {}
    /\ Submits \in [Tasks -> SUBSET Irps]
    /\ PipeCmds \subseteq {"ABORT", "RESET", "CLEAR", "HALT"}
    /\ ErrorEvents \subseteq {"ERROR_XFER", "ERROR_OVERFLOW", "ERROR_STALL"}
    /\ TaskPortStates \subseteq {"NOT_POWERED", "DISCONNECTED", "DISABLED", "RESETTING",
                                 "SUSPENDED", "RESUMING"}
    /\ LossPortStates \subseteq {"NOT_POWERED", "DISABLED", "RESETTING", "RECOVERY"}
    /\ Rules \subseteq {"batch", "quiet", "still", "turns", "fresh"}

VARIABLES
    pipe,       \* the pipe objects
    irp,        \* the fields of an IRP the driver keeps for itself
    idle,       \* port->pipes_idle_tailq; num_pipes_idle is its length
    active,     \* port->pipes_active_tailq; num_pipes_queued is its length
    hw,         \* the pipes whose channel is executing a descriptor list
    call,       \* where each task is inside a function that takes several steps
    notified,   \* the tasks whose FreeRTOS notification value is not zero
    inval,      \* the cursor of _port_invalidate_all_pipes
    port,       \* the fields of the port that the pipes read or write
    fault       \* the assertion that failed, or the memory error; "none" so far

vars == <<pipe, irp, idle, active, hw, call, notified, inval, port, fault>>

-----------------------------------------------------------------------------
(* Types *)

PortStates == {"NOT_POWERED", "DISCONNECTED", "DISABLED", "RESETTING", "ENABLED",
               "SUSPENDED", "RESUMING", "RECOVERY"}
Blocking == {"ABORT", "RESET", "HALT"}      \* the commands that call _pipe_wait_done
Ops == {"none", "enqueue"} \cup Blocking
PipeEvents == {"NONE", "IRP_DONE", "INVALID"} \cup ErrorEvents
Statuses == {"none", "COMPLETED", "CANCELLED", "NO_DEVICE"} \cup ErrorEvents

PipeRecord ==
    [state : {"FREE", "ACTIVE", "HALTED", "INVALID"},
     pending : Seq(Irps), done : Seq(Irps), inflight : Irps \cup {NoIrp},
     waiting : BOOLEAN,     \* flags.waiting_xfer_done
     paused : BOOLEAN,      \* flags.paused
     cmd : BOOLEAN,         \* flags.pipe_cmd_processing
     waiter : Tasks \cup {NoTask},  \* task_waiting_pipe_notif
     last_event : PipeEvents,
     addr : Addrs]          \* ep_char

IrpRecord ==
    [flag : {"IDLE", "PENDING", "INFLIGHT", "DONE"}, ptr : Pipes \cup {NoPipe},
     status : Statuses]

CallRecord ==
    [op : Ops, pipe : Pipes \cup {NoPipe}, irp : Irps \cup {NoIrp}, woken : BOOLEAN]

PortRecord ==
    [state : PortStates,
     conn : BOOLEAN,            \* flags.conn_devc_ena
     waiting_all : BOOLEAN,     \* flags.waiting_all_pipes_pause
     num_waiting : Nat,         \* flags.num_pipes_waiting_pause
     waiter : Tasks \cup {NoTask},  \* task_waiting_port_notif
     woken : BOOLEAN]           \* the waiter has consumed its notification

TypeOK ==
    /\ pipe \in [Pipes -> PipeRecord]
    /\ irp \in [Irps -> IrpRecord]
    /\ idle \in Seq(Pipes)
    /\ active \in Seq(Pipes)
    /\ hw \subseteq Pipes
    /\ call \in [Tasks -> CallRecord]
    /\ notified \subseteq Tasks
    /\ inval \in [phase : {"off", "active", "idle"}, cur : Pipes \cup {NoPipe}]
    /\ port \in PortRecord
    /\ fault \in {"none", "tailq", "use_after_free", "no_waiter", "inflight_not_null",
                  "chan_not_halted"}

IdleCall == [op |-> "none", pipe |-> NoPipe, irp |-> NoIrp, woken |-> FALSE]

\* A pipe object as hcd_pipe_alloc leaves it (state ACTIVE), or a freed one.
NewPipe(state, a) ==
    [state |-> state, pending |-> <<>>, done |-> <<>>, inflight |-> NoIrp,
     waiting |-> FALSE, paused |-> FALSE, cmd |-> FALSE, waiter |-> NoTask,
     last_event |-> "NONE", addr |-> a]

NewIrp == [flag |-> "IDLE", ptr |-> NoPipe, status |-> "none"]

\* There is no pipe yet; the port has an enabled device, or is still off.
PipeInit ==
    /\ pipe = [p \in Pipes |-> NewPipe("FREE", CHOOSE a \in Addrs : TRUE)]
    /\ irp = [i \in Irps |-> NewIrp]
    /\ idle = <<>> /\ active = <<>>
    /\ hw = {}
    /\ call = [t \in Tasks |-> IdleCall]
    /\ notified = {}
    /\ inval = [phase |-> "off", cur |-> NoPipe]
    /\ port \in {[state |-> s, conn |-> s = "ENABLED", waiting_all |-> FALSE,
                 num_waiting |-> 0, waiter |-> NoTask, woken |-> FALSE]
                    : s \in {"ENABLED", "NOT_POWERED"}}
    /\ fault = "none"

-----------------------------------------------------------------------------
(* Sequences and queues *)

Elems(s) == {s[n] : n \in DOMAIN s}
RemoveNth(s, n) == SubSeq(s, 1, n - 1) \o SubSeq(s, n + 1, Len(s))
IndexIn(s, e) == CHOOSE n \in DOMAIN s : s[n] = e
Without(s, e) == RemoveNth(s, IndexIn(s, e))

\* The IRPs of a pipe in the order in which a client gets them back.
InFlightSeq(q) == IF q.inflight = NoIrp THEN <<>> ELSE <<q.inflight>>
Queue(q) == q.done \o InFlightSeq(q) \o q.pending

\* _pipe_get_next_irp, when the pipe has a pending IRP.
HasNextOffByOne(q) == Len(q.pending) > 1  \* mutant: the last pending IRP is overlooked
HasNext(q) == q.pending # <<>>
\* mutant: without TAILQ_REMOVE
TakeNextUnremoved(q) == [q EXCEPT !.inflight = Head(q.pending)]
TakeNext(q) == [q EXCEPT !.inflight = Head(q.pending), !.pending = Tail(q.pending)]

\* _pipe_return_cur_irp.
\* mutant: inflight_irp cleared first
ReturnCurIrpCleared(q) == [q EXCEPT !.inflight = NoIrp, !.done = Append(@, NoIrp)]
ReturnCurIrp(q) == [q EXCEPT !.done = Append(q.done, q.inflight), !.inflight = NoIrp]

\* _pipe_retire.
\* mutant: the tail queues concatenated the other way
RetireSwapped(q) == [q EXCEPT !.done = q.pending \o q.done, !.pending = <<>>]
Retire(q) == [q EXCEPT !.done = q.done \o q.pending, !.pending = <<>>]

\* The IRPs of S finish with one status.
Finished(m, S, st) ==
    [i \in Irps |-> IF i \in S THEN [m[i] EXCEPT !.flag = "DONE", !.status = st] ELSE m[i]]

InFlight(m, i) == [m EXCEPT ![i].flag = "INFLIGHT"]

\* A task is notified: its FreeRTOS notification value is incremented.
NotifyNobody(t) == UNCHANGED notified  \* mutant: the notification is forgotten
Notify(t) == notified' = notified \cup {t}

\* A failed assertion or a memory error ends the run.
Fail(label) ==
    /\ fault' = label
    /\ UNCHANGED <<pipe, irp, idle, active, hw, call, notified, inval, port>>

\* The task is in none of the functions that take several steps.
CanCall(t) == call[t].op = "none" /\ port.waiter # t
Allocated(p) == pipe[p].state # "FREE"

\* Rules a careful client keeps. "batch": IRPs are dequeued only when nothing is
\* in flight on the pipe; "quiet": nothing is enqueued on a pipe that a port
\* command has paused; "still": no IRP is dequeued and no pipe is freed while
\* the port invalidates its pipes; "turns": no pipe is allocated or commanded
\* while a port command has the port or its pipes in hand, and the other way
\* round; "fresh": a bus reset comes before the first pipe.
Keeps(rule, holds) == rule \in Rules => holds
NoWalk == inval.phase = "off"
Steady == port.state = "ENABLED" /\ port.waiter = NoTask
NoPipes == idle = <<>> /\ active = <<>>

-----------------------------------------------------------------------------
(* Clients: IRPs *)

\* hcd_irp_enqueue up to the critical section: the IRP is checked outside of it.
EnqueueCheck(t, p, i) ==
    /\ CanCall(t) /\ Allocated(p)
    /\ i \in Submits[t]
    /\ irp[i].ptr = NoPipe /\ irp[i].flag = "IDLE"
    /\ call' = [call EXCEPT ![t] = [op |-> "enqueue", pipe |-> p, irp |-> i, woken |-> FALSE]]
    /\ UNCHANGED <<pipe, irp, idle, active, hw, notified, inval, port, fault>>

Enqueuing(t) == call[t].op = "enqueue"
Return(t) == call' = [call EXCEPT ![t] = IdleCall]

\* The pipe was freed between the check and the critical section.
EnqueueFreed(t) ==
    /\ Enqueuing(t) /\ ~Allocated(call[t].pipe)
    /\ Fail("use_after_free")

\* The pipe and its port are in a state to receive IRPs.
\* mutant: pipe_cmd_processing not tested
AcceptsCommanded(p) == port.state = "ENABLED" /\ pipe[p].state = "ACTIVE"
Accepts(p) == port.state = "ENABLED" /\ pipe[p].state = "ACTIVE" /\ ~pipe[p].cmd

EnqueueReject(t) ==
    /\ Enqueuing(t)
    /\ Allocated(call[t].pipe) /\ ~Accepts(call[t].pipe)
    /\ Return(t)
    /\ UNCHANGED <<pipe, irp, idle, active, hw, notified, inval, port, fault>>

\* Nothing to wait for: the transfer starts at once.
\* mutant: flags.paused not tested
CanStartPaused(q) == q.pending = <<>> /\ q.inflight = NoIrp
CanStart(q) == ~q.paused /\ q.pending = <<>> /\ q.inflight = NoIrp

EnqueueStart(t) ==
    LET p == call[t].pipe
        i == call[t].irp
    IN  /\ Enqueuing(t) /\ Allocated(p) /\ Accepts(p) /\ CanStart(pipe[p])
        /\ pipe' = [pipe EXCEPT ![p].inflight = i]
        /\ irp' = [irp EXCEPT ![i].ptr = p, ![i].flag = "INFLIGHT"]
        /\ hw' = hw \cup {p}
        /\ IF pipe[p].done = <<>>
           THEN idle' = Without(idle, p) /\ active' = Append(active, p)
           ELSE UNCHANGED <<idle, active>>
        /\ Return(t)
        /\ UNCHANGED <<notified, inval, port, fault>>

EnqueuePend(t) ==
    LET p == call[t].pipe
        i == call[t].irp
    IN  /\ Enqueuing(t) /\ Allocated(p) /\ Accepts(p) /\ ~CanStart(pipe[p])
        /\ Keeps("quiet", ~pipe[p].paused)
        /\ pipe' = [pipe EXCEPT ![p].pending = Append(@, i)]
        /\ irp' = [irp EXCEPT ![i].ptr = p, ![i].flag = "PENDING"]
        /\ Return(t)
        /\ UNCHANGED <<idle, active, hw, notified, inval, port, fault>>

\* hcd_irp_dequeue. A pipe with nothing done and nothing pending goes to the idle
\* list, whatever is in flight; the list macros are only meant for a pipe that
\* is in the active list.
LeavesActiveEarly(q) == Len(q.done) = 1  \* mutant: num_irp_pending not tested
\* mutant: num_irp_done tested before its decrement
LeavesActiveLate(q) == q.done = <<>> /\ q.pending = <<>>
LeavesActive(q) == Len(q.done) = 1 /\ q.pending = <<>>

DequeueMisplaced(t, p) ==
    /\ CanCall(t) /\ Allocated(p)
    /\ Keeps("batch", pipe[p].inflight = NoIrp) /\ Keeps("still", NoWalk)
    /\ LeavesActive(pipe[p]) /\ p \notin Elems(active)
    /\ Fail("tailq")

Dequeue(t, p) ==
    LET i == Head(pipe[p].done)
    IN  /\ CanCall(t) /\ Allocated(p)
        /\ pipe[p].done # <<>>
        /\ Keeps("batch", pipe[p].inflight = NoIrp) /\ Keeps("still", NoWalk)
        /\ LeavesActive(pipe[p]) => p \in Elems(active)
        /\ pipe' = [pipe EXCEPT ![p].done = Tail(@)]
        /\ irp' = [irp EXCEPT ![i] = NewIrp]    \* the client takes the result
        /\ IF LeavesActive(pipe[p])
           THEN active' = Without(active, p) /\ idle' = Append(idle, p)
           ELSE UNCHANGED <<idle, active>>
        /\ UNCHANGED <<hw, call, notified, inval, port, fault>>

\* hcd_irp_abort: only an IRP that is not yet executed can be aborted.
AbortIrp(t, i) ==
    LET p == irp[i].ptr
    IN  /\ CanCall(t)
        /\ irp[i].ptr # NoPipe /\ irp[i].flag = "PENDING"
        /\ pipe' = [pipe EXCEPT ![p].pending = Without(@, i), ![p].done = Append(@, i)]
        /\ irp' = Finished(irp, {i}, "CANCELLED")
        /\ UNCHANGED <<idle, active, hw, call, notified, inval, port, fault>>

-----------------------------------------------------------------------------
(* Clients: pipes *)

\* hcd_pipe_alloc. The model names objects, not addresses: a new pipe is not one
\* that a function still holds a stale pointer to.
Alloc(t, p) ==
    /\ CanCall(t) /\ pipe[p].state = "FREE" /\ port.conn
    /\ Keeps("turns", Steady)
    /\ \A u \in Tasks : call[u].pipe # p
    /\ inval.cur # p
    /\ \E a \in Addrs : pipe' = [pipe EXCEPT ![p] = NewPipe("ACTIVE", a)]
    /\ idle' = Append(idle, p)
    /\ UNCHANGED <<irp, active, hw, call, notified, inval, port, fault>>

\* hcd_pipe_free.
FreePipe(t, p) ==
    /\ CanCall(t) /\ Allocated(p)
    /\ Queue(pipe[p]) = <<>>
    /\ Keeps("still", NoWalk)
    /\ pipe' = [pipe EXCEPT ![p] = NewPipe("FREE", pipe[p].addr)]
    /\ idle' = Without(idle, p)
    /\ UNCHANGED <<irp, active, hw, call, notified, inval, port, fault>>

\* hcd_pipe_update. Nothing is said of an IRP that is in flight.
Update(t, p, a) ==
    /\ CanCall(t) /\ Allocated(p)
    /\ pipe[p].state # "INVALID" /\ ~pipe[p].cmd
    /\ pipe[p].pending = <<>> /\ pipe[p].done = <<>>
    /\ pipe' = [pipe EXCEPT ![p].addr = a]
    /\ UNCHANGED <<irp, idle, active, hw, call, notified, inval, port, fault>>

\* hcd_pipe_get_event.
GetEvent(t, p) ==
    /\ CanCall(t) /\ Allocated(p)
    /\ pipe' = [pipe EXCEPT ![p].last_event = "NONE"]
    /\ UNCHANGED <<irp, idle, active, hw, call, notified, inval, port, fault>>

-----------------------------------------------------------------------------
(* Clients: pipe commands *)

CommandAllowedTwice(t, p) ==  \* mutant: pipe_cmd_processing not tested
    /\ CanCall(t) /\ Allocated(p)
    /\ port.conn /\ pipe[p].state # "INVALID"
CommandAllowed(t, p) ==
    /\ CanCall(t) /\ Allocated(p)
    /\ ~pipe[p].cmd /\ port.conn /\ pipe[p].state # "INVALID"
    /\ Keeps("turns", Steady)

\* What a command does once nothing is in flight.
Commanded(q, c) ==
    CASE c = "ABORT" -> Retire(q)
      [] c = "RESET" -> [Retire(q) EXCEPT !.state = "ACTIVE"]
      [] c = "HALT"  -> [q EXCEPT !.state = "HALTED"]
CommandRetires(c) == c \in {"ABORT", "RESET"}
CommandedIrpsAll(q, c) ==  \* mutant: the done IRPs marked as well
    IF CommandRetires(c) THEN Finished(irp, Elems(q.done \o q.pending), "CANCELLED") ELSE irp
CommandedIrps(q, c) ==
    IF CommandRetires(c) THEN Finished(irp, Elems(q.pending), "CANCELLED") ELSE irp

\* No transfer to wait for.
CommandNow(t, p, c) ==
    /\ CommandAllowed(t, p) /\ c \in PipeCmds \cap Blocking
    /\ pipe[p].inflight = NoIrp
    /\ pipe' = [pipe EXCEPT ![p] = Commanded(@, c)]
    /\ irp' = CommandedIrps(pipe[p], c)
    /\ UNCHANGED <<idle, active, hw, call, notified, inval, port, fault>>

\* _pipe_wait_done: the task blocks until the pipe's transfer completes.
CommandBlock(t, p, c) ==
    /\ CommandAllowed(t, p) /\ c \in PipeCmds \cap Blocking
    /\ pipe[p].inflight # NoIrp
    /\ pipe' = [pipe EXCEPT ![p].cmd = TRUE, ![p].waiting = TRUE, ![p].waiter = t]
    /\ call' = [call EXCEPT ![t] = [op |-> c, pipe |-> p, irp |-> NoIrp, woken |-> FALSE]]
    /\ UNCHANGED <<irp, idle, active, hw, notified, inval, port, fault>>

\* HCD_PIPE_CMD_CLEAR starts the next pending IRP; _pipe_get_next_irp asserts
\* that none is in flight.
ClearBusy(t, p) ==
    /\ CommandAllowed(t, p) /\ "CLEAR" \in PipeCmds
    /\ pipe[p].state = "HALTED" /\ pipe[p].inflight # NoIrp
    /\ Fail("inflight_not_null")

CommandClear(t, p) ==
    /\ CommandAllowed(t, p) /\ "CLEAR" \in PipeCmds
    /\ pipe[p].state = "HALTED" /\ pipe[p].inflight = NoIrp
    /\ IF HasNext(pipe[p])
       THEN /\ pipe' = [pipe EXCEPT ![p] = [TakeNext(@) EXCEPT !.state = "ACTIVE"]]
            /\ irp' = InFlight(irp, Head(pipe[p].pending))
            /\ hw' = hw \cup {p}
       ELSE /\ pipe' = [pipe EXCEPT ![p].state = "ACTIVE"]
            /\ UNCHANGED <<irp, hw>>
    /\ UNCHANGED <<idle, active, call, notified, inval, port, fault>>

InCommand(t) == call[t].op \in Blocking

\* ulTaskNotifyTake returns, and clears the task's notification value.
CommandWake(t) ==
    /\ InCommand(t) /\ ~call[t].woken /\ t \in notified
    /\ notified' = notified \ {t}
    /\ call' = [call EXCEPT ![t].woken = TRUE]
    /\ UNCHANGED <<pipe, irp, idle, active, hw, inval, port, fault>>

\* The task is back in the critical section, which it entered after it woke up.
Resumes(t) == InCommand(t) /\ call[t].woken

ResumeFreed(t) ==
    /\ Resumes(t) /\ ~Allocated(call[t].pipe)
    /\ Fail("use_after_free")

\* The pipe became invalid: ESP_ERR_INVALID_RESPONSE.
ResumeInvalid(t) ==
    LET p == call[t].pipe
    IN  /\ Resumes(t) /\ pipe[p].state = "INVALID"
        /\ pipe' = [pipe EXCEPT ![p].waiter = NoTask, ![p].waiting = FALSE, ![p].cmd = FALSE]
        /\ Return(t)
        /\ UNCHANGED <<irp, idle, active, hw, notified, inval, port, fault>>

ValidAlways(p) == Allocated(p)  \* mutant: the state not tested after the wait
Valid(p) == pipe[p].state \in {"ACTIVE", "HALTED"}

\* assert(chan_halted): the channel still runs.
ResumeRunning(t) ==
    /\ Resumes(t) /\ Valid(call[t].pipe) /\ call[t].pipe \in hw
    /\ Fail("chan_not_halted")

\* _pipe_retire asserts that nothing is in flight.
ResumeBusy(t) ==
    LET p == call[t].pipe
    IN  /\ Resumes(t) /\ Valid(p) /\ p \notin hw
        /\ pipe[p].inflight # NoIrp /\ CommandRetires(call[t].op)
        /\ Fail("inflight_not_null")

ResumeDone(t) ==
    LET p == call[t].pipe
        c == call[t].op
    IN  /\ Resumes(t) /\ Valid(p) /\ p \notin hw
        /\ CommandRetires(c) => pipe[p].inflight = NoIrp
        /\ pipe' = [pipe EXCEPT ![p] =
                       [Commanded(@, c) EXCEPT !.waiter = NoTask, !.cmd = FALSE]]
        /\ irp' = CommandedIrps(pipe[p], c)
        /\ Return(t)
        /\ UNCHANGED <<idle, active, hw, notified, inval, port, fault>>

-----------------------------------------------------------------------------
(* The channel interrupt: _intr_hdlr_chan *)

\* The interrupt is ignored when the port has no enabled device.
ChanIgnored(p) ==
    /\ p \in hw /\ ~port.conn
    /\ hw' = hw \ {p}
    /\ UNCHANGED <<pipe, irp, idle, active, call, notified, inval, port, fault>>

SlotDone(p) == p \in hw /\ port.conn
DoneQueue(q) == [ReturnCurIrp(q) EXCEPT !.last_event = "IRP_DONE"]
DoneIrps(p) == Finished(irp, {pipe[p].inflight}, "COMPLETED")

\* Nobody waits for this pipe: load the next transfer, if there is one.
ChanDoneNext(p) ==
    LET q == DoneQueue(pipe[p])
    IN  /\ SlotDone(p) /\ ~pipe[p].waiting
        /\ IF HasNext(q)
           THEN /\ pipe' = [pipe EXCEPT ![p] = TakeNext(q)]
                /\ irp' = InFlight(DoneIrps(p), Head(q.pending))
                /\ UNCHANGED hw
           ELSE /\ pipe' = [pipe EXCEPT ![p] = q]
                /\ irp' = DoneIrps(p)
                /\ hw' = hw \ {p}
        /\ UNCHANGED <<idle, active, call, notified, inval, port, fault>>

\* _internal_port_event_notify_from_isr and _internal_pipe_event_notify assert
\* that a task waits.
ChanDoneOrphan(p) ==
    /\ SlotDone(p) /\ pipe[p].waiting
    /\ IF port.waiting_all
       THEN port.num_waiting = 1 /\ port.waiter = NoTask
       ELSE pipe[p].waiter = NoTask
    /\ Fail("no_waiter")

\* mutant: waiting_xfer_done not reset
PausedOnDoneStill(q) == [DoneQueue(q) EXCEPT !.paused = TRUE]
PausedOnDone(q) == [DoneQueue(q) EXCEPT !.waiting = FALSE, !.paused = TRUE]

\* A port command waits for the pipes; the last one wakes it up.
ChanDonePause(p) ==
    LET last == port.num_waiting = 1
    IN  /\ SlotDone(p) /\ pipe[p].waiting /\ port.waiting_all
        /\ last => port.waiter # NoTask
        /\ pipe' = [pipe EXCEPT ![p] = PausedOnDone(@)]
        /\ irp' = DoneIrps(p)
        /\ hw' = hw \ {p}
        /\ port' = [port EXCEPT !.num_waiting = @ - 1, !.waiting_all = ~last]
        /\ IF last THEN Notify(port.waiter) ELSE UNCHANGED notified
        /\ UNCHANGED <<idle, active, call, inval, fault>>

\* A pipe command waits for this pipe.
ChanDoneCommand(p) ==
    /\ SlotDone(p) /\ pipe[p].waiting /\ ~port.waiting_all
    /\ pipe[p].waiter # NoTask
    /\ pipe' = [pipe EXCEPT ![p] = [DoneQueue(@) EXCEPT !.waiting = FALSE]]
    /\ irp' = DoneIrps(p)
    /\ hw' = hw \ {p}
    /\ Notify(pipe[p].waiter)
    /\ UNCHANGED <<idle, active, call, inval, port, fault>>

\* The transfer failed: the pipe halts, and nothing is said to a waiting task.
ChanError(p, e) ==
    /\ p \in hw /\ port.conn
    /\ pipe' = [pipe EXCEPT ![p] =
                   [ReturnCurIrp(@) EXCEPT !.state = "HALTED", !.last_event = e]]
    /\ irp' = Finished(irp, {pipe[p].inflight}, e)
    /\ hw' = hw \ {p}
    /\ UNCHANGED <<idle, active, call, notified, inval, port, fault>>

-----------------------------------------------------------------------------
(* The port.  The port mutex lets one task at a time run a port function, so a *)
(* task of the port moves only when no other one walks over the pipes.         *)

PortUnchanged == UNCHANGED <<pipe, irp, idle, active, hw, call, inval, fault>>

\* The interrupt reports an enabled device, after a reset.
PortEnabled ==
    /\ port.state = "RESETTING"
    /\ port' = [port EXCEPT !.state = "ENABLED", !.conn = TRUE]
    /\ UNCHANGED notified /\ PortUnchanged

\* The interrupt reports that the device is gone or disabled, and may wake up the
\* port command that disabled it.
PortLost(s) ==
    /\ port' = [port EXCEPT !.state = s, !.conn = FALSE]
    /\ \/ UNCHANGED notified
       \/ port.waiter # NoTask /\ Notify(port.waiter)
    /\ PortUnchanged

\* A port function moves the port to state s.  It is suspended only once its pipes
\* are paused, and enabled again only by UnpauseAll.
PortMoves(s) ==
    CASE s = "RESETTING" -> port.state \in {"ENABLED", "DISABLED"} /\ Keeps("fresh", NoPipes)
      [] s = "RESUMING"  -> port.state = "SUSPENDED"
      [] s = "DISABLED" -> ~port.conn
      [] s = "DISCONNECTED" -> ~port.conn \/ port.state = "NOT_POWERED"
      [] s = "NOT_POWERED" -> TRUE
      [] s = "SUSPENDED" -> FALSE

PortSet(s) ==
    /\ NoWalk /\ port.waiter = NoTask /\ PortMoves(s)
    /\ port' = [port EXCEPT !.state = s]
    /\ UNCHANGED notified /\ PortUnchanged

\* _port_disable of a suspended port waits for the interrupt.
PortWait(t) ==
    /\ NoWalk /\ port.waiter = NoTask /\ port.state = "SUSPENDED" /\ LossPortStates # {}
    /\ CanCall(t)
    /\ port' = [port EXCEPT !.waiter = t]
    /\ UNCHANGED notified /\ PortUnchanged

\* The task of a port command wakes up, and goes on in the critical section: the
\* port is suspended, or was lost, or is to be disabled and waited for again.
PortWake ==
    /\ port.waiter \in notified /\ ~port.woken
    /\ notified' = notified \ {port.waiter}
    /\ port' = [port EXCEPT !.woken = TRUE]
    /\ PortUnchanged

PortReturn ==
    /\ port.woken
    /\ \/ port' = [port EXCEPT !.waiter = NoTask, !.woken = FALSE]
       \/ /\ port.state = "ENABLED"
          /\ port' = [port EXCEPT !.waiter = NoTask, !.woken = FALSE, !.state = "SUSPENDED"]
       \/ /\ port.state = "ENABLED" /\ LossPortStates # {}
          /\ port' = [port EXCEPT !.woken = FALSE]
    /\ UNCHANGED notified /\ PortUnchanged

\* A disable that was requested before the device was lost in another way is
\* reported when no command waits for it any more.
PortOrphan ==
    /\ "DISABLED" \in LossPortStates /\ LossPortStates # {"DISABLED"}
    /\ port.waiter = NoTask
    /\ Fail("no_waiter")

\* _port_pause_all_pipes: the pipes in flight are waited for, the others paused.
InFlightPipes == {p \in Elems(active) : pipe[p].inflight # NoIrp}
PausedPipes ==
    [p \in Pipes |->
        IF p \in InFlightPipes THEN [pipe[p] EXCEPT !.waiting = TRUE]
        ELSE IF p \in Elems(active) \cup Elems(idle) THEN [pipe[p] EXCEPT !.paused = TRUE]
        ELSE pipe[p]]

PausesAll ==
    /\ "SUSPENDED" \in TaskPortStates
    /\ NoWalk /\ Steady
    /\ Keeps("turns", \A p \in Pipes : ~pipe[p].cmd)
    /\ pipe' = PausedPipes
    /\ UNCHANGED <<irp, idle, active, hw, call, notified, inval, fault>>

PauseAndWait(t) ==
    /\ PausesAll /\ InFlightPipes # {}
    /\ CanCall(t)
    /\ port' = [port EXCEPT !.waiting_all = TRUE, !.waiter = t,
                            !.num_waiting = Cardinality(InFlightPipes)]

\* Nothing to wait for: the port is suspended, or disabled and waited for.
PauseAtOnce ==
    /\ PausesAll /\ InFlightPipes = {}
    /\ \/ port' = [port EXCEPT !.state = "SUSPENDED"]
       \/ \E t \in Tasks : /\ LossPortStates # {} /\ CanCall(t)
                          /\ port' = [port EXCEPT !.waiter = t]

\* _port_unpause_all_pipes, at the end of a resume; _pipe_get_next_irp asserts
\* that nothing is in flight, even for a pipe with nothing pending.
Resuming == NoWalk /\ port.state = "RESUMING" /\ port.conn /\ port.waiter = NoTask

UnpauseBusy ==
    /\ Resuming /\ InFlightPipes # {}
    /\ Fail("inflight_not_null")

\* mutant: _pipe_get_next_irp not called
UnpausedUntaken(p) == [pipe[p] EXCEPT !.paused = FALSE]
Unpaused(p) ==
    LET q == [pipe[p] EXCEPT !.paused = FALSE]
    IN  IF p \in Elems(active) /\ HasNext(q) THEN TakeNext(q) ELSE q

UnpauseAll ==
    LET starts == {p \in Elems(active) : HasNext(pipe[p])}
        next == {Head(pipe[p].pending) : p \in starts}
    IN  /\ Resuming /\ InFlightPipes = {}
        /\ pipe' = [p \in Pipes |-> Unpaused(p)]
        /\ irp' = [i \in Irps |-> IF i \in next THEN [irp[i] EXCEPT !.flag = "INFLIGHT"]
                                                ELSE irp[i]]
        /\ hw' = hw \cup starts
        /\ port' = [port EXCEPT !.state = "ENABLED"]
        /\ UNCHANGED <<idle, active, call, notified, inval, fault>>

-----------------------------------------------------------------------------
(* _port_invalidate_all_pipes.  It leaves the critical section to wake a task *)
(* and to call the callback of each pipe, and reads the next pointer of the   *)
(* pipe only after that: a pipe that moved to the idle list meanwhile makes   *)
(* the walk over the active list end early.                                   *)

\* The pipe after p in the list p is in now.
Successor(p) ==
    LET s == IF p \in Elems(idle) THEN idle ELSE active
        n == IndexIn(s, p) + 1
    IN  IF n \in DOMAIN s THEN s[n] ELSE NoPipe

\* Where the walk goes on: at pipe p of a list, or, at its end, at the next list.
First(s) == IF s = <<>> THEN NoPipe ELSE Head(s)
\* mutant: the idle list not walked
WalkToActiveOnly(phase, p) == [phase |-> phase, cur |-> p]
WalkTo(phase, p) ==
    IF p = NoPipe /\ phase = "active" THEN [phase |-> "idle", cur |-> First(idle)]
    ELSE [phase |-> phase, cur |-> p]

Invalidated(q) == [q EXCEPT !.state = "INVALID", !.last_event = "INVALID"]

\* A pipe with queued IRPs: the in-flight IRP and the pending ones are retired,
\* and a task that waits for the pipe is woken up.
\* mutant: no retire after the return of the current IRP
EmptiedOrReturned(q) == IF q.inflight = NoIrp THEN Retire(q) ELSE ReturnCurIrp(q)
Emptied(q) == IF q.inflight = NoIrp THEN Retire(q) ELSE Retire(ReturnCurIrp(q))

InvalidateActive(p) ==
    LET q == Invalidated(pipe[p])
    IN  /\ pipe' = [pipe EXCEPT ![p] = Emptied(q)]
        /\ irp' = Finished(irp, Elems(InFlightSeq(q) \o q.pending), "NO_DEVICE")
        /\ hw' = hw \ {p}
        /\ IF q.waiter = NoTask THEN UNCHANGED notified ELSE Notify(q.waiter)

InvalidateIdle(p) ==
    /\ pipe' = [pipe EXCEPT ![p] = Invalidated(@)]
    /\ UNCHANGED <<irp, hw, notified>>

Visit(v) ==
    /\ \/ v.cur # NoPipe /\ v.phase = "active" /\ InvalidateActive(v.cur) /\ inval' = v
       \/ v.cur # NoPipe /\ v.phase = "idle" /\ InvalidateIdle(v.cur) /\ inval' = v
       \/ /\ v.cur = NoPipe
          /\ inval' = [phase |-> "off", cur |-> NoPipe]
          /\ UNCHANGED <<pipe, irp, hw, notified>>
    /\ UNCHANGED <<idle, active, call, fault>>

InvalidateBegin ==
    /\ NoWalk /\ ~port.conn
    /\ port.waiter = NoTask \/ port.woken
    /\ port' = [port EXCEPT !.waiter = NoTask, !.woken = FALSE]
    /\ Visit(WalkTo("active", First(active)))

InvalidateFreed ==
    /\ ~NoWalk /\ ~Allocated(inval.cur)
    /\ Fail("use_after_free")

InvalidateNext ==
    /\ ~NoWalk /\ Allocated(inval.cur)
    /\ Visit(WalkTo(inval.phase, Successor(inval.cur)))
    /\ UNCHANGED port

-----------------------------------------------------------------------------
\* A step of a task inside a function it has called.
CallStep(t) ==
    \/ EnqueueFreed(t) \/ EnqueueReject(t) \/ EnqueueStart(t) \/ EnqueuePend(t)
    \/ CommandWake(t)
    \/ ResumeFreed(t) \/ ResumeInvalid(t) \/ ResumeRunning(t) \/ ResumeBusy(t)
    \/ ResumeDone(t)

\* A step of a task, inside a call or calling the driver.
ClientStep(t) ==
    \/ \E p \in Pipes, i \in Irps : EnqueueCheck(t, p, i)
    \/ \E p \in Pipes : Dequeue(t, p) \/ DequeueMisplaced(t, p)
    \/ \E i \in Irps : AbortIrp(t, i)
    \/ \E p \in Pipes : Alloc(t, p) \/ FreePipe(t, p) \/ GetEvent(t, p)
    \/ \E p \in Pipes, a \in Addrs : Update(t, p, a)
    \/ \E p \in Pipes, c \in Blocking : CommandNow(t, p, c) \/ CommandBlock(t, p, c)
    \/ \E p \in Pipes : CommandClear(t, p) \/ ClearBusy(t, p)
    \/ CallStep(t)

\* The interrupt of a channel.
ChanStep(p) ==
    \/ ChanIgnored(p)
    \/ ChanDoneNext(p) \/ ChanDoneOrphan(p) \/ ChanDonePause(p) \/ ChanDoneCommand(p)
    \/ \E e \in ErrorEvents : ChanError(p, e)

\* A step of the port.
PortStep ==
    \/ PortEnabled
    \/ \E s \in LossPortStates : PortLost(s)
    \/ \E s \in TaskPortStates : PortSet(s)
    \/ \E t \in Tasks : PortWait(t) \/ PauseAndWait(t)
    \/ PortWake \/ PortReturn \/ PortOrphan \/ PauseAtOnce
    \/ UnpauseAll \/ UnpauseBusy
    \/ InvalidateBegin \/ InvalidateNext \/ InvalidateFreed

\* After a failed assertion or a memory error the model says nothing more.
PipeNext ==
    /\ fault = "none"
    /\ (\E t \in Tasks : ClientStep(t)) \/ (\E p \in Pipes : ChanStep(p)) \/ PortStep

PipeSpec == PipeInit /\ [][PipeNext]_vars

\* A task that can run does run (FreeRTOS schedules by priority, and the tasks here
\* block between calls), and a channel that executes ends its transfer.
PipeFairness ==
    /\ \A t \in Tasks : WF_vars(fault = "none" /\ CallStep(t))
    /\ \A p \in Pipes : WF_vars(fault = "none" /\ ChanStep(p))

FairPipeSpec == PipeSpec /\ PipeFairness

-----------------------------------------------------------------------------
(* Properties *)

\* Every IRP is in exactly one place of exactly one pipe, the one its
\* reserved_ptr names, and its flag says which place; an IRP in no queue is idle.
IrpPlacement ==
    /\ \A p \in Pipes : \A n \in DOMAIN Queue(pipe[p]) :
          LET i == Queue(pipe[p])[n]
          IN  /\ irp[i].ptr = p
              /\ \A m \in DOMAIN Queue(pipe[p]) : Queue(pipe[p])[m] = i => m = n
    /\ \A i \in Irps :
          LET p == irp[i].ptr
          IN  IF p = NoPipe THEN irp[i].flag = "IDLE"
              ELSE \/ irp[i].flag = "PENDING" /\ i \in Elems(pipe[p].pending)
                   \/ irp[i].flag = "INFLIGHT" /\ i = pipe[p].inflight
                   \/ irp[i].flag = "DONE" /\ i \in Elems(pipe[p].done)

\* The port's lists hold every allocated pipe exactly once (so num_pipes_idle and
\* num_pipes_queued count them), and a pipe is in the active list only while it has
\* IRPs: hcd_pipe_free and hcd_irp_enqueue remove a pipe without IRPs from the idle
\* list, where it must be.
PortLists ==
    /\ Elems(idle) \cup Elems(active) = {p \in Pipes : Allocated(p)}
    /\ Len(idle) + Len(active) = Cardinality({p \in Pipes : Allocated(p)})
    /\ \A p \in Elems(active) : Queue(pipe[p]) # <<>>

\* A channel that executes has an IRP to give its result to: the assertions of
\* _xfer_desc_list_parse and _pipe_return_cur_irp hold in the interrupt.
ChannelHasIrp == \A p \in hw : Allocated(p) /\ pipe[p].inflight # NoIrp

\* One task at a time is inside a command of a pipe, it is the task that the pipe
\* would wake up, and pipe_cmd_processing tells the others so.
CommandExclusive ==
    \A p \in Pipes :
        LET inside == {t \in Tasks : InCommand(t) /\ call[t].pipe = p}
        IN  Allocated(p) =>
                IF pipe[p].cmd THEN inside = {pipe[p].waiter}
                               ELSE inside = {} /\ pipe[p].waiter = NoTask

\* The result of a finished IRP is final until the client dequeues it, and an IRP
\* that the hardware has started is never reported as cancelled.
ResultsFinal ==
    [][\A i \in Irps :
          /\ irp[i].flag = "DONE" => irp'[i] = irp[i] \/ irp'[i].flag = "IDLE"
          /\ irp[i].flag = "INFLIGHT" => irp'[i].status # "CANCELLED"]_vars

\* The pipes implement a first-in first-out queue of IRPs each.
Fifo == INSTANCE IrpFifo WITH queue <- [p \in Pipes |-> Queue(pipe[p])],
                              ndone <- [p \in Pipes |-> Len(pipe[p].done)]
IsFifo == Fifo!FifoSpec

-----------------------------------------------------------------------------
(* Properties that need rules, or a device that stays *)

\* A command that was woken up finds the transfer over that it waited for, and no other
\* one begun, although the wait gives up the critical section: the assertions behind
\* _pipe_wait_done hold (hcd.c:1337 and 1346).  The task may be woken up for something
\* else, as it has one notification value for all; and others enqueue, clear and unpause
\* meanwhile.  It needs a device that stays, and port commands that wait their turn
\* (HcdPipeProofs).
WokenInTime ==
    \A t \in Tasks :
        LET p == call[t].pipe
        IN  Resumes(t) /\ Allocated(p) /\ pipe[p].state # "INVALID"
                => p \notin hw /\ pipe[p].inflight = NoIrp

\* A pipe is in the active list exactly while it has IRPs.
QueuedIffActive ==
    \A p \in Pipes : p \in Elems(active) <=> Queue(pipe[p]) # <<>>

\* An invalid pipe executes nothing, and has nothing left to execute.
InvalidIsDrained ==
    \A p \in Pipes : pipe[p].state = "INVALID" =>
        p \notin hw /\ pipe[p].inflight = NoIrp /\ pipe[p].pending = <<>>

\* No command, error or completion brings an invalid pipe back: it can only be freed.
InvalidStays ==
    [][\A p \in Pipes : pipe[p].state = "INVALID" =>
          pipe'[p].state \in {"INVALID", "FREE"}]_vars

-----------------------------------------------------------------------------
(* Liveness *)

\* A failed assertion or a memory error ends every run.
Over == fault # "none"

\* A pipe command that waits for the transfer in flight returns.
CommandReturns == \A t \in Tasks : InCommand(t) ~> call[t].op = "none" \/ Over

\* An IRP that was accepted is finished in the end, and can be dequeued.
IrpsFinish ==
    \A i \in Irps : irp[i].flag \in {"PENDING", "INFLIGHT"} ~> irp[i].flag = "DONE" \/ Over

-----------------------------------------------------------------------------
(* What the comments and the documentation of the code say, and the code does *)
(* not always do                                                              *)

\* "This pipe has no more enqueued IRPs. Move the pipe to the list of idle pipes" and
\* "Process all idle pipes. They don't have queue transfer".
IdleHasNoIrps == \A p \in Elems(idle) : Queue(pipe[p]) = <<>>

\* "Halted: An error has occurred on the pipe. IRPs will no longer be executed."
HaltedStartsNothing ==
    [][\A p \in Pipes : pipe[p].state = "HALTED" /\ pipe'[p].state = "HALTED"
                         /\ p \in hw' => p \in hw]_vars

\* "All pipes are guaranteed paused at this point. Proceed to suspend the port": a
\* suspended port executes nothing.
SuspendedIsQuiet == port.state = "SUSPENDED" => hw = {}

\* "Call this before attempting to reset or suspend a port": a bus reset finds no
\* channel executing.
ResetIsQuiet == [][port.state # "RESETTING" /\ port'.state = "RESETTING" => hw = {}]_vars

\* "assert(chan_halted)": a pipe command that was woken up finds its channel halted.
ChannelHalted == fault # "chan_not_halted"

\* "All IRPs have been dequeued from the pipe": only then is a pipe updated.
UpdatedWhenEmpty ==
    [][\A p \in Pipes : pipe[p].addr # pipe'[p].addr /\ Allocated(p)
          => Queue(pipe[p]) = <<>>]_vars

=============================================================================
