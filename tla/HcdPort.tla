------------------------------ MODULE HcdPort ------------------------------
(***************************************************************************)
(* The port of the Host Controller Driver (components/usb/hcd.c) together  *)
(* with its pipes (HcdPipe): the port commands and their delays, the       *)
(* handling of port events with its debounce, recovery, and the port half  *)
(* of the interrupt handler, on a bus that a device joins and leaves.      *)
(*                                                                         *)
(* One action is what a function does between two points where it leaves   *)
(* the critical section; port_mux lets one task at a time be inside        *)
(* hcd_port_command or hcd_port_handle_event, and ctl says where it is.    *)
(***************************************************************************)
EXTENDS HcdPipe

CONSTANTS
    PortTasks,      \* the tasks that call the port functions
    PortCmds,       \* the port commands they issue
    BusFaults       \* what goes wrong on the bus: "unplug", "error", "overcurrent"

ASSUME PortAssumption ==
    /\ PortTasks \subseteq Tasks
    /\ PortCmds \subseteq {"POWER_ON", "POWER_OFF", "RESET", "SUSPEND", "RESUME", "DISABLE"}
    /\ BusFaults \subseteq {"unplug", "error", "overcurrent"}

\* HcdPipe lets its port into every state this port uses.
ASSUME EnvironmentAssumption ==
    /\ {"NOT_POWERED", "DISCONNECTED", "DISABLED", "RESETTING", "SUSPENDED", "RESUMING"}
          \subseteq TaskPortStates
    /\ {"NOT_POWERED", "DISABLED", "RESETTING", "RECOVERY"} \subseteq LossPortStates

VARIABLES
    ctl,        \* the holder of port_mux and where it is
    hprt,       \* the fields of the port that its pipes do not use
    bus         \* the device, the root port of the controller and its interrupts

portVars == <<ctl, hprt, bus>>
allVars == <<vars, portVars>>

PortEvents == {"NONE", "CONNECTION", "DISCONNECTION", "ERROR", "OVERCURRENT",
               "SUDDEN_DISCONN"}
Places == {"free", "reset_hold", "reset_recovery", "suspend_wait", "resume_hold",
           "resume_recovery", "disable_pause", "disable_wait", "debounce", "invalidate"}

HprtRecord ==
    [initialized : BOOLEAN,
     event_pending : BOOLEAN,
     last_event : PortEvents,
     disable_requested : BOOLEAN]

BusRecord ==
    [attached : BOOLEAN,        \* a device is plugged in
     powered : BOOLEAN,         \* the port powers the bus
     line : BOOLEAN,            \* the bus shows a device
     enabled : BOOLEAN,         \* the device was reset and its port is enabled
     change : BOOLEAN,          \* the interrupt "port enabled or disabled" is pending
     seen : BOOLEAN,            \* the last connection state reported by an interrupt
     lock : BOOLEAN,            \* the debounce lock: no such report until it is lifted
     reset : {"none", "held", "released"}]

PortTypeOK ==
    /\ TypeOK
    /\ ctl \in [task : Tasks \cup {NoTask}, at : Places]
    /\ hprt \in HprtRecord
    /\ bus \in BusRecord

Free == [task |-> NoTask, at |-> "free"]
MutexFree == ctl = Free

\* hcd_install and hcd_port_init have run, and the port is not powered yet.
Init ==
    /\ PipeInit /\ port.state = "NOT_POWERED"
    /\ ctl = Free
    /\ hprt = [initialized |-> TRUE, event_pending |-> FALSE, last_event |-> "NONE",
               disable_requested |-> FALSE]
    /\ bus = [attached |-> TRUE, powered |-> FALSE, line |-> FALSE, enabled |-> FALSE,
              change |-> FALSE, seen |-> FALSE, lock |-> FALSE, reset |-> "none"]

-----------------------------------------------------------------------------
(* The bus: the device, and what the root port of the controller does *)

BusStep(b) ==
    /\ bus' = b
    /\ UNCHANGED <<vars, ctl, hprt>>

\* A device shows on the bus some time after it is plugged in and powered, and
\* disappears some time after the power does.
Plug == ~bus.attached /\ BusStep([bus EXCEPT !.attached = TRUE])

LineUp == bus.attached /\ bus.powered /\ ~bus.line /\ BusStep([bus EXCEPT !.line = TRUE])

Lost(b) == [b EXCEPT !.line = FALSE, !.reset = IF @ = "held" THEN @ ELSE "none"]

LineDown == ~bus.powered /\ bus.line /\ BusStep(Lost(bus))

Unplug ==
    /\ "unplug" \in BusFaults /\ bus.attached
    /\ BusStep([Lost(bus) EXCEPT !.attached = FALSE])

\* The device whose connection was reported answers the end of a reset, within the
\* recovery time of _port_bus_reset or not at all.
BusEnable ==
    /\ bus.reset = "released" /\ bus.seen
    /\ BusStep([bus EXCEPT !.enabled = TRUE, !.change = TRUE, !.reset = "none"])

BusError ==
    /\ "error" \in BusFaults /\ bus.enabled
    /\ BusStep([bus EXCEPT !.enabled = FALSE, !.change = TRUE])

-----------------------------------------------------------------------------
(* The interrupt of the port: intr_hdlr_main and _intr_hdlr_hprt *)

Event(e) == hprt' = [hprt EXCEPT !.event_pending = TRUE, !.last_event = e]

\* What makes the controller raise the interrupt.
Connects == hprt.initialized /\ ~bus.lock /\ bus.line /\ ~bus.seen
Disconnects == hprt.initialized /\ ~bus.lock /\ ~bus.line /\ bus.seen
Changes == hprt.initialized /\ bus.change
Interrupted == Connects \/ Disconnects \/ Changes

IsrConnection ==
    /\ Connects
    /\ Event("CONNECTION")
    /\ bus' = [bus EXCEPT !.seen = TRUE, !.lock = TRUE]
    /\ UNCHANGED <<vars, ctl>>

\* A device that was enabled is lost for good; otherwise the report is debounced.
IsrDisconnectionDebounced ==  \* mutant: conn_devc_ena not tested
    /\ Disconnects
    /\ Event("DISCONNECTION")
    /\ port' = [port EXCEPT !.conn = FALSE]
    /\ bus' = [bus EXCEPT !.seen = FALSE, !.lock = TRUE, !.enabled = FALSE,
                          !.change = FALSE]
    /\ UNCHANGED notified /\ PortUnchanged /\ UNCHANGED ctl
IsrDisconnection ==
    /\ Disconnects
    /\ IF port.conn
       THEN /\ port' = [port EXCEPT !.state = "RECOVERY", !.conn = FALSE]
            /\ Event("SUDDEN_DISCONN")
       ELSE Event("DISCONNECTION") /\ UNCHANGED port
    /\ bus' = [bus EXCEPT !.seen = FALSE, !.lock = TRUE, !.enabled = FALSE,
                          !.change = FALSE]
    /\ UNCHANGED notified /\ PortUnchanged /\ UNCHANGED ctl

IsrEnabledOnly ==  \* mutant: conn_devc_ena not set
    /\ Changes /\ bus.enabled
    /\ port' = [port EXCEPT !.state = "ENABLED"]
    /\ bus' = [bus EXCEPT !.change = FALSE]
    /\ UNCHANGED notified /\ PortUnchanged /\ UNCHANGED <<ctl, hprt>>
IsrEnabled ==
    /\ Changes /\ bus.enabled
    /\ port' = [port EXCEPT !.state = "ENABLED", !.conn = TRUE]
    /\ bus' = [bus EXCEPT !.change = FALSE]
    /\ UNCHANGED notified /\ PortUnchanged /\ UNCHANGED <<ctl, hprt>>

Disabled == Changes /\ ~bus.enabled

\* The port is disabled by its reset, or by an error on the bus.
IsrDisabled ==
    /\ Disabled
    /\ IF port.state = "RESETTING"
       THEN port' = [port EXCEPT !.conn = FALSE] /\ UNCHANGED hprt
       ELSE /\ ~hprt.disable_requested
            /\ port' = [port EXCEPT !.conn = FALSE, !.state = "DISABLED"]
            /\ Event("ERROR")
    /\ bus' = [bus EXCEPT !.change = FALSE]
    /\ UNCHANGED notified /\ PortUnchanged /\ UNCHANGED ctl

\* The port is disabled by request: the command that waits for it is woken up.
DisabledByRequest == Disabled /\ port.state # "RESETTING" /\ hprt.disable_requested

IsrDisabledByRequest ==
    /\ DisabledByRequest /\ port.waiter # NoTask
    /\ port' = [port EXCEPT !.conn = FALSE, !.state = "DISABLED"]
    /\ hprt' = [hprt EXCEPT !.disable_requested = FALSE]
    /\ Notify(port.waiter)
    /\ bus' = [bus EXCEPT !.change = FALSE]
    /\ PortUnchanged /\ UNCHANGED ctl

\* _internal_port_event_notify_from_isr asserts that a task waits.
IsrDisabledOrphan ==
    /\ DisabledByRequest /\ port.waiter = NoTask
    /\ Fail("no_waiter") /\ UNCHANGED portVars

\* An overcurrent, or the end of one: the port is powered off to protect it.
IsrOvercurrent ==
    /\ "overcurrent" \in BusFaults /\ hprt.initialized
    /\ port' = [port EXCEPT !.state = "NOT_POWERED", !.conn = FALSE]
    /\ IF port.state # "NOT_POWERED"
       THEN /\ bus' = [bus EXCEPT !.powered = FALSE, !.enabled = FALSE, !.change = FALSE,
                                  !.reset = "none"]
            /\ Event("OVERCURRENT")
       ELSE UNCHANGED <<bus, hprt>>
    /\ UNCHANGED notified /\ PortUnchanged /\ UNCHANGED ctl

-----------------------------------------------------------------------------
(* hcd_port_init, hcd_port_deinit, hcd_port_recover: they do not take port_mux *)

PortInit(t) ==
    /\ t \in PortTasks /\ CanCall(t) /\ t # ctl.task
    /\ ~hprt.initialized
    /\ port' = [port EXCEPT !.state = "NOT_POWERED"]
    /\ hprt' = [hprt EXCEPT !.initialized = TRUE, !.last_event = "NONE"]
    /\ UNCHANGED notified /\ PortUnchanged /\ UNCHANGED <<ctl, bus>>

\* No pipe is routed through the port, all its flags are 0 and no task waits.
AtRest ==
    /\ NoPipes
    /\ ~hprt.event_pending /\ ~hprt.disable_requested
    /\ MutexFree        \* neither cmd_processing nor event_processing
    /\ ~port.conn /\ ~port.waiting_all /\ port.num_waiting = 0
    /\ port.waiter = NoTask

\* The controller's root port after a soft reset, or switched off.
BusReset ==
    bus' = [bus EXCEPT !.powered = FALSE, !.enabled = FALSE, !.change = FALSE,
                       !.seen = FALSE, !.lock = FALSE, !.reset = "none"]

PortDeinit(t) ==
    /\ t \in PortTasks /\ CanCall(t)
    /\ hprt.initialized /\ port.state \in {"NOT_POWERED", "RECOVERY"} /\ AtRest
    /\ hprt' = [hprt EXCEPT !.initialized = FALSE]
    /\ BusReset
    /\ UNCHANGED <<vars, ctl>>

PortRecover(t) ==
    /\ t \in PortTasks /\ CanCall(t)
    /\ hprt.initialized /\ port.state = "RECOVERY" /\ AtRest
    /\ port' = [port EXCEPT !.state = "NOT_POWERED"]
    /\ hprt' = [hprt EXCEPT !.last_event = "NONE"]
    /\ BusReset
    /\ UNCHANGED notified /\ PortUnchanged /\ UNCHANGED ctl

-----------------------------------------------------------------------------
(* hcd_port_command *)

\* A task with the mutex issues a command; a pending event must be handled first.
CommandUnlocked(t, c) ==  \* mutant: port_mux not taken
    /\ t \in PortTasks /\ CanCall(t) /\ t # ctl.task
    /\ c \in PortCmds
    /\ hprt.initialized /\ ~hprt.event_pending
Command(t, c) ==
    /\ t \in PortTasks /\ CanCall(t) /\ MutexFree
    /\ c \in PortCmds
    /\ hprt.initialized /\ ~hprt.event_pending

Goes(t, place) == ctl' = [task |-> t, at |-> place]
Leaves == ctl' = Free
SetState(s) == port' = [port EXCEPT !.state = s]
TaskUnchanged == UNCHANGED <<notified, hprt>> /\ PortUnchanged

PowerOn(t) ==
    /\ Command(t, "POWER_ON") /\ port.state = "NOT_POWERED"
    /\ SetState("DISCONNECTED")
    /\ bus' = [bus EXCEPT !.powered = TRUE]
    /\ TaskUnchanged /\ UNCHANGED ctl

PowerOff(t) ==
    /\ Command(t, "POWER_OFF") /\ port.state # "NOT_POWERED"
    /\ SetState("NOT_POWERED")
    /\ bus' = [bus EXCEPT !.powered = FALSE, !.enabled = FALSE, !.change = FALSE,
                          !.reset = "none"]
    /\ TaskUnchanged /\ UNCHANGED ctl

\* _port_bus_reset: the bus is held in reset, which disables an enabled port, ...
ResetBegin(t) ==
    /\ Command(t, "RESET") /\ port.state \in {"ENABLED", "DISABLED"}
    /\ Keeps("fresh", NoPipes)
    /\ SetState("RESETTING")
    /\ bus' = [bus EXCEPT !.reset = "held", !.enabled = FALSE,
                          !.change = @ \/ bus.enabled]
    /\ Goes(t, "reset_hold")
    /\ TaskUnchanged

\* ... then released, ...
ResetRelease ==
    /\ ctl.at = "reset_hold"
    /\ IF port.state = "RESETTING"
       THEN /\ bus' = [bus EXCEPT !.reset = IF bus.line THEN "released" ELSE "none"]
            /\ Goes(ctl.task, "reset_recovery")
       ELSE UNCHANGED bus /\ Leaves
    /\ UNCHANGED port /\ TaskUnchanged

\* ... and the port should be enabled when the recovery time is over.
ResetEnd ==
    /\ ctl.at = "reset_recovery"
    /\ bus' = [bus EXCEPT !.reset = "none"]
    /\ Leaves
    /\ UNCHANGED port /\ TaskUnchanged

\* _port_bus_suspend.
SuspendNow(t) ==
    /\ Command(t, "SUSPEND") /\ PausesAll /\ InFlightPipes = {}
    /\ SetState("SUSPENDED")
    /\ UNCHANGED portVars

SuspendWait(t) ==
    /\ Command(t, "SUSPEND") /\ PauseAndWait(t)
    /\ Goes(t, "suspend_wait")
    /\ UNCHANGED <<hprt, bus>>

\* The task is back in the critical section after _internal_port_event_wait.
Back(place) == ctl.at = place /\ port.woken
StillEnabledUnchecked == TRUE  \* mutant: the state not tested after the wait
StillEnabled == port.state = "ENABLED" /\ port.conn

SuspendEnd ==
    /\ Back("suspend_wait")
    /\ port' = [port EXCEPT !.waiter = NoTask, !.woken = FALSE,
                            !.state = IF StillEnabled THEN "SUSPENDED" ELSE @]
    /\ Leaves
    /\ UNCHANGED bus /\ TaskUnchanged

\* _port_bus_resume.
ResumeBegin(t) ==
    /\ Command(t, "RESUME") /\ port.state = "SUSPENDED"
    /\ SetState("RESUMING")
    /\ Goes(t, "resume_hold")
    /\ UNCHANGED bus /\ TaskUnchanged

StillResuming == port.state = "RESUMING" /\ port.conn

ResumeRelease ==
    /\ ctl.at = "resume_hold"
    /\ IF StillResuming THEN Goes(ctl.task, "resume_recovery") ELSE Leaves
    /\ UNCHANGED <<bus, port>> /\ TaskUnchanged

ResumeFail ==
    /\ ctl.at = "resume_recovery" /\ ~StillResuming
    /\ Leaves
    /\ UNCHANGED <<bus, port>> /\ TaskUnchanged

ResumeEnd ==
    /\ ctl.at = "resume_recovery" /\ UnpauseAll
    /\ Leaves
    /\ UNCHANGED <<hprt, bus>>

ResumePanic ==
    /\ ctl.at = "resume_recovery" /\ UnpauseBusy
    /\ UNCHANGED portVars

\* _port_disable: the pipes are paused first if the port is enabled.
RequestDisable ==
    /\ hprt' = [hprt EXCEPT !.disable_requested = TRUE]
    /\ bus' = [bus EXCEPT !.enabled = FALSE, !.change = @ \/ bus.enabled]

DisableWait(t) ==
    /\ Command(t, "DISABLE") /\ PauseAndWait(t)
    /\ Goes(t, "disable_pause")
    /\ UNCHANGED <<hprt, bus>>

DisableNow(t) ==
    /\ Command(t, "DISABLE")
    /\ \/ PausesAll /\ InFlightPipes = {}
       \/ port.state = "SUSPENDED" /\ UNCHANGED pipe
    /\ port' = [port EXCEPT !.waiter = t]
    /\ RequestDisable
    /\ Goes(t, "disable_wait")
    /\ UNCHANGED <<irp, idle, active, hw, call, notified, inval, fault>>

DisablePaused ==
    /\ Back("disable_pause")
    /\ IF StillEnabled
       THEN /\ port' = [port EXCEPT !.woken = FALSE]
            /\ RequestDisable
            /\ Goes(ctl.task, "disable_wait")
       ELSE /\ port' = [port EXCEPT !.waiter = NoTask, !.woken = FALSE]
            /\ UNCHANGED <<hprt, bus>>
            /\ Leaves
    /\ UNCHANGED notified /\ PortUnchanged

DisableFail ==
    /\ Back("disable_wait") /\ port.state # "DISABLED"
    /\ port' = [port EXCEPT !.waiter = NoTask, !.woken = FALSE]
    /\ Leaves
    /\ UNCHANGED bus /\ TaskUnchanged

\* The walk over the pipes ends at once when there is none.
WalkGoesOn == IF inval'.phase = "off" THEN Leaves ELSE Goes(ctl.task, "invalidate")

DisableEnd ==
    /\ Back("disable_wait") /\ port.state = "DISABLED"
    /\ InvalidateBegin
    /\ WalkGoesOn
    /\ UNCHANGED <<hprt, bus>>

-----------------------------------------------------------------------------
(* hcd_port_handle_event *)

Handles(t) ==
    /\ t \in PortTasks /\ CanCall(t) /\ MutexFree
    /\ hprt.initialized /\ hprt.event_pending
    /\ hprt' = [hprt EXCEPT !.event_pending = FALSE]

ConnectionEvent == hprt.last_event \in {"CONNECTION", "DISCONNECTION"}

\* _port_debounce returns at once when the port is not powered; the caller then
\* takes that for a disconnected bus.
HandleUnpowered(t) ==
    /\ Handles(t) /\ ConnectionEvent /\ port.state = "NOT_POWERED"
    /\ IF hprt.last_event = "DISCONNECTION" THEN SetState("DISCONNECTED") ELSE UNCHANGED port
    /\ UNCHANGED <<notified, ctl, bus>> /\ PortUnchanged

HandleDebounce(t) ==
    /\ Handles(t) /\ ConnectionEvent /\ port.state # "NOT_POWERED"
    /\ Goes(t, "debounce")
    /\ UNCHANGED <<notified, port, bus>> /\ PortUnchanged

\* The delay is over: the bus says whether a device is connected.
Debounced ==
    /\ ctl.at = "debounce"
    /\ SetState(IF bus.line THEN "DISABLED" ELSE "DISCONNECTED")
    /\ bus' = [bus EXCEPT !.lock = FALSE]
    /\ Leaves
    /\ TaskUnchanged

LossEvents == {"ERROR", "OVERCURRENT", "SUDDEN_DISCONN"}

\* The device is lost: every pipe becomes invalid.
HandleLoss(t) ==
    /\ Handles(t) /\ hprt.last_event \in LossEvents
    /\ InvalidateBegin
    /\ IF inval'.phase = "off" THEN UNCHANGED ctl ELSE Goes(t, "invalidate")
    /\ UNCHANGED bus

InvalidateStep ==
    /\ ctl.at = "invalidate" /\ InvalidateNext
    /\ WalkGoesOn
    /\ UNCHANGED <<hprt, bus>>

InvalidatePanic ==
    /\ ctl.at = "invalidate" /\ InvalidateFreed
    /\ UNCHANGED portVars

-----------------------------------------------------------------------------
BusNext == Plug \/ LineUp \/ LineDown \/ Unplug \/ BusEnable \/ BusError

IsrNext ==
    \/ IsrConnection \/ IsrDisconnection \/ IsrEnabled \/ IsrDisabled
    \/ IsrDisabledByRequest \/ IsrDisabledOrphan \/ IsrOvercurrent

CallPort(t) ==
    \/ PortInit(t) \/ PortDeinit(t) \/ PortRecover(t)
    \/ PowerOn(t) \/ PowerOff(t) \/ ResetBegin(t)
    \/ SuspendNow(t) \/ SuspendWait(t) \/ ResumeBegin(t) \/ DisableWait(t) \/ DisableNow(t)
    \/ HandleUnpowered(t) \/ HandleDebounce(t) \/ HandleLoss(t)

\* The steps of the task that is inside a port function.
InPort ==
    \/ ResetRelease \/ ResetEnd
    \/ PortWake /\ UNCHANGED portVars
    \/ SuspendEnd
    \/ ResumeRelease \/ ResumeFail \/ ResumeEnd \/ ResumePanic
    \/ DisablePaused \/ DisableFail \/ DisableEnd
    \/ Debounced
    \/ InvalidateStep \/ InvalidatePanic

\* Nothing runs before the interrupt handler once the port has an interrupt.
Next ==
    /\ fault = "none"
    /\ \/ IsrNext
       \/ /\ ~Interrupted
          /\ \/ BusNext
             \/ \E t \in Tasks : CallPort(t)
             \/ InPort
             \/ \E t \in Tasks : t # ctl.task /\ ClientStep(t) /\ UNCHANGED portVars
             \/ \E p \in Pipes : ChanStep(p) /\ UNCHANGED portVars

Spec == Init /\ [][Next]_allVars

\* Delays end, interrupts are served, the task inside a port function is scheduled, and
\* a device that is still there answers the end of a reset in time.
PortFairness ==
    /\ WF_allVars(fault = "none" /\ IsrNext)
    /\ WF_allVars(fault = "none" /\ ~Interrupted /\ InPort)
    /\ \A p \in Pipes :
          WF_allVars(fault = "none" /\ ~Interrupted /\ ChanStep(p) /\ UNCHANGED portVars)

FairSpec == Spec /\ PortFairness

-----------------------------------------------------------------------------
(* Properties *)

\* A port that is enabled, suspended or resuming has a connected device that was reset,
\* and the port of such a device is enabled, or in a state that a command gave it since.
EnabledHasDevice ==
    /\ port.state \in {"ENABLED", "SUSPENDED", "RESUMING"} => port.conn
    /\ port.conn => port.state \in {"ENABLED", "SUSPENDED", "RESUMING", "RESETTING",
                                    "NOT_POWERED", "DISCONNECTED"}

\* The port behaves as HcdPipe says a port may behave.
IsPipeSpec == PipeSpec

\* A port command that waits for the pipes waits for as many as will report to it.
PauseCount ==
    port.waiting_all => port.num_waiting = Cardinality({p \in Pipes : pipe[p].waiting})

\* The loss of the device is not forgotten: while a pipe of a lost device is still
\* valid, an event is pending that will invalidate it, or the walk over the pipes is on,
\* or a command waits for the disabling of the port to begin it.
LossNotForgotten ==
    (\E p \in Pipes : pipe[p].state \in {"ACTIVE", "HALTED"}) =>
        \/ port.conn
        \/ hprt.event_pending /\ hprt.last_event \in LossEvents
        \/ ctl.at \in {"disable_wait", "invalidate"}

\* Once the loss of the device is handled, every pipe is invalid.
LossInvalidatesAll ==
    [][ctl.at = "invalidate" /\ ctl'.at = "free"
          => \A p \in Pipes : pipe'[p].state \in {"INVALID", "FREE"}]_allVars

\* A port in the recovery state whose event was handled and whose pipes were freed
\* can be recovered: no flag of an interrupted command is left behind.
CanRecover ==
    /\ port.state = "RECOVERY" /\ MutexFree /\ ~hprt.event_pending
    /\ NoPipes
    => AtRest

\* A port that says it is disconnected is powered, and so notices a device.
DisconnectedIsPowered == port.state = "DISCONNECTED" => bus.powered

\* Each port function returns: the bus reset, the recovery and debounce delays end, and
\* whatever a command waits for comes.
PortReturns == ctl.at # "free" ~> ctl.at = "free" \/ Over

\* "Port is now HCD_PORT_STATE_RECOVERY", says the documentation of both events.
LossEventsRecover ==
    hprt.event_pending /\ hprt.last_event \in LossEvents => port.state = "RECOVERY"

\* "There must be a thread/task waiting for an internal event": the assertion of
\* _internal_port_event_notify_from_isr.
SomebodyWaits == fault # "no_waiter"
=============================================================================
