--------------------------- MODULE HcdPortProofs ---------------------------
(***************************************************************************)
(* The port and its pipes, for every number of pipes, IRPs and tasks, for  *)
(* every set of port commands and whatever goes wrong on the bus: the port *)
(* does nothing that HcdPipe does not allow its port to do.  So all that   *)
(* is proved of the pipes holds of them together with this port.           *)
(*                                                                         *)
(* What has to be known of the port is where the holder of port_mux is     *)
(* while a task waits or walks over the pipes (PlaceInv), and what the     *)
(* interrupts have reported of the bus (BusInv): that an interrupt which   *)
(* says "enabled" comes in a reset, and that no debounce ends with a       *)
(* device that is enabled.                                                 *)
(*                                                                         *)
(* The second half is about what becomes of the pipes when their device is *)
(* lost: the walk over the pipes misses none, a loss is reported as the    *)
(* documentation of its event says, and it is not forgotten in whatever    *)
(* the port is doing when the device is unplugged.  What a pipe may do     *)
(* without a device is said of the steps of HcdPipe (Gone); what the port  *)
(* does is said of the port's own steps, for only they tell one interrupt  *)
(* of the port from another.                                               *)
(*                                                                         *)
(* The third part is about a port command that pauses the pipes and waits  *)
(* for those that transfer: interrupts count them down one by one and wake *)
(* the command with the last.  PauseInv follows the notifications of a     *)
(* task through the pipe functions and the port functions, since one left  *)
(* over would end the wait before the channels have; CountInv relates the  *)
(* count to the flags of the pipes.                                        *)
(***************************************************************************)
EXTENDS HcdPort, HcdPipeFifo

-----------------------------------------------------------------------------
(* The inductive invariant *)

\* A task waits for the port, or walks over the pipes, only inside a port function, and
\* such a function is only entered while the port is initialized.
PlaceInv ==
    /\ ctl \in [task : Tasks \cup {NoTask}, at : Places]
    /\ ctl.at = "free" <=> ctl.task = NoTask
    /\ ctl.at # "free" => hprt.initialized
    /\ port.waiter # NoTask => ctl.at \in {"suspend_wait", "disable_pause", "disable_wait"}
    /\ inval.phase # "off" => ctl.at = "invalidate"

\* The device on the bus was reported, or no report of it can come.
HasReported == bus.seen \/ bus.lock

InReset == ctl.at \in {"reset_hold", "reset_recovery"}

\* A connection or disconnection was reported, and no task has handled that yet.
Reported == hprt.event_pending /\ ConnectionEvent

\* The next interrupt enables the port.
Enables == bus.change /\ bus.enabled

Using == {"ENABLED", "DISABLED", "RESETTING", "SUSPENDED", "RESUMING"}

BusInv ==
    /\ hprt \in HprtRecord
    /\ bus \in BusRecord
    /\ ~hprt.initialized => ~bus.enabled /\ ~bus.change
    /\ port.state \in Using => hprt.initialized /\ (HasReported \/ bus.line)
    /\ bus.enabled \/ bus.change \/ port.conn => bus.seen
    /\ bus.reset = "released" =>
           /\ ctl.at = "reset_recovery" /\ ~bus.enabled
           /\ bus.seen => port.state = "RESETTING"
    /\ ctl.at = "reset_hold" => ~bus.enabled
    /\ Enables => port.state = "RESETTING"
    /\ InReset => HasReported /\ (Reported => ~bus.seen)
    /\ port.conn \/ Enables => ~Reported /\ ctl.at # "debounce"

PortInv == IInv /\ PlaceInv /\ BusInv /\ EnabledHasDevice

-----------------------------------------------------------------------------
(* The steps of the bus and the interrupts of the port *)

LEMMA BusKeeps ==
    ASSUME PortInv, ~Interrupted, BusNext
    PROVE  PlaceInv' /\ BusInv' /\ EnabledHasDevice'
<1>1. /\ bus \in BusRecord
      /\ UNCHANGED <<vars, ctl, hprt>>
    BY DEF PortInv, BusInv, BusNext, Plug, LineUp, LineDown, Unplug, BusEnable, BusError, BusStep
<1>2. UNCHANGED <<port, inval, ctl, hprt>>
    BY <1>1 DEF vars
<1>3. PlaceInv' /\ EnabledHasDevice'
    BY <1>2 DEF PortInv, PlaceInv, EnabledHasDevice
<1> SUFFICES BusInv'
    BY <1>3
<1>4. CASE Plug
    BY <1>1, <1>2, <1>4 DEF Plug, BusStep, PortInv, BusInv, BusRecord, HasReported, InReset,
       Reported, ConnectionEvent, Enables
<1>5. CASE LineUp
    BY <1>1, <1>2, <1>5 DEF LineUp, BusStep, PortInv, BusInv, BusRecord, HasReported, InReset,
       Reported, ConnectionEvent, Enables
<1>6. CASE LineDown \/ Unplug
    BY <1>1, <1>2, <1>6 DEF LineDown, Unplug, Lost, BusStep, Interrupted, Connects, PortInv,
       BusInv, BusRecord, HasReported, InReset, Reported, ConnectionEvent, Enables
<1>7. CASE BusEnable
    BY <1>1, <1>2, <1>7 DEF BusEnable, BusStep, PortInv, BusInv, PlaceInv, BusRecord,
       HasReported, InReset, Reported, ConnectionEvent, Enables
<1>8. CASE BusError
    BY <1>1, <1>2, <1>8 DEF BusError, BusStep, PortInv, BusInv, BusRecord, HasReported, InReset,
       Reported, ConnectionEvent, Enables
<1> QED BY <1>4, <1>5, <1>6, <1>7, <1>8 DEF BusNext

LEMMA IsrKeeps ==
    ASSUME PortInv, IsrNext
    PROVE  PlaceInv' /\ BusInv' /\ EnabledHasDevice'
<1>1. bus \in BusRecord /\ hprt \in HprtRecord /\ port \in PortRecord
    BY DEF PortInv, BusInv, IInv, RestInv
<1>2. CASE IsrConnection
    <2>1. UNCHANGED <<port, inval, ctl>>
        BY <1>2 DEF IsrConnection, vars
    <2>2. PlaceInv' /\ EnabledHasDevice'
        BY <1>1, <1>2, <2>1 DEF IsrConnection, Event, HprtRecord, PortInv, PlaceInv,
           EnabledHasDevice
    <2>3. BusInv'
        BY <1>1, <1>2, <2>1 DEF IsrConnection, Connects, Event, HprtRecord, PortEvents, PortInv,
           BusInv, BusRecord, HasReported, InReset, Reported, ConnectionEvent, Enables, Using
    <2> QED BY <2>2, <2>3
<1>3. CASE IsrDisconnection
    <2>1. UNCHANGED <<inval, ctl>>
        BY <1>3 DEF IsrDisconnection, PortUnchanged
    <2>2. PlaceInv' /\ EnabledHasDevice'
        BY <1>1, <1>3, <2>1 DEF IsrDisconnection, Event, HprtRecord, PortRecord, PortInv,
           PlaceInv, EnabledHasDevice
    <2>3. /\ bus' \in BusRecord /\ ~bus'.seen /\ bus'.lock /\ ~bus'.enabled /\ ~bus'.change
          /\ bus'.reset = bus.reset /\ bus'.line = bus.line
        BY <1>1, <1>3 DEF IsrDisconnection, BusRecord
    <2>4. ~port'.conn /\ port'.state \in {port.state, "RECOVERY"}
        BY <1>1, <1>3 DEF IsrDisconnection, PortRecord
    <2>5. hprt' \in HprtRecord /\ hprt'.initialized /\ hprt.initialized
        BY <1>1, <1>3 DEF IsrDisconnection, Disconnects, Event, HprtRecord, PortEvents
    <2>6. BusInv'
        BY <2>1, <2>3, <2>4, <2>5 DEF PortInv, BusInv, HasReported, InReset, Reported, Enables,
           Using
    <2> QED BY <2>2, <2>6
<1>4. CASE IsrEnabled
    <2>1. UNCHANGED <<inval, ctl, hprt>>
        BY <1>4 DEF IsrEnabled, PortUnchanged
    <2>2. PlaceInv' /\ EnabledHasDevice'
        BY <1>1, <1>4, <2>1 DEF IsrEnabled, PortRecord, PortInv, PlaceInv, EnabledHasDevice
    <2>3. BusInv'
        BY <1>1, <1>4, <2>1 DEF IsrEnabled, Changes, PortRecord, PortInv, BusInv, BusRecord,
           HasReported, InReset, Reported, ConnectionEvent, Enables, Using
    <2> QED BY <2>2, <2>3
<1>5. CASE IsrDisabled
    <2>1. UNCHANGED <<inval, ctl>>
        BY <1>5 DEF IsrDisabled, PortUnchanged
    <2>2. PlaceInv' /\ EnabledHasDevice'
        BY <1>1, <1>5, <2>1 DEF IsrDisabled, Event, HprtRecord, PortRecord, PortInv, PlaceInv,
           EnabledHasDevice
    <2>3. /\ bus' \in BusRecord /\ ~bus'.change /\ bus'.seen = bus.seen
          /\ bus'.enabled = bus.enabled /\ bus'.lock = bus.lock /\ bus'.line = bus.line
          /\ bus'.reset = bus.reset /\ bus.change
        BY <1>1, <1>5 DEF IsrDisabled, Disabled, Changes, BusRecord, PortInv, BusInv
    <2>4. hprt.initialized /\ ~port'.conn
        BY <1>1, <1>5 DEF IsrDisabled, Disabled, Changes, PortRecord
    <2>5. \/ port'.state = "RESETTING" /\ port.state = "RESETTING" /\ UNCHANGED hprt
          \/ /\ port.state # "RESETTING" /\ port'.state = "DISABLED"
             /\ hprt' \in HprtRecord /\ hprt'.initialized = hprt.initialized
             /\ hprt'.last_event = "ERROR"
        BY <1>1, <1>5 DEF IsrDisabled, Event, HprtRecord, PortRecord, PortEvents, PortInv, BusInv
    <2>6. BusInv'
        BY <1>1, <2>1, <2>3, <2>4, <2>5 DEF PortInv, BusInv, HasReported, InReset, Reported,
           ConnectionEvent, Enables, Using
    <2> QED BY <2>2, <2>6
<1>6. CASE IsrDisabledByRequest
    <2>1. UNCHANGED <<inval, ctl>>
        BY <1>6 DEF IsrDisabledByRequest, PortUnchanged
    <2>2. PlaceInv' /\ EnabledHasDevice'
        BY <1>1, <1>6, <2>1 DEF IsrDisabledByRequest, HprtRecord, PortRecord, PortInv, PlaceInv,
           EnabledHasDevice
    <2>3. BusInv'
        BY <1>1, <1>6, <2>1 DEF IsrDisabledByRequest, DisabledByRequest, Disabled, Changes,
           HprtRecord, PortRecord, PortInv, BusInv, BusRecord, HasReported, InReset, Reported,
           ConnectionEvent, Enables, Using
    <2> QED BY <2>2, <2>3
<1>7. CASE IsrDisabledOrphan
    <2>1. UNCHANGED <<port, inval, ctl, hprt, bus>>
        BY <1>7 DEF IsrDisabledOrphan, Fail, portVars
    <2> QED BY <2>1 DEF PortInv, PlaceInv, BusInv, EnabledHasDevice, HasReported, InReset,
                        Reported, ConnectionEvent, Enables
<1>8. CASE IsrOvercurrent
    <2>1. UNCHANGED <<inval, ctl>>
        BY <1>8 DEF IsrOvercurrent, PortUnchanged
    <2>2. PlaceInv' /\ EnabledHasDevice'
        BY <1>1, <1>8, <2>1 DEF IsrOvercurrent, Event, HprtRecord, PortRecord, PortInv,
           PlaceInv, EnabledHasDevice
    <2>3. port'.state = "NOT_POWERED" /\ ~port'.conn /\ "NOT_POWERED" \notin Using
        BY <1>1, <1>8 DEF IsrOvercurrent, PortRecord, Using
    <2>4. CASE port.state = "NOT_POWERED"
        <3>1. UNCHANGED <<bus, hprt>>
            BY <1>8, <2>4 DEF IsrOvercurrent
        <3>2. BusInv'
            BY <2>1, <2>3, <2>4, <3>1 DEF PortInv, BusInv, HasReported, InReset, Reported,
               ConnectionEvent, Enables
        <3> QED BY <2>2, <3>2
    <2>5. CASE port.state # "NOT_POWERED"
        <3>1. /\ bus' \in BusRecord /\ bus'.reset = "none" /\ ~bus'.enabled /\ ~bus'.change
              /\ bus'.seen = bus.seen /\ bus'.lock = bus.lock
            BY <1>1, <1>8, <2>5 DEF IsrOvercurrent, BusRecord
        <3>2. /\ hprt' \in HprtRecord /\ hprt'.initialized = hprt.initialized
              /\ hprt'.last_event = "OVERCURRENT"
            BY <1>1, <1>8, <2>5 DEF IsrOvercurrent, Event, HprtRecord, PortEvents
        <3>3. BusInv'
            BY <2>1, <2>3, <3>1, <3>2 DEF PortInv, BusInv, HasReported, InReset, Reported,
               ConnectionEvent, Enables
        <3> QED BY <2>2, <3>3
    <2> QED BY <2>4, <2>5
<1> QED BY <1>2, <1>3, <1>4, <1>5, <1>6, <1>7, <1>8 DEF IsrNext

-----------------------------------------------------------------------------
(* The port functions *)

\* A task step that changes only the place of the task and the state of the port. The
\* interrupts that were raised are served.
LEMMA PlaceStep ==
    ASSUME PortInv, ~Interrupted, hprt.initialized,
           UNCHANGED <<hprt, bus>>, inval'.phase # "off" => ctl'.at = "invalidate",
           port'.conn = port.conn,
           ctl' \in [task : Tasks \cup {NoTask}, at : Places],
           ctl'.at = "free" <=> ctl'.task = NoTask,
           port'.waiter # NoTask => ctl'.at \in {"suspend_wait", "disable_pause", "disable_wait"},
           ctl'.at \notin {"reset_hold", "debounce"},
           ctl'.at = "reset_recovery" => ctl.at = "reset_recovery",
           bus.reset = "released" => ctl'.at = ctl.at /\ port'.state = port.state,
           port'.state \in Using => port.state \in Using,
           port'.state \in {"ENABLED", "SUSPENDED", "RESUMING"} => port.conn,
           port.conn => port'.state \in {"ENABLED", "SUSPENDED", "RESUMING", "RESETTING",
                                         "NOT_POWERED", "DISCONNECTED"}
    PROVE  PlaceInv' /\ BusInv' /\ EnabledHasDevice'
<1>1. ~bus.change
    BY DEF Interrupted, Changes
<1>2. PlaceInv'
    BY DEF PortInv, PlaceInv
<1>3. EnabledHasDevice'
    BY DEF EnabledHasDevice
<1>4. BusInv'
    BY <1>1 DEF PortInv, BusInv, HasReported, InReset, Reported, ConnectionEvent, Enables
<1> QED BY <1>2, <1>3, <1>4

\* What a task that calls a port function finds.
LEMMA Called ==
    ASSUME PortInv, NEW t \in Tasks, NEW c, Command(t, c)
    PROVE  /\ hprt.initialized /\ ~hprt.event_pending
           /\ ctl.task = NoTask /\ ctl.at = "free"
           /\ port.waiter = NoTask /\ NoWalk
           /\ bus.reset # "released"
           /\ t # NoTask
           /\ port \in PortRecord
    BY NullAssumption DEF PortInv, PlaceInv, BusInv, IInv, RestInv, Command, MutexFree, Free, NoWalk

LEMMA PlacesOk ==
    ASSUME NEW t \in Tasks
    PROVE  /\ \A place \in Places \ {"free"} :
                 LET c == [task |-> t, at |-> place]
                 IN  /\ c \in [task : Tasks \cup {NoTask}, at : Places]
                     /\ (c.at = "free" <=> c.task = NoTask)
           /\ Free \in [task : Tasks \cup {NoTask}, at : Places]
           /\ Free.at = "free" /\ Free.task = NoTask
    BY NullAssumption DEF Places, Free

\* Power and reset.
LEMMA PowerKeeps ==
    ASSUME PortInv, ~Interrupted, NEW t \in Tasks, PowerOn(t) \/ PowerOff(t) \/ ResetBegin(t)
    PROVE  PlaceInv' /\ BusInv' /\ EnabledHasDevice'
<1>1. /\ hprt.initialized /\ ~hprt.event_pending
      /\ ctl.task = NoTask /\ ctl.at = "free"
      /\ port.waiter = NoTask /\ NoWalk
      /\ bus.reset # "released"
      /\ t # NoTask /\ port \in PortRecord
    BY Called DEF PowerOn, PowerOff, ResetBegin
<1>2. ~bus.change /\ bus \in BusRecord
    BY <1>1 DEF Interrupted, Changes, PortInv, BusInv
<1>3. UNCHANGED <<hprt, inval>>
    BY DEF PowerOn, PowerOff, ResetBegin, TaskUnchanged, PortUnchanged
<1>4. CASE PowerOn(t)
    <2>1. /\ port' = [port EXCEPT !.state = "DISCONNECTED"] /\ UNCHANGED ctl
          /\ bus' = [bus EXCEPT !.powered = TRUE]
        BY <1>4 DEF PowerOn, SetState
    <2>2. /\ port'.state = "DISCONNECTED" /\ port'.conn = port.conn
          /\ port'.waiter = port.waiter
        BY <1>1, <2>1 DEF PortRecord
    <2>3. BusInv'
        BY <1>1, <1>2, <1>3, <2>1, <2>2 DEF PortInv, BusInv, BusRecord, HasReported, InReset,
           Reported, ConnectionEvent, Enables, Using
    <2> QED BY <1>3, <2>1, <2>2, <2>3 DEF PortInv, PlaceInv, EnabledHasDevice
<1>5. CASE PowerOff(t)
    <2>1. /\ port' = [port EXCEPT !.state = "NOT_POWERED"] /\ UNCHANGED ctl
          /\ bus' = [bus EXCEPT !.powered = FALSE, !.enabled = FALSE, !.change = FALSE,
                                !.reset = "none"]
        BY <1>5 DEF PowerOff, SetState
    <2>2. /\ port'.state = "NOT_POWERED" /\ port'.conn = port.conn
          /\ port'.waiter = port.waiter
        BY <1>1, <2>1 DEF PortRecord
    <2>3. BusInv'
        BY <1>1, <1>2, <1>3, <2>1, <2>2 DEF PortInv, BusInv, BusRecord, HasReported, InReset,
           Reported, ConnectionEvent, Enables, Using
    <2> QED BY <1>3, <2>1, <2>2, <2>3 DEF PortInv, PlaceInv, EnabledHasDevice
<1>6. CASE ResetBegin(t)
    <2>1. /\ port' = [port EXCEPT !.state = "RESETTING"]
          /\ ctl' = [task |-> t, at |-> "reset_hold"]
          /\ bus' = [bus EXCEPT !.reset = "held", !.enabled = FALSE,
                                !.change = bus.change \/ bus.enabled]
          /\ port.state \in {"ENABLED", "DISABLED"}
        BY <1>6 DEF ResetBegin, SetState, Goes
    <2>2. /\ port'.state = "RESETTING" /\ port'.conn = port.conn
          /\ port'.waiter = port.waiter
        BY <1>1, <2>1 DEF PortRecord
    <2>3. /\ bus' \in BusRecord /\ bus'.reset = "held" /\ ~bus'.enabled
          /\ bus'.change => bus.enabled
          /\ bus'.seen = bus.seen /\ bus'.lock = bus.lock
        BY <1>2, <2>1 DEF BusRecord
    <2>4. HasReported
        BY <1>1, <2>1 DEF Interrupted, Connects, PortInv, BusInv, HasReported, Using
    <2>5. ctl' \in [task : Tasks \cup {NoTask}, at : Places] /\ ctl'.at = "reset_hold"
          /\ ctl'.task = t
        BY <2>1, PlacesOk DEF Places
    <2>6. PlaceInv'
        BY <1>1, <1>3, <2>2, <2>5 DEF PortInv, PlaceInv, NoWalk
    <2>7. BusInv'
        BY <1>1, <1>3, <2>2, <2>3, <2>4, <2>5 DEF PortInv, BusInv, HasReported, InReset,
           Reported, ConnectionEvent, Enables
    <2>8. EnabledHasDevice'
        BY <2>2 DEF EnabledHasDevice
    <2> QED BY <2>6, <2>7, <2>8
<1> QED BY <1>4, <1>5, <1>6

LEMMA ResetKeeps ==
    ASSUME PortInv, ~Interrupted, ResetRelease \/ ResetEnd
    PROVE  PlaceInv' /\ BusInv' /\ EnabledHasDevice'
<1>1. /\ UNCHANGED <<port, hprt, inval>> /\ hprt.initialized /\ ~bus.change
      /\ ctl.at # "free" /\ ctl.task \in Tasks /\ bus \in BusRecord
    BY DEF ResetRelease, ResetEnd, TaskUnchanged, PortUnchanged, PortInv, PlaceInv, BusInv,
           Interrupted, Changes
<1>2. EnabledHasDevice'
    BY <1>1 DEF PortInv, EnabledHasDevice
<1>3. /\ port.waiter = NoTask /\ inval.phase = "off"
    BY DEF PortInv, PlaceInv, ResetRelease, ResetEnd
<1>4. CASE ctl' = Free
    <2>1. \/ UNCHANGED bus /\ port.state # "RESETTING" /\ ctl.at = "reset_hold"
          \/ bus' = [bus EXCEPT !.reset = "none"]
        BY <1>1, <1>4 DEF ResetRelease, ResetEnd, Leaves, Goes, Free
    <2>2. PlaceInv'
        BY <1>1, <1>3, <1>4, PlacesOk DEF PlaceInv
    <2>3. ctl'.at = "free"
        BY <1>4 DEF Free
    <2>4. BusInv'
        BY <1>1, <2>1, <2>3 DEF PortInv, BusInv, BusRecord, HasReported, InReset, Reported,
           ConnectionEvent, Enables
    <2> QED BY <1>2, <2>2, <2>4
<1>5. CASE ctl' # Free
    <2>1. /\ ctl' = [task |-> ctl.task, at |-> "reset_recovery"] /\ ctl.at = "reset_hold"
          /\ port.state = "RESETTING"
          /\ bus' = [bus EXCEPT !.reset = IF bus.line THEN "released" ELSE "none"]
        BY <1>5 DEF ResetRelease, ResetEnd, Leaves, Goes
    <2>2. /\ ctl' \in [task : Tasks \cup {NoTask}, at : Places] /\ ctl'.at = "reset_recovery"
          /\ ctl'.task \in Tasks
        BY <1>1, <2>1, PlacesOk DEF Places
    <2>3. PlaceInv'
        BY <1>1, <1>3, <2>2, NullAssumption DEF PlaceInv
    <2>4. /\ bus' \in BusRecord
          /\ bus'.enabled = bus.enabled /\ bus'.change = bus.change
          /\ bus'.seen = bus.seen /\ bus'.lock = bus.lock /\ bus'.line = bus.line
        BY <1>1, <2>1 DEF BusRecord
    <2>5. BusInv'
        BY <1>1, <2>1, <2>2, <2>4 DEF PortInv, BusInv, HasReported, InReset, Reported,
           ConnectionEvent, Enables
    <2> QED BY <1>2, <2>3, <2>5
<1> QED BY <1>4, <1>5

\* hcd_port_init, hcd_port_deinit and hcd_port_recover.
LEMMA SetupKeeps ==
    ASSUME PortInv, NEW t \in Tasks, PortInit(t) \/ PortDeinit(t) \/ PortRecover(t)
    PROVE  PlaceInv' /\ BusInv' /\ EnabledHasDevice'
<1>1. /\ port \in PortRecord /\ bus \in BusRecord /\ hprt \in HprtRecord
      /\ UNCHANGED <<inval, ctl>>
    BY DEF PortInv, BusInv, IInv, RestInv, PortInit, PortDeinit, PortRecover, PortUnchanged, vars
<1>2. ctl.at = "free" /\ port.waiter = NoTask /\ inval.phase = "off"
    BY DEF PortInv, PlaceInv, PortInit, PortDeinit, PortRecover, AtRest, MutexFree, Free
<1>3. CASE PortInit(t)
    <2>1. /\ port'.state = "NOT_POWERED" /\ port'.conn = port.conn /\ port'.waiter = port.waiter
          /\ hprt' \in HprtRecord /\ hprt'.initialized /\ hprt'.last_event = "NONE"
          /\ UNCHANGED bus /\ ~hprt.initialized
        BY <1>1, <1>3 DEF PortInit, PortRecord, HprtRecord, PortEvents
    <2>2. BusInv'
        BY <1>1, <1>2, <2>1 DEF PortInv, BusInv, HasReported, InReset, Reported,
           ConnectionEvent, Enables, Using
    <2> QED BY <1>1, <1>2, <2>1, <2>2 DEF PortInv, PlaceInv, EnabledHasDevice
<1>4. CASE PortDeinit(t) \/ PortRecover(t)
    <2>1. /\ bus' \in BusRecord /\ ~bus'.enabled /\ ~bus'.change /\ ~bus'.seen
          /\ bus'.reset = "none"
        BY <1>1, <1>4 DEF PortDeinit, PortRecover, BusReset, BusRecord
    <2>2. /\ port'.state \in {"NOT_POWERED", "RECOVERY"} /\ ~port'.conn
          /\ port'.waiter = port.waiter
        BY <1>1, <1>4 DEF PortDeinit, PortRecover, AtRest, PortRecord, vars
    <2>3. hprt' \in HprtRecord
        BY <1>1, <1>4 DEF PortDeinit, PortRecover, HprtRecord, PortEvents
    <2>4. BusInv'
        BY <1>1, <1>2, <2>1, <2>2, <2>3 DEF BusInv, HasReported, InReset, Reported, Enables,
           Using
    <2> QED BY <1>1, <1>2, <2>1, <2>2, <2>4 DEF PortInv, PlaceInv, EnabledHasDevice
<1> QED BY <1>3, <1>4

\* A step that leaves the place, the bus and what they relate to alone.
LEMMA StillKeeps ==
    ASSUME PortInv, UNCHANGED portVars, UNCHANGED inval,
           port'.state = port.state, port'.conn = port.conn, port'.waiter = port.waiter
    PROVE  PlaceInv' /\ BusInv' /\ EnabledHasDevice'
<1>1. PlaceInv' /\ EnabledHasDevice'
    BY DEF PortInv, PlaceInv, EnabledHasDevice, portVars
<1>2. BusInv'
    BY DEF PortInv, BusInv, portVars, HasReported, InReset, Reported, ConnectionEvent, Enables
<1> QED BY <1>1, <1>2

\* The suspend and the pause that comes before a disable.
LEMMA PauseKeeps ==
    ASSUME PortInv, ~Interrupted, NEW t \in Tasks,
           SuspendNow(t) \/ SuspendWait(t) \/ DisableWait(t)
    PROVE  PlaceInv' /\ BusInv' /\ EnabledHasDevice'
<1>1. /\ hprt.initialized
      /\ ctl.task = NoTask /\ ctl.at = "free"
      /\ port.waiter = NoTask /\ NoWalk
      /\ bus.reset # "released"
      /\ t # NoTask /\ port \in PortRecord
    BY Called DEF SuspendNow, SuspendWait, DisableWait
<1>2. /\ UNCHANGED <<inval, hprt, bus>> /\ port.state = "ENABLED"
      /\ ctl \in [task : Tasks \cup {NoTask}, at : Places]
    BY DEF SuspendNow, SuspendWait, DisableWait, PauseAndWait, PausesAll, Steady, portVars,
           PortInv, PlaceInv
<1>3. port.conn /\ inval.phase = "off"
    BY <1>1, <1>2 DEF PortInv, EnabledHasDevice, NoWalk
<1>4. CASE SuspendNow(t)
    <2>1. /\ UNCHANGED ctl /\ port'.state = "SUSPENDED" /\ port'.conn = port.conn
          /\ port'.waiter = NoTask
        BY <1>1, <1>4 DEF SuspendNow, SetState, portVars, PortRecord
    <2> QED BY <1>1, <1>2, <1>3, <2>1, PlaceStep DEF Using
<1>5. CASE SuspendWait(t) \/ DisableWait(t)
    <2>1. /\ port'.state = "ENABLED" /\ port'.conn = port.conn /\ port'.waiter = t
        BY <1>1, <1>2, <1>5 DEF SuspendWait, DisableWait, PauseAndWait, PortRecord
    <2>2. PICK place \in {"suspend_wait", "disable_pause"} : ctl' = [task |-> t, at |-> place]
        BY <1>5 DEF SuspendWait, DisableWait, Goes
    <2>3. /\ ctl' \in [task : Tasks \cup {NoTask}, at : Places] /\ ctl'.at = place
          /\ ctl'.task = t
        BY <2>2, PlacesOk DEF Places
    <2> QED BY <1>1, <1>2, <1>3, <2>1, <2>3, PlaceStep DEF Using
<1> QED BY <1>4, <1>5

\* The end of a suspend and a resume.
LEMMA ResumeKeeps ==
    ASSUME PortInv, ~Interrupted,
           \/ SuspendEnd \/ ResumeRelease \/ ResumeFail \/ ResumeEnd
           \/ \E t \in Tasks : ResumeBegin(t)
    PROVE  PlaceInv' /\ BusInv' /\ EnabledHasDevice'
<1>1. /\ port \in PortRecord /\ UNCHANGED <<inval, hprt, bus>>
      /\ ctl \in [task : Tasks \cup {NoTask}, at : Places]
    BY DEF PortInv, PlaceInv, IInv, RestInv, SuspendEnd, ResumeRelease, ResumeFail, ResumeEnd,
           ResumeBegin, TaskUnchanged, PortUnchanged, UnpauseAll
<1>2. CASE SuspendEnd
    <2>1. /\ ctl.at = "suspend_wait" /\ ctl' = Free
          /\ port'.waiter = NoTask /\ port'.conn = port.conn
          /\ port'.state = IF StillEnabled THEN "SUSPENDED" ELSE port.state
        BY <1>1, <1>2 DEF SuspendEnd, Back, Leaves, PortRecord
    <2>2. hprt.initialized /\ bus.reset # "released" /\ inval.phase = "off"
        BY <2>1 DEF PortInv, PlaceInv, BusInv
    <2>3. /\ port'.state \in {"ENABLED", "SUSPENDED", "RESUMING"} => port.conn
          /\ port'.state \in Using => port.state \in Using
          /\ port.conn => port'.state \in {"ENABLED", "SUSPENDED", "RESUMING", "RESETTING",
                                           "NOT_POWERED", "DISCONNECTED"}
        BY <2>1 DEF StillEnabled, Using, PortInv, EnabledHasDevice
    <2> QED BY <1>1, <2>1, <2>2, <2>3, PlacesOk, PlaceStep DEF Free, Places
<1>3. CASE \E t \in Tasks : ResumeBegin(t)
    <2>1. PICK t \in Tasks : ResumeBegin(t)
        BY <1>3
    <2>2. /\ hprt.initialized
          /\ ctl.task = NoTask /\ ctl.at = "free"
          /\ port.waiter = NoTask /\ NoWalk
          /\ bus.reset # "released" /\ t # NoTask
        BY <2>1, Called DEF ResumeBegin
    <2>3. /\ port.state = "SUSPENDED" /\ port'.state = "RESUMING" /\ port'.conn = port.conn
          /\ port'.waiter = port.waiter /\ ctl' = [task |-> t, at |-> "resume_hold"]
        BY <1>1, <2>1 DEF ResumeBegin, SetState, Goes, PortRecord
    <2>4. /\ ctl' \in [task : Tasks \cup {NoTask}, at : Places] /\ ctl'.at = "resume_hold"
          /\ ctl'.task = t
        BY <2>3, PlacesOk DEF Places
    <2> QED BY <1>1, <2>2, <2>3, <2>4, PlaceStep DEF Using, NoWalk, PortInv, EnabledHasDevice
<1>4. CASE ResumeRelease \/ ResumeFail \/ ResumeEnd
    <2>1. /\ ctl.at \in {"resume_hold", "resume_recovery"}
          /\ \/ ctl' = Free
             \/ ctl' = [task |-> ctl.task, at |-> "resume_recovery"]
        BY <1>4 DEF ResumeRelease, ResumeFail, ResumeEnd, Goes, Leaves
    <2>2. /\ hprt.initialized /\ bus.reset # "released" /\ inval.phase = "off"
          /\ port.waiter = NoTask /\ ctl.task \in Tasks /\ ctl.task # NoTask
        BY <1>1, <2>1, NullAssumption DEF PortInv, PlaceInv, BusInv
    <2>3. /\ ctl' \in [task : Tasks \cup {NoTask}, at : Places]
          /\ ctl'.at \in {"free", "resume_recovery"}
          /\ ctl'.at = "free" <=> ctl'.task = NoTask
        BY <2>1, <2>2, PlacesOk DEF Places, Free
    <2>4. /\ port'.waiter = port.waiter /\ port'.conn = port.conn
          /\ port'.state \in {"ENABLED", "SUSPENDED", "RESUMING"} => port.conn
          /\ port'.state \in Using => port.state \in Using
          /\ port.conn => port'.state \in {"ENABLED", "SUSPENDED", "RESUMING", "RESETTING",
                                           "NOT_POWERED", "DISCONNECTED"}
        BY <1>1, <1>4 DEF ResumeRelease, ResumeFail, ResumeEnd, UnpauseAll, Resuming,
           PortRecord, Using, PortInv, EnabledHasDevice
    <2> QED BY <1>1, <2>2, <2>3, <2>4, PlaceStep
<1> QED BY <1>2, <1>3, <1>4

\* _port_disable requests the disabling of the port, and waits for it.
LEMMA RequestKeeps ==
    ASSUME PortInv, ~Interrupted, hprt.initialized, RequestDisable, NEW t \in Tasks,
           ctl' = [task |-> t, at |-> "disable_wait"], UNCHANGED inval, inval.phase = "off",
           bus.reset # "released", port'.state = port.state, port'.conn = port.conn
    PROVE  PlaceInv' /\ BusInv' /\ EnabledHasDevice'
<1>1. hprt \in HprtRecord /\ bus \in BusRecord /\ ~bus.change
    BY DEF PortInv, BusInv, Interrupted, Changes
<1>2. /\ ctl' \in [task : Tasks \cup {NoTask}, at : Places] /\ ctl'.at = "disable_wait"
      /\ ctl'.task # NoTask
    BY PlacesOk, NullAssumption DEF Places
<1>3. /\ hprt' \in HprtRecord /\ hprt'.initialized
      /\ hprt'.event_pending = hprt.event_pending /\ hprt'.last_event = hprt.last_event
    BY <1>1 DEF RequestDisable, HprtRecord
<1>4. /\ bus' \in BusRecord /\ ~bus'.enabled /\ bus'.change = bus.enabled
      /\ bus'.seen = bus.seen /\ bus'.lock = bus.lock /\ bus'.line = bus.line
      /\ bus'.reset = bus.reset
    BY <1>1 DEF RequestDisable, BusRecord
<1>5. PlaceInv'
    BY <1>2, <1>3 DEF PlaceInv
<1>6. BusInv'
    BY <1>2, <1>3, <1>4 DEF PortInv, BusInv, HasReported, InReset, Reported, ConnectionEvent,
       Enables
<1>7. EnabledHasDevice'
    BY DEF PortInv, EnabledHasDevice
<1> QED BY <1>5, <1>6, <1>7

LEMMA DisableKeeps ==
    ASSUME PortInv, ~Interrupted,
           (\E t \in Tasks : DisableNow(t)) \/ DisablePaused \/ DisableFail
    PROVE  PlaceInv' /\ BusInv' /\ EnabledHasDevice'
<1>1. /\ port \in PortRecord /\ UNCHANGED inval
      /\ ctl \in [task : Tasks \cup {NoTask}, at : Places]
    BY DEF PortInv, PlaceInv, IInv, RestInv, DisableNow, DisablePaused, DisableFail,
           TaskUnchanged, PortUnchanged
<1>2. CASE \E t \in Tasks : DisableNow(t)
    <2>1. PICK t \in Tasks : DisableNow(t)
        BY <1>2
    <2>2. hprt.initialized /\ NoWalk /\ bus.reset # "released"
        BY <2>1, Called DEF DisableNow
    <2>3. /\ port'.state = port.state /\ port'.conn = port.conn
          /\ RequestDisable /\ ctl' = [task |-> t, at |-> "disable_wait"]
        BY <1>1, <2>1 DEF DisableNow, Goes, PortRecord
    <2> QED BY <1>1, <2>2, <2>3, RequestKeeps DEF NoWalk
<1>3. CASE DisablePaused \/ DisableFail
    <2>1. ctl.at \in {"disable_pause", "disable_wait"}
        BY <1>3 DEF DisablePaused, DisableFail, Back
    <2>2. /\ hprt.initialized /\ bus.reset # "released" /\ inval.phase = "off"
          /\ ctl.task \in Tasks
        BY <1>1, <2>1 DEF PortInv, PlaceInv, BusInv
    <2>3. port'.state = port.state /\ port'.conn = port.conn
        BY <1>1, <1>3 DEF DisablePaused, DisableFail, PortRecord
    <2>4. CASE RequestDisable /\ ctl' = [task |-> ctl.task, at |-> "disable_wait"]
        BY <1>1, <2>2, <2>3, <2>4, RequestKeeps
    <2>5. CASE /\ UNCHANGED <<hprt, bus>> /\ ctl' = Free
               /\ port' = [port EXCEPT !.waiter = NoTask, !.woken = FALSE]
        <3>1. port'.waiter = NoTask
            BY <1>1, <2>5 DEF PortRecord
        <3> QED BY <1>1, <2>1, <2>2, <2>3, <2>5, <3>1, PlacesOk, PlaceStep
                DEF Using, Free, PortInv, EnabledHasDevice
    <2> QED BY <1>3, <2>4, <2>5 DEF DisablePaused, DisableFail, TaskUnchanged, Goes, Leaves
<1> QED BY <1>2, <1>3

\* A walk over the pipes ends, or goes on where the walk is.
LEMMA Visited ==
    ASSUME NEW v, Visit(v)
    PROVE  inval'.phase = "off" \/ inval' = v
    BY DEF Visit

\* The walk over the pipes.
LEMMA WalkKeeps ==
    ASSUME PortInv, ~Interrupted, DisableEnd \/ InvalidateStep
    PROVE  PlaceInv' /\ BusInv' /\ EnabledHasDevice'
<1>1. /\ port \in PortRecord /\ UNCHANGED <<hprt, bus>> /\ WalkGoesOn
      /\ ctl \in [task : Tasks \cup {NoTask}, at : Places]
      /\ ctl.at \in {"disable_wait", "invalidate"}
    BY DEF PortInv, PlaceInv, IInv, RestInv, DisableEnd, InvalidateStep, Back
<1>2. /\ hprt.initialized /\ bus.reset # "released" /\ ctl.task \in Tasks
    BY <1>1 DEF PortInv, PlaceInv, BusInv
<1>3. port'.state = port.state /\ port'.conn = port.conn /\ port'.waiter = NoTask
    <2>1. CASE DisableEnd
        BY <1>1, <2>1 DEF DisableEnd, InvalidateBegin, PortRecord
    <2>2. CASE InvalidateStep
        BY <2>2 DEF InvalidateStep, InvalidateNext, PortInv, PlaceInv
    <2> QED BY <2>1, <2>2
<1>4. ctl' = IF inval'.phase = "off" THEN Free ELSE [task |-> ctl.task, at |-> "invalidate"]
    BY <1>1 DEF WalkGoesOn, Leaves, Goes
<1>5. /\ ctl' \in [task : Tasks \cup {NoTask}, at : Places]
      /\ ctl'.at = "free" <=> ctl'.task = NoTask
      /\ ctl'.at \in {"free", "invalidate"}
      /\ inval'.phase # "off" => ctl'.at = "invalidate"
    BY <1>2, <1>4, PlacesOk DEF Places, Free
<1> QED BY <1>1, <1>2, <1>3, <1>5, PlaceStep DEF Using, PortInv, EnabledHasDevice

\* What hcd_port_handle_event finds.
LEMMA Handled ==
    ASSUME PortInv, NEW t \in Tasks, Handles(t)
    PROVE  /\ hprt.initialized /\ hprt.event_pending
           /\ ctl.task = NoTask /\ ctl.at = "free"
           /\ port.waiter = NoTask /\ NoWalk
           /\ bus.reset # "released"
           /\ t # NoTask
           /\ port \in PortRecord
           /\ hprt' \in HprtRecord /\ hprt'.initialized /\ ~hprt'.event_pending
<1>1. hprt \in HprtRecord
    BY DEF PortInv, BusInv
<1> QED BY <1>1, NullAssumption DEF PortInv, PlaceInv, BusInv, IInv, RestInv, Handles,
                                    MutexFree, Free, NoWalk, HprtRecord

LEMMA HandleKeeps ==
    ASSUME PortInv, ~Interrupted, NEW t \in Tasks,
           HandleUnpowered(t) \/ HandleDebounce(t) \/ HandleLoss(t)
    PROVE  PlaceInv' /\ BusInv' /\ EnabledHasDevice'
<1>1. /\ hprt.initialized /\ hprt.event_pending
      /\ ctl.task = NoTask /\ ctl.at = "free"
      /\ port.waiter = NoTask /\ NoWalk
      /\ bus.reset # "released"
      /\ t # NoTask
      /\ port \in PortRecord
      /\ hprt' \in HprtRecord /\ hprt'.initialized /\ ~hprt'.event_pending
    BY Handled DEF HandleUnpowered, HandleDebounce, HandleLoss
<1>2. /\ UNCHANGED bus /\ ~bus.change
      /\ ctl \in [task : Tasks \cup {NoTask}, at : Places]
    BY <1>1 DEF HandleUnpowered, HandleDebounce, HandleLoss, Interrupted, Changes, PortInv,
       PlaceInv
<1>3. CASE HandleUnpowered(t)
    <2>1. /\ UNCHANGED <<ctl, inval>> /\ port'.waiter = NoTask /\ port'.conn = port.conn
          /\ port'.state \in {"NOT_POWERED", "DISCONNECTED"}
        BY <1>1, <1>3 DEF HandleUnpowered, SetState, PortUnchanged, PortRecord
    <2>2. BusInv'
        BY <1>1, <1>2, <2>1 DEF PortInv, BusInv, HasReported, InReset, Reported, Enables, Using
    <2> QED BY <1>1, <1>2, <2>1, <2>2 DEF PortInv, PlaceInv, EnabledHasDevice
<1>4. CASE HandleDebounce(t)
    <2>1. /\ UNCHANGED <<port, inval>> /\ ctl' = [task |-> t, at |-> "debounce"]
          /\ ~port.conn
        BY <1>1, <1>4 DEF HandleDebounce, Goes, PortUnchanged, PortInv, BusInv, Reported
    <2>2. /\ ctl' \in [task : Tasks \cup {NoTask}, at : Places] /\ ctl'.at = "debounce"
          /\ ctl'.task = t
        BY <2>1, PlacesOk DEF Places
    <2>3. BusInv'
        BY <1>1, <1>2, <2>1, <2>2 DEF PortInv, BusInv, HasReported, InReset, Reported, Enables
    <2> QED BY <1>1, <1>2, <2>1, <2>2, <2>3 DEF PortInv, PlaceInv, EnabledHasDevice, NoWalk
<1>5. CASE HandleLoss(t)
    <2>1. /\ port'.state = port.state /\ ~port.conn /\ ~port'.conn /\ port'.waiter = NoTask
        BY <1>1, <1>5 DEF HandleLoss, InvalidateBegin, PortRecord
    <2>2. /\ ctl' \in [task : Tasks \cup {NoTask}, at : Places]
          /\ ctl'.at = "free" <=> ctl'.task = NoTask
          /\ ctl'.at \in {"free", "invalidate"}
          /\ inval'.phase # "off" => ctl'.at = "invalidate"
        BY <1>1, <1>2, <1>5, PlacesOk DEF HandleLoss, Goes, Places
    <2>3. BusInv'
        BY <1>1, <1>2, <2>1, <2>2 DEF PortInv, BusInv, HasReported, InReset, Reported, Enables
    <2>4. PlaceInv'
        BY <1>1, <2>1, <2>2 DEF PlaceInv
    <2> QED BY <2>1, <2>3, <2>4 DEF PortInv, EnabledHasDevice
<1> QED BY <1>3, <1>4, <1>5

LEMMA DebouncedKeeps ==
    ASSUME PortInv, ~Interrupted, Debounced
    PROVE  PlaceInv' /\ BusInv' /\ EnabledHasDevice'
<1>1. /\ port \in PortRecord /\ bus \in BusRecord /\ UNCHANGED <<hprt, inval>>
      /\ ctl.at = "debounce" /\ ctl' = Free /\ hprt.initialized
    BY DEF PortInv, PlaceInv, BusInv, IInv, RestInv, Debounced, TaskUnchanged, PortUnchanged,
           Leaves
<1>2. /\ port.waiter = NoTask /\ inval.phase = "off" /\ ~port.conn /\ ctl.task \in Tasks
    BY <1>1 DEF PortInv, PlaceInv, BusInv
<1>3. /\ port'.waiter = NoTask /\ ~port'.conn
      /\ port'.state = IF bus.line THEN "DISABLED" ELSE "DISCONNECTED"
    BY <1>1, <1>2 DEF Debounced, SetState, PortRecord
<1>4. /\ bus' \in BusRecord /\ bus'.line = bus.line /\ bus'.seen = bus.seen
      /\ bus'.enabled = bus.enabled /\ bus'.change = bus.change /\ bus'.reset = bus.reset
    BY <1>1 DEF Debounced, BusRecord
<1>5. ~bus.change
    BY <1>1 DEF Interrupted, Changes
<1>6. PlaceInv'
    BY <1>1, <1>2, <1>3, PlacesOk DEF PlaceInv
<1>7. ctl'.at = "free"
    BY <1>1 DEF Free
<1>8. BusInv'
    BY <1>1, <1>2, <1>3, <1>4, <1>5, <1>7 DEF PortInv, BusInv, HasReported, InReset, Reported,
       Enables, Using
<1> QED BY <1>3, <1>6, <1>8 DEF EnabledHasDevice

\* The pipe functions leave the port alone, and so does an interrupt of a channel, except
\* that it counts the pipes a port command waits for.
LEMMA ClientLeavesPort ==
    ASSUME NEW t \in Tasks, ClientStep(t)
    PROVE  UNCHANGED <<port, inval>>
<1>1. CASE CallStep(t)
    BY <1>1 DEF CallStep, EnqueueFreed, EnqueueReject, EnqueueStart, EnqueuePend, CommandWake,
       ResumeFreed, ResumeInvalid, ResumeRunning, ResumeBusy, ResumeDone, Fail
<1>2. CASE \E p \in Pipes : CommandClear(t, p) \/ ClearBusy(t, p)
    BY <1>2 DEF CommandClear, ClearBusy, Fail
<1>3. CASE \E p \in Pipes, c \in Blocking : CommandNow(t, p, c) \/ CommandBlock(t, p, c)
    BY <1>3 DEF CommandNow, CommandBlock
<1>4. CASE \E p \in Pipes : Dequeue(t, p) \/ DequeueMisplaced(t, p)
    BY <1>4 DEF Dequeue, DequeueMisplaced, Fail
<1>5. CASE \E p \in Pipes : Alloc(t, p) \/ FreePipe(t, p) \/ GetEvent(t, p)
    BY <1>5 DEF Alloc, FreePipe, GetEvent
<1>6. CASE \/ \E p \in Pipes, i \in Irps : EnqueueCheck(t, p, i)
           \/ \E i \in Irps : AbortIrp(t, i)
           \/ \E p \in Pipes, a \in Addrs : Update(t, p, a)
    BY <1>6 DEF EnqueueCheck, AbortIrp, Update
<1> QED BY <1>1, <1>2, <1>3, <1>4, <1>5, <1>6 DEF ClientStep

LEMMA ChanLeavesPort ==
    ASSUME port \in PortRecord, NEW p \in Pipes, ChanStep(p)
    PROVE  /\ UNCHANGED inval
           /\ port'.state = port.state /\ port'.conn = port.conn /\ port'.waiter = port.waiter
<1>1. CASE ChanDonePause(p)
    BY <1>1 DEF ChanDonePause, PortRecord
<1>2. CASE ~ChanDonePause(p)
    BY <1>2 DEF ChanStep, ChanIgnored, ChanDoneNext, ChanDoneOrphan, ChanDoneCommand, ChanError,
       Fail
<1> QED BY <1>1, <1>2

\* Every step keeps what is known of the place, the bus and the device.
LEMMA NextKeepsPlace ==
    ASSUME PortInv, Next
    PROVE  PlaceInv' /\ BusInv' /\ EnabledHasDevice'
<1>1. port \in PortRecord
    BY DEF PortInv, IInv, RestInv
<1>2. CASE IsrNext
    BY <1>2, IsrKeeps
<1>3. CASE ~Interrupted /\ BusNext
    BY <1>3, BusKeeps
<1>4. ASSUME ~Interrupted, NEW t \in Tasks, CallPort(t)
      PROVE  PlaceInv' /\ BusInv' /\ EnabledHasDevice'
    BY <1>4, SetupKeeps, PowerKeeps, PauseKeeps, ResumeKeeps, DisableKeeps, HandleKeeps
       DEF CallPort
<1>5. ASSUME ~Interrupted, InPort
      PROVE  PlaceInv' /\ BusInv' /\ EnabledHasDevice'
    <2>1. CASE PortWake /\ UNCHANGED portVars
        <3>1. /\ UNCHANGED inval /\ port'.state = port.state /\ port'.conn = port.conn
              /\ port'.waiter = port.waiter
            BY <1>1, <2>1 DEF PortWake, PortUnchanged, PortRecord
        <3> QED BY <2>1, <3>1, StillKeeps
    <2>2. CASE ResumePanic \/ InvalidatePanic
        <3>1. UNCHANGED <<port, inval>> /\ UNCHANGED portVars
            BY <2>2 DEF ResumePanic, InvalidatePanic, UnpauseBusy, InvalidateFreed, Fail
        <3> QED BY <3>1, StillKeeps
    <2> QED BY <1>5, <2>1, <2>2, ResetKeeps, ResumeKeeps, DisableKeeps, WalkKeeps,
               DebouncedKeeps DEF InPort
<1>6. ASSUME NEW t \in Tasks, ClientStep(t), UNCHANGED portVars
      PROVE  PlaceInv' /\ BusInv' /\ EnabledHasDevice'
    BY <1>6, ClientLeavesPort, StillKeeps
<1>7. ASSUME NEW p \in Pipes, ChanStep(p), UNCHANGED portVars
      PROVE  PlaceInv' /\ BusInv' /\ EnabledHasDevice'
    BY <1>1, <1>7, ChanLeavesPort, StillKeeps
<1> QED BY <1>2, <1>3, <1>4, <1>5, <1>6, <1>7 DEF Next

-----------------------------------------------------------------------------
(* The port implements the port of HcdPipe *)

LEMMA IsrSimulates ==
    ASSUME PortInv, fault = "none", IsrNext
    PROVE  PipeNext \/ UNCHANGED vars
<1>1. CASE IsrConnection
    BY <1>1 DEF IsrConnection
<1>2. CASE IsrDisconnection
    <2>1. CASE port.conn
        <3>1. PortLost("RECOVERY")
            BY <1>2, <2>1 DEF IsrDisconnection, PortLost
        <3> QED BY <3>1, EnvironmentAssumption DEF PortStep, PipeNext
    <2>2. CASE ~port.conn
        BY <1>2, <2>2 DEF IsrDisconnection, PortUnchanged, vars
    <2> QED BY <2>1, <2>2
<1>3. CASE IsrEnabled
    <2>1. port.state = "RESETTING"
        BY <1>3 DEF IsrEnabled, Changes, PortInv, BusInv, Enables
    <2>2. PortEnabled
        BY <1>3, <2>1 DEF IsrEnabled, PortEnabled
    <2> QED BY <2>2 DEF PortStep, PipeNext
<1>4. CASE IsrDisabled
    <2>1. CASE port.state = "RESETTING"
        <3>1. port \in PortRecord
            BY DEF PortInv, IInv, RestInv
        <3>2. port' = [port EXCEPT !.conn = FALSE] /\ UNCHANGED notified /\ PortUnchanged
            BY <1>4, <2>1 DEF IsrDisabled
        <3>3. port' = [port EXCEPT !.state = "RESETTING", !.conn = FALSE]
            BY <2>1, <3>1, <3>2 DEF PortRecord
        <3>4. PortLost("RESETTING")
            BY <3>2, <3>3 DEF PortLost
        <3> QED BY <3>4, EnvironmentAssumption DEF PortStep, PipeNext
    <2>2. CASE port.state # "RESETTING"
        <3>1. PortLost("DISABLED")
            BY <1>4, <2>2 DEF IsrDisabled, PortLost
        <3> QED BY <3>1, EnvironmentAssumption DEF PortStep, PipeNext
    <2> QED BY <2>1, <2>2
<1>5. CASE IsrDisabledByRequest
    <2>1. PortLost("DISABLED")
        BY <1>5 DEF IsrDisabledByRequest, PortLost
    <2> QED BY <2>1, EnvironmentAssumption DEF PortStep, PipeNext
<1>6. CASE IsrDisabledOrphan
    <2>1. PortOrphan
        BY <1>6, EnvironmentAssumption DEF IsrDisabledOrphan, PortOrphan
    <2> QED BY <2>1 DEF PortStep, PipeNext
<1>7. CASE IsrOvercurrent
    <2>1. PortLost("NOT_POWERED")
        BY <1>7 DEF IsrOvercurrent, PortLost
    <2> QED BY <2>1, EnvironmentAssumption DEF PortStep, PipeNext
<1> QED BY <1>1, <1>2, <1>3, <1>4, <1>5, <1>6, <1>7 DEF IsrNext

\* A port function that moves the port to a state, while no task waits and none walks
\* over the pipes.
LEMMA SetSimulates ==
    ASSUME fault = "none", NoWalk, port.waiter = NoTask,
           NEW s \in {"NOT_POWERED", "DISCONNECTED", "DISABLED", "RESETTING", "RESUMING"},
           port' = [port EXCEPT !.state = s], PortMoves(s),
           UNCHANGED notified, PortUnchanged
    PROVE  PipeNext
<1>1. s \in TaskPortStates /\ PortSet(s)
    BY EnvironmentAssumption DEF PortSet
<1> QED BY <1>1 DEF PortStep, PipeNext

LEMMA CallSimulates ==
    ASSUME PortInv, fault = "none", NEW t \in Tasks, CallPort(t)
    PROVE  PipeNext \/ UNCHANGED vars
<1>1. port \in PortRecord
    BY DEF PortInv, IInv, RestInv
<1>2. CASE PortInit(t) \/ PortRecover(t) \/ PowerOff(t)
    <2>1. NoWalk /\ port.waiter = NoTask
        BY <1>2, Called DEF PortInit, PortRecover, PowerOff, AtRest, MutexFree, Free, PortInv,
           PlaceInv, NoWalk
    <2>2. /\ port' = [port EXCEPT !.state = "NOT_POWERED"]
          /\ UNCHANGED notified /\ PortUnchanged
        BY <1>2 DEF PortInit, PortRecover, PowerOff, SetState, TaskUnchanged
    <2> QED BY <2>1, <2>2, SetSimulates DEF PortMoves
<1>3. CASE PortDeinit(t)
    BY <1>3 DEF PortDeinit
<1>4. CASE PowerOn(t) \/ HandleUnpowered(t)
    <2>1. NoWalk /\ port.waiter = NoTask
        BY <1>4, Called, Handled DEF PowerOn, HandleUnpowered
    <2>2. /\ port' = [port EXCEPT !.state = "DISCONNECTED"] \/ UNCHANGED port
          /\ UNCHANGED notified /\ PortUnchanged /\ port.state = "NOT_POWERED"
        BY <1>4 DEF PowerOn, HandleUnpowered, SetState, TaskUnchanged
    <2>3. PortMoves("DISCONNECTED")
        BY <2>2 DEF PortMoves
    <2>4. CASE UNCHANGED port
        BY <2>2, <2>4 DEF PortUnchanged, vars
    <2> QED BY <2>1, <2>2, <2>3, <2>4, SetSimulates
<1>5. CASE ResetBegin(t)
    <2>1. NoWalk /\ port.waiter = NoTask
        BY <1>5, Called DEF ResetBegin
    <2>2. /\ port' = [port EXCEPT !.state = "RESETTING"]
          /\ UNCHANGED notified /\ PortUnchanged /\ PortMoves("RESETTING")
        BY <1>5 DEF ResetBegin, SetState, TaskUnchanged, PortMoves
    <2> QED BY <2>1, <2>2, SetSimulates
<1>6. CASE ResumeBegin(t)
    <2>1. NoWalk /\ port.waiter = NoTask
        BY <1>6, Called DEF ResumeBegin
    <2>2. /\ port' = [port EXCEPT !.state = "RESUMING"]
          /\ UNCHANGED notified /\ PortUnchanged /\ PortMoves("RESUMING")
        BY <1>6 DEF ResumeBegin, SetState, TaskUnchanged, PortMoves
    <2> QED BY <2>1, <2>2, SetSimulates
<1>7. CASE SuspendNow(t)
    <2>1. PauseAtOnce
        BY <1>7 DEF SuspendNow, SetState, PauseAtOnce
    <2> QED BY <2>1 DEF PortStep, PipeNext
<1>8. CASE SuspendWait(t) \/ DisableWait(t)
    <2>1. PauseAndWait(t)
        BY <1>8 DEF SuspendWait, DisableWait
    <2> QED BY <2>1 DEF PortStep, PipeNext
<1>9. CASE DisableNow(t)
    <2>1. /\ NoWalk /\ port.waiter = NoTask /\ CanCall(t)
          /\ port' = [port EXCEPT !.waiter = t] /\ LossPortStates # {}
          /\ UNCHANGED <<irp, idle, active, hw, call, notified, inval, fault>>
        BY <1>9, Called, EnvironmentAssumption DEF DisableNow, Command
    <2>2. CASE PausesAll /\ InFlightPipes = {}
        <3>1. PauseAtOnce
            BY <2>1, <2>2 DEF PauseAtOnce
        <3> QED BY <3>1 DEF PortStep, PipeNext
    <2>3. CASE port.state = "SUSPENDED" /\ UNCHANGED pipe
        <3>1. PortWait(t)
            BY <2>1, <2>3 DEF PortWait, PortUnchanged
        <3> QED BY <3>1 DEF PortStep, PipeNext
    <2> QED BY <1>9, <2>2, <2>3 DEF DisableNow
<1>10. CASE HandleDebounce(t)
    BY <1>10 DEF HandleDebounce, PortUnchanged, vars
<1>11. CASE HandleLoss(t)
    <2>1. InvalidateBegin
        BY <1>11 DEF HandleLoss
    <2> QED BY <2>1 DEF PortStep, PipeNext
<1> QED BY <1>2, <1>3, <1>4, <1>5, <1>6, <1>7, <1>8, <1>9, <1>10, <1>11 DEF CallPort

LEMMA InPortSimulates ==
    ASSUME PortInv, fault = "none", InPort
    PROVE  PipeNext \/ UNCHANGED vars
<1>1. CASE ResetRelease \/ ResetEnd \/ ResumeRelease \/ ResumeFail
    BY <1>1 DEF ResetRelease, ResetEnd, ResumeRelease, ResumeFail, TaskUnchanged,
       PortUnchanged, vars
<1>2. CASE PortWake
    BY <1>2 DEF PortStep, PipeNext
<1>3. CASE SuspendEnd
    <2>1. /\ port.woken /\ UNCHANGED notified /\ PortUnchanged
          /\ port' = [port EXCEPT !.waiter = NoTask, !.woken = FALSE,
                                  !.state = IF StillEnabled THEN "SUSPENDED" ELSE @]
        BY <1>3 DEF SuspendEnd, Back, TaskUnchanged
    <2>2. port \in PortRecord
        BY DEF PortInv, IInv, RestInv
    <2>3. CASE StillEnabled
        <3>1. port' = [port EXCEPT !.waiter = NoTask, !.woken = FALSE, !.state = "SUSPENDED"]
            BY <2>1, <2>3
        <3>2. PortReturn
            BY <2>1, <2>3, <3>1 DEF PortReturn, StillEnabled
        <3> QED BY <3>2 DEF PortStep, PipeNext
    <2>4. CASE ~StillEnabled
        <3>1. port' = [port EXCEPT !.waiter = NoTask, !.woken = FALSE]
            BY <2>1, <2>2, <2>4 DEF PortRecord
        <3>2. PortReturn
            BY <2>1, <3>1 DEF PortReturn
        <3> QED BY <3>2 DEF PortStep, PipeNext
    <2> QED BY <2>3, <2>4
<1>4. CASE ResumeEnd \/ ResumePanic
    BY <1>4 DEF ResumeEnd, ResumePanic, PortStep, PipeNext
<1>5. CASE DisablePaused \/ DisableFail
    <2>1. PortReturn
        BY <1>5, EnvironmentAssumption DEF DisablePaused, DisableFail, Back, StillEnabled,
           TaskUnchanged, PortReturn
    <2> QED BY <2>1 DEF PortStep, PipeNext
<1>6. CASE DisableEnd \/ InvalidateStep \/ InvalidatePanic
    BY <1>6 DEF DisableEnd, InvalidateStep, InvalidatePanic, PortStep, PipeNext
<1>7. CASE Debounced
    <2>1. NoWalk /\ port.waiter = NoTask /\ ~port.conn
        BY <1>7 DEF Debounced, PortInv, PlaceInv, BusInv, NoWalk
    <2>2. PICK s \in {"DISABLED", "DISCONNECTED"} : port' = [port EXCEPT !.state = s]
        BY <1>7 DEF Debounced, SetState
    <2>3. PortMoves(s) /\ UNCHANGED notified /\ PortUnchanged
        BY <1>7, <2>1 DEF Debounced, TaskUnchanged, PortMoves
    <2> QED BY <2>1, <2>2, <2>3, SetSimulates
<1> QED BY <1>1, <1>2, <1>3, <1>4, <1>5, <1>6, <1>7 DEF InPort

\* Every step of the port and its pipes is one that HcdPipe allows, or changes nothing
\* that HcdPipe knows of.
LEMMA NextSimulates ==
    ASSUME PortInv, Next
    PROVE  PipeNext \/ UNCHANGED vars
<1>1. fault = "none"
    BY DEF Next
<1>2. CASE IsrNext
    BY <1>1, <1>2, IsrSimulates
<1>3. CASE BusNext
    BY <1>3 DEF BusNext, Plug, LineUp, LineDown, Unplug, BusEnable, BusError, BusStep
<1>4. CASE \E t \in Tasks : CallPort(t)
    BY <1>1, <1>4, CallSimulates
<1>5. CASE InPort
    BY <1>1, <1>5, InPortSimulates
<1>6. CASE (\E t \in Tasks : ClientStep(t)) \/ (\E p \in Pipes : ChanStep(p))
    BY <1>1, <1>6 DEF PipeNext
<1> QED BY <1>2, <1>3, <1>4, <1>5, <1>6 DEF Next

LEMMA InitPort ==
    ASSUME Init
    PROVE  PortInv
<1>1. IInv
    BY InitHolds DEF Init
<1>2. port.state = "NOT_POWERED" /\ ~port.conn /\ port.waiter = NoTask /\ inval.phase = "off"
    <2>1. inval.phase = "off"
        BY DEF Init, PipeInit
    <2>2. PICK s \in {"ENABLED", "NOT_POWERED"} :
             port = [state |-> s, conn |-> s = "ENABLED", waiting_all |-> FALSE,
                     num_waiting |-> 0, waiter |-> NoTask, woken |-> FALSE]
        BY DEF Init, PipeInit
    <2>3. s = "NOT_POWERED"
        BY <2>2 DEF Init
    <2> QED BY <2>1, <2>2, <2>3
<1>3. /\ ctl \in [task : Tasks \cup {NoTask}, at : Places]
      /\ ctl.at = "free" /\ ctl.task = NoTask
    BY DEF Init, Free, Places
<1>4. /\ bus \in BusRecord /\ ~bus.enabled /\ ~bus.change /\ ~bus.seen /\ bus.reset = "none"
    BY DEF Init, BusRecord
<1>5. hprt \in HprtRecord /\ hprt.initialized /\ hprt.last_event = "NONE"
    BY DEF Init, HprtRecord, PortEvents
<1>6. PlaceInv
    BY <1>2, <1>3, <1>5 DEF PlaceInv
<1>7. BusInv
    BY <1>2, <1>3, <1>4, <1>5 DEF BusInv, InReset, Reported, ConnectionEvent, Enables, Using
<1> QED BY <1>1, <1>2, <1>6, <1>7 DEF PortInv, EnabledHasDevice

LEMMA NextKeepsPort ==
    ASSUME PortInv, [Next]_allVars
    PROVE  PortInv' /\ [PipeNext]_vars
<1>1. CASE Next
    <2>1. [PipeNext]_vars
        BY <1>1, NextSimulates
    <2>2. IInv'
        BY <2>1, NextKeeps DEF PortInv
    <2> QED BY <1>1, <2>1, <2>2, NextKeepsPlace DEF PortInv
<1>2. CASE UNCHANGED allVars
    <2>1. UNCHANGED vars /\ UNCHANGED portVars
        BY <1>2 DEF allVars
    <2>2. UNCHANGED <<port, inval>>
        BY <2>1 DEF vars
    <2>3. PlaceInv' /\ BusInv' /\ EnabledHasDevice'
        BY <2>1, <2>2, StillKeeps
    <2>4. IInv'
        BY <2>1, NextKeeps DEF PortInv
    <2> QED BY <2>1, <2>3, <2>4 DEF PortInv
<1> QED BY <1>1, <1>2

-----------------------------------------------------------------------------
(* The theorems *)

\* The invariant holds in every state the port and its pipes reach.
THEOREM PortInvariant == Spec => []PortInv
<1>1. Init => PortInv
    BY InitPort
<1>2. PortInv /\ [Next]_allVars => PortInv'
    BY NextKeepsPort
<1> QED BY <1>1, <1>2, PTL DEF Spec

\* hcd_port_command, hcd_port_handle_event, hcd_port_init, _deinit and _recover, and the
\* interrupt of the port, on any bus, do to the port only what HcdPipe lets its port do.
THEOREM PortSimulates == Spec => IsPipeSpec
<1>1. Init => PipeInit
    BY DEF Init
<1>2. PortInv /\ [Next]_allVars => [PipeNext]_vars
    BY NextKeepsPort
<1> QED BY <1>1, <1>2, PortInvariant, PTL DEF Spec, IsPipeSpec, PipeSpec

\* Every variable of the port and of its pipes keeps its type; port_mux in particular is
\* held by one task at one place.
THEOREM PortTypeCorrect == Spec => []PortTypeOK
<1>1. PortInv /\ TypeOK => PortTypeOK
    BY DEF PortInv, PlaceInv, BusInv, PortTypeOK
<1>2. Spec => []TypeOK
    BY PortSimulates, TypeCorrect, PTL DEF IsPipeSpec
<1> QED BY <1>1, <1>2, PortInvariant, PTL

\* A port that is enabled, suspended or resuming has a connected device that was reset:
\* the flag conn_devc_ena and the state of the port agree, although interrupts write both between any two steps of the
\* port functions, which test one and write the other.
THEOREM EnabledPortHasDevice == Spec => []EnabledHasDevice
<1>1. PortInv => EnabledHasDevice
    BY DEF PortInv
<1> QED BY <1>1, PortInvariant, PTL

\* What is proved of the pipes holds of them below this port: the lists of pipes, the
\* channels and the commands, whatever the port and the bus do to them, ...
THEOREM PipesBelowPort == Spec => [](PortLists /\ ChannelHasIrp /\ CommandExclusive)
<1>1. Spec => PipeSpec
    BY PortSimulates DEF IsPipeSpec
<1> QED BY <1>1, ListsCorrect, ChannelsHaveIrps, CommandsExclusive, PTL

\* ... and, when every IRP is enqueued by one task, where the IRPs are and the order and
\* the results in which a client gets them back.
THEOREM IrpsBelowPort ==
    ASSUME OwnedIrps
    PROVE  Spec => []IrpPlacement /\ ResultsFinal /\ IsFifo
<1>1. Spec => PipeSpec
    BY PortSimulates DEF IsPipeSpec
<1> QED BY <1>1, PlacementKept, FinalResults, PipesAreFifos, PTL

-----------------------------------------------------------------------------
(* A device that is unplugged, on a bus where nothing else goes wrong *)

Unplugs == BusFaults \subseteq {"unplug"}

\* The interrupt that enables the port comes in the recovery time of a bus reset.
EnablesInReset == Enables => ctl.at = "reset_recovery"

\* The interrupt that disables the port was asked for, by a reset or by hcd_port_command.
DisableAskedFor ==
    bus.change /\ ~bus.enabled =>
        \/ port.state = "RESETTING"
        \/ ctl.at = "disable_wait" /\ hprt.disable_requested

\* The loss of the device was reported, and no task has handled that yet.
LossPending == hprt.event_pending /\ hprt.last_event \in LossEvents

\* Until then the port stays in the recovery state and reports nothing else.
LossReported ==
    /\ LossPending => /\ port.state = "RECOVERY"
                      /\ bus.lock /\ ~bus.seen
                      /\ ctl.at # "debounce"
    /\ ~hprt.initialized => ~hprt.event_pending

UnplugInv == DisableAskedFor /\ LossReported

\* A call of a port function: none is made while an event is pending, except the one
\* that takes the event.
LEMMA CallAsks ==
    ASSUME PortInv, ~Interrupted, NEW t \in Tasks, CallPort(t)
    PROVE  EnablesInReset' /\ (UnplugInv => UnplugInv' /\ ~hprt'.event_pending)
<1>1. /\ hprt \in HprtRecord /\ bus \in BusRecord /\ port \in PortRecord
      /\ ~bus.change
    BY DEF PortInv, BusInv, IInv, RestInv, Interrupted, Changes
<1>2. ASSUME UnplugInv => ~hprt'.event_pending,
             \/ ~bus'.change
             \/ ~bus'.enabled /\ port'.state = "RESETTING"
             \/ ~bus'.enabled /\ ctl'.at = "disable_wait" /\ hprt'.disable_requested
      PROVE  EnablesInReset' /\ (UnplugInv => UnplugInv' /\ ~hprt'.event_pending)
    BY <1>2 DEF EnablesInReset, Enables, UnplugInv, DisableAskedFor, LossReported, LossPending
<1>3. CASE PortInit(t)
    <2>1. (UnplugInv => ~hprt'.event_pending) /\ UNCHANGED bus
        BY <1>1, <1>3 DEF PortInit, HprtRecord, UnplugInv, LossReported
    <2> QED BY <1>1, <1>2, <2>1
<1>4. CASE PortDeinit(t) \/ PortRecover(t)
    <2>1. ~hprt'.event_pending /\ ~bus'.change
        BY <1>1, <1>4 DEF PortDeinit, PortRecover, AtRest, BusReset, HprtRecord, BusRecord
    <2> QED BY <1>2, <2>1
<1>5. CASE PowerOn(t) \/ PowerOff(t)
    <2>1. ~hprt'.event_pending /\ ~bus'.change
        BY <1>1, <1>5 DEF PowerOn, PowerOff, Command, TaskUnchanged, BusRecord
    <2> QED BY <1>2, <2>1
<1>6. CASE ResetBegin(t)
    <2>1. ~hprt'.event_pending /\ ~bus'.enabled /\ port'.state = "RESETTING"
        BY <1>1, <1>6 DEF ResetBegin, SetState, Command, TaskUnchanged, BusRecord, PortRecord
    <2> QED BY <1>2, <2>1
<1>7. CASE SuspendNow(t) \/ SuspendWait(t) \/ ResumeBegin(t) \/ DisableWait(t)
    <2>1. ~hprt'.event_pending /\ UNCHANGED bus
        BY <1>7 DEF SuspendNow, SuspendWait, ResumeBegin, DisableWait, Command, TaskUnchanged,
           portVars
    <2> QED BY <1>1, <1>2, <2>1
<1>8. CASE DisableNow(t)
    <2>1. /\ ~hprt'.event_pending /\ hprt'.disable_requested
          /\ ~bus'.enabled /\ ctl'.at = "disable_wait"
        BY <1>1, <1>8 DEF DisableNow, RequestDisable, Goes, Command, HprtRecord, BusRecord
    <2> QED BY <1>2, <2>1
<1>9. CASE HandleUnpowered(t) \/ HandleDebounce(t) \/ HandleLoss(t)
    <2>1. ~hprt'.event_pending /\ UNCHANGED bus
        BY <1>1, <1>9 DEF HandleUnpowered, HandleDebounce, HandleLoss, Handles, HprtRecord
    <2> QED BY <1>1, <1>2, <2>1
<1> QED BY <1>3, <1>4, <1>5, <1>6, <1>7, <1>8, <1>9 DEF CallPort

\* The task inside a port function handles no event, and finds the recovery state.
LEMMA InPortAsks ==
    ASSUME PortInv, ~Interrupted, EnablesInReset, InPort
    PROVE  /\ EnablesInReset' /\ (UnplugInv => UnplugInv')
           /\ hprt'.event_pending = hprt.event_pending /\ hprt'.last_event = hprt.last_event
<1>1. /\ hprt \in HprtRecord /\ bus \in BusRecord /\ port \in PortRecord
      /\ ~bus.change
    BY DEF PortInv, BusInv, PlaceInv, IInv, RestInv, Interrupted, Changes
<1>2. ASSUME hprt'.event_pending = hprt.event_pending, hprt'.last_event = hprt.last_event,
             hprt'.initialized = hprt.initialized,
             UnplugInv /\ LossPending =>
                 port'.state = port.state /\ bus'.lock = bus.lock /\ bus'.seen = bus.seen,
             ctl'.at # "debounce",
             \/ ~bus'.change
             \/ ~bus'.enabled /\ ctl'.at = "disable_wait" /\ hprt'.disable_requested
      PROVE  EnablesInReset' /\ (UnplugInv => UnplugInv')
    BY <1>2 DEF EnablesInReset, Enables, UnplugInv, DisableAskedFor, LossReported, LossPending
<1>3. UnplugInv /\ LossPending => port.state = "RECOVERY" /\ ctl.at # "debounce"
    BY DEF UnplugInv, LossReported
<1>4. CASE ResetRelease \/ ResetEnd
    <2>1. /\ UNCHANGED <<hprt, port>> /\ ctl'.at # "debounce"
          /\ ~bus'.change /\ bus'.lock = bus.lock /\ bus'.seen = bus.seen
        BY <1>1, <1>4 DEF ResetRelease, ResetEnd, TaskUnchanged, Goes, Leaves, Free, BusRecord
    <2> QED BY <1>2, <2>1
<1>5. CASE (PortWake /\ UNCHANGED portVars) \/ ResumePanic \/ InvalidatePanic
    <2>1. UNCHANGED <<hprt, bus, ctl>> /\ port'.state = port.state
        BY <1>1, <1>5 DEF PortWake, ResumePanic, InvalidatePanic, UnpauseBusy, InvalidateFreed,
           Fail, portVars, PortRecord
    <2> QED BY <1>1, <2>1 DEF EnablesInReset, Enables, UnplugInv, DisableAskedFor, LossReported,
            LossPending
<1>6. CASE SuspendEnd \/ ResumeRelease \/ ResumeFail \/ ResumeEnd
    <2>1. UNCHANGED <<hprt, bus>> /\ ctl'.at # "debounce"
        BY <1>6 DEF SuspendEnd, ResumeRelease, ResumeFail, ResumeEnd, TaskUnchanged, Goes,
           Leaves, Free
    <2>2. UnplugInv /\ LossPending => port'.state = port.state
        BY <1>1, <1>3, <1>6 DEF SuspendEnd, StillEnabled, ResumeRelease, ResumeFail, ResumeEnd,
           UnpauseAll, Resuming, PortRecord
    <2> QED BY <1>1, <1>2, <2>1, <2>2
<1>7. CASE DisablePaused
    <2>1. CASE StillEnabled
        <3>1. /\ port' = [port EXCEPT !.woken = FALSE]
              /\ hprt' = [hprt EXCEPT !.disable_requested = TRUE]
              /\ bus' = [bus EXCEPT !.enabled = FALSE, !.change = bus.change \/ bus.enabled]
              /\ ctl' = [task |-> ctl.task, at |-> "disable_wait"]
            BY <1>7, <2>1 DEF DisablePaused, RequestDisable, Goes
        <3>2. /\ port'.state = port.state /\ ctl'.at = "disable_wait"
              /\ hprt'.event_pending = hprt.event_pending
              /\ hprt'.last_event = hprt.last_event
              /\ hprt'.initialized = hprt.initialized /\ hprt'.disable_requested
              /\ bus'.lock = bus.lock /\ bus'.seen = bus.seen /\ ~bus'.enabled
            BY <1>1, <3>1 DEF HprtRecord, BusRecord, PortRecord
        <3> QED BY <1>2, <3>2
    <2>2. CASE ~StillEnabled
        <3>1. /\ UNCHANGED <<hprt, bus>> /\ ctl' = Free
              /\ port' = [port EXCEPT !.waiter = NoTask, !.woken = FALSE]
            BY <1>7, <2>2 DEF DisablePaused, Leaves
        <3>2. port'.state = port.state /\ ctl'.at # "debounce"
            BY <1>1, <3>1 DEF Free, PortRecord
        <3> QED BY <1>1, <1>2, <3>1, <3>2
    <2> QED BY <2>1, <2>2
<1>8. CASE DisableFail \/ DisableEnd \/ InvalidateStep
    <2>1. UNCHANGED <<hprt, bus>>
        BY <1>8 DEF DisableFail, DisableEnd, InvalidateStep, TaskUnchanged
    <2>2. ctl'.at # "debounce"
        BY <1>8 DEF DisableFail, DisableEnd, InvalidateStep, WalkGoesOn, Goes, Leaves, Free
    <2>3. port'.state = port.state
        <3>1. \/ UNCHANGED port
              \/ port' = [port EXCEPT !.waiter = NoTask, !.woken = FALSE]
            BY <1>8 DEF DisableFail, DisableEnd, InvalidateStep, InvalidateBegin, InvalidateNext
        <3> QED BY <1>1, <3>1 DEF PortRecord
    <2> QED BY <1>1, <1>2, <2>1, <2>2, <2>3
<1>9. CASE Debounced
    <2>1. /\ UNCHANGED hprt /\ ctl'.at # "debounce" /\ ~bus'.change /\ ~(UnplugInv /\ LossPending)
        BY <1>1, <1>3, <1>9 DEF Debounced, TaskUnchanged, Leaves, Free, BusRecord
    <2> QED BY <1>2, <2>1
<1> QED BY <1>4, <1>5, <1>6, <1>7, <1>8, <1>9 DEF InPort


LEMMA BusAsks ==
    ASSUME PortInv, EnablesInReset, BusNext
    PROVE  EnablesInReset' /\ (Unplugs /\ UnplugInv => UnplugInv')
<1>1. bus \in BusRecord
    BY DEF PortInv, BusInv
<1>2. UNCHANGED <<vars, ctl, hprt>> /\ UNCHANGED port
    BY DEF BusNext, Plug, LineUp, LineDown, Unplug, BusEnable, BusError, BusStep, vars
<1>3. CASE Plug \/ LineUp \/ LineDown \/ Unplug
    <2>1. /\ bus'.change = bus.change /\ bus'.enabled = bus.enabled
          /\ bus'.lock = bus.lock /\ bus'.seen = bus.seen
        BY <1>1, <1>3 DEF Plug, LineUp, LineDown, Unplug, Lost, BusStep, BusRecord
    <2> QED BY <1>2, <2>1 DEF EnablesInReset, Enables, UnplugInv, DisableAskedFor, LossReported,
            LossPending
<1>4. CASE BusEnable
    <2>1. /\ bus'.enabled /\ bus'.lock = bus.lock /\ bus'.seen = bus.seen
          /\ ctl.at = "reset_recovery"
        BY <1>1, <1>4 DEF BusEnable, BusStep, BusRecord, PortInv, BusInv
    <2> QED BY <1>2, <2>1 DEF EnablesInReset, Enables, UnplugInv, DisableAskedFor, LossReported,
            LossPending
<1>5. CASE BusError
    <2>1. ~bus'.enabled /\ ~Unplugs
        BY <1>1, <1>5 DEF BusError, BusStep, BusRecord, Unplugs
    <2> QED BY <2>1 DEF EnablesInReset, Enables
<1> QED BY <1>3, <1>4, <1>5 DEF BusNext

\* The interrupt: only the loss of a device that is enabled is reported as a loss.
LEMMA IsrAsks ==
    ASSUME PortInv, EnablesInReset, IsrNext
    PROVE  EnablesInReset' /\ (Unplugs /\ UnplugInv => UnplugInv')
<1>1. hprt \in HprtRecord /\ bus \in BusRecord /\ port \in PortRecord
    BY DEF PortInv, BusInv, IInv, RestInv
<1>2. CASE IsrConnection
    <2>1. /\ ~bus.change /\ bus'.change = bus.change
          /\ hprt'.last_event = "CONNECTION" /\ hprt'.initialized
        BY <1>1, <1>2 DEF IsrConnection, Connects, Event, HprtRecord, BusRecord, PortInv, BusInv
    <2> QED BY <2>1 DEF EnablesInReset, Enables, UnplugInv, DisableAskedFor, LossReported,
            LossPending, LossEvents
<1>3. CASE IsrDisconnection
    <2>1. /\ ~bus'.change /\ bus'.lock /\ ~bus'.seen /\ hprt'.initialized /\ UNCHANGED ctl
          /\ \/ port'.state = "RECOVERY" /\ port.conn
             \/ hprt'.last_event = "DISCONNECTION"
        BY <1>1, <1>3 DEF IsrDisconnection, Disconnects, Event, HprtRecord, BusRecord, PortRecord
    <2>2. port.conn => ctl.at # "debounce"
        BY DEF PortInv, BusInv
    <2> QED BY <2>1, <2>2 DEF EnablesInReset, Enables, UnplugInv, DisableAskedFor, LossReported,
            LossPending, LossEvents
<1>4. ASSUME Changes, hprt'.event_pending = hprt.event_pending, ~bus'.change,
             hprt'.initialized = hprt.initialized,
             hprt'.last_event = hprt.last_event
      PROVE  EnablesInReset' /\ (UnplugInv => UnplugInv')
    <2>1. bus.seen
        BY <1>4 DEF Changes, PortInv, BusInv
    <2> QED BY <1>4, <2>1 DEF EnablesInReset, Enables, UnplugInv, DisableAskedFor, LossReported,
            LossPending
<1>5. CASE IsrEnabled
    <2>1. Changes /\ UNCHANGED hprt /\ ~bus'.change
        BY <1>1, <1>5 DEF IsrEnabled, BusRecord
    <2> QED BY <1>4, <2>1
<1>6. CASE IsrDisabled
    <2>1. Changes /\ ~bus.enabled /\ ~bus'.change
        BY <1>1, <1>6 DEF IsrDisabled, Disabled, BusRecord
    <2>2. CASE port.state = "RESETTING"
        <3>1. UNCHANGED hprt
            BY <1>6, <2>2 DEF IsrDisabled
        <3> QED BY <1>4, <2>1, <3>1
    <2>3. CASE port.state # "RESETTING"
        <3>1. ~UnplugInv
            BY <1>6, <2>1, <2>3 DEF IsrDisabled, Changes, UnplugInv, DisableAskedFor
        <3> QED BY <2>1, <3>1 DEF EnablesInReset, Enables
    <2> QED BY <2>2, <2>3
<1>7. CASE IsrDisabledByRequest
    <2>1. /\ Changes /\ ~bus'.change
          /\ hprt'.event_pending = hprt.event_pending /\ hprt'.last_event = hprt.last_event
          /\ hprt'.initialized = hprt.initialized
        BY <1>1, <1>7 DEF IsrDisabledByRequest, DisabledByRequest, Disabled, BusRecord,
           HprtRecord
    <2> QED BY <1>4, <2>1
<1>8. CASE IsrDisabledOrphan
    <2>1. UNCHANGED <<port, ctl, hprt, bus>>
        BY <1>8 DEF IsrDisabledOrphan, Fail, portVars
    <2> QED BY <2>1 DEF EnablesInReset, Enables, UnplugInv, DisableAskedFor, LossReported,
            LossPending
<1>9. CASE IsrOvercurrent
    <2>1. ~Unplugs
        BY <1>9 DEF IsrOvercurrent, Unplugs
    <2>2. UNCHANGED ctl /\ (bus'.change => bus.change /\ bus'.enabled = bus.enabled)
        BY <1>1, <1>9 DEF IsrOvercurrent, BusRecord
    <2> QED BY <2>1, <2>2 DEF EnablesInReset, Enables
<1> QED BY <1>2, <1>3, <1>5, <1>6, <1>7, <1>8, <1>9 DEF IsrNext

LEMMA NextAsks ==
    ASSUME PortInv, EnablesInReset, [Next]_allVars
    PROVE  EnablesInReset' /\ (Unplugs /\ UnplugInv => UnplugInv')
<1>1. ASSUME UNCHANGED <<ctl, hprt, bus>>, port'.state = port.state
      PROVE  EnablesInReset' /\ (UnplugInv => UnplugInv')
    BY <1>1 DEF EnablesInReset, Enables, UnplugInv, DisableAskedFor, LossReported, LossPending
<1>2. CASE UNCHANGED allVars
    BY <1>1, <1>2 DEF allVars, vars, portVars
<1>3. CASE IsrNext
    BY <1>3, IsrAsks
<1>4. CASE BusNext
    BY <1>4, BusAsks
<1>5. CASE ~Interrupted /\ \E t \in Tasks : CallPort(t)
    BY <1>5, CallAsks
<1>6. CASE ~Interrupted /\ InPort
    BY <1>6, InPortAsks
<1>7. CASE \E t \in Tasks : ClientStep(t) /\ UNCHANGED portVars
    BY <1>1, <1>7, ClientLeavesPort DEF portVars
<1>8. CASE \E p \in Pipes : ChanStep(p) /\ UNCHANGED portVars
    <2>1. port \in PortRecord
        BY DEF PortInv, IInv, RestInv
    <2> QED BY <1>1, <1>8, <2>1, ChanLeavesPort DEF portVars
<1> QED BY <1>2, <1>3, <1>4, <1>5, <1>6, <1>7, <1>8 DEF Next

LEMMA InitAsks ==
    ASSUME Init
    PROVE  EnablesInReset /\ UnplugInv
    BY DEF Init, EnablesInReset, Enables, UnplugInv, DisableAskedFor, LossReported, LossPending

\* The interrupt enables the port in the recovery time of a bus reset and at no other time.
THEOREM EnabledInReset == Spec => []EnablesInReset
<1>1. Init => EnablesInReset
    BY InitAsks
<1>2. PortInv /\ EnablesInReset /\ [Next]_allVars => EnablesInReset'
    BY NextAsks
<1> QED BY <1>1, <1>2, PortInvariant, PTL DEF Spec

LEMMA UnplugInvariant ==
    ASSUME Unplugs
    PROVE  Spec => []UnplugInv
<1>1. Init => UnplugInv
    BY InitAsks
<1>2. PortInv /\ EnablesInReset /\ UnplugInv /\ [Next]_allVars => UnplugInv'
    BY NextAsks
<1> QED BY <1>1, <1>2, PortInvariant, EnabledInReset, PTL DEF Spec

\* While nothing but an unplugged device goes wrong on the bus, a loss that is reported
\* leaves the port in the recovery state until a task handles it, as the documentation of
\* the event says; the other events of the port do not overwrite it.
THEOREM LossRecovers ==
    ASSUME Unplugs
    PROVE  Spec => []LossEventsRecover
<1>1. UnplugInv => LossEventsRecover
    BY DEF UnplugInv, LossReported, LossPending, LossEventsRecover
<1> QED BY <1>1, UnplugInvariant, PTL

-----------------------------------------------------------------------------
(* The walk over the pipes *)

Invalid(p) == pipe[p].state = "INVALID"

\* The walk is at pipe p of list s, and has invalidated the pipes before it and p itself.
Walked(s, p) == \E n \in DOMAIN s : s[n] = p /\ \A m \in 1 .. n : Invalid(s[m])

\* While the walk is on, the port has no enabled device, and every pipe the walk has come
\* past is invalid.
WalkInv ==
    ~NoWalk =>
        /\ ~port.conn
        /\ inval.phase = "active" => Walked(active, inval.cur)
        /\ inval.phase = "idle" => /\ \A p \in Elems(active) : Invalid(p)
                                   /\ Walked(idle, inval.cur)

\* What a walk is for.
AllInvalid == \A p \in Pipes : pipe[p].state \in {"INVALID", "FREE"}

\* The next pipe of the walk, in the list of the pipe it is at.
LEMMA NextWalked ==
    ASSUME IInv, NEW s \in {idle, active}, NEW p, Walked(s, p)
    PROVE  /\ p \in Elems(s)
           /\ Successor(p) = NoPipe => \A r \in Elems(s) : Invalid(r)
           /\ Successor(p) # NoPipe =>
                  \E n \in DOMAIN s : s[n] = Successor(p) /\ \A m \in 1 .. n - 1 : Invalid(s[m])
<1>1. /\ s \in Seq(Pipes) /\ Distinct(s) /\ Len(s) \in Nat /\ DOMAIN s = 1 .. Len(s)
    BY LenProperties DEF IInv, PipeInv, Lists
<1>2. PICK n \in DOMAIN s : s[n] = p /\ \A m \in 1 .. n : Invalid(s[m])
    BY DEF Walked
<1>3. p \in Elems(s)
    BY <1>2 DEF Elems
<1>4. s = IF p \in Elems(idle) THEN idle ELSE active
    BY <1>3 DEF IInv, PipeInv, Lists
<1>5. IndexIn(s, p) = n
    <2>1. IndexIn(s, p) \in DOMAIN s /\ s[IndexIn(s, p)] = p
        BY <1>2 DEF IndexIn
    <2> QED BY <1>1, <1>2, <2>1 DEF Distinct
<1>6. Successor(p) = IF n + 1 \in DOMAIN s THEN s[n + 1] ELSE NoPipe
    BY <1>4, <1>5 DEF Successor
<1>7. CASE n + 1 \in DOMAIN s
    <2>1. Successor(p) = s[n + 1] /\ s[n + 1] \in Pipes
        BY <1>1, <1>6, <1>7
    <2>2. \A m \in 1 .. (n + 1) - 1 : Invalid(s[m])
        BY <1>1, <1>2
    <2> QED BY <1>3, <1>7, <2>1, <2>2, NullAssumption
<1>8. CASE n + 1 \notin DOMAIN s
    <2>1. Successor(p) = NoPipe /\ DOMAIN s = 1 .. n
        BY <1>1, <1>2, <1>6, <1>8
    <2> QED BY <1>2, <1>3, <2>1 DEF Elems
<1> QED BY <1>7, <1>8

\* A visit, of the next pipe or at the end of the lists.
LEMMA VisitWalks ==
    ASSUME IInv, NEW v, NEW s \in {idle, active}, Visit(v),
           \/ v.phase = "active" /\ v.cur # NoPipe /\ s = active
           \/ v.phase = "idle" /\ s = idle /\ \A p \in Elems(active) : Invalid(p),
           v.cur = NoPipe => \A p \in Elems(idle) : Invalid(p),
           v.cur # NoPipe =>
               \E n \in DOMAIN s : s[n] = v.cur /\ \A m \in 1 .. n - 1 : Invalid(s[m]),
           ~port'.conn
    PROVE  WalkInv' /\ (NoWalk' => AllInvalid')
<1>1. UNCHANGED <<idle, active>>
    BY DEF Visit
<1>2. CASE v.cur = NoPipe
    <2>1. inval'.phase = "off" /\ UNCHANGED pipe
        BY <1>2 DEF Visit
    <2>2. \A p \in Pipes : Allocated(p) => Invalid(p)
        BY <1>2 DEF IInv, PipeInv, Lists
    <2>3. AllInvalid'
        BY <2>1, <2>2 DEF AllInvalid, Allocated, Invalid
    <2> QED BY <2>1, <2>3 DEF WalkInv, NoWalk
<1>3. CASE v.cur # NoPipe
    <2> DEFINE c == v.cur
    <2>1. PICK n \in DOMAIN s : s[n] = c /\ \A m \in 1 .. n - 1 : Invalid(s[m])
        BY <1>3
    <2>2. /\ s \in Seq(Pipes) /\ Len(s) \in Nat /\ DOMAIN s = 1 .. Len(s)
          /\ c \in Pipes /\ \A m \in DOMAIN s : s[m] \in Pipes
        BY <2>1, LenProperties DEF IInv, PipeInv
    <2>3. pipe[c] \in PipeRecord
        BY <2>2 DEF IInv, PipeInv
    <2>4. inval' = v
        BY <1>3 DEF Visit
    <2>5. PICK R \in {Invalidated(pipe[c]), Emptied(Invalidated(pipe[c]))} :
             pipe' = [pipe EXCEPT ![c] = R]
        BY <1>3 DEF Visit, InvalidateActive, InvalidateIdle
    <2>6. R.state = "INVALID"
        <3>1. Invalidated(pipe[c]) \in PipeRecord /\ Invalidated(pipe[c]).state = "INVALID"
            BY <2>3 DEF Invalidated, PipeRecord, PipeEvents
        <3> QED BY <2>5, <3>1, EmptiedOk
    <2>7. Invalid(c)' /\ \A p \in Pipes : Invalid(p) => Invalid(p)'
        BY <2>2, <2>5, <2>6 DEF Invalid, IInv, PipeInv
    <2>8. Walked(s, c)'
        <3>1. \A m \in 1 .. n : m \in DOMAIN s /\ (m \in 1 .. n - 1 \/ s[m] = c)
            BY <2>1, <2>2
        <3>2. \A m \in 1 .. n : Invalid(s[m])'
            BY <2>1, <2>2, <2>7, <3>1 DEF Invalid
        <3>3. UNCHANGED s
            BY <1>1
        <3> QED BY <1>1, <2>1, <3>2 DEF Walked, Invalid
    <2>9. v.phase = "idle" => \A p \in Elems(active') : Invalid(p)'
        BY <1>1, <2>7 DEF IInv, PipeInv, Lists
    <2>10. ~NoWalk'
        BY <2>4 DEF NoWalk
    <2>11. CASE v.phase = "active" /\ s = active
        BY <1>1, <2>4, <2>8, <2>10, <2>11 DEF WalkInv
    <2>12. CASE v.phase = "idle" /\ s = idle
        BY <1>1, <2>4, <2>8, <2>9, <2>10, <2>12 DEF WalkInv
    <2> QED BY <2>10, <2>11, <2>12
<1> QED BY <1>2, <1>3

\* The beginning of the walk, and its next step.
LEMMA WalkGoes ==
    ASSUME IInv, WalkInv, InvalidateBegin \/ InvalidateNext
    PROVE  WalkInv' /\ (NoWalk' => AllInvalid')
<1>1. ASSUME NEW s \in {idle, active}, First(s) # NoPipe
      PROVE  \E n \in DOMAIN s : s[n] = First(s) /\ \A m \in 1 .. n - 1 : Invalid(s[m])
    <2>1. /\ s \in Seq(Pipes) /\ s # <<>> /\ First(s) = s[1]
        BY <1>1 DEF First, IInv, PipeInv
    <2>2. 1 \in DOMAIN s
        BY <2>1
    <2> QED BY <2>1, <2>2
<1>2. ASSUME NEW s \in {idle, active}, First(s) = NoPipe
      PROVE  \A p \in Elems(s) : Invalid(p)
    <2>1. s = <<>>
        <3>1. s # <<>> => Head(s) \in Pipes
            BY DEF IInv, PipeInv
        <3> QED BY <1>2, <3>1, NullAssumption DEF First
    <2> QED BY <2>1 DEF Elems
<1>3. CASE InvalidateBegin
    <2> DEFINE v == WalkTo("active", First(active))
    <2>1. Visit(v) /\ ~port.conn /\ port' = [port EXCEPT !.waiter = NoTask, !.woken = FALSE]
        BY <1>3 DEF InvalidateBegin
    <2>2. ~port'.conn
        BY <2>1 DEF IInv, RestInv, PortRecord
    <2>3. CASE First(active) = NoPipe
        <3>1. v = [phase |-> "idle", cur |-> First(idle)] /\ \A p \in Elems(active) : Invalid(p)
            BY <1>2, <2>3 DEF WalkTo
        <3> HIDE DEF v
        <3> QED BY <1>1, <1>2, <2>1, <2>2, <3>1, VisitWalks
    <2>4. CASE First(active) # NoPipe
        <3>1. v = [phase |-> "active", cur |-> First(active)]
            BY <2>4 DEF WalkTo
        <3> HIDE DEF v
        <3> QED BY <1>1, <2>1, <2>2, <2>4, <3>1, VisitWalks
    <2> QED BY <2>3, <2>4
<1>4. CASE InvalidateNext
    <2> DEFINE c == Successor(inval.cur)
               v == WalkTo(inval.phase, c)
    <2>1. Visit(v) /\ UNCHANGED port /\ ~NoWalk
        BY <1>4 DEF InvalidateNext
    <2>2. ~port'.conn
        BY <2>1 DEF WalkInv
    <2>3. CASE inval.phase = "active"
        <3>1. Walked(active, inval.cur)
            BY <2>1, <2>3 DEF WalkInv
        <3>2. CASE c = NoPipe
            <4>1. /\ v = [phase |-> "idle", cur |-> First(idle)]
                  /\ \A p \in Elems(active) : Invalid(p)
                BY <2>3, <3>1, <3>2, NextWalked DEF WalkTo
            <4> HIDE DEF v
            <4> QED BY <1>1, <1>2, <2>1, <2>2, <4>1, VisitWalks
        <3>3. CASE c # NoPipe
            <4>1. /\ v = [phase |-> "active", cur |-> c]
                  /\ \E n \in DOMAIN active :
                        active[n] = c /\ \A m \in 1 .. n - 1 : Invalid(active[m])
                BY <2>3, <3>1, <3>3, NextWalked DEF WalkTo
            <4> HIDE DEF v, c
            <4> QED BY <2>1, <2>2, <3>3, <4>1, VisitWalks
        <3> QED BY <3>2, <3>3
    <2>4. CASE inval.phase = "idle"
        <3>1. /\ Walked(idle, inval.cur) /\ \A p \in Elems(active) : Invalid(p)
              /\ v = [phase |-> "idle", cur |-> c]
            BY <2>1, <2>4 DEF WalkInv, WalkTo
        <3>2. /\ c = NoPipe => \A p \in Elems(idle) : Invalid(p)
              /\ c # NoPipe => \E n \in DOMAIN idle :
                                  idle[n] = c /\ \A m \in 1 .. n - 1 : Invalid(idle[m])
            BY <3>1, NextWalked
        <3> HIDE DEF v, c
        <3> QED BY <2>1, <2>2, <3>1, <3>2, VisitWalks
    <2>5. inval.phase \in {"active", "idle"}
        BY <2>1 DEF IInv, RestInv, NoWalk
    <2> QED BY <2>3, <2>4, <2>5
<1> QED BY <1>3, <1>4

\* While the port has no enabled device, no pipe becomes valid. While it walks over the
\* pipes too, and they are neither freed nor emptied meanwhile, the walk alone changes the
\* lists, and no invalid pipe becomes anything else.
Gone ==
    /\ \A p \in Pipes : Valid(p)' => Valid(p)
    /\ "still" \in Rules /\ ~NoWalk =>
           UNCHANGED <<idle, active>> /\ \A p \in Pipes : Invalid(p) => Invalid(p)'

LEMMA GoneOne ==
    ASSUME IInv, NEW p \in Pipes, NEW R, pipe' = [pipe EXCEPT ![p] = R],
           "still" \in Rules /\ ~NoWalk => UNCHANGED <<idle, active>>,
           R.state = pipe[p].state \/ (Valid(p) /\ R.state \in {"ACTIVE", "HALTED"})
    PROVE  Gone
<1>1. \A r \in Pipes : \/ pipe'[r].state = pipe[r].state
                       \/ Valid(r) /\ pipe'[r].state \in {"ACTIVE", "HALTED"}
    BY DEF IInv, PipeInv
<1> QED BY <1>1 DEF Gone, Valid, Invalid

LEMMA ClientGone ==
    ASSUME IInv, ~port.conn, port.state # "ENABLED", NEW t \in Tasks, ClientStep(t)
    PROVE  Gone
<1>1. ASSUME UNCHANGED <<pipe, idle, active>>
      PROVE  Gone
    BY <1>1 DEF Gone, Valid, Invalid
<1>2. CASE CallStep(t)
    <2>1. CASE \/ EnqueueFreed(t) \/ EnqueueReject(t) \/ CommandWake(t)
               \/ ResumeFreed(t) \/ ResumeRunning(t) \/ ResumeBusy(t)
        BY <1>1, <2>1 DEF EnqueueFreed, EnqueueReject, CommandWake, ResumeFreed, ResumeRunning,
           ResumeBusy, Fail
    <2>2. CASE EnqueueStart(t) \/ EnqueuePend(t)
        BY <2>2 DEF EnqueueStart, EnqueuePend, Accepts
    <2> DEFINE p == call[t].pipe
    <2>3. CASE ResumeInvalid(t)
        <3> DEFINE R == [pipe[p] EXCEPT !.waiter = NoTask, !.waiting = FALSE, !.cmd = FALSE]
        <3>1. /\ pipe' = [pipe EXCEPT ![p] = R] /\ UNCHANGED <<idle, active>>
              /\ p \in Pipes /\ pipe[p] \in PipeRecord
            BY <2>3 DEF ResumeInvalid, Resumes, InCommand, Blocking, IInv, PipeInv, RestInv
        <3>2. R.state = pipe[p].state
            BY <3>1 DEF PipeRecord
        <3> HIDE DEF R, p
        <3> QED BY <3>1, <3>2, GoneOne
    <2>4. CASE ResumeDone(t)
        <3> DEFINE c == call[t].op
                   R == [Commanded(pipe[p], c) EXCEPT !.waiter = NoTask, !.cmd = FALSE]
        <3>1. /\ pipe' = [pipe EXCEPT ![p] = R] /\ UNCHANGED <<idle, active>>
              /\ p \in Pipes /\ pipe[p] \in PipeRecord /\ Valid(p) /\ c \in Blocking
            BY <2>4 DEF ResumeDone, Resumes, InCommand, Blocking, IInv, PipeInv, RestInv
        <3>2. Commanded(pipe[p], c) \in PipeRecord
            BY <3>1, CommandedOk DEF SameKind, Valid
        <3>3. Commanded(pipe[p], c).state \in {"ACTIVE", "HALTED"}
            BY <3>1, RetireOk DEF Commanded, Blocking, Retire, PipeRecord, Valid
        <3>4. R.state \in {"ACTIVE", "HALTED"}
            BY <3>2, <3>3 DEF PipeRecord
        <3> HIDE DEF R, p, c
        <3> QED BY <3>1, <3>4, GoneOne
    <2> QED BY <1>2, <2>1, <2>2, <2>3, <2>4 DEF CallStep
<1>3. CASE \/ \E p \in Pipes, i \in Irps : EnqueueCheck(t, p, i)
           \/ \E p \in Pipes : DequeueMisplaced(t, p) \/ ClearBusy(t, p)
    BY <1>1, <1>3 DEF EnqueueCheck, DequeueMisplaced, ClearBusy, Fail
<1>4. CASE \/ \E p \in Pipes : Alloc(t, p) \/ CommandClear(t, p)
           \/ \E p \in Pipes, c \in Blocking : CommandNow(t, p, c) \/ CommandBlock(t, p, c)
    BY <1>4 DEF Alloc, CommandClear, CommandNow, CommandBlock, CommandAllowed
<1>5. ASSUME NEW p \in Pipes, Dequeue(t, p)
      PROVE  Gone
    <2> DEFINE R == [pipe[p] EXCEPT !.done = Tail(@)]
    <2>1. /\ pipe' = [pipe EXCEPT ![p] = R] /\ ("still" \in Rules => NoWalk)
          /\ pipe[p] \in PipeRecord
        BY <1>5 DEF Dequeue, Keeps, IInv, PipeInv
    <2>2. R.state = pipe[p].state
        BY <2>1 DEF PipeRecord
    <2> HIDE DEF R
    <2> QED BY <2>1, <2>2, GoneOne
<1>6. ASSUME NEW i \in Irps, AbortIrp(t, i)
      PROVE  Gone
    <2> DEFINE p == irp[i].ptr
               R == [pipe[p] EXCEPT !.pending = Without(@, i), !.done = Append(@, i)]
    <2>1. /\ pipe' = [pipe EXCEPT ![p] = R] /\ UNCHANGED <<idle, active>>
          /\ p \in Pipes /\ pipe[p] \in PipeRecord
        BY <1>6 DEF AbortIrp, IInv, PipeInv, PendingPlaced
    <2>2. R.state = pipe[p].state
        BY <2>1 DEF PipeRecord
    <2> HIDE DEF R, p
    <2> QED BY <2>1, <2>2, GoneOne
<1>7. ASSUME NEW p \in Pipes, FreePipe(t, p)
      PROVE  Gone
    <2> DEFINE R == NewPipe("FREE", pipe[p].addr)
    <2>1. pipe' = [pipe EXCEPT ![p] = R] /\ ("still" \in Rules => NoWalk)
        BY <1>7 DEF FreePipe, Keeps
    <2>2. R.state = "FREE"
        BY DEF NewPipe
    <2> HIDE DEF R
    <2> QED BY <2>1, <2>2 DEF Gone, Valid, IInv, PipeInv
<1>8. ASSUME NEW p \in Pipes, GetEvent(t, p) \/ \E a \in Addrs : Update(t, p, a)
      PROVE  Gone
    <2>1. PICK R : /\ pipe' = [pipe EXCEPT ![p] = R] /\ UNCHANGED <<idle, active>>
                   /\ \/ R = [pipe[p] EXCEPT !.last_event = "NONE"]
                      \/ \E a \in Addrs : R = [pipe[p] EXCEPT !.addr = a]
        BY <1>8 DEF GetEvent, Update
    <2>2. R.state = pipe[p].state
        BY <2>1 DEF IInv, PipeInv, PipeRecord
    <2> QED BY <2>1, <2>2, GoneOne
<1> QED BY <1>2, <1>3, <1>4, <1>5, <1>6, <1>7, <1>8 DEF ClientStep

\* Only the walk moves the walk.
LEMMA WalkAlone ==
    ASSUME port \in PortRecord, [PipeNext]_vars
    PROVE  InvalidateBegin \/ InvalidateNext \/ UNCHANGED inval
<1>1. CASE UNCHANGED vars
    BY <1>1 DEF vars
<1>2. CASE \E t \in Tasks : ClientStep(t)
    BY <1>2, ClientLeavesPort
<1>3. CASE \E p \in Pipes : ChanStep(p)
    BY <1>3, ChanLeavesPort
<1>4. CASE PortStep
    BY <1>4 DEF PortStep, PortEnabled, PortLost, PortSet, PortWait, PauseAndWait, PausesAll,
       PortWake, PortReturn, PortOrphan, PauseAtOnce, UnpauseAll, UnpauseBusy, InvalidateFreed,
       PortUnchanged, Fail
<1> QED BY <1>1, <1>2, <1>3, <1>4 DEF PipeNext

LEMMA NextGone ==
    ASSUME IInv, ~port.conn, port.state # "ENABLED", [PipeNext]_vars
    PROVE  Gone
<1>1. ASSUME UNCHANGED <<pipe, idle, active>>
      PROVE  Gone
    BY <1>1 DEF Gone, Valid, Invalid
<1>2. CASE UNCHANGED vars
    BY <1>1, <1>2 DEF vars
<1>3. CASE \E t \in Tasks : ClientStep(t)
    BY <1>3, ClientGone
<1>4. CASE \E p \in Pipes : ChanStep(p)
    BY <1>1, <1>4 DEF ChanStep, ChanIgnored, ChanDoneNext, ChanDoneOrphan, ChanDonePause,
       ChanDoneCommand, ChanError, SlotDone
<1>5. ASSUME NEW v, Visit(v)
      PROVE  Gone
    <2> DEFINE c == v.cur
    <2>1. UNCHANGED <<idle, active>>
        BY <1>5 DEF Visit
    <2>2. ASSUME NEW R \in {Invalidated(pipe[c]), Emptied(Invalidated(pipe[c]))},
                 pipe' = [pipe EXCEPT ![c] = R], c \in Pipes
          PROVE  Gone
        <3>1. pipe[c] \in PipeRecord
            BY <2>2 DEF IInv, PipeInv
        <3>2. Invalidated(pipe[c]) \in PipeRecord /\ Invalidated(pipe[c]).state = "INVALID"
            BY <3>1 DEF Invalidated, PipeRecord, PipeEvents
        <3>3. R.state = "INVALID"
            BY <2>2, <3>2, EmptiedOk
        <3>4. \A r \in Pipes : pipe'[r].state \in {pipe[r].state, "INVALID"}
            BY <2>2, <3>3 DEF IInv, PipeInv
        <3> QED BY <2>1, <3>4 DEF Gone, Valid, Invalid
    <2>3. UNCHANGED pipe \/ \E R \in {Invalidated(pipe[c]), Emptied(Invalidated(pipe[c]))} :
                               pipe' = [pipe EXCEPT ![c] = R]
        BY <1>5 DEF Visit, InvalidateActive, InvalidateIdle
    <2>4. CASE c \notin Pipes
        <3>1. UNCHANGED pipe
            BY <2>3, <2>4 DEF IInv, PipeInv
        <3> QED BY <1>1, <2>1, <3>1
    <2> QED BY <1>1, <2>1, <2>2, <2>3, <2>4
<1>6. CASE PortStep
    <2>1. CASE InvalidateBegin \/ InvalidateNext
        BY <1>5, <2>1 DEF InvalidateBegin, InvalidateNext
    <2>2. CASE ~(InvalidateBegin \/ InvalidateNext)
        BY <1>1, <1>6, <2>2 DEF PortStep, PortEnabled, PortLost, PortSet, PortWait,
           PauseAndWait, PausesAll, Steady, PortWake, PortReturn, PortOrphan, PauseAtOnce,
           UnpauseAll, UnpauseBusy, Resuming, InvalidateFreed, PortUnchanged, Fail
    <2> QED BY <2>1, <2>2
<1> QED BY <1>2, <1>3, <1>4, <1>6 DEF PipeNext

\* What the task steps do to the flag and the state: no task sees a device come or go, and
\* one of them begins a bus reset.
LEMMA TaskMoves ==
    ASSUME PortInv, (\E t \in Tasks : CallPort(t)) \/ InPort
    PROVE  /\ port'.conn = port.conn
           /\ port'.state = "RESETTING" =>
                  port.state = "RESETTING" \/ \E t \in Tasks : ResetBegin(t)
<1>1. port \in PortRecord
    BY DEF PortInv, IInv, RestInv
<1>2. ASSUME NEW t \in Tasks, CallPort(t), ~ResetBegin(t)
      PROVE  /\ port'.conn = port.conn
             /\ port'.state = "RESETTING" => port.state = "RESETTING"
    <2>1. CASE PortInit(t) \/ PortDeinit(t) \/ PortRecover(t)
        BY <1>1, <2>1 DEF PortInit, PortDeinit, PortRecover, vars, PortRecord
    <2>2. CASE PowerOn(t) \/ PowerOff(t) \/ SuspendNow(t) \/ ResumeBegin(t)
        BY <1>1, <2>2 DEF PowerOn, PowerOff, SuspendNow, ResumeBegin, SetState, PortRecord
    <2>3. CASE SuspendWait(t) \/ DisableWait(t) \/ DisableNow(t)
        BY <1>1, <2>3 DEF SuspendWait, DisableWait, DisableNow, PauseAndWait, PortRecord
    <2>4. CASE HandleUnpowered(t) \/ HandleDebounce(t) \/ HandleLoss(t)
        BY <1>1, <2>4 DEF HandleUnpowered, HandleDebounce, HandleLoss, SetState,
           InvalidateBegin, PortRecord
    <2> QED BY <1>2, <2>1, <2>2, <2>3, <2>4 DEF CallPort
<1>3. ASSUME NEW t \in Tasks, ResetBegin(t)
      PROVE  port'.conn = port.conn
    BY <1>1, <1>3 DEF ResetBegin, SetState, PortRecord
<1>4. ASSUME InPort
      PROVE  /\ port'.conn = port.conn
             /\ port'.state = "RESETTING" => port.state = "RESETTING"
    <2>1. CASE ResetRelease \/ ResetEnd \/ ResumeRelease \/ ResumeFail
        BY <2>1 DEF ResetRelease, ResetEnd, ResumeRelease, ResumeFail
    <2>2. CASE PortWake \/ SuspendEnd \/ DisableFail
        BY <1>1, <2>2 DEF PortWake, SuspendEnd, DisableFail, PortRecord
    <2>3. CASE ResumeEnd \/ ResumePanic \/ InvalidatePanic \/ InvalidateStep
        BY <1>1, <2>3 DEF ResumeEnd, UnpauseAll, Resuming, ResumePanic, UnpauseBusy,
           InvalidatePanic, InvalidateFreed, InvalidateStep, InvalidateNext, Fail, PortRecord
    <2>4. CASE DisablePaused \/ DisableEnd \/ Debounced
        <3>1. \/ port' = [port EXCEPT !.woken = FALSE]
              \/ port' = [port EXCEPT !.waiter = NoTask, !.woken = FALSE]
              \/ \E st \in {"DISABLED", "DISCONNECTED"} : port' = [port EXCEPT !.state = st]
            BY <2>4 DEF DisablePaused, DisableEnd, InvalidateBegin, Debounced, SetState
        <3> QED BY <1>1, <3>1 DEF PortRecord
    <2> QED BY <1>4, <2>1, <2>2, <2>3, <2>4 DEF InPort
<1> QED BY <1>2, <1>3, <1>4

\* Only the interrupt says that there is an enabled device.
LEMMA ConnectedByIsr ==
    ASSUME PortInv, Next, ~port.conn, port'.conn
    PROVE  Enables /\ port.state = "RESETTING" /\ UNCHANGED <<pipe, idle, active, inval, ctl>>
<1>1. port \in PortRecord
    BY DEF PortInv, IInv, RestInv
<1>2. CASE IsrNext
    <2>1. IsrEnabled
        BY <1>1, <1>2 DEF IsrNext, IsrConnection, IsrDisconnection, IsrDisabled,
           IsrDisabledByRequest, IsrDisabledOrphan, IsrOvercurrent, Fail, vars, PortRecord
    <2>2. Enables /\ UNCHANGED <<pipe, idle, active, inval, ctl>>
        BY <2>1 DEF IsrEnabled, Changes, Enables, PortUnchanged
    <2> QED BY <2>2 DEF PortInv, BusInv
<1>3. CASE BusNext
    BY <1>3 DEF BusNext, Plug, LineUp, LineDown, Unplug, BusEnable, BusError, BusStep, vars
<1>4. CASE (\E t \in Tasks : CallPort(t)) \/ InPort
    BY <1>4, TaskMoves
<1>5. ASSUME NEW t \in Tasks, ClientStep(t)
      PROVE  FALSE
    BY <1>5, ClientLeavesPort
<1>6. ASSUME NEW p \in Pipes, ChanStep(p)
      PROVE  FALSE
    BY <1>1, <1>6, ChanLeavesPort
<1> QED BY <1>2, <1>3, <1>4, <1>5, <1>6 DEF Next

\* The walk loses no pipe, whatever the clients, the channels and the bus do meanwhile.
LEMMA WalkKept ==
    ASSUME PortInv, EnablesInReset, WalkInv, "still" \in Rules, [Next]_allVars
    PROVE  WalkInv' /\ (~NoWalk /\ NoWalk' => AllInvalid')
<1>1. /\ [PipeNext]_vars /\ IInv /\ port \in PortRecord
      /\ inval.phase \in {"off", "active", "idle"}
    BY NextKeepsPort DEF PortInv, IInv, RestInv
<1>2. CASE InvalidateBegin \/ InvalidateNext
    BY <1>1, <1>2, WalkGoes
<1>3. CASE UNCHANGED inval /\ NoWalk
    BY <1>3 DEF WalkInv, NoWalk
<1>4. CASE UNCHANGED inval /\ ~NoWalk
    <2>1. ~port.conn /\ port.state # "ENABLED" /\ ctl.at = "invalidate"
        BY <1>4 DEF WalkInv, PortInv, EnabledHasDevice, PlaceInv, NoWalk
    <2>2. Gone
        BY <1>1, <2>1, NextGone
    <2>3. ~port'.conn
        <3>1. ~Enables
            BY <2>1 DEF EnablesInReset
        <3> QED BY <2>1, <3>1, ConnectedByIsr DEF allVars, vars
    <2>4. /\ UNCHANGED <<idle, active>> /\ \A p \in Pipes : Invalid(p) => Invalid(p)'
          /\ idle \in Seq(Pipes) /\ active \in Seq(Pipes) /\ Elems(active) \subseteq Pipes
        BY <1>1, <1>4, <2>2 DEF Gone, IInv, PipeInv, Lists
    <2>5. ASSUME NEW s \in {idle, active}, NEW p, Walked(s, p)
          PROVE  Walked(s, p)'
        <3>1. PICK n \in DOMAIN s : s[n] = p /\ \A m \in 1 .. n : Invalid(s[m])
            BY <2>5 DEF Walked
        <3>2. \A m \in 1 .. n : s[m] \in Pipes
            BY <2>4, <3>1
        <3> QED BY <2>4, <3>1, <3>2 DEF Walked, Invalid
    <2>6. inval.phase = "active" => Walked(active, inval.cur)'
        BY <1>4, <2>4, <2>5 DEF WalkInv
    <2>7. inval.phase = "idle" =>
              Walked(idle, inval.cur)' /\ \A p \in Elems(active') : Invalid(p)'
        BY <1>4, <2>4, <2>5 DEF WalkInv
    <2> QED BY <1>4, <2>3, <2>6, <2>7 DEF WalkInv, NoWalk
<1> QED BY <1>1, <1>2, <1>3, <1>4, WalkAlone

LEMMA WalkInvariant ==
    ASSUME "still" \in Rules
    PROVE  Spec => []WalkInv
<1>1. Init => WalkInv
    BY DEF Init, PipeInit, WalkInv, NoWalk
<1>2. PortInv /\ EnablesInReset /\ WalkInv /\ [Next]_allVars => WalkInv'
    BY WalkKept
<1> QED BY <1>1, <1>2, PortInvariant, EnabledInReset, PTL DEF Spec

\* The place "invalidate" is left when the walk ends.
LEMMA WalkEnds ==
    ASSUME PortInv, Next, ctl.at = "invalidate", ctl'.at # "invalidate"
    PROVE  ~NoWalk /\ NoWalk'
<1>1. ~UNCHANGED ctl /\ ~MutexFree
    BY DEF MutexFree, Free
<1>2. ~IsrNext
    BY <1>1 DEF IsrNext, IsrConnection, IsrDisconnection, IsrEnabled, IsrDisabled,
       IsrDisabledByRequest, IsrDisabledOrphan, IsrOvercurrent, portVars
<1>3. ~BusNext /\ ~UNCHANGED portVars
    BY <1>1 DEF BusNext, Plug, LineUp, LineDown, Unplug, BusEnable, BusError, BusStep, portVars
<1>4. ASSUME NEW t \in Tasks, CallPort(t)
      PROVE  FALSE
    BY <1>1, <1>4 DEF CallPort, PortInit, PortDeinit, PortRecover, PowerOn, PowerOff, ResetBegin,
       SuspendNow, SuspendWait, ResumeBegin, DisableWait, DisableNow, HandleUnpowered,
       HandleDebounce, HandleLoss, Command, Handles, vars
<1>5. CASE InPort
    <2>1. InvalidateStep
        BY <1>1, <1>5 DEF InPort, ResetRelease, ResetEnd, SuspendEnd, ResumeRelease, ResumeFail,
           ResumeEnd, ResumePanic, DisablePaused, DisableFail, DisableEnd, Debounced, Back,
           InvalidatePanic, portVars
    <2> QED BY <2>1 DEF InvalidateStep, InvalidateNext, WalkGoesOn, Goes, NoWalk
<1> QED BY <1>2, <1>3, <1>4, <1>5 DEF Next

\* Once the loss of the device is handled, every pipe is invalid: the walk of
\* _port_invalidate_all_pipes, which leaves the critical section at every pipe and reads
\* the next pointer after that, misses none, as long as no pipe is freed and no IRP is
\* dequeued while it is on.
THEOREM LossInvalidates ==
    ASSUME "still" \in Rules
    PROVE  Spec => LossInvalidatesAll
<1> DEFINE A == ctl.at = "invalidate" /\ ctl'.at = "free"
                    => \A p \in Pipes : pipe'[p].state \in {"INVALID", "FREE"}
<1>1. PortInv /\ EnablesInReset /\ WalkInv /\ [Next]_allVars => A \/ UNCHANGED allVars
    BY WalkKept, WalkEnds DEF AllInvalid
<1> HIDE DEF A
<1>2. Spec => [][A]_allVars
    BY <1>1, PortInvariant, EnabledInReset, WalkInvariant, PTL DEF Spec
<1> QED BY <1>2 DEF LossInvalidatesAll, A

-----------------------------------------------------------------------------
(* No loss is forgotten *)

TurnRules == {"still", "turns", "fresh"} \subseteq Rules

SomeValid == \E p \in Pipes : Valid(p)

\* A bus reset has no pipes to lose; and a task that waits for the port to be disabled
\* finds it disabled when there are pipes to invalidate, or the loss was reported.
RememberInv ==
    /\ port.state = "RESETTING" => NoPipes
    /\ ctl.at = "disable_wait" /\ ~port.conn /\ SomeValid =>
           LossPending \/ port.state = "DISABLED"
    /\ LossNotForgotten

LEMMA NoPipesNone ==
    ASSUME IInv
    PROVE  NoPipes => ~SomeValid
    BY DEF IInv, PipeInv, Lists, NoPipes, SomeValid, Valid, Allocated, Elems

\* The first pipe is allocated on an enabled port.
LEMMA NoPipesStay ==
    ASSUME IInv, NoPipes, port.state # "ENABLED", "turns" \in Rules, [PipeNext]_vars
    PROVE  NoPipes'
<1>1. \A p \in Pipes : ~Allocated(p)
    BY DEF IInv, PipeInv, Lists, NoPipes, Elems
<1> SUFFICES UNCHANGED <<idle, active>>
    BY DEF NoPipes
<1>2. CASE UNCHANGED vars
    BY <1>2 DEF vars
<1>3. ASSUME NEW t \in Tasks, CallStep(t)
      PROVE  UNCHANGED <<idle, active>>
    <2>1. CASE EnqueueStart(t)
        BY <1>1, <2>1 DEF EnqueueStart, Enqueuing, IInv, RestInv
    <2>2. CASE ~EnqueueStart(t)
        BY <1>3, <2>2 DEF CallStep, EnqueueFreed, EnqueueReject, EnqueuePend, CommandWake,
           ResumeFreed, ResumeInvalid, ResumeRunning, ResumeBusy, ResumeDone, Fail
    <2> QED BY <2>1, <2>2
<1>4. ASSUME NEW t \in Tasks, NEW p \in Pipes,
             Dequeue(t, p) \/ DequeueMisplaced(t, p) \/ Alloc(t, p) \/ FreePipe(t, p)
      PROVE  FALSE
    BY <1>1, <1>4 DEF Dequeue, DequeueMisplaced, Alloc, FreePipe, Keeps, Steady
<1>5. CASE \E t \in Tasks : ClientStep(t)
    BY <1>3, <1>4, <1>5 DEF ClientStep, EnqueueCheck, AbortIrp, GetEvent, Update, CommandNow,
       CommandBlock, CommandClear, ClearBusy, Fail
<1>6. CASE \E p \in Pipes : ChanStep(p)
    BY <1>6 DEF ChanStep, ChanIgnored, ChanDoneNext, ChanDoneOrphan, ChanDonePause,
       ChanDoneCommand, ChanError, Fail
<1>7. CASE PortStep
    BY <1>7 DEF PortStep, PortEnabled, PortLost, PortSet, PortWait, PauseAndWait, PausesAll,
       PortWake, PortReturn, PortOrphan, PauseAtOnce, UnpauseAll, UnpauseBusy, InvalidateBegin,
       InvalidateNext, Visit, InvalidateFreed, PortUnchanged, Fail
<1> QED BY <1>2, <1>5, <1>6, <1>7 DEF PipeNext

\* How a device is lost: the loss is reported, or a command has asked to disable the port,
\* or the port is being reset and has no pipes.
LEMMA ConnectionLost ==
    ASSUME PortInv, UnplugInv, Unplugs, port.state = "RESETTING" => NoPipes,
           Next, port.conn, ~port'.conn
    PROVE  \/ LossPending'
           \/ ctl'.at = "disable_wait" /\ port'.state = "DISABLED"
           \/ NoPipes'
<1>1. hprt \in HprtRecord /\ port \in PortRecord
    BY DEF PortInv, BusInv, IInv, RestInv
<1>2. CASE IsrDisconnection
    BY <1>1, <1>2 DEF IsrDisconnection, Event, HprtRecord, LossPending, LossEvents
<1>3. CASE IsrDisabled
    <2>1. port.state = "RESETTING"
        BY <1>3 DEF IsrDisabled, Disabled, Changes, UnplugInv, DisableAskedFor
    <2>2. UNCHANGED <<idle, active>>
        BY <1>3 DEF IsrDisabled, PortUnchanged
    <2> QED BY <2>1, <2>2 DEF NoPipes
<1>4. CASE IsrDisabledByRequest
    <2>1. /\ ctl.at = "disable_wait" /\ UNCHANGED ctl
          /\ port' = [port EXCEPT !.conn = FALSE, !.state = "DISABLED"]
        BY <1>4 DEF IsrDisabledByRequest, DisabledByRequest, Disabled, Changes, UnplugInv,
           DisableAskedFor
    <2> QED BY <1>1, <2>1 DEF PortRecord
<1>5. CASE IsrConnection \/ IsrEnabled \/ IsrDisabledOrphan \/ IsrOvercurrent
    BY <1>1, <1>5 DEF IsrConnection, IsrEnabled, IsrDisabledOrphan, IsrOvercurrent, Unplugs,
       Fail, vars, PortRecord
<1>6. CASE BusNext
    BY <1>6 DEF BusNext, Plug, LineUp, LineDown, Unplug, BusEnable, BusError, BusStep, vars
<1>7. CASE (\E t \in Tasks : CallPort(t)) \/ InPort
    BY <1>7, TaskMoves
<1>8. CASE \E t \in Tasks : ClientStep(t)
    BY <1>8, ClientLeavesPort
<1>9. CASE \E p \in Pipes : ChanStep(p)
    BY <1>1, <1>9, ChanLeavesPort
<1> QED BY <1>2, <1>3, <1>4, <1>5, <1>6, <1>7, <1>8, <1>9 DEF Next, IsrNext

\* A reported loss is there until a task handles it.
LEMMA PendingStays ==
    ASSUME PortInv, EnablesInReset, UnplugInv, Unplugs, Next, LossPending
    PROVE  LossPending' \/ \E t \in Tasks : HandleLoss(t)
<1>1. hprt \in HprtRecord /\ bus.lock /\ ~bus.seen /\ hprt.initialized
    BY DEF PortInv, BusInv, UnplugInv, LossReported, LossPending
<1>2. CASE IsrNext
    <2>1. ~Connects /\ ~Disconnects /\ ~Changes
        BY <1>1 DEF Connects, Disconnects, Changes, PortInv, BusInv
    <2> QED BY <1>2, <2>1 DEF IsrNext, IsrConnection, IsrDisconnection, IsrEnabled, IsrDisabled,
            IsrDisabledByRequest, IsrDisabledOrphan, IsrOvercurrent, Disabled, DisabledByRequest,
            Unplugs
<1>3. ASSUME UNCHANGED hprt
      PROVE  LossPending'
    BY <1>3 DEF LossPending
<1>4. CASE BusNext
    BY <1>3, <1>4 DEF BusNext, Plug, LineUp, LineDown, Unplug, BusEnable, BusError, BusStep
<1>5. ASSUME NEW t \in Tasks, CallPort(t)
      PROVE  HandleLoss(t)
    BY <1>1, <1>5 DEF CallPort, PortInit, PortDeinit, PortRecover, PowerOn, PowerOff, ResetBegin,
       SuspendNow, SuspendWait, ResumeBegin, DisableWait, DisableNow, HandleUnpowered,
       HandleDebounce, Command, AtRest, ConnectionEvent, LossPending, LossEvents
<1>6. CASE ~Interrupted /\ InPort
    BY <1>6, InPortAsks DEF LossPending
<1>7. CASE UNCHANGED portVars
    BY <1>3, <1>7 DEF portVars
<1> QED BY <1>2, <1>4, <1>5, <1>6, <1>7 DEF Next

\* What happens while a task waits for the port to be disabled: a port that was disabled
\* stays so, and the task begins the walk, or goes because the port was not disabled.
LEMMA DisableWaits ==
    ASSUME PortInv, UnplugInv, Unplugs, Next, ctl.at = "disable_wait"
    PROVE  \/ /\ UNCHANGED ctl
              /\ port.state = "DISABLED" /\ ~port.conn => port'.state = "DISABLED"
           \/ DisableFail \/ DisableEnd
<1>1. port \in PortRecord /\ hprt.initialized /\ ~MutexFree
    BY DEF PortInv, PlaceInv, IInv, RestInv, MutexFree, Free
<1>2. CASE IsrNext
    <2>1. UNCHANGED ctl
        BY <1>2 DEF IsrNext, IsrConnection, IsrDisconnection, IsrEnabled, IsrDisabled,
           IsrDisabledByRequest, IsrDisabledOrphan, IsrOvercurrent, portVars
    <2>2. ~IsrEnabled \/ port.state # "DISABLED"
        BY DEF IsrEnabled, Changes, PortInv, BusInv, Enables
    <2>3. port.state = "DISABLED" /\ ~port.conn => port'.state = "DISABLED"
        BY <1>1, <1>2, <2>2 DEF IsrNext, IsrConnection, IsrDisconnection, IsrDisabled,
           IsrDisabledByRequest, IsrDisabledOrphan, IsrOvercurrent, Unplugs, Fail, vars,
           PortRecord
    <2> QED BY <2>1, <2>3
<1>3. CASE BusNext
    BY <1>3 DEF BusNext, Plug, LineUp, LineDown, Unplug, BusEnable, BusError, BusStep, vars
<1>4. ASSUME NEW t \in Tasks, CallPort(t)
      PROVE  FALSE
    BY <1>1, <1>4 DEF CallPort, PortInit, PortDeinit, PortRecover, AtRest, PowerOn, PowerOff,
       ResetBegin, SuspendNow, SuspendWait, ResumeBegin, DisableWait, DisableNow,
       HandleUnpowered, HandleDebounce, HandleLoss, Command, Handles
<1>5. CASE InPort
    <2>1. CASE PortWake /\ UNCHANGED portVars
        BY <1>1, <2>1 DEF PortWake, portVars, PortRecord
    <2>2. CASE ~(PortWake /\ UNCHANGED portVars)
        BY <1>5, <2>2 DEF InPort, ResetRelease, ResetEnd, SuspendEnd, ResumeRelease, ResumeFail,
           ResumeEnd, ResumePanic, DisablePaused, Debounced, Back, InvalidateStep,
           InvalidatePanic
    <2> QED BY <2>1, <2>2
<1>6. CASE \E t \in Tasks : ClientStep(t) /\ UNCHANGED portVars
    BY <1>6, ClientLeavesPort DEF portVars
<1>7. CASE \E p \in Pipes : ChanStep(p) /\ UNCHANGED portVars
    BY <1>1, <1>7, ChanLeavesPort DEF portVars
<1> QED BY <1>2, <1>3, <1>4, <1>5, <1>6, <1>7 DEF Next

\* A task asks to disable the port of a device that is there, or of one whose loss it
\* could have known of, for no event was pending.
LEMMA DisableBegins ==
    ASSUME PortInv, Next, ctl.at # "disable_wait", ctl'.at = "disable_wait"
    PROVE  port.conn \/ (ctl.at = "free" /\ ~hprt.event_pending)
<1>1. ~UNCHANGED ctl
    OBVIOUS
<1>2. ~IsrNext
    BY <1>1 DEF IsrNext, IsrConnection, IsrDisconnection, IsrEnabled, IsrDisabled,
       IsrDisabledByRequest, IsrDisabledOrphan, IsrOvercurrent, portVars
<1>3. ~BusNext /\ ~UNCHANGED portVars
    BY <1>1 DEF BusNext, Plug, LineUp, LineDown, Unplug, BusEnable, BusError, BusStep, portVars
<1>4. ASSUME NEW t \in Tasks, CallPort(t)
      PROVE  ctl.at = "free" /\ ~hprt.event_pending
    <2>1. DisableNow(t)
        BY <1>1, <1>4 DEF CallPort, PortInit, PortDeinit, PortRecover, PowerOn, PowerOff,
           ResetBegin, SuspendNow, SuspendWait, ResumeBegin, DisableWait, HandleUnpowered,
           HandleDebounce, HandleLoss, Goes, portVars, vars
    <2> QED BY <2>1 DEF DisableNow, Command, MutexFree, Free
<1>5. CASE InPort
    <2>1. DisablePaused
        BY <1>1, <1>5 DEF InPort, ResetRelease, ResetEnd, SuspendEnd, ResumeRelease, ResumeFail,
           ResumeEnd, ResumePanic, DisableFail, DisableEnd, Debounced, InvalidateStep,
           InvalidatePanic, WalkGoesOn, Goes, Leaves, Free, portVars
    <2> QED BY <2>1 DEF DisablePaused, StillEnabled, Leaves, Free
<1> QED BY <1>2, <1>3, <1>4, <1>5 DEF Next

LEMMA RememberKept ==
    ASSUME PortInv, EnablesInReset, UnplugInv, Unplugs, WalkInv, RememberInv, TurnRules, Next
    PROVE  RememberInv'
<1>1. /\ [PipeNext]_vars /\ IInv /\ IInv' /\ port \in PortRecord
      /\ "still" \in Rules
    BY NextKeepsPort DEF PortInv, IInv, RestInv, TurnRules
<1>2. port'.state = "RESETTING" => NoPipes'
    <2>1. ASSUME port.state = "RESETTING"
          PROVE  NoPipes'
        BY <1>1, <2>1, NoPipesStay DEF RememberInv, TurnRules
    <2>2. ASSUME NEW t \in Tasks, ResetBegin(t)
          PROVE  NoPipes'
        BY <2>2 DEF ResetBegin, TurnRules, Keeps, TaskUnchanged, PortUnchanged, NoPipes
    <2>3. CASE IsrNext
        BY <1>1, <2>1, <2>3 DEF IsrNext, IsrConnection, IsrDisconnection, IsrEnabled,
           IsrDisabled, IsrDisabledByRequest, IsrDisabledOrphan, IsrOvercurrent, Fail, vars,
           PortRecord
    <2>4. CASE BusNext
        BY <2>1, <2>4 DEF BusNext, Plug, LineUp, LineDown, Unplug, BusEnable, BusError, BusStep,
           vars
    <2>5. CASE (\E t \in Tasks : CallPort(t)) \/ InPort
        BY <2>1, <2>2, <2>5, TaskMoves
    <2>6. CASE \E t \in Tasks : ClientStep(t)
        BY <2>1, <2>6, ClientLeavesPort
    <2>7. CASE \E p \in Pipes : ChanStep(p)
        BY <1>1, <2>1, <2>7, ChanLeavesPort
    <2> QED BY <2>3, <2>4, <2>5, <2>6, <2>7 DEF Next
<1>3. AllInvalid' \/ NoPipes' => ~SomeValid'
    <2>1. ASSUME NoPipes'
          PROVE  \A p \in Pipes : pipe'[p].state = "FREE"
        <3>1. Elems(idle') \cup Elems(active') = {p \in Pipes : Allocated(p)'}
            BY <1>1 DEF IInv, PipeInv, Lists
        <3>2. Elems(idle') = {} /\ Elems(active') = {}
            BY <2>1 DEF NoPipes, Elems
        <3> QED BY <3>1, <3>2 DEF Allocated
    <2>2. AllInvalid' => ~SomeValid'
        BY DEF AllInvalid, SomeValid, Valid
    <2> QED BY <2>1, <2>2 DEF SomeValid, Valid
<1> SUFFICES ASSUME SomeValid', ~port'.conn
             PROVE  /\ LossPending' \/ ctl'.at \in {"disable_wait", "invalidate"}
                    /\ ctl'.at = "disable_wait" => LossPending' \/ port'.state = "DISABLED"
    BY <1>2 DEF RememberInv, LossNotForgotten, LossPending, SomeValid, Valid
<1>4. CASE port.conn
    BY <1>3, <1>4, ConnectionLost DEF RememberInv
<1>5. CASE ~port.conn
    <2>1. SomeValid
        <3>1. port.state # "ENABLED"
            BY <1>5 DEF PortInv, EnabledHasDevice
        <3>2. Gone
            BY <1>1, <1>5, <3>1, NextGone
        <3> QED BY <3>2 DEF Gone, SomeValid
    <2>2. \/ LossPending
          \/ ctl.at = "disable_wait" /\ port.state = "DISABLED"
          \/ ctl.at = "invalidate"
        BY <1>5, <2>1 DEF RememberInv, LossNotForgotten, LossPending, SomeValid, Valid
    <2>3. ASSUME InvalidateBegin
          PROVE  ~NoWalk'
        BY <1>1, <1>3, <2>3, WalkGoes
    <2>4. ASSUME NEW t \in Tasks, HandleLoss(t)
          PROVE  ctl'.at = "invalidate"
        BY <2>3, <2>4 DEF HandleLoss, Goes, NoWalk
    <2>5. CASE LossPending
        BY <2>4, <2>5, PendingStays
    <2>6. CASE ctl.at = "disable_wait" /\ port.state = "DISABLED"
        <3>1. CASE UNCHANGED ctl /\ port'.state = "DISABLED"
            BY <2>6, <3>1
        <3>2. CASE DisableEnd
            <4>1. ctl'.at = "invalidate"
                BY <2>3, <3>2 DEF DisableEnd, WalkGoesOn, Goes, NoWalk
            <4> QED BY <4>1
        <3> QED BY <1>5, <2>6, <3>1, <3>2, DisableWaits DEF DisableFail
    <2>7. CASE ctl.at = "invalidate" /\ ~LossPending
        <3>1. ctl'.at = "invalidate"
            BY <1>1, <1>3, <2>7, WalkEnds, WalkKept
        <3> QED BY <3>1
    <2> QED BY <2>2, <2>5, <2>6, <2>7
<1> QED BY <1>4, <1>5

\* The loss of the device is never forgotten, whatever the port is doing when it happens:
\* while a pipe of a lost device is valid, an event is pending that will make the port
\* invalidate it, or a port function that is not left before is about to.
THEOREM LossRemembered ==
    ASSUME Unplugs, TurnRules
    PROVE  Spec => []LossNotForgotten
<1>1. Init => RememberInv
    <2> SUFFICES ASSUME Init
                 PROVE  RememberInv
        OBVIOUS
    <2>1. IInv /\ NoPipes /\ ctl.at = "free"
        BY InitHolds DEF Init, PipeInit, NoPipes, Free
    <2> QED BY <2>1, NoPipesNone DEF RememberInv, LossNotForgotten, SomeValid, Valid
<1>2. /\ PortInv /\ EnablesInReset /\ UnplugInv /\ WalkInv /\ RememberInv /\ [Next]_allVars
      => RememberInv'
    <2>1. ASSUME RememberInv, UNCHANGED allVars
          PROVE  RememberInv'
        <3>1. UNCHANGED <<port, pipe, idle, active>> /\ UNCHANGED <<ctl, hprt>>
            BY <2>1 DEF allVars, vars, portVars
        <3> QED BY <2>1, <3>1 DEF RememberInv, NoPipes, SomeValid, Valid, LossPending,
                LossNotForgotten
    <2> QED BY <2>1, RememberKept
<1>3. RememberInv => LossNotForgotten
    BY DEF RememberInv
<1>4. "still" \in Rules
    BY DEF TurnRules
<1> QED BY <1>1, <1>2, <1>3, <1>4, PortInvariant, EnabledInReset, UnplugInvariant,
           WalkInvariant, PTL DEF Spec

\* What the clients gain that dequeue in batches and leave paused pipes alone holds below
\* this port, whatever goes wrong on the bus.
THEOREM RulesBelowPort ==
    ASSUME ClientRules
    PROVE  Spec => [](QueuedIffActive /\ InvalidIsDrained) /\ InvalidStays
<1>1. Spec => PipeSpec
    BY PortSimulates DEF IsPipeSpec
<1> QED BY <1>1, ListsExact, InvalidDrained, InvalidForGood, PTL

-----------------------------------------------------------------------------
(* The port pauses its pipes *)

\* The port functions have one task, the port event task; its clients dequeue in batches,
\* leave paused pipes alone, and allocate and command pipes only when it does not wait.
OnePortTask == \A t, u \in PortTasks : t = u
PortTaskRules == ClientRules /\ "turns" \in Rules /\ OnePortTask

\* A port command waits for the pipes that have an IRP in flight.
PauseAt == ctl.at \in {"suspend_wait", "disable_pause"}

\* The task inside a port function is in no pipe function, and the port waits for no other
\* task.
InsideInv ==
    /\ ctl.at # "free" => ctl.task \in PortTasks /\ call[ctl.task].op = "none"
    /\ PauseAt => port.waiter # NoTask
    /\ port.waiting_all => PauseAt
    /\ port.waiter # NoTask => port.waiter = ctl.task
    /\ port.woken => port.waiter # NoTask

\* The port task finds no notification left over from an earlier wait: it is notified only
\* while it waits, once for each wait, and only when what it waits for has happened.
NoteInv ==
    /\ \A t \in PortTasks \cap notified : port.waiter = t \/ InCommand(t)
    /\ \A t \in PortTasks :
          InCommand(t) /\ (t \in notified \/ call[t].woken) =>
             /\ ~pipe[call[t].pipe].waiting
             /\ t \in notified => ~call[t].woken
    /\ port.waiter \in notified => ~port.woken
    /\ port.waiting_all => port.waiter \notin notified /\ ~port.woken
    /\ hprt.disable_requested =>
          ctl.at = "disable_wait" /\ port.waiter \notin notified /\ ~port.woken

\* While the port waits no pipe can start a transfer, and the channels that still run are
\* among those it counts; so none runs when the last one has reported.
PipesPause ==
    /\ \A p \in Pipes : pipe[p].state = "ACTIVE" => pipe[p].paused \/ pipe[p].inflight # NoIrp
    /\ \A p \in Pipes : Allocated(p) => ~pipe[p].cmd
    /\ port.waiting_all => /\ \A p \in hw : pipe[p].waiting
                           /\ Cardinality(hw) <= port.num_waiting
    /\ ~port.waiting_all => hw = {}

QuietInv ==
    /\ PauseAt => PipesPause
    /\ SuspendedIsQuiet

PauseInv == InsideInv /\ NoteInv /\ QuietInv

-----------------------------------------------------------------------------
(* The flags of a pipe *)

\* Two pipe objects agree on the flags that a pausing port sets.
SameFlags(q, r) == r.waiting = q.waiting /\ r.paused = q.paused

LEMMA TakeNextFlags ==
    ASSUME NEW q \in PipeRecord
    PROVE  SameFlags(q, TakeNext(q))
    BY DEF TakeNext, PipeRecord, SameFlags

LEMMA ReturnCurIrpFlags ==
    ASSUME NEW q \in PipeRecord
    PROVE  SameFlags(q, ReturnCurIrp(q))
    BY DEF ReturnCurIrp, PipeRecord, SameFlags

LEMMA RetireFlags ==
    ASSUME NEW q \in PipeRecord
    PROVE  SameFlags(q, Retire(q))
    BY DEF Retire, PipeRecord, SameFlags

\* A pipe command sets none of them.
LEMMA CommandedFlags ==
    ASSUME NEW q \in PipeRecord, NEW c \in Blocking
    PROVE  SameFlags(q, Commanded(q, c))
<1>1. CASE c = "ABORT"
    BY <1>1, RetireFlags DEF Commanded
<1>2. CASE c = "RESET"
    <2>1. PICK r : r = Retire(q)
        OBVIOUS
    <2>2. r \in PipeRecord /\ SameFlags(q, r)
        BY <2>1, RetireOk, RetireFlags DEF SameKind
    <2>3. Commanded(q, c) = [r EXCEPT !.state = "ACTIVE"]
        BY <1>2, <2>1 DEF Commanded
    <2> QED BY <2>2, <2>3 DEF SameFlags, PipeRecord
<1>3. CASE c = "HALT"
    BY <1>3 DEF Commanded, SameFlags, PipeRecord
<1> QED BY <1>1, <1>2, <1>3 DEF Blocking

\* The end of a transfer sets none of them, unless the port or a command waits for it.
LEMMA DoneFlags ==
    ASSUME NEW q \in PipeRecord, q.inflight # NoIrp
    PROVE  /\ SameFlags(q, DoneQueue(q))
           /\ ~PausedOnDone(q).waiting /\ PausedOnDone(q).paused
           /\ PausedOnDone(q).state = q.state /\ PausedOnDone(q).inflight = NoIrp
           /\ LET x == [DoneQueue(q) EXCEPT !.waiting = FALSE]
              IN  ~x.waiting /\ x.paused = q.paused /\ x.state = q.state /\ x.inflight = NoIrp
<1>1. PICK r : r = ReturnCurIrp(q)
    OBVIOUS
<1>2. r \in PipeRecord /\ SameFlags(q, r)
    BY <1>1, ReturnCurIrpOk, ReturnCurIrpFlags DEF SameKind
<1>3. DoneQueue(q) = [r EXCEPT !.last_event = "IRP_DONE"]
    BY <1>1 DEF DoneQueue
<1>4. PICK d : d = DoneQueue(q)
    OBVIOUS
<1>5. d \in PipeRecord /\ SameFlags(q, d) /\ d.state = q.state /\ d.inflight = NoIrp
    <2>1. d \in PipeRecord /\ d.state = q.state /\ d.inflight = NoIrp
        BY <1>4, ChanDoneOk DEF SameKind
    <2>2. SameFlags(q, d)
        BY <1>2, <1>3, <1>4 DEF SameFlags, PipeRecord
    <2> QED BY <2>1, <2>2
<1>6. PausedOnDone(q) = [d EXCEPT !.waiting = FALSE, !.paused = TRUE]
    BY <1>4 DEF PausedOnDone
<1>7. ~PausedOnDone(q).waiting /\ PausedOnDone(q).paused
      /\ PausedOnDone(q).state = q.state /\ PausedOnDone(q).inflight = NoIrp
    BY <1>5, <1>6 DEF PipeRecord
<1>8. LET x == [d EXCEPT !.waiting = FALSE]
      IN  ~x.waiting /\ x.paused = q.paused /\ x.state = q.state /\ x.inflight = NoIrp
    BY <1>5 DEF PipeRecord, SameFlags
<1> QED BY <1>4, <1>5, <1>7, <1>8

\* Nor does a transfer that fails, ...
LEMMA ErrorFlags ==
    ASSUME NEW q \in PipeRecord, q.inflight # NoIrp, NEW e
    PROVE  LET x == [ReturnCurIrp(q) EXCEPT !.state = "HALTED", !.last_event = e]
           IN  SameFlags(q, x) /\ x.state = "HALTED" /\ x.inflight = NoIrp
<1>1. PICK r : r = ReturnCurIrp(q)
    OBVIOUS
<1>2. r \in PipeRecord /\ SameFlags(q, r) /\ r.inflight = NoIrp
    BY <1>1, ReturnCurIrpOk, ReturnCurIrpFlags DEF SameKind
<1>3. LET x == [r EXCEPT !.state = "HALTED", !.last_event = e]
      IN  SameFlags(q, x) /\ x.state = "HALTED" /\ x.inflight = NoIrp
    BY <1>2 DEF SameFlags, PipeRecord
<1> QED BY <1>1, <1>3

\* ... nor the end of the pipe.
LEMMA EmptiedFlags ==
    ASSUME NEW q \in PipeRecord, q.state # "FREE"
    PROVE  /\ SameFlags(q, Invalidated(q)) /\ Invalidated(q).state = "INVALID"
           /\ SameFlags(q, Emptied(Invalidated(q)))
           /\ Emptied(Invalidated(q)).state = "INVALID"
           /\ Emptied(Invalidated(q)).inflight = NoIrp
<1>1. PICK r : r = Invalidated(q)
    OBVIOUS
<1>2. r \in PipeRecord /\ SameFlags(q, r) /\ r.state = "INVALID"
    <2>1. r \in PipeRecord
        BY <1>1, InvalidatedOk DEF SameKind
    <2> QED BY <1>1, <2>1 DEF Invalidated, SameFlags, PipeRecord
<1>3. Emptied(r).state = "INVALID" /\ Emptied(r).inflight = NoIrp
    BY <1>2, EmptiedOk
<1>4. SameFlags(r, Emptied(r))
    <2>1. CASE r.inflight = NoIrp
        BY <1>2, <2>1, RetireFlags DEF Emptied
    <2>2. CASE r.inflight # NoIrp
        <3>1. PICK s : s = ReturnCurIrp(r)
            OBVIOUS
        <3>2. s \in PipeRecord /\ SameFlags(r, s)
            BY <1>2, <2>2, <3>1, ReturnCurIrpOk, ReturnCurIrpFlags DEF SameKind
        <3>3. Emptied(r) = Retire(s)
            BY <2>2, <3>1 DEF Emptied
        <3> QED BY <3>2, <3>3, RetireFlags DEF SameFlags
    <2> QED BY <2>1, <2>2
<1> QED BY <1>1, <1>2, <1>3, <1>4 DEF SameFlags

-----------------------------------------------------------------------------
(* Frames *)

\* A step that notifies no port task, moves none into or out of a pipe command, and makes
\* no pipe wait.
LEMMA NoteFrame ==
    ASSUME NoteInv,
           \A u \in PortTasks \cup {port.waiter} : u \in notified' => u \in notified,
           \A u \in PortTasks : /\ InCommand(u)' <=> InCommand(u)
                                /\ InCommand(u) => call'[u] = call[u],
           \A u \in PortTasks : InCommand(u) /\ pipe'[call[u].pipe].waiting
                                   => pipe[call[u].pipe].waiting,
           port'.waiter = port.waiter,
           port'.woken => port.woken,
           port'.waiting_all => port.waiting_all,
           hprt'.disable_requested => hprt.disable_requested /\ ctl'.at = ctl.at
    PROVE  NoteInv'
<1>1. ASSUME NEW u \in PortTasks, u \in notified'
      PROVE  port'.waiter = u \/ InCommand(u)'
    BY <1>1 DEF NoteInv
<1>2. ASSUME NEW u \in PortTasks, InCommand(u)', u \in notified' \/ call'[u].woken
      PROVE  /\ ~pipe'[call'[u].pipe].waiting
             /\ u \in notified' => ~call'[u].woken
    <2>1. InCommand(u) /\ call'[u] = call[u] /\ (u \in notified' => u \in notified)
        BY <1>2
    <2>2. /\ ~pipe[call[u].pipe].waiting
          /\ u \in notified => ~call[u].woken
        BY <1>2, <2>1 DEF NoteInv
    <2> QED BY <2>1, <2>2
<1>3. port'.waiter \in notified' => port.waiter \in notified
    OBVIOUS
<1>4. /\ port'.waiter \in notified' => ~port'.woken
      /\ port'.waiting_all => port'.waiter \notin notified' /\ ~port'.woken
      /\ hprt'.disable_requested =>
            ctl'.at = "disable_wait" /\ port'.waiter \notin notified' /\ ~port'.woken
    BY <1>3 DEF NoteInv
<1> QED BY <1>1, <1>2, <1>4 DEF NoteInv

\* A step that leaves the task inside a port function where it is.
LEMMA InsideFrame ==
    ASSUME InsideInv, UNCHANGED ctl,
           ctl.at # "free" => call'[ctl.task] = call[ctl.task],
           port'.waiter = port.waiter,
           port'.woken => port.woken,
           port'.waiting_all => port.waiting_all
    PROVE  InsideInv'
    BY DEF InsideInv, PauseAt

\* The pipe of a task that is inside a pipe command.
LEMMA CommandPipe ==
    ASSUME IInv, NEW t \in Tasks, InCommand(t)
    PROVE  call[t].pipe \in Pipes /\ pipe[call[t].pipe] \in PipeRecord
    BY DEF IInv, RestInv, PipeInv, InCommand, Blocking

\* The pipes with a running channel are finitely many; so are the others.
LEMMA PipesFinite ==
    ASSUME IInv, RuleInv
    PROVE  /\ IsFiniteSet(hw) /\ IsFiniteSet(InFlightPipes)
           /\ hw \subseteq InFlightPipes
           /\ Cardinality(hw) <= Cardinality(InFlightPipes)
           /\ Cardinality(hw) \in Nat /\ Cardinality(InFlightPipes) \in Nat
<1>1. IsFiniteSet(Elems(active))
    BY DistinctCardinality DEF IInv, PipeInv, Lists
<1>2. IsFiniteSet(InFlightPipes)
    BY <1>1, FS_Subset DEF InFlightPipes
<1>3. hw \subseteq InFlightPipes
    BY SlotHasIrp, BusyIsActive DEF InFlightPipes
<1> QED BY <1>2, <1>3, FS_Subset, FS_CardinalityType

-----------------------------------------------------------------------------
(* The clients *)

\* A client moves no other task, and enters a command, wakes up in one, leaves one, or does
\* none of this and makes no pipe wait.
LEMMA ClientMoves ==
    ASSUME IInv, NEW t \in Tasks, ClientStep(t)
    PROVE  /\ \A u \in Tasks : u # t => call'[u] = call[u]
           /\ \/ \E p \in Pipes, c \in Blocking : CommandBlock(t, p, c)
              \/ CommandWake(t)
              \/ ResumeInvalid(t) \/ ResumeDone(t)
              \/ /\ UNCHANGED notified
                 /\ InCommand(t)' <=> InCommand(t)
                 /\ InCommand(t) => call'[t] = call[t]
                 /\ \A p \in Pipes : pipe'[p].waiting => pipe[p].waiting
<1> DEFINE Quiet == /\ UNCHANGED notified
                    /\ InCommand(t)' <=> InCommand(t)
                    /\ InCommand(t) => call'[t] = call[t]
                    /\ \A p \in Pipes : pipe'[p].waiting => pipe[p].waiting
           Others == \A u \in Tasks : u # t => call'[u] = call[u]
<1>1. call \in [Tasks -> CallRecord] /\ pipe \in [Pipes -> PipeRecord]
    BY DEF IInv, RestInv, PipeInv
<1>2. ASSUME NEW l, Fail(l)
      PROVE  Quiet /\ Others
    BY <1>2 DEF Fail, InCommand
<1>3. ASSUME UNCHANGED <<call, notified>>, NEW p \in Pipes, NEW R, R.waiting => pipe[p].waiting,
             pipe' = [pipe EXCEPT ![p] = R]
      PROVE  Quiet /\ Others
    BY <1>1, <1>3 DEF InCommand
<1>4. ASSUME NEW p \in Pipes, NEW i \in Irps, EnqueueCheck(t, p, i)
      PROVE  Quiet /\ Others
    BY <1>1, <1>4 DEF EnqueueCheck, CanCall, InCommand, Blocking
<1>5. ASSUME NEW p \in Pipes, DequeueMisplaced(t, p) \/ ClearBusy(t, p)
      PROVE  Quiet /\ Others
    BY <1>2, <1>5 DEF DequeueMisplaced, ClearBusy
<1>6. ASSUME NEW p \in Pipes, Dequeue(t, p) \/ GetEvent(t, p)
      PROVE  Quiet /\ Others
    <2>1. PICK d, e : \/ pipe' = [pipe EXCEPT ![p].done = d]
                      \/ pipe' = [pipe EXCEPT ![p].last_event = e]
        BY <1>6 DEF Dequeue, GetEvent
    <2>2. \A r \in Pipes : r # p => pipe'[r] = pipe[r]
        BY <1>1, <2>1
    <2>3. pipe'[p].waiting = pipe[p].waiting
        BY <1>1, <2>1 DEF PipeRecord
    <2> QED BY <1>6, <2>2, <2>3 DEF Dequeue, GetEvent, InCommand
<1>7. ASSUME NEW i \in Irps, AbortIrp(t, i)
      PROVE  Quiet /\ Others
    <2>1. PICK p \in Pipes : p = irp[i].ptr
        BY <1>7 DEF AbortIrp, IInv, PipeInv, PendingPlaced
    <2>2. PICK d, e : pipe' = [pipe EXCEPT ![p].pending = d, ![p].done = e]
        BY <1>7, <2>1 DEF AbortIrp
    <2>3. \A r \in Pipes : pipe'[r].waiting = pipe[r].waiting
        BY <1>1, <2>2 DEF PipeRecord
    <2> QED BY <1>7, <2>3 DEF AbortIrp, InCommand
<1>8. ASSUME NEW p \in Pipes, Alloc(t, p) \/ FreePipe(t, p)
      PROVE  Quiet /\ Others
    <2>1. PICK s, a : pipe' = [pipe EXCEPT ![p] = NewPipe(s, a)]
        BY <1>8 DEF Alloc, FreePipe
    <2>2. ~NewPipe(s, a).waiting
        BY DEF NewPipe
    <2>3. UNCHANGED <<call, notified>>
        BY <1>8 DEF Alloc, FreePipe
    <2> QED BY <1>3, <2>1, <2>2, <2>3
<1>9. ASSUME NEW p \in Pipes, NEW a \in Addrs, Update(t, p, a)
      PROVE  Quiet /\ Others
    <2>1. \A r \in Pipes : pipe'[r].waiting = pipe[r].waiting
        BY <1>1, <1>9 DEF Update, PipeRecord
    <2> QED BY <1>9, <2>1 DEF Update, InCommand
<1>10. ASSUME NEW p \in Pipes, NEW c \in Blocking, CommandNow(t, p, c)
       PROVE  Quiet /\ Others
    <2>1. pipe' = [pipe EXCEPT ![p] = Commanded(pipe[p], c)] /\ UNCHANGED <<call, notified>>
        BY <1>10 DEF CommandNow
    <2>2. Commanded(pipe[p], c).waiting = pipe[p].waiting
        BY <1>1, CommandedFlags DEF SameFlags
    <2> QED BY <1>3, <2>1, <2>2
<1>11. ASSUME NEW p \in Pipes, NEW c \in Blocking, CommandBlock(t, p, c)
       PROVE  Others
    BY <1>1, <1>11 DEF CommandBlock
<1>12. ASSUME NEW p \in Pipes, CommandClear(t, p)
       PROVE  Quiet /\ Others
    <2>1. UNCHANGED <<call, notified>>
        BY <1>12 DEF CommandClear
    <2>2. CASE HasNext(pipe[p])
        <3>1. PICK r : r = TakeNext(pipe[p])
            OBVIOUS
        <3>2. r \in PipeRecord /\ SameFlags(pipe[p], r)
            BY <1>1, <2>2, <3>1, TakeNextOk, TakeNextFlags DEF HasNext, SameKind
        <3>3. pipe' = [pipe EXCEPT ![p] = [r EXCEPT !.state = "ACTIVE"]]
            BY <1>12, <2>2, <3>1 DEF CommandClear
        <3>4. [r EXCEPT !.state = "ACTIVE"].waiting = pipe[p].waiting
            BY <3>2 DEF SameFlags, PipeRecord
        <3> QED BY <1>3, <2>1, <3>3, <3>4
    <2>3. CASE ~HasNext(pipe[p])
        <3>1. pipe' = [pipe EXCEPT ![p].state = "ACTIVE"]
            BY <1>12, <2>3 DEF CommandClear
        <3>2. \A r \in Pipes : pipe'[r].waiting = pipe[r].waiting
            BY <1>1, <3>1 DEF PipeRecord
        <3> QED BY <2>1, <3>2 DEF InCommand
    <2> QED BY <2>2, <2>3
<1>13. ASSUME EnqueueFreed(t) \/ ResumeFreed(t) \/ ResumeRunning(t) \/ ResumeBusy(t)
       PROVE  Quiet /\ Others
    BY <1>2, <1>13 DEF EnqueueFreed, ResumeFreed, ResumeRunning, ResumeBusy
<1>14. ASSUME EnqueueReject(t) \/ EnqueueStart(t) \/ EnqueuePend(t)
       PROVE  Quiet /\ Others
    <2>1. /\ call' = [call EXCEPT ![t] = IdleCall] /\ call[t].op = "enqueue" /\ UNCHANGED notified
          /\ call[t].pipe \in Pipes
        BY <1>14 DEF EnqueueReject, EnqueueStart, EnqueuePend, Return, Enqueuing, IInv, RestInv
    <2>2. Others /\ ~InCommand(t) /\ ~InCommand(t)'
        BY <1>1, <2>1 DEF InCommand, Blocking, IdleCall
    <2>3. PICK p \in Pipes : p = call[t].pipe
        BY <2>1
    <2>4. PICK i, e : \/ UNCHANGED pipe
                      \/ pipe' = [pipe EXCEPT ![p].inflight = i]
                      \/ pipe' = [pipe EXCEPT ![p].pending = e]
        BY <1>14, <2>3 DEF EnqueueReject, EnqueueStart, EnqueuePend
    <2>5. \A r \in Pipes : r # p => pipe'[r] = pipe[r]
        BY <1>1, <2>4
    <2>6. pipe'[p].waiting = pipe[p].waiting
        BY <1>1, <2>4 DEF PipeRecord
    <2> QED BY <2>1, <2>2, <2>5, <2>6
<1>15. ASSUME CommandWake(t) \/ ResumeInvalid(t) \/ ResumeDone(t)
       PROVE  Others
    BY <1>1, <1>15 DEF CommandWake, ResumeInvalid, ResumeDone, Return
<1> HIDE DEF Quiet, Others
<1>16. \/ Quiet /\ Others
       \/ Others /\ \E p \in Pipes, c \in Blocking : CommandBlock(t, p, c)
       \/ Others /\ (CommandWake(t) \/ ResumeInvalid(t) \/ ResumeDone(t))
    <2>1. CASE CallStep(t)
        BY <1>13, <1>14, <1>15, <2>1 DEF CallStep
    <2>2. CASE ~CallStep(t)
        BY <1>4, <1>5, <1>6, <1>7, <1>8, <1>9, <1>10, <1>11, <1>12, <2>2 DEF ClientStep
    <2> QED BY <2>1, <2>2
<1> QED BY <1>16 DEF Quiet, Others

\* The clients do not notify the port task, nor leave it a notification.
LEMMA ClientNotes ==
    ASSUME PortInv, CommandExclusive, NoteInv,
           NEW t \in Tasks, ClientStep(t), UNCHANGED portVars
    PROVE  NoteInv'
<1>1. /\ UNCHANGED port /\ UNCHANGED <<ctl, hprt>>
      /\ IInv /\ PortTasks \subseteq Tasks
    BY ClientLeavesPort, PortAssumption DEF portVars, PortInv
<1>2. \A u \in Tasks : u # t => call'[u] = call[u] /\ (InCommand(u)' <=> InCommand(u))
    BY <1>1, ClientMoves DEF InCommand
<1>3. call \in [Tasks -> CallRecord] /\ pipe \in [Pipes -> PipeRecord]
    BY <1>1 DEF IInv, RestInv, PipeInv
<1>4. ASSUME UNCHANGED notified, \A p \in Pipes : pipe'[p].waiting => pipe[p].waiting,
             InCommand(t)' <=> InCommand(t), InCommand(t) => call'[t] = call[t]
      PROVE  NoteInv'
    BY <1>1, <1>2, <1>4, CommandPipe, NoteFrame
<1>5. ASSUME NEW p \in Pipes, NEW c \in Blocking, CommandBlock(t, p, c)
      PROVE  NoteInv'
    <2>1. /\ UNCHANGED notified /\ Allocated(p) /\ ~pipe[p].cmd
          /\ call[t].op = "none" /\ port.waiter # t
          /\ call'[t] = [op |-> c, pipe |-> p, irp |-> NoIrp, woken |-> FALSE]
          /\ \A r \in Pipes : r # p => pipe'[r] = pipe[r]
        BY <1>3, <1>5 DEF CommandBlock, CommandAllowed, CanCall
    <2>2. ~InCommand(t)
        BY <2>1 DEF InCommand, Blocking
    <2>3. \A u \in Tasks : InCommand(u) => call[u].pipe # p
        BY <2>1 DEF CommandExclusive
    <2>4. t \in PortTasks => t \notin notified
        BY <2>1, <2>2 DEF NoteInv
    <2>5. ASSUME NEW u \in PortTasks, u \in notified'
          PROVE  port'.waiter = u \/ InCommand(u)'
        BY <1>1, <1>2, <2>1, <2>4, <2>5 DEF NoteInv
    <2>6. ASSUME NEW u \in PortTasks, InCommand(u)', u \in notified' \/ call'[u].woken
          PROVE  /\ ~pipe'[call'[u].pipe].waiting
                 /\ u \in notified' => ~call'[u].woken
        <3>1. u # t
            BY <2>1, <2>4, <2>6
        <3>2. u \in Tasks /\ InCommand(u) /\ call'[u] = call[u]
            BY <1>1, <1>2, <2>6, <3>1
        <3>3. pipe'[call[u].pipe] = pipe[call[u].pipe]
            BY <1>1, <2>1, <2>3, <3>2, CommandPipe
        <3> QED BY <2>1, <2>6, <3>2, <3>3 DEF NoteInv
    <2> QED BY <1>1, <2>1, <2>5, <2>6 DEF NoteInv
<1>6. CASE CommandWake(t)
    <2>1. /\ UNCHANGED pipe /\ notified' = notified \ {t}
          /\ InCommand(t) /\ t \in notified /\ ~call[t].woken
          /\ call'[t] = [call[t] EXCEPT !.woken = TRUE]
        BY <1>3, <1>6 DEF CommandWake
    <2>2. call'[t].pipe = call[t].pipe /\ call'[t].op = call[t].op
        BY <1>3, <2>1 DEF CallRecord
    <2>3. InCommand(t)'
        BY <2>1, <2>2 DEF InCommand
    <2>4. ASSUME NEW u \in PortTasks, u \in notified'
          PROVE  port'.waiter = u \/ InCommand(u)'
        BY <1>1, <1>2, <2>1, <2>4 DEF NoteInv
    <2>5. ASSUME NEW u \in PortTasks, InCommand(u)', u \in notified' \/ call'[u].woken
          PROVE  /\ ~pipe'[call'[u].pipe].waiting
                 /\ u \in notified' => ~call'[u].woken
        <3>1. CASE u = t
            BY <2>1, <2>2, <2>5, <3>1 DEF NoteInv
        <3>2. CASE u # t
            BY <1>1, <1>2, <2>1, <2>5, <3>2 DEF NoteInv
        <3> QED BY <3>1, <3>2
    <2> QED BY <1>1, <2>1, <2>4, <2>5 DEF NoteInv
<1>7. CASE ResumeInvalid(t) \/ ResumeDone(t)
    <2>1. /\ UNCHANGED notified /\ call' = [call EXCEPT ![t] = IdleCall]
          /\ InCommand(t) /\ call[t].woken
        BY <1>7 DEF ResumeInvalid, ResumeDone, Return, Resumes
    <2>2. ~InCommand(t)'
        BY <1>3, <2>1 DEF InCommand, Blocking, IdleCall
    <2>3. t \in PortTasks => t \notin notified
        BY <2>1 DEF NoteInv
    <2>4. PICK q \in Pipes : q = call[t].pipe
        BY <1>1, <2>1, CommandPipe
    <2>5. PICK R : pipe' = [pipe EXCEPT ![q] = R] /\ (R.waiting => pipe[q].waiting)
        <3>1. CASE ResumeInvalid(t)
            <4>1. /\ pipe' = [pipe EXCEPT ![q] = [pipe[q] EXCEPT !.waiter = NoTask, !.waiting = FALSE,
                                                                !.cmd = FALSE]]
                BY <2>4, <3>1 DEF ResumeInvalid
            <4>2. ~[pipe[q] EXCEPT !.waiter = NoTask, !.waiting = FALSE, !.cmd = FALSE].waiting
                BY <1>3 DEF PipeRecord
            <4> QED BY <4>1, <4>2
        <3>2. CASE ResumeDone(t)
            <4>1. PICK c \in Blocking : c = call[t].op
                BY <2>1 DEF InCommand
            <4>2. PICK r : r = Commanded(pipe[q], c)
                OBVIOUS
            <4>3. pipe[q].state # "FREE"
                BY <2>4, <3>2 DEF ResumeDone, Valid
            <4>4. r \in PipeRecord /\ r.waiting = pipe[q].waiting
                BY <1>3, <4>2, <4>3, CommandedOk, CommandedFlags DEF SameKind, SameFlags
            <4>5. pipe' = [pipe EXCEPT ![q] = [r EXCEPT !.waiter = NoTask, !.cmd = FALSE]]
                BY <2>4, <3>2, <4>1, <4>2 DEF ResumeDone
            <4>6. [r EXCEPT !.waiter = NoTask, !.cmd = FALSE].waiting = r.waiting
                BY <4>4 DEF PipeRecord
            <4> QED BY <4>4, <4>5, <4>6
        <3> QED BY <1>7, <3>1, <3>2
    <2>6. \A p \in Pipes : pipe'[p].waiting => pipe[p].waiting
        BY <1>3, <2>5
    <2>7. ASSUME NEW u \in PortTasks, u \in notified'
          PROVE  port'.waiter = u \/ InCommand(u)'
        BY <1>1, <1>2, <2>1, <2>3, <2>7 DEF NoteInv
    <2>8. ASSUME NEW u \in PortTasks, InCommand(u)', u \in notified' \/ call'[u].woken
          PROVE  /\ ~pipe'[call'[u].pipe].waiting
                 /\ u \in notified' => ~call'[u].woken
        <3>1. u \in Tasks /\ InCommand(u) /\ call'[u] = call[u]
            BY <1>1, <1>2, <2>2, <2>8
        <3>2. ~pipe[call[u].pipe].waiting /\ (u \in notified => ~call[u].woken)
            BY <2>1, <2>8, <3>1 DEF NoteInv
        <3> QED BY <1>1, <2>1, <2>6, <3>1, <3>2, CommandPipe
    <2> QED BY <1>1, <2>1, <2>7, <2>8 DEF NoteInv
<1> QED BY <1>1, <1>4, <1>5, <1>6, <1>7, ClientMoves

\* A pipe is as it was, as far as a pausing port is concerned.
Untouched(p) ==
    /\ SameFlags(pipe[p], pipe'[p])
    /\ pipe'[p].state = pipe[p].state
    /\ pipe'[p].inflight = pipe[p].inflight
    /\ pipe'[p].cmd = pipe[p].cmd

\* While the port waits for its pipes the clients start no transfer and command no pipe; all
\* they can do that matters is to free a pipe that has none.
LEMMA ClientWhilePaused ==
    ASSUME IInv, CommandExclusive, "turns" \in Rules,
           PipesPause, ~Steady, NEW t \in Tasks, ClientStep(t)
    PROVE  /\ UNCHANGED hw
           /\ \A p \in Pipes : Untouched(p) \/ (pipe'[p].state = "FREE" /\ p \notin hw)
<1> DEFINE Goal == /\ UNCHANGED hw
                   /\ \A p \in Pipes : Untouched(p) \/ (pipe'[p].state = "FREE" /\ p \notin hw)
<1>1. call \in [Tasks -> CallRecord] /\ pipe \in [Pipes -> PipeRecord]
    BY DEF IInv, RestInv, PipeInv
<1>2. ASSUME UNCHANGED <<pipe, hw>>
      PROVE  Goal
    BY <1>2 DEF Untouched, SameFlags
<1>3. ASSUME UNCHANGED hw, NEW p \in Pipes, Untouched(p),
             \A r \in Pipes : r # p => pipe'[r] = pipe[r]
      PROVE  Goal
    BY <1>3 DEF Untouched, SameFlags
<1>4. ASSUME NEW p \in Pipes, \/ \E i \in Irps : EnqueueCheck(t, p, i)
                              \/ DequeueMisplaced(t, p) \/ ClearBusy(t, p)
      PROVE  Goal
    BY <1>2, <1>4 DEF EnqueueCheck, DequeueMisplaced, ClearBusy, Fail
<1>5. ASSUME NEW p \in Pipes, Dequeue(t, p) \/ GetEvent(t, p)
      PROVE  Goal
    <2>1. PICK d, e : \/ pipe' = [pipe EXCEPT ![p].done = d]
                      \/ pipe' = [pipe EXCEPT ![p].last_event = e]
        BY <1>5 DEF Dequeue, GetEvent
    <2>2. \A r \in Pipes : r # p => pipe'[r] = pipe[r]
        BY <1>1, <2>1
    <2>3. Untouched(p)
        BY <1>1, <2>1 DEF PipeRecord, Untouched, SameFlags
    <2> QED BY <1>3, <1>5, <2>2, <2>3 DEF Dequeue, GetEvent
<1>6. ASSUME NEW i \in Irps, AbortIrp(t, i)
      PROVE  Goal
    <2>1. PICK p \in Pipes : p = irp[i].ptr
        BY <1>6 DEF AbortIrp, IInv, PipeInv, PendingPlaced
    <2>2. PICK d, e : pipe' = [pipe EXCEPT ![p].pending = d, ![p].done = e]
        BY <1>6, <2>1 DEF AbortIrp
    <2>3. \A r \in Pipes : r # p => pipe'[r] = pipe[r]
        BY <1>1, <2>2
    <2>4. Untouched(p)
        BY <1>1, <2>2 DEF PipeRecord, Untouched, SameFlags
    <2> QED BY <1>3, <1>6, <2>3, <2>4 DEF AbortIrp
<1>7. ASSUME NEW p \in Pipes, Alloc(t, p) \/ CommandClear(t, p) \/ \E c \in Blocking :
                                 CommandNow(t, p, c) \/ CommandBlock(t, p, c)
      PROVE  FALSE
    BY <1>7 DEF Alloc, CommandClear, CommandNow, CommandBlock, CommandAllowed, Keeps
<1>8. ASSUME NEW p \in Pipes, FreePipe(t, p)
      PROVE  Goal
    <2>1. UNCHANGED hw /\ pipe' = [pipe EXCEPT ![p] = NewPipe("FREE", pipe[p].addr)]
        BY <1>8 DEF FreePipe
    <2>2. pipe'[p].state = "FREE" /\ \A r \in Pipes : r # p => pipe'[r] = pipe[r]
        BY <1>1, <2>1 DEF NewPipe
    <2>3. p \notin hw
        BY <1>1, <1>8, SlotHasIrp, QueueEmpty DEF FreePipe
    <2> QED BY <2>1, <2>2, <2>3 DEF Untouched, SameFlags
<1>9. ASSUME NEW p \in Pipes, NEW a \in Addrs, Update(t, p, a)
      PROVE  Goal
    <2>1. pipe' = [pipe EXCEPT ![p].addr = a] /\ UNCHANGED hw
        BY <1>9 DEF Update
    <2>2. \A r \in Pipes : r # p => pipe'[r] = pipe[r]
        BY <1>1, <2>1
    <2>3. Untouched(p)
        BY <1>1, <2>1 DEF PipeRecord, Untouched, SameFlags
    <2> QED BY <1>3, <2>1, <2>2, <2>3
<1>10. ASSUME EnqueueFreed(t) \/ ResumeFreed(t) \/ ResumeRunning(t) \/ ResumeBusy(t)
              \/ EnqueueReject(t) \/ CommandWake(t)
       PROVE  Goal
    BY <1>2, <1>10 DEF EnqueueFreed, ResumeFreed, ResumeRunning, ResumeBusy, EnqueueReject,
       CommandWake, Fail
<1>11. ASSUME EnqueueStart(t)
       PROVE  FALSE
    <2>1. /\ call[t].pipe \in Pipes /\ pipe[call[t].pipe].state = "ACTIVE"
          /\ ~pipe[call[t].pipe].paused /\ pipe[call[t].pipe].inflight = NoIrp
        BY <1>11 DEF EnqueueStart, Enqueuing, Accepts, CanStart, IInv, RestInv
    <2> QED BY <2>1 DEF PipesPause
<1>12. ASSUME EnqueuePend(t)
       PROVE  Goal
    <2>1. PICK p \in Pipes : p = call[t].pipe
        BY <1>12 DEF EnqueuePend, Enqueuing, IInv, RestInv
    <2>2. PICK d : pipe' = [pipe EXCEPT ![p].pending = d]
        BY <1>12, <2>1 DEF EnqueuePend
    <2>3. \A r \in Pipes : r # p => pipe'[r] = pipe[r]
        BY <1>1, <2>2
    <2>4. Untouched(p)
        BY <1>1, <2>2 DEF PipeRecord, Untouched, SameFlags
    <2> QED BY <1>3, <1>12, <2>3, <2>4 DEF EnqueuePend
<1>13. ASSUME ResumeInvalid(t) \/ ResumeDone(t)
       PROVE  FALSE
    <2>1. /\ InCommand(t) /\ call[t].pipe \in Pipes /\ Allocated(call[t].pipe)
        BY <1>13, CommandPipe DEF ResumeInvalid, ResumeDone, Resumes, Valid, Allocated
    <2>2. pipe[call[t].pipe].cmd
        BY <2>1 DEF CommandExclusive
    <2> QED BY <2>1, <2>2 DEF PipesPause
<1> HIDE DEF Goal
<1>14. Goal
    <2>1. CASE CallStep(t)
        BY <1>10, <1>11, <1>12, <1>13, <2>1 DEF CallStep
    <2>2. CASE ~CallStep(t)
        BY <1>4, <1>5, <1>6, <1>7, <1>8, <1>9, <2>2 DEF ClientStep
    <2> QED BY <2>1, <2>2
<1> QED BY <1>14 DEF Goal

\* No client starts a transfer on a port that is not enabled.
LEMMA ClientStarts ==
    ASSUME "turns" \in Rules, port.state # "ENABLED", NEW t \in Tasks, ClientStep(t)
    PROVE  UNCHANGED hw
<1>1. ~EnqueueStart(t) /\ \A p \in Pipes : ~CommandClear(t, p)
    BY DEF EnqueueStart, Accepts, CommandClear, CommandAllowed, Keeps, Steady
<1>2. CASE CallStep(t)
    BY <1>1, <1>2 DEF CallStep, EnqueueFreed, EnqueueReject, EnqueuePend, CommandWake,
       ResumeFreed, ResumeInvalid, ResumeRunning, ResumeBusy, ResumeDone, Fail
<1>3. CASE \E p \in Pipes, c \in Blocking : CommandNow(t, p, c) \/ CommandBlock(t, p, c)
    BY <1>3 DEF CommandNow, CommandBlock
<1>4. CASE \E p \in Pipes : \/ Dequeue(t, p) \/ DequeueMisplaced(t, p) \/ ClearBusy(t, p)
                            \/ Alloc(t, p) \/ FreePipe(t, p) \/ GetEvent(t, p)
    BY <1>4 DEF Dequeue, DequeueMisplaced, ClearBusy, Fail, Alloc, FreePipe, GetEvent
<1>5. CASE \/ \E p \in Pipes, i \in Irps : EnqueueCheck(t, p, i)
           \/ \E i \in Irps : AbortIrp(t, i)
           \/ \E p \in Pipes, a \in Addrs : Update(t, p, a)
    BY <1>5 DEF EnqueueCheck, AbortIrp, Update
<1> QED BY <1>1, <1>2, <1>3, <1>4, <1>5 DEF ClientStep

LEMMA ClientPauses ==
    ASSUME PortTaskRules, PortInv, CommandExclusive, PauseInv,
           NEW t \in Tasks, t # ctl.task, ClientStep(t), UNCHANGED portVars
    PROVE  PauseInv'
<1>1. /\ UNCHANGED port /\ UNCHANGED <<ctl, hprt>> /\ IInv /\ "turns" \in Rules
      /\ PortTasks \subseteq Tasks
    BY ClientLeavesPort, PortAssumption DEF portVars, PortInv, PortTaskRules
<1>2. InsideInv'
    <2>1. ctl.at # "free" => call'[ctl.task] = call[ctl.task]
        BY <1>1, ClientMoves DEF PauseInv, InsideInv
    <2> QED BY <1>1, <2>1, InsideFrame DEF PauseInv
<1>3. NoteInv'
    BY ClientNotes DEF PauseInv
<1>4. SuspendedIsQuiet'
    BY <1>1, ClientStarts DEF PauseInv, QuietInv, SuspendedIsQuiet
<1>5. PauseAt => PipesPause'
    <2> SUFFICES ASSUME PauseAt
                 PROVE  PipesPause'
        OBVIOUS
    <2>1. PipesPause /\ ~Steady
        BY DEF PauseInv, InsideInv, QuietInv, Steady
    <2>2. /\ UNCHANGED hw
          /\ \A p \in Pipes : Untouched(p) \/ (pipe'[p].state = "FREE" /\ p \notin hw)
        BY <1>1, <2>1, ClientWhilePaused
    <2>3. \A p \in hw : p \in Pipes
        BY <1>1 DEF IInv, PipeInv
    <2> QED BY <1>1, <2>1, <2>2, <2>3 DEF PipesPause, Allocated, Untouched, SameFlags
<1> QED BY <1>1, <1>2, <1>3, <1>4, <1>5 DEF PauseInv, QuietInv, PauseAt

-----------------------------------------------------------------------------
(* The channel interrupt *)

\* What the interrupt of a channel does to its pipe, to the port and to the tasks.
LEMMA ChanMoves ==
    ASSUME IInv, NEW p \in Pipes, ChanStep(p), ~Fail("no_waiter")
    PROVE  /\ p \in hw /\ UNCHANGED <<call, inval>>
           /\ port' \in PortRecord
           /\ port'.state = port.state /\ port'.conn = port.conn /\ port'.waiter = port.waiter
           /\ port'.woken = port.woken
           /\ \A r \in Pipes : r # p => pipe'[r] = pipe[r]
           /\ SameCommand(pipe[p], pipe'[p])
           /\ hw \ {p} \subseteq hw' /\ hw' \subseteq hw
           /\ \/ ChanIgnored(p) /\ pipe'[p] = pipe[p] /\ UNCHANGED port
              \/ /\ ChanDoneNext(p) /\ UNCHANGED port
                 /\ SameFlags(pipe[p], pipe'[p]) /\ pipe'[p].state = pipe[p].state
                 /\ pipe'[p].inflight # NoIrp => p \in hw'
              \/ /\ ChanDonePause(p) /\ p \notin hw'
                 /\ ~pipe'[p].waiting /\ pipe'[p].paused
                 /\ pipe'[p].state = pipe[p].state /\ pipe'[p].inflight = NoIrp
              \/ /\ ChanDoneCommand(p) /\ p \notin hw' /\ UNCHANGED port
                 /\ ~pipe'[p].waiting
                 /\ pipe'[p].state = pipe[p].state /\ pipe'[p].inflight = NoIrp
              \/ /\ \E e \in ErrorEvents : ChanError(p, e)
                 /\ p \notin hw' /\ UNCHANGED port
                 /\ SameFlags(pipe[p], pipe'[p]) /\ pipe'[p].state = "HALTED"
                 /\ pipe'[p].inflight = NoIrp
<1>1. /\ p \in hw /\ UNCHANGED call /\ ~ChanDoneOrphan(p)
      /\ \A r \in Pipes : r # p => pipe'[r] = pipe[r]
    BY DEF ChanStep, ChanIgnored, ChanDoneNext, ChanDoneOrphan, ChanDonePause,
       ChanDoneCommand, ChanError, SlotDone, IInv, PipeInv
<1>2. /\ pipe[p] \in PipeRecord /\ pipe[p].inflight # NoIrp /\ pipe[p].state # "FREE"
      /\ port \in PortRecord /\ pipe \in [Pipes -> PipeRecord]
    BY <1>1, SlotHasIrp DEF IInv, RestInv, PipeInv
<1>3. /\ UNCHANGED inval /\ port'.state = port.state /\ port'.conn = port.conn
      /\ port'.waiter = port.waiter
    BY <1>2, ChanLeavesPort
<1>4. CASE ChanIgnored(p)
    BY <1>1, <1>2, <1>3, <1>4 DEF ChanIgnored, SameCommand
<1>5. CASE ChanDoneNext(p)
    <2>1. PICK q : q = DoneQueue(pipe[p])
        OBVIOUS
    <2>2. /\ q \in PipeRecord /\ SameCommand(pipe[p], q) /\ SameFlags(pipe[p], q)
          /\ q.state = pipe[p].state /\ q.inflight = NoIrp
        BY <1>2, <2>1, ChanDoneOk, DoneFlags DEF SameKind
    <2>3. UNCHANGED port
        BY <1>5 DEF ChanDoneNext
    <2>4. CASE HasNext(q)
        <3>1. pipe'[p] = TakeNext(q) /\ UNCHANGED hw
            BY <1>2, <1>5, <2>1, <2>4 DEF ChanDoneNext
        <3>2. SameCommand(q, TakeNext(q)) /\ SameFlags(q, TakeNext(q)) /\ TakeNext(q).state = q.state
            BY <2>2, <2>4, TakeNextOk, TakeNextFlags DEF HasNext
        <3> QED BY <1>1, <1>2, <1>3, <1>5, <2>2, <2>3, <3>1, <3>2 DEF SameCommand, SameFlags
    <2>5. CASE ~HasNext(q)
        <3>1. pipe'[p] = q /\ hw' = hw \ {p}
            BY <1>2, <1>5, <2>1, <2>5 DEF ChanDoneNext
        <3> QED BY <1>1, <1>2, <1>3, <1>5, <2>2, <2>3, <3>1
    <2> QED BY <2>4, <2>5
<1>6. CASE ChanDonePause(p)
    <2>1. pipe'[p] = PausedOnDone(pipe[p]) /\ hw' = hw \ {p}
        BY <1>2, <1>6 DEF ChanDonePause
    <2>2. /\ SameCommand(pipe[p], pipe'[p]) /\ ~pipe'[p].waiting /\ pipe'[p].paused
          /\ pipe'[p].state = pipe[p].state /\ pipe'[p].inflight = NoIrp
        BY <1>2, <2>1, PausedOnDoneOk, DoneFlags
    <2>3. port' \in PortRecord /\ port'.woken = port.woken
        <3>1. /\ port' = [port EXCEPT !.num_waiting = port.num_waiting - 1,
                                     !.waiting_all = ~(port.num_waiting = 1)]
              /\ port.waiting_all
            BY <1>6 DEF ChanDonePause
        <3>2. port.num_waiting - 1 \in Nat
            BY <1>2, <3>1 DEF IInv, RestInv, PortRecord
        <3> QED BY <1>2, <3>1, <3>2 DEF PortRecord
    <2> QED BY <1>1, <1>3, <1>6, <2>1, <2>2, <2>3
<1>7. CASE ChanDoneCommand(p)
    <2>1. /\ pipe'[p] = [DoneQueue(pipe[p]) EXCEPT !.waiting = FALSE] /\ hw' = hw \ {p}
          /\ UNCHANGED port
        BY <1>2, <1>7 DEF ChanDoneCommand
    <2>2. /\ SameCommand(pipe[p], pipe'[p]) /\ ~pipe'[p].waiting
          /\ pipe'[p].state = pipe[p].state /\ pipe'[p].inflight = NoIrp
        BY <1>2, <2>1, PausedOnDoneOk, DoneFlags
    <2> QED BY <1>1, <1>2, <1>3, <1>7, <2>1, <2>2
<1>8. ASSUME NEW e \in ErrorEvents, ChanError(p, e)
      PROVE  /\ p \notin hw' /\ UNCHANGED port /\ hw' = hw \ {p}
             /\ SameCommand(pipe[p], pipe'[p])
             /\ SameFlags(pipe[p], pipe'[p]) /\ pipe'[p].state = "HALTED"
             /\ pipe'[p].inflight = NoIrp
    <2>1. /\ pipe'[p] = [ReturnCurIrp(pipe[p]) EXCEPT !.state = "HALTED", !.last_event = e]
          /\ hw' = hw \ {p} /\ UNCHANGED port
        BY <1>2, <1>8 DEF ChanError
    <2>2. /\ SameCommand(pipe[p], pipe'[p])
          /\ SameFlags(pipe[p], pipe'[p]) /\ pipe'[p].state = "HALTED"
          /\ pipe'[p].inflight = NoIrp
        <3>1. PICK q : q = pipe[p]
            OBVIOUS
        <3>2. PICK x : x = [ReturnCurIrp(q) EXCEPT !.state = "HALTED", !.last_event = e]
            OBVIOUS
        <3>3. SameCommand(q, x)
            BY <1>2, <3>1, <3>2, ChanErrorOk
        <3>4. SameFlags(q, x) /\ x.state = "HALTED" /\ x.inflight = NoIrp
            BY <1>2, <3>1, <3>2, ErrorFlags
        <3> QED BY <2>1, <3>1, <3>2, <3>3, <3>4
    <2> QED BY <2>1, <2>2
<1>9. CASE \E e \in ErrorEvents : ChanError(p, e)
    BY <1>1, <1>2, <1>3, <1>8, <1>9
<1> QED BY <1>1, <1>4, <1>5, <1>6, <1>7, <1>9 DEF ChanStep

\* A step that changes no pipe, task or channel, and moves the task inside a port function
\* to no place where it waits.
PlainStep ==
    /\ UNCHANGED <<pipe, call, hw, notified>>
    /\ port'.waiter = port.waiter /\ port'.woken = port.woken
    /\ port'.waiting_all = port.waiting_all /\ port'.num_waiting = port.num_waiting
    /\ port'.state = "SUSPENDED" => port.state = "SUSPENDED"
    /\ hprt'.disable_requested => hprt.disable_requested
    /\ \/ UNCHANGED ctl
       \/ /\ {ctl.at, ctl'.at} \cap {"suspend_wait", "disable_pause", "disable_wait"} = {}
          /\ port.waiter = NoTask
          /\ ctl'.at # "free" => ctl'.task \in PortTasks /\ call[ctl'.task].op = "none"

LEMMA PlainPauses ==
    ASSUME PauseInv, PlainStep
    PROVE  PauseInv'
<1>1. InsideInv'
    BY DEF PauseInv, PlainStep, InsideInv, PauseAt
<1>2. NoteInv'
    BY DEF PauseInv, PlainStep, NoteInv, InCommand
<1>3. PauseAt' => PauseAt
    BY DEF PauseAt, PlainStep
<1>4. QuietInv'
    BY <1>3 DEF PauseInv, PlainStep, QuietInv, PipesPause, SuspendedIsQuiet, Allocated
<1> QED BY <1>1, <1>2, <1>4 DEF PauseInv

\* The task that a pipe command wakes up is inside that command.
LEMMA PipeWaiter ==
    ASSUME IInv, CommandExclusive, NEW p \in Pipes, Allocated(p), pipe[p].waiter # NoTask
    PROVE  /\ pipe[p].waiter \in Tasks
           /\ InCommand(pipe[p].waiter) /\ call[pipe[p].waiter].pipe = p
<1>1. pipe[p].cmd
    BY DEF CommandExclusive
<1>2. pipe[p].waiter \in {t \in Tasks : InCommand(t) /\ call[t].pipe = p}
    BY <1>1 DEF CommandExclusive
<1> QED BY <1>2

LEMMA ChanPauses ==
    ASSUME PortInv, RuleInv, CommandExclusive, PauseInv,
           NEW p \in Pipes, ChanStep(p), UNCHANGED portVars
    PROVE  PauseInv'
<1>1. IInv /\ port \in PortRecord /\ UNCHANGED <<ctl, hprt>> /\ PortTasks \subseteq Tasks
      /\ NoTask \notin Tasks
    BY PortAssumption, NullAssumption DEF PortInv, IInv, RestInv, portVars
<1>2. CASE Fail("no_waiter")
    <2>1. PlainStep
        BY <1>1, <1>2 DEF PlainStep, Fail
    <2> QED BY <2>1, PlainPauses
<1>3. CASE ~Fail("no_waiter")
    <2>1. /\ p \in hw /\ UNCHANGED call
          /\ port' \in PortRecord
          /\ port'.state = port.state /\ port'.waiter = port.waiter /\ port'.woken = port.woken
          /\ \A r \in Pipes : r # p => pipe'[r] = pipe[r]
          /\ SameCommand(pipe[p], pipe'[p])
          /\ hw \ {p} \subseteq hw' /\ hw' \subseteq hw
        BY <1>1, <1>3, ChanMoves
    <2>2. /\ pipe[p].inflight # NoIrp /\ Allocated(p)
          /\ \A r \in hw : r \in Pipes
        BY <1>1, <2>1, SlotHasIrp DEF IInv, PipeInv
    <2>3. /\ IsFiniteSet(hw) /\ Cardinality(hw) \in Nat
        BY <1>1, PipesFinite
    <2>4. IsFiniteSet(hw') /\ Cardinality(hw') \in Nat /\ Cardinality(hw') <= Cardinality(hw)
        BY <2>1, <2>3, FS_Subset, FS_CardinalityType
    <2>5. SuspendedIsQuiet'
        BY <2>1 DEF PauseInv, QuietInv, SuspendedIsQuiet
    <2>6. ctl.at # "free" => call'[ctl.task] = call[ctl.task]
        BY <2>1
    <2>7. \A u \in Tasks : /\ InCommand(u)' <=> InCommand(u)
                           /\ call'[u] = call[u]
        BY <2>1 DEF InCommand
    <2>8. \/ ChanIgnored(p) /\ pipe'[p] = pipe[p] /\ UNCHANGED port
          \/ /\ ChanDoneNext(p) /\ UNCHANGED port
             /\ SameFlags(pipe[p], pipe'[p]) /\ pipe'[p].state = pipe[p].state
          \/ /\ ChanDonePause(p) /\ p \notin hw'
             /\ ~pipe'[p].waiting /\ pipe'[p].paused
             /\ pipe'[p].state = pipe[p].state
          \/ /\ ChanDoneCommand(p) /\ p \notin hw' /\ UNCHANGED port
             /\ ~pipe'[p].waiting
          \/ /\ \E e \in ErrorEvents : ChanError(p, e)
             /\ p \notin hw' /\ UNCHANGED port
             /\ SameFlags(pipe[p], pipe'[p]) /\ pipe'[p].state = "HALTED"
        BY <1>1, <1>3, ChanMoves
    <2>9. CASE ChanDonePause(p)
        <3>1. /\ port' = [port EXCEPT !.num_waiting = port.num_waiting - 1,
                                     !.waiting_all = ~(port.num_waiting = 1)]
              /\ port.waiting_all /\ pipe[p].waiting /\ hw' = hw \ {p}
              /\ IF port.num_waiting = 1 THEN port.waiter # NoTask /\ Notify(port.waiter)
                                         ELSE UNCHANGED notified
            BY <2>9 DEF ChanDonePause, SlotDone
        <3>2. /\ port'.num_waiting = port.num_waiting - 1
              /\ port'.waiting_all = (port.num_waiting # 1)
              /\ port.num_waiting \in Nat
            BY <1>1, <3>1 DEF PortRecord
        <3>3. /\ ~pipe'[p].waiting /\ pipe'[p].paused /\ pipe'[p].state = pipe[p].state
            <4>1. ~ChanIgnored(p) /\ ~ChanDoneNext(p) /\ ~ChanDoneCommand(p)
                BY <2>9, <3>1 DEF ChanIgnored, ChanDonePause, SlotDone, ChanDoneNext,
                   ChanDoneCommand
            <4>2. ~(UNCHANGED port)
                BY <3>2
            <4> QED BY <2>8, <4>1, <4>2
        <3>4. InsideInv'
            BY <1>1, <2>1, <2>6, <3>1, InsideFrame DEF PauseInv
        <3>5. PauseAt /\ port.waiter = ctl.task /\ call[ctl.task].op = "none" /\ port.waiter # NoTask
              /\ ~hprt.disable_requested /\ port.waiter \notin notified /\ ~port.woken
            BY <3>1 DEF PauseInv, InsideInv, NoteInv, PauseAt
        <3>6. NoteInv'
            <4>1. ~InCommand(port.waiter)
                BY <3>5 DEF InCommand, Blocking
            <4>2. notified' = IF port.num_waiting = 1 THEN notified \cup {port.waiter} ELSE notified
                BY <3>1 DEF Notify
            <4>3. ASSUME NEW u \in PortTasks, u \in notified'
                  PROVE  port'.waiter = u \/ InCommand(u)'
                BY <1>1, <2>1, <2>7, <4>2, <4>3 DEF PauseInv, NoteInv
            <4>4. ASSUME NEW u \in PortTasks, InCommand(u)', u \in notified' \/ call'[u].woken
                  PROVE  /\ ~pipe'[call'[u].pipe].waiting
                         /\ u \in notified' => ~call'[u].woken
                <5>1. u \in Tasks /\ InCommand(u) /\ call'[u] = call[u]
                    BY <1>1, <2>7, <4>4
                <5>2. u \in notified' => u \in notified
                    BY <4>1, <4>2, <5>1
                <5>3. ~pipe[call[u].pipe].waiting /\ (u \in notified => ~call[u].woken)
                    BY <4>4, <5>1, <5>2 DEF PauseInv, NoteInv
                <5>4. call[u].pipe \in Pipes
                    BY <1>1, <5>1, CommandPipe
                <5> QED BY <2>1, <3>3, <5>1, <5>2, <5>3, <5>4
            <4>5. port'.waiting_all => port'.waiter \notin notified'
                BY <2>1, <3>2, <3>5, <4>2
            <4> QED BY <1>1, <2>1, <3>5, <4>3, <4>4, <4>5 DEF NoteInv
        <3>7. PipesPause'
            <4>1. PipesPause
                BY <3>5 DEF PauseInv, QuietInv
            <4>2. Cardinality(hw) = Cardinality(hw') + 1
                BY <2>1, <2>3, <2>4, <3>1, FS_RemoveElement
            <4>3. ~port'.waiting_all => hw' = {}
                <5> SUFFICES ASSUME port.num_waiting = 1
                             PROVE  hw' = {}
                    BY <3>2
                <5>1. Cardinality(hw') = 0
                    BY <2>3, <2>4, <3>1, <4>1, <4>2 DEF PipesPause
                <5> QED BY <2>4, <5>1, FS_EmptySet
            <4>4. Cardinality(hw') <= port'.num_waiting
                BY <2>3, <2>4, <3>1, <3>2, <4>1, <4>2 DEF PipesPause
            <4>5. ASSUME NEW r \in Pipes, pipe'[r].state = "ACTIVE"
                  PROVE  pipe'[r].paused \/ pipe'[r].inflight # NoIrp
                BY <2>1, <3>3, <4>1, <4>5 DEF PipesPause
            <4>6. ASSUME NEW r \in Pipes, pipe'[r].state # "FREE"
                  PROVE  ~pipe'[r].cmd
                <5>1. pipe[r].state # "FREE" /\ pipe'[r].cmd = pipe[r].cmd
                    BY <2>1, <3>3, <4>6 DEF SameCommand
                <5> QED BY <4>1, <5>1 DEF PipesPause, Allocated
            <4>7. \A r \in hw' : pipe'[r].waiting
                BY <2>1, <2>2, <3>1, <4>1 DEF PipesPause
            <4> QED BY <4>3, <4>4, <4>5, <4>6, <4>7 DEF PipesPause, Allocated
        <3> QED BY <2>5, <3>4, <3>6, <3>7 DEF PauseInv, QuietInv
    <2>10. CASE ~ChanDonePause(p)
        <3>1. UNCHANGED port
            BY <2>8, <2>10
        <3>2. InsideInv'
            BY <1>1, <2>1, <2>6, <3>1, InsideFrame DEF PauseInv
        <3>3. NoteInv'
            <4>1. CASE ChanDoneCommand(p)
                <5>1. PICK w : w = pipe[p].waiter
                    OBVIOUS
                <5>2. /\ w # NoTask /\ pipe[p].waiting /\ ~port.waiting_all
                      /\ notified' = notified \cup {w}
                      /\ p \in hw /\ port.conn
                    BY <4>1, <5>1 DEF ChanDoneCommand, Notify, SlotDone
                <5>3. w \in Tasks /\ InCommand(w) /\ call[w].pipe = p
                    BY <1>1, <2>2, <5>1, <5>2, PipeWaiter
                <5>4. w # port.waiter
                    BY <5>2, <5>3 DEF PauseInv, InsideInv, PlaceInv, PortInv, InCommand, Blocking
                <5>5. ~pipe'[p].waiting
                    <6>1. p \in Pipes /\ pipe \in [Pipes -> PipeRecord]
                        BY <1>1 DEF IInv, PipeInv
                    <6>2. pipe'[p] = [DoneQueue(pipe[p]) EXCEPT !.waiting = FALSE]
                        BY <4>1, <6>1 DEF ChanDoneCommand
                    <6> QED BY <2>2, <6>1, <6>2, DoneFlags
                <5>6. ASSUME NEW u \in PortTasks, u \in notified'
                      PROVE  port'.waiter = u \/ InCommand(u)'
                    BY <1>1, <2>7, <3>1, <5>2, <5>3, <5>6 DEF PauseInv, NoteInv
                <5>7. ASSUME NEW u \in PortTasks, InCommand(u)', u \in notified' \/ call'[u].woken
                      PROVE  /\ ~pipe'[call'[u].pipe].waiting
                             /\ u \in notified' => ~call'[u].woken
                    <6>1. u \in Tasks /\ InCommand(u) /\ call'[u] = call[u]
                        BY <1>1, <2>7, <5>7
                    <6>2. CASE u = w
                        <7>1. ~call[u].woken
                            BY <5>2, <5>3, <6>1, <6>2 DEF PauseInv, NoteInv
                        <7> QED BY <5>3, <5>5, <6>1, <6>2, <7>1
                    <6>3. CASE u # w
                        <7>1. ~pipe[call[u].pipe].waiting /\ (u \in notified => ~call[u].woken)
                              /\ (u \in notified' => u \in notified)
                            BY <5>2, <5>7, <6>1, <6>3 DEF PauseInv, NoteInv
                        <7>2. call[u].pipe \in Pipes
                            BY <1>1, <6>1, CommandPipe
                        <7> QED BY <2>1, <5>5, <6>1, <7>1, <7>2
                    <6> QED BY <6>2, <6>3
                <5> QED BY <1>1, <3>1, <5>2, <5>4, <5>6, <5>7 DEF PauseInv, NoteInv
            <4>2. CASE ~ChanDoneCommand(p)
                <5>1. UNCHANGED notified
                    BY <2>8, <2>10, <4>2 DEF ChanIgnored, ChanDoneNext, ChanError
                <5>2. \A r \in Pipes : pipe'[r].waiting = pipe[r].waiting
                    BY <2>1, <2>8, <2>10, <4>2 DEF SameFlags
                <5>3. \A u \in PortTasks : InCommand(u) /\ pipe'[call[u].pipe].waiting
                                             => pipe[call[u].pipe].waiting
                    BY <1>1, <5>2, CommandPipe
                <5> QED BY <1>1, <2>7, <3>1, <5>1, <5>3, NoteFrame DEF PauseInv
            <4> QED BY <4>1, <4>2
        <3>4. PauseAt => PipesPause'
            <4> SUFFICES ASSUME PauseAt
                         PROVE  PipesPause'
                OBVIOUS
            <4>1. PipesPause
                BY DEF PauseInv, QuietInv
            <4>2. pipe[p].waiting /\ port.waiting_all
                BY <2>1, <4>1 DEF PipesPause
            <4>3. ~ChanDoneNext(p) /\ ~ChanDoneCommand(p)
                BY <4>2 DEF ChanDoneNext, ChanDoneCommand
            <4>4. /\ \/ pipe'[p] = pipe[p]
                     \/ pipe'[p].state = "HALTED" /\ p \notin hw'
                  /\ pipe'[p].cmd = pipe[p].cmd
                BY <2>1, <2>8, <2>10, <4>3 DEF SameCommand
            <4>5. \A r \in Pipes : pipe'[r].state = "ACTIVE" =>
                        pipe'[r].paused \/ pipe'[r].inflight # NoIrp
                BY <2>1, <4>1, <4>4 DEF PipesPause
            <4>6. \A r \in Pipes : pipe'[r].state # "FREE" => ~pipe'[r].cmd
                BY <2>1, <2>2, <4>1, <4>4 DEF PipesPause, Allocated
            <4>7. \A r \in hw' : pipe'[r].waiting
                BY <2>1, <2>2, <4>1, <4>2, <4>4 DEF PipesPause
            <4>8. Cardinality(hw') <= port.num_waiting
                BY <1>1, <2>3, <2>4, <4>1, <4>2 DEF PipesPause, PortRecord
            <4> QED BY <3>1, <4>2, <4>5, <4>6, <4>7, <4>8 DEF PipesPause, Allocated
        <3> QED BY <1>1, <2>5, <3>2, <3>3, <3>4 DEF PauseInv, QuietInv, PauseAt
    <2> QED BY <2>9, <2>10
<1> QED BY <1>2, <1>3

-----------------------------------------------------------------------------
(* The port *)

\* The interrupts of the port and the bus, but for the interrupt that a command waits for.
LEMMA IsrPlain ==
    ASSUME PortInv, PauseInv, (IsrNext /\ ~IsrDisabledByRequest) \/ BusNext
    PROVE  PlainStep
<1>1. port \in PortRecord /\ hprt \in HprtRecord
    BY DEF PortInv, IInv, RestInv, BusInv
<1>2. CASE BusNext
    BY <1>2 DEF BusNext, Plug, LineUp, LineDown, Unplug, BusEnable, BusError, BusStep, vars,
       PlainStep
<1>3. CASE IsrConnection
    <2>1. hprt'.disable_requested = hprt.disable_requested
        BY <1>1, <1>3 DEF IsrConnection, Event, HprtRecord
    <2> QED BY <1>3, <2>1 DEF IsrConnection, vars, PlainStep
<1>4. CASE IsrDisconnection
    <2>1. hprt'.disable_requested = hprt.disable_requested
        BY <1>1, <1>4 DEF IsrDisconnection, Event, HprtRecord
    <2>2. /\ port'.waiter = port.waiter /\ port'.woken = port.woken
          /\ port'.waiting_all = port.waiting_all /\ port'.num_waiting = port.num_waiting
          /\ port'.state \in {port.state, "RECOVERY"}
        BY <1>1, <1>4 DEF IsrDisconnection, PortRecord
    <2> QED BY <1>4, <2>1, <2>2 DEF IsrDisconnection, PortUnchanged, PlainStep
<1>5. CASE IsrEnabled
    <2>1. /\ port'.waiter = port.waiter /\ port'.woken = port.woken
          /\ port'.waiting_all = port.waiting_all /\ port'.num_waiting = port.num_waiting
          /\ port'.state = "ENABLED"
        BY <1>1, <1>5 DEF IsrEnabled, PortRecord
    <2> QED BY <1>5, <2>1 DEF IsrEnabled, PortUnchanged, PlainStep
<1>6. CASE IsrDisabled
    <2>1. hprt'.disable_requested = hprt.disable_requested
        BY <1>1, <1>6 DEF IsrDisabled, Event, HprtRecord
    <2>2. /\ port'.waiter = port.waiter /\ port'.woken = port.woken
          /\ port'.waiting_all = port.waiting_all /\ port'.num_waiting = port.num_waiting
          /\ port'.state \in {port.state, "DISABLED"}
        BY <1>1, <1>6 DEF IsrDisabled, PortRecord
    <2> QED BY <1>6, <2>1, <2>2 DEF IsrDisabled, PortUnchanged, PlainStep
<1>7. CASE IsrDisabledOrphan
    BY <1>7 DEF IsrDisabledOrphan, Fail, portVars, PlainStep
<1>8. CASE IsrOvercurrent
    <2>1. hprt'.disable_requested = hprt.disable_requested
        BY <1>1, <1>8 DEF IsrOvercurrent, Event, HprtRecord
    <2>2. /\ port'.waiter = port.waiter /\ port'.woken = port.woken
          /\ port'.waiting_all = port.waiting_all /\ port'.num_waiting = port.num_waiting
          /\ port'.state = "NOT_POWERED"
        BY <1>1, <1>8 DEF IsrOvercurrent, PortRecord
    <2> QED BY <1>8, <2>1, <2>2 DEF IsrOvercurrent, PortUnchanged, PlainStep
<1> QED BY <1>2, <1>3, <1>4, <1>5, <1>6, <1>7, <1>8 DEF IsrNext

\* The port functions that neither wait nor walk over the pipes.
LEMMA CallPlain ==
    ASSUME PortInv, NEW t \in Tasks,
           \/ PortInit(t) \/ PortDeinit(t) \/ PortRecover(t)
           \/ PowerOn(t) \/ PowerOff(t) \/ ResetBegin(t) \/ ResumeBegin(t)
           \/ HandleUnpowered(t) \/ HandleDebounce(t)
    PROVE  PlainStep
<1>1. port \in PortRecord /\ hprt \in HprtRecord
    BY DEF PortInv, IInv, RestInv, BusInv
<1>2. CASE PortInit(t) \/ PortDeinit(t) \/ PortRecover(t)
    <2>1. hprt'.disable_requested = hprt.disable_requested
        BY <1>1, <1>2 DEF PortInit, PortDeinit, PortRecover, HprtRecord
    <2>2. \/ UNCHANGED port
          \/ port' = [port EXCEPT !.state = "NOT_POWERED"]
        BY <1>2 DEF PortInit, PortDeinit, PortRecover, vars
    <2>3. /\ port'.waiter = port.waiter /\ port'.woken = port.woken
          /\ port'.waiting_all = port.waiting_all /\ port'.num_waiting = port.num_waiting
          /\ port'.state \in {port.state, "NOT_POWERED"}
        BY <1>1, <2>2 DEF PortRecord
    <2>4. UNCHANGED <<pipe, call, hw, notified, ctl>>
        BY <1>2 DEF PortInit, PortDeinit, PortRecover, vars, PortUnchanged
    <2> QED BY <2>1, <2>3, <2>4 DEF PlainStep
<1>3. ASSUME NEW c, Command(t, c) \/ Handles(t)
      PROVE  /\ ctl.at = "free" /\ port.waiter = NoTask
             /\ t \in PortTasks /\ call[t].op = "none"
    BY <1>3, Called, Handled DEF Command, Handles, CanCall
<1>4. ASSUME NEW s, SetState(s)
      PROVE  /\ port'.waiter = port.waiter /\ port'.woken = port.woken
             /\ port'.waiting_all = port.waiting_all /\ port'.num_waiting = port.num_waiting
             /\ port'.state = s
    BY <1>1, <1>4 DEF SetState, PortRecord
<1>5. CASE PowerOn(t) \/ PowerOff(t)
    BY <1>4, <1>5 DEF PowerOn, PowerOff, TaskUnchanged, PortUnchanged, PlainStep
<1>6. CASE ResetBegin(t) \/ ResumeBegin(t)
    BY <1>3, <1>4, <1>6 DEF ResetBegin, ResumeBegin, Goes, TaskUnchanged, PortUnchanged, PlainStep
<1>7. CASE HandleUnpowered(t) \/ HandleDebounce(t)
    <2>1. hprt'.disable_requested = hprt.disable_requested
        BY <1>1, <1>7 DEF HandleUnpowered, HandleDebounce, Handles, HprtRecord
    <2> QED BY <1>3, <1>4, <1>7, <2>1 DEF HandleUnpowered, HandleDebounce, Goes, PortUnchanged,
            PlainStep
<1> QED BY <1>2, <1>5, <1>6, <1>7

\* The delays of a port function, and its ends.
LEMMA DelayPlain ==
    ASSUME PortInv, InsideInv,
           \/ ResetRelease \/ ResetEnd \/ ResumeRelease \/ ResumeFail \/ Debounced
           \/ ResumePanic \/ InvalidatePanic
    PROVE  PlainStep
<1>1. port \in PortRecord
    BY DEF PortInv, IInv, RestInv
<1>2. CASE ResumePanic \/ InvalidatePanic
    BY <1>2 DEF ResumePanic, UnpauseBusy, InvalidatePanic, InvalidateFreed, Fail, portVars, PlainStep
<1>3. CASE ResetRelease \/ ResetEnd \/ ResumeRelease \/ ResumeFail \/ Debounced
    <2>1. /\ ctl.at \in {"reset_hold", "reset_recovery", "resume_hold", "resume_recovery", "debounce"}
          /\ UNCHANGED <<pipe, call, hw, notified, hprt>>
          /\ \/ ctl' = Free
             \/ ctl' = [task |-> ctl.task, at |-> "reset_recovery"]
             \/ ctl' = [task |-> ctl.task, at |-> "resume_recovery"]
          /\ UNCHANGED port \/ \E s \in {"DISABLED", "DISCONNECTED"} : SetState(s)
        BY <1>3 DEF ResetRelease, ResetEnd, ResumeRelease, ResumeFail, Debounced, TaskUnchanged,
           PortUnchanged, Goes, Leaves
    <2>2. /\ port'.waiter = port.waiter /\ port'.woken = port.woken
          /\ port'.waiting_all = port.waiting_all /\ port'.num_waiting = port.num_waiting
          /\ port'.state \in {port.state, "DISABLED", "DISCONNECTED"}
        BY <1>1, <2>1 DEF SetState, PortRecord
    <2>3. /\ port.waiter = NoTask
          /\ ctl'.at \in {"free", "reset_recovery", "resume_recovery"}
          /\ ctl'.at # "free" => ctl'.task \in PortTasks /\ call[ctl'.task].op = "none"
        BY <2>1 DEF PortInv, PlaceInv, InsideInv, Free
    <2> QED BY <2>1, <2>2, <2>3 DEF PlainStep
<1> QED BY <1>2, <1>3

\* While a task is inside a port function, or enters one, no port task is inside a pipe
\* command: it is the only one.
LEMMA PortTaskAlone ==
    ASSUME OnePortTask, InsideInv, NEW t \in PortTasks, call[t].op = "none" \/ ctl.at # "free"
    PROVE  \A u \in PortTasks : ~InCommand(u)
    BY DEF OnePortTask, InsideInv, InCommand, Blocking

\* What the port task finds when it enters a port function.
LEMMA Enters ==
    ASSUME OnePortTask, PortInv, PauseInv, NEW t \in Tasks, Handles(t) \/ \E c \in PortCmds : Command(t, c)
    PROVE  /\ t \in PortTasks /\ call[t].op = "none"
           /\ ctl.at = "free" /\ port.waiter = NoTask /\ NoWalk
           /\ ~port.waiting_all /\ ~port.woken /\ ~hprt.disable_requested
           /\ \A u \in PortTasks : ~InCommand(u) /\ u \notin notified
<1>1. /\ t \in PortTasks /\ call[t].op = "none"
      /\ ctl.at = "free" /\ port.waiter = NoTask /\ NoWalk
    BY Called, Handled DEF Handles, Command, CanCall
<1>2. /\ ~port.waiting_all /\ ~port.woken /\ ~hprt.disable_requested
    BY <1>1 DEF PauseInv, InsideInv, NoteInv, PauseAt
<1>3. \A u \in PortTasks : ~InCommand(u)
    BY <1>1, PortTaskAlone DEF PauseInv
<1>4. NoTask \notin PortTasks
    BY NullAssumption, PortAssumption
<1>5. \A u \in PortTasks : u \notin notified
    BY <1>1, <1>3, <1>4 DEF PauseInv, NoteInv
<1> QED BY <1>1, <1>2, <1>3, <1>5

\* The notifications after a step of the port: no port task is in a pipe command.
LEMMA PortNotes ==
    ASSUME \A u \in PortTasks : ~InCommand(u), UNCHANGED call,
           \A u \in PortTasks : u \in notified' => port'.waiter = u,
           port'.waiter \in notified' => ~port'.woken,
           port'.waiting_all => port'.waiter \notin notified' /\ ~port'.woken,
           hprt'.disable_requested =>
              ctl'.at = "disable_wait" /\ port'.waiter \notin notified' /\ ~port'.woken
    PROVE  NoteInv'
    BY DEF NoteInv, InCommand

\* The pipes that _port_pause_all_pipes leaves behind.
LEMMA AllPaused ==
    ASSUME PortInv, PausesAll
    PROVE  /\ port.state = "ENABLED" /\ port.conn /\ port.waiter = NoTask
           /\ UNCHANGED <<hw, call, notified, idle, active, inval>>
           /\ \A p \in Pipes :
                 /\ pipe'[p].state = pipe[p].state /\ pipe'[p].inflight = pipe[p].inflight
                 /\ pipe'[p].cmd = pipe[p].cmd
                 /\ pipe'[p].waiting = (pipe[p].waiting \/ p \in InFlightPipes)
                 /\ Allocated(p) => pipe'[p].paused \/ p \in InFlightPipes
<1>1. /\ pipe \in [Pipes -> PipeRecord]
      /\ \A p \in Pipes : Allocated(p) => p \in Elems(idle) \cup Elems(active)
    BY DEF PortInv, IInv, PipeInv, Lists
<1>2. /\ port.state = "ENABLED" /\ port.waiter = NoTask /\ pipe' = PausedPipes
      /\ UNCHANGED <<hw, call, notified, idle, active, inval>>
    BY DEF PausesAll, Steady
<1>3. port.conn
    BY <1>2 DEF PortInv, EnabledHasDevice
<1>4. ASSUME NEW p \in Pipes
      PROVE  /\ pipe'[p].state = pipe[p].state /\ pipe'[p].inflight = pipe[p].inflight
             /\ pipe'[p].cmd = pipe[p].cmd
             /\ pipe'[p].waiting = (pipe[p].waiting \/ p \in InFlightPipes)
             /\ Allocated(p) => pipe'[p].paused \/ p \in InFlightPipes
    <2>1. pipe[p] \in PipeRecord
        BY <1>1
    <2>2. CASE p \in InFlightPipes
        <3>1. pipe'[p] = [pipe[p] EXCEPT !.waiting = TRUE]
            BY <1>2, <2>2 DEF PausedPipes
        <3> QED BY <2>1, <2>2, <3>1 DEF PipeRecord
    <2>3. CASE p \notin InFlightPipes /\ p \in Elems(active) \cup Elems(idle)
        <3>1. pipe'[p] = [pipe[p] EXCEPT !.paused = TRUE]
            BY <1>2, <2>3 DEF PausedPipes
        <3> QED BY <2>1, <2>3, <3>1 DEF PipeRecord
    <2>4. CASE p \notin Elems(active) \cup Elems(idle) /\ p \notin InFlightPipes
        <3>1. pipe'[p] = pipe[p]
            BY <1>2, <2>4 DEF PausedPipes
        <3> QED BY <1>1, <2>1, <2>4, <3>1 DEF PipeRecord
    <2> QED BY <2>2, <2>3, <2>4
<1> QED BY <1>2, <1>3, <1>4

\* The port command waits for the pipes in flight, ...
LEMMA WaitPauses ==
    ASSUME PortTaskRules, PortInv, RuleInv, PauseInv, NEW t \in Tasks,
           SuspendWait(t) \/ DisableWait(t)
    PROVE  PauseInv'
<1>1. \E c \in PortCmds : Command(t, c)
    BY DEF SuspendWait, DisableWait, Command
<1>2. /\ t \in PortTasks /\ call[t].op = "none"
      /\ ctl.at = "free" /\ ~hprt.disable_requested /\ ~port.woken
      /\ \A u \in PortTasks : ~InCommand(u) /\ u \notin notified
    BY <1>1, Enters DEF PortTaskRules
<1>3. /\ PausesAll /\ UNCHANGED hprt
      /\ port' = [port EXCEPT !.waiting_all = TRUE, !.waiter = t,
                              !.num_waiting = Cardinality(InFlightPipes)]
      /\ \E place \in {"suspend_wait", "disable_pause"} : ctl' = [task |-> t, at |-> place]
    BY DEF SuspendWait, DisableWait, PauseAndWait, Goes
<1>4. /\ port'.waiting_all /\ port'.waiter = t /\ ~port'.woken
      /\ port'.num_waiting = Cardinality(InFlightPipes) /\ port'.state = port.state
    BY <1>2, <1>3 DEF PortInv, IInv, RestInv, PortRecord
<1>5. /\ port.state = "ENABLED"
      /\ UNCHANGED <<hw, call, notified, idle, active, inval>>
      /\ \A p \in Pipes :
            /\ pipe'[p].state = pipe[p].state /\ pipe'[p].inflight = pipe[p].inflight
            /\ pipe'[p].cmd = pipe[p].cmd
            /\ pipe'[p].waiting = (pipe[p].waiting \/ p \in InFlightPipes)
            /\ Allocated(p) => pipe'[p].paused \/ p \in InFlightPipes
    BY <1>3, AllPaused
<1>6. InsideInv'
    BY <1>2, <1>3, <1>4, <1>5, PortAssumption, NullAssumption DEF InsideInv, PauseAt
<1>7. NoteInv'
    BY <1>2, <1>3, <1>4, <1>5, PortNotes
<1>8. PipesPause'
    <2>1. \A p \in Pipes : ~pipe[p].cmd
        BY <1>3 DEF PausesAll, Keeps, PortTaskRules
    <2>2. hw \subseteq InFlightPipes /\ Cardinality(hw) <= Cardinality(InFlightPipes)
        BY PipesFinite DEF PortInv
    <2>3. \A p \in hw : p \in Pipes
        BY DEF PortInv, IInv, PipeInv
    <2>4. \A p \in Pipes : pipe'[p].state = "ACTIVE" => pipe'[p].paused \/ pipe'[p].inflight # NoIrp
        BY <1>5 DEF Allocated, InFlightPipes
    <2> QED BY <1>4, <1>5, <2>1, <2>2, <2>3, <2>4 DEF PipesPause
<1>9. SuspendedIsQuiet'
    BY <1>4, <1>5 DEF SuspendedIsQuiet
<1> QED BY <1>6, <1>7, <1>8, <1>9 DEF PauseInv, QuietInv

\* ... or goes on, if there is none.
LEMMA NowPauses ==
    ASSUME PortTaskRules, PortInv, RuleInv, PauseInv, NEW t \in Tasks,
           SuspendNow(t) \/ DisableNow(t)
    PROVE  PauseInv'
<1>1. \E c \in PortCmds : Command(t, c)
    BY DEF SuspendNow, DisableNow, Command
<1>2. /\ t \in PortTasks /\ call[t].op = "none"
      /\ ctl.at = "free" /\ ~hprt.disable_requested /\ ~port.woken
      /\ ~port.waiting_all /\ port.waiter = NoTask
      /\ \A u \in PortTasks : ~InCommand(u) /\ u \notin notified
    BY <1>1, Enters DEF PortTaskRules
<1>3. port \in PortRecord
    BY DEF PortInv, IInv, RestInv
<1>4. CASE SuspendNow(t)
    <2>1. /\ PausesAll /\ InFlightPipes = {} /\ UNCHANGED <<ctl, hprt>>
          /\ port' = [port EXCEPT !.state = "SUSPENDED"]
        BY <1>4 DEF SuspendNow, SetState, portVars
    <2>2. hw = {} /\ UNCHANGED <<hw, call, notified>>
        BY <2>1, PipesFinite, AllPaused DEF PortInv
    <2>3. /\ port'.waiting_all = port.waiting_all /\ port'.waiter = port.waiter
          /\ port'.woken = port.woken
        BY <1>3, <2>1 DEF PortRecord
    <2>4. InsideInv'
        BY <1>2, <2>1, <2>2, <2>3, InsideFrame DEF PauseInv
    <2>5. NoteInv'
        BY <1>2, <2>1, <2>2, <2>3, PortNotes
    <2> QED BY <1>2, <2>1, <2>2, <2>4, <2>5 DEF PauseInv, QuietInv, PauseAt, SuspendedIsQuiet
<1>5. CASE DisableNow(t)
    <2>1. /\ port' = [port EXCEPT !.waiter = t] /\ UNCHANGED <<hw, call, notified>>
          /\ ctl' = [task |-> t, at |-> "disable_wait"]
        BY <1>5 DEF DisableNow, Goes
    <2>2. /\ port'.waiting_all = port.waiting_all /\ port'.waiter = t
          /\ port'.woken = port.woken /\ port'.state = port.state
        BY <1>3, <2>1 DEF PortRecord
    <2>3. InsideInv'
        BY <1>2, <2>1, <2>2 DEF InsideInv, PauseAt
    <2>4. NoteInv'
        BY <1>2, <2>1, <2>2, PortNotes
    <2> QED BY <2>1, <2>2, <2>3, <2>4 DEF PauseInv, QuietInv, PauseAt, SuspendedIsQuiet
<1> QED BY <1>4, <1>5

\* Inside a port function the port task has at most the notification it waits for.
LEMMA Waits ==
    ASSUME OnePortTask, PauseInv, ctl.at # "free"
    PROVE  \A u \in PortTasks : ~InCommand(u) /\ (u \in notified => port.waiter = u)
<1>1. ctl.task \in PortTasks
    BY DEF PauseInv, InsideInv
<1>2. \A u \in PortTasks : ~InCommand(u)
    BY <1>1, PortTaskAlone DEF PauseInv
<1> QED BY <1>2 DEF PauseInv, NoteInv

\* The interrupt that a command waits for: the port is disabled.
LEMMA RequestPauses ==
    ASSUME PortTaskRules, PortInv, PauseInv, IsrDisabledByRequest
    PROVE  PauseInv'
<1>1. port \in PortRecord /\ hprt \in HprtRecord
    BY DEF PortInv, IInv, RestInv, BusInv
<1>2. /\ ctl.at = "disable_wait" /\ ~port.woken /\ ~port.waiting_all
    BY DEF IsrDisabledByRequest, DisabledByRequest, PauseInv, NoteInv, InsideInv, PauseAt
<1>3. /\ port'.waiting_all = port.waiting_all /\ port'.waiter = port.waiter
      /\ port'.woken = port.woken /\ port'.state = "DISABLED"
      /\ ~hprt'.disable_requested /\ notified' = notified \cup {port.waiter}
      /\ UNCHANGED <<pipe, hw, call>> /\ UNCHANGED ctl
    BY <1>1 DEF IsrDisabledByRequest, PortRecord, HprtRecord, Notify, PortUnchanged
<1>4. \A u \in PortTasks : ~InCommand(u) /\ (u \in notified => port.waiter = u)
    BY <1>2, Waits DEF PortTaskRules
<1>5. InsideInv'
    BY <1>3, InsideFrame DEF PauseInv
<1>6. NoteInv'
    BY <1>2, <1>3, <1>4, PortNotes
<1> QED BY <1>2, <1>3, <1>5, <1>6 DEF PauseInv, QuietInv, PauseAt, SuspendedIsQuiet

\* The port task wakes up, ...
LEMMA WakePauses ==
    ASSUME PortTaskRules, PortInv, PauseInv, PortWake, UNCHANGED portVars
    PROVE  PauseInv'
<1>1. port \in PortRecord /\ port.waiter # NoTask /\ port.waiter \in notified
    BY NullAssumption DEF PortInv, IInv, RestInv, PortWake
<1>2. /\ ctl.at # "free" /\ ~port.waiting_all /\ ~hprt.disable_requested
    BY <1>1 DEF PauseInv, NoteInv, PortInv, PlaceInv
<1>3. /\ port'.waiting_all = port.waiting_all /\ port'.waiter = port.waiter
      /\ port'.num_waiting = port.num_waiting
      /\ port'.woken /\ port'.state = port.state
      /\ notified' = notified \ {port.waiter}
      /\ UNCHANGED <<pipe, hw, call>> /\ UNCHANGED <<ctl, hprt>>
    BY <1>1 DEF PortWake, PortRecord, PortUnchanged, portVars
<1>4. \A u \in PortTasks : ~InCommand(u) /\ (u \in notified => port.waiter = u)
    BY <1>2, Waits DEF PortTaskRules
<1>5. InsideInv'
    BY <1>1, <1>3 DEF PauseInv, InsideInv, PauseAt
<1>6. NoteInv'
    BY <1>2, <1>3, <1>4, PortNotes
<1> QED BY <1>3, <1>5, <1>6
        DEF PauseInv, QuietInv, PauseAt, SuspendedIsQuiet, PipesPause, Allocated

\* ... and goes on: the port is suspended, or its disabling is requested, or the command
\* fails.
LEMMA BackPauses ==
    ASSUME PortTaskRules, PortInv, PauseInv, SuspendEnd \/ DisablePaused \/ DisableFail
    PROVE  PauseInv'
<1>1. port \in PortRecord /\ hprt \in HprtRecord
    BY DEF PortInv, IInv, RestInv, BusInv
<1>2. /\ ctl.at \in {"suspend_wait", "disable_pause", "disable_wait"} /\ port.woken
    BY DEF SuspendEnd, DisablePaused, DisableFail, Back
<1>3. /\ ~port.waiting_all /\ port.waiter \notin notified /\ ~hprt.disable_requested
      /\ port.waiter # NoTask /\ port.waiter = ctl.task
      /\ ctl.task \in PortTasks /\ call[ctl.task].op = "none"
    BY <1>2 DEF PauseInv, NoteInv, InsideInv
<1>4. \A u \in PortTasks : ~InCommand(u) /\ u \notin notified
    BY <1>2, <1>3, Waits DEF PortTaskRules
<1>5. UNCHANGED <<pipe, hw, call, notified>>
    BY DEF SuspendEnd, DisablePaused, DisableFail, TaskUnchanged, PortUnchanged
<1>6. NoTask \notin notified
    BY NullAssumption DEF PortInv, IInv, RestInv
<1>7. CASE ctl' = Free
    <2>1. /\ UNCHANGED hprt /\ ctl'.at = "free"
          /\ \/ port' = [port EXCEPT !.waiter = NoTask, !.woken = FALSE]
             \/ /\ port' = [port EXCEPT !.waiter = NoTask, !.woken = FALSE, !.state = "SUSPENDED"]
                /\ PauseAt
        BY <1>1, <1>2, <1>7 DEF SuspendEnd, DisablePaused, DisableFail, TaskUnchanged, Back,
           Goes, Free, PauseAt
    <2>2. /\ port'.waiting_all = port.waiting_all /\ port'.waiter = NoTask /\ ~port'.woken
          /\ port'.state = port.state \/ (port'.state = "SUSPENDED" /\ PauseAt)
        BY <1>1, <2>1 DEF PortRecord
    <2>3. InsideInv'
        BY <1>3, <2>1, <2>2 DEF InsideInv, PauseAt
    <2>4. NoteInv'
        BY <1>3, <1>4, <1>5, <1>6, <2>1, <2>2, PortNotes
    <2>5. PauseAt => hw = {}
        BY <1>3 DEF PauseInv, QuietInv, PipesPause
    <2> QED BY <1>5, <2>1, <2>2, <2>3, <2>4, <2>5
            DEF PauseInv, QuietInv, PauseAt, SuspendedIsQuiet
<1>8. CASE ctl' # Free
    <2>1. /\ port' = [port EXCEPT !.woken = FALSE]
          /\ ctl' = [task |-> ctl.task, at |-> "disable_wait"]
        BY <1>8 DEF SuspendEnd, DisablePaused, DisableFail, Leaves, Goes
    <2>2. /\ port'.waiting_all = port.waiting_all /\ port'.waiter = port.waiter /\ ~port'.woken
          /\ port'.state = port.state
        BY <1>1, <2>1 DEF PortRecord
    <2>3. InsideInv'
        BY <1>3, <1>5, <2>1, <2>2 DEF InsideInv, PauseAt
    <2>4. NoteInv'
        BY <1>3, <1>4, <1>5, <2>1, <2>2, PortNotes
    <2> QED BY <1>5, <2>1, <2>2, <2>3, <2>4
            DEF PauseInv, QuietInv, PauseAt, SuspendedIsQuiet
<1> QED BY <1>7, <1>8

\* The port resumes: no task waits for it.
LEMMA ResumePauses ==
    ASSUME PortTaskRules, PortInv, PauseInv, ResumeEnd
    PROVE  PauseInv'
<1>1. /\ ctl.at = "resume_recovery" /\ ctl' = Free /\ UNCHANGED hprt /\ UnpauseAll
    BY DEF ResumeEnd, Leaves
<1>2. /\ port.waiter = NoTask /\ UNCHANGED <<call, notified>>
      /\ port' = [port EXCEPT !.state = "ENABLED"]
    BY <1>1 DEF UnpauseAll, Resuming
<1>3. /\ port'.waiting_all = port.waiting_all /\ port'.waiter = NoTask
      /\ port'.woken = port.woken /\ port'.state = "ENABLED"
    BY <1>2 DEF PortInv, IInv, RestInv, PortRecord
<1>4. /\ ~port.waiting_all /\ ~port.woken /\ ~hprt.disable_requested
    BY <1>1, <1>2 DEF PauseInv, InsideInv, NoteInv, PauseAt
<1>5. \A u \in PortTasks : ~InCommand(u) /\ u \notin notified
    BY <1>1, <1>2, Waits, PortAssumption, NullAssumption DEF PortTaskRules
<1>6. ctl'.at = "free"
    BY <1>1 DEF Free
<1>7. InsideInv'
    BY <1>3, <1>4, <1>6 DEF InsideInv, PauseAt
<1>8. NoteInv'
    BY <1>1, <1>2, <1>3, <1>4, <1>5, PortNotes
<1> QED BY <1>3, <1>6, <1>7, <1>8 DEF PauseInv, QuietInv, PauseAt, SuspendedIsQuiet

\* What the walk over the pipes does to a pipe.
Walks(p) ==
    /\ SameFlags(pipe[p], pipe'[p]) /\ pipe'[p].cmd = pipe[p].cmd
    /\ \/ pipe'[p] = pipe[p] /\ (p \in hw => p \in hw')
       \/ Allocated(p) /\ pipe'[p].state = "INVALID"

\* A step of the walk stops channels, and wakes up only tasks that are inside a pipe
\* command.
LEMMA VisitMoves ==
    ASSUME IInv, CommandExclusive, NEW v, Visit(v),
           v.cur # NoPipe => v.cur \in Pipes /\ Allocated(v.cur)
    PROVE  /\ hw' \subseteq hw /\ UNCHANGED call
           /\ \A u \in notified' : u \in notified \/ InCommand(u)
           /\ \A p \in Pipes : Walks(p)
<1>1. UNCHANGED call
    BY DEF Visit
<1>2. CASE v.cur = NoPipe
    BY <1>1, <1>2 DEF Visit, Walks, SameFlags
<1>3. CASE v.cur # NoPipe
    <2>1. PICK p \in Pipes : p = v.cur
        BY <1>3
    <2>2. pipe[p] \in PipeRecord /\ pipe \in [Pipes -> PipeRecord] /\ Allocated(p)
        BY <1>3, <2>1 DEF IInv, PipeInv
    <2>3. PICK q : q = Invalidated(pipe[p])
        OBVIOUS
    <2>4. /\ q.waiter = pipe[p].waiter /\ q.cmd = pipe[p].cmd /\ q \in PipeRecord
          /\ SameFlags(pipe[p], q) /\ q.state = "INVALID"
          /\ SameFlags(pipe[p], Emptied(q)) /\ Emptied(q).state = "INVALID"
          /\ Emptied(q).cmd = q.cmd
        <3>1. /\ SameCommand(pipe[p], q) /\ q \in PipeRecord
            BY <2>2, <2>3, InvalidatedOk DEF Allocated, SameKind
        <3>2. SameCommand(q, Emptied(q))
            BY <3>1, EmptiedOk
        <3>3. /\ SameFlags(pipe[p], q) /\ q.state = "INVALID"
              /\ SameFlags(pipe[p], Emptied(q)) /\ Emptied(q).state = "INVALID"
            BY <2>2, <2>3, EmptiedFlags DEF Allocated
        <3> QED BY <3>1, <3>2, <3>3 DEF SameCommand
    <2>5. ASSUME NEW R \in {q, Emptied(q)}, pipe' = [pipe EXCEPT ![p] = R], hw \ {p} \subseteq hw'
          PROVE  \A r \in Pipes : Walks(r)
        <3>1. pipe'[p] = R /\ \A r \in Pipes : r # p => pipe'[r] = pipe[r]
            BY <2>2, <2>5
        <3>2. Walks(p)
            BY <2>2, <2>4, <2>5, <3>1 DEF Walks
        <3> QED BY <2>5, <3>1, <3>2 DEF Walks, SameFlags
    <2>6. CASE InvalidateActive(p)
        <3>1. /\ pipe' = [pipe EXCEPT ![p] = Emptied(q)] /\ hw' = hw \ {p}
              /\ IF q.waiter = NoTask THEN UNCHANGED notified
                                      ELSE notified' = notified \cup {q.waiter}
            BY <2>3, <2>6 DEF InvalidateActive, Notify
        <3>2. q.waiter # NoTask => InCommand(q.waiter)
            BY <2>2, <2>4, PipeWaiter
        <3> QED BY <1>1, <2>5, <3>1, <3>2
    <2>7. CASE InvalidateIdle(p)
        <3>1. pipe' = [pipe EXCEPT ![p] = q] /\ UNCHANGED <<hw, notified>>
            BY <2>3, <2>7 DEF InvalidateIdle
        <3> QED BY <1>1, <2>5, <3>1
    <2> QED BY <1>3, <2>1, <2>6, <2>7 DEF Visit
<1> QED BY <1>2, <1>3

LEMMA WalkMoves ==
    ASSUME IInv, CommandExclusive, InvalidateBegin \/ InvalidateNext
    PROVE  /\ hw' \subseteq hw /\ UNCHANGED call
           /\ \A u \in notified' : u \in notified \/ InCommand(u)
           /\ \A p \in Pipes : Walks(p)
<1>1. Elems(idle) \cup Elems(active) = {p \in Pipes : Allocated(p)}
    BY DEF IInv, PipeInv, Lists
<1>2. ASSUME NEW ph \in {"active", "idle"}, NEW c,
             c # NoPipe => c \in Elems(idle) \cup Elems(active)
      PROVE  LET v == WalkTo(ph, c)
             IN  v.cur # NoPipe => v.cur \in Pipes /\ Allocated(v.cur)
    <2>1. First(idle) # NoPipe => First(idle) \in Elems(idle)
        BY WalkReaches
    <2> QED BY <1>1, <1>2, <2>1 DEF WalkTo
<1>3. CASE InvalidateBegin
    <2>1. PICK v : v = WalkTo("active", First(active))
        OBVIOUS
    <2>2. First(active) # NoPipe => First(active) \in Elems(idle) \cup Elems(active)
        BY WalkReaches
    <2>3. v.cur # NoPipe => v.cur \in Pipes /\ Allocated(v.cur)
        BY <1>2, <2>1, <2>2
    <2>4. Visit(v)
        BY <1>3, <2>1 DEF InvalidateBegin
    <2> QED BY <2>3, <2>4, VisitMoves
<1>4. CASE InvalidateNext
    <2>1. PICK v : v = WalkTo(inval.phase, Successor(inval.cur))
        OBVIOUS
    <2>2. inval.cur \in Pipes /\ Allocated(inval.cur) /\ inval.phase \in {"active", "idle"}
        BY <1>4 DEF IInv, RestInv, InvalidateNext, NoWalk
    <2>3. Successor(inval.cur) # NoPipe =>
             Successor(inval.cur) \in Elems(idle) \cup Elems(active)
        BY <2>2, WalkReaches
    <2>4. v.cur # NoPipe => v.cur \in Pipes /\ Allocated(v.cur)
        BY <1>2, <2>1, <2>2, <2>3
    <2>5. Visit(v)
        BY <1>4, <2>1 DEF InvalidateNext
    <2> QED BY <2>4, <2>5, VisitMoves
<1> QED BY <1>3, <1>4

\* The walk over the pipes notifies no port task.
LEMMA WalkPauses ==
    ASSUME PortTaskRules, PortInv, CommandExclusive, PauseInv,
           DisableEnd \/ InvalidateStep \/ \E t \in Tasks : HandleLoss(t)
    PROVE  PauseInv'
<1>1. /\ port \in PortRecord /\ hprt \in HprtRecord /\ IInv /\ NoTask \notin PortTasks
    BY PortAssumption, NullAssumption DEF PortInv, IInv, RestInv, BusInv
<1>2. /\ InvalidateBegin \/ InvalidateNext
      /\ hprt'.disable_requested = hprt.disable_requested
      /\ ctl.at \in {"disable_wait", "invalidate"} \/ \E t \in Tasks : HandleLoss(t)
    BY <1>1 DEF DisableEnd, InvalidateStep, HandleLoss, Handles, HprtRecord, Back
<1>3. PICK t \in PortTasks : /\ call[t].op = "none"
                             /\ ctl' \in {ctl, Free, [task |-> t, at |-> "invalidate"]}
                             /\ ctl' = ctl => ctl.at \in {"free", "invalidate"}
    <2>1. CASE \E u \in Tasks : HandleLoss(u)
        <3>1. PICK u \in Tasks : HandleLoss(u)
            BY <2>1
        <3>2. /\ u \in PortTasks /\ call[u].op = "none" /\ ctl.at = "free"
            BY <3>1, Enters DEF HandleLoss, PortTaskRules
        <3>3. ctl' \in {ctl, [task |-> u, at |-> "invalidate"]}
            BY <3>1 DEF HandleLoss, Goes
        <3> QED BY <3>2, <3>3
    <2>2. CASE DisableEnd \/ InvalidateStep
        <3>1. /\ ctl.at \in {"disable_wait", "invalidate"} /\ WalkGoesOn
              /\ ctl \in [task : Tasks \cup {NoTask}, at : Places]
            BY <2>2 DEF DisableEnd, InvalidateStep, Back, PortInv, PlaceInv
        <3>2. /\ ctl.task \in PortTasks /\ call[ctl.task].op = "none"
            BY <3>1 DEF PauseInv, InsideInv
        <3>3. ctl' \in {Free, [task |-> ctl.task, at |-> "invalidate"]}
            BY <3>1 DEF WalkGoesOn, Leaves, Goes
        <3>4. ctl' = ctl => ctl.at \in {"free", "invalidate"}
            BY <3>3 DEF Free
        <3> QED BY <3>2, <3>3, <3>4
    <2> QED BY <2>1, <2>2
<1>4. /\ port.waiter = NoTask \/ port.woken
      /\ ~port.waiting_all /\ ~hprt.disable_requested
      /\ \A u \in PortTasks : ~InCommand(u) /\ u \notin notified
    <2>1. CASE \E u \in Tasks : HandleLoss(u)
        BY <2>1, Enters DEF HandleLoss, PortTaskRules
    <2>2. CASE DisableEnd
        <3>1. ctl.at = "disable_wait" /\ port.woken
            BY <2>2 DEF DisableEnd, Back
        <3>2. \A u \in PortTasks : ~InCommand(u) /\ (u \in notified => port.waiter = u)
            BY <3>1, Waits DEF PortTaskRules
        <3> QED BY <3>1, <3>2 DEF PauseInv, NoteInv, InsideInv, PauseAt
    <2>3. CASE InvalidateStep
        <3>1. ctl.at = "invalidate" /\ port.waiter = NoTask
            BY <2>3 DEF InvalidateStep, PortInv, PlaceInv
        <3>2. \A u \in PortTasks : ~InCommand(u) /\ (u \in notified => port.waiter = u)
            BY <3>1, Waits DEF PortTaskRules
        <3> QED BY <1>1, <3>1, <3>2 DEF PauseInv, NoteInv, InsideInv, PauseAt
    <2> QED BY <2>1, <2>2, <2>3
<1>5. /\ port'.waiter = NoTask /\ ~port'.woken /\ port'.waiting_all = port.waiting_all
      /\ port'.state = port.state
    <2>1. CASE InvalidateBegin
        BY <1>1, <2>1 DEF InvalidateBegin, PortRecord
    <2>2. CASE InvalidateNext
        <3>1. UNCHANGED port /\ port.waiter = NoTask
            BY <2>2 DEF InvalidateNext, PortInv, PlaceInv, NoWalk
        <3> QED BY <3>1 DEF PauseInv, InsideInv
    <2> QED BY <1>2, <2>1, <2>2
<1>6. /\ hw' \subseteq hw /\ UNCHANGED call
      /\ \A u \in notified' : u \in notified \/ InCommand(u)
    BY <1>1, <1>2, WalkMoves
<1>7. ctl'.at \in {"free", "invalidate"}
      /\ (ctl'.at # "free" => ctl'.task \in PortTasks /\ call[ctl'.task].op = "none")
    BY <1>3 DEF Free, PauseInv, InsideInv
<1>8. InsideInv'
    BY <1>4, <1>5, <1>6, <1>7 DEF InsideInv, PauseAt
<1>9. NoteInv'
    <2>1. notified \subseteq Tasks /\ NoTask \notin Tasks
        BY NullAssumption DEF PortInv, IInv, RestInv
    <2>2. \A u \in PortTasks : u \notin notified'
        BY <1>4, <1>6
    <2> QED BY <1>2, <1>4, <1>5, <1>6, <2>2, PortNotes
<1> QED BY <1>5, <1>6, <1>7, <1>8, <1>9 DEF PauseInv, QuietInv, PauseAt, SuspendedIsQuiet

\* Every step.
LEMMA NextPauses ==
    ASSUME PortTaskRules, PortInv, RuleInv, CommandExclusive, PauseInv, [Next]_allVars
    PROVE  PauseInv'
<1>1. CASE UNCHANGED allVars
    <2>1. PlainStep
        BY <1>1 DEF PlainStep, allVars, vars, portVars
    <2> QED BY <2>1, PlainPauses
<1>2. ASSUME NEW t \in Tasks, CallPort(t)
      PROVE  PauseInv'
    <2>1. CASE SuspendWait(t) \/ DisableWait(t) \/ SuspendNow(t) \/ DisableNow(t)
        BY <2>1, WaitPauses, NowPauses
    <2>2. CASE HandleLoss(t)
        BY <2>2, WalkPauses
    <2>3. CASE ~HandleLoss(t) /\ ~(SuspendWait(t) \/ DisableWait(t) \/ SuspendNow(t) \/ DisableNow(t))
        <3>1. PlainStep
            BY <1>2, <2>3, CallPlain DEF CallPort
        <3> QED BY <3>1, PlainPauses
    <2> QED BY <2>1, <2>2, <2>3
<1>3. ASSUME InPort
      PROVE  PauseInv'
    <2>1. ASSUME \/ ResetRelease \/ ResetEnd \/ ResumeRelease \/ ResumeFail \/ Debounced
                 \/ ResumePanic \/ InvalidatePanic
          PROVE  PauseInv'
        <3>1. PlainStep
            BY <2>1, DelayPlain DEF PauseInv
        <3> QED BY <3>1, PlainPauses
    <2>2. ASSUME \/ PortWake /\ UNCHANGED portVars
                 \/ SuspendEnd \/ DisablePaused \/ DisableFail \/ ResumeEnd
                 \/ DisableEnd \/ InvalidateStep
          PROVE  PauseInv'
        BY <2>2, WakePauses, BackPauses, ResumePauses, WalkPauses
    <2> QED BY <1>3, <2>1, <2>2 DEF InPort
<1>4. ASSUME IsrNext \/ BusNext
      PROVE  PauseInv'
    <2>1. CASE IsrDisabledByRequest
        BY <2>1, RequestPauses
    <2>2. CASE ~IsrDisabledByRequest
        <3>1. PlainStep
            BY <1>4, <2>2, IsrPlain
        <3> QED BY <3>1, PlainPauses
    <2> QED BY <2>1, <2>2
<1>5. ASSUME NEW t \in Tasks, t # ctl.task, ClientStep(t), UNCHANGED portVars
      PROVE  PauseInv'
    BY <1>5, ClientPauses
<1>6. ASSUME NEW p \in Pipes, ChanStep(p), UNCHANGED portVars
      PROVE  PauseInv'
    BY <1>6, ChanPauses
<1> QED BY <1>1, <1>2, <1>3, <1>4, <1>5, <1>6 DEF Next

LEMMA InitPauses ==
    ASSUME Init
    PROVE  PauseInv
<1>1. /\ ctl.at = "free" /\ notified = {} /\ hw = {} /\ port.state = "NOT_POWERED"
      /\ ~hprt.disable_requested /\ \A t \in Tasks : call[t].op = "none"
    BY DEF Init, PipeInit, Free, IdleCall
<1>2. port.waiter = NoTask /\ ~port.woken /\ ~port.waiting_all
    <2>1. PICK s \in {"ENABLED", "NOT_POWERED"} :
             port = [state |-> s, conn |-> s = "ENABLED", waiting_all |-> FALSE,
                     num_waiting |-> 0, waiter |-> NoTask, woken |-> FALSE]
        BY DEF Init, PipeInit
    <2> QED BY <2>1
<1>3. \A t \in PortTasks : ~InCommand(t)
    BY <1>1, PortAssumption DEF InCommand, Blocking
<1> QED BY <1>1, <1>2, <1>3 DEF PauseInv, InsideInv, NoteInv, QuietInv, PauseAt, SuspendedIsQuiet

\* The pause invariant holds below a port with one task whose clients keep the rules.
THEOREM PauseInvariant ==
    ASSUME PortTaskRules
    PROVE  Spec => []PauseInv
<1>1. Init => PauseInv
    BY InitPauses
<1>2. PortInv /\ RuleInv /\ CommandExclusive /\ PauseInv /\ [Next]_allVars => PauseInv'
    BY NextPauses
<1>3. Spec => []RuleInv
    <2>1. Spec => PipeSpec
        BY PortSimulates DEF IsPipeSpec
    <2>2. ClientRules
        BY DEF PortTaskRules
    <2> QED BY <2>1, <2>2, RuleInvariant, PTL
<1>4. Spec => []CommandExclusive
    <2>1. Spec => PipeSpec
        BY PortSimulates DEF IsPipeSpec
    <2> QED BY <2>1, CommandsExclusive, PTL
<1> QED BY <1>1, <1>2, <1>3, <1>4, PortInvariant, PTL DEF Spec

\* A suspended port executes nothing: when the port command goes on, every channel that
\* ran when it began to wait has reported, and none was started since, although clients,
\* interrupts and notifications come in any order.
THEOREM SuspendedQuiet ==
    ASSUME PortTaskRules
    PROVE  Spec => []SuspendedIsQuiet
<1>1. PauseInv => SuspendedIsQuiet
    BY DEF PauseInv, QuietInv
<1> QED BY <1>1, PauseInvariant, PTL

-----------------------------------------------------------------------------
(* The port counts the pipes it waits for *)

\* The rules of PortTaskRules, a bus reset before the first pipe, and no failing transfer.
CountRules == PortTaskRules /\ "fresh" \in Rules /\ ErrorEvents = {}

Waiting == {p \in Pipes : pipe[p].waiting}

\* A pipe of a connected device waits only for its transfer, which a channel executes, and
\* on behalf of a pipe command or of the port.
PipeCounts(p) ==
    /\ pipe[p].state = "FREE" => ~pipe[p].waiting
    /\ Valid(p) /\ pipe[p].waiting => pipe[p].inflight # NoIrp
    /\ Valid(p) /\ pipe[p].inflight # NoIrp /\ port.conn => p \in hw
    /\ pipe[p].waiting /\ port.conn => pipe[p].cmd \/ port.waiting_all

\* While the port waits, each pipe that waits has an IRP in flight, and is counted.
CountInv ==
    /\ port.state = "RESETTING" => NoPipes
    /\ \A p \in Pipes : PipeCounts(p)
    /\ port.waiting_all => /\ \A p \in Waiting : pipe[p].inflight # NoIrp
                           /\ port.num_waiting = Cardinality(Waiting)

\* A pipe counts as it did: it still waits for a transfer, or still does not.
Like(p) ==
    /\ pipe'[p].waiting <=> pipe[p].waiting
    /\ pipe'[p].cmd = pipe[p].cmd
    /\ Valid(p)' <=> Valid(p)
    /\ pipe'[p].state = "FREE" <=> pipe[p].state = "FREE"
    /\ \/ pipe'[p].inflight = pipe[p].inflight /\ (p \in hw => p \in hw')
       \/ pipe'[p].inflight # NoIrp /\ p \in hw'

\* A pipe that was waited for by no port command waits no more.
Relaxed(p) ==
    /\ ~pipe'[p].waiting
    /\ ~Valid(p)' \/ pipe'[p].inflight = NoIrp
    /\ pipe[p].inflight = NoIrp \/ (Allocated(p) /\ pipe[p].cmd)

LEMMA LikeCounts ==
    ASSUME NEW p \in Pipes, PipeCounts(p), Like(p),
           port'.conn => port.conn, port.waiting_all => port'.waiting_all
    PROVE  PipeCounts(p)'
    BY DEF PipeCounts, Like, SameFlags, Valid

\* A step that leaves the pipes as they are, for the count.
LEMMA AllLike ==
    ASSUME CountInv, \A p \in Pipes : Like(p),
           port'.conn => port.conn, port'.waiting_all = port.waiting_all,
           port'.num_waiting = port.num_waiting,
           port'.state = "RESETTING" => NoPipes'
    PROVE  CountInv'
<1>1. \A p \in Pipes : PipeCounts(p)'
    BY LikeCounts DEF CountInv
<1>2. Waiting' = Waiting
    BY DEF Waiting, Like, SameFlags
<1>3. port'.waiting_all => \A p \in Waiting' : pipe'[p].inflight # NoIrp
    BY <1>2 DEF CountInv, Waiting, Like
<1> QED BY <1>1, <1>2, <1>3 DEF CountInv

\* While no pipe is routed through the port, there is nothing to count.
LEMMA NoneCounts ==
    ASSUME IInv, CountInv, NoPipes, UNCHANGED <<pipe, idle, active>>,
           port'.waiting_all = port.waiting_all,
           port'.num_waiting = port.num_waiting
    PROVE  CountInv'
<1>1. \A p \in Pipes : pipe[p].state = "FREE"
    BY DEF IInv, PipeInv, Lists, NoPipes, Elems, Allocated
<1>2. \A p \in Pipes : ~pipe[p].waiting
    BY <1>1 DEF CountInv, PipeCounts
<1>3. \A p \in Pipes : PipeCounts(p)'
    BY <1>1, <1>2 DEF PipeCounts, Valid
<1>4. Waiting' = Waiting /\ NoPipes'
    BY DEF Waiting, NoPipes
<1>5. \A p \in Waiting' : pipe'[p].inflight # NoIrp
    BY <1>2 DEF Waiting
<1> QED BY <1>3, <1>4, <1>5 DEF CountInv

\* The pipes that the port waits for are among those with an IRP in flight.
LEMMA WaitingFinite ==
    ASSUME IInv, RuleInv, CountInv, port.waiting_all
    PROVE  /\ IsFiniteSet(Waiting) /\ Cardinality(Waiting) \in Nat
<1>1. \A p \in Waiting : p \in InFlightPipes
    BY BusyIsActive DEF CountInv, Waiting, InFlightPipes
<1>2. IsFiniteSet(Waiting)
    BY <1>1, PipesFinite, FS_Subset
<1> QED BY <1>2, FS_CardinalityType

\* A pipe command leaves a valid pipe valid.
LEMMA CommandedValid ==
    ASSUME NEW q \in PipeRecord, NEW c \in Blocking, q.state \in {"ACTIVE", "HALTED"}
    PROVE  Commanded(q, c).state \in {"ACTIVE", "HALTED"}
<1>1. CASE c = "ABORT"
    BY <1>1, RetireOk DEF Commanded
<1>2. CASE c = "RESET"
    <2>1. PICK r : r = Retire(q)
        OBVIOUS
    <2>2. r \in PipeRecord
        BY <2>1, RetireOk DEF SameKind
    <2>3. Commanded(q, c) = [r EXCEPT !.state = "ACTIVE"]
        BY <1>2, <2>1 DEF Commanded
    <2> QED BY <2>2, <2>3 DEF PipeRecord
<1>3. CASE c = "HALT"
    BY <1>3 DEF Commanded, PipeRecord
<1> QED BY <1>1, <1>2, <1>3 DEF Blocking

\* A pipe command that ends leaves its pipe waiting, if it was.
Ends(t, p) ==
    /\ InCommand(t) /\ Valid(p) /\ Valid(p)' /\ p \notin hw
    /\ Allocated(p) /\ pipe[p].cmd
    /\ SameFlags(pipe[p], pipe'[p]) /\ pipe'[p].inflight = pipe[p].inflight

\* What a client does to a pipe, as far as the count is concerned.
LEMMA ClientCounts ==
    ASSUME IInv, CommandExclusive, NEW t \in Tasks, ClientStep(t)
    PROVE  \/ UNCHANGED <<pipe, hw>>
           \/ \E p \in Pipes :
                 /\ \A r \in Pipes : r # p => pipe'[r] = pipe[r]
                 /\ hw \ {p} \subseteq hw'
                 /\ \/ Like(p) \/ Relaxed(p) \/ Ends(t, p)
                    \/ \E c \in Blocking : CommandBlock(t, p, c)
<1> DEFINE Only(p) == /\ \A r \in Pipes : r # p => pipe'[r] = pipe[r]
                      /\ hw \ {p} \subseteq hw'
           Goal == \/ UNCHANGED <<pipe, hw>>
                   \/ \E p \in Pipes :
                         /\ Only(p)
                         /\ \/ Like(p) \/ Relaxed(p) \/ Ends(t, p)
                            \/ \E c \in Blocking : CommandBlock(t, p, c)
<1>1. call \in [Tasks -> CallRecord] /\ pipe \in [Pipes -> PipeRecord]
    BY DEF IInv, RestInv, PipeInv
<1>2. ASSUME NEW p \in Pipes, \/ \E i \in Irps : EnqueueCheck(t, p, i)
                              \/ DequeueMisplaced(t, p) \/ ClearBusy(t, p)
      PROVE  Goal
    BY <1>2 DEF EnqueueCheck, DequeueMisplaced, ClearBusy, Fail
<1>3. ASSUME NEW p \in Pipes, Dequeue(t, p) \/ GetEvent(t, p)
      PROVE  Goal
    <2>1. PICK d, e : \/ pipe' = [pipe EXCEPT ![p].done = d]
                      \/ pipe' = [pipe EXCEPT ![p].last_event = e]
        BY <1>3 DEF Dequeue, GetEvent
    <2>2. \A r \in Pipes : r # p => pipe'[r] = pipe[r]
        BY <1>1, <2>1
    <2>3. UNCHANGED hw
        BY <1>3 DEF Dequeue, GetEvent
    <2>4. /\ pipe'[p].waiting = pipe[p].waiting /\ pipe'[p].cmd = pipe[p].cmd
          /\ pipe'[p].state = pipe[p].state /\ pipe'[p].inflight = pipe[p].inflight
        BY <1>1, <2>1 DEF PipeRecord
    <2>5. Like(p)
        BY <2>3, <2>4 DEF Like, Valid
    <2> QED BY <2>2, <2>3, <2>5
<1>4. ASSUME NEW i \in Irps, AbortIrp(t, i)
      PROVE  Goal
    <2>1. PICK p \in Pipes : p = irp[i].ptr
        BY <1>4 DEF AbortIrp, IInv, PipeInv, PendingPlaced
    <2>2. PICK d, e : pipe' = [pipe EXCEPT ![p].pending = d, ![p].done = e]
        BY <1>4, <2>1 DEF AbortIrp
    <2>3. \A r \in Pipes : r # p => pipe'[r] = pipe[r]
        BY <1>1, <2>2
    <2>4. UNCHANGED hw
        BY <1>4 DEF AbortIrp
    <2>5. Like(p)
        BY <1>1, <2>2, <2>4 DEF PipeRecord, Like, SameFlags, Valid
    <2> QED BY <2>3, <2>4, <2>5
<1>5. ASSUME NEW p \in Pipes, Alloc(t, p) \/ FreePipe(t, p)
      PROVE  Goal
    <2>1. PICK s, a : pipe' = [pipe EXCEPT ![p] = NewPipe(s, a)]
        BY <1>5 DEF Alloc, FreePipe
    <2>2. Queue(pipe[p]) = <<>> /\ UNCHANGED hw
        BY <1>5 DEF Alloc, FreePipe, IInv, PipeInv, FreeIsEmpty, Allocated
    <2>3. pipe[p].inflight = NoIrp
        BY <1>1, <2>2, QueueEmpty
    <2>4. ~pipe'[p].waiting /\ pipe'[p].inflight = NoIrp
        BY <1>1, <2>1 DEF NewPipe
    <2>5. \A r \in Pipes : r # p => pipe'[r] = pipe[r]
        BY <1>1, <2>1
    <2> QED BY <2>2, <2>3, <2>4, <2>5 DEF Relaxed
<1>6. ASSUME NEW p \in Pipes, NEW a \in Addrs, Update(t, p, a)
      PROVE  Goal
    <2>1. pipe' = [pipe EXCEPT ![p].addr = a] /\ UNCHANGED hw
        BY <1>6 DEF Update
    <2>2. \A r \in Pipes : r # p => pipe'[r] = pipe[r]
        BY <1>1, <2>1
    <2>3. Like(p)
        BY <1>1, <2>1 DEF PipeRecord, Like, SameFlags, Valid
    <2> QED BY <2>1, <2>2, <2>3
<1>7. ASSUME NEW p \in Pipes, NEW c \in Blocking, CommandNow(t, p, c)
      PROVE  Goal
    <2>1. pipe' = [pipe EXCEPT ![p] = Commanded(pipe[p], c)] /\ UNCHANGED hw
        BY <1>7 DEF CommandNow
    <2>2. pipe[p].state \in {"ACTIVE", "HALTED"} /\ pipe[p] \in PipeRecord
        BY <1>1, <1>7 DEF CommandNow, CommandAllowed, Allocated, PipeRecord
    <2>3. PICK r : r = Commanded(pipe[p], c)
        OBVIOUS
    <2>4. /\ SameFlags(pipe[p], r) /\ SameCommand(pipe[p], r) /\ r.inflight = pipe[p].inflight
          /\ r.state \in {"ACTIVE", "HALTED"}
        BY <2>2, <2>3, CommandedOk, CommandedFlags, CommandedValid
    <2>5. pipe'[p] = r /\ \A x \in Pipes : x # p => pipe'[x] = pipe[x]
        BY <1>1, <2>1, <2>3
    <2>6. Like(p)
        BY <2>1, <2>2, <2>4, <2>5 DEF Like, SameCommand, SameFlags, Valid
    <2> QED BY <2>1, <2>5, <2>6
<1>8. ASSUME NEW p \in Pipes, NEW c \in Blocking, CommandBlock(t, p, c)
      PROVE  Goal
    <2>1. UNCHANGED hw /\ \A r \in Pipes : r # p => pipe'[r] = pipe[r]
        BY <1>1, <1>8 DEF CommandBlock
    <2> QED BY <1>8, <2>1
<1>9. ASSUME NEW p \in Pipes, CommandClear(t, p)
      PROVE  Goal
    <2>1. pipe[p] \in PipeRecord /\ pipe[p].state = "HALTED"
        BY <1>1, <1>9 DEF CommandClear
    <2>2. CASE HasNext(pipe[p])
        <3>1. PICK r : r = TakeNext(pipe[p])
            OBVIOUS
        <3>2. /\ r \in PipeRecord /\ SameFlags(pipe[p], r) /\ SameCommand(pipe[p], r)
              /\ r.inflight # NoIrp
            BY <2>1, <2>2, <3>1, TakeNextOk, TakeNextFlags, NullAssumption DEF HasNext, SameKind
        <3>3. PICK x : x = [r EXCEPT !.state = "ACTIVE"]
            OBVIOUS
        <3>4. /\ x.state = "ACTIVE" /\ x.waiting = r.waiting /\ x.paused = r.paused
              /\ x.cmd = r.cmd /\ x.inflight = r.inflight
            BY <3>2, <3>3 DEF PipeRecord
        <3>5. pipe' = [pipe EXCEPT ![p] = x] /\ hw' = hw \cup {p}
            BY <1>9, <2>2, <3>1, <3>3 DEF CommandClear
        <3>6. pipe'[p] = x /\ \A y \in Pipes : y # p => pipe'[y] = pipe[y]
            BY <1>1, <3>5
        <3>7. Like(p)
            BY <2>1, <3>2, <3>4, <3>5, <3>6 DEF Like, SameFlags, SameCommand, Valid
        <3> QED BY <3>5, <3>6, <3>7
    <2>3. CASE ~HasNext(pipe[p])
        <3>1. pipe' = [pipe EXCEPT ![p].state = "ACTIVE"] /\ UNCHANGED hw
            BY <1>9, <2>3 DEF CommandClear
        <3>2. \A y \in Pipes : y # p => pipe'[y] = pipe[y]
            BY <1>1, <3>1
        <3>3. Like(p)
            BY <1>1, <2>1, <3>1 DEF PipeRecord, Like, SameFlags, Valid
        <3> QED BY <3>1, <3>2, <3>3
    <2> QED BY <2>2, <2>3
<1>10. ASSUME EnqueueFreed(t) \/ ResumeFreed(t) \/ ResumeRunning(t) \/ ResumeBusy(t)
              \/ EnqueueReject(t) \/ CommandWake(t)
       PROVE  Goal
    BY <1>10 DEF EnqueueFreed, ResumeFreed, ResumeRunning, ResumeBusy, EnqueueReject,
       CommandWake, Fail
<1>11. ASSUME EnqueueStart(t)
       PROVE  Goal
    <2>1. PICK p \in Pipes : p = call[t].pipe
        BY <1>11 DEF EnqueueStart, Enqueuing, IInv, RestInv
    <2>2. PICK i : i = call[t].irp
        OBVIOUS
    <2>3. i \in Irps
        BY <1>11, <2>2 DEF EnqueueStart, Enqueuing, IInv, RestInv
    <2>4. pipe' = [pipe EXCEPT ![p].inflight = i] /\ hw' = hw \cup {p}
        BY <1>11, <2>1, <2>2 DEF EnqueueStart
    <2>5. \A y \in Pipes : y # p => pipe'[y] = pipe[y]
        BY <1>1, <2>4
    <2>6. Like(p)
        BY <1>1, <2>3, <2>4, NullAssumption DEF PipeRecord, Like, SameFlags, Valid
    <2> QED BY <2>4, <2>5, <2>6
<1>12. ASSUME EnqueuePend(t)
       PROVE  Goal
    <2>1. PICK p \in Pipes : p = call[t].pipe
        BY <1>12 DEF EnqueuePend, Enqueuing, IInv, RestInv
    <2>2. PICK d : pipe' = [pipe EXCEPT ![p].pending = d]
        BY <1>12, <2>1 DEF EnqueuePend
    <2>3. UNCHANGED hw /\ \A r \in Pipes : r # p => pipe'[r] = pipe[r]
        BY <1>1, <1>12, <2>2 DEF EnqueuePend
    <2>4. Like(p)
        BY <1>1, <2>2, <2>3 DEF PipeRecord, Like, SameFlags, Valid
    <2> QED BY <2>3, <2>4
<1>13. ASSUME ResumeInvalid(t) \/ ResumeDone(t)
       PROVE  Goal
    <2>1. PICK p \in Pipes : p = call[t].pipe
        BY <1>13, CommandPipe DEF ResumeInvalid, ResumeDone, Resumes
    <2>2. InCommand(t) /\ Allocated(p) /\ pipe[p] \in PipeRecord /\ UNCHANGED hw
        BY <1>1, <1>13, <2>1 DEF ResumeInvalid, ResumeDone, Resumes, Valid, Allocated
    <2>3. pipe[p].cmd
        BY <2>1, <2>2 DEF CommandExclusive
    <2>4. CASE ResumeInvalid(t)
        <3>1. /\ pipe' = [pipe EXCEPT ![p] = [pipe[p] EXCEPT !.waiter = NoTask, !.waiting = FALSE,
                                                            !.cmd = FALSE]]
              /\ pipe[p].state = "INVALID"
            BY <2>1, <2>4 DEF ResumeInvalid
        <3>2. \A r \in Pipes : r # p => pipe'[r] = pipe[r]
            BY <1>1, <3>1
        <3>3. ~pipe'[p].waiting /\ pipe'[p].state = "INVALID"
            BY <1>1, <2>2, <3>1 DEF PipeRecord
        <3> QED BY <2>2, <2>3, <3>2, <3>3 DEF Relaxed, Valid
    <2>5. CASE ResumeDone(t)
        <3>1. PICK c \in Blocking : c = call[t].op
            BY <2>2 DEF InCommand
        <3>2. pipe[p].state \in {"ACTIVE", "HALTED"} /\ p \notin hw
            BY <2>1, <2>5 DEF ResumeDone, Valid
        <3>3. PICK r : r = Commanded(pipe[p], c)
            OBVIOUS
        <3>4. /\ SameFlags(pipe[p], r) /\ r \in PipeRecord /\ r.inflight = pipe[p].inflight
              /\ r.state \in {"ACTIVE", "HALTED"}
            BY <2>2, <3>2, <3>3, CommandedOk, CommandedFlags, CommandedValid DEF SameKind
        <3>5. PICK x : x = [r EXCEPT !.waiter = NoTask, !.cmd = FALSE]
            OBVIOUS
        <3>6. /\ x.waiting = r.waiting /\ x.paused = r.paused /\ x.state = r.state
              /\ x.inflight = r.inflight
            BY <3>4, <3>5 DEF PipeRecord
        <3>7. pipe' = [pipe EXCEPT ![p] = x]
            BY <2>1, <2>5, <3>1, <3>3, <3>5 DEF ResumeDone
        <3>8. pipe'[p] = x /\ \A y \in Pipes : y # p => pipe'[y] = pipe[y]
            BY <1>1, <3>7
        <3>9. Ends(t, p)
            BY <2>2, <2>3, <3>2, <3>4, <3>6, <3>8 DEF Ends, SameFlags, Valid
        <3> QED BY <2>2, <3>8, <3>9
    <2> QED BY <1>13, <2>4, <2>5
<1> HIDE DEF Goal
<1>14. Goal
    <2>1. CASE CallStep(t)
        BY <1>10, <1>11, <1>12, <1>13, <2>1 DEF CallStep
    <2>2. CASE ~CallStep(t)
        BY <1>2, <1>3, <1>4, <1>5, <1>6, <1>7, <1>8, <1>9, <2>2 DEF ClientStep
    <2> QED BY <2>1, <2>2
<1> QED BY <1>14 DEF Goal

\* The clients keep the count.
LEMMA ClientKeepsCount ==
    ASSUME PortTaskRules, PortInv, CommandExclusive, PauseInv, CountInv,
           NEW t \in Tasks, ClientStep(t), [PipeNext]_vars
    PROVE  CountInv'
<1>1. /\ UNCHANGED port /\ IInv /\ "turns" \in Rules /\ pipe \in [Pipes -> PipeRecord]
    BY ClientLeavesPort DEF PortInv, PortTaskRules, IInv, PipeInv
<1>2. port'.state = "RESETTING" => NoPipes'
    BY <1>1, NoPipesStay DEF CountInv
<1>3. port.waiting_all => PipesPause /\ ~Steady
    BY DEF PauseInv, InsideInv, QuietInv, Steady
<1>4. CASE UNCHANGED <<pipe, hw>>
    BY <1>1, <1>2, <1>4, AllLike DEF Like, SameFlags, Valid
<1>5. CASE ~(UNCHANGED <<pipe, hw>>)
    <2>1. PICK p \in Pipes :
             /\ \A r \in Pipes : r # p => pipe'[r] = pipe[r]
             /\ hw \ {p} \subseteq hw'
             /\ \/ Like(p) \/ Relaxed(p) \/ Ends(t, p)
                \/ \E c \in Blocking : CommandBlock(t, p, c)
        BY <1>1, <1>5, ClientCounts
    <2>2. \A r \in Pipes : r # p => Like(r)
        BY <2>1 DEF Like, SameFlags, Valid
    <2>3. CASE Like(p)
        BY <1>1, <1>2, <2>2, <2>3, AllLike
    <2>4. ASSUME PipeCounts(p)',
                 port.waiting_all => /\ pipe'[p].waiting <=> pipe[p].waiting
                                     /\ pipe'[p].inflight = pipe[p].inflight \/ ~pipe[p].waiting
          PROVE  CountInv'
        <3>1. \A r \in Pipes : PipeCounts(r)'
            BY <1>1, <2>2, <2>4, LikeCounts DEF CountInv
        <3>2. port.waiting_all => Waiting' = Waiting
            BY <2>1, <2>4 DEF Waiting
        <3>3. port.waiting_all => \A r \in Waiting' : pipe'[r].inflight # NoIrp
            BY <2>1, <2>4, <3>2 DEF CountInv, Waiting
        <3> QED BY <1>1, <1>2, <3>1, <3>2, <3>3 DEF CountInv
    <2>5. CASE Relaxed(p)
        <3>1. PipeCounts(p)'
            BY <2>5 DEF Relaxed, PipeCounts
        <3>2. port.waiting_all => ~pipe[p].waiting
            BY <1>3, <2>5 DEF Relaxed, PipesPause, CountInv, Waiting
        <3> QED BY <2>4, <2>5, <3>1, <3>2 DEF Relaxed
    <2>6. CASE Ends(t, p)
        <3>1. port.conn => ~pipe[p].waiting
            BY <2>6 DEF Ends, CountInv, PipeCounts
        <3>2. PipeCounts(p)'
            BY <1>1, <2>1, <2>6, <3>1 DEF Ends, CountInv, PipeCounts, SameFlags, Valid
        <3>3. ~port.waiting_all
            BY <1>3, <2>6 DEF Ends, PipesPause
        <3> QED BY <2>4, <3>2, <3>3
    <2>7. ASSUME NEW c \in Blocking, CommandBlock(t, p, c)
          PROVE  CountInv'
        <3>1. /\ pipe' = [pipe EXCEPT ![p].cmd = TRUE, ![p].waiting = TRUE, ![p].waiter = t]
              /\ UNCHANGED hw /\ pipe[p].inflight # NoIrp /\ Steady /\ Allocated(p)
            BY <1>1, <2>7 DEF CommandBlock, CommandAllowed, Keeps
        <3>2. /\ pipe'[p].cmd /\ pipe'[p].state = pipe[p].state
              /\ pipe'[p].inflight = pipe[p].inflight
            BY <1>1, <3>1 DEF PipeRecord
        <3>3. PipeCounts(p)'
            BY <1>1, <3>1, <3>2 DEF CountInv, PipeCounts, Valid, Allocated
        <3> QED BY <1>3, <2>4, <3>1, <3>3
    <2> QED BY <2>1, <2>3, <2>5, <2>6, <2>7
<1> QED BY <1>4, <1>5

\* So does the interrupt of a channel: the port waits for one pipe less when a pipe that it
\* waits for has reported, and for none when it was the last.
LEMMA ChanKeepsCount ==
    ASSUME CountRules, PortInv, RuleInv, CountInv, NEW p \in Pipes, ChanStep(p)
    PROVE  CountInv'
<1>1. IInv /\ port \in PortRecord /\ ErrorEvents = {}
    BY DEF PortInv, IInv, RestInv, CountRules
<1>2. UNCHANGED <<idle, active>>
    BY DEF ChanStep, ChanIgnored, ChanDoneNext, ChanDoneOrphan, ChanDonePause,
       ChanDoneCommand, ChanError, Fail
<1>3. CASE Fail("no_waiter")
    BY <1>3, AllLike DEF Fail, Like, SameFlags, Valid, CountInv, NoPipes
<1>4. CASE ~Fail("no_waiter")
    <2>1. /\ p \in hw
          /\ port'.state = port.state /\ port'.conn = port.conn
          /\ \A r \in Pipes : r # p => pipe'[r] = pipe[r]
          /\ SameCommand(pipe[p], pipe'[p])
          /\ hw \ {p} \subseteq hw'
          /\ \/ ChanIgnored(p) /\ pipe'[p] = pipe[p] /\ UNCHANGED port
             \/ /\ ChanDoneNext(p) /\ UNCHANGED port
                /\ SameFlags(pipe[p], pipe'[p]) /\ pipe'[p].state = pipe[p].state
                /\ pipe'[p].inflight # NoIrp => p \in hw'
             \/ /\ ChanDonePause(p)
                /\ ~pipe'[p].waiting
                /\ pipe'[p].state = pipe[p].state /\ pipe'[p].inflight = NoIrp
             \/ /\ ChanDoneCommand(p) /\ UNCHANGED port
                /\ ~pipe'[p].waiting
                /\ pipe'[p].state = pipe[p].state /\ pipe'[p].inflight = NoIrp
        BY <1>1, <1>4, ChanMoves
    <2>2. port'.state = "RESETTING" => NoPipes'
        BY <1>2, <2>1 DEF CountInv, NoPipes
    <2>3. \A r \in Pipes : r # p => Like(r)
        BY <2>1 DEF Like, SameFlags, Valid
    <2>4. PipeCounts(p)'
        <3>1. CASE ChanIgnored(p) /\ pipe'[p] = pipe[p]
            <4>1. ~port.conn
                BY <3>1 DEF ChanIgnored
            <4> QED BY <2>1, <3>1, <4>1 DEF CountInv, PipeCounts, Valid
        <3>2. CASE /\ ChanDoneNext(p)
                   /\ SameFlags(pipe[p], pipe'[p])
                   /\ pipe'[p].inflight # NoIrp => p \in hw'
            <4>1. ~pipe'[p].waiting
                BY <3>2 DEF ChanDoneNext, SameFlags
            <4> QED BY <3>2, <4>1 DEF PipeCounts
        <3>3. CASE ~pipe'[p].waiting /\ pipe'[p].inflight = NoIrp
            BY <3>3 DEF PipeCounts
        <3> QED BY <2>1, <3>1, <3>2, <3>3
    <2>5. CASE UNCHANGED port
        <3>1. \A r \in Pipes : PipeCounts(r)'
            BY <2>3, <2>4, <2>5, LikeCounts DEF CountInv
        <3>2. port.waiting_all => pipe'[p] = pipe[p] \/ (~pipe[p].waiting /\ ~pipe'[p].waiting)
            <4>1. port.waiting_all => ~ChanDoneCommand(p)
                BY DEF ChanDoneCommand
            <4>2. ~ChanDonePause(p)
                <5> SUFFICES ASSUME ChanDonePause(p)
                             PROVE  FALSE
                    OBVIOUS
                <5>1. port' = [port EXCEPT !.num_waiting = port.num_waiting - 1,
                                           !.waiting_all = ~(port.num_waiting = 1)]
                    BY DEF ChanDonePause
                <5>2. port'.num_waiting = port.num_waiting - 1 /\ port.num_waiting \in Nat
                    BY <1>1, <5>1 DEF PortRecord
                <5> QED BY <2>5, <5>2
            <4>3. ChanDoneNext(p) => ~pipe[p].waiting
                BY DEF ChanDoneNext
            <4> QED BY <2>1, <4>1, <4>2, <4>3 DEF SameFlags
        <3>3. port.waiting_all => Waiting' = Waiting
            BY <2>1, <3>2 DEF Waiting
        <3>4. port.waiting_all => \A r \in Waiting' : pipe'[r].inflight # NoIrp
            BY <2>1, <3>2, <3>3 DEF CountInv, Waiting
        <3> QED BY <2>2, <2>5, <3>1, <3>3, <3>4 DEF CountInv
    <2>6. CASE ~(UNCHANGED port)
        <3>1. /\ ChanDonePause(p) /\ ~pipe'[p].waiting
            BY <2>1, <2>6
        <3>2. /\ port' = [port EXCEPT !.num_waiting = port.num_waiting - 1,
                                     !.waiting_all = ~(port.num_waiting = 1)]
              /\ port.waiting_all /\ pipe[p].waiting
            BY <3>1 DEF ChanDonePause
        <3>3. /\ port'.num_waiting = port.num_waiting - 1
              /\ port'.waiting_all = (port.num_waiting # 1)
            BY <1>1, <3>2 DEF PortRecord
        <3>4. Waiting' = Waiting \ {p} /\ p \in Waiting
            BY <2>1, <3>1, <3>2 DEF Waiting
        <3>5. IsFiniteSet(Waiting) /\ Cardinality(Waiting) \in Nat
            BY <1>1, <3>2, WaitingFinite
        <3>6. /\ IsFiniteSet(Waiting') /\ Cardinality(Waiting') \in Nat
              /\ Cardinality(Waiting') = Cardinality(Waiting) - 1
            BY <3>4, <3>5, FS_RemoveElement, FS_CardinalityType
        <3>7. /\ port'.num_waiting = Cardinality(Waiting')
              /\ ~port'.waiting_all => Waiting' = {}
            <4>1. port.num_waiting = Cardinality(Waiting)
                BY <3>2 DEF CountInv
            <4>2. ASSUME port.num_waiting = 1
                  PROVE  Waiting' = {}
                <5>1. Cardinality(Waiting') = 0
                    BY <3>5, <3>6, <4>1, <4>2
                <5> QED BY <3>6, <5>1, FS_EmptySet
            <4> QED BY <3>3, <3>5, <3>6, <4>1, <4>2
        <3>8. ASSUME NEW r \in Pipes, r # p
              PROVE  PipeCounts(r)'
            <4>1. pipe'[r].waiting => port'.waiting_all
                BY <3>7, <3>8 DEF Waiting
            <4>2. pipe'[r] = pipe[r] /\ PipeCounts(r) /\ (r \in hw => r \in hw')
                BY <2>1, <3>8 DEF CountInv
            <4> QED BY <2>1, <4>1, <4>2 DEF PipeCounts, Valid
        <3>9. \A r \in Waiting' : pipe'[r].inflight # NoIrp
            BY <2>1, <3>2, <3>4 DEF CountInv, Waiting
        <3>10. \A r \in Pipes : PipeCounts(r)'
            BY <2>4, <3>8
        <3> QED BY <2>2, <3>7, <3>9, <3>10 DEF CountInv
    <2> QED BY <2>5, <2>6
<1> QED BY <1>3, <1>4

\* A step that leaves pipes, channels and lists alone, whatever it does to the port.
SparesPipes ==
    /\ UNCHANGED <<pipe, hw, idle, active>>
    /\ port'.waiting_all = port.waiting_all /\ port'.num_waiting = port.num_waiting
    /\ port'.conn => port.conn \/ port.state = "RESETTING"
    /\ port'.state = "RESETTING" => NoPipes

LEMMA StillCounts ==
    ASSUME IInv, CountInv, SparesPipes
    PROVE  CountInv'
<1>1. CASE port.state = "RESETTING"
    BY <1>1, NoneCounts DEF CountInv, SparesPipes
<1>2. CASE port.state # "RESETTING"
    <2>1. \A p \in Pipes : Like(p)
        BY DEF SparesPipes, Like, SameFlags, Valid
    <2>2. port'.state = "RESETTING" => NoPipes'
        BY DEF SparesPipes, NoPipes
    <2> QED BY <1>2, <2>1, <2>2, AllLike DEF SparesPipes
<1> QED BY <1>1, <1>2

\* The interrupts of the port and the bus: a device appears only on a port that was reset.
LEMMA IsrStill ==
    ASSUME PortInv, CountInv, IsrNext \/ BusNext
    PROVE  SparesPipes
<1>1. port \in PortRecord
    BY DEF PortInv, IInv, RestInv
<1>2. port.state = "RESETTING" => NoPipes
    BY DEF CountInv
<1>3. CASE BusNext
    BY <1>2, <1>3 DEF BusNext, Plug, LineUp, LineDown, Unplug, BusEnable, BusError, BusStep,
       vars, SparesPipes
<1>4. CASE IsrConnection \/ IsrDisabledOrphan
    BY <1>2, <1>4 DEF IsrConnection, IsrDisabledOrphan, Fail, vars, SparesPipes
<1>5. CASE IsrEnabled
    <2>1. port.state = "RESETTING"
        BY <1>5 DEF IsrEnabled, Changes, PortInv, BusInv, Enables
    <2>2. port' = [port EXCEPT !.state = "ENABLED", !.conn = TRUE]
          /\ UNCHANGED <<pipe, hw, idle, active>>
        BY <1>5 DEF IsrEnabled, PortUnchanged
    <2> QED BY <1>1, <2>1, <2>2 DEF PortRecord, SparesPipes
<1>6. CASE IsrDisconnection \/ IsrDisabled \/ IsrDisabledByRequest \/ IsrOvercurrent
    <2>1. /\ UNCHANGED <<pipe, hw, idle, active>>
          /\ \/ UNCHANGED port
             \/ port' = [port EXCEPT !.conn = FALSE]
             \/ \E s \in {"RECOVERY", "DISABLED", "NOT_POWERED"} :
                   port' = [port EXCEPT !.state = s, !.conn = FALSE]
        BY <1>1, <1>6 DEF IsrDisconnection, IsrDisabled, IsrDisabledByRequest, IsrOvercurrent,
           PortUnchanged, PortRecord
    <2>2. /\ port'.waiting_all = port.waiting_all /\ port'.num_waiting = port.num_waiting
          /\ port'.conn => port.conn
          /\ port'.state = "RESETTING" => port.state = "RESETTING"
        BY <1>1, <2>1 DEF PortRecord
    <2> QED BY <1>2, <2>1, <2>2 DEF SparesPipes
<1> QED BY <1>3, <1>4, <1>5, <1>6 DEF IsrNext

\* The port functions, as long as they pause, resume and invalidate no pipe.
LEMMA TaskStill ==
    ASSUME CountRules, PortInv, CountInv,
           \/ \E t \in Tasks : CallPort(t) /\ ~SuspendNow(t) /\ ~SuspendWait(t) /\ ~DisableWait(t)
                               /\ ~DisableNow(t) /\ ~HandleLoss(t)
           \/ InPort /\ ~ResumeEnd /\ ~DisableEnd /\ ~InvalidateStep
    PROVE  SparesPipes
<1>1. port \in PortRecord
    BY DEF PortInv, IInv, RestInv
<1>2. /\ port'.conn = port.conn
      /\ port'.state = "RESETTING" =>
             port.state = "RESETTING" \/ \E t \in Tasks : ResetBegin(t)
    BY TaskMoves
<1>3. port'.state = "RESETTING" => NoPipes
    BY <1>2 DEF CountInv, CountRules, ResetBegin, Keeps
<1>4. ASSUME NEW t \in Tasks, CallPort(t), ~SuspendNow(t), ~SuspendWait(t), ~DisableWait(t),
             ~DisableNow(t), ~HandleLoss(t)
      PROVE  /\ UNCHANGED <<pipe, hw, idle, active>>
             /\ UNCHANGED port \/ \E s : SetState(s)
    <2>1. CASE PortInit(t) \/ PortDeinit(t) \/ PortRecover(t)
        BY <2>1 DEF PortInit, PortDeinit, PortRecover, PortUnchanged, vars, SetState
    <2>2. CASE PowerOn(t) \/ PowerOff(t) \/ ResetBegin(t) \/ ResumeBegin(t)
        BY <2>2 DEF PowerOn, PowerOff, ResetBegin, ResumeBegin, TaskUnchanged, PortUnchanged
    <2>3. CASE HandleUnpowered(t) \/ HandleDebounce(t)
        BY <2>3 DEF HandleUnpowered, HandleDebounce, PortUnchanged
    <2> QED BY <1>4, <2>1, <2>2, <2>3 DEF CallPort
<1>5. ASSUME InPort, ~ResumeEnd, ~DisableEnd, ~InvalidateStep
      PROVE  /\ UNCHANGED <<pipe, hw, idle, active>>
             /\ \/ UNCHANGED port
                \/ \E s : SetState(s)
                \/ port' = [port EXCEPT !.woken = TRUE]
                \/ port' = [port EXCEPT !.woken = FALSE]
                \/ \E s : port' = [port EXCEPT !.waiter = NoTask, !.woken = FALSE, !.state = s]
    <2>1. CASE ResetRelease \/ ResetEnd \/ ResumeRelease \/ ResumeFail
        BY <2>1 DEF ResetRelease, ResetEnd, ResumeRelease, ResumeFail, TaskUnchanged,
           PortUnchanged
    <2>2. CASE PortWake \/ SuspendEnd
        BY <2>2 DEF PortWake, SuspendEnd, TaskUnchanged, PortUnchanged
    <2>3. CASE ResumePanic \/ InvalidatePanic
        BY <2>3 DEF ResumePanic, UnpauseBusy, InvalidatePanic, InvalidateFreed, Fail
    <2>4. CASE DisablePaused \/ DisableFail \/ Debounced
        <3>1. UNCHANGED <<pipe, hw, idle, active>>
            BY <2>4 DEF DisablePaused, DisableFail, Debounced, TaskUnchanged, PortUnchanged
        <3>2. CASE Debounced
            BY <3>1, <3>2 DEF Debounced
        <3>3. CASE DisablePaused \/ DisableFail
            <4>1. \/ port' = [port EXCEPT !.woken = FALSE]
                  \/ port' = [port EXCEPT !.waiter = NoTask, !.woken = FALSE]
                BY <3>3 DEF DisablePaused, DisableFail
            <4>2. [port EXCEPT !.waiter = NoTask, !.woken = FALSE]
                     = [port EXCEPT !.waiter = NoTask, !.woken = FALSE, !.state = port.state]
                BY <1>1 DEF PortRecord
            <4> QED BY <3>1, <4>1, <4>2
        <3> QED BY <2>4, <3>2, <3>3
    <2> QED BY <1>5, <2>1, <2>2, <2>3, <2>4 DEF InPort
<1>6. /\ UNCHANGED <<pipe, hw, idle, active>>
      /\ \/ UNCHANGED port
         \/ \E s : SetState(s)
         \/ port' = [port EXCEPT !.woken = TRUE]
         \/ port' = [port EXCEPT !.woken = FALSE]
         \/ \E s : port' = [port EXCEPT !.waiter = NoTask, !.woken = FALSE, !.state = s]
    BY <1>4, <1>5
<1>7. port'.waiting_all = port.waiting_all /\ port'.num_waiting = port.num_waiting
    BY <1>1, <1>6 DEF SetState, PortRecord
<1> QED BY <1>2, <1>3, <1>6, <1>7 DEF SparesPipes

\* The port pauses its pipes: it counts those that it makes wait, since no other one waits.
LEMMA PauseCounts ==
    ASSUME CountRules, PortInv, PauseInv, CountInv, NEW t \in Tasks,
           SuspendNow(t) \/ SuspendWait(t) \/ DisableWait(t) \/ DisableNow(t)
    PROVE  CountInv'
<1>1. port \in PortRecord /\ pipe \in [Pipes -> PipeRecord] /\ IInv
    BY DEF PortInv, IInv, RestInv, PipeInv
<1>2. CASE PausesAll
    <2>1. /\ port.state = "ENABLED" /\ port.conn /\ port.waiter = NoTask
          /\ UNCHANGED <<hw, idle, active>>
          /\ \A p \in Pipes :
                /\ pipe'[p].state = pipe[p].state /\ pipe'[p].inflight = pipe[p].inflight
                /\ pipe'[p].cmd = pipe[p].cmd
                /\ pipe'[p].waiting = (pipe[p].waiting \/ p \in InFlightPipes)
        BY <1>2, AllPaused
    <2>2. ~port.waiting_all
        BY <2>1 DEF PauseInv, InsideInv
    <2>3. \A p \in Pipes : ~pipe[p].waiting
        <3>1. \A p \in Pipes : ~pipe[p].cmd
            BY <1>2 DEF PausesAll, Keeps, CountRules, PortTaskRules
        <3> QED BY <2>1, <2>2, <3>1 DEF CountInv, PipeCounts
    <2>4. CASE SuspendWait(t) \/ DisableWait(t)
        <3>1. /\ port' = [port EXCEPT !.waiting_all = TRUE, !.waiter = t,
                                      !.num_waiting = Cardinality(InFlightPipes)]
            BY <2>4 DEF SuspendWait, DisableWait, PauseAndWait
        <3>2. /\ port'.waiting_all /\ port'.num_waiting = Cardinality(InFlightPipes)
              /\ port'.state = "ENABLED"
            BY <1>1, <2>1, <3>1 DEF PortRecord
        <3>3. \A p \in Pipes : pipe'[p].waiting <=> p \in InFlightPipes
            BY <2>1, <2>3
        <3>4. InFlightPipes \subseteq Pipes /\ \A p \in InFlightPipes : pipe[p].inflight # NoIrp
            BY <1>1 DEF InFlightPipes, IInv, PipeInv, Lists
        <3>5. Waiting' = InFlightPipes
            BY <3>3, <3>4 DEF Waiting
        <3>6. ASSUME NEW p \in Pipes
              PROVE  PipeCounts(p)'
            <4>1. PipeCounts(p)
                BY DEF CountInv
            <4>2. pipe[p].inflight # NoIrp => pipe[p].state # "FREE"
                BY <1>1, QueueEmpty DEF IInv, PipeInv, FreeIsEmpty, Allocated
            <4> QED BY <2>1, <3>2, <3>3, <3>4, <4>1, <4>2 DEF PipeCounts, Valid
        <3>7. \A p \in Waiting' : pipe'[p].inflight # NoIrp
            BY <2>1, <3>4, <3>5
        <3> QED BY <3>2, <3>5, <3>6, <3>7 DEF CountInv
    <2>5. CASE SuspendNow(t) \/ DisableNow(t)
        <3>1. /\ port' = [port EXCEPT !.state = "SUSPENDED"] \/ port' = [port EXCEPT !.waiter = t]
              /\ InFlightPipes = {}
            BY <2>1, <2>5 DEF SuspendNow, DisableNow, SetState
        <3>2. /\ port'.waiting_all = port.waiting_all /\ port'.num_waiting = port.num_waiting
              /\ port'.conn = port.conn /\ port'.state # "RESETTING"
            BY <1>1, <2>1, <3>1 DEF PortRecord
        <3>3. \A p \in Pipes : Like(p)
            BY <2>1, <3>1 DEF Like, Valid
        <3> QED BY <3>2, <3>3, AllLike
    <2> QED BY <2>4, <2>5
<1>3. CASE ~PausesAll
    <2>1. /\ port' = [port EXCEPT !.waiter = t] /\ port.state = "SUSPENDED"
          /\ UNCHANGED <<pipe, hw, idle, active>>
        BY <1>3 DEF SuspendNow, SuspendWait, DisableWait, DisableNow, PauseAndWait
    <2>2. SparesPipes
        BY <1>1, <2>1 DEF PortRecord, SparesPipes
    <2> QED BY <1>1, <2>2, StillCounts
<1> QED BY <1>2, <1>3

\* The port resumes its pipes.
LEMMA ResumeCounts ==
    ASSUME PortInv, CountInv, UnpauseAll
    PROVE  CountInv'
<1>1. port \in PortRecord /\ pipe \in [Pipes -> PipeRecord]
    BY DEF PortInv, IInv, RestInv, PipeInv
<1>2. PICK starts : starts = {p \in Elems(active) : HasNext(pipe[p])}
    OBVIOUS
<1>3. /\ pipe' = [p \in Pipes |-> Unpaused(p)] /\ hw' = hw \cup starts
      /\ port' = [port EXCEPT !.state = "ENABLED"] /\ UNCHANGED <<idle, active>>
    BY <1>2 DEF UnpauseAll
<1>4. ASSUME NEW p \in Pipes
      PROVE  Like(p)
    <2>1. PICK q : q = [pipe[p] EXCEPT !.paused = FALSE]
        OBVIOUS
    <2>2. /\ q \in PipeRecord /\ q.waiting = pipe[p].waiting /\ q.cmd = pipe[p].cmd
          /\ q.state = pipe[p].state /\ q.inflight = pipe[p].inflight
          /\ q.pending = pipe[p].pending
        BY <1>1, <2>1 DEF PipeRecord
    <2>3. pipe'[p] = IF p \in Elems(active) /\ HasNext(q) THEN TakeNext(q) ELSE q
        BY <1>3, <2>1 DEF Unpaused
    <2>4. CASE p \in Elems(active) /\ HasNext(q)
        <3>1. /\ TakeNext(q).state = q.state /\ TakeNext(q).inflight # NoIrp
              /\ SameCommand(q, TakeNext(q)) /\ SameFlags(q, TakeNext(q))
            BY <2>2, <2>4, TakeNextOk, TakeNextFlags, NullAssumption DEF HasNext
        <3>2. p \in hw'
            BY <1>2, <1>3, <2>2, <2>4 DEF HasNext
        <3> QED BY <2>2, <2>3, <2>4, <3>1, <3>2 DEF Like, SameCommand, SameFlags, Valid
    <2>5. CASE ~(p \in Elems(active) /\ HasNext(q))
        BY <1>3, <2>2, <2>3, <2>5 DEF Like, Valid
    <2> QED BY <2>4, <2>5
<1>5. /\ port'.waiting_all = port.waiting_all /\ port'.num_waiting = port.num_waiting
      /\ port'.conn = port.conn /\ port'.state # "RESETTING"
    BY <1>1, <1>3 DEF PortRecord
<1> QED BY <1>4, <1>5, AllLike

\* The walk over the pipes begins when the port waits for none.
LEMMA WalkCounts ==
    ASSUME PortInv, CommandExclusive, PauseInv, CountInv,
           InvalidateBegin \/ InvalidateNext, ~port.waiting_all
    PROVE  CountInv'
<1>1. port \in PortRecord /\ IInv
    BY DEF PortInv, IInv, RestInv
<1>2. \A p \in Pipes : Walks(p)
    BY <1>1, WalkMoves
<1>3. /\ port'.waiting_all = port.waiting_all /\ port'.conn = port.conn
      /\ port'.state = port.state /\ UNCHANGED <<idle, active>>
    BY <1>1 DEF InvalidateBegin, InvalidateNext, Visit, PortRecord
<1>4. ASSUME NEW p \in Pipes
      PROVE  PipeCounts(p)'
    <2>1. PipeCounts(p) /\ Walks(p)
        BY <1>2 DEF CountInv
    <2> QED BY <1>3, <2>1 DEF PipeCounts, Walks, SameFlags, Valid
<1> QED BY <1>3, <1>4 DEF CountInv, NoPipes

LEMMA NextCounts ==
    ASSUME CountRules, PortInv, RuleInv, CommandExclusive, PauseInv, CountInv, [Next]_allVars
    PROVE  CountInv'
<1>1. IInv /\ [PipeNext]_vars /\ PortTaskRules
    BY NextKeepsPort DEF PortInv, CountRules
<1>2. CASE UNCHANGED allVars
    <2>1. SparesPipes
        BY <1>2 DEF SparesPipes, CountInv, allVars, vars
    <2> QED BY <1>1, <2>1, StillCounts
<1>3. ASSUME IsrNext \/ BusNext
      PROVE  CountInv'
    BY <1>1, <1>3, IsrStill, StillCounts
<1>4. ASSUME NEW t \in Tasks, CallPort(t)
      PROVE  CountInv'
    <2>1. CASE SuspendNow(t) \/ SuspendWait(t) \/ DisableWait(t) \/ DisableNow(t)
        BY <2>1, PauseCounts
    <2>2. CASE HandleLoss(t)
        <3>1. ~port.waiting_all
            BY <1>1, <2>2, Enters DEF HandleLoss, PortTaskRules
        <3> QED BY <2>2, <3>1, WalkCounts DEF HandleLoss
    <2>3. CASE ~SuspendNow(t) /\ ~SuspendWait(t) /\ ~DisableWait(t) /\ ~DisableNow(t)
               /\ ~HandleLoss(t)
        <3>1. SparesPipes
            BY <1>4, <2>3, TaskStill
        <3> QED BY <1>1, <3>1, StillCounts
    <2> QED BY <2>1, <2>2, <2>3
<1>5. ASSUME InPort
      PROVE  CountInv'
    <2>1. CASE ResumeEnd
        BY <2>1, ResumeCounts DEF ResumeEnd
    <2>2. CASE DisableEnd \/ InvalidateStep
        <3>1. ctl.at \in {"disable_wait", "invalidate"}
            BY <2>2 DEF DisableEnd, InvalidateStep, Back
        <3>2. ~port.waiting_all
            BY <3>1 DEF PauseInv, InsideInv, PauseAt
        <3> QED BY <2>2, <3>2, WalkCounts DEF DisableEnd, InvalidateStep
    <2>3. CASE ~ResumeEnd /\ ~DisableEnd /\ ~InvalidateStep
        <3>1. SparesPipes
            BY <1>5, <2>3, TaskStill
        <3> QED BY <1>1, <3>1, StillCounts
    <2> QED BY <2>1, <2>2, <2>3
<1>6. ASSUME NEW t \in Tasks, ClientStep(t)
      PROVE  CountInv'
    BY <1>1, <1>6, ClientKeepsCount
<1>7. ASSUME NEW p \in Pipes, ChanStep(p)
      PROVE  CountInv'
    BY <1>7, ChanKeepsCount
<1> QED BY <1>2, <1>3, <1>4, <1>5, <1>6, <1>7 DEF Next

LEMMA InitCounts ==
    ASSUME Init
    PROVE  CountInv
<1>1. \E a : pipe = [p \in Pipes |-> NewPipe("FREE", a)]
    <2>1. PICK a : a = CHOOSE b \in Addrs : TRUE
        OBVIOUS
    <2>2. pipe = [p \in Pipes |-> NewPipe("FREE", a)]
        BY <2>1 DEF Init, PipeInit
    <2> QED BY <2>2
<1>2. \A p \in Pipes : PipeCounts(p)
    <2>1. PICK a : pipe = [p \in Pipes |-> NewPipe("FREE", a)]
        BY <1>1
    <2> QED BY <2>1 DEF PipeCounts, NewPipe, Valid
<1>3. port.state = "NOT_POWERED" /\ ~port.waiting_all
    <2>1. PICK s \in {"ENABLED", "NOT_POWERED"} :
             port = [state |-> s, conn |-> s = "ENABLED", waiting_all |-> FALSE,
                     num_waiting |-> 0, waiter |-> NoTask, woken |-> FALSE]
        BY DEF Init, PipeInit
    <2> QED BY <2>1 DEF Init
<1> QED BY <1>2, <1>3 DEF CountInv

\* The counter of the pipes that a waiting port command counts down agrees with the flags
\* of the pipes, whatever transfers end, tasks are woken and devices are lost in between:
\* the last of these pipes wakes the command, and no other.  A transfer that fails would
\* leave its pipe waiting without an interrupt to come, hence no ErrorEvents.
THEOREM PauseCounted ==
    ASSUME CountRules
    PROVE  Spec => []PauseCount
<1>1. Init => CountInv
    BY InitCounts
<1>2. PortInv /\ RuleInv /\ CommandExclusive /\ PauseInv /\ CountInv /\ [Next]_allVars
      => CountInv'
    BY NextCounts
<1>3. CountInv => PauseCount
    BY DEF CountInv, PauseCount, Waiting
<1>4. Spec => PipeSpec
    BY PortSimulates DEF IsPipeSpec
<1>5. PortTaskRules /\ ClientRules
    BY DEF CountRules, PortTaskRules
<1>6. Spec => []RuleInv
    BY <1>4, <1>5, RuleInvariant, PTL
<1>7. Spec => []PauseInv
    BY <1>5, PauseInvariant
<1>8. Spec => []CommandExclusive
    BY <1>4, CommandsExclusive, PTL
<1> QED BY <1>1, <1>2, <1>3, <1>6, <1>7, <1>8, PortInvariant, PTL DEF Spec

=============================================================================
