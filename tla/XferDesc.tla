------------------------------ MODULE XferDesc ------------------------------
(***************************************************************************)
(* The transfer descriptor lists of the Host Controller Driver             *)
(* (components/usb/hcd.c, "HCD Transfer Descriptors"): how a transfer is   *)
(* laid out for the controller, taken through its stages by the channel    *)
(* interrupt, and turned back into the result of its IRP.                  *)
(*                                                                         *)
(* The queues, commands and lists of the pipes are the business of HcdPipe *)
(* and reduced here to what starts and ends a transfer.  The channel is    *)
(* the controller's: a list, a position in it, a direction and a PID.      *)
(***************************************************************************)
EXTENDS TransferPlans

CONSTANTS
    Pipes,      \* the allocated pipes
    Irps,       \* the IRPs
    NoIrp,      \* the NULL IRP
    NoPipe,     \* the NULL pipe
    EpType,     \* the type of the endpoint of a pipe: "CTRL", "BULK_IN", "BULK_OUT"
    Setups,     \* the setup packets that clients write
    Sizes,      \* the values of num_bytes that clients use
    ChanErrors  \* the channel errors that occur

ASSUME XferDescAssumption ==
    /\ NoIrp \notin Irps /\ NoPipe \notin Pipes
    /\ EpType \in [Pipes -> {"CTRL", "BULK_IN", "BULK_OUT"}]
    /\ \A s \in Setups : s.in \in BOOLEAN /\ s.wLength \in Nat
    /\ Sizes \subseteq Nat
    /\ ChanErrors \subseteq {"XCS_XACT", "PKT_BBL", "STALL"}

VARIABLES
    pipe,       \* the fields of each pipe that concern its transfers
    chan,       \* the channel of each pipe
    irp,        \* the fields of each IRP
    conn,       \* port->flags.conn_devc_ena
    wire        \* what each device has seen of the transfer in flight

vars == <<pipe, chan, irp, conn, wire>>

Desc == [setup : BOOLEAN, in : BOOLEAN, null : BOOLEAN, halt : BOOLEAN,
         len : Nat, rem : Nat]
Statuses == {"NONE", "COMPLETED", "ERROR", "OVERFLOW", "STALL", "NO_DEVICE", "CANCELLED"}
ChanEvents == {"NONE", "SLOT_DONE", "SLOT_HALT", "ERROR"}

PipeRecord ==
    [state : {"ACTIVE", "HALTED", "INVALID"},
     inflight : Irps \cup {NoIrp},
     pending : Seq(Irps),
     done : Seq(Irps),
     ctrl_data_stg_in : BOOLEAN,
     ctrl_data_stg_skip : BOOLEAN,
     list : Seq(Desc)]              \* xfer_desc_list, while the channel has it

ChanRecord ==
    [slot : BOOLEAN,                \* the slot holds the list of the pipe
     active : BOOLEAN,
     idx : Nat,                     \* the next descriptor, from 0
     in : BOOLEAN,
     pid : {0, 1},
     event : ChanEvents,            \* the interrupt that is pending
     error : ChanErrors \cup {"NONE"}]

\* The buffer of a cleared IRP.
ZeroSetup == [in |-> FALSE, wLength |-> 0]

IrpRecord ==
    [flag : {"IDLE", "PENDING", "INFLIGHT", "DONE"},
     ptr : Pipes \cup {NoPipe},     \* reserved_ptr
     setup : Setups \cup {ZeroSetup}, \* the setup packet in data_buffer
     num_bytes : Nat, actual : Nat, status : Statuses]

Stages == [setup : BOOLEAN, in : BOOLEAN, pid : {0, 1}, len : Nat]

XferDescTypeOK ==
    /\ pipe \in [Pipes -> PipeRecord]
    /\ chan \in [Pipes -> ChanRecord]
    /\ irp \in [Irps -> IrpRecord]
    /\ conn \in BOOLEAN
    /\ wire \in [Pipes -> [stages : Seq(Stages), moved : Nat]]

NewPipe ==
    [state |-> "ACTIVE", inflight |-> NoIrp, pending |-> <<>>,
     done |-> <<>>, ctrl_data_stg_in |-> FALSE, ctrl_data_stg_skip |-> FALSE, list |-> <<>>]

\* A channel of a control endpoint starts with OUT; the one of a bulk endpoint has
\* the direction of its address.
NewChan(p) ==
    [slot |-> FALSE, active |-> FALSE, idx |-> 0, in |-> EpType[p] = "BULK_IN", pid |-> 0,
     event |-> "NONE", error |-> "NONE"]

\* An IRP that was cleared, and filled in by a client.
Fresh(flag, p, s, n) ==
    [flag |-> flag, ptr |-> p, setup |-> s, num_bytes |-> n, actual |-> 0, status |-> "NONE"]

Quiet == [stages |-> <<>>, moved |-> 0]

XferInit ==
    /\ pipe = [p \in Pipes |-> NewPipe]
    /\ chan = [p \in Pipes |-> NewChan(p)]
    /\ irp = [i \in Irps |-> Fresh("IDLE", NoPipe, ZeroSetup, 0)]
    /\ conn = TRUE
    /\ wire = [p \in Pipes |-> Quiet]

-----------------------------------------------------------------------------
(* _xfer_desc_list_fill: the list of a transfer, and its channel *)

\* usbh_hal_xfer_desc_fill.
FillDesc(flags, n) ==
    [setup |-> "SETUP" \in flags, in |-> "IN" \in flags, null |-> "NULL" \in flags,
     halt |-> "HALT" \in flags, len |-> n, rem |-> n]

In(b) == IF b THEN {"IN"} ELSE {}

RequestSize == 8        \* sizeof(usb_ctrl_req_t)

ControlList(in, skip, n) ==
    <<FillDesc({"SETUP", "HALT"}, RequestSize),
      IF skip THEN FillDesc({"NULL"}, 0) ELSE FillDesc(In(in) \cup {"HALT"}, n),
      FillDesc(In(~(in /\ ~skip)) \cup {"HALT"}, 0)>>

\* mutant: the flags of the former transfer are kept
FilledStale(q, u, type) ==
    IF type = "CTRL"
    THEN [q EXCEPT !.list = ControlList(q.ctrl_data_stg_in, u.num_bytes = 0, u.num_bytes)]
    ELSE [q EXCEPT !.list = <<FillDesc(In(type = "BULK_IN") \cup {"HALT"}, u.num_bytes)>>]

\* u is the IRP in flight, q its pipe.
Filled(q, u, type) ==
    IF type = "CTRL"
    THEN LET skip == u.num_bytes = 0
         IN  [q EXCEPT !.ctrl_data_stg_in = u.setup.in, !.ctrl_data_stg_skip = skip,
                       !.list = ControlList(u.setup.in, skip, u.num_bytes)]
    ELSE [q EXCEPT !.list = <<FillDesc(In(type = "BULK_IN") \cup {"HALT"}, u.num_bytes)>>]

\* mutant: the channel is left as it is
LoadedIdle(c, type) ==
    [c EXCEPT !.slot = TRUE, !.idx = 0,
              !.in = IF type = "CTRL" THEN FALSE ELSE @,
              !.pid = IF type = "CTRL" THEN 0 ELSE @]

\* The slot is acquired, which starts the list at its first descriptor, and the
\* channel activated.
Loaded(c, type) ==
    [c EXCEPT !.slot = TRUE, !.active = TRUE, !.idx = 0,
              !.in = IF type = "CTRL" THEN FALSE ELSE @,
              !.pid = IF type = "CTRL" THEN 0 ELSE @]

\* Pipe p, whose fields become q, begins the transfer of its IRP in flight, u.
Start(p, q, u) ==
    /\ pipe' = [pipe EXCEPT ![p] = Filled(q, u, EpType[p])]
    /\ chan' = [chan EXCEPT ![p] = Loaded([@ EXCEPT !.event = "NONE", !.error = "NONE"],
                                          EpType[p])]
    /\ wire' = [wire EXCEPT ![p] = Quiet]

-----------------------------------------------------------------------------
(* hcd_irp_enqueue, hcd_irp_dequeue *)

\* Setup packet and IRP agree: there is a data stage for the device exactly if there is
\* one for the driver, with room for what the device may send.
Fits(p, s, n) == EpType[p] = "CTRL" => (s.wLength = 0 <=> n = 0) /\ s.wLength <= n

Accepts(p) == conn /\ pipe[p].state = "ACTIVE"
Queues(p) == pipe[p].pending # <<>> \/ pipe[p].inflight # NoIrp

\* A client clears an IRP, fills it in and enqueues it.
SubmitStart(p, i, s, n) ==
    /\ irp[i].flag = "IDLE" /\ Accepts(p) /\ ~Queues(p)
    /\ irp' = [irp EXCEPT ![i] = Fresh("INFLIGHT", p, s, n)]
    /\ Start(p, [pipe[p] EXCEPT !.inflight = i], irp'[i])
    /\ UNCHANGED conn

SubmitPend(p, i, s, n) ==
    /\ irp[i].flag = "IDLE" /\ Accepts(p) /\ Queues(p)
    /\ irp' = [irp EXCEPT ![i] = Fresh("PENDING", p, s, n)]
    /\ pipe' = [pipe EXCEPT ![p].pending = Append(@, i)]
    /\ UNCHANGED <<chan, conn, wire>>

Submit(p, i, s, n) == SubmitStart(p, i, s, n) \/ SubmitPend(p, i, s, n)

Dequeue(p) ==
    /\ pipe[p].done # <<>>
    /\ pipe' = [pipe EXCEPT ![p].done = Tail(@)]
    /\ irp' = [irp EXCEPT ![Head(pipe[p].done)].flag = "IDLE",
                          ![Head(pipe[p].done)].ptr = NoPipe]
    /\ UNCHANGED <<chan, conn, wire>>

\* The client has used the result, and the IRP is cleared before it is used again.
Clear(i) ==
    /\ irp[i].flag = "IDLE"
    /\ irp' = [irp EXCEPT ![i] = Fresh("IDLE", NoPipe, ZeroSetup, 0)]
    /\ UNCHANGED <<pipe, chan, conn, wire>>

-----------------------------------------------------------------------------
(* The controller executes the list *)

Current(p) == pipe[p].list[chan[p].idx + 1]

Executes(p) ==
    chan[p].active /\ chan[p].event = "NONE" /\ chan[p].idx < Len(pipe[p].list)

\* The bytes that descriptor d may move: of an IN stage, as many as the device has; of
\* an OUT stage, all.
Room(p) == IF Executes(p) THEN Current(p).len ELSE 0
Moves(p, m) ==
    LET d == Current(p)
    IN  IF d.setup \/ d.null THEN m = 0
        ELSE m <= d.len /\ (~chan[p].in => m = d.len)

\* One descriptor is executed. A descriptor with the flag HALT stops the channel; the
\* last one ends the list.
ChanRun(p, m) ==
    /\ conn /\ Executes(p)
    /\ LET d == Current(p)
           next == chan[p].idx + 1
       IN  /\ Moves(p, m)
           /\ pipe' = [pipe EXCEPT ![p].list[next].rem = d.len - m]
           /\ chan' = [chan EXCEPT ![p].idx = next,
                                   ![p].active = next < Len(pipe[p].list) /\ ~d.halt,
                                   ![p].event = IF next = Len(pipe[p].list) THEN "SLOT_DONE"
                                                ELSE IF d.halt THEN "SLOT_HALT"
                                                ELSE "NONE"]
           /\ wire' = [wire EXCEPT ![p].stages = Append(@, [setup |-> d.setup,
                                                            in |-> chan[p].in,
                                                            pid |-> chan[p].pid,
                                                            len |-> d.len]),
                                   ![p].moved = @ + m]
    /\ UNCHANGED <<irp, conn>>

\* A transaction fails: three errors in a row, babble, or a stall.
ChanFail(p, e) ==
    /\ conn /\ Executes(p)
    /\ chan' = [chan EXCEPT ![p].active = FALSE, ![p].event = "ERROR", ![p].error = e]
    /\ UNCHANGED <<pipe, irp, conn, wire>>

-----------------------------------------------------------------------------
(* _intr_hdlr_chan *)

\* _xfer_desc_list_parse: the bytes that are left of the data.
Remaining(q, type) ==
    IF type # "CTRL" THEN q.list[1].rem
    ELSE IF q.ctrl_data_stg_skip THEN 0 ELSE q.list[2].rem

Parsed(u, status, rem) ==
    [u EXCEPT !.flag = "DONE", !.status = status, !.actual = u.num_bytes - rem]

\* No bytes are assumed to have moved after an error.
ParsedError(u, status) == Parsed(u, status, u.num_bytes)

\* mutant: the list is left in the slot
ReleasedKept(c) == [c EXCEPT !.active = FALSE, !.idx = 0, !.event = "NONE", !.error = "NONE"]

\* usbh_hal_chan_slot_release.
Released(c) == [c EXCEPT !.slot = FALSE, !.active = FALSE, !.idx = 0, !.event = "NONE",
                         !.error = "NONE"]

\* _pipe_return_cur_irp.
Returned(q) == [q EXCEPT !.inflight = NoIrp, !.done = Append(@, q.inflight), !.list = <<>>]

\* _pipe_get_next_irp.
TookNext(q) == [q EXCEPT !.inflight = Head(q.pending), !.pending = Tail(@)]

\* The list is done: the IRP is returned, and the next one started.
IntrDone(p) ==
    /\ conn /\ chan[p].event = "SLOT_DONE"
    /\ LET q == Returned(pipe[p])
           i == pipe[p].inflight
           results == [irp EXCEPT ![i] = Parsed(@, "COMPLETED",
                                                Remaining(pipe[p], EpType[p]))]
       IN  \/ /\ q.pending = <<>>
              /\ pipe' = [pipe EXCEPT ![p] = q]
              /\ chan' = [chan EXCEPT ![p] = Released(@)]
              /\ irp' = results
              /\ wire' = [wire EXCEPT ![p] = Quiet]
           \/ /\ q.pending # <<>>
              /\ irp' = [results EXCEPT ![Head(q.pending)].flag = "INFLIGHT"]
              /\ Start(p, TookNext(q), irp'[Head(q.pending)])
    /\ UNCHANGED conn

\* mutant: the descriptor of the data stage is not skipped
ContinuedNoSkip(c, q) ==
    [c EXCEPT !.in = IF c.idx = 1 THEN q.ctrl_data_stg_in \/ q.ctrl_data_stg_skip
                                  ELSE ~q.ctrl_data_stg_in,
              !.pid = 1, !.active = TRUE, !.event = "NONE"]

\* _xfer_desc_list_continue: direction, PID and descriptors to skip of the next stage.
Continued(c, q) ==
    LET skips == c.idx = 1 /\ q.ctrl_data_stg_skip
    IN  [c EXCEPT !.in = IF skips THEN TRUE
                         ELSE IF c.idx = 1 THEN q.ctrl_data_stg_in
                         ELSE ~q.ctrl_data_stg_in,
                  !.pid = 1,
                  !.idx = IF skips THEN @ + 1 ELSE @,
                  !.active = TRUE, !.event = "NONE"]

IntrHalt(p) ==
    /\ conn /\ chan[p].event = "SLOT_HALT"
    /\ chan' = [chan EXCEPT ![p] = Continued(@, pipe[p])]
    /\ UNCHANGED <<pipe, irp, conn, wire>>

\* pipe_decode_error_event, and the status that _xfer_desc_list_parse makes of it.
ErrorEvent(e) ==
    CASE e = "XCS_XACT" -> "ERROR_XFER"
      [] e = "PKT_BBL" -> "ERROR_OVERFLOW"
      [] e = "STALL" -> "ERROR_STALL"

ErrorStatus(v) ==
    CASE v = "ERROR_XFER" -> "ERROR"
      [] v = "ERROR_OVERFLOW" -> "OVERFLOW"
      [] v = "ERROR_STALL" -> "STALL"

IntrError(p) ==
    /\ conn /\ chan[p].event = "ERROR"
    /\ LET v == ErrorEvent(chan[p].error)
       IN  /\ pipe' = [pipe EXCEPT ![p] = Returned([@ EXCEPT !.state = "HALTED"])]
           /\ irp' = [irp EXCEPT ![pipe[p].inflight] = ParsedError(@, ErrorStatus(v))]
           /\ chan' = [chan EXCEPT ![p] = Released(@)]
    /\ wire' = [wire EXCEPT ![p] = Quiet]
    /\ UNCHANGED conn

\* Without an enabled device the interrupt of a channel has no effect.
IntrIgnored(p) ==
    /\ ~conn /\ chan[p].event # "NONE"
    /\ chan' = [chan EXCEPT ![p].event = "NONE", ![p].active = FALSE]
    /\ UNCHANGED <<pipe, irp, conn, wire>>

-----------------------------------------------------------------------------
(* What else ends or starts transfers: commands, the loss of the device *)

\* _pipe_retire: the pending IRPs of q are done, without having been executed.
Retire(p, q, results, status) ==
    LET pend == {q.pending[k] : k \in DOMAIN q.pending}
    IN  /\ pipe' = [pipe EXCEPT ![p] = [q EXCEPT !.pending = <<>>, !.done = @ \o q.pending]]
        /\ irp' = [i \in Irps |-> IF i \in pend
                                   THEN [results[i] EXCEPT !.flag = "DONE", !.status = status]
                                   ELSE results[i]]

\* HCD_PIPE_CMD_RESET, with the transfer in flight over.
Reset(p) ==
    /\ conn /\ pipe[p].state # "INVALID" /\ pipe[p].inflight = NoIrp
    /\ Retire(p, [pipe[p] EXCEPT !.state = "ACTIVE"], irp, "CANCELLED")
    /\ UNCHANGED <<chan, conn, wire>>

\* HCD_PIPE_CMD_CLEAR: the pending IRPs of a halted pipe are executed.
ClearStart(p) ==
    /\ conn /\ pipe[p].state = "HALTED" /\ pipe[p].pending # <<>>
    /\ irp' = [irp EXCEPT ![Head(pipe[p].pending)].flag = "INFLIGHT"]
    /\ Start(p, TookNext([pipe[p] EXCEPT !.state = "ACTIVE"]), irp'[Head(pipe[p].pending)])
    /\ UNCHANGED conn

ClearEmpty(p) ==
    /\ conn /\ pipe[p].state = "HALTED" /\ pipe[p].pending = <<>>
    /\ pipe' = [pipe EXCEPT ![p].state = "ACTIVE"]
    /\ UNCHANGED <<chan, irp, conn, wire>>

\* The interrupt handler notices that the device is gone, ...
Lose == conn /\ conn' = FALSE /\ UNCHANGED <<pipe, chan, irp, wire>>

\* ... and _port_invalidate_all_pipes ends what its pipes were doing.
Invalidate(p) ==
    LET q == [pipe[p] EXCEPT !.state = "INVALID"]
        i == q.inflight
    IN  /\ ~conn /\ pipe[p].state # "INVALID"
        /\ \/ i = NoIrp /\ Retire(p, q, irp, "NO_DEVICE")
           \/ i # NoIrp /\ Retire(p, Returned(q),
                                 [irp EXCEPT ![i] = ParsedError(@, "NO_DEVICE")], "NO_DEVICE")
        /\ chan' = [chan EXCEPT ![p] = Released(@)]
        /\ wire' = [wire EXCEPT ![p] = Quiet]
        /\ UNCHANGED conn

\* The pipes of the lost device are freed, and those of the next one allocated.
Reallocate ==
    /\ ~conn
    /\ \A p \in Pipes : pipe[p].state = "INVALID" /\ pipe[p].done = <<>>
    /\ conn' = TRUE
    /\ pipe' = [p \in Pipes |-> NewPipe]
    /\ chan' = [p \in Pipes |-> NewChan(p)]
    /\ UNCHANGED <<irp, wire>>

-----------------------------------------------------------------------------
Interrupt(p) == IntrDone(p) \/ IntrHalt(p) \/ IntrError(p) \/ IntrIgnored(p)
Fails(p) == \E e \in ChanErrors : ChanFail(p, e)
Runs(p) == \E m \in 0 .. Room(p) : ChanRun(p, m)

XferNext ==
    \/ \E p \in Pipes, i \in Irps, s \in Setups, n \in Sizes :
          Fits(p, s, n) /\ Submit(p, i, s, n)
    \/ \E i \in Irps : Clear(i)
    \/ \E p \in Pipes : \/ Runs(p) \/ Fails(p) \/ Interrupt(p) \/ Dequeue(p)
                        \/ Reset(p) \/ ClearStart(p) \/ ClearEmpty(p) \/ Invalidate(p)
    \/ Lose \/ Reallocate

XferSpec == XferInit /\ [][XferNext]_vars

-----------------------------------------------------------------------------
(* Properties *)

InFlight(p) == pipe[p].inflight # NoIrp

\* A channel has a transfer exactly while its pipe has an IRP in flight: the slot is
\* free when _xfer_desc_list_fill acquires it and taken when _xfer_desc_list_parse
\* releases it, whatever ended the transfer before, and an interrupt finds the IRP.
SlotIffInFlight ==
    \A p \in Pipes : /\ chan[p].slot <=> InFlight(p)
                     /\ chan[p].active \/ chan[p].event # "NONE" => chan[p].slot

\* The channel never executes the descriptor that stands for a skipped data stage, and
\* its direction is the one the descriptor was filled for: _xfer_desc_list_continue,
\* which sets the one, and _xfer_desc_list_fill, which sets the other, decide alike.
DirectionAgrees ==
    \A p \in Pipes : Executes(p) => ~Current(p).null /\ Current(p).in = chan[p].in

\* The transfer as its device sees it: the setup packet says whether there are data.
PlanOf(p) ==
    LET u == irp[pipe[p].inflight]
    IN  IF ~InFlight(p) THEN <<>>
        ELSE IF EpType[p] = "CTRL"
        THEN ControlPlan(u.setup.in, IF u.setup.wLength = 0 THEN 0 ELSE u.num_bytes)
        ELSE BulkPlan(EpType[p] = "BULK_IN", u.num_bytes)

Reported(u) ==
    IF u.flag = "DONE" THEN [ok |-> u.status = "COMPLETED", bytes |-> u.actual]
    ELSE [ok |-> FALSE, bytes |-> 0]

\* The stages that reach the device are those of one control transfer, or the one of a
\* bulk transfer, in their order, and a client is told that its IRP completed, and how
\* many bytes moved, only if they were all executed.
Transfer ==
    INSTANCE ControlTransfer WITH
        cur <- [p \in Pipes |-> pipe[p].inflight],
        plan <- [p \in Pipes |-> PlanOf(p)],
        stages <- [p \in Pipes |-> wire[p].stages],
        moved <- [p \in Pipes |-> wire[p].moved],
        result <- [i \in Irps |-> Reported(irp[i])]
IsControlTransfer == Transfer!TransferSpec
=============================================================================
