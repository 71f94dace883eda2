-------------------------- MODULE XferLayerProofs --------------------------
(***************************************************************************)
(* The transfer layer for every number of clients, IRPs and pipes and      *)
(* every length of the event queue: what is proved of the driver's queues  *)
(* holds below this layer, because an IRP comes from the pool and has one  *)
(* owner; the pool is sound; the event task never waits for a transfer;    *)
(* and where each pipe has one client, a transfer that is reported as done *)
(* was completed.                                                          *)
(***************************************************************************)
EXTENDS XferLayer, HcdPipeFifo

-----------------------------------------------------------------------------
(* The inductive invariant *)

\* The types of the layer's own variables, but for the bound of the semaphore.
LayerTypes ==
    /\ pool \in [free : Seq(Irps), count : Nat]
    /\ xfer \in [Clients -> [at : {"out", "taking", "taken", "enqueue", "wait", "end",
                                   "given"},
                             irp : Irps \cup {NoIrp}, result : SUBSET {0, 1, 2}]]
    /\ evtq \in Seq(Message)
    /\ evtask \in [at : {"wait", "dequeue", "reset", "set"}, pipe : Pipes \cup {NoPipe},
                   event : PipeEvents, irp : Irps \cup {NoIrp}]
    /\ bits \in [Irps -> SUBSET {0, 1, 2}]
    /\ status \in [Irps -> Statuses]
    /\ enqmutex \in Tasks \cup {NoTask}
    /\ closing \in [pipe : Pipes \cup {NoPipe}, drained : BOOLEAN]
    /\ lost \in BOOLEAN
    /\ evtask.at # "wait" => evtask.pipe \in Pipes
    /\ closing # NotClosing => closing.pipe \in Pipes

\* A client has an IRP between taking it from the pool and giving it back; it is the only
\* one that has it, and the pool has the others, each once.
Holding == {"taken", "enqueue", "wait", "end"}
OwnInv ==
    /\ \A t \in Clients : xfer[t].irp \in Irps <=> xfer[t].at \in Holding
    /\ \A t, u \in Clients : xfer[t].irp = xfer[u].irp /\ xfer[t].irp # NoIrp => t = u
    /\ Elems(pool.free) = Irps \ {xfer[t].irp : t \in Clients}
    /\ Distinct(pool.free)

\* The semaphore and the free list differ by the clients between the two.
AtPlace(place) == {t \in Clients : xfer[t].at = place}
CountInv == Len(pool.free) = pool.count + Cardinality(AtPlace("taking")) + Cardinality(AtPlace("given"))

\* The one function of the driver that a task is inside of is hcd_irp_enqueue.
CallInv ==
    \A t \in Tasks : call[t].op # "none" =>
        /\ t \in Clients /\ xfer[t].at = "enqueue"
        /\ call[t].op = "enqueue" /\ call[t].irp = xfer[t].irp

\* An IRP that is in a pipe, in the hands of the event task, or has its bits set, and it is
\* one of the three, has a client that waits for it.
InPipe(i) == irp[i].ptr # NoPipe
Awaits(t, i) == xfer[t].at = "wait" /\ xfer[t].irp = i
Awaited(i) == \E t \in Clients : Awaits(t, i)
UseInv ==
    /\ \A i \in Irps : InPipe(i) => bits[i] = {} /\ Awaited(i)
    /\ \A i \in Irps : bits[i] # {} => Awaited(i)
    /\ evtask.at \in {"reset", "set"} =>
          /\ evtask.irp \in Irps /\ ~InPipe(evtask.irp) /\ bits[evtask.irp] = {}
          /\ Awaited(evtask.irp)

DriverInv == IInv /\ Placed /\ CheckedIdle
LayerInv == DriverInv /\ LayerTypes /\ OwnInv /\ CountInv /\ CallInv /\ UseInv

-----------------------------------------------------------------------------
(* The steps of this layer are steps of the driver *)

\* What the assumption says of clients and tasks.
LEMMA WhoIsWho ==
    /\ Clients \subseteq Tasks /\ EventTask \in Tasks /\ PortTask \in Tasks
    /\ EventTask \notin Clients /\ PortTask \notin Clients /\ EventTask # PortTask
    /\ NoTask \notin Tasks /\ NoIrp \notin Irps /\ NoPipe \notin Pipes
    BY XferAssumption, NullAssumption

\* An IRP that is in no pipe is as good as new.
LEMMA NewOutside ==
    ASSUME DriverInv, NEW i \in Irps, ~InPipe(i)
    PROVE  irp[i] = NewIrp
<1>1. irp[i] \in IrpRecord /\ irp[i].ptr = NoPipe
    BY DEF DriverInv, IInv, PipeInv, InPipe
<1>2. irp[i].flag = "IDLE" /\ irp[i].status = "none"
    BY <1>1 DEF DriverInv, Placed, NoEarlyResult
<1> QED BY <1>1, <1>2 DEF IrpRecord, NewIrp

\* The clients at one place are finitely many.
LEMMA PlaceFinite ==
    ASSUME NEW place
    PROVE  /\ IsFiniteSet(AtPlace(place)) /\ Cardinality(AtPlace(place)) \in Nat
           /\ \A t \in AtPlace(place) : Cardinality(AtPlace(place)) > 0
<1>1. AtPlace(place) \in SUBSET Clients /\ IsFiniteSet(Clients)
    BY XferAssumption DEF AtPlace
<1>2. IsFiniteSet(AtPlace(place))
    BY <1>1, FS_Subset
<1>3. Cardinality(AtPlace(place)) \in Nat
    BY <1>2, FS_CardinalityType
<1>4. Cardinality(AtPlace(place)) = 0 => AtPlace(place) = {}
    BY <1>2, FS_EmptySet
<1> QED BY <1>2, <1>3, <1>4

\* A client that passed the semaphore finds an IRP in the free list, which is new and has
\* no bits set.
LEMMA TakerFinds ==
    ASSUME LayerInv, NEW t \in Clients, xfer[t].at = "taking"
    PROVE  LET n == Len(pool.free)
               i == pool.free[n]
           IN  /\ n \in Nat \ {0} /\ i \in Irps /\ i \in Elems(pool.free)
               /\ \A u \in Clients : xfer[u].irp # i
               /\ ~InPipe(i) /\ irp[i] = NewIrp /\ bits[i] = {}
<1> DEFINE n == Len(pool.free)
           i == pool.free[n]
<1>1. pool.free \in Seq(Irps) /\ pool.count \in Nat /\ n \in Nat
    BY DEF LayerInv, LayerTypes
<1>2. Cardinality(AtPlace("taking")) > 0
    BY PlaceFinite DEF AtPlace
<1>3. n # 0
    BY <1>1, <1>2, PlaceFinite DEF LayerInv, CountInv
<1>4. i \in Irps /\ i \in Elems(pool.free)
    BY <1>1, <1>3 DEF Elems
<1>5. \A u \in Clients : xfer[u].irp # i
    BY <1>4 DEF LayerInv, OwnInv
<1>6. ~InPipe(i) /\ bits[i] = {}
    BY <1>4, <1>5 DEF LayerInv, UseInv, Awaited, Awaits
<1>7. irp[i] = NewIrp
    BY <1>4, <1>6, NewOutside DEF LayerInv
<1> QED BY <1>1, <1>3, <1>4, <1>5, <1>6, <1>7

\* Clearing the IRP it takes changes nothing of the driver.
LEMMA TakeIrpStutters ==
    ASSUME LayerInv, NEW t \in Clients, TakeIrp(t)
    PROVE  UNCHANGED vars
<1> DEFINE i == pool.free[Len(pool.free)]
<1>1. irp[i] = NewIrp /\ i \in Irps
    BY TakerFinds DEF TakeIrp
<1>2. irp' = [irp EXCEPT ![i] = NewIrp] /\ irp \in [Irps -> IrpRecord]
    BY DEF TakeIrp, LayerInv, DriverInv, IInv, PipeInv
<1>3. irp' = irp
    BY <1>1, <1>2
<1> QED BY <1>3 DEF TakeIrp, vars

\* No two tasks enqueue one IRP.
LEMMA PoolOwns ==
    ASSUME OwnInv, CallInv
    PROVE  OneOwner
<1> SUFFICES ASSUME NEW t \in Tasks, NEW u \in Tasks, Enqueuing(t), Enqueuing(u),
                    call[t].irp = call[u].irp
             PROVE  t = u
    BY DEF OneOwner
<1>1. /\ t \in Clients /\ xfer[t].irp = call[t].irp /\ xfer[t].at = "enqueue"
      /\ u \in Clients /\ xfer[u].irp = call[u].irp
    BY DEF CallInv, Enqueuing
<1>2. xfer[t].irp \in Irps
    BY <1>1 DEF OwnInv, Holding
<1> QED BY <1>1, <1>2, WhoIsWho DEF OwnInv

\* A step of the layer is one of the driver, or leaves it alone, or is the use of a freed
\* pipe by the event task, which ends the run.
LEMMA DriverSteps ==
    ASSUME LayerInv, XferNext
    PROVE  PipeNext \/ UNCHANGED vars \/ Fail("use_after_free")
<1> USE WhoIsWho
<1> DEFINE Goal == PipeNext \/ UNCHANGED vars \/ Fail("use_after_free")
<1>1. fault = "none"
    BY DEF XferNext
<1>2. ASSUME NEW t \in Tasks, ClientStep(t)
      PROVE  Goal
    BY <1>1, <1>2 DEF PipeNext
<1>3. ASSUME PortStep
      PROVE  Goal
    BY <1>1, <1>3 DEF PipeNext
<1>4. ASSUME NEW t \in Clients, TakeCount(t) \/ ClientXfer(t)
      PROVE  Goal
    <2>1. CASE TakeCount(t) \/ GiveIrp(t) \/ GiveCount(t) \/ WaitBits(t)
        BY <2>1 DEF TakeCount, GiveIrp, GiveCount, WaitBits
    <2>2. CASE TakeIrp(t)
        BY <2>2, TakeIrpStutters
    <2>3. ASSUME NEW p \in Pipes, Enqueue(t, p)
          PROVE  Goal
        <3>1. xfer[t].irp \in Irps /\ EnqueueCheck(t, p, xfer[t].irp)
            BY <2>3 DEF Enqueue, LayerInv, OwnInv, Holding
        <3>2. ClientStep(t)
            BY <3>1 DEF ClientStep
        <3> QED BY <3>2, <1>2
    <2>4. CASE Enqueued(t) \/ Refused(t)
        <3>1. CallStep(t)
            BY <2>4 DEF Enqueued, Refused, CallStep
        <3> QED BY <3>1, <1>2 DEF ClientStep
    <2> QED BY <1>4, <2>1, <2>2, <2>3, <2>4 DEF ClientXfer
<1>5. ASSUME NEW p \in Pipes, ChanEvent(p) \/ Open(p) \/ Close(p)
      PROVE  Goal
    <2>1. CASE ChanEvent(p)
        BY <1>1, <2>1 DEF ChanEvent, PipeNext
    <2>2. CASE Open(p)
        BY <2>2, <1>2 DEF Open, ClientStep
    <2>3. CASE Close(p)
        BY <2>3 DEF Close
    <2> QED BY <1>5, <2>1, <2>2, <2>3
<1>6. ASSUME NEW t \in Tasks, NEW p \in Pipes, Dequeue(t, p) \/ FreePipe(t, p) \/ DequeueMisplaced(t, p)
      PROVE  Goal
    BY <1>2, <1>6 DEF ClientStep
<1>7. CASE EventXfer
    <2>1. CASE Receive \/ EventTooLate \/ EventSet
        BY <2>1 DEF Receive, EventTooLate, EventSet
    <2>2. CASE EventDequeue
        <3>1. evtask.pipe \in Pipes /\ Dequeue(EventTask, evtask.pipe)
            BY <2>2 DEF EventDequeue, TakeResult, At, LayerInv, LayerTypes
        <3> QED BY <3>1, <1>6
    <2>3. CASE EventPanic
        <3>1. CASE Fail("use_after_free")
            BY <3>1
        <3>2. CASE At("dequeue") /\ DequeueMisplaced(EventTask, evtask.pipe)
            <4>1. evtask.pipe \in Pipes
                BY <3>2 DEF At, LayerInv, LayerTypes
            <4> QED BY <3>2, <4>1, <1>6
        <3> QED BY <2>3, <3>1, <3>2 DEF EventPanic
    <2>4. CASE EventReset
        <3>1. evtask.pipe \in Pipes
            BY <2>4 DEF EventReset, At, LayerInv, LayerTypes
        <3>2. CASE UNCHANGED vars
            BY <3>2
        <3>3. CASE CommandNow(EventTask, evtask.pipe, "RESET")
            <4>1. ClientStep(EventTask)
                BY <3>1, <3>3 DEF ClientStep, Blocking
            <4> QED BY <4>1, <1>2
        <3> QED BY <2>4, <3>2, <3>3 DEF EventReset
    <2> QED BY <1>7, <2>1, <2>2, <2>3, <2>4 DEF EventXfer
<1>8. CASE CloseXfer
    <2>1. CASE CloseDequeue
        <3>1. closing.pipe \in Pipes /\ Dequeue(PortTask, closing.pipe)
            BY <2>1 DEF CloseDequeue, TakeResult, LayerInv, LayerTypes
        <3> QED BY <3>1, <1>6
    <2>2. CASE CloseDrained
        BY <2>2 DEF CloseDrained
    <2>3. CASE CloseEnd
        <3>1. closing.pipe \in Pipes
            BY <2>3 DEF CloseEnd, NotClosing, LayerInv, LayerTypes
        <3> QED BY <2>3, <3>1, <1>6 DEF CloseEnd
    <2>4. CASE CloseMisplaced
        <3>1. closing.pipe \in Pipes
            BY <2>4 DEF CloseMisplaced, LayerInv, LayerTypes
        <3> QED BY <2>4, <3>1, <1>6 DEF CloseMisplaced
    <2> QED BY <1>8, <2>1, <2>2, <2>3, <2>4 DEF CloseXfer
<1>9. CASE Disconnect \/ InvalidatePipe
    BY <1>9, <1>3 DEF Disconnect, InvalidatePipe, PortStep
<1> QED BY <1>4, <1>5, <1>7, <1>8, <1>9 DEF XferNext

\* So the queues of the driver are what they were proved to be.
LEMMA DriverKept ==
    ASSUME LayerInv, XferNext
    PROVE  DriverInv' /\ QueueStep
<1>1. OneOwner
    BY PoolOwns DEF LayerInv
<1>2. CASE PipeNext \/ UNCHANGED vars
    <2>1. IInv'
        BY <1>2, NextKeeps DEF LayerInv, DriverInv
    <2>2. QueueStep
        BY <1>1, <1>2, NextQueues DEF LayerInv, DriverInv
    <2> QED BY <2>1, <2>2 DEF QueueStep, DriverInv
<1>3. CASE Fail("use_after_free")
    <2>1. IInv'
        BY <1>3, NoPipeChange DEF Fail, LayerInv, DriverInv, IInv, RestInv
    <2>2. CallsKept
        BY <1>3 DEF Fail, CallsKept, Enqueuing
    <2>3. QueueStep
        BY <1>3, <2>2, QuietQueues DEF Fail, LayerInv, DriverInv
    <2> QED BY <2>1, <2>3 DEF QueueStep, DriverInv
<1> QED BY <1>2, <1>3, DriverSteps

-----------------------------------------------------------------------------
(* The types *)

XferRecord == [at : {"out", "taking", "taken", "enqueue", "wait", "end", "given"},
               irp : Irps \cup {NoIrp}, result : SUBSET {0, 1, 2}]
EventTaskRecord == [at : {"wait", "dequeue", "reset", "set"}, pipe : Pipes \cup {NoPipe},
                    event : PipeEvents, irp : Irps \cup {NoIrp}]

\* An event is three bits.
LEMMA EventsAreBits ==
    ASSUME NEW e \in PipeEvents
    PROVE  EventBits(e) \in SUBSET {0, 1, 2}
    BY ParameterAssumption DEF EventBits, PipeEvents

\* An event that is sent, or is lost, leaves a queue of events.
LEMMA SentTyped ==
    ASSUME evtq \in Seq(Message), NEW p \in Pipes, NEW e \in PipeEvents
    PROVE  Sent(p, e) \in Seq(Message)
<1>1. [pipe |-> p, event |-> e] \in Message
    BY DEF Message
<1> QED BY <1>1 DEF Sent

\* A task that takes a result from a pipe takes an IRP, which is new then, and its status.
LEMMA ResultTaken ==
    ASSUME LayerInv, NEW t \in Tasks, NEW p \in Pipes, TakeResult(t, p)
    PROVE  LET i == Head(pipe[p].done)
           IN  /\ i \in Irps /\ InPipe(i) /\ i \in Elems(pipe[p].done)
               /\ irp[i].ptr = p
               /\ irp' = [irp EXCEPT ![i] = NewIrp]
               /\ status' = [status EXCEPT ![i] = irp[i].status]
               /\ irp[i].status \in Statuses
               /\ call' = call
<1> DEFINE i == Head(pipe[p].done)
<1>1. pipe[p].done # <<>> /\ irp' = [irp EXCEPT ![i] = NewIrp] /\ call' = call
      /\ status' = [status EXCEPT ![i] = irp[i].status]
    BY DEF TakeResult, Dequeue
<1>2. pipe[p] \in PipeRecord /\ pipe[p].done \in Seq(Irps)
    BY PipeFieldTypes DEF LayerInv, DriverInv, IInv, PipeInv
<1>3. i \in Irps /\ i \in Elems(pipe[p].done)
    BY <1>1, <1>2, HeadTailElems
<1>4. irp[i].ptr = p
    BY <1>3 DEF LayerInv, DriverInv, Placed, PlacedIn
<1>5. irp[i].status \in Statuses
    BY <1>3 DEF LayerInv, DriverInv, IInv, PipeInv, IrpRecord
<1> QED BY <1>1, <1>3, <1>4, <1>5, WhoIsWho DEF InPipe

\* Every step of a client keeps the types.
LEMMA ClientLayerTyped ==
    ASSUME LayerInv, NEW t \in Clients, TakeCount(t) \/ ClientXfer(t)
    PROVE  LayerTypes'
<1> USE WhoIsWho
<1>1. /\ pool \in [free : Seq(Irps), count : Nat]
      /\ xfer \in [Clients -> XferRecord] /\ xfer[t] \in XferRecord
      /\ bits \in [Irps -> SUBSET {0, 1, 2}] /\ status \in [Irps -> Statuses]
      /\ enqmutex \in Tasks \cup {NoTask}
    BY DEF LayerInv, LayerTypes, XferRecord
<1>2. ASSUME pool' \in [free : Seq(Irps), count : Nat], NEW x \in XferRecord, SetXfer(t, x),
             bits' \in [Irps -> SUBSET {0, 1, 2}], status' \in [Irps -> Statuses],
             enqmutex' \in Tasks \cup {NoTask}, UNCHANGED <<evtq, evtask, closing, lost>>
      PROVE  LayerTypes'
    <2>1. xfer' \in [Clients -> XferRecord]
        BY <1>1, <1>2 DEF SetXfer
    <2> QED BY <1>2, <2>1 DEF LayerInv, LayerTypes, XferRecord
<1>3. /\ \A x \in XferRecord : \A a \in {"wait", "end", "enqueue"} : [x EXCEPT !.at = a] \in XferRecord
      /\ \A x \in XferRecord : \A r \in SUBSET {0, 1, 2} :
            [x EXCEPT !.at = "end", !.result = r] \in XferRecord
      /\ Out \in XferRecord
      /\ \A a \in {"taking", "given"} : [Out EXCEPT !.at = a] \in XferRecord
      /\ \A i \in Irps : [Out EXCEPT !.at = "taken", !.irp = i] \in XferRecord
    BY DEF XferRecord, Out
<1>4. CASE TakeCount(t)
    <2>1. pool' \in [free : Seq(Irps), count : Nat]
        BY <1>1, <1>4 DEF TakeCount
    <2> QED BY <1>1, <1>2, <1>3, <1>4, <2>1 DEF TakeCount
<1>5. CASE TakeIrp(t)
    <2> DEFINE n == Len(pool.free)
               i == pool.free[n]
    <2>1. n \in Nat \ {0} /\ i \in Irps
        BY <1>5, TakerFinds DEF TakeIrp
    <2>2. SubSeq(pool.free, 1, n - 1) \in Seq(Irps)
        <3>1. pool.free \in Seq(Irps)
            BY <1>1
        <3>2. \A m \in 1 .. n - 1 : pool.free[m] \in Irps
            BY <2>1, <3>1
        <3> QED BY <2>1, <3>1, <3>2, SubSeqProperties
    <2>3. pool' \in [free : Seq(Irps), count : Nat]
        BY <1>1, <1>5, <2>2 DEF TakeIrp
    <2>4. status' \in [Irps -> Statuses]
        BY <1>1, <1>5, <2>1 DEF TakeIrp, Statuses
    <2>5. [Out EXCEPT !.at = "taken", !.irp = i] \in XferRecord
        BY <1>3, <2>1
    <2>6. SetXfer(t, [Out EXCEPT !.at = "taken", !.irp = i])
          /\ UNCHANGED <<evtq, evtask, bits, enqmutex, closing, lost>>
        BY <1>5 DEF TakeIrp
    <2> QED BY <1>1, <1>2, <2>3, <2>4, <2>5, <2>6
<1>6. CASE GiveIrp(t)
    <2>1. xfer[t].irp \in Irps
        BY <1>6 DEF GiveIrp, LayerInv, OwnInv, Holding
    <2> DEFINE f == Append(pool.free, xfer[t].irp)
    <2>3. f \in Seq(Irps)
        BY <1>1, <2>1, AppendElems
    <2>4. pool' = [pool EXCEPT !.free = f]
        BY <1>6 DEF GiveIrp
    <2> HIDE DEF f
    <2>2. pool' \in [free : Seq(Irps), count : Nat]
        BY <1>1, <2>3, <2>4
    <2> QED BY <1>1, <1>2, <1>3, <1>6, <2>2 DEF GiveIrp
<1>7. CASE GiveCount(t)
    <2>1. pool' \in [free : Seq(Irps), count : Nat]
        BY <1>1, <1>7 DEF GiveCount
    <2> QED BY <1>1, <1>2, <1>3, <1>7, <2>1 DEF GiveCount
<1>8. ASSUME NEW p \in Pipes, Enqueue(t, p)
      PROVE  LayerTypes'
    BY <1>1, <1>2, <1>3, <1>8 DEF Enqueue
<1>9. CASE Enqueued(t) \/ Refused(t)
    BY <1>1, <1>2, <1>3, <1>9 DEF Enqueued, Refused
<1>10. CASE WaitBits(t)
    <2>1. xfer[t].irp \in Irps
        BY <1>10 DEF WaitBits, LayerInv, OwnInv, Holding
    <2>2. bits[xfer[t].irp] \in SUBSET {0, 1, 2} /\ bits' \in [Irps -> SUBSET {0, 1, 2}]
        BY <1>1, <1>10, <2>1 DEF WaitBits, Cleared
    <2>3. [xfer[t] EXCEPT !.at = "end", !.result = bits[xfer[t].irp]] \in XferRecord
        BY <1>1, <1>3, <2>2
    <2>4. SetXfer(t, [xfer[t] EXCEPT !.at = "end", !.result = bits[xfer[t].irp]])
          /\ UNCHANGED <<pool, evtq, evtask, status, enqmutex, closing, lost>>
        BY <1>10 DEF WaitBits
    <2> QED BY <1>1, <1>2, <2>2, <2>3, <2>4
<1> QED BY <1>4, <1>5, <1>6, <1>7, <1>8, <1>9, <1>10 DEF ClientXfer

\* Every other step keeps them: events and tasks.
LEMMA OtherLayerTyped ==
    ASSUME LayerInv, DriverInv', XferNext, UNCHANGED <<pool, xfer>>,
           \A t \in Clients : ~TakeCount(t) /\ ~ClientXfer(t)
    PROVE  LayerTypes'
<1> USE WhoIsWho
<1>1. /\ evtq \in Seq(Message) /\ evtask \in EventTaskRecord
      /\ bits \in [Irps -> SUBSET {0, 1, 2}] /\ status \in [Irps -> Statuses]
      /\ closing \in [pipe : Pipes \cup {NoPipe}, drained : BOOLEAN]
      /\ closing # NotClosing => closing.pipe \in Pipes
    BY DEF LayerInv, LayerTypes, EventTaskRecord
<1>2. ASSUME evtq' \in Seq(Message), UNCHANGED <<evtask, bits, status, enqmutex, closing>>,
             lost' \in BOOLEAN
      PROVE  LayerTypes'
    BY <1>2 DEF LayerInv, LayerTypes
<1>3. ASSUME evtq' \in Seq(Message), evtask' \in EventTaskRecord,
             bits' \in [Irps -> SUBSET {0, 1, 2}], status' \in [Irps -> Statuses],
             evtask'.at # "wait" => evtask'.pipe \in Pipes,
             UNCHANGED <<enqmutex, closing, lost>>
      PROVE  LayerTypes'
    BY <1>3 DEF LayerInv, LayerTypes, EventTaskRecord
<1>4. ASSUME UNCHANGED <<evtq, evtask, lost>>, enqmutex' \in Tasks \cup {NoTask},
             bits' \in [Irps -> SUBSET {0, 1, 2}], status' \in [Irps -> Statuses],
             closing' \in [pipe : Pipes \cup {NoPipe}, drained : BOOLEAN],
             closing' # NotClosing => closing'.pipe \in Pipes
      PROVE  LayerTypes'
    BY <1>4 DEF LayerInv, LayerTypes
<1>5. ASSUME NEW t \in Tasks, NEW p \in Pipes, TakeResult(t, p)
      PROVE  Head(pipe[p].done) \in Irps /\ status' \in [Irps -> Statuses]
    BY <1>1, <1>5, ResultTaken
<1>6. ASSUME NEW i \in Irps, NEW e \in PipeEvents, SetBits(i, e)
      PROVE  bits' \in [Irps -> SUBSET {0, 1, 2}]
    BY <1>1, <1>6, EventsAreBits DEF SetBits
<1>7. ASSUME NEW p \in Pipes, ChanEvent(p) \/ Open(p) \/ Close(p)
      PROVE  LayerTypes'
    <2>1. CASE ChanEvent(p)
        <3>1. pipe'[p].last_event \in PipeEvents
            BY DEF DriverInv, IInv, PipeInv, PipeRecord
        <3>2. evtq' \in Seq(Message)
            BY <1>1, <2>1, <3>1, SentTyped DEF ChanEvent
        <3> QED BY <1>2, <2>1, <3>2 DEF ChanEvent, LayerInv, LayerTypes
    <2>2. CASE Open(p)
        BY <2>2 DEF Open, xferVars, LayerInv, LayerTypes
    <2>3. CASE Close(p)
        BY <1>1, <1>4, <2>3 DEF Close, NotClosing
    <2> QED BY <1>7, <2>1, <2>2, <2>3
<1>8. CASE EventXfer
    <2>1. CASE Receive
        <3>1. Head(evtq) \in Message /\ Tail(evtq) \in Seq(Message)
            BY <1>1, <2>1, HeadTailElems DEF Receive
        <3>2. evtask' \in EventTaskRecord /\ evtask'.pipe \in Pipes
            BY <2>1, <3>1 DEF Receive, EventTaskRecord, Message
        <3> QED BY <1>1, <1>3, <2>1, <3>1, <3>2 DEF Receive
    <2>2. CASE EventDequeue
        <3>1. evtask.pipe \in Pipes
            BY <2>2 DEF EventDequeue, At, LayerInv, LayerTypes
        <3>2. Head(pipe[evtask.pipe].done) \in Irps /\ status' \in [Irps -> Statuses]
            BY <1>5, <2>2, <3>1 DEF EventDequeue
        <3>3. evtask' \in EventTaskRecord /\ evtask'.pipe = evtask.pipe
            BY <1>1, <2>2, <3>2 DEF EventDequeue, At, After, EventTaskRecord
        <3> QED BY <1>1, <1>3, <2>2, <3>1, <3>2, <3>3 DEF EventDequeue
    <2>3. CASE EventTooLate
        <3>1. evtask' \in EventTaskRecord /\ evtask'.at = "wait"
            BY <2>3 DEF EventTooLate, Waits, EventTaskRecord, PipeEvents
        <3> QED BY <1>1, <1>3, <2>3, <3>1 DEF EventTooLate
    <2>4. CASE EventPanic
        BY <2>4 DEF EventPanic, xferVars, LayerInv, LayerTypes
    <2>5. CASE EventReset
        <3>1. evtask.pipe \in Pipes
            BY <2>5 DEF EventReset, At, LayerInv, LayerTypes
        <3>2. evtask' \in EventTaskRecord /\ evtask'.pipe = evtask.pipe
            BY <1>1, <2>5 DEF EventReset, Proceeds, At, After, EventTaskRecord
        <3> QED BY <1>1, <1>3, <2>5, <3>1, <3>2 DEF EventReset
    <2>6. CASE EventSet
        <3>1. evtask.irp \in Irps /\ evtask.event \in PipeEvents
            BY <1>1, <2>6 DEF EventSet, At, LayerInv, UseInv, EventTaskRecord
        <3>2. bits' \in [Irps -> SUBSET {0, 1, 2}]
            BY <1>6, <2>6, <3>1 DEF EventSet
        <3>3. evtask' \in EventTaskRecord /\ evtask'.at = "wait"
            BY <1>1, <2>6 DEF EventSet, Proceeds, At, After, EventTaskRecord
        <3> QED BY <1>1, <1>3, <2>6, <3>2, <3>3 DEF EventSet
    <2> QED BY <1>8, <2>1, <2>2, <2>3, <2>4, <2>5, <2>6 DEF EventXfer
<1>9. CASE CloseXfer
    <2>1. CASE CloseDequeue
        <3>1. closing.pipe \in Pipes
            BY <1>1, <2>1 DEF CloseDequeue
        <3>2. Head(pipe[closing.pipe].done) \in Irps /\ status' \in [Irps -> Statuses]
            BY <1>5, <2>1, <3>1 DEF CloseDequeue
        <3>3. bits' \in [Irps -> SUBSET {0, 1, 2}]
            BY <1>1, <2>1, <3>2 DEF CloseDequeue, SetBits, EventBits
        <3> QED BY <1>1, <1>4, <2>1, <3>2, <3>3 DEF CloseDequeue, LayerInv, LayerTypes
    <2>2. CASE CloseDrained
        <3>1. /\ closing' \in [pipe : Pipes \cup {NoPipe}, drained : BOOLEAN]
              /\ closing'.pipe \in Pipes
            BY <1>1, <2>2 DEF CloseDrained
        <3> QED BY <1>1, <1>4, <2>2, <3>1 DEF CloseDrained, LayerInv, LayerTypes
    <2>3. CASE CloseEnd
        <3>1. closing' \in [pipe : Pipes \cup {NoPipe}, drained : BOOLEAN]
            BY <2>3 DEF CloseEnd, NotClosing
        <3> QED BY <1>1, <1>4, <2>3, <3>1 DEF CloseEnd
    <2>4. CASE CloseMisplaced
        BY <2>4 DEF CloseMisplaced, xferVars, LayerInv, LayerTypes
    <2> QED BY <1>9, <2>1, <2>2, <2>3, <2>4 DEF CloseXfer
<1>10. CASE Disconnect
    BY <1>10 DEF Disconnect, LayerInv, LayerTypes
<1>11. CASE InvalidatePipe
    <2>1. inval'.cur \in Pipes \cup {NoPipe}
        BY DEF DriverInv, IInv, RestInv
    <2>2. evtq' \in Seq(Message)
        BY <1>1, <1>11, <2>1, SentTyped DEF InvalidatePipe, PipeEvents
    <2> QED BY <1>2, <1>11, <2>2 DEF InvalidatePipe
<1> QED BY <1>7, <1>8, <1>9, <1>10, <1>11 DEF XferNext

-----------------------------------------------------------------------------
(* Ownership and the semaphore *)

\* At the beginning the pool has every IRP, once.
LEMMA InitLayer ==
    ASSUME XferInit
    PROVE  LayerInv
<1> DEFINE N == Cardinality(Irps)
<1>1. N \in Nat /\ IsFiniteSet(Irps) /\ Cardinality(Irps) = N
    BY XferAssumption, FS_CardinalityType
<1>2. PICK s \in [1 .. N -> Irps] :
         Elems(s) = Irps /\ pool = [free |-> s, count |-> N]
    BY DEF XferInit
<1>3. /\ s \in Seq(Irps) /\ Len(s) = N /\ DOMAIN s = 1 .. N
      /\ pool.free = s /\ pool.count = N
    BY <1>1, <1>2
<1> HIDE DEF N
<1>4. Distinct(s)
    <2>1. IsFiniteSet(1 .. N) /\ Cardinality(1 .. N) = N
        <3>1. /\ IsFiniteSet(1 .. N)
              /\ Cardinality(1 .. N) = IF 1 > N THEN 0 ELSE N - 1 + 1
            BY <1>1, FS_Interval
        <3>2. (IF 1 > N THEN 0 ELSE N - 1 + 1) = N
            BY <1>1
        <3> QED BY <3>1, <3>2
    <2>2. s \in Surjection(1 .. N, Irps)
        BY <1>2, <1>3 DEF Surjection, Elems
    <2>3. s \in Injection(1 .. N, Irps)
        BY <1>1, <2>1, <2>2, FS_SurjSameCardinalityImpliesInj
    <2> QED BY <1>3, <2>3 DEF Injection, IsInjective, Distinct
<1>5. \A t \in Clients : xfer[t] = Out
    BY DEF XferInit
<1>6. DriverInv
    BY InitHolds, InitPlaced DEF XferInit, DriverInv
<1>7. LayerTypes
    <2>1. xfer \in [Clients -> XferRecord] /\ evtask \in EventTaskRecord
        BY DEF XferInit, XferRecord, Out, Waits, EventTaskRecord, PipeEvents
    <2>2. pool \in [free : Seq(Irps), count : Nat] /\ evtq \in Seq(Message)
        BY <1>1, <1>2, <1>3 DEF XferInit
    <2>3. /\ bits \in [Irps -> SUBSET {0, 1, 2}] /\ status \in [Irps -> Statuses]
          /\ enqmutex \in Tasks \cup {NoTask}
          /\ closing \in [pipe : Pipes \cup {NoPipe}, drained : BOOLEAN]
          /\ lost \in BOOLEAN /\ closing = NotClosing /\ evtask.at = "wait"
        BY DEF XferInit, Statuses, NotClosing, Waits
    <2> QED BY <2>1, <2>2, <2>3 DEF LayerTypes, XferRecord, EventTaskRecord
<1>8. OwnInv
    <2>1. \A t \in Clients : xfer[t].irp = NoIrp /\ xfer[t].at = "out"
        BY <1>5 DEF Out
    <2> QED BY <1>2, <1>3, <1>4, <2>1, WhoIsWho DEF OwnInv, Holding
<1>9. CountInv
    <2>1. AtPlace("taking") = {} /\ AtPlace("given") = {}
        BY <1>5 DEF AtPlace, Out
    <2>2. Cardinality({}) = 0
        BY FS_EmptySet
    <2>3. Cardinality(AtPlace("taking")) = 0 /\ Cardinality(AtPlace("given")) = 0
        BY <2>1, <2>2
    <2>4. Len(pool.free) = N /\ pool.count = N
        BY <1>3
    <2> QED BY <1>1, <2>3, <2>4 DEF CountInv
<1>10. CallInv
    BY DEF XferInit, PipeInit, IdleCall, CallInv
<1>11. UseInv
    <2>1. \A i \in Irps : ~InPipe(i) /\ bits[i] = {}
        BY DEF XferInit, PipeInit, NewIrp, InPipe
    <2> QED BY <2>1 DEF XferInit, UseInv, Waits
<1> QED BY <1>6, <1>7, <1>8, <1>9, <1>10, <1>11 DEF LayerInv

\* A client that moves between places that do not matter to the pool keeps ownership.
LEMMA MoveOwn ==
    ASSUME OwnInv, NEW t \in Clients, NEW x, SetXfer(t, x), x.irp = xfer[t].irp,
           xfer \in [Clients -> XferRecord],
           x.at \in Holding <=> xfer[t].at \in Holding, pool'.free = pool.free
    PROVE  OwnInv'
<1>1. xfer'[t] = x /\ \A u \in Clients : u # t => xfer'[u] = xfer[u]
    BY DEF SetXfer
<1>2. \A u \in Clients : xfer'[u].irp = xfer[u].irp
    BY <1>1
<1>3. \A u \in Clients : xfer'[u].at \in Holding <=> xfer[u].at \in Holding
    BY <1>1
<1>4. {xfer'[u].irp : u \in Clients} = {xfer[u].irp : u \in Clients}
    BY <1>2
<1> QED BY <1>2, <1>3, <1>4 DEF OwnInv

\* The clients at a place, after one of them moved.
LEMMA PlaceMoves ==
    ASSUME NEW t \in Clients, NEW x, SetXfer(t, x), xfer \in [Clients -> XferRecord],
           NEW place
    PROVE  LET c == Cardinality(AtPlace(place))
               d == Cardinality(AtPlace(place)')
           IN  /\ c \in Nat /\ d \in Nat
               /\ xfer[t].at = place /\ x.at # place => d = c - 1
               /\ xfer[t].at # place /\ x.at = place => d = c + 1
               /\ xfer[t].at = place <=> x.at = place => d = c
<1> DEFINE A == AtPlace(place)
           B == {u \in Clients : xfer'[u].at = place}
<1>1. xfer'[t] = x /\ \A u \in Clients : u # t => xfer'[u] = xfer[u]
    BY DEF SetXfer
<1>2. AtPlace(place)' = B
    BY DEF AtPlace
<1>3. IsFiniteSet(A) /\ Cardinality(A) \in Nat
    BY PlaceFinite
<1>4. t \in A <=> xfer[t].at = place
    BY DEF AtPlace
<1>5. CASE xfer[t].at = place /\ x.at # place
    <2>1. B = A \ {t}
        BY <1>1, <1>5 DEF AtPlace
    <2>2. Cardinality(B) = Cardinality(A) - 1 /\ IsFiniteSet(B)
        BY <1>3, <1>4, <1>5, <2>1, FS_RemoveElement
    <2>3. Cardinality(B) \in Nat
        BY <2>2, FS_CardinalityType
    <2> QED BY <1>2, <1>3, <1>5, <2>2, <2>3
<1>6. CASE xfer[t].at # place /\ x.at = place
    <2>1. B = A \cup {t}
        BY <1>1, <1>6 DEF AtPlace
    <2>2. Cardinality(B) = Cardinality(A) + 1
        BY <1>3, <1>4, <1>6, <2>1, FS_AddElement
    <2>3. Cardinality(B) \in Nat
        BY <1>3, <2>2
    <2> QED BY <1>2, <1>3, <1>6, <2>2, <2>3
<1>7. CASE xfer[t].at = place <=> x.at = place
    <2>1. B = A
        BY <1>1, <1>7 DEF AtPlace
    <2> QED BY <1>2, <1>3, <1>7, <2>1
<1> QED BY <1>5, <1>6, <1>7

\* The semaphore and the free list keep their distance when a client moves.
LEMMA MoveCount ==
    ASSUME LayerInv, NEW t \in Clients, NEW x, SetXfer(t, x),
           NEW l \in Nat, NEW c \in Nat, Len(pool'.free) = l, pool'.count = c,
           \/ /\ l = Len(pool.free) /\ c = pool.count
              /\ xfer[t].at \notin {"taking", "given"} /\ x.at \notin {"taking", "given"}
           \/ l = Len(pool.free) /\ c = pool.count - 1 /\ xfer[t].at = "out" /\ x.at = "taking"
           \/ l = Len(pool.free) - 1 /\ c = pool.count /\ xfer[t].at = "taking" /\ x.at = "taken"
           \/ l = Len(pool.free) + 1 /\ c = pool.count /\ xfer[t].at = "end" /\ x.at = "given"
           \/ l = Len(pool.free) /\ c = pool.count + 1 /\ xfer[t].at = "given" /\ x.at = "out"
    PROVE  CountInv'
<1> DEFINE a == Cardinality(AtPlace("taking"))
           b == Cardinality(AtPlace("given"))
           A == Cardinality(AtPlace("taking")')
           B == Cardinality(AtPlace("given")')
<1>1. xfer \in [Clients -> XferRecord]
    BY DEF LayerInv, LayerTypes, XferRecord
<1>2. /\ a \in Nat /\ A \in Nat
      /\ xfer[t].at = "taking" /\ x.at # "taking" => A = a - 1
      /\ xfer[t].at # "taking" /\ x.at = "taking" => A = a + 1
      /\ (xfer[t].at = "taking" <=> x.at = "taking") => A = a
    BY <1>1, PlaceMoves
<1>3. /\ b \in Nat /\ B \in Nat
      /\ xfer[t].at = "given" /\ x.at # "given" => B = b - 1
      /\ xfer[t].at # "given" /\ x.at = "given" => B = b + 1
      /\ (xfer[t].at = "given" <=> x.at = "given") => B = b
    BY <1>1, PlaceMoves
<1>4. Len(pool.free) = pool.count + a + b /\ Len(pool.free) \in Nat /\ pool.count \in Nat
    BY DEF LayerInv, CountInv, LayerTypes
<1>5. CountInv' <=> l = c + A + B
    BY DEF CountInv
<1> HIDE DEF a, b, A, B
<1> DEFINE n == Len(pool.free)
           m == pool.count
<1>6. \/ l = n /\ c = m /\ A = a /\ B = b
      \/ l = n /\ c = m - 1 /\ A = a + 1 /\ B = b
      \/ l = n - 1 /\ c = m /\ A = a - 1 /\ B = b
      \/ l = n + 1 /\ c = m /\ A = a /\ B = b + 1
      \/ l = n /\ c = m + 1 /\ A = a /\ B = b - 1
    BY <1>2, <1>3
<1>7. n = m + a + b /\ n \in Nat /\ m \in Nat
    BY <1>4
<1> HIDE DEF n, m
<1>8. l = c + A + B
    BY <1>2, <1>3, <1>6, <1>7
<1> QED BY <1>5, <1>8

\* The steps of a client keep the pool.
LEMMA ClientKeepsPool ==
    ASSUME LayerInv, NEW t \in Clients, TakeCount(t) \/ ClientXfer(t)
    PROVE  OwnInv' /\ CountInv'
<1> USE WhoIsWho
<1>1. /\ pool \in [free : Seq(Irps), count : Nat] /\ pool.free \in Seq(Irps) /\ pool.count \in Nat
      /\ Len(pool.free) \in Nat
      /\ xfer \in [Clients -> XferRecord] /\ xfer[t] \in XferRecord
      /\ OwnInv
    BY DEF LayerInv, LayerTypes, XferRecord
<1>2. ASSUME NEW x, SetXfer(t, x), UNCHANGED pool, x.irp = xfer[t].irp,
             x.at \in Holding, xfer[t].at \in Holding
      PROVE  OwnInv' /\ CountInv'
    <2>1. OwnInv'
        BY <1>1, <1>2, MoveOwn
    <2>2. CountInv'
        BY <1>1, <1>2, MoveCount DEF Holding
    <2> QED BY <2>1, <2>2
<1>3. CASE TakeCount(t)
    <2> DEFINE x == [Out EXCEPT !.at = "taking"]
    <2>1. x.at = "taking" /\ x.irp = NoIrp
        BY DEF Out
    <2>2. SetXfer(t, x) /\ xfer[t].at = "out" /\ pool.count > 0
        BY <1>3 DEF TakeCount
    <2> HIDE DEF x
    <2>3. pool'.free = pool.free /\ pool'.count = pool.count - 1
        BY <1>1, <1>3 DEF TakeCount
    <2>4. xfer[t].irp = NoIrp
        BY <1>1, <2>2 DEF OwnInv, Holding, XferRecord
    <2>5. OwnInv'
        BY <1>1, <2>1, <2>2, <2>3, <2>4, MoveOwn DEF Holding
    <2>6. pool.count - 1 \in Nat
        BY <1>1, <2>2
    <2>7. CountInv'
        BY <1>1, <2>1, <2>2, <2>3, <2>6, MoveCount
    <2> QED BY <2>5, <2>7
<1>4. CASE TakeIrp(t)
    <2> DEFINE n == Len(pool.free)
               i == pool.free[n]
               f == SubSeq(pool.free, 1, n - 1)
               x == [Out EXCEPT !.at = "taken", !.irp = i]
    <2>1. x.at = "taken" /\ x.irp = i /\ SetXfer(t, x) /\ xfer[t].at = "taking"
        BY <1>4 DEF TakeIrp, Out
    <2>2. /\ n \in Nat \ {0} /\ i \in Irps
          /\ \A u \in Clients : xfer[u].irp # i
        BY <2>1, TakerFinds
    <2>3. pool'.free = f /\ pool'.count = pool.count
        BY <1>1, <1>4 DEF TakeIrp
    <2>4. f \in Seq(Irps) /\ Len(f) = n - 1 /\ \A m \in 1 .. n - 1 : f[m] = pool.free[m]
        <3>1. \A m \in 1 .. n - 1 : pool.free[m] \in Irps
            BY <1>1, <2>2
        <3>2. /\ f \in Seq(Irps)
              /\ Len(f) = IF 1 <= n - 1 THEN (n - 1) - 1 + 1 ELSE 0
              /\ \A m \in 1 .. (n - 1) - 1 + 1 : f[m] = pool.free[1 + m - 1]
            BY <2>2, <3>1, SubSeqProperties
        <3>3. \A m \in 1 .. n - 1 : m \in 1 .. (n - 1) - 1 + 1 /\ 1 + m - 1 = m
            BY <2>2
        <3>4. (IF 1 <= n - 1 THEN (n - 1) - 1 + 1 ELSE 0) = n - 1
            BY <2>2
        <3> QED BY <3>2, <3>3, <3>4
    <2> HIDE DEF f, x
    <2>5. DOMAIN pool.free = 1 .. n /\ DOMAIN f = 1 .. n - 1
        BY <1>1, <2>2, <2>4, LenProperties
    <2>6. Distinct(pool.free)
        BY <1>1 DEF OwnInv
    <2>7. Distinct(f)
        BY <2>2, <2>4, <2>5, <2>6 DEF Distinct
    <2>8. Elems(f) = Elems(pool.free) \ {i}
        <3>1. i \notin Elems(f)
            <4> SUFFICES ASSUME NEW m \in 1 .. n - 1, f[m] = i
                         PROVE  FALSE
                BY <2>5 DEF Elems
            <4>1. m \in 1 .. n /\ n \in 1 .. n /\ m # n /\ pool.free[m] = pool.free[n]
                BY <2>2, <2>4
            <4> QED BY <4>1, <2>5, <2>6 DEF Distinct
        <3>2. Elems(f) \subseteq Elems(pool.free)
            BY <2>2, <2>4, <2>5 DEF Elems
        <3>3. ASSUME NEW m \in 1 .. n, pool.free[m] # i
              PROVE  pool.free[m] \in Elems(f)
            <4>1. m \in 1 .. n - 1
                BY <2>2, <3>3
            <4> QED BY <4>1, <2>4, <2>5 DEF Elems
        <3>4. \A e \in Elems(pool.free) : \E m \in 1 .. n : e = pool.free[m]
            BY <2>5 DEF Elems
        <3> QED BY <3>1, <3>2, <3>3, <3>4
    <2> HIDE DEF n, i
    <2>9. xfer'[t] = x /\ \A u \in Clients : u # t => xfer'[u] = xfer[u]
        BY <1>1, <2>1 DEF SetXfer
    <2>10. xfer[t].irp \notin Irps
        BY <1>1, <2>1 DEF OwnInv, Holding
    <2>11. OwnInv'
        <3>1. \A u \in Clients : xfer'[u].irp \in Irps <=> xfer'[u].at \in Holding
            BY <1>1, <2>1, <2>2, <2>9 DEF OwnInv, Holding
        <3>2. \A u, v \in Clients : xfer'[u].irp = xfer'[v].irp /\ xfer'[u].irp # NoIrp => u = v
            BY <1>1, <2>1, <2>2, <2>9 DEF OwnInv
        <3>3. Elems(pool'.free) = Irps \ {xfer'[u].irp : u \in Clients}
            <4>1. Elems(pool'.free) = (Irps \ {xfer[u].irp : u \in Clients}) \ {i}
                BY <1>1, <2>3, <2>8 DEF OwnInv
            <4> QED BY <4>1, <2>1, <2>9, <2>10
        <3> QED BY <3>1, <3>2, <3>3, <2>3, <2>7 DEF OwnInv
    <2>12. n - 1 \in Nat /\ Len(pool'.free) = n - 1 /\ n = Len(pool.free)
        BY <2>2, <2>3, <2>4 DEF n
    <2>13. CountInv'
        BY <1>1, <2>1, <2>3, <2>12, MoveCount
    <2> QED BY <2>11, <2>13
<1>5. CASE GiveIrp(t)
    <2> DEFINE i == xfer[t].irp
               f == Append(pool.free, i)
               x == [Out EXCEPT !.at = "given"]
    <2>1. x.at = "given" /\ x.irp = NoIrp /\ SetXfer(t, x) /\ xfer[t].at = "end"
        BY <1>5 DEF GiveIrp, Out
    <2>2. i \in Irps
        BY <1>1, <2>1 DEF OwnInv, Holding
    <2>3. pool'.free = f /\ pool'.count = pool.count
        BY <1>1, <1>5 DEF GiveIrp
    <2>4. i \notin Elems(pool.free) /\ Distinct(pool.free)
        BY <1>1 DEF OwnInv
    <2>5. Elems(f) = Elems(pool.free) \cup {i} /\ Distinct(f)
        BY <1>1, <2>2, <2>4, AppendElems
    <2>6. Len(f) = Len(pool.free) + 1
        BY <1>1, <2>2
    <2> HIDE DEF f, x
    <2>7. xfer'[t] = x /\ \A u \in Clients : u # t => xfer'[u] = xfer[u]
        BY <1>1, <2>1 DEF SetXfer
    <2>8. \A u \in Clients : u # t => xfer[u].irp # i
        BY <1>1, <2>2 DEF OwnInv
    <2>9. OwnInv'
        <3>1. \A u \in Clients : xfer'[u].irp \in Irps <=> xfer'[u].at \in Holding
            BY <1>1, <2>1, <2>2, <2>7 DEF OwnInv, Holding
        <3>2. \A u, v \in Clients : xfer'[u].irp = xfer'[v].irp /\ xfer'[u].irp # NoIrp => u = v
            BY <1>1, <2>1, <2>2, <2>7 DEF OwnInv
        <3>3. Elems(pool'.free) = Irps \ {xfer'[u].irp : u \in Clients}
            <4>1. Elems(pool'.free) = (Irps \ {xfer[u].irp : u \in Clients}) \cup {i}
                BY <1>1, <2>3, <2>5 DEF OwnInv
            <4> QED BY <4>1, <2>1, <2>2, <2>7, <2>8
        <3> QED BY <3>1, <3>2, <3>3, <2>3, <2>5 DEF OwnInv
    <2>10. Len(pool.free) + 1 \in Nat
        BY <1>1
    <2>11. CountInv'
        BY <1>1, <2>1, <2>3, <2>6, <2>10, MoveCount
    <2> QED BY <2>9, <2>11
<1>6. CASE GiveCount(t)
    <2>1. Out.at = "out" /\ Out.irp = NoIrp /\ SetXfer(t, Out) /\ xfer[t].at = "given"
        BY <1>6 DEF GiveCount, Out
    <2>2. pool'.free = pool.free /\ pool'.count = pool.count + 1 /\ pool.count + 1 \in Nat
        BY <1>1, <1>6 DEF GiveCount
    <2>3. xfer[t].irp = NoIrp
        BY <1>1, <2>1 DEF OwnInv, Holding, XferRecord
    <2>4. OwnInv'
        BY <1>1, <2>1, <2>2, <2>3, MoveOwn DEF Holding
    <2>5. CountInv'
        BY <1>1, <2>1, <2>2, MoveCount
    <2> QED BY <2>4, <2>5
<1>7. CASE (\E p \in Pipes : Enqueue(t, p)) \/ Enqueued(t) \/ Refused(t) \/ WaitBits(t)
    <2>1. \A a \in {"enqueue", "wait", "end"} :
             /\ [xfer[t] EXCEPT !.at = a].at = a
             /\ [xfer[t] EXCEPT !.at = a].irp = xfer[t].irp
        BY <1>1 DEF XferRecord
    <2>2. \A r : /\ [xfer[t] EXCEPT !.at = "end", !.result = r].at = "end"
                 /\ [xfer[t] EXCEPT !.at = "end", !.result = r].irp = xfer[t].irp
        BY <1>1 DEF XferRecord
    <2>3. CASE \E p \in Pipes : Enqueue(t, p)
        BY <1>2, <2>1, <2>3 DEF Enqueue, Holding
    <2>4. CASE Enqueued(t)
        BY <1>2, <2>1, <2>4 DEF Enqueued, Holding
    <2>5. CASE Refused(t)
        BY <1>2, <2>1, <2>5 DEF Refused, Holding
    <2>6. CASE WaitBits(t)
        BY <1>2, <2>2, <2>6 DEF WaitBits, Holding
    <2> QED BY <1>7, <2>3, <2>4, <2>5, <2>6
<1> QED BY <1>3, <1>4, <1>5, <1>6, <1>7 DEF ClientXfer

-----------------------------------------------------------------------------
(* Who is inside the driver, and who waits *)

\* The IRPs stay in the pipes they are in.
PtrSame == \A i \in Irps : irp'[i].ptr = irp[i].ptr

\* What finishes an IRP, or starts it, leaves it in its pipe.
LEMMA FinishKeepsPtr ==
    ASSUME NEW m \in [Irps -> IrpRecord], NEW S, NEW st, NEW j, NEW i \in Irps
    PROVE  /\ Finished(m, S, st)[i].ptr = m[i].ptr
           /\ InFlight(Finished(m, S, st), j)[i].ptr = m[i].ptr
<1> DEFINE c == [m[i] EXCEPT !.flag = "DONE", !.status = st]
           f == Finished(m, S, st)
<1>1. m[i] \in IrpRecord
    OBVIOUS
<1>2. c.ptr = m[i].ptr
    BY <1>1 DEF IrpRecord
<1>3. f[i] = IF i \in S THEN c ELSE m[i]
    BY DEF Finished
<1>4. f = [k \in Irps |-> f[k]]
    BY DEF Finished
<1> HIDE DEF c, f
<1>5. f[i].ptr = m[i].ptr
    BY <1>2, <1>3
<1>6. [f[i] EXCEPT !.flag = "INFLIGHT"].ptr = f[i].ptr
    <2>1. CASE i \in S
        <3>1. [c EXCEPT !.flag = "INFLIGHT"].ptr = c.ptr
            BY <1>1 DEF c, IrpRecord
        <3> QED BY <1>3, <2>1, <3>1
    <2>2. CASE i \notin S
        BY <1>1, <1>3, <2>2 DEF IrpRecord
    <2> QED BY <2>1, <2>2
<1>7. InFlight(f, j)[i] = IF i = j THEN [f[i] EXCEPT !.flag = "INFLIGHT"] ELSE f[i]
    BY <1>4 DEF InFlight
<1> QED BY <1>5, <1>6, <1>7 DEF f

\* The interrupts, the port, and the commands of the event task move no IRP between pipes,
\* and no task into or out of the driver.
LEMMA QuietSteps ==
    ASSUME LayerInv,
           \/ \E p \in Pipes : ChanStep(p)
           \/ \E s \in LossPortStates : PortLost(s)
           \/ InvalidateBegin \/ InvalidateNext
           \/ \E t \in Tasks, p \in Pipes : CommandNow(t, p, "RESET")
           \/ \E t \in Tasks, p \in Pipes : Alloc(t, p) \/ FreePipe(t, p)
           \/ \E l \in {"use_after_free", "tailq"} : Fail(l)
           \/ UNCHANGED vars
    PROVE  PtrSame /\ call' = call
<1>1. irp \in [Irps -> IrpRecord]
    BY DEF LayerInv, DriverInv, IInv, PipeInv
<1>2. UNCHANGED irp => PtrSame
    BY DEF PtrSame
<1>3. ASSUME NEW S, NEW st, irp' = Finished(irp, S, st)
      PROVE  PtrSame
    BY <1>1, <1>3, FinishKeepsPtr DEF PtrSame
<1>4. ASSUME NEW S, NEW st, NEW j, irp' = InFlight(Finished(irp, S, st), j)
      PROVE  PtrSame
    BY <1>1, <1>4, FinishKeepsPtr DEF PtrSame
<1>5. ASSUME NEW p \in Pipes, ChanStep(p)
      PROVE  PtrSame /\ call' = call
    <2>1. CASE ChanIgnored(p) \/ ChanDoneOrphan(p)
        BY <1>2, <2>1 DEF ChanIgnored, ChanDoneOrphan, Fail
    <2>2. CASE ChanDoneNext(p)
        BY <1>3, <1>4, <2>2 DEF ChanDoneNext, DoneIrps
    <2>3. CASE ChanDonePause(p) \/ ChanDoneCommand(p)
        BY <1>3, <2>3 DEF ChanDonePause, ChanDoneCommand, DoneIrps
    <2>4. ASSUME NEW e \in ErrorEvents, ChanError(p, e)
          PROVE  PtrSame /\ call' = call
        BY <1>3, <2>4 DEF ChanError
    <2> QED BY <1>5, <2>1, <2>2, <2>3, <2>4 DEF ChanStep
<1>6. ASSUME NEW s, PortLost(s)
      PROVE  PtrSame /\ call' = call
    BY <1>2, <1>6 DEF PortLost, PortUnchanged
<1>7. ASSUME NEW v, Visit(v)
      PROVE  PtrSame /\ call' = call
    BY <1>2, <1>3, <1>7 DEF Visit, InvalidateActive, InvalidateIdle
<1>8. CASE InvalidateBegin \/ InvalidateNext
    BY <1>7, <1>8 DEF InvalidateBegin, InvalidateNext
<1>9. ASSUME NEW t \in Tasks, NEW p \in Pipes, CommandNow(t, p, "RESET")
      PROVE  PtrSame /\ call' = call
    BY <1>2, <1>3, <1>9 DEF CommandNow, CommandedIrps, CommandRetires
<1>10. ASSUME NEW t \in Tasks, NEW p \in Pipes, Alloc(t, p) \/ FreePipe(t, p)
       PROVE  PtrSame /\ call' = call
    BY <1>2, <1>10 DEF Alloc, FreePipe
<1>11. ASSUME NEW l, Fail(l)
       PROVE  PtrSame /\ call' = call
    BY <1>2, <1>11 DEF Fail
<1>12. CASE UNCHANGED vars
    BY <1>2, <1>12 DEF vars
<1> QED BY <1>5, <1>6, <1>8, <1>9, <1>10, <1>11, <1>12

\* What the steps of the layer that are not a client's do with the driver.
LEMMA OtherSteps ==
    ASSUME LayerInv, XferNext, \A t \in Clients : ~TakeCount(t) /\ ~ClientXfer(t)
    PROVE  /\ UNCHANGED <<pool, xfer>> /\ call' = call
           /\ PtrSame \/ EventDequeue \/ CloseDequeue
<1> USE WhoIsWho
<1>1. ASSUME NEW p \in Pipes, ChanEvent(p) \/ Open(p) \/ Close(p)
      PROVE  UNCHANGED <<pool, xfer>> /\ call' = call /\ PtrSame
    <2>1. ChanStep(p) \/ Alloc(PortTask, p) \/ UNCHANGED vars
        BY <1>1 DEF ChanEvent, Open, Close
    <2>2. UNCHANGED <<pool, xfer>>
        BY <1>1 DEF ChanEvent, Open, Close, xferVars
    <2> QED BY <2>1, <2>2, QuietSteps
<1>2. CASE EventXfer
    <2>1. CASE Receive \/ EventTooLate \/ EventSet
        <3>1. UNCHANGED vars /\ UNCHANGED <<pool, xfer>>
            BY <2>1 DEF Receive, EventTooLate, EventSet
        <3> QED BY <3>1, QuietSteps
    <2>2. CASE EventDequeue
        BY <2>2 DEF EventDequeue, TakeResult, Dequeue
    <2>3. CASE EventPanic
        <3>1. (\E l \in {"use_after_free", "tailq"} : Fail(l)) /\ UNCHANGED <<pool, xfer>>
            BY <2>3 DEF EventPanic, DequeueMisplaced, xferVars
        <3> QED BY <3>1, QuietSteps
    <2>4. CASE EventReset
        <3>1. evtask.pipe \in Pipes /\ UNCHANGED <<pool, xfer>>
            BY <2>4 DEF EventReset, At, LayerInv, LayerTypes
        <3>2. CommandNow(EventTask, evtask.pipe, "RESET") \/ UNCHANGED vars
            BY <2>4 DEF EventReset
        <3> QED BY <3>1, <3>2, QuietSteps
    <2> QED BY <1>2, <2>1, <2>2, <2>3, <2>4 DEF EventXfer
<1>3. CASE CloseXfer
    <2>1. CASE CloseDequeue
        BY <2>1 DEF CloseDequeue, TakeResult, Dequeue
    <2>2. CASE CloseDrained
        <3>1. UNCHANGED vars /\ UNCHANGED <<pool, xfer>>
            BY <2>2 DEF CloseDrained
        <3> QED BY <3>1, QuietSteps
    <2>3. CASE CloseEnd
        <3>1. closing.pipe \in Pipes /\ UNCHANGED <<pool, xfer>>
            BY <2>3 DEF CloseEnd, NotClosing, LayerInv, LayerTypes
        <3>2. FreePipe(PortTask, closing.pipe) \/ UNCHANGED vars
            BY <2>3 DEF CloseEnd
        <3> QED BY <3>1, <3>2, QuietSteps
    <2>4. CASE CloseMisplaced
        <3>1. Fail("tailq") /\ UNCHANGED <<pool, xfer>>
            BY <2>4 DEF CloseMisplaced, DequeueMisplaced, xferVars
        <3> QED BY <3>1, QuietSteps
    <2> QED BY <1>3, <2>1, <2>2, <2>3, <2>4 DEF CloseXfer
<1>4. CASE Disconnect \/ InvalidatePipe
    <2>1. (\E s \in LossPortStates : PortLost(s)) \/ InvalidateBegin \/ InvalidateNext
        BY <1>4 DEF Disconnect, InvalidatePipe
    <2>2. UNCHANGED <<pool, xfer>>
        BY <1>4 DEF Disconnect, InvalidatePipe
    <2> QED BY <2>1, <2>2, QuietSteps
<1> QED BY <1>1, <1>2, <1>3, <1>4 DEF XferNext

\* A step of a client, as the others see it.
LEMMA ClientFrame ==
    ASSUME LayerInv, NEW t \in Clients, TakeCount(t) \/ ClientXfer(t)
    PROVE  /\ UNCHANGED <<evtq, evtask, closing, lost>>
           /\ \A u \in Clients : u # t => xfer'[u] = xfer[u]
           /\ \A u \in Tasks : u # t => call'[u] = call[u]
<1>1. UNCHANGED <<evtq, evtask, closing, lost>>
    BY DEF TakeCount, ClientXfer, TakeIrp, GiveIrp, GiveCount, Enqueue, Enqueued, Refused, WaitBits
<1>2. \E x : SetXfer(t, x)
    BY DEF TakeCount, ClientXfer, TakeIrp, GiveIrp, GiveCount, Enqueue, Enqueued, Refused, WaitBits
<1>3. \A u \in Clients : u # t => xfer'[u] = xfer[u]
    BY <1>2 DEF SetXfer, LayerInv, LayerTypes
<1>4. \/ call' = call
      \/ Return(t)
      \/ \E c : call' = [call EXCEPT ![t] = c]
    BY DEF TakeCount, ClientXfer, TakeIrp, GiveIrp, GiveCount, Enqueue, Enqueued, Refused, WaitBits,
       EnqueueCheck, EnqueueReject, EnqueueStart, EnqueuePend, vars
<1>5. \A u \in Tasks : u # t => call'[u] = call[u]
    BY <1>4 DEF Return, LayerInv, DriverInv, IInv, RestInv
<1> QED BY <1>1, <1>3, <1>5

\* A client is inside the driver between the check of its IRP and the critical section.
LEMMA ClientCalls ==
    ASSUME LayerInv, NEW t \in Clients, TakeCount(t) \/ ClientXfer(t)
    PROVE  CallInv'
<1> USE WhoIsWho
<1>1. /\ call \in [Tasks -> CallRecord] /\ t \in Tasks /\ xfer \in [Clients -> XferRecord]
      /\ xfer[t] \in XferRecord
      /\ \A u \in Tasks : u # t => call'[u] = call[u]
      /\ \A u \in Clients : u # t => xfer'[u] = xfer[u]
    BY ClientFrame DEF LayerInv, LayerTypes, XferRecord, DriverInv, IInv, RestInv
<1>2. ASSUME call'[t].op = "none" \/ (/\ xfer'[t].at = "enqueue" /\ call'[t].op = "enqueue"
                                      /\ call'[t].irp = xfer'[t].irp)
      PROVE  CallInv'
    BY <1>1, <1>2 DEF LayerInv, CallInv
<1>3. CASE TakeCount(t) \/ TakeIrp(t) \/ GiveIrp(t) \/ GiveCount(t) \/ WaitBits(t)
    <2>1. xfer[t].at # "enqueue" /\ call' = call
        BY <1>3 DEF TakeCount, TakeIrp, GiveIrp, GiveCount, WaitBits, vars
    <2>2. call[t].op = "none"
        BY <1>1, <2>1 DEF LayerInv, CallInv
    <2> QED BY <1>2, <2>1, <2>2
<1>4. ASSUME NEW p \in Pipes, Enqueue(t, p)
      PROVE  CallInv'
    <2>1. call'[t] = [op |-> "enqueue", pipe |-> p, irp |-> xfer[t].irp, woken |-> FALSE]
        BY <1>1, <1>4 DEF Enqueue, EnqueueCheck
    <2>2. xfer'[t] = [xfer[t] EXCEPT !.at = "enqueue"]
        BY <1>1, <1>4 DEF Enqueue, SetXfer
    <2>3. xfer'[t].at = "enqueue" /\ xfer'[t].irp = xfer[t].irp
        BY <1>1, <2>2 DEF XferRecord
    <2> QED BY <1>2, <2>1, <2>3
<1>5. CASE Enqueued(t) \/ Refused(t)
    <2>1. Return(t)
        BY <1>5 DEF Enqueued, Refused, EnqueueStart, EnqueuePend, EnqueueReject
    <2>2. call'[t].op = "none"
        BY <1>1, <2>1 DEF Return, IdleCall
    <2> QED BY <1>2, <2>2
<1> QED BY <1>3, <1>4, <1>5 DEF ClientXfer

\* The IRP of a client that is not waiting is in no pipe, has no bits set and is not in the
\* hands of the event task.
LEMMA Elsewhere ==
    ASSUME LayerInv, NEW t \in Clients, xfer[t].at # "wait", NEW i \in Irps, xfer[t].irp = i
    PROVE  /\ ~InPipe(i) /\ bits[i] = {} /\ ~Awaited(i)
           /\ evtask.at \in {"reset", "set"} => evtask.irp # i
<1>1. ~Awaited(i)
    BY WhoIsWho DEF LayerInv, OwnInv, Awaited, Awaits
<1> QED BY <1>1 DEF LayerInv, UseInv

\* Steps after which every IRP that was awaited still is.
LEMMA UseKept ==
    ASSUME LayerInv, bits' = bits, PtrSame, \A i \in Irps : Awaited(i) => Awaited(i)',
           \/ UNCHANGED evtask
           \/ evtask'.at \in {"wait", "dequeue"}
           \/ evtask.at \in {"reset", "set"} /\ evtask'.irp = evtask.irp
    PROVE  UseInv'
<1>1. \A i \in Irps : InPipe(i)' <=> InPipe(i)
    BY DEF PtrSame, InPipe
<1>2. UseInv
    BY DEF LayerInv
<1> HIDE DEF Awaited, InPipe
<1> QED BY <1>1, <1>2 DEF UseInv

\* The steps of a client: it begins to wait when its IRP enters a pipe, and waits until it
\* has cleared the bits of its IRP.
LEMMA ClientUses ==
    ASSUME LayerInv, NEW t \in Clients, TakeCount(t) \/ ClientXfer(t)
    PROVE  UseInv'
<1> USE WhoIsWho
<1>1. /\ xfer \in [Clients -> XferRecord] /\ xfer[t] \in XferRecord /\ UseInv /\ OwnInv
      /\ bits \in [Irps -> SUBSET {0, 1, 2}] /\ irp \in [Irps -> IrpRecord]
      /\ UNCHANGED evtask
      /\ \A u \in Clients : u # t => xfer'[u] = xfer[u]
    BY ClientFrame DEF LayerInv, LayerTypes, XferRecord, DriverInv, IInv, PipeInv
<1>2. ASSUME bits' = bits, irp' = irp, xfer[t].at # "wait"
      PROVE  UseInv'
    <2>1. \A i \in Irps : Awaited(i) => Awaited(i)'
        BY <1>1, <1>2 DEF Awaited, Awaits
    <2> QED BY <1>1, <1>2, <2>1, UseKept DEF PtrSame
<1>3. CASE TakeCount(t) \/ GiveIrp(t) \/ GiveCount(t)
    BY <1>2, <1>3 DEF TakeCount, GiveIrp, GiveCount, vars
<1>4. CASE TakeIrp(t)
    BY <1>2, <1>4, TakeIrpStutters DEF TakeIrp, vars
<1>5. CASE (\E p \in Pipes : Enqueue(t, p)) \/ Refused(t)
    BY <1>2, <1>5 DEF Enqueue, EnqueueCheck, Refused, EnqueueReject
<1>6. CASE Enqueued(t)
    <2>0. xfer[t].at = "enqueue" /\ xfer[t].irp \in Irps /\ call[t].op = "enqueue"
        BY <1>1, <1>6 DEF Enqueued, EnqueueStart, EnqueuePend, Enqueuing, OwnInv, Holding
    <2>1. PICK i \in Irps : i = xfer[t].irp
        BY <2>0
    <2>2. call[t].irp = i
        BY <2>0, <2>1 DEF LayerInv, CallInv
    <2>3. /\ ~InPipe(i) /\ bits[i] = {} /\ ~Awaited(i)
          /\ evtask.at \in {"reset", "set"} => evtask.irp # i
        BY <2>0, <2>1, Elsewhere
    <2>4. xfer'[t] = [xfer[t] EXCEPT !.at = "wait"]
        BY <1>1, <1>6 DEF Enqueued, SetXfer
    <2>5. xfer'[t].at = "wait" /\ xfer'[t].irp = i
        BY <1>1, <2>1, <2>4 DEF XferRecord
    <2>6. \A j \in Irps : j # i => irp'[j] = irp[j]
        BY <1>1, <1>6, <2>2 DEF Enqueued, EnqueueStart, EnqueuePend
    <2>7. bits' = bits
        BY <1>6 DEF Enqueued
    <2>8. \A j \in Irps : Awaited(j) => Awaited(j)'
        BY <1>1, <2>0, <2>5 DEF Awaited, Awaits
    <2>9. Awaited(i)'
        BY <2>5 DEF Awaited, Awaits
    <2>10. \A j \in Irps : j # i => (InPipe(j)' <=> InPipe(j))
        BY <2>6 DEF InPipe
    <2> HIDE DEF Awaited, InPipe
    <2> QED BY <1>1, <2>1, <2>3, <2>7, <2>8, <2>9, <2>10 DEF UseInv
<1>7. CASE WaitBits(t)
    <2>0. xfer[t].at = "wait" /\ xfer[t].irp \in Irps /\ bits[xfer[t].irp] # {}
        BY <1>1, <1>7 DEF WaitBits, OwnInv, Holding
    <2>1. PICK i \in Irps : i = xfer[t].irp
        BY <2>0
    <2>2. bits'[i] = {} /\ \A j \in Irps : j # i => bits'[j] = bits[j]
        BY <1>1, <1>7, <2>1 DEF WaitBits, Cleared
    <2>3. ~InPipe(i) /\ (evtask.at \in {"reset", "set"} => evtask.irp # i)
        BY <1>1, <2>0, <2>1 DEF UseInv
    <2>4. \A j \in Irps : InPipe(j)' <=> InPipe(j)
        BY <1>7 DEF WaitBits, vars, InPipe
    <2>5. \A j \in Irps : j # i /\ Awaited(j) => Awaited(j)'
        BY <1>1, <2>1 DEF Awaited, Awaits
    <2> HIDE DEF Awaited, InPipe
    <2> QED BY <1>1, <2>1, <2>2, <2>3, <2>4, <2>5 DEF UseInv
<1> QED BY <1>3, <1>4, <1>5, <1>6, <1>7 DEF ClientXfer

\* The other steps: an IRP that leaves a pipe is in the hands of the event task, which sets
\* its bits, or its bits are set at once.
LEMMA OtherUses ==
    ASSUME LayerInv, XferNext, \A t \in Clients : ~TakeCount(t) /\ ~ClientXfer(t)
    PROVE  UseInv'
<1> USE WhoIsWho
<1>1. UNCHANGED <<pool, xfer>> /\ (PtrSame \/ EventDequeue \/ CloseDequeue)
    BY OtherSteps
<1>2. \A i \in Irps : Awaited(i)' <=> Awaited(i)
    BY <1>1 DEF Awaited, Awaits
<1>3. UseInv /\ bits \in [Irps -> SUBSET {0, 1, 2}] /\ irp \in [Irps -> IrpRecord]
      /\ evtask \in EventTaskRecord
    BY DEF LayerInv, LayerTypes, EventTaskRecord, DriverInv, IInv, PipeInv
<1>4. ASSUME NEW t \in Tasks, NEW p \in Pipes, NEW i, i = Head(pipe[p].done),
             TakeResult(t, p)
      PROVE  /\ i \in Irps /\ bits[i] = {} /\ Awaited(i)
             /\ evtask.at \in {"reset", "set"} => evtask.irp # i
             /\ ~InPipe(i)'
             /\ \A j \in Irps : j # i => (InPipe(j)' <=> InPipe(j))
    <2>1. i \in Irps /\ InPipe(i) /\ irp' = [irp EXCEPT ![i] = NewIrp]
        BY <1>4, ResultTaken
    <2>2. irp'[i] = NewIrp /\ \A j \in Irps : j # i => irp'[j] = irp[j]
        BY <1>3, <2>1
    <2>3. ~InPipe(i)'
        BY <2>2 DEF InPipe, NewIrp
    <2>4. \A j \in Irps : j # i => (InPipe(j)' <=> InPipe(j))
        BY <2>2 DEF InPipe
    <2>5. bits[i] = {} /\ Awaited(i) /\ (evtask.at \in {"reset", "set"} => evtask.irp # i)
        BY <1>3, <2>1 DEF UseInv
    <2> QED BY <2>1, <2>3, <2>4, <2>5
<1>5. CASE EventDequeue
    <2>1. evtask.pipe \in Pipes /\ TakeResult(EventTask, evtask.pipe)
        BY <1>5 DEF EventDequeue, At, LayerInv, LayerTypes
    <2>2. PICK p \in Pipes : p = evtask.pipe
        BY <2>1
    <2>3. PICK i : i = Head(pipe[p].done)
        OBVIOUS
    <2>4. /\ i \in Irps /\ bits[i] = {} /\ Awaited(i) /\ ~InPipe(i)'
          /\ \A j \in Irps : j # i => (InPipe(j)' <=> InPipe(j))
        BY <1>4, <2>1, <2>2, <2>3
    <2>5. evtask'.irp = i /\ bits' = bits
        BY <1>3, <1>5, <2>2, <2>3 DEF EventDequeue, EventTaskRecord
    <2> HIDE DEF Awaited, InPipe
    <2> QED BY <1>2, <1>3, <2>4, <2>5 DEF UseInv
<1>6. CASE CloseDequeue
    <2>1. closing.pipe \in Pipes /\ TakeResult(PortTask, closing.pipe)
        BY <1>6 DEF CloseDequeue, LayerInv, LayerTypes
    <2>2. PICK p \in Pipes : p = closing.pipe
        BY <2>1
    <2>3. PICK i : i = Head(pipe[p].done)
        OBVIOUS
    <2>4. /\ i \in Irps /\ bits[i] = {} /\ Awaited(i) /\ ~InPipe(i)'
          /\ evtask.at \in {"reset", "set"} => evtask.irp # i
          /\ \A j \in Irps : j # i => (InPipe(j)' <=> InPipe(j))
        BY <1>4, <2>1, <2>2, <2>3
    <2>5. \A j \in Irps : j # i => bits'[j] = bits[j]
        BY <1>3, <1>6, <2>2, <2>3 DEF CloseDequeue, SetBits
    <2>6. UNCHANGED evtask
        BY <1>6 DEF CloseDequeue
    <2> HIDE DEF Awaited, InPipe
    <2> QED BY <1>2, <1>3, <2>4, <2>5, <2>6 DEF UseInv
<1>7. CASE EventSet
    <2>1. /\ evtask.irp \in Irps /\ ~InPipe(evtask.irp) /\ Awaited(evtask.irp)
        BY <1>3, <1>7 DEF EventSet, At, UseInv
    <2>2. \A j \in Irps : j # evtask.irp => bits'[j] = bits[j]
        BY <1>3, <1>7 DEF EventSet, SetBits
    <2>3. evtask'.at = "wait" /\ UNCHANGED irp
        BY <1>3, <1>7 DEF EventSet, Proceeds, At, After, EventTaskRecord, vars
    <2>4. \A j \in Irps : InPipe(j)' <=> InPipe(j)
        BY <2>3 DEF InPipe
    <2> HIDE DEF Awaited, InPipe
    <2> QED BY <1>2, <1>3, <2>1, <2>2, <2>3, <2>4 DEF UseInv
<1>8. ASSUME PtrSame, bits' = bits,
             \/ UNCHANGED evtask
             \/ evtask'.at \in {"wait", "dequeue"}
             \/ evtask.at \in {"reset", "set"} /\ evtask'.irp = evtask.irp
      PROVE  UseInv'
    BY <1>2, <1>8, UseKept
<1>9. ASSUME ~EventDequeue, ~CloseDequeue, ~EventSet
      PROVE  UseInv'
    <2>1. PtrSame
        BY <1>1, <1>9
    <2>2. CASE \E p \in Pipes : ChanEvent(p) \/ Open(p) \/ Close(p)
        BY <1>8, <2>1, <2>2 DEF ChanEvent, Open, Close, xferVars
    <2>3. CASE EventXfer
        <3>1. CASE Receive \/ EventTooLate \/ EventPanic
            BY <1>8, <2>1, <3>1 DEF Receive, EventTooLate, EventPanic, Waits, xferVars
        <3>2. CASE EventReset
            <4>1. evtask.at = "reset" /\ evtask'.irp = evtask.irp /\ bits' = bits
                BY <1>3, <3>2 DEF EventReset, At, Proceeds, EventTaskRecord
            <4> QED BY <1>8, <2>1, <4>1
        <3> QED BY <1>9, <2>3, <3>1, <3>2 DEF EventXfer
    <2>4. CASE CloseXfer
        BY <1>8, <1>9, <2>1, <2>4 DEF CloseXfer, CloseMisplaced, CloseDrained, CloseEnd, xferVars
    <2>5. CASE Disconnect \/ InvalidatePipe
        BY <1>8, <2>1, <2>5 DEF Disconnect, InvalidatePipe
    <2> QED BY <2>2, <2>3, <2>4, <2>5 DEF XferNext
<1> QED BY <1>5, <1>6, <1>7, <1>9

-----------------------------------------------------------------------------
(* Every step, and the theorems *)

LEMMA LayerStutters ==
    ASSUME LayerInv, UNCHANGED allVars
    PROVE  LayerInv'
<1>1. IInv'
    BY NextKeeps DEF LayerInv, DriverInv, allVars
<1>2. Placed' /\ CheckedIdle'
    <2>1. OneOwner
        BY PoolOwns DEF LayerInv
    <2>2. QueueStep
        BY <2>1, NextQueues DEF LayerInv, DriverInv, allVars
    <2> QED BY <2>2 DEF QueueStep
<1>3. LayerTypes' /\ OwnInv' /\ CountInv'
    BY DEF LayerInv, LayerTypes, OwnInv, CountInv, AtPlace, allVars, xferVars
<1>4. CallInv' /\ UseInv'
    BY DEF LayerInv, CallInv, UseInv, InPipe, Awaited, Awaits, allVars, vars, xferVars
<1> QED BY <1>1, <1>2, <1>3, <1>4 DEF LayerInv, DriverInv

\* Every step of the layer keeps its invariant.
LEMMA LayerKept ==
    ASSUME LayerInv, [XferNext]_allVars
    PROVE  LayerInv'
<1>1. CASE UNCHANGED allVars
    BY <1>1, LayerStutters
<1>2. CASE XferNext
    <2>1. DriverInv'
        BY <1>2, DriverKept
    <2>2. ASSUME NEW t \in Clients, TakeCount(t) \/ ClientXfer(t)
          PROVE  LayerInv'
        BY <2>1, <2>2, ClientLayerTyped, ClientKeepsPool, ClientCalls, ClientUses DEF LayerInv
    <2>3. ASSUME \A t \in Clients : ~TakeCount(t) /\ ~ClientXfer(t)
          PROVE  LayerInv'
        <3>1. UNCHANGED <<pool, xfer>> /\ call' = call
            BY <1>2, <2>3, OtherSteps
        <3>2. LayerTypes'
            BY <1>2, <2>1, <2>3, <3>1, OtherLayerTyped
        <3>3. OwnInv' /\ CountInv' /\ CallInv'
            BY <3>1 DEF LayerInv, OwnInv, CountInv, AtPlace, CallInv
        <3>4. UseInv'
            BY <1>2, <2>3, OtherUses
        <3> QED BY <2>1, <3>2, <3>3, <3>4 DEF LayerInv
    <2> QED BY <2>2, <2>3
<1> QED BY <1>1, <1>2

\* In every state of the transfer layer the queues of the driver are as they should be, an
\* IRP has one owner, and an IRP that is used has a client that waits for it.
THEOREM LayerInvariant == XferSpec => []LayerInv
<1>1. XferInit => LayerInv
    BY InitLayer
<1>2. LayerInv /\ [XferNext]_allVars => LayerInv'
    BY LayerKept
<1> QED BY <1>1, <1>2, PTL DEF XferSpec

\* The invariant says that every variable has its type; the semaphore never exceeds the
\* number of IRPs.
THEOREM XferTypeCorrect == XferSpec => []XferTypeOK
<1>1. LayerInv => XferTypeOK
    <2> SUFFICES ASSUME LayerInv
                 PROVE  XferTypeOK
        OBVIOUS
    <2>1. TypeOK
        BY DEF LayerInv, DriverInv, IInv, PipeInv, RestInv, TypeOK
    <2>2. pool.count \in 0 .. Cardinality(Irps)
        <3>1. /\ pool.free \in Seq(Irps) /\ Distinct(pool.free) /\ Elems(pool.free) \in SUBSET Irps
              /\ pool.count \in Nat
            BY DEF LayerInv, LayerTypes, OwnInv
        <3>2. Cardinality(Elems(pool.free)) = Len(pool.free)
            BY <3>1, DistinctCardinality
        <3>3. Cardinality(Elems(pool.free)) <= Cardinality(Irps) /\ Cardinality(Irps) \in Nat
            BY <3>1, XferAssumption, FS_Subset, FS_CardinalityType
        <3>4. /\ Cardinality(AtPlace("taking")) \in Nat /\ Cardinality(AtPlace("given")) \in Nat
              /\ Len(pool.free) = pool.count + Cardinality(AtPlace("taking"))
                                             + Cardinality(AtPlace("given"))
            BY PlaceFinite DEF LayerInv, CountInv
        <3> QED BY <3>1, <3>2, <3>3, <3>4
    <2>3. pool \in [free : Seq(Irps), count : 0 .. Cardinality(Irps)]
        BY <2>2 DEF LayerInv, LayerTypes
    <2> QED BY <2>1, <2>3 DEF LayerInv, LayerTypes, XferTypeOK
<1> QED BY <1>1, LayerInvariant, PTL

\* An IRP belongs to the pool or to the one client that took it; those of the pool are in no
\* pipe and have no event bits; and a client that passed the semaphore finds one.
THEOREM PoolIsSound == XferSpec => []PoolSound
<1>1. LayerInv => PoolSound
    <2> SUFFICES ASSUME LayerInv
                 PROVE  PoolSound
        OBVIOUS
    <2>1. pool.free \in Seq(Irps) /\ OwnInv /\ CountInv
        BY DEF LayerInv, LayerTypes
    <2>2. Len(pool.free) = Cardinality(Elems(pool.free))
        BY <2>1, DistinctCardinality DEF OwnInv
    <2>3. ASSUME NEW i \in Elems(pool.free)
          PROVE  irp[i] = NewIrp /\ bits[i] = {}
        <3>1. i \in Irps /\ ~Awaited(i)
            BY <2>1, <2>3 DEF OwnInv, Awaited, Awaits
        <3>2. ~InPipe(i) /\ bits[i] = {}
            BY <3>1 DEF LayerInv, UseInv
        <3> QED BY <3>1, <3>2, NewOutside DEF LayerInv
    <2> QED BY <2>1, <2>2, <2>3 DEF OwnInv, CountInv, AtPlace, PoolSound
<1> QED BY <1>1, LayerInvariant, PTL

\* A step of the layer does with the queues of the driver what a step of the driver may do.
LEMMA LayerQueues ==
    ASSUME LayerInv, [XferNext]_allVars
    PROVE  QueueStep
<1>1. CASE XferNext
    BY <1>1, DriverKept
<1>2. CASE UNCHANGED allVars
    BY <1>2, PoolOwns, NextQueues DEF LayerInv, DriverInv, allVars
<1> QED BY <1>1, <1>2

\* Below the transfer layer every IRP is in one place of one pipe, although any client may
\* enqueue any IRP: the pool gives it to one of them at a time.
THEOREM PoolKeepsPlacement == XferSpec => []IrpPlacement
<1>1. LayerInv => IrpPlacement
    BY PlacedSays DEF LayerInv, DriverInv
<1> QED BY <1>1, LayerInvariant, PTL

\* Below the transfer layer each pipe is a first-in first-out queue.
THEOREM PoolKeepsFifos == XferSpec => IsFifo
<1>1. XferInit => Fifo!FifoInit
    BY InitPlaced DEF XferInit
<1>2. LayerInv /\ [XferNext]_allVars => [Fifo!FifoNext]_(Fifo!fifo)
    BY LayerQueues DEF QueueStep
<1> QED BY <1>1, <1>2, LayerInvariant, PTL DEF XferSpec, IsFifo, Fifo!FifoSpec

-----------------------------------------------------------------------------
(* The event task never waits for a transfer *)

\* Event n of the queue is a failure of pipe p, or the event task has one in hand.
Failure(e) == e # "IRP_DONE"
Fails(p, n) == n \in DOMAIN evtq /\ evtq[n].pipe = p /\ Failure(evtq[n].event)
InHand(p) == evtask.pipe = p /\ evtask.at \in {"dequeue", "reset"} /\ Failure(evtask.event)

\* A pipe that executes has no failure to be handled; a halted one has at most one, and
\* nothing in flight; and pipes are invalid only when the device is lost.
PipeHalts(p) ==
    /\ pipe[p].state = "ACTIVE" => (\A n \in Nat : ~Fails(p, n)) /\ ~InHand(p)
    /\ pipe[p].state = "HALTED" =>
          /\ \A m, n \in Nat : Fails(p, m) /\ Fails(p, n) => m = n
          /\ InHand(p) => \A n \in Nat : ~Fails(p, n)
          /\ pipe[p].inflight = NoIrp
    /\ p \in hw => pipe[p].state \in {"ACTIVE", "INVALID"}
    /\ pipe[p].state = "INVALID" => ~port.conn

HaltInv ==
    /\ \A p \in Pipes : PipeHalts(p)
    /\ evtask.at = "reset" => Resets(evtask.event)
    /\ inval.phase # "off" => ~port.conn

\* A step that brings a pipe no failure, and starts it only when it is active.
LEMMA HaltSame ==
    ASSUME NEW p \in Pipes, PipeHalts(p),
           \A n \in Nat : Fails(p, n)' => Fails(p, n), InHand(p)' => InHand(p),
           pipe'[p].state = pipe[p].state,
           pipe[p].state = "HALTED" => pipe'[p].inflight = pipe[p].inflight,
           p \in hw' => p \in hw \/ pipe[p].state = "ACTIVE",
           port'.conn => port.conn
    PROVE  PipeHalts(p)'
<1> HIDE DEF Fails, InHand
<1> QED BY DEF PipeHalts

\* The steps that leave the events alone.
LEMMA HaltQuiet ==
    ASSUME HaltInv, UNCHANGED <<evtq, evtask>>,
           \A p \in Pipes :
              /\ pipe'[p].state = pipe[p].state
              /\ pipe[p].state = "HALTED" => pipe'[p].inflight = pipe[p].inflight
              /\ p \in hw' => p \in hw \/ pipe[p].state = "ACTIVE",
           port'.conn => port.conn, inval' = inval
    PROVE  HaltInv'
<1>1. ASSUME NEW p \in Pipes
      PROVE  PipeHalts(p)'
    <2>1. (\A n \in Nat : Fails(p, n)' => Fails(p, n)) /\ (InHand(p)' => InHand(p))
        BY DEF Fails, InHand
    <2> QED BY <2>1, HaltSame DEF HaltInv
<1> QED BY <1>1 DEF HaltInv

\* A step that does not touch the driver, or only the results of a pipe.
LEMMA HaltStill ==
    ASSUME HaltInv, UNCHANGED <<hw, inval, port>>,
           \A p \in Pipes : /\ pipe'[p].state = pipe[p].state
                            /\ pipe'[p].inflight = pipe[p].inflight,
           \A p \in Pipes : (\A n \in Nat : Fails(p, n)' => Fails(p, n)) /\ (InHand(p)' => InHand(p)),
           evtask'.at = "reset" => Resets(evtask'.event)
    PROVE  HaltInv'
<1>1. ASSUME NEW p \in Pipes
      PROVE  PipeHalts(p)'
    <2> HIDE DEF Fails, InHand
    <2> QED BY HaltSame DEF HaltInv
<1> QED BY <1>1 DEF HaltInv

\* An event that is sent is a failure of its pipe only.
LEMMA SentFails ==
    ASSUME evtq \in Seq(Message), NEW r \in Pipes, NEW e \in PipeEvents, evtq' = Sent(r, e),
           NEW p \in Pipes
    PROVE  /\ p # r \/ ~Failure(e) => \A n \in Nat : Fails(p, n)' => Fails(p, n)
           /\ \A m, n \in Nat : (\A k \in Nat : ~Fails(p, k)) /\ Fails(p, m)' /\ Fails(p, n)' => m = n
<1> DEFINE x == [pipe |-> r, event |-> e]
           L == Len(evtq)
<1>1. L \in Nat /\ DOMAIN evtq = 1 .. L /\ x \in Message /\ x.pipe = r /\ x.event = e
    BY DEF Message
<1>2. evtq' = evtq \/ evtq' = Append(evtq, x)
    BY DEF Sent
<1>3. CASE evtq' = evtq
    BY <1>3 DEF Fails
<1>4. CASE evtq' = Append(evtq, x)
    <2> HIDE DEF x
    <2>1. /\ DOMAIN evtq' = 1 .. L + 1
          /\ evtq'[L + 1] = x
          /\ \A n \in 1 .. L : evtq'[n] = evtq[n]
        BY <1>1, <1>4
    <2>2. \A n \in Nat : Fails(p, n)' => \/ Fails(p, n)
                                         \/ n = L + 1 /\ p = r /\ Failure(e)
        <3> SUFFICES ASSUME NEW n \in Nat, Fails(p, n)', ~Fails(p, n)
                     PROVE  n = L + 1 /\ p = r /\ Failure(e)
            OBVIOUS
        <3>1. n \in 1 .. L + 1 /\ evtq'[n].pipe = p /\ Failure(evtq'[n].event)
            BY <2>1 DEF Fails
        <3>2. n = L + 1
            <4> SUFFICES ASSUME n # L + 1
                         PROVE  FALSE
                OBVIOUS
            <4>1. n \in 1 .. L
                BY <1>1, <3>1
            <4> QED BY <1>1, <2>1, <3>1, <4>1 DEF Fails
        <3> QED BY <1>1, <2>1, <3>1, <3>2
    <2> HIDE DEF Fails, L
    <2> QED BY <2>2
<1> QED BY <1>2, <1>3, <1>4

\* Nothing is to be reset yet.
LEMMA InitHalts ==
    ASSUME XferInit
    PROVE  HaltInv
<1>1. evtq = <<>> /\ evtask.at = "wait" /\ hw = {} /\ inval.phase = "off"
    BY DEF XferInit, PipeInit, Waits
<1>2. \A p \in Pipes : pipe[p].state = "FREE"
    BY DEF XferInit, PipeInit, NewPipe
<1> QED BY <1>1, <1>2 DEF HaltInv, PipeHalts

\* What the driver's invariant says of a pipe.
LEMMA PipeFacts ==
    ASSUME LayerInv, NEW p \in Pipes
    PROVE  /\ pipe[p] \in PipeRecord
           /\ pipe \in [Pipes -> PipeRecord]
           /\ p \in hw => Allocated(p) /\ pipe[p].inflight # NoIrp
           /\ port \in PortRecord
           /\ evtq \in Seq(Message) /\ evtask \in EventTaskRecord
    BY DEF LayerInv, LayerTypes, EventTaskRecord, DriverInv, IInv, PipeInv, RestInv, ChannelHasIrp

\* The interrupt of a channel: only a transfer that failed halts the pipe, which has nothing
\* in flight then.
LEMMA ChanHalts ==
    ASSUME LayerInv, HaltInv, NEW r \in Pipes, ChanEvent(r), fault = "none"
    PROVE  HaltInv'
<1> USE WhoIsWho
<1>1. /\ pipe \in [Pipes -> PipeRecord] /\ pipe[r] \in PipeRecord /\ port \in PortRecord
      /\ evtq \in Seq(Message) /\ r \in Pipes /\ UNCHANGED evtask
    BY PipeFacts DEF ChanEvent
<1>2. \A p \in Pipes : InHand(p)' <=> InHand(p)
    BY <1>1 DEF InHand
<1>3. CASE ChanIgnored(r) \/ ChanDoneOrphan(r)
    <2>1. evtq' = evtq /\ UNCHANGED <<pipe, inval, port>> /\ hw' \subseteq hw
        <3>1. ~port.conn \/ fault' # "none"
            BY <1>3 DEF ChanIgnored, ChanDoneOrphan, Fail
        <3> QED BY <1>3, <3>1 DEF ChanEvent, ChanIgnored, ChanDoneOrphan, Fail
    <2> QED BY <1>1, <2>1, HaltQuiet
<1>4. CASE ChanDoneNext(r) \/ ChanDonePause(r) \/ ChanDoneCommand(r) \/ \E e \in ErrorEvents : ChanError(r, e)
    <2>1. r \in hw /\ port.conn
        BY <1>4 DEF ChanDoneNext, ChanDonePause, ChanDoneCommand, ChanError, SlotDone
    <2>2. pipe[r].state = "ACTIVE"
        BY <2>1 DEF HaltInv, PipeHalts
    <2>3. ~InHand(r) /\ \A n \in Nat : ~Fails(r, n)
        BY <2>2 DEF HaltInv, PipeHalts
    <2>4. \A p \in Pipes : p # r => pipe'[p] = pipe[p]
        BY <1>1, <1>4 DEF ChanDoneNext, ChanDonePause, ChanDoneCommand, ChanError
    <2>5. hw' \subseteq hw /\ UNCHANGED inval /\ port'.conn = port.conn
        BY <1>1, <1>4 DEF ChanDoneNext, ChanDonePause, ChanDoneCommand, ChanError, PortRecord
    <2>6. \/ pipe'[r].state = "ACTIVE" /\ pipe'[r].last_event = "IRP_DONE"
          \/ /\ pipe'[r].state = "HALTED" /\ pipe'[r].last_event \in ErrorEvents
             /\ pipe'[r].inflight = NoIrp /\ r \notin hw'
        <3>1. CASE ChanDoneNext(r)
            <4> DEFINE q == DoneQueue(pipe[r])
            <4>1. q.state = "ACTIVE" /\ q.last_event = "IRP_DONE" /\ q \in PipeRecord
                BY <1>1, <2>1, <2>2, ChanDoneOk, PipeFacts DEF SameKind, DoneQueue, ReturnCurIrp, PipeRecord, PipeEvents
            <4>2. pipe'[r] = q \/ pipe'[r] = TakeNext(q)
                BY <1>1, <3>1 DEF ChanDoneNext
            <4> HIDE DEF q
            <4>3. TakeNext(q).state = q.state /\ TakeNext(q).last_event = q.last_event
                BY <4>1 DEF TakeNext, PipeRecord
            <4> QED BY <4>1, <4>2, <4>3
        <3>2. CASE ChanDonePause(r)
            <4>1. pipe'[r] = PausedOnDone(pipe[r])
                BY <1>1, <3>2 DEF ChanDonePause
            <4>2. PausedOnDone(pipe[r]).state = pipe[r].state
                  /\ PausedOnDone(pipe[r]).last_event = "IRP_DONE"
                BY <1>1 DEF PausedOnDone, DoneQueue, ReturnCurIrp, PipeRecord
            <4> QED BY <2>2, <4>1, <4>2
        <3>3. CASE ChanDoneCommand(r)
            <4>1. pipe'[r] = [DoneQueue(pipe[r]) EXCEPT !.waiting = FALSE]
                BY <1>1, <3>3 DEF ChanDoneCommand
            <4>2. pipe'[r].state = pipe[r].state /\ pipe'[r].last_event = "IRP_DONE"
                BY <1>1, <4>1 DEF DoneQueue, ReturnCurIrp, PipeRecord
            <4> QED BY <2>2, <4>2
        <3>4. ASSUME NEW e \in ErrorEvents, ChanError(r, e)
              PROVE  /\ pipe'[r].state = "HALTED" /\ pipe'[r].last_event \in ErrorEvents
                     /\ pipe'[r].inflight = NoIrp /\ r \notin hw'
            <4>1. pipe'[r] = [ReturnCurIrp(pipe[r]) EXCEPT !.state = "HALTED", !.last_event = e]
                BY <1>1, <3>4 DEF ChanError
            <4>2. r \notin hw'
                BY <3>4 DEF ChanError
            <4> QED BY <1>1, <3>4, <4>1, <4>2 DEF ReturnCurIrp, PipeRecord
        <3> QED BY <1>4, <3>1, <3>2, <3>3, <3>4
    <2>7. pipe'[r].last_event \in PipeEvents /\ ~Failure("IRP_DONE")
        BY <2>6 DEF PipeEvents, Failure
    <2>8. evtq' = evtq \/ evtq' = Sent(r, pipe'[r].last_event)
        BY DEF ChanEvent
    <2>9. PICK e \in PipeEvents : e = pipe'[r].last_event
        BY <2>7
    <2>10. \A p \in Pipes :
              /\ p # r \/ ~Failure(e) => \A n \in Nat : Fails(p, n)' => Fails(p, n)
              /\ \A m, n \in Nat : (\A k \in Nat : ~Fails(p, k)) /\ Fails(p, m)' /\ Fails(p, n)' => m = n
        <3>1. CASE evtq' = evtq
            BY <3>1 DEF Fails
        <3>2. CASE evtq' = Sent(r, pipe'[r].last_event)
            BY <1>1, <2>9, <3>2, SentFails
        <3> QED BY <2>8, <3>1, <3>2
    <2> HIDE DEF Fails, InHand
    <2>11. ASSUME NEW p \in Pipes, p # r
           PROVE  PipeHalts(p)'
        BY <1>2, <2>4, <2>5, <2>10, <2>11, HaltSame DEF HaltInv
    <2>12. PipeHalts(r)'
        <3>1. CASE pipe'[r].state = "ACTIVE" /\ pipe'[r].last_event = "IRP_DONE"
            BY <1>2, <2>3, <2>7, <2>9, <2>10, <3>1 DEF PipeHalts
        <3>2. CASE /\ pipe'[r].state = "HALTED"
                   /\ pipe'[r].inflight = NoIrp /\ r \notin hw'
            BY <1>2, <2>3, <2>10, <3>2 DEF PipeHalts
        <3> QED BY <2>6, <3>1, <3>2
    <2> QED BY <1>1, <2>5, <2>11, <2>12 DEF HaltInv
<1> QED BY <1>3, <1>4 DEF ChanEvent, ChanStep

\* The loss of the device, and the walk that invalidates its pipes.
LEMMA LossHalts ==
    ASSUME LayerInv, LayerInv', HaltInv, Disconnect \/ InvalidatePipe
    PROVE  HaltInv'
<1> USE WhoIsWho
<1>1. CASE Disconnect
    <2>1. UNCHANGED <<evtq, evtask, pipe, hw, inval>> /\ ~port'.conn
        BY <1>1 DEF Disconnect, PortLost, PortUnchanged, LayerInv, DriverInv, IInv, RestInv, PortRecord
    <2> QED BY <2>1, HaltQuiet
<1>2. CASE InvalidatePipe
    <2>1. UNCHANGED evtask /\ port'.conn = port.conn /\ ~port.conn
        BY <1>2 DEF InvalidatePipe, InvalidateBegin, InvalidateNext, NoWalk, HaltInv,
           LayerInv, DriverInv, IInv, RestInv, PortRecord
    <2>2. \E v : Visit(v)
        BY <1>2 DEF InvalidatePipe, InvalidateBegin, InvalidateNext
    <2>3. /\ pipe \in [Pipes -> PipeRecord] /\ evtq \in Seq(Message)
          /\ inval' \in [phase : {"off", "active", "idle"}, cur : Pipes \cup {NoPipe}]
          /\ inval'.cur \in Pipes \cup {NoPipe}
        BY DEF LayerInv, LayerTypes, DriverInv, IInv, PipeInv, RestInv
    <2>4. \A p \in Pipes : InHand(p)' <=> InHand(p)
        BY <2>1 DEF InHand
    <2>5. PICK c \in Pipes \cup {NoPipe} : c = inval'.cur
        BY <2>3
    <2>6. /\ \A p \in Pipes : p # c => pipe'[p] = pipe[p]
          /\ c # NoPipe => pipe'[c].state = "INVALID"
          /\ hw' \subseteq hw
        <3>1. PICK v : Visit(v)
            BY <2>2
        <3>2. CASE v.cur # NoPipe /\ v.phase = "active" /\ InvalidateActive(v.cur) /\ inval' = v
            <4>1. c = v.cur /\ c \in Pipes /\ pipe[c] \in PipeRecord
                BY <2>3, <2>5, <3>2
            <4>2. pipe' = [pipe EXCEPT ![c] = Emptied(Invalidated(pipe[c]))] /\ hw' = hw \ {c}
                BY <3>2, <4>1 DEF InvalidateActive
            <4> DEFINE q == Invalidated(pipe[c])
            <4>3. q \in PipeRecord /\ q.state = "INVALID"
                BY <4>1 DEF Invalidated, PipeRecord, PipeEvents
            <4> HIDE DEF q
            <4>4. Emptied(q).state = "INVALID"
                BY <4>3 DEF Emptied, Retire, ReturnCurIrp, PipeRecord
            <4> QED BY <2>3, <4>1, <4>2, <4>4 DEF q
        <3>3. CASE v.cur # NoPipe /\ v.phase = "idle" /\ InvalidateIdle(v.cur) /\ inval' = v
            <4>1. c = v.cur /\ c \in Pipes /\ pipe[c] \in PipeRecord
                BY <2>3, <2>5, <3>3
            <4>2. pipe' = [pipe EXCEPT ![c] = Invalidated(pipe[c])] /\ hw' = hw
                BY <3>3, <4>1 DEF InvalidateIdle
            <4>3. Invalidated(pipe[c]).state = "INVALID"
                BY <4>1 DEF Invalidated, PipeRecord
            <4> QED BY <2>3, <4>1, <4>2, <4>3
        <3>4. CASE UNCHANGED <<pipe, irp, hw, notified>> /\ inval'.cur = NoPipe
            BY <2>5, <3>4
        <3> QED BY <3>1, <3>2, <3>3, <3>4 DEF Visit
    <2>7. \A p \in Pipes : p # c => \A n \in Nat : Fails(p, n)' => Fails(p, n)
        <3>1. CASE c = NoPipe
            <4>1. evtq' = evtq
                BY <1>2, <2>5, <3>1 DEF InvalidatePipe
            <4> QED BY <4>1 DEF Fails
        <3>2. CASE c # NoPipe
            <4>1. c \in Pipes /\ evtq' = Sent(c, "INVALID") /\ "INVALID" \in PipeEvents
                BY <1>2, <2>5, <3>2 DEF InvalidatePipe, PipeEvents
            <4> QED BY <2>3, <4>1, SentFails
        <3> QED BY <3>1, <3>2
    <2> HIDE DEF Fails, InHand
    <2>8. ASSUME NEW p \in Pipes
          PROVE  PipeHalts(p)'
        <3>1. CASE p = c
            BY <2>1, <2>6, <3>1 DEF PipeHalts
        <3>2. CASE p # c
            BY <2>1, <2>4, <2>6, <2>7, <3>2, HaltSame DEF HaltInv
        <3> QED BY <3>1, <3>2
    <2> QED BY <2>1, <2>8 DEF HaltInv
<1> QED BY <1>1, <1>2

\* The steps of the clients start transfers on active pipes only.
LEMMA ClientHalts ==
    ASSUME LayerInv, HaltInv, NEW t \in Clients, TakeCount(t) \/ ClientXfer(t)
    PROVE  HaltInv'
<1>1. UNCHANGED <<evtq, evtask>>
    BY ClientFrame
<1>2. UNCHANGED <<pipe, hw, port, inval>> => HaltInv'
    BY <1>1, HaltQuiet
<1>3. CASE TakeCount(t) \/ GiveIrp(t) \/ GiveCount(t) \/ WaitBits(t)
    BY <1>2, <1>3 DEF TakeCount, GiveIrp, GiveCount, WaitBits, vars
<1>4. CASE TakeIrp(t) \/ (\E p \in Pipes : Enqueue(t, p)) \/ Refused(t)
    BY <1>2, <1>4 DEF TakeIrp, Enqueue, EnqueueCheck, Refused, EnqueueReject
<1>5. CASE Enqueued(t)
    <2>1. PICK p : p = call[t].pipe
        OBVIOUS
    <2>2. p \in Pipes
        BY <1>5, <2>1, WhoIsWho DEF Enqueued, EnqueueStart, EnqueuePend, Enqueuing,
           LayerInv, DriverInv, IInv, RestInv
    <2>3. pipe[p] \in PipeRecord /\ pipe \in [Pipes -> PipeRecord]
        BY <2>2, PipeFacts
    <2>4. /\ UNCHANGED <<port, inval>> /\ pipe[p].state = "ACTIVE"
          /\ hw' \subseteq hw \cup {p}
          /\ \A r \in Pipes : r # p => pipe'[r] = pipe[r]
        BY <1>5, <2>1, <2>3 DEF Enqueued, EnqueueStart, EnqueuePend, Accepts
    <2>5. pipe'[p].state = "ACTIVE"
        <3>1. CASE EnqueueStart(t)
            <4>1. pipe'[p] = [pipe[p] EXCEPT !.inflight = call[t].irp]
                BY <2>1, <2>2, <2>3, <3>1 DEF EnqueueStart
            <4> QED BY <2>3, <2>4, <4>1 DEF PipeRecord
        <3>2. CASE EnqueuePend(t)
            <4>1. pipe'[p] = [pipe[p] EXCEPT !.pending = Append(pipe[p].pending, call[t].irp)]
                BY <2>1, <2>2, <2>3, <3>2 DEF EnqueuePend
            <4> QED BY <2>3, <2>4, <4>1 DEF PipeRecord
        <3> QED BY <1>5, <3>1, <3>2 DEF Enqueued
    <2> QED BY <1>1, <2>4, <2>5, HaltQuiet
<1> QED BY <1>3, <1>4, <1>5 DEF ClientXfer

\* A task that takes a result changes the results of a pipe only.
LEMMA TakenHalts ==
    ASSUME LayerInv, NEW t \in Tasks, NEW r \in Pipes, TakeResult(t, r)
    PROVE  /\ UNCHANGED <<hw, inval, port>>
           /\ \A p \in Pipes : /\ pipe'[p].state = pipe[p].state
                               /\ pipe'[p].inflight = pipe[p].inflight
<1>1. pipe[r] \in PipeRecord /\ pipe \in [Pipes -> PipeRecord]
    BY PipeFacts
<1>2. /\ UNCHANGED <<hw, inval, port>>
      /\ pipe' = [pipe EXCEPT ![r] = [pipe[r] EXCEPT !.done = Tail(pipe[r].done)]]
    BY <1>1 DEF TakeResult, Dequeue
<1>3. \A p \in Pipes : p # r => pipe'[p] = pipe[p]
    BY <1>1, <1>2
<1>4. pipe'[r] = [pipe[r] EXCEPT !.done = Tail(pipe[r].done)]
    BY <1>1, <1>2
<1>5. pipe'[r].state = pipe[r].state /\ pipe'[r].inflight = pipe[r].inflight
    BY <1>1, <1>4 DEF PipeRecord
<1> QED BY <1>2, <1>3, <1>5

\* The event task receives a failure, and resets the pipe before it takes the next one.
LEMMA EventHalts ==
    ASSUME LayerInv, HaltInv, EventXfer
    PROVE  HaltInv'
<1> USE WhoIsWho
<1>1. /\ pipe \in [Pipes -> PipeRecord] /\ evtq \in Seq(Message) /\ evtask \in EventTaskRecord
      /\ port \in PortRecord /\ hw \subseteq Pipes
    BY DEF LayerInv, LayerTypes, EventTaskRecord, DriverInv, IInv, PipeInv, RestInv
<1>2. evtq' = evtq => \A p \in Pipes, n \in Nat : Fails(p, n)' => Fails(p, n)
    BY DEF Fails
<1>3. ASSUME evtq' = evtq, UNCHANGED <<pipe, hw, inval, port>>,
             \A p \in Pipes : InHand(p)' => InHand(p),
             evtask'.at = "reset" => Resets(evtask'.event)
      PROVE  HaltInv'
    BY <1>2, <1>3, HaltStill
<1>4. CASE Receive
    <2> DEFINE L == Len(evtq)
               h == Head(evtq)
    <2>1. /\ evtq # <<>> /\ evtq' = Tail(evtq) /\ UNCHANGED <<pipe, hw, inval, port>>
          /\ evtask.at = "wait"
          /\ evtask' = [at |-> "dequeue", pipe |-> h.pipe, event |-> h.event, irp |-> NoIrp]
        BY <1>4 DEF Receive, At, vars
    <2>2. /\ L \in Nat \ {0} /\ DOMAIN evtq = 1 .. L /\ h = evtq[1]
          /\ DOMAIN evtq' = 1 .. L - 1
          /\ \A n \in 1 .. L - 1 : evtq'[n] = evtq[n + 1] /\ n + 1 \in 1 .. L
        <3>1. /\ Tail(evtq) \in Seq(Message) /\ Len(Tail(evtq)) = L - 1 /\ h = evtq[1]
              /\ \A n \in 1 .. Len(Tail(evtq)) : Tail(evtq)[n] = evtq[n + 1]
            BY <1>1, <2>1, HeadTailProperties
        <3>2. L \in Nat \ {0} /\ DOMAIN evtq = 1 .. L /\ DOMAIN Tail(evtq) = 1 .. L - 1
            BY <1>1, <2>1, <3>1, LenProperties, EmptySeq
        <3>3. \A n \in 1 .. L - 1 : n + 1 \in 1 .. L
            BY <3>2
        <3> QED BY <2>1, <3>1, <3>2, <3>3
    <2>3. ASSUME NEW p \in Pipes
          PROVE  /\ \A n \in Nat : Fails(p, n)' => Fails(p, n + 1)
                 /\ ~InHand(p)
                 /\ InHand(p)' => Fails(p, 1)
        BY <2>1, <2>2 DEF Fails, InHand
    <2> HIDE DEF Fails, InHand
    <2>4. ASSUME NEW p \in Pipes
          PROVE  PipeHalts(p)'
        <3>1. PipeHalts(p)
            BY DEF HaltInv
        <3>2. \A n \in Nat : n + 1 \in Nat
            OBVIOUS
        <3>3. ASSUME pipe[p].state = "ACTIVE"
              PROVE  (\A n \in Nat : ~Fails(p, n)') /\ ~InHand(p)'
            BY <2>3, <3>1, <3>2, <3>3 DEF PipeHalts
        <3>4. ASSUME pipe[p].state = "HALTED"
              PROVE  /\ \A m, n \in Nat : Fails(p, m)' /\ Fails(p, n)' => m = n
                     /\ InHand(p)' => \A n \in Nat : ~Fails(p, n)'
            <4>1. \A m, n \in Nat : Fails(p, m) /\ Fails(p, n) => m = n
                BY <3>1, <3>4 DEF PipeHalts
            <4>2. ASSUME NEW m \in Nat, NEW n \in Nat, Fails(p, m)', Fails(p, n)'
                  PROVE  m = n
                <5>1. m + 1 = n + 1
                    BY <2>3, <4>1, <4>2
                <5> QED BY <5>1
            <4>3. ASSUME InHand(p)', NEW n \in Nat, Fails(p, n)'
                  PROVE  FALSE
                <5>1. n + 1 = 1
                    BY <2>3, <4>1, <4>3
                <5>2. n \in 1 .. L - 1
                    BY <2>2, <4>3 DEF Fails
                <5> QED BY <5>1, <5>2
            <4> QED BY <4>2, <4>3
        <3> QED BY <2>1, <3>1, <3>3, <3>4 DEF PipeHalts
    <2>5. evtask'.at # "reset"
        BY <2>1
    <2> QED BY <2>1, <2>4, <2>5 DEF HaltInv
<1>5. CASE EventDequeue
    <2>1. evtask.pipe \in Pipes /\ TakeResult(EventTask, evtask.pipe) /\ evtq' = evtq
        BY <1>5 DEF EventDequeue, At, LayerInv, LayerTypes
    <2>2. /\ UNCHANGED <<hw, inval, port>>
          /\ \A p \in Pipes : /\ pipe'[p].state = pipe[p].state
                              /\ pipe'[p].inflight = pipe[p].inflight
        BY <2>1, TakenHalts
    <2>3. /\ evtask.at = "dequeue" /\ evtask'.pipe = evtask.pipe /\ evtask'.event = evtask.event
          /\ evtask'.at = IF Resets(evtask.event) THEN "reset" ELSE "set"
        BY <1>1, <1>5 DEF EventDequeue, At, After, EventTaskRecord
    <2>4. \A p \in Pipes : InHand(p)' => InHand(p)
        BY <2>3 DEF InHand
    <2>5. evtask'.at = "reset" => Resets(evtask'.event)
        BY <2>3
    <2> QED BY <1>2, <2>1, <2>2, <2>4, <2>5, HaltStill
<1>6. CASE EventTooLate \/ EventSet
    <2>1. evtq' = evtq /\ UNCHANGED <<pipe, hw, inval, port>> /\ evtask'.at = "wait"
        BY <1>1, <1>6 DEF EventTooLate, EventSet, Waits, Proceeds, At, After, EventTaskRecord, vars
    <2>2. \A p \in Pipes : ~InHand(p)'
        BY <2>1 DEF InHand
    <2> QED BY <1>3, <2>1, <2>2
<1>7. CASE EventPanic
    <2>1. UNCHANGED <<evtq, evtask, pipe, hw, inval, port>>
        BY <1>7 DEF EventPanic, DequeueMisplaced, Fail, xferVars
    <2> QED BY <2>1, HaltQuiet
<1>8. CASE EventReset
    <2>1. PICK r \in Pipes : r = evtask.pipe
        BY <1>8 DEF EventReset, At, LayerInv, LayerTypes
    <2>2. /\ evtask.at = "reset" /\ evtask'.at = "set" /\ evtq' = evtq /\ Allocated(r)
        BY <1>1, <1>8, <2>1 DEF EventReset, At, Proceeds, After, EventTaskRecord
    <2>3. \A p \in Pipes : ~InHand(p)'
        BY <2>2 DEF InHand
    <2>4. CASE UNCHANGED vars
        BY <1>3, <2>2, <2>3, <2>4 DEF vars
    <2>5. CASE CommandNow(EventTask, r, "RESET")
        <3> DEFINE R == Commanded(pipe[r], "RESET")
        <3>1. /\ UNCHANGED <<hw, inval, port>> /\ port.conn /\ pipe[r].state # "INVALID"
              /\ pipe' = [pipe EXCEPT ![r] = R] /\ pipe[r] \in PipeRecord
            BY <1>1, <2>5 DEF CommandNow, CommandAllowed
        <3>2. InHand(r)
            BY <2>1, <2>2 DEF InHand, HaltInv, Resets, Failure
        <3>3. pipe[r].state = "HALTED"
            BY <2>2, <3>1, <3>2 DEF HaltInv, PipeHalts, Allocated, PipeRecord
        <3>4. R.state = "ACTIVE"
            <4>1. Retire(pipe[r]) \in PipeRecord
                BY <3>1, RetireOk DEF SameKind
            <4> QED BY <4>1 DEF Commanded, PipeRecord
        <3> HIDE DEF R
        <3>5. pipe'[r].state = "ACTIVE" /\ \A p \in Pipes : p # r => pipe'[p] = pipe[p]
            BY <1>1, <3>1, <3>4
        <3>6. \A n \in Nat : ~Fails(r, n)
            BY <3>2, <3>3 DEF HaltInv, PipeHalts
        <3>7. \A p \in Pipes, n \in Nat : Fails(p, n)' => Fails(p, n)
            BY <1>2, <2>2
        <3> HIDE DEF Fails, InHand
        <3>8. PipeHalts(r)'
            BY <2>3, <3>5, <3>6, <3>7 DEF PipeHalts
        <3>9. ASSUME NEW p \in Pipes, p # r
              PROVE  PipeHalts(p)'
            BY <2>3, <3>1, <3>5, <3>7, <3>9, HaltSame DEF HaltInv
        <3> QED BY <2>2, <3>1, <3>8, <3>9 DEF HaltInv
    <2> QED BY <1>8, <2>1, <2>4, <2>5 DEF EventReset
<1> QED BY <1>4, <1>5, <1>6, <1>7, <1>8 DEF EventXfer

\* A new pipe is not one that a failure is still on its way of; one that is freed executes
\* nothing.
LEMMA EndpointHalts ==
    ASSUME LayerInv, HaltInv,
           CloseXfer \/ \E p \in Pipes : Open(p) \/ Close(p)
    PROVE  HaltInv'
<1> USE WhoIsWho
<1>1. /\ pipe \in [Pipes -> PipeRecord] /\ evtq \in Seq(Message)
      /\ hw \subseteq Pipes
      /\ \A p \in hw : Allocated(p) /\ pipe[p].inflight # NoIrp
    BY DEF LayerInv, LayerTypes, DriverInv, IInv, PipeInv, ChannelHasIrp
<1>2. UNCHANGED <<evtq, evtask, pipe, hw, inval, port>> => HaltInv'
    BY HaltQuiet
<1>3. ASSUME UNCHANGED <<evtq, evtask>>, NEW p \in Pipes
      PROVE  (\A n \in Nat : Fails(p, n)' => Fails(p, n)) /\ (InHand(p)' => InHand(p))
    BY <1>3 DEF Fails, InHand
<1>4. ASSUME UNCHANGED <<evtq, evtask, hw, inval, port>>, NEW r \in Pipes,
             \A p \in Pipes : p # r => pipe'[p] = pipe[p], PipeHalts(r)'
      PROVE  HaltInv'
    <2> HIDE DEF Fails, InHand
    <2>1. ASSUME NEW p \in Pipes, p # r
          PROVE  PipeHalts(p)'
        BY <1>3, <1>4, <2>1, HaltSame DEF HaltInv
    <2> QED BY <1>4, <2>1 DEF HaltInv
<1>5. ASSUME NEW r \in Pipes, Open(r)
      PROVE  HaltInv'
    <2>1. /\ UNCHANGED <<evtq, evtask, hw, inval, port>> /\ pipe[r].state = "FREE" /\ port.conn
          /\ evtask.pipe # r /\ \A n \in DOMAIN evtq : evtq[n].pipe # r
        BY <1>5 DEF Open, Alloc, xferVars
    <2>2. PICK a : pipe' = [pipe EXCEPT ![r] = NewPipe("ACTIVE", a)]
        BY <1>5 DEF Open, Alloc
    <2>3. pipe'[r].state = "ACTIVE" /\ \A p \in Pipes : p # r => pipe'[p] = pipe[p]
        BY <1>1, <2>2 DEF NewPipe
    <2>4. ~InHand(r) /\ \A n \in Nat : ~Fails(r, n)
        BY <2>1 DEF InHand, Fails
    <2>5. PipeHalts(r)'
        <3>1. (\A n \in Nat : ~Fails(r, n)') /\ ~InHand(r)'
            BY <1>3, <2>1, <2>4
        <3> HIDE DEF Fails, InHand
        <3> QED BY <2>3, <3>1 DEF PipeHalts
    <2> QED BY <1>4, <2>1, <2>3, <2>5
<1>6. CASE (\E p \in Pipes : Close(p)) \/ CloseDrained
    BY <1>2, <1>6 DEF Close, CloseDrained, vars
<1>7. CASE CloseDequeue
    <2>1. closing.pipe \in Pipes /\ TakeResult(PortTask, closing.pipe) /\ UNCHANGED <<evtq, evtask>>
        BY <1>7 DEF CloseDequeue, LayerInv, LayerTypes
    <2>2. /\ UNCHANGED <<hw, inval, port>>
          /\ \A p \in Pipes : /\ pipe'[p].state = pipe[p].state
                              /\ pipe'[p].inflight = pipe[p].inflight
        BY <2>1, TakenHalts
    <2> QED BY <2>1, <2>2, HaltQuiet
<1>8. CASE CloseEnd
    <2>1. PICK r \in Pipes : r = closing.pipe
        BY <1>8 DEF CloseEnd, NotClosing, LayerInv, LayerTypes
    <2>2. UNCHANGED <<evtq, evtask>> /\ (FreePipe(PortTask, r) \/ UNCHANGED vars)
        BY <1>8, <2>1 DEF CloseEnd
    <2>3. CASE FreePipe(PortTask, r)
        <3>1. /\ UNCHANGED <<hw, inval, port>> /\ Queue(pipe[r]) = <<>>
              /\ pipe' = [pipe EXCEPT ![r] = NewPipe("FREE", pipe[r].addr)]
            BY <2>3 DEF FreePipe
        <3>2. pipe'[r].state = "FREE" /\ \A p \in Pipes : p # r => pipe'[p] = pipe[p]
            BY <1>1, <3>1 DEF NewPipe
        <3>3. r \notin hw
            BY <1>1, <3>1, QueueEmpty
        <3>4. PipeHalts(r)'
            BY <3>1, <3>2, <3>3 DEF PipeHalts
        <3> QED BY <1>4, <2>2, <3>1, <3>2, <3>4
    <2>4. CASE UNCHANGED vars
        BY <1>2, <2>2, <2>4 DEF vars
    <2> QED BY <2>2, <2>3, <2>4
<1>9. CASE CloseMisplaced
    BY <1>2, <1>9 DEF CloseMisplaced, DequeueMisplaced, Fail, xferVars
<1> QED BY <1>5, <1>6, <1>7, <1>8, <1>9 DEF CloseXfer

\* Every step keeps it.
LEMMA HaltKept ==
    ASSUME LayerInv, LayerInv', HaltInv, [XferNext]_allVars
    PROVE  HaltInv'
<1>1. CASE UNCHANGED allVars
    <2>1. UNCHANGED <<evtq, evtask, pipe, hw, inval, port>>
        BY <1>1 DEF allVars, vars, xferVars
    <2> QED BY <2>1, HaltQuiet
<1>2. CASE XferNext
    BY <1>2, ClientHalts, ChanHalts, LossHalts, EventHalts, EndpointHalts DEF XferNext
<1> QED BY <1>1, <1>2

\* The one task that serves the events of all pipes never waits for a transfer when it
\* resets a pipe: no transfer is in flight there, for however many clients and pipes.
THEOREM EventTaskRuns == XferSpec => []EventTaskNeverBlocks
<1>1. LayerInv /\ HaltInv => EventTaskNeverBlocks
    <2> SUFFICES ASSUME LayerInv, HaltInv, At("reset"), Allocated(evtask.pipe),
                        CommandAllowed(EventTask, evtask.pipe)
                 PROVE  pipe[evtask.pipe].inflight = NoIrp
        BY DEF EventTaskNeverBlocks
    <2>1. PICK p \in Pipes : p = evtask.pipe
        BY DEF At, LayerInv, LayerTypes
    <2>2. InHand(p)
        BY <2>1 DEF At, HaltInv, InHand, Resets, Failure
    <2>3. pipe[p].state \in {"ACTIVE", "HALTED"}
        BY <2>1, PipeFacts DEF CommandAllowed, Allocated, HaltInv, PipeHalts, PipeRecord
    <2> QED BY <2>1, <2>2, <2>3 DEF HaltInv, PipeHalts
<1>2. XferInit => LayerInv /\ HaltInv
    BY InitLayer, InitHalts
<1>3. LayerInv /\ HaltInv /\ [XferNext]_allVars => (LayerInv /\ HaltInv)'
    BY LayerKept, HaltKept
<1> QED BY <1>1, <1>2, <1>3, PTL DEF XferSpec

-----------------------------------------------------------------------------
(* Where each pipe has one client: who may enqueue, and whose IRP is in a pipe *)

\* One task at a time holds the semaphore of the enqueues: a client that enqueues, or the
\* task that closes an endpoint.  A client's IRP is in one of its own pipes.
UsesInv ==
    /\ \A t \in Clients : xfer[t].at = "enqueue" => enqmutex = t
    /\ closing # NotClosing => enqmutex = PortTask
    /\ \A t \in Clients : call[t].op # "none" => call[t].pipe \in Uses[t]
    /\ \A t \in Clients, i \in Irps : Awaits(t, i) /\ InPipe(i) => irp[i].ptr \in Uses[t]

\* Nobody enqueues and nothing is in a pipe.
LEMMA InitUses ==
    ASSUME XferInit
    PROVE  UsesInv
<1>1. \A t \in Clients : xfer[t].at = "out"
    BY DEF XferInit, Out
<1>2. \A t \in Clients : call[t].op = "none"
    BY WhoIsWho DEF XferInit, PipeInit, IdleCall
<1>3. closing = NotClosing
    BY DEF XferInit
<1> QED BY <1>1, <1>2, <1>3 DEF UsesInv, Awaits

\* The steps of a client.
LEMMA ClientUsesKept ==
    ASSUME LayerInv, UsesInv, NEW t \in Clients, TakeCount(t) \/ ClientXfer(t)
    PROVE  UsesInv'
<1> USE WhoIsWho
<1>1. /\ call \in [Tasks -> CallRecord] /\ t \in Tasks /\ xfer \in [Clients -> XferRecord]
      /\ xfer[t] \in XferRecord /\ irp \in [Irps -> IrpRecord]
      /\ UNCHANGED closing
      /\ \A u \in Tasks : u # t => call'[u] = call[u]
      /\ \A u \in Clients : u # t => xfer'[u] = xfer[u]
    BY ClientFrame DEF LayerInv, LayerTypes, XferRecord, DriverInv, IInv, PipeInv, RestInv
<1>2. ASSUME UNCHANGED <<irp, call, enqmutex>>, xfer'[t].at # "enqueue",
             xfer[t].at # "wait", xfer'[t].at # "wait"
      PROVE  UsesInv'
    <2>1. \A u \in Clients : xfer'[u].at = "enqueue" => xfer[u].at = "enqueue"
        BY <1>1, <1>2
    <2>2. \A u \in Clients, i \in Irps : Awaits(u, i)' => Awaits(u, i)
        BY <1>1, <1>2 DEF Awaits
    <2> HIDE DEF Awaits
    <2> QED BY <1>1, <1>2, <2>1, <2>2 DEF UsesInv, InPipe
<1>3. CASE TakeCount(t) \/ GiveIrp(t) \/ GiveCount(t)
    <2>1. /\ UNCHANGED <<irp, call, enqmutex>> /\ xfer[t].at # "wait"
          /\ xfer'[t].at \in {"taking", "given", "out"}
        BY <1>1, <1>3 DEF TakeCount, GiveIrp, GiveCount, SetXfer, Out, vars
    <2> QED BY <1>2, <2>1
<1>4. CASE TakeIrp(t)
    <2>1. /\ UNCHANGED <<irp, call, enqmutex>> /\ xfer[t].at # "wait"
        BY <1>4, TakeIrpStutters DEF TakeIrp, vars
    <2>2. xfer'[t].at = "taken"
        BY <1>1, <1>4 DEF TakeIrp, SetXfer, Out
    <2> QED BY <1>2, <2>1, <2>2
<1>5. CASE WaitBits(t)
    <2>1. UNCHANGED <<irp, call, enqmutex>>
        BY <1>5 DEF WaitBits, vars
    <2>2. xfer'[t].at = "end"
        BY <1>1, <1>5 DEF WaitBits, SetXfer, XferRecord
    <2>3. \A u \in Clients : xfer'[u].at = "enqueue" => xfer[u].at = "enqueue"
        BY <1>1, <2>2
    <2>4. \A u \in Clients, i \in Irps : Awaits(u, i)' => Awaits(u, i)
        BY <1>1, <2>2 DEF Awaits
    <2> HIDE DEF Awaits
    <2> QED BY <1>1, <2>1, <2>3, <2>4 DEF UsesInv, InPipe
<1>6. ASSUME NEW p \in Pipes, Enqueue(t, p)
      PROVE  UsesInv'
    <2>1. enqmutex = NoTask /\ enqmutex' = t /\ p \in Uses[t] /\ UNCHANGED irp
          /\ xfer[t].at = "taken"
        BY <1>6 DEF Enqueue, EnqueueCheck
    <2>2. call'[t] = [op |-> "enqueue", pipe |-> p, irp |-> xfer[t].irp, woken |-> FALSE]
        BY <1>1, <1>6 DEF Enqueue, EnqueueCheck
    <2>3. xfer'[t].at = "enqueue"
        BY <1>1, <1>6 DEF Enqueue, SetXfer, XferRecord
    <2>4. \A u \in Clients : xfer[u].at # "enqueue"
        BY <2>1 DEF UsesInv
    <2>5. closing = NotClosing
        BY <2>1 DEF UsesInv
    <2>6. \A u \in Clients, i \in Irps : Awaits(u, i)' => Awaits(u, i)
        BY <1>1, <2>3 DEF Awaits
    <2>7. \A u \in Clients : call'[u].op # "none" => call'[u].pipe \in Uses[u]
        BY <1>1, <2>1, <2>2 DEF UsesInv
    <2>8. \A u \in Clients : xfer'[u].at = "enqueue" => u = t
        BY <1>1, <2>4
    <2> HIDE DEF Awaits
    <2> QED BY <1>1, <2>1, <2>5, <2>6, <2>7, <2>8 DEF UsesInv, InPipe
<1>7. CASE Enqueued(t) \/ Refused(t)
    <2>1. xfer[t].at = "enqueue" /\ enqmutex = t
        BY <1>7 DEF Enqueued, Refused, UsesInv
    <2>2. \A u \in Clients : u # t => xfer[u].at # "enqueue"
        BY <2>1 DEF UsesInv
    <2>3. closing = NotClosing
        BY <2>1 DEF UsesInv
    <2>4. call'[t].op = "none" /\ call[t].op = "enqueue"
        BY <1>1, <1>7 DEF Enqueued, Refused, EnqueueStart, EnqueuePend, EnqueueReject, Enqueuing,
           Return, IdleCall
    <2>5. xfer[t].irp \in Irps
        BY <2>1 DEF LayerInv, OwnInv, Holding
    <2>6. PICK i \in Irps : i = xfer[t].irp
        BY <2>5
    <2>7. call[t].irp = i /\ call[t].pipe \in Uses[t]
        BY <2>4, <2>6 DEF LayerInv, CallInv, UsesInv
    <2>8. \A j \in Irps : j # i => irp'[j] = irp[j]
        BY <1>1, <1>7, <2>7 DEF Enqueued, Refused, EnqueueStart, EnqueuePend, EnqueueReject
    <2>9. \/ irp'[i] = irp[i] /\ xfer'[t].at = "end"
          \/ irp'[i].ptr = call[t].pipe /\ xfer'[t].at = "wait"
        <3>1. CASE Refused(t)
            BY <1>1, <3>1 DEF Refused, EnqueueReject, SetXfer, XferRecord
        <3>2. CASE Enqueued(t)
            <4>1. xfer'[t].at = "wait"
                BY <1>1, <3>2 DEF Enqueued, SetXfer, XferRecord
            <4>2. irp'[i].ptr = call[t].pipe
                BY <1>1, <2>7, <3>2 DEF Enqueued, EnqueueStart, EnqueuePend, IrpRecord
            <4> QED BY <4>1, <4>2
        <3> QED BY <1>7, <3>1, <3>2
    <2>10. xfer'[t].irp = i
        BY <1>1, <1>7, <2>6 DEF Enqueued, Refused, SetXfer, XferRecord
    <2>11. \A u \in Clients, j \in Irps : u # t /\ Awaits(u, j) => j # i
        BY <2>6 DEF Awaits, LayerInv, OwnInv
    <2>12. \A u \in Clients, j \in Irps :
              Awaits(u, j)' /\ InPipe(j)' => irp'[j].ptr \in Uses[u]
        <3> SUFFICES ASSUME NEW u \in Clients, NEW j \in Irps, Awaits(u, j)', InPipe(j)'
                     PROVE  irp'[j].ptr \in Uses[u]
            OBVIOUS
        <3>1. CASE u = t
            <4>1. j = i /\ xfer'[t].at = "wait"
                BY <2>10, <3>1 DEF Awaits
            <4> QED BY <2>7, <2>9, <3>1, <4>1
        <3>2. CASE u # t
            <4>1. Awaits(u, j)
                BY <1>1, <3>2 DEF Awaits
            <4>2. irp'[j] = irp[j]
                BY <2>8, <2>11, <3>2, <4>1
            <4> QED BY <4>1, <4>2 DEF UsesInv, InPipe
        <3> QED BY <3>1, <3>2
    <2>13. \A u \in Clients : xfer'[u].at # "enqueue"
        BY <1>1, <2>2, <2>9
    <2>14. \A u \in Clients : call'[u].op # "none" => call'[u].pipe \in Uses[u]
        BY <1>1, <2>4 DEF UsesInv
    <2> QED BY <1>1, <2>3, <2>12, <2>13, <2>14 DEF UsesInv
<1> QED BY <1>3, <1>4, <1>5, <1>6, <1>7 DEF ClientXfer

\* The other steps: an endpoint is closed only while no client enqueues.
LEMMA OtherUsesKept ==
    ASSUME LayerInv, UsesInv, XferNext, \A t \in Clients : ~TakeCount(t) /\ ~ClientXfer(t)
    PROVE  UsesInv'
<1> USE WhoIsWho
<1>1. /\ UNCHANGED <<pool, xfer, call>>
      /\ PtrSame \/ EventDequeue \/ CloseDequeue
    BY OtherSteps
<1>2. /\ irp \in [Irps -> IrpRecord]
      /\ closing \in [pipe : Pipes \cup {NoPipe}, drained : BOOLEAN]
    BY DEF LayerInv, LayerTypes, DriverInv, IInv, PipeInv
<1>3. \A i \in Irps : irp'[i].ptr \in {irp[i].ptr, NoPipe}
    <2>1. ASSUME NEW t \in Tasks, NEW p \in Pipes, TakeResult(t, p)
          PROVE  \A i \in Irps : irp'[i].ptr \in {irp[i].ptr, NoPipe}
        <3>1. irp' = [irp EXCEPT ![Head(pipe[p].done)] = NewIrp]
            BY <2>1, ResultTaken
        <3> QED BY <1>2, <3>1 DEF NewIrp
    <2>2. CASE PtrSame
        BY <2>2 DEF PtrSame
    <2>3. CASE EventDequeue
        BY <2>1, <2>3 DEF EventDequeue, At, LayerInv, LayerTypes
    <2>4. CASE CloseDequeue
        BY <2>1, <2>4 DEF CloseDequeue, LayerInv, LayerTypes
    <2> QED BY <1>1, <2>2, <2>3, <2>4
<1>4. \A t \in Clients, i \in Irps : Awaits(t, i)' /\ InPipe(i)' => irp'[i].ptr \in Uses[t]
    <2> SUFFICES ASSUME NEW t \in Clients, NEW i \in Irps, Awaits(t, i)', InPipe(i)'
                 PROVE  irp'[i].ptr \in Uses[t]
        OBVIOUS
    <2>1. Awaits(t, i)
        BY <1>1 DEF Awaits
    <2>2. irp'[i].ptr = irp[i].ptr /\ InPipe(i)
        BY <1>3 DEF InPipe
    <2> QED BY <2>1, <2>2 DEF UsesInv
<1>5. \/ UNCHANGED <<enqmutex, closing>>
      \/ \E p \in Pipes : Close(p)
      \/ closing # NotClosing /\ UNCHANGED enqmutex
      \/ closing # NotClosing /\ closing' = NotClosing /\ enqmutex' = NoTask
    <2>1. CASE \E p \in Pipes : ChanEvent(p) \/ Open(p) \/ Close(p)
        BY <2>1 DEF ChanEvent, Open, xferVars
    <2>2. CASE EventXfer
        BY <2>2 DEF EventXfer, Receive, EventDequeue, EventTooLate, EventPanic, EventReset,
           EventSet, xferVars
    <2>3. CASE CloseXfer
        BY <2>3 DEF CloseXfer, CloseDequeue, CloseMisplaced, CloseDrained, CloseEnd, NotClosing, xferVars
    <2>4. CASE Disconnect \/ InvalidatePipe
        BY <2>4 DEF Disconnect, InvalidatePipe
    <2> QED BY <2>1, <2>2, <2>3, <2>4 DEF XferNext
<1>6. /\ \A t \in Clients : xfer'[t].at = "enqueue" => enqmutex' = t
      /\ closing' # NotClosing => enqmutex' = PortTask
    <2>1. CASE \E p \in Pipes : Close(p)
        <3>1. enqmutex = NoTask /\ enqmutex' = PortTask
            BY <2>1 DEF Close
        <3> QED BY <1>1, <3>1 DEF UsesInv
    <2>2. CASE closing # NotClosing
        <3>1. \A t \in Clients : xfer[t].at # "enqueue"
            BY <2>2 DEF UsesInv
        <3> QED BY <1>1, <1>5, <2>1, <2>2, <3>1 DEF UsesInv
    <2> QED BY <1>1, <1>5, <2>1, <2>2 DEF UsesInv
<1> QED BY <1>1, <1>4, <1>6 DEF UsesInv

\* Every step keeps it.
LEMMA UsesInvKept ==
    ASSUME LayerInv, UsesInv, [XferNext]_allVars
    PROVE  UsesInv'
<1>1. CASE UNCHANGED allVars
    BY <1>1 DEF allVars, vars, xferVars, UsesInv, Awaits, InPipe
<1>2. CASE XferNext
    BY <1>2, ClientUsesKept, OtherUsesKept
<1> QED BY <1>1, <1>2

-----------------------------------------------------------------------------
(* Where each pipe has one client: what is reported as done was completed *)

\* No two clients use one pipe.
PipesApart == \A t, u \in Clients : t # u => Uses[t] \cap Uses[u] = {}

\* Event n of the queue, or the one the event task has in hand for n = 0, reports that an
\* IRP of pipe p is done.
Reports(p, n) ==
    \/ n \in DOMAIN evtq /\ evtq[n].pipe = p /\ evtq[n].event = "IRP_DONE"
    \/ n = 0 /\ evtask.at = "dequeue" /\ evtask.pipe = p /\ evtask.event = "IRP_DONE"

\* The IRP that was reported is still there; or the pipe has been freed, or is being
\* closed, with no IRP left that the report could be taken for.
Empty(p) == \A i \in Irps : irp[i].ptr # p
Answered(p) ==
    \/ ~Allocated(p)
    \/ closing.pipe = p /\ Empty(p)
    \/ \E i \in Irps : irp[i].ptr = p /\ irp[i].status = "COMPLETED"

\* A pipe has one report at a time, before any failure, and it is about the IRP it finds.
OneReport(p) ==
    /\ \A m, n \in Nat : Reports(p, m) /\ Reports(p, n) => m = n
    /\ \A m, n \in Nat : Fails(p, m) /\ Reports(p, n) => n < m
    /\ InHand(p) => \A n \in Nat : ~Reports(p, n)
    /\ \A n \in Nat : Reports(p, n) => Answered(p)

ReportInv == \A p \in Pipes : OneReport(p)

\* A pipe has one IRP, that of its client, ...
LEMMA OneIrpEach ==
    ASSUME PipesApart, LayerInv, UsesInv, NEW i \in Irps, NEW j \in Irps,
           InPipe(i), irp[i].ptr = irp[j].ptr
    PROVE  i = j
<1>1. PICK t \in Clients : Awaits(t, i)
    BY DEF LayerInv, UseInv, Awaited
<1>2. PICK u \in Clients : Awaits(u, j)
    BY DEF LayerInv, UseInv, Awaited, InPipe
<1>3. irp[i].ptr \in Uses[t] \cap Uses[u]
    BY <1>1, <1>2 DEF UsesInv, InPipe
<1>4. t = u
    BY <1>3 DEF PipesApart
<1> QED BY <1>1, <1>2, <1>4 DEF Awaits

\* ... and none while its client enqueues.
LEMMA EnqueuesEmpty ==
    ASSUME PipesApart, LayerInv, UsesInv, NEW t \in Clients, xfer[t].at = "enqueue",
           call[t].op # "none", call[t].pipe \in Pipes
    PROVE  Empty(call[t].pipe)
<1> SUFFICES ASSUME NEW i \in Irps, irp[i].ptr = call[t].pipe
             PROVE  FALSE
    BY DEF Empty
<1>1. InPipe(i)
    BY WhoIsWho DEF InPipe
<1>2. PICK u \in Clients : Awaits(u, i)
    BY <1>1 DEF LayerInv, UseInv, Awaited
<1>3. call[t].pipe \in Uses[t] \cap Uses[u]
    BY <1>1, <1>2 DEF UsesInv
<1>4. t = u
    BY <1>3 DEF PipesApart
<1> QED BY <1>2, <1>4 DEF Awaits

\* A pipe with a queue has an IRP.
LEMMA QueueNotEmpty ==
    ASSUME LayerInv, NEW p \in Pipes, Queue(pipe[p]) # <<>>
    PROVE  ~Empty(p)
<1>1. pipe[p] \in PipeRecord /\ PlacedIn(p, pipe[p], irp)
    BY DEF LayerInv, DriverInv, IInv, PipeInv, Placed
<1>2. pipe[p].done # <<>> \/ pipe[p].inflight # NoIrp \/ pipe[p].pending # <<>>
    BY <1>1, QueueEmpty
<1>3. pipe[p].done \in Seq(Irps) /\ pipe[p].pending \in Seq(Irps)
      /\ pipe[p].inflight \in Irps \cup {NoIrp}
    BY <1>1 DEF PipeRecord
<1>4. \A s \in Seq(Irps) : s # <<>> => \E i \in Irps : i \in Elems(s)
    BY HeadTailElems
<1>5. CASE pipe[p].done # <<>>
    BY <1>1, <1>3, <1>4, <1>5 DEF PlacedIn, Empty
<1>6. CASE pipe[p].inflight # NoIrp
    BY <1>1, <1>3, <1>6 DEF PlacedIn, Empty
<1>7. CASE pipe[p].pending # <<>>
    BY <1>1, <1>3, <1>4, <1>7 DEF PlacedIn, Empty
<1> QED BY <1>2, <1>5, <1>6, <1>7

\* A step that leaves the IRPs where they are, and allocates or frees no pipe, leaves the
\* result of a report there.
LEMMA AnswerKept ==
    ASSUME LayerInv, LayerInv', QueueStep, PtrSame, UNCHANGED <<idle, active, closing>>,
           NEW p \in Pipes, Answered(p)
    PROVE  Answered(p)'
<1>1. Allocated(p)' <=> Allocated(p)
    <2>1. p \in Elems(idle) \cup Elems(active) <=> Allocated(p)
        BY DEF LayerInv, DriverInv, IInv, PipeInv, Lists
    <2>2. p \in Elems(idle') \cup Elems(active') <=> Allocated(p)'
        BY DEF LayerInv, DriverInv, IInv, PipeInv, Lists
    <2> QED BY <2>1, <2>2
<1>2. Empty(p) => Empty(p)'
    BY DEF PtrSame, Empty
<1>3. ASSUME NEW i \in Irps, irp[i].ptr = p, irp[i].status = "COMPLETED"
      PROVE  irp'[i].ptr = p /\ irp'[i].status = "COMPLETED"
    <2>1. irp[i].flag = "DONE"
        BY <1>3 DEF LayerInv, DriverInv, Placed, NoEarlyResult
    <2>2. irp'[i].ptr = p
        BY <1>3 DEF PtrSame
    <2>3. irp'[i].flag # "IDLE"
        <3>1. Placed' /\ p # NoPipe
            BY WhoIsWho DEF LayerInv, DriverInv
        <3>2. PlacedIn(p, pipe'[p], irp') /\ Holds(pipe'[p], i)
            BY <2>2, <3>1 DEF Placed
        <3>3. pipe'[p].inflight = i => pipe'[p].inflight # NoIrp
            BY WhoIsWho
        <3> QED BY <3>2, <3>3 DEF PlacedIn, Holds
    <2>4. irp'[i] = irp[i]
        BY <2>1, <2>3 DEF QueueStep, Final
    <2> QED BY <1>3, <2>4
<1> QED BY <1>1, <1>2, <1>3 DEF Answered

\* A step that brings a pipe no event.
LEMMA OneReportStays ==
    ASSUME NEW p, OneReport(p),
           \A n \in Nat : Reports(p, n)' => Reports(p, n),
           \A n \in Nat : Fails(p, n)' => Fails(p, n),
           InHand(p)' => InHand(p),
           \A n \in Nat : Reports(p, n) /\ Answered(p) => Answered(p)'
    PROVE  OneReport(p)'
<1> HIDE DEF Reports, Fails, InHand, Answered
<1> QED BY DEF OneReport

\* A step that brings a pipe no report leaves one that had none without.
LEMMA NoReportStays ==
    ASSUME NEW p, \A n \in Nat : ~Reports(p, n)'
    PROVE  OneReport(p)'
<1> HIDE DEF Reports, Fails, InHand, Answered
<1> QED BY DEF OneReport

\* What a step that leaves the events alone has to show.
LEMMA EventsStay ==
    ASSUME ReportInv, UNCHANGED <<evtq, evtask>>,
           \A p \in Pipes : (\E n \in Nat : Reports(p, n)) /\ Answered(p) => Answered(p)'
    PROVE  ReportInv'
<1>1. \A p \in Pipes, n \in Nat : /\ Reports(p, n)' => Reports(p, n)
                                  /\ Fails(p, n)' => Fails(p, n)
                                  /\ InHand(p)' => InHand(p)
    BY DEF Reports, Fails, InHand
<1> HIDE DEF Reports, Fails, InHand, Answered
<1>2. ASSUME NEW p \in Pipes
      PROVE  OneReport(p)'
    <2>1. InHand(p)' => InHand(p)
        BY <1>1
    <2> QED BY <1>1, <2>1, OneReportStays DEF ReportInv
<1> QED BY <1>2 DEF ReportInv

\* An event that is sent comes last.
LEMMA SentReports ==
    ASSUME evtq \in Seq(Message), NEW r \in Pipes, NEW e \in PipeEvents,
           evtq' = evtq \/ evtq' = Sent(r, e), UNCHANGED evtask,
           NEW p \in Pipes, NEW n \in Nat
    PROVE  LET L == Len(evtq)
           IN  /\ L \in Nat
               /\ Reports(p, n)' => Reports(p, n) \/ (p = r /\ e = "IRP_DONE" /\ n = L + 1)
               /\ Fails(p, n)' => Fails(p, n) \/ (p = r /\ e # "IRP_DONE" /\ n = L + 1)
               /\ Reports(p, n) => n <= L
<1> DEFINE x == [pipe |-> r, event |-> e]
           L == Len(evtq)
<1>1. L \in Nat /\ DOMAIN evtq = 1 .. L /\ x \in Message /\ x.pipe = r /\ x.event = e
    BY DEF Message
<1>2. evtq' = evtq \/ evtq' = Append(evtq, x)
    BY DEF Sent
<1>3. Reports(p, n) => n <= L
    BY <1>1 DEF Reports
<1>4. CASE evtq' = evtq
    BY <1>1, <1>3, <1>4 DEF Reports, Fails
<1>5. CASE evtq' = Append(evtq, x)
    <2> HIDE DEF x
    <2>1. /\ DOMAIN evtq' = 1 .. L + 1
          /\ evtq'[L + 1] = x
          /\ \A k \in 1 .. L : evtq'[k] = evtq[k]
        <3>1. /\ Append(evtq, x) \in Seq(Message) /\ Len(Append(evtq, x)) = L + 1
              /\ \A k \in 1 .. L : Append(evtq, x)[k] = evtq[k]
              /\ Append(evtq, x)[L + 1] = x
            BY <1>1, AppendProperties
        <3>2. DOMAIN Append(evtq, x) = 1 .. L + 1
            BY <3>1
        <3> HIDE DEF L
        <3> QED BY <1>5, <3>1, <3>2
    <2>2. n \in 1 .. L + 1 => n \in 1 .. L \/ n = L + 1
        BY <1>1
    <2> HIDE DEF L
    <2>3. Reports(p, n)' => Reports(p, n) \/ (p = r /\ e = "IRP_DONE" /\ n = L + 1)
        BY <1>1, <2>1, <2>2 DEF Reports
    <2>4. Fails(p, n)' => Fails(p, n) \/ (p = r /\ e # "IRP_DONE" /\ n = L + 1)
        BY <1>1, <2>1, <2>2 DEF Fails, Failure
    <2> HIDE DEF Reports, Fails
    <2> QED BY <1>1, <1>3, <2>3, <2>4 DEF L
<1> QED BY <1>2, <1>4, <1>5

\* There is no event at the beginning.
LEMMA InitReports ==
    ASSUME XferInit
    PROVE  ReportInv
<1>1. evtq = <<>> /\ evtask.at = "wait"
    BY DEF XferInit, Waits
<1>2. \A p \in Pipes, n \in Nat : ~Reports(p, n) /\ ~Fails(p, n)
    BY <1>1 DEF Reports, Fails
<1> HIDE DEF Reports, Fails
<1> QED BY <1>2 DEF ReportInv, OneReport

\* The steps of a client: it enqueues on a pipe of its own, which has no IRP and so no report.
LEMMA ClientReports ==
    ASSUME PipesApart, LayerInv, UsesInv, ReportInv,
           NEW t \in Clients, TakeCount(t) \/ ClientXfer(t)
    PROVE  ReportInv'
<1> USE WhoIsWho
<1>1. UNCHANGED <<evtq, evtask, closing>>
    BY ClientFrame
<1>2. UNCHANGED <<pipe, irp>> => ReportInv'
    <2> SUFFICES ASSUME UNCHANGED <<pipe, irp>>
                 PROVE  ReportInv'
        OBVIOUS
    <2>1. \A p \in Pipes : Answered(p) => Answered(p)'
        BY <1>1 DEF Answered, Allocated, Empty
    <2> HIDE DEF Answered
    <2> QED BY <1>1, <2>1, EventsStay
<1>3. CASE TakeCount(t) \/ GiveIrp(t) \/ GiveCount(t) \/ WaitBits(t)
    BY <1>2, <1>3 DEF TakeCount, GiveIrp, GiveCount, WaitBits, vars
<1>4. CASE TakeIrp(t)
    BY <1>2, <1>4, TakeIrpStutters DEF vars
<1>5. CASE (\E p \in Pipes : Enqueue(t, p)) \/ Refused(t)
    BY <1>2, <1>5 DEF Enqueue, EnqueueCheck, Refused, EnqueueReject
<1>6. CASE Enqueued(t)
    <2>1. xfer[t].at = "enqueue" /\ enqmutex = t /\ call[t].op = "enqueue"
        BY <1>6 DEF Enqueued, EnqueueStart, EnqueuePend, Enqueuing, UsesInv
    <2>2. /\ call[t].pipe \in Pipes /\ call[t].irp \in Irps /\ irp[call[t].irp].ptr = NoPipe
          /\ pipe \in [Pipes -> PipeRecord] /\ irp \in [Irps -> IrpRecord]
        BY <2>1 DEF LayerInv, DriverInv, IInv, PipeInv, RestInv, CheckedIdle, Enqueuing
    <2>3. PICK r \in Pipes : r = call[t].pipe
        BY <2>2
    <2>4. PICK i \in Irps : i = call[t].irp
        BY <2>2
    <2>5. Empty(r) /\ closing = NotClosing
        BY <2>1, <2>3, EnqueuesEmpty DEF UsesInv
    <2>6. /\ Allocated(r)
          /\ \A p \in Pipes : p # r => pipe'[p] = pipe[p]
          /\ \A j \in Irps : j # i => irp'[j] = irp[j]
        BY <1>6, <2>2, <2>3, <2>4 DEF Enqueued, EnqueueStart, EnqueuePend
    <2>7. irp'[i].ptr = r
        BY <1>6, <2>2, <2>3, <2>4 DEF Enqueued, EnqueueStart, EnqueuePend, IrpRecord
    <2>8. ~Answered(r)
        BY <2>5, <2>6 DEF Answered, Empty, NotClosing
    <2>9. ASSUME NEW p \in Pipes, p # r, Answered(p)
          PROVE  Answered(p)'
        <3>1. CASE ~Allocated(p)
            BY <2>6, <2>9, <3>1 DEF Answered, Allocated
        <3>2. CASE closing.pipe = p
            BY <2>5, <3>2 DEF NotClosing
        <3>3. ASSUME NEW j \in Irps, irp[j].ptr = p, irp[j].status = "COMPLETED"
              PROVE  Answered(p)'
            <4>1. j # i
                BY <2>2, <2>4, <3>3
            <4> QED BY <2>6, <3>3, <4>1 DEF Answered
        <3> QED BY <2>9, <3>1, <3>2, <3>3 DEF Answered
    <2> HIDE DEF Answered
    <2> QED BY <1>1, <2>8, <2>9, EventsStay
<1> QED BY <1>3, <1>4, <1>5, <1>6 DEF ClientXfer

\* The interrupt of a channel: it reports the IRP that was in flight, the only one of the
\* pipe, so nothing else was reported.
LEMMA ChanReports ==
    ASSUME PipesApart, LayerInv, LayerInv', QueueStep, HaltInv, UsesInv, ReportInv,
           NEW r \in Pipes, ChanEvent(r), fault = "none"
    PROVE  ReportInv'
<1> USE WhoIsWho
<1>1. /\ pipe \in [Pipes -> PipeRecord] /\ pipe[r] \in PipeRecord /\ port \in PortRecord
      /\ irp \in [Irps -> IrpRecord]
      /\ evtq \in Seq(Message) /\ UNCHANGED <<evtask, closing, idle, active>>
    <2>1. UNCHANGED <<idle, active>>
        BY DEF ChanEvent, ChanStep, ChanIgnored, ChanDoneNext, ChanDoneOrphan, ChanDonePause,
           ChanDoneCommand, ChanError, Fail
    <2> QED BY <2>1, PipeFacts DEF ChanEvent, LayerInv, DriverInv, IInv, PipeInv
<1>2. PtrSame
    BY QuietSteps DEF ChanEvent
<1>3. \A p \in Pipes : Answered(p) => Answered(p)'
    BY <1>1, <1>2, AnswerKept
<1>4. CASE ChanIgnored(r) \/ ChanDoneOrphan(r)
    <2>1. evtq' = evtq
        <3>1. ~port.conn \/ fault' # "none"
            BY <1>4 DEF ChanIgnored, ChanDoneOrphan, Fail
        <3> QED BY <3>1 DEF ChanEvent
    <2> HIDE DEF Answered
    <2> QED BY <1>1, <1>3, <2>1, EventsStay
<1>5. CASE ChanDoneNext(r) \/ ChanDonePause(r) \/ ChanDoneCommand(r) \/ \E e \in ErrorEvents : ChanError(r, e)
    <2>1. r \in hw /\ port.conn
        BY <1>5 DEF ChanDoneNext, ChanDonePause, ChanDoneCommand, ChanError, SlotDone
    <2>2. pipe[r].state = "ACTIVE"
        BY <2>1 DEF HaltInv, PipeHalts
    <2>3. ~InHand(r) /\ \A n \in Nat : ~Fails(r, n)
        BY <2>2 DEF HaltInv, PipeHalts
    <2>4. pipe[r].inflight \in Irps /\ PlacedIn(r, pipe[r], irp)
        BY <1>1, <2>1, PipeFacts DEF PipeRecord, LayerInv, DriverInv, Placed
    <2>5. PICK j \in Irps : j = pipe[r].inflight
        BY <2>4
    <2>6. irp[j].ptr = r /\ irp[j].flag = "INFLIGHT" /\ InPipe(j)
        BY <2>4, <2>5 DEF PlacedIn, InPipe
    <2>7. \A i \in Irps : irp[i].ptr = r => i = j
        BY <2>6, OneIrpEach
    <2>8. irp[j].status # "COMPLETED"
        BY <2>6 DEF LayerInv, DriverInv, Placed, NoEarlyResult
    <2>9. ~Answered(r)
        BY <2>2, <2>6, <2>7, <2>8 DEF Answered, Allocated, Empty
    <2>10. \A n \in Nat : ~Reports(r, n)
        BY <2>9 DEF ReportInv, OneReport
    <2>11. pipe[r].pending = <<>>
        <3> SUFFICES ASSUME pipe[r].pending # <<>>
                     PROVE  FALSE
            OBVIOUS
        <3>1. pipe[r].pending \in Seq(Irps)
            BY <1>1 DEF PipeRecord
        <3>2. Head(pipe[r].pending) \in Irps /\ Head(pipe[r].pending) \in Elems(pipe[r].pending)
            BY <3>1, HeadTailElems
        <3> QED BY <2>4, <2>6, <2>7, <3>2 DEF PlacedIn
    <2>12. \/ pipe'[r].last_event = "IRP_DONE" /\ irp' = DoneIrps(r)
           \/ pipe'[r].last_event \in ErrorEvents
        <3>1. CASE ChanDoneNext(r)
            <4>1. DoneQueue(pipe[r]).pending = <<>> /\ DoneQueue(pipe[r]).last_event = "IRP_DONE"
                BY <1>1, <2>11 DEF DoneQueue, ReturnCurIrp, PipeRecord
            <4>2. pipe' = [pipe EXCEPT ![r] = DoneQueue(pipe[r])] /\ irp' = DoneIrps(r)
                BY <3>1, <4>1 DEF ChanDoneNext, HasNext
            <4> QED BY <1>1, <4>1, <4>2
        <3>2. CASE ChanDonePause(r)
            <4>1. pipe'[r] = PausedOnDone(pipe[r])
                BY <1>1, <3>2 DEF ChanDonePause
            <4>2. PausedOnDone(pipe[r]).last_event = "IRP_DONE"
                BY <1>1 DEF PausedOnDone, DoneQueue, ReturnCurIrp, PipeRecord
            <4> QED BY <3>2, <4>1, <4>2 DEF ChanDonePause
        <3>3. CASE ChanDoneCommand(r)
            <4>1. pipe'[r] = [DoneQueue(pipe[r]) EXCEPT !.waiting = FALSE]
                BY <1>1, <3>3 DEF ChanDoneCommand
            <4>2. pipe'[r].last_event = "IRP_DONE"
                BY <1>1, <4>1 DEF DoneQueue, ReturnCurIrp, PipeRecord
            <4> QED BY <3>3, <4>2 DEF ChanDoneCommand
        <3>4. ASSUME NEW e \in ErrorEvents, ChanError(r, e)
              PROVE  pipe'[r].last_event \in ErrorEvents
            <4>1. pipe'[r] = [ReturnCurIrp(pipe[r]) EXCEPT !.state = "HALTED", !.last_event = e]
                BY <1>1, <3>4 DEF ChanError
            <4> QED BY <1>1, <3>4, <4>1 DEF ReturnCurIrp, PipeRecord
        <3> QED BY <1>5, <3>1, <3>2, <3>3, <3>4
    <2>13. PICK e \in PipeEvents : e = pipe'[r].last_event
        BY <2>12 DEF PipeEvents
    <2>14. evtq' = evtq \/ evtq' = Sent(r, e)
        BY <2>13 DEF ChanEvent
    <2>15. e = "IRP_DONE" => Answered(r)'
        <3> SUFFICES ASSUME e = "IRP_DONE"
                     PROVE  Answered(r)'
            OBVIOUS
        <3>1. irp' = DoneIrps(r)
            BY <2>12, <2>13, ParameterAssumption
        <3>2. irp'[j] = [irp[j] EXCEPT !.flag = "DONE", !.status = "COMPLETED"]
            BY <2>5, <3>1 DEF DoneIrps, Finished
        <3>3. irp'[j].status = "COMPLETED"
            BY <1>1, <3>2 DEF IrpRecord
        <3>4. irp'[j].ptr = r
            BY <1>2, <2>6 DEF PtrSame
        <3> QED BY <3>3, <3>4 DEF Answered
    <2> DEFINE L == Len(evtq)
    <2>16. \A p \in Pipes, n \in Nat :
              /\ L \in Nat
              /\ Reports(p, n)' => Reports(p, n) \/ (p = r /\ e = "IRP_DONE" /\ n = L + 1)
              /\ Fails(p, n)' => Fails(p, n) \/ (p = r /\ e # "IRP_DONE" /\ n = L + 1)
        BY <1>1, <2>14, SentReports
    <2>17. \A p \in Pipes : InHand(p)' => InHand(p)
        BY <1>1 DEF InHand
    <2> HIDE DEF Reports, Fails, InHand, Answered, L
    <2>18. OneReport(r)'
        BY <2>3, <2>10, <2>15, <2>16, <2>17 DEF OneReport
    <2>19. ASSUME NEW p \in Pipes, p # r
           PROVE  OneReport(p)'
        <3>1. OneReport(p)
            BY DEF ReportInv
        <3> QED BY <1>3, <2>16, <2>17, <2>19, <3>1, OneReportStays
    <2> QED BY <2>18, <2>19 DEF ReportInv
<1> QED BY <1>4, <1>5 DEF ChanEvent, ChanStep

\* The loss of the device, and the walk that invalidates its pipes: nothing more is reported.
LEMMA LossReports ==
    ASSUME LayerInv, LayerInv', QueueStep, ReportInv, Disconnect \/ InvalidatePipe
    PROVE  ReportInv'
<1> USE WhoIsWho
<1>1. /\ evtq \in Seq(Message)
      /\ inval' \in [phase : {"off", "active", "idle"}, cur : Pipes \cup {NoPipe}]
    BY DEF LayerInv, LayerTypes, DriverInv, IInv, RestInv
<1>2. UNCHANGED <<evtask, closing, idle, active>>
    BY DEF Disconnect, PortLost, PortUnchanged, InvalidatePipe, InvalidateBegin, InvalidateNext,
       Visit
<1>3. PtrSame
    BY QuietSteps DEF Disconnect, InvalidatePipe
<1>4. \A p \in Pipes : Answered(p) => Answered(p)'
    BY <1>2, <1>3, AnswerKept
<1>5. \A p \in Pipes : InHand(p)' => InHand(p)
    BY <1>2 DEF InHand
<1>6. CASE evtq' = evtq
    <2> HIDE DEF Answered
    <2> QED BY <1>2, <1>4, <1>6, EventsStay
<1>7. ASSUME NEW c \in Pipes, evtq' = Sent(c, "INVALID")
      PROVE  ReportInv'
    <2> DEFINE L == Len(evtq)
    <2>1. \A p \in Pipes, n \in Nat :
              /\ L \in Nat
              /\ Reports(p, n)' => Reports(p, n)
              /\ Fails(p, n)' => Fails(p, n) \/ n = L + 1
              /\ Reports(p, n) => n <= L
        BY <1>1, <1>2, <1>7, SentReports DEF PipeEvents
    <2> HIDE DEF Reports, Fails, InHand, Answered, L
    <2>2. ASSUME NEW p \in Pipes
          PROVE  OneReport(p)'
        <3>1. OneReport(p)
            BY DEF ReportInv
        <3>2. \A m, n \in Nat : Fails(p, m)' /\ Reports(p, n)' => n < m
            BY <2>1, <3>1 DEF OneReport
        <3>3. /\ \A m, n \in Nat : Reports(p, m)' /\ Reports(p, n)' => m = n
              /\ InHand(p)' => \A n \in Nat : ~Reports(p, n)'
              /\ \A n \in Nat : Reports(p, n)' => Answered(p)'
            BY <1>4, <1>5, <2>1, <3>1 DEF OneReport
        <3> QED BY <3>2, <3>3 DEF OneReport
    <2> QED BY <2>2 DEF ReportInv
<1>8. evtq' = evtq \/ \E c \in Pipes : evtq' = Sent(c, "INVALID")
    BY <1>1 DEF Disconnect, InvalidatePipe
<1> QED BY <1>6, <1>7, <1>8

\* A task that takes a result from a pipe leaves the other pipes alone, and this one empty.
LEMMA TakenAnswers ==
    ASSUME PipesApart, LayerInv, UsesInv, NEW t \in Tasks, NEW r \in Pipes, TakeResult(t, r),
           UNCHANGED closing
    PROVE  /\ \A p \in Pipes : p # r /\ Answered(p) => Answered(p)'
           /\ Empty(r)'
<1> DEFINE h == Head(pipe[r].done)
<1>1. PICK i \in Irps : i = h
    BY ResultTaken
<1>2. irp[i].ptr = r /\ InPipe(i) /\ irp' = [irp EXCEPT ![i] = NewIrp]
    BY <1>1, ResultTaken
<1>3. irp \in [Irps -> IrpRecord]
    BY DEF LayerInv, DriverInv, IInv, PipeInv
<1>4. irp'[i].ptr = NoPipe /\ \A j \in Irps : j # i => irp'[j] = irp[j]
    BY <1>2, <1>3 DEF NewIrp
<1>5. \A j \in Irps : irp[j].ptr = r => j = i
    BY <1>2, OneIrpEach
<1>6. Empty(r)'
    BY <1>4, <1>5, WhoIsWho DEF Empty
<1>7. \A p \in Pipes : Allocated(p)' <=> Allocated(p)
    BY TakenHalts DEF Allocated
<1>8. ASSUME NEW p \in Pipes, p # r, Answered(p)
      PROVE  Answered(p)'
    <2>1. CASE ~Allocated(p)
        BY <1>7, <2>1 DEF Answered
    <2>2. CASE closing.pipe = p /\ Empty(p)
        BY <1>4, <2>2, WhoIsWho DEF Answered, Empty
    <2>3. ASSUME NEW j \in Irps, irp[j].ptr = p, irp[j].status = "COMPLETED"
          PROVE  Answered(p)'
        BY <1>2, <1>4, <1>8, <2>3 DEF Answered
    <2> QED BY <1>8, <2>1, <2>2, <2>3 DEF Answered
<1> QED BY <1>6, <1>8

\* The event task takes the events in their order; after the report of a completion, and
\* after a failure, the pipe has no other report.
LEMMA EventReports ==
    ASSUME PipesApart, LayerInv, LayerInv', QueueStep, HaltInv, UsesInv, ReportInv, EventXfer
    PROVE  ReportInv'
<1> USE WhoIsWho
<1>1. evtq \in Seq(Message) /\ evtask \in EventTaskRecord
    BY DEF LayerInv, LayerTypes, EventTaskRecord
<1>2. evtq' = evtq => \A p \in Pipes, n \in Nat : Fails(p, n)' => Fails(p, n)
    BY DEF Fails
<1>3. ASSUME UNCHANGED <<evtq, vars, closing>>,
             \A p \in Pipes : InHand(p)' => InHand(p),
             \A p \in Pipes, n \in Nat : Reports(p, n)' => Reports(p, n)
      PROVE  ReportInv'
    <2>1. \A p \in Pipes : Answered(p) => Answered(p)'
        BY <1>3 DEF Answered, Allocated, Empty, vars
    <2> HIDE DEF Answered, Reports, Fails, InHand
    <2> QED BY <1>2, <1>3, <2>1, OneReportStays DEF ReportInv
<1>4. CASE Receive
    <2> DEFINE L == Len(evtq)
               h == Head(evtq)
    <2>1. /\ evtq # <<>> /\ evtq' = Tail(evtq) /\ UNCHANGED <<vars, closing>>
          /\ evtask.at = "wait"
          /\ evtask' = [at |-> "dequeue", pipe |-> h.pipe, event |-> h.event, irp |-> NoIrp]
        BY <1>4 DEF Receive, At
    <2>2. /\ L \in Nat \ {0} /\ DOMAIN evtq = 1 .. L /\ h = evtq[1]
          /\ DOMAIN evtq' = 1 .. L - 1
          /\ \A n \in 1 .. L - 1 : evtq'[n] = evtq[n + 1] /\ n + 1 \in 1 .. L
        <3>1. /\ Tail(evtq) \in Seq(Message) /\ Len(Tail(evtq)) = L - 1 /\ h = evtq[1]
              /\ \A n \in 1 .. Len(Tail(evtq)) : Tail(evtq)[n] = evtq[n + 1]
            BY <1>1, <2>1, HeadTailProperties
        <3>2. L \in Nat \ {0} /\ DOMAIN evtq = 1 .. L /\ DOMAIN Tail(evtq) = 1 .. L - 1
            BY <1>1, <2>1, <3>1, LenProperties, EmptySeq
        <3>3. \A n \in 1 .. L - 1 : n + 1 \in 1 .. L
            BY <3>2
        <3> QED BY <2>1, <3>1, <3>2, <3>3
    <2>3. ASSUME NEW p \in Pipes
          PROVE  /\ \A n \in Nat : Fails(p, n)' => Fails(p, n + 1)
                 /\ InHand(p)' => Fails(p, 1)
        BY <2>1, <2>2 DEF Fails, InHand
    <2>4. ASSUME NEW p \in Pipes, NEW n \in Nat, Reports(p, n)'
          PROVE  Reports(p, n + 1)
        <3>1. CASE n \in DOMAIN evtq' /\ evtq'[n].pipe = p /\ evtq'[n].event = "IRP_DONE"
            BY <2>2, <3>1 DEF Reports
        <3>2. CASE n = 0 /\ evtask'.pipe = p /\ evtask'.event = "IRP_DONE"
            <4>1. h.pipe = p /\ h.event = "IRP_DONE" /\ 1 \in DOMAIN evtq /\ n + 1 = 1
                BY <2>1, <2>2, <3>2
            <4> QED BY <2>2, <4>1 DEF Reports
        <3> QED BY <2>4, <3>1, <3>2 DEF Reports
    <2>5. \A p \in Pipes : Answered(p) => Answered(p)'
        BY <2>1 DEF Answered, Allocated, Empty, vars
    <2> HIDE DEF Answered, Reports, Fails, InHand
    <2>6. ASSUME NEW p \in Pipes
          PROVE  OneReport(p)'
        <3>1. OneReport(p)
            BY DEF ReportInv
        <3>2. ASSUME NEW m \in Nat, NEW n \in Nat, Reports(p, m)', Reports(p, n)'
              PROVE  m = n
            <4>1. m + 1 \in Nat /\ n + 1 \in Nat
                OBVIOUS
            <4>2. m + 1 = n + 1
                BY <2>4, <3>1, <3>2, <4>1 DEF OneReport
            <4> QED BY <4>2
        <3>3. ASSUME NEW m \in Nat, NEW n \in Nat, Fails(p, m)', Reports(p, n)'
              PROVE  n < m
            <4>1. m + 1 \in Nat /\ n + 1 \in Nat
                OBVIOUS
            <4>2. n + 1 < m + 1
                BY <2>3, <2>4, <3>1, <3>3, <4>1 DEF OneReport
            <4> QED BY <4>2
        <3>4. ASSUME InHand(p)', NEW n \in Nat, Reports(p, n)'
              PROVE  FALSE
            <4>1. n + 1 \in Nat /\ 1 \in Nat
                OBVIOUS
            <4>2. n + 1 < 1
                BY <2>3, <2>4, <3>1, <3>4, <4>1 DEF OneReport
            <4> QED BY <4>2
        <3>5. ASSUME NEW n \in Nat, Reports(p, n)'
              PROVE  Answered(p)'
            <4>1. n + 1 \in Nat
                OBVIOUS
            <4> QED BY <2>4, <2>5, <3>1, <3>5, <4>1 DEF OneReport
        <3> QED BY <3>2, <3>3, <3>4, <3>5 DEF OneReport
    <2> QED BY <2>6 DEF ReportInv
<1>5. CASE EventDequeue
    <2>1. /\ evtask.pipe \in Pipes /\ TakeResult(EventTask, evtask.pipe)
          /\ evtq' = evtq /\ UNCHANGED closing
        BY <1>5 DEF EventDequeue, At, LayerInv, LayerTypes
    <2>2. PICK r \in Pipes : r = evtask.pipe
        BY <2>1
    <2>3. /\ evtask.at = "dequeue" /\ evtask'.pipe = r /\ evtask'.event = evtask.event
          /\ evtask'.at \in {"reset", "set"}
        BY <1>1, <1>5, <2>2 DEF EventDequeue, At, After, EventTaskRecord
    <2>4. \A p \in Pipes, n \in Nat : Reports(p, n)' => Reports(p, n) /\ n # 0
        <3>1. 0 \notin DOMAIN evtq
            BY <1>1
        <3> QED BY <2>1, <2>3, <3>1 DEF Reports
    <2>5. \A p \in Pipes : InHand(p)' => InHand(p)
        BY <2>2, <2>3 DEF InHand
    <2>6. \A p \in Pipes : p # r /\ Answered(p) => Answered(p)'
        BY <2>1, <2>2, TakenAnswers
    <2>7. \A n \in Nat : ~Reports(r, n)'
        <3>1. CASE evtask.event = "IRP_DONE"
            <4>1. Reports(r, 0)
                BY <2>2, <2>3, <3>1 DEF Reports
            <4> HIDE DEF Reports
            <4> QED BY <2>4, <4>1 DEF ReportInv, OneReport
        <3>2. CASE evtask.event # "IRP_DONE"
            <4>1. InHand(r)
                BY <2>2, <2>3, <3>2 DEF InHand, Failure
            <4> HIDE DEF Reports
            <4> QED BY <2>4, <4>1 DEF ReportInv, OneReport
        <3> QED BY <3>1, <3>2
    <2> HIDE DEF Answered, Reports, Fails, InHand
    <2>8. ASSUME NEW p \in Pipes
          PROVE  OneReport(p)'
        <3>1. CASE p = r
            BY <2>7, <3>1, NoReportStays
        <3>2. CASE p # r
            <4>1. OneReport(p)
                BY DEF ReportInv
            <4> QED BY <1>2, <2>1, <2>4, <2>5, <2>6, <3>2, <4>1, OneReportStays
        <3> QED BY <3>1, <3>2
    <2> QED BY <2>8 DEF ReportInv
<1>6. CASE EventTooLate \/ EventSet
    <2>1. UNCHANGED <<evtq, vars, closing>> /\ evtask'.at = "wait"
        BY <1>1, <1>6 DEF EventTooLate, EventSet, Waits, Proceeds, At, After, EventTaskRecord
    <2>2. \A p \in Pipes : ~InHand(p)'
        BY <2>1 DEF InHand
    <2>3. \A p \in Pipes, n \in Nat : Reports(p, n)' => Reports(p, n)
        BY <2>1 DEF Reports
    <2> QED BY <1>3, <2>1, <2>2, <2>3
<1>7. CASE EventPanic
    <2>1. UNCHANGED <<evtq, evtask, closing, pipe, irp>>
        BY <1>7 DEF EventPanic, DequeueMisplaced, Fail, xferVars
    <2>2. \A p \in Pipes : Answered(p) => Answered(p)'
        BY <2>1 DEF Answered, Allocated, Empty
    <2> HIDE DEF Answered
    <2> QED BY <2>1, <2>2, EventsStay
<1>8. CASE EventReset
    <2>1. evtask.pipe \in Pipes
        BY <1>8 DEF EventReset, At, LayerInv, LayerTypes
    <2>2. evtq' = evtq /\ evtask.at = "reset" /\ evtask'.at = "set" /\ UNCHANGED closing
        BY <1>1, <1>8 DEF EventReset, At, Proceeds, After, EventTaskRecord
    <2>3. CommandNow(EventTask, evtask.pipe, "RESET") \/ UNCHANGED vars
        BY <1>8 DEF EventReset
    <2>4. PtrSame
        BY <2>1, <2>3, QuietSteps
    <2>5. UNCHANGED <<idle, active>>
        BY <2>3 DEF CommandNow, vars
    <2>6. \A p \in Pipes : Answered(p) => Answered(p)'
        BY <2>2, <2>4, <2>5, AnswerKept
    <2>7. /\ \A p \in Pipes : ~InHand(p)'
          /\ \A p \in Pipes, n \in Nat : Reports(p, n)' => Reports(p, n)
        BY <2>2 DEF InHand, Reports
    <2> HIDE DEF Answered, Reports, Fails, InHand
    <2> QED BY <1>2, <2>2, <2>6, <2>7, OneReportStays DEF ReportInv
<1> QED BY <1>4, <1>5, <1>6, <1>7, <1>8 DEF EventXfer

\* A new pipe is not one that was reported; and an endpoint is closed, and its results
\* taken, while nobody enqueues.
LEMMA EndpointReports ==
    ASSUME PipesApart, LayerInv, UsesInv, ReportInv,
           CloseXfer \/ \E p \in Pipes : Open(p) \/ Close(p)
    PROVE  ReportInv'
<1> USE WhoIsWho
<1>1. /\ pipe \in [Pipes -> PipeRecord]
      /\ closing # NotClosing => closing.pipe \in Pipes
      /\ closing \in [pipe : Pipes \cup {NoPipe}, drained : BOOLEAN]
    BY DEF LayerInv, LayerTypes, DriverInv, IInv, PipeInv
<1>2. UNCHANGED <<evtq, evtask>>
    BY DEF CloseXfer, CloseDequeue, CloseMisplaced, CloseDrained, CloseEnd, Open, Close, xferVars
<1>3. ASSUME \A p \in Pipes : (\E n \in Nat : Reports(p, n)) /\ Answered(p) => Answered(p)'
      PROVE  ReportInv'
    <2> HIDE DEF Answered
    <2> QED BY <1>2, <1>3, EventsStay
<1>4. ASSUME NEW r \in Pipes, Open(r)
      PROVE  ReportInv'
    <2>1. /\ UNCHANGED <<irp, closing>>
          /\ evtask.pipe # r /\ \A n \in DOMAIN evtq : evtq[n].pipe # r
          /\ \A p \in Pipes : p # r => pipe'[p] = pipe[p]
        BY <1>1, <1>4 DEF Open, Alloc, xferVars
    <2>2. \A n \in Nat : ~Reports(r, n)
        BY <2>1 DEF Reports
    <2>3. \A p \in Pipes : p # r /\ Answered(p) => Answered(p)'
        BY <2>1 DEF Answered, Allocated, Empty
    <2> HIDE DEF Reports, Answered
    <2> QED BY <1>3, <2>2, <2>3
<1>5. ASSUME NEW r \in Pipes, Close(r)
      PROVE  ReportInv'
    <2>1. closing = NotClosing /\ UNCHANGED vars
        BY <1>5 DEF Close
    <2>2. \A p \in Pipes : Answered(p) => Answered(p)'
        BY <2>1 DEF Answered, Allocated, Empty, NotClosing, vars
    <2> HIDE DEF Reports, Answered
    <2> QED BY <1>3, <2>2
<1>6. CASE CloseDequeue
    <2>1. /\ closing.pipe \in Pipes /\ TakeResult(PortTask, closing.pipe) /\ UNCHANGED closing
        BY <1>6 DEF CloseDequeue, LayerInv, LayerTypes
    <2>2. PICK r \in Pipes : r = closing.pipe
        BY <2>1
    <2>3. Empty(r)' /\ \A p \in Pipes : p # r /\ Answered(p) => Answered(p)'
        BY <2>1, <2>2, TakenAnswers
    <2>4. Answered(r)'
        BY <2>1, <2>2, <2>3 DEF Answered
    <2> HIDE DEF Reports, Answered
    <2> QED BY <1>3, <2>3, <2>4
<1>7. CASE CloseDrained
    <2>1. UNCHANGED vars /\ closing'.pipe = closing.pipe
        BY <1>1, <1>7 DEF CloseDrained
    <2>2. \A p \in Pipes : Answered(p) => Answered(p)'
        BY <2>1 DEF Answered, Allocated, Empty, vars
    <2> HIDE DEF Reports, Answered
    <2> QED BY <1>3, <2>2
<1>8. CASE CloseEnd
    <2>1. PICK r \in Pipes : r = closing.pipe
        BY <1>1, <1>8 DEF CloseEnd, NotClosing
    <2>2. CASE FreePipe(PortTask, r)
        <3>1. UNCHANGED irp /\ pipe' = [pipe EXCEPT ![r] = NewPipe("FREE", pipe[r].addr)]
            BY <2>2 DEF FreePipe
        <3>2. pipe'[r].state = "FREE" /\ \A p \in Pipes : p # r => pipe'[p] = pipe[p]
            BY <1>1, <3>1 DEF NewPipe
        <3>3. Answered(r)'
            BY <3>2 DEF Answered, Allocated
        <3>4. \A p \in Pipes : p # r /\ Answered(p) => Answered(p)'
            BY <2>1, <3>1, <3>2 DEF Answered, Allocated, Empty
        <3> HIDE DEF Reports, Answered
        <3> QED BY <1>3, <3>3, <3>4
    <2>3. CASE Queue(pipe[r]) # <<>> /\ UNCHANGED vars
        <3>1. ~Empty(r)
            BY <2>3, QueueNotEmpty
        <3>2. \A p \in Pipes : Answered(p) => Answered(p)'
            BY <2>1, <2>3, <3>1 DEF Answered, Allocated, Empty, vars
        <3> HIDE DEF Reports, Answered
        <3> QED BY <1>3, <3>2
    <2> QED BY <1>8, <2>1, <2>2, <2>3 DEF CloseEnd
<1>9. CASE CloseMisplaced
    <2>1. UNCHANGED <<pipe, irp, closing>>
        BY <1>9 DEF CloseMisplaced, DequeueMisplaced, Fail, xferVars
    <2>2. \A p \in Pipes : Answered(p) => Answered(p)'
        BY <2>1 DEF Answered, Allocated, Empty
    <2> HIDE DEF Reports, Answered
    <2> QED BY <1>3, <2>2
<1> QED BY <1>4, <1>5, <1>6, <1>7, <1>8, <1>9 DEF CloseXfer

\* Every step keeps the reports.
LEMMA ReportsKept ==
    ASSUME PipesApart, LayerInv, LayerInv', HaltInv, UsesInv, ReportInv, [XferNext]_allVars
    PROVE  ReportInv'
<1>1. CASE UNCHANGED allVars
    <2>1. UNCHANGED <<evtq, evtask, closing, pipe, irp>>
        BY <1>1 DEF allVars, vars, xferVars
    <2>2. \A p \in Pipes : Answered(p) => Answered(p)'
        BY <2>1 DEF Answered, Allocated, Empty
    <2> HIDE DEF Answered
    <2> QED BY <2>1, <2>2, EventsStay
<1>2. CASE XferNext
    <2>1. QueueStep
        BY <1>2, LayerQueues
    <2> QED BY <1>2, <2>1, ClientReports, ChanReports, LossReports, EventReports, EndpointReports
        DEF XferNext
<1> QED BY <1>1, <1>2

\* The status of an IRP that the event task has in hand as done, whose bits say so, or whose
\* client was told so; and a client that is about to wait has no result yet.
StatusInv ==
    /\ evtask.at = "set" /\ evtask.event = "IRP_DONE" => status[evtask.irp] = "COMPLETED"
    /\ \A i \in Irps : bits[i] = XUSB_OK => status[i] = "COMPLETED"
    /\ DoneMeansCompleted
    /\ \A t \in Clients : xfer[t].at \in {"taken", "enqueue"} => xfer[t].result = {}

\* Only a completion sets the bit of a completion alone.
LEMMA DoneBits ==
    ASSUME NEW e \in PipeEvents, EventBits(e) = XUSB_OK
    PROVE  e = "IRP_DONE"
<1>1. e \in {"NONE", "IRP_DONE", "INVALID", "ERROR_XFER", "ERROR_OVERFLOW", "ERROR_STALL"}
    BY ParameterAssumption DEF PipeEvents
<1>2. XUSB_OK = {0}
    BY DEF XUSB_OK, EventBits
<1>3. /\ EventBits("NONE") = {} /\ EventBits("INVALID") = {1}
      /\ EventBits("ERROR_XFER") = {0, 1} /\ EventBits("ERROR_OVERFLOW") = {0, 2}
      /\ EventBits("ERROR_STALL") = {1, 2}
    BY DEF EventBits
<1>4. {} # {0} /\ {1} # {0} /\ {0, 1} # {0} /\ {0, 2} # {0} /\ {1, 2} # {0}
    <2>1. 0 # 1 /\ 0 # 2
        OBVIOUS
    <2>2. 1 \in {1} /\ 1 \in {0, 1} /\ 2 \in {0, 2} /\ 1 \in {1, 2} /\ 0 \in {0}
        OBVIOUS
    <2> QED BY <2>1, <2>2
<1> QED BY <1>1, <1>2, <1>3, <1>4

\* No bits are set at the beginning.
LEMMA InitStatus ==
    ASSUME XferInit
    PROVE  StatusInv
<1>1. \A t \in Clients : xfer[t].at = "out"
    BY DEF XferInit, Out
<1>2. evtask.at = "wait" /\ \A i \in Irps : bits[i] = {}
    BY DEF XferInit, Waits
<1>3. {} # XUSB_OK
    BY DEF XUSB_OK, EventBits
<1> QED BY <1>1, <1>2, <1>3 DEF StatusInv, DoneMeansCompleted

\* The steps of a client: it clears the status of its IRP before anybody else knows of it,
\* and takes its result from the bits.
LEMMA ClientStatus ==
    ASSUME LayerInv, StatusInv, NEW t \in Clients, TakeCount(t) \/ ClientXfer(t)
    PROVE  StatusInv'
<1>1. /\ xfer \in [Clients -> XferRecord] /\ xfer[t] \in XferRecord
      /\ bits \in [Irps -> SUBSET {0, 1, 2}] /\ status \in [Irps -> Statuses]
      /\ UNCHANGED evtask
      /\ \A u \in Clients : u # t => xfer'[u] = xfer[u]
    BY ClientFrame DEF LayerInv, LayerTypes, XferRecord
<1>2. {} # XUSB_OK
    BY DEF XUSB_OK, EventBits
<1>3. ASSUME UNCHANGED <<bits, status>>,
             xfer'[t].at = "end" => xfer'[t].result # XUSB_OK,
             xfer'[t].at \in {"taken", "enqueue"} => xfer'[t].result = {}
      PROVE  StatusInv'
    BY <1>1, <1>3 DEF StatusInv, DoneMeansCompleted
<1>4. CASE TakeCount(t) \/ GiveIrp(t) \/ GiveCount(t)
    <2>1. UNCHANGED <<bits, status>> /\ xfer'[t].at \in {"taking", "given", "out"}
        BY <1>1, <1>4 DEF TakeCount, GiveIrp, GiveCount, SetXfer, Out
    <2> QED BY <1>3, <2>1
<1>5. CASE TakeIrp(t)
    <2> DEFINE h == pool.free[Len(pool.free)]
    <2>1. h \in Irps /\ bits[h] = {} /\ \A u \in Clients : xfer[u].irp # h
        BY <1>5, TakerFinds DEF TakeIrp
    <2>2. PICK i \in Irps : i = h
        BY <2>1
    <2>3. /\ bits' = bits /\ status' = [status EXCEPT ![i] = "none"]
          /\ xfer'[t] = [Out EXCEPT !.at = "taken", !.irp = i]
        BY <1>1, <1>5, <2>2 DEF TakeIrp, SetXfer
    <2>4. xfer'[t].at = "taken" /\ xfer'[t].result = {}
        BY <2>3 DEF Out
    <2>5. \A j \in Irps : j # i => status'[j] = status[j]
        BY <1>1, <2>3
    <2>6. bits[i] = {} /\ \A u \in Clients : xfer[u].irp # i
        BY <2>1, <2>2
    <2>7. evtask.at = "set" => evtask.irp \in Irps /\ evtask.irp # i
        BY <2>6 DEF LayerInv, UseInv, Awaited, Awaits
    <2>8. \A u \in Clients : xfer[u].at = "end" => xfer[u].irp \in Irps
        BY DEF LayerInv, OwnInv, Holding
    <2>9. evtask'.at = "set" /\ evtask'.event = "IRP_DONE" => status'[evtask'.irp] = "COMPLETED"
        BY <1>1, <2>5, <2>7 DEF StatusInv
    <2>10. \A j \in Irps : bits'[j] = XUSB_OK => status'[j] = "COMPLETED"
        BY <1>2, <2>3, <2>5, <2>6 DEF StatusInv
    <2>11. ASSUME NEW u \in Clients, xfer'[u].at = "end", xfer'[u].result = XUSB_OK
          PROVE  status'[xfer'[u].irp] = "COMPLETED"
        <3>1. u # t /\ xfer'[u] = xfer[u]
            BY <1>1, <2>4, <2>11
        <3>2. status[xfer[u].irp] = "COMPLETED" /\ xfer[u].irp \in Irps /\ xfer[u].irp # i
            BY <2>6, <2>8, <2>11, <3>1 DEF StatusInv, DoneMeansCompleted
        <3> QED BY <2>5, <3>1, <3>2
    <2>12. \A u \in Clients : xfer'[u].at \in {"taken", "enqueue"} => xfer'[u].result = {}
        BY <1>1, <2>4 DEF StatusInv
    <2> QED BY <2>9, <2>10, <2>11, <2>12 DEF StatusInv, DoneMeansCompleted
<1>6. ASSUME NEW p \in Pipes, Enqueue(t, p)
      PROVE  StatusInv'
    <2>1. /\ UNCHANGED <<bits, status>> /\ xfer[t].at = "taken"
          /\ xfer'[t] = [xfer[t] EXCEPT !.at = "enqueue"]
        BY <1>1, <1>6 DEF Enqueue, SetXfer
    <2>2. xfer'[t].at = "enqueue" /\ xfer'[t].result = xfer[t].result
        BY <1>1, <2>1 DEF XferRecord
    <2> QED BY <1>3, <2>1, <2>2 DEF StatusInv
<1>7. CASE Enqueued(t)
    <2>1. UNCHANGED <<bits, status>> /\ xfer'[t].at = "wait"
        BY <1>1, <1>7 DEF Enqueued, SetXfer, XferRecord
    <2> QED BY <1>3, <2>1
<1>8. CASE Refused(t)
    <2>1. /\ UNCHANGED <<bits, status>> /\ xfer[t].at = "enqueue"
          /\ xfer'[t] = [xfer[t] EXCEPT !.at = "end"]
        BY <1>1, <1>8 DEF Refused, SetXfer
    <2>2. xfer'[t].at = "end" /\ xfer'[t].result = {}
        BY <1>1, <2>1 DEF StatusInv, XferRecord
    <2> QED BY <1>2, <1>3, <2>1, <2>2
<1>9. CASE WaitBits(t)
    <2>1. xfer[t].irp \in Irps
        BY <1>9 DEF WaitBits, LayerInv, OwnInv, Holding
    <2>2. PICK i \in Irps : i = xfer[t].irp
        BY <2>1
    <2>3. /\ bits' = [bits EXCEPT ![i] = {}] /\ UNCHANGED status
          /\ xfer'[t] = [xfer[t] EXCEPT !.at = "end", !.result = bits[i]]
        BY <1>1, <1>9, <2>2 DEF WaitBits, Cleared, SetXfer
    <2>4. xfer'[t].at = "end" /\ xfer'[t].result = bits[i] /\ xfer'[t].irp = i
        BY <1>1, <2>2, <2>3 DEF XferRecord
    <2>5. bits'[i] = {} /\ \A j \in Irps : j # i => bits'[j] = bits[j]
        BY <1>1, <2>3
    <2>6. \A j \in Irps : bits'[j] = XUSB_OK => status'[j] = "COMPLETED"
        BY <1>2, <2>3, <2>5 DEF StatusInv
    <2>7. ASSUME NEW u \in Clients, xfer'[u].at = "end", xfer'[u].result = XUSB_OK
          PROVE  status'[xfer'[u].irp] = "COMPLETED"
        <3>1. CASE u = t
            BY <2>3, <2>4, <2>7, <3>1 DEF StatusInv
        <3>2. CASE u # t
            BY <1>1, <2>3, <2>7, <3>2 DEF StatusInv, DoneMeansCompleted
        <3> QED BY <3>1, <3>2
    <2>8. \A u \in Clients : xfer'[u].at \in {"taken", "enqueue"} => xfer'[u].result = {}
        BY <1>1, <2>4 DEF StatusInv
    <2>9. evtask'.at = "set" /\ evtask'.event = "IRP_DONE" => status'[evtask'.irp] = "COMPLETED"
        BY <1>1, <2>3 DEF StatusInv
    <2> QED BY <2>6, <2>7, <2>8, <2>9 DEF StatusInv, DoneMeansCompleted
<1> QED BY <1>4, <1>5, <1>6, <1>7, <1>8, <1>9 DEF ClientXfer

\* The other steps: the result that is taken for a report is that of the IRP it is about.
LEMMA OtherStatus ==
    ASSUME PipesApart, LayerInv, HaltInv, UsesInv, ReportInv, StatusInv, XferNext,
           \A t \in Clients : ~TakeCount(t) /\ ~ClientXfer(t)
    PROVE  StatusInv'
<1> USE WhoIsWho
<1>1. /\ UNCHANGED xfer /\ evtask \in EventTaskRecord
      /\ bits \in [Irps -> SUBSET {0, 1, 2}] /\ status \in [Irps -> Statuses]
    BY OtherSteps DEF LayerInv, LayerTypes, EventTaskRecord
<1>2. ASSUME UNCHANGED <<bits, status>>,
             \/ UNCHANGED evtask
             \/ evtask'.at # "set"
             \/ evtask'.event # "IRP_DONE"
      PROVE  StatusInv'
    BY <1>1, <1>2 DEF StatusInv, DoneMeansCompleted
<1>3. ASSUME NEW t \in Tasks, NEW r \in Pipes, NEW i, i = Head(pipe[r].done), TakeResult(t, r)
      PROVE  /\ i \in Irps /\ irp[i].ptr = r /\ status'[i] = irp[i].status /\ bits[i] = {}
             /\ \A j \in Irps : j # i => status'[j] = status[j]
             /\ evtask.at = "set" => evtask.irp \in Irps /\ evtask.irp # i
             /\ \A u \in Clients : xfer[u].at = "end" => xfer[u].irp \in Irps /\ xfer[u].irp # i
    <2>1. i \in Irps /\ InPipe(i) /\ irp[i].ptr = r /\ status' = [status EXCEPT ![i] = irp[i].status]
        BY <1>3, ResultTaken
    <2>2. bits[i] = {} /\ Awaited(i) /\ (evtask.at = "set" => evtask.irp \in Irps /\ evtask.irp # i)
        BY <2>1 DEF LayerInv, UseInv
    <2>3. \A u \in Clients : xfer[u].at = "end" => xfer[u].irp \in Irps /\ xfer[u].irp # i
        BY <2>1, <2>2 DEF LayerInv, OwnInv, Holding, Awaited, Awaits
    <2> QED BY <1>1, <2>1, <2>2, <2>3
<1>4. CASE EventDequeue
    <2>1. /\ evtask.pipe \in Pipes /\ TakeResult(EventTask, evtask.pipe)
          /\ bits' = bits
        BY <1>4 DEF EventDequeue, At, LayerInv, LayerTypes
    <2>2. PICK r \in Pipes : r = evtask.pipe
        BY <2>1
    <2>3. PICK i : i = Head(pipe[r].done)
        OBVIOUS
    <2>4. /\ i \in Irps /\ irp[i].ptr = r /\ status'[i] = irp[i].status /\ bits[i] = {}
          /\ \A j \in Irps : j # i => status'[j] = status[j]
          /\ \A u \in Clients : xfer[u].at = "end" => xfer[u].irp \in Irps /\ xfer[u].irp # i
        BY <1>3, <2>1, <2>2, <2>3
    <2>5. /\ evtask.at = "dequeue" /\ evtask'.event = evtask.event /\ evtask'.irp = i
        BY <1>1, <1>4, <2>2, <2>3 DEF EventDequeue, At, EventTaskRecord
    <2>6. ASSUME evtask.event = "IRP_DONE"
          PROVE  status'[i] = "COMPLETED"
        <3>1. Reports(r, 0)
            BY <2>2, <2>5, <2>6 DEF Reports
        <3>2. Answered(r)
            BY <3>1 DEF ReportInv, OneReport
        <3>3. Allocated(r)
            BY <2>1, <2>2 DEF TakeResult, Dequeue
        <3>4. PICK j \in Irps : irp[j].ptr = r /\ irp[j].status = "COMPLETED"
            BY <2>4, <3>2, <3>3 DEF Answered, Empty
        <3>5. InPipe(j)
            BY <3>4 DEF InPipe
        <3>6. i = j
            BY <2>4, <3>4, <3>5, OneIrpEach
        <3> QED BY <2>4, <3>4, <3>6
    <2>7. {} # XUSB_OK
        BY DEF XUSB_OK, EventBits
    <2> QED BY <1>1, <2>1, <2>4, <2>5, <2>6, <2>7 DEF StatusInv, DoneMeansCompleted
<1>5. CASE EventSet
    <2>1. /\ evtask.irp \in Irps /\ bits[evtask.irp] = {} /\ evtask.event \in PipeEvents
          /\ evtask.at = "set"
        BY <1>1, <1>5 DEF EventSet, At, LayerInv, UseInv, EventTaskRecord
    <2>2. PICK i \in Irps : i = evtask.irp
        BY <2>1
    <2>3. PICK e \in PipeEvents : e = evtask.event
        BY <2>1
    <2>4. bits' = [bits EXCEPT ![i] = bits[i] \cup EventBits(e)] /\ UNCHANGED status
        BY <1>5, <2>2, <2>3 DEF EventSet, SetBits
    <2>5. evtask'.at = "wait"
        BY <1>1, <1>5 DEF EventSet, Proceeds, At, After, EventTaskRecord
    <2>6. bits'[i] = EventBits(e) /\ \A j \in Irps : j # i => bits'[j] = bits[j]
        BY <1>1, <2>1, <2>2, <2>4
    <2>7. bits'[i] = XUSB_OK => status[i] = "COMPLETED"
        BY <2>1, <2>2, <2>3, <2>6, DoneBits DEF StatusInv
    <2> QED BY <1>1, <2>4, <2>5, <2>6, <2>7 DEF StatusInv, DoneMeansCompleted
<1>6. CASE CloseDequeue
    <2>1. /\ closing.pipe \in Pipes /\ TakeResult(PortTask, closing.pipe) /\ UNCHANGED evtask
        BY <1>6 DEF CloseDequeue, LayerInv, LayerTypes
    <2>2. PICK r \in Pipes : r = closing.pipe
        BY <2>1
    <2>3. PICK i : i = Head(pipe[r].done)
        OBVIOUS
    <2>4. /\ i \in Irps /\ bits[i] = {}
          /\ \A j \in Irps : j # i => status'[j] = status[j]
          /\ evtask.at = "set" => evtask.irp \in Irps /\ evtask.irp # i
          /\ \A u \in Clients : xfer[u].at = "end" => xfer[u].irp \in Irps /\ xfer[u].irp # i
        BY <1>3, <2>1, <2>2, <2>3
    <2>5. bits' = [bits EXCEPT ![i] = bits[i] \cup EventBits("ERROR_IRP_NOT_AVAIL")]
        BY <1>6, <2>2, <2>3 DEF CloseDequeue, SetBits
    <2>6. bits'[i] = {2} /\ \A j \in Irps : j # i => bits'[j] = bits[j]
        BY <1>1, <2>4, <2>5 DEF EventBits
    <2>7. {2} # XUSB_OK
        <3>1. XUSB_OK = {0} /\ 2 \in {2} /\ 2 \notin {0}
            BY DEF XUSB_OK, EventBits
        <3> QED BY <3>1
    <2> QED BY <1>1, <2>1, <2>4, <2>6, <2>7 DEF StatusInv, DoneMeansCompleted
<1>7. CASE EventReset
    <2>1. UNCHANGED <<bits, status>> /\ evtask.at = "reset" /\ evtask'.event = evtask.event
        BY <1>1, <1>7 DEF EventReset, At, Proceeds, EventTaskRecord
    <2>2. evtask.event # "IRP_DONE"
        BY <2>1 DEF HaltInv, Resets
    <2> QED BY <1>2, <2>1, <2>2
<1>8. CASE Receive \/ EventTooLate \/ EventPanic
    BY <1>2, <1>8 DEF Receive, EventTooLate, EventPanic, Waits, xferVars
<1>9. CASE CloseMisplaced \/ CloseDrained \/ CloseEnd
    BY <1>2, <1>9 DEF CloseMisplaced, CloseDrained, CloseEnd, xferVars
<1>10. CASE \E p \in Pipes : ChanEvent(p) \/ Open(p) \/ Close(p)
    BY <1>2, <1>10 DEF ChanEvent, Open, Close, xferVars
<1>11. CASE Disconnect \/ InvalidatePipe
    BY <1>2, <1>11 DEF Disconnect, InvalidatePipe
<1> QED BY <1>4, <1>5, <1>6, <1>7, <1>8, <1>9, <1>10, <1>11 DEF XferNext, EventXfer, CloseXfer

\* Every step keeps it.
LEMMA StatusKept ==
    ASSUME PipesApart, LayerInv, HaltInv, UsesInv, ReportInv, StatusInv, [XferNext]_allVars
    PROVE  StatusInv'
<1>1. CASE UNCHANGED allVars
    BY <1>1 DEF allVars, xferVars, StatusInv, DoneMeansCompleted
<1>2. CASE XferNext
    BY <1>2, ClientStatus, OtherStatus
<1> QED BY <1>1, <1>2

\* Where each pipe has one client, a transfer that returns HCD_PIPE_EVENT_IRP_DONE was
\* completed: a report is never taken for another result, although the task that closes an
\* endpoint, a failure or the loss of the device may take the result first.
THEOREM DoneIsCompleted ==
    ASSUME PipesApart
    PROVE  XferSpec => []DoneMeansCompleted
<1> DEFINE DoneInv == LayerInv /\ HaltInv /\ UsesInv /\ ReportInv /\ StatusInv
<1>1. XferInit => DoneInv
    BY InitLayer, InitHalts, InitUses, InitReports, InitStatus
<1>2. DoneInv /\ [XferNext]_allVars => DoneInv'
    BY LayerKept, HaltKept, UsesInvKept, ReportsKept, StatusKept
<1>3. DoneInv => DoneMeansCompleted
    BY DEF StatusInv
<1> QED BY <1>1, <1>2, <1>3, PTL DEF XferSpec

\* The result of a transfer is final until a task takes it, below this layer too.
THEOREM PoolKeepsResults == XferSpec => ResultsFinal
<1>1. LayerInv /\ [XferNext]_allVars => [Final]_vars
    BY LayerQueues DEF QueueStep
<1> QED BY <1>1, LayerInvariant, PTL DEF XferSpec, ResultsFinal, Final

=============================================================================
