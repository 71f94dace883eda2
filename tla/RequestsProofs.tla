--------------------------- MODULE RequestsProofs ---------------------------
(***************************************************************************)
(* The requests of the clients, the task of the pipe events and the loss   *)
(* of devices use the transfer descriptor lists as XferSpec says: what is  *)
(* proved of XferSpec holds of the whole.                                  *)
(*                                                                         *)
(* The second half is about the memory: the parser knows each block it has *)
(* allocated (ConfigParseProofs), and the blocks that are allocated are    *)
(* the sum of what the clients hold (Held: an induction over the clients,  *)
(* by NumbersIn).                                                          *)
(***************************************************************************)
EXTENDS Requests, XferDescProofs, ConfigParseProofs

-----------------------------------------------------------------------------
(* The names that the tasks hold *)

\* A client that waits does so for an IRP, and events and resets are of a pipe.
NamesOK ==
    /\ DOMAIN client = Clients
    /\ \A t \in Clients : client[t].at = "wait" => client[t].irp \in Irps
    /\ evtq \in Seq([pipe : Pipes, event : Events])
    /\ resets # NotResetting => resets.pipe \in Pipes

\* What a step of the driver alone leaves alone.
LEMMA StillNamed ==
    ASSUME NamesOK, client' = client, evtq' = evtq, resets' = resets
    PROVE  NamesOK'
    BY DEF NamesOK

LEMMA EmitNamed ==
    ASSUME NamesOK, NEW p \in Pipes, NEW e \in Events, Emit(p, e),
           client' = client, resets' = resets
    PROVE  NamesOK'
<1>1. [pipe |-> p, event |-> e] \in [pipe : Pipes, event : Events]
    OBVIOUS
<1>2. evtq' \in Seq([pipe : Pipes, event : Events])
    BY <1>1 DEF NamesOK, Emit
<1> QED BY <1>2 DEF NamesOK

LEMMA ErrorEventIn ==
    ASSUME XferInv, NEW p \in Pipes, chan[p].event = "ERROR"
    PROVE  ErrorEvent(chan[p].error) \in Events
<1>1. chan[p].error \in ChanErrors
    BY DEF XferInv, PipeOK, Runnable
<1>2. chan[p].error \in {"XCS_XACT", "PKT_BBL", "STALL"}
    BY <1>1, XferDescAssumption
<1> QED BY <1>2 DEF ErrorEvent, Events

-----------------------------------------------------------------------------
(* Clients *)

\* The setup packets of xesp_usbh.c agree with the num_bytes that go with them.
LEMMA RequestFits ==
    ASSUME NEW kind \in Kinds, NEW p \in Pipes, EpType[p] = "CTRL" => kind # "read"
    PROVE  Fits(p, SetupOf(kind), NumBytes(kind))
    BY DEF Fits, SetupOf, NumBytes, Control, ZeroSetup, Kinds, XESP_USB_MAX_XFER_BYTES

LEMMA AskStep ==
    ASSUME XferInv, NamesOK, NEW t \in Clients, NEW kind \in Kinds, NEW p \in Pipes,
           NEW i \in Irps, Ask(t, kind, p, i)
    PROVE  XferNext /\ NamesOK'
<1>1. Submit(p, i, SetupOf(kind), NumBytes(kind)) /\ <<kind, p>> \in Requests[t]
    BY DEF Ask
<1>2. SetupOf(kind) \in Setups /\ NumBytes(kind) \in Sizes
    BY RequestsAssumption
<1>3. Fits(p, SetupOf(kind), NumBytes(kind))
    <2>1. EpType[<<kind, p>>[2]] = "CTRL" <=> <<kind, p>>[1] # "read"
        BY <1>1, RequestsAssumption
    <2> QED BY <2>1, RequestFits
<1>4. XferNext
    BY <1>1, <1>2, <1>3 DEF XferNext
<1>5. NamesOK'
    <2> DEFINE r == [Out EXCEPT !.at = "wait", !.kind = kind, !.irp = i]
    <2>1. r.irp = i
        BY DEF Out
    <2>2. client' = [client EXCEPT ![t] = r] /\ evtq' = evtq /\ resets' = resets
        BY DEF Ask
    <2> HIDE DEF r
    <2> QED BY <2>1, <2>2 DEF NamesOK
<1> QED BY <1>4, <1>5

LEMMA BackNamed ==
    ASSUME NamesOK, NEW t \in Clients, NEW r, r.at # "wait",
           client' = [client EXCEPT ![t] = r], evtq' = evtq, resets' = resets
    PROVE  NamesOK'
    BY DEF NamesOK

LEMMA ReturnStep ==
    ASSUME NamesOK, NEW t \in Clients, NEW got, NEW blocks, Told(t), Return(t, got, blocks)
    PROVE  XferNext /\ NamesOK'
<1> DEFINE i == client[t].irp
           given == [got EXCEPT !.event = EventOf(client[t].kind, bits[i])]
           r == [at |-> "back", kind |-> client[t].kind, irp |-> NoIrp, got |-> given]
<1>1. i \in Irps
    BY DEF NamesOK, Told
<1>2. Clear(i) /\ client' = [client EXCEPT ![t] = r] /\ evtq' = evtq /\ resets' = resets
    BY DEF Return
<1>3. r.at # "wait"
    OBVIOUS
<1> HIDE DEF r, i
<1> QED BY <1>1, <1>2, <1>3, BackNamed DEF XferNext

LEMMA ClientStep ==
    ASSUME XferInv, NamesOK, NEW t \in Clients, Client(t)
    PROVE  [XferNext]_vars /\ NamesOK'
<1>1. ASSUME NEW kind \in Kinds, NEW p \in Pipes, AskRefused(t, kind, p)
      PROVE  [XferNext]_vars /\ NamesOK'
    <2> DEFINE r == [Out EXCEPT !.at = "back", !.kind = kind,
                                !.got.event = EventOf(kind, "NONE")]
    <2>1. client' = [client EXCEPT ![t] = r] /\ evtq' = evtq /\ resets' = resets
          /\ vars' = vars
        BY <1>1 DEF AskRefused
    <2>2. r.at # "wait"
        BY DEF Out
    <2> HIDE DEF r
    <2> QED BY <2>1, <2>2, BackNamed
<1>2. ASSUME NEW kind \in Kinds, NEW p \in Pipes, NEW i \in Irps, Ask(t, kind, p, i)
      PROVE  [XferNext]_vars /\ NamesOK'
    BY <1>2, AskStep
<1>3. ASSUME ReturnConfig(t) \/ ReturnString(t) \/ ReturnOther(t)
      PROVE  [XferNext]_vars /\ NamesOK'
    BY <1>3, ReturnStep DEF ReturnConfig, ReturnString, ReturnOther
<1>4. ASSUME Forget(t)
      PROVE  [XferNext]_vars /\ NamesOK'
    <2>1. client' = [client EXCEPT ![t] = Out] /\ evtq' = evtq /\ resets' = resets
          /\ vars' = vars
        BY <1>4 DEF Forget
    <2>2. Out.at # "wait"
        BY DEF Out
    <2> QED BY <2>1, <2>2, BackNamed
<1> QED BY <1>1, <1>2, <1>3, <1>4 DEF Client

-----------------------------------------------------------------------------
(* The device and the interrupts *)

LEMMA DeviceStep ==
    ASSUME XferInv, NamesOK, NEW p \in Pipes, Device(p)
    PROVE  XferNext /\ NamesOK'
<1>1. ASSUME DeviceSends(p)
      PROVE  Runs(p)
    BY <1>1 DEF DeviceSends, Runs
<1>2. ASSUME DeviceTakes(p)
      PROVE  Runs(p)
    <2> DEFINE m == IF Current(p).setup THEN 0 ELSE Current(p).len
    <2>1. Executes(p) /\ ChanRun(p, m)
        BY <1>2 DEF DeviceTakes
    <2>2. Current(p).len \in Nat /\ Room(p) = Current(p).len
        <3>1. Current(p) \in Desc
            BY <2>1, Executing
        <3> QED BY <2>1, <3>1 DEF Desc, Room
    <2>3. m \in 0 .. Room(p)
        BY <2>2
    <2> QED BY <2>1, <2>3 DEF Runs
<1>3. Runs(p) \/ Fails(p)
    BY <1>1, <1>2 DEF Device, DeviceFails
<1>4. client' = client /\ evtq' = evtq /\ resets' = resets
    BY DEF Device, DeviceSends, DeviceTakes, DeviceFails, Still
<1> QED BY <1>3, <1>4, StillNamed DEF XferNext

LEMMA InterruptStep ==
    ASSUME XferInv, NamesOK, NEW p \in Pipes, ChanInterrupt(p)
    PROVE  XferNext /\ NamesOK'
<1>1. client' = client /\ resets' = resets
    BY DEF ChanInterrupt, Still
<1>2. ASSUME IntrDone(p), Emit(p, "IRP_DONE")
      PROVE  NamesOK'
    BY <1>1, <1>2, EmitNamed DEF Events
<1>3. ASSUME IntrError(p), Emit(p, ErrorEvent(chan[p].error))
      PROVE  NamesOK'
    <2>1. ErrorEvent(chan[p].error) \in Events
        BY <1>3, ErrorEventIn DEF IntrError
    <2> QED BY <1>1, <1>3, <2>1, EmitNamed
<1>4. ASSUME evtq' = evtq
      PROVE  NamesOK'
    BY <1>1, <1>4, StillNamed
<1>5. NamesOK'
    BY <1>2, <1>3, <1>4 DEF ChanInterrupt
<1>6. Interrupt(p)
    BY DEF ChanInterrupt, Interrupt
<1> QED BY <1>5, <1>6 DEF XferNext

LEMMA InvalidatePipeStep ==
    ASSUME XferInv, NamesOK, NEW p \in Pipes, InvalidatePipe(p)
    PROVE  XferNext /\ NamesOK'
    BY EmitNamed DEF InvalidatePipe, Still, Events, XferNext

LEMMA CloseStep ==
    ASSUME XferInv, NamesOK, NEW p \in Pipes, CloseEndpoint(p)
    PROVE  XferNext /\ NamesOK'
    BY StillNamed DEF CloseEndpoint, XferNext

-----------------------------------------------------------------------------
(* The task of the pipe events *)

LEMMA ServeStep ==
    ASSUME XferInv, NamesOK, EventServe
    PROVE  [XferNext]_vars /\ NamesOK'
<1> DEFINE p == Head(evtq).pipe
           e == Head(evtq).event
           i == Head(pipe[p].done)
<1>1. /\ p \in Pipes /\ evtq' \in Seq([pipe : Pipes, event : Events])
      /\ client' = client
    <2> DEFINE S == [pipe : Pipes, event : Events]
    <2>1. evtq \in Seq(S) /\ evtq # <<>> /\ evtq' = Tail(evtq)
        BY DEF NamesOK, EventServe
    <2> HIDE DEF S
    <2>2. Head(evtq) \in S /\ Tail(evtq) \in Seq(S)
        BY <2>1, HeadTailProperties
    <2> QED BY <2>1, <2>2 DEF EventServe, S
<1>2. \/ UNCHANGED vars /\ resets' = resets
      \/ Dequeue(p) /\ resets' = resets
      \/ Dequeue(p) /\ resets' = [pipe |-> p, irp |-> i, event |-> e]
    BY DEF EventServe
<1> HIDE DEF p, i, e
<1>3. [XferNext]_vars
    BY <1>1, <1>2 DEF XferNext
<1>4. resets' # NotResetting => resets'.pipe \in Pipes
    BY <1>1, <1>2 DEF NamesOK
<1>5. NamesOK'
    BY <1>1, <1>4 DEF NamesOK, NotResetting
<1> QED BY <1>3, <1>5

LEMMA ResetsStep ==
    ASSUME XferInv, NamesOK, EventReset
    PROVE  [XferNext]_vars /\ NamesOK'
<1>1. resets.pipe \in Pipes
    BY DEF NamesOK, EventReset
<1>2. Reset(resets.pipe) \/ UNCHANGED vars
    BY DEF EventReset
<1>3. [XferNext]_vars
    BY <1>1, <1>2 DEF XferNext
<1>4. client' = client /\ evtq' = evtq /\ resets' = NotResetting
    BY DEF EventReset
<1>5. NamesOK'
    BY <1>4 DEF NamesOK, NotResetting
<1> QED BY <1>3, <1>5

-----------------------------------------------------------------------------
(* The whole *)

LEMMA RequestsStep == XferInv /\ NamesOK /\ [RequestsNext]_allVars => [XferNext]_vars /\ NamesOK'
<1> SUFFICES ASSUME XferInv, NamesOK, [RequestsNext]_allVars
             PROVE  [XferNext]_vars /\ NamesOK'
    OBVIOUS
<1>1. ASSUME NEW t \in Clients, Client(t)
      PROVE  [XferNext]_vars /\ NamesOK'
    BY <1>1, ClientStep
<1>2. ASSUME NEW p \in Pipes, Proceeds(p) \/ CloseEndpoint(p)
      PROVE  [XferNext]_vars /\ NamesOK'
    BY <1>2, DeviceStep, InterruptStep, InvalidatePipeStep, CloseStep DEF Proceeds
<1>3. CASE EventServe
    BY <1>3, ServeStep
<1>4. CASE EventReset
    BY <1>4, ResetsStep
<1>5. CASE Unplug
    BY <1>5, StillNamed DEF Unplug, Still, XferNext
<1>6. CASE Replug
    BY <1>6, StillNamed DEF Replug, Still, XferNext
<1>7. CASE UNCHANGED allVars
    BY <1>7, StillNamed DEF allVars
<1>8. ASSUME NEW t \in Clients, ConfigOverruns(t)
      PROVE  [XferNext]_vars /\ NamesOK'
    BY <1>8, StillNamed DEF ConfigOverruns
<1> QED BY <1>1, <1>2, <1>3, <1>4, <1>5, <1>6, <1>7, <1>8 DEF RequestsNext, TasksNext

LEMMA RequestsStart == RequestsInit => XferInit /\ NamesOK
<1> SUFFICES ASSUME RequestsInit
             PROVE  XferInit /\ NamesOK
    OBVIOUS
<1>1. \A t \in Clients : client[t].at = "out"
    BY DEF RequestsInit, Out
<1>2. NamesOK
    BY <1>1 DEF RequestsInit, NamesOK
<1> QED BY <1>2 DEF RequestsInit

\* Clients, event task and device use the driver as XferSpec says: what they enqueue
\* fits, and a pipe or IRP that an event or a task names exists (xesp_usbh.c,
\* xesp_usbh_xfer.c).
THEOREM RequestsImplementXfer == RequestsSpec => XferSpec
<1>1. RequestsInit => XferInit /\ XferInv /\ NamesOK
    BY RequestsStart, InitHolds
<1>2. XferInv /\ NamesOK /\ [RequestsNext]_allVars
        => XferInv' /\ NamesOK' /\ [XferNext]_vars
    BY RequestsStep, NextKeeps
<1> QED BY <1>1, <1>2, PTL DEF RequestsSpec, XferSpec

\* So for any clients and devices a channel has a slot exactly while its pipe has an
\* IRP in flight, and executes the descriptors in the direction they were filled for, ...
THEOREM RequestsUseSlots == RequestsSpec => [](SlotIffInFlight /\ DirectionAgrees)
    BY RequestsImplementXfer, SlotTheorem, DirectionTheorem, PTL

\* ... and every request is the control or bulk transfer that its device expects.
THEOREM RequestsAreTransfers == RequestsSpec => IsControlTransfer
    BY RequestsImplementXfer, DescriptorsImplementTransfers, PTL

-----------------------------------------------------------------------------
(* The blocks that the clients hold *)

Held(c) == MapThenSumSet(LAMBDA t : c[t].got.blocks, Clients)

\* The sum over the sets of at most n clients, in the order of MapThenSumSet.
SomeOf(s) == CHOOSE x \in s : TRUE
Smaller(n) == {s \in SUBSET Clients : Cardinality(s) <= n}
HeldRun(c, S, f) ==
    f = [s \in S |-> IF s = {} THEN 0 ELSE c[SomeOf(s)].got.blocks + f[s \ {SomeOf(s)}]]

LEMMA OneLess ==
    ASSUME NEW s \in SUBSET Clients, s # {}
    PROVE  /\ SomeOf(s) \in s /\ s \ {SomeOf(s)} \in SUBSET Clients
           /\ Cardinality(s) \in Nat \ {0}
           /\ Cardinality(s \ {SomeOf(s)}) = Cardinality(s) - 1
<1>1. SomeOf(s) \in s
    BY DEF SomeOf
<1>2. IsFiniteSet(s) /\ Cardinality(s) \in Nat
    BY RequestsAssumption, FS_Subset, FS_CardinalityType
<1>3. Cardinality(s \ {SomeOf(s)}) = Cardinality(s) - 1
    BY <1>1, <1>2, FS_RemoveElement
<1>4. Cardinality(s) # 0
    BY <1>2, FS_EmptySet
<1> QED BY <1>1, <1>2, <1>3, <1>4

LEMMA HeldExists ==
    ASSUME NEW c
    PROVE  \E f : HeldRun(c, SUBSET Clients, f)
<1> DEFINE Done == {m \in Nat : \E f : HeldRun(c, Smaller(m), f)}
<1>1. 0 \in Done
    <2> DEFINE f == [s \in Smaller(0) |-> 0]
    <2>1. ASSUME NEW s \in Smaller(0)
          PROVE  s = {}
        <3>1. s \in SUBSET Clients /\ Cardinality(s) <= 0
            BY DEF Smaller
        <3>2. s # {} => Cardinality(s) \in Nat \ {0}
            BY <3>1, OneLess
        <3> QED BY <3>1, <3>2
    <2>2. HeldRun(c, Smaller(0), f)
        BY <2>1 DEF HeldRun
    <2> QED BY <2>2
<1>2. ASSUME NEW m \in Nat, m \in Done
      PROVE  m + 1 \in Done
    <2>1. PICK g : HeldRun(c, Smaller(m), g)
        BY <1>2
    <2> DEFINE f == [s \in Smaller(m + 1) |->
                       IF s = {} THEN 0 ELSE c[SomeOf(s)].got.blocks + g[s \ {SomeOf(s)}]]
    <2>2. \A s \in Smaller(m) : s \in Smaller(m + 1)
        <3>1. \A s \in SUBSET Clients : Cardinality(s) \in Nat
            BY RequestsAssumption, FS_Subset, FS_CardinalityType
        <3> QED BY <3>1 DEF Smaller
    <2>3. \A s \in Smaller(m) : f[s] = g[s]
        BY <2>1, <2>2 DEF HeldRun
    <2>4. \A s \in Smaller(m + 1) : s # {} => f[s \ {SomeOf(s)}] = g[s \ {SomeOf(s)}]
        <3>1. ASSUME NEW s \in Smaller(m + 1), s # {}
              PROVE  s \ {SomeOf(s)} \in Smaller(m)
            <4>1. s \in SUBSET Clients /\ Cardinality(s) <= m + 1
                BY DEF Smaller
            <4>2. PICK r : r = s \ {SomeOf(s)}
                OBVIOUS
            <4>3. /\ r \in SUBSET Clients /\ Cardinality(s) \in Nat \ {0}
                  /\ Cardinality(r) = Cardinality(s) - 1
                BY <3>1, <4>1, <4>2, OneLess
            <4>4. Cardinality(r) <= m
                BY <4>1, <4>3
            <4> QED BY <4>2, <4>3, <4>4 DEF Smaller
        <3> HIDE DEF f
        <3> QED BY <2>3, <3>1
    <2>5. HeldRun(c, Smaller(m + 1), f)
        BY <2>4 DEF HeldRun
    <2> HIDE DEF f
    <2> QED BY <2>5
<1>3. PICK n \in Nat : n = Cardinality(Clients)
    BY RequestsAssumption, FS_CardinalityType
<1>4. n \in Done
    <2> HIDE DEF Done
    <2> QED BY <1>1, <1>2, NumbersIn
<1>5. SUBSET Clients = Smaller(n)
    BY <1>3, RequestsAssumption, FS_Subset DEF Smaller
<1> QED BY <1>4, <1>5

\* The steps of the sum.
HeldSteps(c, f) ==
    /\ f[{}] = 0
    /\ \A s \in SUBSET Clients :
          s # {} => f[s] = c[SomeOf(s)].got.blocks + f[s \ {SomeOf(s)}]

LEMMA HeldIs ==
    ASSUME NEW c
    PROVE  \E f : HeldSteps(c, f) /\ Held(c) = f[Clients]
<1> DEFINE f[s \in SUBSET Clients] ==
              IF s = {} THEN 0
              ELSE c[CHOOSE x \in s : TRUE].got.blocks + f[s \ {CHOOSE x \in s : TRUE}]
<1>1. HeldRun(c, SUBSET Clients, f)
    <2>1. \E g : HeldRun(c, SUBSET Clients, g)
        BY HeldExists
    <2> QED BY <2>1, Zenon DEF HeldRun, SomeOf
<1>2. Held(c) = f[Clients]
    BY DEF Held, MapThenSumSet, MapThenFoldSet
<1> HIDE DEF f
<1>3. HeldSteps(c, f)
    BY <1>1 DEF HeldRun, HeldSteps
<1> QED BY <1>2, <1>3

Blocks(c) == \A t \in Clients : c[t].got.blocks \in Nat
Others(c, d, t) == \A u \in Clients : u # t => d[u].got.blocks = c[u].got.blocks

\* A client that gets or frees blocks changes the sum by as many.
LEMMA HeldChanges ==
    ASSUME NEW c, NEW d, NEW t \in Clients, Blocks(c), Blocks(d), Others(c, d, t)
    PROVE  /\ Held(c) \in Nat /\ Held(d) \in Nat
           /\ Held(d) = Held(c) - c[t].got.blocks + d[t].got.blocks
<1>1. PICK f : HeldSteps(c, f) /\ Held(c) = f[Clients]
    BY HeldIs
<1>2. PICK g : HeldSteps(d, g) /\ Held(d) = g[Clients]
    BY HeldIs
<1> DEFINE Right(s) ==
              /\ f[s] \in Nat /\ g[s] \in Nat
              /\ g[s] = IF t \in s THEN f[s] - c[t].got.blocks + d[t].got.blocks ELSE f[s]
           Good == {m \in Nat : \A s \in SUBSET Clients : Cardinality(s) = m => Right(s)}
<1>3. 0 \in Good
    <2> SUFFICES ASSUME NEW s \in SUBSET Clients, Cardinality(s) = 0
                 PROVE  Right(s)
        OBVIOUS
    <2>1. s = {}
        BY OneLess
    <2>2. f[s] = 0 /\ g[s] = 0
        BY <1>1, <1>2, <2>1 DEF HeldSteps
    <2> QED BY <2>1, <2>2
<1>4. ASSUME NEW m \in Nat, m \in Good
      PROVE  m + 1 \in Good
    <2> SUFFICES ASSUME NEW s \in SUBSET Clients, Cardinality(s) = m + 1
                 PROVE  Right(s)
        OBVIOUS
    <2>1. s # {}
        BY FS_EmptySet
    <2>2. PICK x : x = SomeOf(s)
        OBVIOUS
    <2> DEFINE r == s \ {x}
    <2>3. x \in s /\ x \in Clients /\ r \in SUBSET Clients /\ Cardinality(r) = m
        BY <2>1, <2>2, OneLess
    <2>4. Right(r)
        BY <1>4, <2>3
    <2>5. f[s] = c[x].got.blocks + f[r] /\ g[s] = d[x].got.blocks + g[r]
        BY <1>1, <1>2, <2>1, <2>2 DEF HeldSteps
    <2>6. /\ c[x].got.blocks \in Nat /\ d[x].got.blocks \in Nat
          /\ c[t].got.blocks \in Nat /\ d[t].got.blocks \in Nat
        BY <2>3 DEF Blocks
    <2>7. CASE x = t
        <3>1. t \notin r /\ t \in s
            BY <2>3, <2>7
        <3> HIDE DEF r
        <3> QED BY <2>4, <2>5, <2>6, <2>7, <3>1
    <2>8. CASE x # t
        <3>1. t \in r <=> t \in s
            BY <2>8
        <3>2. d[x].got.blocks = c[x].got.blocks
            BY <2>3, <2>8 DEF Others
        <3> HIDE DEF r
        <3> QED BY <2>4, <2>5, <2>6, <3>1, <3>2
    <2> QED BY <2>7, <2>8
<1>5. PICK n \in Nat : n = Cardinality(Clients)
    BY RequestsAssumption, FS_CardinalityType
<1>6. n \in Good
    <2> HIDE DEF Good
    <2> QED BY <1>3, <1>4, NumbersIn
<1>7. Right(Clients)
    BY <1>5, <1>6
<1> QED BY <1>1, <1>2, <1>7

LEMMA HeldNothing ==
    ASSUME NEW c, \A t \in Clients : c[t].got.blocks = 0
    PROVE  Held(c) = 0
<1>1. PICK f : HeldSteps(c, f) /\ Held(c) = f[Clients]
    BY HeldIs
<1> DEFINE Good == {m \in Nat : \A s \in SUBSET Clients : Cardinality(s) = m => f[s] = 0}
<1>2. 0 \in Good
    <2>1. \A s \in SUBSET Clients : Cardinality(s) = 0 => s = {}
        BY OneLess
    <2> QED BY <1>1, <2>1 DEF HeldSteps
<1>3. ASSUME NEW m \in Nat, m \in Good
      PROVE  m + 1 \in Good
    <2> SUFFICES ASSUME NEW s \in SUBSET Clients, Cardinality(s) = m + 1
                 PROVE  f[s] = 0
        OBVIOUS
    <2>1. s # {}
        BY FS_EmptySet
    <2>2. f[s] = c[SomeOf(s)].got.blocks + f[s \ {SomeOf(s)}]
        BY <1>1, <2>1 DEF HeldSteps
    <2>3. /\ SomeOf(s) \in Clients
          /\ s \ {SomeOf(s)} \in SUBSET Clients /\ Cardinality(s \ {SomeOf(s)}) = m
        BY <2>1, OneLess
    <2>4. f[s \ {SomeOf(s)}] = 0
        BY <1>3, <2>3
    <2> QED BY <2>2, <2>3, <2>4
<1>4. PICK n \in Nat : n = Cardinality(Clients)
    BY RequestsAssumption, FS_CardinalityType
<1>5. n \in Good
    <2> HIDE DEF Good
    <2> QED BY <1>2, <1>3, NumbersIn
<1> QED BY <1>1, <1>4, <1>5

-----------------------------------------------------------------------------
(* The invariant: what each client holds, and the blocks of all *)

ClientOK(c) ==
    /\ c.at \in {"out", "wait", "back"} /\ c.kind \in Kinds \cup {"none"}
    /\ c.irp \in Irps \cup {NoIrp} /\ (c.at = "wait" <=> c.irp # NoIrp)
    /\ c.got.event \in Events /\ c.got.blocks \in Nat
    /\ c.at # "back" => c.got.blocks = 0

\* A client has an IRP of its own.
OwnIrps == \A t, u \in Clients : client[t].irp = client[u].irp /\ client[t].irp # NoIrp => t = u

ClientsInv ==
    /\ \A t \in Clients : ClientOK(client[t])
    /\ OwnIrps
    /\ heap = Held(client)

TablesInv ==
    /\ buffer \in [Irps -> DOMAIN Devices \cup {"none"}] /\ bits \in [Irps -> Events]
    /\ resets.pipe \in Pipes \cup {NoPipe} /\ resets.event \in Events

RequestsInv == ClientsInv /\ TablesInv

LEMMA OutOK == ClientOK(Out)
    BY XferDescAssumption DEF ClientOK, Out, Nothing, Events

\* A step of one client, which gets an IRP that nobody has, or none.
LEMMA ClientChanges ==
    ASSUME ClientsInv, NamesOK, NEW t \in Clients, NEW r, ClientOK(r),
           r.irp = NoIrp \/ (\A u \in Clients : client[u].irp # r.irp),
           client' = [client EXCEPT ![t] = r],
           heap' = heap - client[t].got.blocks + r.got.blocks
    PROVE  ClientsInv'
<1>1. /\ client'[t] = r
      /\ \A u \in Clients : u # t => client'[u] = client[u]
    BY DEF NamesOK
<1>2. \A u \in Clients : ClientOK(client'[u])
    BY <1>1 DEF ClientsInv
<1>3. \A u, v \in Clients :
         client'[u].irp = client'[v].irp /\ client'[u].irp # NoIrp => u = v
    BY <1>1 DEF ClientsInv, OwnIrps
<1>4. Blocks(client) /\ Blocks(client') /\ Others(client, client', t)
    BY <1>1, <1>2 DEF ClientsInv, ClientOK, Blocks, Others
<1>5. Held(client') = Held(client) - client[t].got.blocks + client'[t].got.blocks
    BY <1>4, HeldChanges
<1>6. heap' = Held(client')
    BY <1>1, <1>5 DEF ClientsInv
<1> QED BY <1>2, <1>3, <1>6 DEF ClientsInv, OwnIrps

LEMMA ClientsSame ==
    ASSUME ClientsInv, client' = client, heap' = heap
    PROVE  ClientsInv'
    BY DEF ClientsInv, OwnIrps

LEMMA TablesSame ==
    ASSUME TablesInv, buffer' = buffer, bits' = bits, resets' = resets
    PROVE  TablesInv'
    BY DEF TablesInv

-----------------------------------------------------------------------------
(* The steps of the clients keep it *)

LEMMA AskHeld ==
    ASSUME RequestsInv, NamesOK, NEW t \in Clients, NEW kind \in Kinds, NEW p \in Pipes,
           NEW i \in Irps, Ask(t, kind, p, i)
    PROVE  RequestsInv'
<1> DEFINE r == [Out EXCEPT !.at = "wait", !.kind = kind, !.irp = i]
<1>1. /\ client[t].at = "out" /\ \A u \in Clients : client[u].irp # i
      /\ client' = [client EXCEPT ![t] = r] /\ heap' = heap
      /\ buffer' = buffer /\ bits' = bits /\ resets' = resets
    BY DEF Ask
<1>2. r.at = "wait" /\ r.kind = kind /\ r.irp = i /\ r.got = Nothing
    BY DEF Out
<1> HIDE DEF r
<1>3. Nothing.event = "NONE" /\ Nothing.blocks = 0
    BY DEF Nothing
<1>4. ClientOK(r)
    BY <1>2, <1>3, XferDescAssumption DEF ClientOK, Events
<1>5. client[t].got.blocks = 0 /\ r.got.blocks = 0 /\ heap \in Nat
    <2>1. ClientOK(client[t]) /\ Blocks(client)
        BY DEF RequestsInv, ClientsInv, ClientOK, Blocks
    <2>2. Others(client, client, t)
        BY DEF Others
    <2>3. Held(client) \in Nat
        BY <2>1, <2>2, HeldChanges
    <2> QED BY <1>1, <1>2, <1>3, <2>1, <2>3 DEF ClientOK, RequestsInv, ClientsInv
<1>6. heap' = heap - client[t].got.blocks + r.got.blocks
    BY <1>1, <1>5
<1>7. ClientsInv'
    BY <1>1, <1>2, <1>4, <1>6, ClientChanges DEF RequestsInv
<1> QED BY <1>1, <1>7, TablesSame DEF RequestsInv

LEMMA HeapIn ==
    ASSUME ClientsInv, NEW t \in Clients
    PROVE  heap \in Nat /\ client[t].got.blocks \in Nat
<1>1. Blocks(client) /\ Others(client, client, t)
    BY DEF ClientsInv, ClientOK, Blocks, Others
<1>2. Held(client) \in Nat
    BY <1>1, HeldChanges
<1> QED BY <1>1, <1>2 DEF ClientsInv, Blocks

LEMMA EventOfIn ==
    ASSUME NEW kind, NEW e \in Events
    PROVE  EventOf(kind, e) \in Events
    BY DEF EventOf, Events

LEMMA AskRefusedHeld ==
    ASSUME RequestsInv, NamesOK, NEW t \in Clients, NEW kind \in Kinds, NEW p \in Pipes,
           AskRefused(t, kind, p)
    PROVE  RequestsInv'
<1> DEFINE e == EventOf(kind, "NONE")
           r == [Out EXCEPT !.at = "back", !.kind = kind, !.got.event = e]
<1>1. /\ client[t].at = "out"
      /\ client' = [client EXCEPT ![t] = r] /\ heap' = heap
      /\ buffer' = buffer /\ bits' = bits /\ resets' = resets
    BY DEF AskRefused
<1>2. e \in Events
    BY EventOfIn DEF Events
<1> HIDE DEF e
<1>3. /\ r.at = "back" /\ r.kind = kind /\ r.irp = NoIrp
      /\ r.got.event = e /\ r.got.blocks = 0
    BY DEF Out, Nothing
<1> HIDE DEF r
<1>4. ClientOK(r)
    BY <1>2, <1>3 DEF ClientOK
<1>5. client[t].got.blocks = 0 /\ heap \in Nat
    BY <1>1, HeapIn DEF RequestsInv, ClientsInv, ClientOK
<1>6. heap' = heap - client[t].got.blocks + r.got.blocks
    BY <1>1, <1>3, <1>5
<1>7. ClientsInv'
    BY <1>1, <1>3, <1>4, <1>6, ClientChanges DEF RequestsInv
<1> QED BY <1>1, <1>7, TablesSame DEF RequestsInv

LEMMA ForgetHeld ==
    ASSUME RequestsInv, NamesOK, NEW t \in Clients, Forget(t)
    PROVE  RequestsInv'
<1>1. /\ client' = [client EXCEPT ![t] = Out]
      /\ heap' = heap - client[t].got.blocks
      /\ buffer' = buffer /\ bits' = bits /\ resets' = resets
    BY DEF Forget
<1>2. Out.irp = NoIrp /\ Out.got.blocks = 0
    BY DEF Out, Nothing
<1>3. heap' = heap - client[t].got.blocks + Out.got.blocks
    BY <1>1, <1>2, HeapIn DEF RequestsInv
<1>4. ClientsInv'
    BY <1>1, <1>2, <1>3, OutOK, ClientChanges DEF RequestsInv
<1> QED BY <1>1, <1>4, TablesSame DEF RequestsInv

\* A request returns with the blocks that its caller can free.
LEMMA ReturnHeld ==
    ASSUME RequestsInv, NamesOK, NEW t \in Clients, NEW n \in Nat, Told(t),
           Return(t, [Nothing EXCEPT !.blocks = n], n)
    PROVE  RequestsInv'
<1> DEFINE i == client[t].irp
           e == EventOf(client[t].kind, bits[i])
           r == [at |-> "back", kind |-> client[t].kind, irp |-> NoIrp,
                 got |-> [[Nothing EXCEPT !.blocks = n] EXCEPT !.event = e]]
<1>1. ClientOK(client[t]) /\ client[t].at = "wait" /\ i \in Irps
    BY DEF RequestsInv, ClientsInv, NamesOK, Told
<1>2. /\ client' = [client EXCEPT ![t] = r] /\ heap' = heap + n
      /\ bits' = [bits EXCEPT ![i] = "NONE"] /\ buffer' = [buffer EXCEPT ![i] = "none"]
      /\ resets' = resets
    BY DEF Return
<1>3. e \in Events
    <2>1. bits[i] \in Events
        BY <1>1 DEF RequestsInv, TablesInv
    <2> QED BY <2>1, EventOfIn
<1> HIDE DEF e, i
<1>4. /\ r.at = "back" /\ r.kind = client[t].kind /\ r.irp = NoIrp
      /\ r.got.event = e /\ r.got.blocks = n
    BY DEF Nothing
<1> HIDE DEF r
<1>5. ClientOK(r)
    BY <1>1, <1>3, <1>4 DEF ClientOK
<1>6. heap' = heap - client[t].got.blocks + r.got.blocks
    <2>1. client[t].got.blocks = 0
        BY <1>1 DEF ClientOK
    <2> QED BY <1>2, <1>4, <2>1, HeapIn DEF RequestsInv
<1>7. ClientsInv'
    BY <1>2, <1>4, <1>5, <1>6, ClientChanges DEF RequestsInv
<1>8. TablesInv'
    BY <1>2 DEF RequestsInv, TablesInv, Events
<1> QED BY <1>7, <1>8 DEF RequestsInv

LEMMA ReturnConfigHeld ==
    ASSUME XferInv, RequestsInv, NamesOK, NEW t \in Clients, ReturnConfig(t)
    PROVE  RequestsInv'
<1> DEFINE i == client[t].irp
           n == irp[i].actual
           sent == IF buffer[i] = "none" THEN <<>> ELSE Devices[buffer[i]]
<1>1. i \in Irps /\ n \in Nat
    BY Types DEF NamesOK, ReturnConfig, Told, IrpRecord
<1>2. PICK config \in ParsesTo(i) :
         Return(t, [Nothing EXCEPT !.blocks = IF config.ok THEN Freed(config.pool) ELSE 0],
                config.blocks)
    BY DEF ReturnConfig
<1>3. PICK next \in BehindData(n) : config = ParseConfig(sent, n, next)
    BY Zenon DEF ParsesTo
<1>4. /\ config.blocks \in Nat
      /\ config.blocks = IF config.ok THEN Freed(config.pool) ELSE 0
    <2> HIDE DEF n, i
    <2>1. buffer[i] \in DOMAIN Devices \cup {"none"}
        BY <1>1 DEF RequestsInv, TablesInv
    <2>2. \A name \in DOMAIN Devices : Devices[name] \in Seq(Descriptors)
        BY RequestsAssumption
    <2>3. sent \in Seq(Descriptors)
        <3>1. <<>> \in Seq(Descriptors)
            OBVIOUS
        <3> QED BY <2>1, <2>2, <3>1
    <2> HIDE DEF sent
    <2> QED BY <1>1, <1>3, <2>3, ParseFrees
<1>5. Return(t, [Nothing EXCEPT !.blocks = config.blocks], config.blocks)
    <2> HIDE DEF n, i, sent
    <2> QED BY <1>2, <1>3, <1>4, Zenon
<1> QED BY <1>4, <1>5, ReturnHeld DEF ReturnConfig

LEMMA ReturnOtherHeld ==
    ASSUME RequestsInv, NamesOK, NEW t \in Clients, ReturnString(t) \/ ReturnOther(t)
    PROVE  RequestsInv'
<1>1. CASE ReturnString(t)
    BY <1>1, ReturnHeld DEF ReturnString
<1>2. CASE ReturnOther(t)
    <2>1. Nothing = [Nothing EXCEPT !.blocks = 0]
        BY DEF Nothing
    <2>2. Return(t, [Nothing EXCEPT !.blocks = 0], 0)
        BY <1>2, <2>1, Zenon DEF ReturnOther
    <2> QED BY <1>2, <2>2, ReturnHeld DEF ReturnOther
<1> QED BY <1>1, <1>2

LEMMA ClientHeld ==
    ASSUME XferInv, RequestsInv, NamesOK, NEW t \in Clients, Client(t)
    PROVE  RequestsInv'
    BY AskHeld, AskRefusedHeld, ForgetHeld, ReturnConfigHeld, ReturnOtherHeld DEF Client

-----------------------------------------------------------------------------
(* So do those of the driver and of the event task *)

LEMMA DeviceHeld ==
    ASSUME RequestsInv, NEW p \in Pipes, Device(p)
    PROVE  RequestsInv'
<1>1. client' = client /\ heap' = heap /\ bits' = bits /\ resets' = resets
    BY DEF Device, DeviceSends, DeviceTakes, DeviceFails, Still
<1>2. \/ buffer' = buffer
      \/ \E d \in DOMAIN Devices \cup {"none"} :
            buffer' = [buffer EXCEPT ![pipe[p].inflight] = d]
    BY DEF Device, DeviceSends, DeviceTakes, DeviceFails
<1>3. buffer' \in [Irps -> DOMAIN Devices \cup {"none"}]
    BY <1>2 DEF RequestsInv, TablesInv
<1> QED BY <1>1, <1>3, ClientsSame DEF RequestsInv, TablesInv

LEMMA ServeHeld ==
    ASSUME RequestsInv, NamesOK, EventServe
    PROVE  RequestsInv'
<1> DEFINE p == Head(evtq).pipe
           e == Head(evtq).event
           i == Head(pipe[p].done)
<1>1. p \in Pipes /\ e \in Events
    <2> DEFINE S == [pipe : Pipes, event : Events]
    <2>1. evtq \in Seq(S) /\ evtq # <<>>
        BY DEF NamesOK, EventServe
    <2> HIDE DEF S
    <2>2. Head(evtq) \in S
        BY <2>1, HeadTailProperties
    <2> QED BY <2>2 DEF S
<1>2. /\ bits' = bits \/ bits' = [bits EXCEPT ![i] = e]
      /\ resets' = resets \/ resets' = [pipe |-> p, irp |-> i, event |-> e]
      /\ client' = client /\ heap' = heap /\ buffer' = buffer
    BY DEF EventServe
<1> HIDE DEF p, e, i
<1>3. bits' \in [Irps -> Events]
    BY <1>1, <1>2 DEF RequestsInv, TablesInv
<1>4. resets'.pipe \in Pipes \cup {NoPipe} /\ resets'.event \in Events
    BY <1>1, <1>2 DEF RequestsInv, TablesInv
<1> QED BY <1>2, <1>3, <1>4, ClientsSame DEF RequestsInv, TablesInv

LEMMA ResetHeld ==
    ASSUME RequestsInv, EventReset
    PROVE  RequestsInv'
<1>1. /\ bits' = [bits EXCEPT ![resets.irp] = resets.event] /\ resets' = NotResetting
      /\ client' = client /\ heap' = heap /\ buffer' = buffer
    BY DEF EventReset
<1>2. bits' \in [Irps -> Events]
    BY <1>1 DEF RequestsInv, TablesInv
<1>3. resets'.pipe = NoPipe /\ resets'.event = "NONE"
    BY <1>1 DEF NotResetting
<1> QED BY <1>1, <1>2, <1>3, ClientsSame DEF RequestsInv, TablesInv, Events

LEMMA CloseHeld ==
    ASSUME RequestsInv, NEW p \in Pipes, CloseEndpoint(p)
    PROVE  RequestsInv'
<1>1. /\ bits' = [bits EXCEPT ![Head(pipe[p].done)] = "ERROR_IRP_NOT_AVAIL"]
      /\ client' = client /\ heap' = heap /\ buffer' = buffer /\ resets' = resets
    BY DEF CloseEndpoint
<1>2. bits' \in [Irps -> Events]
    BY <1>1 DEF RequestsInv, TablesInv, Events
<1> QED BY <1>1, <1>2, ClientsSame DEF RequestsInv, TablesInv

LEMMA AllSame ==
    ASSUME RequestsInv, client' = client, buffer' = buffer, bits' = bits, resets' = resets,
           heap' = heap
    PROVE  RequestsInv'
    BY ClientsSame, TablesSame DEF RequestsInv

LEMMA HeldStep ==
    ASSUME XferInv, NamesOK, RequestsInv, [RequestsNext]_allVars
    PROVE  RequestsInv'
<1>1. ASSUME NEW t \in Clients, Client(t)
      PROVE  RequestsInv'
    BY <1>1, ClientHeld
<1>2. ASSUME NEW p \in Pipes, Proceeds(p)
      PROVE  RequestsInv'
    <2>1. CASE Device(p)
        BY <2>1, DeviceHeld
    <2>2. CASE ChanInterrupt(p)
        BY <2>2, AllSame DEF ChanInterrupt, Still
    <2>3. CASE InvalidatePipe(p)
        BY <2>3, AllSame DEF InvalidatePipe, Still
    <2> QED BY <1>2, <2>1, <2>2, <2>3 DEF Proceeds
<1>3. ASSUME NEW p \in Pipes, CloseEndpoint(p)
      PROVE  RequestsInv'
    BY <1>3, CloseHeld
<1>4. CASE EventServe
    BY <1>4, ServeHeld
<1>5. CASE EventReset
    BY <1>5, ResetHeld
<1>6. CASE Unplug
    BY <1>6, AllSame DEF Unplug, Still
<1>7. CASE Replug
    BY <1>7, AllSame DEF Replug, Still
<1>8. CASE UNCHANGED allVars
    BY <1>8, AllSame DEF allVars
<1>9. ASSUME NEW t \in Clients, ConfigOverruns(t)
      PROVE  RequestsInv'
    BY <1>9, AllSame DEF ConfigOverruns
<1> QED BY <1>1, <1>2, <1>3, <1>4, <1>5, <1>6, <1>7, <1>8, <1>9 DEF RequestsNext, TasksNext

LEMMA HeldStart == RequestsInit => RequestsInv
<1> SUFFICES ASSUME RequestsInit
             PROVE  RequestsInv
    OBVIOUS
<1>1. \A t \in Clients : client[t] = Out
    BY DEF RequestsInit
<1>2. Out.got.blocks = 0 /\ Out.irp = NoIrp
    BY DEF Out, Nothing
<1>3. Held(client) = 0
    BY <1>1, <1>2, HeldNothing
<1>4. ClientsInv
    BY <1>1, <1>2, <1>3, OutOK DEF ClientsInv, OwnIrps, RequestsInit
<1>5. TablesInv
    BY DEF RequestsInit, TablesInv, NotResetting, Events
<1> QED BY <1>4, <1>5 DEF RequestsInv

\* Whatever clients, devices and events do, a client waits for one IRP that it alone holds,
\* each block of the memory is held by one of them, and the tables of xesp_usbh_xfer.c have
\* their types.
THEOREM RequestsInvariant ==
    RequestsSpec => [](XferInv /\ NamesOK /\ RequestsInv /\ fault \in BOOLEAN)
<1>1. RequestsInit => XferInv /\ NamesOK /\ RequestsInv /\ fault \in BOOLEAN
    <2>1. RequestsInit => fault \in BOOLEAN
        BY DEF RequestsInit
    <2> QED BY <2>1, RequestsStart, InitHolds, HeldStart
<1>2. /\ XferInv /\ NamesOK /\ RequestsInv /\ fault \in BOOLEAN
      /\ [RequestsNext]_allVars
      => (XferInv /\ NamesOK /\ RequestsInv /\ fault \in BOOLEAN)'
    <2>1. fault \in BOOLEAN /\ [RequestsNext]_allVars => fault' \in BOOLEAN
        BY DEF RequestsNext, ConfigOverruns, allVars
    <2> QED BY <2>1, RequestsStep, NextKeeps, HeldStep
<1> QED BY <1>1, <1>2, PTL DEF RequestsSpec

LEMMA RequestsTyped ==
    XferInv /\ NamesOK /\ RequestsInv /\ fault \in BOOLEAN => RequestsTypeOK
<1> SUFFICES ASSUME XferInv, NamesOK, RequestsInv, fault \in BOOLEAN
             PROVE  RequestsTypeOK
    OBVIOUS
<1>1. heap \in Nat
    <2>1. CASE Clients = {}
        BY <2>1, HeldNothing DEF RequestsInv, ClientsInv
    <2>2. CASE Clients # {}
        BY <2>2, HeapIn DEF RequestsInv
    <2> QED BY <2>1, <2>2
<1> QED BY <1>1 DEF XferInv, NamesOK, RequestsInv, ClientsInv, ClientOK, OwnIrps, TablesInv,
                    RequestsTypeOK

\* The names and events of clients, event task and resets have their types, and no two
\* clients wait for the same IRP (xesp_usbh_xfer.c, xesp_usbh.c).
THEOREM RequestsTypes == RequestsSpec => []RequestsTypeOK
    BY RequestsInvariant, RequestsTyped, PTL

\* For every configuration a device may send, whole or cut anywhere, the blocks that the
\* parser leaves allocated are those that its caller can free: a pool of several nodes knows
\* them all, and a parser that gives up frees them (xesp_usbh_parse.c, mem_pool).  It holds
\* until a merge writes outside of its array, which ends the run (ConfigOverruns).
THEOREM HeapIsBalanced == RequestsSpec => []HeapBalanced
<1>1. RequestsInv => HeapBalanced
    BY DEF RequestsInv, ClientsInv, HeapBalanced, Held
<1> QED BY <1>1, RequestsInvariant, PTL

\* A configuration that came whole is parsed as what its descriptors mean, for every layout
\* that is well formed and regular (AsMeantHolds): xesp_usbh_parse_config never gives up at
\* such a configuration, and misses and misplaces nothing (xesp_usbh_parse.c).
THEOREM ParserIsRight == RequestsSpec => []ParsedAsMeant
<1>1. ParsedAsMeant
    BY RequestsAssumption, AsMeantHolds DEF ParsedAsMeant
<1> QED BY <1>1, PTL

\* Of one that is cut anywhere the client gets nothing, or each interface with the first of
\* its alternatives and of their endpoints, whatever is behind the data; and the merge
\* writes to its own array only, if the interfaces come in the order of their numbers
\* (AsPrefixHolds; xesp_usbh_parse.c, and the length of the transfer in xesp_usbh.c).
THEOREM CutParserIsRight == RequestsSpec => []CutIsPrefix
<1>1. CutIsPrefix
    BY RequestsAssumption, AsPrefixHolds DEF CutIsPrefix
<1> QED BY <1>1, PTL
=============================================================================
