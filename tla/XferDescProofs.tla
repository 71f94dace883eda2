--------------------------- MODULE XferDescProofs ---------------------------
(***************************************************************************)
(* What holds of the transfer descriptor lists for every number of pipes   *)
(* and IRPs, every size of transfer, and every moment at which a stage     *)
(* fails, a pipe is reset or the device is lost.                           *)
(*                                                                         *)
(* The invariant XferInv has a part for each pipe, PipeOK: Owns says which *)
(* IRPs are its own, so that a step of one pipe leaves the others alone    *)
(* (Frame, OnePipe); Agree that their setup packets fit; Runnable what is  *)
(* in its list (Laid...) and how far channel, wire and interrupt are with  *)
(* it (Placed...), or that nothing is left of a transfer.                  *)
(***************************************************************************)
EXTENDS XferDesc, Integers, SequenceTheorems, TLAPS

-----------------------------------------------------------------------------
(* The inductive invariant *)

Distinct(s) == \A j, k \in DOMAIN s : s[j] = s[k] => j = k

Owned(i, p, flag) == i \in Irps /\ irp[i].flag = flag /\ irp[i].ptr = p

\* The IRPs of a pipe are marked as such, and no IRP is in a queue twice.
Owns(p) ==
    /\ InFlight(p) => Owned(pipe[p].inflight, p, "INFLIGHT")
    /\ \A k \in DOMAIN pipe[p].pending :
          /\ Owned(pipe[p].pending[k], p, "PENDING")
          /\ irp[pipe[p].pending[k]].actual = 0
    /\ \A k \in DOMAIN pipe[p].done : Owned(pipe[p].done[k], p, "DONE")
    /\ Distinct(pipe[p].pending) /\ Distinct(pipe[p].done)

\* Setup packet and IRP of a transfer that was accepted agree.
Agrees(u, type) == type = "CTRL" => (u.setup.wLength = 0 <=> u.num_bytes = 0)

Agree(p) ==
    /\ InFlight(p) => Agrees(irp[pipe[p].inflight], EpType[p])
    /\ \A k \in DOMAIN pipe[p].pending : Agrees(irp[pipe[p].pending[k]], EpType[p])

IsDesc(d, setup, in, len) ==
    /\ d.setup = setup /\ d.in = in /\ d.null = FALSE /\ d.halt = TRUE /\ d.len = len
    /\ d.rem \in 0 .. len

\* The list q.list of the transfer of IRP u.
LaidControl(q, u) ==
    /\ q.ctrl_data_stg_in = u.setup.in
    /\ q.ctrl_data_stg_skip = (u.num_bytes = 0)
    /\ Len(q.list) = 3
    /\ IsDesc(q.list[1], TRUE, FALSE, 8)
    /\ q.list[2].rem \in 0 .. u.num_bytes
    /\ u.num_bytes # 0 => IsDesc(q.list[2], FALSE, u.setup.in, u.num_bytes)
    /\ IsDesc(q.list[3], FALSE, ~(u.setup.in /\ u.num_bytes # 0), 0)

LaidBulk(q, u, in) == Len(q.list) = 1 /\ IsDesc(q.list[1], FALSE, in, u.num_bytes)

\* The stages that a control transfer has behind it at descriptor idx.
Seen(idx, u) ==
    IF idx = 0 THEN <<>>
    ELSE IF idx = 1 \/ (idx = 2 /\ u.num_bytes = 0) THEN <<SetupStage>>
    ELSE IF idx = 2 THEN <<SetupStage, DataStage(u.setup.in, u.num_bytes)>>
    ELSE ControlPlan(u.setup.in, u.num_bytes)

\* Channel c at one of the descriptors of a control transfer, with what was seen of it
\* on wire w.
PlacedControl(q, c, u, w) ==
    /\ c.idx \in 0 .. 3
    /\ w.stages = Seen(c.idx, u)
    /\ w.moved = IF c.idx >= 2 THEN u.num_bytes - q.list[2].rem ELSE 0
    /\ c.event = "SLOT_DONE" => c.idx = 3
    /\ c.event = "SLOT_HALT" => c.idx = 1 \/ (c.idx = 2 /\ u.num_bytes # 0)
    /\ c.active => \/ c.idx = 0 /\ c.in = FALSE /\ c.pid = 0
                   \/ c.idx = 1 /\ u.num_bytes # 0 /\ c.in = u.setup.in /\ c.pid = 1
                   \/ c.idx = 2 /\ c.in = ~(u.setup.in /\ u.num_bytes # 0) /\ c.pid = 1

PlacedBulk(q, c, u, w, in) ==
    /\ c.idx \in 0 .. 1
    /\ w.stages = IF c.idx = 0 THEN <<>> ELSE BulkPlan(in, u.num_bytes)
    /\ w.moved = IF c.idx = 0 THEN 0 ELSE u.num_bytes - q.list[1].rem
    /\ c.event = "SLOT_DONE" => c.idx = 1
    /\ c.event # "SLOT_HALT"
    /\ c.active => c.idx = 0

\* A channel that executes has no interrupt pending.
Busy(q, c, u, w, type) ==
    /\ q.state = "ACTIVE" /\ c.slot
    /\ c.active => c.event = "NONE"
    /\ type = "CTRL" => LaidControl(q, u) /\ PlacedControl(q, c, u, w)
    /\ type # "CTRL" => LaidBulk(q, u, type = "BULK_IN")
                        /\ PlacedBulk(q, c, u, w, type = "BULK_IN")

Resting(q, c, w) ==
    q.list = <<>> /\ ~c.slot /\ ~c.active /\ c.event = "NONE" /\ w = Quiet

Runnable(p) ==
    /\ InFlight(p) => Busy(pipe[p], chan[p], irp[pipe[p].inflight], wire[p], EpType[p])
    /\ ~InFlight(p) => Resting(pipe[p], chan[p], wire[p])
    /\ EpType[p] # "CTRL" => chan[p].in = (EpType[p] = "BULK_IN") /\ chan[p].pid = 0
    /\ chan[p].event = "ERROR" => chan[p].error \in ChanErrors

PipeOK(p) == Owns(p) /\ Agree(p) /\ Runnable(p)

XferInv == XferDescTypeOK /\ \A p \in Pipes : PipeOK(p)

-----------------------------------------------------------------------------
(* Frames: what a step must show to keep the invariant *)

\* A pipe whose fields, channel, wire and IRPs stay as they are.
LEMMA Frame ==
    ASSUME XferInv, NEW q \in Pipes,
           pipe'[q] = pipe[q], chan'[q] = chan[q], wire'[q] = wire[q],
           \A i \in Irps : irp[i].flag # "IDLE" /\ irp[i].ptr = q => irp'[i] = irp[i]
    PROVE  PipeOK(q)'
<1>1. PipeOK(q)
    BY DEF XferInv
<1>2. \A i, flag : Owned(i, q, flag) /\ flag # "IDLE" => irp'[i] = irp[i]
    BY DEF Owned
<1>3. InFlight(q)' <=> InFlight(q)
    BY DEF InFlight
<1>4. InFlight(q) => Owned(pipe[q].inflight, q, "INFLIGHT")
                     /\ irp'[pipe[q].inflight] = irp[pipe[q].inflight]
    BY <1>1, <1>2 DEF PipeOK, Owns
<1>5. \A k \in DOMAIN pipe[q].pending : irp'[pipe[q].pending[k]] = irp[pipe[q].pending[k]]
    BY <1>1, <1>2 DEF PipeOK, Owns
<1>6. \A k \in DOMAIN pipe[q].done : irp'[pipe[q].done[k]] = irp[pipe[q].done[k]]
    BY <1>1, <1>2 DEF PipeOK, Owns
<1>7. Owns(q)'
    BY <1>1, <1>3, <1>4, <1>5, <1>6 DEF PipeOK, Owns, Owned, Distinct
<1>8. Agree(q)'
    BY <1>1, <1>3, <1>4, <1>5 DEF PipeOK, Agree, Agrees
<1>9. Runnable(q)'
    BY <1>1, <1>3, <1>4 DEF PipeOK, Runnable
<1> QED BY <1>7, <1>8, <1>9 DEF PipeOK

\* A step of pipe p, which changes no IRP of another pipe.
LEMMA OnePipe ==
    ASSUME XferInv, XferDescTypeOK', NEW p \in Pipes,
           \A q \in Pipes \ {p} :
              pipe'[q] = pipe[q] /\ chan'[q] = chan[q] /\ wire'[q] = wire[q],
           \A i \in Irps : irp[i].flag = "IDLE" \/ irp[i].ptr = p \/ irp'[i] = irp[i],
           PipeOK(p)'
    PROVE  XferInv'
<1>1. ASSUME NEW q \in Pipes \ {p}
      PROVE  PipeOK(q)'
    BY <1>1, Frame
<1> QED BY <1>1 DEF XferInv

-----------------------------------------------------------------------------
(* Lists and channels *)

EpTypes == {"CTRL", "BULK_IN", "BULK_OUT"}

LEMMA EpTypeIn == \A p \in Pipes : EpType[p] \in EpTypes
    BY XferDescAssumption DEF EpTypes

LEMMA SetupIn ==
    ASSUME NEW u \in IrpRecord
    PROVE  u.setup.in \in BOOLEAN /\ u.setup.wLength \in Nat /\ u.num_bytes \in Nat
<1>1. u.setup \in Setups \cup {ZeroSetup} /\ u.num_bytes \in Nat
    BY DEF IrpRecord
<1>2. ZeroSetup.in \in BOOLEAN /\ ZeroSetup.wLength \in Nat
    BY DEF ZeroSetup
<1> QED BY <1>1, <1>2, XferDescAssumption

LEMMA FillDescFields ==
    ASSUME NEW flags, NEW n \in Nat
    PROVE  LET d == FillDesc(flags, n)
           IN  /\ d \in Desc
               /\ d.setup <=> "SETUP" \in flags
               /\ d.in <=> "IN" \in flags
               /\ d.null <=> "NULL" \in flags
               /\ d.halt <=> "HALT" \in flags
               /\ d.len = n /\ d.rem = n
<1> DEFINE d == FillDesc(flags, n)
<1>1. d.setup = ("SETUP" \in flags)
    BY Zenon DEF FillDesc
<1>2. d.in = ("IN" \in flags)
    BY Zenon DEF FillDesc
<1>3. d.null = ("NULL" \in flags)
    BY Zenon DEF FillDesc
<1>4. d.halt = ("HALT" \in flags)
    BY Zenon DEF FillDesc
<1>5. d.len = n /\ d.rem = n /\ d \in Desc
    BY DEF FillDesc, Desc
<1> QED BY Zenon, <1>1, <1>2, <1>3, <1>4, <1>5

\* A descriptor of a stage that is executed.
LEMMA StageDesc ==
    ASSUME NEW n \in Nat, NEW in \in BOOLEAN
    PROVE  /\ FillDesc(In(in) \cup {"HALT"}, n) \in Desc
           /\ IsDesc(FillDesc(In(in) \cup {"HALT"}, n), FALSE, in, n)
<1> DEFINE flags == In(in) \cup {"HALT"}
<1>1. "SETUP" \notin flags /\ "NULL" \notin flags /\ "HALT" \in flags
      /\ ("IN" \in flags <=> in)
    BY DEF In
<1>2. FillDesc(flags, n) \in Desc
    BY FillDescFields
<1>3. IsDesc(FillDesc(flags, n), FALSE, in, n)
    BY <1>1, <1>2, FillDescFields DEF IsDesc, Desc
<1> QED BY <1>2, <1>3

\* _xfer_desc_list_fill lays the list of its IRP.
LEMMA FilledLaid ==
    ASSUME NEW q \in PipeRecord, NEW u \in IrpRecord, NEW type \in EpTypes
    PROVE  LET f == Filled(q, u, type)
           IN  /\ f \in PipeRecord
               /\ f.state = q.state /\ f.inflight = q.inflight
               /\ f.pending = q.pending /\ f.done = q.done
               /\ type = "CTRL" => LaidControl(f, u)
               /\ type # "CTRL" => LaidBulk(f, u, type = "BULK_IN")
<1> DEFINE n == u.num_bytes
           in == u.setup.in
<1>1. n \in Nat /\ in \in BOOLEAN
    BY SetupIn
<1>2. CASE type = "CTRL"
    <2> DEFINE d1 == FillDesc({"SETUP", "HALT"}, RequestSize)
               d2 == IF n = 0 THEN FillDesc({"NULL"}, 0) ELSE FillDesc(In(in) \cup {"HALT"}, n)
               status == ~(in /\ ~(n = 0))
               d3 == FillDesc(In(status) \cup {"HALT"}, 0)
    <2>1. d1 \in Desc /\ IsDesc(d1, TRUE, FALSE, 8)
        <3>1. d1 \in Desc /\ d1.len = 8 /\ d1.rem = 8
            BY FillDescFields DEF RequestSize
        <3>2. (d1.setup <=> TRUE) /\ (d1.in <=> FALSE) /\ (d1.null <=> FALSE)
              /\ (d1.halt <=> TRUE)
            BY FillDescFields DEF RequestSize
        <3> QED BY <3>1, <3>2 DEF IsDesc, Desc
    <2>2. d2 \in Desc /\ d2.len = n /\ d2.rem = n
        BY <1>1, FillDescFields
    <2>3. n # 0 => IsDesc(d2, FALSE, in, n)
        BY <1>1, StageDesc
    <2>4. status \in BOOLEAN /\ (status <=> ~(in /\ n # 0))
        BY <1>1
    <2>5. d3 \in Desc /\ IsDesc(d3, FALSE, status, 0)
        BY <2>4, StageDesc
    <2>6. Filled(q, u, type) =
             [q EXCEPT !.ctrl_data_stg_in = in, !.ctrl_data_stg_skip = (n = 0),
                       !.list = <<d1, d2, d3>>]
        BY <1>2 DEF Filled, ControlList
    <2> HIDE DEF d1, d2, d3, status
    <2>7. <<d1, d2, d3>> \in Seq(Desc)
        BY <2>1, <2>2, <2>5
    <2> DEFINE f == [q EXCEPT !.ctrl_data_stg_in = in, !.ctrl_data_stg_skip = (n = 0),
                              !.list = <<d1, d2, d3>>]
    <2>8. /\ f \in PipeRecord
          /\ f.state = q.state /\ f.inflight = q.inflight
          /\ f.pending = q.pending /\ f.done = q.done
          /\ f.list = <<d1, d2, d3>>
        BY <1>1, <2>7 DEF PipeRecord
    <2>9. f.ctrl_data_stg_in = in /\ f.ctrl_data_stg_skip = (n = 0)
        BY DEF PipeRecord
    <2> HIDE DEF f
    <2>10. IsDesc(d3, FALSE, ~(in /\ n # 0), 0)
        BY <2>4, <2>5 DEF IsDesc
    <2>11. LaidControl(f, u)
        <3>1. Len(f.list) = 3 /\ f.list[1] = d1 /\ f.list[2] = d2 /\ f.list[3] = d3
            BY <2>8
        <3>2. f.list[2].rem \in 0 .. n
            BY <1>1, <2>2, <3>1
        <3> QED BY Zenon, <2>1, <2>3, <2>9, <2>10, <3>1, <3>2 DEF LaidControl
    <2>12. Filled(q, u, type) = f
        BY <2>6 DEF f
    <2> QED BY <1>2, <2>8, <2>11, <2>12
<1>3. CASE type # "CTRL"
    <2> DEFINE bulkIn == (type = "BULK_IN")
               d == FillDesc(In(bulkIn) \cup {"HALT"}, n)
    <2>1. bulkIn \in BOOLEAN
        OBVIOUS
    <2>2. d \in Desc /\ IsDesc(d, FALSE, bulkIn, n)
        BY <1>1, <2>1, StageDesc
    <2>3. Filled(q, u, type) = [q EXCEPT !.list = <<d>>]
        BY <1>3 DEF Filled
    <2> HIDE DEF d
    <2>4. <<d>> \in Seq(Desc)
        BY <2>2
    <2> DEFINE f == [q EXCEPT !.list = <<d>>]
    <2>5. /\ f \in PipeRecord
          /\ f.state = q.state /\ f.inflight = q.inflight
          /\ f.pending = q.pending /\ f.done = q.done
          /\ Len(f.list) = 1 /\ f.list[1] = d
        BY <2>4 DEF PipeRecord
    <2> HIDE DEF f
    <2>6. LaidBulk(f, u, bulkIn)
        BY Zenon, <2>2, <2>5 DEF LaidBulk
    <2>7. Filled(q, u, type) = f
        BY <2>3 DEF f
    <2> QED BY <1>3, <2>5, <2>6, <2>7
<1> QED BY <1>2, <1>3

\* The channel that is loaded with it is at its first descriptor.
LEMMA LoadedPlaced ==
    ASSUME NEW f \in PipeRecord, NEW c \in ChanRecord, NEW u \in IrpRecord,
           NEW type \in EpTypes,
           f.state = "ACTIVE",
           type = "CTRL" => LaidControl(f, u),
           type # "CTRL" => LaidBulk(f, u, type = "BULK_IN")
                            /\ c.in = (type = "BULK_IN") /\ c.pid = 0
    PROVE  LET l == Loaded([c EXCEPT !.event = "NONE", !.error = "NONE"], type)
           IN  /\ l \in ChanRecord
               /\ Busy(f, l, u, Quiet, type)
               /\ type # "CTRL" => l.in = (type = "BULK_IN") /\ l.pid = 0
               /\ l.event = "NONE"
<1> DEFINE l == Loaded([c EXCEPT !.event = "NONE", !.error = "NONE"], type)
<1>1. /\ l \in ChanRecord
      /\ l.slot /\ l.idx = 0 /\ l.event = "NONE"
    BY DEF Loaded, ChanRecord, ChanEvents
<1>2. type = "CTRL" => l.in = FALSE /\ l.pid = 0
    BY DEF Loaded, ChanRecord
<1>3. type # "CTRL" => l.in = c.in /\ l.pid = c.pid
    BY DEF Loaded, ChanRecord
<1>4. Quiet.stages = <<>> /\ Quiet.moved = 0
    BY DEF Quiet
<1> HIDE DEF l
<1>5. type = "CTRL" => PlacedControl(f, l, u, Quiet)
    BY <1>1, <1>2, <1>4 DEF PlacedControl, Seen
<1>6. type # "CTRL" => PlacedBulk(f, l, u, Quiet, type = "BULK_IN")
    BY <1>1, <1>4 DEF PlacedBulk
<1>7. Busy(f, l, u, Quiet, type)
    BY <1>1, <1>5, <1>6 DEF Busy
<1> QED BY <1>1, <1>3, <1>7 DEF l

LEMMA QuietType == Quiet \in [stages : Seq(Stages), moved : Nat]
    BY DEF Quiet

\* A pipe that begins the transfer of IRP u.
LEMMA StartKeeps ==
    ASSUME XferInv, NEW p \in Pipes, NEW q \in PipeRecord, NEW u \in IrpRecord,
           q.inflight # NoIrp, q.state = "ACTIVE", irp'[q.inflight] = u,
           Start(p, q, u)
    PROVE  /\ Runnable(p)'
           /\ pipe' \in [Pipes -> PipeRecord]
           /\ chan' \in [Pipes -> ChanRecord]
           /\ wire' \in [Pipes -> [stages : Seq(Stages), moved : Nat]]
           /\ pipe'[p].inflight = q.inflight
           /\ pipe'[p].pending = q.pending /\ pipe'[p].done = q.done
           /\ wire'[p] = Quiet
           /\ \A r \in Pipes \ {p} :
                 pipe'[r] = pipe[r] /\ chan'[r] = chan[r] /\ wire'[r] = wire[r]
<1> DEFINE type == EpType[p]
           f == Filled(q, u, type)
           l == Loaded([chan[p] EXCEPT !.event = "NONE", !.error = "NONE"], type)
<1>1. type \in EpTypes /\ chan[p] \in ChanRecord
    BY EpTypeIn DEF XferInv, XferDescTypeOK
<1>2. /\ pipe \in [Pipes -> PipeRecord] /\ chan \in [Pipes -> ChanRecord]
      /\ wire \in [Pipes -> [stages : Seq(Stages), moved : Nat]]
    BY DEF XferInv, XferDescTypeOK
<1>3. type # "CTRL" => chan[p].in = (type = "BULK_IN") /\ chan[p].pid = 0
    BY DEF XferInv, PipeOK, Runnable
<1>4. /\ f \in PipeRecord
      /\ f.state = q.state /\ f.inflight = q.inflight
      /\ f.pending = q.pending /\ f.done = q.done
      /\ type = "CTRL" => LaidControl(f, u)
      /\ type # "CTRL" => LaidBulk(f, u, type = "BULK_IN")
    BY <1>1, FilledLaid
<1>5. /\ l \in ChanRecord
      /\ Busy(f, l, u, Quiet, type)
      /\ type # "CTRL" => l.in = (type = "BULK_IN") /\ l.pid = 0
      /\ l.event = "NONE"
    <2>1. f.state = "ACTIVE" /\ chan[p] \in ChanRecord
        BY <1>1, <1>4
    <2> HIDE DEF f, type
    <2> QED BY <1>1, <1>3, <1>4, <2>1, LoadedPlaced
<1>6. /\ pipe' = [pipe EXCEPT ![p] = f]
      /\ chan' = [chan EXCEPT ![p] = l]
      /\ wire' = [wire EXCEPT ![p] = Quiet]
    BY DEF Start
<1> HIDE DEF f, l, type
<1>7. pipe'[p] = f /\ chan'[p] = l /\ wire'[p] = Quiet
    BY <1>2, <1>6
<1>8. Runnable(p)'
    BY <1>4, <1>5, <1>7 DEF Runnable, InFlight, type
<1>9. /\ pipe' \in [Pipes -> PipeRecord]
      /\ chan' \in [Pipes -> ChanRecord]
      /\ wire' \in [Pipes -> [stages : Seq(Stages), moved : Nat]]
    BY <1>2, <1>4, <1>5, <1>6, QuietType
<1> QED BY <1>2, <1>4, <1>6, <1>7, <1>8, <1>9

-----------------------------------------------------------------------------
(* Queues of IRPs *)

LEMMA DistinctAppend ==
    ASSUME NEW S, NEW s \in Seq(S), NEW x \in S, Distinct(s),
           \A k \in DOMAIN s : s[k] # x
    PROVE  Distinct(Append(s, x))
    BY DEF Distinct

LEMMA DistinctTail ==
    ASSUME NEW S, NEW s \in Seq(S), s # <<>>, Distinct(s)
    PROVE  /\ Head(s) \in S /\ Tail(s) \in Seq(S)
           /\ Distinct(Tail(s))
           /\ \A k \in DOMAIN Tail(s) : Tail(s)[k] # Head(s)
           /\ \A k \in DOMAIN Tail(s) : k + 1 \in DOMAIN s /\ Tail(s)[k] = s[k + 1]
           /\ 1 \in DOMAIN s /\ Head(s) = s[1]
    BY DEF Distinct

LEMMA DistinctConcat ==
    ASSUME NEW S, NEW s \in Seq(S), NEW t \in Seq(S), Distinct(s), Distinct(t),
           \A j \in DOMAIN s, k \in DOMAIN t : s[j] # t[k]
    PROVE  /\ Distinct(s \o t) /\ s \o t \in Seq(S)
           /\ \A k \in DOMAIN (s \o t) : \/ k \in DOMAIN s /\ (s \o t)[k] = s[k]
                                         \/ k - Len(s) \in DOMAIN t /\ (s \o t)[k] = t[k - Len(s)]
<1>1. s \o t \in Seq(S)
    OBVIOUS
<1>2. \A k \in DOMAIN (s \o t) :
         \/ k \in DOMAIN s /\ k \in 1 .. Len(s) /\ (s \o t)[k] = s[k]
         \/ k - Len(s) \in DOMAIN t /\ k \in (Len(s) + 1) .. (Len(s) + Len(t))
            /\ (s \o t)[k] = t[k - Len(s)]
    OBVIOUS
<1>3. Distinct(s \o t)
    <2> SUFFICES ASSUME NEW j \in DOMAIN (s \o t), NEW k \in DOMAIN (s \o t),
                        (s \o t)[j] = (s \o t)[k]
                 PROVE  j = k
        BY DEF Distinct
    <2>1. CASE j \in 1 .. Len(s) /\ k \in 1 .. Len(s)
        BY <1>2, <2>1 DEF Distinct
    <2>2. CASE j \in 1 .. Len(s) /\ k \notin 1 .. Len(s)
        BY <1>2, <2>2
    <2>3. CASE j \notin 1 .. Len(s) /\ k \in 1 .. Len(s)
        BY <1>2, <2>3
    <2>4. CASE j \notin 1 .. Len(s) /\ k \notin 1 .. Len(s)
        <3>1. t[j - Len(s)] = t[k - Len(s)] /\ j - Len(s) \in DOMAIN t /\ k - Len(s) \in DOMAIN t
            BY <1>2, <2>4
        <3>2. j - Len(s) = k - Len(s)
            BY <3>1 DEF Distinct
        <3>3. j \in Nat /\ k \in Nat /\ Len(s) \in Nat
            OBVIOUS
        <3> QED BY <3>2, <3>3
    <2> QED BY <2>1, <2>2, <2>3, <2>4
<1> QED BY <1>1, <1>2, <1>3

-----------------------------------------------------------------------------
(* hcd_irp_enqueue, hcd_irp_dequeue *)

LEMMA Types ==
    ASSUME XferInv
    PROVE  /\ pipe \in [Pipes -> PipeRecord] /\ chan \in [Pipes -> ChanRecord]
           /\ irp \in [Irps -> IrpRecord] /\ conn \in BOOLEAN
           /\ wire \in [Pipes -> [stages : Seq(Stages), moved : Nat]]
    BY DEF XferInv, XferDescTypeOK

LEMMA FreshType ==
    ASSUME NEW flag \in {"IDLE", "PENDING", "INFLIGHT", "DONE"}, NEW p \in Pipes \cup {NoPipe},
           NEW s \in Setups \cup {ZeroSetup}, NEW n \in Nat
    PROVE  Fresh(flag, p, s, n) \in IrpRecord
    BY DEF Fresh, IrpRecord, Statuses

LEMMA InitHolds == XferInit => XferInv
<1> SUFFICES ASSUME XferInit
             PROVE  XferInv
    OBVIOUS
<1>1. NewPipe \in PipeRecord
    BY DEF NewPipe, PipeRecord
<1>2. \A p \in Pipes : NewChan(p) \in ChanRecord
    BY DEF NewChan, ChanRecord, ChanEvents
<1>3. Fresh("IDLE", NoPipe, ZeroSetup, 0) \in IrpRecord
    BY FreshType
<1>4. XferDescTypeOK
    BY <1>1, <1>2, <1>3, QuietType DEF XferInit, XferDescTypeOK
<1>5. ASSUME NEW p \in Pipes
      PROVE  PipeOK(p)
    <2>1. pipe[p] = NewPipe /\ chan[p] = NewChan(p) /\ wire[p] = Quiet /\ ~InFlight(p)
        BY DEF XferInit, InFlight, NewPipe
    <2>2. Owns(p) /\ Agree(p)
        BY <2>1 DEF Owns, Agree, Distinct, NewPipe
    <2>3. Runnable(p)
        BY <2>1 DEF Runnable, Resting, NewPipe, NewChan
    <2> QED BY <2>2, <2>3 DEF PipeOK
<1> QED BY <1>4, <1>5 DEF XferInv

LEMMA SubmitStartKeeps ==
    ASSUME XferInv, NEW p \in Pipes, NEW i \in Irps, NEW s \in Setups, NEW n \in Sizes,
           Fits(p, s, n), SubmitStart(p, i, s, n)
    PROVE  XferInv'
<1> USE Types
<1> DEFINE u == Fresh("INFLIGHT", p, s, n)
           q == [pipe[p] EXCEPT !.inflight = i]
<1>1. n \in Nat /\ u \in IrpRecord
    BY FreshType, XferDescAssumption
<1>2. irp' = [irp EXCEPT ![i] = u] /\ irp'[i] = u /\ conn' = conn
      /\ irp[i].flag = "IDLE" /\ pipe[p].state = "ACTIVE" /\ pipe[p].pending = <<>>
      /\ pipe[p].inflight = NoIrp
    BY DEF SubmitStart, Accepts, Queues
<1>3. q \in PipeRecord /\ q.inflight = i /\ q.state = pipe[p].state
      /\ q.pending = <<>> /\ q.done = pipe[p].done
    BY <1>2 DEF PipeRecord
<1>4. Start(p, q, u)
    BY <1>2 DEF SubmitStart
<1>5. u.flag = "INFLIGHT" /\ u.ptr = p /\ u.setup = s /\ u.num_bytes = n
    BY DEF Fresh
<1> HIDE DEF q, u
<1>6. /\ Runnable(p)'
      /\ pipe' \in [Pipes -> PipeRecord] /\ chan' \in [Pipes -> ChanRecord]
      /\ wire' \in [Pipes -> [stages : Seq(Stages), moved : Nat]]
      /\ pipe'[p].inflight = i /\ pipe'[p].pending = <<>> /\ pipe'[p].done = pipe[p].done
      /\ \A r \in Pipes \ {p} :
            pipe'[r] = pipe[r] /\ chan'[r] = chan[r] /\ wire'[r] = wire[r]
    <2>1. q.inflight # NoIrp /\ q.state = "ACTIVE" /\ irp'[q.inflight] = u
        BY <1>2, <1>3, XferDescAssumption
    <2> QED BY <1>1, <1>3, <1>4, <2>1, StartKeeps
<1>7. XferDescTypeOK'
    BY <1>1, <1>2, <1>6 DEF XferDescTypeOK
<1>8. Owns(p)'
    <2>1. Owns(p)
        BY DEF XferInv, PipeOK
    <2>2. \A k \in DOMAIN pipe[p].done : Owned(pipe[p].done[k], p, "DONE")' /\ Distinct(pipe[p].done)
        BY <1>2, <1>6, <2>1 DEF Owns, Owned
    <2>3. Owned(i, p, "INFLIGHT")'
        BY <1>2, <1>5 DEF Owned
    <2> QED BY <1>6, <2>1, <2>2, <2>3 DEF Owns, Distinct
<1>9. Agree(p)'
    BY <1>2, <1>5, <1>6 DEF Agree, Agrees, Fits
<1>10. PipeOK(p)'
    BY <1>6, <1>8, <1>9 DEF PipeOK
<1>11. \A j \in Irps : irp[j].flag = "IDLE" \/ irp[j].ptr = p \/ irp'[j] = irp[j]
    BY <1>2
<1> QED BY <1>6, <1>7, <1>10, <1>11, OnePipe

\* An action that leaves the channel of its pipe and the IRP in flight alone.
LEMMA SameTransfer ==
    ASSUME XferInv, NEW p \in Pipes,
           pipe'[p].inflight = pipe[p].inflight, pipe'[p].list = pipe[p].list,
           pipe'[p].ctrl_data_stg_in = pipe[p].ctrl_data_stg_in,
           pipe'[p].ctrl_data_stg_skip = pipe[p].ctrl_data_stg_skip,
           InFlight(p) => /\ pipe'[p].state = "ACTIVE"
                          /\ irp'[pipe[p].inflight] = irp[pipe[p].inflight],
           chan'[p] = chan[p], wire'[p] = wire[p]
    PROVE  Runnable(p)'
<1>1. Runnable(p)
    BY DEF XferInv, PipeOK
<1>2. InFlight(p)' <=> InFlight(p)
    BY DEF InFlight
<1>3. InFlight(p) => Busy(pipe[p], chan[p], irp[pipe[p].inflight], wire[p], EpType[p])'
    BY <1>1 DEF Runnable, Busy, LaidControl, LaidBulk, PlacedControl, PlacedBulk
<1> QED BY <1>1, <1>2, <1>3 DEF Runnable, Resting

LEMMA SubmitPendKeeps ==
    ASSUME XferInv, NEW p \in Pipes, NEW i \in Irps, NEW s \in Setups, NEW n \in Sizes,
           Fits(p, s, n), SubmitPend(p, i, s, n)
    PROVE  XferInv'
<1> USE Types
<1> DEFINE u == Fresh("PENDING", p, s, n)
           pend == pipe[p].pending
<1>1. n \in Nat /\ u \in IrpRecord
    BY FreshType, XferDescAssumption
<1>2. u.flag = "PENDING" /\ u.ptr = p /\ u.setup = s /\ u.num_bytes = n /\ u.actual = 0
    BY DEF Fresh
<1> HIDE DEF u
<1>3. irp' = [irp EXCEPT ![i] = u] /\ irp'[i] = u /\ conn' = conn /\ irp[i].flag = "IDLE"
      /\ chan' = chan /\ wire' = wire /\ pipe' = [pipe EXCEPT ![p].pending = Append(@, i)]
    BY DEF SubmitPend, u
<1>4. /\ pend \in Seq(Irps) /\ Append(pend, i) \in Seq(Irps)
      /\ pipe'[p] = [pipe[p] EXCEPT !.pending = Append(pend, i)]
    BY <1>3 DEF PipeRecord
<1>5. /\ pipe'[p].pending = Append(pend, i)
      /\ pipe'[p].inflight = pipe[p].inflight /\ pipe'[p].list = pipe[p].list
      /\ pipe'[p].done = pipe[p].done /\ pipe'[p].state = pipe[p].state
      /\ pipe'[p].ctrl_data_stg_in = pipe[p].ctrl_data_stg_in
      /\ pipe'[p].ctrl_data_stg_skip = pipe[p].ctrl_data_stg_skip
      /\ pipe'[p] \in PipeRecord
    BY <1>4 DEF PipeRecord
<1>6. XferDescTypeOK'
    BY <1>1, <1>3, <1>5 DEF XferDescTypeOK
<1>7. Owns(p) /\ Agree(p) /\ Runnable(p)
    BY DEF XferInv, PipeOK
<1>8. \A j \in Irps : irp[j].flag # "IDLE" => irp'[j] = irp[j]
    BY <1>3
<1>9. InFlight(p) => Owned(pipe[p].inflight, p, "INFLIGHT")
                     /\ irp'[pipe[p].inflight] = irp[pipe[p].inflight]
    BY <1>7, <1>8 DEF Owns, Owned
<1>10. \A k \in DOMAIN pend : /\ pend[k] # i /\ irp'[pend[k]] = irp[pend[k]]
                              /\ Owned(pend[k], p, "PENDING") /\ irp[pend[k]].actual = 0
    BY <1>3, <1>7, <1>8 DEF Owns, Owned
<1>11. \A k \in DOMAIN pipe[p].done : irp'[pipe[p].done[k]] = irp[pipe[p].done[k]]
    BY <1>7, <1>8 DEF Owns, Owned
<1>12. \A k \in DOMAIN Append(pend, i) : \/ k \in DOMAIN pend /\ Append(pend, i)[k] = pend[k]
                                         \/ Append(pend, i)[k] = i
    BY <1>4
<1>13. Owns(p)'
    <2>1. \A k \in DOMAIN Append(pend, i) :
             /\ Append(pend, i)[k] \in Irps
             /\ irp'[Append(pend, i)[k]].flag = "PENDING"
             /\ irp'[Append(pend, i)[k]].ptr = p
             /\ irp'[Append(pend, i)[k]].actual = 0
        BY <1>2, <1>3, <1>10, <1>12 DEF Owned
    <2>2. Distinct(Append(pend, i))
        BY <1>4, <1>7, <1>10, DistinctAppend DEF Owns
    <2>3. InFlight(p)' <=> InFlight(p)
        BY <1>5 DEF InFlight
    <2>4. \A k \in DOMAIN pipe[p].done : Owned(pipe[p].done[k], p, "DONE")'
        BY <1>5, <1>7, <1>11 DEF Owns, Owned
    <2> QED BY <1>5, <1>7, <1>9, <2>1, <2>2, <2>3, <2>4 DEF Owns, Owned, Distinct
<1>14. Agree(p)'
    <2>1. Agrees(u, EpType[p])
        BY <1>2 DEF Agrees, Fits
    <2>2. \A k \in DOMAIN Append(pend, i) : Agrees(irp'[Append(pend, i)[k]], EpType[p])
        BY <1>3, <1>7, <1>10, <1>12, <2>1 DEF Agree
    <2> QED BY <1>5, <1>7, <1>9, <2>2 DEF Agree, InFlight, Agrees
<1>15. Runnable(p)'
    <2>1. InFlight(p) => pipe[p].state = "ACTIVE"
        BY <1>7 DEF Runnable, Busy
    <2> QED BY <1>3, <1>5, <1>9, <2>1, SameTransfer
<1>16. PipeOK(p)'
    BY <1>13, <1>14, <1>15 DEF PipeOK
<1> QED BY <1>3, <1>6, <1>16, OnePipe

LEMMA DequeueKeeps ==
    ASSUME XferInv, NEW p \in Pipes, Dequeue(p)
    PROVE  XferInv'
<1> USE Types
<1> DEFINE d == pipe[p].done
           i == Head(d)
<1>1. d \in Seq(Irps) /\ d # <<>>
    BY DEF Dequeue, PipeRecord
<1>2. Owns(p) /\ Agree(p) /\ Runnable(p)
    BY DEF XferInv, PipeOK
<1>3. /\ i \in Irps /\ Tail(d) \in Seq(Irps) /\ Distinct(Tail(d))
      /\ \A k \in DOMAIN Tail(d) : Tail(d)[k] # i
      /\ \A k \in DOMAIN Tail(d) : k + 1 \in DOMAIN d /\ Tail(d)[k] = d[k + 1]
      /\ 1 \in DOMAIN d /\ i = d[1]
    BY <1>1, <1>2, DistinctTail DEF Owns
<1>4. Owned(i, p, "DONE")
    BY <1>2, <1>3 DEF Owns
<1> HIDE DEF d, i
<1>5. /\ irp' = [irp EXCEPT ![i].flag = "IDLE", ![i].ptr = NoPipe]
      /\ pipe' = [pipe EXCEPT ![p].done = Tail(d)]
      /\ chan' = chan /\ wire' = wire /\ conn' = conn
    BY DEF Dequeue, d, i
<1>6. irp'[i] \in IrpRecord /\ \A j \in Irps : j # i => irp'[j] = irp[j]
    <2>1. irp'[i] = [irp[i] EXCEPT !.flag = "IDLE", !.ptr = NoPipe]
        BY <1>3, <1>5
    <2>2. irp'[i] \in IrpRecord
        <3>1. irp[i] \in IrpRecord
            BY <1>3
        <3> QED BY <2>1, <3>1 DEF IrpRecord
    <2> QED BY <1>5, <2>2
<1>7. /\ pipe'[p].done = Tail(d)
      /\ pipe'[p].pending = pipe[p].pending
      /\ pipe'[p].inflight = pipe[p].inflight /\ pipe'[p].list = pipe[p].list
      /\ pipe'[p].state = pipe[p].state
      /\ pipe'[p].ctrl_data_stg_in = pipe[p].ctrl_data_stg_in
      /\ pipe'[p].ctrl_data_stg_skip = pipe[p].ctrl_data_stg_skip
      /\ pipe'[p] \in PipeRecord
    BY <1>3, <1>5 DEF PipeRecord
<1>8. XferDescTypeOK'
    BY <1>5, <1>6, <1>7 DEF XferDescTypeOK
<1>9. InFlight(p) => Owned(pipe[p].inflight, p, "INFLIGHT")
                     /\ irp'[pipe[p].inflight] = irp[pipe[p].inflight]
    BY <1>2, <1>4, <1>6 DEF Owns, Owned
<1>10. \A k \in DOMAIN pipe[p].pending : irp'[pipe[p].pending[k]] = irp[pipe[p].pending[k]]
    BY <1>2, <1>4, <1>6 DEF Owns, Owned
<1>11. \A k \in DOMAIN Tail(d) : /\ Tail(d)[k] \in Irps /\ Owned(Tail(d)[k], p, "DONE")
                                 /\ irp'[Tail(d)[k]] = irp[Tail(d)[k]]
    BY <1>2, <1>3, <1>6 DEF Owns, Owned, d
<1>12. InFlight(p)' <=> InFlight(p)
    BY <1>7 DEF InFlight
<1>13. Owns(p)'
    BY <1>2, <1>3, <1>7, <1>9, <1>10, <1>11, <1>12 DEF Owns, Owned, Distinct
<1>14. Agree(p)'
    BY <1>2, <1>7, <1>9, <1>10, <1>12 DEF Agree, Agrees
<1>15. Runnable(p)'
    <2>1. InFlight(p) => pipe[p].state = "ACTIVE"
        BY <1>2 DEF Runnable, Busy
    <2> QED BY <1>5, <1>7, <1>9, <2>1, SameTransfer
<1>16. PipeOK(p)'
    BY <1>13, <1>14, <1>15 DEF PipeOK
<1>17. \A j \in Irps : irp[j].flag = "IDLE" \/ irp[j].ptr = p \/ irp'[j] = irp[j]
    BY <1>4, <1>6 DEF Owned
<1> QED BY <1>5, <1>8, <1>16, <1>17, OnePipe

LEMMA ClearKeeps ==
    ASSUME XferInv, NEW i \in Irps, Clear(i)
    PROVE  XferInv'
<1> USE Types
<1>1. Fresh("IDLE", NoPipe, ZeroSetup, 0) \in IrpRecord
    BY FreshType
<1>2. /\ irp' \in [Irps -> IrpRecord]
      /\ \A j \in Irps : irp[j].flag # "IDLE" => irp'[j] = irp[j]
      /\ pipe' = pipe /\ chan' = chan /\ conn' = conn /\ wire' = wire
    BY <1>1 DEF Clear
<1>3. XferDescTypeOK'
    BY <1>2 DEF XferDescTypeOK
<1>4. \A q \in Pipes : PipeOK(q)'
    BY <1>2, Frame
<1> QED BY <1>3, <1>4 DEF XferInv

-----------------------------------------------------------------------------
(* The controller *)

\* What a channel that executes finds.
StageAt(p) ==
    [setup |-> Current(p).setup, in |-> chan[p].in, pid |-> chan[p].pid,
     len |-> Current(p).len]

LEMMA Executing ==
    ASSUME XferInv, NEW p \in Pipes, Executes(p)
    PROVE  LET u == irp[pipe[p].inflight]
               d == Current(p)
               idx == chan[p].idx
           IN  /\ InFlight(p) /\ pipe[p].inflight \in Irps /\ u \in IrpRecord
               /\ d \in Desc /\ d.null = FALSE /\ d.halt = TRUE /\ d.in = chan[p].in
               /\ idx + 1 \in DOMAIN pipe[p].list
               /\ EpType[p] = "CTRL" =>
                     \/ idx = 0 /\ d.setup = TRUE /\ StageAt(p) = SetupStage
                     \/ /\ idx = 1 /\ u.num_bytes # 0 /\ d.setup = FALSE /\ d.len = u.num_bytes
                        /\ StageAt(p) = DataStage(u.setup.in, u.num_bytes)
                     \/ /\ idx = 2 /\ d.setup = FALSE /\ d.len = 0
                        /\ StageAt(p) = StatusStage(~(u.setup.in /\ u.num_bytes # 0))
               /\ EpType[p] # "CTRL" =>
                     /\ idx = 0 /\ d.setup = FALSE /\ d.len = u.num_bytes
                     /\ BulkPlan(EpType[p] = "BULK_IN", u.num_bytes) = <<StageAt(p)>>
<1> USE Types
<1> DEFINE i == pipe[p].inflight
           u == irp[i]
           d == Current(p)
           idx == chan[p].idx
           type == EpType[p]
<1>1. Owns(p) /\ Runnable(p)
    BY DEF XferInv, PipeOK
<1>2. chan[p].active /\ chan[p].idx < Len(pipe[p].list)
    BY DEF Executes
<1>3. InFlight(p) /\ Busy(pipe[p], chan[p], u, wire[p], type)
    BY <1>1, <1>2 DEF Runnable, Resting
<1>4. i \in Irps /\ u \in IrpRecord
    BY <1>1, <1>3 DEF Owns, Owned
<1>5. idx \in Nat /\ pipe[p].list \in Seq(Desc) /\ chan[p].in \in BOOLEAN
    BY DEF ChanRecord, PipeRecord
<1>6. idx + 1 \in DOMAIN pipe[p].list /\ d \in Desc /\ d = pipe[p].list[idx + 1]
    BY <1>2, <1>5 DEF Current
<1>7. u.setup.in \in BOOLEAN /\ u.num_bytes \in Nat
    BY <1>4, SetupIn
<1> HIDE DEF d, u, i
<1>8. CASE type = "CTRL"
    <2>1. LaidControl(pipe[p], u) /\ PlacedControl(pipe[p], chan[p], u, wire[p])
        BY <1>3, <1>8 DEF Busy
    <2>2. CASE idx = 0
        <3>0. IsDesc(d, TRUE, FALSE, 8)
            <4>1. d = pipe[p].list[1]
                BY <1>6, <2>2
            <4> QED BY Zenon, <2>1, <4>1 DEF LaidControl
        <3>1. chan[p].in = FALSE /\ chan[p].pid = 0
            BY <1>2, <2>1, <2>2 DEF PlacedControl
        <3>2. StageAt(p) = SetupStage
            BY <3>0, <3>1 DEF StageAt, SetupStage, IsDesc, d
        <3> QED BY <1>3, <1>4, <1>6, <1>8, <2>2, <3>0, <3>1, <3>2 DEF IsDesc, d, u, i
    <2>3. CASE idx = 1
        <3>1. u.num_bytes # 0 /\ chan[p].in = u.setup.in /\ chan[p].pid = 1
            BY <1>2, <2>1, <2>3 DEF PlacedControl
        <3>2. IsDesc(d, FALSE, u.setup.in, u.num_bytes)
            <4>1. d = pipe[p].list[2]
                BY <1>6, <2>3
            <4> QED BY Zenon, <2>1, <3>1, <4>1 DEF LaidControl
        <3>3. StageAt(p) = DataStage(u.setup.in, u.num_bytes)
            BY <3>1, <3>2 DEF StageAt, DataStage, IsDesc, d
        <3> QED BY <1>3, <1>4, <1>6, <1>8, <2>3, <3>1, <3>2, <3>3 DEF IsDesc, d, u, i
    <2>4. CASE idx = 2
        <3>1. chan[p].in = ~(u.setup.in /\ u.num_bytes # 0) /\ chan[p].pid = 1
            BY <1>2, <2>1, <2>4 DEF PlacedControl
        <3>2. IsDesc(d, FALSE, ~(u.setup.in /\ u.num_bytes # 0), 0)
            <4>1. d = pipe[p].list[3]
                BY <1>6, <2>4
            <4> QED BY Zenon, <2>1, <4>1 DEF LaidControl
        <3>3. StageAt(p) = StatusStage(~(u.setup.in /\ u.num_bytes # 0))
            BY <3>1, <3>2 DEF StageAt, StatusStage, DataStage, IsDesc, d
        <3> QED BY <1>3, <1>4, <1>6, <1>8, <2>4, <3>1, <3>2, <3>3 DEF IsDesc, d, u, i
    <2> QED BY <1>2, <2>1, <2>2, <2>3, <2>4 DEF PlacedControl
<1>9. CASE type # "CTRL"
    <2> DEFINE bulkIn == (type = "BULK_IN")
    <2>1. LaidBulk(pipe[p], u, bulkIn) /\ PlacedBulk(pipe[p], chan[p], u, wire[p], bulkIn)
        BY <1>3, <1>9 DEF Busy
    <2>2. idx = 0 /\ IsDesc(d, FALSE, bulkIn, u.num_bytes)
        <3>1. idx = 0
            BY <1>2, <2>1 DEF PlacedBulk
        <3>2. d = pipe[p].list[1]
            BY <1>6, <3>1
        <3> QED BY Zenon, <2>1, <3>1, <3>2 DEF LaidBulk
    <2>3. chan[p].in = bulkIn /\ chan[p].pid = 0
        BY <1>1, <1>9 DEF Runnable
    <2>4. BulkPlan(bulkIn, u.num_bytes) = <<StageAt(p)>>
        BY <2>2, <2>3 DEF BulkPlan, StageAt, IsDesc, d
    <2> QED BY <1>3, <1>4, <1>6, <1>9, <2>2, <2>3, <2>4 DEF IsDesc, d, u, i
<1> QED BY <1>8, <1>9

LEMMA AppendSecond ==
    ASSUME NEW S, NEW a \in S, NEW b \in S
    PROVE  Append(<<a>>, b) = <<a, b>>
<1>1. <<a>> \in Seq(S) /\ Len(<<a>>) = 1 /\ <<a>>[1] = a
    OBVIOUS
<1> DEFINE l == Append(<<a>>, b)
           r == <<a, b>>
<1>2. l \in Seq(S) /\ Len(l) = 2 /\ l[1] = a /\ l[2] = b
    BY <1>1
<1>3. r \in Seq(S) /\ Len(r) = 2 /\ r[1] = a /\ r[2] = b
    OBVIOUS
<1> HIDE DEF l, r
<1>4. \A k \in 1..Len(l) : l[k] = r[k]
    BY <1>2, <1>3
<1>5. l = r
    BY <1>2, <1>3, <1>4, SeqEqual
<1> QED BY <1>5 DEF l, r

LEMMA AppendThird ==
    ASSUME NEW S, NEW a \in S, NEW c \in S, NEW b \in S
    PROVE  Append(<<a, c>>, b) = <<a, c, b>>
<1>1. <<a, c>> \in Seq(S) /\ Len(<<a, c>>) = 2 /\ <<a, c>>[1] = a /\ <<a, c>>[2] = c
    OBVIOUS
<1> DEFINE l == Append(<<a, c>>, b)
           r == <<a, c, b>>
<1>2. l \in Seq(S) /\ Len(l) = 3 /\ l[1] = a /\ l[2] = c /\ l[3] = b
    BY <1>1
<1>3. r \in Seq(S) /\ Len(r) = 3 /\ r[1] = a /\ r[2] = c /\ r[3] = b
    OBVIOUS
<1> HIDE DEF l, r
<1>4. \A k \in 1..Len(l) : l[k] = r[k]
    BY <1>2, <1>3
<1>5. l = r
    BY <1>2, <1>3, <1>4, SeqEqual
<1> QED BY <1>5 DEF l, r

\* Both fields of a record change.
LEMMA BothFields ==
    ASSUME NEW S, NEW T, NEW w \in [stages : S, moved : T], NEW s \in S, NEW m \in T
    PROVE  LET v == [w EXCEPT !.stages = s, !.moved = m]
           IN  v \in [stages : S, moved : T] /\ v.stages = s /\ v.moved = m
    OBVIOUS

\* A channel that stops.
StoppedAt(c, idx, event) == [c EXCEPT !.idx = idx, !.active = FALSE, !.event = event]

LEMMA Stopped ==
    ASSUME NEW c \in ChanRecord, NEW idx \in Nat, NEW event \in ChanEvents
    PROVE  LET s == StoppedAt(c, idx, event)
           IN  /\ s \in ChanRecord /\ s.idx = idx /\ s.event = event /\ s.active = FALSE
               /\ s.slot = c.slot /\ s.in = c.in /\ s.pid = c.pid /\ s.error = c.error
    BY DEF ChanRecord, StoppedAt

LEMMA SeenNext ==
    ASSUME NEW u \in IrpRecord, NEW idx \in 0 .. 2, NEW st,
           \/ idx = 0 /\ st = SetupStage
           \/ idx = 1 /\ u.num_bytes # 0 /\ st = DataStage(u.setup.in, u.num_bytes)
           \/ idx = 2 /\ st = StatusStage(~(u.setup.in /\ u.num_bytes # 0))
    PROVE  Append(Seen(idx, u), st) = Seen(idx + 1, u)
<1>1. u.num_bytes \in Nat /\ u.setup.in \in BOOLEAN
    BY SetupIn
<1> DEFINE T == {SetupStage, DataStage(u.setup.in, u.num_bytes), st}
<1>6. SetupStage \in T /\ DataStage(u.setup.in, u.num_bytes) \in T /\ st \in T
    OBVIOUS
<1> HIDE DEF T
<1>2. CASE idx = 0
    BY <1>2 DEF Seen
<1>3. CASE idx = 1
    <2>1. /\ Seen(idx, u) = <<SetupStage>>
          /\ Seen(idx + 1, u) = <<SetupStage, DataStage(u.setup.in, u.num_bytes)>>
        BY <1>3 DEF Seen
    <2>2. st = DataStage(u.setup.in, u.num_bytes)
        BY <1>3
    <2>3. Append(<<SetupStage>>, st) = <<SetupStage, st>>
        BY <1>6, AppendSecond
    <2> QED BY Zenon, <2>1, <2>2, <2>3
<1>4. CASE idx = 2 /\ u.num_bytes = 0
    <2>1. (~(u.setup.in /\ u.num_bytes # 0)) = TRUE
        BY Zenon, <1>4
    <2>2. st = StatusStage(TRUE)
        <3>1. st = StatusStage(~(u.setup.in /\ u.num_bytes # 0))
            BY <1>4
        <3> QED BY Zenon, <2>1, <3>1
    <2>3. /\ Seen(idx, u) = <<SetupStage>>
          /\ Seen(idx + 1, u) = <<SetupStage, StatusStage(TRUE)>>
        BY <1>4 DEF Seen, ControlPlan
    <2>4. Append(<<SetupStage>>, st) = <<SetupStage, st>>
        BY <1>6, AppendSecond
    <2> QED BY Zenon, <2>2, <2>3, <2>4
<1>5. CASE idx = 2 /\ u.num_bytes # 0
    <2>1. (~(u.setup.in /\ u.num_bytes # 0)) = (~u.setup.in)
        BY Zenon, <1>1, <1>5
    <2>2. st = StatusStage(~u.setup.in)
        <3>1. st = StatusStage(~(u.setup.in /\ u.num_bytes # 0))
            BY <1>5
        <3> QED BY Zenon, <2>1, <3>1
    <2> DEFINE data == DataStage(u.setup.in, u.num_bytes)
    <2>3. /\ Seen(idx, u) = <<SetupStage, data>>
          /\ Seen(idx + 1, u) = <<SetupStage, data, StatusStage(~u.setup.in)>>
        BY <1>5 DEF Seen, ControlPlan
    <2>4. Append(<<SetupStage, data>>, st) = <<SetupStage, data, st>>
        BY <1>6, AppendThird
    <2> HIDE DEF data
    <2> QED BY Zenon, <2>2, <2>3, <2>4
<1> QED BY <1>2, <1>3, <1>4, <1>5

\* The fields after a stage.
LEMMA RunEffect ==
    ASSUME XferInv, NEW p \in Pipes, NEW m \in 0 .. Room(p), ChanRun(p, m)
    PROVE  LET d == Current(p)
               idx == chan[p].idx
               list == pipe[p].list
           IN  /\ Executes(p) /\ irp' = irp /\ conn' = conn
               /\ m \in 0 .. d.len /\ (d.setup => m = 0) /\ d.len - m \in 0 .. d.len
               /\ pipe'[p] \in PipeRecord /\ Len(pipe'[p].list) = Len(list)
               /\ pipe'[p].list[idx + 1] = [d EXCEPT !.rem = d.len - m]
               /\ \A k \in DOMAIN list : k # idx + 1 => pipe'[p].list[k] = list[k]
               /\ pipe'[p].inflight = pipe[p].inflight /\ pipe'[p].pending = pipe[p].pending
               /\ pipe'[p].done = pipe[p].done /\ pipe'[p].state = pipe[p].state
               /\ pipe'[p].ctrl_data_stg_in = pipe[p].ctrl_data_stg_in
               /\ pipe'[p].ctrl_data_stg_skip = pipe[p].ctrl_data_stg_skip
               /\ chan'[p] \in ChanRecord
               /\ chan'[p].idx = idx + 1 /\ ~chan'[p].active
               /\ chan'[p].event = IF idx + 1 = Len(list) THEN "SLOT_DONE" ELSE "SLOT_HALT"
               /\ chan'[p].slot = chan[p].slot /\ chan'[p].in = chan[p].in
               /\ chan'[p].pid = chan[p].pid /\ chan'[p].error = chan[p].error
               /\ wire'[p].stages = Append(wire[p].stages, StageAt(p))
               /\ wire'[p].moved = wire[p].moved + m
               /\ wire'[p] \in [stages : Seq(Stages), moved : Nat]
               /\ XferDescTypeOK'
               /\ \A r \in Pipes \ {p} :
                     pipe'[r] = pipe[r] /\ chan'[r] = chan[r] /\ wire'[r] = wire[r]
<1> USE Types
<1> DEFINE d == Current(p)
           idx == chan[p].idx
           list == pipe[p].list
           c == chan[p]
<1>1. Executes(p) /\ irp' = irp /\ conn' = conn
    BY DEF ChanRun
<1>2. /\ d \in Desc /\ d.halt = TRUE /\ idx + 1 \in DOMAIN list /\ idx \in Nat
      /\ list \in Seq(Desc) /\ c \in ChanRecord /\ c.idx = idx
    BY <1>1, Executing DEF PipeRecord, ChanRecord
<1>3. Room(p) = d.len
    BY <1>1 DEF Room
<1>4. d.len \in Nat /\ m \in 0 .. d.len /\ d.len - m \in 0 .. d.len /\ d.len - m \in Nat
    BY <1>2, <1>3 DEF Desc
<1>5. d.setup => m = 0
    BY DEF ChanRun, Moves
<1> DEFINE d2 == [d EXCEPT !.rem = d.len - m]
           list2 == [list EXCEPT ![idx + 1] = d2]
           event == IF idx + 1 = Len(list) THEN "SLOT_DONE"
                    ELSE IF d.halt THEN "SLOT_HALT" ELSE "NONE"
           c2 == StoppedAt(c, idx + 1, event)
<1>6. list[idx + 1] = d
    BY DEF Current
<1>7. /\ pipe' = [pipe EXCEPT ![p].list[idx + 1].rem = d.len - m]
      /\ chan' = [chan EXCEPT ![p].idx = idx + 1,
                              ![p].active = idx + 1 < Len(list) /\ ~d.halt,
                              ![p].event = event]
      /\ wire' = [wire EXCEPT ![p].stages = Append(@, StageAt(p)), ![p].moved = @ + m]
    BY DEF ChanRun, StageAt
<1>8. pipe' = [pipe EXCEPT ![p] = [pipe[p] EXCEPT !.list = list2]]
    BY <1>6, <1>7
<1>14. event = (IF idx + 1 = Len(list) THEN "SLOT_DONE" ELSE "SLOT_HALT")
       /\ event \in ChanEvents
    BY <1>2 DEF ChanEvents
<1>15. (idx + 1 < Len(list) /\ ~d.halt) = FALSE
    BY <1>2
<1> HIDE DEF event
<1>9. chan' = [chan EXCEPT ![p] = c2]
    BY <1>7, <1>15 DEF StoppedAt
<1> DEFINE stages2 == Append(wire[p].stages, StageAt(p))
           moved2 == wire[p].moved + m
           w2 == [wire[p] EXCEPT !.stages = stages2, !.moved = moved2]
<1>10. wire' = [wire EXCEPT ![p] = w2]
    BY <1>7
<1>11. d2 \in Desc
    BY <1>2, <1>4 DEF Desc
<1>12. /\ list2 \in Seq(Desc) /\ Len(list2) = Len(list) /\ list2[idx + 1] = d2
       /\ \A k \in DOMAIN list : k # idx + 1 => list2[k] = list[k]
    BY <1>2, <1>11
<1>13. StageAt(p) \in Stages
    BY <1>2 DEF StageAt, Stages, Desc, ChanRecord
<1>22. stages2 \in Seq(Stages) /\ moved2 \in Nat
    BY <1>4, <1>13
<1>24. wire[p] \in [stages : Seq(Stages), moved : Nat]
    OBVIOUS
<1> HIDE DEF stages2, moved2
<1>23. /\ w2 \in [stages : Seq(Stages), moved : Nat]
       /\ w2.stages = stages2 /\ w2.moved = moved2
    BY <1>22, <1>24, BothFields
<1>16. /\ c2 \in ChanRecord /\ c2.idx = idx + 1 /\ c2.event = event /\ c2.active = FALSE
       /\ c2.slot = c.slot /\ c2.in = c.in /\ c2.pid = c.pid /\ c2.error = c.error
    <2>1. idx + 1 \in Nat /\ event \in ChanEvents /\ c \in ChanRecord
        BY <1>2, <1>14
    <2> HIDE DEF c, idx
    <2> QED BY <2>1, Stopped
<1> HIDE DEF d, d2, list2, c2, w2
<1>17. /\ pipe'[p] = [pipe[p] EXCEPT !.list = list2] /\ chan'[p] = c2
       /\ wire'[p] = w2
    BY <1>8, <1>9, <1>10
<1>18. /\ pipe'[p] \in PipeRecord /\ pipe'[p].list = list2
       /\ pipe'[p].inflight = pipe[p].inflight /\ pipe'[p].pending = pipe[p].pending
       /\ pipe'[p].done = pipe[p].done /\ pipe'[p].state = pipe[p].state
       /\ pipe'[p].ctrl_data_stg_in = pipe[p].ctrl_data_stg_in
       /\ pipe'[p].ctrl_data_stg_skip = pipe[p].ctrl_data_stg_skip
    <2>1. pipe[p] \in PipeRecord
        OBVIOUS
    <2> QED BY <1>12, <1>17, <2>1 DEF PipeRecord
<1>19. /\ wire'[p] \in [stages : Seq(Stages), moved : Nat]
       /\ wire'[p].stages = stages2 /\ wire'[p].moved = moved2
    BY <1>17, <1>23
<1>20. XferDescTypeOK'
    BY <1>1, <1>8, <1>9, <1>10, <1>16, <1>17, <1>18, <1>19 DEF XferDescTypeOK
<1>21. \A r \in Pipes \ {p} :
          pipe'[r] = pipe[r] /\ chan'[r] = chan[r] /\ wire'[r] = wire[r]
    BY <1>8, <1>9, <1>10
<1> QED
    BY <1>1, <1>4, <1>5, <1>12, <1>14, <1>16, <1>17, <1>18, <1>19, <1>20, <1>21 DEF d, d2, stages2, moved2

\* The bytes that a descriptor has left change.
LEMMA RemKept ==
    ASSUME NEW d \in Desc, NEW r \in 0 .. d.len, NEW setup, NEW in, NEW n,
           IsDesc(d, setup, in, n)
    PROVE  IsDesc([d EXCEPT !.rem = r], setup, in, n)
<1> DEFINE e == [d EXCEPT !.rem = r]
<1>1. /\ e.setup = d.setup /\ e.in = d.in /\ e.null = d.null /\ e.halt = d.halt
      /\ e.len = d.len /\ e.rem = r
    BY DEF Desc
<1> HIDE DEF e
<1>2. e.rem \in 0 .. n
    BY <1>1 DEF IsDesc
<1>3. IsDesc(e, setup, in, n)
    BY Zenon, <1>1, <1>2 DEF IsDesc
<1> QED BY <1>3 DEF e

LEMMA RunKeeps ==
    ASSUME XferInv, NEW p \in Pipes, NEW m \in 0 .. Room(p), ChanRun(p, m)
    PROVE  XferInv'
<1> USE Types
<1> DEFINE i == pipe[p].inflight
           u == irp[i]
           d == Current(p)
           idx == chan[p].idx
           type == EpType[p]
           q == pipe[p]
           q2 == pipe'[p]
           c2 == chan'[p]
           w2 == wire'[p]
           d2 == [d EXCEPT !.rem = d.len - m]
<1>1. /\ Executes(p) /\ irp' = irp
      /\ m \in 0 .. d.len /\ (d.setup => m = 0) /\ d.len - m \in 0 .. d.len
      /\ Len(q2.list) = Len(q.list) /\ q2.list[idx + 1] = d2
      /\ \A k \in DOMAIN q.list : k # idx + 1 => q2.list[k] = q.list[k]
      /\ q2.inflight = q.inflight /\ q2.pending = q.pending
      /\ q2.done = q.done /\ q2.state = q.state
      /\ q2.ctrl_data_stg_in = q.ctrl_data_stg_in
      /\ q2.ctrl_data_stg_skip = q.ctrl_data_stg_skip
      /\ c2.idx = idx + 1 /\ ~c2.active
      /\ c2.event = IF idx + 1 = Len(q.list) THEN "SLOT_DONE" ELSE "SLOT_HALT"
      /\ c2.slot = chan[p].slot /\ c2.in = chan[p].in /\ c2.pid = chan[p].pid
      /\ w2.stages = Append(wire[p].stages, StageAt(p))
      /\ w2.moved = wire[p].moved + m
      /\ XferDescTypeOK'
      /\ \A r \in Pipes \ {p} :
            pipe'[r] = pipe[r] /\ chan'[r] = chan[r] /\ wire'[r] = wire[r]
    BY RunEffect
<1>2. /\ InFlight(p) /\ i \in Irps /\ u \in IrpRecord
      /\ d \in Desc /\ idx + 1 \in DOMAIN q.list
      /\ type = "CTRL" =>
            \/ idx = 0 /\ d.setup = TRUE /\ StageAt(p) = SetupStage
            \/ /\ idx = 1 /\ u.num_bytes # 0 /\ d.setup = FALSE /\ d.len = u.num_bytes
               /\ StageAt(p) = DataStage(u.setup.in, u.num_bytes)
            \/ /\ idx = 2 /\ d.setup = FALSE /\ d.len = 0
               /\ StageAt(p) = StatusStage(~(u.setup.in /\ u.num_bytes # 0))
      /\ type # "CTRL" =>
            /\ idx = 0 /\ d.setup = FALSE /\ d.len = u.num_bytes
            /\ BulkPlan(type = "BULK_IN", u.num_bytes) = <<StageAt(p)>>
    BY <1>1, Executing
<1>3. Owns(p) /\ Agree(p) /\ Runnable(p) /\ Busy(q, chan[p], u, wire[p], type)
    BY <1>2 DEF XferInv, PipeOK, Runnable
<1>4. d.len \in Nat /\ u.num_bytes \in Nat /\ u.setup.in \in BOOLEAN /\ m \in Nat
      /\ idx \in Nat /\ q.list \in Seq(Desc)
    BY <1>1, <1>2, SetupIn DEF Desc, ChanRecord, PipeRecord
<1>5. d2.rem = d.len - m
    BY <1>2 DEF Desc
<1>6. d = q.list[idx + 1]
    BY DEF Current
<1>7. ASSUME NEW k \in DOMAIN q.list, NEW setup, NEW in, NEW n,
             IsDesc(q.list[k], setup, in, n)
      PROVE  IsDesc(q2.list[k], setup, in, n)
    <2>1. CASE k = idx + 1
        <3>1. IsDesc(d2, setup, in, n)
            BY <1>1, <1>2, <1>6, <1>7, <2>1, RemKept
        <3> QED BY <1>1, <2>1, <3>1
    <2>2. CASE k # idx + 1
        BY <1>1, <1>7, <2>2
    <2> QED BY <2>1, <2>2
<1> HIDE DEF d, d2, u, i
<1>8. ASSUME type = "CTRL"
      PROVE  Busy(q2, c2, u, w2, type)
    <2>1. LaidControl(q, u) /\ PlacedControl(q, chan[p], u, wire[p])
        BY <1>3, <1>8 DEF Busy
    <2>2. Len(q.list) = 3 /\ Len(q2.list) = 3 /\ 1 \in DOMAIN q.list /\ 2 \in DOMAIN q.list
          /\ 3 \in DOMAIN q.list /\ q.list[2].rem \in 0 .. u.num_bytes
        BY <1>1, <1>4, <2>1 DEF LaidControl
    <2>3. idx \in 0 .. 2
        BY <1>2, <1>8
    <2>4. /\ idx = 1 => q2.list[2].rem = u.num_bytes - m
          /\ idx # 1 => q2.list[2].rem = q.list[2].rem
        <3>1. CASE idx = 1
            BY <1>1, <1>2, <1>5, <1>8, <3>1
        <3>2. CASE idx # 1
            <4>1. idx + 1 # 2
                BY <1>4, <3>2
            <4>2. q2.list[2] = q.list[2]
                BY <1>1, <2>2, <4>1
            <4> QED BY <3>2, <4>2
        <3> QED BY <3>1, <3>2
    <2>5. q2.list[2].rem \in 0 .. u.num_bytes
        <3>1. idx = 1 => m \in 0 .. u.num_bytes
            BY <1>1, <1>2, <1>8
        <3>2. CASE idx = 1
            <4>1. /\ q2.list[2].rem = u.num_bytes - m
                  /\ m \in 0 .. u.num_bytes /\ u.num_bytes \in Nat
                BY <1>4, <2>4, <3>1, <3>2
            <4> QED BY <4>1
        <3>3. CASE idx # 1
            BY <2>2, <2>4, <3>3
        <3> QED BY <3>2, <3>3
    <2>6. LaidControl(q2, u)
        <3>1. IsDesc(q2.list[1], TRUE, FALSE, 8)
            BY <1>7, <2>1, <2>2 DEF LaidControl
        <3>2. u.num_bytes # 0 => IsDesc(q2.list[2], FALSE, u.setup.in, u.num_bytes)
            BY <1>7, <2>1, <2>2 DEF LaidControl
        <3>3. IsDesc(q2.list[3], FALSE, ~(u.setup.in /\ u.num_bytes # 0), 0)
            <4> DEFINE st == ~(u.setup.in /\ u.num_bytes # 0)
            <4>1. IsDesc(q.list[3], FALSE, st, 0)
                BY <2>1 DEF LaidControl
            <4> HIDE DEF st
            <4>2. IsDesc(q2.list[3], FALSE, st, 0)
                BY <1>7, <2>2, <4>1
            <4> QED BY <4>2 DEF st
        <3> QED BY Zenon, <1>1, <2>1, <2>2, <2>5, <3>1, <3>2, <3>3 DEF LaidControl
    <2>7. w2.stages = Seen(idx + 1, u)
        <3>1. wire[p].stages = Seen(idx, u)
            BY <2>1 DEF PlacedControl
        <3>2. Append(Seen(idx, u), StageAt(p)) = Seen(idx + 1, u)
            BY <1>2, <1>8, <2>3, SeenNext
        <3> QED BY <1>1, <3>1, <3>2
    <2>8. w2.moved = IF c2.idx >= 2 THEN u.num_bytes - q2.list[2].rem ELSE 0
        <3>1. wire[p].moved = IF idx >= 2 THEN u.num_bytes - q.list[2].rem ELSE 0
            BY <2>1 DEF PlacedControl
        <3>2. CASE idx = 0
            BY <1>1, <1>2, <1>8, <3>1, <3>2
        <3>3. CASE idx = 1
            BY <1>1, <1>4, <2>4, <3>1, <3>3
        <3>4. CASE idx = 2
            <4>1. m = 0
                BY <1>1, <1>2, <1>8, <3>4
            <4> QED BY <1>1, <1>4, <2>2, <2>4, <3>1, <3>4, <4>1
        <3> QED BY <2>3, <3>2, <3>3, <3>4
    <2>9. PlacedControl(q2, c2, u, w2)
        <3>1. c2.event = "SLOT_DONE" => c2.idx = 3
            BY <1>1, <2>2
        <3>2. c2.event = "SLOT_HALT" => c2.idx = 1 \/ (c2.idx = 2 /\ u.num_bytes # 0)
            BY <1>1, <1>2, <1>8, <2>2, <2>3
        <3>3. c2.idx \in 0 .. 3 /\ c2.idx = idx + 1
            BY <1>1, <2>3
        <3> QED BY <1>1, <2>7, <2>8, <3>1, <3>2, <3>3 DEF PlacedControl
    <2> QED BY <1>1, <1>3, <1>8, <2>6, <2>9 DEF Busy
<1>9. ASSUME type # "CTRL"
      PROVE  Busy(q2, c2, u, w2, type)
    <2> DEFINE in == (type = "BULK_IN")
    <2>1. LaidBulk(q, u, in) /\ PlacedBulk(q, chan[p], u, wire[p], in)
        BY <1>3, <1>9 DEF Busy
    <2>2. Len(q.list) = 1 /\ 1 \in DOMAIN q.list /\ idx = 0
        BY <1>2, <1>4, <1>9, <2>1 DEF LaidBulk
    <2>3. LaidBulk(q2, u, in)
        <3>1. IsDesc(q.list[1], FALSE, in, u.num_bytes)
            BY <2>1 DEF LaidBulk
        <3> HIDE DEF in
        <3>2. IsDesc(q2.list[1], FALSE, in, u.num_bytes)
            BY <1>7, <2>2, <3>1
        <3> QED BY <1>1, <2>2, <3>2 DEF LaidBulk
    <2>4. w2.stages = BulkPlan(in, u.num_bytes)
        <3>1. wire[p].stages = <<>>
            BY <2>1, <2>2 DEF PlacedBulk
        <3>2. Append(<<>>, StageAt(p)) = <<StageAt(p)>>
            OBVIOUS
        <3> QED BY <1>1, <1>2, <1>9, <3>1, <3>2
    <2>5. w2.moved = u.num_bytes - q2.list[1].rem
        <3>1. wire[p].moved = 0
            BY <2>1, <2>2 DEF PlacedBulk
        <3>2. q2.list[1].rem = u.num_bytes - m
            BY <1>1, <1>2, <1>5, <1>9, <2>2
        <3> QED BY <1>1, <1>4, <3>1, <3>2
    <2>6. c2.idx = 1 /\ c2.event = "SLOT_DONE"
        BY <1>1, <2>2
    <2>7. PlacedBulk(q2, c2, u, w2, in)
        BY <1>1, <2>4, <2>5, <2>6 DEF PlacedBulk
    <2> QED BY <1>1, <1>3, <1>9, <2>3, <2>7 DEF Busy
<1>10. Busy(q2, c2, u, w2, type)
    BY <1>8, <1>9
<1>11. irp'[q2.inflight] = u /\ InFlight(p)'
    BY <1>1, <1>2 DEF InFlight, u, i
<1>12. Runnable(p)'
    <2>1. c2.event # "ERROR"
        BY <1>1
    <2>2. type # "CTRL" => c2.in = (type = "BULK_IN") /\ c2.pid = 0
        BY <1>1, <1>3 DEF Runnable
    <2> QED BY <1>10, <1>11, <2>1, <2>2 DEF Runnable
<1>13. Owns(p)'
    BY <1>1, <1>3 DEF Owns, Owned, InFlight
<1>14. Agree(p)'
    BY <1>1, <1>3 DEF Agree, Agrees, InFlight
<1>15. PipeOK(p)'
    BY <1>12, <1>13, <1>14 DEF PipeOK
<1> QED BY <1>1, <1>15, OnePipe

\* A step that changes nothing but the channel of a pipe.
LEMMA ChannelStep ==
    ASSUME XferInv, NEW p \in Pipes, NEW c \in ChanRecord,
           chan' = [chan EXCEPT ![p] = c],
           pipe' = pipe, irp' = irp, conn' = conn, wire' = wire,
           InFlight(p), Busy(pipe[p], c, irp[pipe[p].inflight], wire[p], EpType[p]),
           EpType[p] # "CTRL" => c.in = (EpType[p] = "BULK_IN") /\ c.pid = 0,
           c.event = "ERROR" => c.error \in ChanErrors
    PROVE  XferInv'
<1> USE Types
<1>1. Owns(p) /\ Agree(p)
    BY DEF XferInv, PipeOK
<1>2. XferDescTypeOK'
    BY DEF XferDescTypeOK
<1>3. chan'[p] = c
    OBVIOUS
<1>4. Runnable(p)'
    BY <1>3 DEF Runnable, InFlight
<1>5. Owns(p)' /\ Agree(p)'
    BY <1>1 DEF Owns, Owned, Agree, Agrees, InFlight
<1>6. PipeOK(p)'
    BY <1>4, <1>5 DEF PipeOK
<1> QED BY <1>2, <1>6, OnePipe

LEMMA FailKeeps ==
    ASSUME XferInv, NEW p \in Pipes, NEW e \in ChanErrors, ChanFail(p, e)
    PROVE  XferInv'
<1> USE Types
<1> DEFINE c == [chan[p] EXCEPT !.active = FALSE, !.event = "ERROR", !.error = e]
           u == irp[pipe[p].inflight]
<1>1. Executes(p) /\ chan' = [chan EXCEPT ![p] = c] /\ pipe' = pipe /\ irp' = irp
      /\ conn' = conn /\ wire' = wire
    BY DEF ChanFail
<1>2. InFlight(p)
    BY <1>1, Executing
<1>3. Runnable(p)
    BY DEF XferInv, PipeOK
<1>4. Busy(pipe[p], chan[p], u, wire[p], EpType[p])
    BY <1>2, <1>3 DEF Runnable
<1>5. chan[p] \in ChanRecord
    OBVIOUS
<1>6. /\ c \in ChanRecord /\ c.idx = chan[p].idx /\ c.event = "ERROR" /\ c.error = e
      /\ c.active = FALSE /\ c.slot = chan[p].slot /\ c.in = chan[p].in
      /\ c.pid = chan[p].pid
    BY <1>5 DEF ChanRecord, ChanEvents
<1> HIDE DEF c, u
<1>7. Busy(pipe[p], c, u, wire[p], EpType[p])
    BY <1>4, <1>6 DEF Busy, PlacedControl, PlacedBulk
<1>8. EpType[p] # "CTRL" => c.in = (EpType[p] = "BULK_IN") /\ c.pid = 0
    BY <1>3, <1>6 DEF Runnable
<1> QED BY <1>1, <1>2, <1>6, <1>7, <1>8, ChannelStep DEF u

-----------------------------------------------------------------------------
(* _intr_hdlr_chan *)

\* The interrupt of a channel finds an IRP in flight.
LEMMA Interrupted ==
    ASSUME XferInv, NEW p \in Pipes, chan[p].event # "NONE"
    PROVE  /\ InFlight(p) /\ pipe[p].inflight \in Irps /\ irp[pipe[p].inflight] \in IrpRecord
           /\ Owned(pipe[p].inflight, p, "INFLIGHT")
           /\ Busy(pipe[p], chan[p], irp[pipe[p].inflight], wire[p], EpType[p])
<1> USE Types
<1>1. Owns(p) /\ Runnable(p)
    BY DEF XferInv, PipeOK
<1>2. InFlight(p)
    BY <1>1 DEF Runnable, Resting
<1> QED BY <1>1, <1>2 DEF Owns, Owned, Runnable

\* A channel that goes on.
ContinuedAt(c, in, idx) ==
    [c EXCEPT !.in = in, !.pid = 1, !.idx = idx, !.active = TRUE, !.event = "NONE"]

LEMMA IntrHaltKeeps ==
    ASSUME XferInv, NEW p \in Pipes, IntrHalt(p)
    PROVE  XferInv'
<1> USE Types
<1> DEFINE q == pipe[p]
           k == chan[p]
           c == Continued(k, q)
           u == irp[q.inflight]
           w == wire[p]
<1>1. k.event = "SLOT_HALT" /\ chan' = [chan EXCEPT ![p] = c] /\ pipe' = pipe
      /\ irp' = irp /\ conn' = conn /\ wire' = wire
    BY DEF IntrHalt
<1>2. InFlight(p) /\ u \in IrpRecord /\ Busy(q, k, u, w, EpType[p])
    BY <1>1, Interrupted
<1>3. EpType[p] = "CTRL" /\ LaidControl(q, u) /\ PlacedControl(q, k, u, w)
    BY <1>1, <1>2 DEF Busy, PlacedBulk
<1>4. u.num_bytes \in Nat /\ u.setup.in \in BOOLEAN
    BY <1>2, SetupIn
<1>5. k \in ChanRecord /\ q \in PipeRecord
    OBVIOUS
<1>6. q.ctrl_data_stg_in = u.setup.in /\ (q.ctrl_data_stg_skip <=> u.num_bytes = 0)
      /\ q.ctrl_data_stg_in \in BOOLEAN
    BY <1>3, <1>4 DEF LaidControl
<1>7. k.idx = 1 \/ (k.idx = 2 /\ u.num_bytes # 0)
    BY <1>1, <1>3 DEF PlacedControl
<1> DEFINE skips == k.idx = 1 /\ u.num_bytes = 0
           in2 == IF skips THEN TRUE ELSE IF k.idx = 1 THEN u.setup.in ELSE ~u.setup.in
           idx2 == IF skips THEN k.idx + 1 ELSE k.idx
<1>8. c = ContinuedAt(k, in2, idx2)
    BY <1>6 DEF Continued, ContinuedAt
<1>9. /\ in2 \in BOOLEAN /\ idx2 \in {1, 2}
      /\ idx2 = 1 => k.idx = 1 /\ u.num_bytes # 0 /\ in2 = u.setup.in
      /\ idx2 = 2 => in2 = ~(u.setup.in /\ u.num_bytes # 0)
      /\ idx2 # k.idx => u.num_bytes = 0 /\ k.idx = 1 /\ idx2 = 2
    <2>1. CASE skips
        <3>1. k.idx = 1 /\ idx2 = 2 /\ u.num_bytes = 0
            BY <2>1
        <3>2. in2 = TRUE
            BY Zenon, <2>1
        <3>3. (~(u.setup.in /\ u.num_bytes # 0)) = TRUE
            BY Zenon, <3>1
        <3> HIDE DEF idx2, in2
        <3>4. in2 = ~(u.setup.in /\ u.num_bytes # 0)
            BY Zenon, <3>2, <3>3
        <3>5. in2 \in BOOLEAN /\ idx2 \in {1, 2} /\ idx2 # 1
            BY <3>1, <3>2
        <3> QED BY Zenon, <3>1, <3>4, <3>5
    <2>2. CASE k.idx = 1 /\ u.num_bytes # 0
        <3>1. idx2 = 1
            BY <2>2
        <3>2. in2 = u.setup.in
            BY Zenon, <2>2
        <3> HIDE DEF idx2, in2
        <3> QED BY <1>4, <2>2, <3>1, <3>2
    <2>3. CASE k.idx = 2 /\ u.num_bytes # 0
        <3>1. idx2 = 2 /\ k.idx # 1
            BY <2>3
        <3>2. in2 = ~u.setup.in
            BY Zenon, <2>3, <3>1
        <3>3. (~(u.setup.in /\ u.num_bytes # 0)) = ~u.setup.in
            BY Zenon, <1>4, <2>3
        <3> HIDE DEF idx2, in2
        <3> QED BY <1>4, <2>3, <3>1, <3>2, <3>3
    <2> QED BY <1>7, <2>1, <2>2, <2>3
<1> HIDE DEF in2, idx2
<1>10. /\ c \in ChanRecord /\ c.idx = idx2 /\ c.event = "NONE" /\ c.active = TRUE
       /\ c.slot = k.slot /\ c.in = in2 /\ c.pid = 1
    <2>1. idx2 \in Nat /\ in2 \in BOOLEAN /\ k \in ChanRecord
        BY <1>5, <1>9
    <2> HIDE DEF c, k
    <2> QED BY <1>8, <2>1 DEF ContinuedAt, ChanRecord, ChanEvents
<1>11. Seen(idx2, u) = Seen(k.idx, u)
    BY <1>9 DEF Seen
<1>12. w.moved = IF idx2 >= 2 THEN u.num_bytes - q.list[2].rem ELSE 0
    <2>1. w.moved = IF k.idx >= 2 THEN u.num_bytes - q.list[2].rem ELSE 0
        BY <1>3 DEF PlacedControl
    <2>2. q.list[2].rem \in 0 .. u.num_bytes
        BY <1>3 DEF LaidControl
    <2> QED BY <1>4, <1>7, <1>9, <2>1, <2>2
<1> HIDE DEF c, u, q, k, w
<1>13. PlacedControl(q, c, u, w)
    BY <1>3, <1>9, <1>10, <1>11, <1>12 DEF PlacedControl
<1>14. Busy(q, c, u, w, EpType[p])
    BY <1>2, <1>3, <1>10, <1>13 DEF Busy
<1> QED BY <1>1, <1>2, <1>3, <1>10, <1>14, ChannelStep DEF u, q, k, w

LEMMA IntrIgnoredKeeps ==
    ASSUME XferInv, NEW p \in Pipes, IntrIgnored(p)
    PROVE  XferInv'
<1> USE Types
<1> DEFINE c == [chan[p] EXCEPT !.event = "NONE", !.active = FALSE]
           u == irp[pipe[p].inflight]
<1>1. chan[p].event # "NONE" /\ chan' = [chan EXCEPT ![p] = c] /\ pipe' = pipe
      /\ irp' = irp /\ conn' = conn /\ wire' = wire
    BY DEF IntrIgnored
<1>2. InFlight(p) /\ Busy(pipe[p], chan[p], u, wire[p], EpType[p])
    BY <1>1, Interrupted
<1>3. chan[p] \in ChanRecord
    OBVIOUS
<1>4. /\ c \in ChanRecord /\ c.idx = chan[p].idx /\ c.event = "NONE" /\ c.active = FALSE
      /\ c.slot = chan[p].slot /\ c.in = chan[p].in /\ c.pid = chan[p].pid
    BY <1>3 DEF ChanRecord, ChanEvents
<1> HIDE DEF c, u
<1>5. Busy(pipe[p], c, u, wire[p], EpType[p])
    BY <1>2, <1>4 DEF Busy, PlacedControl, PlacedBulk
<1>6. EpType[p] # "CTRL" => c.in = (EpType[p] = "BULK_IN") /\ c.pid = 0
    BY <1>4 DEF XferInv, PipeOK, Runnable
<1> QED BY <1>1, <1>2, <1>4, <1>5, <1>6, ChannelStep DEF u

-----------------------------------------------------------------------------
(* What the end of a transfer leaves behind *)

Marked(p, flag) == {j \in Irps : irp[j].flag = flag /\ irp[j].ptr = p}
Waiting(p) == {j \in Marked(p, "PENDING") : irp[j].actual = 0 /\ Agrees(irp[j], EpType[p])}

LEMMA InSeq ==
    ASSUME NEW S, NEW T, NEW s \in Seq(S), \A k \in DOMAIN s : s[k] \in T
    PROVE  s \in Seq(T)
    OBVIOUS

\* The queues of a pipe that owns its IRPs ...
LEMMA QueuesOf ==
    ASSUME XferInv, NEW p \in Pipes
    PROVE  /\ pipe[p].pending \in Seq(Irps) /\ pipe[p].pending \in Seq(Waiting(p))
           /\ pipe[p].done \in Seq(Irps) /\ pipe[p].done \in Seq(Marked(p, "DONE"))
           /\ Distinct(pipe[p].pending) /\ Distinct(pipe[p].done)
           /\ InFlight(p) => /\ pipe[p].inflight \in Marked(p, "INFLIGHT")
                             /\ Agrees(irp[pipe[p].inflight], EpType[p])
<1> USE Types
<1>1. Owns(p) /\ Agree(p)
    BY DEF XferInv, PipeOK
<1>2. pipe[p].pending \in Seq(Irps) /\ pipe[p].done \in Seq(Irps)
    BY DEF PipeRecord
<1>3. \A k \in DOMAIN pipe[p].pending : pipe[p].pending[k] \in Waiting(p)
    BY <1>1 DEF Owns, Owned, Agree, Waiting, Marked
<1>4. \A k \in DOMAIN pipe[p].done : pipe[p].done[k] \in Marked(p, "DONE")
    BY <1>1 DEF Owns, Owned, Marked
<1>5. InFlight(p) => pipe[p].inflight \in Marked(p, "INFLIGHT")
    BY <1>1 DEF Owns, Owned, Marked
<1>6. pipe[p].pending \in Seq(Waiting(p))
    BY <1>2, <1>3, InSeq
<1>7. pipe[p].done \in Seq(Marked(p, "DONE"))
    BY <1>2, <1>4, InSeq
<1> QED BY <1>1, <1>2, <1>5, <1>6, <1>7 DEF Owns, Agree

\* ... and those of one that owns them after a step.
LEMMA QueuesOwned ==
    ASSUME NEW p \in Pipes,
           pipe'[p].pending \in Seq(Waiting(p)'), pipe'[p].done \in Seq(Marked(p, "DONE")'),
           Distinct(pipe'[p].pending), Distinct(pipe'[p].done),
           pipe'[p].inflight # NoIrp =>
              /\ pipe'[p].inflight \in Marked(p, "INFLIGHT")'
              /\ Agrees(irp'[pipe'[p].inflight], EpType[p])
    PROVE  Owns(p)' /\ Agree(p)'
<1>1. \A k \in DOMAIN pipe'[p].pending : pipe'[p].pending[k] \in Waiting(p)'
    OBVIOUS
<1>2. \A k \in DOMAIN pipe'[p].done : pipe'[p].done[k] \in Marked(p, "DONE")'
    OBVIOUS
<1>3. Owns(p)'
    BY <1>1, <1>2 DEF Owns, Owned, Waiting, Marked, InFlight, Distinct
<1>4. Agree(p)'
    BY <1>1 DEF Agree, Agrees, Waiting, InFlight
<1> QED BY <1>3, <1>4

\* A pipe whose transfer was ended by force is at rest.
LEMMA EndedRests ==
    ASSUME XferInv, NEW p \in Pipes, NEW q \in PipeRecord,
           q.inflight = NoIrp, q.list = <<>>,
           pipe' = [pipe EXCEPT ![p] = q],
           chan' = [chan EXCEPT ![p] = Released(@)],
           wire' = [wire EXCEPT ![p] = Quiet]
    PROVE  /\ Runnable(p)' /\ pipe'[p] = q /\ wire'[p] = Quiet
           /\ pipe' \in [Pipes -> PipeRecord]
           /\ chan' \in [Pipes -> ChanRecord]
           /\ wire' \in [Pipes -> [stages : Seq(Stages), moved : Nat]]
           /\ \A r \in Pipes \ {p} :
                 pipe'[r] = pipe[r] /\ chan'[r] = chan[r] /\ wire'[r] = wire[r]
<1> USE Types
<1> DEFINE c == Released(chan[p])
<1>1. chan[p] \in ChanRecord
    OBVIOUS
<1>2. /\ c \in ChanRecord /\ c.slot = FALSE /\ c.active = FALSE /\ c.event = "NONE"
      /\ c.in = chan[p].in /\ c.pid = chan[p].pid
    BY <1>1 DEF Released, ChanRecord, ChanEvents
<1>3. chan'[p] = c /\ pipe'[p] = q /\ wire'[p] = Quiet
    OBVIOUS
<1> HIDE DEF c
<1>4. Runnable(p)
    BY DEF XferInv, PipeOK
<1>5. Runnable(p)'
    BY <1>2, <1>3, <1>4 DEF Runnable, Resting, InFlight
<1> QED BY <1>2, <1>3, <1>5, QuietType DEF c

\* _xfer_desc_list_parse leaves no more bytes than there were.
LEMMA RemainingIn ==
    ASSUME NEW q \in PipeRecord, NEW c, NEW u \in IrpRecord, NEW w, NEW type \in EpTypes,
           Busy(q, c, u, w, type)
    PROVE  Remaining(q, type) \in 0 .. u.num_bytes
<1>1. u.num_bytes \in Nat
    BY SetupIn
<1>2. CASE type = "CTRL"
    <2>1. q.list[2].rem \in 0 .. u.num_bytes
        BY <1>2 DEF Busy, LaidControl
    <2> QED BY <1>1, <1>2, <2>1 DEF Remaining
<1>3. CASE type # "CTRL"
    BY <1>1, <1>3 DEF Busy, LaidBulk, IsDesc, Remaining
<1> QED BY <1>2, <1>3

LEMMA ParsedType ==
    ASSUME NEW u \in IrpRecord, NEW rem \in 0 .. u.num_bytes, NEW status \in Statuses
    PROVE  LET v == Parsed(u, status, rem)
           IN  /\ v \in IrpRecord /\ v.flag = "DONE" /\ v.ptr = u.ptr
               /\ v.status = status /\ v.actual = u.num_bytes - rem
<1>1. u.num_bytes \in Nat /\ u.num_bytes - rem \in Nat
    BY SetupIn
<1> QED BY <1>1 DEF Parsed, IrpRecord

\* _pipe_return_cur_irp puts the IRP in flight behind those that are done.
LEMMA ReturnDone ==
    ASSUME XferInv, NEW p \in Pipes, InFlight(p),
           irp'[pipe[p].inflight].flag = "DONE", irp'[pipe[p].inflight].ptr = p,
           \A j \in Marked(p, "DONE") : irp'[j] = irp[j]
    PROVE  LET d == Append(pipe[p].done, pipe[p].inflight)
           IN  /\ d \in Seq(Irps) /\ d \in Seq(Marked(p, "DONE")') /\ Distinct(d)
               /\ d \in Seq(Marked(p, "DONE") \cup {pipe[p].inflight})
<1> DEFINE i == pipe[p].inflight
           d == pipe[p].done
           M == Marked(p, "DONE")
           M2 == Marked(p, "DONE")'
<1>1. d \in Seq(Irps) /\ d \in Seq(M) /\ Distinct(d) /\ i \in Marked(p, "INFLIGHT")
    BY QueuesOf
<1>2. i \in Irps /\ i \notin M /\ i \in M2 /\ M \subseteq M2
    BY <1>1 DEF Marked
<1> HIDE DEF i, d, M, M2
<1>3. \A k \in DOMAIN d : d[k] # i
    BY <1>1, <1>2
<1>4. Distinct(Append(d, i)) /\ Append(d, i) \in Seq(Irps)
    BY <1>1, <1>2, <1>3, DistinctAppend
<1>5. d \in Seq(M2)
    BY <1>1, <1>2
<1>6. Append(d, i) \in Seq(M2) /\ Append(d, i) \in Seq(M \cup {i})
    <2>1. d \in Seq(M \cup {i})
        BY <1>1
    <2> QED BY <1>2, <1>5, <2>1
<1> QED BY <1>4, <1>6 DEF i, d, M, M2

LEMMA ReturnedFields ==
    ASSUME NEW q \in PipeRecord, q.inflight \in Irps
    PROVE  LET r == Returned(q)
           IN  /\ r \in PipeRecord /\ r.inflight = NoIrp /\ r.list = <<>>
               /\ r.done = Append(q.done, q.inflight) /\ r.pending = q.pending
               /\ r.state = q.state
<1> DEFINE d == Append(q.done, q.inflight)
           r == [q EXCEPT !.inflight = NoIrp, !.done = d, !.list = <<>>]
<1>1. d \in Seq(Irps) /\ <<>> \in Seq(Desc)
    BY DEF PipeRecord
<1>2. Returned(q) = r
    BY DEF Returned
<1> HIDE DEF d
<1>3. /\ r \in PipeRecord /\ r.inflight = NoIrp /\ r.list = <<>>
      /\ r.done = d /\ r.pending = q.pending /\ r.state = q.state
    BY <1>1 DEF PipeRecord
<1> QED BY <1>2, <1>3 DEF d

LEMMA IntrErrorKeeps ==
    ASSUME XferInv, NEW p \in Pipes, IntrError(p)
    PROVE  LET i == pipe[p].inflight
           IN  /\ XferInv' /\ InFlight(p) /\ i \in Marked(p, "INFLIGHT")
               /\ pipe'[p].inflight = NoIrp /\ wire'[p] = Quiet
               /\ irp'[i].status # "COMPLETED" /\ irp'[i].actual = 0
               /\ \A j \in Irps : j # i => irp'[j] = irp[j]
<1> USE Types
<1> DEFINE i == pipe[p].inflight
           u == irp[i]
           status == ErrorStatus(ErrorEvent(chan[p].error))
           v == ParsedError(u, status)
           h == [pipe[p] EXCEPT !.state = "HALTED"]
           q == Returned(h)
<1>1. /\ chan[p].event = "ERROR"
      /\ pipe' = [pipe EXCEPT ![p] = q] /\ irp' = [irp EXCEPT ![i] = v]
      /\ chan' = [chan EXCEPT ![p] = Released(@)] /\ wire' = [wire EXCEPT ![p] = Quiet]
      /\ conn' = conn
    BY DEF IntrError
<1>2. InFlight(p) /\ i \in Irps /\ u \in IrpRecord /\ i \in Marked(p, "INFLIGHT")
      /\ Runnable(p)
    BY <1>1, Interrupted, QueuesOf DEF XferInv, PipeOK
<1>3. status \in Statuses /\ status # "COMPLETED"
    <2>1. chan[p].error \in {"XCS_XACT", "PKT_BBL", "STALL"}
        BY <1>1, <1>2, XferDescAssumption DEF Runnable
    <2> QED BY <2>1 DEF ErrorStatus, ErrorEvent, Statuses
<1> HIDE DEF status
<1>4. v \in IrpRecord /\ v.flag = "DONE" /\ v.ptr = p
      /\ v.status = status /\ v.actual = 0
    <2>1. u.num_bytes \in 0 .. u.num_bytes /\ u.ptr = p /\ u.num_bytes - u.num_bytes = 0
        BY <1>2, SetupIn DEF Marked
    <2>2. v = Parsed(u, status, u.num_bytes)
        BY DEF ParsedError
    <2> HIDE DEF u, v
    <2> QED BY <1>2, <1>3, <2>1, <2>2, ParsedType
<1>5. h \in PipeRecord /\ h.inflight = i /\ h.done = pipe[p].done
      /\ h.pending = pipe[p].pending
    BY DEF PipeRecord
<1> HIDE DEF h
<1>6. q \in PipeRecord /\ q.inflight = NoIrp /\ q.list = <<>>
      /\ q.done = Append(pipe[p].done, i) /\ q.pending = pipe[p].pending
    BY <1>2, <1>5, ReturnedFields
<1> HIDE DEF q, v
<1>7. irp'[i] = v /\ irp' \in [Irps -> IrpRecord] /\ \A j \in Irps : j # i => irp'[j] = irp[j]
    BY <1>1, <1>2, <1>4
<1>8. /\ Runnable(p)' /\ pipe'[p] = q
      /\ pipe' \in [Pipes -> PipeRecord] /\ chan' \in [Pipes -> ChanRecord]
      /\ wire' \in [Pipes -> [stages : Seq(Stages), moved : Nat]]
      /\ \A r \in Pipes \ {p} :
            pipe'[r] = pipe[r] /\ chan'[r] = chan[r] /\ wire'[r] = wire[r]
    BY <1>1, <1>6, EndedRests
<1>9. XferDescTypeOK'
    BY <1>1, <1>7, <1>8 DEF XferDescTypeOK
<1>10. pipe'[p].done \in Seq(Marked(p, "DONE")') /\ Distinct(pipe'[p].done)
    <2>1. \A j \in Marked(p, "DONE") : irp'[j] = irp[j]
        BY <1>2, <1>7 DEF Marked
    <2> QED BY <1>2, <1>4, <1>6, <1>7, <1>8, <2>1, ReturnDone
<1>11. pipe'[p].pending \in Seq(Waiting(p)') /\ Distinct(pipe'[p].pending)
    <2>1. Waiting(p) \subseteq Waiting(p)'
        BY <1>2, <1>7 DEF Waiting, Marked, Agrees
    <2>2. pipe[p].pending \in Seq(Waiting(p)) /\ Distinct(pipe[p].pending)
        BY QueuesOf
    <2> QED BY <1>6, <1>8, <2>1, <2>2
<1>12. Owns(p)' /\ Agree(p)'
    BY <1>6, <1>8, <1>10, <1>11, QueuesOwned
<1>13. PipeOK(p)'
    BY <1>8, <1>12 DEF PipeOK
<1>14. \A j \in Irps : irp[j].flag = "IDLE" \/ irp[j].ptr = p \/ irp'[j] = irp[j]
    BY <1>2, <1>7 DEF Marked
<1>15. XferInv'
    BY <1>8, <1>9, <1>13, <1>14, OnePipe
<1>16. pipe'[p].inflight = NoIrp /\ wire'[p] = Quiet
    BY <1>1, <1>6, <1>8, Types
<1> QED BY <1>2, <1>3, <1>4, <1>7, <1>15, <1>16

\* The result that _xfer_desc_list_parse gives a completed IRP.
Completed(p) ==
    Parsed(irp[pipe[p].inflight], "COMPLETED", Remaining(pipe[p], EpType[p]))

LEMMA CompletedType ==
    ASSUME XferInv, NEW p \in Pipes, chan[p].event # "NONE"
    PROVE  /\ Completed(p) \in IrpRecord
           /\ Completed(p).flag = "DONE" /\ Completed(p).ptr = p
           /\ Completed(p).status = "COMPLETED"
           /\ Completed(p).actual =
                 irp[pipe[p].inflight].num_bytes - Remaining(pipe[p], EpType[p])
<1> USE Types
<1> DEFINE u == irp[pipe[p].inflight]
           rem == Remaining(pipe[p], EpType[p])
<1>1. u \in IrpRecord /\ u.ptr = p /\ Busy(pipe[p], chan[p], u, wire[p], EpType[p])
    BY Interrupted DEF Owned
<1>2. pipe[p] \in PipeRecord /\ EpType[p] \in EpTypes /\ "COMPLETED" \in Statuses
    BY EpTypeIn DEF Statuses
<1>3. rem \in 0 .. u.num_bytes
    BY <1>1, <1>2, RemainingIn
<1>4. Completed(p) = Parsed(u, "COMPLETED", rem)
    BY DEF Completed
<1> HIDE DEF u, rem
<1>5. /\ Completed(p) \in IrpRecord
      /\ Completed(p).flag = "DONE" /\ Completed(p).ptr = u.ptr
      /\ Completed(p).status = "COMPLETED" /\ Completed(p).actual = u.num_bytes - rem
    BY <1>1, <1>2, <1>3, <1>4, ParsedType
<1> QED BY <1>1, <1>5 DEF u, rem

\* The transfer is over, and no IRP is pending.
LEMMA IntrDoneLast ==
    ASSUME XferInv, NEW p \in Pipes, IntrDone(p), pipe[p].pending = <<>>
    PROVE  XferInv' /\ irp' = [irp EXCEPT ![pipe[p].inflight] = Completed(p)]
           /\ ~InFlight(p)'
<1> USE Types
<1> DEFINE i == pipe[p].inflight
           q == Returned(pipe[p])
           v == Completed(p)
<1>1. chan[p].event = "SLOT_DONE"
    BY DEF IntrDone
<1>2. InFlight(p) /\ i \in Irps /\ i \in Marked(p, "INFLIGHT")
    BY <1>1, Interrupted, QueuesOf
<1>3. pipe[p] \in PipeRecord
    OBVIOUS
<1>4. q \in PipeRecord /\ q.inflight = NoIrp /\ q.list = <<>>
      /\ q.done = Append(pipe[p].done, i) /\ q.pending = pipe[p].pending
    BY <1>2, <1>3, ReturnedFields
<1>5. /\ pipe' = [pipe EXCEPT ![p] = q] /\ irp' = [irp EXCEPT ![i] = v]
      /\ chan' = [chan EXCEPT ![p] = Released(@)] /\ wire' = [wire EXCEPT ![p] = Quiet]
      /\ conn' = conn
    BY <1>4 DEF IntrDone, Completed
<1>6. v \in IrpRecord /\ v.flag = "DONE" /\ v.ptr = p
    BY <1>1, CompletedType
<1> HIDE DEF q, v
<1>7. irp'[i] = v /\ irp' \in [Irps -> IrpRecord] /\ \A j \in Irps : j # i => irp'[j] = irp[j]
    BY <1>2, <1>5, <1>6
<1>8. /\ Runnable(p)' /\ pipe'[p] = q
      /\ pipe' \in [Pipes -> PipeRecord] /\ chan' \in [Pipes -> ChanRecord]
      /\ wire' \in [Pipes -> [stages : Seq(Stages), moved : Nat]]
      /\ \A r \in Pipes \ {p} :
            pipe'[r] = pipe[r] /\ chan'[r] = chan[r] /\ wire'[r] = wire[r]
    BY <1>4, <1>5, EndedRests
<1>9. XferDescTypeOK'
    BY <1>5, <1>7, <1>8 DEF XferDescTypeOK
<1>10. pipe'[p].done \in Seq(Marked(p, "DONE")') /\ Distinct(pipe'[p].done)
    <2>1. \A j \in Marked(p, "DONE") : irp'[j] = irp[j]
        BY <1>2, <1>7 DEF Marked
    <2> QED BY <1>2, <1>4, <1>6, <1>7, <1>8, <2>1, ReturnDone
<1>11. pipe'[p].pending = <<>> /\ pipe'[p].pending \in Seq(Waiting(p)')
       /\ Distinct(pipe'[p].pending)
    <2>1. pipe'[p].pending = <<>>
        BY <1>4, <1>8
    <2>2. <<>> \in Seq(Waiting(p)') /\ Distinct(<<>>)
        BY DEF Distinct
    <2> QED BY <2>1, <2>2
<1>12. Owns(p)' /\ Agree(p)'
    BY <1>4, <1>8, <1>10, <1>11, QueuesOwned
<1>13. PipeOK(p)'
    BY <1>8, <1>12 DEF PipeOK
<1>14. \A j \in Irps : irp[j].flag = "IDLE" \/ irp[j].ptr = p \/ irp'[j] = irp[j]
    BY <1>2, <1>7 DEF Marked
<1>15. XferInv'
    BY <1>8, <1>9, <1>13, <1>14, OnePipe
<1> QED BY <1>4, <1>5, <1>8, <1>15 DEF InFlight, v

\* The transfer is over, and the first pending IRP is started.
LEMMA IntrDoneNext ==
    ASSUME XferInv, NEW p \in Pipes, IntrDone(p), pipe[p].pending # <<>>
    PROVE  LET i == pipe[p].inflight
               h == Head(pipe[p].pending)
           IN  /\ XferInv' /\ i \in Irps /\ h \in Irps /\ i # h
               /\ irp' = [irp EXCEPT ![i] = Completed(p), ![h].flag = "INFLIGHT"]
               /\ irp[h].flag = "PENDING"
               /\ pipe'[p].inflight = h /\ wire'[p] = Quiet
<1> USE Types
<1> DEFINE i == pipe[p].inflight
           pend == pipe[p].pending
           h == Head(pend)
           r == Returned(pipe[p])
           q == TookNext(r)
           v == Completed(p)
           u == [irp[h] EXCEPT !.flag = "INFLIGHT"]
<1>1. chan[p].event = "SLOT_DONE"
    BY DEF IntrDone
<1>2. InFlight(p) /\ i \in Irps /\ i \in Marked(p, "INFLIGHT")
      /\ Busy(pipe[p], chan[p], irp[i], wire[p], EpType[p])
    BY <1>1, Interrupted, QueuesOf
<1>3. pipe[p] \in PipeRecord /\ pipe[p].state = "ACTIVE"
    BY <1>2 DEF Busy
<1>4. r \in PipeRecord /\ r.inflight = NoIrp /\ r.list = <<>>
      /\ r.done = Append(pipe[p].done, i) /\ r.pending = pend
      /\ r.state = pipe[p].state
    BY <1>2, <1>3, ReturnedFields
<1>5. /\ h \in Irps /\ Tail(pend) \in Seq(Irps) /\ Distinct(Tail(pend))
      /\ \A k \in DOMAIN Tail(pend) : Tail(pend)[k] # h
      /\ \A k \in DOMAIN Tail(pend) : k + 1 \in DOMAIN pend /\ Tail(pend)[k] = pend[k + 1]
      /\ pend \in Seq(Waiting(p)) /\ h \in Waiting(p)
    <2>1. pend \in Seq(Irps) /\ pend \in Seq(Waiting(p)) /\ Distinct(pend)
        BY QueuesOf
    <2>2. /\ h \in Irps /\ Tail(pend) \in Seq(Irps) /\ Distinct(Tail(pend))
          /\ \A k \in DOMAIN Tail(pend) : Tail(pend)[k] # h
          /\ \A k \in DOMAIN Tail(pend) : k + 1 \in DOMAIN pend /\ Tail(pend)[k] = pend[k + 1]
        BY <2>1, DistinctTail
    <2>3. h \in Waiting(p)
        BY <2>1, DistinctTail
    <2> QED BY <2>1, <2>2, <2>3
<1>6. h # i /\ irp[h].flag = "PENDING" /\ irp[h].ptr = p /\ Agrees(irp[h], EpType[p])
    BY <1>2, <1>5 DEF Waiting, Marked
<1> HIDE DEF h, r, v
<1>7. v \in IrpRecord /\ v.flag = "DONE" /\ v.ptr = p
    BY <1>1, CompletedType DEF v
<1>8. /\ irp' = [[irp EXCEPT ![i] = v] EXCEPT ![h].flag = "INFLIGHT"]
      /\ Start(p, q, irp'[h]) /\ conn' = conn
    BY <1>4 DEF IntrDone, Completed, h, r, v
<1>9. u \in IrpRecord /\ u.flag = "INFLIGHT" /\ u.ptr = p
      /\ u.setup = irp[h].setup /\ u.num_bytes = irp[h].num_bytes
    <2>1. irp[h] \in IrpRecord
        BY <1>5
    <2> QED BY <1>6, <2>1 DEF IrpRecord
<1>10. /\ irp'[i] = v /\ irp'[h] = u
       /\ \A j \in Irps : j # i /\ j # h => irp'[j] = irp[j]
       /\ irp' = [irp EXCEPT ![i] = v, ![h] = u]
       /\ irp' = [irp EXCEPT ![i] = v, ![h].flag = "INFLIGHT"]
    BY <1>2, <1>5, <1>6, <1>8
<1>11. irp' \in [Irps -> IrpRecord]
    <2> HIDE DEF u
    <2> QED BY <1>2, <1>5, <1>7, <1>9, <1>10
<1>12. q \in PipeRecord /\ q.inflight = h /\ q.pending = Tail(pend) /\ q.done = r.done
       /\ q.state = pipe[p].state
    BY <1>4, <1>5 DEF TookNext, PipeRecord, h
<1> HIDE DEF q, u
<1>13. /\ Runnable(p)'
       /\ pipe' \in [Pipes -> PipeRecord] /\ chan' \in [Pipes -> ChanRecord]
       /\ wire' \in [Pipes -> [stages : Seq(Stages), moved : Nat]]
       /\ pipe'[p].inflight = h /\ pipe'[p].pending = Tail(pend)
       /\ pipe'[p].done = r.done /\ wire'[p] = Quiet
       /\ \A s \in Pipes \ {p} :
             pipe'[s] = pipe[s] /\ chan'[s] = chan[s] /\ wire'[s] = wire[s]
    <2>1. h # NoIrp
        BY <1>5, XferDescAssumption
    <2>2. Start(p, q, u) /\ irp'[q.inflight] = u /\ q.inflight # NoIrp
          /\ q.state = "ACTIVE"
        BY <1>3, <1>8, <1>10, <1>12, <2>1
    <2> QED BY <1>9, <1>12, <2>2, StartKeeps
<1>14. XferDescTypeOK'
    BY <1>8, <1>11, <1>13 DEF XferDescTypeOK
<1>15. pipe'[p].done \in Seq(Marked(p, "DONE")') /\ Distinct(pipe'[p].done)
    <2>1. \A j \in Marked(p, "DONE") : irp'[j] = irp[j]
        BY <1>2, <1>6, <1>10 DEF Marked
    <2>2. irp'[i].flag = "DONE" /\ irp'[i].ptr = p
        BY <1>7, <1>10
    <2> QED BY <1>2, <1>4, <1>13, <2>1, <2>2, ReturnDone
<1>16. pipe'[p].pending \in Seq(Waiting(p)') /\ Distinct(pipe'[p].pending)
    <2>1. ASSUME NEW k \in DOMAIN Tail(pend)
          PROVE  Tail(pend)[k] \in Waiting(p)'
        <3>1. Tail(pend)[k] \in Waiting(p) /\ Tail(pend)[k] # h
            BY <1>5
        <3>2. Tail(pend)[k] # i /\ Tail(pend)[k] \in Irps
            BY <1>2, <3>1 DEF Waiting, Marked
        <3>3. irp'[Tail(pend)[k]] = irp[Tail(pend)[k]]
            BY <1>10, <3>1, <3>2
        <3> QED BY <3>1, <3>3 DEF Waiting, Marked, Agrees
    <2>2. Tail(pend) \in Seq(Waiting(p)')
        BY <1>5, <2>1, InSeq
    <2> QED BY <1>5, <1>13, <2>2
<1>17. Owns(p)' /\ Agree(p)'
    <2>1. h \in Marked(p, "INFLIGHT")'
        BY <1>5, <1>9, <1>10 DEF Marked
    <2>2. Agrees(irp'[h], EpType[p])
        BY <1>6, <1>9, <1>10 DEF Agrees
    <2> QED BY <1>13, <1>15, <1>16, <2>1, <2>2, QueuesOwned
<1>18. PipeOK(p)'
    BY <1>13, <1>17 DEF PipeOK
<1>19. \A j \in Irps : irp[j].flag = "IDLE" \/ irp[j].ptr = p \/ irp'[j] = irp[j]
    BY <1>2, <1>6, <1>10 DEF Marked
<1>20. XferInv'
    BY <1>13, <1>14, <1>18, <1>19, OnePipe
<1> QED BY <1>2, <1>5, <1>6, <1>10, <1>13, <1>20 DEF h, v

-----------------------------------------------------------------------------
(* Commands and the loss of the device *)

\* HCD_PIPE_CMD_CLEAR starts the first pending IRP.
LEMMA ClearStartKeeps ==
    ASSUME XferInv, NEW p \in Pipes, ClearStart(p)
    PROVE  LET h == Head(pipe[p].pending)
           IN  /\ XferInv' /\ h \in Irps /\ irp' = [irp EXCEPT ![h].flag = "INFLIGHT"]
               /\ irp[h].flag = "PENDING"
               /\ ~InFlight(p) /\ pipe'[p].inflight = h /\ wire'[p] = Quiet
<1> USE Types
<1> DEFINE pend == pipe[p].pending
           h == Head(pend)
           r == [pipe[p] EXCEPT !.state = "ACTIVE"]
           q == TookNext(r)
           u == [irp[h] EXCEPT !.flag = "INFLIGHT"]
<1>1. pipe[p].state = "HALTED" /\ pend # <<>>
    BY DEF ClearStart
<1>2. ~InFlight(p) /\ pipe[p].inflight = NoIrp
    BY <1>1 DEF XferInv, PipeOK, Runnable, Busy, InFlight
<1>3. pipe[p] \in PipeRecord
    OBVIOUS
<1>4. r \in PipeRecord /\ r.done = pipe[p].done /\ r.pending = pend /\ r.state = "ACTIVE"
    BY <1>3 DEF PipeRecord
<1>5. /\ h \in Irps /\ Tail(pend) \in Seq(Irps) /\ Distinct(Tail(pend))
      /\ \A k \in DOMAIN Tail(pend) : Tail(pend)[k] # h
      /\ \A k \in DOMAIN Tail(pend) : k + 1 \in DOMAIN pend /\ Tail(pend)[k] = pend[k + 1]
      /\ pend \in Seq(Waiting(p)) /\ h \in Waiting(p)
    <2>1. pend \in Seq(Irps) /\ pend \in Seq(Waiting(p)) /\ Distinct(pend)
        BY QueuesOf
    <2>2. /\ h \in Irps /\ Tail(pend) \in Seq(Irps) /\ Distinct(Tail(pend))
          /\ \A k \in DOMAIN Tail(pend) : Tail(pend)[k] # h
          /\ \A k \in DOMAIN Tail(pend) : k + 1 \in DOMAIN pend /\ Tail(pend)[k] = pend[k + 1]
        BY <1>1, <2>1, DistinctTail
    <2>3. h \in Waiting(p)
        BY <1>1, <2>1, DistinctTail
    <2> QED BY <2>1, <2>2, <2>3
<1>6. irp[h].flag = "PENDING" /\ irp[h].ptr = p /\ Agrees(irp[h], EpType[p])
    BY <1>5 DEF Waiting, Marked
<1> HIDE DEF h, r
<1>8. /\ irp' = [irp EXCEPT ![h].flag = "INFLIGHT"]
      /\ Start(p, q, irp'[h]) /\ conn' = conn
    BY DEF ClearStart, h, r
<1>9. u \in IrpRecord /\ u.flag = "INFLIGHT" /\ u.ptr = p
      /\ u.setup = irp[h].setup /\ u.num_bytes = irp[h].num_bytes
    <2>1. irp[h] \in IrpRecord
        BY <1>5
    <2> QED BY <1>6, <2>1 DEF IrpRecord
<1>10. irp'[h] = u /\ \A j \in Irps : j # h => irp'[j] = irp[j]
    BY <1>5, <1>8
<1>11. irp' \in [Irps -> IrpRecord]
    <2>1. irp' = [irp EXCEPT ![h] = u]
        BY <1>8
    <2> HIDE DEF u
    <2> QED BY <1>9, <2>1
<1>12. q \in PipeRecord /\ q.inflight = h /\ q.pending = Tail(pend) /\ q.done = pipe[p].done
       /\ q.state = "ACTIVE"
    BY <1>4, <1>5 DEF TookNext, PipeRecord, h
<1> HIDE DEF q, u
<1>13. /\ Runnable(p)'
       /\ pipe' \in [Pipes -> PipeRecord] /\ chan' \in [Pipes -> ChanRecord]
       /\ wire' \in [Pipes -> [stages : Seq(Stages), moved : Nat]]
       /\ pipe'[p].inflight = h /\ pipe'[p].pending = Tail(pend)
       /\ pipe'[p].done = pipe[p].done /\ wire'[p] = Quiet
       /\ \A s \in Pipes \ {p} :
             pipe'[s] = pipe[s] /\ chan'[s] = chan[s] /\ wire'[s] = wire[s]
    <2>1. h # NoIrp
        BY <1>5, XferDescAssumption
    <2>2. Start(p, q, u) /\ irp'[q.inflight] = u /\ q.inflight # NoIrp
          /\ q.state = "ACTIVE"
        BY <1>8, <1>10, <1>12, <2>1
    <2> QED BY <1>9, <1>12, <2>2, StartKeeps
<1>14. XferDescTypeOK'
    BY <1>8, <1>11, <1>13 DEF XferDescTypeOK
<1>15. pipe'[p].done \in Seq(Marked(p, "DONE")') /\ Distinct(pipe'[p].done)
    <2>1. Marked(p, "DONE") \subseteq Marked(p, "DONE")'
        BY <1>6, <1>10 DEF Marked
    <2>2. pipe[p].done \in Seq(Marked(p, "DONE")) /\ Distinct(pipe[p].done)
        BY QueuesOf
    <2> QED BY <1>13, <2>1, <2>2
<1>16. pipe'[p].pending \in Seq(Waiting(p)') /\ Distinct(pipe'[p].pending)
    <2>1. ASSUME NEW k \in DOMAIN Tail(pend)
          PROVE  Tail(pend)[k] \in Waiting(p)'
        <3>1. Tail(pend)[k] \in Waiting(p) /\ Tail(pend)[k] # h
            BY <1>5
        <3>2. Tail(pend)[k] \in Irps
            BY <3>1 DEF Waiting, Marked
        <3>3. irp'[Tail(pend)[k]] = irp[Tail(pend)[k]]
            BY <1>10, <3>1, <3>2
        <3> QED BY <3>1, <3>3 DEF Waiting, Marked, Agrees
    <2>2. Tail(pend) \in Seq(Waiting(p)')
        BY <1>5, <2>1, InSeq
    <2> QED BY <1>5, <1>13, <2>2
<1>17. Owns(p)' /\ Agree(p)'
    <2>1. h \in Marked(p, "INFLIGHT")'
        BY <1>5, <1>9, <1>10 DEF Marked
    <2>2. Agrees(irp'[h], EpType[p])
        BY <1>6, <1>9, <1>10 DEF Agrees
    <2> QED BY <1>13, <1>15, <1>16, <2>1, <2>2, QueuesOwned
<1>18. PipeOK(p)'
    BY <1>13, <1>17 DEF PipeOK
<1>19. \A j \in Irps : irp[j].flag = "IDLE" \/ irp[j].ptr = p \/ irp'[j] = irp[j]
    BY <1>6, <1>10
<1>20. XferInv'
    BY <1>13, <1>14, <1>18, <1>19, OnePipe
<1> QED BY <1>2, <1>5, <1>6, <1>8, <1>13, <1>20 DEF h

LEMMA ClearEmptyKeeps ==
    ASSUME XferInv, NEW p \in Pipes, ClearEmpty(p)
    PROVE  XferInv'
<1> USE Types
<1> DEFINE q == [pipe[p] EXCEPT !.state = "ACTIVE"]
<1>1. /\ pipe[p].state = "HALTED" /\ pipe' = [pipe EXCEPT ![p] = q]
      /\ chan' = chan /\ irp' = irp /\ conn' = conn /\ wire' = wire
    BY DEF ClearEmpty
<1>2. ~InFlight(p)
    BY <1>1 DEF XferInv, PipeOK, Runnable, Busy
<1>3. pipe[p] \in PipeRecord
    OBVIOUS
<1>4. /\ q \in PipeRecord /\ q.inflight = pipe[p].inflight /\ q.list = pipe[p].list
      /\ q.ctrl_data_stg_in = pipe[p].ctrl_data_stg_in
      /\ q.ctrl_data_stg_skip = pipe[p].ctrl_data_stg_skip
      /\ q.pending = pipe[p].pending /\ q.done = pipe[p].done
    BY <1>3 DEF PipeRecord
<1> HIDE DEF q
<1>5. pipe'[p] = q
    BY <1>1
<1>6. XferDescTypeOK'
    BY <1>1, <1>4 DEF XferDescTypeOK
<1>7. Runnable(p)'
    BY <1>1, <1>2, <1>4, <1>5, SameTransfer
<1>8. Owns(p)' /\ Agree(p)'
    BY <1>1, <1>4, <1>5 DEF XferInv, PipeOK, Owns, Owned, Agree, Agrees, InFlight
<1>9. PipeOK(p)'
    BY <1>7, <1>8 DEF PipeOK
<1> QED BY <1>1, <1>6, <1>9, OnePipe

LEMMA LoseKeeps ==
    ASSUME XferInv, Lose
    PROVE  XferInv'
<1> USE Types
<1>1. conn' = FALSE /\ pipe' = pipe /\ chan' = chan /\ irp' = irp /\ wire' = wire
    BY DEF Lose
<1>2. XferDescTypeOK'
    BY <1>1 DEF XferDescTypeOK
<1>3. \A q \in Pipes : PipeOK(q)'
    BY <1>1, Frame
<1> QED BY <1>2, <1>3 DEF XferInv

\* _pipe_retire finishes the pending IRPs and no other.
LEMMA RetireIrps ==
    ASSUME XferInv, NEW p \in Pipes, NEW q \in PipeRecord,
           NEW results, NEW status,
           \A j \in Irps : results[j] \in IrpRecord, status \in Statuses,
           q.pending = pipe[p].pending,
           \A j \in Waiting(p) : results[j] = irp[j],
           Retire(p, q, results, status)
    PROVE  /\ irp' \in [Irps -> IrpRecord]
           /\ \A j \in Irps : \/ irp'[j] = results[j]
                              \/ /\ j \in Waiting(p) /\ irp'[j].flag = "DONE"
                                 /\ irp'[j].ptr = p /\ irp'[j].status = status
                                 /\ irp'[j].actual = 0
           /\ \A j \in Irps \ Waiting(p) : irp'[j] = results[j]
           /\ \A k \in DOMAIN q.pending : /\ irp'[q.pending[k]].flag = "DONE"
                                           /\ irp'[q.pending[k]].ptr = p
<1> DEFINE pend == {q.pending[k] : k \in DOMAIN q.pending}
<1>1. irp' = [i \in Irps |-> IF i \in pend
                              THEN [results[i] EXCEPT !.flag = "DONE", !.status = status]
                              ELSE results[i]]
    BY DEF Retire
<1>2. pend \subseteq Waiting(p) /\ pend \subseteq Irps
    BY QueuesOf
<1> HIDE DEF pend
<1>3. ASSUME NEW j \in pend
      PROVE  /\ irp'[j] \in IrpRecord /\ irp'[j].flag = "DONE" /\ irp'[j].ptr = p
             /\ irp'[j].status = status /\ irp'[j].actual = 0
    <2>1. j \in Irps /\ j \in Waiting(p) /\ results[j] \in IrpRecord
        BY <1>2, <1>3
    <2>2. results[j].ptr = p /\ results[j].actual = 0
        BY <2>1 DEF Waiting, Marked
    <2>3. irp'[j] = [results[j] EXCEPT !.flag = "DONE", !.status = status]
        BY <1>1, <1>3, <2>1
    <2> QED BY <2>1, <2>2, <2>3 DEF IrpRecord
<1>4. \A j \in Irps : j \notin pend => irp'[j] = results[j]
    BY <1>1
<1>5. irp' \in [Irps -> IrpRecord]
    <2>1. \A j \in Irps : irp'[j] \in IrpRecord
        BY <1>3, <1>4
    <2> QED BY <1>1, <2>1
<1>6. \A k \in DOMAIN q.pending : /\ irp'[q.pending[k]].flag = "DONE"
                                    /\ irp'[q.pending[k]].ptr = p
    <2>1. \A k \in DOMAIN q.pending : q.pending[k] \in pend
        BY DEF pend
    <2> QED BY <1>3, <2>1
<1> QED BY <1>2, <1>3, <1>4, <1>5, <1>6

LEMMA RetireOwns ==
    ASSUME XferInv, NEW p \in Pipes, NEW q \in PipeRecord,
           q.pending = pipe[p].pending, q.inflight = NoIrp,
           \A k \in DOMAIN q.pending : /\ irp'[q.pending[k]].flag = "DONE"
                                       /\ irp'[q.pending[k]].ptr = p,
           q.done \in Seq(Irps), q.done \in Seq(Marked(p, "DONE")'), Distinct(q.done),
           \A k \in DOMAIN q.done : q.done[k] \notin Waiting(p),
           pipe' = [pipe EXCEPT ![p] = [q EXCEPT !.pending = <<>>, !.done = @ \o q.pending]]
    PROVE  LET r == [q EXCEPT !.pending = <<>>, !.done = q.done \o q.pending]
           IN  /\ pipe' = [pipe EXCEPT ![p] = r] /\ r \in PipeRecord
               /\ r.inflight = q.inflight /\ r.list = q.list /\ r.state = q.state
               /\ r.ctrl_data_stg_in = q.ctrl_data_stg_in
               /\ r.ctrl_data_stg_skip = q.ctrl_data_stg_skip
               /\ Owns(p)' /\ Agree(p)'
<1> USE Types
<1> DEFINE d == q.done \o q.pending
           r == [q EXCEPT !.pending = <<>>, !.done = d]
           M2 == Marked(p, "DONE")'
<1>1. pipe' = [pipe EXCEPT ![p] = r]
    OBVIOUS
<1>2. q.pending \in Seq(Irps) /\ Distinct(q.pending) /\ q.pending \in Seq(Waiting(p))
    BY QueuesOf
<1>3. \A j \in DOMAIN q.done, k \in DOMAIN q.pending : q.done[j] # q.pending[k]
    <2>1. \A k \in DOMAIN q.pending : q.pending[k] \in Waiting(p)
        BY <1>2
    <2> QED BY <2>1
<1>4. Distinct(d) /\ d \in Seq(Irps)
    BY <1>2, <1>3, DistinctConcat
<1>5. d \in Seq(M2)
    <2>1. \A k \in DOMAIN q.pending : q.pending[k] \in M2
        <3>1. \A k \in DOMAIN q.pending : q.pending[k] \in Irps
            BY <1>2
        <3> QED BY <3>1 DEF Marked
    <2> HIDE DEF M2
    <2>2. q.pending \in Seq(M2)
        BY <1>2, <2>1, InSeq
    <2>3. q.done \in Seq(M2)
        BY DEF M2
    <2> QED BY <2>2, <2>3
<1>6. <<>> \in Seq(Irps)
    OBVIOUS
<1> HIDE DEF d, M2
<1>7. /\ r \in PipeRecord
      /\ r.inflight = q.inflight /\ r.list = q.list /\ r.state = q.state
      /\ r.ctrl_data_stg_in = q.ctrl_data_stg_in
      /\ r.ctrl_data_stg_skip = q.ctrl_data_stg_skip
      /\ r.pending = <<>> /\ r.done = d
    BY <1>4, <1>6 DEF PipeRecord
<1> HIDE DEF r
<1>8. pipe'[p] = r
    BY <1>1
<1>9. Owns(p)' /\ Agree(p)'
    <2>1. <<>> \in Seq(Waiting(p)') /\ Distinct(<<>>)
        BY DEF Distinct
    <2>2. pipe'[p].pending = <<>> /\ pipe'[p].done = d /\ pipe'[p].inflight = NoIrp
        BY <1>7, <1>8
    <2>3. pipe'[p].pending \in Seq(Waiting(p)') /\ Distinct(pipe'[p].pending)
        BY <2>1, <2>2
    <2>4. pipe'[p].done \in Seq(Marked(p, "DONE")') /\ Distinct(pipe'[p].done)
        BY <1>4, <1>5, <2>2 DEF M2
    <2> QED BY <2>2, <2>3, <2>4, QueuesOwned
<1> QED BY <1>1, <1>7, <1>9 DEF r, d

LEMMA ResetKeeps ==
    ASSUME XferInv, NEW p \in Pipes, Reset(p)
    PROVE  /\ XferInv' /\ pipe'[p].inflight = pipe[p].inflight
           /\ \A j \in Irps : \/ irp'[j] = irp[j]
                              \/ j \in Waiting(p) /\ irp'[j].flag = "DONE"
                                 /\ irp'[j].status = "CANCELLED" /\ irp'[j].actual = 0
<1> USE Types
<1> DEFINE q == [pipe[p] EXCEPT !.state = "ACTIVE"]
<1>1. pipe[p] \in PipeRecord
    OBVIOUS
<1>2. pipe[p].inflight = NoIrp /\ ~InFlight(p) /\ "CANCELLED" \in Statuses
      /\ chan' = chan /\ conn' = conn /\ wire' = wire
    BY DEF Reset, InFlight, Statuses
<1>3. Retire(p, q, irp, "CANCELLED")
    BY DEF Reset
<1>4. /\ q \in PipeRecord /\ q.inflight = pipe[p].inflight /\ q.list = pipe[p].list
      /\ q.ctrl_data_stg_in = pipe[p].ctrl_data_stg_in
      /\ q.ctrl_data_stg_skip = pipe[p].ctrl_data_stg_skip
      /\ q.pending = pipe[p].pending /\ q.done = pipe[p].done
    BY <1>1 DEF PipeRecord
<1> HIDE DEF q
<1>5. /\ irp' \in [Irps -> IrpRecord]
      /\ \A j \in Irps : \/ irp'[j] = irp[j]
                         \/ /\ j \in Waiting(p) /\ irp'[j].flag = "DONE"
                            /\ irp'[j].ptr = p /\ irp'[j].status = "CANCELLED"
                            /\ irp'[j].actual = 0
      /\ \A j \in Irps \ Waiting(p) : irp'[j] = irp[j]
      /\ \A k \in DOMAIN q.pending : /\ irp'[q.pending[k]].flag = "DONE"
                                      /\ irp'[q.pending[k]].ptr = p
    BY <1>2, <1>3, <1>4, RetireIrps
<1>6. /\ q.done \in Seq(Irps) /\ q.done \in Seq(Marked(p, "DONE")') /\ Distinct(q.done)
      /\ \A k \in DOMAIN q.done : q.done[k] \notin Waiting(p)
    <2>1. pipe[p].done \in Seq(Irps) /\ pipe[p].done \in Seq(Marked(p, "DONE"))
          /\ Distinct(pipe[p].done)
        BY QueuesOf
    <2>2. Marked(p, "DONE") \subseteq Marked(p, "DONE")'
        BY <1>5 DEF Marked, Waiting
    <2>3. \A k \in DOMAIN q.done : q.done[k] \in Marked(p, "DONE")
        BY <1>4, <2>1
    <2>4. \A k \in DOMAIN q.done : q.done[k] \notin Waiting(p)
        BY <2>3 DEF Marked, Waiting
    <2> QED BY <1>4, <2>1, <2>2, <2>4
<1> DEFINE r == [q EXCEPT !.pending = <<>>, !.done = q.done \o q.pending]
<1>7. /\ pipe' = [pipe EXCEPT ![p] = r] /\ r \in PipeRecord
      /\ r.inflight = q.inflight /\ r.list = q.list /\ r.state = q.state
      /\ r.ctrl_data_stg_in = q.ctrl_data_stg_in
      /\ r.ctrl_data_stg_skip = q.ctrl_data_stg_skip
      /\ Owns(p)' /\ Agree(p)'
    <2>1. pipe' = [pipe EXCEPT ![p] = [q EXCEPT !.pending = <<>>, !.done = @ \o q.pending]]
        BY <1>3 DEF Retire
    <2> HIDE DEF r
    <2>2. LET r2 == [q EXCEPT !.pending = <<>>, !.done = q.done \o q.pending]
          IN  /\ pipe' = [pipe EXCEPT ![p] = r2] /\ r2 \in PipeRecord
              /\ r2.inflight = q.inflight /\ r2.list = q.list /\ r2.state = q.state
              /\ r2.ctrl_data_stg_in = q.ctrl_data_stg_in
              /\ r2.ctrl_data_stg_skip = q.ctrl_data_stg_skip
              /\ Owns(p)' /\ Agree(p)'
        BY <1>2, <1>4, <1>5, <1>6, <2>1, RetireOwns
    <2> QED BY <2>2 DEF r
<1> HIDE DEF r
<1>8. pipe'[p] = r
    BY <1>7
<1>9. XferDescTypeOK'
    BY <1>2, <1>5, <1>7 DEF XferDescTypeOK
<1>10. Runnable(p)'
    BY <1>2, <1>4, <1>7, <1>8, SameTransfer
<1>11. PipeOK(p)'
    BY <1>7, <1>10 DEF PipeOK
<1>12. \A j \in Irps : irp[j].flag = "IDLE" \/ irp[j].ptr = p \/ irp'[j] = irp[j]
    BY <1>5 DEF Waiting, Marked
<1>13. XferInv'
    BY <1>2, <1>7, <1>9, <1>11, <1>12, OnePipe
<1> QED BY <1>4, <1>5, <1>7, <1>8, <1>13

\* _port_invalidate_all_pipes.
LEMMA InvalidateKeeps ==
    ASSUME XferInv, NEW p \in Pipes, Invalidate(p)
    PROVE  /\ XferInv' /\ ~InFlight(p)' /\ wire'[p] = Quiet
           /\ \A j \in Irps : \/ irp'[j] = irp[j]
                              \/ /\ irp'[j].flag = "DONE" /\ irp'[j].status = "NO_DEVICE"
                                 /\ irp'[j].actual = 0
           /\ \A j \in Irps : irp[j].flag = "IDLE" \/ irp[j].ptr = p \/ irp'[j] = irp[j]
<1> USE Types
<1> DEFINE i == pipe[p].inflight
           h == [pipe[p] EXCEPT !.state = "INVALID"]
           v == ParsedError(irp[i], "NO_DEVICE")
           q == IF InFlight(p) THEN Returned(h) ELSE h
           results == IF InFlight(p) THEN [irp EXCEPT ![i] = v] ELSE irp
<1>1. pipe[p] \in PipeRecord /\ "NO_DEVICE" \in Statuses
      /\ Runnable(p)
    BY DEF Statuses, XferInv, PipeOK
<1>2. /\ chan' = [chan EXCEPT ![p] = Released(@)] /\ wire' = [wire EXCEPT ![p] = Quiet]
      /\ conn' = conn
    BY DEF Invalidate
<1>3. /\ h \in PipeRecord /\ h.inflight = i /\ h.pending = pipe[p].pending
      /\ h.done = pipe[p].done /\ h.list = pipe[p].list
    BY <1>1 DEF PipeRecord
<1>4. Retire(p, q, results, "NO_DEVICE")
    <2>1. \/ i = NoIrp /\ Retire(p, h, irp, "NO_DEVICE")
          \/ i # NoIrp /\ Retire(p, Returned(h), [irp EXCEPT ![i] = v], "NO_DEVICE")
        <3>1. h.inflight = i
            BY <1>3
        <3> HIDE DEF v
        <3> QED BY <3>1 DEF Invalidate, v
    <2> HIDE DEF h, v
    <2> QED BY <2>1 DEF InFlight
<1>5. InFlight(p) => /\ i \in Irps /\ i \in Marked(p, "INFLIGHT") /\ irp[i] \in IrpRecord
                     /\ irp[i].ptr = p
    BY QueuesOf DEF Marked
<1>6. InFlight(p) => v \in IrpRecord /\ v.flag = "DONE" /\ v.ptr = p
                     /\ v.status = "NO_DEVICE" /\ v.actual = 0
    <2> SUFFICES ASSUME InFlight(p)
                 PROVE  v \in IrpRecord /\ v.flag = "DONE" /\ v.ptr = p
                        /\ v.status = "NO_DEVICE" /\ v.actual = 0
        OBVIOUS
    <2> DEFINE u == irp[i]
    <2>1. u.num_bytes \in 0 .. u.num_bytes /\ u.ptr = p /\ u \in IrpRecord
          /\ u.num_bytes - u.num_bytes = 0
        BY <1>5, SetupIn
    <2>2. v = Parsed(u, "NO_DEVICE", u.num_bytes)
        BY DEF ParsedError
    <2> HIDE DEF u, v
    <2> QED BY <1>1, <2>1, <2>2, ParsedType
<1>7. /\ q \in PipeRecord /\ q.inflight = NoIrp /\ q.list = <<>>
      /\ q.pending = pipe[p].pending
      /\ q.done = IF InFlight(p) THEN Append(pipe[p].done, i) ELSE pipe[p].done
    <2>1. CASE InFlight(p)
        <3>1. h.inflight \in Irps
            BY <1>3, <1>5, <2>1
        <3> HIDE DEF h
        <3>2. /\ Returned(h) \in PipeRecord /\ Returned(h).inflight = NoIrp
              /\ Returned(h).list = <<>> /\ Returned(h).done = Append(h.done, h.inflight)
              /\ Returned(h).pending = h.pending
            BY <1>3, <3>1, ReturnedFields
        <3> QED BY <1>3, <2>1, <3>2
    <2>2. CASE ~InFlight(p)
        <3>1. pipe[p].list = <<>> /\ i = NoIrp
            BY <1>1, <2>2 DEF Runnable, Resting, InFlight
        <3> HIDE DEF h
        <3> QED BY <1>3, <2>2, <3>1
    <2> QED BY <2>1, <2>2
<1>8. /\ results \in [Irps -> IrpRecord]
      /\ \A j \in Irps : \/ results[j] = irp[j]
                         \/ InFlight(p) /\ j = i /\ results[j] = v
      /\ InFlight(p) => results[i] = v
    <2> HIDE DEF v
    <2> QED BY <1>5, <1>6
<1> HIDE DEF h, v, q, results
<1>9. \A j \in Waiting(p) : results[j] = irp[j]
    BY <1>5, <1>8 DEF Waiting, Marked
<1>10. /\ irp' \in [Irps -> IrpRecord]
       /\ \A j \in Irps : \/ irp'[j] = results[j]
                          \/ /\ j \in Waiting(p) /\ irp'[j].flag = "DONE"
                             /\ irp'[j].ptr = p /\ irp'[j].status = "NO_DEVICE"
                             /\ irp'[j].actual = 0
       /\ \A j \in Irps \ Waiting(p) : irp'[j] = results[j]
       /\ \A k \in DOMAIN q.pending : /\ irp'[q.pending[k]].flag = "DONE"
                                       /\ irp'[q.pending[k]].ptr = p
    <2>1. q \in PipeRecord /\ q.pending = pipe[p].pending
          /\ "NO_DEVICE" \in Statuses /\ \A j \in Irps : results[j] \in IrpRecord
        BY <1>1, <1>7, <1>8
    <2> QED BY <1>4, <1>9, <2>1, RetireIrps
<1>11. \A j \in Marked(p, "DONE") : irp'[j] = irp[j]
    <2>1. \A j \in Marked(p, "DONE") : j \in Irps \ Waiting(p) /\ (InFlight(p) => j # i)
        BY <1>5 DEF Marked, Waiting
    <2> QED BY <1>8, <1>10, <2>1
<1>12. /\ q.done \in Seq(Irps) /\ q.done \in Seq(Marked(p, "DONE")') /\ Distinct(q.done)
       /\ \A k \in DOMAIN q.done : q.done[k] \notin Waiting(p)
    <2>1. pipe[p].done \in Seq(Irps) /\ pipe[p].done \in Seq(Marked(p, "DONE"))
          /\ Distinct(pipe[p].done)
        BY QueuesOf
    <2>2. CASE InFlight(p)
        <3> DEFINE d == Append(pipe[p].done, i)
        <3>1. irp'[i].flag = "DONE" /\ irp'[i].ptr = p
            <4>1. i \in Irps \ Waiting(p)
                BY <1>5, <2>2 DEF Marked, Waiting
            <4> QED BY <1>6, <1>8, <1>10, <2>2, <4>1
        <3>2. /\ d \in Seq(Irps) /\ d \in Seq(Marked(p, "DONE")') /\ Distinct(d)
              /\ d \in Seq(Marked(p, "DONE") \cup {i})
            BY <1>11, <2>2, <3>1, ReturnDone
        <3> HIDE DEF d
        <3>3. \A k \in DOMAIN d : d[k] \in Marked(p, "DONE") \cup {i}
            BY <3>2
        <3>4. \A k \in DOMAIN d : d[k] \notin Waiting(p)
            BY <1>5, <2>2, <3>3 DEF Marked, Waiting
        <3>5. q.done = d
            BY <1>7, <2>2 DEF d
        <3> QED BY <3>2, <3>4, <3>5
    <2>3. CASE ~InFlight(p)
        <3>1. q.done = pipe[p].done
            BY <1>7, <2>3
        <3>2. Marked(p, "DONE") \subseteq Marked(p, "DONE")'
            BY <1>11 DEF Marked
        <3>3. \A k \in DOMAIN q.done : q.done[k] \in Marked(p, "DONE")
            BY <2>1, <3>1
        <3>4. \A k \in DOMAIN q.done : q.done[k] \notin Waiting(p)
            BY <3>3 DEF Marked, Waiting
        <3> QED BY <2>1, <3>1, <3>2, <3>4
    <2> QED BY <2>2, <2>3
<1> DEFINE r == [q EXCEPT !.pending = <<>>, !.done = q.done \o q.pending]
<1>13. /\ pipe' = [pipe EXCEPT ![p] = r] /\ r \in PipeRecord
       /\ r.inflight = NoIrp /\ r.list = <<>>
       /\ Owns(p)' /\ Agree(p)'
    <2>1. pipe' = [pipe EXCEPT ![p] = [q EXCEPT !.pending = <<>>, !.done = @ \o q.pending]]
        BY <1>4 DEF Retire
    <2> HIDE DEF r
    <2>2. LET r2 == [q EXCEPT !.pending = <<>>, !.done = q.done \o q.pending]
          IN  /\ pipe' = [pipe EXCEPT ![p] = r2] /\ r2 \in PipeRecord
              /\ r2.inflight = q.inflight /\ r2.list = q.list /\ r2.state = q.state
              /\ r2.ctrl_data_stg_in = q.ctrl_data_stg_in
              /\ r2.ctrl_data_stg_skip = q.ctrl_data_stg_skip
              /\ Owns(p)' /\ Agree(p)'
        BY <1>7, <1>10, <1>12, <2>1, RetireOwns
    <2> QED BY <1>7, <2>2 DEF r
<1> HIDE DEF r
<1>14. /\ Runnable(p)' /\ pipe'[p] = r /\ wire'[p] = Quiet
       /\ pipe' \in [Pipes -> PipeRecord] /\ chan' \in [Pipes -> ChanRecord]
       /\ wire' \in [Pipes -> [stages : Seq(Stages), moved : Nat]]
       /\ \A s \in Pipes \ {p} :
             pipe'[s] = pipe[s] /\ chan'[s] = chan[s] /\ wire'[s] = wire[s]
    BY <1>2, <1>13, EndedRests
<1>15. XferDescTypeOK'
    BY <1>2, <1>10, <1>14 DEF XferDescTypeOK
<1>16. PipeOK(p)'
    BY <1>13, <1>14 DEF PipeOK
<1>17. \A j \in Irps : irp[j].flag = "IDLE" \/ irp[j].ptr = p \/ irp'[j] = irp[j]
    BY <1>5, <1>8, <1>10 DEF Waiting, Marked
<1>18. XferInv'
    BY <1>14, <1>15, <1>16, <1>17, OnePipe
<1>19. ~InFlight(p)'
    BY <1>13, <1>14 DEF InFlight
<1>20. \A j \in Irps : \/ irp'[j] = irp[j]
                       \/ /\ irp'[j].flag = "DONE" /\ irp'[j].status = "NO_DEVICE"
                          /\ irp'[j].actual = 0
    BY <1>6, <1>8, <1>10
<1> QED BY <1>14, <1>17, <1>18, <1>19, <1>20

LEMMA ReallocateKeeps ==
    ASSUME XferInv, Reallocate
    PROVE  /\ XferInv' /\ irp' = irp /\ wire' = wire
           /\ \A p \in Pipes : pipe[p].inflight = NoIrp /\ pipe'[p].inflight = NoIrp
<1> USE Types
<1>1. /\ pipe' = [p \in Pipes |-> NewPipe] /\ chan' = [p \in Pipes |-> NewChan(p)]
      /\ conn' = TRUE /\ irp' = irp /\ wire' = wire
    BY DEF Reallocate
<1>2. NewPipe \in PipeRecord
    BY DEF NewPipe, PipeRecord
<1>3. \A p \in Pipes : NewChan(p) \in ChanRecord
    BY DEF NewChan, ChanRecord, ChanEvents
<1>4. XferDescTypeOK'
    BY <1>1, <1>2, <1>3 DEF XferDescTypeOK
<1>5. ASSUME NEW p \in Pipes
      PROVE  /\ PipeOK(p)' /\ pipe[p].inflight = NoIrp /\ pipe'[p].inflight = NoIrp
    <2>1. pipe[p].state = "INVALID"
        BY DEF Reallocate
    <2>2. ~InFlight(p) /\ wire[p] = Quiet
        BY <2>1 DEF XferInv, PipeOK, Runnable, Busy, Resting
    <2>3. pipe'[p] = NewPipe /\ chan'[p] = NewChan(p) /\ wire'[p] = Quiet /\ ~InFlight(p)'
        BY <1>1, <2>2 DEF InFlight, NewPipe
    <2>4. Owns(p)' /\ Agree(p)'
        BY <2>3 DEF Owns, Agree, Distinct, NewPipe
    <2>5. Runnable(p)'
        BY <2>3 DEF Runnable, Resting, NewPipe, NewChan
    <2> QED BY <2>2, <2>3, <2>4, <2>5 DEF PipeOK, InFlight
<1> QED BY <1>1, <1>4, <1>5 DEF XferInv

-----------------------------------------------------------------------------
(* The invariant *)

LEMMA IntrDoneKeeps ==
    ASSUME XferInv, NEW p \in Pipes, IntrDone(p)
    PROVE  XferInv'
    BY IntrDoneLast, IntrDoneNext

LEMMA NextKeeps == XferInv /\ [XferNext]_vars => XferInv'
<1> SUFFICES ASSUME XferInv, [XferNext]_vars
             PROVE  XferInv'
    OBVIOUS
<1>1. ASSUME NEW p \in Pipes, NEW i \in Irps, NEW s \in Setups, NEW n \in Sizes,
             Fits(p, s, n), Submit(p, i, s, n)
      PROVE  XferInv'
    BY <1>1, SubmitStartKeeps, SubmitPendKeeps DEF Submit
<1>2. ASSUME NEW i \in Irps, Clear(i)
      PROVE  XferInv'
    BY <1>2, ClearKeeps
<1>3. ASSUME NEW p \in Pipes, Runs(p)
      PROVE  XferInv'
    BY <1>3, RunKeeps DEF Runs
<1>4. ASSUME NEW p \in Pipes, Fails(p)
      PROVE  XferInv'
    BY <1>4, FailKeeps DEF Fails
<1>5. ASSUME NEW p \in Pipes, Interrupt(p)
      PROVE  XferInv'
    BY <1>5, IntrDoneKeeps, IntrHaltKeeps, IntrErrorKeeps, IntrIgnoredKeeps DEF Interrupt
<1>6. ASSUME NEW p \in Pipes, Dequeue(p)
      PROVE  XferInv'
    BY <1>6, DequeueKeeps
<1>7. ASSUME NEW p \in Pipes, Reset(p)
      PROVE  XferInv'
    BY <1>7, ResetKeeps
<1>8. ASSUME NEW p \in Pipes, ClearStart(p)
      PROVE  XferInv'
    BY <1>8, ClearStartKeeps
<1>9. ASSUME NEW p \in Pipes, ClearEmpty(p)
      PROVE  XferInv'
    BY <1>9, ClearEmptyKeeps
<1>10. ASSUME NEW p \in Pipes, Invalidate(p)
       PROVE  XferInv'
    BY <1>10, InvalidateKeeps
<1>11. CASE Lose
    BY <1>11, LoseKeeps
<1>12. CASE Reallocate
    BY <1>12, ReallocateKeeps
<1>13. CASE UNCHANGED vars
    <2>1. XferDescTypeOK'
        BY <1>13, Types DEF vars, XferDescTypeOK
    <2>2. \A q \in Pipes : PipeOK(q)'
        BY <1>13, Frame DEF vars
    <2> QED BY <2>1, <2>2 DEF XferInv
<1> QED
    BY <1>1, <1>2, <1>3, <1>4, <1>5, <1>6, <1>7, <1>8, <1>9, <1>10, <1>11, <1>12, <1>13
    DEF XferNext

\* Every state that the driver reaches, whatever the controller and the clients do, is
\* one that XferInv describes.
THEOREM XferInvariant == XferSpec => []XferInv
<1>1. XferInit => XferInv
    BY InitHolds
<1>2. XferInv /\ [XferNext]_vars => XferInv'
    BY NextKeeps
<1> QED BY <1>1, <1>2, PTL DEF XferSpec

\* The variables keep their types: no descriptor index, byte count or queue leaves its
\* range.
THEOREM XferTypes == XferSpec => []XferDescTypeOK
<1>1. XferInv => XferDescTypeOK
    BY DEF XferInv
<1> QED BY <1>1, XferInvariant, PTL

\* A channel has a slot exactly while its pipe has an IRP in flight (hcd.c, the
\* acquire and release of the slot in _xfer_desc_list_fill and _parse).
THEOREM SlotTheorem == XferSpec => []SlotIffInFlight
<1>1. XferInv => SlotIffInFlight
    BY DEF XferInv, PipeOK, Runnable, Busy, Resting, SlotIffInFlight
<1> QED BY <1>1, XferInvariant, PTL

\* What _xfer_desc_list_continue tells the channel is what _xfer_desc_list_fill wrote
\* into the descriptor that it executes next.
THEOREM DirectionTheorem == XferSpec => []DirectionAgrees
<1>1. XferInv => DirectionAgrees
    <2> SUFFICES ASSUME XferInv, NEW p \in Pipes, Executes(p)
                 PROVE  ~Current(p).null /\ Current(p).in = chan[p].in
        BY DEF DirectionAgrees
    <2>1. Current(p).null = FALSE /\ Current(p).in = chan[p].in
        BY Executing
    <2> QED BY <2>1
<1> QED BY <1>1, XferInvariant, PTL

-----------------------------------------------------------------------------
(* The transfer descriptor lists implement ControlTransfer: every step is, for each  *)
(* pipe, the next stage of its transfer, the beginning or end of one, or none of the *)
(* device's business, and changes the result of an IRP only in the ways that a       *)
(* client may rely on.                                                               *)

-----------------------------------------------------------------------------
(* Plans *)

\* The client's setup packet and the IRP agree, so that the device plans the stages
\* that the driver lays.
LEMMA PlanIs ==
    ASSUME XferInv, NEW p \in Pipes
    PROVE  LET u == irp[pipe[p].inflight]
           IN  /\ ~InFlight(p) => PlanOf(p) = <<>>
               /\ InFlight(p) => /\ u \in IrpRecord /\ pipe[p].inflight \in Irps
                                 /\ u.ptr = p /\ u.flag = "INFLIGHT"
               /\ InFlight(p) /\ EpType[p] = "CTRL" =>
                     PlanOf(p) = ControlPlan(u.setup.in, u.num_bytes)
               /\ InFlight(p) /\ EpType[p] # "CTRL" =>
                     PlanOf(p) = BulkPlan(EpType[p] = "BULK_IN", u.num_bytes)
<1> USE Types
<1>1. InFlight(p) => /\ pipe[p].inflight \in Marked(p, "INFLIGHT")
                     /\ Agrees(irp[pipe[p].inflight], EpType[p])
    BY QueuesOf
<1>2. InFlight(p) => /\ pipe[p].inflight \in Irps /\ irp[pipe[p].inflight] \in IrpRecord
                     /\ irp[pipe[p].inflight].ptr = p
                     /\ irp[pipe[p].inflight].flag = "INFLIGHT"
    BY <1>1 DEF Marked
<1> DEFINE u == irp[pipe[p].inflight]
<1>3. PlanOf(p) = IF ~InFlight(p) THEN <<>>
                  ELSE IF EpType[p] = "CTRL"
                  THEN ControlPlan(u.setup.in, IF u.setup.wLength = 0 THEN 0 ELSE u.num_bytes)
                  ELSE BulkPlan(EpType[p] = "BULK_IN", u.num_bytes)
    BY Zenon DEF PlanOf
<1>4. ASSUME InFlight(p), EpType[p] = "CTRL"
      PROVE  PlanOf(p) = ControlPlan(u.setup.in, u.num_bytes)
    <2>1. (IF u.setup.wLength = 0 THEN 0 ELSE u.num_bytes) = u.num_bytes
        BY <1>1, <1>4 DEF Agrees
    <2> HIDE DEF u
    <2> QED BY Zenon, <1>3, <1>4, <2>1
<1>5. ASSUME InFlight(p), EpType[p] # "CTRL"
      PROVE  PlanOf(p) = BulkPlan(EpType[p] = "BULK_IN", u.num_bytes)
    BY Zenon, <1>3, <1>5
<1>6. ~InFlight(p) => PlanOf(p) = <<>>
    BY Zenon, <1>3
<1> QED BY <1>2, <1>4, <1>5, <1>6

LEMMA ControlIsPlan ==
    ASSUME NEW in \in BOOLEAN, NEW n \in Nat
    PROVE  IsPlan(ControlPlan(in, n))
<1> DEFINE s == ControlPlan(in, n)
<1>1. 2 \in DOMAIN s /\ s[2].len = n
    BY DEF ControlPlan, DataStage, StatusStage
<1> HIDE DEF s
<1>2. \E k \in DOMAIN s : s[k].len = n
    BY <1>1
<1>3. s = ControlPlan(in, n)
    BY DEF s
<1>4. IsPlan(s)
    BY Zenon, <1>2, <1>3 DEF IsPlan
<1> QED BY <1>4 DEF s

LEMMA BulkIsPlan ==
    ASSUME NEW in \in BOOLEAN, NEW n \in Nat
    PROVE  IsPlan(BulkPlan(in, n))
<1> DEFINE s == BulkPlan(in, n)
<1>1. 1 \in DOMAIN s /\ s[1].len = n
    BY DEF BulkPlan
<1> HIDE DEF s
<1>2. \E k \in DOMAIN s : s[k].len = n
    BY <1>1
<1>3. s = BulkPlan(in, n)
    BY DEF s
<1>4. IsPlan(s)
    BY Zenon, <1>2, <1>3 DEF IsPlan
<1> QED BY <1>4 DEF s

LEMMA PlanOfIsPlan == XferInv => \A p \in Pipes : IsPlan(PlanOf(p))
<1> SUFFICES ASSUME XferInv, NEW p \in Pipes
             PROVE  IsPlan(PlanOf(p))
    OBVIOUS
<1> DEFINE u == irp[pipe[p].inflight]
           bulkIn == (EpType[p] = "BULK_IN")
<1>1. CASE ~InFlight(p)
    <2>1. PlanOf(p) = <<>>
        BY <1>1, PlanIs
    <2> QED BY <2>1 DEF IsPlan
<1>2. ASSUME InFlight(p)
      PROVE  u.num_bytes \in Nat /\ u.setup.in \in BOOLEAN /\ bulkIn \in BOOLEAN
    BY <1>2, PlanIs, SetupIn
<1>3. CASE InFlight(p) /\ EpType[p] = "CTRL"
    <2>1. PlanOf(p) = ControlPlan(u.setup.in, u.num_bytes)
        BY <1>3, PlanIs
    <2>2. IsPlan(ControlPlan(u.setup.in, u.num_bytes))
        BY <1>2, <1>3, ControlIsPlan
    <2> QED BY <2>1, <2>2
<1>4. CASE InFlight(p) /\ EpType[p] # "CTRL"
    <2>1. PlanOf(p) = BulkPlan(bulkIn, u.num_bytes)
        BY <1>4, PlanIs
    <2> HIDE DEF bulkIn
    <2>2. IsPlan(BulkPlan(bulkIn, u.num_bytes))
        BY <1>2, <1>4, BulkIsPlan
    <2> QED BY <2>1, <2>2
<1> QED BY <1>1, <1>3, <1>4

LEMMA PlansAfter == XferInv' => (\A p \in Pipes : IsPlan(PlanOf(p)))'
    BY PlanOfIsPlan, PTL

-----------------------------------------------------------------------------
(* Steps of a pipe *)

\* What ControlTransfer sees of a pipe and of an IRP.
LEMMA SeenSame ==
    ASSUME NEW p \in Pipes,
           pipe'[p].inflight = pipe[p].inflight, PlanOf(p)' = PlanOf(p),
           wire'[p].stages = wire[p].stages, wire'[p].moved = wire[p].moved
    PROVE  Transfer!Same(p)
    BY DEF Transfer!Same

LEMMA SamePlans == \A s : IsPlan(s) => Transfer!IsPlan(s)
    BY Zenon
    DEF IsPlan, ControlPlan, BulkPlan, SetupStage, DataStage, StatusStage,
        Transfer!IsPlan, Transfer!ControlPlan, Transfer!BulkPlan, Transfer!SetupStage,
        Transfer!DataStage, Transfer!StatusStage

LEMMA SeenBegin ==
    ASSUME NEW p \in Pipes,
           pipe'[p].inflight # pipe[p].inflight, IsPlan(PlanOf(p))',
           wire'[p].stages = <<>>, wire'[p].moved = 0
    PROVE  Transfer!Begin(p)
<1> DEFINE plan == [q \in Pipes |-> PlanOf(q)]
<1>1. plan'[p] = PlanOf(p)'
    OBVIOUS
<1>2. Transfer!IsPlan(PlanOf(p)')
    BY Zenon, SamePlans
<1>3. Transfer!IsPlan(plan'[p])
    BY Zenon, <1>1, <1>2
<1> QED BY <1>3 DEF Transfer!Begin

LEMMA SeenStage ==
    ASSUME NEW p \in Pipes, NEW s,
           InFlight(p), Len(wire[p].stages) < Len(PlanOf(p)),
           s = PlanOf(p)[Len(wire[p].stages) + 1],
           wire'[p].stages = Append(wire[p].stages, s),
           wire'[p].moved \in wire[p].moved .. (wire[p].moved + IF s.setup THEN 0 ELSE s.len),
           pipe'[p].inflight = pipe[p].inflight, PlanOf(p)' = PlanOf(p)
    PROVE  Transfer!Stage(p)
    BY DEF Transfer!Stage, InFlight

LEMMA SeenResult ==
    ASSUME NEW i \in Irps,
           \/ Reported(irp[i])' = Reported(irp[i])
           \/ Reported(irp[i])' = [ok |-> FALSE, bytes |-> 0]
           \/ \E q \in Pipes : /\ pipe[q].inflight = i /\ pipe'[q].inflight # i
                               /\ wire[q].stages = PlanOf(q)
                               /\ Reported(irp[i])' = [ok |-> TRUE, bytes |-> wire[q].moved]
    PROVE  Transfer!ResultStep(i)
    BY DEF Transfer!ResultStep, Transfer!Completes, Transfer!NoResult

LEMMA PlanSame ==
    ASSUME NEW p \in Pipes,
           pipe'[p].inflight = pipe[p].inflight,
           InFlight(p) => /\ irp'[pipe[p].inflight].setup = irp[pipe[p].inflight].setup
                          /\ irp'[pipe[p].inflight].num_bytes = irp[pipe[p].inflight].num_bytes
    PROVE  PlanOf(p)' = PlanOf(p)
<1>1. InFlight(p)' <=> InFlight(p)
    BY DEF InFlight
<1>2. CASE InFlight(p)
    BY <1>1, <1>2 DEF PlanOf
<1>3. CASE ~InFlight(p)
    BY <1>1, <1>3 DEF PlanOf
<1> QED BY <1>2, <1>3

LEMMA SameNow ==
    ASSUME NEW p \in Pipes,
           pipe'[p].inflight = pipe[p].inflight, wire'[p] = wire[p],
           InFlight(p) => /\ irp'[pipe[p].inflight].setup = irp[pipe[p].inflight].setup
                          /\ irp'[pipe[p].inflight].num_bytes = irp[pipe[p].inflight].num_bytes
    PROVE  Transfer!Same(p)
<1>1. PlanOf(p)' = PlanOf(p)
    BY PlanSame
<1> QED BY <1>1, SeenSame

LEMMA BeginNow ==
    ASSUME XferInv', NEW p \in Pipes,
           pipe'[p].inflight # pipe[p].inflight, wire'[p] = Quiet
    PROVE  Transfer!Begin(p)
<1>1. IsPlan(PlanOf(p))'
    BY PlansAfter
<1>2. wire'[p].stages = <<>> /\ wire'[p].moved = 0
    BY DEF Quiet
<1> QED BY <1>1, <1>2, SeenBegin

\* An IRP whose result is none, and one that has failed or was cancelled.
LEMMA NoResultNow ==
    ASSUME NEW i \in Irps,
           \/ irp'[i] = irp[i]
           \/ irp'[i].flag # "DONE"
           \/ irp'[i].status # "COMPLETED" /\ irp'[i].actual = 0
    PROVE  Transfer!ResultStep(i)
<1>1. CASE irp'[i] = irp[i]
    <2>1. Reported(irp[i])' = Reported(irp[i])
        BY <1>1 DEF Reported
    <2> QED BY <2>1, SeenResult
<1>2. CASE irp'[i].flag # "DONE"
    <2>1. Reported(irp[i])' = [ok |-> FALSE, bytes |-> 0]
        BY <1>2 DEF Reported
    <2> QED BY <2>1, SeenResult
<1>3. CASE irp'[i].status # "COMPLETED" /\ irp'[i].actual = 0
    <2>1. Reported(irp[i])' = [ok |-> FALSE, bytes |-> 0]
        BY <1>3 DEF Reported
    <2> QED BY <2>1, SeenResult
<1> QED BY <1>1, <1>2, <1>3

\* A step of one pipe.
LEMMA OneStep ==
    ASSUME XferInv, NEW p \in Pipes,
           \A q \in Pipes \ {p} : pipe'[q] = pipe[q] /\ wire'[q] = wire[q],
           \A i \in Irps : irp[i].flag = "IDLE" \/ irp[i].ptr = p \/ irp'[i] = irp[i],
           Transfer!Stage(p) \/ Transfer!Begin(p) \/ Transfer!Same(p),
           \A i \in Irps : Transfer!ResultStep(i)
    PROVE  Transfer!Next
<1>1. ASSUME NEW q \in Pipes \ {p}
      PROVE  Transfer!Same(q)
    <2>1. InFlight(q) => /\ pipe[q].inflight \in Irps
                         /\ irp[pipe[q].inflight].ptr = q
                         /\ irp[pipe[q].inflight].flag = "INFLIGHT"
        BY PlanIs
    <2>2. InFlight(q) => irp'[pipe[q].inflight] = irp[pipe[q].inflight]
        BY <2>1
    <2> QED BY <1>1, <2>2, SameNow
<1> QED BY <1>1 DEF Transfer!Next

\* A step that no device and no client sees.
LEMMA NothingSeen ==
    ASSUME \A p \in Pipes : pipe'[p].inflight = pipe[p].inflight /\ wire'[p] = wire[p],
           irp' = irp
    PROVE  Transfer!Next
<1>1. \A p \in Pipes : Transfer!Same(p)
    BY SameNow
<1>2. \A i \in Irps : Transfer!ResultStep(i)
    BY NoResultNow
<1> QED BY <1>1, <1>2 DEF Transfer!Next

-----------------------------------------------------------------------------
(* The actions *)

LEMMA SubmitStep ==
    ASSUME XferInv, XferInv', NEW p \in Pipes, NEW i \in Irps, NEW s \in Setups,
           NEW n \in Sizes, Submit(p, i, s, n)
    PROVE  Transfer!Next
<1> USE Types
<1>1. irp[i].flag = "IDLE" /\ \A j \in Irps : j # i => irp'[j] = irp[j]
    BY DEF Submit, SubmitStart, SubmitPend
<1>2. irp'[i].flag # "DONE"
    BY DEF Submit, SubmitStart, SubmitPend, Fresh
<1>3. \A j \in Irps : Transfer!ResultStep(j)
    BY <1>1, <1>2, NoResultNow
<1>4. \A q \in Pipes \ {p} : pipe'[q] = pipe[q] /\ wire'[q] = wire[q]
    BY DEF Submit, SubmitStart, SubmitPend, Start
<1>5. CASE SubmitStart(p, i, s, n)
    <2> DEFINE q == [pipe[p] EXCEPT !.inflight = i]
    <2>1. pipe[p].inflight = NoIrp /\ i # NoIrp /\ pipe[p] \in PipeRecord
        BY <1>5, XferDescAssumption DEF SubmitStart, Queues
    <2>2. Start(p, q, irp'[i]) /\ irp'[i] \in IrpRecord
        <3>1. Start(p, q, irp'[i])
            BY <1>5 DEF SubmitStart
        <3> QED BY <3>1 DEF XferInv, XferDescTypeOK
    <2>3. q \in PipeRecord /\ q.inflight = i
        BY <2>1 DEF PipeRecord
    <2> HIDE DEF q
    <2>4. Filled(q, irp'[i], EpType[p]).inflight = i
        BY <2>2, <2>3, EpTypeIn, FilledLaid
    <2>5. pipe'[p].inflight = i /\ wire'[p] = Quiet
        BY <2>2, <2>4 DEF Start
    <2>6. Transfer!Begin(p)
        BY <2>1, <2>5, BeginNow
    <2> QED BY <1>1, <1>3, <1>4, <2>6, OneStep
<1>6. CASE SubmitPend(p, i, s, n)
    <2>1. pipe'[p].inflight = pipe[p].inflight /\ wire'[p] = wire[p]
        <3>1. pipe[p] \in PipeRecord
            OBVIOUS
        <3> QED BY <1>6, <3>1 DEF SubmitPend, PipeRecord
    <2>2. InFlight(p) => irp'[pipe[p].inflight] = irp[pipe[p].inflight]
        BY <1>1, PlanIs
    <2>3. Transfer!Same(p)
        BY <2>1, <2>2, SameNow
    <2> QED BY <1>1, <1>3, <1>4, <2>3, OneStep
<1> QED BY <1>5, <1>6 DEF Submit

LEMMA ClearStep ==
    ASSUME XferInv, NEW i \in Irps, Clear(i)
    PROVE  Transfer!Next
<1> USE Types
<1>1. /\ irp[i].flag = "IDLE" /\ \A j \in Irps : j # i => irp'[j] = irp[j]
      /\ irp'[i].flag # "DONE" /\ pipe' = pipe /\ wire' = wire
    BY DEF Clear, Fresh
<1>2. \A j \in Irps : Transfer!ResultStep(j)
    BY <1>1, NoResultNow
<1>3. ASSUME NEW p \in Pipes
      PROVE  Transfer!Same(p)
    <2>1. InFlight(p) => irp'[pipe[p].inflight] = irp[pipe[p].inflight]
        BY <1>1, PlanIs
    <2> QED BY <1>1, <2>1, SameNow
<1> QED BY <1>2, <1>3 DEF Transfer!Next

LEMMA DequeueStep ==
    ASSUME XferInv, NEW p \in Pipes, Dequeue(p)
    PROVE  Transfer!Next
<1> USE Types
<1> DEFINE i == Head(pipe[p].done)
<1>1. i \in Marked(p, "DONE")
    <2>1. pipe[p].done \in Seq(Marked(p, "DONE")) /\ pipe[p].done # <<>>
        BY QueuesOf DEF Dequeue
    <2> QED BY <2>1
<1>2. irp' = [irp EXCEPT ![i].flag = "IDLE", ![i].ptr = NoPipe] /\ wire' = wire
      /\ pipe' = [pipe EXCEPT ![p].done = Tail(@)]
    BY DEF Dequeue
<1> HIDE DEF i
<1>3. i \in Irps /\ irp[i].flag = "DONE" /\ irp[i].ptr = p
    BY <1>1 DEF Marked
<1>4. (\A j \in Irps : j # i => irp'[j] = irp[j]) /\ irp'[i].flag # "DONE"
    <2>1. irp[i] \in IrpRecord
        BY <1>3
    <2> QED BY <1>2, <1>3, <2>1 DEF IrpRecord
<1>5. \A j \in Irps : Transfer!ResultStep(j)
    BY <1>4, NoResultNow
<1>6. Transfer!Same(p)
    <2>1. pipe'[p].inflight = pipe[p].inflight /\ wire'[p] = wire[p]
        <3>1. pipe[p] \in PipeRecord
            OBVIOUS
        <3> QED BY <1>2, <3>1 DEF PipeRecord
    <2>2. InFlight(p) => irp'[pipe[p].inflight] = irp[pipe[p].inflight]
        BY <1>3, <1>4, PlanIs
    <2> QED BY <2>1, <2>2, SameNow
<1>7. \A q \in Pipes \ {p} : pipe'[q] = pipe[q] /\ wire'[q] = wire[q]
    BY <1>2
<1> QED BY <1>3, <1>4, <1>5, <1>6, <1>7, OneStep

\* The descriptor that a channel executes is the next stage of the plan.
LEMMA NextOfPlan ==
    ASSUME NEW u \in IrpRecord, NEW idx \in 0 .. 2, NEW st,
           \/ idx = 0 /\ st = SetupStage
           \/ idx = 1 /\ u.num_bytes # 0 /\ st = DataStage(u.setup.in, u.num_bytes)
           \/ idx = 2 /\ st = StatusStage(~(u.setup.in /\ u.num_bytes # 0))
    PROVE  LET plan == ControlPlan(u.setup.in, u.num_bytes)
           IN  /\ Len(Seen(idx, u)) < Len(plan)
               /\ st = plan[Len(Seen(idx, u)) + 1]
<1> DEFINE plan == ControlPlan(u.setup.in, u.num_bytes)
           data == DataStage(u.setup.in, u.num_bytes)
           ack == StatusStage(TRUE)
           status == StatusStage(~u.setup.in)
<1>1. u.num_bytes \in Nat /\ u.setup.in \in BOOLEAN
    BY SetupIn
<1>2. /\ u.num_bytes = 0 => plan = <<SetupStage, ack>>
      /\ u.num_bytes # 0 => plan = <<SetupStage, data, status>>
    BY DEF ControlPlan
<1> HIDE DEF plan, data, ack, status
<1>3. CASE idx = 0
    <2>1. Len(Seen(idx, u)) = 0 /\ st = SetupStage
        BY <1>3 DEF Seen
    <2>2. Len(plan) > 0 /\ plan[1] = SetupStage
        BY <1>1, <1>2
    <2> QED BY <2>1, <2>2 DEF plan
<1>4. CASE idx = 1
    <2>1. Len(Seen(idx, u)) = 1 /\ st = data /\ u.num_bytes # 0
        BY <1>4 DEF Seen, data
    <2>2. Len(plan) > 1 /\ plan[2] = data
        BY <1>2, <2>1
    <2> QED BY <2>1, <2>2 DEF plan
<1>5. CASE idx = 2 /\ u.num_bytes = 0
    <2>1. Len(Seen(idx, u)) = 1
        BY <1>5 DEF Seen
    <2>2. Len(plan) = 2 /\ plan[2] = ack
        BY <1>2, <1>5
    <2>3. st = ack
        <3>1. st = StatusStage(~(u.setup.in /\ u.num_bytes # 0))
            BY <1>5
        <3>2. (~(u.setup.in /\ u.num_bytes # 0)) = TRUE
            BY Zenon, <1>5
        <3> QED BY Zenon, <3>1, <3>2 DEF ack, status
    <2> QED BY <2>1, <2>2, <2>3 DEF plan
<1>6. CASE idx = 2 /\ u.num_bytes # 0
    <2>1. Len(Seen(idx, u)) = 2
        BY <1>6 DEF Seen
    <2>2. Len(plan) = 3 /\ plan[3] = status
        BY <1>2, <1>6
    <2>3. st = status
        <3>1. st = StatusStage(~(u.setup.in /\ u.num_bytes # 0))
            BY <1>6
        <3>2. (~(u.setup.in /\ u.num_bytes # 0)) = (~u.setup.in)
            BY Zenon, <1>1, <1>6
        <3> QED BY Zenon, <3>1, <3>2 DEF ack, status
    <2> QED BY <2>1, <2>2, <2>3 DEF plan
<1> QED BY <1>3, <1>4, <1>5, <1>6

LEMMA RunStep ==
    ASSUME XferInv, NEW p \in Pipes, NEW m \in 0 .. Room(p), ChanRun(p, m)
    PROVE  Transfer!Next
<1> USE Types
<1> DEFINE u == irp[pipe[p].inflight]
           d == Current(p)
           idx == chan[p].idx
           type == EpType[p]
           s == StageAt(p)
<1>1. /\ Executes(p) /\ irp' = irp
      /\ m \in 0 .. d.len /\ (d.setup => m = 0)
      /\ pipe'[p].inflight = pipe[p].inflight
      /\ wire'[p].stages = Append(wire[p].stages, s)
      /\ wire'[p].moved = wire[p].moved + m
      /\ \A r \in Pipes \ {p} :
            pipe'[r] = pipe[r] /\ chan'[r] = chan[r] /\ wire'[r] = wire[r]
    BY RunEffect
<1>2. /\ InFlight(p) /\ u \in IrpRecord /\ d \in Desc
      /\ type = "CTRL" =>
            \/ idx = 0 /\ d.setup = TRUE /\ s = SetupStage
            \/ /\ idx = 1 /\ u.num_bytes # 0 /\ d.setup = FALSE /\ d.len = u.num_bytes
               /\ s = DataStage(u.setup.in, u.num_bytes)
            \/ /\ idx = 2 /\ d.setup = FALSE /\ d.len = 0
               /\ s = StatusStage(~(u.setup.in /\ u.num_bytes # 0))
      /\ type # "CTRL" =>
            /\ idx = 0 /\ d.setup = FALSE /\ d.len = u.num_bytes
            /\ BulkPlan(type = "BULK_IN", u.num_bytes) = <<s>>
    BY <1>1, Executing
<1>3. Busy(pipe[p], chan[p], u, wire[p], type)
    BY <1>2 DEF XferInv, PipeOK, Runnable
<1>4. s.setup = d.setup /\ s.len = d.len
    <2>1. s.len = d.len
        BY DEF StageAt
    <2>2. s.setup = d.setup
        BY Zenon DEF StageAt
    <2> QED BY Zenon, <2>1, <2>2
<1>5. wire[p].moved \in Nat /\ d.len \in Nat /\ d.setup \in BOOLEAN
    BY <1>2 DEF Desc
<1>6. wire'[p].moved \in wire[p].moved .. (wire[p].moved + IF s.setup THEN 0 ELSE s.len)
    <2> HIDE DEF s, d
    <2>1. CASE s.setup
        <3>1. m = 0
            BY Zenon, <1>1, <1>4, <2>1
        <3> QED BY <1>1, <1>5, <2>1, <3>1
    <2>2. CASE ~s.setup
        BY <1>1, <1>4, <1>5, <2>2
    <2> QED BY <2>1, <2>2
<1>7. Len(wire[p].stages) < Len(PlanOf(p)) /\ s = PlanOf(p)[Len(wire[p].stages) + 1]
    <2>1. CASE type = "CTRL"
        <3> DEFINE plan == ControlPlan(u.setup.in, u.num_bytes)
        <3>1. PlanOf(p) = plan
            BY <1>2, <2>1, PlanIs
        <3>2. wire[p].stages = Seen(idx, u)
            BY <1>3, <2>1 DEF Busy, PlacedControl
        <3>3. idx \in 0 .. 2
            BY <1>2, <2>1
        <3> HIDE DEF u, s, idx
        <3>4. Len(Seen(idx, u)) < Len(plan) /\ s = plan[Len(Seen(idx, u)) + 1]
            BY <1>2, <2>1, <3>3, NextOfPlan
        <3> QED BY <3>1, <3>2, <3>4
    <2>2. CASE type # "CTRL"
        <3>1. PlanOf(p) = BulkPlan(type = "BULK_IN", u.num_bytes)
            BY <1>2, <2>2, PlanIs
        <3>2. PlanOf(p) = <<s>>
            BY Zenon, <1>2, <2>2, <3>1
        <3>3. wire[p].stages = <<>>
            BY <1>2, <1>3, <2>2 DEF Busy, PlacedBulk
        <3> HIDE DEF s
        <3> QED BY <3>2, <3>3
    <2> QED BY <2>1, <2>2
<1>8. PlanOf(p)' = PlanOf(p)
    BY <1>1, PlanSame
<1>9. Transfer!Stage(p)
    <2> HIDE DEF s
    <2> QED BY <1>1, <1>2, <1>6, <1>7, <1>8, SeenStage
<1>10. \A i \in Irps : Transfer!ResultStep(i)
    BY <1>1, NoResultNow
<1> QED BY <1>1, <1>9, <1>10, OneStep

LEMMA QuietStep ==
    ASSUME XferInv, NEW p \in Pipes,
           Fails(p) \/ IntrHalt(p) \/ IntrIgnored(p) \/ ClearEmpty(p) \/ Lose
    PROVE  Transfer!Next
<1> USE Types
<1>1. wire' = wire /\ irp' = irp
    BY DEF Fails, ChanFail, IntrHalt, IntrIgnored, ClearEmpty, Lose
<1>2. \A q \in Pipes : pipe'[q].inflight = pipe[q].inflight
    <2>1. pipe' = pipe \/ pipe' = [pipe EXCEPT ![p].state = "ACTIVE"]
        BY DEF Fails, ChanFail, IntrHalt, IntrIgnored, ClearEmpty, Lose
    <2>2. \A q \in Pipes : pipe[q] \in PipeRecord
        OBVIOUS
    <2>3. CASE pipe' = pipe
        BY <2>3
    <2>4. CASE pipe' = [pipe EXCEPT ![p].state = "ACTIVE"]
        BY <2>2, <2>4 DEF PipeRecord
    <2> QED BY <2>1, <2>3, <2>4
<1> QED BY <1>1, <1>2, NothingSeen

\* What the wire has seen of a transfer that has run to its end.
LEMMA EndOfPlan ==
    ASSUME NEW u \in IrpRecord, NEW c, NEW q, NEW w, c.event = "SLOT_DONE",
           LaidControl(q, u), PlacedControl(q, c, u, w)
    PROVE  /\ w.stages = ControlPlan(u.setup.in, u.num_bytes)
           /\ w.moved = u.num_bytes - (IF q.ctrl_data_stg_skip THEN 0 ELSE q.list[2].rem)
<1>1. c.idx = 3 /\ w.stages = Seen(c.idx, u) /\ w.moved = u.num_bytes - q.list[2].rem
    BY DEF PlacedControl
<1> DEFINE plan == ControlPlan(u.setup.in, u.num_bytes)
<1>2. Seen(3, u) = plan
    <2>1. Seen(3, u) = IF 3 = 0 THEN <<>>
                       ELSE IF 3 = 1 \/ (3 = 2 /\ u.num_bytes = 0) THEN <<SetupStage>>
                       ELSE IF 3 = 2 THEN <<SetupStage, DataStage(u.setup.in, u.num_bytes)>>
                       ELSE plan
        BY Zenon DEF Seen
    <2> HIDE DEF plan
    <2> QED BY <2>1
<1>3. u.num_bytes \in Nat
    BY SetupIn
<1>4. q.list[2].rem \in 0 .. u.num_bytes
    BY DEF LaidControl
<1>5. q.ctrl_data_stg_skip <=> u.num_bytes = 0
    BY Zenon DEF LaidControl
<1>6. w.moved = u.num_bytes - (IF q.ctrl_data_stg_skip THEN 0 ELSE q.list[2].rem)
    <2>1. CASE u.num_bytes = 0
        <3>1. q.list[2].rem = 0
            BY <1>4, <2>1
        <3>2. (IF q.ctrl_data_stg_skip THEN 0 ELSE q.list[2].rem) = q.list[2].rem
            BY Zenon, <3>1
        <3> QED BY <1>1, <3>2
    <2>2. CASE u.num_bytes # 0
        <3>1. (IF q.ctrl_data_stg_skip THEN 0 ELSE q.list[2].rem) = q.list[2].rem
            BY Zenon, <1>5, <2>2
        <3> QED BY <1>1, <3>1
    <2> QED BY <2>1, <2>2
<1> QED BY Zenon, <1>1, <1>2, <1>6

LEMMA RanToEnd ==
    ASSUME XferInv, NEW p \in Pipes, chan[p].event = "SLOT_DONE"
    PROVE  /\ InFlight(p) /\ wire[p].stages = PlanOf(p)
           /\ Completed(p).flag = "DONE" /\ Completed(p).status = "COMPLETED"
           /\ Completed(p).actual = wire[p].moved
<1> USE Types
<1> DEFINE u == irp[pipe[p].inflight]
           q == pipe[p]
           c == chan[p]
           w == wire[p]
           rem == Remaining(pipe[p], EpType[p])
           plan == ControlPlan(u.setup.in, u.num_bytes)
           in == (EpType[p] = "BULK_IN")
<1>1. u \in IrpRecord /\ InFlight(p) /\ Busy(q, c, u, w, EpType[p])
    BY Interrupted
<1>2. Completed(p).flag = "DONE" /\ Completed(p).status = "COMPLETED"
      /\ Completed(p).actual = u.num_bytes - rem
    BY CompletedType
<1>3. w.stages = PlanOf(p) /\ w.moved = u.num_bytes - rem
    <2>1. CASE EpType[p] = "CTRL"
        <3>1. LaidControl(q, u) /\ PlacedControl(q, c, u, w)
            BY <1>1, <2>1 DEF Busy
        <3>2. PlanOf(p) = plan
            BY <1>1, <2>1, PlanIs
        <3>3. rem = IF q.ctrl_data_stg_skip THEN 0 ELSE q.list[2].rem
            BY Zenon, <2>1 DEF Remaining
        <3>4. c.event = "SLOT_DONE"
            OBVIOUS
        <3> HIDE DEF u, q, c, w, rem
        <3>5. w.stages = plan
              /\ w.moved = u.num_bytes - (IF q.ctrl_data_stg_skip THEN 0 ELSE q.list[2].rem)
            BY <1>1, <3>1, <3>4, EndOfPlan
        <3> HIDE DEF plan
        <3> QED BY Zenon, <3>2, <3>3, <3>5
    <2>2. CASE EpType[p] # "CTRL"
        <3>1. PlacedBulk(q, c, u, w, in) /\ c.idx = 1
            BY <1>1, <2>2 DEF Busy, PlacedBulk
        <3>2. PlanOf(p) = BulkPlan(in, u.num_bytes)
            BY <1>1, <2>2, PlanIs
        <3>3. w.stages = BulkPlan(in, u.num_bytes) /\ w.moved = u.num_bytes - q.list[1].rem
            BY <3>1 DEF PlacedBulk
        <3>4. rem = q.list[1].rem
            BY <2>2 DEF Remaining
        <3> QED BY <3>2, <3>3, <3>4
    <2> QED BY <2>1, <2>2
<1> QED BY <1>1, <1>2, <1>3

\* The result of its IRP is the one that the device has seen.
LEMMA CompletesNow ==
    ASSUME XferInv, NEW p \in Pipes, NEW i \in Irps, pipe[p].inflight = i,
           chan[p].event = "SLOT_DONE",
           pipe'[p].inflight # i, irp'[i] = Completed(p)
    PROVE  Transfer!ResultStep(i)
<1>1. /\ wire[p].stages = PlanOf(p)
      /\ irp'[i].flag = "DONE" /\ irp'[i].status = "COMPLETED"
      /\ irp'[i].actual = wire[p].moved
    BY RanToEnd
<1>2. Reported(irp[i])' = [ok |-> TRUE, bytes |-> wire[p].moved]
    <2>1. (irp'[i].status = "COMPLETED") = TRUE
        BY <1>1
    <2> QED BY Zenon, <1>1, <2>1 DEF Reported
<1>3. \E q \in Pipes : /\ pipe[q].inflight = i /\ pipe'[q].inflight # i
                       /\ wire[q].stages = PlanOf(q)
                       /\ Reported(irp[i])' = [ok |-> TRUE, bytes |-> wire[q].moved]
    BY Zenon, <1>1, <1>2
<1> QED BY <1>3, SeenResult

LEMMA IntrDoneStep ==
    ASSUME XferInv, XferInv', NEW p \in Pipes, IntrDone(p)
    PROVE  Transfer!Next
<1> USE Types
<1> DEFINE i == pipe[p].inflight
           h == Head(pipe[p].pending)
<1>1. chan[p].event = "SLOT_DONE"
    BY DEF IntrDone
<1>2. InFlight(p) /\ i \in Irps /\ irp[i].ptr = p /\ i # NoIrp
    BY <1>1, Interrupted DEF Owned, InFlight
<1>3. /\ pipe'[p].inflight # i /\ wire'[p] = Quiet
      /\ irp'[i] = Completed(p)
      /\ \A j \in Irps : \/ j = i \/ irp'[j] = irp[j]
                         \/ irp'[j].flag = "INFLIGHT" /\ irp[j].ptr = p
    <2>1. CASE pipe[p].pending = <<>>
        <3>1. irp' = [irp EXCEPT ![i] = Completed(p)] /\ ~InFlight(p)'
            BY <2>1, IntrDoneLast
        <3>2. wire' = [wire EXCEPT ![p] = Quiet]
            <4>1. Returned(pipe[p]).pending = <<>>
                <5>1. pipe[p] \in PipeRecord
                    OBVIOUS
                <5> QED BY <1>2, <2>1, <5>1, ReturnedFields
            <4> QED BY <4>1 DEF IntrDone
        <3> QED BY <1>2, <3>1, <3>2 DEF InFlight
    <2>2. CASE pipe[p].pending # <<>>
        <3>1. /\ h \in Irps /\ i # h
              /\ irp' = [irp EXCEPT ![i] = Completed(p), ![h].flag = "INFLIGHT"]
              /\ pipe'[p].inflight = h /\ wire'[p] = Quiet
            BY <2>2, IntrDoneNext
        <3>2. h \in Waiting(p)
            <4>1. pipe[p].pending \in Seq(Waiting(p))
                BY QueuesOf
            <4> QED BY <2>2, <4>1
        <3>3. irp[h].ptr = p /\ irp[h] \in IrpRecord
            BY <3>1, <3>2 DEF Waiting, Marked
        <3> HIDE DEF h, i
        <3>4. irp'[h] = [irp[h] EXCEPT !.flag = "INFLIGHT"] /\ irp'[i] = Completed(p)
              /\ \A j \in Irps : j # i /\ j # h => irp'[j] = irp[j]
            BY <1>2, <3>1
        <3>5. irp'[h].flag = "INFLIGHT"
            BY <3>3, <3>4 DEF IrpRecord
        <3> QED BY <3>1, <3>3, <3>4, <3>5
    <2> QED BY <2>1, <2>2
<1>5. ASSUME NEW j \in Irps
      PROVE  Transfer!ResultStep(j)
    <2>1. CASE j = i
        <3>1. pipe[p].inflight = j /\ pipe'[p].inflight # j /\ irp'[j] = Completed(p)
            BY <1>3, <2>1
        <3> QED BY <1>1, <3>1, CompletesNow
    <2>2. CASE j # i
        <3>1. irp'[j] = irp[j] \/ irp'[j].flag # "DONE"
            BY <1>3, <2>2
        <3> QED BY <3>1, NoResultNow
    <2> QED BY <2>1, <2>2
<1>6. Transfer!Begin(p)
    BY <1>3, BeginNow
<1>7. \A q \in Pipes \ {p} : pipe'[q] = pipe[q] /\ wire'[q] = wire[q]
    BY DEF IntrDone, Start
<1>8. \A j \in Irps : irp[j].flag = "IDLE" \/ irp[j].ptr = p \/ irp'[j] = irp[j]
    BY <1>2, <1>3
<1> QED BY <1>5, <1>6, <1>7, <1>8, OneStep

LEMMA IntrErrorStep ==
    ASSUME XferInv, XferInv', NEW p \in Pipes, IntrError(p)
    PROVE  Transfer!Next
<1> USE Types
<1> DEFINE i == pipe[p].inflight
<1>1. /\ InFlight(p) /\ i \in Marked(p, "INFLIGHT")
      /\ pipe'[p].inflight = NoIrp /\ wire'[p] = Quiet
      /\ irp'[i].status # "COMPLETED" /\ irp'[i].actual = 0
      /\ \A j \in Irps : j # i => irp'[j] = irp[j]
    BY IntrErrorKeeps
<1>2. Transfer!Begin(p)
    BY <1>1, BeginNow DEF InFlight
<1>3. \A j \in Irps : Transfer!ResultStep(j)
    BY <1>1, NoResultNow
<1>4. \A q \in Pipes \ {p} : pipe'[q] = pipe[q] /\ wire'[q] = wire[q]
    BY DEF IntrError
<1>5. \A j \in Irps : irp[j].flag = "IDLE" \/ irp[j].ptr = p \/ irp'[j] = irp[j]
    BY <1>1 DEF Marked
<1> QED BY <1>2, <1>3, <1>4, <1>5, OneStep

LEMMA ResetStep ==
    ASSUME XferInv, NEW p \in Pipes, Reset(p)
    PROVE  Transfer!Next
<1> USE Types
<1>1. /\ pipe'[p].inflight = pipe[p].inflight
      /\ \A j \in Irps : \/ irp'[j] = irp[j]
                         \/ j \in Waiting(p) /\ irp'[j].flag = "DONE"
                            /\ irp'[j].status = "CANCELLED" /\ irp'[j].actual = 0
    BY ResetKeeps
<1>2. wire' = wire /\ ~InFlight(p)
      /\ \A q \in Pipes \ {p} : pipe'[q] = pipe[q] /\ wire'[q] = wire[q]
    BY DEF Reset, Retire, InFlight
<1>3. Transfer!Same(p)
    BY <1>1, <1>2, SameNow
<1>4. \A j \in Irps : Transfer!ResultStep(j)
    BY <1>1, NoResultNow
<1>5. \A j \in Irps : irp[j].flag = "IDLE" \/ irp[j].ptr = p \/ irp'[j] = irp[j]
    BY <1>1 DEF Waiting, Marked
<1> QED BY <1>2, <1>3, <1>4, <1>5, OneStep

LEMMA ClearStartStep ==
    ASSUME XferInv, XferInv', NEW p \in Pipes, ClearStart(p)
    PROVE  Transfer!Next
<1> USE Types
<1> DEFINE h == Head(pipe[p].pending)
<1>1. /\ h \in Irps /\ irp' = [irp EXCEPT ![h].flag = "INFLIGHT"]
      /\ irp[h].flag = "PENDING"
      /\ ~InFlight(p) /\ pipe'[p].inflight = h /\ wire'[p] = Quiet
    BY ClearStartKeeps
<1>2. h \in Waiting(p)
    <2>1. pipe[p].pending \in Seq(Waiting(p)) /\ pipe[p].pending # <<>>
        BY QueuesOf DEF ClearStart
    <2> QED BY <2>1
<1> HIDE DEF h
<1>3. irp'[h].flag = "INFLIGHT" /\ \A j \in Irps : j # h => irp'[j] = irp[j]
    <2>1. irp[h] \in IrpRecord
        BY <1>1
    <2> QED BY <1>1, <2>1 DEF IrpRecord
<1>4. h # NoIrp /\ irp[h].ptr = p
    BY <1>1, <1>2, XferDescAssumption DEF Waiting, Marked
<1>5. Transfer!Begin(p)
    BY <1>1, <1>4, BeginNow DEF InFlight
<1>6. \A j \in Irps : Transfer!ResultStep(j)
    BY <1>3, NoResultNow
<1>7. \A q \in Pipes \ {p} : pipe'[q] = pipe[q] /\ wire'[q] = wire[q]
    BY DEF ClearStart, Start
<1>8. \A j \in Irps : irp[j].flag = "IDLE" \/ irp[j].ptr = p \/ irp'[j] = irp[j]
    BY <1>3, <1>4
<1> QED BY <1>5, <1>6, <1>7, <1>8, OneStep

LEMMA InvalidateStep ==
    ASSUME XferInv, NEW p \in Pipes, Invalidate(p)
    PROVE  Transfer!Next
<1> USE Types
<1>1. /\ XferInv' /\ ~InFlight(p)' /\ wire'[p] = Quiet
      /\ \A j \in Irps : \/ irp'[j] = irp[j]
                         \/ /\ irp'[j].flag = "DONE" /\ irp'[j].status = "NO_DEVICE"
                            /\ irp'[j].actual = 0
      /\ \A j \in Irps : irp[j].flag = "IDLE" \/ irp[j].ptr = p \/ irp'[j] = irp[j]
    BY InvalidateKeeps
<1>2. \A j \in Irps : Transfer!ResultStep(j)
    BY <1>1, NoResultNow
<1>3. \A q \in Pipes \ {p} : pipe'[q] = pipe[q] /\ wire'[q] = wire[q]
    BY DEF Invalidate, Retire
<1>4. pipe'[p].inflight = NoIrp
    BY <1>1 DEF InFlight
<1>5. CASE InFlight(p)
    <2>1. Transfer!Begin(p)
        BY <1>1, <1>4, <1>5, BeginNow DEF InFlight
    <2> QED BY <1>1, <1>2, <1>3, <2>1, OneStep
<1>6. CASE ~InFlight(p)
    <2>1. wire[p] = Quiet
        BY <1>6 DEF XferInv, PipeOK, Runnable, Resting
    <2>2. pipe'[p].inflight = pipe[p].inflight /\ wire'[p] = wire[p]
        BY <1>1, <1>4, <1>6, <2>1 DEF InFlight
    <2>3. Transfer!Same(p)
        BY <1>6, <2>2, SameNow
    <2> QED BY <1>1, <1>2, <1>3, <2>3, OneStep
<1> QED BY <1>5, <1>6

LEMMA ReallocateStep == XferInv /\ Reallocate => Transfer!Next
    BY ReallocateKeeps, NothingSeen

-----------------------------------------------------------------------------
(* The refinement *)

LEMMA NextStep == XferInv /\ XferInv' /\ [XferNext]_vars => Transfer!Next
<1> SUFFICES ASSUME XferInv, XferInv', [XferNext]_vars
             PROVE  Transfer!Next
    OBVIOUS
<1>1. ASSUME NEW p \in Pipes, NEW i \in Irps, NEW s \in Setups, NEW n \in Sizes,
             Submit(p, i, s, n)
      PROVE  Transfer!Next
    BY <1>1, SubmitStep
<1>2. ASSUME NEW i \in Irps, Clear(i)
      PROVE  Transfer!Next
    BY <1>2, ClearStep
<1>3. ASSUME NEW p \in Pipes, Runs(p)
      PROVE  Transfer!Next
    BY <1>3, RunStep DEF Runs
<1>4. ASSUME NEW p \in Pipes,
             Fails(p) \/ IntrHalt(p) \/ IntrIgnored(p) \/ ClearEmpty(p)
      PROVE  Transfer!Next
    BY <1>4, QuietStep
<1>5. ASSUME NEW p \in Pipes, IntrDone(p) \/ IntrError(p)
      PROVE  Transfer!Next
    BY <1>5, IntrDoneStep, IntrErrorStep
<1>6. ASSUME NEW p \in Pipes, Dequeue(p)
      PROVE  Transfer!Next
    BY <1>6, DequeueStep
<1>7. ASSUME NEW p \in Pipes, Reset(p) \/ ClearStart(p) \/ Invalidate(p)
      PROVE  Transfer!Next
    BY <1>7, ResetStep, ClearStartStep, InvalidateStep
<1>8. CASE Lose
    <2>1. irp' = irp /\ pipe' = pipe /\ wire' = wire
        BY <1>8 DEF Lose
    <2> QED BY <2>1, NothingSeen
<1>9. CASE Reallocate
    BY <1>9, ReallocateStep
<1>10. CASE UNCHANGED vars
    <2>1. irp' = irp /\ pipe' = pipe /\ wire' = wire
        BY <1>10 DEF vars
    <2> QED BY <2>1, NothingSeen
<1> QED
    BY <1>1, <1>2, <1>3, <1>4, <1>5, <1>6, <1>7, <1>8, <1>9, <1>10
    DEF XferNext, Interrupt

LEMMA InitStep == XferInit => Transfer!Init
<1> SUFFICES ASSUME XferInit
             PROVE  Transfer!Init
    OBVIOUS
<1>1. ASSUME NEW p \in Pipes
      PROVE  /\ pipe[p].inflight = NoIrp /\ PlanOf(p) = <<>>
             /\ wire[p].stages = <<>> /\ wire[p].moved = 0
    BY DEF XferInit, NewPipe, Quiet, PlanOf, InFlight
<1>2. ASSUME NEW i \in Irps
      PROVE  Reported(irp[i]) = [ok |-> FALSE, bytes |-> 0]
    BY DEF XferInit, Fresh, Reported
<1> QED BY <1>1, <1>2 DEF Transfer!Init, Transfer!NoResult

\* For every number of pipes and IRPs, whatever the clients submit and however
\* transfers end, a device sees the stages of its transfers in their order, none left
\* out and none twice, and an IRP is reported as completed, and with the bytes that
\* moved, only if they were all executed (_xfer_desc_list_fill, _continue and _parse).
THEOREM DescriptorsImplementTransfers == XferSpec => IsControlTransfer
<1>1. XferInit => Transfer!Init
    BY InitStep
<1>2. XferInv /\ XferInv' /\ [XferNext]_vars => [Transfer!Next]_(Transfer!xferVars)
    BY NextStep
<1> QED BY <1>1, <1>2, XferInvariant, PTL DEF XferSpec, IsControlTransfer, Transfer!TransferSpec

=============================================================================
