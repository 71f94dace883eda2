---------------------------- MODULE HcdPipeFifo ----------------------------
(***************************************************************************)
(* Where the IRPs are: for every number of pipes, IRPs and tasks, every    *)
(* IRP is in one place of one pipe, its result is final, and each pipe     *)
(* implements the first-in first-out queue of IrpFifo.                     *)
(*                                                                         *)
(* hcd_irp_enqueue checks an IRP before it enters the critical section, so *)
(* this is only so if no two tasks are enqueuing one IRP: OneOwner.  It    *)
(* follows when every IRP is enqueued by one task (OwnedIrps).             *)
(*                                                                         *)
(* Almost every step moves IRPs within one pipe without changing its queue *)
(* as the client sees it: Moves says so, each operation on a pipe object   *)
(* is shown to do it, and such moves compose.  What remains are the steps  *)
(* that put an IRP into a queue, cancel one, and take one out.             *)
(***************************************************************************)
EXTENDS HcdPipeProofs

-----------------------------------------------------------------------------
(* Sequences *)

\* A queue of one element.
LEMMA OneElem ==
    ASSUME NEW S, NEW e \in S
    PROVE  /\ <<e>> \in Seq(S) /\ Len(<<e>>) = 1 /\ <<e>> # <<>>
           /\ Elems(<<e>>) = {e} /\ Distinct(<<e>>)
    BY DEF Elems, Distinct

\* Queues without repetitions and with nothing in common.
LEMMA ConcatDistinct ==
    ASSUME NEW S, NEW s \in Seq(S), NEW t \in Seq(S),
           Distinct(s), Distinct(t), Elems(s) \cap Elems(t) = {}
    PROVE  Distinct(s \o t)
<1>1. /\ \A n \in 1 .. Len(s) + Len(t) : (s \o t)[n] =
            IF n <= Len(s) THEN s[n] ELSE t[n - Len(s)]
      /\ s \o t \in Seq(S) /\ Len(s \o t) = Len(s) + Len(t)
    BY ConcatProperties
<1>2. /\ DOMAIN (s \o t) = 1 .. Len(s) + Len(t)
      /\ DOMAIN s = 1 .. Len(s) /\ DOMAIN t = 1 .. Len(t)
      /\ Len(s) \in Nat /\ Len(t) \in Nat
    BY <1>1, LenProperties
<1> SUFFICES ASSUME NEW m \in 1 .. Len(s) + Len(t), NEW n \in 1 .. Len(s) + Len(t),
                    (s \o t)[m] = (s \o t)[n]
             PROVE  m = n
    BY <1>2 DEF Distinct
<1> DEFINE e == (s \o t)[m]
<1>3. ASSUME NEW k \in 1 .. Len(s) + Len(t)
      PROVE  /\ k <= Len(s) => k \in 1 .. Len(s) /\ (s \o t)[k] = s[k] /\ s[k] \in Elems(s)
             /\ ~(k <= Len(s)) => /\ k - Len(s) \in 1 .. Len(t)
                                  /\ (s \o t)[k] = t[k - Len(s)]
                                  /\ t[k - Len(s)] \in Elems(t)
    BY <1>1, <1>2 DEF Elems
<1>4. CASE m <= Len(s) /\ n <= Len(s)
    BY <1>2, <1>3, <1>4 DEF Distinct
<1>5. CASE ~(m <= Len(s)) /\ ~(n <= Len(s))
    <2>1. m - Len(s) = n - Len(s)
        BY <1>2, <1>3, <1>5 DEF Distinct
    <2> QED BY <1>2, <2>1
<1>6. CASE ~(m <= Len(s) <=> n <= Len(s))
    BY <1>3, <1>6
<1> QED BY <1>4, <1>5, <1>6

\* The first element of a queue, and the rest.
LEMMA SplitHead ==
    ASSUME NEW S, NEW s \in Seq(S), s # <<>>
    PROVE  /\ s = <<Head(s)>> \o Tail(s)
           /\ Distinct(s) => Distinct(Tail(s)) /\ Head(s) \notin Elems(Tail(s))
<1>1. /\ Head(s) \in S /\ Tail(s) \in Seq(S)
      /\ Len(Tail(s)) = Len(s) - 1
      /\ \A n \in 1 .. Len(Tail(s)) : Tail(s)[n] = s[n + 1]
    BY HeadTailProperties
<1>2. /\ DOMAIN s = 1 .. Len(s) /\ DOMAIN Tail(s) = 1 .. Len(s) - 1
      /\ Len(s) \in Nat \ {0} /\ Head(s) = s[1]
    BY <1>1, LenProperties, EmptySeq
<1>3. s = <<Head(s)>> \o Tail(s)
    <2> DEFINE u == <<Head(s)>> \o Tail(s)
    <2>1. <<Head(s)>> \in Seq(S) /\ Len(<<Head(s)>>) = 1
        BY <1>1, OneElem
    <2>2. /\ u \in Seq(S) /\ Len(u) = Len(s)
          /\ \A n \in 1 .. Len(s) : u[n] = IF n <= 1 THEN <<Head(s)>>[n] ELSE Tail(s)[n - 1]
        <3>1. /\ u \in Seq(S) /\ Len(u) = 1 + Len(Tail(s))
              /\ \A n \in 1 .. 1 + Len(Tail(s)) : u[n] =
                    IF n <= 1 THEN <<Head(s)>>[n] ELSE Tail(s)[n - 1]
            BY <1>1, <2>1, ConcatProperties
        <3>2. 1 + Len(Tail(s)) = Len(s)
            BY <1>1, <1>2
        <3> QED BY <3>1, <3>2
    <2> HIDE DEF u
    <2>3. ASSUME NEW n \in 1 .. Len(s)
          PROVE  u[n] = s[n]
        <3>1. CASE n = 1
            BY <3>1, <2>2, <1>2
        <3>2. CASE n # 1
            <4>1. n - 1 \in 1 .. Len(Tail(s)) /\ (n - 1) + 1 = n /\ ~(n <= 1)
                BY <3>2, <1>1, <1>2
            <4> QED BY <4>1, <2>2, <1>1
        <3> QED BY <3>1, <3>2
    <2> QED BY <2>2, <2>3, SeqEqual DEF u
<1>4. ASSUME Distinct(s)
      PROVE  Distinct(Tail(s)) /\ Head(s) \notin Elems(Tail(s))
    <2>1. \A n \in 1 .. Len(s) - 1 : n + 1 \in 1 .. Len(s) /\ Tail(s)[n] = s[n + 1]
                                     /\ n + 1 # 1
        BY <1>1, <1>2
    <2>2. ASSUME NEW m \in 1 .. Len(s) - 1, NEW n \in 1 .. Len(s) - 1,
                 Tail(s)[m] = Tail(s)[n]
          PROVE  m = n
        <3>1. m + 1 = n + 1
            BY <2>1, <2>2, <1>2, <1>4 DEF Distinct
        <3> QED BY <3>1, <1>2
    <2>3. Distinct(Tail(s))
        BY <2>2, <1>2 DEF Distinct
    <2>4. 1 \in 1 .. Len(s)
        BY <1>2
    <2>5. \A n \in 1 .. Len(s) - 1 : Tail(s)[n] # s[1]
        BY <2>1, <2>4, <1>2, <1>4 DEF Distinct
    <2> QED BY <2>3, <2>5, <1>2 DEF Elems
<1> QED BY <1>3, <1>4

-----------------------------------------------------------------------------
(* The invariant *)

\* The places of a pipe: whose IRPs they hold, and what the flags of these say.
PlacedIn(p, q, m) ==
    /\ Distinct(q.done) /\ Distinct(q.pending)
    /\ \A i \in Elems(q.done) : m[i].ptr = p /\ m[i].flag = "DONE"
    /\ q.inflight # NoIrp => m[q.inflight].ptr = p /\ m[q.inflight].flag = "INFLIGHT"
    /\ \A i \in Elems(q.pending) : m[i].ptr = p /\ m[i].flag = "PENDING"

Holds(q, i) == i \in Elems(q.done) \/ i = q.inflight \/ i \in Elems(q.pending)

\* An IRP that is not finished has no result yet.
NoEarlyResult(m) == \A i \in Irps : m[i].flag # "DONE" => m[i].status = "none"

Placed ==
    /\ \A p \in Pipes : PlacedIn(p, pipe[p], irp)
    /\ \A i \in Irps : IF irp[i].ptr = NoPipe THEN irp[i].flag = "IDLE"
                                              ELSE Holds(pipe[irp[i].ptr], i)
    /\ NoEarlyResult(irp)

\* An IRP that a task is enqueuing is still in no queue.
CheckedIdle == \A t \in Tasks : Enqueuing(t) => irp[call[t].irp].ptr = NoPipe

\* No two tasks are enqueuing one IRP.
OneOwner ==
    \A t, u \in Tasks :
        Enqueuing(t) /\ Enqueuing(u) /\ call[t].irp = call[u].irp => t = u

\* Where the IRPs of a pipe are in the queue its client sees.
LEMMA QueueElems ==
    ASSUME NEW q \in PipeRecord
    PROVE  /\ q.done \in Seq(Irps) /\ q.pending \in Seq(Irps)
           /\ InFlightSeq(q) \in Seq(Irps)
           /\ Elems(InFlightSeq(q)) = IF q.inflight = NoIrp THEN {} ELSE {q.inflight}
           /\ Distinct(InFlightSeq(q))
           /\ Queue(q) \in Seq(Irps)
           /\ Elems(Queue(q)) = Elems(q.done) \cup Elems(InFlightSeq(q)) \cup Elems(q.pending)
           /\ \A i \in Irps : Holds(q, i) <=> i \in Elems(Queue(q))
           /\ Len(Queue(q)) = Len(q.done) + Len(InFlightSeq(q)) + Len(q.pending)
           /\ Len(q.done) \in Nat /\ Len(InFlightSeq(q)) \in Nat /\ Len(q.pending) \in Nat
<1>1. /\ q.done \in Seq(Irps) /\ q.pending \in Seq(Irps)
      /\ q.inflight \in Irps \cup {NoIrp}
    BY PipeFieldTypes
<1>2. /\ InFlightSeq(q) \in Seq(Irps) /\ Distinct(InFlightSeq(q))
      /\ Elems(InFlightSeq(q)) = IF q.inflight = NoIrp THEN {} ELSE {q.inflight}
    <2>1. CASE q.inflight = NoIrp
        BY <2>1 DEF InFlightSeq, Elems, Distinct
    <2>2. CASE q.inflight # NoIrp
        BY <1>1, <2>2, OneElem DEF InFlightSeq
    <2> QED BY <2>1, <2>2
<1>3. /\ q.done \o InFlightSeq(q) \in Seq(Irps)
      /\ Elems(q.done \o InFlightSeq(q)) = Elems(q.done) \cup Elems(InFlightSeq(q))
      /\ Len(q.done \o InFlightSeq(q)) = Len(q.done) + Len(InFlightSeq(q))
    BY <1>1, <1>2, ConcatElems, ConcatProperties
<1>4. /\ Queue(q) \in Seq(Irps)
      /\ Elems(Queue(q)) = Elems(q.done \o InFlightSeq(q)) \cup Elems(q.pending)
      /\ Len(Queue(q)) = Len(q.done \o InFlightSeq(q)) + Len(q.pending)
    <2> DEFINE d == q.done \o InFlightSeq(q)
    <2>1. Queue(q) = d \o q.pending
        BY DEF Queue
    <2> HIDE DEF d
    <2>2. d \in Seq(Irps)
        BY <1>3 DEF d
    <2>3. /\ d \o q.pending \in Seq(Irps)
          /\ Elems(d \o q.pending) = Elems(d) \cup Elems(q.pending)
          /\ Len(d \o q.pending) = Len(d) + Len(q.pending)
        BY <1>1, <2>2, ConcatElems, ConcatProperties
    <2> QED BY <2>1, <2>3 DEF d
<1>5. \A i \in Irps : Holds(q, i) <=> i \in Elems(Queue(q))
    <2> SUFFICES ASSUME NEW i \in Irps
                 PROVE  Holds(q, i) <=> i \in Elems(Queue(q))
        OBVIOUS
    <2>1. i = q.inflight <=> i \in Elems(InFlightSeq(q))
        BY <1>2, NullAssumption
    <2>2. i \in Elems(Queue(q)) <=>
             i \in Elems(q.done) \/ i \in Elems(InFlightSeq(q)) \/ i \in Elems(q.pending)
        BY <1>3, <1>4
    <2> QED BY <2>1, <2>2 DEF Holds
<1>6. Len(q.done) \in Nat /\ Len(InFlightSeq(q)) \in Nat /\ Len(q.pending) \in Nat
    BY <1>1, <1>2, LenProperties
<1> QED BY <1>1, <1>2, <1>3, <1>4, <1>5, <1>6

\* The queue of a pipe whose IRPs are where their flags say has no repetitions.
LEMMA PlacedDistinct ==
    ASSUME NEW p, NEW q \in PipeRecord, NEW m, PlacedIn(p, q, m)
    PROVE  Distinct(Queue(q))
<1>1. /\ q.done \in Seq(Irps) /\ q.pending \in Seq(Irps) /\ InFlightSeq(q) \in Seq(Irps)
      /\ Elems(InFlightSeq(q)) = IF q.inflight = NoIrp THEN {} ELSE {q.inflight}
      /\ Distinct(InFlightSeq(q))
    BY QueueElems
<1>2. /\ Elems(q.done) \cap Elems(InFlightSeq(q)) = {}
      /\ (Elems(q.done) \cup Elems(InFlightSeq(q))) \cap Elems(q.pending) = {}
    BY <1>1 DEF PlacedIn
<1>3. /\ q.done \o InFlightSeq(q) \in Seq(Irps) /\ Distinct(q.done \o InFlightSeq(q))
      /\ Elems(q.done \o InFlightSeq(q)) = Elems(q.done) \cup Elems(InFlightSeq(q))
    BY <1>1, <1>2, ConcatElems, ConcatDistinct DEF PlacedIn
<1> QED BY <1>1, <1>2, <1>3, ConcatDistinct DEF Queue, PlacedIn

\* Nothing moves in a pipe whose IRPs do not change.
LEMMA PlacedAgain ==
    ASSUME NEW p, NEW q \in PipeRecord, NEW m, NEW mm, PlacedIn(p, q, m),
           \A i \in Irps : Holds(q, i) => mm[i] = m[i]
    PROVE  PlacedIn(p, q, mm)
<1>1. /\ Elems(q.done) \subseteq Irps /\ Elems(q.pending) \subseteq Irps
      /\ q.inflight \in Irps \cup {NoIrp}
    BY PipeFieldTypes, LenProperties DEF Elems
<1> QED BY <1>1 DEF PlacedIn, Holds

\* The invariant says what IrpPlacement says.
LEMMA PlacedSays ==
    ASSUME IInv, Placed
    PROVE  IrpPlacement
<1>1. ASSUME NEW p \in Pipes, NEW n \in DOMAIN Queue(pipe[p])
      PROVE  LET i == Queue(pipe[p])[n]
             IN  /\ irp[i].ptr = p
                 /\ \A m \in DOMAIN Queue(pipe[p]) : Queue(pipe[p])[m] = i => m = n
    <2>1. pipe[p] \in PipeRecord /\ PlacedIn(p, pipe[p], irp)
        BY DEF IInv, PipeInv, Placed
    <2>2. Queue(pipe[p])[n] \in Elems(Queue(pipe[p]))
        BY DEF Elems
    <2>3. irp[Queue(pipe[p])[n]].ptr = p
        BY <2>1, <2>2, QueueElems DEF PlacedIn
    <2>4. Distinct(Queue(pipe[p]))
        BY <2>1, PlacedDistinct
    <2> QED BY <2>3, <2>4 DEF Distinct
<1>2. ASSUME NEW i \in Irps
      PROVE  LET p == irp[i].ptr
             IN  IF p = NoPipe THEN irp[i].flag = "IDLE"
                 ELSE \/ irp[i].flag = "PENDING" /\ i \in Elems(pipe[p].pending)
                      \/ irp[i].flag = "INFLIGHT" /\ i = pipe[p].inflight
                      \/ irp[i].flag = "DONE" /\ i \in Elems(pipe[p].done)
    <2>1. irp[i].ptr \in Pipes \cup {NoPipe}
        BY DEF IInv, PipeInv, IrpRecord
    <2> QED BY <2>1, NullAssumption DEF Placed, PlacedIn, Holds
<1> QED BY <1>1, <1>2 DEF IrpPlacement

-----------------------------------------------------------------------------
(* Moves within a pipe *)

\* What a step that moves IRPs within pipe p may do to the IRPs.
IrpsMove(p, m, mm) ==
    /\ mm \in [Irps -> IrpRecord]
    /\ NoEarlyResult(mm)
    /\ \A i \in Irps :
          /\ mm[i].ptr = m[i].ptr
          /\ m[i].ptr # p \/ m[i].flag = "DONE" => mm[i] = m[i]
          /\ m[i].flag = "INFLIGHT" => /\ mm[i].flag \in {"INFLIGHT", "DONE"}
                                       /\ mm[i].status # "CANCELLED"

\* Pipe object q becomes R and the IRPs m become mm: the client sees the same queue, of
\* which at least as much is done.
Moves(p, q, R, m, mm) ==
    /\ R \in PipeRecord
    /\ Queue(R) = Queue(q)
    /\ Len(q.done) <= Len(R.done)
    /\ PlacedIn(p, R, mm)
    /\ IrpsMove(p, m, mm)

\* Moves compose.
LEMMA MovesCompose ==
    ASSUME NEW p, NEW q \in PipeRecord, NEW r, NEW R, NEW m, NEW n, NEW o,
           Moves(p, q, r, m, n), Moves(p, r, R, n, o)
    PROVE  Moves(p, q, R, m, o)
<1>1. /\ R \in PipeRecord /\ Queue(R) = Queue(q) /\ PlacedIn(p, R, o)
      /\ o \in [Irps -> IrpRecord] /\ NoEarlyResult(o)
    BY DEF Moves, IrpsMove
<1>2. Len(q.done) <= Len(R.done)
    <2>1. /\ Len(q.done) \in Nat /\ Len(r.done) \in Nat /\ Len(R.done) \in Nat
        BY QueueElems DEF Moves
    <2> QED BY <2>1 DEF Moves
<1>3. IrpsMove(p, m, o)
    <2> SUFFICES ASSUME NEW i \in Irps
                 PROVE  /\ o[i].ptr = m[i].ptr
                        /\ m[i].ptr # p \/ m[i].flag = "DONE" => o[i] = m[i]
                        /\ m[i].flag = "INFLIGHT" => /\ o[i].flag \in {"INFLIGHT", "DONE"}
                                                     /\ o[i].status # "CANCELLED"
        BY <1>1 DEF IrpsMove
    <2> QED BY DEF Moves, IrpsMove
<1> QED BY <1>1, <1>2, <1>3 DEF Moves

\* The flags of a pipe say nothing of its IRPs.
LEMMA FieldMoves ==
    ASSUME NEW p, NEW q \in PipeRecord, NEW R \in PipeRecord, NEW m \in [Irps -> IrpRecord],
           PlacedIn(p, q, m), NoEarlyResult(m),
           R.pending = q.pending, R.done = q.done, R.inflight = q.inflight
    PROVE  Moves(p, q, R, m, m)
<1>1. Queue(R) = Queue(q)
    BY DEF Queue, InFlightSeq
<1>2. Len(q.done) <= Len(R.done)
    <2>1. Len(q.done) \in Nat
        BY QueueElems
    <2> QED BY <2>1
<1>3. PlacedIn(p, R, m)
    BY DEF PlacedIn
<1>4. IrpsMove(p, m, m)
    BY DEF IrpsMove, NoEarlyResult
<1> QED BY <1>1, <1>2, <1>3, <1>4 DEF Moves

\* _pipe_return_cur_irp: the IRP in flight becomes the last one that is done.
LEMMA ReturnCurIrpMoves ==
    ASSUME NEW p, NEW q \in PipeRecord, NEW m \in [Irps -> IrpRecord],
           PlacedIn(p, q, m), NoEarlyResult(m), q.inflight # NoIrp,
           NEW st \in Statuses, st # "CANCELLED"
    PROVE  Moves(p, q, ReturnCurIrp(q), m, Finished(m, {q.inflight}, st))
<1> DEFINE i == q.inflight
           R == ReturnCurIrp(q)
           mm == Finished(m, {i}, st)
<1>1. /\ i \in Irps /\ q.done \in Seq(Irps) /\ q.pending \in Seq(Irps)
      /\ Len(q.done) \in Nat
    BY PipeFieldTypes, QueueElems
<1>2. /\ R \in PipeRecord /\ R.done = Append(q.done, i) /\ R.inflight = NoIrp
      /\ R.pending = q.pending
    BY ReturnCurIrpOk DEF SameKind, ReturnCurIrp, PipeRecord
<1>3. Queue(R) = Queue(q) /\ Len(q.done) <= Len(R.done)
    <2>1. Append(q.done, i) = q.done \o <<i>> /\ Append(q.done, i) \in Seq(Irps)
          /\ Len(Append(q.done, i)) = Len(q.done) + 1
        BY <1>1, AppendIsConcat, AppendProperties
    <2>2. Append(q.done, i) \o <<>> = Append(q.done, i)
        BY <2>1, ConcatEmptySeq
    <2>3. InFlightSeq(R) = <<>> /\ InFlightSeq(q) = <<i>>
        BY <1>2 DEF InFlightSeq
    <2> HIDE DEF R, i
    <2>4. Queue(R) = (Append(q.done, i) \o <<>>) \o q.pending
        BY <1>2, <2>3 DEF Queue
    <2>5. Queue(q) = (q.done \o <<i>>) \o q.pending
        BY <2>3 DEF Queue
    <2>6. Len(q.done) <= Len(R.done)
        BY <1>1, <1>2, <2>1
    <2> QED BY <2>1, <2>2, <2>4, <2>5, <2>6
<1>4. /\ mm \in [Irps -> IrpRecord] /\ NoEarlyResult(mm)
      /\ mm[i].ptr = m[i].ptr /\ mm[i].flag = "DONE" /\ mm[i].status = st
      /\ \A j \in Irps : j # i => mm[j] = m[j]
    BY <1>1 DEF Finished, IrpRecord, NoEarlyResult
<1>5. m[i].ptr = p /\ m[i].flag = "INFLIGHT"
    BY DEF PlacedIn
<1> HIDE DEF R, mm, i
<1>6. PlacedIn(p, R, mm)
    <2>1. /\ Elems(R.done) = Elems(q.done) \cup {i}
          /\ i \notin Elems(q.done) => Distinct(R.done)
        BY <1>1, <1>2, AppendElems DEF PlacedIn
    <2>2. /\ \A j \in Elems(q.done) : j \in Irps /\ j # i
          /\ \A j \in Elems(q.pending) : j \in Irps /\ j # i
        <3>1. Elems(q.done) \subseteq Irps /\ Elems(q.pending) \subseteq Irps
            BY <1>1, LenProperties DEF Elems
        <3> QED BY <1>5, <3>1 DEF PlacedIn
    <2> QED BY <1>2, <1>4, <1>5, <2>1, <2>2 DEF PlacedIn
<1>7. IrpsMove(p, m, mm)
    <2>1. ASSUME NEW j \in Irps
          PROVE  /\ mm[j].ptr = m[j].ptr
                 /\ m[j].ptr # p \/ m[j].flag = "DONE" => mm[j] = m[j]
                 /\ m[j].flag = "INFLIGHT" => /\ mm[j].flag \in {"INFLIGHT", "DONE"}
                                              /\ mm[j].status # "CANCELLED"
        BY <1>4, <1>5 DEF NoEarlyResult
    <2> QED BY <1>4, <2>1 DEF IrpsMove
<1> QED BY <1>2, <1>3, <1>6, <1>7 DEF Moves, R, mm, i

\* _pipe_get_next_irp: the first pending IRP takes the empty place in flight.
LEMMA TakeNextMoves ==
    ASSUME NEW p, NEW q \in PipeRecord, NEW m \in [Irps -> IrpRecord],
           PlacedIn(p, q, m), NoEarlyResult(m), q.inflight = NoIrp, q.pending # <<>>
    PROVE  Moves(p, q, TakeNext(q), m, InFlight(m, Head(q.pending)))
<1> DEFINE i == Head(q.pending)
           R == TakeNext(q)
           mm == InFlight(m, i)
<1>1. /\ q.done \in Seq(Irps) /\ q.pending \in Seq(Irps) /\ Len(q.done) \in Nat
      /\ i \in Irps /\ Tail(q.pending) \in Seq(Irps)
      /\ Elems(q.pending) = {i} \cup Elems(Tail(q.pending))
    BY QueueElems, HeadTailElems
<1>2. /\ R \in PipeRecord /\ R.done = q.done /\ R.inflight = i
      /\ R.pending = Tail(q.pending) /\ i # NoIrp
    BY <1>1, TakeNextOk, NullAssumption DEF SameKind, TakeNext, PipeRecord
<1>3. Queue(R) = Queue(q) /\ Len(q.done) <= Len(R.done)
    <2>1. q.pending = <<i>> \o Tail(q.pending)
        BY <1>1, SplitHead
    <2>2. <<i>> \in Seq(Irps)
        BY <1>1, OneElem
    <2>3. q.done \o <<>> = q.done
        BY <1>1, ConcatEmptySeq
    <2>4. ASSUME NEW s \in Seq(Irps), NEW t \in Seq(Irps), NEW u \in Seq(Irps)
          PROVE  (s \o t) \o u = s \o (t \o u)
        BY ConcatAssociative
    <2>5. (q.done \o <<i>>) \o Tail(q.pending) = q.done \o (<<i>> \o Tail(q.pending))
        BY <1>1, <2>2, <2>4
    <2>6. InFlightSeq(R) = <<i>> /\ InFlightSeq(q) = <<>>
        BY <1>2 DEF InFlightSeq
    <2> HIDE DEF i, R
    <2>7. Queue(R) = (q.done \o <<i>>) \o Tail(q.pending)
        BY <1>2, <2>6 DEF Queue
    <2>8. Queue(q) = (q.done \o <<>>) \o q.pending
        BY <2>6 DEF Queue
    <2>9. Len(q.done) <= Len(R.done)
        BY <1>1, <1>2
    <2> QED BY <2>1, <2>3, <2>5, <2>7, <2>8, <2>9
<1>4. /\ m[i].ptr = p /\ m[i].flag = "PENDING" /\ m[i].status = "none"
      /\ Distinct(Tail(q.pending)) /\ i \notin Elems(Tail(q.pending))
    BY <1>1, SplitHead DEF PlacedIn, NoEarlyResult
<1>5. /\ mm \in [Irps -> IrpRecord] /\ NoEarlyResult(mm)
      /\ mm[i].ptr = m[i].ptr /\ mm[i].flag = "INFLIGHT"
      /\ \A j \in Irps : j # i => mm[j] = m[j]
    BY <1>1, <1>4 DEF InFlight, IrpRecord, NoEarlyResult
<1> HIDE DEF R, mm, i
<1>6. PlacedIn(p, R, mm)
    <2>1. /\ \A j \in Elems(q.done) : j \in Irps /\ j # i
          /\ \A j \in Elems(Tail(q.pending)) : j \in Irps /\ j # i
        <3>1. Elems(q.done) \subseteq Irps /\ Elems(Tail(q.pending)) \subseteq Irps
            BY <1>1, LenProperties DEF Elems
        <3> QED BY <1>4, <3>1 DEF PlacedIn
    <2> QED BY <1>1, <1>2, <1>4, <1>5, <2>1 DEF PlacedIn
<1>7. IrpsMove(p, m, mm)
    BY <1>4, <1>5 DEF IrpsMove, NoEarlyResult
<1> QED BY <1>2, <1>3, <1>6, <1>7 DEF Moves, R, mm, i

\* _pipe_retire: all pending IRPs are done.
LEMMA RetireMoves ==
    ASSUME NEW p, NEW q \in PipeRecord, NEW m \in [Irps -> IrpRecord],
           PlacedIn(p, q, m), NoEarlyResult(m), q.inflight = NoIrp, NEW st \in Statuses
    PROVE  Moves(p, q, Retire(q), m, Finished(m, Elems(q.pending), st))
<1> DEFINE I == Elems(q.pending)
           R == Retire(q)
           mm == Finished(m, I, st)
<1>1. /\ q.done \in Seq(Irps) /\ q.pending \in Seq(Irps)
      /\ Len(q.done) \in Nat /\ Len(q.pending) \in Nat
    BY QueueElems
<1>2. /\ R \in PipeRecord /\ R.done = q.done \o q.pending /\ R.inflight = NoIrp
      /\ R.pending = <<>>
    BY RetireOk DEF SameKind, Retire, PipeRecord
<1>3. /\ q.done \o q.pending \in Seq(Irps)
      /\ Len(q.done \o q.pending) = Len(q.done) + Len(q.pending)
      /\ Elems(q.done \o q.pending) = Elems(q.done) \cup I
      /\ (q.done \o q.pending) \o <<>> = q.done \o q.pending
      /\ q.done \o <<>> = q.done
    <2>1. /\ q.done \o q.pending \in Seq(Irps)
          /\ Len(q.done \o q.pending) = Len(q.done) + Len(q.pending)
          /\ Elems(q.done \o q.pending) = Elems(q.done) \cup I
        BY <1>1, ConcatProperties, ConcatElems
    <2> QED BY <1>1, <2>1, ConcatEmptySeq
<1> HIDE DEF R
<1>4. Queue(R) = Queue(q) /\ Len(q.done) <= Len(R.done)
    <2>1. InFlightSeq(R) = <<>> /\ InFlightSeq(q) = <<>>
        BY <1>2 DEF InFlightSeq
    <2>2. Queue(R) = ((q.done \o q.pending) \o <<>>) \o <<>>
        BY <1>2, <2>1 DEF Queue
    <2>3. Queue(q) = (q.done \o <<>>) \o q.pending
        BY <2>1 DEF Queue
    <2>4. Len(R.done) = Len(q.done) + Len(q.pending)
        BY <1>2, <1>3
    <2>5. \A x, y \in Nat : x <= x + y
        OBVIOUS
    <2> QED BY <1>1, <1>3, <2>2, <2>3, <2>4, <2>5
<1>5. \A i \in I : i \in Irps /\ m[i].ptr = p /\ m[i].flag = "PENDING"
    BY <1>1, LenProperties DEF PlacedIn, Elems
<1>6. /\ mm \in [Irps -> IrpRecord] /\ NoEarlyResult(mm)
      /\ \A i \in I : mm[i].ptr = m[i].ptr /\ mm[i].flag = "DONE"
      /\ \A j \in Irps : j \notin I => mm[j] = m[j]
    BY <1>5 DEF Finished, IrpRecord, NoEarlyResult
<1> HIDE DEF mm, I
<1>7. PlacedIn(p, R, mm)
    <2>1. \A j \in Elems(q.done) : j \in Irps /\ j \notin I
        <3>1. Elems(q.done) \subseteq Irps
            BY <1>1, LenProperties DEF Elems
        <3> QED BY <1>5, <3>1 DEF PlacedIn
    <2>2. Distinct(q.done \o q.pending)
        BY <1>1, <2>1, ConcatDistinct DEF PlacedIn, I
    <2>3. Elems(<<>>) = {} /\ Distinct(<<>>)
        BY DEF Elems, Distinct
    <2> QED BY <1>2, <1>3, <1>5, <1>6, <2>1, <2>2, <2>3 DEF PlacedIn
<1>8. IrpsMove(p, m, mm)
    <2>1. ASSUME NEW j \in Irps
          PROVE  /\ mm[j].ptr = m[j].ptr
                 /\ m[j].ptr # p \/ m[j].flag = "DONE" => mm[j] = m[j]
                 /\ m[j].flag = "INFLIGHT" => /\ mm[j].flag \in {"INFLIGHT", "DONE"}
                                              /\ mm[j].status # "CANCELLED"
        BY <1>5, <1>6 DEF NoEarlyResult
    <2> QED BY <1>6, <2>1 DEF IrpsMove
<1> QED BY <1>2, <1>4, <1>7, <1>8 DEF Moves, R, mm, I

-----------------------------------------------------------------------------
(* Frames: what a step of the driver may do *)

\* What ResultsFinal says of a step.
Final ==
    \A i \in Irps :
        /\ irp[i].flag = "DONE" => irp'[i] = irp[i] \/ irp'[i].flag = "IDLE"
        /\ irp[i].flag = "INFLIGHT" => irp'[i].status # "CANCELLED"

\* What every step has to show.
QueueStep == Placed' /\ CheckedIdle' /\ Final /\ [Fifo!FifoNext]_(Fifo!fifo)

\* No task begins to enqueue.
CallsKept == \A t \in Tasks : Enqueuing(t)' => Enqueuing(t) /\ call'[t].irp = call[t].irp

LEMMA CheckedKept ==
    ASSUME IInv, CheckedIdle, CallsKept,
           \A i \in Irps : irp'[i].ptr \in {irp[i].ptr, NoPipe}
    PROVE  CheckedIdle'
<1> SUFFICES ASSUME NEW t \in Tasks, Enqueuing(t)'
             PROVE  irp'[call'[t].irp].ptr = NoPipe
    BY DEF CheckedIdle
<1>1. Enqueuing(t) /\ call'[t].irp = call[t].irp
    BY DEF CallsKept
<1>2. call[t].irp \in Irps /\ irp[call[t].irp].ptr = NoPipe
    BY <1>1 DEF CheckedIdle, Enqueuing, IInv, RestInv
<1>3. irp'[call[t].irp].ptr \in {irp[call[t].irp].ptr, NoPipe}
    BY <1>2
<1> QED BY <1>1, <1>2, <1>3

\* The IRPs of pipe p stay where they are.
QueueSame(p) ==
    /\ pipe'[p].done = pipe[p].done
    /\ pipe'[p].inflight = pipe[p].inflight
    /\ pipe'[p].pending = pipe[p].pending

\* A step that moves no IRP at all.
LEMMA StillStep ==
    ASSUME IInv, Placed, UNCHANGED irp, \A p \in Pipes : QueueSame(p)
    PROVE  Placed' /\ Final /\ UNCHANGED Fifo!fifo
<1>1. \A p \in Pipes : Queue(pipe'[p]) = Queue(pipe[p]) /\ Len(pipe'[p].done) = Len(pipe[p].done)
    BY DEF QueueSame, Queue, InFlightSeq
<1>2. Placed'
    <2>1. \A p \in Pipes : PlacedIn(p, pipe'[p], irp')
        BY DEF Placed, PlacedIn, QueueSame
    <2>2. ASSUME NEW i \in Irps
          PROVE  IF irp'[i].ptr = NoPipe THEN irp'[i].flag = "IDLE"
                                         ELSE Holds(pipe'[irp'[i].ptr], i)
        <3>1. irp[i].ptr \in Pipes \cup {NoPipe}
            BY DEF IInv, PipeInv, IrpRecord
        <3> QED BY <3>1 DEF Placed, Holds, QueueSame
    <2> QED BY <2>1, <2>2 DEF Placed, NoEarlyResult
<1>3. Final
    <2>1. \A i \in Irps : irp[i].flag = "INFLIGHT" => irp[i].status = "none"
        BY DEF Placed, NoEarlyResult
    <2> QED BY <2>1 DEF Final
<1>4. UNCHANGED Fifo!fifo
    BY <1>1 DEF Fifo!fifo
<1> QED BY <1>2, <1>3, <1>4

LEMMA StillQueues ==
    ASSUME IInv, Placed, CheckedIdle, CallsKept, UNCHANGED irp,
           \A p \in Pipes : QueueSame(p)
    PROVE  QueueStep
<1>1. Placed' /\ Final /\ UNCHANGED Fifo!fifo
    BY StillStep
<1>2. CheckedIdle'
    BY CheckedKept
<1> QED BY <1>1, <1>2 DEF QueueStep

\* A step that moves IRPs within pipe p.
LEMMA MoveQueues ==
    ASSUME IInv, Placed, CheckedIdle, CallsKept, NEW p \in Pipes, NEW R,
           pipe' = [pipe EXCEPT ![p] = R], Moves(p, pipe[p], R, irp, irp')
    PROVE  QueueStep
<1>1. /\ pipe'[p] = R /\ pipe[p] \in PipeRecord /\ R \in PipeRecord
      /\ \A r \in Pipes : r # p => pipe'[r] = pipe[r]
    BY DEF IInv, PipeInv, Moves
<1>2. \A i \in Irps : irp[i].ptr \in Pipes \cup {NoPipe}
    BY DEF IInv, PipeInv, IrpRecord
<1>3. ASSUME NEW r \in Pipes
      PROVE  PlacedIn(r, pipe'[r], irp')
    <2>1. CASE r = p
        BY <1>1, <2>1 DEF Moves
    <2>2. CASE r # p
        <3>1. PlacedIn(r, pipe[r], irp) /\ pipe'[r] = pipe[r] /\ pipe[r] \in PipeRecord
            BY <1>1, <2>2 DEF Placed, IInv, PipeInv
        <3>2. \A i \in Irps : Holds(pipe[r], i) => irp'[i] = irp[i]
            <4>1. \A i \in Irps : Holds(pipe[r], i) => irp[i].ptr = r
                BY <3>1, NullAssumption DEF PlacedIn, Holds
            <4> QED BY <2>2, <4>1 DEF Moves, IrpsMove
        <3> QED BY <3>1, <3>2, PlacedAgain
    <2> QED BY <2>1, <2>2
<1>4. ASSUME NEW i \in Irps
      PROVE  IF irp'[i].ptr = NoPipe THEN irp'[i].flag = "IDLE"
                                     ELSE Holds(pipe'[irp'[i].ptr], i)
    <2>1. irp'[i].ptr = irp[i].ptr /\ (irp[i].ptr # p => irp'[i] = irp[i])
        BY DEF Moves, IrpsMove
    <2>2. CASE irp[i].ptr = p
        <3>1. i \in Elems(Queue(pipe[p]))
            BY <1>1, <2>2, NullAssumption, QueueElems DEF Placed
        <3>2. Holds(R, i)
            BY <1>1, <3>1, QueueElems DEF Moves
        <3> QED BY <1>1, <2>1, <2>2, <3>2, NullAssumption
    <2>3. CASE irp[i].ptr # p
        BY <1>1, <1>2, <2>1, <2>3 DEF Placed
    <2> QED BY <2>2, <2>3
<1>5. Placed'
    BY <1>3, <1>4 DEF Placed, Moves, IrpsMove
<1>6. CheckedIdle'
    BY CheckedKept DEF Moves, IrpsMove
<1>7. Final
    BY DEF Final, Moves, IrpsMove
<1>8. [Fifo!FifoNext]_(Fifo!fifo)
    <2> DEFINE Q == [r \in Pipes |-> Queue(pipe[r])]
               D == [r \in Pipes |-> Len(pipe[r].done)]
    <2>1. Q' = Q
        BY <1>1 DEF Moves
    <2>2. /\ Len(R.done) \in Nat /\ Len(InFlightSeq(R)) \in Nat /\ Len(R.pending) \in Nat
          /\ Len(Queue(R)) = Len(R.done) + Len(InFlightSeq(R)) + Len(R.pending)
          /\ Len(pipe[p].done) \in Nat /\ Len(pipe[p].done) <= Len(R.done)
          /\ Queue(R) = Queue(pipe[p])
        BY <1>1, QueueElems DEF Moves
    <2>3. PICK a \in Nat, b \in Nat, c \in Nat :
              /\ a = Len(pipe[p].done) /\ b = Len(R.done)
              /\ Len(Queue(pipe[p])) = b + c /\ a <= b
        <3> DEFINE x == Len(R.done)
                   y == Len(InFlightSeq(R))
                   z == Len(R.pending)
                   w == Len(pipe[p].done)
                   l == Len(Queue(pipe[p]))
        <3>1. /\ x \in Nat /\ y \in Nat /\ z \in Nat /\ w \in Nat
              /\ l = x + y + z /\ w <= x
            BY <2>2
        <3> SUFFICES \E a \in Nat, b \in Nat, c \in Nat :
                        a = w /\ b = x /\ l = b + c /\ a <= b
            OBVIOUS
        <3> HIDE DEF x, y, z, w, l
        <3>2. y + z \in Nat /\ l = x + (y + z)
            BY <3>1
        <3> QED BY <3>1, <3>2
    <2>4. \A r \in Pipes : pipe'[r] = IF r = p THEN R ELSE pipe[r]
        BY <1>1
    <2>5. D' = [D EXCEPT ![p] = b] /\ D[p] = a
        <3>1. D' = [r \in Pipes |-> Len(pipe'[r].done)]
            OBVIOUS
        <3>2. \A r \in Pipes : Len(pipe'[r].done) = IF r = p THEN b ELSE Len(pipe[r].done)
            <4> SUFFICES ASSUME NEW r \in Pipes
                         PROVE  Len(pipe'[r].done) = IF r = p THEN b ELSE Len(pipe[r].done)
                OBVIOUS
            <4>1. CASE r = p
                BY <4>1, <2>3, <2>4
            <4>2. CASE r # p
                BY <4>2, <2>4
            <4> QED BY <4>1, <4>2
        <3>3. D' = [r \in Pipes |-> IF r = p THEN b ELSE Len(pipe[r].done)]
            BY <3>2
        <3> QED BY <2>3, <3>3
    <2>6. Len(Q[p]) = b + c
        BY <2>3
    <2> HIDE DEF Q, D
    <2>7. CASE a = b
        <3>1. D' = D
            BY <2>5, <2>7 DEF D
        <3> QED BY <2>1, <3>1 DEF Fifo!fifo, Q, D
    <2>8. CASE a # b
        <3>1. PICK n \in 1 .. Len(Q[p]) : D[p] + n <= Len(Q[p]) /\ D' = [D EXCEPT ![p] = D[p] + n]
            <4>1. a <= b
                BY <2>3
            <4>2. b - a \in 1 .. b + c /\ a + (b - a) = b /\ b <= b + c
                BY <2>8, <4>1
            <4> QED BY <2>5, <2>6, <4>2
        <3>2. D' = [D EXCEPT ![p] = @ + n]
            BY <3>1
        <3>3. Fifo!Complete(p, n)
            BY <2>1, <3>1, <3>2 DEF Fifo!Complete, Q, D
        <3>4. n \in 1 .. Len([r \in Pipes |-> Queue(pipe[r])][p])
            BY <3>1 DEF Q
        <3> QED BY <3>3, <3>4 DEF Fifo!FifoNext
    <2> QED BY <2>7, <2>8
<1> QED BY <1>5, <1>6, <1>7, <1>8 DEF QueueStep

-----------------------------------------------------------------------------
(* Clients: IRPs *)

\* hcd_irp_enqueue, at either place: the IRP is in no queue, and is the last of this one
\* afterwards.
LEMMA SubmitQueues ==
    ASSUME IInv, Placed, CheckedIdle, OneOwner, NEW t \in Tasks, NEW p \in Pipes, NEW i \in Irps,
           Enqueuing(t), i = call[t].irp, Return(t),
           NEW R \in PipeRecord, pipe' = [pipe EXCEPT ![p] = R],
           Queue(R) = Append(Queue(pipe[p]), i), R.done = pipe[p].done,
           irp' \in [Irps -> IrpRecord], \A j \in Irps : j # i => irp'[j] = irp[j],
           irp'[i].ptr = p, irp'[i].flag # "DONE", irp'[i].status = irp[i].status,
           irp[i].ptr = NoPipe /\ PlacedIn(p, pipe[p], irp) => PlacedIn(p, R, irp')
    PROVE  QueueStep
<1>1. /\ irp[i].ptr = NoPipe /\ irp[i].flag = "IDLE" /\ irp[i].status = "none"
      /\ irp \in [Irps -> IrpRecord]
    BY DEF CheckedIdle, Placed, NoEarlyResult, IInv, PipeInv
<1>2. /\ irp'[i].ptr = p /\ irp'[i].status = "none"
      /\ \A j \in Irps : j # i => irp'[j] = irp[j]
    BY <1>1
<1>3. /\ pipe'[p] = R /\ pipe[p] \in PipeRecord
      /\ \A r \in Pipes : r # p => pipe'[r] = pipe[r]
    BY DEF IInv, PipeInv
<1>4. ASSUME NEW r \in Pipes
      PROVE  i \notin Elems(Queue(pipe[r]))
    <2>1. pipe[r] \in PipeRecord /\ PlacedIn(r, pipe[r], irp)
        BY DEF Placed, IInv, PipeInv
    <2>2. ~Holds(pipe[r], i)
        BY <1>1, <2>1, NullAssumption DEF PlacedIn, Holds
    <2> QED BY <2>1, <2>2, QueueElems
<1>5. \A r \in Pipes : PlacedIn(r, pipe'[r], irp')
    <2> SUFFICES ASSUME NEW r \in Pipes
                 PROVE  PlacedIn(r, pipe'[r], irp')
        OBVIOUS
    <2>1. CASE r = p
        BY <1>1, <1>3, <2>1 DEF Placed
    <2>2. CASE r # p
        <3>1. PlacedIn(r, pipe[r], irp) /\ pipe'[r] = pipe[r] /\ pipe[r] \in PipeRecord
            BY <1>3, <2>2 DEF Placed, IInv, PipeInv
        <3>2. ~Holds(pipe[r], i)
            BY <1>4, <3>1, QueueElems
        <3>3. \A j \in Irps : Holds(pipe[r], j) => irp'[j] = irp[j]
            <4> SUFFICES ASSUME NEW j \in Irps, Holds(pipe[r], j)
                         PROVE  irp'[j] = irp[j]
                OBVIOUS
            <4>1. CASE j = i
                BY <3>2, <4>1 DEF Holds
            <4>2. CASE j # i
                BY <1>2, <4>2
            <4> QED BY <4>1, <4>2
        <3>4. PlacedIn(r, pipe[r], irp')
            BY <3>1, <3>3, PlacedAgain
        <3> QED BY <3>1, <3>4
    <2> QED BY <2>1, <2>2
<1>6. ASSUME NEW j \in Irps
      PROVE  IF irp'[j].ptr = NoPipe THEN irp'[j].flag = "IDLE"
                                     ELSE Holds(pipe'[irp'[j].ptr], j)
    <2>1. Elems(Queue(R)) = Elems(Queue(pipe[p])) \cup {i}
        <3>1. Queue(pipe[p]) \in Seq(Irps)
            BY <1>3, QueueElems
        <3> QED BY <3>1, AppendElems
    <2>2. CASE j = i
        <3>1. Holds(R, i)
            BY <2>1, QueueElems
        <3> QED BY <1>2, <1>3, <2>2, <3>1, NullAssumption
    <2>3. CASE j # i
        <3>1. irp'[j] = irp[j] /\ irp[j].ptr \in Pipes \cup {NoPipe}
            BY <1>1, <1>2, <2>3 DEF IrpRecord
        <3>2. Holds(pipe[p], j) => Holds(R, j)
            BY <1>3, <2>1, QueueElems
        <3> QED BY <1>3, <3>1, <3>2 DEF Placed
    <2> QED BY <2>2, <2>3
<1>7. Placed'
    <2>1. NoEarlyResult(irp')
        BY <1>2 DEF Placed, NoEarlyResult
    <2> QED BY <1>5, <1>6, <2>1 DEF Placed
<1>8. CheckedIdle'
    <2> SUFFICES ASSUME NEW u \in Tasks, Enqueuing(u)'
                 PROVE  irp'[call'[u].irp].ptr = NoPipe
        BY DEF CheckedIdle
    <2>1. u # t /\ call'[u] = call[u]
        BY DEF Return, IdleCall, Enqueuing, IInv, RestInv
    <2>2. Enqueuing(u) /\ call[u].irp \in Irps
        BY <2>1 DEF Enqueuing, IInv, RestInv
    <2>3. call[u].irp # i
        BY <2>1, <2>2 DEF OneOwner
    <2> QED BY <1>2, <2>1, <2>2, <2>3 DEF CheckedIdle
<1>9. Final
    BY <1>1, <1>2 DEF Final, Placed, NoEarlyResult
<1>10. Fifo!Submit(p, i)
    <2>1. \A r \in Pipes : pipe'[r] = IF r = p THEN R ELSE pipe[r]
        BY <1>3
    <2>2. [r \in Pipes |-> Queue(pipe'[r])] =
            [[r \in Pipes |-> Queue(pipe[r])] EXCEPT ![p] = Append(@, i)]
        <3>1. \A r \in Pipes : Queue(pipe'[r]) =
                IF r = p THEN Append(Queue(pipe[p]), i) ELSE Queue(pipe[r])
            <4> TAKE r \in Pipes
            <4>1. CASE r = p
                BY <1>3, <4>1
            <4>2. CASE r # p
                BY <1>3, <4>2
            <4> QED BY <4>1, <4>2
        <3>2. [r \in Pipes |-> Queue(pipe'[r])] =
                [r \in Pipes |-> IF r = p THEN Append(Queue(pipe[p]), i) ELSE Queue(pipe[r])]
            BY <3>1
        <3> QED BY <3>2
    <2>3. [r \in Pipes |-> Len(pipe'[r].done)] = [r \in Pipes |-> Len(pipe[r].done)]
        <3> SUFFICES ASSUME NEW r \in Pipes
                     PROVE  pipe'[r].done = pipe[r].done
            OBVIOUS
        <3> QED BY <2>1
    <2>4. \A r \in Pipes : ~Fifo!InQueue(i, r)
        BY <1>4 DEF Fifo!InQueue, Elems
    <2> QED BY <2>2, <2>3, <2>4 DEF Fifo!Submit
<1>11. [Fifo!FifoNext]_(Fifo!fifo)
    BY <1>10 DEF Fifo!FifoNext
<1> QED BY <1>7, <1>8, <1>9, <1>11 DEF QueueStep

\* The transfer starts at once.
LEMMA EnqueueStartQueues ==
    ASSUME IInv, Placed, CheckedIdle, OneOwner, NEW t \in Tasks, EnqueueStart(t)
    PROVE  QueueStep
<1> DEFINE p == call[t].pipe
           i == call[t].irp
           q == pipe[p]
           R == [q EXCEPT !.inflight = i]
<1>1. /\ p \in Pipes /\ i \in Irps /\ q \in PipeRecord
      /\ q.pending = <<>> /\ q.inflight = NoIrp /\ Enqueuing(t) /\ Return(t)
    BY DEF IInv, PipeInv, RestInv, EnqueueStart, Enqueuing, CanStart
<1>2. /\ R \in PipeRecord /\ R.inflight = i /\ R.inflight # NoIrp
      /\ R.pending = <<>> /\ R.done = q.done
    BY <1>1, NullAssumption DEF PipeRecord
<1>3. pipe' = [pipe EXCEPT ![p] = R] /\ irp' = [irp EXCEPT ![i].ptr = p, ![i].flag = "INFLIGHT"]
    BY DEF EnqueueStart
<1>4. irp \in [Irps -> IrpRecord]
    BY DEF IInv, PipeInv
<1> HIDE DEF p, i, R, q
<1>5. Queue(R) = Append(Queue(q), i)
    <2>1. InFlightSeq(R) = <<i>> /\ InFlightSeq(q) = <<>>
        BY <1>1, <1>2 DEF InFlightSeq
    <2>2. q.done \in Seq(Irps) /\ <<i>> \in Seq(Irps)
        BY <1>1, QueueElems, OneElem
    <2>3. /\ q.done \o <<>> = q.done
          /\ (q.done \o <<i>>) \o <<>> = q.done \o <<i>>
          /\ Append(q.done, i) = q.done \o <<i>>
        <3>1. q.done \o <<i>> \in Seq(Irps)
            BY <2>2, ConcatProperties
        <3> QED BY <1>1, <2>2, <3>1, ConcatEmptySeq, AppendIsConcat
    <2>4. Queue(R) = (q.done \o <<i>>) \o <<>>
        BY <1>2, <2>1 DEF Queue
    <2>5. Queue(q) = (q.done \o <<>>) \o <<>>
        BY <1>1, <2>1 DEF Queue
    <2> QED BY <2>3, <2>4, <2>5
<1>6. /\ irp' \in [Irps -> IrpRecord] /\ \A j \in Irps : j # i => irp'[j] = irp[j]
      /\ irp'[i].ptr = p /\ irp'[i].flag = "INFLIGHT" /\ irp'[i].status = irp[i].status
    BY <1>1, <1>3, <1>4 DEF IrpRecord
<1>7. ASSUME irp[i].ptr = NoPipe, PlacedIn(p, q, irp)
      PROVE  PlacedIn(p, R, irp')
    <2>1. Elems(q.done) \subseteq Irps /\ Elems(<<>>) = {}
        BY <1>1, PipeFieldTypes, LenProperties DEF Elems
    <2> QED BY <1>1, <1>2, <1>6, <1>7, <2>1, NullAssumption DEF PlacedIn
<1> QED BY <1>1, <1>2, <1>3, <1>5, <1>6, <1>7, SubmitQueues DEF q, i

\* The IRP has to wait in the pending queue.
LEMMA EnqueuePendQueues ==
    ASSUME IInv, Placed, CheckedIdle, OneOwner, NEW t \in Tasks, EnqueuePend(t)
    PROVE  QueueStep
<1> DEFINE p == call[t].pipe
           i == call[t].irp
           q == pipe[p]
           a == Append(q.pending, i)
           R == [q EXCEPT !.pending = a]
<1>1. p \in Pipes /\ i \in Irps /\ q \in PipeRecord /\ Enqueuing(t) /\ Return(t)
    BY DEF IInv, PipeInv, RestInv, EnqueuePend, Enqueuing
<1>2. /\ q.done \in Seq(Irps) /\ q.pending \in Seq(Irps) /\ InFlightSeq(q) \in Seq(Irps)
      /\ a \in Seq(Irps) /\ Elems(a) = Elems(q.pending) \cup {i}
      /\ Distinct(q.pending) /\ i \notin Elems(q.pending) => Distinct(a)
      /\ a = q.pending \o <<i>> /\ <<i>> \in Seq(Irps)
    <2>1. q.done \in Seq(Irps) /\ q.pending \in Seq(Irps) /\ InFlightSeq(q) \in Seq(Irps)
        BY <1>1, QueueElems
    <2> HIDE DEF q, i
    <2>2. /\ a \in Seq(Irps) /\ Elems(a) = Elems(q.pending) \cup {i}
          /\ Distinct(q.pending) /\ i \notin Elems(q.pending) => Distinct(a)
        BY <1>1, <2>1, AppendElems
    <2>3. a = q.pending \o <<i>> /\ <<i>> \in Seq(Irps)
        BY <1>1, <2>1, AppendIsConcat, OneElem
    <2> QED BY <2>1, <2>2, <2>3
<1>3. /\ R \in PipeRecord /\ R.inflight = q.inflight
      /\ R.pending = a /\ R.done = q.done
    BY <1>1, <1>2 DEF PipeRecord
<1>4. pipe' = [pipe EXCEPT ![p] = R] /\ irp' = [irp EXCEPT ![i].ptr = p, ![i].flag = "PENDING"]
    BY DEF EnqueuePend
<1>5. irp \in [Irps -> IrpRecord]
    BY DEF IInv, PipeInv
<1> HIDE DEF p, i, R, q
<1>6. Queue(R) = Append(Queue(q), i)
    <2> DEFINE d == q.done \o InFlightSeq(q)
    <2>1. d \in Seq(Irps) /\ d \o q.pending \in Seq(Irps)
        <3>1. d \in Seq(Irps)
            BY <1>2, ConcatProperties
        <3> HIDE DEF d
        <3> QED BY <3>1, <1>2, ConcatProperties
    <2>2. Queue(R) = d \o a /\ Queue(q) = d \o q.pending
        BY <1>3 DEF Queue, InFlightSeq
    <2> HIDE DEF d, a
    <2>3. d \o (q.pending \o <<i>>) = (d \o q.pending) \o <<i>>
        <3>1. \A u, v, w \in Seq(Irps) : u \o (v \o w) = (u \o v) \o w
            BY ConcatAssociative
        <3>2. d \in Seq(Irps) /\ q.pending \in Seq(Irps) /\ <<i>> \in Seq(Irps)
            BY <1>2, <2>1
        <3> DEFINE v == q.pending
                   w == <<i>>
        <3> HIDE DEF v, w
        <3> QED BY <3>1, <3>2 DEF v, w
    <2>4. Append(d \o q.pending, i) = (d \o q.pending) \o <<i>>
        BY <1>1, <2>1, AppendIsConcat
    <2> QED BY <1>2, <2>2, <2>3, <2>4
<1> HIDE DEF a
<1>7. /\ irp' \in [Irps -> IrpRecord] /\ \A j \in Irps : j # i => irp'[j] = irp[j]
      /\ irp'[i].ptr = p /\ irp'[i].flag = "PENDING" /\ irp'[i].status = irp[i].status
    BY <1>1, <1>4, <1>5 DEF IrpRecord
<1>8. ASSUME irp[i].ptr = NoPipe, PlacedIn(p, q, irp)
      PROVE  PlacedIn(p, R, irp')
    <2>1. /\ Elems(q.done) \subseteq Irps /\ Elems(q.pending) \subseteq Irps
          /\ q.inflight \in Irps \cup {NoIrp}
        BY <1>1, PipeFieldTypes, LenProperties DEF Elems
    <2>2. i \notin Elems(q.done) /\ i # q.inflight /\ i \notin Elems(q.pending)
        BY <1>1, <1>8, NullAssumption DEF PlacedIn
    <2>3. /\ \A j \in Elems(q.done) : irp'[j] = irp[j]
          /\ \A j \in Elems(q.pending) : irp'[j] = irp[j]
          /\ q.inflight # NoIrp => irp'[q.inflight] = irp[q.inflight]
        BY <1>7, <2>1, <2>2
    <2>4. Distinct(a) /\ Elems(a) = Elems(q.pending) \cup {i}
        BY <1>2, <1>8, <2>2 DEF PlacedIn
    <2> QED BY <1>3, <1>7, <1>8, <2>3, <2>4 DEF PlacedIn
<1> QED BY <1>1, <1>3, <1>4, <1>6, <1>7, <1>8, SubmitQueues DEF q, i

\* Without its first element a queue is what follows it.
LEMMA TailOfConcat ==
    ASSUME NEW S, NEW e \in S, NEW s \in Seq(S)
    PROVE  Tail(<<e>> \o s) = s
<1> DEFINE h == <<e>>
           w == h \o s
<1>1. h \in Seq(S) /\ Len(h) = 1 /\ Len(s) \in Nat
    BY OneElem, LenProperties
<1> HIDE DEF h
<1>2. /\ w \in Seq(S) /\ Len(w) = 1 + Len(s)
      /\ \A n \in 1 .. 1 + Len(s) : w[n] = IF n <= 1 THEN h[n] ELSE s[n - 1]
    BY <1>1, ConcatProperties
<1> HIDE DEF w
<1>3. w # <<>>
    BY <1>1, <1>2, EmptySeq
<1>4. /\ Tail(w) \in Seq(S) /\ Len(Tail(w)) = Len(w) - 1
      /\ \A n \in 1 .. Len(Tail(w)) : Tail(w)[n] = w[n + 1]
    BY <1>2, <1>3, HeadTailProperties
<1>5. Len(Tail(w)) = Len(s)
    BY <1>1, <1>2, <1>4
<1>6. ASSUME NEW n \in 1 .. Len(s)
      PROVE  Tail(w)[n] = s[n]
    <2>1. /\ n + 1 \in 1 .. 1 + Len(s) /\ ~(n + 1 <= 1) /\ (n + 1) - 1 = n
          /\ n \in 1 .. Len(Tail(w))
        BY <1>1, <1>5
    <2>2. Tail(w)[n] = w[n + 1] /\ w[n + 1] = s[(n + 1) - 1]
        BY <1>2, <1>4, <2>1
    <2> QED BY <2>1, <2>2
<1> QED BY <1>4, <1>5, <1>6, SeqEqual DEF w, h

\* hcd_irp_dequeue: the first IRP that is done leaves the queue.
LEMMA DequeueQueues ==
    ASSUME IInv, Placed, CheckedIdle, NEW t \in Tasks, NEW p \in Pipes, Dequeue(t, p)
    PROVE  QueueStep
<1> DEFINE q == pipe[p]
           i == Head(q.done)
           rest == Tail(q.done)
           R == [q EXCEPT !.done = rest]
<1>1. /\ q \in PipeRecord /\ q.done # <<>> /\ PlacedIn(p, q, irp)
      /\ irp \in [Irps -> IrpRecord]
    BY DEF IInv, PipeInv, Dequeue, Placed
<1>2. q.done \in Seq(Irps) /\ q.pending \in Seq(Irps) /\ InFlightSeq(q) \in Seq(Irps)
    BY <1>1, QueueElems
<1>3. /\ i \in Irps /\ rest \in Seq(Irps) /\ q.done = <<i>> \o rest /\ <<i>> \in Seq(Irps)
      /\ Elems(q.done) = {i} \cup Elems(rest)
      /\ Distinct(rest) /\ i \notin Elems(rest)
      /\ Len(rest) = Len(q.done) - 1 /\ Len(rest) \in Nat /\ Len(q.done) \in Nat
    <2>1. i \in Irps /\ rest \in Seq(Irps) /\ Elems(q.done) = {i} \cup Elems(rest)
        BY <1>1, <1>2, HeadTailElems
    <2>2. q.done = <<i>> \o rest /\ (Distinct(q.done) => Distinct(rest) /\ i \notin Elems(rest))
        BY <1>1, <1>2, SplitHead
    <2>3. Len(rest) = Len(q.done) - 1
        BY <1>1, <1>2, HeadTailProperties
    <2>4. Len(rest) \in Nat /\ Len(q.done) \in Nat
        BY <1>2, <2>1, LenProperties
    <2>5. Distinct(q.done)
        BY <1>1 DEF PlacedIn
    <2>6. <<i>> \in Seq(Irps)
        BY <2>1, OneElem
    <2> QED BY <2>1, <2>2, <2>3, <2>4, <2>5, <2>6
<1>4. /\ R \in PipeRecord /\ R.done = rest /\ R.inflight = q.inflight
      /\ R.pending = q.pending
    BY <1>1, <1>3 DEF PipeRecord
<1>5. pipe' = [pipe EXCEPT ![p] = R] /\ irp' = [irp EXCEPT ![i] = NewIrp] /\ call' = call
    BY DEF Dequeue
<1>6. /\ pipe'[p] = R /\ \A r \in Pipes : r # p => pipe'[r] = pipe[r] /\ pipe[r] \in PipeRecord
    BY <1>5 DEF IInv, PipeInv
<1>7. /\ irp'[i].ptr = NoPipe /\ irp'[i].flag = "IDLE" /\ irp'[i].status = "none"
      /\ \A j \in Irps : j # i => irp'[j] = irp[j]
    BY <1>1, <1>3, <1>5 DEF NewIrp
<1>8. irp[i].ptr = p /\ irp[i].flag = "DONE"
    BY <1>1, <1>3 DEF PlacedIn
<1> HIDE DEF q, i, rest, R
<1>9. Queue(R) = Tail(Queue(q))
    <2> DEFINE f == InFlightSeq(q)
               z == q.pending
               h == <<i>>
    <2>1. f \in Seq(Irps) /\ z \in Seq(Irps) /\ h \in Seq(Irps) /\ rest \in Seq(Irps)
        BY <1>2, <1>3
    <2>2. InFlightSeq(R) = f
        BY <1>4 DEF InFlightSeq
    <2>3. q.done = h \o rest
        BY <1>3
    <2> HIDE DEF f, h, z
    <2>4. Queue(R) = (rest \o f) \o z
        BY <1>4, <2>2 DEF Queue, z
    <2>5. Queue(q) = ((h \o rest) \o f) \o z
        BY <2>3 DEF Queue, f, z
    <2>6. (h \o rest) \o f = h \o (rest \o f)
        BY <2>1, ConcatAssociative
    <2> DEFINE w == rest \o f
    <2>7. w \in Seq(Irps)
        BY <2>1, ConcatProperties
    <2> HIDE DEF w
    <2>8. (h \o w) \o z = h \o (w \o z) /\ w \o z \in Seq(Irps)
        BY <2>1, <2>7, ConcatAssociative, ConcatProperties
    <2> DEFINE x == w \o z
    <2>9. Queue(q) = h \o x /\ Queue(R) = x /\ x \in Seq(Irps)
        BY <2>4, <2>5, <2>6, <2>8 DEF w
    <2> HIDE DEF x
    <2>10. Tail(h \o x) = x
        BY <1>3, <2>9, TailOfConcat DEF h
    <2> QED BY <2>9, <2>10
<1>10. ASSUME NEW r \in Pipes
       PROVE  PlacedIn(r, pipe'[r], irp')
    <2>1. CASE r = p
        <3>1. \A j \in Irps : Holds(R, j) => irp'[j] = irp[j]
            <4>1. ~Holds(R, i)
                BY <1>1, <1>3, <1>4, <1>8, NullAssumption DEF PlacedIn, Holds
            <4> QED BY <1>7, <4>1
        <3>2. PlacedIn(p, R, irp)
            BY <1>1, <1>3, <1>4 DEF PlacedIn
        <3>3. PlacedIn(p, R, irp')
            BY <1>4, <3>1, <3>2, PlacedAgain
        <3> QED BY <1>6, <2>1, <3>3
    <2>2. CASE r # p
        <3>1. PlacedIn(r, pipe[r], irp) /\ pipe'[r] = pipe[r] /\ pipe[r] \in PipeRecord
            BY <1>6, <2>2 DEF Placed
        <3>2. ~Holds(pipe[r], i)
            BY <1>3, <1>8, <2>2, <3>1, NullAssumption DEF PlacedIn, Holds
        <3>3. \A j \in Irps : Holds(pipe[r], j) => irp'[j] = irp[j]
            BY <1>7, <3>2
        <3>4. PlacedIn(r, pipe[r], irp')
            BY <3>1, <3>3, PlacedAgain
        <3> QED BY <3>1, <3>4
    <2> QED BY <2>1, <2>2
<1>11. ASSUME NEW j \in Irps
       PROVE  IF irp'[j].ptr = NoPipe THEN irp'[j].flag = "IDLE"
                                      ELSE Holds(pipe'[irp'[j].ptr], j)
    <2>1. CASE j = i
        BY <1>7, <2>1
    <2>2. CASE j # i
        <3>1. irp'[j] = irp[j] /\ irp[j].ptr \in Pipes \cup {NoPipe}
            BY <1>1, <1>7, <2>2 DEF IrpRecord
        <3>2. Holds(q, j) => Holds(R, j)
            BY <1>3, <1>4, <2>2 DEF Holds
        <3> QED BY <1>6, <3>1, <3>2 DEF Placed, q
    <2> QED BY <2>1, <2>2
<1>12. Placed'
    <2>1. NoEarlyResult(irp')
        BY <1>7 DEF Placed, NoEarlyResult
    <2> QED BY <1>10, <1>11, <2>1 DEF Placed
<1>13. CheckedIdle'
    <2>1. CallsKept
        BY <1>5 DEF CallsKept, Enqueuing
    <2>2. \A j \in Irps : irp'[j].ptr \in {irp[j].ptr, NoPipe}
        BY <1>7
    <2> QED BY <2>1, <2>2, CheckedKept
<1>14. Final
    BY <1>7, <1>8 DEF Final, Placed, NoEarlyResult
<1>15. Fifo!Take(p)
    <2>1. [r \in Pipes |-> Queue(pipe'[r])] =
            [[r \in Pipes |-> Queue(pipe[r])] EXCEPT ![p] = Tail(@)]
        <3>1. \A r \in Pipes : Queue(pipe'[r]) = IF r = p THEN Tail(Queue(q)) ELSE Queue(pipe[r])
            BY <1>6, <1>9
        <3>2. [r \in Pipes |-> Queue(pipe'[r])] =
                [r \in Pipes |-> IF r = p THEN Tail(Queue(q)) ELSE Queue(pipe[r])]
            BY <3>1
        <3> QED BY <3>2 DEF q
    <2>2. PICK a \in Nat : Len(q.done) = a /\ a > 0 /\ Len(rest) = a - 1
        BY <1>3
    <2>3. [r \in Pipes |-> Len(pipe'[r].done)] =
            [[r \in Pipes |-> Len(pipe[r].done)] EXCEPT ![p] = @ - 1]
        <3>1. \A r \in Pipes : Len(pipe'[r].done) = IF r = p THEN a - 1 ELSE Len(pipe[r].done)
            <4> TAKE r \in Pipes
            <4>1. CASE r = p
                BY <1>4, <1>6, <2>2, <4>1
            <4>2. CASE r # p
                BY <1>6, <4>2
            <4> QED BY <4>1, <4>2
        <3>2. [r \in Pipes |-> Len(pipe'[r].done)] =
                [r \in Pipes |-> IF r = p THEN a - 1 ELSE Len(pipe[r].done)]
            BY <3>1
        <3>3. [r \in Pipes |-> Len(pipe[r].done)][p] = a
            BY <2>2 DEF q
        <3> QED BY <3>2, <3>3
    <2>4. [r \in Pipes |-> Len(pipe[r].done)][p] > 0
        BY <2>2 DEF q
    <2> QED BY <2>1, <2>3, <2>4 DEF Fifo!Take
<1> QED BY <1>12, <1>13, <1>14, <1>15 DEF QueueStep, Fifo!FifoNext

-----------------------------------------------------------------------------
(* Clients: hcd_irp_abort *)

\* The part of a queue between two others.
LEMMA CutMiddle ==
    ASSUME NEW S, NEW x \in Seq(S), NEW y \in Seq(S), NEW z \in Seq(S)
    PROVE  SubSeq((x \o y) \o z, Len(x) + 1, Len(x) + Len(y)) = y
<1> DEFINE v == x \o y
           w == v \o z
           l == Len(x)
           m == Len(y)
           n == Len(z)
           r == SubSeq(w, l + 1, l + m)
<1>1. l \in Nat /\ m \in Nat /\ n \in Nat
    BY LenProperties
<1>2. /\ v \in Seq(S) /\ Len(v) = l + m
      /\ \A k \in 1 .. l + m : v[k] = IF k <= l THEN x[k] ELSE y[k - l]
    BY ConcatProperties
<1> HIDE DEF v
<1>3. /\ w \in Seq(S) /\ Len(w) = (l + m) + n
      /\ \A k \in 1 .. (l + m) + n : w[k] = IF k <= l + m THEN v[k] ELSE z[k - (l + m)]
    <2>1. /\ w \in Seq(S) /\ Len(w) = Len(v) + Len(z)
          /\ \A k \in 1 .. Len(v) + Len(z) : w[k] = IF k <= Len(v) THEN v[k] ELSE z[k - Len(v)]
        <3>1. v \in Seq(S)
            BY <1>2
        <3> HIDE DEF l, m, n
        <3> QED BY <3>1, ConcatProperties
    <2> HIDE DEF w, l, m
    <2> QED BY <1>2, <2>1
<1> HIDE DEF w
<1>4. \A k \in 1 .. Len(w) : w[k] \in S
    BY <1>3, ElementOfSeq
<1> HIDE DEF l, m, n
<1>5. /\ r \in Seq(S) /\ Len(r) = m
      /\ \A k \in 1 .. m : r[k] = w[l + k]
    <2>1. l + 1 \in Int /\ l + m \in Int /\ \A k \in l + 1 .. l + m : w[k] \in S
        BY <1>1, <1>3, <1>4
    <2>2. /\ r \in Seq(S)
          /\ Len(r) = IF l + 1 <= l + m THEN (l + m) - (l + 1) + 1 ELSE 0
          /\ \A k \in 1 .. (l + m) - (l + 1) + 1 : r[k] = w[(l + 1) + k - 1]
        BY <2>1, SubSeqProperties
    <2>3. /\ (IF l + 1 <= l + m THEN (l + m) - (l + 1) + 1 ELSE 0) = m
          /\ (l + m) - (l + 1) + 1 = m
          /\ \A k \in 1 .. m : (l + 1) + k - 1 = l + k
        BY <1>1
    <2> HIDE DEF r
    <2>4. Len(r) = m
        BY <2>2, <2>3
    <2>5. ASSUME NEW k \in 1 .. m
          PROVE  r[k] = w[l + k]
        <3>1. k \in 1 .. (l + m) - (l + 1) + 1 /\ (l + 1) + k - 1 = l + k
            BY <2>3
        <3>2. r[k] = w[(l + 1) + k - 1]
            BY <2>2, <3>1
        <3> QED BY <3>1, <3>2
    <2> QED BY <2>2, <2>4, <2>5
<1> HIDE DEF r
<1>6. ASSUME NEW k \in 1 .. m
      PROVE  r[k] = y[k]
    <2>1. /\ l + k \in 1 .. l + m /\ l + k \in 1 .. (l + m) + n /\ l + k <= l + m
          /\ ~(l + k <= l) /\ (l + k) - l = k
        BY <1>1
    <2>2. w[l + k] = v[l + k]
        BY <1>3, <2>1
    <2>3. v[l + k] = y[(l + k) - l]
        BY <1>2, <2>1
    <2> QED BY <1>5, <2>1, <2>2, <2>3
<1>7. Len(r) = Len(y)
    BY <1>5 DEF m
<1>8. r = y
    BY <1>5, <1>6, <1>7, SeqEqual
<1> QED BY <1>8 DEF r, w, v, l, m

\* The queue around one of its elements, and without it.
Parts(S, s, e) ==
    \E b \in Seq(S), c \in Seq(S) : s = (b \o <<e>>) \o c /\ Without(s, e) = b \o c

LEMMA WithoutParts ==
    ASSUME NEW S, NEW s \in Seq(S), NEW e \in Elems(s)
    PROVE  Parts(S, s, e)
<1> DEFINE k == IndexIn(s, e)
           b == SubSeq(s, 1, k - 1)
           c == SubSeq(s, k + 1, Len(s))
           h == <<e>>
<1>1. DOMAIN s = 1 .. Len(s) /\ Len(s) \in Nat
    BY LenProperties
<1>2. k \in 1 .. Len(s) /\ s[k] = e
    <2>1. \E n \in DOMAIN s : s[n] = e
        BY DEF Elems
    <2> QED BY <2>1, <1>1 DEF IndexIn
<1>3. \A n \in 1 .. Len(s) : s[n] \in S
    BY ElementOfSeq
<1>4. Without(s, e) = b \o c
    BY DEF Without, RemoveNth
<1> HIDE DEF k
<1>5. PICK kk \in Nat, l \in Nat : k = kk /\ Len(s) = l /\ 1 <= kk /\ kk <= l
    <2> DEFINE ll == Len(s)
    <2>1. ll \in Nat /\ k \in 1 .. ll
        BY <1>1, <1>2
    <2> SUFFICES \E kk \in Nat, l \in Nat : k = kk /\ ll = l /\ 1 <= kk /\ kk <= l
        OBVIOUS
    <2> HIDE DEF ll
    <2> QED BY <2>1
<1>6. b \in Seq(S) /\ Len(b) = kk - 1 /\ \A n \in 1 .. kk - 1 : b[n] = s[n]
    <2>1. 1 \in Int /\ kk - 1 \in Int /\ \A n \in 1 .. kk - 1 : s[n] \in S
        BY <1>3, <1>5
    <2>2. /\ b \in Seq(S)
          /\ Len(b) = IF 1 <= kk - 1 THEN (kk - 1) - 1 + 1 ELSE 0
          /\ \A n \in 1 .. (kk - 1) - 1 + 1 : b[n] = s[1 + n - 1]
        BY <2>1, <1>5, SubSeqProperties
    <2>3. /\ (IF 1 <= kk - 1 THEN (kk - 1) - 1 + 1 ELSE 0) = kk - 1
          /\ \A n \in 1 .. kk - 1 : n \in 1 .. (kk - 1) - 1 + 1 /\ 1 + n - 1 = n
        BY <1>5
    <2> QED BY <2>2, <2>3
<1>7. c \in Seq(S) /\ Len(c) = l - kk /\ \A n \in 1 .. l - kk : c[n] = s[n + kk]
    <2>1. kk + 1 \in Int /\ l \in Int /\ \A n \in kk + 1 .. l : s[n] \in S
        BY <1>3, <1>5
    <2>2. /\ c \in Seq(S)
          /\ Len(c) = IF kk + 1 <= l THEN l - (kk + 1) + 1 ELSE 0
          /\ \A n \in 1 .. l - (kk + 1) + 1 : c[n] = s[(kk + 1) + n - 1]
        BY <2>1, <1>5, SubSeqProperties
    <2>3. /\ (IF kk + 1 <= l THEN l - (kk + 1) + 1 ELSE 0) = l - kk
          /\ \A n \in 1 .. l - kk : n \in 1 .. l - (kk + 1) + 1 /\ (kk + 1) + n - 1 = n + kk
        BY <1>5
    <2> HIDE DEF c
    <2>4. Len(c) = l - kk
        BY <2>2, <2>3
    <2>5. ASSUME NEW n \in 1 .. l - kk
          PROVE  c[n] = s[n + kk]
        <3>1. n \in 1 .. l - (kk + 1) + 1 /\ (kk + 1) + n - 1 = n + kk
            BY <2>3
        <3>2. c[n] = s[(kk + 1) + n - 1]
            BY <2>2, <3>1
        <3> QED BY <3>1, <3>2
    <2> QED BY <2>2, <2>4, <2>5
<1>8. e \in S /\ h \in Seq(S) /\ Len(h) = 1 /\ h[1] = e
    BY <1>2, <1>3, OneElem
<1> HIDE DEF b, c, h
<1> DEFINE v == b \o h
           w == v \o c
<1>9. /\ v \in Seq(S) /\ Len(v) = (kk - 1) + 1
      /\ \A n \in 1 .. (kk - 1) + 1 : v[n] = IF n <= kk - 1 THEN b[n] ELSE h[n - (kk - 1)]
    <2>1. /\ v \in Seq(S) /\ Len(v) = Len(b) + Len(h)
          /\ \A n \in 1 .. Len(b) + Len(h) : v[n] = IF n <= Len(b) THEN b[n] ELSE h[n - Len(b)]
        BY <1>6, <1>8, ConcatProperties
    <2> HIDE DEF v
    <2> QED BY <1>6, <1>8, <2>1
<1>10. (kk - 1) + 1 = kk
    BY <1>5
<1> HIDE DEF v
<1>11. /\ w \in Seq(S) /\ Len(w) = kk + (l - kk)
       /\ \A n \in 1 .. kk + (l - kk) : w[n] = IF n <= kk THEN v[n] ELSE c[n - kk]
    <2>1. /\ w \in Seq(S) /\ Len(w) = Len(v) + Len(c)
          /\ \A n \in 1 .. Len(v) + Len(c) : w[n] = IF n <= Len(v) THEN v[n] ELSE c[n - Len(v)]
        BY <1>7, <1>9, ConcatProperties
    <2> HIDE DEF w
    <2> QED BY <1>7, <1>9, <1>10, <2>1
<1>12. kk + (l - kk) = l
    BY <1>5
<1> HIDE DEF w
<1>13. ASSUME NEW n \in 1 .. l
       PROVE  w[n] = s[n]
    <2>1. CASE n < kk
        <3>1. n \in 1 .. (kk - 1) + 1 /\ n <= kk - 1 /\ n <= kk /\ n \in 1 .. kk - 1
            BY <1>5, <2>1
        <3> QED BY <1>6, <1>9, <1>11, <1>12, <3>1
    <2>2. CASE n = kk
        <3>1. kk \in 1 .. (kk - 1) + 1 /\ ~(kk <= kk - 1) /\ kk <= kk /\ kk - (kk - 1) = 1
            BY <1>5
        <3>2. w[kk] = v[kk]
            BY <1>11, <1>12, <2>2, <3>1
        <3>3. v[kk] = h[kk - (kk - 1)]
            BY <1>9, <3>1
        <3> QED BY <1>2, <1>5, <1>8, <2>2, <3>1, <3>2, <3>3
    <2>3. CASE n > kk
        <3>1. ~(n <= kk) /\ n - kk \in 1 .. l - kk /\ (n - kk) + kk = n
            BY <1>5, <2>3
        <3>2. w[n] = c[n - kk]
            BY <1>11, <1>12, <3>1
        <3>3. c[n - kk] = s[(n - kk) + kk]
            BY <1>7, <3>1
        <3> QED BY <3>1, <3>2, <3>3
    <2> QED BY <1>5, <2>1, <2>2, <2>3
<1>14. s = w
    <2>1. Len(s) = Len(w)
        BY <1>5, <1>11, <1>12
    <2>2. \A n \in 1 .. Len(s) : s[n] = w[n]
        BY <1>5, <1>13
    <2> QED BY <1>11, <2>1, <2>2, SeqEqual
<1>15. s = (b \o <<e>>) \o c
    BY <1>14 DEF w, v, h
<1> QED BY <1>4, <1>6, <1>7, <1>15 DEF Parts

\* Concatenation is associative; the operators let the provers find the instance.
Associates(s, t, u) == (s \o t) \o u = s \o (t \o u)

LEMMA ConcatThree ==
    ASSUME NEW S, NEW s \in Seq(S), NEW t \in Seq(S), NEW u \in Seq(S)
    PROVE  Associates(s, t, u)
    BY ConcatAssociative DEF Associates

Regroups(s, t, u, v) == (s \o t) \o (u \o v) = (s \o (t \o u)) \o v

LEMMA ConcatFour ==
    ASSUME NEW S, NEW s \in Seq(S), NEW t \in Seq(S), NEW u \in Seq(S), NEW v \in Seq(S)
    PROVE  Regroups(s, t, u, v)
<1> DEFINE x == s \o t
<1>1. x \in Seq(S)
    BY ConcatProperties
<1>2. x \o u = s \o (t \o u)
    BY ConcatThree DEF Associates
<1> HIDE DEF x
<1>3. Associates(x, u, v)
    BY <1>1, ConcatThree
<1> QED BY <1>2, <1>3 DEF x, Associates, Regroups

\* The ways to read a queue that has h between b and c.
Readings(d, f, b, h, c) ==
    /\ (d \o f) \o ((b \o h) \o c) = (d \o (f \o b)) \o (h \o c)
    /\ (d \o (f \o b)) \o (h \o c) = d \o ((f \o b) \o (h \o c))
    /\ (d \o (f \o b)) \o (h \o c) = ((d \o (f \o b)) \o h) \o c

LEMMA CancelAssociative ==
    ASSUME NEW S, NEW d \in Seq(S), NEW f \in Seq(S), NEW b \in Seq(S), NEW h \in Seq(S),
           NEW c \in Seq(S)
    PROVE  Readings(d, f, b, h, c)
<1> DEFINE g == f \o b
           y == h \o c
           x == d \o g
<1>1. g \in Seq(S) /\ y \in Seq(S)
    BY ConcatProperties
<1>2. Associates(b, h, c)
    BY ConcatThree
<1> HIDE DEF y
<1>3. Regroups(d, f, b, y)
    BY <1>1, ConcatFour
<1> HIDE DEF g
<1>4. Associates(d, g, y)
    BY <1>1, ConcatThree
<1>5. x \in Seq(S)
    BY <1>1, ConcatProperties
<1> HIDE DEF x
<1>6. Associates(x, h, c)
    BY <1>5, ConcatThree
<1> QED BY <1>2, <1>3, <1>4, <1>6 DEF x, g, y, Associates, Regroups, Readings

\* An element taken out of the back of a queue and put behind d, as Cancel says.
CutsOut(Q, d, f, b, h, c) ==
    \E k \in 1 .. Len(Q) :
        /\ k > Len(d) /\ Q[k] = h[1]
        /\ SubSeq(Q, 1, Len(d)) = d
        /\ SubSeq(Q, Len(d) + 1, k - 1) = f \o b
        /\ SubSeq(Q, k + 1, Len(Q)) = c

LEMMA CancelForm ==
    ASSUME NEW S, NEW d \in Seq(S), NEW f \in Seq(S), NEW b \in Seq(S), NEW c \in Seq(S),
           NEW h \in Seq(S), Len(h) = 1, NEW Q, Q = (d \o f) \o ((b \o h) \o c)
    PROVE  CutsOut(Q, d, f, b, h, c)
<1> DEFINE g == f \o b
           y == h \o c
           x == d \o g
           u == x \o h
           z == g \o y
           no == <<>>
<1>1. /\ Q = x \o y /\ Q = d \o z /\ Q = u \o c
    <2>1. Readings(d, f, b, h, c)
        BY CancelAssociative
    <2> QED BY <2>1 DEF Readings
<1>2. ASSUME NEW s \in Seq(S), NEW t \in Seq(S)
      PROVE  s \o t \in Seq(S) /\ Len(s \o t) = Len(s) + Len(t)
    BY ConcatProperties
<1>3. no \in Seq(S) /\ Len(no) = 0 /\ no \o d = d
    BY EmptySeq, ConcatEmptySeq
<1> HIDE DEF no
<1>4. g \in Seq(S) /\ y \in Seq(S)
    BY <1>2
<1> HIDE DEF g, y
<1>5. x \in Seq(S) /\ Len(x) = Len(d) + Len(g) /\ z \in Seq(S)
    BY <1>2, <1>4
<1> HIDE DEF z
<1>6. u \in Seq(S) /\ Len(u) = Len(x) + 1
    <2>1. x \in Seq(S)
        BY <1>5
    <2> HIDE DEF x
    <2>2. u \in Seq(S) /\ Len(u) = Len(x) + Len(h)
        BY <1>2, <2>1
    <2> QED BY <2>2
<1>7. \A n \in 1 .. Len(x) + Len(h) : u[n] = IF n <= Len(x) THEN x[n] ELSE h[n - Len(x)]
    <2>1. x \in Seq(S)
        BY <1>5
    <2> HIDE DEF x
    <2> QED BY <2>1, ConcatProperties
<1> HIDE DEF x
<1>8. /\ Q \in Seq(S) /\ Len(Q) = Len(u) + Len(c)
      /\ \A n \in 1 .. Len(u) + Len(c) : Q[n] = IF n <= Len(u) THEN u[n] ELSE c[n - Len(u)]
    <2>1. u \in Seq(S) /\ Q = u \o c
        BY <1>1, <1>6
    <2> DEFINE w == u \o c
    <2> HIDE DEF u
    <2>2. /\ w \in Seq(S) /\ Len(w) = Len(u) + Len(c)
          /\ \A n \in 1 .. Len(u) + Len(c) : w[n] = IF n <= Len(u) THEN u[n] ELSE c[n - Len(u)]
        BY <2>1, ConcatProperties
    <2>3. Q = w
        BY <2>1
    <2> HIDE DEF w
    <2> QED BY <2>2, <2>3
<1> HIDE DEF u
<1>9. PICK a \in Nat, m \in Nat, n \in Nat :
          /\ Len(d) = a /\ Len(g) = m /\ Len(c) = n
          /\ Len(x) = a + m /\ Len(u) = (a + m) + 1 /\ Len(Q) = ((a + m) + 1) + n
    <2>1. Len(d) \in Nat /\ Len(g) \in Nat /\ Len(c) \in Nat
        BY <1>4, LenProperties
    <2> QED BY <1>5, <1>6, <1>8, <2>1
<1> DEFINE k == (a + m) + 1
<1>10. Q[k] = h[1]
    <2>1. /\ k \in 1 .. k + n /\ k <= k /\ k \in 1 .. (a + m) + 1
          /\ ~(k <= a + m) /\ k - (a + m) = 1
        BY <1>9
    <2>2. Q[k] = u[k]
        BY <1>8, <1>9, <2>1
    <2>3. u[k] = h[k - (a + m)]
        BY <1>7, <1>9, <2>1
    <2> QED BY <2>1, <2>2, <2>3
<1>11. SubSeq(Q, 1, a) = d
    <2>1. SubSeq((no \o d) \o z, Len(no) + 1, Len(no) + Len(d)) = d
        BY <1>3, <1>5, CutMiddle
    <2>2. Len(no) + 1 = 1 /\ Len(no) + Len(d) = a
        BY <1>3, <1>9
    <2> QED BY <1>1, <1>3, <2>1, <2>2
<1>12. SubSeq(Q, a + 1, k - 1) = g
    <2>1. SubSeq((d \o g) \o y, Len(d) + 1, Len(d) + Len(g)) = g
        BY <1>4, CutMiddle
    <2>2. Len(d) + 1 = a + 1 /\ Len(d) + Len(g) = k - 1
        BY <1>9
    <2> QED BY <1>1, <2>1, <2>2 DEF x
<1>13. SubSeq(Q, k + 1, Len(Q)) = c
    <2>1. SubSeq((u \o c) \o no, Len(u) + 1, Len(u) + Len(c)) = c
        BY <1>3, <1>6, CutMiddle
    <2>2. (u \o c) \o no = Q
        <3>1. Q \o no = Q
            BY <1>8, ConcatEmptySeq DEF no
        <3> QED BY <1>1, <3>1
    <2>3. Len(u) + 1 = k + 1 /\ Len(u) + Len(c) = Len(Q)
        BY <1>8, <1>9
    <2> QED BY <2>1, <2>2, <2>3
<1>14. k \in 1 .. Len(Q) /\ k > a
    BY <1>9
<1> HIDE DEF k
<1> QED BY <1>9, <1>10, <1>11, <1>12, <1>13, <1>14 DEF g, CutsOut

\* hcd_irp_abort: a pending IRP joins those that are done.
LEMMA AbortQueues ==
    ASSUME IInv, Placed, CheckedIdle, NEW t \in Tasks, NEW i \in Irps, AbortIrp(t, i)
    PROVE  QueueStep
<1> DEFINE p == irp[i].ptr
           q == pipe[p]
           R == [q EXCEPT !.pending = Without(q.pending, i), !.done = Append(q.done, i)]
<1>1. /\ p \in Pipes /\ i \in Elems(q.pending) /\ q \in PipeRecord /\ PlacedIn(p, q, irp)
      /\ irp \in [Irps -> IrpRecord] /\ irp[i].flag = "PENDING"
    BY DEF IInv, PipeInv, PendingPlaced, AbortIrp, Placed
<1>2. /\ q.done \in Seq(Irps) /\ q.pending \in Seq(Irps) /\ InFlightSeq(q) \in Seq(Irps)
      /\ Len(q.done) \in Nat
    BY <1>1, QueueElems
<1>3. /\ Without(q.pending, i) \in Seq(Irps) /\ Distinct(Without(q.pending, i))
      /\ Elems(Without(q.pending, i)) = Elems(q.pending) \ {i}
    BY <1>1, <1>2, WithoutElems DEF PlacedIn
<1>4. i \notin Elems(q.done) /\ i # q.inflight
    BY <1>1, NullAssumption DEF PlacedIn
<1>5. /\ Append(q.done, i) \in Seq(Irps) /\ Distinct(Append(q.done, i))
      /\ Elems(Append(q.done, i)) = Elems(q.done) \cup {i}
    BY <1>1, <1>2, <1>4, AppendElems DEF PlacedIn
<1>6. /\ R \in PipeRecord /\ R.inflight = q.inflight
      /\ R.pending = Without(q.pending, i) /\ R.done = Append(q.done, i)
    BY <1>1, <1>3, <1>5 DEF PipeRecord
<1>7. pipe' = [pipe EXCEPT ![p] = R] /\ call' = call /\ irp' = Finished(irp, {i}, "CANCELLED")
    BY DEF AbortIrp
<1>8. /\ irp'[i].ptr = p /\ irp'[i].flag = "DONE"
      /\ \A j \in Irps : j # i => irp'[j] = irp[j]
    BY <1>1, <1>7 DEF Finished, IrpRecord
<1> HIDE DEF p, q, R
<1>9. /\ pipe'[p] = R /\ \A r \in Pipes : r # p => pipe'[r] = pipe[r] /\ pipe[r] \in PipeRecord
    BY <1>1, <1>7 DEF IInv, PipeInv
<1>10. ASSUME NEW r \in Pipes
       PROVE  PlacedIn(r, pipe'[r], irp')
    <2>1. CASE r = p
        <3>1. /\ Elems(q.done) \subseteq Irps /\ Elems(q.pending) \subseteq Irps
              /\ q.inflight \in Irps \cup {NoIrp}
            BY <1>1, PipeFieldTypes, LenProperties DEF Elems
        <3>2. PlacedIn(p, R, irp')
            BY <1>1, <1>3, <1>4, <1>5, <1>6, <1>8, <3>1 DEF PlacedIn
        <3> QED BY <1>9, <2>1, <3>2
    <2>2. CASE r # p
        <3>1. PlacedIn(r, pipe[r], irp) /\ pipe'[r] = pipe[r] /\ pipe[r] \in PipeRecord
            BY <1>9, <2>2 DEF Placed
        <3>2. ~Holds(pipe[r], i)
            BY <1>1, <2>2, <3>1, NullAssumption DEF PlacedIn, Holds, p
        <3>3. \A j \in Irps : Holds(pipe[r], j) => irp'[j] = irp[j]
            BY <1>8, <3>2
        <3>4. PlacedIn(r, pipe[r], irp')
            BY <3>1, <3>3, PlacedAgain
        <3> QED BY <3>1, <3>4
    <2> QED BY <2>1, <2>2
<1>11. ASSUME NEW j \in Irps
       PROVE  IF irp'[j].ptr = NoPipe THEN irp'[j].flag = "IDLE"
                                      ELSE Holds(pipe'[irp'[j].ptr], j)
    <2>1. CASE j = i
        BY <1>1, <1>5, <1>6, <1>8, <1>9, <2>1, NullAssumption DEF Holds
    <2>2. CASE j # i
        <3>1. irp'[j] = irp[j] /\ irp[j].ptr \in Pipes \cup {NoPipe}
            BY <1>1, <1>8, <2>2 DEF IrpRecord
        <3>2. Holds(q, j) => Holds(R, j)
            BY <1>3, <1>5, <1>6, <2>2 DEF Holds
        <3> QED BY <1>9, <3>1, <3>2 DEF Placed, q
    <2> QED BY <2>1, <2>2
<1>12. Placed'
    <2>1. NoEarlyResult(irp')
        BY <1>8 DEF Placed, NoEarlyResult
    <2> QED BY <1>10, <1>11, <2>1 DEF Placed
<1>13. CheckedIdle'
    <2>1. CallsKept
        BY <1>7 DEF CallsKept, Enqueuing
    <2>2. \A j \in Irps : irp'[j].ptr \in {irp[j].ptr, NoPipe}
        BY <1>8 DEF p
    <2> QED BY <2>1, <2>2, CheckedKept
<1>14. Final
    BY <1>1, <1>8 DEF Final, Placed, NoEarlyResult
<1>15. \E k \in DOMAIN [r \in Pipes |-> Queue(pipe[r])][p] : Fifo!Cancel(p, k)
    <2> DEFINE d == q.done
               f == InFlightSeq(q)
               h == <<i>>
               Q == Queue(q)
    <2>1. h \in Seq(Irps) /\ Len(h) = 1 /\ h[1] = i
        BY OneElem
    <2>2. PICK b \in Seq(Irps), c \in Seq(Irps) :
             q.pending = (b \o <<i>>) \o c /\ Without(q.pending, i) = b \o c
        <3>1. Parts(Irps, q.pending, i)
            BY <1>1, <1>2, WithoutParts
        <3> QED BY <3>1 DEF Parts
    <2>3. d \in Seq(Irps) /\ f \in Seq(Irps)
        BY <1>2
    <2>4. InFlightSeq(R) = f /\ Append(q.done, i) = d \o h
        BY <1>2, <1>6, AppendIsConcat DEF InFlightSeq
    <2> HIDE DEF f, h, d
    <2>5. Q = (d \o f) \o ((b \o h) \o c)
        BY <2>2 DEF Queue, d, f, h
    <2> DEFINE dh == d \o h
    <2>6. dh \in Seq(Irps)
        BY <2>1, <2>3, ConcatProperties
    <2> HIDE DEF dh
    <2>7. Queue(R) = (dh \o f) \o (b \o c)
        BY <1>6, <2>2, <2>4 DEF Queue, dh
    <2>8. Queue(R) = (dh \o (f \o b)) \o c
        <3>1. Regroups(dh, f, b, c)
            BY <2>2, <2>3, <2>6, ConcatFour
        <3> QED BY <2>7, <3>1 DEF Regroups
    <2> HIDE DEF Q
    <2>9. PICK k \in 1 .. Len(Q) :
             /\ k > Len(d) /\ Q[k] = h[1]
             /\ SubSeq(Q, 1, Len(d)) = d
             /\ SubSeq(Q, Len(d) + 1, k - 1) = f \o b
             /\ SubSeq(Q, k + 1, Len(Q)) = c
        <3>1. CutsOut(Q, d, f, b, h, c)
            BY <2>1, <2>2, <2>3, <2>5, CancelForm
        <3> QED BY <3>1 DEF CutsOut
    <2> DEFINE queues == [r \in Pipes |-> Queue(pipe[r])]
               dones == [r \in Pipes |-> Len(pipe[r].done)]
    <2>10. queues[p] = Q /\ dones[p] = Len(d) /\ Len(d) \in Nat
        BY <1>1, <1>2 DEF Q, q, d
    <2>11. SubSeq(Q, 1, Len(d)) \o <<Q[k]>> \o SubSeq(Q, Len(d) + 1, k - 1)
                                \o SubSeq(Q, k + 1, Len(Q)) = Queue(R)
        BY <2>1, <2>8, <2>9 DEF dh, h
    <2>12. queues' = [queues EXCEPT ![p] = Queue(R)]
        <3>1. \A r \in Pipes : Queue(pipe'[r]) = IF r = p THEN Queue(R) ELSE Queue(pipe[r])
            BY <1>9
        <3>2. queues' = [r \in Pipes |-> IF r = p THEN Queue(R) ELSE Queue(pipe[r])]
            BY <3>1
        <3> QED BY <3>2
    <2>13. dones' = [dones EXCEPT ![p] = Len(d) + 1]
        <3>1. Len(R.done) = Len(d) + 1
            <4>1. Len(Append(q.done, i)) = Len(q.done) + 1
                BY <1>2, AppendProperties
            <4> QED BY <1>6, <4>1 DEF d
        <3>2. \A r \in Pipes : Len(pipe'[r].done) = IF r = p THEN Len(d) + 1 ELSE Len(pipe[r].done)
            <4> TAKE r \in Pipes
            <4>1. CASE r = p
                BY <1>9, <3>1, <4>1
            <4>2. CASE r # p
                BY <1>9, <4>2
            <4> QED BY <4>1, <4>2
        <3>3. dones' = [r \in Pipes |-> IF r = p THEN Len(d) + 1 ELSE Len(pipe[r].done)]
            BY <3>2
        <3> QED BY <3>3
    <2>14. k \in DOMAIN Q
        BY <1>1, <2>9, QueueElems, LenProperties DEF Q
    <2> HIDE DEF queues, dones
    <2>15. Fifo!Cancel(p, k)
        BY <2>9, <2>10, <2>11, <2>12, <2>13 DEF Fifo!Cancel, queues, dones
    <2> QED BY <2>10, <2>14, <2>15 DEF queues
<1>16. \E r \in Pipes : \E k \in DOMAIN [s \in Pipes |-> Queue(pipe[s])][r] : Fifo!Cancel(r, k)
    BY <1>1, <1>15 DEF p
<1> QED BY <1>12, <1>13, <1>14, <1>16 DEF QueueStep, Fifo!FifoNext

-----------------------------------------------------------------------------
(* The steps that move no IRP *)

LEMMA FieldStill ==
    ASSUME IInv, NEW p \in Pipes, NEW R, pipe' = [pipe EXCEPT ![p] = R],
           R.pending = pipe[p].pending, R.done = pipe[p].done, R.inflight = pipe[p].inflight
    PROVE  \A r \in Pipes : QueueSame(r)
<1>1. pipe'[p] = R /\ \A r \in Pipes : r # p => pipe'[r] = pipe[r]
    BY DEF IInv, PipeInv
<1> QED BY <1>1 DEF QueueSame

\* A step that touches no pipe and no IRP.
LEMMA QuietQueues ==
    ASSUME IInv, Placed, CheckedIdle, UNCHANGED <<pipe, irp>>, CallsKept
    PROVE  QueueStep
<1>1. \A r \in Pipes : QueueSame(r)
    BY DEF QueueSame
<1> QED BY <1>1, StillQueues

LEMMA EnqueueCheckQueues ==
    ASSUME IInv, Placed, CheckedIdle, NEW t \in Tasks, NEW p \in Pipes, NEW i \in Irps,
           EnqueueCheck(t, p, i)
    PROVE  QueueStep
<1>1. UNCHANGED <<pipe, irp>> /\ irp[i].ptr = NoPipe
    BY DEF EnqueueCheck
<1>2. \A r \in Pipes : QueueSame(r)
    BY <1>1 DEF QueueSame
<1>3. Placed' /\ Final /\ UNCHANGED Fifo!fifo
    BY <1>1, <1>2, StillStep
<1>4. CheckedIdle'
    BY <1>1 DEF CheckedIdle, Enqueuing, EnqueueCheck, IInv, RestInv
<1> QED BY <1>3, <1>4 DEF QueueStep

\* A task leaves the driver, or wakes up in it.
LEMMA LeavingKeepsCalls ==
    ASSUME IInv, NEW t \in Tasks, Return(t) \/ CommandWake(t)
    PROVE  CallsKept
<1>1. call \in [Tasks -> CallRecord]
    BY DEF IInv, RestInv
<1>2. CASE Return(t)
    BY <1>1, <1>2 DEF Return, IdleCall, CallsKept, Enqueuing
<1>3. CASE CommandWake(t)
    BY <1>1, <1>3 DEF CommandWake, CallsKept, Enqueuing, CallRecord
<1> QED BY <1>2, <1>3

\* The steps of the clients that change the flags of a pipe, or an empty pipe.
LEMMA ClientFieldQueues ==
    ASSUME IInv, Placed, CheckedIdle, NEW t \in Tasks, NEW p \in Pipes,
           \/ Alloc(t, p) \/ FreePipe(t, p) \/ GetEvent(t, p)
           \/ \E a \in Addrs : Update(t, p, a)
           \/ \E c \in Blocking : CommandBlock(t, p, c)
    PROVE  QueueStep
<1>1. pipe[p] \in PipeRecord
    BY DEF IInv, PipeInv
<1>2. ASSUME NEW R, pipe' = [pipe EXCEPT ![p] = R], UNCHANGED irp, CallsKept,
             R.pending = pipe[p].pending, R.done = pipe[p].done, R.inflight = pipe[p].inflight
      PROVE  QueueStep
    BY <1>2, FieldStill, StillQueues
<1>3. UNCHANGED call => CallsKept
    BY DEF CallsKept, Enqueuing
<1>4. ASSUME NEW s, NEW a, Queue(pipe[p]) = <<>>, pipe' = [pipe EXCEPT ![p] = NewPipe(s, a)],
             UNCHANGED irp, CallsKept
      PROVE  QueueStep
    <2>1. pipe[p].done = <<>> /\ pipe[p].inflight = NoIrp /\ pipe[p].pending = <<>>
        BY <1>1, <1>4, QueueEmpty
    <2> DEFINE R == NewPipe(s, a)
    <2>2. R.done = <<>> /\ R.inflight = NoIrp /\ R.pending = <<>>
        BY DEF NewPipe
    <2>3. pipe' = [pipe EXCEPT ![p] = R]
        BY <1>4
    <2> HIDE DEF R
    <2> QED BY <1>2, <1>4, <2>1, <2>2, <2>3
<1>5. CASE Alloc(t, p)
    <2>1. Queue(pipe[p]) = <<>>
        BY <1>5 DEF Alloc, IInv, PipeInv, FreeIsEmpty, Allocated
    <2>2. PICK a \in Addrs : pipe' = [pipe EXCEPT ![p] = NewPipe("ACTIVE", a)]
        BY <1>5 DEF Alloc
    <2>3. UNCHANGED <<irp, call>>
        BY <1>5 DEF Alloc
    <2> QED BY <1>3, <1>4, <2>1, <2>2, <2>3
<1>6. CASE FreePipe(t, p)
    <2>1. /\ Queue(pipe[p]) = <<>> /\ pipe' = [pipe EXCEPT ![p] = NewPipe("FREE", pipe[p].addr)]
          /\ UNCHANGED <<irp, call>>
        BY <1>6 DEF FreePipe
    <2> QED BY <1>3, <1>4, <2>1
<1>7. CASE GetEvent(t, p)
    <2> DEFINE R == [pipe[p] EXCEPT !.last_event = "NONE"]
    <2>1. /\ R.pending = pipe[p].pending /\ R.done = pipe[p].done
          /\ R.inflight = pipe[p].inflight
        BY <1>1 DEF PipeRecord
    <2>2. pipe' = [pipe EXCEPT ![p] = R] /\ UNCHANGED <<irp, call>>
        BY <1>7 DEF GetEvent
    <2> HIDE DEF R
    <2> QED BY <1>2, <1>3, <2>1, <2>2
<1>8. CASE \E a \in Addrs : Update(t, p, a)
    <2>1. PICK a \in Addrs : Update(t, p, a)
        BY <1>8
    <2> DEFINE R == [pipe[p] EXCEPT !.addr = a]
    <2>2. /\ R.pending = pipe[p].pending /\ R.done = pipe[p].done
          /\ R.inflight = pipe[p].inflight
        BY <1>1 DEF PipeRecord
    <2>3. pipe' = [pipe EXCEPT ![p] = R] /\ UNCHANGED <<irp, call>>
        BY <2>1 DEF Update
    <2> HIDE DEF R
    <2> QED BY <1>2, <1>3, <2>2, <2>3
<1>9. CASE \E c \in Blocking : CommandBlock(t, p, c)
    <2>1. PICK c \in Blocking : CommandBlock(t, p, c)
        BY <1>9
    <2> DEFINE R == [pipe[p] EXCEPT !.cmd = TRUE, !.waiting = TRUE, !.waiter = t]
    <2>2. /\ R.pending = pipe[p].pending /\ R.done = pipe[p].done
          /\ R.inflight = pipe[p].inflight
        BY <1>1 DEF PipeRecord
    <2>3. pipe' = [pipe EXCEPT ![p] = R] /\ UNCHANGED irp
        BY <2>1 DEF CommandBlock
    <2>4. CallsKept
        BY <2>1 DEF CommandBlock, CallsKept, Enqueuing, Blocking, IInv, RestInv
    <2> HIDE DEF R
    <2> QED BY <1>2, <2>2, <2>3, <2>4
<1> QED BY <1>5, <1>6, <1>7, <1>8, <1>9

\* A command that finds its pipe invalid.
LEMMA ResumeInvalidQueues ==
    ASSUME IInv, Placed, CheckedIdle, NEW t \in Tasks, ResumeInvalid(t)
    PROVE  QueueStep
<1> DEFINE p == call[t].pipe
           R == [pipe[p] EXCEPT !.waiter = NoTask, !.waiting = FALSE, !.cmd = FALSE]
<1>1. p \in Pipes /\ pipe[p] \in PipeRecord
    BY DEF IInv, PipeInv, RestInv, ResumeInvalid, Resumes, InCommand, Blocking
<1>2. R.pending = pipe[p].pending /\ R.done = pipe[p].done /\ R.inflight = pipe[p].inflight
    BY <1>1 DEF PipeRecord
<1>3. pipe' = [pipe EXCEPT ![p] = R] /\ UNCHANGED irp
    BY DEF ResumeInvalid
<1>4. CallsKept
    BY LeavingKeepsCalls DEF ResumeInvalid
<1> HIDE DEF R, p
<1> QED BY <1>1, <1>2, <1>3, <1>4, FieldStill, StillQueues

\* _port_pause_all_pipes only sets flags.
LEMMA PauseQueues ==
    ASSUME IInv, Placed, CheckedIdle, PausesAll
    PROVE  QueueStep
<1>1. \A r \in Pipes : QueueSame(r)
    <2> SUFFICES ASSUME NEW r \in Pipes
                 PROVE  QueueSame(r)
        OBVIOUS
    <2>1. pipe[r] \in PipeRecord
        BY DEF IInv, PipeInv
    <2>2. pipe'[r] = IF r \in InFlightPipes THEN [pipe[r] EXCEPT !.waiting = TRUE]
                     ELSE IF r \in Elems(active) \cup Elems(idle)
                          THEN [pipe[r] EXCEPT !.paused = TRUE]
                          ELSE pipe[r]
        BY DEF PausesAll, PausedPipes
    <2> QED BY <2>1, <2>2 DEF QueueSame, PipeRecord
<1>2. UNCHANGED irp /\ CallsKept
    BY DEF PausesAll, CallsKept, Enqueuing
<1> QED BY <1>1, <1>2, StillQueues

-----------------------------------------------------------------------------
(* The steps that move IRPs within a pipe *)

\* A move followed by a change of flags.
LEMMA MovesThenField ==
    ASSUME NEW p, NEW q \in PipeRecord, NEW r, NEW R \in PipeRecord, NEW m, NEW mm,
           Moves(p, q, r, m, mm),
           R.pending = r.pending, R.done = r.done, R.inflight = r.inflight
    PROVE  Moves(p, q, R, m, mm)
<1>1. r \in PipeRecord /\ mm \in [Irps -> IrpRecord] /\ PlacedIn(p, r, mm) /\ NoEarlyResult(mm)
    BY DEF Moves, IrpsMove
<1>2. Moves(p, r, R, mm, mm)
    BY <1>1, FieldMoves
<1> QED BY <1>2, MovesCompose

\* What a command does to the queue of its pipe.
LEMMA CommandedMoves ==
    ASSUME IInv, Placed, NEW p \in Pipes, NEW c \in Blocking,
           CommandRetires(c) => pipe[p].inflight = NoIrp
    PROVE  Moves(p, pipe[p], Commanded(pipe[p], c), irp, CommandedIrps(pipe[p], c))
<1> DEFINE q == pipe[p]
           R == Commanded(q, c)
           mm == CommandedIrps(q, c)
           r == Retire(q)
           m == Finished(irp, Elems(q.pending), "CANCELLED")
<1>1. /\ q \in PipeRecord /\ irp \in [Irps -> IrpRecord]
      /\ PlacedIn(p, q, irp) /\ NoEarlyResult(irp)
    BY DEF IInv, PipeInv, Placed
<1>2. CommandRetires(c) => mm = m /\ Moves(p, q, r, irp, m) /\ r \in PipeRecord
    <2>1. ASSUME CommandRetires(c)
          PROVE  Moves(p, q, r, irp, m)
        BY <1>1, <2>1, RetireMoves DEF Statuses
    <2> QED BY <2>1 DEF CommandedIrps, Moves
<1>3. CASE c = "ABORT"
    BY <1>2, <1>3 DEF Commanded, CommandRetires
<1>4. CASE c = "RESET"
    <2>1. R = [r EXCEPT !.state = "ACTIVE"] /\ CommandRetires(c)
        BY <1>4 DEF Commanded, CommandRetires
    <2> HIDE DEF r, R, mm, m
    <2>2. /\ R \in PipeRecord /\ R.pending = r.pending /\ R.done = r.done
          /\ R.inflight = r.inflight
        BY <1>2, <2>1 DEF PipeRecord
    <2>3. Moves(p, q, R, irp, m)
        BY <1>1, <1>2, <2>1, <2>2, MovesThenField
    <2> QED BY <1>2, <2>1, <2>3 DEF R, mm
<1>5. CASE c = "HALT"
    <2>1. R = [q EXCEPT !.state = "HALTED"] /\ mm = irp
        BY <1>5 DEF Commanded, CommandRetires, CommandedIrps
    <2> HIDE DEF R, mm
    <2>2. /\ R \in PipeRecord /\ R.pending = q.pending /\ R.done = q.done
          /\ R.inflight = q.inflight
        BY <1>1, <2>1 DEF PipeRecord
    <2>3. Moves(p, q, R, irp, irp)
        BY <1>1, <2>2, FieldMoves
    <2> QED BY <2>1, <2>3 DEF R, mm
<1> QED BY <1>3, <1>4, <1>5 DEF Blocking

LEMMA CommandNowQueues ==
    ASSUME IInv, Placed, CheckedIdle, NEW t \in Tasks, NEW p \in Pipes, NEW c \in Blocking,
           CommandNow(t, p, c)
    PROVE  QueueStep
<1> DEFINE R == Commanded(pipe[p], c)
<1>1. /\ pipe' = [pipe EXCEPT ![p] = R] /\ irp' = CommandedIrps(pipe[p], c)
      /\ UNCHANGED call /\ pipe[p].inflight = NoIrp
    BY DEF CommandNow
<1>2. Moves(p, pipe[p], R, irp, irp')
    BY <1>1, CommandedMoves
<1>3. CallsKept
    BY <1>1 DEF CallsKept, Enqueuing
<1> HIDE DEF R
<1> QED BY <1>1, <1>2, <1>3, MoveQueues

LEMMA ResumeDoneQueues ==
    ASSUME IInv, Placed, CheckedIdle, NEW t \in Tasks, ResumeDone(t)
    PROVE  QueueStep
<1> DEFINE p == call[t].pipe
           c == call[t].op
           r == Commanded(pipe[p], c)
           R == [r EXCEPT !.waiter = NoTask, !.cmd = FALSE]
<1>1. p \in Pipes /\ c \in Blocking /\ pipe[p] \in PipeRecord
    BY DEF IInv, PipeInv, RestInv, ResumeDone, Resumes, InCommand, Blocking
<1>2. /\ pipe' = [pipe EXCEPT ![p] = R] /\ irp' = CommandedIrps(pipe[p], c)
      /\ CommandRetires(c) => pipe[p].inflight = NoIrp
    BY DEF ResumeDone
<1>3. CallsKept
    BY LeavingKeepsCalls DEF ResumeDone
<1> HIDE DEF p, c
<1>4. Moves(p, pipe[p], r, irp, irp') /\ r \in PipeRecord
    BY <1>1, <1>2, CommandedMoves DEF Moves
<1> HIDE DEF r
<1>5. /\ R \in PipeRecord /\ R.pending = r.pending /\ R.done = r.done
      /\ R.inflight = r.inflight
    BY <1>4 DEF PipeRecord
<1> HIDE DEF R
<1>6. Moves(p, pipe[p], R, irp, irp')
    BY <1>1, <1>4, <1>5, MovesThenField
<1> QED BY <1>1, <1>2, <1>3, <1>6, MoveQueues

LEMMA CommandClearQueues ==
    ASSUME IInv, Placed, CheckedIdle, NEW t \in Tasks, NEW p \in Pipes, CommandClear(t, p)
    PROVE  QueueStep
<1> DEFINE q == pipe[p]
<1>1. /\ q \in PipeRecord /\ q.inflight = NoIrp /\ UNCHANGED call
      /\ irp \in [Irps -> IrpRecord] /\ PlacedIn(p, q, irp) /\ NoEarlyResult(irp)
    BY DEF IInv, PipeInv, Placed, CommandClear
<1>2. CallsKept
    BY <1>1 DEF CallsKept, Enqueuing
<1>3. CASE HasNext(q)
    <2> DEFINE r == TakeNext(q)
               R == [r EXCEPT !.state = "ACTIVE"]
    <2>1. pipe' = [pipe EXCEPT ![p] = R] /\ irp' = InFlight(irp, Head(q.pending))
        BY <1>3 DEF CommandClear
    <2>2. Moves(p, q, r, irp, irp') /\ r \in PipeRecord
        BY <1>1, <1>3, <2>1, TakeNextMoves DEF HasNext, Moves
    <2> HIDE DEF r
    <2>3. /\ R \in PipeRecord /\ R.pending = r.pending /\ R.done = r.done
          /\ R.inflight = r.inflight
        BY <2>2 DEF PipeRecord
    <2> HIDE DEF R
    <2>4. Moves(p, q, R, irp, irp')
        BY <1>1, <2>2, <2>3, MovesThenField
    <2> QED BY <1>2, <2>1, <2>4, MoveQueues
<1>4. CASE ~HasNext(q)
    <2> DEFINE R == [q EXCEPT !.state = "ACTIVE"]
    <2>1. pipe' = [pipe EXCEPT ![p] = R] /\ UNCHANGED irp
        BY <1>4 DEF CommandClear
    <2>2. R.pending = q.pending /\ R.done = q.done /\ R.inflight = q.inflight
        BY <1>1 DEF PipeRecord
    <2> HIDE DEF R
    <2> QED BY <1>2, <2>1, <2>2, FieldStill, StillQueues
<1> QED BY <1>3, <1>4

\* The interrupt of a channel: the IRP in flight is done.
LEMMA DoneMoves ==
    ASSUME IInv, Placed, NEW p \in hw
    PROVE  /\ p \in Pipes /\ pipe[p] \in PipeRecord
           /\ Moves(p, pipe[p], DoneQueue(pipe[p]), irp, DoneIrps(p))
<1> DEFINE q == pipe[p]
           r == ReturnCurIrp(q)
           R == DoneQueue(q)
<1>1. p \in Pipes /\ q \in PipeRecord /\ q.inflight # NoIrp
    BY SlotHasIrp
<1>2. irp \in [Irps -> IrpRecord] /\ PlacedIn(p, q, irp) /\ NoEarlyResult(irp)
    BY <1>1 DEF IInv, PipeInv, Placed
<1>3. Moves(p, q, r, irp, DoneIrps(p)) /\ r \in PipeRecord
    <2>1. DoneIrps(p) = Finished(irp, {q.inflight}, "COMPLETED")
        BY DEF DoneIrps
    <2>2. "COMPLETED" \in Statuses /\ "COMPLETED" # "CANCELLED"
        BY DEF Statuses
    <2>3. Moves(p, q, r, irp, Finished(irp, {q.inflight}, "COMPLETED"))
        BY <1>1, <1>2, <2>2, ReturnCurIrpMoves
    <2> HIDE DEF r
    <2> QED BY <2>1, <2>3 DEF Moves
<1>4. R = [r EXCEPT !.last_event = "IRP_DONE"]
    BY DEF DoneQueue
<1> HIDE DEF r, R
<1>5. /\ R \in PipeRecord /\ R.pending = r.pending /\ R.done = r.done
      /\ R.inflight = r.inflight
    BY <1>3, <1>4 DEF PipeRecord, PipeEvents
<1>6. Moves(p, q, R, irp, DoneIrps(p))
    BY <1>1, <1>3, <1>5, MovesThenField
<1> QED BY <1>1, <1>6 DEF R

LEMMA ChanDoneNextQueues ==
    ASSUME IInv, Placed, CheckedIdle, NEW p \in Pipes, ChanDoneNext(p)
    PROVE  QueueStep
<1> DEFINE r == DoneQueue(pipe[p])
           m == DoneIrps(p)
<1>1. p \in hw /\ UNCHANGED call
    BY DEF ChanDoneNext, SlotDone
<1>2. CallsKept
    BY <1>1 DEF CallsKept, Enqueuing
<1>3. /\ pipe[p] \in PipeRecord /\ Moves(p, pipe[p], r, irp, m)
    BY <1>1, DoneMoves
<1>4. /\ r \in PipeRecord /\ m \in [Irps -> IrpRecord] /\ PlacedIn(p, r, m) /\ NoEarlyResult(m)
    BY <1>3 DEF Moves, IrpsMove
<1>5. CASE HasNext(r)
    <2> DEFINE R == TakeNext(r)
    <2>1. pipe' = [pipe EXCEPT ![p] = R] /\ irp' = InFlight(m, Head(r.pending))
        BY <1>5 DEF ChanDoneNext
    <2>2. r.inflight = NoIrp
        BY <1>1, <1>3, SlotHasIrp, ChanDoneOk
    <2> HIDE DEF r, m
    <2>3. Moves(p, r, R, m, irp')
        BY <1>4, <1>5, <2>1, <2>2, TakeNextMoves DEF HasNext
    <2> HIDE DEF R
    <2>4. Moves(p, pipe[p], R, irp, irp')
        BY <1>3, <2>3, MovesCompose
    <2> QED BY <1>2, <2>1, <2>4, MoveQueues
<1>6. CASE ~HasNext(r)
    <2>1. pipe' = [pipe EXCEPT ![p] = r] /\ irp' = m
        BY <1>6 DEF ChanDoneNext
    <2> HIDE DEF r, m
    <2> QED BY <1>2, <1>3, <2>1, MoveQueues
<1> QED BY <1>5, <1>6

LEMMA ChanStopQueues ==
    ASSUME IInv, Placed, CheckedIdle, NEW p \in Pipes, ChanDonePause(p) \/ ChanDoneCommand(p)
    PROVE  QueueStep
<1> DEFINE r == DoneQueue(pipe[p])
           R == pipe'[p]
<1>1. p \in hw /\ UNCHANGED call /\ irp' = DoneIrps(p)
    BY DEF ChanDonePause, ChanDoneCommand, SlotDone
<1>2. CallsKept
    BY <1>1 DEF CallsKept, Enqueuing
<1>3. /\ pipe[p] \in PipeRecord /\ Moves(p, pipe[p], r, irp, irp') /\ r \in PipeRecord
    BY <1>1, DoneMoves DEF Moves
<1>4. \E R1 : /\ pipe' = [pipe EXCEPT ![p] = R1]
              /\ R1 \in {[r EXCEPT !.waiting = FALSE, !.paused = TRUE],
                         [r EXCEPT !.waiting = FALSE]}
    <2>1. CASE ChanDonePause(p)
        BY <2>1 DEF ChanDonePause, PausedOnDone
    <2>2. CASE ChanDoneCommand(p)
        BY <2>2 DEF ChanDoneCommand
    <2> QED BY <2>1, <2>2
<1> HIDE DEF r
<1>5. PICK R1 : /\ pipe' = [pipe EXCEPT ![p] = R1]
                /\ R1 \in {[r EXCEPT !.waiting = FALSE, !.paused = TRUE],
                           [r EXCEPT !.waiting = FALSE]}
    BY <1>4
<1>6. /\ R1 \in PipeRecord /\ R1.pending = r.pending /\ R1.done = r.done
      /\ R1.inflight = r.inflight
    BY <1>3, <1>5 DEF PipeRecord
<1>7. Moves(p, pipe[p], R1, irp, irp')
    BY <1>3, <1>6, MovesThenField
<1> QED BY <1>2, <1>5, <1>7, MoveQueues

LEMMA ChanErrorQueues ==
    ASSUME IInv, Placed, CheckedIdle, NEW p \in Pipes, NEW e \in ErrorEvents, ChanError(p, e)
    PROVE  QueueStep
<1> DEFINE q == pipe[p]
           r == ReturnCurIrp(q)
           R == [r EXCEPT !.state = "HALTED", !.last_event = e]
<1>1. p \in hw /\ UNCHANGED call /\ irp' = Finished(irp, {q.inflight}, e)
      /\ pipe' = [pipe EXCEPT ![p] = R]
    BY DEF ChanError
<1>2. CallsKept
    BY <1>1 DEF CallsKept, Enqueuing
<1>3. q \in PipeRecord /\ q.inflight # NoIrp
    BY <1>1, SlotHasIrp
<1>4. irp \in [Irps -> IrpRecord] /\ PlacedIn(p, q, irp) /\ NoEarlyResult(irp)
    BY DEF IInv, PipeInv, Placed
<1>5. e \in Statuses /\ e # "CANCELLED" /\ e \in PipeEvents
    BY ParameterAssumption DEF Statuses, PipeEvents
<1>6. Moves(p, q, r, irp, irp') /\ r \in PipeRecord
    BY <1>1, <1>3, <1>4, <1>5, ReturnCurIrpMoves DEF Moves
<1> HIDE DEF r
<1>7. /\ R \in PipeRecord /\ R.pending = r.pending /\ R.done = r.done
      /\ R.inflight = r.inflight
    BY <1>5, <1>6 DEF PipeRecord
<1> HIDE DEF R
<1>8. Moves(p, q, R, irp, irp')
    BY <1>3, <1>6, <1>7, MovesThenField
<1> QED BY <1>1, <1>2, <1>8, MoveQueues

-----------------------------------------------------------------------------
(* The walks of the port over its pipes *)

\* _port_invalidate_all_pipes: everything in flight or pending finishes with one status.
LEMMA EmptiedMoves ==
    ASSUME NEW p, NEW q \in PipeRecord, NEW m \in [Irps -> IrpRecord],
           PlacedIn(p, q, m), NoEarlyResult(m)
    PROVE  Moves(p, q, Emptied(q), m,
                 Finished(m, Elems(InFlightSeq(q) \o q.pending), "NO_DEVICE"))
<1> DEFINE st == "NO_DEVICE"
<1>1. st \in Statuses /\ st # "CANCELLED"
    BY DEF Statuses
<1> HIDE DEF st
<1>2. Elems(InFlightSeq(q) \o q.pending) = Elems(InFlightSeq(q)) \cup Elems(q.pending)
    <2>1. InFlightSeq(q) \in Seq(Irps) /\ q.pending \in Seq(Irps)
        BY QueueElems
    <2> QED BY <2>1, ConcatElems
<1>3. Elems(InFlightSeq(q)) = IF q.inflight = NoIrp THEN {} ELSE {q.inflight}
    BY QueueElems
<1>4. CASE q.inflight = NoIrp
    <2>1. Emptied(q) = Retire(q)
        BY <1>4 DEF Emptied
    <2>2. Elems(InFlightSeq(q) \o q.pending) = Elems(q.pending)
        BY <1>2, <1>3, <1>4
    <2>3. Moves(p, q, Retire(q), m, Finished(m, Elems(q.pending), st))
        BY <1>1, <1>4, RetireMoves
    <2> QED BY <2>1, <2>2, <2>3 DEF st
<1>5. CASE q.inflight # NoIrp
    <2> DEFINE r == ReturnCurIrp(q)
               n == Finished(m, {q.inflight}, st)
               o == Finished(n, Elems(r.pending), st)
    <2>1. Emptied(q) = Retire(r)
        BY <1>5 DEF Emptied
    <2>2. Moves(p, q, r, m, n)
        BY <1>1, <1>5, ReturnCurIrpMoves
    <2>3. r.inflight = NoIrp /\ r.pending = q.pending
        BY <1>5, ReturnCurIrpOk
    <2>4. n = Finished(m, {q.inflight}, st)
        OBVIOUS
    <2> HIDE DEF r, n
    <2>5. r \in PipeRecord /\ PlacedIn(p, r, n) /\ n \in [Irps -> IrpRecord] /\ NoEarlyResult(n)
        BY <2>2 DEF Moves, IrpsMove
    <2>6. Moves(p, r, Retire(r), n, o)
        BY <1>1, <2>3, <2>5, RetireMoves
    <2>7. o = Finished(m, Elems(InFlightSeq(q) \o q.pending), st)
        <3>1. Elems(InFlightSeq(q) \o q.pending) = {q.inflight} \cup Elems(q.pending)
            BY <1>2, <1>3, <1>5
        <3> DEFINE I == Elems(InFlightSeq(q) \o q.pending)
                   J == Elems(q.pending)
        <3>2. I = {q.inflight} \cup J
            BY <3>1
        <3> HIDE DEF I, J
        <3>3. ASSUME NEW i \in Irps
              PROVE  Finished(n, J, st)[i] = Finished(m, I, st)[i]
            <4>1. m[i] \in IrpRecord
                OBVIOUS
            <4>2. n[i] = IF i \in {q.inflight} THEN [m[i] EXCEPT !.flag = "DONE", !.status = st]
                                               ELSE m[i]
                BY <2>4 DEF Finished
            <4>3. [[m[i] EXCEPT !.flag = "DONE", !.status = st]
                      EXCEPT !.flag = "DONE", !.status = st]
                  = [m[i] EXCEPT !.flag = "DONE", !.status = st]
                BY <4>1 DEF IrpRecord
            <4> QED BY <3>2, <4>2, <4>3 DEF Finished
        <3>4. Finished(n, J, st) = Finished(m, I, st)
            BY <3>3 DEF Finished
        <3> QED BY <2>3, <3>4 DEF I, J
    <2> HIDE DEF o
    <2>8. Moves(p, q, Retire(r), m, o)
        BY <2>2, <2>6, MovesCompose
    <2> QED BY <2>1, <2>7, <2>8 DEF st
<1> QED BY <1>4, <1>5

LEMMA VisitQueues ==
    ASSUME IInv, Placed, CheckedIdle, NEW v, v.cur # NoPipe => v.cur \in Pipes, Visit(v)
    PROVE  QueueStep
<1>1. CallsKept
    BY DEF Visit, CallsKept, Enqueuing
<1>2. CASE v.cur = NoPipe
    <2>1. UNCHANGED <<pipe, irp>>
        BY <1>2 DEF Visit
    <2> QED BY <1>1, <2>1, QuietQueues
<1>3. CASE v.cur # NoPipe
    <2> DEFINE p == v.cur
               q == Invalidated(pipe[p])
    <2>1. p \in Pipes
        BY <1>3
    <2>2. pipe[p] \in PipeRecord /\ PlacedIn(p, pipe[p], irp) /\ NoEarlyResult(irp)
          /\ irp \in [Irps -> IrpRecord]
        BY <2>1 DEF IInv, PipeInv, Placed
    <2>3. /\ q \in PipeRecord /\ q.pending = pipe[p].pending /\ q.done = pipe[p].done
          /\ q.inflight = pipe[p].inflight
        BY <2>2 DEF Invalidated, PipeRecord, PipeEvents
    <2>4. CASE InvalidateActive(p)
        <3> DEFINE R == Emptied(q)
        <3>1. /\ pipe' = [pipe EXCEPT ![p] = R]
              /\ irp' = Finished(irp, Elems(InFlightSeq(q) \o q.pending), "NO_DEVICE")
            BY <2>4 DEF InvalidateActive
        <3> HIDE DEF q
        <3>2. Moves(p, pipe[p], q, irp, irp)
            BY <2>2, <2>3, FieldMoves
        <3>3. PlacedIn(p, q, irp)
            BY <3>2 DEF Moves
        <3>4. Moves(p, q, R, irp, irp')
            BY <2>2, <2>3, <3>1, <3>3, EmptiedMoves
        <3> HIDE DEF R
        <3>5. Moves(p, pipe[p], R, irp, irp')
            BY <2>2, <3>2, <3>4, MovesCompose
        <3> HIDE DEF p
        <3> QED BY <1>1, <2>1, <3>1, <3>5, MoveQueues
    <2>5. CASE InvalidateIdle(p)
        <3>1. pipe' = [pipe EXCEPT ![p] = q] /\ UNCHANGED irp
            BY <2>5 DEF InvalidateIdle
        <3> HIDE DEF q, p
        <3> QED BY <1>1, <2>1, <2>3, <3>1, FieldStill, StillQueues
    <2> QED BY <1>3, <2>4, <2>5 DEF Visit
<1> QED BY <1>2, <1>3

LEMMA InvalidateQueues ==
    ASSUME IInv, Placed, CheckedIdle, InvalidateBegin \/ InvalidateNext
    PROVE  QueueStep
<1>1. Elems(idle) \cup Elems(active) \subseteq Pipes
    BY DEF IInv, PipeInv, Lists
<1>2. First(idle) # NoPipe => First(idle) \in Pipes
    BY <1>1, WalkReaches
<1>3. ASSUME NEW ph, NEW c, c # NoPipe => c \in Pipes
      PROVE  WalkTo(ph, c).cur # NoPipe => WalkTo(ph, c).cur \in Pipes
    BY <1>2, <1>3 DEF WalkTo
<1>4. CASE InvalidateBegin
    <2>1. First(active) # NoPipe => First(active) \in Pipes
        BY <1>1, WalkReaches
    <2> DEFINE v == WalkTo("active", First(active))
    <2>2. (v.cur # NoPipe => v.cur \in Pipes) /\ Visit(v)
        BY <1>3, <1>4, <2>1 DEF InvalidateBegin
    <2> HIDE DEF v
    <2> QED BY <2>2, VisitQueues
<1>5. CASE InvalidateNext
    <2>1. inval.cur \in Pipes /\ Allocated(inval.cur)
        BY <1>5 DEF IInv, RestInv, InvalidateNext, NoWalk
    <2>2. Successor(inval.cur) # NoPipe => Successor(inval.cur) \in Pipes
        BY <1>1, <2>1, WalkReaches
    <2> DEFINE v == WalkTo(inval.phase, Successor(inval.cur))
    <2>3. (v.cur # NoPipe => v.cur \in Pipes) /\ Visit(v)
        BY <1>3, <1>5, <2>2 DEF InvalidateNext
    <2> HIDE DEF v
    <2> QED BY <2>3, VisitQueues
<1> QED BY <1>4, <1>5

\* _port_unpause_all_pipes: the pipes with something pending start at the same time.
LEMMA UnpauseQueues ==
    ASSUME IInv, Placed, CheckedIdle, UnpauseAll
    PROVE  QueueStep
<1> DEFINE starts == {p \in Elems(active) : HasNext(pipe[p])}
           next == {Head(pipe[p].pending) : p \in starts}
<1>1. /\ pipe' = [p \in Pipes |-> Unpaused(p)]
      /\ irp' = [i \in Irps |-> IF i \in next THEN [irp[i] EXCEPT !.flag = "INFLIGHT"]
                                              ELSE irp[i]]
      /\ UNCHANGED call
      /\ InFlightPipes = {}
    BY DEF UnpauseAll
<1>2. /\ pipe \in [Pipes -> PipeRecord] /\ irp \in [Irps -> IrpRecord]
      /\ \A p \in Pipes : PlacedIn(p, pipe[p], irp)
      /\ NoEarlyResult(irp) /\ Elems(active) \subseteq Pipes
    BY DEF IInv, PipeInv, Lists, Placed
<1>3. starts \subseteq Pipes /\ \A p \in starts : pipe[p].inflight = NoIrp /\ pipe[p].pending # <<>>
    BY <1>1, <1>2 DEF InFlightPipes, HasNext
<1>4. ASSUME NEW p \in starts
      PROVE  /\ Head(pipe[p].pending) \in Irps /\ Head(pipe[p].pending) \in Elems(pipe[p].pending)
             /\ irp[Head(pipe[p].pending)].ptr = p
             /\ irp[Head(pipe[p].pending)].flag = "PENDING"
    <2>1. pipe[p].pending \in Seq(Irps)
        BY <1>2, <1>3, PipeFieldTypes
    <2>2. /\ Head(pipe[p].pending) \in Irps
          /\ Elems(pipe[p].pending) = {Head(pipe[p].pending)} \cup Elems(Tail(pipe[p].pending))
        BY <1>3, <2>1, HeadTailElems
    <2> QED BY <1>2, <1>3, <2>2 DEF PlacedIn
<1>5. \A p \in starts : Head(pipe[p].pending) \in next
    OBVIOUS
<1>6. \A i \in next : \E p \in starts : i = Head(pipe[p].pending)
    OBVIOUS
<1>7. \A p \in Pipes : p \in starts <=> p \in Elems(active) /\ HasNext(pipe[p])
    OBVIOUS
<1> HIDE DEF starts, next
<1>8. /\ irp' \in [Irps -> IrpRecord] /\ NoEarlyResult(irp')
      /\ \A i \in Irps :
            /\ irp'[i].ptr = irp[i].ptr /\ irp'[i].status = irp[i].status
            /\ i \in next => irp[i].flag = "PENDING" /\ irp'[i].flag = "INFLIGHT"
            /\ i \notin next => irp'[i] = irp[i]
    <2>1. ASSUME NEW i \in Irps
          PROVE  /\ irp'[i] \in IrpRecord
                 /\ irp'[i].ptr = irp[i].ptr /\ irp'[i].status = irp[i].status
                 /\ i \in next => irp[i].flag = "PENDING" /\ irp'[i].flag = "INFLIGHT"
                 /\ i \notin next => irp'[i] = irp[i]
        BY <1>1, <1>2, <1>4, <1>6 DEF IrpRecord
    <2>2. NoEarlyResult(irp')
        BY <1>2, <2>1 DEF NoEarlyResult
    <2>3. irp' \in [Irps -> IrpRecord]
        BY <1>1, <2>1
    <2> QED BY <2>1, <2>2, <2>3
<1>9. ASSUME NEW p \in Pipes
      PROVE  /\ pipe'[p] \in PipeRecord /\ Queue(pipe'[p]) = Queue(pipe[p])
             /\ Len(pipe'[p].done) = Len(pipe[p].done)
             /\ PlacedIn(p, pipe'[p], irp')
    <2> DEFINE q == [pipe[p] EXCEPT !.paused = FALSE]
    <2>1. /\ q \in PipeRecord /\ q.pending = pipe[p].pending
          /\ q.done = pipe[p].done /\ q.inflight = pipe[p].inflight
        BY <1>2 DEF PipeRecord
    <2>2. pipe'[p] = IF p \in Elems(active) /\ HasNext(q) THEN TakeNext(q) ELSE q
        BY <1>1 DEF Unpaused
    <2> HIDE DEF q
    <2>3. Moves(p, pipe[p], q, irp, irp)
        BY <1>2, <2>1, FieldMoves
    <2>4. PlacedIn(p, q, irp) /\ Queue(q) = Queue(pipe[p])
        BY <2>3 DEF Moves
    <2>5. CASE p \in starts
        <3> DEFINE h == Head(q.pending)
                   m == InFlight(irp, h)
        <3>1. pipe'[p] = TakeNext(q) /\ q.inflight = NoIrp /\ q.pending # <<>>
            BY <1>3, <1>7, <2>1, <2>2, <2>5 DEF HasNext
        <3>2. Moves(p, q, TakeNext(q), irp, m)
            BY <1>2, <2>1, <2>4, <3>1, TakeNextMoves
        <3>3. TakeNext(q).done = q.done
            BY <2>1 DEF TakeNext, PipeRecord
        <3>4. /\ TakeNext(q) \in PipeRecord /\ PlacedIn(p, TakeNext(q), m)
              /\ Queue(TakeNext(q)) = Queue(pipe[p])
              /\ m \in [Irps -> IrpRecord]
            BY <2>4, <3>2 DEF Moves, IrpsMove
        <3>5. h \in Irps /\ h \in next /\ h = Head(pipe[p].pending)
            BY <1>4, <1>5, <2>1, <2>5
        <3>6. ASSUME NEW i \in Irps, Holds(TakeNext(q), i)
              PROVE  irp'[i] = m[i]
            <4>1. m[i].ptr = p
                BY <3>4, <3>6, NullAssumption DEF PlacedIn, Holds
            <4>2. CASE i = h
                <5>1. m[i] = [irp[i] EXCEPT !.flag = "INFLIGHT"]
                    BY <1>2, <4>2 DEF InFlight
                <5>2. irp'[i] = [irp[i] EXCEPT !.flag = "INFLIGHT"]
                    BY <1>1, <3>5, <4>2
                <5> QED BY <5>1, <5>2
            <4>3. CASE i # h
                <5>1. m[i] = irp[i]
                    BY <1>2, <4>3 DEF InFlight
                <5>2. i \notin next
                    <6> SUFFICES ASSUME i \in next
                                 PROVE  FALSE
                        OBVIOUS
                    <6>1. PICK r \in starts : i = Head(pipe[r].pending)
                        BY <1>6
                    <6>2. irp[i].ptr = r
                        BY <1>4, <6>1
                    <6> QED BY <3>5, <4>1, <4>3, <5>1, <6>1, <6>2
                <5> QED BY <1>8, <5>1, <5>2
            <4> QED BY <4>2, <4>3
        <3> HIDE DEF m
        <3>7. PlacedIn(p, TakeNext(q), irp')
            BY <3>4, <3>6, PlacedAgain
        <3> QED BY <2>1, <3>1, <3>3, <3>4, <3>7
    <2>6. CASE p \notin starts
        <3>1. pipe'[p] = q
            BY <1>7, <2>1, <2>2, <2>6 DEF HasNext
        <3>2. ASSUME NEW i \in Irps, Holds(q, i)
              PROVE  irp'[i] = irp[i]
            <4>1. irp[i].ptr = p
                BY <2>4, <3>2, NullAssumption DEF PlacedIn, Holds
            <4>2. i \notin next
                <5> SUFFICES ASSUME i \in next
                             PROVE  FALSE
                    OBVIOUS
                <5>1. PICK r \in starts : i = Head(pipe[r].pending)
                    BY <1>6
                <5> QED BY <1>4, <2>6, <4>1, <5>1
            <4> QED BY <1>8, <4>2
        <3>3. PlacedIn(p, q, irp')
            BY <2>1, <2>4, <3>2, PlacedAgain
        <3> QED BY <2>1, <2>4, <3>1, <3>3
    <2> QED BY <2>5, <2>6
<1>10. ASSUME NEW i \in Irps
       PROVE  IF irp'[i].ptr = NoPipe THEN irp'[i].flag = "IDLE"
                                      ELSE Holds(pipe'[irp'[i].ptr], i)
    <2> DEFINE p == irp[i].ptr
    <2>1. p \in Pipes \cup {NoPipe} /\ irp'[i].ptr = p
        BY <1>2, <1>8 DEF IrpRecord
    <2>2. CASE p = NoPipe
        <3>1. irp[i].flag = "IDLE"
            BY <2>2 DEF Placed
        <3> QED BY <1>8, <2>1, <2>2, <3>1
    <2>3. CASE p # NoPipe
        <3>1. p \in Pipes /\ Holds(pipe[p], i)
            BY <2>1, <2>3 DEF Placed
        <3>2. Holds(pipe'[p], i)
            BY <1>2, <1>9, <3>1, QueueElems
        <3> QED BY <2>1, <2>3, <3>2
    <2> QED BY <2>2, <2>3
<1>11. Placed'
    BY <1>8, <1>9, <1>10 DEF Placed
<1>12. CallsKept
    BY <1>1 DEF CallsKept, Enqueuing
<1>13. CheckedIdle'
    BY <1>8, <1>12, CheckedKept
<1>14. Final
    <2>1. \A i \in Irps : irp[i].flag = "INFLIGHT" => irp[i].status = "none"
        BY <1>2 DEF NoEarlyResult
    <2> QED BY <1>8, <2>1 DEF Final
<1>15. UNCHANGED Fifo!fifo
    <2>1. \A p \in Pipes : Queue(pipe'[p]) = Queue(pipe[p])
                           /\ Len(pipe'[p].done) = Len(pipe[p].done)
        BY <1>9
    <2> QED BY <2>1 DEF Fifo!fifo
<1> QED BY <1>11, <1>13, <1>14, <1>15 DEF QueueStep

-----------------------------------------------------------------------------
(* Every step *)

\* The steps that touch no pipe and no IRP.
LEMMA QuietNextQueues ==
    ASSUME IInv, Placed, CheckedIdle,
           \/ UNCHANGED vars
           \/ \E t \in Tasks : \/ EnqueueFreed(t) \/ EnqueueReject(t) \/ CommandWake(t)
                               \/ ResumeFreed(t) \/ ResumeRunning(t) \/ ResumeBusy(t)
           \/ \E t \in Tasks, p \in Pipes : DequeueMisplaced(t, p) \/ ClearBusy(t, p)
           \/ \E p \in Pipes : ChanIgnored(p) \/ ChanDoneOrphan(p)
           \/ \E t \in Tasks : PortWait(t)
           \/ PortEnabled \/ (\E s \in LossPortStates : PortLost(s))
           \/ (\E s \in TaskPortStates : PortSet(s))
           \/ PortWake \/ PortReturn \/ PortOrphan \/ UnpauseBusy \/ InvalidateFreed
    PROVE  QueueStep
<1>1. UNCHANGED <<pipe, irp, call>> => QueueStep
    BY QuietQueues DEF CallsKept, Enqueuing
<1>2. ASSUME NEW label, Fail(label)
      PROVE  UNCHANGED <<pipe, irp, call>>
    BY <1>2 DEF Fail
<1>3. PortUnchanged => UNCHANGED <<pipe, irp, call>>
    BY DEF PortUnchanged
<1>4. ASSUME NEW t \in Tasks, EnqueueReject(t) \/ CommandWake(t)
      PROVE  QueueStep
    <2>1. UNCHANGED <<pipe, irp>>
        BY <1>4 DEF EnqueueReject, CommandWake
    <2>2. CallsKept
        BY <1>4, LeavingKeepsCalls DEF EnqueueReject
    <2> QED BY <2>1, <2>2, QuietQueues
<1>5. ASSUME NEW t \in Tasks,
             EnqueueFreed(t) \/ ResumeFreed(t) \/ ResumeRunning(t) \/ ResumeBusy(t)
      PROVE  QueueStep
    BY <1>1, <1>2, <1>5 DEF EnqueueFreed, ResumeFreed, ResumeRunning, ResumeBusy
<1>6. ASSUME NEW t \in Tasks, NEW p \in Pipes, DequeueMisplaced(t, p) \/ ClearBusy(t, p)
      PROVE  QueueStep
    BY <1>1, <1>2, <1>6 DEF DequeueMisplaced, ClearBusy
<1>7. ASSUME NEW p \in Pipes, ChanIgnored(p) \/ ChanDoneOrphan(p)
      PROVE  QueueStep
    BY <1>1, <1>2, <1>7 DEF ChanIgnored, ChanDoneOrphan
<1>8. ASSUME PortOrphan \/ UnpauseBusy \/ InvalidateFreed
      PROVE  QueueStep
    BY <1>1, <1>2, <1>8 DEF PortOrphan, UnpauseBusy, InvalidateFreed
<1>9. ASSUME \/ \E t \in Tasks : PortWait(t)
             \/ PortEnabled \/ (\E s \in LossPortStates : PortLost(s))
             \/ (\E s \in TaskPortStates : PortSet(s))
             \/ PortWake \/ PortReturn
      PROVE  QueueStep
    <2>1. PortUnchanged
        BY <1>9 DEF PortWait, PortEnabled, PortLost, PortSet, PortWake, PortReturn
    <2> QED BY <1>1, <1>3, <2>1
<1>10. UNCHANGED vars => QueueStep
    BY <1>1 DEF vars
<1> QED BY <1>4, <1>5, <1>6, <1>7, <1>8, <1>9, <1>10

LEMMA NextQueues ==
    ASSUME IInv, Placed, CheckedIdle, OneOwner, [PipeNext]_vars
    PROVE  QueueStep
<1>1. CASE UNCHANGED vars
    BY <1>1, QuietNextQueues
<1>2. ASSUME NEW t \in Tasks, CallStep(t)
      PROVE  QueueStep
    BY <1>2, QuietNextQueues, EnqueueStartQueues, EnqueuePendQueues, ResumeInvalidQueues,
       ResumeDoneQueues DEF CallStep
<1>3. ASSUME NEW t \in Tasks, ClientStep(t)
      PROVE  QueueStep
    <2>1. CASE \E p \in Pipes, i \in Irps : EnqueueCheck(t, p, i)
        BY <2>1, EnqueueCheckQueues
    <2>2. CASE \E p \in Pipes : Dequeue(t, p) \/ DequeueMisplaced(t, p)
        BY <2>2, QuietNextQueues, DequeueQueues
    <2>3. CASE \E i \in Irps : AbortIrp(t, i)
        BY <2>3, AbortQueues
    <2>4. CASE \E p \in Pipes : Alloc(t, p) \/ FreePipe(t, p) \/ GetEvent(t, p)
        BY <2>4, ClientFieldQueues
    <2>5. CASE \E p \in Pipes, a \in Addrs : Update(t, p, a)
        BY <2>5, ClientFieldQueues
    <2>6. CASE \E p \in Pipes, c \in Blocking : CommandNow(t, p, c) \/ CommandBlock(t, p, c)
        BY <2>6, CommandNowQueues, ClientFieldQueues
    <2>7. CASE \E p \in Pipes : CommandClear(t, p) \/ ClearBusy(t, p)
        BY <2>7, QuietNextQueues, CommandClearQueues
    <2> QED BY <1>2, <1>3, <2>1, <2>2, <2>3, <2>4, <2>5, <2>6, <2>7 DEF ClientStep
<1>4. ASSUME NEW p \in Pipes, ChanStep(p)
      PROVE  QueueStep
    BY <1>4, QuietNextQueues, ChanDoneNextQueues, ChanStopQueues, ChanErrorQueues DEF ChanStep
<1>5. ASSUME PortStep
      PROVE  QueueStep
    <2>1. ASSUME (\E t \in Tasks : PauseAndWait(t)) \/ PauseAtOnce
          PROVE  QueueStep
        BY <2>1, PauseQueues DEF PauseAndWait, PauseAtOnce
    <2> QED BY <1>5, <2>1, QuietNextQueues, UnpauseQueues, InvalidateQueues DEF PortStep
<1> QED BY <1>1, <1>3, <1>4, <1>5 DEF PipeNext

LEMMA InitPlaced ==
    ASSUME PipeInit
    PROVE  Placed /\ CheckedIdle /\ Fifo!FifoInit
<1> DEFINE a == CHOOSE b \in Addrs : TRUE
<1>1. \A p \in Pipes : pipe[p] = NewPipe("FREE", a)
    BY DEF PipeInit
<1> HIDE DEF a
<1>2. \A p \in Pipes : pipe[p].done = <<>> /\ pipe[p].inflight = NoIrp /\ pipe[p].pending = <<>>
    BY <1>1 DEF NewPipe
<1>3. \A i \in Irps : irp[i].ptr = NoPipe /\ irp[i].flag = "IDLE" /\ irp[i].status = "none"
    BY DEF PipeInit, NewIrp
<1>4. Placed
    <2>1. Elems(<<>>) = {} /\ Distinct(<<>>)
        BY DEF Elems, Distinct
    <2> QED BY <1>2, <1>3, <2>1 DEF Placed, PlacedIn, NoEarlyResult
<1>5. CheckedIdle
    BY DEF PipeInit, IdleCall, CheckedIdle, Enqueuing
<1>6. Fifo!FifoInit
    <2>1. IInv
        BY InitHolds
    <2>2. \A p \in Pipes : Queue(pipe[p]) = <<>> /\ Len(pipe[p].done) = 0
        <3>1. \A p \in Pipes : Queue(pipe[p]) = <<>>
            BY <1>2, <2>1, QueueEmpty DEF IInv, PipeInv
        <3>2. Len(<<>>) = 0
            OBVIOUS
        <3> QED BY <1>2, <3>1, <3>2
    <2> QED BY <2>2 DEF Fifo!FifoInit
<1> QED BY <1>4, <1>5, <1>6

-----------------------------------------------------------------------------
(* The theorems, when no two tasks enqueue one IRP at the same time *)

\* The IRPs are where their flags say, as long as no two tasks enqueue one of them.
LEMMA OwnersPlace == PipeSpec /\ []OneOwner => [](IInv /\ Placed /\ CheckedIdle)
<1>1. PipeInit => IInv /\ Placed /\ CheckedIdle
    BY InitHolds, InitPlaced
<1>2. IInv /\ Placed /\ CheckedIdle /\ OneOwner /\ [PipeNext]_vars
          => (IInv /\ Placed /\ CheckedIdle)'
    BY NextKeeps, NextQueues DEF QueueStep
<1> QED BY <1>1, <1>2, PTL DEF PipeSpec

\* Every IRP is in exactly one place of exactly one pipe, the one that its reserved_ptr
\* names and its reserved_flags describe, in every state of the driver.
THEOREM OwnersKeepPlacement == PipeSpec /\ []OneOwner => []IrpPlacement
<1>1. IInv /\ Placed => IrpPlacement
    BY PlacedSays
<1> QED BY <1>1, OwnersPlace, PTL

\* The result of a finished IRP is final until its client dequeues it, and an IRP that
\* the hardware has started is never reported as cancelled.
THEOREM OwnersGetFinalResults == PipeSpec /\ []OneOwner => ResultsFinal
<1> DEFINE F == \A i \in Irps :
                   /\ irp[i].flag = "DONE" => irp'[i] = irp[i] \/ irp'[i].flag = "IDLE"
                   /\ irp[i].flag = "INFLIGHT" => irp'[i].status # "CANCELLED"
<1>1. IInv /\ Placed /\ CheckedIdle /\ OneOwner /\ [PipeNext]_vars => F
    BY NextQueues DEF QueueStep, Final
<1> HIDE DEF F
<1>2. PipeSpec /\ []OneOwner => [][F]_vars
    BY <1>1, OwnersPlace, PTL DEF PipeSpec
<1> QED BY <1>2 DEF ResultsFinal, F

\* The pipes of the driver implement the abstract queues: no IRP is lost, duplicated or
\* overtaken, except by one that is cancelled on its own.
THEOREM OwnersHaveFifos == PipeSpec /\ []OneOwner => IsFifo
<1>1. PipeInit => Fifo!FifoInit
    BY InitPlaced
<1>2. IInv /\ Placed /\ CheckedIdle /\ OneOwner /\ [PipeNext]_vars
          => [Fifo!FifoNext]_(Fifo!fifo)
    BY NextQueues DEF QueueStep
<1> QED BY <1>1, <1>2, OwnersPlace, PTL DEF PipeSpec, IsFifo, Fifo!FifoSpec

-----------------------------------------------------------------------------
(* The theorems, when every IRP is enqueued by one task *)

\* Every IRP has one owner, the task that enqueues it.
OwnedIrps == \A t, u \in Tasks : t # u => Submits[t] \cap Submits[u] = {}

\* A task enqueues its own IRPs.
EnqueuesOwn == \A t \in Tasks : Enqueuing(t) => call[t].irp \in Submits[t]

LEMMA NextEnqueuesOwn ==
    ASSUME IInv, EnqueuesOwn, [PipeNext]_vars
    PROVE  EnqueuesOwn'
<1>1. CallsKept => EnqueuesOwn'
    BY DEF EnqueuesOwn, CallsKept
<1>2. UNCHANGED call => EnqueuesOwn'
    BY DEF EnqueuesOwn, Enqueuing
<1>3. ASSUME NEW t \in Tasks, Return(t) \/ CommandWake(t)
      PROVE  EnqueuesOwn'
    BY <1>1, <1>3, LeavingKeepsCalls
<1>4. ASSUME NEW l, Fail(l)
      PROVE  EnqueuesOwn'
    BY <1>2, <1>4 DEF Fail
<1>5. CASE UNCHANGED vars
    BY <1>2, <1>5 DEF vars
<1>6. ASSUME NEW t \in Tasks, CallStep(t)
      PROVE  EnqueuesOwn'
    BY <1>3, <1>4, <1>6 DEF CallStep, EnqueueFreed, EnqueueReject, EnqueueStart, EnqueuePend,
       ResumeFreed, ResumeInvalid, ResumeRunning, ResumeBusy, ResumeDone
<1>7. ASSUME NEW t \in Tasks, NEW p \in Pipes, NEW i \in Irps, EnqueueCheck(t, p, i)
      PROVE  EnqueuesOwn'
    BY <1>7 DEF EnqueueCheck, EnqueuesOwn, Enqueuing, IInv, RestInv
<1>8. ASSUME NEW t \in Tasks, NEW p \in Pipes, NEW c \in Blocking, CommandBlock(t, p, c)
      PROVE  EnqueuesOwn'
    BY <1>8 DEF CommandBlock, EnqueuesOwn, Enqueuing, Blocking, IInv, RestInv
<1>9. ASSUME NEW t \in Tasks, ClientStep(t)
      PROVE  EnqueuesOwn'
    <2>1. CASE \E p \in Pipes : Dequeue(t, p) \/ DequeueMisplaced(t, p)
        BY <1>2, <1>4, <2>1 DEF Dequeue, DequeueMisplaced
    <2>2. CASE \E i \in Irps : AbortIrp(t, i)
        BY <1>2, <2>2 DEF AbortIrp
    <2>3. CASE \E p \in Pipes : Alloc(t, p) \/ FreePipe(t, p) \/ GetEvent(t, p)
        BY <1>2, <2>3 DEF Alloc, FreePipe, GetEvent
    <2>4. CASE \E p \in Pipes, a \in Addrs : Update(t, p, a)
        BY <1>2, <2>4 DEF Update
    <2>5. CASE \E p \in Pipes, c \in Blocking : CommandNow(t, p, c) \/ CommandBlock(t, p, c)
        BY <1>2, <1>8, <2>5 DEF CommandNow
    <2>6. CASE \E p \in Pipes : CommandClear(t, p) \/ ClearBusy(t, p)
        BY <1>2, <1>4, <2>6 DEF CommandClear, ClearBusy
    <2> QED BY <1>6, <1>7, <1>9, <2>1, <2>2, <2>3, <2>4, <2>5, <2>6 DEF ClientStep
<1>10. ASSUME NEW p \in Pipes, ChanStep(p)
       PROVE  EnqueuesOwn'
    BY <1>2, <1>4, <1>10 DEF ChanStep, ChanIgnored, ChanDoneNext, ChanDoneOrphan, ChanDonePause,
       ChanDoneCommand, ChanError
<1>11. ASSUME PortStep
       PROVE  EnqueuesOwn'
    BY <1>2, <1>4, <1>11 DEF PortStep, PortEnabled, PortLost, PortSet, PortWait, PauseAndWait,
       PausesAll, PortWake, PortReturn, PortOrphan, PauseAtOnce, UnpauseAll, UnpauseBusy,
       InvalidateBegin, InvalidateNext, InvalidateFreed, Visit, PortUnchanged
<1> QED BY <1>5, <1>9, <1>10, <1>11 DEF PipeNext

\* Owned IRPs are enqueued by one task at a time.
LEMMA OwnedAlways ==
    ASSUME OwnedIrps
    PROVE  PipeSpec => []OneOwner
<1>1. PipeInit => EnqueuesOwn
    BY DEF PipeInit, IdleCall, EnqueuesOwn, Enqueuing
<1>2. IInv /\ EnqueuesOwn /\ [PipeNext]_vars => EnqueuesOwn'
    BY NextEnqueuesOwn
<1>3. EnqueuesOwn => OneOwner
    BY DEF OwnedIrps, EnqueuesOwn, OneOwner
<1> QED BY <1>1, <1>2, <1>3, Invariant, PTL DEF PipeSpec

\* Every IRP is in exactly one place of exactly one pipe, the one that its reserved_ptr
\* names and its reserved_flags describe: whatever clients, interrupts and port do.
THEOREM PlacementKept ==
    ASSUME OwnedIrps
    PROVE  PipeSpec => []IrpPlacement
    BY OwnedAlways, OwnersKeepPlacement, PTL

\* The result of a finished IRP is final until its client dequeues it, and an IRP that
\* the hardware has started is never reported as cancelled.
THEOREM FinalResults ==
    ASSUME OwnedIrps
    PROVE  PipeSpec => ResultsFinal
    BY OwnedAlways, OwnersGetFinalResults, PTL

\* The pipes of the driver implement the abstract queues of IrpFifo.
THEOREM PipesAreFifos ==
    ASSUME OwnedIrps
    PROVE  PipeSpec => IsFifo
    BY OwnedAlways, OwnersHaveFifos, PTL

=============================================================================
