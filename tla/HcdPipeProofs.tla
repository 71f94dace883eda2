--------------------------- MODULE HcdPipeProofs ---------------------------
(***************************************************************************)
(* What holds of the pipes for every number of pipes, IRPs and tasks, for  *)
(* every set of commands, errors and port states, and whether or not the   *)
(* clients keep any rule; and, at the end, what more holds if they do.     *)
(*                                                                         *)
(* The inductive invariant IInv has two parts.  PipeInv is about the pipes, *)
(* their IRPs and the port's lists; RestInv is about the tasks and the     *)
(* port.  Most actions change one pipe: OnePipe says when that keeps       *)
(* PipeInv, and each action below only has to show what it does to its     *)
(* pipe.                                                                   *)
(***************************************************************************)
EXTENDS HcdPipe, SequenceTheorems, FiniteSetTheorems, TLAPS

-----------------------------------------------------------------------------
(* The operators HcdPipe is built from: what the operations on the queues of IRPs and *)
(* on the lists of pipes return, and that every operation on a pipe object returns a  *)
(* pipe object.                                                                       *)

\* No element occurs twice in a sequence.
Distinct(s) == \A m, n \in DOMAIN s : s[m] = s[n] => m = n

-----------------------------------------------------------------------------
(* Sequences *)

\* TAILQ_INSERT_TAIL adds one element.
LEMMA AppendElems ==
    ASSUME NEW S, NEW s \in Seq(S), NEW e \in S
    PROVE  /\ Append(s, e) \in Seq(S)
           /\ Append(s, e) # <<>>
           /\ Elems(Append(s, e)) = Elems(s) \cup {e}
           /\ Distinct(s) /\ e \notin Elems(s) => Distinct(Append(s, e))
<1>1. /\ Append(s, e) \in Seq(S)
      /\ Len(Append(s, e)) = Len(s) + 1
      /\ DOMAIN Append(s, e) = 1 .. Len(s) + 1
      /\ DOMAIN s = 1 .. Len(s)
      /\ Len(s) \in Nat
      /\ \A n \in 1 .. Len(s) : Append(s, e)[n] = s[n]
      /\ Append(s, e)[Len(s) + 1] = e
    OBVIOUS
<1>2. Append(s, e) # <<>>
    BY <1>1, EmptySeq
<1>3. Elems(Append(s, e)) = Elems(s) \cup {e}
    BY <1>1 DEF Elems
<1>4. Distinct(s) /\ e \notin Elems(s) => Distinct(Append(s, e))
    BY <1>1 DEF Distinct, Elems
<1> QED BY <1>1, <1>2, <1>3, <1>4

\* TAILQ_CONCAT appends the elements of the second queue.
LEMMA ConcatElems ==
    ASSUME NEW S, NEW s \in Seq(S), NEW t \in Seq(S)
    PROVE  /\ s \o t \in Seq(S)
           /\ Elems(s \o t) = Elems(s) \cup Elems(t)
           /\ s \o t = <<>> <=> s = <<>> /\ t = <<>>
<1>1. /\ s \o t \in Seq(S)
      /\ Len(s \o t) = Len(s) + Len(t)
      /\ \A n \in 1 .. Len(s) + Len(t) : (s \o t)[n] =
            IF n <= Len(s) THEN s[n] ELSE t[n - Len(s)]
    BY ConcatProperties
<1>2. /\ DOMAIN (s \o t) = 1 .. Len(s) + Len(t)
      /\ DOMAIN s = 1 .. Len(s) /\ DOMAIN t = 1 .. Len(t)
      /\ Len(s) \in Nat /\ Len(t) \in Nat
    BY <1>1, LenProperties
<1>3. Elems(s \o t) \subseteq Elems(s) \cup Elems(t)
    <2> SUFFICES ASSUME NEW n \in 1 .. Len(s) + Len(t)
                 PROVE  (s \o t)[n] \in Elems(s) \cup Elems(t)
        BY <1>2 DEF Elems
    <2>1. CASE n <= Len(s)
        BY <1>1, <1>2, <2>1 DEF Elems
    <2>2. CASE ~(n <= Len(s))
        <3>1. n - Len(s) \in 1 .. Len(t) /\ (s \o t)[n] = t[n - Len(s)]
            BY <1>1, <1>2, <2>2
        <3> QED BY <3>1, <1>2 DEF Elems
    <2> QED BY <2>1, <2>2
<1>4. Elems(s) \subseteq Elems(s \o t)
    BY <1>1, <1>2 DEF Elems
<1>5. Elems(t) \subseteq Elems(s \o t)
    <2> SUFFICES ASSUME NEW n \in 1 .. Len(t)
                 PROVE  t[n] \in Elems(s \o t)
        BY <1>2 DEF Elems
    <2>1. /\ n + Len(s) \in 1 .. Len(s) + Len(t)
          /\ ~(n + Len(s) <= Len(s))
          /\ (n + Len(s)) - Len(s) = n
        BY <1>2
    <2>2. (s \o t)[n + Len(s)] = t[n]
        BY <1>1, <2>1
    <2> QED BY <1>2, <2>1, <2>2 DEF Elems
<1>6. s \o t = <<>> <=> s = <<>> /\ t = <<>>
    BY ConcatEqualIffEmpty
<1> QED BY <1>1, <1>3, <1>4, <1>5, <1>6

\* TAILQ_REMOVE of the first element.
LEMMA HeadTailElems ==
    ASSUME NEW S, NEW s \in Seq(S), s # <<>>
    PROVE  /\ Head(s) \in S /\ Tail(s) \in Seq(S)
           /\ Elems(s) = {Head(s)} \cup Elems(Tail(s))
           /\ Tail(s) # <<>> <=> Len(s) # 1
<1>1. /\ Head(s) \in S /\ Tail(s) \in Seq(S)
      /\ Len(Tail(s)) = Len(s) - 1
      /\ \A n \in 1 .. Len(Tail(s)) : Tail(s)[n] = s[n + 1]
    BY HeadTailProperties
<1>2. /\ DOMAIN s = 1 .. Len(s) /\ DOMAIN Tail(s) = 1 .. Len(s) - 1
      /\ Len(s) \in Nat \ {0} /\ Head(s) = s[1]
    BY <1>1, LenProperties, EmptySeq
<1>3. Elems(Tail(s)) \subseteq Elems(s)
    BY <1>1, <1>2 DEF Elems
<1>4. Elems(s) \subseteq {Head(s)} \cup Elems(Tail(s))
    <2> SUFFICES ASSUME NEW n \in 1 .. Len(s), n # 1
                 PROVE  s[n] \in Elems(Tail(s))
        BY <1>2 DEF Elems
    <2>1. n - 1 \in 1 .. Len(s) - 1 /\ (n - 1) + 1 = n
        BY <1>2
    <2>2. s[n] = Tail(s)[n - 1]
        BY <1>1, <1>2, <2>1
    <2> QED BY <1>2, <2>1, <2>2 DEF Elems
<1>5. Head(s) \in Elems(s)
    BY <1>2 DEF Elems
<1>6. Tail(s) # <<>> <=> Len(s) # 1
    <2>1. Tail(s) = <<>> => Len(Tail(s)) = 0
        BY EmptySeq
    <2>2. Tail(s) # <<>> => Len(Tail(s)) # 0
        BY <1>1, EmptySeq
    <2> QED BY <1>1, <1>2, <2>1, <2>2
<1> QED BY <1>1, <1>3, <1>4, <1>5, <1>6

\* TAILQ_REMOVE of an element that is in the queue.
LEMMA WithoutElems ==
    ASSUME NEW S, NEW s \in Seq(S), NEW e \in Elems(s)
    PROVE  /\ Without(s, e) \in Seq(S)
           /\ Elems(s) \ {e} \subseteq Elems(Without(s, e))
           /\ Elems(Without(s, e)) \subseteq Elems(s)
           /\ Distinct(s) => /\ Distinct(Without(s, e))
                             /\ Elems(Without(s, e)) = Elems(s) \ {e}
<1> DEFINE k == IndexIn(s, e)
           a == SubSeq(s, 1, k - 1)
           b == SubSeq(s, k + 1, Len(s))
           w == Without(s, e)
<1>1. DOMAIN s = 1 .. Len(s) /\ Len(s) \in Nat
    BY LenProperties
<1>2. k \in 1 .. Len(s) /\ s[k] = e
    <2>1. \E n \in DOMAIN s : s[n] = e
        BY DEF Elems
    <2> QED BY <2>1, <1>1 DEF IndexIn
<1>3. \A n \in 1 .. Len(s) : s[n] \in S
    BY ElementOfSeq
<1> HIDE DEF k
<1>4. a \in Seq(S) /\ Len(a) = k - 1 /\ \A n \in 1 .. k - 1 : a[n] = s[n]
    <2>1. 1 \in Int /\ k - 1 \in Int /\ \A n \in 1 .. k - 1 : s[n] \in S
        BY <1>1, <1>2, <1>3
    <2>2. /\ a \in Seq(S)
          /\ Len(a) = IF 1 <= k - 1 THEN (k - 1) - 1 + 1 ELSE 0
          /\ \A n \in 1 .. (k - 1) - 1 + 1 : a[n] = s[1 + n - 1]
        BY <2>1, SubSeqProperties
    <2>3. \A n \in 1 .. k - 1 : n \in 1 .. (k - 1) - 1 + 1 /\ 1 + n - 1 = n
        BY <1>2
    <2> QED BY <2>2, <2>3, <1>2
<1>5. /\ b \in Seq(S) /\ Len(b) = Len(s) - k
      /\ \A n \in 1 .. Len(s) - k : b[n] = s[n + k]
    <2>1. k + 1 \in Int /\ Len(s) \in Int /\ \A n \in k + 1 .. Len(s) : s[n] \in S
        BY <1>1, <1>2, <1>3
    <2>2. /\ b \in Seq(S)
          /\ Len(b) = IF k + 1 <= Len(s) THEN Len(s) - (k + 1) + 1 ELSE 0
          /\ \A n \in 1 .. Len(s) - (k + 1) + 1 : b[n] = s[(k + 1) + n - 1]
        BY <2>1, SubSeqProperties DEF b
    <2> HIDE DEF b
    <2>3. \A n \in 1 .. Len(s) - k : /\ n \in 1 .. Len(s) - (k + 1) + 1
                                     /\ (k + 1) + n - 1 = n + k
        BY <1>1, <1>2
    <2>4. Len(b) = Len(s) - k
        <3>1. k \in Int /\ Len(s) \in Int /\ k <= Len(s)
            BY <1>1, <1>2
        <3>2. CASE k = Len(s)
            BY <3>1, <3>2, <2>2
        <3>3. CASE k # Len(s)
            <4>1. k + 1 <= Len(s) /\ Len(s) - (k + 1) + 1 = Len(s) - k
                BY <3>1, <3>3
            <4> QED BY <4>1, <2>2
        <3> QED BY <3>2, <3>3
    <2>5. ASSUME NEW n \in 1 .. Len(s) - k
          PROVE  b[n] = s[n + k]
        <3>1. n \in 1 .. Len(s) - (k + 1) + 1 /\ (k + 1) + n - 1 = n + k
            BY <2>3
        <3>2. b[n] = s[(k + 1) + n - 1]
            BY <2>2, <3>1
        <3> QED BY <3>1, <3>2
    <2> QED BY <2>2, <2>4, <2>5
<1>6. w = a \o b
    BY DEF Without, RemoveNth, k
<1> HIDE DEF a, b, w
<1>7. /\ w \in Seq(S)
      /\ DOMAIN w = 1 .. Len(s) - 1
      /\ \A n \in 1 .. Len(s) - 1 : w[n] = IF n < k THEN s[n] ELSE s[n + 1]
    <2>1. /\ w \in Seq(S) /\ Len(w) = Len(a) + Len(b)
          /\ \A n \in 1 .. Len(a) + Len(b) : w[n] =
                IF n <= Len(a) THEN a[n] ELSE b[n - Len(a)]
        BY <1>4, <1>5, <1>6, ConcatProperties
    <2>2. Len(a) + Len(b) = Len(s) - 1
        BY <1>1, <1>2, <1>4, <1>5
    <2>3. DOMAIN w = 1 .. Len(s) - 1
        BY <2>1, <2>2, LenProperties
    <2>4. ASSUME NEW n \in 1 .. Len(s) - 1
          PROVE  w[n] = IF n < k THEN s[n] ELSE s[n + 1]
        <3>1. CASE n < k
            BY <3>1, <2>1, <2>2, <1>1, <1>2, <1>4
        <3>2. CASE ~(n < k)
            <4>1. /\ ~(n <= Len(a)) /\ n - Len(a) \in 1 .. Len(s) - k
                  /\ (n - Len(a)) + k = n + 1
                BY <3>2, <1>1, <1>2, <1>4
            <4>2. w[n] = b[n - Len(a)]
                BY <4>1, <2>1, <2>2
            <4> QED BY <3>2, <4>1, <4>2, <1>5
        <3> QED BY <3>1, <3>2
    <2> QED BY <2>1, <2>3, <2>4
<1>8. Elems(w) \subseteq Elems(s)
    BY <1>1, <1>2, <1>7 DEF Elems
<1>9. Elems(s) \ {e} \subseteq Elems(w)
    <2> SUFFICES ASSUME NEW n \in 1 .. Len(s), s[n] # e
                 PROVE  s[n] \in Elems(w)
        BY <1>1 DEF Elems
    <2>1. CASE n < k
        BY <2>1, <1>1, <1>2, <1>7 DEF Elems
    <2>2. CASE n > k
        <3>1. n - 1 \in 1 .. Len(s) - 1 /\ ~(n - 1 < k) /\ (n - 1) + 1 = n
            BY <2>2, <1>1, <1>2
        <3>2. w[n - 1] = s[n]
            BY <3>1, <1>7
        <3> QED BY <3>1, <3>2, <1>7 DEF Elems
    <2> QED BY <2>1, <2>2, <1>1, <1>2
<1>10. ASSUME Distinct(s)
       PROVE  Distinct(w) /\ Elems(w) = Elems(s) \ {e}
    <2>1. e \notin Elems(w)
        <3> SUFFICES ASSUME NEW n \in 1 .. Len(s) - 1, w[n] = e
                     PROVE  FALSE
            BY <1>7 DEF Elems
        <3>1. \A m \in 1 .. Len(s) : s[m] = e => m = k
            BY <1>1, <1>2, <1>10 DEF Distinct
        <3>2. CASE n < k
            BY <3>1, <3>2, <1>1, <1>2, <1>7
        <3>3. CASE ~(n < k)
            <4>1. n + 1 \in 1 .. Len(s) /\ n + 1 # k /\ s[n + 1] = e
                BY <3>3, <1>1, <1>2, <1>7
            <4> QED BY <3>1, <4>1
        <3> QED BY <3>2, <3>3
    <2>2. Distinct(w)
        <3> SUFFICES ASSUME NEW m \in 1 .. Len(s) - 1, NEW n \in 1 .. Len(s) - 1,
                            w[m] = w[n]
                     PROVE  m = n
            BY <1>7 DEF Distinct
        <3> DEFINE at(l) == IF l < k THEN l ELSE l + 1
        <3>1. \A l \in 1 .. Len(s) - 1 : at(l) \in 1 .. Len(s) /\ w[l] = s[at(l)]
            BY <1>1, <1>2, <1>7
        <3>2. at(m) = at(n)
            BY <3>1, <1>1, <1>10 DEF Distinct
        <3> QED BY <3>2, <1>1, <1>2
    <2> QED BY <2>1, <2>2, <1>8, <1>9
<1> QED BY <1>7, <1>8, <1>9, <1>10 DEF w

\* The length of a list without repetitions is the number of its elements.
LEMMA DistinctCardinality ==
    ASSUME NEW S, NEW s \in Seq(S), Distinct(s)
    PROVE  IsFiniteSet(Elems(s)) /\ Cardinality(Elems(s)) = Len(s)
<1>1. s \in [1 .. Len(s) -> S] /\ Len(s) \in Nat
    BY LenProperties
<1>2. IsFiniteSet(1 .. Len(s)) /\ Cardinality(1 .. Len(s)) = Len(s)
    <2>1. /\ IsFiniteSet(1 .. Len(s))
          /\ Cardinality(1 .. Len(s)) = IF 1 > Len(s) THEN 0 ELSE Len(s) - 1 + 1
        BY <1>1, FS_Interval
    <2>2. (IF 1 > Len(s) THEN 0 ELSE Len(s) - 1 + 1) = Len(s)
        BY <1>1
    <2> QED BY <2>1, <2>2
<1>3. s \in Bijection(1 .. Len(s), Elems(s))
    BY <1>1 DEF Bijection, Injection, Surjection, IsInjective, Elems, Distinct
<1>4. ExistsBijection(1 .. Len(s), Elems(s))
    BY <1>3 DEF ExistsBijection
<1> QED BY <1>2, <1>4, FS_Bijection

-----------------------------------------------------------------------------
(* Pipe objects *)

\* Every field of a pipe object can be set to a value of its type.
LEMMA PipeFields ==
    ASSUME NEW q \in PipeRecord
    PROVE  /\ \A v \in {"FREE", "ACTIVE", "HALTED", "INVALID"} :
                 [q EXCEPT !.state = v] \in PipeRecord
           /\ \A v \in Seq(Irps) : [q EXCEPT !.pending = v] \in PipeRecord
           /\ \A v \in Seq(Irps) : [q EXCEPT !.done = v] \in PipeRecord
           /\ \A v \in Irps \cup {NoIrp} : [q EXCEPT !.inflight = v] \in PipeRecord
           /\ \A v \in BOOLEAN : /\ [q EXCEPT !.waiting = v] \in PipeRecord
                                 /\ [q EXCEPT !.paused = v] \in PipeRecord
                                 /\ [q EXCEPT !.cmd = v] \in PipeRecord
           /\ \A v \in Tasks \cup {NoTask} : [q EXCEPT !.waiter = v] \in PipeRecord
           /\ \A v \in PipeEvents : [q EXCEPT !.last_event = v] \in PipeRecord
           /\ \A v \in Addrs : [q EXCEPT !.addr = v] \in PipeRecord
    BY DEF PipeRecord

\* A pipe object's fields have their types.
LEMMA PipeFieldTypes ==
    ASSUME NEW q \in PipeRecord
    PROVE  /\ q.state \in {"FREE", "ACTIVE", "HALTED", "INVALID"}
           /\ q.pending \in Seq(Irps) /\ q.done \in Seq(Irps)
           /\ q.inflight \in Irps \cup {NoIrp}
           /\ q.waiter \in Tasks \cup {NoTask} /\ q.addr \in Addrs
    BY DEF PipeRecord

\* hcd_pipe_alloc returns an empty pipe.
LEMMA NewPipeOk ==
    ASSUME NEW s \in {"FREE", "ACTIVE"}, NEW a \in Addrs
    PROVE  /\ NewPipe(s, a) \in PipeRecord
           /\ NewPipe(s, a).state = s
           /\ Queue(NewPipe(s, a)) = <<>>
           /\ NewPipe(s, a).inflight = NoIrp
           /\ NewPipe(s, a).pending = <<>>
           /\ NewPipe(s, a).cmd = FALSE
           /\ NewPipe(s, a).waiter = NoTask
<1>1. <<>> \in Seq(Irps)
    BY EmptySeq
<1> QED BY <1>1 DEF NewPipe, PipeRecord, PipeEvents, Queue, InFlightSeq

\* The client gets an IRP of a pipe back exactly when it is in one of the pipe's
\* three places, and a pipe has none exactly when all three are empty.
LEMMA QueueEmpty ==
    ASSUME NEW q \in PipeRecord
    PROVE  Queue(q) = <<>> <=> q.done = <<>> /\ q.inflight = NoIrp /\ q.pending = <<>>
<1>1. /\ q.done \in Seq(Irps) /\ q.pending \in Seq(Irps)
      /\ q.inflight \in Irps \cup {NoIrp}
    BY PipeFieldTypes
<1>2. /\ InFlightSeq(q) \in Seq(Irps)
      /\ InFlightSeq(q) = <<>> <=> q.inflight = NoIrp
    BY <1>1, NullAssumption DEF InFlightSeq
<1>3. q.done \o InFlightSeq(q) \in Seq(Irps)
    BY <1>1, <1>2, ConcatProperties
<1>4. /\ q.done \o InFlightSeq(q) = <<>> <=> q.done = <<>> /\ InFlightSeq(q) = <<>>
      /\ (q.done \o InFlightSeq(q)) \o q.pending = <<>> <=>
            q.done \o InFlightSeq(q) = <<>> /\ q.pending = <<>>
    BY <1>1, <1>2, <1>3, ConcatElems
<1> QED BY <1>2, <1>4 DEF Queue

\* Two pipe objects agree on whether the object is allocated; the second has IRPs to
\* give back if the first one has, and a freed one gets none.
SameKind(q, r) ==
    /\ r \in PipeRecord
    /\ r.state = "FREE" <=> q.state = "FREE"
    /\ Queue(q) # <<>> => Queue(r) # <<>>
    /\ q.state = "FREE" /\ Queue(q) = <<>> => Queue(r) = <<>>
\* They agree on the command they process.
SameCommand(q, r) == r.cmd = q.cmd /\ r.waiter = q.waiter

\* _pipe_get_next_irp moves the first pending IRP to the empty place in flight.
LEMMA TakeNextOk ==
    ASSUME NEW q \in PipeRecord, q.pending # <<>>
    PROVE  /\ SameKind(q, TakeNext(q)) /\ SameCommand(q, TakeNext(q))
           /\ TakeNext(q).state = q.state
           /\ TakeNext(q).inflight = Head(q.pending)
           /\ TakeNext(q).inflight \in Irps
           /\ TakeNext(q).pending = Tail(q.pending)
<1>1. q.pending \in Seq(Irps)
    BY PipeFieldTypes
<1>2. Head(q.pending) \in Irps /\ Tail(q.pending) \in Seq(Irps)
    BY <1>1, HeadTailElems
<1>3. TakeNext(q) \in PipeRecord
    BY <1>2 DEF TakeNext, PipeRecord
<1>4. /\ TakeNext(q).state = q.state /\ SameCommand(q, TakeNext(q))
      /\ TakeNext(q).inflight = Head(q.pending)
      /\ TakeNext(q).pending = Tail(q.pending)
    BY DEF TakeNext, PipeRecord, SameCommand
<1>5. Queue(q) # <<>> /\ Queue(TakeNext(q)) # <<>>
    BY <1>2, <1>3, <1>4, QueueEmpty, NullAssumption
<1> QED BY <1>2, <1>3, <1>4, <1>5 DEF SameKind

\* _pipe_return_cur_irp moves the IRP in flight to the end of the done queue.
LEMMA ReturnCurIrpOk ==
    ASSUME NEW q \in PipeRecord, q.inflight # NoIrp
    PROVE  /\ SameKind(q, ReturnCurIrp(q)) /\ SameCommand(q, ReturnCurIrp(q))
           /\ ReturnCurIrp(q).state = q.state
           /\ ReturnCurIrp(q).inflight = NoIrp
           /\ ReturnCurIrp(q).pending = q.pending
<1>1. q.done \in Seq(Irps) /\ q.inflight \in Irps
    BY PipeFieldTypes
<1>2. Append(q.done, q.inflight) \in Seq(Irps) /\ Append(q.done, q.inflight) # <<>>
    BY <1>1, AppendElems
<1>3. ReturnCurIrp(q) \in PipeRecord
    BY <1>2 DEF ReturnCurIrp, PipeRecord
<1>4. /\ ReturnCurIrp(q).state = q.state /\ SameCommand(q, ReturnCurIrp(q))
      /\ ReturnCurIrp(q).inflight = NoIrp
      /\ ReturnCurIrp(q).pending = q.pending
      /\ ReturnCurIrp(q).done = Append(q.done, q.inflight)
    BY DEF ReturnCurIrp, PipeRecord, SameCommand
<1>5. Queue(q) # <<>> /\ Queue(ReturnCurIrp(q)) # <<>>
    BY <1>2, <1>3, <1>4, QueueEmpty
<1> QED BY <1>3, <1>4, <1>5 DEF SameKind

\* _pipe_retire moves the pending IRPs to the end of the done queue.
LEMMA RetireOk ==
    ASSUME NEW q \in PipeRecord
    PROVE  /\ SameKind(q, Retire(q)) /\ SameCommand(q, Retire(q))
           /\ Retire(q).state = q.state
           /\ Retire(q).inflight = q.inflight
           /\ Retire(q).pending = <<>>
<1>1. q.done \in Seq(Irps) /\ q.pending \in Seq(Irps) /\ <<>> \in Seq(Irps)
    BY PipeFieldTypes, EmptySeq
<1>2. /\ q.done \o q.pending \in Seq(Irps)
      /\ q.done \o q.pending = <<>> <=> q.done = <<>> /\ q.pending = <<>>
    BY <1>1, ConcatElems
<1>3. Retire(q) \in PipeRecord
    BY <1>1, <1>2 DEF Retire, PipeRecord
<1>4. /\ Retire(q).state = q.state /\ SameCommand(q, Retire(q))
      /\ Retire(q).inflight = q.inflight
      /\ Retire(q).pending = <<>>
      /\ Retire(q).done = q.done \o q.pending
    BY DEF Retire, PipeRecord, SameCommand
<1>5. Queue(q) = <<>> <=> Queue(Retire(q)) = <<>>
    BY <1>2, <1>3, <1>4, QueueEmpty
<1> QED BY <1>3, <1>4, <1>5 DEF SameKind

\* The fields that say nothing of the queues can change.
LEMMA FlagsOk ==
    ASSUME NEW q \in PipeRecord, NEW r \in PipeRecord,
           r.state = "FREE" <=> q.state = "FREE",
           r.pending = q.pending, r.done = q.done, r.inflight = q.inflight
    PROVE  SameKind(q, r)
    BY DEF SameKind, Queue, InFlightSeq

\* What a command does to the pipe, once nothing is in flight or nothing is retired.
LEMMA CommandedOk ==
    ASSUME NEW q \in PipeRecord, NEW c \in Blocking, q.state # "FREE"
    PROVE  /\ SameKind(q, Commanded(q, c)) /\ SameCommand(q, Commanded(q, c))
           /\ Commanded(q, c).inflight = q.inflight
           /\ Commanded(q, c).pending = IF CommandRetires(c) THEN <<>> ELSE q.pending
<1>1. CASE c = "ABORT"
    BY <1>1, RetireOk DEF Commanded, CommandRetires
<1>2. CASE c = "RESET"
    <2> DEFINE r == Retire(q)
               x == [r EXCEPT !.state = "ACTIVE"]
    <2>1. /\ SameKind(q, r) /\ SameCommand(q, r) /\ r.state = q.state
          /\ r.inflight = q.inflight /\ r.pending = <<>>
        BY RetireOk
    <2>2. r \in PipeRecord
        BY <2>1 DEF SameKind
    <2> HIDE DEF r
    <2>3. /\ x \in PipeRecord /\ x.state = "ACTIVE" /\ x.pending = r.pending
          /\ x.done = r.done /\ x.inflight = r.inflight /\ SameCommand(r, x)
        BY <2>2 DEF PipeRecord, SameCommand
    <2> HIDE DEF x
    <2>4. SameKind(r, x)
        BY <2>1, <2>2, <2>3, FlagsOk
    <2>5. SameKind(q, x) /\ SameCommand(q, x) /\ x.inflight = q.inflight /\ x.pending = <<>>
        BY <2>1, <2>3, <2>4 DEF SameKind, SameCommand
    <2>6. Commanded(q, c) = x
        BY <1>2 DEF Commanded, x, r
    <2> QED BY <2>5, <2>6, <1>2 DEF CommandRetires
<1>3. CASE c = "HALT"
    <2> DEFINE x == [q EXCEPT !.state = "HALTED"]
    <2>1. /\ x \in PipeRecord /\ x.state = "HALTED" /\ x.pending = q.pending
          /\ x.done = q.done /\ x.inflight = q.inflight /\ SameCommand(q, x)
        BY DEF PipeRecord, SameCommand
    <2>2. Commanded(q, c) = x
        BY <1>3 DEF Commanded
    <2> HIDE DEF x
    <2>3. SameKind(q, x)
        BY <2>1, FlagsOk
    <2> QED BY <2>1, <2>2, <2>3, <1>3 DEF CommandRetires
<1> QED BY <1>1, <1>2, <1>3 DEF Blocking

\* What _intr_hdlr_chan does to the pipe when a transfer completes, is paused or
\* fails.
LEMMA ChanDoneOk ==
    ASSUME NEW q \in PipeRecord, q.inflight # NoIrp
    PROVE  /\ SameKind(q, DoneQueue(q)) /\ SameCommand(q, DoneQueue(q))
           /\ DoneQueue(q).inflight = NoIrp /\ DoneQueue(q).pending = q.pending
           /\ DoneQueue(q).state = q.state
<1> DEFINE r == ReturnCurIrp(q)
           x == [r EXCEPT !.last_event = "IRP_DONE"]
<1>1. /\ SameKind(q, r) /\ SameCommand(q, r) /\ r.state = q.state
      /\ r.inflight = NoIrp /\ r.pending = q.pending
    BY ReturnCurIrpOk
<1>2. r \in PipeRecord
    BY <1>1 DEF SameKind
<1>3. DoneQueue(q) = x
    BY DEF DoneQueue
<1> HIDE DEF r
<1>4. /\ x \in PipeRecord /\ x.state = r.state /\ x.pending = r.pending
      /\ x.done = r.done /\ x.inflight = r.inflight /\ SameCommand(r, x)
    BY <1>2 DEF PipeRecord, PipeEvents, SameCommand
<1> HIDE DEF x
<1>5. SameKind(r, x)
    BY <1>2, <1>4, FlagsOk
<1> QED BY <1>1, <1>3, <1>4, <1>5 DEF SameKind, SameCommand

\* A task waits for the pipe: the result is not followed by the next transfer.
LEMMA PausedOnDoneOk ==
    ASSUME NEW q \in PipeRecord, q.inflight # NoIrp
    PROVE  /\ SameKind(q, PausedOnDone(q)) /\ SameCommand(q, PausedOnDone(q))
           /\ PausedOnDone(q).pending = q.pending
           /\ SameKind(q, [DoneQueue(q) EXCEPT !.waiting = FALSE])
           /\ SameCommand(q, [DoneQueue(q) EXCEPT !.waiting = FALSE])
           /\ [DoneQueue(q) EXCEPT !.waiting = FALSE].pending = q.pending
<1> DEFINE r == DoneQueue(q)
           x == [r EXCEPT !.waiting = FALSE]
           y == [r EXCEPT !.waiting = FALSE, !.paused = TRUE]
<1>1. /\ SameKind(q, r) /\ SameCommand(q, r) /\ r \in PipeRecord
      /\ r.inflight = NoIrp /\ r.pending = q.pending
    BY ChanDoneOk DEF SameKind
<1>2. PausedOnDone(q) = y
    BY DEF PausedOnDone
<1> HIDE DEF r
<1>3. /\ x \in PipeRecord /\ x.state = r.state /\ x.pending = r.pending
      /\ x.done = r.done /\ x.inflight = r.inflight /\ SameCommand(r, x)
    BY <1>1 DEF PipeRecord, SameCommand
<1>4. /\ y \in PipeRecord /\ y.state = r.state /\ y.pending = r.pending
      /\ y.done = r.done /\ y.inflight = r.inflight /\ SameCommand(r, y)
    BY <1>1 DEF PipeRecord, SameCommand
<1> HIDE DEF x, y
<1>5. SameKind(r, x) /\ SameKind(r, y)
    BY <1>1, <1>3, <1>4, FlagsOk
<1>6. /\ SameKind(q, x) /\ SameCommand(q, x) /\ x.pending = q.pending
      /\ SameKind(q, y) /\ SameCommand(q, y) /\ y.pending = q.pending
    BY <1>1, <1>3, <1>4, <1>5 DEF SameKind, SameCommand
<1> QED BY <1>2, <1>6 DEF x, r

\* The transfer failed.
LEMMA ChanErrorOk ==
    ASSUME NEW q \in PipeRecord, q.inflight # NoIrp, NEW e \in ErrorEvents, q.state # "FREE"
    PROVE  LET x == [ReturnCurIrp(q) EXCEPT !.state = "HALTED", !.last_event = e]
           IN  SameKind(q, x) /\ SameCommand(q, x) /\ x.pending = q.pending
<1> DEFINE r == ReturnCurIrp(q)
           x == [r EXCEPT !.state = "HALTED", !.last_event = e]
<1>1. /\ SameKind(q, r) /\ SameCommand(q, r) /\ r \in PipeRecord /\ r.state = q.state
      /\ r.inflight = NoIrp /\ r.pending = q.pending
    BY ReturnCurIrpOk DEF SameKind
<1>2. e \in PipeEvents
    BY DEF PipeEvents
<1> SUFFICES SameKind(q, x) /\ SameCommand(q, x) /\ x.pending = q.pending
    OBVIOUS
<1> HIDE DEF r
<1>3. /\ x \in PipeRecord /\ x.state = "HALTED" /\ x.pending = r.pending
      /\ x.done = r.done /\ x.inflight = r.inflight /\ SameCommand(r, x)
    BY <1>1, <1>2 DEF PipeRecord, SameCommand
<1> HIDE DEF x
<1>4. SameKind(r, x)
    BY <1>1, <1>3, FlagsOk
<1> QED BY <1>1, <1>3, <1>4 DEF SameKind, SameCommand

\* _port_invalidate_all_pipes leaves a pipe with nothing to execute.
LEMMA EmptiedOk ==
    ASSUME NEW q \in PipeRecord
    PROVE  /\ SameKind(q, Emptied(q)) /\ SameCommand(q, Emptied(q))
           /\ Emptied(q).state = q.state
           /\ Emptied(q).inflight = NoIrp /\ Emptied(q).pending = <<>>
<1>1. CASE q.inflight = NoIrp
    BY <1>1, RetireOk DEF Emptied
<1>2. CASE q.inflight # NoIrp
    <2> DEFINE r == ReturnCurIrp(q)
    <2>1. /\ SameKind(q, r) /\ SameCommand(q, r) /\ r \in PipeRecord
          /\ r.state = q.state /\ r.inflight = NoIrp
        BY <1>2, ReturnCurIrpOk DEF SameKind
    <2>2. Emptied(q) = Retire(r)
        BY <1>2 DEF Emptied
    <2> HIDE DEF r
    <2>3. /\ SameKind(r, Retire(r)) /\ SameCommand(r, Retire(r))
          /\ Retire(r).state = r.state
          /\ Retire(r).inflight = r.inflight /\ Retire(r).pending = <<>>
        BY <2>1, RetireOk
    <2> QED BY <2>1, <2>2, <2>3 DEF SameKind, SameCommand
<1> QED BY <1>1, <1>2

\* _port_invalidate_all_pipes marks a pipe, and leaves its queues as they are.
LEMMA InvalidatedOk ==
    ASSUME NEW q \in PipeRecord, q.state # "FREE"
    PROVE  /\ SameKind(q, Invalidated(q)) /\ SameCommand(q, Invalidated(q))
           /\ Invalidated(q).inflight = q.inflight
           /\ Invalidated(q).pending = q.pending
<1> DEFINE x == Invalidated(q)
<1>1. /\ x \in PipeRecord /\ x.state = "INVALID" /\ x.pending = q.pending
      /\ x.done = q.done /\ x.inflight = q.inflight /\ SameCommand(q, x)
    BY DEF PipeRecord, SameCommand, Invalidated, PipeEvents
<1> HIDE DEF x
<1>2. SameKind(q, x)
    BY <1>1, FlagsOk
<1> QED BY <1>1, <1>2 DEF x

\* Writing a status into some IRPs leaves IRP objects, and leaves the other IRPs alone.
LEMMA FinishedOk ==
    ASSUME irp \in [Irps -> IrpRecord], NEW I, NEW st \in Statuses
    PROVE  /\ Finished(irp, I, st) \in [Irps -> IrpRecord]
           /\ \A i \in Irps : /\ Finished(irp, I, st)[i].ptr = irp[i].ptr
                              /\ i \in I => Finished(irp, I, st)[i].flag = "DONE"
                              /\ i \notin I => Finished(irp, I, st)[i] = irp[i]
    BY DEF Finished, IrpRecord

-----------------------------------------------------------------------------
(* The inductive invariant *)

\* The two lists are disjoint, hold every allocated pipe once, and only a pipe with
\* IRPs is in the active one.
Lists ==
    /\ Distinct(idle) /\ Distinct(active)
    /\ Elems(idle) \cap Elems(active) = {}
    /\ Elems(idle) \cup Elems(active) = {p \in Pipes : Allocated(p)}
    /\ \A p \in Elems(active) : Queue(pipe[p]) # <<>>

\* A pipe that is freed has given its IRPs back.
FreeIsEmpty == \A p \in Pipes : ~Allocated(p) => Queue(pipe[p]) = <<>>

\* An IRP that hcd_irp_abort may remove from a pending queue is in that queue.
PendingPlaced ==
    \A i \in Irps : irp[i].flag = "PENDING" =>
        /\ irp[i].ptr \in Pipes
        /\ i \in Elems(pipe[irp[i].ptr].pending)

PipeInv ==
    /\ pipe \in [Pipes -> PipeRecord]
    /\ irp \in [Irps -> IrpRecord]
    /\ idle \in Seq(Pipes) /\ active \in Seq(Pipes)
    /\ hw \subseteq Pipes
    /\ Lists /\ FreeIsEmpty /\ PendingPlaced /\ ChannelHasIrp

RestInv ==
    /\ call \in [Tasks -> CallRecord]
    /\ \A t \in Tasks : /\ call[t].op # "none" => call[t].pipe \in Pipes
                        /\ call[t].op = "enqueue" => call[t].irp \in Irps
    /\ notified \subseteq Tasks
    /\ inval \in [phase : {"off", "active", "idle"}, cur : Pipes \cup {NoPipe}]
    /\ inval.phase # "off" => inval.cur \in Pipes
    /\ port \in PortRecord
    /\ port.waiting_all => port.num_waiting > 0
    /\ fault \in {"none", "tailq", "use_after_free", "no_waiter", "inflight_not_null",
                  "chan_not_halted"}

IInv == PipeInv /\ RestInv

-----------------------------------------------------------------------------
(* Frames: what a step must show to keep PipeInv *)

\* A step that changes no pipe, IRP or list, and starts no channel.
LEMMA NoPipeChange ==
    ASSUME PipeInv, UNCHANGED <<pipe, irp, idle, active>>, hw' \subseteq hw
    PROVE  PipeInv'
    BY DEF PipeInv, Lists, FreeIsEmpty, PendingPlaced, ChannelHasIrp, Allocated

\* Every IRP that is pending after a step that turns pipe p into R was pending and is
\* still where it was, or has just been added to p.
PendingKept(p, R) ==
    \A i \in Irps : irp'[i].flag = "PENDING" =>
        \/ /\ irp[i].flag = "PENDING" /\ irp'[i].ptr = irp[i].ptr
           /\ irp[i].ptr = p /\ i \in Elems(pipe[p].pending) => i \in Elems(R.pending)
        \/ irp'[i].ptr = p /\ i \in Elems(R.pending)

\* Every channel that executes after the step has an IRP.
ChannelsKept(p, R) ==
    \A r \in hw' : \/ r \in hw /\ r # p
                   \/ r \in hw /\ R.inflight = pipe[p].inflight
                   \/ r = p /\ R.inflight # NoIrp /\ Allocated(p)

\* A step that changes pipe p alone, into an object of the same kind, and leaves
\* the lists alone.
LEMMA OnePipe ==
    ASSUME PipeInv, NEW p \in Pipes, NEW R, SameKind(pipe[p], R),
           pipe' = [pipe EXCEPT ![p] = R],
           UNCHANGED <<idle, active>>,
           irp' \in [Irps -> IrpRecord],
           PendingKept(p, R), ChannelsKept(p, R)
    PROVE  PipeInv'
<1>1. /\ R \in PipeRecord
      /\ pipe' \in [Pipes -> PipeRecord]
      /\ pipe'[p] = R
      /\ \A r \in Pipes : r # p => pipe'[r] = pipe[r]
      /\ \A r \in Pipes : Allocated(r)' <=> Allocated(r)
      /\ \A r \in Pipes : Queue(pipe[r]) # <<>> => Queue(pipe'[r]) # <<>>
      /\ \A r \in Pipes : ~Allocated(r) /\ Queue(pipe[r]) = <<>> => Queue(pipe'[r]) = <<>>
    BY DEF PipeInv, SameKind, Allocated
<1>2. Lists'
    <2>1. {r \in Pipes : Allocated(r)'} = {r \in Pipes : Allocated(r)}
        BY <1>1
    <2>2. \A r \in Elems(active) : r \in Pipes
        BY DEF PipeInv, Lists
    <2> QED BY <1>1, <2>1, <2>2 DEF PipeInv, Lists
<1>3. FreeIsEmpty'
    BY <1>1 DEF PipeInv, FreeIsEmpty
<1>4. PendingPlaced'
    <2> SUFFICES ASSUME NEW i \in Irps, irp'[i].flag = "PENDING"
                 PROVE  /\ irp'[i].ptr \in Pipes
                        /\ i \in Elems(pipe'[irp'[i].ptr].pending)
        BY DEF PendingPlaced
    <2>1. CASE irp'[i].ptr = p /\ i \in Elems(R.pending)
        BY <1>1, <2>1
    <2>2. CASE /\ irp[i].flag = "PENDING" /\ irp'[i].ptr = irp[i].ptr
               /\ irp[i].ptr = p /\ i \in Elems(pipe[p].pending) => i \in Elems(R.pending)
        BY <1>1, <2>2 DEF PipeInv, PendingPlaced
    <2> QED BY <2>1, <2>2 DEF PendingKept
<1>5. hw' \subseteq Pipes
    BY DEF PipeInv, ChannelsKept
<1>6. ChannelHasIrp'
    BY <1>1, <1>5 DEF PipeInv, ChannelHasIrp, ChannelsKept
<1> QED BY <1>1, <1>2, <1>3, <1>4, <1>5, <1>6 DEF PipeInv

\* An allocated pipe is in one of the lists, and in the idle one if it has no IRPs.
LEMMA AllocatedListed ==
    ASSUME PipeInv, NEW p \in Pipes, Allocated(p)
    PROVE  /\ p \in Elems(idle) \/ p \in Elems(active)
           /\ Queue(pipe[p]) = <<>> => p \in Elems(idle)
           /\ pipe[p] \in PipeRecord /\ pipe[p].state # "FREE"
    BY DEF PipeInv, Lists, Allocated

-----------------------------------------------------------------------------
(* Clients: IRPs *)

\* hcd_irp_enqueue, when the transfer starts at once: the pipe leaves the idle list only
\* if it is in it.
LEMMA EnqueueStartStep ==
    ASSUME IInv, NEW t \in Tasks, EnqueueStart(t)
    PROVE  IInv'
<1> DEFINE p == call[t].pipe
           i == call[t].irp
           R == [pipe[p] EXCEPT !.inflight = i]
<1>1. p \in Pipes /\ i \in Irps /\ Allocated(p) /\ CanStart(pipe[p]) /\ pipe[p].state = "ACTIVE"
    BY DEF IInv, RestInv, EnqueueStart, Enqueuing, Accepts
<1>2. pipe[p] \in PipeRecord
    BY <1>1 DEF IInv, PipeInv
<1>3. /\ R \in PipeRecord /\ R.state = pipe[p].state
      /\ R.inflight = i /\ R.inflight # NoIrp
      /\ R.pending = pipe[p].pending
    BY <1>1, <1>2, NullAssumption DEF PipeRecord
<1>4. Queue(R) # <<>>
    BY <1>3, QueueEmpty
<1>5. pipe' = [pipe EXCEPT ![p] = R]
    BY DEF EnqueueStart
<1>6. /\ irp' \in [Irps -> IrpRecord]
      /\ irp'[i].flag = "INFLIGHT"
      /\ \A j \in Irps : j # i => irp'[j] = irp[j]
    BY <1>1 DEF IInv, PipeInv, EnqueueStart, IrpRecord
<1>7. hw' = hw \cup {p}
    BY DEF EnqueueStart
<1>8. RestInv'
    BY <1>1 DEF IInv, RestInv, EnqueueStart, Return, IdleCall, CallRecord, Ops
<1> HIDE DEF p, i, R
<1>9. CASE pipe[p].done = <<>>
    <2>1. p \in Elems(idle) /\ p \notin Elems(active)
        <3>1. Queue(pipe[p]) = <<>>
            BY <1>1, <1>2, <1>9, QueueEmpty DEF CanStart
        <3> QED BY <3>1, <1>1, AllocatedListed DEF IInv, PipeInv, Lists
    <2>2. idle' = Without(idle, p) /\ active' = Append(active, p)
        BY <1>9 DEF EnqueueStart, p
    <2>3. /\ idle' \in Seq(Pipes) /\ Distinct(idle') /\ Elems(idle') = Elems(idle) \ {p}
          /\ active' \in Seq(Pipes) /\ Distinct(active') /\ Elems(active') = Elems(active) \cup {p}
        BY <1>1, <2>1, <2>2, WithoutElems, AppendElems DEF IInv, PipeInv, Lists
    <2>4. /\ pipe' \in [Pipes -> PipeRecord] /\ pipe'[p] = R
          /\ \A r \in Pipes : r # p => pipe'[r] = pipe[r]
          /\ \A r \in Pipes : Allocated(r)' <=> Allocated(r)
        BY <1>1, <1>3, <1>5 DEF IInv, PipeInv, Allocated
    <2>5. Lists'
        <3>1. {r \in Pipes : Allocated(r)'} = {r \in Pipes : Allocated(r)}
            BY <2>4
        <3>2. Elems(active) \subseteq Pipes
            BY DEF IInv, PipeInv, Lists
        <3>3. \A r \in Elems(active') : Queue(pipe'[r]) # <<>>
            BY <1>4, <2>3, <2>4, <3>2 DEF IInv, PipeInv, Lists
        <3> QED BY <2>1, <2>3, <3>1, <3>3 DEF IInv, PipeInv, Lists
    <2>6. FreeIsEmpty'
        BY <1>1, <2>4 DEF IInv, PipeInv, FreeIsEmpty
    <2>7. PendingPlaced'
        BY <1>1, <1>3, <1>6, <2>4 DEF IInv, PipeInv, PendingPlaced
    <2>8. hw' \subseteq Pipes /\ ChannelHasIrp'
        BY <1>1, <1>3, <1>7, <2>4 DEF IInv, PipeInv, ChannelHasIrp
    <2> QED BY <1>6, <1>8, <2>3, <2>4, <2>5, <2>6, <2>7, <2>8 DEF IInv, PipeInv
<1>10. CASE pipe[p].done # <<>>
    <2>1. UNCHANGED <<idle, active>>
        BY <1>10 DEF EnqueueStart, p
    <2>2. SameKind(pipe[p], R)
        BY <1>2, <1>3, <1>4, <1>10, QueueEmpty DEF SameKind
    <2>3. PipeInv'
        <3>1. PendingKept(p, R)
            BY <1>3, <1>6 DEF PendingKept
        <3>2. ChannelsKept(p, R)
            BY <1>1, <1>3, <1>7 DEF ChannelsKept
        <3> QED BY <1>1, <1>3, <1>5, <1>6, <2>1, <2>2, <3>1, <3>2, OnePipe DEF IInv
    <2> QED BY <1>8, <2>3 DEF IInv
<1> QED BY <1>9, <1>10

\* hcd_irp_dequeue: a pipe leaves the active list as its last IRP is dequeued, or with
\* an IRP still in flight.
LEMMA DequeueStep ==
    ASSUME IInv, NEW t \in Tasks, NEW p \in Pipes, Dequeue(t, p)
    PROVE  IInv'
<1> DEFINE i == Head(pipe[p].done)
           R == [pipe[p] EXCEPT !.done = Tail(pipe[p].done)]
<1>1. /\ Allocated(p) /\ pipe[p].done # <<>> /\ pipe[p] \in PipeRecord
      /\ pipe[p].done \in Seq(Irps) /\ pipe[p].pending \in Seq(Irps)
    BY PipeFieldTypes DEF IInv, PipeInv, Dequeue
<1>2. /\ i \in Irps /\ Tail(pipe[p].done) \in Seq(Irps)
      /\ Tail(pipe[p].done) # <<>> <=> Len(pipe[p].done) # 1
    BY <1>1, HeadTailElems
<1>3. /\ R \in PipeRecord /\ R.state = pipe[p].state
      /\ R.inflight = pipe[p].inflight /\ R.pending = pipe[p].pending
      /\ R.done = Tail(pipe[p].done)
    BY <1>1, <1>2 DEF PipeRecord
<1>4. pipe' = [pipe EXCEPT ![p] = R]
    BY DEF Dequeue
<1>5. /\ irp' \in [Irps -> IrpRecord]
      /\ irp'[i].flag = "IDLE"
      /\ \A j \in Irps : j # i => irp'[j] = irp[j]
    BY <1>2 DEF IInv, PipeInv, Dequeue, IrpRecord, NewIrp, Statuses
<1>6. hw' = hw
    BY DEF Dequeue
<1>7. RestInv'
    BY DEF IInv, RestInv, Dequeue
<1>8. Queue(pipe[p]) # <<>>
    BY <1>1, QueueEmpty
<1> HIDE DEF i, R
<1>9. CASE LeavesActive(pipe[p])
    <2>1. p \in Elems(active) /\ p \notin Elems(idle)
        BY <1>9 DEF Dequeue, IInv, PipeInv, Lists
    <2>2. active' = Without(active, p) /\ idle' = Append(idle, p)
        BY <1>9 DEF Dequeue
    <2>3. /\ active' \in Seq(Pipes) /\ Distinct(active')
          /\ Elems(active') = Elems(active) \ {p}
          /\ idle' \in Seq(Pipes) /\ Distinct(idle') /\ Elems(idle') = Elems(idle) \cup {p}
        BY <2>1, <2>2, WithoutElems, AppendElems DEF IInv, PipeInv, Lists
    <2>4. /\ pipe' \in [Pipes -> PipeRecord] /\ pipe'[p] = R
          /\ \A r \in Pipes : r # p => pipe'[r] = pipe[r]
          /\ \A r \in Pipes : Allocated(r)' <=> Allocated(r)
        BY <1>3, <1>4 DEF IInv, PipeInv, Allocated
    <2>5. Lists'
        <3>1. {r \in Pipes : Allocated(r)'} = {r \in Pipes : Allocated(r)}
            BY <2>4
        <3>2. Elems(active) \subseteq Pipes
            BY DEF IInv, PipeInv, Lists
        <3>3. \A r \in Elems(active') : Queue(pipe'[r]) # <<>>
            BY <2>3, <2>4, <3>2 DEF IInv, PipeInv, Lists
        <3> QED BY <2>1, <2>3, <3>1, <3>3 DEF IInv, PipeInv, Lists
    <2>6. FreeIsEmpty'
        BY <1>1, <2>4 DEF IInv, PipeInv, FreeIsEmpty
    <2>7. PendingPlaced'
        BY <1>3, <1>5, <2>4 DEF IInv, PipeInv, PendingPlaced
    <2>8. hw' \subseteq Pipes /\ ChannelHasIrp'
        BY <1>3, <1>6, <2>4 DEF IInv, PipeInv, ChannelHasIrp
    <2> QED BY <1>5, <1>7, <2>3, <2>4, <2>5, <2>6, <2>7, <2>8 DEF IInv, PipeInv
<1>10. CASE ~LeavesActive(pipe[p])
    <2>1. UNCHANGED <<idle, active>>
        BY <1>10 DEF Dequeue
    <2>2. Queue(R) # <<>>
        BY <1>2, <1>3, <1>10, QueueEmpty DEF LeavesActive
    <2>3. SameKind(pipe[p], R)
        BY <1>3, <1>8, <2>2 DEF SameKind
    <2>4. PendingKept(p, R)
        BY <1>3, <1>5 DEF PendingKept
    <2>5. ChannelsKept(p, R)
        BY <1>3, <1>6 DEF ChannelsKept
    <2>6. PipeInv'
        BY <1>4, <1>5, <2>1, <2>3, <2>4, <2>5, OnePipe DEF IInv
    <2> QED BY <1>7, <2>6 DEF IInv
<1> QED BY <1>9, <1>10

\* hcd_irp_enqueue, when the IRP has to wait in the pending queue.
LEMMA EnqueuePendStep ==
    ASSUME IInv, NEW t \in Tasks, EnqueuePend(t)
    PROVE  IInv'
<1> DEFINE p == call[t].pipe
           i == call[t].irp
           R == [pipe[p] EXCEPT !.pending = Append(pipe[p].pending, i)]
<1>1. /\ p \in Pipes /\ i \in Irps /\ Allocated(p) /\ ~CanStart(pipe[p])
      /\ pipe[p] \in PipeRecord
    BY DEF IInv, PipeInv, RestInv, EnqueuePend, Enqueuing
<1>2. pipe' = [pipe EXCEPT ![p] = R]
    BY DEF EnqueuePend
<1>3. /\ pipe[p].pending \in Seq(Irps)
      /\ Append(pipe[p].pending, i) \in Seq(Irps)
      /\ Append(pipe[p].pending, i) # <<>>
      /\ Elems(Append(pipe[p].pending, i)) = Elems(pipe[p].pending) \cup {i}
    BY <1>1, PipeFieldTypes, AppendElems
<1>4. /\ R \in PipeRecord /\ R.state = pipe[p].state
      /\ R.inflight = pipe[p].inflight /\ R.done = pipe[p].done
      /\ R.pending = Append(pipe[p].pending, i)
    BY <1>1, <1>3 DEF PipeRecord
<1>5. /\ irp' \in [Irps -> IrpRecord]
      /\ irp'[i].ptr = p
      /\ \A j \in Irps : j # i => irp'[j] = irp[j]
    BY <1>1 DEF IInv, PipeInv, EnqueuePend, IrpRecord
<1>6. RestInv' /\ UNCHANGED <<idle, active, hw>>
    BY <1>1 DEF IInv, RestInv, EnqueuePend, Return, IdleCall, CallRecord, Ops
<1>7. Queue(R) # <<>>
    BY <1>3, <1>4, QueueEmpty
<1> HIDE DEF p, i, R
<1>8. SameKind(pipe[p], R)
    BY <1>1, <1>4, <1>7 DEF SameKind, Allocated
<1>9. PendingKept(p, R)
    BY <1>3, <1>4, <1>5 DEF PendingKept
<1>10. ChannelsKept(p, R)
    BY <1>4, <1>6 DEF ChannelsKept
<1>11. PipeInv'
    BY <1>1, <1>2, <1>5, <1>6, <1>8, <1>9, <1>10, OnePipe DEF IInv
<1> QED BY <1>6, <1>11 DEF IInv

\* hcd_irp_abort: the IRP is in the pending queue it is removed from.
LEMMA AbortIrpStep ==
    ASSUME IInv, NEW t \in Tasks, NEW i \in Irps, AbortIrp(t, i)
    PROVE  IInv'
<1> DEFINE p == irp[i].ptr
           q == pipe[p]
           R == [q EXCEPT !.pending = Without(q.pending, i), !.done = Append(q.done, i)]
<1>1. p \in Pipes /\ i \in Elems(q.pending) /\ q \in PipeRecord
    BY DEF IInv, PipeInv, PendingPlaced, AbortIrp
<1>2. q.pending \in Seq(Irps) /\ q.done \in Seq(Irps)
    BY <1>1, PipeFieldTypes
<1>3. /\ Without(q.pending, i) \in Seq(Irps)
      /\ Elems(q.pending) \ {i} \subseteq Elems(Without(q.pending, i))
      /\ Append(q.done, i) \in Seq(Irps) /\ Append(q.done, i) # <<>>
    BY <1>1, <1>2, WithoutElems, AppendElems
<1>4. /\ R \in PipeRecord /\ R.state = q.state /\ R.inflight = q.inflight
      /\ R.pending = Without(q.pending, i) /\ R.done = Append(q.done, i)
    BY <1>1, <1>3 DEF PipeRecord
<1>5. pipe' = [pipe EXCEPT ![p] = R]
    BY DEF AbortIrp
<1>6. /\ irp' \in [Irps -> IrpRecord]
      /\ irp'[i].flag = "DONE"
      /\ \A j \in Irps : j # i => irp'[j] = irp[j]
    BY FinishedOk DEF AbortIrp, IInv, PipeInv, Statuses
<1>7. RestInv' /\ UNCHANGED <<idle, active, hw>>
    BY DEF IInv, RestInv, AbortIrp
<1> HIDE DEF R
<1>8. Queue(R) # <<>> /\ Queue(q) # <<>>
    <2>1. q.pending # <<>>
        BY <1>1 DEF Elems
    <2> QED BY <1>1, <1>3, <1>4, <2>1, QueueEmpty
<1>9. SameKind(q, R)
    BY <1>4, <1>8 DEF SameKind
<1>10. PendingKept(p, R)
    BY <1>3, <1>4, <1>6 DEF PendingKept
<1>11. ChannelsKept(p, R)
    BY <1>4, <1>7 DEF ChannelsKept
<1>12. PipeInv'
    BY <1>1, <1>5, <1>6, <1>7, <1>9, <1>10, <1>11, OnePipe DEF IInv
<1> QED BY <1>7, <1>12 DEF IInv

-----------------------------------------------------------------------------
(* Clients: pipes *)

\* hcd_pipe_alloc: a new pipe, in no list before, is put into the idle list.
LEMMA AllocStep ==
    ASSUME IInv, NEW t \in Tasks, NEW p \in Pipes, Alloc(t, p)
    PROVE  IInv'
<1>1. PICK a \in Addrs : pipe' = [pipe EXCEPT ![p] = NewPipe("ACTIVE", a)]
    BY DEF Alloc
<1> DEFINE R == NewPipe("ACTIVE", a)
<1>2. R \in PipeRecord /\ R.state = "ACTIVE"
    BY NewPipeOk
<1>3. ~Allocated(p) /\ p \notin Elems(idle) /\ p \notin Elems(active) /\ p \notin hw
    BY DEF Alloc, Allocated, IInv, PipeInv, Lists, ChannelHasIrp
<1>4. idle' = Append(idle, p) /\ UNCHANGED <<irp, active, hw>>
    BY DEF Alloc
<1>5. /\ idle' \in Seq(Pipes) /\ Distinct(idle')
      /\ Elems(idle') = Elems(idle) \cup {p}
    BY <1>3, <1>4, AppendElems DEF IInv, PipeInv, Lists
<1> HIDE DEF R
<1>6. /\ pipe' \in [Pipes -> PipeRecord] /\ pipe'[p] = R
      /\ \A r \in Pipes : r # p => pipe'[r] = pipe[r]
    BY <1>1, <1>2 DEF IInv, PipeInv, R
<1>7. /\ Allocated(p)'
      /\ \A r \in Pipes : r # p => (Allocated(r)' <=> Allocated(r))
    BY <1>2, <1>6 DEF Allocated
<1>8. Lists'
    <2>1. {r \in Pipes : Allocated(r)'} = {r \in Pipes : Allocated(r)} \cup {p}
        BY <1>7
    <2>2. \A r \in Elems(active) : r \in Pipes /\ pipe'[r] = pipe[r]
        BY <1>3, <1>6 DEF IInv, PipeInv, Lists
    <2> QED BY <1>3, <1>4, <1>5, <2>1, <2>2 DEF IInv, PipeInv, Lists
<1>9. FreeIsEmpty'
    BY <1>6, <1>7 DEF IInv, PipeInv, FreeIsEmpty
<1>10. PendingPlaced'
    <2>1. pipe[p].pending = <<>>
        BY <1>3, QueueEmpty DEF IInv, PipeInv, FreeIsEmpty
    <2>2. \A i \in Irps : irp[i].flag = "PENDING" => irp[i].ptr # p
        BY <2>1 DEF IInv, PipeInv, PendingPlaced, Elems
    <2> QED BY <1>4, <1>6, <2>2 DEF IInv, PipeInv, PendingPlaced
<1>11. ChannelHasIrp'
    BY <1>3, <1>4, <1>6, <1>7 DEF IInv, PipeInv, ChannelHasIrp
<1>12. RestInv'
    BY DEF IInv, RestInv, Alloc
<1> QED BY <1>4, <1>5, <1>6, <1>8, <1>9, <1>10, <1>11, <1>12 DEF IInv, PipeInv

\* hcd_pipe_free: a pipe without IRPs is in the idle list it is removed from.
LEMMA FreePipeStep ==
    ASSUME IInv, NEW t \in Tasks, NEW p \in Pipes, FreePipe(t, p)
    PROVE  IInv'
<1> DEFINE R == NewPipe("FREE", pipe[p].addr)
<1>1. /\ Allocated(p) /\ Queue(pipe[p]) = <<>> /\ pipe[p] \in PipeRecord
      /\ pipe[p].addr \in Addrs
    BY PipeFieldTypes DEF IInv, PipeInv, FreePipe
<1>2. R \in PipeRecord /\ R.state = "FREE" /\ Queue(R) = <<>>
    BY <1>1, NewPipeOk
<1>3. pipe[p].inflight = NoIrp /\ pipe[p].pending = <<>>
    BY <1>1, QueueEmpty
<1>4. p \in Elems(idle) /\ p \notin Elems(active) /\ p \notin hw
    BY <1>1, <1>3, AllocatedListed DEF IInv, PipeInv, Lists, ChannelHasIrp
<1>5. /\ idle' = Without(idle, p) /\ UNCHANGED <<irp, active, hw>>
      /\ pipe' = [pipe EXCEPT ![p] = R]
    BY DEF FreePipe
<1>6. /\ idle' \in Seq(Pipes) /\ Distinct(idle')
      /\ Elems(idle') = Elems(idle) \ {p}
    BY <1>4, <1>5, WithoutElems DEF IInv, PipeInv, Lists
<1> HIDE DEF R
<1>7. /\ pipe' \in [Pipes -> PipeRecord] /\ pipe'[p] = R
      /\ \A r \in Pipes : r # p => pipe'[r] = pipe[r]
    BY <1>2, <1>5 DEF IInv, PipeInv
<1>8. /\ ~Allocated(p)'
      /\ \A r \in Pipes : r # p => (Allocated(r)' <=> Allocated(r))
    BY <1>2, <1>7 DEF Allocated
<1>9. Lists'
    <2>1. {r \in Pipes : Allocated(r)'} = {r \in Pipes : Allocated(r)} \ {p}
        BY <1>8
    <2>2. \A r \in Elems(active) : r \in Pipes /\ pipe'[r] = pipe[r]
        BY <1>4, <1>7 DEF IInv, PipeInv, Lists
    <2> QED BY <1>4, <1>5, <1>6, <2>1, <2>2 DEF IInv, PipeInv, Lists
<1>10. FreeIsEmpty'
    BY <1>2, <1>7, <1>8 DEF IInv, PipeInv, FreeIsEmpty
<1>11. PendingPlaced'
    <2>1. \A i \in Irps : irp[i].flag = "PENDING" => irp[i].ptr # p
        BY <1>3 DEF IInv, PipeInv, PendingPlaced, Elems
    <2> QED BY <1>5, <1>7, <2>1 DEF IInv, PipeInv, PendingPlaced
<1>12. ChannelHasIrp'
    BY <1>4, <1>5, <1>7, <1>8 DEF IInv, PipeInv, ChannelHasIrp
<1>13. RestInv'
    BY DEF IInv, RestInv, FreePipe
<1> QED BY <1>5, <1>6, <1>7, <1>9, <1>10, <1>11, <1>12, <1>13 DEF IInv, PipeInv

\* A step that changes the flags of one pipe, and no IRP, list or channel.
LEMMA FlagChange ==
    ASSUME PipeInv, NEW p \in Pipes, NEW R \in PipeRecord,
           R.state = "FREE" <=> pipe[p].state = "FREE",
           R.pending = pipe[p].pending, R.done = pipe[p].done,
           R.inflight = pipe[p].inflight,
           pipe' = [pipe EXCEPT ![p] = R],
           UNCHANGED <<irp, idle, active, hw>>
    PROVE  PipeInv'
<1>1. SameKind(pipe[p], R)
    BY FlagsOk DEF PipeInv
<1>2. PendingKept(p, R)
    BY DEF PendingKept
<1>3. ChannelsKept(p, R)
    BY DEF ChannelsKept
<1>4. irp' \in [Irps -> IrpRecord]
    BY DEF PipeInv
<1> QED BY <1>1, <1>2, <1>3, <1>4, OnePipe

\* hcd_pipe_update changes nothing but the endpoint characteristics.
LEMMA UpdateStep ==
    ASSUME IInv, NEW t \in Tasks, NEW p \in Pipes, NEW a \in Addrs, Update(t, p, a)
    PROVE  IInv'
<1> DEFINE R == [pipe[p] EXCEPT !.addr = a]
<1>1. pipe[p] \in PipeRecord
    BY DEF IInv, PipeInv
<1>2. /\ R \in PipeRecord /\ R.state = pipe[p].state /\ R.pending = pipe[p].pending
      /\ R.done = pipe[p].done /\ R.inflight = pipe[p].inflight
    BY <1>1 DEF PipeRecord
<1>3. pipe' = [pipe EXCEPT ![p] = R] /\ UNCHANGED <<irp, idle, active, hw>>
    BY DEF Update
<1>4. RestInv'
    BY DEF IInv, RestInv, Update
<1> HIDE DEF R
<1>5. PipeInv'
    BY <1>2, <1>3, FlagChange DEF IInv
<1> QED BY <1>4, <1>5 DEF IInv

\* hcd_pipe_get_event resets the last event of a pipe, and nothing else.
LEMMA GetEventStep ==
    ASSUME IInv, NEW t \in Tasks, NEW p \in Pipes, GetEvent(t, p)
    PROVE  IInv'
<1> DEFINE R == [pipe[p] EXCEPT !.last_event = "NONE"]
<1>1. pipe[p] \in PipeRecord
    BY DEF IInv, PipeInv
<1>2. /\ R \in PipeRecord /\ R.state = pipe[p].state /\ R.pending = pipe[p].pending
      /\ R.done = pipe[p].done /\ R.inflight = pipe[p].inflight
    BY <1>1 DEF PipeRecord, PipeEvents
<1>3. pipe' = [pipe EXCEPT ![p] = R] /\ UNCHANGED <<irp, idle, active, hw>>
    BY DEF GetEvent
<1>4. RestInv'
    BY DEF IInv, RestInv, GetEvent
<1> HIDE DEF R
<1>5. PipeInv'
    BY <1>2, <1>3, FlagChange DEF IInv
<1> QED BY <1>4, <1>5 DEF IInv

-----------------------------------------------------------------------------
(* Clients: pipe commands *)

\* A command that retires the pending IRPs leaves none of them pending.
LEMMA CommandedKept ==
    ASSUME PipeInv, NEW p \in Pipes, NEW c \in Blocking,
           NEW R, R.pending = Commanded(pipe[p], c).pending,
           Allocated(p), irp' = CommandedIrps(pipe[p], c)
    PROVE  irp' \in [Irps -> IrpRecord] /\ PendingKept(p, R)
<1>1. R.pending = IF CommandRetires(c) THEN <<>> ELSE pipe[p].pending
    BY CommandedOk DEF PipeInv, Allocated
<1>2. CASE CommandRetires(c)
    <2>1. irp' = Finished(irp, Elems(pipe[p].pending), "CANCELLED")
        BY <1>2 DEF CommandedIrps
    <2>2. /\ irp' \in [Irps -> IrpRecord]
          /\ \A i \in Irps : /\ irp'[i].ptr = irp[i].ptr
                             /\ i \in Elems(pipe[p].pending) => irp'[i].flag = "DONE"
                             /\ i \notin Elems(pipe[p].pending) => irp'[i] = irp[i]
        BY <2>1, FinishedOk DEF PipeInv, Statuses
    <2> QED BY <2>2 DEF PendingKept
<1>3. CASE ~CommandRetires(c)
    <2>1. irp' = irp /\ R.pending = pipe[p].pending
        BY <1>1, <1>3 DEF CommandedIrps
    <2> QED BY <2>1 DEF PendingKept, PipeInv
<1> QED BY <1>2, <1>3

\* hcd_pipe_command, when it has no transfer to wait for.
LEMMA CommandNowStep ==
    ASSUME IInv, NEW t \in Tasks, NEW p \in Pipes, NEW c \in Blocking, CommandNow(t, p, c)
    PROVE  IInv'
<1> DEFINE R == Commanded(pipe[p], c)
<1>1. pipe[p] \in PipeRecord /\ Allocated(p) /\ pipe[p].state # "FREE"
    BY DEF IInv, PipeInv, CommandNow, CommandAllowed, Allocated
<1>2. SameKind(pipe[p], R) /\ R.inflight = pipe[p].inflight
    BY <1>1, CommandedOk
<1>3. /\ pipe' = [pipe EXCEPT ![p] = R] /\ irp' = CommandedIrps(pipe[p], c)
      /\ UNCHANGED <<idle, active, hw>>
    BY DEF CommandNow
<1>4. irp' \in [Irps -> IrpRecord] /\ PendingKept(p, R)
    BY <1>1, <1>3, CommandedKept DEF IInv
<1> HIDE DEF R
<1>5. ChannelsKept(p, R)
    BY <1>2, <1>3 DEF ChannelsKept
<1>6. PipeInv'
    BY <1>2, <1>3, <1>4, <1>5, OnePipe DEF IInv
<1>7. RestInv'
    BY DEF IInv, RestInv, CommandNow
<1> QED BY <1>6, <1>7 DEF IInv

\* hcd_pipe_command, when it begins to wait for the transfer in flight.
LEMMA CommandBlockStep ==
    ASSUME IInv, NEW t \in Tasks, NEW p \in Pipes, NEW c \in Blocking, CommandBlock(t, p, c)
    PROVE  IInv'
<1> DEFINE R == [pipe[p] EXCEPT !.cmd = TRUE, !.waiting = TRUE, !.waiter = t]
<1>1. pipe[p] \in PipeRecord
    BY DEF IInv, PipeInv
<1>2. /\ R \in PipeRecord /\ R.state = pipe[p].state /\ R.pending = pipe[p].pending
      /\ R.done = pipe[p].done /\ R.inflight = pipe[p].inflight
    BY <1>1 DEF PipeRecord
<1>3. pipe' = [pipe EXCEPT ![p] = R] /\ UNCHANGED <<irp, idle, active, hw>>
    BY DEF CommandBlock
<1>4. RestInv'
    BY DEF IInv, RestInv, CommandBlock, CallRecord, Ops, Blocking
<1> HIDE DEF R
<1>5. PipeInv'
    BY <1>2, <1>3, FlagChange DEF IInv
<1> QED BY <1>4, <1>5 DEF IInv

\* HCD_PIPE_CMD_CLEAR starts the next pending IRP of a pipe without one in flight.
LEMMA CommandClearStep ==
    ASSUME IInv, NEW t \in Tasks, NEW p \in Pipes, CommandClear(t, p)
    PROVE  IInv'
<1> DEFINE q == pipe[p]
<1>1. q \in PipeRecord /\ Allocated(p) /\ q.state = "HALTED" /\ q.inflight = NoIrp
    BY DEF IInv, PipeInv, CommandClear, Allocated
<1>2. RestInv' /\ UNCHANGED <<idle, active>>
    BY DEF IInv, RestInv, CommandClear
<1>3. CASE HasNext(q)
    <2> DEFINE r == TakeNext(q)
               R == [r EXCEPT !.state = "ACTIVE"]
    <2>1. q.pending # <<>> /\ q.pending \in Seq(Irps)
        BY <1>1, <1>3, PipeFieldTypes DEF HasNext
    <2>2. /\ SameKind(q, r) /\ r \in PipeRecord /\ r.state = "HALTED"
          /\ r.inflight = Head(q.pending) /\ r.inflight \in Irps
          /\ r.pending = Tail(q.pending)
        BY <1>1, <2>1, TakeNextOk DEF SameKind
    <2>3. /\ pipe' = [pipe EXCEPT ![p] = R]
          /\ irp' = InFlight(irp, Head(q.pending)) /\ hw' = hw \cup {p}
        BY <1>3 DEF CommandClear
    <2> HIDE DEF r
    <2>4. /\ R \in PipeRecord /\ R.state = "ACTIVE" /\ R.pending = r.pending
          /\ R.done = r.done /\ R.inflight = r.inflight
        BY <2>2 DEF PipeRecord
    <2> HIDE DEF R
    <2>5. SameKind(r, R)
        BY <2>2, <2>4, FlagsOk
    <2>6. SameKind(q, R)
        BY <2>2, <2>5 DEF SameKind
    <2>7. /\ irp' \in [Irps -> IrpRecord]
          /\ irp'[Head(q.pending)].flag = "INFLIGHT"
          /\ \A i \in Irps : i # Head(q.pending) => irp'[i] = irp[i]
        BY <2>2, <2>3 DEF InFlight, IrpRecord, IInv, PipeInv
    <2>8. PendingKept(p, R)
        <3>1. Elems(q.pending) = {Head(q.pending)} \cup Elems(Tail(q.pending))
            BY <2>1, HeadTailElems
        <3> QED BY <2>2, <2>4, <2>7, <3>1 DEF PendingKept
    <2>9. ChannelsKept(p, R)
        BY <1>1, <2>2, <2>3, <2>4, NullAssumption DEF ChannelsKept
    <2>10. PipeInv'
        BY <1>2, <2>3, <2>6, <2>7, <2>8, <2>9, OnePipe DEF IInv
    <2> QED BY <1>2, <2>10 DEF IInv
<1>4. CASE ~HasNext(q)
    <2> DEFINE R == [q EXCEPT !.state = "ACTIVE"]
    <2>1. /\ R \in PipeRecord /\ R.state = "ACTIVE" /\ R.pending = q.pending
          /\ R.done = q.done /\ R.inflight = q.inflight
        BY <1>1 DEF PipeRecord
    <2>2. pipe' = [pipe EXCEPT ![p] = R] /\ UNCHANGED <<irp, hw>>
        BY <1>4 DEF CommandClear
    <2> HIDE DEF R
    <2>3. PipeInv'
        BY <1>1, <1>2, <2>1, <2>2, FlagChange DEF IInv
    <2> QED BY <1>2, <2>3 DEF IInv
<1> QED BY <1>3, <1>4

\* hcd_pipe_command, when it wakes up and finds its pipe invalid.
LEMMA ResumeInvalidStep ==
    ASSUME IInv, NEW t \in Tasks, ResumeInvalid(t)
    PROVE  IInv'
<1> DEFINE p == call[t].pipe
           R == [pipe[p] EXCEPT !.waiter = NoTask, !.waiting = FALSE, !.cmd = FALSE]
<1>1. p \in Pipes /\ pipe[p] \in PipeRecord
    BY DEF IInv, PipeInv, RestInv, ResumeInvalid, Resumes, InCommand, Blocking
<1>2. /\ R \in PipeRecord /\ R.state = pipe[p].state /\ R.pending = pipe[p].pending
      /\ R.done = pipe[p].done /\ R.inflight = pipe[p].inflight
    BY <1>1 DEF PipeRecord
<1>3. pipe' = [pipe EXCEPT ![p] = R] /\ UNCHANGED <<irp, idle, active, hw>>
    BY DEF ResumeInvalid
<1>4. RestInv'
    BY DEF IInv, RestInv, ResumeInvalid, Return, IdleCall, CallRecord, Ops
<1> HIDE DEF R, p
<1>5. PipeInv'
    BY <1>1, <1>2, <1>3, FlagChange DEF IInv
<1> QED BY <1>4, <1>5 DEF IInv

\* hcd_pipe_command, when it wakes up and finishes what it was called for.
LEMMA ResumeDoneStep ==
    ASSUME IInv, NEW t \in Tasks, ResumeDone(t)
    PROVE  IInv'
<1> DEFINE p == call[t].pipe
           c == call[t].op
           r == Commanded(pipe[p], c)
           R == [r EXCEPT !.waiter = NoTask, !.cmd = FALSE]
<1>1. /\ p \in Pipes /\ c \in Blocking /\ pipe[p] \in PipeRecord
      /\ Allocated(p) /\ pipe[p].state # "FREE"
    BY DEF IInv, PipeInv, RestInv, ResumeDone, Resumes, InCommand, Blocking, Valid, Allocated
<1>2. SameKind(pipe[p], r) /\ r \in PipeRecord /\ r.inflight = pipe[p].inflight
    BY <1>1, CommandedOk DEF SameKind
<1>3. /\ pipe' = [pipe EXCEPT ![p] = R] /\ irp' = CommandedIrps(pipe[p], c)
      /\ UNCHANGED <<idle, active, hw>>
    BY DEF ResumeDone
<1>4. RestInv'
    BY DEF IInv, RestInv, ResumeDone, Return, IdleCall, CallRecord, Ops
<1> HIDE DEF r
<1>5. /\ R \in PipeRecord /\ R.state = r.state /\ R.pending = r.pending
      /\ R.done = r.done /\ R.inflight = r.inflight
    BY <1>2 DEF PipeRecord
<1> HIDE DEF R
<1>6. SameKind(r, R)
    BY <1>2, <1>5, FlagsOk
<1>7. SameKind(pipe[p], R)
    BY <1>2, <1>6 DEF SameKind
<1>8. R.pending = Commanded(pipe[p], c).pending
    BY <1>5 DEF r
<1>9. irp' \in [Irps -> IrpRecord] /\ PendingKept(p, R)
    BY <1>1, <1>3, <1>8, CommandedKept DEF IInv
<1>10. ChannelsKept(p, R)
    BY <1>2, <1>3, <1>5 DEF ChannelsKept
<1> HIDE DEF p, c
<1>11. PipeInv'
    BY <1>1, <1>3, <1>7, <1>9, <1>10, OnePipe DEF IInv
<1> QED BY <1>4, <1>11 DEF IInv

-----------------------------------------------------------------------------
(* The channel interrupt *)

\* A channel that executes has an allocated pipe with an IRP in flight, so the
\* interrupt finds one to return.
LEMMA SlotHasIrp ==
    ASSUME IInv, NEW p \in hw
    PROVE  /\ p \in Pipes /\ pipe[p] \in PipeRecord /\ Allocated(p)
           /\ pipe[p].state # "FREE" /\ pipe[p].inflight # NoIrp
    BY DEF IInv, PipeInv, ChannelHasIrp, Allocated

\* The result of the IRP in flight changes no pending IRP.
LEMMA DoneKept ==
    ASSUME IInv, NEW p \in Pipes, NEW R, NEW st \in Statuses, NEW I,
           R.pending = pipe[p].pending, irp' = Finished(irp, I, st)
    PROVE  irp' \in [Irps -> IrpRecord] /\ PendingKept(p, R)
<1>1. /\ irp' \in [Irps -> IrpRecord]
      /\ \A i \in Irps : /\ irp'[i].ptr = irp[i].ptr
                         /\ i \in I => irp'[i].flag = "DONE"
                         /\ i \notin I => irp'[i] = irp[i]
    BY FinishedOk DEF IInv, PipeInv
<1> QED BY <1>1 DEF PendingKept

\* _intr_hdlr_chan, when a transfer completes that nobody waits for.
LEMMA ChanDoneNextStep ==
    ASSUME IInv, NEW p \in Pipes, ChanDoneNext(p)
    PROVE  IInv'
<1> DEFINE q == DoneQueue(pipe[p])
           J == Finished(irp, {pipe[p].inflight}, "COMPLETED")
<1>1. /\ pipe[p] \in PipeRecord /\ Allocated(p) /\ pipe[p].inflight # NoIrp
    BY SlotHasIrp DEF ChanDoneNext, SlotDone
<1>2. /\ SameKind(pipe[p], q) /\ q \in PipeRecord
      /\ q.inflight = NoIrp /\ q.pending = pipe[p].pending
    BY <1>1, ChanDoneOk DEF SameKind
<1>3. RestInv' /\ UNCHANGED <<idle, active>>
    BY DEF IInv, RestInv, ChanDoneNext
<1>4. CASE HasNext(q)
    <2> DEFINE R == TakeNext(q)
               i == Head(q.pending)
    <2>1. /\ pipe' = [pipe EXCEPT ![p] = R]
          /\ irp' = InFlight(J, i)
          /\ hw' = hw
        BY <1>4 DEF ChanDoneNext, DoneIrps
    <2> HIDE DEF q
    <2>2. q.pending # <<>> /\ q.pending \in Seq(Irps)
        BY <1>2, <1>4, PipeFieldTypes DEF HasNext
    <2>3. /\ SameKind(q, R) /\ R.inflight \in Irps /\ i \in Irps
          /\ R.pending = Tail(q.pending)
          /\ Elems(q.pending) = {i} \cup Elems(R.pending)
        BY <1>2, <2>2, TakeNextOk, HeadTailElems
    <2>4. /\ J \in [Irps -> IrpRecord]
          /\ \A j \in Irps : /\ J[j].ptr = irp[j].ptr
                             /\ j \in {pipe[p].inflight} => J[j].flag = "DONE"
                             /\ j \notin {pipe[p].inflight} => J[j] = irp[j]
        BY FinishedOk DEF IInv, PipeInv, Statuses
    <2> HIDE DEF R, J, i
    <2>5. /\ irp' \in [Irps -> IrpRecord]
          /\ irp'[i].flag = "INFLIGHT"
          /\ \A j \in Irps : j # i => irp'[j] = J[j]
        BY <2>1, <2>3, <2>4 DEF InFlight, IrpRecord
    <2>6. PendingKept(p, R)
        BY <1>2, <2>3, <2>4, <2>5 DEF PendingKept
    <2>7. ChannelsKept(p, R)
        BY <1>1, <2>1, <2>3, NullAssumption DEF ChannelsKept
    <2>8. SameKind(pipe[p], R)
        BY <1>2, <2>3 DEF SameKind
    <2>9. PipeInv'
        BY <1>3, <2>1, <2>5, <2>6, <2>7, <2>8, OnePipe DEF IInv
    <2> QED BY <1>3, <2>9 DEF IInv
<1>5. CASE ~HasNext(q)
    <2>1. /\ pipe' = [pipe EXCEPT ![p] = q] /\ irp' = J /\ hw' = hw \ {p}
        BY <1>5 DEF ChanDoneNext, DoneIrps
    <2>2. irp' \in [Irps -> IrpRecord] /\ PendingKept(p, q)
        BY <1>2, <2>1, DoneKept DEF Statuses
    <2>3. ChannelsKept(p, q)
        BY <2>1 DEF ChannelsKept
    <2> HIDE DEF q
    <2>4. PipeInv'
        BY <1>2, <1>3, <2>1, <2>2, <2>3, OnePipe DEF IInv
    <2> QED BY <1>3, <2>4 DEF IInv
<1> QED BY <1>4, <1>5

\* An interrupt that returns the current IRP of a pipe and stops its channel.
LEMMA ChanStops ==
    ASSUME IInv, NEW p \in Pipes, NEW R, NEW st \in Statuses, NEW I,
           SameKind(pipe[p], R), R.pending = pipe[p].pending,
           pipe' = [pipe EXCEPT ![p] = R], irp' = Finished(irp, I, st),
           hw' = hw \ {p}, UNCHANGED <<idle, active>>
    PROVE  PipeInv'
<1>1. irp' \in [Irps -> IrpRecord] /\ PendingKept(p, R)
    BY DoneKept
<1>2. ChannelsKept(p, R)
    BY DEF ChannelsKept
<1> QED BY <1>1, <1>2, OnePipe DEF IInv

\* _intr_hdlr_chan, when a port command waits for the transfer: as many pipes as the
\* port counts are still to report.
LEMMA ChanDonePauseStep ==
    ASSUME IInv, NEW p \in Pipes, ChanDonePause(p)
    PROVE  IInv'
<1>1. /\ pipe[p] \in PipeRecord /\ pipe[p].inflight # NoIrp
    BY SlotHasIrp DEF ChanDonePause, SlotDone
<1>2. /\ SameKind(pipe[p], PausedOnDone(pipe[p]))
      /\ PausedOnDone(pipe[p]).pending = pipe[p].pending
    BY <1>1, PausedOnDoneOk
<1>3. /\ pipe' = [pipe EXCEPT ![p] = PausedOnDone(pipe[p])]
      /\ irp' = Finished(irp, {pipe[p].inflight}, "COMPLETED")
      /\ hw' = hw \ {p} /\ UNCHANGED <<idle, active>>
    BY DEF ChanDonePause, DoneIrps
<1>4. PipeInv'
    BY <1>2, <1>3, ChanStops DEF Statuses
<1>5. RestInv'
    <2>1. port.waiting_all /\ port.num_waiting \in Nat /\ port.num_waiting > 0
        BY DEF IInv, RestInv, PortRecord, ChanDonePause
    <2>2. /\ port' \in PortRecord
          /\ port'.waiting_all => port'.num_waiting > 0
        <3>1. \A n \in Nat, b \in BOOLEAN :
                 LET x == [port EXCEPT !.num_waiting = n, !.waiting_all = b]
                 IN  x \in PortRecord /\ x.num_waiting = n /\ x.waiting_all = b
            BY DEF IInv, RestInv, PortRecord
        <3>2. CASE port.num_waiting = 1
            <4>1. port' = [port EXCEPT !.num_waiting = port.num_waiting - 1,
                                       !.waiting_all = FALSE]
                BY <3>2 DEF ChanDonePause
            <4>2. port.num_waiting - 1 \in Nat
                BY <2>1
            <4> QED BY <3>1, <4>1, <4>2
        <3>3. CASE port.num_waiting # 1
            <4>1. port' = [port EXCEPT !.num_waiting = port.num_waiting - 1,
                                       !.waiting_all = TRUE]
                BY <3>3 DEF ChanDonePause
            <4>2. port.num_waiting - 1 \in Nat /\ port.num_waiting - 1 > 0
                BY <2>1, <3>3
            <4> QED BY <3>1, <4>1, <4>2
        <3> QED BY <3>2, <3>3
    <2>3. notified' \subseteq Tasks
        BY DEF IInv, RestInv, PortRecord, ChanDonePause, Notify
    <2> QED BY <2>2, <2>3 DEF IInv, RestInv, ChanDonePause
<1> QED BY <1>4, <1>5 DEF IInv

\* _intr_hdlr_chan, when a pipe command waits for the transfer.
LEMMA ChanDoneCommandStep ==
    ASSUME IInv, NEW p \in Pipes, ChanDoneCommand(p)
    PROVE  IInv'
<1> DEFINE R == [DoneQueue(pipe[p]) EXCEPT !.waiting = FALSE]
<1>1. /\ pipe[p] \in PipeRecord /\ pipe[p].inflight # NoIrp
    BY SlotHasIrp DEF ChanDoneCommand, SlotDone
<1>2. SameKind(pipe[p], R) /\ R.pending = pipe[p].pending
    BY <1>1, PausedOnDoneOk
<1>3. /\ pipe' = [pipe EXCEPT ![p] = R]
      /\ irp' = Finished(irp, {pipe[p].inflight}, "COMPLETED")
      /\ hw' = hw \ {p} /\ UNCHANGED <<idle, active>>
    BY DEF ChanDoneCommand, DoneIrps
<1>4. PipeInv'
    BY <1>2, <1>3, ChanStops DEF Statuses
<1>5. pipe[p].waiter \in Tasks
    BY <1>1, PipeFieldTypes DEF ChanDoneCommand
<1>6. RestInv'
    BY <1>5 DEF IInv, RestInv, ChanDoneCommand, Notify
<1> QED BY <1>4, <1>6 DEF IInv

\* _intr_hdlr_chan, when a transfer fails.
LEMMA ChanErrorStep ==
    ASSUME IInv, NEW p \in Pipes, NEW e \in ErrorEvents, ChanError(p, e)
    PROVE  IInv'
<1> DEFINE R == [ReturnCurIrp(pipe[p]) EXCEPT !.state = "HALTED", !.last_event = e]
<1>1. /\ pipe[p] \in PipeRecord /\ pipe[p].inflight # NoIrp /\ pipe[p].state # "FREE"
    BY SlotHasIrp DEF ChanError
<1>2. SameKind(pipe[p], R) /\ R.pending = pipe[p].pending
    BY <1>1, ChanErrorOk
<1>3. /\ pipe' = [pipe EXCEPT ![p] = R]
      /\ irp' = Finished(irp, {pipe[p].inflight}, e)
      /\ hw' = hw \ {p} /\ UNCHANGED <<idle, active>>
    BY DEF ChanError
<1>4. PipeInv'
    BY <1>2, <1>3, ChanStops DEF Statuses
<1>5. RestInv'
    BY DEF IInv, RestInv, ChanError
<1> QED BY <1>4, <1>5 DEF IInv

-----------------------------------------------------------------------------
(* The port *)

\* A step that changes every pipe in its flags only.
LEMMA PauseStep ==
    ASSUME IInv, PausesAll
    PROVE  PipeInv'
<1> DEFINE Q == PausedPipes
<1>1. pipe' = Q /\ UNCHANGED <<irp, idle, active, hw>>
    BY DEF PausesAll
<1>2. /\ Q \in [Pipes -> PipeRecord]
      /\ \A r \in Pipes : /\ Q[r].state = pipe[r].state /\ Q[r].pending = pipe[r].pending
                          /\ Q[r].done = pipe[r].done /\ Q[r].inflight = pipe[r].inflight
    <2> DEFINE W(r) == [pipe[r] EXCEPT !.waiting = TRUE]
               P(r) == [pipe[r] EXCEPT !.paused = TRUE]
    <2>1. \A r \in Pipes : Q[r] = W(r) \/ Q[r] = P(r) \/ Q[r] = pipe[r]
        BY DEF PausedPipes
    <2>2. \A r \in Pipes :
             /\ pipe[r] \in PipeRecord
             /\ W(r) \in PipeRecord
             /\ W(r).state = pipe[r].state /\ W(r).pending = pipe[r].pending
             /\ W(r).done = pipe[r].done /\ W(r).inflight = pipe[r].inflight
             /\ P(r) \in PipeRecord
             /\ P(r).state = pipe[r].state /\ P(r).pending = pipe[r].pending
             /\ P(r).done = pipe[r].done /\ P(r).inflight = pipe[r].inflight
        BY DEF IInv, PipeInv, PipeRecord
    <2> HIDE DEF W, P
    <2>3. \A r \in Pipes :
             /\ Q[r] \in PipeRecord
             /\ Q[r].state = pipe[r].state /\ Q[r].pending = pipe[r].pending
             /\ Q[r].done = pipe[r].done /\ Q[r].inflight = pipe[r].inflight
        BY <2>1, <2>2
    <2>4. Q = [r \in Pipes |-> Q[r]]
        BY DEF PausedPipes
    <2> HIDE DEF Q
    <2> QED BY <2>3, <2>4
<1> HIDE DEF Q
<1>3. \A r \in Pipes : /\ Allocated(r)' <=> Allocated(r)
                       /\ Queue(pipe'[r]) = Queue(pipe[r])
    BY <1>1, <1>2 DEF Allocated, Queue, InFlightSeq
<1>4. Lists'
    <2>1. {r \in Pipes : Allocated(r)'} = {r \in Pipes : Allocated(r)}
        BY <1>3
    <2>2. \A r \in Elems(active) : r \in Pipes
        BY DEF IInv, PipeInv, Lists
    <2> QED BY <1>1, <1>3, <2>1, <2>2 DEF IInv, PipeInv, Lists
<1>5. FreeIsEmpty'
    BY <1>3 DEF IInv, PipeInv, FreeIsEmpty
<1>6. PendingPlaced'
    BY <1>1, <1>2 DEF IInv, PipeInv, PendingPlaced
<1>7. ChannelHasIrp'
    BY <1>1, <1>2, <1>3 DEF IInv, PipeInv, ChannelHasIrp
<1> QED BY <1>1, <1>2, <1>4, <1>5, <1>6, <1>7 DEF IInv, PipeInv

\* num_pipes_waiting_pause is not zero while a task waits for the pipes.
LEMMA PauseAndWaitStep ==
    ASSUME IInv, NEW t \in Tasks, PauseAndWait(t)
    PROVE  IInv'
<1>1. PipeInv'
    BY PauseStep DEF PauseAndWait
<1>2. Cardinality(InFlightPipes) \in Nat /\ Cardinality(InFlightPipes) > 0
    <2>1. IsFiniteSet(Elems(active))
        <3>1. active \in [1 .. Len(active) -> Pipes] /\ Len(active) \in Nat
            BY LenProperties DEF IInv, PipeInv
        <3>2. IsFiniteSet(1 .. Len(active))
            BY <3>1, FS_Interval
        <3>3. active \in Surjection(1 .. Len(active), Elems(active))
            BY <3>1 DEF Surjection, Elems
        <3> QED BY <3>2, <3>3, FS_Surjection
    <2>2. IsFiniteSet(InFlightPipes)
        BY <2>1, FS_Subset DEF InFlightPipes
    <2> QED BY <2>2, FS_CardinalityType, FS_EmptySet DEF PauseAndWait
<1>3. RestInv'
    <2>1. /\ port' \in PortRecord
          /\ port'.num_waiting > 0
        BY <1>2 DEF IInv, RestInv, PauseAndWait, PortRecord
    <2> QED BY <2>1 DEF IInv, RestInv, PauseAndWait, PausesAll
<1> QED BY <1>1, <1>3 DEF IInv

\* _port_pause_all_pipes, when no pipe has to be waited for.
LEMMA PauseAtOnceStep ==
    ASSUME IInv, PauseAtOnce
    PROVE  IInv'
<1>1. PipeInv'
    BY PauseStep DEF PauseAtOnce
<1>2. RestInv'
    BY DEF IInv, RestInv, PauseAtOnce, PausesAll, PortRecord, PortStates
<1> QED BY <1>1, <1>2 DEF IInv

\* _port_unpause_all_pipes starts the pipes that have something pending.
LEMMA UnpauseAllStep ==
    ASSUME IInv, UnpauseAll
    PROVE  IInv'
<1> DEFINE starts == {p \in Elems(active) : HasNext(pipe[p])}
           next == {Head(pipe[p].pending) : p \in starts}
<1>1. /\ pipe' = [p \in Pipes |-> Unpaused(p)]
      /\ irp' = [i \in Irps |-> IF i \in next THEN [irp[i] EXCEPT !.flag = "INFLIGHT"]
                                              ELSE irp[i]]
      /\ hw' = hw \cup starts /\ UNCHANGED <<idle, active>>
      /\ InFlightPipes = {}
    BY DEF UnpauseAll
<1>2. Elems(active) \subseteq Pipes
    BY DEF IInv, PipeInv, Lists
<1> HIDE DEF starts, next
<1>3. ASSUME NEW p \in Pipes
      PROVE  /\ SameKind(pipe[p], Unpaused(p))
             /\ p \notin starts => /\ Unpaused(p).pending = pipe[p].pending
                                   /\ Unpaused(p).inflight = pipe[p].inflight
             /\ p \in starts => /\ Unpaused(p).inflight \in Irps
                                /\ Elems(pipe[p].pending) =
                                     {Head(pipe[p].pending)} \cup Elems(Unpaused(p).pending)
    <2> DEFINE q == [pipe[p] EXCEPT !.paused = FALSE]
    <2>1. pipe[p] \in PipeRecord
        BY DEF IInv, PipeInv
    <2>2. /\ q \in PipeRecord /\ q.state = pipe[p].state /\ q.pending = pipe[p].pending
          /\ q.done = pipe[p].done /\ q.inflight = pipe[p].inflight
        BY <2>1 DEF PipeRecord
    <2>3. Unpaused(p) = IF p \in Elems(active) /\ HasNext(q) THEN TakeNext(q) ELSE q
        BY DEF Unpaused
    <2> HIDE DEF q
    <2>4. SameKind(pipe[p], q)
        BY <2>1, <2>2, FlagsOk
    <2>5. HasNext(q) <=> HasNext(pipe[p])
        BY <2>2 DEF HasNext
    <2>6. CASE p \in starts
        <3>1. Unpaused(p) = TakeNext(q) /\ q.pending # <<>>
            BY <2>3, <2>5, <2>6 DEF starts, HasNext
        <3>2. /\ SameKind(q, TakeNext(q)) /\ TakeNext(q).inflight \in Irps
              /\ TakeNext(q).pending = Tail(q.pending)
            BY <2>2, <3>1, TakeNextOk
        <3>3. Elems(q.pending) = {Head(q.pending)} \cup Elems(Tail(q.pending))
            BY <2>2, <3>1, PipeFieldTypes, HeadTailElems
        <3> QED BY <2>2, <2>4, <2>6, <3>1, <3>2, <3>3 DEF SameKind
    <2>7. CASE p \notin starts
        BY <2>2, <2>3, <2>4, <2>5, <2>7 DEF starts
    <2> QED BY <2>6, <2>7
<1>4. /\ pipe' \in [Pipes -> PipeRecord]
      /\ \A p \in Pipes : /\ pipe'[p] = Unpaused(p)
                          /\ Allocated(p)' <=> Allocated(p)
    BY <1>1, <1>3 DEF SameKind, Allocated
<1>5. Lists'
    <2>1. {r \in Pipes : Allocated(r)'} = {r \in Pipes : Allocated(r)}
        BY <1>4
    <2>2. \A r \in Elems(active) : Queue(pipe'[r]) # <<>>
        BY <1>2, <1>3, <1>4 DEF IInv, PipeInv, Lists, SameKind
    <2> QED BY <1>1, <2>1, <2>2 DEF IInv, PipeInv, Lists
<1>6. FreeIsEmpty'
    BY <1>3, <1>4 DEF IInv, PipeInv, FreeIsEmpty, SameKind, Allocated
<1>7. irp' \in [Irps -> IrpRecord]
    BY <1>1 DEF IInv, PipeInv, IrpRecord
<1>8. PendingPlaced'
    <2> SUFFICES ASSUME NEW i \in Irps, irp'[i].flag = "PENDING"
                 PROVE  /\ irp'[i].ptr \in Pipes
                        /\ i \in Elems(pipe'[irp'[i].ptr].pending)
        BY DEF PendingPlaced
    <2>1. i \notin next /\ irp'[i] = irp[i]
        BY <1>1 DEF IInv, PipeInv, IrpRecord
    <2> DEFINE p == irp[i].ptr
    <2>2. p \in Pipes /\ i \in Elems(pipe[p].pending)
        BY <2>1 DEF IInv, PipeInv, PendingPlaced
    <2>3. p \in starts => i # Head(pipe[p].pending)
        BY <2>1 DEF next
    <2> QED BY <1>3, <1>4, <2>1, <2>2, <2>3
<1>9. hw' \subseteq Pipes
    BY <1>1, <1>2 DEF IInv, PipeInv, starts
<1>10. ChannelHasIrp'
    <2> SUFFICES ASSUME NEW p \in hw'
                 PROVE  Allocated(p)' /\ pipe'[p].inflight # NoIrp
        BY DEF ChannelHasIrp
    <2>1. CASE p \in starts
        BY <1>2, <1>3, <1>4, <1>9, <2>1, NullAssumption DEF starts, IInv, PipeInv, Lists
    <2>2. CASE p \notin starts
        BY <1>1, <1>3, <1>4, <1>9, <2>2 DEF IInv, PipeInv, ChannelHasIrp
    <2> QED BY <2>1, <2>2
<1>11. PipeInv'
    BY <1>1, <1>4, <1>5, <1>6, <1>7, <1>8, <1>9, <1>10 DEF IInv, PipeInv
<1>12. RestInv'
    BY DEF IInv, RestInv, UnpauseAll, PortRecord, PortStates
<1> QED BY <1>11, <1>12 DEF IInv

-----------------------------------------------------------------------------
(* The walk of _port_invalidate_all_pipes *)

\* The pipes the walk can reach are allocated.
LEMMA WalkReaches ==
    ASSUME IInv
    PROVE  /\ First(idle) # NoPipe => First(idle) \in Elems(idle)
           /\ First(active) # NoPipe => First(active) \in Elems(active)
           /\ \A p \in Pipes : Allocated(p) /\ Successor(p) # NoPipe =>
                  Successor(p) \in Elems(idle) \cup Elems(active)
<1>1. ASSUME NEW s \in Seq(Pipes), First(s) # NoPipe
      PROVE  First(s) \in Elems(s)
    <2>1. s # <<>> /\ First(s) = Head(s)
        BY <1>1 DEF First
    <2> QED BY <2>1, HeadTailElems
<1>2. ASSUME NEW p \in Pipes, Allocated(p), Successor(p) # NoPipe
      PROVE  Successor(p) \in Elems(idle) \cup Elems(active)
    <2> DEFINE s == IF p \in Elems(idle) THEN idle ELSE active
               n == IndexIn(s, p) + 1
    <2>1. n \in DOMAIN s /\ Successor(p) = s[n]
        BY <1>2 DEF Successor
    <2>2. s[n] \in Elems(s)
        BY <2>1 DEF Elems
    <2>3. Elems(s) \subseteq Elems(idle) \cup Elems(active)
        OBVIOUS
    <2> HIDE DEF s, n
    <2> QED BY <2>1, <2>2, <2>3
<1> QED BY <1>1, <1>2 DEF IInv, PipeInv

\* One step of _port_invalidate_all_pipes, at a pipe that is allocated or at the end.
LEMMA VisitStep ==
    ASSUME IInv, NEW v,
           v.cur # NoPipe => v.cur \in Pipes /\ Allocated(v.cur),
           v \in [phase : {"off", "active", "idle"}, cur : Pipes \cup {NoPipe}],
           Visit(v)
    PROVE  /\ PipeInv'
           /\ notified' \subseteq Tasks
           /\ inval' \in [phase : {"off", "active", "idle"}, cur : Pipes \cup {NoPipe}]
           /\ inval'.phase # "off" => inval'.cur \in Pipes
<1> DEFINE p == v.cur
           q == Invalidated(pipe[p])
<1>1. UNCHANGED <<idle, active>>
    BY DEF Visit
<1>2. CASE p = NoPipe
    <2>1. inval' = [phase |-> "off", cur |-> NoPipe] /\ UNCHANGED <<pipe, irp, hw, notified>>
        BY <1>2 DEF Visit
    <2>2. PipeInv'
        BY <1>1, <2>1, NoPipeChange DEF IInv
    <2> QED BY <2>1, <2>2 DEF IInv, RestInv
<1>3. CASE p # NoPipe
    <2>1. p \in Pipes /\ pipe[p] \in PipeRecord /\ pipe[p].state # "FREE"
        BY <1>3 DEF IInv, PipeInv, Allocated
    <2>2. /\ SameKind(pipe[p], q) /\ q \in PipeRecord
          /\ q.inflight = pipe[p].inflight /\ q.pending = pipe[p].pending
        BY <2>1, InvalidatedOk DEF SameKind
    <2>3. inval' = v
        BY <1>3 DEF Visit
    <2>4. CASE InvalidateActive(p)
        <3>1. /\ pipe' = [pipe EXCEPT ![p] = Emptied(q)]
              /\ irp' = Finished(irp, Elems(InFlightSeq(q) \o q.pending), "NO_DEVICE")
              /\ hw' = hw \ {p}
              /\ IF q.waiter = NoTask THEN UNCHANGED notified ELSE Notify(q.waiter)
            BY <2>4 DEF InvalidateActive
        <3> HIDE DEF q
        <3>2. SameKind(q, Emptied(q)) /\ Emptied(q).pending = <<>>
            BY <2>2, EmptiedOk
        <3>3. SameKind(pipe[p], Emptied(q))
            BY <2>2, <3>2 DEF SameKind
        <3> DEFINE I == Elems(InFlightSeq(q) \o q.pending)
        <3>4. Elems(pipe[p].pending) \subseteq I
            <4>1. /\ q.pending \in Seq(Irps) /\ q.inflight \in Irps \cup {NoIrp}
                BY <2>2, PipeFieldTypes
            <4>2. InFlightSeq(q) \in Seq(Irps)
                BY <4>1 DEF InFlightSeq
            <4> QED BY <2>2, <4>1, <4>2, ConcatElems
        <3> HIDE DEF I
        <3>5. /\ irp' \in [Irps -> IrpRecord]
              /\ \A i \in Irps : /\ irp'[i].ptr = irp[i].ptr
                                 /\ i \in I => irp'[i].flag = "DONE"
                                 /\ i \notin I => irp'[i] = irp[i]
            BY <3>1, FinishedOk DEF IInv, PipeInv, Statuses, I
        <3>6. PendingKept(p, Emptied(q))
            BY <3>4, <3>5 DEF PendingKept
        <3>7. ChannelsKept(p, Emptied(q))
            BY <3>1 DEF ChannelsKept
        <3> HIDE DEF p
        <3>8. PipeInv'
            BY <1>1, <2>1, <3>1, <3>3, <3>5, <3>6, <3>7, OnePipe DEF IInv
        <3>9. notified' \subseteq Tasks
            <4>1. q.waiter \in Tasks \cup {NoTask}
                BY <2>2, PipeFieldTypes
            <4> QED BY <3>1, <4>1 DEF IInv, RestInv, Notify
        <3> QED BY <2>1, <2>3, <3>8, <3>9 DEF p
    <2>5. CASE InvalidateIdle(p)
        <3>1. pipe' = [pipe EXCEPT ![p] = q] /\ UNCHANGED <<irp, hw, notified>>
            BY <2>5 DEF InvalidateIdle
        <3>2. irp' \in [Irps -> IrpRecord] /\ PendingKept(p, q) /\ ChannelsKept(p, q)
            BY <2>2, <3>1 DEF PendingKept, ChannelsKept, IInv, PipeInv
        <3> HIDE DEF q
        <3>3. notified' \subseteq Tasks
            BY <3>1 DEF IInv, RestInv
        <3> HIDE DEF p
        <3>4. PipeInv'
            BY <1>1, <2>1, <2>2, <3>1, <3>2, OnePipe DEF IInv
        <3> QED BY <2>1, <2>3, <3>3, <3>4 DEF p
    <2> QED BY <1>3, <2>4, <2>5 DEF Visit
<1> QED BY <1>2, <1>3

-----------------------------------------------------------------------------
(* Every step *)

\* The steps that change no pipe, IRP or list.
LEMMA QuietStep ==
    ASSUME IInv,
           \/ \E t \in Tasks, p \in Pipes, i \in Irps : EnqueueCheck(t, p, i)
           \/ \E t \in Tasks : \/ EnqueueFreed(t) \/ EnqueueReject(t) \/ CommandWake(t)
                               \/ ResumeFreed(t) \/ ResumeRunning(t) \/ ResumeBusy(t)
                               \/ PortWait(t)
           \/ \E t \in Tasks, p \in Pipes : DequeueMisplaced(t, p) \/ ClearBusy(t, p)
           \/ \E p \in Pipes : ChanIgnored(p) \/ ChanDoneOrphan(p)
           \/ PortEnabled \/ PortWake \/ PortReturn \/ PortOrphan \/ UnpauseBusy
           \/ InvalidateFreed
           \/ \E s \in LossPortStates : PortLost(s)
           \/ \E s \in TaskPortStates : PortSet(s)
    PROVE  IInv'
<1> USE DEF IInv
<1>1. ASSUME NEW t \in Tasks, NEW p \in Pipes, NEW i \in Irps, EnqueueCheck(t, p, i)
      PROVE  IInv'
    <2>1. PipeInv'
        BY <1>1, NoPipeChange DEF EnqueueCheck
    <2>2. RestInv'
        BY <1>1 DEF RestInv, EnqueueCheck, CallRecord, Ops
    <2> QED BY <2>1, <2>2
<1>2. ASSUME NEW l, Fail(l), l \in {"tailq", "use_after_free", "no_waiter",
                                    "inflight_not_null", "chan_not_halted"}
      PROVE  IInv'
    <2>1. PipeInv'
        BY <1>2, NoPipeChange DEF Fail
    <2>2. RestInv'
        BY <1>2 DEF RestInv, Fail
    <2> QED BY <2>1, <2>2
<1>3. ASSUME NEW t \in Tasks, EnqueueReject(t)
      PROVE  IInv'
    <2>1. PipeInv'
        BY <1>3, NoPipeChange DEF EnqueueReject
    <2>2. RestInv'
        BY <1>3 DEF RestInv, EnqueueReject, Return, IdleCall, CallRecord, Ops
    <2> QED BY <2>1, <2>2
<1>4. ASSUME NEW t \in Tasks, CommandWake(t)
      PROVE  IInv'
    <2>1. PipeInv'
        BY <1>4, NoPipeChange DEF CommandWake
    <2>2. RestInv'
        BY <1>4 DEF RestInv, CommandWake, CallRecord
    <2> QED BY <2>1, <2>2
<1>5. ASSUME NEW p \in Pipes, ChanIgnored(p)
      PROVE  IInv'
    <2>1. PipeInv'
        BY <1>5, NoPipeChange DEF ChanIgnored
    <2>2. RestInv'
        BY <1>5 DEF RestInv, ChanIgnored
    <2> QED BY <2>1, <2>2
<1>6. ASSUME PortUnchanged
      PROVE  PipeInv'
    BY <1>6, NoPipeChange DEF PortUnchanged
<1>7. ASSUME PortUnchanged, port' \in PortRecord, notified' \subseteq Tasks,
             port'.waiting_all => port'.num_waiting > 0
      PROVE  IInv'
    <2>1. RestInv'
        BY <1>7 DEF RestInv, PortUnchanged
    <2> QED BY <1>6, <1>7, <2>1
<1>8. port \in PortRecord /\ notified \subseteq Tasks
    BY DEF RestInv
<1>9. ASSUME NEW t \in Tasks, PortWait(t)
      PROVE  IInv'
    BY <1>7, <1>8, <1>9 DEF RestInv, PortWait, PortRecord
<1>10. ASSUME PortEnabled
       PROVE  IInv'
    BY <1>7, <1>8, <1>10 DEF RestInv, PortEnabled, PortRecord, PortStates
<1>11. ASSUME PortWake
       PROVE  IInv'
    BY <1>7, <1>8, <1>11 DEF RestInv, PortWake, PortRecord
<1>12. ASSUME PortReturn
       PROVE  IInv'
    BY <1>7, <1>8, <1>12 DEF RestInv, PortReturn, PortRecord, PortStates
<1>13. ASSUME NEW s \in LossPortStates, PortLost(s)
       PROVE  IInv'
    <2>1. s \in PortStates
        BY ParameterAssumption DEF PortStates
    <2>2. /\ port' \in PortRecord
          /\ port'.waiting_all => port'.num_waiting > 0
        BY <1>8, <1>13, <2>1 DEF RestInv, PortLost, PortRecord
    <2>3. notified' \subseteq Tasks
        BY <1>8, <1>13 DEF PortLost, PortRecord, Notify
    <2> QED BY <1>7, <1>13, <2>2, <2>3 DEF PortLost
<1>14. ASSUME NEW s \in TaskPortStates, PortSet(s)
       PROVE  IInv'
    <2>1. s \in PortStates
        BY ParameterAssumption DEF PortStates
    <2> QED BY <1>7, <1>8, <1>14, <2>1 DEF RestInv, PortSet, PortRecord
<1>15. CASE \E t \in Tasks : EnqueueFreed(t) \/ ResumeFreed(t) \/ ResumeRunning(t)
                             \/ ResumeBusy(t)
    BY <1>2, <1>15 DEF EnqueueFreed, ResumeFreed, ResumeRunning, ResumeBusy
<1>16. CASE \E t \in Tasks, p \in Pipes : DequeueMisplaced(t, p) \/ ClearBusy(t, p)
    BY <1>2, <1>16 DEF DequeueMisplaced, ClearBusy
<1>17. CASE \E p \in Pipes : ChanDoneOrphan(p)
    BY <1>2, <1>17 DEF ChanDoneOrphan
<1>18. CASE PortOrphan \/ UnpauseBusy \/ InvalidateFreed
    BY <1>2, <1>18 DEF PortOrphan, UnpauseBusy, InvalidateFreed
<1> QED BY <1>1, <1>3, <1>4, <1>5, <1>9, <1>10, <1>11, <1>12, <1>13, <1>14, <1>15, <1>16,
           <1>17, <1>18

\* _port_invalidate_all_pipes keeps the invariant, from its first pipe to its last.
LEMMA InvalidateKeeps ==
    ASSUME IInv, InvalidateBegin \/ InvalidateNext
    PROVE  IInv'
<1> DEFINE V == [phase : {"off", "active", "idle"}, cur : Pipes \cup {NoPipe}]
<1>1. Elems(idle) \cup Elems(active) = {p \in Pipes : Allocated(p)}
    BY DEF IInv, PipeInv, Lists
<1>2. ASSUME NEW ph \in {"active", "idle"}, NEW c,
             c # NoPipe => c \in Elems(idle) \cup Elems(active)
      PROVE  LET v == WalkTo(ph, c)
             IN  v \in V /\ (v.cur # NoPipe => v.cur \in Pipes /\ Allocated(v.cur))
    <2>1. First(idle) # NoPipe => First(idle) \in Elems(idle)
        BY WalkReaches
    <2> QED BY <1>1, <1>2, <2>1 DEF WalkTo
<1>3. CASE InvalidateBegin
    <2> DEFINE v == WalkTo("active", First(active))
    <2>1. First(active) # NoPipe => First(active) \in Elems(idle) \cup Elems(active)
        BY WalkReaches
    <2>2. v \in V /\ (v.cur # NoPipe => v.cur \in Pipes /\ Allocated(v.cur))
        BY <1>2, <2>1
    <2>3. Visit(v)
        BY <1>3 DEF InvalidateBegin
    <2> HIDE DEF v
    <2>4. /\ PipeInv' /\ notified' \subseteq Tasks /\ inval' \in V
          /\ inval'.phase # "off" => inval'.cur \in Pipes
        BY <2>2, <2>3, VisitStep
    <2>5. /\ port' \in PortRecord
          /\ port'.waiting_all => port'.num_waiting > 0
        BY <1>3 DEF IInv, RestInv, InvalidateBegin, PortRecord
    <2>6. UNCHANGED <<call, fault>>
        BY <2>3 DEF Visit
    <2> QED BY <2>4, <2>5, <2>6 DEF IInv, RestInv
<1>4. CASE InvalidateNext
    <2> DEFINE v == WalkTo(inval.phase, Successor(inval.cur))
    <2>1. inval.cur \in Pipes /\ Allocated(inval.cur) /\ inval.phase \in {"active", "idle"}
        BY <1>4 DEF IInv, RestInv, InvalidateNext, NoWalk
    <2>2. Successor(inval.cur) # NoPipe =>
             Successor(inval.cur) \in Elems(idle) \cup Elems(active)
        BY <2>1, WalkReaches
    <2>3. v \in V /\ (v.cur # NoPipe => v.cur \in Pipes /\ Allocated(v.cur))
        BY <1>2, <2>1, <2>2
    <2>4. Visit(v) /\ UNCHANGED port
        BY <1>4 DEF InvalidateNext
    <2> HIDE DEF v
    <2>5. /\ PipeInv' /\ notified' \subseteq Tasks /\ inval' \in V
          /\ inval'.phase # "off" => inval'.cur \in Pipes
        BY <2>3, <2>4, VisitStep
    <2>6. UNCHANGED <<call, fault>>
        BY <2>4 DEF Visit
    <2> QED BY <2>4, <2>5, <2>6 DEF IInv, RestInv
<1> QED BY <1>3, <1>4

\* The driver starts without pipes, and so with empty lists.
LEMMA InitHolds ==
    ASSUME PipeInit
    PROVE  IInv
<1> DEFINE a == CHOOSE b \in Addrs : TRUE
<1>1. a \in Addrs
    BY ParameterAssumption
<1>2. pipe = [p \in Pipes |-> NewPipe("FREE", a)]
    BY DEF PipeInit
<1> HIDE DEF a
<1>3. /\ pipe \in [Pipes -> PipeRecord]
      /\ \A p \in Pipes : ~Allocated(p) /\ Queue(pipe[p]) = <<>>
    BY <1>1, <1>2, NewPipeOk DEF Allocated
<1>4. irp \in [Irps -> IrpRecord] /\ \A i \in Irps : irp[i].flag = "IDLE"
    BY DEF PipeInit, NewIrp, IrpRecord, Statuses
<1>5. /\ idle = <<>> /\ active = <<>> /\ hw = {}
      /\ Elems(idle) = {} /\ Elems(active) = {}
      /\ idle \in Seq(Pipes) /\ active \in Seq(Pipes)
      /\ Distinct(idle) /\ Distinct(active)
    BY EmptySeq DEF PipeInit, Elems, Distinct
<1>6. PipeInv
    BY <1>3, <1>4, <1>5 DEF PipeInv, Lists, FreeIsEmpty, PendingPlaced, ChannelHasIrp
<1>7. call \in [Tasks -> CallRecord] /\ \A t \in Tasks : call[t].op = "none"
    BY DEF PipeInit, IdleCall, CallRecord, Ops
<1>8. port \in PortRecord /\ ~port.waiting_all
    <2>1. PICK s \in {"ENABLED", "NOT_POWERED"} :
             port = [state |-> s, conn |-> s = "ENABLED", waiting_all |-> FALSE,
                     num_waiting |-> 0, waiter |-> NoTask, woken |-> FALSE]
        BY DEF PipeInit
    <2>2. \A b \in BOOLEAN :
             LET x == [state |-> s, conn |-> b, waiting_all |-> FALSE,
                       num_waiting |-> 0, waiter |-> NoTask, woken |-> FALSE]
             IN  x \in PortRecord /\ ~x.waiting_all
        BY DEF PortRecord, PortStates
    <2>3. (s = "ENABLED") \in BOOLEAN
        OBVIOUS
    <2> QED BY <2>1, <2>2, <2>3, Zenon
<1>9. RestInv
    BY <1>7, <1>8 DEF RestInv, PipeInit
<1> QED BY <1>6, <1>9 DEF IInv

\* Every step keeps the invariant.
LEMMA NextKeeps ==
    ASSUME IInv, [PipeNext]_vars
    PROVE  IInv'
<1>1. CASE UNCHANGED vars
    <2>1. PipeInv'
        BY <1>1, NoPipeChange DEF IInv, vars
    <2>2. RestInv'
        BY <1>1 DEF IInv, RestInv, vars
    <2> QED BY <2>1, <2>2 DEF IInv
<1>2. ASSUME NEW t \in Tasks, CallStep(t)
      PROVE  IInv'
    BY <1>2, QuietStep, EnqueueStartStep, EnqueuePendStep, ResumeInvalidStep, ResumeDoneStep
       DEF CallStep
<1>3. ASSUME NEW t \in Tasks, ClientStep(t)
      PROVE  IInv'
    <2>1. CASE \E p \in Pipes, i \in Irps : EnqueueCheck(t, p, i)
        BY <2>1, QuietStep
    <2>2. CASE \E p \in Pipes : Dequeue(t, p) \/ DequeueMisplaced(t, p)
        BY <2>2, QuietStep, DequeueStep
    <2>3. CASE \E i \in Irps : AbortIrp(t, i)
        BY <2>3, AbortIrpStep
    <2>4. CASE \E p \in Pipes : Alloc(t, p) \/ FreePipe(t, p) \/ GetEvent(t, p)
        BY <2>4, AllocStep, FreePipeStep, GetEventStep
    <2>5. CASE \E p \in Pipes, a \in Addrs : Update(t, p, a)
        BY <2>5, UpdateStep
    <2>6. CASE \E p \in Pipes, c \in Blocking : CommandNow(t, p, c) \/ CommandBlock(t, p, c)
        BY <2>6, CommandNowStep, CommandBlockStep
    <2>7. CASE \E p \in Pipes : CommandClear(t, p) \/ ClearBusy(t, p)
        BY <2>7, QuietStep, CommandClearStep
    <2> QED BY <1>2, <1>3, <2>1, <2>2, <2>3, <2>4, <2>5, <2>6, <2>7 DEF ClientStep
<1>4. ASSUME NEW p \in Pipes, ChanStep(p)
      PROVE  IInv'
    BY <1>4, QuietStep, ChanDoneNextStep, ChanDonePauseStep, ChanDoneCommandStep, ChanErrorStep
       DEF ChanStep
<1>5. ASSUME PortStep
      PROVE  IInv'
    BY <1>5, QuietStep, PauseAndWaitStep, PauseAtOnceStep, UnpauseAllStep, InvalidateKeeps
       DEF PortStep
<1> QED BY <1>1, <1>3, <1>4, <1>5 DEF PipeNext

-----------------------------------------------------------------------------
(* The theorems *)

\* The invariant holds in every state the driver reaches.
THEOREM Invariant == PipeSpec => []IInv
<1>1. PipeInit => IInv
    BY InitHolds
<1>2. IInv /\ [PipeNext]_vars => IInv'
    BY NextKeeps
<1> QED BY <1>1, <1>2, PTL DEF PipeSpec

\* Every variable keeps its type: no queue operation of the driver returns anything
\* but a queue of IRPs, no counter goes below zero, and every pointer that is followed
\* points to an object.
THEOREM TypeCorrect == PipeSpec => []TypeOK
<1>1. IInv => TypeOK
    BY DEF IInv, PipeInv, RestInv, TypeOK
<1> QED BY <1>1, Invariant, PTL

\* The interrupt of an executing channel finds an IRP to give its result to, whatever
\* the clients and the port did since the transfer was started.
THEOREM ChannelsHaveIrps == PipeSpec => []ChannelHasIrp
<1>1. IInv => ChannelHasIrp
    BY DEF IInv, PipeInv
<1> QED BY <1>1, Invariant, PTL

\* The port's two lists hold every allocated pipe once, so that their lengths are
\* num_pipes_idle and num_pipes_queued, and hcd_pipe_free and hcd_irp_enqueue find a
\* pipe without IRPs in the idle list they remove it from.
THEOREM ListsCorrect == PipeSpec => []PortLists
<1>1. IInv => PortLists
    <2> SUFFICES ASSUME IInv
                 PROVE  PortLists
        OBVIOUS
    <2>1. /\ IsFiniteSet(Elems(idle)) /\ Cardinality(Elems(idle)) = Len(idle)
          /\ IsFiniteSet(Elems(active)) /\ Cardinality(Elems(active)) = Len(active)
        BY DistinctCardinality DEF IInv, PipeInv, Lists
    <2>2. Cardinality(Elems(idle) \cup Elems(active)) = Len(idle) + Len(active)
        <3>1. Cardinality(Elems(idle) \cup Elems(active)) =
                 Cardinality(Elems(idle)) + Cardinality(Elems(active))
                    - Cardinality(Elems(idle) \cap Elems(active))
            BY <2>1, FS_Union
        <3>2. Cardinality(Elems(idle) \cap Elems(active)) = 0
            BY FS_EmptySet DEF IInv, PipeInv, Lists
        <3>3. Len(idle) \in Nat /\ Len(active) \in Nat
            BY LenProperties DEF IInv, PipeInv
        <3> QED BY <2>1, <3>1, <3>2, <3>3
    <2> QED BY <2>2 DEF IInv, PipeInv, Lists, PortLists
<1> QED BY <1>1, Invariant, PTL

-----------------------------------------------------------------------------
(* Pipe commands exclude each other *)

\* The tasks inside a command of pipe p.
Inside(p) == {t \in Tasks : InCommand(t) /\ call[t].pipe = p}

\* A step that leaves every task where it is, and every pipe's command alone except
\* that of a pipe no task is inside of.
LEMMA CommandFrame ==
    ASSUME IInv, IInv', CommandExclusive,
           \A t \in Tasks : /\ InCommand(t)' <=> InCommand(t)
                            /\ InCommand(t) => call'[t].pipe = call[t].pipe,
           \A p \in Pipes : \/ Allocated(p)' => Allocated(p) /\ SameCommand(pipe[p], pipe'[p])
                            \/ Inside(p) = {} /\ ~pipe'[p].cmd /\ pipe'[p].waiter = NoTask
    PROVE  CommandExclusive'
<1> SUFFICES ASSUME NEW p \in Pipes, Allocated(p)'
             PROVE  IF pipe'[p].cmd THEN Inside(p)' = {pipe'[p].waiter}
                                    ELSE Inside(p)' = {} /\ pipe'[p].waiter = NoTask
    BY DEF CommandExclusive, Inside
<1>1. Inside(p)' = Inside(p)
    BY DEF Inside
<1>2. CASE Inside(p) = {} /\ ~pipe'[p].cmd /\ pipe'[p].waiter = NoTask
    BY <1>1, <1>2
<1>3. CASE Allocated(p) /\ SameCommand(pipe[p], pipe'[p])
    BY <1>1, <1>3 DEF CommandExclusive, SameCommand, Inside
<1> QED BY <1>2, <1>3

\* A step that changes pipe p alone, and neither its command nor a task.
LEMMA OneCommandFrame ==
    ASSUME IInv, IInv', CommandExclusive, NEW p \in Pipes, NEW R,
           pipe' = [pipe EXCEPT ![p] = R],
           SameKind(pipe[p], R), SameCommand(pipe[p], R), UNCHANGED call
    PROVE  CommandExclusive'
<1>1. \A r \in Pipes : Allocated(r)' => Allocated(r) /\ SameCommand(pipe[r], pipe'[r])
    BY DEF Allocated, SameKind, SameCommand, IInv, PipeInv
<1>2. \A t \in Tasks : /\ InCommand(t)' <=> InCommand(t)
                       /\ InCommand(t) => call'[t].pipe = call[t].pipe
    BY DEF InCommand
<1> QED BY <1>1, <1>2, CommandFrame

\* A step that changes no pipe, and no task that is inside a command.
LEMMA NoCommandFrame ==
    ASSUME IInv, IInv', CommandExclusive, UNCHANGED pipe,
           \A t \in Tasks : /\ InCommand(t)' <=> InCommand(t)
                            /\ InCommand(t) => call'[t].pipe = call[t].pipe
    PROVE  CommandExclusive'
    BY CommandFrame DEF Allocated, SameCommand

\* A step that sets one of the other fields of a pipe.
LEMMA FieldKeepsCommand ==
    ASSUME pipe \in [Pipes -> PipeRecord], NEW p \in Pipes, NEW v, NEW w,
           \/ pipe' = [pipe EXCEPT ![p].inflight = v]
           \/ pipe' = [pipe EXCEPT ![p].pending = v]
           \/ pipe' = [pipe EXCEPT ![p].done = v]
           \/ pipe' = [pipe EXCEPT ![p].last_event = v]
           \/ pipe' = [pipe EXCEPT ![p].addr = v]
           \/ pipe' = [pipe EXCEPT ![p].pending = v, ![p].done = w]
    PROVE  \A r \in Pipes : /\ Allocated(r)' <=> Allocated(r)
                            /\ SameCommand(pipe[r], pipe'[r])
<1>1. \A r \in Pipes : r # p => pipe'[r] = pipe[r]
    OBVIOUS
<1>2. /\ pipe'[p].state = pipe[p].state /\ pipe'[p].cmd = pipe[p].cmd
      /\ pipe'[p].waiter = pipe[p].waiter
    BY DEF PipeRecord
<1> QED BY <1>1, <1>2 DEF Allocated, SameCommand

\* A task enters a command of a pipe that processes none.
LEMMA ExclusiveBlock ==
    ASSUME IInv, CommandExclusive, NEW t \in Tasks, NEW p \in Pipes, NEW c \in Blocking,
           CommandBlock(t, p, c)
    PROVE  CommandExclusive'
<1>1. /\ Allocated(p) /\ ~pipe[p].cmd /\ call[t].op = "none"
      /\ pipe' = [pipe EXCEPT ![p].cmd = TRUE, ![p].waiting = TRUE, ![p].waiter = t]
      /\ call' = [call EXCEPT ![t] = [op |-> c, pipe |-> p, irp |-> NoIrp, woken |-> FALSE]]
    BY DEF CommandBlock, CommandAllowed, CanCall
<1>2. /\ pipe'[p].cmd /\ pipe'[p].waiter = t
      /\ \A r \in Pipes : r # p => pipe'[r] = pipe[r]
      /\ \A r \in Pipes : Allocated(r)' <=> Allocated(r)
    BY <1>1 DEF Allocated, IInv, PipeInv, PipeRecord
<1>3. /\ InCommand(t)' /\ call'[t].pipe = p /\ ~InCommand(t)
      /\ \A u \in Tasks : u # t => (InCommand(u)' <=> InCommand(u)) /\ call'[u] = call[u]
    BY <1>1 DEF InCommand, Blocking, IInv, RestInv
<1>4. Inside(p) = {}
    BY <1>1 DEF CommandExclusive, Inside
<1>5. Inside(p)' = {t}
    BY <1>3, <1>4 DEF Inside
<1>6. \A r \in Pipes : r # p => Inside(r)' = Inside(r)
    BY <1>3 DEF Inside
<1> QED BY <1>2, <1>5, <1>6 DEF CommandExclusive, Inside

\* The task that is inside a command leaves it.
LEMMA ExclusiveResume ==
    ASSUME IInv, IInv', CommandExclusive, NEW t \in Tasks, NEW R,
           InCommand(t), Return(t), Allocated(call[t].pipe),
           pipe' = [pipe EXCEPT ![call[t].pipe] = R], R.cmd = FALSE, R.waiter = NoTask
    PROVE  CommandExclusive'
<1>1. PICK p \in Pipes : p = call[t].pipe
    BY DEF IInv, RestInv, InCommand, Blocking
<1>2. Inside(p) = {t}
    BY <1>1 DEF CommandExclusive, Inside
<1>3. /\ ~InCommand(t)'
      /\ \A u \in Tasks : u # t => (InCommand(u)' <=> InCommand(u)) /\ call'[u] = call[u]
    BY DEF Return, IdleCall, InCommand, Blocking, IInv, RestInv
<1>4. Inside(p)' = {}
    BY <1>2, <1>3 DEF Inside
<1>5. \A r \in Pipes : r # p => Inside(r)' = Inside(r)
    <2> SUFFICES ASSUME NEW r \in Pipes, r # p
                 PROVE  Inside(r)' = Inside(r)
        OBVIOUS
    <2> QED BY <1>1, <1>3 DEF Inside
<1>6. /\ ~pipe'[p].cmd /\ pipe'[p].waiter = NoTask
      /\ \A r \in Pipes : r # p => pipe'[r] = pipe[r]
    BY <1>1 DEF IInv, PipeInv
<1>7. \A r \in Pipes : r # p => (Allocated(r)' <=> Allocated(r))
    BY <1>6 DEF Allocated
<1> QED BY <1>4, <1>5, <1>6, <1>7 DEF CommandExclusive, Inside

\* Every step keeps the commands apart.
LEMMA ExclusiveNext ==
    ASSUME IInv, IInv', CommandExclusive, [PipeNext]_vars
    PROVE  CommandExclusive'
<1>1. CASE UNCHANGED vars
    BY <1>1, NoCommandFrame DEF vars, InCommand
<1>2. ASSUME NEW l, Fail(l)
      PROVE  CommandExclusive'
    BY <1>2, NoCommandFrame DEF Fail, InCommand
<1>3. ASSUME NEW t \in Tasks, CallStep(t)
      PROVE  CommandExclusive'
    <2> DEFINE p == call[t].pipe
    <2>1. CASE EnqueueReject(t)
        <3>1. UNCHANGED pipe
            BY <2>1 DEF EnqueueReject
        <3>2. \A u \in Tasks : /\ InCommand(u)' <=> InCommand(u)
                               /\ InCommand(u) => call'[u].pipe = call[u].pipe
            BY <2>1 DEF EnqueueReject, Enqueuing, Return, IdleCall, InCommand, Blocking,
                        IInv, RestInv
        <3> QED BY <3>1, <3>2, NoCommandFrame
    <2>2. CASE EnqueueStart(t) \/ EnqueuePend(t)
        <3>1. \A u \in Tasks : /\ InCommand(u)' <=> InCommand(u)
                               /\ InCommand(u) => call'[u].pipe = call[u].pipe
            BY <2>2 DEF EnqueueStart, EnqueuePend, Enqueuing, Return, IdleCall, InCommand,
                        Blocking, IInv, RestInv
        <3>2. p \in Pipes /\ pipe[p] \in PipeRecord
            BY <2>2 DEF EnqueueStart, EnqueuePend, Enqueuing, IInv, PipeInv, RestInv
        <3>3. \E v : \/ pipe' = [pipe EXCEPT ![p].inflight = v]
                     \/ pipe' = [pipe EXCEPT ![p].pending = v]
            BY <2>2 DEF EnqueueStart, EnqueuePend
        <3>4. \A r \in Pipes : /\ Allocated(r)' <=> Allocated(r)
                               /\ SameCommand(pipe[r], pipe'[r])
            BY <3>2, <3>3, FieldKeepsCommand DEF IInv, PipeInv
        <3> QED BY <3>1, <3>4, CommandFrame
    <2>3. CASE CommandWake(t)
        <3>1. \A u \in Tasks : /\ InCommand(u)' <=> InCommand(u)
                               /\ InCommand(u) => call'[u].pipe = call[u].pipe
            BY <2>3 DEF CommandWake, InCommand, IInv, RestInv, CallRecord
        <3> QED BY <2>3, <3>1, NoCommandFrame DEF CommandWake
    <2>4. CASE ResumeInvalid(t)
        <3> DEFINE R == [pipe[p] EXCEPT !.waiter = NoTask, !.waiting = FALSE, !.cmd = FALSE]
        <3>1. /\ InCommand(t) /\ Return(t) /\ p \in Pipes /\ Allocated(p)
              /\ pipe' = [pipe EXCEPT ![p] = R]
            BY <2>4 DEF ResumeInvalid, Resumes, InCommand, Blocking, Allocated, IInv, RestInv
        <3>2. R.cmd = FALSE /\ R.waiter = NoTask
            BY <3>1 DEF IInv, PipeInv, PipeRecord
        <3> HIDE DEF R
        <3> QED BY <3>1, <3>2, ExclusiveResume
    <2>5. CASE ResumeDone(t)
        <3> DEFINE r == Commanded(pipe[p], call[t].op)
                   R == [r EXCEPT !.waiter = NoTask, !.cmd = FALSE]
        <3>1. /\ InCommand(t) /\ Return(t) /\ p \in Pipes /\ Allocated(p)
              /\ pipe' = [pipe EXCEPT ![p] = R] /\ call[t].op \in Blocking
              /\ pipe[p].state # "FREE" /\ pipe[p] \in PipeRecord
            BY <2>5 DEF ResumeDone, Resumes, InCommand, Blocking, Allocated, Valid, IInv,
                        PipeInv, RestInv
        <3>2. r \in PipeRecord
            BY <3>1, CommandedOk DEF SameKind
        <3> HIDE DEF r
        <3>3. R.cmd = FALSE /\ R.waiter = NoTask
            BY <3>2 DEF PipeRecord
        <3> HIDE DEF R
        <3> QED BY <3>1, <3>3, ExclusiveResume
    <2> QED BY <1>2, <1>3, <2>1, <2>2, <2>3, <2>4, <2>5
            DEF CallStep, EnqueueFreed, ResumeFreed, ResumeRunning, ResumeBusy
<1>4. ASSUME NEW t \in Tasks, ClientStep(t)
      PROVE  CommandExclusive'
    <2>1. ASSUME NEW p \in Pipes, NEW i \in Irps, EnqueueCheck(t, p, i)
          PROVE  CommandExclusive'
        <3>1. \A u \in Tasks : /\ InCommand(u)' <=> InCommand(u)
                               /\ InCommand(u) => call'[u].pipe = call[u].pipe
            BY <2>1 DEF EnqueueCheck, CanCall, InCommand, Blocking, IInv, RestInv
        <3> QED BY <2>1, <3>1, NoCommandFrame DEF EnqueueCheck
    <2>2. ASSUME NEW p \in Pipes,
                 \/ Dequeue(t, p) \/ GetEvent(t, p) \/ \E a \in Addrs : Update(t, p, a)
                 \/ \E i \in Irps : p = irp[i].ptr /\ AbortIrp(t, i)
          PROVE  CommandExclusive'
        <3>1. UNCHANGED call
            BY <2>2 DEF Dequeue, GetEvent, Update, AbortIrp
        <3>2. \E v, w : \/ pipe' = [pipe EXCEPT ![p].done = v]
                        \/ pipe' = [pipe EXCEPT ![p].last_event = v]
                        \/ pipe' = [pipe EXCEPT ![p].addr = v]
                        \/ pipe' = [pipe EXCEPT ![p].pending = v, ![p].done = w]
            BY <2>2 DEF Dequeue, GetEvent, Update, AbortIrp
        <3>3. \A r \in Pipes : /\ Allocated(r)' <=> Allocated(r)
                               /\ SameCommand(pipe[r], pipe'[r])
            BY <3>2, FieldKeepsCommand DEF IInv, PipeInv
        <3> QED BY <3>1, <3>3, CommandFrame DEF InCommand
    <2>3. ASSUME NEW i \in Irps, AbortIrp(t, i)
          PROVE  CommandExclusive'
        <3>1. irp[i].ptr \in Pipes
            BY <2>3 DEF AbortIrp, IInv, PipeInv, PendingPlaced
        <3> QED BY <2>2, <2>3, <3>1
    <2>4. ASSUME NEW p \in Pipes, Alloc(t, p)
          PROVE  CommandExclusive'
        <3>1. PICK a \in Addrs : pipe' = [pipe EXCEPT ![p] = NewPipe("ACTIVE", a)]
            BY <2>4 DEF Alloc
        <3>2. pipe'[p] = NewPipe("ACTIVE", a) /\ \A r \in Pipes : r # p => pipe'[r] = pipe[r]
            BY <3>1 DEF IInv, PipeInv
        <3>3. ~pipe'[p].cmd /\ pipe'[p].waiter = NoTask
            BY <3>2, NewPipeOk
        <3>4. Inside(p) = {} /\ UNCHANGED call
            BY <2>4 DEF Alloc, Inside
        <3>5. \A r \in Pipes :
                 \/ Allocated(r)' => Allocated(r) /\ SameCommand(pipe[r], pipe'[r])
                 \/ Inside(r) = {} /\ ~pipe'[r].cmd /\ pipe'[r].waiter = NoTask
            BY <3>2, <3>3, <3>4 DEF Allocated, SameCommand
        <3> QED BY <3>4, <3>5, CommandFrame DEF InCommand
    <2>5. ASSUME NEW p \in Pipes, FreePipe(t, p)
          PROVE  CommandExclusive'
        <3>1. /\ pipe' = [pipe EXCEPT ![p] = NewPipe("FREE", pipe[p].addr)]
              /\ UNCHANGED call /\ pipe[p].addr \in Addrs
            BY <2>5, PipeFieldTypes DEF FreePipe, IInv, PipeInv
        <3>2. /\ pipe'[p].state = "FREE"
              /\ \A r \in Pipes : r # p => pipe'[r] = pipe[r]
            BY <3>1, NewPipeOk DEF IInv, PipeInv
        <3>3. \A r \in Pipes :
                 Allocated(r)' => Allocated(r) /\ SameCommand(pipe[r], pipe'[r])
            BY <3>2 DEF Allocated, SameCommand
        <3> QED BY <3>1, <3>3, CommandFrame DEF InCommand
    <2>6. ASSUME NEW p \in Pipes, NEW c \in Blocking, CommandNow(t, p, c)
          PROVE  CommandExclusive'
        <3> DEFINE R == Commanded(pipe[p], c)
        <3>1. /\ pipe[p] \in PipeRecord /\ pipe[p].state # "FREE" /\ UNCHANGED call
              /\ pipe' = [pipe EXCEPT ![p] = R]
            BY <2>6 DEF CommandNow, CommandAllowed, Allocated, IInv, PipeInv
        <3>2. SameKind(pipe[p], R) /\ SameCommand(pipe[p], R)
            BY <3>1, CommandedOk
        <3> HIDE DEF R
        <3> QED BY <3>1, <3>2, OneCommandFrame
    <2>7. ASSUME NEW p \in Pipes, CommandClear(t, p)
          PROVE  CommandExclusive'
        <3>1. /\ pipe[p] \in PipeRecord /\ UNCHANGED call
              /\ \/ pipe' = [pipe EXCEPT ![p].state = "ACTIVE"]
                 \/ /\ pipe[p].pending # <<>>
                    /\ pipe' = [pipe EXCEPT ![p] = [TakeNext(pipe[p]) EXCEPT !.state = "ACTIVE"]]
              /\ Allocated(p)
            BY <2>7 DEF CommandClear, CommandAllowed, HasNext, IInv, PipeInv
        <3>2. \A r \in Pipes : r # p => pipe'[r] = pipe[r]
            BY <3>1 DEF IInv, PipeInv
        <3>3. SameCommand(pipe[p], pipe'[p])
            <4>1. CASE pipe' = [pipe EXCEPT ![p].state = "ACTIVE"]
                BY <3>1, <4>1 DEF SameCommand, IInv, PipeInv, PipeRecord
            <4>2. CASE /\ pipe[p].pending # <<>>
                       /\ pipe' = [pipe EXCEPT ![p] =
                                      [TakeNext(pipe[p]) EXCEPT !.state = "ACTIVE"]]
                <5> DEFINE r == TakeNext(pipe[p])
                <5>1. r \in PipeRecord /\ SameCommand(pipe[p], r)
                    BY <3>1, <4>2, TakeNextOk DEF SameKind
                <5>2. pipe'[p] = [r EXCEPT !.state = "ACTIVE"]
                    BY <4>2 DEF IInv, PipeInv
                <5> HIDE DEF r
                <5> QED BY <5>1, <5>2 DEF SameCommand, PipeRecord
            <4> QED BY <3>1, <4>1, <4>2
        <3>4. \A r \in Pipes :
                 Allocated(r)' => Allocated(r) /\ SameCommand(pipe[r], pipe'[r])
            BY <3>1, <3>2, <3>3 DEF Allocated, SameCommand
        <3> QED BY <3>1, <3>4, CommandFrame DEF InCommand
    <2>8. ASSUME NEW p \in Pipes, NEW c \in Blocking, CommandBlock(t, p, c)
          PROVE  CommandExclusive'
        BY <2>8, ExclusiveBlock
    <2> QED BY <1>2, <1>3, <1>4, <2>1, <2>2, <2>3, <2>4, <2>5, <2>6, <2>7, <2>8
            DEF ClientStep, DequeueMisplaced, ClearBusy
<1>5. ASSUME NEW p \in Pipes, ChanStep(p)
      PROVE  CommandExclusive'
    <2>1. CASE ChanIgnored(p)
        BY <2>1, NoCommandFrame DEF ChanIgnored, InCommand
    <2>2. CASE ChanDoneOrphan(p)
        BY <1>2, <2>2 DEF ChanDoneOrphan
    <2>3. ASSUME p \in hw
          PROVE  /\ pipe[p] \in PipeRecord /\ pipe[p].inflight # NoIrp
                 /\ pipe[p].state # "FREE"
        BY <2>3, SlotHasIrp
    <2>4. CASE ChanDoneNext(p)
        <3> DEFINE q == DoneQueue(pipe[p])
        <3>1. SameKind(pipe[p], q) /\ SameCommand(pipe[p], q) /\ q \in PipeRecord
            BY <2>3, <2>4, ChanDoneOk DEF ChanDoneNext, SlotDone, SameKind
        <3>2. /\ UNCHANGED call
              /\ \/ pipe' = [pipe EXCEPT ![p] = q]
                 \/ q.pending # <<>> /\ pipe' = [pipe EXCEPT ![p] = TakeNext(q)]
            BY <2>4 DEF ChanDoneNext, HasNext
        <3> HIDE DEF q
        <3>3. CASE pipe' = [pipe EXCEPT ![p] = q]
            BY <3>1, <3>2, <3>3, OneCommandFrame
        <3>4. CASE q.pending # <<>> /\ pipe' = [pipe EXCEPT ![p] = TakeNext(q)]
            <4>1. SameKind(q, TakeNext(q)) /\ SameCommand(q, TakeNext(q))
                BY <3>1, <3>4, TakeNextOk
            <4>2. SameKind(pipe[p], TakeNext(q)) /\ SameCommand(pipe[p], TakeNext(q))
                BY <3>1, <4>1 DEF SameKind, SameCommand
            <4> QED BY <3>2, <3>4, <4>2, OneCommandFrame
        <3> QED BY <3>2, <3>3, <3>4
    <2>5. CASE ChanDonePause(p)
        <3>1. /\ SameKind(pipe[p], PausedOnDone(pipe[p]))
              /\ SameCommand(pipe[p], PausedOnDone(pipe[p]))
            BY <2>3, <2>5, PausedOnDoneOk DEF ChanDonePause, SlotDone
        <3>2. UNCHANGED call /\ pipe' = [pipe EXCEPT ![p] = PausedOnDone(pipe[p])]
            BY <2>5 DEF ChanDonePause
        <3> QED BY <3>1, <3>2, OneCommandFrame
    <2>6. CASE ChanDoneCommand(p)
        <3> DEFINE R == [DoneQueue(pipe[p]) EXCEPT !.waiting = FALSE]
        <3>1. SameKind(pipe[p], R) /\ SameCommand(pipe[p], R)
            BY <2>3, <2>6, PausedOnDoneOk DEF ChanDoneCommand, SlotDone
        <3>2. UNCHANGED call /\ pipe' = [pipe EXCEPT ![p] = R]
            BY <2>6 DEF ChanDoneCommand
        <3> QED BY <3>1, <3>2, OneCommandFrame
    <2>7. ASSUME NEW e \in ErrorEvents, ChanError(p, e)
          PROVE  CommandExclusive'
        <3> DEFINE R == [ReturnCurIrp(pipe[p]) EXCEPT !.state = "HALTED", !.last_event = e]
        <3>1. SameKind(pipe[p], R) /\ SameCommand(pipe[p], R)
            BY <2>3, <2>7, ChanErrorOk DEF ChanError
        <3>2. UNCHANGED call /\ pipe' = [pipe EXCEPT ![p] = R]
            BY <2>7 DEF ChanError
        <3> QED BY <3>1, <3>2, OneCommandFrame
    <2> QED BY <1>5, <2>1, <2>2, <2>4, <2>5, <2>6, <2>7 DEF ChanStep
<1>6. ASSUME PortStep
      PROVE  CommandExclusive'
    <2>1. ASSUME PortUnchanged
          PROVE  CommandExclusive'
        BY <2>1, NoCommandFrame DEF PortUnchanged, InCommand
    <2>2. ASSUME PausesAll
          PROVE  CommandExclusive'
        <3>1. UNCHANGED call /\ pipe' = PausedPipes
            BY <2>2 DEF PausesAll
        <3>2. \A r \in Pipes : /\ Allocated(r)' <=> Allocated(r)
                               /\ SameCommand(pipe[r], pipe'[r])
            BY <3>1 DEF PausedPipes, Allocated, SameCommand, IInv, PipeInv, PipeRecord
        <3> QED BY <3>1, <3>2, CommandFrame DEF InCommand
    <2>3. CASE UnpauseAll
        <3>1. UNCHANGED call /\ \A r \in Pipes : pipe'[r] = Unpaused(r)
            BY <2>3 DEF UnpauseAll
        <3>2. ASSUME NEW r \in Pipes
              PROVE  Allocated(r)' => Allocated(r) /\ SameCommand(pipe[r], pipe'[r])
            <4> DEFINE q == [pipe[r] EXCEPT !.paused = FALSE]
            <4>1. /\ pipe[r] \in PipeRecord /\ q \in PipeRecord /\ q.state = pipe[r].state
                  /\ SameCommand(pipe[r], q)
                <5>1. pipe[r] \in PipeRecord
                    BY DEF IInv, PipeInv
                <5>2. q \in PipeRecord
                    BY <5>1 DEF PipeRecord
                <5>3. q.state = pipe[r].state /\ SameCommand(pipe[r], q)
                    BY <5>1 DEF PipeRecord, SameCommand
                <5> QED BY <5>1, <5>2, <5>3
            <4>2. \/ pipe'[r] = q
                  \/ q.pending # <<>> /\ pipe'[r] = TakeNext(q)
                BY <3>1 DEF Unpaused, HasNext
            <4> HIDE DEF q
            <4>3. q.pending # <<>> => SameKind(q, TakeNext(q)) /\ SameCommand(q, TakeNext(q))
                BY <4>1, TakeNextOk
            <4> QED BY <4>1, <4>2, <4>3 DEF Allocated, SameKind, SameCommand
        <3> QED BY <3>1, <3>2, CommandFrame DEF InCommand
    <2>4. ASSUME NEW v, Visit(v), v.cur # NoPipe => v.cur \in Pipes /\ Allocated(v.cur)
          PROVE  CommandExclusive'
        <3> DEFINE p == v.cur
                   q == Invalidated(pipe[p])
        <3>1. CASE v.cur = NoPipe
            BY <2>4, <3>1, NoCommandFrame DEF Visit, InCommand
        <3>2. CASE v.cur # NoPipe
            <4>1. p \in Pipes /\ pipe[p] \in PipeRecord /\ pipe[p].state # "FREE"
                BY <2>4, <3>2 DEF IInv, PipeInv, Allocated
            <4>2. /\ UNCHANGED call
                  /\ \/ pipe' = [pipe EXCEPT ![p] = Emptied(q)]
                     \/ pipe' = [pipe EXCEPT ![p] = q]
                BY <2>4, <3>2 DEF Visit, InvalidateActive, InvalidateIdle
            <4>3. SameKind(pipe[p], q) /\ SameCommand(pipe[p], q) /\ q \in PipeRecord
                BY <4>1, InvalidatedOk DEF SameKind
            <4> HIDE DEF q
            <4>4. SameKind(q, Emptied(q)) /\ SameCommand(q, Emptied(q))
                BY <4>3, EmptiedOk
            <4>5. SameKind(pipe[p], Emptied(q)) /\ SameCommand(pipe[p], Emptied(q))
                BY <4>3, <4>4 DEF SameKind, SameCommand
            <4> HIDE DEF p
            <4> QED BY <4>1, <4>2, <4>3, <4>5, OneCommandFrame
        <3> QED BY <3>1, <3>2
    <2>5. CASE InvalidateBegin \/ InvalidateNext
        <3>1. ASSUME NEW ph \in {"active", "idle"}, NEW c,
                     c # NoPipe => c \in Elems(idle) \cup Elems(active),
                     Visit(WalkTo(ph, c))
              PROVE  CommandExclusive'
            <4> DEFINE v == WalkTo(ph, c)
            <4>1. v.cur # NoPipe => v.cur \in Elems(idle) \cup Elems(active)
                BY <3>1, WalkReaches DEF WalkTo
            <4>2. v.cur # NoPipe => v.cur \in Pipes /\ Allocated(v.cur)
                BY <4>1 DEF IInv, PipeInv, Lists
            <4> HIDE DEF v
            <4>3. Visit(v)
                BY <3>1 DEF v
            <4> QED BY <2>4, <4>2, <4>3
        <3>2. CASE InvalidateBegin
            BY <3>1, <3>2, WalkReaches DEF InvalidateBegin
        <3>3. CASE InvalidateNext
            <4>1. inval.cur \in Pipes /\ Allocated(inval.cur) /\ inval.phase \in {"active", "idle"}
                BY <3>3 DEF IInv, RestInv, InvalidateNext, NoWalk
            <4> QED BY <3>1, <3>3, <4>1, WalkReaches DEF InvalidateNext
        <3> QED BY <2>5, <3>2, <3>3
    <2> QED BY <1>2, <1>6, <2>1, <2>2, <2>3, <2>5
            DEF PortStep, PortEnabled, PortLost, PortSet, PortWait, PortWake, PortReturn,
                PortOrphan, PauseAndWait, PauseAtOnce, UnpauseBusy, InvalidateFreed
<1> QED BY <1>1, <1>4, <1>5, <1>6 DEF PipeNext

\* One task at a time is inside a command of a pipe, and it is the one that the pipe
\* wakes up: pipe_cmd_processing and task_waiting_pipe_notif are set and reset in pairs
\* on every path of hcd_pipe_command, through _pipe_wait_done and the invalidation of
\* the pipe too.
THEOREM CommandsExclusive == PipeSpec => []CommandExclusive
<1>1. PipeInit => CommandExclusive
    <2> SUFFICES ASSUME PipeInit
                 PROVE  CommandExclusive
        OBVIOUS
    <2>1. \A p \in Pipes : ~Allocated(p)
        BY DEF PipeInit, NewPipe, Allocated
    <2> QED BY <2>1 DEF CommandExclusive
<1>2. IInv /\ IInv' /\ CommandExclusive /\ [PipeNext]_vars => CommandExclusive'
    BY ExclusiveNext
<1> QED BY <1>1, <1>2, Invariant, PTL DEF PipeSpec

-----------------------------------------------------------------------------
(* What a client gains that dequeues the IRPs of a pipe only when nothing is in flight *)
(* on it ("batch") and enqueues nothing on a paused pipe ("quiet"): the active list    *)
(* tells exactly which pipes have IRPs, so that the walk over the active list empties  *)
(* every pipe it has to, and a pipe that was made invalid stays so, with nothing left  *)
(* to execute.                                                                         *)
(*                                                                                     *)
(* Each step is shown to treat every single pipe well (TreatedWell), and that is       *)
(* enough: RuleInv relates a pipe to the lists, to its channel and to the walk, but no *)
(* two pipes with each other.                                                          *)

ClientRules == {"batch", "quiet"} \subseteq Rules

-----------------------------------------------------------------------------
(* The inductive invariant *)

\* A pipe that is not in the active list has no IRPs.
EmptyUnlessActive == \A p \in Pipes : p \notin Elems(active) => Queue(pipe[p]) = <<>>

\* The walk over the idle list is at a pipe that it has invalidated.
WalkIsIdle ==
    inval.phase = "idle" /\ Allocated(inval.cur) =>
        pipe[inval.cur].state = "INVALID" /\ Queue(pipe[inval.cur]) = <<>>

RuleInv == EmptyUnlessActive /\ InvalidIsDrained /\ WalkIsIdle

\* A step does to pipe p nothing that breaks the invariant.
TreatedWell(p) ==
    /\ p \notin Elems(active') => Queue(pipe'[p]) = <<>>
    /\ pipe'[p].state = "INVALID" =>
           p \notin hw' /\ pipe'[p].inflight = NoIrp /\ pipe'[p].pending = <<>>
    /\ pipe[p].state = "INVALID" =>
           /\ pipe'[p].state \in {"INVALID", "FREE"}
           /\ Queue(pipe[p]) = <<>> => Queue(pipe'[p]) = <<>>
    /\ pipe[p].state = "FREE" /\ inval.cur = p => pipe'[p].state = "FREE"

AllTreatedWell == \A p \in Pipes : TreatedWell(p)

LEMMA WellKeepsRules ==
    ASSUME IInv, RuleInv, AllTreatedWell, UNCHANGED inval
    PROVE  RuleInv'
<1>1. EmptyUnlessActive'
    BY DEF AllTreatedWell, TreatedWell, EmptyUnlessActive
<1>2. InvalidIsDrained'
    BY DEF AllTreatedWell, TreatedWell, InvalidIsDrained
<1>3. ASSUME inval.phase = "idle", pipe'[inval.cur].state # "FREE"
      PROVE  pipe'[inval.cur].state = "INVALID" /\ Queue(pipe'[inval.cur]) = <<>>
    <2>1. inval.cur \in Pipes
        BY <1>3 DEF IInv, RestInv
    <2>2. pipe[inval.cur].state # "FREE"
        BY <1>3, <2>1 DEF AllTreatedWell, TreatedWell
    <2>3. pipe[inval.cur].state = "INVALID" /\ Queue(pipe[inval.cur]) = <<>>
        BY <1>3, <2>2 DEF RuleInv, WalkIsIdle, Allocated
    <2> QED BY <1>3, <2>1, <2>3 DEF AllTreatedWell, TreatedWell
<1>4. WalkIsIdle'
    BY <1>3 DEF WalkIsIdle, Allocated
<1> QED BY <1>1, <1>2, <1>4 DEF RuleInv

-----------------------------------------------------------------------------
(* Frames *)

\* A step that changes no pipe treats the pipes well.
LEMMA NoPipeWell ==
    ASSUME IInv, RuleInv, UNCHANGED <<pipe, active>>, hw' \subseteq hw
    PROVE  AllTreatedWell
    BY DEF RuleInv, EmptyUnlessActive, InvalidIsDrained, AllTreatedWell, TreatedWell

\* A step that changes pipe p and takes no other pipe from the active list.
LEMMA OnePipeWell ==
    ASSUME IInv, RuleInv, NEW p \in Pipes, NEW R, pipe' = [pipe EXCEPT ![p] = R],
           Elems(active) \subseteq Elems(active') \cup {p},
           hw' \subseteq hw \cup {p}, TreatedWell(p)
    PROVE  AllTreatedWell
<1> SUFFICES ASSUME NEW r \in Pipes, r # p
             PROVE  TreatedWell(r)
    BY DEF AllTreatedWell
<1>1. pipe'[r] = pipe[r]
    BY DEF IInv, PipeInv
<1>2. r \in Elems(active) => r \in Elems(active')
    OBVIOUS
<1>3. r \in hw' => r \in hw
    OBVIOUS
<1> QED BY <1>1, <1>2, <1>3 DEF RuleInv, EmptyUnlessActive, InvalidIsDrained, TreatedWell

\* A step that leaves the queues, the state and the channel of pipe p alone.
LEMMA FieldWell ==
    ASSUME IInv, RuleInv, NEW p \in Pipes, NEW R, pipe' = [pipe EXCEPT ![p] = R],
           UNCHANGED <<active, hw>>, R.state = pipe[p].state,
           R.pending = pipe[p].pending, R.done = pipe[p].done, R.inflight = pipe[p].inflight
    PROVE  AllTreatedWell
<1>1. pipe'[p] = R
    BY DEF IInv, PipeInv
<1>2. Queue(R) = Queue(pipe[p])
    BY DEF Queue, InFlightSeq
<1>3. TreatedWell(p)
    BY <1>1, <1>2 DEF RuleInv, EmptyUnlessActive, InvalidIsDrained, TreatedWell
<1> QED BY <1>3, OnePipeWell

\* A step of a pipe that is valid before and after it.
LEMMA ValidWell ==
    ASSUME IInv, RuleInv, NEW p \in Pipes, NEW R, pipe' = [pipe EXCEPT ![p] = R],
           Elems(active) \subseteq Elems(active') \cup {p}, hw' \subseteq hw \cup {p},
           pipe[p].state # "INVALID", R.state # "INVALID",
           pipe[p].state = "FREE" /\ inval.cur = p => R.state = "FREE",
           p \notin Elems(active') => Queue(R) = <<>>
    PROVE  AllTreatedWell
<1>1. pipe'[p] = R
    BY DEF IInv, PipeInv
<1>2. TreatedWell(p)
    BY <1>1 DEF TreatedWell
<1> QED BY <1>2, OnePipeWell

\* A pipe with IRPs is in the active list.
LEMMA BusyIsActive ==
    ASSUME IInv, RuleInv, NEW p \in Pipes,
           pipe[p].inflight # NoIrp \/ pipe[p].pending # <<>> \/ pipe[p].done # <<>>
    PROVE  p \in Elems(active)
<1>1. pipe[p] \in PipeRecord
    BY DEF IInv, PipeInv
<1>2. Queue(pipe[p]) # <<>>
    BY <1>1, QueueEmpty
<1> QED BY <1>2 DEF RuleInv, EmptyUnlessActive

\* What retires the IRPs of a pipe, or takes its IRP in flight, adds none.
LEMMA StaysEmpty ==
    ASSUME NEW q \in PipeRecord, Queue(q) = <<>>
    PROVE  /\ Queue(Retire(q)) = <<>>
           /\ Queue(Invalidated(q)) = <<>>
           /\ Queue(Emptied(Invalidated(q))) = <<>>
           /\ q.state # "FREE" => \A c \in Blocking : Queue(Commanded(q, c)) = <<>>
<1>1. q.done = <<>> /\ q.inflight = NoIrp /\ q.pending = <<>>
    BY QueueEmpty
<1>2. <<>> \in Seq(Irps)
    BY EmptySeq
<1>3. <<>> \o <<>> = <<>>
    BY <1>2, ConcatElems
<1>4. ASSUME NEW r \in PipeRecord, r.done = <<>>, r.inflight = NoIrp, r.pending = <<>>
      PROVE  Queue(Retire(r)) = <<>>
    <2>1. Retire(r) \in PipeRecord
        BY RetireOk DEF SameKind
    <2>2. /\ Retire(r).done = <<>> /\ Retire(r).pending = <<>> /\ Retire(r).inflight = NoIrp
        BY <1>3, <1>4 DEF Retire, PipeRecord
    <2> QED BY <2>1, <2>2, QueueEmpty
<1> DEFINE i == Invalidated(q)
<1>5. /\ i \in PipeRecord /\ i.done = <<>> /\ i.inflight = NoIrp /\ i.pending = <<>>
    BY <1>1 DEF Invalidated, PipeRecord, PipeEvents
<1> HIDE DEF i
<1>6. Queue(i) = <<>>
    BY <1>5, QueueEmpty
<1>7. Queue(Emptied(i)) = <<>>
    BY <1>4, <1>5 DEF Emptied
<1>8. ASSUME q.state # "FREE", NEW c \in Blocking
      PROVE  Queue(Commanded(q, c)) = <<>>
    <2>1. CASE c = "ABORT"
        BY <1>1, <1>4, <2>1 DEF Commanded
    <2>2. CASE c = "RESET"
        <3> DEFINE r == Retire(q)
        <3>1. r \in PipeRecord /\ Queue(r) = <<>>
            BY <1>1, <1>4, RetireOk DEF SameKind
        <3>2. Commanded(q, c) = [r EXCEPT !.state = "ACTIVE"]
            BY <2>2 DEF Commanded
        <3> HIDE DEF r
        <3>3. Queue([r EXCEPT !.state = "ACTIVE"]) = Queue(r)
            BY <3>1 DEF Queue, InFlightSeq, PipeRecord
        <3> QED BY <3>1, <3>2, <3>3
    <2>3. CASE c = "HALT"
        <3>1. Commanded(q, c) = [q EXCEPT !.state = "HALTED"]
            BY <2>3 DEF Commanded
        <3>2. Queue([q EXCEPT !.state = "HALTED"]) = Queue(q)
            BY DEF Queue, InFlightSeq, PipeRecord
        <3> QED BY <3>1, <3>2
    <2> QED BY <2>1, <2>2, <2>3 DEF Blocking
<1> QED BY <1>1, <1>4, <1>6, <1>7, <1>8 DEF i

-----------------------------------------------------------------------------
(* The steps of the clients *)

LEMMA EnqueueWell ==
    ASSUME IInv, RuleInv, ClientRules, NEW t \in Tasks, EnqueueStart(t) \/ EnqueuePend(t)
    PROVE  AllTreatedWell
<1> DEFINE p == call[t].pipe
           i == call[t].irp
<1>1. /\ p \in Pipes /\ i \in Irps /\ pipe[p].state = "ACTIVE"
      /\ pipe[p] \in PipeRecord /\ active \in Seq(Pipes)
    BY DEF IInv, PipeInv, RestInv, EnqueueStart, EnqueuePend, Enqueuing, Accepts
<1>2. CASE EnqueueStart(t)
    <2> DEFINE R == [pipe[p] EXCEPT !.inflight = i]
    <2>1. /\ pipe' = [pipe EXCEPT ![p] = R] /\ hw' = hw \cup {p}
          /\ active' = IF pipe[p].done = <<>> THEN Append(active, p) ELSE active
        BY <1>2 DEF EnqueueStart
    <2>2. R.state = "ACTIVE"
        BY <1>1 DEF PipeRecord
    <2>3. pipe[p].done # <<>> => p \in Elems(active)
        BY <1>1, BusyIsActive
    <2>4. Elems(active) \subseteq Elems(active') /\ p \in Elems(active')
        BY <1>1, <2>1, <2>3, AppendElems
    <2> HIDE DEF R, p
    <2> QED BY <1>1, <2>1, <2>2, <2>4, ValidWell
<1>3. CASE EnqueuePend(t)
    <2> DEFINE R == [pipe[p] EXCEPT !.pending = Append(@, i)]
    <2>1. /\ pipe' = [pipe EXCEPT ![p] = R] /\ UNCHANGED <<hw, active>>
          /\ ~CanStart(pipe[p]) /\ ~pipe[p].paused
        BY <1>3 DEF EnqueuePend, Keeps, ClientRules
    <2>2. R.state = "ACTIVE"
        BY <1>1 DEF PipeRecord
    <2>3. p \in Elems(active)
        BY <1>1, <2>1, BusyIsActive DEF CanStart
    <2> HIDE DEF R, p
    <2> QED BY <1>1, <2>1, <2>2, <2>3, ValidWell
<1> QED BY <1>2, <1>3

LEMMA DequeueWell ==
    ASSUME IInv, RuleInv, ClientRules, NEW t \in Tasks, NEW p \in Pipes, Dequeue(t, p)
    PROVE  AllTreatedWell
<1> DEFINE q == pipe[p]
           R == [q EXCEPT !.done = Tail(q.done)]
<1>1. /\ q \in PipeRecord /\ q.done # <<>> /\ q.inflight = NoIrp /\ q.state # "FREE"
      /\ pipe' = [pipe EXCEPT ![p] = R] /\ UNCHANGED hw
      /\ active \in Seq(Pipes) /\ Distinct(active)
    BY DEF IInv, PipeInv, Lists, Dequeue, Keeps, ClientRules, Allocated
<1>2. /\ R \in PipeRecord /\ R.state = q.state /\ R.pending = q.pending
      /\ R.inflight = q.inflight /\ R.done = Tail(q.done)
    <2>1. Tail(q.done) \in Seq(Irps)
        BY <1>1, PipeFieldTypes, HeadTailElems
    <2> QED BY <1>1, <2>1 DEF PipeRecord
<1>3. p \in Elems(active)
    BY <1>1, BusyIsActive
<1>4. pipe'[p] = R
    BY <1>1 DEF IInv, PipeInv
<1>5. Elems(active) \subseteq Elems(active') \cup {p}
    <2>1. active' \in {active, Without(active, p)}
        BY DEF Dequeue
    <2>2. Elems(active) \ {p} \subseteq Elems(Without(active, p))
        BY <1>1, <1>3, WithoutElems
    <2> QED BY <2>1, <2>2
<1>6. p \notin Elems(active') => Queue(R) = <<>>
    <2>1. CASE LeavesActive(q)
        <3>1. q.pending = <<>> /\ Tail(q.done) = <<>>
            <4>1. q.done \in Seq(Irps) /\ Len(q.done) = 1 /\ q.pending = <<>>
                BY <1>1, <2>1, PipeFieldTypes DEF LeavesActive
            <4> QED BY <1>1, <4>1, HeadTailElems
        <3> QED BY <1>1, <1>2, <3>1, QueueEmpty
    <2>2. CASE ~LeavesActive(q)
        BY <1>3, <2>2 DEF Dequeue
    <2> QED BY <2>1, <2>2
<1>7. TreatedWell(p)
    <2>1. Queue(q) # <<>>
        BY <1>1, QueueEmpty
    <2> HIDE DEF R
    <2> QED BY <1>1, <1>2, <1>4, <1>6, <2>1 DEF TreatedWell, RuleInv, InvalidIsDrained
<1> HIDE DEF R
<1> QED BY <1>1, <1>5, <1>7, OnePipeWell

LEMMA AbortWell ==
    ASSUME IInv, RuleInv, NEW t \in Tasks, NEW i \in Irps, AbortIrp(t, i)
    PROVE  AllTreatedWell
<1> DEFINE p == irp[i].ptr
           R == [pipe[p] EXCEPT !.pending = Without(@, i), !.done = Append(@, i)]
<1>1. /\ p \in Pipes /\ i \in Elems(pipe[p].pending) /\ pipe[p] \in PipeRecord
      /\ pipe' = [pipe EXCEPT ![p] = R] /\ UNCHANGED <<hw, active>>
    BY DEF IInv, PipeInv, PendingPlaced, AbortIrp
<1>2. pipe[p].pending # <<>>
    BY <1>1 DEF Elems
<1>3. p \in Elems(active) /\ pipe[p].state # "INVALID"
    BY <1>1, <1>2, BusyIsActive DEF RuleInv, InvalidIsDrained
<1>4. R.state = pipe[p].state
    BY <1>1 DEF PipeRecord
<1> HIDE DEF R, p
<1> QED BY <1>1, <1>3, <1>4, ValidWell

\* A pipe is allocated, freed, updated or asked for its event.
LEMMA AllocWell ==
    ASSUME IInv, RuleInv, NEW t \in Tasks, NEW p \in Pipes,
           \/ Alloc(t, p) \/ FreePipe(t, p) \/ GetEvent(t, p)
           \/ \E a \in Addrs : Update(t, p, a)
    PROVE  AllTreatedWell
<1>1. pipe[p] \in PipeRecord
    BY DEF IInv, PipeInv
<1>2. ASSUME NEW s \in {"FREE", "ACTIVE"}, NEW a \in Addrs,
             pipe' = [pipe EXCEPT ![p] = NewPipe(s, a)], UNCHANGED <<active, hw>>,
             s = "FREE" \/ (pipe[p].state = "FREE" /\ inval.cur # p)
      PROVE  AllTreatedWell
    <2> DEFINE R == NewPipe(s, a)
    <2>1. R.state = s /\ Queue(R) = <<>>
        BY NewPipeOk
    <2>2. pipe'[p] = R
        BY <1>2 DEF IInv, PipeInv
    <2> HIDE DEF R
    <2>3. TreatedWell(p)
        BY <1>2, <2>1, <2>2 DEF TreatedWell
    <2> QED BY <1>2, <2>3, OnePipeWell
<1>3. CASE Alloc(t, p)
    <2>1. PICK a \in Addrs : pipe' = [pipe EXCEPT ![p] = NewPipe("ACTIVE", a)]
        BY <1>3 DEF Alloc
    <2> QED BY <1>2, <1>3, <2>1 DEF Alloc
<1>4. CASE FreePipe(t, p)
    <2>1. pipe[p].addr \in Addrs
        BY <1>1, PipeFieldTypes
    <2> QED BY <1>2, <1>4, <2>1 DEF FreePipe
<1>5. CASE GetEvent(t, p)
    <2> DEFINE R == [pipe[p] EXCEPT !.last_event = "NONE"]
    <2>1. pipe' = [pipe EXCEPT ![p] = R] /\ UNCHANGED <<active, hw>>
        BY <1>5 DEF GetEvent
    <2>2. /\ R.state = pipe[p].state /\ R.pending = pipe[p].pending
          /\ R.done = pipe[p].done /\ R.inflight = pipe[p].inflight
        BY <1>1 DEF PipeRecord
    <2> HIDE DEF R
    <2> QED BY <2>1, <2>2, FieldWell
<1>6. ASSUME NEW a \in Addrs, Update(t, p, a)
      PROVE  AllTreatedWell
    <2> DEFINE R == [pipe[p] EXCEPT !.addr = a]
    <2>1. pipe' = [pipe EXCEPT ![p] = R] /\ UNCHANGED <<active, hw>>
        BY <1>6 DEF Update
    <2>2. /\ R.state = pipe[p].state /\ R.pending = pipe[p].pending
          /\ R.done = pipe[p].done /\ R.inflight = pipe[p].inflight
        BY <1>1 DEF PipeRecord
    <2> HIDE DEF R
    <2> QED BY <2>1, <2>2, FieldWell
<1> QED BY <1>3, <1>4, <1>5, <1>6

-----------------------------------------------------------------------------
(* The commands and the channels *)

LEMMA CommandWell ==
    ASSUME IInv, RuleInv, NEW t \in Tasks, NEW p \in Pipes, NEW c \in Blocking,
           CommandNow(t, p, c) \/ CommandBlock(t, p, c)
    PROVE  AllTreatedWell
<1>1. pipe[p] \in PipeRecord /\ pipe[p].state \notin {"FREE", "INVALID"}
    BY DEF IInv, PipeInv, CommandNow, CommandBlock, CommandAllowed, Allocated
<1>2. CASE CommandNow(t, p, c)
    <2> DEFINE R == Commanded(pipe[p], c)
    <2>1. pipe' = [pipe EXCEPT ![p] = R] /\ UNCHANGED <<active, hw>>
        BY <1>2 DEF CommandNow
    <2>2. R.state # "INVALID"
        BY <1>1, RetireOk DEF Commanded, Blocking, Retire, PipeRecord
    <2>3. p \notin Elems(active) => Queue(R) = <<>>
        BY <1>1, StaysEmpty DEF RuleInv, EmptyUnlessActive
    <2> HIDE DEF R
    <2> QED BY <1>1, <2>1, <2>2, <2>3, ValidWell
<1>3. CASE CommandBlock(t, p, c)
    <2> DEFINE R == [pipe[p] EXCEPT !.cmd = TRUE, !.waiting = TRUE, !.waiter = t]
    <2>1. pipe' = [pipe EXCEPT ![p] = R] /\ UNCHANGED <<active, hw>>
        BY <1>1, <1>3 DEF CommandBlock, IInv, PipeInv
    <2>2. /\ R.state = pipe[p].state /\ R.pending = pipe[p].pending
          /\ R.done = pipe[p].done /\ R.inflight = pipe[p].inflight
        BY <1>1 DEF PipeRecord
    <2> HIDE DEF R
    <2> QED BY <2>1, <2>2, FieldWell
<1> QED BY <1>2, <1>3

LEMMA ClearWell ==
    ASSUME IInv, RuleInv, NEW t \in Tasks, NEW p \in Pipes, CommandClear(t, p)
    PROVE  AllTreatedWell
<1>1. /\ pipe[p] \in PipeRecord /\ pipe[p].state = "HALTED"
      /\ UNCHANGED active /\ hw' \subseteq hw \cup {p}
    BY DEF IInv, PipeInv, CommandClear
<1>2. CASE HasNext(pipe[p])
    <2> DEFINE r == TakeNext(pipe[p])
               R == [r EXCEPT !.state = "ACTIVE"]
    <2>1. pipe' = [pipe EXCEPT ![p] = R]
        BY <1>2 DEF CommandClear
    <2>2. r \in PipeRecord
        BY <1>1, <1>2, TakeNextOk DEF HasNext, SameKind
    <2>3. p \in Elems(active)
        BY <1>2, BusyIsActive DEF HasNext
    <2>4. R.state = "ACTIVE"
        BY <2>2 DEF PipeRecord
    <2> HIDE DEF R, r
    <2> QED BY <1>1, <2>1, <2>3, <2>4, ValidWell
<1>3. CASE ~HasNext(pipe[p])
    <2> DEFINE R == [pipe[p] EXCEPT !.state = "ACTIVE"]
    <2>1. pipe' = [pipe EXCEPT ![p] = R]
        BY <1>3 DEF CommandClear
    <2>2. R.state = "ACTIVE" /\ Queue(R) = Queue(pipe[p])
        BY <1>1 DEF PipeRecord, Queue, InFlightSeq
    <2> HIDE DEF R
    <2> QED BY <1>1, <2>1, <2>2, ValidWell DEF RuleInv, EmptyUnlessActive
<1> QED BY <1>2, <1>3

LEMMA ResumeWell ==
    ASSUME IInv, RuleInv, NEW t \in Tasks, ResumeInvalid(t) \/ ResumeDone(t)
    PROVE  AllTreatedWell
<1> DEFINE p == call[t].pipe
           c == call[t].op
<1>1. p \in Pipes /\ c \in Blocking /\ pipe[p] \in PipeRecord /\ UNCHANGED <<active, hw>>
    BY DEF IInv, PipeInv, RestInv, ResumeInvalid, ResumeDone, Resumes, InCommand, Blocking
<1>2. CASE ResumeInvalid(t)
    <2> DEFINE R == [pipe[p] EXCEPT !.waiter = NoTask, !.waiting = FALSE, !.cmd = FALSE]
    <2>1. pipe' = [pipe EXCEPT ![p] = R]
        BY <1>1, <1>2 DEF ResumeInvalid, IInv, PipeInv
    <2>2. /\ R.state = pipe[p].state /\ R.pending = pipe[p].pending
          /\ R.done = pipe[p].done /\ R.inflight = pipe[p].inflight
        BY <1>1 DEF PipeRecord
    <2> HIDE DEF R, p
    <2> QED BY <1>1, <2>1, <2>2, FieldWell
<1>3. CASE ResumeDone(t)
    <2> DEFINE r == Commanded(pipe[p], c)
               R == [r EXCEPT !.waiter = NoTask, !.cmd = FALSE]
    <2>1. pipe' = [pipe EXCEPT ![p] = R] /\ pipe[p].state \in {"ACTIVE", "HALTED"}
        BY <1>3 DEF ResumeDone, Valid
    <2>2. r \in PipeRecord /\ r.state # "INVALID"
        <3>1. r \in PipeRecord
            BY <1>1, <2>1, CommandedOk DEF SameKind
        <3>2. r.state # "INVALID"
            BY <1>1, <2>1, RetireOk DEF Commanded, Blocking, Retire, PipeRecord
        <3> QED BY <3>1, <3>2
    <2>3. p \notin Elems(active) => Queue(r) = <<>>
        BY <1>1, <2>1, StaysEmpty DEF RuleInv, EmptyUnlessActive
    <2> HIDE DEF r
    <2>4. R.state = r.state /\ Queue(R) = Queue(r)
        BY <2>2 DEF PipeRecord, Queue, InFlightSeq
    <2> HIDE DEF R, p
    <2> QED BY <1>1, <2>1, <2>2, <2>3, <2>4, ValidWell
<1> QED BY <1>2, <1>3

\* A transfer ends on a pipe that is active, and leaves it there.
LEMMA ChanWell ==
    ASSUME IInv, RuleInv, NEW p \in Pipes, ChanStep(p)
    PROVE  AllTreatedWell
<1>1. pipe[p] \in PipeRecord
    BY DEF IInv, PipeInv
<1>2. CASE ChanIgnored(p) \/ ChanDoneOrphan(p)
    BY <1>2, NoPipeWell DEF ChanIgnored, ChanDoneOrphan, Fail
<1>3. ASSUME p \in hw
      PROVE  /\ pipe[p].inflight # NoIrp /\ pipe[p].state \notin {"FREE", "INVALID"}
             /\ p \in Elems(active)
    <2>1. pipe[p].inflight # NoIrp /\ pipe[p].state # "FREE"
        BY <1>3, SlotHasIrp DEF IInv, PipeInv, ChannelHasIrp, Allocated
    <2> QED BY <1>3, <2>1, BusyIsActive DEF RuleInv, InvalidIsDrained
<1>4. ASSUME NEW R, p \in hw, pipe' = [pipe EXCEPT ![p] = R], UNCHANGED active,
             hw' \subseteq hw, R.state # "INVALID"
      PROVE  AllTreatedWell
    BY <1>3, <1>4, ValidWell
<1> DEFINE r == DoneQueue(pipe[p])
<1>5. ASSUME p \in hw
      PROVE  r \in PipeRecord /\ r.state \notin {"FREE", "INVALID"}
    BY <1>1, <1>3, <1>5, ChanDoneOk DEF SameKind
<1> HIDE DEF r
<1>6. CASE ChanDoneNext(p)
    <2>1. p \in hw /\ UNCHANGED active /\ hw' \subseteq hw
        BY <1>6 DEF ChanDoneNext, SlotDone
    <2>2. CASE HasNext(r)
        <3>1. pipe' = [pipe EXCEPT ![p] = TakeNext(r)]
            BY <1>6, <2>2 DEF ChanDoneNext, r
        <3>2. TakeNext(r).state # "INVALID"
            BY <1>5, <2>1, <2>2, TakeNextOk DEF HasNext
        <3> QED BY <1>4, <2>1, <3>1, <3>2
    <2>3. CASE ~HasNext(r)
        <3>1. pipe' = [pipe EXCEPT ![p] = r]
            BY <1>6, <2>3 DEF ChanDoneNext, r
        <3> QED BY <1>4, <1>5, <2>1, <3>1
    <2> QED BY <2>2, <2>3
<1>7. CASE ChanDonePause(p)
    <2> DEFINE R == [r EXCEPT !.waiting = FALSE, !.paused = TRUE]
    <2>1. /\ p \in hw /\ pipe' = [pipe EXCEPT ![p] = R] /\ UNCHANGED active
          /\ hw' \subseteq hw
        BY <1>7 DEF ChanDonePause, SlotDone, PausedOnDone, r
    <2>2. R.state # "INVALID"
        BY <1>5, <2>1 DEF PipeRecord
    <2> HIDE DEF R
    <2> QED BY <1>4, <2>1, <2>2
<1>8. CASE ChanDoneCommand(p)
    <2> DEFINE R == [r EXCEPT !.waiting = FALSE]
    <2>1. /\ p \in hw /\ pipe' = [pipe EXCEPT ![p] = R] /\ UNCHANGED active
          /\ hw' \subseteq hw
        BY <1>8 DEF ChanDoneCommand, SlotDone, r
    <2>2. R.state # "INVALID"
        BY <1>5, <2>1 DEF PipeRecord
    <2> HIDE DEF R
    <2> QED BY <1>4, <2>1, <2>2
<1>9. ASSUME NEW e \in ErrorEvents, ChanError(p, e)
      PROVE  AllTreatedWell
    <2> DEFINE d == ReturnCurIrp(pipe[p])
               R == [d EXCEPT !.state = "HALTED", !.last_event = e]
    <2>1. /\ p \in hw /\ pipe' = [pipe EXCEPT ![p] = R] /\ UNCHANGED active
          /\ hw' \subseteq hw
        BY <1>9 DEF ChanError
    <2>2. d \in PipeRecord
        BY <1>1, <1>3, <2>1, ReturnCurIrpOk DEF SameKind
    <2> HIDE DEF d
    <2>3. R.state # "INVALID"
        BY <2>2 DEF PipeRecord
    <2> HIDE DEF R
    <2> QED BY <1>4, <2>1, <2>3
<1> QED BY <1>2, <1>6, <1>7, <1>8, <1>9 DEF ChanStep

-----------------------------------------------------------------------------
(* The port and the walk over the pipes *)

LEMMA PauseWell ==
    ASSUME IInv, RuleInv, PausesAll
    PROVE  AllTreatedWell /\ UNCHANGED inval
<1>1. /\ pipe' = PausedPipes /\ UNCHANGED <<active, hw, inval>>
    BY DEF PausesAll
<1>2. ASSUME NEW p \in Pipes
      PROVE  TreatedWell(p)
    <2>1. pipe[p] \in PipeRecord
        BY DEF IInv, PipeInv
    <2>2. /\ pipe'[p].state = pipe[p].state /\ pipe'[p].pending = pipe[p].pending
          /\ pipe'[p].done = pipe[p].done /\ pipe'[p].inflight = pipe[p].inflight
        BY <1>1, <2>1 DEF PausedPipes, PipeRecord
    <2>3. Queue(pipe'[p]) = Queue(pipe[p])
        BY <2>2 DEF Queue, InFlightSeq
    <2> QED BY <1>1, <2>2, <2>3 DEF RuleInv, EmptyUnlessActive, InvalidIsDrained, TreatedWell
<1> QED BY <1>1, <1>2 DEF AllTreatedWell

LEMMA UnpauseWell ==
    ASSUME IInv, RuleInv, UnpauseAll
    PROVE  AllTreatedWell /\ UNCHANGED inval
<1> DEFINE starts == {p \in Elems(active) : HasNext(pipe[p])}
<1>1. /\ pipe' = [p \in Pipes |-> Unpaused(p)] /\ hw' = hw \cup starts
      /\ UNCHANGED <<active, inval>>
    BY DEF UnpauseAll
<1>2. ASSUME NEW p \in Pipes
      PROVE  TreatedWell(p)
    <2> DEFINE q == [pipe[p] EXCEPT !.paused = FALSE]
    <2>1. pipe[p] \in PipeRecord
        BY DEF IInv, PipeInv
    <2>2. /\ q \in PipeRecord /\ q.state = pipe[p].state /\ q.pending = pipe[p].pending
          /\ q.done = pipe[p].done /\ q.inflight = pipe[p].inflight
        BY <2>1 DEF PipeRecord
    <2>3. pipe'[p] = IF p \in Elems(active) /\ HasNext(q) THEN TakeNext(q) ELSE q
        BY <1>1 DEF Unpaused
    <2> HIDE DEF q
    <2>4. Queue(q) = Queue(pipe[p])
        BY <2>2 DEF Queue, InFlightSeq
    <2>5. CASE p \in Elems(active) /\ HasNext(q)
        <3>1. pipe'[p].state = pipe[p].state
            BY <2>2, <2>3, <2>5, TakeNextOk DEF HasNext
        <3>2. pipe[p].state # "INVALID"
            BY <2>2, <2>5 DEF RuleInv, InvalidIsDrained, HasNext
        <3>3. UNCHANGED active
            BY <1>1
        <3> QED BY <2>5, <3>1, <3>2, <3>3 DEF TreatedWell
    <2>6. CASE ~(p \in Elems(active) /\ HasNext(q))
        <3>1. pipe'[p] = q /\ p \notin starts /\ UNCHANGED active
            BY <1>1, <2>2, <2>3, <2>6 DEF HasNext
        <3>2. p \in hw' => p \in hw
            BY <1>1, <3>1
        <3> QED BY <2>2, <2>4, <3>1, <3>2 DEF RuleInv, EmptyUnlessActive, InvalidIsDrained,
                TreatedWell
    <2> QED BY <2>5, <2>6
<1> QED BY <1>1, <1>2 DEF AllTreatedWell

\* A pipe that is visited becomes invalid, with nothing left to execute.
LEMMA VisitWell ==
    ASSUME IInv, RuleInv, NEW v, Visit(v),
           v.cur # NoPipe => v.cur \in Pipes /\ Allocated(v.cur),
           v.phase = "idle" /\ v.cur # NoPipe => Queue(pipe[v.cur]) = <<>>
    PROVE  AllTreatedWell /\ RuleInv'
<1> DEFINE p == v.cur
           q == Invalidated(pipe[p])
<1>1. UNCHANGED active
    BY DEF Visit
<1>2. CASE p = NoPipe
    <2>1. inval'.phase = "off" /\ UNCHANGED <<pipe, hw>>
        BY <1>2 DEF Visit
    <2>2. AllTreatedWell
        BY <1>1, <2>1, NoPipeWell
    <2>3. RuleInv'
        BY <1>1, <2>1 DEF RuleInv, EmptyUnlessActive, InvalidIsDrained, WalkIsIdle
    <2> QED BY <2>2, <2>3
<1>3. CASE p # NoPipe
    <2>1. p \in Pipes /\ pipe[p] \in PipeRecord /\ pipe[p].state # "FREE" /\ inval' = v
        BY <1>3 DEF IInv, PipeInv, Allocated, Visit
    <2>2. /\ q \in PipeRecord /\ q.state = "INVALID"
          /\ q.inflight = pipe[p].inflight /\ q.pending = pipe[p].pending
        BY <2>1, InvalidatedOk DEF SameKind, Invalidated, PipeRecord
    <2>3. /\ Queue(pipe[p]) = <<>> => Queue(q) = <<>> /\ Queue(Emptied(q)) = <<>>
        BY <2>1, StaysEmpty
    <2>4. PICK R \in {q, Emptied(q)} :
             /\ pipe' = [pipe EXCEPT ![p] = R]
             /\ \/ R = Emptied(q) /\ hw' = hw \ {p} /\ v.phase = "active"
                \/ R = q /\ hw' = hw /\ v.phase = "idle"
        BY <1>3 DEF Visit, InvalidateActive, InvalidateIdle
    <2> HIDE DEF q
    <2>5. R.state = "INVALID"
        BY <2>2, <2>4, EmptiedOk
    <2>6. p \notin hw' /\ R.inflight = NoIrp /\ R.pending = <<>>
        <3>1. CASE R = Emptied(q) /\ hw' = hw \ {p}
            BY <2>2, <3>1, EmptiedOk
        <3>2. CASE R = q /\ hw' = hw /\ v.phase = "idle"
            <4>1. Queue(pipe[p]) = <<>>
                BY <1>3, <3>2
            <4>2. pipe[p].inflight = NoIrp /\ pipe[p].pending = <<>>
                BY <2>1, <4>1, QueueEmpty
            <4> QED BY <2>2, <3>2, <4>2 DEF IInv, PipeInv, ChannelHasIrp
        <3> QED BY <2>4, <3>1, <3>2
    <2>7. pipe'[p] = R
        BY <2>1, <2>4 DEF IInv, PipeInv
    <2>8. TreatedWell(p)
        BY <1>1, <2>1, <2>3, <2>4, <2>5, <2>6, <2>7 DEF TreatedWell, RuleInv, EmptyUnlessActive
    <2>9. AllTreatedWell
        BY <1>1, <2>1, <2>4, <2>8, OnePipeWell
    <2>10. EmptyUnlessActive' /\ InvalidIsDrained'
        BY <2>9 DEF AllTreatedWell, TreatedWell, EmptyUnlessActive, InvalidIsDrained
    <2>11. WalkIsIdle'
        <3>1. v.phase = "idle" => Queue(R) = <<>>
            BY <1>3, <2>3, <2>4
        <3> QED BY <2>1, <2>5, <2>7, <3>1 DEF WalkIsIdle
    <2> QED BY <2>9, <2>10, <2>11 DEF RuleInv
<1> QED BY <1>2, <1>3

\* The walk over the idle list stays in the idle list.
LEMMA IdleSuccessor ==
    ASSUME IInv, NEW p \in Elems(idle), Successor(p) # NoPipe
    PROVE  Successor(p) \in Elems(idle)
    BY DEF Successor, Elems

LEMMA InvalidateWell ==
    ASSUME IInv, RuleInv, InvalidateBegin \/ InvalidateNext
    PROVE  AllTreatedWell /\ RuleInv'
<1>1. \A p \in Elems(idle) : p \in Pipes /\ Allocated(p) /\ Queue(pipe[p]) = <<>>
    BY DEF IInv, PipeInv, Lists, RuleInv, EmptyUnlessActive
<1>2. \A p \in Elems(active) : p \in Pipes /\ Allocated(p)
    BY DEF IInv, PipeInv, Lists
<1>3. First(idle) # NoPipe => First(idle) \in Elems(idle)
    BY WalkReaches
<1>4. CASE InvalidateBegin
    <2> DEFINE v == WalkTo("active", First(active))
    <2>1. First(active) # NoPipe => First(active) \in Elems(active)
        BY WalkReaches
    <2>2. /\ v.cur # NoPipe => v.cur \in Pipes /\ Allocated(v.cur)
          /\ v.phase = "idle" /\ v.cur # NoPipe => Queue(pipe[v.cur]) = <<>>
        BY <1>1, <1>2, <1>3, <2>1 DEF WalkTo
    <2>3. Visit(v)
        BY <1>4 DEF InvalidateBegin
    <2> HIDE DEF v
    <2> QED BY <2>2, <2>3, VisitWell
<1>5. CASE InvalidateNext
    <2> DEFINE c == Successor(inval.cur)
               v == WalkTo(inval.phase, c)
    <2>1. inval.cur \in Pipes /\ Allocated(inval.cur) /\ inval.phase \in {"active", "idle"}
        BY <1>5 DEF IInv, RestInv, InvalidateNext, NoWalk
    <2>2. c # NoPipe => c \in Elems(idle) \cup Elems(active)
        BY <2>1, WalkReaches
    <2>3. inval.phase = "idle" /\ c # NoPipe => c \in Elems(idle)
        <3>1. inval.phase = "idle" => inval.cur \in Elems(idle)
            BY <2>1 DEF IInv, PipeInv, Lists, RuleInv, WalkIsIdle
        <3> QED BY <3>1, IdleSuccessor
    <2> HIDE DEF c
    <2>4. /\ v.cur # NoPipe => v.cur \in Pipes /\ Allocated(v.cur)
          /\ v.phase = "idle" /\ v.cur # NoPipe => Queue(pipe[v.cur]) = <<>>
        BY <1>1, <1>2, <1>3, <2>1, <2>2, <2>3 DEF WalkTo
    <2>5. Visit(v)
        BY <1>5 DEF InvalidateNext, c
    <2> HIDE DEF v
    <2> QED BY <2>4, <2>5, VisitWell
<1> QED BY <1>4, <1>5

-----------------------------------------------------------------------------
(* Every step *)

LEMMA NextWell ==
    ASSUME IInv, RuleInv, ClientRules, [PipeNext]_vars
    PROVE  AllTreatedWell /\ RuleInv'
<1>1. ASSUME UNCHANGED <<pipe, active, inval>>, hw' \subseteq hw
      PROVE  AllTreatedWell /\ RuleInv'
    BY <1>1, NoPipeWell, WellKeepsRules
<1>2. ASSUME NEW l, Fail(l)
      PROVE  AllTreatedWell /\ RuleInv'
    BY <1>1, <1>2 DEF Fail
<1>3. CASE UNCHANGED vars
    BY <1>1, <1>3 DEF vars
<1>4. ASSUME NEW t \in Tasks, CallStep(t)
      PROVE  AllTreatedWell /\ RuleInv'
    <2>1. CASE EnqueueFreed(t) \/ ResumeFreed(t) \/ ResumeRunning(t) \/ ResumeBusy(t)
        BY <1>2, <2>1 DEF EnqueueFreed, ResumeFreed, ResumeRunning, ResumeBusy
    <2>2. CASE EnqueueReject(t) \/ CommandWake(t)
        BY <1>1, <2>2 DEF EnqueueReject, CommandWake
    <2>3. CASE EnqueueStart(t) \/ EnqueuePend(t) \/ ResumeInvalid(t) \/ ResumeDone(t)
        <3>1. UNCHANGED inval
            BY <2>3 DEF EnqueueStart, EnqueuePend, ResumeInvalid, ResumeDone
        <3> QED BY <2>3, <3>1, EnqueueWell, ResumeWell, WellKeepsRules
    <2> QED BY <1>4, <2>1, <2>2, <2>3 DEF CallStep
<1>5. ASSUME NEW t \in Tasks, ClientStep(t)
      PROVE  AllTreatedWell /\ RuleInv'
    <2>1. CASE \E p \in Pipes, i \in Irps : EnqueueCheck(t, p, i)
        BY <1>1, <2>1 DEF EnqueueCheck
    <2>2. CASE \E p \in Pipes : DequeueMisplaced(t, p) \/ ClearBusy(t, p)
        BY <1>2, <2>2 DEF DequeueMisplaced, ClearBusy
    <2>3. CASE \/ \E p \in Pipes : Dequeue(t, p)
               \/ \E i \in Irps : AbortIrp(t, i)
        <3>1. UNCHANGED inval
            BY <2>3 DEF Dequeue, AbortIrp
        <3> QED BY <2>3, <3>1, DequeueWell, AbortWell, WellKeepsRules
    <2>4. CASE \/ \E p \in Pipes : Alloc(t, p) \/ FreePipe(t, p) \/ GetEvent(t, p)
               \/ \E p \in Pipes, a \in Addrs : Update(t, p, a)
        <3>1. UNCHANGED inval
            BY <2>4 DEF Alloc, FreePipe, GetEvent, Update
        <3> QED BY <2>4, <3>1, AllocWell, WellKeepsRules
    <2>5. CASE \/ \E p \in Pipes, c \in Blocking : CommandNow(t, p, c) \/ CommandBlock(t, p, c)
               \/ \E p \in Pipes : CommandClear(t, p)
        <3>1. UNCHANGED inval
            BY <2>5 DEF CommandNow, CommandBlock, CommandClear
        <3> QED BY <2>5, <3>1, CommandWell, ClearWell, WellKeepsRules
    <2> QED BY <1>4, <1>5, <2>1, <2>2, <2>3, <2>4, <2>5 DEF ClientStep
<1>6. ASSUME NEW p \in Pipes, ChanStep(p)
      PROVE  AllTreatedWell /\ RuleInv'
    <2>1. UNCHANGED inval
        BY <1>6 DEF ChanStep, ChanIgnored, ChanDoneNext, ChanDoneOrphan, ChanDonePause,
           ChanDoneCommand, ChanError, Fail
    <2> QED BY <1>6, <2>1, ChanWell, WellKeepsRules
<1>7. ASSUME PortStep
      PROVE  AllTreatedWell /\ RuleInv'
    <2>1. CASE PortOrphan \/ UnpauseBusy \/ InvalidateFreed
        BY <1>2, <2>1 DEF PortOrphan, UnpauseBusy, InvalidateFreed
    <2>2. CASE \/ PortEnabled \/ PortWake \/ PortReturn
               \/ \E s \in LossPortStates : PortLost(s)
               \/ \E s \in TaskPortStates : PortSet(s)
               \/ \E t \in Tasks : PortWait(t)
        BY <1>1, <2>2 DEF PortEnabled, PortWake, PortReturn, PortLost, PortSet, PortWait,
           PortUnchanged
    <2>3. CASE PauseAtOnce \/ \E t \in Tasks : PauseAndWait(t)
        BY <2>3, PauseWell, WellKeepsRules DEF PauseAtOnce, PauseAndWait
    <2>4. CASE UnpauseAll
        BY <2>4, UnpauseWell, WellKeepsRules
    <2>5. CASE InvalidateBegin \/ InvalidateNext
        BY <2>5, InvalidateWell
    <2> QED BY <1>7, <2>1, <2>2, <2>3, <2>4, <2>5 DEF PortStep
<1> QED BY <1>3, <1>5, <1>6, <1>7 DEF PipeNext

-----------------------------------------------------------------------------
(* The theorems *)

THEOREM RuleInvariant ==
    ASSUME ClientRules
    PROVE  PipeSpec => []RuleInv
<1>1. PipeInit => RuleInv
    <2> SUFFICES ASSUME PipeInit
                 PROVE  RuleInv
        OBVIOUS
    <2> DEFINE a == CHOOSE b \in Addrs : TRUE
    <2>1. pipe = [p \in Pipes |-> NewPipe("FREE", a)]
        BY DEF PipeInit
    <2> HIDE DEF a
    <2>2. \A p \in Pipes : Queue(pipe[p]) = <<>> /\ pipe[p].state = "FREE"
        <3>1. IInv
            BY InitHolds
        <3>2. \A p \in Pipes : pipe[p].state = "FREE"
            BY <2>1 DEF NewPipe
        <3> QED BY <3>1, <3>2 DEF IInv, PipeInv, FreeIsEmpty, Allocated
    <2>3. inval.phase = "off"
        BY DEF PipeInit
    <2> QED BY <2>2, <2>3 DEF RuleInv, EmptyUnlessActive, InvalidIsDrained, WalkIsIdle
<1>2. IInv /\ RuleInv /\ [PipeNext]_vars => RuleInv'
    BY NextWell
<1> QED BY <1>1, <1>2, Invariant, PTL DEF PipeSpec

\* A pipe is in the active list exactly while it has IRPs, although the list is only
\* changed by the enqueue that finds the pipe empty and the dequeue that leaves it so.
THEOREM ListsExact ==
    ASSUME ClientRules
    PROVE  PipeSpec => []QueuedIffActive
<1>1. IInv /\ RuleInv => QueuedIffActive
    BY DEF IInv, PipeInv, Lists, RuleInv, EmptyUnlessActive, QueuedIffActive
<1> QED BY <1>1, Invariant, RuleInvariant, PTL

\* An invalid pipe executes nothing: the walk over the pipes retired what it had, and
\* nothing that was under way when it became invalid adds or starts an IRP later.
THEOREM InvalidDrained ==
    ASSUME ClientRules
    PROVE  PipeSpec => []InvalidIsDrained
<1>1. RuleInv => InvalidIsDrained
    BY DEF RuleInv
<1> QED BY <1>1, RuleInvariant, PTL

\* Nothing brings an invalid pipe back: not the end of a command that waited for the
\* pipe, not an interrupt of its channel, not the resume of the port.
THEOREM InvalidForGood ==
    ASSUME ClientRules
    PROVE  PipeSpec => InvalidStays
<1> DEFINE S == \A p \in Pipes : pipe[p].state = "INVALID" =>
                    pipe'[p].state \in {"INVALID", "FREE"}
<1>1. IInv /\ RuleInv /\ [PipeNext]_vars => S
    BY NextWell DEF AllTreatedWell, TreatedWell
<1> HIDE DEF S
<1>2. PipeSpec => [][S]_vars
    BY <1>1, Invariant, RuleInvariant, PTL DEF PipeSpec
<1> QED BY <1>2 DEF InvalidStays, S

-----------------------------------------------------------------------------
(* What a command finds that was woken up, if the device stays and the port commands   *)
(* wait their turn ("turns").  WaitInv says whom a notification is for: the port       *)
(* commands and the pipe commands share the one notification value that a task has.    *)
(*                                                                                     *)
(* Most steps are calm: they wake up nobody, leave the port alone, and start no        *)
(* transfer on a pipe whose command has its answer.  The steps of the port, the two    *)
(* notifications and the two points where a task takes one are shown one by one.       *)

DeviceStays == LossPortStates = {}
TurnsTaken == "SUSPENDED" \in TaskPortStates => "turns" \in Rules

-----------------------------------------------------------------------------
(* The inductive invariant *)

\* A command of pipe p has been told that the transfer it waited for is over.
HasAnswer(p) ==
    \E t \in Tasks : /\ InCommand(t) /\ call[t].pipe = p
                     /\ t \in notified \/ call[t].woken

AnswerIsFinal == \A p \in Pipes : HasAnswer(p) => pipe[p].inflight = NoIrp

\* The pipes of a device that is gone are invalidated before they are used again; with
\* no such device there is nothing to walk over.
Connected == NoWalk /\ \A p \in Pipes : Allocated(p) => port.conn

\* The task of a port command is in no other function, and has no notification left
\* when it starts to wait, nor when it has taken the one it waited for.
PortWaits ==
    /\ port.waiter = NoTask => ~port.woken /\ ~port.waiting_all
    /\ port.waiter # NoTask => call[port.waiter].op = "none"
    /\ port.waiting_all => port.waiter \notin notified /\ ~port.woken
    /\ port.woken => port.waiter \notin notified

\* While a port command has the port in hand, no pipe command is under way.
OneTurn ==
    port.waiter # NoTask \/ port.state \in {"SUSPENDED", "RESUMING"} =>
        "SUSPENDED" \in TaskPortStates /\ \A p \in Pipes : ~pipe[p].cmd

\* Only a task that waits is notified, and once.
OneNotification ==
    /\ \A t \in notified : InCommand(t) \/ t = port.waiter
    /\ \A t \in Tasks : InCommand(t) /\ call[t].woken => t \notin notified

WaitInv == AnswerIsFinal /\ Connected /\ PortWaits /\ OneTurn /\ OneNotification

-----------------------------------------------------------------------------
(* Calm steps *)

\* The task goes on outside of a pipe command, or leaves the one it was in.
CalmTask(t) ==
    \/ call'[t] = call[t]
    \/ /\ ~InCommand(t) /\ port.waiter # t
       /\ call'[t].op \in {"none", "enqueue"}
    \/ /\ InCommand(t) /\ call[t].woken
       /\ call'[t].op = "none"

\* The step enters no command of pipe p, and starts no transfer that a command of p
\* would find when it has its answer.
CalmPipe(p) ==
    /\ pipe'[p].cmd => pipe[p].cmd
    /\ Allocated(p)' => Allocated(p) \/ port.conn
    /\ HasAnswer(p) /\ pipe[p].inflight = NoIrp => pipe'[p].inflight = NoIrp

\* A command has its answer only while the pipe says that it processes one.
LEMMA AnsweredIsCommanded ==
    ASSUME IInv, CommandExclusive, NEW p \in Pipes, Allocated(p), HasAnswer(p)
    PROVE  pipe[p].cmd
    BY DEF CommandExclusive, HasAnswer

LEMMA CalmStep ==
    ASSUME IInv, IInv', WaitInv, UNCHANGED <<port, inval, notified>>,
           \A t \in Tasks : CalmTask(t), \A p \in Pipes : CalmPipe(p)
    PROVE  WaitInv'
<1>1. \A t \in Tasks : InCommand(t)' => InCommand(t) /\ call'[t] = call[t]
    BY DEF CalmTask, InCommand, Blocking
<1>2. \A p \in Pipes : HasAnswer(p)' => HasAnswer(p)
    BY <1>1 DEF HasAnswer
<1>3. AnswerIsFinal'
    BY <1>2 DEF WaitInv, AnswerIsFinal, CalmPipe
<1>4. Connected' /\ OneTurn'
    BY DEF WaitInv, Connected, OneTurn, NoWalk, CalmPipe
<1>5. PortWaits'
    <2>1. port.waiter # NoTask => port.waiter \in Tasks
        BY DEF IInv, RestInv, PortRecord
    <2>2. port.waiter # NoTask => call'[port.waiter].op = "none"
        BY <2>1 DEF WaitInv, PortWaits, CalmTask, InCommand, Blocking
    <2> QED BY <2>2 DEF WaitInv, PortWaits
<1>6. OneNotification'
    <2>1. \A t \in notified : InCommand(t)' \/ t = port.waiter
        BY DEF WaitInv, OneNotification, CalmTask, InCommand, IInv, RestInv
    <2>2. \A t \in Tasks : InCommand(t)' /\ call'[t].woken => t \notin notified
        BY <1>1 DEF WaitInv, OneNotification
    <2> QED BY <2>1, <2>2 DEF OneNotification, InCommand
<1> QED BY <1>3, <1>4, <1>5, <1>6 DEF WaitInv

\* A step that changes pipe p alone: nothing comes in flight on p, or something was, or
\* no command of p has its answer.
LEMMA CalmOnePipe ==
    ASSUME IInv, NEW p \in Pipes, NEW R,
           pipe' = [pipe EXCEPT ![p] = R],
           R.cmd => pipe[p].cmd,
           R.state # "FREE" => Allocated(p) \/ port.conn,
           \/ R.inflight = NoIrp
           \/ R.inflight = pipe[p].inflight
           \/ pipe[p].inflight # NoIrp
           \/ ~HasAnswer(p)
    PROVE  \A r \in Pipes : CalmPipe(r)
    BY DEF CalmPipe, Allocated, IInv, PipeInv

\* The same, for a step that treats the pipe as the operations on pipe objects do.
LEMMA CalmKind ==
    ASSUME IInv, IInv', WaitInv, NEW p \in Pipes, NEW R,
           pipe' = [pipe EXCEPT ![p] = R],
           SameKind(pipe[p], R), SameCommand(pipe[p], R),
           \/ R.inflight = NoIrp
           \/ R.inflight = pipe[p].inflight
           \/ pipe[p].inflight # NoIrp
           \/ ~HasAnswer(p),
           UNCHANGED <<port, inval, notified, call>>
    PROVE  WaitInv'
<1>1. \A r \in Pipes : CalmPipe(r)
    BY CalmOnePipe DEF SameKind, SameCommand, Allocated
<1>2. \A t \in Tasks : CalmTask(t)
    BY DEF CalmTask
<1> QED BY <1>1, <1>2, CalmStep

\* A step that changes no pipe, and no task.
LEMMA NothingWaits ==
    ASSUME IInv, IInv', WaitInv, UNCHANGED <<pipe, port, inval, notified, call>>
    PROVE  WaitInv'
<1>1. \A t \in Tasks : CalmTask(t)
    BY DEF CalmTask
<1>2. \A p \in Pipes : CalmPipe(p)
    BY DEF CalmPipe, Allocated
<1> QED BY <1>1, <1>2, CalmStep

-----------------------------------------------------------------------------
(* The steps of the tasks *)

\* _pipe_wait_done: the task has no notification left from an earlier wait.
LEMMA BlockWaits ==
    ASSUME IInv, IInv', WaitInv, CommandExclusive, TurnsTaken,
           NEW t \in Tasks, NEW p \in Pipes, NEW c \in Blocking, CommandBlock(t, p, c)
    PROVE  WaitInv'
<1>1. /\ call[t].op = "none" /\ port.waiter # t /\ Allocated(p)
      /\ Keeps("turns", Steady)
      /\ pipe' = [pipe EXCEPT ![p].cmd = TRUE, ![p].waiting = TRUE, ![p].waiter = t]
      /\ call' = [call EXCEPT ![t] = [op |-> c, pipe |-> p, irp |-> NoIrp, woken |-> FALSE]]
      /\ UNCHANGED <<notified, inval, port>>
    BY DEF CommandBlock, CommandAllowed, CanCall
<1>2. t \notin notified
    BY <1>1 DEF WaitInv, OneNotification, InCommand, Blocking
<1>3. /\ call'[t].op = c /\ ~call'[t].woken
      /\ \A u \in Tasks : u # t => call'[u] = call[u]
    BY <1>1 DEF IInv, RestInv
<1>4. \A r \in Pipes : /\ pipe'[r].inflight = pipe[r].inflight
                       /\ Allocated(r)' <=> Allocated(r)
    BY <1>1 DEF Allocated, IInv, PipeInv, PipeRecord
<1>5. \A r \in Pipes : HasAnswer(r)' => HasAnswer(r)
    BY <1>1, <1>2, <1>3 DEF HasAnswer, InCommand
<1>6. AnswerIsFinal' /\ Connected'
    BY <1>1, <1>4, <1>5 DEF WaitInv, AnswerIsFinal, Connected, NoWalk
<1>7. PortWaits'
    BY <1>1, <1>3 DEF WaitInv, PortWaits, IInv, RestInv, PortRecord
<1>8. OneTurn'
    <2>1. ~(port.waiter # NoTask \/ port.state \in {"SUSPENDED", "RESUMING"})
        BY <1>1 DEF WaitInv, OneTurn, TurnsTaken, Keeps, Steady
    <2> QED BY <1>1, <2>1 DEF OneTurn
<1>9. OneNotification'
    BY <1>1, <1>2, <1>3 DEF WaitInv, OneNotification, InCommand, IInv, RestInv
<1> QED BY <1>6, <1>7, <1>8, <1>9 DEF WaitInv

\* ulTaskNotifyTake returns in a pipe command: the task has one notification, and it is
\* the answer.
LEMMA WakeWaits ==
    ASSUME IInv, IInv', WaitInv, NEW t \in Tasks, CommandWake(t)
    PROVE  WaitInv'
<1>1. /\ InCommand(t) /\ ~call[t].woken /\ t \in notified
      /\ notified' = notified \ {t}
      /\ call' = [call EXCEPT ![t].woken = TRUE]
      /\ UNCHANGED <<pipe, inval, port>>
    BY DEF CommandWake
<1>2. /\ call'[t].op = call[t].op /\ call'[t].pipe = call[t].pipe /\ call'[t].woken
      /\ \A u \in Tasks : u # t => call'[u] = call[u]
    BY <1>1 DEF IInv, RestInv, CallRecord
<1>3. \A r \in Pipes : HasAnswer(r)' => HasAnswer(r)
    BY <1>1, <1>2 DEF HasAnswer, InCommand
<1>4. AnswerIsFinal' /\ Connected' /\ OneTurn'
    BY <1>1, <1>3 DEF WaitInv, AnswerIsFinal, Connected, OneTurn, NoWalk, Allocated
<1>5. PortWaits'
    BY <1>1, <1>2 DEF WaitInv, PortWaits, IInv, RestInv, PortRecord
<1>6. OneNotification'
    BY <1>1, <1>2 DEF WaitInv, OneNotification, InCommand, IInv, RestInv
<1> QED BY <1>4, <1>5, <1>6 DEF WaitInv

\* The steps of a task inside a call.
LEMMA CallWaits ==
    ASSUME IInv, IInv', WaitInv, CommandExclusive, NEW t \in Tasks, CallStep(t)
    PROVE  WaitInv'
<1> DEFINE p == call[t].pipe
<1>1. ASSUME NEW l, Fail(l)
      PROVE  WaitInv'
    BY <1>1, NothingWaits DEF Fail
<1>2. CASE EnqueueReject(t) \/ EnqueueStart(t) \/ EnqueuePend(t)
    <2>1. /\ call[t].op = "enqueue" /\ Return(t) /\ UNCHANGED <<port, inval, notified>>
          /\ p \in Pipes /\ pipe[p] \in PipeRecord
        BY <1>2 DEF EnqueueReject, EnqueueStart, EnqueuePend, Enqueuing, IInv, RestInv,
                    PipeInv
    <2>2. \A u \in Tasks : CalmTask(u)
        <3>1. port.waiter # t
            BY <2>1, NullAssumption DEF WaitInv, PortWaits
        <3>2. call'[t].op = "none" /\ \A u \in Tasks : u # t => call'[u] = call[u]
            BY <2>1 DEF Return, IdleCall, IInv, RestInv
        <3> QED BY <2>1, <3>1, <3>2 DEF CalmTask, InCommand, Blocking
    <2>3. \A r \in Pipes : CalmPipe(r)
        <3>1. CASE EnqueueReject(t)
            BY <3>1 DEF EnqueueReject, CalmPipe, Allocated
        <3>2. CASE EnqueueStart(t)
            <4> DEFINE R == [pipe[p] EXCEPT !.inflight = call[t].irp]
            <4>1. pipe' = [pipe EXCEPT ![p] = R] /\ Allocated(p) /\ ~pipe[p].cmd
                BY <3>2 DEF EnqueueStart, Accepts
            <4>2. ~HasAnswer(p)
                BY <2>1, <4>1, AnsweredIsCommanded
            <4>3. R.cmd = pipe[p].cmd
                BY <2>1 DEF PipeRecord
            <4> HIDE DEF R
            <4> QED BY <2>1, <4>1, <4>2, <4>3, CalmOnePipe
        <3>3. CASE EnqueuePend(t)
            <4> DEFINE R == [pipe[p] EXCEPT !.pending = Append(@, call[t].irp)]
            <4>1. pipe' = [pipe EXCEPT ![p] = R] /\ Allocated(p)
                BY <3>3 DEF EnqueuePend
            <4>2. R.cmd = pipe[p].cmd /\ R.inflight = pipe[p].inflight
                BY <2>1 DEF PipeRecord
            <4> HIDE DEF R
            <4> QED BY <2>1, <4>1, <4>2, CalmOnePipe
        <3> QED BY <1>2, <3>1, <3>2, <3>3
    <2> QED BY <2>1, <2>2, <2>3, CalmStep
<1>3. CASE CommandWake(t)
    BY <1>3, WakeWaits
<1>4. CASE ResumeInvalid(t) \/ ResumeDone(t)
    <2>1. /\ InCommand(t) /\ call[t].woken /\ Return(t) /\ UNCHANGED <<port, inval, notified>>
          /\ p \in Pipes /\ pipe[p] \in PipeRecord /\ Allocated(p) /\ call[t].op \in Blocking
          /\ pipe[p].state # "FREE"
        BY <1>4 DEF ResumeInvalid, ResumeDone, Resumes, InCommand, Blocking, Valid, Allocated,
                    IInv, RestInv, PipeInv
    <2>2. \A u \in Tasks : CalmTask(u)
        <3>1. call'[t].op = "none" /\ \A u \in Tasks : u # t => call'[u] = call[u]
            BY <2>1 DEF Return, IdleCall, IInv, RestInv
        <3> QED BY <2>1, <3>1 DEF CalmTask
    <2>3. PICK R : /\ pipe' = [pipe EXCEPT ![p] = R]
                   /\ R.cmd = FALSE /\ R.inflight = pipe[p].inflight
        <3>1. CASE ResumeInvalid(t)
            <4> DEFINE Q == [pipe[p] EXCEPT !.waiter = NoTask, !.waiting = FALSE, !.cmd = FALSE]
            <4>1. pipe' = [pipe EXCEPT ![p] = Q]
                BY <3>1 DEF ResumeInvalid
            <4>2. Q.cmd = FALSE /\ Q.inflight = pipe[p].inflight
                BY <2>1 DEF PipeRecord
            <4> HIDE DEF Q
            <4> QED BY <4>1, <4>2
        <3>2. CASE ResumeDone(t)
            <4> DEFINE r == Commanded(pipe[p], call[t].op)
                       Q == [r EXCEPT !.waiter = NoTask, !.cmd = FALSE]
            <4>1. pipe' = [pipe EXCEPT ![p] = Q]
                BY <3>2 DEF ResumeDone
            <4>2. r \in PipeRecord /\ r.inflight = pipe[p].inflight
                BY <2>1, CommandedOk DEF SameKind
            <4> HIDE DEF r
            <4>3. Q.cmd = FALSE /\ Q.inflight = r.inflight
                BY <4>2 DEF PipeRecord
            <4> HIDE DEF Q
            <4> QED BY <4>1, <4>2, <4>3
        <3> QED BY <1>4, <3>1, <3>2
    <2>4. \A r \in Pipes : CalmPipe(r)
        BY <2>1, <2>3, CalmOnePipe
    <2> QED BY <2>1, <2>2, <2>4, CalmStep
<1> QED BY <1>1, <1>2, <1>3, <1>4
        DEF CallStep, EnqueueFreed, ResumeFreed, ResumeRunning, ResumeBusy

\* The steps of a task that calls the driver.
LEMMA ClientWaits ==
    ASSUME IInv, IInv', WaitInv, CommandExclusive, TurnsTaken, NEW t \in Tasks, ClientStep(t)
    PROVE  WaitInv'
<1>1. ASSUME NEW l, Fail(l)
      PROVE  WaitInv'
    BY <1>1, NothingWaits DEF Fail
<1>2. ASSUME NEW p \in Pipes, NEW i \in Irps, EnqueueCheck(t, p, i)
      PROVE  WaitInv'
    <2>1. /\ call[t].op = "none" /\ port.waiter # t /\ call'[t].op = "enqueue"
          /\ \A u \in Tasks : u # t => call'[u] = call[u]
          /\ UNCHANGED <<pipe, port, inval, notified>>
        BY <1>2 DEF EnqueueCheck, CanCall, IInv, RestInv
    <2>2. \A u \in Tasks : CalmTask(u)
        BY <2>1 DEF CalmTask, InCommand, Blocking
    <2>3. \A r \in Pipes : CalmPipe(r)
        BY <2>1 DEF CalmPipe, Allocated
    <2> QED BY <2>1, <2>2, <2>3, CalmStep
<1>3. ASSUME NEW p \in Pipes,
             \/ Dequeue(t, p) \/ GetEvent(t, p) \/ \E a \in Addrs : Update(t, p, a)
             \/ \E i \in Irps : p = irp[i].ptr /\ AbortIrp(t, i)
      PROVE  WaitInv'
    <2>1. UNCHANGED <<call, port, inval, notified>>
        BY <1>3 DEF Dequeue, GetEvent, Update, AbortIrp
    <2>2. PICK v, w : \/ pipe' = [pipe EXCEPT ![p].done = v]
                      \/ pipe' = [pipe EXCEPT ![p].last_event = v]
                      \/ pipe' = [pipe EXCEPT ![p].addr = v]
                      \/ pipe' = [pipe EXCEPT ![p].pending = v, ![p].done = w]
        BY <1>3 DEF Dequeue, GetEvent, Update, AbortIrp
    <2>3. \A r \in Pipes : /\ Allocated(r)' <=> Allocated(r)
                           /\ SameCommand(pipe[r], pipe'[r])
        BY <2>2, FieldKeepsCommand DEF IInv, PipeInv
    <2>4. \A r \in Pipes : pipe'[r].inflight = pipe[r].inflight
        <3>1. pipe \in [Pipes -> PipeRecord]
            BY DEF IInv, PipeInv
        <3>2. \A r \in Pipes : r # p => pipe'[r] = pipe[r]
            BY <2>2, <3>1
        <3>3. pipe'[p].inflight = pipe[p].inflight
            BY <2>2, <3>1 DEF PipeRecord
        <3> QED BY <3>2, <3>3
    <2>5. \A r \in Pipes : CalmPipe(r)
        BY <2>3, <2>4 DEF CalmPipe, SameCommand
    <2>6. \A u \in Tasks : CalmTask(u)
        BY <2>1 DEF CalmTask
    <2> QED BY <2>1, <2>5, <2>6, CalmStep
<1>4. ASSUME NEW i \in Irps, AbortIrp(t, i)
      PROVE  WaitInv'
    <2>1. irp[i].ptr \in Pipes
        BY <1>4 DEF AbortIrp, IInv, PipeInv, PendingPlaced
    <2> QED BY <1>3, <1>4, <2>1
<1>5. ASSUME NEW p \in Pipes, Alloc(t, p) \/ FreePipe(t, p)
      PROVE  WaitInv'
    <2>1. PICK s \in {"FREE", "ACTIVE"}, a \in Addrs :
             /\ pipe' = [pipe EXCEPT ![p] = NewPipe(s, a)]
             /\ s # "FREE" => port.conn
        BY <1>5, PipeFieldTypes DEF Alloc, FreePipe, IInv, PipeInv
    <2>2. UNCHANGED <<call, port, inval, notified>>
        BY <1>5 DEF Alloc, FreePipe
    <2>3. \A r \in Pipes : CalmPipe(r)
        BY <2>1, NewPipeOk, CalmOnePipe
    <2>4. \A u \in Tasks : CalmTask(u)
        BY <2>2 DEF CalmTask
    <2> QED BY <2>2, <2>3, <2>4, CalmStep
<1>6. ASSUME NEW p \in Pipes, NEW c \in Blocking, CommandNow(t, p, c)
      PROVE  WaitInv'
    <2> DEFINE R == Commanded(pipe[p], c)
    <2>1. /\ pipe[p] \in PipeRecord /\ pipe[p].state # "FREE"
          /\ UNCHANGED <<call, port, inval, notified>>
          /\ pipe' = [pipe EXCEPT ![p] = R]
        BY <1>6 DEF CommandNow, CommandAllowed, Allocated, IInv, PipeInv
    <2>2. SameKind(pipe[p], R) /\ SameCommand(pipe[p], R) /\ R.inflight = pipe[p].inflight
        BY <2>1, CommandedOk
    <2> HIDE DEF R
    <2> QED BY <2>1, <2>2, CalmKind
<1>7. ASSUME NEW p \in Pipes, CommandClear(t, p)
      PROVE  WaitInv'
    <2>1. /\ pipe[p] \in PipeRecord /\ UNCHANGED <<call, port, inval, notified>>
          /\ Allocated(p) /\ ~pipe[p].cmd
          /\ \/ pipe' = [pipe EXCEPT ![p].state = "ACTIVE"]
             \/ /\ pipe[p].pending # <<>>
                /\ pipe' = [pipe EXCEPT ![p] = [TakeNext(pipe[p]) EXCEPT !.state = "ACTIVE"]]
        BY <1>7 DEF CommandClear, CommandAllowed, HasNext, IInv, PipeInv
    <2>2. ~HasAnswer(p)
        BY <2>1, AnsweredIsCommanded
    <2>3. /\ \A r \in Pipes : r # p => pipe'[r] = pipe[r]
          /\ pipe'[p].cmd = pipe[p].cmd
        <3>1. CASE pipe' = [pipe EXCEPT ![p].state = "ACTIVE"]
            BY <2>1, <3>1 DEF IInv, PipeInv, PipeRecord
        <3>2. CASE /\ pipe[p].pending # <<>>
                   /\ pipe' = [pipe EXCEPT ![p] =
                                  [TakeNext(pipe[p]) EXCEPT !.state = "ACTIVE"]]
            <4> DEFINE r == TakeNext(pipe[p])
            <4>1. r \in PipeRecord /\ SameCommand(pipe[p], r)
                BY <2>1, <3>2, TakeNextOk DEF SameKind
            <4>2. pipe' = [pipe EXCEPT ![p] = [r EXCEPT !.state = "ACTIVE"]]
                BY <3>2
            <4> HIDE DEF r
            <4> QED BY <4>1, <4>2 DEF SameCommand, PipeRecord, IInv, PipeInv
        <3> QED BY <2>1, <3>1, <3>2
    <2>4. \A r \in Pipes : CalmPipe(r)
        BY <2>1, <2>2, <2>3 DEF CalmPipe, Allocated
    <2>5. \A u \in Tasks : CalmTask(u)
        BY <2>1 DEF CalmTask
    <2> QED BY <2>1, <2>4, <2>5, CalmStep
<1>8. ASSUME NEW p \in Pipes, NEW c \in Blocking, CommandBlock(t, p, c)
      PROVE  WaitInv'
    BY <1>8, BlockWaits
<1>9. CASE CallStep(t)
    BY <1>9, CallWaits
<1> QED BY <1>1, <1>2, <1>3, <1>4, <1>5, <1>6, <1>7, <1>8, <1>9
        DEF ClientStep, DequeueMisplaced, ClearBusy

-----------------------------------------------------------------------------
(* The channel interrupt *)

\* The interrupt notifies the task of the command: it waits, and for this pipe.
LEMMA AnswerWaits ==
    ASSUME IInv, IInv', WaitInv, CommandExclusive, NEW p \in Pipes, ChanDoneCommand(p)
    PROVE  WaitInv'
<1> DEFINE R == [DoneQueue(pipe[p]) EXCEPT !.waiting = FALSE]
           w == pipe[p].waiter
<1>1. /\ p \in hw /\ w # NoTask /\ pipe' = [pipe EXCEPT ![p] = R]
      /\ notified' = notified \cup {w} /\ UNCHANGED <<call, inval, port>>
    BY DEF ChanDoneCommand, SlotDone, Notify
<1>2. pipe[p] \in PipeRecord /\ pipe[p].inflight # NoIrp /\ Allocated(p)
    BY <1>1, SlotHasIrp
<1>3. pipe[p].cmd /\ w \in Tasks /\ InCommand(w) /\ call[w].pipe = p
    BY <1>1, <1>2 DEF CommandExclusive
<1>4. ~call[w].woken
    BY <1>2, <1>3 DEF WaitInv, AnswerIsFinal, HasAnswer
<1>5. port.waiter = NoTask /\ port.state \notin {"SUSPENDED", "RESUMING"}
    BY <1>3 DEF WaitInv, OneTurn
<1>6. SameKind(pipe[p], R) /\ SameCommand(pipe[p], R)
    BY <1>2, PausedOnDoneOk
<1>7. R.inflight = NoIrp
    <2>1. DoneQueue(pipe[p]) \in PipeRecord /\ DoneQueue(pipe[p]).inflight = NoIrp
        BY <1>2, ChanDoneOk DEF SameKind
    <2> QED BY <2>1 DEF PipeRecord
<1> HIDE DEF R, w
<1>8. pipe'[p] = R /\ \A r \in Pipes : r # p => pipe'[r] = pipe[r]
    BY <1>1 DEF IInv, PipeInv
<1>9. AnswerIsFinal'
    <2>1. \A r \in Pipes : r # p /\ HasAnswer(r)' => HasAnswer(r)
        BY <1>1, <1>3 DEF HasAnswer, InCommand
    <2> QED BY <1>7, <1>8, <2>1 DEF WaitInv, AnswerIsFinal
<1>10. Connected' /\ OneTurn'
    BY <1>1, <1>5, <1>6, <1>8
       DEF WaitInv, Connected, OneTurn, NoWalk, Allocated, SameKind
<1>11. PortWaits'
    BY <1>1, <1>5 DEF WaitInv, PortWaits
<1>12. OneNotification'
    BY <1>1, <1>3, <1>4 DEF WaitInv, OneNotification, InCommand
<1> QED BY <1>9, <1>10, <1>11, <1>12 DEF WaitInv

\* The interrupt of the last pipe that the port waits for notifies the port's task.
LEMMA PauseWaits ==
    ASSUME IInv, IInv', WaitInv, NEW p \in Pipes, ChanDonePause(p)
    PROVE  WaitInv'
<1> DEFINE R == PausedOnDone(pipe[p])
           last == port.num_waiting = 1
<1>1. /\ p \in hw /\ port.waiting_all
      /\ pipe' = [pipe EXCEPT ![p] = R]
      /\ port' = [port EXCEPT !.num_waiting = @ - 1, !.waiting_all = ~last]
      /\ IF last THEN notified' = notified \cup {port.waiter} ELSE notified' = notified
      /\ UNCHANGED <<call, inval>>
    BY DEF ChanDonePause, SlotDone, Notify
<1>2. pipe[p] \in PipeRecord /\ pipe[p].inflight # NoIrp
    BY <1>1, SlotHasIrp
<1>3. SameKind(pipe[p], R) /\ SameCommand(pipe[p], R)
    BY <1>2, PausedOnDoneOk
<1>4. R.inflight = NoIrp
    <2>1. DoneQueue(pipe[p]) \in PipeRecord /\ DoneQueue(pipe[p]).inflight = NoIrp
        BY <1>2, ChanDoneOk DEF SameKind
    <2> QED BY <2>1 DEF PausedOnDone, PipeRecord
<1>5. /\ port'.waiter = port.waiter /\ port'.woken = port.woken /\ port'.state = port.state
      /\ port'.conn = port.conn /\ port'.waiting_all = ~last
    BY <1>1 DEF IInv, RestInv, PortRecord
<1>6. port.waiter # NoTask /\ call[port.waiter].op = "none" /\ ~port.woken
      /\ port.waiter \in Tasks
    BY <1>1 DEF WaitInv, PortWaits, IInv, RestInv, PortRecord
<1> HIDE DEF R, last
<1>7. pipe'[p] = R /\ \A r \in Pipes : r # p => pipe'[r] = pipe[r]
    BY <1>1 DEF IInv, PipeInv
<1>8. AnswerIsFinal'
    <2>1. \A t \in Tasks : InCommand(t) /\ t \in notified' => t \in notified
        BY <1>1, <1>6 DEF InCommand, Blocking
    <2>2. \A r \in Pipes : HasAnswer(r)' => HasAnswer(r)
        BY <1>1, <2>1 DEF HasAnswer, InCommand
    <2> QED BY <1>4, <1>7, <2>2 DEF WaitInv, AnswerIsFinal
<1>9. Connected' /\ OneTurn'
    <2>1. \A r \in Pipes : /\ Allocated(r)' => Allocated(r)
                           /\ pipe'[r].cmd = pipe[r].cmd
        BY <1>3, <1>7 DEF Allocated, SameKind, SameCommand
    <2> QED BY <1>1, <1>5, <2>1 DEF WaitInv, Connected, OneTurn, NoWalk
<1>10. PortWaits'
    <2>1. CASE last
        BY <1>1, <1>5, <1>6, <2>1 DEF PortWaits
    <2>2. CASE ~last
        BY <1>1, <1>5, <1>6, <2>2 DEF WaitInv, PortWaits
    <2> QED BY <2>1, <2>2
<1>11. OneNotification'
    BY <1>1, <1>5, <1>6 DEF WaitInv, OneNotification, InCommand, Blocking
<1> QED BY <1>8, <1>9, <1>10, <1>11 DEF WaitInv

\* Every interrupt of a channel.
LEMMA ChanWaits ==
    ASSUME IInv, IInv', WaitInv, CommandExclusive, NEW p \in Pipes, ChanStep(p)
    PROVE  WaitInv'
<1>1. CASE ChanIgnored(p)
    BY <1>1, NothingWaits DEF ChanIgnored
<1>2. CASE ChanDoneOrphan(p)
    BY <1>2, NothingWaits DEF ChanDoneOrphan, Fail
<1>3. ASSUME p \in hw
      PROVE  pipe[p] \in PipeRecord /\ pipe[p].inflight # NoIrp /\ pipe[p].state # "FREE"
    BY <1>3, SlotHasIrp
<1>4. CASE ChanDoneNext(p)
    <2> DEFINE q == DoneQueue(pipe[p])
    <2>1. /\ SameKind(pipe[p], q) /\ SameCommand(pipe[p], q) /\ q \in PipeRecord
          /\ pipe[p].inflight # NoIrp
        BY <1>3, <1>4, ChanDoneOk DEF ChanDoneNext, SlotDone, SameKind
    <2>2. /\ UNCHANGED <<call, port, inval, notified>>
          /\ \/ pipe' = [pipe EXCEPT ![p] = q]
             \/ q.pending # <<>> /\ pipe' = [pipe EXCEPT ![p] = TakeNext(q)]
        BY <1>4 DEF ChanDoneNext, HasNext
    <2> HIDE DEF q
    <2>3. CASE pipe' = [pipe EXCEPT ![p] = q]
        BY <2>1, <2>2, <2>3, CalmKind
    <2>4. CASE q.pending # <<>> /\ pipe' = [pipe EXCEPT ![p] = TakeNext(q)]
        <3>1. SameKind(q, TakeNext(q)) /\ SameCommand(q, TakeNext(q))
            BY <2>1, <2>4, TakeNextOk
        <3>2. SameKind(pipe[p], TakeNext(q)) /\ SameCommand(pipe[p], TakeNext(q))
            BY <2>1, <3>1 DEF SameKind, SameCommand
        <3> QED BY <2>1, <2>2, <2>4, <3>2, CalmKind
    <2> QED BY <2>2, <2>3, <2>4
<1>5. CASE ChanDonePause(p)
    BY <1>5, PauseWaits
<1>6. CASE ChanDoneCommand(p)
    BY <1>6, AnswerWaits
<1>7. ASSUME NEW e \in ErrorEvents, ChanError(p, e)
      PROVE  WaitInv'
    <2> DEFINE R == [ReturnCurIrp(pipe[p]) EXCEPT !.state = "HALTED", !.last_event = e]
    <2>1. /\ SameKind(pipe[p], R) /\ SameCommand(pipe[p], R)
          /\ pipe[p].inflight # NoIrp
        BY <1>3, <1>7, ChanErrorOk DEF ChanError
    <2>2. /\ UNCHANGED <<call, port, inval, notified>>
          /\ pipe' = [pipe EXCEPT ![p] = R]
        BY <1>7 DEF ChanError
    <2> HIDE DEF R
    <2> QED BY <2>1, <2>2, CalmKind
<1> QED BY <1>1, <1>2, <1>4, <1>5, <1>6, <1>7 DEF ChanStep

-----------------------------------------------------------------------------
(* The steps of the port *)

\* A step of the port that notifies nobody new, and leaves what is in flight.
LEMMA PortKeeps ==
    ASSUME IInv, IInv', WaitInv, UNCHANGED <<call, inval>>, notified' \subseteq notified,
           \A r \in Pipes : /\ HasAnswer(r) => pipe'[r].inflight = pipe[r].inflight
                            /\ Allocated(r)' => Allocated(r)
                            /\ pipe'[r].cmd = pipe[r].cmd,
           port.conn => port'.conn,
           PortWaits', OneTurn', \A t \in notified' : InCommand(t) \/ t = port'.waiter
    PROVE  WaitInv'
<1>1. \A r \in Pipes : HasAnswer(r)' => HasAnswer(r)
    BY DEF HasAnswer, InCommand
<1>2. AnswerIsFinal' /\ Connected'
    BY <1>1 DEF WaitInv, AnswerIsFinal, Connected, NoWalk
<1>3. OneNotification'
    BY DEF WaitInv, OneNotification, InCommand
<1> QED BY <1>2, <1>3 DEF WaitInv

\* The steps that change no pipe.
LEMMA PortMovesWait ==
    ASSUME IInv, IInv', WaitInv, DeviceStays,
           PortEnabled \/ PortWake \/ PortReturn \/ \E s \in TaskPortStates : PortSet(s)
    PROVE  WaitInv'
<1>1. /\ UNCHANGED <<pipe, call, inval>> /\ port \in PortRecord
      /\ notified \subseteq Tasks
    BY DEF PortEnabled, PortWake, PortReturn, PortSet, PortUnchanged, IInv, RestInv
<1>2. \A r \in Pipes : /\ HasAnswer(r) => pipe'[r].inflight = pipe[r].inflight
                       /\ Allocated(r)' => Allocated(r)
                       /\ pipe'[r].cmd = pipe[r].cmd
    BY <1>1 DEF Allocated
<1>3. CASE PortEnabled
    <2>1. /\ notified' = notified /\ port'.conn /\ port'.state = "ENABLED"
          /\ port'.waiter = port.waiter /\ port'.woken = port.woken
          /\ port'.waiting_all = port.waiting_all
        BY <1>1, <1>3 DEF PortEnabled, PortRecord
    <2>2. PortWaits' /\ OneTurn'
        BY <1>1, <2>1 DEF WaitInv, PortWaits, OneTurn
    <2> QED BY <1>1, <1>2, <2>1, <2>2, PortKeeps DEF WaitInv, OneNotification
<1>4. CASE \E s \in TaskPortStates : PortSet(s)
    <2>1. PICK s \in TaskPortStates : PortSet(s)
        BY <1>4
    <2>2. /\ notified' = notified /\ port'.conn = port.conn /\ port'.state = s
          /\ port'.waiter = port.waiter /\ port'.woken = port.woken
          /\ port'.waiting_all = port.waiting_all /\ port.waiter = NoTask
        BY <1>1, <2>1 DEF PortSet, PortRecord
    <2>3. s = "SUSPENDED" \/ s = "RESUMING" => port.state = "SUSPENDED"
        BY <2>1 DEF PortSet, PortMoves
    <2>4. PortWaits' /\ OneTurn'
        BY <1>1, <2>2, <2>3 DEF WaitInv, PortWaits, OneTurn
    <2> QED BY <1>1, <1>2, <2>2, <2>4, PortKeeps DEF WaitInv, OneNotification
<1>5. CASE PortWake
    <2>1. /\ port.waiter \in notified /\ notified' = notified \ {port.waiter}
          /\ port'.woken /\ port'.conn = port.conn /\ port'.state = port.state
          /\ port'.waiter = port.waiter /\ port'.waiting_all = port.waiting_all
        BY <1>1, <1>5 DEF PortWake, PortRecord
    <2>2. port.waiter # NoTask
        BY <1>1, <2>1, NullAssumption
    <2>3. PortWaits' /\ OneTurn'
        BY <1>1, <2>1, <2>2 DEF WaitInv, PortWaits, OneTurn
    <2> QED BY <1>1, <1>2, <2>1, <2>3, PortKeeps DEF WaitInv, OneNotification
<1>6. CASE PortReturn
    <2>1. /\ port.woken /\ notified' = notified /\ port'.conn = port.conn
          /\ port'.waiter = NoTask /\ ~port'.woken
          /\ port'.waiting_all = port.waiting_all
          /\ port'.state = port.state \/ port'.state = "SUSPENDED"
        BY <1>1, <1>6 DEF DeviceStays, PortReturn, PortRecord
    <2>2. port.waiter # NoTask /\ port.waiter \notin notified /\ ~port.waiting_all
        BY <2>1 DEF WaitInv, PortWaits
    <2>3. PortWaits' /\ OneTurn'
        BY <1>1, <2>1, <2>2 DEF WaitInv, PortWaits, OneTurn
    <2> QED BY <1>1, <1>2, <2>1, <2>2, <2>3, PortKeeps DEF WaitInv, OneNotification
<1> QED BY <1>3, <1>4, <1>5, <1>6

\* _port_pause_all_pipes: no pipe command is under way.
LEMMA PausesWait ==
    ASSUME IInv, IInv', WaitInv, TurnsTaken, DeviceStays,
           PauseAtOnce \/ \E t \in Tasks : PauseAndWait(t)
    PROVE  WaitInv'
<1>1. /\ "SUSPENDED" \in TaskPortStates /\ Steady /\ UNCHANGED <<call, inval, notified>>
      /\ pipe' = PausedPipes /\ \A p \in Pipes : ~pipe[p].cmd
    BY DEF PauseAtOnce, PauseAndWait, PausesAll, TurnsTaken, Keeps
<1>2. \A r \in Pipes : /\ pipe'[r].inflight = pipe[r].inflight
                       /\ Allocated(r)' <=> Allocated(r)
                       /\ pipe'[r].cmd = pipe[r].cmd
    BY <1>1 DEF PausedPipes, Allocated, IInv, PipeInv, PipeRecord
<1>3. port \in PortRecord /\ port.waiter = NoTask /\ ~port.woken /\ ~port.waiting_all
    BY <1>1 DEF Steady, WaitInv, PortWaits, IInv, RestInv
<1>4. /\ port'.conn = port.conn /\ ~port'.woken
      /\ \/ port'.waiter = NoTask /\ ~port'.waiting_all
         \/ \E t \in Tasks : CanCall(t) /\ port'.waiter = t
    <2>1. CASE PauseAtOnce
        BY <1>3, <2>1 DEF PauseAtOnce, DeviceStays, PortRecord
    <2>2. CASE \E t \in Tasks : PauseAndWait(t)
        <3>1. PICK t \in Tasks : PauseAndWait(t)
            BY <2>2
        <3>2. port'.conn = port.conn /\ ~port'.woken /\ port'.waiter = t /\ CanCall(t)
            BY <1>3, <3>1 DEF PauseAndWait, PortRecord
        <3> QED BY <3>2
    <2> QED BY <2>1, <2>2
<1>5. \A t \in notified : InCommand(t)
    BY <1>3, NullAssumption DEF WaitInv, OneNotification, IInv, RestInv
<1>6. \A t \in Tasks : CanCall(t) => t \notin notified
    BY <1>5 DEF CanCall, InCommand, Blocking
<1>7. PortWaits'
    BY <1>1, <1>4, <1>6, NullAssumption DEF PortWaits, CanCall
<1>8. OneTurn'
    BY <1>1, <1>2 DEF OneTurn
<1> QED BY <1>1, <1>2, <1>4, <1>5, <1>7, <1>8, PortKeeps

\* _port_unpause_all_pipes starts transfers, on pipes that process no command.
LEMMA UnpauseWaits ==
    ASSUME IInv, IInv', WaitInv, CommandExclusive, UnpauseAll
    PROVE  WaitInv'
<1>1. /\ port.state = "RESUMING" /\ UNCHANGED <<call, inval, notified>>
      /\ \A r \in Pipes : pipe'[r] = Unpaused(r)
      /\ port' = [port EXCEPT !.state = "ENABLED"] /\ port \in PortRecord
      /\ port.waiter = NoTask
    BY DEF UnpauseAll, Resuming, IInv, RestInv
<1>2. ASSUME NEW r \in Pipes
      PROVE  /\ HasAnswer(r) => pipe'[r].inflight = pipe[r].inflight
             /\ Allocated(r)' => Allocated(r)
             /\ pipe'[r].cmd = pipe[r].cmd
    <2> DEFINE q == [pipe[r] EXCEPT !.paused = FALSE]
    <2>1. pipe[r] \in PipeRecord
        BY DEF IInv, PipeInv
    <2>2. q \in PipeRecord /\ q.state = pipe[r].state /\ q.cmd = pipe[r].cmd
          /\ q.inflight = pipe[r].inflight
        BY <2>1 DEF PipeRecord
    <2>3. \/ pipe'[r] = q
          \/ r \in Elems(active) /\ q.pending # <<>> /\ pipe'[r] = TakeNext(q)
        BY <1>1 DEF Unpaused, HasNext
    <2> HIDE DEF q
    <2>4. r \in Elems(active) => Allocated(r)
        BY DEF IInv, PipeInv, Lists
    <2>5. Allocated(r) => ~HasAnswer(r)
        BY <1>1, AnsweredIsCommanded DEF WaitInv, OneTurn
    <2>6. q.pending # <<>> => SameKind(q, TakeNext(q)) /\ SameCommand(q, TakeNext(q))
        BY <2>2, TakeNextOk
    <2> QED BY <2>2, <2>3, <2>4, <2>5, <2>6 DEF Allocated, SameKind, SameCommand
<1>3. /\ port'.conn = port.conn /\ port'.waiter = port.waiter /\ port'.woken = port.woken
      /\ port'.waiting_all = port.waiting_all /\ port'.state = "ENABLED"
    BY <1>1 DEF PortRecord
<1>4. PortWaits' /\ OneTurn'
    BY <1>1, <1>3 DEF WaitInv, PortWaits, OneTurn
<1> QED BY <1>1, <1>2, <1>3, <1>4, PortKeeps DEF WaitInv, OneNotification

\* _port_invalidate_all_pipes finds no pipe.
LEMMA NothingToInvalidate ==
    ASSUME IInv, IInv', WaitInv, InvalidateBegin
    PROVE  WaitInv'
<1>1. \A p \in Pipes : ~Allocated(p)
    BY DEF InvalidateBegin, WaitInv, Connected
<1>2. Elems(idle) = {} /\ Elems(active) = {}
    BY <1>1 DEF IInv, PipeInv, Lists
<1>3. First(idle) = NoPipe /\ First(active) = NoPipe
    BY <1>2, WalkReaches
<1>4. /\ UNCHANGED <<pipe, notified, call>> /\ inval' = [phase |-> "off", cur |-> NoPipe]
      /\ port' = [port EXCEPT !.waiter = NoTask, !.woken = FALSE]
      /\ port.waiter = NoTask \/ port.woken
    BY <1>3 DEF InvalidateBegin, Visit, WalkTo
<1>5. /\ port'.waiter = NoTask /\ ~port'.woken /\ port'.state = port.state
      /\ port'.waiting_all = port.waiting_all
    BY <1>4 DEF IInv, RestInv, PortRecord
<1>6. PortWaits' /\ OneTurn'
    BY <1>4, <1>5 DEF WaitInv, PortWaits, OneTurn
<1>7. Connected'
    BY <1>1, <1>4 DEF Connected, NoWalk, Allocated
<1>8. AnswerIsFinal'
    BY <1>4 DEF WaitInv, AnswerIsFinal, HasAnswer, InCommand
<1>9. OneNotification'
    BY <1>4, <1>5, NullAssumption DEF WaitInv, OneNotification, PortWaits, InCommand, IInv, RestInv
<1> QED BY <1>6, <1>7, <1>8, <1>9 DEF WaitInv

\* Every step of the port.
LEMMA PortStepWaits ==
    ASSUME IInv, IInv', WaitInv, CommandExclusive, TurnsTaken, DeviceStays, PortStep
    PROVE  WaitInv'
<1>1. ASSUME NEW l, Fail(l)
      PROVE  WaitInv'
    BY <1>1, NothingWaits DEF Fail
<1>2. CASE PortEnabled \/ PortWake \/ PortReturn \/ \E s \in TaskPortStates : PortSet(s)
    BY <1>2, PortMovesWait
<1>3. ~(\E s \in LossPortStates : PortLost(s)) /\ ~\E t \in Tasks : PortWait(t)
    BY DEF DeviceStays, PortWait
<1>4. CASE PauseAtOnce \/ \E t \in Tasks : PauseAndWait(t)
    BY <1>4, PausesWait
<1>5. CASE UnpauseAll
    BY <1>5, UnpauseWaits
<1>6. CASE InvalidateBegin
    BY <1>6, NothingToInvalidate
<1>7. ~InvalidateNext
    BY DEF InvalidateNext, WaitInv, Connected
<1> QED BY <1>1, <1>2, <1>3, <1>4, <1>5, <1>6, <1>7
        DEF PortStep, PortOrphan, UnpauseBusy, InvalidateFreed

-----------------------------------------------------------------------------
(* The theorem *)

\* A pipe command that was woken up finds nothing in flight and its channel halted, as
\* the assertions behind _pipe_wait_done have it: with any number of tasks, pipes, IRPs
\* and transfer errors, as long as the device stays and no port command pauses or
\* resumes the pipes meanwhile.
THEOREM WakesInTime ==
    ASSUME DeviceStays, TurnsTaken
    PROVE  PipeSpec => []WokenInTime
<1>1. PipeInit => WaitInv
    <2> SUFFICES ASSUME PipeInit
                 PROVE  WaitInv
        OBVIOUS
    <2>1. /\ \A p \in Pipes : ~Allocated(p) /\ ~pipe[p].cmd
          /\ \A t \in Tasks : ~InCommand(t)
        BY DEF PipeInit, NewPipe, Allocated, InCommand, IdleCall, Blocking
    <2>2. /\ port.waiter = NoTask /\ ~port.woken /\ ~port.waiting_all
          /\ port.state \notin {"SUSPENDED", "RESUMING"}
          /\ notified = {} /\ inval.phase = "off"
        BY DEF PipeInit
    <2> QED BY <2>1, <2>2 DEF WaitInv, AnswerIsFinal, HasAnswer, Connected, NoWalk, PortWaits,
                              OneTurn, OneNotification
<1>2. IInv /\ IInv' /\ CommandExclusive /\ WaitInv /\ [PipeNext]_vars => WaitInv'
    <2> SUFFICES ASSUME IInv, IInv', CommandExclusive, WaitInv, [PipeNext]_vars
                 PROVE  WaitInv'
        OBVIOUS
    <2>1. CASE UNCHANGED vars
        BY <2>1, NothingWaits DEF vars
    <2> QED BY <2>1, ClientWaits, ChanWaits, PortStepWaits DEF PipeNext
<1>3. IInv /\ CommandExclusive /\ WaitInv => WokenInTime
    <2> SUFFICES ASSUME IInv, WaitInv, NEW t \in Tasks, Resumes(t)
                 PROVE  call[t].pipe \notin hw /\ pipe[call[t].pipe].inflight = NoIrp
        BY DEF WokenInTime
    <2>1. call[t].pipe \in Pipes /\ HasAnswer(call[t].pipe)
        BY DEF Resumes, InCommand, Blocking, HasAnswer, IInv, RestInv
    <2>2. pipe[call[t].pipe].inflight = NoIrp
        BY <2>1 DEF WaitInv, AnswerIsFinal
    <2> QED BY <2>2 DEF IInv, PipeInv, ChannelHasIrp
<1> QED BY <1>1, <1>2, <1>3, Invariant, CommandsExclusive, PTL DEF PipeSpec

=============================================================================
