------------------------------ MODULE IrpFifo ------------------------------
(***************************************************************************)
(* What the driver promises a client about the IRPs of its pipes, whatever *)
(* the port, the tasks and the interrupts do: every pipe is a first-in     *)
(* first-out queue whose front is a run of finished IRPs.                  *)
(*                                                                         *)
(*  - an IRP is in at most one queue, and enters it at the back;           *)
(*  - IRPs finish in the order they were enqueued in, one or several at a  *)
(*    time; the only one that overtakes others is an IRP that is cancelled *)
(*    on its own, which joins the finished ones;                           *)
(*  - only a finished IRP leaves the queue, from the front.                *)
(***************************************************************************)
EXTENDS Naturals, Sequences

CONSTANTS Pipes, Irps

VARIABLES
    queue,      \* the IRPs of each pipe, from the next to be dequeued on
    ndone       \* how many of them, at the front, are finished

fifo == <<queue, ndone>>

FifoTypeOK ==
    /\ queue \in [Pipes -> Seq(Irps)]
    /\ ndone \in [Pipes -> Nat]
    /\ \A p \in Pipes : ndone[p] <= Len(queue[p])

FifoInit ==
    /\ queue = [p \in Pipes |-> <<>>]
    /\ ndone = [p \in Pipes |-> 0]

InQueue(i, p) == \E n \in DOMAIN queue[p] : queue[p][n] = i

Submit(p, i) ==
    /\ \A r \in Pipes : ~InQueue(i, r)
    /\ queue' = [queue EXCEPT ![p] = Append(@, i)]
    /\ UNCHANGED ndone

\* The next n IRPs of a pipe finish.
Complete(p, n) ==
    /\ ndone[p] + n <= Len(queue[p])
    /\ ndone' = [ndone EXCEPT ![p] = @ + n]
    /\ UNCHANGED queue

\* The k-th IRP is cancelled: it overtakes those that are not finished.
Cancel(p, k) ==
    LET d == ndone[p]
        q == queue[p]
    IN  /\ k > d
        /\ queue' = [queue EXCEPT ![p] =
                        SubSeq(q, 1, d) \o <<q[k]>> \o SubSeq(q, d + 1, k - 1)
                                        \o SubSeq(q, k + 1, Len(q))]
        /\ ndone' = [ndone EXCEPT ![p] = d + 1]

Take(p) ==
    /\ ndone[p] > 0
    /\ queue' = [queue EXCEPT ![p] = Tail(@)]
    /\ ndone' = [ndone EXCEPT ![p] = @ - 1]

FifoNext ==
    \/ \E p \in Pipes, i \in Irps : Submit(p, i)
    \/ \E p \in Pipes : \E n \in 1 .. Len(queue[p]) : Complete(p, n)
    \/ \E p \in Pipes : \E k \in DOMAIN queue[p] : Cancel(p, k)
    \/ \E p \in Pipes : Take(p)

FifoSpec == FifoInit /\ [][FifoNext]_fifo
=============================================================================
