-------------------------- MODULE ControlTransfer --------------------------
(***************************************************************************)
(* What the device at the other end of a pipe may rely on, and what the    *)
(* client of an IRP may: the specification that XferDesc implements.       *)
(*                                                                         *)
(* A transfer has a plan, the stages the device expects.  The stages reach *)
(* the device in that order, none left out and none twice, until the       *)
(* transfer ends.  An IRP is reported as completed only if the whole plan  *)
(* was executed, and then with the bytes that moved in its data stage; a   *)
(* failed or cancelled IRP is reported with none.                          *)
(***************************************************************************)
EXTENDS TransferPlans

CONSTANTS
    Pipes,
    Irps,
    NoIrp

VARIABLES
    cur,        \* the IRP whose transfer each pipe executes
    plan,       \* the stages the device expects of it
    stages,     \* the stages that have reached the device
    moved,      \* the bytes of its data stage that have moved
    result      \* the result of each IRP

xferVars == <<cur, plan, stages, moved, result>>

NoResult == [ok |-> FALSE, bytes |-> 0]

Init ==
    /\ cur = [p \in Pipes |-> NoIrp]
    /\ plan = [p \in Pipes |-> <<>>]
    /\ stages = [p \in Pipes |-> <<>>]
    /\ moved = [p \in Pipes |-> 0]
    /\ result = [i \in Irps |-> NoResult]

\* The next stage of the plan is executed; data moves in a data stage only, and no
\* more than was planned.
Stage(p) ==
    /\ cur[p] # NoIrp /\ Len(stages[p]) < Len(plan[p])
    /\ LET s == plan[p][Len(stages[p]) + 1]
       IN  /\ stages'[p] = Append(stages[p], s)
           /\ moved'[p] \in moved[p] .. (moved[p] + IF s.setup THEN 0 ELSE s.len)
    /\ cur'[p] = cur[p] /\ plan'[p] = plan[p]

\* The transfer ends, complete or not, or another one begins.
Begin(p) ==
    /\ cur'[p] # cur[p]
    /\ IsPlan(plan'[p])
    /\ stages'[p] = <<>> /\ moved'[p] = 0

Same(p) ==
    /\ cur'[p] = cur[p] /\ plan'[p] = plan[p]
    /\ stages'[p] = stages[p] /\ moved'[p] = moved[p]

Completes(p, i) == cur[p] = i /\ cur'[p] # i /\ stages[p] = plan[p]

ResultStep(i) ==
    \/ result'[i] = result[i]
    \/ result'[i] = NoResult
    \/ \E p \in Pipes : Completes(p, i) /\ result'[i] = [ok |-> TRUE, bytes |-> moved[p]]

Next ==
    /\ \A p \in Pipes : Stage(p) \/ Begin(p) \/ Same(p)
    /\ \A i \in Irps : ResultStep(i)

TransferSpec == Init /\ [][Next]_xferVars
=============================================================================
