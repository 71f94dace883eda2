---------------------------- MODULE TransferPlans ----------------------------
(***************************************************************************)
(* The stages of USB transfers, as the device at the other end expects     *)
(* them.  A stage is the setup stage or has a direction; pid is the data   *)
(* toggle it starts with, and len the most bytes it moves.                 *)
(***************************************************************************)
EXTENDS Naturals, Sequences

SetupStage == [setup |-> TRUE, in |-> FALSE, pid |-> 0, len |-> 8]
DataStage(in, n) == [setup |-> FALSE, in |-> in, pid |-> 1, len |-> n]
StatusStage(in) == DataStage(in, 0)

\* The stages of a control transfer: setup, data if there is any, and status, whose
\* direction is opposite to the data, and IN without data.
ControlPlan(in, n) ==
    IF n = 0 THEN <<SetupStage, StatusStage(TRUE)>>
    ELSE <<SetupStage, DataStage(in, n), StatusStage(~in)>>

\* A bulk transfer is one data stage; the controller keeps its data toggle.
BulkPlan(in, n) == <<[setup |-> FALSE, in |-> in, pid |-> 0, len |-> n]>>

IsPlan(s) ==
    \/ s = <<>>
    \/ \E k \in DOMAIN s, in \in BOOLEAN :
          s = ControlPlan(in, s[k].len) \/ s = BulkPlan(in, s[k].len)
=============================================================================
