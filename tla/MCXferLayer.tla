----------------------------- MODULE MCXferLayer -----------------------------
(***************************************************************************)
(* Instances of XferLayer for TLC.                                         *)
(***************************************************************************)
EXTENDS XferLayer, TLC

CONSTANTS p1, p2, i1, i2, c1, c2

\* Every client can take every IRP of the pool.
Pooled == [t \in Tasks |-> Irps]

\* Every client has an endpoint of its own.
OwnPipes == [t \in Clients |-> IF t = c1 THEN {p1} ELSE {p2}]

\* The clients share the endpoints.
SharedPipes == [t \in Clients |-> Pipes]
=============================================================================
