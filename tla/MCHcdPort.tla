----------------------------- MODULE MCHcdPort -----------------------------
(***************************************************************************)
(* Instances of HcdPort for TLC.                                           *)
(***************************************************************************)
EXTENDS HcdPort, TLC

CONSTANTS p1, p2, i1, i2, i3, t1, t2

\* Every IRP has one owner: the first task enqueues i1 and i2, the second i3.
Owned == [t \in Tasks |-> IF t = t1 THEN {i1, i2} \cap Irps ELSE {i3} \cap Irps]

\* The pipes are interchangeable.
PipeSymmetry == Permutations(Pipes)
=============================================================================
