---------------------------- MODULE MCUsbhDevice ----------------------------
(***************************************************************************)
(* Instances of UsbhDevice for TLC.                                        *)
(***************************************************************************)
EXTENDS UsbhDevice, TLC

CONSTANTS p1, p2, p3, c1, c2

\* A handle has no meaning but its identity.
HandleSymmetry == Permutations(Pipes)
=============================================================================
