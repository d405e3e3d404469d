---------------------------- MODULE MCSensorDriver ----------------------------
(* Two programs share a sensor that is bound three times.                   *)
EXTENDS SensorDriver, TLC

CONSTANTS u1, u2

MCUsers == {u1, u2}
Symmetry == Permutations(MCUsers)
==============================================================================
