---------------------------- MODULE MCDeuRegistry ----------------------------
(* Small instances of DeuRegistry: two topics share a name.                 *)
EXTENDS DeuRegistry

CONSTANTS t1, t2, imu, imu2, mag

OneThread  == {t1}
TwoThreads == {t1, t2}
Named      == [tpc \in Topics |-> IF tpc = imu2 THEN imu ELSE tpc]
AllTopics  == {imu, imu2, mag}
TwoTopics  == {imu, mag}
==============================================================================
