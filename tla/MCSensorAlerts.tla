---------------------------- MODULE MCSensorAlerts ----------------------------
(* A small instance of SensorAlerts for TLC: two readings of one device, both     *)
(* with the same breach, and the second with another one.                         *)
EXTENDS SensorAlerts

CONSTANTS w1, w2, p1, s1, s2, d1, low, high

MCDeviceOf   == [r \in {s1, s2} |-> d1]
MCBreachesOf == [r \in {s1, s2} |-> IF r = s1 THEN {low} ELSE {low, high}]
================================================================================
