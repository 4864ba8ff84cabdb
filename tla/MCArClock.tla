------------------------------ MODULE MCArClock ------------------------------
(* A second of four microseconds and intervals around its boundary.         *)
EXTENDS ArClock

SomeIntervals == [s : {0, 1}, u : {1, 3}]
WithZero == SomeIntervals \cup {[s |-> 0, u |-> 0]}
=============================================================================
