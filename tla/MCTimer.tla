------------------------------ MODULE MCTimer ------------------------------
EXTENDS Timer

CONSTANTS t1, t2, loop, e1, e2, e3

OneThread    == {t1}
TwoThreads   == {t1, t2}
ThreeEvents  == {e1, e2, e3}
OneRepeating == {e1}

(* A repeating event, one that is due at once, and one due last.            *)
Intervals == [e \in Events |-> IF e = e1 THEN 1 ELSE IF e = e2 THEN 0 ELSE 2]

(* A repeating event and two that are due at once.                          *)
ShortIntervals == [e \in Events |-> IF e = e1 THEN 1 ELSE 0]
=============================================================================
