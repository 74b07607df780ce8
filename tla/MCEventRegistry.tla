--------------------------- MODULE MCEventRegistry ---------------------------
(* Instances of EventRegistry: two processes; an ordinary event that has    *)
(* outlived its TTL by the second instant and not by the first, an outcome  *)
(* just as old, and an event without a date.                                *)
EXTENDS EventRegistry, TLC

CONSTANTS p1, p2, old, done, undated

Classes == {"ATTEMPT", "TERMINAL"}
Classify == [e \in Event |-> IF e = done THEN "TERMINAL" ELSE "ATTEMPT"]
Dates == [e \in Event |-> 0]
OneDay == [c \in Classes |-> 1]
=============================================================================
