--------------------------- MODULE StatsServerMC ---------------------------
(* The instance of StatsServer that TLC checks.                            *)
EXTENDS StatsServer

CONSTANTS i1, i2

\* Two events of one image, to find the row of the first when the second is
\* written, and one of another image that may be deleted meanwhile
ThreeEvents == [k \in EventKeys |-> IF k = i1 THEN 2 ELSE IF k = i2 THEN 1 ELSE 0]
=============================================================================
