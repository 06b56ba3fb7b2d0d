---------------------------- MODULE MCElementData ----------------------------
(* An instance of ElementData for TLC: days of two hours, weeks of two days *)
(* and months of three, so that neither of the two divides the other.       *)
EXTENDS ElementData

MCValue == {-1, 2}
MCZone == {"Europe/London", "Europe/Moscow"}
MCOffset == [z \in MCZone |-> IF z = "Europe/Moscow" THEN 1 ELSE 0]
MCSummer == 3..6
==============================================================================
