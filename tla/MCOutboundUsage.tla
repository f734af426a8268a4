--------------------------- MODULE MCOutboundUsage ---------------------------
(* Costs for TLC: m1 has two recipients, the other one.                     *)
EXTENDS UsageProperties

CONSTANTS m1, recipients

MCUnits ==
    [m \in Messages |-> [d \in Dims |-> IF d = recipients /\ m = m1 THEN 2 ELSE 1]]

MCCorrections == {-1, 1}

=============================================================================
