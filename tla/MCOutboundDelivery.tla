------------------------- MODULE MCOutboundDelivery -------------------------
EXTENDS DeliveryInvariant, TLC

(* Workers are interchangeable, and so are queue slots.                    *)
Symmetry == Permutations(Workers) \cup Permutations(Jobs)
=============================================================================
