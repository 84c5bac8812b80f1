------------------------- MODULE MCMessageDelivery -------------------------
(* Instances of MessageDelivery for TLC. *)
EXTENDS MessageDelivery, TLC

CONSTANTS m1, m2, r1, r2
=============================================================================
