--------------------------- MODULE MCDeliveryLoop ----------------------------
(* Instance of DeliveryLoop for TLC. *)
EXTENDS DeliveryLoop

CONSTANTS w1, w2
=============================================================================
