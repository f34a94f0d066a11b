--------------------------- MODULE MCStickService ----------------------------
(* Instances of StickService for TLC. *)
EXTENDS StickService

CONSTANTS alice, bob, tabA, tabB

MCUserOf == [c \in Clients |-> IF c = tabA THEN alice ELSE bob]
=============================================================================
