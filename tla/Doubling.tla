------------------------------ MODULE Doubling -------------------------------
(***************************************************************************)
(* What "exponential" means for the delays of the discovery and of the      *)
(* outbox: the first delay, doubled a number of times.                      *)
(***************************************************************************)
EXTENDS Integers

Doubled(first, times) ==
    LET doubled[n \in Nat] == IF n = 0 THEN first ELSE 2 * doubled[n - 1]
    IN doubled[times]
=============================================================================
