----------------------------- MODULE StickTypes ------------------------------
(***************************************************************************)
(* The identifiers every part of stick shares.                              *)
(***************************************************************************)
EXTENDS Integers, FiniteSets

CONSTANTS Users,     \* subjects of authenticated identities
          StickIDs,  \* ids uuid.NewV7 hands out to sticks
          NULL       \* the SQL NULL / Go nil of an optional column

ASSUME TypesAssumption ==
    /\ IsFiniteSet(Users)
    /\ NULL \notin Users
    /\ NULL \notin StickIDs

=============================================================================
