---------------------------- MODULE MCDashboard ------------------------------
(* Instance of Dashboard and Pagination for TLC. *)
EXTENDS Dashboard

CONSTANTS s1, s2
=============================================================================
