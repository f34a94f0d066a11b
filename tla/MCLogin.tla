------------------------------ MODULE MCLogin --------------------------------
(* Instance of Login and OIDCDiscovery for TLC. *)
EXTENDS Login

CONSTANTS login1, login2, callback1, callback2, alice, bob
=============================================================================
