---------------------------- MODULE MCLifecycle ------------------------------
(* Instance of Lifecycle and Config for TLC. *)
EXTENDS Lifecycle

CONSTANTS h1, h2

\* The default, the documented one with Azure, an unusual order, and one alone.
MCSelections ==
    {<<"yaml", "environment">>, <<"yaml", "azure-app-config", "environment">>,
     <<"environment", "yaml">>, <<"environment">>}
=============================================================================
