------------------------------ MODULE MCFanout -------------------------------
(***************************************************************************)
(* The three kinds of backend with the timeouts of the code in units of     *)
(* five seconds: attempts last 30s, a webhook or Teams call at most 10s,    *)
(* and an SMTP call as long as the attempt.  There are three webhooks, so   *)
(* that three slow ones leave Teams no time at all.                         *)
(***************************************************************************)
EXTENDS Fanout

CONSTANTS smtp, webhook1, webhook2, webhook3, teams

MCNotifiers == <<smtp, webhook1, webhook2, webhook3, teams>>
MCOwnLimit == [b \in Range(MCNotifiers) |-> IF b = smtp THEN AttemptTimeout ELSE 2]
=============================================================================
