--------------------------- MODULE MCOutboxWorker ----------------------------
(* Instances of OutboxWorker for TLC. *)
EXTENDS WorkerBackoff, TLC

CONSTANTS u1, u2, s1, w1, w2, MCInitialBackoff, MCMaxBackoff

MCBackoff(attempts) == backoff(MCInitialBackoff, MCMaxBackoff, attempts)

\* Workers are interchangeable, and so are users.
Symmetry == Permutations(Workers) \cup Permutations(Users)
=============================================================================
