---------------------------- MODULE WorkerBackoff ----------------------------
(***************************************************************************)
(* The workers of OutboxWorker together with the delays of RetryBackoff:    *)
(* what a worker's delay is, said of the attempts its row has behind it.    *)
(***************************************************************************)
EXTENDS OutboxWorker, RetryBackoff, Doubling

\* Whatever the options are, the ones NewWorker replaces included, the delay a
\* worker computes when an attempt has failed is capped exponential backoff:
\* the first delay doubled once for every earlier attempt of the row, by
\* whichever worker, and never more than the cap.  In particular the halving
\* test (worker.go 159) keeps the doubling from overflowing int64.
BackoffIsCappedDoubling ==
    \A w \in Workers :
        worker[w].pc = "recording" /\ ~worker[w].ok =>
            \A initial, max \in -1..MaxDuration :
                LET first == InitialBackoff(initial)
                    cap == MaxBackoff(initial, max)
                    uncapped == Doubled(first, worker[w].attempts - 1) IN
                backoff(first, cap, worker[w].attempts) = IF uncapped < cap THEN uncapped ELSE cap
==============================================================================
