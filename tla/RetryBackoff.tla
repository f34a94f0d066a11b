---------------------------- MODULE RetryBackoff -----------------------------
(***************************************************************************)
(* The worker's retry delay, internal/outbox/worker.go: the options as      *)
(* NewWorker normalizes them and the doubling loop of backoff.  A           *)
(* time.Duration is an int64; MaxDuration is its largest value and          *)
(* arithmetic wraps beyond it.                                              *)
(***************************************************************************)
EXTENDS Integers

CONSTANTS MaxDuration,            \* math.MaxInt64, small in a model
          DefaultInitialBackoff,
          DefaultMaxBackoff

ASSUME BackoffDefaults ==
    /\ MaxDuration \in Nat
    /\ DefaultInitialBackoff \in 1..MaxDuration
    /\ DefaultMaxBackoff \in 1..MaxDuration

\* int64 multiplication by two, in two's complement.
Double(d) ==
    LET span == 2 * (MaxDuration + 1)
        wrapped == (2 * d) % span
    IN IF wrapped > MaxDuration THEN wrapped - span ELSE wrapped

\* NewWorker: zero and negative options take the defaults, and the cap is
\* never below the first delay.
InitialBackoff(option) == IF option <= 0 THEN DefaultInitialBackoff ELSE option

MaxBackoff(initialOption, maxOption) ==
    LET max == IF maxOption <= 0 THEN DefaultMaxBackoff ELSE maxOption
    IN IF max < InitialBackoff(initialOption) THEN InitialBackoff(initialOption) ELSE max

\* Mutant: no halving test before the doubling.
LoopDelayUnguarded(initial, max, rounds) ==
    LET delay[n \in Nat] ==
            IF n = 0 THEN initial
            ELSE IF delay[n - 1] >= max THEN delay[n - 1] ELSE Double(delay[n - 1])
    IN delay[rounds]

\* The delay after some rounds of the loop.  Returning the cap early and
\* stopping at it are the same: the loop leaves a delay at the cap alone.
LoopDelay(initial, max, rounds) ==
    LET delay[n \in Nat] ==
            IF n = 0 THEN initial
            ELSE LET d == delay[n - 1] IN
                 IF d >= max THEN d
                 ELSE IF d > max \div 2 THEN max
                 ELSE Double(d)
    IN delay[rounds]

backoff(initial, max, attempt) ==
    LET delay == LoopDelay(initial, max, IF attempt < 1 THEN 0 ELSE attempt - 1)
    IN IF delay > max THEN max ELSE delay

=============================================================================
