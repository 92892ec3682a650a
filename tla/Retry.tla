--------------------------------- MODULE Retry ---------------------------------
(***************************************************************************)
(* RetryPolicy (indexing/src/retry.rs): how long with_retry sleeps.  Times *)
(* are multiples of one unit; the width of the u32 that the power is       *)
(* computed in is a parameter.                                             *)
(***************************************************************************)
EXTENDS Naturals

CONSTANTS
    Policy,         \* initial_backoff, backoff_multiplier, max_backoff
    CounterMax      \* u32::MAX

\* No policy of the repository multiplies by 0; the u32 would allow it, and the
\* second sleep would then be none at all.
ASSUME RetryAssumption ==
    /\ Policy \in [initial_backoff : Nat, backoff_multiplier : Nat \ {0},
                   max_backoff : Nat]
    /\ CounterMax \in Nat \ {0}

Lesser(a, b) == IF a <= b THEN a ELSE b

Power(b) ==
    LET power[n \in Nat] == IF n = 0 THEN 1 ELSE b * power[n - 1]
    IN  power

SaturatingPow_Wraps(b, n) == Power(b)[n] % (CounterMax + 1)
SaturatingPow(b, n) == Lesser(Power(b)[n], CounterMax)

\* The saturation of the Duration is hidden by the minimum with max_backoff.
BackoffFor(attempt) ==
    Lesser(Policy.initial_backoff * SaturatingPow(Policy.backoff_multiplier, attempt - 1),
           Policy.max_backoff)

\* What with_retry has slept before its n-th attempt.
SleptBefore(n) == IF n <= 1 THEN 0 ELSE BackoffFor(n - 1)

===============================================================================
