------------------------------- MODULE Retry -------------------------------
(***************************************************************************)
(* The retry policy of retry.py: the arithmetic that decides, after a      *)
(* transient failure, whether the call sleeps and how long, or exhausts.   *)
(* Times are natural numbers of one unit; a jittered delay is a set of     *)
(* possible delays, one per value the random source may draw.              *)
(***************************************************************************)
EXTENDS Naturals

CONSTANTS
    MaxAttempts,    \* policy.max_attempts
    InitialDelay,   \* policy.initial_delay_s
    MaxDelay,       \* policy.max_delay_s
    Jitter,         \* policy.jitter_s
    Deadline,       \* policy.deadline_s: a duration, or Absent
    RetryAfterCap,  \* _RETRY_AFTER_CAP_S
    RetryAfters,    \* the retry_after values a provider may state
    Absent          \* Absent()

ASSUME PolicyAssumption ==
    /\ MaxAttempts \in Nat \ {0}
    /\ InitialDelay \in Nat /\ MaxDelay \in Nat /\ Jitter \in Nat
    /\ Absent \notin Nat
    /\ Deadline \in Nat \cup {Absent}
    /\ RetryAfterCap \in Nat
    /\ RetryAfters \subseteq Nat

\* TransientCause: only a rate limit carries a provider-stated window. The
\* other leaves (timeout, unavailability, transport, interruption) are one kind.
Cause ==
    [kind : {"rate_limit"}, retryAfter : RetryAfters \cup {Absent}]
        \cup [kind : {"unavailable", "interrupted"}, retryAfter : {Absent}]

Minimum(a, b) == IF a < b THEN a ELSE b

ExceedsRetryAfterCap(cause) ==
    cause.retryAfter # Absent /\ cause.retryAfter > RetryAfterCap

\* Mutant: a stated window is clipped to max_delay_s like a computed delay.
DelaysClipped(n, cause) ==
    IF cause.retryAfter # Absent
    THEN {Minimum(cause.retryAfter, MaxDelay)}
    ELSE {Minimum(InitialDelay * 2 ^ (n - 1), MaxDelay)}

\* The delays that may follow the failure of attempt number n.
Delays(n, cause) ==
    IF cause.retryAfter # Absent
    THEN {cause.retryAfter}
    ELSE {d \in 0 .. MaxDelay :
            \E j \in 0 .. Jitter :
                d = Minimum(InitialDelay * 2 ^ (n - 1) + j, MaxDelay)}

\* Mutant: the pending sleep does not count.
DeadlineExhaustedNow(elapsed, delay) ==
    Deadline # Absent /\ elapsed > Deadline

DeadlineExhausted(elapsed, delay) ==
    Deadline # Absent /\ elapsed + delay > Deadline

\* attempts() after mark_failed: the sleeps it may start, elapsed time units
\* into the call. It ends the iteration when the draw finds no such sleep.
Retries(n, cause, elapsed) ==
    IF ExceedsRetryAfterCap(cause) \/ n >= MaxAttempts
    THEN {}
    ELSE {d \in Delays(n, cause) : ~ DeadlineExhausted(elapsed, d)}

\* Some draw of the jitter makes attempts() end the iteration.
Exhausts(n, cause, elapsed) ==
    \/ ExceedsRetryAfterCap(cause)
    \/ n >= MaxAttempts
    \/ \E d \in Delays(n, cause) : DeadlineExhausted(elapsed, d)
=============================================================================
