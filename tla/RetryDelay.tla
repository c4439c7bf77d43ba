----------------------------- MODULE RetryDelay -----------------------------
(***************************************************************************)
(* client.go: how long the retry interceptor waits.  The backoff is a      *)
(* product of floats, converted to a time.Duration of 64 bits: within the  *)
(* range it is what it should be, and beyond it what the processor makes   *)
(* of it.  raw stands for the converted product, jitter for the random part*)
(* of it, at most a quarter.                                               *)
(***************************************************************************)
EXTENDS Integers

CONSTANT HalfRange   \* 2^63

ASSUME HalfRangeAssumption == HalfRange \in Nat \ {0}

Durations == (0 - HalfRange)..(HalfRange - 1)

AtMost(d, max) == IF d > max THEN max ELSE d

\* A sum outside the range wraps around.
Wrap(d) == IF d < 0 - HalfRange THEN d + 2 * HalfRange
           ELSE IF d >= HalfRange THEN d - 2 * HalfRange ELSE d

\* jitter is at most a quarter of d, to either side.
Quarter(d, jitter) ==
    LET size == IF d < 0 THEN 0 - d ELSE d
    IN  4 * jitter <= size /\ 0 - size <= 4 * jitter

\* calculateRetryDelay, of the retry interceptor.
CalculateRetryDelay(raw, jitter, base, max) ==
    LET delay == AtMost(Wrap(AtMost(raw, max) + jitter), max)
    IN  IF delay < 0 THEN base ELSE delay
=============================================================================
