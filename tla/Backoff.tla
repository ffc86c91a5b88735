------------------------------ MODULE Backoff ------------------------------
(***************************************************************************)
(* The retry delay of gofn/outbox.go: exponential from base, held at most  *)
(* at max.                                                                 *)
(***************************************************************************)
EXTENDS Integers

\* The delay before attempt n's retry.  The loop doubles until one more
\* doubling could pass max, and from there on returns max.
BackoffDelay(base, max, n) ==
  LET atMost(d) == IF d > max THEN max ELSE d
      delay[i \in 1..n] ==
        IF i = 1 THEN base
        ELSE IF delay[i - 1] >= max \div 2 THEN max
        ELSE 2 * delay[i - 1]
  IN IF n <= 1 THEN atMost(base) ELSE atMost(delay[n])
=============================================================================
