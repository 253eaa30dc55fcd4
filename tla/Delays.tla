------------------------------- MODULE Delays -------------------------------
(***************************************************************************)
(* The three delays that the process computes: until a buffer is flushed   *)
(* (src/src/conversation/buffering.ts), until a failed item is sent again  *)
(* (src/src/limits/retry.ts), and between two attempts of one Graph API    *)
(* request (src/src/meta/shared/graph-client.ts).                          *)
(*                                                                         *)
(* Milliseconds are integers after rounding; before it a number is a       *)
(* fraction <<numerator, denominator>>.  Factors and the random number are *)
(* numbers of tenths.                                                      *)
(***************************************************************************)
EXTENDS Integers

CONSTANTS
  BaseTimeouts, MaxTimeouts,  \* bufferBaseTimeoutMs, bufferMaxTimeoutMs
  GrowthFactors,              \* bufferGrowthFactor, in tenths
  NoiseDeviations,            \* bufferNoiseMaxDeviation, in tenths
  Counts,                     \* messages in the buffer; attempts of a send
  Tenths                      \* the random number

\* What loadConversationConfig and loadLimitsConfig let pass.
TimeoutsAssumption == BaseTimeouts \cup MaxTimeouts \subseteq Nat \ {0}
FactorsAssumption ==
  /\ \A g \in GrowthFactors : g \in Nat /\ g >= 10
  /\ NoiseDeviations \subseteq 0 .. 10
InputsAssumption == Counts \subseteq Nat \ {0} /\ Tenths \subseteq 0 .. 9

VARIABLES
  config,  \* the loaded knobs
  count,   \* the argument: a message count or an attempt
  random,  \* the random number drawn
  delay    \* of each computation: its result, or None before the call

vars == <<config, count, random, delay>>

None == -1

Computations == {"buffer", "retry", "backoff"}

Configs ==
  {c \in [base: BaseTimeouts, max: MaxTimeouts, growth: GrowthFactors, noise: NoiseDeviations] :
     c.max >= c.base}

Init ==
  /\ config \in Configs
  /\ count \in Counts
  /\ random \in Tenths
  /\ delay = [c \in Computations |-> None]

-----------------------------------------------------------------------------
(* Fractions *)

Whole(n) == <<n, 1>>

Smaller(a, b) == IF a[1] * b[2] < b[1] * a[2] THEN a ELSE b

Larger(a, b) == IF a[1] * b[2] < b[1] * a[2] THEN b ELSE a

Times(a, n, d) == <<a[1] * n, a[2] * d>>

\* The powers of b, by their exponents.
Power(b) == LET p[n \in Nat] == IF n = 0 THEN 1 ELSE b * p[n - 1] IN p

\* Math.round: halves go up.
Round(a) == (2 * a[1] + a[2]) \div (2 * a[2])

-----------------------------------------------------------------------------
(* The computations *)

\* The base, grown once per message after the first, and capped.
Capped(c, n) ==
  Smaller(Times(Whole(c.base), Power(c.growth)[n - 1], Power(10)[n - 1]), Whole(c.max))

CalculateBufferTimeout(c, n, r) ==
  IF c.noise = 0 THEN Round(Capped(c, n))
  ELSE LET noisy == Times(Capped(c, n), 100 + (2 * r - 10) * c.noise, 100)
       IN  Round(Larger(<<c.base, 2>>, Smaller(noisy, <<3 * c.max, 2>>)))

\* Mutant of RetryDelay: the jittered delay is not clamped again.
UnclampedRetryDelay(c, attempt, r) ==
  Round(Times(Smaller(Whole(c.base * Power(2)[attempt - 1]), Whole(c.max)), 80 + 4 * r, 100))

\* transientRetryDelayMs.
RetryDelay(c, attempt, r) ==
  LET raw == Smaller(Whole(c.base * Power(2)[attempt - 1]), Whole(c.max))
      rounded == Round(Times(raw, 80 + 4 * r, 100))
  IN  IF rounded < c.max THEN rounded ELSE c.max

\* computeDelay without a Retry-After header; attempts count from 0.
BackoffDelay(c, attempt, r) ==
  LET exponential == Smaller(Whole(c.base * Power(2)[attempt]), Whole(c.max))
      jittered == <<10 * exponential[1] + r * c.base, 10>>
  IN  Round(Smaller(Whole(c.max), jittered))

Result(c) ==
  CASE c = "buffer"  -> CalculateBufferTimeout(config, count, random)
    [] c = "retry"   -> RetryDelay(config, count, random)
    [] c = "backoff" -> BackoffDelay(config, count - 1, random)

Compute(c) ==
  /\ delay[c] = None
  /\ delay' = [delay EXCEPT ![c] = Result(c)]
  /\ UNCHANGED <<config, count, random>>

Next == \E c \in Computations : Compute(c)

Spec == Init /\ [][Next]_vars

-----------------------------------------------------------------------------
(* Properties *)

\* Jitter never collapses the flush window below half the base delay, and
\* overshoots the maximum by half of it at most; the retry of a send and of a
\* request never waits longer than the maximum.  "calculateBufferTimeout always
\* returns a positive delay; an inline fire while the agent holds the per-key
\* lock would self-deadlock" (scheduler.ts), and a longer burst never shortens
\* the wait for its end, the noise being equal.
DelaysAreBounded ==
  /\ delay["buffer"] # None =>
       2 * delay["buffer"] >= config.base /\ 2 * delay["buffer"] <= 3 * config.max + 1
  /\ \A c \in {"retry", "backoff"} : delay[c] <= config.max
  /\ \A c \in {"buffer", "retry"} : delay[c] # None => delay[c] > 0
  /\ delay["buffer"] # None =>
       CalculateBufferTimeout(config, count + 1, random) >= delay["buffer"]
=============================================================================
