----------------------------- MODULE GapMonitor -----------------------------
(***************************************************************************)
(* WebhookGapMonitor (src/src/monitoring/webhook-gap.ts), which alerts for *)
(* a channel that was heard of and fell silent.  What it knows is in the   *)
(* memory of the process.                                                  *)
(***************************************************************************)
EXTENDS Integers

CONSTANTS
  Channels,
  Threshold,   \* thresholdMs, in units of the clock
  Interval,    \* checkIntervalMs
  MaxTime      \* the last moment (bound)

TimesAssumption == Threshold \in Nat \ {0} /\ Interval \in Nat \ {0} /\ MaxTime \in Nat

Never == -1

VARIABLES
  now,
  upSince,       \* when the process started, or Never while it is down
  nextCheck,     \* when the interval fires
  lastReceiptAt, \* of each channel, in the memory of the process
  lastAlertAt,   \* of each channel, in the memory of the process
  alarm          \* auxiliary: the last two alerts of each channel, over restarts

vars == <<now, upSince, nextCheck, lastReceiptAt, lastAlertAt, alarm>>

IsUp == upSince # Never

Forgotten == [c \in Channels |-> Never]

Init ==
  /\ now = 0
  /\ upSince = 0
  /\ nextCheck = Interval
  /\ lastReceiptAt = Forgotten
  /\ lastAlertAt = Forgotten
  /\ alarm = [c \in Channels |-> <<Never, Never>>]

-----------------------------------------------------------------------------
(* The monitor *)

RecordReceipt(c) ==
  /\ IsUp
  /\ lastReceiptAt[c] # now
  /\ lastReceiptAt' = [lastReceiptAt EXCEPT ![c] = now]
  /\ lastAlertAt' = [lastAlertAt EXCEPT ![c] = Never]
  /\ UNCHANGED <<now, upSince, nextCheck, alarm>>

IsSilent(c) == lastReceiptAt[c] # Never /\ now - lastReceiptAt[c] >= Threshold

\* Mutant of IsDue: one alert for a gap, however long.
IsDueOnce(c) == lastAlertAt[c] = Never

IsDue(c) == lastAlertAt[c] = Never \/ now - lastAlertAt[c] >= Threshold

Check ==
  /\ IsUp
  /\ now = nextCheck
  /\ nextCheck' = now + Interval
  /\ LET alerted == {c \in Channels: IsSilent(c) /\ IsDue(c)}
     IN /\ lastAlertAt' = [c \in Channels |-> IF c \in alerted THEN now ELSE lastAlertAt[c]]
        /\ alarm' = [c \in Channels |->
                       IF c \in alerted THEN <<alarm[c][2], now>> ELSE alarm[c]]
  /\ UNCHANGED <<now, upSince, lastReceiptAt>>

-----------------------------------------------------------------------------
(* The process *)

Crash ==
  /\ IsUp
  /\ upSince' = Never
  /\ lastReceiptAt' = Forgotten
  /\ lastAlertAt' = Forgotten
  /\ UNCHANGED <<now, nextCheck, alarm>>

Boot ==
  /\ ~IsUp
  /\ upSince' = now
  /\ nextCheck' = now + Interval
  /\ UNCHANGED <<now, lastReceiptAt, lastAlertAt, alarm>>

Tick ==
  /\ now < MaxTime
  /\ IsUp => now < nextCheck
  /\ now' = now + 1
  /\ UNCHANGED <<upSince, nextCheck, lastReceiptAt, lastAlertAt, alarm>>

Next ==
  \/ Tick
  \/ Check
  \/ Crash
  \/ Boot
  \/ \E c \in Channels: RecordReceipt(c)

Spec == Init /\ [][Next]_vars

-----------------------------------------------------------------------------
(* Properties *)

\* The alert that a channel owes was given: within one check of the threshold
\* since its last webhook, and again within one check of every later threshold.
AlertedSince(c, moment) ==
  now - moment >= Threshold + Interval =>
    alarm[c][2] >= moment + Threshold /\ now - alarm[c][2] < Threshold + Interval

\* A channel that fell silent in the life of this process is alerted for, and
\* is alerted for again as long as the silence lasts.
SilenceIsAlerted ==
  \A c \in Channels:
    IsUp /\ lastReceiptAt[c] # Never => AlertedSince(c, lastReceiptAt[c])

\* The alerts for a channel are a threshold apart, whatever webhooks and restarts
\* come in between.
AlertsAreSpaced ==
  \A c \in Channels: alarm[c][1] # Never => alarm[c][2] - alarm[c][1] >= Threshold
=============================================================================
