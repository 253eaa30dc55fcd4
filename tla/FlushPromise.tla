----------------------------- MODULE FlushPromise -----------------------------
(* What a BufferScheduler promises its caller (src/src/conversation/         *)
(* scheduler.ts): after the last schedule of a key its buffer is flushed,    *)
(* unless the schedule is cancelled.  It says nothing of timers or jobs.     *)
CONSTANT Keys

VARIABLE owed  \* the keys whose buffer has input that no flush has taken

Init == owed = {}

Schedule(k) == owed' = owed \union {k}

\* A flush takes the buffer.
Flush(k) == k \in owed /\ owed' = owed \ {k}

Next == \E k \in Keys : Schedule(k) \/ Flush(k)

Spec == Init /\ [][Next]_owed /\ \A k \in Keys : WF_owed(Flush(k))
=============================================================================
