--------------------------- MODULE BufferScheduler ---------------------------
(***************************************************************************)
(* The two buffer schedulers (src/src/conversation/scheduler.ts) with the  *)
(* flush handler they call.  In memory a key has a timer.  BullMQ holds at *)
(* most one job of a key, because the job's id is derived from the key; a  *)
(* call of schedule is three round trips to Redis, and a worker may take   *)
(* the job between any two of them.                                        *)
(*                                                                         *)
(* The caller is the agent: it schedules with the lock of the key held and *)
(* the message already in the buffer, and the handler takes the buffer     *)
(* under that lock.  Nothing is scheduled while a handler works on what it *)
(* took; a schedule from inside the handler is in ConversationAgent.       *)
(***************************************************************************)
EXTENDS Naturals, FiniteSets, FiniteSetsExt

CONSTANTS
  Keys,
  Concurrency,  \* bufferWorkerConcurrency
  MaxHandlers,  \* handlers of one key that may run at once in memory (bound)
  MaxCalls,     \* calls of schedule (bound)
  MaxCrashes,   \* crashes of the process (bound)
  CrashMidCall, \* the process may crash inside a call of schedule
  LateCalls     \* on BullMQ too, a schedule may meet a handler that has just finished

BoundsAssumption ==
  Concurrency \in Nat \ {0} /\ MaxHandlers \in Nat \ {0} /\ MaxCalls \in Nat /\ MaxCrashes \in Nat
FaultsAssumption == CrashMidCall \in BOOLEAN /\ LateCalls \in BOOLEAN

VARIABLES
  kind,     \* the scheduler of this deployment
  job,      \* of each key: the timer or the job
  stalls,   \* of each key: how often its job was found stalled
  call,     \* of each key: where the caller is inside schedule
  handlers, \* of each key and stage: the handlers that are there
  owed,     \* the keys with input in the buffer that no flush has taken
  calls,    \* the calls of schedule so far
  crashes

vars == <<kind, job, stalls, call, handlers, owed, calls, crashes>>

Kinds == {"in_memory", "bullmq"}

Jobs == {"none", "delayed", "active", "failed"}

Calls == {"none", "found", "add"}

\* Waiting for the lock, working on the batch, or returned with the job not yet
\* moved out of the active list.
Stages == {"picked", "working", "finished"}

Init ==
  /\ kind \in Kinds
  /\ job = [k \in Keys |-> "none"]
  /\ stalls = [k \in Keys |-> 0]
  /\ call = [k \in Keys |-> "none"]
  /\ handlers = [k \in Keys |-> [s \in Stages |-> 0]]
  /\ owed = {}
  /\ calls = 0
  /\ crashes = 0

Running(k) == handlers[k]["picked"] + handlers[k]["working"] + handlers[k]["finished"]

MayCall(k) ==
  /\ calls < MaxCalls
  /\ call[k] = "none"
  /\ handlers[k]["working"] = 0
  /\ kind = "in_memory" \/ LateCalls \/ handlers[k]["finished"] = 0

-----------------------------------------------------------------------------
(* In memory *)

\* Mutant of ScheduleTimer: no timer is set while a handler of the key runs, as
\* with a job that is active.
ScheduleTimerUnlessRunning(k) ==
  /\ kind = "in_memory"
  /\ MayCall(k)
  /\ job' = [job EXCEPT ![k] = IF Running(k) = 0 THEN "delayed" ELSE @]
  /\ owed' = owed \union {k}
  /\ calls' = calls + 1
  /\ UNCHANGED <<kind, stalls, call, handlers, crashes>>

\* The timer is replaced in one turn of the event loop.
ScheduleTimer(k) ==
  /\ kind = "in_memory"
  /\ MayCall(k)
  /\ job' = [job EXCEPT ![k] = "delayed"]
  /\ owed' = owed \union {k}
  /\ calls' = calls + 1
  /\ UNCHANGED <<kind, stalls, call, handlers, crashes>>

TimerFires(k) ==
  /\ kind = "in_memory"
  /\ job[k] = "delayed"
  /\ Running(k) < MaxHandlers
  /\ job' = [job EXCEPT ![k] = "none"]
  /\ handlers' = [handlers EXCEPT ![k]["picked"] = @ + 1]
  /\ UNCHANGED <<kind, stalls, call, owed, calls, crashes>>

-----------------------------------------------------------------------------
(* BullMQ *)

\* cancel: getJob.
GetJob(k) ==
  /\ kind = "bullmq"
  /\ MayCall(k)
  /\ call' = [call EXCEPT ![k] = IF job[k] = "none" THEN "add" ELSE "found"]
  /\ calls' = calls + 1
  /\ UNCHANGED <<kind, job, stalls, handlers, owed, crashes>>

\* cancel: an active job cannot be removed and the error is swallowed; one that
\* is gone by now is no error.
Remove(k) ==
  /\ call[k] = "found"
  /\ call' = [call EXCEPT ![k] = "add"]
  /\ job' = [job EXCEPT ![k] = IF @ = "active" THEN @ ELSE "none"]
  /\ UNCHANGED <<kind, stalls, handlers, owed, calls, crashes>>

\* Mutant of Add: job ids are not derived from the key, so an active job does
\* not stand in the way of another one.
AddUnderFreshId(k) ==
  /\ call[k] = "add"
  /\ call' = [call EXCEPT ![k] = "none"]
  /\ job' = [job EXCEPT ![k] = "delayed"]
  /\ owed' = owed \union {k}
  /\ UNCHANGED <<kind, stalls, handlers, calls, crashes>>

\* schedule: queue.add; a job of the same id that exists is left as it is.
Add(k) ==
  /\ call[k] = "add"
  /\ call' = [call EXCEPT ![k] = "none"]
  /\ IF job[k] = "none"
     THEN job' = [job EXCEPT ![k] = "delayed"] /\ stalls' = [stalls EXCEPT ![k] = 0]
     ELSE UNCHANGED <<job, stalls>>
  /\ owed' = owed \union {k}
  /\ UNCHANGED <<kind, handlers, calls, crashes>>

\* The worker takes a job whose delay has passed.
Pick(k) ==
  /\ kind = "bullmq"
  /\ job[k] = "delayed"
  /\ MapThenSumSet(Running, Keys) < Concurrency
  /\ job' = [job EXCEPT ![k] = "active"]
  /\ handlers' = [handlers EXCEPT ![k]["picked"] = @ + 1]
  /\ UNCHANGED <<kind, stalls, call, owed, calls, crashes>>

\* The job of a worker that died: it is taken up again once, then it fails and
\* stays in the failed set, under its id.
Stalled(k) ==
  /\ kind = "bullmq"
  /\ job[k] = "active"
  /\ Running(k) = 0
  /\ job' = [job EXCEPT ![k] = IF stalls[k] = 0 THEN "delayed" ELSE "failed"]
  /\ stalls' = [stalls EXCEPT ![k] = @ + 1]
  /\ UNCHANGED <<kind, call, handlers, owed, calls, crashes>>

-----------------------------------------------------------------------------
(* The handler *)

Step(k, from, to) == handlers' = [handlers EXCEPT ![k][from] = @ - 1, ![k][to] = @ + 1]

\* Under the lock: what is buffered is taken, or nothing is left to do.
Take(k) ==
  /\ handlers[k]["picked"] > 0
  /\ call[k] = "none"
  /\ Step(k, "picked", IF k \in owed THEN "working" ELSE "finished")
  /\ owed' = owed \ {k}
  /\ UNCHANGED <<kind, job, stalls, call, calls, crashes>>

Finish(k) ==
  /\ handlers[k]["working"] > 0
  /\ Step(k, "working", "finished")
  /\ UNCHANGED <<kind, job, stalls, call, owed, calls, crashes>>

\* The handler's promise settles; BullMQ removes a completed job.
Settle(k) ==
  /\ handlers[k]["finished"] > 0
  /\ handlers' = [handlers EXCEPT ![k]["finished"] = @ - 1]
  /\ job' = [job EXCEPT ![k] = IF kind = "bullmq" THEN "none" ELSE @]
  /\ UNCHANGED <<kind, stalls, call, owed, calls, crashes>>

\* The process dies and comes up again; in memory nothing is promised of that.
Crash ==
  /\ crashes < MaxCrashes
  /\ kind = "bullmq"
  /\ CrashMidCall \/ \A k \in Keys : call[k] = "none"
  /\ crashes' = crashes + 1
  /\ call' = [k \in Keys |-> "none"]
  /\ handlers' = [k \in Keys |-> [s \in Stages |-> 0]]
  /\ UNCHANGED <<kind, job, stalls, owed, calls>>

-----------------------------------------------------------------------------

Call(k) == ScheduleTimer(k) \/ GetJob(k)

Serve(k) ==
  \/ Remove(k) \/ Add(k)
  \/ TimerFires(k) \/ Pick(k) \/ Stalled(k)
  \/ Take(k) \/ Finish(k) \/ Settle(k)

Next == Crash \/ \E k \in Keys : Call(k) \/ Serve(k)

Spec == Init /\ [][Next]_vars

\* A call goes on, a delay passes, a worker takes a job again and again when it
\* has room for it, a stalled job is found, and a handler takes the lock and
\* returns.  That the calls are bounded says that bursts end: a user who writes
\* without end puts his flush off without end.
Progress(k) == Remove(k) \/ Add(k) \/ Finish(k) \/ Settle(k) \/ Take(k)

Fires(k) == TimerFires(k) \/ Pick(k) \/ Stalled(k)

Fairness == \A k \in Keys : WF_vars(Progress(k)) /\ SF_vars(Fires(k))

FairSpec == Spec /\ Fairness

-----------------------------------------------------------------------------
(* Properties *)

\* "The conversation makes forward progress either way" (cancel): whenever no
\* call is under way, input in the buffer has a timer or a job, or a handler
\* that has yet to take it.
OwedIsPending ==
  \A k \in owed : call[k] = "none" =>
    \/ job[k] = "delayed"
    \/ handlers[k]["picked"] > 0
    \/ job[k] = "active" /\ Running(k) = 0

\* "Letting BullMQ also retry a failed job would double-process": a key has at
\* most one handler at a time on the durable path, on whichever worker.
OneHandlerPerKey == kind = "bullmq" => \A k \in Keys : Running(k) <= 1

\* Either scheduler does what FlushPromise says: input is taken in the end.
Promise == INSTANCE FlushPromise WITH Keys <- Keys, owed <- owed
ImplementsFlushPromise == Promise!Spec
=============================================================================
