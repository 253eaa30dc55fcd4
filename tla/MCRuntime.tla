------------------------------ MODULE MCRuntime ------------------------------
(***************************************************************************)
(* TLC's instances of what runs beside the turns of a conversation: the    *)
(* statuses of its messages, its recovery after a crash, and the scheduler *)
(* that flushes its buffer.  They share no state, so a behaviour is of one *)
(* of them: part says of which, and the others rest.                       *)
(***************************************************************************)
EXTENDS StatusTracking

CONSTANTS
  Processes, Inbounds, Items, RetryCap, RetryDelay, Timeout, MinTtl, Grace,
  Deployments,                                                \* AgentRecovery
  Keys, Concurrency, MaxHandlers, MaxCalls                    \* BufferScheduler

VARIABLES
  part,
  deployment, record, job, claims, up, booting, chat, call, retry, delivery, loaded, crashes, sends, cut,
  settled, overtaken, refused,                                \* AgentRecovery
  kind, flush, stalls, scheduling, handlers, owed, calls, downs \* BufferScheduler

recoveryVars ==
  <<deployment, record, job, claims, up, booting, chat, call, retry, delivery, loaded, crashes, sends, cut,
    settled, overtaken, refused>>
schedulerVars == <<kind, flush, stalls, scheduling, handlers, owed, calls, downs>>

Parts == {"statuses", "recovery", "scheduler"}

\* Messenger and Instagram differ in nothing here.
StatusChannels == {"whatsapp", "messenger"}

\* One message with every status, or two of one or two turns with deliveries and
\* read watermarks.
OneOrTwoSends == [c \in StatusChannels |-> IF c = "whatsapp" THEN 1 ELSE 2]

Recovery == INSTANCE AgentRecovery WITH Messages <- Inbounds

\* One replica that crashes and restarts, at once or late.
Restarts ==
  [replicas |-> {"p1"}, inbound |-> {"m1", "m2"}, onStatus |-> TRUE, maxCrashes |-> 2, quiet |-> TRUE]

\* Two replicas that are restarted together.
RestartsTogether ==
  [replicas |-> {"p1", "p2"}, inbound |-> {"m1"}, onStatus |-> TRUE, maxCrashes |-> 3,
   quiet |-> TRUE]

\* One replica on a channel without statuses, whose boot scan may come late.
ScansLate ==
  [replicas |-> {"p1"}, inbound |-> {"m1", "m2"}, onStatus |-> FALSE, maxCrashes |-> 1,
   quiet |-> FALSE]

\* Two replicas with two messages, which save over one another's record.
TwoAtOnce ==
  [replicas |-> {"p1", "p2"}, inbound |-> {"m1", "m2"}, onStatus |-> FALSE, maxCrashes |-> 0,
   quiet |-> TRUE]

TwoProcesses == {"p1", "p2"}

TwoInbounds == {"m1", "m2"}

RestartDeployments == {Restarts, RestartsTogether, ScansLate, TwoAtOnce}

\* In memory, timers that fire while the lock is taken; on BullMQ, worker slots for
\* several keys, and one crash outside the calls.
Scheduler ==
  INSTANCE BufferScheduler WITH
    MaxCrashes <- 1, CrashMidCall <- FALSE, LateCalls <- FALSE,
    job <- flush, call <- scheduling, crashes <- downs

ASSUME RecoveryAssumption ==
  Recovery!TimesAssumption /\ Recovery!DeploymentsAssumption /\ Recovery!MessagesAssumption
ASSUME Scheduler!BoundsAssumption /\ Scheduler!FaultsAssumption

PartsInit ==
  /\ part \in Parts
  /\ Init /\ (part = "statuses" \/ channel = "whatsapp")
  /\ Recovery!Init /\ (part = "recovery" \/ deployment = Restarts)
  /\ Scheduler!Init /\ (part = "scheduler" \/ kind = "in_memory")

ReportStatuses == part = "statuses" /\ Next /\ UNCHANGED <<part, recoveryVars, schedulerVars>>

RunAndRestart == part = "recovery" /\ Recovery!Next /\ UNCHANGED <<part, vars, schedulerVars>>

ScheduleFlushes == part = "scheduler" /\ Scheduler!Next /\ UNCHANGED <<part, vars, recoveryVars>>

PartsNext ==
  \/ ReportStatuses
  \/ RunAndRestart
  \/ ScheduleFlushes

\* As AgentRecovery!Fairness, where one replica restarts.
Restarting == part = "recovery" /\ deployment = Restarts

RestartFairness ==
  /\ WF_recoveryVars(Restarting /\ Recovery!Tick)
  /\ WF_recoveryVars(Restarting /\ Recovery!Flush("p1", record))
  /\ WF_recoveryVars(Restarting /\ Recovery!ChatEnds("p1", record))
  /\ WF_recoveryVars(Restarting /\ Recovery!Drive("p1", record))
  /\ WF_recoveryVars(Restarting /\ (Recovery!SendReaches("p1") \/ Recovery!SendEnds("p1", record)))
  /\ WF_recoveryVars(Restarting /\ Recovery!RetryFires("p1", record))
  /\ WF_recoveryVars(Restarting /\ Recovery!DeliveryTimesOut("p1", record))
  /\ WF_recoveryVars(Restarting /\ Recovery!Boot("p1"))
  /\ WF_recoveryVars(Restarting /\ Recovery!Recover("p1", record))

\* As BufferScheduler!Fairness, in the part of the schedulers.
SchedulerFairness ==
  \A k \in Keys :
    /\ WF_schedulerVars(part = "scheduler" /\ Scheduler!Progress(k))
    /\ SF_schedulerVars(part = "scheduler" /\ Scheduler!Fires(k))

PartsSpec ==
  /\ PartsInit /\ [][PartsNext]_<<part, vars, recoveryVars, schedulerVars>>
  /\ RestartFairness /\ SchedulerFairness

\* What the admin route shows of a message depends on the updates that arrived
\* and not on their order or number, and a read watermark marks no message that
\* was sent after it (applyStatusUpdate, handleReadWatermarkImpl).
RecordsAreWhatArrived == RecordIsWhatArrived /\ ReadsAreOfSentBefore

\* Two replicas may work on two messages at once: the lock is one process's.
OneAtATime ==
  \/ Recovery!OneReplica
  \/ ~overtaken /\ \A m, n \in deployment.inbound : m = n

\* Of replicas that crash and are restarted together (with several of them: of one
\* message, until one saves the record between another's load and save), no item
\* is sent twice, unless a process died in its send and had not stored the
\* channel's id (recoverPendingRetries).
SentOnce == Recovery!Quiet /\ OneAtATime => Recovery!SentOnce

\* A message that waits in the stored record survives crash and recovery, with
\* several replicas until one saves the record between another's load and save
\* (recoverPendingRetries).
StoredIsNotLost == [][Recovery!StoredStays]_recoveryVars

\* Of one replica: a turn that a crash cuts off ends or becomes input of a new turn
\* without another message, unless the crash left what recoverPendingRetries has no
\* branch for, or its claim still stood at the scan.
RestartedTurnEnds == Restarting => Recovery!RestartedTurnEnds

\* Buffered input has a timer, a job or a handler that has yet to take it; on the
\* durable path a key has one handler at a time (schedule, cancel, the worker).
OwedIsPending == Scheduler!OwedIsPending /\ Scheduler!OneHandlerPerKey

\* Both schedulers do what FlushPromise says: buffered input is taken in the end.
ImplementsFlushPromise == Scheduler!ImplementsFlushPromise
=============================================================================
