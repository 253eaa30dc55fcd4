------------------------- MODULE ConversationAgent -------------------------
(***************************************************************************)
(* One conversation key of ConversationAgent (src/src/conversation/        *)
(* agent.ts), in one process: the per-key lock, the buffered turn, the     *)
(* unlocked chat call that a late message aborts, ordered outbound         *)
(* delivery, delivery statuses, and the three timers.                      *)
(*                                                                         *)
(* Keys share nothing but the process, so one key stands for all.          *)
(*                                                                         *)
(* The lock is the promise chain of runExclusive: `chain` holds the        *)
(* operations of the key in the order they were chained, its head holds    *)
(* the lock.  An operation is one step, because the record is only touched *)
(* under the lock; the send loop (sendNext and its helpers) is one step    *)
(* per item with the lock held, sendLoop being TRUE meanwhile.  What runs  *)
(* outside the lock - webhooks, timer callbacks, the chat call - is a step *)
(* of its own that at most appends to the chain.                           *)
(***************************************************************************)
EXTENDS OutboundQueue, SequencesExt

CONSTANTS
  Messages,         \* ids of the user's messages
  Echoes,           \* ids of echoes of our own sends (is_echo)
  Channel,          \* the channel of the conversation
  Replies,          \* what the chat endpoint may answer: sequences of Kinds
  Failures,         \* classifications this deployment gives a failed send
  MaxReprocess,     \* MAX_REPROCESS
  MaxRetryAttempts, \* transientRetryMaxAttempts()
  Deployments,      \* how the agent may be constructed: a subset of AgentDeps
  Flushes,          \* flushImpl invocations that may be alive at once (bound)
  MaxQueued,        \* chained operations at which webhooks stop (bound)
  MaxRedelivered    \* chained operations at which redelivered ones stop (bound)

\* What an agent is constructed with: its BufferScheduler, and whether its
\* adapter registry answers for the channel and business id of the key.
AgentDeps == [scheduler: {"in_memory", "bullmq"}, hasAdapter: BOOLEAN]

FailureClasses == {"permanent", "transient", "window_closed"}

ASSUME MessagesAssumption == Messages \intersect Echoes = {}
ASSUME ChannelAssumption == Channel \in Channels
ASSUME DeploymentsAssumption == Deployments \subseteq AgentDeps
ASSUME RepliesAssumption == Replies \subseteq Seq(Kinds)
ASSUME FailuresAssumption ==
  /\ Failures \subseteq FailureClasses
  /\ "window_closed" \in Failures => Channel = "whatsapp"
ASSUME BoundsAssumption ==
  /\ MaxReprocess \in Nat
  /\ MaxRetryAttempts \in Nat
  /\ MaxQueued \in Nat
  /\ MaxRedelivered \in Nat

VARIABLES
  record,               \* the stored ConversationRecord
  accepted,             \* claimed inbound handles, in the order of the claims
  handles,              \* outbound handle mappings: [id, messageIndex]
  chain,                \* keyTails: the operations chained on the key
  sendLoop,             \* the lock holder is inside sendNext
  bufferTimer,          \* the scheduler holds a flush for the key
  flush,                \* the flushImpl invocations and where each one is
  inFlightChatAborts,   \* the flush whose AbortController is registered: at most one
  deliveryTimeouts,     \* the armed delivery timer: at most one messageIndex
  transientRetryTimers, \* the armed retry timer: at most one [item, attempt]
  pendingRequest,       \* pendingRequests holds the turn's chat request
  lastId,               \* the last uuid or channel message id minted
  answered,             \* auxiliary: the messages of the turns that were settled, in order
  fellThrough,          \* auxiliary: an aborted turn at the cap fell through segment 2
  deployment            \* what the agent was constructed with: never changes

vars == <<record, accepted, handles, chain, sendLoop, bufferTimer, flush, inFlightChatAborts,
          deliveryTimeouts, transientRetryTimers, pendingRequest, lastId, answered,
          fellThrough, deployment>>

timers == <<deliveryTimeouts, transientRetryTimers>>

Scheduler == deployment.scheduler

HasAdapter == deployment.hasAdapter

-----------------------------------------------------------------------------
(* Types *)

States == {"idle", "buffering", "processing", "sending"}

Records ==
  [state: States, inboundBuffer: Seq(Messages), lateArrivals: Seq(Messages),
   reprocessCount: Nat, outboundQueue: Seq(Items), currentOutboundIndex: Nat,
   currentOutboundMessageId: Nat, windowReprompted: BOOLEAN,
   deliveredMessageIds: SUBSET Nat]

\* A failed status is named by the classification of its error code.
Statuses == {"sent", "delivered", "read"} \union Failures

RetryTimers == [item: Nat, attempt: Nat]

Operations ==
       [op: {"inbound"}, message: Messages \union Echoes]
  \union [op: {"status"}, id: Nat, status: Statuses]
  \union [op: {"segment"}, flush: Flushes]
  \union [op: {"timeout"}, messageIndex: Nat]
  \union [op: {"retry"}, timer: RetryTimers]

(***************************************************************************)
(* A flush is free, or waits for the lock in one of its locked segments    *)
(* ("prepare", "decide", "rescue", "drive", and "drop" once segment 2      *)
(* threw), or awaits the chat call without the lock ("chat").  aborted is  *)
(* the signal of its controller, and after the call the local `aborted` of *)
(* flushImpl.                                                              *)
(***************************************************************************)
Stages == {"free", "prepare", "chat", "decide", "rescue", "drive", "drop"}

FlushRecords == [stage: Stages, batch: Seq(Messages), aborted: BOOLEAN, reply: Seq(Kinds)]

FreeFlush == [stage |-> "free", batch |-> <<>>, aborted |-> FALSE, reply |-> <<>>]

TypeOK ==
  /\ record \in Records
  /\ accepted \in Seq(Messages)
  /\ handles \in SUBSET [id: Nat, messageIndex: Nat]
  /\ chain \in Seq(Operations)
  /\ sendLoop \in BOOLEAN
  /\ bufferTimer \in BOOLEAN
  /\ flush \in [Flushes -> FlushRecords]
  /\ inFlightChatAborts \in SUBSET Flushes
  /\ deliveryTimeouts \in SUBSET Nat
  /\ transientRetryTimers \in SUBSET RetryTimers
  /\ pendingRequest \in BOOLEAN
  /\ lastId \in Nat
  /\ answered \in Seq(Messages)
  /\ fellThrough \in BOOLEAN
  /\ deployment \in AgentDeps

Init ==
  /\ record = [state |-> "idle", inboundBuffer |-> <<>>, lateArrivals |-> <<>>,
               reprocessCount |-> 0, outboundQueue |-> <<>>, currentOutboundIndex |-> 0,
               currentOutboundMessageId |-> None, windowReprompted |-> FALSE,
               deliveredMessageIds |-> {}]
  /\ accepted = <<>>
  /\ handles = {}
  /\ chain = <<>>
  /\ sendLoop = FALSE
  /\ bufferTimer = FALSE
  /\ flush = [f \in Flushes |-> FreeFlush]
  /\ inFlightChatAborts = {}
  /\ deliveryTimeouts = {}
  /\ transientRetryTimers = {}
  /\ pendingRequest = FALSE
  /\ lastId = None
  /\ answered = <<>>
  /\ fellThrough = FALSE
  /\ deployment \in Deployments

-----------------------------------------------------------------------------
(* The per-key lock *)

\* The operation at the head runs; it is not (yet) in the send loop.
Holds(op) ==
  /\ chain # <<>>
  /\ ~sendLoop
  /\ Head(chain).op = op

Enqueue(operation) == chain' = Append(chain, operation)

\* The operation settles: the next one in the chain may start.
Release ==
  /\ chain' = Tail(chain)
  /\ sendLoop' = FALSE

\* The operation goes on in sendNext, keeping the lock.
ContinueSending ==
  /\ sendLoop' = TRUE
  /\ UNCHANGED chain

-----------------------------------------------------------------------------
(* The buffer scheduler *)

(***************************************************************************)
(* The in-memory scheduler replaces the timer of the key.  BullMQ has one  *)
(* job id per key: while the job of that id is active, which it is until   *)
(* flushImpl returns, cancel cannot remove it (the error is swallowed) and *)
(* add ignores a job with the same id.                                     *)
(***************************************************************************)
JobActive ==
  \/ \E f \in Flushes : flush[f].stage # "free"
  \/ sendLoop /\ Head(chain).op = "segment"

\* Mutant of TakesSchedule: no schedule replaces a flush that is running.
TakesScheduleWhenInactive == ~JobActive

\* Mutant of TakesSchedule: a second flush of the key may be scheduled.
TakesAnySchedule == TRUE

TakesSchedule == Scheduler = "bullmq" => ~JobActive

\* scheduler.schedule, called when `needed`.
ScheduleFlush(needed) == bufferTimer' = (bufferTimer \/ (needed /\ TakesSchedule))

-----------------------------------------------------------------------------
(* The webhooks, outside the lock *)

\* The webhook of the message came before.
IsRedelivery(m) ==
  \/ m \in Range(accepted)
  \/ \E i \in DOMAIN chain : chain[i].op = "inbound" /\ chain[i].message = m

\* handleInbound is called for a message or an echo, perhaps again for a
\* redelivered webhook.
ReceiveInbound(m) ==
  /\ Len(chain) < IF IsRedelivery(m) THEN MaxRedelivered ELSE MaxQueued
  /\ Enqueue([op |-> "inbound", message |-> m])
  /\ UNCHANGED <<record, accepted, handles, sendLoop, bufferTimer, flush, inFlightChatAborts,
                 timers, pendingRequest, lastId, answered, fellThrough, deployment>>

\* handleStatus: a status of a mapped handle is chained on the key; one of an
\* unmapped handle changes nothing.
ReceiveStatus(h, s) ==
  /\ Len(chain) < MaxQueued
  /\ Enqueue([op |-> "status", id |-> h.id, status |-> s])
  /\ UNCHANGED <<record, accepted, handles, sendLoop, bufferTimer, flush, inFlightChatAborts,
                 timers, pendingRequest, lastId, answered, fellThrough, deployment>>

-----------------------------------------------------------------------------
(* Inbound *)

\* Mutant of Claimed: the handle is claimed when the turn is settled.
ClaimedAfterTurn(m) == m \in Range(answered)

\* The inbound handle of the message was claimed before (SETNX fails).
Claimed(m) == m \in Range(accepted)

\* An echo, or a message whose handle was claimed before, is dropped.
DropInbound ==
  /\ Holds("inbound")
  /\ \/ Head(chain).message \in Echoes
     \/ Claimed(Head(chain).message)
  /\ Release
  /\ UNCHANGED <<record, accepted, handles, bufferTimer, flush, inFlightChatAborts, timers,
                 pendingRequest, lastId, answered, fellThrough, deployment>>

\* The message at the head is new: its handle is claimed under the lock.
AcceptInbound ==
  /\ Holds("inbound")
  /\ Head(chain).message \in Messages
  /\ ~Claimed(Head(chain).message)
  /\ accepted' = Append(accepted, Head(chain).message)
  /\ Release

\* idle, buffering: the message joins the buffer and the flush is put off.
BufferInbound ==
  /\ AcceptInbound
  /\ record.state \in {"idle", "buffering"}
  /\ record' = [record EXCEPT !.inboundBuffer = Append(@, Head(chain).message),
                              !.state = "buffering"]
  /\ ScheduleFlush(TRUE)
  /\ UNCHANGED <<handles, flush, inFlightChatAborts, timers, pendingRequest, lastId, answered,
                 fellThrough, deployment>>

\* processing: the message waits in lateArrivals, and the chat call is aborted
\* if its flush registered a controller.
StashLateArrival ==
  /\ AcceptInbound
  /\ record.state = "processing"
  /\ record' = [record EXCEPT !.lateArrivals = Append(@, Head(chain).message)]
  /\ flush' = [f \in Flushes |->
                 IF f \in inFlightChatAborts THEN [flush[f] EXCEPT !.aborted = TRUE] ELSE flush[f]]
  /\ UNCHANGED <<handles, bufferTimer, inFlightChatAborts, timers, pendingRequest, lastId,
                 answered, fellThrough, deployment>>

InterruptedRecord(m) ==
  [record EXCEPT !.inboundBuffer = Append(@ \o record.lateArrivals, m),
                 !.lateArrivals = <<>>,
                 !.outboundQueue = <<>>,
                 !.currentOutboundIndex = 0,
                 !.currentOutboundMessageId = None,
                 !.reprocessCount = 0,
                 !.state = "buffering"]

\* sending: the rest of the queue is dropped and the turn starts over.
InterruptSending ==
  /\ AcceptInbound
  /\ record.state = "sending"
  /\ deliveryTimeouts' = {}
  /\ transientRetryTimers' = {}
  /\ pendingRequest' = FALSE
  /\ handles' = {h \in handles : h.id # record.currentOutboundMessageId}
  /\ record' = InterruptedRecord(Head(chain).message)
  /\ ScheduleFlush(TRUE)
  /\ UNCHANGED <<flush, inFlightChatAborts, lastId, answered, fellThrough, deployment>>

-----------------------------------------------------------------------------
(* The end of a turn *)

Rebuffered(r) == r.state = "buffering" /\ r.inboundBuffer # <<>>

\* Mutant of FinalizedRecord: the turn ends in idle, whatever waits.
FinalizedRecordIdle(r) ==
  [r EXCEPT !.currentOutboundMessageId = None, !.reprocessCount = 0, !.state = "idle"]

\* finalizeTurn's record: late arrivals become a follow-up turn, a record that
\* an interrupt re-buffered is left alone, any other goes idle.
FinalizedRecord(r) ==
  IF r.lateArrivals # <<>>
  THEN [r EXCEPT !.inboundBuffer = @ \o r.lateArrivals,
                 !.lateArrivals = <<>>,
                 !.outboundQueue = <<>>,
                 !.currentOutboundIndex = 0,
                 !.currentOutboundMessageId = None,
                 !.reprocessCount = 0,
                 !.state = "buffering"]
  ELSE IF Rebuffered(r) THEN r
  ELSE [r EXCEPT !.currentOutboundMessageId = None,
                 !.reprocessCount = 0,
                 !.state = "idle"]

FinalizeTurn(r) ==
  /\ record' = FinalizedRecord(r)
  /\ ScheduleFlush(r.lateArrivals # <<>>)
  /\ deliveryTimeouts' = {}
  /\ transientRetryTimers' = {}
  /\ pendingRequest' = FALSE

-----------------------------------------------------------------------------
(* Flush *)

\* The buffer timer of the scheduler calls flushImpl, which chains segment 1.
BufferTimerFires(f) ==
  /\ bufferTimer
  /\ flush[f].stage = "free"
  /\ bufferTimer' = FALSE
  /\ flush' = [flush EXCEPT ![f].stage = "prepare"]
  /\ Enqueue([op |-> "segment", flush |-> f])
  /\ UNCHANGED <<record, accepted, handles, sendLoop, inFlightChatAborts, timers, pendingRequest,
                 lastId, answered, fellThrough, deployment>>

HoldsSegment(f, stage) ==
  /\ Holds("segment")
  /\ Head(chain).flush = f
  /\ flush[f].stage = stage

\* Segment 1 with nothing buffered: an earlier flush took it all.
PrepareNothing(f) ==
  /\ HoldsSegment(f, "prepare")
  /\ record.inboundBuffer = <<>>
  /\ flush' = [flush EXCEPT ![f] = FreeFlush]
  /\ Release
  /\ UNCHANGED <<record, accepted, handles, bufferTimer, inFlightChatAborts, timers,
                 pendingRequest, lastId, answered, fellThrough, deployment>>

\* Segment 1 with no adapter for the account: the turn ends here.
PrepareNoAdapter(f) ==
  /\ HoldsSegment(f, "prepare")
  /\ record.inboundBuffer # <<>>
  /\ ~HasAdapter
  /\ record' = [record EXCEPT !.state = "idle", !.currentOutboundMessageId = None]
  /\ flush' = [flush EXCEPT ![f] = FreeFlush]
  /\ Release
  /\ UNCHANGED <<accepted, handles, bufferTimer, inFlightChatAborts, timers, pendingRequest,
                 lastId, answered, fellThrough, deployment>>

\* Segment 1 stops before the chat call.
EndAtPrepare(f) ==
  IF record.inboundBuffer = <<>> THEN PrepareNothing(f) ELSE PrepareNoAdapter(f)

\* The turn was reprocessed MaxReprocess times: its flush must send a response.
IsCommitted == record.reprocessCount >= MaxReprocess

\* Segment 1: the buffer is the batch of the chat call, which is interruptible
\* unless it is committed.
PrepareBatch(f) ==
  /\ HoldsSegment(f, "prepare")
  /\ record.inboundBuffer # <<>>
  /\ HasAdapter
  /\ record' = [record EXCEPT !.inboundBuffer = <<>>, !.lateArrivals = <<>>,
                              !.state = "processing"]
  /\ flush' = [flush EXCEPT ![f] = [FreeFlush EXCEPT !.stage = "chat",
                                                     !.batch = record.inboundBuffer]]
  /\ inFlightChatAborts' = IF IsCommitted THEN inFlightChatAborts ELSE {f}
  /\ Release
  /\ UNCHANGED <<accepted, handles, bufferTimer, timers, pendingRequest, lastId, answered,
                 fellThrough, deployment>>

\* The chat call is over, in whatever way: the controller of the key is dropped
\* and the next locked segment of the flush is chained.
ChatSettles(f, settled) ==
  /\ flush[f].stage = "chat"
  /\ flush' = [flush EXCEPT ![f] = settled]
  /\ inFlightChatAborts' = {}
  /\ Enqueue([op |-> "segment", flush |-> f])
  /\ UNCHANGED <<record, accepted, handles, sendLoop, bufferTimer, timers, pendingRequest, lastId,
                 answered, fellThrough, deployment>>

\* A reply arrives; an abort raised too late to reject the call is not seen.
ChatReplies(f, reply) ==
  ChatSettles(f, [flush[f] EXCEPT !.stage = "decide", !.aborted = FALSE, !.reply = reply])

\* The call rejects: an abort leads to segment 2, any other error to the rescue.
ChatRejects(f) ==
  ChatSettles(f, [flush[f] EXCEPT !.stage = IF flush[f].aborted THEN "decide" ELSE "rescue"])

\* The chat error's locked part: late arrivals become a fresh turn, else idle.  Its
\* `finally` drops the controller of the key once more, whose ever it is by then.
RescueLateArrivals(f) ==
  /\ HoldsSegment(f, "rescue")
  /\ record.lateArrivals # <<>>
  /\ inFlightChatAborts' = {}
  /\ deliveryTimeouts' = {}
  /\ record' = [record EXCEPT !.inboundBuffer = @ \o record.lateArrivals,
                              !.lateArrivals = <<>>,
                              !.currentOutboundMessageId = None,
                              !.reprocessCount = 0,
                              !.state = "buffering"]
  /\ ScheduleFlush(TRUE)
  /\ answered' = answered \o flush[f].batch
  /\ flush' = [flush EXCEPT ![f] = FreeFlush]
  /\ Release
  /\ UNCHANGED <<accepted, handles, transientRetryTimers, pendingRequest,
                 lastId, fellThrough, deployment>>

EndFailedTurn(f) ==
  /\ HoldsSegment(f, "rescue")
  /\ record.lateArrivals = <<>>
  /\ inFlightChatAborts' = {}
  /\ deliveryTimeouts' = {}
  /\ transientRetryTimers' = {}
  /\ pendingRequest' = FALSE
  /\ record' = [record EXCEPT !.state = "idle", !.currentOutboundMessageId = None]
  /\ answered' = answered \o flush[f].batch
  /\ flush' = [flush EXCEPT ![f] = FreeFlush]
  /\ Release
  /\ UNCHANGED <<accepted, handles, bufferTimer, lastId, fellThrough,
                 deployment>>

\* Mutant of RebatchedInput: the late arrivals come before the batch.
RebatchedInputLateFirst(f) == record.inboundBuffer \o record.lateArrivals \o flush[f].batch

RebatchedInput(f) == flush[f].batch \o record.inboundBuffer \o record.lateArrivals

\* Segment 2 after an abort: the batch and the late arrivals are one turn again.
Rebatch(f) ==
  /\ HoldsSegment(f, "decide")
  /\ flush[f].aborted
  /\ ~IsCommitted
  /\ record' = [record EXCEPT
                  !.inboundBuffer = RebatchedInput(f),
                  !.lateArrivals = <<>>,
                  !.reprocessCount = @ + 1,
                  !.state = "buffering"]
  /\ ScheduleFlush(TRUE)
  /\ flush' = [flush EXCEPT ![f] = FreeFlush]
  /\ Release
  /\ UNCHANGED <<accepted, handles, inFlightChatAborts, timers, pendingRequest, lastId, answered,
                 fellThrough, deployment>>

\* Segment 2 after an abort with the count at the cap, which another flush raised
\* since: it reads the response there is none of and throws, and flushImpl's catch
\* chains transitionToIdle.  The batch is dropped.
FallThroughAtCap(f) ==
  /\ HoldsSegment(f, "decide")
  /\ flush[f].aborted
  /\ IsCommitted
  /\ inFlightChatAborts' = {}
  /\ fellThrough' = TRUE
  /\ flush' = [flush EXCEPT ![f] = [FreeFlush EXCEPT !.stage = "drop"]]
  /\ chain' = Append(Tail(chain), [op |-> "segment", flush |-> f])
  /\ UNCHANGED <<record, accepted, handles, sendLoop, bufferTimer, timers, pendingRequest,
                 lastId, answered, deployment>>

\* transitionToIdle, whatever the record holds by then: what is buffered or late
\* stays on it.
ForceIdle(f) ==
  /\ HoldsSegment(f, "drop")
  /\ deliveryTimeouts' = {}
  /\ transientRetryTimers' = {}
  /\ pendingRequest' = FALSE
  /\ record' = [record EXCEPT !.state = "idle", !.currentOutboundMessageId = None]
  /\ flush' = [flush EXCEPT ![f] = FreeFlush]
  /\ Release
  /\ UNCHANGED <<accepted, handles, bufferTimer, inFlightChatAborts, lastId, answered,
                 fellThrough, deployment>>

\* Segment 2 with nothing to deliver.
EndSilentTurn(f) ==
  /\ HoldsSegment(f, "decide")
  /\ ~flush[f].aborted
  /\ flush[f].reply = <<>>
  /\ FinalizeTurn(record)
  /\ answered' = answered \o flush[f].batch
  /\ flush' = [flush EXCEPT ![f] = FreeFlush]
  /\ Release
  /\ UNCHANGED <<accepted, handles, inFlightChatAborts, lastId, fellThrough, deployment>>

\* Segment 2 with items: the queue is attached and segment 3 is chained.
AttachQueue(f) ==
  /\ HoldsSegment(f, "decide")
  /\ ~flush[f].aborted
  /\ flush[f].reply # <<>>
  /\ record' = [record EXCEPT
                  !.outboundQueue = BuildOutboundItems(flush[f].reply, lastId),
                  !.currentOutboundIndex = 0,
                  !.currentOutboundMessageId = None,
                  !.windowReprompted = FALSE,
                  !.reprocessCount = 0,
                  !.state = "sending"]
  /\ lastId' = lastId + Len(flush[f].reply)
  /\ pendingRequest' = TRUE
  /\ answered' = answered \o flush[f].batch
  /\ flush' = [flush EXCEPT ![f] = [FreeFlush EXCEPT !.stage = "drive"]]
  /\ chain' = Append(Tail(chain), [op |-> "segment", flush |-> f])
  /\ UNCHANGED <<accepted, handles, sendLoop, bufferTimer, inFlightChatAborts, timers, fellThrough,
                 deployment>>

\* Segment 3: the send loop starts.
DriveDelivery(f) ==
  /\ HoldsSegment(f, "drive")
  /\ flush' = [flush EXCEPT ![f] = FreeFlush]
  /\ ContinueSending
  /\ UNCHANGED <<record, accepted, handles, bufferTimer, inFlightChatAborts, timers,
                 pendingRequest, lastId, answered, fellThrough, deployment>>

-----------------------------------------------------------------------------
(* Ordered delivery: one step of sendNext, the lock held *)

\* advanceAndContinue's record: the item at the cursor is recorded as delivered
\* unless it was skipped or never got an id, and the cursor moves on.
AdvancedRecord(r) ==
  LET done == IsQueueComplete(r.outboundQueue, r.currentOutboundIndex)
      item == CurrentItem(r.outboundQueue, r.currentOutboundIndex)
  IN  [r EXCEPT
         !.deliveredMessageIds =
            IF ~done /\ item.channelMessageId # None /\ ~item.skipped
            THEN @ \union {item.channelMessageId} ELSE @,
         !.currentOutboundIndex = @ + 1,
         !.currentOutboundMessageId = None]

WithCurrent(r, item) ==
  [r EXCEPT !.outboundQueue = UpdateCurrent(@, r.currentOutboundIndex, item)]

\* Mutant of SkippedRecord: the item is passed and not marked.
SkippedRecordUnmarked(r) == AdvancedRecord(r)

\* markSkippedAndAdvance
SkippedRecord(r) ==
  LET item == CurrentItem(r.outboundQueue, r.currentOutboundIndex)
  IN  IF IsQueueComplete(r.outboundQueue, r.currentOutboundIndex)
      THEN AdvancedRecord(r)
      ELSE AdvancedRecord(WithCurrent(r, [item EXCEPT !.skipped = TRUE]))

AdvanceAndContinue(r) ==
  /\ record' = r
  /\ deliveryTimeouts' = {}
  /\ ContinueSending
  /\ UNCHANGED <<bufferTimer, transientRetryTimers, pendingRequest, lastId>>

\* scheduleTransientRetry: the item keeps its place and its timer is armed.
ScheduleRetry(r, item, attempt) ==
  /\ record' = WithCurrent(r, [item EXCEPT !.retryCount = attempt])
  /\ deliveryTimeouts' = {}
  /\ transientRetryTimers' = {[item |-> item.id, attempt |-> attempt]}
  /\ Release
  /\ UNCHANGED <<bufferTimer, pendingRequest, lastId>>

\* handleWindowClosed: ask the chat endpoint once more for the same turn, then
\* skip the item, end the turn, or deliver the new queue.  `armed` is what its
\* caller left of the delivery timer.
HandleWindowClosed(r, armed) ==
  LET reprompted == [r EXCEPT !.windowReprompted = TRUE]
      mayReprompt == ~r.windowReprompted /\ pendingRequest
  IN  \/ /\ ~mayReprompt
         /\ AdvanceAndContinue(SkippedRecord(r))
      \/ /\ mayReprompt
         /\ AdvanceAndContinue(SkippedRecord(reprompted))
      \/ /\ mayReprompt
         /\ FinalizeTurn(reprompted)
         /\ Release
         /\ UNCHANGED lastId
      \/ /\ mayReprompt
         /\ \E reply \in Replies \ {<<>>} :
              /\ record' = [reprompted EXCEPT
                              !.outboundQueue = BuildOutboundItems(reply, lastId),
                              !.currentOutboundIndex = 0,
                              !.currentOutboundMessageId = None]
              /\ lastId' = lastId + Len(reply)
         /\ deliveryTimeouts' = armed
         /\ ContinueSending
         /\ UNCHANGED <<bufferTimer, transientRetryTimers, pendingRequest>>

Sending(item) ==
  /\ sendLoop
  /\ ~IsQueueComplete(record.outboundQueue, record.currentOutboundIndex)
  /\ item = CurrentItem(record.outboundQueue, record.currentOutboundIndex)

Attempted(item) == [item EXCEPT !.attempts = @ + 1]

\* The queue is drained.
SendLoopEnds ==
  /\ sendLoop
  /\ IsQueueComplete(record.outboundQueue, record.currentOutboundIndex)
  /\ FinalizeTurn(record)
  /\ Release
  /\ UNCHANGED <<accepted, handles, flush, inFlightChatAborts, lastId, answered, fellThrough,
                 deployment>>

\* A reaction or a typing indicator: advance at once on every channel.
SendFireAndForget(item) ==
  /\ Sending(item)
  /\ item.kind = "reaction"
  /\ AdvanceAndContinue(AdvancedRecord(WithCurrent(record, Attempted(item))))
  /\ UNCHANGED <<accepted, handles, flush, inFlightChatAborts, answered, fellThrough, deployment>>

\* The item as the accepted send leaves it: the retry count is dropped.
SentItem(item, id) ==
  [Attempted(item) EXCEPT !.channelMessageId = id, !.retryCount = 0]

\* Messenger, Instagram: the response of the send is the only confirmation.
SendOnSend(item) ==
  /\ Sending(item)
  /\ item.kind = "message"
  /\ AdvancementMode(Channel) = "on_send"
  /\ record' = AdvancedRecord(WithCurrent(record, SentItem(item, lastId + 1)))
  /\ lastId' = lastId + 1
  /\ deliveryTimeouts' = {}
  /\ ContinueSending
  /\ UNCHANGED <<accepted, handles, bufferTimer, flush, inFlightChatAborts, transientRetryTimers,
                 pendingRequest, answered, fellThrough, deployment>>

\* WhatsApp: the handle is mapped, the delivery timer armed, the lock released.
SendOnStatus(item) ==
  /\ Sending(item)
  /\ item.kind = "message"
  /\ AdvancementMode(Channel) = "on_status"
  /\ record' = [WithCurrent(record, SentItem(item, lastId + 1))
                  EXCEPT !.currentOutboundMessageId = lastId + 1]
  /\ handles' = handles \union {[id |-> lastId + 1, messageIndex |-> record.currentOutboundIndex]}
  /\ lastId' = lastId + 1
  /\ deliveryTimeouts' = {record.currentOutboundIndex}
  /\ Release
  /\ UNCHANGED <<accepted, bufferTimer, flush, inFlightChatAborts, transientRetryTimers,
                 pendingRequest, answered, fellThrough, deployment>>

\* The send throws and is classified.
SendFailsTransient(item) ==
  /\ Sending(item)
  /\ "transient" \in Failures
  /\ item.retryCount + 1 <= MaxRetryAttempts
  /\ ScheduleRetry(record, Attempted(item), item.retryCount + 1)
  /\ UNCHANGED <<accepted, handles, flush, inFlightChatAborts, answered, fellThrough, deployment>>

SendSkips(item) ==
  /\ Sending(item)
  /\ \/ "permanent" \in Failures
     \/ "transient" \in Failures /\ item.retryCount + 1 > MaxRetryAttempts
  /\ AdvanceAndContinue(SkippedRecord(WithCurrent(record, Attempted(item))))
  /\ UNCHANGED <<accepted, handles, flush, inFlightChatAborts, answered, fellThrough, deployment>>

SendFindsWindowClosed(item) ==
  /\ Sending(item)
  /\ "window_closed" \in Failures
  /\ HandleWindowClosed(WithCurrent(record, Attempted(item)), deliveryTimeouts)
  /\ UNCHANGED <<accepted, handles, flush, inFlightChatAborts, answered, fellThrough, deployment>>

-----------------------------------------------------------------------------
(* Delivery statuses *)

\* A status of the handle h runs under the lock; the mapping is read again.
HoldsStatus(h) ==
  /\ Holds("status")
  /\ h \in handles
  /\ h.id = Head(chain).id

IsInFlight(h) == record.currentOutboundIndex = h.messageIndex

\* "delivered" is recorded before anything else is decided.
NotedRecord(h) ==
  [record EXCEPT !.deliveredMessageIds =
     IF Head(chain).status = "delivered" THEN @ \union {h.id} ELSE @]

\* Mutant of Unmapped: the mapping outlives the status that settles its item.
UnmappedNothing(h) == handles

Unmapped(h) == {g \in handles : g.id # h.id}

\* The mapping is gone: nothing to do.
DropStatus ==
  /\ Holds("status")
  /\ \A h \in handles : h.id # Head(chain).id
  /\ Release
  /\ UNCHANGED <<record, accepted, handles, bufferTimer, flush, inFlightChatAborts, timers,
                 pendingRequest, lastId, answered, fellThrough, deployment>>

\* The status neither advances the queue nor fails the item in flight.
NoteStatus(h) ==
  /\ HoldsStatus(h)
  /\ ~(IsInFlight(h) /\ (StatusAdvancesQueue(Channel, Head(chain).status)
                         \/ Head(chain).status \in Failures))
  /\ record' = NotedRecord(h)
  /\ Release
  /\ UNCHANGED <<accepted, handles, bufferTimer, flush, inFlightChatAborts, timers, pendingRequest,
                 lastId, answered, fellThrough, deployment>>

StatusAdvances(h) ==
  /\ HoldsStatus(h)
  /\ IsInFlight(h)
  /\ StatusAdvancesQueue(Channel, Head(chain).status)
  /\ handles' = Unmapped(h)
  /\ AdvanceAndContinue(AdvancedRecord(NotedRecord(h)))
  /\ UNCHANGED <<accepted, flush, inFlightChatAborts, answered, fellThrough, deployment>>

\* A failed status of the item in flight, classified `class`.
StatusFails(h, class) ==
  /\ HoldsStatus(h)
  /\ IsInFlight(h)
  /\ Head(chain).status = class
  /\ handles' = Unmapped(h)
  /\ UNCHANGED <<accepted, flush, inFlightChatAborts, answered, fellThrough, deployment>>

MayRetryAsync ==
  /\ ~IsQueueComplete(record.outboundQueue, record.currentOutboundIndex)
  /\ CurrentItem(record.outboundQueue, record.currentOutboundIndex).asyncFailRetryCount + 1
       <= MaxRetryAttempts

StatusFailsTransient(h) ==
  /\ StatusFails(h, "transient")
  /\ MayRetryAsync
  /\ LET item == CurrentItem(record.outboundQueue, record.currentOutboundIndex)
         attempt == item.asyncFailRetryCount + 1
     IN  ScheduleRetry([record EXCEPT !.currentOutboundMessageId = None],
                       [item EXCEPT !.asyncFailRetryCount = attempt, !.channelMessageId = None],
                       attempt)

StatusSkips(h) ==
  /\ \/ StatusFails(h, "permanent")
     \/ StatusFails(h, "transient") /\ ~MayRetryAsync
  /\ AdvanceAndContinue(SkippedRecord(record))

\* The delivery timer is cleared before the re-prompt.
StatusFindsWindowClosed(h) ==
  /\ StatusFails(h, "window_closed")
  /\ HandleWindowClosed(record, {})

-----------------------------------------------------------------------------
(* The delivery timer and the retry timer *)

DeliveryTimerFires(i) ==
  /\ i \in deliveryTimeouts
  /\ deliveryTimeouts' = {}
  /\ Enqueue([op |-> "timeout", messageIndex |-> i])
  /\ UNCHANGED <<record, accepted, handles, sendLoop, bufferTimer, flush, inFlightChatAborts,
                 transientRetryTimers, pendingRequest, lastId, answered, fellThrough, deployment>>

\* onDeliveryTimeoutImpl: only the index is compared.
TimeoutAdvances ==
  /\ Holds("timeout")
  /\ record.currentOutboundIndex = Head(chain).messageIndex
  /\ handles' = {h \in handles : h.id # record.currentOutboundMessageId}
  /\ AdvanceAndContinue(AdvancedRecord(record))
  /\ UNCHANGED <<accepted, flush, inFlightChatAborts, answered, fellThrough, deployment>>

DropTimeout ==
  /\ Holds("timeout")
  /\ record.currentOutboundIndex # Head(chain).messageIndex
  /\ Release
  /\ UNCHANGED <<record, accepted, handles, bufferTimer, flush, inFlightChatAborts, timers,
                 pendingRequest, lastId, answered, fellThrough, deployment>>

RetryTimerFires(t) ==
  /\ t \in transientRetryTimers
  /\ transientRetryTimers' = {}
  /\ Enqueue([op |-> "retry", timer |-> t])
  /\ UNCHANGED <<record, accepted, handles, sendLoop, bufferTimer, flush, inFlightChatAborts,
                 deliveryTimeouts, pendingRequest, lastId, answered, fellThrough, deployment>>

\* Mutant of IsAwaited: any item of a turn being sent will do.
IsAwaitedAnyItem(timer) ==
  /\ record.state = "sending"
  /\ ~IsQueueComplete(record.outboundQueue, record.currentOutboundIndex)

\* Mutant of IsAwaited: the count is compared before its increment.
IsAwaitedOffByOne(timer) ==
  /\ record.state = "sending"
  /\ ~IsQueueComplete(record.outboundQueue, record.currentOutboundIndex)
  /\ LET item == CurrentItem(record.outboundQueue, record.currentOutboundIndex)
     IN  item.id = timer.item /\ item.retryCount + 1 = timer.attempt

\* runTransientRetryImpl: the item must be the one armed, with the same count.
IsAwaited(timer) ==
  /\ record.state = "sending"
  /\ ~IsQueueComplete(record.outboundQueue, record.currentOutboundIndex)
  /\ LET item == CurrentItem(record.outboundQueue, record.currentOutboundIndex)
     IN  item.id = timer.item /\ item.retryCount = timer.attempt

RetrySends ==
  /\ Holds("retry")
  /\ IsAwaited(Head(chain).timer)
  /\ ContinueSending
  /\ UNCHANGED <<record, accepted, handles, bufferTimer, flush, inFlightChatAborts, timers,
                 pendingRequest, lastId, answered, fellThrough, deployment>>

DropRetry ==
  /\ Holds("retry")
  /\ ~IsAwaited(Head(chain).timer)
  /\ Release
  /\ UNCHANGED <<record, accepted, handles, bufferTimer, flush, inFlightChatAborts, timers,
                 pendingRequest, lastId, answered, fellThrough, deployment>>

-----------------------------------------------------------------------------
(* The next-state relation *)

Webhook ==
  \/ \E m \in Messages \union Echoes : ReceiveInbound(m)
  \/ \E h \in handles, s \in Statuses : ReceiveStatus(h, s)

Inbound == DropInbound \/ BufferInbound \/ StashLateArrival \/ InterruptSending

Segment(f) ==
  \/ EndAtPrepare(f) \/ PrepareBatch(f)
  \/ RescueLateArrivals(f) \/ EndFailedTurn(f)
  \/ Rebatch(f) \/ EndSilentTurn(f) \/ AttachQueue(f)
  \/ FallThroughAtCap(f) \/ ForceIdle(f)
  \/ DriveDelivery(f)

SendStep ==
  \/ SendLoopEnds
  \/ \E i \in 1 .. Len(record.outboundQueue) :
       LET item == record.outboundQueue[i]
       IN  /\ i = record.currentOutboundIndex + 1
           /\ \/ SendFireAndForget(item) \/ SendOnSend(item) \/ SendOnStatus(item)
              \/ SendFailsTransient(item) \/ SendSkips(item) \/ SendFindsWindowClosed(item)

Status ==
  \/ DropStatus
  \/ \E h \in handles :
       \/ NoteStatus(h) \/ StatusAdvances(h)
       \/ StatusFailsTransient(h) \/ StatusSkips(h) \/ StatusFindsWindowClosed(h)

Timer == TimeoutAdvances \/ DropTimeout \/ RetrySends \/ DropRetry

\* Whatever the holder of the lock does.
LockStep == Inbound \/ (\E f \in Flushes : Segment(f)) \/ SendStep \/ Status \/ Timer

ChatStep(f) == ChatRejects(f) \/ \E reply \in Replies : ChatReplies(f, reply)

TimerFires ==
  \/ \E f \in Flushes : BufferTimerFires(f)
  \/ \E i \in deliveryTimeouts : DeliveryTimerFires(i)
  \/ \E t \in transientRetryTimers : RetryTimerFires(t)

Next ==
  \/ Webhook
  \/ LockStep
  \/ \E f \in Flushes : ChatStep(f)
  \/ TimerFires

Spec == Init /\ [][Next]_vars

(***************************************************************************)
(* Fairness.  A locked operation always settles (its store and network     *)
(* calls do), so the chain moves on; the chat client times out; an armed   *)
(* timer fires.  Webhooks owe nothing: a status may never come.            *)
(***************************************************************************)
Fairness ==
  /\ WF_vars(LockStep)
  /\ \A f \in Flushes : WF_vars(ChatStep(f))
  /\ WF_vars(\E f \in Flushes : BufferTimerFires(f))
  /\ WF_vars(\E i \in deliveryTimeouts : DeliveryTimerFires(i))
  /\ WF_vars(\E t \in transientRetryTimers : RetryTimerFires(t))

FairSpec == Spec /\ Fairness

-----------------------------------------------------------------------------
(* Properties of turns *)

\* The flushes that hold a batch: from segment 1 until their turn is settled.
Turns == {f \in Flushes : flush[f].stage \in {"chat", "decide", "rescue"}}

\* Every accepted message is buffered, late, in the batch of a turn in flight, or in
\* a turn that was settled.
AcceptedIsKept ==
  \A m \in Range(accepted) :
    \/ m \in Range(record.inboundBuffer)
    \/ m \in Range(record.lateArrivals)
    \/ m \in Range(answered)
    \/ \E f \in Turns : m \in Range(flush[f].batch)

\* No message the agent accepted is lost, whatever the order of late messages,
\* aborts, interrupts, failed calls and overlapping flushes, unless a turn fell
\* through segment 2 at the cap.  In particular segment 1's `record.lateArrivals =
\* []` never discards anything.
NoInboundLost == fellThrough \/ AcceptedIsKept

Occurrences(m, seq) == Cardinality({i \in DOMAIN seq : seq[i] = m})

\* A message is part of one turn only: redelivered webhooks, rebatches and
\* interrupts never put a second copy of it in front of the chat endpoint.
HandledOnce ==
  \A m \in Messages :
    Occurrences(m, record.inboundBuffer) + Occurrences(m, record.lateArrivals)
      + Occurrences(m, answered)
      + Cardinality({f \in Turns : m \in Range(flush[f].batch)}) <= 1

Queued(stage) == \E f \in Flushes : flush[f].stage = stage

\* Buffered input always has a flush coming: a timer, or a flush that waits for
\* the lock.  Otherwise the user is not answered until writing again.
BufferedIsAwaited ==
  record.inboundBuffer # <<>> => bufferTimer \/ Queued("prepare")

\* A conversation that is not idle has something pending that moves it on: no
\* state waits for a status or a reply alone, so a webhook that never comes
\* cannot wedge it.
BusyIsAwaited ==
  \/ record.state = "idle"
  \/ record.state = "buffering" /\ (bufferTimer \/ Queued("prepare"))
  \/ record.state = "processing" /\ (Turns # {} \/ Queued("drop"))
  \/ /\ record.state = "sending"
     /\ \/ sendLoop \/ Queued("drive")
        \/ deliveryTimeouts # {} \/ transientRetryTimers # {}
        \/ \E i \in DOMAIN chain : chain[i].op \in {"timeout", "retry"}

\* Late arrivals only wait where the end of the turn folds them into the next
\* one, and never behind a buffer, which the next segment 1 would take alone - again
\* unless a turn fell through at the cap, which leaves them on an idle record.
LateArrivalsAreOwned ==
  ~fellThrough /\ record.lateArrivals # <<>> =>
    /\ record.state \in {"processing", "sending"}
    /\ record.inboundBuffer = <<>>

\* The conversation has one chat call or undecided turn at a time, and a turn
\* whose call was aborted is still below the cap when segment 2 runs: "There is
\* therefore NO reachable aborted AT the cap case" (flushImpl).
OneTurnAtATime ==
  /\ Cardinality(Turns) <= 1
  /\ \A f \in Flushes :
       flush[f].stage = "decide" /\ flush[f].aborted => record.reprocessCount < MaxReprocess

\* An idle conversation has no input left to handle: "never `idle` with a
\* non-empty `inboundBuffer`" (flushImpl).
IdleIsDrained ==
  record.state = "idle" => record.inboundBuffer = <<>> /\ record.lateArrivals = <<>>

(***************************************************************************)
(* What each deployment promises of its turns.                             *)
(***************************************************************************)

\* With the in-memory scheduler, whose schedule never drops a flush, buffered
\* input of an account that is answered for always has a flush coming.
AwaitedInMemory == Scheduler = "in_memory" /\ HasAdapter => BufferedIsAwaited

\* On BullMQ, which has one job per conversation, turns do not overlap, an aborted
\* one is below the cap, and none falls through segment 2.
OneTurnOnBullMQ == Scheduler = "bullmq" => OneTurnAtATime /\ ~fellThrough

\* On BullMQ an idle conversation of an account that is answered for has no
\* input left: no flush ends the turn of another.
DrainedOnBullMQ == Scheduler = "bullmq" /\ HasAdapter => IdleIsDrained

\* On BullMQ turns settle the messages in the order in which they were accepted,
\* each message once: the conversation implements TurnTaking.
OrderOnBullMQ ==
  INSTANCE TurnTaking WITH
    accepted <- IF Scheduler = "bullmq" THEN accepted ELSE <<>>,
    answered <- IF Scheduler = "bullmq" THEN answered ELSE <<>>
ImplementsTurnTaking == OrderOnBullMQ!Spec

-----------------------------------------------------------------------------
(* Properties of delivery *)

\* The send calls for one item are bounded: the first send with its retries,
\* and after the k-th failed status one send with the MaxRetryAttempts - k
\* retries that the retry count seeded with k leaves.
SendBudget == ((MaxRetryAttempts + 1) * (MaxRetryAttempts + 2)) \div 2

AttemptsAreBounded ==
  \A i \in DOMAIN record.outboundQueue : record.outboundQueue[i].attempts <= SendBudget

\* The only mapped handle is that of the item in flight, with its index: a late
\* or repeated status of an earlier item cannot advance or fail a later one.
HandlesAreInFlight ==
  handles = IF record.currentOutboundMessageId = None THEN {}
            ELSE {[id |-> record.currentOutboundMessageId,
                   messageIndex |-> record.currentOutboundIndex]}

\* Whatever fails, and however late statuses and timers run: on BullMQ the queue
\* can tell where it is - the mapped handle is that of the item in flight, and no
\* item is sent more often than its retries allow -, and in memory, where flushes
\* may overlap but none is dropped, something is pending that moves the turn on.
ItemsAreAccountedFor ==
  /\ Scheduler = "bullmq" => HandlesAreInFlight /\ AttemptsAreBounded
  /\ Scheduler = "in_memory" => BusyIsAwaited

\* The step is a send call for the i-th item of the queue.
Sends(i) ==
  /\ i \in DOMAIN record'.outboundQueue
  /\ record'.outboundQueue[i].id = record.outboundQueue[i].id
  /\ record'.outboundQueue[i].attempts > record.outboundQueue[i].attempts

\* On BullMQ nothing is sent for a turn that is over or was interrupted, and no
\* item whose last send may yet be confirmed is sent again: a retry, however late
\* its timer runs, never makes the user see a message twice.
NoStraySend ==
  [][Scheduler = "bullmq" =>
       \A i \in DOMAIN record.outboundQueue :
         Sends(i) => /\ record.outboundQueue[i].channelMessageId = None
                     /\ record.state = "sending"]_vars

\* The step moves the cursor past an item of the queue.
PassesItem ==
  /\ record'.currentOutboundIndex = record.currentOutboundIndex + 1
  /\ ~IsQueueComplete(record'.outboundQueue, record.currentOutboundIndex)

\* The step does not leave the item it passes unsent and unmarked.
PassesSettled ==
  LET item == CurrentItem(record'.outboundQueue, record.currentOutboundIndex)
  IN  \/ item.skipped
      \/ item.channelMessageId # None
      \/ item.kind = "reaction" /\ item.attempts > 0

\* The cursor passes no item that was neither sent nor skipped: "advancing
\* again would double-advance and skip an unsent item. With the per-key lock
\* this race is fully closed" (onDeliveryTimeoutImpl).
CursorPassesOnlySettled == [][PassesItem => PassesSettled]_vars

\* On BullMQ a delivery timeout is the one thing that passes an item on its way to
\* a retry: no send, status, skip or re-prompt leaves an item unsent and unmarked.
OnlyTimeoutsPassUnsettled ==
  [][Scheduler = "bullmq" /\ PassesItem
       => PassesSettled \/ Holds("timeout")]_vars

-----------------------------------------------------------------------------
(* Liveness, under Fairness *)

\* Every accepted message is eventually part of a turn that was settled, however
\* often late messages abort or interrupt turns and however sends fail, unless a
\* turn falls through segment 2 at the cap.
EveryInboundAnswered ==
  \A m \in Messages : m \in Range(accepted) ~> m \in Range(answered) \/ fellThrough

\* Every turn ends, even if no delivery status ever comes.
EveryTurnEnds == record.state # "idle" ~> record.state = "idle"
=============================================================================
