---------------------- MODULE ConversationAgentProofs ----------------------
(***************************************************************************)
(* Type correctness of ConversationAgent, for every value of its           *)
(* constants.                                                              *)
(***************************************************************************)
EXTENDS ConversationAgent, SequenceTheorems, TLAPS

-----------------------------------------------------------------------------
(* The operators the steps are built from keep the types. *)

\* The items built from a reply are a queue: uuids are minted from 1 up.
LEMMA BuildType ==
  ASSUME NEW reply \in Seq(Kinds), NEW last \in Nat
  PROVE  BuildOutboundItems(reply, last) \in Seq(Items)
<1>1. \A i \in 1 .. Len(reply) : NewItem(last + i, reply[i]) \in Items
  BY DEF NewItem, Items, None
<1>2. Len(reply) \in Nat
  OBVIOUS
<1> QED
  BY <1>1, <1>2, IsASeq DEF BuildOutboundItems

\* An item below the end of the queue is an item.
LEMMA CurrentItemType ==
  ASSUME NEW r \in Records, ~IsQueueComplete(r.outboundQueue, r.currentOutboundIndex)
  PROVE  CurrentItem(r.outboundQueue, r.currentOutboundIndex) \in Items
  BY DEF Records, IsQueueComplete, CurrentItem

LEMMA WithCurrentType ==
  ASSUME NEW r \in Records, NEW item \in Items
  PROVE  WithCurrent(r, item) \in Records
<1>1. UpdateCurrent(r.outboundQueue, r.currentOutboundIndex, item) \in Seq(Items)
  BY DEF Records, UpdateCurrent, IsQueueComplete
<1> QED
  BY <1>1 DEF WithCurrent, Records

\* Advancing moves the cursor and records at most one id.
LEMMA AdvancedRecordType ==
  ASSUME NEW r \in Records
  PROVE  AdvancedRecord(r) \in Records
<1> DEFINE item == CurrentItem(r.outboundQueue, r.currentOutboundIndex)
           done == IsQueueComplete(r.outboundQueue, r.currentOutboundIndex)
           ids == IF ~done /\ item.channelMessageId # None /\ ~item.skipped
                  THEN r.deliveredMessageIds \union {item.channelMessageId}
                  ELSE r.deliveredMessageIds
<1>1. ids \in SUBSET Nat
  <2>1. CASE done
    BY <2>1 DEF Records
  <2>2. CASE ~done
    BY <2>2, CurrentItemType DEF Records, Items
  <2> QED
    BY <2>1, <2>2
<1>2. r.currentOutboundIndex + 1 \in Nat /\ None \in Nat
  BY DEF Records, None
<1>3. AdvancedRecord(r) =
        [r EXCEPT !.deliveredMessageIds = ids,
                  !.currentOutboundIndex = r.currentOutboundIndex + 1,
                  !.currentOutboundMessageId = None]
  BY DEF AdvancedRecord
<1> HIDE DEF ids
<1> QED
  BY <1>1, <1>2, <1>3, Zenon DEF Records

LEMMA SkippedRecordType ==
  ASSUME NEW r \in Records
  PROVE  SkippedRecord(r) \in Records
<1> DEFINE item == CurrentItem(r.outboundQueue, r.currentOutboundIndex)
<1>1. CASE IsQueueComplete(r.outboundQueue, r.currentOutboundIndex)
  BY <1>1, AdvancedRecordType DEF SkippedRecord
<1>2. CASE ~IsQueueComplete(r.outboundQueue, r.currentOutboundIndex)
  <2>1. [item EXCEPT !.skipped = TRUE] \in Items
    BY <1>2, CurrentItemType DEF Items
  <2>2. WithCurrent(r, [item EXCEPT !.skipped = TRUE]) \in Records
    BY <2>1, WithCurrentType
  <2> QED
    BY <1>2, <2>2, AdvancedRecordType DEF SkippedRecord
<1> QED
  BY <1>1, <1>2

LEMMA FinalizedRecordType ==
  ASSUME NEW r \in Records
  PROVE  FinalizedRecord(r) \in Records
<1>1. r.inboundBuffer \o r.lateArrivals \in Seq(Messages)
  BY DEF Records
<1>2. None \in Nat /\ "buffering" \in States /\ "idle" \in States
  BY DEF None, States
<1>3. <<>> \in Seq(Messages) /\ <<>> \in Seq(Items)
  OBVIOUS
<1>4. [r EXCEPT !.inboundBuffer = r.inboundBuffer \o r.lateArrivals,
                !.lateArrivals = <<>>, !.outboundQueue = <<>>,
                !.currentOutboundIndex = 0, !.currentOutboundMessageId = None,
                !.reprocessCount = 0, !.state = "buffering"] \in Records
  BY <1>1, <1>2, <1>3, 0 \in Nat, Zenon DEF Records
<1>5. [r EXCEPT !.currentOutboundMessageId = None, !.reprocessCount = 0,
                !.state = "idle"] \in Records
  BY <1>2, 0 \in Nat, Zenon DEF Records
<1> QED
  BY <1>4, <1>5, Zenon DEF FinalizedRecord

\* What an operation carries is what was chained.
LEMMA OperationType ==
  ASSUME NEW o \in Operations
  PROVE  /\ o.op = "inbound" => o.message \in Messages \union Echoes
         /\ o.op = "status" => o.id \in Nat /\ o.status \in Statuses
         /\ o.op = "segment" => o.flush \in Flushes
         /\ o.op = "timeout" => o.messageIndex \in Nat
         /\ o.op = "retry" => o.timer \in RetryTimers
  BY DEF Operations

-----------------------------------------------------------------------------
(* Type correctness *)

\* The lock is held while the send loop runs.
LockIsHeld == sendLoop => chain # <<>>

TypeInv == TypeOK /\ LockIsHeld

\* The part of TypeInv that the steps of ordered delivery disturb.
DeliveryTypes ==
  /\ record \in Records
  /\ chain \in Seq(Operations)
  /\ sendLoop \in BOOLEAN
  /\ LockIsHeld
  /\ bufferTimer \in BOOLEAN
  /\ deliveryTimeouts \in SUBSET Nat
  /\ transientRetryTimers \in SUBSET RetryTimers
  /\ pendingRequest \in BOOLEAN
  /\ lastId \in Nat

LEMMA EnqueueType ==
  ASSUME TypeInv, NEW o \in Operations, Enqueue(o)
  PROVE  chain' \in Seq(Operations) /\ chain' # <<>>
  BY DEF TypeInv, TypeOK, Enqueue

LEMMA ReleaseType ==
  ASSUME TypeInv, chain # <<>>, Release
  PROVE  chain' \in Seq(Operations) /\ sendLoop' \in BOOLEAN /\ LockIsHeld'
<1>1. chain' \in Seq(Operations)
  BY DEF TypeInv, TypeOK, Release
<1>2. sendLoop' = FALSE
  BY DEF Release
<1> QED
  BY <1>1, <1>2 DEF LockIsHeld

\* The operation at the head is an operation.
LEMMA HoldsType ==
  ASSUME TypeInv, NEW op, Holds(op)
  PROVE  chain # <<>> /\ Head(chain) \in Operations /\ Head(chain).op = op
  BY DEF TypeInv, TypeOK, Holds

LEMMA ScheduleFlushType ==
  ASSUME NEW needed, ScheduleFlush(needed)
  PROVE  bufferTimer' \in BOOLEAN
  BY DEF ScheduleFlush

LEMMA FinalizeTurnType ==
  ASSUME TypeInv, NEW r \in Records, FinalizeTurn(r)
  PROVE  /\ record' \in Records
         /\ bufferTimer' \in BOOLEAN
         /\ deliveryTimeouts' \in SUBSET Nat
         /\ transientRetryTimers' \in SUBSET RetryTimers
         /\ pendingRequest' \in BOOLEAN
<1>1. bufferTimer' \in BOOLEAN
  BY ScheduleFlushType DEF FinalizeTurn
<1>2. record' \in Records
  BY FinalizedRecordType DEF FinalizeTurn
<1> QED
  BY <1>1, <1>2 DEF FinalizeTurn

LEMMA AdvanceAndContinueType ==
  ASSUME TypeInv, chain # <<>>, NEW r \in Records, AdvanceAndContinue(r)
  PROVE  DeliveryTypes'
  BY DEF AdvanceAndContinue, ContinueSending, DeliveryTypes, TypeInv, TypeOK, LockIsHeld

LEMMA ScheduleRetryType ==
  ASSUME TypeInv, chain # <<>>, NEW r \in Records, NEW item \in Items,
         NEW attempt \in Nat, ScheduleRetry(r, item, attempt)
  PROVE  DeliveryTypes'
<1>1. [item EXCEPT !.retryCount = attempt] \in Items
  BY DEF Items
<1>2. record' \in Records
  BY <1>1, WithCurrentType DEF ScheduleRetry
<1>3. [item |-> item.id, attempt |-> attempt] \in RetryTimers
  BY DEF Items, RetryTimers
<1>4. chain' \in Seq(Operations) /\ sendLoop' \in BOOLEAN /\ LockIsHeld'
  BY ReleaseType DEF ScheduleRetry
<1> QED
  BY <1>2, <1>3, <1>4 DEF ScheduleRetry, DeliveryTypes, TypeInv, TypeOK

LEMMA HandleWindowClosedType ==
  ASSUME TypeInv, chain # <<>>, NEW r \in Records, NEW armed \in SUBSET Nat,
         HandleWindowClosed(r, armed)
  PROVE  DeliveryTypes'
<1> DEFINE reprompted == [r EXCEPT !.windowReprompted = TRUE]
           mayReprompt == ~r.windowReprompted /\ pendingRequest
<1>1. reprompted \in Records
  BY TRUE \in BOOLEAN, Zenon DEF Records
<1>2. CASE AdvanceAndContinue(SkippedRecord(r))
  BY <1>2, SkippedRecordType, AdvanceAndContinueType
<1>3. CASE AdvanceAndContinue(SkippedRecord(reprompted))
  BY <1>1, <1>3, SkippedRecordType, AdvanceAndContinueType
<1>4. CASE FinalizeTurn(reprompted) /\ Release /\ UNCHANGED lastId
  <2>1. chain' \in Seq(Operations) /\ sendLoop' \in BOOLEAN /\ LockIsHeld'
    BY <1>4, ReleaseType
  <2>2. lastId' \in Nat
    BY <1>4 DEF TypeInv, TypeOK
  <2> QED
    BY <1>1, <1>4, <2>1, <2>2, FinalizeTurnType DEF DeliveryTypes
<1>5. ASSUME NEW reply \in Replies \ {<<>>},
             record' = [reprompted EXCEPT
                          !.outboundQueue = BuildOutboundItems(reply, lastId),
                          !.currentOutboundIndex = 0,
                          !.currentOutboundMessageId = None],
             lastId' = lastId + Len(reply),
             deliveryTimeouts' = armed,
             ContinueSending,
             UNCHANGED <<bufferTimer, transientRetryTimers, pendingRequest>>
      PROVE  DeliveryTypes'
  <2>1. reply \in Seq(Kinds) /\ lastId \in Nat
    BY <1>5, RepliesAssumption DEF TypeInv, TypeOK
  <2>2. lastId' \in Nat
    BY <1>5, <2>1
  <2>3. record' \in Records
    BY <1>1, <1>5, <2>1, BuildType, 0 \in Nat, Zenon DEF Records, None
  <2> QED
    BY <1>5, <2>2, <2>3 DEF ContinueSending, DeliveryTypes, TypeInv, TypeOK, LockIsHeld
<1> QED
  BY <1>2, <1>3, <1>4, <1>5, Zenon DEF HandleWindowClosed

LEMMA FlushType ==
  /\ FreeFlush \in FlushRecords
  /\ \A batch \in Seq(Messages) :
       [FreeFlush EXCEPT !.stage = "chat", !.batch = batch] \in FlushRecords
  /\ \A stage \in {"drive", "drop"} : [FreeFlush EXCEPT !.stage = stage] \in FlushRecords
  /\ \A x \in FlushRecords : [x EXCEPT !.aborted = TRUE] \in FlushRecords
  /\ \A x \in FlushRecords, stage \in Stages : [x EXCEPT !.stage = stage] \in FlushRecords
  /\ \A x \in FlushRecords, reply \in Seq(Kinds) :
       [x EXCEPT !.stage = "decide", !.aborted = FALSE, !.reply = reply] \in FlushRecords
<1>1. /\ <<>> \in Seq(Messages) /\ <<>> \in Seq(Kinds)
      /\ {"free", "chat", "drive", "decide", "drop"} \subseteq Stages
  BY DEF Stages
<1>2. FreeFlush \in FlushRecords
  BY <1>1 DEF FreeFlush, FlushRecords
<1>3. \A x \in FlushRecords, stage \in Stages : [x EXCEPT !.stage = stage] \in FlushRecords
  BY Zenon DEF FlushRecords
<1>4. \A x \in FlushRecords : [x EXCEPT !.aborted = TRUE] \in FlushRecords
  BY TRUE \in BOOLEAN, Zenon DEF FlushRecords
<1>5. \A batch \in Seq(Messages) :
        [FreeFlush EXCEPT !.stage = "chat", !.batch = batch] \in FlushRecords
  BY <1>1, <1>2, Zenon DEF FlushRecords
<1>6. \A x \in FlushRecords, reply \in Seq(Kinds) :
        [x EXCEPT !.stage = "decide", !.aborted = FALSE, !.reply = reply] \in FlushRecords
  BY <1>1, FALSE \in BOOLEAN, Zenon DEF FlushRecords
<1> QED
  BY <1>1, <1>2, <1>3, <1>4, <1>5, <1>6

\* A webhook or a timer chains an operation.
LEMMA WebhookType ==
  ASSUME TypeInv, Webhook
  PROVE  TypeInv'
<1>1. ASSUME NEW m \in Messages \union Echoes, ReceiveInbound(m)
      PROVE  TypeInv'
  <2>1. [op |-> "inbound", message |-> m] \in Operations
    BY DEF Operations
  <2>2. chain' \in Seq(Operations) /\ chain' # <<>>
    BY <1>1, <2>1, EnqueueType DEF ReceiveInbound
  <2> QED
    BY <1>1, <2>2 DEF ReceiveInbound, TypeInv, TypeOK, LockIsHeld, timers
<1>2. ASSUME NEW h \in handles, NEW s \in Statuses, ReceiveStatus(h, s)
      PROVE  TypeInv'
  <2>1. h.id \in Nat
    BY DEF TypeInv, TypeOK
  <2>2. [op |-> "status", id |-> h.id, status |-> s] \in Operations
    BY <2>1 DEF Operations
  <2>3. chain' \in Seq(Operations) /\ chain' # <<>>
    BY <1>2, <2>2, EnqueueType DEF ReceiveStatus
  <2> QED
    BY <1>2, <2>3 DEF ReceiveStatus, TypeInv, TypeOK, LockIsHeld, timers
<1> QED
  BY <1>1, <1>2 DEF Webhook

LEMMA TimerFiresType ==
  ASSUME TypeInv, TimerFires
  PROVE  TypeInv'
<1>1. ASSUME NEW f \in Flushes, BufferTimerFires(f)
      PROVE  TypeInv'
  <2>1. [op |-> "segment", flush |-> f] \in Operations
    BY DEF Operations
  <2>2. chain' \in Seq(Operations) /\ chain' # <<>>
    BY <1>1, <2>1, EnqueueType DEF BufferTimerFires
  <2>3. flush' \in [Flushes -> FlushRecords]
    BY <1>1, FlushType, Zenon DEF BufferTimerFires, Stages, TypeInv, TypeOK
  <2> QED
    BY <1>1, <2>2, <2>3 DEF BufferTimerFires, TypeInv, TypeOK, LockIsHeld, timers
<1>2. ASSUME NEW i \in deliveryTimeouts, DeliveryTimerFires(i)
      PROVE  TypeInv'
  <2>1. [op |-> "timeout", messageIndex |-> i] \in Operations
    BY DEF Operations, TypeInv, TypeOK
  <2>2. chain' \in Seq(Operations) /\ chain' # <<>>
    BY <1>2, <2>1, EnqueueType DEF DeliveryTimerFires
  <2> QED
    BY <1>2, <2>2 DEF DeliveryTimerFires, TypeInv, TypeOK, LockIsHeld
<1>3. ASSUME NEW t \in transientRetryTimers, RetryTimerFires(t)
      PROVE  TypeInv'
  <2>1. [op |-> "retry", timer |-> t] \in Operations
    BY DEF Operations, TypeInv, TypeOK
  <2>2. chain' \in Seq(Operations) /\ chain' # <<>>
    BY <1>3, <2>1, EnqueueType DEF RetryTimerFires
  <2> QED
    BY <1>3, <2>2 DEF RetryTimerFires, TypeInv, TypeOK, LockIsHeld
<1> QED
  BY <1>1, <1>2, <1>3 DEF TimerFires

LEMMA ChatStepType ==
  ASSUME TypeInv, NEW f \in Flushes, ChatStep(f)
  PROVE  TypeInv'
<1>1. ASSUME NEW settled \in FlushRecords, ChatSettles(f, settled)
      PROVE  TypeInv'
  <2>1. [op |-> "segment", flush |-> f] \in Operations
    BY DEF Operations
  <2>2. chain' \in Seq(Operations) /\ chain' # <<>>
    BY <1>1, <2>1, EnqueueType DEF ChatSettles
  <2> QED
    BY <1>1, <2>2 DEF ChatSettles, TypeInv, TypeOK, LockIsHeld, timers
<1>2. flush[f] \in FlushRecords
  BY DEF TypeInv, TypeOK
<1>3. CASE ChatRejects(f)
  <2>1. (IF flush[f].aborted THEN "decide" ELSE "rescue") \in Stages
    BY DEF Stages
  <2> QED
    BY <1>1, <1>2, <1>3, <2>1, FlushType DEF ChatRejects
<1>4. ASSUME NEW reply \in Replies, ChatReplies(f, reply)
      PROVE  TypeInv'
  BY <1>1, <1>2, <1>4, FlushType, RepliesAssumption DEF ChatReplies
<1> QED
  BY <1>3, <1>4 DEF ChatStep

LEMMA InboundType ==
  ASSUME TypeInv, Inbound
  PROVE  TypeInv'
<1> DEFINE m == Head(chain).message
<1>1. CASE DropInbound
  <2>1. chain' \in Seq(Operations) /\ sendLoop' \in BOOLEAN /\ LockIsHeld'
    BY <1>1, HoldsType, ReleaseType DEF DropInbound
  <2> QED
    BY <1>1, <2>1 DEF DropInbound, TypeInv, TypeOK, timers
<1>2. ASSUME AcceptInbound
      PROVE  /\ m \in Messages
             /\ accepted' \in Seq(Messages)
             /\ chain' \in Seq(Operations) /\ sendLoop' \in BOOLEAN /\ LockIsHeld'
  BY <1>2, HoldsType, ReleaseType DEF AcceptInbound, TypeInv, TypeOK
<1>3. record \in Records
  BY DEF TypeInv, TypeOK
<1>4. CASE BufferInbound
  <2>1. m \in Messages /\ Append(record.inboundBuffer, m) \in Seq(Messages)
    BY <1>2, <1>3, <1>4 DEF BufferInbound, Records
  <2>2. record' \in Records
    BY <1>3, <1>4, <2>1, Zenon DEF BufferInbound, Records, States
  <2>3. bufferTimer' \in BOOLEAN
    BY <1>4, ScheduleFlushType DEF BufferInbound
  <2> QED
    BY <1>2, <1>4, <2>2, <2>3 DEF BufferInbound, TypeInv, TypeOK, timers
<1>5. CASE StashLateArrival
  <2>1. m \in Messages /\ Append(record.lateArrivals, m) \in Seq(Messages)
    BY <1>2, <1>3, <1>5 DEF StashLateArrival, Records
  <2>2. record' \in Records
    BY <1>3, <1>5, <2>1, Zenon DEF StashLateArrival, Records
  <2>3. flush' \in [Flushes -> FlushRecords]
    BY <1>5, FlushType DEF StashLateArrival, TypeInv, TypeOK
  <2> QED
    BY <1>2, <1>5, <2>2, <2>3 DEF StashLateArrival, TypeInv, TypeOK, timers
<1>6. CASE InterruptSending
  <2>1. m \in Messages /\ Append(record.inboundBuffer \o record.lateArrivals, m) \in Seq(Messages)
    BY <1>2, <1>3, <1>6 DEF InterruptSending, Records
  <2>2. <<>> \in Seq(Messages) /\ <<>> \in Seq(Items)
    OBVIOUS
  <2>3. InterruptedRecord(m) \in Records
    BY <1>3, <2>1, <2>2, 0 \in Nat, Zenon DEF InterruptedRecord, Records, States, None
  <2>4. bufferTimer' \in BOOLEAN
    BY <1>6, ScheduleFlushType DEF InterruptSending
  <2> QED
    BY <1>2, <1>6, <2>3, <2>4 DEF InterruptSending, TypeInv, TypeOK
<1> QED
  BY <1>1, <1>4, <1>5, <1>6 DEF Inbound

LEMMA HoldsSegmentType ==
  ASSUME TypeInv, NEW f \in Flushes, NEW stage, HoldsSegment(f, stage)
  PROVE  /\ chain # <<>>
         /\ Release => chain' \in Seq(Operations) /\ sendLoop' \in BOOLEAN /\ LockIsHeld'
  BY HoldsType, ReleaseType DEF HoldsSegment

LEMMA FreeFlushType ==
  ASSUME TypeInv, NEW f \in Flushes
  PROVE  [flush EXCEPT ![f] = FreeFlush] \in [Flushes -> FlushRecords]
  BY FlushType DEF TypeInv, TypeOK

LEMMA SegmentType ==
  ASSUME TypeInv, NEW f \in Flushes, Segment(f)
  PROVE  TypeInv'
<1>1. record \in Records /\ flush[f] \in FlushRecords /\ lastId \in Nat
  BY DEF TypeInv, TypeOK
<1>2. flush[f].batch \in Seq(Messages) /\ answered \o flush[f].batch \in Seq(Messages)
  BY <1>1 DEF FlushRecords, TypeInv, TypeOK
<1>3. CASE PrepareNothing(f)
  BY <1>3, HoldsSegmentType, FreeFlushType DEF PrepareNothing, TypeInv, TypeOK, timers
<1>4. CASE PrepareNoAdapter(f)
  <2>1. record' \in Records
    BY <1>1, <1>4, 0 \in Nat, Zenon DEF PrepareNoAdapter, Records, States, None
  <2> QED
    BY <1>4, <2>1, HoldsSegmentType, FreeFlushType DEF PrepareNoAdapter, TypeInv, TypeOK, timers
<1>5. CASE PrepareBatch(f)
  <2>1. record.inboundBuffer \in Seq(Messages) /\ <<>> \in Seq(Messages)
    BY <1>1 DEF Records
  <2>2. record' \in Records
    BY <1>1, <1>5, <2>1, Zenon DEF PrepareBatch, Records, States
  <2>3. flush' \in [Flushes -> FlushRecords]
    BY <1>5, <2>1, FlushType DEF PrepareBatch, TypeInv, TypeOK
  <2>4. inFlightChatAborts' \in SUBSET Flushes
    BY <1>5 DEF PrepareBatch, TypeInv, TypeOK
  <2> QED
    BY <1>5, <2>2, <2>3, <2>4, HoldsSegmentType DEF PrepareBatch, TypeInv, TypeOK, timers
<1>6. CASE RescueLateArrivals(f)
  <2>1. record.inboundBuffer \o record.lateArrivals \in Seq(Messages) /\ <<>> \in Seq(Messages)
    BY <1>1 DEF Records
  <2>2. record' \in Records
    BY <1>1, <1>6, <2>1, 0 \in Nat, Zenon DEF RescueLateArrivals, Records, States, None
  <2>3. bufferTimer' \in BOOLEAN
    BY <1>6, ScheduleFlushType DEF RescueLateArrivals
  <2> QED
    BY <1>2, <1>6, <2>2, <2>3, HoldsSegmentType, FreeFlushType
       DEF RescueLateArrivals, TypeInv, TypeOK
<1>7. CASE EndFailedTurn(f)
  <2>1. record' \in Records
    BY <1>1, <1>7, 0 \in Nat, Zenon DEF EndFailedTurn, Records, States, None
  <2> QED
    BY <1>2, <1>7, <2>1, HoldsSegmentType, FreeFlushType DEF EndFailedTurn, TypeInv, TypeOK
<1>8. CASE Rebatch(f)
  <2>1. RebatchedInput(f) \in Seq(Messages) /\ <<>> \in Seq(Messages)
    BY <1>1, <1>2 DEF Records, RebatchedInput
  <2>2. record.reprocessCount + 1 \in Nat
    BY <1>1 DEF Records
  <2>3. record' \in Records
    BY <1>1, <1>8, <2>1, <2>2, Zenon DEF Rebatch, Records, States
  <2>4. bufferTimer' \in BOOLEAN
    BY <1>8, ScheduleFlushType DEF Rebatch
  <2> QED
    BY <1>8, <2>3, <2>4, HoldsSegmentType, FreeFlushType DEF Rebatch, TypeInv, TypeOK, timers
<1>9. CASE EndSilentTurn(f)
  BY <1>1, <1>2, <1>9, FinalizeTurnType, HoldsSegmentType, FreeFlushType
     DEF EndSilentTurn, TypeInv, TypeOK
<1>10. CASE AttachQueue(f)
  <2>1. flush[f].reply \in Seq(Kinds)
    BY <1>1 DEF FlushRecords
  <2>2. lastId' \in Nat
    BY <1>1, <1>10, <2>1 DEF AttachQueue
  <2>3. BuildOutboundItems(flush[f].reply, lastId) \in Seq(Items)
    BY <1>1, <2>1, BuildType
  <2>4. record' \in Records
    BY <1>1, <1>10, <2>3, 0 \in Nat, FALSE \in BOOLEAN, Zenon
       DEF AttachQueue, Records, States, None
  <2>5. flush' \in [Flushes -> FlushRecords]
    BY <1>10, FlushType DEF AttachQueue, TypeInv, TypeOK
  <2>6. [op |-> "segment", flush |-> f] \in Operations
    BY DEF Operations
  <2>7. Tail(chain) \in Seq(Operations)
    BY <1>10, HoldsSegmentType DEF AttachQueue, TypeInv, TypeOK
  <2>8. chain' \in Seq(Operations) /\ chain' # <<>>
    BY <1>10, <2>6, <2>7 DEF AttachQueue
  <2> QED
    BY <1>2, <1>10, <2>2, <2>4, <2>5, <2>8 DEF AttachQueue, TypeInv, TypeOK, LockIsHeld, timers
<1>11. CASE DriveDelivery(f)
  BY <1>11, HoldsSegmentType, FreeFlushType
     DEF DriveDelivery, ContinueSending, TypeInv, TypeOK, LockIsHeld, timers
<1>12. CASE FallThroughAtCap(f)
  <2>1. flush' \in [Flushes -> FlushRecords]
    BY <1>12, FlushType DEF FallThroughAtCap, TypeInv, TypeOK
  <2>2. [op |-> "segment", flush |-> f] \in Operations
    BY DEF Operations
  <2>3. Tail(chain) \in Seq(Operations)
    BY <1>12, HoldsSegmentType DEF FallThroughAtCap, TypeInv, TypeOK
  <2>4. chain' \in Seq(Operations) /\ chain' # <<>>
    BY <1>12, <2>2, <2>3 DEF FallThroughAtCap
  <2> QED
    BY <1>12, <2>1, <2>4 DEF FallThroughAtCap, TypeInv, TypeOK, LockIsHeld, timers
<1>13. CASE ForceIdle(f)
  <2>1. record' \in Records
    BY <1>1, <1>13, 0 \in Nat, Zenon DEF ForceIdle, Records, States, None
  <2> QED
    BY <1>13, <2>1, HoldsSegmentType, FreeFlushType DEF ForceIdle, TypeInv, TypeOK
<1> QED
  BY <1>3, <1>4, <1>5, <1>6, <1>7, <1>8, <1>9, <1>10, <1>11, <1>12, <1>13
     DEF Segment, EndAtPrepare

\* A step of ordered delivery: the rest of the state is left alone.
LEMMA DeliveryStepType ==
  ASSUME TypeInv, DeliveryTypes',
         handles' \in SUBSET [id: Nat, messageIndex: Nat],
         UNCHANGED <<accepted, flush, inFlightChatAborts, answered, fellThrough, deployment>>
  PROVE  TypeInv'
  BY DEF DeliveryTypes, TypeInv, TypeOK

LEMMA SendStepType ==
  ASSUME TypeInv, SendStep
  PROVE  TypeInv'
<1>1. /\ record \in Records /\ lastId \in Nat /\ deliveryTimeouts \in SUBSET Nat
      /\ handles \in SUBSET [id: Nat, messageIndex: Nat]
  BY DEF TypeInv, TypeOK
<1>2. CASE SendLoopEnds
  <2>1. chain # <<>>
    BY <1>2 DEF SendLoopEnds, TypeInv, LockIsHeld
  <2> QED
    BY <1>1, <1>2, <2>1, FinalizeTurnType, ReleaseType DEF SendLoopEnds, TypeInv, TypeOK
<1>3. ASSUME NEW item, Sending(item)
      PROVE  /\ chain # <<>>
             /\ item \in Items /\ Attempted(item) \in Items
             /\ WithCurrent(record, Attempted(item)) \in Records
             /\ \A id \in Nat : SentItem(item, id) \in Items
  <2>1. chain # <<>> /\ item \in Items
    BY <1>1, <1>3, CurrentItemType DEF Sending, TypeInv, LockIsHeld
  <2>2. item.attempts + 1 \in Nat
    BY <2>1 DEF Items
  <2>3. Attempted(item) \in Items
    BY <2>1, <2>2, Zenon DEF Attempted, Items
  <2>4. \A id \in Nat : SentItem(item, id) \in Items
    BY <2>3, 0 \in Nat, Zenon DEF SentItem, Items
  <2> QED
    BY <1>1, <2>1, <2>3, <2>4, WithCurrentType
<1>4. ASSUME NEW item, SendFireAndForget(item)
      PROVE  TypeInv'
  BY <1>1, <1>3, <1>4, AdvancedRecordType, AdvanceAndContinueType, DeliveryStepType
     DEF SendFireAndForget
<1>5. ASSUME NEW item, SendOnSend(item)
      PROVE  TypeInv'
  <2>1. lastId + 1 \in Nat /\ SentItem(item, lastId + 1) \in Items
    BY <1>1, <1>3, <1>5 DEF SendOnSend
  <2>2. record' \in Records
    BY <1>1, <1>5, <2>1, WithCurrentType, AdvancedRecordType DEF SendOnSend
  <2>3. DeliveryTypes'
    BY <1>3, <1>5, <2>1, <2>2
       DEF SendOnSend, ContinueSending, DeliveryTypes, TypeInv, TypeOK, LockIsHeld
  <2> QED
    BY <1>1, <1>5, <2>3, DeliveryStepType DEF SendOnSend
<1>6. ASSUME NEW item, SendOnStatus(item)
      PROVE  TypeInv'
  <2>1. lastId + 1 \in Nat /\ SentItem(item, lastId + 1) \in Items
    BY <1>1, <1>3, <1>6 DEF SendOnStatus
  <2>2. WithCurrent(record, SentItem(item, lastId + 1)) \in Records
    BY <1>1, <2>1, WithCurrentType
  <2>3. record' \in Records
    BY <1>6, <2>1, <2>2, Zenon DEF SendOnStatus, Records
  <2>4. record.currentOutboundIndex \in Nat
    BY <1>1 DEF Records
  <2>5. handles' \in SUBSET [id: Nat, messageIndex: Nat]
    BY <1>1, <1>6, <2>1, <2>4 DEF SendOnStatus
  <2>6. chain' \in Seq(Operations) /\ sendLoop' \in BOOLEAN /\ LockIsHeld'
    BY <1>3, <1>6, ReleaseType DEF SendOnStatus
  <2>7. DeliveryTypes'
    BY <1>6, <2>1, <2>3, <2>4, <2>6 DEF SendOnStatus, DeliveryTypes, TypeInv, TypeOK
  <2> QED
    BY <1>6, <2>5, <2>7, DeliveryStepType DEF SendOnStatus
<1>7. ASSUME NEW item, SendFailsTransient(item)
      PROVE  TypeInv'
  <2>1. Sending(item)
    BY <1>7, Zenon DEF SendFailsTransient
  <2>2. item \in Items
    BY <1>3, <2>1
  <2>3. item.retryCount + 1 \in Nat
    BY <2>2 DEF Items
  <2> QED
    BY <1>1, <1>3, <1>7, <2>3, ScheduleRetryType, DeliveryStepType DEF SendFailsTransient
<1>8. ASSUME NEW item, SendSkips(item)
      PROVE  TypeInv'
  BY <1>1, <1>3, <1>8, SkippedRecordType, AdvanceAndContinueType, DeliveryStepType
     DEF SendSkips
<1>9. ASSUME NEW item, SendFindsWindowClosed(item)
      PROVE  TypeInv'
  BY <1>1, <1>3, <1>9, HandleWindowClosedType, DeliveryStepType DEF SendFindsWindowClosed
<1> QED
  BY <1>2, <1>4, <1>5, <1>6, <1>7, <1>8, <1>9 DEF SendStep

LEMMA StatusType ==
  ASSUME TypeInv, Status
  PROVE  TypeInv'
<1>1. /\ record \in Records /\ lastId \in Nat /\ deliveryTimeouts \in SUBSET Nat
      /\ handles \in SUBSET [id: Nat, messageIndex: Nat]
  BY DEF TypeInv, TypeOK
<1>2. CASE DropStatus
  BY <1>2, HoldsType, ReleaseType DEF DropStatus, TypeInv, TypeOK, timers
<1>3. ASSUME NEW h \in handles, HoldsStatus(h)
      PROVE  /\ chain # <<>>
             /\ NotedRecord(h) \in Records
             /\ Unmapped(h) \in SUBSET [id: Nat, messageIndex: Nat]
  <2>1. (IF Head(chain).status = "delivered" THEN record.deliveredMessageIds \union {h.id}
         ELSE record.deliveredMessageIds) \in SUBSET Nat
    BY <1>1 DEF Records
  <2>2. NotedRecord(h) \in Records
    BY <1>1, <2>1, Zenon DEF NotedRecord, Records
  <2> QED
    BY <1>1, <1>3, <2>2, HoldsType DEF HoldsStatus, Unmapped
<1>4. ASSUME NEW h \in handles, NoteStatus(h)
      PROVE  TypeInv'
  BY <1>3, <1>4, ReleaseType DEF NoteStatus, TypeInv, TypeOK, timers
<1>5. ASSUME NEW h \in handles, StatusAdvances(h)
      PROVE  TypeInv'
  BY <1>1, <1>3, <1>5, AdvancedRecordType, AdvanceAndContinueType, DeliveryStepType
     DEF StatusAdvances
<1>6. ASSUME NEW h \in handles, NEW class, StatusFails(h, class)
      PROVE  /\ chain # <<>>
             /\ handles' \in SUBSET [id: Nat, messageIndex: Nat]
             /\ UNCHANGED <<accepted, flush, inFlightChatAborts, answered, fellThrough, deployment>>
  BY <1>3, <1>6 DEF StatusFails
<1>7. ASSUME NEW h \in handles, StatusFailsTransient(h)
      PROVE  TypeInv'
  <2> DEFINE item == CurrentItem(record.outboundQueue, record.currentOutboundIndex)
             attempt == item.asyncFailRetryCount + 1
             retried == [item EXCEPT !.asyncFailRetryCount = attempt, !.channelMessageId = None]
             unsent == [record EXCEPT !.currentOutboundMessageId = None]
  <2>1. item \in Items
    BY <1>1, <1>7, CurrentItemType DEF StatusFailsTransient, MayRetryAsync
  <2>2. attempt \in Nat /\ None \in Nat
    BY <2>1 DEF Items, None
  <2>3. retried \in Items
    BY <2>1, <2>2 DEF Items
  <2>4. unsent \in Records
    BY <1>1, <2>2, Zenon DEF Records
  <2>5. ScheduleRetry(unsent, retried, attempt)
    BY <1>7, Zenon DEF StatusFailsTransient
  <2> HIDE DEF item, attempt, retried, unsent
  <2> QED
    BY <1>6, <1>7, <2>2, <2>3, <2>4, <2>5, ScheduleRetryType, DeliveryStepType
       DEF StatusFailsTransient
<1>8. ASSUME NEW h \in handles, StatusSkips(h)
      PROVE  TypeInv'
  BY <1>1, <1>6, <1>8, SkippedRecordType, AdvanceAndContinueType, DeliveryStepType
     DEF StatusSkips
<1>9. ASSUME NEW h \in handles, StatusFindsWindowClosed(h)
      PROVE  TypeInv'
  BY <1>1, <1>6, <1>9, HandleWindowClosedType, DeliveryStepType DEF StatusFindsWindowClosed
<1> QED
  BY <1>2, <1>4, <1>5, <1>7, <1>8, <1>9 DEF Status

LEMMA TimerType ==
  ASSUME TypeInv, Timer
  PROVE  TypeInv'
<1>1. CASE TimeoutAdvances
  <2>1. record \in Records /\ handles' \in SUBSET [id: Nat, messageIndex: Nat]
    BY <1>1 DEF TimeoutAdvances, TypeInv, TypeOK
  <2> QED
    BY <1>1, <2>1, HoldsType, AdvancedRecordType, AdvanceAndContinueType, DeliveryStepType
       DEF TimeoutAdvances
<1>2. CASE DropTimeout
  BY <1>2, HoldsType, ReleaseType DEF DropTimeout, TypeInv, TypeOK, timers
<1>3. CASE RetrySends
  BY <1>3, HoldsType DEF RetrySends, ContinueSending, TypeInv, TypeOK, LockIsHeld, timers
<1>4. CASE DropRetry
  BY <1>4, HoldsType, ReleaseType DEF DropRetry, TypeInv, TypeOK, timers
<1> QED
  BY <1>1, <1>2, <1>3, <1>4 DEF Timer

LEMMA InitType == Init => TypeInv
<1> SUFFICES ASSUME Init PROVE TypeInv
  OBVIOUS
<1>1. record \in Records
  <2>1. <<>> \in Seq(Messages) /\ <<>> \in Seq(Items) /\ {} \in SUBSET Nat
    OBVIOUS
  <2> QED
    BY <2>1, 0 \in Nat, FALSE \in BOOLEAN, Zenon DEF Init, Records, States, None
<1>2. flush \in [Flushes -> FlushRecords]
  BY FlushType DEF Init
<1>3. <<>> \in Seq(Messages) /\ <<>> \in Seq(Operations)
  OBVIOUS
<1> QED
  BY <1>1, <1>2, <1>3, 0 \in Nat, DeploymentsAssumption, Zenon
     DEF Init, TypeInv, TypeOK, LockIsHeld, None

LEMMA StepType ==
  ASSUME TypeInv, [Next]_vars
  PROVE  TypeInv'
<1>1. CASE UNCHANGED vars
  BY <1>1 DEF vars, TypeInv, TypeOK, LockIsHeld
<1> QED
  BY <1>1, WebhookType, TimerFiresType, ChatStepType, InboundType, SegmentType,
     SendStepType, StatusType, TimerType DEF Next, LockStep

\* Type correctness: the record, the timers and the chained operations keep
\* their shapes through every handler, for any constants.
THEOREM TypeCorrect == Spec => []TypeOK
<1>1. TypeInv /\ [Next]_vars => TypeInv'
  BY StepType
<1> QED
  BY <1>1, InitType, PTL DEF Spec, TypeInv
=============================================================================
