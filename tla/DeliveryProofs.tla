--------------------------- MODULE DeliveryProofs ---------------------------
(***************************************************************************)
(* Ordered delivery, for every value of the constants of                   *)
(* ConversationAgent: what a queue, its timers and the operations chained  *)
(* on the key have to do with each other (DeliveryInv), for the two        *)
(* schedulers apart.  In memory flushes and stale timers overlap, and all  *)
(* that holds is that something pending moves a turn on; on BullMQ the     *)
(* handle, the retry and the delivery timeout are those of the item at the *)
(* cursor.                                                                 *)
(***************************************************************************)
EXTENDS TurnTakingProofs

-----------------------------------------------------------------------------
(* The operations chained on the key *)

Chained == Range(chain)

LEMMA HeadTailRange ==
  ASSUME NEW S, NEW s \in Seq(S), s # <<>>
  PROVE  Range(s) = {Head(s)} \union Range(Tail(s))
<1>1. /\ Tail(s) \in Seq(S) /\ Len(Tail(s)) = Len(s) - 1 /\ Len(s) \in Nat \ {0}
      /\ Head(s) = s[1] /\ \A i \in 1 .. Len(s) - 1 : Tail(s)[i] = s[i + 1]
  OBVIOUS
<1>2. Range(s) = {s[i] : i \in 1 .. Len(s)}
  BY RangeEquality
<1>3. Range(Tail(s)) = {Tail(s)[i] : i \in 1 .. Len(s) - 1}
  BY <1>1, RangeEquality
<1>4. ASSUME NEW i \in 1 .. Len(s), i # 1
      PROVE  s[i] \in Range(Tail(s))
  <2>1. i - 1 \in 1 .. Len(s) - 1 /\ (i - 1) + 1 = i
    BY <1>1, <1>4
  <2>2. s[i] = Tail(s)[i - 1]
    BY <1>1, <2>1
  <2> QED
    BY <1>3, <2>1, <2>2
<1>5. ASSUME NEW i \in 1 .. Len(s) - 1
      PROVE  Tail(s)[i] \in Range(s)
  BY <1>1, <1>2
<1>6. Head(s) \in Range(s)
  BY <1>1, <1>2
<1>7. Range(s) \subseteq {Head(s)} \union Range(Tail(s))
  BY <1>1, <1>2, <1>4
<1>8. Range(Tail(s)) \subseteq Range(s)
  BY <1>3, <1>5
<1> QED
  BY <1>6, <1>7, <1>8

LEMMA ReleaseChained ==
  ASSUME TypeInv, chain # <<>>, Release
  PROVE  Chained = {Head(chain)} \union Chained'
  BY HeadTailRange DEF TypeInv, TypeOK, Release, Chained

LEMMA EnqueueChained ==
  ASSUME TypeInv, NEW o \in Operations, Enqueue(o)
  PROVE  Chained' = Chained \union {o}
  BY AppendRange DEF TypeInv, TypeOK, Enqueue, Chained

-----------------------------------------------------------------------------
(* In memory no turn is stuck *)

\* Something pending moves the turn that is being sent on: the item in flight, or
\* the one that waits for its retry, is the one that its timer names.
MovesOn ==
  \/ sendLoop \/ Queued("drive")
  \/ deliveryTimeouts = {record.currentOutboundIndex}
  \/ \E o \in Chained : o.op = "timeout" /\ o.messageIndex = record.currentOutboundIndex
  \/ \E t \in RetryTimers : /\ IsAwaited(t)
                            /\ \/ transientRetryTimers = {t}
                               \/ \E o \in Chained : o.op = "retry" /\ o.timer = t

BufferingHasInput == record.state = "buffering" => record.inboundBuffer # <<>>

TurnsHaveInput == \A f \in Turns : flush[f].batch # <<>>

BufferingIsAwaited ==
  Scheduler = "in_memory" /\ record.state = "buffering" => bufferTimer \/ Queued("prepare")

ProcessingHasTurn == record.state = "processing" => Turns # {} \/ Queued("drop")

SendingMovesOn == record.state = "sending" => MovesOn

EffortInv ==
  /\ TypeInv
  /\ BufferingHasInput /\ TurnsHaveInput /\ BufferingIsAwaited
  /\ ProcessingHasTurn /\ SendingMovesOn

\* A step that leaves the turn as it is, and drops at most an operation that does
\* not move it on.
LEMMA MovesOnKept ==
  ASSUME MovesOn, record.state = "sending",
         record'.state = record.state,
         record'.outboundQueue = record.outboundQueue,
         record'.currentOutboundIndex = record.currentOutboundIndex,
         sendLoop => sendLoop', Queued("drive") => Queued("drive")', UNCHANGED timers,
         \A o \in Chained : \/ o \in Chained'
                            \/ o.op \notin {"timeout", "retry"}
                            \/ o.op = "timeout" /\ o.messageIndex # record.currentOutboundIndex
                            \/ o.op = "retry" /\ ~IsAwaited(o.timer)
  PROVE  MovesOn'
<1>1. \A t : IsAwaited(t) => IsAwaited(t)'
  BY DEF IsAwaited
<1>2. UNCHANGED <<deliveryTimeouts, transientRetryTimers>>
  BY DEF timers
<1> QED
  BY <1>1, <1>2 DEF MovesOn

\* A step that leaves the record and the flushes.
LEMMA EffortKept ==
  ASSUME EffortInv, TypeInv', UNCHANGED <<record, flush, deployment>>,
         bufferTimer => bufferTimer',
         record.state = "sending" => MovesOn'
  PROVE  EffortInv'
<1>1. /\ Turns' = Turns /\ Queued("prepare")' = Queued("prepare")
      /\ Queued("drop")' = Queued("drop")
  BY DEF Turns, Queued
<1> QED
  BY <1>1 DEF EffortInv, BufferingHasInput, TurnsHaveInput, BufferingIsAwaited,
     ProcessingHasTurn, SendingMovesOn, Scheduler

LEMMA WebhookEffort ==
  ASSUME EffortInv, TypeInv', Webhook
  PROVE  EffortInv'
<1>1. TypeInv
  BY DEF EffortInv
<1>2. ASSUME NEW o \in Operations, Enqueue(o),
             UNCHANGED <<record, flush, sendLoop, bufferTimer, timers, deployment>>
      PROVE  EffortInv'
  <2>1. Queued("drive")' = Queued("drive")
    BY <1>2 DEF Queued
  <2>2. Chained \subseteq Chained'
    BY <1>1, <1>2, EnqueueChained
  <2> QED
    BY <1>2, <2>1, <2>2, MovesOnKept, EffortKept DEF EffortInv, SendingMovesOn
<1>3. ASSUME NEW m \in Messages \union Echoes, ReceiveInbound(m)
      PROVE  EffortInv'
  <2>1. [op |-> "inbound", message |-> m] \in Operations
    BY DEF Operations
  <2> QED
    BY <1>2, <1>3, <2>1 DEF ReceiveInbound
<1>4. ASSUME NEW h \in handles, NEW s \in Statuses, ReceiveStatus(h, s)
      PROVE  EffortInv'
  <2>1. [op |-> "status", id |-> h.id, status |-> s] \in Operations
    BY <1>1 DEF Operations, TypeInv, TypeOK
  <2> QED
    BY <1>2, <1>4, <2>1 DEF ReceiveStatus
<1> QED
  BY <1>3, <1>4 DEF Webhook

LEMMA InboundEffort ==
  ASSUME EffortInv, TypeInv', Inbound
  PROVE  EffortInv'
<1> DEFINE m == Head(chain).message
<1>1. TypeInv /\ record \in Records /\ StartsNoJob
  BY InboundNoJob DEF EffortInv, TypeInv, TypeOK
<1>2. record.inboundBuffer \in Seq(Messages) /\ Input(record) \in Seq(Messages)
  BY <1>1, InputType
<1>3. /\ Turns' = Turns /\ Queued("prepare")' = Queued("prepare")
      /\ Queued("drive")' = Queued("drive") /\ Queued("drop")' = Queued("drop")
  BY <1>1 DEF StartsNoJob, Turns, Queued
<1>4. CASE DropInbound
  <2>1. chain # <<>> /\ Head(chain).op = "inbound" /\ ~sendLoop
    BY <1>4 DEF DropInbound, Holds
  <2>2. Chained = {Head(chain)} \union Chained'
    BY <1>1, <1>4, <2>1, ReleaseChained DEF DropInbound
  <2> QED
    BY <1>3, <1>4, <2>1, <2>2, MovesOnKept, EffortKept DEF DropInbound, EffortInv, SendingMovesOn
<1>5. ASSUME AcceptInbound PROVE m \in Messages
  BY <1>5 DEF AcceptInbound
\* The message is buffered and a flush is scheduled.
<1>6. ASSUME NEW s \in Seq(Messages), m \in Messages, record'.inboundBuffer = Append(s, m),
             record'.state = "buffering", ScheduleFlush(TRUE), UNCHANGED <<flush, deployment>>
      PROVE  EffortInv'
  <2>1. Append(s, m) # <<>>
    BY <1>6
  <2>2. Scheduler' = "in_memory" => bufferTimer'
    BY <1>6 DEF ScheduleFlush, TakesSchedule, Scheduler
  <2> HIDE DEF m
  <2> QED
    BY <1>3, <1>6, <2>1, <2>2 DEF EffortInv, BufferingHasInput, TurnsHaveInput,
       BufferingIsAwaited, ProcessingHasTurn, SendingMovesOn
<1>7. CASE BufferInbound
  <2>1. record'.inboundBuffer = Append(record.inboundBuffer, m) /\ record'.state = "buffering"
    BY <1>1, <1>7, Zenon DEF BufferInbound, Records
  <2>2. m \in Messages
    BY <1>5, <1>7 DEF BufferInbound
  <2> HIDE DEF m
  <2> QED
    BY <1>2, <1>6, <1>7, <2>1, <2>2 DEF BufferInbound
<1>8. CASE StashLateArrival
  <2>1. record'.state = "processing" /\ record.state = "processing"
    BY <1>1, <1>8, Zenon DEF StashLateArrival, Records
  <2>2. \A f \in Flushes : flush[f] \in FlushRecords
    BY <1>1 DEF TypeInv, TypeOK
  <2>3. \A x \in FlushRecords : [x EXCEPT !.aborted = TRUE].batch = x.batch
    BY Zenon DEF FlushRecords
  <2>4. \A f \in Flushes : flush'[f] \in {flush[f], [flush[f] EXCEPT !.aborted = TRUE]}
    BY <1>8 DEF StashLateArrival
  <2>5. \A f \in Flushes : flush'[f].batch = flush[f].batch
    BY <2>2, <2>3, <2>4
  <2> QED
    BY <1>3, <2>1, <2>5 DEF EffortInv, BufferingHasInput, TurnsHaveInput, BufferingIsAwaited,
       ProcessingHasTurn, SendingMovesOn, Turns
<1>9. CASE InterruptSending
  <2>1. record'.inboundBuffer = Append(Input(record), m) /\ record'.state = "buffering"
    BY <1>1, <1>9, Zenon DEF InterruptSending, InterruptedRecord, Records, Input
  <2>2. m \in Messages
    BY <1>5, <1>9 DEF InterruptSending
  <2> HIDE DEF m
  <2> QED
    BY <1>2, <1>6, <1>9, <2>1, <2>2 DEF InterruptSending
<1> QED
  BY <1>4, <1>7, <1>8, <1>9 DEF Inbound

LEMMA FinalizedState ==
  ASSUME NEW r \in Records
  PROVE  FinalizedRecord(r).state \in {"idle", "buffering"}
<1>1. CASE r.lateArrivals # <<>>
  BY <1>1, Zenon DEF FinalizedRecord, Records
<1>2. CASE r.lateArrivals = <<>> /\ Rebuffered(r)
  BY <1>2 DEF FinalizedRecord, Rebuffered
<1>3. CASE r.lateArrivals = <<>> /\ ~Rebuffered(r)
  BY <1>3, Zenon DEF FinalizedRecord, Records
<1> QED
  BY <1>1, <1>2, <1>3

\* Delivery keeps the effort when a turn that is still sent moves on.
LEMMA OutcomeEffort ==
  ASSUME EffortInv, TypeInv', Outcome(record), UNCHANGED deployment,
         \A f \in Flushes : flush'[f] = flush[f],
         record.state = "sending" /\ record'.state = "sending" => MovesOn'
  PROVE  EffortInv'
<1>1. /\ Turns' = Turns /\ Queued("prepare")' = Queued("prepare")
      /\ Queued("drop")' = Queued("drop")
  BY DEF Turns, Queued
<1>2. CASE Stays(record)
  BY <1>1, <1>2 DEF Stays, EffortInv, BufferingHasInput, TurnsHaveInput, BufferingIsAwaited,
     ProcessingHasTurn, SendingMovesOn, Scheduler, Turns
<1>3. CASE Ends(record)
  BY <1>1, <1>3 DEF Ends, EffortInv, BufferingHasInput, TurnsHaveInput, BufferingIsAwaited,
     ProcessingHasTurn, SendingMovesOn, Turns
<1>4. CASE Folds(record)
  <2>1. Input(record) # <<>>
    BY <1>4, InputType, ConcatProperties DEF Folds, Input, EffortInv, TypeInv, TypeOK
  <2>2. Scheduler' = "in_memory" => bufferTimer'
    BY <1>4 DEF Folds, ScheduleFlush, TakesSchedule, Scheduler
  <2> QED
    BY <1>1, <1>4, <2>1, <2>2 DEF Folds, EffortInv, BufferingHasInput, TurnsHaveInput,
       BufferingIsAwaited, ProcessingHasTurn, SendingMovesOn, Turns
<1> QED
  BY <1>2, <1>3, <1>4 DEF Outcome

LEMMA DeliveryEffort ==
  ASSUME EffortInv, TypeInv', DeliveryStep,
         record.state = "sending" /\ record'.state = "sending" => MovesOn'
  PROVE  EffortInv'
  BY DeliveryOutcome, OutcomeEffort DEF DeliveryStep, EffortInv

LEMMA SegmentEffort ==
  ASSUME EffortInv, TypeInv', NEW f \in Flushes, Segment(f)
  PROVE  EffortInv'
<1>1. TypeInv /\ record \in Records /\ flush[f] \in FlushRecords
  BY DEF EffortInv, TypeInv, TypeOK
<1>2. UNCHANGED deployment /\ \A g \in Flushes : g # f => flush'[g] = flush[g]
  BY <1>1, SegmentIsJobStep DEF JobStep
<1>3. ASSUME NEW x, flush' = [flush EXCEPT ![f] = x]
      PROVE  flush'[f] = x
  BY <1>1, <1>3, FlushAt
<1>4. FreeFlush.stage = "free"
  BY DEF FreeFlush
\* The flush is over and the turn too, with no input left to it.
<1>5. ASSUME flush' = [flush EXCEPT ![f] = FreeFlush],
             \/ record'.state = "idle"
             \/ /\ record'.state = "buffering" /\ record'.inboundBuffer # <<>>
                /\ ScheduleFlush(TRUE)
      PROVE  EffortInv'
  <2>1. flush'[f].stage = "free"
    BY <1>3, <1>4, <1>5
  <2>2. TurnsHaveInput'
    BY <1>2, <2>1 DEF EffortInv, TurnsHaveInput, Turns
  <2>3. Scheduler' = "in_memory" /\ ScheduleFlush(TRUE) => bufferTimer'
    BY <1>2 DEF ScheduleFlush, TakesSchedule, Scheduler
  <2> QED
    BY <1>5, <2>2, <2>3 DEF EffortInv, BufferingHasInput, BufferingIsAwaited, ProcessingHasTurn,
       SendingMovesOn
<1>6. CASE PrepareNothing(f)
  <2>1. chain # <<>> /\ Head(chain).op = "segment" /\ ~sendLoop /\ flush[f].stage = "prepare"
    BY <1>6 DEF PrepareNothing, HoldsSegment, Holds
  <2>2. Chained = {Head(chain)} \union Chained'
    BY <1>1, <1>6, <2>1, ReleaseChained DEF PrepareNothing
  <2>3. flush'[f].stage = "free"
    BY <1>3, <1>4, <1>6 DEF PrepareNothing
  <2>4. /\ Turns' = Turns /\ (Queued("drive") => Queued("drive")')
        /\ Queued("drop") => Queued("drop")'
    BY <1>2, <2>1, <2>3 DEF Turns, Queued
  <2>5. record.state # "buffering"
    BY <1>6 DEF PrepareNothing, EffortInv, BufferingHasInput
  <2>6. record.state = "sending" => MovesOn'
    BY <1>6, <2>1, <2>2, <2>4, MovesOnKept DEF PrepareNothing, EffortInv, SendingMovesOn
  <2>7. TurnsHaveInput'
    BY <1>2, <2>1, <2>4 DEF EffortInv, TurnsHaveInput, Turns
  <2> QED
    BY <1>6, <2>4, <2>5, <2>6, <2>7 DEF PrepareNothing, EffortInv, BufferingHasInput,
       BufferingIsAwaited, ProcessingHasTurn, SendingMovesOn
<1>7. CASE PrepareNoAdapter(f)
  <2>1. record'.state = "idle"
    BY <1>1, <1>7, Zenon DEF PrepareNoAdapter, Records
  <2> QED
    BY <1>5, <1>7, <2>1 DEF PrepareNoAdapter
<1>8. CASE PrepareBatch(f)
  <2>1. record'.state = "processing"
    BY <1>1, <1>8, Zenon DEF PrepareBatch, Records
  <2>2. /\ [FreeFlush EXCEPT !.stage = "chat", !.batch = record.inboundBuffer].stage = "chat"
        /\ [FreeFlush EXCEPT !.stage = "chat", !.batch = record.inboundBuffer].batch
             = record.inboundBuffer
    BY DEF FreeFlush
  <2>3. flush'[f] = [FreeFlush EXCEPT !.stage = "chat", !.batch = record.inboundBuffer]
    BY <1>3, <1>8, Zenon DEF PrepareBatch
  <2>4. flush'[f].stage = "chat" /\ flush'[f].batch # <<>>
    BY <1>8, <2>2, <2>3 DEF PrepareBatch
  <2>5. f \in Turns' /\ TurnsHaveInput'
    BY <1>2, <2>4 DEF EffortInv, TurnsHaveInput, Turns
  <2> QED
    BY <2>1, <2>5 DEF EffortInv, BufferingHasInput, BufferingIsAwaited, ProcessingHasTurn,
       SendingMovesOn
<1>9. CASE RescueLateArrivals(f)
  <2>1. record'.state = "buffering" /\ record'.inboundBuffer = Input(record)
    BY <1>1, <1>9, Zenon DEF RescueLateArrivals, Records, Input
  <2>2. Input(record) # <<>>
    BY <1>1, <1>9, InputType, ConcatProperties DEF RescueLateArrivals, Input
  <2> QED
    BY <1>5, <1>9, <2>1, <2>2 DEF RescueLateArrivals
<1>10. CASE EndFailedTurn(f)
  <2>1. record'.state = "idle"
    BY <1>1, <1>10, Zenon DEF EndFailedTurn, Records
  <2> QED
    BY <1>5, <1>10, <2>1 DEF EndFailedTurn
<1>11. CASE Rebatch(f)
  <2>1. record'.state = "buffering" /\ record'.inboundBuffer = RebatchedInput(f)
    BY <1>1, <1>11, Zenon DEF Rebatch, Records
  <2>2. flush[f].batch \in Seq(Messages) /\ flush[f].batch # <<>>
    BY <1>1, <1>11 DEF Rebatch, HoldsSegment, EffortInv, TurnsHaveInput, Turns, FlushRecords
  <2>3. RebatchedInput(f) # <<>>
    BY <1>1, <2>2, InputType DEF RebatchedInput
  <2> QED
    BY <1>5, <1>11, <2>1, <2>3 DEF Rebatch
<1>12. CASE EndSilentTurn(f)
  <2>1. Outcome(record) /\ record'.state \in {"idle", "buffering"}
    BY <1>1, <1>12, FinalizeOutcome, FinalizedState DEF EndSilentTurn, FinalizeTurn
  <2>2. flush'[f].stage = "free" /\ flush[f].stage = "decide"
    BY <1>3, <1>4, <1>12 DEF EndSilentTurn, HoldsSegment
  <2>3. CASE Stays(record)
    <3>1. Queued("prepare") => Queued("prepare")'
      BY <1>2, <2>2 DEF Queued
    <3>2. TurnsHaveInput'
      BY <1>2, <2>2 DEF EffortInv, TurnsHaveInput, Turns
    <3> QED
      BY <1>2, <2>1, <2>3, <3>1, <3>2 DEF Stays, EffortInv, BufferingHasInput,
         BufferingIsAwaited, ProcessingHasTurn, SendingMovesOn, Scheduler
  <2>4. CASE Ends(record)
    BY <1>5, <1>12, <2>4 DEF Ends, EndSilentTurn
  <2>5. CASE Folds(record)
    <3>1. Input(record) # <<>>
      BY <1>1, <2>5, InputType, ConcatProperties DEF Folds, Input
    <3> QED
      BY <1>5, <1>12, <2>5, <3>1 DEF Folds, EndSilentTurn
  <2> QED
    BY <2>1, <2>3, <2>4, <2>5 DEF Outcome
<1>13. CASE AttachQueue(f)
  <2>1. record'.state = "sending"
    BY <1>1, <1>13, Zenon DEF AttachQueue, Records
  <2>2. flush'[f] = [FreeFlush EXCEPT !.stage = "drive"]
    BY <1>3, <1>13, Zenon DEF AttachQueue
  <2>3. flush'[f].stage = "drive"
    BY <2>2 DEF FreeFlush
  <2>4. TurnsHaveInput'
    BY <1>2, <2>3 DEF EffortInv, TurnsHaveInput, Turns
  <2>5. MovesOn'
    BY <2>3 DEF MovesOn, Queued
  <2> QED
    BY <2>1, <2>4, <2>5 DEF EffortInv, BufferingHasInput, BufferingIsAwaited, ProcessingHasTurn,
       SendingMovesOn
<1>14. CASE DriveDelivery(f)
  <2>1. flush'[f].stage = "free" /\ flush[f].stage = "drive"
    BY <1>3, <1>4, <1>14 DEF DriveDelivery, HoldsSegment
  <2>2. /\ Turns' = Turns /\ (Queued("prepare") => Queued("prepare")')
        /\ Queued("drop") => Queued("drop")'
    BY <1>2, <2>1 DEF Turns, Queued
  <2>3. TurnsHaveInput'
    BY <1>2, <2>1 DEF EffortInv, TurnsHaveInput, Turns
  <2>4. MovesOn'
    BY <1>14 DEF DriveDelivery, ContinueSending, MovesOn
  <2> QED
    BY <1>14, <2>2, <2>3, <2>4 DEF DriveDelivery, EffortInv, BufferingHasInput,
       BufferingIsAwaited, ProcessingHasTurn, SendingMovesOn, Scheduler
\* The turn is over and its flush will end it; what another flush sends goes on.
<1>15. CASE FallThroughAtCap(f)
  <2>1. /\ chain # <<>> /\ Head(chain).op = "segment" /\ ~sendLoop
        /\ flush[f].stage = "decide"
        /\ UNCHANGED <<record, bufferTimer, sendLoop, timers, deployment>>
    BY <1>2, <1>15 DEF FallThroughAtCap, HoldsSegment, Holds
  <2>2. flush'[f] = [FreeFlush EXCEPT !.stage = "drop"]
    BY <1>3, <1>15, Zenon DEF FallThroughAtCap
  <2>3. flush'[f].stage = "drop"
    BY <2>2 DEF FreeFlush
  <2>4. /\ Queued("drop")' /\ TurnsHaveInput'
        /\ Queued("prepare") => Queued("prepare")'
        /\ Queued("drive") => Queued("drive")'
    BY <1>2, <2>1, <2>3 DEF Queued, EffortInv, TurnsHaveInput, Turns
  <2> DEFINE o == [op |-> "segment", flush |-> f]
             rest == Tail(chain)
  <2>5. chain \in Seq(Operations) /\ rest \in Seq(Operations) /\ o \in Operations
    BY <1>1, <2>1 DEF Operations, TypeInv, TypeOK
  <2>6. chain' = Append(rest, o) /\ Chained = {Head(chain)} \union Range(rest)
    BY <1>15, <2>1, <2>5, HeadTailRange DEF FallThroughAtCap, Chained
  <2> HIDE DEF o, rest
  <2>7. Chained' = Range(rest) \union {o}
    BY <2>5, <2>6, AppendRange DEF Chained
  <2>8. \A p \in Chained : p \in Chained' \/ p.op \notin {"timeout", "retry"}
    BY <2>1, <2>6, <2>7
  <2>9. record.state = "sending" => MovesOn'
    BY <2>1, <2>4, <2>8, MovesOnKept DEF EffortInv, SendingMovesOn
  <2> QED
    BY <2>1, <2>4, <2>9 DEF EffortInv, BufferingHasInput, BufferingIsAwaited, ProcessingHasTurn,
       SendingMovesOn, Scheduler
<1>16. CASE ForceIdle(f)
  <2>1. record'.state = "idle"
    BY <1>1, <1>16, Zenon DEF ForceIdle, Records
  <2> QED
    BY <1>5, <1>16, <2>1 DEF ForceIdle
<1> QED
  BY <1>6, <1>7, <1>8, <1>9, <1>10, <1>11, <1>12, <1>13, <1>14, <1>15, <1>16
     DEF Segment, EndAtPrepare

\* The stages that the chat call and the buffer timer lead to.
LEMMA ChatStepStage ==
  ASSUME TypeInv, NEW f \in Flushes, ChatStep(f)
  PROVE  /\ flush'[f].stage \in {"decide", "rescue"} /\ flush'[f].batch = flush[f].batch
         /\ flush[f].stage = "chat" /\ \A g \in Flushes : g # f => flush'[g] = flush[g]
<1>1. flush[f] \in FlushRecords
  BY DEF TypeInv, TypeOK
<1>2. PICK settled : ChatSettles(f, settled) /\ settled.stage \in {"decide", "rescue"}
                       /\ settled.batch = flush[f].batch
  <2>1. CASE ChatRejects(f)
    <3> DEFINE stage == IF flush[f].aborted THEN "decide" ELSE "rescue"
    <3>1. /\ [flush[f] EXCEPT !.stage = stage].stage = stage
          /\ [flush[f] EXCEPT !.stage = stage].batch = flush[f].batch
      BY <1>1, Zenon DEF FlushRecords
    <3>2. stage \in {"decide", "rescue"}
      OBVIOUS
    <3> QED
      BY <2>1, <3>1, <3>2, Zenon DEF ChatRejects
  <2>2. ASSUME NEW reply, ChatReplies(f, reply)
        PROVE  \E settled : ChatSettles(f, settled) /\ settled.stage \in {"decide", "rescue"}
                              /\ settled.batch = flush[f].batch
    <3> DEFINE settled == [flush[f] EXCEPT !.stage = "decide", !.aborted = FALSE, !.reply = reply]
    <3>1. settled.stage = "decide" /\ settled.batch = flush[f].batch
      BY <1>1, Zenon DEF FlushRecords
    <3> QED
      BY <2>2, <3>1, Zenon DEF ChatReplies
  <2> QED
    BY <2>1, <2>2 DEF ChatStep
<1> QED
  BY <1>1, <1>2, FlushAt DEF ChatSettles

LEMMA BufferTimerStage ==
  ASSUME TypeInv, NEW f \in Flushes, BufferTimerFires(f)
  PROVE  /\ flush[f].stage = "free" /\ flush'[f].stage = "prepare"
         /\ \A g \in Flushes : g # f => flush'[g] = flush[g]
<1>1. flush[f] \in FlushRecords
  BY DEF TypeInv, TypeOK
<1>2. [flush[f] EXCEPT !.stage = "prepare"].stage = "prepare"
  BY <1>1, Zenon DEF FlushRecords
<1> QED
  BY <1>2, FlushAt DEF BufferTimerFires

LEMMA ChatStepEffort ==
  ASSUME EffortInv, TypeInv', NEW f \in Flushes, ChatStep(f)
  PROVE  EffortInv'
<1>1. TypeInv /\ [op |-> "segment", flush |-> f] \in Operations
  BY DEF EffortInv, Operations
<1>2. /\ UNCHANGED <<record, bufferTimer, sendLoop, timers, deployment>>
      /\ Enqueue([op |-> "segment", flush |-> f])
  BY DEF ChatStep, ChatReplies, ChatRejects, ChatSettles
<1>3. /\ Turns' = Turns /\ Queued("prepare")' = Queued("prepare")
      /\ Queued("drive")' = Queued("drive") /\ TurnsHaveInput'
      /\ Queued("drop")' = Queued("drop")
  BY <1>1, ChatStepStage DEF Turns, Queued, EffortInv, TurnsHaveInput
<1>4. Chained \subseteq Chained'
  BY <1>1, <1>2, EnqueueChained
<1>5. record.state = "sending" => MovesOn'
  BY <1>2, <1>3, <1>4, MovesOnKept DEF EffortInv, SendingMovesOn
<1> QED
  BY <1>2, <1>3, <1>5 DEF EffortInv, BufferingHasInput, BufferingIsAwaited, ProcessingHasTurn,
     SendingMovesOn, Scheduler

LEMMA TimerFiresEffort ==
  ASSUME EffortInv, TypeInv', TimerFires
  PROVE  EffortInv'
<1>1. TypeInv
  BY DEF EffortInv
<1>2. ASSUME NEW f \in Flushes, BufferTimerFires(f)
      PROVE  EffortInv'
  <2>3. /\ flush[f].stage = "free" /\ flush'[f].stage = "prepare"
        /\ \A g \in Flushes : g # f => flush'[g] = flush[g]
    BY <1>1, <1>2, BufferTimerStage
  <2>4. /\ Turns' = Turns /\ Queued("prepare")' /\ (Queued("drive") => Queued("drive")')
        /\ TurnsHaveInput' /\ (Queued("drop") => Queued("drop")')
    BY <2>3 DEF Turns, Queued, EffortInv, TurnsHaveInput
  <2>5. [op |-> "segment", flush |-> f] \in Operations
    BY DEF Operations
  <2>6. Chained \subseteq Chained'
    BY <1>1, <1>2, <2>5, EnqueueChained DEF BufferTimerFires
  <2>7. record.state = "sending" => MovesOn'
    BY <1>2, <2>4, <2>6, MovesOnKept DEF BufferTimerFires, EffortInv, SendingMovesOn
  <2> QED
    BY <1>2, <2>4, <2>7 DEF BufferTimerFires, EffortInv, BufferingHasInput, BufferingIsAwaited,
       ProcessingHasTurn, SendingMovesOn
<1>3. ASSUME NEW i \in deliveryTimeouts, DeliveryTimerFires(i)
      PROVE  EffortInv'
  <2> DEFINE o == [op |-> "timeout", messageIndex |-> i]
  <2>1. o \in Operations /\ o.op = "timeout" /\ o.messageIndex = i
    BY <1>1 DEF Operations, TypeInv, TypeOK
  <2> HIDE DEF o
  <2>2. Chained' = Chained \union {o}
    BY <1>1, <1>3, <2>1, EnqueueChained DEF DeliveryTimerFires, o
  <2>3. \A t : IsAwaited(t) => IsAwaited(t)'
    BY <1>3 DEF DeliveryTimerFires, IsAwaited
  <2>4. MovesOn => MovesOn'
    BY <1>3, <2>1, <2>2, <2>3 DEF DeliveryTimerFires, MovesOn, Queued
  <2> QED
    BY <1>3, <2>4, EffortKept DEF DeliveryTimerFires, EffortInv, SendingMovesOn
<1>4. ASSUME NEW t \in transientRetryTimers, RetryTimerFires(t)
      PROVE  EffortInv'
  <2> DEFINE o == [op |-> "retry", timer |-> t]
  <2>1. o \in Operations /\ o.op = "retry" /\ o.timer = t
    BY <1>1 DEF Operations, TypeInv, TypeOK
  <2> HIDE DEF o
  <2>2. Chained' = Chained \union {o}
    BY <1>1, <1>4, <2>1, EnqueueChained DEF RetryTimerFires, o
  <2>3. \A u : IsAwaited(u) => IsAwaited(u)'
    BY <1>4 DEF RetryTimerFires, IsAwaited
  <2>4. MovesOn => MovesOn'
    BY <1>4, <2>1, <2>2, <2>3 DEF RetryTimerFires, MovesOn, Queued
  <2> QED
    BY <1>4, <2>4, EffortKept DEF RetryTimerFires, EffortInv, SendingMovesOn
<1> QED
  BY <1>2, <1>3, <1>4 DEF TimerFires

\* A retry that is scheduled for a turn being sent is the one it awaits.
LEMMA ScheduleRetryMovesOn ==
  ASSUME NEW r \in Records, NEW item \in Items, NEW attempt \in Nat,
         ~IsQueueComplete(r.outboundQueue, r.currentOutboundIndex),
         ScheduleRetry(r, item, attempt), record'.state = "sending"
  PROVE  MovesOn'
<1> DEFINE retried == [item EXCEPT !.retryCount = attempt]
           timer == [item |-> item.id, attempt |-> attempt]
           queue == UpdateCurrent(r.outboundQueue, r.currentOutboundIndex, retried)
<1>1. retried \in Items /\ retried.id = item.id /\ retried.retryCount = attempt
  BY Zenon DEF Items
<1>2. timer \in RetryTimers /\ timer.item = item.id /\ timer.attempt = attempt
  BY DEF Items, RetryTimers
<1> HIDE DEF retried
<1>3. /\ ~IsQueueComplete(queue, r.currentOutboundIndex)
      /\ CurrentItem(queue, r.currentOutboundIndex) = retried
  BY <1>1 DEF Records, UpdateCurrent, CurrentItem, IsQueueComplete
<1> HIDE DEF timer, queue
<1>4. record' = WithCurrent(r, retried) /\ transientRetryTimers' = {timer}
  BY DEF ScheduleRetry, retried, timer
<1>5. record'.outboundQueue = queue /\ record'.currentOutboundIndex = r.currentOutboundIndex
  BY <1>4, Zenon DEF WithCurrent, Records, queue
<1>6. IsAwaited(timer)'
  BY <1>1, <1>2, <1>3, <1>5 DEF IsAwaited
<1>7. timer \in RetryTimers
  BY <1>2 DEF RetryTimers
<1> QED
  BY <1>4, <1>6, <1>7 DEF MovesOn

LEMMA HandleWindowClosedMovesOn ==
  ASSUME NEW r \in Records, NEW armed, HandleWindowClosed(r, armed), record'.state = "sending"
  PROVE  MovesOn'
<1> DEFINE reprompted == [r EXCEPT !.windowReprompted = TRUE]
<1>1. reprompted \in Records
  BY TRUE \in BOOLEAN, Zenon DEF Records
<1>2. ~FinalizeTurn(reprompted)
  BY <1>1, FinalizedState DEF FinalizeTurn
<1>3. sendLoop'
  BY <1>2, Zenon DEF HandleWindowClosed, AdvanceAndContinue, ContinueSending
<1> QED
  BY <1>3 DEF MovesOn

LEMMA SendStepEffort ==
  ASSUME EffortInv, TypeInv', SendStep
  PROVE  EffortInv'
<1>1. TypeInv /\ record \in Records /\ lastId \in Nat
  BY DEF EffortInv, TypeInv, TypeOK
<1>2. DeliveryStep
  BY <1>1, SendStepDelivers
<1> SUFFICES ASSUME record.state = "sending", record'.state = "sending"
             PROVE  MovesOn'
  BY <1>2, DeliveryEffort
<1>3. ASSUME NEW r, AdvanceAndContinue(r)
      PROVE  MovesOn'
  BY <1>3 DEF AdvanceAndContinue, ContinueSending, MovesOn
<1>4. CASE SendLoopEnds
  BY <1>1, <1>4, FinalizedState DEF SendLoopEnds, FinalizeTurn
<1>5. ASSUME NEW item, SendFireAndForget(item)
      PROVE  MovesOn'
  BY <1>3, <1>5 DEF SendFireAndForget
<1>6. ASSUME NEW item, SendOnSend(item)
      PROVE  MovesOn'
  BY <1>6 DEF SendOnSend, ContinueSending, MovesOn
<1>7. ASSUME NEW item, SendOnStatus(item)
      PROVE  MovesOn'
  <2>1. record'.currentOutboundIndex = record.currentOutboundIndex
    <3> DEFINE sent == WithCurrent(record, SentItem(item, lastId + 1))
    <3>1. /\ [sent EXCEPT !.currentOutboundMessageId = lastId + 1].currentOutboundIndex
               = record.currentOutboundIndex
      BY <1>1, Zenon DEF WithCurrent, Records
    <3> QED
      BY <1>7, <3>1, Zenon DEF SendOnStatus
  <2> QED
    BY <1>7, <2>1 DEF SendOnStatus, MovesOn
<1>8. ASSUME NEW item, SendFailsTransient(item)
      PROVE  MovesOn'
  <2>1. item \in Items /\ ~IsQueueComplete(record.outboundQueue, record.currentOutboundIndex)
    BY <1>1, <1>8, CurrentItemType DEF SendFailsTransient, Sending
  <2>2. item.retryCount + 1 \in Nat /\ item.attempts + 1 \in Nat
    BY <2>1 DEF Items
  <2>3. Attempted(item) \in Items
    BY <2>1, <2>2, Zenon DEF Attempted, Items
  <2> QED
    BY <1>1, <1>8, <2>1, <2>2, <2>3, ScheduleRetryMovesOn DEF SendFailsTransient
<1>9. ASSUME NEW item, SendSkips(item)
      PROVE  MovesOn'
  BY <1>3, <1>9 DEF SendSkips
<1>10. ASSUME NEW item, SendFindsWindowClosed(item)
      PROVE  MovesOn'
  <2>1. item \in Items
    BY <1>1, <1>10, CurrentItemType DEF SendFindsWindowClosed, Sending
  <2>2. item.attempts + 1 \in Nat
    BY <2>1 DEF Items
  <2>3. Attempted(item) \in Items
    BY <2>1, <2>2, Zenon DEF Attempted, Items
  <2>4. WithCurrent(record, Attempted(item)) \in Records
    BY <1>1, <2>3, WithCurrentType
  <2> QED
    BY <1>10, <2>4, HandleWindowClosedMovesOn DEF SendFindsWindowClosed
<1> QED
  BY <1>4, <1>5, <1>6, <1>7, <1>8, <1>9, <1>10 DEF SendStep

LEMMA StatusEffort ==
  ASSUME EffortInv, TypeInv', Status
  PROVE  EffortInv'
<1>1. TypeInv /\ record \in Records
  BY DEF EffortInv, TypeInv, TypeOK
<1>2. DeliveryStep
  BY <1>1, StatusDelivers
<1> SUFFICES ASSUME record.state = "sending", record'.state = "sending"
             PROVE  MovesOn'
  BY <1>2, DeliveryEffort
\* A status that leaves the turn as it is: the operation was not what moves it on.
<1>3. ASSUME Holds("status"), Release, UNCHANGED <<flush, timers>>,
             record'.outboundQueue = record.outboundQueue,
             record'.currentOutboundIndex = record.currentOutboundIndex
      PROVE  MovesOn'
  <2>1. chain # <<>> /\ Head(chain).op = "status" /\ ~sendLoop
    BY <1>3 DEF Holds
  <2>2. Chained = {Head(chain)} \union Chained'
    BY <1>1, <1>3, <2>1, ReleaseChained
  <2>3. Queued("drive")' = Queued("drive")
    BY <1>3 DEF Queued
  <2> QED
    BY <1>3, <2>1, <2>2, <2>3, MovesOnKept DEF EffortInv, SendingMovesOn
<1>4. ASSUME NEW r, AdvanceAndContinue(r)
      PROVE  MovesOn'
  BY <1>4 DEF AdvanceAndContinue, ContinueSending, MovesOn
<1>5. CASE DropStatus
  BY <1>3, <1>5 DEF DropStatus
<1>6. ASSUME NEW h \in handles, NoteStatus(h)
      PROVE  MovesOn'
  <2>1. /\ NotedRecord(h).outboundQueue = record.outboundQueue
        /\ NotedRecord(h).currentOutboundIndex = record.currentOutboundIndex
    BY <1>1, Zenon DEF NotedRecord, Records
  <2> QED
    BY <1>3, <1>6, <2>1 DEF NoteStatus, HoldsStatus
<1>7. ASSUME NEW h \in handles, StatusAdvances(h)
      PROVE  MovesOn'
  BY <1>4, <1>7 DEF StatusAdvances
<1>8. ASSUME NEW h \in handles, StatusFailsTransient(h)
      PROVE  MovesOn'
  <2> DEFINE item == CurrentItem(record.outboundQueue, record.currentOutboundIndex)
             attempt == item.asyncFailRetryCount + 1
             failed == [item EXCEPT !.asyncFailRetryCount = attempt, !.channelMessageId = None]
             unsent == [record EXCEPT !.currentOutboundMessageId = None]
  <2>1. ~IsQueueComplete(record.outboundQueue, record.currentOutboundIndex) /\ item \in Items
    BY <1>1, <1>8, CurrentItemType DEF StatusFailsTransient, MayRetryAsync
  <2>2. attempt \in Nat
    BY <2>1 DEF Items
  <2>3. failed \in Items
    BY <2>1, <2>2, 0 \in Nat, Zenon DEF Items, None
  <2>4. /\ unsent \in Records /\ unsent.outboundQueue = record.outboundQueue
        /\ unsent.currentOutboundIndex = record.currentOutboundIndex
    BY <1>1, 0 \in Nat, Zenon DEF Records, None
  <2>5. ScheduleRetry(unsent, failed, attempt)
    BY <1>8, Zenon DEF StatusFailsTransient
  <2> HIDE DEF unsent, failed, attempt
  <2> QED
    BY <2>1, <2>2, <2>3, <2>4, <2>5, ScheduleRetryMovesOn
<1>9. ASSUME NEW h \in handles, StatusSkips(h)
      PROVE  MovesOn'
  BY <1>4, <1>9 DEF StatusSkips
<1>10. ASSUME NEW h \in handles, StatusFindsWindowClosed(h)
      PROVE  MovesOn'
  BY <1>1, <1>10, HandleWindowClosedMovesOn DEF StatusFindsWindowClosed
<1> QED
  BY <1>5, <1>6, <1>7, <1>8, <1>9, <1>10 DEF Status

LEMMA TimerEffort ==
  ASSUME EffortInv, TypeInv', Timer
  PROVE  EffortInv'
<1>1. TypeInv /\ record \in Records
  BY DEF EffortInv, TypeInv, TypeOK
<1>2. DeliveryStep
  BY <1>1, TimerDelivers
<1> SUFFICES ASSUME record.state = "sending", record'.state = "sending"
             PROVE  MovesOn'
  BY <1>2, DeliveryEffort
<1>3. CASE TimeoutAdvances
  BY <1>3 DEF TimeoutAdvances, AdvanceAndContinue, ContinueSending, MovesOn
<1>4. CASE RetrySends
  BY <1>4 DEF RetrySends, ContinueSending, MovesOn
<1>5. CASE DropTimeout
  <2>1. chain # <<>> /\ Head(chain).op = "timeout" /\ ~sendLoop
    BY <1>5 DEF DropTimeout, Holds
  <2>2. Chained = {Head(chain)} \union Chained'
    BY <1>1, <1>5, <2>1, ReleaseChained DEF DropTimeout
  <2>3. Queued("drive")' = Queued("drive")
    BY <1>5 DEF DropTimeout, Queued
  <2> QED
    BY <1>5, <2>1, <2>2, <2>3, MovesOnKept DEF DropTimeout, EffortInv, SendingMovesOn
<1>6. CASE DropRetry
  <2>1. chain # <<>> /\ Head(chain).op = "retry" /\ ~sendLoop
    BY <1>6 DEF DropRetry, Holds
  <2>2. Chained = {Head(chain)} \union Chained'
    BY <1>1, <1>6, <2>1, ReleaseChained DEF DropRetry
  <2>3. Queued("drive")' = Queued("drive")
    BY <1>6 DEF DropRetry, Queued
  <2> QED
    BY <1>6, <2>1, <2>2, <2>3, MovesOnKept DEF DropRetry, EffortInv, SendingMovesOn
<1> QED
  BY <1>3, <1>4, <1>5, <1>6 DEF Timer

LEMMA InitEffort == Init => EffortInv
<1> SUFFICES ASSUME Init PROVE EffortInv
  OBVIOUS
<1>1. record.state = "idle"
  BY Zenon DEF Init
<1>2. Turns = {}
  BY DEF Init, Turns, FreeFlush
<1> QED
  BY <1>1, <1>2, InitType DEF EffortInv, BufferingHasInput, TurnsHaveInput, BufferingIsAwaited,
     ProcessingHasTurn, SendingMovesOn

LEMMA StepEffort == EffortInv /\ [Next]_vars => EffortInv'
<1> SUFFICES ASSUME EffortInv, [Next]_vars PROVE EffortInv'
  OBVIOUS
<1>1. TypeInv'
  BY StepType DEF EffortInv
<1>2. CASE UNCHANGED vars
  <2>1. MovesOn => MovesOn'
    BY <1>2 DEF vars, timers, MovesOn, Chained, Queued, IsAwaited
  <2> QED
    BY <1>1, <1>2, <2>1, EffortKept DEF vars, EffortInv, SendingMovesOn
<1> QED
  BY <1>1, <1>2, WebhookEffort, InboundEffort, SegmentEffort, SendStepEffort, StatusEffort,
     TimerEffort, ChatStepEffort, TimerFiresEffort DEF Next, LockStep

\* The in-memory half of ItemsAreAccountedFor.
LEMMA EffortIsBusy ==
  ASSUME EffortInv
  PROVE  Scheduler = "in_memory" => BusyIsAwaited
<1>1. record.state \in States
  BY DEF EffortInv, TypeInv, TypeOK, Records
<1>2. \A o \in Chained : \E i \in DOMAIN chain : chain[i] = o
  BY DEF Chained, Range
<1>3. CASE record.state = "sending"
  BY <1>2, <1>3 DEF EffortInv, SendingMovesOn, MovesOn, BusyIsAwaited
<1> QED
  BY <1>1, <1>3 DEF States, EffortInv, BufferingIsAwaited, ProcessingHasTurn, BusyIsAwaited

-----------------------------------------------------------------------------
(* How often an item is sent *)

Completed(r) == IsQueueComplete(r.outboundQueue, r.currentOutboundIndex)

AtCursor(r) == CurrentItem(r.outboundQueue, r.currentOutboundIndex)

\* The item was not tried yet.
Fresh(x) ==
  x.channelMessageId = None /\ x.attempts = 0 /\ x.retryCount = 0 /\ x.asyncFailRetryCount = 0

\* Twice the sends that the first `failed` failed statuses leave behind, beyond
\* what the retry count shows.
Spent(failed) == failed * (2 * MaxRetryAttempts + 1 - failed)

\* The item is to be sent, for the first time or again.
Due(x) ==
  /\ x.channelMessageId = None
  /\ x.asyncFailRetryCount <= x.retryCount
  /\ x.retryCount <= MaxRetryAttempts
  /\ 2 * x.attempts <= Spent(x.asyncFailRetryCount) + 2 * x.retryCount

\* The send was accepted: a failed status may still ask for another one.
Sent(x) ==
  /\ x.channelMessageId # None
  /\ x.retryCount = 0
  /\ x.asyncFailRetryCount <= MaxRetryAttempts
  /\ 2 * x.attempts <= Spent(x.asyncFailRetryCount) + 2 * MaxRetryAttempts + 2

Within(x) == x.attempts <= SendBudget

LEMMA SpentFacts ==
  /\ MaxRetryAttempts \in Nat /\ SendBudget \in Nat /\ Spent(0) = 0
  /\ \A n \in Nat : /\ Spent(n) \in Int
                    /\ Spent(n + 1) = Spent(n) + 2 * MaxRetryAttempts - 2 * n
  /\ \A n \in 0 .. MaxRetryAttempts : Spent(n) <= MaxRetryAttempts * (MaxRetryAttempts + 1)
<1>1. MaxRetryAttempts \in Nat
  BY BoundsAssumption
<1>2. SendBudget \in Nat /\ Spent(0) = 0
  BY <1>1 DEF SendBudget, Spent
<1>3. ASSUME NEW n \in Nat
      PROVE  Spent(n) \in Int /\ Spent(n + 1) = Spent(n) + 2 * MaxRetryAttempts - 2 * n
  BY <1>1 DEF Spent
<1>4. ASSUME NEW n \in 0 .. MaxRetryAttempts
      PROVE  Spent(n) <= MaxRetryAttempts * (MaxRetryAttempts + 1)
  <2>1. PICK d \in Nat : MaxRetryAttempts = n + d
    BY <1>1, MaxRetryAttempts - n \in Nat
  <2>2. d * (d + 1) >= 0
    OBVIOUS
  <2>3. MaxRetryAttempts * (MaxRetryAttempts + 1) = Spent(n) + d * (d + 1)
    BY <2>1 DEF Spent
  <2> QED
    BY <1>1, <1>3, <2>2, <2>3
<1> QED
  BY <1>1, <1>2, <1>3, <1>4

LEMMA BudgetBound ==
  ASSUME NEW n \in Nat,
         2 * n <= MaxRetryAttempts * (MaxRetryAttempts + 1) + 2 * MaxRetryAttempts + 2
  PROVE  n <= SendBudget
<1> DEFINE p == (MaxRetryAttempts + 1) * (MaxRetryAttempts + 2)
<1>1. p = MaxRetryAttempts * (MaxRetryAttempts + 1) + 2 * MaxRetryAttempts + 2 /\ p \in Nat
  BY SpentFacts
<1> HIDE DEF p
<1>2. n <= p \div 2
  BY <1>1
<1> QED
  BY <1>2 DEF SendBudget, p

\* One more send of an item that is due stays within the budget.
LEMMA DueWithin ==
  ASSUME NEW x \in Items, Due(x)
  PROVE  x.attempts + 1 <= SendBudget
<1>1. x.asyncFailRetryCount \in Nat /\ x.attempts \in Nat /\ x.retryCount \in Nat
  BY DEF Items
<1>2. x.asyncFailRetryCount \in 0 .. MaxRetryAttempts
  BY <1>1, SpentFacts DEF Due
<1>3. 2 * (x.attempts + 1)
        <= MaxRetryAttempts * (MaxRetryAttempts + 1) + 2 * MaxRetryAttempts + 2
  BY <1>1, <1>2, SpentFacts DEF Due
<1> QED
  BY <1>1, <1>3, BudgetBound

LEMMA SentWithin ==
  ASSUME NEW x \in Items, Due(x) \/ Sent(x)
  PROVE  Within(x)
<1>1. x.asyncFailRetryCount \in Nat /\ x.attempts \in Nat
  BY DEF Items
<1>2. CASE Due(x)
  BY <1>1, <1>2, DueWithin, SpentFacts DEF Within
<1>3. CASE Sent(x)
  <2>1. x.asyncFailRetryCount \in 0 .. MaxRetryAttempts
    BY <1>1, <1>3, SpentFacts DEF Sent
  <2>2. 2 * x.attempts
          <= MaxRetryAttempts * (MaxRetryAttempts + 1) + 2 * MaxRetryAttempts + 2
    BY <1>1, <1>3, <2>1, SpentFacts DEF Sent
  <2> QED
    BY <1>1, <2>2, BudgetBound DEF Within
<1> QED
  BY <1>2, <1>3

LEMMA FreshIsDue ==
  ASSUME NEW x \in Items, Fresh(x)
  PROVE  Due(x)
  BY SpentFacts DEF Fresh, Due

\* A send that is accepted, a send that fails, a status that fails.
LEMMA SentItemSent ==
  ASSUME NEW x \in Items, Due(x), NEW id \in Nat \ {None}
  PROVE  /\ SentItem(x, id) \in Items /\ Sent(SentItem(x, id))
         /\ SentItem(x, id).id = x.id /\ SentItem(x, id).channelMessageId = id
         /\ SentItem(x, id).attempts = x.attempts + 1
<1> DEFINE y == SentItem(x, id)
<1>1. /\ x.asyncFailRetryCount \in Nat /\ x.attempts \in Nat /\ x.retryCount \in Nat
      /\ x.attempts + 1 \in Nat /\ id \in Nat
  BY DEF Items
<1>2. /\ y \in Items /\ y.id = x.id /\ y.channelMessageId = id
      /\ y.attempts = x.attempts + 1 /\ y.retryCount = 0
      /\ y.asyncFailRetryCount = x.asyncFailRetryCount
  BY <1>1, 0 \in Nat, Zenon DEF SentItem, Attempted, Items
<1> HIDE DEF y
<1>3. Sent(y)
  BY <1>1, <1>2, SpentFacts DEF Sent, Due
<1> QED
  BY <1>2, <1>3 DEF y

LEMMA AttemptedItem ==
  ASSUME NEW x \in Items
  PROVE  /\ Attempted(x) \in Items /\ Attempted(x).attempts = x.attempts + 1
         /\ Attempted(x).id = x.id /\ Attempted(x).kind = x.kind
         /\ Attempted(x).retryCount = x.retryCount
         /\ Attempted(x).channelMessageId = x.channelMessageId
         /\ Attempted(x).asyncFailRetryCount = x.asyncFailRetryCount
<1>1. x.attempts + 1 \in Nat
  BY DEF Items
<1> QED
  BY <1>1, Zenon DEF Attempted, Items

LEMMA RetriedItemDue ==
  ASSUME NEW x \in Items, Due(x), x.retryCount + 1 <= MaxRetryAttempts,
         NEW y \in Items, y = [Attempted(x) EXCEPT !.retryCount = x.retryCount + 1]
  PROVE  Due(y) /\ y.id = x.id /\ y.attempts = x.attempts + 1
<1>1. x.asyncFailRetryCount \in Nat /\ x.attempts \in Nat /\ x.retryCount \in Nat
  BY DEF Items
<1>2. /\ y.id = x.id /\ y.attempts = x.attempts + 1 /\ y.retryCount = x.retryCount + 1
      /\ y.channelMessageId = x.channelMessageId
      /\ y.asyncFailRetryCount = x.asyncFailRetryCount
  BY AttemptedItem, Zenon DEF Items
<1> QED
  BY <1>1, <1>2, SpentFacts DEF Due

LEMMA FailedItemDue ==
  ASSUME NEW x \in Items, Sent(x), x.asyncFailRetryCount + 1 <= MaxRetryAttempts,
         NEW y \in Items,
         y = [[x EXCEPT !.asyncFailRetryCount = x.asyncFailRetryCount + 1,
                        !.channelMessageId = None]
                EXCEPT !.retryCount = x.asyncFailRetryCount + 1]
  PROVE  Due(y) /\ y.id = x.id /\ y.attempts = x.attempts
<1>1. x.asyncFailRetryCount \in Nat /\ x.attempts \in Nat
  BY DEF Items
<1>2. /\ y.id = x.id /\ y.attempts = x.attempts /\ y.channelMessageId = None
      /\ y.asyncFailRetryCount = x.asyncFailRetryCount + 1
      /\ y.retryCount = x.asyncFailRetryCount + 1
  BY Zenon DEF Items
<1> QED
  BY <1>1, <1>2, SpentFacts DEF Due, Sent

-----------------------------------------------------------------------------
(* Where delivery stands on BullMQ *)

Segments == {i \in DOMAIN chain : chain[i].op = "segment"}

Timeouts == {i \in DOMAIN chain : chain[i].op = "timeout"}

\* A flush that took its turn: the chat call, what follows it, and segment 3.
Busy == \E f \in Flushes : flush[f].stage \in {"chat", "decide", "rescue", "drive"}

\* Where the input is tells the state, and what is pending.
PlaceInv ==
  /\ record.inboundBuffer # <<>> => \/ record.state = "buffering"
                                    \/ record.state = "idle" /\ ~HasAdapter
  /\ Turns # {} => record.state = "processing"
  /\ bufferTimer \/ Queued("prepare") => record.state = "buffering"
  /\ Queued("drive") => record.state \in {"sending", "buffering"}
  /\ sendLoop => record.state # "processing"

\* An item is in flight, or is being sent, or the queue is drained; the delivery
\* timer belongs to the item in flight.
FlightInv ==
  /\ HandlesAreInFlight
  /\ record.currentOutboundMessageId # None =>
       /\ ~Completed(record)
       /\ AtCursor(record).channelMessageId = record.currentOutboundMessageId
  /\ deliveryTimeouts # {} => record.currentOutboundMessageId # None
  /\ sendLoop => /\ record.currentOutboundMessageId = None
                 /\ ~Completed(record) => AtCursor(record).channelMessageId = None
  /\ Queued("drive") => /\ ~sendLoop
                        /\ record.currentOutboundMessageId = None
                        /\ ~Completed(record) => Fresh(AtCursor(record))
  /\ record.state # "sending" => Completed(record)

\* The one segment that is chained is that of the flush that waits for the lock, or
\* drives; a delivery timeout is chained ahead of it, and of no later segment.
ChainInv ==
  /\ \A i \in Segments : /\ \A j \in Segments : i = j
                         /\ \A j \in Timeouts : j < i
                         /\ \/ flush[chain[i].flush].stage \in {"prepare", "decide", "rescue", "drive"}
                            \/ i = 1 /\ sendLoop
  /\ Busy => Timeouts = {}

\* A retry is armed for a count that is not the one of a new item.
RetryInv ==
  /\ \A t \in transientRetryTimers : t.attempt # 0
  /\ \A o \in Chained : o.op = "retry" => o.timer.attempt # 0

\* The items before the cursor are done with, the ones behind it untried.
ItemInv ==
  \A i \in DOMAIN record.outboundQueue :
    LET item == record.outboundQueue[i]
    IN  /\ i <= record.currentOutboundIndex => Within(item)
        /\ i = record.currentOutboundIndex + 1 => Due(item) \/ Sent(item)
        /\ i > record.currentOutboundIndex + 1 => Fresh(item)

BullInv ==
  /\ Scheduler = "bullmq"
  /\ EffortInv /\ JobInv
  /\ PlaceInv /\ FlightInv /\ ChainInv /\ RetryInv /\ ItemInv

LEMMA BullTypes ==
  ASSUME BullInv
  PROVE  /\ TypeInv /\ record \in Records /\ chain \in Seq(Operations) /\ lastId \in Nat
         /\ \A f \in Flushes : flush[f] \in FlushRecords
         /\ ~Completed(record) => AtCursor(record) \in Items
         /\ record.currentOutboundMessageId # None =>
              handles = {[id |-> record.currentOutboundMessageId,
                          messageIndex |-> record.currentOutboundIndex]}
         /\ record.currentOutboundMessageId = None => handles = {}
  BY CurrentItemType DEF BullInv, JobInv, TypeInv, TypeOK, FlightInv, HandlesAreInFlight,
     Completed, AtCursor

\* What a flush that is alive excludes.
LEMMA AliveAlone ==
  ASSUME BullInv, NEW f \in Flushes, Alive(f)
  PROVE  /\ \A g \in Flushes : g # f => flush[g].stage = "free"
         /\ ~bufferTimer /\ ~Driving
  BY DEF BullInv, JobInv, OneJob, Alive, JobActive

LEMMA ProcessingIsBusy ==
  ASSUME BullInv, record.state = "processing"
  PROVE  Busy
  BY DEF BullInv, EffortInv, ProcessingHasTurn, JobInv, DropSeen, NoneFell, Turns, Queued, Busy

LEMMA HandleIsSent ==
  ASSUME BullInv, NEW h \in handles
  PROVE  /\ record.currentOutboundMessageId # None /\ h.id = record.currentOutboundMessageId
         /\ h.messageIndex = record.currentOutboundIndex
         /\ ~Completed(record) /\ record.state = "sending" /\ ~Queued("drive") /\ ~sendLoop
         /\ AtCursor(record) \in Items /\ Sent(AtCursor(record))
         /\ {g \in handles : g.id # h.id} = {}
<1>1. record.currentOutboundMessageId # None
  BY BullTypes
<1>2. h = [id |-> record.currentOutboundMessageId, messageIndex |-> record.currentOutboundIndex]
  BY <1>1, BullTypes
<1>3. ~Completed(record) /\ record.state = "sending" /\ ~Queued("drive") /\ ~sendLoop
  BY <1>1 DEF BullInv, FlightInv
<1>4. record.currentOutboundIndex + 1 \in DOMAIN record.outboundQueue
  BY <1>3, BullTypes DEF Completed, IsQueueComplete, Records
<1>5. Due(AtCursor(record)) \/ Sent(AtCursor(record))
  BY <1>4, BullTypes DEF BullInv, ItemInv, AtCursor, CurrentItem, Records
<1>6. Sent(AtCursor(record))
  BY <1>1, <1>5 DEF BullInv, FlightInv, Due
<1>7. {g \in handles : g.id # h.id} = {}
  BY <1>1, BullTypes
<1> QED
  BY <1>1, <1>2, <1>3, <1>6, <1>7, BullTypes

\* The item that is sent, or sent again, is due; its turn is being sent.
LEMMA SendingIsDue ==
  ASSUME BullInv, NEW item, Sending(item)
  PROVE  /\ item \in Items /\ item = AtCursor(record) /\ Due(item)
         /\ ~Completed(record) /\ record.state = "sending" /\ ~Queued("drive")
         /\ record.currentOutboundMessageId = None /\ handles = {} /\ deliveryTimeouts = {}
<1>1. sendLoop /\ ~Completed(record) /\ item = AtCursor(record)
  BY DEF Sending, Completed, AtCursor
<1>2. record.currentOutboundIndex + 1 \in DOMAIN record.outboundQueue
  BY <1>1, BullTypes DEF Completed, IsQueueComplete, Records
<1>3. Due(item) \/ Sent(item)
  BY <1>1, <1>2, BullTypes DEF BullInv, ItemInv, AtCursor, CurrentItem, Records
<1>4. Due(item)
  BY <1>1, <1>3 DEF BullInv, FlightInv, Sent
<1> QED
  BY <1>1, <1>4, BullTypes DEF BullInv, FlightInv

\* A retry that is awaited finds the item due.
LEMMA AwaitedIsDue ==
  ASSUME BullInv, NEW t \in RetryTimers, IsAwaited(t), t.attempt # 0
  PROVE  /\ ~Completed(record) /\ record.state = "sending" /\ ~Queued("drive")
         /\ record.currentOutboundMessageId = None
         /\ AtCursor(record).channelMessageId = None
<1>1. /\ ~Completed(record) /\ record.state = "sending"
      /\ AtCursor(record).retryCount = t.attempt
  BY DEF IsAwaited, Completed, AtCursor
<1>2. record.currentOutboundIndex + 1 \in DOMAIN record.outboundQueue
  BY <1>1, BullTypes DEF Completed, IsQueueComplete, Records
<1>3. Due(AtCursor(record)) \/ Sent(AtCursor(record))
  BY <1>1, <1>2, BullTypes DEF BullInv, ItemInv, AtCursor, CurrentItem, Records
<1>4. Due(AtCursor(record)) /\ ~Fresh(AtCursor(record))
  BY <1>1, <1>3 DEF Sent, Fresh
<1> QED
  BY <1>1, <1>4 DEF BullInv, FlightInv, Due

\* While a turn is processed, or waits to be driven, delivery leaves it alone.
LEMMA DeliveryAlone ==
  ASSUME BullInv, SendStep \/ Status \/ Timer, record.state = "processing" \/ Queued("drive")
  PROVE  UNCHANGED <<record, bufferTimer>> /\ ~sendLoop /\ ~sendLoop'
<1>1. Busy
  BY ProcessingIsBusy DEF Busy, Queued
<1>2. ~SendStep
  <2>1. ~sendLoop
    BY DEF BullInv, PlaceInv, FlightInv
  <2> QED
    BY <2>1 DEF SendStep, SendLoopEnds, SendFireAndForget, SendOnSend, SendOnStatus,
       SendFailsTransient, SendSkips, SendFindsWindowClosed, Sending
<1>3. handles = {}
  BY HandleIsSent
<1>4. ASSUME Status
      PROVE  DropStatus
  BY <1>3, <1>4 DEF Status
<1>5. ~TimeoutAdvances
  <2> SUFFICES ASSUME TimeoutAdvances PROVE FALSE
    OBVIOUS
  <2>1. chain # <<>> /\ chain[1].op = "timeout" /\ 1 \in DOMAIN chain
    BY BullTypes DEF TimeoutAdvances, Holds
  <2> QED
    BY <1>1, <2>1 DEF BullInv, ChainInv, Timeouts
<1>6. ~RetrySends
  <2> SUFFICES ASSUME RetrySends PROVE FALSE
    OBVIOUS
  <2>1. chain # <<>> /\ Head(chain).op = "retry" /\ IsAwaited(Head(chain).timer)
    BY DEF RetrySends, Holds
  <2>2. Head(chain) \in Operations /\ Head(chain) \in Chained
    BY <2>1, BullTypes, HeadTailRange DEF Chained
  <2>3. Head(chain).timer \in RetryTimers /\ Head(chain).timer.attempt # 0
    BY <2>1, <2>2, OperationType DEF BullInv, RetryInv
  <2> QED
    BY <2>1, <2>3, AwaitedIsDue
<1>7. DropStatus \/ DropTimeout \/ DropRetry
  BY <1>2, <1>4, <1>5, <1>6 DEF Timer
<1> QED
  BY <1>7 DEF DropStatus, DropTimeout, DropRetry, Holds, Release

-----------------------------------------------------------------------------
(* Where the input is *)

\* A step that leaves the record, and takes no flush and no send loop.
LEMMA PlaceKept ==
  ASSUME BullInv, UNCHANGED <<record, bufferTimer, deployment>>, sendLoop' => sendLoop,
         \A f \in Flushes : flush'[f].stage = flush[f].stage
  PROVE  PlaceInv'
<1>1. Turns' = Turns /\ Queued("prepare")' = Queued("prepare") /\ Queued("drive")' = Queued("drive")
  BY DEF Turns, Queued
<1> QED
  BY <1>1 DEF BullInv, PlaceInv, HasAdapter

LEMMA InboundPlace ==
  ASSUME BullInv, Inbound
  PROVE  PlaceInv'
<1>1. StartsNoJob
  BY BullTypes, InboundNoJob
<1>2. /\ Turns' = Turns /\ Queued("prepare")' = Queued("prepare")
      /\ Queued("drive")' = Queued("drive")
  BY <1>1 DEF StartsNoJob, Turns, Queued
<1>3. CASE DropInbound
  BY <1>1, <1>3, PlaceKept DEF DropInbound, Release, StartsNoJob
<1>4. CASE BufferInbound
  <2>1. record'.state = "buffering" /\ record.state \in {"idle", "buffering"} /\ ~sendLoop'
    BY <1>4, BullTypes, Zenon DEF BufferInbound, AcceptInbound, Release, Records
  <2> QED
    BY <1>2, <2>1 DEF BullInv, PlaceInv
<1>5. CASE StashLateArrival
  <2>1. /\ record'.state = "processing" /\ record.state = "processing"
        /\ record'.inboundBuffer = record.inboundBuffer /\ ~sendLoop' /\ UNCHANGED bufferTimer
    BY <1>5, BullTypes, Zenon DEF StashLateArrival, AcceptInbound, Release, Records
  <2> QED
    BY <1>2, <2>1 DEF BullInv, PlaceInv
<1>6. CASE InterruptSending
  <2>1. record'.state = "buffering" /\ record.state = "sending" /\ ~sendLoop'
    BY <1>6, BullTypes, Zenon DEF InterruptSending, InterruptedRecord, AcceptInbound, Release, Records
  <2> QED
    BY <1>2, <2>1 DEF BullInv, PlaceInv
<1> QED
  BY <1>3, <1>4, <1>5, <1>6 DEF Inbound

LEMMA SegmentPlace ==
  ASSUME BullInv, NEW f \in Flushes, Segment(f)
  PROVE  PlaceInv'
<1>1. TypeInv /\ record \in Records
  BY BullTypes
<1>2. Alive(f) /\ UNCHANGED deployment /\ \A g \in Flushes : g # f => flush'[g] = flush[g]
  BY <1>1, SegmentIsJobStep DEF JobStep
<1>3. ~bufferTimer /\ ~bufferTimer' /\ \A g \in Flushes : g # f => flush'[g].stage = "free"
  BY <1>1, <1>2, AliveAlone, SegmentIsJobStep DEF JobStep, TakesSchedule, JobActive, Alive, BullInv
<1>4. ASSUME NEW x, flush' = [flush EXCEPT ![f] = x]
      PROVE  flush'[f] = x
  BY <1>1, <1>4, FlushAt
<1>5. FreeFlush.stage = "free"
  BY DEF FreeFlush
<1>6. flush[f].stage \in {"chat", "decide", "rescue"} => record.inboundBuffer = <<>>
  BY DEF BullInv, PlaceInv, Turns
\* The flush is over.
<1>7. ASSUME flush' = [flush EXCEPT ![f] = FreeFlush], ~sendLoop',
             record'.inboundBuffer # <<>> =>
               \/ record'.state = "buffering"
               \/ record'.state = "idle" /\ ~HasAdapter
      PROVE  PlaceInv'
  <2>1. flush'[f].stage = "free"
    BY <1>4, <1>5, <1>7
  <2>2. Turns' = {} /\ ~Queued("prepare")' /\ ~Queued("drive")'
    BY <1>3, <2>1 DEF Turns, Queued
  <2> QED
    BY <1>2, <1>3, <1>7, <2>2 DEF PlaceInv, HasAdapter
<1>8. CASE PrepareNothing(f)
  BY <1>7, <1>8 DEF PrepareNothing, Release
<1>9. CASE PrepareNoAdapter(f)
  <2>1. record'.state = "idle"
    BY <1>1, <1>9, Zenon DEF PrepareNoAdapter, Records
  <2> QED
    BY <1>7, <1>9, <2>1 DEF PrepareNoAdapter, Release
<1>10. CASE PrepareBatch(f)
  <2>1. record'.state = "processing" /\ record'.inboundBuffer = <<>> /\ ~sendLoop'
    BY <1>1, <1>10, Zenon DEF PrepareBatch, Records, Release
  <2>2. [FreeFlush EXCEPT !.stage = "chat", !.batch = record.inboundBuffer].stage = "chat"
    BY DEF FreeFlush
  <2>3. flush'[f] = [FreeFlush EXCEPT !.stage = "chat", !.batch = record.inboundBuffer]
    BY <1>4, <1>10, Zenon DEF PrepareBatch
  <2>4. ~Queued("prepare")' /\ ~Queued("drive")'
    BY <1>3, <2>2, <2>3 DEF Queued
  <2> QED
    BY <1>3, <2>1, <2>4 DEF PlaceInv
<1>11. CASE RescueLateArrivals(f)
  <2>1. record'.state = "buffering"
    BY <1>1, <1>11, Zenon DEF RescueLateArrivals, Records
  <2>3. flush' = [flush EXCEPT ![f] = FreeFlush] /\ ~sendLoop'
    BY <1>11 DEF RescueLateArrivals, Release
  <2> QED
    BY <1>7, <2>1, <2>3
<1>12. CASE EndFailedTurn(f)
  <2>1. record'.inboundBuffer = record.inboundBuffer
    BY <1>1, <1>12, Zenon DEF EndFailedTurn, Records
  <2> QED
    BY <1>6, <1>7, <1>12, <2>1 DEF EndFailedTurn, Release, HoldsSegment
<1>13. CASE Rebatch(f)
  <2>1. record'.state = "buffering"
    BY <1>1, <1>13, Zenon DEF Rebatch, Records
  <2>3. flush' = [flush EXCEPT ![f] = FreeFlush] /\ ~sendLoop'
    BY <1>13 DEF Rebatch, Release
  <2> QED
    BY <1>7, <2>1, <2>3
<1>14. CASE EndSilentTurn(f)
  <2>1. Outcome(record) /\ record'.state \in {"idle", "buffering"}
    BY <1>1, <1>14, FinalizeOutcome, FinalizedState DEF EndSilentTurn, FinalizeTurn
  <2>2. record'.inboundBuffer # <<>> => record'.state = "buffering"
    BY <1>6, <1>14, <2>1 DEF EndSilentTurn, HoldsSegment, Outcome, Stays, Ends, Folds
  <2>3. flush' = [flush EXCEPT ![f] = FreeFlush] /\ ~sendLoop'
    BY <1>14 DEF EndSilentTurn, Release
  <2> QED
    BY <1>7, <2>2, <2>3
<1>15. CASE AttachQueue(f)
  <2>1. record'.state = "sending" /\ record'.inboundBuffer = record.inboundBuffer
    BY <1>1, <1>15, Zenon DEF AttachQueue, Records
  <2>2. flush'[f] = [FreeFlush EXCEPT !.stage = "drive"]
    BY <1>4, <1>15, Zenon DEF AttachQueue
  <2>3. flush'[f].stage = "drive"
    BY <2>2 DEF FreeFlush
  <2>4. Turns' = {} /\ ~Queued("prepare")'
    BY <1>3, <2>3 DEF Turns, Queued
  <2> QED
    BY <1>3, <1>6, <1>15, <2>1, <2>4 DEF AttachQueue, HoldsSegment, PlaceInv
<1>16. CASE DriveDelivery(f)
  <2>1. flush'[f].stage = "free"
    BY <1>4, <1>5, <1>16 DEF DriveDelivery
  <2>2. Turns' = {} /\ ~Queued("prepare")' /\ ~Queued("drive")' /\ Queued("drive")
    BY <1>3, <1>16, <2>1 DEF Turns, Queued, DriveDelivery, HoldsSegment
  <2> QED
    BY <1>2, <1>3, <1>16, <2>2 DEF DriveDelivery, BullInv, PlaceInv, HasAdapter
<1>17. ~FallThroughAtCap(f) /\ ~ForceIdle(f)
  BY FallsNowhere DEF BullInv
<1> QED
  BY <1>8, <1>9, <1>10, <1>11, <1>12, <1>13, <1>14, <1>15, <1>16, <1>17
     DEF Segment, EndAtPrepare

LEMMA ChatStepPlace ==
  ASSUME BullInv, NEW f \in Flushes, ChatStep(f)
  PROVE  PlaceInv'
<1>1. /\ UNCHANGED <<record, bufferTimer, sendLoop, deployment>> /\ flush[f].stage = "chat"
      /\ \A g \in Flushes : g # f => flush'[g] = flush[g]
  BY BullTypes, ChatStepIsJobStep DEF JobStep, ChatStep, ChatReplies, ChatRejects, ChatSettles
<1>2. flush'[f].stage \in {"decide", "rescue"}
  BY BullTypes, ChatStepStage
<1>3. Turns' = Turns /\ Queued("prepare")' = Queued("prepare") /\ Queued("drive")' = Queued("drive")
  BY <1>1, <1>2 DEF Turns, Queued
<1> QED
  BY <1>1, <1>3 DEF BullInv, PlaceInv, HasAdapter

LEMMA BufferTimerPlace ==
  ASSUME BullInv, NEW f \in Flushes, BufferTimerFires(f)
  PROVE  PlaceInv'
<1>1. /\ UNCHANGED <<record, sendLoop, deployment>> /\ flush[f].stage = "free" /\ bufferTimer
      /\ flush'[f].stage = "prepare" /\ \A g \in Flushes : g # f => flush'[g] = flush[g]
  BY BullTypes, BufferTimerStage DEF BufferTimerFires
<1>2. Turns' = Turns /\ Queued("drive")' = Queued("drive")
  BY <1>1 DEF Turns, Queued
<1> QED
  BY <1>1, <1>2 DEF BullInv, PlaceInv, HasAdapter

LEMMA DeliveryPlace ==
  ASSUME BullInv, SendStep \/ Status \/ Timer
  PROVE  PlaceInv'
<1>1. DeliveryStep
  BY BullTypes, SendStepDelivers, StatusDelivers, TimerDelivers
<1>2. Outcome(record) /\ UNCHANGED <<flush, deployment>>
  BY <1>1, BullTypes, DeliveryOutcome DEF DeliveryStep
<1>3. CASE record.state = "processing" \/ Queued("drive")
  BY <1>2, <1>3, DeliveryAlone, PlaceKept
<1>4. CASE record.state # "processing" /\ ~Queued("drive")
  <2>1. /\ Turns' = {} /\ Queued("prepare")' = Queued("prepare") /\ ~Queued("drive")'
    BY <1>2, <1>4 DEF Turns, Queued, BullInv, PlaceInv
  <2>2. CASE Stays(record)
    BY <1>2, <1>4, <2>1, <2>2 DEF Stays, BullInv, PlaceInv, HasAdapter
  <2>3. CASE Ends(record)
    <3>1. record.state # "buffering"
      BY <2>3 DEF Ends, Rebuffered, BullInv, EffortInv, BufferingHasInput
    <3> QED
      BY <1>2, <2>1, <2>3, <3>1 DEF Ends, BullInv, PlaceInv, HasAdapter
  <2>4. CASE Folds(record)
    BY <2>1, <2>4 DEF Folds, PlaceInv
  <2> QED
    BY <1>2, <2>2, <2>3, <2>4 DEF Outcome
<1> QED
  BY <1>3, <1>4

-----------------------------------------------------------------------------
(* What is chained *)

\* An operation settles, an operation is chained: the chain moves by one.
LEMMA TailOps ==
  ASSUME TypeInv, chain # <<>>, chain' = Tail(chain)
  PROVE  \A i \in DOMAIN chain' : i + 1 \in DOMAIN chain /\ chain'[i] = chain[i + 1] /\ i \in Nat \ {0}
  BY DEF TypeInv, TypeOK

LEMMA AppendOps ==
  ASSUME TypeInv, NEW o \in Operations, chain' = Append(chain, o)
  PROVE  \A i \in DOMAIN chain' : \/ i \in DOMAIN chain /\ chain'[i] = chain[i]
                                  \/ i = Len(chain) + 1 /\ chain'[i] = o /\ \A j \in DOMAIN chain : j < i
  BY DEF TypeInv, TypeOK

\* A step that is none of a flush: the chain stays, moves up, or grows by an
\* operation that is no segment.
LEMMA ChainKept ==
  ASSUME BullInv, \A f \in Flushes : flush'[f].stage = flush[f].stage,
         \/ UNCHANGED chain /\ (sendLoop => sendLoop')
         \/ chain # <<>> /\ Release
         \/ \E o \in Operations :
              /\ Enqueue(o) /\ UNCHANGED sendLoop
              /\ o.op # "segment"
              /\ o.op = "timeout" => Segments = {} /\ ~Busy
  PROVE  ChainInv'
<1>1. TypeInv /\ ChainInv
  BY BullTypes DEF BullInv
<1>2. \A i \in DOMAIN chain : chain[i].op = "segment" => chain[i].flush \in Flushes
  BY <1>1, OperationType DEF TypeInv, TypeOK
<1>3. Busy' = Busy
  BY DEF Busy
<1>4. CASE UNCHANGED chain /\ (sendLoop => sendLoop')
  <2>1. Segments' = Segments /\ Timeouts' = Timeouts
    BY <1>4 DEF Segments, Timeouts
  <2> QED
    BY <1>1, <1>2, <1>3, <1>4, <2>1 DEF ChainInv, Segments
<1>5. CASE chain # <<>> /\ Release
  <2>1. \A i \in DOMAIN chain' : i + 1 \in DOMAIN chain /\ chain'[i] = chain[i + 1] /\ i \in Nat \ {0}
    BY <1>1, <1>5, TailOps DEF Release
  <2>2. /\ \A i \in Segments' : i + 1 \in Segments /\ i \in Nat \ {0} /\ chain'[i] = chain[i + 1]
        /\ \A i \in Timeouts' : i + 1 \in Timeouts /\ i \in Nat \ {0}
    BY <2>1 DEF Segments, Timeouts
  <2> QED
    BY <1>1, <1>2, <1>3, <2>2 DEF ChainInv, Segments
<1>6. ASSUME NEW o \in Operations, Enqueue(o), UNCHANGED sendLoop, o.op # "segment",
             o.op = "timeout" => Segments = {} /\ ~Busy
      PROVE  ChainInv'
  <2>1. \A i \in DOMAIN chain' : \/ i \in DOMAIN chain /\ chain'[i] = chain[i]
                                 \/ i = Len(chain) + 1 /\ chain'[i] = o
    BY <1>1, <1>6, AppendOps DEF Enqueue
  <2>2. /\ \A i \in Segments' : i \in Segments /\ chain'[i] = chain[i]
        /\ \A i \in Timeouts' : i \in Timeouts \/ o.op = "timeout"
    BY <1>6, <2>1 DEF Segments, Timeouts
  <2> QED
    BY <1>1, <1>2, <1>3, <1>6, <2>2 DEF ChainInv, Segments
<1> QED
  BY <1>4, <1>5, <1>6

\* No operation is a segment, and no delivery timeout is behind one: what a flush
\* leaves when its segment settles.
LEMMA HoldsAlone ==
  ASSUME BullInv, NEW f \in Flushes, NEW stage, HoldsSegment(f, stage)
  PROVE  chain # <<>> /\ ~sendLoop /\ Segments = {1} /\ Timeouts = {}
<1>1. TypeInv /\ ChainInv
  BY BullTypes DEF BullInv
<1>2. chain # <<>> /\ ~sendLoop /\ chain[1].op = "segment" /\ 1 \in DOMAIN chain
  BY <1>1 DEF HoldsSegment, Holds, TypeInv, TypeOK
<1>3. 1 \in Segments /\ \A j \in Timeouts : j \in Nat \ {0}
  BY <1>1, <1>2 DEF Segments, Timeouts, TypeInv, TypeOK
<1> QED
  BY <1>1, <1>2, <1>3 DEF ChainInv

LEMMA SegmentChain ==
  ASSUME BullInv, NEW f \in Flushes, Segment(f)
  PROVE  ChainInv'
<1>1. TypeInv /\ chain \in Seq(Operations)
  BY BullTypes
<1>0. ~FallThroughAtCap(f) /\ ~ForceIdle(f)
  BY FallsNowhere DEF BullInv
<1>2. PICK stage : HoldsSegment(f, stage)
  BY <1>0 DEF Segment, EndAtPrepare, PrepareNothing, PrepareNoAdapter, PrepareBatch,
     RescueLateArrivals, EndFailedTurn, Rebatch, EndSilentTurn, AttachQueue, DriveDelivery
<1>3. /\ chain # <<>> /\ ~sendLoop /\ Segments = {1} /\ Timeouts = {}
      /\ \A i \in DOMAIN chain : i # 1 => chain[i].op \notin {"segment", "timeout"}
  BY <1>2, HoldsAlone DEF Segments, Timeouts
<1>4. CASE Release
  <2>1. \A i \in DOMAIN chain' : i + 1 \in DOMAIN chain /\ chain'[i] = chain[i + 1] /\ i \in Nat \ {0}
    BY <1>1, <1>3, <1>4, TailOps DEF Release
  <2>2. \A i \in DOMAIN chain' : chain'[i].op \notin {"segment", "timeout"}
    BY <1>3, <2>1
  <2> QED
    BY <2>2 DEF ChainInv, Segments, Timeouts
<1>5. CASE AttachQueue(f)
  <2> DEFINE o == [op |-> "segment", flush |-> f]
             rest == Tail(chain)
  <2>1. rest \in Seq(Operations) /\ \A i \in DOMAIN rest : rest[i].op \notin {"segment", "timeout"}
    BY <1>1, <1>3
  <2>2. o \in Operations /\ o.op = "segment" /\ o.flush = f
    BY DEF Operations
  <2>3. chain' = Append(rest, o)
    BY <1>5, Zenon DEF AttachQueue
  <2> HIDE DEF o, rest
  <2>4. \A i \in DOMAIN chain' : \/ i = Len(rest) + 1 /\ chain'[i] = o
                                 \/ chain'[i].op \notin {"segment", "timeout"}
    BY <2>1, <2>2, <2>3
  <2>5. flush'[f] = [FreeFlush EXCEPT !.stage = "drive"]
    BY <1>1, <1>5, FlushAt, Zenon DEF AttachQueue
  <2>6. flush'[f].stage = "drive"
    BY <2>5 DEF FreeFlush
  <2> QED
    BY <2>2, <2>4, <2>6 DEF ChainInv, Segments, Timeouts
<1>6. CASE DriveDelivery(f)
  <2>1. UNCHANGED chain /\ sendLoop'
    BY <1>6 DEF DriveDelivery, ContinueSending
  <2>2. Segments' = {1} /\ Timeouts' = {}
    BY <1>3, <2>1 DEF Segments, Timeouts
  <2> QED
    BY <2>1, <2>2 DEF ChainInv
<1> QED
  BY <1>0, <1>4, <1>5, <1>6 DEF Segment, EndAtPrepare, PrepareNothing, PrepareNoAdapter,
     PrepareBatch, RescueLateArrivals, EndFailedTurn, Rebatch, EndSilentTurn

\* A flush that waits for no lock, and no other: no segment is chained.
LEMMA NoneChained ==
  ASSUME BullInv, NEW f \in Flushes, flush[f].stage \in {"chat", "free"},
         \A g \in Flushes : g # f => flush[g].stage = "free", ~Driving
  PROVE  Segments = {}
<1>1. TypeInv /\ ChainInv /\ chain \in Seq(Operations)
  BY BullTypes DEF BullInv
<1>2. \A i \in DOMAIN chain : chain[i].op = "segment" => chain[i].flush \in Flushes
  BY <1>1, OperationType
<1>3. 1 \in Segments => ~sendLoop
  BY <1>1 DEF Segments, Driving
<1> QED
  BY <1>1, <1>2, <1>3 DEF ChainInv, Segments

\* A flush chains its next segment.
LEMMA ChainGrows ==
  ASSUME BullInv, Segments = {}, NEW f \in Flushes, Enqueue([op |-> "segment", flush |-> f]),
         flush'[f].stage \in {"prepare", "decide", "rescue"}, Busy' => Timeouts = {}
  PROVE  ChainInv'
<1> DEFINE o == [op |-> "segment", flush |-> f]
<1>1. o \in Operations /\ o.op = "segment" /\ o.flush = f
  BY DEF Operations
<1>2. chain' = Append(chain, o)
  BY DEF Enqueue
<1> HIDE DEF o
<1>3. \A i \in DOMAIN chain' : \/ i \in DOMAIN chain /\ chain'[i] = chain[i]
                               \/ i = Len(chain) + 1 /\ chain'[i] = o /\ \A j \in DOMAIN chain : j < i
  BY <1>1, <1>2, AppendOps, BullTypes
<1>4. /\ \A i \in Segments' : i = Len(chain) + 1 /\ chain'[i] = o /\ \A j \in DOMAIN chain : j < i
      /\ Timeouts' \subseteq Timeouts
  BY <1>1, <1>3 DEF Segments, Timeouts
<1>5. Timeouts \subseteq DOMAIN chain
  BY DEF Timeouts
<1> QED
  BY <1>1, <1>4, <1>5 DEF ChainInv

LEMMA ChatStepChain ==
  ASSUME BullInv, NEW f \in Flushes, ChatStep(f)
  PROVE  ChainInv'
<1>1. /\ flush[f].stage = "chat" /\ flush'[f].stage \in {"decide", "rescue"}
      /\ Enqueue([op |-> "segment", flush |-> f])
  BY BullTypes, ChatStepStage DEF ChatStep, ChatReplies, ChatRejects, ChatSettles
<1>2. ~Driving /\ \A g \in Flushes : g # f => flush[g].stage = "free"
  BY <1>1, AliveAlone DEF Alive
<1>3. Segments = {}
  BY <1>1, <1>2, NoneChained
<1>4. Timeouts = {}
  BY <1>1 DEF BullInv, ChainInv, Busy
<1> QED
  BY <1>1, <1>3, <1>4, ChainGrows

LEMMA BufferTimerChain ==
  ASSUME BullInv, NEW f \in Flushes, BufferTimerFires(f)
  PROVE  ChainInv'
<1>1. /\ flush[f].stage = "free" /\ flush'[f].stage = "prepare" /\ bufferTimer
      /\ Enqueue([op |-> "segment", flush |-> f])
      /\ \A g \in Flushes : g # f => flush'[g] = flush[g]
  BY BullTypes, BufferTimerStage DEF BufferTimerFires
<1>2. ~Driving /\ \A g \in Flushes : flush[g].stage = "free"
  BY <1>1 DEF BullInv, JobInv, OneJob, JobActive, Driving
<1>3. Segments = {}
  BY <1>1, <1>2, NoneChained
<1>4. ~Busy'
  BY <1>1, <1>2 DEF Busy
<1> QED
  BY <1>1, <1>3, <1>4, ChainGrows

\* A delivery timer fires for an item in flight: no flush is alive.
LEMMA DeliveryTimerChain ==
  ASSUME BullInv, NEW i \in deliveryTimeouts, DeliveryTimerFires(i)
  PROVE  ChainInv'
<1> DEFINE o == [op |-> "timeout", messageIndex |-> i]
<1>1. TypeInv /\ chain \in Seq(Operations)
  BY BullTypes
<1>2. o \in Operations /\ o.op = "timeout"
  BY <1>1 DEF Operations, TypeInv, TypeOK
<1>3. Enqueue(o) /\ UNCHANGED <<sendLoop, flush>>
  BY DEF DeliveryTimerFires
<1> HIDE DEF o
<1>4. /\ record.currentOutboundMessageId # None /\ ~Queued("drive") /\ ~sendLoop
      /\ record.state = "sending"
  BY DEF BullInv, FlightInv
<1>5. ~Busy /\ ~Queued("prepare")
  BY <1>4 DEF BullInv, PlaceInv, Busy, Turns, Queued
<1>6. Segments = {}
  <2>1. \A j \in DOMAIN chain : chain[j].op = "segment" => chain[j].flush \in Flushes
    BY <1>1, OperationType
  <2> QED
    BY <1>4, <1>5, <2>1 DEF BullInv, ChainInv, Segments, Busy, Queued
<1> QED
  BY <1>2, <1>3, <1>5, <1>6, ChainKept

LEMMA WebhookChains ==
  ASSUME Webhook, TypeInv
  PROVE  /\ UNCHANGED <<record, handles, flush, sendLoop, bufferTimer, timers, deployment>>
         /\ \E o \in Operations : Enqueue(o) /\ o.op \in {"inbound", "status"}
<1>1. ASSUME NEW m \in Messages \union Echoes, ReceiveInbound(m)
      PROVE  \E o \in Operations : Enqueue(o) /\ o.op \in {"inbound", "status"}
  <2>1. [op |-> "inbound", message |-> m] \in Operations
    BY DEF Operations
  <2> QED
    BY <1>1, <2>1 DEF ReceiveInbound
<1>2. ASSUME NEW h \in handles, NEW s \in Statuses, ReceiveStatus(h, s)
      PROVE  \E o \in Operations : Enqueue(o) /\ o.op \in {"inbound", "status"}
  <2>1. [op |-> "status", id |-> h.id, status |-> s] \in Operations
    BY DEF Operations, TypeInv, TypeOK
  <2> QED
    BY <1>2, <2>1 DEF ReceiveStatus
<1> QED
  BY <1>1, <1>2 DEF Webhook, ReceiveInbound, ReceiveStatus

LEMMA RetryTimerChains ==
  ASSUME TypeInv, NEW t \in transientRetryTimers, RetryTimerFires(t)
  PROVE  /\ UNCHANGED <<record, handles, flush, sendLoop, bufferTimer, deliveryTimeouts, deployment>>
         /\ transientRetryTimers' = {}
         /\ \E o \in Operations : Enqueue(o) /\ o.op = "retry" /\ o.timer = t
<1>1. [op |-> "retry", timer |-> t] \in Operations
  BY DEF Operations, TypeInv, TypeOK
<1> QED
  BY <1>1 DEF RetryTimerFires

\* The holder of the lock settles its operation or goes on in the send loop.
LEMMA DeliveryLock ==
  ASSUME TypeInv, SendStep \/ Status \/ Timer
  PROVE  chain # <<>> /\ (Release \/ ContinueSending)
<1>1. ASSUME SendStep PROVE chain # <<>>
  BY <1>1 DEF SendStep, SendLoopEnds, SendFireAndForget, SendOnSend, SendOnStatus,
     SendFailsTransient, SendSkips, SendFindsWindowClosed, Sending, TypeInv, LockIsHeld
<1>2. ASSUME Status \/ Timer PROVE chain # <<>>
  BY <1>2 DEF Status, DropStatus, NoteStatus, StatusAdvances, StatusFailsTransient, StatusSkips,
     StatusFindsWindowClosed, StatusFails, HoldsStatus, Holds, Timer, TimeoutAdvances,
     DropTimeout, RetrySends, DropRetry
<1>3. ASSUME NEW r, NEW armed, HandleWindowClosed(r, armed)
      PROVE  Release \/ ContinueSending
  BY <1>3, Zenon DEF HandleWindowClosed, AdvanceAndContinue
<1>4. ASSUME SendStep PROVE Release \/ ContinueSending
  BY <1>3, <1>4, Zenon DEF SendStep, SendLoopEnds, SendFireAndForget, SendOnSend, SendOnStatus,
     SendFailsTransient, SendSkips, SendFindsWindowClosed, AdvanceAndContinue, ScheduleRetry
<1>5. ASSUME Status PROVE Release \/ ContinueSending
  BY <1>3, <1>5, Zenon DEF Status, DropStatus, NoteStatus, StatusAdvances, StatusFailsTransient,
     StatusSkips, StatusFindsWindowClosed, AdvanceAndContinue, ScheduleRetry
<1>6. ASSUME Timer PROVE Release \/ ContinueSending
  BY <1>6, Zenon DEF Timer, TimeoutAdvances, DropTimeout, RetrySends, DropRetry,
     AdvanceAndContinue
<1> QED
  BY <1>1, <1>2, <1>4, <1>5, <1>6

LEMMA StepChain ==
  ASSUME BullInv, [Next]_vars
  PROVE  ChainInv'
<1>1. TypeInv
  BY BullTypes
<1>2. CASE UNCHANGED vars
  BY <1>2, ChainKept DEF vars
<1>3. CASE Webhook
  BY <1>1, <1>3, WebhookChains, ChainKept
<1>4. CASE Inbound
  <2>1. chain # <<>> /\ Release
    BY <1>4 DEF Inbound, DropInbound, BufferInbound, StashLateArrival, InterruptSending,
       AcceptInbound, Holds
  <2> QED
    BY <1>1, <1>4, <2>1, InboundNoJob, ChainKept DEF StartsNoJob
<1>5. CASE SendStep \/ Status \/ Timer
  <2>1. StartsNoJob
    BY <1>1, <1>5, SendStepNoJob, StatusNoJob, TimerNoJob
  <2> QED
    BY <1>1, <1>5, <2>1, DeliveryLock, ChainKept DEF StartsNoJob, ContinueSending
<1>6. ASSUME NEW t \in transientRetryTimers, RetryTimerFires(t)
      PROVE  ChainInv'
  BY <1>1, <1>6, RetryTimerChains, ChainKept
<1> QED
  BY <1>2, <1>3, <1>4, <1>5, <1>6, SegmentChain, ChatStepChain, BufferTimerChain,
     DeliveryTimerChain DEF Next, LockStep, TimerFires

-----------------------------------------------------------------------------
(* What is armed *)

LEMMA RetryKept ==
  ASSUME RetryInv, Chained' \subseteq Chained, transientRetryTimers' \subseteq transientRetryTimers
  PROVE  RetryInv'
  BY DEF RetryInv

LEMMA RetryGrows ==
  ASSUME TypeInv, RetryInv, NEW o \in Operations, Enqueue(o),
         transientRetryTimers' \subseteq transientRetryTimers,
         o.op = "retry" => o.timer \in transientRetryTimers
  PROVE  RetryInv'
  BY EnqueueChained DEF RetryInv

LEMMA HandleWindowClosedTimers ==
  ASSUME NEW r, NEW armed, HandleWindowClosed(r, armed)
  PROVE  transientRetryTimers' \in {{}, transientRetryTimers}
  BY Zenon DEF HandleWindowClosed, AdvanceAndContinue, FinalizeTurn

LEMMA RetryArmed ==
  ASSUME RetryInv, Chained' \subseteq Chained,
         NEW r, NEW item, NEW attempt \in Nat \ {0}, ScheduleRetry(r, item, attempt)
  PROVE  RetryInv'
<1> DEFINE timer == [item |-> item.id, attempt |-> attempt]
<1>1. transientRetryTimers' = {timer} /\ timer.attempt = attempt
  BY DEF ScheduleRetry
<1> QED
  BY <1>1 DEF RetryInv

LEMMA DeliveryRetry ==
  ASSUME TypeInv, RetryInv, SendStep \/ Status \/ Timer
  PROVE  RetryInv'
<1>1. chain # <<>> /\ chain \in Seq(Operations) /\ record \in Records
  BY DeliveryLock DEF TypeInv, TypeOK
<1>2. Chained' \subseteq Chained
  BY <1>1, DeliveryLock, ReleaseChained DEF ContinueSending, Chained
<1>3. ASSUME NEW item, SendFailsTransient(item)
      PROVE  RetryInv'
  <2>1. item \in Items
    BY <1>1, <1>3, CurrentItemType DEF SendFailsTransient, Sending
  <2>2. item.retryCount + 1 \in Nat \ {0}
    BY <2>1 DEF Items
  <2> QED
    BY <1>2, <1>3, <2>2, RetryArmed DEF SendFailsTransient
<1>4. ASSUME NEW h \in handles, StatusFailsTransient(h)
      PROVE  RetryInv'
  <2> DEFINE item == CurrentItem(record.outboundQueue, record.currentOutboundIndex)
             attempt == item.asyncFailRetryCount + 1
             failed == [item EXCEPT !.asyncFailRetryCount = attempt, !.channelMessageId = None]
             unsent == [record EXCEPT !.currentOutboundMessageId = None]
  <2>1. item \in Items
    BY <1>1, <1>4, CurrentItemType DEF StatusFailsTransient, MayRetryAsync
  <2>2. attempt \in Nat \ {0}
    BY <2>1 DEF Items
  <2>3. ScheduleRetry(unsent, failed, attempt)
    BY <1>4, Zenon DEF StatusFailsTransient
  <2> HIDE DEF unsent, failed, attempt
  <2> QED
    BY <1>2, <2>2, <2>3, RetryArmed
<1>5. ASSUME transientRetryTimers' \in {{}, transientRetryTimers}
      PROVE  RetryInv'
  BY <1>2, <1>5, RetryKept
<1>6. ASSUME NEW item, \/ SendFireAndForget(item) \/ SendOnSend(item) \/ SendOnStatus(item)
                       \/ SendSkips(item) \/ SendFindsWindowClosed(item)
      PROVE  RetryInv'
  BY <1>5, <1>6, HandleWindowClosedTimers, Zenon DEF SendFireAndForget, SendOnSend, SendOnStatus,
     SendSkips, SendFindsWindowClosed, AdvanceAndContinue
<1>7. ASSUME SendStep PROVE RetryInv'
  BY <1>3, <1>5, <1>6, <1>7, Zenon DEF SendStep, SendLoopEnds, FinalizeTurn
<1>8. ASSUME Status PROVE RetryInv'
  BY <1>4, <1>5, <1>8, HandleWindowClosedTimers DEF Status, DropStatus, NoteStatus,
     StatusAdvances, StatusSkips, StatusFindsWindowClosed, AdvanceAndContinue, timers
<1>9. ASSUME Timer PROVE RetryInv'
  BY <1>5, <1>9 DEF Timer, TimeoutAdvances, DropTimeout, RetrySends, DropRetry,
     AdvanceAndContinue, timers
<1> QED
  BY <1>7, <1>8, <1>9

LEMMA StepRetry ==
  ASSUME TypeInv, RetryInv, [Next]_vars
  PROVE  RetryInv'
<1>1. CASE UNCHANGED vars
  BY <1>1, RetryKept DEF vars, timers, Chained
<1>2. CASE Webhook
  BY <1>2, WebhookChains, RetryGrows DEF timers
<1>3. CASE Inbound
  <2>1. chain # <<>> /\ Release /\ transientRetryTimers' \subseteq transientRetryTimers
    BY <1>3 DEF Inbound, DropInbound, BufferInbound, StashLateArrival, InterruptSending,
       AcceptInbound, Holds, timers
  <2> QED
    BY <2>1, ReleaseChained, RetryKept
<1>4. ASSUME NEW f \in Flushes, Segment(f)
      PROVE  RetryInv'
  <2>1. CASE AttachQueue(f) \/ FallThroughAtCap(f)
    <3> DEFINE o == [op |-> "segment", flush |-> f]
               rest == Tail(chain)
    <3>1. chain \in Seq(Operations) /\ chain # <<>> /\ rest \in Seq(Operations)
      BY <2>1 DEF AttachQueue, FallThroughAtCap, HoldsSegment, Holds, TypeInv, TypeOK
    <3>2. o \in Operations /\ o.op = "segment"
      BY DEF Operations
    <3>3. chain' = Append(rest, o) /\ UNCHANGED transientRetryTimers
      BY <2>1 DEF AttachQueue, FallThroughAtCap, timers
    <3>4. Range(rest) \subseteq Chained
      BY <3>1, HeadTailRange DEF Chained
    <3> HIDE DEF o, rest
    <3>6. Range(Append(rest, o)) = Range(rest) \union {o}
      BY <3>1, <3>2, AppendRange
    <3>7. Chained' = Range(rest) \union {o}
      BY <3>3, <3>6 DEF Chained
    <3>5. \A p \in Chained' : p.op = "retry" => p.timer.attempt # 0
      BY <3>2, <3>4, <3>7 DEF RetryInv
    <3> QED
      BY <3>3, <3>5 DEF RetryInv
  <2>2. CASE Release /\ transientRetryTimers' \subseteq transientRetryTimers /\ chain # <<>>
    BY <2>2, ReleaseChained, RetryKept
  <2>3. CASE DriveDelivery(f)
    BY <2>3, RetryKept DEF DriveDelivery, ContinueSending, timers, Chained
  <2> QED
    BY <1>4, <2>1, <2>2, <2>3 DEF Segment, EndAtPrepare, PrepareNothing, PrepareNoAdapter,
       PrepareBatch, RescueLateArrivals, EndFailedTurn, Rebatch, EndSilentTurn, ForceIdle,
       FinalizeTurn, HoldsSegment, Holds, timers
<1>5. ASSUME NEW f \in Flushes, ChatStep(f) \/ BufferTimerFires(f)
      PROVE  RetryInv'
  <2> DEFINE o == [op |-> "segment", flush |-> f]
  <2>1. o \in Operations /\ o.op = "segment"
    BY DEF Operations
  <2>2. Enqueue(o) /\ UNCHANGED transientRetryTimers
    BY <1>5 DEF ChatStep, ChatReplies, ChatRejects, ChatSettles, BufferTimerFires, timers
  <2> HIDE DEF o
  <2> QED
    BY <2>1, <2>2, RetryGrows
<1>6. ASSUME NEW i \in deliveryTimeouts, DeliveryTimerFires(i)
      PROVE  RetryInv'
  <2> DEFINE o == [op |-> "timeout", messageIndex |-> i]
  <2>1. o \in Operations /\ o.op = "timeout"
    BY DEF Operations, TypeInv, TypeOK
  <2>2. Enqueue(o) /\ UNCHANGED transientRetryTimers
    BY <1>6 DEF DeliveryTimerFires
  <2> HIDE DEF o
  <2> QED
    BY <2>1, <2>2, RetryGrows
<1>7. ASSUME NEW t \in transientRetryTimers, RetryTimerFires(t)
      PROVE  RetryInv'
  BY <1>7, RetryTimerChains, RetryGrows
<1> QED
  BY <1>1, <1>2, <1>3, <1>4, <1>5, <1>6, <1>7, DeliveryRetry DEF Next, LockStep, TimerFires

-----------------------------------------------------------------------------
(* The steps of the queue *)

Settled(y) == y.skipped \/ y.channelMessageId # None \/ (y.kind = "reaction" /\ y.attempts > 0)

\* The item at the cursor becomes y: it is the same item, sent once more at most,
\* and then nothing of it was in flight.
Tries(y) ==
  /\ ~Completed(record)
  /\ record'.outboundQueue = UpdateCurrent(record.outboundQueue, record.currentOutboundIndex, y)
  /\ \/ y.attempts = AtCursor(record).attempts
     \/ /\ y.attempts = AtCursor(record).attempts + 1
        /\ AtCursor(record).channelMessageId = None
        /\ record.state = "sending"

SameQueue ==
  /\ record'.outboundQueue = record.outboundQueue
  /\ record'.currentOutboundIndex = record.currentOutboundIndex

\* The queue stays, is emptied, or is that of a reply; the item at the cursor is
\* tried, or passed, or the cursor moves past the end.
QueueStep ==
  \/ SameQueue
  \/ record'.outboundQueue = <<>> /\ record'.currentOutboundIndex = 0
  \/ /\ \E reply \in Seq(Kinds), last \in Nat :
          record'.outboundQueue = BuildOutboundItems(reply, last)
     /\ record'.currentOutboundIndex = 0
  \/ /\ Completed(record)
     /\ record'.outboundQueue = record.outboundQueue
     /\ record'.currentOutboundIndex = record.currentOutboundIndex + 1
  \/ \E y \in Items :
       /\ Tries(y)
       /\ \/ /\ record'.currentOutboundIndex = record.currentOutboundIndex
             /\ Due(y) \/ Sent(y)
          \/ /\ record'.currentOutboundIndex = record.currentOutboundIndex + 1
             /\ Within(y)
             /\ Settled(y) \/ Holds("timeout")

LEMMA RecordQueue ==
  ASSUME NEW r \in Records
  PROVE  /\ r.outboundQueue \in Seq(Items) /\ r.currentOutboundIndex \in Nat
         /\ r.currentOutboundMessageId \in Nat
  BY DEF Records

LEMMA UpdatedQueue ==
  ASSUME NEW q \in Seq(Items), NEW c \in Nat, ~IsQueueComplete(q, c), NEW x \in Items,
         NEW u, u = UpdateCurrent(q, c, x)
  PROVE  /\ u \in Seq(Items) /\ Len(u) = Len(q) /\ DOMAIN u = DOMAIN q
         /\ c + 1 \in DOMAIN q /\ ~IsQueueComplete(u, c) /\ CurrentItem(u, c) = x
         /\ \A i \in DOMAIN q : u[i] = IF i = c + 1 THEN x ELSE q[i]
         /\ \A y \in Items : UpdateCurrent(u, c, y) = UpdateCurrent(q, c, y)
  BY DEF IsQueueComplete, UpdateCurrent, CurrentItem

LEMMA WithCurrentQueue ==
  ASSUME NEW r \in Records, NEW x
  PROVE  /\ WithCurrent(r, x).outboundQueue
              = UpdateCurrent(r.outboundQueue, r.currentOutboundIndex, x)
         /\ WithCurrent(r, x).currentOutboundIndex = r.currentOutboundIndex
         /\ WithCurrent(r, x).currentOutboundMessageId = r.currentOutboundMessageId
         /\ WithCurrent(r, x).state = r.state
  BY Zenon DEF WithCurrent, Records

LEMMA AdvancedQueue ==
  ASSUME NEW r \in Records
  PROVE  /\ AdvancedRecord(r).outboundQueue = r.outboundQueue
         /\ AdvancedRecord(r).currentOutboundIndex = r.currentOutboundIndex + 1
         /\ AdvancedRecord(r).currentOutboundMessageId = None
         /\ AdvancedRecord(r).state = r.state
<1> DEFINE item == CurrentItem(r.outboundQueue, r.currentOutboundIndex)
           done == IsQueueComplete(r.outboundQueue, r.currentOutboundIndex)
           ids == IF ~done /\ item.channelMessageId # None /\ ~item.skipped
                  THEN r.deliveredMessageIds \union {item.channelMessageId}
                  ELSE r.deliveredMessageIds
<1>1. AdvancedRecord(r) =
        [r EXCEPT !.deliveredMessageIds = ids,
                  !.currentOutboundIndex = r.currentOutboundIndex + 1,
                  !.currentOutboundMessageId = None]
  BY DEF AdvancedRecord
<1> HIDE DEF ids
<1> QED
  BY <1>1, Zenon DEF Records

LEMMA SkippedQueue ==
  ASSUME NEW r \in Records
  PROVE  /\ SkippedRecord(r).currentOutboundIndex = r.currentOutboundIndex + 1
         /\ SkippedRecord(r).currentOutboundMessageId = None
         /\ SkippedRecord(r).state = r.state
         /\ Completed(r) => SkippedRecord(r).outboundQueue = r.outboundQueue
         /\ ~Completed(r) =>
              \E y \in Items :
                /\ y.skipped /\ y.attempts = AtCursor(r).attempts
                /\ SkippedRecord(r).outboundQueue
                     = UpdateCurrent(r.outboundQueue, r.currentOutboundIndex, y)
<1> DEFINE item == CurrentItem(r.outboundQueue, r.currentOutboundIndex)
           y == [item EXCEPT !.skipped = TRUE]
<1>1. CASE Completed(r)
  BY <1>1, AdvancedQueue DEF Completed, SkippedRecord
<1>2. CASE ~Completed(r)
  <2>1. item \in Items
    BY <1>2, CurrentItemType DEF Completed
  <2>2. y \in Items /\ y.skipped /\ y.attempts = item.attempts
    BY <2>1, TRUE \in BOOLEAN, Zenon DEF Items
  <2>3. SkippedRecord(r) = AdvancedRecord(WithCurrent(r, y))
    BY <1>2, Zenon DEF Completed, SkippedRecord
  <2> HIDE DEF y
  <2>4. WithCurrent(r, y) \in Records
    BY <2>2, WithCurrentType
  <2> QED
    BY <1>2, <2>2, <2>3, <2>4, AdvancedQueue, WithCurrentQueue DEF AtCursor
<1> QED
  BY <1>1, <1>2

LEMMA FinalizedQueue ==
  ASSUME NEW r \in Records
  PROVE  /\ \/ /\ FinalizedRecord(r).outboundQueue = r.outboundQueue
               /\ FinalizedRecord(r).currentOutboundIndex = r.currentOutboundIndex
            \/ /\ FinalizedRecord(r).outboundQueue = <<>>
               /\ FinalizedRecord(r).currentOutboundIndex = 0
         /\ FinalizedRecord(r).currentOutboundMessageId \in {None, r.currentOutboundMessageId}
<1>1. CASE r.lateArrivals # <<>>
  BY <1>1, Zenon DEF FinalizedRecord, Records
<1>2. CASE r.lateArrivals = <<>> /\ Rebuffered(r)
  BY <1>2 DEF FinalizedRecord
<1>3. CASE r.lateArrivals = <<>> /\ ~Rebuffered(r)
  BY <1>3, Zenon DEF FinalizedRecord, Records
<1> QED
  BY <1>1, <1>2, <1>3

LEMMA BuiltQueue ==
  ASSUME NEW reply \in Seq(Kinds), NEW last \in Nat
  PROVE  LET q == BuildOutboundItems(reply, last)
         IN  /\ q \in Seq(Items) /\ Len(q) = Len(reply)
             /\ \A i \in DOMAIN q : Fresh(q[i]) /\ q[i].id = last + i
<1>1. BuildOutboundItems(reply, last) \in Seq(Items)
  BY BuildType
<1>2. Len(reply) \in Nat /\ DOMAIN BuildOutboundItems(reply, last) = 1 .. Len(reply)
  BY DEF BuildOutboundItems
<1>3. \A i \in 1 .. Len(reply) : BuildOutboundItems(reply, last)[i] = NewItem(last + i, reply[i])
  BY DEF BuildOutboundItems
<1>4. \A id, kind : Fresh(NewItem(id, kind)) /\ NewItem(id, kind).id = id
  BY DEF Fresh, NewItem
<1> QED
  BY <1>1, <1>2, <1>3, <1>4

LEMMA TriedQueue ==
  ASSUME record \in Records, NEW y \in Items, Tries(y)
  PROVE  /\ Len(record'.outboundQueue) = Len(record.outboundQueue)
         /\ DOMAIN record'.outboundQueue = DOMAIN record.outboundQueue
         /\ \A i \in DOMAIN record.outboundQueue :
              record'.outboundQueue[i]
                = IF i = record.currentOutboundIndex + 1 THEN y ELSE record.outboundQueue[i]
<1> DEFINE q == record.outboundQueue
           c == record.currentOutboundIndex
           u == record'.outboundQueue
<1>1. q \in Seq(Items) /\ c \in Nat /\ ~IsQueueComplete(q, c) /\ u = UpdateCurrent(q, c, y)
  BY RecordQueue DEF Tries, Completed
<1> HIDE DEF q, c, u
<1>2. /\ Len(u) = Len(q) /\ DOMAIN u = DOMAIN q
      /\ \A i \in DOMAIN q : u[i] = IF i = c + 1 THEN y ELSE q[i]
  BY <1>1, UpdatedQueue
<1> QED
  BY <1>2 DEF q, c, u

\* The queue is accounted for after every such step.
LEMMA QueueStepItems ==
  ASSUME BullInv, QueueStep
  PROVE  ItemInv'
<1>1. /\ record.outboundQueue \in Seq(Items) /\ record.currentOutboundIndex \in Nat
      /\ \A i \in DOMAIN record.outboundQueue : record.outboundQueue[i] \in Items /\ i \in Nat \ {0}
  BY BullTypes, RecordQueue
<1>2. \A x \in Items : (Fresh(x) => Due(x)) /\ (Due(x) \/ Sent(x) => Within(x))
  BY FreshIsDue, SentWithin
<1>3. ItemInv
  BY DEF BullInv
<1>4. CASE SameQueue
  BY <1>3, <1>4 DEF SameQueue, ItemInv
<1>5. CASE record'.outboundQueue = <<>>
  BY <1>5 DEF ItemInv
<1>6. ASSUME NEW reply \in Seq(Kinds), NEW last \in Nat,
             record'.outboundQueue = BuildOutboundItems(reply, last),
             record'.currentOutboundIndex = 0
      PROVE  ItemInv'
  <2>1. \A i \in DOMAIN record'.outboundQueue :
          /\ i \in Nat \ {0} /\ record'.outboundQueue[i] \in Items
          /\ Fresh(record'.outboundQueue[i])
    BY <1>6, BuiltQueue
  <2> QED
    BY <1>2, <1>6, <2>1 DEF ItemInv
<1>7. CASE Completed(record) /\ record'.outboundQueue = record.outboundQueue
           /\ record'.currentOutboundIndex = record.currentOutboundIndex + 1
  BY <1>1, <1>3, <1>7 DEF Completed, IsQueueComplete, ItemInv
<1>8. ASSUME NEW y \in Items, Tries(y),
             \/ /\ record'.currentOutboundIndex = record.currentOutboundIndex
                /\ Due(y) \/ Sent(y)
             \/ /\ record'.currentOutboundIndex = record.currentOutboundIndex + 1
                /\ Within(y)
      PROVE  ItemInv'
  <2>1. /\ DOMAIN record'.outboundQueue = DOMAIN record.outboundQueue
        /\ \A i \in DOMAIN record.outboundQueue :
             record'.outboundQueue[i]
               = IF i = record.currentOutboundIndex + 1 THEN y ELSE record.outboundQueue[i]
    BY <1>8, BullTypes, TriedQueue
  <2> SUFFICES ASSUME NEW i \in DOMAIN record.outboundQueue
               PROVE  LET item == record'.outboundQueue[i]
                      IN  /\ i <= record'.currentOutboundIndex => Within(item)
                          /\ i = record'.currentOutboundIndex + 1 => Due(item) \/ Sent(item)
                          /\ i > record'.currentOutboundIndex + 1 => Fresh(item)
    BY <2>1 DEF ItemInv
  <2>2. CASE i = record.currentOutboundIndex + 1
    BY <1>1, <1>2, <1>8, <2>1, <2>2
  <2>3. CASE i # record.currentOutboundIndex + 1
    BY <1>1, <1>2, <1>3, <1>8, <2>1, <2>3 DEF ItemInv
  <2> QED
    BY <2>2, <2>3
<1> QED
  BY <1>4, <1>5, <1>6, <1>7, <1>8 DEF QueueStep

-----------------------------------------------------------------------------
(* What is in flight *)

\* A step that leaves the queue and what is in flight.
LEMMA FlightKept ==
  ASSUME BullInv, SameQueue, UNCHANGED handles, deliveryTimeouts' \subseteq deliveryTimeouts,
         record'.currentOutboundMessageId = record.currentOutboundMessageId,
         record'.state # "sending" => Completed(record),
         sendLoop' => sendLoop, Queued("drive")' => Queued("drive")
  PROVE  FlightInv'
<1>1. Completed(record)' = Completed(record) /\ AtCursor(record)' = AtCursor(record)
  BY DEF SameQueue, Completed, AtCursor
<1> QED
  BY <1>1 DEF SameQueue, BullInv, FlightInv, HandlesAreInFlight

\* Nothing is in flight and nothing left to send.
LEMMA FlightOver ==
  ASSUME record'.currentOutboundMessageId = None, Completed(record)', handles' = {},
         deliveryTimeouts' = {}, Queued("drive")' => ~sendLoop'
  PROVE  FlightInv'
  BY DEF FlightInv, HandlesAreInFlight

\* The item waits for its retry.
LEMMA FlightWaits ==
  ASSUME record'.currentOutboundMessageId = None, record'.state = "sending", handles' = {},
         deliveryTimeouts' = {}, ~Queued("drive")', ~sendLoop'
  PROVE  FlightInv'
  BY DEF FlightInv, HandlesAreInFlight

\* The item is passed: the next one was not tried yet.
LEMMA FlightAdvances ==
  ASSUME BullInv, QueueStep, ~Queued("drive"), UNCHANGED flush,
         record'.currentOutboundIndex = record.currentOutboundIndex + 1,
         record'.currentOutboundMessageId = None, record'.state = record.state,
         handles' = {}, deliveryTimeouts' = {}
  PROVE  FlightInv'
<1>1. record.outboundQueue \in Seq(Items) /\ record.currentOutboundIndex \in Nat
  BY BullTypes, RecordQueue
<1>2. ~Queued("drive")'
  BY DEF Queued
<1>3. CASE Completed(record) /\ record'.outboundQueue = record.outboundQueue
  <2>1. Completed(record)'
    BY <1>1, <1>3 DEF Completed, IsQueueComplete
  <2> QED
    BY <1>2, <2>1, FlightOver
<1>4. ASSUME NEW y \in Items, Tries(y)
      PROVE  FlightInv'
  <2>1. /\ Len(record'.outboundQueue) = Len(record.outboundQueue)
        /\ \A i \in DOMAIN record.outboundQueue :
             record'.outboundQueue[i]
               = IF i = record.currentOutboundIndex + 1 THEN y ELSE record.outboundQueue[i]
    BY <1>4, BullTypes, TriedQueue
  <2>2. ~Completed(record)' => Fresh(AtCursor(record)')
    BY <1>1, <2>1 DEF Completed, IsQueueComplete, AtCursor, CurrentItem, BullInv, ItemInv
  <2>3. record.state = "sending"
    BY <1>4 DEF Tries, BullInv, FlightInv
  <2> QED
    BY <1>2, <2>2, <2>3 DEF FlightInv, HandlesAreInFlight, Fresh
<1> QED
  BY <1>1, <1>3, <1>4 DEF QueueStep, SameQueue

\* The cursor passes the item as it is.
LEMMA PassedQueue ==
  ASSUME BullInv, record'.outboundQueue = record.outboundQueue,
         record'.currentOutboundIndex = record.currentOutboundIndex + 1,
         ~Completed(record) => Settled(AtCursor(record)) \/ Holds("timeout")
  PROVE  QueueStep
<1>1. CASE Completed(record)
  BY <1>1 DEF QueueStep
<1>2. CASE ~Completed(record)
  <2>1. record.outboundQueue \in Seq(Items) /\ record.currentOutboundIndex \in Nat
    BY BullTypes, RecordQueue
  <2>2. record.currentOutboundIndex + 1 \in DOMAIN record.outboundQueue
    BY <1>2, <2>1 DEF Completed, IsQueueComplete
  <2>3. AtCursor(record) \in Items
    BY <1>2, BullTypes
  <2>4. Due(AtCursor(record)) \/ Sent(AtCursor(record))
    BY <2>1, <2>2 DEF BullInv, ItemInv, AtCursor, CurrentItem
  <2>5. Within(AtCursor(record))
    BY <2>3, <2>4, SentWithin
  <2>6. UpdateCurrent(record.outboundQueue, record.currentOutboundIndex, AtCursor(record))
          = record.outboundQueue
    BY <1>2, <2>1, <2>2 DEF UpdateCurrent, AtCursor, CurrentItem, Completed
  <2>7. Tries(AtCursor(record))
    BY <1>2, <2>6 DEF Tries
  <2> QED
    BY <1>2, <2>3, <2>5, <2>7 DEF QueueStep
<1> QED
  BY <1>1, <1>2

LEMMA WebhookQueue ==
  ASSUME BullInv, Webhook
  PROVE  QueueStep /\ FlightInv'
<1>1. UNCHANGED <<record, handles, flush, sendLoop, deliveryTimeouts>>
  BY BullTypes, WebhookChains DEF timers
<1>2. SameQueue /\ Queued("drive")' = Queued("drive")
  BY <1>1 DEF SameQueue, Queued
<1> QED
  BY <1>1, <1>2, FlightKept DEF QueueStep, BullInv, FlightInv

LEMMA FlushMovesQueue ==
  ASSUME BullInv, NEW f \in Flushes, ChatStep(f) \/ BufferTimerFires(f)
  PROVE  QueueStep /\ FlightInv'
<1>1. UNCHANGED <<record, handles, sendLoop, deliveryTimeouts>>
  BY DEF ChatStep, ChatReplies, ChatRejects, ChatSettles, BufferTimerFires, timers
<1>2. flush'[f].stage # "drive" /\ \A g \in Flushes : g # f => flush'[g] = flush[g]
  BY BullTypes, ChatStepStage, ChatStepIsJobStep, BufferTimerStage DEF JobStep
<1>3. SameQueue /\ (Queued("drive")' => Queued("drive"))
  BY <1>1, <1>2 DEF SameQueue, Queued
<1> QED
  BY <1>1, <1>3, FlightKept DEF QueueStep, BullInv, FlightInv

LEMMA TimerFiresQueue ==
  ASSUME BullInv,
         \/ \E i \in deliveryTimeouts : DeliveryTimerFires(i)
         \/ \E t \in transientRetryTimers : RetryTimerFires(t)
  PROVE  QueueStep /\ FlightInv'
<1>1. UNCHANGED <<record, handles, flush, sendLoop>> /\ deliveryTimeouts' \subseteq deliveryTimeouts
  BY DEF DeliveryTimerFires, RetryTimerFires
<1>2. SameQueue /\ Queued("drive")' = Queued("drive")
  BY <1>1 DEF SameQueue, Queued
<1> QED
  BY <1>1, <1>2, FlightKept DEF QueueStep, BullInv, FlightInv

LEMMA InboundQueue ==
  ASSUME BullInv, Inbound
  PROVE  QueueStep /\ FlightInv'
<1>1. TypeInv /\ record \in Records
  BY BullTypes
<1>2. StartsNoJob
  BY <1>1, InboundNoJob
<1>3. Queued("drive")' = Queued("drive") /\ ~sendLoop' /\ ~sendLoop
  BY <1>2 DEF StartsNoJob, Queued, Inbound, DropInbound, BufferInbound, StashLateArrival,
     InterruptSending, AcceptInbound, Holds, Release
<1>4. ASSUME SameQueue, UNCHANGED <<handles, deliveryTimeouts>>,
             record'.currentOutboundMessageId = record.currentOutboundMessageId,
             record'.state # "sending" => Completed(record)
      PROVE  QueueStep /\ FlightInv'
  BY <1>3, <1>4, FlightKept DEF QueueStep
<1>5. record.state # "sending" => Completed(record)
  BY DEF BullInv, FlightInv
<1>6. CASE DropInbound
  BY <1>4, <1>5, <1>6 DEF DropInbound, SameQueue, timers
<1>7. CASE BufferInbound
  <2>1. /\ record'.outboundQueue = record.outboundQueue
        /\ record'.currentOutboundIndex = record.currentOutboundIndex
        /\ record'.currentOutboundMessageId = record.currentOutboundMessageId
    BY <1>1, <1>7, Zenon DEF BufferInbound, Records
  <2>2. record.state # "sending" /\ UNCHANGED <<handles, deliveryTimeouts>>
    BY <1>7 DEF BufferInbound, timers
  <2> QED
    BY <1>4, <1>5, <2>1, <2>2 DEF SameQueue
<1>8. CASE StashLateArrival
  <2>1. /\ record'.outboundQueue = record.outboundQueue
        /\ record'.currentOutboundIndex = record.currentOutboundIndex
        /\ record'.currentOutboundMessageId = record.currentOutboundMessageId
    BY <1>1, <1>8, Zenon DEF StashLateArrival, Records
  <2>2. record.state # "sending" /\ UNCHANGED <<handles, deliveryTimeouts>>
    BY <1>8 DEF StashLateArrival, timers
  <2> QED
    BY <1>4, <1>5, <2>1, <2>2 DEF SameQueue
<1>9. CASE InterruptSending
  <2>1. /\ record'.outboundQueue = <<>> /\ record'.currentOutboundIndex = 0
        /\ record'.currentOutboundMessageId = None
    BY <1>1, <1>9, Zenon DEF InterruptSending, InterruptedRecord, Records
  <2>2. \A h \in handles : h.id = record.currentOutboundMessageId
    BY HandleIsSent
  <2>3. handles' = {} /\ deliveryTimeouts' = {}
    BY <1>9, <2>2 DEF InterruptSending
  <2>4. Completed(record)'
    BY <2>1 DEF Completed, IsQueueComplete
  <2> QED
    BY <1>3, <2>1, <2>3, <2>4, FlightOver DEF QueueStep
<1> QED
  BY <1>6, <1>7, <1>8, <1>9 DEF Inbound

\* While a flush waits for the lock or its chat call runs nothing is in flight.
LEMMA SegmentAlone ==
  ASSUME BullInv, NEW f \in Flushes, flush[f].stage \in {"prepare", "chat", "decide", "rescue"}
  PROVE  Completed(record) /\ record.currentOutboundMessageId = None /\ handles = {}
         /\ deliveryTimeouts = {} /\ record.state # "sending"
<1>1. record.state # "sending"
  BY DEF BullInv, PlaceInv, Turns, Queued
<1> QED
  BY <1>1, BullTypes DEF BullInv, FlightInv

LEMMA SegmentQueue ==
  ASSUME BullInv, NEW f \in Flushes, Segment(f)
  PROVE  QueueStep /\ FlightInv'
<1>1. TypeInv /\ record \in Records /\ lastId \in Nat
  BY BullTypes
<1>2. Alive(f) /\ \A g \in Flushes : g # f => flush'[g] = flush[g]
  BY <1>1, SegmentIsJobStep DEF JobStep
<1>3. \A g \in Flushes : g # f => flush'[g].stage = "free"
  BY <1>1, <1>2, AliveAlone
<1>4. ASSUME NEW x, flush' = [flush EXCEPT ![f] = x]
      PROVE  flush'[f] = x
  BY <1>1, <1>4, FlushAt
<1>5. FreeFlush.stage = "free"
  BY DEF FreeFlush
\* The flush is over before anything is sent.
<1>6. ASSUME flush[f].stage \in {"prepare", "decide", "rescue"},
             flush' = [flush EXCEPT ![f] = FreeFlush], handles' = handles,
             deliveryTimeouts' = {} \/ deliveryTimeouts' = deliveryTimeouts,
             record'.currentOutboundMessageId \in {None, record.currentOutboundMessageId},
             \/ SameQueue
             \/ /\ record'.outboundQueue = <<>>
                /\ record'.currentOutboundIndex = 0
      PROVE  QueueStep /\ FlightInv'
  <2>1. Completed(record)'
    BY <1>6, SegmentAlone DEF SameQueue, Completed, IsQueueComplete
  <2>2. ~Queued("drive")'
    BY <1>3, <1>4, <1>5, <1>6 DEF Queued
  <2>3. record'.currentOutboundMessageId = None /\ handles' = {} /\ deliveryTimeouts' = {}
    BY <1>6, SegmentAlone
  <2> QED
    BY <1>6, <2>1, <2>2, <2>3, FlightOver DEF QueueStep
<1>7. CASE PrepareNothing(f)
  <2>1. /\ flush[f].stage = "prepare" /\ flush' = [flush EXCEPT ![f] = FreeFlush]
        /\ UNCHANGED <<record, handles, deliveryTimeouts>>
    BY <1>7 DEF PrepareNothing, HoldsSegment, timers
  <2>2. SameQueue
    BY <2>1 DEF SameQueue
  <2> QED
    BY <1>6, <2>1, <2>2
<1>8. CASE PrepareNoAdapter(f)
  <2>1. /\ record'.outboundQueue = record.outboundQueue
        /\ record'.currentOutboundIndex = record.currentOutboundIndex
        /\ record'.currentOutboundMessageId = None
    BY <1>1, <1>8, Zenon DEF PrepareNoAdapter, Records
  <2>2. /\ flush[f].stage = "prepare" /\ flush' = [flush EXCEPT ![f] = FreeFlush]
        /\ handles' = handles /\ deliveryTimeouts' = deliveryTimeouts
    BY <1>8 DEF PrepareNoAdapter, HoldsSegment, timers
  <2>3. SameQueue
    BY <2>1 DEF SameQueue
  <2> QED
    BY <1>6, <2>1, <2>2, <2>3
<1>9. CASE PrepareBatch(f)
  <2>1. /\ record'.outboundQueue = record.outboundQueue
        /\ record'.currentOutboundIndex = record.currentOutboundIndex
        /\ record'.currentOutboundMessageId = record.currentOutboundMessageId
    BY <1>1, <1>9, Zenon DEF PrepareBatch, Records
  <2>2. [FreeFlush EXCEPT !.stage = "chat", !.batch = record.inboundBuffer].stage = "chat"
    BY DEF FreeFlush
  <2>3. flush'[f] = [FreeFlush EXCEPT !.stage = "chat", !.batch = record.inboundBuffer]
    BY <1>4, <1>9, Zenon DEF PrepareBatch
  <2>4. ~Queued("drive")'
    BY <1>3, <2>2, <2>3 DEF Queued
  <2>5. Completed(record) /\ record.currentOutboundMessageId = None /\ handles = {}
        /\ deliveryTimeouts = {} /\ UNCHANGED <<handles, deliveryTimeouts>>
    BY <1>9, SegmentAlone DEF PrepareBatch, HoldsSegment, timers
  <2> QED
    BY <2>1, <2>4, <2>5, FlightOver DEF SameQueue, QueueStep, Completed
<1>10. CASE RescueLateArrivals(f)
  <2>1. /\ record'.outboundQueue = record.outboundQueue
        /\ record'.currentOutboundIndex = record.currentOutboundIndex
        /\ record'.currentOutboundMessageId = None
    BY <1>1, <1>10, Zenon DEF RescueLateArrivals, Records
  <2>2. /\ flush[f].stage = "rescue" /\ flush' = [flush EXCEPT ![f] = FreeFlush]
        /\ handles' = handles /\ deliveryTimeouts' = {}
    BY <1>10 DEF RescueLateArrivals, HoldsSegment
  <2>3. SameQueue
    BY <2>1 DEF SameQueue
  <2> QED
    BY <1>6, <2>1, <2>2, <2>3
<1>11. CASE EndFailedTurn(f)
  <2>1. /\ record'.outboundQueue = record.outboundQueue
        /\ record'.currentOutboundIndex = record.currentOutboundIndex
        /\ record'.currentOutboundMessageId = None
    BY <1>1, <1>11, Zenon DEF EndFailedTurn, Records
  <2>2. /\ flush[f].stage = "rescue" /\ flush' = [flush EXCEPT ![f] = FreeFlush]
        /\ handles' = handles /\ deliveryTimeouts' = {}
    BY <1>11 DEF EndFailedTurn, HoldsSegment
  <2>3. SameQueue
    BY <2>1 DEF SameQueue
  <2> QED
    BY <1>6, <2>1, <2>2, <2>3
<1>12. CASE Rebatch(f)
  <2>1. /\ record'.outboundQueue = record.outboundQueue
        /\ record'.currentOutboundIndex = record.currentOutboundIndex
        /\ record'.currentOutboundMessageId = record.currentOutboundMessageId
    BY <1>1, <1>12, Zenon DEF Rebatch, Records
  <2>2. /\ flush[f].stage = "decide" /\ flush' = [flush EXCEPT ![f] = FreeFlush]
        /\ handles' = handles /\ deliveryTimeouts' = deliveryTimeouts
    BY <1>12 DEF Rebatch, HoldsSegment, timers
  <2>3. SameQueue
    BY <2>1 DEF SameQueue
  <2> QED
    BY <1>6, <2>1, <2>2, <2>3
<1>13. CASE EndSilentTurn(f)
  <2>1. /\ flush[f].stage = "decide" /\ flush' = [flush EXCEPT ![f] = FreeFlush]
        /\ handles' = handles /\ deliveryTimeouts' = {} /\ record' = FinalizedRecord(record)
    BY <1>13 DEF EndSilentTurn, FinalizeTurn, HoldsSegment
  <2>2. /\ \/ SameQueue
           \/ /\ record'.outboundQueue = <<>>
              /\ record'.currentOutboundIndex = 0
        /\ record'.currentOutboundMessageId \in {None, record.currentOutboundMessageId}
    BY <1>1, <2>1, FinalizedQueue DEF SameQueue
  <2> QED
    BY <1>6, <2>1, <2>2
<1>14. CASE AttachQueue(f)
  <2> DEFINE q == BuildOutboundItems(flush[f].reply, lastId)
  <2>1. record'.outboundQueue = q /\ record'.currentOutboundIndex = 0
        /\ record'.currentOutboundMessageId = None /\ record'.state = "sending"
    BY <1>1, <1>14, Zenon DEF AttachQueue, Records
  <2>2. flush[f].reply \in Seq(Kinds)
    BY BullTypes DEF FlushRecords
  <2>3. QueueStep
    BY <1>1, <2>1, <2>2 DEF QueueStep
  <2>4. handles' = {} /\ deliveryTimeouts' = {} /\ ~sendLoop'
    BY <1>14, SegmentAlone DEF AttachQueue, HoldsSegment, Holds, timers
  <2>5. Completed(record)' \/ Fresh(AtCursor(record)')
    <3>1. q \in Seq(Items) /\ \A i \in DOMAIN q : Fresh(q[i])
      BY <1>1, <2>2, BuiltQueue
    <3> HIDE DEF q
    <3> QED
      BY <2>1, <3>1 DEF Completed, IsQueueComplete, AtCursor, CurrentItem
  <2> QED
    BY <2>1, <2>3, <2>4, <2>5 DEF FlightInv, HandlesAreInFlight
<1>15. CASE DriveDelivery(f)
  <2>1. Queued("drive") /\ SameQueue
        /\ UNCHANGED <<record, handles, deliveryTimeouts>>
    BY <1>15 DEF DriveDelivery, HoldsSegment, Queued, SameQueue, timers
  <2>2. ~Queued("drive")'
    BY <1>3, <1>4, <1>5, <1>15 DEF Queued, DriveDelivery
  <2>3. Completed(record)' = Completed(record) /\ AtCursor(record)' = AtCursor(record)
    BY <2>1 DEF Completed, AtCursor
  <2> QED
    BY <2>1, <2>2, <2>3 DEF QueueStep, SameQueue, BullInv, FlightInv, HandlesAreInFlight, Fresh
<1>16. ~FallThroughAtCap(f) /\ ~ForceIdle(f)
  BY FallsNowhere DEF BullInv
<1> QED
  BY <1>7, <1>8, <1>9, <1>10, <1>11, <1>12, <1>13, <1>14, <1>15, <1>16
     DEF Segment, EndAtPrepare

\* The item at the cursor is tried, and passed.
LEMMA TriedAndPassed ==
  ASSUME BullInv, ~Queued("drive"), UNCHANGED flush, NEW y \in Items, Tries(y), Settled(y),
         Within(y), record'.currentOutboundIndex = record.currentOutboundIndex + 1,
         record'.currentOutboundMessageId = None, record'.state = record.state,
         handles' = {}, deliveryTimeouts' = {}
  PROVE  QueueStep /\ FlightInv'
<1>1. QueueStep
  BY DEF QueueStep
<1> QED
  BY <1>1, FlightAdvances

LEMMA SendStepQueue ==
  ASSUME BullInv, SendStep, "window_closed" \notin Failures
  PROVE  QueueStep /\ FlightInv'
<1>1. TypeInv /\ record \in Records /\ lastId \in Nat /\ lastId + 1 \in Nat \ {None}
  BY BullTypes DEF None
<1> DEFINE c == record.currentOutboundIndex
           q == record.outboundQueue
<1>2. c \in Nat /\ q \in Seq(Items)
  BY <1>1, RecordQueue
\* What every send of an item finds.
<1>3. ASSUME NEW item, Sending(item)
      PROVE  /\ item \in Items /\ item = AtCursor(record) /\ Due(item)
             /\ item.channelMessageId = None /\ item.attempts + 1 <= SendBudget
             /\ ~Completed(record) /\ ~IsQueueComplete(q, c) /\ record.state = "sending"
             /\ ~Queued("drive") /\ record.currentOutboundMessageId = None
             /\ handles = {} /\ deliveryTimeouts = {}
             /\ WithCurrent(record, Attempted(item)) \in Records
  <2>1. item \in Items /\ Due(item) /\ ~Completed(record)
    BY <1>3, SendingIsDue
  <2>2. WithCurrent(record, Attempted(item)) \in Records
    BY <1>1, <2>1, AttemptedItem, WithCurrentType
  <2> QED
    BY <1>3, <2>1, <2>2, SendingIsDue, DueWithin DEF Due, Completed
<1>4. CASE SendLoopEnds
  <2>1. record' = FinalizedRecord(record) /\ Completed(record) /\ sendLoop
    BY <1>4 DEF SendLoopEnds, FinalizeTurn, Completed
  <2>2. /\ \/ SameQueue
           \/ /\ record'.outboundQueue = <<>>
              /\ record'.currentOutboundIndex = 0
        /\ record'.currentOutboundMessageId \in {None, record.currentOutboundMessageId}
    BY <1>1, <2>1, FinalizedQueue DEF SameQueue
  <2>3. record.currentOutboundMessageId = None
    BY <2>1 DEF BullInv, FlightInv
  <2>4. Completed(record)'
    BY <2>1, <2>2 DEF SameQueue, Completed, IsQueueComplete
  <2>5. handles' = {} /\ deliveryTimeouts' = {} /\ ~sendLoop'
    BY <1>4, <2>3, BullTypes DEF SendLoopEnds, FinalizeTurn, Release
  <2> QED
    BY <2>2, <2>3, <2>4, <2>5, FlightOver DEF QueueStep
<1>5. ASSUME NEW item, SendFireAndForget(item)
      PROVE  QueueStep /\ FlightInv'
  <2> DEFINE y == Attempted(item)
             r == WithCurrent(record, y)
  <2>1. Sending(item) /\ item.kind = "reaction" /\ record' = AdvancedRecord(r)
        /\ UNCHANGED <<handles, flush>> /\ deliveryTimeouts' = {}
    BY <1>5 DEF SendFireAndForget, AdvanceAndContinue
  <2>2. /\ y \in Items /\ y.attempts = item.attempts + 1 /\ y.kind = "reaction"
        /\ item.attempts \in Nat
    BY <1>3, <2>1, AttemptedItem DEF Items
  <2>3. r \in Records
    BY <1>3, <2>1
  <2>4. /\ record'.outboundQueue = UpdateCurrent(q, c, y) /\ record'.currentOutboundIndex = c + 1
        /\ record'.currentOutboundMessageId = None /\ record'.state = record.state
    BY <1>1, <2>1, <2>3, AdvancedQueue, WithCurrentQueue
  <2> HIDE DEF y, r
  <2>5. Tries(y)
    BY <1>3, <2>1, <2>2, <2>4 DEF Tries
  <2>6. Settled(y) /\ Within(y)
    BY <1>3, <2>1, <2>2 DEF Settled, Within
  <2> QED
    BY <1>3, <2>1, <2>2, <2>4, <2>5, <2>6, TriedAndPassed
<1>6. ASSUME NEW item, SendOnSend(item)
      PROVE  QueueStep /\ FlightInv'
  <2> DEFINE y == SentItem(item, lastId + 1)
             r == WithCurrent(record, y)
  <2>1. Sending(item) /\ record' = AdvancedRecord(r)
        /\ UNCHANGED <<handles, flush>> /\ deliveryTimeouts' = {}
    BY <1>6 DEF SendOnSend
  <2>2. /\ y \in Items /\ Sent(y) /\ y.channelMessageId # None
        /\ y.attempts = item.attempts + 1
    BY <1>1, <1>3, <2>1, SentItemSent DEF Sent
  <2>3. r \in Records
    BY <1>1, <2>2, WithCurrentType
  <2>4. /\ record'.outboundQueue = UpdateCurrent(q, c, y) /\ record'.currentOutboundIndex = c + 1
        /\ record'.currentOutboundMessageId = None /\ record'.state = record.state
    BY <1>1, <2>1, <2>3, AdvancedQueue, WithCurrentQueue
  <2> HIDE DEF y, r
  <2>5. Tries(y)
    BY <1>3, <2>1, <2>2, <2>4 DEF Tries
  <2>6. Settled(y) /\ Within(y)
    BY <2>2, SentWithin DEF Settled
  <2> QED
    BY <1>3, <2>1, <2>2, <2>4, <2>5, <2>6, TriedAndPassed
<1>7. ASSUME NEW item, SendOnStatus(item)
      PROVE  QueueStep /\ FlightInv'
  <2> DEFINE y == SentItem(item, lastId + 1)
             r == WithCurrent(record, y)
  <2>1. /\ Sending(item) /\ record' = [r EXCEPT !.currentOutboundMessageId = lastId + 1]
        /\ handles' = handles \union {[id |-> lastId + 1, messageIndex |-> c]}
        /\ UNCHANGED flush /\ deliveryTimeouts' = {c} /\ ~sendLoop'
    BY <1>7 DEF SendOnStatus, Release
  <2>2. /\ y \in Items /\ Sent(y) /\ y.channelMessageId = lastId + 1
        /\ y.attempts = item.attempts + 1
    BY <1>1, <1>3, <2>1, SentItemSent
  <2>3. r \in Records
    BY <1>1, <2>2, WithCurrentType
  <2>4. /\ record'.outboundQueue = r.outboundQueue
        /\ record'.currentOutboundIndex = r.currentOutboundIndex
        /\ record'.currentOutboundMessageId = lastId + 1 /\ record'.state = r.state
    BY <2>1, <2>3, Zenon DEF Records
  <2>5. r.outboundQueue = UpdateCurrent(q, c, y) /\ r.currentOutboundIndex = c
        /\ r.state = record.state
    BY <1>1, WithCurrentQueue
  <2> HIDE DEF y, r
  <2>6. Tries(y)
    BY <1>3, <2>1, <2>2, <2>4, <2>5 DEF Tries
  <2>7. QueueStep
    BY <2>2, <2>4, <2>5, <2>6 DEF QueueStep
  <2>8. ~Completed(record)' /\ AtCursor(record)' = y
    BY <1>2, <1>3, <2>1, <2>2, <2>4, <2>5, UpdatedQueue DEF Completed, AtCursor
  <2>9. ~Queued("drive")'
    BY <1>3, <2>1 DEF Queued
  <2>10. handles' = {[id |-> lastId + 1, messageIndex |-> c]}
    BY <1>3, <2>1
  <2> QED
    BY <1>1, <1>3, <2>1, <2>2, <2>4, <2>5, <2>7, <2>8, <2>9, <2>10
    DEF FlightInv, HandlesAreInFlight, None
<1>8. ASSUME NEW item, SendFailsTransient(item)
      PROVE  QueueStep /\ FlightInv'
  <2> DEFINE y == [Attempted(item) EXCEPT !.retryCount = item.retryCount + 1]
  <2>1. /\ Sending(item) /\ item.retryCount + 1 <= MaxRetryAttempts
        /\ record' = WithCurrent(record, y)
        /\ UNCHANGED <<handles, flush>> /\ deliveryTimeouts' = {} /\ ~sendLoop'
    BY <1>8, Zenon DEF SendFailsTransient, ScheduleRetry, Release
  <2>2. item.retryCount + 1 \in Nat
    BY <1>3, <2>1 DEF Items
  <2>3. Attempted(item) \in Items
    BY <1>3, <2>1, AttemptedItem
  <2>4. y \in Items
    BY <2>2, <2>3, Zenon DEF Items
  <2>5. Due(y) /\ y.attempts = item.attempts + 1
    BY <1>3, <2>1, <2>4, RetriedItemDue
  <2> HIDE DEF y
  <2>6. /\ record'.outboundQueue = UpdateCurrent(q, c, y) /\ record'.currentOutboundIndex = c
        /\ record'.currentOutboundMessageId = None /\ record'.state = "sending"
    BY <1>1, <1>3, <2>1, WithCurrentQueue
  <2>7. Tries(y)
    BY <1>3, <2>1, <2>5, <2>6 DEF Tries
  <2>8. ~Queued("drive")' /\ handles' = {}
    BY <1>3, <2>1 DEF Queued
  <2> QED
    BY <2>1, <2>4, <2>5, <2>6, <2>7, <2>8, FlightWaits DEF QueueStep
<1>9. ASSUME NEW item, SendSkips(item)
      PROVE  QueueStep /\ FlightInv'
  <2> DEFINE x == Attempted(item)
             r == WithCurrent(record, x)
  <2>1. /\ Sending(item) /\ record' = SkippedRecord(r)
        /\ UNCHANGED <<handles, flush>> /\ deliveryTimeouts' = {}
    BY <1>9 DEF SendSkips, AdvanceAndContinue
  <2>2. x \in Items /\ x.attempts = item.attempts + 1
    BY <1>3, <2>1, AttemptedItem
  <2>3. r \in Records
    BY <1>3, <2>1
  <2>4. r.outboundQueue = UpdateCurrent(q, c, x) /\ r.currentOutboundIndex = c
        /\ r.state = record.state
    BY <1>1, WithCurrentQueue
  <2> HIDE DEF x, r
  <2>5. ~Completed(r) /\ AtCursor(r) = x
        /\ \A y \in Items : UpdateCurrent(r.outboundQueue, c, y) = UpdateCurrent(q, c, y)
    BY <1>2, <1>3, <2>1, <2>2, <2>4, UpdatedQueue DEF Completed, AtCursor
  <2>6. PICK y \in Items : /\ y.skipped /\ y.attempts = x.attempts
                           /\ record'.outboundQueue = UpdateCurrent(q, c, y)
    BY <2>1, <2>3, <2>4, <2>5, SkippedQueue
  <2>7. /\ record'.currentOutboundIndex = c + 1 /\ record'.currentOutboundMessageId = None
        /\ record'.state = record.state
    BY <2>1, <2>3, <2>4, SkippedQueue
  <2>8. Tries(y) /\ Settled(y) /\ Within(y)
    BY <1>3, <2>1, <2>2, <2>6 DEF Tries, Settled, Within
  <2> QED
    BY <1>3, <2>1, <2>6, <2>7, <2>8, TriedAndPassed
<1> QED
  BY <1>4, <1>5, <1>6, <1>7, <1>8, <1>9 DEF SendStep, SendFindsWindowClosed

LEMMA StatusQueue ==
  ASSUME BullInv, Status, "window_closed" \notin Failures
  PROVE  QueueStep /\ FlightInv'
<1>1. TypeInv /\ record \in Records
  BY BullTypes
<1> DEFINE c == record.currentOutboundIndex
           q == record.outboundQueue
           item == CurrentItem(q, c)
<1>2. c \in Nat /\ q \in Seq(Items)
  BY <1>1, RecordQueue
<1>3. record.state # "sending" => Completed(record)
  BY DEF BullInv, FlightInv
<1>4. CASE DropStatus
  <2>1. /\ SameQueue /\ UNCHANGED <<handles, deliveryTimeouts, record>> /\ ~sendLoop'
        /\ Queued("drive")' = Queued("drive")
    BY <1>4 DEF DropStatus, SameQueue, Release, Queued, timers
  <2> QED
    BY <1>3, <2>1, FlightKept DEF QueueStep
\* What every status of a mapped handle finds.
<1>5. ASSUME NEW h \in handles
      PROVE  /\ Unmapped(h) = {} /\ ~Completed(record) /\ ~IsQueueComplete(q, c)
             /\ record.state = "sending" /\ ~Queued("drive")
             /\ item = AtCursor(record) /\ item \in Items /\ Sent(item)
  BY HandleIsSent DEF Unmapped, Completed, AtCursor
<1>6. ASSUME NEW h \in handles, NoteStatus(h)
      PROVE  QueueStep /\ FlightInv'
  <2>1. /\ record'.outboundQueue = record.outboundQueue
        /\ record'.currentOutboundIndex = record.currentOutboundIndex
        /\ record'.currentOutboundMessageId = record.currentOutboundMessageId
        /\ record'.state = record.state
    BY <1>1, <1>6, Zenon DEF NoteStatus, NotedRecord, Records
  <2>2. /\ UNCHANGED <<handles, deliveryTimeouts>> /\ ~sendLoop' /\ Queued("drive")' = Queued("drive")
    BY <1>6 DEF NoteStatus, Release, Queued, timers
  <2> QED
    BY <1>3, <2>1, <2>2, FlightKept DEF QueueStep, SameQueue
<1>7. ASSUME NEW h \in handles, StatusAdvances(h)
      PROVE  QueueStep /\ FlightInv'
  <2>1. /\ record' = AdvancedRecord(NotedRecord(h)) /\ handles' = Unmapped(h)
        /\ UNCHANGED flush /\ deliveryTimeouts' = {}
    BY <1>7 DEF StatusAdvances, AdvanceAndContinue
  <2>2. h.id \in Nat
    BY <1>1 DEF TypeInv, TypeOK
  <2>3. NotedRecord(h) \in Records
    BY <1>1, <2>2 DEF NotedRecord, Records
  <2>4. /\ NotedRecord(h).outboundQueue = q /\ NotedRecord(h).currentOutboundIndex = c
        /\ NotedRecord(h).state = record.state
    BY <1>1, Zenon DEF NotedRecord, Records
  <2>5. /\ record'.outboundQueue = q /\ record'.currentOutboundIndex = c + 1
        /\ record'.currentOutboundMessageId = None /\ record'.state = record.state
    BY <2>1, <2>3, <2>4, AdvancedQueue
  <2>6. Settled(AtCursor(record))
    BY <1>5 DEF Settled, Sent
  <2>7. QueueStep
    BY <2>5, <2>6, PassedQueue
  <2> QED
    BY <1>5, <2>1, <2>5, <2>7, FlightAdvances
<1>8. ASSUME NEW h \in handles, StatusFailsTransient(h)
      PROVE  QueueStep /\ FlightInv'
  <2> DEFINE attempt == item.asyncFailRetryCount + 1
             failed == [item EXCEPT !.asyncFailRetryCount = attempt, !.channelMessageId = None]
             unsent == [record EXCEPT !.currentOutboundMessageId = None]
             y == [failed EXCEPT !.retryCount = attempt]
  <2>1. /\ attempt <= MaxRetryAttempts /\ handles' = Unmapped(h) /\ UNCHANGED flush
        /\ record' = WithCurrent(unsent, y) /\ deliveryTimeouts' = {} /\ ~sendLoop'
    BY <1>8, Zenon DEF StatusFailsTransient, StatusFails, MayRetryAsync, ScheduleRetry, Release
  <2>2. attempt \in Nat
    BY <1>5, <1>8 DEF Items
  <2>3. y \in Items
    BY <1>5, <1>8, <2>2, 0 \in Nat, Zenon DEF Items, None
  <2>4. Due(y) /\ y.attempts = item.attempts
    BY <1>5, <1>8, <2>1, <2>3, FailedItemDue
  <2>5. /\ unsent \in Records /\ unsent.outboundQueue = q /\ unsent.currentOutboundIndex = c
        /\ unsent.currentOutboundMessageId = None /\ unsent.state = record.state
    BY <1>1, 0 \in Nat, Zenon DEF Records, None
  <2> HIDE DEF y, unsent, attempt
  <2>6. /\ record'.outboundQueue = UpdateCurrent(q, c, y) /\ record'.currentOutboundIndex = c
        /\ record'.currentOutboundMessageId = None /\ record'.state = "sending"
    BY <1>5, <1>8, <2>1, <2>5, WithCurrentQueue
  <2>7. Tries(y)
    BY <1>5, <1>8, <2>4, <2>6 DEF Tries
  <2>8. ~Queued("drive")' /\ handles' = {}
    BY <1>5, <1>8, <2>1 DEF Queued
  <2> QED
    BY <2>1, <2>3, <2>4, <2>6, <2>7, <2>8, FlightWaits DEF QueueStep
<1>9. ASSUME NEW h \in handles, StatusSkips(h)
      PROVE  QueueStep /\ FlightInv'
  <2>1. /\ record' = SkippedRecord(record) /\ handles' = Unmapped(h)
        /\ UNCHANGED flush /\ deliveryTimeouts' = {}
    BY <1>9 DEF StatusSkips, StatusFails, AdvanceAndContinue
  <2>2. PICK y \in Items : /\ y.skipped /\ y.attempts = item.attempts
                           /\ record'.outboundQueue = UpdateCurrent(q, c, y)
    BY <1>1, <1>5, <1>9, <2>1, SkippedQueue
  <2>3. /\ record'.currentOutboundIndex = c + 1 /\ record'.currentOutboundMessageId = None
        /\ record'.state = record.state
    BY <1>1, <2>1, SkippedQueue
  <2>4. Within(item)
    BY <1>5, <1>9, SentWithin
  <2>5. Tries(y) /\ Settled(y) /\ Within(y)
    BY <1>5, <1>9, <2>2, <2>4 DEF Tries, Settled, Within
  <2> QED
    BY <1>5, <1>9, <2>1, <2>2, <2>3, <2>5, TriedAndPassed
<1>10. ASSUME NEW h \in handles, StatusFindsWindowClosed(h)
      PROVE  FALSE
  <2>1. Head(chain).op = "status" /\ Head(chain).status = "window_closed" /\ chain # <<>>
    BY <1>10 DEF StatusFindsWindowClosed, StatusFails, HoldsStatus, Holds
  <2>2. Head(chain) \in Operations
    BY <2>1, BullTypes
  <2> QED
    BY <2>1, <2>2, OperationType DEF Statuses
<1> QED
  BY <1>4, <1>6, <1>7, <1>8, <1>9, <1>10 DEF Status

LEMMA TimerQueue ==
  ASSUME BullInv, Timer
  PROVE  QueueStep /\ FlightInv'
<1>1. TypeInv /\ record \in Records
  BY BullTypes
<1>2. record.state # "sending" => Completed(record)
  BY DEF BullInv, FlightInv
<1>3. CASE TimeoutAdvances
  <2>1. /\ Holds("timeout") /\ record' = AdvancedRecord(record)
        /\ handles' = {h \in handles : h.id # record.currentOutboundMessageId}
        /\ UNCHANGED flush /\ deliveryTimeouts' = {}
    BY <1>3 DEF TimeoutAdvances, AdvanceAndContinue
  <2>2. 1 \in Timeouts
    BY <2>1, BullTypes DEF Timeouts, Holds
  <2>3. ~Queued("drive")
    BY <2>2 DEF BullInv, ChainInv, Busy, Queued
  <2>4. handles' = {}
    BY <2>1, HandleIsSent
  <2>5. /\ record'.outboundQueue = record.outboundQueue
        /\ record'.currentOutboundIndex = record.currentOutboundIndex + 1
        /\ record'.currentOutboundMessageId = None /\ record'.state = record.state
    BY <1>1, <2>1, AdvancedQueue
  <2>6. QueueStep
    BY <2>1, <2>5, PassedQueue
  <2> QED
    BY <2>1, <2>3, <2>4, <2>5, <2>6, FlightAdvances
<1>4. CASE RetrySends
  <2>1. /\ chain # <<>> /\ Head(chain).op = "retry" /\ IsAwaited(Head(chain).timer)
        /\ UNCHANGED <<record, handles, deliveryTimeouts, flush>>
    BY <1>4 DEF RetrySends, Holds, timers
  <2>2. Head(chain) \in Operations /\ Head(chain) \in Chained
    BY <2>1, BullTypes, HeadTailRange DEF Chained
  <2>3. Head(chain).timer \in RetryTimers /\ Head(chain).timer.attempt # 0
    BY <2>1, <2>2, OperationType DEF BullInv, RetryInv
  <2>4. /\ ~Completed(record) /\ record.state = "sending" /\ ~Queued("drive")
        /\ record.currentOutboundMessageId = None
        /\ AtCursor(record).channelMessageId = None
    BY <2>1, <2>3, AwaitedIsDue
  <2>5. ~Queued("drive")' /\ Completed(record)' = Completed(record)
        /\ AtCursor(record)' = AtCursor(record) /\ SameQueue
    BY <2>1, <2>4 DEF Queued, Completed, AtCursor, SameQueue
  <2> QED
    BY <2>1, <2>4, <2>5 DEF QueueStep, BullInv, FlightInv, HandlesAreInFlight
<1>5. CASE DropTimeout \/ DropRetry
  <2>1. /\ SameQueue /\ UNCHANGED <<handles, deliveryTimeouts, record>> /\ ~sendLoop'
        /\ Queued("drive")' = Queued("drive")
    BY <1>5 DEF DropTimeout, DropRetry, SameQueue, Release, Queued, timers
  <2> QED
    BY <1>2, <2>1, FlightKept DEF QueueStep
<1> QED
  BY <1>3, <1>4, <1>5 DEF Timer

LEMMA StepQueue ==
  ASSUME BullInv, [Next]_vars, "window_closed" \notin Failures
  PROVE  QueueStep /\ FlightInv'
<1>1. CASE UNCHANGED vars
  <2>1. /\ SameQueue /\ UNCHANGED <<record, handles, deliveryTimeouts, sendLoop>>
        /\ Queued("drive")' = Queued("drive")
    BY <1>1 DEF vars, timers, SameQueue, Queued
  <2> QED
    BY <2>1, FlightKept DEF QueueStep, BullInv, FlightInv
<1> QED
  BY <1>1, WebhookQueue, InboundQueue, SegmentQueue, SendStepQueue, StatusQueue, TimerQueue,
     FlushMovesQueue, TimerFiresQueue DEF Next, LockStep, TimerFires

-----------------------------------------------------------------------------
(* The invariant of delivery on BullMQ *)

LEMMA StepPlace ==
  ASSUME BullInv, [Next]_vars
  PROVE  PlaceInv'
<1>1. TypeInv
  BY BullTypes
<1>2. CASE UNCHANGED vars
  BY <1>2, PlaceKept DEF vars
<1>3. CASE Webhook
  <2>1. UNCHANGED <<record, flush, sendLoop, bufferTimer, deployment>>
    BY <1>3 DEF Webhook, ReceiveInbound, ReceiveStatus
  <2> QED
    BY <2>1, PlaceKept
<1>4. ASSUME NEW i \in deliveryTimeouts, DeliveryTimerFires(i)
      PROVE  PlaceInv'
  BY <1>4, PlaceKept DEF DeliveryTimerFires
<1>5. ASSUME NEW t \in transientRetryTimers, RetryTimerFires(t)
      PROVE  PlaceInv'
  BY <1>5, PlaceKept DEF RetryTimerFires
<1> QED
  BY <1>2, <1>3, <1>4, <1>5, InboundPlace, SegmentPlace, ChatStepPlace, BufferTimerPlace,
     DeliveryPlace DEF Next, LockStep, TimerFires

DeliveryInv == EffortInv /\ KeptInv /\ JobInv /\ (Scheduler = "bullmq" => BullInv)

LEMMA InitDelivery == Init => DeliveryInv
<1> SUFFICES ASSUME Init PROVE DeliveryInv
  OBVIOUS
<1>1. EffortInv /\ KeptInv /\ JobInv
  BY InitEffort, InitKept, InitJob
<1>2. /\ record.state = "idle" /\ record.inboundBuffer = <<>> /\ record.outboundQueue = <<>>
      /\ record.currentOutboundIndex = 0 /\ record.currentOutboundMessageId = None
  BY Zenon DEF Init
<1>3. /\ handles = {} /\ chain = <<>> /\ ~sendLoop /\ ~bufferTimer
      /\ deliveryTimeouts = {} /\ transientRetryTimers = {}
      /\ \A f \in Flushes : flush[f].stage = "free"
  BY DEF Init, FreeFlush
<1>4. PlaceInv
  BY <1>2, <1>3 DEF PlaceInv, Turns, Queued
<1>5. FlightInv
  BY <1>2, <1>3 DEF FlightInv, HandlesAreInFlight, Completed, IsQueueComplete, Queued
<1>6. ChainInv /\ RetryInv
  BY <1>3, EmptyRange DEF ChainInv, Segments, Timeouts, Busy, RetryInv, Chained
<1>7. ItemInv
  BY <1>2 DEF ItemInv
<1> QED
  BY <1>1, <1>4, <1>5, <1>6, <1>7 DEF DeliveryInv, BullInv

LEMMA StepDelivery ==
  ASSUME "window_closed" \notin Failures
  PROVE  DeliveryInv /\ [Next]_vars => DeliveryInv'
<1> SUFFICES ASSUME DeliveryInv, [Next]_vars PROVE DeliveryInv'
  OBVIOUS
<1>1. EffortInv' /\ KeptInv' /\ JobInv'
  BY StepEffort, StepKept, StepJob DEF DeliveryInv
<1>2. Scheduler' = Scheduler
  BY SchedulerKept DEF DeliveryInv, JobInv
<1>3. ASSUME Scheduler = "bullmq"
      PROVE  BullInv'
  <2>1. BullInv
    BY <1>3 DEF DeliveryInv
  <2>2. TypeInv /\ RetryInv
    BY <2>1, BullTypes DEF BullInv
  <2>3. PlaceInv' /\ FlightInv' /\ ChainInv' /\ RetryInv' /\ ItemInv'
    BY <2>1, <2>2, StepPlace, StepQueue, StepChain, StepRetry, QueueStepItems
  <2> QED
    BY <1>1, <1>2, <1>3, <2>3 DEF BullInv
<1> QED
  BY <1>1, <1>2, <1>3 DEF DeliveryInv

LEMMA DeliveryInvariant ==
  ASSUME "window_closed" \notin Failures
  PROVE  Spec => []DeliveryInv
<1>1. Init => DeliveryInv
  BY InitDelivery
<1>2. DeliveryInv /\ [Next]_vars => DeliveryInv'
  BY StepDelivery
<1> QED
  BY <1>1, <1>2, PTL DEF Spec

-----------------------------------------------------------------------------
(* What delivery promises *)

LEMMA DeliveryAccounts == DeliveryInv => ItemsAreAccountedFor
<1> SUFFICES ASSUME DeliveryInv PROVE ItemsAreAccountedFor
  OBVIOUS
<1>1. Scheduler = "in_memory" => BusyIsAwaited
  BY EffortIsBusy DEF DeliveryInv
<1>2. ASSUME Scheduler = "bullmq"
      PROVE  HandlesAreInFlight /\ AttemptsAreBounded
  <2>1. BullInv
    BY <1>2 DEF DeliveryInv
  <2>2. record.outboundQueue \in Seq(Items) /\ record.currentOutboundIndex \in Nat
    BY <2>1, BullTypes, RecordQueue
  <2>3. ASSUME NEW i \in DOMAIN record.outboundQueue
        PROVE  record.outboundQueue[i].attempts <= SendBudget
    <3>1. i \in Nat \ {0} /\ record.outboundQueue[i] \in Items
      BY <2>2
    <3>2. Within(record.outboundQueue[i])
      BY <2>1, <2>2, <3>1, FreshIsDue, SentWithin DEF BullInv, ItemInv
    <3> QED
      BY <3>2 DEF Within
  <2> QED
    BY <2>1, <2>3 DEF BullInv, FlightInv, AttemptsAreBounded
<1> QED
  BY <1>1, <1>2 DEF ItemsAreAccountedFor

LEMMA DeliveryDrains == DeliveryInv => DrainedOnBullMQ
<1> SUFFICES ASSUME DeliveryInv, Scheduler = "bullmq", HasAdapter, record.state = "idle"
             PROVE  record.inboundBuffer = <<>> /\ record.lateArrivals = <<>>
  BY DEF DrainedOnBullMQ, IdleIsDrained
<1>1. record.inboundBuffer = <<>>
  BY DEF DeliveryInv, BullInv, PlaceInv
<1>2. record.lateArrivals = <<>>
  BY DEF DeliveryInv, KeptInv, JobInv, NoneFell, LossInv, InputInv, LateOwned
<1> QED
  BY <1>1, <1>2

LEMMA QueueStepSends ==
  ASSUME BullInv, QueueStep, NEW i \in DOMAIN record.outboundQueue, Sends(i)
  PROVE  record.outboundQueue[i].channelMessageId = None /\ record.state = "sending"
<1>1. /\ record.outboundQueue \in Seq(Items) /\ record.currentOutboundIndex \in Nat
      /\ record.outboundQueue[i] \in Items /\ record.outboundQueue[i].attempts \in Nat
  <2>1. record.outboundQueue \in Seq(Items) /\ record.currentOutboundIndex \in Nat
    BY BullTypes, RecordQueue
  <2>2. record.outboundQueue[i] \in Items
    BY <2>1
  <2> QED
    BY <2>1, <2>2 DEF Items
<1>2. record'.outboundQueue # record.outboundQueue /\ record'.outboundQueue # <<>>
  BY <1>1 DEF Sends
<1>3. ASSUME NEW reply \in Seq(Kinds), NEW last \in Nat,
             record'.outboundQueue = BuildOutboundItems(reply, last)
      PROVE  FALSE
  BY <1>1, <1>3, BuiltQueue DEF Sends, Fresh
<1>4. PICK y \in Items : Tries(y)
  BY <1>2, <1>3 DEF QueueStep, SameQueue
<1>5. record'.outboundQueue[i]
        = IF i = record.currentOutboundIndex + 1 THEN y ELSE record.outboundQueue[i]
  BY <1>4, BullTypes, TriedQueue
<1>6. i = record.currentOutboundIndex + 1 /\ y.attempts > record.outboundQueue[i].attempts
  BY <1>1, <1>5 DEF Sends
<1> QED
  BY <1>1, <1>4, <1>6 DEF Tries, AtCursor, CurrentItem

LEMMA QueueStepPasses ==
  ASSUME BullInv, QueueStep, PassesItem
  PROVE  PassesSettled \/ Holds("timeout")
<1> DEFINE q == record.outboundQueue
           c == record.currentOutboundIndex
           u == record'.outboundQueue
<1>1. q \in Seq(Items) /\ c \in Nat
  BY BullTypes, RecordQueue
<1>2. record'.currentOutboundIndex = c + 1 /\ ~IsQueueComplete(u, c)
  BY DEF PassesItem
<1>3. record'.currentOutboundIndex # 0 /\ record'.currentOutboundIndex # c
  BY <1>1, <1>2
<1>4. ~(Completed(record) /\ u = q)
  BY <1>2 DEF Completed
<1>5. PICK y \in Items : Tries(y) /\ (Settled(y) \/ Holds("timeout"))
  BY <1>3, <1>4 DEF QueueStep, SameQueue
<1>6. ~IsQueueComplete(q, c) /\ u = UpdateCurrent(q, c, y)
  BY <1>5 DEF Tries, Completed
<1> HIDE DEF q, c, u
<1>7. CurrentItem(u, c) = y
  BY <1>1, <1>6, UpdatedQueue
<1> QED
  BY <1>5, <1>7 DEF PassesSettled, Settled, u, c

(***************************************************************************)
(* The hypothesis that no failed send is classified window_closed, which   *)
(* holds on Messenger and Instagram, is needed for what is said of BullMQ: *)
(* the re-prompt of a closed window may end the turn while a delivery      *)
(* timeout is chained, which only compares an index and sends the next     *)
(* item of the idle conversation (handleWindowClosed, sendItem).           *)
(***************************************************************************)

\* Whatever sends and statuses fail, and however late statuses and timers run: on
\* BullMQ the mapped handle is that of the item in flight and no item is sent more
\* often than its retries allow; in memory a turn always has something pending
\* that moves it on (sendNext, handleStatus, onDeliveryTimeoutImpl,
\* runTransientRetryImpl).
THEOREM ItemsAccountedFor ==
  ASSUME "window_closed" \notin Failures
  PROVE  Spec => []ItemsAreAccountedFor
<1>1. Spec => []DeliveryInv
  BY DeliveryInvariant
<1>2. DeliveryInv => ItemsAreAccountedFor
  BY DeliveryAccounts
<1> QED
  BY <1>1, <1>2, PTL

\* On BullMQ a conversation that went idle has no input left, buffered or late:
\* no flush and no timer ends the turn of another (finalizeTurn, flushImpl).
THEOREM IdleConversationsDrained ==
  ASSUME "window_closed" \notin Failures
  PROVE  Spec => []DrainedOnBullMQ
<1>1. Spec => []DeliveryInv
  BY DeliveryInvariant
<1>2. DeliveryInv => DrainedOnBullMQ
  BY DeliveryDrains
<1> QED
  BY <1>1, <1>2, PTL

\* On BullMQ an item is only sent for the turn that is being sent, and never while
\* an earlier send of it may yet be confirmed (sendItem, runTransientRetryImpl).
THEOREM SendsNeverStray ==
  ASSUME "window_closed" \notin Failures
  PROVE  Spec => NoStraySend
<1>1. Spec => []DeliveryInv
  BY DeliveryInvariant
<1>2. DeliveryInv /\ [Next]_vars =>
        [Scheduler = "bullmq" =>
           \A i \in DOMAIN record.outboundQueue :
             Sends(i) => /\ record.outboundQueue[i].channelMessageId = None
                         /\ record.state = "sending"]_vars
  BY StepQueue, QueueStepSends DEF DeliveryInv
<1> QED
  BY <1>1, <1>2, PTL DEF Spec, NoStraySend

\* On BullMQ the cursor passes an item that was neither sent nor skipped in the
\* step of a delivery timeout only (advanceAndContinue, onDeliveryTimeoutImpl).
THEOREM OnlyTimeoutsPassItems ==
  ASSUME "window_closed" \notin Failures
  PROVE  Spec => OnlyTimeoutsPassUnsettled
<1>1. Spec => []DeliveryInv
  BY DeliveryInvariant
<1>2. DeliveryInv /\ [Next]_vars =>
        [Scheduler = "bullmq" /\ PassesItem => PassesSettled \/ Holds("timeout")]_vars
  BY StepQueue, QueueStepPasses DEF DeliveryInv
<1> QED
  BY <1>1, <1>2, PTL DEF Spec, OnlyTimeoutsPassUnsettled
=============================================================================
