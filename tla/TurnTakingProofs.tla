--------------------------- MODULE TurnTakingProofs ---------------------------
(***************************************************************************)
(* What each deployment promises of its turns, for every value of the      *)
(* other constants of ConversationAgent.                                   *)
(*                                                                         *)
(* On BullMQ one flush of a key is alive at a time: a schedule is ignored  *)
(* while the job is active (TakesSchedule), and a job that waits is fired  *)
(* once.  Turns then follow one another (OneTurnOnBullMQ) and settle the   *)
(* messages in the order of their acceptance: the conversation implements  *)
(* TurnTaking.  In memory flushes may overlap, but none is dropped         *)
(* (AwaitedInMemory).                                                      *)
(***************************************************************************)
EXTENDS TurnInputProofs

\* The job of the key drives the delivery of its turn.
Driving == sendLoop /\ Head(chain).op = "segment"

Alive(f) == flush[f].stage # "free"

\* A flush of the key is alive, or drives, or is scheduled: one at a time.
OneJob ==
  Scheduler = "bullmq" =>
    /\ \A f, g \in Flushes : Alive(f) /\ Alive(g) => f = g
    /\ \A f \in Flushes : Alive(f) => ~Driving
    /\ bufferTimer => ~JobActive

\* A turn that may be aborted, or was, is below the cap.
AbortedBelowCap ==
  Scheduler = "bullmq" =>
    /\ \A f \in inFlightChatAborts :
         flush[f].stage = "chat" /\ record.reprocessCount < MaxReprocess
    /\ \A f \in Flushes :
         flush[f].stage \in {"chat", "decide"} /\ flush[f].aborted
           => record.reprocessCount < MaxReprocess

NoneFell == Scheduler = "bullmq" => ~fellThrough

JobInv == TypeInv /\ OneJob /\ AbortedBelowCap /\ DropSeen /\ NoneFell

-----------------------------------------------------------------------------
(* Steps that start no job *)

\* The step leaves the flushes where they are, takes up no send loop of a job and
\* schedules only what the scheduler takes.
StartsNoJob ==
  /\ \A f \in Flushes : flush'[f].stage = flush[f].stage
  /\ Driving' => Driving
  /\ bufferTimer' => bufferTimer \/ TakesSchedule
  /\ UNCHANGED deployment

LEMMA ScheduleTaken ==
  ASSUME TypeInv, NEW needed, ScheduleFlush(needed)
  PROVE  bufferTimer' => bufferTimer \/ TakesSchedule
  BY DEF ScheduleFlush, TypeInv, TypeOK

\* The lock is released, or kept by an operation that is no segment.
LEMMA ReleaseIdles ==
  ASSUME Release
  PROVE  Driving' => Driving
  BY DEF Release, Driving

LEMMA ContinueIdles ==
  ASSUME ContinueSending, sendLoop \/ Head(chain).op # "segment"
  PROVE  Driving' => Driving
  BY DEF ContinueSending, Driving

LEMMA EnqueueIdles ==
  ASSUME TypeInv, NEW o \in Operations, Enqueue(o), UNCHANGED sendLoop
  PROVE  Driving' => Driving
<1>1. CASE sendLoop
  <2>1. chain # <<>> /\ chain \in Seq(Operations)
    BY <1>1 DEF TypeInv, TypeOK, LockIsHeld
  <2>2. Head(chain') = Head(chain)
    BY <2>1, HeadTailAppend DEF Enqueue
  <2> QED
    BY <2>2 DEF Driving
<1>2. CASE ~sendLoop
  BY <1>2 DEF Driving
<1> QED
  BY <1>1, <1>2

LEMMA HandleWindowClosedNoJob ==
  ASSUME TypeInv, NEW r, NEW armed, HandleWindowClosed(r, armed),
         sendLoop \/ Head(chain).op # "segment"
  PROVE  (Driving' => Driving) /\ (bufferTimer' => bufferTimer \/ TakesSchedule)
<1>1. ASSUME NEW q, AdvanceAndContinue(q)
      PROVE  (Driving' => Driving) /\ UNCHANGED bufferTimer
  BY <1>1, ContinueIdles DEF AdvanceAndContinue
<1>2. ASSUME NEW q, FinalizeTurn(q), Release
      PROVE  (Driving' => Driving) /\ (bufferTimer' => bufferTimer \/ TakesSchedule)
  BY <1>2, ReleaseIdles, ScheduleTaken DEF FinalizeTurn
<1>3. CASE ContinueSending /\ UNCHANGED bufferTimer
  BY <1>3, ContinueIdles
<1> QED
  BY <1>1, <1>2, <1>3, Zenon DEF HandleWindowClosed

LEMMA InboundNoJob ==
  ASSUME TypeInv, Inbound
  PROVE  StartsNoJob
<1>1. CASE DropInbound
  BY <1>1, ReleaseIdles DEF DropInbound, StartsNoJob
<1>2. CASE BufferInbound
  BY <1>2, ReleaseIdles, ScheduleTaken DEF BufferInbound, AcceptInbound, StartsNoJob
<1>3. CASE StashLateArrival
  <2>1. \A f \in Flushes : flush[f] \in FlushRecords
    BY DEF TypeInv, TypeOK
  <2>2. \A x \in FlushRecords : [x EXCEPT !.aborted = TRUE].stage = x.stage
    BY Zenon DEF FlushRecords
  <2>3. \A f \in Flushes : flush'[f] \in {flush[f], [flush[f] EXCEPT !.aborted = TRUE]}
    BY <1>3 DEF StashLateArrival
  <2>4. \A f \in Flushes : flush'[f].stage = flush[f].stage
    BY <2>1, <2>2, <2>3
  <2> QED
    BY <1>3, <2>4, ReleaseIdles DEF StashLateArrival, AcceptInbound, StartsNoJob
<1>4. CASE InterruptSending
  BY <1>4, ReleaseIdles, ScheduleTaken DEF InterruptSending, AcceptInbound, StartsNoJob
<1> QED
  BY <1>1, <1>2, <1>3, <1>4 DEF Inbound

LEMMA SendStepNoJob ==
  ASSUME TypeInv, SendStep
  PROVE  StartsNoJob
<1>1. CASE SendLoopEnds
  BY <1>1, ReleaseIdles, ScheduleTaken DEF SendLoopEnds, FinalizeTurn, StartsNoJob
<1>2. ASSUME NEW item, SendFireAndForget(item)
      PROVE  StartsNoJob
  BY <1>2, ContinueIdles DEF SendFireAndForget, Sending, AdvanceAndContinue, StartsNoJob
<1>3. ASSUME NEW item, SendOnSend(item)
      PROVE  StartsNoJob
  BY <1>3, ContinueIdles DEF SendOnSend, Sending, StartsNoJob
<1>4. ASSUME NEW item, SendOnStatus(item)
      PROVE  StartsNoJob
  BY <1>4, ReleaseIdles DEF SendOnStatus, StartsNoJob
<1>5. ASSUME NEW item, SendFailsTransient(item)
      PROVE  StartsNoJob
  BY <1>5, ReleaseIdles DEF SendFailsTransient, ScheduleRetry, StartsNoJob
<1>6. ASSUME NEW item, SendSkips(item)
      PROVE  StartsNoJob
  BY <1>6, ContinueIdles DEF SendSkips, Sending, AdvanceAndContinue, StartsNoJob
<1>7. ASSUME NEW item, SendFindsWindowClosed(item)
      PROVE  StartsNoJob
  BY <1>7, HandleWindowClosedNoJob DEF SendFindsWindowClosed, Sending, StartsNoJob
<1> QED
  BY <1>1, <1>2, <1>3, <1>4, <1>5, <1>6, <1>7 DEF SendStep

LEMMA StatusNoJob ==
  ASSUME TypeInv, Status
  PROVE  StartsNoJob
<1>1. CASE DropStatus
  BY <1>1, ReleaseIdles DEF DropStatus, StartsNoJob
<1>2. ASSUME NEW h \in handles, NoteStatus(h)
      PROVE  StartsNoJob
  BY <1>2, ReleaseIdles DEF NoteStatus, StartsNoJob
<1>3. ASSUME NEW h \in handles, StatusAdvances(h)
      PROVE  StartsNoJob
  BY <1>3, ContinueIdles DEF StatusAdvances, HoldsStatus, Holds, AdvanceAndContinue, StartsNoJob
<1>4. ASSUME NEW h \in handles, StatusFailsTransient(h)
      PROVE  StartsNoJob
  BY <1>4, ReleaseIdles DEF StatusFailsTransient, StatusFails, ScheduleRetry, StartsNoJob
<1>5. ASSUME NEW h \in handles, StatusSkips(h)
      PROVE  StartsNoJob
  BY <1>5, ContinueIdles
     DEF StatusSkips, StatusFails, HoldsStatus, Holds, AdvanceAndContinue, StartsNoJob
<1>6. ASSUME NEW h \in handles, StatusFindsWindowClosed(h)
      PROVE  StartsNoJob
  BY <1>6, HandleWindowClosedNoJob
     DEF StatusFindsWindowClosed, StatusFails, HoldsStatus, Holds, StartsNoJob
<1> QED
  BY <1>1, <1>2, <1>3, <1>4, <1>5, <1>6 DEF Status

LEMMA TimerNoJob ==
  ASSUME TypeInv, Timer
  PROVE  StartsNoJob
<1>1. CASE TimeoutAdvances
  BY <1>1, ContinueIdles DEF TimeoutAdvances, Holds, AdvanceAndContinue, StartsNoJob
<1>2. CASE RetrySends
  BY <1>2, ContinueIdles DEF RetrySends, Holds, StartsNoJob
<1>3. CASE DropTimeout \/ DropRetry
  BY <1>3, ReleaseIdles DEF DropTimeout, DropRetry, StartsNoJob
<1> QED
  BY <1>1, <1>2, <1>3 DEF Timer

\* A webhook, or a delivery or retry timer, chains an operation that is no segment.
LEMMA WebhookNoJob ==
  ASSUME TypeInv, Webhook
  PROVE  StartsNoJob
<1>1. ASSUME NEW m \in Messages \union Echoes, ReceiveInbound(m)
      PROVE  StartsNoJob
  <2>1. [op |-> "inbound", message |-> m] \in Operations
    BY DEF Operations
  <2> QED
    BY <1>1, <2>1, EnqueueIdles DEF ReceiveInbound, StartsNoJob
<1>2. ASSUME NEW h \in handles, NEW s \in Statuses, ReceiveStatus(h, s)
      PROVE  StartsNoJob
  <2>1. [op |-> "status", id |-> h.id, status |-> s] \in Operations
    BY DEF Operations, TypeInv, TypeOK
  <2> QED
    BY <1>2, <2>1, EnqueueIdles DEF ReceiveStatus, StartsNoJob
<1> QED
  BY <1>1, <1>2 DEF Webhook

LEMMA DeliveryTimersNoJob ==
  ASSUME TypeInv,
         \/ \E i \in deliveryTimeouts : DeliveryTimerFires(i)
         \/ \E t \in transientRetryTimers : RetryTimerFires(t)
  PROVE  StartsNoJob
<1>1. ASSUME NEW i \in deliveryTimeouts, DeliveryTimerFires(i)
      PROVE  StartsNoJob
  <2>1. [op |-> "timeout", messageIndex |-> i] \in Operations
    BY DEF Operations, TypeInv, TypeOK
  <2> QED
    BY <1>1, <2>1, EnqueueIdles DEF DeliveryTimerFires, StartsNoJob
<1>2. ASSUME NEW t \in transientRetryTimers, RetryTimerFires(t)
      PROVE  StartsNoJob
  <2>1. [op |-> "retry", timer |-> t] \in Operations
    BY DEF Operations, TypeInv, TypeOK
  <2> QED
    BY <1>2, <2>1, EnqueueIdles DEF RetryTimerFires, StartsNoJob
<1> QED
  BY <1>1, <1>2

\* Whatever starts no job keeps the jobs apart.
LEMMA NoJobKeeps ==
  ASSUME OneJob, StartsNoJob
  PROVE  OneJob'
<1> SUFFICES ASSUME Scheduler' = "bullmq"
             PROVE  /\ \A f, g \in Flushes : Alive(f)' /\ Alive(g)' => f = g
                    /\ \A f \in Flushes : Alive(f)' => ~Driving'
                    /\ bufferTimer' => ~JobActive'
  BY DEF OneJob
<1>1. Scheduler = "bullmq"
  BY DEF StartsNoJob, Scheduler
<1>2. \A f \in Flushes : Alive(f)' <=> Alive(f)
  BY DEF StartsNoJob, Alive
<1>3. (Driving' => Driving) /\ (bufferTimer' => ~JobActive)
  BY <1>1 DEF StartsNoJob, OneJob, TakesSchedule
<1>4. JobActive' => JobActive
  BY <1>2, <1>3 DEF JobActive, Alive, Driving
<1> QED
  BY <1>1, <1>2, <1>3, <1>4 DEF OneJob

-----------------------------------------------------------------------------
(* The steps of a job *)

\* A step of the flush f, which holds the lock or waits for the chat endpoint.
JobStep(f) ==
  /\ Alive(f)
  /\ \A g \in Flushes : g # f => flush'[g] = flush[g]
  /\ Driving' => Driving \/ flush'[f].stage = "free"
  /\ bufferTimer' => bufferTimer \/ TakesSchedule
  /\ UNCHANGED deployment

LEMMA SegmentIsJobStep ==
  ASSUME TypeInv, NEW f \in Flushes, Segment(f)
  PROVE  JobStep(f)
<1>1. ASSUME NEW x, flush' = [flush EXCEPT ![f] = x]
      PROVE  flush'[f] = x /\ \A g \in Flushes : g # f => flush'[g] = flush[g]
  BY <1>1, FlushAt
<1>2. FreeFlush.stage = "free"
  BY DEF FreeFlush
<1>3. ASSUME NEW stage, HoldsSegment(f, stage), stage # "free"
      PROVE  Alive(f)
  BY <1>3 DEF HoldsSegment, Alive
<1>4. CASE PrepareNothing(f)
  BY <1>1, <1>2, <1>3, <1>4, ReleaseIdles DEF PrepareNothing, JobStep
<1>5. CASE PrepareNoAdapter(f)
  BY <1>1, <1>2, <1>3, <1>5, ReleaseIdles DEF PrepareNoAdapter, JobStep
<1>6. CASE PrepareBatch(f)
  <2>1. \A g \in Flushes : g # f => flush'[g] = flush[g]
    BY <1>1, <1>6, Zenon DEF PrepareBatch
  <2> QED
    BY <1>3, <1>6, <2>1, ReleaseIdles DEF PrepareBatch, JobStep
<1>7. CASE RescueLateArrivals(f)
  BY <1>1, <1>2, <1>3, <1>7, ReleaseIdles, ScheduleTaken DEF RescueLateArrivals, JobStep
<1>8. CASE EndFailedTurn(f)
  BY <1>1, <1>2, <1>3, <1>8, ReleaseIdles DEF EndFailedTurn, JobStep
<1>9. CASE Rebatch(f)
  BY <1>1, <1>2, <1>3, <1>9, ReleaseIdles, ScheduleTaken DEF Rebatch, JobStep
<1>10. CASE EndSilentTurn(f)
  BY <1>1, <1>2, <1>3, <1>10, ReleaseIdles, ScheduleTaken DEF EndSilentTurn, FinalizeTurn, JobStep
<1>11. CASE AttachQueue(f)
  <2>1. ~Driving'
    BY <1>11 DEF AttachQueue, HoldsSegment, Holds, Driving
  <2>2. \A g \in Flushes : g # f => flush'[g] = flush[g]
    BY <1>1, <1>11, Zenon DEF AttachQueue
  <2> QED
    BY <1>3, <1>11, <2>1, <2>2 DEF AttachQueue, JobStep
<1>12. CASE DriveDelivery(f)
  BY <1>1, <1>2, <1>3, <1>12 DEF DriveDelivery, JobStep
<1>13. CASE FallThroughAtCap(f)
  <2>1. ~Driving'
    BY <1>13 DEF FallThroughAtCap, HoldsSegment, Holds, Driving
  <2>2. \A g \in Flushes : g # f => flush'[g] = flush[g]
    BY <1>1, <1>13, Zenon DEF FallThroughAtCap
  <2> QED
    BY <1>3, <1>13, <2>1, <2>2 DEF FallThroughAtCap, JobStep
<1>14. CASE ForceIdle(f)
  BY <1>1, <1>2, <1>3, <1>14, ReleaseIdles DEF ForceIdle, JobStep
<1> QED
  BY <1>4, <1>5, <1>6, <1>7, <1>8, <1>9, <1>10, <1>11, <1>12, <1>13, <1>14
     DEF Segment, EndAtPrepare

LEMMA ChatStepIsJobStep ==
  ASSUME TypeInv, NEW f \in Flushes, ChatStep(f)
  PROVE  JobStep(f)
<1>1. ASSUME NEW settled, ChatSettles(f, settled)
      PROVE  JobStep(f)
  <2>1. [op |-> "segment", flush |-> f] \in Operations
    BY DEF Operations
  <2>2. Driving' => Driving
    BY <1>1, <2>1, EnqueueIdles DEF ChatSettles
  <2> QED
    BY <1>1, <2>2, FlushAt DEF ChatSettles, JobStep, Alive
<1> QED
  BY <1>1, Zenon DEF ChatStep, ChatReplies, ChatRejects

LEMMA JobStepKeeps ==
  ASSUME OneJob, NEW f \in Flushes, JobStep(f)
  PROVE  OneJob'
<1> SUFFICES ASSUME Scheduler' = "bullmq"
             PROVE  /\ \A g, h \in Flushes : Alive(g)' /\ Alive(h)' => g = h
                    /\ \A g \in Flushes : Alive(g)' => ~Driving'
                    /\ bufferTimer' => ~JobActive'
  BY DEF OneJob
<1>1. Scheduler = "bullmq" /\ Alive(f)
  BY DEF JobStep, Scheduler
<1>2. \A g \in Flushes : Alive(g)' => g = f
  BY <1>1 DEF OneJob, JobStep, Alive
<1>3. ~Driving /\ JobActive
  BY <1>1 DEF OneJob, JobActive, Alive
<1>4. ~bufferTimer'
  BY <1>1, <1>3 DEF JobStep, OneJob, TakesSchedule
<1>5. \A g \in Flushes : Alive(g)' => ~Driving'
  BY <1>2, <1>3 DEF JobStep, Alive
<1> QED
  BY <1>2, <1>4, <1>5

\* A scheduled flush is fired when no other is alive.
LEMMA BufferTimerKeepsOneJob ==
  ASSUME TypeInv, OneJob, NEW f \in Flushes, BufferTimerFires(f)
  PROVE  OneJob'
<1> SUFFICES ASSUME Scheduler' = "bullmq"
             PROVE  /\ \A g, h \in Flushes : Alive(g)' /\ Alive(h)' => g = h
                    /\ \A g \in Flushes : Alive(g)' => ~Driving'
                    /\ bufferTimer' => ~JobActive'
  BY DEF OneJob
<1>1. Scheduler = "bullmq" /\ ~JobActive
  BY DEF BufferTimerFires, Scheduler, OneJob
<1>2. \A g \in Flushes : g # f => flush'[g] = flush[g]
  BY FlushAt DEF BufferTimerFires
<1>3. \A g \in Flushes : Alive(g)' => g = f
  BY <1>1, <1>2 DEF JobActive, Alive
<1>4. [op |-> "segment", flush |-> f] \in Operations
  BY DEF Operations
<1>5. ~Driving'
  BY <1>1, <1>4, EnqueueIdles DEF BufferTimerFires, JobActive, Driving
<1> QED
  BY <1>3, <1>5 DEF BufferTimerFires

LEMMA InitOneJob == Init => OneJob
  BY DEF Init, OneJob, Alive, Driving, FreeFlush

LEMMA StepOneJob ==
  ASSUME TypeInv, OneJob, [Next]_vars
  PROVE  OneJob'
<1>1. CASE UNCHANGED vars
  BY <1>1 DEF vars, OneJob, Scheduler, Alive, Driving, JobActive
<1> QED
  BY <1>1, WebhookNoJob, InboundNoJob, SendStepNoJob, StatusNoJob, TimerNoJob,
     DeliveryTimersNoJob, NoJobKeeps, SegmentIsJobStep, ChatStepIsJobStep, JobStepKeeps,
     BufferTimerKeepsOneJob DEF Next, LockStep, TimerFires

-----------------------------------------------------------------------------
(* Aborted turns are below the cap *)

\* Delivery never raises the count of reprocessed turns.
LEMMA FinalizedCount ==
  ASSUME NEW r \in Records
  PROVE  FinalizedRecord(r).reprocessCount <= r.reprocessCount
<1>1. r.reprocessCount \in Nat
  BY DEF Records
<1>2. FinalizedRecord(r).reprocessCount \in {0, r.reprocessCount}
  BY Zenon DEF FinalizedRecord, Records
<1> QED
  BY <1>1, <1>2

LEMMA HandleWindowClosedCount ==
  ASSUME NEW r \in Records, NEW armed, HandleWindowClosed(r, armed)
  PROVE  record'.reprocessCount <= r.reprocessCount
<1> DEFINE reprompted == [r EXCEPT !.windowReprompted = TRUE]
<1>1. reprompted \in Records /\ SameInput(r, reprompted)
  BY TRUE \in BOOLEAN, Zenon DEF Records, SameInput
<1> HIDE DEF reprompted
<1>2. r.reprocessCount \in Nat /\ reprompted.reprocessCount = r.reprocessCount
  BY <1>1 DEF Records, SameInput
<1>3. ASSUME NEW q \in Records, q.reprocessCount = r.reprocessCount,
             AdvanceAndContinue(SkippedRecord(q))
      PROVE  record'.reprocessCount <= r.reprocessCount
  BY <1>2, <1>3, SkippedInput DEF AdvanceAndContinue, SameInput
<1>4. CASE FinalizeTurn(reprompted)
  BY <1>1, <1>2, <1>4, FinalizedCount DEF FinalizeTurn
<1>5. ASSUME NEW reply,
             record' = [reprompted EXCEPT
                          !.outboundQueue = BuildOutboundItems(reply, lastId),
                          !.currentOutboundIndex = 0,
                          !.currentOutboundMessageId = None]
      PROVE  record'.reprocessCount <= r.reprocessCount
  <2>1. record'.reprocessCount = reprompted.reprocessCount
    BY <1>1, <1>5, Zenon DEF Records
  <2> QED
    BY <1>2, <2>1
<1> QED
  BY <1>1, <1>2, <1>3, <1>4, <1>5, Zenon DEF HandleWindowClosed, reprompted

LEMMA DeliveryCount ==
  ASSUME TypeInv, DeliveryStep
  PROVE  record'.reprocessCount <= record.reprocessCount
<1>1. PICK r \in Records : SameInput(record, r) /\ Delivers(r)
  BY DEF DeliveryStep
<1>2. r.reprocessCount = record.reprocessCount /\ r.reprocessCount \in Nat
  BY <1>1 DEF SameInput, Records
<1>3. record'.reprocessCount <= r.reprocessCount
  BY <1>1, <1>2, AdvancedInput, SkippedInput, FinalizedCount, HandleWindowClosedCount
     DEF Delivers, FinalizeTurn, SameInput
<1> QED
  BY <1>2, <1>3

LEMMA CountType ==
  ASSUME TypeInv
  PROVE  record.reprocessCount \in Nat /\ MaxReprocess \in Nat
  BY BoundsAssumption DEF TypeInv, TypeOK, Records

\* A step that leaves the flushes and does not raise the count.
LEMMA CapKept ==
  ASSUME TypeInv, TypeInv', AbortedBelowCap,
         record'.reprocessCount <= record.reprocessCount,
         UNCHANGED <<flush, inFlightChatAborts, deployment>>
  PROVE  AbortedBelowCap'
<1>1. /\ record.reprocessCount \in Nat /\ MaxReprocess \in Nat
      /\ record'.reprocessCount \in Nat
  BY CountType DEF TypeInv, TypeOK, Records
<1>2. record.reprocessCount < MaxReprocess => record'.reprocessCount < MaxReprocess
  BY <1>1
<1> QED
  BY <1>2, Zenon DEF AbortedBelowCap, Scheduler

LEMMA InboundCap ==
  ASSUME TypeInv, TypeInv', AbortedBelowCap, Inbound
  PROVE  AbortedBelowCap'
<1>1. record \in Records /\ record.reprocessCount \in Nat
  BY CountType DEF TypeInv, TypeOK
<1>2. CASE DropInbound
  BY <1>1, <1>2, CapKept DEF DropInbound
<1>3. CASE BufferInbound
  <2>1. record'.reprocessCount = record.reprocessCount
    BY <1>1, <1>3, Zenon DEF BufferInbound, Records
  <2> QED
    BY <1>1, <1>3, <2>1, CapKept DEF BufferInbound, AcceptInbound
<1>4. CASE StashLateArrival
  <2>1. record'.reprocessCount = record.reprocessCount
    BY <1>1, <1>4, Zenon DEF StashLateArrival, Records
  <2>2. \A f \in Flushes : flush[f] \in FlushRecords
    BY DEF TypeInv, TypeOK
  <2>3. \A x \in FlushRecords : [x EXCEPT !.aborted = TRUE].stage = x.stage
    BY Zenon DEF FlushRecords
  <2>4. \A f \in Flushes :
          flush'[f] = IF f \in inFlightChatAborts THEN [flush[f] EXCEPT !.aborted = TRUE]
                      ELSE flush[f]
    BY <1>4, Zenon DEF StashLateArrival
  <2>5. \A f \in Flushes : flush'[f].stage = flush[f].stage
    BY <2>2, <2>3, <2>4
  <2>6. inFlightChatAborts \subseteq Flushes
    BY DEF TypeInv, TypeOK
  <2> QED
    BY <1>4, <2>1, <2>4, <2>5, <2>6 DEF StashLateArrival, AbortedBelowCap, Scheduler
<1>5. CASE InterruptSending
  <2>1. record'.reprocessCount = 0
    BY <1>1, <1>5, Zenon DEF InterruptSending, InterruptedRecord, Records
  <2> QED
    BY <1>1, <1>5, <2>1, CapKept DEF InterruptSending
<1> QED
  BY <1>2, <1>3, <1>4, <1>5 DEF Inbound

\* After a step of the one flush that is alive, no other has a controller or an
\* aborted turn.
LEMMA JobCap ==
  ASSUME TypeInv, TypeInv', OneJob, AbortedBelowCap, NEW f \in Flushes, JobStep(f),
         flush'[f].stage \in {"chat", "decide"} /\ flush'[f].aborted
           => record'.reprocessCount < MaxReprocess,
         inFlightChatAborts' \subseteq inFlightChatAborts \union {f},
         f \in inFlightChatAborts' =>
           flush'[f].stage = "chat" /\ record'.reprocessCount < MaxReprocess
  PROVE  AbortedBelowCap'
<1> SUFFICES ASSUME Scheduler' = "bullmq"
             PROVE  /\ \A g \in inFlightChatAborts' :
                         flush'[g].stage = "chat" /\ record'.reprocessCount < MaxReprocess
                    /\ \A g \in Flushes :
                         flush'[g].stage \in {"chat", "decide"} /\ flush'[g].aborted
                           => record'.reprocessCount < MaxReprocess
  BY DEF AbortedBelowCap
<1>1. Scheduler = "bullmq" /\ Alive(f) /\ inFlightChatAborts \subseteq Flushes
  BY DEF JobStep, Scheduler, TypeInv, TypeOK
<1>2. \A g \in Flushes : g # f => flush[g].stage = "free" /\ flush'[g] = flush[g]
  BY <1>1 DEF OneJob, JobStep, Alive
<1>3. \A g \in inFlightChatAborts : g = f
  BY <1>1, <1>2 DEF AbortedBelowCap
<1> QED
  BY <1>2, <1>3

LEMMA SegmentCap ==
  ASSUME TypeInv, TypeInv', OneJob, AbortedBelowCap, NEW f \in Flushes, Segment(f)
  PROVE  AbortedBelowCap'
<1>1. JobStep(f) /\ record \in Records /\ record.reprocessCount \in Nat /\ MaxReprocess \in Nat
  BY SegmentIsJobStep, CountType DEF TypeInv, TypeOK
<1>2. FreeFlush.stage = "free" /\ ~FreeFlush.aborted
  BY DEF FreeFlush
<1>3. ASSUME NEW stage, HoldsSegment(f, stage), stage # "chat",
             NEW x, flush' = [flush EXCEPT ![f] = x], x.stage \in {"free", "drive"},
             inFlightChatAborts' \subseteq inFlightChatAborts
      PROVE  AbortedBelowCap'
  <2>1. flush'[f].stage \in {"free", "drive"}
    BY <1>3, FlushAt
  <2>2. CASE Scheduler = "bullmq"
    <3>1. f \notin inFlightChatAborts
      BY <1>3, <2>2 DEF AbortedBelowCap, HoldsSegment
    <3> QED
      BY <1>1, <1>3, <2>1, <3>1, JobCap
  <2>3. CASE Scheduler # "bullmq"
    BY <1>1, <2>3 DEF JobStep, Scheduler, AbortedBelowCap
  <2> QED
    BY <2>2, <2>3
<1>4. CASE PrepareNothing(f)
  BY <1>2, <1>3, <1>4 DEF PrepareNothing
<1>5. CASE PrepareNoAdapter(f)
  BY <1>2, <1>3, <1>5 DEF PrepareNoAdapter
<1>6. CASE PrepareBatch(f)
  <2> DEFINE taken == [FreeFlush EXCEPT !.stage = "chat", !.batch = record.inboundBuffer]
  <2>1. taken.stage = "chat" /\ ~taken.aborted
    BY DEF FreeFlush
  <2>2. flush' = [flush EXCEPT ![f] = taken]
    BY <1>6, Zenon DEF PrepareBatch
  <2> HIDE DEF taken
  <2>3. flush'[f].stage = "chat" /\ ~flush'[f].aborted
    BY <2>1, <2>2, FlushAt
  <2>4. record'.reprocessCount = record.reprocessCount
    BY <1>1, <1>6, Zenon DEF PrepareBatch, Records
  <2>5. inFlightChatAborts' = IF IsCommitted THEN inFlightChatAborts ELSE {f}
    BY <1>6 DEF PrepareBatch
  <2>6. flush[f].stage = "prepare"
    BY <1>6 DEF PrepareBatch, HoldsSegment
  <2>7. CASE Scheduler = "bullmq"
    <3>1. f \notin inFlightChatAborts
      BY <2>6, <2>7 DEF AbortedBelowCap
    <3> QED
      BY <1>1, <2>3, <2>4, <2>5, <3>1, JobCap DEF IsCommitted
  <2>8. CASE Scheduler # "bullmq"
    BY <1>1, <2>8 DEF JobStep, Scheduler, AbortedBelowCap
  <2> QED
    BY <2>7, <2>8
<1>7. CASE RescueLateArrivals(f)
  BY <1>2, <1>3, <1>7 DEF RescueLateArrivals
<1>8. CASE EndFailedTurn(f)
  BY <1>2, <1>3, <1>8 DEF EndFailedTurn
<1>9. CASE Rebatch(f)
  BY <1>2, <1>3, <1>9 DEF Rebatch
<1>10. CASE EndSilentTurn(f)
  BY <1>2, <1>3, <1>10 DEF EndSilentTurn
<1>11. CASE AttachQueue(f)
  <2> DEFINE driving == [FreeFlush EXCEPT !.stage = "drive"]
  <2>1. flush' = [flush EXCEPT ![f] = driving] /\ driving.stage = "drive"
    BY <1>11 DEF AttachQueue, FreeFlush
  <2> HIDE DEF driving
  <2> QED
    BY <1>3, <1>11, <2>1 DEF AttachQueue
<1>12. CASE DriveDelivery(f) \/ ForceIdle(f)
  BY <1>2, <1>3, <1>12 DEF DriveDelivery, ForceIdle
<1>13. CASE FallThroughAtCap(f)
  <2>1. CASE Scheduler = "bullmq"
    BY <1>1, <1>13, <2>1 DEF FallThroughAtCap, HoldsSegment, IsCommitted, AbortedBelowCap
  <2>2. CASE Scheduler # "bullmq"
    BY <1>1, <2>2 DEF JobStep, Scheduler, AbortedBelowCap
  <2> QED
    BY <2>1, <2>2
<1> QED
  BY <1>4, <1>5, <1>6, <1>7, <1>8, <1>9, <1>10, <1>11, <1>12, <1>13 DEF Segment, EndAtPrepare

LEMMA ChatStepCap ==
  ASSUME TypeInv, TypeInv', OneJob, AbortedBelowCap, NEW f \in Flushes, ChatStep(f)
  PROVE  AbortedBelowCap'
<1>1. JobStep(f) /\ flush[f] \in FlushRecords
  BY ChatStepIsJobStep DEF TypeInv, TypeOK
<1>2. ASSUME NEW settled, ChatSettles(f, settled),
             settled.aborted => flush[f].aborted
      PROVE  AbortedBelowCap'
  <2>1. /\ flush'[f] = settled /\ inFlightChatAborts' = {}
        /\ flush[f].stage = "chat" /\ UNCHANGED record
    BY <1>2, FlushAt DEF ChatSettles
  <2>2. CASE Scheduler = "bullmq"
    <3>1. flush[f].aborted => record.reprocessCount < MaxReprocess
      BY <2>1, <2>2 DEF AbortedBelowCap
    <3> QED
      BY <1>1, <1>2, <2>1, <3>1, JobCap
  <2>3. CASE Scheduler # "bullmq"
    BY <1>1, <2>3 DEF JobStep, Scheduler, AbortedBelowCap
  <2> QED
    BY <2>2, <2>3
<1>3. CASE ChatRejects(f)
  <2> DEFINE s == IF flush[f].aborted THEN "decide" ELSE "rescue"
             settled == [flush[f] EXCEPT !.stage = s]
  <2>1. settled.aborted = flush[f].aborted
    BY <1>1, Zenon DEF FlushRecords
  <2>2. ChatSettles(f, settled)
    BY <1>3, Zenon DEF ChatRejects
  <2> HIDE DEF settled
  <2> QED
    BY <1>2, <2>1, <2>2
<1>4. ASSUME NEW reply \in Replies, ChatReplies(f, reply)
      PROVE  AbortedBelowCap'
  <2> DEFINE settled ==
        [flush[f] EXCEPT !.stage = "decide", !.aborted = FALSE, !.reply = reply]
  <2>1. ~settled.aborted
    BY <1>1, Zenon DEF FlushRecords
  <2>2. ChatSettles(f, settled)
    BY <1>4, Zenon DEF ChatReplies
  <2> HIDE DEF settled
  <2> QED
    BY <1>2, <2>1, <2>2
<1> QED
  BY <1>3, <1>4 DEF ChatStep

LEMMA BufferTimerCap ==
  ASSUME TypeInv, AbortedBelowCap, NEW f \in Flushes, BufferTimerFires(f)
  PROVE  AbortedBelowCap'
<1>1. flush[f] \in FlushRecords /\ inFlightChatAborts \subseteq Flushes
  BY DEF TypeInv, TypeOK
<1>2. flush' = [flush EXCEPT ![f] = [flush[f] EXCEPT !.stage = "prepare"]]
  BY Zenon DEF BufferTimerFires
<1>3. [flush[f] EXCEPT !.stage = "prepare"].stage = "prepare"
  BY <1>1, Zenon DEF FlushRecords
<1>4. flush'[f].stage = "prepare" /\ \A g \in Flushes : g # f => flush'[g] = flush[g]
  BY <1>2, <1>3, FlushAt
<1>5. Scheduler = "bullmq" => f \notin inFlightChatAborts
  BY DEF BufferTimerFires, AbortedBelowCap
<1> QED
  BY <1>1, <1>4, <1>5 DEF BufferTimerFires, AbortedBelowCap, Scheduler

LEMMA SchedulerKept ==
  ASSUME TypeInv, [Next]_vars
  PROVE  UNCHANGED Scheduler
<1>1. CASE UNCHANGED deployment
  BY <1>1 DEF Scheduler
<1>2. CASE SendStep \/ Status \/ Timer
  BY <1>1, <1>2, SendStepDelivers, StatusDelivers, TimerDelivers DEF DeliveryStep
<1>3. CASE Inbound
  BY <1>1, <1>3, InboundNoJob DEF StartsNoJob
<1>4. CASE \E f \in Flushes : Segment(f) \/ ChatStep(f)
  BY <1>1, <1>4, SegmentIsJobStep, ChatStepIsJobStep DEF JobStep
<1>5. CASE Webhook \/ TimerFires \/ UNCHANGED vars
  BY <1>1, <1>5 DEF Webhook, ReceiveInbound, ReceiveStatus, TimerFires, BufferTimerFires,
     DeliveryTimerFires, RetryTimerFires, vars
<1> QED
  BY <1>2, <1>3, <1>4, <1>5 DEF Next, LockStep

\* On BullMQ no turn falls through at the cap, and none is about to force the
\* record to idle.
LEMMA FallsNowhere ==
  ASSUME JobInv, Scheduler = "bullmq", NEW f \in Flushes
  PROVE  ~FallThroughAtCap(f) /\ ~ForceIdle(f)
<1>1. ~FallThroughAtCap(f)
  BY CountType DEF JobInv, AbortedBelowCap, FallThroughAtCap, HoldsSegment, IsCommitted
<1>2. ~ForceIdle(f)
  BY DEF JobInv, NoneFell, DropSeen, ForceIdle, HoldsSegment
<1> QED
  BY <1>1, <1>2

LEMMA StepFalls ==
  ASSUME JobInv, [Next]_vars
  PROVE  DropSeen' /\ NoneFell'
<1>1. /\ DropSeen' /\ UNCHANGED Scheduler
      /\ fellThrough' <=> fellThrough \/ \E f \in Flushes : FallThroughAtCap(f)
  BY StepDrops, SchedulerKept DEF JobInv
<1>2. CASE Scheduler = "bullmq"
  BY <1>1, <1>2, FallsNowhere DEF JobInv, NoneFell
<1>3. CASE Scheduler # "bullmq"
  BY <1>1, <1>3 DEF NoneFell
<1> QED
  BY <1>1, <1>2, <1>3

LEMMA InitJob == Init => JobInv
<1> SUFFICES ASSUME Init PROVE JobInv
  OBVIOUS
<1>1. \A f \in Flushes : flush[f].stage = "free"
  BY DEF Init, FreeFlush
<1>2. inFlightChatAborts = {} /\ ~fellThrough
  BY DEF Init
<1> QED
  BY <1>1, <1>2, InitType, InitOneJob DEF JobInv, AbortedBelowCap, DropSeen, NoneFell

LEMMA StepJob == JobInv /\ [Next]_vars => JobInv'
<1> SUFFICES ASSUME JobInv, [Next]_vars PROVE JobInv'
  OBVIOUS
<1>1. /\ TypeInv /\ TypeInv' /\ OneJob /\ OneJob' /\ AbortedBelowCap
      /\ DropSeen' /\ NoneFell'
  BY StepType, StepOneJob, StepFalls DEF JobInv
<1>2. CASE DeliveryStep
  BY <1>1, <1>2, DeliveryCount, CapKept DEF DeliveryStep, JobInv
<1>3. CASE /\ UNCHANGED <<record, flush, inFlightChatAborts, deployment>>
  BY <1>1, <1>3, CountType, CapKept DEF JobInv
<1>4. CASE Webhook \/ UNCHANGED vars
  BY <1>3, <1>4 DEF Webhook, ReceiveInbound, ReceiveStatus, vars
<1>5. CASE TimerFires
  <2>1. ASSUME NEW i \in deliveryTimeouts, DeliveryTimerFires(i)
        PROVE  JobInv'
    BY <1>3, <2>1 DEF DeliveryTimerFires
  <2>2. ASSUME NEW t \in transientRetryTimers, RetryTimerFires(t)
        PROVE  JobInv'
    BY <1>3, <2>2 DEF RetryTimerFires
  <2> QED
    BY <1>1, <1>5, <2>1, <2>2, BufferTimerCap DEF TimerFires, JobInv
<1> QED
  BY <1>1, <1>2, <1>4, <1>5, InboundCap, SegmentCap, ChatStepCap, SendStepDelivers,
     StatusDelivers, TimerDelivers DEF Next, LockStep, JobInv

\* On BullMQ the conversation has one chat call or undecided turn at a time, a turn
\* whose call was aborted is below the cap in segment 2, and so none ever falls
\* through there: no schedule starts a second job of a key beside one that is active
\* (BullMQBufferScheduler.schedule).
THEOREM TurnsOneAtATime == Spec => []OneTurnOnBullMQ
<1>1. JobInv => OneTurnOnBullMQ
  <2> SUFFICES ASSUME JobInv, Scheduler = "bullmq" PROVE OneTurnAtATime
    BY DEF OneTurnOnBullMQ, JobInv, NoneFell
  <2>1. \A f, g \in Turns : f = g
    BY DEF JobInv, OneJob, Alive, Turns
  <2>2. Cardinality(Turns) <= 1
    <3>1. CASE Turns = {}
      BY <3>1, FS_EmptySet
    <3>2. CASE Turns # {}
      <4>1. PICK f \in Turns : Turns = {f}
        BY <2>1, <3>2
      <4>2. Cardinality({f}) = 1
        BY FS_Singleton
      <4> QED
        BY <4>1, <4>2
    <3> QED
      BY <3>1, <3>2
  <2> QED
    BY <2>2 DEF JobInv, AbortedBelowCap, OneTurnAtATime
<1> QED
  BY <1>1, InitJob, StepJob, PTL DEF Spec

-----------------------------------------------------------------------------
(* What delivery leaves of the input *)

\* What waits, in the order in which the next turn would take it.
Input(r) == r.inboundBuffer \o r.lateArrivals

LEMMA Associative ==
  ASSUME NEW s \in Seq(Messages), NEW t \in Seq(Messages), NEW u \in Seq(Messages)
  PROVE  (s \o t) \o u = s \o (t \o u)
  BY ConcatAssociative

LEMMA InputType ==
  ASSUME NEW r \in Records
  PROVE  /\ r.inboundBuffer \in Seq(Messages) /\ r.lateArrivals \in Seq(Messages)
         /\ Input(r) \in Seq(Messages)
  BY ConcatProperties DEF Input, Records

\* The late arrivals that are folded into the buffer keep their place.
LEMMA FoldedInput ==
  ASSUME NEW r \in Records, NEW q, q.inboundBuffer = Input(r), q.lateArrivals = <<>>
  PROVE  Input(q) = Input(r)
  BY InputType, ConcatEmptySeq DEF Input

\* The record keeps its state and what waits.
Stays(r) ==
  /\ record'.state = r.state
  /\ record'.inboundBuffer = r.inboundBuffer
  /\ record'.lateArrivals = r.lateArrivals
  /\ UNCHANGED bufferTimer

\* The turn ends with nothing late.
Ends(r) ==
  /\ r.lateArrivals = <<>>
  /\ ~Rebuffered(r)
  /\ record'.state = "idle"
  /\ record'.inboundBuffer = r.inboundBuffer
  /\ record'.lateArrivals = <<>>
  /\ UNCHANGED bufferTimer

\* The turn ends and the late arrivals are the next one.
Folds(r) ==
  /\ r.lateArrivals # <<>>
  /\ record'.state = "buffering"
  /\ record'.inboundBuffer = Input(r)
  /\ record'.lateArrivals = <<>>
  /\ ScheduleFlush(TRUE)

Outcome(r) == Stays(r) \/ Ends(r) \/ Folds(r)

LEMMA FinalizeOutcome ==
  ASSUME TypeInv, NEW r \in Records, FinalizeTurn(r)
  PROVE  Outcome(r)
<1> DEFINE q == FinalizedRecord(r)
<1>1. record' = q /\ ScheduleFlush(r.lateArrivals # <<>>)
  BY DEF FinalizeTurn
<1>2. r.lateArrivals = <<>> => UNCHANGED bufferTimer
  BY <1>1 DEF ScheduleFlush, TypeInv, TypeOK
<1>3. CASE r.lateArrivals # <<>>
  <2>1. q.state = "buffering" /\ q.inboundBuffer = Input(r) /\ q.lateArrivals = <<>>
    BY <1>3, Zenon DEF FinalizedRecord, Records, Input
  <2>2. ScheduleFlush(TRUE)
    BY <1>1, <1>3 DEF ScheduleFlush
  <2> QED
    BY <1>1, <1>3, <2>1, <2>2, Zenon DEF Outcome, Folds
<1>4. CASE r.lateArrivals = <<>> /\ Rebuffered(r)
  <2>1. q = r
    BY <1>4 DEF FinalizedRecord
  <2> QED
    BY <1>1, <1>2, <1>4, <2>1, Zenon DEF Outcome, Stays
<1>5. CASE r.lateArrivals = <<>> /\ ~Rebuffered(r)
  <2>1. q.state = "idle" /\ q.inboundBuffer = r.inboundBuffer /\ q.lateArrivals = <<>>
    BY <1>5, Zenon DEF FinalizedRecord, Records
  <2> QED
    BY <1>1, <1>2, <1>5, <2>1, Zenon DEF Outcome, Ends
<1> QED
  BY <1>3, <1>4, <1>5

\* Records that differ in the queue alone have the same outcome.
LEMMA SameOutcome ==
  ASSUME NEW r, NEW q, SameInput(r, q), Outcome(q)
  PROVE  Outcome(r)
  BY DEF SameInput, Outcome, Stays, Ends, Folds, Rebuffered, Input

LEMMA StaysAlike ==
  ASSUME NEW r, SameInput(r, record'), UNCHANGED bufferTimer
  PROVE  Outcome(r)
  BY DEF SameInput, Outcome, Stays

LEMMA HandleWindowClosedOutcome ==
  ASSUME TypeInv, NEW r \in Records, NEW armed, HandleWindowClosed(r, armed)
  PROVE  Outcome(r)
<1> DEFINE reprompted == [r EXCEPT !.windowReprompted = TRUE]
<1>1. reprompted \in Records /\ SameInput(r, reprompted)
  BY TRUE \in BOOLEAN, Zenon DEF Records, SameInput
<1> HIDE DEF reprompted
<1>2. ASSUME NEW q \in Records, AdvanceAndContinue(SkippedRecord(q))
      PROVE  Outcome(q)
  BY <1>2, SkippedInput, StaysAlike DEF AdvanceAndContinue
<1>3. CASE FinalizeTurn(reprompted)
  BY <1>1, <1>3, FinalizeOutcome, SameOutcome
<1>4. ASSUME NEW reply, UNCHANGED bufferTimer,
             record' = [reprompted EXCEPT
                          !.outboundQueue = BuildOutboundItems(reply, lastId),
                          !.currentOutboundIndex = 0,
                          !.currentOutboundMessageId = None]
      PROVE  Outcome(r)
  <2>1. SameInput(reprompted, record')
    BY <1>1, <1>4, Zenon DEF Records, SameInput
  <2> QED
    BY <1>1, <1>4, <2>1, StaysAlike, SameOutcome
<1> QED
  BY <1>1, <1>2, <1>3, <1>4, SameOutcome, Zenon DEF HandleWindowClosed, reprompted

LEMMA DeliveryOutcome ==
  ASSUME TypeInv, DeliveryStep
  PROVE  Outcome(record)
<1>1. PICK r \in Records : SameInput(record, r) /\ Delivers(r)
  BY DEF DeliveryStep
<1>2. SameInput(r, r)
  BY DEF SameInput
<1>3. Outcome(r)
  BY <1>1, <1>2, AdvancedInput, SkippedInput, StaysAlike, FinalizeOutcome,
     HandleWindowClosedOutcome, Zenon DEF Delivers
<1> QED
  BY <1>1, <1>3, SameOutcome

\* The late arrivals that are folded into the buffer keep their place.
LEMMA OutcomeOrder ==
  ASSUME NEW r \in Records, Outcome(r)
  PROVE  Input(record') = Input(r)
  BY FoldedInput DEF Outcome, Stays, Ends, Folds, Input

-----------------------------------------------------------------------------
(* In memory no flush is dropped *)

\* What waits for a flush still does, or one is scheduled.
KeepsAwaited(r) ==
  \/ record'.inboundBuffer = r.inboundBuffer /\ (bufferTimer => bufferTimer')
  \/ ScheduleFlush(TRUE)

LEMMA OutcomeAwaited ==
  ASSUME NEW r, Outcome(r)
  PROVE  KeepsAwaited(r)
  BY DEF Outcome, Stays, Ends, Folds, KeepsAwaited

\* A step that takes no flush to or from segment 1 and keeps what waits.
LEMMA AwaitedKept ==
  ASSUME TypeInv, AwaitedInMemory, KeepsAwaited(record), UNCHANGED deployment,
         \A f \in Flushes : flush[f].stage = "prepare" => flush'[f].stage = "prepare"
  PROVE  AwaitedInMemory'
  BY DEF AwaitedInMemory, Scheduler, HasAdapter, BufferedIsAwaited, Queued, KeepsAwaited,
     ScheduleFlush, TakesSchedule

LEMMA InboundAwaited ==
  ASSUME TypeInv, AwaitedInMemory, Inbound
  PROVE  AwaitedInMemory'
<1>1. CASE DropInbound
  BY <1>1, AwaitedKept DEF DropInbound, KeepsAwaited
<1>2. CASE BufferInbound
  BY <1>2, AwaitedKept DEF BufferInbound, KeepsAwaited
<1>3. CASE StashLateArrival
  <2>1. StartsNoJob
    BY <1>3, InboundNoJob DEF Inbound
  <2>2. record'.inboundBuffer = record.inboundBuffer
    BY <1>3, RecordItself, Zenon DEF StashLateArrival, Records
  <2> QED
    BY <1>3, <2>1, <2>2, AwaitedKept DEF StashLateArrival, StartsNoJob, KeepsAwaited
<1>4. CASE InterruptSending
  BY <1>4, AwaitedKept DEF InterruptSending, KeepsAwaited
<1> QED
  BY <1>1, <1>2, <1>3, <1>4 DEF Inbound

LEMMA SegmentAwaited ==
  ASSUME TypeInv, AwaitedInMemory, NEW f \in Flushes, Segment(f)
  PROVE  AwaitedInMemory'
<1>1. record \in Records
  BY DEF TypeInv, TypeOK
<1>2. ASSUME NEW stage, HoldsSegment(f, stage), stage # "prepare", KeepsAwaited(record)
      PROVE  AwaitedInMemory'
  <2>1. flush[f].stage # "prepare"
    BY <1>2 DEF HoldsSegment
  <2> QED
    BY <1>2, <2>1, SegmentIsJobStep, AwaitedKept DEF JobStep
<1>3. CASE PrepareNothing(f)
  BY <1>3 DEF PrepareNothing, AwaitedInMemory, BufferedIsAwaited
<1>4. CASE PrepareNoAdapter(f)
  BY <1>4 DEF PrepareNoAdapter, AwaitedInMemory, HasAdapter
<1>5. CASE PrepareBatch(f)
  <2>1. record'.inboundBuffer = <<>>
    BY <1>1, <1>5, Zenon DEF PrepareBatch, Records
  <2> QED
    BY <2>1 DEF AwaitedInMemory, BufferedIsAwaited
<1>6. CASE RescueLateArrivals(f)
  BY <1>2, <1>6 DEF RescueLateArrivals, KeepsAwaited
<1>7. CASE EndFailedTurn(f)
  <2>1. record'.inboundBuffer = record.inboundBuffer
    BY <1>1, <1>7, Zenon DEF EndFailedTurn, Records
  <2> QED
    BY <1>2, <1>7, <2>1 DEF EndFailedTurn, KeepsAwaited
<1>8. CASE Rebatch(f)
  BY <1>2, <1>8 DEF Rebatch, KeepsAwaited
<1>9. CASE EndSilentTurn(f)
  BY <1>1, <1>2, <1>9, FinalizeOutcome, OutcomeAwaited DEF EndSilentTurn
<1>10. CASE AttachQueue(f)
  <2>1. record'.inboundBuffer = record.inboundBuffer
    BY <1>1, <1>10, Zenon DEF AttachQueue, Records
  <2> QED
    BY <1>2, <1>10, <2>1 DEF AttachQueue, KeepsAwaited
<1>11. CASE DriveDelivery(f) \/ FallThroughAtCap(f)
  <2>1. PICK stage \in {"drive", "decide"} : HoldsSegment(f, stage)
    BY <1>11 DEF DriveDelivery, FallThroughAtCap
  <2>2. UNCHANGED <<record, bufferTimer>>
    BY <1>11 DEF DriveDelivery, FallThroughAtCap
  <2> QED
    BY <1>2, <2>1, <2>2 DEF KeepsAwaited
<1>12. CASE ForceIdle(f)
  <2>1. record'.inboundBuffer = record.inboundBuffer
    BY <1>1, <1>12, Zenon DEF ForceIdle, Records
  <2> QED
    BY <1>2, <1>12, <2>1 DEF ForceIdle, KeepsAwaited
<1> QED
  BY <1>3, <1>4, <1>5, <1>6, <1>7, <1>8, <1>9, <1>10, <1>11, <1>12 DEF Segment, EndAtPrepare

LEMMA ChatStepAwaited ==
  ASSUME TypeInv, AwaitedInMemory, NEW f \in Flushes, ChatStep(f)
  PROVE  AwaitedInMemory'
<1>1. \A g \in Flushes : g # f => flush'[g] = flush[g]
  BY ChatStepIsJobStep DEF JobStep
<1>2. flush[f].stage = "chat" /\ UNCHANGED <<record, bufferTimer, deployment>>
  BY DEF ChatStep, ChatRejects, ChatReplies, ChatSettles
<1> QED
  BY <1>1, <1>2, AwaitedKept DEF KeepsAwaited

LEMMA TimerFiresAwaited ==
  ASSUME TypeInv, AwaitedInMemory, TimerFires
  PROVE  AwaitedInMemory'
<1>1. ASSUME NEW f \in Flushes, BufferTimerFires(f)
      PROVE  AwaitedInMemory'
  <2>1. flush[f] \in FlushRecords
    BY DEF TypeInv, TypeOK
  <2>2. [flush[f] EXCEPT !.stage = "prepare"].stage = "prepare"
    BY <2>1, Zenon DEF FlushRecords
  <2>3. flush'[f].stage = "prepare"
    BY <1>1, <2>2, FlushAt DEF BufferTimerFires
  <2> QED
    BY <2>3 DEF AwaitedInMemory, BufferedIsAwaited, Queued
<1>2. ASSUME NEW i \in deliveryTimeouts, DeliveryTimerFires(i)
      PROVE  AwaitedInMemory'
  BY <1>2, AwaitedKept DEF DeliveryTimerFires, KeepsAwaited
<1>3. ASSUME NEW t \in transientRetryTimers, RetryTimerFires(t)
      PROVE  AwaitedInMemory'
  BY <1>3, AwaitedKept DEF RetryTimerFires, KeepsAwaited
<1> QED
  BY <1>1, <1>2, <1>3 DEF TimerFires

LEMMA StepAwaited ==
  ASSUME TypeInv, AwaitedInMemory, [Next]_vars
  PROVE  AwaitedInMemory'
<1>1. CASE Webhook \/ UNCHANGED vars
  <2>1. UNCHANGED <<record, bufferTimer, flush, deployment>>
    BY <1>1 DEF Webhook, ReceiveInbound, ReceiveStatus, vars
  <2> QED
    BY <2>1, AwaitedKept DEF KeepsAwaited
<1>2. CASE SendStep \/ Status \/ Timer
  <2>1. DeliveryStep
    BY <1>2, SendStepDelivers, StatusDelivers, TimerDelivers
  <2> QED
    BY <2>1, DeliveryOutcome, OutcomeAwaited, AwaitedKept DEF DeliveryStep
<1> QED
  BY <1>1, <1>2, InboundAwaited, SegmentAwaited, ChatStepAwaited, TimerFiresAwaited
     DEF Next, LockStep

\* With the in-memory scheduler buffered input always has a flush coming, with any
\* number of flushes overlapping: no path of handleInbound, flushImpl, sendNext or
\* their timers leaves a buffer without scheduling, or takes a flush without it.
THEOREM BufferAwaitedInMemory == Spec => []AwaitedInMemory
<1>1. Init => TypeInv /\ AwaitedInMemory
  <2> SUFFICES ASSUME Init PROVE TypeInv /\ AwaitedInMemory
    OBVIOUS
  <2>1. record.inboundBuffer = <<>>
    BY Zenon DEF Init
  <2> QED
    BY <2>1, InitType DEF AwaitedInMemory, BufferedIsAwaited
<1>2. (TypeInv /\ AwaitedInMemory) /\ [Next]_vars => (TypeInv /\ AwaitedInMemory)'
  BY StepType, StepAwaited
<1> QED
  BY <1>1, <1>2, PTL DEF Spec

-----------------------------------------------------------------------------
(* On BullMQ turns settle the messages in the order of their acceptance *)

\* What was accepted is what was settled, then the turn, then what waits.
InOrder ==
  Scheduler = "bullmq" =>
    /\ Turns = {} => accepted = answered \o Input(record)
    /\ \A f \in Turns : accepted = (answered \o flush[f].batch) \o Input(record)

OrderInv == KeptInv /\ JobInv /\ InOrder

\* On BullMQ no turn fell through, so the input is where it should be.
LEMMA OrderedInput ==
  ASSUME OrderInv, Scheduler = "bullmq"
  PROVE  TypeInv /\ record \in Records /\ InputInv(record) /\ InOrder
  BY DEF OrderInv, JobInv, NoneFell, KeptInv, LossInv, TypeInv, TypeOK

LEMMA OrderKept ==
  ASSUME InOrder, Input(record') = Input(record),
         UNCHANGED <<accepted, answered, flush, deployment>>
  PROVE  InOrder'
<1>1. Turns' = Turns
  BY DEF Turns
<1> QED
  BY <1>1 DEF InOrder, Scheduler

\* A message is accepted behind all that waits.
LEMMA AcceptOrder ==
  ASSUME OrderInv, NEW m \in Messages, accepted' = Append(accepted, m),
         Input(record') = Append(Input(record), m), UNCHANGED <<answered, deployment>>,
         \A f \in Flushes : flush'[f].stage = flush[f].stage /\ flush'[f].batch = flush[f].batch
  PROVE  InOrder'
<1>1. /\ Input(record) \in Seq(Messages) /\ answered \in Seq(Messages)
      /\ \A f \in Turns : flush[f].batch \in Seq(Messages)
  BY InputType DEF OrderInv, JobInv, TypeInv, TypeOK, FlushRecords, Turns
<1>2. Turns' = Turns /\ \A f \in Turns : flush'[f].batch = flush[f].batch
  BY DEF Turns
<1>3. ASSUME NEW s \in Seq(Messages), NEW t \in Seq(Messages)
      PROVE  Append(s \o t, m) = s \o Append(t, m)
  <2>1. s \o t \in Seq(Messages) /\ <<m>> \in Seq(Messages)
    BY ConcatProperties
  <2>2. Append(s \o t, m) = (s \o t) \o <<m>> /\ Append(t, m) = t \o <<m>>
    BY <2>1, AppendIsConcat
  <2> QED
    BY <2>1, <2>2, Associative
<1>4. \A f \in Turns : answered \o flush[f].batch \in Seq(Messages)
  BY <1>1, ConcatProperties
<1> DEFINE input == Input(record)
<1>5. /\ accepted' = Append(accepted, m) /\ Input(record') = Append(input, m)
      /\ answered' = answered /\ Scheduler' = Scheduler
  BY DEF Scheduler
<1>6. InOrder /\ input \in Seq(Messages)
  BY <1>1 DEF OrderInv
<1> HIDE DEF input
<1>7. ASSUME Scheduler = "bullmq", Turns = {}
      PROVE  accepted' = answered' \o Input(record')
  <2>1. accepted = answered \o input
    BY <1>6, <1>7 DEF InOrder, input
  <2>2. Append(answered \o input, m) = answered \o Append(input, m)
    BY <1>1, <1>3, <1>6
  <2> QED
    BY <1>5, <2>1, <2>2, Zenon
<1>8. ASSUME Scheduler = "bullmq", NEW f \in Turns
      PROVE  accepted' = (answered' \o flush'[f].batch) \o Input(record')
  <2> DEFINE front == answered \o flush[f].batch
  <2>1. accepted = front \o input
    BY <1>6, <1>8 DEF InOrder, input
  <2>2. front \in Seq(Messages)
    BY <1>4
  <2>3. answered' \o flush'[f].batch = front
    BY <1>2, <1>5, Zenon
  <2> HIDE DEF front
  <2>4. Append(front \o input, m) = front \o Append(input, m)
    BY <1>3, <1>6, <2>2
  <2> QED
    BY <1>5, <2>1, <2>3, <2>4, Zenon
<1> QED
  BY <1>2, <1>5, <1>7, <1>8, Zenon DEF InOrder

LEMMA InboundOrder ==
  ASSUME OrderInv, Scheduler = "bullmq", Inbound
  PROVE  InOrder'
<1> DEFINE m == Head(chain).message
<1>1. record \in Records /\ InputInv(record) /\ InOrder
  BY OrderedInput
<1>2. record.inboundBuffer \in Seq(Messages) /\ record.lateArrivals \in Seq(Messages)
  BY <1>1, InputType
<1>3. CASE DropInbound
  BY <1>1, <1>3, OrderKept DEF DropInbound
<1>4. ASSUME AcceptInbound
      PROVE  m \in Messages /\ accepted' = Append(accepted, m)
  BY <1>4, Zenon DEF AcceptInbound
<1>5. CASE BufferInbound
  <2>1. /\ record'.inboundBuffer = Append(record.inboundBuffer, m)
        /\ record'.lateArrivals = record.lateArrivals /\ record.lateArrivals = <<>>
    <3>1. record.lateArrivals = <<>>
      BY <1>1, <1>5 DEF BufferInbound, InputInv, LateOwned
    <3> QED
      BY <1>1, <1>5, <3>1, Zenon DEF BufferInbound, Records
  <2>2. m \in Messages /\ accepted' = Append(accepted, m)
    BY <1>4, <1>5 DEF BufferInbound
  <2> HIDE DEF m
  <2>3. Append(record.inboundBuffer, m) \in Seq(Messages)
    BY <1>2, <2>2
  <2>4. Input(record') = Append(Input(record), m)
    BY <1>2, <2>1, <2>3, ConcatEmptySeq DEF Input
  <2> QED
    BY <1>5, <2>2, <2>4, AcceptOrder DEF BufferInbound
<1>6. CASE StashLateArrival
  <2>1. /\ record'.inboundBuffer = record.inboundBuffer
        /\ record'.lateArrivals = Append(record.lateArrivals, m)
    BY <1>1, <1>6, Zenon DEF StashLateArrival, Records
  <2>2. m \in Messages /\ accepted' = Append(accepted, m)
    BY <1>4, <1>6 DEF StashLateArrival
  <2>3. record.inboundBuffer = <<>>
    BY <1>1, <1>6 DEF StashLateArrival, InputInv, ProcessingTookAll
  <2>4. \A f \in Flushes : flush[f] \in FlushRecords
    BY DEF OrderInv, JobInv, TypeInv, TypeOK
  <2>5. \A x \in FlushRecords : /\ [x EXCEPT !.aborted = TRUE].stage = x.stage
                                /\ [x EXCEPT !.aborted = TRUE].batch = x.batch
    BY Zenon DEF FlushRecords
  <2>6. \A f \in Flushes : flush'[f] \in {flush[f], [flush[f] EXCEPT !.aborted = TRUE]}
    BY <1>6 DEF StashLateArrival
  <2>7. \A f \in Flushes : /\ flush'[f].stage = flush[f].stage
                           /\ flush'[f].batch = flush[f].batch
    BY <2>4, <2>5, <2>6
  <2> HIDE DEF m
  <2>8. Append(record.lateArrivals, m) \in Seq(Messages)
    BY <1>2, <2>2
  <2>9. Input(record') = Append(Input(record), m)
    BY <1>2, <2>1, <2>3, <2>8, ConcatEmptySeq DEF Input
  <2> QED
    BY <1>6, <2>2, <2>7, <2>9, AcceptOrder DEF StashLateArrival
<1>7. CASE InterruptSending
  <2>1. record'.inboundBuffer = Append(Input(record), m) /\ record'.lateArrivals = <<>>
    BY <1>1, <1>7, Zenon DEF InterruptSending, InterruptedRecord, Records, Input
  <2>2. m \in Messages /\ accepted' = Append(accepted, m)
    BY <1>4, <1>7 DEF InterruptSending
  <2>3. Input(record) \in Seq(Messages)
    BY <1>1, InputType
  <2> HIDE DEF m
  <2>4. Append(Input(record), m) \in Seq(Messages)
    BY <2>2, <2>3
  <2>5. Input(record') = Append(Input(record), m)
    BY <2>1, <2>4, ConcatEmptySeq DEF Input
  <2> QED
    BY <1>7, <2>2, <2>5, AcceptOrder DEF InterruptSending
<1> QED
  BY <1>3, <1>5, <1>6, <1>7 DEF Inbound

\* A step of the one flush that is alive: its turn is all that is in flight.
LEMMA TurnOrder ==
  ASSUME OneJob, NEW f \in Flushes, JobStep(f), UNCHANGED accepted,
         Scheduler = "bullmq" =>
           IF f \in Turns'
           THEN accepted = (answered' \o flush'[f].batch) \o Input(record')
           ELSE accepted = answered' \o Input(record')
  PROVE  InOrder'
<1> SUFFICES ASSUME Scheduler = "bullmq"
             PROVE  /\ Turns' = {} => accepted = answered' \o Input(record')
                    /\ \A g \in Turns' :
                         accepted = (answered' \o flush'[g].batch) \o Input(record')
  BY DEF InOrder, JobStep, Scheduler
<1>1. \A g \in Turns' : g = f
  BY DEF OneJob, JobStep, Alive, Turns
<1> QED
  BY <1>1

LEMMA SegmentOrder ==
  ASSUME OrderInv, Scheduler = "bullmq", NEW f \in Flushes, Segment(f)
  PROVE  InOrder'
<1>1. TypeInv /\ record \in Records /\ InputInv(record) /\ flush[f] \in FlushRecords
  BY OrderedInput DEF TypeInv, TypeOK
<1>2. OneJob /\ JobStep(f)
  BY <1>1, SegmentIsJobStep DEF OrderInv, JobInv
<1>3. /\ record.inboundBuffer \in Seq(Messages) /\ record.lateArrivals \in Seq(Messages)
      /\ Input(record) \in Seq(Messages)
      /\ flush[f].batch \in Seq(Messages) /\ answered \in Seq(Messages)
      /\ answered \o flush[f].batch \in Seq(Messages)
  BY <1>1, InputType, ConcatProperties DEF FlushRecords, TypeInv, TypeOK
<1>4. ASSUME NEW x, flush' = [flush EXCEPT ![f] = x], x.stage \in {"free", "drive"}
      PROVE  f \notin Turns'
  BY <1>1, <1>4, FlushAt DEF Turns
<1>5. FreeFlush.stage = "free"
  BY DEF FreeFlush
<1>6. ASSUME Scheduler = "bullmq", f \notin Turns
      PROVE  accepted = answered \o Input(record)
  BY <1>2, <1>6 DEF OrderInv, InOrder, OneJob, JobStep, Alive, Turns
<1>7. ASSUME Scheduler = "bullmq", f \in Turns
      PROVE  accepted = (answered \o flush[f].batch) \o Input(record)
  BY <1>7 DEF OrderInv, InOrder
<1>8. ASSUME NEW stage, HoldsSegment(f, stage)
      PROVE  f \in Turns <=> stage \in {"chat", "decide", "rescue"}
  BY <1>8 DEF HoldsSegment, Turns
\* A segment that settles no turn and leaves what waits.
<1>9. ASSUME NEW stage, HoldsSegment(f, stage), stage \in {"prepare", "drive"},
             flush' = [flush EXCEPT ![f] = FreeFlush], UNCHANGED <<accepted, answered>>,
             Input(record') = Input(record)
      PROVE  InOrder'
  BY <1>2, <1>4, <1>5, <1>6, <1>8, <1>9, TurnOrder
\* A segment that settles the turn of f.
<1>10. ASSUME NEW stage, HoldsSegment(f, stage), stage \in {"decide", "rescue"},
              NEW x, flush' = [flush EXCEPT ![f] = x], x.stage \in {"free", "drive"},
              UNCHANGED accepted, answered' = answered \o flush[f].batch,
              Input(record') = Input(record)
      PROVE  InOrder'
  BY <1>2, <1>4, <1>7, <1>8, <1>10, TurnOrder
<1>11. CASE PrepareNothing(f)
  BY <1>9, <1>11 DEF PrepareNothing
<1>12. CASE PrepareNoAdapter(f)
  <2>1. /\ record'.inboundBuffer = record.inboundBuffer
        /\ record'.lateArrivals = record.lateArrivals
    BY <1>1, <1>12, Zenon DEF PrepareNoAdapter, Records
  <2> QED
    BY <1>9, <1>12, <2>1 DEF PrepareNoAdapter, Input
<1>13. CASE PrepareBatch(f)
  <2> DEFINE taken == [FreeFlush EXCEPT !.stage = "chat", !.batch = record.inboundBuffer]
  <2>1. taken.stage = "chat" /\ taken.batch = record.inboundBuffer
    BY Zenon DEF FreeFlush
  <2>2. flush' = [flush EXCEPT ![f] = taken]
    BY <1>13, Zenon DEF PrepareBatch
  <2> HIDE DEF taken
  <2>3. f \in Turns' /\ flush'[f].batch = record.inboundBuffer
    BY <1>1, <2>1, <2>2, FlushAt DEF Turns
  <2>4. record'.inboundBuffer = <<>> /\ record'.lateArrivals = <<>>
    BY <1>1, <1>13, Zenon DEF PrepareBatch, Records
  <2>5. record.lateArrivals = <<>>
    BY <1>1, <1>13 DEF PrepareBatch, InputInv, LateOwned
  <2>6. Input(record) = record.inboundBuffer /\ Input(record') = <<>>
    BY <1>3, <2>4, <2>5, ConcatEmptySeq DEF Input
  <2>7. (answered \o record.inboundBuffer) \o <<>> = answered \o record.inboundBuffer
    BY <1>3, ConcatProperties, ConcatEmptySeq
  <2>8. HoldsSegment(f, "prepare") /\ UNCHANGED <<accepted, answered>>
    BY <1>13 DEF PrepareBatch
  <2>9. accepted = answered \o record.inboundBuffer
    BY <1>6, <1>8, <2>6, <2>8
  <2>10. accepted = (answered' \o flush'[f].batch) \o Input(record')
    BY <2>3, <2>6, <2>7, <2>8, <2>9, Zenon
  <2> QED
    BY <1>2, <2>3, <2>8, <2>10, TurnOrder
<1>14. CASE RescueLateArrivals(f)
  <2>1. record'.inboundBuffer = Input(record) /\ record'.lateArrivals = <<>>
    BY <1>1, <1>14, Zenon DEF RescueLateArrivals, Records, Input
  <2>2. Input(record') = Input(record)
    BY <1>1, <2>1, FoldedInput
  <2> QED
    BY <1>5, <1>10, <1>14, <2>2 DEF RescueLateArrivals
<1>15. CASE EndFailedTurn(f)
  <2>1. /\ record'.inboundBuffer = record.inboundBuffer
        /\ record'.lateArrivals = record.lateArrivals
    BY <1>1, <1>15, Zenon DEF EndFailedTurn, Records
  <2> QED
    BY <1>5, <1>10, <1>15, <2>1 DEF EndFailedTurn, Input
<1>16. CASE Rebatch(f)
  <2>1. /\ record'.inboundBuffer = (flush[f].batch \o record.inboundBuffer) \o record.lateArrivals
        /\ record'.lateArrivals = <<>>
    BY <1>1, <1>16, Zenon DEF Rebatch, RebatchedInput, Records
  <2>2. record'.inboundBuffer = flush[f].batch \o Input(record)
    <3> DEFINE batch == flush[f].batch
               buffer == record.inboundBuffer
               late == record.lateArrivals
    <3>1. batch \in Seq(Messages) /\ buffer \in Seq(Messages) /\ late \in Seq(Messages)
      BY <1>3
    <3>2. record'.inboundBuffer = (batch \o buffer) \o late /\ Input(record) = buffer \o late
      BY <2>1, Zenon DEF Input
    <3> HIDE DEF batch, buffer, late
    <3>3. (batch \o buffer) \o late = batch \o (buffer \o late)
      BY <3>1, Associative, Zenon
    <3>4. record'.inboundBuffer = batch \o Input(record)
      BY <3>2, <3>3, Zenon
    <3> QED
      BY <3>4, Zenon DEF batch
  <2>3. Input(record') = flush[f].batch \o Input(record)
    BY <1>3, <2>1, <2>2, ConcatProperties, ConcatEmptySeq DEF Input
  <2>4. (answered \o flush[f].batch) \o Input(record) = answered \o Input(record')
    <3> DEFINE batch == flush[f].batch
               input == Input(record)
    <3>1. answered \in Seq(Messages) /\ batch \in Seq(Messages) /\ input \in Seq(Messages)
      BY <1>3
    <3> HIDE DEF batch, input
    <3>2. (answered \o batch) \o input = answered \o (batch \o input)
      BY <3>1, Associative, Zenon
    <3> QED
      BY <2>3, <3>2, Zenon DEF batch, input
  <2>5. f \in Turns /\ f \notin Turns' /\ UNCHANGED <<accepted, answered>>
    BY <1>4, <1>5, <1>8, <1>16 DEF Rebatch
  <2> QED
    BY <1>2, <1>7, <2>4, <2>5, TurnOrder
<1>17. CASE EndSilentTurn(f)
  BY <1>1, <1>5, <1>10, <1>17, FinalizeOutcome, OutcomeOrder DEF EndSilentTurn
<1>18. CASE AttachQueue(f)
  <2> DEFINE driving == [FreeFlush EXCEPT !.stage = "drive"]
  <2>1. flush' = [flush EXCEPT ![f] = driving] /\ driving.stage = "drive"
    BY <1>18 DEF AttachQueue, FreeFlush
  <2>2. /\ record'.inboundBuffer = record.inboundBuffer
        /\ record'.lateArrivals = record.lateArrivals
    BY <1>1, <1>18, Zenon DEF AttachQueue, Records
  <2> HIDE DEF driving
  <2> QED
    BY <1>10, <1>18, <2>1, <2>2 DEF AttachQueue, Input
<1>19. CASE DriveDelivery(f)
  BY <1>9, <1>19 DEF DriveDelivery
<1>20. ~FallThroughAtCap(f) /\ ~ForceIdle(f)
  BY FallsNowhere DEF OrderInv
<1> QED
  BY <1>11, <1>12, <1>13, <1>14, <1>15, <1>16, <1>17, <1>18, <1>19, <1>20
     DEF Segment, EndAtPrepare

\* The flush moves to another stage and takes or drops no batch.
LEMMA StageOrder ==
  ASSUME InOrder, NEW f \in Flushes,
         f \in Turns' <=> f \in Turns, f \in Turns => flush'[f].batch = flush[f].batch,
         \A g \in Flushes : g # f => flush'[g] = flush[g],
         UNCHANGED <<record, accepted, answered, deployment>>
  PROVE  InOrder'
<1>1. Turns' = Turns /\ \A g \in Turns : flush'[g].batch = flush[g].batch
  BY DEF Turns
<1> QED
  BY <1>1 DEF InOrder, Scheduler

LEMMA ChatStepOrder ==
  ASSUME OrderInv, NEW f \in Flushes, ChatStep(f)
  PROVE  InOrder'
<1>1. TypeInv /\ InOrder /\ flush[f] \in FlushRecords
  BY DEF OrderInv, JobInv, TypeInv, TypeOK
<1>2. ASSUME NEW settled, ChatSettles(f, settled),
             settled.stage \in {"decide", "rescue"}, settled.batch = flush[f].batch
      PROVE  InOrder'
  <2>1. flush'[f] = settled /\ \A g \in Flushes : g # f => flush'[g] = flush[g]
    BY <1>1, <1>2, FlushAt DEF ChatSettles
  <2>2. f \in Turns /\ f \in Turns'
    BY <1>2, <2>1 DEF ChatSettles, Turns
  <2> QED
    BY <1>1, <1>2, <2>1, <2>2, StageOrder DEF ChatSettles
<1>3. CASE ChatRejects(f)
  <2> DEFINE s == IF flush[f].aborted THEN "decide" ELSE "rescue"
             settled == [flush[f] EXCEPT !.stage = s]
  <2>1. settled.stage = s /\ settled.batch = flush[f].batch
    BY <1>1, Zenon DEF FlushRecords
  <2>2. ChatSettles(f, settled)
    BY <1>3, Zenon DEF ChatRejects
  <2> HIDE DEF settled
  <2> QED
    BY <1>2, <2>1, <2>2
<1>4. ASSUME NEW reply \in Replies, ChatReplies(f, reply)
      PROVE  InOrder'
  <2> DEFINE settled ==
        [flush[f] EXCEPT !.stage = "decide", !.aborted = FALSE, !.reply = reply]
  <2>1. settled.stage = "decide" /\ settled.batch = flush[f].batch
    BY <1>1, Zenon DEF FlushRecords
  <2>2. ChatSettles(f, settled)
    BY <1>4, Zenon DEF ChatReplies
  <2> HIDE DEF settled
  <2> QED
    BY <1>2, <2>1, <2>2
<1> QED
  BY <1>3, <1>4 DEF ChatStep

LEMMA TimerFiresOrder ==
  ASSUME OrderInv, TimerFires
  PROVE  InOrder'
<1>1. TypeInv /\ InOrder /\ \A f \in Flushes : flush[f] \in FlushRecords
  BY DEF OrderInv, JobInv, TypeInv, TypeOK
<1>2. ASSUME NEW f \in Flushes, BufferTimerFires(f)
      PROVE  InOrder'
  <2>1. [flush[f] EXCEPT !.stage = "prepare"].stage = "prepare"
    BY <1>1, Zenon DEF FlushRecords
  <2>2. flush'[f].stage = "prepare" /\ \A g \in Flushes : g # f => flush'[g] = flush[g]
    BY <1>1, <1>2, <2>1, FlushAt DEF BufferTimerFires
  <2>3. f \notin Turns /\ f \notin Turns'
    BY <1>2, <2>2 DEF BufferTimerFires, Turns
  <2> QED
    BY <1>1, <1>2, <2>2, <2>3, StageOrder DEF BufferTimerFires
<1>3. ASSUME NEW i \in deliveryTimeouts, DeliveryTimerFires(i)
      PROVE  InOrder'
  BY <1>1, <1>3, OrderKept DEF DeliveryTimerFires
<1>4. ASSUME NEW t \in transientRetryTimers, RetryTimerFires(t)
      PROVE  InOrder'
  BY <1>1, <1>4, OrderKept DEF RetryTimerFires
<1> QED
  BY <1>2, <1>3, <1>4 DEF TimerFires

LEMMA InitOrder == Init => OrderInv
<1> SUFFICES ASSUME Init PROVE OrderInv
  OBVIOUS
<1>1. /\ record.inboundBuffer = <<>> /\ record.lateArrivals = <<>>
      /\ accepted = <<>> /\ answered = <<>> /\ \A f \in Flushes : flush[f].stage = "free"
  BY Zenon DEF Init, FreeFlush
<1>2. <<>> \in Seq(Messages)
  OBVIOUS
<1>3. Input(record) = <<>> /\ answered \o <<>> = <<>>
  BY <1>1, <1>2, ConcatEmptySeq DEF Input
<1> QED
  BY <1>1, <1>3, InitKept, InitJob DEF OrderInv, InOrder, Turns

LEMMA StepOrder == OrderInv /\ [Next]_vars => OrderInv'
<1> SUFFICES ASSUME OrderInv, [Next]_vars PROVE OrderInv'
  OBVIOUS
<1>1. KeptInv' /\ JobInv' /\ InOrder /\ TypeInv /\ UNCHANGED Scheduler
  BY StepKept, StepJob, SchedulerKept DEF OrderInv, JobInv
<1>2. CASE Webhook \/ UNCHANGED vars
  BY <1>1, <1>2, OrderKept DEF Webhook, ReceiveInbound, ReceiveStatus, vars, OrderInv
<1>3. CASE SendStep \/ Status \/ Timer
  <2>1. DeliveryStep
    BY <1>1, <1>3, SendStepDelivers, StatusDelivers, TimerDelivers
  <2> QED
    BY <1>1, <2>1, DeliveryOutcome, RecordItself, OutcomeOrder, OrderKept
       DEF DeliveryStep, OrderInv
<1>4. CASE Scheduler # "bullmq"
  BY <1>1, <1>4 DEF OrderInv, InOrder
<1> QED
  BY <1>1, <1>2, <1>3, <1>4, InboundOrder, SegmentOrder, ChatStepOrder, TimerFiresOrder
     DEF Next, LockStep, OrderInv

\* What a step does to the messages that were accepted and settled.
Promised ==
  \/ UNCHANGED <<accepted, answered>>
  \/ \E m \in Messages : /\ m \notin Range(accepted)
                         /\ accepted' = Append(accepted, m)
                         /\ UNCHANGED answered
  \/ \E f \in Turns : answered' = answered \o flush[f].batch /\ UNCHANGED accepted

LEMMA StepPromised ==
  ASSUME TypeInv, [Next]_vars
  PROVE  Promised
<1>1. CASE UNCHANGED <<accepted, answered>>
  BY <1>1 DEF Promised
<1>2. ASSUME AcceptInbound, UNCHANGED answered
      PROVE  Promised
  BY <1>2, Zenon DEF AcceptInbound, Claimed, Promised
<1>3. CASE Inbound
  BY <1>1, <1>2, <1>3, Zenon
     DEF Inbound, DropInbound, BufferInbound, StashLateArrival, InterruptSending
<1>4. ASSUME NEW f \in Flushes, Segment(f)
      PROVE  Promised
  <2>1. ASSUME NEW stage \in {"decide", "rescue"}, HoldsSegment(f, stage),
               answered' = answered \o flush[f].batch, UNCHANGED accepted
        PROVE  Promised
    BY <2>1 DEF Promised, HoldsSegment, Turns
  <2> QED
    BY <1>1, <1>4, <2>1 DEF Segment, EndAtPrepare, PrepareNothing, PrepareNoAdapter, PrepareBatch,
       RescueLateArrivals, EndFailedTurn, Rebatch, EndSilentTurn, AttachQueue, DriveDelivery,
       FallThroughAtCap, ForceIdle
<1>5. CASE SendStep \/ Status \/ Timer
  BY <1>1, <1>5, SendStepDelivers, StatusDelivers, TimerDelivers DEF DeliveryStep
<1>6. CASE Webhook \/ UNCHANGED vars
  BY <1>1, <1>6 DEF Webhook, ReceiveInbound, ReceiveStatus, vars
<1>7. ASSUME NEW f \in Flushes, ChatStep(f)
      PROVE  Promised
  BY <1>1, <1>7 DEF ChatStep, ChatRejects, ChatReplies, ChatSettles
<1>8. CASE TimerFires
  BY <1>1, <1>8 DEF TimerFires, BufferTimerFires, DeliveryTimerFires, RetryTimerFires
<1> QED
  BY <1>3, <1>4, <1>5, <1>6, <1>7, <1>8 DEF Next, LockStep

\* The first messages of a sequence, up to the end of its second part.
LEMMA FirstParts ==
  ASSUME NEW S, NEW s \in Seq(S), NEW b \in Seq(S), NEW t \in Seq(S), b # <<>>
  PROVE  /\ Len(s \o b) \in Len(s) + 1 .. Len((s \o b) \o t)
         /\ SubSeq((s \o b) \o t, 1, Len(s \o b)) = s \o b
<1>1. s \o b \in Seq(S) /\ (s \o b) \o t \in Seq(S)
  BY ConcatProperties
<1>2. /\ Len(s \o b) = Len(s) + Len(b) /\ Len((s \o b) \o t) = Len(s \o b) + Len(t)
      /\ Len(s) \in Nat /\ Len(b) \in Nat \ {0} /\ Len(t) \in Nat
  BY <1>1, ConcatProperties
<1>3. Len(s \o b) \in Len(s) + 1 .. Len((s \o b) \o t)
  BY <1>2
<1> DEFINE q == SubSeq((s \o b) \o t, 1, Len(s \o b))
<1>4. q \in Seq(S) /\ Len(q) = Len(s \o b)
      /\ \A i \in 1 .. Len(s \o b) : q[i] = ((s \o b) \o t)[i]
  BY <1>1, <1>2
<1>5. \A i \in 1 .. Len(s \o b) : ((s \o b) \o t)[i] = (s \o b)[i]
  BY <1>1, <1>2, ConcatProperties
<1>6. q = s \o b
  BY <1>1, <1>4, <1>5, SeqEqual
<1> QED
  BY <1>3, <1>6

\* On BullMQ turns settle the messages in the order in which their handles were
\* claimed, all of them and each once, whatever aborts, rebatches, interrupts and
\* failed calls come in between: the conversation implements TurnTaking.
THEOREM TurnsInOrder == Spec => ImplementsTurnTaking
<1>1. Init => OrderOnBullMQ!Init
  BY DEF Init, OrderOnBullMQ!Init
<1>2. OrderInv /\ [Next]_vars
        => [OrderOnBullMQ!Next]_<<IF Scheduler = "bullmq" THEN accepted ELSE <<>>,
                                  IF Scheduler = "bullmq" THEN answered ELSE <<>>>>
  <2> SUFFICES ASSUME OrderInv, [Next]_vars
               PROVE  [OrderOnBullMQ!Next]_<<IF Scheduler = "bullmq" THEN accepted ELSE <<>>,
                                             IF Scheduler = "bullmq" THEN answered ELSE <<>>>>
    OBVIOUS
  <2>1. TypeInv /\ Promised /\ UNCHANGED Scheduler
    BY StepPromised, SchedulerKept DEF OrderInv, JobInv
  <2>2. CASE Scheduler # "bullmq" \/ UNCHANGED <<accepted, answered>>
    BY <2>1, <2>2
  <2>3. ASSUME Scheduler = "bullmq", NEW m \in Messages, m \notin Range(accepted),
               accepted' = Append(accepted, m), UNCHANGED answered
        PROVE  OrderOnBullMQ!Next
    <3>1. OrderOnBullMQ!Accept(m)
      BY <2>1, <2>3, Zenon DEF OrderOnBullMQ!Accept, OrderOnBullMQ!Range, Range
    <3> QED
      BY <3>1 DEF OrderOnBullMQ!Next
  <2>4. ASSUME Scheduler = "bullmq", NEW f \in Turns, flush[f].batch # <<>>,
               answered' = answered \o flush[f].batch, UNCHANGED accepted
        PROVE  OrderOnBullMQ!Next
    <3> DEFINE n == Len(answered \o flush[f].batch)
    <3>1. /\ answered \in Seq(Messages) /\ flush[f].batch \in Seq(Messages)
          /\ Input(record) \in Seq(Messages)
      BY <2>1, InputType DEF TypeInv, TypeOK, FlushRecords, Turns
    <3>2. accepted = (answered \o flush[f].batch) \o Input(record)
      BY <2>4 DEF OrderInv, InOrder
    <3>3. n \in Len(answered) + 1 .. Len(accepted) /\ SubSeq(accepted, 1, n) = answered'
      BY <2>4, <3>1, <3>2, FirstParts
    <3> HIDE DEF n
    <3>4. OrderOnBullMQ!Settle(n)
      BY <2>1, <2>4, <3>3 DEF OrderOnBullMQ!Settle
    <3> QED
      BY <2>4, <3>3, <3>4 DEF OrderOnBullMQ!Next
  <2>5. ASSUME NEW f \in Turns, flush[f].batch = <<>>, answered' = answered \o flush[f].batch
        PROVE  UNCHANGED answered
    BY <2>1, <2>5, ConcatEmptySeq DEF TypeInv, TypeOK
  <2> QED
    BY <2>1, <2>2, <2>3, <2>4, <2>5 DEF Promised
<1> QED
  BY <1>1, <1>2, InitOrder, StepOrder, PTL DEF Spec, ImplementsTurnTaking, OrderOnBullMQ!Spec
=============================================================================
