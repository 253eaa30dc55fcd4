-------------------------- MODULE TurnInputProofs --------------------------
(***************************************************************************)
(* No message is lost and none is handled twice (NoInboundLost,            *)
(* HandledOnce), for every value of the constants of ConversationAgent -   *)
(* any number of messages, flushes and replies, every deployment.          *)
(*                                                                         *)
(* Segment 1 clears lateArrivals, so NoInboundLost needs to know that a    *)
(* flush never finds late arrivals behind a buffer (LateArrivalsAreOwned), *)
(* which in turn needs that a record in processing has an empty buffer.    *)
(*                                                                         *)
(* The counts of HandledOnce are not inductive.  What is: the sequences a  *)
(* message can be in have no repetitions, no two of them share a message,  *)
(* and whatever is in one was claimed, so that a redelivered webhook finds *)
(* its handle taken.                                                       *)
(***************************************************************************)
EXTENDS ConversationAgentProofs, FiniteSetTheorems

LateOwned(r) ==
  r.lateArrivals # <<>> => r.state \in {"processing", "sending"} /\ r.inboundBuffer = <<>>

ProcessingTookAll(r) == r.state = "processing" => r.inboundBuffer = <<>>

InputInv(r) == LateOwned(r) /\ ProcessingTookAll(r)

LossInv ==
  /\ TypeInv
  /\ InputInv(record)
  /\ AcceptedIsKept

\* A flush that is about to force the record to idle fell through before.
DropSeen == \A f \in Flushes : flush[f].stage = "drop" => fellThrough

KeptInv == TypeInv /\ DropSeen /\ (fellThrough \/ LossInv)

\* The messages a record still has to hand to a turn.
Waiting(r) == Range(r.inboundBuffer) \union Range(r.lateArrivals)

SameInput(r, q) ==
  /\ q.state = r.state
  /\ q.inboundBuffer = r.inboundBuffer
  /\ q.lateArrivals = r.lateArrivals
  /\ q.reprocessCount = r.reprocessCount

-----------------------------------------------------------------------------
(* Sequences *)

LEMMA AppendRange ==
  ASSUME NEW S, NEW s \in Seq(S), NEW e \in S
  PROVE  Range(Append(s, e)) = Range(s) \union {e}
<1>1. Append(s, e) = s \o <<e>>
  BY AppendIsConcat
<1>2. <<e>> \in Seq(S) /\ Len(<<e>>) = 1 /\ <<e>>[1] = e
  OBVIOUS
<1>3. Range(<<e>>) = {<<e>>[i] : i \in 1 .. Len(<<e>>)}
  BY <1>2, RangeEquality
<1>4. Range(<<e>>) = {e}
  BY <1>2, <1>3
<1>5. Range(s \o <<e>>) = Range(s) \union Range(<<e>>)
  BY <1>2, RangeConcatenation
<1> QED
  BY <1>1, <1>4, <1>5

LEMMA EmptyRange == Range(<<>>) = {}
  BY DEF Range

-----------------------------------------------------------------------------
(* Records *)

LEMMA SameInputKeeps ==
  ASSUME NEW r, NEW q, SameInput(r, q), InputInv(r)
  PROVE  InputInv(q) /\ Waiting(q) = Waiting(r)
  BY DEF SameInput, InputInv, LateOwned, ProcessingTookAll, Waiting

\* Updating the queue, the cursor or the ids leaves the input alone.
LEMMA WithCurrentInput ==
  ASSUME NEW r \in Records, NEW item
  PROVE  SameInput(r, WithCurrent(r, item))
  BY Zenon DEF WithCurrent, SameInput, Records

LEMMA AdvancedInput ==
  ASSUME NEW r \in Records
  PROVE  SameInput(r, AdvancedRecord(r))
  BY Zenon DEF AdvancedRecord, SameInput, Records

LEMMA SkippedInput ==
  ASSUME NEW r \in Records
  PROVE  SameInput(r, SkippedRecord(r))
<1> DEFINE item == CurrentItem(r.outboundQueue, r.currentOutboundIndex)
           marked == [item EXCEPT !.skipped = TRUE]
<1>1. CASE IsQueueComplete(r.outboundQueue, r.currentOutboundIndex)
  BY <1>1, AdvancedInput DEF SkippedRecord
<1>2. CASE ~IsQueueComplete(r.outboundQueue, r.currentOutboundIndex)
  <2>1. marked \in Items
    BY <1>2, CurrentItemType DEF Items
  <2>2. WithCurrent(r, marked) \in Records
    BY <2>1, WithCurrentType
  <2>3. SkippedRecord(r) = AdvancedRecord(WithCurrent(r, marked))
    BY <1>2 DEF SkippedRecord
  <2> HIDE DEF marked
  <2>4. SameInput(r, WithCurrent(r, marked))
    BY WithCurrentInput
  <2>5. SameInput(WithCurrent(r, marked), SkippedRecord(r))
    BY <2>2, <2>3, AdvancedInput
  <2> QED
    BY <2>4, <2>5, Zenon DEF SameInput
<1> QED
  BY <1>1, <1>2

\* The end of a turn folds the late arrivals into the buffer.
LEMMA FinalizedInput ==
  ASSUME NEW r \in Records, InputInv(r)
  PROVE  InputInv(FinalizedRecord(r)) /\ Waiting(FinalizedRecord(r)) = Waiting(r)
<1>1. r.inboundBuffer \in Seq(Messages) /\ r.lateArrivals \in Seq(Messages)
  BY DEF Records
<1>2. CASE r.lateArrivals # <<>>
  <2> DEFINE q == FinalizedRecord(r)
  <2>1. /\ q.state = "buffering"
        /\ q.inboundBuffer = r.inboundBuffer \o r.lateArrivals
        /\ q.lateArrivals = <<>>
    BY <1>2, Zenon DEF FinalizedRecord, Records
  <2> HIDE DEF q
  <2>2. Waiting(q) = Waiting(r)
    BY <1>1, <2>1, RangeConcatenation, EmptyRange DEF Waiting
  <2> QED
    BY <2>1, <2>2 DEF InputInv, LateOwned, ProcessingTookAll, q
<1>3. CASE r.lateArrivals = <<>>
  <2> DEFINE q == FinalizedRecord(r)
  <2>1. /\ q.state # "processing"
        /\ q.inboundBuffer = r.inboundBuffer
        /\ q.lateArrivals = <<>>
    BY <1>3, Zenon DEF FinalizedRecord, Rebuffered, Records
  <2> HIDE DEF q
  <2> QED
    BY <1>3, <2>1 DEF InputInv, LateOwned, ProcessingTookAll, Waiting, q
<1> QED
  BY <1>2, <1>3

-----------------------------------------------------------------------------
(* Steps *)

\* A step that leaves the flushes alone and keeps what waits.
LEMMA InputKept ==
  ASSUME LossInv, TypeInv', InputInv(record'),
         Waiting(record) \subseteq Waiting(record'),
         UNCHANGED <<accepted, flush, answered>>
  PROVE  LossInv'
  BY Zenon DEF LossInv, AcceptedIsKept, Waiting, Turns

\* A step of ordered delivery, which may end the turn.
LEMMA HandleWindowClosedInput ==
  ASSUME TypeInv, NEW r \in Records, InputInv(r), NEW armed, HandleWindowClosed(r, armed)
  PROVE  InputInv(record') /\ Waiting(record') = Waiting(r)
<1> DEFINE reprompted == [r EXCEPT !.windowReprompted = TRUE]
<1>1. reprompted \in Records
  BY TRUE \in BOOLEAN, Zenon DEF Records
<1>2. SameInput(r, reprompted)
  BY Zenon DEF SameInput, Records
<1>3. InputInv(reprompted) /\ Waiting(reprompted) = Waiting(r)
  BY <1>2, SameInputKeeps
<1> HIDE DEF reprompted
<1>4. ASSUME NEW q \in Records, InputInv(q), Waiting(q) = Waiting(r),
             AdvanceAndContinue(SkippedRecord(q))
      PROVE  InputInv(record') /\ Waiting(record') = Waiting(r)
  BY <1>4, SkippedInput, SameInputKeeps DEF AdvanceAndContinue
<1>5. CASE FinalizeTurn(reprompted)
  BY <1>1, <1>3, <1>5, FinalizedInput DEF FinalizeTurn
<1>6. ASSUME NEW reply,
             record' = [reprompted EXCEPT
                          !.outboundQueue = BuildOutboundItems(reply, lastId),
                          !.currentOutboundIndex = 0,
                          !.currentOutboundMessageId = None]
      PROVE  InputInv(record') /\ Waiting(record') = Waiting(r)
  <2>1. SameInput(reprompted, record')
    BY <1>1, <1>6, Zenon DEF SameInput, Records
  <2> QED
    BY <1>3, <2>1, SameInputKeeps
<1> QED
  BY <1>1, <1>3, <1>4, <1>5, <1>6, Zenon DEF HandleWindowClosed, reprompted

\* What is in the turn of f, and where a message that f may hold can be.
InTurn(f) == IF f \in Turns THEN Range(flush[f].batch) ELSE {}

Reach(f) == Waiting(record) \union Range(answered) \union InTurn(f)

\* A step of the flush f keeps its messages within reach.
LEMMA TurnStep ==
  ASSUME LossInv, TypeInv', InputInv(record'), UNCHANGED accepted, NEW f \in Flushes,
         \A g \in Flushes : g # f => flush'[g] = flush[g],
         Reach(f) \subseteq Reach(f)'
  PROVE  LossInv'
<1>1. ASSUME NEW m \in Range(accepted)
      PROVE  \/ m \in Waiting(record')
             \/ m \in Range(answered')
             \/ \E g \in Turns' : m \in Range(flush'[g].batch)
  <2>1. CASE m \in Reach(f)
    BY <2>1, Zenon DEF Reach, InTurn
  <2>2. CASE m \notin Reach(f)
    <3>1. PICK g \in Turns : m \in Range(flush[g].batch)
      BY <2>2, Zenon DEF LossInv, AcceptedIsKept, Reach, Waiting
    <3>2. g # f /\ g \in Flushes
      BY <2>2, <3>1, Zenon DEF Reach, InTurn, Turns
    <3>3. g \in Turns' /\ flush'[g] = flush[g]
      BY <3>1, <3>2, Zenon DEF Turns
    <3> QED
      BY <3>1, <3>3, Zenon
  <2> QED
    BY <2>1, <2>2
<1> QED
  BY <1>1, Zenon DEF LossInv, AcceptedIsKept, Waiting

\* A message is accepted into what waits.
LEMMA AcceptStep ==
  ASSUME LossInv, TypeInv', InputInv(record'),
         NEW m \in Messages, accepted' = Append(accepted, m),
         Waiting(record) \union {m} \subseteq Waiting(record'), UNCHANGED answered,
         \A f \in Flushes : flush'[f].stage = flush[f].stage /\ flush'[f].batch = flush[f].batch
  PROVE  LossInv'
<1>1. Range(accepted') = Range(accepted) \union {m}
  BY AppendRange DEF LossInv, TypeInv, TypeOK
<1>2. Turns' = Turns
  BY Zenon DEF Turns
<1>3. \A f \in Turns : Range(flush'[f].batch) = Range(flush[f].batch)
  BY Zenon DEF Turns
<1> QED
  BY <1>1, <1>2, <1>3, Zenon DEF LossInv, AcceptedIsKept, Waiting

-----------------------------------------------------------------------------
(* Handlers *)

LEMMA InboundKeeps ==
  ASSUME LossInv, TypeInv', Inbound
  PROVE  LossInv'
<1> DEFINE m == Head(chain).message
<1>1. record \in Records /\ InputInv(record)
  BY DEF LossInv, TypeInv, TypeOK
<1>2. record.inboundBuffer \in Seq(Messages) /\ record.lateArrivals \in Seq(Messages)
  BY <1>1 DEF Records
<1>3. CASE DropInbound
  BY <1>1, <1>3, InputKept DEF DropInbound
<1>4. CASE BufferInbound
  <2>1. m \in Messages /\ accepted' = Append(accepted, m)
    BY <1>4, Zenon DEF BufferInbound, AcceptInbound
  <2>2. record.lateArrivals = <<>>
    BY <1>1, <1>4 DEF BufferInbound, InputInv, LateOwned
  <2>3. /\ record'.state = "buffering"
        /\ record'.inboundBuffer = Append(record.inboundBuffer, m)
        /\ record'.lateArrivals = record.lateArrivals
    BY <1>1, <1>4, Zenon DEF BufferInbound, Records
  <2>4. InputInv(record')
    BY <2>2, <2>3 DEF InputInv, LateOwned, ProcessingTookAll
  <2>5. Waiting(record) \union {m} \subseteq Waiting(record')
    BY <1>2, <2>1, <2>3, AppendRange DEF Waiting
  <2> QED
    BY <1>4, <2>1, <2>4, <2>5, AcceptStep DEF BufferInbound
<1>5. CASE StashLateArrival
  <2>1. m \in Messages /\ accepted' = Append(accepted, m)
    BY <1>5, Zenon DEF StashLateArrival, AcceptInbound
  <2>2. record.state = "processing" /\ record.inboundBuffer = <<>>
    BY <1>1, <1>5 DEF StashLateArrival, InputInv, ProcessingTookAll
  <2>3. /\ record'.state = record.state
        /\ record'.inboundBuffer = record.inboundBuffer
        /\ record'.lateArrivals = Append(record.lateArrivals, m)
    BY <1>1, <1>5, Zenon DEF StashLateArrival, Records
  <2>4. InputInv(record')
    BY <2>2, <2>3 DEF InputInv, LateOwned, ProcessingTookAll
  <2>5. Waiting(record) \union {m} \subseteq Waiting(record')
    BY <1>2, <2>1, <2>3, AppendRange DEF Waiting
  <2>6. \A f \in Flushes : flush[f] \in FlushRecords
    BY DEF LossInv, TypeInv, TypeOK
  <2>7. \A x \in FlushRecords : /\ [x EXCEPT !.aborted = TRUE].stage = x.stage
                                /\ [x EXCEPT !.aborted = TRUE].batch = x.batch
    BY Zenon DEF FlushRecords
  <2>8. \A f \in Flushes : flush'[f] \in {flush[f], [flush[f] EXCEPT !.aborted = TRUE]}
    BY <1>5 DEF StashLateArrival
  <2>9. \A f \in Flushes : /\ flush'[f].stage = flush[f].stage
                           /\ flush'[f].batch = flush[f].batch
    BY <2>6, <2>7, <2>8
  <2> QED
    BY <1>5, <2>1, <2>4, <2>5, <2>9, AcceptStep DEF StashLateArrival
<1>6. CASE InterruptSending
  <2>1. m \in Messages /\ accepted' = Append(accepted, m)
    BY <1>6, Zenon DEF InterruptSending, AcceptInbound
  <2>2. /\ record'.state = "buffering"
        /\ record'.inboundBuffer = Append(record.inboundBuffer \o record.lateArrivals, m)
        /\ record'.lateArrivals = <<>>
    BY <1>1, <1>6, Zenon DEF InterruptSending, InterruptedRecord, Records
  <2>3. InputInv(record')
    BY <2>2 DEF InputInv, LateOwned, ProcessingTookAll
  <2>4. Range(record.inboundBuffer \o record.lateArrivals) = Waiting(record)
    BY <1>2, RangeConcatenation DEF Waiting
  <2>5. record.inboundBuffer \o record.lateArrivals \in Seq(Messages)
    BY <1>2
  <2> DEFINE whole == record.inboundBuffer \o record.lateArrivals
  <2>6. Range(record'.inboundBuffer) = Waiting(record) \union {m}
    <3>1. whole \in Seq(Messages) /\ m \in Messages
      BY <2>1, <2>5
    <3>2. record'.inboundBuffer = Append(whole, m) /\ Range(whole) = Waiting(record)
      BY <2>2, <2>4
    <3> HIDE DEF whole, m
    <3>3. Range(Append(whole, m)) = Range(whole) \union {m}
      BY <3>1, AppendRange
    <3> QED
      BY <3>2, <3>3
  <2>7. Waiting(record) \union {m} \subseteq Waiting(record')
    BY <2>6, Zenon DEF Waiting
  <2> QED
    BY <1>6, <2>1, <2>3, <2>7, AcceptStep DEF InterruptSending
<1> QED
  BY <1>3, <1>4, <1>5, <1>6 DEF Inbound

LEMMA FlushAt ==
  ASSUME TypeInv, NEW f \in Flushes, NEW x, flush' = [flush EXCEPT ![f] = x]
  PROVE  flush'[f] = x /\ \A g \in Flushes : g # f => flush'[g] = flush[g]
  BY DEF TypeInv, TypeOK

\* A flush that is free, waits for segment 1 or only drives delivery has no turn.
LEMMA NoTurn ==
  ASSUME NEW f, flush[f].stage \in {"free", "prepare", "drive"}
  PROVE  InTurn(f) = {}
  BY DEF InTurn, Turns

\* A segment that settles the turn of f, or takes it back into the buffer, or
\* takes the buffer as its batch, loses nothing of it.
LEMMA SegmentKeeps ==
  ASSUME LossInv, TypeInv', NEW f \in Flushes, Segment(f), flush[f].stage # "drop", ~fellThrough'
  PROVE  LossInv'
<1>1. record \in Records /\ InputInv(record) /\ flush[f] \in FlushRecords
  BY DEF LossInv, TypeInv, TypeOK
<1>2. /\ record.inboundBuffer \in Seq(Messages) /\ record.lateArrivals \in Seq(Messages)
      /\ flush[f].batch \in Seq(Messages) /\ answered \in Seq(Messages)
  BY <1>1 DEF Records, FlushRecords, LossInv, TypeInv, TypeOK
<1>3. TypeInv
  BY DEF LossInv
<1>4. ASSUME NEW x, flush' = [flush EXCEPT ![f] = x], UNCHANGED accepted, InputInv(record'),
             Reach(f) \subseteq Reach(f)'
      PROVE  LossInv'
  BY <1>3, <1>4, FlushAt, TurnStep
<1>5. Range(answered \o flush[f].batch) = Range(answered) \union Range(flush[f].batch)
  BY <1>2, RangeConcatenation
<1>6. InTurn(f) \subseteq Range(flush[f].batch)
  BY DEF InTurn
<1>7. ASSUME InputInv(record'), Waiting(record) \subseteq Waiting(record'),
             answered' = answered \o flush[f].batch
      PROVE  Reach(f) \subseteq Reach(f)'
  BY <1>5, <1>6, <1>7 DEF Reach
<1>8. record.inboundBuffer # <<>> => record.lateArrivals = <<>>
  BY <1>1 DEF InputInv, LateOwned
<1>9. CASE PrepareNothing(f)
  <2>1. InTurn(f) = {}
    BY <1>9, NoTurn DEF PrepareNothing, HoldsSegment
  <2> QED
    BY <1>1, <1>4, <1>9, <2>1 DEF PrepareNothing, Reach
<1>10. CASE PrepareNoAdapter(f)
  <2>1. InTurn(f) = {}
    BY <1>10, NoTurn DEF PrepareNoAdapter, HoldsSegment
  <2>2. /\ record'.state = "idle"
        /\ record'.inboundBuffer = record.inboundBuffer
        /\ record'.lateArrivals = record.lateArrivals
    BY <1>1, <1>10, Zenon DEF PrepareNoAdapter, Records
  <2>3. InputInv(record')
    BY <1>8, <1>10, <2>2 DEF PrepareNoAdapter, InputInv, LateOwned, ProcessingTookAll
  <2>4. Reach(f) \subseteq Reach(f)'
    BY <1>10, <2>1, <2>2 DEF PrepareNoAdapter, Reach, Waiting
  <2> QED
    BY <1>4, <1>10, <2>3, <2>4 DEF PrepareNoAdapter
<1>11. CASE PrepareBatch(f)
  <2>1. InTurn(f) = {}
    BY <1>11, NoTurn DEF PrepareBatch, HoldsSegment
  <2>2. /\ record'.state = "processing"
        /\ record'.inboundBuffer = <<>>
        /\ record'.lateArrivals = <<>>
    BY <1>1, <1>11, Zenon DEF PrepareBatch, Records
  <2>3. InputInv(record')
    BY <2>2 DEF InputInv, LateOwned, ProcessingTookAll
  <2> DEFINE taken == [FreeFlush EXCEPT !.stage = "chat", !.batch = record.inboundBuffer]
  <2>4. taken.stage = "chat" /\ taken.batch = record.inboundBuffer
    BY DEF FreeFlush
  <2>5. flush' = [flush EXCEPT ![f] = taken]
    BY <1>11, Zenon DEF PrepareBatch
  <2> HIDE DEF taken
  <2>6. flush'[f] = taken
    BY <1>3, <2>5, FlushAt
  <2>7. InTurn(f)' = Range(record.inboundBuffer)
    BY <2>4, <2>6, Zenon DEF InTurn, Turns
  <2>8. Waiting(record) = Range(record.inboundBuffer)
    BY <1>8, <1>11, EmptyRange DEF PrepareBatch, Waiting
  <2>9. Reach(f) \subseteq Reach(f)'
    BY <1>11, <2>1, <2>7, <2>8 DEF PrepareBatch, Reach
  <2> QED
    BY <1>4, <1>11, <2>3, <2>5, <2>9 DEF PrepareBatch
<1>12. CASE RescueLateArrivals(f)
  <2>1. /\ record'.state = "buffering"
        /\ record'.inboundBuffer = record.inboundBuffer \o record.lateArrivals
        /\ record'.lateArrivals = <<>>
    BY <1>1, <1>12, Zenon DEF RescueLateArrivals, Records
  <2>2. InputInv(record')
    BY <2>1 DEF InputInv, LateOwned, ProcessingTookAll
  <2>3. Range(record'.inboundBuffer) = Waiting(record)
    BY <1>2, <2>1, RangeConcatenation DEF Waiting
  <2>4. Reach(f) \subseteq Reach(f)'
    BY <1>7, <1>12, <2>2, <2>3 DEF RescueLateArrivals, Waiting
  <2> QED
    BY <1>4, <1>12, <2>2, <2>4 DEF RescueLateArrivals
<1>13. CASE EndFailedTurn(f)
  <2>1. /\ record'.state = "idle"
        /\ record'.inboundBuffer = record.inboundBuffer
        /\ record'.lateArrivals = record.lateArrivals
    BY <1>1, <1>13, Zenon DEF EndFailedTurn, Records
  <2>2. InputInv(record')
    BY <1>13, <2>1 DEF EndFailedTurn, InputInv, LateOwned, ProcessingTookAll
  <2>3. Reach(f) \subseteq Reach(f)'
    BY <1>7, <1>13, <2>1, <2>2 DEF EndFailedTurn, Waiting
  <2> QED
    BY <1>4, <1>13, <2>2, <2>3 DEF EndFailedTurn
<1>14. CASE Rebatch(f)
  <2>1. /\ record'.state = "buffering"
        /\ record'.inboundBuffer = RebatchedInput(f)
        /\ record'.lateArrivals = <<>>
    BY <1>1, <1>14, Zenon DEF Rebatch, Records
  <2>2. InputInv(record')
    BY <2>1 DEF InputInv, LateOwned, ProcessingTookAll
  <2>3. flush[f].batch \o record.inboundBuffer \in Seq(Messages)
    BY <1>2
  <2>4. Range(RebatchedInput(f)) = Range(flush[f].batch) \union Waiting(record)
    <3>1. Range(flush[f].batch \o record.inboundBuffer)
            = Range(flush[f].batch) \union Range(record.inboundBuffer)
      BY <1>2, RangeConcatenation
    <3> DEFINE front == flush[f].batch \o record.inboundBuffer
               late == record.lateArrivals
    <3>2. RebatchedInput(f) = front \o late
      BY Zenon DEF RebatchedInput
    <3>3. front \in Seq(Messages) /\ late \in Seq(Messages)
      BY <1>2, <2>3
    <3> HIDE DEF front, late
    <3>4. Range(RebatchedInput(f)) = Range(front) \union Range(late)
      BY <3>2, <3>3, RangeConcatenation
    <3> QED
      BY <3>1, <3>4 DEF Waiting, front, late
  <2>5. Reach(f) \subseteq Reach(f)'
    BY <1>6, <1>14, <2>1, <2>4 DEF Rebatch, Reach, Waiting
  <2> QED
    BY <1>4, <1>14, <2>2, <2>5 DEF Rebatch
<1>15. CASE EndSilentTurn(f)
  <2>1. InputInv(record') /\ Waiting(record') = Waiting(record)
    BY <1>1, <1>15, FinalizedInput DEF EndSilentTurn, FinalizeTurn
  <2>2. Reach(f) \subseteq Reach(f)'
    BY <1>7, <1>15, <2>1 DEF EndSilentTurn
  <2> QED
    BY <1>4, <1>15, <2>1, <2>2 DEF EndSilentTurn
<1>16. CASE AttachQueue(f)
  <2>1. /\ record'.state = "sending"
        /\ record'.inboundBuffer = record.inboundBuffer
        /\ record'.lateArrivals = record.lateArrivals
    BY <1>1, <1>16, Zenon DEF AttachQueue, Records
  <2>2. InputInv(record')
    BY <1>1, <2>1 DEF InputInv, LateOwned, ProcessingTookAll
  <2>3. Reach(f) \subseteq Reach(f)'
    BY <1>7, <1>16, <2>1, <2>2 DEF AttachQueue, Waiting
  <2> QED
    BY <1>4, <1>16, <2>2, <2>3 DEF AttachQueue
<1>17. CASE DriveDelivery(f)
  <2>1. InTurn(f) = {}
    BY <1>17, NoTurn DEF DriveDelivery, HoldsSegment
  <2> QED
    BY <1>1, <1>4, <1>17, <2>1 DEF DriveDelivery, Reach
<1>18. CASE FallThroughAtCap(f) \/ ForceIdle(f)
  BY <1>18 DEF FallThroughAtCap, ForceIdle, HoldsSegment
<1> QED
  BY <1>9, <1>10, <1>11, <1>12, <1>13, <1>14, <1>15, <1>16, <1>17, <1>18
     DEF Segment, EndAtPrepare

\* The chat call: the batch stays with its flush until the turn is settled.
LEMMA ChatStepKeeps ==
  ASSUME LossInv, TypeInv', NEW f \in Flushes, ChatStep(f)
  PROVE  LossInv'
<1>1. TypeInv /\ InputInv(record) /\ flush[f] \in FlushRecords
  BY DEF LossInv, TypeInv, TypeOK
<1>2. ASSUME NEW settled, settled.stage \in {"decide", "rescue"},
             settled.batch = flush[f].batch, ChatSettles(f, settled)
      PROVE  LossInv'
  <2>1. flush'[f] = settled /\ \A g \in Flushes : g # f => flush'[g] = flush[g]
    BY <1>1, <1>2, FlushAt DEF ChatSettles
  <2>2. f \in Turns'
    BY <1>2, <2>1, Zenon DEF Turns
  <2>3. Reach(f) \subseteq Reach(f)'
    BY <1>2, <2>1, <2>2 DEF ChatSettles, Reach, InTurn
  <2> QED
    BY <1>1, <1>2, <2>1, <2>3, TurnStep DEF ChatSettles
<1>3. CASE ChatRejects(f)
  <2> DEFINE s == IF flush[f].aborted THEN "decide" ELSE "rescue"
             settled == [flush[f] EXCEPT !.stage = s]
  <2>1. settled.stage = s /\ settled.batch = flush[f].batch
    BY <1>1, Zenon DEF FlushRecords
  <2>2. ChatSettles(f, settled)
    BY <1>3, Zenon DEF ChatRejects
  <2>3. settled.stage \in {"decide", "rescue"}
    BY <2>1
  <2> HIDE DEF settled
  <2> QED
    BY <1>2, <2>1, <2>2, <2>3
<1>4. ASSUME NEW reply \in Replies, ChatReplies(f, reply)
      PROVE  LossInv'
  <2> DEFINE settled ==
        [flush[f] EXCEPT !.stage = "decide", !.aborted = FALSE, !.reply = reply]
  <2>1. settled.stage = "decide" /\ settled.batch = flush[f].batch
    BY <1>1, Zenon DEF FlushRecords
  <2>2. ChatSettles(f, settled)
    BY <1>4, Zenon DEF ChatReplies
  <2> HIDE DEF settled
  <2> QED
    BY <1>2, <2>1, <2>2
<1> QED
  BY <1>3, <1>4 DEF ChatStep

LEMMA TimerFiresKeeps ==
  ASSUME LossInv, TypeInv', TimerFires
  PROVE  LossInv'
<1>1. TypeInv /\ InputInv(record)
  BY DEF LossInv
<1>2. ASSUME NEW f \in Flushes, BufferTimerFires(f)
      PROVE  LossInv'
  <2>1. InTurn(f) = {}
    BY <1>2, NoTurn DEF BufferTimerFires
  <2>2. Reach(f) \subseteq Reach(f)'
    BY <1>2, <2>1 DEF BufferTimerFires, Reach
  <2>3. \A g \in Flushes : g # f => flush'[g] = flush[g]
    BY <1>1, <1>2 DEF BufferTimerFires, TypeInv, TypeOK
  <2> QED
    BY <1>1, <1>2, <2>2, <2>3, TurnStep DEF BufferTimerFires
<1>3. ASSUME NEW i \in deliveryTimeouts, DeliveryTimerFires(i)
      PROVE  LossInv'
  BY <1>1, <1>3, InputKept DEF DeliveryTimerFires
<1>4. ASSUME NEW t \in transientRetryTimers, RetryTimerFires(t)
      PROVE  LossInv'
  BY <1>1, <1>4, InputKept DEF RetryTimerFires
<1> QED
  BY <1>2, <1>3, <1>4 DEF TimerFires

-----------------------------------------------------------------------------
(* Ordered delivery *)

\* What sendNext, a status or a timer leaves: a record with the same input, which
\* may advance, skip an item, end the turn or be re-prompted for.
Delivers(r) ==
  \/ /\ record' \in {r, AdvancedRecord(r), SkippedRecord(r)}
     /\ UNCHANGED bufferTimer
  \/ FinalizeTurn(r)
  \/ \E armed : HandleWindowClosed(r, armed)

DeliveryStep ==
  /\ UNCHANGED <<accepted, flush, inFlightChatAborts, answered, fellThrough, deployment>>
  /\ \E r \in Records : SameInput(record, r) /\ Delivers(r)

LEMMA DeliveryIntro ==
  ASSUME UNCHANGED <<accepted, flush, inFlightChatAborts, answered, fellThrough, deployment>>,
         NEW r \in Records, SameInput(record, r),
         \/ record' = r /\ UNCHANGED bufferTimer
         \/ record' = AdvancedRecord(r) /\ UNCHANGED bufferTimer
         \/ record' = SkippedRecord(r) /\ UNCHANGED bufferTimer
         \/ FinalizeTurn(r)
         \/ \E armed : HandleWindowClosed(r, armed)
  PROVE  DeliveryStep
  BY DEF DeliveryStep, Delivers

LEMMA DeliveryKeeps ==
  ASSUME LossInv, TypeInv', DeliveryStep
  PROVE  LossInv'
<1>1. TypeInv /\ InputInv(record) /\ UNCHANGED <<accepted, flush, answered>>
  BY DEF LossInv, DeliveryStep
<1>2. PICK r \in Records : SameInput(record, r) /\ Delivers(r)
  BY DEF DeliveryStep
<1>3. InputInv(r) /\ Waiting(r) = Waiting(record)
  BY <1>1, <1>2, SameInputKeeps
<1>4. InputInv(record') /\ Waiting(record') = Waiting(r)
  BY <1>1, <1>2, <1>3, AdvancedInput, SkippedInput, SameInputKeeps, FinalizedInput,
     HandleWindowClosedInput DEF Delivers, FinalizeTurn
<1> QED
  BY <1>1, <1>3, <1>4, InputKept

LEMMA RecordItself ==
  ASSUME TypeInv
  PROVE  record \in Records /\ SameInput(record, record)
  BY DEF TypeInv, TypeOK, SameInput

LEMMA SendStepDelivers ==
  ASSUME TypeInv, SendStep
  PROVE  DeliveryStep
<1>1. TypeInv /\ record \in Records /\ SameInput(record, record)
  BY RecordItself
<1>2. CASE SendLoopEnds
  BY <1>1, <1>2, DeliveryIntro DEF SendLoopEnds
<1> SUFFICES ASSUME NEW item, Sending(item),
                    \/ SendFireAndForget(item) \/ SendOnSend(item) \/ SendOnStatus(item)
                    \/ SendFailsTransient(item) \/ SendSkips(item)
                    \/ SendFindsWindowClosed(item)
             PROVE  DeliveryStep
  BY <1>2, Zenon DEF SendStep, SendFireAndForget, SendOnSend, SendOnStatus,
     SendFailsTransient, SendSkips, SendFindsWindowClosed
<1>3. item \in Items /\ lastId + 1 \in Nat
  BY <1>1, CurrentItemType DEF Sending, TypeInv, TypeOK
<1>13. item.retryCount + 1 \in Nat /\ item.attempts + 1 \in Nat
  BY <1>3 DEF Items
<1> DEFINE tried == WithCurrent(record, Attempted(item))
           sent == WithCurrent(record, SentItem(item, lastId + 1))
<1>14. Attempted(item) \in Items
  BY <1>3, <1>13, Zenon DEF Attempted, Items
<1>4. Attempted(item) \in Items /\ SentItem(item, lastId + 1) \in Items
  BY <1>3, <1>14, 0 \in Nat, Zenon DEF SentItem, Items
<1>5. tried \in Records /\ SameInput(record, tried)
  BY <1>1, <1>4, WithCurrentType, WithCurrentInput
<1>6. sent \in Records /\ SameInput(record, sent)
  BY <1>1, <1>4, WithCurrentType, WithCurrentInput
<1>7. CASE SendFireAndForget(item)
  BY <1>5, <1>7, DeliveryIntro DEF SendFireAndForget, AdvanceAndContinue
<1>8. CASE SendOnSend(item)
  BY <1>6, <1>8, DeliveryIntro DEF SendOnSend
<1>9. CASE SendOnStatus(item)
  <2> HIDE DEF sent
  <2>1. record' = [sent EXCEPT !.currentOutboundMessageId = lastId + 1]
    BY <1>9, Zenon DEF SendOnStatus, sent
  <2>2. record' \in Records /\ SameInput(sent, record')
    BY <1>3, <1>6, <2>1, Zenon DEF Records, SameInput
  <2> QED
    BY <1>1, <1>6, <1>9, <2>2, DeliveryIntro DEF SendOnStatus, SameInput
<1>10. CASE SendFailsTransient(item)
  <2> DEFINE retried == [Attempted(item) EXCEPT !.retryCount = item.retryCount + 1]
  <2>1. retried \in Items
    BY <1>4, <1>13, Zenon DEF Items
  <2>2. record' = WithCurrent(record, retried)
    BY <1>10, Zenon DEF SendFailsTransient, ScheduleRetry
  <2> HIDE DEF retried
  <2> QED
    BY <1>1, <1>10, <2>1, <2>2, WithCurrentType, WithCurrentInput, DeliveryIntro
       DEF SendFailsTransient, ScheduleRetry
<1>11. CASE SendSkips(item)
  BY <1>5, <1>11, DeliveryIntro DEF SendSkips, AdvanceAndContinue
<1>12. CASE SendFindsWindowClosed(item)
  BY <1>5, <1>12, DeliveryIntro DEF SendFindsWindowClosed
<1> QED
  BY <1>7, <1>8, <1>9, <1>10, <1>11, <1>12

LEMMA StatusDelivers ==
  ASSUME TypeInv, Status
  PROVE  DeliveryStep
<1>1. TypeInv /\ record \in Records /\ SameInput(record, record)
  BY RecordItself
<1>2. CASE DropStatus
  BY <1>1, <1>2, DeliveryIntro DEF DropStatus
<1>3. ASSUME NEW h \in handles
      PROVE  NotedRecord(h) \in Records /\ SameInput(record, NotedRecord(h))
  <2>1. h.id \in Nat
    BY <1>1 DEF TypeInv, TypeOK
  <2>2. (IF Head(chain).status = "delivered" THEN record.deliveredMessageIds \union {h.id}
         ELSE record.deliveredMessageIds) \in SUBSET Nat
    BY <1>1, <2>1 DEF Records
  <2> QED
    BY <1>1, <2>2, Zenon DEF NotedRecord, SameInput, Records
<1>4. ASSUME NEW h \in handles, NoteStatus(h)
      PROVE  DeliveryStep
  BY <1>3, <1>4, DeliveryIntro DEF NoteStatus
<1>5. ASSUME NEW h \in handles, StatusAdvances(h)
      PROVE  DeliveryStep
  BY <1>3, <1>5, DeliveryIntro DEF StatusAdvances, AdvanceAndContinue
<1>6. ASSUME NEW h \in handles, StatusFailsTransient(h)
      PROVE  DeliveryStep
  <2> DEFINE item == CurrentItem(record.outboundQueue, record.currentOutboundIndex)
             attempt == item.asyncFailRetryCount + 1
             failed == [item EXCEPT !.asyncFailRetryCount = attempt, !.channelMessageId = None]
             retried == [failed EXCEPT !.retryCount = attempt]
             unsent == [record EXCEPT !.currentOutboundMessageId = None]
  <2>1. item \in Items
    BY <1>1, <1>6, CurrentItemType DEF StatusFailsTransient, MayRetryAsync
  <2>2. attempt \in Nat
    BY <2>1 DEF Items
  <2>3. failed \in Items
    BY <2>1, <2>2, 0 \in Nat, Zenon DEF Items, None
  <2>4. retried \in Items
    BY <2>2, <2>3, Zenon DEF Items
  <2>5. unsent \in Records /\ SameInput(record, unsent)
    BY <1>1, 0 \in Nat, Zenon DEF Records, SameInput, None
  <2>6. record' = WithCurrent(unsent, retried)
    BY <1>6, Zenon DEF StatusFailsTransient, ScheduleRetry
  <2> HIDE DEF retried, unsent
  <2>7. record' \in Records /\ SameInput(record, record')
    BY <2>4, <2>5, <2>6, WithCurrentType, WithCurrentInput DEF SameInput
  <2> QED
    BY <1>6, <2>7, DeliveryIntro DEF StatusFailsTransient, StatusFails, ScheduleRetry
<1>7. ASSUME NEW h \in handles, StatusSkips(h)
      PROVE  DeliveryStep
  BY <1>1, <1>7, DeliveryIntro DEF StatusSkips, StatusFails, AdvanceAndContinue
<1>8. ASSUME NEW h \in handles, StatusFindsWindowClosed(h)
      PROVE  DeliveryStep
  BY <1>1, <1>8, DeliveryIntro DEF StatusFindsWindowClosed, StatusFails
<1> QED
  BY <1>2, <1>4, <1>5, <1>6, <1>7, <1>8 DEF Status

LEMMA TimerDelivers ==
  ASSUME TypeInv, Timer
  PROVE  DeliveryStep
<1>1. record \in Records /\ SameInput(record, record)
  BY RecordItself
<1>2. CASE TimeoutAdvances
  BY <1>1, <1>2, DeliveryIntro DEF TimeoutAdvances, AdvanceAndContinue
<1>3. CASE DropTimeout \/ RetrySends \/ DropRetry
  BY <1>1, <1>3, DeliveryIntro DEF DropTimeout, RetrySends, DropRetry
<1> QED
  BY <1>2, <1>3 DEF Timer

-----------------------------------------------------------------------------
(* What falls through at the cap *)

\* A segment other than that of segment 2 at the cap drops nothing.
LEMMA SegmentDrops ==
  ASSUME TypeInv, DropSeen, NEW f \in Flushes, Segment(f)
  PROVE  DropSeen' /\ (fellThrough' <=> fellThrough \/ FallThroughAtCap(f))
<1>1. ASSUME NEW x, flush' = [flush EXCEPT ![f] = x], x.stage # "drop", UNCHANGED fellThrough,
             ~FallThroughAtCap(f)
      PROVE  DropSeen' /\ (fellThrough' <=> fellThrough \/ FallThroughAtCap(f))
  BY <1>1, FlushAt DEF DropSeen
<1>2. /\ FreeFlush.stage = "free"
      /\ [FreeFlush EXCEPT !.stage = "drive"].stage = "drive"
  BY DEF FreeFlush
<1>3. CASE FallThroughAtCap(f)
  BY <1>3 DEF FallThroughAtCap, DropSeen
<1>4. CASE PrepareBatch(f)
  <2> DEFINE taken == [FreeFlush EXCEPT !.stage = "chat", !.batch = record.inboundBuffer]
  <2>1. taken.stage = "chat"
    BY DEF FreeFlush
  <2>2. flush' = [flush EXCEPT ![f] = taken] /\ UNCHANGED fellThrough
    BY <1>4, Zenon DEF PrepareBatch
  <2>3. ~FallThroughAtCap(f)
    BY <1>4 DEF PrepareBatch, FallThroughAtCap, HoldsSegment
  <2> HIDE DEF taken
  <2> QED
    BY <1>1, <2>1, <2>2, <2>3
<1>5. CASE AttachQueue(f)
  <2>1. /\ flush' = [flush EXCEPT ![f] = [FreeFlush EXCEPT !.stage = "drive"]]
        /\ UNCHANGED fellThrough
    BY <1>5, Zenon DEF AttachQueue
  <2>2. ~FallThroughAtCap(f)
    BY <1>5, Zenon DEF AttachQueue, FallThroughAtCap
  <2> QED
    BY <1>1, <1>2, <2>1, <2>2
<1>6. CASE \/ PrepareNothing(f) \/ PrepareNoAdapter(f) \/ RescueLateArrivals(f)
           \/ EndFailedTurn(f) \/ Rebatch(f) \/ EndSilentTurn(f) \/ DriveDelivery(f)
           \/ ForceIdle(f)
  <2>1. flush' = [flush EXCEPT ![f] = FreeFlush] /\ UNCHANGED fellThrough
    BY <1>6, Zenon DEF PrepareNothing, PrepareNoAdapter, RescueLateArrivals, EndFailedTurn,
       Rebatch, EndSilentTurn, DriveDelivery, ForceIdle
  <2>2. ~FallThroughAtCap(f)
    BY <1>6 DEF PrepareNothing, PrepareNoAdapter, RescueLateArrivals, EndFailedTurn,
       Rebatch, EndSilentTurn, DriveDelivery, ForceIdle, FallThroughAtCap, HoldsSegment
  <2> QED
    BY <1>1, <1>2, <2>1, <2>2
<1> QED
  BY <1>3, <1>4, <1>5, <1>6 DEF Segment, EndAtPrepare

\* A step that moves no flush to "drop".
LEMMA OthersDropNone ==
  ASSUME TypeInv, DropSeen, [Next]_vars, ~\E f \in Flushes : Segment(f)
  PROVE  DropSeen' /\ UNCHANGED fellThrough
<1>1. ASSUME \A f \in Flushes : flush'[f].stage = "drop" => flush[f].stage = "drop",
             UNCHANGED fellThrough
      PROVE  DropSeen' /\ UNCHANGED fellThrough
  BY <1>1 DEF DropSeen
<1>2. \A f \in Flushes : flush[f] \in FlushRecords
  BY DEF TypeInv, TypeOK
<1>3. CASE UNCHANGED <<flush, fellThrough>>
  BY <1>1, <1>3
<1>4. CASE Inbound
  <2>1. CASE DropInbound \/ BufferInbound \/ InterruptSending
    BY <1>3, <2>1 DEF DropInbound, BufferInbound, InterruptSending
  <2>2. CASE StashLateArrival
    <3>1. \A x \in FlushRecords : [x EXCEPT !.aborted = TRUE].stage = x.stage
      BY Zenon DEF FlushRecords
    <3>2. \A f \in Flushes : flush'[f] \in {flush[f], [flush[f] EXCEPT !.aborted = TRUE]}
      BY <2>2 DEF StashLateArrival
    <3>3. UNCHANGED fellThrough
      BY <2>2 DEF StashLateArrival
    <3> QED
      BY <1>1, <1>2, <3>1, <3>2, <3>3
  <2> QED
    BY <1>4, <2>1, <2>2 DEF Inbound
<1>5. CASE SendStep \/ Status \/ Timer
  BY <1>3, <1>5, SendStepDelivers, StatusDelivers, TimerDelivers DEF DeliveryStep
<1>6. ASSUME NEW f \in Flushes, ChatStep(f)
      PROVE  DropSeen' /\ UNCHANGED fellThrough
  <2>1. ASSUME NEW settled, settled.stage \in {"decide", "rescue"}, ChatSettles(f, settled)
        PROVE  DropSeen' /\ UNCHANGED fellThrough
    BY <1>1, <2>1, FlushAt DEF ChatSettles
  <2>2. CASE ChatRejects(f)
    <3> DEFINE s == IF flush[f].aborted THEN "decide" ELSE "rescue"
               settled == [flush[f] EXCEPT !.stage = s]
    <3>1. settled.stage = s
      BY <1>2, Zenon DEF FlushRecords
    <3>2. ChatSettles(f, settled)
      BY <2>2, Zenon DEF ChatRejects
    <3>3. settled.stage \in {"decide", "rescue"}
      BY <3>1
    <3> HIDE DEF settled
    <3> QED
      BY <2>1, <3>2, <3>3
  <2>3. ASSUME NEW reply \in Replies, ChatReplies(f, reply)
        PROVE  DropSeen' /\ UNCHANGED fellThrough
    <3> DEFINE settled ==
          [flush[f] EXCEPT !.stage = "decide", !.aborted = FALSE, !.reply = reply]
    <3>1. settled.stage = "decide"
      BY <1>2, Zenon DEF FlushRecords
    <3>2. ChatSettles(f, settled)
      BY <2>3, Zenon DEF ChatReplies
    <3> HIDE DEF settled
    <3> QED
      BY <2>1, <3>1, <3>2
  <2> QED
    BY <1>6, <2>2, <2>3 DEF ChatStep
<1>7. CASE TimerFires
  <2>1. ASSUME NEW f \in Flushes, BufferTimerFires(f)
        PROVE  DropSeen' /\ UNCHANGED fellThrough
    <3>1. /\ flush' = [flush EXCEPT ![f] = [flush[f] EXCEPT !.stage = "prepare"]]
          /\ UNCHANGED fellThrough
      BY <2>1, Zenon DEF BufferTimerFires
    <3>2. [flush[f] EXCEPT !.stage = "prepare"].stage = "prepare"
      BY <1>2, Zenon DEF FlushRecords
    <3> QED
      BY <1>1, <3>1, <3>2, FlushAt
  <2>2. ASSUME NEW i \in deliveryTimeouts, DeliveryTimerFires(i)
        PROVE  DropSeen' /\ UNCHANGED fellThrough
    BY <1>3, <2>2 DEF DeliveryTimerFires
  <2>3. ASSUME NEW t \in transientRetryTimers, RetryTimerFires(t)
        PROVE  DropSeen' /\ UNCHANGED fellThrough
    BY <1>3, <2>3 DEF RetryTimerFires
  <2> QED
    BY <1>7, <2>1, <2>2, <2>3 DEF TimerFires
<1>8. CASE Webhook \/ UNCHANGED vars
  BY <1>3, <1>8 DEF Webhook, ReceiveInbound, ReceiveStatus, vars
<1> QED
  BY <1>4, <1>5, <1>6, <1>7, <1>8 DEF Next, LockStep

LEMMA StepDrops ==
  ASSUME TypeInv, DropSeen, [Next]_vars
  PROVE  /\ DropSeen'
         /\ fellThrough' <=> fellThrough \/ \E f \in Flushes : FallThroughAtCap(f)
<1>1. CASE \E f \in Flushes : Segment(f)
  <2>1. PICK f \in Flushes : Segment(f)
    BY <1>1
  <2>2. ASSUME NEW g \in Flushes, FallThroughAtCap(g)
        PROVE  fellThrough'
    BY <2>2 DEF FallThroughAtCap
  <2> QED
    BY <2>1, <2>2, SegmentDrops
<1>2. CASE ~\E f \in Flushes : Segment(f)
  BY <1>2, OthersDropNone DEF Segment
<1> QED
  BY <1>1, <1>2

-----------------------------------------------------------------------------
(* The theorems *)

LEMMA InitLoss == Init => LossInv
<1> SUFFICES ASSUME Init PROVE LossInv
  OBVIOUS
<1>1. TypeInv
  BY InitType
<1>2. /\ record.state = "idle" /\ record.lateArrivals = <<>>
      /\ accepted = <<>>
  BY Zenon DEF Init
<1> QED
  BY <1>1, <1>2, EmptyRange
     DEF LossInv, InputInv, LateOwned, ProcessingTookAll, AcceptedIsKept

LEMMA StepLoss ==
  ASSUME LossInv, DropSeen, [Next]_vars, ~fellThrough'
  PROVE  LossInv'
<1>1. TypeInv'
  BY StepType DEF LossInv
<1>2. CASE UNCHANGED vars
  <2>1. UNCHANGED <<record, accepted, flush, answered>>
    BY <1>2 DEF vars
  <2> QED
    BY <1>1, <2>1, InputKept DEF LossInv
<1>3. CASE Webhook
  <2>1. UNCHANGED <<record, accepted, flush, answered>>
    BY <1>3 DEF Webhook, ReceiveInbound, ReceiveStatus
  <2> QED
    BY <1>1, <2>1, InputKept DEF LossInv
<1>4. ASSUME NEW f \in Flushes, Segment(f)
      PROVE  LossInv'
  <2>1. flush[f].stage # "drop"
    BY StepDrops DEF LossInv, DropSeen
  <2> QED
    BY <1>1, <1>4, <2>1, SegmentKeeps
<1> QED
  BY <1>1, <1>2, <1>3, <1>4, TimerFiresKeeps, ChatStepKeeps, InboundKeeps,
     SendStepDelivers, StatusDelivers, TimerDelivers, DeliveryKeeps DEF Next, LockStep, LossInv

LEMMA InitKept == Init => KeptInv
<1> SUFFICES ASSUME Init PROVE KeptInv
  OBVIOUS
<1>1. \A f \in Flushes : flush[f].stage = "free"
  BY DEF Init, FreeFlush
<1> QED
  BY <1>1, InitLoss DEF KeptInv, DropSeen, LossInv

LEMMA StepKept == KeptInv /\ [Next]_vars => KeptInv'
<1> SUFFICES ASSUME KeptInv, [Next]_vars PROVE KeptInv'
  OBVIOUS
<1>1. TypeInv' /\ DropSeen' /\ (fellThrough => fellThrough')
  BY StepType, StepDrops DEF KeptInv
<1>2. CASE ~fellThrough'
  BY <1>1, <1>2, StepLoss DEF KeptInv
<1> QED
  BY <1>1, <1>2 DEF KeptInv

LEMMA KeptInvariant == Spec => []KeptInv
BY InitKept, StepKept, PTL DEF Spec

\* No accepted message is lost unless a turn fell through segment 2 at the cap: it
\* is buffered, late, in the batch of a flush or in a settled turn, however
\* webhooks, aborts, interrupts, failed calls and overlapping flushes of
\* handleInbound and flushImpl interleave.
THEOREM InboundNeverLost == Spec => []NoInboundLost
<1>1. KeptInv => NoInboundLost
  BY DEF KeptInv, LossInv, NoInboundLost
<1> QED
  BY <1>1, KeptInvariant, PTL

\* Late arrivals are only kept while the turn that folds them into the next one
\* is in flight, and never behind a buffer that a flush would take alone, unless a
\* turn fell through at the cap.
THEOREM LateArrivalsOwned == Spec => []LateArrivalsAreOwned
<1>1. KeptInv => LateArrivalsAreOwned
  BY DEF KeptInv, LossInv, InputInv, LateOwned, LateArrivalsAreOwned
<1> QED
  BY <1>1, KeptInvariant, PTL

-----------------------------------------------------------------------------
(* Handled once: the invariant *)

Distinct(s) == \A i, j \in DOMAIN s : s[i] = s[j] => i = j

Apart(S, T) == S \intersect T = {}

\* The buffer and the late arrivals.
InputOnce(r) ==
  /\ Distinct(r.inboundBuffer) /\ Distinct(r.lateArrivals)
  /\ Apart(Range(r.inboundBuffer), Range(r.lateArrivals))

\* The batch of the turn of f, if it has one, is apart from all else.
TurnOnce(f) ==
  /\ f \in Turns => Distinct(flush[f].batch)
  /\ Apart(InTurn(f), Waiting(record) \union Range(answered))
  /\ \A g \in Flushes : g # f => Apart(InTurn(f), InTurn(g))

AllClaimed ==
  /\ Waiting(record) \union Range(answered) \subseteq Range(accepted)
  /\ \A f \in Flushes : InTurn(f) \subseteq Range(accepted)

OnceInv ==
  /\ TypeInv
  /\ InputOnce(record)
  /\ Distinct(answered) /\ Apart(Waiting(record), Range(answered))
  /\ \A f \in Flushes : TurnOnce(f)
  /\ AllClaimed

-----------------------------------------------------------------------------
(* Sequences *)

LEMMA EmptyDistinct == Distinct(<<>>)
  BY DEF Distinct

LEMMA InRange ==
  ASSUME NEW S, NEW s \in Seq(S), NEW i \in DOMAIN s
  PROVE  s[i] \in Range(s)
  BY RangeEquality

\* Two sequences without repetitions that share nothing make one.
LEMMA ConcatDistinct ==
  ASSUME NEW S, NEW s \in Seq(S), NEW t \in Seq(S),
         Distinct(s), Distinct(t), Apart(Range(s), Range(t))
  PROVE  Distinct(s \o t)
<1> SUFFICES ASSUME NEW i \in DOMAIN (s \o t), NEW j \in DOMAIN (s \o t),
                    (s \o t)[i] = (s \o t)[j]
             PROVE  i = j
  BY DEF Distinct
<1>1. /\ Len(s) \in Nat /\ Len(t) \in Nat
      /\ DOMAIN s = 1 .. Len(s) /\ DOMAIN t = 1 .. Len(t)
      /\ DOMAIN (s \o t) = 1 .. Len(s) + Len(t)
  OBVIOUS
<1>2. \A k \in 1 .. Len(s) + Len(t) :
        /\ k <= Len(s) => k \in DOMAIN s /\ (s \o t)[k] = s[k]
        /\ k > Len(s) => k - Len(s) \in DOMAIN t /\ (s \o t)[k] = t[k - Len(s)]
  BY <1>1
<1>3. ASSUME NEW k \in DOMAIN s, NEW l \in DOMAIN t PROVE s[k] # t[l]
  BY InRange DEF Apart
<1>4. CASE i <= Len(s) /\ j <= Len(s)
  BY <1>1, <1>2, <1>4 DEF Distinct
<1>5. CASE i > Len(s) /\ j > Len(s)
  <2>1. i - Len(s) = j - Len(s)
    BY <1>1, <1>2, <1>5 DEF Distinct
  <2> QED
    BY <1>1, <2>1
<1>6. CASE i <= Len(s) /\ j > Len(s)
  BY <1>1, <1>2, <1>3, <1>6
<1>7. CASE i > Len(s) /\ j <= Len(s)
  BY <1>1, <1>2, <1>3, <1>7
<1> QED
  BY <1>1, <1>4, <1>5, <1>6, <1>7

LEMMA AppendDistinct ==
  ASSUME NEW S, NEW s \in Seq(S), NEW e \in S, Distinct(s), e \notin Range(s)
  PROVE  Distinct(Append(s, e))
<1>1. Append(s, e) = s \o <<e>>
  BY AppendIsConcat
<1>2. <<e>> \in Seq(S) /\ Distinct(<<e>>)
  BY DEF Distinct
<1>3. Range(<<e>>) = {e}
  <2>1. Range(Append(<<>>, e)) = Range(<<>>) \union {e}
    <3> DEFINE none == <<>>
    <3>1. none \in Seq(S)
      OBVIOUS
    <3> HIDE DEF none
    <3>2. Range(Append(none, e)) = Range(none) \union {e}
      BY <3>1, AppendRange
    <3> QED
      BY <3>2, Zenon DEF none
  <2>2. Append(<<>>, e) = <<e>>
    OBVIOUS
  <2> QED
    BY <2>1, <2>2, EmptyRange, Zenon
<1> QED
  BY <1>1, <1>2, <1>3, ConcatDistinct DEF Apart

-----------------------------------------------------------------------------
(* Records *)

LEMMA SameInputOnce ==
  ASSUME NEW r, NEW q, SameInput(r, q), InputOnce(r)
  PROVE  InputOnce(q)
  BY DEF SameInput, InputOnce

LEMMA SameInputWaits ==
  ASSUME NEW r, NEW q, SameInput(r, q)
  PROVE  Waiting(q) = Waiting(r)
  BY DEF SameInput, Waiting

\* The buffer and the late arrivals, as one buffer.
LEMMA FoldedOnce ==
  ASSUME NEW r \in Records, InputOnce(r)
  PROVE  Distinct(r.inboundBuffer \o r.lateArrivals)
  BY ConcatDistinct DEF Records, InputOnce

LEMMA FinalizedWaits ==
  ASSUME NEW r \in Records
  PROVE  Waiting(FinalizedRecord(r)) = Waiting(r)
<1> DEFINE q == FinalizedRecord(r)
<1>1. r.inboundBuffer \in Seq(Messages) /\ r.lateArrivals \in Seq(Messages)
  BY DEF Records
<1>2. CASE r.lateArrivals # <<>>
  <2>1. q.inboundBuffer = r.inboundBuffer \o r.lateArrivals /\ q.lateArrivals = <<>>
    BY <1>2, Zenon DEF FinalizedRecord, Records
  <2> HIDE DEF q
  <2>2. Waiting(q) = Waiting(r)
    BY <1>1, <2>1, RangeConcatenation, EmptyRange DEF Waiting
  <2> QED
    BY <2>2 DEF q
<1>3. CASE r.lateArrivals = <<>>
  <2>1. q.inboundBuffer = r.inboundBuffer /\ q.lateArrivals = r.lateArrivals
    BY <1>3, Zenon DEF FinalizedRecord, Records
  <2> QED
    BY <2>1 DEF Waiting
<1> QED
  BY <1>2, <1>3

LEMMA FinalizedOnce ==
  ASSUME NEW r \in Records, InputOnce(r)
  PROVE  InputOnce(FinalizedRecord(r))
<1> DEFINE q == FinalizedRecord(r)
<1>1. CASE r.lateArrivals # <<>>
  <2>1. q.inboundBuffer = r.inboundBuffer \o r.lateArrivals /\ q.lateArrivals = <<>>
    BY <1>1, Zenon DEF FinalizedRecord, Records
  <2> HIDE DEF q
  <2>2. InputOnce(q)
    BY <2>1, FoldedOnce, EmptyDistinct, EmptyRange DEF InputOnce, Apart
  <2> QED
    BY <2>2 DEF q
<1>2. CASE r.lateArrivals = <<>>
  <2>1. q.inboundBuffer = r.inboundBuffer /\ q.lateArrivals = r.lateArrivals
    BY <1>2, Zenon DEF FinalizedRecord, Records
  <2> QED
    BY <2>1 DEF InputOnce
<1> QED
  BY <1>1, <1>2

LEMMA HandleWindowClosedOnce ==
  ASSUME TypeInv, NEW r \in Records, InputOnce(r), NEW armed, HandleWindowClosed(r, armed)
  PROVE  InputOnce(record') /\ Waiting(record') = Waiting(r)
<1> DEFINE reprompted == [r EXCEPT !.windowReprompted = TRUE]
<1>1. reprompted \in Records
  BY TRUE \in BOOLEAN, Zenon DEF Records
<1>2. SameInput(r, reprompted)
  BY Zenon DEF SameInput, Records
<1>3. InputOnce(reprompted) /\ Waiting(reprompted) = Waiting(r)
  BY <1>2, SameInputOnce, SameInputWaits
<1> HIDE DEF reprompted
<1>4. ASSUME NEW q \in Records, InputOnce(q), Waiting(q) = Waiting(r),
             AdvanceAndContinue(SkippedRecord(q))
      PROVE  InputOnce(record') /\ Waiting(record') = Waiting(r)
  BY <1>4, SkippedInput, SameInputOnce, SameInputWaits DEF AdvanceAndContinue
<1>5. CASE FinalizeTurn(reprompted)
  BY <1>1, <1>3, <1>5, FinalizedOnce, FinalizedWaits DEF FinalizeTurn
<1>6. ASSUME NEW reply,
             record' = [reprompted EXCEPT
                          !.outboundQueue = BuildOutboundItems(reply, lastId),
                          !.currentOutboundIndex = 0,
                          !.currentOutboundMessageId = None]
      PROVE  InputOnce(record') /\ Waiting(record') = Waiting(r)
  <2>1. SameInput(reprompted, record')
    BY <1>1, <1>6, Zenon DEF SameInput, Records
  <2> QED
    BY <1>3, <2>1, SameInputOnce, SameInputWaits
<1> QED
  BY <1>1, <1>3, <1>4, <1>5, <1>6, Zenon DEF HandleWindowClosed, reprompted

-----------------------------------------------------------------------------
(* Steps *)

\* A step that leaves the flushes alone and what waits as it is.
LEMMA OnceKept ==
  ASSUME OnceInv, TypeInv', InputOnce(record'), Waiting(record') = Waiting(record),
         UNCHANGED <<accepted, flush, answered>>
  PROVE  OnceInv'
<1>1. Turns' = Turns /\ \A f : InTurn(f)' = InTurn(f)
  BY DEF Turns, InTurn
<1> QED
  BY <1>1, Zenon DEF OnceInv, TurnOnce, AllClaimed

LEMMA DeliveryOnce ==
  ASSUME OnceInv, TypeInv', DeliveryStep
  PROVE  OnceInv'
<1>1. TypeInv /\ InputOnce(record) /\ UNCHANGED <<accepted, flush, answered>>
  BY DEF OnceInv, DeliveryStep
<1>2. PICK r \in Records : SameInput(record, r) /\ Delivers(r)
  BY DEF DeliveryStep
<1>3. Waiting(r) = Waiting(record) /\ InputOnce(r)
  BY <1>1, <1>2, SameInputWaits, SameInputOnce
<1>4. Waiting(record') = Waiting(r)
  BY <1>1, <1>2, <1>3, AdvancedInput, SkippedInput, SameInputWaits, FinalizedWaits,
     HandleWindowClosedOnce DEF Delivers, FinalizeTurn
<1>5. InputOnce(record')
  BY <1>1, <1>2, <1>3, AdvancedInput, SkippedInput, SameInputOnce, FinalizedOnce,
     HandleWindowClosedOnce DEF Delivers, FinalizeTurn
<1> QED
  BY <1>1, <1>3, <1>4, <1>5, OnceKept

\* A message that was not claimed is in none of the sequences.
LEMMA AcceptOnce ==
  ASSUME OnceInv, TypeInv',
         NEW m \in Messages, m \notin Range(accepted), accepted' = Append(accepted, m),
         InputOnce(record'), Waiting(record') = Waiting(record) \union {m}, UNCHANGED answered,
         \A f \in Flushes : flush'[f].stage = flush[f].stage /\ flush'[f].batch = flush[f].batch
  PROVE  OnceInv'
<1>1. Range(accepted') = Range(accepted) \union {m}
  BY AppendRange DEF OnceInv, TypeInv, TypeOK
<1>2. Turns' = Turns
  BY Zenon DEF Turns
<1>3. \A f \in Flushes : InTurn(f)' = InTurn(f)
  BY <1>2, Zenon DEF InTurn, Turns
<1>4. /\ m \notin Waiting(record) /\ m \notin Range(answered)
      /\ \A f \in Flushes : m \notin InTurn(f)
  BY DEF OnceInv, AllClaimed
<1>5. Apart(Waiting(record'), Range(answered'))
  BY <1>4 DEF OnceInv, Apart
<1>6. ASSUME NEW f \in Flushes PROVE TurnOnce(f)'
  <2>1. TurnOnce(f)
    BY DEF OnceInv
  <2>2. f \in Turns' => Distinct(flush'[f].batch)
    BY <1>2, <2>1 DEF TurnOnce
  <2>3. Apart(InTurn(f)', Waiting(record') \union Range(answered'))
    BY <1>3, <1>4, <2>1 DEF TurnOnce, Apart
  <2>4. \A g \in Flushes : g # f => Apart(InTurn(f)', InTurn(g)')
    BY <1>3, <2>1 DEF TurnOnce
  <2> QED
    BY <2>2, <2>3, <2>4 DEF TurnOnce
<1>7. AllClaimed'
  BY <1>1, <1>3 DEF OnceInv, AllClaimed
<1> QED
  BY <1>5, <1>6, <1>7 DEF OnceInv

\* A step of the flush f takes messages only from its own reach and puts them
\* each in one place.
LEMMA TurnStepOnce ==
  ASSUME OnceInv, TypeInv', UNCHANGED accepted, NEW f \in Flushes,
         \A g \in Flushes : g # f => flush'[g] = flush[g],
         InputOnce(record'), Distinct(answered'),
         f \in Turns' => Distinct(flush'[f].batch),
         Apart(Waiting(record'), Range(answered')),
         Apart(InTurn(f)', Waiting(record') \union Range(answered')),
         Reach(f)' \subseteq Reach(f)
  PROVE  OnceInv'
<1>1. \A g \in Flushes : g # f => InTurn(g)' = InTurn(g) /\ (g \in Turns' <=> g \in Turns)
  BY DEF InTurn, Turns
<1>2. \A g \in Flushes : g # f => Apart(InTurn(g), Reach(f))
  BY DEF OnceInv, TurnOnce, Apart, Reach
<1>3. Waiting(record') \union Range(answered') \subseteq Reach(f) /\ InTurn(f)' \subseteq Reach(f)
  BY DEF Reach
<1>4. ASSUME NEW g \in Flushes PROVE TurnOnce(g)'
  <2>1. CASE g = f
    <3>1. \A h \in Flushes : h # f => Apart(InTurn(f)', InTurn(h)')
      BY <1>1, <1>2, <1>3 DEF Apart
    <3> QED
      BY <2>1, <3>1 DEF TurnOnce
  <2>2. CASE g # f
    <3>1. TurnOnce(g)
      BY DEF OnceInv
    <3>2. g \in Turns' => Distinct(flush'[g].batch)
      BY <1>1, <2>2, <3>1 DEF TurnOnce
    <3>3. Apart(InTurn(g)', Waiting(record') \union Range(answered'))
      BY <1>1, <1>2, <1>3, <2>2 DEF Apart
    <3>4. \A h \in Flushes : h # g => Apart(InTurn(g)', InTurn(h)')
      BY <1>1, <1>2, <1>3, <2>2, <3>1 DEF TurnOnce, Apart
    <3> QED
      BY <3>2, <3>3, <3>4 DEF TurnOnce
  <2> QED
    BY <2>1, <2>2
<1>5. Reach(f) \subseteq Range(accepted)
  BY DEF OnceInv, AllClaimed, Reach
<1>6. AllClaimed'
  BY <1>1, <1>3, <1>5 DEF OnceInv, AllClaimed
<1> QED
  BY <1>4, <1>6 DEF OnceInv

-----------------------------------------------------------------------------
(* Handlers *)

LEMMA InboundOnce ==
  ASSUME OnceInv, TypeInv', Inbound
  PROVE  OnceInv'
<1> DEFINE m == Head(chain).message
<1>1. record \in Records /\ InputOnce(record)
  BY DEF OnceInv, TypeInv, TypeOK
<1>2. record.inboundBuffer \in Seq(Messages) /\ record.lateArrivals \in Seq(Messages)
  BY <1>1 DEF Records
<1>3. Waiting(record) \subseteq Range(accepted)
  BY DEF OnceInv, AllClaimed
<1>4. CASE DropInbound
  BY <1>1, <1>4, OnceKept DEF DropInbound
<1>5. ASSUME AcceptInbound
      PROVE  m \in Messages /\ m \notin Range(accepted) /\ accepted' = Append(accepted, m)
  BY <1>5, Zenon DEF AcceptInbound, Claimed
<1>6. CASE BufferInbound
  <2>1. AcceptInbound
    BY <1>6 DEF BufferInbound
  <2>2. /\ record'.inboundBuffer = Append(record.inboundBuffer, m)
        /\ record'.lateArrivals = record.lateArrivals
    BY <1>1, <1>6, Zenon DEF BufferInbound, Records
  <2>3. m \in Messages /\ m \notin Waiting(record)
    BY <1>3, <1>5, <2>1
  <2> HIDE DEF m
  <2>4. Range(record'.inboundBuffer) = Range(record.inboundBuffer) \union {m}
    BY <1>2, <2>2, <2>3, AppendRange
  <2>5. InputOnce(record') /\ Waiting(record') = Waiting(record) \union {m}
    BY <1>1, <1>2, <2>2, <2>3, <2>4, AppendDistinct DEF InputOnce, Waiting, Apart
  <2> QED
    BY <1>5, <1>6, <2>1, <2>5, AcceptOnce DEF BufferInbound
<1>7. CASE StashLateArrival
  <2>1. AcceptInbound
    BY <1>7 DEF StashLateArrival
  <2>2. /\ record'.inboundBuffer = record.inboundBuffer
        /\ record'.lateArrivals = Append(record.lateArrivals, m)
    BY <1>1, <1>7, Zenon DEF StashLateArrival, Records
  <2>3. m \in Messages /\ m \notin Waiting(record)
    BY <1>3, <1>5, <2>1
  <2>4. \A f \in Flushes : flush[f] \in FlushRecords
    BY DEF OnceInv, TypeInv, TypeOK
  <2>5. \A x \in FlushRecords : /\ [x EXCEPT !.aborted = TRUE].stage = x.stage
                                /\ [x EXCEPT !.aborted = TRUE].batch = x.batch
    BY Zenon DEF FlushRecords
  <2>6. \A f \in Flushes : flush'[f] \in {flush[f], [flush[f] EXCEPT !.aborted = TRUE]}
    BY <1>7 DEF StashLateArrival
  <2>7. \A f \in Flushes : /\ flush'[f].stage = flush[f].stage
                           /\ flush'[f].batch = flush[f].batch
    BY <2>4, <2>5, <2>6
  <2> HIDE DEF m
  <2>8. Range(record'.lateArrivals) = Range(record.lateArrivals) \union {m}
    BY <1>2, <2>2, <2>3, AppendRange
  <2>9. InputOnce(record') /\ Waiting(record') = Waiting(record) \union {m}
    BY <1>1, <1>2, <2>2, <2>3, <2>8, AppendDistinct DEF InputOnce, Waiting, Apart
  <2> QED
    BY <1>5, <1>7, <2>1, <2>7, <2>9, AcceptOnce DEF StashLateArrival
<1>8. CASE InterruptSending
  <2> DEFINE whole == record.inboundBuffer \o record.lateArrivals
  <2>1. AcceptInbound
    BY <1>8 DEF InterruptSending
  <2>2. record'.inboundBuffer = Append(whole, m) /\ record'.lateArrivals = <<>>
    BY <1>1, <1>8, Zenon DEF InterruptSending, InterruptedRecord, Records
  <2>3. m \in Messages /\ m \notin Waiting(record)
    BY <1>3, <1>5, <2>1
  <2>4. whole \in Seq(Messages) /\ Distinct(whole) /\ Range(whole) = Waiting(record)
    BY <1>1, <1>2, FoldedOnce, RangeConcatenation DEF Waiting
  <2> HIDE DEF m, whole
  <2>5. Range(record'.inboundBuffer) = Waiting(record) \union {m}
    BY <2>2, <2>3, <2>4, AppendRange
  <2>6. Distinct(record'.inboundBuffer)
    BY <2>2, <2>3, <2>4, AppendDistinct
  <2>7. InputOnce(record') /\ Waiting(record') = Waiting(record) \union {m}
    BY <2>2, <2>5, <2>6, EmptyDistinct, EmptyRange DEF InputOnce, Apart, Waiting
  <2> QED
    BY <1>5, <1>8, <2>1, <2>7, AcceptOnce DEF InterruptSending
<1> QED
  BY <1>4, <1>6, <1>7, <1>8 DEF Inbound

\* A segment that settles the turn of f, takes it back into the buffer, or takes
\* the buffer as its batch, moves each message and copies none.
LEMMA SegmentOnce ==
  ASSUME OnceInv, TypeInv', NEW f \in Flushes, Segment(f)
  PROVE  OnceInv'
<1>1. record \in Records /\ InputOnce(record) /\ TypeInv
  BY DEF OnceInv, TypeInv, TypeOK
<1>2. /\ record.inboundBuffer \in Seq(Messages) /\ record.lateArrivals \in Seq(Messages)
      /\ flush[f].batch \in Seq(Messages) /\ answered \in Seq(Messages)
  BY <1>1 DEF Records, FlushRecords, TypeInv, TypeOK
<1>3. TurnOnce(f) /\ Distinct(answered) /\ Apart(Waiting(record), Range(answered))
  BY DEF OnceInv
<1>4. ASSUME NEW x, flush' = [flush EXCEPT ![f] = x], UNCHANGED accepted,
             x.stage \in {"chat", "decide", "rescue"} => Distinct(x.batch),
             InputOnce(record'), Distinct(answered'),
             Apart(Waiting(record'), Range(answered')),
             Apart(InTurn(f)', Waiting(record') \union Range(answered')),
             Reach(f)' \subseteq Reach(f)
      PROVE  OnceInv'
  <2>1. flush'[f] = x /\ \A g \in Flushes : g # f => flush'[g] = flush[g]
    BY <1>1, <1>4, FlushAt
  <2>2. f \in Turns' => Distinct(flush'[f].batch)
    BY <1>4, <2>1 DEF Turns
  <2> QED
    BY <1>4, <2>1, <2>2, TurnStepOnce
<1>5. /\ FreeFlush.stage = "free" /\ [FreeFlush EXCEPT !.stage = "drive"].stage = "drive"
      /\ [FreeFlush EXCEPT !.stage = "drop"].stage = "drop"
  BY DEF FreeFlush
\* Whatever ends here, no turn of f is left.
<1>6. ASSUME NEW x, flush' = [flush EXCEPT ![f] = x], x.stage \in {"free", "drive", "drop"}
      PROVE  InTurn(f)' = {}
  <2>1. flush'[f] = x
    BY <1>1, <1>6, FlushAt
  <2> QED
    BY <1>6, <2>1 DEF InTurn, Turns
\* The turn is settled: its batch joins what was answered.
<1>7. ASSUME flush[f].stage \in {"decide", "rescue"}
      PROVE  /\ f \in Turns /\ InTurn(f) = Range(flush[f].batch) /\ Distinct(flush[f].batch)
             /\ Apart(InTurn(f), Waiting(record)) /\ Apart(InTurn(f), Range(answered))
  BY <1>3, <1>7, Zenon DEF TurnOnce, InTurn, Turns, Apart
<1>8. ASSUME flush[f].stage \in {"decide", "rescue"},
             NEW x, flush' = [flush EXCEPT ![f] = x], x.stage \in {"free", "drive"},
             answered' = answered \o flush[f].batch, UNCHANGED accepted,
             InputOnce(record'), Waiting(record') = Waiting(record)
      PROVE  OnceInv'
  <2>1. InTurn(f)' = {}
    BY <1>6, <1>8
  <2>2. Range(answered') = Range(answered) \union InTurn(f)
    BY <1>2, <1>7, <1>8, RangeConcatenation
  <2>3. Distinct(answered')
    <3>1. Apart(Range(answered), Range(flush[f].batch))
      BY <1>7, <1>8 DEF Apart
    <3> QED
      BY <1>2, <1>3, <1>7, <1>8, <3>1, ConcatDistinct
  <2>4. Apart(Waiting(record'), Range(answered'))
    BY <1>3, <1>7, <1>8, <2>2 DEF Apart
  <2>5. Apart(InTurn(f)', Waiting(record') \union Range(answered'))
    BY <2>1 DEF Apart
  <2>6. Reach(f)' \subseteq Reach(f)
    BY <1>8, <2>1, <2>2 DEF Reach
  <2> QED
    BY <1>4, <1>8, <2>3, <2>4, <2>5, <2>6
<1>9. CASE PrepareNothing(f) \/ DriveDelivery(f)
  <2>1. /\ flush' = [flush EXCEPT ![f] = FreeFlush]
        /\ UNCHANGED <<record, accepted, answered>>
    BY <1>9 DEF PrepareNothing, DriveDelivery
  <2>2. InTurn(f)' = {}
    BY <1>5, <1>6, <2>1
  <2>3. Reach(f)' \subseteq Reach(f)
    BY <2>1, <2>2 DEF Reach
  <2> QED
    BY <1>1, <1>3, <1>4, <1>5, <2>1, <2>2, <2>3 DEF Apart
<1>10. CASE PrepareNoAdapter(f) \/ ForceIdle(f)
  <2>1. /\ record'.inboundBuffer = record.inboundBuffer
        /\ record'.lateArrivals = record.lateArrivals
    BY <1>1, <1>10, Zenon DEF PrepareNoAdapter, ForceIdle, Records
  <2>2. /\ flush' = [flush EXCEPT ![f] = FreeFlush]
        /\ UNCHANGED <<accepted, answered>>
    BY <1>10 DEF PrepareNoAdapter, ForceIdle
  <2>3. InTurn(f)' = {} /\ Waiting(record') = Waiting(record) /\ InputOnce(record')
    BY <1>1, <1>5, <1>6, <2>1, <2>2 DEF Waiting, InputOnce
  <2>4. Reach(f)' \subseteq Reach(f)
    BY <2>2, <2>3 DEF Reach
  <2> QED
    BY <1>3, <1>4, <1>5, <2>2, <2>3, <2>4 DEF Apart
<1>11. CASE PrepareBatch(f)
  <2> DEFINE taken == [FreeFlush EXCEPT !.stage = "chat", !.batch = record.inboundBuffer]
  <2>1. record'.inboundBuffer = <<>> /\ record'.lateArrivals = <<>>
    BY <1>1, <1>11, Zenon DEF PrepareBatch, Records
  <2>2. taken.stage = "chat" /\ taken.batch = record.inboundBuffer
    BY DEF FreeFlush
  <2>3. flush' = [flush EXCEPT ![f] = taken] /\ UNCHANGED <<accepted, answered>>
    BY <1>11, Zenon DEF PrepareBatch
  <2> HIDE DEF taken
  <2>4. flush'[f] = taken
    BY <1>1, <2>3, FlushAt
  <2>5. InTurn(f)' = Range(record.inboundBuffer)
    BY <2>2, <2>4, Zenon DEF InTurn, Turns
  <2>6. Waiting(record') = {} /\ InputOnce(record')
    BY <2>1, EmptyDistinct, EmptyRange DEF Waiting, InputOnce, Apart
  <2>7. Apart(InTurn(f)', Waiting(record') \union Range(answered'))
    BY <1>3, <2>3, <2>5, <2>6 DEF Apart, Waiting
  <2>8. Reach(f)' \subseteq Reach(f)
    BY <2>3, <2>5, <2>6 DEF Reach, Waiting
  <2>9. Distinct(taken.batch)
    BY <1>1, <2>2 DEF InputOnce
  <2>10. Apart(Waiting(record'), Range(answered'))
    BY <2>6 DEF Apart
  <2> QED
    BY <1>3, <1>4, <2>3, <2>6, <2>7, <2>8, <2>9, <2>10
<1>12. CASE RescueLateArrivals(f)
  <2>1. /\ record'.inboundBuffer = record.inboundBuffer \o record.lateArrivals
        /\ record'.lateArrivals = <<>>
    BY <1>1, <1>12, Zenon DEF RescueLateArrivals, Records
  <2>2. InputOnce(record')
    BY <1>1, <2>1, FoldedOnce, EmptyDistinct, EmptyRange DEF InputOnce, Apart
  <2>3. Waiting(record') = Waiting(record)
    BY <1>2, <2>1, RangeConcatenation, EmptyRange DEF Waiting
  <2> QED
    BY <1>5, <1>8, <1>12, <2>2, <2>3 DEF RescueLateArrivals, HoldsSegment
<1>13. CASE EndFailedTurn(f)
  <2>1. /\ record'.inboundBuffer = record.inboundBuffer
        /\ record'.lateArrivals = record.lateArrivals
    BY <1>1, <1>13, Zenon DEF EndFailedTurn, Records
  <2>2. InputOnce(record') /\ Waiting(record') = Waiting(record)
    BY <1>1, <2>1 DEF InputOnce, Waiting
  <2> QED
    BY <1>5, <1>8, <1>13, <2>2 DEF EndFailedTurn, HoldsSegment
<1>14. CASE Rebatch(f)
  <2>1. /\ record'.inboundBuffer = RebatchedInput(f)
        /\ record'.lateArrivals = <<>>
    BY <1>1, <1>14, Zenon DEF Rebatch, Records
  <2>2. /\ flush' = [flush EXCEPT ![f] = FreeFlush] /\ UNCHANGED <<accepted, answered>>
        /\ flush[f].stage \in {"decide", "rescue"}
    BY <1>14 DEF Rebatch, HoldsSegment
  <2> DEFINE first == flush[f].batch \o record.inboundBuffer
  <2>3. /\ first \in Seq(Messages)
        /\ Range(first) = InTurn(f) \union Range(record.inboundBuffer)
    BY <1>2, <1>7, <2>2, RangeConcatenation
  <2>4. Distinct(first)
    <3>1. Apart(Range(flush[f].batch), Range(record.inboundBuffer))
      BY <1>7, <2>2 DEF Apart, Waiting
    <3> QED
      BY <1>1, <1>2, <1>7, <2>2, <3>1, ConcatDistinct DEF InputOnce
  <2>5. RebatchedInput(f) = first \o record.lateArrivals
    BY DEF RebatchedInput
  <2> HIDE DEF first
  <2>6. Apart(Range(first), Range(record.lateArrivals))
    BY <1>1, <1>7, <2>2, <2>3 DEF Apart, Waiting, InputOnce
  <2>7. Distinct(RebatchedInput(f))
    BY <1>1, <1>2, <2>3, <2>4, <2>5, <2>6, ConcatDistinct DEF InputOnce
  <2>8. Range(RebatchedInput(f)) = InTurn(f) \union Waiting(record)
    <3>1. Range(first \o record.lateArrivals) = Range(first) \union Range(record.lateArrivals)
      BY <1>2, <2>3, RangeConcatenation
    <3> QED
      BY <2>3, <2>5, <3>1 DEF Waiting
  <2>9. InputOnce(record') /\ Waiting(record') = InTurn(f) \union Waiting(record)
    BY <2>1, <2>7, <2>8, EmptyDistinct, EmptyRange DEF InputOnce, Waiting, Apart
  <2>10. InTurn(f)' = {}
    BY <1>5, <1>6, <2>2
  <2>11. Apart(Waiting(record'), Range(answered'))
    BY <1>3, <1>7, <2>2, <2>9 DEF Apart
  <2>12. Reach(f)' \subseteq Reach(f)
    BY <2>2, <2>9, <2>10 DEF Reach
  <2>13. Apart(InTurn(f)', Waiting(record') \union Range(answered'))
    BY <2>10 DEF Apart
  <2> QED
    BY <1>3, <1>4, <1>5, <2>2, <2>9, <2>11, <2>12, <2>13
<1>15. CASE EndSilentTurn(f)
  <2>1. InputOnce(record') /\ Waiting(record') = Waiting(record)
    BY <1>1, <1>15, FinalizedWaits, FinalizedOnce DEF EndSilentTurn, FinalizeTurn
  <2> QED
    BY <1>5, <1>8, <1>15, <2>1 DEF EndSilentTurn, HoldsSegment
<1>16. CASE AttachQueue(f)
  <2>1. /\ record'.inboundBuffer = record.inboundBuffer
        /\ record'.lateArrivals = record.lateArrivals
    BY <1>1, <1>16, Zenon DEF AttachQueue, Records
  <2>2. InputOnce(record') /\ Waiting(record') = Waiting(record)
    BY <1>1, <2>1 DEF InputOnce, Waiting
  <2> DEFINE driving == [FreeFlush EXCEPT !.stage = "drive"]
  <2>3. flush' = [flush EXCEPT ![f] = driving] /\ driving.stage = "drive"
    BY <1>5, <1>16 DEF AttachQueue
  <2> HIDE DEF driving
  <2> QED
    BY <1>8, <1>16, <2>2, <2>3 DEF AttachQueue, HoldsSegment
\* At the cap the batch is dropped: it is nowhere from then on.
<1>17. CASE FallThroughAtCap(f)
  <2> DEFINE dropping == [FreeFlush EXCEPT !.stage = "drop"]
  <2>1. /\ flush' = [flush EXCEPT ![f] = dropping] /\ dropping.stage = "drop"
        /\ UNCHANGED <<record, accepted, answered>>
    BY <1>5, <1>17 DEF FallThroughAtCap
  <2> HIDE DEF dropping
  <2>2. InTurn(f)' = {}
    BY <1>6, <2>1
  <2>3. Reach(f)' \subseteq Reach(f)
    BY <2>1, <2>2 DEF Reach
  <2>4. Apart(InTurn(f)', Waiting(record') \union Range(answered'))
    BY <2>2 DEF Apart
  <2> QED
    BY <1>1, <1>3, <1>4, <2>1, <2>3, <2>4
<1> QED
  BY <1>9, <1>10, <1>11, <1>12, <1>13, <1>14, <1>15, <1>16, <1>17 DEF Segment, EndAtPrepare

\* A flush whose batch stays as it is, in a turn or in none.
LEMMA StageOnce ==
  ASSUME OnceInv, TypeInv', NEW f \in Flushes, InTurn(f)' = InTurn(f),
         f \in Turns' => f \in Turns /\ flush'[f].batch = flush[f].batch,
         \A g \in Flushes : g # f => flush'[g] = flush[g],
         UNCHANGED <<record, accepted, answered>>
  PROVE  OnceInv'
<1>1. InputOnce(record') /\ Distinct(answered') /\ Apart(Waiting(record'), Range(answered'))
  BY DEF OnceInv
<1>2. TurnOnce(f)
  BY DEF OnceInv
<1>3. f \in Turns' => Distinct(flush'[f].batch)
  BY <1>2 DEF TurnOnce
<1>4. Apart(InTurn(f)', Waiting(record') \union Range(answered'))
  BY <1>2 DEF TurnOnce
<1>5. Reach(f)' \subseteq Reach(f)
  BY DEF Reach
<1> QED
  BY <1>1, <1>3, <1>4, <1>5, TurnStepOnce

LEMMA ChatStepOnce ==
  ASSUME OnceInv, TypeInv', NEW f \in Flushes, ChatStep(f)
  PROVE  OnceInv'
<1>1. TypeInv /\ flush[f] \in FlushRecords
  BY DEF OnceInv, TypeInv, TypeOK
<1>2. ASSUME NEW settled, settled.stage \in {"decide", "rescue"},
             settled.batch = flush[f].batch, ChatSettles(f, settled)
      PROVE  OnceInv'
  <2>1. flush'[f] = settled /\ \A g \in Flushes : g # f => flush'[g] = flush[g]
    BY <1>1, <1>2, FlushAt DEF ChatSettles
  <2>2. f \in Turns /\ f \in Turns'
    BY <1>2, <2>1, Zenon DEF Turns, ChatSettles
  <2>3. InTurn(f)' = InTurn(f)
    BY <1>2, <2>1, <2>2 DEF InTurn
  <2> QED
    BY <1>2, <2>1, <2>2, <2>3, StageOnce DEF ChatSettles
<1>3. CASE ChatRejects(f)
  <2> DEFINE s == IF flush[f].aborted THEN "decide" ELSE "rescue"
             settled == [flush[f] EXCEPT !.stage = s]
  <2>1. settled.stage = s /\ settled.batch = flush[f].batch
    BY <1>1, Zenon DEF FlushRecords
  <2>2. ChatSettles(f, settled)
    BY <1>3, Zenon DEF ChatRejects
  <2>3. settled.stage \in {"decide", "rescue"}
    BY <2>1
  <2> HIDE DEF settled
  <2> QED
    BY <1>2, <2>1, <2>2, <2>3
<1>4. ASSUME NEW reply \in Replies, ChatReplies(f, reply)
      PROVE  OnceInv'
  <2> DEFINE settled ==
        [flush[f] EXCEPT !.stage = "decide", !.aborted = FALSE, !.reply = reply]
  <2>1. settled.stage = "decide" /\ settled.batch = flush[f].batch
    BY <1>1, Zenon DEF FlushRecords
  <2>2. ChatSettles(f, settled)
    BY <1>4, Zenon DEF ChatReplies
  <2> HIDE DEF settled
  <2> QED
    BY <1>2, <2>1, <2>2
<1> QED
  BY <1>3, <1>4 DEF ChatStep

LEMMA TimerFiresOnce ==
  ASSUME OnceInv, TypeInv', TimerFires
  PROVE  OnceInv'
<1>1. TypeInv /\ InputOnce(record)
  BY DEF OnceInv, TypeInv
<1>2. ASSUME NEW f \in Flushes, BufferTimerFires(f)
      PROVE  OnceInv'
  <2>1. flush' = [flush EXCEPT ![f] = [flush[f] EXCEPT !.stage = "prepare"]]
    BY <1>2, Zenon DEF BufferTimerFires
  <2>2. [flush[f] EXCEPT !.stage = "prepare"].stage = "prepare"
    BY <1>1, Zenon DEF TypeInv, TypeOK, FlushRecords
  <2>3. flush'[f].stage = "prepare" /\ \A g \in Flushes : g # f => flush'[g] = flush[g]
    BY <1>1, <2>1, <2>2, FlushAt
  <2>4. InTurn(f) = {}
    BY <1>2, NoTurn DEF BufferTimerFires
  <2>5. f \notin Turns' /\ InTurn(f)' = {}
    BY <2>3 DEF Turns, InTurn
  <2> QED
    BY <1>2, <2>3, <2>4, <2>5, StageOnce DEF BufferTimerFires
<1>3. ASSUME NEW i \in deliveryTimeouts, DeliveryTimerFires(i)
      PROVE  OnceInv'
  BY <1>1, <1>3, OnceKept DEF DeliveryTimerFires
<1>4. ASSUME NEW t \in transientRetryTimers, RetryTimerFires(t)
      PROVE  OnceInv'
  BY <1>1, <1>4, OnceKept DEF RetryTimerFires
<1> QED
  BY <1>2, <1>3, <1>4 DEF TimerFires

-----------------------------------------------------------------------------
(* The theorem *)

LEMMA OnceInvInit == Init => OnceInv
<1> SUFFICES ASSUME Init PROVE OnceInv
  OBVIOUS
<1>1. TypeInv
  BY InitType
<1>2. record.inboundBuffer = <<>> /\ record.lateArrivals = <<>> /\ answered = <<>>
  BY Zenon DEF Init
<1>3. \A f \in Flushes : flush[f].stage = "free"
  BY DEF Init, FreeFlush
<1>4. \A f \in Flushes : f \notin Turns /\ InTurn(f) = {}
  BY <1>3, NoTurn DEF Turns
<1>5. InputOnce(record) /\ Waiting(record) = {} /\ Range(answered) = {}
  BY <1>2, EmptyDistinct, EmptyRange DEF InputOnce, Waiting, Apart
<1> QED
  BY <1>1, <1>2, <1>4, <1>5, EmptyDistinct DEF OnceInv, TurnOnce, AllClaimed, Apart

LEMMA OnceInvStep == OnceInv /\ [Next]_vars => OnceInv'
<1> SUFFICES ASSUME OnceInv, [Next]_vars PROVE OnceInv'
  OBVIOUS
<1>1. TypeInv' /\ TypeInv /\ InputOnce(record)
  BY StepType DEF OnceInv
<1>2. CASE Webhook \/ UNCHANGED vars
  <2>1. UNCHANGED <<record, accepted, flush, answered>>
    BY <1>2 DEF Webhook, ReceiveInbound, ReceiveStatus, vars
  <2> QED
    BY <1>1, <2>1, OnceKept
<1> QED
  BY <1>1, <1>2, TimerFiresOnce, ChatStepOnce, InboundOnce, SegmentOnce, SendStepDelivers,
     StatusDelivers, TimerDelivers, DeliveryOnce DEF Next, LockStep

\* How often a message can be in a sequence without repetitions.
LEMMA OccursOnce ==
  ASSUME NEW S, NEW s \in Seq(S), Distinct(s), NEW m
  PROVE  Occurrences(m, s) = IF m \in Range(s) THEN 1 ELSE 0
<1> DEFINE at == {i \in DOMAIN s : s[i] = m}
<1>1. Range(s) = {s[i] : i \in DOMAIN s}
  BY DEF Range
<1>2. CASE m \in Range(s)
  <2>1. PICK i \in DOMAIN s : s[i] = m
    BY <1>1, <1>2
  <2>2. at = {i}
    BY <2>1 DEF Distinct
  <2> QED
    BY <1>2, <2>2, FS_Singleton DEF Occurrences
<1>3. CASE m \notin Range(s)
  <2>1. at = {}
    BY <1>1, <1>3
  <2> QED
    BY <1>3, <2>1, FS_EmptySet DEF Occurrences
<1> QED
  BY <1>2, <1>3

\* The counts of the property, from the sets being apart.
LEMMA OnceIsHandledOnce == OnceInv => HandledOnce
<1> SUFFICES ASSUME OnceInv, NEW m \in Messages
             PROVE  Occurrences(m, record.inboundBuffer) + Occurrences(m, record.lateArrivals)
                      + Occurrences(m, answered)
                      + Cardinality({f \in Turns : m \in Range(flush[f].batch)}) <= 1
  BY DEF HandledOnce
<1> DEFINE turns == {f \in Turns : m \in Range(flush[f].batch)}
           One(S) == IF m \in S THEN 1 ELSE 0
<1>1. /\ record.inboundBuffer \in Seq(Messages) /\ record.lateArrivals \in Seq(Messages)
      /\ answered \in Seq(Messages)
  BY DEF OnceInv, TypeInv, TypeOK, Records
<1>2. /\ Occurrences(m, record.inboundBuffer) = One(Range(record.inboundBuffer))
      /\ Occurrences(m, record.lateArrivals) = One(Range(record.lateArrivals))
      /\ Occurrences(m, answered) = One(Range(answered))
  BY <1>1, OccursOnce DEF OnceInv, InputOnce
<1>3. /\ Apart(Range(record.inboundBuffer), Range(record.lateArrivals))
      /\ Apart(Range(record.inboundBuffer) \union Range(record.lateArrivals), Range(answered))
  BY DEF OnceInv, InputOnce, Waiting
<1>4. CASE turns = {}
  <2>1. Cardinality(turns) = 0
    BY <1>4, FS_EmptySet
  <2> HIDE DEF turns
  <2> QED
    BY <1>2, <1>3, <2>1 DEF Apart, turns
<1>5. CASE turns # {}
  <2>1. PICK f \in turns : TRUE
    BY <1>5
  <2>2. f \in Flushes /\ m \in InTurn(f)
    BY <2>1 DEF Turns, InTurn
  <2>3. TurnOnce(f)
    BY <2>2 DEF OnceInv
  <2>4. ASSUME NEW g \in turns PROVE g = f
    <3>1. g \in Flushes /\ m \in InTurn(g)
      BY DEF Turns, InTurn
    <3> QED
      BY <2>2, <2>3, <3>1 DEF TurnOnce, Apart
  <2>5. turns = {f}
    BY <2>1, <2>4
  <2>6. Cardinality(turns) = 1
    BY <2>5, FS_Singleton
  <2>7. /\ m \notin Range(record.inboundBuffer) /\ m \notin Range(record.lateArrivals)
        /\ m \notin Range(answered)
    BY <2>2, <2>3 DEF TurnOnce, Apart, Waiting
  <2> HIDE DEF turns
  <2> QED
    BY <1>2, <2>6, <2>7 DEF turns
<1> QED
  BY <1>4, <1>5

\* A message is in one place at a time and in one turn only: redelivered webhooks,
\* rebatches, interrupts and failed calls of handleInbound and flushImpl put no
\* second copy of it in front of the chat endpoint.
THEOREM InboundHandledOnce == Spec => []HandledOnce
BY OnceInvInit, OnceInvStep, OnceIsHandledOnce, PTL DEF Spec
=============================================================================
