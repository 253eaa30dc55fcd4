----------------------------- MODULE RuntimeProofs -----------------------------
(***************************************************************************)
(* Proofs about what runs beside the turns: the statuses of messages, for  *)
(* any messages, failure categories and course of time; the flush          *)
(* schedulers, for any keys, worker slots and calls; and the recovery of a *)
(* conversation, for any replicas, messages, delays, crashes and boots.    *)
(***************************************************************************)
EXTENDS MCRuntime, FiniteSetTheorems, TLAPS

-----------------------------------------------------------------------------
(* The statuses *)

Updates == [status: DeliveryStatuses, time: Times, category: Categories \union {None}]

\* A failure has a category, and nothing else has one.
NamesItsFailure(u) == u.status = "failed" <=> u.category # None

TypeOK ==
  /\ channel \in Channels
  /\ clock \in Times
  /\ sending \in Messages \union {None}
  /\ queue \subseteq Messages
  /\ sentAt \in [Messages -> Times \union {-1}]
  /\ webhooks \subseteq Reported \union Watermarks
  /\ records \in [Messages -> Records]
  /\ arrived \in [Messages -> SUBSET Updates]

\* Only what was sent is reported, noted or marked.
OnlySentIsReported ==
  /\ sending # None => sentAt[sending] # -1
  /\ \A m \in queue : sentAt[m] # -1
  /\ \A w \in webhooks : w \in Reported =>
       /\ sentAt[w.message] # -1
       /\ NamesItsFailure(w)
       /\ channel # "whatsapp" => w.status = "delivered"

\* A record is what a set of updates makes of it.
Matches(r, updates) ==
  /\ r.history = {<<u.status, u.time>> : u \in updates}
  /\ IsFiniteSet(r.history) /\ r.length = Cardinality(r.history)
  /\ \A u \in updates :
       /\ StatusRank(u.status) <= StatusRank(r.current)
       /\ r.firstSeenAt <= u.time /\ u.time <= r.lastUpdatedAt

MessageInv(m) ==
  /\ \A u \in arrived[m] : NamesItsFailure(u)
  /\ sentAt[m] = -1 \/ ~Tracked(m) => arrived[m] = {}
  /\ Tracked(m) =>
       /\ Matches(records[m], arrived[m])
       /\ records[m].current \in {u.status : u \in arrived[m]}
       /\ records[m].category # None <=> records[m].current = "failed"
  /\ channel # "whatsapp" => \A u \in arrived[m] : u.status = "read" => sentAt[m] <= u.time

StatusInv == TypeOK /\ OnlySentIsReported /\ \A m \in Messages : MessageInv(m)

\* The current status only moves up the ranks, and a failure stays one.
LEMMA MostAdvancedIsHigher ==
  ASSUME NEW s \in DeliveryStatuses, NEW t \in DeliveryStatuses
  PROVE  /\ MostAdvanced(s, t) \in {s, t}
         /\ StatusRank(s) \in Nat /\ StatusRank(t) \in Nat
         /\ StatusRank(MostAdvanced(s, t)) >= StatusRank(s)
         /\ StatusRank(MostAdvanced(s, t)) >= StatusRank(t)
         /\ MostAdvanced(s, t) = "failed" <=> s = "failed" \/ t = "failed"
<1>1. StatusRank(s) \in 0 .. 3 /\ StatusRank(t) \in 0 .. 3
      /\ (StatusRank(s) = 3 <=> s = "failed") /\ (StatusRank(t) = 3 <=> t = "failed")
  BY DEF DeliveryStatuses, StatusRank
<1> QED
  BY <1>1 DEF MostAdvanced

LEMMA AppendedKeeps ==
  ASSUME NEW r \in Records, NEW u \in Updates
  PROVE  /\ Appended(r, u) \in Records
         /\ Appended(r, u).tracked = r.tracked
         /\ Appended(r, u).current = r.current
         /\ Appended(r, u).category = r.category
         /\ Appended(r, u).firstSeenAt = r.firstSeenAt
         /\ Appended(r, u).lastUpdatedAt = r.lastUpdatedAt
         /\ Appended(r, u).history = r.history \union {<<u.status, u.time>>}
         /\ IsFiniteSet(r.history) /\ r.length = Cardinality(r.history) =>
              /\ IsFiniteSet(Appended(r, u).history)
              /\ Appended(r, u).length = Cardinality(Appended(r, u).history)
<1> DEFINE e == <<u.status, u.time>>
<1>1. r.history \union {e} \in SUBSET (DeliveryStatuses \X Times)
  BY DEF Records, Updates
<1>2. r.length + 1 \in Nat
  BY DEF Records
<1>3. CASE e \in r.history
  BY <1>3 DEF Appended
<1>4. CASE e \notin r.history
  <2>1. Appended(r, u) = [r EXCEPT !.history = r.history \union {e}, !.length = r.length + 1]
    BY <1>4 DEF Appended
  <2>2. /\ Appended(r, u).history = r.history \union {e} /\ Appended(r, u).length = r.length + 1
        /\ Appended(r, u).tracked = r.tracked
        /\ Appended(r, u).current = r.current
        /\ Appended(r, u).category = r.category
        /\ Appended(r, u).firstSeenAt = r.firstSeenAt
        /\ Appended(r, u).lastUpdatedAt = r.lastUpdatedAt
    BY <2>1 DEF Records
  <2>3. Appended(r, u) \in Records
    BY <1>1, <1>2, <2>1 DEF Records
  <2>4. IsFiniteSet(r.history) =>
          /\ IsFiniteSet(r.history \union {e})
          /\ Cardinality(r.history \union {e}) = Cardinality(r.history) + 1
    BY <1>4, FS_AddElement
  <2> HIDE DEF e
  <2> QED
    BY <2>2, <2>3, <2>4 DEF e
<1> QED
  BY <1>3, <1>4

\* What one update does to one record.
LEMMA UpdatedFields ==
  ASSUME NEW r \in Records, NEW u \in Updates
  PROVE  /\ Updated(r, u) \in Records
         /\ Updated(r, u).tracked = r.tracked
         /\ Updated(r, u).history = Appended(r, u).history
         /\ Updated(r, u).length = Appended(r, u).length
         /\ Updated(r, u).current = MostAdvanced(r.current, u.status)
         /\ Updated(r, u).category = IF u.status = "failed" THEN u.category ELSE r.category
         /\ Updated(r, u).firstSeenAt = Earlier(r.firstSeenAt, u.time)
         /\ Updated(r, u).lastUpdatedAt = Later(r.lastUpdatedAt, u.time)
<1> DEFINE a == Appended(r, u)
<1>1. /\ a \in Records /\ a.tracked = r.tracked /\ a.current = r.current /\ a.category = r.category
      /\ a.firstSeenAt = r.firstSeenAt /\ a.lastUpdatedAt = r.lastUpdatedAt
  BY AppendedKeeps
<1>2. r.current \in DeliveryStatuses /\ u.status \in DeliveryStatuses
  BY DEF Records, Updates
<1>3. MostAdvanced(r.current, u.status) \in DeliveryStatuses
  BY <1>2, MostAdvancedIsHigher
<1>4. Earlier(r.firstSeenAt, u.time) \in Times /\ Later(r.lastUpdatedAt, u.time) \in Times
  BY DEF Records, Updates, Earlier, Later
<1>5. (IF u.status = "failed" THEN u.category ELSE r.category) \in Categories \union {None}
  BY DEF Records, Updates
<1> HIDE DEF a
<1>6. Updated(r, u) = [a EXCEPT
        !.current = MostAdvanced(r.current, u.status),
        !.category = IF u.status = "failed" THEN u.category ELSE r.category,
        !.firstSeenAt = Earlier(r.firstSeenAt, u.time),
        !.lastUpdatedAt = Later(r.lastUpdatedAt, u.time)]
  BY <1>1 DEF Updated, a
<1>7. Updated(r, u) \in Records
  BY <1>1, <1>3, <1>4, <1>5, <1>6 DEF Records
<1>8. /\ Updated(r, u).tracked = r.tracked
      /\ Updated(r, u).history = a.history
      /\ Updated(r, u).length = a.length
      /\ Updated(r, u).current = MostAdvanced(r.current, u.status)
      /\ Updated(r, u).category = IF u.status = "failed" THEN u.category ELSE r.category
      /\ Updated(r, u).firstSeenAt = Earlier(r.firstSeenAt, u.time)
      /\ Updated(r, u).lastUpdatedAt = Later(r.lastUpdatedAt, u.time)
  BY <1>1, <1>6 DEF Records
<1> QED
  BY <1>7, <1>8 DEF a

\* One more update makes of a record what it would have made of the others.
LEMMA UpdatedMatches ==
  ASSUME NEW r \in Records, NEW updates \in SUBSET Updates, NEW u \in Updates, Matches(r, updates)
  PROVE  Matches(Updated(r, u), updates \union {u})
<1> DEFINE n == Updated(r, u)
<1>1. /\ n.history = r.history \union {<<u.status, u.time>>}
      /\ IsFiniteSet(n.history) /\ n.length = Cardinality(n.history)
  <2> DEFINE a == Appended(r, u)
  <2>1. n.history = a.history /\ n.length = a.length
    BY UpdatedFields
  <2>2. IsFiniteSet(r.history) /\ r.length = Cardinality(r.history)
    BY DEF Matches
  <2>3. /\ a.history = r.history \union {<<u.status, u.time>>}
        /\ IsFiniteSet(a.history) /\ a.length = Cardinality(a.history)
    BY <2>2, AppendedKeeps
  <2> HIDE DEF n, a
  <2> QED
    BY <2>1, <2>3
<1>2. n.history = {<<v.status, v.time>> : v \in updates \union {u}}
  BY <1>1 DEF Matches
<1>3. r.current \in DeliveryStatuses /\ u.status \in DeliveryStatuses
  BY DEF Records, Updates
<1>4. /\ n.current = MostAdvanced(r.current, u.status)
      /\ n.firstSeenAt = Earlier(r.firstSeenAt, u.time) /\ n.lastUpdatedAt = Later(r.lastUpdatedAt, u.time)
  BY UpdatedFields
<1>5. n.current \in DeliveryStatuses
      /\ StatusRank(n.current) >= StatusRank(r.current) /\ StatusRank(n.current) >= StatusRank(u.status)
  BY <1>3, <1>4, MostAdvancedIsHigher
<1>6. r.firstSeenAt \in Int /\ r.lastUpdatedAt \in Int /\ u.time \in Int
  BY DEF Records, Updates, Times
<1> HIDE DEF n
<1>7. ASSUME NEW v \in updates \union {u}
      PROVE  /\ StatusRank(v.status) <= StatusRank(n.current)
             /\ n.firstSeenAt <= v.time /\ v.time <= n.lastUpdatedAt
  <2>1. v \in Updates
    OBVIOUS
  <2>2. v.status \in DeliveryStatuses /\ v.time \in Int
    BY <2>1 DEF Updates, Times
  <2>3. StatusRank(v.status) \in Nat /\ StatusRank(n.current) \in Nat /\ StatusRank(r.current) \in Nat
    BY <1>3, <1>5, <2>2, MostAdvancedIsHigher
  <2>4. CASE v = u
    BY <2>3, <2>4, <1>4, <1>5, <1>6 DEF Earlier, Later
  <2>5. CASE v # u
    <3>1. /\ StatusRank(v.status) <= StatusRank(r.current)
          /\ r.firstSeenAt <= v.time /\ v.time <= r.lastUpdatedAt
      BY <2>5 DEF Matches
    <3> QED
      BY <3>1, <2>2, <2>3, <1>4, <1>5, <1>6 DEF Earlier, Later
  <2> QED
    BY <2>4, <2>5
<1> QED
  BY <1>1, <1>2, <1>7 DEF Matches, n

LEMMA FirstRecordType ==
  ASSUME NEW u \in Updates
  PROVE  /\ FirstRecord(u) \in Records /\ FirstRecord(u).tracked
         /\ FirstRecord(u).current = u.status /\ FirstRecord(u).category = None
         /\ Matches(FirstRecord(u), {})
<1>1. FirstRecord(u) \in Records /\ FirstRecord(u).history = {} /\ FirstRecord(u).length = 0
  BY DEF FirstRecord, Records, Updates
<1> QED
  BY <1>1, FS_EmptySet DEF FirstRecord, Matches

Advances ==
  \A m \in Messages : Tracked(m) =>
    Tracked(m)' /\ StatusRank(records'[m].current) >= StatusRank(records[m].current)

\* applyStatusUpdate neither forgets a message nor lowers its current status, and
\* leaves every record what its updates make of it.
LEMMA ApplyKeeps ==
  ASSUME StatusInv, NEW ids, NEW u \in Updates, NamesItsFailure(u), Apply(ids, u),
         UNCHANGED <<channel, sentAt>>,
         \A m \in Messages : m \in ids =>
           /\ sentAt[m] # -1
           /\ channel # "whatsapp" /\ u.status = "read" => sentAt[m] <= u.time
  PROVE  /\ records' \in [Messages -> Records] /\ arrived' \in [Messages -> SUBSET Updates]
         /\ \A m \in Messages : MessageInv(m)'
         /\ Advances
<1>1. ASSUME NEW m \in Messages
      PROVE  /\ records'[m] \in Records /\ arrived'[m] \in SUBSET Updates
             /\ MessageInv(m)'
             /\ Tracked(m) =>
                  records'[m].tracked /\ StatusRank(records'[m].current) >= StatusRank(records[m].current)
  <2>0. records[m] \in Records /\ arrived[m] \in SUBSET Updates /\ MessageInv(m)
    BY DEF StatusInv, TypeOK
  <2>1. CASE m \notin ids
    <3>1. records'[m] = records[m] /\ arrived'[m] = arrived[m]
      BY <2>1 DEF Apply
    <3>2. StatusRank(records[m].current) >= StatusRank(records[m].current)
      BY <2>0 DEF StatusRank, Records, DeliveryStatuses
    <3>3. MessageInv(m)'
      BY <2>0, <3>1 DEF MessageInv, Tracked
    <3> QED
      BY <2>0, <3>1, <3>2, <3>3 DEF Tracked
  <2>2. CASE m \in ids
    <3> DEFINE r == IF Tracked(m) THEN records[m] ELSE FirstRecord(u)
    <3>1. records'[m] = Updated(r, u) /\ arrived'[m] = arrived[m] \union {u}
      BY <2>2 DEF Apply
    <3>2. r \in Records /\ r.tracked /\ Matches(r, arrived[m])
      BY <2>0, FirstRecordType DEF MessageInv, Tracked
    <3>3. /\ r.current = u.status \/ r.current \in {v.status : v \in arrived[m]}
          /\ r.category # None => r.current = "failed"
          /\ r.current = "failed" /\ u.status # "failed" => r.category # None
      BY <2>0, FirstRecordType DEF MessageInv
    <3>4. Tracked(m) => r = records[m]
      OBVIOUS
    <3> HIDE DEF r
    <3>5. Updated(r, u) \in Records /\ Updated(r, u).tracked /\ Matches(Updated(r, u), arrived[m] \union {u})
      BY <2>0, <3>2, UpdatedFields, UpdatedMatches
    <3>6. r.current \in DeliveryStatuses /\ u.status \in DeliveryStatuses
      BY <3>2 DEF Records, Updates
    <3>7. /\ Updated(r, u).current = MostAdvanced(r.current, u.status)
          /\ Updated(r, u).category = IF u.status = "failed" THEN u.category ELSE r.category
      BY <3>2, UpdatedFields
    <3>8. /\ Updated(r, u).current \in {r.current, u.status}
          /\ StatusRank(Updated(r, u).current) >= StatusRank(r.current)
          /\ Updated(r, u).current = "failed" <=> r.current = "failed" \/ u.status = "failed"
      BY <3>6, <3>7, MostAdvancedIsHigher
    <3>9. Updated(r, u).current \in {v.status : v \in arrived[m] \union {u}}
      BY <3>3, <3>8
    <3>10. Updated(r, u).category # None <=> Updated(r, u).current = "failed"
      BY <3>3, <3>7, <3>8 DEF NamesItsFailure
    <3>11. Tracked(m)'
      BY <3>1, <3>5 DEF Tracked
    <3>12. \A v \in arrived[m] \union {u} :
             /\ NamesItsFailure(v)
             /\ channel # "whatsapp" /\ v.status = "read" => sentAt[m] <= v.time
      BY <2>0, <2>2 DEF MessageInv
    <3>13. MessageInv(m)'
      BY <2>2, <3>1, <3>5, <3>9, <3>10, <3>11, <3>12 DEF MessageInv
    <3> QED
      BY <2>0, <3>1, <3>4, <3>5, <3>8, <3>13
  <2> QED
    BY <2>1, <2>2
<1>2. records' \in [Messages -> Records] /\ arrived' \in [Messages -> SUBSET Updates]
  BY <1>1 DEF Apply
<1> QED
  BY <1>1, <1>2 DEF Tracked, Advances

\* A step that applies nothing leaves the records what they are.
LEMMA RecordsRest ==
  ASSUME StatusInv, UNCHANGED <<channel, records, arrived>>,
         \A m \in Messages : sentAt[m] # -1 => sentAt'[m] = sentAt[m]
  PROVE  /\ \A m \in Messages : MessageInv(m)'
         /\ Advances
<1>1. Advances
  BY DEF StatusInv, TypeOK, Advances, Tracked, Records, DeliveryStatuses, StatusRank
<1>2. ASSUME NEW m \in Messages PROVE MessageInv(m)'
  <2>1. MessageInv(m) /\ (sentAt[m] # -1 => sentAt'[m] = sentAt[m])
    BY DEF StatusInv
  <2>2. arrived'[m] = arrived[m] /\ records'[m] = records[m] /\ channel' = channel /\ (Tracked(m))' = Tracked(m)
    BY DEF Tracked
  <2>3. CASE sentAt[m] = -1
    <3>1. arrived[m] = {} /\ arrived'[m] = {}
      BY <2>1, <2>2, <2>3 DEF MessageInv
    <3>2. Tracked(m) => FALSE
      BY <2>1, <3>1 DEF MessageInv
    <3> QED
      BY <2>2, <3>1, <3>2 DEF MessageInv
  <2>4. CASE sentAt[m] # -1
    BY <2>1, <2>2, <2>4 DEF MessageInv
  <2> QED
    BY <2>3, <2>4
<1> QED
  BY <1>1, <1>2

\* What Meta posts is of a sent message.
LEMMA PostKeeps ==
  ASSUME StatusInv, NEW w, Post(w), w \in Reported \union Watermarks,
         w \in Reported =>
           /\ sentAt[w.message] # -1
           /\ NamesItsFailure(w)
           /\ channel # "whatsapp" => w.status = "delivered"
  PROVE  StatusInv' /\ Advances
<1>1. /\ webhooks' = webhooks \union {w}
      /\ UNCHANGED <<channel, clock, sending, queue, sentAt, records, arrived>>
  BY DEF Post
<1>2. TypeOK'
  BY <1>1 DEF StatusInv, TypeOK
<1>3. (\A m \in Messages : MessageInv(m)') /\ Advances
  BY <1>1, RecordsRest
<1>4. OnlySentIsReported'
  BY <1>1 DEF StatusInv, OnlySentIsReported
<1> QED
  BY <1>2, <1>3, <1>4 DEF StatusInv

LEMMA StatusStep ==
  ASSUME StatusInv, [Next]_vars
  PROVE  StatusInv' /\ Advances
<1> USE DEF StatusInv
<1>2. CASE UNCHANGED vars
  <2>1. TypeOK' /\ OnlySentIsReported'
    BY <1>2 DEF vars, TypeOK, OnlySentIsReported
  <2> QED
    BY <1>2, <2>1, RecordsRest DEF vars
<1>3. ASSUME NEW m \in Messages, Send(m)
      PROVE  StatusInv' /\ Advances
  <2>1. /\ sending' = m /\ sentAt' = [sentAt EXCEPT ![m] = clock] /\ sentAt[m] = -1
        /\ queue' = queue \union {m} /\ clock \in Nat
        /\ UNCHANGED <<channel, clock, webhooks, records, arrived>>
    BY <1>3 DEF Send, TypeOK, Times
  <2>2. TypeOK'
    BY <2>1 DEF TypeOK
  <2>3. \A n \in Messages : sentAt[n] # -1 => sentAt'[n] = sentAt[n]
    BY <2>1 DEF TypeOK
  <2>4. (\A n \in Messages : MessageInv(n)') /\ Advances
    BY <2>1, <2>3, RecordsRest
  <2>5. sentAt'[m] # -1 /\ \A n \in Messages : sentAt[n] # -1 => sentAt'[n] # -1
    BY <2>1, <2>3 DEF TypeOK
  <2>6. \A w \in Reported : w.message \in Messages
    BY DEF Reported
  <2>7. OnlySentIsReported'
    BY <2>1, <2>5, <2>6 DEF OnlySentIsReported, TypeOK
  <2> QED
    BY <2>2, <2>4, <2>7
<1>4. ASSUME NEW m \in Messages, Report(m)
      PROVE  StatusInv' /\ Advances
  <2>1. PICK s \in DeliveryStatuses, c \in Categories \union {None} :
          /\ Post([message |-> m, status |-> s, time |-> clock, category |-> c])
          /\ s = "failed" <=> c # None
          /\ channel # "whatsapp" => s = "delivered"
    BY <1>4, CategoriesAssumption DEF Report, DeliveryStatuses
  <2> DEFINE w == [message |-> m, status |-> s, time |-> clock, category |-> c]
  <2>2. /\ w \in Reported /\ w.message = m /\ NamesItsFailure(w)
        /\ channel # "whatsapp" => w.status = "delivered"
    BY <2>1 DEF Reported, NamesItsFailure, TypeOK
  <2>3. sentAt[m] # -1 /\ Post(w)
    BY <1>4, <2>1 DEF Report
  <2> HIDE DEF w
  <2> QED
    BY <2>2, <2>3, PostKeeps
<1>5. CASE NoteSent
  <2>1. CASE channel = "whatsapp"
    <3>1. TypeOK' /\ OnlySentIsReported'
      BY <1>5, <2>1 DEF NoteSent, TypeOK, OnlySentIsReported
    <3> QED
      BY <1>5, <2>1, <3>1, RecordsRest DEF NoteSent
  <2>2. CASE channel # "whatsapp"
    <3> DEFINE u == [status |-> "sent", time |-> clock, category |-> None]
    <3>1. u \in Updates /\ NamesItsFailure(u) /\ u.status = "sent"
      BY DEF Updates, DeliveryStatuses, NamesItsFailure, TypeOK
    <3>2. Apply({sending}, u) /\ UNCHANGED <<channel, sentAt>> /\ sentAt[sending] # -1
      BY <1>5, <2>2 DEF NoteSent, OnlySentIsReported
    <3> HIDE DEF u
    <3>3. /\ records' \in [Messages -> Records] /\ arrived' \in [Messages -> SUBSET Updates]
          /\ \A m \in Messages : MessageInv(m)'
          /\ Advances
      BY <3>1, <3>2, ApplyKeeps
    <3>4. TypeOK' /\ OnlySentIsReported'
      BY <1>5, <3>3 DEF NoteSent, TypeOK, OnlySentIsReported
    <3> QED
      BY <3>3, <3>4
  <2> QED
    BY <2>1, <2>2
<1>6. CASE AttachQueue
  <2>1. TypeOK' /\ OnlySentIsReported'
    BY <1>6 DEF AttachQueue, TypeOK, OnlySentIsReported
  <2> QED
    BY <1>6, <2>1, RecordsRest DEF AttachQueue
<1>7. CASE UserReads
  <2>1. Post([watermark |-> clock])
    BY <1>7 DEF UserReads
  <2>2. [watermark |-> clock] \in Watermarks
    BY DEF Watermarks, TypeOK
  <2>3. [watermark |-> clock] \notin Reported
    <3>1. "watermark" \in DOMAIN [watermark |-> clock]
      OBVIOUS
    <3>2. \A w \in Reported : "watermark" \notin DOMAIN w
      BY DEF Reported
    <3> QED
      BY <3>1, <3>2
  <2> QED
    BY <2>1, <2>2, <2>3, PostKeeps
<1>8. ASSUME NEW w \in webhooks, HandleStatus(w)
      PROVE  StatusInv' /\ Advances
  <2> DEFINE u == [status |-> w.status, time |-> w.time, category |-> w.category]
  <2>1. /\ w \in Reported /\ Apply({w.message}, u)
        /\ UNCHANGED <<channel, clock, sending, queue, sentAt, webhooks>>
    BY <1>8 DEF HandleStatus
  <2>2. sentAt[w.message] # -1 /\ NamesItsFailure(w) /\ (channel # "whatsapp" => w.status = "delivered")
    BY <2>1 DEF OnlySentIsReported
  <2>3. u \in Updates /\ NamesItsFailure(u) /\ (channel # "whatsapp" => u.status = "delivered")
    BY <2>1, <2>2 DEF Reported, Updates, NamesItsFailure
  <2> HIDE DEF u
  <2>4. /\ records' \in [Messages -> Records] /\ arrived' \in [Messages -> SUBSET Updates]
        /\ \A m \in Messages : MessageInv(m)'
        /\ Advances
    BY <2>1, <2>2, <2>3, ApplyKeeps
  <2>5. TypeOK' /\ OnlySentIsReported'
    BY <2>1, <2>4 DEF TypeOK, OnlySentIsReported
  <2> QED
    BY <2>4, <2>5
<1>9. ASSUME NEW w \in webhooks, HandleReadWatermark(w)
      PROVE  StatusInv' /\ Advances
  <2> DEFINE u == [status |-> "read", time |-> w.watermark, category |-> None]
             ids == {m \in ReadBy(w.watermark) : Tracked(m)}
  <2>1. /\ w \in Watermarks /\ Apply(ids, u)
        /\ UNCHANGED <<channel, clock, sending, queue, sentAt, webhooks>>
    BY <1>9 DEF HandleReadWatermark
  <2>2. u \in Updates /\ NamesItsFailure(u) /\ u.time = w.watermark
    BY <2>1 DEF Watermarks, Updates, DeliveryStatuses, NamesItsFailure
  <2>3. \A m \in Messages : m \in ids => sentAt[m] # -1 /\ sentAt[m] <= u.time
    BY <2>2 DEF ReadBy, OnlySentIsReported
  <2> HIDE DEF u, ids
  <2>4. /\ records' \in [Messages -> Records] /\ arrived' \in [Messages -> SUBSET Updates]
        /\ \A m \in Messages : MessageInv(m)'
        /\ Advances
    BY <2>1, <2>2, <2>3, ApplyKeeps
  <2>5. TypeOK' /\ OnlySentIsReported'
    BY <2>1, <2>4 DEF TypeOK, OnlySentIsReported
  <2> QED
    BY <2>4, <2>5
<1>10. CASE Tick
  <2>1. clock' \in Times /\ UNCHANGED <<channel, sending, queue, sentAt, webhooks, records, arrived>>
    BY <1>10, BoundsAssumption DEF Tick, Times, TypeOK
  <2>2. TypeOK' /\ OnlySentIsReported'
    BY <2>1 DEF TypeOK, OnlySentIsReported
  <2> QED
    BY <2>1, <2>2, RecordsRest
<1> QED
  BY <1>2, <1>3, <1>4, <1>5, <1>6, <1>7, <1>8, <1>9, <1>10 DEF Next

LEMMA StatusInit == Init => StatusInv
<1> SUFFICES ASSUME Init PROVE StatusInv
  OBVIOUS
<1>1. NoRecord \in Records /\ ~NoRecord.tracked
  BY BoundsAssumption DEF NoRecord, Records, DeliveryStatuses, Times
<1>2. TypeOK
  BY <1>1, BoundsAssumption DEF Init, TypeOK, Times
<1> QED
  BY <1>1, <1>2 DEF Init, StatusInv, OnlySentIsReported, MessageInv, Tracked

LEMMA StatusPartStep ==
  StatusInv /\ [PartsNext]_<<part, vars, recoveryVars, schedulerVars>> => StatusInv' /\ [Advances]_vars
<1> SUFFICES ASSUME StatusInv, [PartsNext]_<<part, vars, recoveryVars, schedulerVars>>
             PROVE  StatusInv' /\ [Advances]_vars
  OBVIOUS
<1>1. [Next]_vars
  BY DEF PartsNext, ReportStatuses, RunAndRestart, ScheduleFlushes
<1> QED
  BY <1>1, StatusStep

\* A late status never takes a message back: what the tracker shows of a
\* message only advances, for any messages, categories and course of time
\* (applyStatusUpdate).
THEOREM StatusNeverRegresses == PartsSpec => NeverRegresses
<1>1. PartsInit => StatusInv
  BY StatusInit DEF PartsInit
<1>2. StatusInv /\ [PartsNext]_<<part, vars, recoveryVars, schedulerVars>> => StatusInv' /\ [Advances]_vars
  BY StatusPartStep
<1>3. [Advances]_vars =>
        [\A m \in Messages : Tracked(m) =>
           Tracked(m)' /\ StatusRank(records'[m].current) >= StatusRank(records[m].current)]_vars
  BY DEF Advances
<1> QED
  BY <1>1, <1>2, <1>3, PTL DEF PartsSpec, NeverRegresses

\* What the admin route shows of a message is what the set of its updates makes of
\* it, in whatever order and however often they came, and a watermark marks no
\* message that was sent after it (applyStatusUpdate, handleReadWatermarkImpl).
THEOREM RecordsMatchArrivals == PartsSpec => []RecordsAreWhatArrived
<1>1. PartsInit => StatusInv
  BY StatusInit DEF PartsInit
<1>2. StatusInv /\ [PartsNext]_<<part, vars, recoveryVars, schedulerVars>> => StatusInv'
  BY StatusPartStep
<1>3. StatusInv => RecordIsWhatArrived
  BY DEF StatusInv, MessageInv, Matches, RecordIsWhatArrived
<1>4. StatusInv => ReadsAreOfSentBefore
  BY DEF StatusInv, MessageInv, ReadsAreOfSentBefore
<1> QED
  BY <1>1, <1>2, <1>3, <1>4, PTL DEF PartsSpec, RecordsAreWhatArrived

-----------------------------------------------------------------------------
(***************************************************************************)
(* The schedulers (OwedIsPending), for any keys, worker slots and number   *)
(* of calls.  OwedIsPending alone is not inductive: that the job which a   *)
(* call leaves in place is not about to go needs the shape of a key's job  *)
(* and handlers (JobIsServed), and that a handler is past its work is not  *)
(* met by a call (CallsMeetNoWork).                                        *)
(***************************************************************************)

SchedulerTypeOK ==
  /\ kind \in Scheduler!Kinds
  /\ flush \in [Keys -> Scheduler!Jobs]
  /\ stalls \in [Keys -> Nat]
  /\ scheduling \in [Keys -> Scheduler!Calls]
  /\ handlers \in [Keys -> [Scheduler!Stages -> Nat]]
  /\ owed \subseteq Keys
  /\ downs \in Nat

\* In memory there are timers only.
TimerIsSet(k) == flush[k] \in {"none", "delayed"} /\ scheduling[k] = "none"

\* On BullMQ a handler has its job.  A job without one is left of the only crash
\* and was not found stalled yet, so none fails.
JobIsServed(k) ==
  /\ Scheduler!Running(k) <= 1
  /\ Scheduler!Running(k) = 1 => flush[k] = "active"
  /\ flush[k] = "active" /\ Scheduler!Running(k) = 0 => downs = 1 /\ stalls[k] = 0
  /\ flush[k] # "failed"
  /\ downs = 0 => stalls[k] = 0

CallsMeetNoWork(k) ==
  scheduling[k] # "none" => handlers[k]["working"] = 0 /\ handlers[k]["finished"] = 0

KeyInv(k) ==
  /\ kind = "in_memory" => TimerIsSet(k)
  /\ kind = "bullmq" => JobIsServed(k) /\ CallsMeetNoWork(k)

Pending(k) ==
  k \in owed /\ scheduling[k] = "none" =>
    \/ flush[k] = "delayed"
    \/ handlers[k]["picked"] > 0
    \/ flush[k] = "active" /\ Scheduler!Running(k) = 0

SchedulerInv ==
  /\ SchedulerTypeOK
  /\ downs <= 1
  /\ \A k \in Keys : KeyInv(k) /\ Pending(k)

LEMMA SchedulerInit == Scheduler!Init => SchedulerInv
BY DEF Scheduler!Init, SchedulerInv, SchedulerTypeOK, KeyInv, TimerIsSet, JobIsServed, CallsMeetNoWork,
  Pending, Scheduler!Kinds, Scheduler!Jobs, Scheduler!Calls, Scheduler!Stages, Scheduler!Running

\* What a step says of its key is enough, when the other keys rest.
LEMMA OneKeyMoves ==
  ASSUME SchedulerInv, NEW k \in Keys, SchedulerTypeOK', kind' = kind, downs' = downs,
         \A j \in Keys \ {k} :
           /\ flush'[j] = flush[j] /\ stalls'[j] = stalls[j] /\ scheduling'[j] = scheduling[j]
           /\ handlers'[j] = handlers[j] /\ (j \in owed') = (j \in owed),
         KeyInv(k)', Pending(k)'
  PROVE  SchedulerInv'
<1>1. ASSUME NEW j \in Keys, j # k PROVE KeyInv(j)' /\ Pending(j)'
  <2>1. /\ flush'[j] = flush[j] /\ stalls'[j] = stalls[j] /\ scheduling'[j] = scheduling[j]
        /\ handlers'[j] = handlers[j] /\ (j \in owed') = (j \in owed)
    BY <1>1
  <2>2. KeyInv(j) /\ Pending(j)
    BY DEF SchedulerInv
  <2> QED
    BY <2>1, <2>2 DEF KeyInv, TimerIsSet, JobIsServed, CallsMeetNoWork, Pending, Scheduler!Running
<1> QED
  BY <1>1 DEF SchedulerInv

\* A call of schedule.
LEMMA CallKeeps ==
  ASSUME SchedulerInv, NEW k \in Keys, Scheduler!Call(k)
  PROVE  SchedulerInv'
<1> USE DEF SchedulerInv, SchedulerTypeOK, Scheduler!Jobs, Scheduler!Calls, Scheduler!Stages
<1>1. CASE Scheduler!ScheduleTimer(k)
  <2>1. SchedulerTypeOK' /\ kind' = kind /\ downs' = downs
    BY <1>1 DEF Scheduler!ScheduleTimer, Scheduler!Kinds
  <2>2. \A j \in Keys \ {k} :
           /\ flush'[j] = flush[j] /\ stalls'[j] = stalls[j] /\ scheduling'[j] = scheduling[j]
           /\ handlers'[j] = handlers[j] /\ (j \in owed') = (j \in owed)
    BY <1>1 DEF Scheduler!ScheduleTimer
  <2>3. KeyInv(k)' /\ Pending(k)'
    BY <1>1 DEF Scheduler!ScheduleTimer, KeyInv, TimerIsSet, Pending
  <2> QED
    BY <2>1, <2>2, <2>3, OneKeyMoves
<1>2. CASE Scheduler!GetJob(k)
  <2>1. SchedulerTypeOK' /\ kind' = kind /\ downs' = downs
    BY <1>2 DEF Scheduler!GetJob, Scheduler!Kinds
  <2>2. \A j \in Keys \ {k} :
           /\ flush'[j] = flush[j] /\ stalls'[j] = stalls[j] /\ scheduling'[j] = scheduling[j]
           /\ handlers'[j] = handlers[j] /\ (j \in owed') = (j \in owed)
    BY <1>2 DEF Scheduler!GetJob
  <2>3. KeyInv(k)' /\ Pending(k)'
    BY <1>2 DEF Scheduler!GetJob, Scheduler!MayCall, KeyInv, JobIsServed, CallsMeetNoWork, Pending,
      Scheduler!Running
  <2> QED
    BY <2>1, <2>2, <2>3, OneKeyMoves
<1> QED
  BY <1>1, <1>2 DEF Scheduler!Call

\* The counts of a key's handlers after one has gone on to its next stage.
LEMMA HandlerGoesOn ==
  ASSUME SchedulerTypeOK, NEW k \in Keys, NEW s \in Scheduler!Stages, NEW t \in Scheduler!Stages,
         s # t, handlers[k][s] > 0, Scheduler!Step(k, s, t)
  PROVE  /\ handlers' \in [Keys -> [Scheduler!Stages -> Nat]]
         /\ handlers'[k][s] = handlers[k][s] - 1
         /\ handlers'[k][t] = handlers[k][t] + 1
         /\ \A u \in Scheduler!Stages \ {s, t} : handlers'[k][u] = handlers[k][u]
         /\ \A j \in Keys \ {k} : handlers'[j] = handlers[j]
         /\ Scheduler!Running(k)' = Scheduler!Running(k)
<1> DEFINE stages == Scheduler!Stages
           moved == [[handlers[k] EXCEPT ![s] = @ - 1] EXCEPT ![t] = @ + 1]
<1>1. handlers \in [Keys -> [stages -> Nat]] /\ handlers[k] \in [stages -> Nat]
  BY DEF SchedulerTypeOK
<1>2. handlers' = [handlers EXCEPT ![k] = moved]
  BY <1>1 DEF Scheduler!Step
<1>3. moved \in [stages -> Nat]
  <2>1. [handlers[k] EXCEPT ![s] = @ - 1] \in [stages -> Nat]
    BY <1>1
  <2> QED
    BY <2>1
<1>4. moved[s] = handlers[k][s] - 1 /\ moved[t] = handlers[k][t] + 1
      /\ \A u \in stages \ {s, t} : moved[u] = handlers[k][u]
  BY <1>1
<1>5. handlers'[k] = moved /\ \A j \in Keys \ {k} : handlers'[j] = handlers[j]
  BY <1>1, <1>2
<1>6. handlers' \in [Keys -> [stages -> Nat]]
  BY <1>1, <1>2, <1>3
<1>7. Scheduler!Running(k)' = Scheduler!Running(k)
  BY <1>1, <1>3, <1>4, <1>5 DEF Scheduler!Running, Scheduler!Stages
<1> QED
  BY <1>4, <1>5, <1>6, <1>7

\* The call goes on, and the worker, the timer and the stall check take jobs.
LEMMA JobMoves ==
  ASSUME SchedulerInv, NEW k \in Keys,
         \/ Scheduler!Remove(k) \/ Scheduler!Add(k)
         \/ Scheduler!TimerFires(k) \/ Scheduler!Pick(k) \/ Scheduler!Stalled(k)
  PROVE  SchedulerInv'
<1> USE DEF SchedulerInv
<1>0. /\ flush[k] \in Scheduler!Jobs /\ stalls[k] \in Nat /\ scheduling[k] \in Scheduler!Calls
      /\ handlers[k] \in [Scheduler!Stages -> Nat] /\ downs \in Nat
  BY DEF SchedulerTypeOK
<1>n. /\ handlers[k]["picked"] \in Nat /\ handlers[k]["working"] \in Nat
      /\ handlers[k]["finished"] \in Nat
  BY <1>0 DEF Scheduler!Stages
<1>1. CASE Scheduler!Remove(k)
  <2>1. SchedulerTypeOK' /\ kind' = kind /\ downs' = downs
    BY <1>1 DEF Scheduler!Remove, SchedulerTypeOK, Scheduler!Jobs, Scheduler!Calls
  <2>2. \A j \in Keys \ {k} :
           /\ flush'[j] = flush[j] /\ stalls'[j] = stalls[j] /\ scheduling'[j] = scheduling[j]
           /\ handlers'[j] = handlers[j] /\ (j \in owed') = (j \in owed)
    BY <1>1 DEF Scheduler!Remove, SchedulerTypeOK
  <2>3. KeyInv(k)' /\ Pending(k)'
    BY <1>1, <1>0, <1>n DEF Scheduler!Remove, KeyInv, TimerIsSet, JobIsServed, CallsMeetNoWork, Pending,
      Scheduler!Running, SchedulerTypeOK
  <2> QED
    BY <2>1, <2>2, <2>3, OneKeyMoves
<1>2. CASE Scheduler!Add(k)
  <2>1. SchedulerTypeOK' /\ kind' = kind /\ downs' = downs
    BY <1>2 DEF Scheduler!Add, SchedulerTypeOK, Scheduler!Jobs, Scheduler!Calls
  <2>2. \A j \in Keys \ {k} :
           /\ flush'[j] = flush[j] /\ stalls'[j] = stalls[j] /\ scheduling'[j] = scheduling[j]
           /\ handlers'[j] = handlers[j] /\ (j \in owed') = (j \in owed)
    BY <1>2 DEF Scheduler!Add, SchedulerTypeOK
  <2>3. KeyInv(k)' /\ Pending(k)'
    BY <1>2, <1>0, <1>n DEF Scheduler!Add, KeyInv, TimerIsSet, JobIsServed, CallsMeetNoWork, Pending,
      Scheduler!Running, SchedulerTypeOK, Scheduler!Jobs, Scheduler!Kinds
  <2> QED
    BY <2>1, <2>2, <2>3, OneKeyMoves
<1>3. CASE Scheduler!TimerFires(k) \/ Scheduler!Pick(k)
  <2> DEFINE moved == [handlers[k] EXCEPT !["picked"] = @ + 1]
  <2>0. /\ handlers' = [handlers EXCEPT ![k] = moved]
        /\ kind' = kind /\ downs' = downs /\ stalls' = stalls /\ scheduling' = scheduling /\ owed' = owed
        /\ flush[k] = "delayed"
        /\ \/ kind = "in_memory" /\ flush' = [flush EXCEPT ![k] = "none"]
           \/ kind = "bullmq" /\ flush' = [flush EXCEPT ![k] = "active"]
    BY <1>3 DEF Scheduler!TimerFires, Scheduler!Pick
  <2>a. handlers \in [Keys -> [Scheduler!Stages -> Nat]] /\ flush \in [Keys -> Scheduler!Jobs]
    BY DEF SchedulerTypeOK
  <2>b. moved \in [Scheduler!Stages -> Nat]
    BY <1>0, <1>n DEF Scheduler!Stages
  <2>c. /\ handlers'[k]["picked"] = handlers[k]["picked"] + 1
        /\ handlers'[k]["working"] = handlers[k]["working"]
        /\ handlers'[k]["finished"] = handlers[k]["finished"]
    BY <2>0, <2>a, <1>0 DEF Scheduler!Stages
  <2>1. SchedulerTypeOK'
    BY <2>0, <2>a, <2>b DEF SchedulerTypeOK, Scheduler!Jobs
  <2>2. \A j \in Keys \ {k} :
           /\ flush'[j] = flush[j] /\ stalls'[j] = stalls[j] /\ scheduling'[j] = scheduling[j]
           /\ handlers'[j] = handlers[j] /\ (j \in owed') = (j \in owed)
    BY <2>0, <2>a
  <2>3. flush'[k] = IF kind = "bullmq" THEN "active" ELSE "none"
    BY <2>0, <2>a
  <2>4. KeyInv(k)' /\ Pending(k)'
    BY <2>0, <2>c, <2>3, <1>0, <1>n DEF KeyInv, TimerIsSet, JobIsServed, CallsMeetNoWork, Pending,
      Scheduler!Running
  <2> QED
    BY <2>0, <2>1, <2>2, <2>4, OneKeyMoves
<1>4. CASE Scheduler!Stalled(k)
  <2>1. SchedulerTypeOK' /\ kind' = kind /\ downs' = downs
    BY <1>4 DEF Scheduler!Stalled, SchedulerTypeOK, Scheduler!Jobs
  <2>2. \A j \in Keys \ {k} :
           /\ flush'[j] = flush[j] /\ stalls'[j] = stalls[j] /\ scheduling'[j] = scheduling[j]
           /\ handlers'[j] = handlers[j] /\ (j \in owed') = (j \in owed)
    BY <1>4 DEF Scheduler!Stalled, SchedulerTypeOK
  <2>3. KeyInv(k)' /\ Pending(k)'
    BY <1>4, <1>0, <1>n DEF Scheduler!Stalled, KeyInv, TimerIsSet, JobIsServed, CallsMeetNoWork, Pending,
      Scheduler!Running, SchedulerTypeOK
  <2> QED
    BY <2>1, <2>2, <2>3, OneKeyMoves
<1> QED
  BY <1>1, <1>2, <1>3, <1>4

\* A handler takes the lock, returns and settles.
LEMMA HandlerMoves ==
  ASSUME SchedulerInv, NEW k \in Keys,
         Scheduler!Take(k) \/ Scheduler!Finish(k) \/ Scheduler!Settle(k)
  PROVE  SchedulerInv'
<1> USE DEF SchedulerInv
<1>0. /\ flush[k] \in Scheduler!Jobs /\ stalls[k] \in Nat /\ scheduling[k] \in Scheduler!Calls
      /\ handlers[k] \in [Scheduler!Stages -> Nat] /\ downs \in Nat
  BY DEF SchedulerTypeOK
<1>n. /\ handlers[k]["picked"] \in Nat /\ handlers[k]["working"] \in Nat
      /\ handlers[k]["finished"] \in Nat
  BY <1>0 DEF Scheduler!Stages
<1>1. CASE Scheduler!Take(k)
  <2> DEFINE to == IF k \in owed THEN "working" ELSE "finished"
  <2>0. /\ handlers[k]["picked"] > 0 /\ scheduling[k] = "none" /\ Scheduler!Step(k, "picked", to)
        /\ owed' = owed \ {k} /\ kind' = kind /\ flush' = flush /\ stalls' = stalls
        /\ scheduling' = scheduling /\ downs' = downs
    BY <1>1 DEF Scheduler!Take
  <2>a. to \in Scheduler!Stages /\ "picked" \in Scheduler!Stages /\ to # "picked"
    BY DEF Scheduler!Stages
  <2> HIDE DEF to
  <2>b. /\ handlers' \in [Keys -> [Scheduler!Stages -> Nat]]
        /\ \A j \in Keys \ {k} : handlers'[j] = handlers[j]
        /\ Scheduler!Running(k)' = Scheduler!Running(k)
    BY <2>0, <2>a, HandlerGoesOn
  <2>1. SchedulerTypeOK'
    BY <2>0, <2>b DEF SchedulerTypeOK
  <2>2. \A j \in Keys \ {k} :
           /\ flush'[j] = flush[j] /\ stalls'[j] = stalls[j] /\ scheduling'[j] = scheduling[j]
           /\ handlers'[j] = handlers[j] /\ (j \in owed') = (j \in owed)
    BY <2>0, <2>b
  <2>3. KeyInv(k)' /\ Pending(k)'
    BY <2>0, <2>b DEF KeyInv, TimerIsSet, JobIsServed, CallsMeetNoWork, Pending
  <2> QED
    BY <2>0, <2>1, <2>2, <2>3, OneKeyMoves
<1>2. CASE Scheduler!Finish(k)
  <2>0. /\ handlers[k]["working"] > 0 /\ Scheduler!Step(k, "working", "finished")
        /\ owed' = owed /\ kind' = kind /\ flush' = flush /\ stalls' = stalls
        /\ scheduling' = scheduling /\ downs' = downs
    BY <1>2 DEF Scheduler!Finish
  <2>a. "working" \in Scheduler!Stages /\ "finished" \in Scheduler!Stages
        /\ "picked" \in Scheduler!Stages \ {"working", "finished"}
    BY DEF Scheduler!Stages
  <2>b. /\ handlers' \in [Keys -> [Scheduler!Stages -> Nat]]
        /\ \A j \in Keys \ {k} : handlers'[j] = handlers[j]
        /\ Scheduler!Running(k)' = Scheduler!Running(k)
        /\ handlers'[k]["picked"] = handlers[k]["picked"]
    BY <2>0, <2>a, HandlerGoesOn
  <2>1. SchedulerTypeOK'
    BY <2>0, <2>b DEF SchedulerTypeOK
  <2>2. \A j \in Keys \ {k} :
           /\ flush'[j] = flush[j] /\ stalls'[j] = stalls[j] /\ scheduling'[j] = scheduling[j]
           /\ handlers'[j] = handlers[j] /\ (j \in owed') = (j \in owed)
    BY <2>0, <2>b
  <2>3. KeyInv(k)' /\ Pending(k)'
    BY <2>0, <2>b, <1>n DEF KeyInv, TimerIsSet, JobIsServed, CallsMeetNoWork, Pending
  <2> QED
    BY <2>0, <2>1, <2>2, <2>3, OneKeyMoves
<1>3. CASE Scheduler!Settle(k)
  <2> DEFINE moved == [handlers[k] EXCEPT !["finished"] = @ - 1]
  <2>0. /\ handlers[k]["finished"] > 0
        /\ handlers' = [handlers EXCEPT ![k] = moved]
        /\ flush' = [flush EXCEPT ![k] = IF kind = "bullmq" THEN "none" ELSE @]
        /\ kind' = kind /\ downs' = downs /\ stalls' = stalls /\ scheduling' = scheduling /\ owed' = owed
    BY <1>3 DEF Scheduler!Settle
  <2>a. handlers \in [Keys -> [Scheduler!Stages -> Nat]] /\ flush \in [Keys -> Scheduler!Jobs]
    BY DEF SchedulerTypeOK
  <2>b. moved \in [Scheduler!Stages -> Nat]
    BY <1>0, <1>n, <2>0 DEF Scheduler!Stages
  <2>c. /\ handlers'[k]["picked"] = handlers[k]["picked"]
        /\ handlers'[k]["working"] = handlers[k]["working"]
        /\ handlers'[k]["finished"] = handlers[k]["finished"] - 1
    BY <2>0, <2>a, <1>0 DEF Scheduler!Stages
  <2>1. SchedulerTypeOK'
    BY <2>0, <2>a, <2>b DEF SchedulerTypeOK, Scheduler!Jobs
  <2>2. \A j \in Keys \ {k} :
           /\ flush'[j] = flush[j] /\ stalls'[j] = stalls[j] /\ scheduling'[j] = scheduling[j]
           /\ handlers'[j] = handlers[j] /\ (j \in owed') = (j \in owed)
    BY <2>0, <2>a
  <2>3. flush'[k] = IF kind = "bullmq" THEN "none" ELSE flush[k]
    BY <2>0, <2>a
  <2>4. KeyInv(k)' /\ Pending(k)'
    BY <2>0, <2>c, <2>3, <1>0, <1>n DEF KeyInv, TimerIsSet, JobIsServed, CallsMeetNoWork, Pending,
      Scheduler!Running
  <2> QED
    BY <2>0, <2>1, <2>2, <2>4, OneKeyMoves
<1> QED
  BY <1>1, <1>2, <1>3

\* The process dies between two calls: every handler is gone, its job is not.
LEMMA CrashKeeps == SchedulerInv /\ Scheduler!Crash => SchedulerInv'
<1> SUFFICES ASSUME SchedulerInv, Scheduler!Crash PROVE SchedulerInv'
  OBVIOUS
<1>1. /\ downs < 1 /\ kind = "bullmq" /\ downs' = downs + 1 /\ kind' = kind
      /\ scheduling' = [k \in Keys |-> "none"]
      /\ handlers' = [k \in Keys |-> [s \in Scheduler!Stages |-> 0]]
      /\ flush' = flush /\ stalls' = stalls /\ owed' = owed
      /\ \A k \in Keys : scheduling[k] = "none"
  BY DEF Scheduler!Crash
<1>2. SchedulerTypeOK' /\ downs = 0 /\ downs' = 1
  BY <1>1 DEF SchedulerInv, SchedulerTypeOK, Scheduler!Calls
<1>3. ASSUME NEW k \in Keys PROVE KeyInv(k)' /\ Pending(k)'
  <2>1. /\ handlers'[k]["picked"] = 0 /\ handlers'[k]["working"] = 0 /\ handlers'[k]["finished"] = 0
        /\ scheduling'[k] = "none"
    BY <1>1 DEF Scheduler!Stages
  <2>2. /\ handlers[k]["picked"] \in Nat /\ handlers[k]["working"] \in Nat
        /\ handlers[k]["finished"] \in Nat
    BY DEF SchedulerInv, SchedulerTypeOK, Scheduler!Stages
  <2>3. KeyInv(k) /\ Pending(k)
    BY DEF SchedulerInv
  <2> QED
    BY <1>1, <1>2, <2>1, <2>2, <2>3 DEF KeyInv, JobIsServed, CallsMeetNoWork, Pending, Scheduler!Running
<1> QED
  BY <1>1, <1>2, <1>3 DEF SchedulerInv

LEMMA SchedulerStep == SchedulerInv /\ [PartsNext]_<<part, vars, recoveryVars, schedulerVars>> => SchedulerInv'
<1> SUFFICES ASSUME SchedulerInv, [PartsNext]_<<part, vars, recoveryVars, schedulerVars>>
             PROVE  SchedulerInv'
  OBVIOUS
<1>1. CASE Scheduler!Next
  BY <1>1, CallKeeps, JobMoves, HandlerMoves, CrashKeeps DEF Scheduler!Next, Scheduler!Serve
<1>2. CASE UNCHANGED schedulerVars
  BY <1>2 DEF schedulerVars, SchedulerInv, SchedulerTypeOK, KeyInv, TimerIsSet, JobIsServed,
    CallsMeetNoWork, Pending, Scheduler!Running
<1> QED
  BY <1>1, <1>2 DEF PartsNext, ReportStatuses, RunAndRestart, ScheduleFlushes

\* Buffered input has a timer, a job or a handler that has yet to take it, and on
\* the durable path a key has one handler at a time (schedule, cancel and the
\* worker of scheduler.ts), through one crash that hits no call.
THEOREM BufferedIsPending == PartsSpec => []OwedIsPending
<1>1. PartsInit => SchedulerInv
  BY SchedulerInit DEF PartsInit
<1>2. SchedulerInv /\ [PartsNext]_<<part, vars, recoveryVars, schedulerVars>> => SchedulerInv'
  BY SchedulerStep
<1>3. SchedulerInv => OwedIsPending
  BY DEF SchedulerInv, SchedulerTypeOK, KeyInv, JobIsServed, Pending, OwedIsPending,
    Scheduler!OwedIsPending, Scheduler!OneHandlerPerKey
<1> QED
  BY <1>1, <1>2, <1>3, PTL DEF PartsSpec

-----------------------------------------------------------------------------
(***************************************************************************)
(* What a handler has loaded.  Of one replica it is always the record; of  *)
(* several, as long as none has saved the record between another's load    *)
(* and save.  A step then is one of handlers that load what they save.     *)
(***************************************************************************)

ReadingInv ==
  /\ up \subseteq Recovery!Replicas /\ booting \subseteq up
  /\ Recovery!OneReplica => ~overtaken /\ loaded = [p \in Processes |-> {}]

\* One step of handlers that save what they loaded in it.
StepNow ==
  \/ Recovery!Tick
  \/ \E p \in Processes :
       \/ Recovery!Load(p) \/ Recovery!SendReaches(p) \/ Recovery!Crash(p) \/ Recovery!Boot(p)
       \/ Recovery!Handles(p, record)

LEMMA HandlesSaves ==
  ASSUME NEW p, NEW r, Recovery!Handles(p, r)
  PROVE  /\ deployment' = deployment
         /\ overtaken' = (overtaken \/ Recovery!Overtakes(p, r))
         /\ loaded' = Recovery!Set(loaded, p, {})
         /\ up' \subseteq up /\ (booting \subseteq up => p \in up /\ booting' \subseteq up')
<1>1. ASSUME \/ \E m \in Inbounds : Recovery!Inbound(p, m, r)
             \/ Recovery!Flush(p, r) \/ Recovery!ChatEnds(p, r) \/ Recovery!Drive(p, r)
             \/ Recovery!SendEnds(p, r)
             \/ Recovery!RetryFires(p, r) \/ Recovery!DeliveryTimesOut(p, r)
             \/ Recovery!StatusArrives(p, r)
      PROVE  Recovery!Saves(p, r) /\ UNCHANGED <<deployment, up, booting>>
  BY <1>1 DEF Recovery!Inbound, Recovery!Flush, Recovery!ChatEnds, Recovery!ChatAnswers,
    Recovery!ChatIsSilent, Recovery!ChatFails, Recovery!ChatAborted, Recovery!Drive, Recovery!SendEnds,
    Recovery!SendSaved, Recovery!SendDone, Recovery!SendFailsTransiently,
    Recovery!SendSkipped, Recovery!RetryFires, Recovery!DeliveryTimesOut, Recovery!StatusArrives,
    Recovery!memory
<1>2. ASSUME Recovery!Recover(p, r)
      PROVE  /\ Recovery!Saves(p, r) /\ UNCHANGED <<deployment, up>>
             /\ booting' = booting \ {p}
  BY <1>2 DEF Recovery!Recover
<1>3. ASSUME Recovery!DieAfterClaim(p, r)
      PROVE  /\ deployment' = deployment /\ p \in booting
             /\ overtaken' = (overtaken \/ Recovery!Overtakes(p, r))
             /\ loaded' = Recovery!Set(loaded, p, {})
             /\ up' = up \ {p} /\ booting' = booting \ {p}
  BY <1>3 DEF Recovery!DieAfterClaim, Recovery!Lost, Recovery!Scanning
<1> QED
  BY <1>1, <1>2, <1>3 DEF Recovery!Handles, Recovery!Saves

LEMMA DeploymentStays == Recovery!Next => deployment' = deployment
BY HandlesSaves DEF Recovery!Next, Recovery!Tick, Recovery!Load, Recovery!SendReaches, Recovery!Crash,
  Recovery!Boot, Recovery!memory

LEMMA ReadingStep ==
  ASSUME ReadingInv, Recovery!Next
  PROVE  ReadingInv' /\ (overtaken => overtaken')
<1>1. deployment' = deployment
  BY DeploymentStays
<1>2. CASE Recovery!Tick
  <2>1. UNCHANGED <<up, booting, overtaken>>
        /\ loaded' = [p \in Processes |-> {[r EXCEPT !.retryIn = Recovery!Less(@)] : r \in loaded[p]}]
    BY <1>2 DEF Recovery!Tick, Recovery!memory
  <2>2. ASSUME loaded = [p \in Processes |-> {}] PROVE loaded' = [p \in Processes |-> {}]
    BY <2>1, <2>2
  <2> QED
    BY <1>1, <2>1, <2>2 DEF ReadingInv, Recovery!Replicas, Recovery!OneReplica
<1>3. ASSUME NEW p \in Processes, Recovery!Load(p) PROVE ReadingInv' /\ (overtaken => overtaken')
  <2>1. p \in up /\ Recovery!Replicas # {p} /\ UNCHANGED <<up, booting, overtaken>>
    BY <1>3 DEF Recovery!Load, Recovery!memory
  <2>2. ~Recovery!OneReplica
    BY <2>1 DEF ReadingInv, Recovery!OneReplica
  <2> QED
    BY <1>1, <2>1, <2>2 DEF ReadingInv, Recovery!Replicas, Recovery!OneReplica
<1>4. ASSUME NEW p \in Processes, Recovery!SendReaches(p) \/ Recovery!Crash(p) \/ Recovery!Boot(p)
      PROVE  ReadingInv' /\ (overtaken => overtaken')
  <2>1. /\ overtaken' = overtaken
        /\ loaded' = loaded \/ loaded' = [loaded EXCEPT ![p] = {}]
        /\ \/ UNCHANGED <<up, booting>>
           \/ up' = up \ {p} /\ booting' = booting \ {p}
           \/ up' = up \union {p} /\ booting' = booting \union {p} /\ p \in Recovery!Replicas
    BY <1>4 DEF Recovery!SendReaches, Recovery!Crash, Recovery!Lost, Recovery!Boot, Recovery!memory,
      Recovery!reading, Recovery!Set
  <2>2. ASSUME loaded = [q \in Processes |-> {}] PROVE loaded' = [q \in Processes |-> {}]
    BY <2>1, <2>2
  <2> QED
    BY <1>1, <2>1, <2>2 DEF ReadingInv, Recovery!Replicas, Recovery!OneReplica
<1>5. ASSUME NEW p \in Processes, Recovery!Handles(p, Recovery!Seen(p))
      PROVE  ReadingInv' /\ (overtaken => overtaken')
  <2>1. /\ overtaken' = (overtaken \/ Recovery!Overtakes(p, Recovery!Seen(p)))
        /\ loaded' = [loaded EXCEPT ![p] = {}]
        /\ up' \subseteq up /\ p \in up /\ booting' \subseteq up'
    BY <1>5, HandlesSaves DEF ReadingInv, Recovery!Set
  <2>2. ASSUME Recovery!OneReplica
        PROVE  ~overtaken' /\ loaded' = [q \in Processes |-> {}]
    <3>1. loaded = [q \in Processes |-> {}] /\ ~overtaken
      BY <2>2 DEF ReadingInv
    <3>2. Recovery!Seen(p) = record
      BY <3>1 DEF Recovery!Seen
    <3>3. up \ {p} = {}
      BY <2>1, <2>2 DEF ReadingInv, Recovery!OneReplica
    <3> QED
      BY <2>1, <3>1, <3>2, <3>3 DEF Recovery!Overtakes
  <2> QED
    BY <1>1, <2>1, <2>2 DEF ReadingInv, Recovery!Replicas, Recovery!OneReplica
<1> QED
  BY <1>2, <1>3, <1>4, <1>5 DEF Recovery!Next

LEMMA ReadsTheRecord ==
  ASSUME ReadingInv, Recovery!Next, ~overtaken'
  PROVE  StepNow
<1>1. ASSUME NEW p \in Processes, Recovery!Handles(p, Recovery!Seen(p))
      PROVE  Recovery!Handles(p, record)
  <2>1. overtaken' = (overtaken \/ Recovery!Overtakes(p, Recovery!Seen(p)))
    BY <1>1, HandlesSaves
  <2>2. Recovery!Seen(p) = record
    BY <2>1 DEF Recovery!Overtakes
  <2> QED
    BY <1>1, <2>2
<1> QED
  BY <1>1 DEF Recovery!Next, StepNow

-----------------------------------------------------------------------------
(***************************************************************************)
(* What is stored survives (StoredIsNotLost), for any replicas, messages,  *)
(* crashes and boots.  A flush takes the buffer and forgets the late       *)
(* arrivals, so nothing may be late while something is buffered.           *)
(***************************************************************************)

StoredRecords ==
  [state: {"idle", "buffering", "processing", "sending"}, buffer: SUBSET Inbounds, late: SUBSET Inbounds,
   turn: Nat, cursor: Nat, last: Nat, attempt: Nat, retryIn: Nat, sent: BOOLEAN, awaiting: BOOLEAN,
   nonce: Nat]

ChatsOf == [at: {"none", "called", "aborted", "attached"}, batch: SUBSET Inbounds]

SendCalls == [item: Nat \X Nat, attempt: Nat, phase: {"none", "called", "answered", "saved"}]

StoredTypeOK ==
  /\ record \in StoredRecords
  /\ chat \in [Processes -> ChatsOf]
  /\ call \in [Processes -> SendCalls]

LateIsNotBuffered(r) ==
  /\ r.late # {} => r.state \in {"processing", "sending"} /\ r.buffer = {}
  /\ r.state = "processing" => r.buffer = {}

StoredInv == StoredTypeOK /\ LateIsNotBuffered(record)

StoredIn(r) == r.buffer \union r.late

\* A record is written: what was stored is there, in a batch, or its turn is over.
Keeps(r) == r \in StoredRecords /\ LateIsNotBuffered(r) /\ StoredIn(record) \subseteq StoredIn(r)

LEMMA RebufferedKeeps ==
  ASSUME NEW r \in StoredRecords, NEW more \in SUBSET Inbounds
  PROVE  /\ Recovery!Rebuffered(r, more) \in StoredRecords
         /\ Recovery!Rebuffered(r, more).state = "buffering"
         /\ Recovery!Rebuffered(r, more).buffer = StoredIn(r) \union more
         /\ Recovery!Rebuffered(r, more).late = {}
BY DEF Recovery!Rebuffered, StoredRecords, StoredIn

LEMMA FinalizedKeeps ==
  ASSUME NEW r \in StoredRecords, LateIsNotBuffered(r)
  PROVE  /\ Recovery!Finalized(r) \in StoredRecords
         /\ LateIsNotBuffered(Recovery!Finalized(r))
         /\ StoredIn(Recovery!Finalized(r)) = StoredIn(r)
<1>1. CASE r.late # {}
  BY <1>1, RebufferedKeeps DEF Recovery!Finalized, LateIsNotBuffered, StoredIn
<1>2. CASE r.late = {} /\ r.state = "buffering" /\ r.buffer # {}
  <2>1. Recovery!Finalized(r) = [r EXCEPT !.awaiting = FALSE]
    BY <1>2 DEF Recovery!Finalized
  <2> QED
    BY <1>2, <2>1 DEF StoredRecords, LateIsNotBuffered, StoredIn
<1>3. CASE r.late = {} /\ ~(r.state = "buffering" /\ r.buffer # {})
  <2>1. Recovery!Finalized(r) = [r EXCEPT !.state = "idle", !.awaiting = FALSE]
    BY <1>3 DEF Recovery!Finalized
  <2> QED
    BY <1>3, <2>1 DEF StoredRecords, LateIsNotBuffered, StoredIn
<1> QED
  BY <1>1, <1>2, <1>3

LEMMA NoCallType == Recovery!NoCall \in SendCalls
BY DEF Recovery!NoCall, Recovery!None, SendCalls

\* sendNext and advanceAndContinue touch neither buffer nor late arrivals.
LEMMA SendNextKeeps ==
  ASSUME StoredInv, NEW p, NEW r \in StoredRecords, LateIsNotBuffered(r), Recovery!SendNext(p, r)
  PROVE  /\ record' \in StoredRecords /\ LateIsNotBuffered(record')
         /\ StoredIn(record') = StoredIn(r)
         /\ call' \in [Processes -> SendCalls]
<1>1. call \in [Processes -> SendCalls]
  BY DEF StoredInv, StoredTypeOK
<1>2. CASE Recovery!HasItem(r)
  <2> DEFINE c == [item |-> Recovery!Item(r), attempt |-> r.attempt, phase |-> "called"]
  <2>1. record' = r /\ call' = Recovery!Set(call, p, c)
    BY <1>2 DEF Recovery!SendNext
  <2>2. c \in SendCalls
    BY DEF SendCalls, StoredRecords, Recovery!Item
  <2> HIDE DEF c
  <2> QED
    BY <1>1, <2>1, <2>2 DEF Recovery!Set
<1>3. CASE ~Recovery!HasItem(r)
  <2>1. record' = Recovery!Finalized(r) /\ call' = Recovery!Set(call, p, Recovery!NoCall)
    BY <1>3 DEF Recovery!SendNext
  <2> QED
    BY <1>1, <2>1, NoCallType, FinalizedKeeps DEF Recovery!Set
<1> QED
  BY <1>2, <1>3

LEMMA AdvanceKeeps ==
  ASSUME StoredInv, NEW p, Recovery!Advance(p, record)
  PROVE  Keeps(record') /\ call' \in [Processes -> SendCalls]
<1> DEFINE r == [record EXCEPT !.cursor = IF Recovery!HasItem(record) THEN @ + 1 ELSE @, !.awaiting = FALSE,
                               !.attempt = 0, !.retryIn = 0, !.sent = FALSE]
<1>1. record \in StoredRecords
  BY DEF StoredInv, StoredTypeOK
<1>2. (IF Recovery!HasItem(record) THEN record.cursor + 1 ELSE record.cursor) \in Nat
  BY <1>1 DEF StoredRecords
<1>3. r \in StoredRecords /\ r.state = record.state /\ r.buffer = record.buffer /\ r.late = record.late
  BY <1>1, <1>2 DEF StoredRecords
<1>4. Recovery!SendNext(p, r)
  BY DEF Recovery!Advance
<1> HIDE DEF r
<1>5. LateIsNotBuffered(r) /\ StoredIn(r) = StoredIn(record)
  BY <1>3 DEF StoredInv, LateIsNotBuffered, StoredIn
<1> QED
  BY <1>3, <1>4, <1>5, SendNextKeeps DEF Keeps

\* Only a batch of a chat call leaves the record, and into the settled turns.
StoredStep == StoredInv' /\ Recovery!StoredStays

LEMMA StaysAccepted ==
  ASSUME StoredInv, Keeps(record'), chat' \in [Processes -> ChatsOf],
         call' \in [Processes -> SendCalls]
  PROVE  StoredStep
BY DEF StoredStep, StoredInv, StoredTypeOK, Keeps, Recovery!StoredStays, Recovery!Accepted, StoredIn

LEMMA RecordRests ==
  ASSUME StoredInv, record' = record
  PROVE  Keeps(record')
BY DEF StoredInv, StoredTypeOK, Keeps

LEMMA ChatSet ==
  ASSUME StoredInv, NEW p, NEW c \in ChatsOf, chat' = Recovery!Set(chat, p, c)
  PROVE  chat' \in [Processes -> ChatsOf]
BY DEF StoredInv, StoredTypeOK, Recovery!Set

LEMMA NoChatType == Recovery!NoChat \in ChatsOf
BY DEF Recovery!NoChat, ChatsOf

LEMMA InboundStores ==
  ASSUME StoredInv, NEW p \in Processes, NEW m \in Inbounds, Recovery!Inbound(p, m, record)
  PROVE  StoredStep
<1> USE DEF StoredInv, StoredTypeOK
<1>1. CASE record.state \in {"idle", "buffering"}
  <2>1. record' = [record EXCEPT !.state = "buffering", !.buffer = @ \union {m}] /\ chat' = chat /\ call' = call
    BY <1>1 DEF Recovery!Inbound
  <2>2. Keeps(record')
    BY <1>1, <2>1 DEF Keeps, StoredRecords, LateIsNotBuffered, StoredIn
  <2> QED
    BY <2>1, <2>2, StaysAccepted
<1>2. CASE record.state = "processing"
  <2>1. /\ record' = [record EXCEPT !.late = @ \union {m}]
        /\ chat' = IF chat[p].at = "called" THEN [chat EXCEPT ![p] = [chat[p] EXCEPT !.at = "aborted"]] ELSE chat
        /\ call' = call
    BY <1>2 DEF Recovery!Inbound
  <2>2. Keeps(record')
    BY <1>2, <2>1 DEF Keeps, StoredRecords, LateIsNotBuffered, StoredIn
  <2>3. [chat[p] EXCEPT !.at = "aborted"] \in ChatsOf
    BY DEF ChatsOf
  <2>4. chat' \in [Processes -> ChatsOf]
    BY <2>1, <2>3
  <2> QED
    BY <2>1, <2>2, <2>4, StaysAccepted
<1>3. CASE record.state = "sending"
  <2>1. record' = Recovery!Rebuffered(record, {m}) /\ chat' = chat /\ call' = call
    BY <1>3 DEF Recovery!Inbound
  <2>2. Keeps(record')
    BY <2>1, RebufferedKeeps DEF Keeps, LateIsNotBuffered, StoredIn
  <2> QED
    BY <2>1, <2>2, StaysAccepted
<1> QED
  BY <1>1, <1>2, <1>3 DEF StoredRecords

LEMMA FlushStores ==
  ASSUME StoredInv, NEW p \in Processes, Recovery!Flush(p, record)
  PROVE  StoredStep
<1> USE DEF StoredInv, StoredTypeOK
<1>1. CASE record.buffer = {}
  <2>1. record' = record /\ chat' = chat /\ call' = call
    BY <1>1 DEF Recovery!Flush
  <2> QED
    BY <2>1, RecordRests, StaysAccepted
<1>2. CASE record.buffer # {}
  <2> DEFINE c == [at |-> "called", batch |-> record.buffer]
  <2>1. /\ record' = [record EXCEPT !.state = "processing", !.buffer = {}, !.late = {}, !.nonce = @ + 1]
        /\ chat' = Recovery!Set(chat, p, c) /\ call' = call
    BY <1>2 DEF Recovery!Flush
  <2>a. record \in StoredRecords /\ record.nonce + 1 \in Nat
    BY DEF StoredRecords
  <2>2. record' \in StoredRecords /\ LateIsNotBuffered(record')
    BY <2>1, <2>a DEF StoredRecords, LateIsNotBuffered
  <2>3. c \in ChatsOf
    BY DEF ChatsOf, StoredRecords
  <2>4. chat' \in [Processes -> ChatsOf]
    BY <2>1, <2>3, ChatSet
  <2>5. chat'[p].batch = record.buffer
    BY <2>1 DEF Recovery!Set
  <2>6. StoredIn(record) \subseteq chat'[p].batch
    BY <1>2, <2>5 DEF LateIsNotBuffered, StoredIn
  <2>7. Recovery!StoredStays
    BY <2>6 DEF Recovery!StoredStays, Recovery!Accepted, StoredIn
  <2> QED
    BY <2>1, <2>2, <2>4, <2>7 DEF StoredStep
<1> QED
  BY <1>1, <1>2

LEMMA ChatEndStores ==
  ASSUME StoredInv, NEW p \in Processes, Recovery!ChatEnds(p, record)
  PROVE  StoredStep
<1> USE DEF StoredInv, StoredTypeOK
<1>1. CASE Recovery!ChatAnswers(p, record)
  <2> DEFINE c == [at |-> "attached", batch |-> {}]
  <2>1. /\ record' = [record EXCEPT !.turn = record.last + 1, !.last = @ + 1, !.cursor = 1,
                        !.state = "sending", !.awaiting = FALSE, !.attempt = 0, !.retryIn = 0, !.sent = FALSE]
        /\ chat' = Recovery!Set(chat, p, c) /\ call' = call
    BY <1>1 DEF Recovery!ChatAnswers
  <2>a. record \in StoredRecords /\ record.last + 1 \in Nat
    BY DEF StoredRecords
  <2>2. Keeps(record')
    BY <2>1, <2>a DEF Keeps, StoredRecords, LateIsNotBuffered, StoredIn
  <2>3. c \in ChatsOf
    BY DEF ChatsOf
  <2> QED
    BY <2>1, <2>2, <2>3, ChatSet, StaysAccepted
<1>2. CASE Recovery!ChatIsSilent(p, record)
  <2>1. record' = Recovery!Finalized(record) /\ chat' = Recovery!Set(chat, p, Recovery!NoChat) /\ call' = call
    BY <1>2 DEF Recovery!ChatIsSilent, Recovery!Finalize
  <2>2. Keeps(record')
    BY <2>1, FinalizedKeeps DEF Keeps
  <2> QED
    BY <2>1, <2>2, NoChatType, ChatSet, StaysAccepted
<1>3. CASE Recovery!ChatFails(p, record)
  <2>1. /\ record' = IF record.late # {}
                     THEN [record EXCEPT !.state = "buffering", !.awaiting = FALSE,
                                         !.buffer = @ \union record.late, !.late = {}]
                     ELSE [record EXCEPT !.state = "idle", !.awaiting = FALSE]
        /\ chat' = Recovery!Set(chat, p, Recovery!NoChat) /\ call' = call
    BY <1>3 DEF Recovery!ChatFails
  <2>2. Keeps(record')
    BY <2>1 DEF Keeps, StoredRecords, LateIsNotBuffered, StoredIn
  <2> QED
    BY <2>1, <2>2, NoChatType, ChatSet, StaysAccepted
<1>4. CASE Recovery!ChatAborted(p, record)
  <2>1. /\ record' = [record EXCEPT !.state = "buffering",
                                    !.buffer = @ \union chat[p].batch \union record.late, !.late = {}]
        /\ chat' = Recovery!Set(chat, p, Recovery!NoChat) /\ call' = call
    BY <1>4 DEF Recovery!ChatAborted
  <2>2. chat[p].batch \subseteq Inbounds
    BY DEF ChatsOf
  <2>3. Keeps(record')
    BY <2>1, <2>2 DEF Keeps, StoredRecords, LateIsNotBuffered, StoredIn
  <2> QED
    BY <2>1, <2>3, NoChatType, ChatSet, StaysAccepted
<1> QED
  BY <1>1, <1>2, <1>3, <1>4 DEF Recovery!ChatEnds

\* A call of one process moves on or ends.
LEMMA CallSet ==
  ASSUME StoredInv, NEW p, NEW c \in SendCalls, call' = Recovery!Set(call, p, c)
  PROVE  call' \in [Processes -> SendCalls]
BY DEF StoredInv, StoredTypeOK, Recovery!Set

LEMMA PhaseSet ==
  ASSUME StoredInv, NEW p \in Processes, NEW phase \in {"none", "called", "answered", "saved"},
         call' = [call EXCEPT ![p] = [call[p] EXCEPT !.phase = phase]]
  PROVE  call' \in [Processes -> SendCalls]
<1>1. call[p] \in SendCalls /\ call \in [Processes -> SendCalls]
  BY DEF StoredInv, StoredTypeOK
<1>2. [call[p] EXCEPT !.phase = phase] \in SendCalls
  BY <1>1 DEF SendCalls
<1> QED
  BY <1>1, <1>2

LEMMA SendStores ==
  ASSUME StoredInv, RecoveryAssumption, NEW p \in Processes,
         Recovery!Drive(p, record) \/ Recovery!SendReaches(p) \/ Recovery!SendEnds(p, record)
  PROVE  StoredStep
<1>0. record \in StoredRecords /\ LateIsNotBuffered(record) /\ chat \in [Processes -> ChatsOf]
      /\ call \in [Processes -> SendCalls] /\ call[p] \in SendCalls
  BY DEF StoredInv, StoredTypeOK
<1>1. CASE Recovery!Drive(p, record)
  <2>1. chat' = Recovery!Set(chat, p, Recovery!NoChat) /\ Recovery!SendNext(p, record)
    BY <1>1 DEF Recovery!Drive
  <2>2. Keeps(record') /\ call' \in [Processes -> SendCalls]
    BY <1>0, <2>1, SendNextKeeps DEF Keeps
  <2> QED
    BY <2>1, <2>2, NoChatType, ChatSet, StaysAccepted
<1>2. CASE Recovery!SendReaches(p)
  <2>1. record' = record /\ chat' = chat /\ call' = [call EXCEPT ![p] = [call[p] EXCEPT !.phase = "answered"]]
    BY <1>2 DEF Recovery!SendReaches
  <2> QED
    BY <1>0, <2>1, PhaseSet, RecordRests, StaysAccepted
<1>3. CASE Recovery!SendSaved(p, record)
  <2>1. /\ chat' = chat /\ call' = [call EXCEPT ![p] = [call[p] EXCEPT !.phase = "saved"]]
        /\ record' = IF Recovery!HasItem(record)
                     THEN [record EXCEPT !.sent = TRUE, !.attempt = 0, !.retryIn = 0] ELSE record
    BY <1>3 DEF Recovery!SendSaved
  <2>2. Keeps(record')
    BY <1>0, <2>1 DEF Keeps, StoredRecords, LateIsNotBuffered, StoredIn
  <2> QED
    BY <1>0, <2>1, <2>2, PhaseSet, StaysAccepted
<1>4. CASE Recovery!SendDone(p, record)
  <2>1. CASE Recovery!OnStatus
    <3>1. record' = [record EXCEPT !.awaiting = TRUE] /\ chat' = chat
          /\ call' = Recovery!Set(call, p, Recovery!NoCall)
      BY <1>4, <2>1 DEF Recovery!SendDone
    <3>2. Keeps(record')
      BY <1>0, <3>1 DEF Keeps, StoredRecords, LateIsNotBuffered, StoredIn
    <3> QED
      BY <1>0, <3>1, <3>2, NoCallType, CallSet, StaysAccepted
  <2>2. CASE ~Recovery!OnStatus
    <3>1. chat' = chat /\ Recovery!Advance(p, record)
      BY <1>4, <2>2 DEF Recovery!SendDone
    <3> QED
      BY <1>0, <3>1, AdvanceKeeps, StaysAccepted
  <2> QED
    BY <2>1, <2>2
<1>5. CASE Recovery!SendFailsTransiently(p, record)
  <2> DEFINE attempt == call[p].attempt + 1
  <2>1. /\ record' = record \/ record' = [record EXCEPT !.attempt = attempt, !.retryIn = RetryDelay]
        /\ chat' = chat /\ call' = Recovery!Set(call, p, Recovery!NoCall)
    BY <1>5 DEF Recovery!SendFailsTransiently
  <2>2. attempt \in Nat /\ RetryDelay \in Nat
    BY <1>0, RecoveryAssumption DEF SendCalls, Recovery!TimesAssumption
  <2> HIDE DEF attempt
  <2>3. Keeps(record')
    BY <1>0, <2>1, <2>2 DEF Keeps, StoredRecords, LateIsNotBuffered, StoredIn
  <2> QED
    BY <1>0, <2>1, <2>3, NoCallType, CallSet, StaysAccepted
<1>6. CASE Recovery!SendSkipped(p, record)
  <2>1. chat' = chat /\ Recovery!Advance(p, record)
    BY <1>6 DEF Recovery!SendSkipped
  <2> QED
    BY <1>0, <2>1, AdvanceKeeps, StaysAccepted
<1> QED
  BY <1>1, <1>2, <1>3, <1>4, <1>5, <1>6 DEF Recovery!SendEnds

LEMMA TimerStores ==
  ASSUME StoredInv, NEW p \in Processes,
         Recovery!RetryFires(p, record) \/ Recovery!DeliveryTimesOut(p, record) \/ Recovery!StatusArrives(p, record)
  PROVE  StoredStep
<1>0. record \in StoredRecords /\ chat \in [Processes -> ChatsOf] /\ call \in [Processes -> SendCalls]
  BY DEF StoredInv, StoredTypeOK
<1>1. CASE Recovery!RetryFires(p, record)
  <2> DEFINE c == [item |-> Recovery!Item(record), attempt |-> record.attempt, phase |-> "called"]
  <2>1. /\ record' = record /\ chat' = chat
        /\ call' = Recovery!Set(call, p, c) \/ call' = call
    BY <1>1 DEF Recovery!RetryFires
  <2>2. c \in SendCalls
    BY <1>0 DEF SendCalls, StoredRecords, Recovery!Item
  <2> HIDE DEF c
  <2> QED
    BY <1>0, <2>1, <2>2, CallSet, RecordRests, StaysAccepted
<1>2. CASE Recovery!DeliveryTimesOut(p, record)
  <2>1. chat' = chat /\ (Recovery!Advance(p, record) \/ (record' = record /\ call' = call))
    BY <1>2 DEF Recovery!DeliveryTimesOut
  <2> QED
    BY <1>0, <2>1, AdvanceKeeps, RecordRests, StaysAccepted
<1>3. CASE Recovery!StatusArrives(p, record)
  <2>1. chat' = chat /\ Recovery!Advance(p, record)
    BY <1>3 DEF Recovery!StatusArrives
  <2> QED
    BY <1>0, <2>1, AdvanceKeeps, StaysAccepted
<1> QED
  BY <1>1, <1>2, <1>3

LEMMA RestartStores ==
  ASSUME StoredInv, NEW p \in Processes,
         \/ Recovery!Load(p) \/ Recovery!Crash(p) \/ Recovery!Boot(p)
         \/ Recovery!Recover(p, record) \/ Recovery!DieAfterClaim(p, record)
  PROVE  StoredStep
<1>0. record \in StoredRecords /\ LateIsNotBuffered(record)
      /\ chat \in [Processes -> ChatsOf] /\ call \in [Processes -> SendCalls]
  BY DEF StoredInv, StoredTypeOK
<1>1. CASE Recovery!Crash(p) \/ Recovery!DieAfterClaim(p, record)
  <2>1. /\ record' = record /\ chat' = Recovery!Set(chat, p, Recovery!NoChat)
        /\ call' = Recovery!Set(call, p, Recovery!NoCall)
    BY <1>1 DEF Recovery!Crash, Recovery!DieAfterClaim, Recovery!Lost
  <2> QED
    BY <1>0, <2>1, NoChatType, NoCallType, ChatSet, CallSet, RecordRests, StaysAccepted
<1>2. CASE Recovery!Load(p) \/ Recovery!Boot(p)
  <2>1. record' = record /\ chat' = chat /\ call' = call
    BY <1>2 DEF Recovery!Load, Recovery!Boot
  <2> QED
    BY <1>0, <2>1, RecordRests, StaysAccepted
<1>3. CASE Recovery!Recover(p, record)
  <2> DEFINE r == Recovery!Rebuffered(record, {})
  <2>1. /\ chat' = chat /\ call' = call
        /\ \/ record' = record
           \/ record' = [r EXCEPT !.state = IF record.late = {} THEN "idle" ELSE "buffering"]
    BY <1>3 DEF Recovery!Recover, Recovery!Recovered
  <2>a. {} \in SUBSET Inbounds /\ StoredIn(record) \union {} = StoredIn(record)
    OBVIOUS
  <2>2. r \in StoredRecords /\ r.buffer = StoredIn(record) /\ r.late = {}
    BY <1>0, <2>a, RebufferedKeeps
  <2> HIDE DEF r
  <2>3. ASSUME record' = [r EXCEPT !.state = IF record.late = {} THEN "idle" ELSE "buffering"]
        PROVE  Keeps(record')
    BY <2>2, <2>3 DEF Keeps, StoredRecords, LateIsNotBuffered, StoredIn
  <2>4. Keeps(record')
    BY <2>1, <2>3, RecordRests
  <2> QED
    BY <1>0, <2>1, <2>4, StaysAccepted
<1> QED
  BY <1>1, <1>2, <1>3

LEMMA TickStores == StoredInv /\ Recovery!Tick => StoredStep
<1> SUFFICES ASSUME StoredInv, Recovery!Tick PROVE StoredStep
  OBVIOUS
<1>0. record \in StoredRecords /\ LateIsNotBuffered(record)
      /\ chat \in [Processes -> ChatsOf] /\ call \in [Processes -> SendCalls]
  BY DEF StoredInv, StoredTypeOK
<1>1. Recovery!Less(record.retryIn) \in Nat
  BY <1>0 DEF StoredRecords, Recovery!Less
<1>2. record' = [record EXCEPT !.retryIn = Recovery!Less(record.retryIn)] /\ chat' = chat /\ call' = call
  BY DEF Recovery!Tick
<1>3. Keeps(record')
  BY <1>0, <1>1, <1>2 DEF Keeps, StoredRecords, LateIsNotBuffered, StoredIn
<1> QED
  BY <1>0, <1>2, <1>3, StaysAccepted

LEMMA StoredInit == RecoveryAssumption /\ Recovery!Init => StoredInv
BY NoChatType, NoCallType DEF Recovery!Init, StoredInv, StoredTypeOK, StoredRecords, LateIsNotBuffered

\* Until a replica saves the record between another's load and save.
StoredUntil == ReadingInv /\ (~overtaken => StoredInv)

LEMMA StoredUntilStep ==
  ASSUME RecoveryAssumption, StoredUntil, [PartsNext]_<<part, vars, recoveryVars, schedulerVars>>
  PROVE  StoredUntil' /\ [Recovery!StoredStays]_recoveryVars
<1>1. CASE Recovery!Next
  <2>1. ReadingInv' /\ (overtaken => overtaken') /\ (Recovery!OneReplica => ~overtaken')
    <3>1. deployment' = deployment
      BY <1>1, DeploymentStays
    <3> QED
      BY <1>1, <3>1, ReadingStep DEF StoredUntil, ReadingInv, Recovery!OneReplica, Recovery!Replicas
  <2>2. CASE ~overtaken'
    <3>1. StoredInv /\ StepNow
      BY <1>1, <2>1, <2>2, ReadsTheRecord DEF StoredUntil
    <3>2. StoredStep
      BY <3>1, InboundStores, FlushStores, ChatEndStores, SendStores, TimerStores, RestartStores, TickStores
      DEF StepNow, Recovery!Handles
    <3> QED
      BY <2>1, <3>2 DEF StoredStep, StoredUntil
  <2>3. CASE overtaken'
    BY <2>1, <2>3 DEF StoredUntil, Recovery!StoredStays
  <2> QED
    BY <2>2, <2>3
<1>2. CASE UNCHANGED recoveryVars
  BY <1>2 DEF recoveryVars, StoredUntil, ReadingInv, Recovery!OneReplica, Recovery!Replicas, StoredInv,
    StoredTypeOK, LateIsNotBuffered
<1> QED
  BY <1>1, <1>2 DEF PartsNext, ReportStatuses, RunAndRestart, ScheduleFlushes

LEMMA StoredUntilInit == RecoveryAssumption /\ Recovery!Init => StoredUntil
BY StoredInit DEF Recovery!Init, StoredUntil, ReadingInv

\* A message that waits in the stored record survives crashes, boots and recovery:
\* it leaves for a batch only, and a batch for the settled turns.  With one replica
\* always; with any number of them until one has saved the record between another's
\* load and save, for the lock is that of a process (recoverPendingRetries and every
\* handler of the agent).
THEOREM StoredSurvives == PartsSpec => StoredIsNotLost
<1>1. PartsInit => StoredUntil
  BY RecoveryAssumption, StoredUntilInit DEF PartsInit
<1>2. StoredUntil /\ [PartsNext]_<<part, vars, recoveryVars, schedulerVars>> =>
        StoredUntil' /\ [Recovery!StoredStays]_recoveryVars
  BY RecoveryAssumption, StoredUntilStep
<1> QED
  BY <1>1, <1>2, PTL DEF PartsSpec, StoredIsNotLost

-----------------------------------------------------------------------------
(***************************************************************************)
(* No item is sent twice (SentOnce), for any replicas that are restarted   *)
(* together, with one of them or with one message, and any number of       *)
(* crashes: at most one process has the item at the cursor in its hands,   *)
(* in a call, before the drive of a turn, or by a retry timer, and as long *)
(* as boot scans are under way a retry timer stands under a claim.         *)
(***************************************************************************)

TimerRecords == [item: Nat \X Nat, attempt: Nat, left: Nat]

RestartTypeOK ==
  /\ deployment \in Recovery!AgentDeployments
  /\ claims \in [Recovery!Tokens -> Nat]
  /\ retry \in [Processes -> TimerRecords] /\ delivery \in [Processes -> TimerRecords]
  /\ sends \in [Recovery!AllItems -> Nat]
  /\ settled \subseteq Inbounds

Sending == Recovery!HasItem(record)

Cur == Recovery!Item(record)

Busy(p) == call[p].phase # "none"

Driving(p) == chat[p].at = "attached" /\ Sending

Retrying(p) == Sending /\ retry[p].item = Cur

Hand(p) == Busy(p) \/ Driving(p) \/ Retrying(p)

Unsent == sends[Cur] = 0 \/ Cur \in cut

TimersOff == \A p \in Processes : retry[p] = Recovery!Off /\ delivery[p] = Recovery!Off

\* Where the record stands in its turn.
RecordOK ==
  /\ record.state = "sending" <=> Sending
  /\ record.awaiting => record.sent
  /\ record.sent => Sending /\ record.attempt = 0
  /\ record.turn \in {0, record.last}
  /\ record.cursor >= 1 /\ record.attempt <= RetryCap

\* A timer is of an item that the cursor has reached.
Passed(t) ==
  \/ t = Recovery!Off
  \/ /\ record.turn # 0 /\ t.item[1] = record.turn
     /\ t.item[2] \in 1 .. Items /\ t.item[2] <= record.cursor

TimersPassed == \A p \in Processes : Passed(retry[p]) /\ Passed(delivery[p])

TimersOK ==
  /\ TimersPassed
  /\ \A p \in Processes :
       /\ Retrying(p) => record.attempt = retry[p].attempt /\ record.attempt > 0
       /\ Sending /\ delivery[p].item = Cur => record.awaiting
  /\ Recovery!OneReplica /\ ~Sending => TimersOff

CallsOK ==
  \A p \in Processes :
    \/ call[p] = Recovery!NoCall
    \/ /\ Busy(p) /\ Sending /\ call[p].item = Cur
       /\ record.sent <=> call[p].phase = "saved"

HandsOK ==
  /\ \A p, q \in Processes : Hand(p) /\ Hand(q) => p = q
  /\ \A p \in Processes :
       /\ Busy(p) => ~Driving(p) /\ ~Retrying(p)
       /\ Driving(p) => ~Retrying(p) /\ record.attempt = 0 /\ ~record.sent
       /\ record.awaiting => ~Hand(p)

OnceSent == \A i \in Recovery!AllItems : sends[i] > 1 => i \in cut

FreshOK ==
  /\ \A i \in Recovery!AllItems :
       (i[1] > record.last \/ (i[1] = record.turn /\ i[2] > record.cursor)) => sends[i] = 0
  /\ \A p \in Processes : Driving(p) \/ Retrying(p) \/ call[p].phase = "called" => Unsent
  /\ (Sending /\ record.attempt > 0 /\ ~record.sent /\ \A p \in Processes : ~Busy(p)) => Unsent
  /\ OnceSent

HandInv == RecordOK /\ TimersOK /\ CallsOK /\ HandsOK /\ FreshOK

\* A process that is down has nothing.
PlacesOK ==
  /\ up \subseteq Recovery!Replicas /\ booting \subseteq up
  /\ \A p \in Processes \ up :
       /\ chat[p] = Recovery!NoChat /\ call[p] = Recovery!NoCall
       /\ retry[p] = Recovery!Off /\ delivery[p] = Recovery!Off

\* Boot scans begin when all are down.
ScansOK ==
  booting # {} =>
    \A p \in Processes :
      /\ chat[p] = Recovery!NoChat /\ call[p] = Recovery!NoCall
      /\ Retrying(p) => claims[Recovery!Token(record)] > 0

\* A batch is of a record in processing, and one process has it.
BatchesOK ==
  /\ record.buffer # {} <=> record.state = "buffering"
  /\ \A p \in Processes :
       /\ chat[p].batch # {} <=> chat[p].at \in {"called", "aborted"}
       /\ chat[p].batch # {} => record.state = "processing"
  /\ \A p, q \in Processes : chat[p].batch # {} /\ chat[q].batch # {} => p = q

\* A message is in one place, so that turns are no more than messages.
SettledOK ==
  /\ StoredIn(record) \intersect settled = {}
  /\ \A p \in Processes : chat[p].batch \intersect (StoredIn(record) \union settled) = {}
  /\ record.last <= Cardinality(settled)

\* The only message has one turn.
OneTurn ==
  \/ Recovery!OneReplica
  \/ /\ Recovery!Accepted \subseteq deployment.inbound
     /\ record.state # "idle" => deployment.inbound \subseteq Recovery!Accepted
     /\ record.late = {}
     /\ record.state = "processing" => record.last = 0
     /\ \A p \in Processes : chat[p].at = "attached" => record.last # 0

BookInv == PlacesOK /\ BatchesOK /\ SettledOK /\ OneTurn

TogetherInv ==
  Recovery!Quiet /\ OneAtATime => HandInv /\ BookInv /\ ScansOK

SentInv == ReadingInv /\ (~overtaken => StoredInv /\ RestartTypeOK /\ TogetherInv)

\* One moment of a restart of all replicas together.
Now ==
  /\ Recovery!Quiet /\ OneAtATime /\ deployment' = deployment /\ ~overtaken'
  /\ StoredInv /\ RestartTypeOK /\ HandInv /\ BookInv /\ ScansOK

LEMMA InboundsAreFinite == IsFiniteSet(Inbounds) /\ Recovery!Cardinality(Inbounds) = Cardinality(Inbounds)
<1>1. IsFiniteSet(Inbounds)
  BY RecoveryAssumption DEF Recovery!MessagesAssumption, Recovery!IsFiniteSet, IsFiniteSet
<1>2. Recovery!Cardinality(Inbounds) = Cardinality(Inbounds)
  BY DEF Recovery!Cardinality, Cardinality
<1> QED
  BY <1>1, <1>2

LEMMA NowTypes ==
  ASSUME Now
  PROVE  /\ record \in StoredRecords
         /\ chat \in [Processes -> ChatsOf] /\ call \in [Processes -> SendCalls]
         /\ retry \in [Processes -> TimerRecords] /\ delivery \in [Processes -> TimerRecords]
         /\ claims \in [Recovery!Tokens -> Nat] /\ sends \in [Recovery!AllItems -> Nat]
         /\ Recovery!Replicas \subseteq Processes /\ up \subseteq Processes
         /\ IsFiniteSet(settled) /\ Cardinality(settled) \in Nat
         /\ Items \in Nat \ {0} /\ RetryCap \in Nat
<1>1. IsFiniteSet(Inbounds) /\ Items \in Nat \ {0} /\ RetryCap \in Nat
  BY RecoveryAssumption, InboundsAreFinite DEF Recovery!TimesAssumption
<1>2. IsFiniteSet(settled)
  BY <1>1, FS_Subset DEF Now, RestartTypeOK
<1>3. Cardinality(settled) \in Nat
  BY <1>2, FS_CardinalityType
<1>4. Recovery!Replicas \subseteq Processes /\ up \subseteq Processes
  BY DEF Now, RestartTypeOK, BookInv, PlacesOK, Recovery!AgentDeployments, Recovery!Replicas
<1> QED
  BY <1>1, <1>2, <1>3, <1>4 DEF Now, RestartTypeOK, StoredInv, StoredTypeOK

LEMMA RecordFields ==
  ASSUME NEW r \in StoredRecords
  PROVE  /\ r.turn \in Nat /\ r.cursor \in Nat /\ r.last \in Nat /\ r.attempt \in Nat /\ r.nonce \in Nat
         /\ r.retryIn \in Nat /\ r.sent \in BOOLEAN /\ r.awaiting \in BOOLEAN
         /\ r.buffer \subseteq Inbounds /\ r.late \subseteq Inbounds
         /\ r.state \in {"idle", "buffering", "processing", "sending"}
BY DEF StoredRecords

\* Turns are no more than messages.
LEMMA CurIsItem ==
  ASSUME record \in StoredRecords, settled \subseteq Inbounds,
         record.last <= Cardinality(settled), record.turn \in {0, record.last}, record.cursor >= 1, Sending
  PROVE  Cur \in Recovery!AllItems
<1>1. record.turn \in Nat /\ record.cursor \in Nat /\ record.last \in Nat
  BY RecordFields
<1>2. IsFiniteSet(Inbounds) /\ Items \in Nat
  BY RecoveryAssumption, InboundsAreFinite DEF Recovery!TimesAssumption
<1>3. /\ Cardinality(settled) \in Nat /\ Cardinality(Inbounds) \in Nat
      /\ Cardinality(settled) <= Cardinality(Inbounds)
  BY <1>2, FS_Subset, FS_CardinalityType
<1>4. record.turn \in 1 .. Cardinality(Inbounds) /\ record.cursor \in 1 .. Items
  BY <1>1, <1>2, <1>3 DEF Sending, Recovery!HasItem
<1> QED
  BY <1>4, InboundsAreFinite DEF Cur, Recovery!Item, Recovery!AllItems, Recovery!Turns

LEMMA OffIsNoItem ==
  /\ Recovery!Off.item = Recovery!None /\ Recovery!NoCall.phase = "none"
  /\ Recovery!NoChat.at = "none" /\ Recovery!NoChat.batch = {}
  /\ Sending => Recovery!Off.item # Cur
<1>1. Sending => Cur[1] # 0
  BY DEF Sending, Cur, Recovery!HasItem, Recovery!Item
<1>2. Recovery!None[1] = 0
  BY DEF Recovery!None
<1>3. Recovery!Off.item = Recovery!None /\ Recovery!NoCall.phase = "none"
  BY DEF Recovery!Off, Recovery!NoCall
<1> QED
  BY <1>1, <1>2, <1>3 DEF Recovery!NoChat

-----------------------------------------------------------------------------
(* Steps that move no hand *)

SamePlace ==
  /\ record'.turn = record.turn /\ record'.cursor = record.cursor /\ record'.last = record.last
  /\ record'.attempt = record.attempt /\ record'.sent = record.sent
  /\ record'.awaiting = record.awaiting
  /\ record'.state = "sending" <=> record.state = "sending"

\* The same timers, or fewer.
SameOrOff(new, old) ==
  \A p \in Processes :
    \/ new[p] = Recovery!Off
    \/ new[p].item = old[p].item /\ new[p].attempt = old[p].attempt /\ old[p] # Recovery!Off

\* The same calls, or one is cut.
SameOrCut ==
  \A p \in Processes :
    \/ call'[p] = call[p]
    \/ /\ call'[p] = Recovery!NoCall
       /\ Busy(p) /\ call[p].phase # "saved" => call[p].item \in cut'

LEMMA HandsRest ==
  ASSUME HandInv, SamePlace, SameOrCut, deployment' = deployment,
         \A p \in Processes : chat'[p].at = "attached" => chat[p].at = "attached",
         SameOrOff(retry', retry), SameOrOff(delivery', delivery),
         sends' = sends, cut \subseteq cut'
  PROVE  HandInv'
<1> USE DEF HandInv
<1>1. Sending' = Sending /\ Cur' = Cur
  BY DEF SamePlace, Sending, Cur, Recovery!HasItem, Recovery!Item
<1>2. RecordOK'
  BY <1>1 DEF RecordOK, SamePlace
<1>0. /\ \A p \in Processes : Busy(p)' => Busy(p) /\ call'[p] = call[p]
      /\ \A p \in Processes : Driving(p)' => Driving(p)
  BY <1>1, OffIsNoItem DEF SameOrCut, Busy, Driving
<1>3. \A p \in Processes : Retrying(p)' => Retrying(p) /\ retry'[p].attempt = retry[p].attempt
  BY <1>1, OffIsNoItem DEF Retrying, SameOrOff
<1>4. TimersOK'
  <2>1. TimersPassed'
    BY DEF TimersOK, TimersPassed, Passed, SameOrOff, SamePlace
  <2>2. ASSUME NEW p \in Processes
        PROVE  Retrying(p)' => record'.attempt = retry'[p].attempt /\ record'.attempt > 0
    BY <1>3 DEF TimersOK, SamePlace
  <2>3. ASSUME NEW p \in Processes PROVE (Sending /\ delivery[p].item = Cur)' => record'.awaiting
    BY <1>1, OffIsNoItem DEF TimersOK, SameOrOff, SamePlace
  <2>4. (Recovery!OneReplica /\ ~Sending => TimersOff)'
    BY <1>1 DEF TimersOK, TimersOff, SameOrOff, Recovery!OneReplica, Recovery!Replicas
  <2> QED
    BY <2>1, <2>2, <2>3, <2>4 DEF TimersOK
<1>5. CallsOK'
  BY <1>0, <1>1 DEF CallsOK, SameOrCut, Busy, SamePlace
<1>6. \A p \in Processes : Hand(p)' => Hand(p)
  BY <1>0, <1>3 DEF Hand
<1>7. HandsOK'
  BY <1>0, <1>3, <1>6 DEF HandsOK, SamePlace
<1>8. FreshOK'
  <2>1. Unsent => Unsent'
    BY <1>1 DEF Unsent
  <2>2. \A i \in Recovery!AllItems :
          (i[1] > record'.last \/ (i[1] = record'.turn /\ i[2] > record'.cursor)) => sends'[i] = 0
    BY DEF FreshOK, SamePlace
  <2>3. ASSUME NEW p \in Processes, (Driving(p) \/ Retrying(p) \/ call[p].phase = "called")'
        PROVE  Unsent'
    BY <1>0, <1>3, <2>1, <2>3 DEF FreshOK, Busy
  <2>4. ASSUME (Sending /\ record.attempt > 0 /\ ~record.sent /\ \A p \in Processes : ~Busy(p))'
        PROVE  Unsent'
    <3>1. CASE \A p \in Processes : ~Busy(p)
      BY <1>1, <2>1, <2>4, <3>1 DEF FreshOK, SamePlace
    <3>2. CASE \E p \in Processes : Busy(p)
      <4>1. PICK p \in Processes : Busy(p)
        BY <3>2
      <4>3. call[p].item = Cur /\ call[p].phase # "saved"
        BY <2>4, <4>1, OffIsNoItem DEF CallsOK, Busy, SamePlace
      <4>2. call[p].item \in cut'
        BY <2>4, <4>1, <4>3 DEF SameOrCut, Busy
      <4> QED
        BY <1>1, <4>2, <4>3 DEF Unsent
    <3> QED
      BY <3>1, <3>2
  <2>5. OnceSent'
    BY DEF FreshOK, OnceSent
  <2> QED
    BY <2>2, <2>3, <2>4, <2>5 DEF FreshOK
<1> QED
  BY <1>2, <1>4, <1>5, <1>7, <1>8

\* The turn is over and nothing of it is left.
LEMMA HandsCleared ==
  ASSUME HandInv, deployment' = deployment, Recovery!OneReplica => TimersOff',
         TimersPassed',
         record'.cursor \in Nat \ {0}, record.cursor \in Nat, record.last \in Nat,
         record'.turn = 0 \/ (record'.turn = record.turn /\ record'.cursor > Items),
         record'.last = record.last, record'.attempt = 0,
         record'.sent = FALSE, record'.awaiting = FALSE, record'.state # "sending",
         \A p \in Processes : call'[p] = Recovery!NoCall,
         sends' = sends, cut' = cut
  PROVE  HandInv'
<1> USE DEF HandInv
<1>0. Items \in Nat \ {0} /\ RetryCap \in Nat
  BY RecoveryAssumption DEF Recovery!TimesAssumption
<1>1. ~Sending'
  BY <1>0 DEF Sending, Recovery!HasItem
<1>2. RecordOK'
  BY <1>0, <1>1 DEF RecordOK
<1>3. \A p \in Processes : ~Hand(p)' /\ ~Busy(p)' /\ ~Driving(p)' /\ ~Retrying(p)' /\ call'[p].phase # "called"
  BY <1>1, OffIsNoItem DEF Hand, Busy, Driving, Retrying
<1>4. TimersOK' /\ CallsOK' /\ HandsOK'
  BY <1>1, <1>2, <1>3 DEF TimersOK, CallsOK, HandsOK, RecordOK, Recovery!OneReplica, Recovery!Replicas
<1>5. FreshOK'
  <2>1. ASSUME NEW i \in Recovery!AllItems,
               i[1] > record'.last \/ (i[1] = record'.turn /\ i[2] > record'.cursor)
        PROVE  sends'[i] = 0
    <3>1. i[1] \in Nat \ {0} /\ i[2] \in 1 .. Items
      BY DEF Recovery!AllItems, Recovery!Turns
    <3> QED
      BY <1>0, <2>1, <3>1 DEF FreshOK
  <2>2. OnceSent'
    BY DEF FreshOK, OnceSent
  <2> QED
    BY <1>1, <1>3, <2>1, <2>2 DEF FreshOK
<1> QED
  BY <1>2, <1>4, <1>5

\* The other processes of a deployment of one are down.
LEMMA OthersEmpty ==
  ASSUME Now, Recovery!OneReplica, NEW p \in up, NEW q \in Processes, q # p
  PROVE  /\ chat[q] = Recovery!NoChat /\ call[q] = Recovery!NoCall
         /\ retry[q] = Recovery!Off /\ delivery[q] = Recovery!Off
BY DEF Now, BookInv, PlacesOK, Recovery!OneReplica

LEMMA ResetAlone ==
  ASSUME Now, Recovery!OneReplica, NEW p \in up,
         retry' = Recovery!Set(retry, p, Recovery!Off), delivery' = Recovery!Set(delivery, p, Recovery!Off)
  PROVE  TimersOff'
<1>1. retry \in [Processes -> TimerRecords] /\ delivery \in [Processes -> TimerRecords]
  BY NowTypes
<1>2. ASSUME NEW q \in Processes PROVE retry'[q] = Recovery!Off /\ delivery'[q] = Recovery!Off
  BY <1>1, OthersEmpty DEF Recovery!Set
<1> QED
  BY <1>2 DEF TimersOff

\* With several replicas there is one message, and it has one turn.
LEMMA OneMessage ==
  ASSUME Now, ~Recovery!OneReplica
  PROVE  /\ \A m, n \in deployment.inbound : m = n
         /\ Recovery!Accepted \subseteq deployment.inbound
         /\ record.state # "idle" => deployment.inbound \subseteq Recovery!Accepted
         /\ record.late = {}
         /\ record.state = "processing" => record.last = 0
         /\ \A p \in Processes : chat[p].at = "attached" => record.last # 0
BY DEF Now, OneAtATime, Recovery!OneReplica, BookInv, OneTurn, Recovery!Replicas

LEMMA NoTurnNoTimers ==
  ASSUME Now, record.turn = 0 \/ (Recovery!OneReplica /\ ~Sending)
  PROVE  TimersOff
BY DEF Now, HandInv, TimersOK, TimersPassed, Passed, TimersOff

LEMMA NoSendingNoCalls ==
  ASSUME Now, ~Sending
  PROVE  /\ \A q \in Processes : call[q] = Recovery!NoCall
         /\ record.state # "sending" /\ ~record.awaiting /\ ~record.sent
BY DEF Now, HandInv, CallsOK, RecordOK

\* What finalizeTurn leaves of a record.
LEMMA FinalizedPlace ==
  ASSUME NEW r \in StoredRecords
  PROVE  /\ Recovery!Finalized(r).last = r.last /\ Recovery!Finalized(r).awaiting = FALSE
         /\ Recovery!Finalized(r).state # "sending"
         /\ r.late # {} => /\ Recovery!Finalized(r).turn = 0 /\ Recovery!Finalized(r).cursor = 1
                           /\ Recovery!Finalized(r).attempt = 0 /\ Recovery!Finalized(r).sent = FALSE
         /\ r.late = {} => /\ Recovery!Finalized(r).turn = r.turn
                           /\ Recovery!Finalized(r).cursor = r.cursor
                           /\ Recovery!Finalized(r).attempt = r.attempt
                           /\ Recovery!Finalized(r).sent = r.sent
<1>1. CASE r.late # {}
  BY <1>1 DEF Recovery!Finalized, Recovery!Rebuffered, StoredRecords
<1>2. CASE r.late = {} /\ r.state = "buffering" /\ r.buffer # {}
  <2>1. Recovery!Finalized(r) = [r EXCEPT !.awaiting = FALSE]
    BY <1>2 DEF Recovery!Finalized
  <2> QED
    BY <1>2, <2>1 DEF StoredRecords
<1>3. CASE r.late = {} /\ ~(r.state = "buffering" /\ r.buffer # {})
  <2>1. Recovery!Finalized(r) = [r EXCEPT !.state = "idle", !.awaiting = FALSE]
    BY <1>3 DEF Recovery!Finalized
  <2> QED
    BY <1>3, <2>1 DEF StoredRecords
<1> QED
  BY <1>1, <1>2, <1>3

\* A turn without an item left to send is finalized.
LEMMA EndRests ==
  ASSUME Now, ~Sending, NEW p \in up, record' = Recovery!Finalized(record),
         call' = call \/ call' = Recovery!Set(call, p, Recovery!NoCall),
         retry' = Recovery!Set(retry, p, Recovery!Off), delivery' = Recovery!Set(delivery, p, Recovery!Off),
         \A q \in Processes : chat'[q].at = "attached" => chat[q].at = "attached",
         sends' = sends, cut' = cut
  PROVE  HandInv'
<1>0. /\ record \in StoredRecords /\ HandInv /\ deployment' = deployment /\ Items \in Nat \ {0}
      /\ call \in [Processes -> SendCalls] /\ p \in Processes
      /\ retry \in [Processes -> TimerRecords] /\ delivery \in [Processes -> TimerRecords]
  BY NowTypes DEF Now
<1>1. \A q \in Processes : call[q] = Recovery!NoCall /\ call'[q] = Recovery!NoCall
  BY <1>0, NoSendingNoCalls DEF Recovery!Set
<1>2. CASE record.late # {}
  <2>1. TimersOff'
    BY <1>2, OneMessage, ResetAlone
  <2>2. TimersPassed'
    BY <2>1 DEF TimersOff, TimersPassed, Passed
  <2>3. /\ record'.turn = 0 /\ record'.cursor = 1 /\ record'.last = record.last /\ record'.attempt = 0
        /\ record'.sent = FALSE /\ record'.awaiting = FALSE /\ record'.state # "sending"
        /\ record.cursor \in Nat /\ record.last \in Nat
    BY <1>0, <1>2, FinalizedPlace, RecordFields
  <2>4. Recovery!OneReplica => TimersOff'
    BY <2>1
  <2>5. \A q \in Processes : call'[q] = Recovery!NoCall
    BY <1>1
  <2>6. record'.cursor \in Nat \ {0}
    BY <2>3
  <2> QED
    BY <1>0, <2>2, <2>3, <2>4, <2>5, <2>6, HandsCleared
<1>3. CASE record.late = {}
  <2>1. SamePlace
    BY <1>0, <1>3, FinalizedPlace, NoSendingNoCalls, RecordFields DEF SamePlace
  <2>2. SameOrCut
    BY <1>1 DEF SameOrCut
  <2>3. \A q \in Processes :
          /\ retry'[q] = Recovery!Off \/ retry'[q] = retry[q]
          /\ delivery'[q] = Recovery!Off \/ delivery'[q] = delivery[q]
    BY <1>0 DEF Recovery!Set
  <2>4. SameOrOff(retry', retry) /\ SameOrOff(delivery', delivery)
    BY <2>3 DEF SameOrOff
  <2> QED
    BY <1>0, <2>1, <2>2, <2>4, HandsRest
<1> QED
  BY <1>2, <1>3

-----------------------------------------------------------------------------
(* Steps that move the hand of a process *)

\* A process takes the item at the cursor, which nobody has.
LEMMA HandsTaken ==
  ASSUME HandInv, RecordOK', deployment' = deployment, NEW p \in Processes,
         call \in [Processes -> SendCalls], Sending', ~record.sent',
         call' = Recovery!Set(call, p, [item |-> Cur', attempt |-> record'.attempt, phase |-> "called"]),
         \A q \in Processes : ~Driving(q)' /\ ~Retrying(q)',
         \A q \in Processes : q # p => call[q] = Recovery!NoCall,
         TimersPassed', \A q \in Processes : (Sending /\ delivery[q].item = Cur)' => record'.awaiting,
         \A i \in Recovery!AllItems :
           (i[1] > record'.last \/ (i[1] = record'.turn /\ i[2] > record'.cursor)) => sends[i] = 0,
         sends[Cur'] = 0 \/ Cur' \in cut, sends' = sends, cut' = cut
  PROVE  HandInv'
<1>1. /\ call'[p].item = Cur' /\ call'[p].phase = "called"
      /\ \A q \in Processes : q # p => call'[q] = Recovery!NoCall
  BY DEF Recovery!Set
<1>2. \A q \in Processes : Busy(q)' => q = p
  BY <1>1, OffIsNoItem DEF Busy
<1>3. Busy(p)' /\ ~record'.awaiting
  BY <1>1 DEF Busy, RecordOK
<1>4. CallsOK'
  BY <1>1, <1>3 DEF CallsOK
<1>5. HandsOK'
  BY <1>2, <1>3 DEF HandsOK, Hand
<1>6. TimersOK'
  BY DEF TimersOK
<1>7. FreshOK'
  <2>1. Unsent'
    BY DEF Unsent
  <2>2. OnceSent'
    BY DEF HandInv, FreshOK, OnceSent
  <2> QED
    BY <2>1, <2>2 DEF FreshOK
<1> QED
  BY <1>4, <1>5, <1>6, <1>7 DEF HandInv

\* advanceAndContinue, where nobody but the process itself has the item.
LEMMA HandsAdvance ==
  ASSUME Now, NEW p \in up, Sending, Recovery!Advance(p, record),
         \A q \in Processes : Hand(q) => q = p, ~Driving(p),
         chat' = chat, sends' = sends, cut' = cut
  PROVE  HandInv'
<1> DEFINE r == [record EXCEPT !.cursor = IF Recovery!HasItem(record) THEN @ + 1 ELSE @, !.awaiting = FALSE,
                               !.attempt = 0, !.retryIn = 0, !.sent = FALSE]
<1>0. /\ record \in StoredRecords /\ HandInv /\ deployment' = deployment /\ Items \in Nat \ {0}
      /\ call \in [Processes -> SendCalls] /\ p \in Processes /\ RetryCap \in Nat
      /\ retry \in [Processes -> TimerRecords] /\ delivery \in [Processes -> TimerRecords]
      /\ settled \subseteq Inbounds /\ record.last <= Cardinality(settled)
  BY NowTypes DEF Now, RestartTypeOK, BookInv, SettledOK
<1>1. /\ record.cursor \in Nat /\ record.turn \in Nat /\ record.last \in Nat /\ record.turn # 0
      /\ record.cursor >= 1 /\ record.cursor <= Items /\ record.state = "sending"
      /\ record.turn \in {0, record.last} /\ record.cursor + 1 \in Nat
  BY <1>0, RecordFields DEF Sending, Recovery!HasItem, HandInv, RecordOK
<1>2. r \in StoredRecords
  BY <1>0, <1>1 DEF Sending, StoredRecords
<1>3. /\ r.cursor = record.cursor + 1 /\ r.turn = record.turn /\ r.last = record.last
      /\ r.attempt = 0 /\ r.sent = FALSE /\ r.awaiting = FALSE /\ r.state = "sending"
      /\ r.late = record.late
  BY <1>0, <1>1 DEF Sending, StoredRecords
<1>4. delivery' = Recovery!Set(delivery, p, Recovery!Off) /\ Recovery!SendNext(p, r)
  BY DEF Recovery!Advance
<1> HIDE DEF r
<1>5. \A q \in Processes : q # p => call[q] = Recovery!NoCall
  BY DEF Now, HandInv, CallsOK, Hand
<1>6. \A q \in Processes : delivery'[q] = Recovery!Off \/ delivery'[q] = delivery[q]
  BY <1>0, <1>4 DEF Recovery!Set
<1>7. /\ \A i \in Recovery!AllItems :
           (i[1] > record.last \/ (i[1] = record.turn /\ i[2] > record.cursor)) => sends[i] = 0
      /\ \A i \in Recovery!AllItems : i[2] \in Nat
  BY <1>0 DEF HandInv, FreshOK, Recovery!AllItems
<1>8. CASE Recovery!HasItem(r)
  <2>1. /\ record' = r /\ retry' = retry
        /\ call' = Recovery!Set(call, p, [item |-> Recovery!Item(r), attempt |-> r.attempt, phase |-> "called"])
    BY <1>4, <1>8 DEF Recovery!SendNext
  <2>2. Sending' /\ Cur' = Recovery!Item(r) /\ Cur'[2] = record.cursor + 1 /\ Cur'[1] = record.turn
    BY <1>3, <1>8, <2>1 DEF Sending, Cur, Recovery!Item
  <2>3. RecordOK'
    BY <1>0, <1>1, <1>3, <2>1, <2>2 DEF RecordOK
  <2>4. \A q \in Processes :
          /\ retry[q].item = Recovery!None \/ (retry[q].item[2] <= record.cursor /\ retry[q].item[2] \in Nat)
          /\ delivery[q].item = Recovery!None \/ (delivery[q].item[2] <= record.cursor /\ delivery[q].item[2] \in Nat)
    BY <1>0, OffIsNoItem DEF HandInv, TimersOK, TimersPassed, Passed
  <2>5. Cur' # Recovery!None
    BY <1>1, <2>2 DEF Recovery!None
  <2>6. \A q \in Processes : retry[q].item # Cur' /\ delivery[q].item # Cur'
    BY <1>1, <2>2, <2>4, <2>5
  <2>7. \A q \in Processes : ~Driving(q)' /\ ~Retrying(q)' /\ ~(Sending /\ delivery[q].item = Cur)'
    <3>1. \A q \in Processes : ~Driving(q)
      BY DEF Hand
    <3> QED
      BY <1>6, <2>1, <2>2, <2>5, <2>6, <3>1, OffIsNoItem DEF Driving, Retrying
  <2>8. TimersPassed'
    <3>1. ASSUME NEW t, Passed(t) PROVE Passed(t)'
      BY <1>1, <1>3, <2>1, <3>1 DEF Passed
    <3>2. Passed(Recovery!Off)'
      BY DEF Passed
    <3> QED
      BY <1>0, <1>6, <2>1, <3>1, <3>2 DEF HandInv, TimersOK, TimersPassed
  <2>9. Cur' \in Recovery!AllItems
    <3>1. /\ record' \in StoredRecords /\ record'.last <= Cardinality(settled)
          /\ record'.turn \in {0, record'.last} /\ record'.cursor >= 1
      BY <1>0, <1>1, <1>2, <1>3, <2>1
    <3>2. record'.turn \in 1 .. Cardinality(Inbounds) /\ record'.cursor \in 1 .. Items
      <4>1. /\ IsFiniteSet(Inbounds) /\ Cardinality(settled) \in Nat /\ Cardinality(Inbounds) \in Nat
            /\ Cardinality(settled) <= Cardinality(Inbounds)
        BY <1>0, InboundsAreFinite, FS_Subset, FS_CardinalityType
      <4> QED
        BY <1>0, <1>1, <1>3, <1>8, <2>1, <4>1 DEF Recovery!HasItem
    <3> QED
      BY <3>2, InboundsAreFinite DEF Cur, Recovery!Item, Recovery!AllItems, Recovery!Turns
  <2>10. sends[Cur'] = 0
    BY <1>1, <1>7, <2>2, <2>9
  <2>11. \A i \in Recovery!AllItems :
           (i[1] > record'.last \/ (i[1] = record'.turn /\ i[2] > record'.cursor)) => sends[i] = 0
    BY <1>1, <1>3, <1>7, <2>1
  <2>12. call' = Recovery!Set(call, p, [item |-> Cur', attempt |-> record'.attempt, phase |-> "called"])
    BY <2>1, <2>2
  <2>13. ~record.sent'
    BY <1>3, <2>1
  <2>14. \A q \in Processes : (Sending /\ delivery[q].item = Cur)' => record'.awaiting
    BY <2>7
  <2>15. \A q \in Processes : ~Driving(q)' /\ ~Retrying(q)'
    BY <2>7
  <2> QED
    BY <1>0, <1>5, <2>2, <2>3, <2>8, <2>10, <2>11, <2>12, <2>13, <2>14, <2>15, HandsTaken
<1>9. CASE ~Recovery!HasItem(r)
  <2>1. /\ record' = Recovery!Finalized(r) /\ retry' = Recovery!Set(retry, p, Recovery!Off)
        /\ call' = Recovery!Set(call, p, Recovery!NoCall)
    BY <1>4, <1>9 DEF Recovery!SendNext
  <2>2. r.cursor > Items
    BY <1>0, <1>1, <1>3, <1>9 DEF Recovery!HasItem
  <2>3. \A q \in Processes : call'[q] = Recovery!NoCall
    BY <1>0, <1>5, <2>1 DEF Recovery!Set
  <2>4. Recovery!OneReplica => TimersOff'
    BY <1>4, <2>1, ResetAlone
  <2>5. /\ record'.last = record.last /\ record'.attempt = 0 /\ record'.sent = FALSE
        /\ record'.awaiting = FALSE /\ record'.state # "sending"
        /\ record.late # {} => record'.turn = 0 /\ record'.cursor = 1
        /\ record.late = {} => record'.turn = record.turn /\ record'.cursor = record.cursor + 1
    BY <1>2, <1>3, <2>1, FinalizedPlace
  <2>6. /\ record'.turn = 0 \/ (record'.turn = record.turn /\ record'.cursor > Items)
        /\ record'.cursor \in Nat \ {0}
    BY <1>1, <1>3, <2>2, <2>5
  <2>7. TimersPassed'
    <3>1. CASE Recovery!OneReplica
      BY <2>4, <3>1 DEF TimersOff, TimersPassed, Passed
    <3>2. CASE ~Recovery!OneReplica
      <4>1. record'.turn = record.turn /\ record'.cursor = record.cursor + 1
        BY <2>5, <3>2, OneMessage
      <4>2. ASSUME NEW t, Passed(t) PROVE Passed(t)'
        BY <1>1, <4>1, <4>2 DEF Passed
      <4>3. Passed(Recovery!Off)'
        BY DEF Passed
      <4>4. \A q \in Processes : retry'[q] = Recovery!Off \/ retry'[q] = retry[q]
        BY <1>0, <2>1 DEF Recovery!Set
      <4> QED
        BY <1>0, <1>6, <4>2, <4>3, <4>4 DEF HandInv, TimersOK, TimersPassed
    <3> QED
      BY <3>1, <3>2
  <2> QED
    BY <1>0, <1>1, <2>3, <2>4, <2>5, <2>6, <2>7, HandsCleared
<1> QED
  BY <1>8, <1>9

\* What Now says of the hands, with its types.
LEMMA NowHands ==
  ASSUME Now
  PROVE  /\ record \in StoredRecords /\ deployment' = deployment
         /\ chat \in [Processes -> ChatsOf] /\ call \in [Processes -> SendCalls]
         /\ retry \in [Processes -> TimerRecords] /\ delivery \in [Processes -> TimerRecords]
         /\ sends \in [Recovery!AllItems -> Nat]
         /\ HandInv /\ RecordOK /\ TimersOK /\ CallsOK /\ HandsOK /\ FreshOK
BY NowTypes DEF Now, HandInv

LEMMA HandsUnderWay ==
  ASSUME Now, NEW p \in Processes, Busy(p)
  PROVE  /\ p \in up /\ Sending /\ call[p].item = Cur /\ ~record.awaiting
         /\ record.sent <=> call[p].phase = "saved"
         /\ \A q \in Processes : Hand(q) => q = p
         /\ ~Driving(p) /\ ~Retrying(p)
         /\ \A q \in Processes : q # p => call[q] = Recovery!NoCall
<1>1. call[p] # Recovery!NoCall
  BY OffIsNoItem DEF Busy
<1> QED
  BY <1>1, NowHands, OffIsNoItem DEF Now, BookInv, PlacesOK, CallsOK, HandsOK, Hand

\* The item at the cursor is one of those that are counted.
LEMMA CurIsCounted ==
  ASSUME Now, Sending
  PROVE  Cur \in Recovery!AllItems
BY NowTypes, CurIsItem DEF Now, RestartTypeOK, HandInv, RecordOK, BookInv, SettledOK

LEMMA ReachesHands ==
  ASSUME Now, NEW p \in Processes, Recovery!SendReaches(p)
  PROVE  HandInv'
<1>1. /\ call[p].phase = "called" /\ call' = [call EXCEPT ![p] = [call[p] EXCEPT !.phase = "answered"]]
      /\ sends' = [sends EXCEPT ![call[p].item] = @ + 1]
      /\ record' = record /\ chat' = chat /\ retry' = retry /\ delivery' = delivery /\ cut' = cut
  BY DEF Recovery!SendReaches
<1>2. Busy(p) /\ Sending' = Sending /\ Cur' = Cur
  BY <1>1 DEF Busy, Sending, Cur
<1>3. Sending /\ call[p].item = Cur /\ ~record.sent /\ Cur \in Recovery!AllItems /\ Unsent
  BY <1>1, <1>2, HandsUnderWay, CurIsCounted, NowHands DEF FreshOK
<1>4. /\ call'[p].phase = "answered" /\ call'[p].item = Cur
      /\ \A q \in Processes : q # p => call'[q] = call[q]
  BY <1>1, <1>3, NowHands DEF SendCalls
<1>5. /\ sends'[Cur] = sends[Cur] + 1
      /\ \A i \in Recovery!AllItems : i # Cur => sends'[i] = sends[i]
  BY <1>1, <1>3, NowHands
<1>6. /\ \A q \in Processes : Busy(q)' <=> Busy(q)
      /\ \A q \in Processes : (Driving(q)' <=> Driving(q)) /\ (Retrying(q)' <=> Retrying(q))
  BY <1>1, <1>2, <1>4 DEF Busy, Driving, Retrying
<1>7. RecordOK' /\ TimersOK'
  <2>1. TimersPassed'
    BY <1>1, NowHands DEF TimersOK, TimersPassed, Passed
  <2>2. (Recovery!OneReplica /\ ~Sending => TimersOff)'
    BY <1>2, <1>3
  <2> QED
    BY <1>1, <1>2, <1>6, <2>1, <2>2, NowHands DEF RecordOK, TimersOK
<1>8. CallsOK'
  BY <1>1, <1>2, <1>3, <1>4, <1>6, NowHands DEF CallsOK
<1>9. HandsOK'
  BY <1>1, <1>6, NowHands DEF HandsOK, Hand
<1>10. FreshOK'
  <2>1. ASSUME NEW i \in Recovery!AllItems,
               i[1] > record'.last \/ (i[1] = record'.turn /\ i[2] > record'.cursor)
        PROVE  sends'[i] = 0
    <3>1. Cur[1] = record.turn /\ Cur[2] = record.cursor
      BY DEF Cur, Recovery!Item
    <3>2. record.turn \in Nat /\ record.cursor \in Nat /\ record.last \in Nat /\ record.turn = record.last
      BY <1>3, NowHands, RecordFields DEF RecordOK, Sending, Recovery!HasItem
    <3>3. i # Cur
      BY <1>1, <2>1, <3>1, <3>2
    <3> QED
      BY <1>1, <1>5, <2>1, <3>3, NowHands DEF FreshOK
  <2>2. \A q \in Processes : ~Driving(q) /\ ~Retrying(q) /\ call'[q].phase # "called"
    BY <1>2, <1>4, HandsUnderWay, OffIsNoItem DEF Hand
  <2>3. OnceSent'
    <3>1. ASSUME NEW i \in Recovery!AllItems, sends'[i] > 1 PROVE i \in cut
      <4>1. CASE i # Cur
        BY <1>5, <3>1, <4>1, NowHands DEF FreshOK, OnceSent
      <4>2. CASE i = Cur
        BY <1>3, <1>5, <3>1, <4>2 DEF Unsent
      <4> QED
        BY <4>1, <4>2
    <3> QED
      BY <1>1, <3>1 DEF OnceSent
  <2>4. Busy(p)'
    BY <1>2, <1>6
  <2> QED
    BY <1>6, <2>1, <2>2, <2>3, <2>4 DEF FreshOK
<1> QED
  BY <1>7, <1>8, <1>9, <1>10 DEF HandInv

LEMMA SavedHands ==
  ASSUME Now, NEW p \in Processes, Recovery!SendSaved(p, record)
  PROVE  HandInv'
<1>1. /\ call[p].phase = "answered" /\ call' = [call EXCEPT ![p] = [call[p] EXCEPT !.phase = "saved"]]
      /\ record' = IF Recovery!HasItem(record)
                   THEN [record EXCEPT !.sent = TRUE, !.attempt = 0, !.retryIn = 0] ELSE record
      /\ chat' = chat /\ retry' = retry /\ delivery' = delivery /\ sends' = sends /\ cut' = cut
  BY DEF Recovery!SendSaved, Recovery!aux
<1>2. Busy(p)
  BY <1>1 DEF Busy
<1>3. Sending /\ call[p].item = Cur /\ ~record.sent /\ ~record.awaiting
  BY <1>1, <1>2, HandsUnderWay
<1>4. /\ call'[p].phase = "saved" /\ call'[p].item = Cur
      /\ \A q \in Processes : q # p => call'[q] = Recovery!NoCall
  BY <1>1, <1>2, <1>3, HandsUnderWay, NowHands DEF SendCalls
<1>5. /\ record'.turn = record.turn /\ record'.cursor = record.cursor /\ record'.last = record.last
      /\ record'.attempt = 0 /\ record'.sent = TRUE /\ record'.awaiting = FALSE /\ record'.state = record.state
  BY <1>1, <1>3, NowHands, RecordFields DEF Sending, StoredRecords
<1>6. Sending' /\ Cur' = Cur
  BY <1>3, <1>5 DEF Sending, Cur, Recovery!HasItem, Recovery!Item
<1>7. \A q \in Processes : ~Driving(q)' /\ ~Retrying(q)' /\ ~Driving(q) /\ ~Retrying(q)
  <2>1. \A q \in Processes : ~Driving(q) /\ ~Retrying(q)
    BY <1>2, HandsUnderWay DEF Hand
  <2> QED
    BY <1>1, <1>3, <1>6, <2>1 DEF Driving, Retrying
<1>8. \A q \in Processes : Busy(q)' => q = p
  BY <1>4, OffIsNoItem DEF Busy
<1>9. RecordOK'
  BY <1>3, <1>5, <1>6, NowHands, NowTypes DEF RecordOK
<1>10. TimersOK'
  <2>1. TimersPassed'
    BY <1>1, <1>5, NowHands DEF TimersOK, TimersPassed, Passed
  <2> QED
    BY <1>1, <1>3, <1>5, <1>6, <1>7, <2>1, NowHands DEF TimersOK
<1>11. CallsOK'
  BY <1>4, <1>5, <1>6 DEF CallsOK, Busy
<1>12. HandsOK'
  BY <1>5, <1>7, <1>8 DEF HandsOK, Hand
<1>13. FreshOK'
  <2>1. \A q \in Processes : call'[q].phase # "called"
    BY <1>4, OffIsNoItem
  <2>2. OnceSent'
    BY <1>1, NowHands DEF FreshOK, OnceSent
  <2> QED
    BY <1>1, <1>5, <1>7, <2>1, <2>2, NowHands DEF FreshOK
<1> QED
  BY <1>9, <1>10, <1>11, <1>12, <1>13 DEF HandInv

LEMMA DoneHands ==
  ASSUME Now, NEW p \in Processes, Recovery!SendDone(p, record)
  PROVE  HandInv'
<1>1. call[p].phase = "saved" /\ chat' = chat /\ sends' = sends /\ cut' = cut
  BY DEF Recovery!SendDone, Recovery!aux
<1>2. Busy(p)
  BY <1>1 DEF Busy
<1>3. p \in up /\ Sending /\ call[p].item = Cur /\ record.sent /\ record.attempt = 0
  BY <1>1, <1>2, HandsUnderWay, NowHands DEF RecordOK
<1>4. CASE ~Recovery!OnStatus
  <2>1. Recovery!Advance(p, record)
    BY <1>4 DEF Recovery!SendDone
  <2> QED
    BY <1>1, <1>2, <1>3, <2>1, HandsUnderWay, HandsAdvance
<1>5. CASE Recovery!OnStatus
  <2>a. PICK t : t = [item |-> call[p].item, attempt |-> 0, left |-> Timeout]
    OBVIOUS
  <2>1. /\ record' = [record EXCEPT !.awaiting = TRUE]
        /\ delivery' = Recovery!Set(delivery, p, t) /\ call' = Recovery!Set(call, p, Recovery!NoCall)
        /\ retry' = retry
    BY <1>5, <2>a DEF Recovery!SendDone
  <2>2. t.item = Cur
    BY <1>3, <2>a
  <2>3. /\ record'.turn = record.turn /\ record'.cursor = record.cursor /\ record'.last = record.last
        /\ record'.attempt = 0 /\ record'.sent = TRUE /\ record'.awaiting = TRUE /\ record'.state = record.state
    BY <1>3, <2>1, NowHands, RecordFields DEF StoredRecords
  <2>4. Sending' /\ Cur' = Cur
    BY <1>3, <2>3 DEF Sending, Cur, Recovery!HasItem, Recovery!Item
  <2>5. \A q \in Processes : call'[q] = Recovery!NoCall
    BY <1>2, <2>1, HandsUnderWay, NowHands DEF Recovery!Set
  <2>6. \A q \in Processes : ~Driving(q)' /\ ~Retrying(q)' /\ ~Busy(q)' /\ call'[q].phase # "called"
    <3>1. \A q \in Processes : ~Driving(q) /\ ~Retrying(q)
      BY <1>2, HandsUnderWay DEF Hand
    <3> QED
      BY <1>1, <1>3, <2>1, <2>4, <2>5, <3>1, OffIsNoItem DEF Driving, Retrying, Busy
  <2>7. RecordOK'
    BY <1>3, <2>3, <2>4, NowHands, NowTypes DEF RecordOK
  <2>8. \A q \in Processes : delivery'[q] = delivery[q] \/ delivery'[q] = t
    BY <2>1, NowHands DEF Recovery!Set
  <2>9. TimersOK'
    <3>1. ASSUME NEW u, Passed(u) PROVE Passed(u)'
      BY <2>3, <3>1 DEF Passed
    <3>2. Passed(t)'
      <4>1. Cur[1] = record.turn /\ Cur[2] = record.cursor /\ record.turn # 0 /\ record.cursor \in 1 .. Items
        BY <1>3, NowHands, NowTypes, RecordFields DEF Cur, Recovery!Item, Sending, Recovery!HasItem, RecordOK
      <4> QED
        BY <2>2, <2>3, <4>1 DEF Passed
    <3>3. TimersPassed'
      BY <2>1, <2>8, <3>1, <3>2, NowHands DEF TimersOK, TimersPassed
    <3> QED
      BY <2>3, <2>4, <2>6, <3>3 DEF TimersOK
  <2>10. CallsOK' /\ HandsOK'
    BY <2>5, <2>6 DEF CallsOK, HandsOK, Hand
  <2>11. FreshOK'
    <3>1. OnceSent'
      BY <1>1, NowHands DEF FreshOK, OnceSent
    <3> QED
      BY <1>1, <2>3, <2>6, <3>1, NowHands DEF FreshOK
  <2> QED
    BY <2>7, <2>9, <2>10, <2>11 DEF HandInv
<1> QED
  BY <1>4, <1>5

LEMMA FailsHands ==
  ASSUME Now, NEW p \in Processes, Recovery!SendFailsTransiently(p, record)
  PROVE  HandInv'
<1>1. PICK attempt : attempt = call[p].attempt + 1
  OBVIOUS
<1>2. /\ call[p].phase = "called" /\ attempt <= RetryCap
      /\ chat' = chat /\ sends' = sends /\ cut' = cut /\ call' = Recovery!Set(call, p, Recovery!NoCall)
  BY <1>1 DEF Recovery!SendFailsTransiently, Recovery!aux
<1>3. Busy(p) /\ attempt \in Nat \ {0}
  <2>1. call[p].attempt \in Nat
    BY NowHands DEF SendCalls
  <2> QED
    BY <1>1, <1>2, <2>1 DEF Busy
<1>4. p \in up /\ Sending /\ call[p].item = Cur /\ ~record.sent /\ ~record.awaiting /\ Unsent
  BY <1>2, <1>3, HandsUnderWay, NowHands DEF FreshOK
<1>5. PICK t : t = [item |-> call[p].item, attempt |-> attempt, left |-> RetryDelay]
  OBVIOUS
<1>6. /\ record' = [record EXCEPT !.attempt = attempt, !.retryIn = RetryDelay]
      /\ retry' = Recovery!Set(retry, p, t) /\ delivery' = Recovery!Set(delivery, p, Recovery!Off)
  BY <1>1, <1>4, <1>5 DEF Recovery!SendFailsTransiently, Sending, Cur
<1>7. /\ record'.turn = record.turn /\ record'.cursor = record.cursor /\ record'.last = record.last
      /\ record'.attempt = attempt /\ record'.sent = FALSE /\ record'.awaiting = FALSE
      /\ record'.state = record.state
  BY <1>4, <1>6, NowHands, RecordFields DEF StoredRecords
<1>8. Sending' /\ Cur' = Cur
  BY <1>4, <1>7 DEF Sending, Cur, Recovery!HasItem, Recovery!Item
<1>9. \A q \in Processes : call'[q] = Recovery!NoCall
  BY <1>2, <1>3, HandsUnderWay, NowHands DEF Recovery!Set
<1>10. /\ retry'[p] = t /\ \A q \in Processes : q # p => retry'[q] = retry[q]
       /\ \A q \in Processes : delivery'[q] = delivery[q] \/ delivery'[q] = Recovery!Off
  BY <1>6, NowHands DEF Recovery!Set
<1>11. /\ \A q \in Processes : ~Driving(q)' /\ ~Busy(q)' /\ call'[q].phase # "called"
       /\ \A q \in Processes : Retrying(q)' => q = p
  <2>1. \A q \in Processes : ~Driving(q) /\ ~Retrying(q)
    BY <1>3, HandsUnderWay DEF Hand
  <2> QED
    BY <1>2, <1>4, <1>8, <1>9, <1>10, <2>1, OffIsNoItem DEF Driving, Retrying, Busy
<1>12. RecordOK'
  BY <1>2, <1>4, <1>7, <1>8, NowHands DEF RecordOK
<1>13. TimersOK'
  <2>1. ASSUME NEW u, Passed(u) PROVE Passed(u)'
    BY <1>7, <2>1 DEF Passed
  <2>2. Passed(t)'
    <3>1. Cur[1] = record.turn /\ Cur[2] = record.cursor /\ record.turn # 0 /\ record.cursor \in 1 .. Items
      BY <1>4, NowHands, NowTypes, RecordFields DEF Cur, Recovery!Item, Sending, Recovery!HasItem, RecordOK
    <3>2. t.item = Cur
      BY <1>4, <1>5
    <3> QED
      BY <1>7, <3>1, <3>2 DEF Passed
  <2>3. Passed(Recovery!Off)'
    BY DEF Passed
  <2>4. TimersPassed'
    BY <1>10, <2>1, <2>2, <2>3, NowHands DEF TimersOK, TimersPassed
  <2>5. \A q \in Processes : Retrying(q)' => record'.attempt = retry'[q].attempt /\ record'.attempt > 0
    BY <1>3, <1>5, <1>7, <1>10, <1>11
  <2>6. \A q \in Processes : ~(Sending /\ delivery[q].item = Cur)'
    BY <1>4, <1>8, <1>10, NowHands, OffIsNoItem DEF TimersOK
  <2> QED
    BY <1>8, <2>4, <2>5, <2>6 DEF TimersOK
<1>14. CallsOK' /\ HandsOK'
  BY <1>7, <1>9, <1>11 DEF CallsOK, HandsOK, Hand
<1>15. FreshOK'
  <2>1. OnceSent'
    BY <1>2, NowHands DEF FreshOK, OnceSent
  <2>2. Unsent'
    BY <1>2, <1>4, <1>8 DEF Unsent
  <2> QED
    BY <1>2, <1>7, <2>1, <2>2, NowHands DEF FreshOK
<1> QED
  BY <1>12, <1>13, <1>14, <1>15 DEF HandInv

LEMMA SkippedHands ==
  ASSUME Now, NEW p \in Processes, Recovery!SendSkipped(p, record)
  PROVE  HandInv'
<1>1. /\ Busy(p) /\ Recovery!Advance(p, record)
      /\ chat' = chat /\ sends' = sends /\ cut' = cut
  BY DEF Recovery!SendSkipped, Recovery!aux, Busy
<1> QED
  BY <1>1, HandsUnderWay, HandsAdvance

\* Where a status is awaited nobody has the item.
LEMMA AwaitedHands ==
  ASSUME Now, record.awaiting
  PROVE  Sending /\ \A q \in Processes : ~Hand(q)
BY NowHands DEF RecordOK, HandsOK

LEMMA AdvanceClears ==
  ASSUME StoredInv, NEW p, Recovery!Advance(p, record)
  PROVE  record'.sent = FALSE
<1> DEFINE r == [record EXCEPT !.cursor = IF Recovery!HasItem(record) THEN @ + 1 ELSE @, !.awaiting = FALSE,
                               !.attempt = 0, !.retryIn = 0, !.sent = FALSE]
<1>1. record \in StoredRecords
  BY DEF StoredInv, StoredTypeOK
<1>2. (IF Recovery!HasItem(record) THEN record.cursor + 1 ELSE record.cursor) \in Nat
  BY <1>1 DEF StoredRecords
<1>3. r \in StoredRecords /\ r.sent = FALSE
  BY <1>1, <1>2 DEF StoredRecords
<1>4. record' = r \/ record' = Recovery!Finalized(r)
  BY DEF Recovery!Advance, Recovery!SendNext
<1> HIDE DEF r
<1>5. Recovery!Finalized(r).sent = FALSE
  BY <1>3 DEF Recovery!Finalized, Recovery!Rebuffered, StoredRecords
<1> QED
  BY <1>3, <1>4, <1>5

\* Where a status of the item at the cursor arrives nobody has the item, unless
\* a replica that sends it goes by what it loaded before.
LEMMA StatusFindsNone ==
  ASSUME Now, NEW p \in Processes, Recovery!StatusArrives(p, record)
  PROVE  Sending /\ \A q \in Processes : ~Hand(q)
<1>1. /\ record.sent /\ Recovery!Advance(p, record) /\ call[p] = Recovery!NoCall
      /\ overtaken' = (overtaken \/ Recovery!Overtakes(p, record))
  BY DEF Recovery!StatusArrives, Recovery!Free, Recovery!Saves
<1>2. Sending /\ record.attempt = 0
  BY <1>1, NowHands DEF RecordOK
<1>3. record' # record
  BY <1>1, AdvanceClears DEF Now
<1>4. \A q \in up \ {p} : call[q] = Recovery!NoCall
  BY <1>1, <1>3 DEF Now, Recovery!Overtakes
<1>5. ASSUME NEW q \in Processes PROVE ~Hand(q)
  <2>1. ~Busy(q)
    BY <1>1, <1>4, OffIsNoItem DEF Now, BookInv, PlacesOK, Busy
  <2>2. ~Driving(q)
    BY <1>1, NowHands DEF HandsOK
  <2>3. ~Retrying(q)
    BY <1>2, NowHands DEF TimersOK
  <2> QED
    BY <2>1, <2>2, <2>3 DEF Hand
<1> QED
  BY <1>2, <1>5

LEMMA StatusHands ==
  ASSUME Now, NEW p \in Processes, Recovery!StatusArrives(p, record)
  PROVE  HandInv'
<1>1. /\ p \in up /\ Recovery!Advance(p, record)
      /\ chat' = chat /\ sends' = sends /\ cut' = cut
  BY DEF Recovery!StatusArrives, Recovery!Free, Recovery!aux
<1> QED
  BY <1>1, StatusFindsNone, HandsAdvance DEF Hand

LEMMA TimeoutHands ==
  ASSUME Now, NEW p \in Processes, Recovery!DeliveryTimesOut(p, record)
  PROVE  HandInv'
<1>1. /\ p \in up /\ delivery[p] # Recovery!Off
      /\ chat' = chat /\ sends' = sends /\ cut' = cut
  BY DEF Recovery!DeliveryTimesOut, Recovery!Free, Recovery!aux
<1>2. CASE record.cursor = delivery[p].item[2]
  <2>1. Recovery!Advance(p, record)
    BY <1>2 DEF Recovery!DeliveryTimesOut
  <2>2. Passed(delivery[p]) /\ delivery[p] \in TimerRecords
    BY NowHands DEF TimersOK, TimersPassed
  <2>3. /\ record.turn # 0 /\ delivery[p].item[1] = record.turn /\ record.cursor \in 1 .. Items
        /\ delivery[p].item \in Nat \X Nat
    BY <1>1, <1>2, <2>2 DEF Passed, TimerRecords
  <2>4. Sending /\ delivery[p].item = Cur
    BY <1>2, <2>3, NowTypes DEF Sending, Recovery!HasItem, Cur, Recovery!Item
  <2>5. record.awaiting
    BY <2>4, NowHands DEF TimersOK
  <2> QED
    BY <1>1, <2>1, <2>5, AwaitedHands, HandsAdvance DEF Hand
<1>3. CASE record.cursor # delivery[p].item[2]
  <2>1. /\ delivery' = Recovery!Set(delivery, p, Recovery!Off) /\ record' = record /\ retry' = retry
        /\ call' = call
    BY <1>3 DEF Recovery!DeliveryTimesOut
  <2>2. SamePlace /\ SameOrCut
    BY <2>1 DEF SamePlace, SameOrCut
  <2>3. SameOrOff(retry', retry) /\ SameOrOff(delivery', delivery)
    <3>1. \A q \in Processes : delivery'[q] = Recovery!Off \/ delivery'[q] = delivery[q]
      BY <2>1, NowHands DEF Recovery!Set
    <3> QED
      BY <2>1, <3>1 DEF SameOrOff
  <2> QED
    BY <1>1, <2>2, <2>3, NowHands, HandsRest
<1> QED
  BY <1>2, <1>3

LEMMA RetryHands ==
  ASSUME Now, NEW p \in Processes, Recovery!RetryFires(p, record)
  PROVE  HandInv'
<1> DEFINE matches == /\ record.state = "sending" /\ Recovery!HasItem(record)
                      /\ Recovery!Item(record) = retry[p].item /\ record.attempt = retry[p].attempt
           c == [item |-> Recovery!Item(record), attempt |-> record.attempt, phase |-> "called"]
<1>1. /\ p \in up /\ call[p] = Recovery!NoCall /\ retry' = Recovery!Set(retry, p, Recovery!Off)
      /\ record' = record /\ chat' = chat /\ delivery' = delivery /\ sends' = sends /\ cut' = cut
      /\ call' = IF matches THEN Recovery!Set(call, p, c) ELSE call
  BY DEF Recovery!RetryFires, Recovery!Free, Recovery!aux
<1>2. \A q \in Processes : retry'[q] = Recovery!Off \/ (q # p /\ retry'[q] = retry[q])
  BY <1>1, NowHands DEF Recovery!Set
<1>3. CASE ~matches
  <2>1. SamePlace /\ SameOrCut
    BY <1>1, <1>3 DEF SamePlace, SameOrCut
  <2>2. SameOrOff(retry', retry) /\ SameOrOff(delivery', delivery)
    BY <1>1, <1>2 DEF SameOrOff
  <2> QED
    BY <1>1, <2>1, <2>2, NowHands, HandsRest
<1>4. CASE matches
  <2>1. Retrying(p) /\ Sending /\ Hand(p) /\ Sending' /\ Cur' = Cur
    BY <1>1, <1>4 DEF Retrying, Sending, Cur, Hand
  <2>2. \A q \in Processes : Hand(q) => q = p
    BY <2>1, NowHands DEF HandsOK
  <2>3. ~Driving(p) /\ record.attempt > 0 /\ Unsent /\ ~record.sent /\ ~record.awaiting
    BY <2>1, NowHands DEF HandsOK, TimersOK, FreshOK, RecordOK
  <2>4. call' = Recovery!Set(call, p, [item |-> Cur', attempt |-> record'.attempt, phase |-> "called"])
    BY <1>1, <1>4, <2>1 DEF Cur
  <2>5. \A q \in Processes : ~Driving(q)' /\ ~Retrying(q)'
    BY <1>1, <1>2, <2>1, <2>2, <2>3, OffIsNoItem DEF Driving, Retrying, Hand
  <2>6. \A q \in Processes : q # p => call[q] = Recovery!NoCall
    BY <2>2, NowHands DEF CallsOK, Hand
  <2>7. RecordOK' /\ TimersPassed'
    BY <1>1, <1>2, <2>1, NowHands DEF RecordOK, TimersOK, TimersPassed, Passed
  <2>8. \A q \in Processes : (Sending /\ delivery[q].item = Cur)' => record'.awaiting
    BY <1>1, <2>1, NowHands DEF TimersOK
  <2>9. \A i \in Recovery!AllItems :
           (i[1] > record'.last \/ (i[1] = record'.turn /\ i[2] > record'.cursor)) => sends[i] = 0
    BY <1>1, NowHands DEF FreshOK
  <2>10. (sends[Cur'] = 0 \/ Cur' \in cut) /\ ~record'.sent
    BY <1>1, <2>1, <2>3 DEF Unsent
  <2> QED
    BY <1>1, <2>1, <2>4, <2>5, <2>6, <2>7, <2>8, <2>9, <2>10, NowHands, HandsTaken
<1> QED
  BY <1>3, <1>4

LEMMA DriveHands ==
  ASSUME Now, NEW p \in Processes, Recovery!Drive(p, record)
  PROVE  HandInv'
<1>1. /\ chat[p].at = "attached" /\ p \in up /\ call[p] = Recovery!NoCall
      /\ chat' = Recovery!Set(chat, p, Recovery!NoChat) /\ Recovery!SendNext(p, record)
      /\ sends' = sends /\ cut' = cut
  BY DEF Recovery!Drive, Recovery!Free, Recovery!aux
<1>2. chat'[p].at = "none" /\ \A q \in Processes : q # p => chat'[q] = chat[q]
  BY <1>1, NowHands, OffIsNoItem DEF Recovery!Set
<1>3. CASE ~Sending
  <2>1. /\ record' = Recovery!Finalized(record) /\ retry' = Recovery!Set(retry, p, Recovery!Off)
        /\ call' = Recovery!Set(call, p, Recovery!NoCall)
        /\ delivery' = Recovery!Set(delivery, p, Recovery!Off)
    BY <1>1, <1>3 DEF Recovery!Drive, Recovery!SendNext, Sending
  <2> QED
    BY <1>1, <1>2, <1>3, <2>1, EndRests
<1>4. CASE Sending
  <2>1. /\ record' = record /\ retry' = retry /\ delivery' = delivery
        /\ call' = Recovery!Set(call, p, [item |-> Cur, attempt |-> record.attempt, phase |-> "called"])
    BY <1>1, <1>4 DEF Recovery!Drive, Recovery!SendNext, Sending, Cur
  <2>2. Driving(p) /\ Hand(p) /\ Sending' /\ Cur' = Cur
    BY <1>1, <1>4, <2>1 DEF Driving, Sending, Cur, Hand
  <2>3. \A q \in Processes : Hand(q) => q = p
    BY <2>2, NowHands DEF HandsOK
  <2>4. ~Retrying(p) /\ Unsent /\ ~record.sent /\ ~record.awaiting
    BY <2>2, NowHands DEF HandsOK, FreshOK, RecordOK
  <2>5. \A q \in Processes : ~Driving(q)' /\ ~Retrying(q)'
    BY <1>2, <2>1, <2>2, <2>3, <2>4 DEF Driving, Retrying, Hand
  <2>6. \A q \in Processes : q # p => call[q] = Recovery!NoCall
    BY <2>3, NowHands DEF CallsOK, Hand
  <2>7. RecordOK' /\ TimersPassed'
    BY <2>1, <2>2, <1>4, NowHands DEF RecordOK, TimersOK, TimersPassed, Passed
  <2>8. \A q \in Processes : (Sending /\ delivery[q].item = Cur)' => record'.awaiting
    BY <1>4, <2>1, <2>2, NowHands DEF TimersOK
  <2>9. \A i \in Recovery!AllItems :
           (i[1] > record'.last \/ (i[1] = record'.turn /\ i[2] > record'.cursor)) => sends[i] = 0
    BY <2>1, NowHands DEF FreshOK
  <2>10. (sends[Cur'] = 0 \/ Cur' \in cut) /\ ~record'.sent
    BY <2>1, <2>2, <2>4 DEF Unsent
  <2>11. call' = Recovery!Set(call, p, [item |-> Cur', attempt |-> record'.attempt, phase |-> "called"])
    BY <2>1, <2>2
  <2> QED
    BY <1>1, <2>2, <2>5, <2>6, <2>7, <2>8, <2>9, <2>10, <2>11, NowHands, HandsTaken
<1> QED
  BY <1>3, <1>4

\* A chat call ends a turn that has not begun to be sent: nothing is in anyone's
\* hands.
LEMMA BeforeTheTurn ==
  ASSUME Now, NEW p \in Processes, chat[p].at = "called"
  PROVE  /\ record.state = "processing" /\ ~Sending /\ TimersOff
         /\ \A q \in Processes : call[q] = Recovery!NoCall /\ chat[q].at # "attached"
<1>1. /\ chat[p].batch # {} /\ record.state = "processing" /\ p \in up
  BY OffIsNoItem DEF Now, BookInv, BatchesOK, PlacesOK
<1>2. ~Sending
  BY <1>1, NowHands DEF RecordOK
<1>3. TimersOff
  <2>1. CASE Recovery!OneReplica
    BY <1>2, <2>1, NoTurnNoTimers
  <2>2. CASE ~Recovery!OneReplica
    BY <1>1, <2>2, OneMessage, NoTurnNoTimers, NowHands DEF RecordOK
  <2> QED
    BY <2>1, <2>2
<1>4. ASSUME NEW q \in Processes, chat[q].at = "attached" PROVE FALSE
  <2>1. CASE Recovery!OneReplica
    BY <1>1, <1>4, <2>1, OthersEmpty, OffIsNoItem
  <2>2. CASE ~Recovery!OneReplica
    BY <1>1, <1>4, <2>2, OneMessage
  <2> QED
    BY <2>1, <2>2
<1> QED
  BY <1>1, <1>2, <1>3, <1>4, NoSendingNoCalls

LEMMA AnswersHands ==
  ASSUME Now, NEW p \in Processes, Recovery!ChatAnswers(p, record)
  PROVE  HandInv'
<1>1. /\ chat[p].at = "called" /\ chat' = Recovery!Set(chat, p, [at |-> "attached", batch |-> {}])
      /\ record' = [record EXCEPT !.turn = record.last + 1, !.last = @ + 1, !.cursor = 1, !.state = "sending",
                                  !.awaiting = FALSE, !.attempt = 0, !.retryIn = 0, !.sent = FALSE]
      /\ call' = call /\ retry' = retry /\ delivery' = delivery /\ sends' = sends /\ cut' = cut
  BY DEF Recovery!ChatAnswers
<1>2. /\ record'.turn = record.last + 1 /\ record'.last = record.last + 1 /\ record'.cursor = 1
      /\ record'.attempt = 0 /\ record'.sent = FALSE /\ record'.awaiting = FALSE /\ record'.state = "sending"
      /\ record.last \in Nat
  BY <1>1, NowHands, RecordFields DEF StoredRecords
<1>3. Sending' /\ Cur'[1] = record.last + 1
  BY <1>2, NowTypes DEF Sending, Cur, Recovery!HasItem, Recovery!Item
<1>4. /\ \A q \in Processes : Driving(q)' => q = p
      /\ \A q \in Processes : ~Busy(q)' /\ ~Retrying(q)' /\ call'[q].phase # "called"
      /\ \A q \in Processes : ~(Sending /\ delivery[q].item = Cur)'
  <2>1. Recovery!Off.item # Cur'
    BY <1>2, <1>3, OffIsNoItem DEF Recovery!None
  <2>2. \A q \in Processes : q # p => chat'[q] = chat[q]
    BY <1>1, NowHands DEF Recovery!Set
  <2> QED
    BY <1>1, <2>1, <2>2, BeforeTheTurn, OffIsNoItem DEF Driving, Busy, Retrying, TimersOff
<1>5. RecordOK' /\ TimersOK' /\ CallsOK' /\ HandsOK'
  <2>1. RecordOK'
    BY <1>2, <1>3, NowTypes DEF RecordOK
  <2>2. TimersPassed'
    BY <1>1, BeforeTheTurn DEF TimersPassed, Passed, TimersOff
  <2>3. TimersOK'
    BY <1>3, <1>4, <2>2 DEF TimersOK
  <2>4. CallsOK'
    BY <1>1, BeforeTheTurn DEF CallsOK
  <2>5. HandsOK'
    BY <1>2, <1>4 DEF HandsOK, Hand
  <2> QED
    BY <2>1, <2>3, <2>4, <2>5
<1>6. FreshOK'
  <2>1. /\ \A i \in Recovery!AllItems :
             (i[1] > record'.last \/ (i[1] = record'.turn /\ i[2] > record'.cursor)) => sends'[i] = 0
        /\ Cur' \in Recovery!AllItems => sends'[Cur'] = 0
    <3>1. \A i \in Recovery!AllItems : i[1] \in Nat /\ (i[1] > record.last => sends[i] = 0)
      BY NowHands DEF FreshOK, Recovery!AllItems, Recovery!Turns
    <3> QED
      BY <1>1, <1>2, <1>3, <3>1
  <2>2. Cur' \in Recovery!AllItems
    <3>1. PICK x \in chat[p].batch : TRUE
      BY <1>1 DEF Now, BookInv, BatchesOK
    <3>2. x \in Inbounds /\ x \notin settled /\ record.last <= Cardinality(settled)
      BY <3>1, NowHands DEF ChatsOf, Now, BookInv, SettledOK
    <3>3. /\ IsFiniteSet(settled \union {x}) /\ Cardinality(settled \union {x}) = Cardinality(settled) + 1
          /\ settled \union {x} \subseteq Inbounds /\ Cardinality(settled) \in Nat
      BY <3>2, NowTypes, FS_AddElement DEF Now, RestartTypeOK
    <3>4. Cardinality(settled \union {x}) <= Cardinality(Inbounds) /\ Cardinality(Inbounds) \in Nat
      BY <3>3, InboundsAreFinite, FS_Subset, FS_CardinalityType
    <3>5. record'.turn \in 1 .. Cardinality(Inbounds) /\ record'.cursor \in 1 .. Items
      BY <1>2, <3>2, <3>3, <3>4, NowTypes
    <3> QED
      BY <3>5, InboundsAreFinite DEF Cur, Recovery!Item, Recovery!AllItems, Recovery!Turns
  <2>3. Unsent'
    BY <2>1, <2>2 DEF Unsent
  <2>4. OnceSent'
    BY <1>1, NowHands DEF FreshOK, OnceSent
  <2> QED
    BY <2>1, <2>3, <2>4 DEF FreshOK
<1> QED
  BY <1>5, <1>6 DEF HandInv

LEMMA SilentHands ==
  ASSUME Now, NEW p \in Processes, Recovery!ChatIsSilent(p, record)
  PROVE  HandInv'
<1>1. /\ chat[p].at = "called" /\ p \in up /\ chat' = Recovery!Set(chat, p, Recovery!NoChat)
      /\ record' = Recovery!Finalized(record) /\ call' = call /\ sends' = sends /\ cut' = cut
      /\ retry' = Recovery!Set(retry, p, Recovery!Off) /\ delivery' = Recovery!Set(delivery, p, Recovery!Off)
  BY DEF Recovery!ChatIsSilent, Recovery!Finalize, Recovery!Free
<1>2. \A q \in Processes : chat'[q].at = "attached" => chat[q].at = "attached"
  BY <1>1, NowHands, OffIsNoItem DEF Recovery!Set
<1> QED
  BY <1>1, <1>2, BeforeTheTurn, EndRests

\* A handler that writes neither the place in the turn nor a timer it does not stop.
LEMMA TimersStop ==
  ASSUME Now, SamePlace, call' = call, sends' = sends, cut' = cut, NEW p,
         retry' \in {retry, Recovery!Set(retry, p, Recovery!Off)},
         delivery' \in {delivery, Recovery!Set(delivery, p, Recovery!Off)},
         \A q \in Processes : chat'[q].at = "attached" => chat[q].at = "attached"
  PROVE  HandInv'
<1>1. \A q \in Processes :
        /\ retry'[q] = Recovery!Off \/ retry'[q] = retry[q]
        /\ delivery'[q] = Recovery!Off \/ delivery'[q] = delivery[q]
  BY NowHands DEF Recovery!Set
<1>2. SameOrOff(retry', retry) /\ SameOrOff(delivery', delivery)
  BY <1>1 DEF SameOrOff
<1>3. SameOrCut
  BY DEF SameOrCut
<1> QED
  BY <1>2, <1>3, NowHands, HandsRest

LEMMA FailedChatHands ==
  ASSUME Now, NEW p \in Processes, Recovery!ChatFails(p, record)
  PROVE  HandInv'
<1>1. /\ chat[p].at = "called" /\ chat' = Recovery!Set(chat, p, Recovery!NoChat)
      /\ call' = call /\ sends' = sends /\ cut' = cut
      /\ retry' \in {retry, Recovery!Set(retry, p, Recovery!Off)}
      /\ delivery' = Recovery!Set(delivery, p, Recovery!Off)
      /\ record' = IF record.late # {} THEN [record EXCEPT !.state = "buffering", !.awaiting = FALSE,
                                                           !.buffer = @ \union record.late, !.late = {}]
                   ELSE [record EXCEPT !.state = "idle", !.awaiting = FALSE]
  BY DEF Recovery!ChatFails
<1>2. record.state # "sending" /\ ~record.awaiting
  BY <1>1, BeforeTheTurn, NoSendingNoCalls
<1>3. SamePlace
  <2>1. CASE record.late # {}
    BY <1>1, <1>2, <2>1, NowHands, RecordFields DEF SamePlace, StoredRecords
  <2>2. CASE record.late = {}
    BY <1>1, <1>2, <2>2, NowHands, RecordFields DEF SamePlace, StoredRecords
  <2> QED
    BY <2>1, <2>2
<1>4. \A q \in Processes : chat'[q].at = "attached" => chat[q].at = "attached"
  BY <1>1, NowHands, OffIsNoItem DEF Recovery!Set
<1> QED
  BY <1>1, <1>3, <1>4, TimersStop

LEMMA AbortedHands ==
  ASSUME Now, NEW p \in Processes, Recovery!ChatAborted(p, record)
  PROVE  HandInv'
<1>1. /\ chat[p].at = "aborted" /\ chat' = Recovery!Set(chat, p, Recovery!NoChat)
      /\ call' = call /\ sends' = sends /\ cut' = cut /\ retry' = retry /\ delivery' = delivery
      /\ record' = [record EXCEPT !.state = "buffering", !.late = {},
                                  !.buffer = @ \union chat[p].batch \union record.late]
  BY DEF Recovery!ChatAborted, Recovery!aux
<1>2. record.state # "sending"
  BY <1>1 DEF Now, BookInv, BatchesOK
<1>3. SamePlace
  BY <1>1, <1>2, NowHands DEF SamePlace, StoredRecords
<1>4. \A q \in Processes : chat'[q].at = "attached" => chat[q].at = "attached"
  BY <1>1, NowHands, OffIsNoItem DEF Recovery!Set
<1> QED
  BY <1>1, <1>3, <1>4, TimersStop

LEMMA FlushHands ==
  ASSUME Now, NEW p \in Processes, Recovery!Flush(p, record)
  PROVE  HandInv'
<1>1. /\ call' = call /\ sends' = sends /\ cut' = cut /\ retry' = retry /\ delivery' = delivery
  BY DEF Recovery!Flush, Recovery!aux
<1>2. CASE record.buffer = {}
  <2>1. record' = record /\ chat' = chat
    BY <1>2 DEF Recovery!Flush
  <2>2. SamePlace
    BY <2>1 DEF SamePlace
  <2> QED
    BY <1>1, <2>1, <2>2, TimersStop
<1>3. CASE record.buffer # {}
  <2>1. /\ record' = [record EXCEPT !.state = "processing", !.buffer = {}, !.late = {}, !.nonce = @ + 1]
        /\ chat' = Recovery!Set(chat, p, [at |-> "called", batch |-> record.buffer])
    BY <1>3 DEF Recovery!Flush
  <2>2. SamePlace
    BY <1>3, <2>1, NowHands DEF SamePlace, StoredRecords, Now, BookInv, BatchesOK
  <2>3. \A q \in Processes : chat'[q].at = "attached" => chat[q].at = "attached"
    BY <2>1, NowHands DEF Recovery!Set
  <2> QED
    BY <1>1, <2>2, <2>3, TimersStop
<1> QED
  BY <1>2, <1>3

\* A new message interrupts a turn that is being sent; with several replicas there
\* is no second one.
LEMMA InboundHands ==
  ASSUME Now, NEW p \in Processes, NEW m \in Inbounds, Recovery!Inbound(p, m, record)
  PROVE  HandInv'
<1>1. /\ p \in up /\ call[p] = Recovery!NoCall /\ m \in deployment.inbound \ Recovery!Accepted
      /\ call' = call /\ sends' = sends /\ cut' = cut
  BY DEF Recovery!Inbound, Recovery!Free, Recovery!aux
<1>2. CASE record.state \in {"idle", "buffering"}
  <2>1. /\ record' = [record EXCEPT !.state = "buffering", !.buffer = @ \union {m}]
        /\ chat' = chat /\ retry' = retry /\ delivery' = delivery
    BY <1>2 DEF Recovery!Inbound
  <2>2. SamePlace
    BY <1>2, <2>1, NowHands DEF SamePlace, StoredRecords
  <2> QED
    BY <1>1, <2>1, <2>2, TimersStop
<1>3. CASE record.state = "processing"
  <2>1. /\ record' = [record EXCEPT !.late = @ \union {m}]
        /\ chat' = IF chat[p].at = "called" THEN [chat EXCEPT ![p] = [chat[p] EXCEPT !.at = "aborted"]] ELSE chat
        /\ retry' = retry /\ delivery' = delivery
    BY <1>3 DEF Recovery!Inbound
  <2>2. SamePlace
    BY <1>3, <2>1, NowHands DEF SamePlace, StoredRecords
  <2>3. \A q \in Processes : chat'[q].at = "attached" => chat[q].at = "attached"
    BY <2>1, NowHands DEF ChatsOf
  <2> QED
    BY <1>1, <2>1, <2>2, <2>3, TimersStop
<1>4. CASE record.state = "sending"
  <2>1. Recovery!OneReplica
    BY <1>1, <1>4, OneMessage
  <2>2. /\ record' = Recovery!Rebuffered(record, {m}) /\ chat' = chat
        /\ retry' = Recovery!Set(retry, p, Recovery!Off) /\ delivery' = Recovery!Set(delivery, p, Recovery!Off)
    BY <1>4 DEF Recovery!Inbound
  <2>3. TimersOff'
    BY <1>1, <2>1, <2>2, ResetAlone
  <2>4. TimersPassed'
    BY <2>3 DEF TimersOff, TimersPassed, Passed
  <2>5. /\ record'.turn = 0 /\ record'.cursor = 1 /\ record'.last = record.last /\ record'.attempt = 0
        /\ record'.sent = FALSE /\ record'.awaiting = FALSE /\ record'.state = "buffering"
        /\ record.cursor \in Nat /\ record.last \in Nat
    BY <2>2, NowHands, RecordFields DEF Recovery!Rebuffered, StoredRecords
  <2>6. \A q \in Processes : call'[q] = Recovery!NoCall
    BY <1>1, <2>1, OthersEmpty
  <2>7. record'.cursor \in Nat \ {0} /\ record'.state # "sending"
    BY <2>5
  <2>8. Recovery!OneReplica => TimersOff'
    BY <2>3
  <2> QED
    BY <1>1, <2>4, <2>5, <2>6, <2>7, <2>8, NowHands, HandsCleared
<1> QED
  BY <1>2, <1>3, <1>4, NowHands DEF StoredRecords

\* The process dies: what it had in its hands, and the item of its call, are cut.
LEMMA LostHands ==
  ASSUME Now, NEW p \in Processes, Recovery!Lost(p), record' = record, sends' = sends
  PROVE  HandInv'
<1>1. /\ chat' = Recovery!Set(chat, p, Recovery!NoChat) /\ call' = Recovery!Set(call, p, Recovery!NoCall)
      /\ retry' = Recovery!Set(retry, p, Recovery!Off) /\ delivery' = Recovery!Set(delivery, p, Recovery!Off)
      /\ cut' = cut \union (IF call[p].phase \in {"called", "answered"} THEN {call[p].item} ELSE {})
  BY DEF Recovery!Lost
<1>2. \A q \in Processes :
        /\ retry'[q] = Recovery!Off \/ retry'[q] = retry[q]
        /\ delivery'[q] = Recovery!Off \/ delivery'[q] = delivery[q]
        /\ call'[q] = call[q] \/ (q = p /\ call'[q] = Recovery!NoCall)
        /\ chat'[q].at = "attached" => chat[q].at = "attached"
  BY <1>1, NowHands, OffIsNoItem DEF Recovery!Set
<1>3. SameOrOff(retry', retry) /\ SameOrOff(delivery', delivery)
  BY <1>2 DEF SameOrOff
<1>4. SameOrCut
  <2>1. call[p].phase \in {"none", "called", "answered", "saved"}
    BY NowTypes DEF SendCalls
  <2> QED
    BY <1>1, <1>2, <2>1 DEF SameOrCut, Busy
<1>5. SamePlace
  BY DEF SamePlace
<1> QED
  BY <1>1, <1>2, <1>3, <1>4, <1>5, NowHands, HandsRest

LEMMA BootHands ==
  ASSUME Now, NEW p \in Processes, Recovery!Boot(p)
  PROVE  HandInv'
<1>1. /\ record' = record /\ chat' = chat /\ call' = call /\ sends' = sends /\ cut' = cut
      /\ retry' = retry /\ delivery' = delivery
  BY DEF Recovery!Boot, Recovery!aux
<1>2. SamePlace
  BY <1>1 DEF SamePlace
<1> QED
  BY <1>1, <1>2, TimersStop

LEMMA TickHands ==
  ASSUME Now, Recovery!Tick
  PROVE  HandInv'
<1>1. /\ record' = [record EXCEPT !.retryIn = Recovery!Less(@)]
      /\ chat' = chat /\ call' = call /\ sends' = sends /\ cut' = cut
      /\ retry' = [q \in Processes |-> [retry[q] EXCEPT !.left = Recovery!Less(@)]]
      /\ delivery' = [q \in Processes |-> [delivery[q] EXCEPT !.left = Recovery!Less(@)]]
  BY DEF Recovery!Tick, Recovery!aux
<1>2. SamePlace
  BY <1>1, NowHands DEF SamePlace, StoredRecords
<1>3. ASSUME NEW t \in TimerRecords, NEW u, u = [t EXCEPT !.left = Recovery!Less(@)]
      PROVE  u.item = t.item /\ u.attempt = t.attempt /\ (t = Recovery!Off => u = t)
  <2>1. Recovery!Less(0) = 0
    BY DEF Recovery!Less
  <2> QED
    BY <1>3, <2>1 DEF TimerRecords, Recovery!Off
<1>4. \A q \in Processes :
        /\ \/ retry'[q] = Recovery!Off
           \/ retry'[q].item = retry[q].item /\ retry'[q].attempt = retry[q].attempt /\ retry[q] # Recovery!Off
        /\ \/ delivery'[q] = Recovery!Off
           \/ /\ delivery'[q].item = delivery[q].item /\ delivery'[q].attempt = delivery[q].attempt
              /\ delivery[q] # Recovery!Off
  BY <1>1, <1>3, NowHands
<1>5. SameOrOff(retry', retry) /\ SameOrOff(delivery', delivery)
  BY <1>4 DEF SameOrOff
<1>6. SameOrCut
  BY <1>1 DEF SameOrCut
<1> QED
  BY <1>1, <1>2, <1>5, <1>6, NowHands, HandsRest

\* What a boot scan meets: no call, no batch, and no retry timer without a claim.
LEMMA WhileScanning ==
  ASSUME Now, NEW p \in Processes, Recovery!Scanning(p)
  PROVE  /\ p \in up /\ booting # {}
         /\ \A q \in Processes : chat[q] = Recovery!NoChat /\ call[q] = Recovery!NoCall
         /\ \A q \in Processes : ~Busy(q) /\ ~Driving(q) /\ call[q].phase # "called"
         /\ \A q \in Processes : Retrying(q) => claims[Recovery!Token(record)] > 0
<1>1. p \in booting
  BY DEF Recovery!Scanning
<1>2. p \in up
  BY <1>1 DEF Now, BookInv, PlacesOK
<1>3. \A q \in Processes :
        /\ chat[q] = Recovery!NoChat /\ call[q] = Recovery!NoCall
        /\ Retrying(q) => claims[Recovery!Token(record)] > 0
  BY <1>1 DEF Now, ScansOK
<1> QED
  BY <1>1, <1>2, <1>3, OffIsNoItem DEF Busy, Driving

LEMMA RecoverHands ==
  ASSUME Now, NEW p \in Processes, Recovery!Recover(p, record)
  PROVE  HandInv'
<1>1. /\ Recovery!Scanning(p) /\ chat' = chat /\ call' = call /\ sends' = sends /\ cut' = cut
  BY DEF Recovery!Recover, Recovery!aux
<1>2. CASE ~(Recovery!Stranded(record) /\ claims[Recovery!Token(record)] = 0)
  <2>1. record' = record /\ retry' = retry /\ delivery' = delivery
    BY <1>2 DEF Recovery!Recover
  <2>2. SamePlace
    BY <2>1 DEF SamePlace
  <2> QED
    BY <1>1, <2>1, <2>2, TimersStop
<1>3. CASE Recovery!Stranded(record) /\ claims[Recovery!Token(record)] = 0
  <2>0. Recovery!Recovered(p, record)
    BY <1>3 DEF Recovery!Recover
  <2>1. \A q \in Processes : ~Hand(q) /\ ~Busy(q)' /\ call'[q].phase # "called" /\ call'[q] = Recovery!NoCall
    BY <1>1, <1>3, WhileScanning DEF Hand, Busy
  <2>2. CASE record.state = "processing"
    <3> DEFINE r == Recovery!Rebuffered(record, {})
    <3>1. record' = [r EXCEPT !.state = IF record.late = {} THEN "idle" ELSE "buffering"]
      BY <2>0, <2>2 DEF Recovery!Recovered, Recovery!RetryPending
    <3>2. retry' = Recovery!Set(retry, p, Recovery!Off) /\ delivery' = Recovery!Set(delivery, p, Recovery!Off)
      BY <2>0, <2>2 DEF Recovery!Recovered, Recovery!RetryPending
    <3>a. /\ record'.turn = 0 /\ record'.cursor = 1 /\ record'.last = record.last /\ record'.attempt = 0
          /\ record'.sent = FALSE /\ record'.awaiting = FALSE /\ record'.state # "sending"
          /\ record.cursor \in Nat /\ record.last \in Nat
      BY <3>1, NowHands, RecordFields DEF Recovery!Rebuffered, StoredRecords
    <3> HIDE DEF r
    <3>3. TimersOff'
      <4>1. CASE Recovery!OneReplica
        BY <1>1, <3>2, <4>1, WhileScanning, ResetAlone
      <4>2. CASE ~Recovery!OneReplica
        <5>1. TimersOff
          BY <2>2, <4>2, OneMessage, NowHands, NoTurnNoTimers DEF RecordOK
        <5> QED
          BY <3>2, <5>1, NowHands DEF TimersOff, Recovery!Set
      <4> QED
        BY <4>1, <4>2
    <3>4. TimersPassed' /\ (Recovery!OneReplica => TimersOff')
      BY <3>3 DEF TimersOff, TimersPassed, Passed
    <3>5. record'.cursor \in Nat \ {0}
      BY <3>a
    <3> QED
      BY <1>1, <2>1, <3>a, <3>4, <3>5, NowHands, HandsCleared
  <2>3. CASE Recovery!RetryPending(record) /\ record.state # "processing"
    <3>1. PICK t : t = [item |-> Recovery!Item(record), attempt |-> record.attempt, left |-> record.retryIn]
      OBVIOUS
    <3>2. retry' = Recovery!Set(retry, p, t) /\ record' = record /\ delivery' = delivery
      BY <2>0, <2>3, <3>1 DEF Recovery!Recovered
    <3>3. Sending /\ record.attempt > 0 /\ ~record.sent /\ ~record.awaiting /\ Sending' /\ Cur' = Cur /\ t.item = Cur
      BY <2>3, <3>1, <3>2, NowHands DEF Recovery!RetryPending, Sending, RecordOK, Cur
    <3>4. Unsent /\ Unsent'
      <4>1. \A q \in Processes : ~Busy(q)
        BY <1>1, WhileScanning
      <4>2. Unsent
        BY <3>3, <4>1, NowHands DEF FreshOK
      <4> QED
        BY <1>1, <3>3, <4>2 DEF Unsent
    <3>5. retry'[p] = t /\ \A q \in Processes : q # p => retry'[q] = retry[q]
      BY <3>2, NowHands DEF Recovery!Set
    <3>6. /\ \A q \in Processes : ~Driving(q)'
          /\ \A q \in Processes : Retrying(q)' => q = p
      BY <1>1, <2>1, <3>2, <3>3, <3>5 DEF Driving, Retrying, Hand
    <3>7. RecordOK' /\ CallsOK' /\ HandsOK'
      BY <2>1, <3>2, <3>3, <3>6, NowHands DEF RecordOK, CallsOK, HandsOK, Hand
    <3>8. TimersOK'
      <4>1. Passed(t)
        <5>1. Cur[1] = record.turn /\ Cur[2] = record.cursor /\ record.turn # 0 /\ record.cursor \in 1 .. Items
          BY <3>3, NowHands, NowTypes, RecordFields DEF Cur, Recovery!Item, Sending, Recovery!HasItem, RecordOK
        <5> QED
          BY <3>3, <5>1 DEF Passed
      <4>2. TimersPassed'
        BY <3>2, <3>5, <4>1, NowHands DEF TimersOK, TimersPassed, Passed
      <4>3. \A q \in Processes : Retrying(q)' => record'.attempt = retry'[q].attempt /\ record'.attempt > 0
        BY <3>1, <3>2, <3>3, <3>5, <3>6
      <4> QED
        BY <3>2, <3>3, <4>2, <4>3, NowHands DEF TimersOK
    <3>9. FreshOK'
      <4>1. OnceSent'
        BY <1>1, NowHands DEF FreshOK, OnceSent
      <4> QED
        BY <1>1, <3>2, <3>4, <4>1, NowHands DEF FreshOK
    <3> QED
      BY <3>7, <3>8, <3>9 DEF HandInv
  <2>4. CASE ~Recovery!RetryPending(record) /\ record.state # "processing"
    <3>1. PICK t : t = [item |-> Recovery!Item(record), attempt |-> 0, left |-> Timeout]
      OBVIOUS
    <3>2. delivery' = Recovery!Set(delivery, p, t) /\ record' = record /\ retry' = retry
      BY <2>0, <2>4, <3>1 DEF Recovery!Recovered
    <3>3. Sending /\ record.awaiting /\ Sending' /\ Cur' = Cur /\ t.item = Cur
      BY <1>3, <2>4, <3>1, <3>2 DEF Recovery!Stranded, Recovery!DeliveryPending, Sending, Cur
    <3>4. \A q \in Processes : ~Driving(q)' /\ ~Retrying(q)'
      BY <1>1, <2>1, <3>2, <3>3 DEF Driving, Retrying, Hand
    <3>5. RecordOK' /\ CallsOK' /\ HandsOK'
      BY <2>1, <3>2, <3>3, <3>4, NowHands DEF RecordOK, CallsOK, HandsOK, Hand
    <3>6. TimersOK'
      <4>1. Passed(t)
        <5>1. Cur[1] = record.turn /\ Cur[2] = record.cursor /\ record.turn # 0 /\ record.cursor \in 1 .. Items
          BY <3>3, NowHands, NowTypes, RecordFields DEF Cur, Recovery!Item, Sending, Recovery!HasItem, RecordOK
        <5> QED
          BY <3>3, <5>1 DEF Passed
      <4>2. \A q \in Processes : delivery'[q] = t \/ delivery'[q] = delivery[q]
        BY <3>2, NowHands DEF Recovery!Set
      <4>3. TimersPassed'
        BY <3>2, <4>1, <4>2, NowHands DEF TimersOK, TimersPassed, Passed
      <4> QED
        BY <3>2, <3>3, <3>4, <4>3, NowHands DEF TimersOK
    <3>7. FreshOK'
      <4>1. OnceSent'
        BY <1>1, NowHands DEF FreshOK, OnceSent
      <4>2. \A q \in Processes : ~Busy(q)
        BY <1>1, WhileScanning
      <4>3. Unsent => Unsent'
        BY <1>1, <3>3 DEF Unsent
      <4> QED
        BY <1>1, <2>1, <3>2, <3>3, <3>4, <4>1, <4>2, <4>3, NowHands DEF FreshOK
    <3> QED
      BY <3>5, <3>6, <3>7 DEF HandInv
  <2> QED
    BY <2>2, <2>3, <2>4
<1> QED
  BY <1>2, <1>3

-----------------------------------------------------------------------------
(* Where the messages are *)

\* What Now says of the messages.
LEMMA NowBook ==
  ASSUME Now
  PROVE  /\ PlacesOK /\ BatchesOK /\ SettledOK /\ OneTurn /\ LateIsNotBuffered(record)
         /\ deployment' = deployment
BY DEF Now, BookInv, StoredInv

LEMMA PlacesKept ==
  ASSUME Now, NEW p \in up, up' = up, booting' \subseteq booting,
         \A q \in Processes : q # p => /\ chat'[q] = chat[q] /\ call'[q] = call[q]
                                       /\ retry'[q] = retry[q] /\ delivery'[q] = delivery[q]
  PROVE  PlacesOK'
BY NowBook DEF PlacesOK, Recovery!Replicas

\* The messages stay where they are.
LEMMA BookRests ==
  ASSUME Now, PlacesOK',
         \A q \in Processes : chat'[q] = chat[q] \/ (chat'[q] = Recovery!NoChat /\ chat[q].batch = {}),
         settled' = settled, record'.last = record.last, StoredIn(record') = StoredIn(record),
         record'.buffer # {} <=> record'.state = "buffering",
         record'.state = "processing" => record.state = "processing",
         \A q \in Processes : chat[q].batch # {} => record'.state = "processing",
         ~Recovery!OneReplica => record'.late = {} /\ (record'.state # "idle" => record.state # "idle")
  PROVE  BookInv'
<1>1. \A q \in Processes : chat'[q].batch = chat[q].batch /\ (chat'[q].at = "none" \/ chat'[q].at = chat[q].at)
  BY OffIsNoItem
<1>2. \A q \in Processes : chat'[q].batch # {} <=> chat'[q].at \in {"called", "aborted"}
  BY OffIsNoItem, NowBook DEF BatchesOK
<1>3. BatchesOK'
  BY <1>1, <1>2, NowBook DEF BatchesOK
<1>4. SettledOK'
  BY <1>1, NowBook DEF SettledOK
<1>5. {chat'[q].batch : q \in Processes} = {chat[q].batch : q \in Processes}
  BY <1>1
<1>6. (Recovery!Accepted)' = Recovery!Accepted
  BY <1>5 DEF Recovery!Accepted, StoredIn
<1>7. OneTurn'
  <2>1. CASE Recovery!OneReplica
    BY <2>1, NowBook DEF OneTurn, Recovery!OneReplica, Recovery!Replicas
  <2>2. CASE ~Recovery!OneReplica
    BY <1>1, <1>6, <2>2, NowBook, OneMessage DEF OneTurn
  <2> QED
    BY <2>1, <2>2
<1> QED
  BY <1>3, <1>4, <1>7 DEF BookInv

\* The batch of a turn is settled, or goes back into the buffer.
LEMMA BatchLeaves ==
  ASSUME Now, PlacesOK', NEW p \in Processes, NEW c, c.batch = {}, c.at \in {"none", "attached"},
         chat[p].batch # {}, chat' = Recovery!Set(chat, p, c),
         \/ settled' = settled \union chat[p].batch /\ StoredIn(record') = StoredIn(record)
         \/ settled' = settled /\ StoredIn(record') = StoredIn(record) \union chat[p].batch,
         record'.last <= Cardinality(settled'),
         record'.buffer # {} <=> record'.state = "buffering", record'.state # "processing",
         ~Recovery!OneReplica => record'.late = {} /\ \A q \in Processes : chat'[q].at = "attached" => record'.last # 0
  PROVE  BookInv'
<1>1. chat'[p] = c /\ \A q \in Processes : q # p => chat'[q] = chat[q]
  BY NowHands DEF Recovery!Set
<1>2. \A q \in Processes : chat'[q].batch = {}
  BY <1>1, NowBook DEF BatchesOK
<1>3. BatchesOK'
  <2>1. \A q \in Processes : ~(chat'[q].at \in {"called", "aborted"})
    BY <1>1, NowBook DEF BatchesOK
  <2> QED
    BY <1>2, <2>1 DEF BatchesOK
<1>4. SettledOK'
  <2>1. StoredIn(record') \intersect settled' = {}
    BY NowBook DEF SettledOK
  <2> QED
    BY <1>2, <2>1 DEF SettledOK
<1>5. (Recovery!Accepted)' = Recovery!Accepted
  <2>1. UNION {chat'[q].batch : q \in Processes} = {}
    BY <1>2
  <2>2. UNION {chat[q].batch : q \in Processes} = chat[p].batch
    BY NowBook DEF BatchesOK
  <2> QED
    BY <2>1, <2>2 DEF Recovery!Accepted, StoredIn
<1>6. OneTurn'
  <2>1. CASE Recovery!OneReplica
    BY <2>1, NowBook DEF OneTurn, Recovery!OneReplica, Recovery!Replicas
  <2>2. CASE ~Recovery!OneReplica
    <3>1. record.state # "idle"
      BY NowBook DEF BatchesOK
    <3> QED
      BY <1>5, <2>2, <3>1, NowBook, OneMessage DEF OneTurn
  <2> QED
    BY <2>1, <2>2
<1> QED
  BY <1>3, <1>4, <1>6 DEF BookInv

LEMMA FinalizedBook ==
  ASSUME NEW r \in StoredRecords, LateIsNotBuffered(r), r.buffer # {} <=> r.state = "buffering"
  PROVE  /\ Recovery!Finalized(r).last = r.last /\ Recovery!Finalized(r).late = {}
         /\ StoredIn(Recovery!Finalized(r)) = StoredIn(r)
         /\ Recovery!Finalized(r).state \in {"idle", "buffering"}
         /\ Recovery!Finalized(r).buffer # {} <=> Recovery!Finalized(r).state = "buffering"
         /\ Recovery!Finalized(r).state # "idle" => r.late # {} \/ r.state = "buffering"
<1>1. CASE r.late # {}
  <2>1. {} \in SUBSET Inbounds /\ StoredIn(r) \union {} = StoredIn(r) /\ StoredIn(r) # {}
    BY <1>1 DEF StoredIn
  <2>2. Recovery!Finalized(r) = Recovery!Rebuffered(r, {})
    BY <1>1 DEF Recovery!Finalized
  <2>3. /\ Recovery!Finalized(r).state = "buffering" /\ Recovery!Finalized(r).late = {}
        /\ Recovery!Finalized(r).buffer = StoredIn(r)
    <3> DEFINE f == Recovery!Rebuffered(r, {})
    <3>1. f.state = "buffering" /\ f.late = {} /\ f.buffer = StoredIn(r) \union {}
      BY <2>1, RebufferedKeeps, Zenon
    <3>2. Recovery!Finalized(r) = f
      BY <2>2
    <3> HIDE DEF f
    <3> QED
      BY <2>1, <3>1, <3>2
  <2> QED
    BY <1>1, <2>1, <2>3, FinalizedPlace, FinalizedKeeps
<1>2. CASE r.late = {} /\ r.state = "buffering" /\ r.buffer # {}
  <2>1. Recovery!Finalized(r) = [r EXCEPT !.awaiting = FALSE]
    BY <1>2 DEF Recovery!Finalized
  <2> QED
    BY <1>2, <2>1 DEF StoredRecords, StoredIn
<1>3. CASE r.late = {} /\ ~(r.state = "buffering" /\ r.buffer # {})
  <2>1. Recovery!Finalized(r) = [r EXCEPT !.state = "idle", !.awaiting = FALSE]
    BY <1>3 DEF Recovery!Finalized
  <2> QED
    BY <1>3, <2>1 DEF StoredRecords, StoredIn
<1> QED
  BY <1>1, <1>2, <1>3

\* advanceAndContinue moves no message, unless late ones start the next turn.
LEMMA AdvanceBook ==
  ASSUME Now, NEW p \in up, Sending, Recovery!Advance(p, record),
         chat' = chat, settled' = settled, up' = up, booting' = booting
  PROVE  BookInv'
<1> DEFINE r == [record EXCEPT !.cursor = IF Recovery!HasItem(record) THEN @ + 1 ELSE @, !.awaiting = FALSE,
                               !.attempt = 0, !.retryIn = 0, !.sent = FALSE]
<1>1. /\ record \in StoredRecords /\ record.state = "sending" /\ record.buffer = {}
      /\ \A q \in Processes : chat[q].batch = {}
  BY NowHands, NowBook DEF RecordOK, BatchesOK
<1>2. (IF Recovery!HasItem(record) THEN record.cursor + 1 ELSE record.cursor) \in Nat
  BY <1>1, RecordFields
<1>3. /\ r \in StoredRecords /\ r.state = "sending" /\ r.buffer = {} /\ r.late = record.late
      /\ r.last = record.last
  BY <1>1, <1>2 DEF StoredRecords
<1>4. delivery' = Recovery!Set(delivery, p, Recovery!Off) /\ Recovery!SendNext(p, r)
  BY DEF Recovery!Advance
<1> HIDE DEF r
<1>5. LateIsNotBuffered(r) /\ StoredIn(r) = StoredIn(record)
  BY <1>1, <1>3 DEF LateIsNotBuffered, StoredIn
<1>6. PlacesOK'
  <2>1. \A q \in Processes : q # p => /\ call'[q] = call[q] /\ retry'[q] = retry[q]
                                      /\ delivery'[q] = delivery[q]
    BY <1>4, NowHands DEF Recovery!SendNext, Recovery!Set
  <2> QED
    BY <2>1, PlacesKept
<1>7. CASE Recovery!HasItem(r)
  <2>1. record' = r
    BY <1>4, <1>7 DEF Recovery!SendNext
  <2> QED
    BY <1>1, <1>3, <1>5, <1>6, <2>1, OneMessage, BookRests
<1>8. CASE ~Recovery!HasItem(r)
  <2>1. record' = Recovery!Finalized(r)
    BY <1>4, <1>8 DEF Recovery!SendNext
  <2>2. /\ record'.last = record.last /\ record'.late = {} /\ StoredIn(record') = StoredIn(record)
        /\ record'.state \in {"idle", "buffering"}
        /\ record'.buffer # {} <=> record'.state = "buffering"
    BY <1>3, <1>5, <2>1, FinalizedBook
  <2> QED
    BY <1>1, <1>6, <2>2, BookRests
<1> QED
  BY <1>7, <1>8

\* Steps of a send call and of a timer.
LEMMA SendBook ==
  ASSUME Now, NEW p \in Processes,
         \/ Recovery!SendReaches(p) \/ Recovery!SendEnds(p, record) \/ Recovery!RetryFires(p, record)
         \/ Recovery!DeliveryTimesOut(p, record) \/ Recovery!StatusArrives(p, record)
  PROVE  BookInv'
<1>1. /\ chat' = chat /\ settled' = settled /\ up' = up /\ booting' = booting
  BY DEF Recovery!SendEnds, Recovery!SendReaches, Recovery!SendSaved, Recovery!SendDone,
    Recovery!SendFailsTransiently, Recovery!SendSkipped, Recovery!RetryFires, Recovery!DeliveryTimesOut,
    Recovery!StatusArrives, Recovery!memory, Recovery!aux
<1>2. p \in up
  <2>1. CASE Recovery!SendReaches(p) \/ Recovery!SendEnds(p, record)
    <3>1. Busy(p)
      BY <2>1 DEF Recovery!SendEnds, Recovery!SendReaches, Recovery!SendSaved, Recovery!SendDone,
        Recovery!SendFailsTransiently, Recovery!SendSkipped, Busy
    <3> QED
      BY <3>1, HandsUnderWay
  <2> QED
    BY <2>1 DEF Recovery!RetryFires, Recovery!DeliveryTimesOut, Recovery!StatusArrives, Recovery!Free
<1>3. ASSUME /\ record'.state = record.state /\ record'.last = record.last
             /\ record'.buffer = record.buffer /\ record'.late = record.late,
             \A q \in Processes : q # p => /\ call'[q] = call[q] /\ retry'[q] = retry[q]
                                           /\ delivery'[q] = delivery[q]
      PROVE  BookInv'
  <2>1. PlacesOK'
    BY <1>1, <1>2, <1>3, PlacesKept
  <2>2. /\ StoredIn(record') = StoredIn(record)
        /\ \A q \in Processes : chat[q].batch # {} => record'.state = "processing"
        /\ record'.buffer # {} <=> record'.state = "buffering"
    BY <1>3, NowBook DEF StoredIn, BatchesOK
  <2>3. ~Recovery!OneReplica => record'.late = {} /\ (record'.state # "idle" => record.state # "idle")
    BY <1>3, OneMessage
  <2> QED
    BY <1>1, <1>3, <2>1, <2>2, <2>3, BookRests
<1>4. ASSUME Recovery!Advance(p, record), Sending PROVE BookInv'
  BY <1>1, <1>2, <1>4, AdvanceBook
<1>5. CASE Recovery!SendReaches(p)
  <2>1. /\ record' = record /\ retry' = retry /\ delivery' = delivery
        /\ \A q \in Processes : q # p => call'[q] = call[q]
    BY <1>5, NowHands DEF Recovery!SendReaches
  <2> QED
    BY <1>3, <2>1
<1>6. CASE Recovery!SendSaved(p, record)
  <2>1. /\ retry' = retry /\ delivery' = delivery /\ \A q \in Processes : q # p => call'[q] = call[q]
        /\ record' = IF Recovery!HasItem(record)
                     THEN [record EXCEPT !.sent = TRUE, !.attempt = 0, !.retryIn = 0] ELSE record
    BY <1>6, NowHands DEF Recovery!SendSaved
  <2>2. /\ record'.state = record.state /\ record'.last = record.last
        /\ record'.buffer = record.buffer /\ record'.late = record.late
    BY <2>1, NowHands DEF StoredRecords
  <2> QED
    BY <1>3, <2>1, <2>2
<1>7. CASE Recovery!SendDone(p, record)
  <2>0. Sending
    BY <1>7, HandsUnderWay DEF Recovery!SendDone, Busy
  <2>1. CASE Recovery!OnStatus
    <3>1. /\ record' = [record EXCEPT !.awaiting = TRUE] /\ retry' = retry
          /\ \A q \in Processes : q # p => call'[q] = call[q] /\ delivery'[q] = delivery[q]
      BY <1>7, <2>1, NowHands DEF Recovery!SendDone, Recovery!Set
    <3>2. /\ record'.state = record.state /\ record'.last = record.last
          /\ record'.buffer = record.buffer /\ record'.late = record.late
      BY <3>1, NowHands DEF StoredRecords
    <3> QED
      BY <1>3, <3>1, <3>2
  <2>2. CASE ~Recovery!OnStatus
    BY <1>4, <1>7, <2>0, <2>2 DEF Recovery!SendDone
  <2> QED
    BY <2>1, <2>2
<1>8. CASE Recovery!SendFailsTransiently(p, record)
  <2>1. PICK attempt : attempt = call[p].attempt + 1
    OBVIOUS
  <2>2. /\ \A q \in Processes : q # p => /\ call'[q] = call[q] /\ retry'[q] = retry[q]
                                         /\ delivery'[q] = delivery[q]
        /\ record' = record \/ record' = [record EXCEPT !.attempt = attempt, !.retryIn = RetryDelay]
    BY <1>8, <2>1, NowHands DEF Recovery!SendFailsTransiently, Recovery!Set
  <2>3. /\ record'.state = record.state /\ record'.last = record.last
        /\ record'.buffer = record.buffer /\ record'.late = record.late
    BY <2>2, NowHands DEF StoredRecords
  <2> QED
    BY <1>3, <2>2, <2>3
<1>9. CASE Recovery!SendSkipped(p, record)
  <2>1. Sending
    BY <1>9, HandsUnderWay DEF Recovery!SendSkipped, Busy
  <2> QED
    BY <1>4, <1>9, <2>1 DEF Recovery!SendSkipped
<1>10. CASE Recovery!RetryFires(p, record)
  <2>1. /\ record' = record /\ delivery' = delivery
        /\ \A q \in Processes : q # p => call'[q] = call[q] /\ retry'[q] = retry[q]
    BY <1>10, NowHands DEF Recovery!RetryFires, Recovery!Set
  <2> QED
    BY <1>3, <2>1
<1>11. CASE Recovery!DeliveryTimesOut(p, record)
  <2>1. CASE record.cursor = delivery[p].item[2]
    <3>1. Recovery!Advance(p, record) /\ delivery[p] # Recovery!Off
      BY <1>11, <2>1 DEF Recovery!DeliveryTimesOut
    <3>2. Sending
      BY <2>1, <3>1, NowHands, NowTypes DEF TimersOK, TimersPassed, Passed, Sending, Recovery!HasItem
    <3> QED
      BY <1>4, <3>1, <3>2
  <2>2. CASE record.cursor # delivery[p].item[2]
    <3>1. /\ record' = record /\ retry' = retry /\ call' = call
          /\ \A q \in Processes : q # p => delivery'[q] = delivery[q]
      BY <1>11, <2>2, NowHands DEF Recovery!DeliveryTimesOut, Recovery!Set
    <3> QED
      BY <1>3, <3>1
  <2> QED
    BY <2>1, <2>2
<1>12. CASE Recovery!StatusArrives(p, record)
  BY <1>4, <1>12, StatusFindsNone DEF Recovery!StatusArrives
<1> QED
  BY <1>5, <1>6, <1>7, <1>8, <1>9, <1>10, <1>11, <1>12 DEF Recovery!SendEnds

LEMMA DriveBook ==
  ASSUME Now, NEW p \in Processes, Recovery!Drive(p, record)
  PROVE  BookInv'
<1>1. /\ chat[p].at = "attached" /\ p \in up /\ settled' = settled /\ up' = up /\ booting' = booting
      /\ chat' = Recovery!Set(chat, p, Recovery!NoChat) /\ Recovery!SendNext(p, record)
      /\ delivery' = delivery \/ delivery' = Recovery!Set(delivery, p, Recovery!Off)
  BY DEF Recovery!Drive, Recovery!Free, Recovery!aux, Recovery!memory
<1>2. chat[p].batch = {}
  BY <1>1, NowBook DEF BatchesOK
<1>3. /\ \A q \in Processes : q # p => chat'[q] = chat[q]
      /\ \A q \in Processes : chat'[q] = chat[q] \/ (chat'[q] = Recovery!NoChat /\ chat[q].batch = {})
  BY <1>1, <1>2, NowHands DEF Recovery!Set
<1>4. PlacesOK'
  <2>1. \A q \in Processes : q # p => /\ call'[q] = call[q] /\ retry'[q] = retry[q]
                                      /\ delivery'[q] = delivery[q]
    BY <1>1, NowHands DEF Recovery!SendNext, Recovery!Set
  <2> QED
    BY <1>1, <1>3, <2>1, PlacesKept
<1>5. CASE Recovery!HasItem(record)
  <2>1. record' = record
    BY <1>1, <1>5 DEF Recovery!SendNext
  <2>2. /\ record'.buffer # {} <=> record'.state = "buffering"
        /\ \A q \in Processes : chat[q].batch # {} => record'.state = "processing"
    BY <2>1, NowBook DEF BatchesOK
  <2> QED
    BY <1>1, <1>3, <1>4, <2>1, <2>2, OneMessage, BookRests
<1>6. CASE ~Recovery!HasItem(record)
  <2>1. record' = Recovery!Finalized(record)
    BY <1>1, <1>6 DEF Recovery!SendNext
  <2>2. /\ record'.last = record.last /\ record'.late = {} /\ StoredIn(record') = StoredIn(record)
        /\ record'.state \in {"idle", "buffering"}
        /\ record'.buffer # {} <=> record'.state = "buffering"
        /\ record'.state # "idle" => record.late # {} \/ record.state = "buffering"
    BY <2>1, NowBook, NowHands, FinalizedBook DEF BatchesOK
  <2>3. \A q \in Processes : chat[q].batch = {}
    <3>1. CASE Recovery!OneReplica
      BY <1>1, <1>2, <3>1, OthersEmpty, OffIsNoItem
    <3>2. CASE ~Recovery!OneReplica
      <4>1. SUFFICES ASSUME NEW q \in Processes, chat[q].batch # {} PROVE FALSE
        OBVIOUS
      <4>2. record.state = "processing"
        BY <4>1, NowBook DEF BatchesOK
      <4> QED
        BY <1>1, <3>2, <4>2, OneMessage
    <3> QED
      BY <3>1, <3>2
  <2>4. ~Recovery!OneReplica => record'.late = {} /\ (record'.state # "idle" => record.state # "idle")
    BY <2>2, OneMessage
  <2> QED
    BY <1>1, <1>3, <1>4, <2>2, <2>3, <2>4, BookRests
<1> QED
  BY <1>5, <1>6

\* A turn whose batch is settled counts one more message, or more.
LEMMA SettledGrows ==
  ASSUME Now, NEW p \in Processes, settled' = settled \union chat[p].batch
  PROVE  /\ Cardinality(settled') \in Nat /\ record.last \in Nat /\ record.last <= Cardinality(settled')
         /\ chat[p].batch # {} => record.last + 1 <= Cardinality(settled')
<1>1. /\ IsFiniteSet(settled) /\ Cardinality(settled) \in Nat /\ record.last \in Nat
      /\ record.last <= Cardinality(settled) /\ settled' \subseteq Inbounds
  <2>1. chat[p].batch \subseteq Inbounds
    BY NowHands DEF ChatsOf
  <2> QED
    BY <2>1, NowTypes, NowHands, NowBook, RecordFields DEF SettledOK, Now, RestartTypeOK
<1>2. IsFiniteSet(settled') /\ Cardinality(settled') \in Nat
  BY <1>1, InboundsAreFinite, FS_Subset, FS_CardinalityType
<1>3. Cardinality(settled) <= Cardinality(settled')
  BY <1>2, FS_Subset
<1>4. ASSUME chat[p].batch # {} PROVE Cardinality(settled) + 1 <= Cardinality(settled')
  <2>1. PICK x \in chat[p].batch : TRUE
    BY <1>4
  <2>2. x \notin settled
    BY <2>1, NowBook DEF SettledOK
  <2>3. IsFiniteSet(settled \union {x}) /\ Cardinality(settled \union {x}) = Cardinality(settled) + 1
    BY <1>1, <2>2, FS_AddElement
  <2>4. settled \union {x} \subseteq settled'
    BY <2>1
  <2> QED
    BY <1>2, <2>3, <2>4, FS_Subset
<1> QED
  BY <1>1, <1>2, <1>3, <1>4

LEMMA ChatBook ==
  ASSUME Now, NEW p \in Processes, Recovery!ChatEnds(p, record)
  PROVE  BookInv'
<1>1. /\ p \in up /\ chat[p].at \in {"called", "aborted"} /\ up' = up /\ booting' = booting
      /\ \A q \in Processes : q # p => /\ chat'[q] = chat[q] /\ call'[q] = call[q]
                                       /\ retry'[q] = retry[q] /\ delivery'[q] = delivery[q]
  BY NowHands DEF Recovery!ChatEnds, Recovery!ChatAnswers, Recovery!ChatIsSilent, Recovery!ChatFails,
    Recovery!ChatAborted, Recovery!Finalize, Recovery!Free, Recovery!Set, Recovery!memory
<1>2. PlacesOK'
  BY <1>1, PlacesKept
<1>3. /\ chat[p].batch # {} /\ record.state = "processing" /\ record.buffer = {}
      /\ record \in StoredRecords
  BY <1>1, NowBook, NowHands DEF BatchesOK
<1>4. CASE Recovery!ChatAnswers(p, record)
  <2>1. PICK c : c = [at |-> "attached", batch |-> {}]
    OBVIOUS
  <2>2. /\ chat' = Recovery!Set(chat, p, c) /\ settled' = settled \union chat[p].batch
        /\ record' = [record EXCEPT !.turn = record.last + 1, !.last = @ + 1, !.cursor = 1, !.state = "sending",
                        !.awaiting = FALSE, !.attempt = 0, !.retryIn = 0, !.sent = FALSE]
    BY <1>4, <2>1 DEF Recovery!ChatAnswers
  <2>3. /\ record'.last = record.last + 1 /\ record'.state = "sending" /\ record'.buffer = {}
        /\ record'.late = record.late /\ StoredIn(record') = StoredIn(record)
    BY <1>3, <2>2, RecordFields DEF StoredRecords, StoredIn
  <2>4. record'.last <= Cardinality(settled') /\ record'.last # 0
    <3>1. record.last + 1 <= Cardinality(settled') /\ record.last \in Nat
      BY <1>3, <2>2, SettledGrows
    <3> QED
      BY <2>3, <3>1
  <2>5. ~Recovery!OneReplica => record'.late = {} /\ \A q \in Processes : chat'[q].at = "attached" => record'.last # 0
    BY <2>3, <2>4, OneMessage
  <2>6. c.batch = {} /\ c.at \in {"none", "attached"}
    BY <2>1
  <2> QED
    BY <1>2, <1>3, <2>2, <2>3, <2>4, <2>5, <2>6, BatchLeaves
<1>5. CASE Recovery!ChatIsSilent(p, record) \/ Recovery!ChatFails(p, record)
  <2>1. /\ chat' = Recovery!Set(chat, p, Recovery!NoChat) /\ settled' = settled \union chat[p].batch
        /\ chat[p].at = "called"
    BY <1>5 DEF Recovery!ChatIsSilent, Recovery!ChatFails
  <2>2. /\ record'.last = record.last /\ record'.late = {} /\ StoredIn(record') = StoredIn(record)
        /\ record'.state \in {"idle", "buffering"}
        /\ record'.buffer # {} <=> record'.state = "buffering"
    <3>1. CASE Recovery!ChatIsSilent(p, record)
      <4>1. record' = Recovery!Finalized(record)
        BY <3>1 DEF Recovery!ChatIsSilent, Recovery!Finalize
      <4> QED
        BY <1>3, <4>1, NowBook, FinalizedBook
    <3>2. CASE Recovery!ChatFails(p, record) /\ record.late # {}
      <4>1. record' = [record EXCEPT !.state = "buffering", !.awaiting = FALSE,
                                     !.buffer = @ \union record.late, !.late = {}]
        BY <3>2 DEF Recovery!ChatFails
      <4> QED
        BY <1>3, <3>2, <4>1 DEF StoredRecords, StoredIn
    <3>3. CASE Recovery!ChatFails(p, record) /\ record.late = {}
      <4>1. record' = [record EXCEPT !.state = "idle", !.awaiting = FALSE]
        BY <3>3 DEF Recovery!ChatFails
      <4> QED
        BY <1>3, <3>3, <4>1 DEF StoredRecords, StoredIn
    <3> QED
      BY <1>5, <3>1, <3>2, <3>3
  <2>3. record'.last <= Cardinality(settled')
    BY <2>1, <2>2, SettledGrows
  <2>4. \A q \in Processes : chat'[q].at # "attached"
    BY <1>1, <2>1, NowHands, BeforeTheTurn, OffIsNoItem DEF Recovery!Set
  <2>5. ~Recovery!OneReplica => record'.late = {} /\ \A q \in Processes : chat'[q].at = "attached" => record'.last # 0
    BY <2>2, <2>4
  <2>6. Recovery!NoChat.batch = {} /\ Recovery!NoChat.at \in {"none", "attached"} /\ record'.state # "processing"
    BY <2>2, OffIsNoItem
  <2> QED
    BY <1>2, <1>3, <2>1, <2>2, <2>3, <2>5, <2>6, BatchLeaves
<1>6. CASE Recovery!ChatAborted(p, record)
  <2>1. /\ chat' = Recovery!Set(chat, p, Recovery!NoChat) /\ settled' = settled
        /\ record' = [record EXCEPT !.state = "buffering", !.late = {},
                                    !.buffer = @ \union chat[p].batch \union record.late]
    BY <1>6 DEF Recovery!ChatAborted, Recovery!aux
  <2>2. /\ record'.last = record.last /\ record'.late = {} /\ record'.state = "buffering"
        /\ record'.buffer = StoredIn(record) \union chat[p].batch
        /\ StoredIn(record') = StoredIn(record) \union chat[p].batch
    BY <1>3, <2>1 DEF StoredRecords, StoredIn
  <2>3. record'.last <= Cardinality(settled')
    BY <2>1, <2>2, NowBook DEF SettledOK
  <2>4. \A q \in Processes : chat'[q].at = "attached" => chat[q].at = "attached"
    BY <2>1, NowHands, OffIsNoItem DEF Recovery!Set
  <2>5. ~Recovery!OneReplica => record'.late = {} /\ \A q \in Processes : chat'[q].at = "attached" => record'.last # 0
    BY <2>2, <2>4, OneMessage
  <2>6. /\ Recovery!NoChat.batch = {} /\ Recovery!NoChat.at \in {"none", "attached"} /\ record'.state # "processing"
        /\ record'.buffer # {} <=> record'.state = "buffering"
    BY <1>3, <2>2, OffIsNoItem
  <2> QED
    BY <1>2, <1>3, <2>1, <2>2, <2>3, <2>5, <2>6, BatchLeaves
<1> QED
  BY <1>4, <1>5, <1>6 DEF Recovery!ChatEnds

\* A message arrives in the record.
LEMMA ArrivesBook ==
  ASSUME Now, PlacesOK', NEW m \in deployment.inbound, m \notin Recovery!Accepted,
         \A q \in Processes :
           /\ chat'[q].batch = chat[q].batch
           /\ chat'[q].at \in {"called", "aborted"} <=> chat[q].at \in {"called", "aborted"}
           /\ chat'[q].at = "attached" => chat[q].at = "attached",
         settled' = settled, record'.last = record.last, StoredIn(record') = StoredIn(record) \union {m},
         record'.buffer # {} <=> record'.state = "buffering",
         \A q \in Processes : chat[q].batch # {} => record'.state = "processing",
         ~Recovery!OneReplica => record'.late = {} /\ record'.state # "processing"
  PROVE  BookInv'
<1>1. BatchesOK'
  BY NowBook DEF BatchesOK
<1>2. m \notin settled /\ \A q \in Processes : m \notin chat[q].batch
  BY DEF Recovery!Accepted
<1>3. SettledOK'
  BY <1>2, NowBook DEF SettledOK
<1>4. {chat'[q].batch : q \in Processes} = {chat[q].batch : q \in Processes}
  OBVIOUS
<1>5. (Recovery!Accepted)' = Recovery!Accepted \union {m}
  BY <1>4 DEF Recovery!Accepted, StoredIn
<1>6. OneTurn'
  <2>1. CASE Recovery!OneReplica
    BY <2>1, NowBook DEF OneTurn, Recovery!OneReplica, Recovery!Replicas
  <2>2. CASE ~Recovery!OneReplica
    <3>1. deployment'.inbound \subseteq {m} /\ m \in deployment'.inbound
      BY <2>2, NowBook, OneMessage
    <3>2. (Recovery!Accepted)' \subseteq deployment'.inbound /\ deployment'.inbound \subseteq (Recovery!Accepted)'
      BY <1>5, <2>2, <3>1, NowBook, OneMessage
    <3>3. \A q \in Processes : chat'[q].at = "attached" => record'.last # 0
      BY <2>2, OneMessage
    <3> QED
      BY <2>2, <3>2, <3>3 DEF OneTurn
  <2> QED
    BY <2>1, <2>2
<1> QED
  BY <1>1, <1>3, <1>6 DEF BookInv

LEMMA InboundBook ==
  ASSUME Now, NEW p \in Processes, NEW m \in Inbounds, Recovery!Inbound(p, m, record)
  PROVE  BookInv'
<1>1. /\ p \in up /\ m \in deployment.inbound /\ m \notin Recovery!Accepted /\ m \in Inbounds
      /\ settled' = settled /\ up' = up /\ booting' = booting /\ call' = call /\ record \in StoredRecords
  BY NowHands DEF Recovery!Inbound, Recovery!Free, Recovery!aux, Recovery!memory
<1>2. record.state # "idle" => Recovery!OneReplica
  BY <1>1, OneMessage
<1>3. CASE record.state \in {"idle", "buffering"}
  <2>1. /\ record' = [record EXCEPT !.state = "buffering", !.buffer = @ \union {m}]
        /\ chat' = chat /\ retry' = retry /\ delivery' = delivery
    BY <1>3 DEF Recovery!Inbound
  <2>2. PlacesOK'
    BY <1>1, <2>1, PlacesKept
  <2>3. /\ record'.last = record.last /\ StoredIn(record') = StoredIn(record) \union {m}
        /\ record'.buffer # {} /\ record'.state = "buffering" /\ record'.late = record.late
    BY <1>1, <2>1 DEF StoredRecords, StoredIn
  <2>4. \A q \in Processes : chat[q].batch # {} => record'.state = "processing"
    BY <1>3, NowBook DEF BatchesOK
  <2> QED
    BY <1>1, <2>1, <2>2, <2>3, <2>4, OneMessage, ArrivesBook
<1>4. CASE record.state = "processing"
  <2>1. PICK c : c = [at |-> "aborted", batch |-> chat[p].batch]
    OBVIOUS
  <2>2. /\ record' = [record EXCEPT !.late = @ \union {m}] /\ retry' = retry /\ delivery' = delivery
        /\ chat' = IF chat[p].at = "called" THEN [chat EXCEPT ![p] = [chat[p] EXCEPT !.at = "aborted"]] ELSE chat
    BY <1>4 DEF Recovery!Inbound
  <2>3. [chat[p] EXCEPT !.at = "aborted"] = c
    BY <2>1, NowHands DEF ChatsOf
  <2>4. chat' = IF chat[p].at = "called" THEN [chat EXCEPT ![p] = c] ELSE chat
    BY <2>2, <2>3
  <2>5. \A q \in Processes : q # p => chat'[q] = chat[q]
    BY <2>4, NowHands
  <2>6. chat'[p] = chat[p] \/ (chat'[p] = c /\ chat[p].at = "called")
    BY <2>4, NowHands
  <2>7. PlacesOK'
    BY <1>1, <2>2, <2>5, PlacesKept
  <2>8. /\ record'.last = record.last /\ StoredIn(record') = StoredIn(record) \union {m}
        /\ record'.buffer = record.buffer /\ record'.state = record.state
    BY <1>1, <2>2 DEF StoredRecords, StoredIn
  <2>9. \A q \in Processes :
           /\ chat'[q].batch = chat[q].batch
           /\ chat'[q].at \in {"called", "aborted"} <=> chat[q].at \in {"called", "aborted"}
           /\ chat'[q].at = "attached" => chat[q].at = "attached"
    BY <2>1, <2>5, <2>6
  <2> QED
    BY <1>1, <1>2, <1>4, <2>7, <2>8, <2>9, NowBook, ArrivesBook DEF BatchesOK
<1>5. CASE record.state = "sending"
  <2>1. /\ record' = Recovery!Rebuffered(record, {m}) /\ chat' = chat
        /\ \A q \in Processes : q # p => retry'[q] = retry[q] /\ delivery'[q] = delivery[q]
    BY <1>5, NowHands DEF Recovery!Inbound, Recovery!Set
  <2>2. PlacesOK'
    BY <1>1, <2>1, PlacesKept
  <2>3. {m} \in SUBSET Inbounds
    BY <1>1
  <2>4. /\ record'.state = "buffering" /\ record'.buffer = StoredIn(record) \union {m} /\ record'.late = {}
    BY <1>1, <2>1, <2>3, RebufferedKeeps
  <2>5. record'.last = record.last
    BY <1>1, <2>1 DEF Recovery!Rebuffered, StoredRecords
  <2>6. StoredIn(record') = StoredIn(record) \union {m}
    BY <2>4 DEF StoredIn
  <2>7. \A q \in Processes : chat[q].batch # {} => record'.state = "processing"
    BY <1>5, NowBook DEF BatchesOK
  <2> QED
    BY <1>1, <1>2, <1>5, <2>1, <2>2, <2>4, <2>5, <2>6, <2>7, ArrivesBook
<1> QED
  BY <1>1, <1>3, <1>4, <1>5, RecordFields

LEMMA FlushBook ==
  ASSUME Now, NEW p \in Processes, Recovery!Flush(p, record)
  PROVE  BookInv'
<1>1. /\ p \in up /\ chat[p] = Recovery!NoChat /\ settled' = settled /\ up' = up /\ booting' = booting
      /\ call' = call /\ retry' = retry /\ delivery' = delivery /\ record \in StoredRecords
  BY NowHands DEF Recovery!Flush, Recovery!Free, Recovery!aux, Recovery!memory
<1>2. CASE record.buffer = {}
  <2>1. record' = record /\ chat' = chat
    BY <1>2 DEF Recovery!Flush
  <2>2. PlacesOK'
    BY <1>1, <2>1, PlacesKept
  <2> QED
    BY <1>1, <2>1, <2>2, NowBook, OneMessage, BookRests DEF BatchesOK
<1>3. CASE record.buffer # {}
  <2>1. PICK c : c = [at |-> "called", batch |-> record.buffer]
    OBVIOUS
  <2>2. /\ chat' = Recovery!Set(chat, p, c)
        /\ record' = [record EXCEPT !.state = "processing", !.buffer = {}, !.late = {}, !.nonce = @ + 1]
    BY <1>3, <2>1 DEF Recovery!Flush
  <2>3. /\ chat'[p] = c /\ \A q \in Processes : q # p => chat'[q] = chat[q]
        /\ c.at = "called" /\ c.batch = record.buffer
    BY <2>1, <2>2, NowHands DEF Recovery!Set
  <2>4. PlacesOK'
    BY <1>1, <2>3, PlacesKept
  <2>5. /\ record'.last = record.last /\ record'.buffer = {} /\ record'.late = {}
        /\ record'.state = "processing" /\ StoredIn(record') = {}
    BY <1>1, <2>2 DEF StoredRecords, StoredIn
  <2>6. record.state = "buffering" /\ record.late = {} /\ StoredIn(record) = record.buffer
    BY <1>3, NowBook DEF BatchesOK, LateIsNotBuffered, StoredIn
  <2>7. /\ \A q \in Processes : chat[q].batch = {} /\ ~(chat[q].at \in {"called", "aborted"})
        /\ \A q \in Processes : q # p => chat'[q].batch = {}
    BY <2>3, <2>6, NowBook DEF BatchesOK
  <2>8. BatchesOK'
    BY <1>3, <2>3, <2>5, <2>7 DEF BatchesOK
  <2>9. SettledOK'
    BY <1>1, <2>3, <2>5, <2>6, <2>7, NowBook DEF SettledOK
  <2>10. (Recovery!Accepted)' = Recovery!Accepted
    <3>1. UNION {chat'[q].batch : q \in Processes} = record.buffer
      BY <2>3, <2>7
    <3>2. UNION {chat[q].batch : q \in Processes} = {}
      BY <2>7
    <3> QED
      BY <1>1, <2>5, <2>6, <3>1, <3>2 DEF Recovery!Accepted
  <2>11. OneTurn'
    <3>1. CASE Recovery!OneReplica
      BY <3>1, NowBook DEF OneTurn, Recovery!OneReplica, Recovery!Replicas
    <3>2. CASE ~Recovery!OneReplica
      <4>1. settled = {}
        <5>1. PICK x \in record.buffer : TRUE
          BY <1>3
        <5>2. x \notin settled /\ x \in deployment.inbound /\ settled \subseteq deployment.inbound
          BY <2>6, <3>2, <5>1, NowBook, OneMessage DEF SettledOK, Recovery!Accepted
        <5> QED
          BY <3>2, <5>2, OneMessage
      <4>2. record.last = 0
        <5>1. record.last <= 0 /\ record.last \in Nat
          BY <1>1, <4>1, NowBook, FS_EmptySet, RecordFields DEF SettledOK
        <5> QED
          BY <5>1
      <4>3. \A q \in Processes : chat'[q].at # "attached"
        BY <2>3, <3>2, <4>2, OneMessage
      <4> QED
        BY <2>5, <2>6, <2>10, <3>2, <4>2, <4>3, NowBook, OneMessage DEF OneTurn
    <3> QED
      BY <3>1, <3>2
  <2> QED
    BY <2>4, <2>8, <2>9, <2>11 DEF BookInv
<1> QED
  BY <1>2, <1>3

LEMMA LostBook ==
  ASSUME Now, NEW p \in Processes, Recovery!Lost(p), record' = record
  PROVE  BookInv'
<1>1. /\ chat' = Recovery!Set(chat, p, Recovery!NoChat) /\ call' = Recovery!Set(call, p, Recovery!NoCall)
      /\ retry' = Recovery!Set(retry, p, Recovery!Off) /\ delivery' = Recovery!Set(delivery, p, Recovery!Off)
      /\ up' = up \ {p} /\ booting' = booting \ {p} /\ settled' = settled \union chat[p].batch
  BY DEF Recovery!Lost
<1>2. \A q \in Processes : q # p => /\ chat'[q] = chat[q] /\ call'[q] = call[q]
                                    /\ retry'[q] = retry[q] /\ delivery'[q] = delivery[q]
  BY <1>1, NowHands DEF Recovery!Set
<1>3. /\ chat'[p] = Recovery!NoChat /\ call'[p] = Recovery!NoCall
      /\ retry'[p] = Recovery!Off /\ delivery'[p] = Recovery!Off
  BY <1>1, NowHands DEF Recovery!Set
<1>4. PlacesOK'
  <2>1. up' \subseteq Recovery!Replicas' /\ booting' \subseteq up'
    BY <1>1, NowBook DEF PlacesOK, Recovery!Replicas
  <2>2. ASSUME NEW q \in Processes \ up'
        PROVE  /\ chat'[q] = Recovery!NoChat /\ call'[q] = Recovery!NoCall
               /\ retry'[q] = Recovery!Off /\ delivery'[q] = Recovery!Off
    BY <1>1, <1>2, <1>3, <2>2, NowBook DEF PlacesOK
  <2> QED
    BY <2>1, <2>2 DEF PlacesOK
<1>5. BatchesOK'
  BY <1>2, <1>3, OffIsNoItem, NowBook DEF BatchesOK
<1>6. SettledOK'
  <2>1. record'.last <= Cardinality(settled')
    BY <1>1, SettledGrows
  <2>2. \A q \in Processes : q # p => chat[q].batch \intersect chat[p].batch = {}
    BY NowBook DEF BatchesOK
  <2>3. StoredIn(record') \intersect settled' = {}
    BY <1>1, NowBook DEF SettledOK
  <2>4. ASSUME NEW q \in Processes
        PROVE  chat'[q].batch \intersect (StoredIn(record') \union settled') = {}
    BY <1>1, <1>2, <1>3, <2>2, OffIsNoItem, NowBook DEF SettledOK
  <2> QED
    BY <2>1, <2>3, <2>4 DEF SettledOK
<1>7. (Recovery!Accepted)' = Recovery!Accepted
  <2>1. (UNION {chat'[q].batch : q \in Processes}) \union chat[p].batch
          = UNION {chat[q].batch : q \in Processes}
    BY <1>2, <1>3, OffIsNoItem
  <2> QED
    BY <1>1, <2>1 DEF Recovery!Accepted
<1>8. OneTurn'
  <2>1. CASE Recovery!OneReplica
    BY <2>1, NowBook DEF OneTurn, Recovery!OneReplica, Recovery!Replicas
  <2>2. CASE ~Recovery!OneReplica
    BY <1>2, <1>3, <1>7, <2>2, OffIsNoItem, NowBook, OneMessage DEF OneTurn
  <2> QED
    BY <2>1, <2>2
<1> QED
  BY <1>4, <1>5, <1>6, <1>8 DEF BookInv

LEMMA BootBook ==
  ASSUME Now, NEW p \in Processes, Recovery!Boot(p)
  PROVE  BookInv'
<1>1. /\ p \in Recovery!Replicas /\ up' = up \union {p} /\ booting' = booting \union {p}
      /\ record' = record /\ chat' = chat /\ call' = call /\ retry' = retry /\ delivery' = delivery
      /\ settled' = settled
  BY DEF Recovery!Boot, Recovery!aux
<1>2. PlacesOK'
  BY <1>1, NowBook DEF PlacesOK, Recovery!Replicas
<1> QED
  BY <1>1, <1>2, NowBook, OneMessage, BookRests DEF BatchesOK

LEMMA TickBook ==
  ASSUME Now, Recovery!Tick
  PROVE  BookInv'
<1>1. /\ chat' = chat /\ call' = call /\ settled' = settled /\ up' = up /\ booting' = booting
      /\ retry' = [q \in Processes |-> [retry[q] EXCEPT !.left = Recovery!Less(@)]]
      /\ delivery' = [q \in Processes |-> [delivery[q] EXCEPT !.left = Recovery!Less(@)]]
      /\ record' = [record EXCEPT !.retryIn = Recovery!Less(@)]
  BY DEF Recovery!Tick, Recovery!aux, Recovery!memory
<1>2. /\ record'.state = record.state /\ record'.last = record.last
      /\ record'.buffer = record.buffer /\ record'.late = record.late
  BY <1>1, NowHands DEF StoredRecords
<1>3. [Recovery!Off EXCEPT !.left = Recovery!Less(@)] = Recovery!Off
  BY DEF Recovery!Off, Recovery!Less
<1>4. PlacesOK'
  <2>1. ASSUME NEW q \in Processes \ up PROVE retry'[q] = Recovery!Off /\ delivery'[q] = Recovery!Off
    BY <1>1, <1>3, NowBook DEF PlacesOK
  <2> QED
    BY <1>1, <2>1, NowBook DEF PlacesOK, Recovery!Replicas
<1>5. StoredIn(record') = StoredIn(record)
  BY <1>2 DEF StoredIn
<1> QED
  BY <1>1, <1>2, <1>4, <1>5, NowBook, OneMessage, BookRests DEF BatchesOK

LEMMA RecoverBook ==
  ASSUME Now, NEW p \in Processes, Recovery!Recover(p, record)
  PROVE  BookInv'
<1>1. /\ Recovery!Scanning(p) /\ chat' = chat /\ call' = call /\ settled' = settled /\ up' = up
      /\ booting' = booting \ {p} /\ record \in StoredRecords
  BY NowHands DEF Recovery!Recover, Recovery!aux
<1>2. p \in up /\ \A q \in Processes : chat[q] = Recovery!NoChat
  BY <1>1, WhileScanning
<1>3. ASSUME \A q \in Processes : q # p => retry'[q] = retry[q] /\ delivery'[q] = delivery[q]
      PROVE  PlacesOK'
  BY <1>1, <1>2, <1>3, PlacesKept
<1>4. ASSUME record' = record, \A q \in Processes : q # p => retry'[q] = retry[q] /\ delivery'[q] = delivery[q]
      PROVE  BookInv'
  BY <1>1, <1>3, <1>4, NowBook, OneMessage, BookRests DEF BatchesOK
<1>5. CASE ~(Recovery!Stranded(record) /\ claims[Recovery!Token(record)] = 0)
  BY <1>4, <1>5 DEF Recovery!Recover
<1>6. CASE Recovery!Stranded(record) /\ claims[Recovery!Token(record)] = 0
  <2>0. Recovery!Recovered(p, record)
    BY <1>6 DEF Recovery!Recover
  <2>1. CASE record.state # "processing"
    BY <1>4, <2>0, <2>1, NowHands DEF Recovery!Recovered, Recovery!Set
  <2>2. CASE record.state = "processing"
    <3> DEFINE r == Recovery!Rebuffered(record, {})
    <3>1. /\ record' = [r EXCEPT !.state = IF record.late = {} THEN "idle" ELSE "buffering"]
          /\ \A q \in Processes : q # p => retry'[q] = retry[q] /\ delivery'[q] = delivery[q]
      BY <2>0, <2>2, NowHands DEF Recovery!Recovered, Recovery!RetryPending, Recovery!Set
    <3>2. {} \in SUBSET Inbounds /\ StoredIn(record) \union {} = StoredIn(record)
      OBVIOUS
    <3>3. r \in StoredRecords /\ r.buffer = StoredIn(record) /\ r.late = {} /\ r.last = record.last
      <4>1. r.last = record.last
        BY <1>1 DEF Recovery!Rebuffered, StoredRecords
      <4> QED
        BY <1>1, <3>2, <4>1, RebufferedKeeps
    <3> HIDE DEF r
    <3>4. /\ record'.last = record.last /\ record'.buffer = StoredIn(record) /\ record'.late = {}
          /\ record'.state = IF record.late = {} THEN "idle" ELSE "buffering"
      BY <3>1, <3>3 DEF StoredRecords
    <3>5. record.buffer = {}
      BY <2>2, NowBook DEF LateIsNotBuffered
    <3>6. /\ StoredIn(record') = StoredIn(record)
          /\ record'.buffer # {} <=> record'.state = "buffering"
          /\ record'.state # "processing"
      BY <3>4, <3>5 DEF StoredIn
    <3> QED
      BY <1>1, <1>2, <1>3, <2>2, <3>1, <3>4, <3>6, OffIsNoItem, BookRests
  <2> QED
    BY <2>1, <2>2
<1> QED
  BY <1>5, <1>6

-----------------------------------------------------------------------------
(* Boot scans and claims *)

LEMMA ClaimType ==
  ASSUME record \in StoredRecords, RestartTypeOK,
         claims' = [claims EXCEPT ![Recovery!Token(record)] = Recovery!Ttl(record)]
  PROVE  /\ claims' \in [Recovery!Tokens -> Nat]
         /\ Recovery!Token(record) \in Recovery!Tokens => claims'[Recovery!Token(record)] > 0
         /\ \A t \in Recovery!Tokens : claims[t] > 0 => claims'[t] > 0
<1>1. MinTtl \in Nat /\ MinTtl > 0 /\ Grace \in Nat
  BY RecoveryAssumption DEF Recovery!TimesAssumption
<1>2. Recovery!Ttl(record) \in Nat /\ Recovery!Ttl(record) > 0
  BY <1>1 DEF Recovery!Ttl, StoredRecords
<1> QED
  BY <1>2 DEF RestartTypeOK

\* The item at the cursor, with its attempt, has a token.
LEMMA RetryHasToken ==
  ASSUME Now, Sending, record.attempt > 0, ~record.sent
  PROVE  Recovery!Token(record) = <<"sending", Cur, record.attempt>> /\ Recovery!Token(record) \in Recovery!Tokens
<1>1. record.attempt \in 1 .. RetryCap /\ record.state = "sending"
  BY NowHands, NowTypes, RecordFields DEF RecordOK
<1>2. Recovery!RetryPending(record) /\ record.attempt # 0
  BY <1>1 DEF Recovery!RetryPending, Sending
<1>3. Recovery!Token(record) = <<"sending", Cur, record.attempt>>
  BY <1>1, <1>2 DEF Recovery!Token, Cur
<1>4. <<"sending", Cur, record.attempt>> \in {"sending"} \X Recovery!AllItems \X Recovery!Attempts
  BY <1>1, CurIsCounted DEF Recovery!Attempts
<1> QED
  BY <1>3, <1>4 DEF Recovery!Tokens

LEMMA RetryIsClaimed ==
  ASSUME Now, NEW p \in Processes, Retrying(p)
  PROVE  Recovery!Token(record) = <<"sending", Cur, record.attempt>> /\ Recovery!Token(record) \in Recovery!Tokens
<1>1. Sending /\ record.attempt > 0
  BY NowHands DEF Retrying, TimersOK
<1>2. ~record.sent
  BY <1>1, NowHands, RecordFields DEF RecordOK
<1> QED
  BY <1>1, <1>2, RetryHasToken

\* Nothing but boots and their ends happens during the scans.
LEMMA NoScans ==
  ASSUME Now, booting' = {} \/ (booting = {} /\ booting' \subseteq booting)
  PROVE  ScansOK'
BY DEF ScansOK

LEMMA RestingScans ==
  ASSUME Now, NEW p \in Processes, Recovery!Free(p) \/ Busy(p), booting' = booting
  PROVE  ScansOK'
<1>1. CASE Recovery!Free(p)
  BY <1>1, NoScans DEF Recovery!Free, Now
<1>2. CASE Busy(p)
  <2>1. booting = {}
    BY <1>2, OffIsNoItem DEF Now, ScansOK, Busy
  <2> QED
    BY <1>2, <2>1, NoScans
<1> QED
  BY <1>1, <1>2

\* Retry timers stay, or go, and the claims stand.
LEMMA StandingScans ==
  ASSUME Now, booting # {}, record' = record,
         \A q \in Processes : chat'[q] = chat[q] \/ chat'[q] = Recovery!NoChat,
         \A q \in Processes : call'[q] = call[q] \/ call'[q] = Recovery!NoCall,
         \A q \in Processes : retry'[q] = retry[q] \/ retry'[q] = Recovery!Off,
         \A t \in Recovery!Tokens : claims[t] > 0 => claims'[t] > 0
  PROVE  ScansOK'
<1>1. ASSUME NEW q \in Processes, Retrying(q)' PROVE claims'[Recovery!Token(record')] > 0
  <2>1. Retrying(q)
    BY <1>1, OffIsNoItem DEF Retrying, Sending, Cur
  <2>2. Recovery!Token(record) \in Recovery!Tokens /\ claims[Recovery!Token(record)] > 0
    BY <2>1, RetryIsClaimed DEF Now, ScansOK
  <2> QED
    BY <2>2
<1> QED
  BY <1>1 DEF Now, ScansOK

LEMMA LostScans ==
  ASSUME Now, NEW p \in Processes, Recovery!Lost(p), record' = record,
         \A t \in Recovery!Tokens : claims[t] > 0 => claims'[t] > 0
  PROVE  ScansOK'
<1>1. CASE booting = {}
  BY <1>1, NoScans DEF Recovery!Lost
<1>2. CASE booting # {}
  <2>1. /\ chat' = Recovery!Set(chat, p, Recovery!NoChat) /\ call' = Recovery!Set(call, p, Recovery!NoCall)
        /\ retry' = Recovery!Set(retry, p, Recovery!Off)
    BY DEF Recovery!Lost
  <2>2. \A q \in Processes : /\ chat'[q] = chat[q] \/ chat'[q] = Recovery!NoChat
                             /\ call'[q] = call[q] \/ call'[q] = Recovery!NoCall
                             /\ retry'[q] = retry[q] \/ retry'[q] = Recovery!Off
    BY <2>1, NowHands DEF Recovery!Set
  <2> QED
    BY <1>2, <2>2, StandingScans
<1> QED
  BY <1>1, <1>2

LEMMA BootScans ==
  ASSUME Now, NEW p \in Processes, Recovery!Boot(p)
  PROVE  ScansOK'
<1>1. /\ record' = record /\ claims' = claims /\ chat' = chat /\ call' = call /\ retry' = retry
      /\ up \subseteq booting
  BY DEF Recovery!Boot, Recovery!aux, Now
<1>2. CASE booting # {}
  BY <1>1, <1>2, StandingScans
<1>3. CASE booting = {}
  <2>1. \A q \in Processes : /\ chat'[q] = Recovery!NoChat /\ call'[q] = Recovery!NoCall
                             /\ retry'[q] = Recovery!Off
    BY <1>1, <1>3, NowBook DEF PlacesOK
  <2>2. \A q \in Processes : ~Retrying(q)'
    <3>1. Sending' = Sending /\ Cur' = Cur
      BY <1>1 DEF Sending, Cur
    <3> QED
      BY <2>1, <3>1, OffIsNoItem DEF Retrying
  <2> QED
    BY <2>1, <2>2 DEF ScansOK
<1> QED
  BY <1>2, <1>3

LEMMA RecoverScans ==
  ASSUME Now, NEW p \in Processes, Recovery!Recover(p, record)
  PROVE  ScansOK'
<1>1. /\ Recovery!Scanning(p) /\ chat' = chat /\ call' = call /\ booting # {}
      /\ record \in StoredRecords /\ RestartTypeOK
  BY NowHands, WhileScanning DEF Recovery!Recover, Recovery!aux, Now
<1>2. CASE ~(Recovery!Stranded(record) /\ claims[Recovery!Token(record)] = 0)
  <2>1. record' = record /\ retry' = retry /\ claims' = claims
    BY <1>2 DEF Recovery!Recover
  <2> QED
    BY <1>1, <2>1, StandingScans
<1>3. CASE Recovery!Stranded(record) /\ claims[Recovery!Token(record)] = 0
  <2>1. /\ Recovery!Recovered(p, record)
        /\ claims' = [claims EXCEPT ![Recovery!Token(record)] = Recovery!Ttl(record)]
    BY <1>3 DEF Recovery!Recover
  <2>2. \A q \in Processes : chat'[q] = Recovery!NoChat /\ call'[q] = Recovery!NoCall
    BY <1>1, WhileScanning
  <2>3. /\ Recovery!Token(record) \in Recovery!Tokens => claims'[Recovery!Token(record)] > 0
        /\ \A t \in Recovery!Tokens : claims[t] > 0 => claims'[t] > 0
    BY <1>1, <2>1, ClaimType
  <2>4. CASE record.state = "processing"
    <3> DEFINE r == Recovery!Rebuffered(record, {})
    <3>1. record' = [r EXCEPT !.state = IF record.late = {} THEN "idle" ELSE "buffering"]
      BY <2>1, <2>4 DEF Recovery!Recovered, Recovery!RetryPending
    <3>2. record'.turn = 0
      BY <1>1, <3>1 DEF Recovery!Rebuffered, StoredRecords
    <3> HIDE DEF r
    <3> QED
      BY <2>2, <3>2 DEF ScansOK, Retrying, Sending, Recovery!HasItem
  <2>5. CASE record.state # "processing" /\ Recovery!RetryPending(record)
    <3>1. record' = record
      BY <2>1, <2>5 DEF Recovery!Recovered
    <3>2. Recovery!Token(record) \in Recovery!Tokens
      BY <2>5, RetryHasToken DEF Recovery!RetryPending, Sending
    <3> QED
      BY <2>2, <2>3, <3>1, <3>2 DEF ScansOK
  <2>6. CASE record.state # "processing" /\ ~Recovery!RetryPending(record)
    <3>1. record' = record /\ retry' = retry
      BY <2>1, <2>6 DEF Recovery!Recovered
    <3> QED
      BY <1>1, <2>3, <3>1, StandingScans
  <2> QED
    BY <2>4, <2>5, <2>6
<1> QED
  BY <1>2, <1>3

-----------------------------------------------------------------------------
(* The types, and the theorem *)

LEMMA TimerType ==
  ASSUME RestartTypeOK, NEW p
  PROVE  /\ Recovery!Off \in TimerRecords
         /\ \A t \in TimerRecords : /\ Recovery!Set(retry, p, t) \in [Processes -> TimerRecords]
                                    /\ Recovery!Set(delivery, p, t) \in [Processes -> TimerRecords]
         /\ Recovery!Set(retry, p, Recovery!Off) \in [Processes -> TimerRecords]
         /\ Recovery!Set(delivery, p, Recovery!Off) \in [Processes -> TimerRecords]
<1>1. Recovery!Off \in TimerRecords
  BY DEF Recovery!Off, Recovery!None, TimerRecords
<1> QED
  BY <1>1 DEF RestartTypeOK, Recovery!Set

LEMMA TypesRest ==
  ASSUME RestartTypeOK, deployment' = deployment, claims' \in [Recovery!Tokens -> Nat],
         retry' \in [Processes -> TimerRecords], delivery' \in [Processes -> TimerRecords],
         sends' \in [Recovery!AllItems -> Nat], settled' \subseteq Inbounds
  PROVE  RestartTypeOK'
BY DEF RestartTypeOK

LEMMA ChatTypes ==
  ASSUME StoredInv, RestartTypeOK, NEW p \in Processes,
         \/ \E m \in Inbounds : Recovery!Inbound(p, m, record)
         \/ Recovery!Flush(p, record) \/ Recovery!ChatEnds(p, record)
  PROVE  RestartTypeOK'
<1>1. /\ claims \in [Recovery!Tokens -> Nat] /\ sends \in [Recovery!AllItems -> Nat] /\ settled \subseteq Inbounds
      /\ retry \in [Processes -> TimerRecords] /\ delivery \in [Processes -> TimerRecords]
      /\ chat[p].batch \subseteq Inbounds
  BY DEF RestartTypeOK, StoredInv, StoredTypeOK, ChatsOf
<1>2. /\ deployment' = deployment /\ claims' = claims /\ sends' = sends
      /\ settled' = settled \/ settled' = settled \union chat[p].batch
      /\ retry' = retry \/ retry' = Recovery!Set(retry, p, Recovery!Off)
      /\ delivery' = delivery \/ delivery' = Recovery!Set(delivery, p, Recovery!Off)
  <2>1. CASE \E m \in Inbounds : Recovery!Inbound(p, m, record)
    <3>1. PICK m \in Inbounds : Recovery!Inbound(p, m, record)
      BY <2>1
    <3>2. record.state \in {"idle", "buffering", "processing", "sending"}
      BY DEF StoredInv, StoredTypeOK, StoredRecords
    <3> QED
      BY <3>1, <3>2 DEF Recovery!Inbound, Recovery!memory, Recovery!aux
  <2>2. CASE Recovery!Flush(p, record)
    BY <2>2 DEF Recovery!Flush, Recovery!memory, Recovery!aux
  <2>3. CASE Recovery!ChatEnds(p, record)
    BY <2>3 DEF Recovery!ChatEnds, Recovery!ChatAnswers, Recovery!ChatIsSilent, Recovery!ChatFails,
      Recovery!ChatAborted, Recovery!Finalize, Recovery!memory, Recovery!aux
  <2> QED
    BY <2>1, <2>2, <2>3
<1>3. retry' \in [Processes -> TimerRecords] /\ delivery' \in [Processes -> TimerRecords]
  BY <1>1, <1>2, TimerType
<1> QED
  BY <1>1, <1>2, <1>3, TypesRest

LEMMA SendTypes ==
  ASSUME StoredInv, RestartTypeOK, NEW p \in Processes,
         \/ Recovery!Drive(p, record) \/ Recovery!SendReaches(p) \/ Recovery!SendEnds(p, record)
         \/ Recovery!RetryFires(p, record)
         \/ Recovery!DeliveryTimesOut(p, record) \/ Recovery!StatusArrives(p, record)
  PROVE  RestartTypeOK'
<1>1. /\ claims \in [Recovery!Tokens -> Nat] /\ sends \in [Recovery!AllItems -> Nat] /\ settled \subseteq Inbounds
      /\ retry \in [Processes -> TimerRecords] /\ delivery \in [Processes -> TimerRecords]
      /\ call[p] \in SendCalls /\ Timeout \in Nat /\ RetryDelay \in Nat
  BY RecoveryAssumption DEF RestartTypeOK, StoredInv, StoredTypeOK, Recovery!TimesAssumption
<1>2. call[p].item \in Nat \X Nat /\ call[p].attempt + 1 \in Nat
  BY <1>1 DEF SendCalls
<1>3. PICK d : d = [item |-> call[p].item, attempt |-> 0, left |-> Timeout]
  OBVIOUS
<1>4. PICK t : t = [item |-> call[p].item, attempt |-> call[p].attempt + 1, left |-> RetryDelay]
  OBVIOUS
<1>5. d \in TimerRecords /\ t \in TimerRecords
  BY <1>1, <1>2, <1>3, <1>4 DEF TimerRecords
<1>6. ASSUME Recovery!Advance(p, record)
      PROVE  /\ retry' = retry \/ retry' = Recovery!Set(retry, p, Recovery!Off)
             /\ delivery' = Recovery!Set(delivery, p, Recovery!Off)
  BY <1>6 DEF Recovery!Advance, Recovery!SendNext
<1>7. /\ deployment' = deployment /\ claims' = claims /\ settled' = settled
      /\ sends' = sends \/ sends' = [sends EXCEPT ![call[p].item] = @ + 1]
      /\ retry' = retry \/ retry' = Recovery!Set(retry, p, Recovery!Off) \/ retry' = Recovery!Set(retry, p, t)
      /\ \/ delivery' = delivery \/ delivery' = Recovery!Set(delivery, p, Recovery!Off)
         \/ delivery' = Recovery!Set(delivery, p, d)
  <2>1. CASE Recovery!Drive(p, record)
    BY <2>1 DEF Recovery!Drive, Recovery!SendNext, Recovery!memory, Recovery!aux
  <2>2. CASE Recovery!SendReaches(p) \/ Recovery!SendSaved(p, record)
    BY <2>2 DEF Recovery!SendReaches, Recovery!SendSaved, Recovery!memory, Recovery!aux
  <2>3. CASE Recovery!SendDone(p, record)
    <3>1. deployment' = deployment /\ claims' = claims /\ settled' = settled /\ sends' = sends
      BY <2>3 DEF Recovery!SendDone, Recovery!memory, Recovery!aux
    <3>2. \/ retry' = retry /\ delivery' = Recovery!Set(delivery, p, d)
          \/ Recovery!Advance(p, record)
      BY <1>3, <2>3 DEF Recovery!SendDone
    <3> QED
      BY <1>6, <3>1, <3>2
  <2>4. CASE Recovery!SendFailsTransiently(p, record)
    BY <1>4, <2>4 DEF Recovery!SendFailsTransiently, Recovery!memory, Recovery!aux
  <2>5. CASE Recovery!SendSkipped(p, record)
    BY <1>6, <2>5 DEF Recovery!SendSkipped, Recovery!memory, Recovery!aux
  <2>6. CASE Recovery!RetryFires(p, record)
    BY <2>6 DEF Recovery!RetryFires, Recovery!memory, Recovery!aux
  <2>7. CASE Recovery!DeliveryTimesOut(p, record)
    BY <1>6, <2>7 DEF Recovery!DeliveryTimesOut, Recovery!memory, Recovery!aux
  <2>8. CASE Recovery!StatusArrives(p, record)
    BY <1>6, <2>8 DEF Recovery!StatusArrives, Recovery!memory, Recovery!aux
  <2> QED
    BY <2>1, <2>2, <2>3, <2>4, <2>5, <2>6, <2>7, <2>8 DEF Recovery!SendEnds
<1>8. retry' \in [Processes -> TimerRecords] /\ delivery' \in [Processes -> TimerRecords]
  <2>1. /\ Recovery!Set(retry, p, t) \in [Processes -> TimerRecords]
        /\ Recovery!Set(delivery, p, d) \in [Processes -> TimerRecords]
    BY <1>5, TimerType
  <2>2. /\ Recovery!Set(retry, p, Recovery!Off) \in [Processes -> TimerRecords]
        /\ Recovery!Set(delivery, p, Recovery!Off) \in [Processes -> TimerRecords]
    BY TimerType
  <2> QED
    BY <1>1, <1>7, <2>1, <2>2
<1>9. sends' \in [Recovery!AllItems -> Nat]
  BY <1>1, <1>7
<1> QED
  BY <1>1, <1>7, <1>8, <1>9, TypesRest

LEMMA RestartTypes ==
  ASSUME StoredInv, RestartTypeOK, NEW p \in Processes,
         Recovery!Crash(p) \/ Recovery!Boot(p) \/ Recovery!Recover(p, record) \/ Recovery!DieAfterClaim(p, record)
  PROVE  RestartTypeOK'
<1>1. /\ claims \in [Recovery!Tokens -> Nat] /\ sends \in [Recovery!AllItems -> Nat] /\ settled \subseteq Inbounds
      /\ retry \in [Processes -> TimerRecords] /\ delivery \in [Processes -> TimerRecords]
      /\ chat[p].batch \subseteq Inbounds /\ record \in StoredRecords /\ Timeout \in Nat
  BY RecoveryAssumption DEF RestartTypeOK, StoredInv, StoredTypeOK, ChatsOf, Recovery!TimesAssumption
<1>2. PICK t : t = [item |-> Recovery!Item(record), attempt |-> record.attempt, left |-> record.retryIn]
  OBVIOUS
<1>3. PICK d : d = [item |-> Recovery!Item(record), attempt |-> 0, left |-> Timeout]
  OBVIOUS
<1>4. t \in TimerRecords /\ d \in TimerRecords
  BY <1>1, <1>2, <1>3, RecordFields DEF TimerRecords, Recovery!Item
<1>5. /\ deployment' = deployment /\ sends' = sends
      /\ settled' = settled \/ settled' = settled \union chat[p].batch
      /\ claims' = claims \/ claims' = [claims EXCEPT ![Recovery!Token(record)] = Recovery!Ttl(record)]
      /\ retry' = retry \/ retry' = Recovery!Set(retry, p, Recovery!Off) \/ retry' = Recovery!Set(retry, p, t)
      /\ \/ delivery' = delivery \/ delivery' = Recovery!Set(delivery, p, Recovery!Off)
         \/ delivery' = Recovery!Set(delivery, p, d)
  <2>1. CASE Recovery!Crash(p) \/ Recovery!DieAfterClaim(p, record)
    BY <2>1 DEF Recovery!Crash, Recovery!DieAfterClaim, Recovery!Lost
  <2>2. CASE Recovery!Boot(p)
    BY <2>2 DEF Recovery!Boot, Recovery!aux
  <2>3. CASE Recovery!Recover(p, record)
    <3>1. deployment' = deployment /\ sends' = sends /\ settled' = settled
      BY <2>3 DEF Recovery!Recover, Recovery!aux
    <3>2. \/ claims' = claims /\ retry' = retry /\ delivery' = delivery
          \/ /\ claims' = [claims EXCEPT ![Recovery!Token(record)] = Recovery!Ttl(record)]
             /\ Recovery!Recovered(p, record)
      BY <2>3 DEF Recovery!Recover
    <3>3. ASSUME Recovery!Recovered(p, record)
          PROVE  /\ \/ retry' = retry \/ retry' = Recovery!Set(retry, p, Recovery!Off)
                    \/ retry' = Recovery!Set(retry, p, t)
                 /\ \/ delivery' = delivery \/ delivery' = Recovery!Set(delivery, p, Recovery!Off)
                    \/ delivery' = Recovery!Set(delivery, p, d)
      BY <1>2, <1>3, <3>3 DEF Recovery!Recovered, Recovery!RetryPending
    <3> QED
      BY <3>1, <3>2, <3>3
  <2> QED
    BY <2>1, <2>2, <2>3
<1>6. retry' \in [Processes -> TimerRecords] /\ delivery' \in [Processes -> TimerRecords]
  <2>1. /\ Recovery!Set(retry, p, t) \in [Processes -> TimerRecords]
        /\ Recovery!Set(delivery, p, d) \in [Processes -> TimerRecords]
    BY <1>4, TimerType
  <2>2. /\ Recovery!Set(retry, p, Recovery!Off) \in [Processes -> TimerRecords]
        /\ Recovery!Set(delivery, p, Recovery!Off) \in [Processes -> TimerRecords]
    BY TimerType
  <2> QED
    BY <1>1, <1>5, <2>1, <2>2
<1>7. claims' \in [Recovery!Tokens -> Nat]
  BY <1>1, <1>5, ClaimType
<1>8. settled' \subseteq Inbounds
  BY <1>1, <1>5
<1> QED
  BY <1>1, <1>5, <1>6, <1>7, <1>8, TypesRest

LEMMA TickTypes ==
  ASSUME RestartTypeOK, Recovery!Tick
  PROVE  RestartTypeOK'
<1>1. /\ deployment' = deployment /\ sends' = sends /\ settled' = settled
      /\ claims' = [t \in Recovery!Tokens |-> Recovery!Less(claims[t])]
      /\ retry' = [q \in Processes |-> [retry[q] EXCEPT !.left = Recovery!Less(@)]]
      /\ delivery' = [q \in Processes |-> [delivery[q] EXCEPT !.left = Recovery!Less(@)]]
  BY DEF Recovery!Tick, Recovery!aux, Recovery!memory
<1>2. \A n \in Nat : Recovery!Less(n) \in Nat
  BY DEF Recovery!Less
<1>3. \A t \in TimerRecords : [t EXCEPT !.left = Recovery!Less(@)] \in TimerRecords
  BY <1>2 DEF TimerRecords
<1>4. retry' \in [Processes -> TimerRecords] /\ delivery' \in [Processes -> TimerRecords]
  BY <1>1, <1>3 DEF RestartTypeOK
<1>5. claims' \in [Recovery!Tokens -> Nat]
  BY <1>1, <1>2 DEF RestartTypeOK
<1> QED
  BY <1>1, <1>4, <1>5, TypesRest DEF RestartTypeOK

Resting ==
  UNCHANGED <<deployment, record, claims, up, booting, chat, call, retry, delivery, sends, cut, settled>>

\* A step that leaves all of this alone keeps the invariant.
LEMMA RestKeeps ==
  ASSUME Resting
  PROVE  /\ RestartTypeOK' <=> RestartTypeOK
         /\ StoredInv' <=> StoredInv
         /\ HandInv' <=> HandInv
         /\ BookInv' <=> BookInv
         /\ ScansOK' <=> ScansOK
<1>1. /\ deployment' = deployment /\ record' = record /\ claims' = claims /\ up' = up /\ booting' = booting
      /\ chat' = chat /\ call' = call /\ retry' = retry /\ delivery' = delivery /\ sends' = sends
      /\ cut' = cut /\ settled' = settled
  BY DEF Resting
<1>2. (RestartTypeOK' <=> RestartTypeOK) /\ (StoredInv' <=> StoredInv)
  BY <1>1 DEF RestartTypeOK, StoredInv, StoredTypeOK, LateIsNotBuffered
<1>3. (HandInv' <=> HandInv) /\ (ScansOK' <=> ScansOK)
  BY <1>1 DEF HandInv, RecordOK, TimersOK, TimersPassed, Passed, TimersOff, CallsOK, HandsOK, FreshOK,
    Unsent, Hand, Busy, Driving, Retrying, Sending, Cur, Recovery!OneReplica, Recovery!Replicas, OnceSent,
    ScansOK
<1>4. BookInv' <=> BookInv
  BY <1>1 DEF BookInv, PlacesOK, BatchesOK, SettledOK, OneTurn, Recovery!OneReplica, Recovery!Accepted,
    Recovery!Replicas, StoredIn
<1> QED
  BY <1>2, <1>3, <1>4

LEMMA LoadRests == \A p \in Processes : Recovery!Load(p) => Resting
BY DEF Recovery!Load, Recovery!memory, Recovery!aux, Resting

LEMMA RestartTypeStep == StoredInv /\ RestartTypeOK /\ StepNow => RestartTypeOK'
BY ChatTypes, SendTypes, RestartTypes, TickTypes, LoadRests, RestKeeps DEF StepNow, Recovery!Handles

\* The claims, timers and scans of one step.
LEMMA ScansStep ==
  ASSUME Now, StepNow
  PROVE  ScansOK'
<1>1. CASE Recovery!Tick
  BY <1>1, NoScans DEF Recovery!Tick, Recovery!memory, Now
<1>2. ASSUME NEW p \in Processes,
             \/ \E m \in Inbounds : Recovery!Inbound(p, m, record)
             \/ Recovery!Flush(p, record) \/ Recovery!ChatEnds(p, record) \/ Recovery!Drive(p, record)
             \/ Recovery!RetryFires(p, record) \/ Recovery!DeliveryTimesOut(p, record) \/ Recovery!StatusArrives(p, record)
      PROVE  ScansOK'
  <2>1. Recovery!Free(p) /\ booting' = booting
    BY <1>2 DEF Recovery!Inbound, Recovery!Flush, Recovery!ChatEnds, Recovery!ChatAnswers,
      Recovery!ChatIsSilent, Recovery!ChatFails, Recovery!ChatAborted, Recovery!Drive, Recovery!RetryFires,
      Recovery!DeliveryTimesOut, Recovery!StatusArrives, Recovery!memory
  <2> QED
    BY <2>1, RestingScans
<1>3. ASSUME NEW p \in Processes, Recovery!SendReaches(p) \/ Recovery!SendEnds(p, record) PROVE ScansOK'
  <2>1. Busy(p) /\ booting' = booting
    BY <1>3 DEF Recovery!SendEnds, Recovery!SendReaches, Recovery!SendSaved, Recovery!SendDone,
      Recovery!SendFailsTransiently, Recovery!SendSkipped, Busy, Recovery!memory
  <2> QED
    BY <2>1, RestingScans
<1>4. ASSUME NEW p \in Processes, Recovery!Crash(p) PROVE ScansOK'
  BY <1>4, LostScans DEF Recovery!Crash
<1>5. ASSUME NEW p \in Processes, Recovery!DieAfterClaim(p, record) PROVE ScansOK'
  <2>1. Recovery!Lost(p) /\ record' = record
        /\ claims' = [claims EXCEPT ![Recovery!Token(record)] = Recovery!Ttl(record)]
    BY <1>5 DEF Recovery!DieAfterClaim
  <2> QED
    BY <2>1, NowTypes, ClaimType, LostScans DEF Now
<1> QED
  BY <1>1, <1>2, <1>3, <1>4, <1>5, BootScans, RecoverScans, LoadRests, RestKeeps
  DEF StepNow, Recovery!Handles, Now

LEMMA BookStep ==
  ASSUME Now, StepNow
  PROVE  BookInv'
<1>1. ASSUME NEW p \in Processes, Recovery!Crash(p) \/ Recovery!DieAfterClaim(p, record) PROVE BookInv'
  BY <1>1, LostBook DEF Recovery!Crash, Recovery!DieAfterClaim
<1> QED
  BY <1>1, TickBook, InboundBook, FlushBook, ChatBook, DriveBook, SendBook, BootBook, RecoverBook,
    LoadRests, RestKeeps
  DEF StepNow, Recovery!Handles, Now

LEMMA HandStep ==
  ASSUME Now, StepNow
  PROVE  HandInv'
<1>1. ASSUME NEW p \in Processes, Recovery!Crash(p) \/ Recovery!DieAfterClaim(p, record) PROVE HandInv'
  BY <1>1, LostHands DEF Recovery!Crash, Recovery!DieAfterClaim
<1>2. ASSUME NEW p \in Processes, Recovery!ChatEnds(p, record) PROVE HandInv'
  BY <1>2, AnswersHands, SilentHands, FailedChatHands, AbortedHands DEF Recovery!ChatEnds
<1>3. ASSUME NEW p \in Processes, Recovery!SendReaches(p) \/ Recovery!SendEnds(p, record) PROVE HandInv'
  BY <1>3, ReachesHands, SavedHands, DoneHands, FailsHands, SkippedHands DEF Recovery!SendEnds
<1> QED
  BY <1>1, <1>2, <1>3, TickHands, InboundHands, FlushHands, DriveHands, RetryHands, TimeoutHands,
    StatusHands, BootHands, RecoverHands, LoadRests, RestKeeps
  DEF StepNow, Recovery!Handles, Now

LEMMA SentInit == Recovery!Init => SentInv
<1> SUFFICES ASSUME Recovery!Init PROVE SentInv
  OBVIOUS
<1>1. StoredInv
  BY RecoveryAssumption, StoredInit
<1>2. Recovery!Off \in TimerRecords
  BY DEF Recovery!Off, Recovery!None, TimerRecords
<1>3. deployment \in Recovery!AgentDeployments
  BY RecoveryAssumption DEF Recovery!Init, Recovery!DeploymentsAssumption
<1>4. RestartTypeOK
  BY <1>2, <1>3 DEF Recovery!Init, RestartTypeOK
<1>5. /\ record.state = "idle" /\ record.buffer = {} /\ record.late = {} /\ record.turn = 0
      /\ record.cursor = 1 /\ record.last = 0 /\ record.attempt = 0 /\ record.sent = FALSE
      /\ record.awaiting = FALSE /\ booting = {} /\ up = Recovery!Replicas /\ settled = {}
      /\ \A i \in Recovery!AllItems : sends[i] = 0
      /\ \A q \in Processes : /\ chat[q] = Recovery!NoChat /\ call[q] = Recovery!NoCall
                              /\ retry[q] = Recovery!Off /\ delivery[q] = Recovery!Off
  BY DEF Recovery!Init
<1>6. ~Sending /\ RetryCap \in Nat
  BY <1>5, RecoveryAssumption DEF Sending, Recovery!HasItem, Recovery!TimesAssumption
<1>7. HandInv
  <2>1. \A q \in Processes : ~Busy(q) /\ ~Driving(q) /\ ~Retrying(q) /\ ~Hand(q) /\ call[q].phase # "called"
    BY <1>5, <1>6, OffIsNoItem DEF Busy, Driving, Retrying, Hand
  <2>2. RecordOK
    BY <1>5, <1>6 DEF RecordOK
  <2>3. TimersOK /\ CallsOK /\ HandsOK
    BY <1>5, <1>6, <2>1 DEF TimersOK, TimersPassed, Passed, TimersOff, CallsOK, HandsOK
  <2>4. FreshOK
    BY <1>5, <1>6, <2>1 DEF FreshOK, OnceSent
  <2> QED
    BY <2>2, <2>3, <2>4 DEF HandInv
<1>8. BookInv
  <2>1. PlacesOK
    BY <1>5 DEF PlacesOK
  <2>2. \A q \in Processes : chat[q].at = "none" /\ chat[q].batch = {}
    BY <1>5, OffIsNoItem
  <2>3. BatchesOK
    BY <1>5, <2>2 DEF BatchesOK
  <2>4. SettledOK
    BY <1>5, <2>2, FS_EmptySet DEF SettledOK, StoredIn
  <2>5. OneTurn
    <3>1. Recovery!Accepted = {}
      BY <1>5, <2>2 DEF Recovery!Accepted
    <3> QED
      BY <1>5, <2>2, <3>1 DEF OneTurn
  <2> QED
    BY <2>1, <2>3, <2>4, <2>5 DEF BookInv
<1>9. ScansOK
  BY <1>5 DEF ScansOK
<1>10. ReadingInv
  BY DEF Recovery!Init, ReadingInv
<1> QED
  BY <1>1, <1>4, <1>7, <1>8, <1>9, <1>10 DEF SentInv, TogetherInv

LEMMA SentStep == SentInv /\ [PartsNext]_<<part, vars, recoveryVars, schedulerVars>> => SentInv'
<1> SUFFICES ASSUME SentInv, [PartsNext]_<<part, vars, recoveryVars, schedulerVars>> PROVE SentInv'
  OBVIOUS
<1>1. CASE Recovery!Next
  <2>1. ReadingInv' /\ (overtaken => overtaken')
    BY <1>1, ReadingStep DEF SentInv
  <2>2. ASSUME ~overtaken' PROVE (StoredInv /\ RestartTypeOK /\ TogetherInv)'
    <3>1. /\ StoredInv /\ RestartTypeOK /\ TogetherInv
          /\ StepNow /\ deployment' = deployment
      BY <1>1, <2>1, <2>2, ReadsTheRecord, DeploymentStays DEF SentInv
    <3>2. StoredInv'
      BY <3>1, RecoveryAssumption, InboundStores, FlushStores, ChatEndStores, SendStores, TimerStores,
        RestartStores, TickStores
      DEF StepNow, Recovery!Handles, StoredStep
    <3>3. RestartTypeOK'
      BY <3>1, RestartTypeStep
    <3>4. ASSUME (Recovery!Quiet /\ OneAtATime)' PROVE (HandInv /\ BookInv /\ ScansOK)'
      <4>1. Recovery!Quiet /\ OneAtATime
        BY <2>1, <2>2, <3>1, <3>4 DEF Recovery!Quiet, OneAtATime, Recovery!OneReplica, Recovery!Replicas
      <4>2. Now
        BY <2>2, <3>1, <4>1 DEF TogetherInv, Now
      <4> QED
        BY <3>1, <4>2, HandStep, BookStep, ScansStep
    <3> QED
      BY <3>2, <3>3, <3>4 DEF TogetherInv
  <2> QED
    BY <2>1, <2>2 DEF SentInv
<1>2. CASE UNCHANGED recoveryVars
  <2>1. Resting /\ deployment' = deployment /\ loaded' = loaded /\ overtaken' = overtaken /\ up' = up
        /\ booting' = booting
    BY <1>2 DEF recoveryVars, Resting
  <2>2. ReadingInv' <=> ReadingInv
    BY <2>1 DEF ReadingInv, Recovery!OneReplica, Recovery!Replicas
  <2>5. (Recovery!Quiet /\ OneAtATime)' <=> (Recovery!Quiet /\ OneAtATime)
    BY <2>1 DEF Recovery!Quiet, OneAtATime, Recovery!OneReplica, Recovery!Replicas
  <2> QED
    BY <2>1, <2>2, <2>5, RestKeeps DEF SentInv, TogetherInv
<1> QED
  BY <1>1, <1>2 DEF PartsNext, ReportStatuses, RunAndRestart, ScheduleFlushes

\* Replicas that are restarted together send no item twice, however often they
\* crash, in the middle of what, and whatever the delays and claims are, unless a
\* process died in the item's send and had not stored the channel's id.  One
\* replica always; several, of a conversation with one message, until one has
\* saved the record between another's load and save (recoverPendingRetries,
\* sendNext and its timers).
THEOREM ItemsSentOnce == PartsSpec => []SentOnce
<1>1. PartsInit => SentInv
  BY SentInit DEF PartsInit
<1>2. SentInv /\ [PartsNext]_<<part, vars, recoveryVars, schedulerVars>> => SentInv'
  BY SentStep
<1>3. SentInv => SentOnce
  BY DEF SentInv, TogetherInv, HandInv, FreshOK, OnceSent, SentOnce, Recovery!SentOnce
<1> QED
  BY <1>1, <1>2, <1>3, PTL DEF PartsSpec
=============================================================================
