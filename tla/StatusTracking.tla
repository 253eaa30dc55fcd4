--------------------------- MODULE StatusTracking ---------------------------
(***************************************************************************)
(* The delivery statuses of one conversation: InMemoryStatusTracker        *)
(* (src/src/status/tracker.ts) as the agent feeds it.  WhatsApp reports    *)
(* each message; Messenger and Instagram report deliveries and a read      *)
(* watermark, which the agent translates into the messages of its queue.   *)
(*                                                                         *)
(* Meta's webhooks arrive in any order and any number of times, and the    *)
(* tracker is fed before the agent takes the lock of the conversation, so  *)
(* also while a send is under way.                                         *)
(***************************************************************************)
EXTENDS Integers, FiniteSets

CONSTANTS
  Messages,   \* ids of outbound messages
  Channels,   \* the channels that a conversation may be on
  Categories, \* whatsappFailureCategory of an error code
  MaxSends,   \* of each channel: the messages that are sent (bound)
  MaxTime     \* the last moment (bound)

ASSUME ChannelsAssumption == Channels \subseteq {"whatsapp", "messenger", "instagram"}
ASSUME BoundsAssumption == MaxSends \in [Channels -> Nat] /\ MaxTime \in Nat

VARIABLES
  channel,  \* the channel of the conversation
  clock,
  sending,  \* the message whose send returned and is not noted yet, or None
  queue,    \* outboundQueue: the messages of the turn that were sent
  sentAt,   \* of each message: when it was sent, or None
  webhooks, \* the webhooks Meta has sent; each may arrive any number of times
  records,  \* the tracker's map
  arrived   \* auxiliary: of each message, the updates that were applied to it

vars == <<channel, clock, sending, queue, sentAt, webhooks, records, arrived>>

None == "none"

ASSUME CategoriesAssumption == None \notin Categories

Times == 0 .. MaxTime

DeliveryStatuses == {"sent", "delivered", "read", "failed"}

StatusRank(s) ==
  CASE s = "sent" -> 0 [] s = "delivered" -> 1 [] s = "read" -> 2 [] s = "failed" -> 3

Reported == [message: Messages, status: DeliveryStatuses, time: Times,
             category: Categories \union {None}]

Watermarks == [watermark: Times]

Records ==
  [tracked: BOOLEAN, current: DeliveryStatuses, history: SUBSET (DeliveryStatuses \X Times),
   length: Nat, category: Categories \union {None}, firstSeenAt: Times, lastUpdatedAt: Times]

\* The map has no entry.
NoRecord ==
  [tracked |-> FALSE, current |-> "sent", history |-> {}, length |-> 0, category |-> None,
   firstSeenAt |-> 0, lastUpdatedAt |-> 0]

Init ==
  /\ channel \in Channels
  /\ clock = 0
  /\ sending = None
  /\ queue = {}
  /\ sentAt = [m \in Messages |-> -1]
  /\ webhooks = {}
  /\ records = [m \in Messages |-> NoRecord]
  /\ arrived = [m \in Messages |-> {}]

-----------------------------------------------------------------------------
(* The tracker *)

Tracked(m) == records[m].tracked

Earlier(t, u) == IF t < u THEN t ELSE u

Later(t, u) == IF t > u THEN t ELSE u

\* Mutant of MostAdvanced: the last status to arrive wins.
LastToArrive(current, status) == status

MostAdvanced(current, status) == IF StatusRank(status) >= StatusRank(current) THEN status ELSE current

FirstRecord(u) ==
  [tracked |-> TRUE, current |-> u.status, history |-> {}, length |-> 0, category |-> None,
   firstSeenAt |-> u.time, lastUpdatedAt |-> u.time]

\* Mutant of Appended: a redelivery is appended again.
AppendedAlways(record, u) ==
  [record EXCEPT !.history = @ \union {<<u.status, u.time>>}, !.length = @ + 1]

\* history and its length: an update of the same status and time is a redelivery.
Appended(record, u) ==
  IF <<u.status, u.time>> \in record.history THEN record
  ELSE [record EXCEPT !.history = @ \union {<<u.status, u.time>>}, !.length = @ + 1]

Updated(record, u) ==
  [Appended(record, u) EXCEPT
    !.current = MostAdvanced(@, u.status),
    !.category = IF u.status = "failed" THEN u.category ELSE @,
    !.firstSeenAt = Earlier(@, u.time),
    !.lastUpdatedAt = Later(@, u.time)]

\* applyStatusUpdate for each message of a set.
Apply(ids, u) ==
  /\ records' = [m \in Messages |->
       IF m \in ids THEN Updated(IF Tracked(m) THEN records[m] ELSE FirstRecord(u), u)
                    ELSE records[m]]
  /\ arrived' = [m \in Messages |-> IF m \in ids THEN arrived[m] \union {u} ELSE arrived[m]]

-----------------------------------------------------------------------------
(* The agent *)

\* The send call returns: Meta has the message, the item gets its id and time.
Send(m) ==
  /\ sending = None
  /\ sentAt[m] = -1
  /\ Cardinality({n \in Messages : sentAt[n] # -1}) < MaxSends[channel]
  /\ sending' = m
  /\ sentAt' = [sentAt EXCEPT ![m] = clock]
  /\ queue' = queue \union {m}
  /\ UNCHANGED <<channel, clock, webhooks, records, arrived>>

\* A channel that reports no sent status is seeded with one.
NoteSent ==
  /\ sending # None
  /\ sending' = None
  /\ IF channel = "whatsapp"
     THEN UNCHANGED <<records, arrived>>
     ELSE Apply({sending}, [status |-> "sent", time |-> clock, category |-> None])
  /\ UNCHANGED <<channel, clock, queue, sentAt, webhooks>>

\* Another turn attaches its own queue.
AttachQueue ==
  /\ sending = None
  /\ queue' = {}
  /\ UNCHANGED <<channel, clock, sending, sentAt, webhooks, records, arrived>>

\* handleStatus: a status of one message; the lock is not held.
HandleStatus(w) ==
  /\ w \in webhooks \intersect Reported
  /\ Apply({w.message}, [status |-> w.status, time |-> w.time, category |-> w.category])
  /\ UNCHANGED <<channel, clock, sending, queue, sentAt, webhooks>>

ReadBy(watermark) == {m \in queue : sentAt[m] <= watermark}

\* handleReadWatermarkImpl, which holds the lock: no send is half noted.
HandleReadWatermark(w) ==
  /\ w \in webhooks \intersect Watermarks
  /\ sending = None
  /\ Apply({m \in ReadBy(w.watermark) : Tracked(m)},
           [status |-> "read", time |-> w.watermark, category |-> None])
  /\ UNCHANGED <<channel, clock, sending, queue, sentAt, webhooks>>

-----------------------------------------------------------------------------
(* Meta *)

Post(w) ==
  /\ webhooks' = webhooks \union {w}
  /\ UNCHANGED <<channel, clock, sending, queue, sentAt, records, arrived>>

\* WhatsApp reports every status, Messenger and Instagram a delivery alone.
Report(m) ==
  /\ sentAt[m] # -1
  /\ \E s \in IF channel = "whatsapp" THEN DeliveryStatuses ELSE {"delivered"} :
       \E c \in IF s = "failed" THEN Categories ELSE {None} :
         Post([message |-> m, status |-> s, time |-> clock, category |-> c])

UserReads == channel # "whatsapp" /\ Post([watermark |-> clock])

Tick ==
  /\ clock < MaxTime
  /\ clock' = clock + 1
  /\ UNCHANGED <<channel, sending, queue, sentAt, webhooks, records, arrived>>

Next ==
  \/ \E m \in Messages : Send(m) \/ Report(m)
  \/ NoteSent
  \/ AttachQueue
  \/ UserReads
  \/ \E w \in webhooks : HandleStatus(w) \/ HandleReadWatermark(w)
  \/ Tick

Spec == Init /\ [][Next]_vars

-----------------------------------------------------------------------------
(* Properties *)

\* What the admin route shows of a message depends on the updates that arrived
\* and not on their order or their number: the most advanced status, the first
\* and the last time, one history entry for each status and time, and a failure
\* category exactly when a failure arrived.
RecordIsWhatArrived ==
  \A m \in Messages : Tracked(m) =>
    LET r == records[m]
        entries == {<<u.status, u.time>> : u \in arrived[m]}
    IN  /\ r.history = entries
        /\ r.length = Cardinality(entries)
        /\ r.current \in {u.status : u \in arrived[m]}
        /\ \A u \in arrived[m] :
             /\ StatusRank(u.status) <= StatusRank(r.current)
             /\ r.firstSeenAt <= u.time /\ u.time <= r.lastUpdatedAt
        /\ r.category # None <=> r.current = "failed"

\* A late status never takes a message back: read stays read, and a failure is
\* never masked by a success.
NeverRegresses ==
  [][\A m \in Messages : Tracked(m) =>
       Tracked(m)' /\ StatusRank(records'[m].current) >= StatusRank(records[m].current)]_vars

\* A watermark marks no message read that was sent after it, however late the
\* webhook comes and whatever was sent meanwhile.
ReadsAreOfSentBefore ==
  channel # "whatsapp" =>
    \A m \in Messages : \A u \in arrived[m] : u.status = "read" => sentAt[m] <= u.time
=============================================================================
