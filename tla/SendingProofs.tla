---------------------------- MODULE SendingProofs ----------------------------
(***************************************************************************)
(* Proofs about what a send passes on its way to Meta.                     *)
(***************************************************************************)
EXTENDS MCSending, Integers, FiniteSetTheorems, WellFoundedInduction, TLAPS

-----------------------------------------------------------------------------
(***************************************************************************)
(* The in-memory pacer keeps the slots of a line apart, for every          *)
(* interval, number of sends and course of time.                           *)
(*                                                                         *)
(* SlotsAreApart is not inductive: the next slot keeps its distance from   *)
(* the last one, hence from all only because none is ahead of the last.    *)
(***************************************************************************)

NoneAheadOfLast == \A s \in Sends : Paced(s) => slot[s] <= lastSlot

NoneAsksRedis == \A s \in Sends : stage[s] # "asking"

PacingInv == TypeOK /\ SlotsAreApart /\ NoneAheadOfLast /\ NoneAsksRedis

\* The next slot is an interval after the last, and never before the clock.
LEMMA NextSlotLemma ==
  ASSUME NEW at \in Nat, NEW last \in Nat
  PROVE  /\ NextSlot(at, last) \in Nat
         /\ NextSlot(at, last) >= last + Interval
         /\ NextSlot(at, last) >= at
BY IntervalAssumption DEF NextSlot

\* Reserving in memory keeps all slots apart.
LEMMA ReserveKeeps ==
  ASSUME PacingInv, NEW s \in Sends, ReserveInMemory(s)
  PROVE  PacingInv'
<1> DEFINE r == NextSlot(now, lastSlot)
<1>1. /\ r \in Nat
      /\ r >= lastSlot + Interval
  BY NextSlotLemma DEF PacingInv, TypeOK
<1>2. /\ asked' = [asked EXCEPT ![s] = now]
      /\ slot' = [slot EXCEPT ![s] = r]
      /\ lastSlot' = r
      /\ stage' = [stage EXCEPT ![s] = "sleeping"]
      /\ UNCHANGED <<now, expiry>>
  BY DEF ReserveInMemory, Reserve
<1> HIDE DEF r
<1>3. TypeOK'
  BY <1>1, <1>2 DEF PacingInv, TypeOK, Stages
<1>4. \A t \in Sends : t # s => (Paced(t)' <=> Paced(t)) /\ slot'[t] = slot[t]
  BY <1>2 DEF PacingInv, TypeOK, Paced
<1>5. slot'[s] = r
  BY <1>2 DEF PacingInv, TypeOK
<1>6. \A t \in Sends : t # s /\ Paced(t)' => r >= slot'[t] + Interval
  <2> SUFFICES ASSUME NEW t \in Sends, t # s, Paced(t)'
               PROVE  r >= slot'[t] + Interval
    OBVIOUS
  <2>1. slot'[t] <= lastSlot /\ slot'[t] \in Nat /\ lastSlot \in Nat
    BY <1>4 DEF PacingInv, NoneAheadOfLast, TypeOK
  <2> QED
    BY <1>1, <2>1, IntervalAssumption
<1>7. SlotsAreApart'
  BY <1>4, <1>5, <1>6 DEF PacingInv, SlotsAreApart, Apart
<1>8. NoneAheadOfLast'
  <2> SUFFICES ASSUME NEW t \in Sends, Paced(t)'
               PROVE  slot'[t] <= lastSlot'
    BY DEF NoneAheadOfLast
  <2>1. CASE t = s
    BY <2>1, <1>1, <1>2, <1>5
  <2>2. CASE t # s
    <3>1. slot'[t] \in Nat
      BY <1>3 DEF TypeOK
    <3> QED
      BY <1>1, <1>2, <1>6, <2>2, <3>1, IntervalAssumption
  <2> QED
    BY <2>1, <2>2
<1>9. NoneAsksRedis'
  BY <1>2 DEF PacingInv, NoneAsksRedis, TypeOK
<1> QED
  BY <1>3, <1>7, <1>8, <1>9 DEF PacingInv

\* The other steps of a line in memory reserve nothing.
LEMMA OtherStepsKeep ==
  ASSUME ~SharedStore, PacingInv, [Tick \/ \E s \in Sends : AskRedis(s)
                                             \/ RedisReserves(s) \/ RedisFails(s) \/ SendPaced(s)]_vars
  PROVE  PacingInv'
<1>1. CASE UNCHANGED vars
  BY <1>1 DEF PacingInv, TypeOK, SlotsAreApart, NoneAheadOfLast, NoneAsksRedis, Paced, vars
<1>2. CASE Tick
  BY <1>2 DEF Tick, PacingInv, TypeOK, SlotsAreApart, NoneAheadOfLast, NoneAsksRedis, Paced
<1>3. ASSUME NEW s \in Sends, SendPaced(s)
      PROVE  PacingInv'
  <2>1. /\ stage[s] = "sleeping"
        /\ stage' = [stage EXCEPT ![s] = "sent"]
        /\ UNCHANGED <<now, lastSlot, expiry, asked, slot>>
    BY <1>3 DEF SendPaced
  <2>2. TypeOK'
    BY <2>1 DEF PacingInv, TypeOK, Stages
  <2>3. \A t \in Sends : Paced(t)' <=> Paced(t)
    BY <2>1 DEF PacingInv, TypeOK, Paced
  <2>4. SlotsAreApart' /\ NoneAheadOfLast'
    BY <2>1, <2>3 DEF PacingInv, SlotsAreApart, NoneAheadOfLast, Apart
  <2>5. NoneAsksRedis'
    BY <2>1 DEF PacingInv, NoneAsksRedis, TypeOK
  <2> QED
    BY <2>2, <2>4, <2>5 DEF PacingInv
<1>4. ~ \E s \in Sends : AskRedis(s) \/ RedisReserves(s) \/ RedisFails(s)
  BY DEF AskRedis, RedisReserves, RedisFails, PacingInv, NoneAsksRedis
<1> QED
  BY <1>1, <1>2, <1>3, <1>4

\* No two slots of a line are closer than the interval (in-memory store,
\* acquireOutboundSlot of store.ts), however many sends burst and however the
\* clock runs on.
THEOREM MemorySlotsApart == ~SharedStore => (Spec => []SlotsAreApart)
<1> SUFFICES ASSUME ~SharedStore PROVE Spec => []SlotsAreApart
  OBVIOUS
<1>1. Init => PacingInv
  BY ClockAssumption DEF Init, PacingInv, TypeOK, Stages, SlotsAreApart, NoneAheadOfLast, NoneAsksRedis,
     Paced
<1>2. PacingInv /\ [Next]_vars => PacingInv'
  BY ReserveKeeps, OtherStepsKeep DEF Next, Acquire
<1>3. PacingInv => SlotsAreApart
  BY DEF PacingInv
<1> QED
  BY <1>1, <1>2, <1>3, PTL DEF Spec

-----------------------------------------------------------------------------
(***************************************************************************)
(* A send is repeated only for an answer that was lost, and given up on    *)
(* only if it was not carried out (SendsAreAsBelieved), for any requests   *)
(* and any number of retries of the client and of the agent.               *)
(***************************************************************************)

\* While a send may still be repeated, whatever was carried out was not heard of.
Unheard(r) == effects[r] = lost[r]

\* What the outcome of the last attempt says of it.
OutcomeIsTrue(r) ==
  CASE status[r] = "2xx" -> effects[r] = lost[r] + 1
    [] status[r] \in {"5xx", "2xx_no_id"} -> effects[r] \in {lost[r], lost[r] + 1}
    [] OTHER -> Unheard(r)

RequestTypeOK ==
  /\ phase \in [Request!Requests -> Request!Phases]
  /\ attempt \in [Request!Requests -> Nat] /\ sends \in [Request!Requests -> Nat]
  /\ status \in [Request!Requests -> Request!Outcomes \union {Request!Unknown}]
  /\ effects \in [Request!Requests -> Nat] /\ lost \in [Request!Requests -> Nat]

PostIsKnown(r) ==
  /\ phase[r] \in {"ready", "waiting", "backoff", "retrying"} => Unheard(r)
  /\ phase[r] \in {"settled", "thrown", "dropped"} => OutcomeIsTrue(r)
  /\ phase[r] = "resolved" => effects[r] = lost[r] + 1
  /\ phase[r] \in {"thrown", "dropped"} => status[r] # "2xx"

RequestInv == RequestTypeOK /\ \A r \in Posts : PostIsKnown(r)

LEMMA RequestInit == Request!Init => RequestInv
<1> SUFFICES ASSUME Request!Init PROVE RequestInv
  OBVIOUS
<1>1. RequestTypeOK
  BY DEF Request!Init, RequestTypeOK, Request!Phases, Request!Unknown
<1>2. \A r \in Posts : phase[r] = "ready" /\ effects[r] = 0 /\ lost[r] = 0
  BY DEF Request!Init, Request!Requests
<1> QED
  BY <1>1, <1>2 DEF RequestInv, PostIsKnown, Unheard

\* Nothing of the other requests changes.
LEMMA OneRequestMoves ==
  ASSUME RequestInv, RequestTypeOK', NEW r \in Request!Requests,
         \A q \in Request!Requests \ {r} :
           /\ phase'[q] = phase[q] /\ status'[q] = status[q]
           /\ effects'[q] = effects[q] /\ lost'[q] = lost[q],
         r \in Posts => PostIsKnown(r)'
  PROVE  RequestInv'
<1>1. Posts \subseteq Request!Requests
  BY DEF Request!Requests
<1>2. ASSUME NEW q \in Posts, q # r PROVE PostIsKnown(q)'
  BY <1>1, <1>2 DEF RequestInv, PostIsKnown, OutcomeIsTrue, Unheard
<1> QED
  BY <1>2 DEF RequestInv

LEMMA NetworkKeeps ==
  ASSUME RequestInv, NEW r \in Request!Requests, Request!Network(r)
  PROVE  RequestInv'
<1> USE DEF RequestTypeOK
<1>1. RequestTypeOK
  BY DEF RequestInv
<1>2. ASSUME NEW outcome \in Request!Outcomes, NEW carriedOut \in BOOLEAN,
             Request!Answer(r, outcome, carriedOut),
             carriedOut => outcome \in {"2xx", "5xx", "2xx_no_id"}, outcome = "2xx" => carriedOut
      PROVE  RequestInv'
  <2>1. PICK n : n = IF carriedOut THEN effects[r] + 1 ELSE effects[r]
    OBVIOUS
  <2>2. /\ phase[r] = "waiting" /\ phase' = [phase EXCEPT ![r] = "settled"]
        /\ status' = [status EXCEPT ![r] = outcome] /\ effects' = [effects EXCEPT ![r] = n]
        /\ attempt' = attempt /\ sends' = sends /\ lost' = lost
    BY <1>2, <2>1 DEF Request!Answer, Request!Moves
  <2>3. n \in Nat
    BY <1>1, <2>1
  <2>4. RequestTypeOK'
    BY <1>1, <2>2, <2>3 DEF Request!Phases
  <2>5. r \in Posts => PostIsKnown(r)'
    BY <1>1, <1>2, <2>1, <2>2 DEF RequestInv, PostIsKnown, OutcomeIsTrue, Unheard
  <2> QED
    BY <1>1, <2>2, <2>4, <2>5, OneRequestMoves
<1>3. CASE Request!AnswerIsLost(r)
  <2>1. PICK outcome \in {"network", "5xx_rate_code"} :
        /\ phase[r] = "waiting" /\ phase' = [phase EXCEPT ![r] = "settled"]
        /\ status' = [status EXCEPT ![r] = outcome] /\ effects' = [effects EXCEPT ![r] = @ + 1]
        /\ lost' = [lost EXCEPT ![r] = @ + 1] /\ attempt' = attempt /\ sends' = sends
    BY <1>3 DEF Request!AnswerIsLost, Request!Moves
  <2>2. RequestTypeOK'
    BY <1>1, <2>1 DEF Request!Phases, Request!Outcomes
  <2>3. r \in Posts => PostIsKnown(r)'
    BY <1>1, <2>1 DEF RequestInv, PostIsKnown, OutcomeIsTrue, Unheard
  <2> QED
    BY <1>1, <2>1, <2>2, <2>3, OneRequestMoves
<1> QED
  BY <1>2, <1>3 DEF Request!Network, Request!Accepts, Request!Rejects, Request!Fails,
    Request!NeverDone, Request!Outcomes

\* The loops move on; a post is repeated only if its last attempt was not heard of.
LEMMA LoopsKeep ==
  ASSUME RequestInv, NEW r \in Request!Requests, Request!Client(r) \/ Request!Agent(r)
  PROVE  RequestInv'
<1>1. RequestTypeOK /\ (r \in Posts => r \notin Gets)
  BY RequestAssumption DEF RequestInv, Request!RequestsAssumption
<1>2. PICK to \in Request!Phases : phase' = [phase EXCEPT ![r] = to]
  BY DEF Request!Client, Request!Agent, Request!Fetch, Request!Resolve, Request!BackOff, Request!TryAgain,
    Request!Throw, Request!ScheduleRetry, Request!SendAgain, Request!Drop, Request!Moves, Request!Phases
<1>3. /\ status' = status /\ effects' = effects /\ lost' = lost
      /\ attempt' = attempt \/ attempt' = [attempt EXCEPT ![r] = attempt[r] + 1]
           \/ attempt' = [attempt EXCEPT ![r] = 0]
      /\ sends' = sends \/ sends' = [sends EXCEPT ![r] = sends[r] + 1]
  BY DEF Request!Client, Request!Agent, Request!Fetch, Request!Resolve, Request!BackOff, Request!TryAgain,
    Request!Throw, Request!ScheduleRetry, Request!SendAgain, Request!Drop
<1>4. attempt' \in [Request!Requests -> Nat] /\ sends' \in [Request!Requests -> Nat]
  <2>1. attempt[r] + 1 \in Nat /\ sends[r] + 1 \in Nat
    BY <1>1 DEF RequestTypeOK
  <2> QED
    BY <1>1, <1>3, <2>1 DEF RequestTypeOK
<1>5. RequestTypeOK'
  BY <1>1, <1>2, <1>3, <1>4 DEF RequestTypeOK
<1>6. ASSUME r \in Posts PROVE PostIsKnown(r)'
  <2>1. /\ PostIsKnown(r) /\ phase'[r] = to /\ status[r] \in Request!Outcomes \union {Request!Unknown}
        /\ effects[r] \in Nat /\ lost[r] \in Nat
    BY <1>1, <1>2, <1>6 DEF RequestInv, RequestTypeOK
  <2>2. CASE Request!Fetch(r) \/ Request!TryAgain(r) \/ Request!SendAgain(r)
    BY <1>3, <2>1, <2>2 DEF Request!Fetch, Request!TryAgain, Request!SendAgain, Request!Moves, RequestTypeOK,
      PostIsKnown, Unheard, RequestInv
  <2>3. CASE Request!Resolve(r)
    BY <1>1, <1>3, <2>1, <2>3 DEF Request!Resolve, Request!Moves, RequestTypeOK, PostIsKnown, OutcomeIsTrue
  <2>4. CASE Request!BackOff(r)
    BY <1>1, <1>3, <1>6, <2>1, <2>4 DEF Request!BackOff, Request!IsRetryable, Request!Moves, RequestTypeOK,
      PostIsKnown, OutcomeIsTrue, Unheard
  <2>5. CASE Request!Throw(r) \/ Request!Drop(r)
    BY <1>1, <1>3, <2>1, <2>5 DEF Request!Throw, Request!Drop, Request!Moves, RequestTypeOK,
      PostIsKnown, OutcomeIsTrue, Unheard
  <2>6. CASE Request!ScheduleRetry(r)
    BY <1>1, <1>3, <2>1, <2>6 DEF Request!ScheduleRetry, Request!Classify, Request!Moves, RequestTypeOK,
      PostIsKnown, OutcomeIsTrue, Unheard
  <2> QED
    BY <2>2, <2>3, <2>4, <2>5, <2>6 DEF Request!Client, Request!Agent
<1>7. \A q \in Request!Requests \ {r} :
        /\ phase'[q] = phase[q] /\ status'[q] = status[q]
        /\ effects'[q] = effects[q] /\ lost'[q] = lost[q]
  BY <1>1, <1>2, <1>3 DEF RequestTypeOK
<1> QED
  BY <1>5, <1>6, <1>7, OneRequestMoves

\* Through the retries of the client and of the agent a send is repeated only for
\* an answer that was lost or a server error with a rate-limit code, one that
\* resolved was carried out, and one given up on was not, unless its last answer, a
\* server error or an acceptance without a message id, left it open
\* (GraphClient.request, toSendResult, handleSendFailure).
THEOREM SendsBelieved == PartsSpec => []SendsAreAsBelieved
<1>1. PartsInit => RequestInv
  BY RequestInit DEF PartsInit
<1>2. RequestInv /\ [PartsNext]_<<part, vars, windowVars, delayVars, requestVars>> => RequestInv'
  <2> SUFFICES ASSUME RequestInv, [PartsNext]_<<part, vars, windowVars, delayVars, requestVars>>
               PROVE  RequestInv'
    OBVIOUS
  <2>1. CASE Request!Next
    BY <2>1, NetworkKeeps, LoopsKeep DEF Request!Next
  <2>2. CASE UNCHANGED requestVars
    BY <2>2 DEF requestVars, RequestInv, RequestTypeOK, PostIsKnown, OutcomeIsTrue, Unheard
  <2> QED
    BY <2>1, <2>2 DEF PartsNext, PaceOnRedis, PaceInMemory, CountOnRedis, CountInMemory, ComputeDelays,
      SendRequests
<1>3. RequestInv => SendsAreAsBelieved
  <2> SUFFICES ASSUME RequestInv, NEW r \in Posts
               PROVE  /\ effects[r] <= 1 + lost[r]
                      /\ phase[r] = "resolved" => effects[r] >= 1
                      /\ phase[r] = "dropped" /\ status[r] \notin {"5xx", "2xx_no_id"} /\ lost[r] = 0
                           => effects[r] = 0
    BY DEF SendsAreAsBelieved, Request!SendsAreAsBelieved, Request!OncePerLostAnswer, Request!BeliefsAreTrue
  <2>1. effects[r] \in Nat /\ lost[r] \in Nat /\ phase[r] \in Request!Phases /\ PostIsKnown(r)
    BY DEF RequestInv, RequestTypeOK, Request!Requests
  <2> QED
    BY <2>1 DEF PostIsKnown, OutcomeIsTrue, Unheard, Request!Phases
<1> QED
  BY <1>1, <1>2, <1>3, PTL DEF PartsSpec

-----------------------------------------------------------------------------
(***************************************************************************)
(* The operator is told once of every window whose sends reach a threshold *)
(* (AlertsAreRight), for any caps, sends and hours.                        *)
(*                                                                         *)
(* In memory the count of the live bucket is that of its sends, and a      *)
(* bucket was logged for what its count has passed.                        *)
(***************************************************************************)

LEMMA SameCardinality == \A S : MemoryWindows!Cardinality(S) = Cardinality(S)
BY DEF MemoryWindows!Cardinality, Cardinality

\* A bucket is a number, and no later one is before it.
LEMMA MemoryBuckets ==
  ASSUME NEW w \in MemoryWindows!Windows, NEW t \in Nat
  PROVE  /\ MemoryWindows!Bucket(w, t) \in Nat
         /\ MemoryWindows!Bucket(w, t) <= MemoryWindows!Bucket(w, t + 1)
<1>1. DayHours \in Nat \ {0}
  BY WindowsAssumption DEF MemoryWindows!ClockAssumption
<1>2. t \div DayHours \in Nat /\ t \div DayHours <= (t + 1) \div DayHours
  BY <1>1
<1> QED
  BY <1>2 DEF MemoryWindows!Bucket

CountersTypeOK ==
  /\ hour \in Nat
  /\ counters \in [MemoryWindows!Windows -> [bucket: Nat, count: Nat]]
  /\ recording \in [Sends -> {"no", "over"}]
  /\ recorded \in [Sends -> Nat]
  /\ reply = [s \in Sends |-> [w \in MemoryWindows!Windows |-> MemoryWindows!Counted(0)]]
  /\ DOMAIN logged = MemoryWindows!Windows
  /\ \A w \in MemoryWindows!Windows :
       logged[w] \in [MemoryWindows!Buckets -> [MemoryWindows!Levels -> Nat]]

\* The sends of a window by their bucket: the live one is counted, none is later.
SendsAreCounted(w) ==
  /\ counters[w].bucket <= MemoryWindows!Bucket(w, hour)
  /\ counters[w].count = Cardinality(MemoryWindows!Sent(w, counters[w].bucket))
  /\ \A b \in Nat : /\ IsFiniteSet(MemoryWindows!Sent(w, b))
                    /\ b > counters[w].bucket => MemoryWindows!Sent(w, b) = {}

\* Some count up to n came to the threshold of the level.
Passed(l, n, w) == \E k \in 1 .. n : MemoryWindows!Crosses(l, k, Caps[w])

LoggedIsPassed(w) ==
  \A b \in MemoryWindows!Buckets, l \in MemoryWindows!Levels :
    logged[w][b][l] = IF Passed(l, Cardinality(MemoryWindows!Sent(w, b)), w) THEN 1 ELSE 0

CountersInv ==
  CountersTypeOK /\ \A w \in MemoryWindows!Windows : SendsAreCounted(w) /\ LoggedIsPassed(w)

LEMMA CountersInvInit == MemoryWindows!Init => CountersInv
<1> SUFFICES ASSUME MemoryWindows!Init PROVE CountersInv
  OBVIOUS
<1> USE DEF MemoryWindows!Init
<1>1. CountersTypeOK
  BY DEF CountersTypeOK
<1>2. ASSUME NEW w \in MemoryWindows!Windows PROVE SendsAreCounted(w) /\ LoggedIsPassed(w)
  <2>1. \A b : MemoryWindows!Sent(w, b) = {}
    BY <1>2 DEF MemoryWindows!Sent
  <2>2. Cardinality({}) = 0 /\ IsFiniteSet({})
    BY FS_EmptySet
  <2>3. hour \in Nat /\ counters[w].bucket = 0 /\ counters[w].count = 0
    BY <1>2
  <2>4. MemoryWindows!Bucket(w, hour) \in Nat
    BY <1>2, <2>3, MemoryBuckets
  <2>7. SendsAreCounted(w)
    <3>1. counters[w].bucket <= MemoryWindows!Bucket(w, hour)
      BY <2>3, <2>4
    <3>2. counters[w].count = Cardinality(MemoryWindows!Sent(w, counters[w].bucket))
      BY <2>1, <2>2, <2>3
    <3>3. \A b \in Nat : /\ IsFiniteSet(MemoryWindows!Sent(w, b))
                         /\ b > counters[w].bucket => MemoryWindows!Sent(w, b) = {}
      BY <2>1, <2>2
    <3> QED
      BY <3>1, <3>2, <3>3, Zenon DEF SendsAreCounted
  <2>5. \A l : ~Passed(l, 0, w)
    BY DEF Passed
  <2>6. LoggedIsPassed(w)
    BY <1>2, <2>1, <2>2, <2>5 DEF LoggedIsPassed
  <2> QED
    BY <2>6, <2>7
<1> QED
  BY <1>1, <1>2 DEF CountersInv

\* One more send in a bucket passes what its count comes to, and nothing twice.
LEMMA OneMorePasses ==
  ASSUME NEW l, NEW n \in Nat, NEW w
  PROVE  /\ Passed(l, n + 1, w) <=> (Passed(l, n, w) \/ MemoryWindows!Crosses(l, n + 1, Caps[w]))
         /\ ~(Passed(l, n, w) /\ MemoryWindows!Crosses(l, n + 1, Caps[w]))
<1>1. \A k : k \in 1 .. (n + 1) <=> (k \in 1 .. n \/ k = n + 1)
  OBVIOUS
<1>2. Passed(l, n + 1, w) <=> (Passed(l, n, w) \/ MemoryWindows!Crosses(l, n + 1, Caps[w]))
  BY <1>1, Zenon DEF Passed
<1>3. \A k : MemoryWindows!Crosses(l, k, Caps[w]) /\ MemoryWindows!Crosses(l, n + 1, Caps[w]) => k = n + 1
  BY DEF MemoryWindows!Crosses
<1>4. ~(n + 1 \in 1 .. n)
  OBVIOUS
<1> QED
  BY <1>2, <1>3, <1>4, Zenon DEF Passed

LEMMA RecordKeepsInv ==
  ASSUME CountersInv, NEW s \in Sends, MemoryWindows!RecordInMemory(s)
  PROVE  CountersInv'
<1> DEFINE live(w) == MemoryWindows!Bucket(w, hour)
           bumped(w) == MemoryWindows!Bumped(counters[w], live(w))
<1>1. /\ recording[s] = "no" /\ UNCHANGED <<hour, keys, reply>>
      /\ recording' = [recording EXCEPT ![s] = "over"] /\ recorded' = [recorded EXCEPT ![s] = hour]
      /\ counters' = [w \in MemoryWindows!Windows |-> bumped(w)]
  BY DEF MemoryWindows!RecordInMemory
<1>2. logged' = [w \in MemoryWindows!Windows |-> [b \in MemoryWindows!Buckets |-> [l \in MemoryWindows!Levels |->
                   IF b = live(w) /\ MemoryWindows!Crosses(l, counters'[w].count, Caps[w])
                   THEN logged[w][b][l] + 1 ELSE logged[w][b][l]]]]
  <2>1. \A w \in MemoryWindows!Windows : [v \in MemoryWindows!Windows |-> counters'[v].count][w] = counters'[w].count
    OBVIOUS
  <2> QED
    BY <2>1 DEF MemoryWindows!RecordInMemory, MemoryWindows!LogThresholds
<1>3. CountersTypeOK
  BY DEF CountersInv
<1>4. ASSUME NEW w \in MemoryWindows!Windows
      PROVE  /\ live(w) \in Nat /\ counters[w].bucket \in Nat /\ counters[w].count \in Nat
             /\ SendsAreCounted(w) /\ LoggedIsPassed(w)
             /\ counters'[w].bucket = live(w)
             /\ counters'[w].count = IF counters[w].bucket = live(w) THEN counters[w].count + 1 ELSE 1
  <2>1. counters'[w] = bumped(w)
    BY <1>1, <1>4
  <2>2. /\ bumped(w).bucket = live(w)
        /\ bumped(w).count = IF counters[w].bucket = live(w) THEN counters[w].count + 1 ELSE 1
    BY DEF MemoryWindows!Bumped
  <2> QED
    BY <1>3, <1>4, <2>1, <2>2, MemoryBuckets DEF CountersTypeOK, CountersInv
<1>5. ASSUME NEW w \in MemoryWindows!Windows, NEW b
      PROVE  MemoryWindows!Sent(w, b)' =
               IF b = live(w) THEN MemoryWindows!Sent(w, b) \union {s} ELSE MemoryWindows!Sent(w, b)
  <2>1. \A t \in Sends \ {s} : recording'[t] = recording[t] /\ recorded'[t] = recorded[t]
    BY <1>1, <1>3 DEF CountersTypeOK
  <2>2. recording'[s] = "over" /\ recorded'[s] = hour
    BY <1>1, <1>3 DEF CountersTypeOK
  <2>3. \A t \in Sends : reply[t][w] = MemoryWindows!Counted(0) /\ reply'[t][w] = MemoryWindows!Counted(0)
    BY <1>1, <1>3, <1>5 DEF CountersTypeOK
  <2>4. /\ MemoryWindows!Sent(w, b) =
             {t \in Sends : MemoryWindows!Bucket(w, recorded[t]) = b /\ recording[t] = "over"}
        /\ MemoryWindows!Sent(w, b)' =
             {t \in Sends : MemoryWindows!Bucket(w, recorded'[t]) = b /\ recording'[t] = "over"}
    BY <2>3 DEF MemoryWindows!Sent
  <2> QED
    BY <1>1, <2>1, <2>2, <2>4
<1>6. ASSUME NEW w \in MemoryWindows!Windows PROVE s \notin MemoryWindows!Sent(w, live(w))
  BY <1>1, <1>3, <1>6 DEF MemoryWindows!Sent, CountersTypeOK
<1>7. ASSUME NEW w \in MemoryWindows!Windows, NEW b \in Nat, b = live(w)
      PROVE  /\ counters'[w].count = Cardinality(MemoryWindows!Sent(w, b)) + 1
             /\ Cardinality(MemoryWindows!Sent(w, b)) \in Nat
             /\ IsFiniteSet(MemoryWindows!Sent(w, b)')
             /\ Cardinality(MemoryWindows!Sent(w, b)') = counters'[w].count
  <2>1. IsFiniteSet(MemoryWindows!Sent(w, b))
    BY <1>4, <1>7 DEF SendsAreCounted
  <2>2. Cardinality(MemoryWindows!Sent(w, b)) \in Nat
    BY <2>1, FS_CardinalityType
  <2>3. counters'[w].count = Cardinality(MemoryWindows!Sent(w, b)) + 1
    <3>1. CASE counters[w].bucket = b
      BY <1>4, <1>7, <3>1 DEF SendsAreCounted
    <3>2. CASE counters[w].bucket # b
      <4>1. counters[w].bucket <= live(w) /\ counters'[w].count = 1
        BY <1>4, <1>7, <3>2 DEF SendsAreCounted
      <4>2. MemoryWindows!Sent(w, b) = {}
        BY <1>4, <1>7, <3>2, <4>1 DEF SendsAreCounted
      <4> QED
        BY <4>1, <4>2, FS_EmptySet
    <3> QED
      BY <3>1, <3>2
  <2>4. MemoryWindows!Sent(w, b)' = MemoryWindows!Sent(w, b) \union {s}
    BY <1>5, <1>7
  <2>5. /\ IsFiniteSet(MemoryWindows!Sent(w, b) \union {s})
        /\ Cardinality(MemoryWindows!Sent(w, b) \union {s}) = Cardinality(MemoryWindows!Sent(w, b)) + 1
    BY <1>6, <1>7, <2>1, FS_AddElement
  <2> QED
    BY <2>2, <2>3, <2>4, <2>5
<1> HIDE DEF bumped
<1>8. ASSUME NEW w \in MemoryWindows!Windows PROVE SendsAreCounted(w)'
  <2>1. PICK b \in Nat : b = live(w)
    BY <1>4, <1>8
  <2>2. counters'[w].bucket = b /\ MemoryWindows!Bucket(w, hour)' = b
    BY <1>1, <1>4, <1>8, <2>1
  <2>3. counters'[w].count = Cardinality(MemoryWindows!Sent(w, b)')
    BY <1>7, <1>8, <2>1
  <2>4. (counters[w].count = Cardinality(MemoryWindows!Sent(w, counters[w].bucket)))'
    BY <2>2, <2>3 DEF MemoryWindows!Sent
  <2>5. ASSUME NEW d \in Nat
        PROVE  /\ IsFiniteSet(MemoryWindows!Sent(w, d)')
               /\ d > b => MemoryWindows!Sent(w, d)' = {}
    <3>1. CASE d = b
      BY <1>7, <1>8, <2>1, <2>5, <3>1
    <3>2. CASE d # b
      <4>1. MemoryWindows!Sent(w, d)' = MemoryWindows!Sent(w, d)
        BY <1>5, <1>8, <2>1, <3>2
      <4>2. /\ IsFiniteSet(MemoryWindows!Sent(w, d))
            /\ d > counters[w].bucket => MemoryWindows!Sent(w, d) = {}
            /\ counters[w].bucket <= b /\ counters[w].bucket \in Nat
        BY <1>4, <1>8, <2>1, <2>5 DEF SendsAreCounted
      <4> QED
        BY <2>5, <4>1, <4>2
    <3> QED
      BY <3>1, <3>2
  <2> QED
    BY <2>2, <2>4, <2>5 DEF SendsAreCounted
<1>9. ASSUME NEW w \in MemoryWindows!Windows PROVE LoggedIsPassed(w)'
  <2> SUFFICES ASSUME NEW b \in MemoryWindows!Buckets, NEW l \in MemoryWindows!Levels
               PROVE  logged'[w][b][l] = IF Passed(l, Cardinality(MemoryWindows!Sent(w, b)'), w) THEN 1 ELSE 0
    BY DEF LoggedIsPassed, Passed, MemoryWindows!Crosses
  <2>1. logged[w][b][l] = IF Passed(l, Cardinality(MemoryWindows!Sent(w, b)), w) THEN 1 ELSE 0
    BY <1>4, <1>9 DEF LoggedIsPassed
  <2>2. logged'[w][b][l] = IF b = live(w) /\ MemoryWindows!Crosses(l, counters'[w].count, Caps[w])
                           THEN logged[w][b][l] + 1 ELSE logged[w][b][l]
    BY <1>2, <1>9
  <2>3. CASE b # live(w)
    BY <1>5, <1>9, <2>1, <2>2, <2>3
  <2>4. CASE b = live(w)
    <3> DEFINE n == Cardinality(MemoryWindows!Sent(w, b))
    <3>1. n \in Nat /\ counters'[w].count = n + 1 /\ Cardinality(MemoryWindows!Sent(w, b)') = n + 1
      <4>1. b \in Nat /\ b = live(w)
        BY <1>4, <1>9, <2>4
      <4> QED
        BY <1>7, <1>9, <4>1
    <3> HIDE DEF n
    <3>2. /\ Passed(l, n + 1, w) <=> (Passed(l, n, w) \/ MemoryWindows!Crosses(l, n + 1, Caps[w]))
          /\ ~(Passed(l, n, w) /\ MemoryWindows!Crosses(l, n + 1, Caps[w]))
      BY <3>1, OneMorePasses
    <3>3. logged[w][b][l] = IF Passed(l, n, w) THEN 1 ELSE 0
      BY <2>1 DEF n
    <3> QED
      BY <2>2, <2>4, <3>1, <3>2, <3>3
  <2> QED
    BY <2>3, <2>4
<1>10. CountersTypeOK'
  <2>1. counters' \in [MemoryWindows!Windows -> [bucket: Nat, count: Nat]]
    <3>1. ASSUME NEW w \in MemoryWindows!Windows PROVE bumped(w) \in [bucket: Nat, count: Nat]
      BY <1>4, <3>1 DEF bumped, MemoryWindows!Bumped
    <3> QED
      BY <1>1, <3>1
  <2>2. /\ recording' \in [Sends -> {"no", "over"}] /\ recorded' \in [Sends -> Nat] /\ hour' \in Nat
        /\ reply' = [t \in Sends |-> [w \in MemoryWindows!Windows |-> MemoryWindows!Counted(0)]]
    BY <1>1, <1>3 DEF CountersTypeOK
  <2>3. ASSUME NEW w \in MemoryWindows!Windows
        PROVE  logged'[w] \in [MemoryWindows!Buckets -> [MemoryWindows!Levels -> Nat]]
    BY <1>2, <1>3, <2>3 DEF CountersTypeOK
  <2>4. DOMAIN logged' = MemoryWindows!Windows
    BY <1>2
  <2> QED
    BY <2>1, <2>2, <2>3, <2>4 DEF CountersTypeOK
<1> QED
  BY <1>8, <1>9, <1>10 DEF CountersInv

LEMMA CountersInvStep == CountersInv /\ MemoryWindows!Next => CountersInv'
<1> SUFFICES ASSUME CountersInv, MemoryWindows!Next PROVE CountersInv'
  OBVIOUS
<1>1. CASE MemoryWindows!Tick
  <2>1. hour \in Nat /\ hour' = hour + 1
    BY <1>1 DEF MemoryWindows!Tick, CountersInv, CountersTypeOK
  <2>2. UNCHANGED <<counters, recording, recorded, reply, logged>>
    BY <1>1 DEF MemoryWindows!Tick
  <2>3. CountersTypeOK'
    BY <2>1, <2>2 DEF CountersInv, CountersTypeOK
  <2>4. ASSUME NEW w \in MemoryWindows!Windows PROVE SendsAreCounted(w)' /\ LoggedIsPassed(w)'
    <3>1. \A b : MemoryWindows!Sent(w, b)' = MemoryWindows!Sent(w, b)
      BY <2>2 DEF MemoryWindows!Sent
    <3>2. counters[w].bucket <= MemoryWindows!Bucket(w, hour) /\ counters[w].bucket \in Nat
      BY <2>4 DEF CountersInv, CountersTypeOK, SendsAreCounted
    <3>3. /\ MemoryWindows!Bucket(w, hour) \in Nat /\ MemoryWindows!Bucket(w, hour + 1) \in Nat
          /\ MemoryWindows!Bucket(w, hour) <= MemoryWindows!Bucket(w, hour + 1)
      BY <2>1, <2>4, MemoryBuckets
    <3>4. counters[w].bucket <= MemoryWindows!Bucket(w, hour + 1)
      BY <3>2, <3>3
    <3>5. SendsAreCounted(w)'
      BY <2>1, <2>2, <2>4, <3>1, <3>4 DEF CountersInv, SendsAreCounted
    <3>6. LoggedIsPassed(w)'
      BY <2>2, <2>4, <3>1 DEF CountersInv, LoggedIsPassed, Passed, MemoryWindows!Crosses
    <3> QED
      BY <3>5, <3>6
  <2> QED
    BY <2>3, <2>4 DEF CountersInv
<1>2. ASSUME NEW s \in Sends, MemoryWindows!RecordInMemory(s) PROVE CountersInv'
  BY <1>2, RecordKeepsInv
<1>3. ASSUME NEW s \in Sends,
             \/ MemoryWindows!AskRedis(s) \/ MemoryWindows!LogReplies(s) \/ MemoryWindows!SkipReplies(s)
             \/ \E w \in MemoryWindows!Windows : MemoryWindows!RedisBumps(s, w) \/ MemoryWindows!RedisFails(s, w)
      PROVE  FALSE
  <2>1. recording[s] # "asking"
    BY <1>3 DEF CountersInv, CountersTypeOK
  <2> QED
    BY <1>3, <2>1 DEF MemoryWindows!AskRedis, MemoryWindows!LogReplies, MemoryWindows!SkipReplies,
      MemoryWindows!RedisBumps, MemoryWindows!RedisFails, MemoryWindows!Awaits
<1> QED
  BY <1>1, <1>2, <1>3 DEF MemoryWindows!Next

LEMMA CountersInvSuffices == CountersInv => MemoryWindows!AlertsMatchSends
<1> SUFFICES ASSUME CountersInv, NEW w \in MemoryWindows!Windows, NEW b \in MemoryWindows!Buckets,
                    NEW l \in MemoryWindows!Levels
             PROVE  logged[w][b][l] = 1 <=>
                      \E n \in 1 .. MemoryWindows!Cardinality(MemoryWindows!Sent(w, b)) :
                        MemoryWindows!Crosses(l, n, Caps[w])
  BY DEF MemoryWindows!AlertsMatchSends
<1>1. logged[w][b][l] = IF Passed(l, Cardinality(MemoryWindows!Sent(w, b)), w) THEN 1 ELSE 0
  BY DEF CountersInv, LoggedIsPassed
<1>2. logged[w][b][l] = 1 <=> Passed(l, Cardinality(MemoryWindows!Sent(w, b)), w)
  BY <1>1
<1> QED
  BY <1>2, SameCardinality DEF Passed

-----------------------------------------------------------------------------
(***************************************************************************)
(* On Redis the replies to the sends of a bucket differ, so that at most   *)
(* one of them is the count that a level is logged for.                    *)
(***************************************************************************)

HasReply(s, w, n) == reply[s][w] = RedisWindows!Counted(n)

BucketOf(s, w) == RedisWindows!Bucket(w, recorded[s])

AllCounts == Nat \ {0}

RepliesTypeOK ==
  /\ hour \in RedisWindows!Buckets
  /\ keys \in [RedisWindows!Windows -> [RedisWindows!Buckets -> Nat]]
  /\ recording \in [Sends -> {"no", "asking", "over"}]
  /\ recorded \in [Sends -> RedisWindows!Buckets]
  /\ reply \in [Sends -> [RedisWindows!Windows ->
                  {RedisWindows!Failed} \union {RedisWindows!Counted(n) : n \in Nat}]]
  /\ DOMAIN logged = RedisWindows!Windows
  /\ \A w \in RedisWindows!Windows :
       logged[w] \in [RedisWindows!Buckets -> [RedisWindows!Levels -> Nat]]

\* A reply is a count that the key has come to, and no two of a bucket are the same.
RepliesAreCounts(w) ==
  /\ \A s \in Sends, n \in AllCounts : HasReply(s, w, n) => n <= keys[w][BucketOf(s, w)]
  /\ \A s, r \in Sends, n \in AllCounts :
       HasReply(s, w, n) /\ HasReply(r, w, n) /\ BucketOf(s, w) = BucketOf(r, w) => s = r
  /\ \A s \in Sends, n \in AllCounts : recording[s] = "no" => ~HasReply(s, w, n)

\* s is done with and its reply is the one that the level is logged for.
Alerted(s, w, b, l) ==
  /\ recording[s] = "over" /\ BucketOf(s, w) = b
  /\ \E n \in AllCounts : HasReply(s, w, n) /\ RedisWindows!Crosses(l, n, Caps[w])

LoggedByOne(w) ==
  \A b \in RedisWindows!Buckets, l \in RedisWindows!Levels :
    logged[w][b][l] = 0 \/ (logged[w][b][l] = 1 /\ \E s \in Sends : Alerted(s, w, b, l))

RepliesInv ==
  RepliesTypeOK /\ \A w \in RedisWindows!Windows : RepliesAreCounts(w) /\ LoggedByOne(w)

LEMMA CountedIsCount ==
  /\ \A m, n : RedisWindows!Counted(m) = RedisWindows!Counted(n) => m = n
  /\ \A n : RedisWindows!Counted(n) # RedisWindows!Failed
  /\ \A n : ~RedisWindows!Counted(n).failed /\ RedisWindows!Counted(n).count = n
  /\ RedisWindows!Failed.failed
<1>1. \A n : ~RedisWindows!Counted(n).failed /\ RedisWindows!Counted(n).count = n
  BY DEF RedisWindows!Counted
<1>2. RedisWindows!Failed.failed
  BY DEF RedisWindows!Failed
<1>3. ASSUME NEW n PROVE RedisWindows!Counted(n) # RedisWindows!Failed
  BY <1>1, <1>2
<1>4. ASSUME NEW m, NEW n, RedisWindows!Counted(m) = RedisWindows!Counted(n) PROVE m = n
  <2>1. RedisWindows!Counted(m).count = m /\ RedisWindows!Counted(n).count = n
    BY <1>1
  <2> QED
    BY <1>4, <2>1
<1> QED
  BY <1>1, <1>2, <1>3, <1>4

LEMMA RedisBuckets ==
  ASSUME NEW w \in RedisWindows!Windows, NEW t \in RedisWindows!Buckets
  PROVE  RedisWindows!Bucket(w, t) \in RedisWindows!Buckets
<1>1. DayHours \in Nat \ {0} /\ RedisHours \in Nat
  BY WindowsAssumption DEF RedisWindows!ClockAssumption
<1>2. t \in Nat /\ t <= RedisHours
  BY <1>1 DEF RedisWindows!Buckets
<1>3. t \div DayHours \in Nat /\ t \div DayHours <= t
  BY <1>1, <1>2
<1> QED
  BY <1>1, <1>2, <1>3 DEF RedisWindows!Bucket, RedisWindows!Buckets

LEMMA RepliesInvInit == RedisWindows!Init => RepliesInv
<1> SUFFICES ASSUME RedisWindows!Init PROVE RepliesInv
  OBVIOUS
<1> USE DEF RedisWindows!Init
<1>1. 0 \in RedisWindows!Buckets
  BY WindowsAssumption DEF RedisWindows!ClockAssumption, RedisWindows!Buckets
<1>2. RepliesTypeOK
  BY <1>1 DEF RepliesTypeOK
<1>3. \A s \in Sends, w \in RedisWindows!Windows, n \in AllCounts : ~HasReply(s, w, n)
  BY CountedIsCount DEF HasReply, AllCounts
<1>4. \A w \in RedisWindows!Windows, b \in RedisWindows!Buckets, l \in RedisWindows!Levels : logged[w][b][l] = 0
  OBVIOUS
<1> QED
  BY <1>2, <1>3, <1>4 DEF RepliesInv, RepliesAreCounts, LoggedByOne

\* A step that changes neither the replies nor the log.
LEMMA RestKeepsInv ==
  ASSUME RepliesInv, RepliesTypeOK', UNCHANGED <<keys, reply, logged>>,
         \A s \in Sends : \/ recorded'[s] = recorded[s] /\ (recording'[s] = "no" => recording[s] = "no")
                                                        /\ (recording[s] = "over" => recording'[s] = "over")
                          \/ recording[s] = "no"
  PROVE  RepliesInv'
<1>1. \A s \in Sends, w \in RedisWindows!Windows, n \in AllCounts :
        /\ HasReply(s, w, n)' <=> HasReply(s, w, n)
        /\ HasReply(s, w, n) => recorded'[s] = recorded[s] /\ recording'[s] # "no"
  BY DEF RepliesInv, RepliesAreCounts, HasReply
<1>2. \A s \in Sends, w \in RedisWindows!Windows, n \in AllCounts :
        HasReply(s, w, n) => BucketOf(s, w)' = BucketOf(s, w)
  BY <1>1 DEF BucketOf, RedisWindows!Bucket
<1>3. ASSUME NEW w \in RedisWindows!Windows PROVE RepliesAreCounts(w)'
  <2>1. RepliesAreCounts(w)
    BY <1>3 DEF RepliesInv
  <2> QED
    BY <1>1, <1>2, <1>3, <2>1 DEF RepliesAreCounts
<1>4. ASSUME NEW w \in RedisWindows!Windows PROVE LoggedByOne(w)'
  <2>1. LoggedByOne(w)
    BY <1>4 DEF RepliesInv
  <2>2. ASSUME NEW s \in Sends, NEW b, NEW l, Alerted(s, w, b, l) PROVE Alerted(s, w, b, l)'
    BY <1>1, <1>2, <1>4, <2>2 DEF Alerted, RedisWindows!Crosses
  <2> QED
    BY <2>1, <2>2 DEF LoggedByOne
<1> QED
  BY <1>3, <1>4 DEF RepliesInv

LEMMA ReplyComes ==
  ASSUME RepliesInv, NEW s \in Sends, NEW w \in RedisWindows!Windows,
         RedisWindows!RedisBumps(s, w) \/ RedisWindows!RedisFails(s, w)
  PROVE  RepliesInv'
<1> DEFINE b == BucketOf(s, w)
<1>1. /\ recording[s] # "no" /\ HasReply(s, w, 0)
      /\ UNCHANGED <<hour, recording, recorded, logged>>
      /\ \/ /\ keys' = [keys EXCEPT ![w][b] = @ + 1]
            /\ reply' = [reply EXCEPT ![s][w] = RedisWindows!Counted(keys[w][b] + 1)]
         \/ /\ keys' = keys
            /\ reply' = [reply EXCEPT ![s][w] = RedisWindows!Failed]
  BY DEF RedisWindows!RedisBumps, RedisWindows!RedisFails, RedisWindows!Awaits, HasReply, BucketOf
<1>2. /\ RepliesTypeOK /\ b \in RedisWindows!Buckets /\ keys[w][b] \in Nat /\ keys[w][b] + 1 \in AllCounts
  BY RedisBuckets DEF RepliesInv, RepliesTypeOK, BucketOf, AllCounts
<1>3. /\ \A r \in Sends, v \in RedisWindows!Windows :
           reply'[r][v] = IF r = s /\ v = w THEN reply'[s][w] ELSE reply[r][v]
      /\ reply'[s][w] \in {RedisWindows!Failed, RedisWindows!Counted(keys[w][b] + 1)}
      /\ reply'[s][w] = RedisWindows!Counted(keys[w][b] + 1) => keys'[w][b] = keys[w][b] + 1
      /\ \A v \in RedisWindows!Windows, d \in RedisWindows!Buckets :
           keys'[v][d] \in Nat /\ keys'[v][d] >= keys[v][d]
  <2>1. CASE reply' = [reply EXCEPT ![s][w] = RedisWindows!Failed] /\ keys' = keys
    BY <1>1, <1>2, <2>1, CountedIsCount DEF RepliesTypeOK
  <2>2. CASE /\ keys' = [keys EXCEPT ![w][b] = @ + 1]
             /\ reply' = [reply EXCEPT ![s][w] = RedisWindows!Counted(keys[w][b] + 1)]
    <3> HIDE DEF b
    <3> QED
      BY <1>1, <1>2, <2>2 DEF RepliesTypeOK
  <2> QED
    BY <1>1, <2>1, <2>2
<1>4. RepliesTypeOK'
  <2>1. keys' \in [RedisWindows!Windows -> [RedisWindows!Buckets -> Nat]]
    <3> HIDE DEF b
    <3>1. keys[w][b] + 1 \in Nat /\ keys \in [RedisWindows!Windows -> [RedisWindows!Buckets -> Nat]]
      BY <1>2 DEF RepliesTypeOK
    <3>2. [keys EXCEPT ![w][b] = @ + 1] \in [RedisWindows!Windows -> [RedisWindows!Buckets -> Nat]]
      BY <1>2, <3>1
    <3> QED
      BY <1>1, <3>1, <3>2
  <2>2. RedisWindows!Counted(keys[w][b] + 1) \in {RedisWindows!Counted(n) : n \in Nat}
    BY <1>2
  <2>3. reply' \in [Sends -> [RedisWindows!Windows ->
                      {RedisWindows!Failed} \union {RedisWindows!Counted(n) : n \in Nat}]]
    <3> DEFINE replies == {RedisWindows!Failed} \union {RedisWindows!Counted(n) : n \in Nat}
    <3>1. RedisWindows!Failed \in replies /\ RedisWindows!Counted(keys[w][b] + 1) \in replies
      BY <2>2
    <3>2. reply \in [Sends -> [RedisWindows!Windows -> replies]]
      BY <1>2 DEF RepliesTypeOK
    <3> HIDE DEF b, replies
    <3>3. reply' \in [Sends -> [RedisWindows!Windows -> replies]]
      BY <1>1, <3>1, <3>2
    <3> QED
      BY <3>3 DEF replies
  <2> QED
    BY <1>1, <1>2, <2>1, <2>3 DEF RepliesTypeOK
<1>5. \A r \in Sends, v \in RedisWindows!Windows : BucketOf(r, v)' = BucketOf(r, v)
  BY <1>1 DEF BucketOf, RedisWindows!Bucket
<1>6. ASSUME NEW r \in Sends, NEW v \in RedisWindows!Windows, NEW n \in AllCounts
      PROVE  /\ HasReply(r, v, n) => HasReply(r, v, n)'
             /\ HasReply(r, v, n)' => \/ HasReply(r, v, n)
                                      \/ /\ r = s /\ v = w /\ n = keys[w][b] + 1 /\ keys'[w][b] = n
  <2>1. ~HasReply(s, w, n)
    BY <1>1, <1>6, CountedIsCount DEF HasReply, AllCounts
  <2>2. CASE r = s /\ v = w
    BY <1>3, <1>6, <2>1, <2>2, CountedIsCount DEF HasReply
  <2>3. CASE ~(r = s /\ v = w)
    BY <1>3, <1>6, <2>3 DEF HasReply
  <2> QED
    BY <2>2, <2>3
<1>7. ASSUME NEW v \in RedisWindows!Windows PROVE RepliesAreCounts(v)'
  <2>1. /\ \A r \in Sends, n \in AllCounts : HasReply(r, v, n) => n <= keys[v][BucketOf(r, v)]
        /\ \A r, t \in Sends, n \in AllCounts :
             HasReply(r, v, n) /\ HasReply(t, v, n) /\ BucketOf(r, v) = BucketOf(t, v) => r = t
        /\ \A r \in Sends, n \in AllCounts : recording[r] = "no" => ~HasReply(r, v, n)
    BY <1>7 DEF RepliesInv, RepliesAreCounts
  <2>2. \A r \in Sends : BucketOf(r, v) \in RedisWindows!Buckets /\ keys[v][BucketOf(r, v)] \in Nat
    BY <1>2, <1>7, RedisBuckets DEF RepliesTypeOK, BucketOf
  <2>3. ASSUME NEW r \in Sends, NEW n \in AllCounts, HasReply(r, v, n)' PROVE n <= keys'[v][BucketOf(r, v)]
    <3>1. n \in Nat /\ keys'[v][BucketOf(r, v)] \in Nat /\ keys'[v][BucketOf(r, v)] >= keys[v][BucketOf(r, v)]
      BY <1>3, <1>7, <2>2, <2>3 DEF AllCounts
    <3>2. CASE HasReply(r, v, n)
      BY <2>1, <2>2, <2>3, <3>1, <3>2
    <3>3. CASE r = s /\ v = w /\ keys'[w][b] = n
      BY <3>1, <3>3
    <3> QED
      BY <1>6, <1>7, <2>3, <3>2, <3>3
  <2>4. ASSUME NEW r \in Sends, NEW t \in Sends, NEW n \in AllCounts, HasReply(r, v, n)', HasReply(t, v, n)',
               BucketOf(r, v) = BucketOf(t, v)
        PROVE  r = t
    <3> HIDE DEF b
    <3>1. n \in Nat
      BY DEF AllCounts
    <3>2. CASE HasReply(r, v, n) /\ HasReply(t, v, n)
      BY <2>1, <2>4, <3>2
    <3>3. CASE ~HasReply(r, v, n)
      <4>1. r = s /\ v = w /\ n = keys[w][b] + 1
        BY <1>6, <1>7, <2>4, <3>3
      <4>2. ~HasReply(t, v, n)
        BY <1>2, <2>1, <2>4, <3>1, <4>1 DEF b
      <4> QED
        BY <1>6, <1>7, <2>4, <4>1, <4>2
    <3>4. CASE ~HasReply(t, v, n)
      <4>1. t = s /\ v = w /\ n = keys[w][b] + 1
        BY <1>6, <1>7, <2>4, <3>4
      <4>2. ~HasReply(r, v, n)
        BY <1>2, <2>1, <2>4, <3>1, <4>1 DEF b
      <4> QED
        BY <1>6, <1>7, <2>4, <4>1, <4>2
    <3> QED
      BY <3>2, <3>3, <3>4
  <2>5. ASSUME NEW r \in Sends, NEW n \in AllCounts, recording'[r] = "no" PROVE ~HasReply(r, v, n)'
    BY <1>1, <1>6, <1>7, <2>1, <2>5
  <2> QED
    BY <1>5, <1>7, <2>3, <2>4, <2>5 DEF RepliesAreCounts
<1>8. ASSUME NEW v \in RedisWindows!Windows PROVE LoggedByOne(v)'
  <2>1. LoggedByOne(v)
    BY <1>8 DEF RepliesInv
  <2>2. ASSUME NEW r \in Sends, NEW d, NEW l, Alerted(r, v, d, l) PROVE Alerted(r, v, d, l)'
    BY <1>1, <1>5, <1>6, <1>8, <2>2 DEF Alerted, RedisWindows!Crosses
  <2> QED
    BY <1>1, <2>1, <2>2 DEF LoggedByOne
<1> QED
  BY <1>4, <1>7, <1>8 DEF RepliesInv

LEMMA LogKeepsInv ==
  ASSUME RepliesInv, NEW s \in Sends, RedisWindows!LogReplies(s)
  PROVE  RepliesInv'
<1> DEFINE tally(w) == reply[s][w].count
           hits(w, b, l) == b = BucketOf(s, w) /\ RedisWindows!Crosses(l, tally(w), Caps[w])
<1>1. /\ recording[s] = "asking" /\ recording' = [recording EXCEPT ![s] = "over"]
      /\ UNCHANGED <<hour, keys, recorded, reply>>
      /\ \A w \in RedisWindows!Windows : ~reply[s][w].failed /\ reply[s][w] # RedisWindows!Counted(0)
  BY DEF RedisWindows!LogReplies
<1>2. logged' = [w \in RedisWindows!Windows |-> [b \in RedisWindows!Buckets |-> [l \in RedisWindows!Levels |->
                   IF hits(w, b, l) THEN logged[w][b][l] + 1 ELSE logged[w][b][l]]]]
  <2>1. \A w \in RedisWindows!Windows : [v \in RedisWindows!Windows |-> reply[s][v].count][w] = tally(w)
    OBVIOUS
  <2> QED
    BY <2>1 DEF RedisWindows!LogReplies, RedisWindows!LogThresholds, BucketOf
<1> HIDE DEF hits
<1>3. ASSUME NEW w \in RedisWindows!Windows PROVE tally(w) \in AllCounts /\ HasReply(s, w, tally(w))
  <2>1. reply[s][w] \in {RedisWindows!Failed} \union {RedisWindows!Counted(n) : n \in Nat}
    BY <1>3 DEF RepliesInv, RepliesTypeOK
  <2>2. PICK n \in Nat : reply[s][w] = RedisWindows!Counted(n)
    BY <1>1, <1>3, <2>1, CountedIsCount
  <2>3. n # 0 /\ tally(w) = n
    BY <1>1, <1>3, <2>2, CountedIsCount
  <2> QED
    BY <2>2, <2>3 DEF HasReply, AllCounts
<1>4. \A n : \A r \in Sends, w \in RedisWindows!Windows :
        /\ HasReply(r, w, n)' <=> HasReply(r, w, n)
        /\ BucketOf(r, w)' = BucketOf(r, w)
        /\ recording'[r] = IF r = s THEN "over" ELSE recording[r]
  BY <1>1 DEF HasReply, BucketOf, RedisWindows!Bucket, RepliesInv, RepliesTypeOK
<1>5. RepliesTypeOK'
  <2>1. \A w \in RedisWindows!Windows :
          logged'[w] \in [RedisWindows!Buckets -> [RedisWindows!Levels -> Nat]]
    BY <1>2 DEF RepliesInv, RepliesTypeOK
  <2>2. DOMAIN logged' = RedisWindows!Windows
    BY <1>2
  <2> QED
    BY <1>1, <2>1, <2>2 DEF RepliesInv, RepliesTypeOK
<1>6. ASSUME NEW w \in RedisWindows!Windows PROVE RepliesAreCounts(w)'
  <2>1. RepliesAreCounts(w)
    BY <1>6 DEF RepliesInv
  <2> QED
    BY <1>1, <1>4, <1>6, <2>1 DEF RepliesAreCounts
<1>7. ASSUME NEW w \in RedisWindows!Windows PROVE LoggedByOne(w)'
  <2> SUFFICES ASSUME NEW b \in RedisWindows!Buckets, NEW l \in RedisWindows!Levels
               PROVE  \/ logged'[w][b][l] = 0
                      \/ logged'[w][b][l] = 1 /\ \E r \in Sends : Alerted(r, w, b, l)'
    BY DEF LoggedByOne
  <2>1. logged[w][b][l] = 0 \/ (logged[w][b][l] = 1 /\ \E r \in Sends : Alerted(r, w, b, l))
    BY <1>7 DEF RepliesInv, LoggedByOne
  <2>2. ASSUME NEW r \in Sends, Alerted(r, w, b, l) PROVE Alerted(r, w, b, l)'
    BY <1>4, <1>7, <2>2 DEF Alerted, RedisWindows!Crosses
  <2>3. logged'[w][b][l] = IF hits(w, b, l) THEN logged[w][b][l] + 1 ELSE logged[w][b][l]
    BY <1>2, <1>7
  <2>4. CASE ~hits(w, b, l)
    BY <2>1, <2>2, <2>3, <2>4
  <2>5. CASE hits(w, b, l)
    <3>1. Alerted(s, w, b, l)'
      BY <1>3, <1>4, <1>7, <2>5 DEF Alerted, hits, RedisWindows!Crosses
    <3>2. ASSUME NEW r \in Sends, Alerted(r, w, b, l) PROVE FALSE
      <4>1. PICK n \in AllCounts : HasReply(r, w, n) /\ RedisWindows!Crosses(l, n, Caps[w])
        BY <3>2 DEF Alerted
      <4>2. n = tally(w)
        BY <2>5, <4>1 DEF hits, RedisWindows!Crosses
      <4>3. r = s
        BY <1>3, <1>7, <2>5, <3>2, <4>1, <4>2 DEF RepliesInv, RepliesAreCounts, Alerted, hits
      <4> QED
        BY <1>1, <3>2, <4>3 DEF Alerted
    <3> QED
      BY <2>1, <2>3, <2>5, <3>1, <3>2
  <2> QED
    BY <2>4, <2>5
<1> QED
  BY <1>5, <1>6, <1>7 DEF RepliesInv

LEMMA RepliesInvStep == RepliesInv /\ RedisWindows!Next => RepliesInv'
<1> SUFFICES ASSUME RepliesInv, RedisWindows!Next PROVE RepliesInv'
  OBVIOUS
<1>1. CASE RedisWindows!Tick
  <2>1. RepliesTypeOK'
    BY <1>1, WindowsAssumption DEF RedisWindows!Tick, RedisWindows!ClockAssumption, RepliesInv, RepliesTypeOK,
      RedisWindows!Buckets
  <2> QED
    BY <1>1, <2>1, RestKeepsInv DEF RedisWindows!Tick
<1>2. ASSUME NEW s \in Sends, RedisWindows!AskRedis(s) \/ RedisWindows!SkipReplies(s) PROVE RepliesInv'
  <2>1. RepliesTypeOK'
    <3>1. RepliesTypeOK
      BY DEF RepliesInv
    <3>2. CASE RedisWindows!AskRedis(s)
      BY <3>1, <3>2 DEF RedisWindows!AskRedis, RepliesTypeOK
    <3>3. CASE RedisWindows!SkipReplies(s)
      BY <3>1, <3>3 DEF RedisWindows!SkipReplies, RepliesTypeOK
    <3> QED
      BY <1>2, <3>2, <3>3
  <2>2. \A r \in Sends :
          \/ recorded'[r] = recorded[r] /\ (recording'[r] = "no" => recording[r] = "no")
                                        /\ (recording[r] = "over" => recording'[r] = "over")
          \/ recording[r] = "no"
    BY <1>2 DEF RedisWindows!AskRedis, RedisWindows!SkipReplies, RepliesInv, RepliesTypeOK
  <2>3. UNCHANGED <<keys, reply, logged>>
    BY <1>2 DEF RedisWindows!AskRedis, RedisWindows!SkipReplies
  <2> QED
    BY <2>1, <2>2, <2>3, RestKeepsInv
<1> QED
  BY <1>1, <1>2, ReplyComes, LogKeepsInv DEF RedisWindows!Next, RedisWindows!RecordInMemory

\* A window whose sends reach a threshold is logged once for its level, and no other:
\* in memory exactly so, on Redis, where calls fail, never twice (recordOutbound,
\* logWindowThreshold).
THEOREM AlertsRight == PartsSpec => []AlertsAreRight
<1> DEFINE WindowsInv == /\ part = "windows in memory" => CountersInv
                         /\ part = "windows on redis" => RepliesInv
<1>1. PartsInit => WindowsInv
  BY CountersInvInit, RepliesInvInit DEF PartsInit
<1>2. WindowsInv /\ [PartsNext]_<<part, vars, windowVars, delayVars, requestVars>> => WindowsInv'
  <2>1. part' = part /\ UNCHANGED windowVars /\ WindowsInv => WindowsInv'
    <3>1. CountersInv /\ UNCHANGED windowVars => CountersInv'
      <4> SUFFICES ASSUME CountersInv, UNCHANGED windowVars PROVE CountersInv'
        OBVIOUS
      <4>1. UNCHANGED <<hour, counters, recording, recorded, reply, logged>>
        BY DEF windowVars
      <4>2. CountersTypeOK'
        BY <4>1 DEF CountersInv, CountersTypeOK
      <4>3. \A w, b : MemoryWindows!Sent(w, b)' = MemoryWindows!Sent(w, b)
        BY <4>1 DEF MemoryWindows!Sent
      <4>4. ASSUME NEW w \in MemoryWindows!Windows PROVE SendsAreCounted(w)' /\ LoggedIsPassed(w)'
        BY <4>1, <4>3, <4>4 DEF CountersInv, SendsAreCounted, LoggedIsPassed, Passed, MemoryWindows!Bucket,
          MemoryWindows!Crosses
      <4> QED
        BY <4>2, <4>4 DEF CountersInv
    <3>2. RepliesInv /\ UNCHANGED windowVars => RepliesInv'
      BY DEF windowVars, RepliesInv, RepliesTypeOK, RepliesAreCounts, LoggedByOne, Alerted, HasReply, BucketOf,
        RedisWindows!Bucket, RedisWindows!Crosses
    <3> QED
      BY <3>1, <3>2
  <2>2. CASE CountOnRedis
    BY <2>2, RepliesInvStep DEF CountOnRedis
  <2>3. CASE CountInMemory
    BY <2>3, CountersInvStep DEF CountInMemory
  <2>4. CASE PaceOnRedis \/ PaceInMemory \/ ComputeDelays \/ SendRequests
    BY <2>1, <2>4 DEF PaceOnRedis, PaceInMemory, ComputeDelays, SendRequests
  <2>5. CASE UNCHANGED <<part, vars, windowVars, delayVars, requestVars>>
    BY <2>1, <2>5
  <2> HIDE DEF WindowsInv
  <2> QED
    BY <2>2, <2>3, <2>4, <2>5 DEF PartsNext
<1>3. RepliesInv => RedisWindows!AtMostOneAlert
  BY DEF RepliesInv, LoggedByOne, RedisWindows!AtMostOneAlert
<1>4. WindowsInv => AlertsAreRight
  BY <1>3, CountersInvSuffices DEF AlertsAreRight
<1> QED
  BY <1>1, <1>2, <1>4, PTL DEF PartsSpec

-----------------------------------------------------------------------------
(***************************************************************************)
(* The delays (DelaysAreBounded of Delays), proved for any knobs that the  *)
(* configuration admits, any counts and any random number.                 *)
(*                                                                         *)
(* The powers first.  That there is a function which is 1 at 0 and b times *)
(* its value before at every other number needs an induction, which is the *)
(* argument of the least counterexample.                                   *)
(***************************************************************************)

\* A set of numbers that is not empty has a least one.
LEMMA LeastExists ==
  ASSUME NEW T, T \subseteq Nat, T # {} PROVE \E x \in T : \A y \in T : x <= y
<1> DEFINE R == {p \in Nat \X Nat : p[1] < p[2]}
<1>1. R = OpToRel(<, Nat)
  BY DEF OpToRel
<1>2. IsWellFoundedOn(R, Nat)
  BY <1>1, NatLessThanWellFounded
<1>3. PICK x \in T : \A y \in T : <<y, x>> \notin R
  <2> HIDE DEF R
  <2> QED
    BY <1>2, WFMin
<1>4. ASSUME NEW y \in T PROVE x <= y
  <2>1. x \in Nat /\ y \in Nat
    BY <1>4
  <2>2. ~(y < x)
    BY <1>3, <1>4, <2>1
  <2> QED
    BY <2>1, <2>2
<1> QED
  BY <1>4

\* A set that has 0, and with every number the next, has them all.
LEMMA AllNumbers ==
  ASSUME NEW S, 0 \in S, \A n \in Nat : n \in S => n + 1 \in S PROVE Nat \subseteq S
<1> DEFINE T == Nat \ S
<1>1. SUFFICES ASSUME T # {} PROVE FALSE
  OBVIOUS
<1>2. PICK x \in T : \A y \in T : x <= y
  <2>1. T \subseteq Nat
    OBVIOUS
  <2> HIDE DEF T
  <2> QED
    BY <1>1, <2>1, LeastExists
<1>3. x \in Nat /\ x # 0 /\ x \notin S
  OBVIOUS
<1>4. x - 1 \in Nat /\ (x - 1) + 1 = x /\ ~(x <= x - 1)
  BY <1>3
<1>5. x - 1 \in S
  BY <1>2, <1>4
<1> QED
  BY <1>3, <1>4, <1>5

\* The powers of b up to the exponent n.
PowersTo(b, n) ==
  {g \in [0..n -> Nat] : g[0] = 1 /\ \A i \in 0..n : i # 0 => g[i] = b * g[i - 1]}

LEMMA PowersToExist == ASSUME NEW b \in Nat PROVE \A n \in Nat : PowersTo(b, n) # {}
<1> DEFINE S == {n \in Nat : PowersTo(b, n) # {}}
<1>1. 0 \in S
  <2>1. [i \in 0..0 |-> 1] \in PowersTo(b, 0)
    BY DEF PowersTo
  <2> QED
    BY <2>1
<1>2. ASSUME NEW n \in Nat, n \in S PROVE n + 1 \in S
  <2>1. PICK g \in PowersTo(b, n) : TRUE
    BY <1>2
  <2>2. /\ g \in [0..n -> Nat] /\ g[0] = 1
        /\ \A i \in 0..n : i # 0 => g[i] = b * g[i - 1]
    BY <2>1 DEF PowersTo
  <2>3. n \in 0..n /\ b * g[n] \in Nat
    BY <2>2
  <2> DEFINE h == [i \in 0..(n + 1) |-> IF i = n + 1 THEN b * g[n] ELSE g[i]]
  <2>4. h \in [0..(n + 1) -> Nat] /\ h[0] = 1
    BY <2>2, <2>3
  <2>5. ASSUME NEW i \in 0..(n + 1), i # 0 PROVE h[i] = b * h[i - 1]
    <3>1. CASE i = n + 1
      BY <2>2, <2>3, <3>1
    <3>2. CASE i # n + 1
      <4>1. i \in 0..n /\ i - 1 \in 0..n /\ i - 1 # n + 1 /\ i - 1 \in 0..(n + 1)
        BY <2>5, <3>2
      <4> QED
        BY <2>2, <2>5, <3>2, <4>1
    <3> QED
      BY <3>1, <3>2
  <2> HIDE DEF h
  <2>6. h \in PowersTo(b, n + 1)
    BY <2>4, <2>5 DEF PowersTo
  <2> QED
    BY <2>6
<1> HIDE DEF S
<1>3. Nat \subseteq S
  BY <1>1, <1>2, AllNumbers
<1> QED
  BY <1>3 DEF S

LEMMA PowersToAgree ==
  ASSUME NEW b \in Nat, NEW m \in Nat, NEW n \in Nat, m <= n,
         NEW g \in PowersTo(b, m), NEW h \in PowersTo(b, n)
  PROVE  \A i \in 0..m : g[i] = h[i]
<1> DEFINE S == {i \in Nat : i <= m => g[i] = h[i]}
<1>1. /\ g[0] = 1 /\ \A i \in 0..m : i # 0 => g[i] = b * g[i - 1]
      /\ h[0] = 1 /\ \A i \in 0..n : i # 0 => h[i] = b * h[i - 1]
  BY DEF PowersTo
<1>2. 0 \in S
  BY <1>1
<1>3. ASSUME NEW i \in Nat, i \in S PROVE i + 1 \in S
  <2>1. SUFFICES ASSUME i + 1 <= m PROVE g[i + 1] = h[i + 1]
    OBVIOUS
  <2>2. i + 1 \in 0..m /\ i + 1 \in 0..n /\ i + 1 # 0 /\ (i + 1) - 1 = i /\ i <= m
    BY <2>1
  <2>3. g[i] = h[i]
    BY <1>3, <2>2
  <2> QED
    BY <1>1, <2>2, <2>3
<1> HIDE DEF S
<1>4. Nat \subseteq S
  BY <1>2, <1>3, AllNumbers
<1> QED
  BY <1>4 DEF S

\* What the powers of b are.
LEMMA PowerDef ==
  ASSUME NEW b \in Nat
  PROVE  /\ Delay!Power(b)[0] = 1
         /\ \A n \in Nat : Delay!Power(b)[n + 1] = b * Delay!Power(b)[n]
         /\ \A n \in Nat : Delay!Power(b)[n] \in Nat
<1> DEFINE G(n) == CHOOSE g \in PowersTo(b, n) : TRUE
           F == [n \in Nat |-> G(n)[n]]
<1>1. ASSUME NEW n \in Nat PROVE G(n) \in PowersTo(b, n)
  BY PowersToExist
<1> HIDE DEF G
<1>2. F[0] = 1
  BY <1>1 DEF PowersTo
<1>3. ASSUME NEW n \in Nat, n # 0 PROVE F[n] = b * F[n - 1]
  <2>1. n - 1 \in Nat /\ n - 1 <= n /\ n \in 0..n /\ n - 1 \in 0..(n - 1)
    BY <1>3
  <2>2. G(n)[n] = b * G(n)[n - 1]
    BY <1>1, <1>3, <2>1 DEF PowersTo
  <2>3. G(n - 1)[n - 1] = G(n)[n - 1]
    BY <1>1, <2>1, PowersToAgree
  <2> QED
    BY <2>1, <2>2, <2>3
<1>4. F = [n \in Nat |-> IF n = 0 THEN 1 ELSE b * F[n - 1]]
  <2> DEFINE E == [n \in Nat |-> IF n = 0 THEN 1 ELSE b * F[n - 1]]
  <2>1. \A n \in Nat : F[n] = E[n]
    <3> HIDE DEF F
    <3> QED
      BY <1>2, <1>3
  <2>2. DOMAIN F = Nat /\ DOMAIN E = Nat /\ F = [n \in Nat |-> F[n]] /\ E = [n \in Nat |-> E[n]]
    OBVIOUS
  <2> HIDE DEF E, F
  <2>3. F = E
    BY <2>1, <2>2
  <2> QED
    BY <2>3 DEF E
<1> HIDE DEF F
<1>5. Delay!Power(b) = [n \in Nat |-> IF n = 0 THEN 1 ELSE b * Delay!Power(b)[n - 1]]
  BY <1>4 DEF Delay!Power
<1> DEFINE P == Delay!Power(b)
<1> HIDE DEF P
<1>6. P = [n \in Nat |-> IF n = 0 THEN 1 ELSE b * P[n - 1]]
  BY <1>5 DEF P
<1>7. P[0] = 1
  BY <1>6
<1>8. ASSUME NEW n \in Nat PROVE P[n + 1] = b * P[n]
  <2>1. n + 1 \in Nat /\ n + 1 # 0 /\ (n + 1) - 1 = n
    OBVIOUS
  <2> QED
    BY <1>6, <2>1
<1> DEFINE S == {n \in Nat : P[n] \in Nat}
<1>9. 0 \in S
  BY <1>7
<1>10. ASSUME NEW n \in Nat, n \in S PROVE n + 1 \in S
  BY <1>8, <1>10
<1>11. Nat \subseteq S
  <2> HIDE DEF S
  <2> QED
    BY <1>9, <1>10, AllNumbers
<1> QED
  BY <1>7, <1>8, <1>11 DEF P

-----------------------------------------------------------------------------
\* Fractions and their order.
Fractions == Nat \X (Nat \ {0})

AtMost(a, b) == a[1] * b[2] <= b[1] * a[2]

LEMMA ProductsGrow ==
  ASSUME NEW x \in Nat, NEW y \in Nat, NEW u \in Nat, NEW v \in Nat, x <= y, u <= v
  PROVE  x * u \in Nat /\ y * v \in Nat /\ x * u <= y * v
<1>1. x * u <= y * u
  OBVIOUS
<1>2. y * u <= y * v
  OBVIOUS
<1> QED
  BY <1>1, <1>2

LEMMA FactorCancels ==
  ASSUME NEW x \in Nat, NEW y \in Nat, NEW u \in Nat \ {0} PROVE x * u <= y * u <=> x <= y
<1>1. CASE x <= y
  BY <1>1, ProductsGrow
<1>2. CASE y + 1 <= x
  <2>1. (y + 1) * u <= x * u
    BY <1>2, ProductsGrow
  <2>2. (y + 1) * u = y * u + u
    OBVIOUS
  <2> QED
    BY <1>2, <2>1, <2>2
<1> QED
  BY <1>1, <1>2

LEMMA Swapped == ASSUME NEW x \in Nat, NEW y \in Nat, NEW u \in Nat PROVE (x * y) * u = (x * u) * y
OBVIOUS

LEMMA AtMostTransitive ==
  ASSUME NEW a \in Fractions, NEW b \in Fractions, NEW d \in Fractions, AtMost(a, b), AtMost(b, d)
  PROVE  AtMost(a, d)
<1> DEFINE p == a[1]
           q == a[2]
           r == b[1]
           s == b[2]
           x == d[1]
           y == d[2]
<1>1. p \in Nat /\ q \in Nat \ {0} /\ r \in Nat /\ s \in Nat \ {0} /\ x \in Nat /\ y \in Nat \ {0}
  BY DEF Fractions
<1>2. p * s <= r * q /\ r * y <= x * s
  BY DEF AtMost
<1> HIDE DEF p, q, r, s, x, y
<1>3. p * s \in Nat /\ r * q \in Nat /\ r * y \in Nat /\ x * s \in Nat /\ p * y \in Nat /\ x * q \in Nat
  BY <1>1, ProductsGrow
<1>4. (p * s) * y <= (r * q) * y
  BY <1>1, <1>2, <1>3, ProductsGrow
<1>5. (r * y) * q <= (x * s) * q
  BY <1>1, <1>2, <1>3, ProductsGrow
<1>6. (p * s) * y = (p * y) * s /\ (r * q) * y = (r * y) * q /\ (x * s) * q = (x * q) * s
  BY <1>1, Swapped
<1>7. (p * y) * s <= (x * q) * s
  BY <1>1, <1>3, <1>4, <1>5, <1>6
<1>8. p * y <= x * q
  BY <1>1, <1>3, <1>7, FactorCancels
<1> QED
  BY <1>8 DEF AtMost, p, q, x, y

LEMMA EitherAtMost ==
  ASSUME NEW a \in Fractions, NEW b \in Fractions
  PROVE  (AtMost(a, b) \/ AtMost(b, a)) /\ AtMost(a, a)
<1>1. a[1] \in Nat /\ a[2] \in Nat \ {0} /\ b[1] \in Nat /\ b[2] \in Nat \ {0}
  BY DEF Fractions
<1>2. a[1] * b[2] \in Nat /\ b[1] * a[2] \in Nat /\ a[1] * a[2] \in Nat
  BY <1>1, ProductsGrow
<1> QED
  BY <1>2 DEF AtMost

\* Math.min and Math.max are one of the two, and on its side of both.
LEMMA SmallerIsLeast ==
  ASSUME NEW a \in Fractions, NEW b \in Fractions
  PROVE  /\ Delay!Smaller(a, b) \in {a, b} /\ Delay!Smaller(a, b) \in Fractions
         /\ AtMost(Delay!Smaller(a, b), a) /\ AtMost(Delay!Smaller(a, b), b)
<1>1. a[1] \in Nat /\ a[2] \in Nat \ {0} /\ b[1] \in Nat /\ b[2] \in Nat \ {0}
  BY DEF Fractions
<1>2. a[1] * b[2] \in Nat /\ b[1] * a[2] \in Nat
  BY <1>1, ProductsGrow
<1>3. IF a[1] * b[2] < b[1] * a[2] THEN AtMost(a, b) ELSE AtMost(b, a)
  BY <1>2 DEF AtMost
<1> QED
  BY <1>3, EitherAtMost DEF Delay!Smaller

LEMMA LargerIsGreatest ==
  ASSUME NEW a \in Fractions, NEW b \in Fractions
  PROVE  /\ Delay!Larger(a, b) \in {a, b} /\ Delay!Larger(a, b) \in Fractions
         /\ AtMost(a, Delay!Larger(a, b)) /\ AtMost(b, Delay!Larger(a, b))
<1>1. a[1] \in Nat /\ a[2] \in Nat \ {0} /\ b[1] \in Nat /\ b[2] \in Nat \ {0}
  BY DEF Fractions
<1>2. a[1] * b[2] \in Nat /\ b[1] * a[2] \in Nat
  BY <1>1, ProductsGrow
<1>3. IF a[1] * b[2] < b[1] * a[2] THEN AtMost(a, b) ELSE AtMost(b, a)
  BY <1>2 DEF AtMost
<1> QED
  BY <1>3, EitherAtMost DEF Delay!Larger

LEMMA SmallerGrows ==
  ASSUME NEW a \in Fractions, NEW b \in Fractions, NEW d \in Fractions, AtMost(a, b)
  PROVE  AtMost(Delay!Smaller(a, d), Delay!Smaller(b, d))
<1>1. /\ Delay!Smaller(a, d) \in Fractions
      /\ AtMost(Delay!Smaller(a, d), a) /\ AtMost(Delay!Smaller(a, d), d)
  BY SmallerIsLeast
<1>2. Delay!Smaller(b, d) \in {b, d}
  BY SmallerIsLeast
<1>3. AtMost(Delay!Smaller(a, d), b)
  BY <1>1, AtMostTransitive
<1> QED
  BY <1>1, <1>2, <1>3

LEMMA LargerGrows ==
  ASSUME NEW a \in Fractions, NEW b \in Fractions, NEW d \in Fractions, AtMost(a, b)
  PROVE  AtMost(Delay!Larger(d, a), Delay!Larger(d, b))
<1>1. Delay!Larger(d, a) \in {a, d}
  BY LargerIsGreatest
<1>2. /\ Delay!Larger(d, b) \in Fractions
      /\ AtMost(b, Delay!Larger(d, b)) /\ AtMost(d, Delay!Larger(d, b))
  BY LargerIsGreatest
<1>3. AtMost(a, Delay!Larger(d, b))
  BY <1>2, AtMostTransitive
<1> QED
  BY <1>1, <1>2, <1>3

\* Math.round is at most a half away.
LEMMA RoundIsNear ==
  ASSUME NEW a \in Fractions
  PROVE  LET r == Delay!Round(a)
         IN /\ r \in Nat
            /\ (2 * a[2]) * r <= 2 * a[1] + a[2]
            /\ 2 * a[1] + a[2] < (2 * a[2]) * (r + 1)
<1> DEFINE x == 2 * a[1] + a[2]
           u == 2 * a[2]
<1>1. x \in Nat /\ u \in Nat /\ u > 0
  BY DEF Fractions
<1>2. Delay!Round(a) = x \div u
  BY DEF Delay!Round
<1> HIDE DEF x, u
<1>3. x \div u \in Nat /\ u * (x \div u) <= x /\ x < u * ((x \div u) + 1)
  BY <1>1
<1> QED
  BY <1>2, <1>3 DEF x, u

LEMMA RoundGrows ==
  ASSUME NEW a \in Fractions, NEW b \in Fractions, AtMost(a, b)
  PROVE  Delay!Round(a) <= Delay!Round(b)
<1> DEFINE p == a[1]
           q == a[2]
           r == b[1]
           s == b[2]
           m == Delay!Round(a)
           n == Delay!Round(b)
<1>1. p \in Nat /\ q \in Nat \ {0} /\ r \in Nat /\ s \in Nat \ {0} /\ m \in Nat /\ n \in Nat
  BY RoundIsNear DEF Fractions
<1>2. (2 * q) * m <= 2 * p + q /\ 2 * r + s < (2 * s) * (n + 1)
  BY RoundIsNear
<1>3. p * s <= r * q
  BY DEF AtMost
<1> HIDE DEF p, q, r, s, m, n
<1>4. SUFFICES ASSUME n + 1 <= m PROVE FALSE
  BY <1>1 DEF m, n
<1>5. (2 * s) * (n + 1) <= (2 * s) * m
  BY <1>1, <1>4, ProductsGrow
<1>6. 2 * r + s + 1 <= (2 * s) * m
  BY <1>1, <1>2, <1>5
<1>7. (2 * r + s + 1) * q <= ((2 * s) * m) * q
  BY <1>1, <1>6, ProductsGrow
<1>8. ((2 * q) * m) * s <= (2 * p + q) * s
  BY <1>1, <1>2, ProductsGrow
<1>9. ((2 * s) * m) * q = ((2 * q) * m) * s
  BY <1>1
<1>10. (2 * r + s + 1) * q = 2 * (r * q) + s * q + q /\ (2 * p + q) * s = 2 * (p * s) + q * s
  BY <1>1
<1>11. r * q \in Nat /\ p * s \in Nat /\ s * q \in Nat /\ s * q = q * s
  BY <1>1, ProductsGrow
<1> QED
  BY <1>1, <1>3, <1>7, <1>8, <1>9, <1>10, <1>11

\* Bounds in halves are kept by Math.round, to a half above.
LEMMA RoundWithin ==
  ASSUME NEW a \in Fractions, NEW l \in Nat, NEW h \in Nat,
         AtMost(<<l, 2>>, a), AtMost(a, <<h, 2>>)
  PROVE  l <= 2 * Delay!Round(a) /\ 2 * Delay!Round(a) <= h + 1
<1> DEFINE p == a[1]
           q == a[2]
           r == Delay!Round(a)
<1>1. /\ p \in Nat /\ q \in Nat \ {0} /\ r \in Nat
      /\ (2 * q) * r <= 2 * p + q /\ 2 * p + q < (2 * q) * (r + 1)
  BY RoundIsNear DEF Fractions
<1>2. l * q <= p * 2 /\ p * 2 <= h * q
  BY DEF AtMost
<1> HIDE DEF p, q, r
<1>3. (2 * q) * r = (2 * r) * q /\ (2 * q) * (r + 1) = (2 * r + 2) * q
  BY <1>1
<1>4. (l + 1) * q = l * q + q /\ (h + 1) * q = h * q + q /\ l * q \in Nat /\ h * q \in Nat
  BY <1>1, ProductsGrow
<1>5. 2 * r <= h + 1
  <2>1. (2 * r) * q <= (h + 1) * q
    BY <1>1, <1>2, <1>3, <1>4
  <2> QED
    BY <1>1, <2>1, FactorCancels
<1>6. ~(2 * r + 2 <= l + 1)
  <2>1. SUFFICES ASSUME 2 * r + 2 <= l + 1 PROVE FALSE
    OBVIOUS
  <2>2. (2 * r + 2) * q <= (l + 1) * q
    BY <1>1, <2>1, ProductsGrow
  <2> QED
    BY <1>1, <1>2, <1>3, <1>4, <2>2
<1> QED
  BY <1>1, <1>5, <1>6 DEF r

LEMMA TimesIsFraction ==
  ASSUME NEW a \in Fractions, NEW n \in Nat, NEW d \in Nat \ {0}
  PROVE  /\ Delay!Times(a, n, d) \in Fractions
         /\ Delay!Times(a, n, d)[1] = a[1] * n /\ Delay!Times(a, n, d)[2] = a[2] * d
<1>1. a[1] \in Nat /\ a[2] \in Nat \ {0}
  BY DEF Fractions
<1>2. a[1] * n \in Nat /\ a[2] * d \in Nat
  BY <1>1, ProductsGrow
<1>3. a[2] * d # 0
  BY <1>1
<1> QED
  BY <1>2, <1>3 DEF Fractions, Delay!Times

LEMMA TimesGrows ==
  ASSUME NEW a \in Fractions, NEW b \in Fractions, NEW n \in Nat, NEW d \in Nat \ {0}, AtMost(a, b)
  PROVE  AtMost(Delay!Times(a, n, d), Delay!Times(b, n, d))
<1> DEFINE p == a[1]
           q == a[2]
           r == b[1]
           s == b[2]
<1>1. p \in Nat /\ q \in Nat \ {0} /\ r \in Nat /\ s \in Nat \ {0}
  BY DEF Fractions
<1>2. p * s <= r * q
  BY DEF AtMost
<1>3. /\ Delay!Times(a, n, d)[1] = p * n /\ Delay!Times(a, n, d)[2] = q * d
      /\ Delay!Times(b, n, d)[1] = r * n /\ Delay!Times(b, n, d)[2] = s * d
  BY TimesIsFraction
<1> HIDE DEF p, q, r, s
<1>4. p * s \in Nat /\ r * q \in Nat /\ n * d \in Nat
  BY <1>1, ProductsGrow
<1>5. (p * s) * (n * d) <= (r * q) * (n * d)
  BY <1>2, <1>4, ProductsGrow
<1>6. (p * n) * (s * d) = (p * s) * (n * d) /\ (r * n) * (q * d) = (r * q) * (n * d)
  BY <1>1
<1>7. (p * n) * (s * d) <= (r * n) * (q * d)
  BY <1>5, <1>6
<1> QED
  BY <1>3, <1>7 DEF AtMost

-----------------------------------------------------------------------------
LEMMA KnobsAreNumbers ==
  ASSUME NEW c \in Delay!Configs
  PROVE  /\ c.base \in Nat \ {0} /\ c.max \in Nat \ {0} /\ c.base <= c.max
         /\ c.growth \in Nat /\ c.growth >= 10 /\ c.noise \in 0..10
BY KnobsAssumption DEF Delay!TimeoutsAssumption, Delay!FactorsAssumption, Delay!Configs

\* The powers of a larger number are larger, and those of ten grow.
LEMMA PowersGrow ==
  ASSUME NEW x \in Nat, NEW y \in Nat, x <= y
  PROVE  \A n \in Nat : Delay!Power(x)[n] <= Delay!Power(y)[n]
<1> DEFINE S == {n \in Nat : Delay!Power(x)[n] <= Delay!Power(y)[n]}
<1>1. 0 \in S
  BY PowerDef
<1>2. ASSUME NEW n \in Nat, n \in S PROVE n + 1 \in S
  <2>1. /\ Delay!Power(x)[n] \in Nat /\ Delay!Power(y)[n] \in Nat
        /\ Delay!Power(x)[n + 1] = x * Delay!Power(x)[n]
        /\ Delay!Power(y)[n + 1] = y * Delay!Power(y)[n]
    BY PowerDef
  <2>2. Delay!Power(x)[n] <= Delay!Power(y)[n]
    BY <1>2
  <2>3. x * Delay!Power(x)[n] <= y * Delay!Power(y)[n]
    BY <2>1, <2>2, ProductsGrow
  <2> QED
    BY <2>1, <2>3
<1> HIDE DEF S
<1>3. Nat \subseteq S
  BY <1>1, <1>2, AllNumbers
<1> QED
  BY <1>3 DEF S

LEMMA PowersArePositive ==
  ASSUME NEW x \in Nat, x >= 1 PROVE \A n \in Nat : Delay!Power(x)[n] >= 1
<1> DEFINE S == {n \in Nat : Delay!Power(x)[n] >= 1}
<1>1. 0 \in S
  BY PowerDef
<1>2. ASSUME NEW n \in Nat, n \in S PROVE n + 1 \in S
  <2>1. Delay!Power(x)[n] \in Nat /\ Delay!Power(x)[n + 1] = x * Delay!Power(x)[n]
    BY PowerDef
  <2>2. 1 * 1 <= x * Delay!Power(x)[n]
    BY <1>2, <2>1, ProductsGrow
  <2> QED
    BY <2>1, <2>2
<1> HIDE DEF S
<1>3. Nat \subseteq S
  BY <1>1, <1>2, AllNumbers
<1> QED
  BY <1>3 DEF S

\* The capped delay lies between the base and the maximum, and grows with the count.
LEMMA CappedWithin ==
  ASSUME NEW c \in Delay!Configs, NEW n \in Nat \ {0}
  PROVE  /\ Delay!Capped(c, n) \in Fractions
         /\ AtMost(<<c.base, 1>>, Delay!Capped(c, n)) /\ AtMost(Delay!Capped(c, n), <<c.max, 1>>)
         /\ AtMost(Delay!Capped(c, n), Delay!Capped(c, n + 1))
<1> DEFINE k == n - 1
           g == Delay!Power(c.growth)[k]
           t == Delay!Power(10)[k]
           base == <<c.base, 1>>
           max == <<c.max, 1>>
           grown == Delay!Times(base, g, t)
           next == Delay!Times(base, c.growth * g, 10 * t)
<1>1. /\ c.base \in Nat \ {0} /\ c.max \in Nat \ {0} /\ c.base <= c.max
      /\ c.growth \in Nat /\ c.growth >= 10
  BY KnobsAreNumbers
<1>2. k \in Nat /\ (n + 1) - 1 = k + 1
  OBVIOUS
<1>3. g \in Nat /\ t \in Nat /\ t >= 1 /\ t <= g
  BY <1>1, <1>2, PowerDef, PowersGrow, PowersArePositive
<1>4. /\ Delay!Power(c.growth)[k + 1] = c.growth * g /\ Delay!Power(10)[k + 1] = 10 * t
  BY <1>1, <1>2, PowerDef
<1>5. base \in Fractions /\ max \in Fractions
  BY <1>1 DEF Fractions
<1>6. Delay!Capped(c, n) = Delay!Smaller(grown, max) /\ Delay!Capped(c, n + 1) = Delay!Smaller(next, max)
  BY <1>2, <1>4 DEF Delay!Capped, Delay!Whole
<1> HIDE DEF k, g, t
<1>7. c.growth * g \in Nat /\ 10 * t \in Nat \ {0} /\ t \in Nat \ {0}
  BY <1>1, <1>3, ProductsGrow
<1>8. grown \in Fractions /\ grown[1] = c.base * g /\ grown[2] = 1 * t
  <2>1. base[1] = c.base /\ base[2] = 1
    OBVIOUS
  <2>2. base \in Fractions /\ g \in Nat /\ t \in Nat \ {0} /\ grown = Delay!Times(base, g, t)
    BY <1>3, <1>5, <1>7
  <2> HIDE DEF base, grown
  <2>3. grown \in Fractions /\ grown[1] = base[1] * g /\ grown[2] = base[2] * t
    BY <2>2, TimesIsFraction
  <2> QED
    BY <2>1, <2>3
<1>9. next \in Fractions /\ next[1] = c.base * (c.growth * g) /\ next[2] = 1 * (10 * t)
  <2> DEFINE n2 == c.growth * g
             d2 == 10 * t
  <2>1. base[1] = c.base /\ base[2] = 1
    OBVIOUS
  <2>2. base \in Fractions /\ n2 \in Nat /\ d2 \in Nat \ {0} /\ next = Delay!Times(base, n2, d2)
    BY <1>5, <1>7
  <2> HIDE DEF base, next, n2, d2
  <2>3. next \in Fractions /\ next[1] = base[1] * n2 /\ next[2] = base[2] * d2
    BY <2>2, TimesIsFraction
  <2> QED
    BY <2>1, <2>3 DEF n2, d2
<1>10. AtMost(base, grown)
  <2>1. c.base * t <= c.base * g
    BY <1>1, <1>3, ProductsGrow
  <2>2. c.base * (1 * t) <= (c.base * g) * 1
    BY <1>1, <1>3, <2>1
  <2> QED
    BY <1>8, <2>2 DEF AtMost
<1>11. AtMost(grown, next)
  <2>1. (c.base * g) * 10 <= (c.base * g) * c.growth /\ c.base * g \in Nat
    BY <1>1, <1>3, ProductsGrow
  <2>2. ((c.base * g) * 10) * t <= ((c.base * g) * c.growth) * t
    BY <1>1, <1>3, <2>1, ProductsGrow
  <2>3. /\ (c.base * g) * (1 * (10 * t)) = ((c.base * g) * 10) * t
        /\ (c.base * (c.growth * g)) * (1 * t) = ((c.base * g) * c.growth) * t
    BY <1>1, <1>3
  <2>4. (c.base * g) * (1 * (10 * t)) <= (c.base * (c.growth * g)) * (1 * t)
    BY <2>2, <2>3
  <2> QED
    BY <1>8, <1>9, <2>4 DEF AtMost
<1>12. AtMost(base, max)
  BY <1>1 DEF AtMost
<1> HIDE DEF base, max, grown, next
<1>13. AtMost(base, Delay!Smaller(grown, max))
  BY <1>5, <1>8, <1>10, <1>12, SmallerIsLeast
<1>14. Delay!Smaller(grown, max) \in Fractions /\ AtMost(Delay!Smaller(grown, max), max)
  BY <1>5, <1>8, SmallerIsLeast
<1>15. AtMost(Delay!Smaller(grown, max), Delay!Smaller(next, max))
  BY <1>5, <1>8, <1>9, <1>11, SmallerGrows
<1> QED
  BY <1>6, <1>13, <1>14, <1>15 DEF base, max

\* The delay before it is rounded, with the jitter.
Noisy(c, n, r) == Delay!Times(Delay!Capped(c, n), 100 + (2 * r - 10) * c.noise, 100)

Unrounded(c, n, r) ==
  IF c.noise = 0 THEN Delay!Capped(c, n)
  ELSE Delay!Larger(<<c.base, 2>>, Delay!Smaller(Noisy(c, n, r), <<3 * c.max, 2>>))

LEMMA BufferTimeoutIsRounded ==
  ASSUME NEW c, NEW n, NEW r
  PROVE  Delay!CalculateBufferTimeout(c, n, r) = Delay!Round(Unrounded(c, n, r))
BY DEF Delay!CalculateBufferTimeout, Unrounded, Noisy

LEMMA NoisyGrows ==
  ASSUME NEW c \in Delay!Configs, NEW n \in Nat \ {0}, NEW r \in 0..9
  PROVE  /\ Noisy(c, n, r) \in Fractions /\ Noisy(c, n + 1, r) \in Fractions
         /\ AtMost(Noisy(c, n, r), Noisy(c, n + 1, r))
<1> DEFINE f == 100 + (2 * r - 10) * c.noise
<1>1. c.noise \in 0..10
  BY KnobsAreNumbers
<1>2. f \in Nat
  <2>1. (10 - 2 * r) * c.noise <= 100
    <3>1. CASE r <= 5
      BY <1>1, <3>1, ProductsGrow
    <3>2. CASE r > 5
      <4>1. (10 - 2 * r) * c.noise = -((2 * r - 10) * c.noise) /\ 2 * r - 10 \in Nat
        BY <1>1, <3>2
      <4>2. (2 * r - 10) * c.noise \in Nat
        BY <1>1, <4>1, ProductsGrow
      <4> QED
        BY <4>1, <4>2
    <3> QED
      BY <3>1, <3>2
  <2>2. (10 - 2 * r) * c.noise = -((2 * r - 10) * c.noise) /\ (2 * r - 10) * c.noise \in Int
    BY <1>1
  <2> QED
    BY <2>1, <2>2
<1> HIDE DEF f
<1>3. /\ Delay!Capped(c, n) \in Fractions /\ Delay!Capped(c, n + 1) \in Fractions
      /\ AtMost(Delay!Capped(c, n), Delay!Capped(c, n + 1))
  <2>1. n + 1 \in Nat \ {0}
    OBVIOUS
  <2> QED
    BY <2>1, CappedWithin
<1>4. /\ Delay!Times(Delay!Capped(c, n), f, 100) \in Fractions
      /\ Delay!Times(Delay!Capped(c, n + 1), f, 100) \in Fractions
      /\ AtMost(Delay!Times(Delay!Capped(c, n), f, 100), Delay!Times(Delay!Capped(c, n + 1), f, 100))
  <2> DEFINE low == Delay!Capped(c, n)
             high == Delay!Capped(c, n + 1)
             percent == 100
  <2>1. percent \in Nat \ {0}
    OBVIOUS
  <2>2. low \in Fractions /\ high \in Fractions /\ AtMost(low, high)
    BY <1>3
  <2> HIDE DEF low, high, percent
  <2>3. Delay!Times(low, f, percent) \in Fractions /\ Delay!Times(high, f, percent) \in Fractions
    BY <1>2, <2>1, <2>2, TimesIsFraction
  <2>4. AtMost(Delay!Times(low, f, percent), Delay!Times(high, f, percent))
    BY <1>2, <2>1, <2>2, TimesGrows
  <2> QED
    BY <2>3, <2>4 DEF low, high, percent
<1> QED
  BY <1>4 DEF Noisy, f

\* Between half the base and the maximum and a half, and a longer burst never waits
\* less.
LEMMA UnroundedWithin ==
  ASSUME NEW c \in Delay!Configs, NEW n \in Nat \ {0}, NEW r \in 0..9
  PROVE  /\ Unrounded(c, n, r) \in Fractions /\ Unrounded(c, n + 1, r) \in Fractions
         /\ AtMost(<<c.base, 2>>, Unrounded(c, n, r)) /\ AtMost(Unrounded(c, n, r), <<3 * c.max, 2>>)
         /\ AtMost(Unrounded(c, n, r), Unrounded(c, n + 1, r))
<1> DEFINE low == <<c.base, 2>>
           high == <<3 * c.max, 2>>
<1>1. c.base \in Nat \ {0} /\ c.max \in Nat \ {0} /\ c.base <= c.max
  BY KnobsAreNumbers
<1>2. low \in Fractions /\ high \in Fractions /\ AtMost(low, high)
  BY <1>1 DEF Fractions, AtMost
<1>3. /\ Delay!Capped(c, n) \in Fractions /\ Delay!Capped(c, n + 1) \in Fractions
      /\ AtMost(<<c.base, 1>>, Delay!Capped(c, n)) /\ AtMost(Delay!Capped(c, n), <<c.max, 1>>)
      /\ AtMost(Delay!Capped(c, n), Delay!Capped(c, n + 1))
  BY CappedWithin
<1>4. CASE c.noise = 0
  <2>1. Unrounded(c, n, r) = Delay!Capped(c, n) /\ Unrounded(c, n + 1, r) = Delay!Capped(c, n + 1)
    BY <1>4 DEF Unrounded
  <2>2. /\ <<c.base, 1>> \in Fractions /\ <<c.max, 1>> \in Fractions
        /\ AtMost(low, <<c.base, 1>>) /\ AtMost(<<c.max, 1>>, high)
    BY <1>1 DEF Fractions, AtMost
  <2>3. AtMost(low, Delay!Capped(c, n)) /\ AtMost(Delay!Capped(c, n), high)
    <3> HIDE DEF low, high
    <3> QED
      BY <1>2, <1>3, <2>2, AtMostTransitive
  <2> QED
    BY <1>3, <2>1, <2>3
<1>5. CASE c.noise # 0
  <2> DEFINE x == Delay!Smaller(Noisy(c, n, r), high)
             y == Delay!Smaller(Noisy(c, n + 1, r), high)
  <2>1. Unrounded(c, n, r) = Delay!Larger(low, x) /\ Unrounded(c, n + 1, r) = Delay!Larger(low, y)
    BY <1>5 DEF Unrounded
  <2> HIDE DEF low, high
  <2>2. x \in Fractions /\ y \in Fractions /\ AtMost(x, high) /\ AtMost(x, y)
    BY <1>2, NoisyGrows, SmallerIsLeast, SmallerGrows
  <2> HIDE DEF x, y
  <2>3. /\ Delay!Larger(low, x) \in Fractions /\ Delay!Larger(low, y) \in Fractions
        /\ AtMost(low, Delay!Larger(low, x)) /\ Delay!Larger(low, x) \in {low, x}
    BY <1>2, <2>2, LargerIsGreatest
  <2>4. AtMost(Delay!Larger(low, x), high)
    BY <1>2, <2>2, <2>3
  <2>5. AtMost(Delay!Larger(low, x), Delay!Larger(low, y))
    BY <1>2, <2>2, LargerGrows
  <2> QED
    BY <2>1, <2>3, <2>4, <2>5 DEF low, high
<1> QED
  BY <1>4, <1>5

\* calculateBufferTimeout.
LEMMA BufferTimeoutWithin ==
  ASSUME NEW c \in Delay!Configs, NEW n \in Nat \ {0}, NEW r \in 0..9
  PROVE  LET d == Delay!CalculateBufferTimeout(c, n, r)
         IN /\ d \in Nat /\ c.base <= 2 * d /\ 2 * d <= 3 * c.max + 1 /\ d > 0
            /\ d <= Delay!CalculateBufferTimeout(c, n + 1, r)
<1> DEFINE a == Unrounded(c, n, r)
           b == Unrounded(c, n + 1, r)
<1>1. c.base \in Nat \ {0} /\ c.max \in Nat \ {0}
  BY KnobsAreNumbers
<1>2. /\ a \in Fractions /\ b \in Fractions /\ AtMost(a, b)
      /\ AtMost(<<c.base, 2>>, a) /\ AtMost(a, <<3 * c.max, 2>>)
  BY UnroundedWithin
<1>3. /\ Delay!CalculateBufferTimeout(c, n, r) = Delay!Round(a)
      /\ Delay!CalculateBufferTimeout(c, n + 1, r) = Delay!Round(b)
  BY BufferTimeoutIsRounded
<1> HIDE DEF a, b
<1>4. Delay!Round(a) \in Nat /\ Delay!Round(a) <= Delay!Round(b)
  BY <1>2, RoundIsNear, RoundGrows
<1>5. c.base <= 2 * Delay!Round(a) /\ 2 * Delay!Round(a) <= 3 * c.max + 1
  <2>1. 3 * c.max \in Nat
    BY <1>1
  <2> QED
    BY <1>1, <1>2, <2>1, RoundWithin
<1>6. Delay!Round(a) > 0
  BY <1>1, <1>4, <1>5
<1> QED
  BY <1>3, <1>4, <1>5, <1>6

\* The doubled delay of a retry, capped.
LEMMA DoubledWithin ==
  ASSUME NEW c \in Delay!Configs, NEW k \in Nat
  PROVE  LET raw == Delay!Smaller(Delay!Whole(c.base * Delay!Power(2)[k]), Delay!Whole(c.max))
         IN raw \in Fractions /\ raw[2] = 1 /\ raw[1] \in Nat /\ raw[1] >= 1 /\ raw[1] <= c.max
<1> DEFINE e == c.base * Delay!Power(2)[k]
           x == <<e, 1>>
           y == <<c.max, 1>>
           raw == Delay!Smaller(x, y)
<1>1. c.base \in Nat \ {0} /\ c.max \in Nat \ {0}
  BY KnobsAreNumbers
<1>2. Delay!Power(2)[k] \in Nat /\ Delay!Power(2)[k] >= 1
  BY PowerDef, PowersArePositive
<1>3. e \in Nat /\ e >= 1
  <2>1. 1 * 1 <= c.base * Delay!Power(2)[k] /\ c.base * Delay!Power(2)[k] \in Nat
    BY <1>1, <1>2, ProductsGrow
  <2> QED
    BY <2>1
<1> HIDE DEF e
<1>4. x \in Fractions /\ y \in Fractions
  BY <1>1, <1>3 DEF Fractions
<1>5. raw \in {x, y} /\ raw \in Fractions /\ AtMost(raw, y)
  BY <1>4, SmallerIsLeast
<1> HIDE DEF raw
<1>6. raw[2] = 1 /\ raw[1] \in Nat /\ raw[1] >= 1
  BY <1>1, <1>3, <1>5
<1>7. raw[1] <= c.max
  BY <1>1, <1>5, <1>6 DEF AtMost
<1> QED
  BY <1>5, <1>6, <1>7 DEF raw, e, Delay!Whole

\* transientRetryDelayMs.
LEMMA RetryDelayWithin ==
  ASSUME NEW c \in Delay!Configs, NEW n \in Nat \ {0}, NEW r \in 0..9
  PROVE  Delay!RetryDelay(c, n, r) \in Nat \ {0} /\ Delay!RetryDelay(c, n, r) <= c.max
<1> DEFINE raw == Delay!Smaller(Delay!Whole(c.base * Delay!Power(2)[n - 1]), Delay!Whole(c.max))
           a == Delay!Times(raw, 80 + 4 * r, 100)
           d == Delay!Round(a)
<1>1. c.max \in Nat \ {0}
  BY KnobsAreNumbers
<1>2. raw \in Fractions /\ raw[2] = 1 /\ raw[1] \in Nat /\ raw[1] >= 1
  BY DoubledWithin
<1>3. Delay!RetryDelay(c, n, r) = IF d < c.max THEN d ELSE c.max
  BY DEF Delay!RetryDelay
<1> HIDE DEF raw
<1>4. 80 + 4 * r \in Nat /\ 80 <= 80 + 4 * r
  OBVIOUS
<1>5. a \in Fractions /\ a[1] = raw[1] * (80 + 4 * r) /\ a[2] = 100
  <2>1. 100 \in Nat \ {0}
    OBVIOUS
  <2> DEFINE f == 80 + 4 * r
  <2>2. f \in Nat
    BY <1>4
  <2> HIDE DEF f
  <2>3. ASSUME NEW k \in Nat \ {0}
        PROVE  /\ Delay!Times(raw, f, k) \in Fractions /\ Delay!Times(raw, f, k)[1] = raw[1] * f
               /\ Delay!Times(raw, f, k)[2] = raw[2] * k
    BY <1>2, <2>2, TimesIsFraction
  <2>4. raw[2] * 100 = 100
    BY <1>2
  <2>5. /\ Delay!Times(raw, f, 100) \in Fractions /\ Delay!Times(raw, f, 100)[1] = raw[1] * f
        /\ Delay!Times(raw, f, 100)[2] = raw[2] * 100
    BY <2>1, <2>3
  <2> QED
    BY <2>4, <2>5 DEF f
<1>6. 1 * 80 <= a[1]
  BY <1>2, <1>4, <1>5, ProductsGrow
<1> HIDE DEF a
<1>7. d \in Nat /\ 2 * a[1] + 100 < 200 * (d + 1) /\ a[1] \in Nat
  BY <1>5, RoundIsNear DEF Fractions
<1>8. d # 0
  BY <1>6, <1>7
<1> QED
  BY <1>1, <1>3, <1>7, <1>8

\* computeDelay.
LEMMA BackoffDelayWithin ==
  ASSUME NEW c \in Delay!Configs, NEW k \in Nat, NEW r \in 0..9
  PROVE  Delay!BackoffDelay(c, k, r) \in Nat /\ Delay!BackoffDelay(c, k, r) <= c.max
<1> DEFINE raw == Delay!Smaller(Delay!Whole(c.base * Delay!Power(2)[k]), Delay!Whole(c.max))
           y == <<c.max, 1>>
           x == <<10 * raw[1] + r * c.base, 10>>
           a == Delay!Smaller(y, x)
<1>1. c.base \in Nat \ {0} /\ c.max \in Nat \ {0}
  BY KnobsAreNumbers
<1>2. raw[1] \in Nat
  BY DoubledWithin
<1>3. Delay!BackoffDelay(c, k, r) = Delay!Round(a)
  BY DEF Delay!BackoffDelay, Delay!Whole
<1> HIDE DEF raw
<1>4. r * c.base \in Nat
  BY <1>1, ProductsGrow
<1>5. x \in Fractions /\ y \in Fractions
  <2>1. 10 * raw[1] + r * c.base \in Nat
    BY <1>2, <1>4
  <2>2. \A i \in Nat : <<i, 10>> \in Fractions /\ <<i, 1>> \in Fractions
    BY DEF Fractions
  <2> QED
    BY <1>1, <2>1, <2>2
<1> DEFINE h == 2 * c.max
<1>6. h \in Nat /\ <<h, 2>> \in Fractions /\ AtMost(y, <<h, 2>>)
  BY <1>1 DEF Fractions, AtMost
<1>7. <<0, 2>> \in Fractions
  BY DEF Fractions
<1> HIDE DEF x, y, h
<1>8. a \in Fractions /\ AtMost(a, y)
  BY <1>5, SmallerIsLeast
<1> HIDE DEF a
<1>9. AtMost(a, <<h, 2>>)
  BY <1>5, <1>6, <1>8, AtMostTransitive
<1>10. AtMost(<<0, 2>>, a)
  BY <1>8 DEF AtMost, Fractions
<1>11. 2 * Delay!Round(a) <= h + 1 /\ Delay!Round(a) \in Nat
  BY <1>6, <1>8, <1>9, <1>10, RoundWithin, RoundIsNear
<1> QED
  BY <1>1, <1>3, <1>11 DEF h

-----------------------------------------------------------------------------
\* A delay is computed from the knobs and the draw.
DelayInv ==
  /\ config \in Delay!Configs /\ count \in Counts /\ random \in Tenths
  /\ delay \in [Delay!Computations -> Int]
  /\ \A c \in Delay!Computations : delay[c] \in {Delay!None, Delay!Result(c)}

LEMMA ResultWithin ==
  ASSUME config \in Delay!Configs, count \in Counts, random \in Tenths
  PROVE  /\ LET d == Delay!Result("buffer")
            IN /\ d \in Nat \ {0} /\ config.base <= 2 * d /\ 2 * d <= 3 * config.max + 1
               /\ d <= Delay!CalculateBufferTimeout(config, count + 1, random)
         /\ Delay!Result("retry") \in Nat \ {0} /\ Delay!Result("retry") <= config.max
         /\ Delay!Result("backoff") \in Nat /\ Delay!Result("backoff") <= config.max
<1>1. count \in Nat \ {0} /\ random \in 0..9 /\ count - 1 \in Nat
  BY KnobsAssumption DEF Delay!InputsAssumption
<1>2. /\ Delay!Result("buffer") = Delay!CalculateBufferTimeout(config, count, random)
      /\ Delay!Result("retry") = Delay!RetryDelay(config, count, random)
      /\ Delay!Result("backoff") = Delay!BackoffDelay(config, count - 1, random)
  BY DEF Delay!Result
<1>3. LET d == Delay!CalculateBufferTimeout(config, count, random)
      IN /\ d \in Nat \ {0} /\ config.base <= 2 * d /\ 2 * d <= 3 * config.max + 1
         /\ d <= Delay!CalculateBufferTimeout(config, count + 1, random)
  BY <1>1, BufferTimeoutWithin
<1>4. Delay!RetryDelay(config, count, random) \in Nat \ {0} /\ Delay!RetryDelay(config, count, random) <= config.max
  BY <1>1, RetryDelayWithin
<1>5. Delay!BackoffDelay(config, count - 1, random) \in Nat /\ Delay!BackoffDelay(config, count - 1, random) <= config.max
  BY <1>1, BackoffDelayWithin
<1> QED
  BY <1>2, <1>3, <1>4, <1>5

LEMMA DelayInvInit == Delay!Init => DelayInv
BY DEF Delay!Init, DelayInv, Delay!None

LEMMA DelayInvStep == DelayInv /\ [Delay!Next]_delayVars => DelayInv'
<1> SUFFICES ASSUME DelayInv, [Delay!Next]_delayVars PROVE DelayInv'
  OBVIOUS
<1>1. UNCHANGED <<config, count, random>>
  BY DEF delayVars, Delay!Next, Delay!Compute
<1>2. \A c : Delay!Result(c)' = Delay!Result(c)
  BY <1>1 DEF Delay!Result
<1>3. CASE UNCHANGED delayVars
  BY <1>1, <1>2, <1>3 DEF DelayInv, delayVars
<1>4. ASSUME NEW c \in Delay!Computations, Delay!Compute(c) PROVE DelayInv'
  <2>1. delay' = [delay EXCEPT ![c] = Delay!Result(c)]
    BY <1>4 DEF Delay!Compute
  <2>2. Delay!Result(c) \in Int
    BY <1>4, ResultWithin DEF DelayInv, Delay!Computations
  <2>3. delay' \in [Delay!Computations -> Int]
    BY <2>1, <2>2 DEF DelayInv
  <2>4. \A x \in Delay!Computations : delay'[x] \in {Delay!None, Delay!Result(x)}
    BY <2>1 DEF DelayInv
  <2> QED
    BY <1>1, <1>2, <2>3, <2>4 DEF DelayInv
<1> QED
  BY <1>3, <1>4 DEF Delay!Next

\* The three delays stay within what their knobs say, for every draw; the two that are
\* waited for under a lock or a timer are positive, and a longer burst never waits less
\* (calculateBufferTimeout, transientRetryDelayMs, computeDelay).
THEOREM DelaysBounded == PartsSpec => []DelaysAreBounded
<1> DEFINE Inv == part = "delays" => DelayInv
<1>1. PartsInit => Inv
  BY DelayInvInit DEF PartsInit
<1>2. Inv /\ [PartsNext]_<<part, vars, windowVars, delayVars, requestVars>> => Inv'
  <2> SUFFICES ASSUME Inv, [PartsNext]_<<part, vars, windowVars, delayVars, requestVars>>, part' = "delays"
               PROVE  DelayInv'
    OBVIOUS
  <2>1. part = "delays" /\ [Delay!Next]_delayVars
    BY DEF PartsNext, PaceOnRedis, PaceInMemory, CountOnRedis, CountInMemory, ComputeDelays, SendRequests
  <2> QED
    BY <2>1, DelayInvStep
<1>3. Inv => DelaysAreBounded
  <2> SUFFICES ASSUME DelayInv PROVE Delay!DelaysAreBounded
    BY DEF DelaysAreBounded
  <2>1. /\ delay["buffer"] \in {-1, Delay!Result("buffer")}
        /\ delay["retry"] \in {-1, Delay!Result("retry")}
        /\ delay["backoff"] \in {-1, Delay!Result("backoff")}
        /\ config.max \in Nat
    BY KnobsAreNumbers DEF DelayInv, Delay!Computations, Delay!None
  <2>2. /\ LET d == Delay!Result("buffer")
           IN /\ d \in Nat \ {0} /\ config.base <= 2 * d /\ 2 * d <= 3 * config.max + 1
              /\ d <= Delay!CalculateBufferTimeout(config, count + 1, random)
        /\ Delay!Result("retry") \in Nat \ {0} /\ Delay!Result("retry") <= config.max
        /\ Delay!Result("backoff") \in Nat /\ Delay!Result("backoff") <= config.max
    BY ResultWithin DEF DelayInv
  <2> QED
    BY <2>1, <2>2 DEF Delay!DelaysAreBounded, Delay!None
<1> QED
  BY <1>1, <1>2, <1>3, PTL DEF PartsSpec

-----------------------------------------------------------------------------
(***************************************************************************)
(* The pacer on Redis keeps the slots of a line apart, as long as the key  *)
(* of the last slot outlives the burst and the latency of a reservation.   *)
(*                                                                         *)
(* The slots ahead of the clock are a chain, an interval from one to the   *)
(* next, of sends that still sleep.  There are at most MaxAhead of them,   *)
(* so the last slot is no further ahead than that many intervals, and has  *)
(* passed by an interval at the clock that any reservation read which      *)
(* finds the key forgotten.                                                *)
(***************************************************************************)

Outlives == Ttl >= Interval * (MaxAhead + 1) + MaxLatency

AheadOfClock == {s \in Sends : stage[s] = "sleeping" /\ slot[s] > now}

Later(s) == {t \in AheadOfClock : slot[t] > slot[s]}

FewUnderWay == IsFiniteSet(UnderWay) /\ Cardinality(UnderWay) <= MaxAhead

AsksAreRecent ==
  \A s \in Sends : stage[s] = "asking" => asked[s] <= now /\ now <= asked[s] + MaxLatency

SentAreDue == \A s \in Sends : stage[s] = "sent" => slot[s] <= now

LastIsNear == \A s \in AheadOfClock : lastSlot <= slot[s] + Interval * Cardinality(Later(s))

OneIsNext == lastSlot > now => \E s \in AheadOfClock : slot[s] <= now + Interval

Chained ==
  \A s \in AheadOfClock :
    slot[s] = lastSlot \/ \E t \in AheadOfClock : slot[t] = slot[s] + Interval

LastExpires == (\E s \in Sends : Paced(s)) => lastSlot + Ttl <= expiry + Interval * MaxAhead

SharedInv ==
  /\ TypeOK
  /\ SlotsAreApart
  /\ NoneAheadOfLast
  /\ FewUnderWay
  /\ AsksAreRecent
  /\ SentAreDue
  /\ LastIsNear
  /\ OneIsNext
  /\ Chained
  /\ LastExpires

\* One interval more.
LEMMA OneMore ==
  ASSUME NEW n \in Nat
  PROVE  /\ Interval * n \in Nat
         /\ Interval * (n + 1) = Interval * n + Interval
BY IntervalAssumption

\* More intervals are not shorter.
LEMMA LongerSpans ==
  ASSUME NEW m \in Nat, NEW n \in Nat, m <= n
  PROVE  Interval * m <= Interval * n
<1>1. n - m \in Nat /\ n = m + (n - m)
  OBVIOUS
<1>2. Interval * (n - m) \in Nat
  BY <1>1, IntervalAssumption
<1>3. Interval * (m + (n - m)) = Interval * m + Interval * (n - m)
  BY <1>1, IntervalAssumption
<1> QED
  BY <1>1, <1>2, <1>3, IntervalAssumption

\* What the sends of a line are known to be, in one place.
LEMMA SharedTypes ==
  ASSUME TypeOK
  PROVE  /\ Interval \in Nat \ {0} /\ MaxAhead \in Nat /\ MaxLatency \in Nat /\ Ttl \in Nat
         /\ now \in Nat /\ lastSlot \in Nat /\ expiry \in Nat
         /\ \A s \in Sends : asked[s] \in Nat /\ slot[s] \in Nat
BY IntervalAssumption, StoreAssumption, ClockAssumption, AheadAssumption DEF TypeOK

\* The sends ahead of the clock are few, and fewer are later than one of them.
LEMMA LaterAreFewer ==
  ASSUME TypeOK, FewUnderWay, NEW s \in AheadOfClock
  PROVE  /\ IsFiniteSet(Later(s))
         /\ Cardinality(Later(s)) \in Nat
         /\ Cardinality(Later(s)) + 1 <= MaxAhead
<1>1. /\ s \in UnderWay
      /\ Later(s) \subseteq UnderWay \ {s}
  BY SharedTypes DEF Later, AheadOfClock, UnderWay
<1>2. /\ IsFiniteSet(UnderWay \ {s})
      /\ Cardinality(UnderWay \ {s}) = Cardinality(UnderWay) - 1
  BY <1>1, FS_RemoveElement DEF FewUnderWay
<1>3. /\ IsFiniteSet(Later(s))
      /\ Cardinality(Later(s)) <= Cardinality(UnderWay \ {s})
  BY <1>1, <1>2, FS_Subset
<1>4. Cardinality(UnderWay) \in Nat /\ Cardinality(Later(s)) \in Nat
  BY <1>3, FS_CardinalityType DEF FewUnderWay
<1> QED
  BY <1>2, <1>3, <1>4, AheadAssumption DEF FewUnderWay

\* The last slot is at most MaxAhead intervals ahead of the clock.
LEMMA LastIsWithinReach ==
  TypeOK /\ FewUnderWay /\ LastIsNear /\ OneIsNext => lastSlot <= now + Interval * MaxAhead
<1> SUFFICES ASSUME TypeOK, FewUnderWay, LastIsNear, OneIsNext
             PROVE  lastSlot <= now + Interval * MaxAhead
  OBVIOUS
<1>1. Interval * MaxAhead \in Nat
  BY OneMore, AheadAssumption
<1>2. CASE lastSlot <= now
  BY <1>1, <1>2, SharedTypes
<1>3. CASE lastSlot > now
  <2>1. PICK s \in AheadOfClock : slot[s] <= now + Interval
    BY <1>3 DEF OneIsNext
  <2> DEFINE n == Cardinality(Later(s))
  <2>2. n \in Nat /\ n + 1 <= MaxAhead
    BY LaterAreFewer
  <2>3. lastSlot <= slot[s] + Interval * n
    BY DEF LastIsNear
  <2>4. Interval * (n + 1) <= Interval * MaxAhead
    BY <2>2, LongerSpans, AheadAssumption
  <2>5. Interval * n \in Nat /\ Interval * (n + 1) = Interval * n + Interval
    BY <2>2, OneMore
  <2>6. slot[s] \in Nat
    BY SharedTypes DEF AheadOfClock
  <2> HIDE DEF n
  <2> QED
    BY <1>1, <2>1, <2>3, <2>4, <2>5, <2>6, SharedTypes
<1> QED
  BY <1>2, <1>3, SharedTypes

\* As it is in every state, it is so after a step.
LEMMA LastIsWithinReachNext ==
  (TypeOK /\ FewUnderWay /\ LastIsNear /\ OneIsNext)' => (lastSlot <= now + Interval * MaxAhead)'
BY LastIsWithinReach, PTL

\* A send that does not sleep yet is not paced, and reserves the next slot of
\* a key that is known, or the clock that it read when the key is forgotten.
LEMMA SlotIsLater ==
  ASSUME Outlives, SharedInv, NEW s \in Sends, stage[s] = "asking"
  PROVE  /\ RedisSlot(asked[s]) \in Nat
         /\ \A t \in Sends : Paced(t) => RedisSlot(asked[s]) >= slot[t] + Interval
         /\ RedisSlot(asked[s]) <= now \/ RedisSlot(asked[s]) = lastSlot + Interval
<1>1. /\ asked[s] <= now
      /\ now <= asked[s] + MaxLatency
  BY DEF SharedInv, AsksAreRecent
<1>2. TypeOK
  BY DEF SharedInv
<1>3. asked[s] \in Nat
  BY <1>2, SharedTypes
<1>4. CASE now < expiry
  <2>1. RedisSlot(asked[s]) = NextSlot(asked[s], lastSlot)
    BY <1>4 DEF RedisSlot
  <2>2. /\ RedisSlot(asked[s]) \in Nat
        /\ RedisSlot(asked[s]) >= lastSlot + Interval
    BY <1>2, <1>3, <2>1, NextSlotLemma, SharedTypes
  <2>3. \A t \in Sends : Paced(t) => RedisSlot(asked[s]) >= slot[t] + Interval
    BY <1>2, <2>2, SharedTypes DEF SharedInv, NoneAheadOfLast
  <2>4. RedisSlot(asked[s]) = asked[s] \/ RedisSlot(asked[s]) = lastSlot + Interval
    BY <2>1 DEF NextSlot
  <2> QED
    BY <1>1, <2>2, <2>3, <2>4
<1>5. CASE ~(now < expiry)
  <2>1. RedisSlot(asked[s]) = asked[s]
    BY <1>5 DEF RedisSlot
  <2>2. ASSUME NEW t \in Sends, Paced(t)
        PROVE  asked[s] >= slot[t] + Interval
    <3>1. slot[t] <= lastSlot
      BY <2>2 DEF SharedInv, NoneAheadOfLast
    <3>2. lastSlot + Ttl <= expiry + Interval * MaxAhead
      BY <2>2 DEF SharedInv, LastExpires
    <3>3. Ttl >= Interval * MaxAhead + Interval + MaxLatency
      BY OneMore, AheadAssumption DEF Outlives
    <3>4. Interval * MaxAhead \in Nat
      BY OneMore, AheadAssumption
    <3> QED
      BY <1>1, <1>2, <1>3, <1>5, <3>1, <3>2, <3>3, <3>4, SharedTypes
  <2> QED
    BY <1>1, <1>3, <2>1, <2>2
<1> QED
  BY <1>4, <1>5

\* A reservation on Redis keeps the slots apart, and the chain of those ahead.
LEMMA RedisReservationKeeps ==
  ASSUME Outlives, SharedInv, NEW s \in Sends, RedisReserves(s)
  PROVE  SharedInv'
<1> DEFINE r == RedisSlot(asked[s])
<1>1. /\ stage[s] = "asking"
      /\ asked' = [asked EXCEPT ![s] = asked[s]]
      /\ slot' = [slot EXCEPT ![s] = r]
      /\ lastSlot' = r
      /\ stage' = [stage EXCEPT ![s] = "sleeping"]
      /\ expiry' = now + Ttl
      /\ now' = now
  BY DEF RedisReserves, Reserve
<1>2. /\ r \in Nat
      /\ \A t \in Sends : Paced(t) => r >= slot[t] + Interval
      /\ r <= now \/ r = lastSlot + Interval
  BY <1>1, SlotIsLater
<1> HIDE DEF r
<1>3. TypeOK
  BY DEF SharedInv
<1>4. /\ ~Paced(s)
      /\ Paced(s)'
      /\ stage'[s] = "sleeping"
      /\ slot'[s] = r
      /\ \A t \in Sends : t # s => stage'[t] = stage[t] /\ slot'[t] = slot[t] /\ asked'[t] = asked[t]
                                   /\ (Paced(t)' <=> Paced(t))
  BY <1>1, <1>3 DEF TypeOK, Paced
<1>5. TypeOK'
  BY <1>1, <1>2, <1>3, SharedTypes DEF TypeOK, Stages
<1>6. SlotsAreApart'
  BY <1>2, <1>4 DEF SharedInv, SlotsAreApart, Apart
<1>7. NoneAheadOfLast'
  <2> SUFFICES ASSUME NEW t \in Sends, Paced(t)'
               PROVE  slot'[t] <= lastSlot'
    BY DEF NoneAheadOfLast
  <2>1. CASE t = s
    BY <1>1, <1>2, <1>4, <2>1
  <2>2. CASE t # s
    BY <1>1, <1>2, <1>3, <1>4, <2>2, SharedTypes
  <2> QED
    BY <2>1, <2>2
<1>8. FewUnderWay'
  <2>1. UnderWay' = UnderWay
    BY <1>1, <1>4 DEF UnderWay
  <2> QED
    BY <2>1 DEF SharedInv, FewUnderWay
<1>9. AsksAreRecent' /\ SentAreDue'
  BY <1>1, <1>4 DEF SharedInv, AsksAreRecent, SentAreDue
<1>10. CASE r <= now
  <2>1. AheadOfClock' = {}
    <3> SUFFICES ASSUME NEW t \in Sends, stage'[t] = "sleeping", slot'[t] > now'
                 PROVE  FALSE
      BY DEF AheadOfClock
    <3>1. CASE t = s
      BY <1>1, <1>2, <1>3, <1>4, <1>10, <3>1, SharedTypes
    <3>2. CASE t # s
      <4>1. r >= slot[t] + Interval
        BY <1>2, <1>4, <3>2 DEF Paced
      <4> QED
        BY <1>1, <1>2, <1>3, <1>4, <1>10, <3>2, <4>1, SharedTypes
    <3> QED
      BY <3>1, <3>2
  <2>2. LastIsNear' /\ Chained'
    BY <2>1 DEF LastIsNear, Chained
  <2>3. OneIsNext'
    BY <1>1, <1>2, <1>3, <1>10, SharedTypes DEF OneIsNext
  <2>4. LastExpires'
    <3>1. Interval * MaxAhead \in Nat
      BY OneMore, AheadAssumption
    <3> QED
      BY <1>1, <1>2, <1>3, <1>10, <3>1, SharedTypes DEF LastExpires
  <2> QED
    BY <1>5, <1>6, <1>7, <1>8, <1>9, <2>2, <2>3, <2>4 DEF SharedInv
<1>11. CASE r > now
  <2>1. r = lastSlot + Interval
    BY <1>2, <1>3, <1>11, SharedTypes
  <2>2. AheadOfClock' = AheadOfClock \union {s} /\ s \notin AheadOfClock
    BY <1>1, <1>4, <1>11 DEF AheadOfClock
  <2>3. ASSUME NEW u \in AheadOfClock
        PROVE  /\ u \in Sends /\ u # s /\ slot'[u] = slot[u] /\ slot[u] \in Nat
               /\ slot[u] <= lastSlot
               /\ Later(u)' = Later(u) \union {s}
               /\ s \notin Later(u)
    <3>1. u \in Sends /\ u # s /\ Paced(u)
      BY <2>2 DEF AheadOfClock, Paced
    <3>2. slot'[u] = slot[u] /\ slot[u] \in Nat /\ slot[u] <= lastSlot
      BY <1>3, <1>4, <3>1, SharedTypes DEF SharedInv, NoneAheadOfLast
    <3>3. slot'[s] > slot'[u]
      BY <1>3, <1>4, <2>1, <3>2, SharedTypes
    <3>4. \A t \in AheadOfClock : slot'[t] = slot[t]
      BY <1>4, <2>2 DEF AheadOfClock
    <3> QED
      BY <2>2, <3>1, <3>2, <3>3, <3>4 DEF Later
  <2>4. LastIsNear'
    <3> SUFFICES ASSUME NEW u \in AheadOfClock'
                 PROVE  lastSlot' <= slot'[u] + Interval * Cardinality(Later(u)')
      BY DEF LastIsNear
    <3>1. CASE u = s
      <4>1. \A t \in AheadOfClock : ~(slot'[t] > slot'[s])
        BY <1>3, <1>4, <2>1, <2>3, SharedTypes
      <4>2. Later(s)' = {}
        BY <1>2, <1>4, <2>2, <4>1 DEF Later
      <4>3. Cardinality(Later(u)') = 0
        BY <3>1, <4>2, FS_EmptySet
      <4> QED
        BY <1>1, <1>2, <1>4, <3>1, <4>3, OneMore, IntervalAssumption
    <3>2. CASE u \in AheadOfClock
      <4> DEFINE n == Cardinality(Later(u))
      <4>1. IsFiniteSet(Later(u)) /\ n \in Nat
        BY <1>3, <3>2, LaterAreFewer DEF SharedInv
      <4>2. Cardinality(Later(u)') = n + 1
        BY <2>3, <3>2, <4>1, FS_AddElement
      <4>3. lastSlot <= slot[u] + Interval * n
        BY <3>2 DEF SharedInv, LastIsNear
      <4>4. Interval * n \in Nat /\ Interval * (n + 1) = Interval * n + Interval
        BY <4>1, OneMore
      <4>5. slot'[u] = slot[u] /\ slot[u] \in Nat
        BY <2>3, <3>2
      <4> HIDE DEF n
      <4> QED
        BY <1>1, <1>3, <2>1, <4>2, <4>3, <4>4, <4>5, SharedTypes
    <3> QED
      BY <2>2, <3>1, <3>2
  <2>5. OneIsNext'
    <3>1. CASE lastSlot > now
      <4>1. PICK u \in AheadOfClock : slot[u] <= now + Interval
        BY <3>1 DEF SharedInv, OneIsNext
      <4> QED
        BY <1>1, <2>2, <2>3, <4>1 DEF OneIsNext
    <3>2. CASE lastSlot <= now
      <4>1. slot'[s] <= now' + Interval
        BY <1>1, <1>3, <1>4, <2>1, <3>2, SharedTypes
      <4> QED
        BY <2>2, <4>1 DEF OneIsNext
    <3> QED
      BY <1>3, <3>1, <3>2, SharedTypes
  <2>6. Chained'
    <3> SUFFICES ASSUME NEW u \in AheadOfClock'
                 PROVE  \/ slot'[u] = lastSlot'
                        \/ \E t \in AheadOfClock' : slot'[t] = slot'[u] + Interval
      BY DEF Chained
    <3>1. CASE u = s
      BY <1>1, <1>4, <3>1
    <3>2. CASE u \in AheadOfClock /\ slot[u] = lastSlot
      BY <1>4, <2>1, <2>2, <2>3, <3>2
    <3>3. CASE u \in AheadOfClock /\ \E t \in AheadOfClock : slot[t] = slot[u] + Interval
      BY <2>2, <2>3, <3>3
    <3> QED
      BY <2>2, <3>1, <3>2, <3>3 DEF SharedInv, Chained
  <2>7. LastExpires'
    <3>1. lastSlot' <= now' + Interval * MaxAhead
      BY <1>5, <1>8, <2>4, <2>5, LastIsWithinReachNext
    <3>2. Interval * MaxAhead \in Nat
      BY OneMore, AheadAssumption
    <3> QED
      BY <1>1, <1>2, <1>3, <3>1, <3>2, SharedTypes DEF LastExpires
  <2> QED
    BY <1>5, <1>6, <1>7, <1>8, <1>9, <2>4, <2>5, <2>6, <2>7 DEF SharedInv
<1> QED
  BY <1>2, <1>3, <1>10, <1>11, SharedTypes

\* A send asks Redis with the clock it reads.
LEMMA AskKeeps ==
  ASSUME SharedInv, NEW s \in Sends, AskRedis(s)
  PROVE  SharedInv'
<1>1. /\ stage[s] = "idle"
      /\ Cardinality(UnderWay) < MaxAhead
      /\ asked' = [asked EXCEPT ![s] = now]
      /\ stage' = [stage EXCEPT ![s] = "asking"]
      /\ UNCHANGED <<now, lastSlot, expiry, slot>>
  BY DEF AskRedis, MayStart
<1>2. TypeOK
  BY DEF SharedInv
<1>3. TypeOK'
  BY <1>1, <1>2 DEF TypeOK, Stages
<1>4. /\ stage'[s] = "asking" /\ asked'[s] = now
      /\ \A t \in Sends : t # s => stage'[t] = stage[t] /\ asked'[t] = asked[t]
      /\ \A t \in Sends : Paced(t)' <=> Paced(t)
  BY <1>1, <1>2 DEF TypeOK, Paced
<1>5. AheadOfClock' = AheadOfClock
  BY <1>1, <1>4 DEF AheadOfClock
<1>6. \A t \in AheadOfClock : Later(t)' = Later(t)
  BY <1>1, <1>5 DEF Later
<1>7. FewUnderWay'
  <2>1. UnderWay' = UnderWay \union {s} /\ s \notin UnderWay
    BY <1>1, <1>4 DEF UnderWay
  <2>2. /\ IsFiniteSet(UnderWay \union {s})
        /\ Cardinality(UnderWay \union {s}) = Cardinality(UnderWay) + 1
    BY <2>1, FS_AddElement DEF SharedInv, FewUnderWay
  <2>3. Cardinality(UnderWay) \in Nat
    BY FS_CardinalityType DEF SharedInv, FewUnderWay
  <2> QED
    BY <1>1, <2>1, <2>2, <2>3, AheadAssumption DEF FewUnderWay
<1>8. AsksAreRecent'
  BY <1>1, <1>2, <1>4, SharedTypes DEF SharedInv, AsksAreRecent
<1>9. SentAreDue'
  BY <1>1, <1>4 DEF SharedInv, SentAreDue
<1>10. SlotsAreApart' /\ NoneAheadOfLast' /\ LastExpires'
  BY <1>1, <1>4 DEF SharedInv, SlotsAreApart, Apart, NoneAheadOfLast, LastExpires
<1>11. LastIsNear' /\ OneIsNext' /\ Chained'
  BY <1>1, <1>5, <1>6 DEF SharedInv, LastIsNear, OneIsNext, Chained
<1> QED
  BY <1>3, <1>7, <1>8, <1>9, <1>10, <1>11 DEF SharedInv

\* A send whose call of Redis failed is not paced and not under way.
LEMMA FailureKeeps ==
  ASSUME SharedInv, NEW s \in Sends, RedisFails(s)
  PROVE  SharedInv'
<1>1. /\ stage[s] = "asking"
      /\ stage' = [stage EXCEPT ![s] = "unpaced"]
      /\ UNCHANGED <<now, lastSlot, expiry, asked, slot>>
  BY DEF RedisFails, ProceedUnpaced
<1>2. TypeOK
  BY DEF SharedInv
<1>3. TypeOK'
  BY <1>1, <1>2 DEF TypeOK, Stages
<1>4. /\ stage'[s] = "unpaced"
      /\ \A t \in Sends : t # s => stage'[t] = stage[t]
      /\ \A t \in Sends : Paced(t)' <=> Paced(t)
  BY <1>1, <1>2 DEF TypeOK, Paced
<1>5. AheadOfClock' = AheadOfClock
  BY <1>1, <1>4 DEF AheadOfClock
<1>6. \A t \in AheadOfClock : Later(t)' = Later(t)
  BY <1>1, <1>5 DEF Later
<1>7. FewUnderWay'
  <2>1. UnderWay' \subseteq UnderWay
    BY <1>1, <1>4 DEF UnderWay
  <2> QED
    BY <2>1, FS_Subset, FS_CardinalityType, AheadAssumption DEF SharedInv, FewUnderWay
<1>8. AsksAreRecent' /\ SentAreDue'
  BY <1>1, <1>4 DEF SharedInv, AsksAreRecent, SentAreDue
<1>9. SlotsAreApart' /\ NoneAheadOfLast' /\ LastExpires'
  BY <1>1, <1>4 DEF SharedInv, SlotsAreApart, Apart, NoneAheadOfLast, LastExpires
<1>10. LastIsNear' /\ OneIsNext' /\ Chained'
  BY <1>1, <1>5, <1>6 DEF SharedInv, LastIsNear, OneIsNext, Chained
<1> QED
  BY <1>3, <1>7, <1>8, <1>9, <1>10 DEF SharedInv

\* A send that slept until its slot was not ahead of the clock any more.
LEMMA PacedSendKeeps ==
  ASSUME SharedInv, NEW s \in Sends, SendPaced(s)
  PROVE  SharedInv'
<1>1. /\ stage[s] = "sleeping"
      /\ now >= slot[s]
      /\ stage' = [stage EXCEPT ![s] = "sent"]
      /\ UNCHANGED <<now, lastSlot, expiry, asked, slot>>
  BY DEF SendPaced
<1>2. TypeOK
  BY DEF SharedInv
<1>3. TypeOK'
  BY <1>1, <1>2 DEF TypeOK, Stages
<1>4. /\ stage'[s] = "sent"
      /\ \A t \in Sends : t # s => stage'[t] = stage[t]
      /\ \A t \in Sends : Paced(t)' <=> Paced(t)
  BY <1>1, <1>2 DEF TypeOK, Paced
<1>5. AheadOfClock' = AheadOfClock
  <2>1. ~(slot[s] > now)
    BY <1>1, <1>2, SharedTypes
  <2> QED
    BY <1>1, <1>4, <2>1 DEF AheadOfClock
<1>6. \A t \in AheadOfClock : Later(t)' = Later(t)
  BY <1>1, <1>5 DEF Later
<1>7. FewUnderWay'
  <2>1. UnderWay' \subseteq UnderWay
    BY <1>1, <1>4 DEF UnderWay
  <2> QED
    BY <2>1, FS_Subset, FS_CardinalityType, AheadAssumption DEF SharedInv, FewUnderWay
<1>8. AsksAreRecent' /\ SentAreDue'
  BY <1>1, <1>2, <1>4, SharedTypes DEF SharedInv, AsksAreRecent, SentAreDue
<1>9. SlotsAreApart' /\ NoneAheadOfLast' /\ LastExpires'
  BY <1>1, <1>4 DEF SharedInv, SlotsAreApart, Apart, NoneAheadOfLast, LastExpires
<1>10. LastIsNear' /\ OneIsNext' /\ Chained'
  BY <1>1, <1>5, <1>6 DEF SharedInv, LastIsNear, OneIsNext, Chained
<1> QED
  BY <1>3, <1>7, <1>8, <1>9, <1>10 DEF SharedInv

\* When the clock reaches the first slot ahead, the next one of the chain is
\* an interval away.
LEMMA TickKeeps ==
  ASSUME SharedInv, Tick
  PROVE  SharedInv'
<1>1. /\ now' = now + 1
      /\ \A s \in Sends : stage[s] = "asking" => now < asked[s] + MaxLatency
      /\ UNCHANGED <<lastSlot, expiry, stage, asked, slot>>
  BY DEF Tick
<1>2. TypeOK
  BY DEF SharedInv
<1>3. TypeOK'
  BY <1>1, <1>2 DEF TypeOK
<1>4. AheadOfClock' = {s \in AheadOfClock : slot[s] > now + 1}
  BY <1>1, <1>2, SharedTypes DEF AheadOfClock
<1>5. \A s \in AheadOfClock : s \in Sends /\ slot[s] \in Nat
  BY <1>2, SharedTypes DEF AheadOfClock
<1>6. \A s \in AheadOfClock' : Later(s)' = Later(s)
  <2> SUFFICES ASSUME NEW s \in AheadOfClock', NEW t \in AheadOfClock, slot[t] > slot[s]
               PROVE  t \in AheadOfClock'
    BY <1>1, <1>4 DEF Later
  <2> QED
    BY <1>2, <1>4, <1>5, SharedTypes
<1>7. SlotsAreApart' /\ NoneAheadOfLast' /\ FewUnderWay' /\ LastExpires'
  BY <1>1 DEF SharedInv, SlotsAreApart, Apart, NoneAheadOfLast, FewUnderWay, UnderWay, LastExpires,
     Paced
<1>8. AsksAreRecent' /\ SentAreDue'
  BY <1>1, <1>2, SharedTypes DEF SharedInv, AsksAreRecent, SentAreDue
<1>9. LastIsNear'
  BY <1>1, <1>4, <1>6 DEF SharedInv, LastIsNear
<1>10. Chained'
  <2> SUFFICES ASSUME NEW s \in AheadOfClock'
               PROVE  slot[s] = lastSlot \/ \E t \in AheadOfClock' : slot[t] = slot[s] + Interval
    BY <1>1 DEF Chained
  <2>1. CASE slot[s] = lastSlot
    BY <2>1
  <2>2. ASSUME NEW t \in AheadOfClock, slot[t] = slot[s] + Interval
        PROVE  t \in AheadOfClock'
    BY <1>2, <1>4, <1>5, <2>2, SharedTypes
  <2> QED
    BY <1>4, <2>1, <2>2 DEF SharedInv, Chained
<1>11. OneIsNext'
  <2> SUFFICES ASSUME lastSlot > now + 1
               PROVE  \E s \in AheadOfClock' : slot[s] <= now + 1 + Interval
    BY <1>1 DEF OneIsNext
  <2>1. PICK s \in AheadOfClock : slot[s] <= now + Interval
    BY <1>2, SharedTypes DEF SharedInv, OneIsNext
  <2>2. CASE slot[s] > now + 1
    BY <1>2, <1>4, <1>5, <2>1, <2>2, SharedTypes
  <2>3. CASE slot[s] = now + 1
    <3>1. PICK t \in AheadOfClock : slot[t] = slot[s] + Interval
      BY <1>2, <2>3, SharedTypes DEF SharedInv, Chained
    <3> QED
      BY <1>2, <1>4, <1>5, <2>3, <3>1, SharedTypes
  <2>4. slot[s] > now
    BY DEF AheadOfClock
  <2> QED
    BY <1>2, <1>5, <2>2, <2>3, <2>4, SharedTypes
<1> QED
  BY <1>3, <1>7, <1>8, <1>9, <1>10, <1>11 DEF SharedInv

\* No two slots of a line are closer than the interval on Redis either
\* (ACQUIRE_LUA of redis-store.ts), over any number of replicas, failures of the
\* store and idle times, when the lifetime of the key covers the burst, one more
\* interval and the latency of a call: "must comfortably outlast the slot we just
\* reserved".
THEOREM SharedSlotsApart == SharedStore /\ Outlives => (Spec => []SlotsAreApart)
<1> SUFFICES ASSUME SharedStore, Outlives PROVE Spec => []SlotsAreApart
  OBVIOUS
<1>1. Init => SharedInv
  <2> SUFFICES ASSUME Init PROVE SharedInv
    OBVIOUS
  <2>1. TypeOK /\ SlotsAreApart /\ NoneAheadOfLast /\ AsksAreRecent /\ SentAreDue /\ LastExpires
    BY ClockAssumption DEF Init, TypeOK, Stages, SlotsAreApart, NoneAheadOfLast, AsksAreRecent,
       SentAreDue, LastExpires, Paced
  <2>2. FewUnderWay
    <3>1. UnderWay = {}
      BY DEF Init, UnderWay
    <3> QED
      BY <3>1, FS_EmptySet, AheadAssumption DEF FewUnderWay
  <2>3. AheadOfClock = {}
    BY DEF Init, AheadOfClock
  <2>4. LastIsNear /\ Chained
    BY <2>3 DEF LastIsNear, Chained
  <2>5. OneIsNext
    BY ClockAssumption DEF Init, OneIsNext
  <2> QED
    BY <2>1, <2>2, <2>4, <2>5 DEF SharedInv
<1>2. SharedInv /\ [Next]_vars => SharedInv'
  <2> SUFFICES ASSUME SharedInv, [Next]_vars PROVE SharedInv'
    OBVIOUS
  <2>1. CASE UNCHANGED vars
    BY <2>1 DEF SharedInv, TypeOK, SlotsAreApart, NoneAheadOfLast, FewUnderWay, UnderWay, AsksAreRecent,
       SentAreDue, LastIsNear, OneIsNext, Chained, LastExpires, AheadOfClock, Later, Paced, Apart, vars
  <2>2. CASE Tick
    BY <2>2, TickKeeps
  <2>3. ASSUME NEW s \in Sends, Acquire(s)
        PROVE  SharedInv'
    BY <2>3, AskKeeps, RedisReservationKeeps, FailureKeeps, PacedSendKeeps DEF Acquire, ReserveInMemory
  <2> QED
    BY <2>1, <2>2, <2>3 DEF Next
<1>3. SharedInv => SlotsAreApart
  BY DEF SharedInv
<1> QED
  BY <1>1, <1>2, <1>3, PTL DEF Spec
=============================================================================
