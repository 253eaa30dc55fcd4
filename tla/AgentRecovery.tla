---------------------------- MODULE AgentRecovery ----------------------------
(***************************************************************************)
(* Crashes, restarts and boot recovery of one conversation                 *)
(* (src/src/conversation/agent.ts, recoverPendingRetries) on a shared      *)
(* Redis store with the BullMQ scheduler.                                  *)
(*                                                                         *)
(* The record, the flush job and the recovery claims survive a process;    *)
(* its batch, its call and its timers die with it.  The per-key lock is    *)
(* that of one process: what a handler loaded under it may be old when it  *)
(* is saved, if another replica saved the record in between.  Where no     *)
(* other replica is, load and save are one step.                           *)
(***************************************************************************)
EXTENDS Naturals, FiniteSets

CONSTANTS
  Processes,
  Messages,    \* ids of inbound messages
  Items,       \* the length of every reply (bound)
  RetryCap,    \* transientRetryMaxAttempts
  RetryDelay,  \* in units of the clock
  Timeout,     \* outboundDeliveryTimeoutMs
  MinTtl,      \* RECOVERY_CLAIM_MIN_TTL_SECONDS
  Grace,       \* RECOVERY_CLAIM_GRACE_SECONDS
  Deployments  \* where the conversation may live: a subset of AgentDeployments

TimesAssumption ==
  /\ Items \in Nat \ {0} /\ RetryCap \in Nat
  /\ RetryDelay \in Nat \ {0} /\ Timeout \in Nat \ {0} /\ MinTtl \in Nat \ {0} /\ Grace \in Nat

\* onStatus: WhatsApp waits for a status, Messenger and Instagram do not.
\* quiet: processes boot when all are down, and nothing happens until their scans
\* are over; without it, a rolling restart, or a scan that takes its time.
\* inbound and maxCrashes are bounds: what is sent to us, how often a process dies.
AgentDeployments ==
  [replicas: SUBSET Processes, inbound: SUBSET Messages, onStatus: BOOLEAN, maxCrashes: Nat,
   quiet: BOOLEAN]

DeploymentsAssumption == Deployments \subseteq AgentDeployments

MessagesAssumption == IsFiniteSet(Messages)

VARIABLES
  deployment,
  record,   \* the stored record; its retryIn is what is left until nextRetryAt
  job,      \* the flush job is scheduled
  claims,   \* the recovery claims, each with what is left of its life
  up,       \* the processes that run
  booting,  \* those whose boot scan has not reached the conversation
  chat,     \* of each process: its batch in a chat call, or attached and not yet driven
  call,     \* of each process: its send call, under the lock
  retry,    \* of each process: its transient-retry timer
  delivery, \* of each process: its delivery-timeout timer
  loaded,   \* of each process: the record that its handler has loaded, at most one
  crashes,
  sends,    \* auxiliary: how often each item reached the user
  cut,      \* auxiliary: the items sent by a process that died before it stored so
  settled,  \* auxiliary: messages whose turn was attached or given up
  overtaken,\* auxiliary: a replica saved the record between another's load and save
  refused   \* auxiliary: the last boot scan found its claim taken
vars == <<deployment, record, job, claims, up, booting, chat, call, retry, delivery, loaded, crashes, sends, cut,
          settled, overtaken, refused>>
memory == <<deployment, up, booting, crashes, refused>>
aux == <<sends, cut, settled>>
reading == <<loaded, overtaken>>

Replicas == deployment.replicas
OnStatus == deployment.onStatus
MaxCrashes == deployment.maxCrashes
Quiet == deployment.quiet

None == <<0, 0>>
Turns == 1..Cardinality(Messages)
AllItems == Turns \X (1..Items)
Attempts == 1..RetryCap

NoChat == [at |-> "none", batch |-> {}]
Off == [item |-> None, attempt |-> 0, left |-> 0]
NoCall == [item |-> None, attempt |-> 0, phase |-> "none"]

Tokens ==
  ({"processing"} \X (1..2 * Cardinality(Messages)))
    \union ({"sending"} \X AllItems \X Attempts) \union ({"delivery"} \X AllItems)

Item(r) == <<r.turn, r.cursor>>
HasItem(r) == r.turn # 0 /\ r.cursor <= Items

Init ==
  /\ deployment \in Deployments
  /\ record = [state |-> "idle", buffer |-> {}, late |-> {}, turn |-> 0, cursor |-> 1, last |-> 0,
               attempt |-> 0, retryIn |-> 0, sent |-> FALSE, awaiting |-> FALSE, nonce |-> 0]
  /\ job = FALSE
  /\ claims = [t \in Tokens |-> 0]
  /\ up = Replicas
  /\ booting = {}
  /\ chat = [p \in Processes |-> NoChat]
  /\ call = [p \in Processes |-> NoCall]
  /\ retry = [p \in Processes |-> Off]
  /\ delivery = [p \in Processes |-> Off]
  /\ loaded = [p \in Processes |-> {}]
  /\ crashes = 0
  /\ sends = [i \in AllItems |-> 0]
  /\ cut = {}
  /\ settled = {}
  /\ overtaken = FALSE
  /\ refused = FALSE

Scanning(p) == p \in booting /\ call[p] = NoCall

Free(p) == p \in up /\ call[p] = NoCall /\ (Quiet => booting = {})

Set(f, p, v) == [f EXCEPT ![p] = v]

Accepted == record.buffer \union record.late \union settled \union UNION {chat[p].batch : p \in Processes}

-----------------------------------------------------------------------------
(* The record as a handler has it: loaded in this step, or in an earlier one *)

\* A bound: one save that overtakes another.
Load(p) ==
  /\ p \in up /\ loaded[p] = {} /\ Replicas # {p} /\ ~overtaken
  /\ loaded' = Set(loaded, p, {record})
  /\ UNCHANGED <<record, job, claims, chat, call, retry, delivery, memory, aux, overtaken>>

Seen(p) == IF loaded[p] = {} THEN record ELSE CHOOSE r \in loaded[p] : TRUE

\* Another replica has saved the record since r was loaded, or saves it while the
\* send of another one goes by what it loaded.
Overtakes(p, r) == r # record \/ (record' # record /\ \E q \in up \ {p} : call[q] # NoCall)

\* The handler that loaded r is done with it.
Saves(p, r) ==
  /\ p \in up
  /\ loaded' = Set(loaded, p, {})
  /\ overtaken' = (overtaken \/ Overtakes(p, r))

-----------------------------------------------------------------------------
(* handleInbound, on whichever process the webhook reaches *)

Rebuffered(r, arrived) ==
  [r EXCEPT !.state = "buffering", !.buffer = @ \union r.late \union arrived, !.late = {},
            !.turn = 0, !.cursor = 1, !.awaiting = FALSE, !.attempt = 0, !.retryIn = 0, !.sent = FALSE]

Inbound(p, m, r) ==
  /\ Free(p) /\ m \in deployment.inbound \ Accepted
  /\ CASE r.state \in {"idle", "buffering"} ->
            /\ record' = [r EXCEPT !.state = "buffering", !.buffer = @ \union {m}]
            /\ job' = TRUE
            /\ UNCHANGED <<chat, retry, delivery>>
       [] r.state = "processing" ->
            /\ record' = [r EXCEPT !.late = @ \union {m}]
            /\ chat' = IF chat[p].at = "called" THEN [chat EXCEPT ![p].at = "aborted"] ELSE chat
            /\ UNCHANGED <<job, retry, delivery>>
       [] r.state = "sending" ->
            /\ record' = Rebuffered(r, {m})
            /\ job' = TRUE
            /\ retry' = Set(retry, p, Off)
            /\ delivery' = Set(delivery, p, Off)
            /\ UNCHANGED chat
  /\ UNCHANGED <<claims, call, memory, aux>>
  /\ Saves(p, r)

-----------------------------------------------------------------------------
(* flushImpl, segment 1; the chat call; segments 2 and 3 *)

Flush(p, r) ==
  /\ job /\ Free(p) /\ chat[p] = NoChat
  /\ job' = FALSE
  /\ IF r.buffer = {} THEN UNCHANGED <<record, chat>>
     ELSE /\ record' = [r EXCEPT !.state = "processing", !.buffer = {}, !.late = {}, !.nonce = @ + 1]
          /\ chat' = Set(chat, p, [at |-> "called", batch |-> r.buffer])
  /\ UNCHANGED <<claims, call, retry, delivery, memory, aux>>
  /\ Saves(p, r)

\* transitionToIdle or a fresh turn of the late arrivals.
Finalized(r) ==
  IF r.late # {} THEN Rebuffered(r, {})
  ELSE IF r.state = "buffering" /\ r.buffer # {} THEN [r EXCEPT !.awaiting = FALSE]
  ELSE [r EXCEPT !.state = "idle", !.awaiting = FALSE]

Finalize(p, r) ==
  /\ record' = Finalized(r)
  /\ job' = (job \/ r.late # {})
  /\ retry' = Set(retry, p, Off)
  /\ delivery' = Set(delivery, p, Off)

ChatAnswers(p, r) ==
  /\ chat[p].at = "called" /\ Free(p)
  /\ record' = [r EXCEPT !.turn = r.last + 1, !.last = @ + 1, !.cursor = 1, !.state = "sending", !.awaiting = FALSE,
                              !.attempt = 0, !.retryIn = 0, !.sent = FALSE]
  /\ chat' = Set(chat, p, [at |-> "attached", batch |-> {}])
  /\ settled' = settled \union chat[p].batch
  /\ UNCHANGED <<job, claims, call, retry, delivery, memory, sends, cut>>
  /\ Saves(p, r)

\* Silence, or nothing that can be delivered.
ChatIsSilent(p, r) ==
  /\ chat[p].at = "called" /\ Free(p)
  /\ Finalize(p, r)
  /\ chat' = Set(chat, p, NoChat)
  /\ settled' = settled \union chat[p].batch
  /\ UNCHANGED <<claims, call, memory, sends, cut>>
  /\ Saves(p, r)

\* An error ends the turn: its batch is dropped, late arrivals are not.
ChatFails(p, r) ==
  /\ chat[p].at = "called" /\ Free(p)
  /\ record' = IF r.late # {} THEN [r EXCEPT !.state = "buffering", !.awaiting = FALSE,
                                                       !.buffer = @ \union r.late, !.late = {}]
               ELSE [r EXCEPT !.state = "idle", !.awaiting = FALSE]
  /\ job' = (job \/ r.late # {})
  /\ retry' = IF r.late # {} THEN retry ELSE Set(retry, p, Off)
  /\ delivery' = Set(delivery, p, Off)
  /\ chat' = Set(chat, p, NoChat)
  /\ settled' = settled \union chat[p].batch
  /\ UNCHANGED <<claims, call, memory, sends, cut>>
  /\ Saves(p, r)

\* The aborted batch goes back into the buffer with what arrived since.
ChatAborted(p, r) ==
  /\ chat[p].at = "aborted" /\ Free(p)
  /\ record' = [r EXCEPT !.state = "buffering", !.buffer = @ \union chat[p].batch \union r.late,
                              !.late = {}]
  /\ job' = TRUE
  /\ chat' = Set(chat, p, NoChat)
  /\ UNCHANGED <<claims, call, retry, delivery, memory, aux>>
  /\ Saves(p, r)

-----------------------------------------------------------------------------
(* sendNext and what follows a send; r is the record just loaded or saved *)

SendNext(p, r) ==
  IF HasItem(r)
  THEN /\ record' = r
       /\ call' = Set(call, p, [item |-> Item(r), attempt |-> r.attempt, phase |-> "called"])
       /\ UNCHANGED <<job, retry>>
  ELSE /\ record' = Finalized(r)
       /\ job' = (job \/ r.late # {})
       /\ retry' = Set(retry, p, Off)
       /\ call' = Set(call, p, NoCall)

\* advanceAndContinue
Advance(p, r) ==
  /\ delivery' = Set(delivery, p, Off)
  /\ SendNext(p, [r EXCEPT !.cursor = IF HasItem(r) THEN @ + 1 ELSE @, !.awaiting = FALSE,
                           !.attempt = 0, !.retryIn = 0, !.sent = FALSE])

Drive(p, r) ==
  /\ chat[p].at = "attached" /\ Free(p)
  /\ chat' = Set(chat, p, NoChat)
  /\ SendNext(p, r)
  /\ delivery' = IF HasItem(r) THEN delivery ELSE Set(delivery, p, Off)
  /\ UNCHANGED <<claims, memory, aux>>
  /\ Saves(p, r)

\* The message reaches the user; the answer is still to be stored.
SendReaches(p) ==
  /\ call[p].phase = "called" /\ loaded[p] = {}
  /\ call' = [call EXCEPT ![p].phase = "answered"]
  /\ sends' = [sends EXCEPT ![call[p].item] = @ + 1]
  /\ UNCHANGED <<record, job, claims, chat, retry, delivery, memory, cut, settled, reading>>

\* The channel's id is stored and the bookkeeping of retries cleared.
SendSaved(p, r) ==
  /\ call[p].phase = "answered"
  /\ record' = IF HasItem(r) THEN [r EXCEPT !.sent = TRUE, !.attempt = 0, !.retryIn = 0] ELSE r
  /\ call' = [call EXCEPT ![p].phase = "saved"]
  /\ UNCHANGED <<job, claims, chat, retry, delivery, memory, aux>>
  /\ Saves(p, r)

\* Without a status to wait for the queue advances; with one, its timer is armed.
SendDone(p, r) ==
  /\ call[p].phase = "saved"
  /\ IF OnStatus
     THEN /\ record' = [r EXCEPT !.awaiting = TRUE]
          /\ delivery' = Set(delivery, p, [item |-> call[p].item, attempt |-> 0, left |-> Timeout])
          /\ call' = Set(call, p, NoCall)
          /\ UNCHANGED <<job, retry>>
     ELSE Advance(p, r)
  /\ UNCHANGED <<claims, chat, memory, aux>>
  /\ Saves(p, r)

\* A send that failed for sure and may be repeated.
SendFailsTransiently(p, r) ==
  LET attempt == call[p].attempt + 1
  IN  /\ call[p].phase = "called"
      /\ attempt <= RetryCap
      /\ call' = Set(call, p, NoCall)
      /\ IF HasItem(r) /\ Item(r) = call[p].item
         THEN /\ record' = [r EXCEPT !.attempt = attempt, !.retryIn = RetryDelay]
              /\ retry' = Set(retry, p, [item |-> call[p].item, attempt |-> attempt, left |-> RetryDelay])
              /\ delivery' = Set(delivery, p, Off)
         ELSE UNCHANGED <<record, retry, delivery>>
      /\ UNCHANGED <<job, claims, chat, memory, aux>>
      /\ Saves(p, r)

\* Any other failure, or the last one: the item is skipped.
SendSkipped(p, r) ==
  /\ call[p].phase = "called"
  /\ Advance(p, r)
  /\ UNCHANGED <<claims, chat, memory, aux>>
  /\ Saves(p, r)

RetryFires(p, r) ==
  /\ retry[p] # Off /\ retry[p].left = 0 /\ Free(p)
  /\ retry' = Set(retry, p, Off)
  /\ call' = IF r.state = "sending" /\ HasItem(r) /\ Item(r) = retry[p].item
                /\ r.attempt = retry[p].attempt
             THEN Set(call, p, [item |-> Item(r), attempt |-> r.attempt, phase |-> "called"])
             ELSE call
  /\ UNCHANGED <<record, job, claims, chat, delivery, memory, aux>>
  /\ Saves(p, r)

\* The guard compares the index only.
DeliveryTimesOut(p, r) ==
  /\ delivery[p] # Off /\ delivery[p].left = 0 /\ Free(p)
  /\ IF r.cursor = delivery[p].item[2]
     THEN Advance(p, r)
     ELSE /\ delivery' = Set(delivery, p, Off)
          /\ UNCHANGED <<record, job, retry, call>>
  /\ UNCHANGED <<claims, chat, memory, aux>>
  /\ Saves(p, r)

\* The handle is mapped with the id.
StatusArrives(p, r) ==
  /\ OnStatus /\ r.sent /\ Free(p)
  /\ Advance(p, r)
  /\ UNCHANGED <<claims, chat, memory, aux>>
  /\ Saves(p, r)

-----------------------------------------------------------------------------
(* Crashes, boots and recovery *)

Lost(p) ==
  /\ chat' = Set(chat, p, NoChat)
  /\ call' = Set(call, p, NoCall)
  /\ retry' = Set(retry, p, Off)
  /\ delivery' = Set(delivery, p, Off)
  /\ up' = up \ {p}
  /\ booting' = booting \ {p}
  /\ crashes' = crashes + 1
  /\ loaded' = Set(loaded, p, {})
  /\ cut' = cut \union (IF call[p].phase \in {"called", "answered"} THEN {call[p].item} ELSE {})
  /\ settled' = settled \union chat[p].batch

Crash(p) ==
  /\ p \in up /\ crashes < MaxCrashes
  /\ Lost(p)
  /\ UNCHANGED <<deployment, record, job, claims, sends, refused, overtaken>>

Boot(p) ==
  /\ p \in Replicas \ up
  /\ Quiet => up \subseteq booting
  /\ up' = up \union {p}
  /\ booting' = booting \union {p}
  /\ UNCHANGED <<deployment, record, job, claims, chat, call, retry, delivery, crashes, refused, aux, reading>>

RetryPending(r) == r.state = "sending" /\ HasItem(r) /\ r.attempt > 0 /\ ~r.sent

DeliveryPending(r) == r.state = "sending" /\ HasItem(r) /\ ~RetryPending(r) /\ OnStatus /\ r.awaiting

\* What recovery claims, and for how long.
Token(r) ==
  CASE r.state = "processing" -> <<"processing", r.nonce>>
    [] RetryPending(r) -> <<"sending", Item(r), IF r.attempt = 0 THEN 1 ELSE r.attempt>>
    [] OTHER -> <<"delivery", Item(r)>>

Ttl(r) == IF RetryPending(r) /\ r.retryIn + Grace > MinTtl THEN r.retryIn + Grace ELSE MinTtl

Stranded(r) == r.state = "processing" \/ RetryPending(r) \/ DeliveryPending(r)

Recovered(p, r) ==
  CASE r.state = "processing" ->
         /\ record' = [Rebuffered(r, {}) EXCEPT !.state = IF r.late = {} THEN "idle" ELSE "buffering"]
         /\ job' = (job \/ r.late # {})
         /\ retry' = Set(retry, p, Off)
         /\ delivery' = Set(delivery, p, Off)
    [] RetryPending(r) ->
         /\ retry' = Set(retry, p, [item |-> Item(r), attempt |-> r.attempt, left |-> r.retryIn])
         /\ UNCHANGED <<record, job, delivery>>
    [] OTHER ->
         /\ delivery' = Set(delivery, p, [item |-> Item(r), attempt |-> 0, left |-> Timeout])
         /\ UNCHANGED <<record, job, retry>>

\* Mutant of Recover: the claim is not asked for.
RecoverUnclaimed(p, r) ==
  /\ Scanning(p)
  /\ booting' = booting \ {p}
  /\ IF Stranded(r) THEN Recovered(p, r) ELSE UNCHANGED <<record, job, retry, delivery>>
  /\ refused' = FALSE
  /\ UNCHANGED <<deployment, claims, up, chat, call, crashes, aux>>
  /\ Saves(p, r)

\* Mutant of Recover: a conversation in processing is left alone.
RecoverSends(p, r) ==
  /\ Scanning(p)
  /\ booting' = booting \ {p}
  /\ IF r.state # "processing" /\ Stranded(r) /\ claims[Token(r)] = 0
     THEN /\ claims' = [claims EXCEPT ![Token(r)] = Ttl(r)]
          /\ Recovered(p, r)
     ELSE UNCHANGED <<record, job, claims, retry, delivery>>
  /\ refused' = (Stranded(r) /\ claims[Token(r)] # 0)
  /\ UNCHANGED <<deployment, up, chat, call, crashes, aux>>
  /\ Saves(p, r)

\* Mutant of Recover: a stranded record is reset to idle with its late arrivals.
RecoverToIdle(p, r) ==
  /\ Scanning(p)
  /\ booting' = booting \ {p}
  /\ record' = IF r.state = "processing" THEN [r EXCEPT !.state = "idle", !.late = {}] ELSE r
  /\ refused' = FALSE
  /\ UNCHANGED <<deployment, job, claims, retry, delivery, up, chat, call, crashes, aux>>
  /\ Saves(p, r)

Recover(p, r) ==
  /\ Scanning(p)
  /\ booting' = booting \ {p}
  /\ IF Stranded(r) /\ claims[Token(r)] = 0
     THEN /\ claims' = [claims EXCEPT ![Token(r)] = Ttl(r)]
          /\ Recovered(p, r)
     ELSE UNCHANGED <<record, job, claims, retry, delivery>>
  /\ refused' = (Stranded(r) /\ claims[Token(r)] # 0)
  /\ UNCHANGED <<deployment, up, chat, call, crashes, aux>>
  /\ Saves(p, r)

\* The process dies with the claim taken and nothing done.
DieAfterClaim(p, r) ==
  /\ Scanning(p) /\ crashes < MaxCrashes
  /\ Stranded(r) /\ claims[Token(r)] = 0
  /\ claims' = [claims EXCEPT ![Token(r)] = Ttl(r)]
  /\ Lost(p)
  /\ UNCHANGED <<deployment, record, job, sends, refused>>
  /\ overtaken' = (overtaken \/ Overtakes(p, r))

Less(n) == IF n = 0 THEN 0 ELSE n - 1

Tick ==
  /\ Quiet => booting = {}
  /\ \/ \E t \in Tokens : claims[t] > 0
     \/ \E p \in Processes : retry[p].left > 0 \/ delivery[p].left > 0
     \/ record.retryIn > 0
  /\ claims' = [t \in Tokens |-> Less(claims[t])]
  /\ retry' = [p \in Processes |-> [retry[p] EXCEPT !.left = Less(@)]]
  /\ delivery' = [p \in Processes |-> [delivery[p] EXCEPT !.left = Less(@)]]
  /\ record' = [record EXCEPT !.retryIn = Less(@)]
  /\ loaded' = [p \in Processes |-> {[r EXCEPT !.retryIn = Less(@)] : r \in loaded[p]}]
  /\ UNCHANGED <<job, chat, call, memory, aux, overtaken>>

-----------------------------------------------------------------------------

ChatEnds(p, r) == ChatAnswers(p, r) \/ ChatIsSilent(p, r) \/ ChatFails(p, r) \/ ChatAborted(p, r)

SendEnds(p, r) ==
  SendSaved(p, r) \/ SendDone(p, r) \/ SendFailsTransiently(p, r) \/ SendSkipped(p, r)

Handles(p, r) ==
  \/ \E m \in Messages : Inbound(p, m, r)
  \/ Flush(p, r) \/ ChatEnds(p, r) \/ Drive(p, r) \/ SendEnds(p, r)
  \/ RetryFires(p, r) \/ DeliveryTimesOut(p, r) \/ StatusArrives(p, r)
  \/ Recover(p, r) \/ DieAfterClaim(p, r)

Next ==
  \/ Tick
  \/ \E p \in Processes :
       Load(p) \/ SendReaches(p) \/ Crash(p) \/ Boot(p) \/ Handles(p, Seen(p))

Spec == Init /\ [][Next]_vars

\* Calls end, timers and jobs fire, a process that is down is started again.
\* Neither a message nor a status need come.  Of the one replica of a deployment.
Fairness ==
  /\ WF_vars(Tick)
  /\ \A p \in Processes :
       /\ WF_vars(Flush(p, record)) /\ WF_vars(ChatEnds(p, record)) /\ WF_vars(Drive(p, record))
       /\ WF_vars(SendReaches(p) \/ SendEnds(p, record))
       /\ WF_vars(RetryFires(p, record)) /\ WF_vars(DeliveryTimesOut(p, record))
       /\ WF_vars(Boot(p)) /\ WF_vars(Recover(p, record))

FairSpec == Spec /\ Fairness

-----------------------------------------------------------------------------
(* Properties *)

\* "Multi-replica boot recovery double-send-safe" (persistence.md): no item
\* reaches the user twice, unless a process died in the send and had not stored
\* the channel's id, or a replica saved the record between another's load and save.
SentOnce == ~overtaken => \A i \in AllItems : sends[i] > 1 => i \in cut

OneReplica == \A p, q \in Replicas : p = q

\* Only the batch of a chat call dies with a process (KNOWN-GAPS.md): a message
\* that waits in the stored record is still there after crash and recovery, or
\* is in a batch, or its turn is over; always with one replica, and with several
\* until one of them saves the record between another's load and save.
StoredStays == OneReplica \/ ~overtaken' => (record.buffer \union record.late) \subseteq Accepted'

Underway(r) == r.state = "processing" \/ (r.state = "sending" /\ HasItem(r))

\* A crash left the turn where recoverPendingRetries has no branch for it: before
\* its first send, in it, or with the answer stored and no status awaited yet
\* (on channels without statuses, after any send).
Forsaken ==
  /\ crashes > 0 /\ record.state = "sending" /\ ~Stranded(record)
  /\ \A p \in Processes : chat[p] = NoChat /\ call[p] = NoCall /\ retry[p] = Off /\ delivery[p] = Off

\* With one replica that crashes and boots, a turn under way ends or becomes input
\* of a new one, whether or not another message comes, except where the crash left
\* what recovery does not recover, or its claim still stood at the boot scan.
RestartedTurnEnds == Underway(record) ~> (~Underway(record) \/ Forsaken \/ refused)

=============================================================================
