# meta-ai-agent in TLA+

Specifications of meta-ai-agent, the server that connects a chat endpoint to
WhatsApp, Messenger and Instagram, and of the scripts that set it up. The
modules are translated from the source under `src/src/` and `src/scripts/`; TLC
checks them on small instances and TLAPS proves the properties that matter most
for every value of the constants.

    tlc -config messenger_turns.cfg MCConversationAgent.tla
    tlapm TurnInputProofs.tla

## The system

A webhook of Meta is acknowledged, parsed, and dispatched to the conversation
agent. The agent buffers the messages of one user until a short silence, calls
the chat endpoint with all of them, and delivers the actions of its reply one
after the other. Everything is per conversation key (channel, business, user).

| Component | State it keeps | Operations | Correct when |
|---|---|---|---|
| Conversation agent (`conversation/agent.ts`, `types.ts`) | one record per key in the store; in memory: the lock's promise chain, delivery and retry timers, abort controllers, stashed requests | handleInbound, flush, sendNext, handleStatus, timer callbacks, boot recovery, close | no accepted message is lost or handled twice, turns come in order, the queue is sent in order and ends, nothing waits forever, a restart repeats nothing |
| Outbound queue (`delivery/`) | items and cursor, inside the record | build, advance | each item is settled once, in order |
| Buffer scheduler (`conversation/scheduler.ts`) | a timer or a BullMQ job per key | schedule, cancel, the worker | what is owed a flush gets one |
| Buffer timeout (`conversation/buffering.ts`) | none | the delay of a flush | positive, within its bounds |
| Conversation store (`store.ts`, `redis-store.ts`) | records, claimed inbound handles, outbound handle mappings, recovery claims | get, set, claim, peek, map | a claim is held by one caller until it expires |
| Limits (`limits/`) | send slot per line, counters | acquireSendSlot, recordOutbound, classify | sends are spaced, thresholds logged once, failures routed |
| Status tracker (`status/`) | bounded history per message id | applyStatusUpdate, applyReadWatermark | ranks never fall back, order and repetition do not matter |
| Identity resolver (`identity/`) | cache with entries that expire | resolve | fails open, never mixes users |
| Chat client and contract (`chat/`) | none | complete, normalise, resolve targets | an abort or a timeout always rejects |
| Graph client (`meta/shared/graph-client.ts`) | none | request with retries | no ambiguous POST is repeated |
| Adapter registry, configuration (`meta/shared/registry.ts`, `config/`) | accounts | loadConfig, register, resolve | never the wrong account or its secret |
| Parser, HTTP layer, wiring (`meta/parser.ts`, `http/`, `index.ts`) | none | acknowledge, verify, parse, dispatch, probe, shut down | 200 first, each message once and in order |
| Comments agent and poller (`comments/`) | claimed comments, sweep flag, timer | handleComment, runSweep | each comment asked about once, what is done is what was answered |
| Gap monitor (`monitoring/`) | time of the last webhook, of the last alert | record, check | silence is alerted for |
| Channel clients, media, metrics (`meta/`, `metrics/`) | counters | translation of payloads | |
| Operator scripts (`scripts/`) | `.env`, fixture files, what is registered at Meta | capture and refresh tokens, register webhooks, apply profiles, verify, capture, probe | see the modules below |

How they interact: webhooks run concurrently, also for one key. The agent
serialises what touches a record with a promise chain per key
(`runExclusive`); the scheduler's callback, the delivery timer and the retry
timer fire outside the lock and chain an operation on it. The chat call runs
without the lock, so that a late message may abort it. Statuses come back by
webhook and find their conversation through the handle mapping that the send
stored. Replicas share the store and the jobs and nothing else.

What is hard about it: a flush holds the lock in three separate segments, and
anything may run between them; a timer that has fired cannot be cleared and
runs later, behind whatever is in the chain; messages, statuses and webhooks
are repeated, delayed or lost; two retry counters share one cap; a process may
die anywhere; claims expire. `PROJECT.json` lists these hazards with their
lines and the properties that cover them.

## Modules

The conversation:

| Module | Models |
|---|---|
| `OutboundQueue` | items, cursor and advancement policy of `delivery/queue.ts`, as constant operators |
| `ConversationAgent` | one conversation key of `conversation/agent.ts`, with its lock, scheduler, timers, statuses and chat call |
| `TurnTaking` | abstract: messages are accepted, and turns settle the oldest unsettled ones in order |
| `AgentRecovery` | crashes, restarts and `recoverPendingRetries` of one conversation on replicas that share a store |
| `BufferScheduler`, `FlushPromise` | both schedulers, round trip by round trip; abstract: what is owed a flush is taken in the end |
| `ConversationStores`, `ClaimWindow` | the claims of both stores; abstract: who asks first has an id until the claim is over |
| `IdentityLookup` | resolver, cache, and the handler that awaits them |

Sending and its feedback:

| Module | Models |
|---|---|
| `SendPacing` | `acquireSendSlot` over both counter stores, with the expiry of the Redis key |
| `WindowCounters` | `recordOutbound` over both counter stores and the threshold logs |
| `Delays` | buffer timeout, retry delay and Graph backoff as integer functions |
| `GraphSend` | a request through the client's and the agent's retry loops, against a platform whose answers get lost |
| `StatusTracking` | the tracker, and the statuses and watermarks that feed it |

The ways in:

| Module | Models |
|---|---|
| `WebhookIntake` | acknowledge, parse (identity of events, dedupe of a payload), dispatch, claims, redelivery, restart and shutdown |
| `CommentIntake` | comment agent, poller and normalisation of the answer, on several replicas with one store |
| `AccountRouting` | from the environment's credential lines to the account that answers |
| `GapMonitor`, `HealthProbes` | the two monitors |

The operator's scripts:

| Module | Models |
|---|---|
| `OAuthCapture` | `oauth-messenger.ts`, `oauth-instagram.ts` |
| `TokenRefresh` | `refresh-instagram-tokens.ts` beside an editor of `.env` |
| `WebhookRegistration` | `register-webhooks.ts`, run again and again |
| `ProfileSetup` | `configure-profile.ts` against the rules Meta keeps between the fields |
| `SetupVerification` | `verify-all.ts` and the three channel scripts |
| `WebhookCapture` | the capture server under `fixture-capture.ts` and `guided-capture.ts` |
| `OutboundProbe`, `ReactionSweep` | `probe-outbound.ts` and its emoji sweep |

Instances and proofs: `MCConversationAgent` has the replies, the deployments and
the symmetry of the agent's runs, `MCAgentRecovery` those of a rolling restart;
`MCSending`, `MCRuntime`, `MCInbound`, `MCOperatorScripts` and `MCReactions` are
the suites below; the modules whose names end in `Proofs` have the theorems.

What is chosen once, when a process is configured, is a variable that no step
changes: `deployment` (scheduler, adapter, replicas), `kind` of scheduler,
`onRedis`, `channel`. One run then covers all of them, and a theorem speaks of
every one.

### ConversationAgent

Keys share no state, so one key stands for all.

`chain` is the promise chain of the key. Its head holds the lock. `Enqueue` is
`runExclusive`; `Release` is the settling of its callback. An operation under
the lock reads and writes the record with nobody else running on the key, so
it is one step, whatever it awaits. The exception is the send loop: `sendNext`
and `advanceAndContinue` call each other once per item, so each item is one
step that keeps the lock (`sendLoop`), which lets timers fire and webhooks
arrive between two items.

| Code | Actions |
|---|---|
| `handleInbound` | `ReceiveInbound`, then `DropInbound`, `BufferInbound`, `StashLateArrival` or `InterruptSending` under the lock |
| scheduler callback, `flushImpl` segment 1 | `BufferTimerFires`, then `Segment`: `PrepareBatch`, or `EndAtPrepare` with `PrepareNothing` or `PrepareNoAdapter` |
| the chat call, unlocked | `ChatReplies`, `ChatRejects` |
| `flushImpl` after a chat error | `RescueLateArrivals`, `EndFailedTurn` |
| `flushImpl` segment 2 | `Rebatch`, `EndSilentTurn`, `AttachQueue`; of an aborted turn at the cap, `FallThroughAtCap` and the catch's `ForceIdle` |
| `flushImpl` segment 3 | `DriveDelivery` |
| `sendNext` with its tail, one item | `SendLoopEnds`, `SendFireAndForget`, `SendOnSend`, `SendOnStatus`, `SendFailsTransient`, `SendSkips`, `SendFindsWindowClosed` |
| `handleStatus` | `ReceiveStatus`, then `DropStatus`, `NoteStatus`, `StatusAdvances`, `StatusFailsTransient`, `StatusSkips` or `StatusFindsWindowClosed` |
| delivery timer | `DeliveryTimerFires`, then `TimeoutAdvances` or `DropTimeout` |
| retry timer | `RetryTimerFires`, then `RetrySends` or `DropRetry` |

`FinalizeTurn`, `AdvancedRecord`, `SkippedRecord`, `ScheduleRetry` and
`HandleWindowClosed` are the helpers of the same names (`finalizeTurn`,
`advanceAndContinue`, `markSkippedAndAdvance`, `scheduleTransientRetry`,
`handleWindowClosed`), used by the actions that call them.

Abstractions, all of data:

- A message is a model value. A reply is the sequence of the kinds of the items
  it yields, `message` (the send returns an id) or `reaction` (it does not:
  reactions, typing, and the template and media items that are skipped with a
  warning). Silence, an empty action list and "nothing deliverable" take the
  same path in the code and are the empty reply.
- Ids are numbers minted in order; 0 is the absent id. `deliveredMessageIds` is
  a set.
- Delays are left open: a timer that is armed may fire at any later step. The
  order of the delays is used nowhere by the code.
- A failed status carries the class of its error code; which code has which
  class is data.
- `attempts` of an item and `answered` are auxiliary: the first counts send
  calls, the second records the messages of settled turns in order. No action
  reads them. A turn is settled when segment 2 accepts its reply, or when its
  chat call fails: the code drops the batch of a failed call on purpose. A batch
  that is dropped otherwise (32) is not settled, and `fellThrough` says so.

The in-memory scheduler replaces the timer of the key. A BullMQ job keeps its
id while it is active, that is, until `flushImpl` returns, and a schedule in the
meantime has no effect: `remove` throws and is swallowed, `add` ignores the
duplicate id (`TakesSchedule`). The job is taken to complete with the last
locked step of its flush; `BufferScheduler` has the steps that this leaves out.

### The other modules

- `AgentRecovery` has the record, the flush job and the recovery claims, which
  survive a process, and its batch, its call and its timers, which do not. A
  send is several steps, so that a crash can fall between the platform's
  acceptance, the id and the handle mapping; the items a crash cut there are
  recorded in `cut`. The lock is a process's own: a handler either loads and
  saves the record in one step, or goes by a record that it loaded earlier
  (`Load`), which another replica may have saved since; `overtaken` says that a
  save went over another one. What a crash leaves that recovery has no branch for
  is `Forsaken`.
- `BufferScheduler` has `schedule` as its three round trips, worker slots, a
  job that stays active until its handler has returned, and stalled jobs.
- `SendPacing` reads the clock in the process and reserves in a script that
  runs later; the key is forgotten at its expiry. `WindowCounters` counts hour
  and day by two calls that fail apart.
- `GraphSend` keeps what the platform carried out (`effects`) apart from what
  the process saw: a rate-limit code may come with a 4xx or a 5xx, and a 2xx may
  name no message.
- `StatusTracking` has every webhook that was ever sent as a set from which
  any may arrive, any number of times.
- `WebhookIntake` has an item of a payload as its place in it, and a delivery as
  the set of the places that are left; several processes may be dispatching the
  same payload at once, and the claims outlive them.
- `CommentIntake` handles one comment in as many steps as it has awaits: the
  claim, the question, each action of the answer. The actions that are left are
  places in the answer. The account is a page or an Instagram account. A sweep
  sees one page of a post's comments, any page of that size, while the post is
  young and among the newest; a record may come without its author's id.
- The script modules have the script's await points as stages, and the world
  around it (the platform, the operator, `.env`) as actions of their own.
  `SetupVerification` and `WebhookCapture` share the shape of the capture
  server: a ring of deliveries that are acknowledged before they are used.
- `SetupVerification` has webhooks of several messages. The scripts reply to the
  user of the first text of the capture without asking whether it is an echo;
  they need not, because the parser gives an echo the type `echo`
  (`parser.ts:860`, `parser.test.ts`: "flips sender/recipient for echo messages"),
  and the run has an echo before a text in one webhook.
- `OAuthCapture` has the state of the authorization URL as generated, or as
  fixed in `.env` (`fixedState`); `WebhookCapture` has saves that fail;
  `ReactionSweep` tells what Meta accepted of a clear from what it did
  (`lingers`), and remembers whose thread the operator read (`thread`).

## Runs

Modules that share no state are checked in one run: a suite's behaviour is of
one `part` (or `deployment`), chosen at the start and never changed, and the
others rest. The distinct states of a suite are the sum over its parts, not a
product, and its properties say of which part they speak. All runs let the
system come to rest (`CHECK_DEADLOCK FALSE`) except `reaction_again`: every
message handled, no timer armed, a script ended and no webhook left to repeat
is the normal end.

| Run | Module | Shows |
|---|---|---|
| `messenger_turns` | `MCConversationAgent` | turns with five messages and an echo, two flushes that may overlap, in memory, on BullMQ and without an adapter: types, nothing lost but by a fall-through at the cap (`NoInboundLost`), nothing twice (`HandledOnce`), late arrivals owned (`LateArrivalsAreOwned`), buffered input awaited in memory (`AwaitedInMemory`); on BullMQ one turn at a time and no fall-through, idle only when drained, and the refinement of `TurnTaking` |
| `whatsapp_retries` | `MCConversationAgent` | multi-item replies with statuses late, repeated or missing, failures of both sources, retries, interrupts, under both schedulers: on BullMQ the mapped handle is that of the item in flight and the attempts are bounded, in memory a turn has something pending that moves it on (`ItemsAreAccountedFor`); on BullMQ nothing is sent for a turn that is over (`NoStraySend`) and only a timeout passes an unsettled item (`OnlyTimeoutsPassUnsettled`) |
| `whatsapp_liveness` | `MCConversationAgent` | every accepted message is settled and every turn ends, with every class of failure and no status being owed |
| `sending` | `MCSending` | `SlotsAreApart` on Redis and in memory, `AlertsAreRight`, `DelaysAreBounded`, `SendsAreAsBelieved` |
| `runtime` | `MCRuntime` | statuses of WhatsApp and Messenger (`RecordsAreWhatArrived`, `NeverRegresses`), recovery on one and two replicas (`SentOnce`, `StoredIsNotLost`, `RestartedTurnEnds`), both schedulers (`OwedIsPending`, the refinement of `FlushPromise`) |
| `inbound` | `MCInbound` | comments (`AskedAtMostOnce`, `ActsAsAnswered`), webhooks and claims (`TakenOnceInOrder`, the refinement of `ClaimWindow`), contacts and accounts (`RightParties`), monitors (`SilenceIsAlerted`, `ReadyIsTrue`), and that nothing is left lying (`NothingIsLeftLying`) |
| `operator` | `MCOperatorScripts` | one property per script: `CaptureIsSound`, `CompleteIsSubscribed`, `InOrderIsApplied`, `VerdictIsHeard`, `QuietMeansFresh`, `NoneIsMissed`, `EndIsComplete`, `DeliveredWasDrawn` |
| `race_idle_drained`, `bullmq_lost_flush`, `stale_delivery_timer`, `rolling_restart`, `reaction_again` | | the counterexamples below |

Bounds, and why they suffice:

- Messages: two make a turn with a late arrival; with `MaxReprocess = 1` three
  are needed to reach a committed flush and to interrupt it, four to do so with
  a stale flush beside it, and five for two flushes to raise the count over one
  another's aborted turn (32). The code's `MAX_REPROCESS` is 5; only whether the
  count has reached it is compared.
- `Flushes`: two flush invocations alive at once, the most that one stale timer
  makes.
- `MaxQueued`: webhooks stop when two operations are chained (one in the
  liveness run), so that a status and a message, or two copies of either, race
  for the lock. Timers and chat calls enqueue beyond it.
- `MaxRetryAttempts = 1`: one retry per counter reaches exhaustion of either and
  of both.
- Replies of up to two items: one settled and one still to send; `MixedReplies`
  adds silence and a reply that starts with a reaction.
- A redelivered webhook repeats as long as the chain has room, and at most
  `MaxRedelivered` operations are chained, so the number of repetitions is not
  bounded.
- `sending`: four sends of a line; an interval of 2 and a key lifetime of
  four intervals, the code's floor, over a clock that lets the key expire
  once; delay knobs at the extremes the loader admits; two rounds of both retry
  loops. Counter caps of 2 and 3 are crossed in one window and in the next.
- `runtime`: two messages or one with every status at two moments; up to three
  crashes of two replicas, two messages on two replicas without crashes
  (`TwoAtOnce`), one save that overtakes another (the bound of `Load`: the
  properties say nothing after it); two keys, two worker slots, four calls of
  `schedule`, one crash.
- `inbound`: two replicas, one comment and one reply of our own, which need two
  pages (`PageSize = 1`, 50 in the code), a post that leaves the poll set by its
  age or by newer ones, on both channels; a payload with a message twice, two
  events of one moment and a status, and one with a postback, delivered twice
  each; claims that expire and are taken again; two users and two businesses;
  two channels with two account names and an ill-formed one; a threshold of
  three and an interval of two over three thresholds.
- `operator`: two or three accounts, one failure or edit at each call, two
  runs of what is rerun; four webhooks for three scenarios; two channels with two
  emojis. The configuration names what the module defines for each script. Each script ends within its bound.

Symmetry permutes messages and flushes (or sends) in the runs that check no
liveness.

Restrictions that keep a failing case out of a passing run are named here and
shown or described below. `whatsapp_retries` lets a timeout pass an unsettled
item (`stale_delivery_timer`) and has no closed window (finding 8);
`whatsapp_liveness` has it. Three properties of delivery are stated for BullMQ:
with the in-memory scheduler a delivery timeout may be chained behind the
segment that takes the next batch; it then meets a record in `processing` whose
old queue still has its cursor on the timeout's index, or none, and ends that
turn (`agent.ts:2126`), after which handles and cursors belong to no turn.
`SentOnce` is of replicas that boot together (`quiet`), and of one replica or of
one message: with two of both, the second message may start a turn on the other
replica while the first one's send is in flight. With several replicas it and
`StoredIsNotLost` speak of the time until one saves the record between another's
load and save (33). `ScansLate` and `rolling_restart` are restarts that are not
quiet. `RestartedTurnEnds` is of one replica, and excepts by name what recovery
has no branch for (`Forsaken`: 41) and a boot scan that found its claim taken: a
second crash within its life. `MaxAhead = 2` on Redis keeps
the reserved slots within the lifetime of their key (12). `LateCalls` and
`CrashMidCall` are off for the schedulers (15, 16). The claims of
`inbound`'s comments outlive the time that comments are looked at (18).
`WebhookIntake` has one tap per moment and one status of a message in a payload
(20, 21: `MomentsAssumption`); reactions are in `reaction_again`. The cases that
properties except by name are 32 to 41.

### Fairness

`ConversationAgent!Fairness` asks for weak fairness of the locked steps (store,
Graph API and identity calls time out, so an operation settles and the chain
moves on), of each chat call (the client aborts it after its timeout), and of
each kind of timer (an armed timer of the process fires). Nothing is asked of
webhooks: messages, repetitions and statuses may come or not.

`AgentRecovery!Fairness` (in the suite, `RestartFairness`) adds the clock and
that a process which is down is started again and scans.
`BufferScheduler!Fairness` is weak for the steps of a call and of a handler,
which end by themselves, and strong for a timer, a pick and a stalled check of
a key: other keys may take the worker's slots again and again, and BullMQ
serves waiting jobs in their order. `CommentFairness` and `WebhookFairness` let
a handler, a sweep and a dispatch go on in the event loop; the platform owes no
webhook, which is why the poller's property is about comments no webhook
reports. A listing that fails is a sweep that is left out; fairness says that one
succeeds in the end.

### What the code does otherwise than it says

Runs show these five:

1. `race_idle_drained`. A flush timer fires while an inbound holds the lock
   (waiting for the store or the identity endpoint). Its flush waits in the
   chain and cannot be cancelled; the inbound schedules another. The first
   flush takes the buffer and calls the chat endpoint; the second finds later
   input, or none, or ends a turn of its own, and leaves `idle` where the other
   still processes. The agent's stated invariant "never idle with a non-empty
   inboundBuffer" fails. Messages are not lost (proved), but a turn may be
   handled beside another.
2. `bullmq_lost_flush`. A flush scheduled from inside the running job of its
   key is dropped; the buffered turn waits until the user writes again.
3. `stale_delivery_timer`. The index guard of the delivery timeout does not
   close its race with a failed status: the retry keeps the index, so the stale
   timeout passes an item that was never delivered and the retry is given up.
4. `rolling_restart`. The recovery claim is taken by recovery alone: a replica
   that restarts while another one holds the timer of a retry arms it too, and
   both send.
5. `reaction_again`. The handle of a Messenger or Instagram reaction is sender,
   target and action: a reaction after an unreact is dropped as a duplicate.

These were met while modelling, and nearly all as counterexamples of TLC to a
stronger property or to a run without the restriction named above; the project
keeps no run for them.

The conversation:

6. `agent.ts:723` against `:869`: a turn without an adapter goes idle with its
   input in the buffer.
7. `agent.ts:1368` against `types.ts:84`: the timeout path records the id of an
   unconfirmed item in `deliveredMessageIds`.
8. `agent.ts:2126`: a delivery timer that has fired survives a re-prompt that
   ends in silence. Only the index is compared, so it advances the queue of an
   idle conversation and sends its next item, whose handle outlives the turn.
9. `agent.ts:1953` against `docs/features/configuration.md:129`: the two retry counters
   allow (max + 1)(max + 2)/2 sends of an item; the documented bound is max + 1.
   The bound in `ItemsAreAccountedFor` is the one that holds.
10. `agent.ts:1641` against `:1582`: the boot scan takes every record in
   `processing` for stranded, also one whose chat call is in flight in this
   process or on another replica.
11. `agent.ts:459` against `:443`: a lookup without a result is not remembered,
   and the next message asks again.

Sending and scheduling:

12. `limits/redis-store.ts:96` against `:93`: the key of the last slot lives four
   intervals from the reservation and not from the slot; with more sends waiting
   than that, it expires before its slot and two sends share an interval.
13. `limits/redis-store.ts:121` against `tracker.ts:147`: the threshold logs
   compare for equality under one `Promise.all`; when one counter call fails, a
   crossing the other one counted is never logged.
14. `graph-client.ts:144` against `:118`: a connection that breaks after the
   request was written, or in the body of a 2xx, counts as "never reached Meta",
   and a POST is repeated.
15. `scheduler.ts:260` against its comment: a schedule that meets a job whose
   handler has returned and which is not yet moved is dropped.
16. `scheduler.ts:247` against `docs/features/persistence.md:39`: a crash
   between `remove` and `add` leaves buffered input without a job.
17. `redis-store.ts:117` against `app.ts:715`: claims live one day and Meta
   redelivers for seven.

The ways in:

18. `comments/ig-poller.ts:138` against `:145`: claims live 24 hours and posts are
   polled for 72; a comment is asked about again on the second and third day.
19. `config/loader.ts:431` against `:383`: a named account with a token and no id
   line under the primary variable is silently not loaded.
20. `meta/parser.ts:156` against `docs/features/message-parsing.md:141`: of two
   different receipts of one message in a payload the later is dropped.
21. `meta/parser.ts:998` against `:807`: two users' taps in one millisecond have
   one id.
22. `index.ts:326`, `:384`: the server closes after the agent and the store, so
   webhooks are answered with 200 and then fail.
23. `monitoring/webhook-gap.ts:76` against `:6`: after a restart a channel that
   has not been heard of since is never alerted for.
24. `http/app.ts:371` against `:676`: the scheduler check of `/ready` has no
   timer of its own and hangs with the scheduler.

The scripts:

25. `oauth-messenger.ts:400` against `:1026`: with one managed page the id of
   `.env` may be another's; the appended pair does not match. (`CaptureIsSound`
   claims matching pairs where `.env` has no id.)
26. `oauth-instagram.ts:544`: an id beyond 2^53 is rounded by the JSON parser.
27. `oauth-instagram.ts:457` against `:30`: when the hosts differ, main returns
   with the tunnel open.
28. `capture-server.ts:417` against `:436`: two webhooks of one moment and type
   are saved over each other by the passive script.
29. `fixture-capture.ts:271` against `:104`: webhooks that arrive while the
   registration is awaited are acknowledged and not saved.
30. `register-webhooks.ts`: a channel of which only named accounts are
   configured has no runner and does not count against "complete".
31. `probe-outbound.ts:1906` against `:1894`: rows are numbered per channel, and one
   list of answers is applied to every channel of a worksheet, so that a row may
   get the answer of another channel's row. `DeliveredWasDrawn` speaks of the
   channel whose thread was read.

Cases that a property excepts by name. The models have the steps, and TLC refutes
the properties without the exceptions:

32. `agent.ts:926` against `:919` ("NO reachable aborted AT the cap case"): with the
   in-memory scheduler two flushes overlap (1), and one raises the count of the
   record to the cap while the other's chat call is aborted. Segment 2 of that one
   falls through to a response that is undefined, throws, and the catch forces
   `idle`: its batch is dropped, and late arrivals stay on an idle record.
   (`fellThrough` in `NoInboundLost`, `LateArrivalsAreOwned`,
   `EveryInboundAnswered`; never on BullMQ: `OneTurnOnBullMQ`.)
33. `agent.ts:357` against `docs/features/persistence.md:5` and
   `docs/ARCHITECTURE.md:207` ("coordinated across replicas"): the lock is of one
   process. Two replicas with two statuses of one message both advance and send
   the next item; a message that one of them accepts while the other saves an
   older record is lost. (`overtaken` in `SentOnce`, `StoredIsNotLost`.)
34. `limits/tracker.ts:225` against `:217`: the comment excludes a 5xx from what is
   retried, the condition does not when it has a rate-limit code. (`lost` in
   `SendsAreAsBelieved`.)
35. `meta/whatsapp/client.ts:408`, and the same in the other clients: a 2xx without
   a message id throws an error that no class fits, so the item is given up as a
   failure although it may be with the user. (`2xx_no_id` in `SendsAreAsBelieved`.)
36. `comments/agent.ts:109`, as `ig-poller.ts:162` says: without an author's id the
   self filter cannot run, and a reply of ours is asked about. (`anonymous` in
   `AskedAtMostOnce`.)
37. `meta/instagram/client.ts:280`, `config/loader.ts:852`: the poller lists the first
   50 comments of the 10 newest posts and follows no paging; what is beyond is
   never seen. (`OutOfSight` in `NothingIsLeftLying`.)
38. `oauth-instagram.ts:437` against `:629`: with a state in
   `INSTAGRAM_AUTHORIZE_URL` every run has the same, and the callback of an older
   tab passes. (`fixedState` in `CaptureIsSound`.)
39. `reaction-sweep.ts:280`: a clear that Meta accepted is taken as done, though
   the header says that a 200 is no proof of delivery. (`lingers` in
   `DeliveredWasDrawn`.)
40. `fixture-capture.ts:282`: a save that fails is reported and the webhook has
   no file; in `guided-capture.ts` it ends the script. (`unsaved` in
   `NoneIsMissed`.)
41. `docs/KNOWN-GAPS.md:50` names Messenger and Instagram as the channels where a
   crash leaves a turn in `sending` until the next message. So does one on WhatsApp
   that falls between the attached queue and the first send, in the send, or between
   the stored id and `currentOutboundMessageId`. (`Forsaken` in
   `RestartedTurnEnds`.)

## Proofs

All theorems are of a specification without fairness, or do not use it, and
follow from the named assumptions on the constants: any messages, replies,
flushes, replicas, keys, clocks. An inductive invariant was checked by TLC on a
run's instance before it was proved.

`ConversationAgentProofs`: `TypeCorrect`. The invariant `TypeInv` adds to
`TypeOK` that the send loop runs only while the chain is not empty, without
which the send loop's `Release` would take the tail of an empty chain.

`TurnInputProofs`, of the input of the turns. `InboundNeverLost`: unless an
aborted turn has fallen through at the cap (the alternative in `KeptInv`), every
accepted message is in the buffer, in the late arrivals, in the batch of a flush,
or settled. Not inductive by itself: segment 1 clears `lateArrivals`, which loses
nothing only because late arrivals never stand behind a buffer (`LateOwned`),
and that is kept by the inbound handler only because a record in `processing`
has an empty buffer (`ProcessingTookAll`). The inductive invariant is `LossInv`,
the conjunction of these with the type invariant. One lemma covers each group of
handlers: `TurnStep` the steps of one flush (what it could reach it still
reaches), `DeliveryKeeps` those of delivery, which leave the input alone or fold
late arrivals into the buffer (`Delivers`), `AcceptStep` the three ways to accept
a message. `LateArrivalsOwned` falls out of the same invariant.
`InboundHandledOnce` is on top of it. Its counts are not inductive; `OnceInv`
says that the buffer, the late arrivals, each batch and the settled turns have
no repetitions (`Distinct`), that no two of them share a message (`Apart`), and
that all they hold was claimed, so that a redelivered webhook finds its handle
taken. The counts follow at the end.

`TurnTakingProofs`, of the order of the turns. `BufferAwaitedInMemory`: no path
leaves a buffer without a timer or a chained flush. `TurnsOneAtATime`: on BullMQ
a job of the key is in one place only, scheduled, chained, in its call or at the
head of the chain (`JobInv`), because a schedule that meets an active job is
dropped; the count of an aborted call's record is still below the cap in
segment 2, so that its batch is put back and no turn falls through.
`TurnsInOrder` is the refinement of `TurnTaking`: what was accepted is what was
settled, then the batch, then the buffer or the late arrivals, in that order, so
that settling a batch settles the oldest messages. It is proved step by step,
each action a step of `TurnTaking` or a stutter.

`DeliveryProofs`, of the queue. `ItemsAccountedFor`, `IdleConversationsDrained`,
`SendsNeverStray` and `OnlyTimeoutsPassItems` share the invariant `DeliveryInv`:
which operations may be chained together with which, that the handle, the retry
and the delivery timer of a turn are those of the item at its cursor, and what
each of them says of the state the record is in. The attempts are bounded
because each counter is bounded and each send raises one of them. In memory the
invariant says only what is left there: a record that is not idle is moved on by
something pending. The four have the hypothesis `"window_closed" \notin
Failures`: a re-prompt on a closed window that ends in silence leaves a finished
turn whose handle stays mapped and whose fired timer still runs, and finding 8
breaks each of them. The hypothesis holds of Messenger and Instagram
(`FailuresAssumption`), and of WhatsApp while the user has written within 24
hours. Loss, order and types are proved, and liveness is checked, with closed
windows.

`RuntimeProofs`, beside the turns. `StatusNeverRegresses` and
`RecordsMatchArrivals`: the history kept of a message is the set of its updates,
the current status is one of them with the highest rank (`Matches`), and only
what was sent is reported or marked (`OnlySentIsReported`), so a watermark is
older than what it must not mark. `BufferedIsPending`, for both schedulers and
every key: `KeyInv` counts the handlers of a key against the state of its job
(at most one, and exactly when the job is active), and a call of `schedule` under
way covers the gap between its round trips; through one crash that hits no call.
`StoredSurvives`: a flush takes the buffer and forgets the late arrivals, so
nothing may be late while something is buffered, through crashes, boots and the
recovery of any replicas; a handler that saves what it loaded before another
replica's save is the one exception, and one replica never does (`ReadingInv`).

`ItemsSentOnce`: of replicas that are restarted together, with one of them or
with one message until a save overtakes another one's. The inductive invariant
`SentInv` follows the item at the cursor: at most one process has it in its
hands (`HandsOK`), by a send call, by a turn that is attached and not yet
driven, or by a retry timer of the record's attempt; a retry is armed only for
an item that was not sent, or in whose send a process died (`FreshOK`); a timer
of any other item is of one the cursor has passed (`Passed`), or it could fire
into a later turn. A boot scan may arm what another process holds only if no
claim stands, so as long as scans are under way every armed retry has one
(`ScansOK`), and scans begin when all are down (`PlacesOK`). A message is in one
place, so that there are no more turns than messages and every item has a count
(`SettledOK`).

`SendingProofs`: `MemorySlotsApart`, for the in-memory pacer: the next slot
keeps its distance from the last, hence from all because none is ahead of the
last (`NoneAheadOfLast`). `SharedSlotsApart` is the same on Redis, under the
hypothesis `Outlives`, `Ttl >= Interval * (MaxAhead + 1) + MaxLatency`: a key
that expires loses the last slot, so that must be past by then. The slots ahead
of the clock are of sends that still sleep and an interval apart from one to the
next (`Chained`), hence no more intervals ahead than there are sends
(`LastIsNear`, `OneIsNext`; `LastIsWithinReach`), and a reservation that finds
the key forgotten read a clock at which the last slot was over (`LastExpires`,
`SlotIsLater`). `sending` satisfies the hypothesis (8 against 7); by the code
`Ttl` is the larger of four intervals and a second, and finding 12 is what
happens without.

`SendsBelieved`: as long as a send may be repeated, whatever the platform
carried out was not heard of (`Unheard`); a POST that met a server error without
a rate-limit code, or an acceptance without an id, is not repeated, and what the
last attempt reports is true of it (`OutcomeIsTrue`). `AlertsRight`: in memory
the count of the live window is that of its sends (`SendsAreCounted`) and what
was logged of a window is what its count has passed (`LoggedIsPassed`); on Redis
no two replies of a window are equal (`RepliesAreCounts`), and a level is logged
by the one send whose reply is the threshold (`LoggedByOne`).

`DelaysBounded`: a delay is computed from the knobs and the draw (`DelayInv`), so
that the theorem is one about functions. Fractions are ordered by `AtMost`, which
sums and products keep; a cap keeps a product within the cap (`CappedWithin`);
rounding moves a delay by half a millisecond at most (`RoundIsNear`) and keeps the
order. What a power is for every exponent (`PowerDef`), and that powers grow, is
proved from a least counterexample (`AllNumbers`). `KnobsAssumption` says that
the knobs are what the loader lets through, and nothing else about them.

`InboundProofs`. `CommentAskedOnce`, under the hypothesis `ClaimTtl > MaxTime`,
that no claim expires while comments are looked at; finding 18 is what happens
without. A claimed id stays claimed (`ClaimsLast`), one without a claim was
never touched (`UnclaimedIsUntouched`), at most one handler asks of a comment
(`OneAsks`), and a reply of ours that is handled at all came without its
author's id (`HandledOwnIsAnonymous`). `StoresKeepThePromise` is the refinement
of `ClaimWindow` by both stores: what a store holds of an id is the end of its
claim (`HandleIsClaim`), Redis keeps no key past its time (`KeysExpire`), hence
an id can be claimed exactly when its claim is over (`HeldUntilOver`), which is
the guard of the abstract claim.

`CommentActsAsAnswered` has the same hypothesis: one handler acts on a comment,
after the endpoint was asked, and what is done follows the answer's order and
precedes what is left (`Follows`, in `AnswerInv`). `ReadinessTrue`: a probe on
its way saw whatever answers now, and has passed the scheduler only if that
failed or answered (`ProbeSaw`). `SilenceAlerted`: a check
is never further away than the interval (`CheckIsNear`), and a channel that was
heard of is alerted for or not yet due (`HeardChannel`). `PartiesAreRight`: what
the cache and a conversation hold is their own user's or nothing, and the loaded
accounts have different ids (`IdsDiffer`) that their lines declare
(`AccountsInv`). `MessagesTakenInOrder` is about places of payloads. The
assumptions say what Meta's ids and moments mean (`MomentsAssumption`: a page has
one tap per moment, a payload one status of a message) and that a message is
delivered again with its payload (`BatchesAssumption`); from them two handles are
equal exactly when the events are (`HandlesTellApart`), and the parser drops no
event (`ParserDropsNothing`). A handle is claimed exactly when its message was
taken (`ClaimedIsTaken`), and what stands before an item that is left to take was
taken, by this dispatch or by another, unless the store is cut off and nothing is
taken any more (`EarlierIsTaken`). So whatever was taken of a payload is a front
part of it (`TakenFromTheFront`), which is what carries the order over restarts.

`OperatorProofs`: `CaptureSound`, by an invariant that follows the callback: a
code came with this run's state, or the state is fixed (`CodeCameFromUs`), the
exchanges follow a code, and what is offered for `.env` is a pair
(`OfferIsPair`). The scripts share no state, so a step of the suite is a step of
one (`PartsStep`), and each has its invariant, for any values of the constants
that `MCOperatorScripts` declares, under its named assumptions.
`QuietRefreshIsFresh`: an account is still to go or its line in what was read is
new (`ToGoOrFresh`), and what was read is the file as long as nobody edits it
(`ReadIsCurrent`). `PassedIsHeard`: the steps of a channel have one inbound test
(`OneInbound`), a channel is passed with its text or a failure
(`ChannelsAreHeard`), and what came early is among the captures when the test
looks at them (`TestsAreFair`). `CapturesMissNone`: a webhook of the guided walk
is in its queue, being saved or used, and only in one of them (`InOnePlace`); of
the passive script a file has the stamp of its webhook (`PathIsStamped`), so
that under `StampsAssumption` no file is written over by another webhook's (28
is what happens without); a save that fails leaves its webhook reported as not
saved. `CompleteRegistrationReaches`: a call that had to be made is still to
come or took effect, unless a result says otherwise (`CallsAreMade`).
`ProfileIsApplied`: a section asked for is to come, applied, or fails for a
reason of its own (`StepsAreMade`); that the menu does not fail for want of the
button rests on the order of the steps (`ButtonFirst`). `DeliveredIsDrawn`: the
operator is asked only of a message that was cleared (`AskedIsOwn`), and a batch
has one message per emoji, which nobody reacted to before (`BatchIsFresh`); the
rows of the channel that was read are those of its own messages
(`RowsAreDrawn`). `ProbeEndsComplete`: a channel that wrote has one run, which
is queued, or has as many operations to do as its plan has outcomes to come, or
is over (`PlansAreDone`); a batch has no runs before it settles (`ProbeIsAt`),
and a run of it reacts to messages of its own account only (`SweepsAreOwn`),
given that an id is one message's (`ProbingAssumption`). Messages are picked,
merged and strung together by folds: what every step of a fold keeps is true of
its result (`FoldStaysIn`, after `FoldsExist`), so that nothing is answered that
was not received (`KeptAreBoth`, `MergedAreEither`, `FlattenedAreTheirs`).

Only model-checked:

- Liveness under fairness (`EveryInboundAnswered`, `EveryTurnEnds`,
  `RestartedTurnEnds`, `NothingIsLeftLying`) and the refinement of
  `FlushPromise`, whose promise is fairness: out of the prover's reach, as is
  `ENABLED`.

No module declares a recursive operator.

## Not modelled

- The catch of a flush segment when the store or the scheduler throws: Redis
  failing in the middle of a segment. The same catch after the fall-through at the
  cap is modelled. `close()` of the agent clears timers and
  ends what a crash ends.
- A crash between the claim of an inbound handle and the save of its record: the
  message is lost, whatever follows, and no property of the code holds there.
- What a failed write leaves of a file: the scripts' saves succeed, or leave none.
- Parsing of corrupt store values and the bounded tails of the admin routes.
- Chat client and contract: stateless. The outcomes of a call are actions of
  `ConversationAgent`; the normalisation of a JSON body has no steps to check.
- Channel clients and WhatsApp templates: stateless requests. Which actions
  become items (capabilities, downgrades, targets) is data of a reply.
- Media hydration: network I/O with a size limit that fails open; it only
  lengthens the time the chat call runs without the lock.
- Fields of each message type in the parser: data. The numeric settings of the
  configuration are read one by one with a range each and are the constants of
  the modules.
- Metrics: counters no code reads back. Logging, redaction and request tracing:
  no state.
- Rendering of the scripts' consoles, the steps of each probe case, redaction of
  fixtures and the process behind the tunnel.
- The development REPL, the deployment loop, builders of synthetic webhooks and
  the example endpoints: outside the running program.
