------------------------------ MODULE MCInbound ------------------------------
(***************************************************************************)
(* TLC's instances of the ways in: comments, webhooks, the claims of the   *)
(* stores, the sender's contact, the account that answers, and the two     *)
(* monitors.  They share no state, so a behaviour is of one of them: part  *)
(* says of which, and the others rest.                                     *)
(***************************************************************************)
EXTENDS CommentIntake

CONSTANTS
  Payloads, MaxTries,                                            \* WebhookIntake
  MessageIds, Callers, Nobody, DedupeTtl, RetryWindow, LastDay,  \* ConversationStores
  WatchedChannels, Threshold, Interval, LastCheck,               \* GapMonitor
  Probes,                                                        \* HealthProbes
  Users, Businesses, ContactNames, Nothing, MaxInbounds,         \* IdentityLookup
  Channels, AccountNames, Bare, IllFormed, BusinessIds           \* AccountRouting

VARIABLES
  part,
  tries, settled, server, dispatch, webhookClaims, order, dropped, lost,     \* WebhookIntake
  clock, upSince, nextCheck, lastReceiptAt, lastAlertAt, alarm,              \* GapMonitor
  settings, health, stage, checks, well,                                     \* HealthProbes
  onRedis, day, handles, seen, taker, until, first, taken,                   \* ConversationStores
  contact, cache, asking, inbounds, calls,                                   \* IdentityLookup
  lines, process, accounts                                                   \* AccountRouting

webhookVars == <<tries, settled, server, dispatch, webhookClaims, order, dropped, lost>>
gapVars == <<clock, upSince, nextCheck, lastReceiptAt, lastAlertAt, alarm>>
probeVars == <<settings, health, stage, checks, well>>
storeVars == <<onRedis, day, handles, seen, taker, until, first, taken>>
contactVars == <<contact, cache, asking, inbounds, calls>>
accountVars == <<lines, process, accounts>>

Parts == {"comments", "webhooks", "gaps", "probes", "claims", "contacts", "accounts"}

\* The endpoint's answers: nothing, one action, all there are, and silence
\* beside an action.
Said(actions, silence) == [actions |-> actions, silence |-> silence]

ShortAnswers == {Said(<<"like", "reply">>, FALSE)}

MixedAnswers ==
  ShortAnswers \union
    {Said(<<>>, FALSE), Said(<<"malformed", "reply", "silence", "private_reply">>, FALSE),
     Said(<<"reply", "like">>, TRUE)}

AnswersOfChannels == [messenger |-> MixedAnswers, instagram |-> ShortAnswers]

Occurrence(id, kind, stamp, target) ==
  [id |-> id, kind |-> kind, user |-> "ada", business |-> "page", stamp |-> stamp,
   target |-> target, action |-> ""]

\* A batch with a message twice and two events of one moment, and a postback.
Batches ==
  {<<Occurrence(1, "message", 1, ""), Occurrence(2, "message", 1, ""),
     Occurrence(1, "message", 1, ""), Occurrence(3, "unknown", 2, ""),
     Occurrence(4, "unknown", 2, ""), Occurrence(5, "status", 5, "sent")>>,
   <<Occurrence(6, "postback", 3, "")>>}

Webhook == INSTANCE WebhookIntake WITH claims <- webhookClaims, taken <- order

Gap ==
  INSTANCE GapMonitor WITH Channels <- WatchedChannels, MaxTime <- LastCheck, now <- clock

Probe == INSTANCE HealthProbes

Stores == INSTANCE ConversationStores WITH Ids <- MessageIds, MaxTime <- LastDay, now <- day

\* What the interface of both stores promises of a claim.
Promise ==
  INSTANCE ClaimWindow WITH Ids <- MessageIds, Ttl <- DedupeTtl, now <- day, holder <- taker

Lookup == INSTANCE IdentityLookup WITH Names <- ContactNames

Routing == INSTANCE AccountRouting WITH Names <- AccountNames

ASSUME PlatformAssumption ==
  /\ Webhook!PayloadsAssumption /\ Webhook!EventsAssumption
  /\ Webhook!MomentsAssumption /\ Webhook!BatchesAssumption
ASSUME TriesAssumption == Webhook!TriesAssumption
ASSUME StoresAssumption == Stores!StoresAssumption
ASSUME GapAssumption == Gap!TimesAssumption
ASSUME ContactsAssumption == Lookup!NothingAssumption
ASSUME AccountsAssumption == Routing!BareAssumption /\ Routing!ChannelsAssumption

PartsInit ==
  /\ part \in Parts
  /\ Init /\ Webhook!Init /\ Gap!Init /\ Stores!Init /\ Lookup!Init /\ Routing!Init
  /\ Probe!Init
  /\ part = "comments" \/ channel = "messenger"
  /\ part = "claims" \/ ~onRedis
  /\ part = "probes" \/ settings = [url |-> FALSE, required |-> FALSE]

HandleComments ==
  /\ part = "comments" /\ Next
  /\ UNCHANGED <<part, webhookVars, gapVars, probeVars, storeVars, contactVars, accountVars>>

TakeWebhooks ==
  /\ part = "webhooks" /\ Webhook!Next
  /\ UNCHANGED <<part, vars, gapVars, probeVars, storeVars, contactVars, accountVars>>

WatchForGaps ==
  /\ part = "gaps" /\ Gap!Next
  /\ UNCHANGED <<part, vars, webhookVars, probeVars, storeVars, contactVars, accountVars>>

AnswerProbes ==
  /\ part = "probes" /\ Probe!Next
  /\ UNCHANGED <<part, vars, webhookVars, gapVars, storeVars, contactVars, accountVars>>

ClaimHandles ==
  /\ part = "claims" /\ Stores!Next
  /\ UNCHANGED <<part, vars, webhookVars, gapVars, probeVars, contactVars, accountVars>>

LookUpContacts ==
  /\ part = "contacts" /\ Lookup!Next
  /\ UNCHANGED <<part, vars, webhookVars, gapVars, probeVars, storeVars, accountVars>>

RouteToAccounts ==
  /\ part = "accounts" /\ Routing!Next
  /\ UNCHANGED <<part, vars, webhookVars, gapVars, probeVars, storeVars, contactVars>>

PartsNext ==
  \/ HandleComments \/ TakeWebhooks
  \/ WatchForGaps \/ AnswerProbes
  \/ ClaimHandles
  \/ LookUpContacts \/ RouteToAccounts

\* As CommentIntake!Fairness, in its part.
CommentFairness ==
  \A p \in Processes :
    /\ \A o \in Origins : WF_vars(part = "comments" /\ Handle(p, o))
    /\ WF_vars(part = "comments" /\ Sweep(p))
    /\ \A c \in Ids : WF_vars(part = "comments" /\ HandOver(p, c))

\* The event loop runs every dispatch on.
WebhookFairness ==
  \A d \in Webhook!Deliveries : WF_webhookVars(part = "webhooks" /\ Webhook!HandleNext(d))

PartsSpec ==
  /\ PartsInit
  /\ [][PartsNext]_<<part, vars, webhookVars, gapVars, probeVars, storeVars, contactVars, accountVars>>
  /\ CommentFairness /\ WebhookFairness

\* What is done on a comment is what one answer asked for, in its order
\* (normalizeCommentChatResponse, CommentAgent.handleComment).
ActsAsAnswered == ActsAsOneAnswer

\* Each message is taken once and in the order of its payload, however often it
\* is delivered, and none is mistaken for another; what the admin route tells of a
\* claim is so (parser.ts, handleInbound, GET /admin/dedupe).
TakenOnceInOrder ==
  /\ part = "webhooks" => Webhook!TakenOnce /\ Webhook!InOrder /\ Webhook!DroppedIsDuplicate
  /\ Stores!PeekIsTruthful

\* A channel that falls silent is alerted for, and the alerts are a threshold
\* apart (WebhookGapMonitor.check).
SilenceIsAlerted == part = "gaps" => Gap!SilenceIsAlerted /\ Gap!AlertsAreSpaced

\* A probe that is answered 200 saw every dependency answer at some moment of the
\* probe (buildReadinessReport).
ReadyIsTrue == [][part = "probes" => Probe!ReadyIsTrue]_probeVars

\* Both stores keep what the interface promises: the first to ask has an id,
\* nobody else has it before the lifetime of that claim is over, and deliveries
\* that were refused meanwhile do not move that moment (claimInboundHandle).
KeepsThePromise == Promise!Spec

\* A conversation has its own user's contact, and is answered by the account its
\* business id belongs to, with that account's credentials (ContactStore,
\* AdapterRegistry.resolve, loadConfig).
RightParties ==
  /\ part = "contacts" => Lookup!OwnContact
  /\ part = "accounts" =>
       Routing!AnswersAsAddressed /\ Routing!DeclaredIdsAreServed /\ Routing!OwnSecretIsTried

\* A comment that no webhook reports is found by the poller, and a delivery that
\* was answered with 200 is dispatched to its end (ig-poller.ts, app.ts).
NothingIsLeftLying ==
  /\ EveryCommentIsAsked
  /\ Webhook!AnsweredIsDispatched
=============================================================================
