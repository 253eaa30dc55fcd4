---------------------------- MODULE CommentIntake ----------------------------
(***************************************************************************)
(* Comments: CommentAgent (src/src/comments/agent.ts), the Instagram       *)
(* poller that feeds it beside the webhooks (ig-poller.ts), and the answer *)
(* of the comment endpoint (chat.ts).  One account; every process of the   *)
(* deployment takes webhooks and, on Instagram, polls.                     *)
(*                                                                         *)
(* A comment is claimed in the store before the endpoint is asked.  A      *)
(* claim lives as long as an inbound message's, and a post is polled for   *)
(* as long as it is young.  The account's own replies are comments too and *)
(* come back the same two ways.                                            *)
(***************************************************************************)
EXTENDS Naturals, Sequences, FiniteSets

CONSTANTS
  Processes,  \* the replicas
  Comments,   \* ids of comments that people write
  OwnReplies, \* ids of the comments that the account writes, replies among them
  Answers,    \* of each channel: what the endpoint may answer, before it is normalized
  ClaimTtl,   \* dedupeTtlSeconds, in units of the clock
  Lookback,   \* igLookbackHours, in the same units
  PageSize,   \* the comments that are listed of a post
  MaxTime     \* the last moment (bound)

ASSUME IdsAssumption == Comments \intersect OwnReplies = {}
ASSUME TimesAssumption == ClaimTtl \in Nat \ {0} /\ Lookback \in Nat \ {0} /\ MaxTime \in Nat
ASSUME PageAssumption == PageSize \in Nat \ {0}

VARIABLES
  channel,   \* "messenger" (Facebook) or "instagram"
  now,
  published, \* the comments under the post, which is published at 0
  recent,    \* whether the post is among the newest igMediaLimit of its account
  claims,    \* of each id: when the claim of its handle expires
  handling,  \* of each process and origin: the comment it handles, the answer's actions
             \* and the places of those that are left
  sweep,     \* of each process: the comments of the sweep that it has yet to hand over
  stopped,   \* the processes whose poller is stopped
  anonymous, \* auxiliary: our replies that came in without the id of their author
  asked,     \* auxiliary: how often the endpoint was asked of each comment
  acted      \* auxiliary: the actions done on each comment, in order

vars ==
  <<channel, now, published, recent, claims, handling, sweep, stopped, anonymous, asked, acted>>

Ids == Comments \union OwnReplies

Origins == {"webhook", "poll"}

ActionTypes == {"reply", "private_reply", "like", "silence"}

None == "none"

At(c, stage, actions, left) == [comment |-> c, stage |-> stage, actions |-> actions, left |-> left]

Idle == At(None, "idle", <<>>, {})

\* An answer: its actions, malformed ones among them, and its silence flag.
RawAnswers == [actions: Seq(ActionTypes \union {"malformed"}), silence: BOOLEAN]

ASSUME AnswersAssumption == \A c \in {"messenger", "instagram"} : Answers[c] \subseteq RawAnswers

Init ==
  /\ channel \in {"messenger", "instagram"}
  /\ now = 0
  /\ published = {}
  /\ recent = TRUE
  /\ claims = [c \in Ids |-> 0]
  /\ handling = [p \in Processes |-> [o \in Origins |-> Idle]]
  /\ sweep = [p \in Processes |-> {}]
  /\ stopped = {}
  /\ anonymous = {}
  /\ asked = [c \in Ids |-> 0]
  /\ acted = [c \in Ids |-> <<>>]

-----------------------------------------------------------------------------
(* The platform *)

\* The account's owner comments too, by hand.
Publish(c) ==
  /\ c \in Ids \ published
  /\ published' = published \union {c}
  /\ UNCHANGED <<channel, now, recent, claims, handling, sweep, stopped, anonymous, asked, acted>>

\* The account goes on to post.
PublishMedia ==
  /\ channel = "instagram"
  /\ recent
  /\ recent' = FALSE
  /\ UNCHANGED <<channel, now, published, claims, handling, sweep, stopped, anonymous, asked, acted>>

Tick ==
  /\ now < MaxTime
  /\ now' = now + 1
  /\ UNCHANGED <<channel, published, recent, claims, handling, sweep, stopped, anonymous, asked, acted>>

-----------------------------------------------------------------------------
(* CommentAgent.handleComment *)

Free(p, o) == handling[p][o] = Idle

\* The author is compared only where the delivery names it.
IsOwn(c, named) == named /\ c \in OwnReplies

Claimed(c) == claims[c] > now

\* Mutant of Enter: whether the comment is claimed is not looked at.
EnterWithoutClaim(p, o, c, verb, named) ==
  /\ anonymous' = anonymous \union (IF verb = "add" /\ ~named THEN {c} \intersect OwnReplies ELSE {})
  /\ IF verb = "add" /\ ~IsOwn(c, named)
     THEN /\ claims' = [claims EXCEPT ![c] = now + ClaimTtl]
          /\ handling' = [handling EXCEPT ![p][o] = At(c, "asking", <<>>, {})]
     ELSE UNCHANGED <<claims, handling>>

\* The verb, the author and the claim, in this order; the claim is atomic.
Enter(p, o, c, verb, named) ==
  /\ anonymous' = anonymous \union (IF verb = "add" /\ ~named THEN {c} \intersect OwnReplies ELSE {})
  /\ IF verb = "add" /\ ~IsOwn(c, named) /\ ~Claimed(c)
     THEN /\ claims' = [claims EXCEPT ![c] = now + ClaimTtl]
          /\ handling' = [handling EXCEPT ![p][o] = At(c, "asking", <<>>, {})]
     ELSE UNCHANGED <<claims, handling>>

WellFormed(answer) == {i \in DOMAIN answer.actions : answer.actions[i] # "malformed"}

Wanted(answer) == {i \in WellFormed(answer) : answer.actions[i] # "silence"}

\* Mutant of Normalized: a silence flag beside actions is not heeded.
NormalizedByActions(answer) == Wanted(answer)

\* normalizeCommentChatResponse: a silence flag voids the actions beside it.
Normalized(answer) == IF answer.silence THEN {} ELSE Wanted(answer)

EndpointAnswers(p, o, answer) ==
  LET c == handling[p][o].comment
  IN  /\ handling[p][o].stage = "asking"
      /\ handling' = [handling EXCEPT ![p][o] =
           IF Normalized(answer) = {} THEN Idle
           ELSE At(c, "acting", answer.actions, Normalized(answer))]
      /\ asked' = [asked EXCEPT ![c] = @ + 1]
      /\ UNCHANGED <<channel, now, published, recent, claims, sweep, stopped, anonymous, acted>>

\* A timeout, an HTTP error or a body that is no object: the comment is done with.
EndpointFails(p, o) ==
  /\ handling[p][o].stage = "asking"
  /\ handling' = [handling EXCEPT ![p][o] = Idle]
  /\ asked' = [asked EXCEPT ![handling[p][o].comment] = @ + 1]
  /\ UNCHANGED <<channel, now, published, recent, claims, sweep, stopped, anonymous, acted>>

\* The actions are awaited one by one.
NextActions(p, o) == {i \in handling[p][o].left : \A j \in handling[p][o].left : i <= j}

ActionDone(p, o, i) ==
  LET left == handling[p][o].left \ {i}
  IN  handling' = [handling EXCEPT ![p][o] = IF left = {} THEN Idle ELSE [@ EXCEPT !.left = left]]

\* Instagram has no like: one that is asked for is passed over.
Supported(action) == action = "like" => channel = "messenger"

\* One action; a reply appears under the post as a comment of ours (OwnReplies
\* bounds how many there are).
Act(p, o, i) ==
  LET c == handling[p][o].comment
      action == handling[p][o].actions[i]
  IN  /\ handling[p][o].stage = "acting"
      /\ ActionDone(p, o, i)
      /\ acted' = [acted EXCEPT ![c] = IF Supported(action) THEN Append(@, action) ELSE @]
      /\ IF action = "reply"
         THEN \E r \in OwnReplies \ published : published' = published \union {r}
         ELSE UNCHANGED published
      /\ UNCHANGED <<channel, now, recent, claims, sweep, stopped, anonymous, asked>>

\* Each action fails alone.
ActionFails(p, o, i) ==
  /\ handling[p][o].stage = "acting"
  /\ ActionDone(p, o, i)
  /\ UNCHANGED <<channel, now, published, recent, claims, sweep, stopped, anonymous, asked, acted>>

-----------------------------------------------------------------------------
(* The two ways in *)

\* A webhook of a comment, once or more, about its creation or a later edit, with or
\* without its author's id.
WebhookArrives(p, c) ==
  /\ c \in published
  /\ Free(p, "webhook")
  /\ \E verb \in {"add", "edited"}, named \in BOOLEAN : Enter(p, "webhook", c, verb, named)
  /\ UNCHANGED <<channel, now, published, recent, sweep, stopped, asked, acted>>

IsYoung == now <= Lookback

\* What the first page of the post's comments may be; no further page is asked for.
Pages ==
  {page \in SUBSET published :
     Cardinality(page) <= PageSize /\ (page = published \/ Cardinality(page) = PageSize)}

\* Mutant of Sweep: a poller sweeps once and is not scheduled again.
SweepOnce(p) ==
  /\ channel = "instagram"
  /\ p \notin stopped
  /\ sweep[p] = {}
  /\ Free(p, "poll")
  /\ IsYoung /\ recent
  /\ \E page \in Pages : sweep' = [sweep EXCEPT ![p] = page]
  /\ stopped' = stopped \union {p}
  /\ stopped' # Processes
  /\ UNCHANGED <<channel, now, published, recent, claims, handling, anonymous, asked, acted>>

\* The first page of the post's comments is listed; an old post is left out, and
\* so is one that is not among the newest, and one when the poller was stopped since
\* the sweep began.
Sweep(p) ==
  /\ channel = "instagram"
  /\ p \notin stopped
  /\ sweep[p] = {}
  /\ Free(p, "poll")
  /\ IsYoung /\ recent
  /\ \E page \in Pages : sweep' = [sweep EXCEPT ![p] = page]
  /\ UNCHANGED <<channel, now, published, recent, claims, handling, stopped, anonymous, asked, acted>>

\* The comments of a list are handled one after the other; a record may be without
\* its author's id.
HandOver(p, c) ==
  /\ c \in sweep[p]
  /\ Free(p, "poll")
  /\ sweep' = [sweep EXCEPT ![p] = @ \ {c}]
  /\ \E named \in BOOLEAN : Enter(p, "poll", c, "add", named)
  /\ UNCHANGED <<channel, now, published, recent, stopped, asked, acted>>

\* A sweep that is under way runs to the end of its list.
Stop(p) ==
  /\ stopped' = stopped \union {p}
  /\ UNCHANGED <<channel, now, published, recent, claims, handling, sweep, anonymous, asked, acted>>

-----------------------------------------------------------------------------

Handle(p, o) ==
  \/ \E answer \in Answers[channel] : EndpointAnswers(p, o, answer)
  \/ EndpointFails(p, o)
  \/ \E i \in NextActions(p, o) : Act(p, o, i) \/ ActionFails(p, o, i)

Next ==
  \/ \E c \in Ids : Publish(c)
  \/ PublishMedia
  \/ Tick
  \/ \E p \in Processes :
       \/ \E o \in Origins : Handle(p, o)
       \/ \E c \in Ids : WebhookArrives(p, c) \/ HandOver(p, c)
       \/ Sweep(p)
       \/ Stop(p)

Spec == Init /\ [][Next]_vars

\* Calls end; a poller that is not stopped sweeps again and again and hands its
\* list over.  No webhook need arrive.
Fairness ==
  \A p \in Processes :
    /\ \A o \in Origins : WF_vars(Handle(p, o))
    /\ WF_vars(Sweep(p))
    /\ \A c \in Ids : WF_vars(HandOver(p, c))

FairSpec == Spec /\ Fairness

-----------------------------------------------------------------------------
(* Properties *)

\* "The agent's store-backed dedupe filters everything already seen - by an
\* earlier sweep or by a webhook delivery" (ig-poller.ts), and "allowlist-of-self"
\* (agent.ts): the endpoint is asked of a comment at most once, on whichever
\* replica and by whichever way, and of a reply of ours never, unless some delivery
\* of it was without the author's id.
AskedAtMostOnce ==
  /\ \A c \in Ids : asked[c] <= 1
  /\ \A c \in OwnReplies \ anonymous : asked[c] = 0 /\ acted[c] = <<>>

\* s is t with some members left out.
IsPartOf(s, t) ==
  \E f \in [DOMAIN s -> DOMAIN t] :
    /\ \A i, j \in DOMAIN s : i < j => f[i] < f[j]
    /\ \A i \in DOMAIN s : s[i] = t[f[i]]

\* What is done on a comment is what one answer asked for, in its order, less
\* what failed or the channel lacks; silence beside actions is silence.
ActsAsOneAnswer ==
  \A c \in Ids :
    acted[c] = <<>> \/ \E a \in Answers[channel] :
      /\ ~a.silence
      /\ IsPartOf(acted[c], a.actions)

\* The poller does not see all that lies under the posts of the account.
OutOfSight == ~IsYoung \/ ~recent \/ Cardinality(published) > PageSize

\* A comment that no webhook reports is found by Instagram's poller, while the post is
\* young and among the newest, its comments fill no second page, and some poller runs.
EveryCommentIsAsked ==
  \A c \in Comments :
    channel = "instagram" /\ c \in published ~> asked[c] > 0 \/ OutOfSight \/ stopped = Processes
=============================================================================
