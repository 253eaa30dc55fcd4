--------------------------- MODULE OutboundProbe ---------------------------
(***************************************************************************)
(* The outbound probe (src/scripts/setup/probe-outbound.ts): it sends every *)
(* kind of message the bot can send, to test recipients named in the       *)
(* environment, or to whoever writes to the bot while it listens, channel  *)
(* by channel as they write, or in a batch once they are all done.         *)
(***************************************************************************)
EXTENDS Naturals, Sequences, FiniteSets, SequencesExt, FiniteSetsExt

CONSTANTS
  Targets,  \* the channels, in their order
  Webhooks, \* sequences of messages: [channel, id, kind, account]
  Accounts, \* of each channel, those that are configured; the default one first
  Quota,    \* of a batch: messages of each channel
  None

VARIABLES
  mode,      \* "direct", "arrival", "batch"
  stage,     \* "confirm", "waiting", "settled", "over"
  handled,   \* arrival: the channels that had their message
  collected, \* batch: the messages of each channel
  quiet,     \* batch: the quiet timer is armed
  queue,     \* the runs to do
  running,   \* the run of the worker, or None
  done,      \* of each channel: the outcomes
  sent       \* auxiliary: what went out

vars == <<mode, stage, handled, collected, quiet, queue, running, done, sent>>

Channels == ToSet(Targets)

Messages == UNION {ToSet(w) : w \in Webhooks}

Default(c) == Accounts[c][1]

Op(name, target) == [name |-> name, target |-> target]

\* What a target stands for: none needed, the id of the text that this run sent, or the
\* skip of an operation without a real inbound message.
Free == "free"
Own == "own"
Skip == "skip"
OurText == "our text"

\* planChannelOperations, with an inbound message or without.
Plan(c, target) ==
  LET Or(x) == IF target = None THEN x ELSE target
  IN IF c = "whatsapp"
     THEN <<Op("template", Free), Op("text", Free), Op("reply", Or(Own)), Op("reaction", Or(Own)),
            Op("typing", Or(Skip)), Op("read", Or(Skip))>>
     ELSE <<Op("text", Free), Op("typing", Free), Op("read", Free),
            Op("reply", Or(Own)), Op("reaction", Or(Own))>>

Run(c, account, ops) == [channel |-> c, account |-> account, ops |-> ops, own |-> None]

Runs ==
  LET operations == [name: {"template", "text", "reply", "reaction", "typing", "read"},
                     target: {m.id : m \in Messages} \cup {Free, Own, Skip, "flag"}]
  IN  [channel: Channels, account: UNION {ToSet(Accounts[c]) : c \in Channels},
       ops: Seq(operations), own: {None, OurText}]

\* An id is one message's, and a message came in on one account.
ProbeAssumption ==
  /\ Targets \in Seq(STRING) /\ Targets # <<>>
  /\ \A c \in Channels: Accounts[c] \in Seq(STRING) /\ Accounts[c] # <<>>
  /\ \A w \in Webhooks: w \in Seq(Messages)
  /\ \A m, n \in Messages: m.id = n.id /\ m.id # None => m.account = n.account
  /\ None \notin Runs

\* selectChannels: each channel whose recipient is named, with its target flag or without.
Direct(named, flagged) ==
  FlattenSeq([i \in DOMAIN Targets |->
    LET c == Targets[i] IN
    IF c \notin named THEN <<>>
    ELSE <<Run(c, Default(c), Plan(c, IF c \in flagged THEN "flag" ELSE None))>>])

Init ==
  /\ mode \in {"direct", "arrival", "batch"}
  /\ handled = {}
  /\ collected = [c \in Channels |-> <<>>]
  /\ quiet = FALSE
  /\ IF mode = "direct"
     THEN stage = "confirm" /\ \E named, flagged \in SUBSET Channels: queue = Direct(named, flagged)
     ELSE stage = "waiting" /\ queue = <<>>
  /\ running = None
  /\ done = [c \in Channels |-> <<>>]
  /\ sent = {}

\* main: real messages go out only after a yes.
Confirm(yes) ==
  /\ stage = "confirm"
  /\ stage' = IF yes /\ queue # <<>> THEN "settled" ELSE "over"
  /\ queue' = IF yes THEN queue ELSE <<>>
  /\ UNCHANGED <<mode, handled, collected, quiet, running, done, sent>>

-----------------------------------------------------------------------------
(* captureOnArrival *)

\* The messages of s that are in S, in their order.
Keep(s, S) == FoldLeft(LAMBDA kept, m: IF m \in S THEN Append(kept, m) ELSE kept, <<>>, s)

Usable(w, channels) ==
  Keep(w, {m \in ToSet(w): m.channel \in channels /\ m.kind # "echo" /\ m.id # None})

\* pickUsableInbound: a text, else the first message there is.
Pick(w, channels) ==
  LET some == Usable(w, channels)
      texts == Keep(some, {m \in ToSet(some): m.kind = "text"})
  IN IF texts # <<>> THEN texts[1] ELSE some[1]

\* Each channel is handled once; its run is queued for the one worker.  The clients are
\* those of the default accounts.
Arrive(w) ==
  /\ mode = "arrival" /\ stage = "waiting"
  /\ Usable(w, Channels \ handled) # <<>>
  /\ LET m == Pick(w, Channels \ handled)
     IN /\ handled' = handled \cup {m.channel}
        /\ queue' = Append(queue, Run(m.channel, Default(m.channel), Plan(m.channel, m.id)))
  /\ UNCHANGED <<mode, stage, collected, quiet, running, done, sent>>

\* Mutant of TimeOut: the runs under way are not waited for.
TimeOutNow ==
  /\ mode = "arrival" /\ stage = "waiting"
  /\ stage' = "over"
  /\ UNCHANGED <<mode, handled, collected, quiet, queue, running, done, sent>>

\* The safety net: no more messages, but what was queued is done.
TimeOut ==
  /\ mode = "arrival" /\ stage = "waiting"
  /\ stage' = IF running = None /\ queue = <<>> THEN "over" ELSE "settled"
  /\ UNCHANGED <<mode, handled, collected, quiet, queue, running, done, sent>>

-----------------------------------------------------------------------------
(* captureBatch, runBatchMode *)

\* collectUsableInbounds, of one channel.
Incoming(w, c) == Keep(Usable(w, {c}), {m \in ToSet(w): m.kind # "reaction"})

\* mergeCollected: once per id, and no more than the quota.
Merge(old, new) ==
  FoldLeft(LAMBDA all, m: IF Len(all) >= Quota \/ \E i \in DOMAIN all: all[i].id = m.id
                          THEN all ELSE Append(all, m), old, new)

\* The account that the first message came in on; messages to another account are strays.
Sweep(c, messages) ==
  LET account == messages[1].account
      usable == Keep(messages, {m \in ToSet(messages): m.account = account})
  IN IF account \notin ToSet(Accounts[c]) THEN <<>>
     ELSE <<Run(c, account, [i \in DOMAIN usable |-> Op("reaction", usable[i].id)])>>

Settle(all) ==
  /\ queue' = FlattenSeq([i \in DOMAIN Targets |->
       IF all[Targets[i]] = <<>> THEN <<>> ELSE Sweep(Targets[i], all[Targets[i]])])
  /\ stage' = IF queue' = <<>> THEN "over" ELSE "settled"
  /\ quiet' = FALSE

\* Only a message that is new arms the quiet timer again.
Collect(w) ==
  /\ mode = "batch" /\ stage = "waiting"
  /\ LET all == [c \in Channels |-> Merge(collected[c], Incoming(w, c))]
     IN /\ all # collected
        /\ collected' = all
        /\ IF \A c \in Channels: Len(all[c]) >= Quota
           THEN Settle(all)
           ELSE quiet' = TRUE /\ UNCHANGED <<queue, stage>>
  /\ UNCHANGED <<mode, handled, running, done, sent>>

\* The batch settles when it is quiet, but not before every channel has begun.
Quiet ==
  /\ quiet
  /\ IF \E c \in Channels: collected[c] = <<>>
     THEN quiet' = FALSE /\ UNCHANGED <<stage, queue>>
     ELSE Settle(collected)
  /\ UNCHANGED <<mode, handled, collected, running, done, sent>>

BatchTimeOut ==
  /\ mode = "batch" /\ stage = "waiting"
  /\ Settle(collected)
  /\ UNCHANGED <<mode, handled, collected, running, done, sent>>

-----------------------------------------------------------------------------
(* drain, runResolvedChannel *)

Take ==
  /\ running = None /\ queue # <<>> /\ stage # "confirm"
  /\ running' = Head(queue)
  /\ queue' = Tail(queue)
  /\ UNCHANGED <<mode, stage, handled, collected, quiet, done, sent>>

Current == Head(running.ops)

\* The message an operation is about.
Target == IF Current.target = Own THEN running.own ELSE Current.target

Outcome(status, own) ==
  /\ done' = [done EXCEPT ![running.channel] = Append(@, status)]
  /\ running' = [running EXCEPT !.ops = Tail(@), !.own = own]
  /\ UNCHANGED <<mode, stage, handled, collected, quiet, queue>>

SkipOperation ==
  /\ running # None /\ running.ops # <<>>
  /\ Target \in {Skip, None}
  /\ Outcome("skipped", running.own)
  /\ UNCHANGED sent

\* Each operation has its own try: a rejected one ends nothing.
Operate(accepted) ==
  /\ running # None /\ running.ops # <<>>
  /\ Target \notin {Skip, None}
  /\ sent' = sent \cup {[channel |-> running.channel, account |-> running.account,
                         name |-> Current.name, target |-> Target]}
  /\ Outcome(IF accepted THEN "accepted" ELSE "rejected",
             IF accepted /\ Current.name = "text" THEN OurText ELSE running.own)

Finish ==
  /\ running # None /\ running.ops = <<>>
  /\ running' = None
  /\ stage' = IF queue = <<>> /\ (stage = "settled" \/ handled = Channels) THEN "over" ELSE stage
  /\ UNCHANGED <<mode, handled, collected, quiet, queue, done, sent>>

Next ==
  \/ \E yes \in BOOLEAN: Confirm(yes)
  \/ \E w \in Webhooks: Arrive(w) \/ Collect(w)
  \/ TimeOut \/ Quiet \/ BatchTimeOut
  \/ Take \/ SkipOperation \/ Finish
  \/ \E accepted \in BOOLEAN: Operate(accepted)

Spec == Init /\ [][Next]_vars

-----------------------------------------------------------------------------
\* At the end nothing is under way, and each channel that was handled has had its whole
\* plan, once: messages that came during a run, and a timeout during one, lose nothing.
EndIsComplete ==
  stage = "over" =>
    /\ queue = <<>> /\ running = None
    /\ \A c \in handled: Len(done[c]) = Len(Plan(c, Skip))

\* While the probe waits on, it has a reason: a channel that has not written yet, a run
\* under way, or the quiet timer.
WaitsForSomething ==
  stage = "waiting" =>
    IF mode = "batch"
    THEN quiet \/ \E c \in Channels: collected[c] = <<>>
    ELSE handled # Channels \/ queue # <<>> \/ running # None

Mine(s) == \A m \in Messages: m.id = s.target => m.account = s.account

\* "Never a silent send from the wrong page" (runBatchMode): a batch answers a message
\* from the account that it was sent to.
SweptFromItsAccount == mode = "batch" => \A s \in sent: Mine(s)

=============================================================================
