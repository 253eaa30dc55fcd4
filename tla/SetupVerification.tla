-------------------------- MODULE SetupVerification --------------------------
(***************************************************************************)
(* The interactive end-to-end verification: verify-all.ts over             *)
(* verify-shared.ts, verify-whatsapp.ts, verify-messenger.ts and           *)
(* verify-instagram.ts of src/scripts/setup.  One capture server hears the *)
(* webhooks of all channels, while the script goes through the steps of    *)
(* one channel after the other.                                            *)
(***************************************************************************)
EXTENDS FiniteSets, Naturals, SequencesExt

CONSTANTS
  Order,    \* the channels that are verified, in order
  Webhooks, \* what Meta may deliver: [channel, messages], each message [kind, user]
  None      \* no user, no wait

Channels == Range(Order)

\* parser.ts: an echo of a text is of type echo, and its user is whom it was sent to.
Kinds == {"text", "echo", "reaction", "status"}

VerificationAssumption ==
  /\ Order \in Seq({"whatsapp", "messenger", "instagram"}) /\ Order # <<>>
  /\ \A i, j \in DOMAIN Order : Order[i] = Order[j] => i = j
  /\ None \notin Kinds
  /\ \A w \in Webhooks :
       w.channel \in Channels /\ \A i \in DOMAIN w.messages : w.messages[i].kind \in Kinds

VARIABLES
  stage,    \* of main(): "booting", "running", "closed"
  channel,  \* the channel under verification, as an index of Order
  todo,     \* the steps of it that are left
  waiting,  \* the kind of webhook captureExpectedWebhook waits for, or None
  found,    \* a fitting webhook was heard: "no", "before" the wait, or "since"
  captures, \* the webhooks heard in this session
  sender,   \* whom the inbound text came from
  verdicts, \* <<channel, step, status>>
  early     \* auxiliary: waits that began after a fitting webhook: <<channel, kind>>

vars == <<stage, channel, todo, waiting, found, captures, sender, verdicts, early>>

wait == <<waiting, found, early>>

\* WhatsApp's outbound test is a template and needs no inbound text before it.
WhatsAppSteps == <<"config", "token", "webhook", "outbound", "inbound", "reaction">>

MessengerSteps == <<"config", "token", "webhook", "confirm", "inbound", "outbound", "reaction">>

InstagramSteps ==
  <<"config", "token", "webhook", "confirm", "confirm", "inbound", "outbound", "reaction">>

StepsOf(c) ==
  CASE c = "whatsapp"  -> WhatsAppSteps
    [] c = "messenger" -> MessengerSteps
    [] c = "instagram" -> InstagramSteps

Current == Order[channel]

Init ==
  /\ stage = "booting" /\ channel = 1 /\ todo = StepsOf(Order[1])
  /\ waiting = None /\ found = "no"
  /\ captures = {} /\ sender = None /\ verdicts = {} /\ early = {}

-----------------------------------------------------------------------------
(* The capture server *)

\* isInboundTextMessage, isInboundReaction, isOutboundStatus: one of its messages fits.
FitsFor(w, c, kind) == w.channel = c /\ \E i \in DOMAIN w.messages : w.messages[i].kind = kind

\* The server listens from before the webhooks are registered until it is closed;
\* a webhook is kept, and shown to the step that waits.
Deliver(w) ==
  /\ stage # "closed" /\ w \notin captures
  /\ captures' = captures \union {w}
  /\ found' = IF found = "no" /\ waiting # None /\ FitsFor(w, Current, waiting) THEN "since" ELSE found
  /\ UNCHANGED <<stage, channel, todo, waiting, sender, verdicts, early>>

-----------------------------------------------------------------------------
(* bootstrapVerifyContext *)

\* A bad flag, no configuration, a busy port or no tunnel.
Refuse ==
  /\ stage = "booting"
  /\ stage' = "closed"
  /\ UNCHANGED <<channel, todo, wait, captures, sender, verdicts>>

\* The registration may fail, or throw: the script goes on in either case.
Boot ==
  /\ stage = "booting"
  /\ stage' = "running"
  /\ UNCHANGED <<channel, todo, wait, captures, sender, verdicts>>

-----------------------------------------------------------------------------
(* The steps of a channel *)

AtStep(s) == stage = "running" /\ todo # <<>> /\ Head(todo) = s /\ waiting = None

Record(status) == verdicts' = verdicts \union {<<Current, Head(todo), status>>}

\* A failed config or token ends the channel.
Check(s) ==
  /\ AtStep(s)
  /\ \/ Record("pass") /\ todo' = Tail(todo)
     \/ Record("fail") /\ todo' = IF s = "webhook" THEN Tail(todo) ELSE <<>>
  /\ UNCHANGED <<stage, channel, wait, captures, sender>>

\* A confirmation that is not given is skipped, and the channel goes on.
Confirm ==
  /\ AtStep("confirm")
  /\ \/ Record("pass") \/ Record("skip")
  /\ todo' = Tail(todo)
  /\ UNCHANGED <<stage, channel, wait, captures, sender>>

\* Mutant of Heard: only what comes after the prompt counts.
HeardLater(kind) == {}

\* captureExpectedWebhook: the prompt, and a look at what was captured before.
Heard(kind) == {w \in captures : FitsFor(w, Current, kind)}

Expect(kind) ==
  /\ waiting' = kind /\ found' = IF Heard(kind) # {} THEN "before" ELSE "no"
  /\ early' = IF \E w \in captures : FitsFor(w, Current, kind)
              THEN early \union {<<Current, kind>>} ELSE early

BeginInbound ==
  /\ AtStep("inbound")
  /\ Expect("text")
  /\ UNCHANGED <<stage, channel, todo, captures, sender, verdicts>>

\* The operator may decline.
BeginReaction ==
  /\ AtStep("reaction")
  /\ \/ /\ Expect("reaction")
        /\ UNCHANGED <<todo, verdicts>>
     \/ /\ Record("skip") /\ todo' = Tail(todo)
        /\ UNCHANGED wait
  /\ UNCHANGED <<stage, channel, captures, sender>>

\* WhatsApp sends a template and waits for a status, of whichever message.
SendTemplate ==
  /\ AtStep("outbound") /\ Current = "whatsapp"
  /\ \/ Expect("status") /\ UNCHANGED <<todo, verdicts>>
     \/ /\ \/ Record("skip") \/ Record("fail")
        /\ todo' = Tail(todo) /\ UNCHANGED wait
  /\ UNCHANGED <<stage, channel, captures, sender>>

\* The others reply to the sender of the inbound text; Messenger then looks out
\* for the echo, which decides nothing.
Reply ==
  /\ AtStep("outbound") /\ Current # "whatsapp"
  /\ \/ sender # None /\ Record("pass")
     \/ sender # None /\ Record("fail")
     \/ Record("skip")
  /\ todo' = Tail(todo)
  /\ UNCHANGED <<stage, channel, wait, captures, sender>>

FirstTexts(w) ==
  {i \in DOMAIN w.messages :
     w.messages[i].kind = "text" /\ \A j \in 1 .. i - 1 : w.messages[j].kind # "text"}

\* The poll of waitFor sees what the subscription found; its first text names the sender.
EndWait ==
  /\ stage = "running" /\ waiting # None /\ found # "no"
  /\ Record("pass") /\ todo' = Tail(todo)
  /\ IF waiting = "text"
     THEN \E w \in captures :
            FitsFor(w, Current, "text") /\ \E i \in FirstTexts(w) : sender' = w.messages[i].user
     ELSE UNCHANGED sender
  /\ waiting' = None /\ found' = "no"
  /\ UNCHANGED <<stage, channel, captures, early>>

\* waitFor gives up without a last look: what arrives after its last poll is not
\* seen.  What was captured before is returned without a wait.
TimeOut ==
  /\ stage = "running" /\ waiting # None /\ found # "before"
  /\ IF waiting = "reaction" THEN Record("skip") ELSE Record("fail")
  /\ todo' = Tail(todo)
  /\ waiting' = None /\ found' = "no"
  /\ UNCHANGED <<stage, channel, captures, sender, early>>

-----------------------------------------------------------------------------
(* The session *)

\* An unexpected throw in a runner is a failed channel.
Throw ==
  /\ stage = "running" /\ todo # <<>> /\ waiting = None
  /\ verdicts' = verdicts \union {<<Current, "runner", "fail">>}
  /\ todo' = <<>>
  /\ UNCHANGED <<stage, channel, wait, captures, sender>>

NextChannel ==
  /\ stage = "running" /\ todo = <<>> /\ channel < Len(Order)
  /\ channel' = channel + 1 /\ todo' = StepsOf(Order[channel + 1])
  /\ sender' = None
  /\ UNCHANGED <<stage, wait, captures, verdicts>>

Close ==
  /\ stage = "running" /\ todo = <<>> /\ channel = Len(Order)
  /\ stage' = "closed"
  /\ UNCHANGED <<channel, todo, wait, captures, sender, verdicts>>

Next ==
  \/ \E w \in Webhooks : Deliver(w)
  \/ Refuse \/ Boot
  \/ \E s \in {"config", "token", "webhook"} : Check(s)
  \/ Confirm \/ BeginInbound \/ BeginReaction \/ SendTemplate \/ Reply
  \/ EndWait \/ TimeOut \/ Throw \/ NextChannel \/ Close

Spec == Init /\ [][Next]_vars

-----------------------------------------------------------------------------
(* Properties *)

Wrote(u, c) ==
  \E w \in captures :
    w.channel = c /\ \E i \in DOMAIN w.messages : w.messages[i].kind = "text" /\ w.messages[i].user = u

Failed(c) == \E v \in verdicts : v[1] = c /\ v[3] = "fail"

\* "All channels verified.": each of them got past its inbound test with a text
\* of a user on that channel, and nobody but a user who wrote on it was replied to,
\* whatever else, echoes among it, came in the same webhook.
\* A text that came before the prompt, during the steps or the channels before,
\* is not asked for again (captureExpectedWebhook, VerifyResultBuilder.build).
VerdictIsHeard ==
  /\ stage = "closed" /\ verdicts # {} /\ (\A c \in Channels : ~Failed(c)) =>
       \A c \in Channels : \E w \in captures : FitsFor(w, c, "text")
  /\ sender # None => Wrote(sender, Current)
  /\ \A c \in Channels : <<c, "text">> \in early => <<c, "inbound", "fail">> \notin verdicts
=============================================================================
