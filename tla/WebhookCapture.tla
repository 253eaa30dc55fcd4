--------------------------- MODULE WebhookCapture ---------------------------
(***************************************************************************)
(* The capture server (src/scripts/lib/capture-server.ts) under its two    *)
(* scripts: fixture-capture.ts, which saves every webhook as it arrives,   *)
(* and guided-capture.ts, which walks the scenarios of a channel, waits    *)
(* for a webhook that matches the current one, and saves that.             *)
(***************************************************************************)
EXTENDS Naturals, Sequences, FiniteSets, SequencesExt

CONSTANTS
  Hooks,     \* the webhooks the platform sends, in any order
  Guided,    \* which of the two scripts
  Scenarios, \* of the guided walk, in order
  Fits,      \* pairs: a webhook the predicate of a scenario accepts
  Stamp      \* of each webhook: the name of its file, a moment and a type

CaptureAssumption ==
  /\ Guided \in BOOLEAN
  /\ IsFiniteSet(Hooks) /\ "skipped" \notin Hooks /\ Hooks \subseteq DOMAIN Stamp

VARIABLES
  stage,    \* of main(): "registering", "running", "closed"
  acked,    \* webhooks that got their 200
  heard,    \* those of them a subscriber was told of
  saving,   \* of each webhook being saved: the path found free, or Looking
  files,    \* of each path: the webhook in it
  unsaved,  \* webhooks whose save failed and was reported
  queue,    \* guided: captures not yet matched
  step,     \* guided: the current scenario
  mode,     \* guided: "next", "waiting", "asking", "retrying", "saving"
  waiter,   \* guided: a delivery wakes the walk up
  outcomes  \* guided: of the scenarios gone through

vars == <<stage, acked, heard, saving, files, unsaved, queue, step, mode, waiter, outcomes>>

walk == <<step, mode, waiter, outcomes>>

Looking == <<"looking", 0>>

\* firstAvailablePath: the name, else the name with a number.
Path(name, n) == <<name, n>>

Free(name) == CHOOSE p \in {Path(name, n) : n \in 0..Cardinality(Hooks)}:
  /\ p \notin DOMAIN files
  /\ \A m \in 0..(p[2] - 1): Path(name, m) \in DOMAIN files

Init ==
  /\ stage = "registering"
  /\ acked = {} /\ heard = {}
  /\ saving = <<>> /\ files = <<>> /\ unsaved = {}
  /\ queue = <<>>
  /\ step = 1 /\ mode = "next" /\ waiter = FALSE
  /\ outcomes = <<>>

With(f, x, y) == [z \in DOMAIN f \cup {x} |-> IF z = x THEN y ELSE f[z]]

Without(f, x) == [z \in DOMAIN f \ {x} |-> f[z]]

-----------------------------------------------------------------------------
(* The server *)

\* The subscriber: the walk's queue and its waiter, or a save of its own.
Tell(h) ==
  /\ heard' = heard \cup {h}
  /\ IF Guided
     THEN queue' = Append(queue, h) /\ waiter' = FALSE /\ UNCHANGED saving
     ELSE saving' = With(saving, h, Looking) /\ UNCHANGED <<queue, waiter>>

\* POST /webhook: the 200, the parser, the ring, the subscribers there are.
Deliver(h) ==
  /\ stage # "closed" /\ h \notin acked
  /\ acked' = acked \cup {h}
  /\ IF stage = "running" THEN Tell(h) ELSE UNCHANGED <<heard, queue, waiter, saving>>
  /\ UNCHANGED <<stage, files, unsaved, step, mode, outcomes>>

\* registerAllWebhooks is awaited with the server listening; only then does the
\* script subscribe.
Subscribe ==
  /\ stage = "registering"
  /\ stage' = "running"
  /\ UNCHANGED <<acked, heard, saving, files, unsaved, queue, walk>>

Close ==
  /\ stage = "running"
  /\ Guided => step > Len(Scenarios)
  /\ stage' = "closed"
  /\ UNCHANGED <<acked, heard, saving, files, unsaved, queue, walk>>

-----------------------------------------------------------------------------
(* saveCapture, writeWrapped: two awaits *)

Find(h) ==
  /\ h \in DOMAIN saving /\ saving[h] = Looking
  /\ saving' = With(saving, h, Free(Stamp[h]))
  /\ UNCHANGED <<stage, acked, heard, files, unsaved, queue, walk>>

WriteFile(h) ==
  /\ h \in DOMAIN saving /\ saving[h] # Looking
  /\ files' = With(files, saving[h], h)
  /\ saving' = Without(saving, h)
  /\ IF Guided
     THEN /\ outcomes' = Append(outcomes, <<step, h>>)
          /\ step' = step + 1 /\ mode' = "next"
          /\ UNCHANGED waiter
     ELSE UNCHANGED walk
  /\ UNCHANGED <<stage, acked, heard, unsaved, queue>>

\* An await throws.  The passive script reports it and listens on; the guided one
\* ends with it, and closes the server.
SaveFails(h) ==
  /\ h \in DOMAIN saving
  /\ saving' = Without(saving, h)
  /\ unsaved' = unsaved \cup {h}
  /\ stage' = IF Guided THEN "closed" ELSE stage
  /\ UNCHANGED <<acked, heard, files, queue, walk>>

-----------------------------------------------------------------------------
(* The walk *)

Matches == {i \in DOMAIN queue: <<queue[i], Scenarios[step]>> \in Fits}

\* popFirstMatching: out of the queue; the others stay in it for later scenarios.
Take(i) ==
  /\ queue' = RemoveAt(queue, i)
  /\ saving' = With(saving, queue[i], Looking)
  /\ mode' = "saving"

TakeFirst == \E i \in Matches: (\A j \in Matches: i <= j) /\ Take(i)

\* Mutant of Await: only a new delivery is looked at.
AwaitNew ==
  /\ waiter' = TRUE /\ mode' = "waiting"
  /\ UNCHANGED <<queue, saving>>

\* waitForScenario, up to its await: what is buffered is looked at first.
Await ==
  IF Matches # {}
  THEN TakeFirst /\ UNCHANGED waiter
  ELSE waiter' = TRUE /\ mode' = "waiting" /\ UNCHANGED <<queue, saving>>

Begin ==
  /\ Guided /\ stage = "running"
  /\ step <= Len(Scenarios)
  /\ mode = "next"
  /\ Await
  /\ UNCHANGED <<stage, acked, heard, files, unsaved, step, outcomes>>

\* A delivery resolved the race: the queue is looked at, and the walk waits again.
Wake ==
  /\ mode \in {"waiting", "rewaiting"} /\ ~waiter
  /\ IF Matches # {}
     THEN TakeFirst /\ UNCHANGED waiter
     ELSE waiter' = TRUE /\ UNCHANGED <<mode, queue, saving>>
  /\ UNCHANGED <<stage, acked, heard, files, unsaved, step, outcomes>>

GiveUp ==
  /\ outcomes' = Append(outcomes, <<step, "skipped">>)
  /\ step' = step + 1 /\ mode' = "next" /\ waiter' = FALSE

\* "skip" is typed while the walk waits; or the second wait times out.
Skip ==
  /\ mode \in {"waiting", "rewaiting"}
  /\ GiveUp
  /\ UNCHANGED <<stage, acked, heard, saving, files, unsaved, queue>>

\* The first wait times out and the operator is asked.
Expire ==
  /\ mode = "waiting"
  /\ mode' = "asking"
  /\ UNCHANGED <<stage, acked, heard, saving, files, unsaved, queue, step, waiter, outcomes>>

Answer(retry) ==
  /\ mode = "asking"
  /\ IF ~retry
     THEN GiveUp /\ UNCHANGED <<queue, saving>>
     ELSE /\ UNCHANGED <<step, outcomes>>
          /\ IF Matches # {}
             THEN TakeFirst /\ waiter' = FALSE
             ELSE waiter' = TRUE /\ mode' = "rewaiting" /\ UNCHANGED <<queue, saving>>
  /\ UNCHANGED <<stage, acked, heard, files, unsaved>>

Next ==
  \/ Subscribe \/ Close \/ Begin \/ Wake \/ Skip \/ Expire
  \/ \E h \in Hooks: Deliver(h) \/ Find(h) \/ WriteFile(h) \/ SaveFails(h)
  \/ \E retry \in BOOLEAN: Answer(retry)

Spec == Init /\ [][Next]_vars

-----------------------------------------------------------------------------
Saved(h) == \E p \in DOMAIN files: files[p] = h

\* While the walk waits and no delivery has woken it, nothing in its queue fits the
\* scenario: no delivery is missed between two waits, during a save, or while the
\* operator is asked.
NoneIsMissed == waiter /\ mode \in {"waiting", "rewaiting"} => Matches = {}

\* One webhook serves one scenario, and one that it fits.
ServesOne == \A i, j \in DOMAIN outcomes:
  outcomes[i][2] \in Hooks =>
    /\ <<outcomes[i][2], Scenarios[outcomes[i][1]]>> \in Fits
    /\ i # j => outcomes[i][2] # outcomes[j][2]

\* What the passive script was told of is in a file, on its way there, or reported
\* as not saved.
HeardIsKept == ~Guided => \A h \in heard: h \in DOMAIN saving \cup unsaved \/ Saved(h)
=============================================================================
