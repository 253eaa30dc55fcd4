--------------------------- MODULE ReactionSweep ---------------------------
(***************************************************************************)
(* The emoji sweep of the outbound probe (src/scripts/setup/               *)
(* reaction-sweep.ts) beside the device it wants to learn about: Meta      *)
(* accepts a reaction and may render another one, or nothing, and only the *)
(* operator sees which.  One emoji after the other under one message, with *)
(* a question each, or one emoji per message, with the answers given       *)
(* afterwards on a worksheet.                                              *)
(***************************************************************************)
EXTENDS Naturals, Sequences, FiniteSets, FiniteSetsExt

CONSTANTS
  Swept,      \* the channels, in the order of the sweep
  Emojis,     \* the list, without repetitions
  None        \* no reaction, no channel

SweepAssumption ==
  /\ Swept \in Seq({Swept[i] : i \in DOMAIN Swept}) /\ \A i \in DOMAIN Swept: Swept[i] # None
  /\ \A i, j \in DOMAIN Swept: Swept[i] = Swept[j] => i = j
  /\ Emojis \in Seq({Emojis[i] : i \in DOMAIN Emojis})
  /\ \A i \in DOMAIN Emojis: Emojis[i] # None

VARIABLES
  batch,     \* one emoji per message
  noPrompt,
  captured,  \* of each channel: the messages there are to react to
  at,        \* the channel and the emoji of the sweep, or Over
  stage,     \* "clear", "send", "ask", "leave", "answers", "reported"
  cleared,   \* Meta accepted the clear before this reaction
  lingers,   \* auxiliary: it did, and the reaction before this one stayed all the same
  shown,     \* what the device shows under each message
  rows,      \* of each channel: the outcomes so far
  drawn,     \* auxiliary: of each outcome, its own send rendered as sent, or it lingers
  thread,    \* auxiliary: the channel the answers of the worksheet were read on
  verdict    \* summarizeSweep: the emojis of each kind

vars ==
  <<batch, noPrompt, captured, at, stage, cleared, lingers, shown, rows, drawn, thread, verdict>>

Channels == {Swept[i] : i \in DOMAIN Swept}

NoVerdict == [everywhere |-> {}, partial |-> {}, never |-> {}]

Channel == Swept[at[1]]

Emoji == Emojis[at[2]]

\* The message an emoji goes to.
Message == IF batch THEN at[2] ELSE 1

\* How many emojis a channel gets: none without a message, and in a batch no more
\* than it has messages.
PairCount(c) ==
  IF batch THEN Min({captured[c], Len(Emojis)})
  ELSE IF captured[c] = 0 THEN 0 ELSE Len(Emojis)

\* The next channel with something to sweep.
From(i) == {j \in i..Len(Swept): PairCount(Swept[j]) > 0}

Start == IF batch THEN "send" ELSE "clear"

Init ==
  /\ batch \in BOOLEAN /\ noPrompt \in BOOLEAN
  /\ captured \in [Channels -> 0..Len(Emojis)]
  /\ \A c \in Channels: ~batch => captured[c] < 2
  /\ at = <<1, 0>>
  /\ stage = "leave"
  /\ cleared = TRUE /\ lingers = FALSE
  /\ shown = [c \in Channels |-> [m \in 1..Len(Emojis) |-> None]]
  /\ rows = [c \in Channels |-> <<>>]
  /\ drawn = [c \in Channels |-> <<>>]
  /\ thread = None
  /\ verdict = NoVerdict

-----------------------------------------------------------------------------
(* The device *)

\* A clear may empty the message or not, whatever its answer was.
Unreact(emptied) == shown' = IF emptied THEN [shown EXCEPT ![Channel][1] = None] ELSE shown

\* The reactions an accepted send of e may leave under the message: the emoji
\* itself, another one, or what was there before.
Rendered(e) == {Emojis[i] : i \in DOMAIN Emojis} \cup {shown[Channel][Message]}

-----------------------------------------------------------------------------
(* runReactionSweep, runBatchSweep *)

\* Mutant of ClearFirst: a clear that failed is not remembered.
ClearAnyhow(accepted, emptied) ==
  /\ stage = "clear"
  /\ Unreact(emptied)
  /\ cleared' = TRUE
  /\ lingers' = (accepted /\ ~emptied)
  /\ stage' = "send"
  /\ UNCHANGED <<batch, noPrompt, captured, at, rows, drawn, thread, verdict>>

ClearFirst(accepted, emptied) ==
  /\ stage = "clear"
  /\ Unreact(emptied)
  /\ cleared' = accepted
  /\ lingers' = (accepted /\ ~emptied)
  /\ stage' = "send"
  /\ UNCHANGED <<batch, noPrompt, captured, at, rows, drawn, thread, verdict>>

Row(accepted, rendered) ==
  rows' = [rows EXCEPT ![Channel] = Append(@, [emoji |-> Emoji, accepted |-> accepted, rendered |-> rendered])]

\* The next emoji of the channel, else the end of the channel.
GoOn ==
  IF at[2] < PairCount(Channel)
  THEN at' = <<at[1], at[2] + 1>> /\ stage' = Start
  ELSE stage' = "leave" /\ UNCHANGED at

Refused ==
  /\ stage = "send"
  /\ Row(FALSE, "nothing")
  /\ drawn' = [drawn EXCEPT ![Channel] = Append(@, FALSE)]
  /\ GoOn
  /\ UNCHANGED <<batch, noPrompt, captured, cleared, lingers, shown, thread, verdict>>

\* The operator is asked unless nobody is there, or what is on the screen may be of
\* an earlier send.
Accepted(reaction) ==
  /\ stage = "send"
  /\ reaction \in Rendered(Emoji)
  /\ shown' = [shown EXCEPT ![Channel][Message] = reaction]
  /\ \E own \in BOOLEAN:
       /\ own => reaction = Emoji
       /\ reaction # shown[Channel][Message] => own = (reaction = Emoji)
       /\ drawn' = [drawn EXCEPT ![Channel] = Append(@, own \/ lingers)]
  /\ IF ~batch /\ ~noPrompt /\ cleared
     THEN stage' = "ask" /\ UNCHANGED <<at, rows>>
     ELSE Row(TRUE, "unverified") /\ GoOn
  /\ UNCHANGED <<batch, noPrompt, captured, cleared, lingers, thread, verdict>>

\* What the operator says of a reaction that should be e.
Reading(reaction, e) ==
  IF reaction = e THEN "as-sent" ELSE IF reaction = None THEN "nothing" ELSE "substituted"

Ask ==
  /\ stage = "ask"
  /\ Row(TRUE, Reading(shown[Channel][1], Emoji))
  /\ GoOn
  /\ UNCHANGED <<batch, noPrompt, captured, cleared, lingers, shown, drawn, thread, verdict>>

\* The last reaction is cleared, or not; the next channel.
Leave(emptied) ==
  /\ stage = "leave"
  /\ Unreact(emptied /\ ~batch)
  /\ LET i == IF at[2] = 0 THEN 1 ELSE at[1] + 1
     IN IF From(i) # {}
        THEN at' = <<Min(From(i)), 1>> /\ stage' = Start
        ELSE stage' = "answers" /\ UNCHANGED at
  /\ UNCHANGED <<batch, noPrompt, captured, cleared, lingers, rows, drawn, thread, verdict>>

-----------------------------------------------------------------------------
(* runApplyMode, applyBatchAnswers, summarizeSweep *)

SweptChannels == {c \in Channels: rows[c] # <<>>}

Deliverable(row) == row.accepted /\ row.rendered = "as-sent"

\* Of all rows of e, on the channels that had one for it.
RowsOf(e, table) ==
  {row \in UNION {{<<c, i>> : i \in DOMAIN table[c]} : c \in Channels}: table[row[1]][row[2]].emoji = e}

Summary(table) ==
  LET Tried == {Emojis[i] : i \in {j \in DOMAIN Emojis: RowsOf(Emojis[j], table) # {}}}
      Good(e) == {row \in RowsOf(e, table): Deliverable(table[row[1]][row[2]])}
  IN [everywhere |-> {e \in Tried: Good(e) = RowsOf(e, table)},
      partial |-> {e \in Tried: Good(e) # {} /\ Good(e) # RowsOf(e, table)},
      never |-> {e \in Tried: Good(e) = {}}]

Report(table) ==
  /\ rows' = table
  /\ verdict' = Summary(table)
  /\ stage' = "reported"
  /\ UNCHANGED <<batch, noPrompt, captured, at, cleared, lingers, shown, drawn>>

\* A sweep with its answers on the way is reported at its end.
ReportSweep ==
  /\ stage = "answers" /\ ~batch
  /\ Report(rows)
  /\ UNCHANGED thread

\* A row that Meta rejected ignores any answer; a row without one stays unverified.
Applied(row, answer) ==
  IF ~row.accepted \/ answer = "" THEN row ELSE [row EXCEPT !.rendered = answer]

\* The operator reads the thread of one channel, leaves rows out and, at a rejected
\* row, may say anything; the answers go to the rows of that number on every channel.
Apply(c, given, slip) ==
  /\ stage = "answers" /\ batch
  /\ c \in SweptChannels
  /\ thread' = c
  /\ LET answer(i) ==
           IF i \notin given \/ i \notin DOMAIN rows[c] THEN ""
           ELSE IF rows[c][i].accepted THEN Reading(shown[c][i], rows[c][i].emoji) ELSE slip
     IN /\ \A d \in SweptChannels: \A i \in given: i <= Len(rows[d])
        /\ Report([d \in Channels |-> [i \in DOMAIN rows[d] |-> Applied(rows[d][i], answer(i))]])

Next ==
  \/ \E accepted, emptied \in BOOLEAN: ClearFirst(accepted, emptied)
  \/ \E emptied \in BOOLEAN: Leave(emptied)
  \/ Refused
  \/ \E i \in DOMAIN Emojis: Accepted(Emojis[i])
  \/ Accepted(None)
  \/ Ask
  \/ ReportSweep
  \/ \E c \in Channels, given \in SUBSET DOMAIN Emojis, slip \in {"as-sent", "nothing"}: Apply(c, given, slip)

Spec == Init /\ [][Next]_vars

-----------------------------------------------------------------------------
\* "An API accept that rendered nothing is a silent drop": an emoji counts as
\* delivered only if its own send put it on the screen, whatever was dropped, replaced,
\* refused or could not be cleared before it, and however late the answers came.  Two
\* readings are of something else and left out: of a message that an accepted clear
\* had not emptied, and of another channel's rows than the operator read.
DeliveredWasDrawn ==
  \A c \in Channels: thread \in {None, c} =>
    \A i \in DOMAIN rows[c]: Deliverable(rows[c][i]) => drawn[c][i]

=============================================================================
