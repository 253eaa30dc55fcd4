------------------------- MODULE WebhookRegistration -------------------------
(***************************************************************************)
(* The script that subscribes the app to the webhooks of every account:    *)
(* src/scripts/setup/register-webhooks.ts over src/scripts/lib/graph-api.ts. *)
(* It is run again after a failure, an interruption or an edit of .env.     *)
(***************************************************************************)
EXTENDS FiniteSets, Naturals, SequencesExt

CONSTANTS
  Order,     \* the channels, in the order of buildRunners
  Names,     \* of each channel: a sequence of account names, Bare first
  Bare,      \* the account of the unsuffixed lines
  App,       \* stands for the app, where a call is about no account
  NoWaba,    \* the WhatsApp accounts whose WABA id is not set
  MaxRuns    \* runs of the script (bound)

RegistrationAssumption ==
  /\ \A c \in DOMAIN Names : Names[c] # <<>> /\ Head(Names[c]) = Bare
  /\ Range(Order) = DOMAIN Names
  /\ \A c \in DOMAIN Names : App \notin Range(Names[c])

VARIABLES
  stage,      \* of runCli: "start", "asking", "calling", "done"
  accounts,   \* of each channel: the names that .env declares
  hasAppId,   \* META_APP_ID is set
  calls,      \* what is left to call Meta for: <<channel, account>>
  results,    \* <<channel, account, status>>
  exit,       \* the exit code, or "running"
  subscribed, \* at Meta: the accounts whose events reach the app
  callback,   \* at Meta: the Page webhook of the app is this callback URL
  runs        \* auxiliary: runs so far

vars == <<stage, accounts, hasAppId, calls, results, exit, subscribed, callback, runs>>

meta == <<subscribed, callback>>

environment == <<accounts, hasAppId>>

Channels == Range(Order)

\* What loadConfig accepts: some channel has an account; the bare one need not be among them.
Environments == {a \in [Channels -> SUBSET UNION {Range(Names[c]) : c \in Channels}] :
  /\ \A c \in Channels : a[c] \subseteq Range(Names[c])
  /\ \E c \in Channels : a[c] # {}}

Init ==
  /\ stage = "start" /\ exit = "running"
  /\ accounts \in Environments /\ hasAppId \in BOOLEAN
  /\ calls = {} /\ results = {}
  /\ subscribed = {} /\ callback = FALSE
  /\ runs = 1

-----------------------------------------------------------------------------
(* The command line *)

\* --help, --inspect, and what ends the script before it asks: no configuration,
\* no callback URL.
Leave ==
  /\ stage = "start"
  /\ \/ exit' = "ok" \/ exit' = "error"
  /\ stage' = "done"
  /\ UNCHANGED <<environment, calls, results, meta, runs>>

Ask ==
  /\ stage = "start"
  /\ stage' = "asking"
  /\ UNCHANGED <<environment, calls, results, exit, meta, runs>>

Decline ==
  /\ stage = "asking"
  /\ exit' = "ok" /\ stage' = "done"
  /\ UNCHANGED <<environment, calls, results, meta, runs>>

\* A channel has a runner when its bare account is configured; the runner then
\* goes through all its accounts, Messenger's after the app.
HasRunner(c) == Bare \in accounts[c]

CallsOf(c) ==
  IF ~HasRunner(c) THEN {}
  ELSE {<<c, n>> : n \in accounts[c]} \union (IF c = "messenger" THEN {<<c, App>>} ELSE {})

Proceed ==
  /\ stage = "asking"
  /\ IF hasAppId
       THEN /\ calls' = UNION {CallsOf(c) : c \in Channels}
            /\ results' = {<<c, App, "skipped">> : c \in {d \in Channels : ~HasRunner(d)}}
            /\ stage' = "calling" /\ UNCHANGED exit
       ELSE exit' = "error" /\ stage' = "done" /\ UNCHANGED <<calls, results>>
  /\ UNCHANGED <<environment, meta, runs>>

-----------------------------------------------------------------------------
(* The calls *)

\* The runners are run in order, and go through their accounts in order.
ComesBefore(x, y) ==
  \/ \E i, j \in DOMAIN Order : i < j /\ Order[i] = x[1] /\ Order[j] = y[1]
  \/ /\ x[1] = y[1]
     /\ \/ x[2] = App /\ y[2] # App
        \/ \E i, j \in DOMAIN Names[x[1]] : i < j /\ Names[x[1]][i] = x[2] /\ Names[x[1]][j] = y[2]

IsNext(call) == \A other \in calls : ~ComesBefore(other, call)

\* Meta applies the call or not; an answer that is lost is an error to graphFetch.
Applied(call) ==
  IF call[2] = App THEN callback' = TRUE /\ UNCHANGED subscribed
  ELSE subscribed' = subscribed \union {call} /\ UNCHANGED callback

Succeed ==
  /\ stage = "calling"
  /\ \E call \in calls :
       /\ IsNext(call) /\ call \notin NoWaba
       /\ Applied(call)
       /\ results' = IF call[2] = App THEN results
                     ELSE results \union {<<call[1], call[2], "success">>}
       /\ calls' = calls \ {call}
  /\ UNCHANGED <<stage, environment, exit, runs>>

\* The app's call comes before the pages'; without it none of them is made.
Dropped(call) == IF call[2] = App THEN {c \in calls : c[1] = "messenger"} ELSE {}

\* A WhatsApp error is reported as a manual step.
ErrorStatus(call) == IF call[1] = "whatsapp" THEN "manual" ELSE "failed"

\* Mutant of Manual: a refusal that asks for the dashboard counts as done.
ManualIsFine == {"skipped"}

Manual == {"manual"}

\* The app's call may be refused in a way that asks for the dashboard.
Fail ==
  /\ stage = "calling"
  /\ \E call \in calls :
       /\ IsNext(call) /\ call \notin NoWaba
       /\ \/ UNCHANGED meta
          \/ Applied(call)
       /\ \E status \in {ErrorStatus(call)} \union (IF call[2] = App THEN Manual ELSE {}) :
            results' = results \union {<<call[1], call[2], status>>}
       /\ calls' = calls \ ({call} \union Dropped(call))
  /\ UNCHANGED <<stage, environment, exit, runs>>

WithoutWaba ==
  /\ stage = "calling"
  /\ \E call \in calls :
       /\ IsNext(call) /\ call \in NoWaba
       /\ results' = results \union {<<call[1], call[2], "manual">>}
       /\ calls' = calls \ {call}
  /\ UNCHANGED <<stage, environment, exit, meta, runs>>

Finish ==
  /\ stage = "calling" /\ calls = {}
  /\ exit' = IF \E r \in results : r[3] = "failed" THEN "error" ELSE "ok"
  /\ stage' = "done"
  /\ UNCHANGED <<environment, calls, results, meta, runs>>

Interrupt ==
  /\ stage \in {"asking", "calling"}
  /\ stage' = "done" /\ exit' = "error"
  /\ UNCHANGED <<environment, calls, results, meta, runs>>

\* The operator edits .env and runs the script again.
Rerun ==
  /\ stage = "done" /\ runs < MaxRuns
  /\ stage' = "start" /\ exit' = "running"
  /\ accounts' \in Environments /\ hasAppId' \in BOOLEAN
  /\ calls' = {} /\ results' = {}
  /\ runs' = runs + 1
  /\ UNCHANGED meta

Next ==
  \/ Leave \/ Ask \/ Decline \/ Proceed \/ Succeed \/ Fail \/ WithoutWaba \/ Finish
  \/ Interrupt \/ Rerun

Spec == Init /\ [][Next]_vars

-----------------------------------------------------------------------------
(* Properties *)

\* "Webhook registration complete." is printed: exit 0 and only success or skipped.
IsComplete ==
  /\ stage = "done" /\ exit = "ok" /\ results # {}
  /\ \A r \in results : r[3] \in {"success", "skipped"}

Reaches(c) ==
  /\ \A n \in accounts[c] : <<c, n>> \in subscribed
  /\ c = "messenger" /\ accounts[c] # {} => callback

\* When the script says that the registration is complete, every account of a
\* channel it has a runner for is subscribed, and the app's Page webhook is set,
\* whatever earlier runs left at Meta and whichever call failed (the error
\* isolation of the runners and allSucceeded).
CompleteIsSubscribed == IsComplete => \A c \in Channels : HasRunner(c) => Reaches(c)

=============================================================================
