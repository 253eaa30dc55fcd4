---------------------------- MODULE OAuthCapture ----------------------------
(***************************************************************************)
(* The two scripts that capture an access token through a browser:         *)
(* src/scripts/setup/oauth-messenger.ts and oauth-instagram.ts.  Each opens *)
(* a tunnel, listens for one callback, exchanges the code in steps, and     *)
(* offers to append the token and the id it belongs to to .env.  A token    *)
(* is modelled by the account it belongs to.                                *)
(***************************************************************************)
EXTENDS Naturals, FiniteSets

CONSTANTS
  Accounts,     \* Pages, or Instagram accounts
  None,
  Inexact,      \* an id that no account has
  MaxCallbacks  \* requests to the callback path (bound)

ASSUME OAuthAssumption == {None, Inexact} \cap Accounts = {} /\ None # Inexact

VARIABLES
  onMessenger, \* which of the two scripts runs
  fixedState,  \* INSTAGRAM_AUTHORIZE_URL has a state, the same in every run
  stage,     \* of main()
  tunnel,    \* the ngrok tunnel is open
  listening, \* the callback server listens
  settled,   \* waitForCallback: "no", "code", "error"
  hooked,    \* the shutdown hook is registered
  token,     \* whose token the script holds
  lasts,     \* and whether it is long-lived
  id,        \* the id captured for it
  file,      \* .env: the account of its id line and of its token line
  before,    \* auxiliary: .env at the start
  calls      \* auxiliary: the callbacks that arrived, of earlier runs and of this

vars ==
  <<onMessenger, fixedState, stage, tunnel, listening, settled, hooked, token, lasts, id, file, before, calls>>

capture == <<token, lasts, id>>

resources == <<tunnel, listening, hooked>>

\* .env as the operator left it: empty, with a placeholder, with an id alone, or
\* with a captured pair.
Files == {[id |-> None, token |-> None]}
  \cup {[id |-> a, token |-> None] : a \in Accounts}
  \cup {[id |-> a, token |-> a] : a \in Accounts}

Init ==
  /\ onMessenger \in BOOLEAN
  /\ fixedState \in BOOLEAN /\ (onMessenger => ~fixedState)
  /\ stage = "start"
  /\ tunnel = FALSE /\ listening = FALSE /\ hooked = FALSE
  /\ settled = "no"
  /\ token = None /\ lasts = FALSE /\ id = None
  /\ file \in Files
  /\ before = file
  /\ calls = <<0, 0>>

-----------------------------------------------------------------------------
(* The tunnel and the callback *)

\* A variable is missing, or the tunnel does not open.
Refuse ==
  /\ stage = "start"
  /\ stage' = "done"
  /\ UNCHANGED <<tunnel, listening, settled, hooked, capture, file, before, calls>>

\* Instagram compares the host of the tunnel with that of the embedded URL, and
\* returns before the finally that tears down.
WrongHost ==
  /\ stage = "start" /\ ~onMessenger
  /\ tunnel' = TRUE
  /\ stage' = "done"
  /\ UNCHANGED <<listening, settled, hooked, capture, file, before, calls>>

Open ==
  /\ stage = "start"
  /\ tunnel' = TRUE /\ hooked' = TRUE
  /\ \/ listening' = TRUE /\ settled' = "no" /\ stage' = "waiting"
     \/ listening' = FALSE /\ settled' = "error" /\ stage' = "teardown"  \* the port is taken
  /\ UNCHANGED <<capture, file, before, calls>>

\* finish: the first result counts, whatever else arrives is answered only.
Finish(result) ==
  IF settled # "no"
  THEN UNCHANGED <<settled, stage>>
  ELSE /\ settled' = result
       /\ stage' = IF result = "code" THEN "exchange" ELSE "teardown"

\* What a request to the callback path comes to: an error, another state, no code,
\* or a code.
Result(verified, kind) == IF verified /\ kind = "code" THEN "code" ELSE "error"

\* What the comparison says: of an earlier run the state differs, unless all runs take theirs
\* from .env; the operator may have replaced it since.
VerifyState(ours) == IF ours THEN {TRUE} ELSE {FALSE} \cup {fixedState}

\* Another tab can still be open, of an earlier run.
Callback(ours, kind) ==
  /\ listening
  /\ calls[1] + calls[2] < MaxCallbacks
  /\ calls' = IF ours THEN <<calls[1], calls[2] + 1>> ELSE <<calls[1] + 1, calls[2]>>
  /\ \E verified \in VerifyState(ours) : Finish(Result(verified, kind))
  /\ UNCHANGED <<resources, capture, file, before>>

Timeout ==
  /\ stage = "waiting" /\ settled = "no"
  /\ Finish("error")
  /\ UNCHANGED <<resources, capture, file, before, calls>>

-----------------------------------------------------------------------------
(* The exchanges *)

Exchange ==
  /\ stage = "exchange"
  /\ \/ \E a \in Accounts: token' = a /\ stage' = "swap"
     \/ token' = None /\ stage' = "teardown"
  /\ UNCHANGED <<resources, settled, lasts, id, file, before, calls>>

\* A failed swap: Messenger goes on with the token it has, Instagram prints it
\* and ends.
Swap ==
  /\ stage = "swap"
  /\ \/ lasts' = TRUE /\ stage' = "identify"
     \/ lasts' = FALSE /\ stage' = IF onMessenger THEN "identify" ELSE "teardown"
  /\ UNCHANGED <<resources, settled, token, id, file, before, calls>>

\* selectPage and promptForPage: the page of .env if it is managed, the only one,
\* else what the operator answers.
SelectPage(pages) == IF before.id \in pages THEN {before.id} ELSE pages

\* /me/accounts: the pages the user manages, each with its own token.
ListPages ==
  /\ stage = "identify" /\ onMessenger
  /\ \/ /\ stage' = "teardown"
        /\ UNCHANGED <<token, id>>
     \/ \E pages \in SUBSET Accounts \ {{}}:
          \E p \in SelectPage(pages):
            /\ token' = p /\ id' = p
            /\ stage' = "confirm"
  /\ UNCHANGED <<resources, settled, lasts, file, before, calls>>

\* The user_id of the first exchange is a JSON number, of more than 53 bits.
Rounded(account) == Inexact

\* /me answers with the id as a string; without it, the number is formatted.
Identify ==
  /\ stage = "identify" /\ ~onMessenger
  /\ id' \in {token, Rounded(token)}
  /\ stage' = "confirm"
  /\ UNCHANGED <<resources, settled, token, lasts, file, before, calls>>

-----------------------------------------------------------------------------
(* .env and the end *)

\* Mutant of IsTaken: a line that is there is not noticed.
IsTakenNever == FALSE

\* hasExistingMessengerPageToken, hasExistingInstagramValue.
IsTaken == file.token # None \/ (~onMessenger /\ file.id # None)

\* maybeAppendToEnv: Messenger keeps an id line that is there.
AppendToEnv ==
  /\ stage = "confirm"
  /\ stage' = "teardown"
  /\ file' \in {file,
       IF IsTaken THEN file ELSE [id |-> IF file.id = None THEN id ELSE file.id, token |-> token]}
  /\ UNCHANGED <<resources, settled, capture, before, calls>>

\* The finally of main.
Teardown ==
  /\ stage = "teardown"
  /\ stage' = "done" /\ listening' = FALSE /\ tunnel' = FALSE
  /\ UNCHANGED <<settled, hooked, capture, file, before, calls>>

\* The hook closes server and tunnel; a main that awaits the callback or a prompt
\* never goes on, one that awaits a response does.
Interrupt ==
  /\ hooked /\ stage # "done"
  /\ hooked' = FALSE
  /\ listening' = FALSE /\ tunnel' = FALSE
  /\ stage' = IF stage \in {"waiting", "confirm"} THEN "done" ELSE stage
  /\ UNCHANGED <<settled, capture, file, before, calls>>

Next ==
  /\ \/ Refuse \/ WrongHost \/ Open \/ Timeout \/ Interrupt
     \/ \E ours \in BOOLEAN, kind \in {"code", "error"}: Callback(ours, kind)
     \/ Exchange \/ Swap \/ ListPages \/ Identify \/ AppendToEnv \/ Teardown
  /\ UNCHANGED <<onMessenger, fixedState>>

Spec == Init /\ [][Next]_vars

-----------------------------------------------------------------------------
\* With a state that is generated, the script goes on only with a callback of its own
\* run: no token is asked for on behalf of another tab, whenever it is submitted.
CodeIsOurs == ~fixedState /\ (settled = "code" \/ token # None) => calls[2] > 0

\* A token that is in .env stays: it is neither replaced nor shadowed, by any path.
NeverClobbers == before.token # None => file = before

\* When .env named no page, the pair that is written belongs together.
FreshPairMatches == before.id = None => file.id = file.token

\* After the end, nothing is left open: no tunnel and no listener.
ReleasedAtEnd == stage = "done" => ~tunnel /\ ~listening

\* What a capture may do to the operator's machine: the four above, the first only
\* where the URL in .env has no state, the last two of the Messenger script alone
\* (maybeAppendToEnv, waitForCallback, main).
CaptureIsSound ==
  /\ CodeIsOurs /\ NeverClobbers
  /\ onMessenger => FreshPairMatches /\ ReleasedAtEnd
=============================================================================
