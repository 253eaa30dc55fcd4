------------------------------ MODULE GraphSend ------------------------------
(***************************************************************************)
(* A request to the Graph API and its two nested retry loops: the attempts *)
(* of GraphClient.request (src/src/meta/shared/graph-client.ts) and, around *)
(* them, the sends of one outbound item by the agent, which classifies the *)
(* error that a send throws (src/src/limits/tracker.ts).                   *)
(*                                                                         *)
(* Meta is on the other side of the network: it carries a request out or   *)
(* not, and its answer arrives or not.  Delays are left to Delays.         *)
(***************************************************************************)
EXTENDS Naturals

CONSTANTS
  Posts,            \* requests that are not idempotent: sends
  Gets,             \* requests that are: method GET, or idempotent: true
  MaxRetries,       \* maxRetries of the client
  MaxRetryAttempts  \* transientRetryMaxAttempts() of the agent

RequestsAssumption == Posts \intersect Gets = {}
RetriesAssumption == MaxRetries \in Nat /\ MaxRetryAttempts \in Nat

VARIABLES
  phase,   \* of each request: where its sender is
  attempt, \* of each request: the loop counter of GraphClient.request
  sends,   \* of each request: the sends of the agent so far
  status,  \* of each request: the outcome of the last attempt
  effects, \* auxiliary, of each request: how often Meta carried it out
  lost     \* auxiliary, of each request: how often the answer read as if it had not

vars == <<phase, attempt, sends, status, effects, lost>>

Requests == Posts \union Gets

(***************************************************************************)
(* ready: about to fetch; waiting: in fetch or in reading the body;        *)
(* settled: the attempt has an outcome; backoff: sleeping before the next  *)
(* attempt; retrying: the agent's retry timer is armed.                    *)
(***************************************************************************)
Phases == {"ready", "waiting", "settled", "backoff", "retrying", "resolved", "thrown", "dropped"}

\* A rate-limit code of the error is told apart, on a 4xx and on a 5xx, as is the
\* 2xx without a message id; a failure of the transport is the status 0.
Outcomes ==
  {"2xx", "2xx_no_id", "4xx", "429", "4xx_rate_code", "5xx", "5xx_rate_code", "network"}

Unknown == "unknown"

Init ==
  /\ phase = [r \in Requests |-> "ready"]
  /\ attempt = [r \in Requests |-> 0]
  /\ sends = [r \in Requests |-> 1]
  /\ status = [r \in Requests |-> Unknown]
  /\ effects = [r \in Requests |-> 0]
  /\ lost = [r \in Requests |-> 0]

Moves(r, from, to) == phase[r] = from /\ phase' = [phase EXCEPT ![r] = to]

-----------------------------------------------------------------------------
(* The network and Meta *)

Fetch(r) == Moves(r, "ready", "waiting") /\ UNCHANGED <<attempt, sends, status, effects, lost>>

Answer(r, outcome, carriedOut) ==
  /\ Moves(r, "waiting", "settled")
  /\ status' = [status EXCEPT ![r] = outcome]
  /\ effects' = [effects EXCEPT ![r] = IF carriedOut THEN @ + 1 ELSE @]
  /\ UNCHANGED <<attempt, sends, lost>>

Accepts(r) == Answer(r, "2xx", TRUE)

\* Rejected before it is processed.
Rejects(r) == \E outcome \in {"4xx", "429", "4xx_rate_code"} : Answer(r, outcome, FALSE)

\* A server error says nothing of what was done, and for a send neither does an
\* acceptance whose body names no message.
Fails(r) ==
  \E outcome \in {"5xx"} \union (IF r \in Posts THEN {"2xx_no_id"} ELSE {}), carriedOut \in BOOLEAN :
    Answer(r, outcome, carriedOut)

\* Nothing was done, and the answer reads so: fetch rejects before the request
\* reaches Meta, or the server is at a limit.
NeverDone(r) == \E outcome \in {"network", "5xx_rate_code"} : Answer(r, outcome, FALSE)

\* It was done and the answer reads as if it had not: fetch rejects after it, or
\* the body cannot be read to its end (attempt() awaits both, so either one is a
\* failure of the transport), or a server error carries a rate-limit code.
AnswerIsLost(r) ==
  /\ Moves(r, "waiting", "settled")
  /\ \E outcome \in {"network", "5xx_rate_code"} : status' = [status EXCEPT ![r] = outcome]
  /\ effects' = [effects EXCEPT ![r] = @ + 1]
  /\ lost' = [lost EXCEPT ![r] = @ + 1]
  /\ UNCHANGED <<attempt, sends>>

-----------------------------------------------------------------------------
(* GraphClient.request *)

\* Mutant of IsRetryable: a server error is retried for every method.
RetryableOnServerError(r, outcome) == outcome \in {"429", "network", "5xx", "5xx_rate_code"}

IsRetryable(r, outcome) ==
  \/ outcome \in {"429", "network"}
  \/ outcome \in {"5xx", "5xx_rate_code"} /\ r \in Gets

Resolve(r) ==
  /\ status[r] = "2xx"
  /\ Moves(r, "settled", "resolved")
  /\ UNCHANGED <<attempt, sends, status, effects, lost>>

BackOff(r) ==
  /\ IsRetryable(r, status[r])
  /\ attempt[r] < MaxRetries
  /\ Moves(r, "settled", "backoff")
  /\ UNCHANGED <<attempt, sends, status, effects, lost>>

TryAgain(r) ==
  /\ Moves(r, "backoff", "ready")
  /\ attempt' = [attempt EXCEPT ![r] = @ + 1]
  /\ UNCHANGED <<sends, status, effects, lost>>

\* The client throws, or the send that finds no message id in what it resolved to.
Throw(r) ==
  /\ status[r] # "2xx"
  /\ ~(IsRetryable(r, status[r]) /\ attempt[r] < MaxRetries)
  /\ Moves(r, "settled", "thrown")
  /\ UNCHANGED <<attempt, sends, status, effects, lost>>

-----------------------------------------------------------------------------
(* The agent: sends only; a caller that reads gives up on the first error *)

\* A rate-limit code counts whatever the HTTP status it comes with.
Classify(outcome) ==
  IF outcome \in {"network", "429", "4xx_rate_code", "5xx_rate_code"} THEN "transient" ELSE "permanent"

\* A retry needs the attempt number, which counts from 1, within the cap.
ScheduleRetry(r) ==
  /\ r \in Posts
  /\ Classify(status[r]) = "transient"
  /\ sends[r] <= MaxRetryAttempts
  /\ Moves(r, "thrown", "retrying")
  /\ UNCHANGED <<attempt, sends, status, effects, lost>>

SendAgain(r) ==
  /\ Moves(r, "retrying", "ready")
  /\ attempt' = [attempt EXCEPT ![r] = 0]
  /\ sends' = [sends EXCEPT ![r] = @ + 1]
  /\ UNCHANGED <<status, effects, lost>>

Drop(r) ==
  /\ ~(r \in Posts /\ Classify(status[r]) = "transient" /\ sends[r] <= MaxRetryAttempts)
  /\ Moves(r, "thrown", "dropped")
  /\ UNCHANGED <<attempt, sends, status, effects, lost>>

-----------------------------------------------------------------------------

Network(r) == Accepts(r) \/ Rejects(r) \/ Fails(r) \/ NeverDone(r) \/ AnswerIsLost(r)

Client(r) == Fetch(r) \/ Resolve(r) \/ BackOff(r) \/ TryAgain(r) \/ Throw(r)

Agent(r) == ScheduleRetry(r) \/ SendAgain(r) \/ Drop(r)

Next == \E r \in Requests : Network(r) \/ Client(r) \/ Agent(r)

Spec == Init /\ [][Next]_vars

-----------------------------------------------------------------------------
(* Properties *)

\* "Retrying a POST send could DOUBLE-SEND" (graph-client.ts): through both loops
\* together, a send is carried out more than once only for an answer that got
\* lost, or for a server error with a rate-limit code, each time, whatever sequence
\* of outcomes it meets.
OncePerLostAnswer == \A r \in Posts : effects[r] <= 1 + lost[r]

\* What the agent believes of an item is true: one that resolved was carried out,
\* and one that it gave up on was not, so dropping it loses no confirmation, unless
\* the last answer left it open or an earlier one was lost.
BeliefsAreTrue ==
  \A r \in Posts :
    /\ phase[r] = "resolved" => effects[r] >= 1
    /\ phase[r] = "dropped" /\ status[r] \notin {"5xx", "2xx_no_id"} /\ lost[r] = 0 => effects[r] = 0

\* Both: no send is repeated that was done, and none is given up on that was.
SendsAreAsBelieved == OncePerLostAnswer /\ BeliefsAreTrue
=============================================================================
