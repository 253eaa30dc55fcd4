--------------------------- MODULE AccountRouting ---------------------------
(***************************************************************************)
(* From the environment to the account that answers: loadConfig of         *)
(* src/src/config/loader.ts reads the credential lines, buildRuntime of    *)
(* src/src/index.ts registers every loaded account with AdapterRegistry    *)
(* (src/src/meta/shared/registry.ts), and createApp collects the secrets   *)
(* that webhook signatures are checked with (src/src/http/app.ts).         *)
(*                                                                         *)
(* An operator edits the lines while the process is down.  A conversation  *)
(* outlives the process, so any business id may be asked for at any time.  *)
(***************************************************************************)
CONSTANTS
  Channels,    \* the messaging channels
  Names,       \* the suffixes in use, Bare among them
  Bare,        \* the name of the account of the unsuffixed lines
  IllFormed,   \* the suffixes that are no account name ("default" among them)
  BusinessIds  \* channel-scoped business ids

NotSet == "not set"

BareAssumption == Bare \in Names \ IllFormed /\ NotSet \notin Names
ChannelsAssumption == "instagram" \in Channels

VARIABLES
  lines,    \* of each channel and suffix: the credential lines of the environment
  process,  \* "down", "refused" (loadConfig threw) or "up"
  accounts  \* of each channel: the accounts of the running process

vars == <<lines, process, accounts>>

\* The primary variable (the business id), the access token, and the optional app secret.
Line == [id: BusinessIds \union {NotSet}, token: BOOLEAN, secret: BOOLEAN]

EmptyLine == [id |-> NotSet, token |-> FALSE, secret |-> FALSE]

AnyIdLine == [EmptyLine EXCEPT !.id = CHOOSE id \in BusinessIds: TRUE]

NoAccounts == [c \in Channels |-> {}]

\* A secret is named by the line that declares it.
MetaSecret == "META_APP_SECRET"

Init ==
  /\ lines = [c \in Channels |-> [n \in Names |-> EmptyLine]]
  /\ process = "down"
  /\ accounts = NoAccounts

-----------------------------------------------------------------------------
(* loadConfig *)

\* discoverAccountNames scans for the primary variable alone.
Discovered(c) == {n \in Names \ {Bare}: lines[c][n].id # NotSet}

\* loadChannelCredentials throws on one variable of the pair without the other.
IsPartial(c, n) == (lines[c][n].id # NotSet) # lines[c][n].token

Declared(c) ==
  {n \in {Bare}: lines[c][n].id # NotSet /\ lines[c][n].token} \union Discovered(c)

\* The Instagram app secret of a named account falls back on the unsuffixed one.
SecretOf(c, n) ==
  IF lines[c][n].secret THEN n ELSE IF lines[c][Bare].secret THEN Bare ELSE NotSet

TokenOf(c, n) == n

Loaded(c) ==
  {[name |-> n, id |-> lines[c][n].id, token |-> TokenOf(c, n), secret |-> SecretOf(c, n)]:
     n \in Declared(c)}

HasDuplicate(c) == \E m, n \in Declared(c): m # n /\ lines[c][m].id = lines[c][n].id

Throws ==
  \/ \E c \in Channels: \/ IsPartial(c, Bare)
                        \/ \E n \in Discovered(c): n \in IllFormed \/ IsPartial(c, n)
                        \/ HasDuplicate(c)
  \/ \A c \in Channels: Declared(c) = {}

\* buildRuntime registers what loadConfig returned; register has a check for
\* duplicates of its own, which HasDuplicate leaves nothing to find.
Boot ==
  /\ process = "down"
  /\ IF Throws
       THEN process' = "refused" /\ UNCHANGED accounts
       ELSE process' = "up" /\ accounts' = [c \in Channels |-> Loaded(c)]
  /\ UNCHANGED lines

-----------------------------------------------------------------------------
(* The registry and the signature check *)

\* Mutant of Resolve: the bare account answers for an id that is not registered.
ResolveOrBare(c, id) ==
  LET exact == {a \in accounts[c]: a.id = id}
  IN IF exact # {} THEN exact ELSE {a \in accounts[c]: a.name = Bare}

\* resolve: the exact id, else the only account of the channel, else nobody.
Resolve(c, id) ==
  LET exact == {a \in accounts[c]: a.id = id}
  IN IF exact # {} THEN exact ELSE {a \in accounts[c]: accounts[c] = {a}}

\* The secrets that the webhook's signature is tried with.
SignatureSecrets ==
  {MetaSecret} \union
    {a.secret: a \in {b \in UNION {accounts[c]: c \in Channels}: b.secret # NotSet}}

-----------------------------------------------------------------------------

Edit(c, n, line) ==
  /\ process \in {"down", "refused"}
  /\ c # "instagram" => ~line.secret
  /\ n \in IllFormed => c = "instagram" /\ line \in {EmptyLine, AnyIdLine}  \* bound
  /\ lines' = [lines EXCEPT ![c][n] = line]
  /\ process' = "down"
  /\ UNCHANGED accounts

Shutdown ==
  /\ process = "up"
  /\ process' = "down"
  /\ accounts' = NoAccounts
  /\ UNCHANGED lines

Next ==
  \/ Boot
  \/ Shutdown
  \/ \E c \in Channels, n \in Names, line \in Line: Edit(c, n, line)

Spec == Init /\ [][Next]_vars

-----------------------------------------------------------------------------
(* Properties *)

\* Whatever id a conversation was started with, under this environment or an
\* earlier one, at most one account answers for it; on a channel with several
\* accounts it is the account whose lines declare that id, with the token of
\* the same suffix (loadNamedAccounts, register and resolve together).
AnswersAsAddressed ==
  process = "up" =>
    \A c \in Channels, id \in BusinessIds:
      LET chosen == Resolve(c, id)
      IN /\ \A a, b \in chosen: a = b
         /\ \A a \in chosen:
              /\ a.token = a.name /\ lines[c][a.name].token
              /\ a.id = lines[c][a.name].id
              /\ accounts[c] # {a} => a.id = id

\* A process that came up serves every business id the environment declares:
\* no line with an id is dropped on the way to the registry.
DeclaredIdsAreServed ==
  process = "up" =>
    \A c \in Channels, n \in Names:
      lines[c][n].id # NotSet =>
        \E a \in Resolve(c, lines[c][n].id): a.name = n /\ lines[c][n].token

\* Every Instagram account's webhooks can be verified: the secret that signs
\* them, its own override or the unsuffixed one, is among those that are tried.
OwnSecretIsTried ==
  process = "up" =>
    \A a \in accounts["instagram"]:
      \A s \in {a.name, Bare}:
        /\ lines["instagram"][s].secret
        /\ s = a.name \/ ~lines["instagram"][a.name].secret
        => s \in SignatureSecrets
=============================================================================
