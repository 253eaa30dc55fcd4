---------------------------- MODULE TokenRefresh ----------------------------
(***************************************************************************)
(* The scheduled refresh of the Instagram tokens:                          *)
(* src/scripts/setup/refresh-instagram-tokens.ts.  One account after the   *)
(* other is refreshed; its line of .env is read, replaced and written, in  *)
(* two awaits, while the operator may edit the file.  A token is modelled  *)
(* by its account and its age.                                             *)
(***************************************************************************)
EXTENDS FiniteSets, Naturals, SequencesExt

CONSTANTS
  Accounts,   \* the configured accounts, in order
  None,       \* no line, or a line with nothing after the =
  MaxEdits    \* edits of .env (bound)

Names == Range(Accounts)

RefreshAssumption == Accounts \in Seq(Names)

Token(a, age) == <<a, age>>

VARIABLES
  stage,  \* of runCli: "start", "refreshing", "writing", "done"
  write,  \* --write
  todo,   \* accounts to go
  env,    \* what loadConfig read: of each account, its token
  file,   \* .env: of each account, the token in its line, or None
  read,   \* the contents that the replacement was made in
  failed, \* anyFailed
  edits   \* auxiliary: edits so far

vars == <<stage, write, todo, env, file, read, failed, edits>>

Lines == [Names -> {Token(a, "old") : a \in Names} \union {None}]

\* An account may be configured outside of .env; its line is then missing, or empty.
Init ==
  /\ stage = "start" /\ write \in BOOLEAN
  /\ todo = Accounts
  /\ env = [a \in Names |-> Token(a, "old")]
  /\ file \in {f \in Lines : \A a \in Names : f[a] \in {None, Token(a, "old")}}
  /\ read = file
  /\ failed = FALSE /\ edits = 0

-----------------------------------------------------------------------------

\* A flag or the configuration is not accepted.
Refuse ==
  /\ stage = "start"
  /\ stage' = "done" /\ failed' = TRUE
  /\ UNCHANGED <<write, todo, env, file, read, edits>>

Start ==
  /\ stage = "start"
  /\ stage' = "refreshing"
  /\ UNCHANGED <<write, todo, env, file, read, failed, edits>>

\* A refresh that Meta refuses, a file that cannot be read or written: it fails
\* this account alone.
Fail ==
  /\ stage \in {"refreshing", "writing"} /\ todo # <<>>
  /\ stage' = "refreshing"
  /\ failed' = TRUE /\ todo' = Tail(todo)
  /\ UNCHANGED <<write, env, file, read, edits>>

Refresh ==
  /\ stage = "refreshing" /\ todo # <<>>
  /\ IF write
       THEN stage' = "writing" /\ read' = file /\ UNCHANGED todo
       ELSE todo' = Tail(todo) /\ UNCHANGED <<stage, read>>
  /\ UNCHANGED <<write, env, file, failed, edits>>

\* Mutant of Line: the first line that begins with the variable's name is taken.
LineByPrefix(a) == Head(Accounts)

\* replaceTokenLine: the line of this account's variable, up to the =.
Line(a) == a

Missing(a) == read[Line(a)] = None

WriteFile ==
  /\ stage = "writing"
  /\ LET a == Head(todo) IN
       IF read[Line(a)] = None
         THEN failed' = (failed \/ Missing(a)) /\ UNCHANGED file
         ELSE /\ file' = [read EXCEPT ![Line(a)] = Token(env[a][1], "new")]
              /\ UNCHANGED failed
  /\ todo' = Tail(todo) /\ stage' = "refreshing"
  /\ UNCHANGED <<write, env, read, edits>>

\* The operator removes a line, or pastes a token of the account.
Edit(a) ==
  /\ edits < MaxEdits /\ stage # "done"
  /\ edits' = edits + 1
  /\ \E t \in {None, Token(a, "old"), Token(a, "new")} \ {file[a]} : file' = [file EXCEPT ![a] = t]
  /\ UNCHANGED <<stage, write, todo, env, read, failed>>

Finish ==
  /\ stage = "refreshing" /\ todo = <<>>
  /\ stage' = "done"
  /\ UNCHANGED <<write, todo, env, file, read, failed, edits>>

Next == Refuse \/ Start \/ Fail \/ Refresh \/ WriteFile \/ (\E a \in Names : Edit(a)) \/ Finish

Spec == Init /\ [][Next]_vars

-----------------------------------------------------------------------------
(* Properties *)

\* No line ever holds another account's token, and when the script ends with
\* "All Instagram tokens refreshed." after --write on a file nobody edited, every
\* account's line holds its new one; otherwise it exits with 1 for an alert
\* (replaceTokenLine, anyFailed).
QuietMeansFresh ==
  /\ \A a \in Names : file[a] # None => file[a][1] = a
  /\ stage = "done" /\ write /\ ~failed /\ edits = 0 =>
       \A a \in Names : file[a] = Token(a, "new")
=============================================================================
