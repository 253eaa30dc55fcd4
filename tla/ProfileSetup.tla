---------------------------- MODULE ProfileSetup ----------------------------
(***************************************************************************)
(* The script that applies a profile file to the Messenger page and the    *)
(* Instagram account: src/scripts/setup/configure-profile.ts, with the     *)
(* clients src/src/meta/messenger/profile.ts and                           *)
(* src/src/meta/instagram/ice-breakers.ts.  Every step replaces one field  *)
(* of the profile at Meta, which keeps rules between the fields; runs      *)
(* follow each other, with another file and other channels each.           *)
(***************************************************************************)
EXTENDS FiniteSets, Naturals, Sequences

CONSTANTS
  Versions,   \* what a section of a file can hold
  TooMany,    \* a version with more ice breakers than a locale may have
  Files,      \* the files that the script is run with
  Absent,     \* of a section that a file leaves out, of a field that is not set
  MaxRuns     \* runs of the script (bound)

Fields == {<<"messenger", "get_started">>, <<"messenger", "greeting">>,
           <<"messenger", "persistent_menu">>, <<"messenger", "ice_breakers">>,
           <<"instagram", "ice_breakers">>}

Channels == {"messenger", "instagram"}

ProfileAssumption ==
  /\ TooMany \in Versions /\ Absent \notin Versions
  /\ Files \subseteq [Fields -> Versions \union {Absent}]

VARIABLES
  stage,   \* of runCli: "start", "applying", "done"
  file,    \* the parsed file: of each field, a version or Absent
  asked,   \* the steps of this run
  steps,   \* those to go
  failed,  \* the steps that failed
  exit,    \* the exit code, or "running"
  profile, \* at Meta: of each field, a version or Absent
  lost,    \* auxiliary: the transport failed in this run
  runs     \* auxiliary: runs so far

vars == <<stage, file, asked, steps, failed, exit, profile, lost, runs>>

NoFile == [f \in Fields |-> Absent]

Init ==
  /\ stage = "start" /\ file = NoFile /\ asked = {}
  /\ steps = {} /\ failed = {} /\ exit = "running"
  /\ profile = NoFile
  /\ lost = FALSE /\ runs = 1

-----------------------------------------------------------------------------
(* The command line *)

\* A flag, the configuration or the file is not accepted, or --help.
Leave ==
  /\ stage = "start"
  /\ exit' \in {"ok", "error"} /\ stage' = "done"
  /\ UNCHANGED <<file, asked, steps, failed, profile, lost, runs>>

StepOrder ==
  <<<<"messenger", "get_started">>, <<"messenger", "greeting">>,
    <<"messenger", "persistent_menu">>, <<"messenger", "ice_breakers">>, <<"instagram", "ice_breakers">>>>

\* The channels that are configured, and asked for with --channels.
Apply(f, channels) ==
  /\ stage = "start"
  /\ file' = f
  /\ steps' = {s \in Fields : s[1] \in channels /\ f[s] # Absent}
  /\ asked' = steps'
  /\ stage' = "applying"
  /\ UNCHANGED <<failed, exit, profile, lost, runs>>

-----------------------------------------------------------------------------
(* The steps *)

\* applyProfile goes through its steps in their order.
IsNext(s) ==
  \A i, j \in DOMAIN StepOrder : i < j /\ StepOrder[j] = s => StepOrder[i] \notin steps

\* The clients count the ice breakers before they call.
RefusedByClient(s) == s[2] = "ice_breakers" /\ file[s] = TooMany

\* Error 2018145: a menu needs a Get Started button.
RefusedByMeta(s) == s[2] = "persistent_menu" /\ profile[<<"messenger", "get_started">>] = Absent

\* Mutant of Rest: the first step that fails is the last one.
RestNone(s) == {}

\* runStep: a step that fails does not keep the next one from being made.
Rest(s) == steps \ {s}

Pass ==
  /\ stage = "applying"
  /\ \E s \in steps :
       /\ IsNext(s) /\ ~RefusedByClient(s) /\ ~RefusedByMeta(s)
       /\ profile' = [profile EXCEPT ![s] = file[s]]
       /\ steps' = steps \ {s}
  /\ UNCHANGED <<stage, file, asked, failed, exit, lost, runs>>

Refuse ==
  /\ stage = "applying"
  /\ \E s \in steps :
       /\ IsNext(s) /\ (RefusedByClient(s) \/ RefusedByMeta(s))
       /\ failed' = failed \union {s}
       /\ steps' = Rest(s)
  /\ UNCHANGED <<stage, file, asked, exit, profile, lost, runs>>

\* The request or its answer is lost.
Lose ==
  /\ stage = "applying"
  /\ \E s \in steps :
       /\ IsNext(s) /\ ~RefusedByClient(s)
       /\ \/ UNCHANGED profile
          \/ ~RefusedByMeta(s) /\ profile' = [profile EXCEPT ![s] = file[s]]
       /\ failed' = failed \union {s}
       /\ steps' = Rest(s)
  /\ lost' = TRUE
  /\ UNCHANGED <<stage, file, asked, exit, runs>>

Finish ==
  /\ stage = "applying" /\ steps = {}
  /\ exit' = IF failed = {} THEN "ok" ELSE "error"
  /\ stage' = "done"
  /\ UNCHANGED <<file, asked, steps, failed, profile, lost, runs>>

Interrupt ==
  /\ stage = "applying"
  /\ exit' = "error" /\ stage' = "done" /\ lost' = TRUE
  /\ UNCHANGED <<file, asked, steps, failed, profile, runs>>

Rerun ==
  /\ stage = "done" /\ runs < MaxRuns
  /\ stage' = "start" /\ file' = NoFile /\ asked' = {} /\ steps' = {} /\ failed' = {} /\ exit' = "running"
  /\ lost' = FALSE
  /\ runs' = runs + 1
  /\ UNCHANGED profile

Next ==
  \/ Leave
  \/ \E f \in Files, channels \in SUBSET Channels : Apply(f, channels)
  \/ Pass \/ Refuse \/ Lose \/ Finish \/ Interrupt \/ Rerun

Spec == Init /\ [][Next]_vars

-----------------------------------------------------------------------------
(* Properties *)

\* A section that is as it should be (no ice breakers too many; a menu with a Get
\* Started button, of this file or of an earlier run) is applied at the end of
\* a run in which no request was lost, whatever became of the sections beside
\* it (the order of applyProfile, runStep).
InOrderIsApplied ==
  stage = "done" /\ ~lost =>
    \A s \in asked :
      \/ profile[s] = file[s]
      \/ exit = "error" /\ RefusedByClient(s)
      \/ exit = "error" /\ s[2] = "persistent_menu" /\ file[<<"messenger", "get_started">>] = Absent
=============================================================================
