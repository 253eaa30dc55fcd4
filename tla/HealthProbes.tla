---------------------------- MODULE HealthProbes ----------------------------
(***************************************************************************)
(* The two HTTP routes that ask a backing store: GET /ready                *)
(* (buildReadinessReport) and GET /admin/queue, both in                    *)
(* src/src/http/app.ts.  On the Redis path a dependency may answer, fail,  *)
(* or hang; a call that hangs stays hung until the dependency recovers.    *)
(***************************************************************************)
CONSTANT
  Probes  \* requests to either route

Health == {"answers", "fails", "hangs"}

Dependencies == {"scheduler", "redis"}

VARIABLES
  settings,  \* is config.redisUrl set, and config.persistence.redisRequired?
  health,    \* of each dependency
  stage,     \* of each probe: where its handler is
  checks,    \* of each probe: what the checks found so far
  well       \* auxiliary: the dependencies that answered at some moment of the probe

vars == <<settings, health, stage, checks, well>>

Stages == {"none", "ready: scheduler", "ready: redis", "queue: stats", "200", "503", "500"}

Answered(p) == stage[p] \in {"200", "503", "500"}

Init ==
  /\ settings \in [url: BOOLEAN, required: BOOLEAN]
  /\ health = [d \in Dependencies |-> "answers"]
  /\ stage = [p \in Probes |-> "none"]
  /\ checks = [p \in Probes |-> {}]
  /\ well = [p \in Probes |-> {}]

Well == {d \in Dependencies: health[d] = "answers"}

Request(p) ==
  /\ stage[p] = "none" \/ Answered(p)
  /\ \E first \in {"ready: scheduler", "queue: stats"}: stage' = [stage EXCEPT ![p] = first]
  /\ checks' = [checks EXCEPT ![p] = {}]
  /\ well' = [well EXCEPT ![p] = Well]
  /\ UNCHANGED <<settings, health>>

\* Mutant of Verdict: the last check decides.
VerdictOfLast(failed) == IF "redis" \in failed THEN "503" ELSE "200"

Verdict(failed) == IF failed = {} THEN "200" ELSE "503"

\* Without a client there is nothing to ping: the check is of the settings alone.
MissingUrl == IF ~settings.url /\ settings.required THEN {"redis"} ELSE {}

\* getStats settles, unless the scheduler hangs; no timer runs beside it.
ReadyScheduler(p) ==
  /\ stage[p] = "ready: scheduler"
  /\ health["scheduler"] # "hangs"
  /\ LET failed == IF health["scheduler"] = "fails" THEN {"scheduler"} ELSE {}
     IN /\ checks' = [checks EXCEPT ![p] = failed]
        /\ stage' = [stage EXCEPT ![p] =
             IF settings.url THEN "ready: redis" ELSE Verdict(failed \union MissingUrl)]
  /\ UNCHANGED <<settings, health, well>>

\* The ping settles, or its timer ends the race: a hung ping is a failed one.
ReadyRedis(p) ==
  /\ stage[p] = "ready: redis"
  /\ \E failed \in {checks[p], checks[p] \union {"redis"}}:
       /\ "redis" \notin failed => health["redis"] = "answers"
       /\ stage' = [stage EXCEPT ![p] = Verdict(failed)]
  /\ UNCHANGED <<settings, health, checks, well>>

\* The stats settle, or the timer ends the race with an error.
QueueStats(p) ==
  /\ stage[p] = "queue: stats"
  /\ \E answer \in {"200", "500"}:
       /\ answer = "200" => health["scheduler"] = "answers"
       /\ stage' = [stage EXCEPT ![p] = answer]
  /\ UNCHANGED <<settings, health, checks, well>>

Change(d) ==
  /\ settings.url
  /\ \E h \in Health \ {health[d]}: health' = [health EXCEPT ![d] = h]
  /\ well' = [p \in Probes |->
                IF Answered(p) \/ health'[d] # "answers" THEN well[p] ELSE well[p] \union {d}]
  /\ UNCHANGED <<settings, stage, checks>>

Handle(p) == ReadyScheduler(p) \/ ReadyRedis(p) \/ QueueStats(p)

Next ==
  \/ \E p \in Probes: Request(p) \/ Handle(p)
  \/ \E d \in Dependencies: Change(d)

Spec == Init /\ [][Next]_vars

-----------------------------------------------------------------------------
(* Properties *)

\* Traffic is routed on the word of /ready: a probe that is answered 200 saw
\* the scheduler and Redis answer, each at some moment of the probe, whatever
\* changed meanwhile; a deploy that lost its required REDIS_URL is never ready.
ReadyIsTrue ==
  \A p \in Probes:
    stage[p] \in {"ready: scheduler", "ready: redis"} /\ stage'[p] = "200" =>
      IF settings.url THEN Dependencies \subseteq well[p] ELSE ~settings.required
=============================================================================
