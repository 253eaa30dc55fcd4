-------------------------- MODULE MCOperatorScripts --------------------------
(***************************************************************************)
(* TLC's instances of the scripts that an operator runs: token capture and *)
(* refresh, webhook registration, the profile, the verification, the       *)
(* capture of fixtures, and the two probes.  They share no state, so a     *)
(* behaviour is of one of them: part says of which, and the others rest.   *)
(***************************************************************************)
EXTENDS OAuthCapture

CONSTANTS
  Registered, AccountNames, Bare, App, NoWaba,        \* WebhookRegistration
  Versions, TooMany, Profiles, Absent,                \* ProfileSetup
  MaxRuns,                                            \* both: runs of a script
  Refreshed, MaxEdits,   \* TokenRefresh: the accounts, in order
  Verified, Deliveries,  \* SetupVerification: the channels, in order, and their webhooks
  Hooks, Scenarios, Fits, GuidedStamp, PassiveStamp,  \* WebhookCapture
  Probed, ProbedAccounts, Inbounds, Quota,            \* OutboundProbe
  Swept, Emojis                                       \* ReactionSweep

VARIABLES
  part,
  regStage, accounts, hasAppId, regCalls, results, regExit, subscribed, callback,
  regRuns,                                                                   \* WebhookRegistration
  profileStage, profileFile, asked, steps, profileFailed, profileExit, profile, lost,
  profileRuns,                                                               \* ProfileSetup
  verifyStage, channel, todo, waiting, found, captures, sender, verdicts,
  early,                                                                     \* SetupVerification
  refreshStage, write, accountsToGo, env, envFile, read, anyFailed, edits,   \* TokenRefresh
  captureStage, acked, heard, saving, files, unsaved, hooks, step, mode,
  waiter, outcomes,                                                            \* WebhookCapture
  probeMode, probeStage, handled, collected, quiet, queue, running, done,
  sent,                                                                      \* OutboundProbe
  batch, noPrompt, captured, at, sweepStage, cleared, lingers, shown, rows,
  drawn, thread, verdict                                                              \* ReactionSweep

registrationVars ==
  <<regStage, accounts, hasAppId, regCalls, results, regExit, subscribed, callback, regRuns>>
profileVars ==
  <<profileStage, profileFile, asked, steps, profileFailed, profileExit, profile, lost, profileRuns>>
verificationVars ==
  <<verifyStage, channel, todo, waiting, found, captures, sender, verdicts, early>>
refreshVars == <<refreshStage, write, accountsToGo, env, envFile, read, anyFailed, edits>>
captureVars ==
  <<captureStage, acked, heard, saving, files, unsaved, hooks, step, mode, waiter, outcomes>>
probeVars == <<probeMode, probeStage, handled, collected, quiet, queue, running, done, sent>>
sweepVars ==
  <<batch, noPrompt, captured, at, sweepStage, cleared, lingers, shown, rows, drawn, thread, verdict>>

Parts == {"token", "registration", "profile", "verification", "refresh",
          "guided capture", "passive capture", "probe", "sweep"}

\* Two accounts on two channels, one of them without its WABA; the script runs twice.
ThreeChannels == <<"whatsapp", "messenger", "instagram">>

TwoEach ==
  [c \in {"whatsapp", "messenger", "instagram"} |->
     IF c = "instagram" THEN <<"default">> ELSE <<"default", "second">>]

SecondWithoutWaba == {<<"whatsapp", "second">>}

Registration ==
  INSTANCE WebhookRegistration WITH
    Order <- Registered, Names <- AccountNames,
    stage <- regStage, calls <- regCalls, exit <- regExit, runs <- regRuns

Sections == {<<"messenger", "get_started">>, <<"messenger", "greeting">>,
             <<"messenger", "persistent_menu">>, <<"messenger", "ice_breakers">>,
             <<"instagram", "ice_breakers">>}

\* Files with everything, with too many ice breakers, and with the menu or the Get
\* Started button alone.
ProfileFiles ==
  {[f \in Sections |-> v] : v \in {"old", "new"}}
    \union {[f \in Sections |-> IF f[2] = s THEN "old" ELSE "absent"] :
              s \in {"persistent_menu", "get_started", "ice_breakers"}}
    \union {[f \in Sections |-> IF f[2] = "get_started" THEN "absent" ELSE "old"]}

Profile ==
  INSTANCE ProfileSetup WITH
    Files <- Profiles, stage <- profileStage, file <- profileFile, failed <- profileFailed,
    exit <- profileExit, runs <- profileRuns

TwoChannels == <<"whatsapp", "instagram">>

Message(kind, user) == [kind |-> kind, user |-> user]

Delivery(c, messages) == [channel |-> c, messages |-> messages]

\* Texts of three users, one of them behind the echo of a text to a fourth, and what
\* must not pass for one.
ThreeUsers ==
  {Delivery("whatsapp", <<Message("text", "ada")>>), Delivery("whatsapp", <<Message("status", "ada")>>),
   Delivery("instagram", <<Message("text", "bob")>>),
   Delivery("instagram", <<Message("echo", "dan"), Message("text", "cat"), Message("text", "bob")>>),
   Delivery("instagram", <<Message("echo", "bob")>>),
   Delivery("instagram", <<Message("reaction", "bob")>>)}

Verification ==
  INSTANCE SetupVerification WITH
    Order <- Verified, Webhooks <- Deliveries, stage <- verifyStage

ThreeAccounts == <<"default", "second", "third">>

Refreshing ==
  INSTANCE TokenRefresh WITH
    Accounts <- Refreshed,
    stage <- refreshStage, todo <- accountsToGo, file <- envFile, failed <- anyFailed

\* A text, a reply (a text too), an image and a read receipt, and the scenarios
\* that tell them apart; the two texts come in one moment.
FourHooks == {"text", "reply", "image", "read"}

ThreeScenarios == <<"text", "image", "reply-to">>

TextsFit ==
  {<<"text", "text">>, <<"reply", "text">>, <<"image", "image">>, <<"reply", "reply-to">>}

TextsAtOnce == [h \in FourHooks |-> IF h = "reply" THEN "text" ELSE h]

GuidedCapture ==
  INSTANCE WebhookCapture WITH
    Guided <- TRUE, Stamp <- GuidedStamp, stage <- captureStage, queue <- hooks

\* Every webhook comes in a moment of its own.
Apart == [h \in FourHooks |-> h]

PassiveCapture ==
  INSTANCE WebhookCapture WITH
    Guided <- FALSE, Stamp <- PassiveStamp, stage <- captureStage, queue <- hooks

Inbound(c, i, kind, account) == [channel |-> c, id |-> i, kind |-> kind, account |-> account]

\* Two channels, one of them with two accounts, and webhooks for both and for an
\* account that is not configured.
LineAndPages ==
  [c \in {"whatsapp", "messenger"} |->
     IF c = "whatsapp" THEN <<"line">> ELSE <<"page", "second">>]

FiveWebhooks ==
  {<<Inbound("whatsapp", "w1", "text", "line")>>,
   <<Inbound("whatsapp", "w2", "text", "line")>>,
   <<Inbound("messenger", "f0", "echo", "page"),
     Inbound("messenger", "f1", "reaction", "page"),
     Inbound("messenger", "f2", "text", "page")>>,
   <<Inbound("messenger", "f3", "text", "second")>>,
   <<Inbound("messenger", "f4", "text", "unknown")>>}

LineAndPage == <<"whatsapp", "messenger">>

Probe ==
  INSTANCE OutboundProbe WITH
    Targets <- Probed, Accounts <- ProbedAccounts, Webhooks <- Inbounds,
    mode <- probeMode, stage <- probeStage

SocialChannels == <<"messenger", "instagram">>

FireAndHeart == <<"fire", "heart">>

Reactions == INSTANCE ReactionSweep WITH stage <- sweepStage

ASSUME RegisteringAssumption == Registration!RegistrationAssumption
ASSUME ProfilesAssumption == Profile!ProfileAssumption
ASSUME VerifyingAssumption == Verification!VerificationAssumption
ASSUME RefreshingAssumption == Refreshing!RefreshAssumption
ASSUME CapturingAssumption == GuidedCapture!CaptureAssumption /\ PassiveCapture!CaptureAssumption
ASSUME ProbingAssumption == Probe!ProbeAssumption
ASSUME SweepingAssumption == Reactions!SweepAssumption
\* No two webhooks that the passive script hears share a moment and a type.
ASSUME StampsAssumption == \A g, h \in Hooks : PassiveStamp[g] = PassiveStamp[h] => g = h

\* What varies at the start of a part has one value in the others.
PartsInit ==
  /\ part \in Parts
  /\ Init /\ (part = "token" \/ (onMessenger /\ file.id = None))
  /\ Registration!Init
  /\ part = "registration" \/ (~hasAppId /\ \A c \in DOMAIN accounts : accounts[c] = {"default"})
  /\ Profile!Init /\ Verification!Init
  /\ Refreshing!Init /\ (part = "refresh" \/ (write /\ env = envFile))
  /\ GuidedCapture!Init
  /\ Probe!Init /\ (part = "probe" \/ probeMode = "batch")
  /\ Reactions!Init
  /\ part = "sweep" \/ (batch /\ noPrompt /\ \A c \in DOMAIN captured : captured[c] = 0)

CaptureToken ==
  /\ part = "token" /\ Next
  /\ UNCHANGED <<part, registrationVars, profileVars, verificationVars, refreshVars,
                 captureVars, probeVars, sweepVars>>

RegisterWebhooks ==
  /\ part = "registration" /\ Registration!Next
  /\ UNCHANGED <<part, vars, profileVars, verificationVars, refreshVars,
                 captureVars, probeVars, sweepVars>>

ConfigureProfile ==
  /\ part = "profile" /\ Profile!Next
  /\ UNCHANGED <<part, vars, registrationVars, verificationVars, refreshVars,
                 captureVars, probeVars, sweepVars>>

VerifySetup ==
  /\ part = "verification" /\ Verification!Next
  /\ UNCHANGED <<part, vars, registrationVars, profileVars, refreshVars,
                 captureVars, probeVars, sweepVars>>

RefreshTokens ==
  /\ part = "refresh" /\ Refreshing!Next
  /\ UNCHANGED <<part, vars, registrationVars, profileVars, verificationVars,
                 captureVars, probeVars, sweepVars>>

CaptureGuided ==
  /\ part = "guided capture" /\ GuidedCapture!Next
  /\ UNCHANGED <<part, vars, registrationVars, profileVars, verificationVars,
                 refreshVars, probeVars, sweepVars>>

CapturePassively ==
  /\ part = "passive capture" /\ PassiveCapture!Next
  /\ UNCHANGED <<part, vars, registrationVars, profileVars, verificationVars,
                 refreshVars, probeVars, sweepVars>>

ProbeOutbound ==
  /\ part = "probe" /\ Probe!Next
  /\ UNCHANGED <<part, vars, registrationVars, profileVars, verificationVars,
                 refreshVars, captureVars, sweepVars>>

SweepReactions ==
  /\ part = "sweep" /\ Reactions!Next
  /\ UNCHANGED <<part, vars, registrationVars, profileVars, verificationVars,
                 refreshVars, captureVars, probeVars>>

PartsNext ==
  \/ CaptureToken
  \/ RegisterWebhooks \/ ConfigureProfile
  \/ VerifySetup \/ RefreshTokens
  \/ CaptureGuided \/ CapturePassively
  \/ ProbeOutbound \/ SweepReactions

PartsSpec ==
  PartsInit /\ [][PartsNext]_<<part, vars, registrationVars, profileVars, verificationVars, refreshVars,
                              captureVars, probeVars, sweepVars>>

\* When the registration is reported complete, every account of a channel it has a
\* runner for is subscribed (registerAllWebhooks, allSucceeded).
CompleteIsSubscribed == part = "registration" => Registration!CompleteIsSubscribed

\* A section of a profile that is as it should be is applied, whatever becomes of
\* the sections beside it (applyProfile, runStep).
InOrderIsApplied == Profile!InOrderIsApplied

\* A verification that passes has heard a user on each channel, and replies to
\* nobody else (captureExpectedWebhook, VerifyResultBuilder.build).
VerdictIsHeard == Verification!VerdictIsHeard

\* No line gets another account's token, and a quiet end means that every line has
\* its new one (replaceTokenLine, anyFailed).
QuietMeansFresh == part = "refresh" => Refreshing!QuietMeansFresh

\* No webhook is missed between two waits of the guided walk or used twice, and what
\* the passive script hears is kept, or reported as not saved (waitForScenario, popFirstMatching, saveCapture).
NoneIsMissed ==
  /\ part = "guided capture" => GuidedCapture!NoneIsMissed /\ GuidedCapture!ServesOne
  /\ part = "passive capture" => PassiveCapture!HeardIsKept

\* The probe ends with each channel's plan done once, waits for a reason only, and
\* sweeps messages from the account they were sent to (captureOnArrival,
\* captureBatch, runBatchMode).
EndIsComplete ==
  part = "probe" => Probe!EndIsComplete /\ Probe!WaitsForSomething /\ Probe!SweptFromItsAccount

\* An emoji counts as delivered only if its own send put it on the screen, on the
\* channel that was read (runReactionSweep, applyBatchAnswers).
DeliveredWasDrawn == part = "sweep" => Reactions!DeliveredWasDrawn
=============================================================================
