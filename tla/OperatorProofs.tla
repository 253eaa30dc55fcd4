--------------------------- MODULE OperatorProofs ---------------------------
(***************************************************************************)
(* Proofs about the scripts that an operator runs.                         *)
(***************************************************************************)
EXTENDS MCOperatorScripts, Integers, FiniteSetTheorems, SequenceTheorems,
        WellFoundedInduction, TLAPS

-----------------------------------------------------------------------------
(***************************************************************************)
(* What a token capture may do to the operator's machine (CaptureIsSound   *)
(* of OAuthCapture), proved for any accounts, any .env and any number of   *)
(* callbacks.                                                              *)
(***************************************************************************)

\* Requests are counted.
CallsAreCounted == calls \in Nat \X Nat

\* Before the tunnel there is nothing, and the listener outlives no run.
NothingBeforeStart == stage = "start" => ~tunnel /\ ~listening /\ settled = "no"

\* A request that settles the wait finds main waiting.
HeardWhileWaiting == listening /\ settled = "no" => stage = "waiting"

\* A code was sent with a state generated in this run, and the exchanges follow a code.
CodeCameFromUs == ~fixedState /\ settled = "code" => calls[2] > 0

ExchangesFollowCode ==
  /\ stage \in {"exchange", "swap", "identify", "confirm"} => settled = "code"
  /\ token # None => settled = "code"

\* The pair that is offered for .env belongs together.
OfferIsPair == onMessenger /\ stage = "confirm" => id = token

EndIsReleased ==
  stage = "done" => ~listening /\ (onMessenger => ~tunnel)

PairOfFile == onMessenger /\ before.id = None => file.id = file.token

CaptureInv ==
  /\ CallsAreCounted
  /\ NothingBeforeStart /\ HeardWhileWaiting
  /\ CodeCameFromUs /\ ExchangesFollowCode
  /\ OfferIsPair /\ EndIsReleased
  /\ NeverClobbers /\ PairOfFile

-----------------------------------------------------------------------------
\* The invariant holds at the start, whatever .env the operator has.
LEMMA CaptureInvInit == Init => CaptureInv
<1> SUFFICES ASSUME Init PROVE CaptureInv
  OBVIOUS
<1>1. None \notin Accounts
  BY OAuthAssumption
<1>2. file \in Files /\ before = file
  BY DEF Init
<1>3. PairOfFile
  BY <1>1, <1>2 DEF Files, PairOfFile
<1> QED
  BY <1>2, <1>3 DEF Init, CaptureInv, CallsAreCounted, NothingBeforeStart, HeardWhileWaiting,
    CodeCameFromUs, ExchangesFollowCode, OfferIsPair, EndIsReleased, NeverClobbers

\* A request to the callback path settles the wait at most once.
LEMMA CallbackKeepsInv ==
  ASSUME CaptureInv, NEW ours \in BOOLEAN, NEW kind \in {"code", "error"},
         Callback(ours, kind), UNCHANGED <<onMessenger, fixedState>>
  PROVE  CaptureInv'
<1> USE DEF Callback, CaptureInv, resources, capture, VerifyState
<1>1. CallsAreCounted' /\ calls'[2] >= calls[2] /\ (ours => calls'[2] > 0)
  BY DEF CallsAreCounted
<1>2. calls[2] > 0 => calls'[2] > 0
  BY <1>1 DEF CallsAreCounted
<1>3. CASE settled # "no"
  BY <1>1, <1>2, <1>3 DEF Finish, NothingBeforeStart, HeardWhileWaiting, CodeCameFromUs,
    ExchangesFollowCode, OfferIsPair, EndIsReleased, NeverClobbers, PairOfFile
<1>4. CASE settled = "no"
  <2>1. stage = "waiting"
    BY <1>4 DEF HeardWhileWaiting
  <2> PICK verified \in VerifyState(ours) : Finish(Result(verified, kind))
    BY <1>4
  <2>2. settled' = "code" => ours \/ fixedState
    <3>1. verified => ours \/ fixedState
      OBVIOUS
    <3>2. settled' = "code" => verified
      BY <1>4 DEF Finish, Result
    <3> QED
      BY <3>1, <3>2
  <2>3. \/ settled' = "code" /\ stage' = "exchange"
        \/ settled' = "error" /\ stage' = "teardown"
    BY <1>4 DEF Finish, Result
  <2>4. CodeCameFromUs'
    BY <1>1, <2>2 DEF CodeCameFromUs
  <2> QED
    BY <1>1, <1>4, <2>1, <2>3, <2>4 DEF NothingBeforeStart, HeardWhileWaiting,
      ExchangesFollowCode, OfferIsPair, EndIsReleased, NeverClobbers, PairOfFile
<1> QED
  BY <1>3, <1>4

\* What is appended to .env shadows no token, and completes no page's id with the
\* token of another page.
LEMMA AppendKeepsInv ==
  ASSUME CaptureInv, AppendToEnv, UNCHANGED <<onMessenger, fixedState>>
  PROVE  CaptureInv'
<1> USE DEF AppendToEnv, CaptureInv, resources, capture
<1>1. NeverClobbers'
  BY DEF NeverClobbers, IsTaken
<1>2. PairOfFile'
  <2> SUFFICES ASSUME onMessenger, before.id = None, ~IsTaken,
                      file' = [id |-> IF file.id = None THEN id ELSE file.id, token |-> token]
               PROVE  file'.id = file'.token
    BY DEF PairOfFile
  <2>1. file.id = None
    BY DEF PairOfFile, IsTaken
  <2> QED
    BY <2>1 DEF OfferIsPair
<1> QED
  BY <1>1, <1>2 DEF CallsAreCounted, NothingBeforeStart, HeardWhileWaiting, CodeCameFromUs,
    ExchangesFollowCode, OfferIsPair, EndIsReleased

LEMMA CaptureInvStep == CaptureInv /\ [Next]_vars => CaptureInv'
<1> SUFFICES ASSUME CaptureInv, [Next]_vars PROVE CaptureInv'
  OBVIOUS
<1> USE DEF CaptureInv, CallsAreCounted, NothingBeforeStart, HeardWhileWaiting, CodeCameFromUs,
        ExchangesFollowCode, OfferIsPair, EndIsReleased, NeverClobbers, PairOfFile,
        resources, capture
<1>1. CASE UNCHANGED vars
  BY <1>1 DEF vars
<1> SUFFICES ASSUME Next PROVE CaptureInv'
  BY <1>1
<1>2. UNCHANGED <<onMessenger, fixedState>>
  BY DEF Next
<1>3. CASE Refuse \/ WrongHost \/ Open
  BY <1>2, <1>3 DEF Refuse, WrongHost, Open
<1>4. CASE Timeout
  BY <1>2, <1>4 DEF Timeout, Finish
<1>5. CASE Interrupt
  BY <1>2, <1>5 DEF Interrupt
<1>6. ASSUME NEW ours \in BOOLEAN, NEW kind \in {"code", "error"}, Callback(ours, kind)
      PROVE  CaptureInv'
  <2> HIDE DEF CaptureInv
  <2> QED
    BY <1>2, <1>6, CallbackKeepsInv
<1>7. CASE Exchange \/ Swap
  BY <1>2, <1>7 DEF Exchange, Swap
<1>8. CASE ListPages
  BY <1>2, <1>8 DEF ListPages
<1>9. CASE Identify
  BY <1>2, <1>9 DEF Identify
<1>10. CASE AppendToEnv
  <2> HIDE DEF CaptureInv
  <2> QED
    BY <1>2, <1>10, AppendKeepsInv
<1>11. CASE Teardown
  BY <1>2, <1>11 DEF Teardown
<1> QED
  BY <1>3, <1>4, <1>5, <1>6, <1>7, <1>8, <1>9, <1>10, <1>11 DEF Next

-----------------------------------------------------------------------------
\* A capture whose state is generated goes on only with a callback of its own run; none
\* replaces a token that .env has, and with Messenger it writes a page's id with that
\* page's token and leaves neither tunnel nor listener (both main, waitForCallback,
\* maybeAppendToEnv).
THEOREM CaptureSound == Spec => []CaptureIsSound
<1>1. CaptureInv => CaptureIsSound
  BY DEF CaptureInv, CaptureIsSound, CodeIsOurs, FreshPairMatches, ReleasedAtEnd,
    CodeCameFromUs, ExchangesFollowCode, EndIsReleased, PairOfFile
<1> QED
  BY <1>1, CaptureInvInit, CaptureInvStep, PTL DEF Spec

-----------------------------------------------------------------------------
(***************************************************************************)
(* The scripts share no state: a step of the suite is a step of one, and   *)
(* the others rest.                                                        *)
(***************************************************************************)

suiteVars ==
  <<part, vars, registrationVars, profileVars, verificationVars, refreshVars,
    captureVars, probeVars, sweepVars>>

LEMMA PartsStep ==
  ASSUME [PartsNext]_suiteVars
  PROVE  /\ UNCHANGED part
         /\ [Registration!Next]_registrationVars
         /\ [Profile!Next]_profileVars
         /\ [Verification!Next]_verificationVars
         /\ [Refreshing!Next]_refreshVars
         /\ [Probe!Next]_probeVars
         /\ [Reactions!Next]_sweepVars
         /\ part = "guided capture" => [GuidedCapture!Next]_captureVars
         /\ part = "passive capture" => [PassiveCapture!Next]_captureVars
<1>1. CASE UNCHANGED suiteVars
  BY <1>1 DEF suiteVars
<1>2. CASE CaptureToken \/ RegisterWebhooks \/ ConfigureProfile
  BY <1>2 DEF CaptureToken, RegisterWebhooks, ConfigureProfile
<1>3. CASE VerifySetup \/ RefreshTokens
  BY <1>3 DEF VerifySetup, RefreshTokens
<1>4. CASE CaptureGuided \/ CapturePassively
  BY <1>4 DEF CaptureGuided, CapturePassively
<1>5. CASE ProbeOutbound \/ SweepReactions
  BY <1>5 DEF ProbeOutbound, SweepReactions
<1> QED
  BY <1>1, <1>2, <1>3, <1>4, <1>5 DEF PartsNext

-----------------------------------------------------------------------------
(***************************************************************************)
(* The refresh of the tokens (QuietMeansFresh of TokenRefresh), proved for *)
(* any accounts and any .env.                                              *)
(***************************************************************************)

ToGo(a) == \E i \in DOMAIN accountsToGo : accountsToGo[i] = a

RefreshTypeOK ==
  /\ write \in BOOLEAN /\ anyFailed \in BOOLEAN /\ edits \in Nat
  /\ accountsToGo \in Seq(Refreshing!Names)
  /\ env = [a \in Refreshing!Names |-> Refreshing!Token(a, "old")]
  /\ DOMAIN envFile = Refreshing!Names /\ DOMAIN read = Refreshing!Names

\* A line holds its own account's token, also in what the script read.
OwnLines(lines) == \A a \in Refreshing!Names : lines[a] # None => lines[a][1] = a

\* Between the read and the write of a line it is only the operator who edits.
ReadIsCurrent ==
  refreshStage = "writing" => write /\ accountsToGo # <<>> /\ (edits = 0 => read = envFile)

\* An account is to come, or has its new token, unless something failed.
ToGoOrFresh ==
  write /\ ~anyFailed /\ edits = 0 =>
    \A a \in Refreshing!Names : ToGo(a) \/ envFile[a] = Refreshing!Token(a, "new")

DoneIsThrough == refreshStage = "done" /\ ~anyFailed => accountsToGo = <<>>

RefreshInv ==
  /\ RefreshTypeOK /\ OwnLines(envFile) /\ OwnLines(read)
  /\ ReadIsCurrent /\ ToGoOrFresh /\ DoneIsThrough

\* When an account is through, the others still are to go.
LEMMA NextToGo ==
  ASSUME RefreshTypeOK, accountsToGo # <<>>, accountsToGo' = Tail(accountsToGo)
  PROVE  /\ Head(accountsToGo) \in Refreshing!Names
         /\ accountsToGo' \in Seq(Refreshing!Names)
         /\ \A a : ToGo(a) => a = Head(accountsToGo) \/ ToGo(a)'
<1>1. accountsToGo \in Seq(Refreshing!Names) /\ Len(accountsToGo) \in Nat \ {0}
  BY DEF RefreshTypeOK
<1>2. /\ Head(accountsToGo) = accountsToGo[1] /\ Head(accountsToGo) \in Refreshing!Names
      /\ accountsToGo' \in Seq(Refreshing!Names)
      /\ Len(accountsToGo') = Len(accountsToGo) - 1
      /\ \A i \in 1..Len(accountsToGo') : accountsToGo'[i] = accountsToGo[i + 1]
  BY <1>1
<1>3. ASSUME NEW a, NEW i \in DOMAIN accountsToGo, accountsToGo[i] = a, i # 1
      PROVE  ToGo(a)'
  <2>1. i - 1 \in 1..Len(accountsToGo') /\ (i - 1) + 1 = i
    BY <1>1, <1>2, <1>3
  <2>2. accountsToGo'[i - 1] = a /\ i - 1 \in DOMAIN accountsToGo'
    BY <1>2, <1>3, <2>1
  <2> QED
    BY <2>2 DEF ToGo
<1> QED
  BY <1>2, <1>3 DEF ToGo

LEMMA RefreshInvInit == Refreshing!Init => RefreshInv
<1> SUFFICES ASSUME Refreshing!Init PROVE RefreshInv
  OBVIOUS
<1>1. accountsToGo \in Seq(Refreshing!Names)
  BY RefreshingAssumption DEF Refreshing!Init, Refreshing!RefreshAssumption
<1>2. RefreshTypeOK
  BY <1>1 DEF Refreshing!Init, RefreshTypeOK, Refreshing!Lines
<1>3. OwnLines(envFile) /\ OwnLines(read)
  BY DEF Refreshing!Init, OwnLines, Refreshing!Token
<1>4. \A a \in Refreshing!Names : ToGo(a)
  BY DEF Refreshing!Init, ToGo, Refreshing!Names, Refreshing!Range
<1> QED
  BY <1>2, <1>3, <1>4 DEF Refreshing!Init, RefreshInv, ReadIsCurrent, ToGoOrFresh, DoneIsThrough

LEMMA RefreshInvStep == RefreshInv /\ [Refreshing!Next]_refreshVars => RefreshInv'
<1> SUFFICES ASSUME RefreshInv, [Refreshing!Next]_refreshVars PROVE RefreshInv'
  OBVIOUS
<1> USE DEF RefreshInv
<1>1. CASE UNCHANGED refreshVars
  BY <1>1 DEF refreshVars, RefreshTypeOK, OwnLines, ReadIsCurrent, ToGoOrFresh, DoneIsThrough, ToGo
<1>2. CASE Refreshing!Refuse \/ Refreshing!Start \/ Refreshing!Finish
  <2>1. /\ UNCHANGED <<write, accountsToGo, env, envFile, read, edits>> /\ refreshStage' # "writing"
        /\ UNCHANGED anyFailed \/ anyFailed'
        /\ anyFailed' \in BOOLEAN
        /\ refreshStage' = "done" => anyFailed' \/ accountsToGo = <<>>
    BY <1>2 DEF Refreshing!Refuse, Refreshing!Start, Refreshing!Finish, RefreshTypeOK
  <2>2. \A a : ToGo(a)' <=> ToGo(a)
    BY <2>1 DEF ToGo
  <2> QED
    BY <2>1, <2>2 DEF RefreshTypeOK, OwnLines, ReadIsCurrent, ToGoOrFresh, DoneIsThrough
<1>3. CASE Refreshing!Fail
  BY <1>3, NextToGo DEF Refreshing!Fail, RefreshTypeOK, OwnLines, ReadIsCurrent, ToGoOrFresh, DoneIsThrough
<1>4. CASE Refreshing!Refresh
  <2>1. CASE write
    BY <1>4, <2>1 DEF Refreshing!Refresh, RefreshTypeOK, OwnLines, ReadIsCurrent, ToGoOrFresh,
      DoneIsThrough, ToGo
  <2>2. CASE ~write
    BY <1>4, <2>2, NextToGo DEF Refreshing!Refresh, RefreshTypeOK, OwnLines, ReadIsCurrent,
      ToGoOrFresh, DoneIsThrough
  <2> QED
    BY <2>1, <2>2
<1>5. CASE Refreshing!WriteFile
  <2> DEFINE a == Head(accountsToGo)
  <2>1. /\ refreshStage = "writing" /\ refreshStage' = "refreshing"
        /\ accountsToGo' = Tail(accountsToGo)
        /\ UNCHANGED <<write, env, read, edits>>
    BY <1>5 DEF Refreshing!WriteFile
  <2>2. a \in Refreshing!Names /\ accountsToGo' \in Seq(Refreshing!Names)
    BY <2>1, NextToGo DEF ReadIsCurrent
  <2>3. env[a][1] = a
    BY <2>2 DEF RefreshTypeOK, Refreshing!Token
  <2>4. \/ anyFailed' /\ anyFailed' \in BOOLEAN /\ UNCHANGED envFile
        \/ envFile' = [read EXCEPT ![a] = Refreshing!Token(a, "new")] /\ UNCHANGED anyFailed
    BY <1>5, <2>3 DEF Refreshing!WriteFile, Refreshing!Missing, Refreshing!Line, RefreshTypeOK
  <2>5. RefreshTypeOK' /\ OwnLines(envFile)' /\ OwnLines(read)'
    BY <2>1, <2>2, <2>4 DEF RefreshTypeOK, OwnLines, Refreshing!Token
  <2>6. ToGoOrFresh'
    <3> SUFFICES ASSUME write, ~anyFailed', edits = 0, NEW b \in Refreshing!Names, ~ToGo(b)'
                 PROVE  envFile'[b] = Refreshing!Token(b, "new")
      BY <2>1 DEF ToGoOrFresh
    <3>1. envFile' = [envFile EXCEPT ![a] = Refreshing!Token(a, "new")] /\ ~anyFailed
      BY <2>1, <2>4 DEF ReadIsCurrent
    <3>2. b # a => ~ToGo(b)
      BY <2>1, NextToGo DEF ReadIsCurrent
    <3> QED
      BY <3>1, <3>2 DEF ToGoOrFresh, RefreshTypeOK
  <2> QED
    BY <2>1, <2>5, <2>6 DEF ReadIsCurrent, DoneIsThrough
<1>6. ASSUME NEW a \in Refreshing!Names, Refreshing!Edit(a) PROVE RefreshInv'
  BY <1>6 DEF Refreshing!Edit, Refreshing!Token, RefreshTypeOK, OwnLines, ReadIsCurrent,
    ToGoOrFresh, DoneIsThrough, ToGo
<1> QED
  BY <1>1, <1>2, <1>3, <1>4, <1>5, <1>6 DEF Refreshing!Next

\* No line ever holds another account's token, and after a quiet end with --write
\* every account's line of an unedited .env holds its new one (replaceTokenLine,
\* anyFailed of refresh-instagram-tokens.ts).
THEOREM QuietRefreshIsFresh == PartsSpec => []QuietMeansFresh
<1>1. PartsInit => RefreshInv
  BY RefreshInvInit DEF PartsInit
<1>2. RefreshInv /\ [PartsNext]_suiteVars => RefreshInv'
  BY PartsStep, RefreshInvStep
<1>3. RefreshInv => QuietMeansFresh
  BY DEF RefreshInv, QuietMeansFresh, Refreshing!QuietMeansFresh, OwnLines, ToGoOrFresh,
    DoneIsThrough, ToGo
<1> QED
  BY <1>1, <1>2, <1>3, PTL DEF PartsSpec, suiteVars

-----------------------------------------------------------------------------
(***************************************************************************)
(* The verification (VerdictIsHeard of SetupVerification), proved for any  *)
(* channels in any order and any deliveries.                               *)
(***************************************************************************)

StepNames == {"config", "token", "webhook", "confirm", "inbound", "outbound", "reaction"}

\* The inbound test of the channel is still to be passed, or to be waited for.
InboundToCome == \E i \in DOMAIN todo : todo[i] = "inbound"

HeardOn(c) == \E w \in captures : Verification!FitsFor(w, c, "text")

VerifyTypeOK == channel \in 1..Len(Verified) /\ todo \in Seq(StepNames)

OneInbound == \A i, j \in DOMAIN todo : todo[i] = "inbound" /\ todo[j] = "inbound" => i = j

\* A wait belongs to the step at the head.
WaitsAtStep == waiting # None => todo # <<>> /\ (waiting = "text" <=> Head(todo) = "inbound")

\* A channel that is past its inbound test heard a text, or failed.
ChannelsAreHeard ==
  /\ Verification!Failed(Verified[channel]) \/ InboundToCome \/ HeardOn(Verified[channel])
  /\ \A i \in DOMAIN Verified : i < channel => Verification!Failed(Verified[i]) \/ HeardOn(Verified[i])

SessionIsWhole ==
  /\ verifyStage = "booting" => verdicts = {}
  /\ verifyStage = "closed" => verdicts = {} \/ (channel = Len(Verified) /\ todo = <<>>)

SenderIsHeard == sender # None => Verification!Wrote(sender, Verified[channel])

InboundFailed(c) == <<c, "inbound", "fail">> \in verdicts

HeardBefore(c) == <<c, "text">> \in early

\* No inbound test was made before its time; one that began with a text is passed.
TestsAreFair ==
  /\ \A i \in DOMAIN Verified :
       /\ HeardBefore(Verified[i]) => ~InboundFailed(Verified[i])
       /\ i > channel => ~HeardBefore(Verified[i]) /\ ~InboundFailed(Verified[i])
  /\ InboundToCome => ~InboundFailed(Verified[channel])
  /\ InboundToCome /\ waiting # "text" => ~HeardBefore(Verified[channel])
  /\ waiting = "text" /\ HeardBefore(Verified[channel]) => found = "before"

VerifyInv ==
  /\ VerifyTypeOK /\ OneInbound /\ WaitsAtStep /\ ChannelsAreHeard
  /\ SessionIsWhole /\ SenderIsHeard /\ TestsAreFair

-----------------------------------------------------------------------------
\* What the script goes through on a channel has one inbound test.
LEMMA StepsHaveInbound ==
  ASSUME NEW c \in {"whatsapp", "messenger", "instagram"}
  PROVE  /\ Verification!StepsOf(c) \in Seq(StepNames)
         /\ \E i \in DOMAIN Verification!StepsOf(c) : Verification!StepsOf(c)[i] = "inbound"
         /\ \A i, j \in DOMAIN Verification!StepsOf(c) :
              Verification!StepsOf(c)[i] = "inbound" /\ Verification!StepsOf(c)[j] = "inbound" => i = j
<1>1. CASE c = "whatsapp"
  <2>1. Verification!StepsOf(c) = <<"config", "token", "webhook", "outbound", "inbound", "reaction">>
    BY <1>1 DEF Verification!StepsOf, Verification!WhatsAppSteps
  <2> QED
    BY <2>1 DEF StepNames
<1>2. CASE c = "messenger"
  <2>1. Verification!StepsOf(c) =
          <<"config", "token", "webhook", "confirm", "inbound", "outbound", "reaction">>
    BY <1>2 DEF Verification!StepsOf, Verification!MessengerSteps
  <2> QED
    BY <2>1 DEF StepNames
<1>3. CASE c = "instagram"
  <2>1. Verification!StepsOf(c) =
          <<"config", "token", "webhook", "confirm", "confirm", "inbound", "outbound", "reaction">>
    BY <1>3 DEF Verification!StepsOf, Verification!InstagramSteps
  <2> QED
    BY <2>1 DEF StepNames
<1> QED
  BY <1>1, <1>2, <1>3

\* A step less: the inbound test is still to come unless it was that step.
LEMMA StepLess ==
  ASSUME VerifyTypeOK, OneInbound, todo # <<>>, todo' = Tail(todo)
  PROVE  /\ todo' \in Seq(StepNames) /\ OneInbound'
         /\ InboundToCome' <=> (InboundToCome /\ Head(todo) # "inbound")
         /\ Head(todo) = "inbound" => InboundToCome
<1>1. /\ Len(todo) \in Nat \ {0} /\ Head(todo) = todo[1]
      /\ todo' \in Seq(StepNames) /\ Len(todo') = Len(todo) - 1
      /\ DOMAIN todo = 1..Len(todo) /\ DOMAIN todo' = 1..Len(todo')
      /\ \A i \in 1..Len(todo') : todo'[i] = todo[i + 1]
  BY DEF VerifyTypeOK
<1>2. OneInbound'
  BY <1>1 DEF OneInbound
<1>3. InboundToCome' => InboundToCome /\ Head(todo) # "inbound"
  <2> SUFFICES ASSUME NEW i \in DOMAIN todo', todo'[i] = "inbound"
               PROVE  InboundToCome /\ Head(todo) # "inbound"
    BY DEF InboundToCome
  <2>1. i + 1 \in DOMAIN todo /\ todo[i + 1] = "inbound" /\ i + 1 # 1
    BY <1>1
  <2> QED
    BY <1>1, <2>1 DEF InboundToCome, OneInbound
<1>4. InboundToCome /\ Head(todo) # "inbound" => InboundToCome'
  <2> SUFFICES ASSUME NEW i \in DOMAIN todo, todo[i] = "inbound", i # 1
               PROVE  InboundToCome'
    BY <1>1 DEF InboundToCome
  <2>1. i - 1 \in DOMAIN todo' /\ (i - 1) + 1 = i
    BY <1>1
  <2> QED
    BY <1>1, <2>1 DEF InboundToCome
<1> QED
  BY <1>1, <1>2, <1>3, <1>4 DEF InboundToCome

\* The channels are told apart by their places.
LEMMA ChannelPlaces ==
  /\ Verified \in Seq({"whatsapp", "messenger", "instagram"}) /\ Len(Verified) \in Nat \ {0}
  /\ \A i, j \in DOMAIN Verified : Verified[i] = Verified[j] => i = j
  /\ Verification!Channels = {Verified[i] : i \in DOMAIN Verified}
  /\ None # "text"
BY VerifyingAssumption DEF Verification!VerificationAssumption, Verification!Channels, Verification!Range,
  Verification!Kinds

LEMMA VerifyInvInit == Verification!Init => VerifyInv
<1> SUFFICES ASSUME Verification!Init PROVE VerifyInv
  OBVIOUS
<1>1. Verified[1] \in {"whatsapp", "messenger", "instagram"}
  BY ChannelPlaces
<1>2. /\ channel = 1 /\ todo = Verification!StepsOf(Verified[1])
      /\ waiting = None /\ verifyStage = "booting"
      /\ sender = None /\ verdicts = {} /\ early = {}
  BY DEF Verification!Init
<1>3. todo \in Seq(StepNames) /\ InboundToCome /\ OneInbound
  BY <1>1, <1>2, StepsHaveInbound DEF InboundToCome, OneInbound
<1> QED
  BY <1>2, <1>3, ChannelPlaces DEF VerifyInv, VerifyTypeOK, WaitsAtStep, ChannelsAreHeard,
    SessionIsWhole, SenderIsHeard, TestsAreFair, HeardBefore, InboundFailed

\* A step other than the inbound test is done with, whatever came of it.
LEMMA StepKeepsInv ==
  ASSUME VerifyInv, verifyStage = "running", todo # <<>>, Head(todo) # "inbound", todo' = Tail(todo),
         NEW status, verdicts' = verdicts \union {<<Verified[channel], Head(todo), status>>},
         waiting' = None, UNCHANGED <<verifyStage, channel, captures, early>>,
         sender' = sender
  PROVE  VerifyInv'
<1> USE DEF VerifyInv
<1>1. todo' \in Seq(StepNames) /\ OneInbound' /\ (InboundToCome' <=> InboundToCome)
  BY StepLess
<1>2. \A c : InboundFailed(c)' <=> InboundFailed(c)
  BY DEF InboundFailed
<1>3. \A c : /\ Verification!Failed(c) => Verification!Failed(c)'
             /\ HeardOn(c)' <=> HeardOn(c)
             /\ HeardBefore(c)' <=> HeardBefore(c)
  BY DEF Verification!Failed, HeardOn, Verification!FitsFor, HeardBefore
<1>4. waiting = "text" => FALSE
  BY ChannelPlaces DEF WaitsAtStep
<1> QED
  BY <1>1, <1>2, <1>3, <1>4, ChannelPlaces DEF VerifyTypeOK, WaitsAtStep, ChannelsAreHeard,
    SessionIsWhole, SenderIsHeard, TestsAreFair, Verification!Wrote

\* A failure on record is one of the channel.
LEMMA RecordedFailure ==
  ASSUME NEW s, <<Verified[channel], s, "fail">> \in verdicts', UNCHANGED channel
  PROVE  Verification!Failed(Verified[channel])'
<1> DEFINE v == <<Verified[channel], s, "fail">>
<1>1. v \in verdicts' /\ v[1] = Verified[channel] /\ v[3] = "fail"
  OBVIOUS
<1> HIDE DEF v
<1> QED
  BY <1>1 DEF Verification!Failed

\* A failure that ends the channel.
LEMMA FailureKeepsInv ==
  ASSUME VerifyInv, verifyStage = "running", todo' = <<>>, waiting = None, waiting' = None,
         NEW s, s # "inbound", verdicts' = verdicts \union {<<Verified[channel], s, "fail">>},
         UNCHANGED <<verifyStage, channel, captures, sender, early>>
  PROVE  VerifyInv'
<1> USE DEF VerifyInv
<1>1. \A c : InboundFailed(c)' <=> InboundFailed(c)
  BY DEF InboundFailed
<1>2. \A c : /\ Verification!Failed(c) => Verification!Failed(c)'
             /\ HeardOn(c)' <=> HeardOn(c)
             /\ HeardBefore(c)' <=> HeardBefore(c)
  BY DEF Verification!Failed, HeardOn, Verification!FitsFor, HeardBefore
<1>3. Verification!Failed(Verified[channel])'
  BY RecordedFailure
<1>4. ~InboundToCome' /\ OneInbound' /\ todo' \in Seq(StepNames)
  BY DEF InboundToCome, OneInbound
<1> QED
  BY <1>1, <1>2, <1>3, <1>4, ChannelPlaces DEF VerifyTypeOK, WaitsAtStep, ChannelsAreHeard,
    SessionIsWhole, SenderIsHeard, TestsAreFair, Verification!Wrote

\* The script begins to wait for a webhook, and looks at what was captured before.
LEMMA ExpectKeepsInv ==
  ASSUME VerifyInv, verifyStage = "running", todo # <<>>, waiting = None,
         NEW kind \in Verification!Kinds, Head(todo) = "inbound" <=> kind = "text",
         Verification!Expect(kind),
         UNCHANGED <<verifyStage, channel, todo, captures, sender, verdicts>>
  PROVE  VerifyInv'
<1> USE DEF VerifyInv
<1>1. waiting' = kind /\ kind # None
  BY VerifyingAssumption DEF Verification!Expect, Verification!VerificationAssumption
<1>2. \A c : c # Verified[channel] \/ kind # "text" => (HeardBefore(c)' <=> HeardBefore(c))
  BY DEF Verification!Expect, HeardBefore, Verification!Current
<1>3. ASSUME kind = "text" PROVE HeardBefore(Verified[channel])' => found' = "before"
  <2>1. InboundToCome
    BY <1>3 DEF InboundToCome, VerifyTypeOK
  <2>2. ~HeardBefore(Verified[channel])
    BY <2>1, ChannelPlaces DEF TestsAreFair
  <2> QED
    BY <1>3, <2>2 DEF Verification!Expect, Verification!Heard, Verification!FitsFor, HeardBefore,
      Verification!Current
<1>4. \A c : /\ Verification!Failed(c)' <=> Verification!Failed(c)
             /\ HeardOn(c)' <=> HeardOn(c)
             /\ InboundFailed(c)' <=> InboundFailed(c)
  BY DEF Verification!Failed, HeardOn, Verification!FitsFor, InboundFailed
<1>5. (InboundToCome' <=> InboundToCome) /\ OneInbound'
  BY DEF InboundToCome, OneInbound
<1>6. kind = "text" => InboundToCome
  BY DEF InboundToCome, VerifyTypeOK
<1> QED
  BY <1>1, <1>2, <1>3, <1>4, <1>5, <1>6, ChannelPlaces DEF VerifyTypeOK, WaitsAtStep, ChannelsAreHeard,
    SessionIsWhole, SenderIsHeard, TestsAreFair, Verification!Wrote

\* The inbound test ends: with a text that was heard, or with a failure.
LEMMA InboundKeepsInv ==
  ASSUME VerifyInv, verifyStage = "running", waiting = "text", todo' = Tail(todo), waiting' = None,
         UNCHANGED <<verifyStage, channel, captures, early>>,
         NEW status, verdicts' = verdicts \union {<<Verified[channel], Head(todo), status>>},
         \/ /\ status = "pass"
            /\ \E w \in captures : \E i \in DOMAIN w.messages :
                 w.channel = Verified[channel] /\ w.messages[i].kind = "text" /\ sender' = w.messages[i].user
         \/ status = "fail" /\ found # "before" /\ UNCHANGED sender
  PROVE  VerifyInv'
<1> USE DEF VerifyInv
<1>1. todo # <<>> /\ Head(todo) = "inbound"
  BY ChannelPlaces DEF WaitsAtStep
<1>2. todo' \in Seq(StepNames) /\ OneInbound' /\ ~InboundToCome' /\ InboundToCome
  BY <1>1, StepLess
<1>3. \A c : /\ Verification!Failed(c) => Verification!Failed(c)'
             /\ HeardOn(c)' <=> HeardOn(c)
             /\ HeardBefore(c)' <=> HeardBefore(c)
             /\ InboundFailed(c)' <=> (InboundFailed(c) \/ (status = "fail" /\ c = Verified[channel]))
  BY <1>1 DEF Verification!Failed, HeardOn, Verification!FitsFor, HeardBefore, InboundFailed
<1>4. Verification!Failed(Verified[channel])' \/ HeardOn(Verified[channel])'
  BY <1>1, RecordedFailure DEF HeardOn, Verification!FitsFor
<1>5. status = "fail" => ~HeardBefore(Verified[channel])
  BY DEF TestsAreFair
<1>6. SenderIsHeard'
  BY DEF SenderIsHeard, Verification!Wrote
<1> QED
  BY <1>1, <1>2, <1>3, <1>4, <1>5, <1>6, ChannelPlaces DEF VerifyTypeOK, WaitsAtStep, ChannelsAreHeard,
    SessionIsWhole, TestsAreFair

LEMMA VerifyInvStep == VerifyInv /\ [Verification!Next]_verificationVars => VerifyInv'
<1> SUFFICES ASSUME VerifyInv, [Verification!Next]_verificationVars PROVE VerifyInv'
  OBVIOUS
<1>1. CASE UNCHANGED verificationVars
  BY <1>1 DEF verificationVars, VerifyInv, VerifyTypeOK, OneInbound, WaitsAtStep, ChannelsAreHeard,
    SessionIsWhole, SenderIsHeard, TestsAreFair, InboundToCome, HeardOn, InboundFailed, HeardBefore,
    Verification!Failed,
    Verification!Wrote, Verification!FitsFor
<1>2. ASSUME NEW w \in Deliveries, Verification!Deliver(w) PROVE VerifyInv'
  <2>1. /\ UNCHANGED <<verifyStage, channel, todo, waiting, sender, verdicts, early>>
        /\ captures \subseteq captures' /\ verifyStage # "closed"
        /\ found = "before" => found' = "before"
    BY <1>2 DEF Verification!Deliver
  <2>2. \A c : /\ Verification!Failed(c)' <=> Verification!Failed(c)
               /\ HeardOn(c) => HeardOn(c)'
               /\ InboundFailed(c)' <=> InboundFailed(c)
               /\ HeardBefore(c)' <=> HeardBefore(c)
    BY <2>1 DEF Verification!Failed, HeardOn, Verification!FitsFor, InboundFailed, HeardBefore
  <2>3. SenderIsHeard'
    BY <2>1 DEF VerifyInv, SenderIsHeard, Verification!Wrote
  <2>4. (InboundToCome' <=> InboundToCome) /\ (OneInbound' <=> OneInbound)
    BY <2>1 DEF InboundToCome, OneInbound
  <2> QED
    BY <2>1, <2>2, <2>3, <2>4 DEF VerifyInv, VerifyTypeOK, WaitsAtStep, ChannelsAreHeard,
      SessionIsWhole, TestsAreFair
<1>3. CASE Verification!Refuse \/ Verification!Boot \/ Verification!Close
  <2>1. UNCHANGED <<channel, todo, waiting, found, early, captures, sender, verdicts>>
    BY <1>3 DEF Verification!Refuse, Verification!Boot, Verification!Close, Verification!wait
  <2>2. SessionIsWhole'
    BY <1>3 DEF Verification!Refuse, Verification!Boot, Verification!Close, Verification!wait,
      VerifyInv, SessionIsWhole
  <2> QED
    BY <2>1, <2>2 DEF VerifyInv, VerifyTypeOK, OneInbound, WaitsAtStep, ChannelsAreHeard,
      SenderIsHeard, TestsAreFair, InboundToCome, HeardOn, InboundFailed, HeardBefore, Verification!Failed,
      Verification!Wrote, Verification!FitsFor
<1>4. ASSUME NEW s \in {"config", "token", "webhook"}, Verification!Check(s) PROVE VerifyInv'
  <2>1. /\ verifyStage = "running" /\ todo # <<>> /\ Head(todo) # "inbound"
        /\ waiting = None /\ UNCHANGED <<verifyStage, channel, captures, sender, waiting, early>>
    BY <1>4 DEF Verification!Check, Verification!AtStep, Verification!wait
  <2>2. CASE todo' = Tail(todo)
    <3>1. PICK status \in {"pass", "fail"} :
            verdicts' = verdicts \union {<<Verified[channel], Head(todo), status>>}
      BY <1>4 DEF Verification!Check, Verification!Record, Verification!Current
    <3> QED
      BY <2>1, <2>2, <3>1, StepKeepsInv
  <2>3. CASE todo' # Tail(todo)
    <3>1. todo' = <<>> /\ verdicts' = verdicts \union {<<Verified[channel], Head(todo), "fail">>}
      BY <1>4, <2>3 DEF Verification!Check, Verification!Record, Verification!Current
    <3> QED
      BY <2>1, <3>1, FailureKeepsInv
  <2> QED
    BY <2>2, <2>3
<1>5. CASE Verification!Confirm \/ Verification!Reply
  <2>1. /\ verifyStage = "running" /\ todo # <<>> /\ Head(todo) # "inbound" /\ todo' = Tail(todo)
        /\ waiting = None /\ UNCHANGED <<verifyStage, channel, captures, sender, waiting, early>>
    BY <1>5 DEF Verification!Confirm, Verification!Reply, Verification!AtStep, Verification!wait
  <2>2. PICK status \in {"pass", "fail", "skip"} :
          verdicts' = verdicts \union {<<Verified[channel], Head(todo), status>>}
    BY <1>5 DEF Verification!Confirm, Verification!Reply, Verification!Record, Verification!Current
  <2> QED
    BY <2>1, <2>2, StepKeepsInv
<1>6. CASE Verification!BeginInbound \/ Verification!BeginReaction \/ Verification!SendTemplate
  <2>1. /\ verifyStage = "running" /\ todo # <<>> /\ waiting = None
        /\ UNCHANGED <<verifyStage, channel, captures, sender>>
    BY <1>6 DEF Verification!BeginInbound, Verification!BeginReaction, Verification!SendTemplate,
      Verification!AtStep
  <2>2. CASE \E kind \in Verification!Kinds :
               /\ Verification!Expect(kind) /\ (Head(todo) = "inbound" <=> kind = "text")
               /\ UNCHANGED <<todo, verdicts>>
    BY <2>1, <2>2, ExpectKeepsInv
  <2>3. CASE /\ Head(todo) # "inbound" /\ todo' = Tail(todo)
             /\ waiting' = waiting /\ early' = early
             /\ \E status \in {"skip", "fail"} :
                  verdicts' = verdicts \union {<<Verified[channel], Head(todo), status>>}
    BY <2>1, <2>3, StepKeepsInv
  <2>4. CASE Verification!BeginInbound
    BY <2>2, <2>4 DEF Verification!BeginInbound, Verification!AtStep, Verification!Kinds
  <2>5. CASE Verification!BeginReaction
    BY <2>2, <2>3, <2>5 DEF Verification!BeginReaction, Verification!AtStep, Verification!Kinds,
      Verification!Record, Verification!Current, Verification!wait
  <2>6. CASE Verification!SendTemplate
    BY <2>2, <2>3, <2>6 DEF Verification!SendTemplate, Verification!AtStep, Verification!Kinds,
      Verification!Record, Verification!Current, Verification!wait
  <2> QED
    BY <1>6, <2>4, <2>5, <2>6
<1>7. CASE Verification!EndWait
  <2>1. /\ verifyStage = "running" /\ waiting # None /\ waiting' = None /\ todo' = Tail(todo)
        /\ verdicts' = verdicts \union {<<Verified[channel], Head(todo), "pass">>}
        /\ UNCHANGED <<verifyStage, channel, captures, early>>
    BY <1>7 DEF Verification!EndWait, Verification!Record, Verification!Current
  <2>2. CASE waiting = "text"
    <3>1. \E w \in captures : \E i \in DOMAIN w.messages :
            w.channel = Verified[channel] /\ w.messages[i].kind = "text" /\ sender' = w.messages[i].user
      BY <1>7, <2>2 DEF Verification!EndWait, Verification!FitsFor, Verification!FirstTexts,
        Verification!Current
    <3> QED
      BY <2>1, <2>2, <3>1, InboundKeepsInv
  <2>3. CASE waiting # "text"
    <3>1. UNCHANGED sender /\ todo # <<>> /\ Head(todo) # "inbound"
      BY <1>7, <2>1, <2>3 DEF Verification!EndWait, VerifyInv, WaitsAtStep
    <3> QED
      BY <2>1, <3>1, StepKeepsInv
  <2> QED
    BY <2>2, <2>3
<1>8. CASE Verification!TimeOut
  <2>1. /\ verifyStage = "running" /\ waiting # None /\ waiting' = None /\ todo' = Tail(todo)
        /\ found # "before" /\ UNCHANGED <<verifyStage, channel, captures, sender, early>>
    BY <1>8 DEF Verification!TimeOut
  <2>2. CASE waiting = "text"
    <3>1. verdicts' = verdicts \union {<<Verified[channel], Head(todo), "fail">>}
      BY <1>8, <2>2 DEF Verification!TimeOut, Verification!Record, Verification!Current
    <3> QED
      BY <2>1, <2>2, <3>1, InboundKeepsInv
  <2>3. CASE waiting # "text"
    <3>1. todo # <<>> /\ Head(todo) # "inbound"
      BY <2>1, <2>3 DEF VerifyInv, WaitsAtStep
    <3>2. PICK status \in {"skip", "fail"} :
            verdicts' = verdicts \union {<<Verified[channel], Head(todo), status>>}
      BY <1>8 DEF Verification!TimeOut, Verification!Record, Verification!Current
    <3> QED
      BY <2>1, <3>1, <3>2, StepKeepsInv
  <2> QED
    BY <2>2, <2>3
<1>9. CASE Verification!Throw
  <2>1. /\ verifyStage = "running" /\ todo' = <<>> /\ waiting = None /\ waiting' = None
        /\ verdicts' = verdicts \union {<<Verified[channel], "runner", "fail">>}
        /\ UNCHANGED <<verifyStage, channel, captures, sender, early>>
    BY <1>9 DEF Verification!Throw, Verification!wait, Verification!Current
  <2> QED
    BY <2>1, FailureKeepsInv
<1>10. CASE Verification!NextChannel
  <2>1. /\ verifyStage = "running" /\ todo = <<>> /\ channel < Len(Verified)
        /\ channel' = channel + 1 /\ todo' = Verification!StepsOf(Verified[channel + 1]) /\ sender' = None
        /\ UNCHANGED <<verifyStage, waiting, found, early, captures, verdicts>>
    BY <1>10 DEF Verification!NextChannel, Verification!wait
  <2>2. /\ channel' \in 1..Len(Verified)
        /\ Verified[channel + 1] \in {"whatsapp", "messenger", "instagram"}
    BY <2>1, ChannelPlaces DEF VerifyInv, VerifyTypeOK
  <2>3. todo' \in Seq(StepNames) /\ InboundToCome' /\ OneInbound'
    BY <2>1, <2>2, StepsHaveInbound DEF InboundToCome, OneInbound
  <2>4. waiting = None /\ ~InboundToCome
    BY <2>1 DEF VerifyInv, WaitsAtStep, InboundToCome
  <2>5. \A c : /\ Verification!Failed(c)' <=> Verification!Failed(c)
               /\ HeardOn(c)' <=> HeardOn(c)
               /\ InboundFailed(c)' <=> InboundFailed(c)
               /\ HeardBefore(c)' <=> HeardBefore(c)
    BY <2>1 DEF Verification!Failed, HeardOn, Verification!FitsFor, InboundFailed, HeardBefore
  <2>6. ASSUME NEW i \in DOMAIN Verified, i < channel + 1
        PROVE  Verification!Failed(Verified[i]) \/ HeardOn(Verified[i])
    <3>1. i = channel \/ i < channel
      BY <2>6, ChannelPlaces DEF VerifyInv, VerifyTypeOK
    <3> QED
      BY <2>4, <3>1 DEF VerifyInv, ChannelsAreHeard
  <2>7. ASSUME NEW i \in DOMAIN Verified
        PROVE  /\ HeardBefore(Verified[i]) => ~InboundFailed(Verified[i])
               /\ i > channel => ~HeardBefore(Verified[i]) /\ ~InboundFailed(Verified[i])
               /\ i > channel + 1 => i > channel
    BY ChannelPlaces DEF VerifyInv, VerifyTypeOK, TestsAreFair
  <2>8. channel + 1 \in DOMAIN Verified /\ channel + 1 > channel
    BY <2>1, <2>2, ChannelPlaces DEF VerifyInv, VerifyTypeOK
  <2>9. ChannelsAreHeard' /\ TestsAreFair'
    BY <2>1, <2>3, <2>4, <2>5, <2>6, <2>7, <2>8, ChannelPlaces DEF ChannelsAreHeard, TestsAreFair
  <2> QED
    BY <2>1, <2>2, <2>3, <2>4, <2>9 DEF VerifyInv, VerifyTypeOK, WaitsAtStep, SessionIsWhole,
      SenderIsHeard
<1> QED
  BY <1>1, <1>2, <1>3, <1>4, <1>5, <1>6, <1>7, <1>8, <1>9, <1>10 DEF Verification!Next

\* A verification that passes has heard a user on each channel, replies to nobody
\* else, and asks for no text that it has (captureExpectedWebhook of verify-shared.ts,
\* VerifyResultBuilder.build).
THEOREM PassedIsHeard == PartsSpec => []VerdictIsHeard
<1>1. PartsInit => VerifyInv
  BY VerifyInvInit DEF PartsInit
<1>2. VerifyInv /\ [PartsNext]_suiteVars => VerifyInv'
  BY PartsStep, VerifyInvStep
<1>3. VerifyInv => VerdictIsHeard
  <2> SUFFICES ASSUME VerifyInv PROVE Verification!VerdictIsHeard
    BY DEF VerdictIsHeard
  <2>1. ASSUME verifyStage = "closed", verdicts # {}, NEW i \in DOMAIN Verified,
               ~Verification!Failed(Verified[i])
        PROVE  HeardOn(Verified[i])
    <3>1. channel = Len(Verified) /\ ~InboundToCome
      BY <2>1 DEF VerifyInv, SessionIsWhole, InboundToCome
    <3>2. i = channel \/ i < channel
      BY <2>1, <3>1, ChannelPlaces
    <3> QED
      BY <2>1, <3>1, <3>2 DEF VerifyInv, ChannelsAreHeard
  <2> QED
    BY <2>1, ChannelPlaces DEF VerifyInv, Verification!VerdictIsHeard, HeardOn, SenderIsHeard,
      TestsAreFair, HeardBefore, InboundFailed, Verification!Current
<1> QED
  BY <1>1, <1>2, <1>3, PTL DEF PartsSpec, suiteVars

-----------------------------------------------------------------------------
(***************************************************************************)
(* The capture of webhooks (NoneIsMissed of WebhookCapture): the guided    *)
(* walk for any scenarios and any webhooks, and the passive script for any *)
(* webhooks that do not share a moment and a type.                         *)
(***************************************************************************)

Outcomes == Nat \X (Hooks \union {"skipped"})

Queued(h) == \E i \in DOMAIN hooks : hooks[i] = h

Used(h) == \E i \in DOMAIN outcomes : outcomes[i][2] = h

GuidedTypeOK ==
  /\ step \in Nat /\ hooks \in Seq(Hooks) /\ outcomes \in Seq(Outcomes)
  /\ DOMAIN saving \subseteq Hooks
  /\ waiter \in BOOLEAN

\* A webhook is in one place: in the queue, being saved, or used.
InOnePlace ==
  /\ \A i, j \in DOMAIN hooks : hooks[i] = hooks[j] => i = j
  /\ \A h \in Hooks :
       /\ Queued(h) \/ h \in DOMAIN saving \/ Used(h) => h \in acked
       /\ Queued(h) => h \notin DOMAIN saving /\ ~Used(h)
       /\ h \in DOMAIN saving => ~Used(h)

\* One webhook is being saved, and it fits the scenario.
SavesWhatFits ==
  /\ DOMAIN saving # {} => mode = "saving"
  /\ \A h \in DOMAIN saving : <<h, Scenarios[step]>> \in Fits
  /\ \A g, h \in DOMAIN saving : g = h

GuidedInv ==
  /\ GuidedTypeOK /\ InOnePlace /\ SavesWhatFits
  /\ GuidedCapture!NoneIsMissed /\ GuidedCapture!ServesOne

-----------------------------------------------------------------------------
LEMMA GuidedInvInit == GuidedCapture!Init => GuidedInv
<1> SUFFICES ASSUME GuidedCapture!Init PROVE GuidedInv
  OBVIOUS
<1>1. /\ step = 1 /\ mode = "next" /\ waiter = FALSE
      /\ hooks = <<>> /\ outcomes = <<>> /\ saving = <<>>
  BY DEF GuidedCapture!Init
<1>2. /\ hooks \in Seq(Hooks) /\ DOMAIN hooks = {}
      /\ outcomes \in Seq(Outcomes) /\ DOMAIN outcomes = {}
      /\ DOMAIN saving = {}
  BY <1>1
<1>3. InOnePlace
  BY <1>2 DEF InOnePlace, Queued, Used
<1> QED
  BY <1>1, <1>2, <1>3 DEF GuidedInv, GuidedTypeOK, SavesWhatFits,
    GuidedCapture!NoneIsMissed, GuidedCapture!ServesOne

\* A sequence without its element at place i.
LEMMA RemoveAtProperties ==
  ASSUME NEW S, NEW s \in Seq(S), NEW i \in 1..Len(s)
  PROVE  /\ GuidedCapture!RemoveAt(s, i) \in Seq(S)
         /\ Len(GuidedCapture!RemoveAt(s, i)) = Len(s) - 1
         /\ \A k \in 1..(Len(s) - 1) :
              \/ k < i /\ GuidedCapture!RemoveAt(s, i)[k] = s[k]
              \/ i <= k /\ GuidedCapture!RemoveAt(s, i)[k] = s[k + 1]
<1> DEFINE n == Len(s)
           f == SubSeq(s, 1, i - 1)
           g == SubSeq(s, i + 1, n)
<1>1. GuidedCapture!RemoveAt(s, i) = f \o g
  BY DEF GuidedCapture!RemoveAt
<1>2. n \in Nat /\ i \in 1..n /\ \A k \in 1..n : s[k] \in S
  OBVIOUS
<1>3. f \in Seq(S) /\ Len(f) = i - 1 /\ \A k \in 1..(i - 1) : f[k] = s[k]
  BY <1>2, SubSeqProperties
<1>4. g \in Seq(S) /\ Len(g) = n - i /\ \A k \in 1..(n - i) : g[k] = s[k + i]
  <2> DEFINE m == i + 1
  <2>1. /\ m \in Int /\ n \in Int /\ \A k \in m..n : s[k] \in S
        /\ n - m + 1 = n - i /\ (IF m <= n THEN n - m + 1 ELSE 0) = n - i
        /\ \A k \in 1..(n - i) : m + k - 1 = k + i
    BY <1>2
  <2>2. g = SubSeq(s, m, n)
    OBVIOUS
  <2> HIDE DEF g, n, m
  <2>3. /\ g \in Seq(S) /\ Len(g) = IF m <= n THEN n - m + 1 ELSE 0
        /\ \A k \in 1..(n - m + 1) : g[k] = s[m + k - 1]
    BY <2>1, <2>2, SubSeqProperties
  <2> QED
    BY <2>1, <2>3
<1> HIDE DEF f, g, n
<1>5. /\ f \o g \in Seq(S) /\ Len(f \o g) = Len(f) + Len(g)
      /\ \A k \in 1..(Len(f) + Len(g)) : (f \o g)[k] = IF k <= Len(f) THEN f[k] ELSE g[k - Len(f)]
  BY <1>3, <1>4, ConcatProperties
<1> DEFINE t == f \o g
<1>6. t \in Seq(S) /\ Len(t) = n - 1
      /\ \A k \in 1..(n - 1) : t[k] = IF k <= i - 1 THEN f[k] ELSE g[k - (i - 1)]
  BY <1>2, <1>3, <1>4, <1>5
<1> HIDE DEF t
<1>7. ASSUME NEW k \in 1..(n - 1)
      PROVE  (k < i /\ t[k] = s[k]) \/ (i <= k /\ t[k] = s[k + 1])
  <2>1. CASE k <= i - 1
    BY <1>2, <1>3, <1>6, <1>7, <2>1
  <2>2. CASE i <= k
    <3>1. /\ ~(k <= i - 1) /\ k - (i - 1) \in 1..(n - i)
          /\ (k - (i - 1)) + i = k + 1
      BY <1>2, <1>7, <2>2
    <3> QED
      BY <1>4, <1>6, <1>7, <2>2, <3>1
  <2> QED
    BY <1>2, <1>7, <2>1, <2>2
<1> QED
  BY <1>1, <1>6, <1>7 DEF t, n

\* What is cut out of the queue is not in it any more, and nothing else is lost or doubled.
LEMMA CutOut ==
  ASSUME GuidedTypeOK, InOnePlace, NEW i \in DOMAIN hooks, hooks' = GuidedCapture!RemoveAt(hooks, i)
  PROVE  /\ hooks' \in Seq(Hooks)
         /\ \A j, k \in DOMAIN hooks' : hooks'[j] = hooks'[k] => j = k
         /\ \A h : Queued(h)' => Queued(h) /\ h # hooks[i]
<1> DEFINE n == Len(hooks)
<1>1. n \in Nat /\ i \in 1..n /\ DOMAIN hooks = 1..n /\ hooks \in Seq(Hooks)
  BY DEF GuidedTypeOK
<1>2. /\ hooks' \in Seq(Hooks) /\ Len(hooks') = n - 1
      /\ \A k \in 1..(n - 1) : \/ k < i /\ hooks'[k] = hooks[k]
                               \/ i <= k /\ hooks'[k] = hooks[k + 1]
  BY <1>1, RemoveAtProperties
<1>3. DOMAIN hooks' = 1..(n - 1)
  BY <1>2
<1>4. \A j, k \in 1..n : hooks[j] = hooks[k] => j = k
  BY <1>1 DEF InOnePlace
<1> HIDE DEF n
<1>5. ASSUME NEW k \in 1..(n - 1)
      PROVE  \E j \in 1..n : /\ hooks'[k] = hooks[j] /\ j # i
                             /\ (j = k /\ k < i) \/ (j = k + 1 /\ i <= k)
  <2>1. k \in 1..n /\ k + 1 \in 1..n
    BY <1>1, <1>5
  <2>2. (k < i => k # i) /\ (i <= k => k + 1 # i)
    BY <1>1, <1>5
  <2> QED
    BY <1>2, <1>5, <2>1, <2>2
<1>6. ASSUME NEW j \in 1..(n - 1), NEW k \in 1..(n - 1), hooks'[j] = hooks'[k] PROVE j = k
  <2>1. PICK a \in 1..n : hooks'[j] = hooks[a] /\ ((a = j /\ j < i) \/ (a = j + 1 /\ i <= j))
    BY <1>5
  <2>2. PICK b \in 1..n : hooks'[k] = hooks[b] /\ ((b = k /\ k < i) \/ (b = k + 1 /\ i <= k))
    BY <1>5
  <2>3. a = b
    BY <1>4, <1>6, <2>1, <2>2
  <2> QED
    BY <1>1, <2>1, <2>2, <2>3
<1>7. ASSUME NEW h, Queued(h)' PROVE Queued(h) /\ h # hooks[i]
  <2>1. PICK k \in 1..(n - 1) : hooks'[k] = h
    BY <1>3, <1>7 DEF Queued
  <2>2. PICK j \in 1..n : hooks[j] = h /\ j # i
    BY <1>5, <2>1
  <2> QED
    BY <1>1, <1>4, <2>2 DEF Queued
<1> QED
  BY <1>2, <1>3, <1>6, <1>7

LEMMA OutcomeAdded ==
  ASSUME outcomes \in Seq(Outcomes), NEW s \in Nat, NEW x \in Hooks \union {"skipped"},
         outcomes' = Append(outcomes, <<s, x>>)
  PROVE  /\ outcomes' \in Seq(Outcomes)
         /\ \A h : Used(h)' <=> Used(h) \/ h = x
         /\ \A i \in DOMAIN outcomes' :
              \/ i \in DOMAIN outcomes /\ outcomes'[i] = outcomes[i]
              \/ i = Len(outcomes) + 1 /\ outcomes'[i][1] = s /\ outcomes'[i][2] = x
<1> DEFINE p == <<s, x>>
           n == Len(outcomes)
<1>1. p \in Outcomes /\ p[1] = s /\ p[2] = x /\ outcomes' = Append(outcomes, p)
  BY DEF Outcomes
<1> HIDE DEF p
<1>2. /\ n \in Nat /\ DOMAIN outcomes = 1..n
      /\ outcomes' \in Seq(Outcomes) /\ DOMAIN outcomes' = 1..(n + 1)
      /\ outcomes'[n + 1] = p /\ \A i \in 1..n : outcomes'[i] = outcomes[i]
  BY <1>1, AppendProperties
<1>3. ASSUME NEW i \in DOMAIN outcomes'
      PROVE  \/ i \in DOMAIN outcomes /\ outcomes'[i] = outcomes[i]
             \/ i = n + 1 /\ outcomes'[i][1] = s /\ outcomes'[i][2] = x
  BY <1>1, <1>2, <1>3
<1>4. \A i \in 1..n : i \in DOMAIN outcomes'
  BY <1>2
<1>5. n + 1 \in DOMAIN outcomes' /\ outcomes'[n + 1][2] = x
  BY <1>1, <1>2
<1> HIDE DEF n
<1>6. ASSUME NEW h, Used(h)' PROVE Used(h) \/ h = x
  BY <1>3, <1>6 DEF Used
<1>7. ASSUME NEW h, Used(h) PROVE Used(h)'
  BY <1>2, <1>4, <1>7 DEF Used
<1>8. Used(x)'
  BY <1>5 DEF Used
<1> QED
  BY <1>2, <1>3, <1>6, <1>7, <1>8 DEF n

\* A webhook out of the queue is saved for the scenario that it fits.
LEMMA TakeKeepsInv ==
  ASSUME GuidedInv, mode # "saving", GuidedCapture!TakeFirst, UNCHANGED <<acked, step, outcomes>>,
         waiter' \in BOOLEAN
  PROVE  GuidedInv'
<1>1. PICK i \in GuidedCapture!Matches : GuidedCapture!Take(i)
  BY DEF GuidedCapture!TakeFirst
<1> DEFINE x == hooks[i]
<1>2. /\ i \in DOMAIN hooks /\ <<x, Scenarios[step]>> \in Fits
      /\ hooks' = GuidedCapture!RemoveAt(hooks, i) /\ mode' = "saving"
      /\ x \in Hooks /\ Queued(x)
  BY <1>1 DEF GuidedCapture!Matches, GuidedCapture!Take, GuidedInv, GuidedTypeOK, Queued
<1>3. DOMAIN saving = {} /\ DOMAIN saving' = {x}
  BY <1>1 DEF GuidedCapture!Take, GuidedCapture!With, GuidedInv, SavesWhatFits
<1>4. /\ hooks' \in Seq(Hooks)
      /\ \A j, k \in DOMAIN hooks' : hooks'[j] = hooks'[k] => j = k
      /\ \A h : Queued(h)' => Queued(h) /\ h # x
  BY <1>2, CutOut DEF GuidedInv
<1>5. \A h : Used(h)' <=> Used(h)
  BY DEF Used
<1> HIDE DEF x
<1>6. GuidedTypeOK'
  BY <1>2, <1>3, <1>4 DEF GuidedInv, GuidedTypeOK
<1>7. InOnePlace'
  BY <1>2, <1>3, <1>4, <1>5 DEF GuidedInv, InOnePlace
<1>8. SavesWhatFits'
  BY <1>2, <1>3 DEF SavesWhatFits
<1> QED
  BY <1>2, <1>6, <1>7, <1>8 DEF GuidedInv, GuidedCapture!NoneIsMissed, GuidedCapture!ServesOne

\* A scenario is gone through without a webhook.
LEMMA GiveUpKeepsInv ==
  ASSUME GuidedInv, mode # "saving", GuidedCapture!GiveUp, UNCHANGED <<acked, saving, hooks>>
  PROVE  GuidedInv'
<1>1. /\ outcomes' = Append(outcomes, <<step, "skipped">>) /\ step' = step + 1
      /\ mode' = "next" /\ waiter' = FALSE
  BY DEF GuidedCapture!GiveUp
<1>2. /\ outcomes' \in Seq(Outcomes)
      /\ \A h : Used(h)' <=> Used(h) \/ h = "skipped"
      /\ \A i \in DOMAIN outcomes' :
           \/ i \in DOMAIN outcomes /\ outcomes'[i] = outcomes[i]
           \/ i = Len(outcomes) + 1 /\ outcomes'[i][1] = step /\ outcomes'[i][2] = "skipped"
  BY <1>1, OutcomeAdded DEF GuidedInv, GuidedTypeOK
<1>3. "skipped" \notin Hooks
  BY CapturingAssumption DEF GuidedCapture!CaptureAssumption
<1>4. DOMAIN saving = {}
  BY DEF GuidedInv, SavesWhatFits
<1>5. \A h : Queued(h)' <=> Queued(h)
  BY DEF Queued
<1>6. InOnePlace'
  BY <1>2, <1>3, <1>5 DEF GuidedInv, InOnePlace
<1>7. GuidedCapture!ServesOne'
  BY <1>2, <1>3 DEF GuidedInv, GuidedCapture!ServesOne
<1>8. step' \in Nat /\ DOMAIN saving' = {} /\ hooks' \in Seq(Hooks)
  BY <1>1, <1>4 DEF GuidedInv, GuidedTypeOK
<1> QED
  BY <1>1, <1>2, <1>6, <1>7, <1>8 DEF GuidedInv, GuidedTypeOK, SavesWhatFits, GuidedCapture!NoneIsMissed

\* The webhook is written, and the scenario is gone through.
LEMMA GuidedWriteKeepsInv ==
  ASSUME GuidedInv, NEW h \in Hooks, GuidedCapture!WriteFile(h)
  PROVE  GuidedInv'
<1>1. /\ h \in DOMAIN saving
      /\ outcomes' = Append(outcomes, <<step, h>>) /\ step' = step + 1
      /\ mode' = "next" /\ UNCHANGED <<waiter, acked, hooks>>
      /\ DOMAIN saving' = DOMAIN saving \ {h}
  BY DEF GuidedCapture!WriteFile, GuidedCapture!Without
<1>2. DOMAIN saving' = {} /\ <<h, Scenarios[step]>> \in Fits /\ ~Used(h) /\ ~Queued(h) /\ h \in acked
  BY <1>1 DEF GuidedInv, SavesWhatFits, InOnePlace
<1>3. /\ outcomes' \in Seq(Outcomes)
      /\ \A g : Used(g)' <=> Used(g) \/ g = h
      /\ \A i \in DOMAIN outcomes' :
           \/ i \in DOMAIN outcomes /\ outcomes'[i] = outcomes[i]
           \/ i = Len(outcomes) + 1 /\ outcomes'[i][1] = step /\ outcomes'[i][2] = h
  BY <1>1, OutcomeAdded DEF GuidedInv, GuidedTypeOK
<1>4. \A g : Queued(g)' <=> Queued(g)
  BY <1>1 DEF Queued
<1>5. InOnePlace'
  BY <1>1, <1>2, <1>3, <1>4 DEF GuidedInv, InOnePlace
<1>6. GuidedCapture!ServesOne'
  BY <1>2, <1>3 DEF GuidedInv, GuidedCapture!ServesOne, Used
<1> QED
  BY <1>1, <1>2, <1>3, <1>5, <1>6 DEF GuidedInv, GuidedTypeOK, SavesWhatFits, GuidedCapture!NoneIsMissed

\* A save that fails leaves nothing to save, and the walk where it was.
LEMMA GuidedFailureKeepsInv ==
  ASSUME GuidedInv, NEW h \in Hooks, GuidedCapture!SaveFails(h)
  PROVE  GuidedInv'
<1>1. /\ h \in DOMAIN saving /\ DOMAIN saving' = DOMAIN saving \ {h}
      /\ UNCHANGED <<acked, hooks, step, mode, waiter, outcomes>>
  BY DEF GuidedCapture!SaveFails, GuidedCapture!Without, GuidedCapture!walk
<1>2. DOMAIN saving' = {} /\ mode' = "saving"
  BY <1>1 DEF GuidedInv, SavesWhatFits
<1> QED
  BY <1>1, <1>2 DEF GuidedInv, GuidedTypeOK, InOnePlace, Queued, Used, SavesWhatFits,
    GuidedCapture!NoneIsMissed, GuidedCapture!ServesOne

\* A delivery is one of its own, and wakes the walk up.
LEMMA GuidedDeliverKeepsInv ==
  ASSUME GuidedInv, NEW h \in Hooks, GuidedCapture!Deliver(h)
  PROVE  GuidedInv'
<1>1. /\ h \notin acked /\ acked' = acked \union {h}
      /\ UNCHANGED <<step, mode, outcomes, saving>>
      /\ \/ UNCHANGED <<hooks, waiter>>
         \/ hooks' = Append(hooks, h) /\ waiter' = FALSE
  BY DEF GuidedCapture!Deliver, GuidedCapture!Tell
<1>2. \A g : Used(g)' <=> Used(g)
  BY <1>1 DEF Used
<1>3. CASE UNCHANGED <<hooks, waiter>>
  <2>1. \A g : Queued(g)' <=> Queued(g)
    BY <1>3 DEF Queued
  <2> QED
    BY <1>1, <1>2, <1>3, <2>1 DEF GuidedInv, GuidedTypeOK, InOnePlace, SavesWhatFits,
      GuidedCapture!NoneIsMissed, GuidedCapture!ServesOne, GuidedCapture!Matches
<1>4. CASE hooks' = Append(hooks, h) /\ waiter' = FALSE
  <2> DEFINE n == Len(hooks)
  <2>1. /\ n \in Nat /\ DOMAIN hooks = 1..n
        /\ hooks' \in Seq(Hooks) /\ DOMAIN hooks' = 1..(n + 1)
        /\ hooks'[n + 1] = h /\ \A i \in 1..n : hooks'[i] = hooks[i]
    BY <1>4 DEF GuidedInv, GuidedTypeOK
  <2>2. ~Queued(h) /\ h \notin DOMAIN saving /\ ~Used(h)
    BY <1>1 DEF GuidedInv, InOnePlace
  <2>3. \A g : Queued(g)' => Queued(g) \/ g = h
    BY <2>1 DEF Queued
  <2>4. \A i, j \in DOMAIN hooks' : hooks'[i] = hooks'[j] => i = j
    <3> SUFFICES ASSUME NEW i \in 1..(n + 1), NEW j \in 1..(n + 1), hooks'[i] = hooks'[j]
                 PROVE  i = j
      BY <2>1
    <3>1. \A k \in 1..(n + 1) : k = n + 1 \/ (k \in 1..n /\ hooks'[k] # h)
      BY <2>1, <2>2 DEF Queued
    <3> QED
      BY <2>1, <3>1 DEF GuidedInv, InOnePlace
  <2>5. InOnePlace'
    BY <1>1, <1>2, <2>2, <2>3, <2>4 DEF GuidedInv, InOnePlace
  <2> QED
    BY <1>1, <1>4, <2>1, <2>5 DEF GuidedInv, GuidedTypeOK, SavesWhatFits,
      GuidedCapture!NoneIsMissed, GuidedCapture!ServesOne
<1> QED
  BY <1>1, <1>3, <1>4

LEMMA GuidedInvStep == GuidedInv /\ [GuidedCapture!Next]_captureVars => GuidedInv'
<1> SUFFICES ASSUME GuidedInv, [GuidedCapture!Next]_captureVars PROVE GuidedInv'
  OBVIOUS
<1>1. ASSUME UNCHANGED <<acked, hooks, step, outcomes>>, DOMAIN saving' = DOMAIN saving,
             waiter' \in BOOLEAN, mode = "saving" <=> mode' = "saving", GuidedCapture!NoneIsMissed'
      PROVE  GuidedInv'
  BY <1>1 DEF GuidedInv, GuidedTypeOK, InOnePlace, Queued, Used, SavesWhatFits, GuidedCapture!ServesOne
<1>2. CASE \/ UNCHANGED captureVars \/ GuidedCapture!Subscribe \/ GuidedCapture!Close
           \/ GuidedCapture!Expire
  <2>1. /\ UNCHANGED <<acked, hooks, step, outcomes, saving, waiter>>
        /\ mode' = mode \/ (mode = "waiting" /\ mode' = "asking")
    BY <1>2 DEF captureVars, GuidedCapture!Subscribe, GuidedCapture!Close, GuidedCapture!Expire,
      GuidedCapture!walk
  <2>2. GuidedCapture!NoneIsMissed'
    BY <2>1 DEF GuidedInv, GuidedCapture!NoneIsMissed, GuidedCapture!Matches
  <2> QED
    BY <1>1, <2>1, <2>2 DEF GuidedInv, GuidedTypeOK
<1>3. ASSUME NEW h \in Hooks, GuidedCapture!Find(h) PROVE GuidedInv'
  <2>1. UNCHANGED <<acked, hooks, step, outcomes, waiter, mode>> /\ DOMAIN saving' = DOMAIN saving
    BY <1>3 DEF GuidedCapture!Find, GuidedCapture!With, GuidedCapture!walk
  <2>2. GuidedCapture!NoneIsMissed'
    BY <2>1 DEF GuidedInv, GuidedCapture!NoneIsMissed, GuidedCapture!Matches
  <2> QED
    BY <1>1, <2>1, <2>2 DEF GuidedInv, GuidedTypeOK
<1>4. ASSUME mode \in {"next", "waiting", "rewaiting", "asking"},
             UNCHANGED <<acked, step, outcomes>>,
             \/ GuidedCapture!TakeFirst /\ waiter' \in BOOLEAN
             \/ /\ GuidedCapture!Matches = {} /\ waiter' \in BOOLEAN /\ mode' # "saving"
                /\ UNCHANGED <<hooks, saving>>
      PROVE  GuidedInv'
  <2>1. CASE GuidedCapture!TakeFirst /\ waiter' \in BOOLEAN
    BY <1>4, <2>1, TakeKeepsInv
  <2>2. CASE /\ GuidedCapture!Matches = {} /\ waiter' \in BOOLEAN /\ mode' # "saving"
             /\ UNCHANGED <<hooks, saving>>
    <3>1. GuidedCapture!NoneIsMissed'
      BY <1>4, <2>2 DEF GuidedCapture!NoneIsMissed, GuidedCapture!Matches
    <3> QED
      BY <1>1, <1>4, <2>2, <3>1
  <2> QED
    BY <1>4, <2>1, <2>2
<1>5. waiter \in BOOLEAN
  BY DEF GuidedInv, GuidedTypeOK
<1>6. CASE GuidedCapture!Begin
  BY <1>4, <1>5, <1>6 DEF GuidedCapture!Begin, GuidedCapture!Await
<1>7. CASE GuidedCapture!Wake
  BY <1>4, <1>5, <1>7 DEF GuidedCapture!Wake
<1>8. ASSUME NEW retry \in BOOLEAN, GuidedCapture!Answer(retry) PROVE GuidedInv'
  <2>1. CASE retry
    BY <1>4, <1>8, <2>1 DEF GuidedCapture!Answer
  <2>2. CASE ~retry
    BY <1>8, <2>2, GiveUpKeepsInv DEF GuidedCapture!Answer
  <2> QED
    BY <2>1, <2>2
<1>9. CASE GuidedCapture!Skip
  BY <1>9, GiveUpKeepsInv DEF GuidedCapture!Skip
<1> QED
  BY <1>2, <1>3, <1>6, <1>7, <1>8, <1>9, GuidedWriteKeepsInv, GuidedFailureKeepsInv,
    GuidedDeliverKeepsInv DEF GuidedCapture!Next

-----------------------------------------------------------------------------
PathsTypeOK ==
  /\ DOMAIN saving \subseteq Hooks /\ mode = "next"
  /\ \A p \in DOMAIN files : files[p] \in Hooks

\* A webhook is acknowledged before it is saved, and saved once.
SavedOnce ==
  \A h \in Hooks :
    /\ h \in DOMAIN saving \/ PassiveCapture!Saved(h) => h \in acked
    /\ h \in DOMAIN saving => ~PassiveCapture!Saved(h)

\* A path carries the moment and the type of its webhook.
PathIsStamped ==
  /\ \A p \in DOMAIN files : p[1] = PassiveStamp[files[p]]
  /\ \A h \in DOMAIN saving : saving[h] # PassiveCapture!Looking => saving[h][1] = PassiveStamp[h]

PassiveInv == PathsTypeOK /\ SavedOnce /\ PathIsStamped /\ PassiveCapture!HeardIsKept

LEMMA PassiveInvInit == PassiveCapture!Init => PassiveInv
BY DEF PassiveCapture!Init, PassiveInv, PathsTypeOK, SavedOnce, PathIsStamped,
  PassiveCapture!HeardIsKept, PassiveCapture!Saved

LEMMA SameCardinality == \A S : PassiveCapture!Cardinality(S) = Cardinality(S)
BY DEF PassiveCapture!Cardinality, Cardinality

\* The path found free carries the moment and the type of the webhook.
LEMMA FreeIsStamped ==
  ASSUME PassiveInv, NEW h \in DOMAIN saving
  PROVE  PassiveCapture!Free(PassiveStamp[h])[1] = PassiveStamp[h]
<1> DEFINE name == PassiveStamp[h]
           P == {PassiveCapture!Path(name, n) : n \in 0..PassiveCapture!Cardinality(Hooks)}
           first == <<name, 0>>
           IsFree(p) == /\ p \notin DOMAIN files
                        /\ \A m \in 0..(p[2] - 1): PassiveCapture!Path(name, m) \in DOMAIN files
<1>1. PassiveCapture!Cardinality(Hooks) \in Nat
  BY SameCardinality, FS_CardinalityType, CapturingAssumption DEF PassiveCapture!CaptureAssumption,
    PassiveCapture!IsFiniteSet, IsFiniteSet
<1>2. first \in P /\ first[1] = name /\ first[2] = 0
  BY <1>1 DEF PassiveCapture!Path
<1>3. first \notin DOMAIN files
  <2> SUFFICES ASSUME first \in DOMAIN files PROVE FALSE
    OBVIOUS
  <2>1. files[first] \in Hooks /\ PassiveStamp[files[first]] = PassiveStamp[h] /\ h \in Hooks
    BY <1>2 DEF PassiveInv, PathsTypeOK, PathIsStamped
  <2>2. files[first] = h
    BY <2>1, StampsAssumption
  <2> QED
    BY <2>1, <2>2 DEF PassiveInv, SavedOnce, PassiveCapture!Saved
<1>4. \A p \in P : p[1] = name
  BY DEF PassiveCapture!Path
<1>5. IsFree(first)
  BY <1>2, <1>3
<1>6. PassiveCapture!Free(name) = CHOOSE p \in P : IsFree(p)
  BY DEF PassiveCapture!Free
<1> HIDE DEF P, first, IsFree, name
<1>7. (CHOOSE p \in P : IsFree(p)) \in P
  BY <1>2, <1>5
<1> QED
  BY <1>4, <1>6, <1>7 DEF name

LEMMA PassiveInvStep == PassiveInv /\ [PassiveCapture!Next]_captureVars => PassiveInv'
<1> SUFFICES ASSUME PassiveInv, [PassiveCapture!Next]_captureVars PROVE PassiveInv'
  OBVIOUS
<1> USE DEF PassiveInv
<1>1. CASE UNCHANGED captureVars \/ PassiveCapture!Subscribe \/ PassiveCapture!Close
  <2>1. UNCHANGED <<acked, heard, saving, files, unsaved, mode>>
    BY <1>1 DEF captureVars, PassiveCapture!Subscribe, PassiveCapture!Close, PassiveCapture!walk
  <2> QED
    BY <2>1 DEF PathsTypeOK, SavedOnce, PathIsStamped, PassiveCapture!HeardIsKept, PassiveCapture!Saved
<1>2. ASSUME NEW h \in Hooks, PassiveCapture!Deliver(h) PROVE PassiveInv'
  <2>1. h \notin acked /\ acked' = acked \union {h} /\ UNCHANGED <<files, unsaved, mode>>
    BY <1>2 DEF PassiveCapture!Deliver
  <2>2. \A g : PassiveCapture!Saved(g)' <=> PassiveCapture!Saved(g)
    BY <2>1 DEF PassiveCapture!Saved
  <2>3. CASE captureStage # "running"
    <3>1. UNCHANGED <<heard, saving>>
      BY <1>2, <2>3 DEF PassiveCapture!Deliver
    <3> QED
      BY <2>1, <2>2, <3>1 DEF PathsTypeOK, SavedOnce, PathIsStamped, PassiveCapture!HeardIsKept
  <2>4. CASE captureStage = "running"
    <3>1. /\ heard' = heard \union {h} /\ DOMAIN saving' = DOMAIN saving \union {h}
          /\ \A g \in DOMAIN saving' :
               saving'[g] = IF g = h THEN PassiveCapture!Looking ELSE saving[g]
      BY <1>2, <2>4 DEF PassiveCapture!Deliver, PassiveCapture!Tell, PassiveCapture!With
    <3> QED
      BY <2>1, <2>2, <3>1 DEF PathsTypeOK, SavedOnce, PathIsStamped, PassiveCapture!HeardIsKept
  <2> QED
    BY <2>3, <2>4
<1>3. ASSUME NEW h \in Hooks, PassiveCapture!Find(h) PROVE PassiveInv'
  <2>1. /\ h \in DOMAIN saving /\ UNCHANGED <<acked, heard, files, unsaved, mode>>
        /\ DOMAIN saving' = DOMAIN saving
        /\ \A g \in DOMAIN saving :
             saving'[g] = IF g = h THEN PassiveCapture!Free(PassiveStamp[h]) ELSE saving[g]
    BY <1>3 DEF PassiveCapture!Find, PassiveCapture!With, PassiveCapture!walk
  <2>2. PassiveCapture!Free(PassiveStamp[h])[1] = PassiveStamp[h]
    BY <2>1, FreeIsStamped
  <2>3. \A g : PassiveCapture!Saved(g)' <=> PassiveCapture!Saved(g)
    BY <2>1 DEF PassiveCapture!Saved
  <2> QED
    BY <2>1, <2>2, <2>3 DEF PathsTypeOK, SavedOnce, PathIsStamped, PassiveCapture!HeardIsKept
<1>4. ASSUME NEW h \in Hooks, PassiveCapture!WriteFile(h) PROVE PassiveInv'
  <2> DEFINE q == saving[h]
  <2>1. /\ h \in DOMAIN saving /\ q # PassiveCapture!Looking
        /\ UNCHANGED <<acked, heard, unsaved, mode>>
        /\ DOMAIN files' = DOMAIN files \union {q}
        /\ \A p \in DOMAIN files' : files'[p] = IF p = q THEN h ELSE files[p]
        /\ DOMAIN saving' = DOMAIN saving \ {h}
        /\ \A g \in DOMAIN saving' : saving'[g] = saving[g]
    BY <1>4 DEF PassiveCapture!WriteFile, PassiveCapture!With, PassiveCapture!Without, PassiveCapture!walk
  <2>2. q[1] = PassiveStamp[h]
    BY <2>1 DEF PathIsStamped
  <2>3. q \notin DOMAIN files
    <3> SUFFICES ASSUME q \in DOMAIN files PROVE FALSE
      OBVIOUS
    <3>1. files[q] \in Hooks /\ PassiveStamp[files[q]] = PassiveStamp[h]
      BY <2>2 DEF PathsTypeOK, PathIsStamped
    <3>2. files[q] = h
      BY <3>1, StampsAssumption
    <3> QED
      BY <2>1, <3>2 DEF SavedOnce, PassiveCapture!Saved
  <2> HIDE DEF q
  <2>4. \A g : PassiveCapture!Saved(g)' <=> PassiveCapture!Saved(g) \/ g = h
    BY <2>1, <2>3 DEF PassiveCapture!Saved
  <2>5. PathsTypeOK' /\ PathIsStamped'
    BY <2>1, <2>2 DEF PathsTypeOK, PathIsStamped
  <2>6. SavedOnce' /\ PassiveCapture!HeardIsKept'
    BY <2>1, <2>4 DEF SavedOnce, PassiveCapture!HeardIsKept
  <2> QED
    BY <2>5, <2>6
<1>7. ASSUME NEW h \in Hooks, PassiveCapture!SaveFails(h) PROVE PassiveInv'
  <2>1. /\ DOMAIN saving' = DOMAIN saving \ {h} /\ unsaved' = unsaved \union {h}
        /\ \A g \in DOMAIN saving' : saving'[g] = saving[g]
        /\ UNCHANGED <<acked, heard, files, mode>>
    BY <1>7 DEF PassiveCapture!SaveFails, PassiveCapture!Without, PassiveCapture!walk
  <2> QED
    BY <2>1 DEF PathsTypeOK, SavedOnce, PathIsStamped, PassiveCapture!HeardIsKept, PassiveCapture!Saved
<1>5. ~PassiveCapture!Begin
  BY DEF PassiveCapture!Begin
<1>6. ~PassiveCapture!Wake /\ ~PassiveCapture!Skip /\ ~PassiveCapture!Expire
      /\ \A retry \in BOOLEAN : ~PassiveCapture!Answer(retry)
  BY DEF PathsTypeOK, PassiveCapture!Wake, PassiveCapture!Skip, PassiveCapture!Expire, PassiveCapture!Answer
<1> QED
  BY <1>1, <1>2, <1>3, <1>4, <1>5, <1>6, <1>7 DEF PassiveCapture!Next

-----------------------------------------------------------------------------
CaptureScriptsInv ==
  /\ part = "guided capture" => GuidedInv
  /\ part = "passive capture" => PassiveInv

\* No webhook is missed between two waits of the walk, and each serves one scenario
\* that it fits; what the passive script was told of is in a file, on its way there, or
\* reported as not saved (waitForScenario, popFirstMatching, writeCapture).
THEOREM CapturesMissNone == PartsSpec => []NoneIsMissed
<1>1. PartsInit => CaptureScriptsInv
  <2>1. GuidedCapture!Init => PassiveCapture!Init
    BY DEF GuidedCapture!Init, PassiveCapture!Init
  <2> QED
    BY <2>1, GuidedInvInit, PassiveInvInit DEF PartsInit, CaptureScriptsInv
<1>2. CaptureScriptsInv /\ [PartsNext]_suiteVars => CaptureScriptsInv'
  BY PartsStep, GuidedInvStep, PassiveInvStep DEF CaptureScriptsInv
<1>3. CaptureScriptsInv => NoneIsMissed
  BY DEF CaptureScriptsInv, GuidedInv, PassiveInv, NoneIsMissed
<1> QED
  BY <1>1, <1>2, <1>3, PTL DEF PartsSpec, suiteVars

-----------------------------------------------------------------------------
(***************************************************************************)
(* The registration of the webhooks (CompleteIsSubscribed of               *)
(* WebhookRegistration), proved for any accounts and any number of runs.   *)
(***************************************************************************)

Called == UNION {Registration!CallsOf(c) : c \in Registration!Channels}

TookEffect(call) == IF call[2] = App THEN callback ELSE call \in subscribed

SomeFailed == \E r \in results : r[3] \in {"failed", "manual"}

\* Every call is to come or took effect, unless one failed.
CallsAreMade == SomeFailed \/ \A call \in Called : call \in regCalls \/ TookEffect(call)

RegistrationInv ==
  /\ \A c \in Registration!Channels : accounts[c] \subseteq Registration!Range(AccountNames[c])
  /\ regStage \in {"start", "asking"} => results = {}
  /\ regStage = "calling" => CallsAreMade
  /\ regStage = "done" /\ regExit = "ok" /\ results # {} => regCalls = {} /\ CallsAreMade

LEMMA RegistrationInvInit == Registration!Init => RegistrationInv
BY DEF Registration!Init, Registration!Environments, RegistrationInv

LEMMA RegistrationInvStep ==
  RegistrationInv /\ [Registration!Next]_registrationVars => RegistrationInv'
<1> SUFFICES ASSUME RegistrationInv, [Registration!Next]_registrationVars PROVE RegistrationInv'
  OBVIOUS
<1>1. ASSUME UNCHANGED accounts PROVE Called' = Called
  <2>1. \A c : Registration!CallsOf(c)' = Registration!CallsOf(c)
    BY <1>1 DEF Registration!CallsOf, Registration!HasRunner
  <2> QED
    BY <2>1 DEF Called
<1>2. CASE UNCHANGED registrationVars
  BY <1>1, <1>2 DEF registrationVars, RegistrationInv, CallsAreMade, SomeFailed, TookEffect
<1>3. CASE Registration!Leave \/ Registration!Ask \/ Registration!Decline
  BY <1>3 DEF Registration!Leave, Registration!Ask, Registration!Decline, Registration!environment,
    RegistrationInv
<1>4. CASE Registration!Proceed
  <2>1. /\ UNCHANGED accounts /\ results = {}
        /\ \/ regStage' = "calling" /\ regCalls' = Called
           \/ regStage' = "done" /\ regExit' = "error"
    BY <1>4 DEF Registration!Proceed, Registration!environment, RegistrationInv, Called
  <2> QED
    BY <1>1, <2>1 DEF RegistrationInv, CallsAreMade
<1>5. CASE Registration!Succeed
  <2>1. PICK call \in regCalls : Registration!Applied(call) /\ regCalls' = regCalls \ {call}
    BY <1>5 DEF Registration!Succeed
  <2>2. /\ regStage = "calling" /\ UNCHANGED <<regStage, accounts>>
        /\ results \subseteq results'
    BY <1>5 DEF Registration!Succeed, Registration!environment
  <2>3. TookEffect(call)' /\ \A x : TookEffect(x) => TookEffect(x)'
    BY <2>1 DEF Registration!Applied, TookEffect
  <2> QED
    BY <1>1, <2>1, <2>2, <2>3 DEF RegistrationInv, CallsAreMade, SomeFailed
<1>6. CASE Registration!Fail \/ Registration!WithoutWaba
  <2>1. \E call : \E status \in {"failed", "manual"} :
          results' = results \union {<<call[1], call[2], status>>}
    <3>1. CASE Registration!Fail
      <4>1. PICK call \in regCalls :
              \E status \in {Registration!ErrorStatus(call)} \union (IF call[2] = App THEN Registration!Manual ELSE {}) :
                results' = results \union {<<call[1], call[2], status>>}
        BY <3>1 DEF Registration!Fail
      <4>2. PICK status \in {Registration!ErrorStatus(call)} \union (IF call[2] = App THEN Registration!Manual ELSE {}) :
                results' = results \union {<<call[1], call[2], status>>}
        BY <4>1
      <4>3. status \in {"failed", "manual"}
        BY DEF Registration!ErrorStatus, Registration!Manual
      <4> QED
        BY <4>2, <4>3
    <3>2. CASE Registration!WithoutWaba
      BY <3>2 DEF Registration!WithoutWaba
    <3> QED
      BY <1>6, <3>1, <3>2
  <2>2. regStage = "calling" /\ UNCHANGED <<regStage, accounts>>
    BY <1>6 DEF Registration!Fail, Registration!WithoutWaba, Registration!environment
  <2>3. PICK call : \E status \in {"failed", "manual"} :
          results' = results \union {<<call[1], call[2], status>>}
    BY <2>1
  <2>4. PICK status \in {"failed", "manual"} : results' = results \union {<<call[1], call[2], status>>}
    BY <2>3
  <2> DEFINE r == <<call[1], call[2], status>>
  <2>5. r \in results' /\ r[3] \in {"failed", "manual"}
    BY <2>4
  <2> HIDE DEF r
  <2>6. SomeFailed'
    BY <2>5 DEF SomeFailed
  <2> QED
    BY <2>2, <2>6 DEF RegistrationInv, CallsAreMade
<1>7. CASE Registration!Finish \/ Registration!Interrupt
  BY <1>1, <1>7 DEF Registration!Finish, Registration!Interrupt, Registration!environment,
    Registration!meta, RegistrationInv, CallsAreMade, SomeFailed, TookEffect
<1>8. CASE Registration!Rerun
  BY <1>8 DEF Registration!Rerun, Registration!Environments, RegistrationInv
<1> QED
  BY <1>2, <1>3, <1>4, <1>5, <1>6, <1>7, <1>8 DEF Registration!Next

\* A registration that is reported complete has subscribed every account of a
\* channel that it has a runner for (registerAllWebhooks, allSucceeded).
THEOREM CompleteRegistrationReaches == PartsSpec => []CompleteIsSubscribed
<1>1. PartsInit => RegistrationInv
  BY RegistrationInvInit DEF PartsInit
<1>2. RegistrationInv /\ [PartsNext]_suiteVars => RegistrationInv'
  BY PartsStep, RegistrationInvStep
<1>3. RegistrationInv => CompleteIsSubscribed
  <2> SUFFICES ASSUME RegistrationInv, Registration!IsComplete,
                      NEW c \in Registration!Channels, Registration!HasRunner(c)
               PROVE  Registration!Reaches(c)
    BY DEF CompleteIsSubscribed, Registration!CompleteIsSubscribed
  <2>1. ~SomeFailed
    BY DEF SomeFailed, Registration!IsComplete
  <2>2. \A call \in Called : TookEffect(call)
    BY <2>1 DEF RegistrationInv, CallsAreMade, Registration!IsComplete
  <2>3. ASSUME NEW n \in accounts[c] PROVE <<c, n>> \in subscribed
    <3>1. <<c, n>> \in Called
      BY <2>3 DEF Called, Registration!CallsOf
    <3>2. n # App
      BY <2>3, RegisteringAssumption DEF RegistrationInv, Registration!RegistrationAssumption,
        Registration!Channels
    <3> QED
      BY <2>2, <3>1, <3>2 DEF TookEffect
  <2>4. ASSUME c = "messenger" PROVE callback
    <3>1. <<c, App>> \in Called
      BY <2>4 DEF Called, Registration!CallsOf
    <3> QED
      BY <2>2, <3>1 DEF TookEffect
  <2> QED
    BY <2>3, <2>4 DEF Registration!Reaches
<1> QED
  BY <1>1, <1>2, <1>3, PTL DEF PartsSpec, suiteVars

-----------------------------------------------------------------------------
(***************************************************************************)
(* The profile (InOrderIsApplied of ProfileSetup), proved for any files    *)
(* and any number of runs.                                                 *)
(***************************************************************************)

Button == <<"messenger", "get_started">>

Menu == <<"messenger", "persistent_menu">>

\* A step that was right to fail, whatever was lost.
FailsInItself(s) ==
  s \in profileFailed /\ (Profile!RefusedByClient(s) \/ (s = Menu /\ profileFile[Button] = Absent))

ProfileTypeOK ==
  /\ steps \subseteq asked /\ asked \subseteq Profile!Fields
  /\ DOMAIN profile = Profile!Fields

\* What a run is asked to apply is in its file; a menu comes with the file's button.
AskedIsInFile ==
  /\ \A s \in asked : profileFile[s] # Absent
  /\ Menu \in asked /\ Button \notin asked => profileFile[Button] = Absent

StepsAreMade == ~lost => \A s \in asked \ steps : profile[s] = profileFile[s] \/ FailsInItself(s)

ProfileRunIsWhole ==
  /\ profileStage = "start" => asked = {} /\ profileFailed = {}
  /\ profileStage = "done" /\ ~lost => steps = {} /\ (profileFailed = {} \/ profileExit = "error")

ProfileInv == ProfileTypeOK /\ AskedIsInFile /\ StepsAreMade /\ ProfileRunIsWhole

LEMMA FieldsApart ==
  /\ Menu \in Profile!Fields /\ Button \in Profile!Fields /\ Menu # Button
  /\ \A s \in Profile!Fields : s[2] = "persistent_menu" <=> s = Menu
  /\ \A s \in Profile!Fields : s = Button => s[2] # "ice_breakers" /\ s[2] # "persistent_menu"
BY DEF Menu, Button, Profile!Fields

\* The button comes before the menu.
LEMMA ButtonFirst == Profile!IsNext(Menu) => Button \notin steps
<1>1. /\ 1 \in DOMAIN Profile!StepOrder /\ 3 \in DOMAIN Profile!StepOrder
      /\ Profile!StepOrder[1] = Button /\ Profile!StepOrder[3] = Menu
  BY DEF Profile!StepOrder, Button, Menu
<1> QED
  BY <1>1 DEF Profile!IsNext

LEMMA ProfileInvInit == Profile!Init => ProfileInv
BY DEF Profile!Init, Profile!NoFile, ProfileInv, ProfileTypeOK, AskedIsInFile, StepsAreMade,
  ProfileRunIsWhole

LEMMA ProfileInvStep == ProfileInv /\ [Profile!Next]_profileVars => ProfileInv'
<1> SUFFICES ASSUME ProfileInv, [Profile!Next]_profileVars PROVE ProfileInv'
  OBVIOUS
<1> USE DEF ProfileInv
<1>1. CASE UNCHANGED profileVars
  BY <1>1 DEF profileVars, ProfileTypeOK, AskedIsInFile, StepsAreMade, ProfileRunIsWhole,
    FailsInItself, Profile!RefusedByClient
<1>2. CASE Profile!Leave
  BY <1>2 DEF Profile!Leave, ProfileTypeOK, AskedIsInFile, StepsAreMade, ProfileRunIsWhole
<1>3. ASSUME NEW f \in Profiles, NEW channels \in SUBSET Profile!Channels, Profile!Apply(f, channels)
      PROVE  ProfileInv'
  <2>1. /\ profileFile' = f /\ steps' = {s \in Profile!Fields : s[1] \in channels /\ f[s] # Absent}
        /\ asked' = steps' /\ profileStage' = "applying" /\ UNCHANGED profile
    BY <1>3 DEF Profile!Apply
  <2>2. Menu[1] = Button[1]
    BY DEF Menu, Button
  <2>3. AskedIsInFile'
    BY <2>1, <2>2, FieldsApart DEF AskedIsInFile
  <2> QED
    BY <2>1, <2>3 DEF ProfileTypeOK, StepsAreMade, ProfileRunIsWhole
<1>4. ASSUME NEW s \in steps, profileStage = "applying", steps' = steps \ {s},
             UNCHANGED <<profileStage, profileFile, asked>>, profileFailed \subseteq profileFailed',
             lost' \/ UNCHANGED lost,
             UNCHANGED profile \/ profile' = [profile EXCEPT ![s] = profileFile[s]],
             \/ lost' \/ FailsInItself(s)'
             \/ profile' = [profile EXCEPT ![s] = profileFile[s]]
      PROVE  ProfileInv'
  <2>1. \A t : FailsInItself(t) => FailsInItself(t)'
    BY <1>4 DEF FailsInItself, Profile!RefusedByClient
  <2>2. \A t \in Profile!Fields : t # s => profile'[t] = profile[t]
    BY <1>4 DEF ProfileTypeOK
  <2>3. lost' \/ FailsInItself(s)' \/ profile'[s] = profileFile[s]
    BY <1>4 DEF ProfileTypeOK
  <2>4. StepsAreMade'
    BY <1>4, <2>1, <2>2, <2>3 DEF StepsAreMade, ProfileTypeOK
  <2>5. DOMAIN profile' = Profile!Fields
    BY <1>4 DEF ProfileTypeOK
  <2> QED
    BY <1>4, <2>4, <2>5 DEF ProfileTypeOK, AskedIsInFile, ProfileRunIsWhole
<1>5. CASE Profile!Pass
  <2>1. PICK s \in steps : /\ profile' = [profile EXCEPT ![s] = profileFile[s]]
                           /\ steps' = steps \ {s}
    BY <1>5 DEF Profile!Pass
  <2> QED
    BY <1>4, <1>5, <2>1 DEF Profile!Pass
<1>6. CASE Profile!Refuse
  <2>1. PICK s \in steps : /\ Profile!IsNext(s)
                           /\ Profile!RefusedByClient(s) \/ Profile!RefusedByMeta(s)
                           /\ profileFailed' = profileFailed \union {s}
                           /\ steps' = steps \ {s}
    BY <1>6 DEF Profile!Refuse, Profile!Rest
  <2>2. /\ profileStage = "applying"
        /\ UNCHANGED <<profileStage, profileFile, asked, profile, lost>>
    BY <1>6 DEF Profile!Refuse
  <2>3. lost \/ FailsInItself(s)'
    <3> SUFFICES ASSUME ~lost, ~Profile!RefusedByClient(s) PROVE s = Menu /\ profileFile[Button] = Absent
      BY <2>1, <2>2 DEF FailsInItself, Profile!RefusedByClient
    <3>1. s = Menu /\ profile[Button] = Absent
      BY <2>1, FieldsApart DEF Profile!RefusedByMeta, Button, ProfileTypeOK
    <3>2. Button \notin steps
      BY <2>1, <3>1, ButtonFirst
    <3>3. CASE Button \in asked
      <4>1. profile[Button] = profileFile[Button] \/ FailsInItself(Button)
        BY <3>2, <3>3 DEF StepsAreMade
      <4>2. ~FailsInItself(Button)
        BY FieldsApart DEF FailsInItself, Profile!RefusedByClient
      <4> QED
        BY <3>1, <4>1, <4>2
    <3>4. CASE Button \notin asked
      BY <3>1, <3>4 DEF AskedIsInFile, ProfileTypeOK
    <3> QED
      BY <3>1, <3>3, <3>4
  <2> QED
    BY <1>4, <2>1, <2>2, <2>3
<1>7. CASE Profile!Lose
  <2>1. PICK s \in steps : /\ UNCHANGED profile \/ profile' = [profile EXCEPT ![s] = profileFile[s]]
                           /\ profileFailed' = profileFailed \union {s}
                           /\ steps' = steps \ {s}
    BY <1>7 DEF Profile!Lose, Profile!Rest
  <2> QED
    BY <1>4, <1>7, <2>1 DEF Profile!Lose
<1>8. CASE Profile!Finish
  BY <1>8 DEF Profile!Finish, ProfileTypeOK, AskedIsInFile, StepsAreMade, ProfileRunIsWhole,
    FailsInItself, Profile!RefusedByClient
<1>9. CASE Profile!Interrupt
  BY <1>9 DEF Profile!Interrupt, ProfileTypeOK, AskedIsInFile, StepsAreMade, ProfileRunIsWhole
<1>10. CASE Profile!Rerun
  BY <1>10 DEF Profile!Rerun, ProfileTypeOK, AskedIsInFile, StepsAreMade, ProfileRunIsWhole
<1> QED
  BY <1>1, <1>2, <1>3, <1>5, <1>6, <1>7, <1>8, <1>9, <1>10 DEF Profile!Next

\* A section that is as it should be is applied, whatever becomes of the sections
\* beside it (applyProfile, runStep).
THEOREM ProfileIsApplied == PartsSpec => []InOrderIsApplied
<1>1. PartsInit => ProfileInv
  BY ProfileInvInit DEF PartsInit
<1>2. ProfileInv /\ [PartsNext]_suiteVars => ProfileInv'
  BY PartsStep, ProfileInvStep
<1>3. ProfileInv => InOrderIsApplied
  BY FieldsApart DEF ProfileInv, ProfileTypeOK, StepsAreMade, ProfileRunIsWhole, FailsInItself, Button,
    InOrderIsApplied, Profile!InOrderIsApplied
<1> QED
  BY <1>1, <1>2, <1>3, PTL DEF PartsSpec, suiteVars

-----------------------------------------------------------------------------
(***************************************************************************)
(* The sweep of the emojis (DeliveredWasDrawn of ReactionSweep), proved    *)
(* for any channels, emojis and messages, and worksheets of any channels.  *)
(***************************************************************************)

EmojiSet == {Emojis[i] : i \in DOMAIN Emojis}

SweepRows ==
  [emoji: EmojiSet, accepted: BOOLEAN, rendered: {"nothing", "unverified", "as-sent", "substituted"}]

SweepTypeOK ==
  /\ batch \in BOOLEAN /\ at \in Nat \X Nat
  /\ captured \in [Reactions!Channels -> Nat]
  /\ rows \in [Reactions!Channels -> Seq(SweepRows)]
  /\ drawn \in [Reactions!Channels -> Seq(BOOLEAN)]
  /\ DOMAIN shown = Reactions!Channels
  /\ \A c \in Reactions!Channels : DOMAIN shown[c] = 1..Len(Emojis)
  /\ lingers \in BOOLEAN

\* The sweep is at an emoji of a channel; the channels after it have no rows yet.
SweepIsAt ==
  /\ sweepStage \in {"clear", "send", "ask"} =>
       at[1] \in DOMAIN Swept /\ at[2] \in 1..Reactions!PairCount(Reactions!Channel)
  /\ sweepStage \in {"clear", "send", "ask", "leave"} =>
       \A j \in DOMAIN Swept : j > at[1] \/ at[2] = 0 => rows[Swept[j]] = <<>>
  /\ sweepStage = "clear" => ~batch

\* Every row has its drawing; the row that is asked about is to come.
DrawnPerRow ==
  \A c \in Reactions!Channels :
    Len(drawn[c]) = IF sweepStage = "ask" /\ c = Reactions!Channel THEN Len(rows[c]) + 1 ELSE Len(rows[c])

\* What is asked about was drawn after the message had been cleared.
AskedIsOwn ==
  /\ sweepStage = "send" /\ ~batch /\ cleared => lingers \/ shown[Reactions!Channel][1] = None
  /\ sweepStage = "ask" =>
       /\ ~batch
       /\ shown[Reactions!Channel][1] = Reactions!Emoji =>
            drawn[Reactions!Channel][Len(rows[Reactions!Channel]) + 1]

\* A batch reacts to each message once: the messages without a row have no reaction.
BatchIsFresh ==
  batch =>
    /\ sweepStage = "send" => at[2] = Len(rows[Reactions!Channel]) + 1
    /\ sweepStage # "reported" =>
         \A c \in Reactions!Channels :
           /\ Len(rows[c]) <= Len(Emojis)
           /\ \A m \in 1..Len(Emojis) : m > Len(rows[c]) => shown[c][m] = None
           /\ \A i \in DOMAIN rows[c] :
                /\ rows[c][i].rendered # "as-sent"
                /\ rows[c][i].accepted /\ shown[c][i] = rows[c][i].emoji => drawn[c][i]

\* Until the report, and then on the channel whose thread was read.
RowsAreDrawn ==
  \A c \in Reactions!Channels : sweepStage # "reported" \/ thread \in {None, c} =>
    \A i \in DOMAIN rows[c] : Reactions!Deliverable(rows[c][i]) => drawn[c][i]

SweepInv ==
  /\ SweepTypeOK /\ SweepIsAt /\ DrawnPerRow /\ AskedIsOwn /\ BatchIsFresh
  /\ RowsAreDrawn

-----------------------------------------------------------------------------
LEMMA SweptPlaces ==
  /\ Reactions!Channels = {Swept[i] : i \in DOMAIN Swept}
  /\ Len(Swept) \in Nat /\ DOMAIN Swept = 1..Len(Swept)
  /\ \A i, j \in DOMAIN Swept : Swept[i] = Swept[j] => i = j
  /\ Len(Emojis) \in Nat /\ DOMAIN Emojis = 1..Len(Emojis)
  /\ None \notin EmojiSet /\ None \notin Reactions!Channels
BY SweepingAssumption DEF Reactions!SweepAssumption, Reactions!Channels, EmojiSet

\* A set of numbers that is not empty has a least one.
LEMMA LeastNumber ==
  ASSUME NEW T, T \subseteq Nat, T # {} PROVE Reactions!Min(T) \in T
<1> DEFINE R == {p \in Nat \X Nat : p[1] < p[2]}
<1>1. R = OpToRel(<, Nat)
  BY DEF OpToRel
<1>2. IsWellFoundedOn(R, Nat)
  BY <1>1, NatLessThanWellFounded
<1>3. PICK x \in T : \A y \in T : <<y, x>> \notin R
  <2> HIDE DEF R
  <2> QED
    BY <1>2, WFMin
<1>4. ASSUME NEW y \in T PROVE x <= y
  <2>1. x \in Nat /\ y \in Nat
    BY <1>4
  <2>2. ~(y < x)
    BY <1>3, <1>4, <2>1
  <2> QED
    BY <2>1, <2>2
<1> QED
  BY <1>4 DEF Reactions!Min

\* A batch has no more rows than emojis.
LEMMA PairsAreCounted ==
  ASSUME SweepTypeOK, NEW c \in Reactions!Channels
  PROVE  Reactions!PairCount(c) \in Nat /\ (batch => Reactions!PairCount(c) <= Len(Emojis))
<1> DEFINE T == {captured[c], Len(Emojis)}
<1>1. captured[c] \in Nat /\ Len(Emojis) \in Nat
  BY SweptPlaces DEF SweepTypeOK
<1>2. Reactions!Min(T) \in T /\ \A y \in T : Reactions!Min(T) <= y
  <2>1. \E x \in T : \A y \in T : x <= y
    BY <1>1
  <2> HIDE DEF T
  <2> QED
    BY <2>1 DEF Reactions!Min
<1>3. Reactions!Min(T) \in Nat /\ Reactions!Min(T) <= Len(Emojis)
  BY <1>1, <1>2
<1> HIDE DEF T
<1> QED
  BY <1>1, <1>3 DEF Reactions!PairCount, T

LEMMA SweepInvInit == Reactions!Init => SweepInv
<1> SUFFICES ASSUME Reactions!Init PROVE SweepInv
  OBVIOUS
<1>1. \A c \in Reactions!Channels : rows[c] = <<>> /\ drawn[c] = <<>> /\ DOMAIN rows[c] = {}
  BY DEF Reactions!Init
<1>2. rows \in [Reactions!Channels -> Seq(SweepRows)] /\ drawn \in [Reactions!Channels -> Seq(BOOLEAN)]
  BY DEF Reactions!Init
<1>3. /\ batch \in BOOLEAN /\ at = <<1, 0>> /\ sweepStage = "leave"
      /\ captured \in [Reactions!Channels -> Nat] /\ lingers = FALSE
  BY SweptPlaces DEF Reactions!Init
<1>4. /\ DOMAIN shown = Reactions!Channels
      /\ \A c \in Reactions!Channels : /\ DOMAIN shown[c] = 1..Len(Emojis)
                                       /\ \A m \in 1..Len(Emojis) : shown[c][m] = None
  BY DEF Reactions!Init
<1>5. SweepTypeOK
  BY <1>2, <1>3, <1>4 DEF SweepTypeOK
<1>6. SweepIsAt
  BY <1>1, <1>3, SweptPlaces DEF SweepIsAt
<1>7. DrawnPerRow
  BY <1>1, <1>3 DEF DrawnPerRow
<1>8. BatchIsFresh
  BY <1>1, <1>3, <1>4, SweptPlaces DEF BatchIsFresh
<1> QED
  BY <1>1, <1>3, <1>5, <1>6, <1>7, <1>8 DEF SweepInv, AskedIsOwn, RowsAreDrawn

\* The emoji that is at hand.
LEMMA AtHand ==
  ASSUME SweepInv, sweepStage \in {"clear", "send", "ask"}
  PROVE  /\ Reactions!Channel \in Reactions!Channels
         /\ Reactions!Channel = Swept[at[1]] /\ at[1] \in DOMAIN Swept
         /\ at[1] \in Nat /\ at[2] \in Nat /\ at[2] # 0
         /\ at[2] <= Reactions!PairCount(Reactions!Channel)
         /\ Reactions!PairCount(Reactions!Channel) \in Nat
<1>1. /\ at[1] \in DOMAIN Swept /\ at[2] \in 1..Reactions!PairCount(Reactions!Channel)
      /\ at[1] \in Nat /\ at[2] \in Nat
  BY DEF SweepInv, SweepTypeOK, SweepIsAt
<1>2. Reactions!Channel = Swept[at[1]] /\ Reactions!Channel \in Reactions!Channels
  BY <1>1, SweptPlaces DEF Reactions!Channel
<1> QED
  BY <1>1, <1>2, PairsAreCounted DEF SweepInv

\* The sweep goes on to the next emoji of the channel, or leaves the channel.
LEMMA GoesOn ==
  ASSUME SweepInv, sweepStage \in {"send", "ask"}, Reactions!GoOn, UNCHANGED <<batch, captured>>,
         \A j \in DOMAIN Swept : j # at[1] => rows'[Swept[j]] = rows[Swept[j]]
  PROVE  /\ SweepIsAt' /\ at' \in Nat \X Nat
         /\ Reactions!Channel' = Reactions!Channel
         /\ sweepStage' \in {"clear", "send", "leave"}
         /\ sweepStage' = "send" => batch /\ at'[2] = at[2] + 1
<1> DEFINE i == at[1]
           n == at[2]
<1>1. /\ Reactions!Channel = Swept[i] /\ i \in DOMAIN Swept /\ i \in Nat /\ n \in Nat /\ n # 0
      /\ n <= Reactions!PairCount(Reactions!Channel) /\ Reactions!PairCount(Reactions!Channel) \in Nat
      /\ at \in Nat \X Nat
  BY AtHand DEF SweepInv, SweepTypeOK
<1>2. \A c : Reactions!PairCount(c)' = Reactions!PairCount(c)
  BY DEF Reactions!PairCount
<1>3. \A j \in DOMAIN Swept : j > i => rows'[Swept[j]] = <<>>
  <2> SUFFICES ASSUME NEW j \in DOMAIN Swept, j > i PROVE rows'[Swept[j]] = <<>>
    OBVIOUS
  <2>1. rows[Swept[j]] = <<>>
    BY DEF SweepInv, SweepIsAt
  <2>2. j # i
    BY <1>1, SweptPlaces
  <2> QED
    BY <2>1, <2>2
<1>4. CASE n < Reactions!PairCount(Reactions!Channel)
  <2>1. at' = <<i, n + 1>> /\ sweepStage' = IF batch THEN "send" ELSE "clear"
    BY <1>4 DEF Reactions!GoOn, Reactions!Start
  <2>2. at'[1] = i /\ at'[2] = n + 1 /\ at' \in Nat \X Nat
    BY <1>1, <2>1
  <2>3. Reactions!Channel' = Reactions!Channel
    BY <1>1, <2>2 DEF Reactions!Channel
  <2>4. at'[2] \in 1..Reactions!PairCount(Reactions!Channel) /\ at'[2] # 0
    BY <1>1, <1>4, <2>2
  <2> QED
    BY <1>1, <1>2, <1>3, <2>1, <2>2, <2>3, <2>4 DEF SweepIsAt
<1>5. CASE ~(n < Reactions!PairCount(Reactions!Channel))
  <2>1. UNCHANGED at /\ sweepStage' = "leave"
    BY <1>5 DEF Reactions!GoOn
  <2>2. Reactions!Channel' = Reactions!Channel
    BY <2>1 DEF Reactions!Channel
  <2> QED
    BY <1>1, <1>3, <2>1, <2>2 DEF SweepIsAt
<1> QED
  BY <1>4, <1>5

\* What a step does that gives channel c its row n + 1.
RowIsAdded(c, n, r) ==
  /\ UNCHANGED lingers
  /\ c = Reactions!Channel /\ n = Len(rows[c]) /\ r \in SweepRows
  /\ rows' = [rows EXCEPT ![c] = Append(@, r)]
  /\ drawn' \in [Reactions!Channels -> Seq(BOOLEAN)]
  /\ \A d \in Reactions!Channels :
       /\ Len(drawn'[d]) = IF d = c THEN n + 1 ELSE Len(rows[d])
       /\ \A i \in DOMAIN rows[d] : drawn'[d][i] = drawn[d][i]
  /\ DOMAIN shown' = Reactions!Channels
  /\ \A d \in Reactions!Channels : DOMAIN shown'[d] = 1..Len(Emojis)
  /\ Reactions!Deliverable(r) => drawn'[c][n + 1]
  /\ batch =>
       /\ n + 1 <= Len(Emojis) /\ (sweepStage = "send" => at[2] = n + 1)
       /\ \A d \in Reactions!Channels : \A m \in 1..Len(Emojis) :
            d # c \/ m # n + 1 => shown'[d][m] = shown[d][m]
       /\ r.rendered # "as-sent"
       /\ r.accepted /\ shown'[c][n + 1] = r.emoji => drawn'[c][n + 1]

\* A row more, with its drawing.
LEMMA RowKeepsInv ==
  ASSUME SweepInv, sweepStage \in {"send", "ask"}, Reactions!GoOn, UNCHANGED <<batch, captured>>,
         NEW c, NEW n, NEW r, RowIsAdded(c, n, r)
  PROVE  SweepInv'
<1> USE DEF RowIsAdded
<1>1. c \in Reactions!Channels /\ c = Swept[at[1]] /\ at[1] \in DOMAIN Swept
  BY AtHand
<1>2. /\ n \in Nat /\ rows' \in [Reactions!Channels -> Seq(SweepRows)]
      /\ \A d \in Reactions!Channels : d # c => rows'[d] = rows[d]
      /\ rows'[c] = Append(rows[c], r)
  BY <1>1 DEF SweepInv, SweepTypeOK
<1>3. /\ Len(rows'[c]) = n + 1 /\ DOMAIN rows'[c] = 1..(n + 1) /\ DOMAIN rows[c] = 1..n
      /\ rows'[c][n + 1] = r /\ \A i \in 1..n : rows'[c][i] = rows[c][i]
  BY <1>1, <1>2 DEF SweepInv, SweepTypeOK
<1>4. ASSUME NEW j \in DOMAIN Swept, j # at[1]
      PROVE  rows'[Swept[j]] = rows[Swept[j]]
  <2> DEFINE d == Swept[j]
  <2>1. d \in Reactions!Channels
    BY SweptPlaces
  <2>2. d # c
    BY <1>1, <1>4, SweptPlaces
  <2> HIDE DEF d
  <2>3. rows'[d] = rows[d]
    BY <1>2, <2>1, <2>2, Zenon
  <2> QED
    BY <2>3 DEF d
<1>5. /\ SweepIsAt' /\ at' \in Nat \X Nat
      /\ Reactions!Channel' = c
      /\ sweepStage' \in {"clear", "send", "leave"}
      /\ sweepStage' = "send" => batch /\ at'[2] = at[2] + 1
  BY <1>4, GoesOn
<1>6. SweepTypeOK'
  BY <1>2, <1>5 DEF SweepInv, SweepTypeOK
<1>7. DrawnPerRow'
  BY <1>2, <1>3, <1>5 DEF DrawnPerRow
<1>8. AskedIsOwn'
  BY <1>5 DEF AskedIsOwn
<1>9. RowsAreDrawn'
  <2> SUFFICES ASSUME NEW d \in Reactions!Channels, NEW i \in DOMAIN rows'[d],
                      Reactions!Deliverable(rows'[d][i])
               PROVE  drawn'[d][i]
    BY DEF RowsAreDrawn
  <2>1. CASE i \in DOMAIN rows[d] /\ rows'[d][i] = rows[d][i]
    BY <2>1 DEF SweepInv, RowsAreDrawn
  <2>2. CASE d = c /\ i = n + 1
    BY <1>3, <2>2
  <2> QED
    BY <1>2, <1>3, <2>1, <2>2
<1>10. BatchIsFresh'
  <2> SUFFICES ASSUME batch PROVE BatchIsFresh'
    BY DEF BatchIsFresh
  <2>1. sweepStage = "send"
    BY DEF SweepInv, AskedIsOwn
  <2>2. sweepStage' = "send" => at'[2] = Len(rows'[c]) + 1
    BY <1>3, <1>5, <2>1
  <2>3. ASSUME NEW d \in Reactions!Channels
        PROVE  /\ Len(rows[d]) <= Len(Emojis) /\ Len(rows[d]) \in Nat /\ DOMAIN rows[d] = 1..Len(rows[d])
               /\ \A m \in 1..Len(Emojis) : m > Len(rows[d]) => shown[d][m] = None
               /\ \A i \in DOMAIN rows[d] :
                    /\ rows[d][i].rendered # "as-sent"
                    /\ rows[d][i].accepted /\ shown[d][i] = rows[d][i].emoji => drawn[d][i]
    BY <2>1 DEF SweepInv, BatchIsFresh, SweepTypeOK
  <2>4. ASSUME NEW d \in Reactions!Channels, d # c
        PROVE  /\ Len(rows'[d]) <= Len(Emojis)
               /\ \A m \in 1..Len(Emojis) : m > Len(rows'[d]) => shown'[d][m] = None
               /\ \A i \in DOMAIN rows'[d] :
                    /\ rows'[d][i].rendered # "as-sent"
                    /\ rows'[d][i].accepted /\ shown'[d][i] = rows'[d][i].emoji => drawn'[d][i]
    <3>1. rows'[d] = rows[d]
      BY <1>2, <2>4
    <3>2. ASSUME NEW m \in 1..Len(Emojis), m > Len(rows'[d]) PROVE shown'[d][m] = None
      BY <2>3, <2>4, <3>1, <3>2
    <3>3. ASSUME NEW i \in DOMAIN rows'[d]
          PROVE  /\ rows'[d][i].rendered # "as-sent"
                 /\ rows'[d][i].accepted /\ shown'[d][i] = rows'[d][i].emoji => drawn'[d][i]
      <4> DEFINE k == Len(rows[d])
                 l == Len(Emojis)
      <4>0. k \in Nat /\ l \in Nat /\ k <= l /\ DOMAIN rows[d] = 1..k
        BY <2>3, SweptPlaces
      <4>1. i \in DOMAIN rows[d] /\ i \in 1..l
        <5>1. i \in DOMAIN rows[d]
          BY <3>1
        <5> HIDE DEF k, l
        <5> QED
          BY <4>0, <5>1
      <4>2. shown'[d][i] = shown[d][i]
        BY <2>4, <4>1
      <4>3. drawn'[d][i] = drawn[d][i]
        BY <4>1
      <4>4. /\ rows[d][i].rendered # "as-sent"
            /\ rows[d][i].accepted /\ shown[d][i] = rows[d][i].emoji => drawn[d][i]
        BY <2>3, <4>1
      <4> QED
        BY <3>1, <4>2, <4>3, <4>4
    <3> QED
      BY <2>3, <3>1, <3>2, <3>3
  <2>5. /\ Len(rows'[c]) <= Len(Emojis)
        /\ \A m \in 1..Len(Emojis) : m > Len(rows'[c]) => shown'[c][m] = None
        /\ \A i \in DOMAIN rows'[c] :
             /\ rows'[c][i].rendered # "as-sent"
             /\ rows'[c][i].accepted /\ shown'[c][i] = rows'[c][i].emoji => drawn'[c][i]
    <3>1. \A i \in 1..n : i \in 1..Len(Emojis) /\ i # n + 1
      <4> DEFINE l == Len(Emojis)
      <4>1. l \in Nat /\ n \in Nat
        BY <1>2, SweptPlaces
      <4>2. n = Len(rows[c])
        BY Zenon
      <4>3. \A d \in Reactions!Channels : Len(rows[d]) <= l
        BY <2>3
      <4> HIDE DEF l
      <4>4. \A i \in 1..n : i \in 1..l /\ i # n + 1
        BY <1>1, <4>1, <4>2, <4>3
      <4> QED
        BY <4>4 DEF l
    <3>2. \A m \in 1..Len(Emojis) : m > n + 1 => m > n /\ m # n + 1
      BY <1>2, SweptPlaces
    <3>3. \A i \in 1..(n + 1) : i \in 1..n \/ i = n + 1
      BY <1>2
    <3>4. ASSUME NEW m \in 1..Len(Emojis), m > n + 1 PROVE shown'[c][m] = None
      <4>1. shown'[c][m] = shown[c][m]
        BY <1>1, <3>2, <3>4
      <4>2. shown[c][m] = None
        BY <1>1, <2>3, <3>2, <3>4
      <4> QED
        BY <4>1, <4>2
    <3>5. ASSUME NEW i \in 1..n
          PROVE  /\ rows'[c][i].rendered # "as-sent"
                 /\ rows'[c][i].accepted /\ shown'[c][i] = rows'[c][i].emoji => drawn'[c][i]
      <4>1. i \in DOMAIN rows[c] /\ rows'[c][i] = rows[c][i]
        BY <1>3
      <4>2. shown'[c][i] = shown[c][i]
        BY <1>1, <3>1
      <4>3. drawn'[c][i] = drawn[c][i]
        BY <1>1, <4>1
      <4>4. /\ rows[c][i].rendered # "as-sent"
            /\ rows[c][i].accepted /\ shown[c][i] = rows[c][i].emoji => drawn[c][i]
        BY <1>1, <2>3, <4>1
      <4> QED
        BY <4>1, <4>2, <4>3, <4>4
    <3>6. /\ rows'[c][n + 1].rendered # "as-sent"
          /\ rows'[c][n + 1].accepted /\ shown'[c][n + 1] = rows'[c][n + 1].emoji => drawn'[c][n + 1]
      BY <1>3
    <3>7. Len(rows'[c]) <= Len(Emojis)
      BY <1>3
    <3> QED
      BY <1>3, <3>3, <3>4, <3>5, <3>6, <3>7
  <2> QED
    BY <1>5, <2>2, <2>4, <2>5 DEF BatchIsFresh
<1> QED
  BY <1>5, <1>6, <1>7, <1>8, <1>9, <1>10 DEF SweepInv

\* Where the sweep goes when it leaves a channel.
LEMMA NextChannel ==
  ASSUME SweepTypeOK, NEW i \in Nat \ {0}, Reactions!From(i) # {}
  PROVE  LET m == Reactions!Min(Reactions!From(i))
         IN m \in i..Len(Swept) /\ m \in DOMAIN Swept /\ Reactions!PairCount(Swept[m]) > 0
<1>1. Reactions!From(i) \subseteq Nat /\ Reactions!From(i) \subseteq i..Len(Swept)
  BY SweptPlaces DEF Reactions!From
<1> DEFINE m == Reactions!Min(Reactions!From(i))
<1>2. m \in Reactions!From(i)
  BY <1>1, LeastNumber
<1> HIDE DEF m
<1>3. m \in i..Len(Swept) /\ Reactions!PairCount(Swept[m]) > 0
  BY <1>2 DEF Reactions!From
<1>4. m \in DOMAIN Swept
  BY <1>3, SweptPlaces
<1> QED
  BY <1>3, <1>4 DEF m

LEMMA ClearFirstKeepsInv ==
  ASSUME SweepInv, NEW accepted \in BOOLEAN, NEW emptied \in BOOLEAN,
         Reactions!ClearFirst(accepted, emptied)
  PROVE  SweepInv'
<1> DEFINE c == Reactions!Channel
<1>1. sweepStage = "clear" /\ sweepStage' = "send" /\ UNCHANGED <<batch, captured, at, rows, drawn>>
      /\ cleared' = accepted /\ lingers' = (accepted /\ ~emptied)
      /\ shown' = IF emptied THEN [shown EXCEPT ![c][1] = None] ELSE shown
  BY DEF Reactions!ClearFirst, Reactions!Unreact
<1>2. c \in Reactions!Channels /\ at[2] \in Nat /\ at[2] # 0 /\ at[1] \in DOMAIN Swept
  BY <1>1, AtHand
<1>3. ~batch
  BY <1>1 DEF SweepInv, SweepIsAt
<1>4. Reactions!Channel' = c /\ \A d : Reactions!PairCount(d)' = Reactions!PairCount(d)
  BY <1>1 DEF Reactions!Channel, Reactions!PairCount
<1>5. /\ DOMAIN shown' = Reactions!Channels
      /\ \A d \in Reactions!Channels : DOMAIN shown'[d] = 1..Len(Emojis)
  BY <1>1, <1>2 DEF SweepInv, SweepTypeOK
<1>6. SweepTypeOK'
  BY <1>1, <1>5 DEF SweepInv, SweepTypeOK
<1>7. SweepIsAt'
  BY <1>1, <1>3, <1>4 DEF SweepInv, SweepIsAt
<1>8. DrawnPerRow'
  BY <1>1 DEF SweepInv, DrawnPerRow
<1>9. emptied => shown'[c][1] = None
  <2>1. 1 \in 1..Len(Emojis)
    <3>1. Reactions!PairCount(c) \in Nat /\ at[2] \in 1..Reactions!PairCount(c) /\ captured[c] \in Nat
      BY <1>1, <1>2, PairsAreCounted DEF SweepInv, SweepTypeOK, SweepIsAt
    <3>2. Reactions!PairCount(c) = IF captured[c] = 0 THEN 0 ELSE Len(Emojis)
      BY <1>3 DEF Reactions!PairCount
    <3> HIDE DEF c
    <3> QED
      BY <3>1, <3>2, SweptPlaces
  <2> QED
    BY <1>1, <1>2, <2>1 DEF SweepInv, SweepTypeOK
<1>10. AskedIsOwn'
  BY <1>1, <1>4, <1>9 DEF AskedIsOwn
<1>11. BatchIsFresh'
  BY <1>1, <1>3 DEF BatchIsFresh
<1>12. RowsAreDrawn'
  BY <1>1 DEF SweepInv, RowsAreDrawn
<1> QED
  BY <1>6, <1>7, <1>8, <1>10, <1>11, <1>12 DEF SweepInv

LEMMA LeaveKeepsInv ==
  ASSUME SweepInv, NEW emptied \in BOOLEAN, Reactions!Leave(emptied) PROVE SweepInv'
<1> DEFINE i == IF at[2] = 0 THEN 1 ELSE at[1] + 1
           c == Reactions!Channel
<1>1. /\ sweepStage = "leave" /\ UNCHANGED <<batch, captured, lingers, rows, drawn>>
      /\ shown' = IF emptied /\ ~batch THEN [shown EXCEPT ![c][1] = None] ELSE shown
      /\ IF Reactions!From(i) # {}
         THEN at' = <<Reactions!Min(Reactions!From(i)), 1>> /\ sweepStage' = Reactions!Start
         ELSE sweepStage' = "answers" /\ UNCHANGED at
  BY DEF Reactions!Leave, Reactions!Unreact
<1>2. at[1] \in Nat /\ at[2] \in Nat /\ i \in Nat \ {0} /\ at \in Nat \X Nat
  BY DEF SweepInv, SweepTypeOK
<1>3. /\ DOMAIN shown' = Reactions!Channels
      /\ \A d \in Reactions!Channels : DOMAIN shown'[d] = 1..Len(Emojis)
  BY <1>1 DEF SweepInv, SweepTypeOK
<1>4. \A d : Reactions!PairCount(d)' = Reactions!PairCount(d)
  BY <1>1 DEF Reactions!PairCount
<1>5. batch => shown' = shown
  BY <1>1
<1>6. CASE Reactions!From(i) = {}
  <2>1. sweepStage' = "answers" /\ at' = at
    BY <1>1, <1>6
  <2>2. SweepTypeOK'
    BY <1>1, <1>3, <2>1 DEF SweepInv, SweepTypeOK
  <2>3. DrawnPerRow'
    BY <1>1, <2>1 DEF SweepInv, DrawnPerRow
  <2>4. BatchIsFresh'
    BY <1>1, <1>5, <2>1 DEF SweepInv, BatchIsFresh
  <2> QED
    BY <1>1, <2>1, <2>2, <2>3, <2>4 DEF SweepInv, SweepIsAt, AskedIsOwn, RowsAreDrawn
<1>7. CASE Reactions!From(i) # {}
  <2> DEFINE m == Reactions!Min(Reactions!From(i))
  <2>1. m \in i..Len(Swept) /\ m \in DOMAIN Swept /\ Reactions!PairCount(Swept[m]) > 0
    BY <1>2, <1>7, NextChannel DEF SweepInv
  <2>2. at' = <<m, 1>> /\ sweepStage' = IF batch THEN "send" ELSE "clear"
    BY <1>1, <1>7 DEF Reactions!Start
  <2> HIDE DEF m
  <2>3. at'[1] = m /\ at'[2] = 1 /\ at' \in Nat \X Nat
    BY <2>1, <2>2, SweptPlaces
  <2>4. Reactions!Channel' = Swept[m] /\ Swept[m] \in Reactions!Channels
    BY <2>1, <2>3, SweptPlaces DEF Reactions!Channel
  <2>5. \A j \in DOMAIN Swept : j > at[1] \/ at[2] = 0 => rows[Swept[j]] = <<>>
    BY <1>1 DEF SweepInv, SweepIsAt
  <2>6. rows[Swept[m]] = <<>>
    BY <1>2, <2>1, <2>5, SweptPlaces
  <2>7. \A j \in DOMAIN Swept : j > m => rows[Swept[j]] = <<>>
    BY <1>2, <2>1, <2>5, SweptPlaces
  <2>8. SweepTypeOK'
    BY <1>1, <1>3, <2>3 DEF SweepInv, SweepTypeOK
  <2>9. Reactions!PairCount(Swept[m]) \in Nat /\ 1 \in 1..Reactions!PairCount(Swept[m])
    BY <2>1, <2>4, PairsAreCounted DEF SweepInv
  <2>10. SweepIsAt'
    <3>1. Reactions!PairCount(Reactions!Channel)' = Reactions!PairCount(Swept[m])
      BY <1>1, <2>4 DEF Reactions!PairCount
    <3>2. at'[1] \in DOMAIN Swept /\ at'[2] \in 1..Reactions!PairCount(Reactions!Channel)'
      BY <2>1, <2>3, <2>9, <3>1
    <3>3. \A j \in DOMAIN Swept : j > at'[1] \/ at'[2] = 0 => rows'[Swept[j]] = <<>>
      BY <1>1, <2>3, <2>7
    <3> QED
      BY <1>1, <2>2, <3>2, <3>3 DEF SweepIsAt
  <2>11. DrawnPerRow'
    BY <1>1, <2>2 DEF SweepInv, DrawnPerRow
  <2>12. AskedIsOwn'
    BY <1>1, <2>2 DEF AskedIsOwn
  <2>13. BatchIsFresh'
    <3>1. Len(rows[Swept[m]]) = 0
      BY <2>6
    <3> QED
      BY <1>1, <1>5, <2>2, <2>3, <2>4, <3>1 DEF SweepInv, BatchIsFresh
  <2> QED
    BY <1>1, <2>8, <2>10, <2>11, <2>12, <2>13 DEF SweepInv, RowsAreDrawn
<1> QED
  BY <1>6, <1>7

\* The emoji at hand is one of the list, and in a batch there is a message for it.
LEMMA EmojiAtHand ==
  ASSUME SweepInv, sweepStage \in {"clear", "send", "ask"}
  PROVE  /\ Reactions!Emoji \in EmojiSet /\ Reactions!Emoji # None
         /\ at[2] \in 1..Len(Emojis)
<1>1. /\ at[2] \in Nat /\ at[2] # 0 /\ at[2] <= Reactions!PairCount(Reactions!Channel)
      /\ Reactions!Channel \in Reactions!Channels
      /\ Reactions!PairCount(Reactions!Channel) \in Nat
  BY AtHand
<1>2. Reactions!PairCount(Reactions!Channel) <= Len(Emojis)
  <2>1. CASE batch
    BY <1>1, <2>1, PairsAreCounted DEF SweepInv
  <2>2. CASE ~batch
    <3> DEFINE p == Reactions!PairCount(Reactions!Channel)
               l == Len(Emojis)
    <3>1. p = 0 \/ p = l
      BY <2>2 DEF Reactions!PairCount
    <3>2. p \in Nat /\ l \in Nat
      BY <1>1, SweptPlaces
    <3> HIDE DEF p, l
    <3> QED
      BY <3>1, <3>2 DEF p, l
  <2> QED
    BY <2>1, <2>2
<1>3. at[2] \in 1..Len(Emojis)
  BY <1>1, <1>2, SweptPlaces
<1> QED
  BY <1>3, SweptPlaces DEF Reactions!Emoji, EmojiSet

\* A send adds its drawing behind those of the rows.
LEMMA DrawingIsAppended ==
  ASSUME SweepInv, sweepStage = "send", NEW own \in BOOLEAN,
         drawn' = [drawn EXCEPT ![Reactions!Channel] = Append(@, own)]
  PROVE  /\ drawn' \in [Reactions!Channels -> Seq(BOOLEAN)]
         /\ \A d \in Reactions!Channels :
              /\ Len(drawn'[d]) = IF d = Reactions!Channel THEN Len(rows[d]) + 1 ELSE Len(rows[d])
              /\ \A i \in DOMAIN rows[d] : drawn'[d][i] = drawn[d][i]
         /\ drawn'[Reactions!Channel][Len(rows[Reactions!Channel]) + 1] = own
<1> DEFINE c == Reactions!Channel
           n == Len(rows[c])
<1>1. c \in Reactions!Channels
  BY AtHand
<1>2. \A d \in Reactions!Channels : drawn[d] \in Seq(BOOLEAN) /\ rows[d] \in Seq(SweepRows)
  BY DEF SweepInv, SweepTypeOK
<1>3. \A d \in Reactions!Channels : Len(drawn[d]) = Len(rows[d])
  BY DEF SweepInv, DrawnPerRow
<1>4. \A d \in Reactions!Channels : drawn'[d] = IF d = c THEN Append(drawn[c], own) ELSE drawn[d]
  BY <1>1 DEF SweepInv, SweepTypeOK
<1> HIDE DEF c
<1>5. n \in Nat /\ drawn[c] \in Seq(BOOLEAN) /\ Len(drawn[c]) = n
  BY <1>1, <1>2, <1>3
<1>6. /\ Len(drawn'[c]) = n + 1 /\ drawn'[c][n + 1] = own
      /\ \A i \in 1..n : drawn'[c][i] = drawn[c][i]
  <2>1. drawn'[c] = Append(drawn[c], own)
    BY <1>1, <1>4
  <2>2. ASSUME NEW s \in Seq(BOOLEAN), NEW k \in Nat, Len(s) = k
        PROVE  /\ Len(Append(s, own)) = k + 1 /\ Append(s, own)[k + 1] = own
               /\ \A i \in 1..k : Append(s, own)[i] = s[i]
    BY <2>2
  <2> HIDE DEF n
  <2> QED
    BY <1>5, <2>1, <2>2
<1>7. drawn' \in [Reactions!Channels -> Seq(BOOLEAN)]
  BY <1>1, <1>2 DEF SweepInv, SweepTypeOK, c
<1>8. ASSUME NEW d \in Reactions!Channels
      PROVE  /\ Len(drawn'[d]) = IF d = c THEN Len(rows[d]) + 1 ELSE Len(rows[d])
             /\ \A i \in DOMAIN rows[d] : drawn'[d][i] = drawn[d][i]
  <2>1. CASE d = c
    <3>1. DOMAIN rows[c] = 1..n
      BY <1>1, <1>2
    <3>2. ASSUME NEW i \in DOMAIN rows[d] PROVE drawn'[d][i] = drawn[d][i]
      BY <1>6, <2>1, <3>1
    <3> QED
      BY <1>6, <2>1, <3>2
  <2>2. CASE d # c
    <3>1. drawn'[d] = drawn[d]
      BY <1>4, <2>2
    <3> QED
      BY <1>3, <2>2, <3>1
  <2> QED
    BY <2>1, <2>2
<1> QED
  BY <1>6, <1>7, <1>8 DEF c

\* In a batch the message of the emoji at hand is the first without a row.
LEMMA RoomInBatch ==
  ASSUME SweepInv, sweepStage = "send", batch
  PROVE  LET n == Len(rows[Reactions!Channel])
         IN n + 1 <= Len(Emojis) /\ at[2] = n + 1
<1>1. at[2] = Len(rows[Reactions!Channel]) + 1
  BY DEF SweepInv, BatchIsFresh
<1>2. at[2] \in 1..Len(Emojis)
  BY EmojiAtHand
<1> QED
  BY <1>1, <1>2, SweptPlaces

LEMMA RefusedKeepsInv == ASSUME SweepInv, Reactions!Refused PROVE SweepInv'
<1> DEFINE c == Reactions!Channel
           n == Len(rows[c])
           r == [emoji |-> Reactions!Emoji, accepted |-> FALSE, rendered |-> "nothing"]
<1>1. /\ sweepStage = "send" /\ Reactions!GoOn /\ UNCHANGED <<batch, captured, shown, lingers>>
      /\ rows' = [rows EXCEPT ![c] = Append(@, r)]
      /\ drawn' = [drawn EXCEPT ![c] = Append(@, FALSE)]
  BY DEF Reactions!Refused, Reactions!Row
<1>2. c \in Reactions!Channels
  BY <1>1, AtHand
<1>3. r \in SweepRows /\ ~r.accepted /\ r.rendered # "as-sent"
  BY <1>1, EmojiAtHand DEF SweepRows
<1>4. drawn' \in [Reactions!Channels -> Seq(BOOLEAN)]
  BY <1>1, <1>2 DEF SweepInv, SweepTypeOK
<1>5. \A d \in Reactions!Channels :
        /\ Len(drawn'[d]) = IF d = c THEN n + 1 ELSE Len(rows[d])
        /\ \A i \in DOMAIN rows[d] : drawn'[d][i] = drawn[d][i]
  BY <1>1, <1>2, DrawingIsAppended
<1>6. batch => n + 1 <= Len(Emojis) /\ at[2] = n + 1
  BY <1>1, RoomInBatch
<1>7. /\ DOMAIN shown' = Reactions!Channels
      /\ \A d \in Reactions!Channels : DOMAIN shown'[d] = 1..Len(Emojis)
  BY <1>1 DEF SweepInv, SweepTypeOK
<1>8. ~Reactions!Deliverable(r)
  BY <1>3 DEF Reactions!Deliverable
<1> HIDE DEF c, n, r
<1>9. c = Reactions!Channel /\ n = Len(rows[c])
  BY DEF c, n
<1>10. batch => /\ \A d \in Reactions!Channels : \A m \in 1..Len(Emojis) :
                     d # c \/ m # n + 1 => shown'[d][m] = shown[d][m]
  BY <1>1
<1>11. RowIsAdded(c, n, r)
  BY <1>1, <1>3, <1>4, <1>5, <1>6, <1>7, <1>8, <1>9, <1>10 DEF RowIsAdded
<1> QED
  BY <1>1, <1>11, RowKeepsInv

LEMMA AskKeepsInv == ASSUME SweepInv, Reactions!Ask PROVE SweepInv'
<1> DEFINE c == Reactions!Channel
           n == Len(rows[c])
           r == [emoji |-> Reactions!Emoji, accepted |-> TRUE,
                 rendered |-> Reactions!Reading(shown[c][1], Reactions!Emoji)]
<1>1. /\ sweepStage = "ask" /\ Reactions!GoOn
      /\ UNCHANGED <<batch, captured, shown, drawn, lingers>>
      /\ rows' = [rows EXCEPT ![c] = Append(@, r)]
  BY DEF Reactions!Ask, Reactions!Row
<1>2. c \in Reactions!Channels
  BY <1>1, AtHand
<1>3. r \in SweepRows
  BY <1>1, EmojiAtHand DEF SweepRows, Reactions!Reading
<1>4. drawn' \in [Reactions!Channels -> Seq(BOOLEAN)]
  BY <1>1 DEF SweepInv, SweepTypeOK
<1>5. \A d \in Reactions!Channels :
        /\ Len(drawn'[d]) = IF d = c THEN n + 1 ELSE Len(rows[d])
        /\ \A i \in DOMAIN rows[d] : drawn'[d][i] = drawn[d][i]
  BY <1>1 DEF SweepInv, DrawnPerRow
<1>6. ~batch /\ (shown[c][1] = Reactions!Emoji => drawn[c][n + 1])
  BY <1>1 DEF SweepInv, AskedIsOwn
<1>7. Reactions!Deliverable(r) => drawn'[c][n + 1]
  <2>1. Reactions!Deliverable(r) => shown[c][1] = Reactions!Emoji
    BY DEF Reactions!Deliverable, Reactions!Reading
  <2> QED
    BY <1>1, <1>6, <2>1
<1>8. /\ DOMAIN shown' = Reactions!Channels
      /\ \A d \in Reactions!Channels : DOMAIN shown'[d] = 1..Len(Emojis)
  BY <1>1 DEF SweepInv, SweepTypeOK
<1> HIDE DEF c, n, r
<1>9. c = Reactions!Channel /\ n = Len(rows[c])
  BY DEF c, n
<1>10. RowIsAdded(c, n, r)
  BY <1>1, <1>3, <1>4, <1>5, <1>6, <1>7, <1>8, <1>9 DEF RowIsAdded
<1> QED
  BY <1>1, <1>10, RowKeepsInv

\* What a send that Meta accepted does to the message and to the drawings.
LEMMA AcceptedLeaves ==
  ASSUME SweepInv, NEW reaction, Reactions!Accepted(reaction)
  PROVE  \E own \in BOOLEAN :
           /\ drawn' = [drawn EXCEPT ![Reactions!Channel] = Append(@, own)]
           /\ lingers \/ shown[Reactions!Channel][Reactions!Message] = None =>
                (reaction = Reactions!Emoji => own)
           /\ DOMAIN shown' = Reactions!Channels
           /\ \A d \in Reactions!Channels :
                /\ DOMAIN shown'[d] = 1..Len(Emojis)
                /\ \A m \in 1..Len(Emojis) :
                     shown'[d][m] = IF d = Reactions!Channel /\ m = Reactions!Message
                                    THEN reaction ELSE shown[d][m]
<1> DEFINE c == Reactions!Channel
           k == Reactions!Message
<1>1. /\ sweepStage = "send"
      /\ shown' = [shown EXCEPT ![c][k] = reaction]
  BY DEF Reactions!Accepted
<1>2. PICK drew \in BOOLEAN :
        /\ reaction # shown[c][k] => drew = (reaction = Reactions!Emoji)
        /\ drawn' = [drawn EXCEPT ![c] = Append(@, drew \/ lingers)]
  BY DEF Reactions!Accepted
<1>3. c \in Reactions!Channels /\ Reactions!Emoji # None
  BY <1>1, AtHand, EmojiAtHand
<1> DEFINE own == drew \/ lingers
<1>4. own \in BOOLEAN /\ (lingers \/ shown[c][k] = None => (reaction = Reactions!Emoji => own))
  BY <1>2, <1>3
<1>6. drawn' = [drawn EXCEPT ![c] = Append(@, own)]
  BY <1>2
<1> HIDE DEF own
<1> HIDE DEF c, k
<1>5. /\ DOMAIN shown' = Reactions!Channels
      /\ \A d \in Reactions!Channels :
           /\ DOMAIN shown'[d] = 1..Len(Emojis)
           /\ \A m \in 1..Len(Emojis) : shown'[d][m] = IF d = c /\ m = k THEN reaction ELSE shown[d][m]
  BY <1>1, <1>3 DEF SweepInv, SweepTypeOK
<1> QED
  BY <1>4, <1>5, <1>6 DEF c, k

LEMMA AcceptedKeepsInv ==
  ASSUME SweepInv, NEW reaction, Reactions!Accepted(reaction) PROVE SweepInv'
<1> DEFINE c == Reactions!Channel
           n == Len(rows[c])
           r == [emoji |-> Reactions!Emoji, accepted |-> TRUE, rendered |-> "unverified"]
<1>1. /\ sweepStage = "send" /\ UNCHANGED <<batch, captured, lingers>>
      /\ \/ ~batch /\ cleared /\ sweepStage' = "ask" /\ UNCHANGED <<at, rows>>
         \/ rows' = [rows EXCEPT ![c] = Append(@, r)] /\ Reactions!GoOn
  BY DEF Reactions!Accepted, Reactions!Row
<1>2. /\ c \in Reactions!Channels /\ Reactions!Emoji \in EmojiSet /\ Reactions!Emoji # None
      /\ at[2] \in 1..Len(Emojis)
  BY <1>1, AtHand, EmojiAtHand
<1>3. PICK own \in BOOLEAN :
        /\ drawn' = [drawn EXCEPT ![c] = Append(@, own)]
        /\ lingers \/ shown[c][Reactions!Message] = None => (reaction = Reactions!Emoji => own)
        /\ DOMAIN shown' = Reactions!Channels
        /\ \A d \in Reactions!Channels :
             /\ DOMAIN shown'[d] = 1..Len(Emojis)
             /\ \A m \in 1..Len(Emojis) :
                  shown'[d][m] = IF d = c /\ m = Reactions!Message THEN reaction ELSE shown[d][m]
  BY AcceptedLeaves
<1>4. /\ drawn' \in [Reactions!Channels -> Seq(BOOLEAN)]
      /\ \A d \in Reactions!Channels :
           /\ Len(drawn'[d]) = IF d = c THEN n + 1 ELSE Len(rows[d])
           /\ \A i \in DOMAIN rows[d] : drawn'[d][i] = drawn[d][i]
      /\ drawn'[c][n + 1] = own
  BY <1>1, <1>3, DrawingIsAppended
<1>5. CASE ~batch /\ cleared /\ sweepStage' = "ask" /\ UNCHANGED <<at, rows>>
  <2>1. Reactions!Channel' = c /\ \A d : Reactions!PairCount(d)' = Reactions!PairCount(d)
    BY <1>1, <1>5 DEF Reactions!Channel, Reactions!PairCount
  <2>2. Reactions!Emoji' = Reactions!Emoji /\ Reactions!Message = 1
    BY <1>5 DEF Reactions!Emoji, Reactions!Message
  <2>3. SweepTypeOK'
    BY <1>1, <1>3, <1>4, <1>5 DEF SweepInv, SweepTypeOK
  <2>4. SweepIsAt'
    BY <1>1, <1>5, <2>1 DEF SweepInv, SweepIsAt
  <2>5. DrawnPerRow'
    BY <1>4, <1>5, <2>1 DEF DrawnPerRow
  <2>6. AskedIsOwn'
    <3>1. lingers \/ shown[c][1] = None
      BY <1>1, <1>5 DEF SweepInv, AskedIsOwn
    <3>2. 1 \in 1..Len(Emojis)
      BY <1>2, SweptPlaces
    <3>3. shown'[c][1] = reaction
      BY <1>2, <1>3, <2>2, <3>2
    <3>4. shown'[c][1] = Reactions!Emoji => drawn'[c][n + 1]
      BY <1>3, <1>4, <2>2, <3>1, <3>3
    <3>5. ~batch' /\ rows' = rows
      BY <1>1, <1>5
    <3> QED
      BY <1>5, <2>1, <2>2, <3>4, <3>5 DEF AskedIsOwn
  <2>7. BatchIsFresh'
    BY <1>1, <1>5 DEF BatchIsFresh
  <2>8. RowsAreDrawn'
    <3> SUFFICES ASSUME NEW d \in Reactions!Channels, NEW i \in DOMAIN rows[d],
                        Reactions!Deliverable(rows[d][i])
                 PROVE  drawn'[d][i]
      BY <1>5 DEF RowsAreDrawn
    <3>1. drawn[d][i]
      BY <1>1 DEF SweepInv, RowsAreDrawn
    <3>2. drawn'[d][i] = drawn[d][i]
      BY <1>4
    <3> QED
      BY <3>1, <3>2
  <2> QED
    BY <2>3, <2>4, <2>5, <2>6, <2>7, <2>8 DEF SweepInv
<1>6. CASE rows' = [rows EXCEPT ![c] = Append(@, r)] /\ Reactions!GoOn
  <2>1. r \in SweepRows /\ r.rendered # "as-sent" /\ r.emoji = Reactions!Emoji
    BY <1>2 DEF SweepRows
  <2>2. ~Reactions!Deliverable(r)
    BY <2>1 DEF Reactions!Deliverable
  <2>3. ASSUME batch
        PROVE  /\ n + 1 <= Len(Emojis) /\ at[2] = n + 1
               /\ \A d \in Reactions!Channels : \A m \in 1..Len(Emojis) :
                    d # c \/ m # n + 1 => shown'[d][m] = shown[d][m]
               /\ shown'[c][n + 1] = Reactions!Emoji => drawn'[c][n + 1]
    <3>1. n + 1 <= Len(Emojis) /\ at[2] = n + 1 /\ n + 1 \in 1..Len(Emojis)
      BY <1>1, <1>2, <2>3, RoomInBatch
    <3>2. Reactions!Message = n + 1
      BY <2>3, <3>1 DEF Reactions!Message
    <3>3. shown[c][n + 1] = None
      <4>1. n \in Nat
        BY <1>2 DEF SweepInv, SweepTypeOK
      <4>2. n + 1 > n
        BY <4>1
      <4> HIDE DEF c, r
      <4> QED
        BY <1>1, <1>2, <2>3, <3>1, <4>2 DEF SweepInv, BatchIsFresh
    <3>4. shown'[c][n + 1] = reaction
      BY <1>2, <1>3, <3>1, <3>2
    <3> HIDE DEF c, n, r
    <3>5. \A d \in Reactions!Channels : \A m \in 1..Len(Emojis) :
            d # c \/ m # n + 1 => shown'[d][m] = shown[d][m]
      BY <1>3, <3>2
    <3>6. shown'[c][n + 1] = Reactions!Emoji => drawn'[c][n + 1]
      BY <1>3, <1>4, <3>2, <3>3, <3>4
    <3> QED
      BY <3>1, <3>5, <3>6
  <2> HIDE DEF c, n, r
  <2>4. c = Reactions!Channel /\ n = Len(rows[c])
    BY DEF c, n
  <2>5. RowIsAdded(c, n, r)
    BY <1>1, <1>3, <1>4, <1>6, <2>1, <2>2, <2>3, <2>4 DEF RowIsAdded
  <2> QED
    BY <1>1, <1>6, <2>5, RowKeepsInv
<1> QED
  BY <1>1, <1>5, <1>6

LEMMA ReportKeepsInv == ASSUME SweepInv, Reactions!ReportSweep PROVE SweepInv'
<1>1. /\ sweepStage' = "reported" /\ ~batch /\ sweepStage = "answers"
      /\ UNCHANGED <<batch, captured, at, lingers, shown, rows, drawn>>
  BY DEF Reactions!ReportSweep, Reactions!Report
<1>2. SweepTypeOK' /\ RowsAreDrawn'
  BY <1>1 DEF SweepInv, SweepTypeOK, RowsAreDrawn
<1>3. DrawnPerRow'
  BY <1>1 DEF SweepInv, DrawnPerRow
<1> QED
  BY <1>1, <1>2, <1>3 DEF SweepInv, SweepIsAt, AskedIsOwn, BatchIsFresh

LEMMA ApplyKeepsInv ==
  ASSUME SweepInv, NEW c \in Reactions!Channels, NEW given, NEW slip \in {"as-sent", "nothing"},
         Reactions!Apply(c, given, slip)
  PROVE  SweepInv'
<1> DEFINE answer(i) ==
             IF i \notin given \/ i \notin DOMAIN rows[c] THEN ""
             ELSE IF rows[c][i].accepted THEN Reactions!Reading(shown[c][i], rows[c][i].emoji) ELSE slip
<1>1. /\ sweepStage = "answers" /\ batch /\ sweepStage' = "reported"
      /\ thread' = c
      /\ UNCHANGED <<batch, captured, at, lingers, shown, drawn>>
      /\ rows' = [d \in Reactions!Channels |->
                   [i \in DOMAIN rows[d] |-> Reactions!Applied(rows[d][i], answer(i))]]
  BY DEF Reactions!Apply, Reactions!Report
<1>2. \A i : answer(i) \in {"", "as-sent", "nothing", "substituted"}
  BY DEF Reactions!Reading
<1>3. ASSUME NEW d \in Reactions!Channels
      PROVE  /\ rows[d] \in Seq(SweepRows)
             /\ DOMAIN rows'[d] = DOMAIN rows[d]
             /\ \A i \in DOMAIN rows[d] : rows'[d][i] = Reactions!Applied(rows[d][i], answer(i))
  <2> HIDE DEF answer
  <2> QED
    BY <1>1 DEF SweepInv, SweepTypeOK
<1>4. ASSUME NEW d \in Reactions!Channels, NEW i \in DOMAIN rows[d]
      PROVE  /\ rows'[d][i] \in SweepRows
             /\ d = c /\ Reactions!Deliverable(rows'[d][i]) => drawn[d][i]
  <2>1. rows[d][i] \in SweepRows /\ rows[d][i].rendered # "as-sent"
    <3>1. rows[d] \in Seq(SweepRows)
      BY DEF SweepInv, SweepTypeOK
    <3>2. rows[d][i].rendered # "as-sent"
      <4> HIDE DEF answer
      <4> QED
        BY <1>1 DEF SweepInv, BatchIsFresh
    <3> QED
      BY <3>1, <3>2
  <2>2. rows'[d][i] = Reactions!Applied(rows[d][i], answer(i))
    BY <1>3
  <2>3. rows'[d][i] \in SweepRows
    <3> HIDE DEF answer
    <3> QED
      BY <1>2, <2>1, <2>2 DEF Reactions!Applied, SweepRows
  <2>4. ASSUME d = c, Reactions!Deliverable(rows'[d][i]) PROVE drawn[d][i]
    <3>1. rows[d][i].accepted /\ answer(i) = "as-sent"
      <4> HIDE DEF answer
      <4> QED
        BY <1>2, <2>1, <2>2, <2>4 DEF Reactions!Applied, Reactions!Deliverable, SweepRows
    <3>2. shown[c][i] = rows[c][i].emoji
      BY <2>4, <3>1 DEF Reactions!Reading
    <3> QED
      BY <1>1, <2>4, <3>1, <3>2 DEF SweepInv, BatchIsFresh
  <2> QED
    BY <2>3, <2>4
<1>5. rows' \in [Reactions!Channels -> Seq(SweepRows)]
  <2>1. ASSUME NEW d \in Reactions!Channels PROVE rows'[d] \in Seq(SweepRows)
    <3>1. rows'[d] = [i \in DOMAIN rows[d] |-> rows'[d][i]]
      <4> HIDE DEF answer
      <4> QED
        BY <1>1
    <3>2. Len(rows[d]) \in Nat /\ DOMAIN rows[d] = 1..Len(rows[d])
      BY DEF SweepInv, SweepTypeOK
    <3>3. rows'[d] \in [1..Len(rows[d]) -> SweepRows]
      BY <1>4, <3>1, <3>2
    <3> QED
      BY <3>2, <3>3, SeqDef
  <2> HIDE DEF answer
  <2> QED
    BY <1>1, <2>1
<1>6. SweepTypeOK'
  BY <1>1, <1>5 DEF SweepInv, SweepTypeOK
<1>7. DrawnPerRow'
  <2>1. ASSUME NEW d \in Reactions!Channels PROVE Len(rows'[d]) = Len(rows[d])
    <3>1. rows[d] \in Seq(SweepRows) /\ rows'[d] \in Seq(SweepRows)
      BY <1>5 DEF SweepInv, SweepTypeOK
    <3>2. DOMAIN rows'[d] = DOMAIN rows[d]
      BY <1>3
    <3>3. Len(rows'[d]) \in Nat /\ Len(rows[d]) \in Nat /\ 1..Len(rows'[d]) = 1..Len(rows[d])
      BY <3>1, <3>2
    <3> QED
      BY <3>3
  <2> QED
    BY <1>1, <2>1 DEF SweepInv, DrawnPerRow
<1>8. RowsAreDrawn'
  <2>1. \A d \in Reactions!Channels : DOMAIN rows'[d] = DOMAIN rows[d]
    BY <1>3
  <2>2. \A d \in Reactions!Channels : \A i \in DOMAIN rows[d] :
          d = c /\ Reactions!Deliverable(rows'[d][i]) => drawn[d][i]
    BY <1>4
  <2>3. \A d \in Reactions!Channels : thread' \in {None, d} => d = c
    BY <1>1, SweptPlaces
  <2> QED
    BY <1>1, <2>1, <2>2, <2>3 DEF RowsAreDrawn
<1> QED
  BY <1>1, <1>6, <1>7, <1>8 DEF SweepInv, SweepIsAt, AskedIsOwn, BatchIsFresh

LEMMA SweepInvStep == SweepInv /\ [Reactions!Next]_sweepVars => SweepInv'
<1> SUFFICES ASSUME SweepInv, [Reactions!Next]_sweepVars PROVE SweepInv'
  OBVIOUS
<1>1. CASE UNCHANGED sweepVars
  <2>1. UNCHANGED <<batch, captured, at, sweepStage, cleared, lingers, shown, rows, drawn, thread>>
    BY <1>1 DEF sweepVars
  <2>2. /\ Reactions!Channel' = Reactions!Channel /\ Reactions!Emoji' = Reactions!Emoji
        /\ Reactions!PairCount(Reactions!Channel)' = Reactions!PairCount(Reactions!Channel)
    BY <2>1 DEF Reactions!Channel, Reactions!Emoji, Reactions!PairCount
  <2>3. SweepTypeOK' /\ DrawnPerRow' /\ BatchIsFresh'
    BY <2>1, <2>2 DEF SweepInv, SweepTypeOK, DrawnPerRow, BatchIsFresh
  <2>4. SweepIsAt' /\ AskedIsOwn' /\ RowsAreDrawn'
    BY <2>1, <2>2 DEF SweepInv, SweepIsAt, AskedIsOwn, RowsAreDrawn
  <2> QED
    BY <2>3, <2>4 DEF SweepInv
<1>2. CASE \/ \E accepted, emptied \in BOOLEAN : Reactions!ClearFirst(accepted, emptied)
           \/ \E emptied \in BOOLEAN : Reactions!Leave(emptied)
  BY <1>2, ClearFirstKeepsInv, LeaveKeepsInv
<1>3. CASE Reactions!Refused \/ Reactions!Ask \/ Reactions!ReportSweep
  BY <1>3, RefusedKeepsInv, AskKeepsInv, ReportKeepsInv
<1>4. CASE \E reaction : Reactions!Accepted(reaction)
  BY <1>4, AcceptedKeepsInv
<1>5. CASE \E c \in Reactions!Channels, given \in SUBSET DOMAIN Emojis, slip \in {"as-sent", "nothing"} :
             Reactions!Apply(c, given, slip)
  BY <1>5, ApplyKeepsInv
<1> QED
  BY <1>1, <1>2, <1>3, <1>4, <1>5 DEF Reactions!Next

\* An emoji that the report calls delivered was drawn by its own send, whatever was
\* dropped, replaced, refused or could not be cleared before it (runReactionSweep,
\* runBatchSweep, applyBatchAnswers): on the channel that the operator read, and where
\* no clear that Meta accepted left the message as it was.
THEOREM DeliveredIsDrawn == PartsSpec => []DeliveredWasDrawn
<1>1. PartsInit => SweepInv
  BY SweepInvInit DEF PartsInit
<1>2. SweepInv /\ [PartsNext]_suiteVars => SweepInv'
  BY PartsStep, SweepInvStep
<1>3. SweepInv => DeliveredWasDrawn
  BY DEF SweepInv, RowsAreDrawn, Reactions!DeliveredWasDrawn, DeliveredWasDrawn
<1> QED
  BY <1>1, <1>2, <1>3, PTL DEF PartsSpec, suiteVars

-----------------------------------------------------------------------------
(***************************************************************************)
(* The probe (EndIsComplete of MCOperatorScripts), proved for any channels *)
(* and accounts, any webhooks and any quota.                               *)
(*                                                                         *)
(* Messages are picked and merged by folds over sequences.  What is kept   *)
(* at every element of a sequence is true of the whole fold: numbers are   *)
(* counted up by the argument of the least counterexample.                 *)
(***************************************************************************)

\* A set that has 0, and with every number the next, has them all.
LEMMA AllNumbers ==
  ASSUME NEW S, 0 \in S, \A n \in Nat : n \in S => n + 1 \in S PROVE Nat \subseteq S
<1> DEFINE T == Nat \ S
           R == {p \in Nat \X Nat : p[1] < p[2]}
<1>1. SUFFICES ASSUME T # {} PROVE FALSE
  OBVIOUS
<1>2. R = OpToRel(<, Nat)
  BY DEF OpToRel
<1>3. IsWellFoundedOn(R, Nat)
  BY <1>2, NatLessThanWellFounded
<1>4. PICK x \in T : \A y \in T : <<y, x>> \notin R
  <2>1. T \subseteq Nat
    OBVIOUS
  <2> HIDE DEF R, T
  <2> QED
    BY <1>1, <1>3, <2>1, WFMin
<1>5. x \in Nat /\ x # 0 /\ x \notin S
  BY <1>4
<1>6. x - 1 \in Nat /\ (x - 1) + 1 = x /\ <<x - 1, x>> \in R
  BY <1>5
<1>7. x - 1 \in S
  BY <1>4, <1>6
<1> QED
  BY <1>5, <1>6, <1>7

\* Numbers up to k that are not none have a greatest one.
LEMMA MaxIsGreatest ==
  ASSUME NEW k \in Nat
  PROVE  \A q \in SUBSET (1..k) : q # {} => Probe!Max(q) \in q /\ \A y \in q : y <= Probe!Max(q)
<1> DEFINE Has(n) == \A q \in SUBSET (1..n) : q # {} => \E x \in q : \A y \in q : x >= y
           S == {n \in Nat : Has(n)}
<1>1. 0 \in S
  <2>1. 1..0 = {}
    OBVIOUS
  <2> QED
    BY <2>1
<1>2. ASSUME NEW n \in Nat, n \in S PROVE n + 1 \in S
  <2>1. ASSUME NEW q \in SUBSET (1..(n + 1)), q # {} PROVE \E x \in q : \A y \in q : x >= y
    <3>1. CASE n + 1 \in q
      BY <3>1, <2>1
    <3>2. CASE n + 1 \notin q
      <4>1. q \in SUBSET (1..n)
        BY <3>2
      <4> QED
        BY <1>2, <2>1, <4>1
    <3> QED
      BY <3>1, <3>2
  <2> QED
    BY <2>1
<1>3. k \in S
  <2> HIDE DEF S
  <2> QED
    BY <1>1, <1>2, AllNumbers
<1>4. ASSUME NEW q \in SUBSET (1..k), q # {} PROVE Probe!Max(q) \in q /\ \A y \in q : Probe!Max(q) >= y
  <2>1. \E x \in q : \A y \in q : x >= y
    BY <1>3, <1>4
  <2> QED
    BY <2>1 DEF Probe!Max
<1> QED
  BY <1>4

LEMMA MaxOfFront == ASSUME NEW n \in Nat PROVE Probe!Max(1..(n + 1)) = n + 1
<1>1. 1..(n + 1) \in SUBSET (1..(n + 1)) /\ n + 1 \in 1..(n + 1)
  OBVIOUS
<1>2. n + 1 \in Nat /\ 1..(n + 1) # {}
  OBVIOUS
<1>3. Probe!Max(1..(n + 1)) \in 1..(n + 1) /\ n + 1 <= Probe!Max(1..(n + 1))
  BY <1>1, <1>2, MaxIsGreatest
<1> QED
  BY <1>3

\* The folds of the first n elements: next[i] takes what the elements before i made.
Folds(n, V, base, next) ==
  {g \in [SUBSET (1..n) -> V] :
     \A q \in SUBSET (1..n) :
       g[q] = IF q = {} THEN base ELSE next[Probe!Max(q)][g[q \ {Probe!Max(q)}]]}

LEMMA FoldsExist ==
  ASSUME NEW n \in Nat, NEW V, NEW base \in V, NEW next \in [1..n -> [V -> V]]
  PROVE  Folds(n, V, base, next) # {}
<1> DEFINE S == {k \in Nat : k <= n => Folds(k, V, base, next) # {}}
<1>1. 0 \in S
  <2> DEFINE g == [q \in SUBSET (1..0) |-> base]
  <2>1. g \in Folds(0, V, base, next)
    BY DEF Folds
  <2> QED
    BY <2>1
<1>2. ASSUME NEW k \in Nat, k \in S PROVE k + 1 \in S
  <2>1. SUFFICES ASSUME k + 1 <= n PROVE Folds(k + 1, V, base, next) # {}
    OBVIOUS
  <2>2. PICK g \in Folds(k, V, base, next) : TRUE
    BY <1>2, <2>1
  <2>3. /\ g \in [SUBSET (1..k) -> V]
        /\ \A q \in SUBSET (1..k) :
             g[q] = IF q = {} THEN base ELSE next[Probe!Max(q)][g[q \ {Probe!Max(q)}]]
    BY <2>2 DEF Folds
  <2>4. k + 1 \in 1..n /\ next[k + 1] \in [V -> V]
    BY <2>1
  <2> DEFINE h == [q \in SUBSET (1..(k + 1)) |->
                     IF k + 1 \in q THEN next[k + 1][g[q \ {k + 1}]] ELSE g[q]]
  <2>5. ASSUME NEW q \in SUBSET (1..(k + 1))
        PROVE  /\ h[q] \in V
               /\ h[q] = IF q = {} THEN base ELSE next[Probe!Max(q)][h[q \ {Probe!Max(q)}]]
    <3>1. CASE k + 1 \in q
      <4>1. q \ {k + 1} \in SUBSET (1..k) /\ q \ {k + 1} \in SUBSET (1..(k + 1))
        OBVIOUS
      <4>2. Probe!Max(q) = k + 1
        <5>1. k + 1 \in Nat /\ q \in SUBSET (1..(k + 1)) /\ q # {}
          BY <3>1
        <5>2. Probe!Max(q) \in q /\ k + 1 <= Probe!Max(q)
          BY <3>1, <5>1, MaxIsGreatest
        <5>3. Probe!Max(q) \in 1..(k + 1)
          BY <5>1, <5>2
        <5> QED
          BY <5>2, <5>3
      <4>3. h[q] = next[k + 1][g[q \ {k + 1}]] /\ h[q \ {k + 1}] = g[q \ {k + 1}]
        BY <3>1, <4>1
      <4>4. next[k + 1][g[q \ {k + 1}]] \in V
        BY <2>3, <2>4, <4>1
      <4> HIDE DEF h
      <4> QED
        BY <3>1, <4>2, <4>3, <4>4
    <3>2. CASE k + 1 \notin q
      <4>1. q \in SUBSET (1..k) /\ q \ {Probe!Max(q)} \in SUBSET (1..(k + 1))
        <5>1. \A x \in q : x \in 1..(k + 1) /\ x # k + 1
          BY <3>2
        <5>2. \A x \in 1..(k + 1) : x # k + 1 => x \in 1..k
          OBVIOUS
        <5> QED
          BY <5>1, <5>2
      <4>2. h[q] = g[q] /\ h[q \ {Probe!Max(q)}] = g[q \ {Probe!Max(q)}]
        BY <3>2, <4>1
      <4> HIDE DEF h
      <4> QED
        BY <2>3, <4>1, <4>2
    <3> QED
      BY <3>1, <3>2
  <2>6. h \in [SUBSET (1..(k + 1)) -> V]
    BY <2>5
  <2> HIDE DEF h
  <2>7. h \in Folds(k + 1, V, base, next)
    BY <2>5, <2>6 DEF Folds
  <2> QED
    BY <2>7
<1> HIDE DEF S
<1>3. Nat \subseteq S
  BY <1>1, <1>2, AllNumbers
<1> QED
  BY <1>3 DEF S

\* A fold whose start is in V, and whose steps stay in V, is in V.
LEMMA FoldStaysIn ==
  ASSUME NEW n \in Nat, NEW V, NEW f, f[{}] \in V,
         \A q \in SUBSET (1..n) : q # {} /\ f[q \ {Probe!Max(q)}] \in V => f[q] \in V
  PROVE  f[1..n] \in V
<1> DEFINE S == {k \in Nat : k <= n => f[1..k] \in V}
<1>1. 0 \in S
  <2>1. 1..0 = {}
    OBVIOUS
  <2> QED
    BY <2>1
<1>2. ASSUME NEW k \in Nat, k \in S PROVE k + 1 \in S
  <2>1. SUFFICES ASSUME k + 1 <= n PROVE f[1..(k + 1)] \in V
    OBVIOUS
  <2>2. 1..(k + 1) \in SUBSET (1..n) /\ 1..(k + 1) # {} /\ (1..(k + 1)) \ {k + 1} = 1..k /\ k <= n
    BY <2>1
  <2>3. Probe!Max(1..(k + 1)) = k + 1
    BY MaxOfFront
  <2>4. f[1..k] \in V
    BY <1>2, <2>2
  <2> QED
    BY <2>2, <2>3, <2>4
<1> HIDE DEF S
<1>3. Nat \subseteq S
  BY <1>1, <1>2, AllNumbers
<1> QED
  BY <1>3 DEF S

-----------------------------------------------------------------------------
\* What is kept of s are elements of s that are in S.
LEMMA KeptAreBoth ==
  ASSUME NEW T, NEW s \in Seq(T), NEW S
  PROVE  Probe!Keep(s, S) \in Seq(T \cap S)
<1> DEFINE n == Len(s)
           V == Seq(T \cap S)
           Is(f) ==
             f = [q \in SUBSET (1..n) |->
                    IF q = {} THEN <<>>
                    ELSE IF s[Probe!Max(q)] \in S
                         THEN Append(f[q \ {Probe!Max(q)}], s[Probe!Max(q)])
                         ELSE f[q \ {Probe!Max(q)}]]
           F == CHOOSE f : Is(f)
           next == [i \in 1..n |-> [v \in V |-> IF s[i] \in S THEN Append(v, s[i]) ELSE v]]
<1>1. n \in Nat /\ <<>> \in V /\ DOMAIN s = 1..n /\ \A i \in 1..n : s[i] \in T
  OBVIOUS
<1>2. Probe!Keep(s, S) = F[1..n]
  BY <1>1 DEF Probe!Keep, Probe!FoldLeft, Probe!MapThenFoldSet
<1>3. next \in [1..n -> [V -> V]]
  <2>1. ASSUME NEW i \in 1..n, NEW v \in V PROVE (IF s[i] \in S THEN Append(v, s[i]) ELSE v) \in V
    BY <1>1
  <2> HIDE DEF V
  <2> QED
    BY <2>1
<1>4. PICK g \in Folds(n, V, <<>>, next) : TRUE
  <2> HIDE DEF n, V, next
  <2> QED
    BY <1>1, <1>3, FoldsExist
<1>5. Is(g)
  <2>1. /\ g \in [SUBSET (1..n) -> V]
        /\ \A q \in SUBSET (1..n) :
             g[q] = IF q = {} THEN <<>> ELSE next[Probe!Max(q)][g[q \ {Probe!Max(q)}]]
    BY <1>4 DEF Folds
  <2>2. ASSUME NEW q \in SUBSET (1..n), q # {}
        PROVE  g[q] = IF s[Probe!Max(q)] \in S
                      THEN Append(g[q \ {Probe!Max(q)}], s[Probe!Max(q)])
                      ELSE g[q \ {Probe!Max(q)}]
    <3>1. Probe!Max(q) \in 1..n /\ q \ {Probe!Max(q)} \in SUBSET (1..n)
      BY <1>1, <2>2, MaxIsGreatest
    <3>2. g[q \ {Probe!Max(q)}] \in V /\ g[q] = next[Probe!Max(q)][g[q \ {Probe!Max(q)}]]
      BY <2>1, <2>2, <3>1
    <3> HIDE DEF V
    <3> QED
      BY <3>1, <3>2
  <2>3. g[{}] = <<>>
    BY <2>1
  <2> HIDE DEF n, V, next
  <2> QED
    BY <2>1, <2>2, <2>3
<1>6. Is(F)
  <2> HIDE DEF Is
  <2> QED
    BY <1>5
<1>7. F[1..n] \in V
  <2>1. /\ F[{}] = <<>>
        /\ \A q \in SUBSET (1..n) : q # {} =>
             F[q] = IF s[Probe!Max(q)] \in S
                    THEN Append(F[q \ {Probe!Max(q)}], s[Probe!Max(q)])
                    ELSE F[q \ {Probe!Max(q)}]
    <3> HIDE DEF F
    <3> QED
      BY <1>6
  <2> HIDE DEF F, Is
  <2>2. ASSUME NEW q \in SUBSET (1..n), q # {}, F[q \ {Probe!Max(q)}] \in V PROVE F[q] \in V
    <3>1. s[Probe!Max(q)] \in T
      BY <1>1, <2>2, MaxIsGreatest
    <3>2. F[q] = IF s[Probe!Max(q)] \in S
                 THEN Append(F[q \ {Probe!Max(q)}], s[Probe!Max(q)])
                 ELSE F[q \ {Probe!Max(q)}]
      BY <2>1, <2>2
    <3>3. s[Probe!Max(q)] \in S => Append(F[q \ {Probe!Max(q)}], s[Probe!Max(q)]) \in V
      BY <2>2, <3>1
    <3> HIDE DEF V
    <3> QED
      BY <2>2, <3>2, <3>3
  <2> HIDE DEF n, V
  <2> QED
    BY <1>1, <2>1, <2>2, FoldStaysIn
<1> QED
  BY <1>2, <1>7

\* A merge adds nothing of its own.
LEMMA MergedAreEither ==
  ASSUME NEW T, NEW old \in Seq(T), NEW new \in Seq(T)
  PROVE  Probe!Merge(old, new) \in Seq(T)
<1> DEFINE n == Len(new)
           V == Seq(T)
           Passed(all, m) == Len(all) >= Quota \/ \E i \in DOMAIN all : all[i].id = m.id
           Is(f) ==
             f = [q \in SUBSET (1..n) |->
                    IF q = {} THEN old
                    ELSE IF Passed(f[q \ {Probe!Max(q)}], new[Probe!Max(q)])
                         THEN f[q \ {Probe!Max(q)}]
                         ELSE Append(f[q \ {Probe!Max(q)}], new[Probe!Max(q)])]
           F == CHOOSE f : Is(f)
           next == [i \in 1..n |-> [v \in V |-> IF Passed(v, new[i]) THEN v ELSE Append(v, new[i])]]
<1>1. n \in Nat /\ old \in V /\ DOMAIN new = 1..n /\ \A i \in 1..n : new[i] \in T
  OBVIOUS
<1>2. Probe!Merge(old, new) = F[1..n]
  BY <1>1 DEF Probe!Merge, Probe!FoldLeft, Probe!MapThenFoldSet
<1> HIDE DEF Passed
<1>3. next \in [1..n -> [V -> V]]
  <2>1. ASSUME NEW i \in 1..n, NEW v \in V PROVE (IF Passed(v, new[i]) THEN v ELSE Append(v, new[i])) \in V
    BY <1>1
  <2> HIDE DEF V
  <2> QED
    BY <2>1
<1>4. PICK g \in Folds(n, V, old, next) : TRUE
  <2> HIDE DEF n, V, next
  <2> QED
    BY <1>1, <1>3, FoldsExist
<1>5. Is(g)
  <2>1. /\ g \in [SUBSET (1..n) -> V]
        /\ \A q \in SUBSET (1..n) :
             g[q] = IF q = {} THEN old ELSE next[Probe!Max(q)][g[q \ {Probe!Max(q)}]]
    BY <1>4 DEF Folds
  <2>2. ASSUME NEW q \in SUBSET (1..n), q # {}
        PROVE  g[q] = IF Passed(g[q \ {Probe!Max(q)}], new[Probe!Max(q)])
                      THEN g[q \ {Probe!Max(q)}]
                      ELSE Append(g[q \ {Probe!Max(q)}], new[Probe!Max(q)])
    <3>1. Probe!Max(q) \in 1..n /\ q \ {Probe!Max(q)} \in SUBSET (1..n)
      BY <1>1, <2>2, MaxIsGreatest
    <3>2. g[q \ {Probe!Max(q)}] \in V /\ g[q] = next[Probe!Max(q)][g[q \ {Probe!Max(q)}]]
      BY <2>1, <2>2, <3>1
    <3> HIDE DEF V
    <3> QED
      BY <3>1, <3>2
  <2>3. g[{}] = old
    BY <2>1
  <2> HIDE DEF n, V, next
  <2> QED
    BY <2>1, <2>2, <2>3
<1>6. Is(F)
  <2> HIDE DEF Is
  <2> QED
    BY <1>5
<1>7. F[1..n] \in V
  <2>1. /\ F[{}] = old
        /\ \A q \in SUBSET (1..n) : q # {} =>
             F[q] = IF Passed(F[q \ {Probe!Max(q)}], new[Probe!Max(q)])
                    THEN F[q \ {Probe!Max(q)}]
                    ELSE Append(F[q \ {Probe!Max(q)}], new[Probe!Max(q)])
    <3> HIDE DEF F
    <3> QED
      BY <1>6
  <2> HIDE DEF F, Is
  <2>2. ASSUME NEW q \in SUBSET (1..n), q # {}, F[q \ {Probe!Max(q)}] \in V PROVE F[q] \in V
    <3>1. new[Probe!Max(q)] \in T
      BY <1>1, <2>2, MaxIsGreatest
    <3>2. F[q] = IF Passed(F[q \ {Probe!Max(q)}], new[Probe!Max(q)])
                 THEN F[q \ {Probe!Max(q)}]
                 ELSE Append(F[q \ {Probe!Max(q)}], new[Probe!Max(q)])
      BY <2>1, <2>2
    <3>3. Append(F[q \ {Probe!Max(q)}], new[Probe!Max(q)]) \in V
      BY <2>2, <3>1
    <3> HIDE DEF V
    <3> QED
      BY <2>2, <3>2, <3>3
  <2> HIDE DEF n, V
  <2> QED
    BY <1>1, <2>1, <2>2, FoldStaysIn
<1> QED
  BY <1>2, <1>7

\* Sequences strung together have the elements of all.
LEMMA FlattenedAreTheirs ==
  ASSUME NEW T, NEW s \in Seq(Seq(T))
  PROVE  Probe!FlattenSeq(s) \in Seq(T)
<1> DEFINE n == Len(s)
           V == Seq(T)
           Is(f) == f = [i \in 1..n |-> IF i = 1 THEN s[i] ELSE f[i - 1] \o s[i]]
           F == CHOOSE f : Is(f)
           next == [i \in 1..n |-> [v \in V |-> v \o s[i]]]
<1>1. n \in Nat /\ <<>> \in V /\ \A i \in 1..n : s[i] \in V
  OBVIOUS
<1>2. CASE n = 0
  <2>1. s = <<>>
    BY <1>2
  <2> QED
    BY <2>1 DEF Probe!FlattenSeq
<1>3. CASE n # 0
  <2>1. Probe!FlattenSeq(s) = F[n]
    BY <1>3 DEF Probe!FlattenSeq
  <2>2. next \in [1..n -> [V -> V]]
    <3>1. ASSUME NEW i \in 1..n, NEW v \in V PROVE v \o s[i] \in V
      BY <1>1
    <3> HIDE DEF V
    <3> QED
      BY <3>1
  <2>3. PICK g \in Folds(n, V, <<>>, next) : TRUE
    <3> HIDE DEF n, V, next
    <3> QED
      BY <1>1, <2>2, FoldsExist
  <2>4. /\ g \in [SUBSET (1..n) -> V]
        /\ \A q \in SUBSET (1..n) :
             g[q] = IF q = {} THEN <<>> ELSE next[Probe!Max(q)][g[q \ {Probe!Max(q)}]]
    BY <2>3 DEF Folds
  <2> DEFINE h == [i \in 1..n |-> g[1..i]]
  <2>5. ASSUME NEW i \in 1..n PROVE h[i] = IF i = 1 THEN s[i] ELSE h[i - 1] \o s[i]
    <3>1. i - 1 \in Nat /\ (i - 1) + 1 = i /\ 1..i # {} /\ (1..i) \ {i} = 1..(i - 1)
      <4>1. i \in Nat \ {0}
        OBVIOUS
      <4>2. i - 1 \in Nat /\ (i - 1) + 1 = i /\ i \in 1..i
        BY <4>1
      <4>3. \A k \in Nat : (1..(k + 1)) \ {k + 1} = 1..k
        OBVIOUS
      <4> HIDE DEF n
      <4> QED
        BY <4>2, <4>3
    <3>2. 1..i \in SUBSET (1..n) /\ 1..(i - 1) \in SUBSET (1..n)
      <4> HIDE DEF n
      <4> QED
        BY <1>1
    <3>3. Probe!Max(1..i) = i
      BY <3>1, MaxOfFront
    <3>4. g[1..i] = next[i][g[1..(i - 1)]] /\ g[1..(i - 1)] \in V
      <4> HIDE DEF n, V, next
      <4> QED
        BY <2>4, <3>1, <3>2, <3>3
    <3>5. g[1..i] = g[1..(i - 1)] \o s[i]
      <4> HIDE DEF V
      <4> QED
        BY <3>4
    <3>6. CASE i = 1
      <4>1. 1..(i - 1) = {}
        BY <3>6
      <4>2. g[{}] = <<>>
        <5>1. {} \in SUBSET (1..n)
          OBVIOUS
        <5> HIDE DEF n, V, next
        <5> QED
          BY <2>4, <5>1
      <4>3. g[1..i] = <<>> \o s[i]
        BY <3>5, <4>1, <4>2
      <4>4. <<>> \o s[i] = s[i]
        BY <1>1
      <4> QED
        BY <3>6, <4>3, <4>4
    <3>7. CASE i # 1
      <4>1. i - 1 \in 1..n
        BY <1>1, <3>7
      <4> QED
        BY <3>5, <3>7, <4>1
    <3> QED
      BY <3>6, <3>7
  <2>6. Is(h)
    <3>1. h = [i \in 1..n |-> h[i]]
      OBVIOUS
    <3> HIDE DEF h, n
    <3> QED
      BY <2>5, <3>1
  <2>7. Is(F)
    <3> HIDE DEF Is, h
    <3> QED
      BY <2>6
  <2> DEFINE S == {k \in Nat : k + 1 <= n => F[k + 1] \in V}
  <2>8. \A i \in 1..n : F[i] = IF i = 1 THEN s[i] ELSE F[i - 1] \o s[i]
    <3> HIDE DEF F, n
    <3> QED
      BY <2>7
  <2> HIDE DEF F, Is
  <2>9. 0 \in S
    <3>1. 1 \in 1..n
      BY <1>1, <1>3
    <3>2. F[1] = s[1] /\ s[1] \in V
      BY <1>1, <2>8, <3>1
    <3> QED
      BY <3>2
  <2>10. ASSUME NEW k \in Nat, k \in S PROVE k + 1 \in S
    <3>1. SUFFICES ASSUME (k + 1) + 1 <= n PROVE F[(k + 1) + 1] \in V
      OBVIOUS
    <3>2. (k + 1) + 1 \in 1..n /\ (k + 1) + 1 # 1 /\ ((k + 1) + 1) - 1 = k + 1 /\ k + 1 <= n
      BY <1>1, <3>1
    <3>3. F[(k + 1) + 1] = F[k + 1] \o s[(k + 1) + 1] /\ s[(k + 1) + 1] \in V /\ F[k + 1] \in V
      BY <1>1, <2>8, <2>10, <3>2
    <3> QED
      BY <3>3
  <2>11. Nat \subseteq S
    <3> HIDE DEF S
    <3> QED
      BY <2>9, <2>10, AllNumbers
  <2>12. n - 1 \in Nat /\ (n - 1) + 1 = n /\ n <= n
    BY <1>1, <1>3
  <2>13. F[n] \in V
    <3> HIDE DEF n, V
    <3>1. n - 1 \in S
      <4> HIDE DEF S
      <4> QED
        BY <2>11, <2>12
    <3> QED
      BY <2>12, <3>1
  <2> QED
    BY <2>1, <2>13
<1> QED
  BY <1>2, <1>3

-----------------------------------------------------------------------------
\* The messages a sweep may be about, and the operations of a run.
Answerable == {m \in Probe!Messages : m.id # None}

Operations ==
  [name: {"template", "text", "reply", "reaction", "typing", "read"},
   target: {m.id : m \in Probe!Messages} \cup {Probe!Free, Probe!Own, Probe!Skip, "flag"}]

PlanLength(c) == Len(Probe!Plan(c, Probe!Skip))

Statuses == {"accepted", "rejected", "skipped"}

ProbeTypeOK ==
  /\ probeMode \in {"direct", "arrival", "batch"}
  /\ probeStage \in {"confirm", "waiting", "settled", "over"}
  /\ handled \in SUBSET Probe!Channels /\ quiet \in BOOLEAN
  /\ collected \in [Probe!Channels -> Seq(Answerable)]
  /\ queue \in Seq(Probe!Runs) /\ running \in Probe!Runs \cup {None}
  /\ done \in [Probe!Channels -> Seq(Statuses)]

\* What belongs to a stage: a batch has no runs before it settles, and a probe that is
\* over has none left.
ProbeIsAt ==
  /\ probeStage = "confirm" => probeMode = "direct" /\ running = None
  /\ probeStage = "over" => queue = <<>> /\ running = None
  /\ probeStage = "waiting" => probeMode # "direct"
  /\ probeStage = "waiting" /\ probeMode = "batch" => queue = <<>> /\ running = None
  /\ quiet => probeMode = "batch" /\ probeStage = "waiting"
  /\ probeMode # "arrival" => handled = {}

\* On arrival a channel has one run, which is queued, or under way with as many operations
\* to do as its plan has outcomes to come, or over.
QueuedAreWhole ==
  \A i \in DOMAIN queue :
    /\ queue[i].channel \in handled
    /\ done[queue[i].channel] = <<>>
    /\ Len(queue[i].ops) = PlanLength(queue[i].channel)
    /\ running # None => running.channel # queue[i].channel

QueuedOnce == \A i, j \in DOMAIN queue : queue[i].channel = queue[j].channel => i = j

RunningIsBetween ==
  running # None =>
    /\ running.channel \in handled
    /\ Len(done[running.channel]) + Len(running.ops) = PlanLength(running.channel)

HandledAreDone ==
  \A c \in handled :
    \/ \E i \in DOMAIN queue : queue[i].channel = c
    \/ running # None /\ running.channel = c
    \/ Len(done[c]) = PlanLength(c)

UnhandledAreEmpty == \A c \in Probe!Channels \ handled : done[c] = <<>>

PlansAreDone ==
  probeMode = "arrival" =>
    QueuedAreWhole /\ QueuedOnce /\ RunningIsBetween /\ HandledAreDone /\ UnhandledAreEmpty

\* A run of a batch does nothing but react to messages of its own account.
OwnSweep(r) ==
  /\ r.own = None
  /\ \A i \in DOMAIN r.ops :
       /\ r.ops[i].name = "reaction"
       /\ \A m \in Probe!Messages : m.id = r.ops[i].target => m.account = r.account

Sweeps == {r \in Probe!Runs : OwnSweep(r)}

SweepsAreOwn ==
  probeMode = "batch" =>
    /\ queue \in Seq(Sweeps)
    /\ running \in Sweeps \cup {None}
    /\ Probe!SweptFromItsAccount

ProbeInv ==
  ProbeTypeOK /\ ProbeIsAt /\ PlansAreDone /\ SweepsAreOwn /\ Probe!WaitsForSomething

-----------------------------------------------------------------------------
LEMMA ChannelsAreTargets ==
  /\ Probe!Channels = {Probed[i] : i \in DOMAIN Probed}
  /\ DOMAIN Probed = 1..Len(Probed) /\ Len(Probed) \in Nat
  /\ \A i \in DOMAIN Probed : Probed[i] \in Probe!Channels
  /\ Probe!Channels # {} /\ Probe!Channels \subseteq STRING
<1>1. Probed \in Seq(STRING) /\ Probed # <<>>
  BY ProbingAssumption DEF Probe!ProbeAssumption
<1>2. Probe!Channels = {Probed[i] : i \in DOMAIN Probed}
  BY DEF Probe!Channels, Probe!ToSet
<1>3. DOMAIN Probed = 1..Len(Probed) /\ Len(Probed) \in Nat /\ 1 \in DOMAIN Probed
  BY <1>1
<1>4. \A i \in DOMAIN Probed : Probed[i] \in STRING
  BY <1>1
<1>5. Probed[1] \in Probe!Channels
  BY <1>2, <1>3
<1> QED
  BY <1>2, <1>3, <1>4, <1>5

LEMMA RunsAre ==
  /\ Probe!Runs = [channel: Probe!Channels, account: UNION {Probe!ToSet(ProbedAccounts[c]) : c \in Probe!Channels},
                   ops: Seq(Operations), own: {None, Probe!OurText}]
  /\ None \notin Probe!Runs
<1>1. None \notin Probe!Runs
  BY ProbingAssumption DEF Probe!ProbeAssumption
<1> QED
  BY <1>1 DEF Probe!Runs, Operations

LEMMA DefaultIsAccount ==
  ASSUME NEW c \in Probe!Channels PROVE Probe!Default(c) \in Probe!ToSet(ProbedAccounts[c])
<1>1. ProbedAccounts[c] \in Seq(STRING) /\ ProbedAccounts[c] # <<>>
  BY ProbingAssumption DEF Probe!ProbeAssumption
<1>2. 1 \in DOMAIN ProbedAccounts[c]
  BY <1>1
<1> QED
  BY <1>2 DEF Probe!Default, Probe!ToSet

\* A plan is as long for one target as for another.
LEMMA PlanIs ==
  ASSUME NEW c \in Probe!Channels, NEW target \in {m.id : m \in Probe!Messages} \cup {"flag", None, Probe!Skip}
  PROVE  /\ Probe!Plan(c, target) \in Seq(Operations)
         /\ Len(Probe!Plan(c, target)) = PlanLength(c)
         /\ PlanLength(c) \in Nat
<1> DEFINE Or(t, x) == IF t = None THEN x ELSE t
           Targets == {m.id : m \in Probe!Messages} \cup {Probe!Free, Probe!Own, Probe!Skip, "flag"}
<1>1. \A name \in {"template", "text", "reply", "reaction", "typing", "read"} :
        \A t \in Targets : Probe!Op(name, t) \in Operations
  BY DEF Operations, Probe!Op
<1>2. Or(target, Probe!Own) \in Targets /\ Or(target, Probe!Skip) \in Targets /\ Probe!Free \in Targets
  OBVIOUS
<1> HIDE DEF Or, Targets
<1>3. CASE c = "whatsapp"
  <2>1. \A t : Probe!Plan(c, t) =
          <<Probe!Op("template", Probe!Free), Probe!Op("text", Probe!Free),
            Probe!Op("reply", Or(t, Probe!Own)), Probe!Op("reaction", Or(t, Probe!Own)),
            Probe!Op("typing", Or(t, Probe!Skip)), Probe!Op("read", Or(t, Probe!Skip))>>
    BY <1>3 DEF Probe!Plan, Or
  <2>2. Len(Probe!Plan(c, target)) = 6 /\ PlanLength(c) = 6
    BY <2>1 DEF PlanLength
  <2>3. Probe!Plan(c, target) \in Seq(Operations)
    <3>1. \A a, b, d, e, f, g \in Operations : <<a, b, d, e, f, g>> \in Seq(Operations)
      OBVIOUS
    <3>2. /\ Probe!Op("template", Probe!Free) \in Operations
          /\ Probe!Op("text", Probe!Free) \in Operations
          /\ Probe!Op("reply", Or(target, Probe!Own)) \in Operations
          /\ Probe!Op("reaction", Or(target, Probe!Own)) \in Operations
          /\ Probe!Op("typing", Or(target, Probe!Skip)) \in Operations
          /\ Probe!Op("read", Or(target, Probe!Skip)) \in Operations
      BY <1>1, <1>2
    <3>3. <<Probe!Op("template", Probe!Free),
           Probe!Op("text", Probe!Free),
           Probe!Op("reply", Or(target, Probe!Own)),
           Probe!Op("reaction", Or(target, Probe!Own)),
           Probe!Op("typing", Or(target, Probe!Skip)),
           Probe!Op("read", Or(target, Probe!Skip))>> \in Seq(Operations)
      BY <3>1, <3>2
    <3> QED
      BY <2>1, <3>3
  <2> QED
    BY <2>2, <2>3
<1>4. CASE c # "whatsapp"
  <2>1. \A t : Probe!Plan(c, t) =
          <<Probe!Op("text", Probe!Free), Probe!Op("typing", Probe!Free),
            Probe!Op("read", Probe!Free), Probe!Op("reply", Or(t, Probe!Own)),
            Probe!Op("reaction", Or(t, Probe!Own))>>
    BY <1>4 DEF Probe!Plan, Or
  <2>2. Len(Probe!Plan(c, target)) = 5 /\ PlanLength(c) = 5
    BY <2>1 DEF PlanLength
  <2>3. Probe!Plan(c, target) \in Seq(Operations)
    <3>1. \A a, b, d, e, f \in Operations : <<a, b, d, e, f>> \in Seq(Operations)
      OBVIOUS
    <3>2. /\ Probe!Op("text", Probe!Free) \in Operations
          /\ Probe!Op("typing", Probe!Free) \in Operations
          /\ Probe!Op("read", Probe!Free) \in Operations
          /\ Probe!Op("reply", Or(target, Probe!Own)) \in Operations
          /\ Probe!Op("reaction", Or(target, Probe!Own)) \in Operations
      BY <1>1, <1>2
    <3>3. <<Probe!Op("text", Probe!Free),
           Probe!Op("typing", Probe!Free),
           Probe!Op("read", Probe!Free),
           Probe!Op("reply", Or(target, Probe!Own)),
           Probe!Op("reaction", Or(target, Probe!Own))>> \in Seq(Operations)
      BY <3>1, <3>2
    <3> QED
      BY <2>1, <3>3
  <2> QED
    BY <2>2, <2>3
<1> QED
  BY <1>3, <1>4

LEMMA RunIs ==
  ASSUME NEW c \in Probe!Channels, NEW account \in Probe!ToSet(ProbedAccounts[c]), NEW ops \in Seq(Operations)
  PROVE  Probe!Run(c, account, ops) \in Probe!Runs
BY RunsAre DEF Probe!Run

LEMMA SweepIs ==
  ASSUME NEW c \in Probe!Channels, NEW messages \in Seq(Answerable), messages # <<>>
  PROVE  Probe!Sweep(c, messages) \in Seq(Sweeps)
<1> DEFINE account == messages[1].account
           own == {m \in Probe!ToSet(messages) : m.account = account}
           usable == Probe!Keep(messages, own)
           ops == [i \in DOMAIN usable |-> Probe!Op("reaction", usable[i].id)]
           run == Probe!Run(c, account, ops)
<1>1. Probe!Sweep(c, messages) = IF account \notin Probe!ToSet(ProbedAccounts[c]) THEN <<>> ELSE <<run>>
  BY DEF Probe!Sweep
<1>2. SUFFICES ASSUME account \in Probe!ToSet(ProbedAccounts[c]) PROVE run \in Sweeps
  <2>1. <<>> \in Seq(Sweeps) /\ \A r \in Sweeps : <<r>> \in Seq(Sweeps)
    OBVIOUS
  <2> HIDE DEF run, account
  <2> QED
    BY <1>1, <1>2, <2>1
<1>3. usable \in Seq(Answerable \cap own)
  BY KeptAreBoth
<1> HIDE DEF usable
<1>4. ASSUME NEW i \in DOMAIN usable
      PROVE  /\ usable[i] \in Probe!Messages /\ usable[i].id # None /\ usable[i].account = account
             /\ ops[i] \in Operations /\ ops[i].target = usable[i].id /\ ops[i].name = "reaction"
  <2>1. usable[i] \in Answerable \cap own
    BY <1>3
  <2>2. usable[i] \in Probe!Messages /\ usable[i].id # None /\ usable[i].account = account
    BY <2>1 DEF Answerable
  <2>3. ops[i] = Probe!Op("reaction", usable[i].id)
    OBVIOUS
  <2>4. /\ ops[i].target = usable[i].id /\ ops[i].name = "reaction"
        /\ Probe!Op("reaction", usable[i].id) \in Operations
    BY <2>2, <2>3 DEF Probe!Op, Operations
  <2> QED
    BY <2>2, <2>3, <2>4
<1>5. ops \in Seq(Operations)
  <2>1. DOMAIN usable = 1..Len(usable) /\ Len(usable) \in Nat
    BY <1>3
  <2>2. ops \in [1..Len(usable) -> Operations]
    BY <1>4, <2>1
  <2> QED
    BY <2>1, <2>2
<1>6. run \in Probe!Runs
  <2> HIDE DEF ops, account
  <2> QED
    BY <1>2, <1>5, RunIs
<1>7. run.own = None /\ run.ops = ops /\ run.account = account
  BY DEF Probe!Run
<1>8. OwnSweep(run)
  <2>1. ASSUME NEW i \in DOMAIN ops, NEW m \in Probe!Messages, m.id = ops[i].target PROVE m.account = account
    <3>1. /\ usable[i] \in Probe!Messages /\ usable[i].id # None /\ usable[i].account = account
          /\ ops[i].target = usable[i].id
      BY <1>4, <2>1
    <3>2. m.id = usable[i].id /\ m.id # None
      BY <2>1, <3>1
    <3>3. m.account = usable[i].account
      BY <3>1, <3>2, ProbingAssumption DEF Probe!ProbeAssumption
    <3> QED
      BY <3>1, <3>3
  <2>2. DOMAIN ops = DOMAIN usable /\ \A i \in DOMAIN ops : ops[i].name = "reaction"
    BY <1>4
  <2> HIDE DEF run, ops
  <2> QED
    BY <1>7, <2>1, <2>2 DEF OwnSweep
<1> QED
  BY <1>6, <1>8 DEF Sweeps

-----------------------------------------------------------------------------
LEMMA DirectIs ==
  ASSUME NEW named, NEW flagged PROVE Probe!Direct(named, flagged) \in Seq(Probe!Runs)
<1> DEFINE run(c) == Probe!Run(c, Probe!Default(c), Probe!Plan(c, IF c \in flagged THEN "flag" ELSE None))
           s == [i \in DOMAIN Probed |-> IF Probed[i] \notin named THEN <<>> ELSE <<run(Probed[i])>>]
<1>1. Probe!Direct(named, flagged) = Probe!FlattenSeq(s)
  BY DEF Probe!Direct
<1>2. ASSUME NEW c \in Probe!Channels PROVE <<run(c)>> \in Seq(Probe!Runs)
  <2>1. Probe!Plan(c, IF c \in flagged THEN "flag" ELSE None) \in Seq(Operations)
    BY PlanIs
  <2>2. run(c) \in Probe!Runs
    BY <2>1, DefaultIsAccount, RunIs
  <2> HIDE DEF run
  <2> QED
    BY <2>2
<1>3. s \in Seq(Seq(Probe!Runs))
  <2> HIDE DEF run
  <2>1. \A i \in DOMAIN Probed : s[i] \in Seq(Probe!Runs)
    BY <1>2, ChannelsAreTargets
  <2>2. s \in [1..Len(Probed) -> Seq(Probe!Runs)]
    BY <2>1, ChannelsAreTargets
  <2> QED
    BY <2>2, ChannelsAreTargets
<1> QED
  BY <1>1, <1>3, FlattenedAreTheirs

LEMMA PickIs ==
  ASSUME NEW w \in Inbounds, NEW channels, Probe!Usable(w, channels) # <<>>
  PROVE  /\ Probe!Pick(w, channels) \in Probe!Messages
         /\ Probe!Pick(w, channels).channel \in channels
<1> DEFINE fit == {m \in Probe!ToSet(w) : m.channel \in channels /\ m.kind # "echo" /\ m.id # None}
           some == Probe!Usable(w, channels)
           texts == Probe!Keep(some, {m \in Probe!ToSet(some) : m.kind = "text"})
<1>1. w \in Seq(Probe!Messages)
  BY ProbingAssumption DEF Probe!ProbeAssumption
<1>2. some \in Seq(Probe!Messages \cap fit)
  BY <1>1, KeptAreBoth DEF Probe!Usable
<1> HIDE DEF some, fit
<1>3. texts \in Seq(Probe!Messages \cap fit)
  <2>1. texts \in Seq((Probe!Messages \cap fit) \cap {m \in Probe!ToSet(some) : m.kind = "text"})
    BY <1>2, KeptAreBoth
  <2> HIDE DEF texts
  <2> QED
    BY <2>1
<1>4. Probe!Pick(w, channels) = IF texts # <<>> THEN texts[1] ELSE some[1]
  BY DEF Probe!Pick, some
<1> HIDE DEF texts
<1>5. Probe!Pick(w, channels) \in Probe!Messages \cap fit
  <2>1. some # <<>>
    BY DEF some
  <2>2. some[1] \in Probe!Messages \cap fit
    BY <1>2, <2>1
  <2>3. texts # <<>> => texts[1] \in Probe!Messages \cap fit
    BY <1>3
  <2> QED
    BY <1>4, <2>2, <2>3
<1> QED
  BY <1>5 DEF fit

LEMMA IncomingIs ==
  ASSUME NEW w \in Inbounds, NEW c PROVE Probe!Incoming(w, c) \in Seq(Answerable)
<1> DEFINE fit == {m \in Probe!ToSet(w) : m.channel \in {c} /\ m.kind # "echo" /\ m.id # None}
           other == {m \in Probe!ToSet(w) : m.kind # "reaction"}
<1>1. w \in Seq(Probe!Messages)
  BY ProbingAssumption DEF Probe!ProbeAssumption
<1>2. Probe!Usable(w, {c}) \in Seq(Probe!Messages \cap fit)
  BY <1>1, KeptAreBoth DEF Probe!Usable
<1>3. Probe!Messages \cap fit \subseteq Answerable
  BY DEF Answerable
<1> HIDE DEF fit
<1>4. Probe!Usable(w, {c}) \in Seq(Answerable)
  BY <1>2, <1>3
<1>5. Probe!Incoming(w, c) \in Seq(Answerable \cap other)
  BY <1>4, KeptAreBoth DEF Probe!Incoming
<1> HIDE DEF other
<1> QED
  BY <1>5

\* What is collected makes sweeps.
LEMMA SettledIs ==
  ASSUME NEW all \in [Probe!Channels -> Seq(Answerable)]
  PROVE  Probe!FlattenSeq([i \in DOMAIN Probed |->
           IF all[Probed[i]] = <<>> THEN <<>> ELSE Probe!Sweep(Probed[i], all[Probed[i]])]) \in Seq(Sweeps)
<1> DEFINE s == [i \in DOMAIN Probed |->
                   IF all[Probed[i]] = <<>> THEN <<>> ELSE Probe!Sweep(Probed[i], all[Probed[i]])]
<1>1. ASSUME NEW i \in DOMAIN Probed PROVE s[i] \in Seq(Sweeps)
  <2>1. Probed[i] \in Probe!Channels
    BY ChannelsAreTargets
  <2>2. all[Probed[i]] \in Seq(Answerable)
    BY <2>1
  <2>3. all[Probed[i]] # <<>> => Probe!Sweep(Probed[i], all[Probed[i]]) \in Seq(Sweeps)
    BY <2>1, <2>2, SweepIs
  <2>4. s[i] = IF all[Probed[i]] = <<>> THEN <<>> ELSE Probe!Sweep(Probed[i], all[Probed[i]])
    OBVIOUS
  <2>5. <<>> \in Seq(Sweeps)
    OBVIOUS
  <2> HIDE DEF s
  <2> QED
    BY <2>3, <2>4, <2>5
<1>2. DOMAIN s = DOMAIN Probed /\ s = [i \in DOMAIN s |-> s[i]]
  OBVIOUS
<1> HIDE DEF s
<1>3. s \in [1..Len(Probed) -> Seq(Sweeps)]
  <2>1. DOMAIN Probed = 1..Len(Probed)
    BY ChannelsAreTargets
  <2> QED
    BY <1>1, <1>2, <2>1
<1>4. s \in Seq(Seq(Sweeps))
  <2>1. Len(Probed) \in Nat
    BY ChannelsAreTargets
  <2> QED
    BY <1>3, <2>1
<1>5. Probe!FlattenSeq(s) \in Seq(Sweeps)
  BY <1>4, FlattenedAreTheirs
<1> QED
  BY <1>5 DEF s

LEMMA SweepsAreRuns == ASSUME NEW q \in Seq(Sweeps) PROVE q \in Seq(Probe!Runs)
<1>1. Sweeps \subseteq Probe!Runs
  BY DEF Sweeps
<1> QED
  BY <1>1

-----------------------------------------------------------------------------
LEMMA ProbeInvInit == Probe!Init => ProbeInv
<1> SUFFICES ASSUME Probe!Init PROVE ProbeInv
  OBVIOUS
<1>1. /\ probeMode \in {"direct", "arrival", "batch"} /\ handled = {} /\ quiet = FALSE /\ running = None
      /\ collected = [c \in Probe!Channels |-> <<>>] /\ done = [c \in Probe!Channels |-> <<>>] /\ sent = {}
  BY DEF Probe!Init
<1>2. probeMode = "direct" => probeStage = "confirm" /\ queue \in Seq(Probe!Runs)
  BY DirectIs DEF Probe!Init
<1>3. probeMode # "direct" => probeStage = "waiting" /\ queue = <<>>
  BY DEF Probe!Init
<1>4. ProbeTypeOK
  <2>1. queue \in Seq(Probe!Runs)
    <3>1. <<>> \in Seq(Probe!Runs)
      OBVIOUS
    <3> QED
      BY <1>2, <1>3, <3>1
  <2>2. collected \in [Probe!Channels -> Seq(Answerable)] /\ done \in [Probe!Channels -> Seq(Statuses)]
    BY <1>1
  <2> QED
    BY <1>1, <1>2, <1>3, <2>1, <2>2 DEF ProbeTypeOK
<1>5. ProbeIsAt
  BY <1>1, <1>2, <1>3 DEF ProbeIsAt
<1>6. PlansAreDone
  BY <1>1, <1>3 DEF PlansAreDone, QueuedAreWhole, QueuedOnce, RunningIsBetween, HandledAreDone,
    UnhandledAreEmpty
<1>7. SweepsAreOwn
  <2>1. <<>> \in Seq(Sweeps)
    OBVIOUS
  <2> QED
    BY <1>1, <1>3, <2>1 DEF SweepsAreOwn, Probe!SweptFromItsAccount
<1>8. Probe!WaitsForSomething
  <2>1. PICK c \in Probe!Channels : TRUE
    BY ChannelsAreTargets
  <2> QED
    BY <1>1, <1>2, <2>1 DEF Probe!WaitsForSomething
<1> QED
  BY <1>4, <1>5, <1>6, <1>7, <1>8 DEF ProbeInv

LEMMA ConfirmKeepsInv ==
  ASSUME ProbeInv, NEW yes \in BOOLEAN, Probe!Confirm(yes) PROVE ProbeInv'
<1>1. /\ probeStage = "confirm" /\ probeMode = "direct" /\ running = None
      /\ probeStage' = IF yes /\ queue # <<>> THEN "settled" ELSE "over"
      /\ queue' = IF yes THEN queue ELSE <<>>
      /\ UNCHANGED <<probeMode, handled, collected, quiet, running, done, sent>>
  BY DEF ProbeInv, ProbeIsAt, Probe!Confirm
<1>2. ProbeTypeOK'
  <2>1. queue' \in Seq(Probe!Runs)
    BY <1>1 DEF ProbeInv, ProbeTypeOK
  <2> QED
    BY <1>1, <2>1 DEF ProbeInv, ProbeTypeOK
<1>3. ProbeIsAt'
  BY <1>1 DEF ProbeInv, ProbeIsAt
<1>4. PlansAreDone' /\ SweepsAreOwn' /\ Probe!WaitsForSomething'
  BY <1>1 DEF PlansAreDone, SweepsAreOwn, Probe!WaitsForSomething
<1> QED
  BY <1>2, <1>3, <1>4 DEF ProbeInv

LEMMA ArriveKeepsInv ==
  ASSUME ProbeInv, NEW w \in Inbounds, Probe!Arrive(w) PROVE ProbeInv'
<1> DEFINE m == Probe!Pick(w, Probe!Channels \ handled)
           c == m.channel
           run == Probe!Run(c, Probe!Default(c), Probe!Plan(c, m.id))
<1>1. /\ probeMode = "arrival" /\ probeStage = "waiting"
      /\ Probe!Usable(w, Probe!Channels \ handled) # <<>>
      /\ handled' = handled \cup {c} /\ queue' = Append(queue, run)
      /\ UNCHANGED <<probeMode, probeStage, collected, quiet, running, done, sent>>
  BY DEF Probe!Arrive
<1>2. m \in Probe!Messages /\ c \in Probe!Channels \ handled
  BY <1>1, PickIs
<1>3. Probe!Plan(c, m.id) \in Seq(Operations) /\ Len(Probe!Plan(c, m.id)) = PlanLength(c)
  BY <1>2, PlanIs
<1>4. run \in Probe!Runs
  BY <1>2, <1>3, DefaultIsAccount, RunIs
<1>5. run.channel = c /\ run.ops = Probe!Plan(c, m.id)
  BY DEF Probe!Run
<1> HIDE DEF m, c, run
<1>6. ProbeTypeOK'
  <2>1. queue' \in Seq(Probe!Runs)
    BY <1>1, <1>4 DEF ProbeInv, ProbeTypeOK
  <2> QED
    BY <1>1, <1>2, <2>1 DEF ProbeInv, ProbeTypeOK
<1>7. ProbeIsAt'
  BY <1>1 DEF ProbeInv, ProbeIsAt
<1>8. /\ queue \in Seq(Probe!Runs) /\ Len(queue) \in Nat /\ DOMAIN queue = 1..Len(queue)
      /\ DOMAIN queue' = 1..(Len(queue) + 1)
      /\ \A i \in DOMAIN queue : queue'[i] = queue[i] /\ i \in DOMAIN queue'
      /\ queue'[Len(queue) + 1] = run /\ Len(queue) + 1 \in DOMAIN queue'
      /\ \A i \in DOMAIN queue' : i \in DOMAIN queue \/ i = Len(queue) + 1
  BY <1>1 DEF ProbeInv, ProbeTypeOK
<1>9. QueuedAreWhole /\ QueuedOnce /\ RunningIsBetween /\ HandledAreDone /\ UnhandledAreEmpty
  BY <1>1 DEF ProbeInv, PlansAreDone
<1>10. QueuedAreWhole'
  <2>1. \A i \in DOMAIN queue' :
          /\ queue'[i].channel \in handled'
          /\ done[queue'[i].channel] = <<>>
          /\ Len(queue'[i].ops) = PlanLength(queue'[i].channel)
          /\ running # None => running.channel # queue'[i].channel
    <3>1. ASSUME NEW i \in DOMAIN queue
          PROVE  /\ queue'[i].channel \in handled'
                 /\ done[queue'[i].channel] = <<>>
                 /\ Len(queue'[i].ops) = PlanLength(queue'[i].channel)
                 /\ running # None => running.channel # queue'[i].channel
      BY <1>1, <1>8, <1>9, <3>1 DEF QueuedAreWhole
    <3>2. /\ c \in handled' /\ done[c] = <<>> /\ Len(run.ops) = PlanLength(c)
          /\ running # None => running.channel # c
      BY <1>1, <1>2, <1>3, <1>5, <1>9 DEF UnhandledAreEmpty, RunningIsBetween
    <3> QED
      BY <1>5, <1>8, <3>1, <3>2
  <2> QED
    BY <1>1, <2>1 DEF QueuedAreWhole
<1>11. QueuedOnce'
  <2>1. \A i \in DOMAIN queue : queue[i].channel # c
    BY <1>2, <1>9 DEF QueuedAreWhole
  <2> QED
    BY <1>5, <1>8, <1>9, <2>1 DEF QueuedOnce
<1>12. RunningIsBetween'
  BY <1>1, <1>9 DEF RunningIsBetween
<1>13. HandledAreDone'
  <2>1. ASSUME NEW d \in handled'
        PROVE  \/ \E i \in DOMAIN queue' : queue'[i].channel = d
               \/ running # None /\ running.channel = d
               \/ Len(done[d]) = PlanLength(d)
    <3>1. CASE d = c
      BY <1>5, <1>8, <3>1
    <3>2. CASE d \in handled
      BY <1>8, <1>9, <3>2 DEF HandledAreDone
    <3> QED
      BY <1>1, <2>1, <3>1, <3>2
  <2> QED
    BY <1>1, <2>1 DEF HandledAreDone
<1>14. UnhandledAreEmpty'
  BY <1>1, <1>9 DEF UnhandledAreEmpty
<1>15. SweepsAreOwn'
  BY <1>1 DEF SweepsAreOwn
<1>16. Probe!WaitsForSomething'
  <2>1. queue' # <<>>
    BY <1>8
  <2> QED
    BY <1>1, <2>1 DEF Probe!WaitsForSomething
<1> QED
  BY <1>6, <1>7, <1>10, <1>11, <1>12, <1>13, <1>14, <1>15, <1>16 DEF ProbeInv, PlansAreDone

\* What a batch does when it settles.
LEMMA SettleKeepsInv ==
  ASSUME ProbeInv, probeMode = "batch", probeStage = "waiting",
         NEW all \in [Probe!Channels -> Seq(Answerable)], collected' = all, Probe!Settle(all),
         UNCHANGED <<probeMode, handled, running, done, sent>>
  PROVE  ProbeInv'
<1>1. /\ queue' \in Seq(Sweeps) /\ queue' \in Seq(Probe!Runs)
      /\ probeStage' = IF queue' = <<>> THEN "over" ELSE "settled"
      /\ quiet' = FALSE
  BY SettledIs, SweepsAreRuns DEF Probe!Settle
<1>2. running = None /\ handled = {}
  BY DEF ProbeInv, ProbeIsAt
<1>3. ProbeTypeOK'
  BY <1>1 DEF ProbeInv, ProbeTypeOK
<1>4. ProbeIsAt'
  BY <1>1, <1>2 DEF ProbeInv, ProbeIsAt
<1>5. PlansAreDone' /\ Probe!WaitsForSomething'
  BY <1>1 DEF PlansAreDone, Probe!WaitsForSomething
<1>6. SweepsAreOwn'
  BY <1>1 DEF ProbeInv, SweepsAreOwn, Probe!SweptFromItsAccount
<1> QED
  BY <1>3, <1>4, <1>5, <1>6 DEF ProbeInv

LEMMA CollectKeepsInv ==
  ASSUME ProbeInv, NEW w \in Inbounds, Probe!Collect(w) PROVE ProbeInv'
<1> DEFINE all == [c \in Probe!Channels |-> Probe!Merge(collected[c], Probe!Incoming(w, c))]
<1>1. /\ probeMode = "batch" /\ probeStage = "waiting" /\ collected' = all
      /\ \/ Probe!Settle(all)
         \/ quiet' = TRUE /\ UNCHANGED <<queue, probeStage>>
      /\ UNCHANGED <<probeMode, handled, running, done, sent>>
  BY DEF Probe!Collect
<1>2. ASSUME NEW c \in Probe!Channels PROVE Probe!Merge(collected[c], Probe!Incoming(w, c)) \in Seq(Answerable)
  <2>1. collected[c] \in Seq(Answerable)
    BY DEF ProbeInv, ProbeTypeOK
  <2> QED
    BY <2>1, IncomingIs, MergedAreEither
<1>3. all \in [Probe!Channels -> Seq(Answerable)]
  BY <1>2
<1> HIDE DEF all
<1>4. CASE Probe!Settle(all)
  BY <1>1, <1>3, <1>4, SettleKeepsInv
<1>5. CASE quiet' = TRUE /\ UNCHANGED <<queue, probeStage>>
  <2>1. ProbeTypeOK'
    BY <1>1, <1>3, <1>5 DEF ProbeInv, ProbeTypeOK
  <2>2. ProbeIsAt'
    BY <1>1, <1>5 DEF ProbeInv, ProbeIsAt
  <2>3. PlansAreDone' /\ SweepsAreOwn' /\ Probe!WaitsForSomething'
    BY <1>1, <1>5 DEF ProbeInv, PlansAreDone, SweepsAreOwn, Probe!SweptFromItsAccount,
      Probe!WaitsForSomething
  <2> QED
    BY <2>1, <2>2, <2>3 DEF ProbeInv
<1> QED
  BY <1>1, <1>4, <1>5

LEMMA QuietKeepsInv == ASSUME ProbeInv, Probe!Quiet PROVE ProbeInv'
<1>1. /\ quiet /\ probeMode = "batch" /\ probeStage = "waiting"
      /\ collected \in [Probe!Channels -> Seq(Answerable)]
      /\ UNCHANGED <<probeMode, handled, collected, running, done, sent>>
  BY DEF ProbeInv, ProbeTypeOK, ProbeIsAt, Probe!Quiet
<1>2. CASE \E c \in Probe!Channels : collected[c] = <<>>
  <2>1. quiet' = FALSE /\ UNCHANGED <<probeStage, queue>>
    BY <1>2 DEF Probe!Quiet
  <2>2. ProbeTypeOK'
    BY <1>1, <2>1 DEF ProbeInv, ProbeTypeOK
  <2>3. ProbeIsAt'
    BY <1>1, <2>1 DEF ProbeInv, ProbeIsAt
  <2>4. PlansAreDone' /\ SweepsAreOwn' /\ Probe!WaitsForSomething'
    BY <1>1, <1>2, <2>1 DEF ProbeInv, PlansAreDone, SweepsAreOwn, Probe!SweptFromItsAccount,
      Probe!WaitsForSomething
  <2> QED
    BY <2>2, <2>3, <2>4 DEF ProbeInv
<1>3. CASE ~\E c \in Probe!Channels : collected[c] = <<>>
  <2>1. Probe!Settle(collected)
    BY <1>3 DEF Probe!Quiet
  <2> QED
    BY <1>1, <2>1, SettleKeepsInv
<1> QED
  BY <1>2, <1>3

LEMMA BatchTimeOutKeepsInv == ASSUME ProbeInv, Probe!BatchTimeOut PROVE ProbeInv'
<1>1. collected \in [Probe!Channels -> Seq(Answerable)]
  BY DEF ProbeInv, ProbeTypeOK
<1> QED
  BY <1>1, SettleKeepsInv DEF Probe!BatchTimeOut

LEMMA TimeOutKeepsInv == ASSUME ProbeInv, Probe!TimeOut PROVE ProbeInv'
<1>1. /\ probeMode = "arrival" /\ probeStage = "waiting"
      /\ probeStage' = IF running = None /\ queue = <<>> THEN "over" ELSE "settled"
      /\ UNCHANGED <<probeMode, handled, collected, quiet, queue, running, done, sent>>
  BY DEF Probe!TimeOut
<1>2. ProbeTypeOK'
  BY <1>1 DEF ProbeInv, ProbeTypeOK
<1>3. ProbeIsAt'
  BY <1>1 DEF ProbeInv, ProbeIsAt
<1>4. PlansAreDone'
  BY <1>1 DEF ProbeInv, PlansAreDone, QueuedAreWhole, QueuedOnce, RunningIsBetween, HandledAreDone,
    UnhandledAreEmpty
<1>5. SweepsAreOwn' /\ Probe!WaitsForSomething'
  BY <1>1 DEF SweepsAreOwn, Probe!WaitsForSomething
<1> QED
  BY <1>2, <1>3, <1>4, <1>5 DEF ProbeInv

LEMMA TakeRunKeepsInv == ASSUME ProbeInv, Probe!Take PROVE ProbeInv'
<1>1. /\ running = None /\ queue # <<>> /\ probeStage # "confirm"
      /\ running' = Head(queue) /\ queue' = Tail(queue)
      /\ UNCHANGED <<probeMode, probeStage, handled, collected, quiet, done, sent>>
  BY DEF Probe!Take
<1>2. ProbeTypeOK
  BY DEF ProbeInv
<1>3. queue \in Seq(Probe!Runs)
  BY <1>2 DEF ProbeTypeOK
<1>4. /\ Len(queue) \in Nat \ {0} /\ DOMAIN queue = 1..Len(queue)
      /\ queue' \in Seq(Probe!Runs) /\ DOMAIN queue' = 1..(Len(queue) - 1)
      /\ \A i \in DOMAIN queue' : queue'[i] = queue[i + 1] /\ i + 1 \in DOMAIN queue
      /\ running' = queue[1] /\ 1 \in DOMAIN queue /\ running' \in Probe!Runs
      /\ \A i \in DOMAIN queue : i = 1 \/ (i - 1 \in DOMAIN queue' /\ queue[i] = queue'[i - 1])
  BY <1>1, <1>3
<1>5. running' # None
  BY <1>4, RunsAre
<1>6. ProbeTypeOK'
  BY <1>1, <1>2, <1>4 DEF ProbeTypeOK
<1>7. ProbeIsAt'
  BY <1>1 DEF ProbeInv, ProbeIsAt
<1>8. PlansAreDone'
  <2>1. SUFFICES ASSUME probeMode = "arrival"
                 PROVE  /\ QueuedAreWhole' /\ QueuedOnce' /\ RunningIsBetween'
                        /\ HandledAreDone' /\ UnhandledAreEmpty'
    BY <1>1 DEF PlansAreDone
  <2>2. QueuedAreWhole /\ QueuedOnce /\ HandledAreDone /\ UnhandledAreEmpty
    BY <2>1 DEF ProbeInv, PlansAreDone
  <2>3. \A i \in DOMAIN queue' : queue'[i].channel # queue[1].channel
    <3>1. ASSUME NEW i \in DOMAIN queue', queue'[i].channel = queue[1].channel PROVE FALSE
      <4>1. queue[i + 1].channel = queue[1].channel /\ i + 1 \in DOMAIN queue /\ 1 \in DOMAIN queue
        BY <1>4, <3>1
      <4>2. i + 1 = 1
        BY <2>2, <4>1 DEF QueuedOnce
      <4>3. i \in Nat \ {0}
        BY <1>4
      <4> QED
        BY <4>2, <4>3
    <3> QED
      BY <3>1
  <2>4. QueuedAreWhole'
    BY <1>1, <1>4, <2>2, <2>3 DEF QueuedAreWhole
  <2>5. QueuedOnce'
    <3>1. ASSUME NEW i \in DOMAIN queue', NEW j \in DOMAIN queue', queue'[i].channel = queue'[j].channel
          PROVE  i = j
      <4>1. i + 1 = j + 1
        BY <1>4, <2>2, <3>1 DEF QueuedOnce
      <4>2. i \in Nat /\ j \in Nat
        BY <1>4
      <4> QED
        BY <4>1, <4>2
    <3> QED
      BY <3>1 DEF QueuedOnce
  <2>6. RunningIsBetween'
    <3>1. /\ queue[1].channel \in handled /\ done[queue[1].channel] = <<>>
          /\ Len(queue[1].ops) = PlanLength(queue[1].channel)
      BY <1>4, <2>2 DEF QueuedAreWhole
    <3>2. queue[1].ops \in Seq(Operations)
      BY <1>3, <1>4, RunsAre
    <3>3. Len(done[queue[1].channel]) + Len(queue[1].ops) = PlanLength(queue[1].channel)
      BY <3>1, <3>2
    <3> QED
      BY <1>1, <1>4, <3>1, <3>3 DEF RunningIsBetween
  <2>7. HandledAreDone'
    <3>1. ASSUME NEW c \in handled
          PROVE  \/ \E i \in DOMAIN queue' : queue'[i].channel = c
                 \/ running'.channel = c
                 \/ Len(done[c]) = PlanLength(c)
      <4>1. CASE \E i \in DOMAIN queue : queue[i].channel = c
        BY <1>4, <4>1
      <4> QED
        BY <1>1, <2>2, <4>1 DEF HandledAreDone
    <3> QED
      BY <1>1, <1>5, <3>1 DEF HandledAreDone
  <2>8. UnhandledAreEmpty'
    BY <1>1, <2>2 DEF UnhandledAreEmpty
  <2> QED
    BY <2>4, <2>5, <2>6, <2>7, <2>8
<1>9. SweepsAreOwn'
  <2>1. SUFFICES ASSUME probeMode = "batch"
                 PROVE  queue' \in Seq(Sweeps) /\ running' \in Sweeps /\ Probe!SweptFromItsAccount'
    BY <1>1 DEF SweepsAreOwn
  <2>2. queue \in Seq(Sweeps) /\ Probe!SweptFromItsAccount
    BY <2>1 DEF ProbeInv, SweepsAreOwn
  <2>3. queue' \in Seq(Sweeps) /\ running' \in Sweeps
    BY <1>1, <2>2
  <2> QED
    BY <1>1, <2>2, <2>3 DEF Probe!SweptFromItsAccount, Probe!Mine
<1>10. Probe!WaitsForSomething'
  BY <1>1, <1>5 DEF ProbeInv, Probe!WaitsForSomething
<1> QED
  BY <1>6, <1>7, <1>8, <1>9, <1>10 DEF ProbeInv

\* An operation leaves an outcome, whatever becomes of it.
LEMMA OutcomeKeepsInv ==
  ASSUME ProbeInv, running # None, running.ops # <<>>,
         NEW status \in Statuses, NEW own \in {running.own, Probe!OurText}, Probe!Outcome(status, own),
         probeMode = "batch" => own = None /\ Probe!SweptFromItsAccount'
  PROVE  ProbeInv'
<1> DEFINE c == running.channel
<1>1. /\ done' = [done EXCEPT ![c] = Append(done[c], status)]
      /\ running' = [running EXCEPT !.ops = Tail(running.ops), !.own = own]
      /\ UNCHANGED <<probeMode, probeStage, handled, collected, quiet, queue>>
  BY DEF Probe!Outcome
<1>2. ProbeTypeOK /\ running \in Probe!Runs
  BY DEF ProbeInv, ProbeTypeOK
<1>3. running.ops \in Seq(Operations) /\ c \in Probe!Channels /\ running.own \in {None, Probe!OurText}
  BY <1>2, RunsAre
<1>4. /\ Tail(running.ops) \in Seq(Operations) /\ Len(Tail(running.ops)) = Len(running.ops) - 1
      /\ Len(running.ops) \in Nat
  BY <1>3
<1>5. /\ running' \in Probe!Runs /\ running'.channel = c /\ running'.ops = Tail(running.ops)
      /\ running'.account = running.account /\ running'.own = own
  BY <1>1, <1>2, <1>3, <1>4, RunsAre
<1>6. running' # None
  BY <1>5, RunsAre
<1>7. /\ done \in [Probe!Channels -> Seq(Statuses)] /\ done' \in [Probe!Channels -> Seq(Statuses)]
      /\ Len(done'[c]) = Len(done[c]) + 1 /\ Len(done[c]) \in Nat
      /\ \A d \in Probe!Channels : d # c => done'[d] = done[d]
  BY <1>1, <1>2, <1>3 DEF ProbeTypeOK
<1> HIDE DEF c
<1>8. ProbeTypeOK'
  BY <1>1, <1>2, <1>5, <1>7 DEF ProbeTypeOK
<1>9. ProbeIsAt'
  BY <1>1, <1>6 DEF ProbeInv, ProbeIsAt
<1>10. PlansAreDone'
  <2>1. SUFFICES ASSUME probeMode = "arrival"
                 PROVE  /\ QueuedAreWhole' /\ QueuedOnce' /\ RunningIsBetween'
                        /\ HandledAreDone' /\ UnhandledAreEmpty'
    BY <1>1 DEF PlansAreDone
  <2>2. QueuedAreWhole /\ QueuedOnce /\ RunningIsBetween /\ HandledAreDone /\ UnhandledAreEmpty
    BY <2>1 DEF ProbeInv, PlansAreDone
  <2>3. /\ c \in handled /\ Len(done[c]) + Len(running.ops) = PlanLength(c)
        /\ \A i \in DOMAIN queue : queue[i].channel # c /\ queue[i].channel \in Probe!Channels
    <3>1. \A i \in DOMAIN queue : queue[i].channel # c /\ queue[i].channel \in handled
      BY <2>2 DEF QueuedAreWhole, c
    <3> QED
      BY <1>2, <2>2, <3>1 DEF RunningIsBetween, ProbeTypeOK, c
  <2>4. QueuedAreWhole'
    BY <1>1, <1>5, <1>7, <2>2, <2>3 DEF QueuedAreWhole
  <2>5. QueuedOnce'
    BY <1>1, <2>2 DEF QueuedOnce
  <2>6. RunningIsBetween'
    <3>1. Len(done'[c]) + Len(running'.ops) = PlanLength(c)
      <4>1. Len(running'.ops) = Len(running.ops) - 1
        BY <1>4, <1>5
      <4>2. \A a, b \in Nat : (a + 1) + (b - 1) = a + b
        OBVIOUS
      <4>3. Len(done'[c]) + Len(running'.ops) = Len(done[c]) + Len(running.ops)
        BY <1>4, <1>7, <4>1, <4>2
      <4> QED
        BY <2>3, <4>3
    <3> QED
      BY <1>1, <1>5, <2>3, <3>1 DEF RunningIsBetween
  <2>7. HandledAreDone'
    <3>1. ASSUME NEW d \in handled, d # c
          PROVE  (\E i \in DOMAIN queue : queue[i].channel = d) \/ Len(done'[d]) = PlanLength(d)
      BY <1>2, <1>7, <2>2, <3>1 DEF HandledAreDone, ProbeTypeOK, c
    <3> QED
      BY <1>1, <1>5, <1>6, <3>1 DEF HandledAreDone
  <2>8. UnhandledAreEmpty'
    BY <1>1, <1>7, <2>2, <2>3 DEF UnhandledAreEmpty
  <2> QED
    BY <2>4, <2>5, <2>6, <2>7, <2>8
<1>11. SweepsAreOwn'
  <2>1. SUFFICES ASSUME probeMode = "batch"
                 PROVE  queue' \in Seq(Sweeps) /\ running' \in Sweeps /\ Probe!SweptFromItsAccount'
    BY <1>1 DEF SweepsAreOwn
  <2>2. queue \in Seq(Sweeps) /\ OwnSweep(running)
    BY <2>1 DEF ProbeInv, SweepsAreOwn, Sweeps
  <2>3. OwnSweep(running')
    <3>1. \A i \in DOMAIN Tail(running.ops) :
            Tail(running.ops)[i] = running.ops[i + 1] /\ i + 1 \in DOMAIN running.ops
      BY <1>3
    <3> QED
      BY <1>5, <2>1, <2>2, <3>1 DEF OwnSweep
  <2> QED
    BY <1>1, <1>5, <2>1, <2>2, <2>3 DEF Sweeps
<1>12. Probe!WaitsForSomething'
  BY <1>1, <1>6 DEF ProbeInv, Probe!WaitsForSomething
<1> QED
  BY <1>8, <1>9, <1>10, <1>11, <1>12 DEF ProbeInv

LEMMA SkipKeepsInv == ASSUME ProbeInv, Probe!SkipOperation PROVE ProbeInv'
<1>1. running # None /\ running.ops # <<>> /\ Probe!Outcome("skipped", running.own) /\ UNCHANGED sent
  BY DEF Probe!SkipOperation
<1>2. UNCHANGED probeMode
  BY <1>1 DEF Probe!Outcome
<1>3. probeMode = "batch" => running.own = None /\ Probe!SweptFromItsAccount'
  BY <1>1, <1>2 DEF ProbeInv, SweepsAreOwn, Sweeps, OwnSweep, Probe!SweptFromItsAccount, Probe!Mine
<1>4. "skipped" \in Statuses /\ running.own \in {running.own, Probe!OurText}
  BY DEF Statuses
<1> QED
  BY <1>1, <1>3, <1>4, OutcomeKeepsInv

LEMMA OperateKeepsInv ==
  ASSUME ProbeInv, NEW accepted \in BOOLEAN, Probe!Operate(accepted) PROVE ProbeInv'
<1> DEFINE own == IF accepted /\ Probe!Current.name = "text" THEN Probe!OurText ELSE running.own
           status == IF accepted THEN "accepted" ELSE "rejected"
           send == [channel |-> running.channel, account |-> running.account,
                    name |-> Probe!Current.name, target |-> Probe!Target]
<1>1. /\ running # None /\ running.ops # <<>> /\ Probe!Target \notin {Probe!Skip, None}
      /\ sent' = sent \cup {send} /\ Probe!Outcome(status, own)
  BY DEF Probe!Operate
<1>2. UNCHANGED probeMode
  BY <1>1 DEF Probe!Outcome
<1>3. status \in Statuses /\ own \in {running.own, Probe!OurText}
  BY DEF Statuses
<1>4. ASSUME probeMode = "batch" PROVE own = None /\ Probe!SweptFromItsAccount'
  <2>1. OwnSweep(running) /\ Probe!SweptFromItsAccount /\ running \in Probe!Runs
    BY <1>1, <1>4 DEF ProbeInv, SweepsAreOwn, Sweeps
  <2>2. 1 \in DOMAIN running.ops /\ Probe!Current = running.ops[1]
    <3>1. running.ops \in Seq(Operations)
      BY <2>1, RunsAre
    <3> QED
      BY <1>1, <3>1 DEF Probe!Current
  <2>3. Probe!Target = running.ops[1].target
    BY <1>1, <2>1, <2>2 DEF Probe!Target, OwnSweep
  <2>4. Probe!Mine(send)
    BY <2>1, <2>2, <2>3 DEF OwnSweep, Probe!Mine
  <2>5. own = None
    BY <2>1, <2>2 DEF OwnSweep
  <2> QED
    BY <1>1, <1>2, <1>4, <2>1, <2>4, <2>5 DEF Probe!SweptFromItsAccount, Probe!Mine
<1> HIDE DEF own, status, send
<1> QED
  BY <1>1, <1>3, <1>4, OutcomeKeepsInv

LEMMA FinishKeepsInv == ASSUME ProbeInv, Probe!Finish PROVE ProbeInv'
<1>1. /\ running # None /\ running.ops = <<>> /\ running' = None
      /\ probeStage' = IF queue = <<>> /\ (probeStage = "settled" \/ handled = Probe!Channels)
                       THEN "over" ELSE probeStage
      /\ UNCHANGED <<probeMode, handled, collected, quiet, queue, done, sent>>
  BY DEF Probe!Finish
<1>2. ProbeTypeOK'
  BY <1>1 DEF ProbeInv, ProbeTypeOK
<1>3. ProbeIsAt'
  BY <1>1 DEF ProbeInv, ProbeIsAt
<1>4. PlansAreDone'
  <2>1. SUFFICES ASSUME probeMode = "arrival"
                 PROVE  /\ QueuedAreWhole' /\ QueuedOnce' /\ RunningIsBetween'
                        /\ HandledAreDone' /\ UnhandledAreEmpty'
    BY <1>1 DEF PlansAreDone
  <2>2. QueuedAreWhole /\ QueuedOnce /\ RunningIsBetween /\ HandledAreDone /\ UnhandledAreEmpty
    BY <2>1 DEF ProbeInv, PlansAreDone
  <2>3. QueuedAreWhole' /\ QueuedOnce' /\ RunningIsBetween' /\ UnhandledAreEmpty'
    BY <1>1, <2>2 DEF QueuedAreWhole, QueuedOnce, RunningIsBetween, UnhandledAreEmpty
  <2>4. Len(done[running.channel]) = PlanLength(running.channel)
    <3>1. running.channel \in handled /\ handled \subseteq Probe!Channels
      BY <1>1, <2>2 DEF RunningIsBetween, ProbeInv, ProbeTypeOK
    <3>2. done[running.channel] \in Seq(Statuses)
      BY <3>1 DEF ProbeInv, ProbeTypeOK
    <3>3. Len(done[running.channel]) \in Nat /\ Len(running.ops) = 0
      BY <1>1, <3>2
    <3> QED
      BY <1>1, <2>2, <3>3 DEF RunningIsBetween
  <2>5. HandledAreDone'
    BY <1>1, <2>2, <2>4 DEF HandledAreDone
  <2> QED
    BY <2>3, <2>5
<1>5. SweepsAreOwn'
  BY <1>1 DEF ProbeInv, SweepsAreOwn, Probe!SweptFromItsAccount, Probe!Mine
<1>6. Probe!WaitsForSomething'
  BY <1>1 DEF ProbeInv, ProbeIsAt, Probe!WaitsForSomething
<1> QED
  BY <1>2, <1>3, <1>4, <1>5, <1>6 DEF ProbeInv

LEMMA ProbeInvStep == ProbeInv /\ [Probe!Next]_probeVars => ProbeInv'
<1> SUFFICES ASSUME ProbeInv, [Probe!Next]_probeVars PROVE ProbeInv'
  OBVIOUS
<1>1. CASE UNCHANGED probeVars
  <2>1. UNCHANGED <<probeMode, probeStage, handled, collected, quiet, queue, running, done, sent>>
    BY <1>1 DEF probeVars
  <2>2. ProbeTypeOK' /\ ProbeIsAt'
    BY <2>1 DEF ProbeInv, ProbeTypeOK, ProbeIsAt
  <2>3. PlansAreDone'
    BY <2>1 DEF ProbeInv, PlansAreDone, QueuedAreWhole, QueuedOnce, RunningIsBetween,
      HandledAreDone, UnhandledAreEmpty
  <2>4. SweepsAreOwn' /\ Probe!WaitsForSomething'
    BY <2>1 DEF ProbeInv, SweepsAreOwn, Probe!SweptFromItsAccount, Probe!Mine, Probe!WaitsForSomething
  <2> QED
    BY <2>2, <2>3, <2>4 DEF ProbeInv
<1>2. CASE \E yes \in BOOLEAN : Probe!Confirm(yes)
  BY <1>2, ConfirmKeepsInv
<1>3. CASE \E w \in Inbounds : Probe!Arrive(w) \/ Probe!Collect(w)
  BY <1>3, ArriveKeepsInv, CollectKeepsInv
<1>4. CASE Probe!TimeOut \/ Probe!Quiet \/ Probe!BatchTimeOut
  BY <1>4, TimeOutKeepsInv, QuietKeepsInv, BatchTimeOutKeepsInv
<1>5. CASE Probe!Take \/ Probe!SkipOperation \/ Probe!Finish
  BY <1>5, TakeRunKeepsInv, SkipKeepsInv, FinishKeepsInv
<1>6. CASE \E accepted \in BOOLEAN : Probe!Operate(accepted)
  BY <1>6, OperateKeepsInv
<1> QED
  BY <1>1, <1>2, <1>3, <1>4, <1>5, <1>6 DEF Probe!Next

\* The probe ends with the plan of every channel it handled carried out once, waits only
\* while there is a reason to, and reacts to a message of a batch from the account that it
\* was sent to (captureOnArrival, captureBatch, runBatchMode).
THEOREM ProbeEndsComplete == PartsSpec => []EndIsComplete
<1>1. PartsInit => ProbeInv
  BY ProbeInvInit DEF PartsInit
<1>2. ProbeInv /\ [PartsNext]_suiteVars => ProbeInv'
  BY PartsStep, ProbeInvStep
<1>3. ProbeInv => EndIsComplete
  <2> SUFFICES ASSUME ProbeInv PROVE EndIsComplete
    OBVIOUS
  <2>1. ASSUME probeStage = "over" PROVE \A c \in handled : Len(done[c]) = PlanLength(c)
    <3>1. queue = <<>> /\ running = None
      BY <2>1 DEF ProbeInv, ProbeIsAt
    <3>2. DOMAIN queue = {}
      BY <3>1
    <3> QED
      BY <3>1, <3>2 DEF ProbeInv, ProbeIsAt, PlansAreDone, HandledAreDone
  <2>2. Probe!EndIsComplete
    BY <2>1 DEF ProbeInv, ProbeIsAt, Probe!EndIsComplete, PlanLength
  <2>3. Probe!SweptFromItsAccount
    BY DEF ProbeInv, SweepsAreOwn, Probe!SweptFromItsAccount
  <2> QED
    BY <2>2, <2>3 DEF ProbeInv, EndIsComplete
<1> QED
  BY <1>1, <1>2, <1>3, PTL DEF PartsSpec, suiteVars
=============================================================================
