---------------------------- MODULE InboundProofs ----------------------------
(***************************************************************************)
(* Proofs about the ways in: comments and webhooks, the claims of the      *)
(* stores, the probes, the gap monitor, contacts and accounts.             *)
(***************************************************************************)
EXTENDS MCInbound, Integers, FiniteSetTheorems, WellFoundedInduction, TLAPS

-----------------------------------------------------------------------------
(***************************************************************************)
(* The endpoint is asked of a comment at most once, and of one of our own  *)
(* only if it came in without its author's id (AskedAtMostOnce of          *)
(* CommentIntake), proved for any replicas, comments, answers and pages,   *)
(* as long as a claim outlives the comments' time.                         *)
(***************************************************************************)

\* What a process may be at: a comment, with an answer's actions.
Handlings ==
  {Idle} \union [comment: Ids, stage: {"asking", "acting"},
                 actions: Seq(ActionTypes \union {"malformed"}), left: SUBSET Nat]

HandlingTypeOK == handling \in [Processes -> [Origins -> Handlings]]

TypeOK ==
  /\ channel \in {"messenger", "instagram"}
  /\ now \in Nat /\ now <= MaxTime
  /\ claims \in [Ids -> Nat]
  /\ asked \in [Ids -> Nat]
  /\ DOMAIN acted = Ids
  /\ HandlingTypeOK

Asks(p, o, c) == handling[p][o].stage = "asking" /\ handling[p][o].comment = c

\* A claim does not expire: dedupeTtlSeconds outlives the comments.
ClaimsLast == \A c \in Ids : claims[c] = 0 \/ claims[c] > MaxTime

\* A comment without a claim was never asked about, nor is it now.
UnclaimedIsUntouched ==
  \A c \in Ids : claims[c] = 0 =>
    asked[c] = 0 /\ \A p \in Processes, o \in Origins : ~Asks(p, o, c)

\* One handler asks of a comment, for the first time.
OneAsks ==
  \A c \in Ids, p \in Processes, o \in Origins : Asks(p, o, c) =>
    /\ asked[c] = 0
    /\ \A q \in Processes, n \in Origins : Asks(q, n, c) => q = p /\ n = o

\* One handler moves on to x, the others stay where they are.
Moves(p, o, x) == handling' = [handling EXCEPT ![p][o] = x]

IsMoved(p, o, x) ==
  \A q \in Processes, n \in Origins :
    handling'[q][n] = IF q = p /\ n = o THEN x ELSE handling[q][n]

\* A comment of ours that is handled came in without its author's id.
HandledOwnIsAnonymous ==
  \A p \in Processes, o \in Origins :
    handling[p][o].stage # "idle" => handling[p][o].comment \notin OwnReplies \ anonymous

OnceInv ==
  /\ TypeOK /\ ClaimsLast /\ UnclaimedIsUntouched /\ OneAsks
  /\ HandledOwnIsAnonymous /\ AskedAtMostOnce

-----------------------------------------------------------------------------
LEMMA OnceInvInit == Init => OnceInv
<1> SUFFICES ASSUME Init PROVE OnceInv
  OBVIOUS
<1>1. HandlingTypeOK
  BY DEF Init, Handlings, HandlingTypeOK
<1>2. TypeOK
  <2>1. now \in Nat /\ now <= MaxTime
    BY TimesAssumption DEF Init
  <2> QED
    BY <1>1, <2>1 DEF TypeOK, Init
<1>3. \A p \in Processes, o \in Origins : handling[p][o].stage = "idle"
  BY DEF Init, Idle, At
<1> QED
  BY <1>2, <1>3 DEF Init, OnceInv, ClaimsLast, UnclaimedIsUntouched, OneAsks, AskedAtMostOnce,
    HandledOwnIsAnonymous, Asks, Ids

\* The type of the handlers survives a move.
LEMMA OneMoves ==
  ASSUME TypeOK, NEW p \in Processes, NEW o \in Origins, NEW x \in Handlings, Moves(p, o, x)
  PROVE  HandlingTypeOK' /\ IsMoved(p, o, x)
BY DEF TypeOK, HandlingTypeOK, Moves, IsMoved

\* Whoever asks or acts has a comment.
LEMMA BusyWithComment ==
  ASSUME TypeOK, NEW p \in Processes, NEW o \in Origins, handling[p][o].stage # "idle"
  PROVE  handling[p][o].comment \in Ids
<1>1. handling[p][o] \in Handlings
  BY DEF TypeOK, HandlingTypeOK
<1> QED
  BY <1>1 DEF Handlings, Idle, At

\* A claim is taken of a comment that nobody asked about.
LEMMA EnterKeepsInv ==
  ASSUME ClaimTtl > MaxTime, OnceInv, NEW p \in Processes, NEW o \in Origins, NEW c \in Ids,
         NEW verb, NEW named, Free(p, o), Enter(p, o, c, verb, named),
         UNCHANGED <<channel, now, asked, acted>>
  PROVE  OnceInv'
<1> USE DEF OnceInv
<1>0. anonymous \subseteq anonymous'
  BY DEF Enter
<1>1. CASE UNCHANGED <<claims, handling>>
  <2>1. HandledOwnIsAnonymous' /\ AskedAtMostOnce'
    BY <1>0, <1>1 DEF HandledOwnIsAnonymous, AskedAtMostOnce
  <2> QED
    BY <1>1, <2>1 DEF TypeOK, HandlingTypeOK, ClaimsLast, UnclaimedIsUntouched, OneAsks, Asks
<1>2. CASE ~UNCHANGED <<claims, handling>>
  <2> DEFINE x == At(c, "asking", <<>>, {})
  <2>1. /\ claims[c] <= now /\ c \notin OwnReplies \ anonymous'
        /\ claims' = [claims EXCEPT ![c] = now + ClaimTtl]
        /\ Moves(p, o, x)
    BY <1>2 DEF Enter, Claimed, IsOwn, TypeOK, Moves
  <2>2. now + ClaimTtl \in Nat /\ now + ClaimTtl > MaxTime
    BY TimesAssumption DEF TypeOK
  <2>3. claims[c] = 0
    BY <2>1, TimesAssumption DEF TypeOK, ClaimsLast
  <2>4. x \in Handlings /\ x.stage = "asking" /\ x.comment = c
    BY <2>1 DEF Handlings, At
  <2>5. HandlingTypeOK' /\ IsMoved(p, o, x)
    <3> HIDE DEF x
    <3> QED
      BY <2>1, <2>4, OneMoves
  <2>6. TypeOK'
    BY <2>1, <2>2, <2>5 DEF TypeOK
  <2>7. ClaimsLast'
    BY <2>1, <2>2 DEF ClaimsLast, TypeOK
  <2>8. \A d \in Ids, q \in Processes, n \in Origins :
          Asks(q, n, d)' <=> (IF q = p /\ n = o THEN d = c ELSE Asks(q, n, d))
    <3> HIDE DEF x
    <3> QED
      BY <2>4, <2>5 DEF Asks, IsMoved
  <2>9. UnclaimedIsUntouched'
    <3> SUFFICES ASSUME NEW d \in Ids, claims'[d] = 0
                 PROVE  asked'[d] = 0 /\ \A q \in Processes, n \in Origins : ~Asks(q, n, d)'
      BY DEF UnclaimedIsUntouched
    <3>1. d # c /\ claims[d] = 0
      BY <2>1, <2>2, TimesAssumption DEF TypeOK
    <3> QED
      BY <2>8, <3>1 DEF UnclaimedIsUntouched
  <2>10. OneAsks'
    BY <2>3, <2>8 DEF OneAsks, UnclaimedIsUntouched
  <2>11. HandledOwnIsAnonymous'
    <3> HIDE DEF x
    <3> QED
      BY <1>0, <2>1, <2>4, <2>5 DEF HandledOwnIsAnonymous, IsMoved
  <2> QED
    BY <1>0, <2>6, <2>7, <2>9, <2>10, <2>11 DEF AskedAtMostOnce
<1> QED
  BY <1>1, <1>2

\* The endpoint has answered or failed: the one who asked asks no longer.
LEMMA AskedKeepsInv ==
  ASSUME OnceInv, NEW p \in Processes, NEW o \in Origins, handling[p][o].stage = "asking",
         NEW x \in Handlings, x.stage # "asking",
         x.stage # "idle" => x.comment = handling[p][o].comment,
         Moves(p, o, x),
         asked' = [asked EXCEPT ![handling[p][o].comment] = @ + 1],
         UNCHANGED <<channel, now, claims, anonymous, acted>>
  PROVE  OnceInv'
<1> USE DEF OnceInv
<1> DEFINE c == handling[p][o].comment
<1>1. c \in Ids /\ c \notin OwnReplies \ anonymous
  BY BusyWithComment DEF HandledOwnIsAnonymous
<1>2. asked[c] = 0 /\ claims[c] # 0
  BY <1>1 DEF OneAsks, UnclaimedIsUntouched, Asks
<1>3. HandlingTypeOK' /\ IsMoved(p, o, x)
  BY OneMoves
<1>4. TypeOK'
  BY <1>1, <1>3 DEF TypeOK
<1>5. \A d \in Ids, q \in Processes, n \in Origins : Asks(q, n, d)' => Asks(q, n, d) /\ d # c
  BY <1>1, <1>3 DEF Asks, OneAsks, IsMoved
<1>6. \A d \in Ids : asked'[d] = IF d = c THEN 1 ELSE asked[d]
  BY <1>1, <1>2 DEF TypeOK
<1>7. UnclaimedIsUntouched'
  BY <1>2, <1>5, <1>6 DEF UnclaimedIsUntouched
<1>8. OneAsks'
  BY <1>5, <1>6 DEF OneAsks
<1>9. AskedAtMostOnce'
  BY <1>1, <1>6 DEF AskedAtMostOnce, Ids
<1>10. HandledOwnIsAnonymous'
  BY <1>1, <1>3 DEF HandledOwnIsAnonymous, IsMoved
<1> QED
  BY <1>4, <1>7, <1>8, <1>9, <1>10 DEF ClaimsLast

\* An action is done or has failed: the handler is idle, or acts on.
LEMMA ActionMoves ==
  ASSUME TypeOK, NEW p \in Processes, NEW o \in Origins, handling[p][o].stage = "acting",
         NEW i, ActionDone(p, o, i)
  PROVE  \E x \in Handlings :
           /\ Moves(p, o, x)
           /\ \/ x = Idle
              \/ /\ x.stage = "acting" /\ x.comment = handling[p][o].comment
                 /\ x.actions = handling[p][o].actions /\ x.left = handling[p][o].left \ {i}
<1> DEFINE h == handling[p][o]
           x == IF h.left \ {i} = {} THEN Idle ELSE [h EXCEPT !.left = h.left \ {i}]
<1>1. h \in Handlings /\ h # Idle
  BY DEF TypeOK, HandlingTypeOK, Idle, At
<1>2. h \in [comment: Ids, stage: {"asking", "acting"},
              actions: Seq(ActionTypes \union {"malformed"}), left: SUBSET Nat]
  BY <1>1 DEF Handlings
<1>3. x \in Handlings
  BY <1>2 DEF Handlings
<1>4. Moves(p, o, x)
  BY DEF ActionDone, Moves
<1>5. \/ x = Idle
      \/ /\ x.stage = "acting" /\ x.comment = h.comment
         /\ x.actions = h.actions /\ x.left = h.left \ {i}
  BY <1>2
<1> HIDE DEF x
<1> QED
  BY <1>3, <1>4, <1>5

\* Nobody asks who did not.
LEMMA ActedKeepsInv ==
  ASSUME OnceInv, NEW p \in Processes, NEW o \in Origins, handling[p][o].stage = "acting",
         NEW i, ActionDone(p, o, i), UNCHANGED <<channel, now, claims, anonymous, asked>>,
         DOMAIN acted' = Ids,
         \A d \in Ids : d # handling[p][o].comment => acted'[d] = acted[d]
  PROVE  OnceInv'
<1> USE DEF OnceInv
<1>1. PICK x \in Handlings :
        /\ Moves(p, o, x)
        /\ \/ x = Idle
           \/ /\ x.stage = "acting" /\ x.comment = handling[p][o].comment
              /\ x.actions = handling[p][o].actions /\ x.left = handling[p][o].left \ {i}
  BY ActionMoves
<1>2. x.stage # "asking"
  BY <1>1 DEF Idle, At
<1>3. HandlingTypeOK' /\ IsMoved(p, o, x)
  BY <1>1, OneMoves
<1>4. TypeOK'
  BY <1>3 DEF TypeOK
<1>5. \A d \in Ids, q \in Processes, n \in Origins : Asks(q, n, d)' => Asks(q, n, d)
  BY <1>2, <1>3 DEF Asks, IsMoved
<1>6. AskedAtMostOnce'
  BY DEF HandledOwnIsAnonymous, AskedAtMostOnce, Ids
<1>7. x.stage # "idle" => x.comment = handling[p][o].comment
  BY <1>1 DEF Idle, At
<1>8. HandledOwnIsAnonymous'
  BY <1>3, <1>7 DEF HandledOwnIsAnonymous, IsMoved
<1> QED
  BY <1>4, <1>5, <1>6, <1>8 DEF ClaimsLast, UnclaimedIsUntouched, OneAsks

\* What an answer is normalized to.
LEMMA AnsweredIsHandling ==
  ASSUME TypeOK, NEW answer \in Answers[channel], NEW c \in Ids
  PROVE  /\ At(c, "acting", answer.actions, Normalized(answer)) \in Handlings
         /\ Normalized(answer) \subseteq DOMAIN answer.actions
         /\ Normalized(answer) # {} => ~answer.silence
<1>1. answer \in RawAnswers
  BY AnswersAssumption DEF TypeOK
<1>2. answer.actions \in Seq(ActionTypes \union {"malformed"}) /\ DOMAIN answer.actions \subseteq Nat
  BY <1>1 DEF RawAnswers
<1>3. Normalized(answer) \subseteq DOMAIN answer.actions
  BY DEF Normalized, Wanted, WellFormed
<1>4. Normalized(answer) # {} => ~answer.silence
  BY <1>1 DEF Normalized, RawAnswers
<1> QED
  BY <1>2, <1>3, <1>4 DEF At, Handlings

\* A handler's step.
LEMMA HandleKeepsInv ==
  ASSUME OnceInv, NEW p \in Processes, NEW o \in Origins, Handle(p, o)
  PROVE  OnceInv'
<1>1. ASSUME NEW answer \in Answers[channel], EndpointAnswers(p, o, answer) PROVE OnceInv'
  <2> DEFINE c == handling[p][o].comment
             x == IF Normalized(answer) = {} THEN Idle
                  ELSE At(c, "acting", answer.actions, Normalized(answer))
  <2>1. handling[p][o].stage = "asking"
    BY <1>1 DEF EndpointAnswers
  <2>2. c \in Ids
    BY <2>1, BusyWithComment DEF OnceInv
  <2>3. x \in Handlings /\ x.stage # "asking" /\ (x.stage # "idle" => x.comment = c)
    BY <2>2, AnsweredIsHandling DEF OnceInv, Handlings, Idle, At
  <2>4. Moves(p, o, x)
    BY <1>1 DEF EndpointAnswers, Moves
  <2>5. asked' = [asked EXCEPT ![c] = @ + 1] /\ UNCHANGED <<channel, now, claims, anonymous, acted>>
    BY <1>1 DEF EndpointAnswers
  <2> HIDE DEF x
  <2> QED
    BY <2>1, <2>3, <2>4, <2>5, AskedKeepsInv
<1>2. CASE EndpointFails(p, o)
  <2>1. Idle \in Handlings /\ Idle.stage = "idle"
    BY DEF Handlings, Idle, At
  <2>2. /\ handling[p][o].stage = "asking"
        /\ Moves(p, o, Idle)
        /\ asked' = [asked EXCEPT ![handling[p][o].comment] = @ + 1]
        /\ UNCHANGED <<channel, now, claims, anonymous, acted>>
    BY <1>2 DEF EndpointFails, Moves
  <2> QED
    BY <2>1, <2>2, AskedKeepsInv
<1>3. ASSUME NEW i \in NextActions(p, o), Act(p, o, i) PROVE OnceInv'
  <2> DEFINE c == handling[p][o].comment
             action == handling[p][o].actions[i]
  <2>1. /\ handling[p][o].stage = "acting"
        /\ ActionDone(p, o, i)
        /\ UNCHANGED <<channel, now, claims, anonymous, asked>>
        /\ acted' = [acted EXCEPT ![c] = IF Supported(action) THEN Append(@, action) ELSE @]
    BY <1>3 DEF Act
  <2>2. DOMAIN acted' = Ids /\ \A d \in Ids : d # c => acted'[d] = acted[d]
    BY <2>1 DEF OnceInv, TypeOK
  <2> QED
    BY <2>1, <2>2, ActedKeepsInv
<1>4. ASSUME NEW i \in NextActions(p, o), ActionFails(p, o, i) PROVE OnceInv'
  BY <1>4, ActedKeepsInv DEF ActionFails, OnceInv, TypeOK
<1> QED
  BY <1>1, <1>2, <1>3, <1>4 DEF Handle

LEMMA OnceInvStep == ClaimTtl > MaxTime /\ OnceInv /\ [Next]_vars => OnceInv'
<1> SUFFICES ASSUME ClaimTtl > MaxTime, OnceInv, [Next]_vars PROVE OnceInv'
  OBVIOUS
<1>1. ASSUME UNCHANGED <<channel, claims, handling, anonymous, asked, acted>>,
             now' \in Nat, now' <= MaxTime
      PROVE  OnceInv'
  BY <1>1 DEF OnceInv, TypeOK, ClaimsLast, UnclaimedIsUntouched, OneAsks, HandledOwnIsAnonymous,
    AskedAtMostOnce, Asks, HandlingTypeOK
<1>2. now \in Nat /\ now <= MaxTime
  BY DEF OnceInv, TypeOK
<1>3. ASSUME NEW c \in Ids, Publish(c) PROVE OnceInv'
  BY <1>1, <1>2, <1>3 DEF Publish
<1>4. CASE Tick
  BY <1>1, <1>2, <1>4, TimesAssumption DEF Tick
<1>5. ASSUME NEW p \in Processes, NEW o \in Origins, Handle(p, o) PROVE OnceInv'
  BY <1>5, HandleKeepsInv
<1>6. ASSUME NEW p \in Processes, NEW c \in Ids, WebhookArrives(p, c) \/ HandOver(p, c)
      PROVE  OnceInv'
  BY <1>6, EnterKeepsInv DEF WebhookArrives, HandOver, Origins
<1>7. ASSUME NEW p \in Processes, Sweep(p) \/ Stop(p) PROVE OnceInv'
  BY <1>1, <1>2, <1>7 DEF Sweep, Stop
<1>8. CASE UNCHANGED vars
  BY <1>1, <1>2, <1>8 DEF vars
<1>9. CASE PublishMedia
  BY <1>1, <1>2, <1>9 DEF PublishMedia
<1> QED
  BY <1>3, <1>4, <1>5, <1>6, <1>7, <1>8, <1>9 DEF Next

-----------------------------------------------------------------------------
\* The endpoint is asked of a comment at most once, on whichever replica and by
\* whichever way it comes in, and of a comment of ours only if it came in without its
\* author's id, provided that no claim expires while comments are still looked at
\* (CommentAgent.handleComment, claimInboundHandle, runSweep of ig-poller.ts).
THEOREM CommentAskedOnce == ClaimTtl > MaxTime => (Spec => []AskedAtMostOnce)
<1> SUFFICES ASSUME ClaimTtl > MaxTime PROVE Spec => []AskedAtMostOnce
  OBVIOUS
<1>1. OnceInv /\ [Next]_vars => OnceInv'
  BY OnceInvStep
<1>2. OnceInv => AskedAtMostOnce
  BY DEF OnceInv
<1> QED
  BY <1>1, <1>2, OnceInvInit, PTL DEF Spec

-----------------------------------------------------------------------------
(***************************************************************************)
(* What is done on a comment is what one answer asked for, in its order    *)
(* (ActsAsAnswered), proved for any answers, under the same hypothesis:    *)
(* no second answer may act on a comment.                                  *)
(***************************************************************************)

Acts(p, o, c) == handling[p][o].stage = "acting" /\ handling[p][o].comment = c

\* The actions done are a part of the answer's, in its order, and come before all
\* that are left.
Follows(done, answer, left) ==
  \E f \in [DOMAIN done -> DOMAIN answer.actions] :
    /\ \A i, j \in DOMAIN done : i < j => f[i] < f[j]
    /\ \A i \in DOMAIN done : done[i] = answer.actions[f[i]]
    /\ \A i \in DOMAIN done, j \in left : f[i] < j

\* One handler acts on a comment, and nobody does before the endpoint was asked.
OneActs ==
  \A c \in Ids, p \in Processes, o \in Origins : Acts(p, o, c) =>
    /\ asked[c] > 0
    /\ \A q \in Processes, n \in Origins : Acts(q, n, c) => q = p /\ n = o

UnaskedIsUnacted == \A c \in Ids : asked[c] = 0 => acted[c] = <<>>

\* Whoever acts has an answer that is not silence, and goes on where it is.
ActsOnAnswer ==
  \A p \in Processes, o \in Origins :
    LET h == handling[p][o] IN h.stage = "acting" =>
      \E a \in Answers[channel] :
        /\ ~a.silence
        /\ h.actions = a.actions /\ h.left \subseteq DOMAIN a.actions
        /\ Follows(acted[h.comment], a, h.left)

ActedTypeOK == acted \in [Ids -> Seq(ActionTypes \union {"malformed"})]

AnswerInv == ActedTypeOK /\ OneActs /\ UnaskedIsUnacted /\ ActsOnAnswer /\ ActsAsOneAnswer

-----------------------------------------------------------------------------
LEMMA AnswerInvInit == Init => AnswerInv
<1> SUFFICES ASSUME Init PROVE AnswerInv
  OBVIOUS
<1>1. \A p \in Processes, o \in Origins : handling[p][o].stage = "idle"
  BY DEF Init, Idle, At
<1>2. \A c \in Ids : acted[c] = <<>> /\ c \in DOMAIN acted
  BY DEF Init
<1>3. ActedTypeOK
  BY DEF Init, ActedTypeOK
<1>4. OneActs /\ ActsOnAnswer
  BY <1>1 DEF OneActs, ActsOnAnswer, Acts
<1>5. UnaskedIsUnacted /\ ActsAsOneAnswer
  BY <1>2 DEF UnaskedIsUnacted, ActsAsOneAnswer, Ids
<1> QED
  BY <1>3, <1>4, <1>5 DEF AnswerInv

\* With nothing done, any answer is followed; one more action of those left, with all
\* before it passed, keeps to the answer; one that is not done does too.
LEMMA NothingFollows ==
  ASSUME NEW answer, NEW left
  PROVE  Follows(<<>>, answer, left)
<1> DEFINE f == [i \in DOMAIN <<>> |-> i]
<1>1. f \in [DOMAIN <<>> -> DOMAIN answer.actions] /\ DOMAIN <<>> = {}
  OBVIOUS
<1> HIDE DEF f
<1> QED
  BY <1>1 DEF Follows

LEMMA NextFollows ==
  ASSUME NEW S, NEW done \in Seq(S), NEW answer, answer.actions \in Seq(S),
         NEW left, left \subseteq DOMAIN answer.actions, NEW i \in left,
         \A j \in left : i <= j, Follows(done, answer, left)
  PROVE  /\ Follows(done, answer, left \ {i})
         /\ Follows(Append(done, answer.actions[i]), answer, left \ {i})
<1>1. PICK f \in [DOMAIN done -> DOMAIN answer.actions] :
        /\ \A k, j \in DOMAIN done : k < j => f[k] < f[j]
        /\ \A k \in DOMAIN done : done[k] = answer.actions[f[k]]
        /\ \A k \in DOMAIN done, j \in left : f[k] < j
  BY DEF Follows
<1>2. Follows(done, answer, left \ {i})
  BY <1>1 DEF Follows
<1> DEFINE more == Append(done, answer.actions[i])
           n == Len(done) + 1
           g == [k \in DOMAIN more |-> IF k = n THEN i ELSE f[k]]
<1>3. /\ DOMAIN done = 1 .. Len(done) /\ Len(done) \in Nat
      /\ DOMAIN more = 1 .. n
      /\ more[n] = answer.actions[i]
      /\ \A k \in DOMAIN done : more[k] = done[k]
  OBVIOUS
<1>4. DOMAIN answer.actions \subseteq Nat
  OBVIOUS
<1> HIDE DEF more
<1>5. g \in [DOMAIN more -> DOMAIN answer.actions]
  BY <1>1, <1>3
<1>6. g[n] = i /\ \A k \in DOMAIN done : g[k] = f[k] /\ f[k] < i /\ k < n /\ k # n
  BY <1>1, <1>3
<1>7. \A k \in DOMAIN more : k = n \/ k \in DOMAIN done
  BY <1>3
<1> HIDE DEF g, n
<1>8. \A k, j \in DOMAIN more : k < j => g[k] < g[j]
  <2> SUFFICES ASSUME NEW k \in DOMAIN more, NEW j \in DOMAIN more, k < j PROVE g[k] < g[j]
    OBVIOUS
  <2>1. CASE j = n
    BY <1>3, <1>6, <1>7, <2>1 DEF n
  <2>2. CASE j \in DOMAIN done
    BY <1>1, <1>3, <1>6, <1>7, <2>2 DEF n
  <2> QED
    BY <1>7, <2>1, <2>2
<1>9. \A k \in DOMAIN more : more[k] = answer.actions[g[k]]
  BY <1>1, <1>3, <1>6, <1>7
<1>10. \A k \in DOMAIN more, j \in left \ {i} : g[k] < j
  <2> SUFFICES ASSUME NEW k \in DOMAIN more, NEW j \in left \ {i} PROVE g[k] < j
    OBVIOUS
  <2>1. i < j
    BY <1>4
  <2>2. CASE k = n
    BY <1>6, <2>1, <2>2
  <2>3. CASE k \in DOMAIN done
    BY <1>1, <1>6, <2>3
  <2> QED
    BY <1>7, <2>2, <2>3
<1> QED
  BY <1>2, <1>5, <1>8, <1>9, <1>10 DEF Follows, more

\* A comment on which nobody acts is left as it is by every other handler.
LEMMA RestStays ==
  ASSUME AnswerInv, NEW p \in Processes, NEW o \in Origins, NEW x \in Handlings,
         IsMoved(p, o, x), UNCHANGED channel,
         NEW c \in Ids,
         \A q \in Processes, n \in Origins : Acts(q, n, c) => q = p /\ n = o,
         \A d \in Ids : d # c => acted'[d] = acted[d],
         TypeOK,
         NEW q \in Processes, NEW n \in Origins, q # p \/ n # o, handling[q][n].stage = "acting"
  PROVE  \E a \in Answers[channel] :
           /\ ~a.silence
           /\ handling'[q][n].actions = a.actions /\ handling'[q][n].left \subseteq DOMAIN a.actions
           /\ Follows(acted'[handling'[q][n].comment], a, handling'[q][n].left)
<1>1. handling'[q][n] = handling[q][n]
  BY DEF IsMoved
<1>2. handling[q][n].comment \in Ids /\ handling[q][n].comment # c
  BY BusyWithComment DEF Acts
<1>3. acted'[handling[q][n].comment] = acted[handling[q][n].comment]
  BY <1>2
<1> QED
  BY <1>1, <1>3 DEF AnswerInv, ActsOnAnswer

\* What follows an answer is a part of it.
LEMMA FollowsIsPart ==
  ASSUME NEW done, NEW answer, NEW left, Follows(done, answer, left)
  PROVE  IsPartOf(done, answer.actions)
BY DEF Follows, IsPartOf

\* The first answer of a comment is acted on.
LEMMA AnswerKeepsInv ==
  ASSUME OnceInv, AnswerInv, NEW p \in Processes, NEW o \in Origins,
         handling[p][o].stage = "asking",
         NEW x \in Handlings, Moves(p, o, x), UNCHANGED <<channel, acted>>,
         asked' = [asked EXCEPT ![handling[p][o].comment] = @ + 1],
         x = Idle \/ (\E a \in Answers[channel] :
           /\ ~a.silence /\ x.stage = "acting" /\ x.comment = handling[p][o].comment
           /\ x.actions = a.actions /\ x.left \subseteq DOMAIN a.actions)
  PROVE  AnswerInv'
<1> DEFINE c == handling[p][o].comment
<1>1. c \in Ids /\ TypeOK /\ IsMoved(p, o, x)
  BY BusyWithComment, OneMoves DEF OnceInv
<1>2. asked[c] = 0
  BY <1>1 DEF OnceInv, OneAsks, Asks
<1>3. acted[c] = <<>> /\ \A q \in Processes, n \in Origins : ~Acts(q, n, c)
  BY <1>1, <1>2 DEF AnswerInv, UnaskedIsUnacted, OneActs
<1>4. asked'[c] = 1 /\ \A d \in Ids : d # c => asked'[d] = asked[d]
  BY <1>1, <1>2 DEF TypeOK
<1>5. x.stage = "acting" => x.comment = c
  BY DEF Idle, At
<1>6. OneActs'
  <2>1. \A d \in Ids, q \in Processes, n \in Origins :
          Acts(q, n, d)' => (IF q = p /\ n = o THEN d = c ELSE d # c /\ Acts(q, n, d))
    BY <1>1, <1>3, <1>5 DEF Acts, IsMoved
  <2> QED
    BY <1>4, <2>1 DEF AnswerInv, OneActs
<1>7. ActsOnAnswer'
  <2> SUFFICES ASSUME NEW q \in Processes, NEW n \in Origins, handling'[q][n].stage = "acting"
               PROVE  \E a \in Answers[channel] :
                        /\ ~a.silence
                        /\ handling'[q][n].actions = a.actions
                        /\ handling'[q][n].left \subseteq DOMAIN a.actions
                        /\ Follows(acted'[handling'[q][n].comment], a, handling'[q][n].left)
    BY DEF ActsOnAnswer
  <2>1. CASE q = p /\ n = o
    <3>1. handling'[q][n] = x /\ x # Idle
      BY <1>1, <2>1 DEF IsMoved, Idle, At
    <3>2. PICK a \in Answers[channel] :
           /\ ~a.silence /\ x.comment = c
           /\ x.actions = a.actions /\ x.left \subseteq DOMAIN a.actions
      BY <3>1
    <3>3. Follows(acted'[c], a, x.left)
      BY <1>3, NothingFollows
    <3> QED
      BY <3>1, <3>2, <3>3
  <2>2. CASE q # p \/ n # o
    <3>1. handling[q][n].stage = "acting"
      BY <1>1, <2>2 DEF IsMoved
    <3> QED
      BY <1>1, <1>3, <2>2, <3>1, RestStays
  <2> QED
    BY <2>1, <2>2
<1>8. UnaskedIsUnacted' /\ ActedTypeOK' /\ ActsAsOneAnswer'
  BY <1>1, <1>4 DEF AnswerInv, UnaskedIsUnacted, ActedTypeOK, ActsAsOneAnswer
<1> QED
  BY <1>6, <1>7, <1>8 DEF AnswerInv

\* The next action, done or not.
LEMMA ActionKeepsInv ==
  ASSUME OnceInv, AnswerInv, NEW p \in Processes, NEW o \in Origins,
         handling[p][o].stage = "acting",
         NEW i \in NextActions(p, o), ActionDone(p, o, i), UNCHANGED <<channel, asked>>,
         acted' \in {acted, [acted EXCEPT ![handling[p][o].comment] =
                               Append(@, handling[p][o].actions[i])]}
  PROVE  AnswerInv'
<1> DEFINE h == handling[p][o]
           c == h.comment
<1>1. c \in Ids /\ TypeOK
  BY BusyWithComment DEF OnceInv
<1>2. PICK x \in Handlings :
        /\ Moves(p, o, x)
        /\ \/ x = Idle
           \/ /\ x.stage = "acting" /\ x.comment = c
              /\ x.actions = h.actions /\ x.left = h.left \ {i}
  BY <1>1, ActionMoves
<1>3. IsMoved(p, o, x)
  BY <1>1, <1>2, OneMoves
<1>4. PICK a \in Answers[channel] :
        /\ ~a.silence
        /\ h.actions = a.actions /\ h.left \subseteq DOMAIN a.actions
        /\ Follows(acted[c], a, h.left)
  BY DEF AnswerInv, ActsOnAnswer
<1>5. a.actions \in Seq(ActionTypes \union {"malformed"})
  BY <1>1, AnswersAssumption DEF TypeOK, RawAnswers
<1>6. acted[c] \in Seq(ActionTypes \union {"malformed"}) /\ acted \in [Ids -> Seq(ActionTypes \union {"malformed"})]
  BY <1>1 DEF AnswerInv, ActedTypeOK
<1>7. i \in h.left /\ (\A j \in h.left : i <= j) /\ i \in DOMAIN a.actions
  BY <1>4 DEF NextActions
<1>8. acted'[c] \in {acted[c], Append(acted[c], a.actions[i])} /\ \A d \in Ids : d # c => acted'[d] = acted[d]
  BY <1>1, <1>4, <1>6
<1>9. Follows(acted'[c], a, h.left \ {i})
  <2> DEFINE S == ActionTypes \union {"malformed"}
             done == acted[c]
             left == h.left
  <2>1. done \in Seq(S) /\ a.actions \in Seq(S)
    BY <1>5, <1>6
  <2>2. left \subseteq DOMAIN a.actions /\ i \in left /\ \A j \in left : i <= j
    BY <1>4, <1>7
  <2>3. Follows(done, a, left)
    BY <1>4
  <2> HIDE DEF S, done, left
  <2>4. Follows(done, a, left \ {i}) /\ Follows(Append(done, a.actions[i]), a, left \ {i})
    BY <2>1, <2>2, <2>3, NextFollows
  <2> QED
    BY <1>8, <2>4 DEF done, left
<1>10. ActedTypeOK'
  <2> DEFINE S == ActionTypes \union {"malformed"}
  <2>1. a.actions[i] \in S
    BY <1>5, <1>7
  <2>2. Append(acted[c], h.actions[i]) \in Seq(S)
    BY <1>4, <1>6, <2>1
  <2> HIDE DEF S
  <2> QED
    BY <1>1, <1>6, <2>2 DEF ActedTypeOK, S
<1>11. asked[c] > 0 /\ \A q \in Processes, n \in Origins : Acts(q, n, c) => q = p /\ n = o
  BY <1>1 DEF AnswerInv, OneActs, Acts
<1>12. \A d \in Ids, q \in Processes, n \in Origins : Acts(q, n, d)' => Acts(q, n, d)
  BY <1>2, <1>3 DEF Acts, IsMoved, Idle, At
<1>13. OneActs'
  BY <1>12 DEF AnswerInv, OneActs
<1>14. UnaskedIsUnacted'
  <2> SUFFICES ASSUME NEW d \in Ids, asked'[d] = 0
               PROVE  acted'[d] = <<>>
    BY DEF UnaskedIsUnacted
  <2>1. asked[d] = 0 /\ acted[d] = <<>>
    BY DEF AnswerInv, UnaskedIsUnacted
  <2>2. d # c
    <3> HIDE DEF c
    <3>1. asked[c] # 0
      BY <1>1, <1>11 DEF TypeOK
    <3> QED
      BY <2>1, <3>1
  <2> QED
    BY <1>8, <2>1, <2>2, Zenon
<1>15. ActsOnAnswer'
  <2> SUFFICES ASSUME NEW q \in Processes, NEW n \in Origins, handling'[q][n].stage = "acting"
               PROVE  \E b \in Answers[channel] :
                        /\ ~b.silence
                        /\ handling'[q][n].actions = b.actions
                        /\ handling'[q][n].left \subseteq DOMAIN b.actions
                        /\ Follows(acted'[handling'[q][n].comment], b, handling'[q][n].left)
    BY DEF ActsOnAnswer
  <2>1. CASE q = p /\ n = o
    <3>1. /\ handling'[q][n].comment = c /\ handling'[q][n].actions = h.actions
          /\ handling'[q][n].left = h.left \ {i}
      BY <1>2, <1>3, <2>1 DEF IsMoved, Idle, At
    <3> QED
      BY <1>4, <1>9, <3>1
  <2>2. CASE q # p \/ n # o
    <3>1. handling[q][n].stage = "acting"
      BY <1>3, <2>2 DEF IsMoved
    <3>2. \A d \in Ids : d # c => acted'[d] = acted[d]
      BY <1>8
    <3>3. \A r \in Processes, k \in Origins : Acts(r, k, c) => r = p /\ k = o
      BY <1>11
    <3>4. c \in Ids /\ TypeOK /\ UNCHANGED channel
      BY <1>1
    <3> HIDE DEF c, h
    <3>5. handling'[q][n] = handling[q][n]
      BY <1>3, <2>2 DEF IsMoved
    <3>6. handling[q][n].comment \in Ids /\ handling[q][n].comment # c
      BY <2>2, <3>1, <3>3, <3>4, BusyWithComment DEF Acts
    <3>7. acted'[handling'[q][n].comment] = acted[handling[q][n].comment]
      BY <3>2, <3>5, <3>6
    <3> QED
      BY <3>1, <3>4, <3>5, <3>7 DEF AnswerInv, ActsOnAnswer
  <2> QED
    BY <2>1, <2>2
<1>16. ActsAsOneAnswer'
  <2>1. IsPartOf(acted'[c], a.actions)
    BY <1>9, FollowsIsPart
  <2> QED
    BY <1>4, <1>8, <2>1 DEF AnswerInv, ActsAsOneAnswer, Ids
<1> QED
  BY <1>10, <1>13, <1>14, <1>15, <1>16 DEF AnswerInv

LEMMA AnswerInvHandle ==
  ASSUME OnceInv, AnswerInv, NEW p \in Processes, NEW o \in Origins, Handle(p, o)
  PROVE  AnswerInv'
<1>1. ASSUME NEW answer \in Answers[channel], EndpointAnswers(p, o, answer) PROVE AnswerInv'
  <2> DEFINE c == handling[p][o].comment
             acting == At(c, "acting", answer.actions, Normalized(answer))
             x == IF Normalized(answer) = {} THEN Idle ELSE acting
  <2>1. handling[p][o].stage = "asking" /\ TypeOK
    BY <1>1 DEF EndpointAnswers, OnceInv
  <2>2. c \in Ids
    BY <2>1, BusyWithComment
  <2>3. acting \in Handlings /\ Normalized(answer) \subseteq DOMAIN answer.actions
        /\ (Normalized(answer) # {} => ~answer.silence)
    BY <2>1, <2>2, AnsweredIsHandling
  <2>4. x \in Handlings
    BY <2>3 DEF Handlings
  <2>5. /\ Moves(p, o, x)
        /\ asked' = [asked EXCEPT ![c] = @ + 1] /\ UNCHANGED <<channel, acted>>
    BY <1>1 DEF EndpointAnswers, Moves
  <2>6. x = Idle \/ (/\ ~answer.silence /\ x.stage = "acting" /\ x.comment = c
                     /\ x.actions = answer.actions /\ x.left \subseteq DOMAIN answer.actions)
    BY <2>3 DEF At
  <2> HIDE DEF x, acting
  <2> QED
    BY <2>1, <2>4, <2>5, <2>6, AnswerKeepsInv
<1>2. CASE EndpointFails(p, o)
  <2>1. /\ handling[p][o].stage = "asking" /\ Idle \in Handlings
        /\ Moves(p, o, Idle)
        /\ asked' = [asked EXCEPT ![handling[p][o].comment] = @ + 1]
        /\ UNCHANGED <<channel, acted>>
    BY <1>2 DEF EndpointFails, Moves, Handlings
  <2> QED
    BY <2>1, AnswerKeepsInv
<1>3. ASSUME NEW i \in NextActions(p, o), Act(p, o, i) PROVE AnswerInv'
  <2> DEFINE c == handling[p][o].comment
             action == handling[p][o].actions[i]
  <2>1. /\ handling[p][o].stage = "acting" /\ ActionDone(p, o, i)
        /\ UNCHANGED <<channel, asked>>
        /\ acted' = [acted EXCEPT ![c] = IF Supported(action) THEN Append(@, action) ELSE @]
    BY <1>3 DEF Act
  <2>2. acted' \in {acted, [acted EXCEPT ![c] = Append(@, action)]}
    BY <2>1 DEF AnswerInv, ActedTypeOK
  <2> QED
    BY <2>1, <2>2, ActionKeepsInv
<1>4. ASSUME NEW i \in NextActions(p, o), ActionFails(p, o, i) PROVE AnswerInv'
  BY <1>4, ActionKeepsInv DEF ActionFails
<1> QED
  BY <1>1, <1>2, <1>3, <1>4 DEF Handle

\* Nobody begins to act where a handler begins to ask.
LEMMA AnswerInvEnter ==
  ASSUME TypeOK, AnswerInv, NEW p \in Processes, NEW o \in Origins, NEW c \in Ids,
         NEW verb, NEW named, Free(p, o), Enter(p, o, c, verb, named),
         UNCHANGED <<channel, asked, acted>>
  PROVE  AnswerInv'
<1>1. CASE UNCHANGED handling
  BY <1>1 DEF AnswerInv, ActedTypeOK, OneActs, UnaskedIsUnacted, ActsOnAnswer, ActsAsOneAnswer, Acts
<1>2. CASE ~UNCHANGED handling
  <2> DEFINE x == At(c, "asking", <<>>, {})
  <2>1. Moves(p, o, x) /\ x.stage = "asking"
    BY <1>2 DEF Enter, Moves, At
  <2>2. \A q \in Processes, n \in Origins :
          handling'[q][n].stage = "acting" => handling'[q][n] = handling[q][n]
    <3> HIDE DEF x
    <3> QED
      BY <2>1 DEF Moves, TypeOK, HandlingTypeOK
  <2>3. OneActs' /\ ActsOnAnswer'
    BY <2>2 DEF AnswerInv, OneActs, ActsOnAnswer, Acts
  <2>4. ActedTypeOK' /\ UnaskedIsUnacted' /\ ActsAsOneAnswer'
    BY DEF AnswerInv, ActedTypeOK, UnaskedIsUnacted, ActsAsOneAnswer
  <2> QED
    BY <2>3, <2>4 DEF AnswerInv
<1> QED
  BY <1>1, <1>2

LEMMA AnswerInvStep == OnceInv /\ AnswerInv /\ [Next]_vars => AnswerInv'
<1> SUFFICES ASSUME OnceInv, AnswerInv, [Next]_vars PROVE AnswerInv'
  OBVIOUS
<1>1. ASSUME UNCHANGED <<channel, handling, asked, acted>> PROVE AnswerInv'
  BY <1>1 DEF AnswerInv, ActedTypeOK, OneActs, UnaskedIsUnacted, ActsOnAnswer, ActsAsOneAnswer, Acts
<1>2. ASSUME NEW c \in Ids, Publish(c) PROVE AnswerInv'
  BY <1>1, <1>2 DEF Publish
<1>3. CASE Tick
  BY <1>1, <1>3 DEF Tick
<1>4. ASSUME NEW p \in Processes, NEW o \in Origins, Handle(p, o) PROVE AnswerInv'
  BY <1>4, AnswerInvHandle
<1>5. ASSUME NEW p \in Processes, NEW c \in Ids, WebhookArrives(p, c) \/ HandOver(p, c)
      PROVE  AnswerInv'
  BY <1>5, AnswerInvEnter DEF WebhookArrives, HandOver, Origins, OnceInv
<1>6. ASSUME NEW p \in Processes, Sweep(p) \/ Stop(p) PROVE AnswerInv'
  BY <1>1, <1>6 DEF Sweep, Stop
<1>7. CASE UNCHANGED vars
  BY <1>1, <1>7 DEF vars
<1>8. CASE PublishMedia
  BY <1>1, <1>8 DEF PublishMedia
<1> QED
  BY <1>2, <1>3, <1>4, <1>5, <1>6, <1>7, <1>8 DEF Next

-----------------------------------------------------------------------------
\* What is done on a comment is a part of what one answer asked for, in its order,
\* whichever actions fail or are passed over, and nothing after an answer of silence
\* (normalizeCommentChatResponse, CommentAgent.handleComment).
THEOREM CommentActsAsAnswered == ClaimTtl > MaxTime => (Spec => []ActsAsAnswered)
<1> SUFFICES ASSUME ClaimTtl > MaxTime PROVE Spec => []ActsAsAnswered
  OBVIOUS
<1>1. OnceInv /\ [Next]_vars => OnceInv'
  BY OnceInvStep
<1>2. AnswerInv => ActsAsAnswered
  BY DEF AnswerInv, ActsAsAnswered
<1> QED
  BY <1>1, <1>2, OnceInvInit, AnswerInvInit, AnswerInvStep, PTL DEF Spec

-----------------------------------------------------------------------------
(***************************************************************************)
(* Both stores implement the promise of a claim (ClaimWindow), for any     *)
(* message ids, callers, lifetime and window of redelivery.                *)
(***************************************************************************)

ClaimsTypeOK ==
  /\ day \in Nat
  /\ handles \in [MessageIds -> Int]
  /\ taker \in [MessageIds -> Callers \union {Nobody}]
  /\ until \in [MessageIds -> Nat]

\* What a store holds of an id is the end of its claim; it holds nothing of an id
\* whose claim, if there was one, is over.
HandleIsClaim ==
  \A i \in MessageIds: handles[i] = until[i] \/ (handles[i] = Stores!Absent /\ until[i] <= day)

\* Redis has no key whose time is over.
KeysExpire == onRedis => \A i \in MessageIds: handles[i] # Stores!Absent => handles[i] > day

StoresInv == ClaimsTypeOK /\ HandleIsClaim /\ KeysExpire

-----------------------------------------------------------------------------
LEMMA StoresInvInit == Stores!StoresAssumption /\ Stores!Init => StoresInv
BY DEF Stores!StoresAssumption, Stores!Init, StoresInv, ClaimsTypeOK, HandleIsClaim, KeysExpire, Stores!Absent

\* An id can be claimed exactly when the claim that it has is over.
LEMMA HeldUntilOver ==
  ASSUME StoresInv, NEW i \in MessageIds
  PROVE  Stores!IsHeld(i) <=> until[i] > day
<1>1. handles[i] \in Int /\ until[i] \in Nat /\ day \in Nat
  BY DEF StoresInv, ClaimsTypeOK
<1>2. handles[i] = until[i] \/ (handles[i] = Stores!Absent /\ until[i] <= day)
  BY DEF StoresInv, HandleIsClaim
<1>3. CASE onRedis
  BY <1>1, <1>2, <1>3 DEF Stores!IsHeld, StoresInv, KeysExpire, Stores!Absent
<1>4. CASE ~onRedis
  BY <1>1, <1>2, <1>4 DEF Stores!IsHeld, Stores!Absent
<1> QED
  BY <1>3, <1>4

\* The clock takes away only what is over.
LEMMA TickKeepsInv == StoresInv /\ Stores!Tick => StoresInv'
<1> SUFFICES ASSUME StoresInv, Stores!Tick PROVE StoresInv'
  OBVIOUS
<1> USE DEF StoresInv, Stores!Tick
<1>1. ClaimsTypeOK'
  BY DEF ClaimsTypeOK, Stores!Absent
<1>2. HandleIsClaim'
  BY DEF ClaimsTypeOK, HandleIsClaim, Stores!Absent
<1>3. KeysExpire'
  BY DEF ClaimsTypeOK, KeysExpire, Stores!Absent
<1> QED
  BY <1>1, <1>2, <1>3

LEMMA ClaimKeepsInv ==
  ASSUME Stores!StoresAssumption, StoresInv, NEW i \in MessageIds, NEW c \in Callers, Stores!Claim(i, c)
  PROVE  StoresInv'
<1> USE DEF StoresInv, Stores!Claim
<1>1. CASE Stores!IsHeld(i)
  BY <1>1 DEF ClaimsTypeOK, HandleIsClaim, KeysExpire
<1>2. CASE ~Stores!IsHeld(i)
  <2>1. day + DedupeTtl \in Nat /\ day + DedupeTtl > day /\ day' = day
    BY DEF ClaimsTypeOK, Stores!StoresAssumption
  <2>2. /\ handles' = [handles EXCEPT ![i] = day + DedupeTtl]
        /\ taker' = [taker EXCEPT ![i] = c]
        /\ until' = [until EXCEPT ![i] = day + DedupeTtl]
    BY <1>2
  <2>3. ClaimsTypeOK'
    BY <2>1, <2>2 DEF ClaimsTypeOK
  <2>4. HandleIsClaim' /\ KeysExpire'
    BY <2>1, <2>2 DEF ClaimsTypeOK, HandleIsClaim, KeysExpire
  <2> QED
    BY <2>3, <2>4
<1> QED
  BY <1>1, <1>2

LEMMA StoresInvStep == Stores!StoresAssumption /\ StoresInv /\ [Stores!Next]_storeVars => StoresInv'
<1> SUFFICES ASSUME Stores!StoresAssumption, StoresInv, [Stores!Next]_storeVars PROVE StoresInv'
  OBVIOUS
<1>1. CASE Stores!Tick
  BY <1>1, TickKeepsInv
<1>2. ASSUME NEW i \in MessageIds, NEW c \in Callers, Stores!Claim(i, c) PROVE StoresInv'
  BY <1>2, ClaimKeepsInv
<1>3. ASSUME NEW i \in MessageIds, Stores!Peek(i) PROVE StoresInv'
  BY <1>3 DEF Stores!Peek, StoresInv, ClaimsTypeOK, HandleIsClaim, KeysExpire
<1>4. CASE UNCHANGED storeVars
  BY <1>4 DEF storeVars, StoresInv, ClaimsTypeOK, HandleIsClaim, KeysExpire
<1> QED
  BY <1>1, <1>2, <1>3, <1>4 DEF Stores!Next

-----------------------------------------------------------------------------
\* Every step of a store is a step the promise allows, or none.
LEMMA StepIsPromised ==
  Stores!StoresAssumption /\ StoresInv /\ [Stores!Next]_storeVars => [Promise!Next]_<<day, taker, until>>
<1> SUFFICES ASSUME Stores!StoresAssumption, StoresInv, [Stores!Next]_storeVars
             PROVE  Promise!Next \/ UNCHANGED <<day, taker, until>>
  OBVIOUS
<1>1. CASE Stores!Tick
  BY <1>1 DEF Stores!Tick, Promise!Next, Promise!Tick
<1>2. ASSUME NEW i \in MessageIds, NEW c \in Callers, Stores!Claim(i, c)
      PROVE  Promise!Next \/ UNCHANGED <<day, taker, until>>
  <2>1. CASE Stores!IsHeld(i)
    BY <1>2, <2>1 DEF Stores!Claim
  <2>2. CASE ~Stores!IsHeld(i)
    <3>1. until[i] <= day
      BY <2>2, HeldUntilOver DEF StoresInv, ClaimsTypeOK
    <3>2. Promise!Grant(i, c)
      BY <1>2, <2>2, <3>1 DEF Stores!Claim, Promise!Grant
    <3> QED
      BY <3>2 DEF Promise!Next
  <2> QED
    BY <2>1, <2>2
<1>3. ASSUME NEW i \in MessageIds, Stores!Peek(i) PROVE UNCHANGED <<day, taker, until>>
  BY <1>3 DEF Stores!Peek
<1>4. CASE UNCHANGED storeVars
  BY <1>4 DEF storeVars
<1> QED
  BY <1>1, <1>2, <1>3, <1>4 DEF Stores!Next

\* The map that is compared with the clock and the keys that expire both implement
\* the promise: whoever asks for an id first has it, and nobody else until the
\* lifetime of that claim is over (claimInboundHandle of store.ts and redis-store.ts).
THEOREM StoresKeepThePromise == PartsSpec => KeepsThePromise
<1> DEFINE partVars == <<part, vars, webhookVars, gapVars, probeVars, storeVars, contactVars, accountVars>>
<1>1. PartsInit => StoresInv /\ Promise!Init
  BY StoresAssumption, StoresInvInit DEF PartsInit, Stores!Init, Promise!Init
<1>2. [PartsNext]_partVars => [Stores!Next]_storeVars
  BY DEF PartsNext, HandleComments, TakeWebhooks, WatchForGaps, AnswerProbes,
         ClaimHandles, LookUpContacts, RouteToAccounts
<1>3. StoresInv /\ [PartsNext]_partVars => StoresInv' /\ [Promise!Next]_Promise!vars
  BY <1>2, StoresAssumption, StoresInvStep, StepIsPromised DEF Promise!vars
<1> QED
  BY <1>1, <1>3, PTL DEF PartsSpec, KeepsThePromise, Promise!Spec

-----------------------------------------------------------------------------
(***************************************************************************)
(* A ready answer is true (ReadyIsTrue of HealthProbes), for any number of *)
(* probes beside each other and whatever the dependencies do.              *)
(***************************************************************************)

ProbesTypeOK ==
  /\ settings \in [url: BOOLEAN, required: BOOLEAN]
  /\ health \in [Probe!Dependencies -> Probe!Health]
  /\ stage \in [Probes -> Probe!Stages]
  /\ checks \in [Probes -> SUBSET Probe!Dependencies]
  /\ well \in [Probes -> SUBSET Probe!Dependencies]

\* A probe on its way saw whatever answers now, and has passed the scheduler only
\* if that failed or answered.
ProbeSaw(p) ==
  /\ stage[p] # "none" /\ ~Probe!Answered(p) => Probe!Well \subseteq well[p]
  /\ stage[p] = "ready: redis" => settings.url /\ ("scheduler" \in checks[p] \union well[p])

ProbesInv == ProbesTypeOK /\ \A p \in Probes : ProbeSaw(p)

LEMMA ProbesInvInit == Probe!Init => ProbesInv
BY DEF Probe!Init, ProbesInv, ProbesTypeOK, ProbeSaw, Probe!Dependencies, Probe!Health, Probe!Stages,
   Probe!Answered

\* A handler's step concerns its own probe.
LEMMA HandlerKeepsInv ==
  ASSUME ProbesInv, NEW p \in Probes, Probe!Request(p) \/ Probe!Handle(p)
  PROVE  ProbesInv'
<1> USE DEF ProbesInv
<1>1. /\ UNCHANGED <<settings, health>>
      /\ \E s \in Probe!Stages : stage' = [stage EXCEPT ![p] = s]
      /\ checks' = checks \/ \E f \in SUBSET Probe!Dependencies : checks' = [checks EXCEPT ![p] = f]
      /\ well' = well \/ well' = [well EXCEPT ![p] = Probe!Well]
  BY DEF Probe!Request, Probe!Handle, Probe!ReadyScheduler, Probe!ReadyRedis, Probe!QueueStats,
         Probe!Verdict, Probe!Stages, Probe!Dependencies
<1>2. ProbesTypeOK'
  BY <1>1 DEF ProbesTypeOK, Probe!Well
<1>3. \A q \in Probes \ {p} : stage'[q] = stage[q] /\ checks'[q] = checks[q] /\ well'[q] = well[q]
  BY <1>1 DEF ProbesTypeOK
<1>4. \A q \in Probes \ {p} : ProbeSaw(q)'
  BY <1>1, <1>3 DEF ProbeSaw, Probe!Answered, Probe!Well
<1>5. ProbeSaw(p)'
  <2>1. CASE Probe!Request(p)
    BY <2>1 DEF Probe!Request, ProbeSaw, Probe!Well, ProbesTypeOK
  <2>2. CASE Probe!ReadyScheduler(p)
    BY <2>2 DEF Probe!ReadyScheduler, Probe!Verdict, ProbeSaw, Probe!Well, Probe!Answered, ProbesTypeOK,
      Probe!Health, Probe!Dependencies
  <2>3. CASE Probe!ReadyRedis(p) \/ Probe!QueueStats(p)
    BY <2>3 DEF Probe!ReadyRedis, Probe!QueueStats, Probe!Verdict, ProbeSaw, Probe!Answered, ProbesTypeOK
  <2> QED
    BY <2>1, <2>2, <2>3 DEF Probe!Handle
<1> QED
  BY <1>2, <1>4, <1>5

LEMMA ChangeKeepsInv ==
  ASSUME ProbesInv, NEW d \in Probe!Dependencies, Probe!Change(d)
  PROVE  ProbesInv'
<1> USE DEF ProbesInv, Probe!Change
<1>1. ProbesTypeOK'
  BY DEF ProbesTypeOK
<1>2. ASSUME NEW p \in Probes PROVE ProbeSaw(p)'
  BY <1>2 DEF ProbesTypeOK, ProbeSaw, Probe!Well, Probe!Answered
<1> QED
  BY <1>1, <1>2

\* A probe that is answered 200 saw every dependency answer at some moment of the
\* probe, and a deployment without its required URL is never ready
\* (buildReadinessReport).
THEOREM ReadinessTrue == PartsSpec => ReadyIsTrue
<1> DEFINE partVars == <<part, vars, webhookVars, gapVars, probeVars, storeVars, contactVars, accountVars>>
<1>1. PartsInit => ProbesInv
  BY ProbesInvInit DEF PartsInit
<1>2. [PartsNext]_partVars => [Probe!Next]_probeVars
  BY DEF PartsNext, HandleComments, TakeWebhooks, WatchForGaps, AnswerProbes,
         ClaimHandles, LookUpContacts, RouteToAccounts
<1>3. ProbesInv /\ [Probe!Next]_probeVars => ProbesInv'
  BY HandlerKeepsInv, ChangeKeepsInv DEF Probe!Next, probeVars, ProbesInv, ProbesTypeOK, ProbeSaw,
    Probe!Answered, Probe!Well
<1>4. ASSUME ProbesInv, Probe!Next, NEW p \in Probes,
             stage[p] \in {"ready: scheduler", "ready: redis"}, stage'[p] = "200"
      PROVE  IF settings.url THEN Probe!Dependencies \subseteq well[p] ELSE ~settings.required
  <2>1. PICK q \in Probes : Probe!Request(q) \/ Probe!Handle(q)
    BY <1>4 DEF Probe!Next, Probe!Change
  <2>2. q = p
    BY <1>4, <2>1 DEF ProbesInv, ProbesTypeOK, Probe!Request, Probe!Handle, Probe!ReadyScheduler,
      Probe!ReadyRedis, Probe!QueueStats
  <2>3. CASE Probe!ReadyScheduler(p)
    BY <1>4, <2>3 DEF Probe!ReadyScheduler, Probe!Verdict, Probe!MissingUrl, ProbesInv, ProbesTypeOK
  <2>4. CASE Probe!ReadyRedis(p)
    <3>1. PICK failed \in {checks[p], checks[p] \union {"redis"}} :
            /\ "redis" \notin failed => health["redis"] = "answers"
            /\ stage' = [stage EXCEPT ![p] = Probe!Verdict(failed)]
      BY <2>4 DEF Probe!ReadyRedis
    <3>2. failed = {}
      BY <1>4, <3>1 DEF Probe!Verdict, ProbesInv, ProbesTypeOK
    <3>3. checks[p] = {} /\ health["redis"] = "answers"
      BY <3>1, <3>2
    <3>4. stage[p] = "ready: redis" /\ ProbeSaw(p)
      BY <1>4, <2>4 DEF Probe!ReadyRedis, ProbesInv
    <3>5. settings.url /\ "scheduler" \in well[p]
      BY <3>3, <3>4 DEF ProbeSaw
    <3>6. "redis" \in well[p]
      BY <3>3, <3>4 DEF ProbeSaw, Probe!Answered, Probe!Well, Probe!Dependencies
    <3> QED
      BY <3>5, <3>6 DEF Probe!Dependencies
  <2> QED
    BY <1>4, <2>1, <2>2, <2>3, <2>4 DEF Probe!Request, Probe!Handle, Probe!QueueStats, Probe!Answered
<1>5. ProbesInv /\ [Probe!Next]_probeVars => [part = "probes" => Probe!ReadyIsTrue]_probeVars
  BY <1>4 DEF Probe!ReadyIsTrue
<1> QED
  BY <1>1, <1>2, <1>3, <1>5, PTL DEF PartsSpec, ReadyIsTrue

-----------------------------------------------------------------------------
(***************************************************************************)
(* A channel that falls silent is alerted for, for any thresholds and      *)
(* intervals and through restarts (SilenceIsAlerted and AlertsAreSpaced of *)
(* GapMonitor).                                                            *)
(***************************************************************************)

Moments == Nat \union {Gap!Never}

MonitorTypeOK ==
  /\ clock \in Nat /\ upSince \in Moments /\ nextCheck \in Nat
  /\ lastReceiptAt \in [WatchedChannels -> Moments]
  /\ lastAlertAt \in [WatchedChannels -> Moments]
  /\ alarm \in [WatchedChannels -> Moments \X Moments]

\* The interval is neither late nor further away than its length.
CheckIsNear == Gap!IsUp => clock <= nextCheck /\ nextCheck <= clock + Interval

\* What the last check found of a channel that was heard of: it was not silent yet,
\* or an alert of less than a threshold before stands.
HeardChannel(c) ==
  /\ lastReceiptAt[c] <= clock
  /\ IF lastAlertAt[c] = Gap!Never
     THEN nextCheck - Interval - lastReceiptAt[c] < Threshold /\ alarm[c][2] <= lastReceiptAt[c]
     ELSE /\ lastAlertAt[c] = alarm[c][2] /\ alarm[c][2] >= lastReceiptAt[c] + Threshold
          /\ nextCheck - Interval - alarm[c][2] < Threshold

WatchedChannel(c) ==
  /\ alarm[c][2] <= clock
  /\ alarm[c][1] # Gap!Never => alarm[c][2] - alarm[c][1] >= Threshold
  /\ ~Gap!IsUp => lastReceiptAt[c] = Gap!Never
  /\ lastReceiptAt[c] # Gap!Never => HeardChannel(c)
  /\ lastReceiptAt[c] = Gap!Never => lastAlertAt[c] = Gap!Never

MonitorInv == MonitorTypeOK /\ CheckIsNear /\ \A c \in WatchedChannels : WatchedChannel(c)

LEMMA MonitorInvInit == Gap!Init => MonitorInv
BY GapAssumption DEF Gap!TimesAssumption, Gap!Init, MonitorInv, MonitorTypeOK, Moments, CheckIsNear,
   WatchedChannel, Gap!Forgotten, Gap!IsUp, Gap!Never

LEMMA CheckKeepsInv == MonitorInv /\ Gap!Check => MonitorInv'
<1> SUFFICES ASSUME MonitorInv, Gap!Check PROVE MonitorInv'
  OBVIOUS
<1> DEFINE alerted(c) == Gap!IsSilent(c) /\ Gap!IsDue(c)
<1>1. /\ Gap!IsUp /\ clock = nextCheck /\ nextCheck' = clock + Interval
      /\ UNCHANGED <<clock, upSince, lastReceiptAt>>
      /\ lastAlertAt' = [c \in WatchedChannels |-> IF alerted(c) THEN clock ELSE lastAlertAt[c]]
      /\ alarm' = [c \in WatchedChannels |-> IF alerted(c) THEN <<alarm[c][2], clock>> ELSE alarm[c]]
  <2>1. \A c \in WatchedChannels : c \in {d \in WatchedChannels : alerted(d)} <=> alerted(c)
    OBVIOUS
  <2> QED
    BY <2>1 DEF Gap!Check
<1>2. Interval \in Nat \ {0} /\ Threshold \in Nat \ {0}
  BY GapAssumption DEF Gap!TimesAssumption
<1>3. MonitorTypeOK'
  BY <1>1, <1>2 DEF MonitorInv, MonitorTypeOK, Moments
<1>4. CheckIsNear'
  BY <1>1, <1>2 DEF MonitorInv, MonitorTypeOK, CheckIsNear, Gap!IsUp
<1>5. ASSUME NEW c \in WatchedChannels PROVE WatchedChannel(c)'
  <2>1. /\ clock \in Nat /\ lastReceiptAt[c] \in Moments /\ lastAlertAt[c] \in Moments
        /\ alarm[c] \in Moments \X Moments /\ alarm[c][1] \in Moments /\ alarm[c][2] \in Moments
        /\ WatchedChannel(c)
    BY <1>5 DEF MonitorInv, MonitorTypeOK
  <2>2. CASE alerted(c)
    <3>1. lastAlertAt'[c] = clock /\ alarm'[c] = <<alarm[c][2], clock>>
      BY <1>1, <1>5, <2>2
    <3>2. alarm'[c][1] = alarm[c][2] /\ alarm'[c][2] = clock
      BY <3>1
    <3> QED
      BY <1>1, <1>2, <2>1, <2>2, <3>1, <3>2 DEF Gap!IsSilent, Gap!IsDue, WatchedChannel, HeardChannel, Gap!IsUp,
        Moments, Gap!Never
  <2>3. CASE ~alerted(c)
    <3>1. lastAlertAt'[c] = lastAlertAt[c] /\ alarm'[c] = alarm[c]
      BY <1>1, <1>5, <2>3
    <3> QED
      BY <1>1, <1>2, <2>1, <2>3, <3>1 DEF Gap!IsSilent, Gap!IsDue, WatchedChannel, HeardChannel, Gap!IsUp,
        Moments, Gap!Never
  <2> QED
    BY <2>2, <2>3
<1> QED
  BY <1>3, <1>4, <1>5 DEF MonitorInv

LEMMA ReceiptKeepsInv ==
  ASSUME MonitorInv, NEW c \in WatchedChannels, Gap!RecordReceipt(c)
  PROVE  MonitorInv'
<1> USE GapAssumption DEF Gap!RecordReceipt, MonitorInv
<1>1. MonitorTypeOK'
  BY DEF MonitorTypeOK, Moments, Gap!Never
<1>2. CheckIsNear'
  BY DEF CheckIsNear, Gap!IsUp
<1>3. ASSUME NEW d \in WatchedChannels PROVE WatchedChannel(d)'
  <2>1. /\ clock \in Nat /\ nextCheck \in Nat /\ alarm[d][1] \in Moments /\ alarm[d][2] \in Moments
        /\ alarm[d] \in Moments \X Moments /\ Interval \in Nat /\ Threshold \in Nat \ {0} /\ WatchedChannel(d)
    BY <1>3 DEF MonitorTypeOK, Gap!TimesAssumption
  <2>2. CASE d = c
    <3>1. lastReceiptAt'[d] = clock /\ lastAlertAt'[d] = Gap!Never
      BY <1>3, <2>2 DEF MonitorTypeOK
    <3> QED
      BY <2>1, <3>1 DEF WatchedChannel, HeardChannel, CheckIsNear, Gap!IsUp, Gap!Never
  <2>3. CASE d # c
    <3>1. lastReceiptAt'[d] = lastReceiptAt[d] /\ lastAlertAt'[d] = lastAlertAt[d]
      BY <1>3, <2>3 DEF MonitorTypeOK
    <3> QED
      BY <2>1, <3>1 DEF WatchedChannel, HeardChannel, Gap!IsUp
  <2> QED
    BY <2>2, <2>3
<1> QED
  BY <1>1, <1>2, <1>3

LEMMA ProcessKeepsInv == MonitorInv /\ (Gap!Crash \/ Gap!Boot \/ Gap!Tick) => MonitorInv'
<1> SUFFICES ASSUME MonitorInv, Gap!Crash \/ Gap!Boot \/ Gap!Tick PROVE MonitorInv'
  OBVIOUS
<1> USE GapAssumption DEF MonitorInv, Gap!TimesAssumption, Gap!Never
<1>1. CASE Gap!Crash
  <2>1. MonitorTypeOK' /\ CheckIsNear'
    BY <1>1 DEF Gap!Crash, MonitorTypeOK, Moments, CheckIsNear, Gap!Forgotten, Gap!IsUp
  <2>2. ASSUME NEW c \in WatchedChannels PROVE WatchedChannel(c)'
    BY <1>1, <2>2 DEF Gap!Crash, WatchedChannel, Gap!Forgotten, Gap!IsUp
  <2> QED
    BY <2>1, <2>2
<1>2. CASE Gap!Boot
  <2>1. MonitorTypeOK' /\ CheckIsNear'
    BY <1>2 DEF Gap!Boot, MonitorTypeOK, Moments, CheckIsNear, Gap!IsUp
  <2>2. ASSUME NEW c \in WatchedChannels PROVE WatchedChannel(c)'
    BY <1>2, <2>2 DEF Gap!Boot, WatchedChannel, Gap!IsUp
  <2> QED
    BY <2>1, <2>2
<1>3. CASE Gap!Tick
  <2>1. MonitorTypeOK' /\ CheckIsNear'
    BY <1>3 DEF Gap!Tick, MonitorTypeOK, Moments, CheckIsNear, Gap!IsUp
  <2>2. ASSUME NEW c \in WatchedChannels PROVE WatchedChannel(c)'
    <3>1. /\ clock \in Nat /\ lastReceiptAt[c] \in Moments /\ alarm[c] \in Moments \X Moments
          /\ alarm[c][2] \in Moments /\ WatchedChannel(c)
      BY <2>2 DEF MonitorTypeOK
    <3> QED
      BY <1>3, <3>1 DEF Gap!Tick, WatchedChannel, HeardChannel, Gap!IsUp, Moments
  <2> QED
    BY <2>1, <2>2
<1> QED
  BY <1>1, <1>2, <1>3

\* Whatever webhooks, crashes and boots come in between, a silence in the life of
\* the process is alerted for within one check of each threshold, and no two alerts
\* of a channel are less than a threshold apart (WebhookGapMonitor.check).
THEOREM SilenceAlerted == PartsSpec => []SilenceIsAlerted
<1> DEFINE partVars == <<part, vars, webhookVars, gapVars, probeVars, storeVars, contactVars, accountVars>>
<1>1. PartsInit => MonitorInv
  BY MonitorInvInit DEF PartsInit
<1>2. [PartsNext]_partVars => [Gap!Next]_gapVars
  BY DEF PartsNext, HandleComments, TakeWebhooks, WatchForGaps, AnswerProbes,
         ClaimHandles, LookUpContacts, RouteToAccounts
<1>3. MonitorInv /\ [Gap!Next]_gapVars => MonitorInv'
  <2>1. MonitorInv /\ UNCHANGED gapVars => MonitorInv'
    BY DEF gapVars, MonitorInv, MonitorTypeOK, CheckIsNear, WatchedChannel, HeardChannel, Gap!IsUp
  <2> QED
    BY <2>1, CheckKeepsInv, ReceiptKeepsInv, ProcessKeepsInv DEF Gap!Next
<1>4. MonitorInv => SilenceIsAlerted
  <2> SUFFICES ASSUME MonitorInv PROVE Gap!SilenceIsAlerted /\ Gap!AlertsAreSpaced
    BY DEF SilenceIsAlerted
  <2>1. ASSUME NEW c \in WatchedChannels, Gap!IsUp, lastReceiptAt[c] # Gap!Never
        PROVE  Gap!AlertedSince(c, lastReceiptAt[c])
    <3>1. /\ clock \in Nat /\ nextCheck \in Nat /\ lastReceiptAt[c] \in Nat /\ alarm[c][2] \in Moments
          /\ Interval \in Nat /\ Threshold \in Nat /\ clock <= nextCheck /\ HeardChannel(c)
      BY <2>1, GapAssumption DEF Gap!TimesAssumption, MonitorInv, MonitorTypeOK, Moments, CheckIsNear,
        WatchedChannel
    <3> QED
      BY <3>1 DEF HeardChannel, Gap!AlertedSince, Moments, Gap!Never
  <2>2. Gap!AlertsAreSpaced
    BY DEF MonitorInv, WatchedChannel, Gap!AlertsAreSpaced
  <2> QED
    BY <2>1, <2>2 DEF Gap!SilenceIsAlerted
<1> QED
  BY <1>1, <1>2, <1>3, <1>4, PTL DEF PartsSpec

-----------------------------------------------------------------------------
(***************************************************************************)
(* Whose contact a conversation has and whose account answers it           *)
(* (RightParties), for any users, businesses, accounts and edits of the    *)
(* environment.                                                            *)
(***************************************************************************)

\* A contact that the resolver may hold for a user, or none.
OwnOrNone(user) == {Lookup!NoContact} \union [of: {user}, name: ContactNames]

ContactsInv ==
  /\ DOMAIN contact = Lookup!Conversations /\ DOMAIN cache = Users
  /\ \A c \in Lookup!Conversations : contact[c] \in OwnOrNone(c[1])
  /\ \A u \in Users : cache[u] \in OwnOrNone(u)

LEMMA ContactsInvStep == ContactsInv /\ [Lookup!Next]_contactVars => ContactsInv'
<1> SUFFICES ASSUME ContactsInv, [Lookup!Next]_contactVars PROVE ContactsInv'
  OBVIOUS
<1>1. CASE Lookup!Restart
  BY <1>1 DEF Lookup!Restart, ContactsInv, OwnOrNone
<1>2. ASSUME NEW c \in Lookup!Conversations, Lookup!Inbound(c) PROVE ContactsInv'
  <2>1. c[1] \in Users
    BY <1>2 DEF Lookup!Conversations
  <2>2. UNCHANGED cache /\ (UNCHANGED contact \/ contact' = [contact EXCEPT ![c] = cache[c[1]]])
    BY <1>2 DEF Lookup!Inbound, Lookup!ContactKey
  <2> QED
    BY <2>1, <2>2 DEF ContactsInv
<1>3. ASSUME NEW c \in Lookup!Conversations, NEW name \in Lookup!Replies, Lookup!Answer(c, name)
      PROVE  ContactsInv'
  <2>1. c[1] \in Users
    BY <1>3 DEF Lookup!Conversations
  <2>2. Lookup!ShapeContact(c[1], name) \in OwnOrNone(c[1])
    BY <1>3 DEF Lookup!ShapeContact, Lookup!Replies, OwnOrNone
  <2>3. \/ UNCHANGED <<contact, cache>>
        \/ /\ cache' = [cache EXCEPT ![c[1]] = Lookup!ShapeContact(c[1], name)]
           /\ contact' = [contact EXCEPT ![c] = Lookup!ShapeContact(c[1], name)]
    BY <1>3 DEF Lookup!Answer, Lookup!ContactKey
  <2> QED
    BY <2>1, <2>2, <2>3 DEF ContactsInv
<1>4. ASSUME NEW c \in Lookup!Conversations, Lookup!Expire(c) PROVE ContactsInv'
  BY <1>4 DEF Lookup!Expire, ContactsInv, OwnOrNone
<1>5. CASE UNCHANGED contactVars
  BY <1>5 DEF contactVars, ContactsInv
<1> QED
  BY <1>1, <1>2, <1>3, <1>4, <1>5 DEF Lookup!Next

\* A process that is up has loaded the lines as they are, and had nothing to refuse.
AccountsInv ==
  /\ lines \in [Channels -> [AccountNames -> Routing!Line]]
  /\ process = "up" => ~Routing!Throws /\ accounts = [c \in Channels |-> Routing!Loaded(c)]

LEMMA AccountsInvStep == AccountsInv /\ [Routing!Next]_accountVars => AccountsInv'
<1> SUFFICES ASSUME AccountsInv, [Routing!Next]_accountVars PROVE AccountsInv'
  OBVIOUS
<1> USE DEF AccountsInv
<1>1. CASE Routing!Boot
  BY <1>1 DEF Routing!Boot, Routing!Throws, Routing!Loaded, Routing!Declared, Routing!Discovered,
    Routing!IsPartial, Routing!HasDuplicate, Routing!SecretOf, Routing!TokenOf
<1>2. CASE Routing!Shutdown
  BY <1>2 DEF Routing!Shutdown
<1>3. ASSUME NEW c \in Channels, NEW n \in AccountNames, NEW line \in Routing!Line, Routing!Edit(c, n, line)
      PROVE  AccountsInv'
  BY <1>3 DEF Routing!Edit
<1>4. CASE UNCHANGED accountVars
  BY <1>4 DEF accountVars, Routing!Throws, Routing!Loaded, Routing!Declared, Routing!Discovered,
    Routing!IsPartial, Routing!HasDuplicate, Routing!SecretOf, Routing!TokenOf
<1> QED
  BY <1>1, <1>2, <1>3, <1>4 DEF Routing!Next

\* What is loaded of a suffix is its own lines, and these are whole.
LEMMA LoadedIsWhole ==
  ASSUME AccountsInv, process = "up", NEW c \in Channels, NEW a \in accounts[c]
  PROVE  /\ a.name \in Routing!Declared(c) /\ a.name \in AccountNames
         /\ a.id = lines[c][a.name].id /\ a.token = a.name /\ a.secret = Routing!SecretOf(c, a.name)
         /\ a.id # Routing!NotSet /\ lines[c][a.name].token
<1>1. PICK n \in Routing!Declared(c) :
        a = [name |-> n, id |-> lines[c][n].id, token |-> n, secret |-> Routing!SecretOf(c, n)]
  BY DEF AccountsInv, Routing!Loaded, Routing!TokenOf
<1>2. n \in AccountNames /\ lines[c][n].id # Routing!NotSet
  BY AccountsAssumption DEF Routing!BareAssumption, Routing!Declared, Routing!Discovered
<1>3. lines[c][n].token
  <2>1. n = Bare => lines[c][n].token
    BY DEF Routing!Declared, Routing!Discovered
  <2>2. n # Bare => n \in Routing!Discovered(c)
    BY DEF Routing!Declared
  <2>3. n # Bare => ~Routing!IsPartial(c, n)
    BY <2>2 DEF AccountsInv, Routing!Throws
  <2>4. lines[c][n].token \in BOOLEAN
    BY <1>2 DEF AccountsInv, Routing!Line
  <2> QED
    BY <1>2, <2>1, <2>3, <2>4 DEF Routing!IsPartial
<1> QED
  BY <1>1, <1>2, <1>3

\* No two accounts of a channel have the same id.
LEMMA IdsDiffer ==
  ASSUME AccountsInv, process = "up", NEW c \in Channels, NEW a \in accounts[c], NEW b \in accounts[c],
         a.id = b.id
  PROVE  a = b
<1>1. /\ a.name \in Routing!Declared(c) /\ b.name \in Routing!Declared(c)
      /\ a.id = lines[c][a.name].id /\ b.id = lines[c][b.name].id
  BY LoadedIsWhole
<1>2. a.name = b.name
  <2>1. ~Routing!HasDuplicate(c)
    BY DEF AccountsInv, Routing!Throws
  <2> QED
    BY <1>1, <2>1 DEF Routing!HasDuplicate
<1>3. /\ a \in Routing!Loaded(c) /\ b \in Routing!Loaded(c)
  BY DEF AccountsInv
<1> QED
  BY <1>2, <1>3 DEF Routing!Loaded

LEMMA AddressedAnswer == AccountsInv => Routing!AnswersAsAddressed
<1> SUFFICES ASSUME AccountsInv, process = "up", NEW c \in Channels, NEW id \in BusinessIds
             PROVE  /\ \A a, b \in Routing!Resolve(c, id) : a = b
                    /\ \A a \in Routing!Resolve(c, id) :
                         /\ a.token = a.name /\ lines[c][a.name].token
                         /\ a.id = lines[c][a.name].id
                         /\ accounts[c] # {a} => a.id = id
  BY DEF Routing!AnswersAsAddressed
<1>1. ASSUME NEW a \in Routing!Resolve(c, id)
      PROVE  a \in accounts[c] /\ (accounts[c] # {a} => a.id = id)
  BY <1>1 DEF Routing!Resolve
<1>2. ASSUME NEW a \in Routing!Resolve(c, id), NEW b \in Routing!Resolve(c, id) PROVE a = b
  <2>1. accounts[c] = {a} \/ accounts[c] = {b} \/ a.id = b.id
    BY <1>1, <1>2
  <2> QED
    BY <1>1, <1>2, <2>1, IdsDiffer
<1> QED
  BY <1>1, <1>2, LoadedIsWhole

LEMMA DeclaredIsServed == AccountsInv => Routing!DeclaredIdsAreServed
<1> SUFFICES ASSUME AccountsInv, process = "up", NEW c \in Channels, NEW n \in AccountNames,
                    lines[c][n].id # Routing!NotSet
             PROVE  \E a \in Routing!Resolve(c, lines[c][n].id) : a.name = n /\ lines[c][n].token
  BY DEF Routing!DeclaredIdsAreServed
<1>1. lines[c][n].token
  <2>1. ~Routing!IsPartial(c, n)
    BY DEF AccountsInv, Routing!Throws, Routing!Discovered
  <2>2. lines[c][n].token \in BOOLEAN
    BY DEF AccountsInv, Routing!Line
  <2> QED
    BY <2>1, <2>2 DEF Routing!IsPartial
<1>2. n \in Routing!Declared(c)
  BY <1>1 DEF Routing!Declared, Routing!Discovered
<1>3. PICK a \in accounts[c] : a.name = n /\ a.id = lines[c][n].id
  <2> DEFINE own == [name |-> n, id |-> lines[c][n].id, token |-> n, secret |-> Routing!SecretOf(c, n)]
  <2>1. own \in accounts[c]
    BY <1>2 DEF AccountsInv, Routing!Loaded, Routing!TokenOf
  <2>2. own.name = n /\ own.id = lines[c][n].id
    OBVIOUS
  <2> QED
    BY <2>1, <2>2
<1>4. a \in Routing!Resolve(c, lines[c][n].id)
  BY <1>3 DEF Routing!Resolve
<1> QED
  BY <1>1, <1>3, <1>4

LEMMA OwnSecretTried == AccountsInv => Routing!OwnSecretIsTried
<1> SUFFICES ASSUME AccountsInv, process = "up", NEW a \in accounts["instagram"], NEW s \in {a.name, Bare},
                    lines["instagram"][s].secret, s = a.name \/ ~lines["instagram"][a.name].secret
             PROVE  s \in Routing!SignatureSecrets
  BY DEF Routing!OwnSecretIsTried
<1>1. "instagram" \in Channels /\ Bare \in AccountNames /\ Routing!NotSet \notin AccountNames
  BY AccountsAssumption DEF Routing!BareAssumption, Routing!ChannelsAssumption
<1>2. a.name \in AccountNames /\ a.secret = Routing!SecretOf("instagram", a.name)
  BY <1>1, LoadedIsWhole
<1>3. a.secret = s
  BY <1>2 DEF Routing!SecretOf
<1>4. a \in UNION {accounts[c] : c \in Channels} /\ a.secret # Routing!NotSet
  BY <1>1, <1>2, <1>3
<1> QED
  BY <1>3, <1>4 DEF Routing!SignatureSecrets

\* A conversation has its own user's contact, through a cache that several businesses
\* share, and is answered by the account its business id belongs to, whatever the
\* operator edits between two lives of the process (ContactStore, loadConfig,
\* AdapterRegistry.resolve).
THEOREM PartiesAreRight == PartsSpec => []RightParties
<1> DEFINE partVars == <<part, vars, webhookVars, gapVars, probeVars, storeVars, contactVars, accountVars>>
<1>1. PartsInit => ContactsInv /\ AccountsInv
  <2>1. Lookup!Init => ContactsInv
    BY DEF Lookup!Init, ContactsInv, OwnOrNone, Lookup!Conversations
  <2>2. Routing!Init => AccountsInv
    BY DEF Routing!Init, AccountsInv, Routing!EmptyLine, Routing!Line
  <2> QED
    BY <2>1, <2>2 DEF PartsInit
<1>2. [PartsNext]_partVars => [Lookup!Next]_contactVars /\ [Routing!Next]_accountVars
  BY DEF PartsNext, HandleComments, TakeWebhooks, WatchForGaps, AnswerProbes,
         ClaimHandles, LookUpContacts, RouteToAccounts
<1>3. ContactsInv /\ AccountsInv /\ [PartsNext]_partVars => ContactsInv' /\ AccountsInv'
  BY <1>2, ContactsInvStep, AccountsInvStep
<1>4. ContactsInv => Lookup!OwnContact
  BY DEF ContactsInv, OwnOrNone, Lookup!OwnContact, Lookup!NoContact
<1>5. ContactsInv /\ AccountsInv => RightParties
  BY <1>4, AddressedAnswer, DeclaredIsServed, OwnSecretTried DEF RightParties
<1> QED
  BY <1>1, <1>3, <1>5, PTL DEF PartsSpec

-----------------------------------------------------------------------------
(***************************************************************************)
(* Each message is taken once and in the order of its payload, and none is *)
(* mistaken for another (TakenOnceInOrder), for any payloads that keep to  *)
(* what the platform is taken to promise of its ids, any number of         *)
(* deliveries at once, shutdowns and restarts.                             *)
(***************************************************************************)

\* The module's own Cardinality is that of FiniteSets.
LEMMA SameCardinality == \A S : Webhook!Cardinality(S) = Cardinality(S)
BY DEF Webhook!Cardinality, Cardinality

LEMMA LessIsStrict == \A a, b \in Nat : a < b => a # b /\ ~(b < a)
OBVIOUS

\* A set of numbers that is not empty has a least one.
LEMMA LeastOne == ASSUME NEW T, T \subseteq Nat, T # {} PROVE \E x \in T : \A y \in T : x <= y
<1> DEFINE R == {p \in Nat \X Nat : p[1] < p[2]}
<1>1. R = OpToRel(<, Nat)
  BY DEF OpToRel
<1>2. IsWellFoundedOn(R, Nat)
  BY <1>1, NatLessThanWellFounded
<1>3. PICK x \in T : \A y \in T : <<y, x>> \notin R
  <2> HIDE DEF R
  <2> QED
    BY <1>2, WFMin
<1>4. ASSUME NEW y \in T PROVE x <= y
  <2>1. x \in Nat /\ y \in Nat
    BY <1>4
  <2>2. ~(y < x)
    BY <1>3, <1>4, <2>1
  <2> QED
    BY <2>1, <2>2
<1> QED
  BY <1>4

\* The places of a payload.
LEMMA PlacesAreNumbers ==
  ASSUME NEW p \in Payloads
  PROVE  /\ DOMAIN p = 1 .. Len(p) /\ DOMAIN p \subseteq Nat
         /\ \A i \in DOMAIN p : p[i].kind \in Webhook!Kinds
         /\ Webhook!Messages(p) \subseteq DOMAIN p /\ Webhook!Statuses(p) \subseteq DOMAIN p
         /\ Webhook!Messages(p) \intersect Webhook!Statuses(p) = {}
BY PlatformAssumption DEF Webhook!PayloadsAssumption, Webhook!Messages, Webhook!Statuses

\* The counter of the events that the parser has no case for tells them apart.
LEMMA NthTellsApart ==
  ASSUME NEW p \in Payloads, NEW i \in DOMAIN p, NEW j \in DOMAIN p,
         p[i].kind = "unknown", p[j].kind = "unknown", Webhook!Nth(p, i) = Webhook!Nth(p, j)
  PROVE  i = j
<1> DEFINE U(k) == {m \in 1 .. k : p[m].kind = "unknown"}
<1>1. i \in Nat /\ j \in Nat /\ i >= 1 /\ j >= 1
  BY PlacesAreNumbers
<1>2. Cardinality(U(i)) = Cardinality(U(j))
  BY SameCardinality DEF Webhook!Nth
<1>3. i \in U(i) /\ j \in U(j)
  BY <1>1
<1>4. ASSUME NEW k \in Nat, NEW m \in Nat, k < m, m \in U(m), Cardinality(U(k)) = Cardinality(U(m))
      PROVE  FALSE
  <2>1. IsFiniteSet(1 .. m)
    BY FS_Interval
  <2>2. IsFiniteSet(U(m))
    BY <2>1, FS_Subset
  <2>3. U(k) \subseteq U(m) /\ m \notin U(k)
    BY <1>4
  <2> QED
    BY <1>4, <2>2, <2>3, FS_Subset
<1> QED
  BY <1>1, <1>2, <1>3, <1>4

\* Two messages have one handle exactly when they are one event.
LEMMA HandlesTellApart ==
  ASSUME NEW p \in Payloads, NEW q \in Payloads,
         NEW i \in Webhook!Messages(p), NEW j \in Webhook!Messages(q)
  PROVE  Webhook!HandleOf(p, i) = Webhook!HandleOf(q, j) <=> p[i] = q[j]
<1>1. /\ i \in DOMAIN p /\ j \in DOMAIN q
      /\ p[i].kind \in {"message", "postback", "unknown", "reaction"}
      /\ q[j].kind \in {"message", "postback", "unknown", "reaction"}
  BY PlacesAreNumbers DEF Webhook!Messages, Webhook!Kinds
<1>2. Webhook!HandleOf(p, i) =
        CASE p[i].kind = "message"  -> Webhook!MessageHandle(p[i])
          [] p[i].kind = "postback" -> Webhook!PostbackHandle(p[i])
          [] p[i].kind = "unknown"  -> Webhook!UnknownHandle(p, i)
          [] p[i].kind = "reaction" -> Webhook!ReactionHandle(p[i])
  BY <1>1 DEF Webhook!HandleOf
<1>3. Webhook!HandleOf(q, j) =
        CASE q[j].kind = "message"  -> Webhook!MessageHandle(q[j])
          [] q[j].kind = "postback" -> Webhook!PostbackHandle(q[j])
          [] q[j].kind = "unknown"  -> Webhook!UnknownHandle(q, j)
          [] q[j].kind = "reaction" -> Webhook!ReactionHandle(q[j])
  BY <1>1 DEF Webhook!HandleOf
<1>4. ASSUME p[i] = q[j] PROVE Webhook!HandleOf(p, i) = Webhook!HandleOf(q, j)
  <2>1. p = q
    BY <1>1, <1>4, PlatformAssumption DEF Webhook!BatchesAssumption
  <2>2. p[i].kind = "unknown" => i = j
    BY <1>1, <1>4, PlatformAssumption DEF Webhook!MomentsAssumption
  <2> QED
    BY <1>1, <1>2, <1>3, <1>4, <2>1, <2>2 DEF Webhook!MessageHandle, Webhook!PostbackHandle,
      Webhook!ReactionHandle
<1>5. ASSUME Webhook!HandleOf(p, i) = Webhook!HandleOf(q, j) PROVE p[i] = q[j]
  <2> USE DEF Webhook!MessageHandle, Webhook!PostbackHandle, Webhook!UnknownHandle, Webhook!ReactionHandle
  <2>1. CASE p[i].kind = "message"
    <3>1. q[j].kind = "message" /\ p[i].id = q[j].id
      BY <1>1, <1>2, <1>3, <1>5, <2>1
    <3> QED
      BY <1>1, <3>1, PlatformAssumption DEF Webhook!EventsAssumption
  <2>2. CASE p[i].kind = "postback"
    <3>1. q[j].kind = "postback" /\ p[i].business = q[j].business /\ p[i].stamp = q[j].stamp
      BY <1>1, <1>2, <1>3, <1>5, <2>2
    <3> QED
      BY <1>1, <2>2, <3>1, PlatformAssumption DEF Webhook!MomentsAssumption
  <2>3. CASE p[i].kind = "unknown"
    <3>1. /\ q[j].kind = "unknown" /\ p[i].business = q[j].business /\ p[i].stamp = q[j].stamp
          /\ Webhook!Nth(p, i) = Webhook!Nth(q, j)
      BY <1>1, <1>2, <1>3, <1>5, <2>3
    <3>2. p = q
      BY <1>1, <2>3, <3>1, PlatformAssumption DEF Webhook!MomentsAssumption
    <3> QED
      BY <1>1, <2>3, <3>1, <3>2, NthTellsApart
  <2>4. CASE p[i].kind = "reaction"
    <3>1. /\ q[j].kind = "reaction" /\ p[i].user = q[j].user /\ p[i].target = q[j].target
          /\ p[i].action = q[j].action
      BY <1>1, <1>2, <1>3, <1>5, <2>4
    <3> QED
      BY <1>1, <2>4, <3>1, PlatformAssumption DEF Webhook!MomentsAssumption
  <2> QED
    BY <1>1, <2>1, <2>2, <2>3, <2>4
<1> QED
  BY <1>4, <1>5

\* Of the items with one handle the first is kept.
LEMMA FirstIsKept ==
  ASSUME NEW p \in Payloads, NEW items, items \subseteq Nat, NEW i \in items
  PROVE  \E k \in Webhook!DedupeById(p, items) :
           k <= i /\ Webhook!HandleOf(p, k) = Webhook!HandleOf(p, i)
<1> DEFINE same == {k \in items : Webhook!HandleOf(p, k) = Webhook!HandleOf(p, i)}
<1>1. PICK k \in same : \A j \in same : k <= j
  BY LeastOne
<1>2. \A j \in items : j < k => Webhook!HandleOf(p, j) # Webhook!HandleOf(p, k)
  BY <1>1
<1> QED
  BY <1>1, <1>2 DEF Webhook!DedupeById

\* Each message is kept at its first place.
LEMMA MessageIsKept ==
  ASSUME NEW p \in Payloads, NEW i \in Webhook!Messages(p)
  PROVE  \E k \in Webhook!DedupeById(p, Webhook!Messages(p)) : k <= i /\ p[k] = p[i]
<1>1. PICK k \in Webhook!DedupeById(p, Webhook!Messages(p)) :
        k <= i /\ Webhook!HandleOf(p, k) = Webhook!HandleOf(p, i)
  BY FirstIsKept, PlacesAreNumbers
<1>2. k \in Webhook!Messages(p)
  BY DEF Webhook!DedupeById
<1> QED
  BY <1>1, <1>2, HandlesTellApart

\* The parser drops no event.
LEMMA ParserDropsNothing ==
  ASSUME NEW p \in Payloads
  PROVE  /\ Webhook!Parsed[p] \subseteq DOMAIN p
         /\ Webhook!EventsOf(p, DOMAIN p) \ Webhook!EventsOf(p, Webhook!Parsed[p]) = {}
<1>1. Webhook!Parsed[p] = Webhook!DedupeById(p, Webhook!Messages(p))
                            \union Webhook!DedupeById(p, Webhook!Statuses(p))
  BY DEF Webhook!Parsed
<1>2. Webhook!Parsed[p] \subseteq DOMAIN p
  BY <1>1, PlacesAreNumbers DEF Webhook!DedupeById
<1>3. ASSUME NEW i \in DOMAIN p PROVE \E k \in Webhook!Parsed[p] : p[k] = p[i]
  <2>1. CASE i \in Webhook!Messages(p)
    BY <1>1, <2>1, MessageIsKept
  <2>2. CASE i \in Webhook!Statuses(p)
    <3>1. PICK k \in Webhook!DedupeById(p, Webhook!Statuses(p)) :
            k <= i /\ Webhook!HandleOf(p, k) = Webhook!HandleOf(p, i)
      BY <2>2, FirstIsKept, PlacesAreNumbers
    <3>2. /\ k \in Webhook!Statuses(p) /\ k \in DOMAIN p
          /\ p[k].kind = "status" /\ p[i].kind = "status"
      BY <2>2, PlacesAreNumbers DEF Webhook!DedupeById, Webhook!Statuses, Webhook!Messages
    <3>3. p[k].target = p[i].target
      BY <3>1, <3>2 DEF Webhook!HandleOf, Webhook!StatusHandle
    <3>4. p[k] = p[i]
      BY <3>2, <3>3, PlatformAssumption DEF Webhook!MomentsAssumption
    <3> QED
      BY <1>1, <3>1, <3>4
  <2> QED
    BY <2>1, <2>2 DEF Webhook!Statuses
<1> QED
  BY <1>2, <1>3 DEF Webhook!EventsOf

-----------------------------------------------------------------------------
Kept(p) == Webhook!DedupeById(p, Webhook!Messages(p))

Events == UNION {Webhook!EventsOf(p, DOMAIN p) : p \in Payloads}

WebhookTypeOK ==
  /\ tries \in [Payloads -> Nat]
  /\ dispatch \in [Webhook!Deliveries -> SUBSET Nat]
  /\ \A d \in Webhook!Deliveries : dispatch[d] \subseteq Webhook!Parsed[d[1]]
  /\ order \in Seq(Events)

\* Only a payload that was delivered is dispatched, by a process that is not down.
DispatchIsDue ==
  \A d \in Webhook!Deliveries :
    d[2] > tries[d[1]] \/ server = "down" => dispatch[d] = {}

\* A handle is claimed exactly when its message was taken.
ClaimedIsTaken ==
  \A p \in Payloads : \A i \in Webhook!Messages(p) :
    Webhook!HandleOf(p, i) \in webhookClaims <=> Webhook!IsTaken(p[i])

\* What stands before an item that is left was taken, by this delivery or another one;
\* without the store it may be lost instead, but then nothing more is taken.
EarlierIsTaken ==
  server # "cut off" =>
    \A d \in Webhook!Deliveries : \A i \in Kept(d[1]) \ dispatch[d], j \in dispatch[d] :
      i < j /\ j \in Webhook!Messages(d[1]) => Webhook!IsTaken(d[1][i])

\* A message that first stands before another one is taken first.
Precedes(p, i, j) ==
  i < j /\ p[j] \notin Webhook!EventsOf(p, Webhook!Messages(p) \intersect 1 .. i)

\* InOrder, in these words.
LEMMA InOrderNamed ==
  Webhook!InOrder' = \A p \in Payloads : \A i, j \in Webhook!Messages(p) :
    Precedes(p, i, j) =>
      \A k, l \in DOMAIN order' : order'[k] = p[i] /\ order'[l] = p[j] => k < l
BY DEF Webhook!InOrder, Precedes, Webhook!EventsOf, Webhook!Messages

TakenFromTheFront ==
  \A p \in Payloads : \A i, j \in Webhook!Messages(p) :
    Precedes(p, i, j) /\ Webhook!IsTaken(p[j]) => Webhook!IsTaken(p[i])

DroppedWasTaken == \A e \in dropped : Webhook!IsTaken(e)

WebhookInv ==
  /\ WebhookTypeOK /\ DispatchIsDue
  /\ ClaimedIsTaken /\ EarlierIsTaken /\ TakenFromTheFront /\ DroppedWasTaken
  /\ Webhook!TakenOnce /\ Webhook!InOrder

LEMMA WebhookInvInit == Webhook!Init => WebhookInv
<1> SUFFICES ASSUME Webhook!Init PROVE WebhookInv
  OBVIOUS
<1>1. order = <<>> /\ \A e : ~Webhook!IsTaken(e)
  BY DEF Webhook!Init, Webhook!IsTaken
<1>2. \A d \in Webhook!Deliveries : dispatch[d] = {}
  BY DEF Webhook!Init
<1>3. WebhookTypeOK
  BY <1>1, <1>2 DEF Webhook!Init, WebhookTypeOK
<1>4. Webhook!TakenOnce /\ Webhook!InOrder
  BY <1>1 DEF Webhook!TakenOnce, Webhook!InOrder
<1> QED
  BY <1>1, <1>2, <1>3, <1>4 DEF Webhook!Init, WebhookInv, DispatchIsDue, ClaimedIsTaken, EarlierIsTaken,
    TakenFromTheFront, DroppedWasTaken

\* What the order alone decides.
LEMMA OrderKeeps ==
  ASSUME WebhookInv, UNCHANGED order
  PROVE  /\ \A e : Webhook!IsTaken(e)' <=> Webhook!IsTaken(e)
         /\ TakenFromTheFront' /\ Webhook!TakenOnce' /\ Webhook!InOrder'
         /\ order' \in Seq(Events)
<1>1. \A e : Webhook!IsTaken(e)' <=> Webhook!IsTaken(e)
  BY DEF Webhook!IsTaken
<1>2. TakenFromTheFront'
  BY <1>1 DEF WebhookInv, TakenFromTheFront, Precedes
<1>3. Webhook!TakenOnce'
  BY DEF WebhookInv, Webhook!TakenOnce
<1>4. Webhook!InOrder'
  BY DEF WebhookInv, Webhook!InOrder
<1>5. order' \in Seq(Events)
  BY DEF WebhookInv, WebhookTypeOK
<1> QED
  BY <1>1, <1>2, <1>3, <1>4, <1>5

LEMMA ReceiveKeepsInv ==
  ASSUME WebhookInv, NEW p \in Payloads, Webhook!Receive(p)
  PROVE  WebhookInv'
<1> DEFINE new == <<p, tries[p] + 1>>
<1>1. /\ new \in Webhook!Deliveries
      /\ tries' = [tries EXCEPT ![p] = @ + 1]
      /\ dispatch' = [dispatch EXCEPT ![new] = Webhook!Parsed[p]]
      /\ dropped' = dropped
      /\ UNCHANGED <<server, webhookClaims, order>>
      /\ server # "down" /\ tries \in [Payloads -> Nat]
  <2>1. tries[p] \in Nat /\ tries[p] < MaxTries /\ MaxTries \in Nat
    BY TriesAssumption DEF Webhook!TriesAssumption, Webhook!Receive, WebhookInv, WebhookTypeOK
  <2>2. tries'[p] = tries[p] + 1 /\ tries' = [tries EXCEPT ![p] = @ + 1] /\ tries \in [Payloads -> Nat]
    BY DEF Webhook!Receive, WebhookInv, WebhookTypeOK
  <2>3. new \in Webhook!Deliveries
    BY <2>1 DEF Webhook!Deliveries
  <2>4. dropped' = dropped
    BY ParserDropsNothing DEF Webhook!Receive
  <2>5. dispatch' = [dispatch EXCEPT ![new] = Webhook!Parsed[p]]
    BY <2>2 DEF Webhook!Receive
  <2> QED
    BY <2>2, <2>3, <2>4, <2>5 DEF Webhook!Receive, Webhook!Listens
<1>2. \A d \in Webhook!Deliveries : dispatch'[d] = IF d = new THEN Webhook!Parsed[p] ELSE dispatch[d]
  BY <1>1 DEF WebhookInv, WebhookTypeOK
<1>3. WebhookTypeOK'
  <2>1. Webhook!Parsed[p] \subseteq Nat /\ new[1] = p
    BY ParserDropsNothing, PlacesAreNumbers
  <2>2. dispatch' \in [Webhook!Deliveries -> SUBSET Nat]
    BY <1>1, <2>1 DEF WebhookInv, WebhookTypeOK
  <2>3. tries' \in [Payloads -> Nat]
    BY <1>1
  <2> HIDE DEF new
  <2>4. \A d \in Webhook!Deliveries : dispatch'[d] \subseteq Webhook!Parsed[d[1]]
    BY <1>2, <2>1 DEF WebhookInv, WebhookTypeOK
  <2> QED
    BY <1>1, <2>2, <2>3, <2>4 DEF WebhookInv, WebhookTypeOK
<1>4. DispatchIsDue'
  <2> SUFFICES ASSUME NEW d \in Webhook!Deliveries, d[2] > tries'[d[1]] PROVE dispatch'[d] = {}
    BY <1>1 DEF DispatchIsDue
  <2>1. d[1] \in Payloads /\ d[2] \in Nat /\ d = <<d[1], d[2]>>
    BY DEF Webhook!Deliveries
  <2>2. d # new /\ d[2] > tries[d[1]]
    BY <1>1, <2>1
  <2> QED
    BY <1>2, <2>2 DEF WebhookInv, DispatchIsDue
<1>5. EarlierIsTaken'
  <2>1. Kept(p) \ dispatch'[new] = {}
    BY <1>1, <1>2 DEF Kept, Webhook!Parsed
  <2>2. \A x : Webhook!IsTaken(x)' <=> Webhook!IsTaken(x)
    BY <1>1, OrderKeeps
  <2> SUFFICES ASSUME server # "cut off", NEW d \in Webhook!Deliveries,
                      NEW i \in Kept(d[1]) \ dispatch'[d], NEW j \in dispatch'[d],
                      i < j, j \in Webhook!Messages(d[1])
               PROVE  Webhook!IsTaken(d[1][i])'
    BY <1>1 DEF EarlierIsTaken
  <2>3. d # new
    <3>1. new[1] = p
      OBVIOUS
    <3> HIDE DEF new
    <3> QED
      BY <2>1, <3>1
  <2>4. i \in Kept(d[1]) \ dispatch[d] /\ j \in dispatch[d]
    BY <1>2, <2>3
  <2>5. Webhook!IsTaken(d[1][i])
    BY <2>4 DEF WebhookInv, EarlierIsTaken
  <2> QED
    BY <2>2, <2>5
<1>6. ClaimedIsTaken' /\ DroppedWasTaken'
  BY <1>1, OrderKeeps DEF WebhookInv, ClaimedIsTaken, DroppedWasTaken
<1> QED
  BY <1>1, <1>3, <1>4, <1>5, <1>6, OrderKeeps DEF WebhookInv

\* One more event is taken.
LEMMA TakenGrows ==
  ASSUME WebhookInv, NEW e \in Events, order' = Append(order, e)
  PROVE  /\ \A x : Webhook!IsTaken(x)' <=> Webhook!IsTaken(x) \/ x = e
         /\ \A k \in DOMAIN order' :
              (k = Len(order) + 1 /\ order'[k] = e) \/ (k \in DOMAIN order /\ order'[k] = order[k])
         /\ \A k \in DOMAIN order : k < Len(order) + 1
         /\ order' \in Seq(Events)
<1>1. order \in Seq(Events)
  BY DEF WebhookInv, WebhookTypeOK
<1>2. /\ DOMAIN order = 1 .. Len(order) /\ Len(order) \in Nat
      /\ DOMAIN order' = 1 .. (Len(order) + 1)
      /\ order'[Len(order) + 1] = e
      /\ \A k \in DOMAIN order : order'[k] = order[k]
  BY <1>1
<1>3. /\ \A k \in DOMAIN order' :
           (k = Len(order) + 1 /\ order'[k] = e) \/ (k \in DOMAIN order /\ order'[k] = order[k])
      /\ \A k \in DOMAIN order : k < Len(order) + 1
      /\ Len(order) + 1 \in DOMAIN order' /\ DOMAIN order \subseteq DOMAIN order'
  BY <1>2
<1>4. \A x : Webhook!IsTaken(x)' <=> Webhook!IsTaken(x) \/ x = e
  BY <1>2, <1>3 DEF Webhook!IsTaken
<1> QED
  BY <1>1, <1>3, <1>4

\* Of the items of a dispatch the next one comes when all that are before it were taken.
LEMMA EarlierOnesAreTaken ==
  ASSUME WebhookInv, server # "cut off", NEW d \in Webhook!Deliveries, NEW p, p = d[1],
         NEW i \in Webhook!Items(d), i \in Webhook!Messages(p)
  PROVE  /\ i \in Kept(p)
         /\ \A k \in Kept(p) : k < i => Webhook!IsTaken(p[k])
<1>1. p \in Payloads /\ i \in dispatch[d] /\ \A j \in dispatch[d] \ {i} : Webhook!Before(p, i, j)
  BY DEF Webhook!Deliveries, Webhook!Items
<1>2. Webhook!Messages(p) \subseteq Nat /\ Webhook!Messages(p) \intersect Webhook!Statuses(p) = {}
  BY <1>1, PlacesAreNumbers
<1>3. i \in Kept(p)
  <2>1. i \in Webhook!Parsed[p]
    BY <1>1 DEF WebhookInv, WebhookTypeOK
  <2>2. i \notin Webhook!DedupeById(p, Webhook!Statuses(p))
    BY <1>2 DEF Webhook!DedupeById
  <2> QED
    BY <1>1, <2>1, <2>2 DEF Webhook!Parsed, Kept
<1>4. ASSUME NEW k \in Kept(p), k < i PROVE Webhook!IsTaken(p[k])
  <2>1. k \in Webhook!Messages(p) /\ k \in Nat /\ i \in Nat
    BY <1>2 DEF Kept, Webhook!DedupeById
  <2>2. k # i /\ ~(i < k)
    BY <1>4, <2>1, LessIsStrict
  <2>3. ~Webhook!Before(p, i, k)
    BY <1>2, <2>1, <2>2 DEF Webhook!Before
  <2>4. k \notin dispatch[d]
    BY <1>1, <2>2, <2>3
  <2> QED
    BY <1>1, <1>4, <2>4 DEF WebhookInv, EarlierIsTaken
<1> QED
  BY <1>3, <1>4

\* A message that was not taken comes after all that stand before it.
LEMMA MessageTaken ==
  ASSUME WebhookInv, NEW p \in Payloads, NEW i \in Webhook!Messages(p), NEW e, e = p[i],
         \A k \in Kept(p) : k < i => Webhook!IsTaken(p[k]),
         ~Webhook!IsTaken(e), order' = Append(order, e)
  PROVE  TakenFromTheFront' /\ Webhook!TakenOnce' /\ Webhook!InOrder'
<1>1. i \in DOMAIN p /\ i \in Nat /\ i >= 1 /\ Webhook!Messages(p) \subseteq Nat \ {0}
  BY PlacesAreNumbers
<1>2. e \in Events
  BY <1>1 DEF Events, Webhook!EventsOf
<1>3. /\ \A x : Webhook!IsTaken(x)' <=> Webhook!IsTaken(x) \/ x = e
      /\ \A k \in DOMAIN order' :
           (k = Len(order) + 1 /\ order'[k] = e) \/ (k \in DOMAIN order /\ order'[k] = order[k])
      /\ \A k \in DOMAIN order : k < Len(order) + 1
  BY <1>2, TakenGrows
<1>4. \A k \in DOMAIN order : order[k] # e
  BY DEF Webhook!IsTaken
<1>5. Webhook!TakenOnce'
  <2> SUFFICES ASSUME NEW k \in DOMAIN order', NEW l \in DOMAIN order',
                      order'[k] = order'[l], order'[k].kind # "status"
               PROVE  k = l
    BY DEF Webhook!TakenOnce
  <2> QED
    BY <1>3, <1>4 DEF WebhookInv, Webhook!TakenOnce
<1>6. ASSUME NEW j \in Webhook!Messages(p), NEW m \in Webhook!Messages(p), p[m] = e, Precedes(p, j, m)
      PROVE  Webhook!IsTaken(p[j]) /\ p[j] # e
  <2>1. j \in Nat /\ j >= 1
    BY <1>1
  <2>2. \A n \in Webhook!Messages(p) : n \in 1 .. j => p[n] # e
    BY <1>6 DEF Precedes, Webhook!EventsOf
  <2>3. p[j] # e
    BY <2>1, <2>2
  <2>4. ~(i <= j)
    BY <1>1, <2>1, <2>2
  <2>5. PICK k \in Kept(p) : k <= j /\ p[k] = p[j]
    BY MessageIsKept DEF Kept
  <2>6. k \in Nat
    BY <1>1 DEF Kept, Webhook!DedupeById
  <2>7. k < i
    BY <1>1, <2>1, <2>4, <2>5, <2>6
  <2> QED
    BY <2>3, <2>5, <2>7
<1>7. \A q \in Payloads : \A j, m \in Webhook!Messages(q) :
        q[m] = e /\ Precedes(q, j, m) => Webhook!IsTaken(q[j]) /\ q[j] # e
  <2> SUFFICES ASSUME NEW q \in Payloads, NEW j \in Webhook!Messages(q), NEW m \in Webhook!Messages(q),
                      q[m] = e, Precedes(q, j, m)
               PROVE  Webhook!IsTaken(q[j]) /\ q[j] # e
    OBVIOUS
  <2>1. m \in DOMAIN q
    BY PlacesAreNumbers
  <2>2. q = p
    BY <1>1, <2>1, PlatformAssumption DEF Webhook!BatchesAssumption
  <2> QED
    BY <1>6, <2>2
<1>8. TakenFromTheFront'
  BY <1>3, <1>7 DEF WebhookInv, TakenFromTheFront, Precedes
<1>9. Webhook!InOrder'
  <2> SUFFICES ASSUME NEW q \in Payloads, NEW j \in Webhook!Messages(q), NEW m \in Webhook!Messages(q),
                      Precedes(q, j, m),
                      NEW k \in DOMAIN order', NEW l \in DOMAIN order', order'[k] = q[j], order'[l] = q[m]
               PROVE  k < l
    BY InOrderNamed
  <2>1. CASE l = Len(order) + 1 /\ q[m] = e
    <3>1. q[j] # e
      BY <1>7, <2>1
    <3> QED
      BY <1>3, <2>1, <3>1
  <2>2. CASE l \in DOMAIN order /\ order[l] = q[m]
    <3>1. Webhook!IsTaken(q[m])
      BY <2>2 DEF Webhook!IsTaken
    <3>2. Webhook!IsTaken(q[j])
      BY <3>1 DEF WebhookInv, TakenFromTheFront
    <3>3. q[j] # e
      BY <1>4, <3>2 DEF Webhook!IsTaken
    <3>4. k \in DOMAIN order /\ order[k] = q[j]
      BY <1>3, <3>3
    <3> QED
      BY <2>2, <3>4 DEF WebhookInv, Webhook!InOrder, Precedes
  <2> QED
    BY <1>3, <2>1, <2>2
<1> QED
  BY <1>5, <1>8, <1>9

\* A status is no message.
LEMMA StatusTaken ==
  ASSUME WebhookInv, NEW p \in Payloads, NEW i \in Webhook!Statuses(p), order' = Append(order, p[i])
  PROVE  TakenFromTheFront' /\ Webhook!TakenOnce' /\ Webhook!InOrder'
<1> DEFINE e == p[i]
<1>1. i \in DOMAIN p /\ e \in Events /\ e.kind = "status"
  BY PlacesAreNumbers DEF Events, Webhook!EventsOf, Webhook!Statuses, Webhook!Messages
<1>2. /\ \A x : Webhook!IsTaken(x)' <=> Webhook!IsTaken(x) \/ x = e
      /\ \A k \in DOMAIN order' :
           (k = Len(order) + 1 /\ order'[k] = e) \/ (k \in DOMAIN order /\ order'[k] = order[k])
  BY <1>1, TakenGrows
<1>3. \A q \in Payloads : \A j \in Webhook!Messages(q) : q[j] # e
  BY <1>1 DEF Webhook!Messages
<1> HIDE DEF e
<1>4. TakenFromTheFront'
  BY <1>2, <1>3 DEF WebhookInv, TakenFromTheFront, Precedes
<1>5. Webhook!TakenOnce'
  <2> SUFFICES ASSUME NEW k \in DOMAIN order', NEW l \in DOMAIN order',
                      order'[k] = order'[l], order'[k].kind # "status"
               PROVE  k = l
    BY DEF Webhook!TakenOnce
  <2> QED
    BY <1>1, <1>2 DEF WebhookInv, Webhook!TakenOnce
<1>6. Webhook!InOrder'
  <2> SUFFICES ASSUME NEW q \in Payloads, NEW j \in Webhook!Messages(q), NEW m \in Webhook!Messages(q),
                      Precedes(q, j, m),
                      NEW k \in DOMAIN order', NEW l \in DOMAIN order', order'[k] = q[j], order'[l] = q[m]
               PROVE  k < l
    BY InOrderNamed
  <2>1. k \in DOMAIN order /\ order[k] = q[j] /\ l \in DOMAIN order /\ order[l] = q[m]
    BY <1>2, <1>3
  <2> QED
    BY <2>1 DEF WebhookInv, Webhook!InOrder, Precedes
<1> QED
  BY <1>4, <1>5, <1>6

LEMMA TakeKeepsInv ==
  ASSUME WebhookInv, NEW d \in Webhook!Deliveries, Webhook!Listens,
         NEW i \in Webhook!Items(d), Webhook!Take(d, i)
  PROVE  WebhookInv'
<1> DEFINE p == d[1]
           e == p[i]
<1>1. p \in Payloads /\ i \in dispatch[d] /\ i \in DOMAIN p /\ e \in Events
  <2>1. p \in Payloads /\ i \in dispatch[d] /\ i \in Webhook!Parsed[p]
    BY DEF Webhook!Deliveries, Webhook!Items, WebhookInv, WebhookTypeOK
  <2>2. i \in DOMAIN p
    BY <2>1, ParserDropsNothing
  <2> QED
    BY <2>1, <2>2 DEF Events, Webhook!EventsOf
<1>2. /\ dispatch' = [dispatch EXCEPT ![d] = @ \ {i}]
      /\ UNCHANGED <<tries, server>> /\ server # "down"
  BY DEF Webhook!Take, Webhook!Listens
<1>3. \A c \in Webhook!Deliveries : dispatch'[c] = IF c = d THEN dispatch[d] \ {i} ELSE dispatch[c]
  BY <1>2 DEF WebhookInv, WebhookTypeOK
<1>4. DispatchIsDue'
  BY <1>2, <1>3 DEF WebhookInv, DispatchIsDue
<1>5. order' \in Seq(Events) => WebhookTypeOK'
  BY <1>2, <1>3 DEF WebhookInv, WebhookTypeOK
<1>6. (\A x : Webhook!IsTaken(x) => Webhook!IsTaken(x)') /\ (i \in Webhook!Messages(p) => Webhook!IsTaken(e)')
        => EarlierIsTaken'
  <2> SUFFICES ASSUME \A x : Webhook!IsTaken(x) => Webhook!IsTaken(x)',
                      i \in Webhook!Messages(p) => Webhook!IsTaken(e)',
                      server # "cut off",
                      NEW c \in Webhook!Deliveries, NEW k \in Kept(c[1]) \ dispatch'[c], NEW j \in dispatch'[c],
                      k < j, j \in Webhook!Messages(c[1])
               PROVE  Webhook!IsTaken(c[1][k])'
    BY <1>2 DEF EarlierIsTaken
  <2>1. CASE c = d /\ k = i
    <3>1. k \in Webhook!Messages(p)
      BY <2>1 DEF Kept, Webhook!DedupeById
    <3> QED
      BY <2>1, <3>1
  <2>2. CASE c # d \/ k # i
    <3>1. k \in Kept(c[1]) \ dispatch[c] /\ j \in dispatch[c]
      BY <1>3, <2>2
    <3>2. Webhook!IsTaken(c[1][k])
      BY <3>1 DEF WebhookInv, EarlierIsTaken
    <3> QED
      BY <3>2
  <2> QED
    BY <2>1, <2>2
<1>7. CASE server = "cut off"
  <2>1. UNCHANGED <<webhookClaims, order, dropped>>
    BY <1>7 DEF Webhook!Take
  <2>2. EarlierIsTaken'
    BY <1>2, <1>7 DEF EarlierIsTaken
  <2>3. ClaimedIsTaken' /\ DroppedWasTaken'
    BY <2>1, OrderKeeps DEF WebhookInv, ClaimedIsTaken, DroppedWasTaken
  <2> QED
    BY <1>4, <1>5, <2>1, <2>2, <2>3, OrderKeeps DEF WebhookInv
<1>8. CASE server # "cut off" /\ Webhook!IsClaimed(p, i)
  <2>1. UNCHANGED <<webhookClaims, order>> /\ dropped' = dropped \union {e}
    BY <1>8 DEF Webhook!Take
  <2>2. Webhook!IsTaken(e)
    BY <1>1, <1>8 DEF Webhook!IsClaimed, WebhookInv, ClaimedIsTaken
  <2>3. \A x : Webhook!IsTaken(x)' <=> Webhook!IsTaken(x)
    BY <2>1, OrderKeeps
  <2>4. ClaimedIsTaken' /\ DroppedWasTaken'
    BY <2>1, <2>2, <2>3 DEF WebhookInv, ClaimedIsTaken, DroppedWasTaken
  <2> QED
    BY <1>4, <1>5, <1>6, <2>1, <2>2, <2>3, <2>4, OrderKeeps DEF WebhookInv
<1>9. CASE server # "cut off" /\ ~Webhook!IsClaimed(p, i)
  <2>1. /\ webhookClaims' = webhookClaims \union
             {Webhook!HandleOf(p, j) : j \in {i} \intersect Webhook!Messages(p)}
        /\ order' = Append(order, e) /\ UNCHANGED dropped
    BY <1>9 DEF Webhook!Take
  <2>2. /\ \A x : Webhook!IsTaken(x)' <=> Webhook!IsTaken(x) \/ x = e
        /\ order' \in Seq(Events)
    BY <1>1, <2>1, TakenGrows
  <2>3. DroppedWasTaken'
    BY <2>1, <2>2 DEF WebhookInv, DroppedWasTaken
  <2>4. CASE i \in Webhook!Messages(p)
    <3>1. webhookClaims' = webhookClaims \union {Webhook!HandleOf(p, i)}
      BY <2>1, <2>4
    <3>2. ~Webhook!IsTaken(e)
      BY <1>1, <1>9, <2>4 DEF Webhook!IsClaimed, WebhookInv, ClaimedIsTaken
    <3>3. ClaimedIsTaken'
      <4> SUFFICES ASSUME NEW q \in Payloads, NEW j \in Webhook!Messages(q)
                   PROVE  Webhook!HandleOf(q, j) \in webhookClaims' <=> Webhook!IsTaken(q[j])'
        BY DEF ClaimedIsTaken
      <4>1. Webhook!HandleOf(q, j) = Webhook!HandleOf(p, i) <=> q[j] = e
        BY <1>1, <2>4, HandlesTellApart
      <4>2. Webhook!HandleOf(q, j) \in webhookClaims <=> Webhook!IsTaken(q[j])
        BY DEF WebhookInv, ClaimedIsTaken
      <4> QED
        BY <2>2, <3>1, <4>1, <4>2
    <3>4. TakenFromTheFront' /\ Webhook!TakenOnce' /\ Webhook!InOrder'
      <4>1. \A k \in Kept(p) : k < i => Webhook!IsTaken(p[k])
        BY <1>9, <2>4, EarlierOnesAreTaken
      <4> QED
        BY <1>1, <2>1, <2>4, <3>2, <4>1, MessageTaken
    <3> QED
      BY <1>4, <1>5, <1>6, <2>2, <2>3, <3>3, <3>4 DEF WebhookInv
  <2>5. CASE i \in Webhook!Statuses(p)
    <3>1. webhookClaims' = webhookClaims /\ i \notin Webhook!Messages(p)
      BY <2>1, <2>5 DEF Webhook!Statuses
    <3>2. \A q \in Payloads : \A j \in Webhook!Messages(q) : q[j] # e
      BY <1>1, <3>1 DEF Webhook!Messages
    <3>3. ClaimedIsTaken'
      BY <2>2, <3>1, <3>2 DEF WebhookInv, ClaimedIsTaken
    <3>4. TakenFromTheFront' /\ Webhook!TakenOnce' /\ Webhook!InOrder'
      BY <1>1, <2>1, <2>5, StatusTaken
    <3> QED
      BY <1>4, <1>5, <1>6, <2>2, <2>3, <3>1, <3>3, <3>4 DEF WebhookInv
  <2> QED
    BY <1>1, <2>4, <2>5 DEF Webhook!Statuses
<1> QED
  BY <1>7, <1>8, <1>9

LEMMA WebhookInvStep == WebhookInv /\ [Webhook!Next]_webhookVars => WebhookInv'
<1> SUFFICES ASSUME WebhookInv, [Webhook!Next]_webhookVars PROVE WebhookInv'
  OBVIOUS
<1>1. ASSUME UNCHANGED <<tries, webhookClaims, order, dropped>>,
             UNCHANGED dispatch \/ dispatch' = [d \in Webhook!Deliveries |-> {}],
             server' = "down" => dispatch' = [d \in Webhook!Deliveries |-> {}],
             server' # "cut off" =>
               server # "cut off" \/ dispatch' = [d \in Webhook!Deliveries |-> {}]
      PROVE  WebhookInv'
  <2>1. \A d \in Webhook!Deliveries : dispatch'[d] = dispatch[d] \/ dispatch'[d] = {}
    BY <1>1
  <2>2. server' = "down" => \A d \in Webhook!Deliveries : dispatch'[d] = {}
    BY <1>1
  <2>3. WebhookTypeOK'
    BY <1>1, <2>1 DEF WebhookInv, WebhookTypeOK
  <2>4. DispatchIsDue'
    BY <1>1, <2>1, <2>2 DEF WebhookInv, DispatchIsDue
  <2>5. EarlierIsTaken'
    <3>1. CASE \A d \in Webhook!Deliveries : dispatch'[d] = {}
      BY <3>1 DEF EarlierIsTaken
    <3>2. CASE UNCHANGED dispatch /\ (server' # "cut off" => server # "cut off")
      BY <1>1, <3>2, OrderKeeps DEF WebhookInv, EarlierIsTaken
    <3> QED
      BY <1>1, <3>1, <3>2
  <2>6. ClaimedIsTaken' /\ DroppedWasTaken'
    BY <1>1, OrderKeeps DEF WebhookInv, ClaimedIsTaken, DroppedWasTaken
  <2> QED
    BY <1>1, <2>3, <2>4, <2>5, <2>6, OrderKeeps DEF WebhookInv
<1>2. CASE Webhook!Sigterm \/ Webhook!Disconnect \/ Webhook!Exit
  BY <1>1, <1>2 DEF Webhook!Sigterm, Webhook!Disconnect, Webhook!Exit
<1>3. CASE Webhook!Restart
  BY <1>1, <1>3 DEF Webhook!Restart
<1>4. CASE UNCHANGED webhookVars
  <2>1. server = "down" => \A d \in Webhook!Deliveries : dispatch[d] = {}
    BY DEF WebhookInv, DispatchIsDue
  <2>2. server = "down" => dispatch = [d \in Webhook!Deliveries |-> {}]
    BY <2>1 DEF WebhookInv, WebhookTypeOK
  <2> QED
    BY <1>1, <1>4, <2>2 DEF webhookVars
<1>5. ASSUME NEW p \in Payloads, Webhook!Receive(p) PROVE WebhookInv'
  BY <1>5, ReceiveKeepsInv
<1>6. ASSUME NEW d \in Webhook!Deliveries, Webhook!HandleNext(d) PROVE WebhookInv'
  BY <1>6, TakeKeepsInv DEF Webhook!HandleNext
<1> QED
  BY <1>2, <1>3, <1>4, <1>5, <1>6 DEF Webhook!Next

-----------------------------------------------------------------------------
\* What the admin route has told of a claim in this moment.
PeekInv ==
  /\ StoresInv
  /\ DOMAIN seen = MessageIds /\ DOMAIN taken = MessageIds
  /\ \A i \in MessageIds : seen[i].at <= day /\ seen[i].at \in Int
  /\ Stores!PeekIsTruthful

LEMMA PeekInvStep ==
  Stores!StoresAssumption /\ PeekInv /\ [Stores!Next]_storeVars => PeekInv'
<1> SUFFICES ASSUME Stores!StoresAssumption, PeekInv, [Stores!Next]_storeVars PROVE PeekInv'
  OBVIOUS
<1>1. StoresInv'
  BY StoresInvStep DEF PeekInv
<1>2. day \in Nat /\ day' \in Nat
  BY <1>1 DEF PeekInv, StoresInv, ClaimsTypeOK
<1>3. CASE Stores!Tick
  <2>1. UNCHANGED <<seen, taken>> /\ day' = day + 1
    BY <1>3 DEF Stores!Tick
  <2>2. \A i \in MessageIds : seen'[i].at < day'
    BY <1>2, <2>1 DEF PeekInv
  <2> QED
    BY <1>1, <1>2, <2>1, <2>2 DEF PeekInv, Stores!PeekIsTruthful
<1>4. ASSUME NEW i \in MessageIds, Stores!Peek(i) PROVE PeekInv'
  <2>1. /\ seen' = [seen EXCEPT ![i] = [at |-> day, present |-> Stores!IsHeld(i)]]
        /\ UNCHANGED <<day, until, taken>>
    BY <1>4 DEF Stores!Peek
  <2>2. Stores!IsHeld(i) <=> until[i] > day
    BY HeldUntilOver DEF PeekInv
  <2>3. Stores!IsHeld(i) = (until[i] > day)
    <3>1. handles[i] \in Int /\ until[i] \in Nat
      BY DEF PeekInv, StoresInv, ClaimsTypeOK
    <3>2. (handles[i] # Stores!Absent) \in BOOLEAN /\ (handles[i] > day) \in BOOLEAN /\ (until[i] > day) \in BOOLEAN
      BY <1>2, <3>1
    <3>3. CASE onRedis
      <4>1. Stores!IsHeld(i) = (handles[i] # Stores!Absent)
        BY <3>3 DEF Stores!IsHeld
      <4> QED
        BY <2>2, <3>2, <4>1
    <3>4. CASE ~onRedis
      <4>1. Stores!IsHeld(i) = (handles[i] > day)
        BY <3>4 DEF Stores!IsHeld
      <4> QED
        BY <2>2, <3>2, <4>1
    <3> QED
      BY <3>3, <3>4
  <2>4. \A j \in MessageIds : seen'[j] = IF j = i THEN [at |-> day, present |-> Stores!IsHeld(i)] ELSE seen[j]
    BY <2>1 DEF PeekInv
  <2>5. Stores!PeekIsTruthful'
    BY <2>1, <2>3, <2>4 DEF PeekInv, Stores!PeekIsTruthful
  <2> QED
    BY <1>1, <1>2, <2>1, <2>4, <2>5 DEF PeekInv
<1>5. ASSUME NEW i \in MessageIds, NEW c \in Callers, Stores!Claim(i, c) PROVE PeekInv'
  <2>1. UNCHANGED <<day, seen>>
    BY <1>5 DEF Stores!Claim
  <2>2. \/ UNCHANGED <<until, taken>>
        \/ until' = [until EXCEPT ![i] = day + DedupeTtl] /\ taken' = [taken EXCEPT ![i] = @ + 1]
    BY <1>5 DEF Stores!Claim
  <2>3. until \in [MessageIds -> Nat] /\ DOMAIN taken = MessageIds
    BY DEF PeekInv, StoresInv, ClaimsTypeOK
  <2>4. DOMAIN taken' = MessageIds
    BY <2>3, <2>2
  <2>5. Stores!PeekIsTruthful'
    BY <2>1, <2>3, <2>2 DEF PeekInv, Stores!PeekIsTruthful
  <2> QED
    BY <1>1, <2>1, <2>5, <2>4 DEF PeekInv
<1>6. CASE UNCHANGED storeVars
  BY <1>1, <1>6 DEF PeekInv, Stores!PeekIsTruthful, storeVars
<1> QED
  BY <1>3, <1>4, <1>5, <1>6 DEF Stores!Next

-----------------------------------------------------------------------------
\* Each message is taken once and in the order of its payload, however often and in
\* how many dispatches at once it is delivered, no event is dropped that was not taken
\* before, and the admin route tells the truth of a claim (parser.ts, dispatchWebhook,
\* handleInbound, GET /admin/dedupe).
THEOREM MessagesTakenInOrder == PartsSpec => []TakenOnceInOrder
<1> DEFINE partVars == <<part, vars, webhookVars, gapVars, probeVars, storeVars, contactVars, accountVars>>
<1>1. PartsInit => WebhookInv /\ PeekInv
  <2>1. Webhook!Init => WebhookInv
    BY WebhookInvInit
  <2>2. Stores!Init => PeekInv
    <3> SUFFICES ASSUME Stores!Init PROVE PeekInv
      OBVIOUS
    <3>1. StoresInv
      BY StoresAssumption, StoresInvInit
    <3>2. day = 0 /\ \A i \in MessageIds : seen[i].at = -1 /\ i \in DOMAIN seen
      BY DEF Stores!Init, Stores!Absent
    <3> QED
      BY <3>1, <3>2 DEF PeekInv, Stores!PeekIsTruthful, Stores!Init
  <2> QED
    BY <2>1, <2>2 DEF PartsInit
<1>2. [PartsNext]_partVars => [Webhook!Next]_webhookVars /\ [Stores!Next]_storeVars
  BY DEF PartsNext, HandleComments, TakeWebhooks, WatchForGaps, AnswerProbes,
         ClaimHandles, LookUpContacts, RouteToAccounts
<1>3. WebhookInv /\ PeekInv /\ [PartsNext]_partVars => WebhookInv' /\ PeekInv'
  BY <1>2, StoresAssumption, WebhookInvStep, PeekInvStep
<1>4. WebhookInv /\ PeekInv => TakenOnceInOrder
  BY DEF WebhookInv, DroppedWasTaken, Webhook!DroppedIsDuplicate, PeekInv, TakenOnceInOrder
<1> QED
  BY <1>1, <1>3, <1>4, PTL DEF PartsSpec
=============================================================================
