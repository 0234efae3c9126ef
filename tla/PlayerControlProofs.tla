------------------------- MODULE PlayerControlProofs -------------------------
(***************************************************************************)
(* Proofs about PlayerControl, for any set of videos.                      *)
(***************************************************************************)
EXTENDS PlayerControl, TLAPS

\* A session that is on has its thread, and its status says so.
Attended == Active => thread /\ status \in {1, 2}

IInv == TypeOK /\ Attended /\ StatusHonest /\ JoinsOnlyEnding /\ FrameIsCurrent

\* The steps of the session, seen from the statics of player.c.
SessionActions ==
  S!OpenDecoder \/ S!BeginPlay \/ S!Publish \/ S!CloseDecoder \/ S!End

-----------------------------------------------------------------------------
\* The program starts without a session.
LEMMA InvInit == Init => IInv
<1> SUFFICES ASSUME Init PROVE IInv
  OBVIOUS
<1>1. cancel \in BOOLEAN /\ pause \in BOOLEAN /\ decoder \in BOOLEAN /\ thread \in BOOLEAN
  BY DEF Init
<1>2. TypeOK
  BY <1>1 DEF Init, TypeOK
<1>3. Attended /\ StatusHonest /\ JoinsOnlyEnding /\ FrameIsCurrent
  BY DEF Init, Attended, StatusHonest, JoinsOnlyEnding, FrameIsCurrent, Active
<1> QED
  BY <1>2, <1>3 DEF IInv

\* Every action keeps the types.
LEMMA TypeStep == TypeOK /\ [Next]_vars => TypeOK'
<1> SUFFICES ASSUME TypeOK, [Next]_vars PROVE TypeOK'
  OBVIOUS
<1> USE DEF TypeOK, session
<1>1. ASSUME NEW v \in Videos, StartVideo(v) PROVE TypeOK'
  BY <1>1 DEF StartVideo
<1>2. ASSUME NEW v \in Videos, OpenURL(v) PROVE TypeOK'
  BY <1>2 DEF OpenURL
<1>3. ASSUME NEW v \in Videos, Step(v) PROVE TypeOK'
  BY <1>3 DEF Step, S!Stop
<1>4. CASE ResolveFails
  BY <1>4 DEF ResolveFails
<1>5. CASE Refuse
  BY <1>5 DEF Refuse
<1>6. CASE Accept
  BY <1>6 DEF Accept
<1>7. CASE Started
  BY <1>7 DEF Started, Reset, FrameReset
<1>8. CASE StartFails
  BY <1>8 DEF StartFails, Reset, FrameReset, FailedStatus
<1>9. CASE Stop
  BY <1>9 DEF Stop, S!Stop
<1>10. CASE SwitchScreen
  BY <1>10 DEF SwitchScreen
<1>11. CASE TogglePause
  BY <1>11 DEF TogglePause, S!TogglePause
<1>12. CASE PlayerStep
  <2>1. frame_of' \in Videos \union {NoVideo} /\ UNCHANGED OtherVars /\ S!PlayerStep
    BY <1>12 DEF PlayerStep
  <2>2. CASE S!OpenDecoder
    BY <2>1, <2>2 DEF S!OpenDecoder, OtherVars
  <2>3. CASE S!BeginPlay
    BY <2>1, <2>3 DEF S!BeginPlay, OtherVars
  <2>4. CASE S!Publish
    BY <2>1, <2>4 DEF S!Publish, OtherVars
  <2>5. CASE S!CloseDecoder
    BY <2>1, <2>5 DEF S!CloseDecoder, OtherVars
  <2>6. CASE S!End
    BY <2>1, <2>6 DEF S!End, S!EndStatus, OtherVars
  <2> QED
    BY <2>1, <2>2, <2>3, <2>4, <2>5, <2>6 DEF S!PlayerStep
<1>13. CASE UNCHANGED vars
  BY <1>13 DEF vars
<1> QED
  BY <1>1, <1>2, <1>3, <1>4, <1>5, <1>6, <1>7, <1>8, <1>9, <1>10, <1>11, <1>12,
     <1>13
  DEF Next, MainStep

\* A start joins the old thread before it resets anything; only Started makes
\* a session, and only the session's own End makes it inactive.
LEMMA ControlStep == IInv /\ [Next]_vars => (Attended /\ StatusHonest /\ JoinsOnlyEnding)'
<1> SUFFICES ASSUME IInv, [Next]_vars PROVE (Attended /\ StatusHonest /\ JoinsOnlyEnding)'
  OBVIOUS
<1> USE DEF IInv, TypeOK, Attended, StatusHonest, JoinsOnlyEnding, Active, session
<1>1. ASSUME NEW v \in Videos, StartVideo(v) PROVE (Attended /\ StatusHonest /\ JoinsOnlyEnding)'
  BY <1>1 DEF StartVideo
<1>2. ASSUME NEW v \in Videos, OpenURL(v) PROVE (Attended /\ StatusHonest /\ JoinsOnlyEnding)'
  BY <1>2 DEF OpenURL
<1>3. ASSUME NEW v \in Videos, Step(v) PROVE (Attended /\ StatusHonest /\ JoinsOnlyEnding)'
  BY <1>3 DEF Step, S!Stop
<1>4. CASE ResolveFails
  BY <1>4 DEF ResolveFails
<1>5. CASE Refuse
  BY <1>5 DEF Refuse
<1>6. CASE Accept
  BY <1>6 DEF Accept, Refused
<1>7. CASE Started
  BY <1>7 DEF Started, Reset
<1>8. CASE StartFails
  BY <1>8 DEF StartFails, Reset, FailedStatus, Joined
<1>9. CASE Stop
  BY <1>9 DEF Stop, S!Stop
<1>10. CASE SwitchScreen
  BY <1>10 DEF SwitchScreen
<1>11. CASE TogglePause
  BY <1>11 DEF TogglePause, S!TogglePause
<1>12. CASE PlayerStep
  <2>1. UNCHANGED OtherVars /\ S!PlayerStep
    BY <1>12 DEF PlayerStep
  <2>2. CASE S!OpenDecoder
    BY <2>1, <2>2 DEF S!OpenDecoder, OtherVars
  <2>3. CASE S!BeginPlay
    BY <2>1, <2>3 DEF S!BeginPlay, OtherVars
  <2>4. CASE S!Publish
    BY <2>1, <2>4 DEF S!Publish, OtherVars
  <2>5. CASE S!CloseDecoder
    BY <2>1, <2>5 DEF S!CloseDecoder, OtherVars
  <2>6. CASE S!End
    BY <2>1, <2>6 DEF S!End, S!EndStatus, OtherVars
  <2> QED
    BY <2>1, <2>2, <2>3, <2>4, <2>5, <2>6 DEF S!PlayerStep
<1>13. CASE UNCHANGED vars
  BY <1>13 DEF vars
<1> QED
  BY <1>1, <1>2, <1>3, <1>4, <1>5, <1>6, <1>7, <1>8, <1>9, <1>10, <1>11, <1>12,
     <1>13
  DEF Next, MainStep

\* A start forgets the old picture, and a picture is published for the URL the
\* player thread was given.
LEMMA FrameStep == IInv /\ [Next]_vars => FrameIsCurrent'
<1> SUFFICES ASSUME IInv, [Next]_vars PROVE FrameIsCurrent'
  OBVIOUS
<1> USE DEF IInv, FrameIsCurrent, session
<1>1. ASSUME NEW v \in Videos, StartVideo(v) \/ OpenURL(v) PROVE FrameIsCurrent'
  BY <1>1 DEF StartVideo, OpenURL
<1>2. ASSUME NEW v \in Videos, Step(v) PROVE FrameIsCurrent'
  BY <1>2 DEF Step, S!Stop
<1>3. CASE ResolveFails \/ Refuse \/ Accept
  BY <1>3 DEF ResolveFails, Refuse, Accept
<1>4. CASE Started \/ StartFails
  BY <1>4 DEF Started, StartFails, Reset, FrameReset
<1>5. CASE Stop
  BY <1>5 DEF Stop, S!Stop
<1>6. CASE SwitchScreen \/ TogglePause
  BY <1>6 DEF SwitchScreen, TogglePause, S!TogglePause
<1>7. CASE PlayerStep
  <2>1. /\ url' = url /\ S!PlayerStep
        /\ frame_of' = IF S!Publish THEN url ELSE frame_of
    BY <1>7 DEF PlayerStep, OtherVars
  <2>2. S!Publish \/ frame_index' = frame_index
    BY <2>1 DEF S!PlayerStep, S!OpenDecoder, S!BeginPlay, S!CloseDecoder, S!End
  <2> QED
    BY <2>1, <2>2
<1>8. CASE UNCHANGED vars
  BY <1>8 DEF vars
<1> QED
  BY <1>1, <1>2, <1>3, <1>4, <1>5, <1>6, <1>7, <1>8 DEF Next, MainStep

\* The invariant holds in every reachable state.
THEOREM Invariance == Spec => []IInv
<1>1. IInv /\ [Next]_vars => IInv'
  BY TypeStep, ControlStep, FrameStep DEF IInv
<1> QED
  BY <1>1, InvInit, PTL DEF Spec

-----------------------------------------------------------------------------
\* Every reachable state has its variables in their types.
THEOREM TypeCorrect == Spec => []TypeOK
<1>1. IInv => TypeOK
  BY DEF IInv
<1> QED
  BY <1>1, Invariance, PTL

\* player_status says "download" or "playing" only while a player thread that
\* was started is at it, also after a start that failed.
THEOREM StatusIsHonest == Spec => []StatusHonest
<1>1. IInv => StatusHonest
  BY DEF IInv
<1> QED
  BY <1>1, Invariance, PTL

\* The main thread joins only sessions that were stopped or have ended.
THEOREM JoinsAreShort == Spec => []JoinsOnlyEnding
<1>1. IInv => JoinsOnlyEnding
  BY DEF IInv
<1> QED
  BY <1>1, Invariance, PTL

\* The picture on the screen is never one of an earlier video.
THEOREM FramesAreCurrent == Spec => []FrameIsCurrent
<1>1. IInv => FrameIsCurrent
  BY DEF IInv
<1> QED
  BY <1>1, Invariance, PTL

\* What the main thread does is no session's own step, but for a stop or a pause.
LEMMA MainDoes ==
  ASSUME MainStep, ~Started, ~StartFails
  PROVE  url' = url /\ (S!Stop \/ S!TogglePause \/ UNCHANGED session)
BY DEF MainStep, StartVideo, OpenURL, Step, ResolveFails, Refuse, Accept, Stop,
       SwitchScreen, TogglePause

\* A running player thread keeps its URL, sees its stop request, and meets in
\* its session only what PlayerSession allows: that PlayerPipeline implements
\* that module is all that PlayerControl needs to know of it.
THEOREM SessionsAreUndisturbed == Spec => SessionUndisturbed
<1> DEFINE A == /\ Active => url' = url /\ (cancel => cancel') /\ [S!Next]_session
                /\ ~Active /\ Active' => S!Begin'
<1>1. IInv /\ [Next]_vars => [A]_vars
  <2> SUFFICES ASSUME IInv, Next PROVE A
    OBVIOUS
  <2>1. Active => ~Joined
    BY DEF Joined, IInv, Attended, Active
  <2>2. CASE Started
    <3>1. ~Active
      BY <2>1, <2>2 DEF Started
    <3>2. S!Begin'
      BY <2>2 DEF Started, Reset, FrameReset, S!Begin
    <3> QED
      BY <3>1, <3>2
  <2>3. CASE StartFails
    <3>1. ~Active
      BY <2>1, <2>3 DEF StartFails
    <3>2. ~Active'
      BY <2>3 DEF StartFails, Active
    <3> QED
      BY <3>1, <3>2
  <2>4. CASE MainStep /\ ~Started /\ ~StartFails
    <3>1. url' = url /\ (S!Stop \/ S!TogglePause \/ UNCHANGED session)
      BY <2>4, MainDoes
    <3>2. S!Stop \/ S!TogglePause => S!Next
      BY DEF S!Next
    <3>3. phase' = phase /\ (cancel => cancel')
      BY <3>1 DEF S!Stop, S!TogglePause, session
    <3> QED
      BY <3>1, <3>2, <3>3 DEF Active
  <2>5. CASE PlayerStep
    <3>1. url' = url /\ S!PlayerStep
      BY <2>5 DEF PlayerStep, OtherVars
    <3>2. S!Next
      BY <3>1 DEF S!Next
    <3>3. cancel' = cancel
      BY <3>1 DEF S!PlayerStep, S!OpenDecoder, S!BeginPlay, S!Publish, S!CloseDecoder, S!End
    <3>4. Active' => Active
      BY <3>1
      DEF S!PlayerStep, S!OpenDecoder, S!BeginPlay, S!Publish, S!CloseDecoder, S!End, Active
    <3> QED
      BY <3>1, <3>2, <3>3, <3>4
  <2> QED
    BY <2>2, <2>3, <2>4, <2>5 DEF Next
<1> QED
  BY <1>1, Invariance, PTL DEF Spec, SessionUndisturbed
=============================================================================
