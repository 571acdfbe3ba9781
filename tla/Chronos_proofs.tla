--------------------------- MODULE Chronos_proofs ---------------------------
(***************************************************************************)
(* The floor controller's timing, for every profile, recording and         *)
(* constant: what TLC checks of Chronos on a short one.                    *)
(***************************************************************************)
EXTENDS Chronos, TLAPS

USE FloorAssumption, ChronosAssumption

\* An attenuated answer remembers a moment since which speech has gone on, and
\* a pause one since which it has not: the two links between what the
\* controller stores and what the microphone did.
OverlapIsSpeech ==
  floor.mode = "soft_ducked" => aboveSince # NoTime /\ aboveSince <= floor.since
PauseIsQuiet ==
  floor.mode = "user_pause" => quietSince # NoTime /\ quietSince <= floor.silence

IInv ==
  /\ TypeOK
  /\ aboveSince <= clock /\ quietSince <= clock
  /\ OverlapIsSpeech /\ PauseIsQuiet
  /\ YieldIsSustained /\ ResponseFollowsPause /\ DuckIsSettled
-----------------------------------------------------------------------------
\* Whatever the sensitivity, a frame that starts speech does not stop it
\* (speech_on_threshold stays above speech_off_threshold).
LEMMA StartIsNotStop ==
  ASSUME NEW p \in Profiles, NEW o \in Observations, SpeechStarts(p, o)
  PROVE  ~SpeechStops(o)
<1>1. o.speech \in Nat
  <2>1. o.speech \in Levels
    BY DEF Observations
  <2>2. Levels \subseteq Nat
    BY DEF ChronosAssumption
  <2> QED
    BY <2>1, <2>2
<1>2. SpeechOnThreshold(p) > SpeechOff
  <2>1. p.sensitivity \in {"conservative", "balanced", "responsive"}
    BY DEF Profiles, Sensitivities
  <2> QED
    BY <2>1 DEF SpeechOnThreshold
<1>3. SpeechOnThreshold(p) \in Nat
  <2>1. p.sensitivity \in {"conservative", "balanced", "responsive"}
    BY DEF Profiles, Sensitivities
  <2> QED
    BY <2>1 DEF SpeechOnThreshold
<1> QED
  BY <1>1, <1>2, <1>3 DEF SpeechStarts, SpeechStops

\* No sensitivity waits longer than 80 ms beyond the balanced window to commit
\* a barge-in (barge_in_commit_ms).
LEMMA CommitWindow ==
  ASSUME NEW p \in Profiles
  PROVE  /\ BargeInCommitMs(p) \in Nat
         /\ BargeInCommitMs(p) <= BargeInCommit + 80
<1>1. p.sensitivity \in {"conservative", "balanced", "responsive"}
  BY DEF Profiles, Sensitivities
<1> QED
  BY <1>1 DEF BargeInCommitMs, Elapsed

\* A run that is going on began at a frame that was heard.
LEMMA RunIsPast ==
  ASSUME NEW holds \in BOOLEAN, NEW since \in Nat,
         clock \in Nat, clock' = clock + Frame, since <= clock
  PROVE  /\ RunSince(holds, since) \in Nat
         /\ RunSince(holds, since) <= clock'
         /\ holds => RunSince(holds, since) # NoTime
         /\ holds /\ since # NoTime => RunSince(holds, since) = since
  BY DEF RunSince, NoTime
-----------------------------------------------------------------------------
LEMMA InitInv == Init => IInv
<1> SUFFICES ASSUME Init PROVE IInv
  OBVIOUS
<1>1. floor = FloorOf("listening", 0, 0, 0)
  BY DEF Init, Listening, NoGen, NoTime
<1>2. floor \in Floors /\ floor.mode = "listening" /\ floor.since = 0 /\ floor.silence = 0
  BY <1>1 DEF FloorOf, Floors, Modes
<1>3. profile \in Profiles
  BY DEF Init
<1> QED
  BY <1>2, <1>3 DEF Init, IInv, TypeOK, OverlapIsSpeech, PauseIsQuiet, YieldIsSustained,
    ResponseFollowsPause, DuckIsSettled, NoTime, Actions

\* One frame, by the state the floor is in.
LEMMA ProcessInv ==
  ASSUME IInv, NEW o \in Observations, Process(o)
  PROVE  IInv'
<1> DEFINE d == Observe(floor, profile, clock', o, lastBackchannel)
<1>1. /\ clock \in Nat /\ clock' \in Nat /\ clock' = clock + Frame /\ clock' > 0 /\ clock < clock'
      /\ profile \in Profiles /\ profile' = profile
      /\ floor \in Floors /\ floor' = d.floor
      /\ lastBackchannel \in Nat
      /\ decision' = d.action
      /\ floor.since <= clock /\ floor.silence <= clock /\ lastBackchannel <= clock
      /\ floor.since \in Nat /\ floor.silence \in Nat /\ floor.gen \in Nat
  BY DEF IInv, TypeOK, Process, Floors
<1>2. /\ aboveSince' \in Nat /\ aboveSince' <= clock'
      /\ ~SpeechStops(o) => aboveSince' # NoTime
      /\ ~SpeechStops(o) /\ aboveSince # NoTime => aboveSince' = aboveSince
  BY RunIsPast DEF IInv, TypeOK, Process, SpeechStops
<1>3. /\ quietSince' \in Nat /\ quietSince' <= clock'
      /\ ~SpeechStarts(profile, o) => quietSince' # NoTime
      /\ ~SpeechStarts(profile, o) /\ quietSince # NoTime => quietSince' = quietSince
  BY RunIsPast DEF IInv, TypeOK, Process, SpeechStarts
<1>4. SpeechStarts(profile, o) => ~SpeechStops(o)
  BY <1>1, StartIsNotStop
<1>5. lastBackchannel' \in Nat /\ lastBackchannel' <= clock'
  BY <1>1 DEF Process, BackchannelAt
\* It is enough to look at the floor and the action.
<1> DEFINE Good ==
      /\ d.floor \in Floors /\ d.action \in Actions
      /\ d.floor.since <= clock' /\ d.floor.silence <= clock'
      /\ d.floor.mode = "soft_ducked" =>
           /\ aboveSince' # NoTime /\ aboveSince' <= d.floor.since
           /\ clock' - d.floor.since < BargeInCommit + 80
      /\ d.floor.mode = "user_pause" => quietSince' # NoTime /\ quietSince' <= d.floor.silence
      /\ d.action = "hard_yield" =>
           aboveSince' # NoTime /\ clock' - aboveSince' >= BargeInCommitMs(profile)
      /\ d.action = "start_response" =>
           quietSince' # NoTime /\ clock' - quietSince' >= profile.tolerance
<1>6. Good
  <2>1. CASE floor.mode = "listening"
    BY <1>1, <2>1 DEF Observe, ObserveListening, Decide, UserSpeaking, FloorOf, Floors, Modes,
      Actions, NoGen, NoTime
  <2>2. CASE floor.mode = "user_speaking"
    BY <1>1, <1>3, <1>4, <2>2 DEF Observe, ObserveUserSpeaking, Decide, UserPause, FloorOf, Floors,
      Modes, Actions, NoGen, NoTime
  <2>3. CASE floor.mode = "user_pause"
    <3>1. quietSince # NoTime /\ quietSince <= floor.silence /\ quietSince \in Nat
      BY <2>3 DEF IInv, PauseIsQuiet, TypeOK
    <3>2. CASE SpeechStarts(profile, o)
      BY <1>1, <2>3, <3>2 DEF Observe, ObserveUserPause, Decide, UserSpeaking, FloorOf, Floors,
        Modes, Actions, NoGen, NoTime
    <3>3. CASE ~SpeechStarts(profile, o)
                 /\ ShouldCommit(profile, clock', floor.since, floor.silence, o)
      <4>1. d = Decide(ResponsePending, "start_response")
        BY <2>3, <3>3 DEF Observe, ObserveUserPause
      <4>2. clock' - quietSince' >= profile.tolerance
        BY <1>1, <1>3, <3>1, <3>3 DEF ShouldCommit, Elapsed, Profiles
      <4> QED
        BY <1>1, <1>3, <3>3, <4>1, <4>2 DEF Decide, ResponsePending, FloorOf, Floors, Modes,
          Actions, NoGen, NoTime
    <3>4. CASE ~SpeechStarts(profile, o)
                 /\ ~ShouldCommit(profile, clock', floor.since, floor.silence, o)
      BY <1>1, <1>3, <2>3, <3>1, <3>4 DEF Observe, ObserveUserPause, Decide, Floors, Actions
    <3> QED
      BY <3>2, <3>3, <3>4
  <2>4. CASE floor.mode = "response_pending"
    BY <1>1, <2>4 DEF Observe, ObserveResponsePending, Decide, UserSpeaking, FloorOf, Floors,
      Modes, Actions, NoGen, NoTime
  <2>5. CASE floor.mode = "assistant_speaking"
    BY <1>1, <1>2, <1>4, <2>5 DEF Observe, ObserveAssistantSpeaking, Decide, SoftDucked, FloorOf,
      Floors, Modes, Actions, NoTime
  <2>6. CASE floor.mode = "soft_ducked"
    <3>1. aboveSince # NoTime /\ aboveSince <= floor.since /\ aboveSince \in Nat
      BY <2>6 DEF IInv, OverlapIsSpeech, TypeOK
    <3>2. CASE SpeechStops(o)
      BY <1>1, <2>6, <3>2 DEF Observe, ObserveSoftDucked, Decide, AssistantSpeaking, FloorOf,
        Floors, Modes, Actions, NoTime
    <3>3. CASE ~SpeechStops(o) /\ Elapsed(clock', floor.since) < BargeInCommitMs(profile)
      <4>1. d = Decide(floor, "none")
        BY <2>6, <3>3 DEF Observe, ObserveSoftDucked
      <4>2. clock' - floor.since < BargeInCommit + 80
        BY <1>1, <3>3, CommitWindow DEF Elapsed
      <4> QED
        BY <1>1, <1>2, <2>6, <3>1, <3>3, <4>1, <4>2 DEF Decide, Actions
    <3>4. CASE ~SpeechStops(o) /\ ~(Elapsed(clock', floor.since) < BargeInCommitMs(profile))
      <4>1. d = Decide(Yielded, "hard_yield")
        BY <2>6, <3>4 DEF Observe, ObserveSoftDucked
      <4>2. clock' - aboveSince' >= BargeInCommitMs(profile)
        BY <1>1, <1>2, <3>1, <3>4, CommitWindow DEF Elapsed
      <4> QED
        BY <1>1, <1>2, <3>4, <4>1, <4>2 DEF Decide, Yielded, FloorOf, Floors, Modes, Actions,
          NoGen, NoTime
    <3> QED
      BY <3>2, <3>3, <3>4
  <2>7. CASE floor.mode = "yielded"
    BY <1>1, <2>7 DEF Observe, ObserveYielded, Decide, UserSpeaking, Listening, FloorOf, Floors,
      Modes, Actions, NoGen, NoTime
  <2> QED
    BY <1>1, <2>1, <2>2, <2>3, <2>4, <2>5, <2>6, <2>7 DEF Floors, Modes
<1> HIDE DEF d
<1> QED
  BY <1>1, <1>2, <1>3, <1>5, <1>6 DEF IInv, TypeOK, OverlapIsSpeech, PauseIsQuiet,
    YieldIsSustained, ResponseFollowsPause, DuckIsSettled

\* The calls of the engine's owner: they decide nothing and leave no overlap or
\* pause that was not there.
LEMMA CallInv ==
  ASSUME IInv,
         \/ \E p \in ProfileSet : UpdateProfile(p)
         \/ \E g \in 1..MaxGen : MarkResponseStarted(g)
         \/ \E g \in 1..MaxGen : MarkResponseComplete(g)
         \/ UNCHANGED vars
  PROVE  IInv'
<1>1. CASE \E p \in ProfileSet : UpdateProfile(p)
  BY <1>1 DEF IInv, UpdateProfile, TypeOK, OverlapIsSpeech, PauseIsQuiet, YieldIsSustained,
    ResponseFollowsPause, DuckIsSettled, Actions
<1>2. CASE \E g \in 1..MaxGen : MarkResponseStarted(g)
  <2>1. PICK g \in 1..MaxGen : MarkResponseStarted(g)
    BY <1>2
  <2>2. floor' = FloorOf("assistant_speaking", g, 0, 0) /\ g \in Nat
    BY <2>1 DEF MarkResponseStarted, AssistantSpeaking, NoTime
  <2>3. /\ floor' \in Floors /\ floor'.mode = "assistant_speaking"
        /\ floor'.since = 0 /\ floor'.silence = 0
    BY <2>2 DEF FloorOf, Floors, Modes
  <2> QED
    BY <2>1, <2>3 DEF IInv, MarkResponseStarted, TypeOK, OverlapIsSpeech, PauseIsQuiet,
      YieldIsSustained, ResponseFollowsPause, DuckIsSettled, Actions
<1>3. CASE \E g \in 1..MaxGen : MarkResponseComplete(g)
  <2>1. PICK g \in 1..MaxGen : MarkResponseComplete(g)
    BY <1>3
  <2>2. \/ floor' = floor
        \/ floor' = FloorOf("listening", 0, 0, 0)
    BY <2>1 DEF MarkResponseComplete, MarkComplete, Listening, NoGen, NoTime
  <2>3. \/ floor' = floor
        \/ /\ floor' \in Floors /\ floor'.mode = "listening"
           /\ floor'.since = 0 /\ floor'.silence = 0
    BY <2>2 DEF FloorOf, Floors, Modes
  <2> QED
    BY <2>1, <2>3 DEF IInv, MarkResponseComplete, TypeOK, OverlapIsSpeech, PauseIsQuiet,
      YieldIsSustained, ResponseFollowsPause, DuckIsSettled, Actions
<1>4. CASE UNCHANGED vars
  BY <1>4 DEF IInv, vars, TypeOK, OverlapIsSpeech, PauseIsQuiet, YieldIsSustained,
    ResponseFollowsPause, DuckIsSettled
<1> QED
  BY <1>1, <1>2, <1>3, <1>4

\* The inductive invariant.
THEOREM Invariance == Spec => []IInv
<1>1. IInv /\ [Next]_vars => IInv'
  BY ProcessInv, CallInv DEF Next
<1> QED
  BY InitInv, <1>1, PTL DEF Spec

\* The controller keeps to its types and never remembers a time ahead of the
\* media clock.
THEOREM TypeCorrect == Spec => []TypeOK
BY Invariance, PTL DEF IInv

\* Chronos never cuts an answer for a blip: a hard yield follows speech that
\* lasted the whole commit window.
THEOREM NoYieldOnABlip == Spec => []YieldIsSustained
BY Invariance, PTL DEF IInv

\* Chronos never answers into speech: a response follows a pause as long as the
\* profile tolerates.
THEOREM NoAnswerIntoSpeech == Spec => []ResponseFollowsPause
BY Invariance, PTL DEF IInv

\* An attenuated answer is resumed or cut within the longest commit window.
THEOREM OverlapIsSettled == Spec => []DuckIsSettled
BY Invariance, PTL DEF IInv
=============================================================================
