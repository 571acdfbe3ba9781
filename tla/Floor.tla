-------------------------------- MODULE Floor --------------------------------
(***************************************************************************)
(* The floor controller's rules, as pure operators: the states of          *)
(* FloorState and what Chronos::observe does in each of them, in           *)
(* crates/openlive-runtime/src/lib.rs.  Chronos drives these rules alone   *)
(* on a media clock; Session drives them inside the gateway's coordinator. *)
(*                                                                         *)
(* Times are media times in milliseconds.  Probabilities are percentages.  *)
(* An observation is a record with                                         *)
(*   speech    the effective speech probability (speech x target x not     *)
(*             echo, already folded),                                      *)
(*   turnDone  turn_completion_confidence reaches turn_commit_threshold,   *)
(*   final     prosodic_finality reaches turn_commit_threshold.            *)
(***************************************************************************)
EXTENDS Naturals

CONSTANTS
  SpeechOn,              \* speech_on_threshold, balanced profile
  SpeechOff,             \* speech_off_threshold
  BargeInCommit,         \* barge_in_commit_ms, balanced profile
  MinimumUserTurn,       \* minimum_user_turn_ms
  BackchannelAfter,      \* backchannel_after_ms
  BackchannelSpacing     \* backchannel_spacing_ms

\* Speech must be able to fall below the threshold that starts it, whatever
\* the sensitivity: ChronosConfig::default() has 34 against 62.
ASSUME FloorAssumption ==
  /\ SpeechOn \in Nat /\ SpeechOff \in Nat
  /\ SpeechOff < 40 /\ SpeechOff + 12 < SpeechOn /\ SpeechOn <= 90
  /\ BargeInCommit \in Nat /\ MinimumUserTurn \in Nat
  /\ BackchannelAfter \in Nat /\ BackchannelSpacing \in Nat
-----------------------------------------------------------------------------
\* Generations are numbered from 1 in the order the gateway creates them.
NoGen == 0

\* A media time that is not known (Option::None).
NoTime == 0

Modes == { "listening", "user_speaking", "user_pause", "response_pending",
           "assistant_speaking", "soft_ducked", "yielded" }

Floors == [mode : Modes, gen : Nat, since : Nat, silence : Nat]

FloorOf(mode, gen, since, silence) ==
  [mode |-> mode, gen |-> gen, since |-> since, silence |-> silence]

Listening            == FloorOf("listening", NoGen, NoTime, NoTime)
UserSpeaking(since)  == FloorOf("user_speaking", NoGen, since, NoTime)
UserPause(since, silence) == FloorOf("user_pause", NoGen, since, silence)
ResponsePending      == FloorOf("response_pending", NoGen, NoTime, NoTime)
AssistantSpeaking(g) == FloorOf("assistant_speaking", g, NoTime, NoTime)
SoftDucked(g, since) == FloorOf("soft_ducked", g, since, NoTime)
Yielded              == FloorOf("yielded", NoGen, NoTime, NoTime)

Sensitivities == {"conservative", "balanced", "responsive"}
Profiles == [sensitivity : Sensitivities, backchannels : BOOLEAN, tolerance : Nat]

Actions == { "none", "listen", "hold_floor", "backchannel", "start_response",
             "replan", "soft_duck", "resume", "hard_yield" }
-----------------------------------------------------------------------------
\* saturating_sub
Elapsed(later, earlier) == IF later >= earlier THEN later - earlier ELSE 0

\* Chronos::speech_on_threshold
SpeechOnThreshold(p) ==
  CASE p.sensitivity = "conservative" -> IF SpeechOn + 10 < 90 THEN SpeechOn + 10 ELSE 90
    [] p.sensitivity = "balanced"     -> SpeechOn
    [] p.sensitivity = "responsive"   -> IF SpeechOn - 12 > 40 THEN SpeechOn - 12 ELSE 40

\* Chronos::barge_in_commit_ms
BargeInCommitMs(p) ==
  CASE p.sensitivity = "conservative" -> BargeInCommit + 80
    [] p.sensitivity = "balanced"     -> BargeInCommit
    [] p.sensitivity = "responsive"   ->
         IF Elapsed(BargeInCommit, 60) > 80 THEN Elapsed(BargeInCommit, 60) ELSE 80

\* Chronos::should_backchannel; "last" is NoTime when there was none.
ShouldBackchannel(p, t, since, last) ==
  /\ p.backchannels
  /\ Elapsed(t, since) >= BackchannelAfter
  /\ last = NoTime \/ Elapsed(t, last) >= BackchannelSpacing

\* Chronos::should_commit_response.  Mutant: the pause is measured from the start
\* of the turn.
CommitFromTurnStart(p, t, since, silence, o) ==
  /\ Elapsed(silence, since) >= MinimumUserTurn
  /\ Elapsed(t, since) >= p.tolerance
  /\ o.turnDone \/ o.final
ShouldCommit(p, t, since, silence, o) ==
  /\ Elapsed(silence, since) >= MinimumUserTurn
  /\ Elapsed(t, silence) >= p.tolerance
  /\ o.turnDone \/ o.final
-----------------------------------------------------------------------------
\* What one observation does: the floor it leaves and the action it decides.
Decide(floor, action) == [floor |-> floor, action |-> action]

SpeechStarts(p, o) == o.speech >= SpeechOnThreshold(p)
SpeechStops(o)     == o.speech <= SpeechOff

ObserveListening(f, p, t, o) ==
  IF SpeechStarts(p, o) THEN Decide(UserSpeaking(t), "listen") ELSE Decide(f, "none")

ObserveUserSpeaking(f, p, t, o, last) ==
  IF SpeechStops(o) THEN Decide(UserPause(f.since, t), "hold_floor")
  ELSE IF ~o.turnDone /\ ShouldBackchannel(p, t, f.since, last) THEN Decide(f, "backchannel")
  ELSE Decide(f, "none")

ObserveUserPause(f, p, t, o) ==
  IF SpeechStarts(p, o) THEN Decide(UserSpeaking(f.since), "listen")
  ELSE IF ShouldCommit(p, t, f.since, f.silence, o) THEN Decide(ResponsePending, "start_response")
  ELSE Decide(f, "none")

ObserveResponsePending(f, p, t, o) ==
  IF SpeechStarts(p, o) THEN Decide(UserSpeaking(t), "replan") ELSE Decide(f, "none")

\* Mutant: an overlap opens the user's turn at once.
OverlapListens(f, p, t, o) ==
  IF SpeechStarts(p, o) THEN Decide(UserSpeaking(t), "listen") ELSE Decide(f, "none")

ObserveAssistantSpeaking(f, p, t, o) ==
  IF SpeechStarts(p, o) THEN Decide(SoftDucked(f.gen, t), "soft_duck") ELSE Decide(f, "none")

\* Mutants: a dip does not end an overlap; only loud speech commits it.
DuckIgnoresDips(f, p, t, o) ==
  IF Elapsed(t, f.since) < BargeInCommitMs(p) THEN Decide(f, "none")
  ELSE Decide(Yielded, "hard_yield")
DuckWaitsForSpeech(f, p, t, o) ==
  IF SpeechStops(o) THEN Decide(AssistantSpeaking(f.gen), "resume")
  ELSE IF Elapsed(t, f.since) < BargeInCommitMs(p) \/ ~SpeechStarts(p, o) THEN Decide(f, "none")
  ELSE Decide(Yielded, "hard_yield")

ObserveSoftDucked(f, p, t, o) ==
  IF SpeechStops(o) THEN Decide(AssistantSpeaking(f.gen), "resume")
  ELSE IF Elapsed(t, f.since) < BargeInCommitMs(p) THEN Decide(f, "none")
  ELSE Decide(Yielded, "hard_yield")

ObserveYielded(f, p, t, o) ==
  IF SpeechStarts(p, o) THEN Decide(UserSpeaking(t), "listen") ELSE Decide(Listening, "none")

\* Chronos::observe
Observe(f, p, t, o, last) ==
  CASE f.mode = "listening"          -> ObserveListening(f, p, t, o)
    [] f.mode = "user_speaking"      -> ObserveUserSpeaking(f, p, t, o, last)
    [] f.mode = "user_pause"         -> ObserveUserPause(f, p, t, o)
    [] f.mode = "response_pending"   -> ObserveResponsePending(f, p, t, o)
    [] f.mode = "assistant_speaking" -> ObserveAssistantSpeaking(f, p, t, o)
    [] f.mode = "soft_ducked"        -> ObserveSoftDucked(f, p, t, o)
    [] f.mode = "yielded"            -> ObserveYielded(f, p, t, o)

\* The last_backchannel_us an observation leaves.  Mutant: when the next one may
\* come instead of when this one came.
NextBackchannelAt(d, t, last) == IF d.action = "backchannel" THEN t + BackchannelSpacing ELSE last
BackchannelAt(d, t, last) == IF d.action = "backchannel" THEN t ELSE last

\* The floor is the assistant's, for generation g.
HeldBy(f, g) == f.mode \in {"assistant_speaking", "soft_ducked"} /\ f.gen = g

\* Chronos::mark_response_complete.  Mutant: an attenuated answer is overlooked.
MarkCompleteUnducked(f, g) == IF f.mode = "assistant_speaking" /\ f.gen = g THEN Listening ELSE f
MarkComplete(f, g) == IF HeldBy(f, g) THEN Listening ELSE f
=============================================================================
