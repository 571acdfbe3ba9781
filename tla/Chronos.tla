------------------------------- MODULE Chronos -------------------------------
(***************************************************************************)
(* SessionEngine with its Chronos floor controller, driven directly:       *)
(* observations arrive on a media clock that advances one frame at a time, *)
(* and the profile, response-started and response-complete calls may come  *)
(* between any two of them (crates/openlive-runtime/src/lib.rs).           *)
(*                                                                         *)
(* aboveSince and quietSince record what the microphone did, not what the  *)
(* controller remembers of it: they only serve to state the properties.    *)
(***************************************************************************)
EXTENDS Floor

CONSTANTS
  Frame,        \* milliseconds of audio in one observed frame
  Levels,       \* effective speech probabilities that are observed
  ProfileSet,   \* interaction profiles the client may configure
  MaxClock,     \* bound: the media time at which the recording ends
  MaxGen        \* bound: generations that are started

ASSUME ChronosAssumption ==
  /\ Frame \in Nat \ {0} /\ MaxClock \in Nat /\ MaxGen \in Nat
  /\ Levels \subseteq 0..100
  /\ ProfileSet \subseteq Profiles /\ ProfileSet # {}

VARIABLES
  clock,             \* last_media_time_us
  profile,           \* the interaction profile in force
  floor,             \* Chronos::state
  lastBackchannel,   \* last_backchannel_us
  decision,          \* the action the last call decided
  aboveSince,        \* first frame of the current run above SpeechOff, or NoTime
  quietSince         \* first frame of the current run below the on-threshold, or NoTime

vars == <<clock, profile, floor, lastBackchannel, decision, aboveSince, quietSince>>

Observations == [speech : Levels, turnDone : BOOLEAN, final : BOOLEAN]

Init ==
  /\ clock = 0
  /\ profile \in ProfileSet
  /\ floor = Listening
  /\ lastBackchannel = NoTime
  /\ decision = "none"
  /\ aboveSince = NoTime
  /\ quietSince = NoTime

\* A run that goes on keeps its first frame; one that starts does so now.
RunSince(holds, since) ==
  IF ~holds THEN NoTime ELSE IF since = NoTime THEN clock' ELSE since

\* SessionEngine::process on an Observation envelope, one frame later than the
\* one before.
Process(o) ==
  /\ clock < MaxClock
  /\ clock' = clock + Frame
  /\ LET d == Observe(floor, profile, clock', o, lastBackchannel)
     IN  /\ floor' = d.floor
         /\ decision' = d.action
         /\ lastBackchannel' = BackchannelAt(d, clock', lastBackchannel)
  /\ aboveSince' = RunSince(~SpeechStops(o), aboveSince)
  /\ quietSince' = RunSince(~SpeechStarts(profile, o), quietSince)
  /\ UNCHANGED profile

UpdateProfile(p) ==
  /\ profile' = p
  /\ decision' = "none"
  /\ UNCHANGED <<clock, floor, lastBackchannel, aboveSince, quietSince>>

\* The caller starts speaking whatever the floor says.
MarkResponseStarted(g) ==
  /\ floor' = AssistantSpeaking(g)
  /\ decision' = "none"
  /\ UNCHANGED <<clock, profile, lastBackchannel, aboveSince, quietSince>>

MarkResponseComplete(g) ==
  /\ floor' = MarkComplete(floor, g)
  /\ decision' = "none"
  /\ UNCHANGED <<clock, profile, lastBackchannel, aboveSince, quietSince>>

Next ==
  \/ \E o \in Observations : Process(o)
  \/ \E p \in ProfileSet : UpdateProfile(p)
  \/ \E g \in 1..MaxGen : MarkResponseStarted(g)
  \/ \E g \in 1..MaxGen : MarkResponseComplete(g)

Spec == Init /\ [][Next]_vars
-----------------------------------------------------------------------------
\* Every variable keeps to its type, and the times the floor remembers are
\* never ahead of the media clock.
TypeOK ==
  /\ clock \in Nat /\ profile \in Profiles /\ floor \in Floors
  /\ lastBackchannel \in Nat /\ decision \in Actions
  /\ aboveSince \in Nat /\ quietSince \in Nat
  /\ floor.since <= clock /\ floor.silence <= clock /\ lastBackchannel <= clock

\* A barge-in is committed only after speech that never fell to the
\* off-threshold for the whole commit window of the profile in force, even
\* when the profile changed, the overlap was resumed or another generation
\* took the floor meanwhile (observe_soft_ducked).
YieldIsSustained ==
  decision = "hard_yield" =>
    aboveSince # NoTime /\ clock - aboveSince >= BargeInCommitMs(profile)

\* A response is committed only in a pause: no frame reached the on-threshold
\* for at least the pause tolerance of the profile (observe_user_pause and
\* should_commit_response).
ResponseFollowsPause ==
  decision = "start_response" =>
    quietSince # NoTime /\ clock - quietSince >= profile.tolerance

\* An overlap is settled in time: the attenuated state never outlives the
\* longest commit window, however the loudness and the sensitivity move
\* (soft_ducked is reversible, observe_soft_ducked).
DuckIsSettled ==
  floor.mode = "soft_ducked" => clock - floor.since < BargeInCommit + 80
=============================================================================
