------------------------------- MODULE Session -------------------------------
(***************************************************************************)
(* One realtime connection of the gateway: SessionCoordinator in           *)
(* apps/openlive-gateway/src/session.rs with the parts it owns, the floor  *)
(* controller (Floor), AnswerLeaseManager, PlayoutTracker, RepairContext,  *)
(* StreamingSafety and the task map of TaskOrchestrator.                   *)
(*                                                                         *)
(* The coordinator is one task: it takes a client message or a provider    *)
(* emission from its select loop and runs the handler to its end before it *)
(* takes the next, so a handler is one step even where it awaits a send.   *)
(* Every step leaves in wire what it wrote to the client and in            *)
(* toProvider what it wrote to the provider, in order.                     *)
(*                                                                         *)
(* Providers are left free: an emission may name any generation that was   *)
(* ever started, at any time, in any order, also after a cancel.           *)
(***************************************************************************)
EXTENDS Floor, Sequences

CONSTANTS
  Frame,          \* milliseconds of audio in one input packet
  Levels,         \* effective speech probabilities that are observed
  ProfileSet,     \* interaction profiles the client may configure
  Offsets,        \* media offsets of provider emissions within a generation
  Outputs,        \* kinds of provider output that are observed
  TaskIds,        \* task ids the client may use
  Deadlines,      \* how far ahead a requested deadline lies
  SafetyEnabled,  \* SessionOptions::safety_enabled
  MaxClock,       \* bound: media time at which the microphone stops
  MaxGen          \* bound: generations the session may start

\* What a provider emits for a generation: a text delta that completes no
\* clause, ends with one, goes on after one, or matches the blocklist; the final
\* text; the Generating and Complete states; audio, which is dropped when the
\* client's queue is full; a task result, which tells the whole answer again; any
\* other event.
Deltas == {"partial", "clause", "clause_tail", "blocked"}
Texts  == Deltas \cup {"final"}
ProviderOutputs ==
  Texts \cup {"generating", "complete", "audio", "audio_dropped", "result", "event"}

ASSUME SessionAssumption ==
  /\ Frame \in Nat \ {0} /\ MaxClock \in Nat /\ MaxGen \in Nat
  /\ Levels \subseteq 0..100
  /\ ProfileSet \subseteq Profiles /\ ProfileSet # {}
  /\ Offsets \subseteq Nat /\ Deadlines \subseteq Nat
  /\ Outputs \subseteq ProviderOutputs
  /\ SafetyEnabled \in BOOLEAN

VARIABLES
  open,             \* the select loop runs
  clock,            \* media time of the newest client packet
  profile,          \* engine: interaction profile
  floor,            \* engine: Chronos::state
  lastBackchannel,  \* engine: last_backchannel_us
  leases,           \* AnswerLeaseManager
  issued,           \* generation ids created so far
  active,           \* active_generation, with gen = NoGen for None
  userText,         \* latest_user_text is not empty
  repair,           \* RepairContext::interrupted_generation_id
  playout,          \* PlayoutTracker
  gate,             \* StreamingSafety: whose words it holds, and intervened
  tasks,            \* TaskOrchestrator::active
  completed,        \* TaskOrchestrator::completed
  wire,             \* what the last step sent to the client
  toProvider        \* what the last step sent to the provider

engineVars == <<clock, profile, floor, lastBackchannel>>
answerVars == <<leases, issued, active, userText, repair>>
outputVars == <<playout, gate>>
taskVars   == <<tasks, completed>>
vars == <<open, engineVars, answerVars, outputVars, taskVars, wire, toProvider>>
-----------------------------------------------------------------------------
Gens == 1..MaxGen

NoLease  == [gen |-> NoGen, version |-> 0]
NoActive == [gen |-> NoGen, base |-> 0]
NoTask   == [live |-> FALSE, gen |-> NoGen, deadline |-> 0, evidence |-> {}]
FreshGate == [held |-> {}, intervened |-> FALSE]

Results == {"success", "failure", "cancelled"}

Observations == [speech : Levels, turnDone : BOOLEAN, final : BOOLEAN]

\* Client messages: the kind, the generation it is tagged with, whose words
\* it carries, and the tasks it is about (a batch of outcomes is one message,
\* as the map it comes from has no order).
Message(kind, g, words, about) ==
  [kind |-> kind, gen |-> g, words |-> words, tasks |-> about]
Decision(action, g) == Message(action, g, {}, {})
TaskMessage(kind, about) ==
  IF about = {} THEN <<>> ELSE <<Message(kind, NoGen, {}, about)>>

\* Provider inputs.
Commit(g, version, text, repaired) ==
  [kind |-> "commit", gen |-> g, version |-> version, text |-> text, repair |-> repaired]
Cancel(g) == [kind |-> "cancel", gen |-> g, version |-> 0, text |-> FALSE, repair |-> NoGen]
-----------------------------------------------------------------------------
\* AnswerLeaseManager::begin_user_turn
BeginUserTurn(l) ==
  IF l.turnOpen THEN l
  ELSE [version |-> l.version + 1, turnOpen |-> TRUE, lease |-> NoLease]

\* Mutant of Issue: the user's turn stays open under an answer.
IssueKeepsTurn(l, g) == [l EXCEPT !.lease = [gen |-> g, version |-> l.version]]

\* AnswerLeaseManager::issue
Issue(l, g) ==
  [version |-> l.version, turnOpen |-> FALSE, lease |-> [gen |-> g, version |-> l.version]]

\* AnswerLeaseManager::accepts
Accepts(l, g) == l.lease.gen # NoGen /\ l.lease.gen = g

\* AnswerLeaseManager::revoke
Revoke(l, g) == IF Accepts(l, g) THEN [l EXCEPT !.lease = NoLease] ELSE l

\* RepairContext::take_prompt: what it returns and what it leaves.  Mutant: the
\* interruption is told again with every later commit.
TakePromptKeeps(r) == [prompt |-> r, left |-> r]
TakePrompt(r) == [prompt |-> r, left |-> NoGen]

\* Mutant of Played: what is played is taken off what was sent.
PlayedTakesOff(p, t) == [p EXCEPT !.sent = p.sent - t]

\* PlayoutTracker::sent, ::played, ::cancel, ::is_active
Sent(p, t)   == [p EXCEPT !.sent = IF t > p.sent THEN t ELSE p.sent]
Played(p, t) == [p EXCEPT !.played = IF t > p.played THEN t ELSE p.played]
Silence(p)   == [p EXCEPT !.played = p.sent]
PlayoutActive(p) == p.sent > p.played

\* TaskOrchestrator::bind_pending_to_generation
BindPending(ts, g) ==
  [t \in TaskIds |-> IF ts[t].live /\ ts[t].gen = NoGen THEN [ts[t] EXCEPT !.gen = g] ELSE ts[t]]

\* TaskOrchestrator::admit takes an id once.  Mutant: only unresolved ids count.
AdmissibleAgain(t) == ~tasks[t].live
Admissible(t) == ~tasks[t].live /\ completed[t] = "none"

\* TaskOrchestrator::task_ids_for_generation.  Mutant: every task is meant.
AnyTasks(ts, g) == {t \in TaskIds : ts[t].live}
TasksOf(ts, g) == {t \in TaskIds : ts[t].live /\ ts[t].gen = g}

\* TaskOrchestrator::expire_deadlines selects these.
Expired(ts, now) == {t \in TaskIds : ts[t].live /\ ts[t].deadline <= now}

\* attach_evidence_to_generation: an emitted event proves something for the
\* tasks bound to its generation; evidence is told apart by that generation.
\* Mutant: it is attached to every task.
AttachToAll(ts, g) ==
  [t \in TaskIds |-> IF ts[t].live THEN [ts[t] EXCEPT !.evidence = @ \cup {g}] ELSE ts[t]]
Attach(ts, g) ==
  [t \in TaskIds |->
     IF t \in TasksOf(ts, g) THEN [ts[t] EXCEPT !.evidence = @ \cup {g}] ELSE ts[t]]

\* A task leaves the active map and its result enters the completed one.
Drop(ts, S) == [t \in TaskIds |-> IF t \in S THEN NoTask ELSE ts[t]]
Record(done, S, result) == [t \in TaskIds |-> IF t \in S THEN result ELSE done[t]]
-----------------------------------------------------------------------------
Init ==
  /\ open = TRUE
  /\ clock = 0 /\ profile \in ProfileSet /\ floor = Listening /\ lastBackchannel = NoTime
  /\ leases = [version |-> 0, turnOpen |-> FALSE, lease |-> NoLease]
  /\ issued = 0 /\ active = NoActive /\ userText = FALSE /\ repair = NoGen
  /\ playout = [sent |-> 0, played |-> 0] /\ gate = FreshGate
  /\ tasks = [t \in TaskIds |-> NoTask] /\ completed = [t \in TaskIds |-> "none"]
  /\ wire = <<>> /\ toProvider = <<>>

\* SessionCoordinator::start_response, after the messages in said; f is the
\* floor the handler left and text whether there are words to answer.
StartResponse(f, text, said) ==
  IF active.gen # NoGen
  THEN /\ floor' = f /\ userText' = text
       /\ wire' = said /\ toProvider' = <<>>
       /\ UNCHANGED <<leases, issued, active, repair, tasks>>
  ELSE LET g == issued + 1
       IN  /\ issued < MaxGen
           /\ issued' = g
           /\ leases' = Issue(leases, g)
           /\ floor' = AssistantSpeaking(g)
           /\ tasks' = BindPending(tasks, g)
           /\ active' = [gen |-> g, base |-> clock']
           /\ userText' = FALSE /\ repair' = TakePrompt(repair).left
           /\ wire' = said
           /\ toProvider' = <<Commit(g, leases.version, text, TakePrompt(repair).prompt)>>

\* SessionCoordinator::cancel_response, after the messages in said.
CancelResponse(action, said) ==
  IF active.gen = NoGen
  THEN /\ wire' = said /\ toProvider' = <<>>
       /\ UNCHANGED <<leases, active, repair, playout>>
  ELSE /\ active' = NoActive
       /\ repair' = IF action = "hard_yield" THEN active.gen ELSE repair
       /\ playout' = Silence(playout)
       /\ leases' = Revoke(leases, active.gen)
       /\ toProvider' = <<Cancel(active.gen)>>
       /\ wire' = IF action = "hard_yield"
                  THEN Append(said, Message("output_audio_cancel", active.gen, {}, {}))
                  ELSE said
-----------------------------------------------------------------------------
\* handle_audio_frame, apply_observation and handle_action: one microphone
\* packet, the observation made of it, Chronos's decision and what it causes.
AudioFrame(o) ==
  /\ open /\ clock < MaxClock
  /\ clock' = clock + Frame
  /\ LET d == Observe(floor, profile, clock', o, lastBackchannel)
         tag == IF d.action = "hard_yield" THEN active.gen ELSE NoGen
         said == IF d.action = "none" THEN <<>> ELSE <<Decision(d.action, tag)>>
     IN  /\ lastBackchannel' = BackchannelAt(d, clock', lastBackchannel)
         /\ CASE d.action = "start_response" ->
                   /\ StartResponse(d.floor, userText, said)
                   /\ UNCHANGED playout
              [] d.action \in {"hard_yield", "replan"} ->
                   /\ CancelResponse(d.action, said)
                   /\ floor' = d.floor
                   /\ UNCHANGED <<issued, userText, tasks>>
              [] OTHER ->
                   /\ leases' = IF d.action = "listen" THEN BeginUserTurn(leases) ELSE leases
                   /\ floor' = d.floor
                   /\ wire' = said /\ toProvider' = <<>>
                   /\ UNCHANGED <<issued, active, userText, repair, playout, tasks>>
  /\ UNCHANGED <<open, profile, gate, completed>>

\* handle_user_transcript_delta with words, which ready tells are final and
\* score at least 0.35; an empty transcript scores 0 and changes nothing here.
UserTranscript(ready) ==
  /\ open
  /\ UNCHANGED <<open, clock, profile, lastBackchannel, outputVars, completed>>
  /\ IF ready
     THEN StartResponse(floor, TRUE, <<>>)
     ELSE /\ userText' = TRUE
          /\ wire' = <<>> /\ toProvider' = <<>>
          /\ UNCHANGED <<floor, leases, issued, active, repair, tasks>>

\* handle_client_event on an InteractionDecision that yields or ducks.
ClientBargeIn ==
  /\ open
  /\ CancelResponse("hard_yield", <<>>)
  /\ UNCHANGED <<open, engineVars, issued, userText, gate, taskVars>>

\* handle_client_event on SessionConfigured
Configure(p) ==
  /\ open
  /\ profile' = p
  /\ wire' = <<>> /\ toProvider' = <<>>
  /\ UNCHANGED <<open, clock, floor, lastBackchannel, answerVars, outputVars, taskVars>>

\* handle_client_event on OutputAudioPlayed.  The client acknowledges the end of a
\* packet, where the session noted its start as sent, so it may have played more;
\* what it names is not checked.
AudioPlayed(m) ==
  /\ open
  /\ playout' = Played(playout, m)
  /\ wire' = <<>> /\ toProvider' = <<>>
  /\ UNCHANGED <<open, engineVars, answerVars, gate, taskVars>>
-----------------------------------------------------------------------------
\* handle_task_requested and TaskOrchestrator::admit; bound is the generation
\* the client names, or NoGen.
TaskRequested(t, ahead, bound) ==
  /\ open
  /\ LET new == Admissible(t)
     IN  /\ tasks' = IF new
                     THEN [tasks EXCEPT ![t] = [live |-> TRUE, gen |-> bound,
                                                deadline |-> clock + ahead, evidence |-> {}]]
                     ELSE tasks
         /\ wire' = <<Message(IF new THEN "acknowledged" ELSE "error", NoGen, {}, {t})>>
  /\ toProvider' = <<>>
  /\ UNCHANGED <<open, engineVars, answerVars, outputVars, completed>>

\* handle_task_cancel and TaskOrchestrator::cancel_task
TaskCancelled(t) ==
  /\ open
  /\ LET S == IF tasks[t].live THEN {t} ELSE {}
     IN  /\ tasks' = Drop(tasks, S)
         /\ completed' = Record(completed, S, "cancelled")
         /\ wire' = TaskMessage("cancelled", S)
  /\ toProvider' = <<>>
  /\ UNCHANGED <<open, engineVars, answerVars, outputVars>>
-----------------------------------------------------------------------------
\* What the client is sent for one output of generation g, the safety gate
\* left behind, and whether the provider is told to stop.
Screened(gt, said, stop) == [gate |-> gt, said |-> said, stop |-> stop]
Say(kind, g, words) == <<Message(kind, g, words, {})>>

\* Mutant of ScreenDelta: only the delta itself is judged.
ScreenDeltaForgets(gt, k, g) ==
  IF k = "blocked"
  THEN Screened([held |-> {}, intervened |-> TRUE], Say("final", g, {}), TRUE)
  ELSE IF k = "partial" THEN Screened([gt EXCEPT !.held = @ \cup {g}], <<>>, FALSE)
  ELSE Screened([gt EXCEPT !.held = {}], Say("delta", g, gt.held \cup {g}), FALSE)

\* StreamingSafety::observe_delta and its use in apply_safety_to_event
ScreenDelta(gt, k, g) ==
  LET held == gt.held \cup {g}
  IN  IF gt.intervened \/ k = "blocked"
      THEN Screened([held |-> {}, intervened |-> TRUE], Say("final", g, {}), TRUE)
      ELSE IF k = "partial"
      THEN Screened([gt EXCEPT !.held = held], <<>>, FALSE)
      ELSE Screened([gt EXCEPT !.held = IF k = "clause_tail" THEN {g} ELSE {}],
                    Say("delta", g, held), FALSE)

\* StreamingSafety::finalize and its use in apply_safety_to_event: words still
\* held are sent in place of the provider's final text.
ScreenFinal(gt, g) ==
  IF gt.intervened THEN Screened(gt, Say("final", g, {}), FALSE)
  ELSE Screened(FreshGate, Say("final", g, IF gt.held = {} THEN {g} ELSE gt.held), FALSE)

\* apply_safety_to_event, or the plain forwarding when safety is off.  Only deltas
\* and final texts are screened, whatever else has words.
ScreenEvent(gt, k, g) ==
  CASE SafetyEnabled /\ k \in Deltas -> ScreenDelta(gt, k, g)
    [] SafetyEnabled /\ k = "final"  -> ScreenFinal(gt, g)
    [] ~SafetyEnabled /\ k \in Texts ->
         Screened(gt, Say(IF k = "final" THEN k ELSE "delta", g, {g}), FALSE)
    [] OTHER ->
         Screened(IF SafetyEnabled /\ k = "generating" THEN FreshGate ELSE gt,
                  Say(k, g, IF k = "result" THEN {g} ELSE {}), FALSE)

\* Screened text and the two lifecycle states are evidence (classify_evidence).
IsEvidence(k, said) == k \in Texts \cup {"generating", "complete"} /\ said # <<>>

\* The first checks of handle_provider_emission.  Mutant: the lease, which a
\* completed generation keeps, is the only one.
LeaseAccepts(g) == Accepts(leases, g)
AcceptsEmission(g) == Accepts(leases, g) /\ active.gen = g

\* handle_provider_emission: output k of generation g, at an offset from the
\* moment it was committed.
ProviderEmission(g, k, offset) ==
  /\ open /\ AcceptsEmission(g)
  /\ LET now == active.base + offset
         late == Expired(tasks, now)
         left == Drop(tasks, late)
         isAudio == k \in {"audio", "audio_dropped"}
         muted == isAudio /\ SafetyEnabled /\ gate.intervened
         out == CASE ~isAudio -> ScreenEvent(gate, k, g)
                  [] isAudio /\ (muted \/ k = "audio_dropped") -> Screened(gate, <<>>, FALSE)
                  [] OTHER -> Screened(gate, Say("audio", g, {}), FALSE)
         proved == IF IsEvidence(k, out.said) THEN TasksOf(left, g) ELSE {}
         done == IF k = "complete" THEN TasksOf(left, g) ELSE {}
     IN  /\ gate' = out.gate
         /\ playout' = IF isAudio /\ ~muted THEN Sent(playout, now) ELSE playout
         /\ floor' = IF k = "complete" THEN MarkComplete(floor, g) ELSE floor
         /\ active' = IF k = "complete" THEN NoActive ELSE active
         /\ tasks' = Drop(IF proved = {} THEN left ELSE Attach(left, g), done)
         /\ completed' = Record(Record(completed, late, "failure"), done, "success")
         /\ wire' = TaskMessage("failure", late) \o out.said
                    \o TaskMessage("evidence_link", proved) \o TaskMessage("success", done)
         /\ toProvider' = IF out.stop THEN <<Cancel(g)>> ELSE <<>>
  /\ UNCHANGED <<open, clock, profile, lastBackchannel, leases, issued, userText, repair>>

\* handle_provider_emission returns early: the generation holds no lease or is
\* not the active one.
StaleEmission(g) ==
  /\ open /\ ~AcceptsEmission(g)
  /\ wire' = <<>> /\ toProvider' = <<>>
  /\ UNCHANGED <<open, engineVars, answerVars, outputVars, taskVars>>

\* handle_provider_emission on an event of no generation
ProviderNotice ==
  /\ open
  /\ wire' = Say("event", NoGen, {}) /\ toProvider' = <<>>
  /\ UNCHANGED <<open, engineVars, answerVars, outputVars, taskVars>>

\* Mutant of SessionEnds: the provider is only closed.
SessionEndsSilently ==
  /\ open
  /\ open' = FALSE
  /\ active' = NoActive
  /\ wire' = <<>> /\ toProvider' = <<>>
  /\ UNCHANGED <<engineVars, leases, issued, userText, repair, outputVars, taskVars>>

\* The select loop ends, by either side, and the coordinator closes.
SessionEnds ==
  /\ open
  /\ open' = FALSE
  /\ active' = NoActive
  /\ wire' = <<>>
  /\ toProvider' = IF active.gen = NoGen THEN <<>> ELSE <<Cancel(active.gen)>>
  /\ UNCHANGED <<engineVars, leases, issued, userText, repair, outputVars, taskVars>>
-----------------------------------------------------------------------------
\* The media times output may carry: a commit's time and an offset from it.
MediaTimes == {n * Frame + offset : n \in 0..(MaxClock \div Frame), offset \in Offsets}

\* The ends of packets as long as a frame that start at such times.
PacketEnds == {t + Frame : t \in MediaTimes}

ClientStep ==
  \/ \E o \in Observations : AudioFrame(o)
  \/ \E ready \in BOOLEAN : UserTranscript(ready)
  \/ ClientBargeIn
  \/ \E p \in ProfileSet : Configure(p)
  \/ \E m \in PacketEnds : AudioPlayed(m)
  \/ \E t \in TaskIds, ahead \in Deadlines, bound \in 0..issued : TaskRequested(t, ahead, bound)
  \/ \E t \in TaskIds : TaskCancelled(t)

ProviderStep ==
  \/ \E g \in Gens, k \in Outputs, offset \in Offsets : ProviderEmission(g, k, offset)
  \/ \E g \in Gens : StaleEmission(g)
  \/ ProviderNotice

Next == ClientStep \/ ProviderStep \/ SessionEnds

Spec == Init /\ [][Next]_vars
-----------------------------------------------------------------------------
\* Liveness needs the microphone to go on, and a provider that completes the
\* answer it is asked for; both run outside the coordinator, and its select
\* loop takes what they send.
FairSpec ==
  /\ Spec
  /\ WF_vars(\E o \in Observations : AudioFrame(o))
  /\ WF_vars(\E g \in Gens, offset \in Offsets : ProviderEmission(g, "complete", offset))
-----------------------------------------------------------------------------
\* The kinds of message that carry a generation's answer.
AnswerKinds == {"delta", "final", "audio", "generating", "complete", "result", "event"}

Sends(kind, g) == \E i \in DOMAIN wire : wire[i].kind = kind /\ wire[i].gen = g
Heard == {g \in Gens : \E kind \in AnswerKinds : Sends(kind, g)}

\* Whether the last step committed or cancelled a generation at the provider.
Commits == \E i \in DOMAIN toProvider : toProvider[i].kind = "commit"
Cancels(g) == \E i \in DOMAIN toProvider : toProvider[i].kind = "cancel" /\ toProvider[i].gen = g

\* The last step told the client that the task now has this status.
Announces(t, status) == \E i \in DOMAIN wire : wire[i].kind = status /\ t \in wire[i].tasks
-----------------------------------------------------------------------------
\* Tasks of a session that has created n generations.
TaskRecords(n) ==
  [live : BOOLEAN, gen : 0..n, deadline : Nat, evidence : SUBSET (1..n)]

\* Every variable keeps to its type, no time or mark falls below zero, an answer
\* begins no later than now, and generations are named only once they were created.
TypeOK ==
  /\ open \in BOOLEAN /\ clock \in Nat /\ profile \in Profiles /\ floor \in Floors
  /\ lastBackchannel \in Nat
  /\ leases \in [version : Nat, turnOpen : BOOLEAN, lease : [gen : 0..issued, version : Nat]]
  /\ issued \in 0..MaxGen /\ active \in [gen : 0..issued, base : 0..clock]
  /\ userText \in BOOLEAN /\ repair \in 0..issued
  /\ playout \in [sent : Nat, played : Nat]
  /\ gate \in [held : SUBSET (1..issued), intervened : BOOLEAN]
  /\ tasks \in [TaskIds -> TaskRecords(issued)]
  /\ completed \in [TaskIds -> Results \cup {"none"}]

\* The three owners of a turn agree: while a generation is active the floor is
\* held for it and for no other, it has the lease, and no user turn is open
\* (start_response, cancel_response and completion each change all three).
FloorFollowsGeneration ==
  active.gen # NoGen =>
    /\ active.gen = issued
    /\ HeldBy(floor, active.gen)
    /\ leases.lease = [gen |-> active.gen, version |-> leases.version]
    /\ ~leases.turnOpen

\* A confirmed barge-in leaves nothing of the answer behind: no active
\* generation, no lease and no audio counted as playing, and an interrupted
\* answer is cancelled at the provider and at the client in that same step,
\* even when the client had already cut it short on its own.
YieldSilencesEverything ==
  \A g \in 0..issued : open /\ Sends("hard_yield", g) =>
    /\ active.gen = NoGen /\ leases.lease.gen = NoGen /\ ~PlayoutActive(playout)
    /\ g # NoGen => Cancels(g) /\ Sends("output_audio_cancel", g)

\* A decision to respond always commits a response: Chronos decides it only
\* when no generation is active, so the early return of start_response never
\* swallows the user's turn.
StartDecisionServed == Sends("start_response", NoGen) => Commits

\* The repair context names the newest answer, is never pending while an
\* answer runs, and so is told to the provider at most once (RepairContext).
RepairNamesLastAnswer == repair # NoGen => repair = issued /\ active.gen = NoGen

\* Evidence stays in its turn: a task holds evidence only of the generation it
\* is bound to (attach_evidence_to_generation).
EvidenceStaysInTurn == \A t \in TaskIds : tasks[t].live => tasks[t].evidence \subseteq {tasks[t].gen}

\* The safety gate is "per generation" and "reset on new generation": what is
\* released for a generation holds only words of that generation.
GateIsPerGeneration == \A i \in DOMAIN wire : wire[i].words \subseteq {wire[i].gen}

\* A running answer is cancelled only on the floor controller's own decision to
\* yield.
CancelIsDecided == \A g \in Gens : open /\ Cancels(g) => Sends("hard_yield", g)
-----------------------------------------------------------------------------
\* After an intervention and until the gate is reset, no delta and no final text has
\* words and no audio is sent, whichever generation they belong to (observe_delta and
\* finalize while intervened, the audio path beside them).  A task result is not
\* screened and carries the words of its answer all the same.
InterventionHolds ==
  [][gate.intervened /\ gate'.intervened =>
       \A i \in DOMAIN wire' :
         /\ wire'[i].kind # "audio"
         /\ wire'[i].kind # "result" => wire'[i].words = {}]_vars

\* A generation that stops being active before its Complete state reached the
\* client is cancelled at the provider: no provider is left generating for
\* nobody (cancel_response, close).
CancelReachesProvider ==
  [][\A g \in Gens : active.gen = g /\ active'.gen # g =>
       Sends("complete", g)' \/ Cancels(g)']_vars

\* A task succeeds only when the generation it is bound to completes, never by
\* another turn's completion (complete_tasks_for_generation).
SuccessOnlyByOwnGeneration ==
  [][\A t \in TaskIds : Announces(t, "success")' =>
       \E g \in Gens : /\ active.gen = g /\ Sends("complete", g)'
                      /\ tasks[t].live /\ tasks[t].gen = g]_vars

\* A task whose deadline has elapsed is resolved.
DeadlineEnforced ==
  \A t \in TaskIds : (tasks[t].live /\ tasks[t].deadline <= clock) ~> ~(open /\ tasks[t].live)

\* The session takes turns at answering as AnswerTurns promises: output of a
\* cancelled or completed generation never reaches the client.
Turns == INSTANCE AnswerTurns WITH speaking <- active.gen, started <- issued, heard <- Heard
TurnsSpec == Turns!Spec

\* Every task is acknowledged once and resolved at most once, as announced.
Ledger == INSTANCE TaskLedger WITH
  status <- [t \in TaskIds |-> IF tasks[t].live THEN "acknowledged" ELSE completed[t]],
  news <- {p \in TaskIds \X (Results \cup {"acknowledged"}) : Announces(p[1], p[2])}
LedgerSpec == Ledger!Spec
=============================================================================
