# OpenLive in TLA+

TLA+ models, TLC runs and TLAPS proofs for OpenLive: who holds the floor, which
answer may be heard, what becomes of a task, how an answer travels from the
model to the browser, and what HTTP requests do to the files and maps they
share. `PROJECT.json` names, for every definition that models code, the lines it
stands for.

## The system

OpenLive is a gateway between a browser, which streams microphone packets and
plays audio, and a model provider, which transcribes, thinks and speaks. One
WebSocket is one session, and one session is one `SessionCoordinator`: a task
that takes either a client message or a provider emission from its select loop
(`session.rs`, `run`), runs that handler to its end, and takes the next. Beside
the sessions an HTTP surface serves an agent with tools, memory, a workspace
with a confirmation gate, and pools of research agents.

| Component | State | Operations | Talks to | Correct when |
|---|---|---|---|---|
| Chronos floor controller (`openlive-runtime/src/lib.rs`) | `FloorState`, profile, last backchannel | `observe`, `update_profile`, `mark_response_started`, `mark_response_complete` | called by the coordinator | yields only on sustained speech, answers only into a pause, settles every overlap |
| Answer leases (`lease.rs`) | conversation version, open user turn, lease | `begin_user_turn`, `issue`, `revoke`, `accepts` | called by the coordinator | agree with floor and active generation |
| Safety gate (`safety.rs`) | held words, intervened | `observe_delta`, `finalize`, reset | called on every provider text | one answer's words never pass as another's; no delta and no final text passes after an intervention |
| Session coordinator (`session.rs`) | active generation, latest user text, next sequence number | one handler per client message and per emission | client, provider, store | late output is never heard, a cancelled answer is cancelled everywhere |
| Playout, repair (`session_state.rs`) | high-water marks; interrupted generation | `sent`, `played`, `cancel`; `record_interruption`, `take_prompt` | coordinator | echo prior while audio plays; repair told once |
| Task orchestrator (`session_state.rs`) | active tasks, results, links, resume buffer | admit, bind, attach, expire, cancel, complete, replay | coordinator | one acknowledgement, at most one outcome, evidence of its own turn |
| Transport, registry (`transport.rs`, `session_registry.rs`) | outgoing queue of 64; open sessions | send, try_send, finish, register | coordinator, browser | control messages wait, audio is dropped, a dead session leaves |
| Persistence (`persistence.rs`) | two append-only files per session | append, load | coordinator | what was shown can be read after a crash |
| Browser client (`web/`) | socket, newest number seen, task ledger | connect, resume, request, cancel, apply | coordinator | nothing skipped, nothing twice, the ledger follows the gateway |
| Provider interface (`openlive-provider/src/lib.rs`) | two bounded channels | commit, cancel, audio, close; emissions | host and provider | no circular wait |
| Cascade and mock providers (`openai_compatible.rs`, `mock.rs`) | active response, tasks of each answer | transcribe, complete, segment, speak | host; HTTP services | one voice; `Complete` after the last word was spoken |
| Realtime and Moshi providers (`openai_realtime.rs`, `moshi.rs`) | active generation, one socket | forward inputs, translate events | host; speech model | output belongs to the answer it is named for |
| WebRTC bridge (`webrtc_session.rs`) | active generation, latest text | inbound control and media, emissions | browser, provider | as the coordinator, without leases |
| Agent (`agent_client.rs`, `tools.rs`, `sandbox.rs`) | turns in progress, rings of recent turns | route, tool round, record | HTTP surface, stores | nothing destructive without a yes |
| Stores (`memory_store.rs`, `user_profile.rs`, `pending_actions.rs`, `pool_jobs.rs`, settings in `main.rs`) | JSON files without a lock, locked maps | load, edit, save; queue, take, purge; publish | concurrent requests | edits survive, the first answer counts, the board is true |
| Audio front end (`openlive-audio`) | noise floor, endpointing windows | `analyze`, `observe_with_semantic` | coordinator | numeric |
| Protocol (`openlive-protocol`) | none | encode, decode | all | round trips |
| Desktop shell, replay and benchmark binaries | configuration | start, report | gateway, runtime | I/O |

Hard here: two sources of cancellation (Chronos and the client) over three
owners of a turn (floor, lease, active generation); provider output that is
already in a channel when its answer is cut; a gate whose reset depends on what
the provider emits; deadlines with no timer; tasks that wait for each other
through bounded channels; a connection that breaks between a request and its
receipt; a disk that fills; a kill between two
writes; waits for a provider that does not read; files rewritten by requests that do not know of each
other; a confirmation that crosses another one, its expiry or its eviction.
`hazards` in `PROJECT.json` lists them at their lines with the properties that
cover them.

## Modules

| Module | Models | Run by |
|---|---|---|
| `Floor` | `Chronos`'s rules as pure operators, one per floor state | both below |
| `Chronos` | `SessionEngine` driven directly on a media clock | `MCChronos` |
| `Session` | `SessionCoordinator` with leases, playout, repair, safety gate and tasks | `MCSession` |
| `AnswerTurns` | abstract: answers take turns, an ended one is never heard again | `TurnsSpec` of `Session` |
| `TaskLedger` | abstract: a task is acknowledged once and resolved at most once, as announced | `LedgerSpec` of `Session` |
| `Connection` | a browser and its sessions: numbering, resume buffer, files, queue, writer, registry, broken sockets, a killed gateway, the browser's ledger | `MCConnection` |
| `Host` | both hosts of a provider session and the channels between | `Answering` |
| `Pipelines` | input loop, pipelines and speech workers of cascade and mock, `EXTENDS Host` | `Answering` |
| `Native` | realtime and Moshi over one socket, `EXTENDS Host` | `Answering` |
| `Answering` | the composition of a host with one of the four providers | `MCAnswering` |
| `Documents` | memory, profile and settings: load, edit, truncate, write | `Agent` |
| `Approvals` | workspace files and the pending actions | `Agent` |
| `Crews` | pool jobs, their agents and their board | `Agent` |
| `Agent` | the HTTP requests that change something shared, over the three | `MCAgent` |
| `Chronos_proofs`, `Session_proofs`, `Tasks_proofs`, `Connection_proofs`, `Answering_proofs`, `Documents_proofs`, `Agent_proofs`, `Crews_proofs` | theorems and proofs | tlapm |

How state and actions correspond to the code:

**Chronos, Session.**
- Times are media milliseconds, probabilities percentages. An observation is the
  folded effective speech probability and two truth values, whether the
  completion confidence and the prosodic finality reach `turn_commit_threshold`.
- `Chronos` has a fixed frame; `clock` is `last_media_time_us`. `aboveSince` and
  `quietSince` are history variables that follow the microphone, not the code;
  the properties compare the controller with them.
- `Session` has one action per handler, `AudioFrame` with `apply_observation`
  and `handle_action` inside, as the code runs them before the loop turns.
  `wire` and `toProvider` hold what the last step sent, in order. A generation id
  is a number in the order of creation.
- `ProviderEmission` and `StaleEmission` together are `handle_provider_emission`.
  Any generation that could exist may emit anything at any time, also after a
  cancel, so no property of the session rests on a well-behaved provider.
- The safety gate keeps whose words it holds. A delta completes no clause
  (`partial`), ends with one (`clause`, which a release at the maximum hold
  length also is), goes on after one (`clause_tail`), or matches the blocklist
  with what is held (`blocked`). Every other event is forwarded unscreened, as in
  `apply_safety_to_event`; of these a task result carries the words of its answer.
- `AudioPlayed` takes what the browser reports. The browser acknowledges the end of
  a packet (`audio-session.js:221`) while the session notes its start as sent
  (`session.rs:865`), so more may count as played than as sent; the code compares
  the two and asks no more of them.
- A batch of task outcomes is one message, since the map it comes from has no
  order. Evidence is told apart by the generation it came from.

**Connection** takes apart what `Session` does in one step. A handler leaves a
list of items (`todo`); `Produce` numbers the next one, and, if the code uses
`send_and_buffer`, keeps and persists it; `Push` is the wait for room in the
writer's queue, and the select loop handles nothing else until the list is
empty. Audio is tried once and dropped (`try_send`). Some handlers also wait for
room in the provider's queue (`TakesInput`): a turn that starts or is cut (`Speak`),
an intervention of the gate, and `close`, which does so once or twice after the loop
has been left and before the session is unregistered (`Close`, `Finish`). `HandleControl` is the
writer's send and `handleControl` of `web/app.js`. Every WebSocket is a new
session with a new orchestrator, as in `run`. `AppendJsonl` may write a part of a
line or lose its newline, and `Crash` may come between the two writes of an append;
one bad line fails `load_envelopes_after` for the whole file. What Chronos and the provider decide is reduced to what the browser's
ledger sees: a set of tasks settled, evidence found, or audio.

**Host, Pipelines, Native, Answering.** A host decides freely when to commit,
cancel or close, and then waits for room in `ProviderSession::input`; the
provider waits for room in its output, which only the host drains. `Host` covers
`SessionCoordinator` and `run_webrtc_peer`, told apart by `setting.host`: the
coordinator drops what its lease does not accept, the bridge only what belongs
to another active generation. `Pipelines` has one record per generation with the
place of the pipeline (`pc`), what it has yet to emit (`todo`), the queue of
speech segments and the speech worker (`voice`), so tasks of a cancelled answer
wind down beside the next one. Words are counted, so that "spoken" can be
compared with "shown". `Native` is one task for both directions; the model
behind the socket is external and free.

**Documents, Approvals, Crews, Agent.** A request is a sequence of steps between
which any other request runs. An edit of a document is `Load` (read and edit),
`Truncate` and `Write`, as `fs::write` opens and then writes; `calm` and `ledger`
are history variables with the document that the edits make one after the other
while none overlapped. A map behind a lock is changed in one step, and every
access purges first. `answer` is the history of what became of each action ever
queued. A pool job has its line on the board and its crew; a job started in the
background is announced with the agents asked for, and its task puts the line there
again with those it has (`Begins`). Agents begin in order, at most `Width` at a time.

Abstracted, with what it costs:

- In `Session`: sequence numbers, event ids, latency marks, telemetry, capability
  negotiation, visual input and the errors of a refused client message. An empty
  task intent is rejected like a duplicate. Client events carry the newest media
  time; the code also allows an older one from another client stream, which only
  moves an answer's base time and an interruption's mark. Two branches cannot be
  taken in a session: the floor leaves `response_pending` in the step that enters
  it (the replan is kept in `AudioFrame`), and text that matches the blocklist
  was stopped as a delta before `finalize` (left out).
- In `Host`: streaming safety is off; when silence ends a turn is a free choice,
  which is more than the endpointing tracker allows. Frames of audio to a cascade
  are left out beyond the channel they fill, and `Transcribing`, `TaskCreated`
  and `Reasoning` are one state event. A task result is merged with the final
  text it accompanies.
- In `Connection`: events the ledger does not tell apart are one `Control`.
  Telemetry, which is sent without being kept, behaves like it. The provider's queue
  is the wait for it: how full it is, is a free choice. A kill is of the process;
  what a loss of power leaves of files the system had not written is not modelled.
- In `Agent`: which intent a sentence has, what a search or a page returns, and
  what the model answers are inputs. Saved notes, screenshots and PDFs are tool
  calls that look. Patches of settings within a run, memory writes of pool agents
  that use a model, and polishing passes (no shared state) are left out. So is the
  edit of the settings with which a run or a pool begins (`apply_llm_body`,
  `main.rs:1047`, `1417`, `1496`): it is the edit of the settings route, which
  `Documents` has, made on the way. An edit of the settings fills a field and never
  empties one. Actions
  queued within one request have the same age, and expiry is an action of its
  own. Authentication comes before everything and is left out.

## Runs

| Run | Question | Bounds | Distinct states |
|---|---|---|---|
| `chronos` | Do the timing rules hold against the microphone, with the sensitivity changing between any two frames? | 9 frames of 100 ms, a profile of each sensitivity with tolerances of 300, 200 and 100 ms, levels below, between and above the thresholds, 2 generations | 38,542 |
| `session_core` | Do the owners of a turn agree, is a yield complete, does the session implement `AnswerTurns`? | 5 frames, 3 generations, two levels, output at its commit's time or 150 ms later, text, audio, dropped audio, `Generating` and `Complete`, acknowledgements of any packet's end | 378,527 |
| `session_tasks` | Does the session implement `TaskLedger`; is evidence of its own turn, success of its own generation, an intervention final for what the gate screens? | 2 tasks that the session does not tell apart (symmetric), each due one frame after its request, 2 generations, 2 frames of silence, text (`partial`, `clause`, `blocked`, `final`), audio, task results and `Complete`, client-named and pending bindings | 479,591 |
| `connection` | Does the browser miss nothing, apply nothing twice, agree with the gateway, and find on disk what it was shown? Does a dead session leave the registry? | 1 task with 1 proof, 2 connections, room for 1 message, new work until 3 numbers are given and a cancel or a resume after them, 1 fault (a kill anywhere, also in the middle of an append, or a refused write) | 513,437 |
| `answering` | Does `Complete` mean spoken, does one answer speak, does the host get on, does everything stop? | 4 pairs of host and provider, 2 answers, 2 words, all channels of size 1, 1 event of the model | 461,661 |
| `agent` | What do overlapping requests do to documents, approvals, jobs and rings? | 6 workloads of up to 3 requests in 2 slots, caps of 1 pending action, 3 entries, 3 facts, 3 turns, a memory with two entries of an earlier run, jobs of 1 and 3 agents two at a time, 1 restart | 1,041,134 |
| `session_gate` | Is the gate per generation? (violated) | 2 generations, a provider without `Generating` | |
| `session_authority` | Is a hard cancellation Chronos's alone? (violated) | 2 frames | |
| `session_deadline` | Is an elapsed deadline enforced? (violated) | 1 task, silence | |
| `resume` | Does a receipt survive a reconnect? (violated) | 1 task, 2 connections, no fault | |
| `stale` | Is a revoked answer silent, by whatever name? (violated) | realtime, 2 answers | |
| `yes` | Is a spoken yes about the question asked? (violated) | 1 request at a time | |

Why the bounds are enough:

- `MaxClock` and `MaxGen` end a recording. In `chronos`, 9 frames hold a minimum
  user turn, a pause, an answer, a resumed overlap and a second one that is
  committed under the longest window. In `session_core` the commit window and the
  minimum turn are one frame, and a client's transcript or decision takes no frame, so
  an answer, a barge-in of either kind, the user's turn and the next two answers fit. Three generations are needed for an answer
  that follows one that followed an interrupted one. Output of one generation
  during another needs two, so tasks and the gate have two.
- In `connection` one message of room makes every second send wait; two
  connections are a reconnect; three numbers are an announcement, a receipt and an
  outcome or link in any order, with a replay, whose messages take no numbers of
  their own, between any two and after them, or a cancel that comes too late.
  `MaxSequence` holds between handlers: one that has begun sends all it has to. One
  fault suffices, since a kill ends what a refused write left.
- In `answering`, channels of one place wait as often as possible; the code's 128
  and 8 only delay it. A second answer is what replaces the first.
- In `agent`, two requests in progress are the smallest overlap and every
  property speaks of two; the caps are small enough to be passed. A workload is
  a set of requests that share something; requests of different workloads share
  nothing but the locks.

`CHECK_DEADLOCK FALSE` in all: a session ends, a recording stops, and the last
request is answered.

### What the violated runs show

- `session_gate`: `session.rs:61` calls the gate "Per-generation streaming safety
  gate (reset on new generation)". Nothing in `start_response` resets it. With a
  provider that emits no `Generating` state, as the cascade, words held when an
  answer is cut are released with the next answer, tagged as its own.
- `session_authority`: `docs/architecture.md:61` says Chronos "remains
  authoritative for hard cancellation"; an `InteractionDecision` of the client,
  even `soft_duck`, cancels at once and Chronos still believes that the
  assistant speaks. `YieldSilencesEverything` and `RepairNamesLastAnswer` show
  that the session copes with the disagreement.
- `session_deadline`: the protocol says that the gateway MUST fail a task whose
  deadline elapses; deadlines are looked at only in provider emissions.
- `resume`: the comment at `session.rs:288-292` promises that a client that
  disconnects after sending a task "still sees the receipt when it reconnects".
  Every connection gets a new session with an empty buffer, and the browser
  forgets the old session when it connects, so the replay finds nothing and the
  task stays pending.
- `stale`: `docs/protocol-1.0.md:60` says that a revoked lease "suppresses every
  later output from that generation". The realtime model's events name no
  generation: a `response.done` of a cancelled response that is read after the
  next commit ends the answer just begun.
- `yes`: the release notes describe a confirm gate with "voice yes/no". A tool
  round may queue two actions and shows one; a spoken yes is taken for the newest
  of all sessions, so it can carry out a deletion nobody was asked about.

Consequences of the code that no document excludes, seen while modelling and told
here for whoever changes it:

- A cascade answer whose speech worker fails before the next segment is handed
  over ends without `Complete` and without an error (`openai_compatible.rs:334`);
  the coordinator's active generation stays set until a barge-in.
- Host and realtime or Moshi provider wait for each other when both channels are
  full, since one task serves both (`openai_realtime.rs:182`). `HostGetsOn` is
  therefore stated for the providers with an input loop of their own. If the socket
  breaks then, `close` waits for the same room and the session stays registered.
- The gate is shown deltas and final texts; every other event is forwarded as it is
  (`session.rs:1133`). The cascade's task result carries the whole text of the answer
  (`openai_compatible.rs:569`), and an intervention leaves the answer active, so text
  that was withheld leaves in the result. `InterventionHolds` therefore excepts task
  results.
- Memory, profile and settings are read, changed and written back without a lock:
  of two edits that overlap one is lost, and a restart between the cut and the write
  of a file loses all of it (`memory_store.rs:68`, `main.rs:1779`). `LossNeedsOverlap`
  shows that nothing else loses an edit.
- `completed` of a pool job counts the agents that ended while it runs and those that
  found something at its end, so it may go down, and its `total` changes when its task
  begins (`pool_jobs.rs:56`, `138`, `239`).
- A file that appears between the check and the write of the agent's
  `write_file` is overwritten without a confirmation (`agent_client.rs:1128`).
- Moshi speaks unasked and then invents a generation; the mock ends an empty
  answer with `Complete` and speaks its formant voice after it; a cancelled
  transcription is reported as `transcription_failed`.
- `execute_approved` takes an action before it carries it out, so a failing
  file system loses it (`pending_actions.rs:141`).
- The profile is edited by an index of a page that may be older than the file, so
  another fact than the one shown can change (`user_profile.rs:279`).
- The stream of a pool job ends after 30 seconds while an agent may take 25 and
  agents run eight at a time, so a client may never see the end of a job that
  ends (`main.rs:1197`).
- Links of evidence are told apart by their confidence too, which the documented
  key leaves out (`session_state.rs:414`); the resume buffer is not purged below
  what the client has seen (`session_state.rs:611`).
- Outside the models: the bridge's `Closed` is dropped when 64 messages wait
  (`webrtc_media.rs:235`); the hybrid provider cancels one child with the
  generation it has just given to the other (`hybrid.rs:170`); all calls of Piper
  write one file (`piper_tts.rs:171`).

### Fairness

- `DeadlineEnforced` (`FairSpec` of `Session`): the microphone goes on, since a
  browser captures continuously, and a provider completes the answer it is asked
  for. The select loop of tokio polls its branches in random order, so neither is
  starved. The property fails even so: a task for an answer that never starts
  meets neither.
- `SessionsAreReleased` (`FairSpec` of `Connection`): weak fairness of what one
  session's tasks do by themselves, `Runs(s)`: produce, push, notice a dead
  writer, notice the end of the socket, finish; and `ProvidersTakeInput`: whatever
  waits for room in a provider's queue gets it in the end, because the provider goes
  on reading or has gone. The providers with an input loop of their own do
  (`HostGetsOn`); realtime and Moshi do while their output is taken. Without this the
  property is false, since `close` waits for that room. Nothing is assumed of the
  browser or the disk.
- `HostGetsOn`, `EverythingStops` (`TasksRun` of `Answering`): weak fairness of
  the host's own steps and of the provider's. It stands for the runtime that
  schedules every task, for HTTP requests that end with an answer or after their
  timeout of 90 seconds, and for a socket that drains or breaks. The model never
  has to send anything.
- `Agent` states no liveness.

## Proofs

Eight modules of theorems leave every constant open: thresholds, windows, frame
length, profiles, generations, tasks, queue sizes, sessions, requests, caps and
crew sizes are arbitrary within the named assumptions `FloorAssumption`,
`ChronosAssumption`, `SessionAssumption`, `ConnectionAssumption`,
`HostAssumption`, `PipelinesAssumption`, `NativeAssumption`,
`DocumentsAssumption`, `ApprovalsAssumption`, `CrewsAssumption` and
`AgentAssumption`. The first asks only what the default configuration gives: the
off-threshold lies below every on-threshold. `DocumentsAssumption` asks for room
for one entry and one fact, where the code has 500 and 40: with none, a full list
has no oldest fact to give way to a new one. `AgentAssumption` says what
a request can be: a route with the input it takes, tool calls of the kinds the
tools have, entries of an earlier run marked as such, the actions earlier
requests left numbered by their place, and no session named "model" or "none",
the names the model has for the other stores.

`Chronos_proofs`. None of the three timing properties is inductive: they speak
of a decision, and the state must say what led to it. `IInv` adds what the
history variables know in each floor state: while ducked, the microphone has
been above the off-threshold since the overlap began at the latest; in a pause,
it has been below the on-threshold since the silence began at the latest; and a
duck is younger than the longest window. `Observe` is treated one floor state at
a time, and the properties follow from the step that decided.

`Session_proofs`. `TypeCorrect` is inductive by itself: generations named
anywhere were issued, and the playout marks stay times whatever the client reports.
`Invariance` strengthens `FloorFollowsGeneration` with `HeldFloorIsSilent`: when
the floor is held for a generation that is no longer active, which a client
barge-in brings about, there is no lease and nothing plays. Without it
`YieldSilencesEverything` cannot be shown, since a yield then finds nothing to
cancel. `ImplementsAnswerTurns` shows that each action is a step of
`AnswerTurns` or a stutter, with the active generation as the one speaking:
completion is `Complete`, cancel and close are `Cut`, everything else that
sends answer output is `Speak`. `NobodyGeneratesInVain` goes through the same
steps for the provider's side: whatever takes the active generation away from
the session completed it for the client or leaves a `Cancel` for it.

`Tasks_proofs`. To the tasks and the gate a step of the session is one of four
kinds (`FourKindsOfStep`): plain, a request, a client's cancel, an accepted
emission. `TaskInv` adds to `EvidenceStaysInTurn` that a live task has no result
(`UnresolvedWhileLive`), without which a completion could resolve it twice, and
that only an enabled gate intervenes. The action properties follow kind by kind.
`GateStaysShut` looks at each arm of the gate: a delta and a final text pass without
words, audio not at all, and the arm for other events is the one that sends words,
of task results only.
`ImplementsTaskLedger` shows that each kind is a step of `TaskLedger` or a
stutter: what an emission expires and completes is announced in the same step.

`Connection_proofs`. `NothingSkipped` is about what the browser has seen and says
nothing of what is still under way. The invariant does: of a session whose socket
lives, every number kept is seen, in the queue or waiting (`InLine`), and stands
in front of whatever has a greater number (`OutgoingInOrder`, `WaitingInOrder`),
also when a replay puts an old number behind it again. A number is kept only
while nothing waits and before anything with a greater one exists (`SessionOK`),
so `Produce` keeps the order, `Push` moves the end of it, and `HandleControl`
takes its head. `SeenOK` bounds what was seen of the socket's session by the
newest number, which gives `SeenOnceInOrder`. `FileOK` says that kept numbers are
in the file unless the disk refused one, which gives `SeenCanBeRead` through
every crash. `OutcomesCoincide` needs a second invariant beside it: an outcome a
session still has to send, has in line or keeps for a resume is the one in its
task table (`Honest`), and a table entry once settled stays (`Settles`), so a
replay of any age repeats the truth. With both, `ConnectionTypes` bounds the queue
by its capacity and its numbers by the session's counter.

`Answering_proofs`. `OneVoice` compares any two answers; the invariant names the
one that may speak (`LoopHoldsTheVoice`): a generation with a task alive that is
not canceled is the one the input loop holds. A commit and a cancel revoke the
token of the one they take out of its hands, and every step of a pipeline or a
speech worker `Follows`: it raises no task from the dead. What channels, loops and
pipelines may hold (`Channels`, `Hosts`, `InputLoops`, `Natives`, `Pipes`) gives
`TypesHold`, and with it that no channel overflows. `CompletedIsSpoken` needs to
know where every word is. `Speech` keeps the books of an answer (`Books`): each
word the host wants of an answer of the cascade was shown and spoken, is on its
way in a channel, or is still with the pipeline or its worker, and the end is put
behind all of them (`Answers`). Commits ask for each generation once and in order
(`Questions`), so no second pipeline works for it, and only retired answers are
canceled: an answer the host still listens to is complete when its `Complete`
comes out of the channel.

`Documents_proofs`. A draft may only be compared with what it means if the edits by
index do what they say: remove, move and reorder facts, and add one to a list that
may be full. `EditsMean` says so position by position, for lists of every length.
Forgetting is a recursive function over the places of the list; instead of an
induction theorem, which would need an operator, the proof takes the least place
at which the claim fails (`LeastNumber`). `DocsOK` says that a document that never
was in two hands at once is what its ledger says, and that the one hand that has it
holds the ledger's state after its edit. The attempt to prove it showed that the
first definition of what an edit means left open which of two cases applies to a
fact that is added to a full list and is in it already; it now says which.

`Agent_proofs` rests on both it and `Crews_proofs`. First the approvals:
`PendingOK`: the pending actions are a list of at most one more than the cap, each
unanswered and each with its own id. `Take`, eviction and `Expire` keep it, so an
answered action is out of reach (`AnswersAreFinal`). `ActsAreEntitled`: a request
about to change a file comes from the workspace page or holds an action that was
approved, which stays so by the first theorem (`NothingGoesUnasked`). Then what
requests record (`WInv`). `QuestionsFirst` speaks of what is stored, but a request
that loaded the memory earlier may write it back later, so the order is an
invariant of every copy, stored or in a hand (`DocsOK`, `StoresOK`), and of what
each request has still to do (`OnTime`): as long as it has a question of its turn to
record, no copy anywhere has an answer of that turn, and it never plans an answer
before the question for the same store (`Recording`). No two requests have the same
turn. An entry of an earlier run carries no turn and is ordered by nothing; the code
has no turns either, only roles, so the property speaks of the turns of one run.
`NothingIsLost` is `DocsOK` read at a file that is whole; `AgentTypes` needs `Shape`
and `RingsOK`, that the recent turns are cut at their cap.

`Crews_proofs`. `BoardTellsTheTruth` reads one line of the board; `Truth` relates
it to the crew behind it: what a running job lists as partial are the agents that
ended, its crew are the first `total` agents (`Manned`), and a job whose task has
not begun has none that ended. It is proved for one job at a time, as a step changes one.

Every invariant and every safety property that a passing run checks is stated by a
theorem. Only model-checked, because out of the prover's reach, is liveness, which
needs fairness and `ENABLED`: `SessionsAreReleased`, `HostGetsOn` and
`EverythingStops`. What the runs that expect a violation show is shown by their
counterexamples.

## Plan

Done: the floor, the session with two abstract specifications it implements, the
connection with its browser, the providers with both hosts, and the agent with
its stores; theorems about each.

Left, in this order:

1. WebRTC: the endpointing tracker as a module of its own over levels, composed
   with the bridge, so that "one answer for one utterance" can be stated
   (`webrtc_session.rs:205`).
2. Playback: the client's queue, its acknowledgements and the echo prior
   (`session_state.rs:137`).
3. The hybrid provider over two of the others, Piper's shared file, the peer
   connection of `webrtc_media.rs`, and the header of media packets.
4. Theorems about these modules as they come.

## Not modelled

- The audio front end: filters on floating-point energies. What they decide is a
  free input of `Chronos`, `Session` and `Host`, which is more than they can do.
- Encoding and decoding of the protocol: serde and a fixed header, without state.
- Searching, browsing, MCP, typo correction, prompts and the routing of a sentence
  to an intent: text to text; their results are inputs of `Agent`.
- The hybrid provider, Piper and the peer connection: see the plan.
- Read-only HTTP routes, static files, pages, the desktop shell and the replay and
  benchmark binaries: they hold no state that others share.
