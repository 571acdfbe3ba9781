--------------------------- MODULE Session_proofs ---------------------------
(***************************************************************************)
(* The coordinator's safety for every profile, provider, client and bound: *)
(* the floor, the lease and the active generation move together, and the   *)
(* session implements AnswerTurns.                                         *)
(***************************************************************************)
EXTENDS Session, TLAPS

USE FloorAssumption, SessionAssumption

\* The assistant's floor, for whichever generation.
IsHeld(f) == f.mode \in {"assistant_speaking", "soft_ducked"}

\* A floor still held for an answer that is gone is a silent one: this is how
\* the client's own barge-in leaves the controller.
HeldFloorIsSilent ==
  open /\ IsHeld(floor) /\ active.gen = NoGen =>
    leases.lease.gen = NoGen /\ ~PlayoutActive(playout)

\* The inductive invariant is TypeOK with this.
TurnInv ==
  /\ FloorFollowsGeneration
  /\ RepairNamesLastAnswer
  /\ HeldFloorIsSilent
  /\ YieldSilencesEverything
  /\ StartDecisionServed

IInv == TypeOK /\ TurnInv
-----------------------------------------------------------------------------
\* What an observation can do to the floor (Chronos::observe): it gives the
\* floor to no generation, takes it from one only by a hard yield, and decides
\* to respond only in the user's pause.
LEMMA ObserveFloor ==
  ASSUME NEW f \in Floors, NEW p \in Profiles, NEW t \in Nat, NEW o, NEW last \in Nat,
         NEW d, d = Observe(f, p, t, o, last)
  PROVE  /\ d.floor \in Floors /\ d.action \in Actions
         /\ d.action = "start_response" => f.mode = "user_pause"
         /\ d.action = "hard_yield" => f.mode = "soft_ducked" /\ ~IsHeld(d.floor)
         /\ d.action = "replan" => ~IsHeld(f) /\ ~IsHeld(d.floor)
         /\ d.action = "listen" => ~IsHeld(f) /\ ~IsHeld(d.floor)
         /\ IsHeld(d.floor) => IsHeld(f) /\ d.floor.gen = f.gen
         /\ IsHeld(f) /\ d.action # "hard_yield" => IsHeld(d.floor) /\ d.floor.gen = f.gen
<1> USE DEF Decide, FloorOf, Floors, Modes, Actions, IsHeld, NoGen, NoTime
<1>1. CASE f.mode = "listening"
  BY <1>1 DEF Observe, ObserveListening, UserSpeaking
<1>2. CASE f.mode = "user_speaking"
  BY <1>2 DEF Observe, ObserveUserSpeaking, UserPause
<1>3. CASE f.mode = "user_pause"
  BY <1>3 DEF Observe, ObserveUserPause, UserSpeaking, ResponsePending
<1>4. CASE f.mode = "response_pending"
  BY <1>4 DEF Observe, ObserveResponsePending, UserSpeaking
<1>5. CASE f.mode = "assistant_speaking"
  BY <1>5 DEF Observe, ObserveAssistantSpeaking, SoftDucked
<1>6. CASE f.mode = "soft_ducked"
  BY <1>6 DEF Observe, ObserveSoftDucked, AssistantSpeaking, Yielded
<1>7. CASE f.mode = "yielded"
  BY <1>7 DEF Observe, ObserveYielded, UserSpeaking, Listening
<1> QED
  BY <1>1, <1>2, <1>3, <1>4, <1>5, <1>6, <1>7

\* What response-started and response-complete leave of the floor.
LEMMA MarkedFloor ==
  ASSUME NEW f \in Floors, NEW g \in Nat
  PROVE  /\ AssistantSpeaking(g) \in Floors /\ HeldBy(AssistantSpeaking(g), g)
         /\ IsHeld(AssistantSpeaking(g))
         /\ MarkComplete(f, g) \in Floors
         /\ HeldBy(f, g) => ~IsHeld(MarkComplete(f, g))
         /\ IsHeld(MarkComplete(f, g)) => MarkComplete(f, g) = f
<1> USE DEF FloorOf, Floors, Modes, IsHeld, HeldBy, NoGen, NoTime, AssistantSpeaking
<1>1. Listening \in Floors /\ ~IsHeld(Listening)
  BY DEF Listening
<1> QED
  BY <1>1 DEF MarkComplete
-----------------------------------------------------------------------------
\* Task records survive the growth of the generation count, binding, evidence
\* and removal.
LEMMA TaskTypes ==
  ASSUME NEW n \in Nat, NEW ts \in [TaskIds -> TaskRecords(n)], NEW g \in 1..n, NEW S
  PROVE  /\ BindPending(ts, g) \in [TaskIds -> TaskRecords(n)]
         /\ Attach(ts, g) \in [TaskIds -> TaskRecords(n)]
         /\ Drop(ts, S) \in [TaskIds -> TaskRecords(n)]
<1>1. \A t \in TaskIds : ts[t] \in TaskRecords(n)
  OBVIOUS
<1>2. \A t \in TaskIds : [ts[t] EXCEPT !.gen = g] \in TaskRecords(n)
  BY <1>1 DEF TaskRecords
<1>3. \A t \in TaskIds : [ts[t] EXCEPT !.evidence = @ \cup {g}] \in TaskRecords(n)
  BY <1>1 DEF TaskRecords
<1>4. NoTask \in TaskRecords(n)
  BY DEF NoTask, NoGen, TaskRecords
<1> QED
  BY <1>1, <1>2, <1>3, <1>4 DEF BindPending, Attach, Drop

LEMMA TasksGrow ==
  ASSUME NEW n \in Nat, NEW m \in Nat, n <= m, NEW ts \in [TaskIds -> TaskRecords(n)]
  PROVE  ts \in [TaskIds -> TaskRecords(m)]
<1>1. 0..n \subseteq 0..m /\ SUBSET (1..n) \subseteq SUBSET (1..m)
  OBVIOUS
<1>2. TaskRecords(n) \subseteq TaskRecords(m)
  BY <1>1 DEF TaskRecords
<1> QED
  BY <1>2
-----------------------------------------------------------------------------
\* The types start_response and cancel_response keep.
LeaseTypes(n) == [version : Nat, turnOpen : BOOLEAN, lease : [gen : 0..n, version : Nat]]

LEMMA LeaseOps ==
  ASSUME NEW n \in Nat, NEW l \in LeaseTypes(n), NEW g \in 1..n
  PROVE  /\ BeginUserTurn(l) \in LeaseTypes(n)
         /\ Issue(l, g) \in LeaseTypes(n)
         /\ Issue(l, g).lease = [gen |-> g, version |-> Issue(l, g).version]
         /\ ~Issue(l, g).turnOpen
         /\ Revoke(l, g) \in LeaseTypes(n)
         /\ Revoke(l, l.lease.gen).lease.gen = NoGen
<1>1. /\ l \in [version : Nat, turnOpen : BOOLEAN, lease : [gen : 0..n, version : Nat]]
      /\ l.version \in Nat /\ l.turnOpen \in BOOLEAN /\ l.lease.gen \in 0..n
  BY DEF LeaseTypes
<1>2. NoLease \in [gen : 0..n, version : Nat] /\ NoLease.gen = NoGen
  BY DEF NoLease, NoGen
<1>3. BeginUserTurn(l) \in LeaseTypes(n)
  BY <1>1, <1>2 DEF LeaseTypes, BeginUserTurn
<1>4. /\ Issue(l, g) \in LeaseTypes(n)
      /\ Issue(l, g).lease = [gen |-> g, version |-> Issue(l, g).version]
      /\ ~Issue(l, g).turnOpen
  <2>1. [gen |-> g, version |-> l.version] \in [gen : 0..n, version : Nat]
    BY <1>1
  <2>2. /\ Issue(l, g) = [version |-> l.version, turnOpen |-> FALSE,
                          lease |-> [gen |-> g, version |-> l.version]]
    BY <1>1 DEF Issue
  <2> QED
    BY <1>1, <2>1, <2>2 DEF LeaseTypes
<1>5. \A h \in 0..n : Revoke(l, h) \in LeaseTypes(n)
  BY <1>1, <1>2 DEF LeaseTypes, Revoke
<1>6. Revoke(l, l.lease.gen).lease.gen = NoGen
  BY <1>1, <1>2 DEF Revoke, Accepts, NoGen
<1> QED
  BY <1>3, <1>4, <1>5, <1>6

LEMMA StartTypes ==
  ASSUME TypeOK, NEW f \in Floors, NEW text \in BOOLEAN, NEW said,
         clock' \in Nat, clock <= clock', StartResponse(f, text, said)
  PROVE  /\ floor' \in Floors
         /\ leases' \in LeaseTypes(issued') /\ issued' \in 0..MaxGen /\ issued <= issued'
         /\ active' \in [gen : 0..issued', base : 0..clock']
         /\ userText' \in BOOLEAN /\ repair' \in 0..issued'
         /\ tasks' \in [TaskIds -> TaskRecords(issued')]
<1>1. CASE active.gen # NoGen
  BY <1>1 DEF StartResponse, TypeOK, LeaseTypes
<1>2. CASE active.gen = NoGen
  <2>1. /\ issued' = issued + 1 /\ issued < MaxGen /\ issued \in Nat
        /\ leases' = Issue(leases, issued') /\ floor' = AssistantSpeaking(issued')
        /\ tasks' = BindPending(tasks, issued')
        /\ active' = [gen |-> issued', base |-> clock']
        /\ userText' = FALSE /\ repair' = NoGen
    BY <1>2 DEF StartResponse, TypeOK, TakePrompt
  <2>2. issued' \in 1..issued' /\ issued' \in Nat /\ issued <= issued' /\ issued' \in 0..MaxGen
    BY <2>1 DEF SessionAssumption
  <2>3. leases \in LeaseTypes(issued')
    BY <2>1 DEF TypeOK, LeaseTypes
  <2>4. tasks \in [TaskIds -> TaskRecords(issued')]
    BY <2>1, <2>2, TasksGrow DEF TypeOK
  <2>5. floor' \in Floors
    BY <2>1, <2>2, MarkedFloor DEF TypeOK
  <2>6. leases' \in LeaseTypes(issued')
    BY <2>1, <2>2, <2>3, LeaseOps
  <2>7. tasks' \in [TaskIds -> TaskRecords(issued')]
    BY <2>1, <2>2, <2>4, TaskTypes
  <2>8. active' \in [gen : 0..issued', base : 0..clock']
    BY <2>1, <2>2
  <2>9. repair' = 0 /\ 0 \in 0..issued'
    BY <2>1, <2>2 DEF NoGen
  <2>10. userText' \in BOOLEAN
    BY <2>1
  <2> QED
    BY <2>2, <2>5, <2>6, <2>7, <2>8, <2>9, <2>10
<1> QED
  BY <1>1, <1>2

LEMMA CancelTypes ==
  ASSUME TypeOK, NEW action, NEW said, CancelResponse(action, said)
  PROVE  /\ leases' \in LeaseTypes(issued)
         /\ active' \in [gen : 0..issued, base : 0..clock]
         /\ repair' \in 0..issued
         /\ playout' \in [sent : Nat, played : Nat]
<1>1. CASE active.gen = NoGen
  BY <1>1 DEF CancelResponse, TypeOK, LeaseTypes
<1>2. CASE active.gen # NoGen
  <2>1. leases \in LeaseTypes(issued) /\ issued \in Nat /\ active.gen \in 1..issued
    BY <1>2 DEF TypeOK, LeaseTypes, NoGen
  <2>2. Silence(playout) \in [sent : Nat, played : Nat]
    BY DEF TypeOK, Silence
  <2>3. leases' \in LeaseTypes(issued)
    <3>1. Revoke(leases, active.gen) \in LeaseTypes(issued)
      BY <2>1, LeaseOps
    <3> QED
      BY <1>2, <3>1 DEF CancelResponse
  <2>4. active' \in [gen : 0..issued, base : 0..clock]
    BY <1>2 DEF CancelResponse, TypeOK, NoActive, NoGen
  <2>5. repair' \in 0..issued /\ playout' = Silence(playout)
    BY <1>2, <2>1 DEF CancelResponse, TypeOK
  <2> QED
    BY <2>2, <2>3, <2>4, <2>5
<1> QED
  BY <1>1, <1>2
-----------------------------------------------------------------------------
LEMMA InitType == Init => TypeOK
<1> SUFFICES ASSUME Init PROVE TypeOK
  OBVIOUS
<1>1. Listening \in Floors
  BY DEF Listening, FloorOf, Floors, Modes, NoGen, NoTime
<1>2. \A t \in TaskIds : NoTask \in TaskRecords(0)
  BY DEF NoTask, NoGen, TaskRecords
<1>3. tasks \in [TaskIds -> TaskRecords(0)] /\ completed \in [TaskIds -> Results \cup {"none"}]
  BY <1>2 DEF Init
<1>4. profile \in Profiles /\ floor \in Floors /\ issued = 0 /\ issued \in 0..MaxGen
  BY <1>1 DEF Init
<1>5. leases \in LeaseTypes(issued)
  BY <1>4 DEF Init, LeaseTypes, NoLease, NoGen
<1>6. active \in [gen : 0..issued, base : 0..clock] /\ repair \in 0..issued
  BY <1>4 DEF Init, NoActive, NoGen
<1>7. gate \in [held : SUBSET (1..issued), intervened : BOOLEAN]
  BY DEF Init, FreshGate
<1>8. /\ clock \in Nat /\ lastBackchannel \in Nat
      /\ playout \in [sent : Nat, played : Nat]
  BY DEF Init, NoTime
<1>10. open \in BOOLEAN /\ userText \in BOOLEAN
  BY Zenon DEF Init
<1>9. tasks \in [TaskIds -> TaskRecords(issued)]
  BY <1>3, <1>4
<1> QED
  BY <1>3, <1>4, <1>5, <1>6, <1>7, <1>8, <1>9, <1>10 DEF TypeOK, LeaseTypes

LEMMA AudioFrameType ==
  ASSUME TypeOK, NEW o \in Observations, AudioFrame(o)
  PROVE  TypeOK'
<1> DEFINE d == Observe(floor, profile, clock', o, lastBackchannel)
<1>1. /\ clock' \in Nat /\ clock <= clock' /\ clock \in Nat /\ issued \in Nat
      /\ open' \in BOOLEAN /\ profile' \in Profiles
      /\ completed' \in [TaskIds -> Results \cup {"none"}]
      /\ gate' = gate
  <2>1. clock \in Nat /\ Frame \in Nat /\ issued \in Nat
    BY DEF TypeOK
  <2>2. clock' = clock + Frame /\ UNCHANGED <<open, profile, gate, completed>>
    BY DEF AudioFrame
  <2>3. clock' \in Nat /\ clock <= clock'
    BY <2>1, <2>2
  <2> QED
    BY <2>1, <2>2, <2>3 DEF TypeOK
<1>2. d.floor \in Floors
  BY <1>1, ObserveFloor DEF TypeOK
<1>3. lastBackchannel' \in Nat
  BY <1>1 DEF AudioFrame, BackchannelAt, TypeOK
<1>4. CASE d.action = "start_response"
  <2>1. PICK said : StartResponse(d.floor, userText, said) /\ UNCHANGED playout
    BY <1>4 DEF AudioFrame
  <2>2. userText \in BOOLEAN
    BY DEF TypeOK
  <2>3. /\ floor' \in Floors
        /\ leases' \in LeaseTypes(issued') /\ issued' \in 0..MaxGen /\ issued <= issued'
        /\ active' \in [gen : 0..issued', base : 0..clock']
        /\ userText' \in BOOLEAN /\ repair' \in 0..issued'
        /\ tasks' \in [TaskIds -> TaskRecords(issued')]
    BY <1>1, <1>2, <2>1, <2>2, StartTypes
  <2>4. gate' \in [held : SUBSET (1..issued'), intervened : BOOLEAN]
    BY <1>1, <2>3 DEF TypeOK
  <2> QED
    BY <1>1, <1>3, <2>1, <2>3, <2>4 DEF TypeOK, LeaseTypes
<1>5. CASE d.action \in {"hard_yield", "replan"}
  <2>1. PICK said : CancelResponse(d.action, said) /\ floor' = d.floor
                    /\ UNCHANGED <<issued, userText, tasks>>
    BY <1>5 DEF AudioFrame
  <2>2. /\ leases' \in LeaseTypes(issued)
        /\ active' \in [gen : 0..issued, base : 0..clock]
        /\ repair' \in 0..issued
        /\ playout' \in [sent : Nat, played : Nat]
    BY <2>1, CancelTypes
  <2>3. active' \in [gen : 0..issued, base : 0..clock']
    BY <1>1, <2>2
  <2> QED
    BY <1>1, <1>2, <1>3, <2>1, <2>2, <2>3 DEF TypeOK, LeaseTypes
<1>6. CASE d.action \notin {"start_response", "hard_yield", "replan"}
  <2>1. /\ leases' = IF d.action = "listen" THEN BeginUserTurn(leases) ELSE leases
        /\ floor' = d.floor
        /\ UNCHANGED <<issued, active, userText, repair, playout, tasks>>
    BY <1>6 DEF AudioFrame
  <2>2. leases' \in LeaseTypes(issued)
    BY <2>1 DEF TypeOK, LeaseTypes, BeginUserTurn, NoLease, NoGen
  <2>3. active' \in [gen : 0..issued, base : 0..clock']
    BY <1>1, <2>1 DEF TypeOK
  <2> QED
    BY <1>1, <1>2, <1>3, <2>1, <2>2, <2>3 DEF TypeOK, LeaseTypes
<1> QED
  BY <1>4, <1>5, <1>6

LEMMA TranscriptType ==
  ASSUME TypeOK, NEW ready \in BOOLEAN, UserTranscript(ready)
  PROVE  TypeOK'
<1>1. CASE ready
  <2>1. /\ StartResponse(floor, TRUE, <<>>)
        /\ UNCHANGED <<open, clock, profile, lastBackchannel, playout, gate, completed>>
    BY <1>1 DEF UserTranscript, outputVars
  <2>2. clock' \in Nat /\ clock <= clock' /\ floor \in Floors
    BY <2>1 DEF TypeOK
  <2>3. /\ floor' \in Floors
        /\ leases' \in LeaseTypes(issued') /\ issued' \in 0..MaxGen /\ issued <= issued'
        /\ active' \in [gen : 0..issued', base : 0..clock']
        /\ userText' \in BOOLEAN /\ repair' \in 0..issued'
        /\ tasks' \in [TaskIds -> TaskRecords(issued')]
    BY <2>1, <2>2, StartTypes
  <2>4. gate' \in [held : SUBSET (1..issued'), intervened : BOOLEAN]
    BY <2>1, <2>3 DEF TypeOK
  <2> QED
    BY <2>1, <2>3, <2>4 DEF TypeOK, LeaseTypes
<1>2. CASE ~ready
  BY <1>2 DEF UserTranscript, outputVars, TypeOK
<1> QED
  BY <1>1, <1>2

LEMMA EmissionType ==
  ASSUME TypeOK, NEW g \in Gens, NEW k \in Outputs, NEW offset \in Offsets,
         ProviderEmission(g, k, offset)
  PROVE  TypeOK'
<1>1. /\ active.gen = g /\ g \in 1..issued /\ issued \in Nat
      /\ UNCHANGED <<open, clock, profile, lastBackchannel, leases, issued, userText, repair>>
  BY DEF ProviderEmission, AcceptsEmission, Accepts, Gens, TypeOK, NoGen, SessionAssumption
<1>2. floor' \in Floors
  BY <1>1, MarkedFloor DEF ProviderEmission, TypeOK
<1>3. active' \in [gen : 0..issued, base : 0..clock]
  BY <1>1 DEF ProviderEmission, TypeOK, NoActive, NoGen
<1>4. /\ playout' \in [sent : Nat, played : Nat]
  <2>1. active.base + offset \in Nat
    BY DEF TypeOK, SessionAssumption
  <2>2. playout' = playout \/ playout' = Sent(playout, active.base + offset)
    BY DEF ProviderEmission
  <2> QED
    BY <2>1, <2>2 DEF TypeOK, Sent
<1>5. gate' \in [held : SUBSET (1..issued), intervened : BOOLEAN]
  <2>1. /\ gate.held \subseteq 1..issued
        /\ gate \in [held : SUBSET (1..issued), intervened : BOOLEAN]
    BY DEF TypeOK
  <2>2. gate' = gate \/ gate' = ScreenEvent(gate, k, g).gate
    BY DEF ProviderEmission, Screened
  <2>3. ScreenDelta(gate, k, g).gate \in [held : SUBSET (1..issued), intervened : BOOLEAN]
    BY <1>1, <2>1 DEF ScreenDelta, Screened
  <2>4. ScreenFinal(gate, g).gate \in [held : SUBSET (1..issued), intervened : BOOLEAN]
    BY <2>1 DEF ScreenFinal, Screened, FreshGate
  <2>5. ScreenEvent(gate, k, g).gate \in [held : SUBSET (1..issued), intervened : BOOLEAN]
    BY <2>1, <2>3, <2>4 DEF ScreenEvent, Screened, FreshGate
  <2> QED
    BY <2>1, <2>2, <2>5
<1>6. tasks' \in [TaskIds -> TaskRecords(issued)]
  <2> DEFINE left == Drop(tasks, Expired(tasks, active.base + offset))
  <2>1. left \in [TaskIds -> TaskRecords(issued)]
    BY <1>1, TaskTypes DEF TypeOK
  <2>2. PICK done, proved : tasks' = Drop(IF proved = {} THEN left ELSE Attach(left, g), done)
    BY DEF ProviderEmission
  <2> HIDE DEF left
  <2>3. Attach(left, g) \in [TaskIds -> TaskRecords(issued)]
    BY <1>1, <2>1, TaskTypes
  <2> QED
    BY <1>1, <2>1, <2>2, <2>3, TaskTypes
<1>7. completed' \in [TaskIds -> Results \cup {"none"}]
  BY DEF ProviderEmission, Record, Results, TypeOK
<1> QED
  BY <1>1, <1>2, <1>3, <1>4, <1>5, <1>6, <1>7 DEF TypeOK

LEMMA PacketEndsAreTimes == PacketEnds \subseteq Nat
<1> SUFFICES ASSUME NEW n \in 0..(MaxClock \div Frame), NEW offset \in Offsets
             PROVE  n * Frame + offset + Frame \in Nat
  BY DEF PacketEnds, MediaTimes
<1>1. offset \in Nat /\ n \in Nat /\ Frame \in Nat
  OBVIOUS
<1>2. n * Frame \in Nat
  BY <1>1
<1> QED
  BY <1>1, <1>2

\* Every step keeps the types; the steps without a lemma of their own change
\* little.
LEMMA StepType == TypeOK /\ [Next]_vars => TypeOK'
<1> SUFFICES ASSUME TypeOK, [Next]_vars PROVE TypeOK'
  OBVIOUS
<1>1. ASSUME NEW o \in Observations, AudioFrame(o) PROVE TypeOK'
  BY <1>1, AudioFrameType
<1>2. ASSUME NEW ready \in BOOLEAN, UserTranscript(ready) PROVE TypeOK'
  BY <1>2, TranscriptType
<1>3. CASE ClientBargeIn
  <2>1. /\ leases' \in LeaseTypes(issued)
        /\ active' \in [gen : 0..issued, base : 0..clock]
        /\ repair' \in 0..issued
        /\ playout' \in [sent : Nat, played : Nat]
    BY <1>3, CancelTypes DEF ClientBargeIn
  <2> QED
    BY <1>3, <2>1 DEF ClientBargeIn, engineVars, taskVars, TypeOK, LeaseTypes
<1>4. ASSUME NEW p \in ProfileSet, Configure(p) PROVE TypeOK'
  BY <1>4 DEF Configure, answerVars, outputVars, taskVars, TypeOK, SessionAssumption
<1>5. ASSUME NEW m \in PacketEnds, AudioPlayed(m) PROVE TypeOK'
  <2>1. playout' = [playout EXCEPT !.played = IF m > playout.played THEN m ELSE playout.played]
        /\ m \in Nat
    <3>1. m \in Nat
      BY PacketEndsAreTimes
    <3> QED
      BY <1>5, <3>1 DEF AudioPlayed, Played, TypeOK
  <2> QED
    BY <1>5, <2>1 DEF AudioPlayed, engineVars, answerVars, taskVars, TypeOK
<1>6. ASSUME NEW t \in TaskIds, NEW ahead \in Deadlines, NEW bound \in 0..issued,
             TaskRequested(t, ahead, bound)
      PROVE  TypeOK'
  <2>1. [live |-> TRUE, gen |-> bound, deadline |-> clock + ahead, evidence |-> {}]
          \in TaskRecords(issued)
    <3>1. ahead \in Nat /\ clock \in Nat
      BY DEF TypeOK
    <3> QED
      BY <3>1 DEF TaskRecords
  <2>2. tasks' \in [TaskIds -> TaskRecords(issued)]
    BY <1>6, <2>1 DEF TaskRequested, TypeOK
  <2> QED
    BY <1>6, <2>2 DEF TaskRequested, engineVars, answerVars, outputVars, TypeOK
<1>7. ASSUME NEW t \in TaskIds, TaskCancelled(t) PROVE TypeOK'
  <2>1. NoTask \in TaskRecords(issued)
    BY DEF NoTask, NoGen, TaskRecords, TypeOK
  <2>2. tasks' \in [TaskIds -> TaskRecords(issued)]
    BY <1>7, <2>1 DEF TaskCancelled, Drop, TypeOK
  <2>3. completed' \in [TaskIds -> Results \cup {"none"}]
    BY <1>7 DEF TaskCancelled, Record, Results, TypeOK
  <2> QED
    BY <1>7, <2>2, <2>3 DEF TaskCancelled, engineVars, answerVars, outputVars, TypeOK
<1>8. ASSUME NEW g \in Gens, NEW k \in Outputs, NEW offset \in Offsets,
             ProviderEmission(g, k, offset)
      PROVE  TypeOK'
  BY <1>8, EmissionType
<1>9. ASSUME NEW g \in Gens, StaleEmission(g) PROVE TypeOK'
  BY <1>9 DEF StaleEmission, engineVars, answerVars, outputVars, taskVars, TypeOK
<1>10. CASE ProviderNotice
  BY <1>10 DEF ProviderNotice, engineVars, answerVars, outputVars, taskVars, TypeOK
<1>11. CASE SessionEnds
  <2>1. active' \in [gen : 0..issued, base : 0..clock]
    BY <1>11 DEF SessionEnds, TypeOK, NoActive, NoGen
  <2> QED
    BY <1>11, <2>1 DEF SessionEnds, engineVars, outputVars, taskVars, TypeOK
<1>12. CASE UNCHANGED vars
  BY <1>12 DEF vars, engineVars, answerVars, outputVars, taskVars, TypeOK
<1> QED
  BY <1>1, <1>2, <1>3, <1>4, <1>5, <1>6, <1>7, <1>8, <1>9, <1>10, <1>11, <1>12
    DEF Next, ClientStep, ProviderStep

\* The coordinator keeps its types: an answer begins no later than now, generations
\* are named only once they were created, and no time or mark falls below zero,
\* whatever the client acknowledges.
THEOREM TypeCorrect == Spec => []TypeOK
BY InitType, StepType, PTL DEF Spec
-----------------------------------------------------------------------------
\* What is sent for an output of generation g: no decision of the floor
\* controller, and nothing of another generation's answer.
EmissionKinds == ProviderOutputs \cup {"delta", "failure", "evidence_link", "success"}
EmissionMessages(g) ==
  {m \in [kind : EmissionKinds, gen : Nat, words : SUBSET Nat, tasks : SUBSET TaskIds] :
     m.kind \in AnswerKinds => m.gen = g}

\* A task message is none, or one that carries no answer.
LEMMA TaskMessages ==
  ASSUME NEW g \in Nat, NEW kind \in {"failure", "evidence_link", "success"},
         NEW about \in SUBSET TaskIds
  PROVE  TaskMessage(kind, about) \in Seq(EmissionMessages(g))
<1>1. Message(kind, NoGen, {}, about) \in EmissionMessages(g)
  BY DEF Message, EmissionMessages, EmissionKinds, AnswerKinds, NoGen
<1> QED
  BY <1>1 DEF TaskMessage

\* What the gate lets out is tagged with the generation it came from.
LEMMA ScreenedMessages ==
  ASSUME NEW n \in Nat, NEW g \in 1..n, NEW k \in ProviderOutputs,
         NEW gt \in [held : SUBSET (1..n), intervened : BOOLEAN]
  PROVE  /\ ScreenEvent(gt, k, g).said \in Seq(EmissionMessages(g))
         /\ Say("audio", g, {}) \in Seq(EmissionMessages(g))
<1>1. gt.held \cup {g} \in SUBSET Nat /\ gt.held \in SUBSET Nat /\ {g} \in SUBSET Nat /\ g \in Nat
  OBVIOUS
<1>2. \A kind \in EmissionKinds, words \in SUBSET Nat :
        Say(kind, g, words) \in Seq(EmissionMessages(g))
  <2> SUFFICES ASSUME NEW kind \in EmissionKinds, NEW words \in SUBSET Nat
               PROVE  Message(kind, g, words, {}) \in EmissionMessages(g)
    BY DEF Say
  <2> QED
    BY <1>1 DEF Message, EmissionMessages
<1>3. /\ {"delta", "final", "audio"} \subseteq EmissionKinds /\ k \in EmissionKinds
      /\ <<>> \in Seq(EmissionMessages(g))
  BY DEF EmissionKinds, ProviderOutputs, Texts, Deltas
<1>4. ScreenDelta(gt, k, g).said \in Seq(EmissionMessages(g))
  BY <1>1, <1>2, <1>3 DEF ScreenDelta, Screened
<1>5. ScreenFinal(gt, g).said \in Seq(EmissionMessages(g))
  BY <1>1, <1>2, <1>3 DEF ScreenFinal, Screened
<1>6. ScreenEvent(gt, k, g).said \in Seq(EmissionMessages(g))
  BY <1>1, <1>2, <1>3, <1>4, <1>5 DEF ScreenEvent, Screened
<1> QED
  BY <1>2, <1>3, <1>6

LEMMA EmissionWire ==
  ASSUME TypeOK, NEW g \in Gens, NEW k \in Outputs, NEW offset \in Offsets,
         ProviderEmission(g, k, offset)
  PROVE  /\ wire' \in Seq(EmissionMessages(g))
         /\ k = "complete" => Sends("complete", g)'
<1> DEFINE M == Seq(EmissionMessages(g))
<1>1. g \in 1..issued /\ issued \in Nat /\ g \in Nat /\ k \in ProviderOutputs
  BY DEF ProviderEmission, AcceptsEmission, Accepts, Gens, TypeOK, NoGen
<1> DEFINE late == Expired(tasks, active.base + offset)
           mine == TasksOf(Drop(tasks, late), g)
           isAudio == k \in {"audio", "audio_dropped"}
           muted == isAudio /\ SafetyEnabled /\ gate.intervened
           said == (CASE ~isAudio -> ScreenEvent(gate, k, g)
                      [] isAudio /\ (muted \/ k = "audio_dropped") -> Screened(gate, <<>>, FALSE)
                      [] OTHER -> Screened(gate, Say("audio", g, {}), FALSE)).said
           proved == IF IsEvidence(k, said) THEN mine ELSE {}
           done == IF k = "complete" THEN mine ELSE {}
<1>2. /\ wire' = TaskMessage("failure", late) \o said
                  \o TaskMessage("evidence_link", proved) \o TaskMessage("success", done)
      /\ said = ScreenEvent(gate, k, g).said \/ said = <<>> \/ said = Say("audio", g, {})
      /\ k = "complete" => said = ScreenEvent(gate, k, g).said
      /\ late \in SUBSET TaskIds /\ proved \in SUBSET TaskIds /\ done \in SUBSET TaskIds
  <2>1. wire' = TaskMessage("failure", late) \o said
                  \o TaskMessage("evidence_link", proved) \o TaskMessage("success", done)
    BY DEF ProviderEmission
  <2>2. /\ said = ScreenEvent(gate, k, g).said \/ said = <<>> \/ said = Say("audio", g, {})
        /\ k = "complete" => said = ScreenEvent(gate, k, g).said
    BY DEF Screened
  <2>3. late \in SUBSET TaskIds /\ mine \in SUBSET TaskIds
    BY DEF Expired, TasksOf
  <2> HIDE DEF late, mine, said
  <2>4. proved \in SUBSET TaskIds /\ done \in SUBSET TaskIds
    BY <2>3
  <2> QED
    BY <2>1, <2>2, <2>3, <2>4
<1> HIDE DEF late, mine, isAudio, muted, said, proved, done
<1>3. said \in M
  <2>1. ScreenEvent(gate, k, g).said \in M /\ Say("audio", g, {}) \in M /\ <<>> \in M
    BY <1>1, ScreenedMessages DEF TypeOK
  <2> QED
    BY <1>2, <2>1
<1>4. /\ TaskMessage("failure", late) \in M /\ TaskMessage("evidence_link", proved) \in M
      /\ TaskMessage("success", done) \in M
  BY <1>1, <1>2, TaskMessages
<1>5. wire' \in M
  BY <1>2, <1>3, <1>4
<1>6. ASSUME k = "complete" PROVE Sends("complete", g)'
  <2>1. said = <<Message("complete", g, {}, {})>>
    BY <1>2, <1>6 DEF ScreenEvent, Screened, Say, Deltas, Texts
  <2> DEFINE i == Len(TaskMessage("failure", late)) + 1
  <2>2. i \in DOMAIN wire' /\ wire'[i] = Message("complete", g, {}, {})
    BY <1>2, <1>3, <1>4, <2>1
  <2> QED
    BY <2>2 DEF Sends, Message
<1> QED
  BY <1>5, <1>6
-----------------------------------------------------------------------------
\* A step whose messages hold no decision of the controller owes the two
\* properties about decisions nothing.
NoDecision == \A i \in DOMAIN wire : wire[i].kind \notin {"hard_yield", "start_response"}

LEMMA WithoutDecision ==
  ASSUME NoDecision'
  PROVE  YieldSilencesEverything' /\ StartDecisionServed'
  BY DEF NoDecision, YieldSilencesEverything, StartDecisionServed, Sends

LEMMA EmissionDecidesNothing ==
  ASSUME TypeOK, NEW g \in Gens, NEW k \in Outputs, NEW offset \in Offsets,
         ProviderEmission(g, k, offset)
  PROVE  NoDecision'
<1>1. wire' \in Seq(EmissionMessages(g))
  BY EmissionWire
<1>2. \A i \in DOMAIN wire' : wire'[i] \in EmissionMessages(g)
  BY <1>1
<1> QED
  BY <1>2 DEF NoDecision, EmissionMessages, EmissionKinds, ProviderOutputs, Texts, Deltas

\* start_response when no answer is running: everything moves to the new one.
LEMMA StartMovesAll ==
  ASSUME TypeOK, NEW f, NEW text, NEW said, StartResponse(f, text, said), active.gen = NoGen
  PROVE  /\ FloorFollowsGeneration' /\ RepairNamesLastAnswer' /\ active'.gen # NoGen
         /\ issued' = issued + 1 /\ active'.gen = issued'
         /\ wire' = said /\ Commits'
<1>1. /\ issued' = issued + 1 /\ issued \in Nat /\ issued' \in Nat \ {0}
      /\ leases' = Issue(leases, issued') /\ floor' = AssistantSpeaking(issued')
      /\ active' = [gen |-> issued', base |-> clock']
      /\ repair' = NoGen /\ wire' = said
      /\ toProvider' = <<Commit(issued', leases.version, text, repair)>>
  BY DEF StartResponse, TypeOK, TakePrompt
<1>2. HeldBy(floor', issued')
  BY <1>1 DEF AssistantSpeaking, FloorOf, HeldBy
<1>3. leases'.lease = [gen |-> issued', version |-> leases'.version] /\ ~leases'.turnOpen
  BY <1>1 DEF Issue
<1>4. Commits'
  <2>1. 1 \in DOMAIN toProvider' /\ toProvider'[1].kind = "commit"
    BY <1>1 DEF Commit
  <2> QED
    BY <2>1 DEF Commits
<1> QED
  BY <1>1, <1>2, <1>3, <1>4 DEF FloorFollowsGeneration, RepairNamesLastAnswer, NoGen

\* cancel_response: nothing of the running answer is left.
LEMMA CancelLeavesNothing ==
  ASSUME TypeOK, FloorFollowsGeneration, RepairNamesLastAnswer,
         NEW action, NEW said, CancelResponse(action, said), issued' = issued
  PROVE  /\ active'.gen = NoGen /\ RepairNamesLastAnswer'
         /\ active.gen # NoGen =>
              /\ leases'.lease.gen = NoGen /\ ~PlayoutActive(playout')
              /\ \A g : g = active.gen => Cancels(g)'
         /\ active.gen = NoGen =>
              leases' = leases /\ playout' = playout /\ wire' = said /\ toProvider' = <<>>
<1>1. CASE active.gen = NoGen
  BY <1>1 DEF CancelResponse, RepairNamesLastAnswer
<1>2. CASE active.gen # NoGen
  <2>1. /\ active' = NoActive /\ playout' = Silence(playout)
        /\ leases' = Revoke(leases, active.gen) /\ toProvider' = <<Cancel(active.gen)>>
        /\ repair' = active.gen \/ repair' = repair
    BY <1>2 DEF CancelResponse
  <2>2. leases'.lease.gen = NoGen
    BY <1>2, <2>1 DEF FloorFollowsGeneration, Revoke, Accepts, NoLease, TypeOK
  <2>3. ~PlayoutActive(playout')
    BY <2>1 DEF Silence, PlayoutActive, TypeOK
  <2>4. toProvider'[1].kind = "cancel" /\ toProvider'[1].gen = active.gen /\ 1 \in DOMAIN toProvider'
    BY <2>1 DEF Cancel
  <2>5. \A g : g = active.gen => Cancels(g)'
    BY <2>4 DEF Cancels
  <2>6. RepairNamesLastAnswer'
    BY <1>2, <2>1 DEF RepairNamesLastAnswer, FloorFollowsGeneration, NoActive, NoGen
  <2> QED
    BY <1>2, <2>1, <2>2, <2>3, <2>5, <2>6 DEF NoActive
<1> QED
  BY <1>1, <1>2
-----------------------------------------------------------------------------
\* One microphone packet, by the decision taken on it.
LEMMA AudioFrameTurn ==
  ASSUME IInv, TypeOK', NEW o \in Observations, AudioFrame(o)
  PROVE  TurnInv'
<1> DEFINE d == Observe(floor, profile, clock', o, lastBackchannel)
           tag == IF d.action = "hard_yield" THEN active.gen ELSE NoGen
           said == IF d.action = "none" THEN <<>> ELSE <<Decision(d.action, tag)>>
<1>1. /\ TypeOK /\ FloorFollowsGeneration /\ RepairNamesLastAnswer /\ HeldFloorIsSilent
      /\ open' = open
  BY DEF IInv, TurnInv, AudioFrame
<1>2. /\ d.floor \in Floors /\ d.action \in Actions
      /\ d.action = "start_response" => floor.mode = "user_pause"
      /\ d.action = "hard_yield" => floor.mode = "soft_ducked" /\ ~IsHeld(d.floor)
      /\ d.action = "replan" => ~IsHeld(floor) /\ ~IsHeld(d.floor)
      /\ d.action = "listen" => ~IsHeld(floor) /\ ~IsHeld(d.floor)
      /\ IsHeld(d.floor) => IsHeld(floor) /\ d.floor.gen = floor.gen
      /\ IsHeld(floor) /\ d.action # "hard_yield" => IsHeld(d.floor) /\ d.floor.gen = floor.gen
  <2>1. clock' \in Nat
    BY DEF TypeOK
  <2> QED
    BY <1>1, <2>1, ObserveFloor DEF TypeOK
<1>3. active.gen # NoGen => IsHeld(floor) /\ floor.gen = active.gen
  BY <1>1 DEF FloorFollowsGeneration, HeldBy, IsHeld
<1>4. CASE d.action = "start_response"
  <2>1. active.gen = NoGen
    BY <1>2, <1>3, <1>4 DEF IsHeld
  <2>2. StartResponse(d.floor, userText, said) /\ said = <<Decision("start_response", NoGen)>>
    BY <1>4 DEF AudioFrame
  <2>3. /\ FloorFollowsGeneration' /\ RepairNamesLastAnswer' /\ active'.gen # NoGen
        /\ wire' = <<Decision("start_response", NoGen)>> /\ Commits'
    BY <1>1, <2>1, <2>2, StartMovesAll
  <2>4. \A i \in DOMAIN wire' : wire'[i].kind = "start_response"
    BY <2>3 DEF Decision, Message
  <2> QED
    BY <2>3, <2>4 DEF TurnInv, HeldFloorIsSilent, YieldSilencesEverything, Sends,
      StartDecisionServed
<1>5. CASE d.action = "hard_yield"
  <2>1. /\ CancelResponse("hard_yield", said) /\ floor' = d.floor /\ issued' = issued
        /\ said = <<Decision("hard_yield", active.gen)>>
    BY <1>5 DEF AudioFrame
  <2>2. IsHeld(floor) /\ ~IsHeld(floor')
    BY <1>2, <1>5, <2>1 DEF IsHeld
  <2>3. /\ active'.gen = NoGen /\ RepairNamesLastAnswer'
        /\ active.gen # NoGen =>
             /\ leases'.lease.gen = NoGen /\ ~PlayoutActive(playout')
             /\ \A g : g = active.gen => Cancels(g)'
        /\ active.gen = NoGen =>
             leases' = leases /\ playout' = playout /\ wire' = said /\ toProvider' = <<>>
    BY <1>1, <2>1, CancelLeavesNothing
  <2>4. open => leases'.lease.gen = NoGen /\ ~PlayoutActive(playout')
    BY <1>1, <2>2, <2>3 DEF HeldFloorIsSilent
  <2>5. active.gen # NoGen =>
          wire' = <<Decision("hard_yield", active.gen),
                    Message("output_audio_cancel", active.gen, {}, {})>>
    BY <2>1 DEF CancelResponse
  <2>6. \A i \in DOMAIN wire' : wire'[i].gen = active.gen /\ wire'[i].kind # "start_response"
    BY <2>1, <2>3, <2>5 DEF Decision, Message
  <2>7. \A g : g = active.gen /\ active.gen # NoGen => Sends("output_audio_cancel", g)'
    <3>1. active.gen # NoGen =>
            2 \in DOMAIN wire' /\ wire'[2] = Message("output_audio_cancel", active.gen, {}, {})
      BY <2>5
    <3> QED
      BY <3>1 DEF Sends, Message
  <2>8. YieldSilencesEverything' /\ StartDecisionServed'
    BY <1>1, <2>3, <2>4, <2>6, <2>7 DEF YieldSilencesEverything, StartDecisionServed, Sends
  <2> QED
    BY <2>2, <2>3, <2>8 DEF TurnInv, FloorFollowsGeneration, HeldFloorIsSilent
<1>6. CASE d.action = "replan"
  <2>1. /\ CancelResponse("replan", said) /\ floor' = d.floor /\ issued' = issued
        /\ said = <<Decision("replan", NoGen)>>
    BY <1>6 DEF AudioFrame
  <2>2. active.gen = NoGen /\ ~IsHeld(floor')
    BY <1>2, <1>3, <1>6, <2>1
  <2>3. active'.gen = NoGen /\ RepairNamesLastAnswer' /\ wire' = said
    BY <1>1, <2>1, <2>2, CancelLeavesNothing
  <2>4. NoDecision'
    BY <2>1, <2>3 DEF NoDecision, Decision, Message
  <2> QED
    BY <2>2, <2>3, <2>4, WithoutDecision DEF TurnInv, FloorFollowsGeneration, HeldFloorIsSilent
<1>7. CASE d.action \notin {"start_response", "hard_yield", "replan"}
  <2>1. /\ leases' = IF d.action = "listen" THEN BeginUserTurn(leases) ELSE leases
        /\ floor' = d.floor /\ wire' = said
        /\ UNCHANGED <<issued, active, userText, repair, playout, tasks>>
    BY <1>7 DEF AudioFrame
  <2>2. NoDecision'
    BY <1>7, <2>1 DEF NoDecision, Decision, Message
  <2>3. active.gen # NoGen => leases' = leases /\ IsHeld(floor') /\ floor'.gen = floor.gen
    BY <1>2, <1>3, <1>7, <2>1
  <2>4. FloorFollowsGeneration'
    BY <1>1, <2>1, <2>3 DEF FloorFollowsGeneration, IsHeld, HeldBy
  <2>5. HeldFloorIsSilent'
    BY <1>1, <1>2, <2>1 DEF HeldFloorIsSilent
  <2>6. RepairNamesLastAnswer'
    BY <1>1, <2>1 DEF RepairNamesLastAnswer
  <2> QED
    BY <2>2, <2>4, <2>5, <2>6, WithoutDecision DEF TurnInv
<1> QED
  BY <1>4, <1>5, <1>6, <1>7

\* The other steps take no decision of the controller.
LEMMA TranscriptTurn ==
  ASSUME IInv, NEW ready \in BOOLEAN, UserTranscript(ready)
  PROVE  TurnInv'
<1>1. /\ TypeOK /\ FloorFollowsGeneration /\ RepairNamesLastAnswer /\ HeldFloorIsSilent
      /\ open' = open /\ playout' = playout
  BY DEF IInv, TurnInv, UserTranscript, outputVars
<1>2. CASE ready /\ active.gen = NoGen
  <2>1. StartResponse(floor, TRUE, <<>>)
    BY <1>2 DEF UserTranscript
  <2>2. /\ FloorFollowsGeneration' /\ RepairNamesLastAnswer' /\ active'.gen # NoGen
        /\ wire' = <<>>
    BY <1>1, <1>2, <2>1, StartMovesAll
  <2>3. NoDecision'
    BY <2>2 DEF NoDecision
  <2> QED
    BY <2>2, <2>3, WithoutDecision DEF TurnInv, HeldFloorIsSilent
<1>3. CASE ~(ready /\ active.gen = NoGen)
  <2>1. /\ UNCHANGED <<floor, leases, issued, active, repair>> /\ wire' = <<>>
    BY <1>3 DEF UserTranscript, StartResponse
  <2>2. NoDecision'
    BY <2>1 DEF NoDecision
  <2>3. FloorFollowsGeneration' /\ RepairNamesLastAnswer' /\ HeldFloorIsSilent'
    BY <1>1, <2>1 DEF FloorFollowsGeneration, RepairNamesLastAnswer, HeldFloorIsSilent
  <2> QED
    BY <2>2, <2>3, WithoutDecision DEF TurnInv
<1> QED
  BY <1>2, <1>3

LEMMA ClientBargeInTurn ==
  ASSUME IInv, ClientBargeIn
  PROVE  TurnInv'
<1>1. /\ TypeOK /\ FloorFollowsGeneration /\ RepairNamesLastAnswer /\ HeldFloorIsSilent
      /\ open' = open /\ floor' = floor /\ issued' = issued /\ CancelResponse("hard_yield", <<>>)
  BY DEF IInv, TurnInv, ClientBargeIn, engineVars
<1>2. /\ active'.gen = NoGen /\ RepairNamesLastAnswer'
      /\ active.gen # NoGen => leases'.lease.gen = NoGen /\ ~PlayoutActive(playout')
      /\ active.gen = NoGen => leases' = leases /\ playout' = playout
  BY <1>1, CancelLeavesNothing
<1>3. NoDecision'
  <2>1. wire' = <<>> \/ wire' = Append(<<>>, Message("output_audio_cancel", active.gen, {}, {}))
    BY <1>1 DEF CancelResponse
  <2> QED
    BY <2>1 DEF NoDecision, Message
<1> QED
  BY <1>1, <1>2, <1>3, WithoutDecision DEF TurnInv, FloorFollowsGeneration, HeldFloorIsSilent

LEMMA EmissionTurn ==
  ASSUME IInv, NEW g \in Gens, NEW k \in Outputs, NEW offset \in Offsets,
         ProviderEmission(g, k, offset)
  PROVE  TurnInv'
<1>1. /\ TypeOK /\ FloorFollowsGeneration /\ RepairNamesLastAnswer
      /\ active.gen = g /\ g # NoGen /\ g \in Nat
      /\ UNCHANGED <<open, leases, issued, repair>>
  BY DEF IInv, TurnInv, ProviderEmission, AcceptsEmission, Accepts, Gens, NoGen
<1>2. NoDecision'
  BY <1>1, EmissionDecidesNothing
<1>3. RepairNamesLastAnswer'
  BY <1>1 DEF RepairNamesLastAnswer
<1>4. CASE k = "complete"
  <2>1. floor' = MarkComplete(floor, g) /\ active' = NoActive
    BY <1>4 DEF ProviderEmission
  <2>2. ~IsHeld(floor')
    BY <1>1, <2>1, MarkedFloor DEF FloorFollowsGeneration, TypeOK
  <2> QED
    BY <1>2, <1>3, <2>1, <2>2, WithoutDecision DEF TurnInv, FloorFollowsGeneration,
      HeldFloorIsSilent, NoActive
<1>5. CASE k # "complete"
  <2>1. floor' = floor /\ active' = active
    BY <1>5 DEF ProviderEmission
  <2> QED
    BY <1>1, <1>2, <1>3, <2>1, WithoutDecision DEF TurnInv, FloorFollowsGeneration,
      HeldFloorIsSilent
<1> QED
  BY <1>4, <1>5

LEMMA SessionEndsTurn ==
  ASSUME IInv, SessionEnds
  PROVE  TurnInv'
<1>1. NoDecision'
  BY DEF SessionEnds, NoDecision
<1> QED
  BY <1>1, WithoutDecision DEF IInv, TurnInv, SessionEnds, NoActive, FloorFollowsGeneration,
    RepairNamesLastAnswer, HeldFloorIsSilent

\* Steps that leave the floor, the lease and the active generation alone, and
\* the audio too unless it is acknowledged.
LEMMA OtherTurn ==
  ASSUME IInv, NoDecision', UNCHANGED <<open, floor, leases, issued, active, repair>>,
         PlayoutActive(playout') => PlayoutActive(playout)
  PROVE  TurnInv'
  BY WithoutDecision DEF IInv, TurnInv, FloorFollowsGeneration, RepairNamesLastAnswer,
    HeldFloorIsSilent

LEMMA InitTurn == Init => TurnInv
<1> SUFFICES ASSUME Init PROVE TurnInv
  OBVIOUS
<1>1. ~IsHeld(floor)
  BY DEF Init, Listening, FloorOf, IsHeld
<1> QED
  BY <1>1 DEF Init, TurnInv, FloorFollowsGeneration, RepairNamesLastAnswer, HeldFloorIsSilent,
    YieldSilencesEverything, StartDecisionServed, Sends, NoActive

LEMMA StepTurn == IInv /\ TypeOK' /\ [Next]_vars => TurnInv'
<1> SUFFICES ASSUME IInv, TypeOK', [Next]_vars PROVE TurnInv'
  OBVIOUS
<1>1. ASSUME NEW o \in Observations, AudioFrame(o) PROVE TurnInv'
  BY <1>1, AudioFrameTurn
<1>2. ASSUME NEW ready \in BOOLEAN, UserTranscript(ready) PROVE TurnInv'
  BY <1>2, TranscriptTurn
<1>3. CASE ClientBargeIn
  BY <1>3, ClientBargeInTurn
<1>4. ASSUME NEW p \in ProfileSet, Configure(p) PROVE TurnInv'
  <2>1. NoDecision'
    BY <1>4 DEF Configure, NoDecision
  <2> QED
    BY <1>4, <2>1, OtherTurn DEF Configure, answerVars, outputVars
<1>5. ASSUME NEW m \in PacketEnds, AudioPlayed(m) PROVE TurnInv'
  <2>1. NoDecision'
    BY <1>5 DEF AudioPlayed, NoDecision
  <2>2. PlayoutActive(playout') => PlayoutActive(playout)
    <3>1. m \in Nat /\ playout \in [sent : Nat, played : Nat]
      BY PacketEndsAreTimes DEF IInv, TypeOK
    <3> QED
      BY <1>5, <3>1 DEF AudioPlayed, Played, PlayoutActive
  <2> QED
    BY <1>5, <2>1, <2>2, OtherTurn DEF AudioPlayed, engineVars, answerVars
<1>6. ASSUME NEW t \in TaskIds, NEW ahead \in Deadlines, NEW bound \in 0..issued,
             TaskRequested(t, ahead, bound)
      PROVE  TurnInv'
  <2>1. NoDecision'
    BY <1>6 DEF TaskRequested, NoDecision, Message
  <2> QED
    BY <1>6, <2>1, OtherTurn DEF TaskRequested, engineVars, answerVars, outputVars
<1>7. ASSUME NEW t \in TaskIds, TaskCancelled(t) PROVE TurnInv'
  <2>1. NoDecision'
    BY <1>7 DEF TaskCancelled, NoDecision, TaskMessage, Message
  <2> QED
    BY <1>7, <2>1, OtherTurn DEF TaskCancelled, engineVars, answerVars, outputVars
<1>8. ASSUME NEW g \in Gens, NEW k \in Outputs, NEW offset \in Offsets,
             ProviderEmission(g, k, offset)
      PROVE  TurnInv'
  BY <1>8, EmissionTurn
<1>9. ASSUME NEW g \in Gens, StaleEmission(g) PROVE TurnInv'
  <2>1. NoDecision'
    BY <1>9 DEF StaleEmission, NoDecision
  <2> QED
    BY <1>9, <2>1, OtherTurn DEF StaleEmission, engineVars, answerVars, outputVars
<1>10. CASE ProviderNotice
  <2>1. NoDecision'
    BY <1>10 DEF ProviderNotice, NoDecision, Say, Message
  <2> QED
    BY <1>10, <2>1, OtherTurn DEF ProviderNotice, engineVars, answerVars, outputVars
<1>11. CASE SessionEnds
  BY <1>11, SessionEndsTurn
<1>12. CASE UNCHANGED vars
  BY <1>12 DEF vars, engineVars, answerVars, outputVars, IInv, TurnInv, FloorFollowsGeneration,
    RepairNamesLastAnswer, HeldFloorIsSilent, YieldSilencesEverything, StartDecisionServed,
    Sends, Cancels, Commits
<1> QED
  BY <1>1, <1>2, <1>3, <1>4, <1>5, <1>6, <1>7, <1>8, <1>9, <1>10, <1>11, <1>12
    DEF Next, ClientStep, ProviderStep

\* The inductive invariant.
THEOREM Invariance == Spec => []IInv
<1>1. Init => IInv
  BY InitType, InitTurn DEF IInv
<1>2. IInv /\ [Next]_vars => IInv'
  BY StepType, StepTurn DEF IInv
<1> QED
  BY <1>1, <1>2, PTL DEF Spec

\* While a generation is active the floor is held for it and it has the lease.
THEOREM TurnsAgree == Spec => []FloorFollowsGeneration
BY Invariance, PTL DEF IInv, TurnInv

\* A confirmed barge-in leaves nothing of the answer behind.
THEOREM YieldIsFinal == Spec => []YieldSilencesEverything
BY Invariance, PTL DEF IInv, TurnInv

\* A decision to respond is never swallowed.
THEOREM DecisionsAreServed == Spec => []StartDecisionServed
BY Invariance, PTL DEF IInv, TurnInv

\* The repair context is told once, and of the newest answer.
THEOREM RepairIsOneShot == Spec => []RepairNamesLastAnswer
BY Invariance, PTL DEF IInv, TurnInv
-----------------------------------------------------------------------------
\* The session implements AnswerTurns: active.gen is the answer being spoken,
\* and what AnswerTurns hears are the generations tagged in wire.
NoAnswer == \A i \in DOMAIN wire : wire[i].kind \notin AnswerKinds

LEMMA WithoutAnswer ==
  ASSUME NoAnswer'
  PROVE  Heard' = {}
  BY DEF NoAnswer, Heard, Sends

\* A step without an answer on the wire starts one, cuts one or is silent.
LEMMA UnheardStep ==
  ASSUME NoAnswer', TypeOK,
         \/ active.gen = 0 /\ issued' = issued + 1 /\ active'.gen = issued'
         \/ active'.gen = 0 /\ issued' = issued
         \/ active'.gen = active.gen /\ issued' = issued
  PROVE  Turns!Next
<1>1. Heard' = {}
  BY WithoutAnswer
<1>2. CASE active.gen = 0 /\ issued' = issued + 1 /\ active'.gen = issued'
  BY <1>1, <1>2 DEF Turns!Next, Turns!Begin
<1>3. CASE active'.gen = 0 /\ issued' = issued /\ active.gen # 0
  BY <1>1, <1>3 DEF Turns!Next, Turns!Cut
<1>4. CASE active'.gen = active.gen /\ issued' = issued
  BY <1>1, <1>4 DEF Turns!Next, Turns!Silence
<1> QED
  BY <1>2, <1>3, <1>4

LEMMA StartIsBegin ==
  ASSUME TypeOK, NEW f, NEW text, NEW said, StartResponse(f, text, said)
  PROVE  /\ \/ active.gen = 0 /\ issued' = issued + 1 /\ active'.gen = issued'
            \/ active'.gen = active.gen /\ issued' = issued
         /\ wire' = said
<1>1. CASE active.gen = NoGen
  BY <1>1, StartMovesAll DEF NoGen
<1>2. CASE active.gen # NoGen
  BY <1>2 DEF StartResponse
<1> QED
  BY <1>1, <1>2

LEMMA CancelIsCut ==
  ASSUME TypeOK, NEW action, NEW said, CancelResponse(action, said)
  PROVE  /\ active'.gen = 0
         /\ \/ wire' = said
            \/ wire' = Append(said, Message("output_audio_cancel", active.gen, {}, {}))
  BY DEF CancelResponse, NoActive, NoGen

LEMMA AudioFrameImplements ==
  ASSUME TypeOK, TypeOK', NEW o \in Observations, AudioFrame(o)
  PROVE  Turns!Next
<1> DEFINE d == Observe(floor, profile, clock', o, lastBackchannel)
           tag == IF d.action = "hard_yield" THEN active.gen ELSE NoGen
           said == IF d.action = "none" THEN <<>> ELSE <<Decision(d.action, tag)>>
<1>1. d.action \in Actions
  <2>1. clock' \in Nat
    BY DEF TypeOK
  <2> QED
    BY <2>1, ObserveFloor DEF TypeOK
<1> HIDE DEF d
<1>2. \/ wire' = said
      \/ wire' = Append(said, Message("output_audio_cancel", active.gen, {}, {}))
  BY StartIsBegin, CancelIsCut DEF AudioFrame, d
<1>3. NoAnswer'
  BY <1>1, <1>2 DEF NoAnswer, Decision, Message, Actions, AnswerKinds
<1>4. CASE d.action = "start_response"
  <2>1. StartResponse(d.floor, userText, said)
    BY <1>4 DEF AudioFrame, d
  <2> QED
    BY <1>3, <2>1, StartIsBegin, UnheardStep
<1>5. CASE d.action \in {"hard_yield", "replan"}
  <2>1. CancelResponse(d.action, said) /\ issued' = issued
    BY <1>5 DEF AudioFrame, d
  <2> QED
    BY <1>3, <2>1, CancelIsCut, UnheardStep
<1>6. CASE d.action \notin {"start_response", "hard_yield", "replan"}
  <2>1. issued' = issued /\ active' = active
    BY <1>6 DEF AudioFrame, d
  <2> QED
    BY <1>3, <2>1, UnheardStep
<1> QED
  BY <1>4, <1>5, <1>6

LEMMA EmissionImplements ==
  ASSUME TypeOK, NEW g \in Gens, NEW k \in Outputs, NEW offset \in Offsets,
         ProviderEmission(g, k, offset)
  PROVE  Turns!Next
<1>1. active.gen = g /\ g # 0 /\ issued' = issued
  BY DEF ProviderEmission, AcceptsEmission, Gens
<1>2. wire' \in Seq(EmissionMessages(g)) /\ (k = "complete" => Sends("complete", g)')
  BY EmissionWire
<1>3. Heard' \subseteq {g}
  <2>1. \A i \in DOMAIN wire' : wire'[i] \in EmissionMessages(g)
    BY <1>2
  <2> QED
    BY <2>1 DEF Heard, Sends, EmissionMessages
<1>4. CASE k = "complete"
  <2>1. active'.gen = 0
    BY <1>4 DEF ProviderEmission, NoActive, NoGen
  <2>2. g \in Heard'
    BY <1>2, <1>4 DEF Heard, AnswerKinds
  <2> QED
    BY <1>1, <1>3, <2>1, <2>2 DEF Turns!Next, Turns!Complete
<1>5. CASE k # "complete"
  <2>1. active' = active
    BY <1>5 DEF ProviderEmission
  <2>2. Heard' = {g} \/ Heard' = {}
    BY <1>3
  <2> QED
    BY <1>1, <2>1, <2>2 DEF Turns!Next, Turns!Speak, Turns!Silence
<1> QED
  BY <1>4, <1>5

LEMMA StepImplements == TypeOK /\ TypeOK' /\ [Next]_vars => [Turns!Next]_Turns!vars
<1> SUFFICES ASSUME TypeOK, TypeOK', [Next]_vars PROVE Turns!Next \/ UNCHANGED Turns!vars
  OBVIOUS
<1>1. ASSUME NEW o \in Observations, AudioFrame(o) PROVE Turns!Next
  BY <1>1, AudioFrameImplements
<1>2. ASSUME NEW ready \in BOOLEAN, UserTranscript(ready) PROVE Turns!Next
  <2>1. /\ \/ active.gen = 0 /\ issued' = issued + 1 /\ active'.gen = issued'
           \/ active'.gen = active.gen /\ issued' = issued
        /\ wire' = <<>>
    BY <1>2, StartIsBegin DEF UserTranscript
  <2> QED
    BY <2>1, UnheardStep DEF NoAnswer
<1>3. CASE ClientBargeIn
  <2>1. /\ active'.gen = 0 /\ issued' = issued
        /\ \/ wire' = <<>>
           \/ wire' = Append(<<>>, Message("output_audio_cancel", active.gen, {}, {}))
    BY <1>3, CancelIsCut DEF ClientBargeIn
  <2>2. NoAnswer'
    BY <2>1 DEF NoAnswer, Message, AnswerKinds
  <2> QED
    BY <2>1, <2>2, UnheardStep
<1>4. ASSUME NEW p \in ProfileSet, Configure(p) PROVE Turns!Next
  BY <1>4, UnheardStep DEF Configure, answerVars, NoAnswer
<1>5. ASSUME NEW m \in PacketEnds, AudioPlayed(m) PROVE Turns!Next
  BY <1>5, UnheardStep DEF AudioPlayed, answerVars, NoAnswer
<1>6. ASSUME NEW t \in TaskIds, NEW ahead \in Deadlines, NEW bound \in 0..issued,
             TaskRequested(t, ahead, bound)
      PROVE  Turns!Next
  <2>1. NoAnswer'
    BY <1>6 DEF TaskRequested, Message, NoAnswer, AnswerKinds
  <2> QED
    BY <1>6, <2>1, UnheardStep DEF TaskRequested, answerVars
<1>7. ASSUME NEW t \in TaskIds, TaskCancelled(t) PROVE Turns!Next
  <2>1. NoAnswer'
    BY <1>7 DEF TaskCancelled, TaskMessage, Message, NoAnswer, AnswerKinds
  <2> QED
    BY <1>7, <2>1, UnheardStep DEF TaskCancelled, answerVars
<1>8. ASSUME NEW g \in Gens, NEW k \in Outputs, NEW offset \in Offsets,
             ProviderEmission(g, k, offset)
      PROVE  Turns!Next
  BY <1>8, EmissionImplements
<1>9. ASSUME NEW g \in Gens, StaleEmission(g) PROVE Turns!Next
  BY <1>9, UnheardStep DEF StaleEmission, answerVars, NoAnswer
<1>10. CASE ProviderNotice
  <2>1. /\ active' = active /\ issued' = issued
        /\ wire' = <<Message("event", 0, {}, {})>>
    BY <1>10 DEF ProviderNotice, answerVars, Say, NoGen
  <2>2. \A i \in DOMAIN wire' : wire'[i].gen = 0
    BY <2>1 DEF Message
  <2>3. Heard' = {}
    BY <2>2 DEF Heard, Sends, Gens
  <2> QED
    BY <2>1, <2>3 DEF Turns!Next, Turns!Silence
<1>11. CASE SessionEnds
  <2>1. active'.gen = 0 /\ issued' = issued /\ NoAnswer'
    BY <1>11 DEF SessionEnds, NoActive, NoGen, NoAnswer
  <2> QED
    BY <2>1, UnheardStep
<1>12. CASE UNCHANGED vars
  <2>1. active' = active /\ issued' = issued /\ wire' = wire
    BY <1>12 DEF vars, answerVars
  <2>2. Heard' = Heard
    BY <2>1 DEF Heard, Sends
  <2> QED
    BY <2>1, <2>2 DEF Turns!vars
<1> QED
  BY <1>1, <1>2, <1>3, <1>4, <1>5, <1>6, <1>7, <1>8, <1>9, <1>10, <1>11, <1>12
    DEF Next, ClientStep, ProviderStep

\* A step that ends the active generation completed it for the client or
\* cancels it at the provider.
Released ==
  \A g \in Gens : active.gen = g /\ active'.gen # g => Sends("complete", g)' \/ Cancels(g)'

\* cancel_response tells the provider.
LEMMA CancelReleases ==
  ASSUME NEW action, NEW said, CancelResponse(action, said)
  PROVE  Released
<1>1. CASE active.gen = NoGen
  BY <1>1 DEF CancelResponse, Released
<1>2. CASE active.gen # NoGen
  <2>1. toProvider' = <<Cancel(active.gen)>>
    BY <1>2 DEF CancelResponse
  <2>2. 1 \in DOMAIN toProvider' /\ toProvider'[1].kind = "cancel" /\ toProvider'[1].gen = active.gen
    BY <2>1 DEF Cancel
  <2> QED
    BY <2>2 DEF Released, Cancels
<1> QED
  BY <1>1, <1>2

\* start_response takes no generation away from the provider.
LEMMA StartReleases ==
  ASSUME NEW f, NEW text, NEW said, StartResponse(f, text, said)
  PROVE  Released
<1>1. CASE active.gen = NoGen
  BY <1>1 DEF Released, Gens, NoGen
<1>2. CASE active.gen # NoGen
  BY <1>2 DEF StartResponse, Released
<1> QED
  BY <1>1, <1>2

LEMMA StepReleases == TypeOK /\ [Next]_vars => Released
<1> SUFFICES ASSUME TypeOK, [Next]_vars PROVE Released
  OBVIOUS
<1>1. ASSUME NEW o \in Observations, AudioFrame(o) PROVE Released
  <2> DEFINE d == Observe(floor, profile, clock', o, lastBackchannel)
             tag == IF d.action = "hard_yield" THEN active.gen ELSE NoGen
             said == IF d.action = "none" THEN <<>> ELSE <<Decision(d.action, tag)>>
  <2>1. CASE d.action = "start_response"
    <3>1. StartResponse(d.floor, userText, said)
      BY <1>1, <2>1 DEF AudioFrame
    <3> QED
      BY <3>1, StartReleases
  <2>2. CASE d.action \in {"hard_yield", "replan"}
    <3>1. CancelResponse(d.action, said)
      BY <1>1, <2>2 DEF AudioFrame
    <3> QED
      BY <3>1, CancelReleases
  <2>3. CASE d.action \notin {"start_response", "hard_yield", "replan"}
    <3>1. active' = active
      BY <1>1, <2>3 DEF AudioFrame
    <3> QED
      BY <3>1 DEF Released
  <2> QED
    BY <2>1, <2>2, <2>3
<1>2. ASSUME NEW ready \in BOOLEAN, UserTranscript(ready) PROVE Released
  <2>1. CASE ready
    BY <1>2, <2>1, StartReleases DEF UserTranscript
  <2>2. CASE ~ready
    BY <1>2, <2>2 DEF UserTranscript, Released
  <2> QED
    BY <2>1, <2>2
<1>3. CASE ClientBargeIn
  BY <1>3, CancelReleases DEF ClientBargeIn
<1>4. ASSUME NEW g \in Gens, NEW k \in Outputs, NEW offset \in Offsets,
             ProviderEmission(g, k, offset)
      PROVE  Released
  <2>1. CASE k = "complete"
    <3>1. active.gen = g /\ Sends("complete", g)'
      BY <1>4, <2>1, EmissionWire DEF ProviderEmission, AcceptsEmission
    <3> QED
      BY <3>1 DEF Released
  <2>2. CASE k # "complete"
    BY <1>4, <2>2 DEF ProviderEmission, Released
  <2> QED
    BY <2>1, <2>2
<1>5. CASE SessionEnds
  <2>1. CASE active.gen = NoGen
    BY <2>1 DEF Released, Gens, NoGen
  <2>2. CASE active.gen # NoGen
    <3>1. toProvider' = <<Cancel(active.gen)>>
      BY <1>5, <2>2 DEF SessionEnds
    <3>2. 1 \in DOMAIN toProvider' /\ toProvider'[1].kind = "cancel" /\ toProvider'[1].gen = active.gen
      BY <3>1 DEF Cancel
    <3> QED
      BY <3>2 DEF Released, Cancels
  <2> QED
    BY <2>1, <2>2
<1>6. ASSUME NEW p \in ProfileSet, Configure(p) PROVE Released
  BY <1>6 DEF Configure, answerVars, Released
<1>7. ASSUME NEW m \in PacketEnds, AudioPlayed(m) PROVE Released
  BY <1>7 DEF AudioPlayed, answerVars, Released
<1>8. ASSUME NEW t \in TaskIds, NEW ahead \in Deadlines, NEW bound \in 0..issued,
             TaskRequested(t, ahead, bound)
      PROVE  Released
  BY <1>8 DEF TaskRequested, answerVars, Released
<1>9. ASSUME NEW t \in TaskIds, TaskCancelled(t) PROVE Released
  BY <1>9 DEF TaskCancelled, answerVars, Released
<1>10. ASSUME NEW g \in Gens, StaleEmission(g) PROVE Released
  BY <1>10 DEF StaleEmission, answerVars, Released
<1>11. CASE ProviderNotice
  BY <1>11 DEF ProviderNotice, answerVars, Released
<1>12. CASE UNCHANGED vars
  BY <1>12 DEF vars, answerVars, Released
<1> QED
  BY <1>1, <1>2, <1>3, <1>4, <1>5, <1>6, <1>7, <1>8, <1>9, <1>10, <1>11, <1>12
    DEF Next, ClientStep, ProviderStep

\* No provider is left generating for nobody: whatever ends the active
\* generation (a decision, a client's barge-in, the end of the session) either
\* follows its completion or cancels it at the provider.
THEOREM NobodyGeneratesInVain == Spec => CancelReachesProvider
<1>1. TypeOK /\ [Next]_vars => Released
  BY StepReleases
<1>2. Released => \A g \in Gens : active.gen = g /\ active'.gen # g =>
                    Sends("complete", g)' \/ Cancels(g)'
  BY DEF Released
<1> QED
  BY <1>1, <1>2, TypeCorrect, PTL DEF Spec, CancelReachesProvider
-----------------------------------------------------------------------------
\* The session implements AnswerTurns: answers take turns, and one that has
\* completed or been cut is never heard again, whatever the provider emits.
THEOREM ImplementsAnswerTurns == Spec => TurnsSpec
<1>1. Init => Turns!Init
  BY DEF Init, Turns!Init, NoActive, NoGen, Heard, Sends
<1>2. TypeOK /\ TypeOK' /\ [Next]_vars => [Turns!Next]_Turns!vars
  BY StepImplements
<1> QED
  BY <1>1, <1>2, TypeCorrect, PTL DEF Spec, TurnsSpec, Turns!Spec
=============================================================================
