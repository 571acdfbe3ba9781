----------------------------- MODULE Tasks_proofs -----------------------------
(***************************************************************************)
(* What a session promises about its tasks and its safety gate, for every  *)
(* client, provider and bound: evidence and success come from a task's own *)
(* answer, the tasks implement TaskLedger, an intervention holds.          *)
(***************************************************************************)
EXTENDS Session_proofs

USE FloorAssumption, SessionAssumption

Statuses == Results \cup {"acknowledged"}

\* A task of the active map has no result yet.
UnresolvedWhileLive == \A t \in TaskIds : tasks[t].live => completed[t] = "none"

\* Only an enabled gate intervenes.
OnlyEnabledIntervenes == gate.intervened => SafetyEnabled

\* The inductive invariant, beside TypeOK.
TaskInv ==
  /\ EvidenceStaysInTurn
  /\ UnresolvedWhileLive
  /\ OnlyEnabledIntervenes
-----------------------------------------------------------------------------
\* A message about no task, with neither words nor audio.
Plain(m) == m.words = {} /\ m.tasks = {} /\ m.kind # "audio"
PlainMessages(s) == \A i \in DOMAIN s : Plain(s[i])

\* A step that leaves the ledger and the gate alone: at most it binds the
\* pending tasks to the answer it starts.
PlainStep ==
  /\ PlainMessages(wire')
  /\ UNCHANGED <<gate, completed>>
  /\ tasks' = tasks \/ \E g \in Gens : tasks' = BindPending(tasks, g)

LEMMA StartIsPlain ==
  ASSUME TypeOK, NEW f, NEW text, NEW said, PlainMessages(said),
         StartResponse(f, text, said), UNCHANGED <<gate, completed>>
  PROVE  PlainStep
<1>1. CASE active.gen # NoGen
  BY <1>1 DEF StartResponse, PlainStep
<1>2. CASE active.gen = NoGen
  <2>1. issued < MaxGen /\ wire' = said /\ tasks' = BindPending(tasks, issued + 1)
    BY <1>2 DEF StartResponse
  <2>2. issued \in 0..MaxGen /\ MaxGen \in Nat
    BY DEF TypeOK
  <2>3. issued + 1 \in Gens
    BY <2>1, <2>2 DEF Gens
  <2> QED
    BY <2>1, <2>3 DEF PlainStep
<1> QED
  BY <1>1, <1>2

\* What a handler may have said before it starts or cuts an answer.
Opening(said) == said = <<>> \/ \E m : Plain(m) /\ said = <<m>>

LEMMA OpeningIsPlain ==
  ASSUME NEW said, Opening(said), NEW m, Plain(m)
  PROVE  PlainMessages(said) /\ PlainMessages(Append(said, m))
<1>1. CASE said = <<>>
  <2>1. Append(said, m) = <<m>>
    BY <1>1
  <2> QED
    BY <1>1, <2>1 DEF PlainMessages
<1>2. ASSUME NEW n, Plain(n), said = <<n>>
      PROVE  PlainMessages(said) /\ PlainMessages(Append(said, m))
  <2>1. <<n>> \in Seq({n, m}) /\ Len(<<n>>) = 1 /\ <<n>>[1] = n
    OBVIOUS
  <2>2. /\ DOMAIN Append(<<n>>, m) = 1..2
        /\ Append(<<n>>, m)[1] = n /\ Append(<<n>>, m)[2] = m
    BY <2>1
  <2> QED
    BY <1>2, <2>2 DEF PlainMessages
<1> QED
  BY <1>1, <1>2 DEF Opening

LEMMA CancelIsPlain ==
  ASSUME TypeOK, NEW action, NEW said, Opening(said),
         CancelResponse(action, said), UNCHANGED <<gate, completed, tasks>>
  PROVE  PlainStep
<1> DEFINE cut == Message("output_audio_cancel", active.gen, {}, {})
<1>1. Plain(cut)
  BY DEF Message, Plain
<1>2. wire' = said \/ wire' = Append(said, cut)
  BY CancelIsCut
<1> HIDE DEF cut
<1>3. PlainMessages(said) /\ PlainMessages(Append(said, cut))
  BY <1>1, OpeningIsPlain
<1> QED
  BY <1>2, <1>3 DEF PlainStep

LEMMA AudioFrameIsPlain ==
  ASSUME TypeOK, TypeOK', NEW o \in Observations, AudioFrame(o)
  PROVE  PlainStep
<1> DEFINE d == Observe(floor, profile, clock', o, lastBackchannel)
           tag == IF d.action = "hard_yield" THEN active.gen ELSE NoGen
           said == IF d.action = "none" THEN <<>> ELSE <<Decision(d.action, tag)>>
<1>1. d.action \in Actions
  <2>1. clock' \in Nat
    BY DEF TypeOK
  <2> QED
    BY <2>1, ObserveFloor DEF TypeOK
<1>2. UNCHANGED <<gate, completed>>
  BY DEF AudioFrame
<1>3. Opening(said)
  <2> HIDE DEF d, tag
  <2>1. Plain(Decision(d.action, tag))
    BY <1>1 DEF Decision, Message, Actions, Plain
  <2> QED
    BY <2>1 DEF Opening
<1>4. PlainMessages(said)
  <2> HIDE DEF d, said
  <2>1. PlainMessages(said) /\ PlainMessages(Append(said, Message("", 0, {}, {})))
    BY <1>3, OpeningIsPlain DEF Plain, Message
  <2> QED
    BY <2>1
<1>5. CASE d.action = "start_response"
  <2>1. StartResponse(d.floor, userText, said)
    BY <1>5 DEF AudioFrame
  <2> HIDE DEF d, said
  <2> QED
    BY <1>2, <1>4, <2>1, StartIsPlain
<1>6. CASE d.action \in {"hard_yield", "replan"}
  <2>1. CancelResponse(d.action, said) /\ UNCHANGED tasks
    BY <1>6 DEF AudioFrame
  <2> HIDE DEF d, said
  <2> QED
    BY <1>2, <1>3, <2>1, CancelIsPlain
<1>7. CASE d.action \notin {"start_response", "hard_yield", "replan"}
  <2>1. wire' = said /\ UNCHANGED tasks
    BY <1>7 DEF AudioFrame
  <2> HIDE DEF d, said
  <2> QED
    BY <1>2, <1>4, <2>1 DEF PlainStep
<1> QED
  BY <1>5, <1>6, <1>7
-----------------------------------------------------------------------------
\* Only three handlers touch a task or the gate, the rest are plain.
LEMMA FourKindsOfStep ==
  ASSUME TypeOK, TypeOK', [Next]_vars
  PROVE  \/ PlainStep
         \/ UNCHANGED vars
         \/ \E t \in TaskIds, ahead \in Deadlines, bound \in 0..issued :
              TaskRequested(t, ahead, bound)
         \/ \E t \in TaskIds : TaskCancelled(t)
         \/ \E g \in Gens, k \in Outputs, offset \in Offsets : ProviderEmission(g, k, offset)
<1>1. ASSUME NEW o \in Observations, AudioFrame(o) PROVE PlainStep
  BY <1>1, AudioFrameIsPlain
<1>2. ASSUME NEW ready \in BOOLEAN, UserTranscript(ready) PROVE PlainStep
  <2>1. UNCHANGED <<gate, completed>> /\ PlainMessages(<<>>)
    BY <1>2 DEF UserTranscript, outputVars, PlainMessages, Plain
  <2>2. CASE ready
    BY <1>2, <2>1, <2>2, StartIsPlain DEF UserTranscript
  <2>3. CASE ~ready
    BY <1>2, <2>1, <2>3 DEF UserTranscript, PlainStep
  <2> QED
    BY <2>2, <2>3
<1>3. CASE ClientBargeIn
  BY <1>3, CancelIsPlain DEF ClientBargeIn, taskVars, Opening
<1>4. ASSUME NEW p \in ProfileSet, Configure(p) PROVE PlainStep
  BY <1>4 DEF Configure, PlainStep, PlainMessages, Plain, outputVars, taskVars
<1>5. ASSUME NEW m \in PacketEnds, AudioPlayed(m) PROVE PlainStep
  BY <1>5 DEF AudioPlayed, PlainStep, PlainMessages, Plain, taskVars
<1>6. ASSUME NEW g \in Gens, StaleEmission(g) PROVE PlainStep
  BY <1>6 DEF StaleEmission, PlainStep, PlainMessages, Plain, outputVars, taskVars
<1>7. CASE ProviderNotice
  BY <1>7 DEF ProviderNotice, PlainStep, PlainMessages, Plain, outputVars, taskVars, Say, Message
<1>8. CASE SessionEnds
  BY <1>8 DEF SessionEnds, PlainStep, PlainMessages, Plain, outputVars, taskVars
<1> QED
  BY <1>1, <1>2, <1>3, <1>4, <1>5, <1>6, <1>7, <1>8 DEF Next, ClientStep, ProviderStep
-----------------------------------------------------------------------------
\* The tasks an emission finds late, and those it completes.
LateTasks(offset) == Expired(tasks, active.base + offset)
DoneTasks(g, k, offset) ==
  IF k = "complete" THEN TasksOf(Drop(tasks, LateTasks(offset)), g) ELSE {}

\* An emission touches the tasks of its generation and those that are late.
LEMMA EmissionTasks ==
  ASSUME TypeOK, NEW g \in Gens, NEW k \in Outputs, NEW offset \in Offsets,
         ProviderEmission(g, k, offset)
  PROVE  /\ active.gen = g
         /\ LateTasks(offset) \in SUBSET {t \in TaskIds : tasks[t].live}
         /\ DoneTasks(g, k, offset) \in
              SUBSET {t \in TaskIds \ LateTasks(offset) : tasks[t].live /\ tasks[t].gen = g}
         /\ completed' = Record(Record(completed, LateTasks(offset), "failure"),
                               DoneTasks(g, k, offset), "success")
         /\ \/ tasks' = Drop(Drop(tasks, LateTasks(offset)), DoneTasks(g, k, offset))
            \/ tasks' = Drop(Attach(Drop(tasks, LateTasks(offset)), g), DoneTasks(g, k, offset))
<1>1. active.gen = g
  BY DEF ProviderEmission, AcceptsEmission
<1>2. LateTasks(offset) \in SUBSET {t \in TaskIds : tasks[t].live}
  BY DEF Expired, LateTasks
<1>3. DoneTasks(g, k, offset) \in
        SUBSET {t \in TaskIds \ LateTasks(offset) : tasks[t].live /\ tasks[t].gen = g}
  BY DEF TasksOf, Drop, NoTask, DoneTasks
<1>4. /\ completed' = Record(Record(completed, LateTasks(offset), "failure"),
                            DoneTasks(g, k, offset), "success")
      /\ \/ tasks' = Drop(Drop(tasks, LateTasks(offset)), DoneTasks(g, k, offset))
         \/ tasks' = Drop(Attach(Drop(tasks, LateTasks(offset)), g), DoneTasks(g, k, offset))
  BY DEF ProviderEmission, LateTasks, DoneTasks
<1> QED
  BY <1>1, <1>2, <1>3, <1>4

\* Evidence stays bound whatever is done to the records.
BoundEvidence(ts) ==
  \A t \in TaskIds : ts[t].live => \A e \in ts[t].evidence : e = ts[t].gen

LEMMA EvidenceOps ==
  ASSUME NEW n \in Nat, NEW ts \in [TaskIds -> TaskRecords(n)], BoundEvidence(ts), NEW g, NEW S
  PROVE  /\ BoundEvidence(BindPending(ts, g))
         /\ BoundEvidence(Attach(ts, g))
         /\ BoundEvidence(Drop(ts, S))
<1>1. \A t \in TaskIds :
        /\ ts[t] \in [live : BOOLEAN, gen : 0..n, deadline : Nat, evidence : SUBSET (1..n)]
        /\ ts[t].live => \A e \in ts[t].evidence : e = ts[t].gen /\ e # NoGen
  BY DEF BoundEvidence, TaskRecords, NoGen
<1>2. BoundEvidence(BindPending(ts, g))
  <2> SUFFICES ASSUME NEW t \in TaskIds, BindPending(ts, g)[t].live,
                      NEW e \in BindPending(ts, g)[t].evidence
               PROVE  e = BindPending(ts, g)[t].gen
    BY DEF BoundEvidence
  <2>1. CASE ts[t].live /\ ts[t].gen = NoGen
    <3>1. BindPending(ts, g)[t] = [ts[t] EXCEPT !.gen = g]
      BY <2>1 DEF BindPending
    <3>2. e \in ts[t].evidence
      BY <1>1, <3>1
    <3> QED
      BY <1>1, <2>1, <3>2
  <2>2. CASE ~(ts[t].live /\ ts[t].gen = NoGen)
    <3>1. BindPending(ts, g)[t] = ts[t]
      BY <2>2 DEF BindPending
    <3> QED
      BY <1>1, <3>1
  <2> QED
    BY <2>1, <2>2
<1>3. BoundEvidence(Attach(ts, g))
  <2> SUFFICES ASSUME NEW t \in TaskIds, Attach(ts, g)[t].live,
                      NEW e \in Attach(ts, g)[t].evidence
               PROVE  e = Attach(ts, g)[t].gen
    BY DEF BoundEvidence
  <2>1. CASE t \in TasksOf(ts, g)
    <3>1. Attach(ts, g)[t] = [ts[t] EXCEPT !.evidence = ts[t].evidence \cup {g}]
      BY <2>1 DEF Attach
    <3>2. ts[t].live /\ ts[t].gen = g
      BY <2>1 DEF TasksOf
    <3>3. Attach(ts, g)[t].gen = g /\ e \in ts[t].evidence \cup {g}
      BY <1>1, <3>1, <3>2
    <3> QED
      BY <1>1, <3>2, <3>3
  <2>2. CASE t \notin TasksOf(ts, g)
    BY <1>1, <2>2 DEF Attach
  <2> QED
    BY <2>1, <2>2
<1>4. BoundEvidence(Drop(ts, S))
  BY <1>1 DEF BoundEvidence, Drop, NoTask
<1> QED
  BY <1>2, <1>3, <1>4
-----------------------------------------------------------------------------
LEMMA InitTasks == Init => TaskInv
  BY DEF Init, TaskInv, EvidenceStaysInTurn, UnresolvedWhileLive, OnlyEnabledIntervenes,
    NoTask, FreshGate

\* A gate that is not enabled is never touched.
LEMMA DisabledGate ==
  ASSUME NEW gt, NEW k, NEW g, ~SafetyEnabled
  PROVE  ScreenEvent(gt, k, g).gate = gt
  BY DEF ScreenEvent, Screened

LEMMA PlainStepTasks ==
  ASSUME TypeOK, TaskInv, PlainStep
  PROVE  TaskInv'
<1>1. tasks \in [TaskIds -> TaskRecords(issued)] /\ issued \in Nat
  BY DEF TypeOK
<1>2. BoundEvidence(tasks)
  BY DEF TaskInv, EvidenceStaysInTurn, BoundEvidence
<1>3. BoundEvidence(tasks')
  BY <1>1, <1>2, EvidenceOps DEF PlainStep
<1>4. EvidenceStaysInTurn'
  BY <1>3 DEF EvidenceStaysInTurn, BoundEvidence
<1>5. \A t \in TaskIds : tasks'[t].live => tasks[t].live
  <2>1. \A t \in TaskIds : tasks[t] \in [live : BOOLEAN, gen : 0..issued, deadline : Nat,
                                         evidence : SUBSET (1..issued)]
    BY <1>1 DEF TaskRecords
  <2> QED
    BY <2>1 DEF PlainStep, BindPending
<1>6. UnresolvedWhileLive'
  BY <1>5 DEF TaskInv, UnresolvedWhileLive, PlainStep
<1> QED
  BY <1>4, <1>6 DEF TaskInv, OnlyEnabledIntervenes, PlainStep

LEMMA TaskRequestedTasks ==
  ASSUME TypeOK, TaskInv, NEW t \in TaskIds, NEW ahead \in Deadlines, NEW bound \in 0..issued,
         TaskRequested(t, ahead, bound)
  PROVE  TaskInv'
<1>1. UNCHANGED <<gate, completed>>
  BY DEF TaskRequested, outputVars
<1>2. CASE Admissible(t)
  <2> DEFINE new == [live |-> TRUE, gen |-> bound, deadline |-> clock + ahead, evidence |-> {}]
  <2>1. tasks' = [tasks EXCEPT ![t] = new] /\ completed[t] = "none"
    BY <1>2 DEF TaskRequested, Admissible
  <2>2. \A u \in TaskIds : tasks'[u] = IF u = t THEN new ELSE tasks[u]
    BY <2>1 DEF TypeOK
  <2>3. EvidenceStaysInTurn'
    BY <2>2 DEF TaskInv, EvidenceStaysInTurn
  <2>4. UnresolvedWhileLive'
    BY <1>1, <2>1, <2>2 DEF TaskInv, UnresolvedWhileLive
  <2> QED
    BY <1>1, <2>3, <2>4 DEF TaskInv, OnlyEnabledIntervenes
<1>3. CASE ~Admissible(t)
  BY <1>1, <1>3 DEF TaskRequested, TaskInv, EvidenceStaysInTurn, UnresolvedWhileLive,
    OnlyEnabledIntervenes
<1> QED
  BY <1>2, <1>3

\* Tasks that leave the map take their result with them.
LEMMA Resolved ==
  ASSUME NEW ts, NEW done, NEW S, NEW r,
         \A t \in TaskIds : ts[t].live => done[t] = "none"
  PROVE  \A t \in TaskIds : Drop(ts, S)[t].live => Record(done, S, r)[t] = "none"
  BY DEF Drop, Record, NoTask

LEMMA TaskCancelledTasks ==
  ASSUME TypeOK, TaskInv, NEW t \in TaskIds, TaskCancelled(t)
  PROVE  TaskInv'
<1> DEFINE S == IF tasks[t].live THEN {t} ELSE {}
<1>1. /\ tasks' = Drop(tasks, S) /\ completed' = Record(completed, S, "cancelled")
      /\ UNCHANGED gate
  BY DEF TaskCancelled, outputVars
<1> HIDE DEF S
<1>2. tasks \in [TaskIds -> TaskRecords(issued)] /\ issued \in Nat
  BY DEF TypeOK
<1>3. BoundEvidence(tasks)
  BY DEF TaskInv, EvidenceStaysInTurn, BoundEvidence
<1>4. BoundEvidence(tasks')
  BY <1>1, <1>2, <1>3, EvidenceOps
<1>5. EvidenceStaysInTurn'
  BY <1>4 DEF EvidenceStaysInTurn, BoundEvidence
<1>6. UnresolvedWhileLive'
  BY <1>1, Resolved DEF TaskInv, UnresolvedWhileLive
<1> QED
  BY <1>1, <1>5, <1>6 DEF TaskInv, OnlyEnabledIntervenes

LEMMA EmissionKeepsTasks ==
  ASSUME TypeOK, TaskInv, NEW g \in Gens, NEW k \in Outputs, NEW offset \in Offsets,
         ProviderEmission(g, k, offset)
  PROVE  TaskInv'
<1> DEFINE late == LateTasks(offset)
           left == Drop(tasks, late)
           done == DoneTasks(g, k, offset)
<1>1. /\ completed' = Record(Record(completed, late, "failure"), done, "success")
      /\ tasks' = Drop(left, done) \/ tasks' = Drop(Attach(left, g), done)
  BY EmissionTasks
<1>2. tasks \in [TaskIds -> TaskRecords(issued)] /\ issued \in Nat /\ g \in 1..issued
  BY DEF TypeOK, ProviderEmission, AcceptsEmission, Gens
<1> HIDE DEF late, done
<1>3. left \in [TaskIds -> TaskRecords(issued)] /\ Attach(left, g) \in [TaskIds -> TaskRecords(issued)]
  BY <1>2, TaskTypes
<1>4. BoundEvidence(left)
  <2>1. BoundEvidence(tasks)
    BY DEF TaskInv, EvidenceStaysInTurn, BoundEvidence
  <2> QED
    BY <1>2, <2>1, EvidenceOps
<1>5. \A t \in TaskIds : left[t].live => Record(completed, late, "failure")[t] = "none"
  BY Resolved DEF TaskInv, UnresolvedWhileLive
<1> HIDE DEF left
<1>6. BoundEvidence(Attach(left, g))
  BY <1>2, <1>3, <1>4, EvidenceOps
<1>7. EvidenceStaysInTurn'
  <2>1. BoundEvidence(tasks')
    BY <1>1, <1>2, <1>3, <1>4, <1>6, EvidenceOps
  <2> QED
    BY <2>1 DEF EvidenceStaysInTurn, BoundEvidence
<1>8. UnresolvedWhileLive'
  <2>1. \A t \in TaskIds : Attach(left, g)[t].live => Record(completed, late, "failure")[t] = "none"
    <3>1. \A t \in TaskIds : left[t] \in [live : BOOLEAN, gen : 0..issued, deadline : Nat,
                                          evidence : SUBSET (1..issued)]
      BY <1>3 DEF TaskRecords
    <3>2. \A t \in TaskIds : Attach(left, g)[t].live => left[t].live
      BY <3>1 DEF Attach
    <3> QED
      BY <1>5, <3>2
  <2> QED
    BY <1>1, <1>5, <2>1, Resolved DEF UnresolvedWhileLive
<1>9. OnlyEnabledIntervenes'
  <2>1. ~SafetyEnabled => gate' = gate
    BY DisabledGate DEF ProviderEmission, Screened
  <2> QED
    BY <2>1 DEF TaskInv, OnlyEnabledIntervenes
<1> QED
  BY <1>7, <1>8, <1>9 DEF TaskInv

LEMMA StepTasks == TypeOK /\ TypeOK' /\ TaskInv /\ [Next]_vars => TaskInv'
<1> SUFFICES ASSUME TypeOK, TypeOK', TaskInv, [Next]_vars PROVE TaskInv'
  OBVIOUS
<1>1. CASE UNCHANGED vars
  BY <1>1 DEF vars, outputVars, taskVars, TaskInv, EvidenceStaysInTurn, UnresolvedWhileLive,
    OnlyEnabledIntervenes
<1> QED
  BY <1>1, FourKindsOfStep, PlainStepTasks, TaskRequestedTasks, TaskCancelledTasks,
    EmissionKeepsTasks

\* The inductive invariant of the task map and the gate.
THEOREM TaskInvariance == Spec => []TaskInv
  BY InitTasks, StepTasks, TypeCorrect, PTL DEF Spec

\* A task holds evidence only of the generation it is bound to.
THEOREM EvidenceIsOwn == Spec => []EvidenceStaysInTurn
  BY TaskInvariance, PTL DEF TaskInv
-----------------------------------------------------------------------------
\* Which tasks a sequence of messages tells this status of.
Tells(s, t, status) == \E i \in DOMAIN s : s[i].kind = status /\ t \in s[i].tasks

LEMMA TellsEach ==
  ASSUME NEW M, NEW a \in Seq(M), NEW b \in Seq(M), NEW t, NEW status
  PROVE  Tells(a \o b, t, status) <=> Tells(a, t, status) \/ Tells(b, t, status)
<1>1. /\ a \o b \in Seq(M) /\ DOMAIN (a \o b) = 1..(Len(a) + Len(b))
      /\ DOMAIN a = 1..Len(a) /\ DOMAIN b = 1..Len(b) /\ Len(a) \in Nat /\ Len(b) \in Nat
      /\ \A i \in 1..(Len(a) + Len(b)) :
           (a \o b)[i] = IF i <= Len(a) THEN a[i] ELSE b[i - Len(a)]
  OBVIOUS
<1>2. \A i \in DOMAIN (a \o b) :
        \/ i \in DOMAIN a /\ (a \o b)[i] = a[i]
        \/ i - Len(a) \in DOMAIN b /\ (a \o b)[i] = b[i - Len(a)]
  BY <1>1
<1>3. \A i \in DOMAIN a : i \in DOMAIN (a \o b) /\ (a \o b)[i] = a[i]
  BY <1>1
<1>4. \A i \in DOMAIN b : Len(a) + i \in DOMAIN (a \o b) /\ (a \o b)[Len(a) + i] = b[i]
  BY <1>1
<1> HIDE DEF Tells
<1>5. ASSUME Tells(a \o b, t, status) PROVE Tells(a, t, status) \/ Tells(b, t, status)
  BY <1>2, <1>5 DEF Tells
<1>6. ASSUME Tells(a, t, status) PROVE Tells(a \o b, t, status)
  BY <1>3, <1>6 DEF Tells
<1>7. ASSUME Tells(b, t, status) PROVE Tells(a \o b, t, status)
  BY <1>4, <1>7 DEF Tells
<1> QED
  BY <1>5, <1>6, <1>7

LEMMA TaskMessageTells ==
  ASSUME NEW kind, NEW about, NEW t, NEW status
  PROVE  Tells(TaskMessage(kind, about), t, status) <=> kind = status /\ t \in about
<1>1. CASE about = {}
  BY <1>1 DEF Tells, TaskMessage
<1>2. CASE about # {}
  <2>1. TaskMessage(kind, about) = <<Message(kind, NoGen, {}, about)>>
    BY <1>2 DEF TaskMessage
  <2> QED
    BY <2>1 DEF Tells, Message
<1> QED
  BY <1>1, <1>2

\* What the gate lets out is about no task.
LEMMA ScreenedIsNoTask ==
  ASSUME NEW gt, NEW k, NEW g, NEW t, NEW status
  PROVE  /\ ~Tells(ScreenEvent(gt, k, g).said, t, status)
         /\ ~Tells(Say("audio", g, {}), t, status)
         /\ ~Tells(<<>>, t, status)
<1>1. \A kind, words : ~Tells(Say(kind, g, words), t, status)
  BY DEF Tells, Say, Message
<1>2. ~Tells(<<>>, t, status)
  BY DEF Tells
<1>3. ~Tells(ScreenDelta(gt, k, g).said, t, status)
  BY <1>1, <1>2 DEF ScreenDelta, Screened
<1>4. ~Tells(ScreenFinal(gt, g).said, t, status)
  BY <1>1, <1>2 DEF ScreenFinal, Screened
<1> QED
  BY <1>1, <1>2, <1>3, <1>4 DEF ScreenEvent, Screened

\* What an emission announces: the failure of the tasks that are late, the
\* success of its own when it completes.
LEMMA EmissionTells ==
  ASSUME TypeOK, NEW g \in Gens, NEW k \in Outputs, NEW offset \in Offsets,
         ProviderEmission(g, k, offset), NEW t, NEW status \in Statuses
  PROVE  Announces(t, status)' <=>
           \/ status = "failure" /\ t \in LateTasks(offset)
           \/ status = "success" /\ t \in DoneTasks(g, k, offset)
<1> DEFINE late == LateTasks(offset)
           done == DoneTasks(g, k, offset)
           M == Seq(EmissionMessages(g))
           mine == TasksOf(Drop(tasks, late), g)
           isAudio == k \in {"audio", "audio_dropped"}
           muted == isAudio /\ SafetyEnabled /\ gate.intervened
           said == (CASE ~isAudio -> ScreenEvent(gate, k, g)
                      [] isAudio /\ (muted \/ k = "audio_dropped") -> Screened(gate, <<>>, FALSE)
                      [] OTHER -> Screened(gate, Say("audio", g, {}), FALSE)).said
           proved == IF IsEvidence(k, said) THEN mine ELSE {}
           failed == TaskMessage("failure", late)
           proofs == TaskMessage("evidence_link", proved)
           succeeded == TaskMessage("success", done)
<1>1. g \in 1..issued /\ issued \in Nat /\ g \in Nat /\ k \in ProviderOutputs
  BY DEF ProviderEmission, AcceptsEmission, Accepts, Gens, TypeOK, NoGen
<1>2. /\ wire' = failed \o said \o proofs \o succeeded
      /\ said = ScreenEvent(gate, k, g).said \/ said = <<>> \/ said = Say("audio", g, {})
      /\ late \in SUBSET TaskIds /\ proved \in SUBSET TaskIds /\ done \in SUBSET TaskIds
  <2>1. wire' = failed \o said \o proofs \o succeeded
    BY DEF ProviderEmission, LateTasks, DoneTasks
  <2>2. said = ScreenEvent(gate, k, g).said \/ said = <<>> \/ said = Say("audio", g, {})
    BY DEF Screened
  <2>3. late \in SUBSET TaskIds /\ mine \in SUBSET TaskIds
    BY DEF Expired, TasksOf, LateTasks
  <2> HIDE DEF mine, said, failed, proofs, succeeded
  <2>4. proved \in SUBSET TaskIds /\ done \in SUBSET TaskIds
    BY <2>3 DEF mine, DoneTasks
  <2> QED
    BY <2>1, <2>2, <2>3, <2>4
<1> HIDE DEF late, done, mine, isAudio, muted, said, proved
<1>3. said \in M /\ ~Tells(said, t, status)
  <2>1. ScreenEvent(gate, k, g).said \in M /\ Say("audio", g, {}) \in M /\ <<>> \in M
    BY <1>1, ScreenedMessages DEF TypeOK
  <2> QED
    BY <1>2, <2>1, ScreenedIsNoTask
<1>4. failed \in M /\ proofs \in M /\ succeeded \in M
  BY <1>1, <1>2, TaskMessages
<1>5. /\ Tells(failed, t, status) <=> "failure" = status /\ t \in late
      /\ Tells(proofs, t, status) <=> "evidence_link" = status /\ t \in proved
      /\ Tells(succeeded, t, status) <=> "success" = status /\ t \in done
  BY TaskMessageTells
<1>6. status # "evidence_link"
  BY DEF Statuses, Results
<1> HIDE DEF failed, proofs, succeeded
<1>7. /\ failed \o said \in M /\ failed \o said \o proofs \in M
  BY <1>3, <1>4
<1>8. Tells(wire', t, status) <=> \/ Tells(failed, t, status) \/ Tells(said, t, status)
                                \/ Tells(proofs, t, status) \/ Tells(succeeded, t, status)
  <2>1. Tells(failed \o said, t, status) <=> Tells(failed, t, status) \/ Tells(said, t, status)
    BY <1>3, <1>4, TellsEach
  <2>2. Tells(failed \o said \o proofs, t, status) <=>
          Tells(failed \o said, t, status) \/ Tells(proofs, t, status)
    BY <1>4, <1>7, TellsEach
  <2> DEFINE front == failed \o said \o proofs
  <2>3. front \in M
    BY <1>7
  <2>4. /\ wire' = front \o succeeded
        /\ Tells(front, t, status) <=>
             Tells(failed, t, status) \/ Tells(said, t, status) \/ Tells(proofs, t, status)
    BY <1>2, <2>1, <2>2
  <2> HIDE DEF front, M
  <2>5. Tells(front \o succeeded, t, status) <=>
          Tells(front, t, status) \/ Tells(succeeded, t, status)
    BY <1>4, <2>3, TellsEach DEF M
  <2> QED
    BY <2>4, <2>5
<1>9. Announces(t, status)' <=> Tells(wire', t, status)
  BY DEF Announces, Tells
<1> QED
  BY <1>3, <1>5, <1>6, <1>8, <1>9 DEF late, done

LEMMA PlainTellsNothing ==
  ASSUME PlainMessages(wire')
  PROVE  \A t, status : ~Announces(t, status)'
  BY DEF PlainMessages, Plain, Announces
-----------------------------------------------------------------------------
\* A step that announces a success is the completion of the task's own answer.
SuccessIsOwn ==
  \A t \in TaskIds : Announces(t, "success")' =>
    \E g \in Gens : /\ active.gen = g /\ Sends("complete", g)'
                   /\ tasks[t].live /\ tasks[t].gen = g

LEMMA StepSuccess == TypeOK /\ TypeOK' /\ [Next]_vars => SuccessIsOwn \/ UNCHANGED vars
<1> SUFFICES ASSUME TypeOK, TypeOK', [Next]_vars, ~UNCHANGED vars PROVE SuccessIsOwn
  OBVIOUS
<1>1. CASE PlainStep
  BY <1>1, PlainTellsNothing DEF PlainStep, SuccessIsOwn
<1>2. ASSUME NEW u \in TaskIds, NEW ahead \in Deadlines, NEW bound \in 0..issued,
             TaskRequested(u, ahead, bound)
      PROVE  SuccessIsOwn
  BY <1>2 DEF TaskRequested, Message, Announces, SuccessIsOwn
<1>3. ASSUME NEW u \in TaskIds, TaskCancelled(u) PROVE SuccessIsOwn
  <2>1. \A t : ~Announces(t, "success")'
    BY <1>3 DEF TaskCancelled, TaskMessage, Message, Announces
  <2> QED
    BY <2>1 DEF SuccessIsOwn
<1>4. ASSUME NEW g \in Gens, NEW k \in Outputs, NEW offset \in Offsets,
             ProviderEmission(g, k, offset)
      PROVE  SuccessIsOwn
  <2>1. \A t : Announces(t, "success")' => t \in DoneTasks(g, k, offset)
    BY <1>4, EmissionTells DEF Statuses, Results
  <2>2. \A t \in DoneTasks(g, k, offset) : k = "complete" /\ tasks[t].live /\ tasks[t].gen = g
    BY <1>4, EmissionTasks DEF DoneTasks
  <2>3. active.gen = g /\ (k = "complete" => Sends("complete", g)')
    BY <1>4, EmissionTasks, EmissionWire
  <2> QED
    BY <2>1, <2>2, <2>3 DEF SuccessIsOwn
<1> QED
  BY <1>1, <1>2, <1>3, <1>4, FourKindsOfStep

\* A task succeeds only when the generation it is bound to completes.
THEOREM SuccessIsEarned == Spec => SuccessOnlyByOwnGeneration
<1>1. TypeOK /\ TypeOK' /\ [Next]_vars => [SuccessIsOwn]_vars
  BY StepSuccess
<1> QED
  BY <1>1, TypeCorrect, PTL DEF Spec, SuccessOnlyByOwnGeneration, SuccessIsOwn
-----------------------------------------------------------------------------
\* Nothing the gate is asked about reaches the client while it stays shut; a task
\* result does, unasked.
NothingSaid(s) ==
  \A i \in DOMAIN s :
    /\ s[i].kind # "audio"
    /\ s[i].kind # "result" => s[i].words = {}

GateHolds == gate.intervened /\ gate'.intervened => NothingSaid(wire')

LEMMA ShutGateSaysNothing ==
  ASSUME NEW gt, NEW g, NEW k \in ProviderOutputs \ {"audio"}, gt.intervened, SafetyEnabled,
         ScreenEvent(gt, k, g).gate.intervened
  PROVE  NothingSaid(ScreenEvent(gt, k, g).said)
<1>1. \A kind \in ProviderOutputs \ {"audio"} : NothingSaid(Say(kind, g, {}))
  BY DEF NothingSaid, Say, Message
<1>2. NothingSaid(<<>>)
  BY DEF NothingSaid
<1>3. CASE k \in Deltas
  <2>1. ScreenEvent(gt, k, g) = ScreenDelta(gt, k, g)
    BY <1>3 DEF ScreenEvent, Deltas
  <2>2. ScreenDelta(gt, k, g).said = Say("final", g, {})
    BY DEF ScreenDelta, Screened
  <2>3. "final" \in ProviderOutputs \ {"audio"}
    BY DEF ProviderOutputs, Texts
  <2> QED
    BY <1>1, <2>1, <2>2, <2>3
<1>4. CASE k = "final"
  <2>1. k \notin Deltas
    BY <1>4 DEF Deltas
  <2>2. ScreenEvent(gt, k, g) = ScreenFinal(gt, g)
    BY <1>4, <2>1 DEF ScreenEvent
  <2>3. ScreenFinal(gt, g).said = Say(k, g, {})
    BY <1>4 DEF ScreenFinal, Screened
  <2> QED
    BY <1>1, <2>2, <2>3
<1>5. CASE k \notin Texts
  <2>1. ScreenEvent(gt, k, g).said = Say(k, g, IF k = "result" THEN {g} ELSE {})
    BY <1>5 DEF ScreenEvent, Screened, Texts
  <2>2. NothingSaid(Say("result", g, {g}))
    BY DEF NothingSaid, Say, Message
  <2> QED
    BY <1>1, <2>1, <2>2
<1> QED
  BY <1>3, <1>4, <1>5 DEF Texts

LEMMA SilentConcat ==
  ASSUME NEW M, NEW a \in Seq(M), NEW b \in Seq(M), NothingSaid(a), NothingSaid(b)
  PROVE  NothingSaid(a \o b)
<1>1. \A i \in DOMAIN (a \o b) :
        \/ i \in DOMAIN a /\ (a \o b)[i] = a[i]
        \/ i - Len(a) \in DOMAIN b /\ (a \o b)[i] = b[i - Len(a)]
  OBVIOUS
<1> QED
  BY <1>1 DEF NothingSaid

LEMMA EmissionHolds ==
  ASSUME TypeOK, OnlyEnabledIntervenes, NEW g \in Gens, NEW k \in Outputs, NEW offset \in Offsets,
         ProviderEmission(g, k, offset)
  PROVE  GateHolds
<1> SUFFICES ASSUME gate.intervened, gate'.intervened PROVE NothingSaid(wire')
  BY DEF GateHolds
<1> DEFINE late == LateTasks(offset)
           done == DoneTasks(g, k, offset)
           M == Seq(EmissionMessages(g))
           mine == TasksOf(Drop(tasks, late), g)
           isAudio == k \in {"audio", "audio_dropped"}
           muted == isAudio /\ SafetyEnabled /\ gate.intervened
           out == CASE ~isAudio -> ScreenEvent(gate, k, g)
                    [] isAudio /\ (muted \/ k = "audio_dropped") -> Screened(gate, <<>>, FALSE)
                    [] OTHER -> Screened(gate, Say("audio", g, {}), FALSE)
           said == out.said
           proved == IF IsEvidence(k, said) THEN mine ELSE {}
           failed == TaskMessage("failure", late)
           proofs == TaskMessage("evidence_link", proved)
           succeeded == TaskMessage("success", done)
<1>1. /\ g \in 1..issued /\ issued \in Nat /\ g \in Nat /\ k \in ProviderOutputs
      /\ SafetyEnabled
  BY DEF ProviderEmission, AcceptsEmission, Accepts, Gens, TypeOK, NoGen, OnlyEnabledIntervenes
<1>2. /\ wire' = failed \o said \o proofs \o succeeded
      /\ \/ ~isAudio /\ said = ScreenEvent(gate, k, g).said /\ ScreenEvent(gate, k, g).gate = gate'
         \/ said = <<>>
      /\ late \in SUBSET TaskIds /\ proved \in SUBSET TaskIds /\ done \in SUBSET TaskIds
  <2>1. wire' = failed \o said \o proofs \o succeeded /\ gate' = out.gate
    BY DEF ProviderEmission, LateTasks, DoneTasks
  <2>2. \/ ~isAudio /\ out = ScreenEvent(gate, k, g)
        \/ said = <<>>
    BY <1>1 DEF Screened
  <2>3. late \in SUBSET TaskIds /\ mine \in SUBSET TaskIds
    BY DEF Expired, TasksOf, LateTasks
  <2> HIDE DEF mine, out, failed, proofs, succeeded
  <2>4. proved \in SUBSET TaskIds /\ done \in SUBSET TaskIds
    BY <2>3 DEF mine, DoneTasks
  <2> QED
    BY <2>1, <2>2, <2>3, <2>4
<1> HIDE DEF late, done, mine, muted, out, proved
<1>3. said \in M /\ NothingSaid(said)
  <2>1. ScreenEvent(gate, k, g).said \in M /\ <<>> \in M
    BY <1>1, ScreenedMessages DEF TypeOK
  <2>2. NothingSaid(<<>>)
    BY DEF NothingSaid
  <2>3. ~isAudio /\ ScreenEvent(gate, k, g).gate = gate' => NothingSaid(ScreenEvent(gate, k, g).said)
    BY <1>1, ShutGateSaysNothing
  <2> QED
    BY <1>2, <2>1, <2>2, <2>3
<1>4. failed \in M /\ proofs \in M /\ succeeded \in M
  BY <1>1, <1>2, TaskMessages
<1>5. NothingSaid(failed) /\ NothingSaid(proofs) /\ NothingSaid(succeeded)
  BY DEF NothingSaid, TaskMessage, Message
<1> HIDE DEF said, failed, proofs, succeeded
<1>6. failed \o said \in M /\ NothingSaid(failed \o said)
  BY <1>3, <1>4, <1>5, SilentConcat
<1> DEFINE head == failed \o said
<1>7. head \in M /\ NothingSaid(head) /\ wire' = head \o proofs \o succeeded
  BY <1>2, <1>6
<1> HIDE DEF head
<1>8. head \o proofs \in M /\ NothingSaid(head \o proofs)
  BY <1>4, <1>5, <1>7, SilentConcat
<1> DEFINE front == head \o proofs
<1>9. front \in M /\ NothingSaid(front) /\ wire' = front \o succeeded
  BY <1>7, <1>8
<1> HIDE DEF front
<1>10. NothingSaid(front \o succeeded)
  BY <1>4, <1>5, <1>9, SilentConcat
<1> QED
  BY <1>9, <1>10

LEMMA StepHolds ==
  TypeOK /\ TypeOK' /\ TaskInv /\ [Next]_vars => GateHolds \/ UNCHANGED vars
<1> SUFFICES ASSUME TypeOK, TypeOK', TaskInv, [Next]_vars, ~UNCHANGED vars PROVE GateHolds
  OBVIOUS
<1>1. CASE PlainStep
  BY <1>1 DEF PlainStep, PlainMessages, Plain, GateHolds, NothingSaid
<1>2. ASSUME NEW u \in TaskIds, NEW ahead \in Deadlines, NEW bound \in 0..issued,
             TaskRequested(u, ahead, bound)
      PROVE  GateHolds
  BY <1>2 DEF TaskRequested, Message, GateHolds, NothingSaid
<1>3. ASSUME NEW u \in TaskIds, TaskCancelled(u) PROVE GateHolds
  BY <1>3 DEF TaskCancelled, TaskMessage, Message, GateHolds, NothingSaid
<1>4. ASSUME NEW g \in Gens, NEW k \in Outputs, NEW offset \in Offsets,
             ProviderEmission(g, k, offset)
      PROVE  GateHolds
  BY <1>4, EmissionHolds DEF TaskInv
<1> QED
  BY <1>1, <1>2, <1>3, <1>4, FourKindsOfStep

\* After an intervention, until the gate is reset, neither a delta nor a final text
\* has words and no audio is sent; task results, which are not screened, are excepted.
THEOREM GateStaysShut == Spec => InterventionHolds
<1>1. TypeOK /\ TypeOK' /\ TaskInv /\ [Next]_vars => [GateHolds]_vars
  BY StepHolds
<1> QED
  BY <1>1, TypeCorrect, TaskInvariance, PTL DEF Spec, InterventionHolds, GateHolds, NothingSaid
-----------------------------------------------------------------------------
\* The session implements TaskLedger: the status of a task is what its place in
\* the map and its result say, the news is what the last step told.
Status == [t \in TaskIds |-> IF tasks[t].live THEN "acknowledged" ELSE completed[t]]

\* A step that moves each task at most one step on, and tells exactly that.
LedgerMoves ==
  /\ \A t \in TaskIds : Status'[t] = Status[t] \/ Ledger!Follows(Status[t], Status'[t])
  /\ \A t \in TaskIds, s \in Statuses :
       Announces(t, s)' <=> Status'[t] = s /\ Status'[t] # Status[t]

LEMMA MovesAreLedgerSteps ==
  ASSUME TypeOK', LedgerMoves
  PROVE  Ledger!Next
<1> DEFINE News == {p \in TaskIds \X Statuses : Announces(p[1], p[2])'}
           Changed == {u \in TaskIds : Status'[u] # Status[u]}
<1>1. /\ completed' \in [TaskIds -> Results \cup {"none"}]
      /\ Status' = [t \in TaskIds |-> IF tasks'[t].live THEN "acknowledged" ELSE completed'[t]]
  BY DEF TypeOK, Status
<1>2. Status' \in [TaskIds -> {"none", "acknowledged"} \cup Results]
  BY <1>1
<1>3. News = {<<t, Status'[t]>> : t \in Changed}
  <2>1. \A p \in News : p \in {<<t, Status'[t]>> : t \in Changed}
    <3> SUFFICES ASSUME NEW t \in TaskIds, NEW s \in Statuses, Announces(t, s)'
                 PROVE  <<t, s>> \in {<<u, Status'[u]>> : u \in Changed}
      OBVIOUS
    <3>1. Status'[t] = s /\ t \in Changed
      BY DEF LedgerMoves
    <3> QED
      BY <3>1
  <2>2. \A t \in Changed : <<t, Status'[t]>> \in News
    <3> SUFFICES ASSUME NEW t \in Changed PROVE <<t, Status'[t]>> \in News
      OBVIOUS
    <3>1. t \in TaskIds /\ Ledger!Follows(Status[t], Status'[t])
      BY DEF LedgerMoves
    <3>2. PICK s \in Statuses : s = Status'[t]
      BY <3>1 DEF Ledger!Follows, Ledger!Outcomes, Statuses, Results
    <3>3. Announces(t, s)'
      BY <3>1, <3>2 DEF LedgerMoves
    <3>4. <<t, s>> \in News
      BY <3>1, <3>3
    <3> QED
      BY <3>2, <3>4
  <2> QED
    BY <2>1, <2>2
<1> QED
  BY <1>2, <1>3 DEF Ledger!Next, Ledger!Outcomes, LedgerMoves, Status, Statuses, Results

LEMMA PlainMoves ==
  ASSUME TypeOK, PlainStep
  PROVE  LedgerMoves
<1>1. tasks \in [TaskIds -> TaskRecords(issued)]
  BY DEF TypeOK
<1>2. \A t \in TaskIds : tasks'[t].live = tasks[t].live
  <2>1. \A t \in TaskIds : tasks[t] \in [live : BOOLEAN, gen : 0..issued, deadline : Nat,
                                         evidence : SUBSET (1..issued)]
    BY <1>1 DEF TaskRecords
  <2> QED
    BY <2>1 DEF PlainStep, BindPending
<1>3. \A t \in TaskIds : Status'[t] = Status[t]
  BY <1>2 DEF Status, PlainStep
<1> QED
  BY <1>3, PlainTellsNothing DEF LedgerMoves, PlainStep

LEMMA TaskRequestedMoves ==
  ASSUME TypeOK, NEW u \in TaskIds, NEW ahead \in Deadlines, NEW bound \in 0..issued,
         TaskRequested(u, ahead, bound)
  PROVE  LedgerMoves
<1>1. UNCHANGED completed
  BY DEF TaskRequested
<1>2. CASE Admissible(u)
  <2>1. \A t \in TaskIds : Status'[t] = IF t = u THEN "acknowledged" ELSE Status[t]
    BY <1>1, <1>2 DEF TaskRequested, TypeOK, Status
  <2>2. Status[u] = "none"
    BY <1>2 DEF Admissible, Status
  <2>3. \A t, s : Announces(t, s)' <=> t = u /\ s = "acknowledged"
    BY <1>2 DEF TaskRequested, Announces, Message
  <2> QED
    BY <2>1, <2>2, <2>3 DEF LedgerMoves, Ledger!Follows
<1>3. CASE ~Admissible(u)
  <2>1. \A t \in TaskIds : Status'[t] = Status[t]
    BY <1>1, <1>3 DEF TaskRequested, Status
  <2>2. \A t : \A s \in Statuses : ~Announces(t, s)'
    BY <1>3 DEF TaskRequested, Announces, Message, Statuses, Results
  <2> QED
    BY <2>1, <2>2 DEF LedgerMoves
<1> QED
  BY <1>2, <1>3

LEMMA TaskCancelledMoves ==
  ASSUME TypeOK, NEW u \in TaskIds, TaskCancelled(u)
  PROVE  LedgerMoves
<1> DEFINE S == IF tasks[u].live THEN {u} ELSE {}
<1>1. \A t \in TaskIds : Status'[t] = IF t \in S THEN "cancelled" ELSE Status[t]
  BY DEF TaskCancelled, Status, Drop, Record, NoTask
<1>2. \A t \in S : t \in TaskIds /\ Status[t] = "acknowledged"
  BY DEF Status
<1>3. \A t, s : Announces(t, s)' <=> t \in S /\ s = "cancelled"
  <2>1. wire' = TaskMessage("cancelled", S)
    BY DEF TaskCancelled
  <2>2. \A t, s : Announces(t, s)' <=> Tells(wire', t, s)
    BY DEF Announces, Tells
  <2> HIDE DEF S
  <2> QED
    BY <2>1, <2>2, TaskMessageTells
<1> HIDE DEF S
<1> QED
  BY <1>1, <1>2, <1>3 DEF LedgerMoves, Ledger!Follows, Ledger!Outcomes

LEMMA EmissionMoves ==
  ASSUME TypeOK, NEW g \in Gens, NEW k \in Outputs, NEW offset \in Offsets,
         ProviderEmission(g, k, offset)
  PROVE  LedgerMoves
<1> DEFINE late == LateTasks(offset)
           left == Drop(tasks, late)
           done == DoneTasks(g, k, offset)
<1>1. /\ completed' = Record(Record(completed, late, "failure"), done, "success")
      /\ tasks' = Drop(left, done) \/ tasks' = Drop(Attach(left, g), done)
      /\ late \in SUBSET {t \in TaskIds : tasks[t].live}
      /\ done \in SUBSET {t \in TaskIds \ late : tasks[t].live /\ tasks[t].gen = g}
  BY EmissionTasks
<1>2. \A t : \A s \in Statuses :
        Announces(t, s)' <=> \/ s = "failure" /\ t \in late
                             \/ s = "success" /\ t \in done
  BY EmissionTells
<1> HIDE DEF late, done
<1>3. \A t \in TaskIds : /\ left[t].live <=> tasks[t].live /\ t \notin late
                         /\ Attach(left, g)[t].live = left[t].live
  <2>1. tasks \in [TaskIds -> TaskRecords(issued)] /\ issued \in Nat /\ g \in 1..issued
    BY DEF TypeOK, ProviderEmission, AcceptsEmission, Gens
  <2>2. left \in [TaskIds -> TaskRecords(issued)]
    BY <2>1, TaskTypes
  <2>3. \A t \in TaskIds : left[t] \in [live : BOOLEAN, gen : 0..issued, deadline : Nat,
                                        evidence : SUBSET (1..issued)]
    BY <2>2 DEF TaskRecords
  <2>4. \A t \in TaskIds : left[t] = IF t \in late THEN NoTask ELSE tasks[t]
    BY DEF Drop
  <2>5. \A t \in TaskIds : left[t].live <=> tasks[t].live /\ t \notin late
    BY <2>4 DEF NoTask
  <2> HIDE DEF left
  <2>6. \A t \in TaskIds : Attach(left, g)[t].live = left[t].live
    BY <2>3 DEF Attach
  <2> QED
    BY <2>5, <2>6
<1> HIDE DEF left
<1>4. \A t \in TaskIds : tasks'[t].live <=> tasks[t].live /\ t \notin late /\ t \notin done
  BY <1>1, <1>3 DEF Drop, NoTask
<1>5. \A t \in TaskIds : completed'[t] = IF t \in done THEN "success"
                                          ELSE IF t \in late THEN "failure" ELSE completed[t]
  BY <1>1 DEF Record
<1>6. \A t \in TaskIds : /\ Status'[t] = IF t \in done THEN "success"
                                          ELSE IF t \in late THEN "failure" ELSE Status[t]
                         /\ t \in done \cup late => Status[t] = "acknowledged"
  BY <1>1, <1>4, <1>5 DEF Status
<1>7. \A t \in TaskIds : Status'[t] = Status[t] \/ Ledger!Follows(Status[t], Status'[t])
  BY <1>6 DEF Ledger!Follows, Ledger!Outcomes
<1>8. ASSUME NEW t \in TaskIds, NEW s \in Statuses
      PROVE  Announces(t, s)' <=> Status'[t] = s /\ Status'[t] # Status[t]
  <2>1. CASE t \in done
    BY <1>1, <1>2, <1>6, <2>1
  <2>2. CASE t \in late
    BY <1>1, <1>2, <1>6, <2>2
  <2>3. CASE t \notin done /\ t \notin late
    BY <1>2, <1>6, <2>3
  <2> QED
    BY <2>1, <2>2, <2>3
<1> QED
  BY <1>7, <1>8 DEF LedgerMoves

LEMMA StepLedger == TypeOK /\ TypeOK' /\ [Next]_vars => [Ledger!Next]_Ledger!vars
<1> SUFFICES ASSUME TypeOK, TypeOK', [Next]_vars PROVE Ledger!Next \/ UNCHANGED Ledger!vars
  OBVIOUS
<1>1. CASE UNCHANGED vars
  <2>1. tasks' = tasks /\ completed' = completed /\ wire' = wire
    BY <1>1 DEF vars, taskVars
  <2>2. \A t, s : Announces(t, s)' <=> Announces(t, s)
    BY <2>1 DEF Announces
  <2> QED
    BY <2>1, <2>2 DEF Ledger!vars
<1>2. CASE LedgerMoves
  BY <1>2, MovesAreLedgerSteps
<1> QED
  BY <1>1, <1>2, FourKindsOfStep, PlainMoves, TaskRequestedMoves, TaskCancelledMoves, EmissionMoves

\* The session implements TaskLedger: every task is acknowledged once and
\* resolved at most once, and the client is told each exactly when it happens.
THEOREM ImplementsTaskLedger == Spec => LedgerSpec
<1>1. Init => Ledger!Init
  BY DEF Init, Ledger!Init, NoTask, Announces
<1>2. TypeOK /\ TypeOK' /\ [Next]_vars => [Ledger!Next]_Ledger!vars
  BY StepLedger
<1> QED
  BY <1>1, <1>2, TypeCorrect, PTL DEF Spec, LedgerSpec, Ledger!Spec
=============================================================================
