------------------------------ MODULE Connection ------------------------------
(***************************************************************************)
(* One browser and the sessions it opens on the gateway, one per           *)
(* WebSocket: how control messages are numbered, queued, kept for a        *)
(* resume, written to disk and applied to the browser's task ledger, while *)
(* connections break, the writer falls behind, the disk fails and the      *)
(* gateway is killed.                                                      *)
(*                                                                         *)
(* What Session does in one step is taken apart here: a handler leaves a   *)
(* list of items to send, each is numbered, kept and persisted (Produce)   *)
(* before it waits for room in the queue of the writer (Push), or waits    *)
(* for room in the queue of the provider (TakesInput), and the select loop *)
(* handles nothing else until the list is empty.                           *)
(***************************************************************************)
EXTENDS Naturals, Sequences, FiniteSets, SequencesExt, FiniteSetsExt

CONSTANTS
  Tasks,        \* task ids, made by the client
  Proofs,       \* ids of the events that become evidence
  Settled,      \* results observed of a completion (success) or expiry (failure)
  QueueSize,    \* transport.rs: capacity of the outgoing queue (64)
  MaxSessions,  \* bound: connections the browser opens
  MaxSequence,  \* bound: with so many messages numbered, no session takes new work
  MaxFaults     \* bound: crashes of the gateway and failures of its disk

ASSUME ConnectionAssumption ==
  /\ IsFiniteSet(Tasks) /\ Settled \subseteq {"success", "failure"}
  /\ QueueSize \in Nat \ {0}
  /\ MaxSessions \in Nat /\ MaxSequence \in Nat /\ MaxFaults \in Nat

VARIABLES
  client,    \* the socket in use (0: none), its session id known, the
             \* newest number seen, a Pong after a resume
  ledger,    \* TaskOrchestrator of the browser: status of each task
  seen,      \* history: <<session, number>> of what the browser applied
  sessions,  \* coordinator, orchestrator, queue and files of each session
  registry,  \* SessionRegistry::inner
  faults

clientVars == <<client, ledger, seen>>
vars == <<clientVars, sessions, registry, faults>>
-----------------------------------------------------------------------------
Ids == 1..MaxSessions
Results == {"success", "failure", "cancelled"}
NoTask == "no task"
NoProof == "no proof"

\* RealtimeEvent as the browser's ledger tells events apart.
Body(kind, t, arg) == [kind |-> kind, task |-> t, arg |-> arg]
Control == Body("control", NoTask, NoProof)
Created == Body("created", NoTask, NoProof)
Pong    == Body("pong", NoTask, NoProof)
Media   == Body("media", NoTask, NoProof)

\* How an item leaves: Self::send, send_and_buffer, RawText of the replay,
\* try_send of a media packet, provider_input.send (CommitResponse,
\* CancelGeneration, Close, text, a picture).
Item(how, n, body) == [how |-> how, seq |-> n, body |-> body]
Plain(body)  == Item("plain", 0, body)
Kept(body)   == Item("kept", 0, body)
Raw(message) == Item("raw", message.seq, message.body)
Audio        == Item("try", 0, Media)
Input        == Item("input", 0, Control)
Envelope(n, body) == [seq |-> n, body |-> body]

NoFile == [rows |-> {}, ended |-> TRUE, torn |-> FALSE, missed |-> FALSE]
Unborn ==
  [phase |-> "unborn", sequence |-> 0,
   tasks |-> [t \in Tasks |-> "unknown"], links |-> {}, buffer |-> {},
   todo |-> <<>>, waiting |-> <<>>, outgoing |-> <<>>, writer |-> FALSE,
   kept |-> {}, file |-> NoFile]

NoSocket == [conn |-> 0, known |-> FALSE, last |-> 0, resumed |-> FALSE]

Init ==
  /\ client = NoSocket
  /\ ledger = [t \in Tasks |-> "none"]
  /\ seen = <<>>
  /\ sessions = [s \in Ids |-> Unborn]
  /\ registry = {}
  /\ faults = 0
-----------------------------------------------------------------------------
(* Files *)

\* append_jsonl: the line, then its newline.  On a full disk a part of the line
\* (or nothing), or the line without its newline is written; what follows an
\* unended line makes it unreadable.
AppendJsonl(f, row, write) ==
  CASE write = "written" ->
         [f EXCEPT !.rows = @ \cup {row}, !.torn = @ \/ ~f.ended, !.ended = TRUE]
    [] write = "part"    -> [f EXCEPT !.torn = TRUE, !.missed = TRUE, !.ended = FALSE]
    [] write = "unended" ->
         [f EXCEPT !.rows = @ \cup {row}, !.torn = @ \/ ~f.ended, !.ended = FALSE]
Writes == {"written", "part", "unended"}

\* SessionStore::load_envelopes_after: one bad line fails the file.
LoadEnvelopesAfter(f, n) == IF f.torn THEN {} ELSE {row \in f.rows : row.seq > n}
-----------------------------------------------------------------------------
(* Coordinator *)

Idle(x) == x.phase = "open" /\ x.todo = <<>> /\ x.waiting = <<>>

\* The bound applies between handlers: one that has begun sends all it has to.  A
\* cancel or a resume of the browser may still follow what reached the bound.
Numbered == MapThenSumSet(LAMBDA s : sessions[s].sequence, Ids)
Ready(x) == Idle(x) /\ Numbered < MaxSequence
StillReady(x) == Idle(x) /\ Numbered <= MaxSequence

Do(x, items) == [x EXCEPT !.todo = items]

\* next_sequence
NextSequence(n) == n + 1

\* TaskOrchestrator::buffer_outbound; kept remembers what was ever buffered.
BufferOutbound(x, e) ==
  [x EXCEPT !.buffer = @ \cup {[seq |-> e.seq, body |-> e.body, old |-> FALSE]},
            !.kept = @ \cup {e.seq}]

\* send_and_buffer up to its send.  Mutant: an evidence link is not persisted.
SendWithoutStore(x, e, write) ==
  IF e.body.kind = "link" THEN BufferOutbound(x, e)
  ELSE [BufferOutbound(x, e) EXCEPT !.file = AppendJsonl(@, e, write)]
SendAndBuffer(x, e, write) ==
  [BufferOutbound(x, e) EXCEPT !.file = AppendJsonl(@, e, write)]

\* The ways to put a set in a row.
Rows(S) == {f \in [1..Cardinality(S) -> S] : \A i, j \in DOMAIN f : f[i] = f[j] => i = j}

\* TaskOrchestrator::replay_after: by number.
ReplayAfter(x, last) ==
  {replay \in Rows({b \in x.buffer : b.seq > last /\ ~b.old}) :
     \A i, j \in DOMAIN replay : i < j => replay[i].seq < replay[j].seq}
Purged(x, last) == x.buffer \ {b \in x.buffer : b.seq > last /\ b.old}

\* SessionCoordinator::handle_session_resume
HandleSessionResume(x, last) ==
  {[x EXCEPT !.buffer = Purged(x, last),
             !.todo = Append([i \in DOMAIN replay |-> Raw(replay[i])], Plain(Pong))] :
     replay \in ReplayAfter(x, last)}

\* SessionCoordinator::handle_task_requested: an id is admitted once.
HandleTaskRequested(x, t) ==
  IF x.tasks[t] # "unknown" THEN Do(x, <<Plain(Control)>>)
  ELSE [x EXCEPT !.tasks[t] = "active", !.todo = <<Kept(Body("ack", t, NoProof))>>]

\* SessionCoordinator::handle_task_cancel.  Mutant: a resolved task is cancelled too.
CancelsResolved(x, t) ==
  IF x.tasks[t] = "unknown" THEN x
  ELSE [x EXCEPT !.tasks[t] = "cancelled", !.todo = <<Kept(Body("outcome", t, "cancelled"))>>]
HandleTaskCancel(x, t) ==
  IF x.tasks[t] # "active" THEN x
  ELSE [x EXCEPT !.tasks[t] = "cancelled", !.todo = <<Kept(Body("outcome", t, "cancelled"))>>]

\* The select loop takes an emission: an event that proves something for a task,
\* the end of an answer or an elapsed deadline for some tasks, audio, or text the
\* gate cuts: it is told and the provider is canceled.
TakesEmission(s) ==
  LET x == sessions[s]
      running == {t \in Tasks : x.tasks[t] = "active"}
      Becomes(y) == sessions' = [sessions EXCEPT ![s] = y]
  IN /\ Ready(x)
     /\ \/ \E T \in SUBSET running \ {{}}, result \in Settled : \E order \in Rows(T) :
             Becomes([x EXCEPT
               !.tasks = [t \in Tasks |-> IF t \in T THEN result ELSE x.tasks[t]],
               !.todo = [i \in DOMAIN order |-> Kept(Body("outcome", order[i], result))]])
        \/ \E t \in running, p \in Proofs :
             Becomes([x EXCEPT
               !.links = x.links \cup {<<t, p>>},
               !.todo = IF <<t, p>> \in x.links THEN <<Plain(Control)>>
                        ELSE <<Plain(Control), Kept(Body("link", t, p))>>])
        \/ \E items \in {<<Audio>>, <<Plain(Control), Input>>} : Becomes(Do(x, items))
     /\ UNCHANGED <<clientVars, registry, faults>>
-----------------------------------------------------------------------------
(* Sending *)

\* The capacity of the queue.  Mutant: one more.
FullLate(x) == Len(x.outgoing) > QueueSize
Full(x) == Len(x.outgoing) >= QueueSize

\* The next item gets its number, is kept and persisted, and waits for room; audio
\* does not wait.
Produce(s, write) ==
  LET x == sessions[s]
      item == Head(x.todo)
      n == NextSequence(x.sequence)
      e == Envelope(n, item.body)
      numbered == [x EXCEPT !.sequence = n, !.todo = Tail(@)]
      y == CASE item.how = "plain" -> [numbered EXCEPT !.waiting = <<e>>]
             [] item.how = "kept" -> [SendAndBuffer(numbered, e, write) EXCEPT !.waiting = <<e>>]
             [] item.how = "raw" -> [x EXCEPT !.todo = Tail(@),
                                              !.waiting = <<Envelope(item.seq, item.body)>>]
             [] item.how = "try" -> IF Full(x) \/ ~x.writer THEN numbered
                                    ELSE [numbered EXCEPT !.outgoing = Append(@, e)]
  IN /\ x.phase = "open" /\ x.todo # <<>> /\ x.waiting = <<>>
     /\ item.how # "input"
     /\ IF write = "written" THEN UNCHANGED faults
        ELSE /\ item.how = "kept"
             /\ faults < MaxFaults
             /\ faults' = faults + 1
     /\ sessions' = [sessions EXCEPT ![s] = y]
     /\ UNCHANGED <<clientVars, registry>>

\* mpsc send: it waits for room, and fails once the writer has gone.  Mutants: a
\* full queue drops the message, as for audio; the end of the writer is not seen.
PushOrDrop(x) ==
  IF x.writer /\ ~Full(x) THEN [x EXCEPT !.waiting = <<>>, !.outgoing = @ \o x.waiting]
  ELSE [x EXCEPT !.waiting = <<>>]
PushRetries(x) ==
  IF Full(x) THEN x
  ELSE IF ~x.writer THEN [x EXCEPT !.waiting = <<>>]
  ELSE [x EXCEPT !.waiting = <<>>, !.outgoing = @ \o x.waiting]
PushTo(x) ==
  IF ~x.writer THEN [x EXCEPT !.waiting = <<>>]
  ELSE IF Full(x) THEN x
  ELSE [x EXCEPT !.waiting = <<>>, !.outgoing = @ \o x.waiting]

Push(s) ==
  /\ sessions[s].waiting # <<>>
  /\ PushTo(sessions[s]) # sessions[s]
  /\ sessions' = [sessions EXCEPT ![s] = PushTo(@)]
  /\ UNCHANGED <<clientVars, registry, faults>>

\* provider_input.send waits until the provider takes what is queued for it, and
\* fails once the provider has gone.
TakesInput(s) ==
  LET x == sessions[s] IN
  /\ x.phase \in {"open", "closing"} /\ x.todo # <<>> /\ x.waiting = <<>>
  /\ Head(x.todo).how = "input"
  /\ sessions' = [sessions EXCEPT ![s].todo = Tail(@)]
  /\ UNCHANGED <<clientVars, registry, faults>>

\* The socket is gone: the writer ends, and what is queued with it.
WriterFails(s) ==
  /\ sessions[s].writer /\ sessions[s].outgoing # <<>>
  /\ client.conn # s
  /\ sessions' = [sessions EXCEPT ![s].writer = FALSE]
  /\ UNCHANGED <<clientVars, registry, faults>>
-----------------------------------------------------------------------------
(* The life of a session *)

\* run: the provider has opened, the session is registered and announced.
Opens(s) ==
  [sessions EXCEPT ![s] = [Unborn EXCEPT !.phase = "open", !.writer = TRUE,
                                         !.todo = <<Plain(Created)>>]]

\* run leaves its loop when the socket ends or the provider's channel closes; close
\* cancels the answer in progress, if there is one, and tells the provider.
Farewells == {<<Input>>, <<Input, Input>>}
Close(s) ==
  /\ Idle(sessions[s])
  /\ \E last \in Farewells :
       sessions' = [sessions EXCEPT ![s] = [@ EXCEPT !.phase = "closing", !.todo = last]]
  /\ UNCHANGED <<clientVars, registry, faults>>
SocketEnds(s)   == client.conn # s /\ Close(s)
ProviderGone(s) == client.conn = s /\ Close(s)

\* transport.finish waits for the writer to send what is queued; then the session
\* is unregistered.
Finish(s) ==
  /\ sessions[s].phase = "closing" /\ sessions[s].todo = <<>>
  /\ sessions[s].writer => sessions[s].outgoing = <<>>
  /\ sessions' = [sessions EXCEPT ![s].phase = "gone", ![s].writer = FALSE, ![s].outgoing = <<>>]
  /\ registry' = registry \ {s}
  /\ UNCHANGED <<clientVars, faults>>

\* The resume window passes: what is buffered now is too old to be replayed.  No
\* replay follows in a session whose socket is gone.
Age(s) ==
  /\ client.conn = s
  /\ \E b \in sessions[s].buffer : ~b.old
  /\ sessions[s].phase = "open"
  /\ sessions' = [sessions EXCEPT ![s].buffer = {[b EXCEPT !.old = TRUE] : b \in @}]
  /\ UNCHANGED <<clientVars, registry, faults>>

\* The next event is to be kept: append_jsonl writes its line, then its newline.
MidAppend(x) ==
  x.phase = "open" /\ x.waiting = <<>> /\ x.todo # <<>> /\ Head(x.todo).how = "kept"
CutFile(x) ==
  AppendJsonl(x.file, Envelope(NextSequence(x.sequence), Head(x.todo).body), "unended")

\* The gateway is killed: every session dies where it is, some between the two
\* writes of an append; its files stay.
Crash ==
  /\ registry # {}
  /\ faults < MaxFaults
  /\ faults' = faults + 1
  /\ \E cut \in SUBSET {s \in registry : MidAppend(sessions[s])} :
       sessions' = [s \in Ids |->
         IF s \in registry
         THEN [Unborn EXCEPT
                !.phase = "gone", !.sequence = sessions[s].sequence,
                !.kept = sessions[s].kept, !.tasks = sessions[s].tasks,
                !.file = IF s \in cut THEN CutFile(sessions[s]) ELSE sessions[s].file]
         ELSE sessions[s]]
  /\ registry' = {}
  /\ UNCHANGED clientVars
-----------------------------------------------------------------------------
(* Browser *)

\* openConnection starts with no session id and no number seen.
Connect ==
  /\ client.conn = 0
  /\ \E s \in Ids :
       /\ sessions[s].phase = "unborn" /\ \A r \in 1..(s - 1) : sessions[r].phase # "unborn"
       /\ client' = [NoSocket EXCEPT !.conn = s]
       /\ sessions' = Opens(s)
       /\ registry' = registry \cup {s}
  /\ UNCHANGED <<ledger, seen, faults>>

\* The socket breaks, or ends because the session did; what was in flight is lost.
Disconnect ==
  /\ client.conn # 0
  /\ client' = NoSocket
  /\ UNCHANGED <<ledger, seen, sessions, registry, faults>>

\* sendControl and handle_client_event.  What the browser sends is taken by the
\* session it is connected to when the select loop is ready for it; what the
\* browser knows may be behind what is queued for it.
Sends(s, y) ==
  /\ client.conn = s /\ client.known
  /\ StillReady(sessions[s])
  /\ sessions' = [sessions EXCEPT ![s] = y]
  /\ UNCHANGED <<client, seen, registry, faults>>

\* requestTask
RequestTask(s) ==
  \E t \in Tasks :
    /\ ledger[t] = "none" /\ Ready(sessions[s])
    /\ Sends(s, HandleTaskRequested(sessions[s], t))
    /\ ledger' = [ledger EXCEPT ![t] = "pending"]

\* cancelTask does not resolve the task itself.
CancelTask(s) ==
  \E t \in Tasks :
    /\ ledger[t] \in {"pending", "acknowledged"}
    /\ Sends(s, HandleTaskCancel(sessions[s], t))
    /\ UNCHANGED ledger

\* resumeSession: app.js sends it after a reconnect, the protocol allows it at any
\* time.
ResumeSession(s) ==
  /\ \E y \in HandleSessionResume(sessions[s], client.last) : Sends(s, y)
  /\ UNCHANGED ledger

\* A ping, a capability offer or a picture gets one answer; what parse_client_event
\* refuses (malformed, or of another session, protocol version, type, stream or
\* timeline) gets one error.
Ask(s) ==
  /\ Ready(sessions[s])
  /\ Sends(s, Do(sessions[s], <<Plain(Control)>>))
  /\ UNCHANGED ledger

\* A microphone packet or a decision starts an answer or cuts one: the decision is
\* told, the provider gets its input, and the browser may be told once more.
Speak(s) ==
  /\ Ready(sessions[s])
  /\ \E items \in {<<Plain(Control), Input>>, <<Plain(Control), Input, Plain(Control)>>} :
       Sends(s, Do(sessions[s], items))
  /\ UNCHANGED ledger

\* The socket breaks under a request.
RequestLost ==
  /\ client.known
  /\ \E t \in Tasks : ledger[t] = "none" /\ ledger' = [ledger EXCEPT ![t] = "pending"]
  /\ client' = NoSocket
  /\ UNCHANGED <<seen, sessions, registry, faults>>

\* observeServerSequence.  Mutant: the newest number may come again.
ObservesAgain(n) == n >= client.last
ObserveServerSequence(n) == n > client.last

\* applyTaskAcknowledged, applyTaskOutcome: from pending only; once.
Applied(body) ==
  CASE body.kind = "ack" /\ ledger[body.task] = "pending" ->
         [ledger EXCEPT ![body.task] = "acknowledged"]
    [] body.kind = "outcome" /\ ledger[body.task] \notin Results ->
         [ledger EXCEPT ![body.task] = body.arg]
    [] OTHER -> ledger

\* The writer task of WebSocketTransport sends the next message and the browser
\* handles it, or drops it because its number is not new.
HandleControl(s) ==
  /\ sessions[s].writer /\ sessions[s].outgoing # <<>> /\ client.conn = s
  /\ sessions' = [sessions EXCEPT ![s].outgoing = Tail(@)]
  /\ LET m == Head(sessions[s].outgoing) IN
     IF ObserveServerSequence(m.seq)
     THEN /\ client' = [client EXCEPT !.last = m.seq,
                                      !.known = @ \/ m.body = Created,
                                      !.resumed = @ \/ m.body = Pong]
          /\ ledger' = Applied(m.body)
          /\ seen' = Append(seen, <<s, m.seq>>)
     ELSE UNCHANGED clientVars
  /\ UNCHANGED <<registry, faults>>
-----------------------------------------------------------------------------
GatewayStep ==
  \E s \in Ids :
    \/ TakesEmission(s)
    \/ \E write \in Writes : Produce(s, write)
    \/ Push(s)
    \/ TakesInput(s)
    \/ HandleControl(s)
    \/ WriterFails(s)
    \/ SocketEnds(s)
    \/ ProviderGone(s)
    \/ Finish(s)
    \/ Age(s)

BrowserStep ==
  \/ Connect \/ Disconnect \/ RequestLost
  \/ \E s \in Ids : RequestTask(s) \/ CancelTask(s) \/ ResumeSession(s) \/ Ask(s) \/ Speak(s)

Next == GatewayStep \/ BrowserStep \/ Crash

Spec == Init /\ [][Next]_vars

\* The runtime schedules the tasks of a session, and a dead socket is noticed.
Runs(s) ==
  Produce(s, "written") \/ Push(s) \/ WriterFails(s) \/ SocketEnds(s) \/ Finish(s)

\* What a provider owes: it goes on taking its input, or ends.  Providers that read
\* input only between two emissions do not owe it while nothing takes those.
ProvidersTakeInput == \A s \in Ids : WF_vars(TakesInput(s))

FairSpec == Spec /\ (\A s \in Ids : WF_vars(Runs(s))) /\ ProvidersTakeInput
-----------------------------------------------------------------------------
(* Properties *)

Bodies ==
  {Control, Created, Pong, Media}
    \cup {Body("ack", t, NoProof) : t \in Tasks}
    \cup {Body("outcome", t, r) : t \in Tasks, r \in Results}
    \cup {Body("link", t, p) : t \in Tasks, p \in Proofs}

\* The state has its types, a message a number its session has given, and the
\* queue of a session its capacity.
TypeOK ==
  /\ client.conn \in Ids \cup {0} /\ client.known \in BOOLEAN
  /\ ledger \in [Tasks -> {"none", "pending", "acknowledged"} \cup Results]
  /\ registry \subseteq Ids
  /\ \A s \in Ids :
       /\ sessions[s].phase \in {"unborn", "open", "closing", "gone"}
       /\ \A m \in ToSet(sessions[s].outgoing) :
            m.seq \in 1..sessions[s].sequence /\ m.body \in Bodies
       /\ Len(sessions[s].outgoing) <= QueueSize
       /\ Len(sessions[s].waiting) <= 1

Shown(s, n) == \E i \in DOMAIN seen : seen[i] = <<s, n>>

\* While a socket lives, the browser misses no event of the task ledger: what the
\* session kept up to the newest number seen has been applied.  (send_and_buffer
\* against try_send of audio in the same queue, and the replay in between.)
NothingSkipped ==
  \A s \in Ids :
    client.conn = s =>
      \A n \in sessions[s].kept : n <= client.last => Shown(s, n)

\* However a replay races with the events it repeats, the browser applies an event
\* once, and the events of a session in their order.
SeenOnceInOrder ==
  \A i, j \in DOMAIN seen : i < j /\ seen[i][1] = seen[j][1] => seen[i][2] < seen[j][2]

\* What the browser was shown of a task can be read from the session's file, also
\* after the gateway was killed, unless the disk refused a write.
SeenCanBeRead ==
  \A s \in Ids :
    LET f == sessions[s].file IN
    f.missed \/ f.torn \/
      \A n \in sessions[s].kept :
        Shown(s, n) => n \in {row.seq : row \in LoadEnvelopesAfter(f, 0)}

\* A cancel races with completion and expiry: the outcome the browser shows is the
\* one the gateway settled on.
OutcomesAgree ==
  \A t \in Tasks :
    ledger[t] \in Results => \E s \in Ids : sessions[s].tasks[t] = ledger[t]

\* While providers take their input, a session whose socket is gone ends and leaves
\* the registry, even if its coordinator was waiting for room in the queue of the
\* writer or of the provider when the socket broke.
SessionsAreReleased ==
  \A s \in Ids : s \in registry /\ client.conn # s ~> s \notin registry

\* docs: the receipt of a task survives a reconnect (session.rs:288).  Once a
\* resume is answered the browser knows of every acknowledgement the gateway made
\* within the resume window; nothing was killed.
ReceiptSurvivesReconnect ==
  (client.resumed /\ faults = 0) =>
    \A t \in Tasks, s \in Ids :
      (\E b \in sessions[s].buffer : b.body = Body("ack", t, NoProof) /\ ~b.old)
        => ledger[t] # "pending" \/ (s = client.conn)
=============================================================================
