--------------------------- MODULE Connection_proofs ---------------------------
(***************************************************************************)
(* What a browser is shown of a session, for every number of tasks, proofs, *)
(* sessions and faults, and every capacity of the queue: while the socket    *)
(* lives nothing that was kept for a resume is skipped, nothing is applied   *)
(* twice or out of order, and the outcome of a task is the session's.  No    *)
(* queue outgrows its capacity, and nothing is sent that was not numbered.   *)
(***************************************************************************)
EXTENDS Connection, FiniteSetTheorems, SequenceTheorems, TLAPS

USE ConnectionAssumption

\* A sequence of whatever.
Listed(s) == \E S : s \in Seq(S)

LEMMA ListedDomain ==
  ASSUME NEW s, Listed(s)
  PROVE  Len(s) \in Nat /\ DOMAIN s = 1..Len(s)
BY DEF Listed

LEMMA ListedAppend ==
  ASSUME NEW s, NEW e, Listed(s)
  PROVE  /\ Listed(Append(s, e)) /\ Len(Append(s, e)) = Len(s) + 1
         /\ \A k \in 1..Len(s) : Append(s, e)[k] = s[k]
         /\ Append(s, e)[Len(s) + 1] = e
<1>1. PICK S : s \in Seq(S)
  BY DEF Listed
<1>2. s \in Seq(S \cup {e}) /\ e \in S \cup {e}
  BY <1>1
<1>3. Append(s, e) \in Seq(S \cup {e})
  BY <1>2
<1> QED
  BY <1>2, <1>3 DEF Listed

LEMMA ListedTail ==
  ASSUME NEW s, Listed(s), s # <<>>
  PROVE  /\ Listed(Tail(s)) /\ Len(Tail(s)) = Len(s) - 1 /\ Len(s) > 0
         /\ \A k \in 1..(Len(s) - 1) : Tail(s)[k] = s[k + 1]
         /\ Head(s) = s[1]
BY DEF Listed

LEMMA ListedOne ==
  ASSUME NEW e
  PROVE  Listed(<<e>>) /\ Len(<<e>>) = 1 /\ <<e>>[1] = e /\ <<e>> # <<>>
<1>1. <<e>> \in Seq({e})
  OBVIOUS
<1> QED
  BY <1>1 DEF Listed

LEMMA ListedAlone ==
  ASSUME NEW s, Listed(s), s # <<>>, Len(s) <= 1
  PROVE  Len(s) = 1
<1>1. PICK S : s \in Seq(S)
  BY DEF Listed
<1>2. Len(s) \in Nat /\ Len(s) # 0
  BY <1>1
<1>3. \A n \in Nat : n # 0 /\ n <= 1 => n = 1
  OBVIOUS
<1> QED
  BY <1>2, <1>3

LEMMA ListedNone == Listed(<<>>) /\ Len(<<>>) = 0
<1>1. <<>> \in Seq({})
  OBVIOUS
<1> QED
  BY <1>1 DEF Listed

LEMMA ListedConcat ==
  ASSUME NEW s, NEW t, Listed(s), Listed(t), Len(t) = 1
  PROVE  /\ Listed(s \o t) /\ Len(s \o t) = Len(s) + 1
         /\ \A k \in 1..Len(s) : (s \o t)[k] = s[k]
         /\ (s \o t)[Len(s) + 1] = t[1]
<1>1. PICK S : s \in Seq(S)
  BY DEF Listed
<1>2. PICK T : t \in Seq(T)
  BY DEF Listed
<1>3. s \in Seq(S \cup T) /\ t \in Seq(S \cup T)
  BY <1>1, <1>2
<1>4. /\ s \o t \in Seq(S \cup T)
      /\ Len(s \o t) = Len(s) + Len(t)
      /\ \A i \in 1..Len(s) + Len(t) : (s \o t)[i] = IF i <= Len(s) THEN s[i] ELSE t[i - Len(s)]
  BY <1>3, ConcatProperties
<1> QED
  BY <1>1, <1>4 DEF Listed
-----------------------------------------------------------------------------
(* One session *)

Fields == {"phase", "sequence", "tasks", "links", "buffer", "todo", "waiting", "outgoing",
           "writer", "kept", "file"}

\* What is still to be numbered or repeated, and what is in line for the socket.
TodoOK(todo, sequence) ==
  /\ Listed(todo)
  /\ \A i \in 1..Len(todo) :
       /\ todo[i].how \in {"plain", "kept", "raw", "try", "input"}
       /\ todo[i].how = "raw" => todo[i].seq \in 1..sequence
LineOK(line, sequence) ==
  /\ Listed(line)
  /\ \A i \in 1..Len(line) : line[i].seq \in 1..sequence
BufferOK(buffer, sequence) ==
  /\ IsFiniteSet(buffer)
  /\ \A b \in buffer : DOMAIN b = {"seq", "body", "old"} /\ b.seq \in 1..sequence

\* The file has every number that was kept, unless the disk refused one.
FileOK(file, kept) ==
  /\ DOMAIN file = {"rows", "ended", "torn", "missed"}
  /\ \A row \in file.rows : row.seq \in Nat \ {0}
  /\ file.missed \/ \A n \in kept : \E row \in file.rows : row.seq = n

SessionOK(x) ==
  /\ DOMAIN x = Fields /\ x.sequence \in Nat
  /\ x.phase \in {"unborn", "open", "closing", "gone"}
  /\ TodoOK(x.todo, x.sequence) /\ BufferOK(x.buffer, x.sequence)
  /\ LineOK(x.outgoing, x.sequence) /\ Len(x.outgoing) <= QueueSize
  /\ LineOK(x.waiting, x.sequence) /\ Len(x.waiting) <= 1
  /\ x.phase # "open" => x.waiting = <<>>
  /\ x.phase \in {"open", "closing"} => x.kept \subseteq 1..x.sequence
  /\ x.phase \notin {"open", "closing"} => ~x.writer /\ x.outgoing = <<>>
  /\ FileOK(x.file, x.kept)

\* What the session of the socket has kept is in line, where it comes before
\* whatever has a greater number, or has been overtaken by what the browser saw.
InLine(x, last) ==
  \A m \in x.kept :
    \/ m <= last
    \/ \E j \in 1..Len(x.outgoing) : x.outgoing[j].seq = m
    \/ \E j \in 1..Len(x.waiting) : x.waiting[j].seq = m
OutgoingInOrder(x, last) ==
  \A i \in 1..Len(x.outgoing) : \A m \in x.kept :
    m < x.outgoing[i].seq => m <= last \/ \E j \in 1..(i - 1) : x.outgoing[j].seq = m
WaitingInOrder(x, last) ==
  \A i \in 1..Len(x.waiting) : \A m \in x.kept :
    m < x.waiting[i].seq => m <= last \/ \E j \in 1..Len(x.outgoing) : x.outgoing[j].seq = m

Serves(x, last) ==
  x.phase \in {"open", "closing"} =>
    /\ last <= x.sequence /\ x.writer
    /\ InLine(x, last) /\ OutgoingInOrder(x, last) /\ WaitingInOrder(x, last)
-----------------------------------------------------------------------------
(* The inductive invariant *)

ClientOK ==
  /\ DOMAIN client = {"conn", "known", "last", "resumed"}
  /\ client.conn \in Ids \cup {0} /\ client.last \in Nat /\ client.known \in BOOLEAN

SeenOK ==
  /\ Listed(seen)
  /\ \A i \in 1..Len(seen) :
       /\ seen[i][1] \in Ids /\ sessions[seen[i][1]].phase # "unborn" /\ seen[i][2] \in Nat
       /\ seen[i][1] = client.conn => seen[i][2] <= client.last

SessionsOK ==
  /\ sessions = [s \in Ids |-> sessions[s]]
  /\ \A s \in Ids : SessionOK(sessions[s])
  /\ \A s \in Ids : client.conn = s => sessions[s].phase # "unborn"
                                       /\ Serves(sessions[s], client.last)

IInv == ClientOK /\ SeenOK /\ SessionsOK /\ NothingSkipped /\ SeenOnceInOrder
-----------------------------------------------------------------------------
\* A step of session s alone, which the browser does not notice.
SessionStep(s, y) ==
  /\ SessionOK(y) /\ y.phase # "unborn"
  /\ client.conn = s => /\ Serves(y, client.last)
                        /\ \A m \in y.kept : m <= client.last => m \in sessions[s].kept
  /\ sessions' = [sessions EXCEPT ![s] = y]
  /\ UNCHANGED <<client, seen>>

LEMMA SessionStepKeeps ==
  ASSUME IInv, NEW s \in Ids, NEW y, SessionStep(s, y)
  PROVE  IInv'
<1>1. /\ sessions' = [r \in Ids |-> sessions'[r]] /\ sessions'[s] = y
      /\ \A r \in Ids \ {s} : sessions'[r] = sessions[r]
  BY DEF SessionStep, IInv, SessionsOK
<1>2. client' = client /\ seen' = seen
  BY DEF SessionStep
<1>3. \A r \in Ids : SessionOK(sessions'[r])
  BY <1>1 DEF SessionStep, IInv, SessionsOK
<1>4. \A r \in Ids : client.conn = r => sessions'[r].phase # "unborn"
                                        /\ Serves(sessions'[r], client.last)
  BY <1>1 DEF SessionStep, IInv, SessionsOK
<1>5. SessionsOK'
  BY <1>1, <1>2, <1>3, <1>4 DEF SessionsOK
<1>6. SeenOK'
  BY <1>1, <1>2 DEF SessionStep, IInv, SeenOK, Listed
<1>7. ClientOK' /\ SeenOnceInOrder'
  BY <1>2 DEF IInv, ClientOK, SeenOnceInOrder
<1>8. NothingSkipped'
  BY <1>1, <1>2 DEF SessionStep, IInv, NothingSkipped, Shown
<1> QED
  BY <1>5, <1>6, <1>7, <1>8 DEF IInv
-----------------------------------------------------------------------------
(* Handlers leave items to send, and what was kept and is in line as it was *)

Hands(x, y) ==
  /\ DOMAIN y = Fields /\ TodoOK(y.todo, x.sequence) /\ BufferOK(y.buffer, x.sequence)
  /\ y.phase = x.phase /\ y.sequence = x.sequence /\ y.waiting = x.waiting
  /\ y.outgoing = x.outgoing /\ y.writer = x.writer /\ y.kept = x.kept /\ y.file = x.file

LEMMA HandsKeeps ==
  ASSUME IInv, NEW s \in Ids, NEW y, Hands(sessions[s], y), sessions[s].phase # "unborn",
         sessions' = [sessions EXCEPT ![s] = y], UNCHANGED <<client, seen>>
  PROVE  IInv'
<1>1. SessionOK(sessions[s]) /\ (client.conn = s => Serves(sessions[s], client.last))
  BY DEF IInv, SessionsOK
<1>2. SessionOK(y)
  BY <1>1 DEF Hands, SessionOK
<1>3. Serves(sessions[s], client.last) => Serves(y, client.last)
  BY DEF Hands, Serves, InLine, OutgoingInOrder, WaitingInOrder
<1> QED
  BY <1>1, <1>2, <1>3, SessionStepKeeps DEF SessionStep, Hands

LEMMA NewItems ==
  ASSUME NEW n
  PROVE  /\ TodoOK(<<>>, n)
         /\ \A body : TodoOK(<<Plain(body)>>, n) /\ TodoOK(<<Kept(body)>>, n)
         /\ TodoOK(<<Audio>>, n) /\ TodoOK(<<Input>>, n) /\ TodoOK(<<Input, Input>>, n)
         /\ \A a, b : TodoOK(<<Plain(a), Kept(b)>>, n)
         /\ \A a : TodoOK(<<Plain(a), Input>>, n) /\ TodoOK(<<Plain(a), Input, Plain(a)>>, n)
<1> DEFINE hows == {"plain", "kept", "try", "input"}
<1>1. \A e : e.how \in hows => TodoOK(<<e>>, n)
  BY ListedOne DEF TodoOK
<1>2. /\ \A body : Plain(body).how = "plain" /\ Kept(body).how = "kept"
      /\ Audio.how = "try" /\ Input.how = "input"
  BY DEF Plain, Kept, Audio, Input, Item
<1>3. ASSUME NEW a, NEW b, a.how \in hows, b.how \in hows
      PROVE  TodoOK(<<a, b>>, n)
  <2> DEFINE t == <<a, b>>
  <2>2. t \in Seq({a, b})
    OBVIOUS
  <2>3. Len(t) = 2 /\ t[1] = a /\ t[2] = b
    OBVIOUS
  <2>4. \A i \in 1..Len(t) : t[i].how \in hows
    BY <1>3, <2>3
  <2> HIDE DEF t
  <2>5. Listed(t)
    BY <2>2 DEF Listed
  <2>6. TodoOK(t, n)
    BY <2>4, <2>5 DEF TodoOK
  <2> QED
    BY <2>6 DEF t
<1>4. ASSUME NEW a
      PROVE  TodoOK(<<Plain(a), Input, Plain(a)>>, n)
  <2> DEFINE t == <<Plain(a), Input, Plain(a)>>
  <2>2. t \in Seq({Plain(a), Input})
    OBVIOUS
  <2>3. Len(t) = 3 /\ t[1] = Plain(a) /\ t[2] = Input /\ t[3] = Plain(a)
    OBVIOUS
  <2>4. \A i \in 1..Len(t) : t[i].how \in hows
    BY <1>2, <2>3
  <2> HIDE DEF t
  <2>5. Listed(t)
    BY <2>2 DEF Listed
  <2>6. TodoOK(t, n)
    BY <2>4, <2>5 DEF TodoOK
  <2> QED
    BY <2>6 DEF t
<1>5. TodoOK(<<>>, n)
  BY ListedNone DEF TodoOK
<1> QED
  BY <1>1, <1>2, <1>3, <1>4, <1>5

LEMMA RowIsListed ==
  ASSUME NEW S, IsFiniteSet(S), NEW f \in Rows(S), NEW h, h = [i \in DOMAIN f |-> h[i]]
  PROVE  /\ Listed(h) /\ Len(h) = Cardinality(S)
         /\ DOMAIN f = 1..Cardinality(S) /\ \A i \in DOMAIN f : f[i] \in S
<1>1. Cardinality(S) \in Nat
  BY FS_CardinalityType
<1>2. DOMAIN f = 1..Cardinality(S) /\ \A i \in DOMAIN f : f[i] \in S
  BY DEF Rows
<1> DEFINE T == {h[i] : i \in DOMAIN f}
<1>3. h \in [1..Cardinality(S) -> T]
  BY <1>2
<1> HIDE DEF T
<1>4. h \in Seq(T)
  BY <1>1, <1>3
<1>5. Len(h) = Cardinality(S)
  BY <1>1, <1>3, <1>4
<1> QED
  BY <1>2, <1>4, <1>5 DEF Listed

\* A set of tasks resolved in some order.
LEMMA OutcomesAreTodo ==
  ASSUME NEW T \in SUBSET Tasks, NEW order \in Rows(T), NEW result, NEW n
  PROVE  TodoOK([i \in DOMAIN order |-> Kept(Body("outcome", order[i], result))], n)
<1> DEFINE h == [i \in DOMAIN order |-> Kept(Body("outcome", order[i], result))]
<1>1. IsFiniteSet(T)
  BY FS_Subset
<1>2. /\ Listed(h) /\ Len(h) = Cardinality(T) /\ DOMAIN order = 1..Cardinality(T)
  BY <1>1, RowIsListed
<1>3. \A i \in DOMAIN order : h[i].how = "kept"
  BY DEF Kept, Item
<1> HIDE DEF h
<1>4. TodoOK(h, n)
  BY <1>2, <1>3 DEF TodoOK
<1> QED
  BY <1>4 DEF h

LEMMA ReplayHands ==
  ASSUME NEW x, SessionOK(x), NEW last, NEW y \in HandleSessionResume(x, last)
  PROVE  Hands(x, y)
<1> DEFINE fresh == {b \in x.buffer : b.seq > last /\ ~b.old}
<1>1. PICK replay \in ReplayAfter(x, last) :
        y = [x EXCEPT !.buffer = Purged(x, last),
                      !.todo = Append([i \in DOMAIN replay |-> Raw(replay[i])], Plain(Pong))]
  BY DEF HandleSessionResume
<1> DEFINE raw == [i \in DOMAIN replay |-> Raw(replay[i])]
           todo == Append(raw, Plain(Pong))
<1>2. IsFiniteSet(fresh) /\ fresh \subseteq x.buffer
  BY FS_Subset DEF SessionOK, BufferOK
<1>3. replay \in Rows(fresh)
  BY DEF ReplayAfter
<1>4. /\ Listed(raw) /\ Len(raw) = Cardinality(fresh)
      /\ DOMAIN replay = 1..Cardinality(fresh) /\ \A i \in DOMAIN replay : replay[i] \in fresh
  BY <1>2, <1>3, RowIsListed
<1>5. \A i \in DOMAIN replay : raw[i].how = "raw" /\ raw[i].seq \in 1..x.sequence
  BY <1>2, <1>4 DEF Raw, Item, SessionOK, BufferOK
<1>6. Plain(Pong).how = "plain"
  BY DEF Plain, Item
<1> HIDE DEF raw
<1>7. TodoOK(todo, x.sequence)
  <2>1. /\ Listed(todo) /\ Len(todo) = Len(raw) + 1
        /\ \A k \in 1..Len(raw) : todo[k] = raw[k]
        /\ todo[Len(raw) + 1] = Plain(Pong)
    BY <1>4, ListedAppend
  <2>2. Len(raw) \in Nat
    BY <1>4, ListedDomain
  <2> HIDE DEF todo
  <2>3. \A k \in 1..Len(todo) : k \in 1..Len(raw) \/ k = Len(raw) + 1
    BY <2>1, <2>2
  <2> QED
    BY <1>4, <1>5, <1>6, <2>1, <2>3 DEF TodoOK
<1>8. Purged(x, last) \subseteq x.buffer
  BY DEF Purged
<1>9. BufferOK(Purged(x, last), x.sequence)
  BY <1>8, FS_Subset DEF SessionOK, BufferOK
<1>10. y = [x EXCEPT !.buffer = Purged(x, last), !.todo = todo]
  BY <1>1 DEF raw
<1> HIDE DEF todo
<1> QED
  BY <1>7, <1>9, <1>10 DEF Hands, SessionOK, Fields

LEMMA DoHands ==
  ASSUME NEW x, SessionOK(x), NEW todo, TodoOK(todo, x.sequence)
  PROVE  /\ Hands(x, [x EXCEPT !.todo = todo])
         /\ \A tasks, links : /\ Hands(x, [x EXCEPT !.tasks = tasks, !.todo = todo])
                              /\ Hands(x, [x EXCEPT !.links = links, !.todo = todo])
BY DEF Hands, SessionOK, Fields

LEMMA TakesEmissionKeeps ==
  ASSUME IInv, NEW s \in Ids, TakesEmission(s)
  PROVE  IInv'
<1> DEFINE x == sessions[s]
           running == {t \in Tasks : x.tasks[t] = "active"}
<1>1. SessionOK(x) /\ x.phase = "open" /\ UNCHANGED <<client, seen>>
  BY DEF IInv, SessionsOK, TakesEmission, Ready, Idle, clientVars
<1>2. ASSUME NEW y, Hands(x, y), sessions' = [sessions EXCEPT ![s] = y]
      PROVE  IInv'
  BY <1>1, <1>2, HandsKeeps
<1>3. CASE \E T \in SUBSET running \ {{}}, result \in Settled : \E order \in Rows(T) :
             sessions' = [sessions EXCEPT ![s] =
               [x EXCEPT !.tasks = [t \in Tasks |-> IF t \in T THEN result ELSE x.tasks[t]],
                         !.todo = [i \in DOMAIN order |-> Kept(Body("outcome", order[i], result))]]]
  <2>0. PICK T \in SUBSET running \ {{}}, result \in Settled : \E order \in Rows(T) :
             sessions' = [sessions EXCEPT ![s] =
               [x EXCEPT !.tasks = [t \in Tasks |-> IF t \in T THEN result ELSE x.tasks[t]],
                         !.todo = [i \in DOMAIN order |-> Kept(Body("outcome", order[i], result))]]]
    BY <1>3
  <2>1. PICK order \in Rows(T) :
             sessions' = [sessions EXCEPT ![s] =
               [x EXCEPT !.tasks = [t \in Tasks |-> IF t \in T THEN result ELSE x.tasks[t]],
                         !.todo = [i \in DOMAIN order |-> Kept(Body("outcome", order[i], result))]]]
    BY <2>0
  <2>2. TodoOK([i \in DOMAIN order |-> Kept(Body("outcome", order[i], result))], x.sequence)
    BY OutcomesAreTodo
  <2> QED
    BY <1>1, <1>2, <2>1, <2>2, DoHands
<1>4. CASE \E t \in running, p \in Proofs :
             sessions' = [sessions EXCEPT ![s] =
               [x EXCEPT !.links = x.links \cup {<<t, p>>},
                         !.todo = IF <<t, p>> \in x.links THEN <<Plain(Control)>>
                                  ELSE <<Plain(Control), Kept(Body("link", t, p))>>]]
  <2>1. PICK t \in running, p \in Proofs :
             sessions' = [sessions EXCEPT ![s] =
               [x EXCEPT !.links = x.links \cup {<<t, p>>},
                         !.todo = IF <<t, p>> \in x.links THEN <<Plain(Control)>>
                                  ELSE <<Plain(Control), Kept(Body("link", t, p))>>]]
    BY <1>4
  <2>3. TodoOK(IF <<t, p>> \in x.links THEN <<Plain(Control)>>
               ELSE <<Plain(Control), Kept(Body("link", t, p))>>, x.sequence)
    BY NewItems
  <2> QED
    BY <1>1, <1>2, <2>1, <2>3, DoHands
<1>5. CASE \E items \in {<<Audio>>, <<Plain(Control), Input>>} :
             sessions' = [sessions EXCEPT ![s] = Do(x, items)]
  <2>1. PICK items \in {<<Audio>>, <<Plain(Control), Input>>} :
          sessions' = [sessions EXCEPT ![s] = Do(x, items)]
    BY <1>5
  <2>2. TodoOK(items, x.sequence)
    BY NewItems
  <2> QED
    BY <1>1, <1>2, <2>1, <2>2, DoHands DEF Do
<1> QED
  BY <1>3, <1>4, <1>5, ZenonT(60) DEF TakesEmission

LEMMA BrowserSendsKeeps ==
  ASSUME IInv, NEW s \in Ids,
         RequestTask(s) \/ CancelTask(s) \/ ResumeSession(s) \/ Ask(s) \/ Speak(s)
  PROVE  IInv'
<1> DEFINE x == sessions[s]
<1>1. ASSUME NEW y, Sends(s, y)
      PROVE  /\ SessionOK(x) /\ x.phase = "open" /\ UNCHANGED <<client, seen>>
             /\ Hands(x, y) => IInv'
  <2>1. SessionOK(x) /\ x.phase = "open" /\ UNCHANGED <<client, seen>>
    BY <1>1 DEF Sends, IInv, SessionsOK, StillReady, Idle
  <2> QED
    BY <1>1, <2>1, HandsKeeps DEF Sends
<1>2. SessionOK(x)
  BY DEF IInv, SessionsOK
<1>3. CASE RequestTask(s)
  <2>1. PICK t \in Tasks : Sends(s, HandleTaskRequested(x, t))
    BY <1>3 DEF RequestTask
  <2>2. Hands(x, HandleTaskRequested(x, t))
    <3>1. CASE x.tasks[t] # "unknown"
      BY <1>2, <3>1, NewItems, DoHands DEF HandleTaskRequested, Do
    <3>2. CASE x.tasks[t] = "unknown"
      <4>1. HandleTaskRequested(x, t) =
              [x EXCEPT !.tasks = [x.tasks EXCEPT ![t] = "active"],
                        !.todo = <<Kept(Body("ack", t, NoProof))>>]
        BY <3>2 DEF HandleTaskRequested
      <4>2. TodoOK(<<Kept(Body("ack", t, NoProof))>>, x.sequence)
        BY NewItems
      <4> QED
        BY <1>2, <4>1, <4>2 DEF Hands, SessionOK, Fields
    <3> QED
      BY <3>1, <3>2
  <2> QED
    BY <1>1, <2>1, <2>2
<1>4. CASE CancelTask(s)
  <2>1. PICK t \in Tasks : Sends(s, HandleTaskCancel(x, t))
    BY <1>4 DEF CancelTask
  <2>2. Hands(x, HandleTaskCancel(x, t))
    <3>1. CASE x.tasks[t] # "active"
      BY <1>2, <3>1 DEF HandleTaskCancel, Hands, SessionOK
    <3>2. CASE x.tasks[t] = "active"
      <4>1. HandleTaskCancel(x, t) =
              [x EXCEPT !.tasks = [x.tasks EXCEPT ![t] = "cancelled"],
                        !.todo = <<Kept(Body("outcome", t, "cancelled"))>>]
        BY <3>2 DEF HandleTaskCancel
      <4>2. TodoOK(<<Kept(Body("outcome", t, "cancelled"))>>, x.sequence)
        BY NewItems
      <4> QED
        BY <1>2, <4>1, <4>2 DEF Hands, SessionOK, Fields
    <3> QED
      BY <3>1, <3>2
  <2> QED
    BY <1>1, <2>1, <2>2
<1>5. CASE ResumeSession(s)
  BY <1>1, <1>2, <1>5, ReplayHands DEF ResumeSession
<1>6. CASE Ask(s)
  BY <1>1, <1>2, <1>6, NewItems, DoHands DEF Ask, Do
<1>7. CASE Speak(s)
  <2>1. PICK items \in {<<Plain(Control), Input>>, <<Plain(Control), Input, Plain(Control)>>} :
          Sends(s, Do(x, items))
    BY <1>7 DEF Speak
  <2>2. TodoOK(items, x.sequence)
    BY NewItems
  <2> QED
    BY <1>1, <1>2, <2>1, <2>2, DoHands DEF Do
<1> QED
  BY <1>3, <1>4, <1>5, <1>6, <1>7
-----------------------------------------------------------------------------
(* Numbering and queueing *)

\* With a greater number everything stays as it should be.
LEMMA MoreNumbers ==
  ASSUME NEW n \in Nat
  PROVE  /\ \A todo : TodoOK(todo, n) => TodoOK(todo, n + 1)
         /\ \A line : LineOK(line, n) => LineOK(line, n + 1)
         /\ \A buffer : BufferOK(buffer, n) => BufferOK(buffer, n + 1)
BY DEF TodoOK, LineOK, BufferOK

LEMMA TodoTail ==
  ASSUME NEW todo, NEW n, TodoOK(todo, n), todo # <<>>
  PROVE  /\ TodoOK(Tail(todo), n)
         /\ Head(todo).how \in {"plain", "kept", "raw", "try", "input"}
         /\ Head(todo).how = "raw" => Head(todo).seq \in 1..n
<1>1. /\ Listed(todo) /\ Listed(Tail(todo)) /\ Len(Tail(todo)) = Len(todo) - 1 /\ Len(todo) > 0
      /\ \A k \in 1..(Len(todo) - 1) : Tail(todo)[k] = todo[k + 1]
      /\ Head(todo) = todo[1] /\ Len(todo) \in Nat
  BY ListedTail, ListedDomain DEF TodoOK
<1> QED
  BY <1>1 DEF TodoOK

LEMMA OneInLine ==
  ASSUME NEW n, NEW seq \in 1..n, NEW e, e.seq = seq
  PROVE  LineOK(<<e>>, n) /\ Len(<<e>>) = 1 /\ <<e>>[1].seq = seq
BY ListedOne DEF LineOK

LEMMA LineAppend ==
  ASSUME NEW line, NEW n, LineOK(line, n), NEW e, e.seq \in 1..n
  PROVE  /\ LineOK(Append(line, e), n) /\ Len(Append(line, e)) = Len(line) + 1
         /\ \A k \in 1..Len(line) : Append(line, e)[k] = line[k]
         /\ Append(line, e)[Len(line) + 1] = e /\ Len(line) \in Nat
<1>1. /\ Listed(Append(line, e)) /\ Len(Append(line, e)) = Len(line) + 1
      /\ \A k \in 1..Len(line) : Append(line, e)[k] = line[k]
      /\ Append(line, e)[Len(line) + 1] = e /\ Len(line) \in Nat
  BY ListedAppend, ListedDomain DEF LineOK
<1> QED
  BY <1>1 DEF LineOK

\* What waits with a number of its own or repeats one: what is kept below it is in line.
LEMMA WaitsInOrder ==
  ASSUME NEW x, SessionOK(x), x.phase = "open", x.waiting = <<>>,
         NEW last \in Nat, Serves(x, last),
         NEW y, DOMAIN y = Fields, y.phase = "open", y.outgoing = x.outgoing, y.writer = x.writer,
         y.sequence \in Nat, y.sequence >= x.sequence,
         NEW e, y.waiting = <<e>>,
         \/ y.kept = x.kept
         \/ y.kept = x.kept \cup {e.seq} /\ e.seq = x.sequence + 1
  PROVE  Serves(y, last)
<1>1. /\ x.sequence \in Nat /\ x.kept \subseteq 1..x.sequence
      /\ \A i \in 1..Len(x.outgoing) : x.outgoing[i].seq \in 1..x.sequence
  BY DEF SessionOK, LineOK
<1>2. Len(x.waiting) = 0 /\ Len(y.waiting) = 1 /\ y.waiting[1] = e
  BY ListedNone, ListedOne
<1>3. last <= x.sequence /\ x.writer /\ InLine(x, last) /\ OutgoingInOrder(x, last)
  BY DEF Serves
<1>4. \A m \in x.kept : m <= last \/ \E j \in 1..Len(x.outgoing) : x.outgoing[j].seq = m
  BY <1>2, <1>3 DEF InLine
<1>5. last <= y.sequence
  BY <1>1, <1>3
<1>6. InLine(y, last)
  BY <1>2, <1>4 DEF InLine
<1>7. OutgoingInOrder(y, last)
  BY <1>1, <1>3 DEF OutgoingInOrder
<1>8. WaitingInOrder(y, last)
  BY <1>1, <1>2, <1>4 DEF WaitingInOrder
<1> QED
  BY <1>3, <1>5, <1>6, <1>7, <1>8 DEF Serves

\* However a row is written, it is in the file or the disk refused it.
LEMMA WrittenIsStored ==
  ASSUME NEW file, NEW kept, FileOK(file, kept), NEW row, row.seq \in Nat \ {0},
         NEW write \in Writes
  PROVE  FileOK(AppendJsonl(file, row, write), kept \cup {row.seq})
<1> DEFINE g == AppendJsonl(file, row, write)
<1>1. CASE write = "part"
  BY <1>1 DEF FileOK, AppendJsonl
<1>2. CASE write \in {"written", "unended"}
  <2>1. /\ DOMAIN g = {"rows", "ended", "torn", "missed"} /\ g.rows = file.rows \cup {row}
        /\ g.missed = file.missed
    BY <1>2 DEF FileOK, AppendJsonl
  <2> HIDE DEF g
  <2>2. FileOK(g, kept \cup {row.seq})
    BY <2>1 DEF FileOK
  <2> QED
    BY <2>2 DEF g
<1> QED
  BY <1>1, <1>2 DEF Writes

LEMMA ProduceKeeps ==
  ASSUME IInv, NEW s \in Ids, NEW write \in Writes, Produce(s, write)
  PROVE  IInv'
<1> DEFINE x == sessions[s]
           item == Head(x.todo)
           n == NextSequence(x.sequence)
           e == Envelope(n, item.body)
           numbered == [x EXCEPT !.sequence = n, !.todo = Tail(@)]
           last == client.last
<1>1. /\ SessionOK(x) /\ x.phase = "open" /\ x.todo # <<>> /\ x.waiting = <<>>
      /\ UNCHANGED <<client, seen>> /\ last \in Nat
      /\ client.conn = s => Serves(x, last)
  BY DEF IInv, SessionsOK, Produce, clientVars, ClientOK
<1>2. n = x.sequence + 1 /\ x.sequence \in Nat /\ n \in Nat
  BY <1>1 DEF NextSequence, SessionOK
<1>3. /\ TodoOK(Tail(x.todo), x.sequence) /\ item.how \in {"plain", "kept", "raw", "try"}
      /\ item.how = "raw" => item.seq \in 1..x.sequence
  BY <1>1, TodoTail DEF SessionOK, Produce
<1>4. e.seq = n /\ n \in 1..n
  BY <1>2 DEF Envelope
<1>5. /\ TodoOK(Tail(x.todo), n) /\ BufferOK(x.buffer, n) /\ LineOK(x.outgoing, n)
      /\ x.kept \subseteq 1..n /\ Len(x.outgoing) <= QueueSize /\ FileOK(x.file, x.kept)
  BY <1>1, <1>2, <1>3, MoreNumbers DEF SessionOK
<1>6. /\ DOMAIN numbered = Fields /\ numbered.phase = "open" /\ numbered.sequence = n
      /\ numbered.todo = Tail(x.todo) /\ numbered.waiting = <<>>
      /\ numbered.outgoing = x.outgoing /\ numbered.buffer = x.buffer /\ numbered.kept = x.kept
      /\ numbered.writer = x.writer /\ numbered.file = x.file
  BY <1>1 DEF SessionOK, Fields
<1>7. ASSUME NEW y, SessionOK(y), y.phase = "open", sessions' = [sessions EXCEPT ![s] = y],
             client.conn = s => /\ Serves(y, last)
                                /\ \A m \in y.kept : m <= last => m \in x.kept
      PROVE  IInv'
  BY <1>1, <1>7, SessionStepKeeps DEF SessionStep
<1>8. LineOK(<<e>>, n) /\ Len(<<e>>) = 1
  BY <1>4, OneInLine
<1>9. LineOK(<<>>, n) /\ Len(<<>>) = 0
  BY ListedNone DEF LineOK
<1> HIDE DEF numbered, e, n, item
<1>10. CASE item.how = "plain"
  <2> DEFINE y == [numbered EXCEPT !.waiting = <<e>>]
  <2>1. /\ DOMAIN y = Fields /\ y.phase = "open" /\ y.sequence = n /\ y.todo = Tail(x.todo)
        /\ y.waiting = <<e>> /\ y.outgoing = x.outgoing /\ y.buffer = x.buffer
        /\ y.kept = x.kept /\ y.writer = x.writer /\ y.file = x.file
    BY <1>6 DEF Fields
  <2>2. sessions' = [sessions EXCEPT ![s] = y]
    BY <1>10 DEF Produce, numbered, e, n, item
  <2> HIDE DEF y
  <2>3. SessionOK(y)
    BY <1>2, <1>5, <1>8, <2>1 DEF SessionOK
  <2>4. client.conn = s => Serves(y, last)
    BY <1>1, <1>2, <2>1, WaitsInOrder
  <2> QED
    BY <1>7, <2>1, <2>2, <2>3, <2>4
<1>11. CASE item.how = "kept"
  <2> DEFINE y == [SendAndBuffer(numbered, e, write) EXCEPT !.waiting = <<e>>]
             entry == [seq |-> e.seq, body |-> e.body, old |-> FALSE]
  <2>1. /\ DOMAIN y = Fields /\ y.phase = "open" /\ y.sequence = n /\ y.todo = Tail(x.todo)
        /\ y.waiting = <<e>> /\ y.outgoing = x.outgoing /\ y.buffer = x.buffer \cup {entry}
        /\ y.kept = x.kept \cup {e.seq} /\ y.writer = x.writer
        /\ y.file = AppendJsonl(x.file, e, write)
    BY <1>6 DEF Fields, SendAndBuffer, BufferOutbound
  <2>2. sessions' = [sessions EXCEPT ![s] = y]
    BY <1>11 DEF Produce, numbered, e, n, item
  <2>3. DOMAIN entry = {"seq", "body", "old"} /\ entry.seq = n
    BY <1>4
  <2> HIDE DEF y, entry
  <2>4. BufferOK(y.buffer, n)
    <3>1. IsFiniteSet(x.buffer \cup {entry})
      BY <1>5, FS_AddElement DEF BufferOK
    <3>2. BufferOK(x.buffer \cup {entry}, n)
      BY <1>4, <1>5, <2>3, <3>1 DEF BufferOK
    <3> QED
      BY <2>1, <3>2
  <2>5. FileOK(y.file, y.kept)
    BY <1>2, <1>4, <1>5, <2>1, WrittenIsStored
  <2>6. SessionOK(y)
    BY <1>2, <1>4, <1>5, <1>8, <2>1, <2>4, <2>5 DEF SessionOK
  <2>7. client.conn = s => Serves(y, last)
    BY <1>1, <1>2, <1>4, <2>1, WaitsInOrder
  <2>8. client.conn = s => \A m \in y.kept : m <= last => m \in x.kept
    BY <1>1, <1>2, <1>4, <2>1 DEF Serves
  <2> QED
    BY <1>7, <2>1, <2>2, <2>6, <2>7, <2>8
<1>12. CASE item.how = "raw"
  <2> DEFINE again == Envelope(item.seq, item.body)
             y == [x EXCEPT !.todo = Tail(@), !.waiting = <<again>>]
  <2>1. /\ DOMAIN y = Fields /\ y.phase = "open" /\ y.sequence = x.sequence
        /\ y.todo = Tail(x.todo) /\ y.waiting = <<again>> /\ y.outgoing = x.outgoing
        /\ y.buffer = x.buffer /\ y.kept = x.kept /\ y.writer = x.writer /\ y.file = x.file
    BY <1>1 DEF SessionOK, Fields
  <2>2. sessions' = [sessions EXCEPT ![s] = y]
    BY <1>12 DEF Produce, item
  <2>3. again.seq \in 1..x.sequence
    BY <1>3, <1>12 DEF Envelope
  <2> HIDE DEF y, again
  <2>4. LineOK(<<again>>, x.sequence) /\ Len(<<again>>) = 1
    BY <2>3, OneInLine
  <2>5. SessionOK(y)
    BY <1>1, <1>3, <2>1, <2>4 DEF SessionOK
  <2>6. client.conn = s => Serves(y, last)
    BY <1>1, <1>2, <2>1, WaitsInOrder
  <2> QED
    BY <1>7, <2>1, <2>2, <2>5, <2>6
<1>13. CASE item.how = "try"
  <2>1. ASSUME NEW y, DOMAIN y = Fields, y.phase = "open", y.sequence = n,
               y.todo = Tail(x.todo), y.waiting = <<>>, y.buffer = x.buffer,
               y.kept = x.kept, y.writer = x.writer, y.file = x.file,
               sessions' = [sessions EXCEPT ![s] = y],
               \/ y.outgoing = x.outgoing
               \/ y.outgoing = Append(x.outgoing, e) /\ Len(x.outgoing) < QueueSize
        PROVE  IInv'
    <3>1. /\ LineOK(Append(x.outgoing, e), n)
          /\ Len(Append(x.outgoing, e)) = Len(x.outgoing) + 1
          /\ \A k \in 1..Len(x.outgoing) : Append(x.outgoing, e)[k] = x.outgoing[k]
          /\ Append(x.outgoing, e)[Len(x.outgoing) + 1] = e /\ Len(x.outgoing) \in Nat
      BY <1>4, <1>5, LineAppend
    <3>2. SessionOK(y)
      <4>1. CASE y.outgoing = x.outgoing
        BY <1>2, <1>5, <1>9, <2>1, <4>1 DEF SessionOK
      <4>2. CASE y.outgoing = Append(x.outgoing, e) /\ Len(x.outgoing) < QueueSize
        <5>1. Len(y.outgoing) <= QueueSize /\ LineOK(y.outgoing, n)
          BY <3>1, <4>2
        <5> QED
          BY <1>2, <1>5, <1>9, <2>1, <5>1 DEF SessionOK
      <4> QED
        BY <2>1, <4>1, <4>2
    <3>3. ASSUME client.conn = s
          PROVE  Serves(y, last)
      <4>1. last <= x.sequence /\ x.writer /\ InLine(x, last) /\ OutgoingInOrder(x, last)
        BY <1>1, <3>3 DEF Serves
      <4>0. \A m \in x.kept : m <= last \/ \E j \in 1..Len(x.outgoing) : x.outgoing[j].seq = m
        BY <1>1, <1>9, <4>1 DEF InLine
      <4>2. InLine(y, last)
        <5>1. CASE y.outgoing = x.outgoing
          BY <2>1, <4>0, <5>1 DEF InLine
        <5>2. CASE y.outgoing = Append(x.outgoing, e)
          BY <2>1, <3>1, <4>0, <5>2 DEF InLine
        <5> QED
          BY <2>1, <5>1, <5>2
      <4>3. OutgoingInOrder(y, last)
        <5>1. CASE y.outgoing = x.outgoing
          BY <2>1, <3>1, <4>1, <5>1 DEF OutgoingInOrder
        <5>2. CASE y.outgoing = Append(x.outgoing, e)
          <6>1. \A i \in 1..Len(y.outgoing) : i \in 1..Len(x.outgoing) \/ i = Len(x.outgoing) + 1
            BY <3>1, <5>2
          <6>2. \A i \in 1..Len(x.outgoing) : \A j \in 1..(i - 1) : j \in 1..Len(x.outgoing)
            BY <3>1
          <6>4. ASSUME NEW i \in 1..Len(x.outgoing), NEW m \in x.kept, m < y.outgoing[i].seq
                PROVE  m <= last \/ \E j \in 1..(i - 1) : y.outgoing[j].seq = m
            <7>1. y.outgoing[i] = x.outgoing[i]
              BY <3>1, <5>2
            <7>2. m <= last \/ \E j \in 1..(i - 1) : x.outgoing[j].seq = m
              BY <4>1, <6>4, <7>1 DEF OutgoingInOrder
            <7> QED
              BY <3>1, <5>2, <6>2, <7>2
          <6>5. ASSUME NEW m \in x.kept
                PROVE  m <= last \/ \E j \in 1..((Len(x.outgoing) + 1) - 1) : y.outgoing[j].seq = m
            BY <3>1, <4>0, <5>2
          <6> QED
            BY <2>1, <6>1, <6>4, <6>5 DEF OutgoingInOrder
        <5> QED
          BY <2>1, <5>1, <5>2
      <4>4. WaitingInOrder(y, last)
        BY <1>9, <2>1 DEF WaitingInOrder
      <4> QED
        BY <1>1, <1>2, <2>1, <4>1, <4>2, <4>3, <4>4 DEF Serves
    <3> QED
      BY <1>7, <2>1, <3>2, <3>3
  <2>2. CASE Full(x) \/ ~x.writer
    <3>1. sessions' = [sessions EXCEPT ![s] = numbered]
      BY <1>13, <2>2 DEF Produce, numbered, n, item
    <3> QED
      BY <1>6, <2>1, <3>1
  <2>3. CASE ~(Full(x) \/ ~x.writer)
    <3> DEFINE y == [numbered EXCEPT !.outgoing = Append(@, e)]
    <3>1. sessions' = [sessions EXCEPT ![s] = y]
      BY <1>13, <2>3 DEF Produce, numbered, e, n, item
    <3>2. /\ DOMAIN y = Fields /\ y.phase = "open" /\ y.sequence = n /\ y.todo = Tail(x.todo)
          /\ y.waiting = <<>> /\ y.outgoing = Append(x.outgoing, e) /\ y.buffer = x.buffer
          /\ y.kept = x.kept /\ y.writer = x.writer /\ y.file = x.file
      BY <1>6 DEF Fields
    <3>3. Len(x.outgoing) < QueueSize
      BY <1>5, <2>3, ListedDomain DEF Full, LineOK
    <3> HIDE DEF y
    <3> QED
      BY <2>1, <3>1, <3>2, <3>3
  <2> QED
    BY <2>2, <2>3
<1> QED
  BY <1>3, <1>10, <1>11, <1>12, <1>13

LEMMA PushKeeps ==
  ASSUME IInv, NEW s \in Ids, Push(s)
  PROVE  IInv'
<1> DEFINE x == sessions[s]
           last == client.last
<1>1. /\ SessionOK(x) /\ x.waiting # <<>> /\ x.phase = "open" /\ UNCHANGED <<client, seen>>
      /\ PushTo(x) # x /\ sessions' = [sessions EXCEPT ![s] = PushTo(x)]
      /\ client.conn = s => Serves(x, last)
  BY DEF IInv, SessionsOK, SessionOK, Push, clientVars
<1>2. /\ Listed(x.waiting) /\ Len(x.waiting) = 1 /\ Listed(x.outgoing) /\ Len(x.outgoing) \in Nat
      /\ x.waiting[1].seq \in 1..x.sequence
  <2>1. Listed(x.waiting) /\ Listed(x.outgoing) /\ Len(x.waiting) <= 1
    BY <1>1 DEF SessionOK, LineOK
  <2>2. Len(x.waiting) \in Nat /\ Len(x.outgoing) \in Nat /\ Len(x.waiting) > 0
    BY <1>1, <2>1, ListedDomain, ListedTail
  <2>3. Len(x.waiting) = 1
    BY <1>1, <2>1, ListedAlone
  <2>4. x.waiting[1].seq \in 1..x.sequence
    BY <1>1, <2>3 DEF SessionOK, LineOK
  <2> QED
    BY <2>1, <2>2, <2>3, <2>4
<1>3. LineOK(<<>>, x.sequence) /\ Len(<<>>) = 0
  BY ListedNone DEF LineOK
<1>4. CASE ~x.writer
  <2> DEFINE y == [x EXCEPT !.waiting = <<>>]
  <2>1. sessions' = [sessions EXCEPT ![s] = y]
    BY <1>1, <1>4 DEF PushTo
  <2>2. SessionOK(y) /\ y.phase = "open" /\ client.conn # s
    BY <1>1, <1>3, <1>4 DEF SessionOK, Fields, Serves
  <2> HIDE DEF y
  <2> QED
    BY <1>1, <2>1, <2>2, SessionStepKeeps DEF SessionStep
<1>5. CASE x.writer
  <2> DEFINE y == [x EXCEPT !.waiting = <<>>, !.outgoing = @ \o x.waiting]
             line == x.outgoing \o x.waiting
  <2>1. sessions' = [sessions EXCEPT ![s] = y] /\ ~Full(x)
    BY <1>1, <1>5 DEF PushTo
  <2>2. /\ Listed(line) /\ Len(line) = Len(x.outgoing) + 1
        /\ \A k \in 1..Len(x.outgoing) : line[k] = x.outgoing[k]
        /\ line[Len(x.outgoing) + 1] = x.waiting[1]
    BY <1>2, ListedConcat
  <2>3. /\ DOMAIN y = Fields /\ y.phase = "open" /\ y.sequence = x.sequence /\ y.todo = x.todo
        /\ y.waiting = <<>> /\ y.outgoing = line /\ y.buffer = x.buffer /\ y.kept = x.kept
        /\ y.writer = x.writer /\ y.file = x.file
    BY <1>1 DEF SessionOK, Fields
  <2> HIDE DEF y, line
  <2>4. \A i \in 1..Len(line) : i \in 1..Len(x.outgoing) \/ i = Len(x.outgoing) + 1
    BY <1>2, <2>2
  <2>5. LineOK(line, x.sequence)
    BY <1>1, <1>2, <2>2, <2>4 DEF SessionOK, LineOK
  <2>6. Len(line) <= QueueSize
    BY <1>2, <2>1, <2>2 DEF Full
  <2>7. SessionOK(y)
    BY <1>1, <1>3, <2>3, <2>5, <2>6 DEF SessionOK
  <2>8. ASSUME client.conn = s
        PROVE  Serves(y, last)
    <3>1. /\ last <= x.sequence /\ InLine(x, last) /\ OutgoingInOrder(x, last)
          /\ WaitingInOrder(x, last)
      BY <1>1, <2>8 DEF Serves
    <3>2. InLine(y, last)
      BY <1>2, <2>2, <2>3, <3>1 DEF InLine
    <3>3. \A i \in 1..Len(x.outgoing) : \A j \in 1..(i - 1) : j \in 1..Len(x.outgoing)
      BY <1>2
    <3>4. ASSUME NEW i \in 1..Len(x.outgoing), NEW m \in x.kept, m < line[i].seq
          PROVE  m <= last \/ \E j \in 1..(i - 1) : line[j].seq = m
      <4>1. m <= last \/ \E j \in 1..(i - 1) : x.outgoing[j].seq = m
        BY <2>2, <3>1, <3>4 DEF OutgoingInOrder
      <4> QED
        BY <2>2, <3>3, <4>1
    <3>5. ASSUME NEW m \in x.kept, m < x.waiting[1].seq
          PROVE  m <= last \/ \E j \in 1..((Len(x.outgoing) + 1) - 1) : line[j].seq = m
      BY <1>2, <2>2, <3>1, <3>5 DEF WaitingInOrder
    <3>6. OutgoingInOrder(y, last)
      BY <2>2, <2>3, <2>4, <3>4, <3>5 DEF OutgoingInOrder
    <3>7. WaitingInOrder(y, last)
      BY <1>3, <2>3 DEF WaitingInOrder
    <3> QED
      BY <1>5, <2>3, <3>1, <3>2, <3>6, <3>7 DEF Serves
  <2> QED
    BY <1>1, <2>1, <2>3, <2>7, <2>8, SessionStepKeeps DEF SessionStep
<1> QED
  BY <1>4, <1>5
-----------------------------------------------------------------------------
(* The life of a session *)

LEMMA AgedIsFinite ==
  ASSUME NEW S, IsFiniteSet(S)
  PROVE  IsFiniteSet({[b EXCEPT !.old = TRUE] : b \in S})
<1> DEFINE T == {[b EXCEPT !.old = TRUE] : b \in S}
           f == [b \in S |-> [b EXCEPT !.old = TRUE]]
<1>1. f \in Surjection(S, T)
  BY DEF Surjection
<1> HIDE DEF f, T
<1>2. \A g \in Surjection(S, T) : IsFiniteSet(T)
  BY FS_Surjection
<1>3. IsFiniteSet(T)
  BY <1>1, <1>2
<1> QED
  BY <1>3 DEF T

LEMMA LifeKeeps ==
  ASSUME IInv, NEW s \in Ids,
         \/ TakesInput(s) \/ WriterFails(s) \/ SocketEnds(s) \/ ProviderGone(s)
         \/ Finish(s) \/ Age(s)
  PROVE  IInv'
<1> DEFINE x == sessions[s]
           last == client.last
<1>1. SessionOK(x) /\ (client.conn = s => Serves(x, last))
  BY DEF IInv, SessionsOK
<1>2. LineOK(<<>>, x.sequence) /\ Len(<<>>) = 0
  BY ListedNone DEF LineOK
<1>3. CASE WriterFails(s)
  <2> DEFINE y == [x EXCEPT !.writer = FALSE]
  <2>1. /\ sessions' = [sessions EXCEPT ![s] = y] /\ UNCHANGED <<client, seen>>
        /\ client.conn # s /\ x.writer
    BY <1>3 DEF WriterFails, clientVars
  <2>2. SessionOK(y) /\ y.phase # "unborn"
    BY <1>1, <2>1 DEF SessionOK, Fields
  <2> HIDE DEF y
  <2> QED
    BY <2>1, <2>2, SessionStepKeeps DEF SessionStep
<1>4. CASE SocketEnds(s) \/ ProviderGone(s)
  <2>0. PICK farewell \in Farewells :
          sessions' = [sessions EXCEPT ![s] = [@ EXCEPT !.phase = "closing", !.todo = farewell]]
    BY <1>4 DEF SocketEnds, ProviderGone, Close
  <2> DEFINE y == [x EXCEPT !.phase = "closing", !.todo = farewell]
  <2>1. /\ sessions' = [sessions EXCEPT ![s] = y] /\ UNCHANGED <<client, seen>>
        /\ x.phase = "open" /\ x.waiting = <<>> /\ TodoOK(farewell, x.sequence)
    BY <1>4, <2>0, NewItems DEF SocketEnds, ProviderGone, Close, Idle, clientVars, Farewells
  <2>2. /\ DOMAIN y = Fields /\ y.phase = "closing" /\ y.sequence = x.sequence /\ y.todo = farewell
        /\ y.waiting = x.waiting /\ y.outgoing = x.outgoing /\ y.buffer = x.buffer
        /\ y.kept = x.kept /\ y.writer = x.writer /\ y.file = x.file
    BY <1>1 DEF SessionOK, Fields
  <2> HIDE DEF y
  <2>3. SessionOK(y)
    BY <1>1, <2>1, <2>2 DEF SessionOK
  <2>4. client.conn = s => Serves(y, last)
    BY <1>1, <2>1, <2>2 DEF Serves, InLine, OutgoingInOrder, WaitingInOrder
  <2> QED
    BY <2>1, <2>2, <2>3, <2>4, SessionStepKeeps DEF SessionStep
<1>5. CASE Finish(s)
  <2> DEFINE y == [x EXCEPT !.phase = "gone", !.writer = FALSE, !.outgoing = <<>>]
  <2>1. /\ sessions' = [sessions EXCEPT ![s] = y] /\ UNCHANGED <<client, seen>>
        /\ x.phase = "closing"
    BY <1>5 DEF Finish, clientVars
  <2>2. /\ DOMAIN y = Fields /\ y.phase = "gone" /\ y.sequence = x.sequence /\ y.todo = x.todo
        /\ y.waiting = <<>> /\ y.outgoing = <<>> /\ y.buffer = x.buffer
        /\ y.kept = x.kept /\ ~y.writer /\ y.file = x.file
    BY <1>1, <2>1 DEF SessionOK, Fields
  <2> HIDE DEF y
  <2>3. SessionOK(y)
    BY <1>1, <1>2, <2>2 DEF SessionOK
  <2>4. Serves(y, last)
    BY <2>2 DEF Serves
  <2> QED
    BY <2>1, <2>2, <2>3, <2>4, SessionStepKeeps DEF SessionStep
<1>6. CASE Age(s)
  <2> DEFINE aged == {[b EXCEPT !.old = TRUE] : b \in x.buffer}
             y == [x EXCEPT !.buffer = aged]
  <2>1. /\ sessions' = [sessions EXCEPT ![s] = y] /\ UNCHANGED <<client, seen>>
        /\ x.phase = "open"
    BY <1>6 DEF Age, clientVars
  <2>2. BufferOK(aged, x.sequence)
    <3>1. IsFiniteSet(x.buffer)
      BY <1>1 DEF SessionOK, BufferOK
    <3>3. IsFiniteSet(aged)
      BY <3>1, AgedIsFinite
    <3> QED
      BY <1>1, <3>3 DEF SessionOK, BufferOK
  <2> HIDE DEF aged
  <2>3. Hands(x, y)
    BY <1>1, <2>2 DEF Hands, SessionOK, Fields
  <2> QED
    BY <2>1, <2>3, HandsKeeps
<1>7. CASE TakesInput(s)
  <2>1. /\ sessions' = [sessions EXCEPT ![s] = [x EXCEPT !.todo = Tail(x.todo)]]
        /\ UNCHANGED <<client, seen>>
        /\ x.phase \in {"open", "closing"} /\ x.todo # <<>>
    BY <1>7 DEF TakesInput, clientVars
  <2>2. TodoOK(Tail(x.todo), x.sequence)
    BY <1>1, <2>1, TodoTail DEF SessionOK
  <2>3. Hands(x, [x EXCEPT !.todo = Tail(x.todo)])
    BY <1>1, <2>2, DoHands
  <2> QED
    BY <2>1, <2>3, HandsKeeps
<1> QED
  BY <1>3, <1>4, <1>5, <1>6, <1>7
-----------------------------------------------------------------------------
(* The browser *)

LEMMA NewSessionOK ==
  /\ SessionOK(Unborn)
  /\ \A todo : TodoOK(todo, 0) =>
       SessionOK([Unborn EXCEPT !.phase = "open", !.writer = TRUE, !.todo = todo])
  /\ \A file, kept, tasks : \A n \in Nat : FileOK(file, kept) =>
       SessionOK([Unborn EXCEPT !.phase = "gone", !.sequence = n, !.kept = kept,
                                !.tasks = tasks, !.file = file])
<1>1. \A n \in Nat : TodoOK(<<>>, n) /\ LineOK(<<>>, n) /\ Len(<<>>) = 0
  BY ListedNone DEF TodoOK, LineOK
<1>2. \A n \in Nat : BufferOK({}, n)
  BY FS_EmptySet DEF BufferOK
<1>3. 0 <= QueueSize /\ 0 <= 1
  OBVIOUS
<1>4. FileOK(NoFile, {})
  BY DEF FileOK, NoFile
<1> QED
  BY <1>1, <1>2, <1>3, <1>4 DEF Unborn, SessionOK, Fields

LEMMA ConnectKeeps ==
  ASSUME IInv, Connect
  PROVE  IInv'
<1>1. PICK s \in Ids : /\ sessions[s].phase = "unborn"
                       /\ client' = [NoSocket EXCEPT !.conn = s]
                       /\ sessions' = Opens(s)
  BY DEF Connect
<1> DEFINE y == [Unborn EXCEPT !.phase = "open", !.writer = TRUE, !.todo = <<Plain(Created)>>]
<1>2. /\ client'.conn = s /\ client'.last = 0 /\ client.conn = 0 /\ seen' = seen
      /\ client'.known \in BOOLEAN
      /\ DOMAIN client' = {"conn", "known", "last", "resumed"}
  BY <1>1 DEF NoSocket, Connect
<1>3. /\ SessionOK(y) /\ y.phase = "open" /\ y.kept = {} /\ y.sequence = 0 /\ y.writer
      /\ y.outgoing = <<>> /\ y.waiting = <<>>
  BY NewSessionOK, NewItems DEF Unborn
<1> HIDE DEF y
<1>4. sessions' = [sessions EXCEPT ![s] = y]
  BY <1>1 DEF Opens, y
<1>5. /\ sessions' = [r \in Ids |-> sessions'[r]] /\ sessions'[s] = y
      /\ \A r \in Ids \ {s} : sessions'[r] = sessions[r]
  BY <1>4 DEF IInv, SessionsOK
<1>6. Serves(y, 0)
  BY <1>3 DEF Serves, InLine, OutgoingInOrder, WaitingInOrder
<1>7. \A r \in Ids : SessionOK(sessions'[r])
  BY <1>3, <1>5 DEF IInv, SessionsOK
<1>8. \A r \in Ids : client'.conn = r => sessions'[r].phase # "unborn"
                                         /\ Serves(sessions'[r], client'.last)
  BY <1>2, <1>3, <1>5, <1>6
<1>9. SessionsOK'
  BY <1>5, <1>7, <1>8 DEF SessionsOK
<1>10. ClientOK'
  BY <1>2 DEF ClientOK
<1>11. SeenOK'
  BY <1>1, <1>2, <1>3, <1>5 DEF IInv, SeenOK, Listed
<1>12. NothingSkipped' /\ SeenOnceInOrder'
  BY <1>2, <1>3, <1>5 DEF IInv, NothingSkipped, SeenOnceInOrder
<1> QED
  BY <1>9, <1>10, <1>11, <1>12 DEF IInv

\* Without a socket nothing is served.
LEMMA SocketLostKeeps ==
  ASSUME IInv, client' = NoSocket, UNCHANGED <<seen, sessions>>
  PROVE  IInv'
<1>1. /\ client'.conn = 0 /\ client'.last = 0 /\ client'.known \in BOOLEAN
      /\ DOMAIN client' = {"conn", "known", "last", "resumed"}
  BY DEF NoSocket
<1>2. \A s \in Ids : client'.conn # s
  BY <1>1 DEF Ids
<1>3. ClientOK'
  BY <1>1 DEF ClientOK
<1>4. SeenOK'
  BY <1>2 DEF IInv, SeenOK, Listed
<1>5. SessionsOK'
  BY <1>2 DEF IInv, SessionsOK
<1>6. NothingSkipped' /\ SeenOnceInOrder'
  BY <1>2 DEF IInv, NothingSkipped, SeenOnceInOrder
<1> QED
  BY <1>3, <1>4, <1>5, <1>6 DEF IInv

\* A kill between the two writes of an append loses nothing that was kept.
LEMMA CutIsStored ==
  ASSUME NEW x, FileOK(x.file, x.kept), x.sequence \in Nat
  PROVE  FileOK(CutFile(x), x.kept)
<1> DEFINE row == Envelope(NextSequence(x.sequence), Head(x.todo).body)
<1>1. row.seq \in Nat \ {0}
  BY DEF Envelope, NextSequence
<1> HIDE DEF row
<1>2. FileOK(AppendJsonl(x.file, row, "unended"), x.kept \cup {row.seq})
  BY <1>1, WrittenIsStored DEF Writes
<1>3. FileOK(AppendJsonl(x.file, row, "unended"), x.kept)
  BY <1>2 DEF FileOK
<1> QED
  BY <1>3 DEF CutFile, row

LEMMA CrashKeeps ==
  ASSUME IInv, Crash
  PROVE  IInv'
<1>1. UNCHANGED <<client, seen>> /\ sessions' = [s \in Ids |-> sessions'[s]]
  BY DEF Crash, clientVars
<1>0. PICK cut \in SUBSET {s \in registry : MidAppend(sessions[s])} :
        sessions' = [s \in Ids |->
          IF s \in registry
          THEN [Unborn EXCEPT
                 !.phase = "gone", !.sequence = sessions[s].sequence,
                 !.kept = sessions[s].kept, !.tasks = sessions[s].tasks,
                 !.file = IF s \in cut THEN CutFile(sessions[s]) ELSE sessions[s].file]
          ELSE sessions[s]]
  BY DEF Crash
<1> DEFINE file(s) == IF s \in cut THEN CutFile(sessions[s]) ELSE sessions[s].file
           dead(s) == [Unborn EXCEPT !.phase = "gone", !.sequence = sessions[s].sequence,
                                     !.kept = sessions[s].kept, !.tasks = sessions[s].tasks,
                                     !.file = file(s)]
<1>2. \A s \in Ids : sessions'[s] = dead(s) \/ sessions'[s] = sessions[s]
  BY <1>0
<1>3. \A s \in Ids : /\ SessionOK(dead(s)) /\ dead(s).phase = "gone"
                     /\ dead(s).kept = sessions[s].kept
  <2>1. \A s \in Ids : /\ FileOK(sessions[s].file, sessions[s].kept)
                       /\ sessions[s].sequence \in Nat
    BY DEF IInv, SessionsOK, SessionOK
  <2>2. \A s \in Ids : FileOK(CutFile(sessions[s]), sessions[s].kept)
    BY <2>1, CutIsStored
  <2>3. \A s \in Ids : FileOK(file(s), sessions[s].kept)
    BY <2>1, <2>2
  <2> HIDE DEF file
  <2> QED
    BY <2>1, <2>3, NewSessionOK DEF Unborn
<1> HIDE DEF dead
<1>4. \A s \in Ids : \A last : Serves(dead(s), last)
  BY <1>3 DEF Serves
<1>5. \A s \in Ids : /\ SessionOK(sessions'[s]) /\ sessions'[s].kept = sessions[s].kept
                     /\ sessions[s].phase # "unborn" => sessions'[s].phase # "unborn"
                     /\ client.conn = s => Serves(sessions'[s], client.last)
  BY <1>2, <1>3, <1>4 DEF IInv, SessionsOK
<1>6. SessionsOK'
  BY <1>1, <1>5 DEF IInv, SessionsOK
<1>7. SeenOK'
  BY <1>1, <1>5 DEF IInv, SeenOK, Listed
<1>8. ClientOK' /\ SeenOnceInOrder'
  BY <1>1 DEF IInv, ClientOK, SeenOnceInOrder
<1>9. NothingSkipped'
  BY <1>1, <1>5 DEF IInv, NothingSkipped, Shown
<1> QED
  BY <1>6, <1>7, <1>8, <1>9 DEF IInv

\* A message leaves the line: what it overtakes has been seen.
LEMMA ShownServes ==
  ASSUME NEW x, SessionOK(x), x.phase \in {"open", "closing"}, x.outgoing # <<>>,
         NEW last \in Nat, Serves(x, last),
         NEW now \in Nat, last <= now, Head(x.outgoing).seq <= now, now <= x.sequence
  PROVE  LET y == [x EXCEPT !.outgoing = Tail(@)] IN
         SessionOK(y) /\ Serves(y, now) /\ y.kept = x.kept /\ y.phase = x.phase
<1> DEFINE y == [x EXCEPT !.outgoing = Tail(@)]
           line == Tail(x.outgoing)
<1>1. /\ Listed(line) /\ Len(line) = Len(x.outgoing) - 1 /\ Len(x.outgoing) > 0
      /\ \A k \in 1..(Len(x.outgoing) - 1) : line[k] = x.outgoing[k + 1]
      /\ Head(x.outgoing) = x.outgoing[1] /\ Len(x.outgoing) \in Nat
  BY ListedTail, ListedDomain DEF SessionOK, LineOK
<1>2. /\ DOMAIN y = Fields /\ y.phase = x.phase /\ y.sequence = x.sequence /\ y.todo = x.todo
      /\ y.waiting = x.waiting /\ y.outgoing = line /\ y.buffer = x.buffer
      /\ y.kept = x.kept /\ y.writer = x.writer /\ y.file = x.file
  BY DEF SessionOK, Fields
<1> HIDE DEF line
<1>3. LineOK(line, x.sequence)
  <2>1. \A i \in 1..Len(x.outgoing) : x.outgoing[i].seq \in 1..x.sequence
    BY DEF SessionOK, LineOK
  <2>2. \A i \in 1..Len(line) : i + 1 \in 1..Len(x.outgoing) /\ line[i] = x.outgoing[i + 1]
    BY <1>1
  <2> QED
    BY <1>1, <2>1, <2>2 DEF LineOK
<1>4. Len(line) <= QueueSize
  BY <1>1 DEF SessionOK
<1>5. /\ x.writer /\ InLine(x, last) /\ OutgoingInOrder(x, last) /\ WaitingInOrder(x, last)
      /\ x.kept \subseteq Nat
  BY DEF Serves, SessionOK
<1>6. \A j \in 1..Len(x.outgoing) : j = 1 \/ (j - 1 \in 1..Len(line) /\ line[j - 1] = x.outgoing[j])
  BY <1>1
<1>7. ASSUME NEW m \in x.kept, \E j \in 1..Len(x.outgoing) : x.outgoing[j].seq = m
      PROVE  m <= now \/ \E j \in 1..Len(line) : line[j].seq = m
  <2>1. PICK j \in 1..Len(x.outgoing) : x.outgoing[j].seq = m
    BY <1>7
  <2>2. CASE j = 1
    BY <1>1, <2>1, <2>2
  <2>3. CASE j # 1
    BY <1>6, <2>1, <2>3
  <2> QED
    BY <2>2, <2>3
<1>8. \A m \in x.kept : m <= last => m <= now
  BY <1>5
<1> HIDE DEF y
<1>9. InLine(y, now)
  BY <1>2, <1>5, <1>7, <1>8 DEF InLine
<1>10. WaitingInOrder(y, now)
  BY <1>2, <1>5, <1>7, <1>8 DEF WaitingInOrder
<1>11. ASSUME NEW i \in 1..Len(line), NEW m \in x.kept, m < line[i].seq
       PROVE  m <= now \/ \E j \in 1..(i - 1) : line[j].seq = m
  <2>1. i + 1 \in 1..Len(x.outgoing) /\ line[i] = x.outgoing[i + 1] /\ i \in Nat
    BY <1>1
  <2>2. m <= last \/ \E j \in 1..((i + 1) - 1) : x.outgoing[j].seq = m
    BY <1>5, <1>11, <2>1 DEF OutgoingInOrder
  <2>3. CASE m <= last
    BY <1>8, <2>3
  <2>4. CASE \E j \in 1..((i + 1) - 1) : x.outgoing[j].seq = m
    <3>1. PICK j \in 1..i : x.outgoing[j].seq = m
      BY <2>1, <2>4
    <3>2. CASE j = 1
      BY <1>1, <3>1, <3>2
    <3>3. CASE j # 1
      <4>1. j \in 1..Len(x.outgoing) /\ j - 1 \in 1..(i - 1)
        BY <2>1, <3>3
      <4> QED
        BY <1>6, <3>1, <3>3, <4>1
    <3> QED
      BY <3>2, <3>3
  <2> QED
    BY <2>2, <2>3, <2>4
<1>12. OutgoingInOrder(y, now)
  BY <1>2, <1>11 DEF OutgoingInOrder
<1>13. SessionOK(y)
  BY <1>2, <1>3, <1>4 DEF SessionOK
<1>14. Serves(y, now)
  BY <1>2, <1>5, <1>9, <1>10, <1>12 DEF Serves
<1> QED
  BY <1>2, <1>13, <1>14 DEF y

LEMMA HandleControlKeeps ==
  ASSUME IInv, NEW s \in Ids, HandleControl(s)
  PROVE  IInv'
<1> DEFINE x == sessions[s]
           m == Head(x.outgoing)
           last == client.last
           y == [x EXCEPT !.outgoing = Tail(@)]
<1>1. /\ SessionOK(x) /\ x.phase \in {"open", "closing"} /\ x.outgoing # <<>> /\ client.conn = s
      /\ Serves(x, last) /\ last \in Nat /\ sessions' = [sessions EXCEPT ![s] = y]
  BY DEF HandleControl, IInv, SessionsOK, SessionOK, ClientOK
<1>2. m.seq \in 1..x.sequence /\ x.sequence \in Nat /\ m = x.outgoing[1] /\ 1 \in 1..Len(x.outgoing)
  BY <1>1, ListedTail, ListedDomain DEF SessionOK, LineOK
<1>3. \A r \in Ids : SessionOK(sessions[r])
  BY DEF IInv, SessionsOK
<1>4. ASSUME NEW now \in Nat, last <= now, m.seq <= now, now <= x.sequence
      PROVE  SessionOK(y) /\ Serves(y, now) /\ y.kept = x.kept /\ y.phase = x.phase
  BY <1>1, <1>4, ShownServes
<1>5. CASE ~ObserveServerSequence(m.seq)
  <2>0. UNCHANGED clientVars
    BY <1>5 DEF HandleControl
  <2>1. /\ UNCHANGED <<client, seen>> /\ last \in Nat /\ last <= last
        /\ m.seq <= last /\ last <= x.sequence
    <3>1. m.seq \in Nat /\ ~(m.seq > last)
      BY <1>2, <1>5 DEF ObserveServerSequence
    <3> QED
      BY <1>1, <2>0, <3>1 DEF clientVars, Serves
  <2>2. SessionOK(y) /\ Serves(y, last) /\ y.kept = x.kept /\ y.phase = x.phase
    BY <1>1, <1>4, <2>1
  <2> HIDE DEF y
  <2> QED
    BY <1>1, <2>1, <2>2, SessionStepKeeps DEF SessionStep
<1>6. CASE ObserveServerSequence(m.seq)
  <2>0. /\ client' = [client EXCEPT !.last = m.seq, !.known = @ \/ m.body = Created,
                                     !.resumed = @ \/ m.body = Pong]
        /\ seen' = Append(seen, <<s, m.seq>>)
    BY <1>6 DEF HandleControl
  <2>1. /\ client'.last = m.seq /\ client'.conn = s /\ DOMAIN client' = DOMAIN client
        /\ seen' = Append(seen, <<s, m.seq>>) /\ m.seq > last /\ m.seq \in Nat
        /\ m.seq <= m.seq /\ last <= m.seq /\ m.seq <= x.sequence
    BY <1>1, <1>2, <1>6, <2>0 DEF ObserveServerSequence, IInv, ClientOK
  <2>2. SessionOK(y) /\ Serves(y, m.seq) /\ y.kept = x.kept /\ y.phase = x.phase
    BY <1>1, <1>2, <1>4, <2>1
  <2> HIDE DEF y, m
  <2>3. /\ sessions' = [r \in Ids |-> sessions'[r]] /\ sessions'[s] = y
        /\ \A r \in Ids \ {s} : sessions'[r] = sessions[r]
    BY <1>1 DEF IInv, SessionsOK
  <2>4. \A r \in Ids : SessionOK(sessions'[r])
    BY <1>3, <2>2, <2>3
  <2>5. \A r \in Ids : client'.conn = r => sessions'[r].phase # "unborn"
                                           /\ Serves(sessions'[r], client'.last)
    BY <1>1, <2>1, <2>2, <2>3
  <2>6. SessionsOK'
    BY <2>3, <2>4, <2>5 DEF SessionsOK
  <2>7. ClientOK'
    <3>1. client'.known = (client.known \/ m.body = Created)
      BY <2>0 DEF IInv, ClientOK
    <3>2. client'.known \in BOOLEAN
      BY <3>1
    <3> QED
      BY <2>1, <3>2 DEF IInv, ClientOK
  <2>8. /\ Listed(seen) /\ Listed(seen') /\ Len(seen) \in Nat /\ Len(seen') = Len(seen) + 1
        /\ \A k \in 1..Len(seen) : seen'[k] = seen[k]
        /\ seen'[Len(seen) + 1] = <<s, m.seq>>
        /\ DOMAIN seen = 1..Len(seen) /\ DOMAIN seen' = 1..Len(seen')
    BY <2>1, ListedAppend, ListedDomain DEF IInv, SeenOK
  <2>9. \A i \in 1..Len(seen') : i \in 1..Len(seen) \/ i = Len(seen) + 1
    BY <2>8
  <2>10. \A i \in 1..Len(seen) :
           /\ seen[i][1] \in Ids /\ sessions[seen[i][1]].phase # "unborn" /\ seen[i][2] \in Nat
           /\ seen[i][1] = s => seen[i][2] <= last
    BY <1>1 DEF IInv, SeenOK
  <2>11. \A r \in Ids : sessions[r].phase # "unborn" => sessions'[r].phase # "unborn"
    BY <1>1, <2>2, <2>3
  <2>12. SeenOK'
    <3>1. ASSUME NEW i \in 1..Len(seen)
          PROVE  /\ seen'[i][1] \in Ids /\ sessions'[seen'[i][1]].phase # "unborn"
                 /\ seen'[i][2] \in Nat
                 /\ seen'[i][1] = client'.conn => seen'[i][2] <= client'.last
      BY <1>1, <2>1, <2>8, <2>10, <2>11
    <3>2. LET i == Len(seen) + 1 IN
            /\ seen'[i][1] \in Ids /\ sessions'[seen'[i][1]].phase # "unborn"
            /\ seen'[i][2] \in Nat
            /\ seen'[i][1] = client'.conn => seen'[i][2] <= client'.last
      BY <1>1, <2>1, <2>2, <2>3, <2>8
    <3> QED
      BY <2>8, <2>9, <3>1, <3>2 DEF SeenOK
  <2>13. SeenOnceInOrder'
    <3>1. ASSUME NEW i \in DOMAIN seen', NEW j \in DOMAIN seen', i < j, seen'[i][1] = seen'[j][1]
          PROVE  seen'[i][2] < seen'[j][2]
      <4>1. i \in 1..Len(seen) /\ (j \in 1..Len(seen) \/ j = Len(seen) + 1)
        BY <2>8, <2>9, <3>1
      <4>2. CASE j \in 1..Len(seen)
        BY <2>8, <3>1, <4>1, <4>2 DEF IInv, SeenOnceInOrder
      <4>3. CASE j = Len(seen) + 1
        BY <1>1, <2>1, <2>8, <2>10, <3>1, <4>1, <4>3
      <4> QED
        BY <4>1, <4>2, <4>3
    <3> QED
      BY <3>1 DEF SeenOnceInOrder
  <2>14. ASSUME NEW n \in x.kept, n <= m.seq
         PROVE  Shown(s, n)'
    <3>1. n \in Nat
      BY <1>1 DEF SessionOK
    <3>2. CASE n <= last
      <4>1. Shown(s, n)
        BY <1>1, <2>14, <3>2 DEF IInv, NothingSkipped
      <4> QED
        BY <2>8, <4>1 DEF Shown
    <3>3. CASE n = m.seq
      BY <2>8, <3>3 DEF Shown
    <3>4. CASE ~(n <= last) /\ n < m.seq
      <4>1. n <= last \/ \E j \in 1..(1 - 1) : x.outgoing[j].seq = n
        BY <1>1, <1>2, <2>14, <3>4 DEF Serves, OutgoingInOrder, m
      <4> QED
        BY <3>4, <4>1
    <3> QED
      BY <1>1, <2>1, <2>14, <3>1, <3>2, <3>3, <3>4
  <2>15. NothingSkipped'
    <3>1. \A r \in Ids : client'.conn = r =>
            \A n \in sessions'[r].kept : n <= client'.last => Shown(r, n)'
      BY <2>1, <2>2, <2>3, <2>14
    <3> QED
      BY <3>1 DEF NothingSkipped
  <2> QED
    BY <2>6, <2>7, <2>12, <2>13, <2>15 DEF IInv
<1> QED
  BY <1>5, <1>6
-----------------------------------------------------------------------------
LEMMA InitIInv == Init => IInv
<1> SUFFICES ASSUME Init
             PROVE  IInv
  OBVIOUS
<1>1. /\ client.conn = 0 /\ client.last = 0 /\ client.known \in BOOLEAN
      /\ DOMAIN client = {"conn", "known", "last", "resumed"}
      /\ seen = <<>> /\ sessions = [s \in Ids |-> Unborn]
  BY DEF Init, NoSocket
<1>2. \A s \in Ids : client.conn # s
  BY <1>1 DEF Ids
<1>3. ClientOK
  BY <1>1 DEF ClientOK
<1>4. SessionsOK
  BY <1>1, <1>2, NewSessionOK DEF SessionsOK
<1>5. Listed(seen) /\ Len(seen) = 0 /\ DOMAIN seen = {}
  BY <1>1, ListedNone
<1>6. SeenOK
  BY <1>5 DEF SeenOK
<1>7. NothingSkipped /\ SeenOnceInOrder
  BY <1>2, <1>5 DEF NothingSkipped, SeenOnceInOrder
<1> QED
  BY <1>3, <1>4, <1>6, <1>7 DEF IInv

\* No step of the gateway, of the browser or of what befalls them disturbs it.
LEMMA NextIInv == IInv /\ [Next]_vars => IInv'
<1> SUFFICES ASSUME IInv, [Next]_vars
             PROVE  IInv'
  OBVIOUS
<1>1. CASE GatewayStep
  <2>1. PICK s \in Ids :
          \/ TakesEmission(s) \/ \E write \in Writes : Produce(s, write)
          \/ Push(s) \/ HandleControl(s)
          \/ TakesInput(s) \/ WriterFails(s) \/ SocketEnds(s) \/ ProviderGone(s)
          \/ Finish(s) \/ Age(s)
    BY <1>1 DEF GatewayStep
  <2> QED
    BY <2>1, TakesEmissionKeeps, ProduceKeeps, PushKeeps, HandleControlKeeps, LifeKeeps
<1>2. CASE BrowserStep
  <2>1. CASE Connect
    BY <2>1, ConnectKeeps
  <2>2. CASE Disconnect \/ RequestLost
    BY <2>2, SocketLostKeeps DEF Disconnect, RequestLost
  <2>3. CASE \E s \in Ids : RequestTask(s) \/ CancelTask(s) \/ ResumeSession(s) \/ Ask(s)
                           \/ Speak(s)
    BY <2>3, BrowserSendsKeeps
  <2> QED
    BY <1>2, <2>1, <2>2, <2>3 DEF BrowserStep
<1>3. CASE Crash
  BY <1>3, CrashKeeps
<1>4. CASE UNCHANGED vars
  BY <1>4 DEF vars, clientVars, IInv, ClientOK, SeenOK, Listed, SessionsOK, NothingSkipped,
              Shown, SeenOnceInOrder
<1> QED
  BY <1>1, <1>2, <1>3, <1>4 DEF Next

\* The state of every session, of the socket and of what the browser has been shown
\* is as the numbering, the queue and the replay of the gateway make it.
THEOREM ConnectionInvariance == Spec => []IInv
<1> QED
  BY InitIInv, NextIInv, PTL DEF Spec

\* While a socket lives, the browser misses nothing the session kept for a resume up
\* to the newest number it has seen (send_and_buffer, the bounded queue, the replay).
THEOREM NothingIsSkipped == Spec => []NothingSkipped
<1>1. IInv => NothingSkipped
  BY DEF IInv
<1> QED
  BY <1>1, ConnectionInvariance, PTL

\* The browser applies an event of a session at most once, and in the order of the
\* numbers, however often a replay repeats it (observeServerSequence).
THEOREM EventsAreSeenOnce == Spec => []SeenOnceInOrder
<1>1. IInv => SeenOnceInOrder
  BY DEF IInv
<1> QED
  BY <1>1, ConnectionInvariance, PTL

\* Whatever the disk does and whenever the gateway is killed: what the browser was shown
\* is in the file of the session, unless a write was refused (append_envelope).
THEOREM ShownIsStored == Spec => []SeenCanBeRead
<1>1. IInv => SeenCanBeRead
  <2>1. SUFFICES ASSUME IInv, NEW s \in Ids, NEW n \in sessions[s].kept,
                        ~sessions[s].file.missed, ~sessions[s].file.torn
                 PROVE  n \in {row.seq : row \in LoadEnvelopesAfter(sessions[s].file, 0)}
    BY DEF SeenCanBeRead
  <2> DEFINE f == sessions[s].file
  <2>2. FileOK(f, sessions[s].kept)
    BY <2>1 DEF IInv, SessionsOK, SessionOK
  <2>3. PICK row \in f.rows : row.seq = n
    BY <2>1, <2>2 DEF FileOK
  <2>4. row.seq > 0
    BY <2>2, <2>3 DEF FileOK
  <2> QED
    BY <2>1, <2>3, <2>4 DEF LoadEnvelopesAfter
<1> QED
  BY <1>1, ConnectionInvariance, PTL
-----------------------------------------------------------------------------
(* Outcomes *)

\* What is told is something the gateway tells; of a task, it is what its session
\* settled on, and stays so.
Agrees(body, tasks) ==
  /\ body \in Bodies
  /\ body.kind = "outcome" =>
       body.task \in Tasks /\ body.arg \in Results /\ tasks[body.task] = body.arg
Settles(old, new) == \A t \in Tasks : old[t] \in Results => new[t] = old[t]

\* Wherever a session holds an outcome: to be sent, waiting, in line, or kept.
Honest(x) ==
  /\ x.tasks = [t \in Tasks |-> x.tasks[t]]
  /\ x.phase = "unborn" => \A t \in Tasks : x.tasks[t] \notin Results
  /\ \A i \in 1..Len(x.todo) : Agrees(x.todo[i].body, x.tasks)
  /\ \A i \in 1..Len(x.waiting) : Agrees(x.waiting[i].body, x.tasks)
  /\ \A i \in 1..Len(x.outgoing) : Agrees(x.outgoing[i].body, x.tasks)
  /\ \A b \in x.buffer : Agrees(b.body, x.tasks)

Ledgers == [Tasks -> {"none", "pending", "acknowledged"} \cup Results]

HonestInv ==
  /\ ledger \in Ledgers
  /\ \A s \in Ids : Honest(sessions[s])
  /\ OutcomesAgree

\* A step of one session; what the browser comes to show, that session settled.
LEMMA HonestStepKeeps ==
  ASSUME IInv, HonestInv, NEW s \in Ids, NEW y, Honest(y),
         sessions' = [sessions EXCEPT ![s] = y], Settles(sessions[s].tasks, y.tasks),
         ledger' \in Ledgers,
         \A t \in Tasks : ledger'[t] \in Results => ledger'[t] = ledger[t] \/ y.tasks[t] = ledger'[t]
  PROVE  HonestInv'
<1>1. /\ sessions'[s] = y /\ \A r \in Ids \ {s} : sessions'[r] = sessions[r]
  BY DEF IInv, SessionsOK
<1>2. \A r \in Ids : Honest(sessions'[r])
  BY <1>1 DEF HonestInv
<1>3. \A r \in Ids : \A t \in Tasks : sessions[r].tasks[t] \in Results
                                       => sessions'[r].tasks[t] = sessions[r].tasks[t]
  BY <1>1 DEF Settles
<1>4. ASSUME NEW t \in Tasks, ledger'[t] \in Results
      PROVE  \E r \in Ids : sessions'[r].tasks[t] = ledger'[t]
  <2>1. CASE ledger'[t] = ledger[t]
    <3>1. PICK r \in Ids : sessions[r].tasks[t] = ledger[t]
      BY <1>4, <2>1 DEF HonestInv, OutcomesAgree
    <3> QED
      BY <1>3, <1>4, <2>1, <3>1
  <2>2. CASE y.tasks[t] = ledger'[t]
    BY <1>1, <2>2
  <2> QED
    BY <1>4, <2>1, <2>2
<1>5. OutcomesAgree'
  BY <1>4 DEF OutcomesAgree
<1> QED
  BY <1>2, <1>5 DEF HonestInv

\* A handler settles tasks and leaves what it tells of them to be sent.
LEMMA HandsHonestly ==
  ASSUME NEW x, Honest(x), NEW y, x.phase # "unborn", y.phase = x.phase,
         y.tasks = [t \in Tasks |-> y.tasks[t]], Settles(x.tasks, y.tasks),
         y.waiting = x.waiting, y.outgoing = x.outgoing, y.buffer \subseteq x.buffer,
         \A i \in 1..Len(y.todo) : Agrees(y.todo[i].body, y.tasks)
  PROVE  Honest(y)
<1>1. \A body : Agrees(body, x.tasks) => Agrees(body, y.tasks)
  BY DEF Agrees, Settles
<1> QED
  BY <1>1 DEF Honest

\* Bodies that are no outcome.
LEMMA NewItemsAgree ==
  ASSUME NEW tasks
  PROVE  /\ \A body \in Bodies : body.kind # "outcome" => Agrees(body, tasks)
         /\ \A body : Plain(body).body = body /\ Kept(body).body = body
         /\ \A how, n, body : Item(how, n, body).body = body
         /\ \A n, body : Envelope(n, body).body = body
         /\ Control.kind # "outcome" /\ Pong.kind # "outcome" /\ Created.kind # "outcome"
         /\ Media.kind # "outcome"
         /\ \A t, p : Body("link", t, p).kind # "outcome" /\ Body("ack", t, p).kind # "outcome"
         /\ {Control, Pong, Created, Media} \subseteq Bodies
         /\ \A t \in Tasks : /\ Body("ack", t, NoProof) \in Bodies
                             /\ \A p \in Proofs : Body("link", t, p) \in Bodies
                             /\ \A result \in Results : Body("outcome", t, result) \in Bodies
<1>1. /\ {Control, Pong, Created, Media} \subseteq Bodies
      /\ \A t \in Tasks : /\ Body("ack", t, NoProof) \in Bodies
                          /\ \A p \in Proofs : Body("link", t, p) \in Bodies
                          /\ \A result \in Results : Body("outcome", t, result) \in Bodies
  BY DEF Bodies
<1> QED
  BY <1>1 DEF Agrees, Plain, Kept, Item, Envelope, Control, Pong, Created, Media, Body

LEMMA OneAgrees ==
  ASSUME NEW tasks, NEW e, Agrees(e.body, tasks)
  PROVE  \A i \in 1..Len(<<e>>) : Agrees(<<e>>[i].body, tasks)
BY ListedOne

LEMMA TailAgrees ==
  ASSUME NEW tasks, NEW todo, Listed(todo), todo # <<>>,
         \A i \in 1..Len(todo) : Agrees(todo[i].body, tasks)
  PROVE  /\ Agrees(Head(todo).body, tasks)
         /\ \A i \in 1..Len(Tail(todo)) : Agrees(Tail(todo)[i].body, tasks)
<1>1. /\ Len(todo) \in Nat /\ Len(Tail(todo)) = Len(todo) - 1
      /\ Len(todo) > 0 /\ Head(todo) = todo[1]
      /\ \A k \in 1..(Len(todo) - 1) : Tail(todo)[k] = todo[k + 1]
  BY ListedTail, ListedDomain
<1>2. 1 \in 1..Len(todo)
  BY <1>1
<1>3. \A i \in 1..Len(Tail(todo)) : i + 1 \in 1..Len(todo) /\ Tail(todo)[i] = todo[i + 1]
  BY <1>1
<1> QED
  BY <1>1, <1>2, <1>3

\* What goes to the provider, and what is told beside it, says nothing of a task.
Inputs == {<<Audio>>, <<Input>>, <<Input, Input>>, <<Plain(Control), Input>>,
           <<Plain(Control), Input, Plain(Control)>>}

LEMMA InputsAgree ==
  ASSUME NEW tasks, NEW todo \in Inputs
  PROVE  \A i \in 1..Len(todo) : Agrees(todo[i].body, tasks)
<1>1. Agrees(Audio.body, tasks) /\ Agrees(Input.body, tasks) /\ Agrees(Plain(Control).body, tasks)
  <2>1. Audio.body = Media /\ Input.body = Control /\ Plain(Control).body = Control
    BY DEF Audio, Input, Plain, Item
  <2>2. Agrees(Media, tasks) /\ Agrees(Control, tasks)
    BY NewItemsAgree
  <2> QED
    BY <2>1, <2>2
<1>2. CASE todo \in {<<Audio>>, <<Input>>}
  BY <1>1, <1>2, OneAgrees
<1>3. ASSUME NEW a, NEW b, todo = <<a, b>>, Agrees(a.body, tasks), Agrees(b.body, tasks)
      PROVE  \A i \in 1..Len(todo) : Agrees(todo[i].body, tasks)
  <2>1. Len(todo) = 2 /\ todo[1] = a /\ todo[2] = b
    BY <1>3
  <2>2. \A i \in 1..Len(todo) : i = 1 \/ i = 2
    BY <2>1
  <2> QED
    BY <1>3, <2>1, <2>2
<1>4. CASE todo = <<Plain(Control), Input, Plain(Control)>>
  <2>1. Len(todo) = 3 /\ todo[1] = Plain(Control) /\ todo[2] = Input /\ todo[3] = Plain(Control)
    BY <1>4
  <2>2. \A i \in 1..Len(todo) : i = 1 \/ i = 2 \/ i = 3
    BY <2>1
  <2> QED
    BY <1>1, <2>1, <2>2
<1> QED
  BY <1>1, <1>2, <1>3, <1>4 DEF Inputs

LEMMA OutcomesAgreeWithTasks ==
  ASSUME NEW T \in SUBSET Tasks, NEW order \in Rows(T), NEW result \in Results, NEW tasks,
         \A t \in T : tasks[t] = result
  PROVE  LET h == [i \in DOMAIN order |-> Kept(Body("outcome", order[i], result))]
         IN  \A i \in 1..Len(h) : Agrees(h[i].body, tasks)
<1> DEFINE h == [i \in DOMAIN order |-> Kept(Body("outcome", order[i], result))]
<1>1. IsFiniteSet(T)
  BY FS_Subset
<1>2. /\ Len(h) = Cardinality(T) /\ DOMAIN order = 1..Cardinality(T)
      /\ \A i \in DOMAIN order : order[i] \in T
  BY <1>1, RowIsListed
<1>3. \A i \in DOMAIN order : h[i].body = Body("outcome", order[i], result)
  BY DEF Kept, Item
<1>4. \A i \in DOMAIN order : Agrees(h[i].body, tasks)
  <2>1. \A i \in DOMAIN order : h[i].body \in Bodies
    BY <1>2, <1>3, NewItemsAgree
  <2> QED
    BY <1>2, <1>3, <2>1 DEF Agrees, Body
<1> HIDE DEF h
<1>5. \A i \in 1..Len(h) : Agrees(h[i].body, tasks)
  BY <1>2, <1>4
<1> QED
  BY <1>5 DEF h

LEMMA TakesEmissionIsHonest ==
  ASSUME IInv, HonestInv, NEW s \in Ids, TakesEmission(s)
  PROVE  HonestInv'
<1> DEFINE x == sessions[s]
           running == {t \in Tasks : x.tasks[t] = "active"}
<1>1. Honest(x) /\ SessionOK(x) /\ x.phase = "open" /\ ledger' = ledger
  BY DEF IInv, HonestInv, SessionsOK, TakesEmission, Ready, Idle, clientVars
<1>2. ASSUME NEW y, sessions' = [sessions EXCEPT ![s] = y], y.phase = x.phase,
             y.tasks = [t \in Tasks |-> y.tasks[t]], Settles(x.tasks, y.tasks),
             y.waiting = x.waiting, y.outgoing = x.outgoing, y.buffer = x.buffer,
             \A i \in 1..Len(y.todo) : Agrees(y.todo[i].body, y.tasks)
      PROVE  HonestInv'
  <2>1. Honest(y)
    BY <1>1, <1>2, HandsHonestly
  <2> QED
    BY <1>1, <1>2, <2>1, HonestStepKeeps DEF HonestInv
<1>3. \A todo : LET y == [x EXCEPT !.todo = todo]
                IN  y.phase = x.phase /\ y.tasks = x.tasks /\ y.waiting = x.waiting
                    /\ y.outgoing = x.outgoing /\ y.buffer = x.buffer /\ y.todo = todo
  BY <1>1 DEF SessionOK, Fields
<1>4. Settles(x.tasks, x.tasks) /\ x.tasks = [t \in Tasks |-> x.tasks[t]]
  BY <1>1 DEF Settles, Honest
<1>5. CASE \E T \in SUBSET running \ {{}}, result \in Settled : \E order \in Rows(T) :
             sessions' = [sessions EXCEPT ![s] =
               [x EXCEPT !.tasks = [t \in Tasks |-> IF t \in T THEN result ELSE x.tasks[t]],
                         !.todo = [i \in DOMAIN order |-> Kept(Body("outcome", order[i], result))]]]
  <2>1. PICK T \in SUBSET running \ {{}}, result \in Settled : \E order \in Rows(T) :
             sessions' = [sessions EXCEPT ![s] =
               [x EXCEPT !.tasks = [t \in Tasks |-> IF t \in T THEN result ELSE x.tasks[t]],
                         !.todo = [i \in DOMAIN order |-> Kept(Body("outcome", order[i], result))]]]
    BY <1>5
  <2>2. PICK order \in Rows(T) :
             sessions' = [sessions EXCEPT ![s] =
               [x EXCEPT !.tasks = [t \in Tasks |-> IF t \in T THEN result ELSE x.tasks[t]],
                         !.todo = [i \in DOMAIN order |-> Kept(Body("outcome", order[i], result))]]]
    BY <2>1
  <2> DEFINE tasks == [t \in Tasks |-> IF t \in T THEN result ELSE x.tasks[t]]
             todo == [i \in DOMAIN order |-> Kept(Body("outcome", order[i], result))]
             y == [x EXCEPT !.tasks = tasks, !.todo = todo]
  <2>3. T \in SUBSET Tasks /\ result \in Results /\ \A t \in T : tasks[t] = result
    BY DEF Results
  <2>4. Settles(x.tasks, tasks) /\ tasks = [t \in Tasks |-> tasks[t]]
    BY DEF Settles, Results
  <2>5. \A i \in 1..Len(todo) : Agrees(todo[i].body, tasks)
    BY <2>3, OutcomesAgreeWithTasks
  <2>6. sessions' = [sessions EXCEPT ![s] = y]
    BY <2>2
  <2> HIDE DEF tasks, todo
  <2>7. /\ y.phase = x.phase /\ y.tasks = tasks /\ y.waiting = x.waiting
        /\ y.outgoing = x.outgoing /\ y.buffer = x.buffer /\ y.todo = todo
    BY <1>1 DEF SessionOK, Fields
  <2> HIDE DEF y
  <2> QED
    BY <1>2, <2>4, <2>5, <2>6, <2>7
<1>6. CASE \E t \in running, p \in Proofs :
             sessions' = [sessions EXCEPT ![s] =
               [x EXCEPT !.links = x.links \cup {<<t, p>>},
                         !.todo = IF <<t, p>> \in x.links THEN <<Plain(Control)>>
                                  ELSE <<Plain(Control), Kept(Body("link", t, p))>>]]
  <2>1. PICK t \in running, p \in Proofs :
             sessions' = [sessions EXCEPT ![s] =
               [x EXCEPT !.links = x.links \cup {<<t, p>>},
                         !.todo = IF <<t, p>> \in x.links THEN <<Plain(Control)>>
                                  ELSE <<Plain(Control), Kept(Body("link", t, p))>>]]
    BY <1>6
  <2> DEFINE two == <<Plain(Control), Kept(Body("link", t, p))>>
             todo == IF <<t, p>> \in x.links THEN <<Plain(Control)>> ELSE two
             y == [x EXCEPT !.links = x.links \cup {<<t, p>>}, !.todo = todo]
  <2>2. \A i \in 1..Len(<<Plain(Control)>>) : Agrees(<<Plain(Control)>>[i].body, x.tasks)
    BY NewItemsAgree, OneAgrees
  <2>3. \A i \in 1..Len(two) : Agrees(two[i].body, x.tasks)
    <3>1. Len(two) = 2 /\ two[1] = Plain(Control) /\ two[2] = Kept(Body("link", t, p))
      OBVIOUS
    <3>2. Agrees(Plain(Control).body, x.tasks) /\ Agrees(Kept(Body("link", t, p)).body, x.tasks)
      <4>1. Body("link", t, p) \in Bodies /\ Control \in Bodies
        BY NewItemsAgree
      <4>2. /\ Plain(Control).body = Control /\ Kept(Body("link", t, p)).body = Body("link", t, p)
            /\ Control.kind # "outcome" /\ Body("link", t, p).kind # "outcome"
        BY DEF Plain, Kept, Item, Control, Body
      <4>3. \A body \in Bodies : body.kind # "outcome" => Agrees(body, x.tasks)
        BY NewItemsAgree
      <4>4. Agrees(Control, x.tasks) /\ Agrees(Body("link", t, p), x.tasks)
        BY <4>1, <4>2, <4>3
      <4> QED
        BY <4>2, <4>4
    <3> HIDE DEF two
    <3>3. \A i \in 1..Len(two) : i = 1 \/ i = 2
      BY <3>1
    <3> QED
      BY <3>1, <3>2, <3>3
  <2> HIDE DEF two
  <2>4. \A i \in 1..Len(todo) : Agrees(todo[i].body, x.tasks)
    BY <2>2, <2>3
  <2>5. sessions' = [sessions EXCEPT ![s] = y]
    BY <2>1 DEF two
  <2> HIDE DEF todo
  <2>6. /\ y.phase = x.phase /\ y.tasks = x.tasks /\ y.waiting = x.waiting
        /\ y.outgoing = x.outgoing /\ y.buffer = x.buffer /\ y.todo = todo
    BY <1>1 DEF SessionOK, Fields
  <2> HIDE DEF y
  <2> QED
    BY <1>2, <1>4, <2>4, <2>5, <2>6
<1>7. CASE \E items \in {<<Audio>>, <<Plain(Control), Input>>} :
             sessions' = [sessions EXCEPT ![s] = Do(x, items)]
  <2>1. PICK items \in {<<Audio>>, <<Plain(Control), Input>>} :
          sessions' = [sessions EXCEPT ![s] = Do(x, items)]
    BY <1>7
  <2>2. \A i \in 1..Len(items) : Agrees(items[i].body, x.tasks)
    BY InputsAgree DEF Inputs
  <2> QED
    BY <1>2, <1>3, <1>4, <2>1, <2>2 DEF Do
<1> QED
  BY <1>5, <1>6, <1>7, ZenonT(60) DEF TakesEmission

\* What a resume repeats was kept.
LEMMA ReplayAgrees ==
  ASSUME NEW x, SessionOK(x), Honest(x), NEW last, NEW y \in HandleSessionResume(x, last)
  PROVE  /\ y.tasks = x.tasks /\ y.waiting = x.waiting /\ y.outgoing = x.outgoing
         /\ y.phase = x.phase /\ y.buffer \subseteq x.buffer
         /\ \A i \in 1..Len(y.todo) : Agrees(y.todo[i].body, x.tasks)
<1> DEFINE fresh == {b \in x.buffer : b.seq > last /\ ~b.old}
<1>1. PICK replay \in ReplayAfter(x, last) :
        y = [x EXCEPT !.buffer = Purged(x, last),
                      !.todo = Append([i \in DOMAIN replay |-> Raw(replay[i])], Plain(Pong))]
  BY DEF HandleSessionResume
<1> DEFINE raw == [i \in DOMAIN replay |-> Raw(replay[i])]
           todo == Append(raw, Plain(Pong))
<1>2. IsFiniteSet(fresh) /\ fresh \subseteq x.buffer
  BY FS_Subset DEF SessionOK, BufferOK
<1>3. replay \in Rows(fresh)
  BY DEF ReplayAfter
<1>4. /\ Listed(raw) /\ Len(raw) = Cardinality(fresh)
      /\ DOMAIN replay = 1..Cardinality(fresh) /\ \A i \in DOMAIN replay : replay[i] \in fresh
  BY <1>2, <1>3, RowIsListed
<1>5. \A i \in DOMAIN replay : Agrees(raw[i].body, x.tasks)
  <2>1. \A i \in DOMAIN replay : raw[i].body = replay[i].body
    BY DEF Raw, Item
  <2>2. \A b \in fresh : Agrees(b.body, x.tasks)
    BY DEF Honest
  <2> HIDE DEF raw, fresh
  <2> QED
    BY <1>4, <2>1, <2>2
<1>6. Agrees(Plain(Pong).body, x.tasks)
  BY NewItemsAgree
<1> HIDE DEF raw
<1>7. /\ Len(todo) = Len(raw) + 1 /\ \A k \in 1..Len(raw) : todo[k] = raw[k]
      /\ todo[Len(raw) + 1] = Plain(Pong) /\ Len(raw) \in Nat
  <2>1. Len(raw) \in Nat
    BY <1>4, ListedDomain
  <2> QED
    BY <1>4, <2>1, ListedAppend
<1> HIDE DEF todo
<1>8. \A k \in 1..Len(todo) : k \in 1..Len(raw) \/ k = Len(raw) + 1
  BY <1>7
<1>9. \A i \in 1..Len(todo) : Agrees(todo[i].body, x.tasks)
  BY <1>4, <1>5, <1>6, <1>7, <1>8
<1>10. y = [x EXCEPT !.buffer = Purged(x, last), !.todo = todo]
  BY <1>1 DEF raw, todo
<1>11. Purged(x, last) \subseteq x.buffer
  BY DEF Purged
<1>12. /\ y.tasks = x.tasks /\ y.waiting = x.waiting /\ y.outgoing = x.outgoing
       /\ y.phase = x.phase /\ y.buffer = Purged(x, last) /\ y.todo = todo
  BY <1>10 DEF SessionOK, Fields
<1> QED
  BY <1>9, <1>11, <1>12

LEMMA BrowserSendsIsHonest ==
  ASSUME IInv, HonestInv, NEW s \in Ids,
         RequestTask(s) \/ CancelTask(s) \/ ResumeSession(s) \/ Ask(s) \/ Speak(s)
  PROVE  HonestInv'
<1> DEFINE x == sessions[s]
<1>1. Honest(x) /\ SessionOK(x) /\ ledger \in Ledgers
  BY DEF IInv, HonestInv, SessionsOK
<1>2. ASSUME NEW y, Sends(s, y), y.phase = x.phase,
             y.tasks = [t \in Tasks |-> y.tasks[t]], Settles(x.tasks, y.tasks),
             y.waiting = x.waiting, y.outgoing = x.outgoing, y.buffer \subseteq x.buffer,
             \A i \in 1..Len(y.todo) : Agrees(y.todo[i].body, y.tasks),
             ledger' \in Ledgers,
             \A t \in Tasks : ledger'[t] \in Results => ledger'[t] = ledger[t]
      PROVE  HonestInv'
  <2>1. x.phase # "unborn" /\ sessions' = [sessions EXCEPT ![s] = y]
    BY <1>2 DEF Sends, StillReady, Idle
  <2>2. Honest(y)
    BY <1>1, <1>2, <2>1, HandsHonestly
  <2> QED
    BY <1>2, <2>1, <2>2, HonestStepKeeps
<1>3. Settles(x.tasks, x.tasks) /\ x.tasks = [t \in Tasks |-> x.tasks[t]]
  BY <1>1 DEF Settles, Honest
<1>4. ASSUME NEW body \in Bodies, body.kind # "outcome", NEW tasks
      PROVE  /\ \A i \in 1..Len(<<Plain(body)>>) : Agrees(<<Plain(body)>>[i].body, tasks)
             /\ \A i \in 1..Len(<<Kept(body)>>) : Agrees(<<Kept(body)>>[i].body, tasks)
  BY <1>4, NewItemsAgree, OneAgrees
<1>5. ASSUME NEW y, y = [x EXCEPT !.todo = <<Plain(Control)>>]
      PROVE  /\ y.phase = x.phase /\ y.tasks = x.tasks /\ y.waiting = x.waiting
             /\ y.outgoing = x.outgoing /\ y.buffer = x.buffer
             /\ \A i \in 1..Len(y.todo) : Agrees(y.todo[i].body, x.tasks)
  <2>1. /\ y.phase = x.phase /\ y.tasks = x.tasks /\ y.waiting = x.waiting
        /\ y.outgoing = x.outgoing /\ y.buffer = x.buffer /\ y.todo = <<Plain(Control)>>
    BY <1>1, <1>5 DEF SessionOK, Fields
  <2> QED
    BY <1>4, <2>1, NewItemsAgree
<1>6. ASSUME NEW body, NEW tasks, Agrees(body, tasks)
      PROVE  \A i \in 1..Len(<<Kept(body)>>) : Agrees(<<Kept(body)>>[i].body, tasks)
  BY <1>6, NewItemsAgree, OneAgrees
<1>7. CASE RequestTask(s)
  <2>1. PICK t \in Tasks : /\ Sends(s, HandleTaskRequested(x, t))
                           /\ ledger' = [ledger EXCEPT ![t] = "pending"]
    BY <1>7 DEF RequestTask
  <2> DEFINE y == HandleTaskRequested(x, t)
  <2>2. /\ ledger' \in Ledgers
        /\ \A u \in Tasks : ledger'[u] \in Results => ledger'[u] = ledger[u]
    BY <1>1, <2>1 DEF Ledgers, Results
  <2>3. CASE x.tasks[t] # "unknown"
    <3>1. y = [x EXCEPT !.todo = <<Plain(Control)>>]
      BY <2>3 DEF HandleTaskRequested, Do
    <3>2. Sends(s, y)
      BY <2>1
    <3> HIDE DEF y
    <3> QED
      BY <1>2, <1>3, <1>5, <2>2, <3>1, <3>2
  <2>4. CASE x.tasks[t] = "unknown"
    <3> DEFINE tasks == [x.tasks EXCEPT ![t] = "active"]
               body == Body("ack", t, NoProof)
    <3>1. y = [x EXCEPT !.tasks = tasks, !.todo = <<Kept(body)>>]
      BY <2>4 DEF HandleTaskRequested
    <3>2. Settles(x.tasks, tasks) /\ tasks = [u \in Tasks |-> tasks[u]]
      BY <1>3, <2>4 DEF Settles, Results
    <3>3. Agrees(body, tasks)
      <4>1. body \in Bodies /\ body.kind # "outcome"
        BY NewItemsAgree
      <4> HIDE DEF body, tasks
      <4> QED
        BY <4>1, NewItemsAgree
    <3>4. Sends(s, y)
      BY <2>1
    <3> HIDE DEF y, tasks, body
    <3>5. /\ y.phase = x.phase /\ y.waiting = x.waiting /\ y.outgoing = x.outgoing
          /\ y.buffer = x.buffer /\ y.tasks = tasks /\ y.todo = <<Kept(body)>>
      BY <1>1, <3>1 DEF SessionOK, Fields
    <3>6. \A i \in 1..Len(y.todo) : Agrees(y.todo[i].body, tasks)
      BY <1>6, <3>3, <3>5
    <3> QED
      BY <1>2, <2>2, <3>2, <3>4, <3>5, <3>6
  <2> QED
    BY <2>3, <2>4
<1>8. CASE CancelTask(s)
  <2>1. PICK t \in Tasks : Sends(s, HandleTaskCancel(x, t)) /\ ledger' = ledger
    BY <1>8 DEF CancelTask
  <2> DEFINE y == HandleTaskCancel(x, t)
  <2>2. CASE x.tasks[t] # "active"
    <3>1. y = x /\ Sends(s, x) /\ x.phase = "open" /\ x.todo = <<>>
      BY <2>1, <2>2 DEF HandleTaskCancel, Sends, StillReady, Idle
    <3>2. \A i \in 1..Len(x.todo) : Agrees(x.todo[i].body, x.tasks)
      BY <1>1 DEF Honest
    <3> HIDE DEF y, x
    <3> QED
      BY <1>1, <1>2, <1>3, <2>1, <3>1, <3>2
  <2>3. CASE x.tasks[t] = "active"
    <3> DEFINE tasks == [x.tasks EXCEPT ![t] = "cancelled"]
               body == Body("outcome", t, "cancelled")
    <3>1. y = [x EXCEPT !.tasks = tasks, !.todo = <<Kept(body)>>]
      BY <2>3 DEF HandleTaskCancel
    <3>2. Settles(x.tasks, tasks) /\ tasks = [u \in Tasks |-> tasks[u]]
      BY <1>3, <2>3 DEF Settles, Results
    <3>3. Agrees(body, tasks)
      <4>1. body \in Bodies
        BY NewItemsAgree DEF Results
      <4> QED
        BY <1>3, <4>1 DEF Agrees, Body, Results
    <3>4. Sends(s, y)
      BY <2>1
    <3> HIDE DEF y, tasks, body
    <3>5. /\ y.phase = x.phase /\ y.waiting = x.waiting /\ y.outgoing = x.outgoing
          /\ y.buffer = x.buffer /\ y.tasks = tasks /\ y.todo = <<Kept(body)>>
      BY <1>1, <3>1 DEF SessionOK, Fields
    <3>6. \A i \in 1..Len(y.todo) : Agrees(y.todo[i].body, tasks)
      BY <1>6, <3>3, <3>5
    <3> QED
      BY <1>1, <1>2, <2>1, <3>2, <3>4, <3>5, <3>6
  <2> QED
    BY <2>2, <2>3
<1>9. CASE ResumeSession(s)
  <2>1. PICK y \in HandleSessionResume(x, client.last) : Sends(s, y) /\ ledger' = ledger
    BY <1>9 DEF ResumeSession
  <2>2. /\ y.tasks = x.tasks /\ y.waiting = x.waiting /\ y.outgoing = x.outgoing
        /\ y.phase = x.phase /\ y.buffer \subseteq x.buffer
        /\ \A i \in 1..Len(y.todo) : Agrees(y.todo[i].body, x.tasks)
    BY <1>1, ReplayAgrees
  <2> HIDE DEF x
  <2> QED
    BY <1>1, <1>2, <1>3, <2>1, <2>2
<1>10. CASE Ask(s)
  <2> DEFINE y == [x EXCEPT !.todo = <<Plain(Control)>>]
  <2>1. Sends(s, y) /\ ledger' = ledger
    BY <1>10 DEF Ask, Do
  <2>2. /\ y.phase = x.phase /\ y.tasks = x.tasks /\ y.waiting = x.waiting
        /\ y.outgoing = x.outgoing /\ y.buffer = x.buffer
        /\ \A i \in 1..Len(y.todo) : Agrees(y.todo[i].body, x.tasks)
    BY <1>5
  <2> HIDE DEF x, y
  <2> QED
    BY <1>1, <1>2, <1>3, <2>1, <2>2
<1>11. CASE Speak(s)
  <2>0. PICK todo \in {<<Plain(Control), Input>>, <<Plain(Control), Input, Plain(Control)>>} :
          Sends(s, Do(x, todo))
    BY <1>11 DEF Speak
  <2> DEFINE y == [x EXCEPT !.todo = todo]
  <2>1. Sends(s, y) /\ ledger' = ledger
    BY <1>11, <2>0 DEF Speak, Do
  <2>2. \A i \in 1..Len(todo) : Agrees(todo[i].body, x.tasks)
    BY InputsAgree DEF Inputs
  <2>3. /\ y.phase = x.phase /\ y.tasks = x.tasks /\ y.waiting = x.waiting
        /\ y.outgoing = x.outgoing /\ y.buffer = x.buffer /\ y.todo = todo
    BY <1>1 DEF SessionOK, Fields
  <2> HIDE DEF x, y
  <2> QED
    BY <1>1, <1>2, <1>3, <2>1, <2>2, <2>3
<1> QED
  BY <1>7, <1>8, <1>9, <1>10, <1>11

\* Numbering, keeping and queueing leave what is told as it was.
LEMMA ProduceIsHonest ==
  ASSUME IInv, HonestInv, NEW s \in Ids, NEW write \in Writes, Produce(s, write)
  PROVE  HonestInv'
<1> DEFINE x == sessions[s]
           item == Head(x.todo)
           n == NextSequence(x.sequence)
           e == Envelope(n, item.body)
           numbered == [x EXCEPT !.sequence = n, !.todo = Tail(@)]
<1>1. /\ Honest(x) /\ SessionOK(x) /\ x.phase = "open" /\ x.todo # <<>> /\ x.waiting = <<>>
      /\ ledger' = ledger
  BY DEF IInv, HonestInv, SessionsOK, Produce, clientVars
<1>2. Listed(x.todo) /\ \A i \in 1..Len(x.todo) : Agrees(x.todo[i].body, x.tasks)
  BY <1>1 DEF SessionOK, TodoOK, Honest
<1>3. /\ Agrees(item.body, x.tasks)
      /\ \A i \in 1..Len(Tail(x.todo)) : Agrees(Tail(x.todo)[i].body, x.tasks)
  BY <1>1, <1>2, TailAgrees
<1>4. /\ e.body = item.body
      /\ \A i \in 1..Len(<<e>>) : Agrees(<<e>>[i].body, x.tasks)
      /\ \A i \in 1..Len(x.outgoing) : Agrees(x.outgoing[i].body, x.tasks)
      /\ \A i \in 1..Len(x.waiting) : Agrees(x.waiting[i].body, x.tasks)
      /\ \A b \in x.buffer : Agrees(b.body, x.tasks)
      /\ x.tasks = [t \in Tasks |-> x.tasks[t]]
  <2>1. e.body = item.body
    BY DEF Envelope
  <2>2. \A i \in 1..Len(<<e>>) : Agrees(<<e>>[i].body, x.tasks)
    <3>1. Agrees(e.body, x.tasks)
      BY <1>3, <2>1
    <3> HIDE DEF e, x
    <3> QED
      BY <3>1, OneAgrees
  <2> HIDE DEF e, n, numbered, item
  <2>3. Honest(x)
    BY <1>1
  <2> HIDE DEF x
  <2>4. /\ \A i \in 1..Len(x.outgoing) : Agrees(x.outgoing[i].body, x.tasks)
        /\ \A i \in 1..Len(x.waiting) : Agrees(x.waiting[i].body, x.tasks)
        /\ \A b \in x.buffer : Agrees(b.body, x.tasks)
        /\ x.tasks = [t \in Tasks |-> x.tasks[t]]
    BY <2>3 DEF Honest
  <2> QED
    BY <2>1, <2>2, <2>4
<1>5. ASSUME NEW y, sessions' = [sessions EXCEPT ![s] = y], y.phase = "open", y.tasks = x.tasks,
             y.todo = Tail(x.todo),
             \A i \in 1..Len(y.waiting) : Agrees(y.waiting[i].body, x.tasks),
             \A i \in 1..Len(y.outgoing) : Agrees(y.outgoing[i].body, x.tasks),
             \A b \in y.buffer : Agrees(b.body, x.tasks)
      PROVE  HonestInv'
  <2>1. Honest(y)
    BY <1>3, <1>4, <1>5 DEF Honest
  <2>2. Settles(x.tasks, y.tasks)
    BY <1>5 DEF Settles
  <2> QED
    BY <1>1, <1>5, <2>1, <2>2, HonestStepKeeps DEF HonestInv
<1>6. /\ DOMAIN numbered = Fields /\ numbered.phase = "open" /\ numbered.tasks = x.tasks
      /\ numbered.todo = Tail(x.todo) /\ numbered.waiting = <<>>
      /\ numbered.outgoing = x.outgoing /\ numbered.buffer = x.buffer
  BY <1>1 DEF SessionOK, Fields
<1>7. item.how \in {"plain", "kept", "raw", "try"}
  BY <1>1, TodoTail DEF SessionOK, Produce
<1> HIDE DEF numbered, e, n, item
<1>8. CASE item.how = "plain"
  <2> DEFINE y == [numbered EXCEPT !.waiting = <<e>>]
  <2>1. /\ y.phase = "open" /\ y.tasks = x.tasks /\ y.todo = Tail(x.todo)
        /\ y.waiting = <<e>> /\ y.outgoing = x.outgoing /\ y.buffer = x.buffer
    BY <1>6 DEF Fields
  <2>2. sessions' = [sessions EXCEPT ![s] = y]
    BY <1>8 DEF Produce, numbered, e, n, item
  <2> HIDE DEF y
  <2> QED
    BY <1>4, <1>5, <2>1, <2>2
<1>9. CASE item.how = "kept"
  <2> DEFINE y == [SendAndBuffer(numbered, e, write) EXCEPT !.waiting = <<e>>]
             entry == [seq |-> e.seq, body |-> e.body, old |-> FALSE]
  <2>1. /\ y.phase = "open" /\ y.tasks = x.tasks /\ y.todo = Tail(x.todo)
        /\ y.waiting = <<e>> /\ y.outgoing = x.outgoing /\ y.buffer = x.buffer \cup {entry}
    BY <1>6 DEF Fields, SendAndBuffer, BufferOutbound
  <2>2. sessions' = [sessions EXCEPT ![s] = y]
    BY <1>9 DEF Produce, numbered, e, n, item
  <2>3. Agrees(entry.body, x.tasks)
    BY <1>3, <1>4
  <2> HIDE DEF y, entry
  <2> QED
    BY <1>4, <1>5, <2>1, <2>2, <2>3
<1>10. CASE item.how = "raw"
  <2> DEFINE again == Envelope(item.seq, item.body)
             y == [x EXCEPT !.todo = Tail(@), !.waiting = <<again>>]
  <2>1. /\ y.phase = "open" /\ y.tasks = x.tasks /\ y.todo = Tail(x.todo)
        /\ y.waiting = <<again>> /\ y.outgoing = x.outgoing /\ y.buffer = x.buffer
    BY <1>1 DEF SessionOK, Fields
  <2>2. sessions' = [sessions EXCEPT ![s] = y]
    BY <1>10 DEF Produce, item
  <2>3. \A i \in 1..Len(<<again>>) : Agrees(<<again>>[i].body, x.tasks)
    BY <1>3, NewItemsAgree, OneAgrees
  <2> HIDE DEF y, again
  <2> QED
    BY <1>4, <1>5, <2>1, <2>2, <2>3
<1>11. CASE item.how = "try"
  <2>1. CASE Full(x) \/ ~x.writer
    <3>1. sessions' = [sessions EXCEPT ![s] = numbered]
      BY <1>11, <2>1 DEF Produce, numbered, n, item
    <3>2. numbered.waiting = x.waiting
      BY <1>1, <1>6
    <3>3. \A i \in 1..Len(numbered.waiting) : Agrees(numbered.waiting[i].body, x.tasks)
      BY <1>4, <3>2
    <3>4. \A i \in 1..Len(numbered.outgoing) : Agrees(numbered.outgoing[i].body, x.tasks)
      BY <1>4, <1>6
    <3> QED
      BY <1>4, <1>5, <1>6, <3>1, <3>3, <3>4
  <2>2. CASE ~(Full(x) \/ ~x.writer)
    <3> DEFINE y == [numbered EXCEPT !.outgoing = Append(@, e)]
    <3>1. sessions' = [sessions EXCEPT ![s] = y]
      BY <1>11, <2>2 DEF Produce, numbered, e, n, item
    <3>2. /\ y.phase = "open" /\ y.tasks = x.tasks /\ y.todo = Tail(x.todo)
          /\ y.waiting = x.waiting /\ y.outgoing = Append(x.outgoing, e) /\ y.buffer = x.buffer
      BY <1>1, <1>6 DEF Fields
    <3>3. /\ Len(Append(x.outgoing, e)) = Len(x.outgoing) + 1 /\ Len(x.outgoing) \in Nat
          /\ \A k \in 1..Len(x.outgoing) : Append(x.outgoing, e)[k] = x.outgoing[k]
          /\ Append(x.outgoing, e)[Len(x.outgoing) + 1] = e
      BY <1>1, ListedAppend, ListedDomain DEF SessionOK, LineOK
    <3> HIDE DEF y
    <3>4. \A i \in 1..Len(Append(x.outgoing, e)) : i \in 1..Len(x.outgoing) \/ i = Len(x.outgoing) + 1
      BY <3>3
    <3>5. \A i \in 1..Len(y.outgoing) : Agrees(y.outgoing[i].body, x.tasks)
      BY <1>3, <1>4, <3>2, <3>3, <3>4
    <3> QED
      BY <1>4, <1>5, <3>1, <3>2, <3>5
  <2> QED
    BY <2>1, <2>2
<1> QED
  BY <1>7, <1>8, <1>9, <1>10, <1>11

LEMMA PushIsHonest ==
  ASSUME IInv, HonestInv, NEW s \in Ids, Push(s)
  PROVE  HonestInv'
<1> DEFINE x == sessions[s]
           line == x.outgoing \o x.waiting
<1>1. /\ Honest(x) /\ SessionOK(x) /\ x.waiting # <<>> /\ x.phase = "open" /\ ledger' = ledger
      /\ PushTo(x) # x /\ sessions' = [sessions EXCEPT ![s] = PushTo(x)]
  BY DEF IInv, HonestInv, SessionsOK, SessionOK, Push, clientVars
<1>2. ASSUME NEW y, sessions' = [sessions EXCEPT ![s] = y], y.phase = "open", y.tasks = x.tasks,
             y.todo = x.todo, y.waiting = <<>>, y.buffer = x.buffer,
             \A i \in 1..Len(y.outgoing) : Agrees(y.outgoing[i].body, x.tasks)
      PROVE  HonestInv'
  <2>1. Len(y.waiting) = 0
    BY <1>2, ListedNone
  <2>2. Honest(y) /\ Settles(x.tasks, y.tasks)
    BY <1>1, <1>2, <2>1 DEF Honest, Settles
  <2> QED
    BY <1>1, <1>2, <2>2, HonestStepKeeps DEF HonestInv
<1>3. CASE ~x.writer
  <2> DEFINE y == [x EXCEPT !.waiting = <<>>]
  <2>1. sessions' = [sessions EXCEPT ![s] = y]
    BY <1>1, <1>3 DEF PushTo
  <2>2. /\ y.phase = "open" /\ y.tasks = x.tasks /\ y.todo = x.todo /\ y.waiting = <<>>
        /\ y.outgoing = x.outgoing /\ y.buffer = x.buffer
    BY <1>1 DEF SessionOK, Fields
  <2> HIDE DEF y
  <2> QED
    BY <1>1, <1>2, <2>1, <2>2 DEF Honest
<1>4. CASE x.writer
  <2> DEFINE y == [x EXCEPT !.waiting = <<>>, !.outgoing = @ \o x.waiting]
  <2>1. sessions' = [sessions EXCEPT ![s] = y]
    BY <1>1, <1>4 DEF PushTo
  <2>2. /\ Listed(x.waiting) /\ Len(x.waiting) = 1 /\ Listed(x.outgoing) /\ Len(x.outgoing) \in Nat
    <3>1. Listed(x.waiting) /\ Listed(x.outgoing) /\ Len(x.waiting) <= 1
      BY <1>1 DEF SessionOK, LineOK
    <3> QED
      BY <1>1, <3>1, ListedAlone, ListedDomain
  <2>3. /\ Len(line) = Len(x.outgoing) + 1 /\ \A k \in 1..Len(x.outgoing) : line[k] = x.outgoing[k]
        /\ line[Len(x.outgoing) + 1] = x.waiting[1]
    BY <2>2, ListedConcat
  <2>4. /\ y.phase = "open" /\ y.tasks = x.tasks /\ y.todo = x.todo /\ y.waiting = <<>>
        /\ y.outgoing = line /\ y.buffer = x.buffer
    BY <1>1 DEF SessionOK, Fields
  <2> HIDE DEF y, line
  <2>5. \A i \in 1..Len(line) : i \in 1..Len(x.outgoing) \/ i = Len(x.outgoing) + 1
    BY <2>2, <2>3
  <2>6. Agrees(x.waiting[1].body, x.tasks) /\ \A i \in 1..Len(x.outgoing) : Agrees(x.outgoing[i].body, x.tasks)
    BY <1>1, <2>2 DEF Honest
  <2>7. \A i \in 1..Len(line) : Agrees(line[i].body, x.tasks)
    BY <2>3, <2>5, <2>6
  <2> QED
    BY <1>2, <2>1, <2>4, <2>7
<1> QED
  BY <1>3, <1>4

\* What the browser takes over is what the session settled on.
LEMMA HandleControlIsHonest ==
  ASSUME IInv, HonestInv, NEW s \in Ids, HandleControl(s)
  PROVE  HonestInv'
<1> DEFINE x == sessions[s]
           body == Head(x.outgoing).body
           line == Tail(x.outgoing)
           y == [x EXCEPT !.outgoing = Tail(@)]
<1>1. /\ Honest(x) /\ SessionOK(x) /\ x.outgoing # <<>> /\ sessions' = [sessions EXCEPT ![s] = y]
      /\ ledger' = ledger \/ ledger' = Applied(body)
      /\ ledger \in Ledgers
  BY DEF IInv, HonestInv, SessionsOK, HandleControl, clientVars
<1>2. /\ Len(line) = Len(x.outgoing) - 1 /\ Len(x.outgoing) > 0 /\ Len(x.outgoing) \in Nat
      /\ \A k \in 1..(Len(x.outgoing) - 1) : line[k] = x.outgoing[k + 1]
      /\ Head(x.outgoing) = x.outgoing[1]
  BY <1>1, ListedTail, ListedDomain DEF SessionOK, LineOK
<1>3. /\ y.phase = x.phase /\ y.tasks = x.tasks /\ y.todo = x.todo /\ y.waiting = x.waiting
      /\ y.outgoing = line /\ y.buffer = x.buffer
  BY <1>1 DEF SessionOK, Fields
<1>0. \A i \in 1..Len(x.outgoing) : Agrees(x.outgoing[i].body, x.tasks)
  BY <1>1 DEF Honest
<1>4. Agrees(body, x.tasks)
  <2>1. 1 \in 1..Len(x.outgoing)
    BY <1>2
  <2> QED
    BY <1>0, <1>2, <2>1
<1> HIDE DEF y, line, body
<1>5. \A i \in 1..Len(line) : Agrees(line[i].body, x.tasks)
  <2>1. \A i \in 1..Len(line) : i + 1 \in 1..Len(x.outgoing) /\ line[i] = x.outgoing[i + 1]
    BY <1>2
  <2> QED
    BY <1>0, <2>1
<1>6. Honest(y) /\ Settles(x.tasks, y.tasks)
  BY <1>1, <1>3, <1>5 DEF Honest, Settles
<1>7. /\ ledger' \in Ledgers
      /\ \A t \in Tasks : ledger'[t] \in Results => ledger'[t] = ledger[t] \/ x.tasks[t] = ledger'[t]
  <2>1. CASE ledger' = ledger
    BY <1>1, <2>1
  <2>2. CASE ledger' = [ledger EXCEPT ![body.task] = "acknowledged"]
    BY <1>1, <2>2 DEF Ledgers, Results
  <2>3. CASE body.kind = "outcome" /\ ledger' = [ledger EXCEPT ![body.task] = body.arg]
    BY <1>1, <1>4, <2>3 DEF Agrees, Ledgers
  <2>4. \/ ledger' = ledger
        \/ ledger' = [ledger EXCEPT ![body.task] = "acknowledged"]
        \/ body.kind = "outcome" /\ ledger' = [ledger EXCEPT ![body.task] = body.arg]
    BY <1>1 DEF Applied
  <2> QED
    BY <2>1, <2>2, <2>3, <2>4
<1> QED
  BY <1>1, <1>3, <1>6, <1>7, HonestStepKeeps

LEMMA LifeIsHonest ==
  ASSUME IInv, HonestInv, NEW s \in Ids,
         \/ TakesInput(s) \/ WriterFails(s) \/ SocketEnds(s) \/ ProviderGone(s)
         \/ Finish(s) \/ Age(s)
  PROVE  HonestInv'
<1> DEFINE x == sessions[s]
<1>1. Honest(x) /\ SessionOK(x) /\ ledger' = ledger
  BY DEF IInv, HonestInv, SessionsOK, TakesInput, WriterFails, SocketEnds, ProviderGone, Close,
         Finish, Age, clientVars
<1>2. ASSUME NEW y, sessions' = [sessions EXCEPT ![s] = y],
             y.phase = x.phase \/ y.phase # "unborn",
             y.tasks = x.tasks, y.waiting = x.waiting,
             \A i \in 1..Len(y.todo) : Agrees(y.todo[i].body, x.tasks),
             y.outgoing = x.outgoing \/ y.outgoing = <<>>,
             \A b \in y.buffer : \E c \in x.buffer : b.body = c.body
      PROVE  HonestInv'
  <2>1. \A i \in 1..Len(y.outgoing) : Agrees(y.outgoing[i].body, x.tasks)
    <3>1. CASE y.outgoing = x.outgoing
      BY <1>1, <3>1 DEF Honest
    <3>2. CASE y.outgoing = <<>>
      BY <3>2, ListedNone
    <3> QED
      BY <1>2, <3>1, <3>2
  <2>2. Honest(y) /\ Settles(x.tasks, y.tasks)
    BY <1>1, <1>2, <2>1 DEF Honest, Settles
  <2> QED
    BY <1>1, <1>2, <2>2, HonestStepKeeps DEF HonestInv
<1>0. \A i \in 1..Len(x.todo) : Agrees(x.todo[i].body, x.tasks)
  BY <1>1 DEF Honest
<1>3. CASE WriterFails(s)
  <2> DEFINE y == [x EXCEPT !.writer = FALSE]
  <2>1. sessions' = [sessions EXCEPT ![s] = y]
    BY <1>3 DEF WriterFails
  <2>2. /\ y.phase = x.phase /\ y.tasks = x.tasks /\ y.todo = x.todo /\ y.waiting = x.waiting
        /\ y.outgoing = x.outgoing /\ y.buffer = x.buffer
    BY <1>1 DEF SessionOK, Fields
  <2> HIDE DEF y
  <2> QED
    BY <1>0, <1>2, <2>1, <2>2
<1>4. CASE SocketEnds(s) \/ ProviderGone(s)
  <2>0. PICK farewell \in Farewells :
          sessions' = [sessions EXCEPT ![s] = [@ EXCEPT !.phase = "closing", !.todo = farewell]]
    BY <1>4 DEF SocketEnds, ProviderGone, Close
  <2> DEFINE y == [x EXCEPT !.phase = "closing", !.todo = farewell]
  <2>1. sessions' = [sessions EXCEPT ![s] = y]
    BY <2>0
  <2>2. /\ y.phase = "closing" /\ y.tasks = x.tasks /\ y.todo = farewell /\ y.waiting = x.waiting
        /\ y.outgoing = x.outgoing /\ y.buffer = x.buffer
    BY <1>1 DEF SessionOK, Fields
  <2>3. \A i \in 1..Len(farewell) : Agrees(farewell[i].body, x.tasks)
    BY InputsAgree DEF Inputs, Farewells
  <2> HIDE DEF y
  <2> QED
    BY <1>2, <2>1, <2>2, <2>3
<1>5. CASE Finish(s)
  <2> DEFINE y == [x EXCEPT !.phase = "gone", !.writer = FALSE, !.outgoing = <<>>]
  <2>1. sessions' = [sessions EXCEPT ![s] = y]
    BY <1>5 DEF Finish
  <2>2. /\ y.phase = "gone" /\ y.tasks = x.tasks /\ y.todo = x.todo /\ y.waiting = x.waiting
        /\ y.outgoing = <<>> /\ y.buffer = x.buffer
    BY <1>1 DEF SessionOK, Fields
  <2> HIDE DEF y
  <2> QED
    BY <1>0, <1>2, <2>1, <2>2
<1>6. CASE Age(s)
  <2> DEFINE aged == {[b EXCEPT !.old = TRUE] : b \in x.buffer}
             y == [x EXCEPT !.buffer = aged]
  <2>1. sessions' = [sessions EXCEPT ![s] = y]
    BY <1>6 DEF Age
  <2>2. \A b \in aged : \E c \in x.buffer : b.body = c.body
    <3>1. \A c \in x.buffer : [c EXCEPT !.old = TRUE].body = c.body
      BY <1>1 DEF SessionOK, BufferOK
    <3> QED
      BY <3>1
  <2> HIDE DEF aged
  <2>3. /\ y.phase = x.phase /\ y.tasks = x.tasks /\ y.todo = x.todo /\ y.waiting = x.waiting
        /\ y.outgoing = x.outgoing /\ y.buffer = aged
    BY <1>1 DEF SessionOK, Fields
  <2> HIDE DEF y
  <2> QED
    BY <1>0, <1>2, <2>1, <2>2, <2>3
<1>7. CASE TakesInput(s)
  <2> DEFINE y == [x EXCEPT !.todo = Tail(x.todo)]
  <2>1. sessions' = [sessions EXCEPT ![s] = y] /\ x.todo # <<>>
    BY <1>7 DEF TakesInput
  <2>2. /\ y.phase = x.phase /\ y.tasks = x.tasks /\ y.todo = Tail(x.todo)
        /\ y.waiting = x.waiting /\ y.outgoing = x.outgoing /\ y.buffer = x.buffer
    BY <1>1 DEF SessionOK, Fields
  <2>3. \A i \in 1..Len(Tail(x.todo)) : Agrees(Tail(x.todo)[i].body, x.tasks)
    BY <1>0, <1>1, <2>1, TailAgrees DEF SessionOK, TodoOK
  <2> HIDE DEF y
  <2> QED
    BY <1>2, <2>1, <2>2, <2>3
<1> QED
  BY <1>3, <1>4, <1>5, <1>6, <1>7

LEMMA NewSessionIsHonest ==
  /\ Honest(Unborn)
  /\ \A t \in Tasks : Unborn.tasks[t] \notin Results
  /\ Honest([Unborn EXCEPT !.phase = "open", !.writer = TRUE, !.todo = <<Plain(Created)>>])
  /\ [Unborn EXCEPT !.phase = "open", !.writer = TRUE, !.todo = <<Plain(Created)>>].tasks = Unborn.tasks
  /\ \A file, kept, tasks, n : tasks = [t \in Tasks |-> tasks[t]] =>
       LET y == [Unborn EXCEPT !.phase = "gone", !.sequence = n, !.kept = kept,
                               !.tasks = tasks, !.file = file]
       IN  Honest(y) /\ y.tasks = tasks
<1>1. /\ Unborn.phase = "unborn" /\ Unborn.todo = <<>> /\ Unborn.waiting = <<>>
      /\ Unborn.outgoing = <<>> /\ Unborn.buffer = {}
      /\ Unborn.tasks = [t \in Tasks |-> Unborn.tasks[t]]
      /\ \A t \in Tasks : Unborn.tasks[t] \notin Results
  BY DEF Unborn, Results
<1>2. Len(<<>>) = 0
  BY ListedNone
<1>3. Honest(Unborn)
  BY <1>1, <1>2 DEF Honest
<1>4. LET y == [Unborn EXCEPT !.phase = "open", !.writer = TRUE, !.todo = <<Plain(Created)>>]
      IN  Honest(y) /\ y.tasks = Unborn.tasks
  <2> DEFINE todo == <<Plain(Created)>>
             y == [Unborn EXCEPT !.phase = "open", !.writer = TRUE, !.todo = todo]
  <2>1. \A i \in 1..Len(todo) : Agrees(todo[i].body, Unborn.tasks)
    BY NewItemsAgree, OneAgrees
  <2> HIDE DEF todo
  <2>2. /\ y.phase = "open" /\ y.todo = todo /\ y.waiting = <<>> /\ y.outgoing = <<>>
        /\ y.buffer = {} /\ y.tasks = Unborn.tasks
    BY DEF Unborn
  <2> HIDE DEF y
  <2>3. Honest(y)
    BY <1>1, <1>2, <2>1, <2>2 DEF Honest
  <2> QED
    BY <2>2, <2>3 DEF y, todo
<1>5. ASSUME NEW file, NEW kept, NEW tasks, NEW n, tasks = [t \in Tasks |-> tasks[t]]
      PROVE  LET y == [Unborn EXCEPT !.phase = "gone", !.sequence = n, !.kept = kept,
                                     !.tasks = tasks, !.file = file]
             IN  Honest(y) /\ y.tasks = tasks
  <2> DEFINE y == [Unborn EXCEPT !.phase = "gone", !.sequence = n, !.kept = kept,
                                 !.tasks = tasks, !.file = file]
  <2>1. /\ y.phase = "gone" /\ y.todo = <<>> /\ y.waiting = <<>> /\ y.outgoing = <<>>
        /\ y.buffer = {} /\ y.tasks = tasks
    BY DEF Unborn
  <2> HIDE DEF y
  <2>2. Honest(y)
    BY <1>2, <1>5, <2>1 DEF Honest
  <2> QED
    BY <2>1, <2>2 DEF y
<1> QED
  BY <1>1, <1>3, <1>4, <1>5

\* A session is opened that has settled nothing, as before.
LEMMA ConnectIsHonest ==
  ASSUME IInv, HonestInv, Connect
  PROVE  HonestInv'
<1> DEFINE y == [Unborn EXCEPT !.phase = "open", !.writer = TRUE, !.todo = <<Plain(Created)>>]
<1>1. PICK s \in Ids : sessions[s].phase = "unborn" /\ sessions' = [sessions EXCEPT ![s] = y]
  BY DEF Connect, Opens
<1>2. Honest(y)
  BY NewSessionIsHonest
<1>3. Settles(sessions[s].tasks, y.tasks)
  BY <1>1 DEF Settles, HonestInv, Honest
<1>4. ledger' = ledger /\ ledger \in Ledgers
  BY DEF Connect, HonestInv
<1> HIDE DEF y
<1> QED
  BY <1>1, <1>2, <1>3, <1>4, HonestStepKeeps

\* Without the socket nothing is taken over; a killed session leaves what it settled on.
LEMMA LossIsHonest ==
  ASSUME IInv, HonestInv, Disconnect \/ RequestLost \/ Crash
  PROVE  HonestInv'
<1>1. /\ ledger' \in Ledgers
      /\ \A t \in Tasks : ledger'[t] \in Results => ledger'[t] = ledger[t]
  BY DEF HonestInv, Disconnect, RequestLost, Crash, clientVars, Ledgers, Results
<1>2. \A s \in Ids : Honest(sessions'[s]) /\ sessions'[s].tasks = sessions[s].tasks
  <2>1. CASE Disconnect \/ RequestLost
    BY <2>1 DEF HonestInv, Disconnect, RequestLost
  <2>2. CASE Crash
    <3>0. PICK cut \in SUBSET {s \in registry : MidAppend(sessions[s])} :
            sessions' = [s \in Ids |->
              IF s \in registry
              THEN [Unborn EXCEPT
                     !.phase = "gone", !.sequence = sessions[s].sequence,
                     !.kept = sessions[s].kept, !.tasks = sessions[s].tasks,
                     !.file = IF s \in cut THEN CutFile(sessions[s]) ELSE sessions[s].file]
              ELSE sessions[s]]
      BY <2>2 DEF Crash
    <3> DEFINE file(s) == IF s \in cut THEN CutFile(sessions[s]) ELSE sessions[s].file
               dead(s) == [Unborn EXCEPT !.phase = "gone", !.sequence = sessions[s].sequence,
                                         !.kept = sessions[s].kept, !.tasks = sessions[s].tasks,
                                         !.file = file(s)]
    <3>1. \A s \in Ids : sessions'[s] = dead(s) \/ sessions'[s] = sessions[s]
      BY <3>0
    <3> HIDE DEF file
    <3>2. \A s \in Ids : Honest(dead(s)) /\ dead(s).tasks = sessions[s].tasks
      BY NewSessionIsHonest DEF HonestInv, Honest
    <3> HIDE DEF dead
    <3> QED
      BY <3>1, <3>2 DEF HonestInv
  <2> QED
    BY <2>1, <2>2
<1>3. OutcomesAgree'
  BY <1>1, <1>2 DEF HonestInv, OutcomesAgree
<1> QED
  BY <1>1, <1>2, <1>3 DEF HonestInv
-----------------------------------------------------------------------------
LEMMA InitHonestInv == Init => HonestInv
<1> SUFFICES ASSUME Init
             PROVE  HonestInv
  OBVIOUS
<1>1. sessions = [s \in Ids |-> Unborn] /\ ledger = [t \in Tasks |-> "none"]
  BY DEF Init
<1>2. \A s \in Ids : Honest(sessions[s])
  BY <1>1, NewSessionIsHonest
<1>3. OutcomesAgree
  BY <1>1 DEF OutcomesAgree, Results
<1> QED
  BY <1>1, <1>2, <1>3 DEF HonestInv, Ledgers

LEMMA NextHonestInv == IInv /\ HonestInv /\ [Next]_vars => HonestInv'
<1> SUFFICES ASSUME IInv, HonestInv, [Next]_vars
             PROVE  HonestInv'
  OBVIOUS
<1>1. CASE GatewayStep
  <2>1. PICK s \in Ids :
          \/ TakesEmission(s) \/ \E write \in Writes : Produce(s, write)
          \/ Push(s) \/ HandleControl(s)
          \/ TakesInput(s) \/ WriterFails(s) \/ SocketEnds(s) \/ ProviderGone(s)
          \/ Finish(s) \/ Age(s)
    BY <1>1 DEF GatewayStep
  <2> QED
    BY <2>1, TakesEmissionIsHonest, ProduceIsHonest, PushIsHonest, HandleControlIsHonest,
       LifeIsHonest
<1>2. CASE BrowserStep
  BY <1>2, ConnectIsHonest, LossIsHonest, BrowserSendsIsHonest DEF BrowserStep
<1>3. CASE Crash
  BY <1>3, LossIsHonest
<1>4. CASE UNCHANGED vars
  <2>1. sessions' = sessions /\ ledger' = ledger
    BY <1>4 DEF vars, clientVars
  <2>2. OutcomesAgree'
    BY <2>1 DEF HonestInv, OutcomesAgree
  <2> QED
    BY <2>1, <2>2 DEF HonestInv
<1> QED
  BY <1>1, <1>2, <1>3, <1>4 DEF Next

\* A cancel, a completion and an expiry race for a task, the request may be repeated or the
\* answer replayed: the outcome the browser shows is one that a session settled on
\* (handle_task_cancel, replay_after, applyTaskOutcome).
THEOREM OutcomesCoincide == Spec => []OutcomesAgree
<1>1. HonestInv => OutcomesAgree
  BY DEF HonestInv
<1>2. Spec => [](IInv /\ HonestInv)
  BY InitIInv, NextIInv, InitHonestInv, NextHonestInv, PTL DEF Spec
<1> QED
  BY <1>1, <1>2, PTL

\* A socket is registered when it opens, and only then.
LEMMA NextRegistry == registry \subseteq Ids /\ [Next]_vars => registry' \subseteq Ids
<1> SUFFICES ASSUME registry \subseteq Ids, [Next]_vars
             PROVE  registry' \subseteq Ids
  OBVIOUS
<1>1. ASSUME NEW s \in Ids,
             \/ TakesEmission(s) \/ \E write \in Writes : Produce(s, write)
             \/ Push(s) \/ TakesInput(s) \/ HandleControl(s) \/ WriterFails(s)
             \/ SocketEnds(s) \/ ProviderGone(s) \/ Age(s)
      PROVE  registry' = registry
  BY <1>1 DEF TakesEmission, Produce, Push, TakesInput, HandleControl, WriterFails, SocketEnds,
              ProviderGone, Close, Age
<1>2. ASSUME NEW s \in Ids, Finish(s) PROVE registry' \subseteq Ids
  BY <1>2 DEF Finish
<1>3. CASE Connect
  BY <1>3 DEF Connect
<1>4. CASE Crash
  BY <1>4 DEF Crash
<1>5. ASSUME NEW s \in Ids,
             RequestTask(s) \/ CancelTask(s) \/ ResumeSession(s) \/ Ask(s) \/ Speak(s)
      PROVE  registry' = registry
  BY <1>5 DEF RequestTask, CancelTask, ResumeSession, Ask, Speak, Sends
<1>6. CASE Disconnect \/ RequestLost \/ UNCHANGED vars
  BY <1>6 DEF Disconnect, RequestLost, vars
<1> QED
  BY <1>1, <1>2, <1>3, <1>4, <1>5, <1>6 DEF Next, GatewayStep, BrowserStep

\* Nobody puts into the queue of a socket more than it holds, a number that was not given
\* or a body that is no message (WebSocketTransport::send_control, send_media).
THEOREM ConnectionTypes == Spec => []TypeOK
<1>1. IInv /\ HonestInv /\ registry \subseteq Ids => TypeOK
  <2> SUFFICES ASSUME IInv, HonestInv, registry \subseteq Ids
               PROVE  TypeOK
    OBVIOUS
  <2>1. ASSUME NEW s \in Ids
        PROVE  /\ sessions[s].phase \in {"unborn", "open", "closing", "gone"}
               /\ \A m \in ToSet(sessions[s].outgoing) :
                    m.seq \in 1..sessions[s].sequence /\ m.body \in Bodies
               /\ Len(sessions[s].outgoing) <= QueueSize
               /\ Len(sessions[s].waiting) <= 1
    <3> DEFINE line == sessions[s].outgoing
    <3>1. SessionOK(sessions[s]) /\ Honest(sessions[s])
      BY DEF IInv, SessionsOK, HonestInv
    <3>2. DOMAIN line = 1..Len(line)
      BY <3>1, ListedDomain DEF SessionOK, LineOK
    <3>3. \A i \in 1..Len(line) : line[i].seq \in 1..sessions[s].sequence /\ line[i].body \in Bodies
      BY <3>1 DEF SessionOK, LineOK, Honest, Agrees
    <3>4. \A m \in ToSet(line) : \E i \in 1..Len(line) : m = line[i]
      BY <3>2 DEF ToSet
    <3> QED
      BY <3>1, <3>3, <3>4 DEF SessionOK
  <2> QED
    BY <2>1 DEF TypeOK, IInv, ClientOK, HonestInv, Ledgers
<1>2. Init => registry \subseteq Ids
  BY DEF Init
<1> DEFINE Registered == registry \subseteq Ids
<1>3. Init => Registered
  BY <1>2
<1>4. Registered /\ [Next]_vars => Registered'
  BY NextRegistry
<1>5. IInv /\ HonestInv /\ Registered => TypeOK
  BY <1>1
<1> HIDE DEF Registered
<1> QED
  BY <1>3, <1>4, <1>5, InitIInv, NextIInv, InitHonestInv, NextHonestInv, PTL DEF Spec
=============================================================================
