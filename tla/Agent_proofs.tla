------------------------------ MODULE Agent_proofs ------------------------------
(***************************************************************************)
(* The requests of the gateway, for every workload, store, cap and number   *)
(* of requests.  First the pending actions (IInv): the first answer to an   *)
(* action is the only one, and a file disappears only by the user's hand.   *)
(* Then what the requests record (WInv): no store of turns ever shows an    *)
(* answer before its question, and no edit is lost that was alone with its  *)
(* document.                                                                *)
(*                                                                          *)
(* An edit carries a copy of the memory from load to write, and a write may *)
(* put back an old copy.  So the order is not only an invariant of what is  *)
(* stored but of every copy in hand, and of what each request has still to  *)
(* record: as long as a question of a turn is to come (Recording), no copy  *)
(* has an answer of the turn.                                               *)
(***************************************************************************)
EXTENDS Agent, Documents_proofs, Crews_proofs, TLAPS

USE ApprovalsAssumption, AgentAssumption

\* A sequence of whatever.
Listed(s) == \E S : s \in Seq(S)

LEMMA ListedAppend ==
  ASSUME NEW s, NEW e, Listed(s)
  PROVE  /\ Listed(Append(s, e)) /\ Len(Append(s, e)) = Len(s) + 1
         /\ DOMAIN Append(s, e) = 1..(Len(s) + 1)
         /\ \A k \in DOMAIN s : Append(s, e)[k] = s[k]
         /\ Append(s, e)[Len(s) + 1] = e
<1>1. PICK S : s \in Seq(S)
  BY DEF Listed
<1>2. s \in Seq(S \cup {e}) /\ e \in S \cup {e}
  BY <1>1
<1>3. Append(s, e) \in Seq(S \cup {e})
  BY <1>2
<1> QED
  BY <1>2, <1>3 DEF Listed

LEMMA ListedTail ==
  ASSUME NEW s, Listed(s), s # <<>>
  PROVE  /\ Listed(Tail(s)) /\ Len(Tail(s)) = Len(s) - 1 /\ Len(s) > 0
         /\ \A k \in DOMAIN Tail(s) : k + 1 \in DOMAIN s /\ Tail(s)[k] = s[k + 1]
         /\ Head(s) = s[1] /\ 1 \in DOMAIN s
BY DEF Listed

LEMMA ListedDomain ==
  ASSUME NEW s, Listed(s)
  PROVE  Len(s) \in Nat /\ DOMAIN s = 1..Len(s)
BY DEF Listed
-----------------------------------------------------------------------------
(* The map of pending actions *)

\* What waits is a list of unanswered actions, each of its own number.
Consistent(list, answers) ==
  /\ Listed(list) /\ Len(list) <= MaxPending + 1
  /\ answers \in Seq(Answers)
  /\ \A k \in DOMAIN list : list[k].id \in DOMAIN answers /\ answers[list[k].id] = "waiting"
  /\ \A j, k \in DOMAIN list : list[j].id = list[k].id => j = k

PendingOK == Consistent(pending, answer)

\* An answer, once given, is not changed.
AnswersStay ==
  /\ DOMAIN answer \subseteq DOMAIN answer'
  /\ \A i \in DOMAIN answer : answer[i] # "waiting" => answer'[i] = answer[i]

LEMMA TailIsConsistent ==
  ASSUME NEW list, NEW answers, Consistent(list, answers), list # <<>>
  PROVE  Consistent(Tail(list), answers)
<1>1. Listed(list) /\ Listed(Tail(list)) /\ Len(Tail(list)) = Len(list) - 1 /\ Len(list) \in Nat
  BY ListedTail, ListedDomain DEF Consistent
<1>2. \A k \in DOMAIN Tail(list) : k + 1 \in DOMAIN list /\ Tail(list)[k] = list[k + 1]
  BY ListedTail, <1>1
<1>3. DOMAIN Tail(list) \subseteq Nat
  BY <1>1, ListedDomain
<1> QED
  BY <1>1, <1>2, <1>3 DEF Consistent

LEMMA PurgedIsConsistent ==
  ASSUME PendingOK
  PROVE  Consistent(Purged, answer) /\ Len(Purged) <= MaxPending
<1>1. Len(pending) \in Nat /\ Len(pending) <= MaxPending + 1 /\ Listed(pending)
  BY ListedDomain DEF PendingOK, Consistent
<1>2. CASE Len(pending) > MaxPending
  <2>1. pending # <<>>
    BY <1>2
  <2> QED
    BY <1>1, <1>2, <2>1, TailIsConsistent, ListedTail DEF Purged, PendingOK
<1>3. CASE ~(Len(pending) > MaxPending)
  BY <1>1, <1>3 DEF Purged, PendingOK
<1> QED
  BY <1>2, <1>3

LEMMA BecameIs ==
  ASSUME PendingOK, NEW list, NEW id, NEW a \in Answers
  PROVE  /\ Became(list, id, a) \in Seq(Answers)
         /\ DOMAIN Became(list, id, a) = DOMAIN answer
         /\ \A i \in DOMAIN answer :
              i # id => /\ answer[i] # "waiting" => Became(list, id, a)[i] = answer[i]
                        /\ (\E k \in DOMAIN list : list[k].id = i)
                             => Became(list, id, a)[i] = answer[i]
         /\ id \in DOMAIN answer => Became(list, id, a)[id] = a
<1>1. answer \in Seq(Answers) /\ Len(answer) \in Nat /\ DOMAIN answer = 1..Len(answer)
  BY DEF PendingOK, Consistent
<1>2. Became(list, id, a) \in [1..Len(answer) -> Answers]
  BY <1>1 DEF Became, Answers
<1> QED
  BY <1>1, <1>2 DEF Became

\* Of a list that is left when what is in it waits: the answers agree with it.
LEMMA LeftIsConsistent ==
  ASSUME PendingOK, NEW list, NEW id, NEW a \in Answers,
         Consistent(list, answer), \A k \in DOMAIN list : list[k].id # id
  PROVE  Consistent(list, Became(list, id, a))
BY BecameIs DEF Consistent

LEMMA QueueKeeps ==
  ASSUME PendingOK, NEW by, NEW do, NEW path, Queue(by, do, path)
  PROVE  PendingOK' /\ AnswersStay
<1> DEFINE n == Len(answer) + 1
           new == [id |-> n, by |-> by, do |-> do, path |-> path]
           became == Became(Purged, 0, "waiting")
<1>1. answer \in Seq(Answers) /\ Len(answer) \in Nat /\ DOMAIN answer = 1..Len(answer)
  BY DEF PendingOK, Consistent
<1>2. pending' = Append(Purged, new) /\ answer' = Append(became, "waiting")
  BY DEF Queue
<1>3. Consistent(Purged, answer) /\ Len(Purged) <= MaxPending
  BY PurgedIsConsistent
<1>4. \A k \in DOMAIN Purged : Purged[k].id # 0
  BY <1>1, <1>3 DEF Consistent
<1>5. Consistent(Purged, became)
  BY <1>3, <1>4, LeftIsConsistent DEF Answers
<1>6. became \in Seq(Answers) /\ DOMAIN became = DOMAIN answer /\ Len(became) = Len(answer)
  BY <1>1, BecameIs DEF Answers
<1>7. /\ answer' \in Seq(Answers) /\ DOMAIN answer' = 1..n
      /\ answer'[n] = "waiting" /\ \A i \in DOMAIN answer : answer'[i] = became[i]
  BY <1>1, <1>2, <1>6 DEF Answers
<1>8. AnswersStay
  <2>1. \A i \in DOMAIN answer : answer[i] # "waiting" => became[i] = answer[i]
    BY <1>1, BecameIs DEF Answers
  <2> QED
    BY <1>1, <1>7, <2>1 DEF AnswersStay
<1>9. PendingOK'
  <2>1. /\ Listed(pending') /\ Len(pending') = Len(Purged) + 1
        /\ DOMAIN pending' = 1..(Len(Purged) + 1) /\ pending'[Len(Purged) + 1] = new
        /\ \A k \in DOMAIN Purged : pending'[k] = Purged[k]
    BY <1>2, <1>3, ListedAppend DEF Consistent
  <2>2. Len(Purged) \in Nat /\ DOMAIN Purged = 1..Len(Purged)
    BY <1>3, ListedDomain DEF Consistent
  <2>3. \A k \in DOMAIN Purged : Purged[k].id \in DOMAIN answer /\ Purged[k].id # n
                                 /\ became[Purged[k].id] = "waiting"
    BY <1>1, <1>3, <1>5, <1>6 DEF Consistent
  <2>4. \A k \in DOMAIN pending' : k \in DOMAIN Purged \/ k = Len(Purged) + 1
    BY <2>1, <2>2
  <2>5. \A k \in DOMAIN pending' : pending'[k].id \in DOMAIN answer'
                                   /\ answer'[pending'[k].id] = "waiting"
    BY <2>1, <2>3, <2>4, <1>1, <1>7
  <2>6. \A j, k \in DOMAIN Purged : Purged[j].id = Purged[k].id => j = k
    BY <1>3 DEF Consistent
  <2>7. \A j, k \in DOMAIN pending' : pending'[j].id = pending'[k].id => j = k
    BY <2>1, <2>3, <2>4, <2>6
  <2>8. Len(pending') <= MaxPending + 1
    BY <1>3, <2>1, <2>2
  <2> QED
    BY <1>7, <2>1, <2>5, <2>7, <2>8 DEF PendingOK, Consistent
<1> QED
  BY <1>8, <1>9

LEMMA PurgesKeeps ==
  ASSUME PendingOK, Purges
  PROVE  PendingOK' /\ AnswersStay
<1>1. Consistent(Purged, answer)
  BY PurgedIsConsistent
<1>2. DOMAIN answer = 1..Len(answer) /\ Len(answer) \in Nat
  BY DEF PendingOK, Consistent
<1>3. \A k \in DOMAIN Purged : Purged[k].id # 0
  BY <1>1, <1>2 DEF Consistent
<1>4. Consistent(Purged, Became(Purged, 0, "waiting"))
  BY <1>1, <1>3, LeftIsConsistent DEF Answers
<1>5. pending' = Purged /\ answer' = Became(Purged, 0, "waiting")
  BY DEF Purges
<1>6. AnswersStay
  BY <1>2, <1>5, BecameIs DEF AnswersStay, Answers
<1> QED
  BY <1>4, <1>5, <1>6 DEF PendingOK

LEMMA WithoutIs ==
  ASSUME PendingOK, NEW id, Waits(id)
  PROVE  /\ Consistent(Without(id), answer)
         /\ \A k \in DOMAIN Without(id) : Without(id)[k].id # id
         /\ id \in DOMAIN answer /\ answer[id] = "waiting" /\ Waiting(id).id = id
<1> DEFINE n == Len(Purged)
           at == PlaceOf(id)
<1>1. Consistent(Purged, answer) /\ n <= MaxPending
  BY PurgedIsConsistent
<1>2. n \in Nat /\ DOMAIN Purged = 1..n
  BY <1>1, ListedDomain DEF Consistent
<1>3. at \in 1..n /\ Purged[at].id = id
  BY <1>2 DEF Waits, PlaceOf
<1>4. Listed(Without(id)) /\ Len(Without(id)) = n - 1 /\ DOMAIN Without(id) = 1..(n - 1)
  <2>1. PICK S : Purged \in Seq(S)
    BY <1>1 DEF Consistent, Listed
  <2>2. \A k \in 1..n : Purged[k] \in S
    BY <1>2, <2>1
  <2>3. Without(id) \in [1..(n - 1) -> S]
    BY <1>2, <1>3, <2>2 DEF Without
  <2>4. n - 1 \in Nat
    BY <1>2, <1>3
  <2>5. Without(id) \in Seq(S)
    BY <2>3, <2>4
  <2>6. DOMAIN Without(id) = 1..(n - 1)
    BY <2>3
  <2>7. Len(Without(id)) = n - 1
    BY <2>4, <2>5, <2>6
  <2> QED
    BY <2>5, <2>6, <2>7 DEF Listed
<1>5. \A k \in 1..(n - 1) : Without(id)[k] = Purged[IF k < at THEN k ELSE k + 1]
  BY DEF Without
<1>6. \A k \in 1..(n - 1) : (IF k < at THEN k ELSE k + 1) \in 1..n \ {at}
  BY <1>2, <1>3
<1>7. \A k \in 1..n : Purged[k].id \in DOMAIN answer /\ answer[Purged[k].id] = "waiting"
  BY <1>1, <1>2 DEF Consistent
<1>8. \A j, k \in 1..n : Purged[j].id = Purged[k].id => j = k
  BY <1>1, <1>2 DEF Consistent
<1>9. \A k \in 1..(n - 1) : Without(id)[k].id # id
  BY <1>3, <1>5, <1>6, <1>8
<1>10. \A j, k \in 1..(n - 1) : Without(id)[j].id = Without(id)[k].id => j = k
  <2>1. SUFFICES ASSUME NEW j \in 1..(n - 1), NEW k \in 1..(n - 1),
                        Without(id)[j].id = Without(id)[k].id
                 PROVE  j = k
    OBVIOUS
  <2>2. (IF j < at THEN j ELSE j + 1) = (IF k < at THEN k ELSE k + 1)
    BY <1>5, <1>6, <1>8, <2>1
  <2> QED
    BY <2>2, <1>2, <1>3
<1>11. Consistent(Without(id), answer)
  <2>1. \A k \in 1..(n - 1) : Without(id)[k].id \in DOMAIN answer
                              /\ answer[Without(id)[k].id] = "waiting"
    BY <1>5, <1>6, <1>7
  <2>2. n - 1 <= MaxPending + 1
    BY <1>1, <1>2
  <2> QED
    BY <1>1, <1>4, <1>10, <2>1, <2>2 DEF Consistent
<1> QED
  BY <1>3, <1>4, <1>7, <1>9, <1>11 DEF Waiting

LEMMA TakeKeeps ==
  ASSUME PendingOK, NEW id, NEW verdict \in Answers, Take(id, verdict)
  PROVE  /\ PendingOK' /\ AnswersStay
         /\ id \in DOMAIN answer' /\ answer'[id] = verdict /\ Waiting(id).id = id
<1>1. Waits(id) /\ pending' = Without(id) /\ answer' = Became(Purged, id, verdict)
  BY DEF Take
<1>2. /\ Consistent(Without(id), answer) /\ \A k \in DOMAIN Without(id) : Without(id)[k].id # id
      /\ id \in DOMAIN answer /\ answer[id] = "waiting" /\ Waiting(id).id = id
  BY <1>1, WithoutIs
<1>3. AnswersStay /\ id \in DOMAIN answer' /\ answer'[id] = verdict
  BY <1>1, <1>2, BecameIs DEF AnswersStay
<1>4. \A k \in DOMAIN Without(id) : \E j \in DOMAIN Purged : Purged[j] = Without(id)[k]
  <2>1. Len(Purged) \in Nat /\ DOMAIN Purged = 1..Len(Purged)
    BY PurgedIsConsistent, ListedDomain DEF Consistent
  <2>2. PlaceOf(id) \in 1..Len(Purged)
    BY <1>1, <2>1 DEF Waits, PlaceOf
  <2>3. ASSUME NEW k \in DOMAIN Without(id)
        PROVE  \E j \in DOMAIN Purged : Purged[j] = Without(id)[k]
    <3>1. k \in 1..(Len(Purged) - 1)
      BY <2>3 DEF Without
    <3>2. CASE k < PlaceOf(id)
      BY <2>1, <3>1, <3>2 DEF Without
    <3>3. CASE ~(k < PlaceOf(id))
      <4>1. k + 1 \in DOMAIN Purged /\ Without(id)[k] = Purged[k + 1]
        BY <2>1, <3>1, <3>3 DEF Without
      <4> QED
        BY <4>1
    <3> QED
      BY <3>2, <3>3
  <2> QED
    BY <2>3
<1>5. \A k \in DOMAIN Without(id) : /\ Without(id)[k].id \in DOMAIN answer'
                                    /\ answer'[Without(id)[k].id] = "waiting"
  BY <1>1, <1>2, <1>4, BecameIs DEF Consistent
<1>6. answer' \in Seq(Answers)
  BY <1>1, BecameIs
<1> QED
  BY <1>1, <1>2, <1>3, <1>5, <1>6 DEF PendingOK, Consistent

LEMMA ExpireKeeps ==
  ASSUME PendingOK, Expire
  PROVE  PendingOK' /\ AnswersStay
<1> DEFINE id == Head(pending).id
<1>1. /\ pending # <<>> /\ pending' = Tail(pending) /\ answer' = [answer EXCEPT ![id] = "expired"]
  BY DEF Expire
<1>2. Consistent(Tail(pending), answer)
  BY <1>1, TailIsConsistent DEF PendingOK
<1>3. Head(pending) = pending[1] /\ 1 \in DOMAIN pending
  BY <1>1, ListedTail DEF PendingOK, Consistent
<1>4. id \in DOMAIN answer /\ answer[id] = "waiting"
  BY <1>3 DEF PendingOK, Consistent
<1>5. answer' \in Seq(Answers) /\ DOMAIN answer' = DOMAIN answer
  BY <1>1, <1>4 DEF PendingOK, Consistent, Answers
<1>6. \A k \in DOMAIN Tail(pending) : Tail(pending)[k].id # id
  <2>1. \A k \in DOMAIN Tail(pending) : k + 1 \in DOMAIN pending /\ Tail(pending)[k] = pending[k + 1]
    BY <1>1, ListedTail DEF PendingOK, Consistent
  <2>2. DOMAIN Tail(pending) \subseteq Nat \ {0}
    BY <1>2, ListedDomain DEF Consistent
  <2> QED
    BY <1>3, <2>1, <2>2 DEF PendingOK, Consistent
<1>7. AnswersStay
  BY <1>1, <1>4, <1>5 DEF AnswersStay
<1>8. \A i \in DOMAIN answer : i # id => answer'[i] = answer[i]
  BY <1>1
<1> QED
  BY <1>1, <1>2, <1>5, <1>6, <1>7, <1>8 DEF PendingOK, Consistent

LEMMA CrashKeeps ==
  ASSUME PendingOK, ApprovalsCrash
  PROVE  PendingOK' /\ AnswersStay
<1>1. pending' = <<>> /\ answer' = Became(<<>>, 0, "waiting")
  BY DEF ApprovalsCrash
<1>2. DOMAIN answer = 1..Len(answer) /\ Len(answer) \in Nat
  BY DEF PendingOK, Consistent
<1>3. AnswersStay
  BY <1>1, <1>2, BecameIs DEF AnswersStay, Answers
<1>4. <<>> \in Seq({})
  OBVIOUS
<1>5. Listed(<<>>) /\ Len(<<>>) = 0 /\ DOMAIN <<>> = {}
  BY <1>4 DEF Listed
<1> QED
  BY <1>1, <1>3, <1>5, BecameIs DEF PendingOK, Consistent, Answers
-----------------------------------------------------------------------------
(* The requests *)

ReqFields == {"at", "ask", "turn", "todo", "action", "job", "ticks"}
IsReq(q) == DOMAIN q = ReqFields

Reqs == req = [r \in Requests |-> req[r]] /\ \A r \in Requests : IsReq(req[r])
FilesOK == files = [p \in Paths |-> files[p]]

\* Who is about to change a file on a request of the user, or with the user's yes.
Entitled(q, answers) ==
  \/ q.ask.route = "sandbox"
  \/ q.action.id \in DOMAIN answers /\ answers[q.action.id] = "approved"
ActsAreEntitled == \A r \in Requests : req[r].at = "acts" => Entitled(req[r], answer)

IInv ==
  /\ PendingOK /\ FilesOK /\ Reqs /\ workload \in Workloads
  /\ ActsAreEntitled

\* A step of one request, which ends entitled to what it is about to do.
Turns(r) ==
  /\ req' = [req EXCEPT ![r] = req'[r]] /\ IsReq(req'[r])
  /\ req'[r].at = "acts" => Entitled(req'[r], answer')

\* A request goes on, and not to change a file; and that as a step of its own.
Quiet(q) == IsReq(q) /\ q.at # "acts"
KeepsQuiet(r) == \E q : Quiet(q) /\ Becomes(r, q)

\* No file disappears, no answer changes.
NoneGoes == \A p \in Paths : Exists(p) => files'[p] # "none"
Harmless == PendingOK' /\ AnswersStay /\ FilesOK' /\ NoneGoes

LEMMA QuietTurns ==
  ASSUME Reqs, NEW r \in Requests, KeepsQuiet(r)
  PROVE  Turns(r) /\ req'[r].at # "acts"
BY DEF Reqs, KeepsQuiet, Quiet, Becomes, Turns

LEMMA TurnsKeep ==
  ASSUME IInv, NEW r \in Requests, Turns(r), UNCHANGED workload,
         PendingOK', AnswersStay, FilesOK'
  PROVE  IInv'
<1>1. /\ req' = [s \in Requests |-> req'[s]] /\ \A s \in Requests : IsReq(req'[s])
      /\ \A s \in Requests \ {r} : req'[s] = req[s]
  BY DEF Turns, IInv, Reqs
<1>2. Reqs'
  BY <1>1 DEF Reqs, IsReq
<1>3. \A q : Entitled(q, answer) => Entitled(q, answer')
  BY DEF AnswersStay, Entitled
<1>4. \A s \in Requests : req'[s].at = "acts" => Entitled(req'[s], answer')
  BY <1>1, <1>3 DEF Turns, IInv, ActsAreEntitled
<1>5. ActsAreEntitled'
  BY <1>4 DEF ActsAreEntitled, Entitled
<1> QED
  BY <1>2, <1>5 DEF IInv

LEMMA UnchangedIsHarmless ==
  ASSUME IInv, UNCHANGED <<files, pending, answer>>
  PROVE  Harmless
BY DEF IInv, Harmless, PendingOK, AnswersStay, FilesOK, NoneGoes, Exists, Consistent

\* Steps that touch neither the pending actions nor the workspace.
LEMMA OnlyIsQuiet ==
  ASSUME Reqs, NEW r \in Requests,
         Routes(r) \/ Searches(r) \/ AsksModel(r) \/ Chats(r) \/ HearsCrew(r) \/ Follows(r)
  PROVE  KeepsQuiet(r)
<1>1. IsReq(req[r])
  BY DEF Reqs
<1>2. \A todo : Quiet(Works(req[r], todo))
  BY <1>1 DEF Works, IsReq, ReqFields, Quiet
<1>3. \A cited : Quiet(Answered(req[r], cited))
  BY <1>2 DEF Answered
<1>4. \A at : at # "acts" => Quiet([req[r] EXCEPT !.at = at])
  BY <1>1 DEF IsReq, ReqFields, Quiet
<1>5. \A at : Goes(r, at) /\ at # "acts" => KeepsQuiet(r)
  BY <1>4 DEF Goes, KeepsQuiet
<1>6. \A q : Quiet(q) /\ Becomes(r, q) => KeepsQuiet(r)
  BY DEF KeepsQuiet
<1>7. CASE Routes(r)
  BY <1>2, <1>3, <1>5, <1>6, <1>7 DEF Routes
<1>8. CASE Searches(r)
  BY <1>3, <1>6, <1>8 DEF Searches
<1>9. CASE AsksModel(r)
  BY <1>2, <1>3, <1>5, <1>6, <1>9 DEF AsksModel
<1>10. CASE Chats(r)
  BY <1>2, <1>3, <1>5, <1>6, <1>10 DEF Chats
<1>11. CASE HearsCrew(r)
  BY <1>3, <1>5, <1>6, <1>11 DEF HearsCrew
<1>12. CASE Follows(r)
  <2>1. req[r].at # "acts"
    BY <1>12 DEF Follows
  <2>2. Quiet([req[r] EXCEPT !.ticks = @ + 1])
    BY <1>1, <2>1 DEF IsReq, ReqFields, Quiet
  <2> QED
    BY <1>5, <1>6, <1>12, <2>2 DEF Follows
<1> QED
  BY <1>7, <1>8, <1>9, <1>10, <1>11, <1>12

\* The calls of a tool round, and what a turn leaves in the stores.
LEMMA DoesNextKeeps ==
  ASSUME IInv, NEW r \in Requests, DoesNext(r)
  PROVE  KeepsQuiet(r) /\ Harmless /\ UNCHANGED workload
<1> DEFINE q == req[r]
           next == Head(q.todo)
           rest == [q EXCEPT !.todo = Tail(@)]
<1>1. IsReq(q) /\ q.at = "works"
  BY DEF IInv, Reqs, DoesNext
<1>2. Quiet(rest) /\ \A todo, action : /\ Quiet([q EXCEPT !.todo = todo])
                                       /\ Quiet([rest EXCEPT !.action = action])
                                       /\ Quiet([rest EXCEPT !.todo = todo])
  BY <1>1 DEF IsReq, ReqFields, Quiet
<1>3. \A at : at # "acts" => Quiet([q EXCEPT !.at = at]) /\ Quiet([rest EXCEPT !.at = at])
  BY <1>1 DEF IsReq, ReqFields, Quiet
<1>4. \A cited : Quiet(Answered(q, cited))
  BY <1>1 DEF Answered, Works, IsReq, ReqFields, Quiet
<1>5. \A p : Quiet(p) /\ Becomes(r, p) => KeepsQuiet(r)
  BY DEF KeepsQuiet
<1>6. \A at : Goes(r, at) /\ at # "acts" => KeepsQuiet(r)
  BY <1>3, <1>5 DEF Goes
<1>7. CASE q.todo = <<>> /\ Only(Goes(r, "replies"))
  BY <1>6, <1>7, UnchangedIsHarmless DEF Only, approvalVars
<1>8. CASE OnDocs(Load(r, next.edit) /\ Becomes(r, rest))
  BY <1>2, <1>5, <1>8, UnchangedIsHarmless DEF OnDocs, approvalVars
<1>9. CASE /\ Becomes(r, rest)
           /\ UNCHANGED <<docVars, approvalVars, crewVars, workload, arrivals, crashes>>
  BY <1>2, <1>5, <1>9, UnchangedIsHarmless DEF approvalVars
<1>10. CASE OnApprovals(CallsFile(r, next))
  <2>1. CASE Queue(q.turn, next.tool, next.path) /\ Becomes(r, [rest EXCEPT !.action = Held(rest)])
    <3>1. PendingOK' /\ AnswersStay
      BY <2>1, QueueKeeps DEF IInv
    <3>2. FilesOK' /\ NoneGoes
      BY <2>1 DEF Queue, IInv, FilesOK, NoneGoes, Exists
    <3>3. KeepsQuiet(r)
      BY <1>2, <1>5, <2>1
    <3> QED
      BY <1>10, <3>1, <3>2, <3>3 DEF Harmless, OnApprovals
  <2>2. CASE Becomes(r, [q EXCEPT !.at = "writes"]) /\ UNCHANGED approvalVars
    BY <1>3, <1>5, <1>10, <2>2, UnchangedIsHarmless DEF OnApprovals, approvalVars
  <2> QED
    BY <1>10, <2>1, <2>2 DEF OnApprovals, CallsFile
<1>11. CASE Only(Calls(r, next))
  <2>1. KeepsQuiet(r)
    BY <1>2, <1>3, <1>5, <1>11 DEF Only, Calls
  <2> QED
    BY <1>11, <2>1, UnchangedIsHarmless DEF Only, approvalVars
<1>12. CASE Only(Goes(r, "replies")) \/ Only(\E cited \in BOOLEAN : Becomes(r, Answered(q, cited)))
  BY <1>4, <1>5, <1>6, <1>12, UnchangedIsHarmless DEF Only, approvalVars
<1> QED
  BY <1>7, <1>8, <1>9, <1>10, <1>11, <1>12 DEF DoesNext

\* The steps on the pending actions and the workspace.
Deletion(p) ==
  \E r \in Requests :
    /\ req[r].at = "acts" /\ req'[r].at # "acts" /\ req[r].action.path = p
    /\ \/ req[r].ask.route = "sandbox"
       \/ req[r].action.id # 0 /\ answer[req[r].action.id] = "approved"
Rightful == \A p \in Paths : Exists(p) /\ files'[p] = "none" => Deletion(p)

LEMMA PerformsIs ==
  ASSUME IInv, NEW do, NEW path, NEW whose, whose # "none", Performs(do, path, whose)
  PROVE  /\ FilesOK' /\ PendingOK' /\ AnswersStay
         /\ \A p \in Paths : Exists(p) /\ files'[p] = "none" => p = path
         /\ do = "write" => NoneGoes
BY DEF Performs, IInv, FilesOK, PendingOK, Consistent, AnswersStay, Exists, NoneGoes

LEMMA TakesKeeps ==
  ASSUME IInv, NEW r \in Requests, Takes(r)
  PROVE  Turns(r) /\ Harmless
<1> DEFINE q == req[r]
           id == q.action.id
           verdict == IF Approves(q.ask) THEN "approved" ELSE "rejected"
<1>1. IsReq(q) /\ q.at = "takes"
  BY DEF IInv, Reqs, Takes
<1>2. Quiet([q EXCEPT !.at = "replies", !.action = NoAction])
  BY <1>1 DEF IsReq, ReqFields, Quiet
<1>3. CASE Take(id, verdict)
  <2>1. /\ PendingOK' /\ AnswersStay /\ Waiting(id).id = id
        /\ id \in DOMAIN answer' /\ answer'[id] = verdict
    BY <1>3, TakeKeeps DEF IInv, Answers
  <2>2. Harmless
    BY <1>3, <2>1 DEF Take, Harmless, IInv, FilesOK, NoneGoes, Exists
  <2>3. CASE Approves(q.ask) /\ Becomes(r, [q EXCEPT !.at = "acts", !.action = Waiting(id)])
    <3>1. req'[r] = [q EXCEPT !.at = "acts", !.action = Waiting(id)]
      BY <2>3 DEF Becomes, IInv, Reqs
    <3>2. IsReq(req'[r]) /\ req'[r].action = Waiting(id)
      BY <1>1, <3>1 DEF IsReq, ReqFields
    <3>3. Entitled(req'[r], answer')
      BY <2>1, <2>3, <3>2 DEF Entitled
    <3> QED
      BY <2>2, <2>3, <3>1, <3>2, <3>3 DEF Turns, Becomes, Entitled
  <2>4. CASE Becomes(r, [q EXCEPT !.at = "replies", !.action = NoAction])
    BY <1>2, <2>2, <2>4, QuietTurns DEF KeepsQuiet, IInv
  <2> QED
    BY <1>3, <2>3, <2>4, <1>1 DEF Takes
<1>4. CASE Purges /\ Becomes(r, [q EXCEPT !.at = "replies", !.action = NoAction])
  <2>1. Harmless
    BY <1>4, PurgesKeeps DEF Purges, Harmless, IInv, FilesOK, NoneGoes, Exists
  <2> QED
    BY <1>2, <1>4, <2>1, QuietTurns DEF KeepsQuiet, IInv
<1> QED
  BY <1>3, <1>4 DEF Takes

LEMMA ActsKeeps ==
  ASSUME IInv, NEW r \in Requests, Acts(r)
  PROVE  Turns(r) /\ PendingOK' /\ AnswersStay /\ FilesOK' /\ Rightful
<1> DEFINE q == req[r]
           whose == IF q.ask.route = "sandbox" THEN "user" ELSE "agent"
<1>1. IsReq(q) /\ q.at = "acts" /\ Entitled(q, answer)
  BY DEF IInv, Reqs, Acts, ActsAreEntitled
<1>2. Quiet([q EXCEPT !.at = "replies", !.action = NoAction])
  BY <1>1 DEF IsReq, ReqFields, Quiet
<1>3. Turns(r) /\ req'[r].at # "acts"
  BY <1>2, QuietTurns DEF Acts, KeepsQuiet, IInv
<1>4. Performs(q.action.do, q.action.path, whose) /\ whose # "none"
  BY DEF Acts
<1>5. /\ FilesOK' /\ PendingOK' /\ AnswersStay
      /\ \A p \in Paths : Exists(p) /\ files'[p] = "none" => p = q.action.path
  BY <1>4, PerformsIs
<1>6. q.ask.route = "sandbox" \/ (q.action.id # 0 /\ answer[q.action.id] = "approved")
  BY <1>1 DEF Entitled, IInv, PendingOK, Consistent
<1>7. Rightful
  BY <1>1, <1>3, <1>5, <1>6 DEF Rightful, Deletion
<1> QED
  BY <1>3, <1>5, <1>7

LEMMA OnApprovalsKeeps ==
  ASSUME IInv, NEW r \in Requests,
         Writes(r) \/ Lists(r) \/ Takes(r) \/ Acts(r) \/ Replies(r)
  PROVE  Turns(r) /\ PendingOK' /\ AnswersStay /\ FilesOK' /\ Rightful
<1> DEFINE q == req[r]
<1>1. IsReq(q) /\ Reqs
  BY DEF IInv, Reqs
<1>2. NoneGoes => Rightful
  BY DEF NoneGoes, Rightful
<1>3. \A p : Quiet(p) /\ Becomes(r, p) => Turns(r)
  BY <1>1, QuietTurns DEF KeepsQuiet
<1>4. CASE Writes(r)
  <2>1. Quiet([q EXCEPT !.at = "works", !.todo = Tail(@)])
    BY <1>1 DEF IsReq, ReqFields, Quiet
  <2>2. PendingOK' /\ AnswersStay /\ FilesOK' /\ NoneGoes
    BY <1>4, PerformsIs DEF Writes
  <2> QED
    BY <1>2, <1>3, <1>4, <2>1, <2>2 DEF Writes
<1>5. CASE Lists(r)
  <2>1. \A id : Quiet([q EXCEPT !.at = "takes", !.action.id = id])
    BY <1>1 DEF IsReq, ReqFields, Quiet
  <2>2. Quiet([q EXCEPT !.at = "replies"])
    BY <1>1 DEF IsReq, ReqFields, Quiet
  <2>3. Turns(r)
    BY <1>3, <1>5, <2>1, <2>2 DEF Lists, Goes
  <2>4. Harmless
    BY <1>5, PurgesKeeps DEF Lists, Purges, Harmless, IInv, FilesOK, NoneGoes, Exists
  <2> QED
    BY <1>2, <2>3, <2>4 DEF Harmless
<1>6. CASE Takes(r)
  BY <1>2, <1>6, TakesKeeps DEF Harmless
<1>7. CASE Acts(r)
  BY <1>7, ActsKeeps
<1>8. CASE Replies(r)
  <2>1. Quiet(Idle)
    BY DEF Idle, Quiet, IsReq, ReqFields
  <2>2. Harmless
    BY <1>8, UnchangedIsHarmless DEF Replies, Shows
  <2> QED
    BY <1>2, <1>3, <1>8, <2>1, <2>2 DEF Replies, Harmless
<1> QED
  BY <1>4, <1>5, <1>6, <1>7, <1>8

\* A request that begins changes a file at once only on the workspace's own route.
LEMMA ArriveTurns ==
  ASSUME IInv, NEW r \in Requests, Arrive(r)
  PROVE  Turns(r) /\ Harmless /\ UNCHANGED workload
<1> DEFINE begun(ask) == Begun(ask, arrivals + 1)
<1>1. PICK ask \in workload.asks :
        CASE ask.route = "confirm" ->
               \E i \in DOMAIN answer : Becomes(r, [begun(ask) EXCEPT !.action.id = i])
          [] ask.route = "events" ->
               \E k \in JobIds : board[k].status # "none"
                                 /\ Becomes(r, [begun(ask) EXCEPT !.job = k])
          [] ask.route = "sandbox" ->
               \E path \in Paths :
                 Becomes(r, [begun(ask) EXCEPT !.action.do = ask.intent, !.action.path = path])
          [] OTHER -> Becomes(r, begun(ask))
  BY DEF Arrive
<1>2. ask.route \in Routings
  BY DEF IInv
<1>3. /\ IsReq(begun(ask)) /\ begun(ask).ask = ask
      /\ begun(ask).at = "acts" => ask.route = "sandbox"
  BY <1>2 DEF Begun, Idle, Works, IsReq, ReqFields, Routings
<1>4. \E q : IsReq(q) /\ q.ask = ask /\ (q.at = "acts" => ask.route = "sandbox") /\ Becomes(r, q)
  <2>1. \A i : LET q == [begun(ask) EXCEPT !.action.id = i]
               IN  IsReq(q) /\ q.ask = ask /\ q.at = begun(ask).at
    BY <1>3 DEF IsReq, ReqFields
  <2>2. \A k : LET q == [begun(ask) EXCEPT !.job = k]
               IN  IsReq(q) /\ q.ask = ask /\ q.at = begun(ask).at
    BY <1>3 DEF IsReq, ReqFields
  <2>3. \A do, path : LET q == [begun(ask) EXCEPT !.action.do = do, !.action.path = path]
                      IN  IsReq(q) /\ q.ask = ask /\ q.at = begun(ask).at
    BY <1>3 DEF IsReq, ReqFields
  <2> HIDE DEF begun
  <2>4. CASE ask.route = "confirm"
    BY <1>1, <1>3, <2>1, <2>4
  <2>5. CASE ask.route = "events"
    BY <1>1, <1>3, <2>2, <2>5
  <2>6. CASE ask.route = "sandbox"
    BY <1>1, <1>3, <2>3, <2>6
  <2>7. CASE ask.route \notin {"confirm", "events", "sandbox"}
    BY <1>1, <1>3, <2>7
  <2> QED
    BY <2>4, <2>5, <2>6, <2>7
<1>5. Turns(r)
  BY <1>4 DEF Becomes, Turns, Entitled, IInv, Reqs
<1> QED
  BY <1>5, UnchangedIsHarmless DEF Arrive, approvalVars
-----------------------------------------------------------------------------
(* Questions and answers in the stores of turns *)

Turnings(n) == [by : 0..n, role : Roles]

\* No answer of turn t; the answers of every turn, of this run, behind its question.
NoAnswer(turns, t) == \A k \in DOMAIN turns : turns[k].by = t => turns[k].role = "user"
InOrder(turns) ==
  \A i, j \in DOMAIN turns :
    turns[i].by = turns[j].by /\ turns[j].by # 0 /\ turns[i].role # "user" /\ turns[j].role = "user"
      => j < i
Sane(turns, n) == turns \in Seq(Turnings(n)) /\ InOrder(turns)

\* Dropping the oldest keeps the order.
LEMMA LastOfIsSane ==
  ASSUME NEW n \in Nat, NEW turns, Sane(turns, n), NEW most \in Nat
  PROVE  /\ Sane(LastOf(turns, most), n) /\ Len(LastOf(turns, most)) <= most
         /\ \A t : NoAnswer(turns, t) => NoAnswer(LastOf(turns, most), t)
<1>1. turns \in Seq(Turnings(n)) /\ Len(turns) \in Nat
  BY DEF Sane
<1>2. CASE Len(turns) > most
  <2> DEFINE c == Len(turns) - most
             s == SubSeq(turns, c + 1, Len(turns))
  <2>1. LastOf(turns, most) = s
    BY <1>2 DEF LastOf
  <2>2. /\ s \in Seq(Turnings(n)) /\ Len(s) = most /\ DOMAIN s = 1..most /\ c \in Nat
        /\ \A k \in 1..most : s[k] = turns[k + c] /\ k + c \in DOMAIN turns
    BY <1>1, <1>2
  <2> HIDE DEF s, c
  <2>3. InOrder(s)
    <3> SUFFICES ASSUME NEW i \in 1..most, NEW j \in 1..most, s[i].by = s[j].by, s[j].by # 0,
                        s[i].role # "user", s[j].role = "user"
                 PROVE  j < i
      BY <2>2 DEF InOrder
    <3>1. j + c < i + c
      BY <2>2 DEF Sane, InOrder
    <3> QED
      BY <2>2, <3>1
  <2>4. \A t : NoAnswer(turns, t) => NoAnswer(s, t)
    BY <2>2 DEF NoAnswer
  <2> QED
    BY <2>1, <2>2, <2>3, <2>4 DEF Sane
<1>3. CASE ~(Len(turns) > most)
  BY <1>1, <1>3 DEF LastOf
<1> QED
  BY <1>2, <1>3

\* An answer may always be added, a question where the turn is not answered.
LEMMA AppendIsSane ==
  ASSUME NEW n \in Nat, NEW turns, Sane(turns, n), NEW e \in Turnings(n),
         e.role = "user" => NoAnswer(turns, e.by)
  PROVE  /\ Sane(Append(turns, e), n)
         /\ \A t : NoAnswer(turns, t) /\ (e.by = t => e.role = "user")
                     => NoAnswer(Append(turns, e), t)
<1> DEFINE new == Append(turns, e)
           m == Len(turns)
<1>1. turns \in Seq(Turnings(n)) /\ m \in Nat /\ DOMAIN turns = 1..m
  BY DEF Sane
<1>2. /\ new \in Seq(Turnings(n)) /\ DOMAIN new = 1..(m + 1) /\ new[m + 1] = e
      /\ \A k \in 1..m : new[k] = turns[k]
  BY <1>1
<1> HIDE DEF new
<1>3. \A k \in 1..(m + 1) : k \in 1..m \/ k = m + 1
  BY <1>1
<1>4. InOrder(new)
  <2> SUFFICES ASSUME NEW i \in 1..(m + 1), NEW j \in 1..(m + 1), new[i].by = new[j].by,
                      new[j].by # 0, new[i].role # "user", new[j].role = "user"
               PROVE  j < i
    BY <1>2 DEF InOrder
  <2>1. CASE i \in 1..m /\ j \in 1..m
    BY <1>1, <1>2, <2>1 DEF Sane, InOrder
  <2>2. CASE i = m + 1
    <3>1. j # m + 1
      BY <2>2
    <3> QED
      BY <1>1, <1>3, <2>2, <3>1
  <2>3. CASE i \in 1..m /\ j = m + 1
    <3>1. NoAnswer(turns, e.by)
      BY <1>2, <2>3
    <3> QED
      BY <1>1, <1>2, <2>3, <3>1 DEF NoAnswer
  <2> QED
    BY <1>3, <2>1, <2>2, <2>3
<1>5. \A t : NoAnswer(turns, t) /\ (e.by = t => e.role = "user") => NoAnswer(new, t)
  BY <1>1, <1>2, <1>3 DEF NoAnswer
<1> QED
  BY <1>2, <1>4, <1>5 DEF Sane, new

\* The number of the next turn is new to every store.
LEMMA LaterIsSane ==
  ASSUME NEW n \in Nat, NEW turns, Sane(turns, n)
  PROVE  Sane(turns, n + 1) /\ NoAnswer(turns, n + 1)
<1>1. turns \in Seq(Turnings(n)) /\ InOrder(turns)
  BY DEF Sane
<1>2. Turnings(n) \subseteq Turnings(n + 1) /\ \A e \in Turnings(n) : e.by # n + 1
  BY DEF Turnings
<1>3. turns \in Seq(Turnings(n + 1))
  BY <1>1, <1>2
<1>4. \A k \in DOMAIN turns : turns[k] \in Turnings(n)
  BY <1>1
<1> QED
  BY <1>1, <1>2, <1>3, <1>4 DEF Sane, NoAnswer

LEMMA EmptyIsSane == \A n \in Nat : \A t : Sane(<<>>, n) /\ NoAnswer(<<>>, t)
<1>1. \A S : <<>> \in Seq(S) /\ DOMAIN <<>> = {}
  OBVIOUS
<1> QED
  BY <1>1 DEF Sane, InOrder, NoAnswer
-----------------------------------------------------------------------------
(* What a request has still to do *)

Ops == [op : {"doc"}, edit : Edits]
         \cup [op : {"turn"}, to : Sessions \cup {"model"}, role : Roles]
         \cup ToolCalls \cup {Finish}

\* What adds to a store of turns, as whom, and which store that is.
Records(op) == op.op = "turn" \/ (op.op = "doc" /\ op.edit.do = "append")
RoleOf(op) == IF op.op = "turn" THEN op.role ELSE op.edit.role
SameStore(a, b) == a.op = b.op /\ (a.op = "turn" => a.to = b.to)

\* The copies of the memory: the file, and those in hand.
Copies == {Stored("memory")} \cup {hand[r].draft["memory"] : r \in {o \in Requests : Holds(o, "memory")}}

\* Turn t is not answered in the store op adds to, or in any.
Clean(op, t, C, R) ==
  IF op.op = "turn" THEN NoAnswer(R[op.to], t) ELSE \A m \in C : NoAnswer(m, t)
Fresh(t, C, R) == (\A m \in C : NoAnswer(m, t)) /\ (\A s \in DOMAIN R : NoAnswer(R[s], t))

\* A turn that has nothing to record as yet, and one that has nothing but that.
Silent(todo) == \A k \in DOMAIN todo : ~Records(todo[k])
Recording(todo, t, C, R) ==
  /\ \A k \in DOMAIN todo :
       /\ todo[k].op \in {"doc", "turn"}
       /\ Records(todo[k]) /\ todo[k].op = "doc" => todo[k].edit.by = t
       /\ Records(todo[k]) /\ RoleOf(todo[k]) = "user" => Clean(todo[k], t, C, R)
  /\ \A j, k \in DOMAIN todo :
       j < k /\ Records(todo[j]) /\ Records(todo[k]) /\ SameStore(todo[j], todo[k])
         => (RoleOf(todo[k]) = "user" => RoleOf(todo[j]) = "user")

OnTime(q, C, R) ==
  \/ q.at \in {"idle", "replies"}
  \/ Silent(q.todo) /\ Fresh(q.turn, C, R)
  \/ q.at = "works" /\ Recording(q.todo, q.turn, C, R)

Shape(q, answers) ==
  /\ IsReq(q) /\ q.at \in Places /\ q.turn \in Nat /\ q.ask.session \in Sessions \cup {"none"}
  /\ q.todo \in Seq(Ops) /\ (q.at = "writes" => q.todo # <<>>)
  /\ q.ticks \in 0..MaxTicks
  /\ q.action \in Actions /\ q.action.id \in {0} \cup DOMAIN answers

\* A request is still on time when the stores change and bring no answer of its turn.
LEMMA StaysOnTime ==
  ASSUME NEW q, NEW C, NEW R, NEW C2, NEW R2, NEW answers, Shape(q, answers), OnTime(q, C, R),
         DOMAIN R = Sessions \cup {"model"}, DOMAIN R2 = DOMAIN R,
         (\A m \in C : NoAnswer(m, q.turn)) => \A m \in C2 : NoAnswer(m, q.turn),
         \A s \in DOMAIN R : NoAnswer(R[s], q.turn) => NoAnswer(R2[s], q.turn)
  PROVE  OnTime(q, C2, R2)
<1>1. Fresh(q.turn, C, R) => Fresh(q.turn, C2, R2)
  BY DEF Fresh
<1>2. ASSUME Recording(q.todo, q.turn, C, R) PROVE Recording(q.todo, q.turn, C2, R2)
  <2>1. \A k \in DOMAIN q.todo : q.todo[k] \in Ops
    BY DEF Shape
  <2>2. \A k \in DOMAIN q.todo : q.todo[k].op = "turn" => q.todo[k].to \in DOMAIN R
    BY <2>1 DEF Ops, ToolCalls, Finish
  <2>3. \A k \in DOMAIN q.todo : Clean(q.todo[k], q.turn, C, R) => Clean(q.todo[k], q.turn, C2, R2)
    BY <2>2 DEF Clean
  <2> QED
    BY <1>2, <2>3 DEF Recording
<1> QED
  BY <1>1, <1>2 DEF OnTime

\* The first thing to do is done, the others are left.
LEMMA TailIsRecording ==
  ASSUME NEW todo \in Seq(Ops), todo # <<>>, NEW t, NEW C, NEW R, Recording(todo, t, C, R)
  PROVE  /\ Recording(Tail(todo), t, C, R)
         /\ Records(Head(todo)) /\ RoleOf(Head(todo)) # "user" =>
              \A k \in DOMAIN Tail(todo) :
                Records(Tail(todo)[k]) /\ SameStore(Head(todo), Tail(todo)[k])
                  => RoleOf(Tail(todo)[k]) # "user"
<1> DEFINE rest == Tail(todo)
<1>1. /\ Head(todo) = todo[1] /\ 1 \in DOMAIN todo /\ DOMAIN rest \subseteq Nat \ {0}
      /\ \A k \in DOMAIN rest : k + 1 \in DOMAIN todo /\ rest[k] = todo[k + 1]
  OBVIOUS
<1> HIDE DEF rest
<1>2. Recording(rest, t, C, R)
  BY <1>1 DEF Recording
<1>3. \A k \in DOMAIN rest : 1 < k + 1
  BY <1>1
<1>4. ASSUME Records(Head(todo)), RoleOf(Head(todo)) # "user", NEW k \in DOMAIN rest,
             Records(rest[k]), SameStore(Head(todo), rest[k])
      PROVE  RoleOf(rest[k]) # "user"
  BY <1>1, <1>3, <1>4 DEF Recording
<1> QED
  BY <1>2, <1>4 DEF rest

LEMMA TailIsSilent ==
  ASSUME NEW todo \in Seq(Ops), todo # <<>>, Silent(todo)
  PROVE  Silent(Tail(todo))
<1>1. \A k \in DOMAIN Tail(todo) : k + 1 \in DOMAIN todo /\ Tail(todo)[k] = todo[k + 1]
  OBVIOUS
<1> QED
  BY <1>1 DEF Silent

\* One after the other, when the later asks nothing the earlier answers.
Recs(s, t, C, R) == s \in Seq(Ops) /\ Recording(s, t, C, R)
Follow(a, b) ==
  \A j \in DOMAIN a, k \in DOMAIN b :
    Records(a[j]) /\ Records(b[k]) /\ SameStore(a[j], b[k])
      => (RoleOf(b[k]) = "user" => RoleOf(a[j]) = "user")

LEMMA CatAt ==
  ASSUME NEW S, NEW a \in Seq(S), NEW b \in Seq(S)
  PROVE  /\ a \o b \in Seq(S)
         /\ \A k \in DOMAIN (a \o b) :
              \/ k \in DOMAIN a /\ (a \o b)[k] = a[k]
              \/ \E x \in DOMAIN b : k = Len(a) + x /\ (a \o b)[k] = b[x]
<1>1. a \o b \in Seq(S)
  OBVIOUS
<1>2. ASSUME NEW k \in DOMAIN (a \o b), k \notin DOMAIN a
      PROVE  \E x \in DOMAIN b : k = Len(a) + x /\ (a \o b)[k] = b[x]
  <2>1. k - Len(a) \in DOMAIN b /\ k = Len(a) + (k - Len(a)) /\ (a \o b)[k] = b[k - Len(a)]
    BY <1>2
  <2> QED
    BY <2>1
<1>3. \A k \in DOMAIN a : (a \o b)[k] = a[k]
  OBVIOUS
<1> QED
  BY <1>1, <1>2, <1>3

LEMMA CatRecords ==
  ASSUME NEW t, NEW C, NEW R, NEW a, NEW b, Recs(a, t, C, R), Recs(b, t, C, R), Follow(a, b)
  PROVE  Recs(a \o b, t, C, R)
<1> DEFINE c == a \o b
<1>1. /\ c \in Seq(Ops)
      /\ \A k \in DOMAIN c : \/ k \in DOMAIN a /\ c[k] = a[k]
                           \/ \E x \in DOMAIN b : k = Len(a) + x /\ c[k] = b[x]
  BY CatAt DEF Recs
<1>2. /\ Len(a) \in Nat /\ DOMAIN a = 1..Len(a) /\ DOMAIN b \subseteq Nat \ {0}
      /\ Recording(a, t, C, R) /\ Recording(b, t, C, R)
  BY DEF Recs
<1> HIDE DEF c
<1>3. ASSUME NEW k \in DOMAIN c
      PROVE  /\ c[k].op \in {"doc", "turn"}
             /\ Records(c[k]) /\ c[k].op = "doc" => c[k].edit.by = t
             /\ Records(c[k]) /\ RoleOf(c[k]) = "user" => Clean(c[k], t, C, R)
  BY <1>1, <1>2 DEF Recording
<1>4. ASSUME NEW j \in DOMAIN c, NEW k \in DOMAIN c, j < k, Records(c[j]), Records(c[k]),
             SameStore(c[j], c[k]), RoleOf(c[k]) = "user"
      PROVE  RoleOf(c[j]) = "user"
  <2>1. CASE k \in DOMAIN a /\ c[k] = a[k]
    <3>1. j \in DOMAIN a /\ c[j] = a[j]
      BY <1>1, <1>2, <1>4, <2>1
    <3> QED
      BY <1>2, <1>4, <2>1, <3>1 DEF Recording
  <2>2. ASSUME NEW x \in DOMAIN b, k = Len(a) + x, c[k] = b[x]
        PROVE  RoleOf(c[j]) = "user"
    <3>1. CASE j \in DOMAIN a /\ c[j] = a[j]
      BY <1>4, <2>2, <3>1 DEF Follow
    <3>2. ASSUME NEW y \in DOMAIN b, j = Len(a) + y, c[j] = b[y]
          PROVE  RoleOf(c[j]) = "user"
      <4>1. y < x
        BY <1>2, <1>4, <2>2, <3>2
      <4> QED
        BY <1>2, <1>4, <2>2, <3>2, <4>1 DEF Recording
    <3> QED
      BY <1>1, <3>1, <3>2
  <2> QED
    BY <1>1, <2>1, <2>2
<1> QED
  BY <1>1, <1>3, <1>4 DEF Recs, Recording, c

LEMMA OneRecords ==
  ASSUME NEW t, NEW C, NEW R, NEW op \in Ops, op.op \in {"doc", "turn"},
         Records(op) /\ op.op = "doc" => op.edit.by = t,
         Records(op) /\ RoleOf(op) = "user" => Clean(op, t, C, R)
  PROVE  Recs(<<op>>, t, C, R) /\ Recs(<<>>, t, C, R)
<1>1. <<op>> \in Seq(Ops) /\ DOMAIN <<op>> = {1} /\ <<op>>[1] = op
  OBVIOUS
<1>2. <<>> \in Seq(Ops) /\ DOMAIN <<>> = {}
  OBVIOUS
<1> QED
  BY <1>1, <1>2 DEF Recs, Recording

\* A question, and its answer in the same store.
LEMMA TwoRecord ==
  ASSUME NEW t, NEW C, NEW R, NEW a \in Ops, NEW b \in Ops, Records(a), Records(b),
         RoleOf(a) = "user", RoleOf(b) # "user", a.op = "doc" => a.edit.by = t,
         b.op = "doc" => b.edit.by = t, Clean(a, t, C, R)
  PROVE  Recs(<<a, b>>, t, C, R)
<1>1. /\ <<a, b>> \in Seq(Ops) /\ DOMAIN <<a, b>> = {1, 2}
      /\ <<a, b>>[1] = a /\ <<a, b>>[2] = b
  OBVIOUS
<1>2. a.op \in {"doc", "turn"} /\ b.op \in {"doc", "turn"}
  BY DEF Records
<1> QED
  BY <1>1, <1>2 DEF Recs, Recording

LEMMA TurnIs ==
  ASSUME NEW s \in Sessions \cup {"model"}, NEW role \in Roles
  PROVE  LET op == Turn(s, role)
         IN  op \in Ops /\ Records(op) /\ RoleOf(op) = role /\ op.op = "turn" /\ op.to = s
BY DEF Turn, Ops, Records, RoleOf

LEMMA DocIs ==
  ASSUME NEW e \in Edits
  PROVE  /\ Doc(e) \in Ops /\ Doc(e).op = "doc" /\ Doc(e).edit = e
         /\ Records(Doc(e)) <=> e.do = "append"
         /\ RoleOf(Doc(e)) = e.role
BY DEF Doc, Ops, Records, RoleOf

LEMMA RemembersIs ==
  ASSUME NEW t \in Nat, NEW role \in Roles
  PROVE  LET op == Remembers(t, role)
         IN  /\ op \in Ops /\ Records(op) /\ RoleOf(op) = role /\ op.op = "doc"
             /\ op.edit.by = t /\ op.edit \in Edits /\ op.edit.of = "memory"
<1> DEFINE e == [of |-> "memory", do |-> "append", by |-> t, role |-> role]
<1>1. e \in Edits /\ e.of = "memory" /\ e.do = "append" /\ e.by = t /\ e.role = role
  BY DEF Edits
<1>2. Remembers(t, role) = Doc(e)
  BY DEF Remembers
<1> HIDE DEF e
<1> QED
  BY <1>1, <1>2, DocIs

\* What an answered turn leaves is in order, for a turn that is not answered anywhere.
LEMMA RecordedIs ==
  ASSUME NEW q, NEW answers, Shape(q, answers), NEW C, NEW R, DOMAIN R = Sessions \cup {"model"},
         Fresh(q.turn, C, R), NEW cited \in BOOLEAN
  PROVE  /\ Recs(Recorded(q, cited), q.turn, C, R)
         /\ Recs(<< Turn("model", "user"), Turn("model", "assistant") >> \o Recorded(q, cited),
                 q.turn, C, R)
         /\ \A e \in Edits : e.do # "append" => Recs(<< Doc(e) >> \o Recorded(q, cited), q.turn, C, R)
<1> DEFINE t == q.turn
           s == q.ask.session
           u == Remembers(t, "user")
           a == Remembers(t, "assistant")
           o == Remembers(t, "source")
           model == << Turn("model", "user"), Turn("model", "assistant") >>
           ringed == IF s = "none" THEN <<>> ELSE << Turn(s, "user"), Turn(s, "assistant") >>
           sourced == IF cited THEN <<o>> ELSE <<>>
<1>1. t \in Nat /\ s \in Sessions \cup {"none"} /\ {"user", "assistant", "source"} = Roles
  BY DEF Shape, Roles
<1>2. Recs(<<u, a>>, t, C, R) /\ u.op = "doc" /\ a.op = "doc"
  <2>1. /\ u \in Ops /\ Records(u) /\ RoleOf(u) = "user" /\ u.op = "doc" /\ u.edit.by = t
        /\ a \in Ops /\ Records(a) /\ RoleOf(a) = "assistant" /\ a.op = "doc" /\ a.edit.by = t
    BY <1>1, RemembersIs
  <2> HIDE DEF u, a
  <2>2. Clean(u, t, C, R)
    BY <2>1 DEF Fresh, Clean
  <2> QED
    BY <2>1, <2>2, TwoRecord
<1>3. ASSUME NEW x \in Sessions \cup {"model"}
      PROVE  /\ Recs(<< Turn(x, "user"), Turn(x, "assistant") >>, t, C, R)
             /\ \A k \in {1, 2} : /\ << Turn(x, "user"), Turn(x, "assistant") >>[k].op = "turn"
                                  /\ << Turn(x, "user"), Turn(x, "assistant") >>[k].to = x
  <2> DEFINE p == Turn(x, "user")
             r == Turn(x, "assistant")
  <2>1. /\ p \in Ops /\ Records(p) /\ RoleOf(p) = "user" /\ p.op = "turn" /\ p.to = x
        /\ r \in Ops /\ Records(r) /\ RoleOf(r) = "assistant" /\ r.op = "turn" /\ r.to = x
    BY <1>1, TurnIs
  <2>2. Clean(p, t, C, R)
    BY <2>1 DEF Fresh, Clean
  <2> HIDE DEF p, r
  <2>3. Recs(<<p, r>>, t, C, R)
    BY <2>1, <2>2, TwoRecord
  <2>4. <<p, r>>[1] = p /\ <<p, r>>[2] = r
    OBVIOUS
  <2> QED
    BY <2>1, <2>3, <2>4 DEF p, r
<1>4. /\ Recs(sourced, t, C, R) /\ Recs(<<>>, t, C, R)
      /\ \A k \in DOMAIN sourced : sourced[k].op = "doc" /\ RoleOf(sourced[k]) # "user"
  <2>1. o \in Ops /\ Records(o) /\ RoleOf(o) = "source" /\ o.op = "doc" /\ o.edit.by = t
    BY <1>1, RemembersIs
  <2> HIDE DEF o
  <2>2. Recs(<<o>>, t, C, R) /\ Recs(<<>>, t, C, R)
    BY <2>1, OneRecords
  <2>3. DOMAIN <<o>> = {1} /\ <<o>>[1] = o /\ DOMAIN <<>> = {}
    OBVIOUS
  <2> QED
    BY <2>1, <2>2, <2>3
<1>5. /\ Recs(ringed, t, C, R)
      /\ \A k \in DOMAIN ringed : ringed[k].op = "turn" /\ ringed[k].to \in Sessions
  <2>1. CASE s = "none"
    BY <1>4, <2>1
  <2>2. CASE s # "none"
    <3>1. s \in Sessions
      BY <1>1, <2>2
    <3>2. DOMAIN << Turn(s, "user"), Turn(s, "assistant") >> = {1, 2}
      OBVIOUS
    <3> QED
      BY <1>3, <2>2, <3>1, <3>2
  <2> QED
    BY <2>1, <2>2
<1>6. \A k \in DOMAIN <<u, a>> : <<u, a>>[k].op = "doc"
  BY <1>2
<1> DEFINE half == ringed \o <<u, a>>
           whole == half \o sourced
<1>7. Recorded(q, cited) = whole
  BY DEF Recorded
<1>8. (\A k \in DOMAIN model : model[k].op = "turn" /\ model[k].to = "model") /\ Recs(model, t, C, R)
  BY <1>3
<1> HIDE DEF model, ringed, sourced, u, a, o
<1>9. Recs(half, t, C, R)
  <2>1. Follow(ringed, <<u, a>>)
    BY <1>5, <1>6 DEF Follow, SameStore
  <2> QED
    BY <1>2, <1>5, <2>1, CatRecords
<1>10. \A k \in DOMAIN half : half[k].op = "doc" \/ (half[k].op = "turn" /\ half[k].to \in Sessions)
  <2>1. \A k \in DOMAIN half : \/ k \in DOMAIN ringed /\ half[k] = ringed[k]
                              \/ \E x \in DOMAIN <<u, a>> : half[k] = <<u, a>>[x]
    BY <1>2, <1>5, CatAt DEF Recs
  <2> QED
    BY <1>5, <1>6, <2>1
<1> HIDE DEF half
<1>11. Recs(whole, t, C, R)
  <2>1. Follow(half, sourced)
    BY <1>4 DEF Follow
  <2> QED
    BY <1>4, <1>9, <2>1, CatRecords
<1>12. \A k \in DOMAIN whole : whole[k].op = "doc" \/ (whole[k].op = "turn" /\ whole[k].to \in Sessions)
  <2>1. \A k \in DOMAIN whole : \/ k \in DOMAIN half /\ whole[k] = half[k]
                               \/ \E x \in DOMAIN sourced : whole[k] = sourced[x]
    BY <1>4, <1>9, CatAt DEF Recs
  <2> QED
    BY <1>4, <1>10, <2>1
<1> HIDE DEF whole
<1>13. Recs(model \o whole, t, C, R)
  <2>1. Follow(model, whole)
    BY <1>8, <1>12 DEF Follow, SameStore
  <2> QED
    BY <1>8, <1>11, <2>1, CatRecords
<1>14. ASSUME NEW e \in Edits, e.do # "append" PROVE Recs(<<Doc(e)>> \o whole, t, C, R)
  <2>1. Doc(e) \in Ops /\ Doc(e).op = "doc" /\ ~Records(Doc(e))
    BY <1>14, DocIs
  <2>2. Recs(<<Doc(e)>>, t, C, R)
    BY <2>1, OneRecords
  <2>3. Follow(<<Doc(e)>>, whole)
    <3>1. DOMAIN <<Doc(e)>> = {1} /\ <<Doc(e)>>[1] = Doc(e)
      OBVIOUS
    <3> QED
      BY <2>1, <3>1 DEF Follow
  <2> QED
    BY <1>11, <2>2, <2>3, CatRecords
<1> QED
  BY <1>7, <1>11, <1>13, <1>14 DEF model
-----------------------------------------------------------------------------
(* The copies of the memory *)

CopiesStay == Copies' \subseteq Copies \cup {<<>>}
Appended(e) == LastOf(Append(Stored("memory"), Entry(e)), MaxEntries)

LEMMA LoadCopies ==
  ASSUME DocsOK, NEW r \in Requests, NEW e \in Edits, Load(r, e)
  PROVE  /\ e.do # "append" => CopiesStay
         /\ e.do = "append" => Copies' \subseteq Copies \cup {Appended(e)}
<1>1. DocsShape /\ Stored("memory")' = Stored("memory")
  BY DEF DocsOK, Load, Stored
<1>2. CASE UNCHANGED hand
  BY <1>1, <1>2 DEF Copies, CopiesStay, Holds
<1>3. CASE hand' = [hand EXCEPT ![r] =
             [at |-> "edited", edit |-> e,
              draft |-> [Blank EXCEPT ![e.of] = Edit(Stored(e.of), e)]]]
  <2>1. \A o \in Requests \ {r} : hand'[o] = hand[o]
    BY <1>1, <1>3 DEF DocsShape
  <2>2. /\ hand'[r].edit = e
        /\ e.of = "memory" => hand'[r].draft["memory"] = Edit(Stored("memory"), e)
    BY <1>1, <1>3, BlankIsWhole DEF DocsShape, Kinds
  <2>3. Copies' \subseteq Copies \cup (IF e.of = "memory" THEN {Edit(Stored("memory"), e)} ELSE {})
    BY <1>1, <2>1, <2>2 DEF Copies, Holds
  <2>4. (e.of = "memory" => e.do \in {"append", "clear"}) /\ (e.do = "append" => e.of = "memory")
    BY DEF Edits
  <2>5. e.do = "append" => Edit(Stored("memory"), e) = Appended(e)
    BY <2>4 DEF Edit, Appended
  <2>6. e.of = "memory" /\ e.do = "clear" => Edit(Stored("memory"), e) = <<>>
    BY DEF Edit, Blank
  <2> QED
    BY <2>3, <2>4, <2>5, <2>6 DEF CopiesStay
<1> QED
  BY <1>2, <1>3 DEF Load

LEMMA SaveCopies ==
  ASSUME DocsOK, NEW r \in Requests, Truncate(r) \/ Write(r)
  PROVE  CopiesStay
<1>1. DocsShape /\ HandOK(hand[r])
  BY DEF DocsOK, DocsShape
<1>2. PICK d \in Kinds : d = hand[r].edit.of /\ Holds(r, d)
  BY <1>1, EditsAreOf DEF Truncate, Write, HandOK, Holds
<1>3. Blank["memory"] = <<>>
  BY DEF Blank
<1>4. CASE Truncate(r)
  <2>1. /\ file' = [file EXCEPT ![d] = [whole |-> FALSE, doc |-> Blank[d]]]
        /\ hand' = [hand EXCEPT ![r].at = "opened"] /\ hand[r].at = "edited"
    BY <1>2, <1>4 DEF Truncate
  <2>2. Stored("memory")' \in {Stored("memory"), <<>>}
    <3>1. CASE d = "memory"
      BY <1>1, <1>3, <2>1, <3>1 DEF DocsShape, Stored
    <3>2. CASE d # "memory"
      BY <1>1, <2>1, <3>2 DEF DocsShape, Stored
    <3> QED
      BY <3>1, <3>2
  <2>3. \A o \in Requests : /\ hand'[o].draft = hand[o].draft
                            /\ Holds(o, "memory")' <=> Holds(o, "memory")
    BY <1>1, <2>1 DEF DocsShape, HandOK, Holds
  <2> QED
    BY <2>2, <2>3 DEF Copies, CopiesStay
<1>5. CASE Write(r)
  <2>1. PICK whole \in BOOLEAN :
          file' = [file EXCEPT ![d] =
            [whole |-> whole, doc |-> IF whole THEN hand[r].draft[d] ELSE Blank[d]]]
    BY <1>2, <1>5 DEF Write
  <2>2. hand' = [hand EXCEPT ![r] = Free]
    BY <1>5 DEF Write
  <2>3. Stored("memory")' \in Copies \cup {<<>>}
    <3>1. CASE d = "memory"
      <4>1. Stored("memory")' \in {hand[r].draft["memory"], <<>>}
        BY <1>1, <1>3, <2>1, <3>1 DEF DocsShape, Stored
      <4> QED
        BY <1>2, <3>1, <4>1 DEF Copies
    <3>2. CASE d # "memory"
      BY <1>1, <2>1, <3>2 DEF DocsShape, Stored, Copies
    <3> QED
      BY <3>1, <3>2
  <2>4. \A o \in Requests : Holds(o, "memory")' => hand'[o] = hand[o]
    BY <1>1, <2>2 DEF DocsShape, Holds, Free
  <2> QED
    BY <2>3, <2>4 DEF Copies, CopiesStay, Holds
<1> QED
  BY <1>4, <1>5

LEMMA CrashCopies ==
  ASSUME DocsOK, NEW settings, DocsCrash(settings)
  PROVE  CopiesStay
<1>1. Stored("memory")' = Stored("memory")
  BY DEF DocsCrash, DocsOK, DocsShape, Stored, Kinds
<1>2. \A o \in Requests : ~Holds(o, "memory")'
  BY DEF DocsCrash, Holds, Free
<1> QED
  BY <1>1, <1>2 DEF Copies, CopiesStay
-----------------------------------------------------------------------------
(* A request goes on *)

Onward(q, p, answers, C, R) ==
  Shape(p, answers) /\ OnTime(p, C, R) /\ (p.at # "idle" => p.turn = q.turn)

LEMMA OnwardWorks ==
  ASSUME NEW q, NEW answers, Shape(q, answers), NEW C, NEW R, NEW todo,
         \/ Recs(todo, q.turn, C, R)
         \/ todo \in Seq(Ops) /\ Silent(todo) /\ Fresh(q.turn, C, R)
  PROVE  /\ Onward(q, Works(q, todo), answers, C, R) /\ Works(q, todo).at = "works"
         /\ Works(q, todo).turn = q.turn /\ Works(q, todo).ask = q.ask
<1> DEFINE p == Works(q, todo)
<1>1. /\ IsReq(p) /\ p.at = "works" /\ p.turn = q.turn /\ p.ask = q.ask /\ p.todo = todo
      /\ p.ticks = q.ticks /\ p.action = q.action
  BY DEF Works, Shape, IsReq, ReqFields
<1> HIDE DEF p
<1>2. Shape(p, answers)
  BY <1>1 DEF Shape, Recs, Places
<1>3. OnTime(p, C, R)
  BY <1>1 DEF OnTime, Recs
<1> QED
  BY <1>1, <1>2, <1>3 DEF Onward, p

LEMMA OnwardAnswered ==
  ASSUME NEW q, NEW answers, Shape(q, answers), NEW C, NEW R, DOMAIN R = Sessions \cup {"model"},
         Fresh(q.turn, C, R), NEW cited \in BOOLEAN
  PROVE  Onward(q, Answered(q, cited), answers, C, R)
BY RecordedIs, OnwardWorks DEF Answered

\* Another place: after the answer, or before any of it is recorded.
LEMMA OnwardAt ==
  ASSUME NEW q, NEW answers, Shape(q, answers), NEW C, NEW R,
         NEW at \in Places \ {"idle", "writes"},
         at = "replies" \/ (Silent(q.todo) /\ Fresh(q.turn, C, R))
  PROVE  /\ Onward(q, [q EXCEPT !.at = at], answers, C, R)
         /\ \A job : Onward(q, [q EXCEPT !.at = at, !.job = job], answers, C, R)
         /\ \A a \in Actions : a.id \in {0} \cup DOMAIN answers =>
              Onward(q, [q EXCEPT !.at = at, !.action = a], answers, C, R)
<1>1. ASSUME NEW p, IsReq(p), p.at = at, p.turn = q.turn, p.ask = q.ask, p.todo = q.todo,
             p.ticks = q.ticks, p.action \in Actions, p.action.id \in {0} \cup DOMAIN answers
      PROVE  Onward(q, p, answers, C, R)
  <2>1. Shape(p, answers)
    BY <1>1 DEF Shape
  <2>2. OnTime(p, C, R)
    BY <1>1 DEF OnTime
  <2> QED
    BY <1>1, <2>1, <2>2 DEF Onward
<1>2. Onward(q, [q EXCEPT !.at = at], answers, C, R)
  <2> DEFINE p == [q EXCEPT !.at = at]
  <2>1. /\ IsReq(p) /\ p.at = at /\ p.turn = q.turn /\ p.ask = q.ask /\ p.todo = q.todo
        /\ p.ticks = q.ticks /\ p.action = q.action
    BY DEF Shape, IsReq, ReqFields
  <2> HIDE DEF p
  <2>2. p.action \in Actions /\ p.action.id \in {0} \cup DOMAIN answers
    BY <2>1 DEF Shape
  <2>3. Onward(q, p, answers, C, R)
    BY <1>1, <2>1, <2>2
  <2> QED
    BY <2>3 DEF p
<1>3. ASSUME NEW job PROVE Onward(q, [q EXCEPT !.at = at, !.job = job], answers, C, R)
  <2> DEFINE p == [q EXCEPT !.at = at, !.job = job]
  <2>1. /\ IsReq(p) /\ p.at = at /\ p.turn = q.turn /\ p.ask = q.ask /\ p.todo = q.todo
        /\ p.ticks = q.ticks /\ p.action = q.action
    BY DEF Shape, IsReq, ReqFields
  <2> HIDE DEF p
  <2>2. p.action \in Actions /\ p.action.id \in {0} \cup DOMAIN answers
    BY <2>1 DEF Shape
  <2>3. Onward(q, p, answers, C, R)
    BY <1>1, <2>1, <2>2
  <2> QED
    BY <2>3 DEF p
<1>4. ASSUME NEW a \in Actions, a.id \in {0} \cup DOMAIN answers
      PROVE  Onward(q, [q EXCEPT !.at = at, !.action = a], answers, C, R)
  <2> DEFINE p == [q EXCEPT !.at = at, !.action = a]
  <2>1. /\ IsReq(p) /\ p.at = at /\ p.turn = q.turn /\ p.ask = q.ask /\ p.todo = q.todo
        /\ p.ticks = q.ticks /\ p.action = a
    BY DEF Shape, IsReq, ReqFields
  <2> HIDE DEF p
  <2>2. Onward(q, p, answers, C, R)
    BY <1>1, <1>4, <2>1
  <2> QED
    BY <2>2 DEF p
<1> QED
  BY <1>2, <1>3, <1>4

\* In the midst of its work: what is left to do, and the action it asks about.
LEMMA OnwardLeft ==
  ASSUME NEW q, NEW answers, Shape(q, answers), q.at = "works", NEW C, NEW R, NEW todo,
         \/ Recs(todo, q.turn, C, R)
         \/ todo \in Seq(Ops) /\ Silent(todo) /\ Fresh(q.turn, C, R),
         NEW a \in Actions, a.id \in {0} \cup DOMAIN answers
  PROVE  /\ Onward(q, [q EXCEPT !.todo = todo], answers, C, R)
         /\ Onward(q, [[q EXCEPT !.todo = todo] EXCEPT !.action = a], answers, C, R)
<1>1. ASSUME NEW p, IsReq(p), p.at = q.at, p.turn = q.turn, p.ask = q.ask, p.todo = todo,
             p.ticks = q.ticks, p.action \in Actions, p.action.id \in {0} \cup DOMAIN answers
      PROVE  Onward(q, p, answers, C, R)
  <2>1. Shape(p, answers)
    BY <1>1 DEF Shape, Recs
  <2>2. OnTime(p, C, R)
    BY <1>1 DEF OnTime, Recs
  <2> QED
    BY <1>1, <2>1, <2>2 DEF Onward
<1>2. Onward(q, [q EXCEPT !.todo = todo], answers, C, R)
  <2> DEFINE p == [q EXCEPT !.todo = todo]
  <2>1. /\ IsReq(p) /\ p.at = q.at /\ p.turn = q.turn /\ p.ask = q.ask /\ p.todo = todo
        /\ p.ticks = q.ticks /\ p.action = q.action
    BY DEF Shape, IsReq, ReqFields
  <2> HIDE DEF p
  <2>2. p.action \in Actions /\ p.action.id \in {0} \cup DOMAIN answers
    BY <2>1 DEF Shape
  <2>3. Onward(q, p, answers, C, R)
    BY <1>1, <2>1, <2>2
  <2> QED
    BY <2>3 DEF p
<1>3. Onward(q, [[q EXCEPT !.todo = todo] EXCEPT !.action = a], answers, C, R)
  <2> DEFINE p == [[q EXCEPT !.todo = todo] EXCEPT !.action = a]
  <2>1. /\ IsReq(p) /\ p.at = q.at /\ p.turn = q.turn /\ p.ask = q.ask /\ p.todo = todo
        /\ p.ticks = q.ticks /\ p.action = a
    BY DEF Shape, IsReq, ReqFields
  <2> HIDE DEF p
  <2>2. Onward(q, p, answers, C, R)
    BY <1>1, <2>1
  <2> QED
    BY <2>2 DEF p
<1> QED
  BY <1>2, <1>3
-----------------------------------------------------------------------------
(* The requests, what they have to do, and the stores *)

ActionsTyped ==
  /\ pending \in Seq(Actions) /\ Len(answer) <= MaxActions /\ shown \subseteq DOMAIN answer
  /\ files \in [Paths -> {"none", "user", "agent"}]

RequestsOK ==
  /\ arrivals \in Nat
  /\ \A r \in Requests : /\ Shape(req[r], answer)
                         /\ req[r].at # "idle" => req[r].turn \in 1..arrivals
  /\ \A r, o \in Requests :
       r # o /\ req[r].at # "idle" /\ req[o].at # "idle" => req[r].turn # req[o].turn

RingsOK ==
  /\ ring = [s \in Sessions \cup {"model"} |-> ring[s]]
  /\ \A s \in Sessions \cup {"model"} : Sane(ring[s], arrivals) /\ Len(ring[s]) <= MaxTurns

StoresOK ==
  /\ RingsOK
  /\ \A m \in Copies : Sane(m, arrivals)
  /\ \A r \in Requests : OnTime(req[r], Copies, ring)

WInv == IInv /\ DocsOK /\ ActionsTyped /\ RequestsOK /\ StoresOK

GoesOn(r) ==
  req[r].at # "idle" /\ \E q : Becomes(r, q) /\ Onward(req[r], q, answer', Copies, ring)

LEMMA NoActionIs == NoAction \in Actions /\ NoAction.id = 0
BY DEF NoAction, Actions

LEMMA IdleIs == Idle.at = "idle" /\ \A answers : Shape(Idle, answers)
<1>1. /\ IsReq(Idle) /\ Idle.at = "idle" /\ Idle.turn = 0 /\ Idle.todo = <<>>
      /\ Idle.action = NoAction /\ Idle.ticks = 0 /\ Idle.ask.session = "none"
  BY DEF Idle, IsReq, ReqFields, Ask
<1>2. 0 \in 0..MaxTicks /\ "idle" \in Places /\ <<>> \in Seq(Ops)
  BY DEF Places
<1> QED
  BY <1>1, <1>2, NoActionIs DEF Shape

LEMMA ShapeStays ==
  ASSUME RequestsOK, AnswersStay
  PROVE  \A r \in Requests : Shape(req[r], answer')
BY DEF RequestsOK, AnswersStay, Shape

\* A step of one request, to a good shape and on time, keeps the others so.
LEMMA GoesOnKeeps ==
  ASSUME WInv, NEW r \in Requests, GoesOn(r), AnswersStay, UNCHANGED <<docVars, ring, arrivals>>
  PROVE  RequestsOK' /\ StoresOK'
<1>1. PICK q : /\ req[r].at # "idle" /\ Becomes(r, q) /\ Shape(q, answer') /\ OnTime(q, Copies, ring)
               /\ (q.at # "idle" => q.turn = req[r].turn)
  BY DEF GoesOn, Onward
<1>2. req'[r] = q /\ \A o \in Requests \ {r} : req'[o] = req[o]
  BY <1>1 DEF Becomes, WInv, IInv, Reqs
<1>3. \A o \in Requests : Shape(req'[o], answer')
  BY <1>1, <1>2, ShapeStays DEF WInv
<1>4. Copies' = Copies
  BY DEF docVars, Copies, Holds, Stored
<1>5. RequestsOK'
  <2>1. \A o \in Requests : req'[o].at # "idle" => req[o].at # "idle" /\ req'[o].turn = req[o].turn
    BY <1>1, <1>2
  <2>2. (\A o \in Requests : Shape(req[o], answer))'
    BY <1>3 DEF Shape, IsReq
  <2> QED
    BY <2>1, <2>2 DEF WInv, RequestsOK
<1>6. \A o \in Requests : OnTime(req'[o], Copies, ring)
  BY <1>1, <1>2 DEF WInv, StoresOK
<1>7. (\A o \in Requests : OnTime(req[o], Copies, ring))'
  BY <1>4, <1>6
<1>8. RingsOK' /\ (\A m \in Copies : Sane(m, arrivals))'
  BY <1>4 DEF WInv, StoresOK, RingsOK, Sane
<1> QED
  BY <1>5, <1>7, <1>8 DEF StoresOK

\* Nothing happens to the requests, and at most copies of the memory go.
LEMMA CopiesGo ==
  ASSUME WInv, AnswersStay, CopiesStay, UNCHANGED <<req, ring, arrivals>>
  PROVE  RequestsOK' /\ StoresOK'
<1>1. RequestsOK'
  <2>1. (\A o \in Requests : Shape(req[o], answer))'
    BY ShapeStays DEF WInv, Shape, IsReq
  <2> QED
    BY <2>1 DEF WInv, RequestsOK
<1>2. RingsOK' /\ arrivals \in Nat /\ DOMAIN ring = Sessions \cup {"model"}
  BY DEF WInv, StoresOK, RingsOK, RequestsOK
<1>3. \A m \in Copies' : Sane(m, arrivals)
  BY <1>2, EmptyIsSane DEF WInv, StoresOK, CopiesStay
<1>4. ASSUME NEW o \in Requests PROVE OnTime(req[o], Copies', ring)
  <2>1. Shape(req[o], answer) /\ OnTime(req[o], Copies, ring)
    BY DEF WInv, RequestsOK, StoresOK
  <2>2. (\A m \in Copies : NoAnswer(m, req[o].turn)) => \A m \in Copies' : NoAnswer(m, req[o].turn)
    BY <1>2, EmptyIsSane DEF CopiesStay
  <2> QED
    BY <1>2, <2>1, <2>2, StaysOnTime
<1>5. (\A o \in Requests : OnTime(req[o], Copies, ring))'
  BY <1>4
<1>6. (\A m \in Copies : Sane(m, arrivals))'
  BY <1>3
<1> QED
  BY <1>1, <1>2, <1>5, <1>6 DEF StoresOK

LEMMA RequestIs ==
  ASSUME WInv, NEW r \in Requests
  PROVE  /\ Shape(req[r], answer) /\ OnTime(req[r], Copies, ring)
         /\ DOMAIN ring = Sessions \cup {"model"}
         /\ req[r].at \notin {"idle", "replies", "works"} =>
              Silent(req[r].todo) /\ Fresh(req[r].turn, Copies, ring)
<1>1. Shape(req[r], answer) /\ OnTime(req[r], Copies, ring) /\ DOMAIN ring = Sessions \cup {"model"}
  BY DEF WInv, RequestsOK, StoresOK, RingsOK
<1> QED
  BY <1>1 DEF OnTime

\* The steps that touch nothing but the request itself.
LEMMA OnlyGoesOn ==
  ASSUME WInv, NEW r \in Requests, UNCHANGED answer,
         Routes(r) \/ Searches(r) \/ AsksModel(r) \/ Chats(r) \/ HearsCrew(r) \/ Follows(r)
  PROVE  GoesOn(r)
<1> DEFINE q == req[r]
           Good(p) == Onward(q, p, answer, Copies, ring)
<1>1. /\ Shape(q, answer) /\ OnTime(q, Copies, ring) /\ DOMAIN ring = Sessions \cup {"model"}
      /\ q.at \notin {"idle", "replies", "works"} => Silent(q.todo) /\ Fresh(q.turn, Copies, ring)
  BY RequestIs
<1>2. q.at \in {"routes", "searches", "asks_model", "chats", "waits", "follows"}
  BY DEF Routes, Searches, AsksModel, Chats, HearsCrew, Follows
<1>3. Silent(q.todo) /\ Fresh(q.turn, Copies, ring) /\ q.at # "idle"
  BY <1>1, <1>2
<1>4. \A p : Good(p) /\ Becomes(r, p) => GoesOn(r)
  BY <1>3 DEF GoesOn
<1>5. \A at \in Places \ {"idle", "writes"} : Goes(r, at) => GoesOn(r)
  <2>1. \A at \in Places \ {"idle", "writes"} : Good([q EXCEPT !.at = at])
    BY <1>1, <1>3, OnwardAt
  <2> HIDE DEF Good
  <2> QED
    BY <1>4, <2>1 DEF Goes
<1>6. \A cited \in BOOLEAN : Good(Answered(q, cited))
  BY <1>1, <1>3, OnwardAnswered
<1>7. \A e \in Edits, cited \in BOOLEAN : e.do # "append" =>
        Good(Works(q, << Doc(e) >> \o Recorded(q, cited)))
  BY <1>1, <1>3, RecordedIs, OnwardWorks
<1>8. \A cited \in BOOLEAN : Good(Works(q, << Turn("model", "user"), Turn("model", "assistant") >>
                                          \o Recorded(q, cited)))
  BY <1>1, <1>3, RecordedIs, OnwardWorks
<1>9. "replies" \in Places /\ "launches" \in Places /\ "searches" \in Places /\ "asks_model" \in Places
      /\ "chats" \in Places /\ "works" \in Places
  BY DEF Places
<1>10. CASE Routes(r)
  <2>1. ASSUME NEW intent \in {"name", "fact"}
        PROVE  StatedEdit(intent) \in Edits /\ StatedEdit(intent).do # "append"
    BY DocumentsAssumption DEF StatedEdit, Edits, Names
  <2> HIDE DEF Good
  <2> QED
    BY <1>4, <1>5, <1>6, <1>7, <1>9, <1>10, <2>1 DEF Routes
<1>11. CASE Searches(r)
  BY <1>4, <1>6, <1>11 DEF Searches
<1>12. CASE AsksModel(r)
  <2>1. ASSUME NEW calls \in workload.calls
        PROVE  Append(calls, Finish) \in Seq(Ops) /\ Silent(Append(calls, Finish))
    <3>1. calls \in Seq(ToolCalls)
      BY DEF WInv, IInv
    <3>2. Append(calls, Finish) \in Seq(ToolCalls \cup {Finish})
      BY <3>1
    <3>3. \A op \in ToolCalls \cup {Finish} : op \in Ops /\ ~Records(op)
      BY DEF ToolCalls, Finish, Ops, Records
    <3> QED
      BY <3>2, <3>3 DEF Silent
  <2>2. \A calls \in workload.calls : Good(Works(q, Append(calls, Finish)))
    BY <1>1, <1>3, <2>1, OnwardWorks
  <2> HIDE DEF Good
  <2> QED
    BY <1>4, <1>5, <1>6, <1>9, <1>12, <2>2 DEF AsksModel
<1>13. CASE Chats(r)
  BY <1>4, <1>5, <1>6, <1>8, <1>9, <1>13 DEF Chats
<1>14. CASE HearsCrew(r)
  BY <1>4, <1>5, <1>6, <1>9, <1>14 DEF HearsCrew
<1>15. CASE Follows(r)
  <2> DEFINE p == [q EXCEPT !.ticks = @ + 1]
  <2>1. q.ticks < MaxTicks => Good(p)
    <3>1. /\ IsReq(p) /\ p.at = q.at /\ p.turn = q.turn /\ p.ask = q.ask /\ p.todo = q.todo
          /\ p.ticks = q.ticks + 1 /\ p.action = q.action
      BY <1>1 DEF Shape, IsReq, ReqFields
    <3> HIDE DEF p
    <3>2. OnTime(p, Copies, ring)
      BY <1>1, <3>1 DEF OnTime
    <3>3. q.ticks \in 0..MaxTicks /\ (q.ticks < MaxTicks => q.ticks + 1 \in 0..MaxTicks)
      BY <1>1 DEF Shape
    <3>4. q.ticks < MaxTicks => Shape(p, answer)
      BY <1>1, <3>1, <3>3 DEF Shape
    <3> QED
      BY <3>1, <3>2, <3>4 DEF Onward
  <2> HIDE DEF Good
  <2> QED
    BY <1>4, <1>5, <1>9, <1>15, <2>1 DEF Follows
<1> QED
  BY <1>10, <1>11, <1>12, <1>13, <1>14, <1>15
-----------------------------------------------------------------------------
(* The actions have their types *)

LEMMA PurgedIsTyped ==
  ASSUME IInv, ActionsTyped
  PROVE  /\ Purged \in Seq(Actions) /\ DOMAIN answer = 1..Len(answer) /\ Len(answer) \in Nat
         /\ answer \in Seq(Answers)
         /\ \A k \in DOMAIN Purged : Purged[k].id \in DOMAIN answer
<1>1. answer \in Seq(Answers) /\ pending \in Seq(Actions)
  BY DEF IInv, PendingOK, Consistent, ActionsTyped
<1>2. Purged \in Seq(Actions)
  <2>1. CASE Len(pending) > MaxPending
    <3>1. pending # <<>>
      BY <2>1
    <3> QED
      BY <1>1, <2>1, <3>1 DEF Purged
  <2>2. CASE ~(Len(pending) > MaxPending)
    BY <1>1, <2>2 DEF Purged
  <2> QED
    BY <2>1, <2>2
<1>3. \A k \in DOMAIN Purged : Purged[k].id \in DOMAIN answer
  BY PurgedIsConsistent DEF IInv, Consistent
<1> QED
  BY <1>1, <1>2, <1>3

LEMMA QueueIsTyped ==
  ASSUME IInv, ActionsTyped, NEW by \in Nat, NEW do \in FileTools, NEW path \in Paths,
         Queue(by, do, path)
  PROVE  /\ ActionsTyped'
         /\ Len(answer) + 1 \in 0..MaxActions /\ Len(answer) + 1 \in DOMAIN answer'
<1> DEFINE n == Len(answer) + 1
           new == [id |-> n, by |-> by, do |-> do, path |-> path]
           became == Became(Purged, 0, "waiting")
<1>1. /\ Purged \in Seq(Actions) /\ DOMAIN answer = 1..Len(answer) /\ Len(answer) \in Nat
      /\ answer \in Seq(Answers)
  BY PurgedIsTyped
<1>2. /\ n <= MaxActions /\ pending' = Append(Purged, new) /\ answer' = Append(became, "waiting")
      /\ UNCHANGED <<files, shown>>
  BY DEF Queue
<1>3. n \in 0..MaxActions /\ new \in Actions
  BY <1>1, <1>2 DEF Actions, FileTools
<1>4. became \in Seq(Answers) /\ DOMAIN became = DOMAIN answer
  BY BecameIs DEF IInv, Answers
<1>5. Len(became) = Len(answer)
  BY <1>1, <1>4
<1> HIDE DEF became, new
<1>6. Len(answer') = n /\ DOMAIN answer' = 1..n
  BY <1>2, <1>4, <1>5 DEF Answers
<1>7. pending' \in Seq(Actions)
  BY <1>1, <1>2, <1>3
<1> QED
  BY <1>1, <1>2, <1>3, <1>6, <1>7 DEF ActionsTyped

LEMMA PurgesIsTyped ==
  ASSUME IInv, ActionsTyped, Purges
  PROVE  ActionsTyped' /\ DOMAIN answer' = DOMAIN answer
<1>1. Purged \in Seq(Actions) /\ answer \in Seq(Answers)
  BY PurgedIsTyped
<1>2. /\ Became(Purged, 0, "waiting") \in Seq(Answers)
      /\ DOMAIN Became(Purged, 0, "waiting") = DOMAIN answer
  BY BecameIs DEF IInv, Answers
<1>3. pending' \in Seq(Actions) /\ answer' \in Seq(Answers) /\ DOMAIN answer' = DOMAIN answer
  BY <1>1, <1>2 DEF Purges
<1>4. Len(answer') = Len(answer)
  BY <1>1, <1>3
<1> QED
  BY <1>3, <1>4 DEF ActionsTyped, Purges

LEMMA TakeIsTyped ==
  ASSUME IInv, ActionsTyped, NEW id, NEW verdict \in Answers, Take(id, verdict)
  PROVE  ActionsTyped' /\ Waiting(id) \in Actions /\ Waiting(id).id \in DOMAIN answer'
<1>1. /\ Purged \in Seq(Actions) /\ answer \in Seq(Answers)
      /\ \A k \in DOMAIN Purged : Purged[k].id \in DOMAIN answer
  BY PurgedIsTyped
<1>2. /\ Became(Purged, id, verdict) \in Seq(Answers)
      /\ DOMAIN Became(Purged, id, verdict) = DOMAIN answer
  BY BecameIs DEF IInv
<1>3. answer' \in Seq(Answers) /\ DOMAIN answer' = DOMAIN answer /\ pending' = Without(id)
  BY <1>2 DEF Take
<1>4. Len(answer') = Len(answer)
  BY <1>1, <1>3
<1>5. PlaceOf(id) \in DOMAIN Purged
  BY DEF Take, Waits, PlaceOf
<1>6. Without(id) \in Seq(Actions)
  <2> DEFINE n == Len(Purged)
  <2>1. n \in Nat /\ PlaceOf(id) \in 1..n /\ n - 1 \in Nat
    BY <1>1, <1>5
  <2>2. ASSUME NEW k \in 1..(n - 1)
        PROVE  (IF k < PlaceOf(id) THEN Purged[k] ELSE Purged[k + 1]) \in Actions
    <3>1. k \in 1..n /\ k + 1 \in 1..n
      BY <2>1
    <3> QED
      BY <1>1, <3>1
  <2>3. Without(id) \in [1..(n - 1) -> Actions]
    BY <2>2 DEF Without
  <2> QED
    BY <2>1, <2>3
<1>7. Waiting(id) \in Actions /\ Waiting(id).id \in DOMAIN answer
  BY <1>1, <1>5 DEF Waiting
<1> QED
  BY <1>3, <1>4, <1>6, <1>7 DEF ActionsTyped, Take

LEMMA ExpireIsTyped ==
  ASSUME IInv, ActionsTyped, Expire
  PROVE  ActionsTyped'
<1>1. pending \in Seq(Actions) /\ answer \in Seq(Answers) /\ pending # <<>>
  BY PurgedIsTyped DEF ActionsTyped, Expire
<1>2. Tail(pending) \in Seq(Actions)
  BY <1>1
<1>3. /\ [answer EXCEPT ![Head(pending).id] = "expired"] \in Seq(Answers)
      /\ Len([answer EXCEPT ![Head(pending).id] = "expired"]) = Len(answer)
      /\ DOMAIN [answer EXCEPT ![Head(pending).id] = "expired"] = DOMAIN answer
  <2> DEFINE n == Len(answer)
             e == [answer EXCEPT ![Head(pending).id] = "expired"]
  <2>1. answer \in [1..n -> Answers] /\ n \in Nat
    BY <1>1
  <2>2. e \in [1..n -> Answers]
    BY <2>1 DEF Answers
  <2> HIDE DEF n, e
  <2>3. e \in Seq(Answers) /\ Len(e) = n /\ DOMAIN e = 1..n
    BY <2>1, <2>2
  <2> QED
    BY <2>1, <2>3 DEF e, n
<1> QED
  BY <1>2, <1>3 DEF ActionsTyped, Expire

LEMMA ApprovalsCrashIsTyped ==
  ASSUME IInv, ActionsTyped, ApprovalsCrash
  PROVE  ActionsTyped'
<1>1. answer \in Seq(Answers)
  BY PurgedIsTyped
<1>2. /\ Became(<<>>, 0, "waiting") \in Seq(Answers)
      /\ DOMAIN Became(<<>>, 0, "waiting") = DOMAIN answer
  BY BecameIs DEF IInv, Answers
<1>3. Len(Became(<<>>, 0, "waiting")) = Len(answer) /\ <<>> \in Seq(Actions)
  BY <1>1, <1>2
<1> QED
  BY <1>2, <1>3 DEF ActionsTyped, ApprovalsCrash

LEMMA PerformsIsTyped ==
  ASSUME ActionsTyped, NEW do, NEW path, NEW whose \in {"user", "agent"},
         Performs(do, path, whose)
  PROVE  ActionsTyped'
<1>1. files' = [files EXCEPT ![path] = IF do = "write" THEN whose ELSE "none"]
  BY DEF Performs
<1>2. (IF do = "write" THEN whose ELSE "none") \in {"none", "user", "agent"}
  OBVIOUS
<1>3. files' \in [Paths -> {"none", "user", "agent"}]
  BY <1>1, <1>2 DEF ActionsTyped
<1> QED
  BY <1>3 DEF ActionsTyped, Performs
-----------------------------------------------------------------------------
(* The steps on the pending actions and the workspace *)

LEMMA OnApprovalsGoesOn ==
  ASSUME WInv, NEW r \in Requests, Writes(r) \/ Lists(r) \/ Takes(r) \/ Acts(r) \/ Replies(r)
  PROVE  GoesOn(r) /\ ActionsTyped'
<1> DEFINE q == req[r]
<1>1. /\ Shape(q, answer) /\ OnTime(q, Copies, ring)
      /\ q.at \notin {"idle", "replies", "works"} => Silent(q.todo) /\ Fresh(q.turn, Copies, ring)
  BY RequestIs
<1>2. q.at \in {"writes", "lists", "takes", "acts", "replies"} /\ q.at # "idle"
  BY DEF Writes, Lists, Takes, Acts, Replies
<1>3. IInv /\ ActionsTyped /\ AnswersStay
  BY OnApprovalsKeeps DEF WInv
<1>4. Shape(q, answer')
  BY <1>3, ShapeStays DEF WInv
<1>5. \A p : Onward(q, p, answer', Copies, ring) /\ Becomes(r, p) => GoesOn(r)
  BY <1>2 DEF GoesOn
<1>6. "replies" \in Places /\ "takes" \in Places /\ "acts" \in Places /\ "works" \in Places
  BY DEF Places
<1>7. CASE Writes(r)
  <2>1. q.todo # <<>> /\ q.at = "writes"
    BY <1>1, <1>7 DEF Shape, Writes
  <2>2. /\ Tail(q.todo) \in Seq(Ops) /\ Silent(Tail(q.todo)) /\ Fresh(q.turn, Copies, ring)
    BY <1>1, <2>1, TailIsSilent DEF Shape
  <2>3. [q EXCEPT !.at = "works", !.todo = Tail(@)] = Works(q, Tail(q.todo))
    BY DEF Works
  <2>4. Onward(q, Works(q, Tail(q.todo)), answer', Copies, ring)
    BY <1>4, <2>2, OnwardWorks
  <2>5. ActionsTyped'
    BY <1>3, <1>7, PerformsIsTyped DEF Writes
  <2> QED
    BY <1>5, <1>7, <2>3, <2>4, <2>5 DEF Writes
<1>8. ASSUME q.at # "writes", NEW a \in Actions, a.id \in {0} \cup DOMAIN answer'
      PROVE  /\ Onward(q, [q EXCEPT !.at = "replies"], answer', Copies, ring)
             /\ Onward(q, [q EXCEPT !.at = "replies", !.action = a], answer', Copies, ring)
             /\ q.at # "replies" =>
                  /\ Onward(q, [q EXCEPT !.at = "takes", !.action = a], answer', Copies, ring)
                  /\ Onward(q, [q EXCEPT !.at = "acts", !.action = a], answer', Copies, ring)
  <2>1. /\ Onward(q, [q EXCEPT !.at = "replies"], answer', Copies, ring)
        /\ Onward(q, [q EXCEPT !.at = "replies", !.action = a], answer', Copies, ring)
    BY <1>4, <1>6, <1>8, OnwardAt
  <2>2. ASSUME q.at # "replies"
        PROVE  /\ Onward(q, [q EXCEPT !.at = "takes", !.action = a], answer', Copies, ring)
               /\ Onward(q, [q EXCEPT !.at = "acts", !.action = a], answer', Copies, ring)
    <3>1. Silent(q.todo) /\ Fresh(q.turn, Copies, ring)
      BY <1>1, <1>2, <2>2
    <3> QED
      BY <1>4, <1>6, <1>8, <3>1, OnwardAt
  <2> QED
    BY <2>1, <2>2
<1>9. CASE Lists(r)
  <2>1. q.at = "lists" /\ ActionsTyped' /\ DOMAIN answer' = DOMAIN answer
    BY <1>3, <1>9, PurgesIsTyped DEF Lists
  <2>2. CASE Newest = {}
    BY <1>5, <1>8, <1>9, <2>1, <2>2, NoActionIs DEF Lists, Goes
  <2>3. ASSUME NEW a \in Newest, Becomes(r, [q EXCEPT !.at = "takes", !.action.id = a.id])
        PROVE  GoesOn(r)
    <3>1. PICK k \in DOMAIN Purged : a = Purged[k]
      BY DEF Newest, Range
    <3>2. a \in Actions /\ a.id \in DOMAIN answer
      BY <1>3, <3>1, PurgedIsTyped
    <3>3. q.action \in Actions
      BY <1>1 DEF Shape
    <3> DEFINE b == [q.action EXCEPT !.id = a.id]
    <3>4. b \in Actions /\ b.id = a.id
      BY <3>2, <3>3 DEF Actions
    <3>5. [q EXCEPT !.at = "takes", !.action.id = a.id] = [q EXCEPT !.at = "takes", !.action = b]
      BY <1>1 DEF Shape, IsReq, ReqFields
    <3> HIDE DEF b
    <3> QED
      BY <1>5, <1>8, <2>1, <2>3, <3>2, <3>4, <3>5
  <2> QED
    BY <1>9, <2>1, <2>2, <2>3 DEF Lists
<1>10. CASE Takes(r)
  <2> DEFINE id == q.action.id
             verdict == IF Approves(q.ask) THEN "approved" ELSE "rejected"
  <2>1. q.at = "takes"
    BY <1>10 DEF Takes
  <2>2. CASE Take(id, verdict)
    <3>1. /\ ActionsTyped' /\ Waiting(id) \in Actions /\ Waiting(id).id \in DOMAIN answer'
      BY <1>3, <2>2, TakeIsTyped DEF Answers
    <3>2. \/ Becomes(r, [q EXCEPT !.at = "acts", !.action = Waiting(id)])
          \/ Becomes(r, [q EXCEPT !.at = "replies", !.action = NoAction])
      BY <1>10 DEF Takes
    <3> QED
      BY <1>5, <1>8, <2>1, <3>1, <3>2, NoActionIs
  <2>3. CASE Purges /\ Becomes(r, [q EXCEPT !.at = "replies", !.action = NoAction])
    BY <1>3, <1>5, <1>8, <2>1, <2>3, NoActionIs, PurgesIsTyped
  <2> QED
    BY <1>10, <2>2, <2>3 DEF Takes
<1>11. CASE Acts(r)
  <2>1. ActionsTyped'
    BY <1>3, <1>11, PerformsIsTyped DEF Acts
  <2>2. q.at = "acts"
    BY <1>11 DEF Acts
  <2> QED
    BY <1>5, <1>8, <1>11, <2>1, <2>2, NoActionIs DEF Acts
<1>12. CASE Replies(r)
  <2>1. ActionsTyped'
    BY <1>1, <1>3, <1>12 DEF Replies, Shows, ActionsTyped, Shape
  <2>2. Onward(q, Idle, answer', Copies, ring)
    BY IdleIs DEF Onward, OnTime
  <2> QED
    BY <1>5, <1>12, <2>1, <2>2 DEF Replies
<1> QED
  BY <1>7, <1>9, <1>10, <1>11, <1>12
-----------------------------------------------------------------------------
(* The next thing to do *)

LEMMA NextIs ==
  ASSUME WInv, NEW r \in Requests, DoesNext(r), req[r].todo # <<>>
  PROVE  LET q == req[r]
         IN  /\ q.at = "works" /\ Shape(q, answer) /\ IsReq(q)
             /\ q.todo \in Seq(Ops) /\ Head(q.todo) \in Ops /\ Tail(q.todo) \in Seq(Ops)
             /\ \/ /\ Silent(q.todo) /\ Fresh(q.turn, Copies, ring)
                   /\ Silent(Tail(q.todo)) /\ ~Records(Head(q.todo))
                \/ /\ Recording(q.todo, q.turn, Copies, ring)
                   /\ Recs(Tail(q.todo), q.turn, Copies, ring)
                   /\ Head(q.todo).op \in {"doc", "turn"}
<1> DEFINE q == req[r]
<1>1. Shape(q, answer) /\ OnTime(q, Copies, ring) /\ q.at = "works"
  BY RequestIs DEF DoesNext
<1>2. q.todo \in Seq(Ops) /\ q.todo # <<>> /\ IsReq(q)
  BY <1>1 DEF Shape
<1>3. Head(q.todo) \in Ops /\ Tail(q.todo) \in Seq(Ops) /\ Head(q.todo) = q.todo[1] /\ 1 \in DOMAIN q.todo
  BY <1>2
<1>4. CASE Silent(q.todo) /\ Fresh(q.turn, Copies, ring)
  BY <1>1, <1>2, <1>3, <1>4, TailIsSilent DEF Silent
<1>5. CASE Recording(q.todo, q.turn, Copies, ring)
  <2>1. Recording(Tail(q.todo), q.turn, Copies, ring)
    BY <1>2, <1>5, TailIsRecording
  <2>2. Head(q.todo).op \in {"doc", "turn"}
    BY <1>3, <1>5 DEF Recording
  <2> QED
    BY <1>1, <1>2, <1>3, <1>5, <2>1, <2>2 DEF Recs
<1> QED
  BY <1>1, <1>4, <1>5 DEF OnTime

\* A call of a tool, the end of a round, and the end of the work.
LEMMA CallsGoOn ==
  ASSUME WInv, NEW r \in Requests, DoesNext(r), AnswersStay,
         req[r].todo = <<>> \/ Head(req[r].todo).op \in {"call", "finish"}
  PROVE  GoesOn(r) /\ ActionsTyped' /\ UNCHANGED <<docVars, ring, arrivals>>
<1> DEFINE q == req[r]
           next == Head(q.todo)
           tail == Tail(q.todo)
           rest == [q EXCEPT !.todo = Tail(@)]
           Good(p) == Onward(q, p, answer', Copies, ring)
<1>1. Shape(q, answer) /\ DOMAIN ring = Sessions \cup {"model"} /\ q.at = "works" /\ IsReq(q)
  BY RequestIs DEF DoesNext, Shape
<1>2. Shape(q, answer') /\ IInv /\ ActionsTyped /\ MaxActions \in Nat
  BY ShapeStays, ApprovalsAssumption DEF WInv
<1>3. \A p : Good(p) /\ Becomes(r, p) => GoesOn(r)
  BY <1>1 DEF GoesOn
<1>4. {"replies", "writes", "launches"} \subseteq Places
  BY DEF Places
<1>5. Goes(r, "replies") => GoesOn(r)
  <2>1. Good([q EXCEPT !.at = "replies"])
    BY <1>2, <1>4, OnwardAt
  <2> HIDE DEF Good
  <2> QED
    BY <1>3, <2>1 DEF Goes
<1>6. UNCHANGED <<files, pending, answer, shown>> => ActionsTyped'
  BY <1>2 DEF ActionsTyped
<1>7. CASE q.todo = <<>>
  <2>1. Only(Goes(r, "replies"))
    BY <1>7 DEF DoesNext
  <2> QED
    BY <1>5, <1>6, <2>1 DEF Only, approvalVars
<1>8. CASE q.todo # <<>> /\ next.op \in {"call", "finish"}
  <2>1. /\ Silent(q.todo) /\ Fresh(q.turn, Copies, ring) /\ Silent(tail) /\ tail \in Seq(Ops)
        /\ next \in Ops
    BY <1>8, NextIs
  <2>2. rest = [q EXCEPT !.todo = tail]
    OBVIOUS
  <2>3. ASSUME NEW todo \in Seq(Ops), Silent(todo), NEW a \in Actions, a.id \in {0} \cup DOMAIN answer'
        PROVE  /\ Good([q EXCEPT !.todo = todo])
               /\ Good([[q EXCEPT !.todo = todo] EXCEPT !.action = a])
    <3> HIDE DEF q
    <3> QED
      BY <1>1, <1>2, <2>1, <2>3, OnwardLeft
  <2>4. q.action \in Actions /\ q.action.id \in {0} \cup DOMAIN answer' /\ q.turn \in Nat
    BY <1>2 DEF Shape
  <2>5. Good(rest)
    BY <2>1, <2>2, <2>3, <2>4
  <2>6. CASE next.op = "finish"
    <3>1. \A cited \in BOOLEAN : Good(Answered(q, cited))
      BY <1>1, <1>2, <2>1, OnwardAnswered
    <3>2. \/ Only(Goes(r, "replies"))
          \/ Only(\E cited \in BOOLEAN : Becomes(r, Answered(q, cited)))
      BY <1>8, <2>6 DEF DoesNext
    <3> HIDE DEF Good
    <3> QED
      BY <1>3, <1>5, <1>6, <3>1, <3>2 DEF Only, approvalVars
  <2>7. CASE next.op = "call"
    <3>1. next.tool \in FileTools \cup {"remember", "research", "look"} /\ next.path \in Paths
      BY <2>1, <2>7 DEF Ops, ToolCalls, Finish
    <3>2. \/ next.tool \in FileTools /\ OnApprovals(CallsFile(r, next))
          \/ Only(Calls(r, next))
      BY <1>8, <2>7 DEF DoesNext
    <3>3. CASE next.tool \in FileTools /\ OnApprovals(CallsFile(r, next))
      <4>1. CASE /\ Queue(q.turn, next.tool, next.path)
                 /\ Becomes(r, [rest EXCEPT !.action = Held(rest)])
        <5>1. /\ ActionsTyped'
              /\ Len(answer) + 1 \in 0..MaxActions /\ Len(answer) + 1 \in DOMAIN answer'
          BY <1>2, <2>4, <3>1, <3>3, <4>1, QueueIsTyped
        <5>2. rest.action = q.action
          BY <1>1 DEF IsReq, ReqFields
        <5>3. [NoAction EXCEPT !.id = Len(answer) + 1] \in Actions
              /\ [NoAction EXCEPT !.id = Len(answer) + 1].id = Len(answer) + 1
          BY <5>1 DEF NoAction, Actions
        <5>4. Held(rest) \in Actions /\ Held(rest).id \in {0} \cup DOMAIN answer'
          <6> HIDE DEF rest
          <6> QED
            BY <2>4, <5>1, <5>2, <5>3 DEF Held
        <5>5. Good([rest EXCEPT !.action = Held(rest)])
          <6>1. PICK a \in Actions : a = Held(rest) /\ a.id \in {0} \cup DOMAIN answer'
            BY <5>4
          <6>2. Good([[q EXCEPT !.todo = tail] EXCEPT !.action = a])
            <7> HIDE DEF Good, q, tail
            <7> QED
              BY <2>1, <2>3, <6>1
          <6> QED
            BY <2>2, <6>1, <6>2
        <5> QED
          BY <1>3, <3>3, <4>1, <5>1, <5>5 DEF OnApprovals
      <4>2. CASE Becomes(r, [q EXCEPT !.at = "writes"]) /\ UNCHANGED approvalVars
        <5> DEFINE p == [q EXCEPT !.at = "writes"]
        <5>1. /\ IsReq(p) /\ p.at = "writes" /\ p.turn = q.turn /\ p.ask = q.ask /\ p.todo = q.todo
              /\ p.ticks = q.ticks /\ p.action = q.action
          BY <1>1 DEF IsReq, ReqFields
        <5> HIDE DEF p
        <5>2. Shape(p, answer') /\ OnTime(p, Copies, ring)
          BY <1>2, <1>4, <1>8, <2>1, <5>1 DEF Shape, OnTime
        <5>3. Good(p)
          BY <5>1, <5>2 DEF Onward
        <5> QED
          BY <1>3, <1>6, <3>3, <4>2, <5>3 DEF OnApprovals, approvalVars, p
      <4> QED
        BY <3>3, <4>1, <4>2 DEF OnApprovals, CallsFile
    <3>4. CASE Only(Calls(r, next))
      <4>1. CASE Becomes(r, [rest EXCEPT !.todo = << Doc(StatedEdit("fact")) >> \o @])
        <5> DEFINE e == StatedEdit("fact")
                   todo == << Doc(e) >> \o tail
        <5>1. e \in Edits /\ e.do # "append"
          BY DocumentsAssumption DEF StatedEdit, Edits
        <5>2. Doc(e) \in Ops /\ ~Records(Doc(e))
          BY <5>1, DocIs
        <5> HIDE DEF e
        <5>3. todo \in Seq(Ops) /\ \A k \in DOMAIN todo : todo[k] = Doc(e) \/ \E x \in DOMAIN tail : todo[k] = tail[x]
          <6>1. << Doc(e) >> \in Seq(Ops) /\ \A k \in DOMAIN << Doc(e) >> : << Doc(e) >>[k] = Doc(e)
            BY <5>2
          <6> HIDE DEF tail
          <6> QED
            BY <2>1, <6>1, CatAt
        <5>4. Silent(todo)
          BY <2>1, <5>2, <5>3 DEF Silent
        <5>5. [rest EXCEPT !.todo = << Doc(e) >> \o @] = [q EXCEPT !.todo = todo]
          BY <1>1 DEF IsReq, ReqFields
        <5>6. Good([q EXCEPT !.todo = todo])
          <6> HIDE DEF todo, Good, q
          <6> QED
            BY <2>3, <2>4, <5>3, <5>4
        <5> QED
          BY <1>3, <1>6, <3>4, <4>1, <5>5, <5>6 DEF Only, approvalVars, e
      <4>2. CASE Becomes(r, [rest EXCEPT !.at = "launches"])
        <5> DEFINE p == [rest EXCEPT !.at = "launches"]
        <5>1. /\ IsReq(p) /\ p.at = "launches" /\ p.turn = q.turn /\ p.ask = q.ask /\ p.todo = tail
              /\ p.ticks = q.ticks /\ p.action = q.action
          BY <1>1 DEF IsReq, ReqFields
        <5> HIDE DEF p
        <5>2. Shape(p, answer') /\ OnTime(p, Copies, ring)
          BY <1>2, <1>4, <2>1, <5>1 DEF Shape, OnTime
        <5>3. Good(p)
          BY <5>1, <5>2 DEF Onward
        <5> QED
          BY <1>3, <1>6, <3>4, <4>2, <5>3 DEF Only, approvalVars, p
      <4>3. CASE Becomes(r, rest)
        BY <1>3, <1>6, <2>5, <3>4, <4>3 DEF Only, approvalVars
      <4> QED
        BY <3>4, <4>1, <4>2, <4>3 DEF Only, Calls
    <3> QED
      BY <3>2, <3>3, <3>4
  <2> QED
    BY <1>8, <2>6, <2>7
<1> QED
  BY <1>7, <1>8
-----------------------------------------------------------------------------
(* The stores of turns, step by step *)

LEMMA RecordingGoesOn ==
  ASSUME NEW todo, NEW t, NEW C, NEW R, NEW C2, NEW R2, Recording(todo, t, C, R),
         \A k \in DOMAIN todo : Records(todo[k]) /\ RoleOf(todo[k]) = "user" /\ Clean(todo[k], t, C, R)
                                  => Clean(todo[k], t, C2, R2)
  PROVE  Recording(todo, t, C2, R2)
BY DEF Recording

\* One turn more is recorded, of the request that goes on.
LEMMA OneMore ==
  ASSUME WInv, AnswersStay, NEW r \in Requests, req[r].at # "idle", NEW p, Becomes(r, p),
         Shape(p, answer'), p.turn = req[r].turn, UNCHANGED arrivals, RingsOK',
         \A m \in Copies' : Sane(m, arrivals), OnTime(p, Copies', ring'),
         \A t \in Nat \ {req[r].turn} :
           /\ (\A m \in Copies : NoAnswer(m, t)) => \A m \in Copies' : NoAnswer(m, t)
           /\ \A s \in DOMAIN ring : NoAnswer(ring[s], t) => NoAnswer(ring'[s], t)
  PROVE  RequestsOK' /\ StoresOK'
<1>1. req'[r] = p /\ \A o \in Requests \ {r} : req'[o] = req[o]
  BY DEF Becomes, WInv, IInv, Reqs
<1>2. RequestsOK'
  <2>1. \A o \in Requests : Shape(req'[o], answer')
    BY <1>1, ShapeStays DEF WInv
  <2>2. (\A o \in Requests : Shape(req[o], answer))'
    BY <2>1 DEF Shape, IsReq
  <2>3. \A o \in Requests : req'[o].at # "idle" => req[o].at # "idle" /\ req'[o].turn = req[o].turn
    BY <1>1
  <2> QED
    BY <2>2, <2>3 DEF WInv, RequestsOK
<1>3. ASSUME NEW o \in Requests PROVE OnTime(req'[o], Copies', ring')
  <2>1. CASE o = r
    BY <1>1, <2>1
  <2>2. CASE o # r /\ req[o].at = "idle"
    BY <1>1, <2>2 DEF OnTime
  <2>3. CASE o # r /\ req[o].at # "idle"
    <3>1. Shape(req[o], answer) /\ OnTime(req[o], Copies, ring) /\ DOMAIN ring = Sessions \cup {"model"}
      BY RequestIs
    <3>2. req[o].turn \in Nat \ {req[r].turn}
      BY <2>3, <3>1 DEF WInv, RequestsOK, Shape
    <3>3. DOMAIN ring' = DOMAIN ring
      BY <3>1 DEF RingsOK
    <3> QED
      BY <1>1, <2>3, <3>1, <3>2, <3>3, StaysOnTime
  <2> QED
    BY <2>1, <2>2, <2>3
<1>4. (\A o \in Requests : OnTime(req[o], Copies, ring))'
  BY <1>3
<1>5. (\A m \in Copies : Sane(m, arrivals))'
  BY DEF Sane
<1> QED
  BY <1>2, <1>4, <1>5 DEF StoresOK

\* What is left to do is of the same shape.
LEMMA RestIs ==
  ASSUME WInv, AnswersStay, NEW r \in Requests, DoesNext(r), req[r].todo # <<>>
  PROVE  LET p == [req[r] EXCEPT !.todo = Tail(@)]
         IN  /\ Shape(p, answer') /\ p.at = "works" /\ p.turn = req[r].turn
             /\ p.todo = Tail(req[r].todo) /\ req[r].turn \in 1..arrivals
<1> DEFINE q == req[r]
           p == [q EXCEPT !.todo = Tail(@)]
<1>1. q.at = "works" /\ IsReq(q) /\ Tail(q.todo) \in Seq(Ops)
  BY NextIs
<1>2. Shape(q, answer')
  BY ShapeStays DEF WInv
<1>3. /\ IsReq(p) /\ p.at = "works" /\ p.turn = q.turn /\ p.ask = q.ask /\ p.todo = Tail(q.todo)
      /\ p.ticks = q.ticks /\ p.action = q.action
  BY <1>1 DEF IsReq, ReqFields
<1> HIDE DEF p
<1>4. Shape(p, answer')
  BY <1>1, <1>2, <1>3 DEF Shape
<1>5. q.turn \in 1..arrivals
  BY <1>1 DEF WInv, RequestsOK
<1> QED
  BY <1>3, <1>4, <1>5 DEF p

\* A document is taken in hand, the memory with one entry more.
LEMMA DocGoesOn ==
  ASSUME WInv, AnswersStay, NEW r \in Requests, DoesNext(r), req[r].todo # <<>>,
         Head(req[r].todo).op = "doc"
  PROVE  RequestsOK' /\ StoresOK' /\ ActionsTyped' /\ DocsOK'
<1> DEFINE q == req[r]
           op == Head(q.todo)
           e == op.edit
           tail == Tail(q.todo)
           t == q.turn
           p == [q EXCEPT !.todo = Tail(@)]
<1>1. /\ Load(r, e) /\ Becomes(r, p)
      /\ UNCHANGED <<approvalVars, crewVars, workload, arrivals, crashes, ring>>
  BY DEF DoesNext, OnDocs
<1>2. /\ Shape(p, answer') /\ p.at = "works" /\ p.turn = t /\ p.todo = tail /\ t \in 1..arrivals
  BY RestIs
<1>3. /\ q.at = "works" /\ q.todo \in Seq(Ops) /\ op \in Ops
      /\ \/ /\ Silent(q.todo) /\ Fresh(t, Copies, ring) /\ Silent(tail) /\ ~Records(op)
         \/ Recording(q.todo, t, Copies, ring) /\ Recs(tail, t, Copies, ring)
  BY NextIs
<1>4. e \in Edits /\ (Records(op) <=> e.do = "append")
  BY <1>3 DEF Ops, ToolCalls, Finish, Records
<1>5. /\ DocsOK /\ RingsOK /\ RingsOK' /\ arrivals \in Nat /\ DOMAIN ring = Sessions \cup {"model"}
      /\ \A m \in Copies : Sane(m, arrivals)
  BY <1>1 DEF WInv, StoresOK, RingsOK, RequestsOK, Sane
<1>6. DocsOK' /\ ActionsTyped'
  BY <1>1, <1>4, <1>5, LoadKeeps DEF WInv, ActionsTyped, approvalVars
<1> HIDE DEF p, e, t, tail
<1>7. CASE e.do # "append"
  <2>1. CopiesStay
    BY <1>1, <1>4, <1>5, <1>7, LoadCopies
  <2>2. \A n : (\A m \in Copies : NoAnswer(m, n)) => \A m \in Copies' : NoAnswer(m, n)
    BY <1>5, <2>1, EmptyIsSane DEF CopiesStay
  <2>3. \A m \in Copies' : Sane(m, arrivals)
    BY <1>5, <2>1, EmptyIsSane DEF CopiesStay
  <2>4. OnTime(p, Copies, ring)
    BY <1>2, <1>3 DEF OnTime, Recs
  <2>5. OnTime(p, Copies', ring')
    <3>1. OnTime(p, Copies', ring)
      BY <1>2, <1>5, <2>2, <2>4, StaysOnTime
    <3> QED
      BY <1>1, <3>1
  <2>6. \A n \in Nat \ {q.turn} :
           /\ (\A m \in Copies : NoAnswer(m, n)) => \A m \in Copies' : NoAnswer(m, n)
           /\ \A s \in DOMAIN ring : NoAnswer(ring[s], n) => NoAnswer(ring'[s], n)
    BY <1>1, <2>2
  <2> QED
    BY <1>1, <1>2, <1>3, <1>5, <1>6, <2>3, <2>5, <2>6, OneMore DEF t
<1>8. CASE e.do = "append"
  <2> DEFINE new == Appended(e)
  <2>1. Copies' \subseteq Copies \cup {new}
    BY <1>1, <1>4, <1>5, <1>8, LoadCopies
  <2>2. Recording(q.todo, t, Copies, ring) /\ Recs(tail, t, Copies, ring) /\ Records(op)
    BY <1>3, <1>4, <1>8
  <2>3. op = q.todo[1] /\ 1 \in DOMAIN q.todo
    BY <1>3
  <2>4. e.by = t /\ (e.role = "user" => \A m \in Copies : NoAnswer(m, t))
    BY <2>2, <2>3 DEF Recording, RoleOf, Clean, e
  <2>5. e.role \in Roles /\ Entry(e) \in Turnings(arrivals) /\ Entry(e).by = t /\ Entry(e).role = e.role
    BY <1>2, <1>4, <1>5, <1>8, <2>4 DEF Edits, Entry, Turnings
  <2>6. Stored("memory") \in Copies
    BY DEF Copies
  <2>7. MaxEntries \in Nat
    BY DocumentsAssumption
  <2>8. /\ Sane(new, arrivals)
        /\ \A n : NoAnswer(Stored("memory"), n) /\ (n = t => e.role = "user") => NoAnswer(new, n)
    <3> DEFINE grown == Append(Stored("memory"), Entry(e))
    <3>1. /\ Sane(grown, arrivals)
          /\ \A n : NoAnswer(Stored("memory"), n) /\ (t = n => e.role = "user") => NoAnswer(grown, n)
      BY <1>5, <2>4, <2>5, <2>6, AppendIsSane
    <3> HIDE DEF grown
    <3>2. /\ Sane(LastOf(grown, MaxEntries), arrivals)
          /\ \A n : NoAnswer(grown, n) => NoAnswer(LastOf(grown, MaxEntries), n)
      BY <1>5, <2>7, <3>1, LastOfIsSane
    <3> QED
      BY <3>1, <3>2 DEF Appended, grown
  <2> HIDE DEF new
  <2>9. \A n : (n = t => e.role = "user") /\ (\A m \in Copies : NoAnswer(m, n))
                 => \A m \in Copies' : NoAnswer(m, n)
    BY <2>1, <2>6, <2>8
  <2>10. \A m \in Copies' : Sane(m, arrivals)
    BY <1>5, <2>1, <2>8
  <2>11. OnTime(p, Copies', ring)
    <3>1. CASE e.role = "user"
      <4>1. OnTime(p, Copies, ring)
        BY <1>2, <2>2 DEF OnTime, Recs
      <4> QED
        BY <1>2, <1>5, <2>9, <3>1, <4>1, StaysOnTime
    <3>2. CASE e.role # "user"
      <4>1. RoleOf(op) # "user" /\ op.op = "doc"
        BY <3>2 DEF RoleOf, e
      <4>2. \A k \in DOMAIN tail : Records(tail[k]) /\ SameStore(op, tail[k]) => RoleOf(tail[k]) # "user"
        BY <1>3, <2>2, <4>1, TailIsRecording DEF tail
      <4>3. \A k \in DOMAIN tail : tail[k].op \in {"doc", "turn"}
        BY <2>2 DEF Recs, Recording
      <4>4. \A k \in DOMAIN tail : Records(tail[k]) /\ RoleOf(tail[k]) = "user" => tail[k].op = "turn"
        BY <4>1, <4>2, <4>3 DEF SameStore
      <4>5. \A k \in DOMAIN tail : tail[k].op = "turn" /\ Clean(tail[k], t, Copies, ring)
                                     => Clean(tail[k], t, Copies', ring)
        BY DEF Clean
      <4>6. Recording(tail, t, Copies', ring)
        BY <2>2, <4>4, <4>5, RecordingGoesOn DEF Recs
      <4> QED
        BY <1>2, <4>6 DEF OnTime
    <3> QED
      BY <3>1, <3>2
  <2>12. \A n \in Nat \ {q.turn} :
           /\ (\A m \in Copies : NoAnswer(m, n)) => \A m \in Copies' : NoAnswer(m, n)
           /\ \A s \in DOMAIN ring : NoAnswer(ring[s], n) => NoAnswer(ring'[s], n)
    BY <1>1, <2>9 DEF t
  <2>13. OnTime(p, Copies', ring')
    BY <1>1, <2>11
  <2> QED
    BY <1>1, <1>2, <1>3, <1>5, <1>6, <2>10, <2>12, <2>13, OneMore DEF t
<1> QED
  BY <1>7, <1>8

LEMMA TailIsLast ==
  ASSUME NEW S, NEW s \in Seq(S), s # <<>>
  PROVE  Len(s) \in Nat /\ Tail(s) = SubSeq(s, Len(s) - (Len(s) - 1) + 1, Len(s))
<1>1. Len(s) \in Nat \ {0} /\ Len(s) - (Len(s) - 1) + 1 = 2
  OBVIOUS
<1>2. Tail(s) = SubSeq(s, 2, Len(s))
  OBVIOUS
<1> QED
  BY <1>1, <1>2

\* A turn is added to a ring, whose oldest makes room.
LEMMA TurnGoesOn ==
  ASSUME WInv, AnswersStay, NEW r \in Requests, DoesNext(r), req[r].todo # <<>>,
         Head(req[r].todo).op = "turn"
  PROVE  RequestsOK' /\ StoresOK' /\ ActionsTyped' /\ DocsOK'
<1> DEFINE q == req[r]
           op == Head(q.todo)
           tail == Tail(q.todo)
           t == q.turn
           to == op.to
           e == [by |-> t, role |-> op.role]
           new == Rung(to, q, op.role)
           p == [q EXCEPT !.todo = Tail(@)]
<1>1. /\ ring' = [ring EXCEPT ![to] = new] /\ Becomes(r, p)
      /\ UNCHANGED <<docVars, approvalVars, crewVars, workload, arrivals, crashes>>
  BY DEF DoesNext
<1>2. /\ Shape(p, answer') /\ p.at = "works" /\ p.turn = t /\ p.todo = tail /\ t \in 1..arrivals
  BY RestIs
<1>3. /\ q.at = "works" /\ q.todo \in Seq(Ops) /\ op \in Ops /\ Records(op)
      /\ Recording(q.todo, t, Copies, ring) /\ Recs(tail, t, Copies, ring)
  BY NextIs DEF Records
<1>4. to \in Sessions \cup {"model"} /\ op.role \in Roles
  BY <1>3 DEF Ops, ToolCalls, Finish
<1>5. /\ arrivals \in Nat /\ RingsOK /\ DOMAIN ring = Sessions \cup {"model"}
      /\ Sane(ring[to], arrivals) /\ Len(ring[to]) <= MaxTurns /\ MaxTurns \in Nat
      /\ \A m \in Copies : Sane(m, arrivals)
  BY <1>4, AgentAssumption DEF WInv, StoresOK, RingsOK, RequestsOK
<1>6. DocsOK' /\ ActionsTyped'
  BY <1>1, DocsStay DEF WInv, ActionsTyped, approvalVars
<1>7. op = q.todo[1] /\ 1 \in DOMAIN q.todo
  BY <1>3
<1>8. op.role = "user" => NoAnswer(ring[to], t)
  BY <1>3, <1>7 DEF Recording, RoleOf, Clean
<1>9. e \in Turnings(arrivals) /\ e.by = t /\ e.role = op.role
  BY <1>2, <1>4, <1>5 DEF Turnings
<1>10. Copies' = Copies
  BY <1>1 DEF docVars, Copies, Holds, Stored
<1> HIDE DEF p, t, tail, e, to
<1>11. /\ Sane(new, arrivals) /\ Len(new) <= MaxTurns
       /\ \A n : NoAnswer(ring[to], n) /\ (n = t => op.role = "user") => NoAnswer(new, n)
  <2> DEFINE grown == Append(ring[to], e)
             last == LastOf(grown, Len(grown) - 1)
  <2>1. /\ Sane(grown, arrivals)
        /\ \A n : NoAnswer(ring[to], n) /\ (n = t => op.role = "user") => NoAnswer(grown, n)
    BY <1>5, <1>8, <1>9, AppendIsSane
  <2>2. Len(grown) = Len(ring[to]) + 1 /\ Len(ring[to]) \in Nat /\ grown \in Seq(Turnings(arrivals))
        /\ grown # <<>>
    <3>1. ring[to] \in Seq(Turnings(arrivals))
      BY <1>5 DEF Sane
    <3>2. Len(grown) = Len(ring[to]) + 1 /\ Len(ring[to]) \in Nat /\ grown \in Seq(Turnings(arrivals))
      BY <1>9, <3>1
    <3> HIDE DEF grown
    <3>3. Len(grown) # 0
      BY <3>2
    <3> QED
      BY <3>2, <3>3
  <2>3. new = IF Len(grown) > MaxTurns THEN Tail(grown) ELSE grown
    BY DEF Rung, e, t
  <2> HIDE DEF grown
  <2>4. Tail(grown) = last /\ Len(grown) - 1 \in Nat
    <3>1. Tail(grown) = SubSeq(grown, Len(grown) - (Len(grown) - 1) + 1, Len(grown))
      BY <2>2, TailIsLast
    <3>2. Len(grown) > Len(grown) - 1 /\ Len(grown) - 1 \in Nat
      BY <2>2
    <3> QED
      BY <3>1, <3>2 DEF LastOf
  <2>5. /\ Sane(last, arrivals) /\ Len(last) <= Len(grown) - 1
        /\ \A n : NoAnswer(grown, n) => NoAnswer(last, n)
    BY <1>5, <2>1, <2>4, LastOfIsSane
  <2> HIDE DEF last
  <2>6. Len(last) \in Nat /\ Len(grown) \in Nat
    BY <2>2, <2>5 DEF Sane
  <2> HIDE DEF new
  <2>7. CASE Len(grown) > MaxTurns
    <3>1. new = last
      BY <2>3, <2>4, <2>7
    <3>2. Len(last) <= MaxTurns
      BY <1>5, <2>2, <2>5, <2>6
    <3> QED
      BY <2>1, <2>5, <3>1, <3>2
  <2>8. CASE ~(Len(grown) > MaxTurns)
    <3>1. new = grown /\ Len(grown) <= MaxTurns
      BY <1>5, <2>2, <2>3, <2>8
    <3> QED
      BY <2>1, <3>1
  <2> QED
    BY <2>7, <2>8
<1> HIDE DEF new
<1>12. /\ ring'[to] = new /\ DOMAIN ring' = DOMAIN ring
       /\ \A s \in DOMAIN ring \ {to} : ring'[s] = ring[s]
  BY <1>1, <1>4, <1>5
<1>13. RingsOK'
  <2>1. ring' = [s \in Sessions \cup {"model"} |-> ring'[s]]
    BY <1>1, <1>5
  <2>2. \A s \in Sessions \cup {"model"} : Sane(ring'[s], arrivals) /\ Len(ring'[s]) <= MaxTurns
    BY <1>5, <1>11, <1>12 DEF RingsOK
  <2> QED
    BY <1>1, <2>1, <2>2 DEF RingsOK, Sane
<1>14. \A n : (n = t => op.role = "user") =>
         \A s \in DOMAIN ring : NoAnswer(ring[s], n) => NoAnswer(ring'[s], n)
  BY <1>11, <1>12
<1>15. OnTime(p, Copies', ring')
  <2>1. CASE op.role = "user"
    <3>1. OnTime(p, Copies, ring)
      BY <1>2, <1>3 DEF OnTime, Recs
    <3>2. \A s \in DOMAIN ring : NoAnswer(ring[s], p.turn) => NoAnswer(ring'[s], p.turn)
      BY <1>2, <1>14, <2>1
    <3> QED
      BY <1>2, <1>5, <1>10, <1>12, <3>1, <3>2, StaysOnTime
  <2>2. CASE op.role # "user"
    <3>1. RoleOf(op) # "user"
      BY <2>2 DEF RoleOf
    <3>2. \A k \in DOMAIN tail : Records(tail[k]) /\ SameStore(op, tail[k]) => RoleOf(tail[k]) # "user"
      BY <1>3, <3>1, TailIsRecording DEF tail
    <3>3. \A k \in DOMAIN tail : tail[k].op = "turn" => tail[k].to \in DOMAIN ring
      <4>1. \A k \in DOMAIN tail : tail[k] \in Ops
        BY <1>3 DEF Recs
      <4> QED
        BY <1>5, <4>1 DEF Ops, ToolCalls, Finish
    <3>4. ASSUME NEW k \in DOMAIN tail, Records(tail[k]), RoleOf(tail[k]) = "user",
                 Clean(tail[k], t, Copies, ring)
          PROVE  Clean(tail[k], t, Copies', ring')
      <4>1. tail[k].op = "turn" => tail[k].to # to
        BY <3>2, <3>4 DEF SameStore, to
      <4> QED
        BY <1>10, <1>12, <3>3, <3>4, <4>1 DEF Clean
    <3>5. Recording(tail, t, Copies', ring')
      BY <1>3, <3>4, RecordingGoesOn DEF Recs
    <3> QED
      BY <1>2, <3>5 DEF OnTime
  <2> QED
    BY <2>1, <2>2
<1>16. \A n \in Nat \ {q.turn} :
         /\ (\A m \in Copies : NoAnswer(m, n)) => \A m \in Copies' : NoAnswer(m, n)
         /\ \A s \in DOMAIN ring : NoAnswer(ring[s], n) => NoAnswer(ring'[s], n)
  BY <1>10, <1>14 DEF t
<1>17. \A m \in Copies' : Sane(m, arrivals)
  BY <1>5, <1>10
<1> QED
  BY <1>1, <1>2, <1>3, <1>6, <1>13, <1>15, <1>16, <1>17, OneMore DEF t

\* A crew is launched.
LEMMA LaunchesGoOn ==
  ASSUME WInv, AnswersStay, NEW r \in Requests, OnCrews(Launches(r) \/ Starts(r))
  PROVE  RequestsOK' /\ StoresOK' /\ ActionsTyped' /\ DocsOK'
<1> DEFINE q == req[r]
<1>1. /\ UNCHANGED <<docVars, approvalVars, ring, arrivals>> /\ q.at \in {"launches", "starts"}
  BY DEF OnCrews, Launches, Starts
<1>2. Silent(q.todo) /\ Fresh(q.turn, Copies, ring)
  BY <1>1, RequestIs
<1>3. Shape(q, answer')
  BY ShapeStays DEF WInv
<1>4. {"waits", "replies"} \subseteq Places \ {"idle", "writes"}
  BY DEF Places
<1>5. /\ Onward(q, [q EXCEPT !.at = "waits", !.job = NextJob], answer', Copies, ring)
      /\ Onward(q, [q EXCEPT !.at = "replies"], answer', Copies, ring)
  BY <1>2, <1>3, <1>4, OnwardAt
<1>6. GoesOn(r)
  BY <1>1, <1>5 DEF OnCrews, Launches, Starts, Goes, GoesOn
<1>7. RequestsOK' /\ StoresOK'
  BY <1>1, <1>6, GoesOnKeeps
<1> QED
  BY <1>1, <1>7, DocsStay DEF WInv, ActionsTyped, approvalVars
-----------------------------------------------------------------------------
(* Requests come, and the process dies *)

LEMMA BegunIs ==
  ASSUME workload \in Workloads, NEW ask \in workload.asks, NEW n \in Nat
  PROVE  LET q == Begun(ask, n)
         IN  /\ IsReq(q) /\ q.turn = n /\ q.ask = ask /\ q.ticks = 0 /\ q.action = NoAction
             /\ q.at \in Places \ {"idle", "writes"}
             /\ ask.session \in Sessions \cup {"none"}
             /\ \/ q.todo = <<>>
                \/ /\ q.at = "works"
                   /\ \/ q.todo = << Remembers(n, "user") >>
                      \/ ask.edit \in Edits /\ ask.edit.do # "append" /\ q.todo = << Doc(ask.edit) >>
<1> DEFINE q0 == [Idle EXCEPT !.ask = ask, !.turn = n]
<1>1. /\ ask.route \in Routings /\ ask.session \in Sessions \cup {"none"}
      /\ ask.route = "edit" => ask.edit \in Edits
  BY AgentAssumption
<1>2. /\ IsReq(q0) /\ q0.turn = n /\ q0.ask = ask /\ q0.ticks = 0 /\ q0.action = NoAction
      /\ q0.todo = <<>>
  BY DEF Idle, IsReq, ReqFields
<1> HIDE DEF q0
<1>3. ASSUME NEW at
      PROVE  LET q == [q0 EXCEPT !.at = at]
             IN  /\ IsReq(q) /\ q.at = at /\ q.turn = n /\ q.ask = ask /\ q.ticks = 0
                 /\ q.action = NoAction /\ q.todo = <<>>
  BY <1>2 DEF IsReq, ReqFields
<1>4. ASSUME NEW todo
      PROVE  LET q == Works(q0, todo)
             IN  /\ IsReq(q) /\ q.at = "works" /\ q.turn = n /\ q.ask = ask /\ q.ticks = 0
                 /\ q.action = NoAction /\ q.todo = todo
  BY <1>2 DEF Works, IsReq, ReqFields
<1>5. CASE ask.route = "edit"
  <2>1. Begun(ask, n) = Works(q0, << IF ask.edit.do = "append" THEN Remembers(n, "user")
                                     ELSE Doc(ask.edit) >>)
    BY <1>5 DEF Begun, q0
  <2>2. "works" \in Places \ {"idle", "writes"}
    BY DEF Places
  <2>3. CASE ask.edit.do = "append"
    <3>1. Begun(ask, n) = Works(q0, << Remembers(n, "user") >>)
      BY <2>1, <2>3
    <3> QED
      BY <1>1, <1>4, <2>2, <3>1
  <2>4. CASE ask.edit.do # "append"
    <3>1. Begun(ask, n) = Works(q0, << Doc(ask.edit) >>)
      BY <2>1, <2>4
    <3> QED
      BY <1>1, <1>4, <1>5, <2>2, <2>4, <3>1
  <2> QED
    BY <2>3, <2>4
<1>6. CASE ask.route # "edit"
  <2>1. \E at \in {"replies", "lists", "routes", "starts", "launches", "follows", "takes", "acts"} :
          Begun(ask, n) = [q0 EXCEPT !.at = at]
    BY <1>1, <1>6 DEF Begun, q0, Routings
  <2>2. {"replies", "lists", "routes", "starts", "launches", "follows", "takes", "acts"}
          \subseteq Places \ {"idle", "writes"}
    BY DEF Places
  <2>3. PICK at \in Places \ {"idle", "writes"} : Begun(ask, n) = [q0 EXCEPT !.at = at]
    BY <2>1, <2>2
  <2> DEFINE q == [q0 EXCEPT !.at = at]
  <2>4. /\ IsReq(q) /\ q.at = at /\ q.turn = n /\ q.ask = ask /\ q.ticks = 0
        /\ q.action = NoAction /\ q.todo = <<>>
    BY <1>3
  <2> HIDE DEF q
  <2>5. Begun(ask, n) = q
    BY <2>3 DEF q
  <2> QED
    BY <1>1, <2>4, <2>5
<1> QED
  BY <1>5, <1>6

\* A turn that begins has nothing in any store.
LEMMA ArriveKeeps ==
  ASSUME WInv, NEW r \in Requests, Arrive(r)
  PROVE  RequestsOK' /\ StoresOK' /\ ActionsTyped' /\ DocsOK'
<1> DEFINE n == arrivals + 1
<1>1. /\ req[r].at = "idle" /\ arrivals' = n
      /\ UNCHANGED <<docVars, approvalVars, crewVars, workload, crashes, ring>>
  BY DEF Arrive
<1>2. /\ arrivals \in Nat /\ n \in Nat /\ DOMAIN ring = Sessions \cup {"model"}
      /\ RingsOK /\ \A m \in Copies : Sane(m, arrivals)
      /\ workload \in Workloads
  <2>1. arrivals \in Nat /\ workload \in Workloads
    BY DEF WInv, IInv, RequestsOK
  <2>2. RingsOK /\ \A m \in Copies : Sane(m, arrivals)
    BY DEF WInv, StoresOK
  <2>3. DOMAIN ring = Sessions \cup {"model"}
    BY <2>2 DEF RingsOK
  <2> QED
    BY <2>1, <2>2, <2>3
<1>3. /\ Fresh(n, Copies, ring) /\ \A m \in Copies : Sane(m, n)
      /\ \A s \in DOMAIN ring : Sane(ring[s], n)
  BY <1>2, LaterIsSane DEF RingsOK, Fresh
<1>4. Copies' = Copies
  BY <1>1 DEF docVars, Copies, Holds, Stored
<1>5. DocsOK' /\ ActionsTyped'
  BY <1>1, DocsStay DEF WInv, ActionsTyped, approvalVars
<1>6. PICK ask \in workload.asks :
        LET q == Begun(ask, n)
        IN  CASE ask.route = "confirm" ->
                   \E i \in DOMAIN answer : Becomes(r, [q EXCEPT !.action.id = i])
              [] ask.route = "events" ->
                   \E k \in JobIds : board[k].status # "none" /\ Becomes(r, [q EXCEPT !.job = k])
              [] ask.route = "sandbox" ->
                   \E path \in Paths :
                     Becomes(r, [q EXCEPT !.action.do = ask.intent, !.action.path = path])
              [] OTHER -> Becomes(r, q)
  BY DEF Arrive
<1> DEFINE q == Begun(ask, n)
<1>7. /\ IsReq(q) /\ q.turn = n /\ q.ask = ask /\ q.ticks = 0 /\ q.action = NoAction
      /\ q.at \in Places \ {"idle", "writes"}
      /\ ask.session \in Sessions \cup {"none"}
      /\ \/ q.todo = <<>>
         \/ /\ q.at = "works"
            /\ \/ q.todo = << Remembers(n, "user") >>
               \/ ask.edit \in Edits /\ ask.edit.do # "append" /\ q.todo = << Doc(ask.edit) >>
  BY <1>2, BegunIs
<1>8. ask.route = "sandbox" => ask.intent \in FileTools
  BY <1>2, AgentAssumption
<1> HIDE DEF q, n
<1>9. q.todo \in Seq(Ops) /\ OnTime(q, Copies, ring)
  <2>1. CASE q.todo = <<>>
    BY <1>3, <1>7, <2>1 DEF OnTime, Silent
  <2>2. CASE q.at = "works" /\ q.todo = << Remembers(n, "user") >>
    <3>1. "user" \in Roles
      BY DEF Roles
    <3> DEFINE op == Remembers(n, "user")
    <3>2. op \in Ops /\ Records(op) /\ RoleOf(op) = "user" /\ op.op = "doc" /\ op.edit.by = n
      BY <1>2, <3>1, RemembersIs
    <3> HIDE DEF op
    <3>3. Clean(op, n, Copies, ring)
      BY <1>3, <3>2 DEF Clean, Fresh
    <3>4. Recs(<<op>>, n, Copies, ring)
      BY <3>2, <3>3, OneRecords
    <3>5. q.todo = <<op>>
      BY <2>2 DEF op
    <3> QED
      BY <1>7, <2>2, <3>4, <3>5 DEF OnTime, Recs
  <2>3. CASE ask.edit \in Edits /\ ask.edit.do # "append" /\ q.todo = << Doc(ask.edit) >>
    <3>1. Doc(ask.edit) \in Ops /\ ~Records(Doc(ask.edit))
      BY <2>3, DocIs
    <3>2. q.todo \in Seq(Ops) /\ \A k \in DOMAIN q.todo : q.todo[k] = Doc(ask.edit)
      BY <2>3, <3>1
    <3> QED
      BY <1>3, <1>7, <3>1, <3>2 DEF OnTime, Silent
  <2> QED
    BY <1>7, <2>1, <2>2, <2>3
<1>10. ASSUME NEW p, IsReq(p), p.at = q.at, p.turn = n, p.ask = ask, p.todo = q.todo, p.ticks = 0,
              p.action \in Actions, p.action.id \in {0} \cup DOMAIN answer
       PROVE  Shape(p, answer) /\ OnTime(p, Copies, ring) /\ p.turn = n
  <2>1. 0 \in 0..MaxTicks
    BY AgentAssumption
  <2> QED
    BY <1>2, <1>7, <1>9, <1>10, <2>1 DEF Shape, OnTime
<1>11. \E p : Becomes(r, p) /\ Shape(p, answer) /\ OnTime(p, Copies, ring) /\ p.turn = n
  <2>1. CASE ask.route = "confirm"
    <3>1. PICK i \in DOMAIN answer : Becomes(r, [q EXCEPT !.action.id = i])
      BY <1>6, <2>1 DEF q
    <3> DEFINE p == [q EXCEPT !.action.id = i]
    <3>2. /\ IsReq(p) /\ p.at = q.at /\ p.turn = n /\ p.ask = ask /\ p.todo = q.todo /\ p.ticks = 0
          /\ p.action = [NoAction EXCEPT !.id = i]
      BY <1>7 DEF IsReq, ReqFields
    <3> HIDE DEF p
    <3>3. i \in 0..MaxActions
      <4>1. DOMAIN answer = 1..Len(answer) /\ Len(answer) \in Nat /\ Len(answer) <= MaxActions
        BY PurgedIsTyped DEF WInv, ActionsTyped
      <4> QED
        BY <4>1, ApprovalsAssumption
    <3>4. p.action \in Actions /\ p.action.id = i
      BY <3>2, <3>3 DEF NoAction, Actions
    <3>5. Shape(p, answer) /\ OnTime(p, Copies, ring) /\ p.turn = n
      BY <1>10, <3>2, <3>4
    <3> QED
      BY <3>1, <3>5 DEF p
  <2>2. CASE ask.route = "events"
    <3>1. PICK k \in JobIds : Becomes(r, [q EXCEPT !.job = k])
      BY <1>6, <2>2 DEF q
    <3> DEFINE p == [q EXCEPT !.job = k]
    <3>2. /\ IsReq(p) /\ p.at = q.at /\ p.turn = n /\ p.ask = ask /\ p.todo = q.todo /\ p.ticks = 0
          /\ p.action = NoAction
      BY <1>7 DEF IsReq, ReqFields
    <3> HIDE DEF p
    <3>3. Shape(p, answer) /\ OnTime(p, Copies, ring) /\ p.turn = n
      BY <1>10, <3>2, NoActionIs
    <3> QED
      BY <3>1, <3>3 DEF p
  <2>3. CASE ask.route = "sandbox"
    <3>1. PICK path \in Paths :
            Becomes(r, [q EXCEPT !.action.do = ask.intent, !.action.path = path])
      BY <1>6, <2>3 DEF q
    <3> DEFINE p == [q EXCEPT !.action.do = ask.intent, !.action.path = path]
    <3>2. /\ IsReq(p) /\ p.at = q.at /\ p.turn = n /\ p.ask = ask /\ p.todo = q.todo /\ p.ticks = 0
          /\ p.action = [NoAction EXCEPT !.do = ask.intent, !.path = path]
      BY <1>7 DEF IsReq, ReqFields
    <3> HIDE DEF p
    <3>3. p.action \in Actions /\ p.action.id = 0
      <4>1. p.action = [id |-> 0, by |-> 0, do |-> ask.intent, path |-> path]
        BY <3>2 DEF NoAction
      <4>2. 0 \in 0..MaxActions /\ ask.intent \in {"write", "delete"}
        BY <1>8, <2>3, ApprovalsAssumption DEF FileTools
      <4> QED
        BY <4>1, <4>2 DEF Actions
    <3>4. Shape(p, answer) /\ OnTime(p, Copies, ring) /\ p.turn = n
      BY <1>10, <3>2, <3>3
    <3> QED
      BY <3>1, <3>4 DEF p
  <2>4. CASE ask.route \notin {"confirm", "events", "sandbox"}
    <3>1. Becomes(r, q)
      BY <1>6, <2>4 DEF q
    <3>2. Shape(q, answer) /\ OnTime(q, Copies, ring) /\ q.turn = n
      BY <1>7, <1>10, NoActionIs
    <3> QED
      BY <3>1, <3>2
  <2> QED
    BY <2>1, <2>2, <2>3, <2>4
<1>12. PICK p : Becomes(r, p) /\ Shape(p, answer) /\ OnTime(p, Copies, ring) /\ p.turn = n
  BY <1>11
<1>13. req'[r] = p /\ \A o \in Requests \ {r} : req'[o] = req[o]
  BY <1>12 DEF Becomes, WInv, IInv, Reqs
<1>14. RequestsOK'
  <2>1. \A o \in Requests : Shape(req'[o], answer')
    BY <1>1, <1>12, <1>13 DEF WInv, RequestsOK, approvalVars
  <2>2. (\A o \in Requests : Shape(req[o], answer))'
    BY <2>1 DEF Shape, IsReq
  <2>3. \A o \in Requests \ {r} : req[o].at # "idle" => req[o].turn \in 1..arrivals
    BY DEF WInv, RequestsOK
  <2>4. \A o \in Requests \ {r} : req[o].at # "idle" => req[o].turn \in 1..n /\ req[o].turn # n
    BY <1>2, <2>3 DEF n
  <2>5. n \in 1..n
    BY <1>2 DEF n
  <2> QED
    BY <1>1, <1>2, <1>12, <1>13, <2>2, <2>4, <2>5 DEF WInv, RequestsOK
<1>15. StoresOK'
  <2>1. (\A o \in Requests : OnTime(req[o], Copies, ring))'
    BY <1>1, <1>4, <1>12, <1>13 DEF WInv, StoresOK
  <2>2. (\A m \in Copies : Sane(m, arrivals))'
    BY <1>1, <1>3, <1>4 DEF Sane
  <2>3. \A s \in Sessions \cup {"model"} : Sane(ring[s], n) /\ Len(ring[s]) <= MaxTurns
    BY <1>2, <1>3 DEF RingsOK
  <2>4. RingsOK'
    BY <1>1, <1>2, <2>3 DEF RingsOK, Sane
  <2> QED
    BY <2>1, <2>2, <2>4 DEF StoresOK
<1> QED
  BY <1>5, <1>14, <1>15

\* Whoever asks, nothing of its turns is left after a crash but what is in the memory.
LEMMA AgentCrashKeeps ==
  ASSUME WInv, AnswersStay, Crash
  PROVE  RequestsOK' /\ StoresOK' /\ ActionsTyped' /\ DocsOK'
<1>1. /\ DocsCrash(workload.docs.settings) /\ ApprovalsCrash
      /\ req' = [r \in Requests |-> Idle] /\ ring' = [s \in DOMAIN ring |-> <<>>]
      /\ UNCHANGED <<workload, arrivals>>
  BY DEF Crash
<1>2. workload.docs \in Shelves /\ Whole("settings", workload.docs.settings)
  BY AgentAssumption DEF WInv, IInv, Shelves, Whole
<1>3. DocsOK' /\ CopiesStay
  BY <1>1, <1>2, DocsCrashKeeps, CrashCopies DEF WInv
<1>4. ActionsTyped'
  BY <1>1, ApprovalsCrashIsTyped DEF WInv
<1>5. \A r \in Requests : req'[r] = Idle
  BY <1>1
<1>6. RequestsOK'
  <2>1. \A r \in Requests : Shape(req'[r], answer')
    BY <1>5, IdleIs
  <2>2. (\A r \in Requests : Shape(req[r], answer))'
    BY <2>1 DEF Shape, IsReq
  <2> QED
    BY <1>1, <1>5, <2>2, IdleIs DEF WInv, RequestsOK
<1>7. StoresOK'
  <2>1. arrivals \in Nat /\ MaxTurns \in Nat /\ DOMAIN ring = Sessions \cup {"model"}
    BY AgentAssumption DEF WInv, RequestsOK, StoresOK, RingsOK
  <2>2. \A s \in Sessions \cup {"model"} : Sane(ring'[s], arrivals) /\ Len(ring'[s]) <= MaxTurns
    <3>1. Sane(<<>>, arrivals) /\ Len(<<>>) = 0
      BY <2>1, EmptyIsSane
    <3> QED
      BY <1>1, <2>1, <3>1
  <2>3. RingsOK'
    <3>1. ring' = [s \in Sessions \cup {"model"} |-> ring'[s]]
      BY <1>1, <2>1
    <3> QED
      BY <1>1, <2>2, <3>1 DEF RingsOK, Sane
  <2>4. \A m \in Copies' : Sane(m, arrivals)
    BY <1>3, <2>1, EmptyIsSane DEF CopiesStay, WInv, StoresOK
  <2>5. (\A m \in Copies : Sane(m, arrivals))'
    BY <1>1, <2>4 DEF Sane
  <2>6. (\A r \in Requests : OnTime(req[r], Copies, ring))'
    BY <1>5, IdleIs DEF OnTime
  <2> QED
    BY <2>3, <2>5, <2>6 DEF StoresOK
<1> QED
  BY <1>3, <1>4, <1>6, <1>7
-----------------------------------------------------------------------------
(* The pending actions, from the first step to the last *)

LEMMA InitHolds == Init => IInv
<1> SUFFICES ASSUME Init PROVE IInv
  OBVIOUS
<1>1. workload \in Workloads /\ ApprovalsInit(workload.files, workload.pending)
  BY DEF Init, AgentInit
<1>2. /\ workload.pending \in Seq(Actions) /\ Len(workload.pending) <= MaxPending + 1
      /\ \A k \in DOMAIN workload.pending : workload.pending[k].id = k
  BY <1>1
<1>3. answer \in [1..Len(workload.pending) -> Answers] /\ Len(workload.pending) \in Nat
  BY <1>1, <1>2 DEF ApprovalsInit, Answers
<1>4. PendingOK
  <2>1. pending = workload.pending /\ \A i \in DOMAIN pending : answer[i] = "waiting"
    BY <1>1 DEF ApprovalsInit
  <2>2. DOMAIN pending = 1..Len(pending) /\ DOMAIN answer = DOMAIN pending
    BY <1>2, <1>3, <2>1
  <2>3. answer \in Seq(Answers)
    BY <1>3
  <2>4. Listed(pending)
    BY <1>2, <2>1 DEF Listed
  <2> QED
    BY <1>2, <2>1, <2>2, <2>3, <2>4 DEF PendingOK, Consistent
<1>5. Reqs /\ ActsAreEntitled
  BY DEF Init, AgentInit, Reqs, Idle, IsReq, ReqFields, ActsAreEntitled
<1>6. FilesOK
  BY <1>1 DEF ApprovalsInit, FilesOK
<1> QED
  BY <1>1, <1>4, <1>5, <1>6 DEF IInv

LEMMA NextKeeps ==
  ASSUME IInv, [Next]_vars
  PROVE  IInv' /\ AnswersStay /\ Rightful
<1>1. NoneGoes => Rightful
  BY DEF NoneGoes, Rightful
<1>2. ASSUME UNCHANGED <<files, pending, answer>>, UNCHANGED <<workload, req>>
      PROVE  IInv' /\ AnswersStay /\ Rightful
  <2>1. Harmless
    BY <1>2, UnchangedIsHarmless
  <2> QED
    BY <1>1, <1>2, <2>1 DEF Harmless, IInv, Reqs, IsReq, ActsAreEntitled, Entitled
<1>3. ASSUME NEW r \in Requests, Turns(r), Harmless, UNCHANGED workload
      PROVE  IInv' /\ AnswersStay /\ Rightful
  BY <1>1, <1>3, TurnsKeep DEF Harmless
<1>4. ASSUME NEW r \in Requests, Arrive(r)
      PROVE  IInv' /\ AnswersStay /\ Rightful
  BY <1>3, <1>4, ArriveTurns
<1>5. ASSUME NEW r \in Requests, Step(r)
      PROVE  IInv' /\ AnswersStay /\ Rightful
  <2>1. CASE Only(Routes(r) \/ Searches(r) \/ AsksModel(r) \/ Chats(r) \/ HearsCrew(r) \/ Follows(r))
    <3>1. KeepsQuiet(r)
      BY <2>1, OnlyIsQuiet DEF Only, IInv
    <3>2. Harmless /\ Turns(r)
      BY <2>1, <3>1, QuietTurns, UnchangedIsHarmless DEF Only, approvalVars, IInv
    <3> QED
      BY <1>3, <2>1, <3>2 DEF Only
  <2>2. CASE OnApprovals(Writes(r) \/ Lists(r) \/ Takes(r) \/ Acts(r) \/ Replies(r))
    BY <2>2, OnApprovalsKeeps, TurnsKeep DEF OnApprovals
  <2>3. CASE OnCrews(Launches(r) \/ Starts(r))
    <3>1. IsReq(req[r])
      BY DEF IInv, Reqs
    <3>2. /\ Quiet([req[r] EXCEPT !.at = "waits", !.job = NextJob])
          /\ Quiet([req[r] EXCEPT !.at = "replies"])
      BY <3>1 DEF Quiet, IsReq, ReqFields
    <3>3. KeepsQuiet(r)
      BY <2>3, <3>2 DEF OnCrews, Launches, Starts, Goes, KeepsQuiet
    <3>4. Harmless /\ Turns(r)
      BY <2>3, <3>3, QuietTurns, UnchangedIsHarmless DEF OnCrews, approvalVars, IInv
    <3> QED
      BY <1>3, <2>3, <3>4 DEF OnCrews
  <2>4. CASE DoesNext(r)
    BY <1>3, <2>4, DoesNextKeeps, QuietTurns DEF IInv
  <2>5. CASE Saves(r)
    BY <1>2, <2>5 DEF Saves, OnDocs, approvalVars
  <2> QED
    BY <1>5, <2>1, <2>2, <2>3, <2>4, <2>5 DEF Step
<1>6. CASE CrewsStep /\ UNCHANGED <<docVars, approvalVars, agentVars>>
  BY <1>2, <1>6 DEF approvalVars, agentVars
<1>7. CASE Expire /\ UNCHANGED <<docVars, crewVars, agentVars>>
  <2>1. PendingOK' /\ AnswersStay /\ FilesOK' /\ NoneGoes
    BY <1>7, ExpireKeeps DEF Expire, IInv, FilesOK, NoneGoes, Exists
  <2>2. UNCHANGED <<workload, req>>
    BY <1>7 DEF agentVars
  <2>3. \A r \in Requests : req[r].at = "acts" => Entitled(req[r], answer')
    BY <2>1 DEF IInv, ActsAreEntitled, Entitled, AnswersStay
  <2> QED
    BY <1>1, <2>1, <2>2, <2>3 DEF IInv, Reqs, IsReq, ActsAreEntitled, Entitled
<1>8. CASE Crash
  <2>1. PendingOK' /\ AnswersStay
    BY <1>8, CrashKeeps DEF Crash, IInv
  <2>2. FilesOK' /\ NoneGoes
    BY <1>8 DEF Crash, ApprovalsCrash, IInv, FilesOK, NoneGoes, Exists
  <2>3. Reqs' /\ ActsAreEntitled'
    BY <1>8 DEF Crash, Reqs, Idle, IsReq, ReqFields, ActsAreEntitled
  <2> QED
    BY <1>1, <1>8, <2>1, <2>2, <2>3 DEF Crash, IInv
<1>9. CASE UNCHANGED vars
  BY <1>2, <1>9 DEF vars, approvalVars, agentVars
<1> QED
  BY <1>4, <1>5, <1>6, <1>7, <1>8, <1>9 DEF Next
-----------------------------------------------------------------------------
(* The stores, from the first step to the last *)

LEMMA InitBegins == Init => WInv
<1> SUFFICES ASSUME Init PROVE WInv
  OBVIOUS
<1>1. /\ workload \in Workloads /\ DocsInit(workload.docs)
      /\ ApprovalsInit(workload.files, workload.pending)
      /\ arrivals = 0 /\ req = [r \in Requests |-> Idle]
      /\ ring = [s \in Sessions \cup {"model"} |-> <<>>]
  BY DEF Init, AgentInit
<1>2. IInv
  BY InitHolds
<1>3. workload.docs \in Shelves
  BY <1>1
<1>4. DocsOK
  BY <1>1, <1>3, DocsBegin
<1>5. ActionsTyped
  <2> DEFINE left == workload.pending
  <2>1. left \in Seq(Actions) /\ \A k \in DOMAIN left : left[k].id = k
    BY <1>1
  <2>2. /\ pending = left /\ answer = [k \in DOMAIN left |-> "waiting"] /\ shown = DOMAIN left
        /\ files = [p \in Paths |-> IF p \in workload.files THEN "user" ELSE "none"]
    BY <1>1 DEF ApprovalsInit
  <2> HIDE DEF left
  <2>3. Len(left) \in Nat /\ DOMAIN left = 1..Len(left)
    BY <2>1
  <2>4. Len(left) <= MaxActions
    <3>1. CASE Len(left) = 0
      BY <3>1
    <3>2. CASE Len(left) # 0
      <4>1. Len(left) \in DOMAIN left
        BY <2>3, <3>2
      <4>2. left[Len(left)] \in Actions
        BY <2>1, <4>1
      <4>3. left[Len(left)].id \in 0..MaxActions
        BY <4>2 DEF Actions
      <4> QED
        BY <2>1, <4>1, <4>3
    <3> QED
      BY <3>1, <3>2
  <2>5. Len(answer) = Len(left) /\ DOMAIN answer = DOMAIN left
    BY <2>2, <2>3
  <2>6. files \in [Paths -> {"none", "user", "agent"}]
    BY <2>2
  <2> QED
    BY <2>1, <2>2, <2>4, <2>5, <2>6 DEF ActionsTyped
<1>6. RequestsOK
  BY <1>1, IdleIs DEF RequestsOK
<1>7. StoresOK
  <2>1. \A s \in Sessions \cup {"model"} : Sane(ring[s], 0) /\ Len(ring[s]) <= MaxTurns
    <3>1. Sane(<<>>, 0) /\ Len(<<>>) = 0
      BY EmptyIsSane
    <3> QED
      BY <1>1, <3>1
  <2>2. RingsOK
    BY <1>1, <2>1 DEF RingsOK
  <2> DEFINE m == workload.docs.memory
  <2>3. Copies = {m}
    BY <1>1 DEF Copies, Stored, Holds, DocsInit, Free, Kinds
  <2>4. m \in Seq([by : Nat, role : Roles]) /\ \A k \in DOMAIN m : m[k].by = 0
    BY <1>1, <1>3 DEF Shelves, Memories
  <2> HIDE DEF m
  <2>5. \A k \in DOMAIN m : m[k] \in Turnings(0)
    <3>1. \A k \in DOMAIN m : m[k] \in [by : Nat, role : Roles]
      <4>1. ASSUME NEW S, m \in Seq(S) PROVE \A k \in DOMAIN m : m[k] \in S
        BY <4>1
      <4> QED
        BY <2>4, <4>1
    <3>2. 0 \in 0..0
      OBVIOUS
    <3> QED
      BY <2>4, <3>1, <3>2 DEF Turnings
  <2>6. Sane(m, 0)
    BY <2>4, <2>5 DEF Sane, InOrder
  <2> QED
    BY <1>1, <2>2, <2>3, <2>6 DEF StoresOK, OnTime, Idle
<1> QED
  BY <1>2, <1>4, <1>5, <1>6, <1>7 DEF WInv

LEMMA StepGoesOn ==
  ASSUME WInv, AnswersStay, NEW r \in Requests, Step(r)
  PROVE  RequestsOK' /\ StoresOK' /\ ActionsTyped' /\ DocsOK'
<1>1. DocsOK /\ ActionsTyped
  BY DEF WInv
<1>2. ASSUME GoesOn(r), ActionsTyped', UNCHANGED <<docVars, ring, arrivals>>
      PROVE  RequestsOK' /\ StoresOK' /\ ActionsTyped' /\ DocsOK'
  BY <1>1, <1>2, GoesOnKeeps, DocsStay
<1>3. CASE Only(Routes(r) \/ Searches(r) \/ AsksModel(r) \/ Chats(r) \/ HearsCrew(r) \/ Follows(r))
  <2>1. UNCHANGED <<docVars, approvalVars, ring, arrivals>>
    BY <1>3 DEF Only
  <2>2. GoesOn(r)
    BY <1>3, <2>1, OnlyGoesOn DEF Only, approvalVars
  <2>3. ActionsTyped'
    BY <1>1, <2>1 DEF ActionsTyped, approvalVars
  <2> QED
    BY <1>2, <2>1, <2>2, <2>3
<1>4. CASE OnApprovals(Writes(r) \/ Lists(r) \/ Takes(r) \/ Acts(r) \/ Replies(r))
  BY <1>2, <1>4, OnApprovalsGoesOn DEF OnApprovals
<1>5. CASE OnCrews(Launches(r) \/ Starts(r))
  BY <1>5, LaunchesGoOn
<1>6. CASE DoesNext(r)
  <2>1. \/ req[r].todo = <<>>
        \/ req[r].todo # <<>> /\ Head(req[r].todo).op \in {"doc", "turn", "call", "finish"}
    BY <1>6 DEF DoesNext
  <2>2. CASE req[r].todo = <<>> \/ Head(req[r].todo).op \in {"call", "finish"}
    BY <1>2, <1>6, <2>2, CallsGoOn
  <2> QED
    BY <1>6, <2>1, <2>2, DocGoesOn, TurnGoesOn
<1>7. CASE Saves(r)
  <2>1. (Truncate(r) \/ Write(r)) /\ UNCHANGED <<approvalVars, req, ring, arrivals>>
    BY <1>7 DEF Saves, OnDocs
  <2>2. CopiesStay
    BY <1>1, <2>1, SaveCopies
  <2>3. DocsOK' /\ ActionsTyped'
    BY <1>1, <2>1, TruncateKeeps, WriteKeeps DEF ActionsTyped, approvalVars
  <2> QED
    BY <2>1, <2>2, <2>3, CopiesGo
<1> QED
  BY <1>3, <1>4, <1>5, <1>6, <1>7 DEF Step

LEMMA NextGoesOn ==
  ASSUME WInv, [Next]_vars
  PROVE  WInv'
<1>1. IInv' /\ AnswersStay /\ DocsOK /\ ActionsTyped
  BY NextKeeps DEF WInv
<1>2. ASSUME UNCHANGED docVars PROVE CopiesStay
  BY <1>2 DEF docVars, CopiesStay, Copies, Holds, Stored
<1>3. ASSUME NEW r \in Requests, Arrive(r)
      PROVE  WInv'
  BY <1>1, <1>3, ArriveKeeps DEF WInv
<1>4. ASSUME NEW r \in Requests, Step(r)
      PROVE  WInv'
  BY <1>1, <1>4, StepGoesOn DEF WInv
<1>5. CASE CrewsStep /\ UNCHANGED <<docVars, approvalVars, agentVars>>
  BY <1>1, <1>2, <1>5, CopiesGo, DocsStay DEF WInv, ActionsTyped, approvalVars, agentVars
<1>6. CASE Expire /\ UNCHANGED <<docVars, crewVars, agentVars>>
  <2>1. ActionsTyped'
    BY <1>1, <1>6, ExpireIsTyped DEF WInv
  <2> QED
    BY <1>1, <1>2, <1>6, <2>1, CopiesGo, DocsStay DEF WInv, agentVars
<1>7. CASE Crash
  BY <1>1, <1>7, AgentCrashKeeps DEF WInv
<1>8. CASE UNCHANGED vars
  BY <1>1, <1>2, <1>8, CopiesGo, DocsStay DEF WInv, ActionsTyped, vars, approvalVars, agentVars
<1> QED
  BY <1>3, <1>4, <1>5, <1>6, <1>7, <1>8 DEF Next
-----------------------------------------------------------------------------
(* Theorems *)

\* The pending actions are at most one over their cap, each unanswered and of its own
\* number, and whoever is about to change a file is entitled to it.
THEOREM AgentInvariance == Spec => []IInv
<1>1. IInv /\ [Next]_vars => IInv'
  BY NextKeeps
<1> QED
  BY <1>1, InitHolds, PTL DEF Spec

\* FirstAnswerCounts: whoever answers an action, by whatever route, and whatever
\* expires or is dropped meanwhile, an answer is never replaced.
THEOREM AnswersAreFinal == Spec => FirstAnswerCounts
<1> DEFINE Final == \A i \in DOMAIN answer : answer[i] # "waiting" => answer'[i] = answer[i]
<1>1. IInv /\ [Next]_vars => [Final]_approvalVars
  BY NextKeeps DEF AnswersStay
<1> QED
  BY <1>1, AgentInvariance, PTL DEF Spec, FirstAnswerCounts

\* DeletionIsApproved: however requests and the tools of a turn interleave, what makes a
\* file disappear is the user's own request or an action the user approved.
THEOREM NothingGoesUnasked == Spec => DeletionIsApproved
<1>1. IInv /\ [Next]_vars => [Rightful]_vars
  BY NextKeeps
<1> QED
  BY <1>1, AgentInvariance, PTL DEF Spec, DeletionIsApproved, Rightful, Deletion

\* What a request has still to record is in order and of its own turn, and every copy of
\* the memory, the rings and the documents in hand are whole: in every interleaving.
THEOREM RequestsInvariance == Spec => []WInv
<1>1. WInv /\ [Next]_vars => WInv'
  BY NextGoesOn
<1> QED
  BY <1>1, InitBegins, PTL DEF Spec

\* LossNeedsOverlap: of however many requests and with whatever caps, the edits of a
\* document that only ever was in one hand at a time are what is stored, in their order.
THEOREM NothingIsLost == Spec => []LossNeedsOverlap
<1>1. WInv => LossNeedsOverlap
  BY CalmLosesNothing DEF WInv
<1> QED
  BY <1>1, RequestsInvariance, PTL

\* QuestionsFirst: turns that overlap may lose entries of one another, but neither the
\* memory nor a ring ever shows an answer before its question.
THEOREM QuestionsComeFirst == Spec => []QuestionsFirst
<1>1. WInv => QuestionsFirst
  <2> SUFFICES ASSUME WInv, NEW turns \in {Stored("memory")} \cup Range(ring)
               PROVE  InOrder(turns)
    BY DEF QuestionsFirst, InOrder
  <2>1. CASE turns = Stored("memory")
    BY <2>1 DEF WInv, StoresOK, Copies, Sane
  <2>2. CASE turns \in Range(ring)
    <3>1. PICK s \in DOMAIN ring : turns = ring[s]
      BY <2>2 DEF Range
    <3> QED
      BY <3>1 DEF WInv, StoresOK, RingsOK, Sane
  <2> QED
    BY <2>1, <2>2
<1> QED
  BY <1>1, RequestsInvariance, PTL

\* TypeOK: the stores keep their caps and hold only what their types allow.
THEOREM AgentTypes == Spec => []TypeOK
<1>1. WInv /\ CrewsInv => TypeOK
  <2> SUFFICES ASSUME WInv, CrewsInv PROVE TypeOK
    OBVIOUS
  <2>1. /\ \A d \in Kinds : file[d].whole \in BOOLEAN
        /\ Stored("memory") \in Memories /\ Stored("profile") \in Profiles
        /\ \A r \in Requests : hand[r].at \in {"free", "edited", "opened"}
                               /\ (hand[r].at # "free" => hand[r].edit \in Edits)
    <3>1. DocsShape
      BY DEF WInv, DocsOK
    <3>2. Whole("memory", Stored("memory")) /\ Whole("profile", Stored("profile"))
      BY <3>1, StoredIsWhole DEF Kinds
    <3> QED
      BY <3>1, <3>2 DEF DocsShape, FileOK, HandOK, Whole
  <2>2. Len(Stored("memory")) <= MaxEntries
    BY <2>1 DEF Memories
  <2>3. \A k \in DOMAIN Stored("memory") : Stored("memory")[k].by \in 0..arrivals
    <3>1. Stored("memory") \in Seq(Turnings(arrivals))
      BY DEF WInv, StoresOK, Copies, Sane
    <3>2. \A k \in DOMAIN Stored("memory") : Stored("memory")[k] \in Turnings(arrivals)
      BY <3>1
    <3> QED
      BY <3>2 DEF Turnings
  <2>4. Range(Stored("profile").facts) \subseteq Facts /\ Len(Stored("profile").facts) <= MaxFacts
    <3>1. Stored("profile").facts \in Seq(Facts) /\ Len(Stored("profile").facts) <= MaxFacts
      BY <2>1 DEF Profiles
    <3> QED
      BY <3>1 DEF Range
  <2>5. \A r \in Requests : /\ req[r].at \in Places /\ req[r].ticks \in 0..MaxTicks
                            /\ req[r].action \in Actions
    BY DEF WInv, RequestsOK, Shape
  <2>6. /\ files \in [Paths -> {"none", "user", "agent"}]
        /\ Range(pending) \subseteq Actions /\ Len(pending) <= MaxPending + 1
        /\ Range(answer) \subseteq Answers /\ shown \subseteq DOMAIN answer
    <3>1. pending \in Seq(Actions) /\ answer \in Seq(Answers)
      BY PurgedIsTyped DEF WInv, ActionsTyped
    <3> QED
      BY <3>1 DEF WInv, ActionsTyped, IInv, PendingOK, Consistent, Range
  <2>7. \A k \in JobIds : board[k].total \in 0..MaxAgents
    BY DEF CrewsInv, Job
  <2>8. \A s \in DOMAIN ring : Len(ring[s]) <= MaxTurns
    BY DEF WInv, StoresOK, RingsOK
  <2> QED
    BY <2>1, <2>2, <2>3, <2>4, <2>5, <2>6, <2>7, <2>8 DEF TypeOK
<1> QED
  BY <1>1, RequestsInvariance, CrewsInvariance, PTL
=============================================================================
