--------------------------------- MODULE Agent ---------------------------------
(***************************************************************************)
(* The HTTP requests of the gateway that change something shared: agent     *)
(* turns with their tools, answers to pending actions, edits of memory,     *)
(* profile, settings and workspace, pool jobs and those who follow them.    *)
(* Requests run at the same time on the threads of the runtime; each is a   *)
(* sequence of steps, and between two steps any other request may run.      *)
(***************************************************************************)
EXTENDS Documents, Approvals, Crews

CONSTANTS
  Workloads,    \* what is tried together: requests, the tool calls of the model, what is
                \* stored before, and the bounds on requests ever sent and on restarts
  Sessions,     \* sessions whose turns are kept
  MaxTurns,     \* turns a session's ring keeps (24), and the model's history (12)
  MaxTicks      \* ticks a follower of a job waits (150)

Routings == {"run", "edit", "pool_start", "pool_run", "events", "confirm", "sandbox"}

\* The tools of the model: those that change files, and the others.
FileTools == {"write", "delete"}
ToolCalls == [op : {"call"}, tool : FileTools \cup {"remember", "research", "look"}, path : Paths]

\* The model's history is no session's.  What earlier requests left: entries of turns that
\* are not counted, actions numbered in their order.
ASSUME AgentAssumption ==
  /\ MaxTurns \in Nat /\ MaxTicks \in Nat /\ Sessions \cap {"model", "none"} = {}
  /\ \A w \in Workloads :
    /\ \A ask \in w.asks :
         /\ ask.route \in Routings /\ ask.session \in Sessions \cup {"none"}
         /\ ask.route = "edit" => ask.edit \in Edits
         /\ ask.route = "sandbox" => ask.intent \in FileTools
    /\ w.calls \subseteq Seq(ToolCalls)
    /\ w.docs \in Shelves /\ \A k \in DOMAIN w.docs.memory : w.docs.memory[k].by = 0
    /\ w.pending \in Seq(Actions) /\ Len(w.pending) <= MaxPending + 1
    /\ \A k \in DOMAIN w.pending : w.pending[k].id = k

VARIABLES
  workload,     \* what this behaviour tries
  arrivals,     \* requests so far
  crashes,      \* restarts so far
  req,          \* what each request in progress is doing
  ring          \* the recent turns of each session, and of the model's history

agentVars == <<workload, arrivals, crashes, req, ring>>
vars == <<docVars, approvalVars, crewVars, agentVars>>

\* A request: its route, and what its body says.
Ask(route, intent, class, session) ==
  [route |-> route, intent |-> intent, class |-> class, session |-> session, edit |-> NoEdit]
Edited(edit) == [Ask("edit", "", "general", "none") EXCEPT !.edit = edit]

Idle == [at |-> "idle", ask |-> Ask("none", "", "general", "none"), turn |-> 0,
         todo |-> <<>>, action |-> NoAction, job |-> 0, ticks |-> 0]

AgentInit ==
  /\ workload \in Workloads
  /\ arrivals = 0 /\ crashes = 0
  /\ req = [r \in Requests |-> Idle]
  /\ ring = [s \in Sessions \cup {"model"} |-> <<>>]

Init ==
  /\ AgentInit
  /\ DocsInit(workload.docs) /\ CrewsInit
  /\ ApprovalsInit(workload.files, workload.pending)
-----------------------------------------------------------------------------
(* The steps of a request *)

Becomes(r, q) == req' = [req EXCEPT ![r] = q]
Goes(r, at) == Becomes(r, [req[r] EXCEPT !.at = at])

\* A step that touches nothing but the request itself.
Only(A) == A /\ UNCHANGED <<docVars, approvalVars, crewVars, workload, arrivals, crashes, ring>>
\* A step on the pending actions and the workspace, on the jobs, on the documents.
OnApprovals(A) == A /\ UNCHANGED <<docVars, crewVars, workload, arrivals, crashes, ring>>
OnCrews(A) == A /\ UNCHANGED <<docVars, approvalVars, workload, arrivals, crashes, ring>>
OnDocs(A) == A /\ UNCHANGED <<approvalVars, crewVars, workload, arrivals, crashes, ring>>

Doc(edit) == [op |-> "doc", edit |-> edit]
Turn(to, role) == [op |-> "turn", to |-> to, role |-> role]
Call(tool, path) == [op |-> "call", tool |-> tool, path |-> path]
Finish == [op |-> "finish"]

Remembers(turn, role) == Doc([of |-> "memory", do |-> "append", by |-> turn, role |-> role])

\* Mutant of Recorded: the answer is at hand, so it is recorded first.
RecordedBackwards(q, cited) ==
  LET s == q.ask.session
  IN  (IF s = "none" THEN <<>> ELSE << Turn(s, "user"), Turn(s, "assistant") >>)
      \o << Remembers(q.turn, "assistant"), Remembers(q.turn, "user") >>
      \o (IF cited THEN << Remembers(q.turn, "source") >> ELSE <<>>)

\* What an answered turn leaves: the session's ring, then the memory, entry by entry.
Recorded(q, cited) ==
  LET s == q.ask.session
  IN  (IF s = "none" THEN <<>> ELSE << Turn(s, "user"), Turn(s, "assistant") >>)
      \o << Remembers(q.turn, "user"), Remembers(q.turn, "assistant") >>
      \o (IF cited THEN << Remembers(q.turn, "source") >> ELSE <<>>)

Works(q, todo) == [q EXCEPT !.at = "works", !.todo = todo]
Answered(q, cited) == Works(q, Recorded(q, cited))

\* The first step of each route: agent_run, agent_confirm, agent_pool_run,
\* agent_pool_start, agent_pool_events, sandbox_write, sandbox_delete, and the edits of
\* memory, profile and settings.
Begun(ask, turn) ==
  LET q == [Idle EXCEPT !.ask = ask, !.turn = turn]
  IN  CASE ask.route = "run" ->
             [q EXCEPT !.at = CASE ask.intent = "blank" -> "replies"
                                [] ask.intent \in {"yes", "no"} -> "lists"
                                [] OTHER -> "routes"]
        [] ask.route = "edit" ->
             Works(q, << IF ask.edit.do = "append" THEN Remembers(turn, "user")
                         ELSE Doc(ask.edit) >>)
        [] ask.route = "pool_start" -> [q EXCEPT !.at = "starts"]
        [] ask.route = "pool_run"   -> [q EXCEPT !.at = "launches"]
        [] ask.route = "events"     -> [q EXCEPT !.at = "follows"]
        [] ask.route = "confirm"    -> [q EXCEPT !.at = "takes"]
        [] ask.route = "sandbox"    -> [q EXCEPT !.at = "acts"]

\* The client names the action it answers, the job it follows, the file it changes.
Arrive(r) ==
  /\ req[r].at = "idle" /\ arrivals < workload.arrivals
  /\ arrivals' = arrivals + 1
  /\ \E ask \in workload.asks :
       LET q == Begun(ask, arrivals + 1)
       IN  CASE ask.route = "confirm" ->
                  \E i \in DOMAIN answer : Becomes(r, [q EXCEPT !.action.id = i])
             [] ask.route = "events" ->
                  \E k \in JobIds : board[k].status # "none" /\ Becomes(r, [q EXCEPT !.job = k])
             [] ask.route = "sandbox" ->
                  \E path \in Paths :
                    Becomes(r, [q EXCEPT !.action.do = ask.intent, !.action.path = path])
             [] OTHER -> Becomes(r, q)
  /\ UNCHANGED <<docVars, approvalVars, crewVars, workload, crashes, ring>>

\* A profile field and a fact the user states in passing.
StatedEdit(intent) ==
  IF intent = "name" THEN [of |-> "profile", do |-> "name", name |-> "Alex"]
  ELSE [of |-> "profile", do |-> "fact", fact |-> CHOOSE f \in Facts : TRUE]

KnowsName == Stored("profile").name # "none"
SaidBefore(s) == s # "none" /\ \E k \in DOMAIN ring[s] : ring[s][k].role = "user"

\* tool_loop up to its first wait: identity, dialog context, research, plain tools,
\* search, the model, and what is left without one.
Routes(r) ==
  LET q == req[r]
      intent == q.ask.intent
      answers == \/ intent \in {"identity", "math", "time"}
                 \/ intent = "my_name" /\ (KnowsName \/ SaidBefore(q.ask.session))
                 \/ intent = "what_i_said" /\ SaidBefore(q.ask.session)
      looksUp == intent = "search" \/ (intent = "my_name" /\ ~KnowsName)
      left    == \/ intent \in {"hello", "question"}
                 \/ intent = "what_i_said" /\ ~SaidBefore(q.ask.session)
  IN  /\ q.at = "routes"
      /\ \/ answers /\ Becomes(r, Answered(q, FALSE))
         \/ /\ intent \in {"name", "fact"}
            /\ Becomes(r, Works(q, << Doc(StatedEdit(intent)) >> \o Recorded(q, FALSE)))
         \/ intent = "research" /\ Goes(r, "launches")
         \/ looksUp /\ Goes(r, "searches")
         \/ left /\ CanChat /\ Goes(r, "asks_model")
         \/ intent = "hello" /\ ~CanChat /\ Becomes(r, Answered(q, FALSE))
         \/ left /\ intent # "hello" /\ ~CanChat /\ Goes(r, "replies")

\* web_search_with_sources, found or not.
Searches(r) ==
  /\ req[r].at = "searches"
  /\ \E cited \in BOOLEAN : Becomes(r, Answered(req[r], cited))

\* llm_tool_round: the model calls tools, answers, or fails, which leaves plain chat.
AsksModel(r) ==
  /\ req[r].at = "asks_model"
  /\ \/ \E calls \in workload.calls : Becomes(r, Works(req[r], Append(calls, Finish)))
     \/ Becomes(r, Answered(req[r], FALSE))
     \/ Goes(r, "chats")

\* chat_voice: an answer enters the history every session shares; one that says it
\* cannot know is replaced by a search, which may cite.  Nothing but fillers is
\* answered without the model.
Chats(r) ==
  /\ req[r].at = "chats"
  /\ \/ \E cited \in BOOLEAN :
          Becomes(r, Works(req[r], << Turn("model", "user"), Turn("model", "assistant") >>
                                   \o Recorded(req[r], cited)))
     \/ Becomes(r, Answered(req[r], FALSE))
     \/ Goes(r, "replies")

\* The tools of each class of agent (allowed_tools).
Allows(class, tool) ==
  CASE class = "general"    -> TRUE
    [] class = "researcher" -> tool \notin FileTools
    [] class = "coder"      -> tool # "research"
    [] class = "safe"       -> tool = "look"

\* The first action of a round is the one its reply will show.
Held(q) == IF q.action.id # 0 THEN q.action
           ELSE [NoAction EXCEPT !.id = Len(answer) + 1]

\* Mutant of CallsFile: a delete needs no more ado than a new file.
CallsFileAtOnce(r, c) ==
  LET q == [req[r] EXCEPT !.todo = Tail(@)]
  IN  IF Exists(c.path) /\ c.tool = "write"
      THEN Queue(q.turn, c.tool, c.path) /\ Becomes(r, [q EXCEPT !.action = Held(q)])
      ELSE /\ Becomes(r, [q EXCEPT !.at = "acts",
                                   !.action = [NoAction EXCEPT !.do = c.tool, !.path = c.path]])
           /\ UNCHANGED approvalVars

\* execute_tool for a file: a new file is written, in a step after the look whether it is
\* there; an overwrite and a delete wait for the user.
CallsFile(r, c) ==
  LET q == [req[r] EXCEPT !.todo = Tail(@)]
  IN  IF c.tool = "delete" \/ Exists(c.path)
      THEN Queue(q.turn, c.tool, c.path) /\ Becomes(r, [q EXCEPT !.action = Held(q)])
      ELSE /\ Becomes(r, [req[r] EXCEPT !.at = "writes"])
           /\ UNCHANGED approvalVars

Writes(r) ==
  /\ req[r].at = "writes"
  /\ Performs("write", Head(req[r].todo).path, "agent")
  /\ Becomes(r, [req[r] EXCEPT !.at = "works", !.todo = Tail(@)])

\* execute_tool for the tools without files.
Calls(r, c) ==
  LET q == [req[r] EXCEPT !.todo = Tail(@)]
  IN  \/ c.tool = "remember" /\ Allows(q.ask.class, c.tool)
           /\ Becomes(r, [q EXCEPT !.todo = << Doc(StatedEdit("fact")) >> \o @])
      \/ c.tool = "research" /\ Allows(q.ask.class, c.tool)
           /\ Becomes(r, [q EXCEPT !.at = "launches"])
      \/ (c.tool = "look" \/ ~Allows(q.ask.class, c.tool)) /\ Becomes(r, q)

Rung(s, q, role) ==
  LET turns == Append(ring[s], [by |-> q.turn, role |-> role])
  IN  IF Len(turns) > MaxTurns THEN Tail(turns) ELSE turns

\* The next thing to do of a request that has no document in hand.
DoesNext(r) ==
  LET q    == req[r]
      next == Head(q.todo)
      rest == [q EXCEPT !.todo = Tail(@)]
  IN  /\ q.at = "works" /\ hand[r].at = "free"
      /\ \/ q.todo = <<>> /\ Only(Goes(r, "replies"))
         \/ q.todo # <<>> /\ next.op = "doc" /\ OnDocs(Load(r, next.edit) /\ Becomes(r, rest))
         \/ /\ q.todo # <<>> /\ next.op = "turn"
            /\ ring' = [ring EXCEPT ![next.to] = Rung(next.to, q, next.role)]
            /\ Becomes(r, rest)
            /\ UNCHANGED <<docVars, approvalVars, crewVars, workload, arrivals, crashes>>
         \/ /\ q.todo # <<>> /\ next.op = "call"
            /\ IF next.tool \in FileTools /\ Allows(q.ask.class, next.tool)
               THEN OnApprovals(CallsFile(r, next)) ELSE Only(Calls(r, next))
         \/ /\ q.todo # <<>> /\ next.op = "finish"
            /\ IF q.action.id # 0 THEN Only(Goes(r, "replies"))
               ELSE Only(\E cited \in BOOLEAN : Becomes(r, Answered(q, cited)))

\* The rest of an edit.
Saves(r) == OnDocs((Truncate(r) \/ Write(r)) /\ UNCHANGED req)

\* try_voice_confirm: the newest action is the one a yes or a no is about.
Lists(r) ==
  /\ req[r].at = "lists"
  /\ Purges
  /\ IF Newest = {} THEN Goes(r, "replies")
     ELSE \E a \in Newest : Becomes(r, [req[r] EXCEPT !.at = "takes", !.action.id = a.id])

Approves(ask) == ask.intent \in {"yes", "approve"}

\* execute_approved and reject.
Takes(r) ==
  LET q == req[r]
      id == q.action.id
  IN  /\ q.at = "takes"
      /\ \/ /\ Take(id, IF Approves(q.ask) THEN "approved" ELSE "rejected")
            /\ IF Approves(q.ask)
               THEN Becomes(r, [q EXCEPT !.at = "acts", !.action = Waiting(id)])
               ELSE Becomes(r, [q EXCEPT !.at = "replies", !.action = NoAction])
         \/ ~Waits(id) /\ Purges /\ Becomes(r, [q EXCEPT !.at = "replies", !.action = NoAction])

Acts(r) ==
  LET q == req[r]
      whose == IF q.ask.route = "sandbox" THEN "user" ELSE "agent"
  IN  /\ q.at = "acts"
      /\ Becomes(r, [q EXCEPT !.at = "replies", !.action = NoAction])
      /\ Performs(q.action.do, q.action.path, whose)

\* run_pool_tracked within a request: it waits for its crew.
Launches(r) ==
  /\ req[r].at = "launches"
  /\ \E n \in Sizes : Launch(n)
  /\ Becomes(r, [req[r] EXCEPT !.at = "waits", !.job = NextJob])

Starts(r) ==
  /\ req[r].at = "starts"
  /\ \E n \in Sizes : LaunchInBackground(n)
  /\ Goes(r, "replies")

\* A synthesis answers the turn; without one, what was to be researched is searched for.
HearsCrew(r) ==
  LET q == req[r]
      agents == crew[q.job].agents
  IN  /\ q.at = "waits" /\ crew[q.job].task = "done"
      /\ \/ q.ask.route = "pool_run" /\ Goes(r, "replies")
         \/ q.ask.intent = "research" /\ Succeeded(agents) # {} /\ Becomes(r, Answered(q, TRUE))
         \/ q.ask.intent = "research" /\ Goes(r, "searches")
         \/ q.ask.route = "run" /\ q.ask.intent # "research" /\ Goes(r, "works")

\* agent_pool_events: a tick of the stream, until the job is done, gone, or it has been
\* followed long enough.
Follows(r) ==
  LET q == req[r]
      job == board[q.job]
  IN  /\ q.at = "follows"
      /\ IF job.status = "running" /\ q.ticks < MaxTicks
         THEN Becomes(r, [q EXCEPT !.ticks = @ + 1])
         ELSE Goes(r, "replies")

Replies(r) ==
  /\ req[r].at = "replies"
  /\ Shows(req[r].action.id)
  /\ Becomes(r, Idle)

Step(r) ==
  \/ Only(Routes(r) \/ Searches(r) \/ AsksModel(r) \/ Chats(r) \/ HearsCrew(r) \/ Follows(r))
  \/ OnApprovals(Writes(r) \/ Lists(r) \/ Takes(r) \/ Acts(r) \/ Replies(r))
  \/ OnCrews(Launches(r) \/ Starts(r))
  \/ DoesNext(r)
  \/ Saves(r)

\* The process dies: what is in memory is gone, requests end without an answer.
Crash ==
  /\ crashes < workload.crashes /\ crashes' = crashes + 1
  /\ DocsCrash(workload.docs.settings) /\ ApprovalsCrash /\ CrewsCrash
  /\ req' = [r \in Requests |-> Idle]
  /\ ring' = [s \in DOMAIN ring |-> <<>>]
  /\ UNCHANGED <<workload, arrivals>>

Next ==
  \/ \E r \in Requests : Arrive(r) \/ Step(r)
  \/ CrewsStep /\ UNCHANGED <<docVars, approvalVars, agentVars>>
  \/ Expire /\ UNCHANGED <<docVars, crewVars, agentVars>>
  \/ Crash

Spec == Init /\ [][Next]_vars
-----------------------------------------------------------------------------
(* Properties *)

Places == {"idle", "routes", "searches", "asks_model", "chats", "works", "writes", "lists",
           "takes", "acts", "launches", "starts", "waits", "follows", "replies"}

\* The shape of the state, with the caps of the stores: a map of pending actions is purged
\* before an insertion, so it holds one action more than its cap.
TypeOK ==
  /\ \A d \in Kinds : file[d].whole \in BOOLEAN
  /\ Len(Stored("memory")) <= MaxEntries
  /\ \A k \in DOMAIN Stored("memory") : Stored("memory")[k].by \in 0..arrivals
  /\ Range(Stored("profile").facts) \subseteq Facts
  /\ Len(Stored("profile").facts) <= MaxFacts
  /\ \A r \in Requests : hand[r].at \in {"free", "edited", "opened"}
                         /\ (hand[r].at # "free" => hand[r].edit \in Edits)
                         /\ req[r].at \in Places /\ req[r].ticks \in 0..MaxTicks
                         /\ req[r].action \in Actions
  /\ files \in [Paths -> {"none", "user", "agent"}]
  /\ Range(pending) \subseteq Actions /\ Len(pending) <= MaxPending + 1
  /\ Range(answer) \subseteq Answers /\ shown \subseteq DOMAIN answer
  /\ \A k \in JobIds : board[k].total \in 0..MaxAgents
  /\ \A s \in DOMAIN ring : Len(ring[s]) <= MaxTurns
-----------------------------------------------------------------------------
\* A file of the workspace disappears only by the user's hand: the user's own request, or
\* an action the user approved (delete_file, execute_approved, sandbox_delete).
DeletionIsApproved ==
  [][\A p \in Paths : Exists(p) /\ files'[p] = "none" =>
       \E r \in Requests :
         /\ req[r].at = "acts" /\ req'[r].at # "acts" /\ req[r].action.path = p
         /\ \/ req[r].ask.route = "sandbox"
            \/ req[r].action.id # 0 /\ answer[req[r].action.id] = "approved"]_vars

\* However requests overlap, a turn's answer never stands before its question, neither in
\* the memory nor in a session's ring (run, append_memory, append_and_context); the turns
\* of earlier runs are not told apart.
QuestionsFirst ==
  \A turns \in {Stored("memory")} \cup Range(ring) :
    \A i, j \in DOMAIN turns :
      turns[i].by = turns[j].by /\ turns[j].by # 0 /\ turns[i].role # "user" /\ turns[j].role = "user" => j < i

\* A spoken yes carries out an action the user was asked about (llm_tool_round,
\* try_voice_confirm).
YesIsToTheQuestion ==
  [][\A r \in Requests :
       req[r].at = "takes" /\ req'[r].at = "acts" /\ req[r].ask.intent = "yes"
         => req[r].action.id \in shown]_vars
=============================================================================
