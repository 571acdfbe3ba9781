--------------------------------- MODULE Crews ---------------------------------
(***************************************************************************)
(* Pool jobs: several agents research one question, a few at a time, while  *)
(* clients follow the job on a locked board.  The agents of a job are       *)
(* futures of one task, so an agent counts itself and reports in one step.  *)
(***************************************************************************)
EXTENDS Naturals, FiniteSets

CONSTANTS
  MaxJobs,      \* bound of the model: jobs ever started
  MaxAgents,    \* agents a job may ask for (50)
  Sizes,        \* the agents a request may ask for, and the tasks it may list
  Width         \* agents of a job that run at once (8)

ASSUME CrewsAssumption ==
  MaxJobs \in Nat /\ MaxAgents \in Nat /\ Sizes \subseteq 0..MaxAgents

VARIABLES
  board,        \* each job as clients see it
  crew          \* each job's agents, and how far its task is

crewVars == <<board, crew>>

JobIds == 1..MaxJobs
NoJob == [status |-> "none", total |-> 0, completed |-> 0, partial |-> {}]
Running(n) == [status |-> "running", total |-> n, completed |-> 0, partial |-> {}]
NoCrew == [task |-> "none", agents |-> [i \in 1..MaxAgents |-> "none"]]

CrewsInit == board = [k \in JobIds |-> NoJob] /\ crew = [k \in JobIds |-> NoCrew]

Ended(agents) == {i \in 1..MaxAgents : agents[i] \in {"ok", "failed"}}
Succeeded(agents) == {i \in 1..MaxAgents : agents[i] = "ok"}
AtWork(agents) == {i \in 1..MaxAgents : agents[i] = "working"}

NextJob == CHOOSE k \in JobIds : crew[k].task = "none" /\ \A j \in 1..(k - 1) : crew[j].task # "none"
JobsLeft == \E k \in JobIds : crew[k].task = "none"

Crewed(n) == [task |-> "running",
              agents |-> [i \in 1..MaxAgents |-> IF i <= n THEN "waiting" ELSE "none"]]

\* run_pool_tracked: the job is put on the board and runs.
Launch(n) ==
  /\ JobsLeft
  /\ board' = [board EXCEPT ![NextJob] = Running(n)]
  /\ crew' = [crew EXCEPT ![NextJob] = Crewed(n)]

\* start_pool_job: the job is put on the board with the agents asked for, and again
\* by its own task with the agents that there are tasks for.
LaunchInBackground(n) ==
  /\ JobsLeft
  /\ board' = [board EXCEPT ![NextJob] = Running(n)]
  /\ \E members \in {m \in Sizes : m <= n} :
       crew' = [crew EXCEPT ![NextJob] = [Crewed(members) EXCEPT !.task = "spawned"]]

Members(agents) == {i \in 1..MaxAgents : agents[i] # "none"}

Begins(k) ==
  /\ crew[k].task = "spawned"
  /\ board' = [board EXCEPT ![k] = Running(Cardinality(Members(crew[k].agents)))]
  /\ crew' = [crew EXCEPT ![k].task = "running"]

\* buffer_unordered: the next agent begins when fewer than Width are at work.
AgentBegins(k) ==
  /\ crew[k].task = "running"
  /\ Cardinality(AtWork(crew[k].agents)) < Width
  /\ \E i \in 1..MaxAgents :
       /\ crew[k].agents[i] = "waiting"
       /\ \A j \in 1..(i - 1) : crew[k].agents[j] # "waiting"
       /\ crew' = [crew EXCEPT ![k].agents[i] = "working"]
  /\ UNCHANGED board

\* An agent's search ends, well or badly, and it reports on the board.
AgentReports(k) ==
  \E i \in AtWork(crew[k].agents), end \in {"ok", "failed"} :
    LET agents == [crew[k].agents EXCEPT ![i] = end]
    IN  /\ crew' = [crew EXCEPT ![k].agents = agents]
        /\ board' = [board EXCEPT ![k] =
             IF @.status = "none" THEN @
             ELSE [@ EXCEPT !.completed = Cardinality(Ended(agents)),
                            !.partial = board[k].partial \cup {i}]]

AllEnded(agents) == \A i \in 1..MaxAgents : agents[i] \in {"none", "ok", "failed"}

\* Mutant of Finished: the crew is done when nobody is at work.
FinishedIdle(k) ==
  crew[k].task = "running" /\ AtWork(crew[k].agents) = {} /\ Ended(crew[k].agents) # {}

\* collect: every agent has ended.
Finished(k) == crew[k].task = "running" /\ AllEnded(crew[k].agents)

Outcome(agents) == IF Succeeded(agents) = {} THEN "error" ELSE "completed"

\* The job's last word: completed now counts the agents that found something.
Finishes(k) ==
  LET agents == crew[k].agents
  IN  /\ Finished(k)
      /\ crew' = [crew EXCEPT ![k].task = "done"]
      /\ board' = [board EXCEPT ![k] =
           IF @.status = "none" THEN @
           ELSE [@ EXCEPT !.status = Outcome(agents),
                          !.completed = Cardinality(Succeeded(agents)),
                          !.partial = Ended(agents)]]

\* A job leaves the board fifteen minutes after it was put there, done or not.
JobExpires(k) ==
  /\ board[k].status # "none" /\ crew[k].task # "spawned"
  /\ board' = [board EXCEPT ![k] = NoJob]
  /\ UNCHANGED crew

CrewsStep ==
  \E k \in JobIds :
    Begins(k) \/ AgentBegins(k) \/ AgentReports(k) \/ Finishes(k) \/ JobExpires(k)

\* The process dies with the jobs it runs.
CrewsCrash ==
  /\ board' = [k \in JobIds |-> NoJob]
  /\ crew' = [k \in JobIds |-> IF crew[k].task = "none" THEN NoCrew ELSE [NoCrew EXCEPT !.task = "done"]]
-----------------------------------------------------------------------------
(* Properties *)

\* A job that says it is done says it of every agent: no agent is still at work or
\* unheard, and its count is of those that found something; a running job counts exactly
\* those that reported (run_pool_tracked_with_id).
BoardTellsTheTruth ==
  \A k \in JobIds :
    LET job == board[k]
    IN  CASE job.status = "running" -> job.completed = Cardinality(job.partial)
          [] job.status \in {"completed", "error"} ->
               /\ Cardinality(job.partial) = job.total
               /\ job.completed <= job.total /\ (job.status = "error" <=> job.completed = 0)
          [] OTHER -> TRUE
=============================================================================
