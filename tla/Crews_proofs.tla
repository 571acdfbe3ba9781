------------------------------ MODULE Crews_proofs ------------------------------
(***************************************************************************)
(* Pool jobs, for every number of jobs, agents and places at work: what the *)
(* board says of a job is true of its crew, in every interleaving of the    *)
(* crews, of those who start them and of a restart.                         *)
(***************************************************************************)
EXTENDS Agent, FiniteSetTheorems, TLAPS

USE CrewsAssumption

Stages == {"none", "waiting", "working", "ok", "failed"}
Crew == [task : {"none", "spawned", "running", "done"}, agents : [1..MaxAgents -> Stages]]
Job == [status : {"none", "running", "completed", "error"}, total : 0..MaxAgents,
        completed : Nat, partial : SUBSET (1..MaxAgents)]

\* The first n agents of a crew are its members.
FirstOf(n, agents) == \A i \in 1..MaxAgents : agents[i] # "none" <=> i <= n
Manned(job, agents) == FirstOf(job.total, agents)

\* What the board says of a job against its crew.
Truth(job, c) ==
  /\ AtWork(c.agents) # {} => c.task = "running"
  /\ c.task = "spawned" =>
       /\ job.status = "running" /\ Ended(c.agents) = {}
       /\ \E n \in 0..MaxAgents : FirstOf(n, c.agents)
  /\ job.status = "running" =>
       /\ c.task \in {"spawned", "running"}
       /\ c.task = "running" => Manned(job, c.agents)
       /\ job.partial = Ended(c.agents) /\ job.completed = Cardinality(job.partial)
  /\ job.status \in {"completed", "error"} =>
       /\ c.task = "done"
       /\ Cardinality(job.partial) = job.total
       /\ job.completed <= job.total /\ (job.status = "error" <=> job.completed = 0)

CrewsInv ==
  /\ board \in [JobIds -> Job] /\ crew \in [JobIds -> Crew]
  /\ \A k \in JobIds : Truth(board[k], crew[k])
-----------------------------------------------------------------------------
\* A step of one job keeps the invariant when what it leaves is true.
JobStep(k, job, c) ==
  /\ board' = [board EXCEPT ![k] = job]
  /\ crew' = [crew EXCEPT ![k] = c]

LEMMA JobStepKeeps ==
  ASSUME CrewsInv, NEW k, NEW job \in Job, NEW c \in Crew, Truth(job, c), JobStep(k, job, c)
  PROVE  CrewsInv'
<1>1. board' \in [JobIds -> Job] /\ crew' \in [JobIds -> Crew]
  BY DEF JobStep, CrewsInv
<1>2. \A j \in JobIds : (j = k /\ board'[j] = job /\ crew'[j] = c)
                        \/ (board'[j] = board[j] /\ crew'[j] = crew[j])
  BY DEF JobStep, CrewsInv
<1>3. \A j \in JobIds : Truth(board'[j], crew'[j])
  BY <1>2 DEF CrewsInv
<1> QED
  BY <1>1, <1>3 DEF CrewsInv, Truth, Manned, FirstOf, AtWork, Ended

LEMMA Counts ==
  ASSUME NEW S \in SUBSET (1..MaxAgents)
  PROVE  IsFiniteSet(S) /\ Cardinality(S) \in Nat /\ (Cardinality(S) = 0 <=> S = {})
<1>1. IsFiniteSet(1..MaxAgents)
  BY FS_Interval
<1>2. IsFiniteSet(S)
  BY <1>1, FS_Subset
<1> QED
  BY <1>2, FS_CardinalityType, FS_EmptySet

LEMMA CrewedIsTrue ==
  ASSUME NEW n \in Sizes
  PROVE  /\ Running(n) \in Job /\ Crewed(n) \in Crew /\ Truth(Running(n), Crewed(n))
         /\ [Crewed(n) EXCEPT !.task = "spawned"] \in Crew
         /\ \A asked \in Sizes : Truth(Running(asked), [Crewed(n) EXCEPT !.task = "spawned"])
<1>1. n \in 0..MaxAgents
  OBVIOUS
<1>2. Running(n) \in Job
  BY <1>1 DEF Running, Job
<1>3. Crewed(n) \in Crew
  BY DEF Crewed, Crew, Stages
<1>4. [Crewed(n) EXCEPT !.task = "spawned"] \in Crew
  BY <1>3 DEF Crew
<1>5. AtWork(Crewed(n).agents) = {} /\ Ended(Crewed(n).agents) = {}
  BY DEF Crewed, AtWork, Ended
<1>6. FirstOf(n, Crewed(n).agents) /\ Running(n).total = n
  BY <1>1 DEF FirstOf, Running, Crewed
<1>7. Cardinality({}) = 0
  BY FS_EmptySet
<1>8. Truth(Running(n), Crewed(n))
  BY <1>5, <1>6, <1>7 DEF Truth, Manned, Running, Crewed
<1>9. \A asked \in Sizes : Truth(Running(asked), [Crewed(n) EXCEPT !.task = "spawned"])
  BY <1>1, <1>3, <1>5, <1>6, <1>7 DEF Truth, Running, Crewed, Crew
<1> QED
  BY <1>2, <1>3, <1>4, <1>8, <1>9
-----------------------------------------------------------------------------
(* One lemma for each step of a crew *)

LEMMA BeginsKeeps ==
  ASSUME CrewsInv, NEW k \in JobIds, Begins(k)
  PROVE  CrewsInv'
<1>1. board[k] \in Job /\ crew[k] \in Crew /\ Truth(board[k], crew[k])
  BY DEF CrewsInv
<1>5. PICK n \in 0..MaxAgents : FirstOf(n, crew[k].agents)
  BY <1>1 DEF Begins, Truth
<1>6. Members(crew[k].agents) = 1..n
  BY <1>5 DEF Members, FirstOf
<1>7. Cardinality(Members(crew[k].agents)) = n
  BY <1>6, FS_Interval
<1> DEFINE job == Running(n)
           c == [crew[k] EXCEPT !.task = "running"]
<1>2. job \in Job /\ c \in Crew
  BY <1>1 DEF Job, Crew, Running
<1>3. Truth(job, c)
  <2>1. c.agents = crew[k].agents /\ c.task = "running" /\ Ended(c.agents) = {}
    BY <1>1 DEF Begins, Truth, Crew
  <2>2. /\ job.status = "running" /\ job.total = n /\ job.completed = 0 /\ job.partial = {}
        /\ Cardinality({}) = 0
    BY FS_EmptySet DEF Running
  <2> HIDE DEF job, c
  <2> QED
    BY <1>5, <2>1, <2>2 DEF Truth, Manned
<1>4. JobStep(k, job, c)
  BY <1>7 DEF Begins, JobStep, CrewsInv
<1> QED
  BY <1>2, <1>3, <1>4, JobStepKeeps

LEMMA AgentBeginsKeeps ==
  ASSUME CrewsInv, NEW k \in JobIds, AgentBegins(k)
  PROVE  CrewsInv'
<1>1. board[k] \in Job /\ crew[k] \in Crew /\ Truth(board[k], crew[k])
  BY DEF CrewsInv
<1>2. PICK i \in 1..MaxAgents :
        crew[k].agents[i] = "waiting" /\ crew' = [crew EXCEPT ![k].agents[i] = "working"]
  BY DEF AgentBegins
<1> DEFINE agents == [crew[k].agents EXCEPT ![i] = "working"]
           c == [crew[k] EXCEPT !.agents = agents]
<1>3. c \in Crew
  BY <1>1, <1>2 DEF Crew, Stages
<1>4. Ended(agents) = Ended(crew[k].agents) /\ \A j \in 1..MaxAgents :
        agents[j] # "none" <=> crew[k].agents[j] # "none"
  BY <1>1, <1>2 DEF Ended, Crew
<1>5. c.agents = agents /\ c.task = "running"
  BY <1>1 DEF AgentBegins, Crew
<1>6. Truth(board[k], c)
  BY <1>1, <1>4, <1>5 DEF AgentBegins, Truth, Manned, FirstOf
<1>7. JobStep(k, board[k], c)
  BY <1>2 DEF AgentBegins, JobStep, CrewsInv
<1> QED
  BY <1>1, <1>3, <1>6, <1>7, JobStepKeeps

LEMMA AgentReportsKeeps ==
  ASSUME CrewsInv, NEW k \in JobIds, AgentReports(k)
  PROVE  CrewsInv'
<1>1. board[k] \in Job /\ crew[k] \in Crew /\ Truth(board[k], crew[k])
  BY DEF CrewsInv
<1>2. PICK i \in AtWork(crew[k].agents), end \in {"ok", "failed"} :
        LET agents == [crew[k].agents EXCEPT ![i] = end]
        IN  /\ crew' = [crew EXCEPT ![k].agents = agents]
            /\ board' = [board EXCEPT ![k] =
                 IF @.status = "none" THEN @
                 ELSE [@ EXCEPT !.completed = Cardinality(Ended(agents)),
                            !.partial = board[k].partial \cup {i}]]
  BY DEF AgentReports
<1> DEFINE agents == [crew[k].agents EXCEPT ![i] = end]
           c == [crew[k] EXCEPT !.agents = agents]
           told == [board[k] EXCEPT !.completed = Cardinality(Ended(agents)),
                                    !.partial = @ \cup {i}]
           job == IF board[k].status = "none" THEN board[k] ELSE told
<1>3. i \in 1..MaxAgents /\ crew[k].agents[i] = "working" /\ crew[k].task = "running"
  BY <1>1 DEF AtWork, Truth
<1>4. c \in Crew /\ c.agents = agents /\ c.task = "running"
  BY <1>1, <1>3 DEF Crew, Stages
<1>5. /\ Ended(agents) = Ended(crew[k].agents) \cup {i}
      /\ \A j \in 1..MaxAgents : agents[j] # "none" <=> crew[k].agents[j] # "none"
  BY <1>1, <1>3 DEF Ended, Crew
<1>6. Ended(agents) \in SUBSET (1..MaxAgents) /\ Cardinality(Ended(agents)) \in Nat
  BY Counts DEF Ended
<1>7. job \in Job
  BY <1>1, <1>3, <1>6 DEF Job
<1>8. Truth(job, c)
  <2>1. CASE board[k].status = "running"
    <3>1. /\ job.status = "running" /\ job.total = board[k].total
          /\ job.completed = Cardinality(Ended(agents)) /\ job.partial = board[k].partial \cup {i}
      BY <1>1, <2>1 DEF Job
    <3> HIDE DEF job, c, agents
    <3> QED
      BY <1>1, <1>3, <1>4, <1>5, <2>1, <3>1 DEF Truth, Manned, FirstOf
  <2>2. CASE board[k].status = "none"
    BY <1>4, <2>2 DEF Truth
  <2> QED
    BY <1>1, <1>3, <2>1, <2>2 DEF Truth, Job
<1>9. JobStep(k, job, c)
  <2>1. crew' = [crew EXCEPT ![k] = c]
    BY <1>2 DEF CrewsInv
  <2>2. board' = [board EXCEPT ![k] = job]
    BY <1>2 DEF CrewsInv
  <2> QED
    BY <2>1, <2>2 DEF JobStep
<1> QED
  BY <1>4, <1>7, <1>8, <1>9, JobStepKeeps

LEMMA FinishesKeeps ==
  ASSUME CrewsInv, NEW k \in JobIds, Finishes(k)
  PROVE  CrewsInv'
<1> DEFINE agents == crew[k].agents
           c == [crew[k] EXCEPT !.task = "done"]
           told == [board[k] EXCEPT !.status = Outcome(agents),
                                    !.completed = Cardinality(Succeeded(agents)),
                                    !.partial = Ended(agents)]
           job == IF board[k].status = "none" THEN board[k] ELSE told
<1>1. board[k] \in Job /\ crew[k] \in Crew /\ Truth(board[k], crew[k])
  BY DEF CrewsInv
<1>2. crew[k].task = "running" /\ AllEnded(agents)
  BY DEF Finishes, Finished
<1>3. c \in Crew /\ c.agents = agents /\ c.task = "done"
  BY <1>1 DEF Crew
<1>4. /\ Ended(agents) \in SUBSET (1..MaxAgents) /\ Succeeded(agents) \in SUBSET Ended(agents)
      /\ AtWork(agents) = {}
  BY <1>2 DEF Ended, Succeeded, AtWork, AllEnded
<1>5. /\ Cardinality(Succeeded(agents)) \in Nat /\ Cardinality(Ended(agents)) \in Nat
      /\ Cardinality(Succeeded(agents)) <= Cardinality(Ended(agents))
      /\ Cardinality(Succeeded(agents)) = 0 <=> Succeeded(agents) = {}
  <2>1. IsFiniteSet(Ended(agents)) /\ Cardinality(Ended(agents)) \in Nat
    BY <1>4, Counts
  <2>2. Succeeded(agents) \in SUBSET (1..MaxAgents)
    BY <1>4
  <2>3. /\ Cardinality(Succeeded(agents)) \in Nat
        /\ Cardinality(Succeeded(agents)) = 0 <=> Succeeded(agents) = {}
    BY <2>2, Counts
  <2>4. Cardinality(Succeeded(agents)) <= Cardinality(Ended(agents))
    BY <1>4, <2>1, FS_Subset
  <2> QED
    BY <2>1, <2>3, <2>4
<1>6. job \in Job
  BY <1>1, <1>4, <1>5 DEF Job, Outcome
<1>7. Truth(job, c)
  <2>1. CASE board[k].status = "running"
    <3>1. board[k].total \in 0..MaxAgents /\ Manned(board[k], agents)
      BY <1>1, <1>2, <2>1 DEF Truth, Job
    <3>2. Ended(agents) = 1..board[k].total
      BY <1>1, <1>2, <3>1 DEF Ended, AllEnded, Manned, FirstOf, Crew
    <3>3. Cardinality(Ended(agents)) = board[k].total
      BY <3>1, <3>2, FS_Interval
    <3>4. /\ job.status = Outcome(agents) /\ job.total = board[k].total
          /\ job.completed = Cardinality(Succeeded(agents)) /\ job.partial = Ended(agents)
      BY <1>1, <2>1 DEF Job
    <3>5. job.status \in {"completed", "error"} /\ (job.status = "error" <=> job.completed = 0)
      BY <1>5, <3>4 DEF Outcome
    <3> HIDE DEF job, c, agents
    <3> QED
      BY <1>3, <1>4, <1>5, <3>3, <3>4, <3>5 DEF Truth
  <2>2. CASE board[k].status = "none"
    BY <1>3, <1>4, <2>2 DEF Truth
  <2> QED
    BY <1>1, <1>2, <2>1, <2>2 DEF Truth, Job
<1>8. JobStep(k, job, c)
  BY DEF Finishes, JobStep, CrewsInv
<1> QED
  BY <1>3, <1>6, <1>7, <1>8, JobStepKeeps

LEMMA JobExpiresKeeps ==
  ASSUME CrewsInv, NEW k \in JobIds, JobExpires(k)
  PROVE  CrewsInv'
<1>1. board[k] \in Job /\ crew[k] \in Crew /\ Truth(board[k], crew[k])
  BY DEF CrewsInv
<1>2. NoJob \in Job
  BY DEF NoJob, Job
<1>3. Truth(NoJob, crew[k])
  BY <1>1 DEF NoJob, Truth, JobExpires
<1>4. JobStep(k, NoJob, crew[k])
  BY DEF JobExpires, JobStep, CrewsInv
<1> QED
  BY <1>1, <1>2, <1>3, <1>4, JobStepKeeps

LEMMA NoCrewIsTrue ==
  /\ NoJob \in Job /\ NoCrew \in Crew /\ [NoCrew EXCEPT !.task = "done"] \in Crew
  /\ Truth(NoJob, NoCrew) /\ Truth(NoJob, [NoCrew EXCEPT !.task = "done"])
<1>1. NoJob \in Job /\ NoCrew \in Crew
  BY DEF NoJob, NoCrew, Job, Crew, Stages
<1>2. /\ [NoCrew EXCEPT !.task = "done"] \in Crew
      /\ [NoCrew EXCEPT !.task = "done"].task = "done"
      /\ [NoCrew EXCEPT !.task = "done"].agents = NoCrew.agents
  BY <1>1 DEF Crew
<1>3. AtWork(NoCrew.agents) = {} /\ NoCrew.task = "none" /\ NoJob.status = "none"
  BY DEF NoCrew, NoJob, AtWork
<1> QED
  BY <1>1, <1>2, <1>3 DEF Truth

LEMMA CrewsCrashKeeps ==
  ASSUME CrewsInv, CrewsCrash
  PROVE  CrewsInv'
<1>1. board' = [k \in JobIds |-> NoJob]
  BY DEF CrewsCrash
<1>2. crew' \in [JobIds -> {NoCrew, [NoCrew EXCEPT !.task = "done"]}]
  BY DEF CrewsCrash
<1>3. \A k \in JobIds : board'[k] \in Job /\ crew'[k] \in Crew /\ Truth(board'[k], crew'[k])
  BY <1>1, <1>2, NoCrewIsTrue
<1>4. board' \in [JobIds -> Job] /\ crew' \in [JobIds -> Crew]
  BY <1>1, <1>2, NoCrewIsTrue
<1> QED
  BY <1>3, <1>4 DEF CrewsInv, Truth, Manned, FirstOf, AtWork, Ended

LEMMA LaunchKeeps ==
  ASSUME CrewsInv, NEW n \in Sizes, Launch(n) \/ LaunchInBackground(n)
  PROVE  CrewsInv'
<1>1. \/ JobStep(NextJob, Running(n), Crewed(n))
      \/ \E members \in Sizes :
           JobStep(NextJob, Running(n), [Crewed(members) EXCEPT !.task = "spawned"])
  BY DEF Launch, LaunchInBackground, JobStep
<1> QED
  BY <1>1, CrewedIsTrue, JobStepKeeps
-----------------------------------------------------------------------------
LEMMA CrewsBegin == Init => CrewsInv
BY NoCrewIsTrue DEF Init, CrewsInit, CrewsInv

LEMMA CrewsGoOn ==
  ASSUME CrewsInv, [Next]_vars
  PROVE  CrewsInv'
<1>1. CASE UNCHANGED crewVars
  BY <1>1 DEF crewVars, CrewsInv
<1>2. CASE CrewsStep
  BY <1>2, BeginsKeeps, AgentBeginsKeeps, AgentReportsKeeps, FinishesKeeps, JobExpiresKeeps
  DEF CrewsStep
<1>3. CASE Crash
  BY <1>3, CrewsCrashKeeps DEF Crash
<1>4. ASSUME NEW r \in Requests, Arrive(r) \/ Step(r)
      PROVE  CrewsInv'
  <2>1. CASE OnCrews(Launches(r) \/ Starts(r))
    BY <2>1, LaunchKeeps DEF OnCrews, Launches, Starts
  <2>2. CASE Arrive(r)
    BY <1>1, <2>2 DEF Arrive
  <2>3. CASE DoesNext(r)
    BY <1>1, <2>3 DEF DoesNext, Only, OnDocs, OnApprovals
  <2> QED
    BY <1>1, <1>4, <2>1, <2>2, <2>3 DEF Step, Only, OnApprovals, Saves, OnDocs
<1>5. CASE (Expire /\ UNCHANGED <<docVars, crewVars, agentVars>>) \/ UNCHANGED vars
  BY <1>1, <1>5 DEF vars
<1> QED
  BY <1>2, <1>3, <1>4, <1>5 DEF Next
-----------------------------------------------------------------------------
(* Theorems *)

\* The board and the crews have their types, and each job's line is true of its crew.
THEOREM CrewsInvariance == Spec => []CrewsInv
BY CrewsBegin, CrewsGoOn, PTL DEF Spec

\* BoardTellsTheTruth: a running job counts exactly the agents that reported, a job that
\* is done speaks of all of them, whatever order they end in.
THEOREM BoardIsTrue == Spec => []BoardTellsTheTruth
<1>1. CrewsInv => BoardTellsTheTruth
  BY DEF CrewsInv, Truth, BoardTellsTheTruth
<1> QED
  BY <1>1, CrewsInvariance, PTL
=============================================================================
