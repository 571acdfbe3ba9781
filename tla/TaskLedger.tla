------------------------------ MODULE TaskLedger ------------------------------
(***************************************************************************)
(* What a session promises about its tasks: a task is acknowledged once,   *)
(* then resolved at most once with one result, and the client is told of   *)
(* each of these exactly when it happens.                                  *)
(***************************************************************************)
CONSTANT TaskIds

VARIABLES
  status,   \* "none", "acknowledged" or the result of each task
  news      \* what the last step announced: pairs of a task and its status

vars == <<status, news>>

Outcomes == {"success", "failure", "cancelled"}

Init ==
  /\ status = [t \in TaskIds |-> "none"]
  /\ news = {}

\* The status a task may take from another.
Follows(old, new) ==
  \/ old = "none" /\ new = "acknowledged"
  \/ old = "acknowledged" /\ new \in Outcomes

Next ==
  /\ status' \in [TaskIds -> {"none", "acknowledged"} \cup Outcomes]
  /\ \A t \in TaskIds : status'[t] = status[t] \/ Follows(status[t], status'[t])
  /\ news' = {<<t, status'[t]>> : t \in {u \in TaskIds : status'[u] # status[u]}}

Spec == Init /\ [][Next]_vars
=============================================================================
