------------------------------- MODULE Approvals -------------------------------
(***************************************************************************)
(* The files of the sandbox workspace and the destructive actions that wait *)
(* for the user's yes or no, kept in one locked map.  Every access to the   *)
(* map first drops what is too old or too much.                             *)
(***************************************************************************)
EXTENDS Naturals, Sequences, SequencesExt

CONSTANTS
  Paths,        \* workspace files
  MaxPending,   \* actions that may wait (64)
  MaxActions    \* bound of the model: actions ever queued

ASSUME ApprovalsAssumption == MaxPending \in Nat /\ MaxActions \in Nat

VARIABLES
  files,        \* whose content each path has: "none", the "user"'s, the "agent"'s
  pending,      \* the actions waiting, in the order they were queued
  answer,       \* what became of each action ever queued
  shown         \* the actions put before the user

approvalVars == <<files, pending, answer, shown>>

NoAction == [id |-> 0, by |-> 0, do |-> "write", path |-> "none"]
Actions == [id : 0..MaxActions, by : Nat, do : {"write", "delete"}, path : Paths \cup {"none"}]
Answers == {"waiting", "approved", "rejected", "dropped", "expired"}

\* Files and pending actions that earlier requests left, the actions already asked about.
ApprovalsInit(found, left) ==
  /\ files = [p \in Paths |-> IF p \in found THEN "user" ELSE "none"]
  /\ pending = left
  /\ answer = [k \in DOMAIN left |-> "waiting"] /\ shown = DOMAIN left

\* Mutant of Purged: makes no room for the action to come.
PurgedLate == IF Len(pending) > MaxPending + 1 THEN Tail(pending) ELSE pending

\* purge, whose limit on age is Expire: the oldest go while there are more than the cap.
Purged == IF Len(pending) > MaxPending THEN Tail(pending) ELSE pending

Became(waiting, id, a) ==
  [i \in DOMAIN answer |->
     IF i = id THEN a
     ELSE IF answer[i] = "waiting" /\ ~\E k \in DOMAIN waiting : waiting[k].id = i
     THEN "dropped" ELSE answer[i]]

\* queue_write_file, queue_delete_file.
Queue(by, do, path) ==
  LET id == Len(answer) + 1
  IN  /\ id <= MaxActions
      /\ pending' = Append(Purged, [id |-> id, by |-> by, do |-> do, path |-> path])
      /\ answer' = Append(Became(Purged, 0, "waiting"), "waiting")
      /\ UNCHANGED <<files, shown>>

\* Any access without effect of its own: list_pending.
Purges ==
  /\ pending' = Purged
  /\ answer' = Became(Purged, 0, "waiting")
  /\ UNCHANGED <<files, shown>>

Waits(id) == \E k \in DOMAIN Purged : Purged[k].id = id

\* The place of an action, the action, and the others.
PlaceOf(id) == CHOOSE k \in DOMAIN Purged : Purged[k].id = id
Waiting(id) == Purged[PlaceOf(id)]
Without(id) ==
  [k \in 1..(Len(Purged) - 1) |-> IF k < PlaceOf(id) THEN Purged[k] ELSE Purged[k + 1]]

\* Mutant of Take: the action stays in the map until it has been carried out.
TakePeeks(id, verdict) ==
  /\ Waits(id)
  /\ pending' = Purged
  /\ answer' = Became(Purged, id, verdict)
  /\ UNCHANGED <<files, shown>>

\* take: an action leaves the map with the first answer, approve or reject.
Take(id, verdict) ==
  /\ Waits(id)
  /\ pending' = Without(id)
  /\ answer' = Became(Purged, id, verdict)
  /\ UNCHANGED <<files, shown>>

\* An action nobody answered for five minutes.
Expire ==
  /\ pending # <<>>
  /\ pending' = Tail(pending)
  /\ answer' = [answer EXCEPT ![Head(pending).id] = "expired"]
  /\ UNCHANGED <<files, shown>>

\* The candidates for the newest action: actions of one request are queued within a
\* millisecond, which is what they are sorted by.
Newest == {a \in Range(Purged) : \A b \in Range(Purged) : b.id > a.id => b.by = a.by}

Exists(path) == files[path] # "none"

\* sandbox::write_file, delete_file; deleting what is not there is an error.
Performs(do, path, whose) ==
  /\ files' = [files EXCEPT ![path] =
       IF do = "write" THEN whose ELSE "none"]
  /\ UNCHANGED <<pending, answer, shown>>

\* A reply puts an action before the user.
Shows(id) ==
  /\ shown' = IF id = 0 THEN shown ELSE shown \cup {id}
  /\ UNCHANGED <<files, pending, answer>>

ApprovalsCrash ==
  /\ pending' = <<>>
  /\ answer' = Became(<<>>, 0, "waiting")
  /\ UNCHANGED <<files, shown>>
-----------------------------------------------------------------------------
(* Properties *)

\* Two clients, or a client and the voice, may answer the same action: the first answer
\* is the only one, and what expired or was dropped is never carried out (take).
FirstAnswerCounts ==
  [][\A i \in DOMAIN answer : answer[i] # "waiting" => answer'[i] = answer[i]]_approvalVars
=============================================================================
