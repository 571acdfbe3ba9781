----------------------------- MODULE AnswerTurns -----------------------------
(***************************************************************************)
(* What a session promises about its answers, without leases, floor states *)
(* or cancellation: answers take turns.  One answer at most is being       *)
(* spoken, answers start in the order they are numbered, and what the user *)
(* hears in a step belongs to the answer being spoken.  An answer that has *)
(* ended, by completing or by being cut, is never heard again.             *)
(***************************************************************************)
EXTENDS Naturals

VARIABLES
  speaking,   \* the answer being spoken, 0 for none
  started,    \* answers started so far
  heard       \* the answers whose output left in the last step

vars == <<speaking, started, heard>>

Init == speaking = 0 /\ started = 0 /\ heard = {}

Begin ==
  /\ speaking = 0
  /\ started' = started + 1
  /\ speaking' = started'
  /\ heard' = {}

Speak ==
  /\ speaking # 0
  /\ heard' = {speaking}
  /\ UNCHANGED <<speaking, started>>

\* The last event of an answer is the one that completes it.
Complete ==
  /\ speaking # 0
  /\ speaking' = 0
  /\ heard' = {speaking}
  /\ UNCHANGED started

Cut ==
  /\ speaking # 0
  /\ speaking' = 0
  /\ heard' = {}
  /\ UNCHANGED started

Silence == heard' = {} /\ UNCHANGED <<speaking, started>>

Next == Begin \/ Speak \/ Complete \/ Cut \/ Silence

Spec == Init /\ [][Next]_vars
=============================================================================
