----------------------------- MODULE MCAnswering ------------------------------
(* Answering with short answers and the smallest channels.                 *)
EXTENDS Answering

EachKind ==
  {[host |-> "session", kind |-> "cascade"], [host |-> "bridge", kind |-> "mock"],
   [host |-> "session", kind |-> "realtime"], [host |-> "session", kind |-> "moshi"]}
RealtimeSession == {[host |-> "session", kind |-> "realtime"]}
=============================================================================
