-------------------------------- MODULE Native --------------------------------
(***************************************************************************)
(* The providers that keep one WebSocket to a speech model for a session:  *)
(* openai_realtime.rs and moshi.rs.  One task moves inputs to the model    *)
(* and the model's events to the host, and handles nothing else while it   *)
(* waits to send.  Events of the model name no generation.                 *)
(*                                                                         *)
(* The model is not part of the repository: it reads and writes on its own,*)
(* answers a request with any text and sound and the end of the answer,    *)
(* and may drop the socket; moshi speaks whenever it likes.                *)
(***************************************************************************)
EXTENDS Host

CONSTANTS
  WireSize,    \* messages a socket holds in one direction
  MaxServed    \* bound: events of the model

ASSUME NativeAssumption == WireSize \in Nat \ {0} /\ MaxServed \in Nat

VARIABLES
  native,  \* the provider's task: alive, active generation, what it waits to send
  up,      \* socket to the model
  down,    \* socket from the model
  model    \* external: connected, answer in progress, answer cut, events sent

nativeVars == <<native, up, down, model>>
-----------------------------------------------------------------------------
NativeInit ==
  /\ native = [alive |-> TRUE, active |-> NoGen, todo |-> <<>>, up |-> <<>>]
  /\ up = <<>> /\ down = <<>>
  /\ model = [open |-> TRUE, answers |-> NoGen, cut |-> NoGen, sent |-> 0]

Moshi == setting.kind = "moshi"
NativeReady == native.alive /\ native.todo = <<>> /\ native.up = <<>>

Event(kind, of) == [kind |-> kind, of |-> of]
-----------------------------------------------------------------------------
(* Inputs *)

\* handle_input of the realtime provider: an exact cancel; a frame of the wrong
\* format is an error instead; Close only closes the socket.
RealtimeInput(i) ==
  CASE i.kind = "commit" -> {[native EXCEPT !.active = i.gen, !.up = <<i>>]}
    [] i.kind = "cancel" ->
         {IF native.active = i.gen THEN [native EXCEPT !.active = NoGen, !.up = <<i>>] ELSE native}
    [] i.kind = "frame" ->
         {[native EXCEPT !.up = <<i>>],
          [native EXCEPT !.todo = <<Emission(native.active, "error", native.active)>>]}
    [] i.kind = "close" -> {[native EXCEPT !.up = <<i>>]}

\* The input arm of run_moshi_session.
MoshiInput(i) ==
  CASE i.kind = "commit" ->
         {[native EXCEPT !.active = i.gen, !.up = <<i>>,
                         !.todo = <<Emission(i.gen, "progress", i.gen)>>]}
    [] i.kind = "cancel" ->
         {[native EXCEPT !.active = IF @ = i.gen THEN NoGen ELSE @, !.up = <<i>>]}
    [] i.kind = "frame" -> {[native EXCEPT !.up = <<i>>]}
    [] i.kind = "close" -> {[native EXCEPT !.alive = FALSE]}

NativeInput ==
  /\ NativeReady
  /\ TakesInput
  /\ native' \in (IF Moshi THEN MoshiInput(Head(inputs)) ELSE RealtimeInput(Head(inputs)))
  /\ UNCHANGED <<setting, host, outputs, revoked, heard, late, up, down, model>>

\* The send to the model, before anything is sent to the host.
SendUp ==
  /\ native.up # <<>>
  /\ \/ ~model.open /\ UNCHANGED up
     \/ model.open /\ Len(up) < WireSize /\ up' = Append(up, Head(native.up))
  /\ native' = [native EXCEPT !.up = <<>>]
  /\ UNCHANGED <<hostVars, down, model>>

\* The send to the host.
SendOut ==
  /\ native.up = <<>> /\ native.todo # <<>>
  /\ Emits(Head(native.todo))
  /\ native' = [native EXCEPT !.todo = Tail(@)]
  /\ UNCHANGED <<setting, host, inputs, revoked, heard, late, up, down, model>>
-----------------------------------------------------------------------------
(* Events of the model *)

\* What an event becomes: it is given to the generation that is active when it is
\* read.
Becomes(g, e) ==
  CASE e.kind = "done" -> <<Emission(g, "final", e.of), Emission(g, "complete", e.of)>>
    [] OTHER -> <<Emission(g, e.kind, e.of)>>

\* handle_server_event: without an active response all but an error is dropped; the
\* end of a response ends the active one.
RealtimeEvent(e) ==
  IF native.active = NoGen /\ e.kind # "error" THEN native
  ELSE [native EXCEPT !.todo = Becomes(native.active, e),
                      !.active = IF e.kind = "done" THEN NoGen ELSE @]

\* The stream arm of run_moshi_session, handle_moshi_text: without an active
\* generation one is made up; the end of a text leaves it active.
MoshiEvent(e) ==
  LET g == IF native.active = NoGen THEN Stray ELSE native.active IN
  [native EXCEPT !.todo = Becomes(g, e), !.active = g]

\* moshi looks for inputs first (biased).
TakesEvent ==
  /\ NativeReady /\ down # <<>>
  /\ Moshi => inputs = <<>>
  /\ down' = Tail(down)
  /\ native' = IF Moshi THEN MoshiEvent(Head(down)) ELSE RealtimeEvent(Head(down))
  /\ UNCHANGED <<hostVars, up, model>>

\* The loop ends with the socket, which moshi reports, or with the host.
NativeEnds ==
  /\ NativeReady
  /\ \/ ~model.open /\ down = <<>>
     \/ Gone /\ inputs = <<>>
  /\ native' = [native EXCEPT !.alive = FALSE]
  /\ UNCHANGED <<hostVars, up, down, model>>
MoshiFails ==
  /\ NativeReady /\ Moshi
  /\ ~model.open /\ inputs = <<>>
  /\ native' = [native EXCEPT !.alive = FALSE, !.todo = <<Emission(NoGen, "error", NoGen)>>]
  /\ UNCHANGED <<hostVars, up, down, model>>
-----------------------------------------------------------------------------
(* The model *)

ModelReads ==
  /\ model.open /\ up # <<>>
  /\ up' = Tail(up)
  /\ LET i == Head(up) IN
     model' = CASE i.kind = "commit" -> [model EXCEPT !.answers = i.gen]
                [] i.kind = "cancel" -> [model EXCEPT !.answers = NoGen, !.cut = model.answers]
                [] i.kind = "close" -> [model EXCEPT !.open = FALSE]
                [] i.kind = "frame" -> model
  /\ UNCHANGED <<hostVars, native, down>>

\* An event of the answer in progress; the end of one that was cut (response.done with
\* the status canceled; moshi sends none).
ModelWrites ==
  /\ model.open /\ Len(down) < WireSize
  /\ \/ /\ model.cut = NoGen /\ model.sent < MaxServed
        /\ \E kind \in {"audio", "error", "done"} :
             /\ model.answers # NoGen \/ Moshi \/ kind = "error"
             /\ down' = Append(down, Event(kind, IF kind = "error" THEN NoGen ELSE model.answers))
             /\ model' = [model EXCEPT !.sent = @ + 1,
                                       !.answers = IF kind = "done" THEN NoGen ELSE @]
     \/ /\ model.cut # NoGen
        /\ down' = IF Moshi THEN down ELSE Append(down, Event("done", model.cut))
        /\ model' = [model EXCEPT !.cut = NoGen]
  /\ UNCHANGED <<hostVars, native, up>>

ModelDrops ==
  /\ model.open
  /\ model' = [model EXCEPT !.open = FALSE]
  /\ UNCHANGED <<hostVars, native, up, down>>
-----------------------------------------------------------------------------
NativeTask == NativeInput \/ SendUp \/ SendOut \/ TakesEvent \/ NativeEnds \/ MoshiFails
NativeStep == NativeTask \/ ModelReads \/ ModelWrites \/ ModelDrops

NativeSilent == ~native.alive /\ native.todo = <<>>
=============================================================================
