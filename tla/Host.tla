--------------------------------- MODULE Host ---------------------------------
(***************************************************************************)
(* The two hosts of a provider session, and the bounded channels between   *)
(* them and the provider: the SessionCoordinator of a WebSocket            *)
(* (session.rs) and the bridge of a WebRTC peer (webrtc_session.rs).       *)
(*                                                                         *)
(* Session models the coordinator's decisions; here a decision is a free   *)
(* choice and what counts is when a host waits for the provider.  Streaming*)
(* safety is off.                                                          *)
(***************************************************************************)
EXTENDS Naturals, Sequences, FiniteSets, SequencesExt

CONSTANTS
  Settings,     \* pairs of a host and a provider to choose from
  InputSize,    \* capacity of ProviderSession::input (128; moshi 256)
  OutputSize,   \* capacity of ProviderSession::output and of the forwarder
  MaxGen,       \* bound: answers a host asks for
  MaxFrames     \* bound: frames of the microphone

AllKinds == {"cascade", "mock", "realtime", "moshi"}

ASSUME HostAssumption ==
  /\ Settings \subseteq [host : {"session", "bridge"}, kind : AllKinds]
  /\ InputSize \in Nat \ {0} /\ OutputSize \in Nat \ {0}
  /\ MaxGen \in Nat /\ MaxFrames \in Nat

VARIABLES
  setting,  \* which host, which provider
  host,     \* phase, active generation, ids issued, frames sent, inputs awaited
  inputs,   \* ProviderSession::input
  outputs,  \* ProviderSession::output
  revoked,  \* history: generations canceled by the host
  heard,    \* history: words, and the ends of the answer, sent to the user of each
            \* generation
  late      \* history: revoked generations of which something was sent since

hostVars == <<setting, host, inputs, outputs, revoked, heard, late>>
-----------------------------------------------------------------------------
Gens == 1..MaxGen
NoGen == 0
Stray == MaxGen + 1  \* an id no host issued
SomeGen == Gens \cup {NoGen, Stray}

\* ProviderInput
Input(kind, g) == [kind |-> kind, gen |-> g]
Frame == Input("frame", NoGen)
Close == Input("close", NoGen)

\* ProviderEmission: of remembers the generation it was made for.
Emission(g, out, of) == [gen |-> g, out |-> out, of |-> of]
Outs == {"progress", "delta", "final", "complete", "error", "audio"}

Unheard == [g \in Gens |-> [words |-> 0, ends |-> {}]]

HostInit ==
  /\ setting \in Settings
  /\ host = [phase |-> "open", active |-> NoGen, issued |-> 0, frames |-> 0,
             waiting |-> <<>>]
  /\ inputs = <<>> /\ outputs = <<>>
  /\ revoked = {}
  /\ heard = Unheard
  /\ late = {}

Bridge == setting.host = "bridge"
Ready == host.phase = "open" /\ host.waiting = <<>>

\* The capacity of the input channel.  Mutant: one more.
HasRoomLate == Len(inputs) <= InputSize
HasRoom == Len(inputs) < InputSize
-----------------------------------------------------------------------------
(* Asking for an answer *)

\* start_response and commit_response: nothing while an answer is active.  Chronos, the
\* end of speech, a final transcript or the client's word decide.
Commit ==
  /\ Ready /\ host.active = NoGen /\ host.issued < MaxGen
  /\ LET g == host.issued + 1 IN
     host' = [host EXCEPT !.active = g, !.issued = g, !.waiting = <<Input("commit", g)>>]
  /\ UNCHANGED <<setting, inputs, outputs, revoked, heard, late>>
-----------------------------------------------------------------------------
(* Canceling and audio *)

\* cancel_response (hard yield, replan), the "cancel" control of the bridge.
Cancel ==
  /\ Ready /\ host.active # NoGen
  /\ host' = [host EXCEPT !.active = NoGen, !.waiting = <<Input("cancel", host.active)>>]
  /\ revoked' = revoked \cup {host.active}
  /\ heard' = [heard EXCEPT ![host.active] = Unheard[1]]
  /\ UNCHANGED <<setting, inputs, outputs, late>>

\* A frame of the microphone; what the cascade captured is a free choice when it begins to
\* answer, and its frames are left out.  The coordinator drops a frame when the provider
\* is saturated,
HearsFrame == Ready /\ host.frames < MaxFrames /\ setting.kind # "cascade"

HandleAudioFrame(listens) ==
  /\ HearsFrame /\ ~Bridge
  /\ host' = [host EXCEPT !.frames = @ + 1]
  /\ inputs' = IF listens /\ HasRoom THEN Append(inputs, Frame) ELSE inputs
  /\ UNCHANGED <<setting, outputs, revoked, heard, late>>

\* the bridge waits for room.
HandleInboundMedia ==
  /\ HearsFrame /\ Bridge
  /\ host' = [host EXCEPT !.frames = @ + 1, !.waiting = <<Frame>>]
  /\ UNCHANGED <<setting, inputs, outputs, revoked, heard, late>>

\* mpsc send: the first input that waits gets its place; once the provider has
\* gone (listens is FALSE) it is lost.
Push(listens) ==
  /\ host.phase # "gone" /\ host.waiting # <<>>
  /\ HasRoom \/ ~listens
  /\ host' = [host EXCEPT !.waiting = Tail(@)]
  /\ inputs' = IF listens THEN Append(inputs, Head(host.waiting)) ELSE inputs
  /\ UNCHANGED <<setting, outputs, revoked, heard, late>>
-----------------------------------------------------------------------------
(* Hearing the answer *)

\* The coordinator takes what is of the active generation and under its lease; the
\* bridge drops what is of another generation while one is active.
Accepts(g) ==
  \/ g = NoGen
  \/ g = host.active
  \/ Bridge /\ host.active = NoGen

Hears(e) ==
  [g \in Gens |->
     IF g # e.gen \/ g \in revoked THEN heard[g]
     ELSE [words |-> heard[g].words + IF e.out = "delta" THEN 1 ELSE 0,
           ends |-> heard[g].ends \cup ({e.out} \cap {"complete", "error"})]]

\* handle_provider_emission, the emission arm of run_webrtc_peer.
TakeEmission ==
  /\ Ready /\ outputs # <<>>
  /\ outputs' = Tail(outputs)
  /\ LET e == Head(outputs) IN
     IF Accepts(e.gen)
     THEN /\ heard' = Hears(e)
          /\ late' = late \cup ({e.of} \cap revoked)
          /\ host' = [host EXCEPT !.active = IF e.out = "complete" THEN NoGen ELSE @]
     ELSE UNCHANGED <<host, heard, late>>
  /\ UNCHANGED <<setting, inputs, revoked>>
-----------------------------------------------------------------------------
(* The end *)

\* The socket or the peer ends, or the provider's output channel does (silent):
\* close cancels the active generation first, the bridge only closes.
Closes(silent) ==
  /\ Ready
  /\ silent => outputs = <<>>
  /\ host' = [host EXCEPT !.phase = "closing", !.active = NoGen,
                !.waiting = (IF Bridge \/ host.active = NoGen THEN <<>>
                             ELSE <<Input("cancel", host.active)>>) \o <<Close>>]
  /\ revoked' = revoked \cup ({host.active} \ {NoGen})
  /\ UNCHANGED <<setting, inputs, outputs, heard, late>>

\* The host drops its ends of the channels; nobody hears anything anymore.
Leave ==
  /\ host.phase = "closing" /\ host.waiting = <<>>
  /\ host' = [host EXCEPT !.phase = "gone", !.issued = 0, !.frames = 0]
  /\ outputs' = <<>>
  /\ revoked' = {} /\ heard' = Unheard /\ late' = {}
  /\ UNCHANGED <<setting, inputs>>

HostStep(listens, silent) ==
  \/ Commit \/ Cancel \/ HandleAudioFrame(listens) \/ HandleInboundMedia
  \/ Push(listens) \/ TakeEmission
  \/ Closes(FALSE)
  \/ silent /\ Closes(TRUE)
  \/ Leave
-----------------------------------------------------------------------------
(* The provider's ends *)

Gone == host.phase = "gone"
CanEmit == Gone \/ Len(outputs) < OutputSize

\* mpsc send: waits for room; fails, which every provider bears, once the host has
\* gone.
Emits(e) ==
  /\ CanEmit
  /\ outputs' = IF Gone THEN outputs ELSE Append(outputs, e)

TakesInput ==
  /\ inputs # <<>>
  /\ inputs' = Tail(inputs)

HostTypeOK ==
  /\ setting \in Settings
  /\ host.phase \in {"open", "closing", "gone"} /\ host.active \in SomeGen
  /\ ToSet(inputs) \subseteq {Frame, Close} \cup [kind : {"commit", "cancel"}, gen : Gens]
  /\ Len(inputs) <= InputSize /\ Len(outputs) <= OutputSize
  /\ ToSet(outputs) \subseteq [gen : SomeGen, out : Outs, of : SomeGen]
=============================================================================
