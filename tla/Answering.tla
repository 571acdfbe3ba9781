------------------------------- MODULE Answering -------------------------------
(***************************************************************************)
(* A host of a provider session and the provider it talks to, each in its  *)
(* own tasks, over bounded channels: the composition of Host with the      *)
(* pipelines of Pipelines or the speech model of Native.                   *)
(***************************************************************************)
EXTENDS Pipelines, Native

vars == <<hostVars, pipeVars, nativeVars>>

Piped == setting.kind \in {"cascade", "mock"}

Init == HostInit /\ PipelinesInit /\ NativeInit

OfHost(A) == A /\ UNCHANGED <<pipeVars, nativeVars>>
OfPipelines(A) == Piped /\ A /\ UNCHANGED nativeVars
OfNative(A) == ~Piped /\ A /\ UNCHANGED pipeVars

Listens == IF Piped THEN loop.alive ELSE native.alive
Silent  == IF Piped THEN PipelinesSilent ELSE NativeSilent

Next ==
  \/ OfHost(HostStep(Listens, Silent))
  \/ OfPipelines(PipelinesStep)
  \/ OfNative(NativeStep)

Spec == Init /\ [][Next]_vars

\* The runtime schedules the tasks of the host and of the provider; HTTP requests end,
\* with an answer or after 90 seconds, and a socket drains or breaks.  tokio's select
\* polls its arms in a random order, so a host takes what the provider emits.
TasksRun ==
  /\ WF_vars(OfHost(Push(Listens) \/ Leave \/ TakeEmission))
  /\ WF_vars(OfPipelines(PipelinesStep) \/ OfNative(NativeTask \/ ModelReads))

FairSpec == Spec /\ TasksRun
-----------------------------------------------------------------------------
(* Properties *)

\* The state has its types, and the channels their capacities.
TypeOK ==
  /\ HostTypeOK
  /\ canceled \subseteq Gens
  /\ \A g \in Gens : Len(pipes[g].segments) <= SegmentSize

\* An answer of the cascade that nobody canceled completes only when every word that
\* was shown has been spoken: completion, segmentation and speech are three tasks.
CompleteMeansSpoken ==
  setting.kind = "cascade" =>
    \A g \in Gens \ revoked :
      "complete" \in heard[g].ends =>
        pipes[g].said = pipes[g].words /\ heard[g].words = pipes[g].words

\* Of the answers whose tasks still run all but one are canceled, also when one goes
\* on after it reported its completion (the mock's formant voice).
OneVoice ==
  \A g, h \in Gens :
    g # h /\ Alive(pipes[g]) /\ Alive(pipes[h]) => g \in canceled \/ h \in canceled

\* A host that waits for room in the provider's input gets on, though the provider's
\* output may be full meanwhile: no circular wait between the two channels.
HostGetsOn == (Piped /\ host.waiting # <<>>) ~> (host.waiting = <<>>)

\* Once the host has gone every task of its provider session ends: each pipeline with
\* its speech worker, whatever it was waiting for, or the task that holds the socket.
EverythingStops ==
  Gone ~> IF Piped THEN \A g \in Gens : ~Alive(pipes[g]) ELSE NativeSilent

\* docs/protocol-1.0.md:60: "A revoked answer lease suppresses every later output from
\* that generation", under whatever name.
RevokedIsSilent == late = {}
=============================================================================
