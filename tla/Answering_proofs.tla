--------------------------- MODULE Answering_proofs ---------------------------
(***************************************************************************)
(* For every setting, capacity and bound: the channels carry what they     *)
(* should; however commits, cancels and the tasks of several answers       *)
(* interleave, at most one answer is left to speak; and an answer of the   *)
(* cascade that completes has been shown and spoken word for word.         *)
(***************************************************************************)
EXTENDS Answering, FiniteSetTheorems, TLAPS

USE HostAssumption, PipelinesAssumption, NativeAssumption

\* What a pipeline can look like, and the shape of the state that the argument needs.
PipePlaces == {"idle", "transcribe", "stream", "finish", "await", "end", "fail", "done",
               "prompt", "craft", "words", "formant"}
Fields == {"pc", "todo", "words", "unsaid", "segment", "segments", "voice", "say", "said",
           "failed"}
IsPipe(p) ==
  /\ DOMAIN p = Fields
  /\ p.pc \in PipePlaces /\ p.todo \in Seq(Outs)
  /\ p.words \in Nat /\ p.unsaid \in Nat /\ p.segment \in Nat
  /\ p.segments \in Seq(Nat) /\ Len(p.segments) <= SegmentSize
  /\ p.voice \in {"idle", "recv", "speak", "done"}
  /\ p.say \in Nat /\ p.said \in Nat /\ p.failed \in BOOLEAN
Pipes ==
  /\ pipes = [g \in Gens |-> pipes[g]]
  /\ \A g \in Gens : IsPipe(pipes[g])

\* The answer that is left to speak is the one the input loop holds: a commit and
\* a cancel revoke the token of the one they take out of its hands.
LoopHoldsTheVoice ==
  \A g \in Gens : Alive(pipes[g]) /\ g \notin canceled => loop.active = g

\* What the channels carry.
Held == Gens \cup {NoGen}
Asked == {Frame, Close} \cup [kind : {"commit", "cancel"}, gen : Gens]
Emitted == [gen : SomeGen, out : Outs, of : SomeGen]

Channels ==
  /\ inputs \in Seq(Asked) /\ Len(inputs) <= InputSize
  /\ outputs \in Seq(Emitted) /\ Len(outputs) <= OutputSize
Hosts ==
  /\ setting \in Settings
  /\ DOMAIN host = {"phase", "active", "issued", "frames", "waiting"}
  /\ host.phase \in {"open", "closing", "gone"} /\ host.active \in Held
  /\ host.issued \in 0..MaxGen /\ host.waiting \in Seq(Asked)
  /\ revoked \subseteq Gens
  /\ heard \in [Gens -> [words : Nat, ends : SUBSET {"complete", "error"}]]
IsLoop(l) == DOMAIN l = {"alive", "active"} /\ l.active \in Held
InputLoops == IsLoop(loop) /\ canceled \subseteq Gens
Events == [kind : {"audio", "error", "done"}, of : Held]
IsTask(n) ==
  /\ DOMAIN n = {"alive", "active", "todo", "up"}
  /\ n.active \in SomeGen /\ n.todo \in Seq(Emitted) /\ n.up \in Seq(Asked)
Natives ==
  /\ IsTask(native)
  /\ up \in Seq(Asked)
  /\ down \in Seq(Events)
  /\ DOMAIN model = {"open", "answers", "cut", "sent"}
  /\ model.answers \in Held /\ model.cut \in Held

IInv == Channels /\ Hosts /\ InputLoops /\ Natives /\ Pipes /\ LoopHoldsTheVoice
-----------------------------------------------------------------------------
(* The channels *)

LEMMA Sequels ==
  ASSUME NEW S
  PROVE  /\ \A e \in S : <<e>> \in Seq(S)
         /\ \A s \in Seq(S), e \in S : Append(s, e) \in Seq(S) /\ s \o <<e>> \in Seq(S)
         /\ \A s \in Seq(S), e \in S : Len(Append(s, e)) = Len(s) + 1 /\ Len(s) \in Nat
         /\ \A s \in Seq(S) : s # <<>> => Head(s) \in S /\ Tail(s) \in Seq(S)
<1>1. \A e \in S : <<e>> \in Seq(S)
  OBVIOUS
<1>2. \A s \in Seq(S), e \in S : Append(s, e) \in Seq(S) /\ s \o <<e>> \in Seq(S)
  BY <1>1
<1>3. \A s \in Seq(S), e \in S : Len(Append(s, e)) = Len(s) + 1 /\ Len(s) \in Nat
  OBVIOUS
<1>4. \A s \in Seq(S) : s # <<>> => Head(s) \in S /\ Tail(s) \in Seq(S)
  OBVIOUS
<1> QED
  BY <1>1, <1>2, <1>3, <1>4

LEMMA EmitsKeeps ==
  ASSUME Channels, NEW e \in Emitted, Emits(e)
  PROVE  outputs' \in Seq(Emitted) /\ Len(outputs') <= OutputSize
BY DEF Channels, Emits, CanEmit

LEMMA TakesInputKeeps ==
  ASSUME Channels, TakesInput
  PROVE  Head(inputs) \in Asked /\ inputs' \in Seq(Asked) /\ Len(inputs') <= InputSize
BY DEF Channels, TakesInput

LEMMA HostKeeps ==
  ASSUME Channels, Hosts, NEW listens, NEW silent, HostStep(listens, silent)
  PROVE  Channels' /\ Hosts'
<1>1. /\ \A i \in Asked : <<i>> \in Seq(Asked)
      /\ \A s \in Seq(Asked), i \in Asked : Append(s, i) \in Seq(Asked) /\ s \o <<i>> \in Seq(Asked)
      /\ \A s \in Seq(Asked), i \in Asked : Len(Append(s, i)) = Len(s) + 1 /\ Len(s) \in Nat
      /\ \A s \in Seq(Asked) : s # <<>> => Head(s) \in Asked /\ Tail(s) \in Seq(Asked)
  BY Sequels
<1>2. /\ Frame \in Asked /\ Close \in Asked /\ <<>> \in Seq(Asked) /\ <<>> \in Seq(Emitted)
      /\ \A g \in Gens : Input("commit", g) \in Asked /\ Input("cancel", g) \in Asked
      /\ \A g \in Held : g # NoGen => g \in Gens
  BY DEF Asked, Input, Held
<1>3. Unheard \in [Gens -> [words : Nat, ends : SUBSET {"complete", "error"}]]
  BY DEF Unheard
<1>4. CASE Commit
  <2>1. host.issued + 1 \in Gens /\ host.issued + 1 \in 0..MaxGen
    BY <1>4 DEF Commit, Hosts, Gens
  <2>2. Input("commit", host.issued + 1) \in Asked
    BY <1>2, <2>1
  <2> QED
    BY <1>1, <1>4, <2>1, <2>2 DEF Commit, Channels, Hosts, Held
<1>5. CASE Cancel
  <2>1. host.active \in Gens /\ Input("cancel", host.active) \in Asked
    BY <1>2, <1>5 DEF Cancel, Hosts
  <2>2. Unheard[1] \in [words : Nat, ends : SUBSET {"complete", "error"}]
    BY <1>3, <2>1 DEF Gens
  <2> QED
    BY <1>1, <1>5, <2>1, <2>2 DEF Cancel, Channels, Hosts, Held
<1>6. CASE HandleAudioFrame(listens)
  <2>1. Channels'
    BY <1>1, <1>2, <1>6 DEF HandleAudioFrame, HasRoom, Channels
  <2> QED
    BY <1>6, <2>1 DEF HandleAudioFrame, Hosts
<1>7. CASE HandleInboundMedia
  BY <1>1, <1>2, <1>7 DEF HandleInboundMedia, Channels, Hosts
<1>8. CASE Push(listens)
  <2>1. Head(host.waiting) \in Asked /\ Tail(host.waiting) \in Seq(Asked)
    BY <1>1, <1>8 DEF Push, Hosts
  <2>2. Channels'
    BY <1>1, <1>8, <2>1 DEF Push, HasRoom, Channels
  <2> QED
    BY <1>8, <2>1, <2>2 DEF Push, Hosts
<1>9. CASE TakeEmission
  <2>1. outputs' \in Seq(Emitted) /\ Len(outputs') <= OutputSize
    BY <1>9 DEF TakeEmission, Channels
  <2>2. \A e : Hears(e) \in [Gens -> [words : Nat, ends : SUBSET {"complete", "error"}]]
    BY DEF Hears, Hosts
  <2>3. Channels'
    BY <1>9, <2>1 DEF TakeEmission, Channels
  <2>4. heard' \in [Gens -> [words : Nat, ends : SUBSET {"complete", "error"}]]
    BY <1>9, <2>2 DEF TakeEmission, Hosts
  <2>5. \/ UNCHANGED host
        \/ \E g \in Held : host' = [host EXCEPT !.active = g]
    BY <1>9 DEF TakeEmission, Hosts, Held
  <2> QED
    BY <1>9, <2>3, <2>4, <2>5 DEF TakeEmission, Hosts
<1>10. ASSUME NEW s, Closes(s)
       PROVE  Channels' /\ Hosts'
  <2>1. host.active = NoGen \/ Input("cancel", host.active) \in Asked
    BY <1>2 DEF Hosts
  <2>2. (IF Bridge \/ host.active = NoGen THEN <<>> ELSE <<Input("cancel", host.active)>>)
          \in Seq(Asked)
    BY <1>1, <1>2, <2>1
  <2>3. host'.waiting \in Seq(Asked)
    BY <1>1, <1>2, <1>10, <2>2 DEF Closes, Hosts
  <2>4. revoked' \subseteq Gens
    BY <1>2, <1>10 DEF Closes, Hosts
  <2>5. Channels'
    BY <1>10 DEF Closes, Channels
  <2> QED
    BY <1>10, <2>3, <2>4, <2>5 DEF Closes, Hosts, Held
<1>11. CASE Leave
  <2>1. Channels'
    <3>1. Len(<<>>) = 0
      OBVIOUS
    <3> QED
      BY <1>2, <1>11, <3>1 DEF Leave, Channels
  <2>2. 0 \in 0..MaxGen /\ {} \subseteq Gens
    OBVIOUS
  <2> QED
    BY <1>3, <1>11, <2>1, <2>2 DEF Leave, Hosts
<1> QED
  BY <1>4, <1>5, <1>6, <1>7, <1>8, <1>9, <1>10, <1>11 DEF HostStep
-----------------------------------------------------------------------------
(* A pipeline *)

\* What pipelines have to emit at once.
LEMMA Todos ==
  /\ \A out \in Outs : <<out>> \in Seq(Outs)
  /\ {"progress", "delta", "final", "complete", "error", "audio"} \subseteq Outs
  /\ <<>> \in Seq(Outs) /\ <<"final", "complete">> \in Seq(Outs)
  /\ <<"progress", "complete">> \in Seq(Outs)
  /\ <<"progress", "final", "complete">> \in Seq(Outs)
BY DEF Outs

LEMMA IdleIsPipe == IsPipe(Idle)
<1>1. <<>> \in Seq(Nat) /\ Len(<<>>) = 0
  OBVIOUS
<1> QED
  BY <1>1, Todos DEF Idle, IsPipe, Fields, PipePlaces

\* A task of a pipeline leaves it a pipeline, and raises none from the dead.
Follows(p, q) == IsPipe(q) /\ (Alive(q) => Alive(p))

LEMMA FreedFollows ==
  ASSUME NEW g, NEW p, NEW q, Follows(p, q)
  PROVE  Follows(p, Freed(g, q))
<1>1. IsPipe(Freed(g, q))
  BY IdleIsPipe DEF Follows, Freed, IsPipe, Fields, PipePlaces
<1>2. Alive(Freed(g, q)) => Alive(q)
  BY DEF Freed, Idle, Alive, Done
<1> QED
  BY <1>1, <1>2 DEF Follows

\* A step of one pipeline alone.
PipeStep(g) ==
  /\ Follows(pipes[g], pipes'[g])
  /\ pipes' = [pipes EXCEPT ![g] = pipes'[g]]
  /\ UNCHANGED <<loop, canceled>>

LEMMA GoesIsPipeStep ==
  ASSUME Pipes, NEW g \in Gens, NEW q, Follows(pipes[g], q), Goes(g, q)
  PROVE  PipeStep(g)
<1>1. pipes'[g] = Freed(g, q) /\ pipes' = [pipes EXCEPT ![g] = pipes'[g]]
  BY DEF Goes, Pipes
<1> QED
  BY <1>1, FreedFollows DEF PipeStep, Goes

LEMMA PipeStepKeeps ==
  ASSUME Pipes, LoopHoldsTheVoice, NEW g \in Gens, PipeStep(g)
  PROVE  Pipes' /\ LoopHoldsTheVoice'
<1>1. /\ \A h \in Gens \ {g} : pipes'[h] = pipes[h]
      /\ IsPipe(pipes'[g]) /\ (Alive(pipes'[g]) => Alive(pipes[g]))
  BY DEF PipeStep, Follows, Pipes
<1>2. Pipes'
  <2>1. pipes' = [h \in Gens |-> pipes'[h]]
    BY DEF PipeStep, Pipes
  <2>2. \A h \in Gens : IsPipe(pipes'[h])
    BY <1>1 DEF Pipes
  <2> QED
    BY <2>1, <2>2 DEF Pipes, IsPipe
<1>3. LoopHoldsTheVoice'
  <2>1. \A h \in Gens : Alive(pipes'[h]) => Alive(pipes[h])
    BY <1>1
  <2> QED
    BY <2>1 DEF LoopHoldsTheVoice, PipeStep, Alive, Done
<1> QED
  BY <1>2, <1>3
-----------------------------------------------------------------------------
\* Every task of a pipeline, one lemma for those that begin at a place of it,
LEMMA PlaceKeeps ==
  ASSUME Pipes, NEW g \in Gens,
         \/ Transcribe(g) \/ TakesDelta(g) \/ TakesEnd(g) \/ TakesError(g)
         \/ FinishStreamedAnswer(g) \/ Prompt(g) \/ Craft(g) \/ Word(g) \/ Formant(g)
  PROVE  PipeStep(g)
<1>1. IsPipe(pipes[g])
  BY DEF Pipes
<1>2. ASSUME NEW q, Alive(pipes[g]), IsPipe(q), Goes(g, q)
      PROVE  PipeStep(g)
  BY <1>2, GoesIsPipeStep DEF Follows
<1>3. CASE Transcribe(g)
  BY <1>1, <1>2, <1>3, Todos DEF Transcribe, At, Alive, Done, IsPipe, Fields, PipePlaces
<1>4. CASE TakesDelta(g)
  <2> DEFINE q == [pipes[g] EXCEPT !.words = @ + 1, !.todo = <<"delta">>]
  <2>1. IsPipe(q) /\ Alive(pipes[g])
    BY <1>1, <1>4, Todos DEF TakesDelta, Listening, At, Alive, Done, IsPipe, Fields, PipePlaces
  <2>2. q.unsaid + 1 \in Nat /\ pipes[g].unsaid + 1 \in Nat
    <3>1. q.unsaid \in Nat /\ pipes[g].unsaid \in Nat
      BY <1>1, <2>1 DEF IsPipe
    <3> QED
      BY <3>1
  <2>3. /\ IsPipe([q EXCEPT !.unsaid = q.unsaid + 1])
        /\ IsPipe([q EXCEPT !.unsaid = 0, !.segment = pipes[g].unsaid + 1])
    <3> HIDE DEF q
    <3> QED
      BY <2>1, <2>2 DEF IsPipe, Fields
  <2> QED
    BY <1>2, <1>4, <2>1, <2>3 DEF TakesDelta
<1>5. CASE TakesEnd(g)
  BY <1>1, <1>2, <1>5, Todos DEF TakesEnd, Listening, At, Alive, Done, IsPipe, Fields, PipePlaces
<1>6. CASE TakesError(g)
  BY <1>1, <1>2, <1>6, Todos DEF TakesError, Listening, At, Alive, Done, IsPipe, Fields, PipePlaces
<1>7. CASE FinishStreamedAnswer(g)
  <2>1. Alive(pipes[g])
    BY <1>7 DEF FinishStreamedAnswer, At, Alive, Done
  <2>2. \A pc \in PipePlaces, out \in Outs : IsPipe([pipes[g] EXCEPT !.pc = pc, !.todo = <<out>>])
    BY <1>1, Todos DEF IsPipe, Fields
  <2>3. {"end", "await"} \subseteq PipePlaces /\ {Verdict(pipes[g]), "final", "error"} \subseteq Outs
    BY Todos DEF PipePlaces, Verdict
  <2> QED
    BY <1>2, <1>7, <2>1, <2>2, <2>3 DEF FinishStreamedAnswer
<1>8. CASE Prompt(g)
  BY <1>1, <1>2, <1>8, Todos DEF Prompt, At, Alive, Done, IsPipe, Fields, PipePlaces
<1>9. CASE Craft(g)
  BY <1>1, <1>2, <1>9, Todos DEF Craft, At, Alive, Done, IsPipe, Fields, PipePlaces
<1>10. CASE Word(g)
  <2>1. Alive(pipes[g])
    BY <1>10 DEF Word, At, Alive, Done
  <2>2. IsPipe([pipes[g] EXCEPT !.pc = "done"])
    BY <1>1 DEF IsPipe, Fields, PipePlaces
  <2>3. IsPipe([pipes[g] EXCEPT !.pc = "formant", !.todo = <<"final", "complete">>])
    BY <1>1, Todos DEF IsPipe, Fields, PipePlaces
  <2>4. pipes[g].words + 1 \in Nat
    BY <1>1 DEF IsPipe
  <2>5. IsPipe([pipes[g] EXCEPT !.words = @ + 1, !.todo = <<"delta">>])
    BY <1>1, <2>4, Todos DEF IsPipe, Fields
  <2> QED
    BY <1>2, <1>10, <2>1, <2>2, <2>3, <2>5 DEF Word
<1>11. CASE Formant(g)
  <2>1. Alive(pipes[g]) /\ pipes[g].said + 1 \in Nat
    <3>1. pipes[g].said \in Nat /\ Alive(pipes[g])
      BY <1>1, <1>11 DEF Formant, At, Alive, Done, IsPipe
    <3> QED
      BY <3>1
  <2>2. /\ IsPipe([pipes[g] EXCEPT !.pc = "done"])
        /\ IsPipe([pipes[g] EXCEPT !.said = @ + 1, !.todo = <<"audio">>])
    BY <1>1, <2>1, Todos DEF IsPipe, Fields, PipePlaces
  <2> QED
    BY <1>2, <1>11, <2>1, <2>2 DEF Formant
<1> QED
  BY <1>3, <1>4, <1>5, <1>6, <1>7, <1>8, <1>9, <1>10, <1>11

\* for those that emit or hand over wherever the pipeline is,
LEMMA SendsKeep ==
  ASSUME Pipes, NEW g \in Gens, PipelineEmits(g) \/ HandsOver(g)
  PROVE  PipeStep(g)
<1>1. IsPipe(pipes[g])
  BY DEF Pipes
<1>2. CASE PipelineEmits(g)
  <2>1. \A q : Follows(pipes[g], q) => Follows(pipes[g], Freed(g, q))
    BY FreedFollows
  <2>2. Follows(pipes[g], [pipes[g] EXCEPT !.todo = <<>>, !.pc = "done", !.segment = 0])
    BY <1>1 DEF Follows, Alive, Done, IsPipe, Fields, PipePlaces
  <2>3. Follows(pipes[g], [pipes[g] EXCEPT !.todo = Tail(@)])
    <3>1. Tail(pipes[g].todo) \in Seq(Outs)
      BY <1>1, <1>2 DEF PipelineEmits, IsPipe
    <3> QED
      BY <1>1, <3>1 DEF Follows, Alive, Done, IsPipe, Fields
  <2>4. \E q : Follows(pipes[g], q) /\ pipes' = [pipes EXCEPT ![g] = q]
    BY <1>2, <2>1, <2>2, <2>3 DEF PipelineEmits
  <2> QED
    BY <1>2, <2>4 DEF PipelineEmits, PipeStep, Pipes
<1>3. CASE HandsOver(g)
  <2>1. Follows(pipes[g], [pipes[g] EXCEPT !.pc = "done", !.segment = 0])
    BY <1>1 DEF Follows, Alive, Done, IsPipe, Fields, PipePlaces
  <2>2. ASSUME Len(pipes[g].segments) < SegmentSize
        PROVE  Follows(pipes[g], [pipes[g] EXCEPT !.segments = Append(@, pipes[g].segment),
                                                  !.segment = 0])
    <3>1. pipes[g].segments \in Seq(Nat) /\ pipes[g].segment \in Nat
      BY <1>1 DEF IsPipe
    <3>2. Append(pipes[g].segments, pipes[g].segment) \in Seq(Nat)
      BY <3>1
    <3>3. Len(Append(pipes[g].segments, pipes[g].segment)) <= SegmentSize
      BY <2>2, <3>1
    <3> QED
      BY <1>1, <3>2, <3>3 DEF Follows, Alive, Done, IsPipe, Fields
  <2> QED
    BY <1>3, <2>1, <2>2, GoesIsPipeStep DEF HandsOver
<1> QED
  BY <1>2, <1>3

\* and for its speech worker.
LEMMA VoiceKeeps ==
  ASSUME Pipes, NEW g \in Gens, Voice(g)
  PROVE  PipeStep(g)
<1>1. IsPipe(pipes[g])
  BY DEF Pipes
<1>2. pipes[g].voice \in {"recv", "speak"} /\ Alive(pipes[g])
  BY DEF Voice, SpeechWorker, VoiceEmits, Alive
<1>3. \A failed \in BOOLEAN : Follows(pipes[g], VoiceEnds(pipes[g], failed))
  <2>1. <<>> \in Seq(Nat) /\ Len(<<>>) = 0
    OBVIOUS
  <2> QED
    BY <1>1, <1>2, <2>1 DEF Follows, VoiceEnds, IsPipe, Fields
<1>4. CASE SpeechWorker(g)
  <2>1. ASSUME pipes[g].segments # <<>>
        PROVE  Follows(pipes[g], [pipes[g] EXCEPT !.voice = "speak", !.say = Head(pipes[g].segments),
                                                  !.segments = Tail(@)])
    <3>1. /\ Head(pipes[g].segments) \in Nat /\ Tail(pipes[g].segments) \in Seq(Nat)
          /\ Len(Tail(pipes[g].segments)) <= SegmentSize
      BY <1>1, <2>1 DEF IsPipe
    <3> QED
      BY <1>1, <1>2, <3>1 DEF Follows, IsPipe, Fields
  <2>2. Follows(pipes[g], [pipes[g] EXCEPT !.voice = "recv", !.say = 0])
    BY <1>1, <1>2 DEF Follows, IsPipe, Fields, PipePlaces
  <2> QED
    BY <1>3, <1>4, <2>1, <2>2, GoesIsPipeStep DEF SpeechWorker
<1>5. CASE VoiceEmits(g)
  <2>1. Follows(pipes[g], [pipes[g] EXCEPT !.voice = "recv", !.said = @ + pipes[g].say, !.say = 0])
    <3>1. pipes[g].said + pipes[g].say \in Nat
      BY <1>1 DEF IsPipe
    <3> QED
      BY <1>1, <1>2, <3>1 DEF Follows, IsPipe, Fields
  <2>2. \E q : Follows(pipes[g], q) /\ pipes' = [pipes EXCEPT ![g] = q]
    BY <1>3, <1>5, <2>1 DEF VoiceEmits
  <2> QED
    BY <1>5, <2>2 DEF VoiceEmits, PipeStep, Pipes
<1> QED
  BY <1>4, <1>5 DEF Voice
-----------------------------------------------------------------------------
\* What the tasks of a pipeline emit.
LEMMA PipelinesEmit ==
  ASSUME Channels, Pipes, NEW g \in Gens, PipelineTask(g) \/ Voice(g)
  PROVE  Channels'
<1>1. \A q : Goes(g, q) => Channels'
  BY DEF Goes, hostVars, Channels
<1>2. g \in SomeGen
  BY DEF SomeGen
<1>3. CASE PipelineEmits(g)
  <2>1. Head(pipes[g].todo) \in Outs
    BY <1>3 DEF PipelineEmits, Pipes, IsPipe
  <2>2. Emission(g, Head(pipes[g].todo), g) \in Emitted
    BY <1>2, <2>1 DEF Emission, Emitted
  <2> QED
    BY <1>3, <2>2, EmitsKeeps DEF PipelineEmits, Channels
<1>4. CASE VoiceEmits(g)
  <2>1. Emission(g, "audio", g) \in Emitted
    BY <1>2, Todos DEF Emission, Emitted
  <2> QED
    BY <1>4, <2>1, EmitsKeeps DEF VoiceEmits, Channels
<1>5. CASE HandsOver(g) \/ Transcribe(g) \/ TakesDelta(g) \/ TakesEnd(g) \/ TakesError(g)
  BY <1>1, <1>5 DEF HandsOver, Transcribe, TakesDelta, TakesEnd, TakesError
<1>6. CASE FinishStreamedAnswer(g) \/ Prompt(g) \/ Craft(g) \/ Word(g) \/ Formant(g)
  BY <1>1, <1>6 DEF FinishStreamedAnswer, Prompt, Craft, Word, Formant
<1>7. CASE SpeechWorker(g)
  BY <1>1, <1>7 DEF SpeechWorker
<1> QED
  BY <1>3, <1>4, <1>5, <1>6, <1>7 DEF PipelineTask, Voice

LEMMA PipesStay ==
  ASSUME InputLoops, Pipes, LoopHoldsTheVoice, UNCHANGED pipeVars
  PROVE  InputLoops' /\ Pipes' /\ LoopHoldsTheVoice'
BY DEF pipeVars, InputLoops, IsLoop, Pipes, LoopHoldsTheVoice, IsPipe, Alive, Done

\* The input loop hands the voice from one answer to the next, or takes it away.
LEMMA InputLoopKeeps ==
  ASSUME Channels, InputLoops, Pipes, LoopHoldsTheVoice, InputLoop
  PROVE  Channels' /\ InputLoops' /\ Pipes' /\ LoopHoldsTheVoice'
<1> DEFINE i == Head(inputs)
<1>1. Channels' /\ i \in Asked
  BY TakesInputKeeps DEF InputLoop, Channels
<1>2. CASE UNCHANGED pipeVars
  BY <1>1, <1>2, PipesStay
<1>3. ASSUME UNCHANGED pipes, canceled' = CancelActive, IsLoop(loop')
      PROVE  InputLoops' /\ Pipes' /\ LoopHoldsTheVoice'
  <2>1. \A g \in Gens : Alive(pipes[g]) => g \in canceled'
    BY <1>3 DEF CancelActive, LoopHoldsTheVoice, Gens, NoGen
  <2>2. Pipes'
    BY <1>3 DEF Pipes, IsPipe
  <2>3. LoopHoldsTheVoice'
    BY <1>3, <2>1 DEF LoopHoldsTheVoice, Alive, Done
  <2> QED
    BY <1>3, <2>2, <2>3 DEF InputLoops, IsLoop, CancelActive, Held
<1>4. CASE i.kind = "commit" /\ TakesCommit(i.gen)
  <2>1. i.gen \in Gens
    BY <1>1, <1>4 DEF Asked, Frame, Close, Input
  <2>2. InputLoops' /\ loop'.active = i.gen
    BY <1>4, <2>1 DEF TakesCommit, InputLoops, IsLoop, CancelActive, Held
  <2>3. \A g \in Gens : Alive(pipes[g]) => g \in canceled'
    BY <1>4 DEF TakesCommit, CancelActive, LoopHoldsTheVoice, Gens, NoGen
  <2>4. /\ pipes' = [g \in Gens |-> pipes'[g]]
        /\ \A g \in Gens : g # i.gen => pipes'[g] = pipes[g]
        /\ \A g \in Gens : g = i.gen => pipes'[g] = Begin
    BY <1>4 DEF TakesCommit, Pipes
  <2>5. IsPipe(Begin)
    BY IdleIsPipe, Todos DEF Begin, IsPipe, Fields, PipePlaces
  <2>6. \A g \in Gens : IsPipe(pipes'[g])
    BY <2>4, <2>5 DEF Pipes
  <2>7. Pipes'
    BY <2>4, <2>6 DEF Pipes, IsPipe
  <2>8. LoopHoldsTheVoice'
    BY <2>2, <2>3, <2>4 DEF LoopHoldsTheVoice, Alive, Done
  <2> QED
    BY <1>1, <2>2, <2>7, <2>8
<1>5. CASE i.kind = "cancel" /\ ~UNCHANGED pipeVars
  <2>1. UNCHANGED pipes /\ canceled' = CancelActive /\ loop' = [loop EXCEPT !.active = NoGen]
    BY <1>5 DEF InputLoop, pipeVars
  <2> QED
    BY <1>1, <1>3, <2>1 DEF InputLoops, IsLoop, Held
<1>6. CASE i.kind = "close"
  <2>1. /\ UNCHANGED pipes /\ canceled' = CancelActive
        /\ loop' = [loop EXCEPT !.alive = FALSE, !.active = NoGen]
    BY <1>6 DEF InputLoop
  <2> QED
    BY <1>1, <1>3, <2>1 DEF InputLoops, IsLoop, Held
<1> QED
  BY <1>1, <1>2, <1>3, <1>4, <1>5, <1>6 DEF InputLoop

LEMMA PipelinesKeep ==
  ASSUME IInv, OfPipelines(PipelinesStep)
  PROVE  IInv'
<1>1. Hosts'
  <2>1. UNCHANGED <<setting, host, revoked, heard>>
    <3>1. CASE InputLoop
      BY <3>1 DEF InputLoop
    <3>2. ASSUME NEW g \in Gens, PipelineTask(g) \/ Voice(g)
          PROVE  UNCHANGED <<setting, host, revoked, heard>>
      BY <3>2 DEF PipelineTask, Voice, PipelineEmits, HandsOver, Transcribe, TakesDelta,
                  TakesEnd, TakesError, FinishStreamedAnswer, Prompt, Craft, Word, Formant,
                  SpeechWorker, VoiceEmits, Goes, hostVars
    <3> QED
      BY <3>1, <3>2 DEF OfPipelines, PipelinesStep
  <2> QED
    BY <2>1 DEF IInv, Hosts
<1>2. Natives'
  BY DEF OfPipelines, nativeVars, IInv, Natives
<1>3. CASE InputLoop
  BY <1>1, <1>2, <1>3, InputLoopKeeps DEF IInv
<1>4. ASSUME NEW g \in Gens, PipelineTask(g) \/ Voice(g)
      PROVE  IInv'
  <2>1. PipeStep(g)
    BY <1>4, PlaceKeeps, SendsKeep, VoiceKeeps DEF PipelineTask, IInv
  <2>2. Channels' /\ Pipes' /\ LoopHoldsTheVoice'
    BY <1>4, <2>1, PipelinesEmit, PipeStepKeeps DEF IInv
  <2> QED
    BY <1>1, <1>2, <2>1, <2>2 DEF PipeStep, IInv, InputLoops
<1> QED
  BY <1>3, <1>4 DEF OfPipelines, PipelinesStep
-----------------------------------------------------------------------------
(* A task with a socket to a speech model *)

LEMMA BecomesKeeps ==
  ASSUME NEW g \in SomeGen, NEW e \in Events
  PROVE  Becomes(g, e) \in Seq(Emitted)
<1>1. \A out \in Outs : Emission(g, out, e.of) \in Emitted
  BY DEF Events, Emission, Emitted, SomeGen, Held
<1>2. {"final", "complete"} \subseteq Outs /\ (e.kind # "done" => e.kind \in Outs)
  <2>1. e.kind \in {"audio", "error", "done"}
    BY DEF Events
  <2> QED
    BY <2>1 DEF Outs
<1>3. \A a, b \in Emitted : <<a>> \in Seq(Emitted) /\ <<a, b>> \in Seq(Emitted)
  OBVIOUS
<1> QED
  BY <1>1, <1>2, <1>3 DEF Becomes

LEMMA NativeInputKeeps ==
  ASSUME Channels, Hosts, Natives, NativeInput
  PROVE  Channels' /\ Natives'
<1> DEFINE i == Head(inputs)
<1>1. i \in Asked /\ Channels'
  BY TakesInputKeeps DEF NativeInput, Channels
<1>2. /\ <<i>> \in Seq(Asked) /\ NoGen \in SomeGen
      /\ i.kind \in {"commit", "cancel"} => i.gen \in SomeGen
      /\ i.kind \in {"commit", "cancel", "frame", "close"}
  BY <1>1 DEF Asked, Frame, Close, Input, SomeGen
<1>3. \A g \in SomeGen, out \in Outs : <<Emission(g, out, g)>> \in Seq(Emitted)
  BY DEF Emission, Emitted
<1>4. IsTask(native)
  BY DEF Natives
<1>5. /\ \A g \in SomeGen : IsTask([native EXCEPT !.active = g, !.up = <<i>>])
      /\ \A g \in SomeGen, todo \in Seq(Emitted) :
           IsTask([native EXCEPT !.active = g, !.up = <<i>>, !.todo = todo])
      /\ IsTask([native EXCEPT !.up = <<i>>]) /\ IsTask([native EXCEPT !.alive = FALSE])
      /\ \A todo \in Seq(Emitted) : IsTask([native EXCEPT !.todo = todo])
  BY <1>2, <1>4 DEF IsTask
<1>6. native.active \in SomeGen
  BY <1>4 DEF IsTask
<1>7. \A n \in RealtimeInput(i) : IsTask(n)
  BY <1>2, <1>3, <1>4, <1>5, <1>6, Todos DEF RealtimeInput
<1>8. \A n \in MoshiInput(i) : IsTask(n)
  <2>1. CASE i.kind = "commit"
    <3>1. "progress" \in Outs /\ i.gen \in SomeGen
      BY <1>2, <2>1, Todos
    <3>2. <<Emission(i.gen, "progress", i.gen)>> \in Seq(Emitted)
      BY <1>3, <3>1
    <3> QED
      BY <1>5, <2>1, <3>1, <3>2 DEF MoshiInput
  <2>2. CASE i.kind = "cancel"
    BY <1>2, <1>5, <1>6, <2>2 DEF MoshiInput
  <2>3. CASE i.kind = "frame" \/ i.kind = "close"
    BY <1>5, <2>3 DEF MoshiInput
  <2> QED
    BY <1>2, <2>1, <2>2, <2>3
<1>9. IsTask(native')
  BY <1>7, <1>8 DEF NativeInput
<1> QED
  BY <1>1, <1>9 DEF NativeInput, Natives

LEMMA NativeTaskKeeps ==
  ASSUME Channels, Natives, SendUp \/ SendOut \/ TakesEvent \/ NativeEnds \/ MoshiFails
  PROVE  Channels' /\ Natives'
<1>1. CASE SendUp
  <2>1. native.up \in Seq(Asked) /\ up \in Seq(Asked)
    BY DEF Natives, IsTask
  <2>2. up' \in Seq(Asked)
    BY <1>1, <2>1, Sequels DEF SendUp
  <2>3. IsTask(native')
    BY <1>1 DEF SendUp, Natives, IsTask
  <2> QED
    BY <1>1, <2>2, <2>3 DEF SendUp, hostVars, Channels, Natives
<1>2. CASE SendOut
  <2>1. Head(native.todo) \in Emitted /\ Tail(native.todo) \in Seq(Emitted)
    BY <1>2 DEF SendOut, Natives, IsTask
  <2>2. Channels'
    BY <1>2, <2>1, EmitsKeeps DEF SendOut, Channels
  <2> QED
    BY <1>2, <2>1, <2>2 DEF SendOut, Natives, IsTask
<1>3. CASE TakesEvent
  <2>1. Head(down) \in Events /\ Tail(down) \in Seq(Events)
    BY <1>3, Sequels DEF TakesEvent, Natives
  <2>2. \A g \in SomeGen : Becomes(g, Head(down)) \in Seq(Emitted)
    BY <2>1, BecomesKeeps
  <2>3. NoGen \in SomeGen /\ Stray \in SomeGen
    BY DEF SomeGen
  <2>4. IsTask(RealtimeEvent(Head(down))) /\ IsTask(MoshiEvent(Head(down)))
    BY <2>2, <2>3 DEF RealtimeEvent, MoshiEvent, Natives, IsTask
  <2> QED
    BY <1>3, <2>1, <2>4 DEF TakesEvent, hostVars, Channels, Natives
<1>4. CASE NativeEnds
  BY <1>4 DEF NativeEnds, hostVars, Channels, Natives, IsTask
<1>5. CASE MoshiFails
  <2>1. <<Emission(NoGen, "error", NoGen)>> \in Seq(Emitted)
    BY Todos DEF Emission, Emitted, SomeGen
  <2> QED
    BY <1>5, <2>1 DEF MoshiFails, hostVars, Channels, Natives, IsTask
<1> QED
  BY <1>1, <1>2, <1>3, <1>4, <1>5

LEMMA ModelKeeps ==
  ASSUME Channels, Natives, ModelReads \/ ModelWrites \/ ModelDrops
  PROVE  Channels' /\ Natives'
<1>1. CASE ModelReads
  <2>1. Head(up) \in Asked /\ Tail(up) \in Seq(Asked)
    BY <1>1 DEF ModelReads, Natives
  <2>2. Head(up).kind \in {"commit", "cancel", "close", "frame"}
        /\ (Head(up).kind = "commit" => Head(up).gen \in Held) /\ NoGen \in Held
    BY <2>1 DEF Asked, Frame, Close, Input, Held
  <2>3. /\ DOMAIN model' = {"open", "answers", "cut", "sent"}
        /\ model'.answers \in Held /\ model'.cut \in Held
    BY <1>1, <2>2 DEF ModelReads, Natives
  <2> QED
    BY <1>1, <2>1, <2>3 DEF ModelReads, hostVars, Channels, Natives
<1>2. CASE ModelWrites
  <2>1. \A kind \in {"audio", "error", "done"}, of \in Held : Event(kind, of) \in Events
    BY DEF Event, Events
  <2>2. model.answers \in Held /\ model.cut \in Held /\ NoGen \in Held
    BY DEF Natives, Held
  <2>3. down' \in Seq(Events)
    <3>1. down' = down \/ \E kind \in {"audio", "error", "done"}, of \in Held :
                             down' = Append(down, Event(kind, of))
      BY <1>2, <2>2 DEF ModelWrites
    <3>2. down \in Seq(Events)
      BY DEF Natives
    <3> QED
      BY <2>1, <3>1, <3>2, Sequels
  <2>4. /\ DOMAIN model' = {"open", "answers", "cut", "sent"}
        /\ model'.answers \in Held /\ model'.cut \in Held
    BY <1>2, <2>2 DEF ModelWrites, Natives
  <2> QED
    BY <1>2, <2>3, <2>4 DEF ModelWrites, hostVars, Channels, Natives
<1>3. CASE ModelDrops
  BY <1>3 DEF ModelDrops, hostVars, Channels, Natives
<1> QED
  BY <1>1, <1>2, <1>3
-----------------------------------------------------------------------------
LEMMA InitHolds == Init => IInv
<1> SUFFICES ASSUME Init PROVE IInv
  OBVIOUS
<1>1. \A S : <<>> \in Seq(S) /\ Len(<<>>) = 0
  OBVIOUS
<1>2. Channels /\ Hosts
  BY <1>1 DEF Init, HostInit, Channels, Hosts, Unheard, Held
<1>3. InputLoops
  BY DEF Init, PipelinesInit, InputLoops, IsLoop, Held
<1>4. Natives
  BY <1>1 DEF Init, NativeInit, Natives, IsTask, Held, SomeGen
<1>5. Pipes
  BY IdleIsPipe DEF Init, PipelinesInit, Pipes
<1>6. LoopHoldsTheVoice
  BY DEF Init, PipelinesInit, LoopHoldsTheVoice, Idle, Alive, Done
<1> QED
  BY <1>2, <1>3, <1>4, <1>5, <1>6 DEF IInv

LEMMA NextKeeps ==
  ASSUME IInv, [Next]_vars
  PROVE  IInv'
<1>1. CASE OfHost(HostStep(Listens, Silent))
  BY <1>1, HostKeeps, PipesStay DEF OfHost, nativeVars, IInv, Natives
<1>2. CASE OfPipelines(PipelinesStep)
  BY <1>2, PipelinesKeep
<1>3. CASE OfNative(NativeStep)
  <2>1. Channels' /\ Natives'
    BY <1>3, NativeInputKeeps, NativeTaskKeeps, ModelKeeps
       DEF OfNative, NativeStep, NativeTask, IInv
  <2>2. Hosts'
    <3>1. UNCHANGED <<setting, host, revoked, heard>>
      BY <1>3 DEF OfNative, NativeStep, NativeTask, NativeInput, SendUp, SendOut, TakesEvent,
                  NativeEnds, MoshiFails, ModelReads, ModelWrites, ModelDrops, hostVars
    <3> QED
      BY <3>1 DEF IInv, Hosts
  <2> QED
    BY <1>3, <2>1, <2>2, PipesStay DEF OfNative, IInv
<1>4. CASE UNCHANGED vars
  BY <1>4, PipesStay DEF vars, hostVars, nativeVars, IInv, Channels, Hosts, Natives
<1> QED
  BY <1>1, <1>2, <1>3, <1>4 DEF Next
-----------------------------------------------------------------------------
(* What is spoken *)

\* The sum of the first n weights is total: there are partial sums that say so.
SumsTo(w, n, total) ==
  \E t \in [0..n -> Int] :
    /\ t[0] = 0 /\ t[n] = total
    /\ \A i \in 1..n : t[i] = t[i - 1] + w[i]

LEMMA SumOfNone ==
  ASSUME NEW w, NEW total \in Int
  PROVE  SumsTo(w, 0, total) <=> total = 0
<1>1. ASSUME total = 0 PROVE SumsTo(w, 0, total)
  <2> DEFINE t == [i \in 0..0 |-> 0]
  <2>1. t \in [0..0 -> Int] /\ t[0] = total
    BY <1>1
  <2>2. 1..0 = {}
    OBVIOUS
  <2> HIDE DEF t
  <2> QED
    BY <1>1, <2>1, <2>2 DEF SumsTo
<1> QED
  BY <1>1 DEF SumsTo

LEMMA SumOfSame ==
  ASSUME NEW w, NEW v, NEW n \in Nat, NEW total, SumsTo(w, n, total),
         \A i \in 1..n : v[i] = w[i]
  PROVE  SumsTo(v, n, total)
BY DEF SumsTo

LEMMA SumWithOneMore ==
  ASSUME NEW w, NEW v, NEW n \in Nat, NEW total \in Int, NEW e \in Int,
         SumsTo(w, n, total), v[n + 1] = e, \A i \in 1..n : v[i] = w[i]
  PROVE  SumsTo(v, n + 1, total + e)
<1>1. PICK t \in [0..n -> Int] : /\ t[0] = 0 /\ t[n] = total
                                 /\ \A i \in 1..n : t[i] = t[i - 1] + w[i]
  BY DEF SumsTo
<1> DEFINE u == [i \in 0..(n + 1) |-> IF i = n + 1 THEN total + e ELSE t[i]]
<1>2. u \in [0..(n + 1) -> Int] /\ u[n + 1] = total + e /\ u[0] = 0
  BY <1>1
<1>3. \A i \in 0..n : u[i] = t[i]
  OBVIOUS
<1>4. ASSUME NEW i \in 1..(n + 1) PROVE u[i] = u[i - 1] + v[i]
  <2>1. CASE i = n + 1
    <3>1. i - 1 = n /\ n \in 0..n
      BY <2>1
    <3> QED
      BY <1>1, <1>2, <1>3, <2>1, <3>1
  <2>2. CASE i # n + 1
    <3>1. i \in 1..n /\ i \in 0..n /\ i - 1 \in 0..n
      BY <2>2
    <3> QED
      BY <1>1, <1>3, <3>1
  <2> QED
    BY <2>1, <2>2
<1> HIDE DEF u
<1> QED
  BY <1>2, <1>4 DEF SumsTo

LEMMA SumWithoutFirst ==
  ASSUME NEW w, NEW v, NEW n \in Nat \ {0}, NEW total \in Int,
         SumsTo(w, n, total), \A i \in 1..n : w[i] \in Int, \A i \in 1..(n - 1) : v[i] = w[i + 1]
  PROVE  SumsTo(v, n - 1, total - w[1])
<1>1. PICK t \in [0..n -> Int] : /\ t[0] = 0 /\ t[n] = total
                                 /\ \A i \in 1..n : t[i] = t[i - 1] + w[i]
  BY DEF SumsTo
<1> DEFINE u == [i \in 0..(n - 1) |-> t[i + 1] - w[1]]
<1>2. w[1] \in Int /\ \A i \in 0..(n - 1) : i + 1 \in 0..n /\ i + 1 \in 1..n
  OBVIOUS
<1>3. \A i \in 0..(n - 1) : t[i + 1] \in Int /\ t[i + 1] - w[1] \in Int
  BY <1>1, <1>2
<1>4. u \in [0..(n - 1) -> Int]
  BY <1>3
<1>5. t[1] = w[1]
  <2>1. 1 \in 1..n /\ 1 - 1 = 0
    OBVIOUS
  <2>2. t[1] = t[1 - 1] + w[1]
    BY <1>1, <2>1
  <2> QED
    BY <1>1, <2>1, <2>2
<1>6. u[0] = 0 /\ u[n - 1] = total - w[1]
  <2>1. 0 \in 0..(n - 1) /\ n - 1 \in 0..(n - 1) /\ 0 + 1 = 1 /\ (n - 1) + 1 = n
    OBVIOUS
  <2> QED
    BY <1>1, <1>2, <1>5, <2>1
<1>7. ASSUME NEW i \in 1..(n - 1) PROVE u[i] = u[i - 1] + v[i]
  <2>1. /\ i \in 0..(n - 1) /\ i - 1 \in 0..(n - 1) /\ (i - 1) + 1 = i
        /\ i + 1 \in 1..n /\ (i + 1) - 1 = i /\ i \in 0..n
    OBVIOUS
  <2>2. u[i] = t[i + 1] - w[1] /\ u[i - 1] = t[i] - w[1]
    BY <2>1
  <2>3. t[i + 1] = t[i] + w[i + 1] /\ v[i] = w[i + 1] /\ w[i + 1] \in Int
    BY <1>1, <2>1
  <2>4. t[i] \in Int /\ t[i + 1] \in Int
    BY <1>1, <2>1
  <2>5. v[i] = t[i + 1] - t[i]
    BY <2>3, <2>4
  <2> QED
    BY <2>2, <2>4, <2>5
<1> HIDE DEF u
<1> QED
  BY <1>4, <1>6, <1>7 DEF SumsTo
-----------------------------------------------------------------------------
(* The accounts of a pipeline *)

\* The words that are on their way to be spoken; those that were sent to the host.
Owed(p) == p.words - p.unsaid - p.segment - p.say - p.said
Balanced(p) == SumsTo(p.segments, Len(p.segments), Owed(p))
Told(p) == p.words - (IF p.todo = <<"delta">> THEN 1 ELSE 0)

Speaking == {"stream", "finish", "await"}
Blank(p) ==
  /\ p.words = 0 /\ p.unsaid = 0 /\ p.segment = 0 /\ p.segments = <<>>
  /\ p.voice = "idle" /\ p.say = 0 /\ p.said = 0 /\ p.failed = FALSE

\* While the answer is being spoken no word is lost, unless the speech worker reports
\* its failure; an answer that is to be completed has been spoken.
Good(p) ==
  /\ p.pc \in {"idle", "transcribe", "end", "fail", "done"} \cup Speaking
  /\ p.todo = <<>> \/ \E out \in Outs : p.todo = <<out>>
  /\ p.pc \in {"idle", "done"} => p.todo = <<>>
  /\ p.pc \in {"idle", "transcribe"} => Blank(p)
  /\ p.pc = "finish" => p.unsaid = 0
  /\ p.pc = "await" => p.unsaid = 0
  /\ p.pc \notin {"stream", "finish"} => p.segment = 0
  /\ p.voice # "speak" => p.say = 0
  /\ p.pc \in Speaking /\ p.voice # "done" => p.voice # "idle" /\ Balanced(p)
  /\ p.pc \in Speaking /\ p.voice = "done" /\ ~p.failed => p.pc = "await" /\ p.said = p.words
  /\ p.todo = <<"complete">> => p.pc = "end" /\ p.voice = "done" /\ p.said = p.words

\* Is there something left to do?
Busy(p) ==
  p.pc \notin {"idle", "done"} \/ p.voice \in {"recv", "speak"} \/ p.todo # <<>> \/ p.segment # 0
Silenced(p) == ~Busy(p) /\ p.pc = "done" /\ p.said = p.words

LEMMA OnlyTheBusyStep ==
  ASSUME NEW g \in Gens, PipelineTask(g) \/ Voice(g)
  PROVE  Busy(pipes[g])
BY DEF PipelineTask, Voice, PipelineEmits, HandsOver, Transcribe, TakesDelta, TakesEnd,
       TakesError, FinishStreamedAnswer, Prompt, Craft, Word, Formant, SpeechWorker,
       VoiceEmits, Listening, At, Busy

\* What a task makes of its pipeline, when it emits nothing.
Proceeds(p, q) == Good(q) /\ Told(q) = Told(p)

LEMMA FreedProceeds ==
  ASSUME NEW g, g \notin revoked, ~Gone, NEW p, NEW q, Proceeds(p, q)
  PROVE  Proceeds(p, Freed(g, q))
<1>1. CASE Alive(q)
  BY <1>1 DEF Freed
<1>2. CASE ~Alive(q)
  <2> DEFINE f == [Idle EXCEPT !.pc = "done", !.words = q.words, !.said = q.said]
  <2>1. Freed(g, q) = f
    BY <1>2 DEF Freed
  <2>2. /\ f.pc = "done" /\ f.todo = <<>> /\ f.words = q.words /\ f.segment = 0
        /\ f.voice = "idle" /\ f.say = 0
    BY DEF Idle
  <2>3. q.todo = <<>>
    BY <1>2 DEF Proceeds, Good, Alive, Done
  <2>4. <<>> # <<"delta">> /\ <<>> # <<"complete">>
    OBVIOUS
  <2> HIDE DEF f
  <2>5. Good(f)
    BY <2>2, <2>4 DEF Good, Speaking
  <2>6. Told(f) = Told(q)
    BY <2>2, <2>3, <2>4 DEF Told
  <2> QED
    BY <2>1, <2>5, <2>6 DEF Proceeds
<1> QED
  BY <1>1, <1>2

\* A step that keeps the fields the accounts of the spoken words are about.
LEMMA AccountsGoOn ==
  ASSUME NEW p, NEW q, IsPipe(p), Good(p), p.pc \in Speaking,
         q.pc \in Speaking, q.voice = p.voice, q.failed = p.failed, q.say = p.say,
         q.segments = p.segments, q.said = p.said,
         q.words \in Nat, q.unsaid \in Nat, q.segment \in Nat,
         q.words - q.unsaid - q.segment = p.words - p.unsaid - p.segment,
         q.pc = "finish" => q.unsaid = 0,
         q.pc = "await" => q.unsaid = 0 /\ q.segment = 0 /\ p.pc # "stream" /\ q.words = p.words,
         p.pc = "await" => q.pc = "await",
         q.pc # "await" /\ p.voice = "done" => p.failed,
         q.todo = <<>> \/ \E out \in Outs \ {"complete"} : q.todo = <<out>>
  PROVE  Good(q)
<1>1. Owed(q) = Owed(p)
  BY DEF Owed, IsPipe
<1>2. Balanced(p) => Balanced(q)
  BY <1>1 DEF Balanced
<1>3. q.todo # <<"complete">>
  <2>1. <<>> # <<"complete">> /\ \A out : <<out>> = <<"complete">> => out = "complete"
    OBVIOUS
  <2> QED
    BY <2>1
<1>5. q.voice = "done" /\ ~q.failed => q.pc = "await" /\ q.said = q.words
  BY DEF Good
<1>6. q.todo = <<>> \/ \E out \in Outs : q.todo = <<out>>
  OBVIOUS
<1> QED
  BY <1>2, <1>3, <1>5, <1>6 DEF Good, Speaking

LEMMA StreamProceeds ==
  ASSUME NEW g \in Gens, IsPipe(pipes[g]), Good(pipes[g]),
         TakesDelta(g) \/ TakesEnd(g) \/ TakesError(g)
  PROVE  \E q : Goes(g, q) /\ Proceeds(pipes[g], q)
<1> DEFINE p == pipes[g]
<1>1. /\ p.pc = "stream" /\ p.todo = <<>> /\ p.segment = 0 /\ DOMAIN p = Fields
      /\ p.words \in Nat /\ p.unsaid \in Nat /\ p.segment \in Nat
  BY DEF TakesDelta, TakesEnd, TakesError, Listening, At, IsPipe
<1>2. p.voice = "done" => p.failed
  BY <1>1 DEF Good, Speaking
<1>3. <<"delta">> # <<>> /\ <<"error">> # <<>> /\ "delta" \in Outs \ {"complete"} /\ "error" \in Outs
      /\ <<"error">> # <<"complete">> /\ <<"error">> # <<"delta">>
  BY DEF Outs
<1>4. CASE TakesDelta(g)
  <2> DEFINE q1 == [p EXCEPT !.words = @ + 1, !.todo = <<"delta">>]
             q2 == [q1 EXCEPT !.unsaid = @ + 1]
             q3 == [q1 EXCEPT !.unsaid = 0, !.segment = p.unsaid + 1]
  <2>1. Goes(g, q2) \/ Goes(g, q3)
    BY <1>4 DEF TakesDelta
  <2>2. /\ q2.pc = "stream" /\ q2.todo = <<"delta">> /\ q2.words = p.words + 1
        /\ q2.unsaid = p.unsaid + 1 /\ q2.segment = 0 /\ q2.segments = p.segments
        /\ q2.voice = p.voice /\ q2.say = p.say /\ q2.said = p.said /\ q2.failed = p.failed
    BY <1>1 DEF Fields
  <2>3. /\ q3.pc = "stream" /\ q3.todo = <<"delta">> /\ q3.words = p.words + 1
        /\ q3.unsaid = 0 /\ q3.segment = p.unsaid + 1 /\ q3.segments = p.segments
        /\ q3.voice = p.voice /\ q3.say = p.say /\ q3.said = p.said /\ q3.failed = p.failed
    BY <1>1 DEF Fields
  <2> HIDE DEF q1, q2, q3
  <2>4. Told(q2) = Told(p) /\ Told(q3) = Told(p)
    BY <1>1, <1>3, <2>2, <2>3 DEF Told
  <2>5. p.words + 1 \in Nat /\ p.unsaid + 1 \in Nat /\ "stream" \in Speaking
    BY <1>1 DEF Speaking
  <2>6. Good(q2)
    <3>1. q2.words - q2.unsaid - q2.segment = p.words - p.unsaid - p.segment
      BY <1>1, <2>2
    <3> QED
      BY <1>1, <1>2, <1>3, <2>2, <2>5, <3>1, AccountsGoOn
  <2>7. Good(q3)
    <3>1. q3.words - q3.unsaid - q3.segment = p.words - p.unsaid - p.segment
      BY <1>1, <2>3
    <3> QED
      BY <1>1, <1>2, <1>3, <2>3, <2>5, <3>1, AccountsGoOn
  <2> QED
    BY <2>1, <2>4, <2>6, <2>7 DEF Proceeds
<1>5. CASE TakesEnd(g)
  <2> DEFINE q == [p EXCEPT !.pc = "finish", !.unsaid = 0, !.segment = p.unsaid]
  <2>1. Goes(g, q)
    BY <1>5 DEF TakesEnd
  <2>2. /\ q.pc = "finish" /\ q.todo = <<>> /\ q.words = p.words
        /\ q.unsaid = 0 /\ q.segment = p.unsaid /\ q.segments = p.segments
        /\ q.voice = p.voice /\ q.say = p.say /\ q.said = p.said /\ q.failed = p.failed
    BY <1>1 DEF Fields
  <2> HIDE DEF q
  <2>3. Told(q) = Told(p)
    BY <1>1, <2>2 DEF Told
  <2>4. Good(q)
    BY <1>1, <1>2, <2>2, AccountsGoOn DEF Speaking
  <2> QED
    BY <2>1, <2>3, <2>4 DEF Proceeds
<1>6. CASE TakesError(g)
  <2> DEFINE q == [p EXCEPT !.pc = "fail", !.todo = <<"error">>]
  <2>1. Goes(g, q)
    BY <1>6 DEF TakesError
  <2>2. /\ q.pc = "fail" /\ q.todo = <<"error">> /\ q.words = p.words
        /\ q.segment = 0 /\ q.voice = p.voice /\ q.say = p.say
    BY <1>1 DEF Fields
  <2> HIDE DEF q
  <2>3. Told(q) = Told(p)
    BY <1>1, <1>3, <2>2 DEF Told
  <2>4. Good(q)
    BY <1>1, <1>3, <2>2 DEF Good, Speaking
  <2> QED
    BY <2>1, <2>3, <2>4 DEF Proceeds
<1> QED
  BY <1>4, <1>5, <1>6

LEMMA HandsOverProceeds ==
  ASSUME NEW g \in Gens, IsPipe(pipes[g]), Good(pipes[g]), HandsOver(g)
  PROVE  \E q : Goes(g, q) /\ Proceeds(pipes[g], q)
<1> DEFINE p == pipes[g]
<1>1. /\ p.todo = <<>> /\ p.segment # 0 /\ DOMAIN p = Fields
      /\ p.words \in Nat /\ p.unsaid \in Nat /\ p.segment \in Nat /\ p.say \in Nat
      /\ p.said \in Nat /\ p.segments \in Seq(Nat)
  BY DEF HandsOver, IsPipe
<1>2. p.pc \in {"stream", "finish"}
  BY <1>1 DEF Good
<1>3. CASE p.voice = "done"
  <2> DEFINE q == [p EXCEPT !.pc = "done", !.segment = 0]
  <2>1. Goes(g, q)
    BY <1>3 DEF HandsOver
  <2>2. /\ q.pc = "done" /\ q.todo = <<>> /\ q.words = p.words /\ q.segment = 0
        /\ q.voice = p.voice /\ q.say = p.say
    BY <1>1 DEF Fields
  <2> HIDE DEF q
  <2>3. Told(q) = Told(p)
    BY <1>1, <2>2 DEF Told
  <2>4. Good(q)
    BY <1>1, <2>2 DEF Good, Speaking
  <2> QED
    BY <2>1, <2>3, <2>4 DEF Proceeds
<1>4. CASE p.voice # "done"
  <2> DEFINE q == [p EXCEPT !.segments = Append(@, p.segment), !.segment = 0]
  <2>1. Goes(g, q)
    BY <1>4 DEF HandsOver
  <2>2. /\ q.pc = p.pc /\ q.todo = <<>> /\ q.words = p.words /\ q.unsaid = p.unsaid
        /\ q.segment = 0 /\ q.segments = Append(p.segments, p.segment)
        /\ q.voice = p.voice /\ q.say = p.say /\ q.said = p.said /\ q.failed = p.failed
    BY <1>1 DEF Fields
  <2> HIDE DEF q
  <2>3. Told(q) = Told(p)
    BY <1>1, <2>2 DEF Told
  <2>4. Balanced(q)
    <3>1. Balanced(p)
      BY <1>2, <1>4 DEF Good, Speaking
    <3>2. /\ Len(q.segments) = Len(p.segments) + 1 /\ Len(p.segments) \in Nat
          /\ q.segments[Len(p.segments) + 1] = p.segment
          /\ \A i \in 1..Len(p.segments) : q.segments[i] = p.segments[i]
      BY <1>1, <2>2
    <3>3. Owed(q) = Owed(p) + p.segment /\ Owed(p) \in Int
      BY <1>1, <2>2 DEF Owed
    <3>4. SumsTo(q.segments, Len(p.segments) + 1, Owed(p) + p.segment)
      <4>1. SumsTo(p.segments, Len(p.segments), Owed(p)) /\ p.segment \in Int
        BY <1>1, <3>1 DEF Balanced
      <4> HIDE DEF p
      <4> QED
        BY <3>2, <3>3, <4>1, SumWithOneMore
    <3> QED
      BY <3>2, <3>3, <3>4 DEF Balanced
  <2>5. Good(q)
    BY <1>1, <1>2, <1>4, <2>2, <2>4 DEF Good, Speaking
  <2> QED
    BY <2>1, <2>3, <2>5 DEF Proceeds
<1> QED
  BY <1>3, <1>4

LEMMA TranscribeProceeds ==
  ASSUME NEW g \in Gens, IsPipe(pipes[g]), Good(pipes[g]), g \notin canceled, Transcribe(g)
  PROVE  \E q : Goes(g, q) /\ Proceeds(pipes[g], q)
<1> DEFINE p == pipes[g]
           q1 == [p EXCEPT !.pc = "end", !.todo = <<"error">>]
           q2 == [p EXCEPT !.pc = "stream", !.voice = "recv"]
<1>1. /\ p.pc = "transcribe" /\ p.todo = <<>> /\ DOMAIN p = Fields /\ Blank(p)
      /\ <<"error">> # <<>> /\ <<"error">> # <<"complete">> /\ <<"error">> # <<"delta">>
      /\ "error" \in Outs
  BY DEF Transcribe, At, IsPipe, Good, Outs
<1>2. Goes(g, q1) \/ Goes(g, q2)
  BY DEF Transcribe, Canceled
<1>3. /\ q1.pc = "end" /\ q1.todo = <<"error">> /\ q1.words = 0 /\ q1.segment = 0
      /\ q1.voice = "idle" /\ q1.say = 0 /\ q1.said = 0
  BY <1>1 DEF Fields, Blank
<1>4. /\ q2.pc = "stream" /\ q2.todo = <<>> /\ q2.words = 0 /\ q2.segment = 0
      /\ q2.voice = "recv" /\ q2.say = 0 /\ q2.said = 0 /\ q2.unsaid = 0
      /\ q2.segments = <<>> /\ q2.failed = FALSE
  BY <1>1 DEF Fields, Blank
<1>5. p.words = 0
  BY <1>1 DEF Blank
<1> HIDE DEF q1, q2
<1>6. Good(q1) /\ Told(q1) = Told(p)
  <2>1. Good(q1)
    BY <1>1, <1>3 DEF Good, Speaking
  <2>2. Told(q1) = Told(p)
    <3>1. p.todo # <<"delta">> /\ q1.todo # <<"delta">> /\ q1.words = p.words
      BY <1>1, <1>3, <1>5
    <3> HIDE DEF p
    <3> QED
      BY <3>1 DEF Told
  <2> QED
    BY <2>1, <2>2
<1>7. Balanced(q2)
  <2>1. Owed(q2) = 0 /\ Len(q2.segments) = 0 /\ 0 \in Int
    BY <1>4 DEF Owed
  <2> QED
    BY <2>1, SumOfNone DEF Balanced
<1>8. Good(q2) /\ Told(q2) = Told(p)
  BY <1>1, <1>4, <1>5, <1>7 DEF Good, Speaking, Told
<1> QED
  BY <1>2, <1>6, <1>8 DEF Proceeds

LEMMA FinishProceeds ==
  ASSUME NEW g \in Gens, IsPipe(pipes[g]), Good(pipes[g]), FinishStreamedAnswer(g)
  PROVE  \E q : Goes(g, q) /\ Proceeds(pipes[g], q)
<1> DEFINE p == pipes[g]
           q1 == [p EXCEPT !.pc = "end", !.todo = <<"error">>]
           q2 == [p EXCEPT !.pc = "await", !.todo = <<"final">>]
           q3 == [p EXCEPT !.pc = "end", !.todo = <<Verdict(p)>>]
<1>1. /\ p.todo = <<>> /\ DOMAIN p = Fields /\ p.words \in Nat /\ p.unsaid \in Nat
  BY DEF FinishStreamedAnswer, At, IsPipe
<1>2. /\ <<"error">> # <<>> /\ <<"error">> # <<"complete">> /\ <<"error">> # <<"delta">>
      /\ <<"final">> # <<>> /\ <<"final">> # <<"complete">> /\ <<"final">> # <<"delta">>
      /\ <<"complete">> # <<>> /\ <<"complete">> # <<"delta">>
      /\ "error" \in Outs /\ "final" \in Outs \ {"complete"} /\ "complete" \in Outs
  BY DEF Outs
<1>3. CASE At(g, "finish") /\ p.segment = 0 /\ Goes(g, q1)
  <2>1. /\ q1.pc = "end" /\ q1.todo = <<"error">> /\ q1.words = p.words /\ q1.segment = 0
        /\ q1.voice = p.voice /\ q1.say = p.say
    BY <1>1, <1>3 DEF Fields
  <2> HIDE DEF q1
  <2>2. Good(q1) /\ Told(q1) = Told(p)
    BY <1>1, <1>2, <2>1 DEF Good, Speaking, Told
  <2> QED
    BY <1>3, <2>2 DEF Proceeds
<1>4. CASE At(g, "finish") /\ p.segment = 0 /\ Goes(g, q2)
  <2>1. /\ q2.pc = "await" /\ q2.todo = <<"final">> /\ q2.words = p.words /\ q2.segment = 0
        /\ q2.unsaid = 0 /\ q2.segments = p.segments /\ q2.voice = p.voice /\ q2.say = p.say
        /\ q2.said = p.said /\ q2.failed = p.failed /\ p.pc = "finish" /\ p.unsaid = 0
    BY <1>1, <1>4 DEF Fields, At, Good
  <2>2. p.segment = 0
    BY <1>4
  <2> HIDE DEF q2
  <2>3. Balanced(p) => Balanced(q2)
    BY <1>1, <2>1, <2>2 DEF Balanced, Owed
  <2>4. Good(q2) /\ Told(q2) = Told(p)
    BY <1>1, <1>2, <2>1, <2>3 DEF Good, Speaking, Told
  <2> QED
    BY <1>4, <2>4 DEF Proceeds
<1>5. CASE At(g, "await") /\ p.voice = "done" /\ Goes(g, q3)
  <2>1. /\ q3.pc = "end" /\ q3.todo = <<Verdict(p)>> /\ q3.words = p.words /\ q3.segment = p.segment
        /\ q3.voice = "done" /\ q3.say = p.say /\ q3.said = p.said /\ p.pc = "await"
    BY <1>1, <1>5 DEF Fields, At
  <2>2. Verdict(p) = "error" \/ (Verdict(p) = "complete" /\ p.said = p.words)
    BY <1>5, <2>1 DEF Verdict, Good, Speaking
  <2>3. p.segment = 0
    BY <2>1 DEF Good
  <2> HIDE DEF q3
  <2>4. Good(q3) /\ Told(q3) = Told(p)
    BY <1>1, <1>2, <1>5, <2>1, <2>2, <2>3 DEF Good, Speaking, Told
  <2> QED
    BY <1>5, <2>4 DEF Proceeds
<1> QED
  BY <1>3, <1>4, <1>5 DEF FinishStreamedAnswer

LEMMA WorkerProceeds ==
  ASSUME NEW g \in Gens, IsPipe(pipes[g]), Good(pipes[g]), g \notin canceled, SpeechWorker(g)
  PROVE  \E q : Goes(g, q) /\ Proceeds(pipes[g], q)
<1> DEFINE p == pipes[g]
           q1 == [p EXCEPT !.voice = "speak", !.say = Head(p.segments), !.segments = Tail(@)]
           q2(failed) == VoiceEnds(p, failed)
<1>1. /\ DOMAIN p = Fields /\ p.segments \in Seq(Nat) /\ p.say \in Nat
      /\ p.words \in Nat /\ p.unsaid \in Nat /\ p.segment \in Nat /\ p.said \in Nat
  BY DEF IsPipe
<1>2. \A failed \in BOOLEAN :
        /\ q2(failed).pc = p.pc /\ q2(failed).todo = p.todo /\ q2(failed).words = p.words
        /\ q2(failed).unsaid = p.unsaid /\ q2(failed).segment = p.segment
        /\ q2(failed).voice = "done" /\ q2(failed).say = 0 /\ q2(failed).said = p.said
        /\ q2(failed).failed = failed
  BY <1>1 DEF VoiceEnds, Fields
<1> HIDE DEF q2
<1>3. \A failed \in BOOLEAN : Told(q2(failed)) = Told(p)
  BY <1>2 DEF Told
<1>4. CASE p.voice = "recv" /\ p.segments # <<>> /\ Goes(g, q1)
  <2>1. /\ q1.pc = p.pc /\ q1.todo = p.todo /\ q1.words = p.words /\ q1.unsaid = p.unsaid
        /\ q1.segment = p.segment /\ q1.segments = Tail(p.segments) /\ q1.voice = "speak"
        /\ q1.say = Head(p.segments) /\ q1.said = p.said /\ q1.failed = p.failed
    BY <1>1 DEF Fields
  <2>2. Told(q1) = Told(p)
    BY <2>1 DEF Told
  <2>3. p.say = 0
    BY <1>4 DEF Good
  <2>4. Balanced(p) => Balanced(q1)
    <3> DEFINE w == p.segments
    <3>1. w \in Seq(Nat) /\ w # <<>>
      BY <1>1, <1>4
    <3> HIDE DEF w
    <3>2. Len(w) \in Nat \ {0} /\ Len(Tail(w)) = Len(w) - 1 /\ Head(w) = w[1]
      BY <3>1
    <3>3. \A i \in 1..(Len(w) - 1) : Tail(w)[i] = w[i + 1]
      BY <3>1
    <3>4. w[1] \in Nat /\ \A i \in 1..Len(w) : w[i] \in Int
      BY <3>1, <3>2
    <3>5. q1.say = w[1] /\ q1.segments = Tail(w) /\ p.segments = w
      BY <2>1, <3>2 DEF w
    <3>6. Owed(q1) = Owed(p) - w[1] /\ Owed(p) \in Int
      <4> HIDE DEF p, q1
      <4>1. /\ Owed(p) = p.words - p.unsaid - p.segment - 0 - p.said
            /\ Owed(q1) = p.words - p.unsaid - p.segment - w[1] - p.said
        BY <2>1, <2>3, <3>5 DEF Owed
      <4> QED
        BY <1>1, <3>4, <4>1
    <3> HIDE DEF p, q1
    <3>7. ASSUME SumsTo(w, Len(w), Owed(p))
          PROVE  SumsTo(Tail(w), Len(w) - 1, Owed(p) - w[1])
      BY <3>2, <3>3, <3>4, <3>6, <3>7, SumWithoutFirst
    <3> QED
      BY <3>2, <3>5, <3>6, <3>7 DEF Balanced
  <2> HIDE DEF q1
  <2>5. Good(q1)
    BY <1>4, <2>1, <2>4 DEF Good, Speaking, Blank
  <2> QED
    BY <1>4, <2>2, <2>5 DEF Proceeds
<1>5. CASE p.voice = "recv" /\ p.segments = <<>> /\ SegmentsClosed(p) /\ Goes(g, q2(FALSE))
  <2>1. p.pc = "await" => p.said = p.words
    <3>1. SUFFICES ASSUME p.pc = "await" PROVE p.said = p.words
      OBVIOUS
    <3>2. /\ Balanced(p) /\ p.unsaid = 0 /\ p.segment = 0 /\ p.say = 0
      BY <1>5, <3>1 DEF Good, Speaking
    <3>3. Len(p.segments) = 0 /\ Owed(p) \in Int
      BY <1>1, <1>5 DEF Owed
    <3>4. Owed(p) = 0
      BY <3>2, <3>3, SumOfNone DEF Balanced
    <3> QED
      BY <1>1, <3>2, <3>4 DEF Owed
  <2>2. Good(q2(FALSE))
    BY <1>2, <1>5, <2>1 DEF Good, Speaking, Blank, SegmentsClosed
  <2> QED
    BY <1>3, <1>5, <2>2 DEF Proceeds
<1>6. CASE p.voice = "speak" /\ Goes(g, q2(TRUE))
  <2>1. Good(q2(TRUE))
    BY <1>2, <1>6 DEF Good, Speaking, Blank
  <2> QED
    BY <1>3, <1>6, <2>1 DEF Proceeds
<1> QED
  BY <1>4, <1>5, <1>6 DEF SpeechWorker, Canceled, q2

\* What is told when something is emitted.
Word1(out) == IF out = "delta" THEN 1 ELSE 0

LEMMA PipelineEmitsProceeds ==
  ASSUME NEW g \in Gens, g \notin revoked, ~Gone, Pipes, Good(pipes[g]), PipelineEmits(g)
  PROVE  \E out \in Outs :
           /\ outputs' = Append(outputs, Emission(g, out, g))
           /\ Good(pipes'[g]) /\ Told(pipes'[g]) = Told(pipes[g]) + Word1(out)
           /\ out = "complete" => Silenced(pipes'[g])
<1> DEFINE p == pipes[g]
           over == p.pc \in {"end", "fail"}
           q == IF over THEN [p EXCEPT !.todo = <<>>, !.pc = "done", !.segment = 0]
                ELSE [p EXCEPT !.todo = <<>>]
<1>1. /\ DOMAIN p = Fields /\ p.words \in Nat
  BY DEF Pipes, IsPipe
<1>2. PICK out \in Outs : p.todo = <<out>>
  BY DEF PipelineEmits, Good
<1>3. Head(p.todo) = out /\ Tail(p.todo) = <<>> /\ Len(p.todo) = 1
  BY <1>2
<1>4. outputs' = Append(outputs, Emission(g, out, g))
  BY <1>3 DEF PipelineEmits, Emits
<1>5. pipes'[g] = Freed(g, q)
  BY <1>3 DEF PipelineEmits, Pipes
<1>6. /\ q.todo = <<>> /\ q.pc = (IF over THEN "done" ELSE p.pc)
      /\ q.segment = (IF over THEN 0 ELSE p.segment)
      /\ q.words = p.words /\ q.unsaid = p.unsaid /\ q.segments = p.segments
      /\ q.voice = p.voice /\ q.say = p.say /\ q.said = p.said /\ q.failed = p.failed
  BY <1>1 DEF Fields
<1>7. <<>> # <<"delta">> /\ <<>> # <<"complete">> /\ p.todo # <<>>
      /\ (out = "delta" <=> p.todo = <<"delta">>) /\ (out = "complete" <=> p.todo = <<"complete">>)
  BY <1>2
<1>8. p.pc \notin {"idle", "done"}
  BY <1>7 DEF Good
<1> HIDE DEF q
<1>9. Blank(p) => Blank(q)
  BY <1>6 DEF Blank
<1>10. Balanced(p) => q.segment # p.segment \/ Balanced(q)
  BY <1>6 DEF Balanced, Owed
<1>11. Good(q)
  <2>1. CASE over
    BY <1>6, <1>7, <2>1 DEF Good, Speaking
  <2>2. CASE ~over
    BY <1>6, <1>7, <1>8, <1>9, <1>10, <2>2 DEF Good, Speaking
  <2> QED
    BY <2>1, <2>2
<1>12. Told(q) = Told(p) + Word1(out)
  <2>1. Told(q) = p.words
    BY <1>1, <1>6, <1>7 DEF Told
  <2>2. Told(p) = p.words - Word1(out)
    BY <1>7 DEF Told, Word1
  <2>3. Word1(out) \in Nat
    BY DEF Word1
  <2> HIDE DEF p
  <2> QED
    BY <1>1, <2>1, <2>2, <2>3
<1>13. Proceeds(q, Freed(g, q))
  BY <1>11, FreedProceeds DEF Proceeds
<1>14. ASSUME out = "complete" PROVE Silenced(Freed(g, q))
  <2>1. over /\ p.voice = "done" /\ p.said = p.words
    BY <1>7, <1>14 DEF Good
  <2>2. ~Alive(q)
    BY <1>6, <2>1 DEF Alive, Done
  <2>3. Freed(g, q) = [Idle EXCEPT !.pc = "done", !.words = q.words, !.said = q.said]
    BY <2>2 DEF Freed
  <2> QED
    BY <1>6, <2>1, <2>3 DEF Idle, Silenced, Busy
<1> QED
  BY <1>4, <1>5, <1>12, <1>13, <1>14 DEF Proceeds

LEMMA VoiceEmitsProceeds ==
  ASSUME NEW g \in Gens, ~Gone, Pipes, Good(pipes[g]), VoiceEmits(g)
  PROVE  /\ outputs' = Append(outputs, Emission(g, "audio", g))
         /\ Proceeds(pipes[g], pipes'[g])
<1> DEFINE p == pipes[g]
           q == [p EXCEPT !.voice = "recv", !.said = @ + p.say, !.say = 0]
<1>1. /\ DOMAIN p = Fields /\ p.words \in Nat /\ p.unsaid \in Nat /\ p.segment \in Nat
      /\ p.say \in Nat /\ p.said \in Nat /\ p.voice = "speak"
  BY DEF Pipes, IsPipe, VoiceEmits
<1>2. pipes'[g] = q /\ outputs' = Append(outputs, Emission(g, "audio", g))
  BY DEF VoiceEmits, Pipes, Emits
<1>3. /\ q.pc = p.pc /\ q.todo = p.todo /\ q.words = p.words /\ q.unsaid = p.unsaid
      /\ q.segment = p.segment /\ q.segments = p.segments /\ q.voice = "recv"
      /\ q.say = 0 /\ q.said = p.said + p.say /\ q.failed = p.failed
  BY <1>1 DEF Fields
<1> HIDE DEF q
<1>4. Owed(q) = Owed(p)
  <2> HIDE DEF p
  <2> QED
    BY <1>1, <1>3 DEF Owed
<1>5. Balanced(p) => Balanced(q)
  BY <1>3, <1>4 DEF Balanced
<1>6. Good(q)
  BY <1>1, <1>3, <1>5 DEF Good, Speaking, Blank
<1>7. Told(q) = Told(p)
  BY <1>3 DEF Told
<1> QED
  BY <1>2, <1>6, <1>7 DEF Proceeds

\* One step of a pipeline whose answer is still wanted.
LEMMA GoodGoesOn ==
  ASSUME NEW g \in Gens, g \notin revoked, g \notin canceled, ~Gone, Pipes, Good(pipes[g]),
         PipelineTask(g) \/ Voice(g)
  PROVE  /\ Good(pipes'[g])
         /\ \/ UNCHANGED outputs /\ Told(pipes'[g]) = Told(pipes[g])
            \/ \E out \in Outs :
                 /\ outputs' = Append(outputs, Emission(g, out, g))
                 /\ Told(pipes'[g]) = Told(pipes[g]) + Word1(out)
                 /\ out = "complete" => Silenced(pipes'[g])
<1>1. IsPipe(pipes[g])
  BY DEF Pipes
<1>2. ASSUME NEW q, Goes(g, q), Proceeds(pipes[g], q)
      PROVE  Good(pipes'[g]) /\ UNCHANGED outputs /\ Told(pipes'[g]) = Told(pipes[g])
  <2>1. pipes'[g] = Freed(g, q) /\ UNCHANGED outputs
    BY <1>2 DEF Goes, Pipes, hostVars
  <2> QED
    BY <1>2, <2>1, FreedProceeds DEF Proceeds
<1>3. pipes[g].pc \notin {"prompt", "craft", "words", "formant"}
  BY DEF Good, Speaking
<1>4. CASE PipelineEmits(g)
  BY <1>4, PipelineEmitsProceeds
<1>5. CASE VoiceEmits(g)
  <2>1. "audio" \in Outs /\ Word1("audio") = 0 /\ "audio" # "complete"
    BY DEF Outs, Word1
  <2>2. Told(pipes[g]) + 0 = Told(pipes[g])
    <3>1. Told(pipes[g]) \in Int
      BY <1>1 DEF Told, IsPipe
    <3> QED
      BY <3>1
  <2> QED
    BY <1>5, <2>1, <2>2, VoiceEmitsProceeds DEF Proceeds
<1>6. CASE HandsOver(g)
  BY <1>1, <1>2, <1>6, HandsOverProceeds
<1>7. CASE TakesDelta(g) \/ TakesEnd(g) \/ TakesError(g)
  BY <1>1, <1>2, <1>7, StreamProceeds
<1>8. CASE Transcribe(g)
  BY <1>1, <1>2, <1>8, TranscribeProceeds
<1>9. CASE FinishStreamedAnswer(g)
  BY <1>1, <1>2, <1>9, FinishProceeds
<1>10. CASE SpeechWorker(g)
  BY <1>1, <1>2, <1>10, WorkerProceeds
<1>11. CASE Prompt(g) \/ Craft(g) \/ Word(g) \/ Formant(g)
  BY <1>3, <1>11 DEF Prompt, Craft, Word, Formant, At
<1> QED
  BY <1>4, <1>5, <1>6, <1>7, <1>8, <1>9, <1>10, <1>11 DEF PipelineTask, Voice
-----------------------------------------------------------------------------
(* The books of an answer *)

\* What is on its way to the host, and has been heard, of an answer.
Shown(g) == {k \in DOMAIN outputs : outputs[k].gen = g /\ outputs[k].out = "delta"}
Completes(g, k) == outputs[k].gen = g /\ outputs[k].out = "complete"
Unsent(g) == \A k \in DOMAIN outputs : outputs[k].gen # g
Concluded(g) == "complete" \in heard[g].ends
Ended(g) == Concluded(g) \/ \E k \in DOMAIN outputs : Completes(g, k)

\* Every word of an answer that is wanted has been heard or is on its way; its end is
\* the last that is heard of it, and was sent when nothing was left to say.
Books(g) ==
  /\ Good(pipes[g])
  /\ Cardinality(Shown(g)) + heard[g].words = Told(pipes[g])
  /\ Ended(g) => Silenced(pipes[g])
  /\ \A j, k \in DOMAIN outputs : Completes(g, j) /\ outputs[k].gen = g => k <= j
  /\ Concluded(g) => Unsent(g)

LEMMA ShownIsFinite ==
  ASSUME Channels, NEW g
  PROVE  IsFiniteSet(Shown(g)) /\ Cardinality(Shown(g)) \in Nat
<1>1. Shown(g) \subseteq 1..Len(outputs) /\ Len(outputs) \in Nat
  BY DEF Shown, Channels
<1>2. IsFiniteSet(1..Len(outputs))
  BY <1>1, FS_Interval
<1> QED
  BY <1>1, <1>2, FS_Subset, FS_CardinalityType

\* One more word is on its way,
LEMMA ShownWhenSent ==
  ASSUME Channels, NEW g, NEW h, NEW out, outputs' = Append(outputs, Emission(h, out, h))
  PROVE  Cardinality(Shown(g)') = Cardinality(Shown(g)) + (IF h = g THEN Word1(out) ELSE 0)
<1> DEFINE n == Len(outputs) + 1
<1>1. /\ DOMAIN outputs = 1..Len(outputs) /\ Len(outputs) \in Nat /\ DOMAIN outputs' = 1..n
      /\ outputs'[n].gen = h /\ outputs'[n].out = out
      /\ \A k \in DOMAIN outputs : outputs'[k] = outputs[k]
      /\ n \notin DOMAIN outputs /\ DOMAIN outputs' = DOMAIN outputs \cup {n}
  BY DEF Channels, Emission
<1> HIDE DEF n
<1>2. IsFiniteSet(Shown(g)) /\ n \notin Shown(g) /\ Cardinality(Shown(g)) \in Nat
  BY <1>1, ShownIsFinite DEF Shown
<1>3. CASE h = g /\ out = "delta"
  <2>1. Shown(g)' = Shown(g) \cup {n}
    BY <1>1, <1>3 DEF Shown
  <2> QED
    BY <1>2, <1>3, <2>1, FS_AddElement DEF Word1
<1>4. CASE ~(h = g /\ out = "delta")
  <2>1. Shown(g)' = Shown(g)
    BY <1>1, <1>4 DEF Shown
  <2> QED
    BY <1>2, <1>4, <2>1 DEF Word1
<1> QED
  BY <1>3, <1>4

\* or one less.
LEMMA ShownWhenTaken ==
  ASSUME Channels, NEW g, outputs # <<>>, outputs' = Tail(outputs)
  PROVE  Cardinality(Shown(g)') =
           Cardinality(Shown(g)) - (IF Head(outputs).gen = g THEN Word1(Head(outputs).out) ELSE 0)
<1> DEFINE n == Len(outputs)
<1>1. /\ DOMAIN outputs = 1..n /\ n \in Nat \ {0} /\ DOMAIN outputs' = 1..(n - 1)
      /\ \A k \in 1..(n - 1) : outputs'[k] = outputs[k + 1]
      /\ Head(outputs) = outputs[1]
  BY DEF Channels
<1> HIDE DEF n
<1> DEFINE Rest == Shown(g) \ {1}
           f == [k \in Rest |-> k - 1]
<1>2. IsFiniteSet(Shown(g)) /\ IsFiniteSet(Rest)
  BY ShownIsFinite, FS_RemoveElement
<1>3. /\ \A k \in Rest : k \in 2..n /\ k - 1 \in 1..(n - 1) /\ (k - 1) + 1 = k
      /\ \A k \in 1..(n - 1) : k + 1 \in 2..n /\ (k + 1) - 1 = k
  BY <1>1 DEF Shown
<1>4. Shown(g)' = {k \in 1..(n - 1) : k + 1 \in Rest}
  BY <1>1 DEF Shown
<1>5. f \in Bijection(Rest, Shown(g)')
  <2>1. f \in [Rest -> Shown(g)']
    BY <1>3, <1>4
  <2>2. \A a, b \in Rest : f[a] = f[b] => a = b
    BY <1>3
  <2>3. \A c \in Shown(g)' : \E a \in Rest : f[a] = c
    BY <1>3, <1>4
  <2> HIDE DEF f, Rest
  <2> QED
    BY <2>1, <2>2, <2>3 DEF Bijection, Injection, Surjection, IsInjective
<1>6. Cardinality(Shown(g)') = Cardinality(Rest)
  <2> HIDE DEF f, Rest
  <2>1. ExistsBijection(Rest, Shown(g)')
    BY <1>5 DEF ExistsBijection
  <2> QED
    BY <1>2, <2>1, FS_Bijection
<1>7. 1 \in Shown(g) <=> Head(outputs).gen = g /\ Head(outputs).out = "delta"
  BY <1>1 DEF Shown
<1>8. Cardinality(Rest) = IF 1 \in Shown(g) THEN Cardinality(Shown(g)) - 1 ELSE Cardinality(Shown(g))
  BY <1>2, FS_RemoveElement
<1>9. Cardinality(Shown(g)) \in Nat
  BY ShownIsFinite
<1> QED
  BY <1>6, <1>7, <1>8, <1>9 DEF Word1

LEMMA BooksStay ==
  ASSUME NEW g, Books(g), UNCHANGED outputs, pipes'[g] = pipes[g], heard'[g] = heard[g]
  PROVE  Books(g)'
BY DEF Books, Good, Blank, Balanced, Owed, SumsTo, Told, Shown, Ended, Concluded, Completes,
       Unsent, Silenced, Busy

\* An answer nobody has taken up.
Untaken(g) ==
  /\ pipes[g] = Idle
  /\ heard[g] = [words |-> 0, ends |-> {}]
  /\ Unsent(g)

LEMMA FreshIsGood ==
  ASSUME NEW p, p = Idle \/ p = [Idle EXCEPT !.pc = "transcribe", !.todo = <<"progress">>]
  PROVE  Good(p) /\ Told(p) = 0
<1>1. <<>> # <<"delta">> /\ <<"progress">> # <<"delta">> /\ <<"progress">> # <<"complete">>
      /\ <<>> # <<"complete">> /\ "progress" \in Outs
  BY DEF Outs
<1>2. /\ p.pc \in {"idle", "transcribe"} /\ (p.pc = "idle" => p.todo = <<>>)
      /\ p.todo = <<>> \/ p.todo = <<"progress">>
      /\ p.words = 0 /\ p.unsaid = 0 /\ p.segment = 0 /\ p.segments = <<>>
      /\ p.voice = "idle" /\ p.say = 0 /\ p.said = 0 /\ p.failed = FALSE
  <2>1. CASE p = Idle
    BY <2>1 DEF Idle
  <2>2. CASE p = [Idle EXCEPT !.pc = "transcribe", !.todo = <<"progress">>]
    BY <2>2 DEF Idle
  <2> QED
    BY <2>1, <2>2
<1>3. Good(p)
  BY <1>1, <1>2 DEF Good, Blank, Speaking
<1>4. Told(p) = 0
  <2>1. p.todo # <<"delta">>
    BY <1>1, <1>2
  <2>2. Told(p) = p.words - 0 /\ p.words = 0
    BY <1>2, <2>1 DEF Told
  <2> QED
    BY <2>2
<1> QED
  BY <1>3, <1>4

LEMMA BooksOfNothing ==
  ASSUME NEW g, Untaken(g)
  PROVE  Books(g)
<1>1. Shown(g) = {} /\ ~Ended(g) /\ heard[g].words = 0
  BY DEF Untaken, Shown, Ended, Concluded, Completes, Unsent
<1>2. Good(pipes[g]) /\ Told(pipes[g]) = 0
  BY FreshIsGood DEF Untaken
<1>3. Cardinality(Shown(g)) = 0
  BY <1>1, FS_EmptySet
<1> QED
  BY <1>1, <1>2, <1>3 DEF Books, Ended, Completes

\* An answer the host does not wait for anymore, for the end of which it has heard.
Retired(g) == g \in revoked \/ Concluded(g)

\* What the host knows of the answers it asked for, and the provider of those it was told
\* to give up.
Answers ==
  /\ host.active \in {NoGen, host.issued} /\ host.active \notin revoked
  /\ host.phase # "open" => host.active = NoGen
  /\ revoked \subseteq 1..host.issued
  /\ \A g \in 1..host.issued : g = host.active \/ Retired(g)
  /\ \A g \in Gens : g > host.issued => Untaken(g)
  /\ loop.active \in 0..host.issued
  /\ \A g \in canceled : g <= host.issued /\ Retired(g)

\* What is on its way to the provider: each answer is asked for once, and in order.
Awaited(i) ==
  /\ i.kind = "commit" => i.gen \in 1..host.issued /\ Untaken(i.gen) /\ loop.active < i.gen
  /\ i.kind = "cancel" => i.gen \in revoked
  /\ i.kind = "close" => host.phase # "open"
InOrder ==
  /\ \A j, k \in DOMAIN inputs :
       j < k /\ inputs[j].kind = "commit" /\ inputs[k].kind = "commit" =>
         inputs[j].gen < inputs[k].gen
  /\ \A k \in DOMAIN host.waiting : host.waiting[k].kind = "commit" =>
       /\ host.waiting = <<Input("commit", host.issued)>>
       /\ \A j \in DOMAIN inputs : inputs[j].kind = "commit" => inputs[j].gen < host.issued
Questions ==
  /\ \A k \in DOMAIN inputs : Awaited(inputs[k])
  /\ \A k \in DOMAIN host.waiting : Awaited(host.waiting[k])
  /\ InOrder

Addressed == \A k \in DOMAIN outputs : outputs[k].gen \in Gens
Cascade == setting.kind = "cascade" /\ ~Gone
Speech ==
  /\ Gone => heard = Unheard
  /\ Cascade => Answers /\ Questions /\ Addressed /\ \A g \in Gens \ revoked : Books(g)
-----------------------------------------------------------------------------
\* The tasks of a pipeline speak for it alone.
LEMMA EmitsItsOwn ==
  ASSUME Channels, Pipes, NEW h \in Gens, PipelineTask(h) \/ Voice(h), ~Gone
  PROVE  /\ UNCHANGED <<setting, host, inputs, revoked, heard, loop, canceled>>
         /\ UNCHANGED outputs \/ \E out \in Outs : outputs' = Append(outputs, Emission(h, out, h))
         /\ \A g \in Gens : g # h => pipes'[g] = pipes[g]
<1>1. UNCHANGED <<setting, host, inputs, revoked, heard, loop, canceled>>
  BY DEF PipelineTask, Voice, PipelineEmits, HandsOver, Transcribe, TakesDelta,
         TakesEnd, TakesError, FinishStreamedAnswer, Prompt, Craft, Word, Formant,
         SpeechWorker, VoiceEmits, Goes, hostVars
<1>2. \A g \in Gens : g # h => pipes'[g] = pipes[g]
  BY PlaceKeeps, SendsKeep, VoiceKeeps DEF PipelineTask, PipeStep, Pipes
<1>3. CASE PipelineEmits(h)
  <2>1. Head(pipes[h].todo) \in Outs
    BY <1>3 DEF PipelineEmits, Pipes, IsPipe
  <2> QED
    BY <1>1, <1>2, <1>3, <2>1 DEF PipelineEmits, Emits
<1>4. CASE VoiceEmits(h)
  BY <1>1, <1>2, <1>4, Todos DEF VoiceEmits, Emits
<1>5. CASE UNCHANGED outputs
  BY <1>1, <1>2, <1>5
<1>6. UNCHANGED outputs \/ PipelineEmits(h) \/ VoiceEmits(h)
  BY DEF PipelineTask, Voice, HandsOver, Transcribe, TakesDelta, TakesEnd, TakesError,
         FinishStreamedAnswer, Prompt, Craft, Word, Formant, SpeechWorker, Goes, hostVars
<1> QED
  BY <1>3, <1>4, <1>5, <1>6

\* The books of another answer.
LEMMA OthersBooksStay ==
  ASSUME Channels, NEW g, NEW h, g # h, Books(g), pipes'[g] = pipes[g], heard'[g] = heard[g],
         NEW out, outputs' = Append(outputs, Emission(h, out, h))
  PROVE  Books(g)'
<1>1. Cardinality(Shown(g)') = Cardinality(Shown(g))
  BY ShownWhenSent, ShownIsFinite
<1> DEFINE n == Len(outputs) + 1
<1>2. /\ DOMAIN outputs' = DOMAIN outputs \cup {n} /\ outputs'[n].gen = h
      /\ \A k \in DOMAIN outputs : outputs'[k] = outputs[k]
  BY DEF Channels, Emission
<1> HIDE DEF n
<1>3. \A k : k \in DOMAIN outputs' /\ outputs'[k].gen = g => k \in DOMAIN outputs /\ outputs[k].gen = g
  BY <1>2
<1>4. /\ Ended(g)' => Ended(g)
      /\ Concluded(g)' => Concluded(g)
      /\ Unsent(g) => Unsent(g)'
  BY <1>2, <1>3 DEF Ended, Concluded, Completes, Unsent
<1>5. Good(pipes[g])' /\ Told(pipes[g])' = Told(pipes[g]) /\ (Silenced(pipes[g]) => Silenced(pipes[g])')
  BY DEF Books, Good, Blank, Balanced, Owed, SumsTo, Told, Silenced, Busy
<1>6. (\A j, k \in DOMAIN outputs : Completes(g, j) /\ outputs[k].gen = g => k <= j)'
  BY <1>2, <1>3 DEF Books, Completes
<1> QED
  BY <1>1, <1>4, <1>5, <1>6 DEF Books

\* A task of the cascade takes a step: if its answer is wanted it has not ended.
LEMMA PipelineSpeaks ==
  ASSUME IInv, Speech, Cascade, NEW h \in Gens, PipelineTask(h) \/ Voice(h)
  PROVE  Speech'
<1> USE DEF IInv
<1>1. /\ UNCHANGED <<setting, host, inputs, revoked, heard, loop, canceled>>
      /\ UNCHANGED outputs \/ \E out \in Outs : outputs' = Append(outputs, Emission(h, out, h))
      /\ \A g \in Gens : g # h => pipes'[g] = pipes[g]
  BY EmitsItsOwn DEF Cascade
<1>2. Busy(pipes[h])
  BY OnlyTheBusyStep
<1>3. pipes[h] # Idle
  BY <1>2 DEF Busy, Idle
<1>4. \A g \in Gens : (Untaken(g) => Untaken(g)') /\ (Retired(g) => Retired(g)')
  <2>1. \A g : Retired(g) => Retired(g)'
    BY <1>1 DEF Retired, Concluded
  <2>2. \A g \in Gens : g # h /\ Unsent(g) => Unsent(g)'
    <3>1. CASE UNCHANGED outputs
      BY <3>1 DEF Unsent
    <3>2. ASSUME NEW out \in Outs, outputs' = Append(outputs, Emission(h, out, h))
          PROVE  \A g \in Gens : g # h /\ Unsent(g) => Unsent(g)'
      BY <3>2 DEF Unsent, Channels, Emission
    <3> QED
      BY <1>1, <3>1, <3>2
  <2> QED
    BY <1>1, <1>3, <2>1, <2>2 DEF Untaken
<1>5. Answers'
  BY <1>1, <1>4 DEF Speech, Answers, InputLoops, Hosts, Gens
<1>6. Questions'
  <2>1. \A i : Awaited(i) => Awaited(i)'
    BY <1>1, <1>4 DEF Awaited, Hosts, Gens
  <2> QED
    BY <1>1, <2>1 DEF Speech, Questions, InOrder
<1>7. Addressed'
  <2>1. CASE UNCHANGED outputs
    BY <2>1 DEF Speech, Addressed
  <2>2. ASSUME NEW out \in Outs, outputs' = Append(outputs, Emission(h, out, h))
        PROVE  Addressed'
    BY <2>2 DEF Speech, Addressed, Channels, Emission
  <2> QED
    BY <1>1, <2>1, <2>2
<1>8. ASSUME NEW g \in Gens \ revoked PROVE Books(g)'
  <2>1. Books(g)
    BY DEF Speech
  <2>2. CASE g # h
    BY <1>1, <2>1, <2>2, BooksStay, OthersBooksStay
  <2>3. CASE g = h
    <3>1. ~Ended(g) /\ ~Concluded(g)
      BY <1>2, <2>1, <2>3 DEF Books, Silenced, Ended
    <3>2. g \notin canceled
      BY <3>1 DEF Speech, Answers, Retired
    <3>3. /\ Good(pipes'[g])
          /\ \/ UNCHANGED outputs /\ Told(pipes'[g]) = Told(pipes[g])
             \/ \E out \in Outs :
                  /\ outputs' = Append(outputs, Emission(g, out, g))
                  /\ Told(pipes'[g]) = Told(pipes[g]) + Word1(out)
                  /\ out = "complete" => Silenced(pipes'[g])
      BY <2>1, <2>3, <3>2, GoodGoesOn DEF Cascade, Books
    <3>4. Good(pipes[g])' /\ ~Concluded(g)'
      BY <1>1, <3>1, <3>3 DEF Good, Blank, Balanced, Owed, SumsTo, Concluded
    <3>5. CASE UNCHANGED outputs /\ Told(pipes'[g]) = Told(pipes[g])
      <4>1. ~Ended(g)' /\ Told(pipes[g])' = Told(pipes[g]) /\ Shown(g)' = Shown(g)
        BY <1>1, <3>1, <3>5 DEF Ended, Concluded, Completes, Told, Shown
      <4>2. (\A j, k \in DOMAIN outputs : ~Completes(g, j))'
        BY <4>1 DEF Ended
      <4> QED
        BY <1>1, <2>1, <3>4, <4>1, <4>2 DEF Books
    <3>6. ASSUME NEW out \in Outs, outputs' = Append(outputs, Emission(g, out, g)),
                 Told(pipes'[g]) = Told(pipes[g]) + Word1(out),
                 out = "complete" => Silenced(pipes'[g])
          PROVE  Books(g)'
      <4> DEFINE n == Len(outputs) + 1
      <4>1. /\ DOMAIN outputs' = DOMAIN outputs \cup {n} /\ n \in Nat
            /\ outputs'[n].gen = g /\ outputs'[n].out = out
            /\ \A k \in DOMAIN outputs : outputs'[k] = outputs[k] /\ k <= n
        BY <3>6 DEF Channels, Emission
      <4> HIDE DEF n
      <4>2. \A j \in DOMAIN outputs' : Completes(g, j)' => j = n /\ out = "complete"
        BY <3>1, <4>1 DEF Ended, Completes
      <4>3. (\A j, k \in DOMAIN outputs : Completes(g, j) /\ outputs[k].gen = g => k <= j)'
        BY <4>1, <4>2
      <4>4. Ended(g)' => Silenced(pipes[g])'
        <5>1. Ended(g)' => out = "complete"
          BY <3>4, <4>2 DEF Ended
        <5> QED
          BY <3>6, <5>1 DEF Silenced, Busy
      <4>5. Cardinality(Shown(g)') + heard'[g].words = Told(pipes'[g])
        <5>1. Cardinality(Shown(g)') = Cardinality(Shown(g)) + Word1(out)
          BY <3>6, ShownWhenSent
        <5>2. Cardinality(Shown(g)) \in Nat /\ Word1(out) \in Nat /\ heard[g].words \in Nat
          BY ShownIsFinite DEF Word1, Hosts
        <5>3. Cardinality(Shown(g)) + heard[g].words = Told(pipes[g]) /\ heard' = heard
          BY <1>1, <2>1 DEF Books
        <5> QED
          BY <3>6, <5>1, <5>2, <5>3
      <4>6. Told(pipes'[g]) = Told(pipes[g])'
        BY DEF Told
      <4> QED
        BY <3>4, <4>3, <4>4, <4>5, <4>6 DEF Books
    <3> QED
      BY <3>3, <3>5, <3>6
  <2> QED
    BY <2>2, <2>3
<1> QED
  BY <1>1, <1>5, <1>6, <1>7, <1>8 DEF Speech, Cascade, Gone

\* The input loop takes up an answer: those it was at before are no longer wanted.
LEMMA InputLoopSpeaks ==
  ASSUME IInv, Speech, Cascade, InputLoop
  PROVE  Speech'
<1> USE DEF IInv
<1> DEFINE i == Head(inputs)
           n == Len(inputs)
<1>1. /\ UNCHANGED <<setting, host, outputs, revoked, heard>>
      /\ inputs # <<>> /\ inputs' = Tail(inputs)
  BY DEF InputLoop, TakesInput
<1>2. /\ n \in Nat \ {0} /\ DOMAIN inputs = 1..n /\ DOMAIN inputs' = 1..(n - 1)
      /\ \A k \in 1..(n - 1) : k + 1 \in 1..n /\ inputs'[k] = inputs[k + 1] /\ 1 < k + 1
      /\ i = inputs[1] /\ 1 \in 1..n /\ i \in Asked
      /\ \A k \in 1..(n - 1) : inputs'[k] \in Asked
  BY <1>1 DEF Channels
<1>3. Awaited(i)
  BY <1>2 DEF Speech, Questions
<1>4. InOrder'
  <2>1. \A j, k \in 1..(n - 1) : j < k => j + 1 < k + 1
    BY <1>2
  <2> HIDE DEF n, i
  <2> QED
    BY <1>1, <1>2, <2>1 DEF Speech, Questions, InOrder
<1>5. \A g : (Retired(g) => Retired(g)') /\ (Unsent(g) => Unsent(g)')
  BY <1>1 DEF Retired, Concluded, Unsent
<1> HIDE DEF n
<1>6. ASSUME UNCHANGED pipes, loop'.active \in {NoGen, loop.active},
             \/ canceled' = canceled
             \/ canceled' = CancelActive /\ (loop.active = NoGen \/ Retired(loop.active))
      PROVE  Speech'
  <2>1. \A g : Untaken(g) => Untaken(g)'
    BY <1>1, <1>5, <1>6 DEF Untaken
  <2>2. loop'.active \in 0..host.issued /\ loop.active \in 0..host.issued
        /\ host.issued \in Nat /\ loop'.active <= loop.active
    BY <1>6 DEF Speech, Answers, Hosts, NoGen
  <2>3. \A g \in canceled' : g <= host.issued /\ Retired(g)
    BY <1>6, <2>2 DEF Speech, Answers, CancelActive
  <2>4. Answers'
    BY <1>1, <1>5, <2>1, <2>2, <2>3 DEF Speech, Answers
  <2>5. \A a : Awaited(a) => Awaited(a)'
    BY <1>1, <2>1, <2>2 DEF Awaited
  <2>6. Questions'
    BY <1>1, <1>2, <1>4, <2>5 DEF Speech, Questions
  <2>7. \A g \in Gens \ revoked : Books(g)'
    BY <1>1, <1>6, BooksStay DEF Speech
  <2> QED
    BY <1>1, <2>4, <2>6, <2>7 DEF Speech, Cascade, Gone, Addressed
<1>7. CASE i.kind = "frame" /\ UNCHANGED pipeVars
  BY <1>6, <1>7 DEF pipeVars
<1>8. CASE i.kind = "cancel" /\ UNCHANGED <<pipes, canceled, loop>>
  BY <1>6, <1>8
<1>9. CASE i.kind = "cancel" /\ UNCHANGED pipes /\ loop.active = i.gen
           /\ canceled' = CancelActive /\ loop' = [loop EXCEPT !.active = NoGen]
  <2>1. Retired(loop.active)
    BY <1>3, <1>9 DEF Awaited, Retired
  <2>2. loop'.active = NoGen
    BY <1>9 DEF InputLoops, IsLoop
  <2> QED
    BY <1>6, <1>9, <2>1, <2>2
<1>10. CASE i.kind = "close" /\ UNCHANGED pipes /\ canceled' = CancelActive
            /\ loop' = [loop EXCEPT !.alive = FALSE, !.active = NoGen]
  <2>1. host.active = NoGen
    BY <1>3, <1>10 DEF Awaited, Speech, Answers
  <2>2. loop.active = NoGen \/ Retired(loop.active)
    BY <2>1 DEF Speech, Answers, Hosts, NoGen
  <2>3. loop'.active = NoGen
    BY <1>10 DEF InputLoops, IsLoop
  <2> QED
    BY <1>6, <1>10, <2>2, <2>3
<1>11. CASE i.kind = "commit" /\ TakesCommit(i.gen)
  <2>0. i.gen \in Gens
    BY <1>3, <1>11 DEF Awaited, Hosts, Gens
  <2> PICK g \in Gens : g = i.gen
    BY <2>0
  <2>1. /\ g \in 1..host.issued /\ g \in Gens /\ Untaken(g) /\ loop.active < g
        /\ host.issued \in 0..MaxGen /\ loop.active \in 0..host.issued
    BY <1>3, <1>11 DEF Awaited, Hosts, Gens, Speech, Answers
  <2>2. /\ loop'.active = g
        /\ canceled' = canceled \cup ({loop.active} \ {NoGen})
        /\ \A h \in Gens : h # g => pipes'[h] = pipes[h]
        /\ pipes'[g] = [Idle EXCEPT !.pc = "transcribe", !.todo = <<"progress">>]
    BY <1>11, <2>1 DEF TakesCommit, CancelActive, Begin, InputLoops, IsLoop, Pipes, Cascade
  <2> HIDE DEF i
  <2>3. loop.active = NoGen \/ Retired(loop.active)
    <3>1. ASSUME loop.active # NoGen PROVE loop.active \in 1..host.issued /\ loop.active # host.active
      BY <2>1, <3>1 DEF Speech, Answers, NoGen
    <3> QED
      BY <3>1 DEF Speech, Answers
  <2>4. \A h \in Gens : h # g /\ Untaken(h) => Untaken(h)'
    BY <1>1, <1>5, <2>2 DEF Untaken
  <2>5. Answers'
    <3>1. \A h \in Gens : h > host.issued => Untaken(h)'
      BY <2>1, <2>4 DEF Speech, Answers, Gens
    <3>2. \A h \in canceled' : h <= host.issued /\ Retired(h)
      BY <2>1, <2>2, <2>3 DEF Speech, Answers
    <3>3. loop'.active \in 0..host.issued
      BY <2>1, <2>2
    <3> QED
      BY <1>1, <1>5, <3>1, <3>2, <3>3 DEF Speech, Answers
  <2>6. \A a : Awaited(a) /\ (a.kind = "commit" => g < a.gen) => Awaited(a)'
    <3>1. \A h \in 1..host.issued : h \in Gens
      BY <2>1 DEF Gens
    <3>2. \A h \in 1..host.issued : g < h => h # g
      BY <2>1
    <3> QED
      BY <1>1, <2>2, <2>4, <3>1, <3>2 DEF Awaited
  <2>7. Questions'
    <3>1. (\A k \in DOMAIN inputs : Awaited(inputs[k]))'
      <4>1. \A k \in 1..(n - 1) : inputs'[k].kind = "commit" => g < inputs'[k].gen
        BY <1>2, <1>11 DEF Speech, Questions, InOrder
      <4> QED
        BY <1>2, <2>6, <4>1 DEF Speech, Questions
    <3>2. (\A k \in DOMAIN host.waiting : Awaited(host.waiting[k]))'
      <4>1. ASSUME NEW k \in DOMAIN host.waiting, host.waiting[k].kind = "commit"
            PROVE  g < host.waiting[k].gen
        <5>1. host.waiting = <<Input("commit", host.issued)>> /\ g < host.issued
          BY <1>2, <1>11, <4>1 DEF Speech, Questions, InOrder
        <5> QED
          BY <4>1, <5>1 DEF Input
      <4> QED
        BY <1>1, <2>6, <4>1 DEF Speech, Questions
    <3> QED
      BY <1>1, <1>4, <3>1, <3>2 DEF Questions
  <2>8. ASSUME NEW h \in Gens \ revoked PROVE Books(h)'
    <3>1. CASE h # g
      BY <1>1, <2>2, <2>8, <3>1, BooksStay DEF Speech
    <3>2. CASE h = g
      <4>1. /\ heard'[g] = [words |-> 0, ends |-> {}] /\ Unsent(g)'
        <5>1. heard[g] = [words |-> 0, ends |-> {}] /\ Unsent(g)
          BY <2>1 DEF Untaken
        <5>2. heard' = heard /\ Unsent(g)'
          BY <1>1, <1>5, <5>1
        <5> QED
          BY <5>1, <5>2
      <4>2. Good(pipes'[g]) /\ Told(pipes'[g]) = 0
        BY <2>2, FreshIsGood
      <4>3. Shown(g)' = {} /\ ~Ended(g)'
        BY <1>1, <4>1 DEF Shown, Ended, Concluded, Completes, Unsent
      <4>4. Good(pipes[g])' /\ Told(pipes[g])' = 0 /\ Cardinality(Shown(g)') = 0
        BY <4>2, <4>3, FS_EmptySet DEF Good, Blank, Balanced, Owed, SumsTo, Told
      <4>5. Books(g)'
        BY <4>1, <4>3, <4>4 DEF Books, Ended, Completes
      <4> QED
        BY <3>2, <4>5
    <3> QED
      BY <3>1, <3>2
  <2> QED
    BY <1>1, <2>5, <2>7, <2>8 DEF Speech, Cascade, Gone, Addressed
<1> QED
  BY <1>7, <1>8, <1>9, <1>10, <1>11 DEF InputLoop

\* The host takes what was emitted: what it lets go was of an answer nobody waits for.
LEMMA TakingSpeaks ==
  ASSUME IInv, Speech, Cascade, TakeEmission, UNCHANGED pipeVars
  PROVE  Speech'
<1> USE DEF IInv
<1>0. \E e \in Emitted : e = Head(outputs)
  BY DEF TakeEmission, Channels
<1> PICK e \in Emitted : e = Head(outputs)
  BY <1>0
<1> DEFINE n == Len(outputs)
<1>1. /\ UNCHANGED <<setting, inputs, revoked, loop, canceled, pipes>>
      /\ host.phase = "open" /\ host.waiting = <<>> /\ outputs # <<>> /\ outputs' = Tail(outputs)
  BY DEF TakeEmission, Ready, pipeVars
<1>2. /\ n \in Nat \ {0} /\ DOMAIN outputs = 1..n /\ DOMAIN outputs' = 1..(n - 1)
      /\ \A k \in 1..(n - 1) : k + 1 \in 1..n /\ outputs'[k] = outputs[k + 1] /\ 1 < k + 1
      /\ e = outputs[1] /\ 1 \in 1..n
  BY <1>1 DEF Channels
<1> HIDE DEF n
<1>3. e.gen \in Gens /\ e.gen # NoGen /\ e.gen <= host.issued /\ ~Unsent(e.gen)
  <2>1. e.gen \in Gens
    BY <1>2 DEF Speech, Addressed
  <2>2. ~Unsent(e.gen)
    BY <1>2 DEF Unsent
  <2> QED
    BY <2>1, <2>2 DEF Speech, Answers, Untaken, Hosts, Gens, NoGen
<1>4. \A g \in Gens : g # e.gen => heard'[g] = heard[g]
  BY DEF TakeEmission, Hears
<1>5. \A g : Unsent(g) => Unsent(g)'
  BY <1>2 DEF Unsent
<1>6. \A g \in Gens : Untaken(g) => Untaken(g)'
  BY <1>1, <1>3, <1>4, <1>5 DEF Untaken
<1>7. \A g \in Gens : Retired(g) => Retired(g)'
  <2>1. \A g \in Gens : heard[g].ends \subseteq heard'[g].ends
    BY DEF TakeEmission, Hears
  <2> QED
    BY <1>1, <2>1 DEF Retired, Concluded
<1>8. /\ host'.issued = host.issued /\ host'.phase = "open" /\ host'.waiting = <<>>
      /\ \/ host'.active = host.active
         \/ host'.active = NoGen /\ e.out = "complete" /\ Accepts(e.gen)
  BY <1>1 DEF TakeEmission, Hosts
<1>9. Accepts(e.gen) => heard' = Hears(e)
  BY DEF TakeEmission
<1>10. Answers'
  <2>1. ASSUME NEW g \in 1..host.issued PROVE g = host'.active \/ Retired(g)'
    <3>1. g \in Gens
      BY DEF Hosts, Gens
    <3>2. CASE Retired(g) \/ host'.active = host.active
      BY <1>7, <2>1, <3>1, <3>2 DEF Speech, Answers
    <3>3. CASE ~Retired(g) /\ host'.active # host.active
      <4>1. g = host.active /\ g # NoGen /\ g \notin revoked
        BY <2>1, <3>3 DEF Speech, Answers, NoGen, Retired
      <4>2. g = e.gen /\ e.out = "complete" /\ heard' = Hears(e)
        BY <1>3, <1>8, <1>9, <3>3, <4>1 DEF Accepts
      <4> QED
        BY <3>1, <4>1, <4>2 DEF Retired, Concluded, Hears
    <3> QED
      BY <3>2, <3>3
  <2>2. host'.active \in {NoGen, host.issued} /\ host'.active \notin revoked
    BY <1>8 DEF Speech, Answers, NoGen
  <2>3. \A g \in canceled : g \in Gens
    BY DEF InputLoops
  <2> QED
    BY <1>1, <1>6, <1>7, <1>8, <2>1, <2>2, <2>3 DEF Speech, Answers
<1>11. Questions'
  <2>1. \A a : Awaited(a) => Awaited(a)'
    <3>1. \A g \in 1..host.issued : g \in Gens
      BY DEF Hosts, Gens
    <3> QED
      BY <1>1, <1>6, <1>8, <3>1 DEF Awaited
  <2> QED
    BY <1>1, <1>8, <2>1 DEF Speech, Questions, InOrder
<1>12. Addressed'
  BY <1>2 DEF Speech, Addressed
<1>13. ASSUME NEW g \in Gens \ revoked PROVE Books(g)'
  <2>1. Books(g)
    BY DEF Speech
  <2>2. Cardinality(Shown(g)') = Cardinality(Shown(g)) - (IF e.gen = g THEN Word1(e.out) ELSE 0)
    BY <1>1, ShownWhenTaken
  <2>3. Cardinality(Shown(g)) \in Nat /\ heard[g].words \in Nat
    BY ShownIsFinite DEF Hosts
  <2>4. (\A j, k \in DOMAIN outputs : Completes(g, j) /\ outputs[k].gen = g => k <= j)'
    <3>1. ASSUME NEW j \in 1..(n - 1), NEW k \in 1..(n - 1),
                 outputs'[j].gen = g, outputs'[j].out = "complete", outputs'[k].gen = g
          PROVE  k <= j
      <4>1. k + 1 <= j + 1
        BY <1>2, <2>1, <3>1 DEF Books, Completes
      <4> QED
        BY <1>2, <4>1
    <3> QED
      BY <1>2, <3>1 DEF Completes
  <2>5. \A k \in DOMAIN outputs' : Completes(g, k)' => \E j \in DOMAIN outputs : Completes(g, j)
    BY <1>2 DEF Completes
  <2>6. Good(pipes[g])' /\ Told(pipes[g])' = Told(pipes[g]) /\ (Silenced(pipes[g]) => Silenced(pipes[g])')
    BY <1>1, <2>1 DEF Books, Good, Blank, Balanced, Owed, SumsTo, Told, Silenced, Busy
  <2>7. CASE g # e.gen
    <3>1. heard'[g] = heard[g]
      BY <1>4, <2>7
    <3>2. Cardinality(Shown(g)') = Cardinality(Shown(g))
      BY <2>2, <2>3, <2>7
    <3>3. (Ended(g)' => Ended(g)) /\ (Concluded(g)' => Concluded(g))
      BY <2>5, <3>1 DEF Ended, Concluded
    <3> QED
      BY <1>5, <2>1, <2>4, <2>6, <3>1, <3>2, <3>3 DEF Books
  <2>8. CASE g = e.gen
    <3>1. ~Concluded(g)
      BY <1>3, <2>1, <2>8 DEF Books
    <3>2. g = host.active
      <4>1. g \in 1..host.issued
        BY <1>3, <2>8 DEF Gens, Hosts
      <4> QED
        BY <3>1, <4>1 DEF Speech, Answers, Retired
    <3>3. /\ heard'[g].words = heard[g].words + Word1(e.out)
          /\ Concluded(g)' => e.out = "complete"
      <4>1. heard' = Hears(e)
        BY <1>9, <2>8, <3>2 DEF Accepts
      <4>2. heard'[g].ends = heard[g].ends \cup ({e.out} \cap {"complete", "error"})
        BY <2>8, <4>1 DEF Hears
      <4>3. heard'[g].words = heard[g].words + Word1(e.out)
        BY <2>8, <4>1 DEF Hears, Word1
      <4> QED
        BY <3>1, <4>2, <4>3 DEF Concluded
    <3>4. Cardinality(Shown(g)') + heard'[g].words = Told(pipes[g])
      <4>1. Word1(e.out) \in Nat
        BY DEF Word1
      <4>2. Cardinality(Shown(g)) + heard[g].words = Told(pipes[g])
        BY <2>1 DEF Books
      <4>3. Cardinality(Shown(g)') = Cardinality(Shown(g)) - Word1(e.out)
        BY <2>2, <2>8
      <4> QED
        BY <2>3, <3>3, <4>1, <4>2, <4>3
    <3>5. e.out = "complete" => Completes(g, 1)
      BY <1>2, <2>8 DEF Completes
    <3>6. Ended(g)' => Ended(g)
      BY <1>2, <2>5, <3>3, <3>5 DEF Ended
    <3>7. Concluded(g)' => Unsent(g)'
      <4> SUFFICES ASSUME e.out = "complete", NEW k \in 1..(n - 1), outputs'[k].gen = g
                   PROVE  FALSE
        BY <1>2, <3>3 DEF Unsent
      <4>1. k + 1 <= 1
        BY <1>2, <2>1, <3>5 DEF Books
      <4> QED
        BY <1>2, <4>1
    <3> QED
      BY <2>1, <2>4, <2>6, <3>4, <3>6, <3>7 DEF Books
  <2> QED
    BY <2>7, <2>8
<1> QED
  BY <1>1, <1>8, <1>10, <1>11, <1>12, <1>13 DEF Speech, Cascade, Gone

\* The host asks for an answer, gives one up, or sends what it has to.
LEMMA AskingSpeaks ==
  ASSUME IInv, Speech, Cascade, Commit, UNCHANGED pipeVars
  PROVE  Speech'
<1> USE DEF IInv
<1>0. host.issued + 1 \in Gens
  BY DEF Commit, Hosts, Gens
<1> PICK g \in Gens : g = host.issued + 1
  BY <1>0
<1>1. /\ UNCHANGED <<setting, inputs, outputs, revoked, heard, loop, canceled, pipes>>
      /\ host.phase = "open" /\ host.active = NoGen
      /\ host'.phase = "open" /\ host'.active = g /\ host'.issued = g
      /\ host'.waiting = <<Input("commit", g)>>
      /\ host.issued \in Nat
  BY DEF Commit, Ready, pipeVars, Hosts
<1>2. \A h : (Untaken(h) => Untaken(h)') /\ (Retired(h) => Retired(h)')
  BY <1>1 DEF Untaken, Unsent, Retired, Concluded
<1>3. Untaken(g) /\ loop.active < g /\ g \notin revoked
  BY <1>1 DEF Speech, Answers
<1>4. Answers'
  <2>1. \A h \in 1..g : h = g \/ h \in 1..host.issued
    BY <1>1
  <2>2. \A h \in 1..g : h = g \/ Retired(h)'
    BY <1>1, <1>2, <2>1 DEF Speech, Answers, NoGen
  <2>3. \A h \in canceled : h <= g
    <3>1. \A h \in canceled : h \in Nat /\ h <= host.issued
      BY DEF Speech, Answers, InputLoops, Gens
    <3> QED
      BY <1>1, <3>1
  <2>4. loop.active \in 0..g /\ revoked \subseteq 1..g
    BY <1>1 DEF Speech, Answers
  <2>5. \A h \in Gens : h > g => h > host.issued
    BY <1>1 DEF Gens
  <2> QED
    BY <1>1, <1>2, <1>3, <2>2, <2>3, <2>4, <2>5 DEF Speech, Answers
<1>5. Questions'
  <2>1. \A a : Awaited(a) => Awaited(a)'
    <3>1. \A h \in 1..host.issued : h \in 1..g
      BY <1>1
    <3> QED
      BY <1>1, <1>2, <3>1 DEF Awaited
  <2>2. Awaited(Input("commit", g))'
    <3>1. g \in 1..g
      BY DEF Gens
    <3> QED
      BY <1>1, <1>2, <1>3, <3>1 DEF Awaited, Input
  <2>3. \A k \in DOMAIN host'.waiting : host'.waiting[k] = Input("commit", g)
    BY <1>1
  <2>4. \A j \in DOMAIN inputs : inputs[j].kind = "commit" => inputs[j].gen < g
    <3>1. \A h \in 1..host.issued : h < g
      BY <1>1
    <3> QED
      BY <3>1 DEF Speech, Questions, Awaited
  <2> QED
    BY <1>1, <2>1, <2>2, <2>3, <2>4 DEF Speech, Questions, InOrder
<1>6. \A h \in Gens \ revoked : Books(h)'
  BY <1>1, BooksStay DEF Speech
<1> QED
  BY <1>1, <1>4, <1>5, <1>6 DEF Speech, Cascade, Gone, Addressed

LEMMA CancelingSpeaks ==
  ASSUME IInv, Speech, Cascade, Cancel, UNCHANGED pipeVars
  PROVE  Speech'
<1> USE DEF IInv
<1>0. host.active \in Gens
  BY DEF Cancel, Hosts, Held
<1> PICK a \in Gens : a = host.active
  BY <1>0
<1>1. /\ UNCHANGED <<setting, inputs, outputs, loop, canceled, pipes>>
      /\ host.phase = "open" /\ a # NoGen /\ revoked' = revoked \cup {a}
      /\ host'.phase = "open" /\ host'.active = NoGen /\ host'.issued = host.issued
      /\ host'.waiting = <<Input("cancel", a)>>
      /\ \A h \in Gens : h # a => heard'[h] = heard[h]
      /\ heard'[a] = [words |-> 0, ends |-> {}]
  BY DEF Cancel, Ready, pipeVars, Hosts, Unheard, Gens
<1>2. \A h \in Gens : (Untaken(h) => Untaken(h)') /\ (Retired(h) => Retired(h)')
  BY <1>1 DEF Untaken, Unsent, Retired, Concluded
<1>3. a \in 1..host.issued /\ Retired(a)'
  BY <1>1 DEF Speech, Answers, Gens, Retired
<1>4. Answers'
  <2>1. \A h \in 1..host.issued : Retired(h)'
    <3>1. \A h \in 1..host.issued : h \in Gens
      BY DEF Hosts, Gens
    <3> QED
      BY <1>2, <1>3, <3>1 DEF Speech, Answers
  <2>2. \A h \in canceled : h \in Gens
    BY DEF InputLoops
  <2>3. NoGen \notin revoked'
    BY <1>1 DEF Hosts, Gens, NoGen
  <2> QED
    BY <1>1, <1>2, <1>3, <2>1, <2>2, <2>3 DEF Speech, Answers
<1>5. Questions'
  <2>1. \A i : Awaited(i) => Awaited(i)'
    <3>1. \A h \in 1..host.issued : h \in Gens
      BY DEF Hosts, Gens
    <3> QED
      BY <1>1, <1>2, <3>1 DEF Awaited
  <2>2. Awaited(Input("cancel", a))'
    BY <1>1 DEF Awaited, Input
  <2>3. \A k \in DOMAIN host'.waiting : host'.waiting[k] = Input("cancel", a)
    BY <1>1
  <2>4. Input("cancel", a).kind # "commit"
    BY DEF Input
  <2> QED
    BY <1>1, <2>1, <2>2, <2>3, <2>4 DEF Speech, Questions, InOrder
<1>6. \A h \in Gens \ revoked' : Books(h)'
  BY <1>1, BooksStay DEF Speech
<1> QED
  BY <1>1, <1>4, <1>5, <1>6 DEF Speech, Cascade, Gone, Addressed

LEMMA PushingSpeaks ==
  ASSUME IInv, Speech, Cascade, NEW listens, Push(listens), UNCHANGED pipeVars
  PROVE  Speech'
<1> USE DEF IInv
<1>0. Head(host.waiting) \in Asked
  BY DEF Push, Hosts
<1> PICK i \in Asked : i = Head(host.waiting)
  BY <1>0
<1>1. /\ UNCHANGED <<setting, outputs, revoked, heard, loop, canceled, pipes>>
      /\ host'.phase = host.phase /\ host'.active = host.active /\ host'.issued = host.issued
      /\ host.waiting # <<>> /\ host'.waiting = Tail(host.waiting)
      /\ inputs' = inputs \/ inputs' = Append(inputs, i)
  BY DEF Push, pipeVars, Hosts
<1> DEFINE m == Len(host.waiting)
<1>2. /\ m \in Nat \ {0} /\ DOMAIN host.waiting = 1..m /\ DOMAIN host'.waiting = 1..(m - 1)
      /\ \A k \in 1..(m - 1) : k + 1 \in 1..m /\ host'.waiting[k] = host.waiting[k + 1]
      /\ i = host.waiting[1] /\ 1 \in 1..m
  BY <1>1 DEF Hosts
<1>3. \A w : m = Len(<<w>>) => m = 1
  OBVIOUS
<1>4. \A k \in 1..m : host.waiting[k].kind = "commit" =>
        /\ m = 1 /\ host.waiting[k].gen = host.issued
        /\ \A j \in DOMAIN inputs : inputs[j].kind = "commit" => inputs[j].gen < host.issued
  <2>1. ASSUME NEW k \in 1..m, host.waiting[k].kind = "commit"
        PROVE  host.waiting = <<Input("commit", host.issued)>>
               /\ \A j \in DOMAIN inputs : inputs[j].kind = "commit" => inputs[j].gen < host.issued
    BY <1>2, <2>1 DEF Speech, Questions, InOrder
  <2>2. ASSUME NEW k \in 1..m, host.waiting = <<Input("commit", host.issued)>>
        PROVE  m = 1 /\ host.waiting[k].gen = host.issued
    BY <2>2 DEF Input
  <2> QED
    BY <2>1, <2>2
<1> HIDE DEF m
<1>5. /\ \A g : (Untaken(g) => Untaken(g)') /\ (Retired(g) => Retired(g)')
      /\ \A a : Awaited(a) => Awaited(a)'
  BY <1>1 DEF Untaken, Unsent, Retired, Concluded, Awaited
<1>6. Answers'
  BY <1>1, <1>5 DEF Speech, Answers
<1>7. Questions'
  <2>1. (\A k \in DOMAIN host.waiting : Awaited(host.waiting[k]))'
    BY <1>2, <1>5 DEF Speech, Questions
  <2>2. \A k \in DOMAIN host'.waiting : host'.waiting[k].kind # "commit"
    <3>1. ~(1 \in 1..(1 - 1))
      OBVIOUS
    <3> QED
      BY <1>2, <1>4, <3>1
  <2>3. CASE inputs' = inputs
    BY <1>1, <1>5, <2>1, <2>2, <2>3 DEF Speech, Questions, InOrder
  <2>4. CASE inputs' = Append(inputs, i)
    <3> DEFINE n == Len(inputs) + 1
    <3>1. /\ DOMAIN inputs = 1..(n - 1) /\ DOMAIN inputs' = 1..n /\ n \in Nat
          /\ inputs'[n] = i /\ \A k \in 1..(n - 1) : inputs'[k] = inputs[k]
          /\ \A k \in 1..n : k # n => k \in 1..(n - 1)
      BY <2>4 DEF Channels
    <3> HIDE DEF n
    <3>2. Awaited(i)
      BY <1>2 DEF Speech, Questions
    <3>3. (\A k \in DOMAIN inputs : Awaited(inputs[k]))'
      BY <1>5, <3>1, <3>2 DEF Speech, Questions
    <3>4. ASSUME NEW j \in 1..n, NEW k \in 1..n, j < k, inputs'[j].kind = "commit",
                 inputs'[k].kind = "commit"
          PROVE  inputs'[j].gen < inputs'[k].gen
      <4>1. j # n
        BY <3>1, <3>4
      <4>2. CASE k = n
        BY <1>2, <1>4, <3>1, <3>4, <4>1, <4>2
      <4>3. CASE k # n
        BY <3>1, <3>4, <4>1, <4>3 DEF Speech, Questions, InOrder
      <4> QED
        BY <4>2, <4>3
    <3>5. InOrder'
      BY <2>2, <3>1, <3>4 DEF InOrder
    <3> QED
      BY <2>1, <3>3, <3>5 DEF Questions
  <2> QED
    BY <1>1, <2>3, <2>4
<1>8. \A g \in Gens \ revoked : Books(g)'
  BY <1>1, BooksStay DEF Speech
<1> QED
  BY <1>1, <1>6, <1>7, <1>8 DEF Speech, Cascade, Gone, Addressed

LEMMA ClosingSpeaks ==
  ASSUME IInv, Speech, Cascade, NEW s, Closes(s), UNCHANGED pipeVars
  PROVE  Speech'
<1> USE DEF IInv
<1>0. host.active \in Held
  BY DEF Hosts
<1> PICK a \in Held : a = host.active
  BY <1>0
<1> DEFINE cut == IF Bridge \/ a = NoGen THEN <<>> ELSE <<Input("cancel", a)>>
<1>1. /\ UNCHANGED <<setting, inputs, outputs, heard, loop, canceled, pipes>>
      /\ revoked' = revoked \cup ({a} \ {NoGen})
      /\ host'.phase = "closing" /\ host'.active = NoGen /\ host'.issued = host.issued
      /\ host'.waiting = cut \o <<Close>>
  BY DEF Closes, pipeVars, Hosts
<1>2. \A k \in DOMAIN host'.waiting :
        host'.waiting[k] = Close \/ (a # NoGen /\ host'.waiting[k] = Input("cancel", a))
  <2>1. CASE Bridge \/ a = NoGen
    <3>1. host'.waiting = <<>> \o <<Close>>
      BY <1>1, <2>1
    <3>2. host'.waiting = <<Close>>
      <4>1. \A c : <<>> \o <<c>> = <<c>>
        OBVIOUS
      <4> QED
        BY <3>1, <4>1
    <3>3. \A k \in DOMAIN host'.waiting : host'.waiting[k] = Close
      BY <3>2
    <3> HIDE DEF cut
    <3> QED
      BY <3>3
  <2>2. CASE ~(Bridge \/ a = NoGen)
    <3>1. host'.waiting = <<Input("cancel", a)>> \o <<Close>>
      BY <1>1, <2>2
    <3>2. \A b, c : /\ DOMAIN (<<b>> \o <<c>>) = 1..2
                   /\ (<<b>> \o <<c>>)[1] = b /\ (<<b>> \o <<c>>)[2] = c
      OBVIOUS
    <3>3. /\ DOMAIN host'.waiting = 1..2
          /\ host'.waiting[1] = Input("cancel", a) /\ host'.waiting[2] = Close
      BY <3>1, <3>2
    <3>4. \A k \in 1..2 : k = 1 \/ k = 2
      OBVIOUS
    <3> HIDE DEF cut
    <3> QED
      BY <2>2, <3>3, <3>4
  <2> QED
    BY <2>1, <2>2
<1> HIDE DEF cut
<1>3. \A h : (Untaken(h) => Untaken(h)') /\ (Retired(h) => Retired(h)')
  BY <1>1 DEF Untaken, Unsent, Retired, Concluded
<1>4. Answers'
  <2>1. a = NoGen \/ a \in 1..host.issued
    BY DEF Speech, Answers, Held, Gens
  <2>2. \A h \in 1..host.issued : Retired(h)'
    BY <1>1, <1>3 DEF Speech, Answers, Retired, Gens, NoGen
  <2>3. NoGen \notin revoked'
    BY <1>1 DEF Hosts, Gens, NoGen
  <2>4. revoked' \subseteq 1..host.issued
    BY <1>1, <2>1 DEF Speech, Answers
  <2> QED
    BY <1>1, <1>3, <2>2, <2>3, <2>4 DEF Speech, Answers
<1>5. Questions'
  <2>1. \A i : Awaited(i) => Awaited(i)'
    BY <1>1, <1>3 DEF Awaited
  <2>2. Awaited(Close)' /\ (a # NoGen => Awaited(Input("cancel", a))')
    BY <1>1 DEF Awaited, Input, Close
  <2>3. Input("cancel", a).kind # "commit" /\ Close.kind # "commit"
    BY DEF Input, Close
  <2>4. InOrder'
    BY <1>1, <1>2, <2>3 DEF Speech, Questions, InOrder
  <2>5. (\A k \in DOMAIN inputs : Awaited(inputs[k]))'
    BY <1>1, <2>1 DEF Speech, Questions
  <2>6. (\A k \in DOMAIN host.waiting : Awaited(host.waiting[k]))'
    BY <1>2, <2>2
  <2> QED
    BY <2>4, <2>5, <2>6 DEF Questions
<1>6. \A h \in Gens \ revoked' : Books(h)'
  BY <1>1, BooksStay DEF Speech
<1> QED
  BY <1>1, <1>4, <1>5, <1>6 DEF Speech, Cascade, Gone, Addressed

LEMMA HostSpeaks ==
  ASSUME IInv, Speech, Cascade, OfHost(HostStep(Listens, Silent))
  PROVE  Speech'
<1>1. UNCHANGED pipeVars /\ HostStep(Listens, Silent)
  BY DEF OfHost
<1>2. ~HearsFrame
  BY DEF HearsFrame, Cascade
<1>3. CASE Leave
  BY <1>3 DEF Leave, Hosts, Speech, Cascade, Gone, IInv
<1> QED
  BY <1>1, <1>2, <1>3, AskingSpeaks, CancelingSpeaks, PushingSpeaks, TakingSpeaks, ClosingSpeaks
     DEF HostStep, HandleAudioFrame, HandleInboundMedia

\* Another provider, or a host that has gone.
LEMMA NobodySpeaks ==
  ASSUME IInv, Speech, ~Cascade, [Next]_vars
  PROVE  Speech'
<1>1. CASE UNCHANGED <<setting, host, heard>>
  BY <1>1 DEF Speech, Cascade, Gone
<1>2. CASE OfHost(HostStep(Listens, Silent))
  <2>1. UNCHANGED setting /\ host'.phase \in {"open", "closing", "gone"}
    BY <1>2 DEF OfHost, HostStep, Commit, Cancel, HandleAudioFrame, HandleInboundMedia, Push,
                TakeEmission, Closes, Leave, IInv, Hosts
  <2>2. ~Gone
    BY <1>2 DEF OfHost, HostStep, Commit, Cancel, HandleAudioFrame, HandleInboundMedia, Push,
                TakeEmission, Closes, Leave, HearsFrame, Ready, Gone
  <2>3. ~Leave => host'.phase # "gone"
    BY <1>2, <2>2 DEF OfHost, HostStep, Commit, Cancel, HandleAudioFrame, HandleInboundMedia,
                Push, TakeEmission, Closes, Gone, IInv, Hosts
  <2>4. Leave => heard' = Unheard
    BY DEF Leave
  <2>5. Unheard' = Unheard
    BY DEF Unheard
  <2> QED
    BY <2>1, <2>2, <2>3, <2>4, <2>5 DEF Speech, Cascade, Gone
<1>3. CASE OfPipelines(PipelinesStep)
  <2>1. CASE InputLoop
    BY <1>1, <2>1 DEF InputLoop
  <2>2. ASSUME NEW g \in Gens, PipelineTask(g) \/ Voice(g)
        PROVE  UNCHANGED <<setting, host, heard>>
    BY <2>2 DEF PipelineTask, Voice, PipelineEmits, HandsOver, Transcribe, TakesDelta,
                TakesEnd, TakesError, FinishStreamedAnswer, Prompt, Craft, Word, Formant,
                SpeechWorker, VoiceEmits, Goes, hostVars
  <2> QED
    BY <1>1, <1>3, <2>1, <2>2 DEF OfPipelines, PipelinesStep
<1>4. CASE OfNative(NativeStep)
  BY <1>1, <1>4 DEF OfNative, NativeStep, NativeTask, NativeInput, SendUp, SendOut, TakesEvent,
                    NativeEnds, MoshiFails, ModelReads, ModelWrites, ModelDrops, hostVars
<1>5. CASE UNCHANGED vars
  BY <1>1, <1>5 DEF vars, hostVars
<1> QED
  BY <1>2, <1>3, <1>4, <1>5 DEF Next

LEMMA SpeechBegins ==
  ASSUME Init
  PROVE  Speech
<1>1. \A g \in Gens : Untaken(g)
  BY DEF Init, HostInit, PipelinesInit, Untaken, Unsent, Unheard
<1>2. /\ host.phase = "open" /\ host.active = NoGen /\ host.issued = 0 /\ host.waiting = <<>>
      /\ inputs = <<>> /\ outputs = <<>> /\ revoked = {} /\ loop.active = NoGen /\ canceled = {}
  BY DEF Init, HostInit, PipelinesInit
<1>3. Answers
  BY <1>1, <1>2 DEF Answers, NoGen
<1>4. Questions /\ Addressed
  BY <1>2 DEF Questions, InOrder, Addressed
<1>5. \A g \in Gens : Books(g)
  BY <1>1, BooksOfNothing
<1> QED
  BY <1>2, <1>3, <1>4, <1>5 DEF Speech, Gone

LEMMA SpeechGoesOn ==
  ASSUME IInv, Speech, [Next]_vars
  PROVE  Speech'
<1>1. CASE ~Cascade
  BY <1>1, NobodySpeaks
<1>2. CASE Cascade
  <2>1. CASE OfHost(HostStep(Listens, Silent))
    BY <1>2, <2>1, HostSpeaks
  <2>2. CASE OfPipelines(PipelinesStep)
    BY <1>2, <2>2, InputLoopSpeaks, PipelineSpeaks DEF OfPipelines, PipelinesStep
  <2>3. CASE OfNative(NativeStep)
    BY <1>2, <2>3 DEF Cascade, OfNative, Piped
  <2>4. CASE UNCHANGED vars
    <3>1. UNCHANGED <<setting, host, inputs, outputs, revoked, heard, loop, canceled, pipes>>
      BY <2>4 DEF vars, hostVars, pipeVars
    <3>2. \A g : (Untaken(g) => Untaken(g)') /\ (Retired(g) => Retired(g)')
                 /\ (Books(g) => Books(g)')
      BY <3>1, BooksStay DEF Untaken, Unsent, Retired, Concluded
    <3>3. \A i : Awaited(i) => Awaited(i)'
      BY <3>1, <3>2 DEF Awaited
    <3>4. Answers'
      BY <1>2, <3>1, <3>2 DEF Speech, Answers
    <3>5. Questions'
      BY <1>2, <3>1, <3>3 DEF Speech, Questions, InOrder
    <3> QED
      BY <1>2, <3>1, <3>2, <3>4, <3>5 DEF Speech, Cascade, Gone, Addressed
  <2> QED
    BY <2>1, <2>2, <2>3, <2>4 DEF Next
<1> QED
  BY <1>1, <1>2
-----------------------------------------------------------------------------
(* Theorems *)

\* The state has its shape, and the answer the input loop holds is the only one whose
\* tasks run uncanceled.
THEOREM AnsweringInvariance == Spec => []IInv
<1>1. Init => IInv
  BY InitHolds
<1>2. IInv /\ [Next]_vars => IInv'
  BY NextKeeps
<1> QED
  BY <1>1, <1>2, PTL DEF Spec

\* TypeOK: of every host with every provider, over channels of any capacity.
THEOREM TypesHold == Spec => []TypeOK
<1>1. IInv => TypeOK
  <2> SUFFICES ASSUME IInv PROVE TypeOK
    OBVIOUS
  <2>1. ToSet(inputs) \subseteq Asked /\ ToSet(outputs) \subseteq Emitted
    BY DEF IInv, Channels, ToSet
  <2>2. HostTypeOK
    BY <2>1 DEF IInv, Channels, Hosts, HostTypeOK, Asked, Emitted, Held, SomeGen
  <2> QED
    BY <2>2 DEF IInv, InputLoops, Pipes, IsPipe, TypeOK
<1> QED
  BY <1>1, AnsweringInvariance, PTL

\* OneVoice: of two answers whose tasks run one is canceled, whatever the provider
\* of the setting does and however late a canceled task notices.
THEOREM OneAnswerSpeaks == Spec => []OneVoice
<1>1. IInv => OneVoice
  BY DEF IInv, LoopHoldsTheVoice, OneVoice
<1> QED
  BY <1>1, AnsweringInvariance, PTL

\* CompleteMeansSpoken: whatever is canceled, fails or lags, an answer of the cascade
\* that completes has been shown and spoken, word for word.
THEOREM CompletedIsSpoken == Spec => []CompleteMeansSpoken
<1>1. Init => IInv /\ Speech
  BY InitHolds, SpeechBegins
<1>2. (IInv /\ Speech) /\ [Next]_vars => (IInv /\ Speech)'
  BY NextKeeps, SpeechGoesOn
<1>3. IInv /\ Speech => CompleteMeansSpoken
  <2> SUFFICES ASSUME IInv, Speech, setting.kind = "cascade", NEW g \in Gens \ revoked,
                      Concluded(g)
               PROVE  pipes[g].said = pipes[g].words /\ heard[g].words = pipes[g].words
    BY DEF CompleteMeansSpoken, Concluded
  <2>1. ~Gone
    BY DEF Speech, Concluded, Unheard
  <2>2. Books(g)
    BY <2>1 DEF Speech, Cascade
  <2>3. Silenced(pipes[g]) /\ Unsent(g)
    BY <2>2 DEF Books, Ended
  <2>4. Told(pipes[g]) = pipes[g].words
    <3>1. pipes[g].todo = <<>> /\ pipes[g].words \in Nat /\ <<>> # <<"delta">>
      <4>1. <<>> # <<"delta">>
        OBVIOUS
      <4> QED
        BY <2>3, <4>1 DEF Silenced, Busy, IInv, Pipes, IsPipe
    <3> QED
      BY <3>1 DEF Told
  <2>5. Cardinality(Shown(g)) = 0
    <3>1. Shown(g) = {}
      BY <2>3 DEF Shown, Unsent
    <3> QED
      BY <3>1, FS_EmptySet
  <2>6. heard[g].words \in Nat
    BY DEF IInv, Hosts
  <2> QED
    BY <2>2, <2>3, <2>4, <2>5, <2>6 DEF Books, Silenced
<1> QED
  BY <1>1, <1>2, <1>3, PTL DEF Spec
=============================================================================
