------------------------------- MODULE Pipelines -------------------------------
(***************************************************************************)
(* The providers that run a pipeline of tasks for each answer: the cascade *)
(* (openai_compatible.rs: transcription, chat completion, speech) and the  *)
(* mock (mock.rs).  An input loop starts and cancels pipelines; those of   *)
(* different answers share the output channel, and one that is canceled    *)
(* winds down while the next runs.                                         *)
(*                                                                         *)
(* Words are counted: a text delta is one word, a segment of speech the    *)
(* words it speaks, and its PCM one frame.                                 *)
(***************************************************************************)
EXTENDS Host

CONSTANTS
  MaxDeltas,    \* bound: words of all answers
  SegmentSize   \* capacity of the queue of speech segments (8)

ASSUME PipelinesAssumption ==
  /\ MaxDeltas \in Nat /\ SegmentSize \in Nat \ {0}

VARIABLES
  loop,      \* input loop: alive, active generation
  canceled,  \* generations whose CancellationToken is canceled
  pipes      \* the tasks of each generation

pipeVars == <<loop, canceled, pipes>>
-----------------------------------------------------------------------------
\* A pipeline has not begun, runs, or is done; todo is what it has yet to emit
\* before it goes on at pc; words counts those shown, unsaid those not yet handed to
\* the speech worker, segment those it is handing over.  Beside it runs the speech worker
\* (voice).
Idle ==
  [pc |-> "idle", todo |-> <<>>, words |-> 0, unsaid |-> 0, segment |-> 0,
   segments |-> <<>>,
   voice |-> "idle", say |-> 0, said |-> 0, failed |-> FALSE]

PipelinesInit ==
  /\ loop = [alive |-> TRUE, active |-> NoGen]
  /\ canceled = {}
  /\ pipes = [g \in Gens |-> Idle]

MoreWords == MapThenSumSet(LAMBDA g : pipes[g].words, Gens) < MaxDeltas
Done(p) == p.pc \in {"idle", "done"}
Alive(p) == ~Done(p) \/ p.voice \notin {"idle", "done"}

\* cancel_active
CancelActive == canceled \cup ({loop.active} \ {NoGen})

\* run_pipeline and generate_mock_response begin.
Begin ==
  IF setting.kind = "mock" THEN [Idle EXCEPT !.pc = "prompt"]
  ELSE [Idle EXCEPT !.pc = "transcribe", !.todo = <<"progress">>]

\* The input loop of open_session.  A commit cancels the pipeline before it; a cancel
\* counts only for the newest.  Mutants: a commit leaves the one before alone, or
\* waits for it.
CommitsBeside(g) ==
  /\ canceled' = canceled
  /\ loop' = [loop EXCEPT !.active = g]
  /\ pipes' = [pipes EXCEPT ![g] = Begin]
CommitsAfter(g) ==
  /\ \A h \in Gens : Done(pipes[h])
  /\ canceled' = CancelActive
  /\ loop' = [loop EXCEPT !.active = g]
  /\ pipes' = [pipes EXCEPT ![g] = Begin]
TakesCommit(g) ==
  /\ canceled' = CancelActive
  /\ loop' = [loop EXCEPT !.active = g]
  /\ pipes' = [pipes EXCEPT ![g] = Begin]

InputLoop ==
  /\ loop.alive
  /\ TakesInput
  /\ LET i == Head(inputs) IN
     \/ i.kind = "frame" /\ UNCHANGED pipeVars
     \/ i.kind = "commit" /\ TakesCommit(i.gen)
     \/ /\ i.kind = "cancel" /\ UNCHANGED pipes
        /\ IF loop.active = i.gen
           THEN canceled' = CancelActive /\ loop' = [loop EXCEPT !.active = NoGen]
           ELSE UNCHANGED <<canceled, loop>>
     \/ /\ i.kind = "close" /\ UNCHANGED pipes
        /\ canceled' = CancelActive
        /\ loop' = [loop EXCEPT !.alive = FALSE, !.active = NoGen]
  /\ UNCHANGED <<setting, host, outputs, revoked, heard, late>>

Canceled(g) == g \in canceled

\* A step of one pipeline that emits nothing; what its tasks held is freed in the end.
Freed(g, p) ==
  IF Alive(p) THEN p
  ELSE IF g \in revoked \/ Gone THEN [Idle EXCEPT !.pc = "done"]
  ELSE [Idle EXCEPT !.pc = "done", !.words = p.words, !.said = p.said]
Goes(g, p) ==
  /\ pipes' = [pipes EXCEPT ![g] = Freed(g, p)]
  /\ UNCHANGED <<hostVars, loop, canceled>>

\* A task emits what it has to; if the host has gone it returns, except after a send
\* whose failure it ignores.
Ignored == {"final", "complete", "error"}
PipelineEmits(g) ==
  LET p == pipes[g]
      lost == Gone /\ Head(p.todo) \notin Ignored
      over == lost \/ (Len(p.todo) = 1 /\ p.pc \in {"end", "fail"})
  IN
  /\ p.todo # <<>>
  /\ Emits(Emission(g, Head(p.todo), g))
  /\ pipes' = [pipes EXCEPT ![g] = Freed(g,
                 IF over THEN [p EXCEPT !.todo = <<>>, !.pc = "done", !.segment = 0]
                 ELSE [p EXCEPT !.todo = Tail(@)])]
  /\ UNCHANGED <<setting, host, inputs, revoked, heard, late, loop, canceled>>

At(g, pc) == pipes[g].pc = pc /\ pipes[g].todo = <<>>
-----------------------------------------------------------------------------
(* The cascade *)

\* run_pipeline: transcription fails, or is cut short by the cancellation, which is
\* reported as a failure too; otherwise the pipeline looks at its token, and
\* stream_answer starts the speech worker.  The states and the task announced on the
\* way are one emission, before.
Transcribe(g) ==
  /\ At(g, "transcribe")
  /\ \/ Goes(g, [pipes[g] EXCEPT !.pc = "end", !.todo = <<"error">>])
     \/ Goes(g, IF Canceled(g) THEN [pipes[g] EXCEPT !.pc = "done"]
                ELSE [pipes[g] EXCEPT !.pc = "stream", !.voice = "recv"])

\* The loop of stream_answer over what stream_completion reads from the endpoint: a
\* word, after which the segmenter finds a boundary or not;
Listening(g) == At(g, "stream") /\ pipes[g].segment = 0
TakesDelta(g) ==
  LET p == pipes[g]
      q == [p EXCEPT !.words = @ + 1, !.todo = <<"delta">>]
  IN /\ Listening(g) /\ MoreWords
     /\ \/ Goes(g, [q EXCEPT !.unsaid = @ + 1])
        \/ Goes(g, [q EXCEPT !.unsaid = 0, !.segment = p.unsaid + 1])

\* the end, which is also what a canceled stream looks like: the rest of the text is
\* the last segment;
TakesEnd(g) ==
  /\ Listening(g)
  /\ Goes(g, [pipes[g] EXCEPT !.pc = "finish", !.unsaid = 0, !.segment = pipes[g].unsaid])

\* an error: the pipeline returns, the speech worker says what it was given.
TakesError(g) ==
  /\ Listening(g)
  /\ Goes(g, [pipes[g] EXCEPT !.pc = "fail", !.todo = <<"error">>])

\* speech_sender.send: waits for room; if the worker has ended the pipeline returns
\* without a word.
HandsOver(g) ==
  LET p == pipes[g] IN
  /\ p.todo = <<>> /\ p.segment # 0
  /\ IF p.voice = "done" THEN Goes(g, [p EXCEPT !.pc = "done", !.segment = 0])
     ELSE /\ Len(p.segments) < SegmentSize
          /\ Goes(g, [p EXCEPT !.segments = Append(@, p.segment), !.segment = 0])

\* finish_streamed_answer.  Mutant: it does not look at what became of the speech.
VerdictUnchecked(p) == "complete"
Verdict(p) == IF p.failed THEN "error" ELSE "complete"
FinishStreamedAnswer(g) ==
  LET p == pipes[g] IN
  \/ /\ At(g, "finish") /\ p.segment = 0
     /\ Goes(g, IF p.words = 0 THEN [p EXCEPT !.pc = "end", !.todo = <<"error">>]
                ELSE [p EXCEPT !.pc = "await", !.todo = <<"final">>])
  \/ /\ At(g, "await") /\ p.voice = "done"
     /\ Goes(g, [p EXCEPT !.pc = "end", !.todo = <<Verdict(p)>>])

\* The segment queue is closed once the pipeline no longer sends to it, at the latest
\* when it returns.  Mutant: only when all was handed over.
ClosedAtFinish(p) == p.pc \in {"await", "end"}
SegmentsClosed(p) == p.pc \in {"await", "end", "done"}

\* run_speech_worker and stream_speech_segment: one segment at a time, whose request
\* or body may fail; a canceled worker ends well if it notices before or within a
\* segment, and with an error if its request is cut short.  Its Synthesizing state is
\* left out.
VoiceEnds(p, failed) ==
  [p EXCEPT !.voice = "done", !.segments = <<>>, !.say = 0, !.failed = failed]
SpeechWorker(g) ==
  LET p == pipes[g] IN
  \/ /\ p.voice = "recv" /\ p.segments # <<>>
     /\ Goes(g, IF Canceled(g) THEN VoiceEnds(p, FALSE)
                ELSE [p EXCEPT !.voice = "speak", !.say = Head(p.segments), !.segments = Tail(@)])
  \/ /\ p.voice = "recv" /\ p.segments = <<>> /\ SegmentsClosed(p)
     /\ Goes(g, VoiceEnds(p, FALSE))
  \/ p.voice = "speak" /\ Goes(g, VoiceEnds(p, TRUE))
  \/ p.voice = "speak" /\ Canceled(g) /\ Goes(g, [p EXCEPT !.voice = "recv", !.say = 0])
VoiceEmits(g) ==
  LET p == pipes[g] IN
  /\ p.voice = "speak"
  /\ Emits(Emission(g, "audio", g))
  /\ pipes' = [pipes EXCEPT ![g] =
                 IF Gone THEN VoiceEnds(p, TRUE)
                 ELSE [p EXCEPT !.voice = "recv", !.said = @ + p.say, !.say = 0]]
  /\ UNCHANGED <<setting, host, inputs, revoked, heard, late, loop, canceled>>
-----------------------------------------------------------------------------
(* The mock *)

\* generate_mock_response: a filler gets an acknowledgement, a bogus prompt nothing,
\* others a reply from the model, which may be empty.
Prompt(g) ==
  LET p == pipes[g] IN
  /\ At(g, "prompt")
  /\ IF Canceled(g) THEN Goes(g, [p EXCEPT !.pc = "done"])
     ELSE \/ Goes(g, [p EXCEPT !.pc = "end", !.todo = <<"progress", "final", "complete">>])
          \/ Goes(g, [p EXCEPT !.pc = "end", !.todo = <<"progress", "complete">>])
          \/ Goes(g, [p EXCEPT !.pc = "craft", !.todo = <<"progress">>])
Craft(g) ==
  LET p == pipes[g] IN
  /\ At(g, "craft")
  /\ \/ ~Canceled(g) /\ Goes(g, [p EXCEPT !.pc = "words"])
     \/ Goes(g, [p EXCEPT !.pc = "done"])

\* Its words one by one, the end of its text, and, if the formant voice is on, sound;
\* it looks at its token before each word and each frame.
Word(g) ==
  LET p == pipes[g] IN
  /\ At(g, "words")
  /\ IF Canceled(g) THEN Goes(g, [p EXCEPT !.pc = "done"])
     ELSE \/ /\ p.words < MaxDeltas
             /\ Goes(g, [p EXCEPT !.words = @ + 1, !.todo = <<"delta">>])
          \/ /\ p.words > 0
             /\ Goes(g, [p EXCEPT !.pc = "formant", !.todo = <<"final", "complete">>])
Formant(g) ==
  LET p == pipes[g] IN
  /\ At(g, "formant")
  /\ \/ Goes(g, [p EXCEPT !.pc = "done"])
     \/ ~Canceled(g) /\ p.said < 1
          /\ Goes(g, [p EXCEPT !.said = @ + 1, !.todo = <<"audio">>])
-----------------------------------------------------------------------------
PipelineTask(g) ==
  \/ PipelineEmits(g) \/ HandsOver(g)
  \/ Transcribe(g)
  \/ TakesDelta(g) \/ TakesEnd(g) \/ TakesError(g) \/ FinishStreamedAnswer(g)
  \/ Prompt(g) \/ Craft(g) \/ Word(g) \/ Formant(g)

Voice(g) == SpeechWorker(g) \/ VoiceEmits(g)

PipelinesStep ==
  \/ InputLoop
  \/ \E g \in Gens : PipelineTask(g) \/ Voice(g)

\* The output channel closes when every task that holds a sender has ended.
PipelinesSilent == ~loop.alive /\ \A g \in Gens : ~Alive(pipes[g])
=============================================================================
