------------------------------ MODULE MCSession ------------------------------
(* Session on short recordings of coarse frames.                           *)
EXTENDS Session, TLC

\* Silence, and speech at every sensitivity.
MCLevels == {20, 95}
MCQuiet == {20}

MCProfiles ==
  { [sensitivity |-> "balanced", backchannels |-> FALSE, tolerance |-> 100] }

MCScreenedOutputs == ProviderOutputs \ {"audio_dropped", "event"}
\* A cascade provider streams text and audio but no Generating state.
MCCascadeOutputs == MCScreenedOutputs \ {"generating"}

\* A session never compares task ids.
TaskSymmetry == Permutations(TaskIds)

\* Outputs that gate and tasks tell apart.
MCTaskOutputs == {"partial", "clause", "blocked", "final", "audio", "complete", "result"}

=============================================================================
