------------------------------ MODULE MCChronos ------------------------------
(* Chronos on a short recording of coarse frames, every sensitivity.       *)
EXTENDS Chronos

\* One level below the off-threshold, one between off and on, one that only a
\* responsive profile takes for speech, one that every profile does.
MCLevels == {20, 45, 55, 95}

\* One profile of each sensitivity; their tolerances differ so that a change in
\* the middle of a pause matters.
MCProfiles ==
  { [sensitivity |-> "conservative", backchannels |-> TRUE,  tolerance |-> 300],
    [sensitivity |-> "balanced",     backchannels |-> FALSE, tolerance |-> 200],
    [sensitivity |-> "responsive",   backchannels |-> TRUE,  tolerance |-> 100] }
=============================================================================
