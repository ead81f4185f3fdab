----------------------------- MODULE MCRecording -----------------------------
(* Instances of Recording for TLC. *)
EXTENDS Recording

\* A key frame, and two milliseconds of audio with 16 bits at 8 kHz.
MCKinds ==
  {[type |-> "video", payload_size |-> 40, sample_rate |-> 0, bytes_per_sample |-> 0,
    size |-> 2, key |-> TRUE],
   [type |-> "audio", payload_size |-> 33, sample_rate |-> 8000, bytes_per_sample |-> 2,
    size |-> 1, key |-> FALSE]}
MCSteps     == {-1, 1}
MCNoBlocks  == {}
=============================================================================
