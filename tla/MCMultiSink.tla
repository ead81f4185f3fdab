---------------------------- MODULE MCMultiSink ----------------------------
(***************************************************************************)
(* Small instances of MultiSink: two sinks and two openings.               *)
(***************************************************************************)
EXTENDS MultiSink, TLC

CONSTANTS rtsp, recorder

AllSinks == {rtsp, recorder}

AllSymmetry == Permutations(AllSinks)
=============================================================================
