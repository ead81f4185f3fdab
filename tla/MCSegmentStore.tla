--------------------------- MODULE MCSegmentStore ---------------------------
(* Instances of SegmentStore for TLC. *)
EXTENDS SegmentStore

\* Keyframe blocks at two times of one second, and a block without a keyframe.
MCBlocks == {[start |-> 0, end |-> 1, size |-> 1, key |-> TRUE],
             [start |-> 1, end |-> 2, size |-> 1, key |-> TRUE],
             [start |-> 1, end |-> 2, size |-> 1, key |-> FALSE]}
=============================================================================
