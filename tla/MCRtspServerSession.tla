------------------------ MODULE MCRtspServerSession ------------------------
(***************************************************************************)
(* A small instance of RtspServerSession: a media session with video and    *)
(* audio, and one with video only.                                         *)
(***************************************************************************)
EXTENDS RtspServerSession, TLC

CONSTANTS live, archive

TwoMedia == {live, archive}
TwoTrackCount == (live :> 2) @@ (archive :> 1)
=============================================================================
