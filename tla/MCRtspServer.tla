---------------------------- MODULE MCRtspServer ----------------------------
(***************************************************************************)
(* Small instances of RtspServer.                                          *)
(***************************************************************************)
EXTENDS RtspServer, TLC

=============================================================================
