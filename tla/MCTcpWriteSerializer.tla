------------------------ MODULE MCTcpWriteSerializer ------------------------
(***************************************************************************)
(* Small instances of TcpWriteSerializer: the two transports of a session, *)
(* as many entries as overflow the queue, batches of up to two entries.    *)
(***************************************************************************)
EXTENDS TcpWriteSerializer, TLC

CONSTANTS video, audio  \* the RTP transports that share the socket

Transports == {video, audio}

=============================================================================
