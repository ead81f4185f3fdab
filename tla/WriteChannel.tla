---------------------------- MODULE WriteChannel ----------------------------
(***************************************************************************)
(* What a TcpWriteSerializer promises its users (header comment of         *)
(* nxnet/rtsp/tcp_write_serializer.h): submissions are accepted in some    *)
(* order until the channel is shut, and the peer receives them in that     *)
(* order, one at a time, without a gap and without a duplicate.            *)
(*                                                                         *)
(* One exception is part of the promise the code really keeps: the write   *)
(* that was under way when the channel was shut may be damaged.            *)
(***************************************************************************)
EXTENDS Naturals, Sequences

CONSTANTS Entry,     \* what can be submitted
          Garbage    \* what the peer reads when the bytes were freed under way

VARIABLES accepted,  \* every entry accepted so far, in order
          wire,      \* every entry the peer has received so far, in order
          open       \* new entries are still accepted

channelVars == <<accepted, wire, open>>

Init ==
    /\ accepted = <<>>
    /\ wire = <<>>
    /\ open = TRUE

\* One submission: its entries are accepted together, after all the others.
Accept ==
    /\ open
    /\ accepted' \in Seq(Entry)
    /\ Len(accepted) < Len(accepted')
    /\ \A i \in 1..Len(accepted) : accepted'[i] = accepted[i]
    /\ UNCHANGED <<wire, open>>

\* The oldest entry that is still waiting reaches the peer.
Deliver ==
    /\ Len(wire) < Len(accepted)
    /\ \/ wire' = Append(wire, accepted[Len(wire) + 1])
       \/ /\ ~open
          /\ wire' = Append(wire, Garbage)
    /\ UNCHANGED <<accepted, open>>

Shut ==
    /\ open
    /\ open' = FALSE
    /\ UNCHANGED <<accepted, wire>>

Next == Accept \/ Deliver \/ Shut

Spec == Init /\ [][Next]_channelVars
=============================================================================
