------------------------------ MODULE RtpPacket ------------------------------
(***************************************************************************)
(* RtpPacket::parse_header_and_payload() of nxnet/rtp: where in a datagram *)
(* the payload is.                                                         *)
(*                                                                         *)
(* A datagram is [version, csrcs, extension, words, padding, last, size]:  *)
(* how many contributing sources follow the header, whether an extension   *)
(* of so many words does, whether there is padding, and the number in its  *)
(* last byte, which then says how much.                                    *)
(***************************************************************************)
EXTENDS Naturals

MinHeaderSize == 12

\* What stands in front of the payload.
PayloadOffset(d) ==
  MinHeaderSize + 4 * d.csrcs + (IF d.extension THEN 4 + 4 * d.words ELSE 0)

Refused(error)  == [ok |-> FALSE, error |-> error]
Found(from, to) == [ok |-> TRUE, from |-> from, to |-> to]

\* The payload is the bytes from .. to - 1.
ParseHeaderAndPayload(d) ==
  LET offset == PayloadOffset(d)
  IN  CASE d.size < MinHeaderSize -> Refused("packet_too_short")
        [] d.size >= MinHeaderSize /\ d.version # 2 -> Refused("invalid_version")
        [] d.size >= MinHeaderSize /\ d.version = 2 ->
             IF d.size < offset THEN Refused("packet_too_short")
             ELSE IF ~d.padding THEN Found(offset, d.size)
             ELSE IF d.last = 0 \/ d.last > d.size - offset THEN Refused("invalid_header")
             ELSE Found(offset, d.size - d.last)
=============================================================================
