---------------------------- MODULE RtpPacketizer ----------------------------
(***************************************************************************)
(* How a frame is cut into RTP packets: RtpH264Packetizer (RFC 6184),      *)
(* RtpG711Packetizer, RtpRawPacketizer, and, as cameras do it, H.265 and   *)
(* JPEG, for which the library has no packetizer.                          *)
(*                                                                         *)
(* A NAL unit is [id, type, size]: its first byte is its header.  Bytes    *)
(* are not written down: a piece [nal, from, to] stands for the bytes from *)
(* .. to of a NAL unit, with the start code in front of byte 1.            *)
(***************************************************************************)
EXTENDS Naturals, Sequences, SequencesExt

CONSTANTS MaxPayload,   \* m_max_payload_size
          ExtSize       \* bytes of the header extension of each packet, or 0

ASSUME PacketizerAssumption == MaxPayload \in Nat /\ MaxPayload > 3 /\ ExtSize \in Nat

Smaller(m, n) == IF m < n THEN m ELSE n

Piece(nal, from, to) == [nal |-> nal.id, from |-> from, to |-> to]

-----------------------------------------------------------------------------
(* Payloads, each with the marker its packet gets. *)

SendSingleNal(nal, marker) ==
  [payload |-> [kind |-> "single", nals |-> <<nal>>], marker |-> marker]

SendStapA(nals, marker) ==
  [payload |-> [kind |-> "aggregate", nals |-> nals], marker |-> marker]

(* A fragment repeats the NAL header; the first one stands for it (byte 1). *)
MaxFragment ==
  IF ExtSize = 0 THEN MaxPayload - 2
  ELSE IF MaxPayload > ExtSize + 2 THEN MaxPayload - ExtSize - 2 ELSE 1

SendFuA(nal, marker) ==
  LET body  == nal.size - 1
      count == (body + MaxFragment - 1) \div MaxFragment
  IN [k \in 1 .. count |->
        [payload |-> [kind  |-> "fragment", type |-> nal.type,
                      piece |-> Piece(nal, IF k = 1 THEN 1 ELSE 2 + (k - 1) * MaxFragment,
                                      1 + Smaller(k * MaxFragment, body)),
                      start |-> k = 1, end |-> k = count],
         marker  |-> marker /\ k = count]]

(* One or several NAL units that were collected to go together. *)
SendCollected(nals, marker) ==
  IF nals = <<>> THEN <<>>
  ELSE IF Len(nals) = 1 THEN <<SendSingleNal(nals[1], marker)>>
  ELSE <<SendStapA(nals, marker)>>

(* Variant: what was collected is sent with the marker. *)
CollectNalMarked(s, nal) ==
  LET grown == s.total + nal.size + 2
  IN IF nal.size > MaxPayload
     THEN [out |-> s.out \o SendCollected(s.nals, TRUE) \o SendFuA(nal, s.left = 1),
           nals |-> <<>>, total |-> 0, left |-> s.left - 1]
     ELSE IF s.nals # <<>> /\ grown <= MaxPayload
     THEN [s EXCEPT !.nals = Append(@, nal), !.total = grown, !.left = @ - 1]
     ELSE [out |-> s.out \o SendCollected(s.nals, FALSE),
           nals |-> <<nal>>, total |-> nal.size + 3, left |-> s.left - 1]

(* The loop over the NAL units: small ones are collected as long as they   *)
(* fit together, a big one sends what was collected and is then cut.       *)
CollectNal(s, nal) ==
  LET grown == s.total + nal.size + 2
  IN IF nal.size > MaxPayload
     THEN [out |-> s.out \o SendCollected(s.nals, FALSE) \o SendFuA(nal, s.left = 1),
           nals |-> <<>>, total |-> 0, left |-> s.left - 1]
     ELSE IF s.nals # <<>> /\ grown <= MaxPayload
     THEN [s EXCEPT !.nals = Append(@, nal), !.total = grown, !.left = @ - 1]
     ELSE [out |-> s.out \o SendCollected(s.nals, FALSE),
           nals |-> <<nal>>, total |-> nal.size + 3, left |-> s.left - 1]

Collected(nals) ==
  LET s[n \in 0 .. Len(nals)] ==
        IF n = 0 THEN [out |-> <<>>, nals |-> <<>>, total |-> 0, left |-> Len(nals)]
        ELSE CollectNal(s[n - 1], nals[n])
  IN s[Len(nals)]

PacketizeNals(nals) ==
  Collected(nals).out \o SendCollected(Collected(nals).nals, TRUE)

-----------------------------------------------------------------------------
(* Without NAL units: the frame in chunks. *)

ChunkLimit ==
  IF ExtSize = 0 THEN MaxPayload
  ELSE IF MaxPayload > ExtSize THEN MaxPayload - ExtSize ELSE 1

Chunks(size) ==
  [k \in 1 .. (size + ChunkLimit - 1) \div ChunkLimit |->
     [from |-> (k - 1) * ChunkLimit + 1, to |-> Smaller(k * ChunkLimit, size)]]

(* Each packet of raw data has the timestamp of the frame; one of G.711    *)
(* data has that of its first sample (a byte is a sample).                 *)
PacketizeChunks(nal, samples) ==
  LET c == Chunks(nal.size)
  IN [k \in DOMAIN c |->
        [payload |-> [kind |-> "raw", piece |-> Piece(nal, c[k].from, c[k].to)],
         marker  |-> k = Len(c), later |-> IF samples THEN c[k].from - 1 ELSE 0]]

(* RFC 2435, by the camera: where each fragment goes; the quantization     *)
(* tables of the picture, if it has its own, come with the first one,      *)
(* unless the camera leaves them out as known from an earlier picture of   *)
(* this quality; the restart interval comes with each.                     *)
PacketizeJpeg(nal, picture) ==
  LET c == Chunks(nal.size)
  IN [k \in DOMAIN c |->
        [payload |-> [kind |-> "jpeg", offset |-> c[k].from - 1,
                      scan |-> [i \in 1 .. (c[k].to - c[k].from + 1) |->
                                  <<nal.id, c[k].from + i - 1, picture.sampling>>],
                      q |-> picture.q, type |-> picture.type, interval |-> picture.interval,
                      tables |-> IF k = 1 /\ picture.sends THEN picture.tables ELSE <<>>],
         marker  |-> k = Len(c)]]

(* The bytes a payload takes in its packet. *)
PayloadSize(p) ==
  CASE p.kind = "single"    -> p.nals[1].size
    [] p.kind = "aggregate" -> FoldLeft(LAMBDA n, nal : n + 2 + nal.size, 1, p.nals)
    [] p.kind = "fragment"  -> p.piece.to - p.piece.from + (IF p.start THEN 2 ELSE 3)
    [] p.kind = "raw"       -> p.piece.to - p.piece.from + 1
    [] OTHER                -> 1
=============================================================================
