--------------------------- MODULE RtpDepacketizer ---------------------------
(***************************************************************************)
(* How frames are put together again: process_packet() of                  *)
(* RtpH264Depacketizer, RtpH265Depacketizer and RtpJpegDepacketizer as     *)
(* functions from the members of the object and a packet to the members    *)
(* after the call and what it gives out.                                   *)
(*                                                                         *)
(* The result of a call is [d, done, frame, key]: the new members, the     *)
(* return value, out_frame and out_keyframe.                               *)
(***************************************************************************)
EXTENDS Naturals, Sequences, SequencesExt

CONSTANTS MismatchFrames,   \* kMismatchFrameThreshold
          McuSize           \* bytes of a scan that decode to one MCU

NotDetected == 255        \* m_detected_type before the first picture
Sizeless    == 255        \* stands for a JPEG header without width and height

Nothing(d)           == [d |-> d, done |-> FALSE, frame |-> <<>>, key |-> FALSE]
Given(d, frame, key) == [d |-> d, done |-> TRUE, frame |-> frame, key |-> key]

-----------------------------------------------------------------------------
(* report_unknown_nal(): counts a frame when its timestamp is not that of  *)
(* the last bad packet; the callback is called once.                       *)

NoErrors == [frames |-> 0, ts |-> 0, told |-> FALSE]

ReportUnknownNal(e, ts) ==
  LET n == IF ts # e.ts THEN e.frames + 1 ELSE e.frames
  IN [frames |-> n, ts |-> ts, told |-> e.told \/ n >= MismatchFrames]

-----------------------------------------------------------------------------
(* H.264 and H.265.  acc is the NAL unit being joined from fragments, buf  *)
(* the frame being put together, pend one that waits to be given out.      *)

NalInit ==
  [acc |-> <<>>, inFragmentation |-> FALSE, buf |-> <<>>, key |-> FALSE, ts |-> 0,
   pend |-> <<>>, hasPending |-> FALSE, pendKey |-> FALSE, errors |-> NoErrors]

H264KeyframeNals == {"idr"}

(* H.265 takes parameter sets for keyframes too. *)
H265KeyframeNals == {"idr", "param"}

HandleSingleNal(d, nal, keys) ==
  [d EXCEPT !.buf = Append(@, [nal |-> nal.id, from |-> 1, to |-> nal.size]),
            !.key = @ \/ nal.type \in keys]

HandleStapA(d, nals, keys) ==
  FoldLeft(LAMBDA e, nal : HandleSingleNal(e, nal, keys), d, nals)

(* Variant: what was joined before is not thrown away. *)
BegunKeeping(d, start) == IF start THEN [d EXCEPT !.inFragmentation = TRUE] ELSE d

(* The start bit throws away what was joined before. *)
Begun(d, start) == IF start THEN [d EXCEPT !.acc = <<>>, !.inFragmentation = TRUE] ELSE d

(* Fragments are joined as they come: sequence numbers are not looked at.  *)
HandleFuA(d, p, keys) ==
  LET begun  == [Begun(d, p.start) EXCEPT !.key = @ \/ (p.start /\ p.type \in keys)]
      joined == Append(begun.acc, p.piece)
  IN IF ~begun.inFragmentation THEN d
     ELSE IF p.end
     THEN [begun EXCEPT !.inFragmentation = FALSE, !.buf = @ \o joined, !.acc = <<>>]
     ELSE [begun EXCEPT !.acc = joined]

DispatchNal(d, p, ts, keys) ==
  CASE p.kind = "single"    -> HandleSingleNal(d, p.nals[1], keys)
    [] p.kind = "aggregate" -> HandleStapA(d, p.nals, keys)
    [] p.kind = "fragment"  -> HandleFuA(d, p, keys)
    [] OTHER                -> [d EXCEPT !.errors = ReportUnknownNal(@, ts)]

H264Dispatch(d, p, ts) == DispatchNal(d, p, ts, H264KeyframeNals)

(* The handlers of H.265 differ in where the type of a NAL unit is found.  *)
H265Dispatch(d, p, ts) == DispatchNal(d, p, ts, H265KeyframeNals)

Dispatch(codec, d, p, ts) ==
  IF codec = "h264" THEN H264Dispatch(d, p, ts) ELSE H265Dispatch(d, p, ts)

(* The packet goes into the frame buffer, which has just been emptied or   *)
(* goes on; if its marker ends a frame, that is set aside as pending.      *)
AddAndPark(codec, d, h, p) ==
  LET e == Dispatch(codec, [d EXCEPT !.ts = h.ts], p, h.ts)
  IN IF h.marker /\ e.buf # <<>>
     THEN [e EXCEPT !.pend = e.buf, !.pendKey = e.key, !.hasPending = TRUE,
                    !.buf = <<>>, !.key = FALSE]
     ELSE e

Assemble(codec, d, h, p) ==
  IF d.ts # 0 /\ h.ts # d.ts /\ d.buf # <<>>
  THEN Given(AddAndPark(codec, [d EXCEPT !.buf = <<>>, !.key = FALSE], h, p), d.buf, d.key)
  ELSE IF d.hasPending
  THEN Given(AddAndPark(codec, [d EXCEPT !.hasPending = FALSE, !.pend = <<>>], h, p),
             d.pend, d.pendKey)
  ELSE LET e == Dispatch(codec, [d EXCEPT !.ts = h.ts], p, h.ts)
       IN IF h.marker /\ e.buf # <<>>
          THEN Given([e EXCEPT !.buf = <<>>, !.key = FALSE], e.buf, e.key)
          ELSE Nothing(e)

H264ProcessPacket(d, h, p) == Assemble("h264", d, h, p)
H265ProcessPacket(d, h, p) == Assemble("h265", d, h, p)

-----------------------------------------------------------------------------
(* JPEG.  Fragments carry the place they belong to; a place nothing came   *)
(* for holds zeros.  A byte of a scan is <<whose, which, sampling>>: what   *)
(* picture it is of, where, and how the picture samples its colours.       *)
Gap == <<<<0, 0>>, 0, "none">>

(* tables is what there is of quantization tables, one or two, interval of *)
(* the last restart header, type what the header says of the sampling.     *)
JpegInit ==
  [scan |-> <<>>, started |-> FALSE, q |-> 0, type |-> 0, ts |-> 0,
   tables |-> <<>>, tablesQ |-> 0, interval |-> 0, hasRestart |-> FALSE,
   detected |-> NotDetected, errors |-> NoErrors]

CopyScan(scan, offset, bytes) ==
  LET end == offset + Len(bytes)
  IN [i \in 1 .. (IF end > Len(scan) THEN end ELSE Len(scan)) |->
        IF i > offset /\ i <= end THEN bytes[i - offset]
        ELSE IF i <= Len(scan) THEN scan[i] ELSE Gap]

(* The scan is decoded as if its colours were sampled like this until that *)
(* fails: at a gap or, if they are not, at once.                           *)
TryDecodeMcus(scan, sampling) ==
  LET Fails(n) == n > Len(scan) \/ scan[n][3] # sampling
  IN (CHOOSE n \in 1 .. Len(scan) + 1 : Fails(n) /\ \A m \in 1 .. n - 1 : ~Fails(m)) \div McuSize

DetectSubsampling(scan) ==
  IF TryDecodeMcus(scan, "420") > TryDecodeMcus(scan, "422") THEN "420" ELSE "422"

(* Types 0 and 1 differ in the sampling, types from 64 on have restart     *)
(* markers.  What the first picture was found to have holds from then on,  *)
(* whatever the headers say.                                               *)
RestartBits(type) == IF type >= 64 THEN 64 ELSE 0

EffectiveType(d) ==
  IF d.type % 64 > 1 THEN d.type
  ELSE IF d.detected # NotDetected THEN d.detected
  ELSE RestartBits(d.type) + (IF DetectSubsampling(d.scan) = "422" THEN 1 ELSE 0)

(* The tables of a quality below 128 are the standard ones, scaled.        *)
DefaultQuantTables(q) ==
  LET factor == CASE q < 1 -> 5000 [] q \in 1 .. 49 -> 5000 \div q
                  [] q \in 50 .. 99 -> 200 - 2 * q [] OTHER -> 1
  IN <<<<"luma", factor>>, <<"chroma", factor>>>>

(* With one table only, it serves for the colours too. *)
WriteDqt(id, tables) == tables[IF id \in DOMAIN tables THEN id ELSE 1]
WriteSof0(type)      == IF type \in {1, 65} THEN "422" ELSE "420"
WriteDri(d)          == IF d.hasRestart THEN d.interval ELSE 0

(* Variant: those kept serve for any quality. *)
QuantTablesOfAny(d, own) ==
  CASE own # <<>>                        -> own
    [] own = <<>> /\ d.tables # <<>> -> d.tables
    [] OTHER                             -> DefaultQuantTables(d.q)

(* The tables of the packet, else those kept for this quality, else the    *)
(* standard ones.                                                          *)
QuantTables(d, own) ==
  CASE own # <<>>                                    -> own
    [] own = <<>> /\ d.tables # <<>> /\ d.q = d.tablesQ -> d.tables
    [] OTHER                                         -> DefaultQuantTables(d.q)

(* The head of the picture, and the scan.  A picture without a size in its *)
(* header cannot be built: out_frame stays empty, and is given out all the *)
(* same.                                                                   *)
BuildJpegFrame(d, own) ==
  LET tables == QuantTables(d, own)
  IN IF d.q = Sizeless THEN <<>>
     ELSE <<[dqt  |-> <<WriteDqt(1, tables), WriteDqt(2, tables)>>,
             sof0 |-> WriteSof0(EffectiveType(d)), dri |-> WriteDri(d)]>> \o d.scan

(* Once a picture was built, its sampling is known. *)
Detected(d) ==
  IF d.type % 64 <= 1 /\ d.q # Sizeless THEN EffectiveType(d) ELSE d.detected

JpegProcessPacket(d, h, p) ==
  LET dropped == d.ts # 0 /\ h.ts # d.ts /\ d.started
      current == [d EXCEPT !.ts = h.ts,
                           !.scan       = IF dropped THEN <<>> ELSE @,
                           !.started    = @ /\ ~dropped,
                           !.hasRestart = @ /\ ~dropped]
      restart == IF p.type >= 64
                 THEN [current EXCEPT !.interval = p.interval, !.hasRestart = TRUE] ELSE current
      tables  == IF p.offset = 0 /\ p.tables # <<>>
                 THEN [restart EXCEPT !.tables = p.tables, !.tablesQ = p.q] ELSE restart
      first   == IF p.offset = 0
                 THEN [tables EXCEPT !.scan = <<>>, !.started = TRUE, !.q = p.q, !.type = p.type]
                 ELSE tables
      filled  == [first EXCEPT !.scan = CopyScan(@, p.offset, p.scan)]
  IN IF p.kind # "jpeg" THEN Nothing([current EXCEPT !.errors = ReportUnknownNal(@, h.ts)])
     ELSE IF ~first.started THEN Nothing(first)
     ELSE IF h.marker
     THEN Given([filled EXCEPT !.scan = <<>>, !.started = FALSE, !.hasRestart = FALSE,
                               !.detected = Detected(filled)],
                BuildJpegFrame(filled, p.tables), TRUE)
     ELSE Nothing(filled)
=============================================================================
