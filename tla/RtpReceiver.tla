----------------------------- MODULE RtpReceiver -----------------------------
(***************************************************************************)
(* A stream of RTP packets from the packetizer (or a camera) through a     *)
(* network to RtpReceiver, its depacketizer, its pool of frame buffers and *)
(* the consumer behind the frame callback.                                 *)
(*                                                                         *)
(* Interleaved in RTSP (feed_data()) nothing is lost: these are the        *)
(* behaviours without faults.  Over UDP packets are lost, doubled and      *)
(* overtake each other.                                                    *)
(***************************************************************************)
EXTENDS Integers, FiniteSets, SequencesExt, RtpPacketizer, RtpPacket, RtpDepacketizer

CONSTANTS Codecs,             \* of "h264", "h265", "jpeg", "g711", "raw"
          Shapes,             \* [codec -> set of frames]: what frames look like
          CameraWrap,         \* what a camera puts around a payload, see Wrap
          MaxFrames,          \* bound on the frames of a behaviour
          MaxFaults,          \* bound on the faults of the network
          MaxOnWay,           \* bound on the packets under way when a frame is sent
          SeqModulus, TsModulus,      \* the widths of sequence number (2^16) and timestamp (2^32)
          TsStep,             \* from one frame to the next
          FirstSeqs, FirstTss,\* where these two begin
          MismatchThreshold,  \* kPtMismatchThreshold
          MaxPoolSize,        \* slots of the pool
          MaxHeld             \* bound on the frames the consumer holds

ASSUME ReceiverAssumption ==
  /\ MaxPoolSize \in Nat /\ MaxHeld \in Nat /\ MaxFrames \in Nat
  /\ SeqModulus \in Nat \ {0} /\ FirstSeqs \subseteq Nat
  /\ TsModulus \in Nat \ {0} /\ TsStep \in Nat \ {0} /\ FirstTss \subseteq Nat
  /\ McuSize \in Nat \ {0}
  /\ \A c \in Codecs : \A s \in Shapes[c] :
       s.nals \in Seq([type : STRING, size : Nat \ {0}]) /\ s.nals # <<>>

VARIABLES stream,     \* what is sent: codec, frames, first timestamp and sequence number
          sent,       \* frames sent so far
          origin,     \* history: the frame of each packet, by its serial number
          net,        \* packets under way, oldest first
          faults,     \* faults of the network so far
          rcv,        \* members of the RtpReceiver
          dep,        \* members of its depacketizer
          slots,      \* slots in m_frame_pool
          pass,       \* m_passthrough_buffer, 0 before the first packet
          mem,        \* what is in each buffer
          held,       \* frames the consumer holds: [buf, frame]
          delivered,  \* history: what the frame callback was given
          arrived,    \* history: the serial numbers of the packets accepted
          tabled      \* history: the frame whose quantization tables came last, 0 for none

vars ==
  <<stream, sent, origin, net, faults, rcv, dep, slots, pass, mem, held, delivered, arrived, tabled>>

Expected == 96        \* the payload type agreed on

-----------------------------------------------------------------------------
(* The sender. *)

Frame(f)     == stream.frames[f]
Timestamp(f) == (stream.ts + (f - 1) * TsStep) % TsModulus
NalsOf(f)    == [n \in DOMAIN Frame(f).nals |->
                   [id   |-> <<f, n>>,
                    type |-> Frame(f).nals[n].type, size |-> Frame(f).nals[n].size]]

Bodies(f) ==
  IF Frame(f).kind \in {"odd", "stray"}
  THEN <<[payload |-> [kind |-> Frame(f).kind], marker |-> TRUE]>>
  ELSE CASE stream.codec \in {"h264", "h265"} -> PacketizeNals(NalsOf(f))
         [] stream.codec = "jpeg" -> PacketizeJpeg(NalsOf(f)[1], Frame(f).picture)
         [] OTHER -> PacketizeChunks(NalsOf(f)[1], stream.codec = "g711")

(* write_rtp_header(): the sequence number goes on from packet to packet;  *)
(* each packet of audio has the time of its first sample.                  *)
Times(f) ==
  LET b == Bodies(f)
  IN [k \in DOMAIN b |-> Timestamp(f) + (IF "later" \in DOMAIN b[k] THEN b[k].later ELSE 0)]

Packets(f) ==
  LET b == Bodies(f)
  IN [k \in DOMAIN b |->
        [serial  |-> Len(origin) + k,
         seq     |-> (stream.seq + Len(origin) + k) % SeqModulus,
         ts      |-> Times(f)[k],
         marker  |-> b[k].marker,
         pt      |-> IF Frame(f).kind = "foreign" THEN Expected + 1 ELSE Expected,
         payload |-> b[k].payload]]

(* What a packet has besides a payload: the library's packetizers write a  *)
(* header and, if they are given one, an extension.                        *)
Wrap ==
  IF stream.codec \in {"h264", "g711", "raw"}
  THEN [csrcs |-> 0, extension |-> ExtSize > 0, words |-> ExtSize \div 4 - 1,
        padding |-> FALSE, last |-> 0]
  ELSE CameraWrap

(* A stray datagram is of another protocol.  The last byte of one without  *)
(* padding is of its payload.                                              *)
Datagram(p) ==
  [version |-> IF p.payload.kind = "stray" THEN 0 ELSE 2,
   csrcs |-> Wrap.csrcs, extension |-> Wrap.extension, words |-> Wrap.words,
   padding |-> Wrap.padding, last |-> Wrap.last,
   size |-> PayloadOffset(Wrap) + PayloadSize(p.payload)
              + (IF Wrap.padding THEN Wrap.last ELSE 0)]

SendFrame ==
  /\ sent < Len(stream.frames)
  /\ Len(net) <= MaxOnWay
  /\ sent' = sent + 1
  /\ net' = net \o Packets(sent + 1)
  /\ origin' = origin \o [k \in DOMAIN Packets(sent + 1) |-> sent + 1]
  /\ UNCHANGED <<stream, faults, rcv, dep, slots, pass, mem, held, delivered, arrived, tabled>>

-----------------------------------------------------------------------------
(* The network. *)

Fault ==
  /\ faults < MaxFaults
  /\ faults' = faults + 1
  /\ \E i \in DOMAIN net :
       \/ net' = RemoveAt(net, i)
       \/ net' = InsertAt(net, i, net[i])
       \/ i < Len(net) /\ net' = [net EXCEPT ![i] = net[i + 1], ![i + 1] = net[i]]
  /\ UNCHANGED <<stream, sent, origin, rcv, dep, slots, pass, mem, held, delivered, arrived, tabled>>

-----------------------------------------------------------------------------
(* The receiver. *)

RcvInit ==
  [begun |-> FALSE, expected |-> 0, lost |-> 0, outOfOrder |-> 0,
   foreign |-> 0, foreignTs |-> 0, foreignTold |-> FALSE]

Buffers == 1 .. MaxPoolSize + MaxHeld + 1
InUse   == {held[i].buf : i \in DOMAIN held}

(* Variant: the first slot, in use or not. *)
AcquiredInUse == 1

(* MediaFrameBufferPool::acquire(): the first slot nobody else refers to,  *)
(* else a new slot, else a buffer outside of the pool.                     *)
Acquired ==
  LET idle == (1 .. slots) \ InUse
  IN IF idle # {} THEN CHOOSE b \in idle : \A c \in idle : b <= c
     ELSE CHOOSE b \in Buffers \ (InUse \union 1 .. slots) :
            \A c \in Buffers \ (InUse \union 1 .. slots) : b <= c

SlotsAfter == IF (1 .. slots) \ InUse = {} /\ slots < MaxPoolSize THEN slots + 1 ELSE slots

(* Of a stream whose payload type is another: each new timestamp counts.   *)
CountForeign(r, ts) ==
  LET n == IF ts # r.foreignTs THEN r.foreign + 1 ELSE r.foreign
  IN [r EXCEPT !.foreign = n, !.foreignTs = ts,
               !.foreignTold = @ \/ n >= MismatchThreshold]

(* The difference of two sequence numbers as an int16_t. *)
SeqDiff(a, b) == ((a - b + SeqModulus \div 2) % SeqModulus) - SeqModulus \div 2

(* Variant: a gap counts as one packet. *)
TrackSequenceByGaps(r, seq) ==
  LET diff == SeqDiff(seq, r.expected)
  IN [r EXCEPT !.begun = TRUE, !.expected = (seq + 1) % SeqModulus,
               !.lost       = IF r.begun /\ diff > 0 THEN @ + 1 ELSE @,
               !.outOfOrder = IF r.begun /\ diff < 0 THEN @ + 1 ELSE @]

TrackSequence(r, seq) ==
  LET diff == SeqDiff(seq, r.expected)
  IN [r EXCEPT !.begun = TRUE, !.expected = (seq + 1) % SeqModulus,
               !.lost       = IF r.begun /\ diff > 0 THEN @ + diff ELSE @,
               !.outOfOrder = IF r.begun /\ diff < 0 THEN @ + 1 ELSE @]

Video == {"h264", "h265", "jpeg"}

(* The payload as the receiver sees it: whole, or with other bytes.        *)
Payload(p) ==
  LET view == ParseHeaderAndPayload(Datagram(p))
  IN  IF view = Found(PayloadOffset(Wrap), PayloadOffset(Wrap) + PayloadSize(p.payload))
      THEN p.payload ELSE [kind |-> "odd"]

ProcessPacket(p) ==
  CASE stream.codec = "h264" -> H264ProcessPacket(dep, p, Payload(p))
    [] stream.codec = "h265" -> H265ProcessPacket(dep, p, Payload(p))
    [] stream.codec = "jpeg" -> JpegProcessPacket(dep, p, Payload(p))

(* The consumer is given the frame and keeps the last few it has. *)
Deliver(buf, frame, key, ts) ==
  /\ mem' = [mem EXCEPT ![buf] = frame]
  /\ delivered' = Append(delivered, [ts |-> ts, key |-> key, frame |-> frame, tabled |-> tabled'])
  /\ \E n \in 0 .. MaxHeld :
       held' = LET all == Append(held, [buf |-> buf, frame |-> frame])
               IN IF n < Len(all) THEN SubSeq(all, Len(all) - n + 1, Len(all)) ELSE all

(* The frame of the tables that came last.  The first byte of a scan tells *)
(* whose they are.                                                         *)
LastTabled(p) ==
  IF p.kind = "jpeg" /\ p.offset = 0 /\ p.tables # <<>> THEN p.scan[1][1][1] ELSE tabled

(* With a depacketizer each packet gets a buffer, which goes back to the   *)
(* pool when the packet completes no frame.                                *)
Depacketize(p) ==
  LET r == ProcessPacket(p)
  IN /\ dep' = r.d
     /\ tabled' = IF stream.codec = "jpeg" THEN LastTabled(Payload(p)) ELSE tabled
     /\ slots' = SlotsAfter
     /\ IF r.done THEN Deliver(Acquired, r.frame, r.key, p.ts)
        ELSE mem' = [mem EXCEPT ![Acquired] = <<>>] /\ UNCHANGED <<held, delivered>>
     /\ UNCHANGED pass

(* Without one each packet is a frame, and all are given in one buffer.    *)
PassThrough(p) ==
  /\ UNCHANGED <<dep, tabled>>
  /\ pass' = IF pass = 0 THEN Acquired ELSE pass
  /\ slots' = IF pass = 0 THEN SlotsAfter ELSE slots
  /\ Deliver(pass', <<Payload(p).piece>>, FALSE, p.ts)

(* handle_rtp_packet(): nothing in it waits.  What is no RTP packet is     *)
(* dropped and not counted.                                                *)
HandleRtpPacket ==
  /\ net # <<>>
  /\ net' = Tail(net)
  /\ LET p == Head(net) IN
       IF ~ParseHeaderAndPayload(Datagram(p)).ok
       THEN UNCHANGED <<rcv, dep, slots, pass, mem, held, delivered, arrived, tabled>>
       ELSE IF p.pt # Expected
       THEN /\ rcv' = CountForeign(rcv, p.ts)
            /\ UNCHANGED <<dep, slots, pass, mem, held, delivered, arrived, tabled>>
       ELSE /\ rcv' = TrackSequence(rcv, p.seq)
            /\ arrived' = Append(arrived, p.serial)
            /\ IF stream.codec \in Video THEN Depacketize(p) ELSE PassThrough(p)
  /\ UNCHANGED <<stream, sent, origin, faults>>

Init ==
  /\ stream \in UNION {[codec : {c}, frames : [1 .. MaxFrames -> Shapes[c]],
                        ts : FirstTss, seq : FirstSeqs] : c \in Codecs}
  /\ sent = 0 /\ origin = <<>> /\ net = <<>> /\ faults = 0
  /\ rcv = RcvInit
  /\ dep = IF stream.codec = "jpeg" THEN JpegInit ELSE NalInit
  /\ slots = 0 /\ pass = 0 /\ mem = [b \in Buffers |-> <<>>] /\ held = <<>>
  /\ delivered = <<>> /\ arrived = <<>> /\ tabled = 0

Next == SendFrame \/ Fault \/ HandleRtpPacket

Spec == Init /\ [][Next]_vars

-----------------------------------------------------------------------------
(* What a frame should come out as. *)

(* The bytes of a frame, whatever pieces they came in. *)
Bytes(frame) ==
  FlattenSeq([i \in DOMAIN frame |->
                [k \in 1 .. frame[i].to - frame[i].from + 1 |->
                   <<frame[i].nal, frame[i].from + k - 1>>]])

Content(frame) == IF stream.codec = "jpeg" THEN frame ELSE Bytes(frame)

WholeNals(f) == [n \in DOMAIN NalsOf(f) |-> Piece(NalsOf(f)[n], 1, NalsOf(f)[n].size)]

KeyTypes == CASE stream.codec = "h264" -> {"idr"}
              [] stream.codec = "h265" -> {"idr", "param"}
              [] OTHER -> {}
HasKey(f) == stream.codec = "jpeg" \/ \E n \in DOMAIN NalsOf(f) : NalsOf(f)[n].type \in KeyTypes

(* The head of a picture: its tables, sampling and interval. *)
PictureHead(f) ==
  LET p == Frame(f).picture
  IN [dqt  |-> CASE p.tables = <<>>      -> DefaultQuantTables(p.q)
                 [] Len(p.tables) = 1  -> <<p.tables[1], p.tables[1]>>
                 [] OTHER              -> p.tables,
      sof0 |-> p.sampling, dri |-> p.interval]

(* A picture's tables come with it or, when the camera leaves them out,    *)
(* with the last picture g that had tables, if it is of the same quality.  *)
HasTables(f, g) ==
  LET p == Frame(f).picture
  IN p.sends \/ p.tables = <<>> \/ (g # 0 /\ Frame(g).picture.q = p.q)

(* The head it should have when the last tables were those of g: a         *)
(* receiver that does not have its tables takes the standard ones.         *)
HeadAfter(f, g) ==
  IF HasTables(f, g) THEN PictureHead(f)
  ELSE [PictureHead(f) EXCEPT !.dqt = DefaultQuantTables(Frame(f).picture.q)]

PictureByte(f, k) == <<NalsOf(f)[1].id, k, Frame(f).picture.sampling>>

Whole(f, g) ==
  IF stream.codec = "jpeg"
  THEN <<HeadAfter(f, g)>> \o [k \in 1 .. NalsOf(f)[1].size |-> PictureByte(f, k)]
  ELSE Bytes(WholeNals(f))

(* The last frame up to f to come with tables. *)
TablesBy(f) ==
  LET with == {g \in 1 .. f : /\ stream.codec = "jpeg" /\ Frame(g).kind = "good"
                             /\ Frame(g).picture.sends /\ Frame(g).picture.tables # <<>>}
  IN CHOOSE g \in with \union {0} : \A h \in with : h <= g

(* Audio is given out packet by packet, each with the time of its samples. *)
Outputs(f) ==
  IF Frame(f).kind # "good" THEN <<>>
  ELSE IF stream.codec \in {"g711", "raw"}
  THEN LET b == Bodies(f)
       IN [k \in DOMAIN b |-> [ts |-> Timestamp(f) + b[k].later, key |-> FALSE,
                               content |-> Bytes(<<b[k].payload.piece>>)]]
  ELSE <<[ts |-> Timestamp(f), key |-> HasKey(f), content |-> Whole(f, TablesBy(f))]>>

AsDelivered == [i \in DOMAIN delivered |->
                  [ts |-> delivered[i].ts, key |-> delivered[i].key,
                   content |-> Content(delivered[i].frame)]]

(***************************************************************************)
(* LosslessIsExact: without faults of the network the consumer is given    *)
(* the frames that were sent, each whole, once, in order, with its own     *)
(* timestamp and keyframe mark, and none is left behind in the             *)
(* depacketizer.  This is what packetizers and depacketizers are for:      *)
(* either one may be wrong about fragments, aggregates or markers.         *)
(***************************************************************************)
LosslessIsExact ==
  faults = 0 =>
    LET all == FlattenSeq([f \in 1 .. sent |-> Outputs(f)])
    IN /\ IsPrefix(AsDelivered, all)
       /\ net = <<>> => AsDelivered = all

(***************************************************************************)
(* WholeAfterLoss: whatever became of the packets before, a frame whose    *)
(* own packets all come, in order and with nothing between them, comes out *)
(* whole and once (with the packet after it at the latest), and is marked  *)
(* as a keyframe if it is one.  It fails behind a timestamp of zero, which *)
(* process_packet() takes for "no packet yet".                             *)
(***************************************************************************)
SerialsOf(f) == SelectSeq([s \in DOMAIN origin |-> s], LAMBDA s : origin[s] = f)
CameInOrder(f) ==
  \E i \in 1 .. Len(arrived) :
    /\ i + Len(SerialsOf(f)) <= Len(arrived)
    /\ SubSeq(arrived, i, i + Len(SerialsOf(f)) - 1) = SerialsOf(f)
    /\ i > 1 => Timestamp(origin[arrived[i - 1]]) # 0
CameOnce(f) == Len(SelectSeq(arrived, LAMBDA s : origin[s] = f)) = Len(SerialsOf(f))

WholeAfterLoss ==
  stream.codec \in Video =>
    \A f \in 1 .. sent :
      Frame(f).kind = "good" /\ CameInOrder(f) /\ CameOnce(f) =>
        LET whole == {i \in DOMAIN delivered :
                        Content(delivered[i].frame) = Whole(f, delivered[i].tabled)}
        IN /\ Cardinality(whole) = 1
           /\ \A i \in whole : HasKey(f) => delivered[i].key

(* No two frames have the same timestamp. *)
StampsDiffer == MaxFrames * TsStep <= TsModulus

(* The sampling is that of the type or, for the two types that cameras mix *)
(* up, shows in the first packet.                                          *)
SamplingShows(p, size) ==
  IF p.type % 64 > 1 THEN p.sampling = WriteSof0(p.type)
  ELSE \/ p.sampling = "422"
       \/ p.sampling = "420" /\ Smaller(ChunkLimit, size) >= McuSize

(* Cameras that keep to RFC 2435: the pictures of a quality all have       *)
(* tables of their own, two at most, or none has; they all have the same   *)
(* if one of them is sent without; and there is no interval without        *)
(* restart markers.                                                        *)
PicturesByRfc ==
  LET good == {s \in Shapes["jpeg"] : s.kind = "good"}
  IN "jpeg" \in Codecs =>
       /\ \A s \in Shapes["jpeg"] : s.kind \in {"good", "odd", "stray", "foreign"}
       /\ \A s \in good :
            LET p == s.picture
            IN /\ p.type \in Nat /\ p.q # Sizeless /\ p.sends \in BOOLEAN
               /\ p.tables \in Seq(ToSet(p.tables)) /\ Len(p.tables) <= 2
               /\ p.type < 64 => p.interval = 0
               /\ SamplingShows(p, s.nals[1].size)
       /\ \A s, t \in good :
            s.picture.q = t.picture.q =>
              /\ s.picture.tables = <<>> <=> t.picture.tables = <<>>
              /\ ~s.picture.sends => s.picture.tables = t.picture.tables

(***************************************************************************)
(* JpegUnmixed: a JPEG picture is of one frame, whatever was lost, doubled *)
(* or overtaken: its scan data are in their place, with zero for what is   *)
(* missing, and its tables, sampling and restart interval are those of the *)
(* same frame, although the depacketizer keeps tables, sampling and the    *)
(* interval from packet to packet and from picture to picture.  Tables the *)
(* camera left out are those of its quality that came last, and of no      *)
(* other quality.  (Joining NAL fragments gives no such assurance.)  Again *)
(* not behind a timestamp of zero, and for a camera that keeps to its      *)
(* sampling and to restart markers or none.                                *)
(***************************************************************************)
Pictures == {Frame(f).picture : f \in {g \in DOMAIN stream.frames : Frame(g).kind = "good"}}
Steady   == /\ Cardinality({p.sampling : p \in Pictures}) <= 1
            /\ Cardinality({RestartBits(p.type) : p \in Pictures}) <= 1

JpegUnmixed ==
  stream.codec = "jpeg" /\ (\A f \in DOMAIN stream.frames : Timestamp(f) # 0) /\ Steady =>
    \A i \in DOMAIN delivered :
      LET scan == Tail(delivered[i].frame)
      IN \E f \in {g \in 1 .. sent : Frame(g).kind = "good"} :
           /\ Head(delivered[i].frame) = HeadAfter(f, delivered[i].tabled)
           /\ \A k \in DOMAIN scan : scan[k] \in {Gap, PictureByte(f, k)}

(* No packet is accepted further from the one before than an int16_t of    *)
(* the difference tells.                                                   *)
InReach ==
  \A i \in 1 .. Len(arrived) - 1 :
    arrived[i + 1] - arrived[i] \in 1 - (SeqModulus \div 2) .. SeqModulus \div 2

(***************************************************************************)
(* LossNotUnderstated: packets_lost counts at least the packets between    *)
(* the first and the last accepted one that did not come, also when        *)
(* packets overtake each other and numbers wrap.  (It may count too many:  *)
(* a late packet moves the expected number back.)                          *)
(***************************************************************************)
LossNotUnderstated ==
  arrived # <<>> =>
    LET came == ToSet(arrived)
        last == CHOOSE s \in came : \A t \in came : t <= s
    IN rcv.lost >= Cardinality((arrived[1] .. last) \ came)

(***************************************************************************)
(* HeldFramesStable: what the consumer of a video stream holds is not      *)
(* written to while packets go on coming, although buffers are used again  *)
(* and again.  (It does not hold of audio, which has no depacketizer: all  *)
(* its packets are given out in one buffer.)                               *)
(***************************************************************************)
HeldFramesStable == stream.codec \in Video => \A i \in DOMAIN held : mem[held[i].buf] = held[i].frame
==============================================================================
