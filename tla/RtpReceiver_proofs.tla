-------------------------- MODULE RtpReceiver_proofs --------------------------
(***************************************************************************)
(* Proofs about RtpReceiver, RtpPacket and RtpJpegDepacketizer: the payload *)
(* of a packet is found whatever its sender puts around it, a frame that a  *)
(* consumer holds is not written to, losses are not understated, and a JPEG *)
(* picture that comes out is of one frame, for pools, streams and pictures  *)
(* of any size and any number of faults of the network.                     *)
(***************************************************************************)
EXTENDS RtpReceiver, FiniteSetTheorems, FunctionTheorems, TLAPS

-----------------------------------------------------------------------------
(* Datagrams. *)

\* What a sender can put around a payload of n bytes.
Written(d, n) ==
  /\ d.version = 2 /\ d.csrcs \in Nat /\ d.extension \in BOOLEAN
  /\ d.extension => d.words \in Nat
  /\ d.padding \in BOOLEAN /\ (d.padding => d.last \in Nat /\ d.last > 0)
  /\ n \in Nat
  /\ d.size = PayloadOffset(d) + n + (IF d.padding THEN d.last ELSE 0)

LEMMA OffsetIsBehindHeader ==
  ASSUME NEW d, d.csrcs \in Nat, d.extension \in BOOLEAN, d.extension => d.words \in Nat
  PROVE  PayloadOffset(d) \in Nat /\ PayloadOffset(d) >= MinHeaderSize
<1>1. CASE d.extension
  BY <1>1 DEF PayloadOffset, MinHeaderSize
<1>2. CASE ~d.extension
  BY <1>2 DEF PayloadOffset, MinHeaderSize
<1> QED BY <1>1, <1>2

(***************************************************************************)
(* PayloadFound: of every packet that a sender wrote by RFC 3550, with any *)
(* sources, extension and padding, the receiver takes just the payload.    *)
(***************************************************************************)
THEOREM PayloadFound ==
  ASSUME NEW d, NEW n, Written(d, n)
  PROVE  ParseHeaderAndPayload(d) = Found(PayloadOffset(d), PayloadOffset(d) + n)
<1> DEFINE offset == PayloadOffset(d)
<1>1. offset \in Nat /\ offset >= 12
  BY OffsetIsBehindHeader DEF Written, MinHeaderSize
<1> HIDE DEF offset
<1>2. /\ d.version = 2 /\ n \in Nat
      /\ d.padding => d.last \in Nat /\ d.last > 0
      /\ d.size = offset + n + (IF d.padding THEN d.last ELSE 0)
  BY DEF Written, offset
<1>3. ParseHeaderAndPayload(d) =
        CASE d.size < 12 -> Refused("packet_too_short")
          [] d.size >= 12 /\ d.version # 2 -> Refused("invalid_version")
          [] d.size >= 12 /\ d.version = 2 ->
               IF d.size < offset THEN Refused("packet_too_short")
               ELSE IF ~d.padding THEN Found(offset, d.size)
               ELSE IF d.last = 0 \/ d.last > d.size - offset THEN Refused("invalid_header")
               ELSE Found(offset, d.size - d.last)
  BY DEF ParseHeaderAndPayload, MinHeaderSize, offset
<1>4. ParseHeaderAndPayload(d) = Found(offset, offset + n)
  <2>1. CASE d.padding
    <3>1. /\ d.size >= 12 /\ ~(d.size < 12) /\ ~(d.size < offset)
          /\ ~(d.last = 0 \/ d.last > d.size - offset)
          /\ d.size - d.last = offset + n
      BY <1>1, <1>2, <2>1
    <3> QED BY <1>2, <1>3, <2>1, <3>1
  <2>2. CASE ~d.padding
    <3>1. /\ d.size >= 12 /\ ~(d.size < 12) /\ ~(d.size < offset)
          /\ d.size = offset + n
      BY <1>1, <1>2, <2>2
    <3> QED BY <1>2, <1>3, <2>2, <3>1
  <2> QED BY <2>1, <2>2
<1> QED BY <1>4 DEF offset

(***************************************************************************)
(* PayloadInside: what is taken from any datagram, written by whom ever,   *)
(* lies inside of it.                                                      *)
(***************************************************************************)
THEOREM PayloadInside ==
  ASSUME NEW d, d.size \in Nat, d.csrcs \in Nat, d.extension \in BOOLEAN,
         d.extension => d.words \in Nat, d.padding \in BOOLEAN, d.last \in Nat,
         ParseHeaderAndPayload(d).ok
  PROVE  LET view == ParseHeaderAndPayload(d)
         IN  /\ MinHeaderSize <= view.from
             /\ view.from <= view.to
             /\ view.to <= d.size
<1> DEFINE offset == PayloadOffset(d)
<1>1. offset \in Nat /\ offset >= 12
  BY OffsetIsBehindHeader DEF MinHeaderSize
<1> HIDE DEF offset
<1>2. ParseHeaderAndPayload(d) =
        CASE d.size < 12 -> Refused("packet_too_short")
          [] d.size >= 12 /\ d.version # 2 -> Refused("invalid_version")
          [] d.size >= 12 /\ d.version = 2 ->
               IF d.size < offset THEN Refused("packet_too_short")
               ELSE IF ~d.padding THEN Found(offset, d.size)
               ELSE IF d.last = 0 \/ d.last > d.size - offset THEN Refused("invalid_header")
               ELSE Found(offset, d.size - d.last)
  BY DEF ParseHeaderAndPayload, MinHeaderSize, offset
<1>3. \A e : ~Refused(e).ok
  BY DEF Refused
<1>4. /\ d.size >= 12 /\ ~(d.size < 12) /\ d.version = 2 /\ ~(d.size < offset)
      /\ d.padding => ~(d.last = 0 \/ d.last > d.size - offset)
  BY <1>1, <1>2, <1>3
<1>5. CASE d.padding
  <2>1. ParseHeaderAndPayload(d) = Found(offset, d.size - d.last)
    BY <1>2, <1>4, <1>5
  <2>2. offset <= d.size - d.last /\ d.size - d.last <= d.size
    BY <1>1, <1>4, <1>5
  <2> QED BY <1>1, <2>1, <2>2 DEF Found, MinHeaderSize
<1>6. CASE ~d.padding
  <2>1. ParseHeaderAndPayload(d) = Found(offset, d.size)
    BY <1>2, <1>4, <1>6
  <2>2. offset <= d.size
    BY <1>1, <1>4
  <2> QED BY <1>1, <2>1, <2>2 DEF Found, MinHeaderSize
<1> QED BY <1>5, <1>6

-----------------------------------------------------------------------------
(* The pool. *)

\* A set of numbers that is not empty has a least one.
LEMMA LeastNumber ==
  ASSUME NEW S, S \subseteq Nat, S # {}
  PROVE  \E b \in S : \A c \in S : b <= c
<1>1. PICK b \in S : \A c \in S : <<c, b>> \notin OpToRel(<, Nat)
  BY WFMin, NatLessThanWellFounded, Zenon
<1>2. ASSUME NEW c \in S PROVE ~(c < b)
  BY <1>1, Zenon DEF OpToRel
<1>3. ASSUME NEW c \in S PROVE b <= c
  <2>1. b \in Nat /\ c \in Nat OBVIOUS
  <2> QED BY <1>2, <2>1
<1> QED BY <1>3

LEMMA Numbered ==
  ASSUME NEW n \in Nat
  PROVE  IsFiniteSet(1 .. n) /\ Cardinality(1 .. n) = n
BY FS_Interval

(***************************************************************************)
(* What has to hold for the frames to stay: there are never more of them   *)
(* than the consumer may hold, nor more slots than the pool may have, so   *)
(* that there is always a buffer that nobody refers to.                    *)
(***************************************************************************)
PoolInv ==
  /\ slots \in 0 .. MaxPoolSize
  /\ DOMAIN mem = Buffers
  /\ \E S : held \in Seq(S)
  /\ Len(held) <= MaxHeld
  /\ \A i \in 1 .. Len(held) : /\ held[i].buf \in Buffers
                               /\ mem[held[i].buf] = held[i].frame

LEMMA InUseIsFew ==
  ASSUME PoolInv
  PROVE  /\ IsFiniteSet(InUse) /\ Cardinality(InUse) <= MaxHeld
         /\ InUse \subseteq Buffers
<1>1. PICK S : held \in Seq(S)
  BY DEF PoolInv
<1>2. Len(held) \in Nat /\ DOMAIN held = 1 .. Len(held)
  BY <1>1
<1> DEFINE f == [i \in 1 .. Len(held) |-> held[i].buf]
<1>3. f \in Surjection(1 .. Len(held), InUse)
  BY <1>2 DEF Surjection, InUse
<1>4. IsFiniteSet(1 .. Len(held)) /\ Cardinality(1 .. Len(held)) = Len(held)
  BY <1>2, Numbered
<1>5. IsFiniteSet(InUse) /\ Cardinality(InUse) <= Len(held)
  BY <1>3, <1>4, FS_Surjection
<1>6. Cardinality(InUse) \in Nat
  BY <1>5, FS_CardinalityType
<1> QED BY <1>2, <1>5, <1>6, ReceiverAssumption DEF PoolInv, InUse

LEMMA AcquiredIsFree ==
  ASSUME PoolInv
  PROVE  Acquired \in Buffers /\ Acquired \notin InUse
<1> DEFINE idle == (1 .. slots) \ InUse
           rest == Buffers \ (InUse \union 1 .. slots)
<1>1. Buffers \subseteq Nat /\ slots \in Nat /\ 1 .. slots \subseteq Buffers
  BY ReceiverAssumption DEF PoolInv, Buffers
<1>2. CASE idle # {}
  <2>1. \E b \in idle : \A c \in idle : b <= c
    BY <1>1, <1>2, LeastNumber
  <2>2. Acquired = CHOOSE b \in idle : \A c \in idle : b <= c
    BY <1>2 DEF Acquired
  <2>3. Acquired \in idle
    BY <2>1, <2>2
  <2> QED BY <1>1, <2>3
<1>3. CASE idle = {}
  <2>1. IsFiniteSet(1 .. slots) /\ Cardinality(1 .. slots) = slots
    BY <1>1, FS_Interval
  <2>2. /\ IsFiniteSet(InUse \union 1 .. slots)
        /\ Cardinality(InUse \union 1 .. slots) =
             Cardinality(InUse) + Cardinality(1 .. slots) - Cardinality(InUse \cap 1 .. slots)
    BY <2>1, InUseIsFew, FS_Union
  <2>3. IsFiniteSet(InUse \cap 1 .. slots)
    BY <2>1, FS_Subset
  <2>4. /\ Cardinality(InUse) \in Nat /\ Cardinality(InUse \cap 1 .. slots) \in Nat
        /\ Cardinality(InUse \union 1 .. slots) \in Nat
    BY <2>2, <2>3, InUseIsFew, FS_CardinalityType
  <2>5. Cardinality(InUse \union 1 .. slots) <= MaxHeld + MaxPoolSize
    BY <1>1, <2>1, <2>2, <2>4, InUseIsFew, ReceiverAssumption DEF PoolInv
  <2>6. Cardinality(Buffers) = MaxPoolSize + MaxHeld + 1
    BY ReceiverAssumption, FS_Interval DEF Buffers
  <2>7. ~(Buffers \subseteq InUse \union 1 .. slots)
    <3> SUFFICES ASSUME Buffers \subseteq InUse \union 1 .. slots PROVE FALSE
      OBVIOUS
    <3>1. Cardinality(Buffers) <= Cardinality(InUse \union 1 .. slots)
      BY <2>2, FS_Subset
    <3> QED BY <2>4, <2>5, <2>6, <3>1, ReceiverAssumption
  <2>8. rest # {} /\ rest \subseteq Nat
    BY <1>1, <2>7
  <2>9. \E b \in rest : \A c \in rest : b <= c
    BY <2>8, LeastNumber
  <2>10. Acquired = CHOOSE b \in rest : \A c \in rest : b <= c
    BY <1>3 DEF Acquired
  <2>11. Acquired \in rest
    BY <2>9, <2>10
  <2> QED BY <2>11
<1> QED BY <1>2, <1>3

LEMMA SlotsStayFew ==
  ASSUME PoolInv PROVE SlotsAfter \in 0 .. MaxPoolSize
BY ReceiverAssumption DEF PoolInv, SlotsAfter

\* What is in a buffer changes only when nobody holds it.
LEMMA HeldUndisturbed ==
  ASSUME PoolInv, NEW x
  PROVE  LET now == [mem EXCEPT ![Acquired] = x]
         IN  /\ DOMAIN now = Buffers
             /\ now[Acquired] = x
             /\ \A i \in 1 .. Len(held) : now[held[i].buf] = held[i].frame
<1>1. PICK S : held \in Seq(S)
  BY DEF PoolInv
<1>2. \A i \in 1 .. Len(held) : held[i].buf \in InUse /\ held[i].buf \in Buffers
  BY <1>1 DEF PoolInv, InUse
<1> QED BY <1>2, AcquiredIsFree DEF PoolInv

\* The frame callback, given a frame in the buffer that was acquired.
LEMMA DeliverKeepsPool ==
  ASSUME PoolInv, NEW frame, NEW key, NEW ts, Deliver(Acquired, frame, key, ts),
         slots' = SlotsAfter
  PROVE  PoolInv'
<1> DEFINE e == [buf |-> Acquired, frame |-> frame]
           all == Append(held, e)
<1>1. PICK S : held \in Seq(S)
  BY DEF PoolInv
<1>2. all \in Seq(S \union {e}) /\ Len(all) = Len(held) + 1 /\ Len(held) \in Nat
  BY <1>1
<1>3. mem' = [mem EXCEPT ![Acquired] = frame]
  BY DEF Deliver
<1>4. \A i \in 1 .. Len(all) : all[i].buf \in Buffers /\ mem'[all[i].buf] = all[i].frame
  <2> TAKE i \in 1 .. Len(all)
  <2>1. CASE i = Len(held) + 1
    <3>1. all[i] = e
      BY <1>1, <1>2, <2>1
    <3> QED BY <1>3, <3>1, AcquiredIsFree, HeldUndisturbed
  <2>2. CASE i \in 1 .. Len(held)
    <3>1. all[i] = held[i]
      BY <1>1, <2>2
    <3> QED BY <1>3, <2>2, <3>1, HeldUndisturbed DEF PoolInv
  <2> QED BY <1>2, <2>1, <2>2
<1>5. DOMAIN mem' = Buffers
  BY <1>3, HeldUndisturbed
<1>6. slots' \in 0 .. MaxPoolSize
  BY SlotsStayFew
<1>7. PICK n \in 0 .. MaxHeld :
        held' = IF n < Len(all) THEN SubSeq(all, Len(all) - n + 1, Len(all)) ELSE all
  BY DEF Deliver
<1> HIDE DEF all
<1>8. CASE n < Len(all)
  <2>1. held' = SubSeq(all, Len(all) - n + 1, Len(all))
    BY <1>7, <1>8
  <2>2. /\ held' \in Seq(S \union {e}) /\ Len(held') = n
        /\ \A i \in 1 .. n : held'[i] = all[Len(all) - n + i]
    BY <1>2, <1>8, <2>1, ReceiverAssumption
  <2>3. \A i \in 1 .. n : Len(all) - n + i \in 1 .. Len(all)
    BY <1>2, <1>8, ReceiverAssumption
  <2>4. \A i \in 1 .. Len(held') : held'[i].buf \in Buffers /\ mem'[held'[i].buf] = held'[i].frame
    BY <1>4, <2>2, <2>3
  <2>5. Len(held') <= MaxHeld
    BY <2>2, ReceiverAssumption
  <2>6. \E T : held' \in Seq(T)
    BY <2>2
  <2> QED BY <1>5, <1>6, <2>4, <2>5, <2>6 DEF PoolInv, Buffers
<1>9. CASE ~(n < Len(all))
  <2>1. held' = all
    BY <1>7, <1>9
  <2>2. Len(held') <= MaxHeld
    BY <1>2, <1>9, <2>1, ReceiverAssumption
  <2>3. \E T : held' \in Seq(T)
    BY <1>2, <2>1
  <2> QED BY <1>4, <1>5, <1>6, <2>1, <2>2, <2>3 DEF PoolInv, Buffers
<1> QED BY <1>8, <1>9

LEMMA DepacketizeKeepsPool ==
  ASSUME PoolInv, NEW p, Depacketize(p)
  PROVE  PoolInv'
<1> DEFINE r == ProcessPacket(p)
<1>1. slots' = SlotsAfter
  BY DEF Depacketize
<1>2. CASE r.done
  <2>1. Deliver(Acquired, r.frame, r.key, p.ts)
    BY <1>2 DEF Depacketize
  <2> QED BY <1>1, <2>1, DeliverKeepsPool
<1>3. CASE ~r.done
  <2>1. mem' = [mem EXCEPT ![Acquired] = <<>>] /\ held' = held
    BY <1>3 DEF Depacketize
  <2>2. /\ DOMAIN mem' = Buffers
        /\ \A i \in 1 .. Len(held) : mem'[held[i].buf] = held[i].frame
    BY <2>1, HeldUndisturbed
  <2>3. slots' \in 0 .. MaxPoolSize
    BY <1>1, SlotsStayFew
  <2> QED BY <2>1, <2>2, <2>3 DEF PoolInv, Buffers
<1> QED BY <1>2, <1>3

\* What the proof is about: the pool is used by video streams only.
VideoPool == stream.codec \in Video => PoolInv

LEMMA VideoPoolInit == Init => VideoPool
<1> SUFFICES ASSUME Init PROVE PoolInv
  BY DEF VideoPool
<1>1. slots = 0 /\ held = <<>> /\ mem = [b \in Buffers |-> <<>>]
  BY DEF Init
<1>2. held \in Seq({}) /\ Len(held) = 0
  BY <1>1
<1> QED BY <1>1, <1>2, ReceiverAssumption DEF PoolInv

LEMMA VideoPoolNext == VideoPool /\ [Next]_vars => VideoPool'
<1> SUFFICES ASSUME VideoPool, [Next]_vars PROVE VideoPool'
  OBVIOUS
<1>1. CASE SendFrame
  BY <1>1 DEF SendFrame, VideoPool, PoolInv, Buffers
<1>2. CASE Fault
  BY <1>2 DEF Fault, VideoPool, PoolInv, Buffers
<1>3. CASE HandleRtpPacket
  <2> DEFINE p == Head(net)
  <2>1. stream' = stream
    BY <1>3 DEF HandleRtpPacket
  <2>2. CASE ~ParseHeaderAndPayload(Datagram(p)).ok \/ p.pt # Expected
    <3>1. UNCHANGED <<slots, mem, held>>
      BY <1>3, <2>2 DEF HandleRtpPacket
    <3> QED BY <2>1, <3>1 DEF VideoPool, PoolInv, Buffers
  <2>3. CASE ParseHeaderAndPayload(Datagram(p)).ok /\ p.pt = Expected
    <3>1. IF stream.codec \in Video THEN Depacketize(p) ELSE PassThrough(p)
      BY <1>3, <2>3 DEF HandleRtpPacket
    <3>2. stream.codec \in Video => PoolInv'
      BY <3>1, DepacketizeKeepsPool DEF VideoPool
    <3> QED BY <2>1, <3>2 DEF VideoPool
  <2> QED BY <2>2, <2>3
<1>4. CASE UNCHANGED vars
  BY <1>4 DEF vars, VideoPool, PoolInv, Buffers
<1> QED BY <1>1, <1>2, <1>3, <1>4 DEF Next

(***************************************************************************)
(* HeldFramesAreStable: no step of the receiver writes to a frame of a     *)
(* video stream that the consumer holds (HeldFramesStable), for a pool of  *)
(* any size, any stream, and whatever the network loses, doubles or        *)
(* reorders.                                                               *)
(***************************************************************************)
THEOREM HeldFramesAreStable == Spec => []HeldFramesStable
<1>1. VideoPool => HeldFramesStable
  <2> SUFFICES ASSUME VideoPool, stream.codec \in Video
               PROVE  \A i \in DOMAIN held : mem[held[i].buf] = held[i].frame
    BY DEF HeldFramesStable
  <2>1. PICK S : held \in Seq(S)
    BY DEF VideoPool, PoolInv
  <2> QED BY <2>1 DEF VideoPool, PoolInv
<1> QED BY <1>1, VideoPoolInit, VideoPoolNext, PTL DEF Spec

-----------------------------------------------------------------------------
(* Sequences of whatever. *)

IsSequence(s) == \E S : s \in Seq(S)

LEMMA SequenceLength ==
  ASSUME NEW s, IsSequence(s)
  PROVE  Len(s) \in Nat /\ DOMAIN s = 1 .. Len(s)
BY DEF IsSequence

LEMMA EmptySequence == IsSequence(<<>>) /\ Len(<<>>) = 0
<1>1. <<>> \in Seq({})
  OBVIOUS
<1> QED BY <1>1 DEF IsSequence

LEMMA SequenceEmpty ==
  ASSUME NEW s, IsSequence(s)
  PROVE  s = <<>> <=> Len(s) = 0
BY DEF IsSequence

LEMMA JoinedSequence ==
  ASSUME NEW s, NEW t, IsSequence(s), IsSequence(t)
  PROVE  /\ IsSequence(s \o t)
         /\ Len(s \o t) = Len(s) + Len(t)
         /\ \A i \in 1 .. Len(s) : (s \o t)[i] = s[i]
         /\ \A i \in 1 .. Len(t) : (s \o t)[Len(s) + i] = t[i]
         /\ \A i \in 1 .. Len(s \o t) :
              i \in 1 .. Len(s) \/ \E j \in 1 .. Len(t) : i = Len(s) + j
<1>1. PICK S, T : s \in Seq(S) /\ t \in Seq(T)
  BY DEF IsSequence
<1>2. s \in Seq(S \union T) /\ t \in Seq(S \union T)
  BY <1>1
<1> DEFINE U == S \union T
<1>3. s \in Seq(U) /\ t \in Seq(U)
  BY <1>2
<1> HIDE DEF U
<1>4. /\ s \o t \in Seq(U) /\ Len(s \o t) = Len(s) + Len(t)
      /\ Len(s) \in Nat /\ Len(t) \in Nat
  BY <1>3
<1>5. \A i \in 1 .. Len(s) : (s \o t)[i] = s[i]
  BY <1>3
<1>6. \A i \in 1 .. Len(t) : (s \o t)[Len(s) + i] = t[i]
  BY <1>3
<1>7. ASSUME NEW i \in 1 .. Len(s \o t), i \notin 1 .. Len(s)
      PROVE  \E j \in 1 .. Len(t) : i = Len(s) + j
  <2>1. i - Len(s) \in 1 .. Len(t) /\ i = Len(s) + (i - Len(s))
    BY <1>4, <1>7
  <2> QED BY <2>1
<1> QED BY <1>4, <1>5, <1>6, <1>7 DEF IsSequence

LEMMA AppendedSequence ==
  ASSUME NEW s, NEW x, IsSequence(s)
  PROVE  /\ IsSequence(Append(s, x))
         /\ Len(Append(s, x)) = Len(s) + 1
         /\ \A i \in 1 .. Len(s) : Append(s, x)[i] = s[i]
         /\ Append(s, x)[Len(s) + 1] = x
<1>1. PICK S : s \in Seq(S)
  BY DEF IsSequence
<1> DEFINE U == S \union {x}
<1>2. s \in Seq(U) /\ x \in U
  BY <1>1
<1> HIDE DEF U
<1>3. Append(s, x) \in Seq(U) /\ Len(Append(s, x)) = Len(s) + 1
  BY <1>2
<1>4. \A i \in 1 .. Len(s) : Append(s, x)[i] = s[i]
  BY <1>2
<1>5. Append(s, x)[Len(s) + 1] = x
  BY <1>2
<1> QED BY <1>3, <1>4, <1>5 DEF IsSequence

LEMMA PieceOfSequence ==
  ASSUME NEW s, NEW m \in Nat, NEW n \in Nat, IsSequence(s), m <= n, n <= Len(s)
  PROVE  /\ IsSequence(SubSeq(s, m + 1, n))
         /\ Len(SubSeq(s, m + 1, n)) = n - m
         /\ \A i \in 1 .. n - m : SubSeq(s, m + 1, n)[i] = s[m + i]
<1>1. PICK S : s \in Seq(S)
  BY DEF IsSequence
<1>2. SubSeq(s, m + 1, n) \in Seq(S) /\ Len(SubSeq(s, m + 1, n)) = n - m
  BY <1>1
<1>3. \A i \in 1 .. n - m : SubSeq(s, m + 1, n)[i] = s[m + i]
  BY <1>1
<1> QED BY <1>2, <1>3 DEF IsSequence

LEMMA TailOfSequence ==
  ASSUME NEW s, IsSequence(s), s # <<>>
  PROVE  /\ IsSequence(Tail(s)) /\ Len(Tail(s)) = Len(s) - 1
         /\ Len(s) > 0 /\ Head(s) = s[1]
         /\ \A i \in 1 .. Len(Tail(s)) : i + 1 \in 1 .. Len(s) /\ Tail(s)[i] = s[i + 1]
<1>1. PICK S : s \in Seq(S)
  BY DEF IsSequence
<1>2. Tail(s) \in Seq(S) /\ Len(Tail(s)) = Len(s) - 1 /\ Len(s) > 0 /\ Len(s) \in Nat
  BY <1>1
<1>3. \A i \in 1 .. Len(Tail(s)) : Tail(s)[i] = s[i + 1]
  BY <1>1, <1>2
<1>4. \A i \in 1 .. Len(Tail(s)) : i + 1 \in 1 .. Len(s)
  BY <1>2
<1> QED BY <1>1, <1>2, <1>3, <1>4 DEF IsSequence

\* What is left of a sequence without its i-th element.
LEMMA RemovedFromSequence ==
  ASSUME NEW s, IsSequence(s), NEW i \in 1 .. Len(s)
  PROVE  /\ IsSequence(RemoveAt(s, i))
         /\ Len(RemoveAt(s, i)) = Len(s) - 1
         /\ \A j \in 1 .. Len(s) - 1 :
              RemoveAt(s, i)[j] = IF j < i THEN s[j] ELSE s[j + 1]
<1>1. Len(s) \in Nat
  BY SequenceLength
<1> DEFINE a == SubSeq(s, 1, i - 1)
           b == SubSeq(s, i + 1, Len(s))
<1>2. /\ IsSequence(a) /\ Len(a) = i - 1
      /\ \A j \in 1 .. i - 1 : a[j] = s[j]
  <2>1. 0 \in Nat /\ i - 1 \in Nat /\ 0 <= i - 1 /\ i - 1 <= Len(s) /\ 0 + 1 = 1
    BY <1>1
  <2> DEFINE m == i - 1
  <2>2. m \in Nat /\ 0 <= m /\ m <= Len(s) /\ a = SubSeq(s, 0 + 1, m)
    BY <2>1
  <2> HIDE DEF m, a
  <2>3. /\ IsSequence(a) /\ Len(a) = m - 0 /\ \A j \in 1 .. m - 0 : a[j] = s[0 + j]
    BY <2>2, PieceOfSequence
  <2>4. IsSequence(a) /\ Len(a) = m /\ \A j \in 1 .. m : a[j] = s[j]
    BY <2>2, <2>3
  <2> QED BY <2>4 DEF m
<1>3. /\ IsSequence(b) /\ Len(b) = Len(s) - i
      /\ \A j \in 1 .. Len(s) - i : b[j] = s[i + j]
  <2> DEFINE n == Len(s)
  <2>1. i \in Nat /\ n \in Nat /\ i <= n /\ n <= Len(s) /\ b = SubSeq(s, i + 1, n)
    BY <1>1
  <2> HIDE DEF n, b
  <2>2. IsSequence(b) /\ Len(b) = n - i /\ \A j \in 1 .. n - i : b[j] = s[i + j]
    BY <2>1, PieceOfSequence
  <2> QED BY <2>2 DEF n
<1>4. RemoveAt(s, i) = a \o b
  BY DEF RemoveAt
<1> HIDE DEF a, b
<1>5. /\ IsSequence(a \o b) /\ Len(a \o b) = Len(a) + Len(b)
      /\ \A j \in 1 .. Len(a) : (a \o b)[j] = a[j]
      /\ \A j \in 1 .. Len(b) : (a \o b)[Len(a) + j] = b[j]
  <2>1. IsSequence(a) /\ IsSequence(b)
    BY <1>2, <1>3
  <2> QED BY <2>1, JoinedSequence
<1>6. Len(a \o b) = Len(s) - 1
  BY <1>1, <1>2, <1>3, <1>5
<1>7. ASSUME NEW j \in 1 .. Len(s) - 1
      PROVE  (a \o b)[j] = IF j < i THEN s[j] ELSE s[j + 1]
  <2>1. CASE j < i
    BY <1>1, <1>2, <1>5, <2>1
  <2>2. CASE ~(j < i)
    <3>1. PICK k \in Nat : k = j - (i - 1)
      BY <1>1, <2>2
    <3>2. k \in 1 .. Len(b) /\ j = Len(a) + k /\ i + k = j + 1 /\ k \in 1 .. Len(s) - i
      BY <1>1, <1>2, <1>3, <2>2, <3>1
    <3>3. (a \o b)[j] = b[k] /\ b[k] = s[i + k]
      BY <1>3, <1>5, <3>2
    <3> QED BY <2>2, <3>2, <3>3
  <2> QED BY <2>1, <2>2
<1> QED BY <1>4, <1>5, <1>6, <1>7

-----------------------------------------------------------------------------
(* RtpReceiver: what packetizers make is a sequence. *)

Fresh(nals) == [out |-> <<>>, nals |-> <<>>, total |-> 0, left |-> Len(nals)]

\* The states of the loop over the NAL units, up to the n-th.
Loop(nals, n, s) ==
  s = [i \in 0 .. n |-> IF i = 0 THEN Fresh(nals) ELSE CollectNal(s[i - 1], nals[i])]

LEMMA LoopRuns ==
  ASSUME NEW nals
  PROVE  \A n \in Nat : \E s : Loop(nals, n, s)
<1> DEFINE Bad == {n \in Nat : ~ \E s : Loop(nals, n, s)}
<1>1. SUFFICES ASSUME Bad # {} PROVE FALSE
  OBVIOUS
<1>2. PICK m \in Bad : \A n \in Bad : m <= n
  <2>1. Bad \subseteq Nat
    OBVIOUS
  <2> HIDE DEF Bad
  <2> QED BY <1>1, <2>1, LeastNumber
<1>3. m \in Nat /\ ~ \E s : Loop(nals, m, s)
  OBVIOUS
<1>4. CASE m = 0
  <2> DEFINE s == [i \in 0 .. 0 |-> Fresh(nals)]
  <2>1. s = [i \in 0 .. 0 |-> IF i = 0 THEN Fresh(nals) ELSE CollectNal(s[i - 1], nals[i])]
    <3>1. \A i \in 0 .. 0 : i = 0
      OBVIOUS
    <3> QED BY <3>1
  <2>2. Loop(nals, 0, s)
    BY <2>1 DEF Loop
  <2> QED BY <1>3, <1>4, <2>2
<1>5. CASE m # 0
  <2>1. m - 1 \in Nat /\ m - 1 \notin Bad
    <3>1. m - 1 \in Nat /\ ~(m <= m - 1)
      BY <1>3, <1>5
    <3> QED BY <1>2, <3>1
  <2>2. PICK s : Loop(nals, m - 1, s)
    BY <2>1
  <2> DEFINE t == [i \in 0 .. m |-> IF i = m THEN CollectNal(s[m - 1], nals[m]) ELSE s[i]]
  <2>3. \A i \in 0 .. m - 1 : s[i] = IF i = 0 THEN Fresh(nals) ELSE CollectNal(s[i - 1], nals[i])
    BY <2>2, Zenon DEF Loop
  <2>4. \A i \in 0 .. m - 1 : t[i] = s[i]
    BY <1>3
  <2>5. \A i \in 0 .. m : t[i] = IF i = 0 THEN Fresh(nals) ELSE CollectNal(t[i - 1], nals[i])
    <3> TAKE i \in 0 .. m
    <3>1. CASE i = m
      <4>1. t[i] = CollectNal(s[i - 1], nals[i]) /\ i - 1 \in 0 .. m - 1 /\ i # 0
        BY <1>3, <1>5, <3>1
      <4>2. t[i - 1] = s[i - 1]
        BY <2>4, <4>1
      <4> HIDE DEF t
      <4> QED BY <4>1, <4>2
    <3>2. CASE i # m
      <4>1. i \in 0 .. m - 1 /\ (i # 0 => i - 1 \in 0 .. m - 1)
        BY <1>3, <3>2
      <4>2. t[i] = s[i] /\ (i # 0 => t[i - 1] = s[i - 1])
        BY <2>4, <4>1
      <4> HIDE DEF t
      <4> QED BY <2>3, <4>1, <4>2
    <3> QED BY <3>1, <3>2
  <2>6. t = [i \in 0 .. m |-> t[i]]
    OBVIOUS
  <2> HIDE DEF t
  <2>7. Loop(nals, m, t)
    BY <2>5, <2>6, Zenon DEF Loop
  <2> QED BY <1>3, <2>7
<1> QED BY <1>4, <1>5

LEMMA CollectedIs ==
  ASSUME NEW nals, Len(nals) \in Nat
  PROVE  \E s : Loop(nals, Len(nals), s) /\ Collected(nals) = s[Len(nals)]
<1> DEFINE s == CHOOSE s : Loop(nals, Len(nals), s)
<1>1. Loop(nals, Len(nals), s)
  BY LoopRuns
<1>2. Collected(nals) = s[Len(nals)]
  BY DEF Collected, Loop, Fresh
<1> HIDE DEF s
<1> QED BY <1>1, <1>2

\* One NAL unit or more in each packet of a frame.
LEMMA SingletonSequence ==
  ASSUME NEW x PROVE IsSequence(<<x>>) /\ Len(<<x>>) = 1
<1>1. <<x>> \in Seq({x})
  OBVIOUS
<1> QED BY <1>1 DEF IsSequence

LEMMA CountedSequence ==
  ASSUME NEW n \in Nat, NEW s, DOMAIN s = 1 .. n, s = [k \in 1 .. n |-> s[k]]
  PROVE  IsSequence(s) /\ Len(s) = n
<1> DEFINE S == {s[k] : k \in 1 .. n}
<1>1. s \in [1 .. n -> S]
  OBVIOUS
<1>2. s \in Seq(S)
  BY <1>1
<1>3. IsSequence(s)
  BY <1>2 DEF IsSequence
<1> HIDE DEF S
<1>4. Len(s) \in Nat /\ 1 .. Len(s) = 1 .. n
  BY <1>2
<1>5. Len(s) = n
  BY <1>4
<1> QED BY <1>3, <1>5

LEMMA SendCollectedIs ==
  ASSUME NEW nals, NEW marker PROVE IsSequence(SendCollected(nals, marker))
BY EmptySequence, SingletonSequence DEF SendCollected

LEMMA RoundedUp ==
  ASSUME NEW x \in Nat, NEW k \in Nat, k > 0
  PROVE  (x + k - 1) \div k \in Nat
<1> DEFINE y == x + k - 1
           a == y \div k
<1>1. y \in Nat
  OBVIOUS
<1> HIDE DEF y
<1>2. a \in Int /\ y < k * a + k
  BY <1>1, SMT
<1> HIDE DEF a
<1>3. a >= 0
  <2> SUFFICES ASSUME a <= -1 PROVE FALSE
    BY <1>2
  <2>1. k * a <= -k
    BY <1>2, SMT
  <2> QED BY <1>1, <1>2, <2>1, SMT
<1> QED BY <1>2, <1>3 DEF a, y

LEMMA FragmentsAre ==
  ASSUME NEW nal, nal.size \in Nat \ {0}, NEW marker
  PROVE  IsSequence(SendFuA(nal, marker))
<1> DEFINE n == (nal.size - 1 + MaxFragment - 1) \div MaxFragment
<1>1. MaxFragment \in Nat /\ MaxFragment > 0
  BY PacketizerAssumption DEF MaxFragment
<1>2. nal.size - 1 \in Nat
  OBVIOUS
<1>3. n \in Nat
  BY <1>1, <1>2, RoundedUp
<1>4. /\ DOMAIN SendFuA(nal, marker) = 1 .. n
      /\ SendFuA(nal, marker) = [k \in 1 .. n |-> SendFuA(nal, marker)[k]]
  BY DEF SendFuA
<1> HIDE DEF n
<1> QED BY <1>3, <1>4, CountedSequence

LEMMA CollectKeeps ==
  ASSUME NEW s, DOMAIN s = {"out", "nals", "total", "left"}, IsSequence(s.out),
         NEW nal, nal.size \in Nat \ {0}
  PROVE  LET t == CollectNal(s, nal)
         IN  DOMAIN t = {"out", "nals", "total", "left"} /\ IsSequence(t.out)
<1>1. \A m : IsSequence(SendCollected(s.nals, m)) /\ IsSequence(SendFuA(nal, m))
  BY SendCollectedIs, FragmentsAre
<1>2. IsSequence(s.out \o SendCollected(s.nals, FALSE))
  BY <1>1, JoinedSequence
<1>3. IsSequence(s.out \o SendCollected(s.nals, FALSE) \o SendFuA(nal, s.left = 1))
  BY <1>1, <1>2, JoinedSequence
<1> QED BY <1>2, <1>3 DEF CollectNal

LEMMA NalsAreCut ==
  ASSUME NEW nals, IsSequence(nals), \A i \in 1 .. Len(nals) : nals[i].size \in Nat \ {0}
  PROVE  IsSequence(PacketizeNals(nals))
<1>1. Len(nals) \in Nat
  BY SequenceLength
<1>2. PICK s : Loop(nals, Len(nals), s) /\ Collected(nals) = s[Len(nals)]
  BY <1>1, CollectedIs
<1> DEFINE Fine(t) == DOMAIN t = {"out", "nals", "total", "left"} /\ IsSequence(t.out)
           Bad == {i \in 0 .. Len(nals) : ~Fine(s[i])}
<1>3. \A i \in 0 .. Len(nals) :
        s[i] = IF i = 0 THEN Fresh(nals) ELSE CollectNal(s[i - 1], nals[i])
  BY <1>2, Zenon DEF Loop
<1>4. Bad = {}
  <2> SUFFICES ASSUME Bad # {} PROVE FALSE
    OBVIOUS
  <2>1. PICK m \in Bad : \A n \in Bad : m <= n
    <3>1. Bad \subseteq Nat
      OBVIOUS
    <3> HIDE DEF Bad
    <3> QED BY <3>1, LeastNumber
  <2>2. m \in 0 .. Len(nals) /\ ~Fine(s[m])
    OBVIOUS
  <2>3. m # 0
    <3>1. Fine(Fresh(nals))
      BY EmptySequence DEF Fresh
    <3> QED BY <1>1, <1>3, <2>2, <3>1
  <2>4. m - 1 \in 0 .. Len(nals) /\ m \in 1 .. Len(nals) /\ ~(m <= m - 1)
    BY <1>1, <2>2, <2>3
  <2>5. Fine(s[m - 1])
    BY <2>1, <2>4
  <2>6. s[m] = CollectNal(s[m - 1], nals[m])
    BY <1>3, <2>2, <2>3
  <2>7. Fine(CollectNal(s[m - 1], nals[m]))
    BY <2>4, <2>5, CollectKeeps
  <2> HIDE DEF Fine
  <2> QED BY <2>2, <2>6, <2>7
<1>5. IsSequence(Collected(nals).out)
  BY <1>1, <1>2, <1>4
<1> QED BY <1>5, SendCollectedIs, JoinedSequence DEF PacketizeNals

LEMMA ChunksAre ==
  ASSUME NEW size \in Nat PROVE \E n \in Nat : DOMAIN Chunks(size) = 1 .. n
<1>1. ChunkLimit \in Nat /\ ChunkLimit > 0
  BY PacketizerAssumption DEF ChunkLimit
<1>2. (size + ChunkLimit - 1) \div ChunkLimit \in Nat
  BY <1>1, RoundedUp
<1>3. DOMAIN Chunks(size) = 1 .. (size + ChunkLimit - 1) \div ChunkLimit
  BY DEF Chunks
<1> QED BY <1>2, <1>3

LEMMA ChunksAreCut ==
  ASSUME NEW nal, nal.size \in Nat, NEW samples, NEW picture
  PROVE  IsSequence(PacketizeChunks(nal, samples)) /\ IsSequence(PacketizeJpeg(nal, picture))
<1>1. PICK n \in Nat : DOMAIN Chunks(nal.size) = 1 .. n
  BY ChunksAre
<1>2. /\ DOMAIN PacketizeChunks(nal, samples) = 1 .. n
      /\ PacketizeChunks(nal, samples) = [k \in 1 .. n |-> PacketizeChunks(nal, samples)[k]]
  BY <1>1 DEF PacketizeChunks
<1>3. /\ DOMAIN PacketizeJpeg(nal, picture) = 1 .. n
      /\ PacketizeJpeg(nal, picture) = [k \in 1 .. n |-> PacketizeJpeg(nal, picture)[k]]
  BY <1>1 DEF PacketizeJpeg
<1> QED BY <1>2, <1>3, CountedSequence

LEMMA SequenceElement ==
  ASSUME NEW S, NEW s \in Seq(S), NEW i \in 1 .. Len(s)
  PROVE  s[i] \in S
OBVIOUS

\* What streams are.
StreamIs ==
  /\ stream.seq \in Nat /\ stream.ts \in Nat
  /\ DOMAIN stream.frames = 1 .. MaxFrames
  /\ stream.codec \in Codecs
  /\ \A f \in 1 .. MaxFrames : stream.frames[f] \in Shapes[stream.codec]

LEMMA StreamStarts == Init => StreamIs
<1> SUFFICES ASSUME Init PROVE StreamIs
  OBVIOUS
<1>1. PICK c \in Codecs : stream \in [codec : {c}, frames : [1 .. MaxFrames -> Shapes[c]],
                                      ts : FirstTss, seq : FirstSeqs]
  BY DEF Init
<1>2. /\ stream.seq \in FirstSeqs /\ stream.ts \in FirstTss /\ stream.codec = c
      /\ stream.frames \in [1 .. MaxFrames -> Shapes[c]]
  BY <1>1
<1> QED BY <1>2, ReceiverAssumption DEF StreamIs

LEMMA NalsAre ==
  ASSUME StreamIs, NEW f \in 1 .. MaxFrames
  PROVE  /\ IsSequence(NalsOf(f)) /\ Len(NalsOf(f)) > 0
         /\ \A i \in 1 .. Len(NalsOf(f)) : NalsOf(f)[i].size \in Nat \ {0}
<1>1. PICK c \in Codecs : stream.frames[f] \in Shapes[c]
  BY DEF StreamIs
<1> DEFINE nals == stream.frames[f].nals
<1>2. nals \in Seq([type : STRING, size : Nat \ {0}]) /\ nals # <<>>
  BY <1>1, ReceiverAssumption
<1>3. NalsOf(f) = [n \in DOMAIN nals |->
                     [id |-> <<f, n>>, type |-> nals[n].type, size |-> nals[n].size]]
  BY DEF NalsOf, Frame
<1> HIDE DEF nals
<1>4. Len(nals) \in Nat /\ DOMAIN nals = 1 .. Len(nals) /\ Len(nals) > 0
  BY <1>2
<1>5. \A i \in 1 .. Len(nals) : nals[i].size \in Nat \ {0}
  <2> TAKE i \in 1 .. Len(nals)
  <2>1. nals[i] \in [type : STRING, size : Nat \ {0}]
    BY <1>2, <1>4, SequenceElement
  <2> QED BY <2>1
<1>6. /\ DOMAIN NalsOf(f) = 1 .. Len(nals)
      /\ NalsOf(f) = [k \in 1 .. Len(nals) |-> NalsOf(f)[k]]
      /\ \A k \in 1 .. Len(nals) : NalsOf(f)[k].size = nals[k].size
  BY <1>3, <1>4
<1>7. IsSequence(NalsOf(f)) /\ Len(NalsOf(f)) = Len(nals)
  BY <1>4, <1>6, CountedSequence
<1> QED BY <1>4, <1>5, <1>6, <1>7

\* What a packet has of its frame.
Comes(p, f, k) ==
  /\ p.payload = Bodies(f)[k].payload /\ p.marker = Bodies(f)[k].marker
  /\ p.ts = Times(f)[k]
  /\ p.pt = IF Frame(f).kind = "foreign" THEN Expected + 1 ELSE Expected

LEMMA PacketsAre ==
  ASSUME StreamIs, NEW f \in 1 .. MaxFrames
  PROVE  /\ IsSequence(Packets(f))
         /\ \A k \in 1 .. Len(Packets(f)) :
              /\ Packets(f)[k].serial = Len(origin) + k
              /\ Packets(f)[k].seq = (stream.seq + Len(origin) + k) % SeqModulus
              /\ k \in 1 .. Len(Bodies(f)) /\ Comes(Packets(f)[k], f, k)
<1>1. /\ IsSequence(NalsOf(f)) /\ Len(NalsOf(f)) > 0
      /\ \A i \in 1 .. Len(NalsOf(f)) : NalsOf(f)[i].size \in Nat \ {0}
  BY NalsAre
<1>2. Len(NalsOf(f)) \in Nat
  BY <1>1, SequenceLength
<1>3. NalsOf(f)[1].size \in Nat
  BY <1>1, <1>2
<1>4. IsSequence(Bodies(f))
  <2>1. IsSequence(PacketizeNals(NalsOf(f)))
    BY <1>1, NalsAreCut
  <2>2. \A samples : IsSequence(PacketizeChunks(NalsOf(f)[1], samples))
    BY <1>3, ChunksAreCut
  <2>3. IsSequence(PacketizeJpeg(NalsOf(f)[1], Frame(f).picture))
    BY <1>3, ChunksAreCut
  <2>4. IsSequence(<<[payload |-> [kind |-> Frame(f).kind], marker |-> TRUE]>>)
    BY SingletonSequence
  <2> QED BY <2>1, <2>2, <2>3, <2>4 DEF Bodies
<1>5. Len(Bodies(f)) \in Nat /\ DOMAIN Bodies(f) = 1 .. Len(Bodies(f))
  BY <1>4, SequenceLength
<1> DEFINE n == Len(Bodies(f))
<1>6. /\ DOMAIN Packets(f) = 1 .. n
      /\ Packets(f) = [k \in 1 .. n |-> Packets(f)[k]]
      /\ \A k \in 1 .. n : /\ Packets(f)[k].serial = Len(origin) + k
                           /\ Packets(f)[k].seq = (stream.seq + Len(origin) + k) % SeqModulus
                           /\ Comes(Packets(f)[k], f, k)
  BY <1>5 DEF Packets, Comes
<1> HIDE DEF n
<1>7. IsSequence(Packets(f)) /\ Len(Packets(f)) = n
  BY <1>5, <1>6, CountedSequence DEF n
<1> QED BY <1>6, <1>7 DEF n

-----------------------------------------------------------------------------
(* RtpReceiver: differences of sequence numbers. *)

LEMMA Remainder ==
  ASSUME NEW m \in Nat \ {0}, NEW x \in Int
  PROVE  x % m \in 0 .. m - 1 /\ \E k \in Int : x = (x % m) + m * k
<1>1. x \div m \in Int
  BY SMT
<1>2. x = (x % m) + m * (x \div m)
  BY SMT
<1>3. x % m \in 0 .. m - 1
  BY SMT
<1> QED BY <1>1, <1>2, <1>3

\* Of two multiples of m that differ by less than m neither is larger.
LEMMA Multiples ==
  ASSUME NEW m \in Nat \ {0}, NEW j \in Int, NEW k \in Int
  PROVE  /\ m * j \in Int /\ m * k \in Int /\ m * (k - j) = m * k - m * j
         /\ m * k - m * j < m => m * k - m * j <= 0
<1>1. m * j \in Int /\ m * k \in Int /\ m * (k - j) = m * k - m * j
  BY SMT
<1>2. k - j >= 1 => m * (k - j) >= m
  BY SMT
<1>3. k - j <= 0 => m * (k - j) <= 0
  BY SMT
<1>4. k - j \in Int /\ (k - j >= 1 \/ k - j <= 0)
  OBVIOUS
<1> QED BY <1>1, <1>2, <1>3, <1>4

LEMMA RemainderIs ==
  ASSUME NEW m \in Nat \ {0}, NEW y \in 0 .. m - 1, NEW k \in Int, NEW x, x = y + m * k
  PROVE  x % m = y
<1>1. m * k \in Int
  BY Multiples
<1>2. x \in Int
  BY <1>1
<1>3. PICK j \in Int : x = (x % m) + m * j
  BY <1>2, Remainder
<1> DEFINE z == x % m
<1>4. z \in 0 .. m - 1 /\ x = z + m * j
  BY <1>2, <1>3, Remainder
<1> HIDE DEF z
<1>5. m * j \in Int /\ z - y = m * k - m * j /\ y - z = m * j - m * k
  BY <1>1, <1>4, Multiples
<1>6. m * k - m * j < m => m * k - m * j <= 0
  BY Multiples
<1>7. m * j - m * k < m => m * j - m * k <= 0
  BY Multiples
<1>8. z = y
  BY <1>4, <1>5, <1>6, <1>7
<1> QED BY <1>8 DEF z

\* What is counted on keeps its remainder.
LEMMA RemainderPlus ==
  ASSUME NEW m \in Nat \ {0}, NEW x \in Int
  PROVE  ((x % m) + 1) % m = (x + 1) % m
<1>1. PICK k \in Int : x = (x % m) + m * k
  BY Remainder
<1>2. x + 1 \in Int
  OBVIOUS
<1>3. PICK j \in Int : x + 1 = ((x + 1) % m) + m * j
  BY <1>2, Remainder
<1> DEFINE a == x % m
           b == (x + 1) % m
<1>4. a \in Int /\ b \in 0 .. m - 1 /\ x = a + m * k /\ x + 1 = b + m * j
  BY <1>1, <1>2, <1>3, Remainder
<1> HIDE DEF a, b
<1>5. m * k \in Int /\ m * j \in Int /\ m * (j - k) = m * j - m * k
  BY Multiples
<1>6. j - k \in Int
  OBVIOUS
<1>7. a + 1 = b + m * (j - k)
  BY <1>4, <1>5
<1>8. (a + 1) % m = b
  BY <1>4, <1>6, <1>7, RemainderIs
<1> QED BY <1>8 DEF a, b

LEMMA DiffIsDistance ==
  ASSUME NEW base \in Nat, NEW l \in Nat, NEW s \in Nat,
         s - l \in 1 - (SeqModulus \div 2) .. (SeqModulus \div 2)
  PROVE  SeqDiff((base + s) % SeqModulus, (base + l + 1) % SeqModulus) = s - l - 1
<1> DEFINE m == SeqModulus
           h == m \div 2
           a == (base + s) % SeqModulus
           e == (base + l + 1) % SeqModulus
<1>1. m \in Nat \ {0} /\ h \in Nat
  BY ReceiverAssumption, SMT
<1>2. 2 * h <= m
  BY ReceiverAssumption, SMT
<1>3. base + s \in Int /\ base + l + 1 \in Int
  OBVIOUS
<1>4. PICK j \in Int : base + s = a + m * j
  BY <1>1, <1>3, Remainder
<1>5. PICK k \in Int : base + l + 1 = e + m * k
  BY <1>1, <1>3, Remainder
<1>6. a \in Int /\ e \in Int
  BY <1>1, <1>3, Remainder
<1>7. s - l \in 1 - h .. h
  OBVIOUS
<1>8. SeqDiff(a, e) = ((a - e + h) % m) - h
  BY DEF SeqDiff
<1> HIDE DEF a, e, h, m
<1>9. s - l - 1 + h \in 0 .. m - 1
  BY <1>1, <1>2, <1>7
<1>10. m * j \in Int /\ m * k \in Int /\ m * (k - j) = m * k - m * j
  BY <1>1, Multiples
<1>11. k - j \in Int
  OBVIOUS
<1>12. a - e + h = (s - l - 1 + h) + m * (k - j)
  BY <1>1, <1>4, <1>5, <1>6, <1>10
<1>13. (a - e + h) % m = s - l - 1 + h
  <2> DEFINE x == a - e + h
             y == s - l - 1 + h
             d == k - j
  <2>1. x = y + m * d /\ y \in 0 .. m - 1 /\ d \in Int
    BY <1>9, <1>11, <1>12
  <2> HIDE DEF x, y, d
  <2>2. x % m = y
    BY <1>1, <2>1, RemainderIs
  <2> QED BY <2>2 DEF x, y
<1>14. SeqDiff(a, e) = s - l - 1
  BY <1>1, <1>8, <1>13
<1> QED BY <1>14 DEF a, e

-----------------------------------------------------------------------------
(* RtpReceiver: packets under way. *)

\* A packet of one of the first n frames, with the sequence number of its
\* place in the stream.
Right(p, n) ==
  /\ p.serial \in Nat /\ p.seq = (stream.seq + p.serial) % SeqModulus
  /\ \E f \in 1 .. n : \E k \in 1 .. Len(Bodies(f)) : Comes(p, f, k)

AllRight(s, n) == IsSequence(s) /\ \A i \in 1 .. Len(s) : Right(s[i], n)

NetInv == /\ StreamIs
          /\ sent \in Nat
          /\ IsSequence(origin)
          /\ sent <= MaxFrames
          /\ AllRight(net, sent)

LEMMA RightFew ==
  ASSUME NEW n, NEW s, AllRight(s, n), NEW i \in 1 .. Len(s)
  PROVE  /\ AllRight(RemoveAt(s, i), n)
         /\ AllRight(InsertAt(s, i, s[i]), n)
         /\ i < Len(s) => AllRight([s EXCEPT ![i] = s[i + 1], ![i + 1] = s[i]], n)
         /\ AllRight(Tail(s), n) /\ Head(s) = s[1] /\ Right(Head(s), n)
<1>1. IsSequence(s) /\ Len(s) \in Nat
  BY SequenceLength DEF AllRight
<1>2. AllRight(RemoveAt(s, i), n)
  <2>1. /\ IsSequence(RemoveAt(s, i)) /\ Len(RemoveAt(s, i)) = Len(s) - 1
        /\ \A j \in 1 .. Len(s) - 1 :
             RemoveAt(s, i)[j] = IF j < i THEN s[j] ELSE s[j + 1]
    BY <1>1, RemovedFromSequence
  <2>2. ASSUME NEW j \in 1 .. Len(s) - 1 PROVE Right(RemoveAt(s, i)[j], n)
    <3>1. j \in 1 .. Len(s) /\ j + 1 \in 1 .. Len(s)
      BY <1>1
    <3> QED BY <2>1, <3>1 DEF AllRight
  <2> QED BY <2>1, <2>2 DEF AllRight
<1>3. AllRight(InsertAt(s, i, s[i]), n)
  <2> DEFINE a == SubSeq(s, 1, i - 1)
             b == SubSeq(s, i, Len(s))
  <2>1. PICK m \in Nat : m = i - 1
    BY <1>1
  <2>2. IsSequence(a) /\ Len(a) = m /\ \A j \in 1 .. m : a[j] = s[j]
    <3>1. m <= Len(s) /\ 0 + 1 = 1 /\ 0 \in Nat /\ 0 <= m
      BY <1>1, <2>1
    <3>4. a = SubSeq(s, 0 + 1, m)
      BY <2>1, <3>1
    <3> HIDE DEF a
    <3>2. IsSequence(a) /\ Len(a) = m - 0 /\ \A j \in 1 .. m - 0 : a[j] = s[0 + j]
      BY <1>1, <2>1, <3>1, <3>4, PieceOfSequence
    <3> QED BY <2>1, <3>2
  <2>3. IsSequence(b) /\ Len(b) = Len(s) - m /\ \A j \in 1 .. Len(s) - m : b[j] = s[m + j]
    <3>1. m <= Len(s) /\ m + 1 = i /\ Len(s) <= Len(s)
      BY <1>1, <2>1
    <3>2. b = SubSeq(s, m + 1, Len(s))
      BY <3>1
    <3> HIDE DEF b
    <3> QED BY <1>1, <2>1, <3>1, <3>2, PieceOfSequence
  <2>4. IsSequence(<<s[i]>>) /\ Len(<<s[i]>>) = 1 /\ <<s[i]>>[1] = s[i]
    BY SingletonSequence
  <2>5. InsertAt(s, i, s[i]) = a \o <<s[i]>> \o b
    BY DEF InsertAt
  <2>6. /\ AllRight(a, n) /\ AllRight(b, n) /\ AllRight(<<s[i]>>, n)
    <3>1. ASSUME NEW j \in 1 .. m PROVE j \in 1 .. Len(s)
      BY <1>1, <2>1, <3>1
    <3>2. ASSUME NEW j \in 1 .. Len(s) - m PROVE m + j \in 1 .. Len(s)
      BY <1>1, <2>1, <3>2
    <3> HIDE DEF a, b
    <3> QED BY <2>2, <2>3, <2>4, <3>1, <3>2 DEF AllRight
  <2> HIDE DEF a, b
  <2>7. ASSUME NEW x, NEW y, AllRight(x, n), AllRight(y, n) PROVE AllRight(x \o y, n)
    BY <2>7, JoinedSequence DEF AllRight
  <2> QED BY <2>5, <2>6, <2>7
<1>4. ASSUME i < Len(s) PROVE AllRight([s EXCEPT ![i] = s[i + 1], ![i + 1] = s[i]], n)
  <2> DEFINE t == [s EXCEPT ![i] = s[i + 1], ![i + 1] = s[i]]
  <2>1. PICK S : s \in Seq(S)
    BY <1>1 DEF IsSequence
  <2>2. i + 1 \in 1 .. Len(s)
    BY <1>1, <1>4
  <2>3. t \in Seq(S) /\ Len(t) = Len(s)
    BY <2>1, <2>2
  <2>4. \A j \in 1 .. Len(s) : t[j] = s[j] \/ t[j] = s[i] \/ t[j] = s[i + 1]
    BY <1>1, <2>1, <2>2
  <2> HIDE DEF t
  <2> QED BY <2>2, <2>3, <2>4 DEF AllRight, IsSequence, t
<1>5. AllRight(Tail(s), n) /\ Head(s) = s[1] /\ Right(Head(s), n)
  <2>1. s # <<>>
    BY <1>1, SequenceEmpty
  <2>2. 1 \in 1 .. Len(s)
    BY <1>1
  <2> QED BY <1>1, <2>1, <2>2, TailOfSequence DEF AllRight
<1> QED BY <1>2, <1>3, <1>4, <1>5

LEMMA NetStarts == Init => NetInv
<1> SUFFICES ASSUME Init PROVE NetInv
  OBVIOUS
<1>1. sent = 0 /\ origin = <<>> /\ net = <<>>
  BY DEF Init
<1>2. \A i \in 1 .. 0 : FALSE
  OBVIOUS
<1> QED BY <1>1, <1>2, StreamStarts, EmptySequence, ReceiverAssumption DEF NetInv, AllRight

LEMMA FramesStay ==
  ASSUME UNCHANGED stream
  PROVE  /\ StreamIs => StreamIs'
         /\ \A f : /\ Frame(f)' = Frame(f) /\ NalsOf(f)' = NalsOf(f)
                   /\ Timestamp(f)' = Timestamp(f) /\ Bodies(f)' = Bodies(f)
                   /\ Times(f)' = Times(f)
<1>1. \A f : Frame(f)' = Frame(f) /\ Timestamp(f)' = Timestamp(f)
  BY DEF Frame, Timestamp
<1>2. \A f : NalsOf(f)' = NalsOf(f)
  BY <1>1 DEF NalsOf
<1>3. \A f : Bodies(f)' = Bodies(f)
  BY <1>1, <1>2 DEF Bodies
<1>4. \A f : Times(f)' = Times(f)
  BY <1>1, <1>3 DEF Times
<1>5. StreamIs => StreamIs'
  BY DEF StreamIs
<1> QED BY <1>1, <1>2, <1>3, <1>4, <1>5

LEMMA RightStays ==
  ASSUME UNCHANGED stream, NEW s, NEW m \in Nat, NEW n \in Nat, m <= n, AllRight(s, m)
  PROVE  AllRight(s, n)'
<1>1. \A f : /\ Bodies(f)' = Bodies(f) /\ Times(f)' = Times(f) /\ Frame(f)' = Frame(f)
  BY FramesStay
<1>2. \A f : f \in 1 .. m => f \in 1 .. n
  OBVIOUS
<1>3. ASSUME NEW p, Right(p, m) PROVE Right(p, n)'
  <2>1. PICK f \in 1 .. m : \E k \in 1 .. Len(Bodies(f)) : Comes(p, f, k)
    BY <1>3 DEF Right
  <2>2. PICK k \in 1 .. Len(Bodies(f)) : Comes(p, f, k)
    BY <2>1
  <2>3. Comes(p, f, k)'
    BY <1>1, <2>2 DEF Comes
  <2>4. f \in 1 .. n /\ k \in 1 .. Len(Bodies(f)')
    BY <1>1, <1>2, <2>2
  <2>5. (\E g \in 1 .. n : \E i \in 1 .. Len(Bodies(g)) : Comes(p, g, i))'
    BY <2>3, <2>4
  <2> QED BY <1>3, <2>5 DEF Right
<1> QED BY <1>3 DEF AllRight

LEMMA NetStays ==
  ASSUME NetInv, UNCHANGED <<stream, sent, origin>>, AllRight(net', sent)
  PROVE  NetInv'
<1>1. sent \in Nat /\ sent <= sent /\ StreamIs
  BY DEF NetInv
<1>2. PICK s, n : s = net' /\ n = sent
  OBVIOUS
<1>4. AllRight(s, n)'
  BY <1>1, <1>2, RightStays
<1>5. AllRight(net, sent)'
  BY <1>2, <1>4 DEF AllRight, Right
<1>3. StreamIs'
  BY <1>1, FramesStay
<1>6. (sent \in Nat /\ sent <= MaxFrames /\ IsSequence(origin))'
  BY DEF NetInv
<1> QED BY <1>3, <1>5, <1>6 DEF NetInv

LEMMA NetGoesOn ==
  ASSUME NetInv, [Next]_vars PROVE NetInv'
<1>1. StreamIs /\ sent \in Nat /\ AllRight(net, sent)
  BY DEF NetInv
<1>2. CASE SendFrame
  <2> DEFINE f == sent + 1
  <2>1. f \in 1 .. MaxFrames
    <3>1. Len(stream.frames) = MaxFrames
      <4>1. DOMAIN stream.frames = 1 .. MaxFrames /\ MaxFrames \in Nat
        BY ReceiverAssumption DEF NetInv, StreamIs
      <4> QED BY <4>1
    <3>2. sent < Len(stream.frames)
      BY <1>2 DEF SendFrame
    <3> QED BY <3>1, <3>2, ReceiverAssumption DEF NetInv
  <2>2. /\ UNCHANGED stream /\ sent' = f /\ net' = net \o Packets(f)
        /\ origin' = origin \o [k \in DOMAIN Packets(f) |-> f]
    BY <1>2 DEF SendFrame
  <2> HIDE DEF f
  <2>3. /\ IsSequence(Packets(f))
        /\ \A k \in 1 .. Len(Packets(f)) :
             /\ Packets(f)[k].serial = Len(origin) + k
             /\ Packets(f)[k].seq = (stream.seq + Len(origin) + k) % SeqModulus
             /\ k \in 1 .. Len(Bodies(f)) /\ Comes(Packets(f)[k], f, k)
    BY <2>1, PacketsAre DEF NetInv
  <2>4. Len(Packets(f)) \in Nat /\ Len(origin) \in Nat /\ stream.seq \in Nat
    BY <2>3, SequenceLength DEF NetInv, StreamIs
  <2>9. f \in Nat /\ sent <= f /\ f \in 1 .. f
    BY <1>1, <2>1 DEF f
  <2>5. AllRight(Packets(f), f)
    <3>1. ASSUME NEW k \in 1 .. Len(Packets(f)) PROVE Right(Packets(f)[k], f)
      <4>1. /\ Len(origin) + k \in Nat
            /\ stream.seq + Len(origin) + k = stream.seq + (Len(origin) + k)
        BY <2>4
      <4>2. \E g \in 1 .. f : \E i \in 1 .. Len(Bodies(g)) : Comes(Packets(f)[k], g, i)
        BY <2>3, <2>9
      <4>3. /\ Packets(f)[k].serial \in Nat
            /\ Packets(f)[k].seq = (stream.seq + Packets(f)[k].serial) % SeqModulus
        BY <2>3, <4>1
      <4> QED BY <4>2, <4>3 DEF Right
    <3> QED BY <2>3, <3>1 DEF AllRight
  <2>10. AllRight(net, f)
    <3>1. \A g : g \in 1 .. sent => g \in 1 .. f
      BY <1>1, <2>9
    <3> QED BY <1>1, <3>1 DEF AllRight, Right
  <2>6. AllRight(net', f)
    BY <2>2, <2>5, <2>10, JoinedSequence DEF AllRight
  <2>7. IsSequence(origin')
    <3>1. DOMAIN Packets(f) = 1 .. Len(Packets(f))
      BY <2>3, SequenceLength
    <3> DEFINE o == [k \in 1 .. Len(Packets(f)) |-> f]
    <3>2. DOMAIN o = 1 .. Len(Packets(f)) /\ o = [k \in 1 .. Len(Packets(f)) |-> o[k]]
      OBVIOUS
    <3>3. o = [k \in DOMAIN Packets(f) |-> f]
      BY <3>1
    <3> HIDE DEF o
    <3>4. IsSequence(o)
      BY <2>4, <3>2, CountedSequence
    <3> QED BY <2>2, <3>3, <3>4, JoinedSequence DEF NetInv
  <2>8. AllRight(net, sent)'
    <3>1. PICK s, n : s = net' /\ n = f
      OBVIOUS
    <3>2. AllRight(s, n)'
      BY <2>2, <2>6, <2>9, <3>1, RightStays
    <3> QED BY <2>2, <3>1, <3>2 DEF AllRight, Right
  <2>11. StreamIs'
    BY <1>1, <2>2, FramesStay
  <2>12. sent' = f /\ f <= MaxFrames
    BY <2>1, <2>2
  <2>13. (sent \in Nat /\ sent <= MaxFrames)'
    BY <2>9, <2>12
  <2> QED BY <2>7, <2>8, <2>11, <2>13 DEF NetInv
<1>3. CASE Fault
  <2>1. UNCHANGED <<stream, sent, origin>>
    BY <1>3 DEF Fault
  <2>2. PICK i \in DOMAIN net :
          \/ net' = RemoveAt(net, i)
          \/ net' = InsertAt(net, i, net[i])
          \/ i < Len(net) /\ net' = [net EXCEPT ![i] = net[i + 1], ![i + 1] = net[i]]
    BY <1>3 DEF Fault
  <2>3. i \in 1 .. Len(net)
    BY <1>1, <2>2, SequenceLength DEF AllRight
  <2>4. AllRight(net', sent)
    <3>1. /\ AllRight(RemoveAt(net, i), sent)
          /\ AllRight(InsertAt(net, i, net[i]), sent)
          /\ i < Len(net) => AllRight([net EXCEPT ![i] = net[i + 1], ![i + 1] = net[i]], sent)
      BY <1>1, <2>3, RightFew
    <3> QED BY <2>2, <3>1, Zenon
  <2> QED BY <2>1, <2>4, NetStays
<1>4. CASE HandleRtpPacket
  <2>1. UNCHANGED <<stream, sent, origin>> /\ net # <<>> /\ net' = Tail(net)
    BY <1>4 DEF HandleRtpPacket
  <2>2. 1 \in 1 .. Len(net)
    BY <1>1, <2>1, SequenceLength, SequenceEmpty DEF AllRight
  <2>3. AllRight(net', sent)
    BY <1>1, <2>1, <2>2, RightFew
  <2> QED BY <2>1, <2>3, NetStays
<1>5. CASE UNCHANGED vars
  BY <1>1, <1>5, NetStays DEF vars
<1> QED BY <1>2, <1>3, <1>4, <1>5 DEF Next

-----------------------------------------------------------------------------
(* RtpReceiver: what is counted as lost. *)

Came == ToSet(arrived)

\* A bound on what is missing up to the latest packet that came.
Missing(m) == (arrived[1] .. m) \ Came

LossInv ==
  /\ IsSequence(arrived) /\ \A i \in 1 .. Len(arrived) : arrived[i] \in Nat
  /\ {"begun", "expected", "lost"} \subseteq DOMAIN rcv
  /\ rcv.lost \in Nat
  /\ rcv.begun <=> arrived # <<>>
  /\ arrived # <<>> =>
       rcv.expected = (stream.seq + arrived[Len(arrived)] + 1) % SeqModulus
  /\ arrived # <<>> /\ InReach =>
       \E m \in Came : /\ \A t \in Came : t <= m
                      /\ Cardinality(Missing(m)) <= rcv.lost

LEMMA LossStarts == Init => LossInv
<1> SUFFICES ASSUME Init PROVE LossInv
  OBVIOUS
<1>1. arrived = <<>> /\ rcv = RcvInit
  BY DEF Init
<1>2. /\ {"begun", "expected", "lost"} \subseteq DOMAIN rcv
      /\ rcv.lost \in Nat /\ rcv.begun = FALSE
  BY <1>1 DEF RcvInit
<1>3. \A i \in 1 .. 0 : FALSE
  OBVIOUS
<1> QED BY <1>1, <1>2, <1>3, EmptySequence DEF LossInv

LEMMA WhatCame ==
  ASSUME IsSequence(arrived)
  PROVE  /\ \A t : t \in Came <=> \E i \in 1 .. Len(arrived) : t = arrived[i]
         /\ Len(arrived) \in Nat
BY SequenceLength DEF Came, ToSet

LEMMA FewBetween ==
  ASSUME NEW S, NEW a \in Int, NEW b \in Int, S = a .. b
  PROVE  /\ IsFiniteSet(S) /\ Cardinality(S) \in Nat
         /\ b >= a - 1 => Cardinality(S) = b - a + 1
<1>1. IsFiniteSet(a .. b) /\ Cardinality(a .. b) = IF a > b THEN 0 ELSE b - a + 1
  BY FS_Interval
<1>2. Cardinality(S) \in Nat
  BY <1>1, FS_CardinalityType
<1>3. b >= a - 1 => (IF a > b THEN 0 ELSE b - a + 1) = b - a + 1
  OBVIOUS
<1> QED BY <1>1, <1>2, <1>3

LEMMA LossBegins ==
  ASSUME NEW s \in Nat, IsSequence(arrived'), Len(arrived') = 1, arrived'[1] = s,
         rcv'.lost \in Nat
  PROVE  \E m \in Came' : /\ \A t \in Came' : t <= m
                          /\ Cardinality(Missing(m)') <= rcv'.lost
<1>1. Came' = {s}
  <2>1. DOMAIN arrived' = 1 .. 1
    BY SequenceLength
  <2>2. \A i : i \in 1 .. 1 <=> i = 1
    OBVIOUS
  <2> QED BY <2>1, <2>2 DEF Came, ToSet
<1>2. Missing(s)' = (s .. s) \ {s}
  BY <1>1 DEF Missing
<1>3. s .. s = {s}
  OBVIOUS
<1>4. Cardinality(Missing(s)') = 0
  BY <1>2, <1>3, FS_EmptySet
<1> QED BY <1>1, <1>4

LEMMA LossAccepted ==
  ASSUME LossInv, stream.seq \in Nat, NEW s \in Nat, InReach',
         arrived # <<>>, arrived' = Append(arrived, s),
         rcv' = TrackSequence(rcv, (stream.seq + s) % SeqModulus)
  PROVE  \E m \in Came' : /\ \A t \in Came' : t <= m
                          /\ Cardinality(Missing(m)') <= rcv'.lost
<1> DEFINE n == Len(arrived)
           l == arrived[n]
           d == s - l - 1
<1>1. n \in Nat /\ n > 0 /\ IsSequence(arrived)
  BY SequenceEmpty, WhatCame DEF LossInv
<1>2. /\ IsSequence(arrived') /\ Len(arrived') = n + 1
      /\ \A i \in 1 .. n : arrived'[i] = arrived[i]
      /\ arrived'[n + 1] = s
  BY <1>1, AppendedSequence
<1>3. l \in Nat
  BY <1>1 DEF LossInv
<1>4. InReach /\ s - l \in 1 - (SeqModulus \div 2) .. (SeqModulus \div 2)
  <2>1. n \in 1 .. Len(arrived') - 1
    BY <1>1, <1>2
  <2>2. arrived'[n + 1] - arrived'[n] \in 1 - SeqModulus \div 2 .. SeqModulus \div 2
    BY <2>1 DEF InReach
  <2>3. arrived'[n] = l
    BY <1>1, <1>2
  <2>4. ASSUME NEW i \in 1 .. n - 1
        PROVE  arrived[i + 1] - arrived[i] \in 1 - SeqModulus \div 2 .. SeqModulus \div 2
    <3>1. i \in 1 .. Len(arrived') - 1 /\ i \in 1 .. n /\ i + 1 \in 1 .. n
      BY <1>1, <1>2
    <3>2. arrived'[i + 1] - arrived'[i] \in 1 - SeqModulus \div 2 .. SeqModulus \div 2
      BY <3>1 DEF InReach
    <3> QED BY <1>2, <3>1, <3>2
  <2> QED BY <1>2, <2>2, <2>3, <2>4 DEF InReach
<1>5. SeqDiff((stream.seq + s) % SeqModulus, rcv.expected) = d
  <2>1. rcv.expected = (stream.seq + l + 1) % SeqModulus
    BY DEF LossInv
  <2>2. SeqDiff((stream.seq + s) % SeqModulus, (stream.seq + l + 1) % SeqModulus) = s - l - 1
    BY <1>3, <1>4, DiffIsDistance
  <2> QED BY <2>1, <2>2
<1>6. /\ rcv.lost \in Nat /\ d \in Int
      /\ rcv'.lost = IF d > 0 THEN rcv.lost + d ELSE rcv.lost
  <2>1. rcv.begun /\ "lost" \in DOMAIN rcv /\ rcv.lost \in Nat
    BY DEF LossInv
  <2> HIDE DEF d
  <2> QED BY <1>3, <1>5, <2>1 DEF TrackSequence, d
<1>7. PICK m \in Came : (\A t \in Came : t <= m) /\ Cardinality(Missing(m)) <= rcv.lost
  BY <1>4 DEF LossInv
<1>8. /\ m \in Nat /\ Came \subseteq Nat /\ l \in Came /\ l <= m
      /\ arrived[1] \in Nat /\ arrived[1] <= m /\ arrived'[1] = arrived[1]
  <2>1. 1 \in 1 .. n /\ n \in 1 .. n
    BY <1>1
  <2>2. Came \subseteq Nat
    BY <1>1, WhatCame DEF LossInv
  <2>3. l \in Came /\ arrived[1] \in Came
    BY <1>1, <2>1, WhatCame
  <2> QED BY <1>2, <1>7, <2>1, <2>2, <2>3
<1>9. Came' = Came \union {s}
  <2>1. \A t : t \in Came' <=> \E i \in 1 .. n + 1 : t = arrived'[i]
    <3>1. DOMAIN arrived' = 1 .. n + 1
      BY <1>2, SequenceLength
    <3> QED BY <3>1 DEF Came, ToSet
  <2>2. \A i : i \in 1 .. n + 1 <=> i \in 1 .. n \/ i = n + 1
    BY <1>1
  <2>3. \A t : t \in Came <=> \E i \in 1 .. n : t = arrived[i]
    BY <1>1, WhatCame
  <2> HIDE DEF n
  <2> QED BY <1>2, <2>1, <2>2, <2>3
<1> DEFINE f == arrived[1]
<1>10. /\ Missing(m) = (f .. m) \ Came /\ IsFiniteSet(Missing(m))
       /\ Cardinality(Missing(m)) \in Nat
  <2>1. Missing(m) = (f .. m) \ Came
    BY DEF Missing
  <2>2. IsFiniteSet(f .. m)
    <3>1. f \in Int /\ m \in Int
      BY <1>8
    <3> HIDE DEF f
    <3> QED BY <3>1, FewBetween
  <2> QED BY <2>1, <2>2, FS_Subset, FS_CardinalityType
<1>11. \A k \in Nat : Missing(k)' = (f .. k) \ (Came \union {s})
  BY <1>8, <1>9 DEF Missing
<1> HIDE DEF n, l, d, f
<1>12. CASE s <= m
  <2>1. m \in Came' /\ \A t \in Came' : t <= m
    BY <1>7, <1>9, <1>12
  <2>2. Missing(m)' \subseteq Missing(m)
    BY <1>8, <1>10, <1>11
  <2>3. Cardinality(Missing(m)') <= Cardinality(Missing(m)) /\ Cardinality(Missing(m)') \in Nat
    BY <1>10, <2>2, FS_Subset, FS_CardinalityType
  <2>4. Cardinality(Missing(m)') <= rcv'.lost
    BY <1>6, <1>7, <1>10, <2>3
  <2> QED BY <2>1, <2>4
<1>13. CASE ~(s <= m)
  <2>1. s \in Came' /\ \A t \in Came' : t <= s
    BY <1>7, <1>8, <1>9, <1>13
  <2> DEFINE gap == m + 1 .. s - 1
  <2>2. IsFiniteSet(gap) /\ Cardinality(gap) = s - 1 - m
    <3>1. m + 1 \in Int /\ s - 1 \in Int /\ s - 1 >= m + 1 - 1
      BY <1>8, <1>13
    <3> DEFINE a == m + 1
               b == s - 1
    <3>5. gap = a .. b
      OBVIOUS
    <3>2. a \in Int /\ b \in Int /\ b >= a - 1
      <4>1. m \in Nat /\ m < s
        BY <1>8, <1>13
      <4> QED BY <4>1
    <3> HIDE DEF a, b, gap
    <3>3. IsFiniteSet(gap) /\ Cardinality(gap) = b - a + 1
      BY <3>2, <3>5, FewBetween
    <3>4. b - a + 1 = s - 1 - m
      BY <1>8 DEF a, b
    <3> QED BY <3>3, <3>4
  <2>3. Missing(s)' \subseteq Missing(m) \union gap
    <3>1. Missing(s)' = (f .. s) \ (Came \union {s})
      BY <1>11
    <3>2. ASSUME NEW t \in f .. s, t # s, t \notin Came PROVE t \in ((f .. m) \ Came) \union gap
      BY <1>8, <1>13, <3>2 DEF f
    <3> HIDE DEF gap
    <3> QED BY <1>10, <3>1, <3>2
  <2> HIDE DEF gap
  <2>4. /\ IsFiniteSet(Missing(m) \union gap)
        /\ Cardinality(Missing(m) \union gap) <= Cardinality(Missing(m)) + Cardinality(gap)
    <3>1. IsFiniteSet(Missing(m)) /\ IsFiniteSet(gap)
      BY <1>10, <2>2
    <3>2. Cardinality(Missing(m) \union gap) =
            Cardinality(Missing(m)) + Cardinality(gap) - Cardinality(Missing(m) \cap gap)
      BY <3>1, FS_Union
    <3>3. Cardinality(Missing(m) \cap gap) \in Nat
      BY <3>1, FS_Intersection, FS_CardinalityType
    <3>4. IsFiniteSet(Missing(m) \union gap)
      BY <3>1, FS_Union
    <3>5. Cardinality(gap) \in Nat
      BY <3>1, FS_CardinalityType
    <3> QED BY <1>10, <3>2, <3>3, <3>4, <3>5
  <2>5. /\ Cardinality(Missing(s)') <= Cardinality(Missing(m) \union gap)
        /\ Cardinality(Missing(s)') \in Nat /\ Cardinality(Missing(m) \union gap) \in Nat
    BY <2>3, <2>4, FS_Subset, FS_CardinalityType
  <2>6. s - 1 - m <= d /\ s - 1 - m \in Nat
    BY <1>3, <1>8, <1>13 DEF d
  <2>7. Cardinality(Missing(s)') <= rcv'.lost
    BY <1>6, <1>7, <1>10, <2>2, <2>4, <2>5, <2>6
  <2> QED BY <2>1, <2>7
<1> QED BY <1>12, <1>13

LEMMA LossGoesOn ==
  ASSUME NetInv, LossInv, [Next]_vars PROVE LossInv'
<1>1. CASE UNCHANGED <<stream, rcv, arrived>>
  BY <1>1 DEF LossInv, InReach, Came, Missing
<1>2. CASE HandleRtpPacket
  <2> DEFINE p == Head(net)
  <2>1. net # <<>> /\ UNCHANGED stream
    BY <1>2 DEF HandleRtpPacket
  <2>2. Right(p, sent) /\ stream.seq \in Nat
    <3>1. AllRight(net, sent) /\ 1 \in 1 .. Len(net)
      BY <2>1, SequenceLength, SequenceEmpty DEF NetInv, AllRight
    <3> QED BY <3>1, RightFew DEF NetInv, StreamIs
  <2>3. CASE UNCHANGED <<rcv, arrived>>
    BY <1>1, <2>1, <2>3
  <2>4. CASE rcv' = CountForeign(rcv, p.ts) /\ UNCHANGED arrived
    <3>1. /\ {"begun", "expected", "lost"} \subseteq DOMAIN rcv'
          /\ rcv'.begun = rcv.begun /\ rcv'.lost = rcv.lost /\ rcv'.expected = rcv.expected
      BY <2>4 DEF CountForeign, LossInv
    <3> QED BY <2>1, <2>4, <3>1 DEF LossInv, InReach, Came, Missing
  <2>5. CASE rcv' = TrackSequence(rcv, p.seq) /\ arrived' = Append(arrived, p.serial)
    <3> DEFINE s == p.serial
    <3>1. s \in Nat /\ p.seq = (stream.seq + s) % SeqModulus
      BY <2>2 DEF Right
    <3> HIDE DEF s
    <3>2. rcv' = TrackSequence(rcv, (stream.seq + s) % SeqModulus) /\ arrived' = Append(arrived, s)
      BY <2>5, <3>1 DEF s
    <3> HIDE DEF p
    <3>3. IsSequence(arrived) /\ Len(arrived) \in Nat
      BY SequenceLength DEF LossInv
    <3>4. /\ IsSequence(arrived') /\ Len(arrived') = Len(arrived) + 1
          /\ \A i \in 1 .. Len(arrived) : arrived'[i] = arrived[i]
          /\ arrived'[Len(arrived')] = s
      BY <3>2, <3>3, AppendedSequence
    <3>5. arrived' # <<>>
      BY <3>3, <3>4, SequenceEmpty
    <3>6. \A i \in 1 .. Len(arrived') : arrived'[i] \in Nat
      <4>1. \A i : i \in 1 .. Len(arrived') <=> i \in 1 .. Len(arrived) \/ i = Len(arrived')
        BY <3>3, <3>4
      <4> QED BY <3>1, <3>4, <4>1 DEF LossInv
    <3>7. /\ {"begun", "expected", "lost"} \subseteq DOMAIN rcv'
          /\ rcv'.begun = TRUE
          /\ rcv'.expected = (((stream.seq + s) % SeqModulus) + 1) % SeqModulus
      BY <3>2 DEF TrackSequence, LossInv
    <3>8. rcv'.expected = (stream.seq + s + 1) % SeqModulus
      <4>1. stream.seq + s \in Int
        BY <2>2, <3>1
      <4> QED BY <3>7, <4>1, RemainderPlus, ReceiverAssumption
    <3>9. rcv'.lost \in Nat /\ (arrived = <<>> => rcv'.lost = rcv.lost)
      <4> DEFINE a == (stream.seq + s) % SeqModulus
                 diff == SeqDiff(a, rcv.expected)
      <4>1. "lost" \in DOMAIN rcv /\ rcv.lost \in Nat /\ (arrived = <<>> => ~rcv.begun)
        BY DEF LossInv
      <4>2. rcv'.lost = IF rcv.begun /\ diff > 0 THEN rcv.lost + diff ELSE rcv.lost
        BY <3>2, <4>1 DEF TrackSequence
      <4>3. ASSUME rcv.begun PROVE diff \in Int
        <5>1. a \in Int /\ rcv.expected \in Int
          <6>1. stream.seq + s \in Int
            BY <2>2, <3>1
          <6>2. stream.seq + arrived[Len(arrived)] + 1 \in Int
            <7>1. arrived # <<>>
              BY <4>3 DEF LossInv
            <7>2. Len(arrived) \in 1 .. Len(arrived)
              BY <3>3, <7>1, SequenceEmpty
            <7> QED BY <2>2, <7>2 DEF LossInv
          <6>3. rcv.expected = (stream.seq + arrived[Len(arrived)] + 1) % SeqModulus
            BY <4>3 DEF LossInv
          <6>4. ASSUME NEW x \in Int PROVE x % SeqModulus \in Int
            BY Remainder, ReceiverAssumption
          <6> QED BY <6>1, <6>2, <6>3, <6>4
        <5> HIDE DEF a
        <5>2. a - rcv.expected + SeqModulus \div 2 \in Int /\ SeqModulus \div 2 \in Int
          BY <5>1, ReceiverAssumption, SMT
        <5>3. (a - rcv.expected + SeqModulus \div 2) % SeqModulus \in Int
          BY <5>2, Remainder, ReceiverAssumption
        <5> QED BY <5>2, <5>3 DEF SeqDiff
      <4> HIDE DEF diff
      <4> QED BY <4>1, <4>2, <4>3
    <3>10. InReach' => \E m \in Came' : /\ \A t \in Came' : t <= m
                                         /\ Cardinality(Missing(m)') <= rcv'.lost
      <4>1. CASE arrived = <<>>
        <5>1. IsSequence(arrived') /\ Len(arrived') = 1 /\ arrived'[1] = s
          BY <3>4, <4>1, EmptySequence
        <5> QED BY <3>1, <3>9, <5>1, LossBegins DEF LossInv
      <4>2. CASE arrived # <<>>
        BY <2>2, <3>1, <3>2, <4>2, LossAccepted
      <4> QED BY <4>1, <4>2
    <3> QED BY <2>1, <3>4, <3>5, <3>6, <3>7, <3>8, <3>9, <3>10 DEF LossInv
  <2> HIDE DEF p
  <2> QED BY <1>2, <2>3, <2>4, <2>5 DEF HandleRtpPacket, p
<1>3. CASE SendFrame \/ Fault \/ UNCHANGED vars
  BY <1>1, <1>3 DEF SendFrame, Fault, vars
<1> QED BY <1>2, <1>3 DEF Next

\* LossNotUnderstated: packets_lost counts at least the packets between the
\* first and the last accepted one that did not come, however packets are
\* lost, doubled and reordered, for any width of the sequence number, as long
\* as no packet is accepted further from the one before than half the numbers
\* (which track_sequence() takes for a step in the other direction).
THEOREM LossesCounted == Spec => [](InReach => LossNotUnderstated)
<1>1. Init => NetInv /\ LossInv
  BY NetStarts, LossStarts
<1>2. NetInv /\ LossInv /\ [Next]_vars => NetInv' /\ LossInv'
  BY NetGoesOn, LossGoesOn
<1>3. LossInv => (InReach => LossNotUnderstated)
  <2> SUFFICES ASSUME LossInv, InReach, arrived # <<>>
               PROVE  LET last == CHOOSE s \in Came : \A t \in Came : t <= s
                      IN rcv.lost >= Cardinality((arrived[1] .. last) \ Came)
    BY DEF LossNotUnderstated, Came
  <2>1. PICK m \in Came : (\A t \in Came : t <= m) /\ Cardinality(Missing(m)) <= rcv.lost
    BY DEF LossInv
  <2> DEFINE last == CHOOSE s \in Came : \A t \in Came : t <= s
  <2>2. last \in Came /\ \A t \in Came : t <= last
    BY <2>1
  <2> HIDE DEF last
  <2>3. Came \subseteq Nat
    BY WhatCame DEF LossInv
  <2>4. last = m
    BY <2>1, <2>2, <2>3
  <2>5. rcv.lost \in Nat /\ Cardinality(Missing(m)) \in Nat
    <3>1. 1 \in 1 .. Len(arrived) /\ IsSequence(arrived)
      BY SequenceLength, SequenceEmpty DEF LossInv
    <3>2. arrived[1] \in Nat /\ m \in Nat
      BY <2>3, <3>1 DEF LossInv
    <3>3. IsFiniteSet(arrived[1] .. m)
      <4> DEFINE a == arrived[1]
      <4>1. a \in Int /\ m \in Int
        BY <3>2
      <4> HIDE DEF a
      <4>2. IsFiniteSet(a .. m)
        BY <4>1, FewBetween
      <4> QED BY <4>2 DEF a
    <3>4. IsFiniteSet(Missing(m))
      BY <3>3, FS_Subset DEF Missing
    <3> QED BY <3>4, FS_CardinalityType DEF LossInv
  <2>6. rcv.lost >= Cardinality((arrived[1] .. last) \ Came)
    BY <2>1, <2>4, <2>5 DEF Missing
  <2> QED BY <2>6 DEF last
<1> QED BY <1>1, <1>2, <1>3, PTL DEF Spec

-----------------------------------------------------------------------------
(* RtpReceiver: pictures and what is sent of them. *)

Pic(f)  == Frame(f).picture
Size(f) == NalsOf(f)[1].size

\* The bytes of a scan in its first packet.
Opening(f) == Smaller(ChunkLimit, Size(f))

\* The pictures among the first n frames.
Shots(n) == {g \in 1 .. n : Frame(g).kind = "good"}

ShotFits(f) ==
  /\ Pic(f).type \in Nat /\ Pic(f).q # Sizeless /\ Pic(f).sends \in BOOLEAN
  /\ Pic(f).tables \in Seq(ToSet(Pic(f).tables)) /\ Len(Pic(f).tables) <= 2
  /\ Pic(f).type < 64 => Pic(f).interval = 0
  /\ SamplingShows(Pic(f), Size(f))

LEMMA ShotsFit ==
  ASSUME StreamIs, PicturesByRfc, stream.codec = "jpeg"
  PROVE  /\ \A f \in 1 .. MaxFrames : /\ Frame(f).kind \in {"good", "odd", "stray", "foreign"}
                                      /\ Size(f) \in Nat \ {0}
         /\ \A f \in Shots(MaxFrames) : ShotFits(f)
         /\ \A f, g \in Shots(MaxFrames) :
              Pic(f).q = Pic(g).q => /\ Pic(f).tables = <<>> <=> Pic(g).tables = <<>>
                                     /\ ~Pic(f).sends => Pic(f).tables = Pic(g).tables
<1>1. "jpeg" \in Codecs /\ \A f \in 1 .. MaxFrames : Frame(f) \in Shapes["jpeg"]
  BY DEF StreamIs, Frame
<1>2. \A f \in 1 .. MaxFrames : Size(f) \in Nat \ {0} /\ Size(f) = Frame(f).nals[1].size
  <2> TAKE f \in 1 .. MaxFrames
  <2> DEFINE nals == Frame(f).nals
  <2>1. nals \in Seq([type : STRING, size : Nat \ {0}]) /\ nals # <<>>
    BY <1>1, ReceiverAssumption
  <2>2. NalsOf(f) = [n \in DOMAIN nals |->
                       [id |-> <<f, n>>, type |-> nals[n].type, size |-> nals[n].size]]
    BY DEF NalsOf
  <2> HIDE DEF nals
  <2>3. 1 \in 1 .. Len(nals) /\ DOMAIN nals = 1 .. Len(nals)
    BY <2>1
  <2>4. nals[1] \in [type : STRING, size : Nat \ {0}]
    BY <2>1, <2>3, SequenceElement
  <2>5. Size(f) = nals[1].size
    BY <2>2, <2>3 DEF Size
  <2> QED BY <2>4, <2>5 DEF nals
<1> DEFINE good == {s \in Shapes["jpeg"] : s.kind = "good"}
<1>3. \A f \in Shots(MaxFrames) : f \in 1 .. MaxFrames /\ Frame(f) \in good
  BY <1>1 DEF Shots
<1>4. /\ \A s \in Shapes["jpeg"] : s.kind \in {"good", "odd", "stray", "foreign"}
      /\ \A s \in good :
           /\ s.picture.type \in Nat /\ s.picture.q # Sizeless /\ s.picture.sends \in BOOLEAN
           /\ s.picture.tables \in Seq(ToSet(s.picture.tables)) /\ Len(s.picture.tables) <= 2
           /\ s.picture.type < 64 => s.picture.interval = 0
           /\ SamplingShows(s.picture, s.nals[1].size)
      /\ \A s, t \in good :
           s.picture.q = t.picture.q =>
             /\ s.picture.tables = <<>> <=> t.picture.tables = <<>>
             /\ ~s.picture.sends => s.picture.tables = t.picture.tables
  BY <1>1 DEF PicturesByRfc
<1> HIDE DEF good
<1>5. \A f \in Shots(MaxFrames) : ShotFits(f)
  BY <1>2, <1>3, <1>4, Zenon DEF ShotFits, Pic
<1>6. \A f, g \in Shots(MaxFrames) :
        Pic(f).q = Pic(g).q => /\ Pic(f).tables = <<>> <=> Pic(g).tables = <<>>
                               /\ ~Pic(f).sends => Pic(f).tables = Pic(g).tables
  BY <1>3, <1>4, Zenon DEF Pic
<1> QED BY <1>1, <1>2, <1>4, <1>5, <1>6, Zenon

\* Fragments of the picture f.
Fragment(p, f) ==
  /\ p.kind = "jpeg"
  /\ p.q = Pic(f).q /\ p.type = Pic(f).type /\ p.interval = Pic(f).interval
  /\ p.offset \in Nat
  /\ p.tables = IF p.offset = 0 /\ Pic(f).sends THEN Pic(f).tables ELSE <<>>
  /\ IsSequence(p.scan)
  /\ \A i \in 1 .. Len(p.scan) : p.scan[i] = PictureByte(f, p.offset + i)
  /\ p.offset = 0 => Len(p.scan) = Opening(f)

LEMMA LimitIs == ChunkLimit \in Nat \ {0}
BY PacketizerAssumption DEF ChunkLimit

LEMMA BodyIsFragment ==
  ASSUME StreamIs, PicturesByRfc, stream.codec = "jpeg", NEW f \in 1 .. MaxFrames,
         NEW k \in 1 .. Len(Bodies(f)), Bodies(f)[k].payload.kind = "jpeg"
  PROVE  /\ Frame(f).kind \in {"good", "foreign"}
         /\ Fragment(Bodies(f)[k].payload, f)
         /\ Times(f)[k] = Timestamp(f)
<1>1. Frame(f).kind \notin {"odd", "stray"}
  <2> SUFFICES ASSUME Frame(f).kind \in {"odd", "stray"} PROVE FALSE
    OBVIOUS
  <2>1. Bodies(f) = <<[payload |-> [kind |-> Frame(f).kind], marker |-> TRUE]>>
    BY DEF Bodies
  <2>2. k = 1
    BY <2>1
  <2>3. Bodies(f)[k].payload.kind = Frame(f).kind
    BY <2>1, <2>2
  <2> QED BY <2>3
<1>2. Size(f) \in Nat \ {0} /\ Frame(f).kind \in {"good", "odd", "stray", "foreign"}
  BY ShotsFit
<1>3. Bodies(f) = PacketizeJpeg(NalsOf(f)[1], Frame(f).picture)
  BY <1>1 DEF Bodies
<1>4. PICK n \in Nat : DOMAIN Chunks(Size(f)) = 1 .. n
  BY <1>2, ChunksAre
<1>5. DOMAIN Bodies(f) = 1 .. n /\ Len(Bodies(f)) = n
  <2>1. DOMAIN Bodies(f) = 1 .. n /\ Bodies(f) = [j \in 1 .. n |-> Bodies(f)[j]]
    BY <1>3, <1>4 DEF PacketizeJpeg, Size
  <2> QED BY <2>1, CountedSequence
<1> DEFINE from == Chunks(Size(f))[k].from
           to   == Chunks(Size(f))[k].to
<1>6. from = (k - 1) * ChunkLimit + 1 /\ to = Smaller(k * ChunkLimit, Size(f))
  BY <1>4, <1>5 DEF Chunks
<1> DEFINE scan == [i \in 1 .. (to - from + 1) |->
                      <<NalsOf(f)[1].id, from + i - 1, Pic(f).sampling>>]
<1>7. Bodies(f)[k] =
        [payload |-> [kind |-> "jpeg", offset |-> from - 1, scan |-> scan,
                      q |-> Pic(f).q, type |-> Pic(f).type, interval |-> Pic(f).interval,
                      tables |-> IF k = 1 /\ Pic(f).sends THEN Pic(f).tables ELSE <<>>],
         marker  |-> k = Len(Chunks(Size(f)))]
  BY <1>3, <1>4, <1>5 DEF PacketizeJpeg, Size, Pic
<1>8. from \in Nat /\ from - 1 \in Nat /\ to \in Int /\ (from - 1 = 0 <=> k = 1)
  <2> DEFINE c == ChunkLimit
  <2>1. c \in Nat \ {0} /\ k - 1 \in Nat
    BY <1>5, LimitIs
  <2> HIDE DEF c
  <2>2. (k - 1) * c \in Nat /\ k * c \in Int
    BY <2>1
  <2>3. (k - 1) * c = 0 <=> k = 1
    BY <2>1
  <2>4. to \in Int
    BY <1>2, <1>6, <2>2 DEF Smaller, c
  <2> QED BY <1>6, <2>2, <2>3, <2>4 DEF c
<1>9. k = 1 => from = 1 /\ to = Opening(f)
  <2> SUFFICES ASSUME k = 1 PROVE from = 1 /\ to = Opening(f)
    OBVIOUS
  <2>1. (k - 1) * ChunkLimit + 1 = 1 /\ k * ChunkLimit = ChunkLimit
    BY LimitIs
  <2> QED BY <1>6, <2>1 DEF Opening
<1>10. Opening(f) \in Nat \ {0}
  BY <1>2, LimitIs DEF Opening, Smaller
<1> HIDE DEF from, to
<1>11. PICK m \in Nat : 1 .. (to - from + 1) = 1 .. m /\ (k = 1 => m = Opening(f))
  <2>1. CASE to - from + 1 >= 0
    <3>1. to - from + 1 \in Nat /\ (k = 1 => to - from + 1 = Opening(f))
      BY <1>8, <1>9, <1>10, <2>1
    <3> QED BY <3>1
  <2>2. CASE ~(to - from + 1 >= 0)
    <3>1. 1 .. (to - from + 1) = 1 .. 0 /\ k # 1
      BY <1>8, <1>9, <1>10, <2>2
    <3> QED BY <3>1
  <2> QED BY <2>1, <2>2
<1>12. /\ DOMAIN scan = 1 .. m /\ scan = [i \in 1 .. m |-> scan[i]]
       /\ \A i \in 1 .. m : scan[i] = <<NalsOf(f)[1].id, from + i - 1, Pic(f).sampling>>
  BY <1>11
<1> HIDE DEF scan
<1>13. IsSequence(scan) /\ Len(scan) = m
  BY <1>12, CountedSequence
<1>14. \A i \in 1 .. m : scan[i] = PictureByte(f, (from - 1) + i)
  <2> TAKE i \in 1 .. m
  <2>1. from + i - 1 = (from - 1) + i
    BY <1>8
  <2> QED BY <1>12, <2>1 DEF PictureByte, Pic
<1> DEFINE b == Bodies(f)[k].payload
<1>15. /\ b.kind = "jpeg" /\ b.offset = from - 1 /\ b.scan = scan
       /\ b.q = Pic(f).q /\ b.type = Pic(f).type /\ b.interval = Pic(f).interval
       /\ b.tables = IF k = 1 /\ Pic(f).sends THEN Pic(f).tables ELSE <<>>
       /\ DOMAIN Bodies(f)[k] = {"payload", "marker"}
  BY <1>7
<1>16. Fragment(b, f)
  <2> HIDE DEF b
  <2>1. b.offset \in Nat /\ (b.offset = 0 <=> k = 1)
    BY <1>8, <1>15
  <2>2. b.tables = IF b.offset = 0 /\ Pic(f).sends THEN Pic(f).tables ELSE <<>>
    BY <1>15, <2>1
  <2>3. /\ IsSequence(b.scan) /\ Len(b.scan) = m
        /\ \A i \in 1 .. m : b.scan[i] = PictureByte(f, b.offset + i)
    BY <1>13, <1>14, <1>15
  <2>4. b.offset = 0 => m = Opening(f)
    BY <1>11, <2>1
  <2> QED BY <1>15, <2>1, <2>2, <2>3, <2>4 DEF Fragment
<1>17. Times(f)[k] = Timestamp(f)
  <2>1. Times(f)[k] = Timestamp(f) + 0
    BY <1>5, <1>15 DEF Times
  <2>2. Timestamp(f) \in Int
    <3>1. stream.ts + (f - 1) * TsStep \in Int
      BY ReceiverAssumption DEF StreamIs
    <3>2. TsModulus \in Nat \ {0}
      BY ReceiverAssumption
    <3> DEFINE x == stream.ts + (f - 1) * TsStep
    <3>3. x \in Int
      BY <3>1
    <3>4. Timestamp(f) = x % TsModulus
      BY DEF Timestamp
    <3> HIDE DEF x
    <3>5. x % TsModulus \in Int
      BY <3>2, <3>3, Remainder
    <3> QED BY <3>4, <3>5
  <2> QED BY <2>1, <2>2
<1> QED BY <1>1, <1>2, <1>16, <1>17

\* A camera that stamps every frame differently.
LEMMA StampsTell ==
  ASSUME StreamIs, StampsDiffer, NEW f \in 1 .. MaxFrames, NEW g \in 1 .. MaxFrames,
         Timestamp(f) = Timestamp(g)
  PROVE  f = g
<1> DEFINE m == TsModulus
           s == TsStep
           x == stream.ts + (f - 1) * s
           y == stream.ts + (g - 1) * s
<1>1. /\ m \in Nat \ {0} /\ s \in Nat \ {0} /\ stream.ts \in Nat
      /\ f \in Nat /\ g \in Nat /\ MaxFrames \in Nat
  BY ReceiverAssumption DEF StreamIs
<1>2. x % m = y % m
  BY DEF Timestamp
<1> HIDE DEF m, s
<1>3. (f - 1) * s \in Int /\ (g - 1) * s \in Int
  BY <1>1
<1>4. x \in Int /\ y \in Int /\ x - y = (f - 1) * s - (g - 1) * s
  BY <1>1, <1>3
<1>5. PICK j \in Int : x = (x % m) + m * j
  BY <1>1, <1>4, Remainder
<1>6. PICK k \in Int : y = (y % m) + m * k
  BY <1>1, <1>4, Remainder
<1>7. x % m \in Int
  BY <1>1, <1>4, Remainder
<1> DEFINE r == x % m
<1>8. r \in Int /\ x = r + m * j /\ y = r + m * k
  BY <1>2, <1>5, <1>6, <1>7
<1> HIDE DEF r, x, y
<1>9. m * j \in Int /\ m * k \in Int /\ x - y = m * j - m * k /\ y - x = m * k - m * j
  BY <1>1, <1>8, Multiples
<1>10. (x - y < m => x - y <= 0) /\ (y - x < m => y - x <= 0)
  BY <1>1, <1>9, Multiples
<1>11. /\ (f - 1) * s - (g - 1) * s = (f - g) * s
       /\ (f - g >= 1 => (f - g) * s >= s) /\ (f - g <= -1 => (f - g) * s <= -s)
  BY <1>1, SMT
<1>12. (f - g) * s < m /\ (f - g) * s > -m
  <2>1. (MaxFrames - 1) * s = MaxFrames * s - s /\ MaxFrames * s \in Int
    BY <1>1, SMT
  <2>2. MaxFrames * s <= m
    BY DEF StampsDiffer, m, s
  <2>3. (f - g) * s <= (MaxFrames - 1) * s
    <3>1. f - g <= MaxFrames - 1
      BY <1>1
    <3> QED BY <1>1, <3>1, SMT
  <2>4. (g - f) * s <= (MaxFrames - 1) * s
    <3>1. g - f <= MaxFrames - 1
      BY <1>1
    <3> QED BY <1>1, <3>1, SMT
  <2>5. (g - f) * s = -((f - g) * s) /\ (f - g) * s \in Int
    BY <1>1, SMT
  <2> QED BY <1>1, <2>1, <2>2, <2>3, <2>4, <2>5
<1>13. (f - g) * s = 0
  BY <1>4, <1>10, <1>11, <1>12, <1>1
<1> QED BY <1>1, <1>11, <1>13

-----------------------------------------------------------------------------
(* RtpDepacketizer: a picture as it is filled. *)

\* What is there of the picture f: each byte in its place, or nothing.
ScanFits(s, f) ==
  /\ IsSequence(s) /\ Len(s) >= Opening(f)
  /\ \A k \in 1 .. Len(s) : s[k] \in {Gap, PictureByte(f, k)}
  /\ \A k \in 1 .. Opening(f) : s[k] = PictureByte(f, k)

LEMMA CopyIs ==
  ASSUME NEW s, IsSequence(s), NEW b, IsSequence(b), NEW offset \in Nat
  PROVE  LET c == CopyScan(s, offset, b)
         IN /\ IsSequence(c) /\ Len(c) \in Nat
            /\ Len(c) >= Len(s) /\ Len(c) >= offset + Len(b)
            /\ \A i \in 1 .. Len(c) :
                 c[i] = IF i > offset /\ i <= offset + Len(b) THEN b[i - offset]
                        ELSE IF i <= Len(s) THEN s[i] ELSE Gap
<1>1. Len(s) \in Nat /\ Len(b) \in Nat
  BY SequenceLength
<1> DEFINE end == offset + Len(b)
           n   == IF end > Len(s) THEN end ELSE Len(s)
           c   == CopyScan(s, offset, b)
<1>2. end \in Nat /\ n \in Nat /\ n >= Len(s) /\ n >= end
  BY <1>1
<1>3. c = [i \in 1 .. n |-> IF i > offset /\ i <= end THEN b[i - offset]
                            ELSE IF i <= Len(s) THEN s[i] ELSE Gap]
  BY DEF CopyScan
<1> HIDE DEF n, c
<1>4. DOMAIN c = 1 .. n /\ c = [i \in 1 .. n |-> c[i]]
  BY <1>3
<1>5. IsSequence(c) /\ Len(c) = n
  BY <1>2, <1>4, CountedSequence
<1>6. \A i \in 1 .. n : c[i] = IF i > offset /\ i <= end THEN b[i - offset]
                               ELSE IF i <= Len(s) THEN s[i] ELSE Gap
  BY <1>3
<1> QED BY <1>2, <1>5, <1>6 DEF c

LEMMA CopyFits ==
  ASSUME NEW f, Opening(f) \in Nat, NEW s, NEW p, Fragment(p, f),
         IsSequence(s), \A k \in 1 .. Len(s) : s[k] \in {Gap, PictureByte(f, k)},
         ScanFits(s, f) \/ p.offset = 0
  PROVE  ScanFits(CopyScan(s, p.offset, p.scan), f)
<1> DEFINE c == CopyScan(s, p.offset, p.scan)
<1>1. /\ p.offset \in Nat /\ IsSequence(p.scan)
      /\ \A i \in 1 .. Len(p.scan) : p.scan[i] = PictureByte(f, p.offset + i)
      /\ p.offset = 0 => Len(p.scan) = Opening(f)
  BY DEF Fragment
<1>2. /\ IsSequence(c) /\ Len(c) \in Nat
      /\ Len(c) >= Len(s) /\ Len(c) >= p.offset + Len(p.scan)
      /\ \A i \in 1 .. Len(c) :
           c[i] = IF i > p.offset /\ i <= p.offset + Len(p.scan) THEN p.scan[i - p.offset]
                  ELSE IF i <= Len(s) THEN s[i] ELSE Gap
  BY <1>1, CopyIs
<1>3. Len(p.scan) \in Nat /\ Len(s) \in Nat
  BY <1>1, SequenceLength
<1> HIDE DEF c
<1>4. ASSUME NEW i \in 1 .. Len(c), i > p.offset, i <= p.offset + Len(p.scan)
      PROVE  c[i] = PictureByte(f, i)
  <2>1. i - p.offset \in 1 .. Len(p.scan) /\ p.offset + (i - p.offset) = i
    BY <1>1, <1>2, <1>3, <1>4
  <2>2. p.scan[i - p.offset] = PictureByte(f, p.offset + (i - p.offset))
    BY <1>1, <2>1
  <2>3. c[i] = p.scan[i - p.offset]
    BY <1>2, <1>4
  <2> QED BY <2>1, <2>2, <2>3
<1>5. ASSUME NEW i \in 1 .. Len(c), ~(i > p.offset /\ i <= p.offset + Len(p.scan))
      PROVE  c[i] = IF i <= Len(s) THEN s[i] ELSE Gap
  BY <1>2, <1>5, Zenon
<1>6. \A i \in 1 .. Len(c) : c[i] \in {Gap, PictureByte(f, i)}
  <2> TAKE i \in 1 .. Len(c)
  <2>1. i <= Len(s) => i \in 1 .. Len(s)
    BY <1>2, <1>3
  <2> QED BY <1>4, <1>5, <2>1
<1>7. Len(c) >= Opening(f) /\ \A i \in 1 .. Opening(f) : c[i] = PictureByte(f, i)
  <2>1. CASE p.offset = 0
    <3>1. Len(p.scan) = Opening(f) /\ Len(c) >= Opening(f)
      BY <1>1, <1>2, <1>3, <2>1
    <3>2. \A i \in 1 .. Opening(f) : i \in 1 .. Len(c) /\ i > p.offset /\ i <= p.offset + Len(p.scan)
      BY <1>1, <1>2, <2>1, <3>1
    <3> QED BY <1>4, <3>1, <3>2
  <2>2. CASE ScanFits(s, f)
    <3>1. Len(s) >= Opening(f) /\ \A i \in 1 .. Opening(f) : s[i] = PictureByte(f, i)
      BY <2>2 DEF ScanFits
    <3>2. Len(c) >= Opening(f)
      BY <1>2, <1>3, <3>1
    <3>3. \A i \in 1 .. Opening(f) : i \in 1 .. Len(c) /\ i <= Len(s)
      BY <1>2, <1>3, <3>1, <3>2
    <3> QED BY <1>4, <1>5, <3>1, <3>2, <3>3
  <2> QED BY <2>1, <2>2
<1> QED BY <1>2, <1>6, <1>7 DEF ScanFits, c

\* The scan is read to the first byte that is not sampled as supposed.
LEMMA DecodeStops ==
  ASSUME NEW s, IsSequence(s), NEW a
  PROVE  \E n \in 1 .. Len(s) + 1 :
           /\ TryDecodeMcus(s, a) = n \div McuSize
           /\ n <= Len(s) => s[n][3] # a
           /\ \A m \in 1 .. n - 1 : s[m][3] = a
<1>1. Len(s) \in Nat
  BY SequenceLength
<1> DEFINE Fails(n) == n > Len(s) \/ s[n][3] # a
           Stops(n) == Fails(n) /\ \A m \in 1 .. n - 1 : ~Fails(m)
           n == CHOOSE i \in 1 .. Len(s) + 1 : Stops(i)
<1>2. TryDecodeMcus(s, a) = n \div McuSize
  BY DEF TryDecodeMcus
<1>3. \E i \in 1 .. Len(s) + 1 : Stops(i)
  <2> DEFINE T == {i \in 1 .. Len(s) + 1 : Fails(i)}
  <2>1. Len(s) + 1 \in T /\ T \subseteq Nat
    BY <1>1
  <2>2. PICK i \in T : \A j \in T : i <= j
    <3> HIDE DEF T
    <3> QED BY <2>1, LeastNumber
  <2>3. i \in 1 .. Len(s) + 1 /\ Fails(i)
    OBVIOUS
  <2>4. ASSUME NEW m \in 1 .. i - 1 PROVE ~Fails(m)
    <3>1. m \in 1 .. Len(s) + 1 /\ ~(i <= m)
      BY <1>1, <2>3
    <3>2. m \notin T
      BY <2>2, <3>1
    <3> QED BY <3>1, <3>2
  <2> HIDE DEF Fails, T
  <2> QED BY <2>3, <2>4
<1>4. n \in 1 .. Len(s) + 1 /\ Stops(n)
  <2> HIDE DEF Stops
  <2> QED BY <1>3
<1> HIDE DEF n
<1>5. n <= Len(s) => s[n][3] # a
  BY <1>1, <1>4
<1>6. \A m \in 1 .. n - 1 : s[m][3] = a
  BY <1>4
<1> QED BY <1>2, <1>4, <1>5, <1>6

LEMMA QuotientsOrdered ==
  ASSUME NEW m \in Nat \ {0}, NEW a \in Nat, NEW b \in Nat
  PROVE  /\ a <= b => a \div m <= b \div m
         /\ a + m <= b => a \div m < b \div m
         /\ a \div m \in Int /\ b \div m \in Int
<1> DEFINE j == a \div m
           k == b \div m
           r == a % m
           t == b % m
<1>1. /\ j \in Int /\ k \in Int /\ r \in 0 .. m - 1 /\ t \in 0 .. m - 1
      /\ a = r + m * j /\ b = t + m * k
  <2>1. a \div m \in Int /\ b \div m \in Int
    BY SMT
  <2>2. a = (a % m) + m * (a \div m)
    BY SMT
  <2>3. b = (b % m) + m * (b \div m)
    BY SMT
  <2>4. a % m \in 0 .. m - 1 /\ b % m \in 0 .. m - 1
    BY SMT
  <2> QED BY <2>1, <2>2, <2>3, <2>4
<1> HIDE DEF j, k, r, t
<1>2. m * j \in Int /\ m * k \in Int /\ m * (k - j) = m * k - m * j
  BY <1>1, Multiples
<1>3. k - j <= 0 => m * (k - j) <= 0
  BY <1>1, SMT
<1>4. k - j <= -1 => m * (k - j) <= -m
  BY <1>1, SMT
<1>5. a <= b => j <= k
  BY <1>1, <1>2, <1>4
<1>6. a + m <= b => j < k
  BY <1>1, <1>2, <1>3
<1> QED BY <1>1, <1>5, <1>6 DEF j, k

\* The sampling that is found, when the type leaves it open.
FoundType(p, s) == RestartBits(p.type) + (IF DetectSubsampling(s) = "422" THEN 1 ELSE 0)

LEMMA SamplingIsFound ==
  ASSUME NEW f, ShotFits(f), Size(f) \in Nat \ {0}, NEW s, ScanFits(s, f),
         ~(Pic(f).type % 64 > 1)
  PROVE  WriteSof0(FoundType(Pic(f), s)) = Pic(f).sampling /\ FoundType(Pic(f), s) # NotDetected
<1>1. IsSequence(s) /\ Len(s) \in Nat /\ Opening(f) \in Nat \ {0} /\ Len(s) >= Opening(f)
  BY SequenceLength, LimitIs DEF ScanFits, Opening, Smaller
<1> DEFINE a == Pic(f).sampling
<1>2. \A k \in 1 .. Opening(f) : s[k][3] = a
  BY DEF ScanFits, PictureByte, Pic
<1>3. PICK n \in 1 .. Len(s) + 1 : /\ TryDecodeMcus(s, "420") = n \div McuSize
                                   /\ n <= Len(s) => s[n][3] # "420"
                                   /\ \A m \in 1 .. n - 1 : s[m][3] = "420"
  BY <1>1, DecodeStops
<1>4. PICK o \in 1 .. Len(s) + 1 : /\ TryDecodeMcus(s, "422") = o \div McuSize
                                   /\ o <= Len(s) => s[o][3] # "422"
                                   /\ \A m \in 1 .. o - 1 : s[m][3] = "422"
  BY <1>1, DecodeStops
<1>5. McuSize \in Nat \ {0} /\ n \in Nat /\ o \in Nat
  BY <1>1, <1>3, <1>4, ReceiverAssumption
<1>6. \/ a = "422"
      \/ a = "420" /\ Opening(f) >= McuSize
  BY DEF ShotFits, SamplingShows, Opening
<1> HIDE DEF a
<1>7. 1 \in 1 .. Opening(f) /\ s[1][3] = a
  BY <1>1, <1>2
<1>8. CASE a = "422"
  <2>1. n = 1
    <3>1. 1 \in 1 .. n - 1 => s[1][3] = "420"
      BY <1>3
    <3>2. ~(1 \in 1 .. n - 1)
      BY <1>7, <1>8, <3>1
    <3> QED BY <1>5, <1>3, <1>1, <3>2
  <2>2. n <= o
    BY <1>1, <1>4, <2>1
  <2>3. n \div McuSize <= o \div McuSize /\ n \div McuSize \in Int /\ o \div McuSize \in Int
    BY <1>5, <2>2, QuotientsOrdered
  <2>4. ~(TryDecodeMcus(s, "420") > TryDecodeMcus(s, "422"))
    BY <1>3, <1>4, <2>3
  <2>5. DetectSubsampling(s) = "422"
    BY <2>4 DEF DetectSubsampling
  <2>6. FoundType(Pic(f), s) \in {1, 65}
    BY <2>5 DEF FoundType, RestartBits
  <2> QED BY <1>8, <2>6 DEF WriteSof0, NotDetected, a
<1>9. CASE a = "420" /\ Opening(f) >= McuSize
  <2>1. o = 1
    <3>1. 1 \in 1 .. o - 1 => s[1][3] = "422"
      BY <1>4
    <3>2. ~(1 \in 1 .. o - 1)
      BY <1>7, <1>9, <3>1
    <3> QED BY <1>5, <1>4, <1>1, <3>2
  <2>2. ~(n <= Opening(f))
    <3>1. n <= Opening(f) => n \in 1 .. Opening(f) /\ n <= Len(s)
      BY <1>1, <1>3
    <3> QED BY <1>2, <1>3, <1>9, <3>1
  <2>3. o + McuSize <= n
    BY <1>1, <1>5, <1>9, <2>1, <2>2
  <2>4. o \div McuSize < n \div McuSize /\ n \div McuSize \in Int /\ o \div McuSize \in Int
    BY <1>5, <2>3, QuotientsOrdered
  <2>5. TryDecodeMcus(s, "420") > TryDecodeMcus(s, "422")
    BY <1>3, <1>4, <2>4
  <2>6. DetectSubsampling(s) = "420"
    BY <2>5 DEF DetectSubsampling
  <2>7. FoundType(Pic(f), s) \in {0, 64}
    BY <2>6 DEF FoundType, RestartBits
  <2> QED BY <1>9, <2>7 DEF WriteSof0, NotDetected, a
<1> QED BY <1>6, <1>8, <1>9

-----------------------------------------------------------------------------
(* RtpDepacketizer: what is kept from packet to packet. *)

\* A camera keeps to its sampling, and to restart markers or none.
Alike ==
  \A f, g \in Shots(MaxFrames) :
    Pic(f).sampling = Pic(g).sampling /\ RestartBits(Pic(f).type) = RestartBits(Pic(g).type)

\* Members that outlive the picture they are from; t is the last to come with tables.
Kept(d, t) ==
  /\ DOMAIN d = DOMAIN JpegInit
  /\ d.hasRestart => \A g \in Shots(MaxFrames) : Pic(g).type >= 64
  /\ d.detected # NotDetected => \A g \in Shots(MaxFrames) : WriteSof0(d.detected) = Pic(g).sampling
  /\ t = 0 => d.tables = <<>>
  /\ t # 0 => /\ t \in Shots(MaxFrames) /\ Pic(t).tables # <<>>
              /\ d.tables = Pic(t).tables /\ d.tablesQ = Pic(t).q

\* Members that tell of the picture f.
BegunWith(d, f, t) ==
  /\ d.ts = Timestamp(f) /\ d.q = Pic(f).q /\ d.type = Pic(f).type
  /\ Pic(f).sends /\ Pic(f).tables # <<>> => t = f

DepFits(d, n, t) ==
  /\ Kept(d, t)
  /\ d.started => \E f \in Shots(n) : BegunWith(d, f, t) /\ ScanFits(d.scan, f)

\* What comes out.
OutFits(frame, n, t) ==
  \E f \in Shots(n) : /\ Head(frame) = HeadAfter(f, t)
                      /\ \A k \in DOMAIN Tail(frame) : Tail(frame)[k] \in {Gap, PictureByte(f, k)}

\* The streams that are looked at.
Looked ==
  /\ StreamIs /\ PicturesByRfc /\ StampsDiffer /\ stream.codec = "jpeg" /\ Alike
  /\ \A f \in 1 .. MaxFrames : Timestamp(f) # 0

LEMMA Fields ==
  DOMAIN JpegInit = {"scan", "started", "q", "type", "ts", "tables", "tablesQ", "interval",
                     "hasRestart", "detected", "errors"}
BY DEF JpegInit

\* The tables as they are written: with one only, it serves for both.
WrittenTables(q) == <<WriteDqt(1, q), WriteDqt(2, q)>>

LEMMA DefaultsAreWritten ==
  ASSUME NEW q PROVE WrittenTables(DefaultQuantTables(q)) = DefaultQuantTables(q)
<1>1. PICK a, b : DefaultQuantTables(q) = <<a, b>>
  <2> DEFINE x == CASE q < 1 -> 5000 [] q \in 1 .. 49 -> 5000 \div q
                    [] q \in 50 .. 99 -> 200 - 2 * q [] OTHER -> 1
  <2>1. DefaultQuantTables(q) = <<<<"luma", x>>, <<"chroma", x>>>>
    BY DEF DefaultQuantTables
  <2> HIDE DEF x
  <2> QED BY <2>1
<1>2. WrittenTables(<<a, b>>) = <<a, b>>
  BY DEF WriteDqt, WrittenTables
<1> QED BY <1>1, <1>2

\* The tables of a picture that has some.
LEMMA OwnAreWritten ==
  ASSUME NEW f, ShotFits(f), Pic(f).tables # <<>>
  PROVE  WrittenTables(Pic(f).tables) = PictureHead(f).dqt
<1> DEFINE t == Pic(f).tables
<1>1. t \in Seq(ToSet(t)) /\ Len(t) <= 2
  BY DEF ShotFits
<1>2. PictureHead(f).dqt = CASE t = <<>>     -> DefaultQuantTables(Pic(f).q)
                             [] Len(t) = 1 -> <<t[1], t[1]>>
                             [] OTHER      -> t
  BY DEF PictureHead, Pic
<1>3. t # <<>>
  OBVIOUS
<1> HIDE DEF t
<1>4. Len(t) = 1 \/ Len(t) = 2
  <2>1. IsSequence(t)
    BY <1>1 DEF IsSequence
  <2>2. Len(t) \in Nat /\ Len(t) # 0 /\ Len(t) <= 2
    BY <1>1, <1>3, <2>1, SequenceLength, SequenceEmpty
  <2> DEFINE m == Len(t)
  <2>3. m \in Nat /\ m # 0 /\ m <= 2
    BY <2>2
  <2> HIDE DEF m
  <2>4. m = 1 \/ m = 2
    BY <2>3
  <2> QED BY <2>4 DEF m
<1>5. CASE Len(t) = 1
  <2>1. DOMAIN t = 1 .. 1 /\ 1 \in 1 .. 1 /\ 2 \notin 1 .. 1
    BY <1>1, <1>5
  <2>2. WriteDqt(1, t) = t[1] /\ WriteDqt(2, t) = t[1]
    BY <2>1 DEF WriteDqt
  <2>3. PictureHead(f).dqt = <<t[1], t[1]>>
    BY <1>2, <1>3, <1>5
  <2> QED BY <2>2, <2>3 DEF t, WrittenTables
<1>6. CASE Len(t) = 2
  <2>1. DOMAIN t = 1 .. 2 /\ 1 \in 1 .. 2 /\ 2 \in 1 .. 2
    BY <1>1, <1>6
  <2>2. WriteDqt(1, t) = t[1] /\ WriteDqt(2, t) = t[2]
    BY <2>1 DEF WriteDqt
  <2>3. Len(t) # 1
    BY <1>6
  <2>4. PictureHead(f).dqt = t
    BY <1>2, <1>3, <2>3
  <2>5. t = <<t[1], t[2]>>
    BY <1>1, <1>6
  <2> QED BY <2>2, <2>4, <2>5 DEF t, WrittenTables
<1> QED BY <1>4, <1>5, <1>6

\* What the depacketizer has of tables when it builds the picture f, t being
\* the last to come with some.
LEMMA TablesFit ==
  ASSUME Looked, NEW f \in Shots(MaxFrames), NEW t, NEW d, Kept(d, t), BegunWith(d, f, t),
         NEW own, own = <<>> \/ (own = Pic(f).tables /\ Pic(f).sends)
  PROVE  WrittenTables(QuantTables(d, own)) = HeadAfter(f, t).dqt
<1>1. ShotFits(f)
  BY ShotsFit DEF Looked
<1>2. d.q = Pic(f).q
  BY DEF BegunWith
<1>3. DOMAIN PictureHead(f) = {"dqt", "sof0", "dri"}
  BY DEF PictureHead
<1>4. HeadAfter(f, t).dqt = IF HasTables(f, t) THEN PictureHead(f).dqt
                            ELSE DefaultQuantTables(Pic(f).q)
  BY <1>3 DEF HeadAfter, Pic
<1>5. HasTables(f, t) <=> \/ Pic(f).sends \/ Pic(f).tables = <<>>
                         \/ (t # 0 /\ Pic(t).q = Pic(f).q)
  BY DEF HasTables, Pic
<1>6. Pic(f).tables = <<>> => PictureHead(f).dqt = DefaultQuantTables(Pic(f).q)
  BY DEF PictureHead, Pic
<1>7. CASE own # <<>>
  <2>1. QuantTables(d, own) = Pic(f).tables /\ Pic(f).tables # <<>> /\ Pic(f).sends
    BY <1>7 DEF QuantTables
  <2> QED BY <1>1, <1>4, <1>5, <2>1, OwnAreWritten
<1>8. CASE own = <<>> /\ t # 0 /\ Pic(t).q = Pic(f).q
  <2>1. /\ t \in Shots(MaxFrames) /\ Pic(t).tables # <<>>
        /\ d.tables = Pic(t).tables /\ d.tablesQ = Pic(t).q
    BY <1>8 DEF Kept
  <2>2. QuantTables(d, own) = Pic(t).tables
    BY <1>2, <1>8, <2>1 DEF QuantTables
  <2>3. Pic(f).tables # <<>> /\ (~Pic(f).sends => Pic(f).tables = Pic(t).tables)
    BY <1>8, <2>1, ShotsFit DEF Looked
  <2>4. Pic(f).sends => t = f
    BY <2>3 DEF BegunWith
  <2>5. Pic(f).tables = Pic(t).tables
    BY <1>1, <2>3, <2>4 DEF ShotFits
  <2>6. WrittenTables(Pic(f).tables) = PictureHead(f).dqt
    BY <1>1, <2>3, OwnAreWritten
  <2> QED BY <1>4, <1>5, <1>8, <2>2, <2>5, <2>6
<1>9. CASE own = <<>> /\ ~(t # 0 /\ Pic(t).q = Pic(f).q)
  <2>1. ~(d.tables # <<>> /\ d.q = d.tablesQ)
    BY <1>2, <1>9 DEF Kept
  <2>2. QuantTables(d, own) = DefaultQuantTables(Pic(f).q)
    BY <1>2, <1>9, <2>1 DEF QuantTables
  <2>3. Pic(f).sends => Pic(f).tables = <<>>
    <3> SUFFICES ASSUME Pic(f).sends, Pic(f).tables # <<>> PROVE FALSE
      OBVIOUS
    <3>1. t = f
      BY DEF BegunWith
    <3>2. f # 0
      BY ReceiverAssumption DEF Shots
    <3> QED BY <1>9, <3>1, <3>2
  <2>4. HeadAfter(f, t).dqt = DefaultQuantTables(Pic(f).q)
    BY <1>4, <1>5, <1>6, <1>9, <2>3
  <2> QED BY <2>2, <2>4, DefaultsAreWritten
<1> QED BY <1>7, <1>8, <1>9

LEMMA SamplingFits ==
  ASSUME Looked, NEW f \in Shots(MaxFrames), NEW t, NEW d, Kept(d, t), BegunWith(d, f, t),
         ScanFits(d.scan, f)
  PROVE  /\ WriteSof0(EffectiveType(d)) = Pic(f).sampling
         /\ Detected(d) # NotDetected =>
              \A g \in Shots(MaxFrames) : WriteSof0(Detected(d)) = Pic(g).sampling
<1>1. ShotFits(f) /\ Size(f) \in Nat \ {0} /\ d.type = Pic(f).type
  BY ShotsFit DEF Looked, Shots, BegunWith
<1>2. \A g \in Shots(MaxFrames) : Pic(g).sampling = Pic(f).sampling
  BY DEF Looked, Alike
<1>3. WriteSof0(EffectiveType(d)) = Pic(f).sampling
  <2>1. CASE d.type % 64 > 1
    <3>1. EffectiveType(d) = d.type
      BY <2>1 DEF EffectiveType
    <3>2. Pic(f).sampling = WriteSof0(Pic(f).type)
      BY <1>1, <2>1 DEF ShotFits, SamplingShows
    <3> QED BY <1>1, <3>1, <3>2
  <2>2. CASE ~(d.type % 64 > 1) /\ d.detected # NotDetected
    <3>1. EffectiveType(d) = d.detected
      BY <2>2 DEF EffectiveType
    <3> QED BY <2>2, <3>1 DEF Kept
  <2>3. CASE ~(d.type % 64 > 1) /\ ~(d.detected # NotDetected)
    <3>1. EffectiveType(d) = FoundType(Pic(f), d.scan)
      BY <1>1, <2>3 DEF EffectiveType, FoundType
    <3> QED BY <1>1, <2>3, <3>1, SamplingIsFound
  <2> QED BY <2>1, <2>2, <2>3
<1>4. ASSUME Detected(d) # NotDetected, NEW g \in Shots(MaxFrames)
      PROVE  WriteSof0(Detected(d)) = Pic(g).sampling
  <2>1. Detected(d) = EffectiveType(d) \/ Detected(d) = d.detected
    BY DEF Detected
  <2> QED BY <1>2, <1>3, <1>4, <2>1 DEF Kept
<1> QED BY <1>3, <1>4

LEMMA HeadAndScan ==
  ASSUME NEW x, NEW s, IsSequence(s)
  PROVE  /\ Head(<<x>> \o s) = x
         /\ \A k \in DOMAIN Tail(<<x>> \o s) : k \in 1 .. Len(s) /\ Tail(<<x>> \o s)[k] = s[k]
<1> DEFINE t == <<x>> \o s
<1>1. IsSequence(<<x>>) /\ Len(<<x>>) = 1 /\ <<x>>[1] = x
  BY SingletonSequence
<1>2. Len(s) \in Nat
  BY SequenceLength
<1>3. /\ IsSequence(t) /\ Len(t) = 1 + Len(s)
      /\ t[1] = x /\ \A i \in 1 .. Len(s) : t[1 + i] = s[i]
  <2>1. 1 \in 1 .. 1
    OBVIOUS
  <2> HIDE DEF t
  <2> QED BY <1>1, <2>1, JoinedSequence DEF t
<1> HIDE DEF t
<1>4. t # <<>>
  BY <1>2, <1>3, SequenceEmpty
<1>5. /\ IsSequence(Tail(t)) /\ Len(Tail(t)) = Len(s) /\ Head(t) = x
      /\ \A i \in 1 .. Len(Tail(t)) : Tail(t)[i] = t[i + 1]
  BY <1>2, <1>3, <1>4, TailOfSequence
<1>6. DOMAIN Tail(t) = 1 .. Len(s)
  BY <1>5, SequenceLength
<1>7. ASSUME NEW k \in 1 .. Len(s) PROVE Tail(t)[k] = s[k]
  <2>1. k + 1 = 1 + k
    OBVIOUS
  <2> QED BY <1>3, <1>5, <2>1
<1> QED BY <1>5, <1>6, <1>7 DEF t

\* A picture is built out of what is of it.
LEMMA BuiltFits ==
  ASSUME Looked, NEW n, NEW f \in Shots(n), f \in Shots(MaxFrames), NEW t,
         NEW d, Kept(d, t), BegunWith(d, f, t), ScanFits(d.scan, f),
         Pic(f).type >= 64 => d.hasRestart /\ d.interval = Pic(f).interval,
         NEW own, own = <<>> \/ (own = Pic(f).tables /\ Pic(f).sends)
  PROVE  OutFits(BuildJpegFrame(d, own), n, t)
<1>1. ShotFits(f)
  BY ShotsFit DEF Looked
<1> DEFINE q    == QuantTables(d, own)
           head == [dqt  |-> <<WriteDqt(1, q), WriteDqt(2, q)>>,
                    sof0 |-> WriteSof0(EffectiveType(d)), dri |-> WriteDri(d)]
<1>2. BuildJpegFrame(d, own) = <<head>> \o d.scan
  BY <1>1 DEF BuildJpegFrame, BegunWith, ShotFits
<1>3. WriteDri(d) = Pic(f).interval
  <2>1. CASE Pic(f).type >= 64
    BY <2>1 DEF WriteDri
  <2>2. CASE ~(Pic(f).type >= 64)
    <3>1. Pic(f).interval = 0
      BY <1>1, <2>2 DEF ShotFits
    <3>2. ~d.hasRestart
      BY <2>2 DEF Kept
    <3> QED BY <3>1, <3>2 DEF WriteDri
  <2> QED BY <2>1, <2>2
<1>4. WriteSof0(EffectiveType(d)) = Pic(f).sampling
  BY SamplingFits
<1>5. <<WriteDqt(1, q), WriteDqt(2, q)>> = HeadAfter(f, t).dqt
  BY TablesFit DEF WrittenTables
<1>6. head = HeadAfter(f, t)
  <2> HIDE DEF q
  <2>1. PictureHead(f) = [dqt |-> PictureHead(f).dqt, sof0 |-> Pic(f).sampling,
                          dri |-> Pic(f).interval]
    BY DEF PictureHead, Pic
  <2>2. HeadAfter(f, t) = [dqt |-> HeadAfter(f, t).dqt, sof0 |-> Pic(f).sampling,
                           dri |-> Pic(f).interval]
    <3> DEFINE a == PictureHead(f).dqt
    <3> HIDE DEF a
    <3>1. PictureHead(f) = [dqt |-> a, sof0 |-> Pic(f).sampling, dri |-> Pic(f).interval]
      BY <2>1 DEF a
    <3> QED BY <3>1 DEF HeadAfter
  <2> QED BY <1>3, <1>4, <1>5, <2>2
<1> HIDE DEF head
<1>7. /\ IsSequence(d.scan)
      /\ \A k \in 1 .. Len(d.scan) : d.scan[k] \in {Gap, PictureByte(f, k)}
  BY DEF ScanFits
<1>8. /\ Head(<<head>> \o d.scan) = head
      /\ \A k \in DOMAIN Tail(<<head>> \o d.scan) :
           k \in 1 .. Len(d.scan) /\ Tail(<<head>> \o d.scan)[k] = d.scan[k]
  BY <1>7, HeadAndScan
<1> QED BY <1>2, <1>6, <1>7, <1>8 DEF OutFits

-----------------------------------------------------------------------------
(* RtpJpegDepacketizer: a packet at a time. *)

\* What is built is dropped when a packet of another time comes.
LEMMA CurrentFits ==
  ASSUME Looked, NEW n \in Nat, n <= MaxFrames, NEW t, NEW d, DepFits(d, n, t),
         NEW ts, NEW e,
         DOMAIN e = DOMAIN d, e.ts = ts,
         LET dropped == d.ts # 0 /\ ts # d.ts /\ d.started
         IN /\ e.scan = IF dropped THEN <<>> ELSE d.scan
            /\ e.started = (d.started /\ ~dropped)
            /\ e.hasRestart = (d.hasRestart /\ ~dropped),
         e.q = d.q, e.type = d.type, e.tables = d.tables, e.tablesQ = d.tablesQ,
         e.detected = d.detected
  PROVE  DepFits(e, n, t)
<1>1. Kept(e, t)
  BY DEF DepFits, Kept
<1>2. ASSUME e.started PROVE \E f \in Shots(n) : BegunWith(e, f, t) /\ ScanFits(e.scan, f)
  <2>1. d.started /\ ~(d.ts # 0 /\ ts # d.ts /\ d.started) /\ e.scan = d.scan
    BY <1>2
  <2>2. PICK f \in Shots(n) : BegunWith(d, f, t) /\ ScanFits(d.scan, f)
    BY <2>1 DEF DepFits
  <2>3. Timestamp(f) # 0
    <3>1. f \in 1 .. MaxFrames
      BY <2>2, ReceiverAssumption DEF Shots
    <3> QED BY <3>1 DEF Looked
  <2>4. ts = d.ts
    BY <2>1, <2>2, <2>3 DEF BegunWith
  <2>5. BegunWith(e, f, t)
    BY <2>2, <2>4 DEF BegunWith
  <2> QED BY <2>1, <2>2, <2>5
<1> QED BY <1>1, <1>2 DEF DepFits

LEMMA FirstIdentity ==
  ASSUME StreamIs, NEW f \in 1 .. MaxFrames PROVE NalsOf(f)[1].id = <<f, 1>>
<1>1. Len(NalsOf(f)) > 0 /\ IsSequence(NalsOf(f))
  BY NalsAre
<1>2. 1 \in DOMAIN NalsOf(f)
  BY <1>1, SequenceLength
<1>3. DOMAIN NalsOf(f) = DOMAIN Frame(f).nals
  BY DEF NalsOf
<1> QED BY <1>2, <1>3 DEF NalsOf

LEMMA JpegKeeps ==
  ASSUME Looked, NEW n \in Nat, n <= MaxFrames, NEW t, NEW d, DepFits(d, n, t), NEW h, NEW p,
         p.kind = "jpeg" => \E f \in Shots(n) : h.ts = Timestamp(f) /\ Fragment(p, f),
         NEW u, u = IF p.kind = "jpeg" /\ p.offset = 0 /\ p.tables # <<>>
                    THEN p.scan[1][1][1] ELSE t
  PROVE  LET r == JpegProcessPacket(d, h, p)
         IN DepFits(r.d, n, u) /\ (r.done => OutFits(r.frame, n, u))
<1> DEFINE dropped == d.ts # 0 /\ h.ts # d.ts /\ d.started
           current == [d EXCEPT !.ts = h.ts,
                                !.scan       = IF dropped THEN <<>> ELSE @,
                                !.started    = @ /\ ~dropped,
                                !.hasRestart = @ /\ ~dropped]
           restart == IF p.type >= 64
                      THEN [current EXCEPT !.interval = p.interval, !.hasRestart = TRUE]
                      ELSE current
           tables  == IF p.offset = 0 /\ p.tables # <<>>
                      THEN [restart EXCEPT !.tables = p.tables, !.tablesQ = p.q] ELSE restart
           first   == IF p.offset = 0
                      THEN [tables EXCEPT !.scan = <<>>, !.started = TRUE, !.q = p.q,
                                          !.type = p.type]
                      ELSE tables
           filled  == [first EXCEPT !.scan = CopyScan(@, p.offset, p.scan)]
           r       == JpegProcessPacket(d, h, p)
<1>1. r = IF p.kind # "jpeg" THEN Nothing([current EXCEPT !.errors = ReportUnknownNal(@, h.ts)])
          ELSE IF ~first.started THEN Nothing(first)
          ELSE IF h.marker
          THEN Given([filled EXCEPT !.scan = <<>>, !.started = FALSE, !.hasRestart = FALSE,
                                    !.detected = Detected(filled)],
                     BuildJpegFrame(filled, p.tables), TRUE)
          ELSE Nothing(filled)
  BY DEF JpegProcessPacket
<1>2. DOMAIN d = {"scan", "started", "q", "type", "ts", "tables", "tablesQ", "interval",
                  "hasRestart", "detected", "errors"}
  BY Fields DEF DepFits, Kept
<1>3. /\ DOMAIN current = DOMAIN d /\ current.ts = h.ts
      /\ current.scan = IF dropped THEN <<>> ELSE d.scan
      /\ current.started = (d.started /\ ~dropped)
      /\ current.hasRestart = (d.hasRestart /\ ~dropped)
      /\ current.q = d.q /\ current.type = d.type
      /\ current.tables = d.tables /\ current.tablesQ = d.tablesQ
      /\ current.detected = d.detected
  BY <1>2
<1> HIDE DEF current, r
<1>4. DepFits(current, n, t)
  BY <1>3, CurrentFits
<1> HIDE DEF dropped
<1>5. CASE p.kind # "jpeg"
  <2> DEFINE e == [current EXCEPT !.errors = ReportUnknownNal(@, h.ts)]
  <2>1. r.d = e /\ r.done = FALSE
    BY <1>1, <1>5 DEF Nothing
  <2>2. /\ DOMAIN e = DOMAIN current /\ e.ts = current.ts /\ e.scan = current.scan
        /\ e.started = current.started /\ e.hasRestart = current.hasRestart
        /\ e.q = current.q /\ e.type = current.type /\ e.tables = current.tables
        /\ e.tablesQ = current.tablesQ /\ e.detected = current.detected
    BY <1>2, <1>3
  <2> HIDE DEF e
  <2>3. DepFits(e, n, t)
    BY <1>4, <2>2 DEF DepFits, Kept, BegunWith
  <2> QED BY <1>5, <2>1, <2>3 DEF r
<1>6. CASE p.kind = "jpeg"
  <2>1. PICK f \in Shots(n) : h.ts = Timestamp(f) /\ Fragment(p, f)
    BY <1>6
  <2>2. f \in Shots(MaxFrames) /\ f \in 1 .. MaxFrames
    BY ReceiverAssumption DEF Shots
  <2>3. /\ p.q = Pic(f).q /\ p.type = Pic(f).type /\ p.interval = Pic(f).interval
        /\ p.offset \in Nat
        /\ p.tables = IF p.offset = 0 /\ Pic(f).sends THEN Pic(f).tables ELSE <<>>
    BY <2>1 DEF Fragment
  <2>a. u = IF p.offset = 0 /\ p.tables # <<>> THEN f ELSE t
    <3>1. ASSUME p.offset = 0 PROVE p.scan[1][1][1] = f
      <4>1. Len(p.scan) = Opening(f) /\ \A i \in 1 .. Len(p.scan) : p.scan[i] = PictureByte(f, p.offset + i)
        BY <2>1, <3>1 DEF Fragment
      <4>2. Opening(f) \in Nat \ {0}
        <5>1. Size(f) \in Nat \ {0}
          BY <2>2, ShotsFit DEF Looked
        <5> QED BY <5>1, LimitIs DEF Opening, Smaller
      <4>3. p.scan[1] = PictureByte(f, p.offset + 1)
        <5>1. 1 \in 1 .. Len(p.scan)
          BY <4>1, <4>2
        <5> QED BY <4>1, <5>1
      <4>4. NalsOf(f)[1].id = <<f, 1>>
        BY <2>2, FirstIdentity DEF Looked
      <4> QED BY <4>3, <4>4 DEF PictureByte
    <3> QED BY <1>6, <3>1
  <2>4. Kept(current, t)
    BY <1>4 DEF DepFits
  <2>5. /\ DOMAIN restart = DOMAIN current /\ restart.ts = current.ts
        /\ restart.scan = current.scan /\ restart.started = current.started
        /\ restart.q = current.q /\ restart.type = current.type
        /\ restart.tables = current.tables /\ restart.tablesQ = current.tablesQ
        /\ restart.detected = current.detected
        /\ p.type >= 64 => restart.hasRestart /\ restart.interval = p.interval
        /\ ~(p.type >= 64) => restart.hasRestart = current.hasRestart
    BY <1>2, <1>3
  <2> HIDE DEF restart
  <2>6. Kept(restart, t)
    <3>1. p.type >= 64 => \A g \in Shots(MaxFrames) : Pic(g).type >= 64
      BY <2>2, <2>3 DEF Looked, Alike, RestartBits
    <3> QED BY <2>4, <2>5, <3>1 DEF Kept
  <2>7. /\ DOMAIN tables = DOMAIN restart /\ tables.ts = restart.ts
        /\ tables.scan = restart.scan /\ tables.started = restart.started
        /\ tables.q = restart.q /\ tables.type = restart.type
        /\ tables.detected = restart.detected
        /\ tables.hasRestart = restart.hasRestart /\ tables.interval = restart.interval
        /\ p.offset = 0 /\ p.tables # <<>> => tables.tables = p.tables /\ tables.tablesQ = p.q
        /\ ~(p.offset = 0 /\ p.tables # <<>>) =>
             tables.tables = restart.tables /\ tables.tablesQ = restart.tablesQ
    BY <1>2, <1>3, <2>5
  <2> HIDE DEF tables
  <2>8. Kept(tables, u)
    <3>1. CASE p.offset = 0 /\ p.tables # <<>>
      <4>1. u = f /\ f # 0
        BY <2>2, <2>a, <3>1
      <4>2. /\ Pic(f).tables # <<>> /\ tables.tables = Pic(f).tables
            /\ tables.tablesQ = Pic(f).q
        BY <2>3, <2>7, <3>1
      <4> QED BY <2>2, <2>6, <2>7, <4>1, <4>2 DEF Kept
    <3>2. CASE ~(p.offset = 0 /\ p.tables # <<>>)
      <4>1. u = t
        BY <2>a, <3>2
      <4> QED BY <2>6, <2>7, <3>2, <4>1 DEF Kept
    <3> QED BY <3>1, <3>2
  <2>9. /\ DOMAIN first = DOMAIN tables /\ first.ts = tables.ts
        /\ first.detected = tables.detected
        /\ first.hasRestart = tables.hasRestart /\ first.interval = tables.interval
        /\ first.tables = tables.tables /\ first.tablesQ = tables.tablesQ
        /\ p.offset = 0 => /\ first.scan = <<>> /\ first.started = TRUE
                           /\ first.q = p.q /\ first.type = p.type
        /\ p.offset # 0 => /\ first.scan = tables.scan /\ first.started = tables.started
                           /\ first.q = tables.q /\ first.type = tables.type
    BY <1>2, <1>3, <2>5, <2>7
  <2> HIDE DEF first
  <2>10. Kept(first, u)
    BY <2>8, <2>9 DEF Kept
  <2>11. first.started /\ p.offset # 0 => BegunWith(first, f, u) /\ ScanFits(first.scan, f)
    <3> SUFFICES ASSUME first.started, p.offset # 0
                 PROVE  BegunWith(first, f, u) /\ ScanFits(first.scan, f)
      OBVIOUS
    <3>1. current.started /\ first.scan = current.scan
      BY <2>5, <2>7, <2>9
    <3>2. PICK g \in Shots(n) : BegunWith(current, g, t) /\ ScanFits(current.scan, g)
      BY <1>4, <3>1 DEF DepFits
    <3>3. g = f
      <4>1. g \in 1 .. MaxFrames /\ Timestamp(g) = Timestamp(f)
        BY <1>3, <2>1, <3>2, ReceiverAssumption DEF Shots, BegunWith
      <4> QED BY <2>2, <4>1, StampsTell DEF Looked
    <3>4. BegunWith(first, f, u)
      <4>1. u = t
        BY <2>a
      <4> QED BY <2>5, <2>7, <2>9, <3>2, <3>3, <4>1 DEF BegunWith
    <3> QED BY <3>1, <3>2, <3>3, <3>4
  <2>12. p.offset = 0 => BegunWith(first, f, u) /\ first.scan = <<>>
    <3>1. p.offset = 0 /\ Pic(f).sends /\ Pic(f).tables # <<>> => u = f
      BY <2>3, <2>a
    <3> QED BY <1>3, <2>1, <2>3, <2>5, <2>7, <2>9, <3>1 DEF BegunWith
  <2>13. CASE ~first.started
    <3>1. r.d = first /\ r.done = FALSE
      BY <1>1, <1>6, <2>13 DEF Nothing
    <3> QED BY <2>10, <2>13, <3>1 DEF DepFits, r
  <2>14. CASE first.started
    <3>1. /\ DOMAIN filled = DOMAIN first /\ filled.ts = first.ts
          /\ filled.scan = CopyScan(first.scan, p.offset, p.scan)
          /\ filled.started = first.started /\ filled.q = first.q /\ filled.type = first.type
          /\ filled.tables = first.tables /\ filled.tablesQ = first.tablesQ
          /\ filled.hasRestart = first.hasRestart /\ filled.interval = first.interval
          /\ filled.detected = first.detected
      BY <1>2, <1>3, <2>5, <2>7, <2>9
    <3> HIDE DEF filled
    <3>2. Kept(filled, u)
      BY <2>10, <3>1 DEF Kept
    <3>3. BegunWith(filled, f, u)
      BY <2>11, <2>12, <2>14, <3>1 DEF BegunWith
    <3>4. ScanFits(filled.scan, f)
      <4>1. Opening(f) \in Nat
        <5>1. Size(f) \in Nat
          BY <2>2, ShotsFit DEF Looked
        <5> QED BY <5>1, LimitIs DEF Opening, Smaller
      <4>2. /\ IsSequence(first.scan)
            /\ \A k \in 1 .. Len(first.scan) : first.scan[k] \in {Gap, PictureByte(f, k)}
            /\ ScanFits(first.scan, f) \/ p.offset = 0
        <5>1. CASE p.offset = 0
          <6>1. \A k \in 1 .. 0 : FALSE
            OBVIOUS
          <6>2. first.scan = <<>> /\ IsSequence(first.scan) /\ Len(first.scan) = 0
            BY <2>12, <5>1, EmptySequence
          <6> QED BY <5>1, <6>1, <6>2
        <5>2. CASE p.offset # 0
          BY <2>11, <2>14, <5>2 DEF ScanFits
        <5> QED BY <5>1, <5>2
      <4> QED BY <2>1, <3>1, <4>1, <4>2, CopyFits
    <3>5. CASE h.marker
      <4> DEFINE e == [filled EXCEPT !.scan = <<>>, !.started = FALSE, !.hasRestart = FALSE,
                                     !.detected = Detected(filled)]
      <4>1. r.d = e /\ r.done = TRUE /\ r.frame = BuildJpegFrame(filled, p.tables)
        BY <1>1, <1>6, <2>14, <3>5 DEF Given
      <4>2. /\ DOMAIN e = DOMAIN filled /\ e.started = FALSE /\ e.hasRestart = FALSE
            /\ e.tables = filled.tables /\ e.tablesQ = filled.tablesQ
            /\ e.detected = Detected(filled)
        BY <1>2, <1>3, <2>5, <2>7, <2>9, <3>1
      <4> HIDE DEF e
      <4>3. Detected(filled) # NotDetected =>
              \A g \in Shots(MaxFrames) : WriteSof0(Detected(filled)) = Pic(g).sampling
        BY <2>2, <3>2, <3>3, <3>4, SamplingFits
      <4>4. DepFits(e, n, u)
        BY <3>2, <4>2, <4>3 DEF DepFits, Kept
      <4>5. Pic(f).type >= 64 => filled.hasRestart /\ filled.interval = Pic(f).interval
        BY <2>3, <2>5, <2>7, <2>9, <3>1
      <4>6. p.tables = <<>> \/ (p.tables = Pic(f).tables /\ Pic(f).sends)
        BY <2>3
      <4>7. OutFits(BuildJpegFrame(filled, p.tables), n, u)
        BY <2>2, <3>2, <3>3, <3>4, <4>5, <4>6, BuiltFits
      <4> QED BY <4>1, <4>4, <4>7 DEF r
    <3>6. CASE ~h.marker
      <4>1. r.d = filled /\ r.done = FALSE
        BY <1>1, <1>6, <2>14, <3>6 DEF Nothing
      <4>2. DepFits(filled, n, u)
        BY <3>2, <3>3, <3>4 DEF DepFits
      <4> QED BY <4>1, <4>2 DEF r
    <3> QED BY <3>5, <3>6
  <2> QED BY <2>13, <2>14
<1> QED BY <1>5, <1>6

-----------------------------------------------------------------------------
(* RtpReceiver: the pictures that come out. *)

LEMMA ImageIsFinite ==
  ASSUME NEW S, IsFiniteSet(S), NEW f, f = [x \in S |-> f[x]], NEW T, T = {f[x] : x \in S}
  PROVE  IsFiniteSet(T)
<1>1. f \in Surjection(S, T)
  BY DEF Surjection
<1> QED BY <1>1, FS_Surjection

LEMMA AlikeIf ==
  ASSUME StreamIs, Steady PROVE Alike
<1> DEFINE good == {g \in DOMAIN stream.frames : Frame(g).kind = "good"}
<1>1. MaxFrames \in Nat /\ good = Shots(MaxFrames)
  BY ReceiverAssumption DEF StreamIs, Shots
<1>2. IsFiniteSet(1 .. MaxFrames)
  BY <1>1, Numbered
<1>3. IsFiniteSet(good)
  <2>1. good \subseteq 1 .. MaxFrames
    BY <1>1 DEF Shots
  <2> HIDE DEF good
  <2> QED BY <1>2, <2>1, FS_Subset
<1>4. ASSUME NEW S, IsFiniteSet(S), Cardinality(S) <= 1, NEW x \in S, NEW y \in S
      PROVE  x = y
  <2> SUFFICES ASSUME x # y PROVE FALSE
    OBVIOUS
  <2>1. {x, y} \subseteq S
    OBVIOUS
  <2>2. Cardinality({x, y}) <= Cardinality(S) /\ IsFiniteSet({x, y})
    BY <1>4, <2>1, FS_Subset
  <2>3. Cardinality({x}) = 1 /\ IsFiniteSet({x})
    BY FS_Singleton
  <2>4. Cardinality({x} \union {y}) = 2
    <3>1. y \notin {x}
      OBVIOUS
    <3>2. Cardinality({x} \union {y}) = Cardinality({x}) + 1
      BY <2>3, <3>1, FS_AddElement
    <3> QED BY <2>3, <3>2
  <2>5. {x} \union {y} = {x, y}
    OBVIOUS
  <2>6. Cardinality(S) \in Nat
    BY <1>4, FS_CardinalityType
  <2> QED BY <1>4, <2>2, <2>4, <2>5, <2>6
<1> DEFINE samplings == {p.sampling : p \in Pictures}
           bits      == {RestartBits(p.type) : p \in Pictures}
<1>5. IsFiniteSet(samplings) /\ IsFiniteSet(bits)
  <2>1. samplings = {Frame(g).picture.sampling : g \in good}
    BY DEF Pictures
  <2>2. bits = {RestartBits(Frame(g).picture.type) : g \in good}
    BY DEF Pictures
  <2> DEFINE a == [g \in good |-> Frame(g).picture.sampling]
             b == [g \in good |-> RestartBits(Frame(g).picture.type)]
  <2> HIDE DEF good, samplings, bits
  <2>3. a = [g \in good |-> a[g]] /\ b = [g \in good |-> b[g]]
    OBVIOUS
  <2>4. samplings = {a[g] : g \in good} /\ bits = {b[g] : g \in good}
    BY <2>1, <2>2
  <2> HIDE DEF a, b
  <2> QED BY <1>3, <2>3, <2>4, ImageIsFinite
<1>6. Cardinality(samplings) <= 1 /\ Cardinality(bits) <= 1
  BY DEF Steady
<1>7. \A g \in Shots(MaxFrames) : /\ Pic(g).sampling \in samplings
                                  /\ RestartBits(Pic(g).type) \in bits
  BY <1>1 DEF Pictures, Pic
<1> HIDE DEF samplings, bits, good
<1> QED BY <1>4, <1>5, <1>6, <1>7 DEF Alike

LEMMA FittingStays ==
  ASSUME UNCHANGED stream
  PROVE  /\ \A f : Pic(f)' = Pic(f) /\ Opening(f)' = Opening(f)
         /\ \A f, t : HeadAfter(f, t)' = HeadAfter(f, t)
         /\ \A f : Timestamp(f)' = Timestamp(f) /\ \A k : PictureByte(f, k)' = PictureByte(f, k)
         /\ \A n : Shots(n)' = Shots(n)
<1>1. \A f : /\ Frame(f)' = Frame(f) /\ NalsOf(f)' = NalsOf(f) /\ Timestamp(f)' = Timestamp(f)
  BY FramesStay
<1>2. \A f : Pic(f)' = Pic(f) /\ Opening(f)' = Opening(f)
  BY <1>1 DEF Pic, Opening, Size
<1>5. \A f, t : HeadAfter(f, t)' = HeadAfter(f, t)
  <2>1. \A f : PictureHead(f)' = PictureHead(f)
    BY <1>1 DEF PictureHead
  <2>2. \A f, t : HasTables(f, t)' = HasTables(f, t)
    BY <1>1 DEF HasTables
  <2> QED BY <1>1, <2>1, <2>2 DEF HeadAfter
<1>3. \A f, k : PictureByte(f, k)' = PictureByte(f, k)
  BY <1>1 DEF PictureByte
<1>4. \A n : Shots(n)' = Shots(n)
  BY <1>1 DEF Shots
<1> QED BY <1>1, <1>2, <1>3, <1>4, <1>5

LEMMA MoreShots ==
  ASSUME NEW m \in Nat, NEW n \in Nat, m <= n, NEW f \in Shots(m) PROVE f \in Shots(n)
BY DEF Shots

LEMMA LookedStays ==
  ASSUME UNCHANGED stream PROVE Looked' => Looked
<1>1. Alike' => Alike
  BY FittingStays DEF Alike
<1>2. StreamIs' => StreamIs
  BY DEF StreamIs
<1>3. (\A f \in 1 .. MaxFrames : Timestamp(f) # 0)' => \A f \in 1 .. MaxFrames : Timestamp(f) # 0
  BY FittingStays
<1> QED BY <1>1, <1>2, <1>3 DEF Looked

LEMMA DepStays ==
  ASSUME UNCHANGED stream, NEW d, NEW t, NEW m \in Nat, NEW n \in Nat, m <= n,
         DepFits(d, m, t)
  PROVE  DepFits(d, n, t)'
<1>1. ASSUME NEW f PROVE /\ BegunWith(d, f, t) => BegunWith(d, f, t)'
                         /\ ScanFits(d.scan, f) => ScanFits(d.scan, f)'
  <2>1. Frame(f)' = Frame(f) /\ NalsOf(f)' = NalsOf(f)
    BY FramesStay
  <2> QED BY <2>1, FittingStays DEF BegunWith, ScanFits
<1>2. Kept(d, t) => Kept(d, t)'
  BY FittingStays DEF Kept
<1>3. ASSUME d.started PROVE (\E f \in Shots(n) : BegunWith(d, f, t) /\ ScanFits(d.scan, f))'
  <2>1. PICK f \in Shots(m) : BegunWith(d, f, t) /\ ScanFits(d.scan, f)
    BY <1>3 DEF DepFits
  <2>2. f \in Shots(n)' /\ BegunWith(d, f, t)' /\ ScanFits(d.scan, f)'
    BY <1>1, <2>1, MoreShots, FittingStays
  <2> QED BY <2>2
<1> QED BY <1>2, <1>3 DEF DepFits

LEMMA OutStays ==
  ASSUME UNCHANGED stream, NEW x, NEW t, NEW m \in Nat, NEW n \in Nat, m <= n,
         OutFits(x, m, t)
  PROVE  OutFits(x, n, t)'
<1>1. PICK f \in Shots(m) :
        /\ Head(x) = HeadAfter(f, t)
        /\ \A k \in DOMAIN Tail(x) : Tail(x)[k] \in {Gap, PictureByte(f, k)}
  BY DEF OutFits
<1>2. f \in Shots(n)' /\ Head(x) = HeadAfter(f, t)'
  BY <1>1, MoreShots, FittingStays
<1>3. \A k \in DOMAIN Tail(x) : Tail(x)[k] \in {Gap, PictureByte(f, k)'}
  BY <1>1, FittingStays
<1> QED BY <1>2, <1>3 DEF OutFits

PictureInv ==
  /\ IsSequence(delivered)
  /\ Looked => /\ DepFits(dep, sent, tabled)
               /\ \A i \in 1 .. Len(delivered) : OutFits(delivered[i].frame, sent, delivered[i].tabled)

LEMMA PictureStarts == Init => PictureInv
<1> SUFFICES ASSUME Init PROVE PictureInv
  OBVIOUS
<1>1. delivered = <<>> /\ \A i \in 1 .. 0 : FALSE
  BY DEF Init
<1>2. ASSUME Looked PROVE DepFits(dep, sent, tabled)
  <2>1. dep = JpegInit /\ tabled = 0
    BY <1>2 DEF Init, Looked
  <2>2. /\ JpegInit.hasRestart = FALSE /\ JpegInit.detected = NotDetected
        /\ JpegInit.tables = <<>> /\ JpegInit.started = FALSE
    BY DEF JpegInit
  <2> QED BY <2>1, <2>2 DEF DepFits, Kept
<1> QED BY <1>1, <1>2, EmptySequence DEF PictureInv

LEMMA PictureStays ==
  ASSUME PictureInv, UNCHANGED <<stream, dep, delivered, tabled>>, sent \in Nat, sent' \in Nat,
         sent <= sent'
  PROVE  PictureInv'
<1>1. PICK d, n, m, o, t : d = dep /\ n = sent' /\ m = sent /\ o = delivered /\ t = tabled
  OBVIOUS
<1>2. ASSUME Looked' PROVE /\ DepFits(d, n, t)'
                           /\ \A i \in 1 .. Len(o) : OutFits(o[i].frame, n, o[i].tabled)'
  <2>1. Looked
    BY <1>2, LookedStays
  <2>2. DepFits(d, m, t) /\ \A i \in 1 .. Len(o) : OutFits(o[i].frame, m, o[i].tabled)
    BY <1>1, <2>1 DEF PictureInv
  <2>3. m \in Nat /\ n \in Nat /\ m <= n
    BY <1>1
  <2>4. DepFits(d, n, t)'
    BY <2>2, <2>3, DepStays
  <2>5. ASSUME NEW i \in 1 .. Len(o) PROVE OutFits(o[i].frame, n, o[i].tabled)'
    <3> DEFINE x == o[i].frame
               y == o[i].tabled
    <3>1. OutFits(x, m, y)
      BY <2>2
    <3> HIDE DEF x, y
    <3>2. OutFits(x, n, y)'
      BY <2>3, <3>1, OutStays
    <3> QED BY <3>2 DEF x, y
  <2> QED BY <2>4, <2>5
<1>3. Looked' => /\ DepFits(dep, sent, tabled)'
                 /\ (\A i \in 1 .. Len(delivered) : OutFits(delivered[i].frame, sent, delivered[i].tabled))'
  BY <1>1, <1>2 DEF DepFits, Kept, BegunWith, ScanFits, OutFits
<1> QED BY <1>3 DEF PictureInv

LEMMA PictureGoesOn ==
  ASSUME NetInv, PictureInv, [Next]_vars PROVE PictureInv'
<1>1. sent \in Nat /\ sent <= MaxFrames /\ AllRight(net, sent)
  BY DEF NetInv
<1>2. CASE SendFrame \/ Fault \/ UNCHANGED vars
  <2>1. UNCHANGED <<stream, dep, delivered, tabled>> /\ sent' \in {sent, sent + 1}
    BY <1>2 DEF SendFrame, Fault, vars
  <2>2. sent' \in Nat /\ sent <= sent'
    BY <1>1, <2>1
  <2> QED BY <1>1, <2>1, <2>2, PictureStays
<1>3. CASE HandleRtpPacket
  <2> DEFINE p == Head(net)
  <2>1. net # <<>> /\ UNCHANGED <<stream, sent>>
    BY <1>3 DEF HandleRtpPacket
  <2>2. Right(p, sent)
    <3>1. 1 \in 1 .. Len(net)
      BY <1>1, <2>1, SequenceLength, SequenceEmpty DEF AllRight
    <3> QED BY <1>1, <3>1, RightFew
  <2>3. \/ UNCHANGED <<dep, delivered, tabled>>
        \/ p.pt = Expected /\ stream.codec \in Video /\ Depacketize(p)
        \/ stream.codec \notin Video /\ PassThrough(p)
    BY <1>3 DEF HandleRtpPacket
  <2> HIDE DEF p
  <2>4. CASE UNCHANGED <<dep, delivered, tabled>>
    BY <1>1, <2>1, <2>4, PictureStays
  <2>5. CASE stream.codec \notin Video /\ PassThrough(p)
    <3>1. PICK x : delivered' = Append(delivered, x)
      BY <2>5 DEF PassThrough, Deliver
    <3>2. IsSequence(delivered')
      BY <3>1, AppendedSequence DEF PictureInv
    <3>3. ~Looked'
      BY <2>1, <2>5 DEF Looked, Video
    <3> QED BY <3>2, <3>3 DEF PictureInv
  <2>6. CASE p.pt = Expected /\ stream.codec \in Video /\ Depacketize(p)
    <3> DEFINE r == ProcessPacket(p)
    <3>1. /\ dep' = r.d
          /\ stream.codec = "jpeg" => tabled' = LastTabled(Payload(p))
          /\ \/ r.done /\ delivered' = Append(delivered, [ts |-> p.ts, key |-> r.key, frame |-> r.frame,
                                                         tabled |-> tabled'])
             \/ UNCHANGED delivered
      <4>1. /\ dep' = r.d
            /\ stream.codec = "jpeg" => tabled' = LastTabled(Payload(p))
            /\ \/ r.done /\ Deliver(Acquired, r.frame, r.key, p.ts)
               \/ UNCHANGED delivered
        BY <2>6 DEF Depacketize
      <4> HIDE DEF r
      <4> QED BY <4>1 DEF Deliver
    <3> HIDE DEF r
    <3>2. IsSequence(delivered')
      <4>1. IsSequence(delivered)
        BY DEF PictureInv
      <4>2. (\E x : delivered' = Append(delivered, x)) \/ delivered' = delivered
        BY <3>1
      <4> QED BY <4>1, <4>2, AppendedSequence
    <3>3. ASSUME Looked PROVE DepFits(r.d, sent, tabled') /\ (r.done => OutFits(r.frame, sent, tabled'))
      <4> DEFINE b == Payload(p)
      <4>1. r = JpegProcessPacket(dep, p, b)
        BY <3>3 DEF ProcessPacket, Looked, r
      <4>2. ASSUME b.kind = "jpeg" PROVE \E f \in Shots(sent) : p.ts = Timestamp(f) /\ Fragment(b, f)
        <5>1. b = p.payload
          <6>1. b = p.payload \/ b = [kind |-> "odd"]
            BY DEF Payload
          <6>2. [kind |-> "odd"].kind = "odd"
            OBVIOUS
          <6> HIDE DEF b
          <6> QED BY <4>2, <6>1, <6>2
        <5> HIDE DEF b
        <5>2. PICK f \in 1 .. sent : \E k \in 1 .. Len(Bodies(f)) : Comes(p, f, k)
          BY <2>2 DEF Right
        <5>3. PICK k \in 1 .. Len(Bodies(f)) : Comes(p, f, k)
          BY <5>2
        <5>4. f \in 1 .. MaxFrames
          BY <1>1, ReceiverAssumption
        <5>5. Bodies(f)[k].payload = b /\ p.ts = Times(f)[k]
          BY <5>1, <5>3 DEF Comes
        <5>6. /\ Frame(f).kind \in {"good", "foreign"} /\ Fragment(b, f)
              /\ Times(f)[k] = Timestamp(f)
          BY <3>3, <4>2, <5>4, <5>5, BodyIsFragment DEF Looked
        <5>7. Frame(f).kind # "foreign"
          BY <2>6, <5>3 DEF Comes, Expected
        <5> QED BY <5>5, <5>6, <5>7 DEF Shots
      <4>3. DepFits(dep, sent, tabled)
        BY <3>3 DEF PictureInv
      <4>4. tabled' = IF b.kind = "jpeg" /\ b.offset = 0 /\ b.tables # <<>>
                      THEN b.scan[1][1][1] ELSE tabled
        BY <3>1, <3>3 DEF LastTabled, Looked
      <4> HIDE DEF b
      <4> QED BY <1>1, <3>3, <4>1, <4>2, <4>3, <4>4, JpegKeeps
    <3>4. PICK d, n, o, t : d = dep' /\ n = sent /\ o = delivered' /\ t = tabled'
      OBVIOUS
    <3>5. ASSUME Looked' PROVE DepFits(d, n, t)'
                               /\ \A i \in 1 .. Len(o) : OutFits(o[i].frame, n, o[i].tabled)'
      <4>1. Looked
        BY <2>1, <3>5, LookedStays
      <4>2. n \in Nat /\ n <= n
        BY <1>1, <3>4
      <4>3. DepFits(d, n, t)
        BY <3>1, <3>3, <3>4, <4>1
      <4>4. DepFits(d, n, t)'
        BY <2>1, <4>2, <4>3, DepStays
      <4>5. ASSUME NEW i \in 1 .. Len(o) PROVE OutFits(o[i].frame, n, o[i].tabled)
        <5>1. IsSequence(delivered) /\ Len(delivered) \in Nat
              /\ \A j \in 1 .. Len(delivered) : OutFits(delivered[j].frame, sent, delivered[j].tabled)
          BY <4>1, SequenceLength DEF PictureInv
        <5>2. CASE UNCHANGED delivered
          BY <3>4, <5>1, <5>2
        <5>3. CASE r.done /\ delivered' = Append(delivered, [ts |-> p.ts, key |-> r.key, frame |-> r.frame,
                                                         tabled |-> tabled'])
          <6> DEFINE x == [ts |-> p.ts, key |-> r.key, frame |-> r.frame, tabled |-> tabled']
          <6>1. /\ Len(o) = Len(delivered) + 1
                /\ \A j \in 1 .. Len(delivered) : o[j] = delivered[j]
                /\ o[Len(delivered) + 1] = x
            BY <3>4, <5>1, <5>3, AppendedSequence
          <6>2. i \in 1 .. Len(delivered) \/ i = Len(delivered) + 1
            BY <5>1, <6>1
          <6>3. OutFits(x.frame, n, x.tabled)
            BY <3>3, <3>4, <4>1, <5>3
          <6> HIDE DEF x
          <6> QED BY <3>4, <5>1, <6>1, <6>2, <6>3
        <5> QED BY <3>1, <5>2, <5>3
      <4>6. ASSUME NEW i \in 1 .. Len(o) PROVE OutFits(o[i].frame, n, o[i].tabled)'
        <5> DEFINE x == o[i].frame
                   y == o[i].tabled
        <5>1. OutFits(x, n, y)
          BY <4>5
        <5> HIDE DEF x, y
        <5>2. OutFits(x, n, y)'
          BY <2>1, <4>2, <5>1, OutStays
        <5> QED BY <5>2 DEF x, y
      <4> QED BY <4>4, <4>6
    <3>6. Looked' => /\ DepFits(dep, sent, tabled)'
                     /\ (\A i \in 1 .. Len(delivered) : OutFits(delivered[i].frame, sent, delivered[i].tabled))'
      BY <2>1, <3>4, <3>5 DEF DepFits, Kept, BegunWith, ScanFits, OutFits
    <3> QED BY <3>2, <3>6 DEF PictureInv
  <2> QED BY <2>3, <2>4, <2>5, <2>6
<1> QED BY <1>2, <1>3 DEF Next

\* JpegUnmixed: a JPEG picture that comes out is of one frame, tables, sampling
\* and restart interval included, although the depacketizer keeps all of these
\* from packet to packet and from picture to picture; tables that the camera
\* left out are the last that came if they are of the picture's quality, and
\* else the standard ones.  For pictures and packets of any size, any faults of
\* the network, of a camera that keeps to RFC 2435 (PicturesByRfc) as long as
\* timestamps do not come again (StampsDiffer).
THEOREM PicturesUnmixed ==
  ASSUME PicturesByRfc, StampsDiffer
  PROVE  Spec => []JpegUnmixed
<1>1. Init => NetInv /\ PictureInv
  BY NetStarts, PictureStarts
<1>2. NetInv /\ PictureInv /\ [Next]_vars => NetInv' /\ PictureInv'
  BY NetGoesOn, PictureGoesOn
<1>3. NetInv /\ PictureInv => JpegUnmixed
  <2> SUFFICES ASSUME NetInv, PictureInv, stream.codec = "jpeg",
                      \A f \in DOMAIN stream.frames : Timestamp(f) # 0, Steady,
                      NEW i \in DOMAIN delivered
               PROVE  \E f \in {g \in 1 .. sent : Frame(g).kind = "good"} :
                        /\ Head(delivered[i].frame) = HeadAfter(f, delivered[i].tabled)
                        /\ \A k \in DOMAIN Tail(delivered[i].frame) :
                             Tail(delivered[i].frame)[k] \in {Gap, PictureByte(f, k)}
    BY DEF JpegUnmixed
  <2>1. StreamIs /\ Looked
    <3>1. StreamIs /\ DOMAIN stream.frames = 1 .. MaxFrames
      BY DEF NetInv, StreamIs
    <3> QED BY <3>1, AlikeIf DEF Looked
  <2>2. i \in 1 .. Len(delivered)
    BY SequenceLength DEF PictureInv
  <2>3. OutFits(delivered[i].frame, sent, delivered[i].tabled)
    BY <2>1, <2>2 DEF PictureInv
  <2> QED BY <2>3 DEF OutFits, Shots
<1> QED BY <1>1, <1>2, <1>3, PTL DEF Spec
=============================================================================
