-------------------------- MODULE Recording_proofs --------------------------
(***************************************************************************)
(* Theorems of nxcore/record beside those of the segment files: of          *)
(* Recording, where BlockBuilder feeds SegmentBuilder, and of               *)
(* ScheduledRecorder, the schedule on its timer wheel.                      *)
(*                                                                          *)
(* A recording, for any stream, options, faults and players: every block is *)
(* sound, so its files are those of SegmentStore over the set of the sound  *)
(* blocks, and all that SegmentStore_proofs says of these holds of them.  A *)
(* player gets what is in a file, all of it and in its order.               *)
(*                                                                          *)
(* A schedule, for any channels, schedules, callbacks and bounds: who is    *)
(* told of the channels that changed knows what is recorded, after a stop() *)
(* in time the wheel is quiet, and while it serves, what is recorded is off *)
(* its schedule for an hour and what is dawdled at most.                    *)
(***************************************************************************)
EXTENDS Recording, ScheduledRecorder, FiniteSetTheorems, SequenceTheorems, TLAPS

(***************************************************************************)
(* The blocks of a recording.                                              *)
(***************************************************************************)
Entries   == [id : Nat, timestamp : Nat, end : Nat, size : Nat, key : BOOLEAN]
PendingContexts  == [start : Nat, end : Nat, bytes : Nat, key : BOOLEAN]
RawBlocks == [start : Nat, end : Nat, key : BOOLEAN, size : Nat, entries : Seq(Entries)]
SoundBlocks == {b \in RawBlocks : Builder!HeaderIsTrue(b) /\ Builder!WithinLimits(b)}

Store == INSTANCE SegmentStore_proofs WITH Blocks <- SoundBlocks

\* BasicBlockBuilderOptions reject past entries unless they are told not to
\* (block_builder_options.h:49), and a block may have an entry.
PastRejected == RejectPast /\ BlockCount > 0

\* The entries s as the context c describes them.
Described(s, c) ==
  /\ s \in Seq(Entries) /\ c \in PendingContexts
  /\ Len(s) > 0
  /\ c.start = s[1].timestamp
  /\ \A i \in 1..Len(s) : s[i].timestamp >= c.start /\ s[i].end <= c.end
  /\ \E i \in 1..Len(s) : s[i].end = c.end
  /\ c.key = (\E i \in 1..Len(s) : s[i].key)

\* They fit into one block.
Fitting(s, c) ==
  /\ Len(s) <= BlockCount
  /\ Len(s) > 1 => /\ c.end - c.start < BlockDuration
                   /\ \E i \in 1..Len(s) : c.bytes - s[i].size < BlockBytes

LEMMA StoreAssumption == Store!SegmentAssumption
  BY SegmentAssumption DEF Store!SegmentAssumption, SoundBlocks, RawBlocks, Store!FaultKinds, FaultKinds

(***************************************************************************)
(* std::sort: an injection of 1..n to itself reaches all of it.            *)
(***************************************************************************)
LEMMA SortReachesAll ==
  ASSUME NEW n \in Nat, NEW p \in [1..n -> 1..n],
         \A i, j \in 1..n : i < j => p[i] # p[j]
  PROVE  \A k \in 1..n : \E i \in 1..n : p[i] = k
<1>1. p \in Injection(1..n, 1..n)
  BY DEF Injection, IsInjective
<1>2. IsFiniteSet(1..n) /\ Cardinality(1..n) = Cardinality(1..n)
  BY FS_Interval
<1>3. p \in Surjection(1..n, 1..n)
  BY <1>1, <1>2, FS_Injection
<1> QED
  BY <1>3 DEF Surjection

LEMMA SortedEntries ==
  ASSUME NEW s \in Seq(Entries), NEW t \in Builder!SortedOrders(s)
  PROVE  /\ t \in Seq(Entries) /\ Len(t) = Len(s)
         /\ \A i \in 1..Len(s) : \E j \in 1..Len(s) : t[i] = s[j]
         /\ \A j \in 1..Len(s) : \E i \in 1..Len(s) : t[i] = s[j]
         /\ \A i, j \in 1..Len(s) : i < j => t[i].timestamp <= t[j].timestamp
<1>1. PICK p \in [DOMAIN s -> DOMAIN s] :
         /\ \A i, j \in DOMAIN s : i < j => p[i] # p[j] /\ s[p[i]].timestamp <= s[p[j]].timestamp
         /\ t = [i \in DOMAIN s |-> s[p[i]]]
  BY DEF Builder!SortedOrders
<1>2. DOMAIN s = 1..Len(s) /\ Len(s) \in Nat /\ \A i \in 1..Len(s) : s[i] \in Entries
  BY LenProperties, ElementOfSeq
<1>3. \A k \in 1..Len(s) : \E i \in 1..Len(s) : p[i] = k
  <2>1. p \in [1..Len(s) -> 1..Len(s)]
    BY <1>1, <1>2, Zenon
  <2>2. \A i, j \in 1..Len(s) : i < j => p[i] # p[j]
    BY <1>1, <1>2, Zenon
  <2> QED
    BY <2>1, <2>2, <1>2, SortReachesAll
<1>4. t \in [1..Len(s) -> Entries]
  BY <1>1, <1>2
<1>5. t \in Seq(Entries) /\ Len(t) = Len(s)
  BY <1>4, <1>2, SeqDef, LenProperties
<1>6. \A i \in 1..Len(s) : p[i] \in 1..Len(s) /\ t[i] = s[p[i]]
  BY <1>1, <1>2
<1>7. \A i \in 1..Len(s) : \E j \in 1..Len(s) : t[i] = s[j]
  BY <1>6
<1>8. \A j \in 1..Len(s) : \E i \in 1..Len(s) : t[i] = s[j]
  BY <1>3, <1>6
<1>9. \A i, j \in 1..Len(s) : i < j => t[i].timestamp <= t[j].timestamp
  BY <1>1, <1>2, <1>6
<1> QED
  BY <1>5, <1>7, <1>8, <1>9

\* What finalize_current_block makes of such entries is a sound block.
LEMMA BlockIsSound ==
  ASSUME NEW s, NEW c, Described(s, c), Fitting(s, c), NEW b \in Builder!BlocksOf(s, c)
  PROVE  b \in SoundBlocks
<1>0. s \in Seq(Entries) /\ c \in PendingContexts /\ Len(s) \in Nat /\ Len(s) > 0
      /\ \A i \in 1..Len(s) : s[i] \in Entries
  BY LenProperties, ElementOfSeq DEF Described
<1>1. PICK t \in Builder!SortedOrders(s) :
         b = [start |-> c.start, end |-> c.end, key |-> c.key, size |-> c.bytes, entries |-> t]
  BY DEF Builder!BlocksOf
<1>2. /\ t \in Seq(Entries) /\ Len(t) = Len(s)
      /\ \A i \in 1..Len(s) : \E j \in 1..Len(s) : t[i] = s[j]
      /\ \A j \in 1..Len(s) : \E i \in 1..Len(s) : t[i] = s[j]
      /\ \A i, j \in 1..Len(s) : i < j => t[i].timestamp <= t[j].timestamp
  BY <1>0, SortedEntries
<1>3. b.start = c.start /\ b.end = c.end /\ b.key = c.key /\ b.size = c.bytes /\ b.entries = t
  BY <1>1
<1>4. b \in RawBlocks
  BY <1>0, <1>1, <1>2 DEF RawBlocks, PendingContexts
<1>5. DOMAIN t = 1..Len(s) /\ \A i \in 1..Len(s) : t[i] \in Entries
  BY <1>2, <1>0
<1>6. t[1].timestamp = c.start
  <2>0. 1 \in 1..Len(s)
    BY <1>0
  <2>1. PICK i \in 1..Len(s) : t[i] = s[1]
    BY <2>0, <1>2, Zenon
  <2>5. t[1] \in Entries /\ t[i] \in Entries
    BY <2>0, <2>1, <1>5, Zenon
  <2>6. t[1].timestamp \in Nat /\ t[i].timestamp \in Nat /\ c.start \in Nat
    BY <2>5, <1>0 DEF Entries, PendingContexts
  <2>2. t[1].timestamp <= t[i].timestamp
    <3>1. CASE i = 1
      BY <3>1, <2>6
    <3>2. CASE i # 1
      <4>1. 1 < i
        BY <3>2, <2>1
      <4> QED
        BY <4>1, <2>0, <2>1, <1>2
    <3> QED
      BY <3>1, <3>2
  <2>3. PICK j \in 1..Len(s) : t[1] = s[j]
    BY <2>0, <1>2, Zenon
  <2>4. s[j].timestamp >= c.start /\ s[1].timestamp = c.start
    BY <2>3 DEF Described
  <2> QED
    BY <2>1, <2>2, <2>3, <2>4, <2>6
<1>7. Builder!HeaderIsTrue(b)
  <2>1. \A e \in Builder!Span(b) : \E j \in 1..Len(s) : e = s[j]
    BY <1>2, <1>3, <1>5 DEF Builder!Span
  <2>2. \A j \in 1..Len(s) : s[j] \in Builder!Span(b)
    BY <1>2, <1>3, <1>5 DEF Builder!Span
  <2>3. \A e \in Builder!Span(b) : e.end <= b.end
    BY <2>1, <1>3 DEF Described
  <2>4. \E e \in Builder!Span(b) : e.end = b.end
    BY <2>2, <1>3 DEF Described
  <2>5. b.key = (\E e \in Builder!Span(b) : e.key)
    BY <2>1, <2>2, <1>3 DEF Described
  <2> QED
    BY <2>3, <2>4, <2>5, <1>2, <1>3, <1>5, <1>6, <1>0 DEF Builder!HeaderIsTrue
<1>8. Builder!WithinLimits(b)
  <2>2. \A j \in 1..Len(s) : s[j] \in Builder!Span(b)
    BY <1>2, <1>3, <1>5 DEF Builder!Span
  <2> QED
    BY <2>2, <1>2, <1>3 DEF Builder!WithinLimits, Fitting
<1> QED
  BY <1>4, <1>7, <1>8 DEF SoundBlocks

-----------------------------------------------------------------------------
(***************************************************************************)
(* The builder.                                                            *)
(***************************************************************************)
NotFull(s, c) ==
  /\ c.end - c.start < BlockDuration
  /\ c.bytes < BlockBytes
  /\ Len(s) < BlockCount

BuilderInv ==
  /\ stream \in Seq(Entries)
  /\ blocks \in Seq(SoundBlocks)
  /\ \/ pending = <<>> /\ context = Builder!NoContext
     \/ Described(pending, context) /\ NotFull(pending, context)

LEMMA NotFullFits ==
  ASSUME NEW s, NEW c, Described(s, c), NotFull(s, c)
  PROVE  Fitting(s, c)
<1>1. Len(s) \in Nat /\ Len(s) > 0 /\ s \in Seq(Entries) /\ c \in PendingContexts
  BY LenProperties DEF Described
<1>2. 1 \in 1..Len(s)
  BY <1>1
<1>3. s[1] \in Entries
  BY <1>1, <1>2, ElementOfSeq
<1>4. s[1].size \in Nat /\ c.bytes \in Nat /\ BlockBytes \in Nat /\ BlockCount \in Nat
  BY <1>1, <1>3, RecordingAssumption DEF Entries, PendingContexts
<1>5. c.bytes - s[1].size < BlockBytes
  BY <1>4 DEF NotFull
<1>6. Len(s) <= BlockCount
  BY <1>1, <1>4 DEF NotFull
<1> QED
  BY <1>2, <1>5, <1>6 DEF NotFull, Fitting

\* finalize_current_block adds a sound block or nothing.
LEMMA FinalizedSound ==
  ASSUME NEW s, NEW c, s = <<>> \/ (Described(s, c) /\ Fitting(s, c)),
         NEW d \in Builder!Finalized(s, c)
  PROVE  d \in Seq(SoundBlocks)
<1>1. CASE s = <<>>
  BY <1>1 DEF Builder!Finalized
<1>2. CASE s # <<>>
  <2>1. PICK b \in Builder!BlocksOf(s, c) : d = <<b>>
    BY <1>2 DEF Builder!Finalized
  <2>2. b \in SoundBlocks
    BY <1>2, <2>1, BlockIsSound
  <2> QED
    BY <2>1, <2>2
<1> QED
  BY <1>1, <1>2

LEMMA EndTyped ==
  ASSUME NEW k \in Kinds, NEW t \in Nat
  PROVE  /\ Builder!CalculateEntryEndTimestamp(t, k) \in Nat
         /\ Builder!CalculateEntryEndTimestamp(t, k) >= t
<1> DEFINE m == k.payload_size \div k.bytes_per_sample
           q == (m * 1000) \div k.sample_rate
<1>0. k.payload_size \in Nat /\ k.sample_rate \in Nat /\ k.bytes_per_sample \in Nat
  BY RecordingAssumption
<1>1. CASE k.type = "audio" /\ 0 \notin {k.sample_rate, k.payload_size, k.bytes_per_sample}
  <2>1. k.sample_rate > 0 /\ k.bytes_per_sample > 0
    BY <1>0, <1>1
  <2>2. m \in Nat
    BY <2>1, <1>0
  <2> HIDE DEF m
  <2>3. m * 1000 \in Nat
    BY <2>2
  <2> DEFINE w == m * 1000
  <2>4. w \in Nat
    BY <2>3
  <2> HIDE DEF w
  <2>5. w \div k.sample_rate \in Nat
    BY <2>1, <2>4, <1>0
  <2>6. q = w \div k.sample_rate
    BY DEF w
  <2>7. q \in Nat
    BY <2>5, <2>6
  <2>8. Builder!CalculateEntryEndTimestamp(t, k) = t + q
    BY <1>1 DEF Builder!CalculateEntryEndTimestamp, m
  <2> HIDE DEF q
  <2> QED
    BY <2>7, <2>8
<1>2. CASE ~(k.type = "audio" /\ 0 \notin {k.sample_rate, k.payload_size, k.bytes_per_sample})
  BY <1>2 DEF Builder!CalculateEntryEndTimestamp
<1> QED
  BY <1>1, <1>2

\* The first entry of a block.
LEMMA FirstJoined ==
  ASSUME NEW e \in Entries, e.end >= e.timestamp, BlockCount > 0
  PROVE  LET s == Append(<<>>, e)
             c == Builder!Joined(<<>>, Builder!NoContext, e)
         IN  Described(s, c) /\ Fitting(s, c)
<1> DEFINE s == Append(<<>>, e)
           c == Builder!Joined(<<>>, Builder!NoContext, e)
<1>1. s = <<e>> /\ Len(s) = 1 /\ s[1] = e /\ s \in Seq(Entries)
  OBVIOUS
<1>2. e.timestamp \in Nat /\ e.end \in Nat /\ e.size \in Nat /\ e.key \in BOOLEAN
  BY DEF Entries
<1>3. c = [start |-> e.timestamp, end |-> IF e.end > e.timestamp THEN e.end ELSE e.timestamp,
           bytes |-> 0 + e.size, key |-> FALSE \/ e.key]
  BY DEF Builder!Joined, Builder!NoContext
<1>4. c.start = e.timestamp /\ c.end = e.end /\ c.bytes = e.size
  BY <1>2, <1>3
<1>5. c.key = e.key
  BY <1>2, <1>3
<1>6. c = [start |-> e.timestamp, end |-> e.end, bytes |-> e.size, key |-> e.key]
  <2>1. c = [start |-> c.start, end |-> c.end, bytes |-> c.bytes, key |-> c.key]
    BY <1>3
  <2> HIDE DEF c
  <2> QED
    BY <2>1, <1>4, <1>5
<1>7. c \in PendingContexts
  BY <1>6, <1>2 DEF PendingContexts
<1> HIDE DEF s, c
<1>8. \A i \in 1..Len(s) : i = 1
  BY <1>1
<1>9. 1 \in 1..Len(s)
  BY <1>1
<1>10. \A i \in 1..Len(s) : s[i].timestamp >= c.start /\ s[i].end <= c.end
  BY <1>1, <1>2, <1>4, <1>8
<1>11. c.key = (\E i \in 1..Len(s) : s[i].key)
  BY <1>1, <1>2, <1>5, <1>8, <1>9
<1>12. Described(s, c)
  BY <1>1, <1>4, <1>7, <1>9, <1>10, <1>11 DEF Described
<1>13. Fitting(s, c)
  BY <1>1, RecordingAssumption DEF Fitting
<1> QED
  BY <1>12, <1>13 DEF s, c

\* An entry that joins others.
LEMMA NextJoined ==
  ASSUME NEW s, NEW c, Described(s, c), NotFull(s, c),
         NEW e \in Entries, e.timestamp >= c.start, e.end - c.start < BlockDuration
  PROVE  LET t == Append(s, e)
             d == Builder!Joined(s, c, e)
         IN  Described(t, d) /\ Fitting(t, d)
<1> DEFINE t == Append(s, e)
           d == Builder!Joined(s, c, e)
           n == Len(s)
<1>0. s \in Seq(Entries) /\ c \in PendingContexts /\ n \in Nat /\ n > 0 /\ s # <<>>
  BY LenProperties, EmptySeq DEF Described
<1>1. /\ t \in Seq(Entries) /\ Len(t) = n + 1 /\ t[n + 1] = e
      /\ \A i \in 1..n : t[i] = s[i]
  BY <1>0, AppendProperties
<1>2. /\ e.timestamp \in Nat /\ e.end \in Nat /\ e.size \in Nat /\ e.key \in BOOLEAN
      /\ c.start \in Nat /\ c.end \in Nat /\ c.bytes \in Nat /\ c.key \in BOOLEAN
  BY <1>0 DEF Entries, PendingContexts
<1>3. \A i \in 1..n : s[i] \in Entries
  BY <1>0, ElementOfSeq
<1>4. d = [start |-> c.start, end |-> IF e.end > c.end THEN e.end ELSE c.end,
           bytes |-> c.bytes + e.size, key |-> c.key \/ e.key]
  BY <1>0 DEF Builder!Joined
<1>5. /\ d.start = c.start /\ d.bytes = c.bytes + e.size
      /\ d.end = IF e.end > c.end THEN e.end ELSE c.end
  BY <1>4
<1>6. d.key = (c.key \/ e.key)
  BY <1>4
<1>7. d \in PendingContexts
  BY <1>4, <1>2 DEF PendingContexts
<1>8. BlockDuration \in Nat /\ BlockBytes \in Nat /\ BlockCount \in Nat
  BY RecordingAssumption
<1> HIDE DEF t, d
<1>9. \A i \in 1..Len(t) : i \in 1..n \/ i = n + 1
  BY <1>0, <1>1
<1>10. \A i \in 1..n : i \in 1..Len(t) /\ t[i] = s[i]
  BY <1>0, <1>1
<1>11. n + 1 \in 1..Len(t)
  BY <1>0, <1>1
<1>12. \A i \in 1..Len(t) : t[i].timestamp >= d.start /\ t[i].end <= d.end
  <2> SUFFICES ASSUME NEW i \in 1..Len(t) PROVE t[i].timestamp >= d.start /\ t[i].end <= d.end
    OBVIOUS
  <2>1. CASE i \in 1..n
    <3>1. s[i].timestamp >= c.start /\ s[i].end <= c.end /\ s[i] \in Entries
      BY <2>1, <1>3 DEF Described
    <3>2. s[i].end \in Nat
      BY <3>1 DEF Entries
    <3> QED
      BY <2>1, <3>1, <3>2, <1>1, <1>2, <1>5
  <2>2. CASE i = n + 1
    BY <2>2, <1>1, <1>2, <1>5
  <2> QED
    BY <2>1, <2>2, <1>9
<1>13. \E i \in 1..Len(t) : t[i].end = d.end
  <2>1. CASE e.end > c.end
    BY <2>1, <1>1, <1>5, <1>11
  <2>2. CASE ~(e.end > c.end)
    <3>1. PICK i \in 1..n : s[i].end = c.end
      BY DEF Described
    <3> QED
      BY <2>2, <3>1, <1>5, <1>10
  <2> QED
    BY <2>1, <2>2
<1>14. d.key = (\E i \in 1..Len(t) : t[i].key)
  <2>1. c.key = (\E i \in 1..n : s[i].key)
    BY DEF Described
  <2>2. (\E i \in 1..Len(t) : t[i].key) <=> (\E i \in 1..n : s[i].key) \/ e.key
    BY <1>1, <1>9, <1>10, <1>11
  <2> QED
    BY <2>1, <2>2, <1>6
<1>15. t[1].timestamp = d.start
  <2>1. 1 \in 1..n
    BY <1>0
  <2> QED
    BY <2>1, <1>1, <1>5 DEF Described
<1>16. Described(t, d)
  BY <1>0, <1>1, <1>7, <1>12, <1>13, <1>14, <1>15 DEF Described
<1>17. Fitting(t, d)
  <2>1. Len(t) <= BlockCount
    BY <1>0, <1>1, <1>8 DEF NotFull
  <2>2. d.end - d.start < BlockDuration
    BY <1>2, <1>5, <1>8 DEF NotFull
  <2>3. d.bytes - t[n + 1].size < BlockBytes
    BY <1>1, <1>2, <1>5, <1>8 DEF NotFull
  <2> QED
    BY <2>1, <2>2, <2>3, <1>11 DEF Fitting
<1> QED
  BY <1>16, <1>17 DEF t, d

LEMMA NotFinished ==
  ASSUME NEW s, NEW c, Described(s, c), ~ Builder!IsFinished(s, c)
  PROVE  NotFull(s, c)
<1>1. /\ c.start \in Nat /\ c.end \in Nat /\ c.bytes \in Nat /\ Len(s) \in Nat
  BY LenProperties DEF Described, PendingContexts
<1>2. BlockDuration \in Nat /\ BlockBytes \in Nat /\ BlockCount \in Nat
  BY RecordingAssumption
<1> QED
  BY <1>1, <1>2 DEF Builder!IsFinished, NotFull

\* add_entry keeps the pending entries below the limits, and makes sound blocks.
LEMMA AddEntrySound ==
  ASSUME BuilderInv, PastRejected, NEW e \in Entries, e.end >= e.timestamp,
         Builder!AddEntry(e)
  PROVE  /\ blocks' \in Seq(SoundBlocks)
         /\ \/ pending' = <<>> /\ context' = Builder!NoContext
            \/ Described(pending', context') /\ NotFull(pending', context')
<1>0. blocks \in Seq(SoundBlocks)
  BY DEF BuilderInv
<1>1. CASE ~ Builder!Accepted(e)
  BY <1>1 DEF Builder!AddEntry, Builder!builderVars, BuilderInv
<1>2. CASE Builder!Accepted(e)
  <2> DEFINE s0 == IF Builder!FinalizeBefore(e) THEN <<>> ELSE pending
             c0 == IF Builder!FinalizeBefore(e) THEN Builder!NoContext ELSE context
             s1 == Append(s0, e)
             c1 == Builder!Joined(s0, c0, e)
  <2>1. PICK done \in (IF Builder!FinalizeBefore(e) THEN Builder!Finalized(pending, context)
                       ELSE {<<>>}) :
          IF Builder!IsFinished(s1, c1)
          THEN /\ \E last \in Builder!Finalized(s1, c1) : blocks' = blocks \o done \o last
               /\ pending' = <<>> /\ context' = Builder!NoContext
          ELSE /\ blocks' = blocks \o done
               /\ pending' = s1 /\ context' = c1
    BY <1>2, Zenon DEF Builder!AddEntry
  <2>2. /\ done \in Seq(SoundBlocks)
        /\ Described(s1, c1) /\ Fitting(s1, c1)
    <3>1. CASE Builder!FinalizeBefore(e)
      <4>1. pending # <<>>
        BY <3>1 DEF Builder!FinalizeBefore
      <4>2. Described(pending, context) /\ Fitting(pending, context)
        BY <4>1, NotFullFits DEF BuilderInv
      <4>3. done \in Seq(SoundBlocks)
        BY <2>1, <3>1, <4>2, FinalizedSound
      <4>4. s0 = <<>> /\ c0 = Builder!NoContext
        BY <3>1
      <4> QED
        BY <4>3, <4>4, FirstJoined DEF PastRejected
    <3>2. CASE ~ Builder!FinalizeBefore(e)
      <4>1. done = <<>> /\ s0 = pending /\ c0 = context
        BY <2>1, <3>2
      <4>2. done \in Seq(SoundBlocks)
        BY <4>1
      <4>3. CASE pending = <<>> /\ context = Builder!NoContext
        <5>1. s0 = <<>> /\ c0 = Builder!NoContext
          BY <4>1, <4>3
        <5> QED
          BY <4>2, <5>1, FirstJoined DEF PastRejected
      <4>4. CASE Described(pending, context) /\ NotFull(pending, context)
        <5>1. pending # <<>> /\ context.start \in Nat
          BY <4>4 DEF Described, PendingContexts
        <5>2. e.timestamp >= context.start
          BY <1>2, <5>1 DEF Builder!Accepted, PastRejected
        <5>3. e.end - context.start < BlockDuration
          <6>1. ~ (e.end - context.start >= BlockDuration)
            BY <3>2, <5>1 DEF Builder!FinalizeBefore
          <6>2. e.end \in Nat /\ BlockDuration \in Nat
            BY RecordingAssumption DEF Entries
          <6> QED
            BY <6>1, <6>2, <5>1
        <5> QED
          BY <4>1, <4>2, <4>4, <5>2, <5>3, NextJoined
      <4> QED
        BY <4>3, <4>4 DEF BuilderInv
    <3> QED
      BY <3>1, <3>2
  <2> HIDE DEF s1, c1
  <2>3. blocks \o done \in Seq(SoundBlocks)
    BY <1>0, <2>2, ConcatProperties
  <2>4. CASE Builder!IsFinished(s1, c1)
    <3>1. PICK last \in Builder!Finalized(s1, c1) : blocks' = blocks \o done \o last
      BY <2>1, <2>4
    <3>2. last \in Seq(SoundBlocks)
      BY <2>2, FinalizedSound
    <3>3. blocks' \in Seq(SoundBlocks)
      BY <2>3, <3>1, <3>2, ConcatProperties
    <3> QED
      BY <2>1, <2>4, <3>3
  <2>5. CASE ~ Builder!IsFinished(s1, c1)
    <3>1. NotFull(s1, c1)
      BY <2>2, <2>5, NotFinished
    <3> QED
      BY <2>1, <2>2, <2>3, <2>5, <3>1
  <2> QED
    BY <2>4, <2>5
<1> QED
  BY <1>1, <1>2

LEMMA AddSound == BuilderInv /\ PastRejected /\ AddNext => BuilderInv'
<1> SUFFICES ASSUME BuilderInv, PastRejected, AddNext PROVE BuilderInv'
  OBVIOUS
<1>1. PICK k \in Kinds, d \in Steps :
        LET t == LastTime + d
            e == [id |-> Len(stream) + 1, timestamp |-> t, end |-> Builder!CalculateEntryEndTimestamp(t, k),
                  size |-> k.size, key |-> k.key]
        IN  /\ t >= 0
            /\ stream' = Append(stream, [e EXCEPT !.id = IF Builder!Accepted(e) THEN @ ELSE 0])
            /\ Builder!AddEntry(e)
  BY Zenon DEF AddNext
<1> DEFINE t == LastTime + d
           e == [id |-> Len(stream) + 1, timestamp |-> t, end |-> Builder!CalculateEntryEndTimestamp(t, k),
                 size |-> k.size, key |-> k.key]
           x == [e EXCEPT !.id = IF Builder!Accepted(e) THEN @ ELSE 0]
<1>2. stream \in Seq(Entries) /\ Len(stream) \in Nat
  BY LenProperties DEF BuilderInv
<1>3. LastTime \in Nat
  <2>1. CASE stream = <<>>
    BY <2>1 DEF LastTime
  <2>2. CASE stream # <<>>
    <3>1. Len(stream) \in 1..Len(stream)
      BY <1>2, <2>2, EmptySeq
    <3>2. stream[Len(stream)] \in Entries
      BY <1>2, <3>1, ElementOfSeq
    <3> QED
      BY <2>2, <3>2 DEF LastTime, Entries
  <2> QED
    BY <2>1, <2>2
<1>4. t \in Nat
  BY <1>1, <1>3, RecordingAssumption
<1> HIDE DEF t
<1>5. k.size \in Nat /\ k.key \in BOOLEAN
  BY RecordingAssumption
<1>6. e \in Entries /\ e.timestamp = t /\ e.end = Builder!CalculateEntryEndTimestamp(t, k)
  BY <1>2, <1>4, <1>5, EndTyped DEF Entries
<1>7. e.end >= e.timestamp
  BY <1>4, <1>6, EndTyped
<1>8. stream' = Append(stream, x) /\ Builder!AddEntry(e)
  BY <1>1 DEF t
<1> HIDE DEF e
<1>9. x \in Entries
  <2>1. \A i \in Nat : [e EXCEPT !.id = i] \in Entries
    BY <1>6 DEF Entries
  <2>2. e.id \in Nat
    BY <1>6 DEF Entries
  <2>3. x = [e EXCEPT !.id = IF Builder!Accepted(e) THEN e.id ELSE 0]
    OBVIOUS
  <2> QED
    BY <2>1, <2>2, <2>3
<1> HIDE DEF x
<1>10. stream' \in Seq(Entries)
  BY <1>2, <1>8, <1>9, AppendProperties
<1> QED
  BY <1>6, <1>7, <1>8, <1>10, AddEntrySound DEF BuilderInv

LEMMA FlushSound == BuilderInv /\ FlushBlock => BuilderInv'
<1> SUFFICES ASSUME BuilderInv, FlushBlock PROVE BuilderInv'
  OBVIOUS
<1>1. PICK done \in Builder!Finalized(pending, context) : blocks' = blocks \o done
  BY DEF FlushBlock, Builder!Flush
<1>2. pending' = <<>> /\ context' = Builder!NoContext /\ stream' = stream
  BY DEF FlushBlock, Builder!Flush
<1>3. Described(pending, context) /\ Fitting(pending, context)
  BY NotFullFits DEF FlushBlock, BuilderInv
<1>4. blocks' \in Seq(SoundBlocks)
  <2>1. done \in Seq(SoundBlocks)
    BY <1>3, FinalizedSound
  <2> QED
    BY <1>1, <2>1, ConcatProperties DEF BuilderInv
<1> QED
  BY <1>2, <1>4 DEF BuilderInv

LEMMA BuilderStart == InitRecording => BuilderInv
  BY DEF InitRecording, Builder!InitBuilder, BuilderInv

LEMMA BuilderStepSound ==
  BuilderInv /\ PastRejected /\ [NextRecording]_recordingVars => BuilderInv'
<1> SUFFICES ASSUME BuilderInv, PastRejected, [NextRecording]_recordingVars PROVE BuilderInv'
  OBVIOUS
<1>1. CASE AddNext
  BY <1>1, AddSound
<1>2. CASE FlushBlock
  BY <1>2, FlushSound
<1>3. CASE Drain
  <2>1. blocks' = Tail(blocks) /\ blocks # <<>> /\ pending' = pending /\ context' = context
        /\ stream' = stream
    BY <1>3 DEF Drain, Builder!PopBlock
  <2>2. blocks' \in Seq(SoundBlocks)
    BY <2>1, HeadTailProperties DEF BuilderInv
  <2> QED
    BY <2>1, <2>2 DEF BuilderInv
<1>4. CASE Stop
  BY <1>4 DEF Stop, BuilderInv
<1>5. CASE StoreStep \/ Recover \/ Play \/ UNCHANGED recordingVars
  BY <1>5 DEF StoreStep, Recover, Play, recordingVars, builderVars, BuilderInv
<1> QED
  BY <1>1, <1>2, <1>3, <1>4, <1>5 DEF NextRecording

-----------------------------------------------------------------------------
(***************************************************************************)
(* The files of a recording.                                               *)
(***************************************************************************)
LEMMA SameCrash == Crash => Store!Crash
  BY DEF Crash, Store!Crash, Fault, Store!Fault, HalfWritten, Store!HalfWritten, Append1, Store!Append1,
         Torn, Store!Torn, Stopped, Store!Stopped, Closed, Store!Closed, Idle, Store!Idle,
         EmptyContext, Store!EmptyContext

LEMMA SamePowerLoss == PowerLoss => Store!PowerLoss
  BY DEF PowerLoss, Store!PowerLoss, Fault, Store!Fault, Kept, Store!Kept,
         Torn, Store!Torn, Stopped, Store!Stopped, Closed, Store!Closed, Idle, Store!Idle,
         EmptyContext, Store!EmptyContext

LEMMA SameWrite ==
  ASSUME NEW b PROVE WriteBlock(b) => Store!WriteBlock(b)
  BY DEF WriteBlock, Store!WriteBlock, FirstStep, Store!FirstStep, ShouldFinish, Store!ShouldFinish,
         files, Store!files

LEMMA SameClose == CloseCurrentSegment => Store!CloseCurrentSegment
  BY DEF CloseCurrentSegment, Store!CloseCurrentSegment, files, Store!files

LEMMA SameFlush == FlushPending => Store!FlushPending
  BY DEF FlushPending, Store!FlushPending, SyncOk, Store!SyncOk, SyncFails, Store!SyncFails,
         NoFault, Store!NoFault, Fault, Store!Fault

LEMMA SameOpen == OpenSegment => Store!OpenSegment
  BY DEF OpenSegment, Store!OpenSegment, NewName, Store!NewName, SegmentName, Store!SegmentName,
         Truncated, Store!Truncated, NoFault, Store!NoFault, Fault, Store!Fault, Idle, Store!Idle,
         files, Store!files

LEMMA SameHeader == WriteSegmentHeader => Store!WriteSegmentHeader
  BY DEF WriteSegmentHeader, Store!WriteSegmentHeader, Append1, Store!Append1, Header, Store!Header,
         NoFault, Store!NoFault, Fault, Store!Fault, WriteFails, Store!WriteFails, Torn, Store!Torn,
         GiveUp, Store!GiveUp

LEMMA SameSyncHeader == SyncHeader => Store!SyncHeader
  BY DEF SyncHeader, Store!SyncHeader, SyncOk, Store!SyncOk, SyncFails, Store!SyncFails,
         NoFault, Store!NoFault, Fault, Store!Fault, GiveUp, Store!GiveUp, HeaderSize, Store!HeaderSize

LEMMA SameAppend == AppendBlock => Store!AppendBlock
  BY DEF AppendBlock, Store!AppendBlock, BlockOffset, Store!BlockOffset, Append1, Store!Append1,
         BlockPiece, Store!BlockPiece, NoFault, Store!NoFault, Fault, Store!Fault, Torn, Store!Torn,
         IndexEntry, Store!IndexEntry, SyncDue, Store!SyncDue, Idle, Store!Idle, Place, Store!Place

LEMMA SameSync == SyncBatch => Store!SyncBatch
  BY DEF SyncBatch, Store!SyncBatch, SyncOk, Store!SyncOk, SyncFails, Store!SyncFails,
         NoFault, Store!NoFault, Fault, Store!Fault, Place, Store!Place, Idle, Store!Idle

LEMMA SameFooter == WriteSegmentFooter => Store!WriteSegmentFooter
  BY DEF WriteSegmentFooter, Store!WriteSegmentFooter, Append1, Store!Append1, Footer, Store!Footer,
         NoFault, Store!NoFault, Fault, Store!Fault, WriteFails, Store!WriteFails, Torn, Store!Torn

LEMMA SameFinish == FinishSegment => Store!FinishSegment
  BY DEF FinishSegment, Store!FinishSegment, SyncOk, Store!SyncOk, SyncFails, Store!SyncFails,
         NoFault, Store!NoFault, Fault, Store!Fault, Closed, Store!Closed, Idle, Store!Idle,
         EmptyContext, Store!EmptyContext

LEMMA SameRepair == RepairStep => Store!RepairStep
<1>1. ASSUME NEW n, RepairSegment(n) PROVE Store!RepairSegment(n)
  BY <1>1 DEF RepairSegment, Store!RepairSegment, HasFooter, Store!HasFooter, Scanned, Store!Scanned,
         Header, Store!Header, files, Store!files
<1>2. TruncateFile => Store!TruncateFile
  BY DEF TruncateFile, Store!TruncateFile, NoFault, Store!NoFault, Fault, Store!Fault, Idle, Store!Idle,
         files, Store!files
<1>3. WriteFooterAt => Store!WriteFooterAt
  BY DEF WriteFooterAt, Store!WriteFooterAt, NextKey, Store!NextKey, IsKey, Store!IsKey,
         Append1, Store!Append1, IndexEntry, Store!IndexEntry, Footer, Store!Footer,
         NoFault, Store!NoFault, Fault, Store!Fault, WriteFails, Store!WriteFails, Torn, Store!Torn,
         Idle, Store!Idle
<1> QED
  BY <1>1, <1>2, <1>3 DEF RepairStep, Store!RepairStep

LEMMA StoreInitial == InitRecording => Store!Init
  BY DEF InitRecording, Init, Store!Init, Closed, Store!Closed, Idle, Store!Idle,
         EmptyContext, Store!EmptyContext

\* What a recording does to the files, a SegmentBuilder and a SegmentRepairer
\* over sound blocks do.
LEMMA StoreStepOf ==
  BuilderInv /\ [NextRecording]_recordingVars => [Store!Next]_(Store!vars)
<1> SUFFICES ASSUME BuilderInv, [NextRecording]_recordingVars PROVE [Store!Next]_(Store!vars)
  OBVIOUS
<1>1. CASE Drain
  <2>1. Head(blocks) \in SoundBlocks
    BY <1>1, HeadTailProperties DEF BuilderInv, Drain
  <2>2. Store!WriteBlock(Head(blocks))
    BY <1>1, SameWrite DEF Drain
  <2> QED
    BY <2>1, <2>2 DEF Store!Next
<1>2. CASE Stop
  BY <1>2, SameCrash, SamePowerLoss DEF Stop, Store!Next
<1>3. CASE StoreStep
  BY <1>3, SameClose, SameFlush, SameOpen, SameHeader, SameSyncHeader, SameAppend, SameSync, SameFooter,
     SameFinish DEF StoreStep, BuilderStep, Store!Next, Store!BuilderStep
<1>4. CASE Recover
  BY <1>4, SameRepair DEF Recover, Store!Next
<1>5. CASE AddNext \/ FlushBlock \/ Play \/ UNCHANGED recordingVars
  BY <1>5 DEF AddNext, FlushBlock, Play, recordingVars, vars, Store!vars
<1> QED
  BY <1>1, <1>2, <1>3, <1>4, <1>5 DEF NextRecording

\* What a recorder leaves in its files, whatever its stream, its crashes and
\* its players, SegmentBuilder and SegmentRepairer do to the blocks of
\* SoundBlocks alone: block_builder.cpp gives segment_builder.cpp nothing else.
THEOREM RecordingIsStored == ASSUME PastRejected PROVE RecordingSpec => Store!Spec
<1>1. BuilderInv /\ [NextRecording]_recordingVars => BuilderInv'
  BY BuilderStepSound
<1> QED
  BY <1>1, BuilderStart, StoreInitial, StoreStepOf, PTL DEF RecordingSpec, Store!Spec

LEMMA MadeIsSound == BuilderInv /\ Store!TypeOK => BlocksAreSound
<1> SUFFICES ASSUME BuilderInv, Store!TypeOK, NEW b \in Made
             PROVE  Builder!HeaderIsTrue(b) /\ Builder!WithinLimits(b)
  BY DEF BlocksAreSound
<1>1. CASE b \in {blocks[i] : i \in DOMAIN blocks}
  <2>1. b \in SoundBlocks
    BY <1>1, LenProperties, ElementOfSeq DEF BuilderInv
  <2> QED
    BY <2>1 DEF SoundBlocks
<1>2. CASE b \in {disk[x[1]][x[2]].block : x \in InFiles}
  <2>0. PICK n \in DOMAIN disk : \E p \in 1..Len(disk[n]) :
          disk[n][p].kind = "block" /\ b = disk[n][p].block
    BY <1>2 DEF InFiles
  <2>1. PICK p \in 1..Len(disk[n]) :
          disk[n][p].kind = "block" /\ b = disk[n][p].block
    BY <2>0
  <2>2. disk[n] \in Seq(Store!Pieces)
    BY DEF Store!TypeOK, Store!DiskTyped
  <2>3. disk[n][p] \in Store!Pieces
    BY <2>2, ElementOfSeq
  <2>4. b \in SoundBlocks
    BY <2>1, <2>3 DEF Store!Pieces, Store!Header, Store!Torn, Store!Indices
  <2> QED
    BY <2>4 DEF SoundBlocks
<1>3. CASE Writing /\ b = call.block
  <2>1. call \in Store!Calls
    BY DEF Store!TypeOK, Store!BuilderTyped
  <2>2. b \in SoundBlocks
    BY <1>3, <2>1 DEF Writing, Store!Calls, Store!Idle
  <2> QED
    BY <2>2 DEF SoundBlocks
<1> QED
  BY <1>1, <1>2, <1>3 DEF Made

\* The header of every block, wherever it is between add_entry and the file,
\* tells the truth about its entries, and it keeps the limits of the options
\* (block_builder.cpp: add_entry, finalize_current_block, flush).
THEOREM EveryBlockIsSound ==
  ASSUME PastRejected, Store!NamesSuffice PROVE RecordingSpec => []BlocksAreSound
<1>1. BuilderInv /\ [NextRecording]_recordingVars => BuilderInv'
  BY BuilderStepSound
<1>3. Store!Spec => []Store!TypeOK
  BY StoreAssumption, Store!TypeCorrect
<1> QED
  BY <1>1, <1>3, BuilderStart, RecordingIsStored, MadeIsSound, PTL DEF RecordingSpec

\* What SegmentStore promises of its files holds of a recording, over all the
\* blocks the builder may make and not only those a run gives it.
THEOREM RecordingSurvives ==
  ASSUME PastRejected, Store!NamesSuffice, Store!WholeWrites
  PROVE  RecordingSpec => [](BlocksSurvive /\ FooterTellsTruth)
<1>2. Store!Spec => []Store!BlocksSurvive
  BY StoreAssumption, Store!BlocksNeverLost
<1>3. Store!Spec => []Store!FooterTellsTruth
  BY StoreAssumption, Store!FootersTellTruth
<1>4. Store!BlocksSurvive => BlocksSurvive
  BY DEF BlocksSurvive, Store!BlocksSurvive, Header, Store!Header, BlockPiece, Store!BlockPiece
<1>5. Store!FooterTellsTruth => FooterTellsTruth
  BY DEF FooterTellsTruth, Store!FooterTellsTruth, HasFooter, Store!HasFooter, Header, Store!Header,
         Scanned, Store!Scanned, Indexes, Store!Indexes, FooterIndices, Store!FooterIndices,
         IsKey, Store!IsKey, IndexEntry, Store!IndexEntry
<1> QED
  BY <1>2, <1>3, <1>4, <1>5, RecordingIsStored, PTL

-----------------------------------------------------------------------------
(***************************************************************************)
(* FlattenSeq: the recursive function inside exists, and goes on by one    *)
(* sequence at a time.                                                     *)
(***************************************************************************)
Joined(seqs, f, i) == IF i = 1 THEN seqs[i] ELSE f[i - 1] \o seqs[i]
Joins(seqs)        == CHOOSE f : f = [i \in 1..Len(seqs) |-> Joined(seqs, f, i)]

LEMMA LeastOne ==
  ASSUME NEW T, T \subseteq Nat, T # {}
  PROVE  \E x \in T : \A y \in T : x <= y
  BY StoreAssumption, Store!LeastNat

LEMMA FlattenIs ==
  ASSUME NEW seqs, Len(seqs) # 0 PROVE FlattenSeq(seqs) = Joins(seqs)[Len(seqs)]
  BY DEF FlattenSeq, Joins, Joined

LEMMA JoinsExist ==
  ASSUME NEW seqs, NEW k \in Nat
  PROVE  \E f : f = [i \in 1..k |-> Joined(seqs, f, i)]
<1> DEFINE Bad == {m \in Nat : ~ \E f : f = [i \in 1..m |-> Joined(seqs, f, i)]}
<1>1. SUFFICES ASSUME Bad # {} PROVE FALSE
  OBVIOUS
<1>2. PICK m \in Bad : \A y \in Bad : m <= y
  BY <1>1, LeastOne
<1>3. m \in Nat
  OBVIOUS
<1>4. \A y \in Nat : y < m => \E f : f = [i \in 1..y |-> Joined(seqs, f, i)]
  BY <1>2
<1>5. m # 0
  <2>1. ASSUME m = 0 PROVE FALSE
    <3>1. 1..m = {}
      BY <2>1
    <3>2. \A f, g : [i \in 1..m |-> Joined(seqs, f, i)] = [i \in 1..m |-> Joined(seqs, g, i)]
      BY <3>1
    <3>3. \E f : f = [i \in 1..m |-> Joined(seqs, f, i)]
      <4> DEFINE g == [i \in 1..m |-> Joined(seqs, <<>>, i)]
      <4>1. g = [i \in 1..m |-> Joined(seqs, g, i)]
        BY <3>2
      <4> QED
        BY <4>1
    <3> QED
      BY <3>3
  <2> QED
    BY <2>1
<1>6. PICK g : g = [i \in 1..(m - 1) |-> Joined(seqs, g, i)]
  <2>1. m - 1 \in Nat /\ m - 1 < m
    BY <1>3, <1>5
  <2> QED
    BY <2>1, <1>4
<1> DEFINE h == [i \in 1..m |-> IF i = m THEN Joined(seqs, g, m) ELSE g[i]]
<1>7. \A i \in 1..(m - 1) : h[i] = g[i]
  BY <1>3
<1>8. \A i \in 1..m : Joined(seqs, h, i) = Joined(seqs, g, i)
  <2> SUFFICES ASSUME NEW i \in 1..m PROVE Joined(seqs, h, i) = Joined(seqs, g, i)
    OBVIOUS
  <2>1. i # 1 => h[i - 1] = g[i - 1]
    <3>1. i # 1 => i - 1 \in 1..(m - 1)
      BY <1>3
    <3> HIDE DEF h
    <3> QED
      BY <3>1, <1>7
  <2> HIDE DEF h
  <2> QED
    BY <2>1 DEF Joined
<1>9. \A i \in 1..m : h[i] = Joined(seqs, h, i)
  <2>1. \A i \in 1..m : i = m \/ i \in 1..(m - 1)
    BY <1>3
  <2>2. h[m] = Joined(seqs, g, m) /\ m \in 1..m
    BY <1>3, <1>5
  <2>3. \A i \in 1..(m - 1) : g[i] = Joined(seqs, g, i)
    BY <1>6, Zenon
  <2> HIDE DEF h
  <2> QED
    BY <2>1, <2>2, <2>3, <1>7, <1>8, Zenon
<1>10. h = [i \in 1..m |-> h[i]]
  OBVIOUS
<1> HIDE DEF h
<1>11. h = [i \in 1..m |-> Joined(seqs, h, i)]
  BY <1>9, <1>10
<1> QED
  BY <1>2, <1>11

LEMMA JoinsSolve ==
  ASSUME NEW seqs, Len(seqs) \in Nat
  PROVE  \A i \in 1..Len(seqs) : Joins(seqs)[i] = Joined(seqs, Joins(seqs), i)
<1>1. \E f : f = [i \in 1..Len(seqs) |-> Joined(seqs, f, i)]
  BY JoinsExist
<1>2. Joins(seqs) = [i \in 1..Len(seqs) |-> Joined(seqs, Joins(seqs), i)]
  BY <1>1, Zenon DEF Joins
<1> QED
  BY <1>2, Zenon

\* What is joined first does not depend on what comes later.
LEMMA JoinsAgree ==
  ASSUME NEW s, NEW t, Len(s) \in Nat, Len(t) \in Nat, NEW n \in Nat, n <= Len(s), n <= Len(t),
         \A i \in 1..n : s[i] = t[i]
  PROVE  \A i \in 1..n : Joins(s)[i] = Joins(t)[i]
<1> DEFINE F == Joins(s)
           G == Joins(t)
           Bad == {i \in 1..n : F[i] # G[i]}
<1>1. \A i \in 1..n : F[i] = Joined(s, F, i) /\ G[i] = Joined(t, G, i)
  <2>1. \A i \in 1..n : i \in 1..Len(s) /\ i \in 1..Len(t)
    OBVIOUS
  <2> QED
    BY <2>1, JoinsSolve
<1> HIDE DEF F, G
<1>2. SUFFICES ASSUME Bad # {} PROVE FALSE
  BY DEF F, G
<1>3. Bad \subseteq Nat
  OBVIOUS
<1>4. PICK m \in Bad : \A y \in Bad : m <= y
  BY <1>2, <1>3, LeastOne
<1>5. m \in 1..n /\ F[m] # G[m] /\ s[m] = t[m]
  OBVIOUS
<1>6. m # 1 => F[m - 1] = G[m - 1]
  <2>1. m # 1 => m - 1 \in 1..n /\ m - 1 < m
    BY <1>5
  <2> QED
    BY <2>1, <1>4, <1>5
<1>7. Joined(s, F, m) = Joined(t, G, m)
  BY <1>5, <1>6, Zenon DEF Joined
<1> QED
  BY <1>1, <1>5, <1>7

LEMMA JoinsTyped ==
  ASSUME NEW S, NEW s, Len(s) \in Nat, \A i \in 1..Len(s) : s[i] \in Seq(S)
  PROVE  \A i \in 1..Len(s) : Joins(s)[i] \in Seq(S)
<1> DEFINE F == Joins(s)
           Bad == {i \in 1..Len(s) : F[i] \notin Seq(S)}
<1>1. \A i \in 1..Len(s) : F[i] = Joined(s, F, i)
  BY JoinsSolve
<1> HIDE DEF F
<1>2. SUFFICES ASSUME Bad # {} PROVE FALSE
  BY DEF F
<1>3. Bad \subseteq Nat
  OBVIOUS
<1>4. PICK m \in Bad : \A y \in Bad : m <= y
  BY <1>2, <1>3, LeastOne
<1>5. m \in 1..Len(s) /\ F[m] \notin Seq(S) /\ s[m] \in Seq(S)
  OBVIOUS
<1>6. m # 1 => F[m - 1] \in Seq(S)
  <2>1. m # 1 => m - 1 \in 1..Len(s) /\ m - 1 < m
    BY <1>5
  <2> QED
    BY <2>1, <1>4, <1>5
<1>7. Joined(s, F, m) \in Seq(S)
  <2>1. CASE m = 1
    BY <2>1, <1>5 DEF Joined
  <2>2. CASE m # 1
    <3>1. F[m - 1] \o s[m] \in Seq(S)
      BY <2>2, <1>5, <1>6, ConcatProperties
    <3> QED
      BY <3>1, <2>2 DEF Joined
  <2> QED
    BY <2>1, <2>2
<1> QED
  BY <1>1, <1>5, <1>7

(***************************************************************************)
(* The entries between two places of a file.                               *)
(***************************************************************************)
AllBlocks(f, p, q) == \A r \in p..(q - 1) : IsBlockAt(f, r)

\* Those in front of q, and the first k of q.
Had(f, p, q, k) == EntriesBetween(f, p, q) \o [j \in 1..k |-> <<q, j>>]

Between(f, p, q) == [i \in 1..(q - p) |-> EntriesAt(f, p + i - 1)]

LEMMA BlockEntries ==
  ASSUME NEW f \in Seq(Store!Pieces), NEW p \in Nat \ {0}, IsBlockAt(f, p)
  PROVE  f[p].block \in SoundBlocks /\ Len(f[p].block.entries) \in Nat \ {0}
<1>1. f[p] \in Store!Pieces /\ f[p].kind = "block"
  <2>1. p \in 1..Len(f)
    BY DEF IsBlockAt
  <2> QED
    BY <2>1 DEF IsBlockAt
<1>2. f[p].block \in SoundBlocks
  BY <1>1 DEF Store!Pieces, Store!Header, Store!Torn, Store!Indices
<1>3. f[p].block.entries \in Seq(Entries) /\ Len(f[p].block.entries) > 0
  BY <1>2 DEF SoundBlocks, RawBlocks, Builder!HeaderIsTrue
<1> QED
  BY <1>2, <1>3

LEMMA AtTyped ==
  ASSUME NEW f, NEW p, Len(f[p].block.entries) \in Nat, NEW S, p \in S
  PROVE  EntriesAt(f, p) \in Seq(S \X Nat) /\ Len(EntriesAt(f, p)) = Len(f[p].block.entries)
<1> DEFINE n == Len(f[p].block.entries)
<1>1. n \in Nat
  OBVIOUS
<1>2. EntriesAt(f, p) = [k \in 1..n |-> <<p, k>>]
  BY DEF EntriesAt
<1> HIDE DEF n
<1>3. EntriesAt(f, p) \in [1..n -> S \X Nat]
  BY <1>1, <1>2
<1> QED
  BY <1>1, <1>3 DEF n

LEMMA BetweenLen ==
  ASSUME NEW f, NEW p \in Nat, NEW q \in Nat, p <= q
  PROVE  /\ Len(Between(f, p, q)) = q - p
         /\ \A i \in 1..(q - p) : Between(f, p, q)[i] = EntriesAt(f, p + i - 1)
<1>1. q - p \in Nat
  OBVIOUS
<1> QED
  BY <1>1 DEF Between

LEMMA BetweenIs ==
  ASSUME NEW f, NEW p, NEW q PROVE EntriesBetween(f, p, q) = FlattenSeq(Between(f, p, q))
  BY DEF EntriesBetween, Between

LEMMA BetweenNone ==
  ASSUME NEW f, NEW p \in Nat PROVE EntriesBetween(f, p, p) = <<>>
<1>1. Len(Between(f, p, p)) = 0
  BY BetweenLen
<1>2. Between(f, p, p) = <<>>
  BY DEF Between
<1> QED
  BY <1>1, <1>2, BetweenIs DEF FlattenSeq

LEMMA BetweenTyped ==
  ASSUME NEW f \in Seq(Store!Pieces), NEW p \in Nat \ {0}, NEW q \in Nat, p <= q, AllBlocks(f, p, q)
  PROVE  EntriesBetween(f, p, q) \in Seq((p..(q - 1)) \X Nat)
<1>1. CASE p = q
  <2>1. EntriesBetween(f, p, q) = <<>>
    BY <1>1, BetweenNone
  <2>2. \A S : <<>> \in Seq(S)
    OBVIOUS
  <2> QED
    BY <2>1, <2>2, Zenon
<1>2. CASE p # q
  <2> DEFINE s == Between(f, p, q)
             S == p..(q - 1)
  <2>1. /\ Len(s) = q - p /\ Len(s) \in Nat /\ Len(s) # 0
        /\ \A i \in 1..(q - p) : s[i] = EntriesAt(f, p + i - 1)
    BY <1>2, BetweenLen
  <2>2. ASSUME NEW r \in S PROVE EntriesAt(f, r) \in Seq(S \X Nat)
    <3>1. r \in Nat \ {0} /\ IsBlockAt(f, r)
      BY DEF AllBlocks
    <3>2. Len(f[r].block.entries) \in Nat
      BY <3>1, BlockEntries
    <3> HIDE DEF S
    <3> QED
      BY <3>2, AtTyped
  <2>3. \A i \in 1..(q - p) : p + i - 1 \in S
    OBVIOUS
  <2> HIDE DEF s, S
  <2>4. \A i \in 1..Len(s) : s[i] \in Seq(S \X Nat)
    <3> SUFFICES ASSUME NEW i \in 1..Len(s) PROVE s[i] \in Seq(S \X Nat)
      OBVIOUS
    <3>1. i \in 1..(q - p)
      BY <2>1
    <3>2. s[i] = EntriesAt(f, p + i - 1) /\ p + i - 1 \in S
      BY <2>1, <2>3, <3>1
    <3>3. EntriesAt(f, p + i - 1) \in Seq(S \X Nat)
      <4> DEFINE r == p + i - 1
      <4>1. r \in S
        BY <3>2
      <4> HIDE DEF r
      <4>2. EntriesAt(f, r) \in Seq(S \X Nat)
        BY <2>2, <4>1
      <4> QED
        BY <4>2 DEF r
    <3> QED
      BY <3>2, <3>3
  <2>5. Joins(s)[Len(s)] \in Seq(S \X Nat)
    <3> DEFINE T == S \X Nat
    <3>1. \A i \in 1..Len(s) : s[i] \in Seq(T)
      BY <2>4
    <3>2. Len(s) \in 1..Len(s) /\ Len(s) \in Nat
      BY <2>1
    <3> HIDE DEF T
    <3>3. \A i \in 1..Len(s) : Joins(s)[i] \in Seq(T)
      BY <3>1, <3>2, JoinsTyped
    <3> QED
      BY <3>2, <3>3 DEF T
  <2>6. EntriesBetween(f, p, q) = Joins(s)[Len(s)]
    BY <2>1, BetweenIs, FlattenIs DEF s
  <2> QED
    BY <2>5, <2>6 DEF S
<1> QED
  BY <1>1, <1>2

LEMMA BetweenNext ==
  ASSUME NEW f \in Seq(Store!Pieces), NEW p \in Nat \ {0}, NEW q \in Nat, p <= q, IsBlockAt(f, q)
  PROVE  EntriesBetween(f, p, q + 1) = EntriesBetween(f, p, q) \o EntriesAt(f, q)
<1> DEFINE s == Between(f, p, q)
           t == Between(f, p, q + 1)
           n == q - p
<1>1. /\ n \in Nat /\ Len(s) = n /\ Len(t) = n + 1
      /\ \A i \in 1..n : s[i] = EntriesAt(f, p + i - 1)
      /\ \A i \in 1..(n + 1) : t[i] = EntriesAt(f, p + i - 1)
      /\ t[n + 1] = EntriesAt(f, q)
  <2>1. q + 1 \in Nat /\ p <= q + 1 /\ (q + 1) - p = n + 1 /\ n \in Nat /\ p + (n + 1) - 1 = q
    OBVIOUS
  <2>2. Len(s) = n /\ \A i \in 1..n : s[i] = EntriesAt(f, p + i - 1)
    BY BetweenLen
  <2>3. Len(t) = n + 1 /\ \A i \in 1..(n + 1) : t[i] = EntriesAt(f, p + i - 1)
    BY <2>1, BetweenLen
  <2>4. t[n + 1] = EntriesAt(f, p + (n + 1) - 1)
    BY <2>1, <2>3
  <2> QED
    BY <2>1, <2>2, <2>3, <2>4
<1>2. EntriesAt(f, q) \in Seq({q} \X Nat)
  <2>1. q \in Nat \ {0}
    OBVIOUS
  <2> QED
    BY <2>1, BlockEntries, AtTyped
<1>3. EntriesBetween(f, p, q) = FlattenSeq(s) /\ EntriesBetween(f, p, q + 1) = FlattenSeq(t)
  BY BetweenIs
<1> HIDE DEF s, t
<1>4. FlattenSeq(t) = Joined(t, Joins(t), n + 1)
  <2>1. Len(t) # 0 /\ n + 1 \in 1..Len(t) /\ Len(t) \in Nat
    BY <1>1
  <2>2. FlattenSeq(t) = Joins(t)[n + 1]
    BY <2>1, <1>1, FlattenIs
  <2> QED
    BY <2>1, <2>2, JoinsSolve
<1>5. CASE n = 0
  <2>1. EntriesBetween(f, p, q) = <<>>
    <3>1. p = q
      BY <1>5
    <3> QED
      BY <3>1, BetweenNone
  <2>2. EntriesBetween(f, p, q + 1) = EntriesAt(f, q)
    BY <1>1, <1>3, <1>4, <1>5 DEF Joined
  <2>3. <<>> \o EntriesAt(f, q) = EntriesAt(f, q)
    BY <1>2, ConcatEmptySeq
  <2> QED
    BY <2>1, <2>2, <2>3
<1>6. CASE n # 0
  <2>1. FlattenSeq(t) = Joins(t)[n] \o EntriesAt(f, q)
    <3>1. n + 1 # 1 /\ (n + 1) - 1 = n
      BY <1>1, <1>6
    <3> QED
      BY <3>1, <1>1, <1>4, Zenon DEF Joined
  <2>2. FlattenSeq(s) = Joins(s)[n]
    BY <1>1, <1>6, FlattenIs
  <2>3. \A i \in 1..n : s[i] = t[i]
    <3>1. \A i \in 1..n : i \in 1..(n + 1)
      BY <1>1
    <3>2. /\ \A i \in 1..n : s[i] = EntriesAt(f, p + i - 1)
          /\ \A i \in 1..(n + 1) : t[i] = EntriesAt(f, p + i - 1)
      BY <1>1
    <3> QED
      BY <3>1, <3>2, Zenon
  <2>4. n <= Len(s) /\ n <= Len(t) /\ Len(s) \in Nat /\ Len(t) \in Nat /\ n \in 1..n
    BY <1>1, <1>6
  <2>5. Joins(s)[n] = Joins(t)[n]
    <3>1. n \in Nat
      BY <1>1
    <3> HIDE DEF n
    <3>2. \A i \in 1..n : Joins(s)[i] = Joins(t)[i]
      BY <2>3, <2>4, <3>1, JoinsAgree
    <3> QED
      BY <2>4, <3>2
  <2> QED
    BY <1>3, <2>1, <2>2, <2>5
<1> QED
  BY <1>5, <1>6

\* It is the same in files that agree there.
LEMMA BetweenSame ==
  ASSUME NEW f, NEW g, NEW p \in Nat, NEW q \in Nat, \A r \in p..(q - 1) : f[r] = g[r]
  PROVE  EntriesBetween(f, p, q) = EntriesBetween(g, p, q)
<1>1. \A i \in 1..(q - p) : p + i - 1 \in p..(q - 1)
  OBVIOUS
<1>2. \A i \in 1..(q - p) : EntriesAt(f, p + i - 1) = EntriesAt(g, p + i - 1)
  BY <1>1 DEF EntriesAt
<1>3. Between(f, p, q) = Between(g, p, q)
  BY <1>2 DEF Between
<1> QED
  BY <1>3, BetweenIs

(***************************************************************************)
(* Prefixes.                                                               *)
(***************************************************************************)
Begins(s, t) == Len(s) <= Len(t) /\ \A i \in 1..Len(s) : s[i] = t[i]

LEMMA BeginsTrans ==
  ASSUME NEW s, NEW t, NEW u, Len(s) \in Nat, Len(t) \in Nat, Len(u) \in Nat,
         Begins(s, t), Begins(t, u)
  PROVE  Begins(s, u)
<1>1. Len(s) <= Len(t) /\ Len(t) <= Len(u)
  BY DEF Begins
<1>2. \A i \in 1..Len(s) : i \in 1..Len(t)
  BY <1>1
<1> QED
  BY <1>1, <1>2 DEF Begins

LEMMA BeginsPrefix ==
  ASSUME NEW S, NEW s \in Seq(S), NEW t \in Seq(S), Begins(s, t)
  PROVE  IsPrefix(s, t)
<1> DEFINE n == Len(s)
           a == SubSeq(s, 1, n)
           b == SubSeq(t, 1, n)
<1>1. n \in Nat /\ Len(t) \in Nat /\ n <= Len(t)
  BY DEF Begins
<1>2. (\A i \in 1..n : s[i] \in S) /\ (\A i \in 1..n : t[i] \in S)
  BY <1>1
<1> HIDE DEF n
<1>3. /\ a \in Seq(S) /\ Len(a) = IF 1 <= n THEN n - 1 + 1 ELSE 0
      /\ \A i \in 1..(n - 1 + 1) : a[i] = s[1 + i - 1]
  BY <1>1, <1>2, SubSeqProperties
<1>4. /\ b \in Seq(S) /\ Len(b) = IF 1 <= n THEN n - 1 + 1 ELSE 0
      /\ \A i \in 1..(n - 1 + 1) : b[i] = t[1 + i - 1]
  BY <1>1, <1>2, SubSeqProperties
<1> HIDE DEF a, b
<1>5. Len(a) = n /\ Len(b) = n /\ n - 1 + 1 = n
  BY <1>1, <1>3, <1>4
<1>6. \A i \in 1..n : a[i] = b[i]
  <2> SUFFICES ASSUME NEW i \in 1..n PROVE a[i] = b[i]
    OBVIOUS
  <2>1. i \in 1..(n - 1 + 1) /\ 1 + i - 1 = i
    BY <1>1
  <2>2. a[i] = s[i] /\ b[i] = t[i]
    BY <1>3, <1>4, <2>1
  <2> QED
    BY <2>2 DEF Begins, n
<1>7. a = b
  BY <1>3, <1>4, <1>5, <1>6, SeqEqual
<1> QED
  BY <1>1, <1>7 DEF IsPrefix, a, b, n

LEMMA ConcatBegins ==
  ASSUME NEW S, NEW s \in Seq(S), NEW t \in Seq(S)
  PROVE  Begins(s, s \o t)
  BY ConcatProperties, LenProperties DEF Begins

LEMMA ConcatKeeps ==
  ASSUME NEW S, NEW s \in Seq(S), NEW t \in Seq(S), NEW u \in Seq(S), Begins(t, u)
  PROVE  Begins(s \o t, s \o u)
<1>1. Len(s) \in Nat /\ Len(t) \in Nat /\ Len(u) \in Nat /\ Len(t) <= Len(u)
  BY DEF Begins
<1>2. /\ Len(s \o t) = Len(s) + Len(t)
      /\ \A i \in 1..(Len(s) + Len(t)) : (s \o t)[i] = IF i <= Len(s) THEN s[i] ELSE t[i - Len(s)]
  BY ConcatProperties
<1>3. /\ Len(s \o u) = Len(s) + Len(u)
      /\ \A i \in 1..(Len(s) + Len(u)) : (s \o u)[i] = IF i <= Len(s) THEN s[i] ELSE u[i - Len(s)]
  BY ConcatProperties
<1>4. ASSUME NEW i \in 1..(Len(s) + Len(t)) PROVE (s \o t)[i] = (s \o u)[i]
  <2>1. i \in 1..(Len(s) + Len(u))
    BY <1>1
  <2>2. ~ (i <= Len(s)) => t[i - Len(s)] = u[i - Len(s)]
    <3>1. ~ (i <= Len(s)) => i - Len(s) \in 1..Len(t)
      BY <1>1
    <3> QED
      BY <3>1 DEF Begins
  <2> QED
    BY <1>2, <1>3, <2>1, <2>2
<1> QED
  BY <1>1, <1>2, <1>3, <1>4 DEF Begins

With(s, x) == Append(s, x)

LEMMA ConcatAppend ==
  ASSUME NEW S, NEW s \in Seq(S), NEW t \in Seq(S), NEW x \in S
  PROVE  With(s \o t, x) = s \o With(t, x)
<1> DEFINE a == Append(s \o t, x)
           b == s \o Append(t, x)
           n == Len(s) + Len(t)
<1>1. Len(s) \in Nat /\ Len(t) \in Nat /\ n \in Nat
  OBVIOUS
<1>2. /\ s \o t \in Seq(S) /\ Len(s \o t) = n
      /\ \A i \in 1..n : (s \o t)[i] = IF i <= Len(s) THEN s[i] ELSE t[i - Len(s)]
  BY ConcatProperties
<1>3. /\ a \in Seq(S) /\ Len(a) = n + 1 /\ a[n + 1] = x /\ \A i \in 1..n : a[i] = (s \o t)[i]
  BY <1>2
<1>4. /\ Append(t, x) \in Seq(S) /\ Len(Append(t, x)) = Len(t) + 1
      /\ Append(t, x)[Len(t) + 1] = x /\ \A i \in 1..Len(t) : Append(t, x)[i] = t[i]
  OBVIOUS
<1>5. /\ b \in Seq(S) /\ Len(b) = Len(s) + (Len(t) + 1)
      /\ \A i \in 1..(Len(s) + (Len(t) + 1)) :
           b[i] = IF i <= Len(s) THEN s[i] ELSE Append(t, x)[i - Len(s)]
  BY <1>4, ConcatProperties
<1> HIDE DEF a, b
<1>6. ASSUME NEW i \in 1..Len(a) PROVE a[i] = b[i]
  <2>1. i \in 1..(Len(s) + (Len(t) + 1))
    BY <1>1, <1>3
  <2>2. CASE i = n + 1
    <3>1. ~ (i <= Len(s)) /\ i - Len(s) = Len(t) + 1
      BY <1>1, <2>2
    <3> QED
      BY <2>1, <2>2, <3>1, <1>3, <1>4, <1>5
  <2>3. CASE i \in 1..n
    <3>1. ~ (i <= Len(s)) => i - Len(s) \in 1..Len(t)
      BY <1>1, <2>3
    <3> QED
      BY <2>1, <2>3, <3>1, <1>2, <1>3, <1>4, <1>5
  <2> QED
    BY <1>1, <1>3, <2>2, <2>3
<1>7. Len(a) = Len(b)
  BY <1>1, <1>3, <1>5
<1>8. a = b
  BY <1>3, <1>5, <1>6, <1>7, SeqEqual
<1> QED
  BY <1>8 DEF a, b, With

(***************************************************************************)
(* What a reader may have had of a file.                                   *)
(***************************************************************************)
BlockPlaces(f) == {r \in Nat \ {0} : IsBlockAt(f, r)} \X Nat

LEMMA AtBlocks ==
  ASSUME NEW f \in Seq(Store!Pieces), NEW p \in Nat \ {0}, IsBlockAt(f, p)
  PROVE  /\ EntriesAt(f, p) \in Seq(BlockPlaces(f))
         /\ Len(EntriesAt(f, p)) = Len(f[p].block.entries)
         /\ Len(f[p].block.entries) \in Nat \ {0}
<1> DEFINE S == {r \in Nat \ {0} : IsBlockAt(f, r)}
<1>1. p \in S
  OBVIOUS
<1>2. Len(f[p].block.entries) \in Nat \ {0}
  BY BlockEntries
<1> HIDE DEF S
<1>3. EntriesAt(f, p) \in Seq(S \X Nat) /\ Len(EntriesAt(f, p)) = Len(f[p].block.entries)
  BY <1>1, <1>2, AtTyped
<1> QED
  BY <1>2, <1>3 DEF S, BlockPlaces

LEMMA BetweenBlocks ==
  ASSUME NEW f \in Seq(Store!Pieces), NEW p \in Nat \ {0}, NEW q \in Nat, p <= q, AllBlocks(f, p, q)
  PROVE  EntriesBetween(f, p, q) \in Seq(BlockPlaces(f))
<1>1. \A r \in p..(q - 1) : r \in Nat \ {0} /\ IsBlockAt(f, r)
  BY DEF AllBlocks
<1> DEFINE S == (p..(q - 1)) \X Nat
<1>2. S \subseteq BlockPlaces(f)
  BY <1>1 DEF BlockPlaces
<1>3. EntriesBetween(f, p, q) \in Seq(S)
  BY BetweenTyped
<1> HIDE DEF S
<1> QED
  BY <1>2, <1>3

LEMMA BetweenGoesOn ==
  ASSUME NEW f \in Seq(Store!Pieces), NEW p \in Nat \ {0}, NEW q \in Nat, NEW r \in Nat,
         p <= q, q <= r, AllBlocks(f, p, r)
  PROVE  Begins(EntriesBetween(f, p, q), EntriesBetween(f, p, r))
<1> DEFINE B(x) == EntriesBetween(f, p, x)
           Bad == {x \in q..r : ~ Begins(B(q), B(x))}
           S == BlockPlaces(f)
<1>1. \A x \in q..r : AllBlocks(f, p, x) /\ B(x) \in Seq(S)
  <2> SUFFICES ASSUME NEW x \in q..r PROVE AllBlocks(f, p, x) /\ B(x) \in Seq(S)
    OBVIOUS
  <2>1. AllBlocks(f, p, x) /\ p <= x /\ x \in Nat
    BY DEF AllBlocks
  <2> QED
    BY <2>1, BetweenBlocks
<1>2. \A x \in q..(r - 1) : B(x + 1) = B(x) \o EntriesAt(f, x) /\ EntriesAt(f, x) \in Seq(S)
  <2> SUFFICES ASSUME NEW x \in q..(r - 1)
               PROVE  B(x + 1) = B(x) \o EntriesAt(f, x) /\ EntriesAt(f, x) \in Seq(S)
    OBVIOUS
  <2>1. x \in Nat \ {0} /\ p <= x /\ IsBlockAt(f, x)
    BY DEF AllBlocks
  <2> QED
    BY <2>1, BetweenNext, AtBlocks
<1> HIDE DEF B, S
<1>3. SUFFICES ASSUME Bad # {} PROVE FALSE
  BY DEF B
<1>4. Bad \subseteq Nat
  OBVIOUS
<1>5. PICK m \in Bad : \A y \in Bad : m <= y
  BY <1>3, <1>4, LeastOne
<1>6. m \in q..r /\ ~ Begins(B(q), B(m))
  OBVIOUS
<1>7. m # q
  BY <1>6, <1>1 DEF Begins
<1>8. m - 1 \in q..(r - 1) /\ m - 1 \in q..r /\ (m - 1) + 1 = m /\ ~ (m <= m - 1) /\ q \in q..r
  BY <1>6, <1>7
<1>9. Begins(B(q), B(m - 1))
  BY <1>5, <1>8
<1>10. B(m) = B(m - 1) \o EntriesAt(f, m - 1) /\ EntriesAt(f, m - 1) \in Seq(S)
  BY <1>2, <1>8
<1>11. B(m - 1) \in Seq(S) /\ B(q) \in Seq(S) /\ B(m) \in Seq(S)
  BY <1>1, <1>6, <1>8
<1>12. Begins(B(m - 1), B(m))
  BY <1>10, <1>11, ConcatBegins
<1> QED
  BY <1>6, <1>9, <1>11, <1>12, BeginsTrans, LenProperties

LEMMA EndExists ==
  ASSUME NEW f, NEW p \in Nat, Len(f) \in Nat, p <= Len(f) + 1
  PROVE  \E e \in p..(Len(f) + 1) : ~ IsBlockAt(f, e) /\ AllBlocks(f, p, e)
<1> DEFINE T == {e \in p..(Len(f) + 1) : ~ IsBlockAt(f, e)}
<1>1. Len(f) + 1 \in T
  BY DEF IsBlockAt
<1>2. T \subseteq Nat /\ T # {}
  BY <1>1
<1>3. PICK e \in T : \A y \in T : e <= y
  BY <1>2, LeastOne
<1>4. \A r \in p..(e - 1) : r \in p..(Len(f) + 1) /\ ~ (e <= r)
  OBVIOUS
<1>5. AllBlocks(f, p, e)
  BY <1>3, <1>4 DEF AllBlocks
<1> QED
  BY <1>5

LEMMA EndIs ==
  ASSUME NEW f, NEW p \in Nat, Len(f) \in Nat, NEW e \in p..(Len(f) + 1),
         ~ IsBlockAt(f, e), AllBlocks(f, p, e)
  PROVE  BlocksEnd(f, p) = e
<1> DEFINE Ends(q) == ~ IsBlockAt(f, q) /\ \A r \in p..(q - 1) : IsBlockAt(f, r)
<1>1. Ends(e)
  BY DEF AllBlocks
<1>2. ASSUME NEW q \in p..(Len(f) + 1), Ends(q) PROVE q = e
  <2>1. q < e => q \in p..(e - 1)
    OBVIOUS
  <2>2. e < q => e \in p..(q - 1)
    OBVIOUS
  <2>3. ~ (q < e) /\ ~ (e < q)
    BY <1>1, <1>2, <2>1, <2>2
  <2> QED
    BY <2>3
<1>3. BlocksEnd(f, p) = CHOOSE q \in p..(Len(f) + 1) : Ends(q)
  BY DEF BlocksEnd
<1> HIDE DEF Ends
<1> QED
  BY <1>1, <1>2, <1>3

\* The file up to the block q, and the first k entries of that.
OnTheWay(f, p, q, k) ==
  /\ p \in Nat \ {0} /\ q \in p..(Len(f) + 1) /\ AllBlocks(f, p, q)
  /\ k \in Nat
  /\ k > 0 => IsBlockAt(f, q) /\ k <= Len(f[q].block.entries)

LEMMA FirstOf ==
  ASSUME NEW q, NEW k \in Nat, NEW S, k > 0 => q \in S
  PROVE  LET u == [j \in 1..k |-> <<q, j>>] IN u \in Seq(S \X Nat) /\ Len(u) = k
<1> DEFINE u == [j \in 1..k |-> <<q, j>>]
<1>1. u \in [1..k -> S \X Nat]
  OBVIOUS
<1> QED
  BY <1>1

LEMMA HadTyped ==
  ASSUME NEW f \in Seq(Store!Pieces), NEW p, NEW q, NEW k, OnTheWay(f, p, q, k)
  PROVE  /\ Had(f, p, q, k) \in Seq(BlockPlaces(f))
         /\ EntriesBetween(f, p, q) \in Seq(BlockPlaces(f))
         /\ [j \in 1..k |-> <<q, j>>] \in Seq(BlockPlaces(f))
<1>1. EntriesBetween(f, p, q) \in Seq(BlockPlaces(f))
  BY BetweenBlocks DEF OnTheWay
<1>2. [j \in 1..k |-> <<q, j>>] \in Seq(BlockPlaces(f))
  <2> DEFINE S == {r \in Nat \ {0} : IsBlockAt(f, r)}
  <2>1. (k > 0 => q \in S) /\ k \in Nat
    BY DEF OnTheWay
  <2> HIDE DEF S
  <2>2. [j \in 1..k |-> <<q, j>>] \in Seq(S \X Nat)
    BY <2>1, FirstOf
  <2> QED
    BY <2>2 DEF S, BlockPlaces
<1> QED
  BY <1>1, <1>2, ConcatProperties DEF Had

\* Nothing of q yet, one entry more, and all of it.
LEMMA HadNone ==
  ASSUME NEW f \in Seq(Store!Pieces), NEW p, NEW q, OnTheWay(f, p, q, 0)
  PROVE  Had(f, p, q, 0) = EntriesBetween(f, p, q)
<1>1. [j \in 1..0 |-> <<q, j>>] = <<>>
  OBVIOUS
<1> QED
  BY <1>1, HadTyped, ConcatEmptySeq DEF Had

LEMMA HadOne ==
  ASSUME NEW f \in Seq(Store!Pieces), NEW p, NEW q, NEW k \in Nat, OnTheWay(f, p, q, k + 1)
  PROVE  Append(Had(f, p, q, k), <<q, k + 1>>) = Had(f, p, q, k + 1)
<1> DEFINE u == [j \in 1..k |-> <<q, j>>]
           v == [j \in 1..(k + 1) |-> <<q, j>>]
           S == BlockPlaces(f)
           x == <<q, k + 1>>
<1>1. q \in Nat \ {0} /\ IsBlockAt(f, q) /\ k + 1 \in Nat
  BY DEF OnTheWay
<1>2. x \in S
  BY <1>1 DEF BlockPlaces
<1>3. OnTheWay(f, p, q, k)
  BY DEF OnTheWay
<1>4. u \in Seq(S) /\ v \in Seq(S) /\ EntriesBetween(f, p, q) \in Seq(S)
  BY <1>3, HadTyped
<1>5. Len(u) = k /\ Len(v) = k + 1 /\ (\A j \in 1..k : u[j] = <<q, j>>)
      /\ (\A j \in 1..(k + 1) : v[j] = <<q, j>>)
  OBVIOUS
<1> HIDE DEF u, v, S, x
<1>6. Append(u, x) = v
  <2>1. /\ Append(u, x) \in Seq(S) /\ Len(Append(u, x)) = k + 1 /\ Append(u, x)[k + 1] = x
        /\ \A j \in 1..k : Append(u, x)[j] = u[j]
    BY <1>2, <1>4, <1>5
  <2>2. \A j \in 1..(k + 1) : j = k + 1 \/ j \in 1..k
    OBVIOUS
  <2>3. v[k + 1] = x /\ \A j \in 1..k : v[j] = u[j]
    <3>1. k + 1 \in 1..(k + 1) /\ \A j \in 1..k : j \in 1..(k + 1)
      OBVIOUS
    <3>2. v[k + 1] = <<q, k + 1>>
      BY <1>5, <3>1
    <3>3. \A j \in 1..k : v[j] = u[j]
      BY <1>5, <3>1
    <3> QED
      BY <3>2, <3>3 DEF x
  <2>4. \A j \in 1..(k + 1) : Append(u, x)[j] = v[j]
    BY <2>1, <2>2, <2>3
  <2> QED
    BY <1>4, <1>5, <2>1, <2>4, SeqEqual
<1>7. Append(EntriesBetween(f, p, q) \o u, x) = EntriesBetween(f, p, q) \o v
  <2> DEFINE b == EntriesBetween(f, p, q)
  <2>1. b \in Seq(S)
    BY <1>4
  <2> HIDE DEF b
  <2>2. u \in Seq(S) /\ x \in S
    BY <1>2, <1>4
  <2>3. With(b \o u, x) = b \o With(u, x)
    BY <2>1, <2>2, ConcatAppend
  <2> QED
    BY <1>6, <2>3 DEF b, With
<1> QED
  BY <1>7 DEF Had, u, v, x

LEMMA HadAll ==
  ASSUME NEW f \in Seq(Store!Pieces), NEW p, NEW q, NEW k, OnTheWay(f, p, q, k),
         IsBlockAt(f, q), k = Len(f[q].block.entries)
  PROVE  Had(f, p, q, k) = EntriesBetween(f, p, q + 1) /\ OnTheWay(f, p, q + 1, 0)
<1>1. /\ p \in Nat \ {0} /\ q \in Nat /\ p <= q /\ q <= Len(f) /\ Len(f) \in Nat
      /\ AllBlocks(f, p, q)
  BY DEF OnTheWay, IsBlockAt
<1>2. EntriesAt(f, q) = [j \in 1..k |-> <<q, j>>]
  BY DEF EntriesAt
<1>3. EntriesBetween(f, p, q + 1) = EntriesBetween(f, p, q) \o EntriesAt(f, q)
  BY <1>1, BetweenNext
<1>4. AllBlocks(f, p, q + 1)
  <2>1. \A r \in p..((q + 1) - 1) : r = q \/ r \in p..(q - 1)
    BY <1>1
  <2> QED
    BY <1>1, <2>1 DEF AllBlocks
<1>5. OnTheWay(f, p, q + 1, 0)
  BY <1>1, <1>4 DEF OnTheWay
<1> QED
  BY <1>2, <1>3, <1>5 DEF Had

\* All that is read on the way begins what there is to read.
LEMMA HadBegins ==
  ASSUME NEW f \in Seq(Store!Pieces), NEW p, NEW q, NEW k, OnTheWay(f, p, q, k)
  PROVE  IsPrefix(Had(f, p, q, k), PlacesFrom(f, p))
<1> DEFINE S == BlockPlaces(f)
<1>1. /\ p \in Nat \ {0} /\ q \in Nat /\ p <= q /\ q <= Len(f) + 1 /\ Len(f) \in Nat
      /\ AllBlocks(f, p, q) /\ k \in Nat
  BY DEF OnTheWay
<1>2. PICK e \in p..(Len(f) + 1) : ~ IsBlockAt(f, e) /\ AllBlocks(f, p, e)
  BY <1>1, EndExists
<1>3. PlacesFrom(f, p) = EntriesBetween(f, p, e) /\ EntriesBetween(f, p, e) \in Seq(S)
  <2>1. BlocksEnd(f, p) = e
    BY <1>1, <1>2, EndIs
  <2> QED
    BY <1>1, <1>2, <2>1, BetweenBlocks DEF PlacesFrom
<1>4. q <= e
  <2>1. e < q => e \in p..(q - 1)
    BY <1>1
  <2> QED
    BY <1>1, <1>2, <2>1 DEF AllBlocks
<1>5. Had(f, p, q, k) \in Seq(S) /\ EntriesBetween(f, p, q) \in Seq(S)
      /\ [j \in 1..k |-> <<q, j>>] \in Seq(S)
  BY HadTyped
<1>6. CASE k = 0
  <2>1. Had(f, p, q, k) = EntriesBetween(f, p, q)
    BY <1>6, HadNone
  <2>2. Begins(EntriesBetween(f, p, q), EntriesBetween(f, p, e))
    BY <1>1, <1>2, <1>4, BetweenGoesOn
  <2> QED
    BY <1>3, <1>5, <2>1, <2>2, BeginsPrefix
<1>7. CASE k # 0
  <2>1. IsBlockAt(f, q) /\ k <= Len(f[q].block.entries) /\ q \in Nat \ {0}
    BY <1>1, <1>7 DEF OnTheWay
  <2>2. q + 1 <= e
    BY <1>1, <1>2, <1>4, <2>1
  <2>3. EntriesAt(f, q) \in Seq(S) /\ Len(EntriesAt(f, q)) = Len(f[q].block.entries)
        /\ Len(f[q].block.entries) \in Nat
    BY <2>1, AtBlocks
  <2>4. Begins([j \in 1..k |-> <<q, j>>], EntriesAt(f, q))
    <3> DEFINE n == Len(f[q].block.entries)
               u == [j \in 1..k |-> <<q, j>>]
    <3>1. n \in Nat /\ k <= n /\ EntriesAt(f, q) = [j \in 1..n |-> <<q, j>>]
      BY <2>1, <2>3 DEF EntriesAt
    <3>2. Len(u) = k /\ \A j \in 1..k : u[j] = <<q, j>>
      BY <1>1
    <3> HIDE DEF n, u
    <3>3. \A j \in 1..k : EntriesAt(f, q)[j] = <<q, j>>
      BY <1>1, <3>1
    <3>4. Begins(u, EntriesAt(f, q))
      BY <3>1, <3>2, <3>3, <2>3 DEF Begins, n
    <3> QED
      BY <3>4 DEF u
  <2>5. Begins(Had(f, p, q, k), EntriesBetween(f, p, q) \o EntriesAt(f, q))
    BY <1>5, <2>3, <2>4, ConcatKeeps DEF Had
  <2>6. EntriesBetween(f, p, q + 1) = EntriesBetween(f, p, q) \o EntriesAt(f, q)
    BY <1>1, <2>1, BetweenNext
  <2>7. EntriesBetween(f, p, q + 1) \in Seq(S)
    BY <1>5, <2>3, <2>6, ConcatProperties
  <2>8. Begins(EntriesBetween(f, p, q + 1), EntriesBetween(f, p, e))
    BY <1>1, <1>2, <2>2, BetweenGoesOn
  <2>9. Begins(Had(f, p, q, k), EntriesBetween(f, p, e))
    <3> DEFINE a == Had(f, p, q, k)
               b == EntriesBetween(f, p, q + 1)
               c == EntriesBetween(f, p, e)
    <3>1. a \in Seq(S) /\ b \in Seq(S) /\ c \in Seq(S) /\ Begins(a, b) /\ Begins(b, c)
      BY <1>3, <1>5, <2>5, <2>6, <2>7, <2>8
    <3> HIDE DEF a, b, c, S
    <3>2. Len(a) \in Nat /\ Len(b) \in Nat /\ Len(c) \in Nat
      BY <3>1
    <3>3. Begins(a, c)
      BY <3>1, <3>2, BeginsTrans
    <3> QED
      BY <3>3 DEF a, c
  <2> QED
    BY <1>3, <1>5, <2>9, BeginsPrefix
<1> QED
  BY <1>6, <1>7

(***************************************************************************)
(* Where a reader is.                                                      *)
(***************************************************************************)
Readers == [file : Names \cup {NoFile}, at : Nat \X Nat, need : BOOLEAN, loaded : BOOLEAN,
            indices : Seq(Store!Pieces), from : Nat]

\* Blocks come first in a file with a header, and what is torn comes last.
IsFile(f) ==
  /\ f \in Seq(Store!Pieces)
  /\ f # <<>> /\ f[1] = Header =>
       \A p, q \in 2..Len(f) : p < q => /\ f[p] # Torn
                                        /\ f[q].kind = "block" => f[p].kind = "block"

\* It has had the file f up to its place, and may go on.
InBlock(r) == IF r.need THEN 0 ELSE r.at[2] - 1
ReadsOn(f, r, t, s) ==
  /\ OnTheWay(f, r.from, r.at[1], InBlock(r))
  /\ ~ r.need => InBlock(r) > 0
  /\ t = Had(f, r.from, r.at[1], InBlock(r))
  /\ s # "kEndOfSegment"

\* It has had all blocks, and has run into what comes behind them.
WentAstray(f, r, t) ==
  /\ r.need
  /\ \E e \in r.from..Len(f) :
       /\ AllBlocks(f, r.from, e) /\ f[e].kind # "block" /\ r.at[1] > e
       /\ \/ t = EntriesBetween(f, r.from, e)
          \/ /\ r.at[1] > Len(f) /\ f[Len(f)] = Torn
             /\ t = Append(EntriesBetween(f, r.from, e), <<Len(f), 1>>)

InPlace(f, r, t, s) ==
  /\ f # <<>> /\ f[1] = Header
  /\ r.from \in 2..(Len(f) + 1)
  /\ \A i \in 1..Len(r.indices) : r.indices[i].offset \in 2..Len(f)
  /\ ReadsOn(f, r, t, s) \/ WentAstray(f, r, t)

\* A file that grows does not move its reader.
LEMMA PlaceGrows ==
  ASSUME NEW f, NEW g, IsFile(f), IsFile(g), Begins(f, g),
         NEW r \in Readers, NEW t, NEW s, InPlace(f, r, t, s)
  PROVE  InPlace(g, r, t, s)
<1>1. /\ Len(f) \in Nat /\ Len(g) \in Nat /\ Len(f) <= Len(g)
      /\ \A i \in 1..Len(f) : f[i] = g[i]
  BY DEF IsFile, Begins
<1>2. g # <<>> /\ g[1] = Header /\ Len(f) >= 1
  <2>1. Len(f) >= 1
    BY <1>1 DEF InPlace, IsFile
  <2>2. 1 \in 1..Len(f)
    BY <1>1, <2>1
  <2> QED
    BY <1>1, <2>1, <2>2 DEF InPlace
<1>3. r.from \in 2..(Len(f) + 1) /\ r.from \in 2..(Len(g) + 1) /\ r.from \in Nat
      /\ \A i \in 1..Len(r.indices) : r.indices[i].offset \in 2..Len(g)
  BY <1>1 DEF InPlace
<1>4. ASSUME NEW e \in Nat, e <= Len(f) + 1, AllBlocks(f, r.from, e)
      PROVE  AllBlocks(g, r.from, e) /\ EntriesBetween(f, r.from, e) = EntriesBetween(g, r.from, e)
  <2>1. \A i \in r.from..(e - 1) : i \in 1..Len(f)
    BY <1>1, <1>3, <1>4
  <2>2. \A i \in r.from..(e - 1) : f[i] = g[i]
    BY <1>1, <2>1
  <2>3. AllBlocks(g, r.from, e)
    BY <1>1, <1>4, <2>1, <2>2 DEF AllBlocks, IsBlockAt
  <2> QED
    BY <1>3, <2>2, <2>3, BetweenSame
<1>5. ASSUME ReadsOn(f, r, t, s) PROVE ReadsOn(g, r, t, s)
  <2> DEFINE q == r.at[1]
             k == InBlock(r)
  <2>1. /\ q \in r.from..(Len(f) + 1) /\ AllBlocks(f, r.from, q) /\ k \in Nat /\ r.from \in Nat \ {0}
        /\ k > 0 => IsBlockAt(f, q) /\ k <= Len(f[q].block.entries)
    BY <1>5 DEF ReadsOn, OnTheWay
  <2> HIDE DEF q, k
  <2>2. q \in Nat /\ q \in r.from..(Len(g) + 1) /\ q <= Len(f) + 1
    BY <1>1, <1>3, <2>1
  <2>3. AllBlocks(g, r.from, q) /\ EntriesBetween(f, r.from, q) = EntriesBetween(g, r.from, q)
    BY <1>4, <2>1, <2>2
  <2>4. k > 0 => IsBlockAt(g, q) /\ k <= Len(g[q].block.entries)
    <3>1. k > 0 => q \in 1..Len(f)
      BY <1>3, <2>1, <2>2 DEF IsBlockAt
    <3> QED
      BY <1>1, <2>1, <3>1 DEF IsBlockAt
  <2>5. OnTheWay(g, r.from, q, k)
    BY <2>1, <2>2, <2>3, <2>4 DEF OnTheWay
  <2>6. Had(f, r.from, q, k) = Had(g, r.from, q, k)
    BY <2>3 DEF Had
  <2> QED
    BY <1>5, <2>5, <2>6 DEF ReadsOn, q, k
<1>6. ASSUME WentAstray(f, r, t) PROVE WentAstray(g, r, t)
  <2>1. PICK e \in r.from..Len(f) :
          /\ AllBlocks(f, r.from, e) /\ f[e].kind # "block" /\ r.at[1] > e
          /\ \/ t = EntriesBetween(f, r.from, e)
             \/ /\ r.at[1] > Len(f) /\ f[Len(f)] = Torn
                /\ t = Append(EntriesBetween(f, r.from, e), <<Len(f), 1>>)
    BY <1>6 DEF WentAstray
  <2>2. e \in Nat /\ e <= Len(f) + 1 /\ e \in 1..Len(f) /\ e \in r.from..Len(g)
        /\ Len(f) \in 1..Len(f) /\ Len(f) \in 2..Len(g)
    BY <1>1, <1>3
  <2>3. AllBlocks(g, r.from, e) /\ EntriesBetween(f, r.from, e) = EntriesBetween(g, r.from, e)
        /\ g[e].kind # "block" /\ g[Len(f)] = f[Len(f)]
    BY <1>1, <1>4, <2>1, <2>2
  <2>4. f[Len(f)] = Torn => Len(g) = Len(f)
    <3>1. CASE Len(g) = Len(f)
      BY <3>1
    <3>2. CASE Len(g) # Len(f)
      <4>1. Len(g) \in 2..Len(g) /\ Len(f) < Len(g)
        BY <1>1, <2>2, <3>2
      <4>2. g[Len(f)] # Torn
        BY <1>2, <2>2, <4>1 DEF IsFile
      <4> QED
        BY <2>3, <4>2
    <3> QED
      BY <3>1, <3>2
  <2> DEFINE b == EntriesBetween(f, r.from, e)
  <2>5. \/ t = EntriesBetween(g, r.from, e)
        \/ /\ r.at[1] > Len(g) /\ g[Len(g)] = Torn
           /\ t = Append(EntriesBetween(g, r.from, e), <<Len(g), 1>>)
    <3>1. CASE t = EntriesBetween(f, r.from, e)
      BY <2>3, <3>1
    <3>2. CASE /\ r.at[1] > Len(f) /\ f[Len(f)] = Torn
               /\ t = Append(EntriesBetween(f, r.from, e), <<Len(f), 1>>)
      BY <2>3, <2>4, <3>2
    <3> QED
      BY <2>1, <3>1, <3>2
  <2>6. r.need
    BY <1>6 DEF WentAstray
  <2> QED
    BY <2>1, <2>2, <2>3, <2>5, <2>6 DEF WentAstray
<1> QED
  BY <1>2, <1>3, <1>5, <1>6 DEF InPlace

(***************************************************************************)
(* One entry is read.                                                      *)
(***************************************************************************)
\* Where the next one is, of the reader r of f.
NextOf(f, r) ==
  IF r.need THEN <<r.at[1], 1>>
  ELSE IF r.at[2] > Len(f[r.at[1]].block.entries) THEN <<r.at[1] + 1, 1>>
  ELSE r.at

LEMMA NextIs ==
  ASSUME NEW f \in Seq(Store!Pieces), NEW r \in Readers, NEW t, NEW s, ReadsOn(f, r, t, s)
  PROVE  \E a \in Nat, j \in Nat :
           /\ NextOf(f, r) = <<a, j + 1>>
           /\ OnTheWay(f, r.from, a, j) /\ t = Had(f, r.from, a, j)
           /\ j > 0 => j + 1 <= Len(f[a].block.entries)
<1> DEFINE q == r.at[1]
           k == InBlock(r)
<1>1. /\ OnTheWay(f, r.from, q, k) /\ t = Had(f, r.from, q, k)
      /\ ~ r.need => k > 0
  BY DEF ReadsOn
<1>2. q \in Nat /\ k \in Nat /\ r.at = <<q, r.at[2]>> /\ r.at[2] \in Nat
  BY <1>1 DEF Readers, OnTheWay
<1>3. CASE r.need
  <2>1. k = 0 /\ NextOf(f, r) = <<q, 1>>
    BY <1>3 DEF InBlock, NextOf
  <2> HIDE DEF q, k
  <2> QED
    BY <1>1, <1>2, <2>1
<1>4. CASE ~ r.need
  <2> DEFINE n == Len(f[q].block.entries)
  <2>1. k = r.at[2] - 1 /\ k > 0 /\ IsBlockAt(f, q) /\ k <= n /\ q \in Nat \ {0}
    BY <1>1, <1>4 DEF InBlock, OnTheWay
  <2>2. n \in Nat
    BY <2>1, BlockEntries
  <2>3. NextOf(f, r) = IF r.at[2] > n THEN <<q + 1, 1>> ELSE r.at
    BY <1>4 DEF NextOf
  <2> HIDE DEF k, n
  <2>4. CASE k < n
    <3>1. ~ (r.at[2] > n) /\ k + 1 = r.at[2] /\ k + 1 <= n
      BY <1>2, <2>1, <2>2, <2>4
    <3>2. NextOf(f, r) = <<q, k + 1>>
      BY <1>2, <2>3, <3>1
    <3> HIDE DEF q
    <3> QED
      BY <1>1, <1>2, <3>1, <3>2 DEF n
  <2>5. CASE k = n
    <3>1. NextOf(f, r) = <<q + 1, 0 + 1>>
      BY <1>2, <2>1, <2>2, <2>3, <2>5
    <3>2. Had(f, r.from, q, k) = EntriesBetween(f, r.from, q + 1) /\ OnTheWay(f, r.from, q + 1, 0)
      BY <1>1, <2>1, <2>5, HadAll DEF n
    <3>3. Had(f, r.from, q + 1, 0) = EntriesBetween(f, r.from, q + 1)
      BY <3>2, HadNone
    <3>4. q + 1 \in Nat /\ 0 \in Nat
      BY <1>2
    <3>5. t = Had(f, r.from, q + 1, 0)
      BY <1>1, <3>2, <3>3
    <3> HIDE DEF q
    <3> QED
      BY <3>1, <3>2, <3>4, <3>5
  <2> QED
    BY <2>1, <2>2, <2>4, <2>5
<1> QED
  BY <1>3, <1>4

\* An error that leaves a reader in need of a block at p.
Failed(r, p) == [r EXCEPT !.at = <<p, 0>>, !.need = TRUE]
\* An entry was read, the one in front of k of the block a.
Went(r, a, k) == [r EXCEPT !.at = <<a, k>>, !.need = FALSE]

LEMMA FailedIs ==
  ASSUME NEW r \in Readers, NEW p \in Nat
  PROVE  /\ Failed(r, p) \in Readers /\ Failed(r, p).file = r.file /\ Failed(r, p).at[1] = p
         /\ Failed(r, p).need /\ Failed(r, p).indices = r.indices /\ Failed(r, p).from = r.from
         /\ InBlock(Failed(r, p)) = 0
<1> DEFINE a == <<p, 0>>
           x == [r EXCEPT !.at = a, !.need = TRUE]
<1>1. a \in Nat \X Nat /\ a[1] = p /\ Failed(r, p) = x
  BY DEF Failed
<1> HIDE DEF a
<1>2. /\ x \in Readers /\ x.file = r.file /\ x.at = a /\ x.indices = r.indices /\ x.from = r.from
  BY <1>1 DEF Readers
<1>3. x.need = TRUE
  BY DEF Readers
<1> HIDE DEF x
<1>4. InBlock(x) = 0 /\ x.need
  BY <1>3 DEF InBlock
<1> QED
  BY <1>1, <1>2, <1>4

LEMMA WentIs ==
  ASSUME NEW r \in Readers, NEW a \in Nat, NEW k \in Nat
  PROVE  /\ Went(r, a, k) \in Readers /\ Went(r, a, k).file = r.file /\ Went(r, a, k).at[1] = a
         /\ Went(r, a, k).indices = r.indices /\ Went(r, a, k).from = r.from
         /\ InBlock(Went(r, a, k)) = k - 1
<1> DEFINE b == <<a, k>>
           x == [r EXCEPT !.at = b, !.need = FALSE]
<1>1. b \in Nat \X Nat /\ b[1] = a /\ b[2] = k /\ Went(r, a, k) = x
  BY DEF Went
<1> HIDE DEF b
<1>2. /\ x \in Readers /\ x.file = r.file /\ x.at = b /\ x.indices = r.indices /\ x.from = r.from
  BY <1>1 DEF Readers
<1>3. x.need = FALSE
  BY DEF Readers
<1> HIDE DEF x
<1>4. InBlock(x) = k - 1
  BY <1>1, <1>2, <1>3 DEF InBlock
<1> QED
  BY <1>1, <1>2, <1>4

\* What read_next_entry of the reader r of f does.
Reads(f, r, t, r1, t1, s1) ==
  LET place == NextOf(f, r)
      p     == place[1]
  IN  \/ /\ IsBlockAt(f, p)
         /\ r1 = Went(r, p, place[2] + 1) /\ t1 = Append(t, place) /\ s1 = "none"
      \/ /\ p > Len(f)
         /\ r1 = Failed(r, p) /\ t1 = t /\ s1 = "kUnexpectedEof"
      \/ /\ p <= Len(f) /\ f[p].kind \in {"index", "footer"}
         /\ r1 = Failed(r, Len(f) + 1) /\ t1 = t
      \/ /\ p <= Len(f) /\ f[p] = Torn
         /\ r1 = Failed(r, Len(f) + 1)
         /\ (t1 = t \/ (t1 = Append(t, <<p, 1>>) /\ s1 = "none"))

LEMMA ReadsIs ==
  ASSUME ReadNextEntry PROVE Reads(Read, reader, taken, reader', taken', said')
<1>1. NextPlace = NextOf(Read, reader)
  BY DEF NextPlace, NextOf
<1> DEFINE place == NextOf(Read, reader)
<1>2. ReadEntry(place) \/ ReadEnd(place[1]) \/ ReadFooter(place[1]) \/ ReadTorn(place[1])
  BY <1>1 DEF ReadNextEntry
<1> HIDE DEF place
<1>3. CASE ReadEntry(place)
  BY <1>3 DEF ReadEntry, Reads, Went, place
<1>4. CASE ReadEnd(place[1])
  BY <1>4 DEF ReadEnd, Fails, Reads, Failed, place
<1>5. CASE ReadFooter(place[1])
  BY <1>5 DEF ReadFooter, Fails, Astray, Reads, Failed, place
<1>6. CASE ReadTorn(place[1])
  BY <1>6 DEF ReadTorn, Fails, Astray, Reads, Failed, place
<1> QED
  BY <1>2, <1>3, <1>4, <1>5, <1>6

LEMMA ReadKeepsPlace ==
  ASSUME NEW f, IsFile(f), NEW r \in Readers, NEW t, NEW s, InPlace(f, r, t, s),
         NEW r1, NEW t1, NEW s1, Reads(f, r, t, r1, t1, s1)
  PROVE  InPlace(f, r1, t1, s1) /\ r1 \in Readers /\ r1.file = r.file
<1>1. /\ f \in Seq(Store!Pieces) /\ Len(f) \in Nat /\ f # <<>> /\ f[1] = Header
      /\ r.from \in 2..(Len(f) + 1)
      /\ \A i \in 1..Len(r.indices) : r.indices[i].offset \in 2..Len(f)
  BY DEF InPlace, IsFile
<1>2. \A p \in Nat : f[p].kind \in {"index", "footer"} => f[p].kind # "block"
  OBVIOUS
<1>3. \A p \in Nat : f[p] = Torn => f[p].kind # "block"
  BY DEF Torn
<1>4. SUFFICES r1 \in Readers /\ r1.file = r.file /\ r1.indices = r.indices /\ r1.from = r.from
               /\ (ReadsOn(f, r1, t1, s1) \/ WentAstray(f, r1, t1))
  BY <1>1 DEF InPlace
<1>5. CASE ReadsOn(f, r, t, s)
  <2>1. PICK a \in Nat : \E j \in Nat :
           /\ NextOf(f, r) = <<a, j + 1>>
           /\ OnTheWay(f, r.from, a, j) /\ t = Had(f, r.from, a, j)
           /\ j > 0 => j + 1 <= Len(f[a].block.entries)
    BY <1>1, <1>5, NextIs
  <2>2. PICK j \in Nat :
           /\ NextOf(f, r) = <<a, j + 1>>
           /\ OnTheWay(f, r.from, a, j) /\ t = Had(f, r.from, a, j)
           /\ j > 0 => j + 1 <= Len(f[a].block.entries)
    BY <2>1
  <2>3. NextOf(f, r)[1] = a /\ NextOf(f, r)[2] = j + 1
    BY <2>2
  <2>4. /\ a \in r.from..(Len(f) + 1) /\ a \in Nat \ {0} /\ r.from \in Nat \ {0}
        /\ AllBlocks(f, r.from, a) /\ (j > 0 => IsBlockAt(f, a))
    BY <1>1, <2>2 DEF OnTheWay
  <2>5. ~ IsBlockAt(f, a) => j = 0 /\ t = EntriesBetween(f, r.from, a)
    BY <1>1, <2>2, <2>4, HadNone
  <2> DEFINE b == EntriesBetween(f, r.from, a)
  <2>6. ASSUME IsBlockAt(f, a), r1 = Went(r, a, j + 2), t1 = Append(t, <<a, j + 1>>), s1 = "none"
        PROVE  r1 \in Readers /\ r1.file = r.file /\ r1.indices = r.indices /\ r1.from = r.from
               /\ ReadsOn(f, r1, t1, s1)
    <3>1. j + 2 \in Nat /\ (j + 2) - 1 = j + 1 /\ j + 1 \in Nat /\ j + 1 > 0
      OBVIOUS
    <3>2. /\ r1 \in Readers /\ r1.file = r.file /\ r1.indices = r.indices /\ r1.from = r.from
          /\ r1.at[1] = a /\ InBlock(r1) = j + 1
      <4> DEFINE m == j + 2
      <4>1. m \in Nat /\ m - 1 = j + 1 /\ r1 = Went(r, a, m) /\ a \in Nat
        BY <2>6, <3>1
      <4> HIDE DEF m
      <4>2. InBlock(r1) = m - 1
        BY <4>1, WentIs
      <4>3. r1 \in Readers /\ r1.file = r.file /\ r1.indices = r.indices /\ r1.from = r.from /\ r1.at[1] = a
        BY <4>1, WentIs
      <4> QED
        BY <4>1, <4>2, <4>3
    <3>3. j + 1 <= Len(f[a].block.entries)
      <4>1. Len(f[a].block.entries) \in Nat \ {0}
        BY <1>1, <2>4, <2>6, BlockEntries
      <4> QED
        BY <2>2, <4>1
    <3>4. OnTheWay(f, r.from, a, j + 1)
      BY <2>2, <2>6, <3>1, <3>3 DEF OnTheWay
    <3>5. t1 = Had(f, r.from, a, j + 1)
      BY <1>1, <2>2, <2>6, <3>4, HadOne
    <3> QED
      BY <2>6, <3>1, <3>2, <3>4, <3>5 DEF ReadsOn
  <2>7. ASSUME a > Len(f), r1 = Failed(r, a), t1 = t, s1 = "kUnexpectedEof"
        PROVE  r1 \in Readers /\ r1.file = r.file /\ r1.indices = r.indices /\ r1.from = r.from
               /\ ReadsOn(f, r1, t1, s1)
    <3>1. ~ IsBlockAt(f, a)
      BY <1>1, <2>4, <2>7 DEF IsBlockAt
    <3>2. j = 0
      BY <2>5, <3>1
    <3>3. /\ r1 \in Readers /\ r1.file = r.file /\ r1.indices = r.indices /\ r1.from = r.from
          /\ r1.at[1] = a /\ r1.need /\ InBlock(r1) = 0
      BY <2>7, FailedIs
    <3> QED
      BY <2>2, <2>7, <3>2, <3>3 DEF ReadsOn
  <2>8. ASSUME a <= Len(f), f[a].kind # "block", r1 = Failed(r, Len(f) + 1),
               t1 = t \/ (f[a] = Torn /\ t1 = Append(t, <<a, 1>>))
        PROVE  r1 \in Readers /\ r1.file = r.file /\ r1.indices = r.indices /\ r1.from = r.from
               /\ WentAstray(f, r1, t1)
    <3>1. ~ IsBlockAt(f, a)
      BY <2>8 DEF IsBlockAt
    <3>2. t = b
      BY <2>5, <3>1
    <3>3. Len(f) + 1 \in Nat
      BY <1>1
    <3>4. /\ r1 \in Readers /\ r1.file = r.file /\ r1.indices = r.indices /\ r1.from = r.from
          /\ r1.at[1] = Len(f) + 1 /\ r1.need
      BY <2>8, <3>3, FailedIs
    <3>5. a \in r.from..Len(f) /\ Len(f) + 1 > a /\ Len(f) + 1 > Len(f)
      BY <1>1, <2>4, <2>8
    <3>6. f[a] = Torn => a = Len(f)
      <4>1. a # Len(f) => a \in 2..Len(f) /\ Len(f) \in 2..Len(f) /\ a < Len(f)
        BY <1>1, <3>5
      <4> QED
        BY <1>1, <4>1 DEF IsFile
    <3>7. \/ t1 = b
          \/ r1.at[1] > Len(f) /\ f[Len(f)] = Torn /\ t1 = Append(b, <<Len(f), 1>>)
      <4>1. CASE t1 = t
        BY <3>2, <4>1
      <4>2. CASE f[a] = Torn /\ t1 = Append(t, <<a, 1>>)
        BY <3>2, <3>4, <3>5, <3>6, <4>2
      <4> QED
        BY <2>8, <4>1, <4>2
    <3> QED
      BY <2>4, <2>8, <3>4, <3>5, <3>7 DEF WentAstray
  <2> HIDE DEF b
  <2>9. \/ IsBlockAt(f, a) /\ r1 = Went(r, a, j + 2) /\ t1 = Append(t, <<a, j + 1>>) /\ s1 = "none"
        \/ a > Len(f) /\ r1 = Failed(r, a) /\ t1 = t /\ s1 = "kUnexpectedEof"
        \/ /\ a <= Len(f) /\ f[a].kind # "block" /\ r1 = Failed(r, Len(f) + 1)
           /\ t1 = t \/ (f[a] = Torn /\ t1 = Append(t, <<a, 1>>))
    <3>1. (j + 1) + 1 = j + 2
      OBVIOUS
    <3> QED
      BY <1>2, <1>3, <2>2, <2>3, <3>1 DEF Reads
  <2> QED
    BY <2>6, <2>7, <2>8, <2>9
<1>6. CASE WentAstray(f, r, t)
  <2>1. PICK e \in r.from..Len(f) :
          /\ AllBlocks(f, r.from, e) /\ f[e].kind # "block" /\ r.at[1] > e
          /\ \/ t = EntriesBetween(f, r.from, e)
             \/ /\ r.at[1] > Len(f) /\ f[Len(f)] = Torn
                /\ t = Append(EntriesBetween(f, r.from, e), <<Len(f), 1>>)
    BY <1>6 DEF WentAstray
  <2> DEFINE q == r.at[1]
             b == EntriesBetween(f, r.from, e)
  <2>2. q \in Nat /\ r.need /\ NextOf(f, r)[1] = q /\ q > e
    BY <1>6, <2>1 DEF WentAstray, Readers, NextOf
  <2> HIDE DEF q, b
  <2>3. e \in 2..Len(f) /\ (q <= Len(f) => q \in 2..Len(f) /\ e < q)
    BY <1>1, <2>1, <2>2
  <2>4. ~ IsBlockAt(f, q)
    BY <1>1, <2>1, <2>3 DEF IsBlockAt, IsFile
  <2>5. \/ q > Len(f) /\ r1 = Failed(r, q) /\ t1 = t
        \/ q <= Len(f) /\ r1 = Failed(r, Len(f) + 1) /\ t1 = t
        \/ q <= Len(f) /\ f[q] = Torn /\ r1 = Failed(r, Len(f) + 1) /\ t1 = Append(t, <<q, 1>>)
    BY <2>2, <2>4 DEF Reads
  <2>6. ASSUME NEW m \in Nat, m > e, r1 = Failed(r, m),
               t1 = b \/ (m > Len(f) /\ f[Len(f)] = Torn /\ t1 = Append(b, <<Len(f), 1>>))
        PROVE  r1 \in Readers /\ r1.file = r.file /\ r1.indices = r.indices /\ r1.from = r.from
               /\ WentAstray(f, r1, t1)
    <3>1. /\ r1 \in Readers /\ r1.file = r.file /\ r1.indices = r.indices /\ r1.from = r.from
          /\ r1.at[1] = m /\ r1.need
      BY <2>6, FailedIs
    <3> QED
      BY <2>1, <2>6, <3>1 DEF WentAstray, b
  <2>7. CASE q > Len(f) /\ r1 = Failed(r, q) /\ t1 = t
    BY <2>1, <2>2, <2>6, <2>7 DEF b, q
  <2>8. CASE q <= Len(f) /\ r1 = Failed(r, Len(f) + 1) /\ t1 = t
    <3>1. t = b
      BY <1>1, <2>1, <2>2, <2>8 DEF b, q
    <3>2. Len(f) + 1 \in Nat /\ Len(f) + 1 > e
      BY <1>1, <2>3
    <3> QED
      BY <2>6, <2>8, <3>1, <3>2
  <2>9. CASE q <= Len(f) /\ f[q] = Torn /\ r1 = Failed(r, Len(f) + 1) /\ t1 = Append(t, <<q, 1>>)
    <3>1. t = b
      BY <1>1, <2>1, <2>2, <2>9 DEF b, q
    <3>2. Len(f) + 1 \in Nat /\ Len(f) + 1 > e /\ Len(f) + 1 > Len(f)
      BY <1>1, <2>3
    <3>3. q = Len(f)
      <4>1. q # Len(f) => q \in 2..Len(f) /\ Len(f) \in 2..Len(f) /\ q < Len(f)
        BY <1>1, <2>2, <2>3, <2>9
      <4> QED
        BY <1>1, <2>9, <4>1 DEF IsFile
    <3> QED
      BY <2>6, <2>9, <3>1, <3>2, <3>3
  <2> QED
    BY <2>5, <2>7, <2>8, <2>9
<1> QED
  BY <1>4, <1>5, <1>6 DEF InPlace

\* What a reader in its place has had.
LEMMA PlaceMissesNothing ==
  ASSUME NEW f, IsFile(f), NEW r \in Readers, NEW t, NEW s, InPlace(f, r, t, s)
  PROVE  LET all   == PlacesFrom(f, r.from)
             torn  == t # <<>> /\ ~ IsBlockAt(f, t[Len(t)][1])
             whole == IF torn THEN Front(t) ELSE t
         IN  /\ IsPrefix(whole, all)
             /\ torn \/ s = "kEndOfSegment" => whole = all
<1> DEFINE all   == PlacesFrom(f, r.from)
           torn  == t # <<>> /\ ~ IsBlockAt(f, t[Len(t)][1])
           whole == IF torn THEN Front(t) ELSE t
           S == BlockPlaces(f)
<1>1. /\ f \in Seq(Store!Pieces) /\ Len(f) \in Nat /\ r.from \in 2..(Len(f) + 1) /\ r.from \in Nat \ {0}
  BY DEF InPlace, IsFile
<1>2. t \in Seq(S) => ~ torn
  <2> SUFFICES ASSUME t \in Seq(S), t # <<>> PROVE IsBlockAt(f, t[Len(t)][1])
    OBVIOUS
  <2>1. Len(t) \in 1..Len(t)
    OBVIOUS
  <2>2. t[Len(t)] \in S
    BY <2>1
  <2> QED
    BY <2>2 DEF BlockPlaces
<1>3. CASE ReadsOn(f, r, t, s)
  <2> DEFINE q == r.at[1]
             k == InBlock(r)
  <2>1. OnTheWay(f, r.from, q, k) /\ t = Had(f, r.from, q, k) /\ s # "kEndOfSegment"
    BY <1>3 DEF ReadsOn
  <2> HIDE DEF q, k
  <2>2. t \in Seq(S)
    BY <1>1, <2>1, HadTyped
  <2>3. IsPrefix(t, all)
    BY <1>1, <2>1, HadBegins
  <2> QED
    BY <1>2, <2>1, <2>2, <2>3
<1>4. CASE WentAstray(f, r, t)
  <2>1. PICK e \in r.from..Len(f) :
          /\ AllBlocks(f, r.from, e) /\ f[e].kind # "block" /\ r.at[1] > e
          /\ \/ t = EntriesBetween(f, r.from, e)
             \/ /\ r.at[1] > Len(f) /\ f[Len(f)] = Torn
                /\ t = Append(EntriesBetween(f, r.from, e), <<Len(f), 1>>)
    BY <1>4 DEF WentAstray
  <2> DEFINE b == EntriesBetween(f, r.from, e)
  <2>2. e \in r.from..(Len(f) + 1) /\ ~ IsBlockAt(f, e) /\ e \in Nat /\ r.from <= e /\ r.from \in Nat
    BY <1>1, <2>1 DEF IsBlockAt
  <2>3. b \in Seq(S)
    BY <1>1, <2>1, <2>2, BetweenBlocks
  <2>4. all = b
    <3>1. BlocksEnd(f, r.from) = e
      BY <1>1, <2>1, <2>2, EndIs
    <3> QED
      BY <3>1 DEF PlacesFrom
  <2> HIDE DEF b, S
  <2>5. IsPrefix(b, b)
    <3>1. Len(b) \in Nat
      BY <2>3
    <3>2. Begins(b, b)
      BY <3>1 DEF Begins
    <3> QED
      BY <2>3, <3>2, BeginsPrefix
  <2>6. CASE t = b
    <3>1. ~ torn
      BY <1>2, <2>3, <2>6
    <3> QED
      BY <2>4, <2>5, <2>6, <3>1
  <2>7. CASE f[Len(f)] = Torn /\ t = Append(b, <<Len(f), 1>>)
    <3> DEFINE x == <<Len(f), 1>>
    <3>1. x[1] = Len(f) /\ x \in Nat \X Nat
      BY <1>1
    <3> HIDE DEF x
    <3>2. b \in Seq(Nat \X Nat)
      BY <2>3 DEF S, BlockPlaces
    <3>3. /\ t \in Seq(Nat \X Nat) /\ Len(t) = Len(b) + 1 /\ t[Len(t)] = x /\ t # <<>>
          /\ \A i \in 1..Len(b) : t[i] = b[i]
      BY <2>7, <3>1, <3>2 DEF x
    <3>4. ~ IsBlockAt(f, Len(f))
      BY <2>7 DEF IsBlockAt, Torn
    <3>5. torn
      BY <3>1, <3>3, <3>4
    <3>6. Front(t) = b
      <4> DEFINE n == Len(b)
                 c == SubSeq(t, 1, n)
      <4>1. n \in Nat /\ Len(t) = n + 1 /\ \A i \in 1..n : t[i] \in Nat \X Nat
        BY <3>2, <3>3
      <4>2. Front(t) = c
        BY <4>1 DEF Front
      <4> HIDE DEF n
      <4>3. /\ c \in Seq(Nat \X Nat) /\ Len(c) = IF 1 <= n THEN n - 1 + 1 ELSE 0
            /\ \A i \in 1..(n - 1 + 1) : c[i] = t[1 + i - 1]
        BY <4>1, SubSeqProperties
      <4> HIDE DEF c
      <4>4. Len(c) = n /\ \A i \in 1..n : c[i] = t[i]
        BY <4>1, <4>3
      <4>5. c = b
        BY <3>2, <3>3, <4>3, <4>4, SeqEqual DEF n
      <4> QED
        BY <4>2, <4>5
    <3>7. whole = b
      BY <3>5, <3>6
    <3> HIDE DEF whole, torn
    <3> QED
      BY <2>4, <2>5, <3>7 DEF whole, torn
  <2> QED
    BY <2>1, <2>6, <2>7 DEF b
<1> QED
  BY <1>3, <1>4 DEF InPlace

(***************************************************************************)
(* The files under a reader.                                               *)
(***************************************************************************)
StoreInv == Store!SafeInv /\ Store!TruthInv /\ Store!ShapeInv

ReaderInv ==
  /\ reader \in Readers
  /\ reader.file # NoFile =>
       /\ reader.file \in DOMAIN disk
       /\ Repaired(repair) # reader.file
       /\ InPlace(Read, reader, taken, said)

LEMMA StoreFiles ==
  ASSUME StoreInv
  PROVE  /\ \A n \in DOMAIN disk : IsFile(disk[n])
         /\ DOMAIN disk \subseteq Names
<1>1. /\ Store!DiskTyped
      /\ \A n \in DOMAIN disk : disk[n] \in Seq(Store!Pieces) /\ Len(disk[n]) \in Nat
  BY StoreAssumption, Store!FilesTyped DEF StoreInv
<1>2. \A n \in DOMAIN disk : IsFile(disk[n])
  BY <1>1 DEF StoreInv, Store!ShapeInv, Store!Shaped, IsFile, Store!Header, Header, Store!Torn, Torn
<1>3. DOMAIN disk \subseteq Names
  BY <1>1 DEF Store!DiskTyped, Store!Names, Names
<1> QED
  BY <1>2, <1>3

LEMMA StoreFilesNext ==
  ASSUME StoreInv'
  PROVE  /\ \A n \in DOMAIN disk' : IsFile(disk'[n])
         /\ DOMAIN disk' \subseteq Names
<1>1. /\ Store!DiskTyped'
      /\ \A n \in DOMAIN disk' : disk'[n] \in Seq(Store!Pieces)
  BY DEF StoreInv, Store!SafeInv, Store!Typed, Store!TypeOK, Store!DiskTyped
<1>2. \A n \in DOMAIN disk' : IsFile(disk'[n])
  BY <1>1 DEF StoreInv, Store!ShapeInv, Store!Shaped, IsFile, Store!Header, Header, Store!Torn, Torn
<1>3. DOMAIN disk' \subseteq Names
  BY <1>1 DEF Store!DiskTyped, Store!Names, Names
<1> QED
  BY <1>2, <1>3

\* Of the file that is read, nothing goes away.
LEMMA ReadFileGrows ==
  ASSUME StoreInv, BuilderInv, Store!NamesSuffice, ReaderInv, reader.file # NoFile,
         AddNext \/ Drain \/ FlushBlock \/ StoreStep \/ Recover
  PROVE  /\ reader.file \in DOMAIN disk' /\ Begins(disk[reader.file], disk'[reader.file])
         /\ Repaired(repair') # reader.file
         /\ UNCHANGED readerVars
<1> DEFINE n == reader.file
<1>0. n \in DOMAIN disk /\ Repaired(repair) # n /\ Len(disk[n]) \in Nat
  BY StoreFiles DEF ReaderInv, IsFile
<1>1. Begins(disk[n], disk[n])
  BY <1>0 DEF Begins
<1>2. CASE AddNext \/ FlushBlock
  BY <1>0, <1>1, <1>2 DEF AddNext, FlushBlock, vars
<1>3. CASE Drain
  BY <1>0, <1>1, <1>3 DEF Drain, WriteBlock, files
<1>4. CASE StoreStep
  <2>1. UNCHANGED readerVars /\ UNCHANGED repair
    BY <1>4 DEF StoreStep, CloseCurrentSegment, FlushPending, BuilderStep, OpenSegment, WriteSegmentHeader,
                SyncHeader, AppendBlock, SyncBatch, WriteSegmentFooter, FinishSegment
  <2>2. CASE CloseCurrentSegment \/ FlushPending
    <3>1. UNCHANGED disk
      BY <2>2 DEF CloseCurrentSegment, FlushPending, files
    <3> QED
      BY <1>0, <1>1, <2>1, <3>1
  <2>3. CASE BuilderStep
    <3>1. Store!BuilderStep
      BY <2>3, SameOpen, SameHeader, SameSyncHeader, SameAppend, SameSync, SameFooter, SameFinish
         DEF BuilderStep, Store!BuilderStep
    <3>2. Store!Grown
      BY <3>1, StoreAssumption, Store!BuilderGrown DEF StoreInv
    <3>3. n \in DOMAIN disk' /\ Begins(disk[n], disk'[n])
      BY <1>0, <3>2 DEF Store!Grown, Begins
    <3> QED
      BY <1>0, <2>1, <3>3
  <2> QED
    BY <1>4, <2>2, <2>3 DEF StoreStep
<1>5. CASE Recover
  <2>1. UNCHANGED readerVars /\ Repaired(repair') # n /\ Store!RepairStep
    BY <1>5, SameRepair DEF Recover
  <2>2. repair.pc # "idle" => repair.file # n
    BY <1>0 DEF Repaired
  <2>3. n \in DOMAIN disk' /\ disk'[n] = disk[n]
    BY <1>0, <2>1, <2>2, StoreAssumption, Store!RepairElsewhere DEF StoreInv
  <2> QED
    BY <1>1, <2>1, <2>3
<1> QED
  BY <1>2, <1>3, <1>4, <1>5

(***************************************************************************)
(* The calls of a reader.                                                  *)
(***************************************************************************)
LEMMA NoReaderIs == NoReader \in Readers /\ NoReader.file = NoFile
<1>1. <<>> \in Seq(Store!Pieces) /\ <<0, 0>> \in Nat \X Nat
  OBVIOUS
<1> QED
  BY <1>1 DEF NoReader, Readers

\* Set to the piece p, in front of a block or of the end.
LEMMA PlaceSet ==
  ASSUME NEW f, IsFile(f), f # <<>>, f[1] = Header, NEW r \in Readers, NEW p \in 2..(Len(f) + 1),
         r.at[1] = p, r.from = p, r.need,
         \A i \in 1..Len(r.indices) : r.indices[i].offset \in 2..Len(f)
  PROVE  InPlace(f, r, <<>>, "none")
<1>1. f \in Seq(Store!Pieces) /\ Len(f) \in Nat /\ p \in Nat /\ InBlock(r) = 0
  BY DEF IsFile, InBlock
<1>2. OnTheWay(f, p, p, 0)
  BY <1>1 DEF OnTheWay, AllBlocks
<1>3. Had(f, p, p, 0) = <<>>
  BY <1>1, <1>2, HadNone, BetweenNone
<1>4. ReadsOn(f, r, <<>>, "none")
  BY <1>1, <1>2, <1>3 DEF ReadsOn
<1> QED
  BY <1>4 DEF InPlace

\* The index in a footer points into the file.
LEMMA IndexWithin ==
  ASSUME StoreInv, NEW n \in DOMAIN disk, HasFooter(disk[n]), disk[n][1] = Header
  PROVE  LET s == FooterIndices(disk[n]) IN
         /\ s \in Seq(Store!Pieces)
         /\ \A i \in 1..Len(s) : s[i].offset \in 2..Len(disk[n])
<1> DEFINE f == disk[n]
           c == f[Len(f)].index_count
<1>1. f \in Seq(Store!Pieces) /\ Len(f) \in Nat /\ Len(f) >= 2 /\ f[Len(f)].kind = "footer"
  BY StoreFiles DEF IsFile, HasFooter
<1>2. Store!Truthful(f)
  BY DEF StoreInv, Store!TruthInv, Store!FilesSound, Store!Sound
<1>3. PICK e \in 1..Len(f) : Len(f) = e + c + 1 /\ Store!Indexes(Store!FooterIndices(f), f, e)
  BY <1>2 DEF Store!Truthful, Store!HasFooter, HasFooter, Store!Header, Header
<1>4. c \in Nat
  <2>1. f[Len(f)] \in Store!Pieces
    BY <1>1
  <2> QED
    BY <1>1, <2>1 DEF Store!Pieces, Store!Header, Store!Torn, Store!Indices
<1>5. FooterIndices(f) = Store!FooterIndices(f)
  BY DEF FooterIndices, Store!FooterIndices
<1> DEFINE s == FooterIndices(f)
<1>6. s = SubSeq(f, Len(f) - c, Len(f) - 1)
  BY DEF FooterIndices
<1> HIDE DEF c
<1>7. \A i \in (Len(f) - c)..(Len(f) - 1) : f[i] \in Store!Pieces
  BY <1>1, <1>3, <1>4
<1>8. s \in Seq(Store!Pieces)
  BY <1>1, <1>3, <1>4, <1>6, <1>7, SubSeqProperties
<1>9. \A i \in 1..Len(s) : s[i].offset \in 2..e
  BY <1>3, <1>5 DEF Store!Indexes
<1>10. \A i \in 2..e : i \in 2..Len(f)
  BY <1>1
<1> QED
  BY <1>8, <1>9, <1>10

LEMMA OpenPlace ==
  ASSUME StoreInv, NEW n \in DOMAIN disk, Repaired(repair) # n, OpenReader(n), UNCHANGED vars
  PROVE  ReaderInv'
<1> DEFINE f == disk[n]
           s == IF HasFooter(f) THEN FooterIndices(f) ELSE <<>>
<1>0. disk' = disk /\ repair' = repair /\ IsFile(f) /\ Len(f) \in Nat /\ n \in Names
  BY StoreFiles DEF vars, IsFile
<1>1. taken' = <<>> /\ said' = "none"
  BY DEF OpenReader
<1>2. CASE reader' = NoReader
  BY <1>2, NoReaderIs DEF ReaderInv
<1>3. CASE f # <<>> /\ f[1] = Header
           /\ reader' = [NoReader EXCEPT !.file = n, !.at = <<2, 0>>, !.from = 2, !.loaded = HasFooter(f),
                                         !.indices = s]
  <2>1. s \in Seq(Store!Pieces) /\ \A i \in 1..Len(s) : s[i].offset \in 2..Len(f)
    <3>1. CASE HasFooter(f)
      BY <1>3, <3>1, IndexWithin
    <3>2. CASE ~ HasFooter(f)
      BY <3>2
    <3> QED
      BY <3>1, <3>2
  <2>2. HasFooter(f) \in BOOLEAN
    BY DEF HasFooter
  <2> HIDE DEF s
  <2>3. reader' = [file |-> n, at |-> <<2, 0>>, need |-> TRUE, loaded |-> HasFooter(f), indices |-> s,
                   from |-> 2]
    BY <1>3 DEF NoReader
  <2> DEFINE a == <<2, 0>>
             r == [file |-> n, at |-> a, need |-> TRUE, loaded |-> HasFooter(f), indices |-> s, from |-> 2]
  <2>4. a \in Nat \X Nat /\ a[1] = 2
    OBVIOUS
  <2> HIDE DEF a
  <2>5. r \in Readers
    BY <1>0, <2>1, <2>2, <2>4 DEF Readers
  <2>6. r.file = n /\ r.at = a /\ r.need = TRUE /\ r.indices = s /\ r.from = 2
    OBVIOUS
  <2>7. reader' = r
    BY <2>3 DEF a
  <2> HIDE DEF r, f
  <2>8. 2 \in 2..(Len(f) + 1)
    <3>1. f = <<>> \/ Len(f) >= 1
      BY <1>0 DEF IsFile
    <3> QED
      BY <1>0, <1>3, <3>1
  <2>9. InPlace(f, r, <<>>, "none")
    BY <1>0, <1>3, <2>1, <2>4, <2>5, <2>6, <2>8, PlaceSet
  <2>10. Read' = f /\ reader'.file = n
    BY <1>0, <2>6, <2>7 DEF Read, f
  <2> QED
    BY <1>0, <1>1, <2>5, <2>7, <2>9, <2>10 DEF ReaderInv
<1> QED
  BY <1>2, <1>3 DEF OpenReader

LEMMA SeekPlace ==
  ASSUME StoreInv, ReaderInv, NEW u, SeekToTime(u), UNCHANGED vars
  PROVE  ReaderInv'
<1> DEFINE n == reader.file
           f == disk[n]
           s == reader.indices
           it == UpperBound(s, u)
           p == SeekOffset(s, u)
<1>0. /\ disk' = disk /\ repair' = repair /\ n # NoFile /\ s # <<>>
      /\ reader \in Readers /\ n \in DOMAIN disk /\ Repaired(repair) # n /\ IsFile(f)
      /\ InPlace(f, reader, taken, said)
  BY StoreFiles DEF vars, SeekToTime, ReaderInv, Read
<1>1. s \in Seq(Store!Pieces) /\ Len(s) \in Nat /\ Len(s) # 0
  BY <1>0 DEF Readers
<1>2. it \in 0..Len(s)
  <2>1. Store!UpperBound(s, u) \in 0..Len(s)
    BY <1>1, StoreAssumption, Store!UpperBoundWithin
  <2> QED
    BY <2>1 DEF UpperBound, Store!UpperBound
<1>3. p = s[IF it = 0 THEN 1 ELSE it].offset
  BY DEF SeekOffset
<1> HIDE DEF it, p
<1>4. p \in 2..Len(f) /\ Len(f) \in Nat
  <2>1. (IF it = 0 THEN 1 ELSE it) \in 1..Len(s)
    BY <1>1, <1>2
  <2>2. \A i \in 1..Len(s) : s[i].offset \in 2..Len(f)
    BY <1>0 DEF InPlace
  <2> QED
    BY <1>0, <1>3, <2>1, <2>2 DEF IsFile
<1> DEFINE a == <<p, 0>>
           r == [reader EXCEPT !.at = a, !.need = TRUE, !.from = p]
<1>5. reader' = r /\ taken' = <<>> /\ said' = "none"
  BY DEF SeekToTime, SeekToOffset, NeedsHeader, p
<1>6. a \in Nat \X Nat /\ a[1] = p /\ p \in Nat /\ p \in 2..(Len(f) + 1)
  BY <1>4
<1> HIDE DEF a
<1>7. r \in Readers /\ r.file = n /\ r.at = a /\ r.need = TRUE /\ r.indices = s /\ r.from = p
  BY <1>0, <1>6 DEF Readers
<1> HIDE DEF r, s, f, n
<1>8. InPlace(f, r, <<>>, "none")
  <2>1. f # <<>> /\ f[1] = Header /\ \A i \in 1..Len(s) : s[i].offset \in 2..Len(f)
    BY <1>0 DEF InPlace, s
  <2> QED
    BY <1>0, <1>6, <1>7, <2>1, PlaceSet
<1>9. Read' = f /\ reader'.file = n
  BY <1>0, <1>5, <1>7 DEF Read, f
<1> QED
  BY <1>0, <1>5, <1>7, <1>8, <1>9 DEF ReaderInv

LEMMA NextEntryPlace ==
  ASSUME StoreInv, ReaderInv, ReadNextEntry, UNCHANGED vars
  PROVE  ReaderInv'
<1>0. /\ disk' = disk /\ repair' = repair /\ reader.file # NoFile
      /\ reader \in Readers /\ reader.file \in DOMAIN disk /\ Repaired(repair) # reader.file /\ IsFile(Read)
      /\ InPlace(Read, reader, taken, said)
  BY StoreFiles DEF vars, ReadNextEntry, ReaderInv, Read
<1>1. Reads(Read, reader, taken, reader', taken', said')
  BY ReadsIs
<1> DEFINE f == Read
<1>2. f = disk[reader.file]
  BY DEF Read
<1> HIDE DEF f
<1>3. InPlace(f, reader', taken', said') /\ reader' \in Readers /\ reader'.file = reader.file
  BY <1>0, <1>1, ReadKeepsPlace DEF f
<1>4. Read' = f
  BY <1>0, <1>2, <1>3 DEF Read
<1> QED
  BY <1>0, <1>3, <1>4 DEF ReaderInv

LEMMA ReaderNext ==
  ASSUME StoreInv, StoreInv', BuilderInv, Store!NamesSuffice, ReaderInv, [NextRecording]_recordingVars
  PROVE  ReaderInv'
<1>1. CASE AddNext \/ Drain \/ FlushBlock \/ StoreStep \/ Recover
  <2>1. CASE reader.file = NoFile
    <3>1. reader' = reader
      BY <1>1 DEF AddNext, Drain, FlushBlock, StoreStep, Recover, readerVars
    <3> QED
      BY <2>1, <3>1 DEF ReaderInv
  <2>2. CASE reader.file # NoFile
    <3> DEFINE n == reader.file
    <3>1. /\ n \in DOMAIN disk' /\ Begins(disk[n], disk'[n]) /\ Repaired(repair') # n
          /\ reader' = reader /\ taken' = taken /\ said' = said
      BY <1>1, <2>2, ReadFileGrows DEF readerVars
    <3>2. IsFile(disk[n]) /\ IsFile(disk'[n])
      BY <2>2, <3>1, StoreFiles, StoreFilesNext DEF ReaderInv
    <3>3. InPlace(disk[n], reader, taken, said) /\ reader \in Readers
      BY <2>2 DEF ReaderInv, Read
    <3>4. InPlace(disk'[n], reader, taken, said)
      <4> DEFINE f == disk[n]
                 g == disk'[n]
      <4>1. IsFile(f) /\ IsFile(g) /\ Begins(f, g) /\ InPlace(f, reader, taken, said) /\ reader \in Readers
        BY <3>1, <3>2, <3>3
      <4> HIDE DEF f, g
      <4>2. InPlace(g, reader, taken, said)
        BY <4>1, PlaceGrows
      <4> QED
        BY <4>2 DEF g
    <3>5. Read' = disk'[n]
      BY <3>1 DEF Read
    <3> QED
      BY <3>1, <3>3, <3>4, <3>5 DEF ReaderInv
  <2> QED
    BY <2>1, <2>2
<1>2. CASE Play
  <2>1. UNCHANGED vars
    BY <1>2 DEF Play
  <2>2. CASE CloseReader
    BY <2>2, NoReaderIs DEF CloseReader, ReaderInv
  <2> QED
    BY <1>2, <2>1, <2>2, OpenPlace, SeekPlace, NextEntryPlace DEF Play
<1>3. CASE Stop
  BY <1>3, NoReaderIs DEF Stop, ReaderInv
<1>4. CASE UNCHANGED recordingVars
  BY <1>4 DEF recordingVars, vars, readerVars, ReaderInv, Read
<1> QED
  BY <1>1, <1>2, <1>3, <1>4 DEF NextRecording

\* The files of a recording as StoreInv has them.
LEMMA StoreGoesOn ==
  ASSUME PastRejected, Store!NamesSuffice, Store!WholeWrites
  PROVE  /\ InitRecording => StoreInv
         /\ StoreInv /\ BuilderInv /\ [NextRecording]_recordingVars => StoreInv'
<1>1. InitRecording => StoreInv
  <2> SUFFICES ASSUME InitRecording PROVE StoreInv
    OBVIOUS
  <2>1. Store!Init
    BY StoreInitial
  <2>2. Store!Typed /\ Store!Counted
    BY <2>1, StoreAssumption, Store!InitTyped, Store!InitCounted
  <2>3. Store!OpenFile /\ Store!RepairsApart /\ Store!BlocksSurvive
    BY <2>1, StoreAssumption, Store!SafeInit
  <2>4. Store!TruthInv
    BY <2>1, StoreAssumption, Store!TruthInit
  <2>5. Store!ShapeInv
    BY <2>1, StoreAssumption, Store!ShapeInit
  <2> QED
    BY <2>2, <2>3, <2>4, <2>5 DEF StoreInv, Store!SafeInv
<1>2. ASSUME StoreInv, BuilderInv, [NextRecording]_recordingVars PROVE StoreInv'
  <2>1. [Store!Next]_(Store!vars)
    BY <1>2, StoreStepOf
  <2>2. Store!SafeInv'
    BY <1>2, <2>1, StoreAssumption, Store!SafeNext DEF StoreInv
  <2>3. Store!TruthInv'
    BY <1>2, <2>1, <2>2, StoreAssumption, Store!TruthNext DEF StoreInv
  <2>4. Store!ShapeInv'
    BY <1>2, <2>1, StoreAssumption, Store!ShapeNext DEF StoreInv
  <2> QED
    BY <2>2, <2>3, <2>4 DEF StoreInv
<1> QED
  BY <1>1, <1>2

LEMMA ReaderStart == InitRecording => ReaderInv
  BY NoReaderIs DEF InitRecording, InitReader, ReaderInv

LEMMA InvMissesNothing == StoreInv /\ ReaderInv => ReaderMissesNothing
<1> SUFFICES ASSUME StoreInv, ReaderInv, reader.file # NoFile PROVE ReaderMissesNothing
  BY DEF ReaderMissesNothing
<1>1. IsFile(Read) /\ reader \in Readers /\ InPlace(Read, reader, taken, said)
  BY StoreFiles DEF ReaderInv, Read
<1> QED
  BY <1>1, PlaceMissesNothing DEF ReaderMissesNothing

(***************************************************************************)
(* ReaderHasAll: SegmentReader gives the entries of a file from where it    *)
(* was set on, each once and in their order, and none is missing when it    *)
(* says that the segment ends, while the builder writes the file and the    *)
(* process or the machine stops at any point.                              *)
(***************************************************************************)
THEOREM ReaderHasAll ==
  ASSUME PastRejected, Store!NamesSuffice, Store!WholeWrites
  PROVE  RecordingSpec => []ReaderMissesNothing
<1>1. InitRecording => BuilderInv /\ StoreInv /\ ReaderInv
  BY BuilderStart, StoreGoesOn, ReaderStart
<1>2. BuilderInv /\ StoreInv /\ ReaderInv /\ [NextRecording]_recordingVars
        => (BuilderInv /\ StoreInv /\ ReaderInv)'
  BY BuilderStepSound, StoreGoesOn, ReaderNext
<1> QED
  BY <1>1, <1>2, InvMissesNothing, PTL DEF RecordingSpec

-----------------------------------------------------------------------------
(* The picture of the reader. *)

\* Both have a place for every channel, and who is not told has nothing to hear.
PictureInv ==
  /\ DOMAIN picture = Channels
  /\ DOMAIN m_current_attributes = Channels
  /\ PictureCatchesUp

\* A step that changes nothing but the channels it tells of keeps the invariant.
LEMMA ToldIsEnough ==
  ASSUME PictureInv, NEW S, Tell(S),
         DOMAIN m_current_attributes' = Channels,
         \A c \in Channels \ S : m_current_attributes'[c] = m_current_attributes[c]
  PROVE  PictureInv'
BY DEF PictureInv, PictureCatchesUp, Tell, Current

LEMMA UntouchedPicture ==
  ASSUME PictureInv, UNCHANGED <<picture, told, m_current_attributes>>
  PROVE  PictureInv'
BY DEF PictureInv, PictureCatchesUp, Current

LEMMA LoadStepPicture ==
  ASSUME PictureInv, LoadStep
  PROVE  PictureInv'
<1> DEFINE id == Head(file).channel_id
<1>1. Tell({id} \cap Channels)
  BY DEF LoadStep
<1>2. CASE id \in Channels
  <2>1. SetChannelSchedule(id, ChannelSchedule(Head(file)))
    BY <1>2 DEF LoadStep, LoadNext
  <2>2. /\ DOMAIN m_current_attributes' = Channels
        /\ \A c \in Channels \ {id} : m_current_attributes'[c] = m_current_attributes[c]
    BY <2>1 DEF SetChannelSchedule, PictureInv
  <2> QED BY <1>1, <1>2, <2>2, ToldIsEnough
<1>3. CASE id \notin Channels
  <2>1. UNCHANGED m_current_attributes
    BY <1>3 DEF LoadStep, LoadNext, schedulerVars
  <2> QED BY <1>1, <2>1, ToldIsEnough DEF PictureInv
<1> QED BY <1>2, <1>3

LEMMA UserSetsPicture ==
  ASSUME PictureInv, UserSets
  PROVE  PictureInv'
<1>1. PICK c \in Channels, a \in Wishes : SetAttribute(c, a) /\ Tell({c})
  BY DEF UserSets
<1>2. /\ DOMAIN m_current_attributes' = Channels
      /\ \A d \in Channels \ {c} : m_current_attributes'[d] = m_current_attributes[d]
  BY <1>1 DEF SetAttribute, PictureInv
<1> QED BY <1>1, <1>2, ToldIsEnough

LEMMA ReaderReadsPicture ==
  ASSUME PictureInv, ReaderReads
  PROVE  PictureInv'
<1>1. UNCHANGED m_current_attributes
  BY DEF ReaderReads, schedulerVars
<1>2. PICK c \in told : /\ picture' = [picture EXCEPT ![c] = Current(c)]
                        /\ told' = told \ {c}
  BY DEF ReaderReads
<1>3. \A d : Current(d)' = Current(d)
  BY <1>1 DEF Current
<1>4. DOMAIN picture' = Channels /\ DOMAIN m_current_attributes' = Channels
  BY <1>1, <1>2 DEF PictureInv
<1>5. ASSUME NEW d \in Channels \ told' PROVE picture'[d] = Current(d)
  <2>1. CASE d = c
    BY <1>2, <2>1 DEF PictureInv
  <2>2. CASE d # c
    BY <1>2, <2>2 DEF PictureInv, PictureCatchesUp
  <2> QED BY <2>1, <2>2
<1> QED BY <1>3, <1>4, <1>5 DEF PictureInv, PictureCatchesUp

\* The refresh changes no channel but those it says it changed.
LEMMA RefreshPicture ==
  ASSUME PictureInv, Refresh
  PROVE  PictureInv'
<1> DEFINE S == {c \in Channels : Changed(c)}
<1>1. Tell(S)
  BY DEF Refresh
<1>2. m_current_attributes' = [c \in Channels |->
        IF m_current_attributes[c] = None THEN None ELSE Refreshed(c)]
  BY DEF Refresh, OnHourlyScheduleChange
<1>3. DOMAIN m_current_attributes' = Channels
  BY <1>2
<1>4. ASSUME NEW c \in Channels \ S
      PROVE  m_current_attributes'[c] = m_current_attributes[c]
  <2>1. CASE m_current_attributes[c] = None
    BY <1>2, <2>1
  <2>2. CASE m_current_attributes[c] # None
    <3>1. Refreshed(c) = Current(c)
      BY <2>2 DEF Changed
    <3>2. Current(c) = m_current_attributes[c]
      BY <2>2 DEF Current
    <3> QED BY <1>2, <2>2, <3>1, <3>2
  <2> QED BY <2>1, <2>2
<1> HIDE DEF S
<1> QED BY <1>1, <1>3, <1>4, ToldIsEnough

LEMMA CallbackRunsPicture ==
  ASSUME PictureInv, CallbackRuns
  PROVE  PictureInv'
<1>1. ASSUME NEW l, EverySecond(l) PROVE PictureInv'
  BY <1>1, UntouchedPicture DEF EverySecond, CheckTimeChanged
<1>2. ASSUME NEW l, EveryHour(l) PROVE PictureInv'
  BY <1>2, RefreshPicture DEF EveryHour
<1>3. ASSUME NEW l, TimeChanged(l) PROVE PictureInv'
  BY <1>3, RefreshPicture DEF TimeChanged
<1> QED BY <1>1, <1>2, <1>3 DEF CallbackRuns

LEMMA NextPicture ==
  ASSUME PictureInv, [OwnerNext]_allVars
  PROVE  PictureInv'
<1>1. CASE LoadFile
  BY <1>1, UntouchedPicture DEF LoadFile, schedulerVars
<1>2. CASE WheelCalls
  BY <1>2, UntouchedPicture DEF WheelCalls, schedulerVars
<1>3. CASE WheelRuns
  BY <1>3, UntouchedPicture DEF WheelRuns, schedulerVars, ownerVars
<1>4. CASE Tick
  BY <1>4, UntouchedPicture DEF Tick, Lapse
<1>5. CASE ClockIsSet
  BY <1>5, UntouchedPicture DEF ClockIsSet, Lapse
<1>6. CASE UNCHANGED allVars
  BY <1>6, UntouchedPicture DEF allVars, schedulerVars, ownerVars
<1> QED
  BY <1>1, <1>2, <1>3, <1>4, <1>5, <1>6, LoadStepPicture, UserSetsPicture,
     ReaderReadsPicture, CallbackRunsPicture DEF OwnerNext

(***************************************************************************)
(* PictureIsTrue: whoever sets, loads or refreshes, a reader that asks for  *)
(* every channel it was told of knows what is recorded.                     *)
(***************************************************************************)
THEOREM PictureIsTrue == OwnerSpec => []PictureCatchesUp
<1>1. OwnerInit => PictureInv
  BY DEF OwnerInit, SchedulerInit, PictureInv, PictureCatchesUp, Current
<1>2. PictureInv /\ [OwnerNext]_allVars => PictureInv'
  BY NextPicture
<1>3. PictureInv => PictureCatchesUp
  BY DEF PictureInv
<1> QED BY <1>1, <1>2, <1>3, PTL DEF OwnerSpec

-----------------------------------------------------------------------------
(* The wheel when start() and stop() await each other. *)

Loops == 1 .. MaxLoops

Places == {"gone", "test", "arming", "waiting", "firing", "ending"}

LoopState == [at : Places, left : Int, due : SUBSET Callbacks]

LoopsOK == loops \in [Loops -> LoopState]

AtMostOneLoop == \A l, k \in Alive : l = k

(***************************************************************************)
(* A wheel that no stop() gave up on has one loop at most, and none without *)
(* m_running: start() sets it before it makes a loop, and the end of the    *)
(* loop takes it down.  One that was given up on is never used again.       *)
(***************************************************************************)
WheelInv ==
  /\ LoopsOK
  /\ orderly /\ stopping = "timeout" => ~m_running /\ ~starting
  /\ orderly /\ stopping # "timeout" =>
       /\ AtMostOneLoop
       /\ Alive # {} => m_running /\ ~starting
       /\ starting => m_running /\ stopping # "polling"
  /\ orderly /\ stopping = "clean" => ~m_running

\* A step that leaves the set of loops alone, and the flags.
LEMMA SameLoops ==
  ASSUME WheelInv, LoopsOK', Alive' = Alive,
         UNCHANGED <<orderly, m_running, starting, stopping>>
  PROVE  WheelInv'
BY DEF WheelInv, AtMostOneLoop

LEMMA UntouchedWheel ==
  ASSUME WheelInv, UNCHANGED <<wheelVars, orderly>>
  PROVE  WheelInv'
BY SameLoops DEF WheelInv, LoopsOK, Alive, wheelVars

LEMMA Moved ==
  ASSUME NEW r \in LoopState, NEW a \in Places
  PROVE  [r EXCEPT !.at = a] \in LoopState /\ [r EXCEPT !.at = a].at = a
BY DEF LoopState

LEMMA Aged ==
  ASSUME NEW r \in LoopState, NEW n \in Int
  PROVE  [r EXCEPT !.left = n] \in LoopState /\ [r EXCEPT !.left = n].at = r.at
BY DEF LoopState

LEMMA Firing ==
  ASSUME NEW r \in LoopState, NEW d \in SUBSET Callbacks
  PROVE  [r EXCEPT !.due = d] \in LoopState /\ [r EXCEPT !.due = d].at = r.at
BY DEF LoopState

\* One loop moves on, and is not gone after it.
LEMMA OneMoves ==
  ASSUME LoopsOK, NEW l \in Alive, NEW r \in LoopState, r.at # "gone",
         loops' = [loops EXCEPT ![l] = r]
  PROVE  LoopsOK' /\ Alive' = Alive
<1>1. l \in Loops /\ loops[l].at # "gone"
  BY DEF Alive, Loops
<1>2. LoopsOK' /\ (\A k \in Loops : loops'[k].at = "gone" <=> loops[k].at = "gone")
  BY <1>1 DEF LoopsOK
<1> QED BY <1>2 DEF Alive, Loops

\* The end of waits ends no loop.
LEMMA CancelledLoops ==
  ASSUME LoopsOK
  PROVE  /\ TimerCancelled(loops) \in [Loops -> LoopState]
         /\ \A l \in Loops : TimerCancelled(loops)[l].at = "gone" <=> loops[l].at = "gone"
<1>1. ASSUME NEW l \in Loops
      PROVE  /\ [loops[l] EXCEPT !.at = "ending"] \in LoopState
             /\ [loops[l] EXCEPT !.at = "ending"].at = "ending"
  <2>1. loops[l] \in LoopState /\ "ending" \in Places
    BY DEF LoopsOK, Places
  <2> QED BY <2>1, Moved
<1> DEFINE Ending(l) == [loops[l] EXCEPT !.at = "ending"]
<1>2. TimerCancelled(loops) = [l \in Loops |-> IF loops[l].at = "waiting" THEN Ending(l) ELSE loops[l]]
  BY DEF TimerCancelled, LoopsOK
<1>3. \A l \in Loops : Ending(l) \in LoopState /\ Ending(l).at = "ending"
  BY <1>1
<1> HIDE DEF Ending
<1> QED BY <1>2, <1>3 DEF LoopsOK

LEMMA StartBeginsWheel ==
  ASSUME WheelInv, StartBegins, UNCHANGED orderly,
         orderly => stopping \notin {"polling", "timeout"}
  PROVE  WheelInv'
<1>1. Alive' = Alive /\ LoopsOK'
  BY DEF StartBegins, Alive, WheelInv, LoopsOK
<1> QED BY <1>1 DEF StartBegins, WheelInv, AtMostOneLoop

LEMMA StartSpawnsWheel ==
  ASSUME WheelInv, StartSpawns, UNCHANGED orderly
  PROVE  WheelInv'
<1>1. PICK l \in Loops : loops[l].at = "gone" /\ loops' = [loops EXCEPT ![l].at = "test"]
  BY DEF StartSpawns, Loops
<1>2. LoopsOK'
  <2>1. loops[l] \in LoopState /\ "test" \in Places
    BY DEF WheelInv, LoopsOK, Places
  <2>2. [loops[l] EXCEPT !.at = "test"] \in LoopState
    BY <2>1, Moved
  <2> QED BY <1>1, <2>2 DEF WheelInv, LoopsOK
<1>3. orderly => Alive = {} /\ stopping \notin {"polling", "timeout"} /\ m_running
  BY DEF WheelInv, StartSpawns
<1>4. \A k \in Loops : k # l => loops'[k] = loops[k]
  BY <1>1 DEF WheelInv, LoopsOK
<1>5. orderly => Alive' \subseteq {l}
  BY <1>3, <1>4 DEF Alive, Loops
<1> QED BY <1>2, <1>3, <1>5 DEF StartSpawns, WheelInv, AtMostOneLoop

LEMMA StopBeginsWheel ==
  ASSUME WheelInv, StopBegins, UNCHANGED orderly, orderly => ~starting
  PROVE  WheelInv'
<1>1. loops' = TimerCancelled(loops) /\ LoopsOK
  BY DEF StopBegins, WheelInv
<1>2. Alive' = Alive /\ LoopsOK'
  BY <1>1, CancelledLoops DEF Alive, LoopsOK, Loops
<1> QED BY <1>2 DEF StopBegins, WheelInv, AtMostOneLoop

LEMMA StopPollsWheel ==
  ASSUME WheelInv, StopPolls, UNCHANGED orderly
  PROVE  WheelInv'
<1>1. Alive' = Alive /\ LoopsOK'
  BY DEF StopPolls, Alive, WheelInv, LoopsOK
<1> QED BY <1>1 DEF StopPolls, WheelInv, AtMostOneLoop

LEMMA LoopTestsWheel ==
  ASSUME WheelInv, UNCHANGED orderly, NEW l \in Alive, LoopTests(l)
  PROVE  WheelInv'
<1> DEFINE at == IF m_stop_requested THEN "ending" ELSE "arming"
           r  == [loops[l] EXCEPT !.at = at]
<1>1. loops[l] \in LoopState /\ at \in Places /\ at # "gone"
  BY DEF Alive, Loops, WheelInv, LoopsOK, Places
<1>2. loops' = [loops EXCEPT ![l] = r]
  BY DEF LoopTests
<1>3. r \in LoopState /\ r.at # "gone"
  <2> HIDE DEF at
  <2> QED BY <1>1, Moved
<1> HIDE DEF r
<1>4. LoopsOK' /\ Alive' = Alive
  BY <1>2, <1>3, OneMoves DEF WheelInv
<1> QED BY <1>4, SameLoops DEF LoopTests

LEMMA LoopArmsWheel ==
  ASSUME WheelInv, UNCHANGED orderly, NEW l \in Alive, LoopArms(l)
  PROVE  WheelInv'
<1> DEFINE waiting == [at |-> "waiting", left |-> 1, due |-> {}]
           cancelled == TimerCancelled(loops)
<1>1. l \in Loops /\ loops[l].at # "gone" /\ waiting.at # "gone"
      /\ waiting \in LoopState
  BY DEF Alive, Loops, LoopState, Places
<1>2. loops' = [cancelled EXCEPT ![l] = waiting]
  BY DEF LoopArms
<1>3. /\ cancelled \in [Loops -> LoopState]
      /\ \A k \in Loops : cancelled[k].at = "gone" <=> loops[k].at = "gone"
  BY CancelledLoops DEF WheelInv
<1> HIDE DEF waiting, cancelled
<1>4. LoopsOK' /\ (\A k \in Loops : loops'[k].at = "gone" <=> loops[k].at = "gone")
  BY <1>1, <1>2, <1>3 DEF LoopsOK
<1>5. Alive' = Alive
  BY <1>4 DEF Alive, Loops
<1> QED BY <1>4, <1>5, SameLoops DEF LoopArms

LEMMA FireExpiredWheel ==
  ASSUME WheelInv, UNCHANGED orderly, NEW l \in Alive, FireExpired(l)
  PROVE  WheelInv'
<1> DEFINE fired == [loops[l] EXCEPT !.at = "firing"]
           r     == [fired EXCEPT !.due = Expired]
<1>1. loops[l] \in LoopState /\ "firing" \in Places /\ Expired \in SUBSET Callbacks
  BY DEF Alive, Loops, WheelInv, LoopsOK, Places, Expired
<1>2. loops' = [loops EXCEPT ![l] = r]
  BY DEF FireExpired
<1>3. fired \in LoopState /\ fired.at = "firing"
  BY <1>1, Moved
<1> HIDE DEF fired
<1>4. r \in LoopState /\ r.at # "gone"
  BY <1>1, <1>3, Firing
<1> HIDE DEF r
<1>5. LoopsOK' /\ Alive' = Alive
  BY <1>2, <1>4, OneMoves DEF WheelInv
<1> QED BY <1>5, SameLoops DEF FireExpired

LEMMA RunCallbackWheel ==
  ASSUME WheelInv, UNCHANGED orderly, NEW l \in Alive, NEW k, RunCallback(l, k)
  PROVE  WheelInv'
<1> DEFINE left == loops[l].due \ {k}
           r    == [loops[l] EXCEPT !.due = left]
<1>1. loops[l] \in LoopState /\ left \in SUBSET Callbacks /\ loops[l].at # "gone"
  BY DEF Alive, Loops, WheelInv, LoopsOK, LoopState
<1>2. loops' = [loops EXCEPT ![l] = r]
  BY DEF RunCallback
<1>3. r \in LoopState /\ r.at # "gone"
  <2> HIDE DEF left
  <2> QED BY <1>1, Firing
<1> HIDE DEF r
<1>4. LoopsOK' /\ Alive' = Alive
  BY <1>2, <1>3, OneMoves DEF WheelInv
<1> QED BY <1>4, SameLoops DEF RunCallback

LEMMA FiringEndsWheel ==
  ASSUME WheelInv, UNCHANGED orderly, NEW l \in Alive, FiringEnds(l)
  PROVE  WheelInv'
<1> DEFINE r == [loops[l] EXCEPT !.at = "test"]
<1>1. loops[l] \in LoopState /\ "test" \in Places
  BY DEF Alive, Loops, WheelInv, LoopsOK, Places
<1>2. loops' = [loops EXCEPT ![l] = r]
  BY DEF FiringEnds
<1>3. r \in LoopState /\ r.at # "gone"
  BY <1>1, Moved
<1> HIDE DEF r
<1>4. LoopsOK' /\ Alive' = Alive
  BY <1>2, <1>3, OneMoves DEF WheelInv
<1> QED BY <1>4, SameLoops DEF FiringEnds

LEMMA LoopEndsWheel ==
  ASSUME WheelInv, UNCHANGED orderly, NEW l \in Alive, LoopEnds(l)
  PROVE  WheelInv'
<1>1. l \in Loops /\ loops' = [loops EXCEPT ![l] = Gone] /\ m_running' = FALSE
  BY DEF Alive, Loops, LoopEnds
<1>2. Gone \in LoopState /\ Gone.at = "gone"
  BY DEF Gone, LoopState, Places
<1>3. LoopsOK' /\ loops'[l].at = "gone" /\ (\A k \in Loops : k # l => loops'[k] = loops[k])
  BY <1>1, <1>2 DEF WheelInv, LoopsOK
<1>4. Alive' = Alive \ {l}
  BY <1>3 DEF Alive, Loops
<1>5. orderly /\ stopping # "timeout" => Alive' = {} /\ ~starting
  BY <1>4 DEF WheelInv, AtMostOneLoop
<1>6. UNCHANGED <<starting, stopping>>
  BY DEF LoopEnds
<1> QED BY <1>1, <1>3, <1>5, <1>6 DEF WheelInv, AtMostOneLoop

LEMMA TickWheel ==
  ASSUME WheelInv, UNCHANGED orderly, TimePasses
  PROVE  WheelInv'
<1> DEFINE Later(l) == [loops[l] EXCEPT !.left = Down(@)]
<1>1. ASSUME NEW l \in Loops PROVE Later(l) \in LoopState /\ Later(l).at = loops[l].at
  <2>1. loops[l] \in LoopState /\ Down(loops[l].left) \in Int
    BY DEF WheelInv, LoopsOK, LoopState, Down
  <2> QED BY <2>1, Aged
<1>2. loops' = [l \in Loops |-> Later(l)]
  BY DEF TimePasses, WheelInv, LoopsOK
<1> HIDE DEF Later
<1>4. LoopsOK' /\ (\A l \in Loops : loops'[l].at = loops[l].at)
  BY <1>1, <1>2 DEF LoopsOK
<1>5. Alive' = Alive
  BY <1>4 DEF Alive, Loops
<1> QED BY <1>4, <1>5, SameLoops DEF TimePasses

LEMMA WheelCallsWheel ==
  ASSUME WheelInv, WheelCalls
  PROVE  WheelInv'
<1>0. UNCHANGED orderly
  BY DEF WheelCalls
<1>1. ASSUME NEW k, Add(k) \/ Cancel(k) PROVE WheelInv'
  <2>1. Alive' = Alive /\ LoopsOK' /\ UNCHANGED <<m_running, starting, stopping>>
    BY <1>1 DEF Add, Cancel, Alive, WheelInv, LoopsOK
  <2> QED BY <1>0, <2>1, SameLoops
<1>2. CASE StartBegins /\ (orderly => stopping \notin {"polling", "timeout"})
  BY <1>0, <1>2, StartBeginsWheel
<1>3. CASE StopBegins /\ (orderly => ~starting)
  BY <1>0, <1>3, StopBeginsWheel
<1> QED BY <1>1, <1>2, <1>3 DEF WheelCalls

LEMMA WheelRunsWheel ==
  ASSUME WheelInv, WheelRuns
  PROVE  WheelInv'
<1>0. UNCHANGED orderly
  BY DEF WheelRuns, ownerVars
<1>1. CASE StartSpawns \/ StopPolls
  BY <1>0, <1>1, StartSpawnsWheel, StopPollsWheel
<1>2. ASSUME NEW l \in Alive,
             LoopTests(l) \/ LoopArms(l) \/ FireExpired(l) \/ FiringEnds(l) \/ LoopEnds(l)
      PROVE  WheelInv'
  BY <1>0, <1>2, LoopTestsWheel, LoopArmsWheel, FireExpiredWheel, FiringEndsWheel, LoopEndsWheel
<1> QED BY <1>1, <1>2 DEF WheelRuns

LEMMA CallbackRunsWheel ==
  ASSUME WheelInv, CallbackRuns
  PROVE  WheelInv'
<1>1. ASSUME NEW l \in Alive, EverySecond(l) PROVE WheelInv'
  BY <1>1, RunCallbackWheel DEF EverySecond
<1>2. ASSUME NEW l \in Alive, EveryHour(l) PROVE WheelInv'
  BY <1>2, RunCallbackWheel DEF EveryHour
<1>3. ASSUME NEW l, TimeChanged(l) PROVE WheelInv'
  BY <1>3, UntouchedWheel DEF TimeChanged, wheel
<1> QED BY <1>1, <1>2, <1>3 DEF CallbackRuns

LEMMA NextWheel ==
  ASSUME WheelInv, [OwnerNext]_allVars
  PROVE  WheelInv'
<1>1. CASE LoadFile
  BY <1>1, UntouchedWheel DEF LoadFile, wheel
<1>2. CASE LoadStep
  BY <1>2, UntouchedWheel DEF LoadStep, wheel
<1>3. CASE UserSets
  BY <1>3, UntouchedWheel DEF UserSets, wheel
<1>4. CASE ReaderReads
  BY <1>4, UntouchedWheel DEF ReaderReads, wheel
<1>5. CASE Tick
  BY <1>5, TickWheel DEF Tick
<1>6. CASE ClockIsSet
  BY <1>6, UntouchedWheel DEF ClockIsSet, wheel
<1>7. CASE UNCHANGED allVars
  BY <1>7, UntouchedWheel DEF allVars, ownerVars
<1> QED
  BY <1>1, <1>2, <1>3, <1>4, <1>5, <1>6, <1>7, WheelCallsWheel, WheelRunsWheel,
     CallbackRunsWheel DEF OwnerNext

LEMMA WheelStart == OwnerInit => WheelInv
<1> SUFFICES ASSUME OwnerInit PROVE WheelInv
  OBVIOUS
<1>1. Gone \in LoopState /\ Gone.at = "gone"
  BY DEF Gone, LoopState, Places
<1>2. LoopsOK /\ Alive = {}
  BY <1>1 DEF OwnerInit, WheelInit, LoopsOK, Alive, Loops
<1> QED BY <1>2 DEF OwnerInit, WheelInit, WheelInv, AtMostOneLoop

(***************************************************************************)
(* QuietAfterStop: where start() and stop() await each other, a stop() that *)
(* returned in time leaves no loop behind, however its polls fall between   *)
(* the steps of the loop.                                                   *)
(***************************************************************************)
THEOREM QuietAfterStop == OwnerSpec => []StoppedIsQuiet
<1>1. OwnerInit => WheelInv
  BY WheelStart
<1>2. WheelInv /\ [OwnerNext]_allVars => WheelInv'
  BY NextWheel
<1>3. WheelInv => StoppedIsQuiet
  BY DEF WheelInv, StoppedIsQuiet
<1> QED BY <1>1, <1>2, <1>3, PTL DEF OwnerSpec

-----------------------------------------------------------------------------
(* What is recorded and its schedule. *)

\* The clock stays within the week, and no schedule asks for manual recording.
ScheduleInv ==
  /\ wall \in 0 .. WeekLength - 1
  /\ DOMAIN m_channel_schedules = Channels
  /\ DOMAIN m_current_attributes = Channels
  /\ \A c \in Channels : m_channel_schedules[c] # None =>
       \A d \in Weekdays, h \in Hours : "manual" \notin m_channel_schedules[c][d][h].attribute

LEMMA Product ==
  ASSUME NEW a \in Nat \ {0}, NEW b \in Nat \ {0}
  PROVE  a * b \in Nat \ {0}
OBVIOUS

LEMMA Remainder ==
  ASSUME NEW n \in Int, NEW b \in Nat \ {0}
  PROVE  n % b \in 0 .. b - 1
OBVIOUS

LEMMA TimesLess ==
  ASSUME NEW b \in Nat, NEW m \in Int, NEW n \in Int, m <= n
  PROVE  b * m <= b * n
OBVIOUS

LEMMA Quotient ==
  ASSUME NEW b \in Nat, b > 0, NEW d \in Nat, NEW n \in 0 .. b * d - 1
  PROVE  n \div b \in 0 .. d - 1
<1> DEFINE q == n \div b
<1>0. n \in Int /\ b * d \in Int
  OBVIOUS
<1>1. q \in Int /\ n = b * q + (n % b) /\ n % b \in 0 .. b - 1
  BY <1>0
<1> HIDE DEF q
<1>2. b * q \in Int
  BY <1>1
<1>3. ASSUME q < 0 PROVE FALSE
  <2>1. b * q <= b * (-1)
    BY <1>1, <1>3, TimesLess
  <2> QED BY <1>0, <1>1, <1>2, <2>1
<1>4. ASSUME q >= d PROVE FALSE
  <2>1. b * d <= b * q
    BY <1>1, <1>4, TimesLess
  <2> QED BY <1>0, <1>1, <1>2, <2>1
<1>5. q \in 0 .. d - 1
  BY <1>1, <1>3, <1>4
<1> QED BY <1>5 DEF q

\* Every time of the week is in a weekday and an hour.
LEMMA TimeWithin ==
  ASSUME wall \in 0 .. WeekLength - 1
  PROVE  ExtractTimeInfo.weekday \in Weekdays /\ ExtractTimeInfo.hour \in Hours
<1> DEFINE day == HourLength * HoursPerDay
<1>1. HourLength \in Nat \ {0} /\ HoursPerDay \in Nat \ {0} /\ DaysPerWeek \in Nat \ {0}
  BY SchedulerAssumption
<1>2. day \in Nat \ {0}
  BY <1>1, Product
<1>3. wall \in 0 .. day * DaysPerWeek - 1
  BY DEF WeekLength
<1>4. wall \div HourLength \in Int
  <2>1. wall \in Int
    BY <1>1, <1>2, <1>3
  <2> QED BY <1>1, <2>1
<1>5. (wall \div HourLength) % HoursPerDay \in Hours
  BY <1>1, <1>4, Remainder DEF Hours
<1> HIDE DEF day
<1>6. wall \div day \in Weekdays
  BY <1>1, <1>2, <1>3, Quotient DEF Weekdays
<1> QED BY <1>5, <1>6 DEF ExtractTimeInfo, day

LEMMA WeekIsLong == WeekLength \in Nat \ {0}
<1>1. HourLength \in Nat \ {0} /\ HoursPerDay \in Nat \ {0} /\ DaysPerWeek \in Nat \ {0}
  BY SchedulerAssumption
<1>2. HourLength * HoursPerDay \in Nat \ {0}
  BY <1>1, Product
<1> QED BY <1>1, <1>2, Product DEF WeekLength

\* A schedule of now asks for no manual recording.
LEMMA NotByHand ==
  ASSUME ScheduleInv, NEW c \in Channels
  PROVE  "manual" \notin GetScheduledAttribute(m_channel_schedules, c)
<1>1. ExtractTimeInfo.weekday \in Weekdays /\ ExtractTimeInfo.hour \in Hours
  BY TimeWithin DEF ScheduleInv
<1> QED BY <1>1 DEF ScheduleInv, GetScheduledAttribute

\* A refresh puts every channel on its schedule.
LEMMA RefreshPuts ==
  ASSUME ScheduleInv, OnHourlyScheduleChange, NEW c \in Channels
  PROVE  OnSchedule(c)'
<1>1. m_current_attributes'[c] =
        IF m_current_attributes[c] = None THEN None ELSE Refreshed(c)
  BY DEF OnHourlyScheduleChange
<1>2. GetScheduledAttribute(m_channel_schedules, c)' = GetScheduledAttribute(m_channel_schedules, c)
  BY DEF OnHourlyScheduleChange, GetScheduledAttribute, ExtractTimeInfo
<1>3. CASE m_current_attributes'[c] = None
  BY <1>3 DEF OnSchedule
<1>4. CASE m_current_attributes'[c] # None
  <2>1. Current(c)' = Refreshed(c)
    BY <1>1, <1>4 DEF Current
  <2>2. Current(c)' \ {"manual"} = GetScheduledAttribute(m_channel_schedules, c)
    BY <2>1, NotByHand DEF Refreshed
  <2> QED BY <1>2, <2>2 DEF OnSchedule
<1> QED BY <1>3, <1>4

\* What is read from a file asks for none either.
LEMMA ReadsNoManual ==
  ASSUME NEW json, NEW d \in Weekdays, NEW h \in Hours
  PROVE  "manual" \notin ChannelSchedule(json)[d][h].attribute
BY DEF ChannelSchedule, HourlySchedule, NoHour

LEMMA NextSchedule ==
  ASSUME ScheduleInv, [OwnerNext]_allVars
  PROVE  ScheduleInv'
<1>1. ASSUME UNCHANGED <<wall, m_channel_schedules>>, DOMAIN m_current_attributes' = Channels
      PROVE  ScheduleInv'
  BY <1>1 DEF ScheduleInv
<1>2. ASSUME NEW d \in Int, Lapse(d) PROVE ScheduleInv'
  <2>1. wall \in Int /\ wall + d \in Int
    BY WeekIsLong DEF ScheduleInv
  <2>2. wall' \in 0 .. WeekLength - 1
    BY <1>2, <2>1, WeekIsLong, Remainder DEF Lapse
  <2> QED BY <1>2, <2>2 DEF ScheduleInv, Lapse
<1>3. CASE LoadStep
  <2> DEFINE id == Head(file).channel_id
             schedule == ChannelSchedule(Head(file))
  <2>1. CASE id \in Channels
    <3>1. SetChannelSchedule(id, schedule)
      BY <1>3, <2>1 DEF LoadStep, LoadNext
    <3>2. \A d \in Weekdays, h \in Hours : "manual" \notin schedule[d][h].attribute
      BY ReadsNoManual
    <3> HIDE DEF id, schedule
    <3>3. /\ m_channel_schedules' = [m_channel_schedules EXCEPT ![id] = schedule]
          /\ wall' = wall
          /\ DOMAIN m_current_attributes' = Channels
      BY <3>1 DEF SetChannelSchedule, ScheduleInv
    <3>4. ASSUME NEW c \in Channels, m_channel_schedules'[c] # None,
                 NEW d \in Weekdays, NEW h \in Hours
          PROVE  "manual" \notin m_channel_schedules'[c][d][h].attribute
      <4>1. CASE c = id
        BY <3>2, <3>3, <4>1 DEF ScheduleInv
      <4>2. CASE c # id
        <5>1. m_channel_schedules'[c] = m_channel_schedules[c]
          BY <3>3, <4>2 DEF ScheduleInv
        <5> QED BY <3>4, <5>1 DEF ScheduleInv
      <4> QED BY <4>1, <4>2
    <3>5. DOMAIN m_channel_schedules' = Channels
      BY <3>3 DEF ScheduleInv
    <3>6. UNCHANGED <<Weekdays, Hours, WeekLength>>
      BY DEF Weekdays, Hours, WeekLength
    <3> QED BY <3>3, <3>4, <3>5 DEF ScheduleInv
  <2>2. CASE id \notin Channels
    <3>1. UNCHANGED schedulerVars
      BY <1>3, <2>2 DEF LoadStep, LoadNext
    <3> QED BY <1>1, <3>1 DEF schedulerVars, ScheduleInv
  <2> QED BY <2>1, <2>2
<1>4. CASE UserSets
  BY <1>1, <1>4 DEF UserSets, SetAttribute, ScheduleInv
<1>5. ASSUME Refresh PROVE ScheduleInv'
  BY <1>1, <1>5 DEF Refresh, OnHourlyScheduleChange
<1>6. CASE CallbackRuns
  BY <1>1, <1>5, <1>6 DEF CallbackRuns, EverySecond, EveryHour, TimeChanged, CheckTimeChanged, ScheduleInv
<1>7. CASE Tick
  BY <1>2, <1>7 DEF Tick
<1>8. CASE ClockIsSet
  BY <1>2, <1>8, OwnerAssumption DEF ClockIsSet
<1>9. CASE UNCHANGED schedulerVars
  BY <1>1, <1>9 DEF schedulerVars, ScheduleInv
<1> QED
  BY <1>3, <1>4, <1>6, <1>7, <1>8, <1>9
  DEF OwnerNext, LoadFile, ReaderReads, WheelCalls, WheelRuns, allVars

\* A loop that goes on: what it waits for is the next tick.
Turning(r) ==
  /\ r.at \in {"test", "arming", "waiting", "firing"}
  /\ r.at = "waiting" => r.left \in 0 .. 1

(***************************************************************************)
(* A wheel that runs, and that nobody stops, has one loop that goes on;     *)
(* what is due is called before the loop does anything else.                *)
(***************************************************************************)
TurningInv ==
  /\ \A l \in Loops : loops[l].at # "firing" => loops[l].due = {}
  /\ orderly /\ m_running /\ stopping # "polling" /\ ~starting =>
       /\ ~m_stop_requested
       /\ \E l \in Loops : Alive = {l} /\ Turning(loops[l])

LEMMA MovedKeeps ==
  ASSUME NEW r \in LoopState, NEW a
  PROVE  /\ [r EXCEPT !.at = a].at = a
         /\ [r EXCEPT !.at = a].left = r.left
         /\ [r EXCEPT !.at = a].due = r.due
BY DEF LoopState

LEMMA AgedKeeps ==
  ASSUME NEW r \in LoopState, NEW n
  PROVE  /\ [r EXCEPT !.left = n].at = r.at
         /\ [r EXCEPT !.left = n].left = n
         /\ [r EXCEPT !.left = n].due = r.due
BY DEF LoopState

LEMMA FiringKeeps ==
  ASSUME NEW r \in LoopState, NEW d
  PROVE  /\ [r EXCEPT !.due = d].at = r.at
         /\ [r EXCEPT !.due = d].left = r.left
         /\ [r EXCEPT !.due = d].due = d
BY DEF LoopState

\* The only loop there is.
LEMMA OnlyLoop ==
  ASSUME WheelInv, TurningInv, NEW l \in Alive,
         orderly, m_running, stopping # "polling", ~starting
  PROVE  ~m_stop_requested /\ Alive = {l} /\ Turning(loops[l])
BY DEF TurningInv

LEMMA UntouchedTurning ==
  ASSUME TurningInv, UNCHANGED <<orderly, m_running, m_stop_requested, loops, starting, stopping>>
  PROVE  TurningInv'
<1>1. Alive' = Alive
  BY DEF Alive
<1> QED BY <1>1 DEF TurningInv

\* One loop goes on.
LEMMA OneTurns ==
  ASSUME WheelInv, TurningInv, NEW l \in Alive, NEW r \in LoopState,
         UNCHANGED <<orderly, m_running, m_stop_requested, starting, stopping>>,
         loops' = [loops EXCEPT ![l] = r],
         r.at # "gone",
         r.at # "firing" => r.due = {},
         Turning(loops[l]) /\ ~m_stop_requested => Turning(r)
  PROVE  TurningInv'
<1>1. l \in Loops /\ loops[l].at # "gone"
  BY DEF Alive, Loops
<1>2. Alive' = Alive
  BY OneMoves DEF WheelInv
<1>3. loops'[l] = r /\ \A k \in Loops : k # l => loops'[k] = loops[k]
  BY <1>1 DEF WheelInv, LoopsOK
<1>4. \A k \in Loops : loops'[k].at # "firing" => loops'[k].due = {}
  BY <1>3 DEF TurningInv
<1>5. ASSUME orderly, m_running, stopping # "polling", ~starting
      PROVE  ~m_stop_requested /\ Alive = {l} /\ Turning(r)
  BY <1>5, OnlyLoop
<1>6. Turning(r) => Turning(loops[l])'
  BY <1>3 DEF Turning
<1> QED BY <1>1, <1>2, <1>4, <1>5, <1>6 DEF TurningInv

LEMMA LoopRecord ==
  ASSUME WheelInv, NEW l \in Alive
  PROVE  l \in Loops /\ loops[l] \in LoopState /\ loops[l].at # "gone"
BY DEF Alive, Loops, WheelInv, LoopsOK

LEMMA StartSpawnsTurning ==
  ASSUME WheelInv, TurningInv, StartSpawns, UNCHANGED orderly
  PROVE  TurningInv'
<1>1. PICK l \in Loops : loops[l].at = "gone" /\ loops' = [loops EXCEPT ![l].at = "test"]
  BY DEF StartSpawns, Loops
<1> DEFINE r == [loops[l] EXCEPT !.at = "test"]
<1>2. loops[l] \in LoopState
  BY DEF WheelInv, LoopsOK
<1>3. r.at = "test" /\ r.due = loops[l].due
  BY <1>2, MovedKeeps
<1>4. loops' = [loops EXCEPT ![l] = r]
  BY <1>1
<1> HIDE DEF r
<1>5. loops'[l] = r /\ \A k \in Loops : k # l => loops'[k] = loops[k]
  BY <1>4 DEF WheelInv, LoopsOK
<1>6. r.due = {}
  BY <1>1, <1>3 DEF TurningInv
<1>7. \A k \in Loops : loops'[k].at # "firing" => loops'[k].due = {}
  BY <1>5, <1>6 DEF TurningInv
<1>8. orderly => Alive = {}
  BY DEF WheelInv, StartSpawns
<1>9. orderly => Alive' = {l}
  BY <1>3, <1>5, <1>8 DEF Alive, Loops
<1>10. Turning(loops[l])'
  BY <1>3, <1>5 DEF Turning
<1>11. m_stop_requested' = FALSE
  BY DEF StartSpawns
<1> QED BY <1>7, <1>9, <1>10, <1>11 DEF TurningInv

\* Nothing is asked of a wheel that does not run, or that is stopped.
LEMMA StoppedTurning ==
  ASSUME TurningInv, LoopsOK, loops' = loops \/ loops' = TimerCancelled(loops),
         ~m_running' \/ stopping' = "polling" \/ starting'
  PROVE  TurningInv'
<1>1. CASE loops' = loops
  BY <1>1 DEF TurningInv
<1>2. CASE loops' = TimerCancelled(loops)
  <2>1. ASSUME NEW l \in Loops, loops'[l].at # "firing" PROVE loops'[l].due = {}
    <3>1. loops[l] \in LoopState
      BY DEF LoopsOK
    <3>2. loops'[l] = IF loops[l].at = "waiting" THEN [loops[l] EXCEPT !.at = "ending"] ELSE loops[l]
      BY <1>2 DEF TimerCancelled, LoopsOK
    <3>3. CASE loops[l].at = "waiting"
      BY <3>1, <3>2, <3>3, MovedKeeps DEF TurningInv
    <3>4. CASE loops[l].at # "waiting"
      BY <2>1, <3>2, <3>4 DEF TurningInv
    <3> QED BY <3>3, <3>4
  <2> QED BY <2>1 DEF TurningInv
<1> QED BY <1>1, <1>2

LEMMA LoopTestsTurning ==
  ASSUME WheelInv, TurningInv, UNCHANGED orderly, NEW l \in Alive, LoopTests(l)
  PROVE  TurningInv'
<1> DEFINE at == IF m_stop_requested THEN "ending" ELSE "arming"
           r  == [loops[l] EXCEPT !.at = at]
<1>1. loops[l] \in LoopState /\ loops[l].due = {} /\ at \in Places
  BY LoopRecord DEF LoopTests, TurningInv, Places
<1>2. loops' = [loops EXCEPT ![l] = r]
  BY DEF LoopTests
<1>3. r \in LoopState /\ r.at = at /\ r.due = {}
  <2> HIDE DEF at
  <2> QED BY <1>1, Moved, MovedKeeps
<1> HIDE DEF r
<1>4. r.at # "gone" /\ (~m_stop_requested => Turning(r))
  BY <1>3 DEF Turning
<1> QED BY <1>2, <1>3, <1>4, OneTurns DEF LoopTests

LEMMA LoopArmsTurning ==
  ASSUME WheelInv, TurningInv, UNCHANGED orderly, NEW l \in Alive, LoopArms(l)
  PROVE  TurningInv'
<1> DEFINE waiting == [at |-> "waiting", left |-> 1, due |-> {}]
           cancelled == TimerCancelled(loops)
<1>1. l \in Loops /\ loops[l].at = "arming" /\ waiting.due = {} /\ Turning(waiting) /\ waiting.at # "gone"
  BY LoopRecord DEF LoopArms, Turning
<1>2. loops' = [cancelled EXCEPT ![l] = waiting]
  BY DEF LoopArms
<1>3. /\ cancelled \in [Loops -> LoopState]
      /\ \A k \in Loops : cancelled[k].at = "gone" <=> loops[k].at = "gone"
  BY CancelledLoops DEF WheelInv
<1>4. ASSUME NEW k \in Loops PROVE cancelled[k].at # "firing" => cancelled[k].due = {}
  <2>1. loops[k] \in LoopState
    BY DEF WheelInv, LoopsOK
  <2>2. cancelled[k] = IF loops[k].at = "waiting" THEN [loops[k] EXCEPT !.at = "ending"] ELSE loops[k]
    BY DEF TimerCancelled, WheelInv, LoopsOK
  <2> HIDE DEF cancelled
  <2>3. CASE loops[k].at = "waiting"
    BY <2>1, <2>2, <2>3, MovedKeeps DEF TurningInv
  <2>4. CASE loops[k].at # "waiting"
    BY <2>2, <2>4 DEF TurningInv
  <2> QED BY <2>3, <2>4
<1> HIDE DEF waiting, cancelled
<1>5. loops'[l] = waiting /\ \A k \in Loops : k # l => loops'[k] = cancelled[k]
  BY <1>1, <1>2, <1>3
<1>6. \A k \in Loops : loops'[k].at # "firing" => loops'[k].due = {}
  BY <1>1, <1>4, <1>5
<1>7. Alive' = Alive
  BY <1>1, <1>3, <1>5 DEF Alive, Loops
<1>8. Turning(loops[l])'
  BY <1>1, <1>5 DEF Turning
<1>9. ASSUME orderly, m_running, stopping # "polling", ~starting
      PROVE  ~m_stop_requested /\ Alive = {l}
  BY <1>9, OnlyLoop
<1>10. UNCHANGED <<orderly, m_running, m_stop_requested, starting, stopping>>
  BY DEF LoopArms
<1> QED BY <1>1, <1>6, <1>7, <1>8, <1>9, <1>10 DEF TurningInv

LEMMA FireExpiredTurning ==
  ASSUME WheelInv, TurningInv, UNCHANGED orderly, NEW l \in Alive, FireExpired(l)
  PROVE  TurningInv'
<1> DEFINE fired == [loops[l] EXCEPT !.at = "firing"]
           r     == [fired EXCEPT !.due = Expired]
<1>1. loops[l] \in LoopState /\ "firing" \in Places /\ Expired \in SUBSET Callbacks
  BY LoopRecord DEF Places, Expired
<1>2. loops' = [loops EXCEPT ![l] = r]
  BY DEF FireExpired
<1>3. fired \in LoopState /\ fired.at = "firing"
  BY <1>1, Moved
<1> HIDE DEF fired
<1>4. r \in LoopState /\ r.at = "firing"
  BY <1>1, <1>3, Firing
<1> HIDE DEF r
<1>5. r.at # "gone" /\ Turning(r)
  BY <1>4 DEF Turning
<1> QED BY <1>2, <1>4, <1>5, OneTurns DEF FireExpired

LEMMA RunCallbackTurning ==
  ASSUME WheelInv, TurningInv, UNCHANGED orderly, NEW l \in Alive, NEW k, RunCallback(l, k)
  PROVE  TurningInv'
<1> DEFINE left == loops[l].due \ {k}
           r    == [loops[l] EXCEPT !.due = left]
<1>1. loops[l] \in LoopState /\ left \in SUBSET Callbacks /\ loops[l].at = "firing"
  BY LoopRecord DEF LoopState, RunCallback
<1>2. loops' = [loops EXCEPT ![l] = r]
  BY DEF RunCallback
<1>3. r \in LoopState /\ r.at = "firing"
  <2> HIDE DEF left
  <2> QED BY <1>1, Firing
<1> HIDE DEF r
<1>4. r.at # "gone" /\ Turning(r)
  BY <1>3 DEF Turning
<1> QED BY <1>2, <1>3, <1>4, OneTurns DEF RunCallback

LEMMA FiringEndsTurning ==
  ASSUME WheelInv, TurningInv, UNCHANGED orderly, NEW l \in Alive, FiringEnds(l)
  PROVE  TurningInv'
<1> DEFINE r == [loops[l] EXCEPT !.at = "test"]
<1>1. loops[l] \in LoopState /\ "test" \in Places /\ loops[l].due = {}
  BY LoopRecord DEF Places, FiringEnds
<1>2. loops' = [loops EXCEPT ![l] = r]
  BY DEF FiringEnds
<1>3. r \in LoopState /\ r.at = "test" /\ r.due = {}
  BY <1>1, Moved, MovedKeeps
<1> HIDE DEF r
<1>4. r.at # "gone" /\ Turning(r)
  BY <1>3 DEF Turning
<1> QED BY <1>2, <1>3, <1>4, OneTurns DEF FiringEnds

LEMMA LoopEndsTurning ==
  ASSUME WheelInv, TurningInv, NEW l \in Alive, LoopEnds(l)
  PROVE  TurningInv'
<1>1. l \in Loops /\ loops' = [loops EXCEPT ![l] = Gone] /\ m_running' = FALSE
  BY LoopRecord DEF LoopEnds
<1>2. Gone.due = {}
  BY DEF Gone
<1>3. \A k \in Loops : loops'[k] = IF k = l THEN Gone ELSE loops[k]
  BY <1>1 DEF WheelInv, LoopsOK
<1> QED BY <1>1, <1>2, <1>3 DEF TurningInv

LEMMA TickTurning ==
  ASSUME WheelInv, TurningInv, UNCHANGED orderly, TimePasses
  PROVE  /\ TurningInv'
         /\ Alive' = Alive
         /\ \A l \in Loops : /\ loops'[l].at = loops[l].at
                             /\ loops'[l].due = loops[l].due
                             /\ loops'[l].left = Down(loops[l].left)
<1> DEFINE Later(l) == [loops[l] EXCEPT !.left = Down(@)]
<1>1. ASSUME NEW l \in Loops
      PROVE  /\ Later(l).at = loops[l].at
             /\ Later(l).due = loops[l].due
             /\ Later(l).left = Down(loops[l].left)
  <2>1. loops[l] \in LoopState
    BY DEF WheelInv, LoopsOK
  <2> QED BY <2>1, AgedKeeps
<1>2. loops' = [l \in Loops |-> Later(l)]
  BY DEF TimePasses, WheelInv, LoopsOK
<1> HIDE DEF Later
<1>3. \A l \in Loops : /\ loops'[l].at = loops[l].at
                       /\ loops'[l].due = loops[l].due
                       /\ loops'[l].left = Down(loops[l].left)
  BY <1>1, <1>2
<1>4. Alive' = Alive
  BY <1>3 DEF Alive, Loops
<1>5. ASSUME NEW l \in Loops, Turning(loops[l]) PROVE Turning(loops[l])'
  BY <1>3, <1>5 DEF Turning, Down
<1>6. UNCHANGED <<orderly, m_running, m_stop_requested, starting, stopping>>
  BY DEF TimePasses
<1>7. TurningInv'
  BY <1>3, <1>4, <1>5, <1>6 DEF TurningInv
<1> QED BY <1>3, <1>4, <1>7

LEMMA NextTurning ==
  ASSUME WheelInv, TurningInv, [OwnerNext]_allVars
  PROVE  TurningInv'
<1>0. UNCHANGED orderly
  BY DEF OwnerNext, LoadFile, LoadStep, UserSets, ReaderReads, WheelCalls, WheelRuns,
         CallbackRuns, EverySecond, EveryHour, TimeChanged, Tick, ClockIsSet, allVars, ownerVars
<1>1. CASE UNCHANGED wheel
  BY <1>0, <1>1, UntouchedTurning DEF wheel, wheelVars
<1>2. CASE WheelCalls
  <2>1. CASE StartBegins
    BY <2>1, StoppedTurning DEF StartBegins, WheelInv
  <2>2. CASE StopBegins
    BY <2>2, StoppedTurning DEF StopBegins, WheelInv
  <2>3. ASSUME NEW k, Add(k) \/ Cancel(k) PROVE TurningInv'
    BY <1>0, <2>3, UntouchedTurning DEF Add, Cancel
  <2> QED BY <1>2, <2>1, <2>2, <2>3 DEF WheelCalls
<1>3. CASE WheelRuns
  <2>1. CASE StartSpawns
    BY <1>0, <2>1, StartSpawnsTurning
  <2>2. CASE StopPolls
    BY <2>2, StoppedTurning DEF StopPolls, WheelInv
  <2>3. ASSUME NEW l \in Alive,
               LoopTests(l) \/ LoopArms(l) \/ FireExpired(l) \/ FiringEnds(l) \/ LoopEnds(l)
        PROVE  TurningInv'
    BY <1>0, <2>3, LoopTestsTurning, LoopArmsTurning, FireExpiredTurning, FiringEndsTurning,
       LoopEndsTurning
  <2> QED BY <1>3, <2>1, <2>2, <2>3 DEF WheelRuns
<1>4. CASE CallbackRuns
  <2>1. ASSUME NEW l \in Alive, EverySecond(l) PROVE TurningInv'
    BY <1>0, <2>1, RunCallbackTurning DEF EverySecond
  <2>2. ASSUME NEW l \in Alive, EveryHour(l) PROVE TurningInv'
    BY <1>0, <2>2, RunCallbackTurning DEF EveryHour
  <2>3. ASSUME NEW l, TimeChanged(l) PROVE TurningInv'
    BY <1>1, <2>3 DEF TimeChanged
  <2> QED BY <1>4, <2>1, <2>2, <2>3 DEF CallbackRuns
<1>5. CASE Tick
  BY <1>0, <1>5, TickTurning DEF Tick
<1> QED
  BY <1>1, <1>2, <1>3, <1>4, <1>5
  DEF OwnerNext, LoadFile, LoadStep, UserSets, ReaderReads, ClockIsSet, allVars, wheel

\* Ticks in time until the callback of the hour runs: none where it is due.
HourIsDue == \E l \in Loops : "hour" \in loops[l].due

TickIsOver == \E l \in Loops : loops[l].at = "waiting" /\ loops[l].left = 0

TicksLeft ==
  IF HourIsDue \/ (TickIsOver /\ m_entries["hour"] = 0) THEN 0
  ELSE IF m_entries["hour"] = 0 THEN 1 ELSE m_entries["hour"]

(***************************************************************************)
(* A channel has been off its schedule for as long at most as the wheel has *)
(* counted of the hour, but for what was dawdled.                           *)
(***************************************************************************)
HourInv ==
  /\ DOMAIN m_entries = Callbacks
  /\ m_entries["hour"] \in NotAdded .. Interval["hour"]
  /\ slow \in 0 .. MaxSlow
  /\ behind \in [Channels -> Nat]
  /\ orderly => \A c \in Channels :
       IF Served THEN behind[c] + TicksLeft <= Interval["hour"] + slow ELSE behind[c] = 0

LEMMA HourIs == Interval["hour"] \in Nat \ {0} /\ MaxSlow \in Nat /\ Window \in Nat
BY OwnerAssumption, WheelAssumption

LEMMA TicksWithin ==
  ASSUME m_entries["hour"] \in 0 .. Interval["hour"]
  PROVE  TicksLeft \in 0 .. Interval["hour"]
BY HourIs DEF TicksLeft

LEMMA ServedTicks ==
  ASSUME HourInv, Served
  PROVE  TicksLeft \in 0 .. Interval["hour"]
<1>1. m_entries["hour"] \in 0 .. Interval["hour"]
  BY HourIs DEF HourInv, Served, NotAdded
<1> QED BY <1>1, TicksWithin

\* What Tracked does.
LEMMA TrackedIs ==
  ASSUME behind \in [Channels -> Nat], NEW d \in Nat, Tracked(d)
  PROVE  /\ behind' \in [Channels -> Nat]
         /\ \A c \in Channels : /\ behind'[c] <= behind[c] + d
                                /\ ~Served' \/ OnSchedule(c)' => behind'[c] = 0
<1> DEFINE off(c) == ~Served' \/ OnSchedule(c)'
           now(c) == IF off(c) THEN 0 ELSE IF behind[c] <= Window THEN behind[c] + d ELSE behind[c]
<1>1. behind' = [c \in Channels |-> now(c)]
  BY DEF Tracked
<1>2. ASSUME NEW c \in Channels
      PROVE  now(c) \in Nat /\ now(c) <= behind[c] + d /\ (off(c) => now(c) = 0)
  <2>1. behind[c] \in Nat
    OBVIOUS
  <2> HIDE DEF off
  <2> QED BY <2>1
<1> HIDE DEF now
<1> QED BY <1>1, <1>2

\* Arithmetic of what is left and dawdled, before a tick and after it.
LEMMA TickInTime ==
  ASSUME NEW t0 \in Int, NEW t1 \in Int, NEW s0 \in Int, NEW s1 \in Int,
         s1 = s0, t1 + 1 <= t0
  PROVE  t1 + 1 + s0 <= t0 + s1
OBVIOUS

LEMMA TickLate ==
  ASSUME NEW t0 \in Int, NEW t1 \in Int, NEW s0 \in Int, NEW s1 \in Int,
         s1 = s0 + 1, t1 <= t0
  PROVE  t1 + 1 + s0 <= t0 + s1
OBVIOUS

\* The step of a wheel whose ticks left go down by d, or by less where it dawdles.
LEMMA HourStep ==
  ASSUME HourInv, UNCHANGED orderly,
         DOMAIN m_entries' = Callbacks,
         m_entries'["hour"] \in NotAdded .. Interval["hour"],
         slow' \in 0 .. MaxSlow, slow <= slow',
         NEW d \in Nat,
         behind' \in [Channels -> Nat],
         \A c \in Channels : behind'[c] <= behind[c] + d,
         orderly /\ ~Served' => \A c \in Channels : behind'[c] = 0,
         orderly /\ Served /\ Served' => TicksLeft' + d + slow <= TicksLeft + slow',
         orderly /\ ~Served /\ Served' => d = 0
  PROVE  HourInv'
<1> SUFFICES ASSUME orderly', NEW c \in Channels
             PROVE  IF Served' THEN behind'[c] + TicksLeft' <= Interval["hour"] + slow'
                    ELSE behind'[c] = 0
  BY DEF HourInv
<1>0. orderly /\ behind'[c] \in Nat /\ behind[c] \in Nat /\ slow \in Nat /\ slow' \in Nat
  BY HourIs DEF HourInv
<1>1. CASE ~Served'
  BY <1>0, <1>1
<1>2. CASE Served'
  <2>1. m_entries'["hour"] \in 0 .. Interval["hour"]
    BY <1>2, HourIs DEF Served, NotAdded
  <2>2. TicksLeft' \in 0 .. Interval["hour"]
    <3>1. TicksLeft' \in {0, 1, m_entries'["hour"]}
      BY DEF TicksLeft
    <3> QED BY <2>1, <3>1, HourIs
  <2>3. CASE Served
    <3>1. behind[c] + TicksLeft <= Interval["hour"] + slow
      BY <1>0, <2>3 DEF HourInv
    <3>2. TicksLeft \in 0 .. Interval["hour"]
      BY <2>3, ServedTicks
    <3>3. TicksLeft' + d + slow <= TicksLeft + slow'
      BY <1>0, <1>2, <2>3
    <3>4. behind'[c] <= behind[c] + d
      OBVIOUS
    <3>5. /\ TicksLeft \in Int /\ TicksLeft' \in Int /\ behind[c] \in Int /\ behind'[c] \in Int
          /\ slow \in Int /\ slow' \in Int /\ Interval["hour"] \in Int /\ d \in Int
      BY <1>0, <2>2, <3>2, HourIs
    <3>6. behind'[c] + TicksLeft' <= Interval["hour"] + slow'
      <4>1. PICK b0 \in Int, b1 \in Int, t0 \in Int, t1 \in Int, s0 \in Int, s1 \in Int, i \in Int :
              /\ b0 = behind[c] /\ b1 = behind'[c] /\ t0 = TicksLeft /\ t1 = TicksLeft'
              /\ s0 = slow /\ s1 = slow' /\ i = Interval["hour"]
        BY <3>5
      <4>2. b1 <= b0 + d /\ b0 + t0 <= i + s0 /\ t1 + d + s0 <= t0 + s1
        BY <3>1, <3>3, <3>4, <4>1
      <4>3. b1 + t1 <= i + s1
        BY <4>2
      <4> QED BY <4>1, <4>3
    <3> QED BY <1>2, <3>6
  <2>4. CASE ~Served
    <3>1. behind[c] = 0 /\ d = 0
      BY <1>0, <1>2, <2>4 DEF HourInv
    <3>2. behind'[c] = 0
      BY <1>0, <3>1
    <3> QED BY <1>0, <1>2, <2>2, <3>2, HourIs
  <2> QED BY <2>3, <2>4
<1> QED BY <1>1, <1>2

LEMMA TypedHour ==
  ASSUME HourInv
  PROVE  /\ DOMAIN m_entries = Callbacks /\ m_entries["hour"] \in NotAdded .. Interval["hour"]
         /\ slow \in 0 .. MaxSlow /\ slow \in Int /\ slow <= slow
         /\ behind \in [Channels -> Nat]
         /\ \A c \in Channels : behind[c] <= behind[c] + 0
BY HourIs DEF HourInv

LEMMA SameWheelTicks ==
  ASSUME UNCHANGED wheelVars
  PROVE  TicksLeft' = TicksLeft /\ Served' = Served
BY DEF wheelVars, TicksLeft, HourIsDue, TickIsOver, Served

\* The wheel is left alone, and time does not pass.
LEMMA UntouchedHour ==
  ASSUME HourInv, UNCHANGED <<wheelVars, orderly, slow>>, UNCHANGED behind \/ Tracked(0)
  PROVE  HourInv'
<1>1. TicksLeft' = TicksLeft /\ Served' = Served
  BY SameWheelTicks
<1>2. UNCHANGED <<m_entries, slow>>
  BY DEF wheelVars
<1>3. /\ behind' \in [Channels -> Nat]
      /\ \A c \in Channels : behind'[c] <= behind[c] + 0
      /\ orderly /\ ~Served' => \A c \in Channels : behind'[c] = 0
  <2>1. CASE UNCHANGED behind
    BY <1>1, <2>1, TypedHour DEF HourInv
  <2>2. CASE Tracked(0)
    BY <2>2, TypedHour, TrackedIs
  <2> QED BY <2>1, <2>2
<1>4. Served => TicksLeft' + 0 + slow <= TicksLeft + slow'
  BY <1>1, <1>2, ServedTicks, TypedHour, HourIs
<1>5. DOMAIN m_entries' = Callbacks /\ m_entries'["hour"] \in NotAdded .. Interval["hour"]
      /\ slow' \in 0 .. MaxSlow /\ slow <= slow'
  BY <1>2, TypedHour
<1>6. ~Served /\ Served' => 0 = 0
  OBVIOUS
<1> HIDE DEF TicksLeft
<1> QED BY <1>1, <1>3, <1>4, <1>5, HourStep

\* The loops go on by one step.
LEMMA LoopsHour ==
  ASSUME HourInv, UNCHANGED <<orderly, slow, behind>>,
         DOMAIN m_entries' = Callbacks,
         m_entries'["hour"] \in NotAdded .. Interval["hour"],
         orderly /\ Served => Served' /\ TicksLeft' <= TicksLeft /\ TicksLeft' \in Int,
         orderly /\ Served' => Served
  PROVE  HourInv'
<1>1. orderly /\ ~Served' => \A c \in Channels : behind'[c] = 0
  BY DEF HourInv
<1>2. orderly /\ Served /\ Served' => TicksLeft' + 0 + slow <= TicksLeft + slow'
  BY ServedTicks, TypedHour, HourIs
<1>3. \A c \in Channels : behind'[c] <= behind[c] + 0
  BY TypedHour
<1>4. slow' \in 0 .. MaxSlow /\ slow <= slow' /\ behind' \in [Channels -> Nat]
  BY TypedHour
<1> HIDE DEF TicksLeft
<1> QED BY <1>1, <1>2, <1>3, <1>4, HourStep

\* A loop goes on to where it neither fires nor waits for what is over.
LEMMA OneLoopHour ==
  ASSUME WheelInv, HourInv, UNCHANGED <<orderly, slow, behind>>,
         UNCHANGED <<m_running, stopping, m_entries>>,
         NEW l \in Loops, NEW r, loops' = [loops EXCEPT ![l] = r],
         "hour" \in r.due <=> "hour" \in loops[l].due,
         ~(r.at = "waiting" /\ r.left = 0), ~(loops[l].at = "waiting" /\ loops[l].left = 0)
  PROVE  HourInv'
<1>1. loops'[l] = r /\ \A k \in Loops : k # l => loops'[k] = loops[k]
  BY DEF WheelInv, LoopsOK
<1>2. HourIsDue' = HourIsDue
  BY <1>1 DEF HourIsDue
<1>3. TickIsOver' = TickIsOver
  BY <1>1 DEF TickIsOver
<1>4. TicksLeft' = TicksLeft
  BY <1>2, <1>3 DEF TicksLeft
<1>5. Served' = Served
  BY DEF Served
<1>6. Served => TicksLeft' <= TicksLeft /\ TicksLeft' \in Int
  BY <1>4, ServedTicks, HourIs
<1> HIDE DEF TicksLeft
<1> QED BY <1>5, <1>6, LoopsHour, TypedHour

LEMMA StartSpawnsHour ==
  ASSUME WheelInv, HourInv, StartSpawns, UNCHANGED <<orderly, slow, behind>>
  PROVE  HourInv'
<1>1. PICK l \in Loops : loops[l].at = "gone" /\ loops' = [loops EXCEPT ![l].at = "test"]
  BY DEF StartSpawns, Loops
<1> DEFINE r == [loops[l] EXCEPT !.at = "test"]
<1>2. loops[l] \in LoopState
  BY DEF WheelInv, LoopsOK
<1>3. r.at = "test" /\ r.due = loops[l].due
  BY <1>2, MovedKeeps
<1>4. loops' = [loops EXCEPT ![l] = r]
  BY <1>1
<1> HIDE DEF r
<1>5. UNCHANGED <<m_running, stopping, m_entries>>
  BY DEF StartSpawns
<1> QED BY <1>1, <1>3, <1>4, <1>5, OneLoopHour

LEMMA StopPollsHour ==
  ASSUME HourInv, StopPolls, UNCHANGED <<orderly, slow, behind>>
  PROVE  HourInv'
<1>1. ~Served /\ ~Served'
  BY DEF StopPolls, Served
<1>2. UNCHANGED m_entries
  BY DEF StopPolls
<1> QED BY <1>1, <1>2, TypedHour, LoopsHour

LEMMA LoopTestsHour ==
  ASSUME WheelInv, HourInv, NEW l \in Alive, LoopTests(l), UNCHANGED <<orderly, slow, behind>>
  PROVE  HourInv'
<1> DEFINE at == IF m_stop_requested THEN "ending" ELSE "arming"
           r  == [loops[l] EXCEPT !.at = at]
<1>1. l \in Loops /\ loops[l] \in LoopState /\ loops[l].at = "test" /\ at # "waiting"
  BY LoopRecord DEF LoopTests
<1>2. loops' = [loops EXCEPT ![l] = r]
  BY DEF LoopTests
<1>3. r.at = at /\ r.due = loops[l].due
  <2> HIDE DEF at
  <2> QED BY <1>1, MovedKeeps
<1> HIDE DEF r, at
<1>4. UNCHANGED <<m_running, stopping, m_entries>>
  BY DEF LoopTests
<1> QED BY <1>1, <1>2, <1>3, <1>4, OneLoopHour

LEMMA FiringEndsHour ==
  ASSUME WheelInv, HourInv, NEW l \in Alive, FiringEnds(l), UNCHANGED <<orderly, slow, behind>>
  PROVE  HourInv'
<1> DEFINE r == [loops[l] EXCEPT !.at = "test"]
<1>1. l \in Loops /\ loops[l] \in LoopState /\ loops[l].at = "firing"
  BY LoopRecord DEF FiringEnds
<1>2. loops' = [loops EXCEPT ![l] = r]
  BY DEF FiringEnds
<1>3. r.at = "test" /\ r.due = loops[l].due
  BY <1>1, MovedKeeps
<1> HIDE DEF r
<1>4. UNCHANGED <<m_running, stopping, m_entries>>
  BY DEF FiringEnds
<1> QED BY <1>1, <1>2, <1>3, <1>4, OneLoopHour

\* The callback of another leaves the hour due.
LEMMA SecondHour ==
  ASSUME WheelInv, HourInv, NEW l \in Alive, RunCallback(l, "second"),
         UNCHANGED <<orderly, slow, behind>>
  PROVE  HourInv'
<1> DEFINE left == loops[l].due \ {"second"}
           r    == [loops[l] EXCEPT !.due = left]
<1>1. l \in Loops /\ loops[l] \in LoopState /\ loops[l].at = "firing"
  BY LoopRecord DEF RunCallback
<1>2. loops' = [loops EXCEPT ![l] = r]
  BY DEF RunCallback
<1>3. r.at = "firing" /\ r.due = left
  <2> HIDE DEF left
  <2> QED BY <1>1, FiringKeeps
<1>4. "hour" \in left <=> "hour" \in loops[l].due
  OBVIOUS
<1> HIDE DEF r, left
<1>5. UNCHANGED <<m_running, stopping, m_entries>>
  BY DEF RunCallback
<1> QED BY <1>1, <1>2, <1>3, <1>4, <1>5, OneLoopHour

LEMMA EveryHourHour ==
  ASSUME ScheduleInv, HourInv, NEW l \in Alive, EveryHour(l)
  PROVE  HourInv'
<1>1. Tracked(0) /\ UNCHANGED <<orderly, slow, m_entries>> /\ OnHourlyScheduleChange
  BY DEF EveryHour, Refresh, RunCallback
<1>2. behind' \in [Channels -> Nat] /\ \A c \in Channels : behind'[c] = 0
  BY <1>1, TypedHour, TrackedIs, RefreshPuts
<1>3. Served' => TicksLeft' \in 0 .. Interval["hour"]
  <2> SUFFICES ASSUME Served' PROVE TicksLeft' \in 0 .. Interval["hour"]
    OBVIOUS
  <2>1. m_entries'["hour"] \in 0 .. Interval["hour"]
    BY <1>1, TypedHour, HourIs DEF Served, NotAdded
  <2>2. TicksLeft' \in {0, 1, m_entries'["hour"]}
    BY DEF TicksLeft
  <2> QED BY <2>1, <2>2, HourIs
<1>4. slow' \in 0 .. MaxSlow /\ slow' \in Nat
  BY <1>1, TypedHour, HourIs
<1>5. ASSUME NEW c \in Channels, Served'
      PROVE  behind'[c] + TicksLeft' <= Interval["hour"] + slow'
  BY <1>2, <1>3, <1>4, <1>5, HourIs
<1> QED BY <1>1, <1>2, <1>4, <1>5, TypedHour DEF HourInv

\* Where the wheel serves the hour and a loop is at its step, no other loop is there.
LEMMA LoopArmsHour ==
  ASSUME WheelInv, TurningInv, HourInv, NEW l \in Alive, LoopArms(l),
         UNCHANGED <<orderly, slow, behind>>
  PROVE  HourInv'
<1> DEFINE waiting == [at |-> "waiting", left |-> 1, due |-> {}]
           cancelled == TimerCancelled(loops)
<1>1. l \in Loops /\ loops[l].at = "arming" /\ waiting.due = {} /\ waiting.left = 1
  BY LoopRecord DEF LoopArms
<1>2. loops' = [cancelled EXCEPT ![l] = waiting]
  BY DEF LoopArms
<1>3. ASSUME NEW k \in Loops
      PROVE  cancelled[k].due = loops[k].due /\ cancelled[k].at # "waiting"
  <2>1. loops[k] \in LoopState
    BY DEF WheelInv, LoopsOK
  <2>2. cancelled[k] = IF loops[k].at = "waiting" THEN [loops[k] EXCEPT !.at = "ending"] ELSE loops[k]
    BY DEF TimerCancelled, WheelInv, LoopsOK
  <2> HIDE DEF cancelled
  <2> QED BY <2>1, <2>2, MovedKeeps
<1>4. cancelled \in [Loops -> LoopState]
  BY CancelledLoops DEF WheelInv
<1> HIDE DEF waiting, cancelled
<1>5. loops'[l] = waiting /\ \A k \in Loops : k # l => loops'[k] = cancelled[k]
  BY <1>1, <1>2, <1>4
<1>6. HourIsDue' = HourIsDue
  BY <1>1, <1>3, <1>5 DEF HourIsDue, TurningInv
<1>7. ~TickIsOver'
  BY <1>1, <1>3, <1>5 DEF TickIsOver
<1>8. UNCHANGED <<m_running, stopping, m_entries>>
  BY DEF LoopArms
<1>9. Served' = Served
  BY <1>8 DEF Served
<1>10. ASSUME orderly, Served PROVE ~TickIsOver
  <2>1. Alive = {l}
    BY <1>10 DEF Served, WheelInv, TurningInv
  <2>2. \A k \in Loops : loops[k].at = "waiting" => k \in Alive
    BY DEF Alive, Loops
  <2> QED BY <1>1, <2>1, <2>2 DEF TickIsOver
<1>11. ASSUME orderly, Served PROVE TicksLeft' = TicksLeft
  BY <1>6, <1>7, <1>8, <1>10, <1>11 DEF TicksLeft
<1>12. orderly /\ Served => TicksLeft' <= TicksLeft /\ TicksLeft' \in Int
  BY <1>11, ServedTicks, HourIs
<1> QED BY <1>8, <1>9, <1>12, TypedHour, LoopsHour

\* What is at 0 is due when the tick is over, and is counted anew.
LEMMA FireExpiredHour ==
  ASSUME WheelInv, TurningInv, HourInv, NEW l \in Alive, FireExpired(l),
         UNCHANGED <<orderly, slow, behind>>
  PROVE  HourInv'
<1> DEFINE fired == [loops[l] EXCEPT !.at = "firing"]
           r     == [fired EXCEPT !.due = Expired]
<1>1. /\ l \in Loops /\ loops[l] \in LoopState
      /\ loops[l].at = "waiting" /\ loops[l].left = 0
      /\ "firing" \in Places
  BY LoopRecord DEF FireExpired, Places
<1>2. loops' = [loops EXCEPT ![l] = r]
  BY DEF FireExpired
<1>3. fired \in LoopState
  BY <1>1, Moved
<1> HIDE DEF fired
<1>4. r.due = Expired
  BY <1>3, FiringKeeps
<1> HIDE DEF r
<1>5. loops'[l] = r
  BY <1>1, <1>2 DEF WheelInv, LoopsOK
<1>6. \A k \in Loops : k # l => loops'[k] = loops[k]
  BY <1>1, <1>2 DEF WheelInv, LoopsOK
<1>7. "hour" \in Callbacks
  BY OwnerAssumption
<1>8. m_entries' = [k \in Callbacks |-> NextFire(k)]
  BY DEF FireExpired
<1>9. m_entries'["hour"] = IF m_entries["hour"] = 0 THEN Interval["hour"] ELSE m_entries["hour"]
  BY <1>7, <1>8 DEF NextFire, Expired
<1>10. DOMAIN m_entries' = Callbacks /\ m_entries'["hour"] \in NotAdded .. Interval["hour"]
  BY <1>8, <1>9, TypedHour, HourIs DEF NotAdded
<1>11. Served' = Served
  BY <1>9, HourIs DEF Served, FireExpired, NotAdded
<1>12. TickIsOver
  BY <1>1 DEF TickIsOver
<1>13. CASE m_entries["hour"] = 0
  <2>1. "hour" \in Expired
    BY <1>7, <1>13 DEF Expired
  <2>2. HourIsDue'
    BY <1>1, <1>4, <1>5, <2>1 DEF HourIsDue
  <2>3. TicksLeft' = 0 /\ TicksLeft = 0
    BY <1>12, <1>13, <2>2 DEF TicksLeft
  <2> QED BY <1>10, <1>11, <2>3, LoopsHour
<1>14. CASE m_entries["hour"] # 0
  <2>1. UNCHANGED HourIsDue
    <3>1. "hour" \notin r.due
      BY <1>4, <1>14 DEF Expired
    <3>2. loops[l].due = {}
      BY <1>1 DEF TurningInv
    <3> QED BY <1>5, <1>6, <3>1, <3>2 DEF HourIsDue
  <2>2. TicksLeft' = TicksLeft
    BY <1>9, <1>14, <2>1 DEF TicksLeft
  <2>3. Served => TicksLeft' <= TicksLeft /\ TicksLeft' \in Int
    BY <2>2, ServedTicks, HourIs
  <2> QED BY <1>10, <1>11, <2>3, LoopsHour
<1> QED BY <1>13, <1>14

\* No loop ends while the wheel serves.
LEMMA LoopEndsHour ==
  ASSUME WheelInv, TurningInv, HourInv, NEW l \in Alive, LoopEnds(l),
         UNCHANGED <<orderly, slow, behind>>
  PROVE  HourInv'
<1>1. ~Served' /\ UNCHANGED m_entries
  BY DEF LoopEnds, Served
<1>2. ASSUME orderly, Served PROVE FALSE
  <2>1. ~starting
    BY <1>2 DEF WheelInv, Served
  <2>2. Turning(loops[l])
    BY <1>2, <2>1, OnlyLoop DEF Served
  <2> QED BY <2>2 DEF Turning, LoopEnds
<1> QED BY <1>1, <1>2, TypedHour, LoopsHour

\* A tick in time takes one off what is left, and one that is late adds nothing.
LEMMA TickTicks ==
  ASSUME WheelInv, TurningInv, HourInv, TimePasses, UNCHANGED orderly, orderly, Served
  PROVE  /\ TicksLeft' <= TicksLeft
         /\ InTime => TicksLeft' + 1 <= TicksLeft
<1>1. \A l \in Loops : /\ loops'[l].at = loops[l].at
                       /\ loops'[l].due = loops[l].due
                       /\ loops'[l].left = Down(loops[l].left)
  BY TickTurning
<1>2. m_entries'["hour"] = Down(m_entries["hour"])
  BY OwnerAssumption DEF TimePasses
<1>3. HourIsDue' = HourIsDue
  BY <1>1 DEF HourIsDue
<1>4. TickIsOver => TickIsOver'
  BY <1>1 DEF TickIsOver, Down
<1>5. m_entries["hour"] \in Nat
  BY TypedHour, HourIs DEF Served, NotAdded
<1>6. TicksLeft' <= TicksLeft
  BY <1>2, <1>3, <1>4, <1>5 DEF TicksLeft, Down
<1>7. ASSUME InTime PROVE TicksLeft' + 1 <= TicksLeft
  <2>1. PICK l \in Loops : Alive = {l} /\ Turning(loops[l])
    BY <1>7 DEF TurningInv, InTime, Served
  <2>2. loops[l].at = "waiting" /\ loops[l].left = 1
    BY <1>7, <2>1 DEF InTime, Turning
  <2>3. \A k \in Loops : k # l => loops[k].at = "gone"
    BY <2>1 DEF Alive, Loops
  <2>4. ~HourIsDue /\ ~TickIsOver
    BY <2>2, <2>3 DEF HourIsDue, TickIsOver, TurningInv
  <2>5. TickIsOver'
    BY <1>1, <2>2 DEF TickIsOver, Down
  <2> QED BY <1>2, <1>3, <1>5, <2>4, <2>5 DEF TicksLeft, Down
<1> QED BY <1>6, <1>7

LEMMA TickHour ==
  ASSUME WheelInv, TurningInv, HourInv, Tick
  PROVE  HourInv'
<1>1. /\ TimePasses /\ Tracked(1) /\ UNCHANGED orderly
      /\ IF InTime THEN UNCHANGED slow ELSE slow < MaxSlow /\ slow' = slow + 1
  BY DEF Tick
<1>2. m_entries' = [k \in Callbacks |-> Down(m_entries[k])]
  BY <1>1 DEF TimePasses
<1>3. m_entries'["hour"] = Down(m_entries["hour"]) /\ DOMAIN m_entries' = Callbacks
  BY <1>2, OwnerAssumption
<1>4. m_entries'["hour"] \in NotAdded .. Interval["hour"]
  BY <1>3, TypedHour, HourIs DEF Down, NotAdded
<1>5. slow' \in 0 .. MaxSlow /\ slow <= slow'
  BY <1>1, TypedHour, HourIs
<1>6. /\ behind' \in [Channels -> Nat]
      /\ \A c \in Channels : behind'[c] <= behind[c] + 1
      /\ ~Served' => \A c \in Channels : behind'[c] = 0
  BY <1>1, TypedHour, TrackedIs
<1>7. Served' = Served
  BY <1>1, <1>3, TypedHour, HourIs DEF TimePasses, Served, Down, NotAdded
<1>8. ASSUME orderly, Served PROVE TicksLeft' + 1 + slow <= TicksLeft + slow'
  <2>1. TicksLeft' <= TicksLeft /\ (InTime => TicksLeft' + 1 <= TicksLeft)
    BY <1>1, <1>8, TickTicks
  <2>2. TicksLeft \in Int /\ TicksLeft' \in Int /\ slow \in Int /\ slow' \in Int
    <3>1. TicksLeft \in Int
      BY <1>8, ServedTicks, HourIs
    <3>2. TicksLeft' \in {0, 1, m_entries'["hour"]}
      BY DEF TicksLeft
    <3> QED BY <1>4, <1>5, <3>1, <3>2, TypedHour, HourIs DEF NotAdded
  <2>3. CASE InTime
    <3>1. slow' = slow
      BY <1>1, <2>3
    <3>2. TicksLeft' + 1 <= TicksLeft
      BY <2>1, <2>3
    <3> QED BY <2>2, <3>1, <3>2, TickInTime, Zenon
  <2>4. CASE ~InTime
    <3>1. slow' = slow + 1
      BY <1>1, <2>4
    <3>2. TicksLeft' <= TicksLeft
      BY <2>1
    <3> QED BY <2>2, <3>1, <3>2, TickLate, Zenon
  <2> QED BY <2>3, <2>4
<1> QED BY <1>1, <1>3, <1>4, <1>5, <1>6, <1>7, <1>8, HourStep

LEMMA WheelCallsHour ==
  ASSUME HourInv, WheelCalls
  PROVE  HourInv'
<1>1. Tracked(0) /\ UNCHANGED <<orderly, slow>>
  BY DEF WheelCalls
<1>2. /\ behind' \in [Channels -> Nat]
      /\ \A c \in Channels : behind'[c] <= behind[c] + 0
      /\ ~Served' => \A c \in Channels : behind'[c] = 0
  BY <1>1, TypedHour, TrackedIs
<1>3. slow' \in 0 .. MaxSlow /\ slow <= slow'
  BY <1>1, TypedHour
<1>4. ASSUME DOMAIN m_entries' = Callbacks, m_entries'["hour"] \in NotAdded .. Interval["hour"],
             Served /\ Served' => TicksLeft' = TicksLeft
      PROVE  HourInv'
  <2>1. Served /\ Served' => TicksLeft' + 0 + slow <= TicksLeft + slow'
    BY <1>1, <1>4, ServedTicks, TypedHour, HourIs
  <2> QED BY <1>1, <1>2, <1>3, <1>4, <2>1, HourStep
<1>5. CASE StartBegins
  BY <1>4, <1>5, TypedHour DEF StartBegins, Served
<1>6. CASE StopBegins
  BY <1>4, <1>6, TypedHour DEF StopBegins, Served
<1>7. ASSUME NEW k \in Callbacks, Add(k) \/ Cancel(k) PROVE HourInv'
  <2>1. DOMAIN m_entries' = Callbacks /\ UNCHANGED loops
    BY <1>7, TypedHour DEF Add, Cancel
  <2>2. CASE k = "hour"
    <3>1. m_entries'["hour"] \in NotAdded .. Interval["hour"]
      BY <1>7, <2>2, TypedHour, HourIs DEF Add, Cancel, NotAdded
    <3>2. ~Served \/ ~Served'
      BY <1>7, <2>2, TypedHour DEF Add, Cancel, Served
    <3> QED BY <1>4, <2>1, <3>1, <3>2
  <2>3. CASE k # "hour"
    <3>1. m_entries'["hour"] = m_entries["hour"]
      BY <1>7, <2>3, TypedHour, OwnerAssumption DEF Add, Cancel
    <3>2. TicksLeft' = TicksLeft
      BY <2>1, <3>1 DEF TicksLeft, HourIsDue, TickIsOver
    <3> QED BY <1>4, <2>1, <3>1, <3>2, TypedHour
  <2> QED BY <2>2, <2>3
<1> QED BY <1>5, <1>6, <1>7 DEF WheelCalls

LEMMA NextHour ==
  ASSUME WheelInv, TurningInv, ScheduleInv, HourInv, [OwnerNext]_allVars
  PROVE  HourInv'
<1>1. CASE LoadFile \/ LoadStep \/ UserSets \/ ReaderReads \/ ClockIsSet
  BY <1>1, UntouchedHour DEF LoadFile, LoadStep, UserSets, ReaderReads, ClockIsSet, wheel
<1>2. CASE WheelRuns
  <2>1. UNCHANGED <<orderly, slow, behind>>
    BY <1>2 DEF WheelRuns, ownerVars
  <2>2. ASSUME NEW l \in Alive,
               LoopTests(l) \/ LoopArms(l) \/ FireExpired(l) \/ FiringEnds(l) \/ LoopEnds(l)
        PROVE  HourInv'
    BY <2>1, <2>2, LoopTestsHour, LoopArmsHour, FireExpiredHour, FiringEndsHour, LoopEndsHour
  <2>3. ASSUME StartSpawns \/ StopPolls PROVE HourInv'
    BY <2>1, <2>3, StartSpawnsHour, StopPollsHour
  <2> QED BY <1>2, <2>2, <2>3 DEF WheelRuns
<1>3. CASE CallbackRuns
  <2>1. ASSUME NEW l \in Alive, EverySecond(l) PROVE HourInv'
    BY <2>1, SecondHour DEF EverySecond
  <2>2. ASSUME NEW l \in Alive, EveryHour(l) PROVE HourInv'
    BY <2>2, EveryHourHour
  <2>3. ASSUME NEW l, TimeChanged(l) PROVE HourInv'
    BY <2>3, UntouchedHour DEF TimeChanged, wheel
  <2> QED BY <1>3, <2>1, <2>2, <2>3 DEF CallbackRuns
<1>4. CASE UNCHANGED allVars
  BY <1>4, UntouchedHour DEF allVars, ownerVars
<1> QED BY <1>1, <1>2, <1>3, <1>4, TickHour, WheelCallsHour DEF OwnerNext

ServingInv == WheelInv /\ TurningInv /\ ScheduleInv /\ HourInv

LEMMA ServingStart == OwnerInit => ServingInv
<1> SUFFICES ASSUME OwnerInit PROVE ServingInv
  OBVIOUS
<1>1. Gone.due = {}
  BY DEF Gone
<1>3. WheelInv
  BY WheelStart
<1>4. TurningInv
  BY <1>1 DEF OwnerInit, WheelInit, TurningInv, Loops
<1>5. ScheduleInv
  BY WeekIsLong DEF OwnerInit, SchedulerInit, ScheduleInv
<1>6. m_entries["hour"] = NotAdded /\ DOMAIN m_entries = Callbacks
  BY OwnerAssumption DEF OwnerInit, WheelInit
<1>7. ~Served
  BY <1>6 DEF Served
<1>8. slow \in 0 .. MaxSlow /\ behind = [c \in Channels |-> 0]
  BY HourIs DEF OwnerInit
<1>9. HourInv
  BY <1>6, <1>7, <1>8, HourIs DEF HourInv, NotAdded
<1> QED BY <1>3, <1>4, <1>5, <1>9 DEF ServingInv

LEMMA ServedInTime == HourInv => ScheduleFollowed
<1> SUFFICES ASSUME HourInv, orderly, NEW c \in Channels PROVE behind[c] <= Window
  BY DEF ScheduleFollowed
<1>1. CASE Served
  <2>1. TicksLeft \in 0 .. Interval["hour"] /\ behind[c] + TicksLeft <= Interval["hour"] + slow
    BY <1>1, ServedTicks DEF HourInv
  <2>2. slow \in 0 .. MaxSlow /\ behind[c] \in Nat
    BY TypedHour
  <2> QED BY <2>1, <2>2, HourIs, OwnerAssumption
<1>2. CASE ~Served
  BY <1>2, HourIs DEF HourInv
<1> QED BY <1>1, <1>2

(***************************************************************************)
(* ScheduleIsKept: while the wheel serves the hour, what a channel records  *)
(* is off its schedule for the interval of the hour and what was dawdled at *)
(* most, whoever set it, loaded another schedule or set the clock between   *)
(* two calls of on_hourly_schedule_change().                                *)
(***************************************************************************)
THEOREM ScheduleIsKept == OwnerSpec => []ScheduleFollowed
<1>1. OwnerInit => ServingInv
  BY ServingStart
<1>2. ServingInv /\ [OwnerNext]_allVars => ServingInv'
  BY NextWheel, NextTurning, NextSchedule, NextHour DEF ServingInv
<1>3. ServingInv => ScheduleFollowed
  BY ServedInTime DEF ServingInv
<1> QED BY <1>1, <1>2, <1>3, PTL DEF OwnerSpec
=============================================================================
