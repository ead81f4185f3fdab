---------------------------- MODULE BlockBuilder ----------------------------
(***************************************************************************)
(* BlockBuilder of nxcore/record with BasicBlockBuilderOptions: it collects *)
(* the entries of a stream, video frames, audio and user data, until one of *)
(* the limits is met, and makes a block of them.  The owner pops the blocks *)
(* and gives them to a SegmentBuilder.                                      *)
(*                                                                          *)
(* An entry is [id, timestamp, end, size, key]; end is what                 *)
(* calculate_entry_end_timestamp returns, key says that it is a video       *)
(* I-frame.                                                                 *)
(***************************************************************************)
EXTENDS Integers, Sequences, FiniteSets

CONSTANTS
  BlockDuration,   \* BasicBlockBuilderOptions::m_max_duration
  BlockBytes,      \* m_max_size_bytes
  BlockCount,      \* m_max_entry_count
  RejectPast       \* m_reject_past_entries

VARIABLES
  pending,   \* m_pending_entries, in the order they were added
  context,   \* m_ctx: start, end, bytes, key of the pending entries
  blocks     \* m_blocks, the finished blocks in front of pop_block

builderVars == <<pending, context, blocks>>

NoContext == [start |-> 0, end |-> 0, bytes |-> 0, key |-> FALSE]

InitBuilder == pending = <<>> /\ context = NoContext /\ blocks = <<>>

\* An audio entry lasts as long as its samples, if it says how to count them.
CalculateEntryEndTimestamp(timestamp, kind) ==
  IF kind.type = "audio" /\ 0 \notin {kind.sample_rate, kind.payload_size, kind.bytes_per_sample}
  THEN timestamp + ((kind.payload_size \div kind.bytes_per_sample) * 1000) \div kind.sample_rate
  ELSE timestamp

-----------------------------------------------------------------------------
(* std::sort by timestamp: entries with equal timestamps come out in any     *)
(* order.                                                                   *)
SortedOrders(s) ==
  {[i \in DOMAIN s |-> s[order[i]]] :
     order \in {p \in [DOMAIN s -> DOMAIN s] :
                  \A i, j \in DOMAIN s :
                    i < j => /\ p[i] # p[j]
                             /\ s[p[i]].timestamp <= s[p[j]].timestamp}}

\* The block made of the entries s, added under the context c, in one of the
\* orders the sort may leave them in.
BlocksOf(s, c) ==
  {[start |-> c.start, end |-> c.end, key |-> c.key, size |-> c.bytes,
    entries |-> sorted] : sorted \in SortedOrders(s)}

\* finalize_current_block: nothing when no entry is pending.
Finalized(s, c) ==
  IF s = <<>> THEN {<<>>} ELSE {<<b>> : b \in BlocksOf(s, c)}

\* should_accept_entry.
Accepted(e) ==
  ~ RejectPast \/ pending = <<>> \/ e.timestamp >= context.start

\* The length of the entry is forgotten.
FinalizeByStart(e) ==
  pending # <<>> /\ e.timestamp - context.start >= BlockDuration

\* should_finalize_before_add: the entry would make the block too long.
FinalizeBefore(e) ==
  pending # <<>> /\ e.end - context.start >= BlockDuration

\* The context after the entry e has joined the pending entries s under c; the
\* first entry sets the start.
Joined(s, c, e) ==
  LET start == IF s = <<>> THEN e.timestamp ELSE c.start
      end   == IF s = <<>> THEN e.timestamp ELSE c.end
  IN  [start |-> start,
       end   |-> IF e.end > end THEN e.end ELSE end,
       bytes |-> c.bytes + e.size,
       key   |-> c.key \/ e.key]

\* is_finished.
IsFinished(s, c) ==
  \/ c.end - c.start >= BlockDuration
  \/ c.bytes >= BlockBytes
  \/ Len(s) >= BlockCount

-----------------------------------------------------------------------------
(* add_entry: an entry before the start of the current block is rejected;   *)
(* the block is finished first when the entry would make it too long, and   *)
(* afterwards when the entry completed it.                                  *)
AddEntry(e) ==
  IF ~ Accepted(e) THEN UNCHANGED builderVars
  ELSE \E done \in (IF FinalizeBefore(e) THEN Finalized(pending, context)
                    ELSE {<<>>}) :
         LET s0 == IF FinalizeBefore(e) THEN <<>> ELSE pending
             c0 == IF FinalizeBefore(e) THEN NoContext ELSE context
             s1 == Append(s0, e)
             c1 == Joined(s0, c0, e)
         IN  IF IsFinished(s1, c1)
             THEN /\ \E last \in Finalized(s1, c1) :
                       blocks' = blocks \o done \o last
                  /\ pending' = <<>> /\ context' = NoContext
             ELSE /\ blocks' = blocks \o done
                  /\ pending' = s1 /\ context' = c1

\* flush: the pending entries become a block now.
Flush ==
  /\ \E done \in Finalized(pending, context) : blocks' = blocks \o done
  /\ pending' = <<>> /\ context' = NoContext

\* pop_block takes the block in front.
PopBlock ==
  /\ blocks # <<>>
  /\ blocks' = Tail(blocks)
  /\ UNCHANGED <<pending, context>>

-----------------------------------------------------------------------------
(* What is true of every block b the builder makes. *)

Span(b) == {b.entries[i] : i \in DOMAIN b.entries}

\* The header of the block tells the truth about the entries in it: the block
\* starts with its earliest entry and ends with the last to end, the entries
\* are in the order of their time, and the keyframe flag is set if there is a
\* keyframe among them.
HeaderIsTrue(b) ==
  /\ Len(b.entries) > 0
  /\ b.start = b.entries[1].timestamp
  /\ \A i, j \in DOMAIN b.entries :
       i < j => b.entries[i].timestamp <= b.entries[j].timestamp
  /\ \A e \in Span(b) : e.end <= b.end
  /\ \E e \in Span(b) : e.end = b.end
  /\ b.key = (\E e \in Span(b) : e.key)

\* A block of several entries is shorter than the maximal duration, without
\* its last entry it is below the other two limits, and it never has more
\* entries than the maximal count.
WithinLimits(b) ==
  /\ Len(b.entries) <= BlockCount
  /\ Len(b.entries) > 1 =>
       /\ b.end - b.start < BlockDuration
       /\ \E e \in Span(b) : b.size - e.size < BlockBytes
=============================================================================
