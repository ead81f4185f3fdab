------------------------------ MODULE Recording ------------------------------
(***************************************************************************)
(* A recorder: the entries of a stream go to a BlockBuilder, the finished   *)
(* blocks to a SegmentBuilder.  The repository has the two parts; the owner *)
(* between them, who adds an entry and writes what is ready, is outside it, *)
(* and so is the one who plays the files back with a SegmentReader while    *)
(* they are written.  SegmentStore brings the files, the crashes and the    *)
(* repairs.                                                                 *)
(***************************************************************************)
EXTENDS SegmentReader

CONSTANTS
  Kinds,        \* what an entry may be: [type, payload_size, sample_rate,
                \* bytes_per_sample, size, key]
  Steps,        \* by how much its timestamp may differ from the one before
  MaxEntries,   \* bound: how many entries the stream has
  SeekTimes,    \* the times looked for
  BlockDuration, BlockBytes, BlockCount, RejectPast

\* What callers give and which options there are.
ASSUME RecordingAssumption ==
  /\ \A k \in Kinds : /\ k.payload_size \in Nat /\ k.sample_rate \in Nat
                      /\ k.bytes_per_sample \in Nat
                      /\ k.size \in Nat /\ k.key \in BOOLEAN
  /\ Steps \subseteq Int
  /\ BlockDuration \in Nat /\ BlockBytes \in Nat /\ BlockCount \in Nat

VARIABLES
  pending, context, blocks,   \* of the BlockBuilder
  stream                      \* the entries given to add_entry so far

Builder == INSTANCE BlockBuilder

builderVars   == <<pending, context, blocks>>
recordingVars == <<vars, readerVars, builderVars, stream>>

InitRecording == Init /\ InitReader /\ Builder!InitBuilder /\ stream = <<>>

LastTime == IF stream = <<>> THEN 1 ELSE stream[Len(stream)].timestamp

\* The owner adds the next entry of the stream.
AddNext ==
  /\ call.pc = "idle" /\ blocks = <<>> /\ Len(stream) < MaxEntries
  /\ \E k \in Kinds, d \in Steps :
       LET t == LastTime + d
           e == [id |-> Len(stream) + 1, timestamp |-> t, end |-> Builder!CalculateEntryEndTimestamp(t, k),
                 size |-> k.size, key |-> k.key]
       IN  /\ t >= 0
           /\ stream' = Append(stream, [e EXCEPT !.id = IF Builder!Accepted(e)
                                                         THEN @ ELSE 0])
           /\ Builder!AddEntry(e)
  /\ UNCHANGED <<vars, readerVars>>

\* The owner takes the block in front and writes it; it does not come back to
\* a block whose writing failed.
Drain ==
  /\ blocks # <<>>
  /\ Builder!PopBlock
  /\ WriteBlock(Head(blocks))
  /\ UNCHANGED <<readerVars, stream>>

\* The owner ends a block early: a timeout, or the end of the stream.
FlushBlock ==
  /\ call.pc = "idle" /\ pending # <<>>
  /\ Builder!Flush
  /\ UNCHANGED <<vars, readerVars, stream>>

\* What is in memory goes with the process.
Stop ==
  /\ Crash \/ PowerLoss
  /\ pending' = <<>> /\ context' = Builder!NoContext /\ blocks' = <<>>
  /\ reader' = NoReader /\ taken' = <<>> /\ said' = "none"
  /\ UNCHANGED <<uses, stream>>

StoreStep ==
  /\ CloseCurrentSegment \/ FlushPending \/ BuilderStep
  /\ UNCHANGED <<readerVars, builderVars, stream>>

\* The recovery keeps off a file that is being read, and nobody opens one that
\* is being repaired.
Repaired(r) == IF r.pc = "idle" THEN NoFile ELSE r.file

Recover ==
  /\ RepairStep
  /\ reader.file = NoFile \/ Repaired(repair') # reader.file
  /\ UNCHANGED <<readerVars, builderVars, stream>>

Play ==
  /\ \/ \E n \in DOMAIN disk :
          /\ Repaired(repair) # n
          /\ OpenReader(n)
     \/ \E t \in SeekTimes : SeekToTime(t)
     \/ ReadNextEntry \/ CloseReader
  /\ UNCHANGED <<vars, builderVars, stream>>

NextRecording ==
  AddNext \/ Drain \/ FlushBlock \/ StoreStep \/ Recover \/ Play \/ Stop

RecordingSpec == InitRecording /\ [][NextRecording]_recordingVars

-----------------------------------------------------------------------------
\* The blocks that exist: in front of pop_block, being written, in a file.
InFiles == UNION {{<<n, p>> : p \in {q \in 1..Len(disk[n]) :
                                       disk[n][q].kind = "block"}} :
                    n \in DOMAIN disk}
Writing == call.pc \in {"create", "header", "header_sync", "append"}
             \/ (call.pc \in {"footer", "close"} /\ call.then = "create")
Made    == {blocks[i] : i \in DOMAIN blocks}
             \cup {disk[x[1]][x[2]].block : x \in InFiles}
             \cup (IF Writing THEN {call.block} ELSE {})

\* The header of every block tells the truth about its entries, however they
\* were ordered when they came, and every block is within the limits.
BlocksAreSound ==
  \A b \in Made : Builder!HeaderIsTrue(b) /\ Builder!WithinLimits(b)
=============================================================================
