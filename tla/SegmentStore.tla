---------------------------- MODULE SegmentStore ----------------------------
(***************************************************************************)
(* The segment files of nxcore/record: SegmentBuilder writes them block by  *)
(* block, the process or the machine may stop between any two writes,       *)
(* SegmentRepairer gives an unfinished file its footer back, and            *)
(* SegmentReader finds a place in a file through its footer.                *)
(*                                                                          *)
(* A file is the sequence of the pieces written to it: the segment header,  *)
(* blocks, index entries, the footer header, and "torn" for bytes that are  *)
(* none of these.  An offset is the place of a piece in that sequence.      *)
(*                                                                          *)
(* Every write and every sync is a step of its own, because the program may *)
(* be stopped between them.  The calls of one SegmentBuilder are sequential *)
(* (it has no lock), so there is one call in progress.                      *)
(***************************************************************************)
EXTENDS Integers, Sequences, FiniteSets

CONSTANTS
  Blocks,        \* the blocks a caller may write: [start, end, size, key]
  NoFile,        \* an empty m_current_path, a closed m_file
  SecondLength,  \* ticks that share one file name: names carry whole seconds
  LastSequence,  \* the last sequence number of a name (999 in the code)
  MaxDuration,   \* BasicSegmentBuilderOptions::m_max_duration
  MaxSize,       \* BasicSegmentBuilderOptions::m_max_size_bytes
  SyncBlocks,    \* BasicSegmentBuilderOptions::m_sync_blocks
  SyncLevels,    \* the values of data_sync_level() considered
  Faults,        \* what may go wrong, see FaultKinds
  MaxFaults,     \* bound: how many times it may go wrong
  MaxLoss,       \* bound: how many unsynced pieces a power loss takes
  MaxCalls       \* bound: how many times the caller writes a block

FaultKinds ==
  {"write_fails", "short_write", "sync_fails", "close_sync_fails",
   "crash", "power_loss", "clock_back"}

ASSUME SegmentAssumption ==
  /\ \A b \in Blocks : b.start \in Nat /\ b.end \in Nat /\ b.size \in Nat
                       /\ b.key \in BOOLEAN
  /\ SecondLength \in Nat \ {0}
  /\ LastSequence \in Nat
  /\ SyncBlocks \in Nat \ {0}
  /\ SyncLevels \subseteq {"none", "normal", "full"}
  /\ Faults \subseteq FaultKinds
  /\ MaxFaults \in Nat /\ MaxLoss \in Nat /\ MaxCalls \in Nat
  /\ NoFile \notin Nat \X Nat

VARIABLES
  disk,      \* what each existing file holds, as the running system sees it
  durable,   \* how many pieces of each file a power loss cannot take away
  acked,     \* the places of the blocks whose write_block returned success
  builder,   \* the members of the SegmentBuilder
  call,      \* the call of the SegmentBuilder in progress
  finished,  \* what on_segment_finished was told, file by file
  repair,    \* the repair_segment in progress
  level,     \* data_sync_level()
  newest,    \* the latest start a block had
  calls,     \* how many blocks the caller has written
  spent      \* how many faults there have been

files   == <<disk, durable>>
vars    == <<disk, durable, acked, builder, call, finished, repair, level,
             newest, calls, spent>>

-----------------------------------------------------------------------------
(* Pieces and files. *)

Header           == [kind |-> "header"]
Torn             == [kind |-> "torn"]
BlockPiece(b)    == [kind |-> "block", block |-> b]
IndexEntry(b, p) == [kind |-> "index", timestamp |-> b.start, offset |-> p]
Footer(n)        == [kind |-> "footer", index_count |-> n]

Names == Nat \X (0..LastSequence)

\* make_segment_path: the local time to the second and the sequence number.
SegmentName(ts, q) == <<ts \div SecondLength, q>>

\* The footer is recognised by the two magic numbers of the last bytes; a
\* file shorter than a header and a footer has none.
HasFooter(f) == Len(f) >= 2 /\ f[Len(f)].kind = "footer"

\* scan_blocks stops at the first piece that is not a whole block: e is the
\* end of the last block it accepts (1, the header, when there is none).
Scanned(f, e) ==
  /\ e \in 1..Len(f)
  /\ f[1] = Header
  /\ \A p \in 2..e : f[p].kind = "block"
  /\ e < Len(f) => f[e + 1].kind # "block"

IsKey(f, p) == f[p].kind = "block" /\ f[p].block.key

\* The sequence s is the index of the keyframe blocks among the first e pieces
\* of f: each with its time and its place, in the order of the file.
Indexes(s, f, e) ==
  /\ \A i \in 1..Len(s) :
       /\ s[i].offset \in 2..e
       /\ IsKey(f, s[i].offset)
       /\ s[i] = IndexEntry(f[s[i].offset].block, s[i].offset)
  /\ \A i, j \in 1..Len(s) : i < j => s[i].offset < s[j].offset
  /\ \A p \in 2..e : IsKey(f, p) => \E i \in 1..Len(s) : s[i].offset = p

\* parse_footer: the index_count entries in front of the footer header.
FooterIndices(f) ==
  SubSeq(f, Len(f) - f[Len(f)].index_count, Len(f) - 1)

\* seek_to_time: std::upper_bound over the footer's entries, halving as the
\* library does: among the n entries behind the first lo.  Then one entry back.
UpperBound(s, t) ==
  LET search[n \in 0..Len(s)] ==
        [lo \in 0..(Len(s) - n) |->
           IF n = 0 THEN lo
           ELSE LET half == n \div 2 IN
                IF t < s[lo + half + 1].timestamp THEN search[half][lo]
                ELSE search[n - half - 1][lo + half + 1]]
  IN  search[Len(s)][0]

SeekPast(s, t) ==
  LET it == UpperBound(s, t) IN s[IF it = Len(s) THEN it ELSE it + 1].offset

SeekOffset(s, t) ==
  LET it == UpperBound(s, t) IN s[IF it = 0 THEN 1 ELSE it].offset

-----------------------------------------------------------------------------
(* State of the builder and of the calls. *)

EmptyContext == [start |-> 0, end |-> 0, count |-> 0, size |-> 0]

Closed == [file |-> NoFile, path |-> NoFile, ctx |-> EmptyContext,
           indices |-> <<>>, unflushed |-> 0]

Idle      == [pc |-> "idle"]
HeaderSize == 1

Indices == [kind : {"index"}, timestamp : Nat, offset : Nat]
Pieces  == {Header, Torn} \cup [kind : {"block"}, block : Blocks] \cup Indices
             \cup [kind : {"footer"}, index_count : Nat]
Contexts == [start : Nat, end : Nat, count : Nat, size : Nat]

\* The calls of the builder: none, write_block, and close_current_segment (also
\* of a segment that could not be begun).
Calls ==
  {Idle}
    \cup [pc : {"create", "header", "header_sync", "append", "sync", "footer",
                "close"}, then : {"create"}, block : Blocks, written : Nat]
    \cup [pc : {"footer", "close"}, then : {"idle"}, written : Nat]

Repairs ==
  {Idle} \cup [pc : {"truncate", "footer"}, file : Names, end : Nat,
               done : Nat, count : Nat]

DiskTyped ==
  /\ DOMAIN disk \subseteq Names
  /\ disk \in [DOMAIN disk -> Seq(Pieces)]
  /\ durable \in [DOMAIN disk -> Nat]
  /\ \A n \in DOMAIN disk : durable[n] <= Len(disk[n])
  /\ acked \subseteq [file : Names, at : Nat, block : Blocks]

BuilderTyped ==
  /\ builder \in [file : Names \cup {NoFile}, path : Names \cup {NoFile},
                  ctx : Contexts, indices : Seq(Indices), unflushed : Nat]
  /\ builder.path \in {NoFile, builder.file}
  /\ call \in Calls
  /\ finished \subseteq [file : Names, count : Nat, indices : Seq(Indices)]

TypeOK ==
  /\ DiskTyped /\ BuilderTyped /\ repair \in Repairs
  /\ level \in SyncLevels
  /\ newest \in Nat /\ calls \in 0..MaxCalls /\ spent \in 0..MaxFaults

Init ==
  /\ disk = <<>> /\ durable = <<>> /\ acked = {} /\ finished = {}
  /\ builder = Closed /\ call = Idle /\ repair = Idle
  /\ level \in SyncLevels
  /\ newest = 0 /\ calls = 0 /\ spent = 0

-----------------------------------------------------------------------------
(* What a write and a sync do, and how they fail. *)

\* The file n has the piece x appended to it.
Append1(n, x) == disk' = [disk EXCEPT ![n] = Append(@, x)]

\* Something goes wrong: one fault of the kind f is spent.
Fault(f) == f \in Faults /\ spent < MaxFaults /\ spent' = spent + 1
NoFault  == UNCHANGED spent

\* write() put nothing down, or only a part of what it was given.
WriteFails(n) ==
  /\ Fault("write_fails")
  /\ disk' = disk \/ Append1(n, Torn)

\* sync_to_disk: only the full level asks the system, and only it can fail.
SyncOk ==
  durable' = IF level = "full"
             THEN [durable EXCEPT ![builder.file] = Len(disk[builder.file])]
             ELSE durable

SyncFails(f) == level = "full" /\ Fault(f) /\ UNCHANGED durable

-----------------------------------------------------------------------------
(* SegmentBuilder. *)

\* should_finish_segment for the context as it would be with the block.
ShouldFinish(ctx, b) ==
  \/ b.end - ctx.start >= MaxDuration
  \/ ctx.size + b.size >= MaxSize

\* Where a write_block goes first: to a new file, to the footer of the current
\* one when the block does not belong there any more, or straight to the block.
FirstStep(b) ==
  IF builder.file = NoFile THEN "create"
  ELSE IF ShouldFinish(builder.ctx, b) THEN "footer" ELSE "append"

WriteBlock(b) ==
  /\ call.pc = "idle" /\ calls < MaxCalls
  /\ b.start >= newest \/ "clock_back" \in Faults
  /\ calls' = calls + 1
  /\ newest' = IF b.start > newest THEN b.start ELSE newest
  /\ call' = [pc |-> FirstStep(b), then |-> "create", block |-> b, written |-> 0]
  /\ UNCHANGED <<files, acked, builder, finished, repair, level, spent>>

\* close_current_segment, called by the owner or by the destructor.
CloseCurrentSegment ==
  /\ call.pc = "idle" /\ builder.file # NoFile
  /\ call' = [pc |-> "footer", then |-> "idle", written |-> 0]
  /\ UNCHANGED <<files, acked, builder, finished, repair, level, newest,
                 calls, spent>>

FlushPending ==
  /\ call.pc = "idle" /\ builder.unflushed > 0
  /\ \/ SyncOk /\ builder' = [builder EXCEPT !.unflushed = 0] /\ NoFault
     \/ SyncFails("sync_fails") /\ UNCHANGED builder
  /\ UNCHANGED <<disk, acked, call, finished, repair, level, newest, calls>>

NewNameTaken(ts, q) == q = 0      \* whether the name is taken or not

\* create_new_segment: the first name that is free, or the last one even if it
\* is not.
NewName(ts, q) ==
  /\ \A r \in 0..(q - 1) : SegmentName(ts, r) \in DOMAIN disk
  /\ SegmentName(ts, q) \notin DOMAIN disk \/ q = LastSequence

\* The file of that name, opened kWriteTruncate.
Truncated(f, name, x) ==
  [n \in DOMAIN disk \cup {name} |-> IF n = name THEN x ELSE f[n]]

OpenSegment ==
  /\ call.pc = "create"
  /\ \/ \E q \in 0..LastSequence :
          /\ NewName(call.block.start, q)
          /\ LET name == SegmentName(call.block.start, q) IN
             /\ disk' = Truncated(disk, name, <<>>)
             /\ durable' = Truncated(durable, name, 0)
             /\ builder' = [builder EXCEPT !.file = name]
          /\ call' = [call EXCEPT !.pc = "header"]
          /\ NoFault
     \/ /\ Fault("write_fails")
        /\ call' = Idle
        /\ UNCHANGED <<files, builder>>
  /\ UNCHANGED <<acked, finished, repair, level, newest, calls>>

\* A segment that cannot be begun is closed at once, with a footer.
GiveUp == call' = [pc |-> "footer", then |-> "idle", written |-> 0]

WriteSegmentHeader ==
  /\ call.pc = "header"
  /\ \/ /\ Append1(builder.file, Header) /\ NoFault
        /\ call' = [call EXCEPT !.pc = "header_sync"]
     \/ WriteFails(builder.file) /\ GiveUp
  /\ UNCHANGED <<durable, acked, builder, finished, repair, level, newest, calls>>

SyncHeader ==
  /\ call.pc = "header_sync"
  /\ \/ /\ SyncOk /\ NoFault
        /\ builder' = [builder EXCEPT
                         !.path = builder.file, !.indices = <<>>,
                         !.ctx = [start |-> call.block.start,
                                  end |-> call.block.start,
                                  count |-> 0, size |-> HeaderSize]]
        /\ call' = [call EXCEPT !.pc = "append"]
     \/ SyncFails("sync_fails") /\ GiveUp /\ UNCHANGED builder
  /\ UNCHANGED <<disk, acked, finished, repair, level, newest, calls>>

\* write_block returns success for the block it has just appended.
Place(n, p, b) == [file |-> n, at |-> p, block |-> b]

BlockOffset(n) == Len(disk[n]) + 1

\* With this block there are sync_blocks unsynced ones.
SyncDueLate == builder.unflushed >= SyncBlocks
SyncDue == builder.unflushed + 1 >= SyncBlocks

\* The block goes to the file; a short write counts as a whole one.  The
\* context, the index and the count of unsynced blocks follow, and the call
\* returns unless a sync is due.
AppendBlock ==
  /\ call.pc = "append"
  /\ LET b   == call.block
         n   == builder.file
         at  == BlockOffset(n)
     IN  \/ /\ \/ Append1(n, BlockPiece(b)) /\ NoFault
               \/ Fault("short_write") /\ Append1(n, Torn)
            /\ builder' = [builder EXCEPT
                 !.ctx = [start |-> @.start, end |-> b.end,
                          count |-> @.count + 1, size |-> @.size + b.size],
                 !.indices = IF b.key THEN Append(@, IndexEntry(b, at)) ELSE @,
                 !.unflushed = @ + 1]
            /\ call' = IF SyncDue THEN [call EXCEPT !.pc = "sync"] ELSE Idle
            /\ acked' = IF SyncDue THEN acked ELSE acked \cup {Place(n, at, b)}
         \/ /\ Fault("write_fails")
            /\ call' = Idle
            /\ UNCHANGED <<disk, builder, acked>>
  /\ UNCHANGED <<durable, finished, repair, level, newest, calls>>

\* The sync that is due.  When it fails the call reports an error, although
\* the block is in the file and in the index.
SyncBatch ==
  /\ call.pc = "sync"
  /\ LET n == builder.file IN
     \/ /\ SyncOk /\ NoFault
        /\ builder' = [builder EXCEPT !.unflushed = 0]
        /\ acked' = acked \cup {Place(n, Len(disk[n]), call.block)}
     \/ SyncFails("sync_fails") /\ UNCHANGED <<builder, acked>>
  /\ call' = Idle
  /\ UNCHANGED <<disk, finished, repair, level, newest, calls>>

\* write_segment_footer, one write after the other.  Its failure is ignored.
WriteSegmentFooter ==
  /\ call.pc = "footer"
  /\ LET n == builder.file IN
     \/ /\ call.written < Len(builder.indices)
        /\ Append1(n, builder.indices[call.written + 1]) /\ NoFault
        /\ call' = [call EXCEPT !.written = @ + 1]
     \/ /\ call.written = Len(builder.indices)
        /\ Append1(n, Footer(Len(builder.indices))) /\ NoFault
        /\ call' = [call EXCEPT !.pc = "close"]
     \/ WriteFails(n) /\ call' = [call EXCEPT !.pc = "close"]
  /\ UNCHANGED <<durable, acked, builder, finished, repair, level, newest, calls>>

\* The rest of close_current_segment: the last sync, whose error nobody sees,
\* on_segment_finished for a segment that had begun, and the reset.
FinishSegment ==
  /\ call.pc = "close"
  /\ \/ SyncOk /\ NoFault
     \/ SyncFails("close_sync_fails")
  /\ finished' = IF builder.path = NoFile THEN finished
                 ELSE finished \cup {[file    |-> builder.path,
                                      count   |-> builder.ctx.count,
                                      indices |-> builder.indices]}
  /\ builder' = Closed
  /\ call' = IF call.then = "idle" THEN Idle ELSE [call EXCEPT !.pc = call.then]
  /\ UNCHANGED <<disk, acked, repair, level, newest, calls>>

BuilderStep ==
  \/ OpenSegment \/ WriteSegmentHeader \/ SyncHeader \/ AppendBlock
  \/ SyncBatch \/ WriteSegmentFooter \/ FinishSegment

-----------------------------------------------------------------------------
(* SegmentRepairer, run by a recovery over the files nobody writes. *)

\* repair_segment up to its first write: no footer, a readable header and at
\* least one block.  In every other case it changes nothing.
RepairSegment(n) ==
  /\ repair.pc = "idle" /\ n # builder.file
  /\ ~ HasFooter(disk[n])
  /\ \E e \in 2..Len(disk[n]) :
       /\ Scanned(disk[n], e)
       /\ repair' = [pc |-> "truncate", file |-> n, end |-> e,
                     done |-> 1, count |-> 0]
  /\ UNCHANGED <<files, acked, builder, call, finished, level, newest, calls,
                 spent>>

\* What lies behind the last block stays.
KeepTail ==
  /\ repair.pc = "truncate"
  /\ repair' = [repair EXCEPT !.pc = "footer"] /\ NoFault
  /\ UNCHANGED <<files, acked, builder, call, finished, level, newest, calls>>

\* Everything behind the last whole block is cut off.
TruncateFile ==
  /\ repair.pc = "truncate"
  /\ \/ /\ disk' = [disk EXCEPT ![repair.file] = SubSeq(@, 1, repair.end)]
        /\ durable' = [durable EXCEPT ![repair.file] =
                         IF @ > repair.end THEN repair.end ELSE @]
        /\ repair' = [repair EXCEPT !.pc = "footer"]
        /\ NoFault
     \/ Fault("write_fails") /\ repair' = Idle /\ UNCHANGED files
  /\ UNCHANGED <<acked, builder, call, finished, level, newest, calls>>

\* write_footer_at: the index entries of the scanned blocks, one write after
\* the other, and a footer header with their number.
NextKey(f, p) ==
  /\ p \in (repair.done + 1)..repair.end /\ IsKey(f, p)
  /\ \A q \in (repair.done + 1)..(p - 1) : ~ IsKey(f, q)

WriteFooterAt ==
  /\ repair.pc = "footer"
  /\ LET f == disk[repair.file] IN
     \/ \E p \in 2..Len(f) :
          /\ NextKey(f, p)
          /\ Append1(repair.file, IndexEntry(f[p].block, p)) /\ NoFault
          /\ repair' = [repair EXCEPT !.done = p, !.count = @ + 1]
     \/ /\ \A p \in (repair.done + 1)..repair.end : ~ IsKey(f, p)
        /\ Append1(repair.file, Footer(repair.count)) /\ NoFault
        /\ repair' = Idle
     \/ WriteFails(repair.file) /\ repair' = Idle
  /\ UNCHANGED <<durable, acked, builder, call, finished, level, newest, calls>>

RepairStep ==
  (\E n \in DOMAIN disk : RepairSegment(n)) \/ TruncateFile \/ WriteFooterAt

-----------------------------------------------------------------------------
(* The process is killed, or the machine loses its power. *)

\* A write that was under way may be cut short.
HalfWritten ==
  \/ disk' = disk
  \/ call.pc \in {"header", "append", "footer"} /\ Append1(builder.file, Torn)
  \/ repair.pc = "footer" /\ Append1(repair.file, Torn)

Stopped == builder' = Closed /\ call' = Idle /\ repair' = Idle

Crash ==
  /\ Fault("crash")
  /\ HalfWritten
  /\ Stopped
  /\ UNCHANGED <<durable, acked, finished, level, newest, calls>>

\* Every file keeps what was synced and any part of the rest, perhaps with a
\* torn end; what was not kept is no longer promised.
Kept(n, lost) ==
  IF Len(disk[n]) < durable[n] + lost THEN durable[n] ELSE Len(disk[n]) - lost

PowerLoss ==
  /\ Fault("power_loss")
  /\ \E lost \in [DOMAIN disk -> 0..MaxLoss], torn \in BOOLEAN :
       /\ disk' = [n \in DOMAIN disk |->
                     LET k == Kept(n, lost[n])
                         f == SubSeq(disk[n], 1, k)
                     IN  IF torn /\ k < Len(disk[n]) THEN Append(f, Torn) ELSE f]
       /\ acked' = {a \in acked : a.at <= Kept(a.file, lost[a.file])}
  /\ durable' = [n \in DOMAIN disk |-> Len(disk'[n])]
  /\ Stopped
  /\ UNCHANGED <<finished, level, newest, calls>>

-----------------------------------------------------------------------------
Next ==
  \/ \E b \in Blocks : WriteBlock(b)
  \/ CloseCurrentSegment \/ FlushPending
  \/ BuilderStep \/ RepairStep
  \/ Crash \/ PowerLoss

Spec == Init /\ [][Next]_vars

-----------------------------------------------------------------------------
(* Properties. *)

\* A block for which write_block returned success stays where it was put, with
\* nothing but whole blocks in front of it: neither a later write, nor another
\* segment, nor a repair that truncates the file takes it away or hides it from
\* the scan.  A power loss may take what no sync had covered.
BlocksSurvive ==
  \A a \in acked :
    /\ a.file \in DOMAIN disk
    /\ a.at \in 2..Len(disk[a.file])
    /\ disk[a.file][1] = Header
    /\ disk[a.file][a.at] = BlockPiece(a.block)
    /\ \A p \in 2..a.at : disk[a.file][p].kind = "block"

\* With full syncing, a power loss takes fewer than sync_blocks of the blocks
\* of a segment that were reported written, whatever failed before; and none
\* of a segment reported finished.
LossBounded ==
  level = "full" =>
    /\ \A n \in DOMAIN disk :
         Cardinality({a \in acked : a.file = n /\ a.at > durable[n]}) < SyncBlocks
    /\ \A r \in finished, a \in acked : a.file = r.file => a.at <= durable[a.file]

\* A file that has its header and a footer consists of its blocks and of the
\* index of exactly its keyframe blocks, each with its time and its place:
\* whether the builder wrote the footer or a repair did, and however often the
\* writing of one was cut short before.
FooterTellsTruth ==
  \A n \in DOMAIN disk :
    LET f == disk[n] IN
    HasFooter(f) /\ f[1] = Header =>
      \E e \in 1..Len(f) :
        /\ Scanned(f, e)
        /\ Len(f) = e + f[Len(f)].index_count + 1
        /\ Indexes(FooterIndices(f), f, e)

\* The starts of blocks are compared nowhere, and the clock of the caller may
\* be set back between two of them: then the index does not ascend.
Keys(f) == {p \in 2..Len(f) : IsKey(f, p)}
StartAt(f, p) == f[p].block.start
Ascends(f) == \A p, q \in Keys(f) : p < q => StartAt(f, p) <= StartAt(f, q)

\* t is in the group of frames that the keyframe block at p begins, or p is the
\* first and begins later.
Straddles(f, t, p) ==
  /\ p \in Keys(f)
  /\ IF StartAt(f, p) > t
     THEN \A q \in Keys(f) : p <= q
     ELSE \A q \in Keys(f) : q > p /\ StartAt(f, q) <= t => \E r \in Keys(f) : p < r /\ r < q

\* No keyframe block that starts early enough is nearer to t than that at p.
Nearest(f, t, p) ==
  \A q \in Keys(f) : StartAt(f, q) <= t => StartAt(f, q) <= StartAt(f, p) /\ StartAt(f, p) <= t

\* "finds the block before target_time that is nearest" (segment_reader.cpp:220):
\* whatever the clock did, what seek_to_time finds starts no later than the time
\* asked for and the keyframe block behind it later; where the starts of the
\* file ascend that is the nearest of all.
SeekFindsNearest ==
  \A n \in DOMAIN disk :
    LET f == disk[n] IN
    HasFooter(f) /\ f[1] = Header =>
      \A i \in 1..f[Len(f)].index_count, d \in {0, 1} :
        LET t     == FooterIndices(f)[i].timestamp - d
            found == SeekOffset(FooterIndices(f), t)
        IN  Straddles(f, t, found) /\ (Ascends(f) => Nearest(f, t, found))
=============================================================================
