---------------------------- MODULE SegmentReader ----------------------------
(***************************************************************************)
(* SegmentReader of nxcore/record: one reader over the files of             *)
(* SegmentStore, while builders write them.  A block has entries here.      *)
(*                                                                         *)
(* A place is <<p, k>>: in front of the piece p of the file when k is 0,    *)
(* and inside the block p in front of its k-th entry, or of its end magic   *)
(* behind the last.  Every call of the program is one step.                 *)
(***************************************************************************)
EXTENDS SegmentStore, SequencesExt

CONSTANTS MaxOpens, MaxSeeks   \* bounds: how often the owner opens and seeks

VARIABLES
  reader,   \* the members of the SegmentReader
  taken,    \* where the entries were that were read since it was opened or sought
  said,     \* the error of the last read_next_entry, "none" if it gave an entry
  uses      \* how often it was opened, and sought

readerVars == <<reader, taken, said, uses>>

\* m_file, its position, m_need_new_block, the footer's index and where the
\* owner last set the position.
NoReader == [file |-> NoFile, at |-> <<0, 0>>, need |-> TRUE, loaded |-> FALSE,
             indices |-> <<>>, from |-> 0]

InitReader ==
  reader = NoReader /\ taken = <<>> /\ said = "none" /\ uses = [opens |-> 0, seeks |-> 0]

Read == disk[reader.file]
IsBlockAt(f, p) == p <= Len(f) /\ f[p].kind = "block"

-----------------------------------------------------------------------------
\* open(): a file without a whole header is refused.  The index is loaded when
\* there is a footer, and the position put back behind the header.
OpenReader(n) ==
  /\ uses.opens < MaxOpens /\ uses' = [uses EXCEPT !.opens = @ + 1]
  /\ LET f == disk[n] IN
     IF f # <<>> /\ f[1] = Header
     THEN reader' = [NoReader EXCEPT
            !.file = n, !.at = <<2, 0>>, !.from = 2, !.loaded = HasFooter(f),
            !.indices = IF HasFooter(f) THEN FooterIndices(f) ELSE <<>>]
     ELSE reader' = NoReader
  /\ taken' = <<>> /\ said' = "none"

CloseReader ==
  /\ reader.file # NoFile
  /\ reader' = NoReader /\ taken' = <<>> /\ said' = "none"
  /\ UNCHANGED uses

\* seek_to_offset inside a block that is being read, taken for a place in it.
KeepsBlock  == reader.need
NeedsHeader == TRUE

SeekToOffset(p) ==
  /\ reader' = [reader EXCEPT !.at = <<p, 0>>, !.need = NeedsHeader, !.from = p]
  /\ taken' = <<>> /\ said' = "none"

\* seek_to_time needs an index that was loaded when the file was opened.
SeekToTime(t) ==
  /\ reader.file # NoFile
  /\ reader.loaded /\ reader.indices # <<>>
  /\ uses.seeks < MaxSeeks /\ uses' = [uses EXCEPT !.seeks = @ + 1]
  /\ SeekToOffset(SeekOffset(reader.indices, t))

-----------------------------------------------------------------------------
(* read_next_entry *)

\* Where the next entry is looked for: in the block at the position, in the
\* block that is being read, or in the next one when the position is at the end
\* magic of that.
NextPlace ==
  LET p == reader.at[1] IN
  IF reader.need THEN <<p, 1>>
  ELSE IF reader.at[2] > Len(Read[p].block.entries) THEN <<p + 1, 1>>
  ELSE reader.at

\* read_entry_from_block.
ReadEntry(place) ==
  /\ IsBlockAt(Read, place[1])
  /\ taken' = Append(taken, place) /\ said' = "none"
  /\ reader' = [reader EXCEPT !.at = <<place[1], place[2] + 1>>, !.need = FALSE]

\* Reading where no structure begins gives an error, and so does every later
\* read until the position is set again.
Astray == <<Len(Read) + 1, 0>>
Fails(error, at) ==
  /\ said' = error /\ UNCHANGED taken
  /\ reader' = [reader EXCEPT !.at = at, !.need = TRUE]

\* read_block_header at the end of what is written: nothing is consumed, and a
\* later call finds what has been written since.
ReadEnd(p) == p > Len(Read) /\ Fails("kUnexpectedEof", <<p, 0>>)

\* read_block_header behind the last block.  One index entry or a footer header
\* alone is shorter than a block header, so that the file seems to be cut off.
ReadFooter(p) ==
  /\ p <= Len(Read) /\ Read[p].kind \in {"index", "footer"}
  /\ Fails(IF p < Len(Read) THEN "kEndOfSegment" ELSE "kUnexpectedEof", Astray)

\* A block that was cut off by a crash: its header and its first entry may be
\* whole, or it ends before.
ReadTorn(p) ==
  /\ p <= Len(Read) /\ Read[p] = Torn
  /\ \/ Fails("kUnexpectedEof", Astray)
     \/ /\ taken' = Append(taken, <<p, 1>>) /\ said' = "none"
        /\ reader' = [reader EXCEPT !.at = Astray, !.need = TRUE]

ReadNextEntry ==
  /\ reader.file # NoFile /\ UNCHANGED uses
  /\ LET place == NextPlace IN
     \/ ReadEntry(place)
     \/ ReadEnd(place[1]) \/ ReadFooter(place[1]) \/ ReadTorn(place[1])

-----------------------------------------------------------------------------
\* The entries of the block p of the file f, and of the blocks from p on, in the
\* order of the file: those in front of q, and all up to the first other piece.
EntriesAt(f, p)         == [k \in 1..Len(f[p].block.entries) |-> <<p, k>>]
EntriesBetween(f, p, q) == FlattenSeq([i \in 1..(q - p) |-> EntriesAt(f, p + i - 1)])
BlocksEnd(f, p) ==
  CHOOSE q \in p..(Len(f) + 1) : ~ IsBlockAt(f, q) /\ \A r \in p..(q - 1) : IsBlockAt(f, r)
PlacesFrom(f, p) == EntriesBetween(f, p, BlocksEnd(f, p))

\* What a reader gets are the entries of the file from the place it was set to,
\* each once and in their order, none left out, also of a file that is being
\* written while it reads; one more may come out of a block that was cut off.
\* Then, or when it is told that the segment ends here, it has had them all.
ReaderMissesNothing ==
  reader.file # NoFile =>
    LET all   == PlacesFrom(Read, reader.from)
        torn  == taken # <<>> /\ ~ IsBlockAt(Read, taken[Len(taken)][1])
        whole == IF torn THEN Front(taken) ELSE taken
    IN  /\ IsPrefix(whole, all)
        /\ torn \/ said = "kEndOfSegment" => whole = all
=============================================================================
