------------------------- MODULE SegmentStore_proofs -------------------------
(***************************************************************************)
(* Proofs about SegmentStore: what was reported written survives crashes,  *)
(* power losses and repairs, and what a power loss may take is bounded,    *)
(* for any blocks, any limits and any number of faults.                    *)
(***************************************************************************)
EXTENDS SegmentStore, FiniteSetTheorems, FunctionTheorems,
        SequenceTheorems, TLAPS

(***************************************************************************)
(* The hypotheses: write() puts down all of a block or none of it, there   *)
(* is a name for every file the calls can make, and the sync of a segment  *)
(* that is closed does not fail.                                           *)
(***************************************************************************)
WholeWrites  == "short_write" \notin Faults
NamesSuffice == MaxCalls <= LastSequence + 1
CloseSyncs   == "close_sync_fails" \notin Faults

(***************************************************************************)
(* Pieces, calls and files.                                                *)
(***************************************************************************)
LEMMA PieceTypes ==
  /\ Header \in Pieces /\ Torn \in Pieces
  /\ \A b \in Blocks : BlockPiece(b) \in Pieces
  /\ \A b \in Blocks, p \in Nat : IndexEntry(b, p) \in Indices
  /\ \A i \in Indices : i \in Pieces
  /\ \A n \in Nat : Footer(n) \in Pieces
BY SegmentAssumption DEF Pieces, Indices, BlockPiece, IndexEntry, Footer

\* The three kinds of Calls.
WriteCalls == [pc : {"create", "header", "header_sync", "append", "sync",
                     "footer", "close"},
               then : {"create"}, block : Blocks, written : Nat]
CloseCalls == [pc : {"footer", "close"}, then : {"idle"}, written : Nat]

LEMMA CallKinds == Calls = {Idle} \cup WriteCalls \cup CloseCalls
BY DEF Calls, WriteCalls, CloseCalls

LEMMA CallFields ==
  ASSUME call \in Calls
  PROVE  /\ call = Idle \/ call \in WriteCalls \/ call \in CloseCalls
         /\ call.pc = "idle" <=> call = Idle
         /\ call.pc \in {"create", "header", "header_sync", "append", "sync"} =>
              call \in WriteCalls
         /\ call.pc \in {"footer", "close"} =>
              /\ call.written \in Nat
              /\ call.then \in {"create", "idle"}
              /\ call.then = "create" => call \in WriteCalls
              /\ call.then = "idle" => call \in CloseCalls
<1>1. call = Idle \/ call \in WriteCalls \/ call \in CloseCalls
  BY CallKinds
<1>2. CASE call = Idle
  BY <1>2 DEF Idle
<1>3. CASE call \in WriteCalls
  <2>1. /\ call.pc \in {"create", "header", "header_sync", "append", "sync",
                        "footer", "close"}
        /\ call.then = "create" /\ call.written \in Nat
    BY <1>3 DEF WriteCalls
  <2>2. Idle.pc = "idle"
    BY DEF Idle
  <2> QED
    BY <1>1, <1>3, <2>1, <2>2
<1>4. CASE call \in CloseCalls
  <2>1. /\ call.pc \in {"footer", "close"}
        /\ call.then = "idle" /\ call.written \in Nat
    BY <1>4 DEF CloseCalls
  <2>2. Idle.pc = "idle"
    BY DEF Idle
  <2> QED
    BY <1>1, <1>4, <2>1, <2>2
<1> QED
  BY <1>1, <1>2, <1>3, <1>4

\* The calls an action leaves behind.
At(c, x)     == [c EXCEPT !.pc = x]
OneMore(c)   == [c EXCEPT !.written = @ + 1]
CloseOnly    == [pc |-> "footer", then |-> "idle", written |-> 0]

LEMMA WriteMoves ==
  /\ \A c \in WriteCalls, x \in {"create", "header", "header_sync", "append",
                                "sync", "footer", "close"} :
       /\ At(c, x) \in WriteCalls /\ At(c, x).pc = x
       /\ At(c, x).block = c.block /\ At(c, x).then = c.then
  /\ \A c \in WriteCalls : OneMore(c) \in WriteCalls /\ OneMore(c).pc = c.pc
                                                    /\ OneMore(c).then = c.then
  /\ \A c \in WriteCalls : c.block \in Blocks /\ c.written \in Nat /\ c.then = "create"
<1>1. \A c \in WriteCalls, x \in {"create", "header", "header_sync", "append",
                                "sync", "footer", "close"} :
       /\ At(c, x) \in WriteCalls /\ At(c, x).pc = x
       /\ At(c, x).block = c.block /\ At(c, x).then = c.then
  BY DEF WriteCalls, At
<1>2. \A c \in WriteCalls : c.block \in Blocks /\ c.written \in Nat /\ c.then = "create"
  BY DEF WriteCalls
<1>3. \A c \in WriteCalls : OneMore(c) \in WriteCalls /\ OneMore(c).pc = c.pc
                                                    /\ OneMore(c).then = c.then
  <2> TAKE c \in WriteCalls
  <2>1. c.written + 1 \in Nat
    BY <1>2
  <2> QED
    BY <2>1 DEF WriteCalls, OneMore
<1> QED
  BY <1>1, <1>2, <1>3

LEMMA CloseMoves ==
  /\ \A c \in CloseCalls, x \in {"footer", "close"} :
       At(c, x) \in CloseCalls /\ At(c, x).pc = x /\ At(c, x).then = c.then
  /\ \A c \in CloseCalls : OneMore(c) \in CloseCalls /\ OneMore(c).pc = c.pc
                                                    /\ OneMore(c).then = c.then
  /\ \A c \in CloseCalls : c.written \in Nat /\ c.then = "idle"
  /\ CloseOnly \in CloseCalls /\ CloseOnly.pc = "footer" /\ CloseOnly.then = "idle"
BY DEF CloseCalls, At, OneMore, CloseOnly

LEMMA FreshCall ==
  ASSUME NEW b \in Blocks, NEW x \in {"create", "footer", "append"}
  PROVE  [pc |-> x, then |-> "create", block |-> b, written |-> 0] \in WriteCalls
BY DEF WriteCalls

\* Every file has at least what it had, in the same places.
Grown ==
  /\ DOMAIN disk \subseteq DOMAIN disk'
  /\ \A n \in DOMAIN disk :
       /\ Len(disk[n]) <= Len(disk'[n])
       /\ \A p \in 1..Len(disk[n]) : disk'[n][p] = disk[n][p]

LEMMA AppendOne ==
  ASSUME DiskTyped, NEW n \in DOMAIN disk, NEW x \in Pieces, Append1(n, x)
  PROVE  /\ disk' \in [DOMAIN disk -> Seq(Pieces)]
         /\ DOMAIN disk' = DOMAIN disk
         /\ \A m \in DOMAIN disk : m # n => disk'[m] = disk[m]
         /\ disk'[n] = Append(disk[n], x)
         /\ Len(disk[n]) \in Nat
         /\ Len(disk'[n]) = Len(disk[n]) + 1
         /\ disk'[n][Len(disk[n]) + 1] = x
         /\ \A p \in 1..Len(disk[n]) : disk'[n][p] = disk[n][p]
         /\ Grown
BY DEF DiskTyped, Append1, Grown

LEMMA AppendTyped ==
  ASSUME DiskTyped, NEW n \in DOMAIN disk, NEW x \in Pieces, Append1(n, x),
         durable' = durable, acked' \subseteq [file : Names, at : Nat, block : Blocks]
  PROVE  DiskTyped'
<1>1. \A m \in DOMAIN disk : Len(disk'[m]) \in Nat /\ Len(disk[m]) \in Nat
                             /\ Len(disk[m]) <= Len(disk'[m])
  <2> SUFFICES ASSUME NEW m \in DOMAIN disk
               PROVE  Len(disk'[m]) \in Nat /\ Len(disk[m]) \in Nat
                      /\ Len(disk[m]) <= Len(disk'[m])
    OBVIOUS
  <2>1. Len(disk[m]) \in Nat
    BY DEF DiskTyped
  <2>2. CASE m = n
    BY <2>1, <2>2, AppendOne
  <2>3. CASE m # n
    <3>1. disk'[m] = disk[m]
      BY <2>3, AppendOne
    <3> QED
      BY <2>1, <3>1
  <2> QED
    BY <2>2, <2>3
<1>2. /\ disk' \in [DOMAIN disk' -> Seq(Pieces)] /\ DOMAIN disk' = DOMAIN disk
  BY AppendOne
<1>3. \A m \in DOMAIN disk : durable[m] \in Nat /\ durable[m] <= Len(disk[m])
  BY DEF DiskTyped
<1>4. \A m \in DOMAIN disk : durable[m] <= Len(disk'[m])
  BY <1>1, <1>3
<1> QED
  BY <1>2, <1>4 DEF DiskTyped

LEMMA SameGrown == DiskTyped /\ UNCHANGED disk => Grown
BY DEF DiskTyped, Grown

LEMMA FileGrows ==
  ASSUME DiskTyped, NEW n \in DOMAIN disk,
         disk' = disk \/ \E x \in Pieces : Append1(n, x),
         durable' = durable, acked' \subseteq [file : Names, at : Nat, block : Blocks]
  PROVE  /\ DiskTyped' /\ Grown
         /\ DOMAIN disk' = DOMAIN disk
<1>1. CASE disk' = disk
  BY <1>1, SameGrown DEF DiskTyped
<1>2. ASSUME NEW x \in Pieces, Append1(n, x)
      PROVE  DiskTyped' /\ Grown /\ DOMAIN disk' = DOMAIN disk
  BY <1>2, AppendOne, AppendTyped
<1> QED
  BY <1>1, <1>2

LEMMA SyncTyped ==
  ASSUME DiskTyped, builder.file \in DOMAIN disk, SyncOk \/ UNCHANGED durable,
         UNCHANGED disk, acked' \subseteq [file : Names, at : Nat, block : Blocks]
  PROVE  DiskTyped'
<1>1. \A n \in DOMAIN disk : Len(disk[n]) \in Nat
  BY DEF DiskTyped
<1>2. CASE durable' = durable
  BY <1>2 DEF DiskTyped
<1>3. CASE durable' = [durable EXCEPT ![builder.file] = Len(disk[builder.file])]
  <2>1. durable' \in [DOMAIN disk -> Nat]
    BY <1>1, <1>3 DEF DiskTyped
  <2>2. \A n \in DOMAIN disk : durable'[n] <= Len(disk[n])
    BY <1>1, <1>3 DEF DiskTyped
  <2> QED
    BY <2>1, <2>2 DEF DiskTyped
<1> QED
  BY <1>2, <1>3 DEF SyncOk

(***************************************************************************)
(* Types.  A call that writes has a file, and every file named exists.      *)
(***************************************************************************)
Places ==
  /\ builder.file # NoFile => builder.file \in DOMAIN disk
  /\ call.pc \in {"header", "header_sync", "append", "sync", "footer", "close"}
       => builder.file # NoFile
  /\ call.pc = "create" => builder.file = NoFile
  /\ builder.file = NoFile => builder.unflushed = 0
  /\ repair.pc # "idle" => repair.file \in DOMAIN disk
  /\ repair.pc = "truncate" => repair.end <= Len(disk[repair.file])

Typed == TypeOK /\ Places

\* No more files than blocks written: each call makes one at the most.
Creating ==
  \/ call.pc = "create"
  \/ call.pc \in {"footer", "close"} /\ call.then = "create"

Counted ==
  /\ IsFiniteSet(DOMAIN disk)
  /\ Cardinality(DOMAIN disk) + (IF Creating THEN 1 ELSE 0) <= calls

LEMMA CountedStays ==
  ASSUME Counted, DOMAIN disk' = DOMAIN disk, calls' = calls, Creating' => Creating,
         calls \in Nat
  PROVE  Counted'
<1>1. Cardinality(DOMAIN disk) \in Nat
  BY FS_CardinalityType DEF Counted
<1> QED
  BY <1>1 DEF Counted

LEMMA Numbers ==
  /\ \A b \in Blocks : b.start \in Nat /\ b.end \in Nat /\ b.size \in Nat
                       /\ b.key \in BOOLEAN
  /\ SecondLength \in Nat /\ SecondLength # 0
  /\ LastSequence \in Nat /\ SyncBlocks \in Nat /\ SyncBlocks # 0
  /\ MaxFaults \in Nat /\ MaxLoss \in Nat /\ MaxCalls \in Nat
  /\ NoFile \notin Names
BY SegmentAssumption DEF Names

LEMMA NameTyped ==
  ASSUME NEW ts \in Nat, NEW q \in 0..LastSequence
  PROVE  SegmentName(ts, q) \in Names
<1>1. ts \div SecondLength \in Nat
  BY Numbers
<1> QED
  BY <1>1 DEF SegmentName, Names

LEMMA SpentTyped ==
  ASSUME spent \in 0..MaxFaults
  PROVE  /\ NoFault => spent' \in 0..MaxFaults
         /\ \A f : Fault(f) => spent' \in 0..MaxFaults
BY Numbers DEF NoFault, Fault

LEMMA RepairTyped ==
  ASSUME repair \in Repairs
  PROVE  /\ Idle \in Repairs /\ Idle.pc = "idle"
         /\ repair.pc # "idle" =>
              /\ repair.pc \in {"truncate", "footer"}
              /\ repair.file \in Names /\ repair.end \in Nat
              /\ repair.done \in Nat /\ repair.count \in Nat
<1>1. Idle \in Repairs /\ Idle.pc = "idle"
  BY DEF Idle, Repairs
<1>2. CASE repair = Idle
  BY <1>1, <1>2
<1>3. CASE repair \in [pc : {"truncate", "footer"}, file : Names, end : Nat,
                     done : Nat, count : Nat]
  BY <1>1, <1>3
<1> QED
  BY <1>1, <1>2, <1>3 DEF Repairs

\* A repair cuts inside the file it read, also when that file has grown since.
LEMMA TruncatesWithin ==
  ASSUME Typed, Grown, DiskTyped', UNCHANGED repair, repair.pc = "truncate"
  PROVE  repair.end <= Len(disk'[repair.file])
<1>1. repair.file \in DOMAIN disk /\ repair.end <= Len(disk[repair.file])
      /\ repair.end \in Nat
  BY RepairTyped DEF Typed, TypeOK, Places
<1>2. Len(disk[repair.file]) \in Nat /\ Len(disk'[repair.file]) \in Nat
      /\ Len(disk[repair.file]) <= Len(disk'[repair.file])
  BY <1>1 DEF Typed, TypeOK, Grown, DiskTyped
<1> QED
  BY <1>1, <1>2

LEMMA InitTyped == Init => Typed
<1> SUFFICES ASSUME Init PROVE Typed
  OBVIOUS
<1>1. DiskTyped
  <2>1. DOMAIN disk = {}
    BY DEF Init
  <2>2. disk \in [{} -> Seq(Pieces)] /\ durable \in [{} -> Nat]
    BY DEF Init
  <2> QED
    BY <2>1, <2>2 DEF Init, DiskTyped
<1>2. BuilderTyped
  BY CallKinds DEF Init, BuilderTyped, Closed, EmptyContext, Contexts
<1>3. repair \in Repairs /\ call.pc = "idle" /\ repair.pc = "idle"
      /\ builder.file = NoFile /\ builder.unflushed = 0
  BY DEF Init, Repairs, Idle, Closed
<1> QED
  BY <1>1, <1>2, <1>3, Numbers DEF Init, Typed, TypeOK, Places

LEMMA StutterTyped == Typed /\ UNCHANGED vars => Typed'
BY DEF Typed, TypeOK, Places, DiskTyped, BuilderTyped, vars, files

LEMMA WriteBlockTyped ==
  ASSUME Typed, NEW b \in Blocks, WriteBlock(b)
  PROVE  Typed'
<1>1. DiskTyped'
  BY DEF Typed, TypeOK, WriteBlock, files, DiskTyped
<1>2. /\ call' \in WriteCalls /\ call'.pc = FirstStep(b)
      /\ FirstStep(b) \in {"create", "footer", "append"}
      /\ FirstStep(b) = "create" <=> builder.file = NoFile
  BY FreshCall DEF WriteBlock, FirstStep
<1>3. BuilderTyped'
  BY <1>2, CallKinds DEF Typed, TypeOK, WriteBlock, BuilderTyped
<1>4. newest' \in Nat
  BY Numbers DEF Typed, TypeOK, WriteBlock
<1>6. calls' \in 0..MaxCalls
  <2>1. calls \in 0..MaxCalls /\ calls < MaxCalls /\ calls' = calls + 1
    BY DEF Typed, TypeOK, WriteBlock
  <2> QED
    BY <2>1, Numbers
<1>5. Places'
  BY <1>2 DEF Typed, Places, WriteBlock, files
<1> QED
  BY <1>1, <1>3, <1>4, <1>5, <1>6 DEF Typed, TypeOK, WriteBlock

LEMMA CloseTyped ==
  ASSUME Typed, CloseCurrentSegment
  PROVE  Typed'
<1>1. DiskTyped'
  BY DEF Typed, TypeOK, CloseCurrentSegment, files, DiskTyped
<1>2. call' \in CloseCalls /\ call'.pc = "footer"
  BY CloseMoves DEF CloseCurrentSegment, CloseOnly
<1>3. BuilderTyped'
  BY <1>2, CallKinds DEF Typed, TypeOK, CloseCurrentSegment, BuilderTyped
<1>4. Places'
  BY <1>2 DEF Typed, Places, CloseCurrentSegment, files
<1> QED
  BY <1>1, <1>3, <1>4 DEF Typed, TypeOK, CloseCurrentSegment

\* A step with a file of the builder in hand: what the disk then holds is typed.
LEMMA FlushTyped ==
  ASSUME Typed, FlushPending
  PROVE  Typed'
<1>1. /\ builder \in [file : Names \cup {NoFile}, path : Names \cup {NoFile},
                     ctx : Contexts, indices : Seq(Indices), unflushed : Nat]
      /\ builder.file \in DOMAIN disk /\ DiskTyped
  <2>0. ~ (0 > 0)
    OBVIOUS
  <2>1. builder.unflushed > 0 /\ ~ (0 > 0)
    BY <2>0 DEF FlushPending
  <2>2. builder.unflushed # 0
    BY <2>1
  <2> QED
    BY <2>2 DEF Typed, TypeOK, BuilderTyped, Places
<1>2. /\ builder' = [builder EXCEPT !.unflushed = 0] \/ builder' = builder
      /\ SyncOk \/ UNCHANGED durable
      /\ UNCHANGED disk /\ UNCHANGED acked
  BY DEF FlushPending, SyncFails
<1>3. builder' \in [file : Names \cup {NoFile}, path : Names \cup {NoFile},
                    ctx : Contexts, indices : Seq(Indices), unflushed : Nat]
      /\ builder'.file = builder.file /\ builder'.path = builder.path
  BY <1>1, <1>2
<1>4. BuilderTyped'
  BY <1>3 DEF Typed, TypeOK, BuilderTyped, FlushPending
<1>5. DiskTyped'
  <2>1. acked' \subseteq [file : Names, at : Nat, block : Blocks]
    BY <1>1, <1>2 DEF DiskTyped
  <2> QED
    BY <1>1, <1>2, <2>1, SyncTyped
<1>6. Places'
  BY <1>1, <1>3, Numbers DEF Typed, Places, FlushPending, DiskTyped
<1>7. spent' \in 0..MaxFaults
  BY SpentTyped DEF Typed, TypeOK, FlushPending, SyncFails
<1> QED
  BY <1>4, <1>5, <1>6, <1>7 DEF Typed, TypeOK, FlushPending

\* With a name for every file there can be, create_new_segment finds a free one.
LEMMA NameIsFree ==
  ASSUME NamesSuffice, Counted, call.pc = "create", calls \in 0..MaxCalls,
         NEW ts \in Nat, NEW q \in 0..LastSequence, NewName(ts, q)
  PROVE  SegmentName(ts, q) \notin DOMAIN disk
<1>1. Cardinality(DOMAIN disk) \in Nat /\ Cardinality(DOMAIN disk) <= LastSequence
  <2>1. Cardinality(DOMAIN disk) \in Nat
    BY FS_CardinalityType DEF Counted
  <2>2. Cardinality(DOMAIN disk) + 1 <= calls
    BY DEF Counted, Creating
  <2>3. calls <= LastSequence + 1
    BY Numbers DEF NamesSuffice
  <2> QED
    BY <2>1, <2>2, <2>3, Numbers
<1> SUFFICES ASSUME SegmentName(ts, q) \in DOMAIN disk, q = LastSequence PROVE FALSE
  BY DEF NewName
<1> DEFINE Taken == {SegmentName(ts, r) : r \in 0..LastSequence}
           name  == [r \in 0..LastSequence |-> SegmentName(ts, r)]
<1>2. Taken \subseteq DOMAIN disk
  <2>1. \A r \in 0..LastSequence : r = LastSequence \/ r \in 0..(LastSequence - 1)
    BY Numbers
  <2> QED
    BY <2>1 DEF NewName
<1>3. ExistsBijection(0..LastSequence, Taken)
  <2>1. name \in [0..LastSequence -> Taken]
    OBVIOUS
  <2>2. \A t \in Taken : \E r \in 0..LastSequence : name[r] = t
    OBVIOUS
  <2>3. \A r, t \in 0..LastSequence : name[r] = name[t] => r = t
    BY DEF SegmentName
  <2>4. name \in Bijection(0..LastSequence, Taken)
    BY <2>1, <2>2, <2>3, Fun_IsBij
  <2> QED
    BY <2>4 DEF ExistsBijection
<1>4. IsFiniteSet(0..LastSequence) /\ Cardinality(0..LastSequence) = LastSequence + 1
  BY FS_Interval, Numbers
<1>5. Cardinality(Taken) = LastSequence + 1
  BY <1>3, <1>4, FS_Bijection
<1>6. Cardinality(Taken) <= Cardinality(DOMAIN disk)
  BY <1>2, FS_Subset DEF Counted
<1> QED
  BY <1>1, <1>5, <1>6, Numbers

LEMMA OpenTyped ==
  ASSUME Typed, Counted, NamesSuffice, OpenSegment
  PROVE  Typed'
<1>1. call \in WriteCalls /\ call.block \in Blocks /\ builder.file = NoFile
  BY CallFields, WriteMoves DEF Typed, TypeOK, BuilderTyped, OpenSegment, Places
<1>2. CASE Fault("write_fails") /\ call' = Idle /\ UNCHANGED <<files, builder>>
  <2>1. DiskTyped'
    BY <1>2 DEF Typed, TypeOK, OpenSegment, files, DiskTyped
  <2>2. BuilderTyped' /\ call'.pc = "idle"
    BY <1>2, CallKinds DEF Typed, TypeOK, OpenSegment, BuilderTyped, Idle
  <2>3. Places'
    BY <1>2, <2>2 DEF Typed, Places, OpenSegment, files
  <2>4. spent' \in 0..MaxFaults
    BY <1>2, SpentTyped DEF Typed, TypeOK
  <2> QED
    BY <2>1, <2>2, <2>3, <2>4 DEF Typed, TypeOK, OpenSegment
<1>3. ASSUME NEW name \in Names, name \notin DOMAIN disk,
             disk' = Truncated(disk, name, <<>>),
             durable' = Truncated(durable, name, 0),
             builder' = [builder EXCEPT !.file = name],
             call' = At(call, "header"), NoFault
      PROVE  Typed'
  <2>1. /\ DOMAIN disk' = DOMAIN disk \cup {name}
        /\ DOMAIN durable' = DOMAIN disk \cup {name}
        /\ \A n \in DOMAIN disk' :
             /\ n = name => disk'[n] = <<>> /\ durable'[n] = 0
             /\ n # name => n \in DOMAIN disk /\ disk'[n] = disk[n]
                                             /\ durable'[n] = durable[n]
    BY <1>3 DEF Truncated
  <2>2. \A n \in DOMAIN disk' : disk'[n] \in Seq(Pieces) /\ durable'[n] \in Nat
                                /\ durable'[n] <= Len(disk'[n])
    <3> TAKE n \in DOMAIN disk'
    <3>1. CASE n = name
      <4>1. disk'[n] = <<>> /\ durable'[n] = 0
        BY <2>1, <3>1
      <4>2. <<>> \in Seq(Pieces) /\ Len(<<>>) = 0
        OBVIOUS
      <4> QED
        BY <4>1, <4>2
    <3>2. CASE n # name
      BY <2>1, <3>2 DEF Typed, TypeOK, DiskTyped
    <3> QED
      BY <3>1, <3>2
  <2>3. disk' \in [DOMAIN disk' -> Seq(Pieces)] /\ durable' \in [DOMAIN disk' -> Nat]
    <3>1. disk' = [n \in DOMAIN disk' |-> disk'[n]]
      BY <1>3, <2>1 DEF Truncated
    <3>2. durable' = [n \in DOMAIN disk' |-> durable'[n]]
      BY <1>3, <2>1 DEF Truncated
    <3> QED
      BY <2>2, <3>1, <3>2
  <2>4. DiskTyped'
    BY <2>1, <2>2, <2>3 DEF Typed, TypeOK, DiskTyped, OpenSegment
  <2>5. call' \in WriteCalls /\ call'.pc = "header"
    BY <1>1, <1>3, WriteMoves
  <2>6. builder' \in [file : Names \cup {NoFile}, path : Names \cup {NoFile},
                      ctx : Contexts, indices : Seq(Indices), unflushed : Nat]
        /\ builder'.file = name /\ builder'.path = NoFile
    BY <1>1, <1>3 DEF Typed, TypeOK, BuilderTyped
  <2>7. BuilderTyped'
    BY <2>5, <2>6, CallKinds DEF Typed, TypeOK, BuilderTyped, OpenSegment
  <2>8. Places'
    BY <1>1, <1>3, <2>1, <2>5, <2>6, Numbers DEF Typed, Places, OpenSegment
  <2>9. spent' \in 0..MaxFaults
    BY <1>3, SpentTyped DEF Typed, TypeOK
  <2> QED
    BY <2>4, <2>7, <2>8, <2>9 DEF Typed, TypeOK, OpenSegment
<1>4. ASSUME NEW q \in 0..LastSequence, NewName(call.block.start, q)
      PROVE  /\ SegmentName(call.block.start, q) \in Names
             /\ SegmentName(call.block.start, q) \notin DOMAIN disk
  BY <1>1, <1>4, Numbers, NameTyped, NameIsFree DEF OpenSegment, Typed, TypeOK
<1> QED
  BY <1>2, <1>3, <1>4 DEF OpenSegment, At

LEMMA HeaderTyped ==
  ASSUME Typed, WriteSegmentHeader
  PROVE  Typed'
<1>1. /\ call \in WriteCalls /\ call.block \in Blocks /\ DiskTyped
      /\ builder.file # NoFile /\ builder.file \in DOMAIN disk
  BY CallFields, WriteMoves DEF Typed, TypeOK, BuilderTyped, WriteSegmentHeader, Places
<1>2. disk' = disk \/ \E x \in Pieces : Append1(builder.file, x)
  BY PieceTypes DEF WriteSegmentHeader, WriteFails
<1>3. DiskTyped' /\ Grown /\ DOMAIN disk' = DOMAIN disk
  BY <1>1, <1>2, FileGrows DEF WriteSegmentHeader, DiskTyped
<1>4. call' \in Calls /\ call'.pc \in {"header_sync", "footer"}
  <2>1. \/ call' = At(call, "header_sync")
        \/ call' = CloseOnly
    BY DEF WriteSegmentHeader, GiveUp, At, CloseOnly
  <2> QED
    BY <1>1, <2>1, WriteMoves, CloseMoves, CallKinds
<1>5. BuilderTyped'
  BY <1>4 DEF Typed, TypeOK, BuilderTyped, WriteSegmentHeader
<1>6. Places'
  BY <1>1, <1>3, <1>4, TruncatesWithin
     DEF Typed, Places, WriteSegmentHeader
<1>7. spent' \in 0..MaxFaults
  BY SpentTyped DEF Typed, TypeOK, WriteSegmentHeader, WriteFails
<1> QED
  BY <1>3, <1>5, <1>6, <1>7 DEF Typed, TypeOK, WriteSegmentHeader

LEMMA HeaderSyncTyped ==
  ASSUME Typed, SyncHeader
  PROVE  Typed'
<1>1. /\ call \in WriteCalls /\ call.block \in Blocks /\ DiskTyped
      /\ builder.file # NoFile /\ builder.file \in DOMAIN disk
      /\ builder \in [file : Names \cup {NoFile}, path : Names \cup {NoFile},
                     ctx : Contexts, indices : Seq(Indices), unflushed : Nat]
  BY CallFields, WriteMoves DEF Typed, TypeOK, BuilderTyped, SyncHeader, Places
<1>2. DiskTyped'
  <2>1. SyncOk \/ UNCHANGED durable
    BY DEF SyncHeader, SyncFails
  <2>2. UNCHANGED disk /\ acked' \subseteq [file : Names, at : Nat, block : Blocks]
    BY <1>1 DEF SyncHeader, DiskTyped
  <2> QED
    BY <1>1, <2>1, <2>2, SyncTyped
<1>3. call' \in Calls /\ call'.pc \in {"append", "footer"}
  <2>1. \/ call' = At(call, "append")
        \/ call' = CloseOnly
    BY DEF SyncHeader, GiveUp, At, CloseOnly
  <2> QED
    BY <1>1, <2>1, WriteMoves, CloseMoves, CallKinds
<1>4. /\ builder' \in [file : Names \cup {NoFile}, path : Names \cup {NoFile},
                      ctx : Contexts, indices : Seq(Indices), unflushed : Nat]
      /\ builder'.file = builder.file /\ builder'.path \in {builder.path, builder.file}
  <2>1. [start |-> call.block.start, end |-> call.block.start,
         count |-> 0, size |-> HeaderSize] \in Contexts
    BY <1>1, Numbers DEF Contexts, HeaderSize
  <2>2. <<>> \in Seq(Indices)
    OBVIOUS
  <2> QED
    BY <1>1, <2>1, <2>2 DEF SyncHeader
<1>5. BuilderTyped'
  BY <1>3, <1>4 DEF Typed, TypeOK, BuilderTyped, SyncHeader
<1>6. Places'
  BY <1>1, <1>3, <1>4 DEF Typed, Places, SyncHeader
<1>7. spent' \in 0..MaxFaults
  BY SpentTyped DEF Typed, TypeOK, SyncHeader, SyncFails
<1> QED
  BY <1>2, <1>5, <1>6, <1>7 DEF Typed, TypeOK, SyncHeader

LEMMA AppendBlockTyped ==
  ASSUME Typed, AppendBlock
  PROVE  Typed'
<1>1. /\ call \in WriteCalls /\ call.block \in Blocks /\ DiskTyped
      /\ builder.file \in Names /\ builder.file \in DOMAIN disk
      /\ builder \in [file : Names \cup {NoFile}, path : Names \cup {NoFile},
                     ctx : Contexts, indices : Seq(Indices), unflushed : Nat]
  BY CallFields, WriteMoves
     DEF Typed, TypeOK, BuilderTyped, AppendBlock, Places, DiskTyped
<1>2. disk' = disk \/ \E x \in Pieces : Append1(builder.file, x)
  BY <1>1, PieceTypes DEF AppendBlock
<1>3. BlockOffset(builder.file) \in Nat
  BY <1>1 DEF BlockOffset, DiskTyped
<1>4. acked' \subseteq [file : Names, at : Nat, block : Blocks]
  <2>1. Place(builder.file, BlockOffset(builder.file), call.block)
          \in [file : Names, at : Nat, block : Blocks]
    BY <1>1, <1>3 DEF Place
  <2>2. acked' = acked \/ acked' = acked \cup
          {Place(builder.file, BlockOffset(builder.file), call.block)}
    BY DEF AppendBlock
  <2> QED
    BY <1>1, <2>1, <2>2 DEF DiskTyped
<1>5. DiskTyped' /\ Grown /\ DOMAIN disk' = DOMAIN disk
  <2>1. durable' = durable
    BY DEF AppendBlock
  <2> QED
    BY <1>1, <1>2, <1>4, <2>1, FileGrows
<1>6. call' \in Calls /\ call'.pc \in {"sync", "idle"}
  <2>1. call' = At(call, "sync") \/ call' = Idle
    BY DEF AppendBlock, At
  <2>2. Idle.pc = "idle"
    BY DEF Idle
  <2> QED
    BY <1>1, <2>1, <2>2, WriteMoves, CallKinds
<1>7. /\ builder' \in [file : Names \cup {NoFile}, path : Names \cup {NoFile},
                      ctx : Contexts, indices : Seq(Indices), unflushed : Nat]
      /\ builder'.file = builder.file /\ builder'.path = builder.path
  <2>1. [start |-> builder.ctx.start, end |-> call.block.end,
         count |-> builder.ctx.count + 1,
         size |-> builder.ctx.size + call.block.size] \in Contexts
    BY <1>1, Numbers DEF Contexts
  <2>2. Append(builder.indices,
               IndexEntry(call.block, BlockOffset(builder.file))) \in Seq(Indices)
    BY <1>1, <1>3, PieceTypes
  <2>3. builder.unflushed + 1 \in Nat
    BY <1>1
  <2>4. builder' = builder \/
        builder' = [builder EXCEPT
           !.ctx = [start |-> @.start, end |-> call.block.end,
                    count |-> @.count + 1, size |-> @.size + call.block.size],
           !.indices = IF call.block.key
                       THEN Append(@, IndexEntry(call.block, BlockOffset(builder.file)))
                       ELSE @,
           !.unflushed = @ + 1]
    BY DEF AppendBlock
  <2> QED
    BY <1>1, <2>1, <2>2, <2>3, <2>4
<1>8. BuilderTyped'
  BY <1>6, <1>7 DEF Typed, TypeOK, BuilderTyped, AppendBlock
<1>9. Places'
  BY <1>1, <1>5, <1>6, <1>7, Numbers, TruncatesWithin
     DEF Typed, Places, AppendBlock
<1>10. spent' \in 0..MaxFaults
  BY SpentTyped DEF Typed, TypeOK, AppendBlock
<1> QED
  BY <1>5, <1>8, <1>9, <1>10 DEF Typed, TypeOK, AppendBlock

LEMMA SyncBatchTyped ==
  ASSUME Typed, SyncBatch
  PROVE  Typed'
<1>1. /\ call \in WriteCalls /\ call.block \in Blocks /\ DiskTyped
      /\ builder.file \in Names /\ builder.file \in DOMAIN disk
      /\ builder \in [file : Names \cup {NoFile}, path : Names \cup {NoFile},
                     ctx : Contexts, indices : Seq(Indices), unflushed : Nat]
  BY CallFields, WriteMoves
     DEF Typed, TypeOK, BuilderTyped, SyncBatch, Places, DiskTyped
<1>2. acked' \subseteq [file : Names, at : Nat, block : Blocks]
  <2>1. Place(builder.file, Len(disk[builder.file]), call.block)
          \in [file : Names, at : Nat, block : Blocks]
    BY <1>1 DEF Place, DiskTyped
  <2>2. acked' = acked \/ acked' = acked \cup
          {Place(builder.file, Len(disk[builder.file]), call.block)}
    BY DEF SyncBatch
  <2> QED
    BY <1>1, <2>1, <2>2 DEF DiskTyped
<1>3. DiskTyped'
  <2>1. (SyncOk \/ UNCHANGED durable) /\ UNCHANGED disk
    BY DEF SyncBatch, SyncFails
  <2> QED
    BY <1>1, <1>2, <2>1, SyncTyped
<1>4. call' \in Calls /\ call'.pc = "idle"
  BY CallKinds DEF SyncBatch, Idle
<1>5. /\ builder' \in [file : Names \cup {NoFile}, path : Names \cup {NoFile},
                      ctx : Contexts, indices : Seq(Indices), unflushed : Nat]
      /\ builder'.file = builder.file /\ builder'.path = builder.path
  <2>1. builder' = [builder EXCEPT !.unflushed = 0] \/ builder' = builder
    BY DEF SyncBatch
  <2> QED
    BY <1>1, <2>1
<1>6. BuilderTyped'
  BY <1>4, <1>5 DEF Typed, TypeOK, BuilderTyped, SyncBatch
<1>7. Places'
  BY <1>1, <1>4, <1>5, Numbers DEF Typed, Places, SyncBatch
<1>8. spent' \in 0..MaxFaults
  BY SpentTyped DEF Typed, TypeOK, SyncBatch, SyncFails
<1> QED
  BY <1>3, <1>6, <1>7, <1>8 DEF Typed, TypeOK, SyncBatch

LEMMA FooterTyped ==
  ASSUME Typed, WriteSegmentFooter
  PROVE  Typed'
<1>1. /\ call \in WriteCalls \/ call \in CloseCalls
      /\ call.written \in Nat /\ call.pc = "footer" /\ DiskTyped
      /\ builder.file # NoFile /\ builder.file \in DOMAIN disk
      /\ builder.indices \in Seq(Indices)
  BY CallFields DEF Typed, TypeOK, BuilderTyped, WriteSegmentFooter, Places
<1>2. disk' = disk \/ \E x \in Pieces : Append1(builder.file, x)
  <2>1. ASSUME call.written < Len(builder.indices)
        PROVE  builder.indices[call.written + 1] \in Pieces
    <3>1. call.written + 1 \in 1..Len(builder.indices)
      BY <1>1, <2>1
    <3>2. builder.indices[call.written + 1] \in Indices
      BY <1>1, <3>1
    <3> QED
      BY <3>2, PieceTypes
  <2>2. Footer(Len(builder.indices)) \in Pieces
    BY <1>1, PieceTypes
  <2> QED
    BY <2>1, <2>2, PieceTypes DEF WriteSegmentFooter, WriteFails
<1>3. DiskTyped' /\ Grown /\ DOMAIN disk' = DOMAIN disk
  <2>1. durable' = durable /\ acked' \subseteq [file : Names, at : Nat, block : Blocks]
    BY <1>1 DEF WriteSegmentFooter, DiskTyped
  <2> QED
    BY <1>1, <1>2, <2>1, FileGrows
<1>4. call' \in Calls /\ call'.pc \in {"footer", "close"}
  <2>1. \/ call' = OneMore(call)
        \/ call' = At(call, "close")
    BY DEF WriteSegmentFooter, At, OneMore
  <2> QED
    BY <1>1, <2>1, WriteMoves, CloseMoves, CallKinds
<1>5. BuilderTyped'
  BY <1>4 DEF Typed, TypeOK, BuilderTyped, WriteSegmentFooter
<1>6. Places'
  BY <1>1, <1>3, <1>4, TruncatesWithin
     DEF Typed, Places, WriteSegmentFooter
<1>7. spent' \in 0..MaxFaults
  BY SpentTyped DEF Typed, TypeOK, WriteSegmentFooter, WriteFails
<1> QED
  BY <1>3, <1>5, <1>6, <1>7 DEF Typed, TypeOK, WriteSegmentFooter

LEMMA ClosedTyped ==
  /\ Closed \in [file : Names \cup {NoFile}, path : Names \cup {NoFile},
                 ctx : Contexts, indices : Seq(Indices), unflushed : Nat]
  /\ Closed.file = NoFile /\ Closed.path = NoFile /\ Closed.unflushed = 0
BY DEF Closed, EmptyContext, Contexts

LEMMA FinishTyped ==
  ASSUME Typed, FinishSegment
  PROVE  Typed'
<1>1. /\ call.then \in {"create", "idle"}
      /\ call.then = "create" => call \in WriteCalls
      /\ DiskTyped
      /\ builder.file # NoFile /\ builder.file \in DOMAIN disk
      /\ builder \in [file : Names \cup {NoFile}, path : Names \cup {NoFile},
                     ctx : Contexts, indices : Seq(Indices), unflushed : Nat]
  BY CallFields DEF Typed, TypeOK, BuilderTyped, FinishSegment, Places
<1>2. DiskTyped'
  <2>1. SyncOk \/ UNCHANGED durable
    BY DEF FinishSegment, SyncFails
  <2>2. UNCHANGED disk /\ acked' \subseteq [file : Names, at : Nat, block : Blocks]
    BY <1>1 DEF FinishSegment, DiskTyped
  <2> QED
    BY <1>1, <2>1, <2>2, SyncTyped
<1>3. call' \in Calls /\ call'.pc \in {"create", "idle"}
  <2>1. CASE call.then = "idle"
    BY <2>1, CallKinds DEF FinishSegment, Idle
  <2>2. CASE call.then = "create"
    <3>1. call' = At(call, "create")
      BY <2>2 DEF FinishSegment, At
    <3> QED
      BY <1>1, <2>2, <3>1, WriteMoves, CallKinds
  <2> QED
    BY <1>1, <2>1, <2>2
<1>4. finished' \subseteq [file : Names, count : Nat, indices : Seq(Indices)]
  <2>1. ASSUME builder.path # NoFile
        PROVE  [file |-> builder.path, count |-> builder.ctx.count,
                indices |-> builder.indices]
                 \in [file : Names, count : Nat, indices : Seq(Indices)]
    BY <1>1, <2>1 DEF Contexts
  <2> QED
    BY <2>1 DEF Typed, TypeOK, BuilderTyped, FinishSegment
<1>5. BuilderTyped'
  BY <1>3, <1>4, ClosedTyped DEF BuilderTyped, FinishSegment
<1>6. Places'
  BY <1>3, ClosedTyped DEF Typed, Places, FinishSegment
<1>7. spent' \in 0..MaxFaults
  BY SpentTyped DEF Typed, TypeOK, FinishSegment, SyncFails
<1> QED
  BY <1>2, <1>5, <1>6, <1>7 DEF Typed, TypeOK, FinishSegment

LEMMA RepairSegmentTyped ==
  ASSUME Typed, NEW n \in DOMAIN disk, RepairSegment(n)
  PROVE  Typed'
<1>1. PICK e \in 2..Len(disk[n]) :
        /\ Scanned(disk[n], e)
        /\ repair' = [pc |-> "truncate", file |-> n, end |-> e,
                      done |-> 1, count |-> 0]
  BY DEF RepairSegment
<1>2. repair' \in Repairs /\ repair'.file = n /\ repair'.end <= Len(disk[n])
  <2>1. n \in Names /\ e \in Nat /\ e <= Len(disk[n])
    BY DEF Typed, TypeOK, DiskTyped
  <2> QED
    BY <1>1, <2>1 DEF Repairs
<1>3. DiskTyped' /\ BuilderTyped' /\ UNCHANGED disk
  BY DEF Typed, TypeOK, RepairSegment, DiskTyped, BuilderTyped, files
<1>4. Places'
  BY <1>2, <1>3 DEF Typed, Places, RepairSegment
<1> QED
  BY <1>2, <1>3, <1>4 DEF Typed, TypeOK, RepairSegment

LEMMA TruncateTyped ==
  ASSUME Typed, TruncateFile
  PROVE  Typed'
<1>1. /\ repair.file \in DOMAIN disk /\ repair.end \in Nat /\ DiskTyped
      /\ repair.file \in Names /\ repair.done \in Nat /\ repair.count \in Nat
      /\ repair \in [pc : {"truncate", "footer"}, file : Names, end : Nat,
                    done : Nat, count : Nat]
  BY RepairTyped DEF Typed, TypeOK, Places, TruncateFile, Repairs
<1>2. CASE Fault("write_fails") /\ repair' = Idle /\ UNCHANGED files
  <2>1. DiskTyped' /\ BuilderTyped' /\ DOMAIN disk' = DOMAIN disk
    BY <1>2 DEF Typed, TypeOK, TruncateFile, DiskTyped, BuilderTyped, files
  <2>2. repair' \in Repairs /\ repair'.pc = "idle"
    BY <1>2, RepairTyped DEF Typed, TypeOK
  <2>3. Places'
    BY <2>1, <2>2 DEF Typed, Places, TruncateFile
  <2>4. spent' \in 0..MaxFaults
    BY <1>2, SpentTyped DEF Typed, TypeOK
  <2> QED
    BY <2>1, <2>2, <2>3, <2>4 DEF Typed, TypeOK, TruncateFile
<1>3. CASE /\ disk' = [disk EXCEPT ![repair.file] = SubSeq(@, 1, repair.end)]
           /\ durable' = [durable EXCEPT ![repair.file] =
                            IF @ > repair.end THEN repair.end ELSE @]
           /\ repair' = [repair EXCEPT !.pc = "footer"]
           /\ NoFault
  <2>1. /\ disk[repair.file] \in Seq(Pieces) /\ Len(disk[repair.file]) \in Nat
        /\ durable[repair.file] \in Nat /\ durable[repair.file] <= Len(disk[repair.file])
        /\ repair.end <= Len(disk[repair.file])
    BY <1>1 DEF DiskTyped, Typed, Places, TruncateFile
  <2>2. /\ SubSeq(disk[repair.file], 1, repair.end) \in Seq(Pieces)
        /\ Len(SubSeq(disk[repair.file], 1, repair.end)) = repair.end
    BY <1>1, <2>1, SubSeqProperties
  <2>3. /\ disk' \in [DOMAIN disk -> Seq(Pieces)] /\ DOMAIN disk' = DOMAIN disk
        /\ disk'[repair.file] = SubSeq(disk[repair.file], 1, repair.end)
        /\ \A n \in DOMAIN disk : n # repair.file => disk'[n] = disk[n]
    BY <1>1, <1>3, <2>2 DEF DiskTyped
  <2>4. /\ durable' \in [DOMAIN disk -> Nat]
        /\ durable'[repair.file] <= repair.end
        /\ \A n \in DOMAIN disk : n # repair.file => durable'[n] = durable[n]
    BY <1>1, <1>3, <2>1 DEF DiskTyped
  <2>5. \A n \in DOMAIN disk : durable'[n] <= Len(disk'[n])
    BY <1>1, <2>2, <2>3, <2>4 DEF DiskTyped
  <2>6. DiskTyped'
    BY <1>1, <2>3, <2>4, <2>5 DEF DiskTyped, TruncateFile
  <2>7. repair' \in Repairs /\ repair'.pc = "footer" /\ repair'.file = repair.file
    BY <1>1, <1>3 DEF Repairs
  <2>8. Places'
    BY <1>1, <2>3, <2>7 DEF Typed, Places, TruncateFile
  <2>9. spent' \in 0..MaxFaults
    BY <1>3, SpentTyped DEF Typed, TypeOK
  <2> QED
    BY <2>6, <2>7, <2>8, <2>9 DEF Typed, TypeOK, TruncateFile, BuilderTyped
<1> QED
  BY <1>2, <1>3 DEF TruncateFile

KeyDone(p) == [repair EXCEPT !.done = p, !.count = @ + 1]

\* write_footer_at puts one piece down at most.
LEMMA FooterAtWrites ==
  ASSUME Typed, WriteFooterAt
  PROVE  /\ \E x \in Pieces : disk' = disk \/ Append1(repair.file, x)
         /\ Grown
         /\ \A m \in DOMAIN disk : m # repair.file => disk'[m] = disk[m]
<1>1. /\ repair.file \in DOMAIN disk /\ DiskTyped
      /\ repair \in [pc : {"truncate", "footer"}, file : Names, end : Nat,
                    done : Nat, count : Nat]
  BY RepairTyped DEF Typed, TypeOK, Places, WriteFooterAt, Repairs
<1>2. \E x \in Pieces : disk' = disk \/ Append1(repair.file, x)
  <2>1. ASSUME NEW p \in 2..Len(disk[repair.file]), NextKey(disk[repair.file], p)
        PROVE  IndexEntry(disk[repair.file][p].block, p) \in Pieces
    <3>1. disk[repair.file][p] \in Pieces /\ p \in Nat
      BY <1>1 DEF DiskTyped
    <3>2. disk[repair.file][p].kind = "block"
      BY <2>1 DEF NextKey, IsKey
    <3>3. disk[repair.file][p].block \in Blocks
      BY <3>1, <3>2 DEF Pieces, Header, Torn, Indices
    <3> QED
      BY <3>1, <3>3, PieceTypes
  <2>2. Footer(repair.count) \in Pieces
    BY <1>1, PieceTypes
  <2> QED
    BY <2>1, <2>2, PieceTypes DEF WriteFooterAt, WriteFails
<1>3. PICK x \in Pieces : disk' = disk \/ Append1(repair.file, x)
  BY <1>2
<1> QED
  BY <1>1, <1>2, <1>3, AppendOne, SameGrown

LEMMA FooterAtMoves ==
  ASSUME Typed, WriteFooterAt
  PROVE  /\ repair' \in Repairs
         /\ repair'.pc = "idle" \/ (repair'.file = repair.file /\ repair'.pc = "footer")
<1>1. /\ repair.pc = "footer"
      /\ repair \in [pc : {"truncate", "footer"}, file : Names, end : Nat,
                    done : Nat, count : Nat]
  BY RepairTyped DEF Typed, TypeOK, WriteFooterAt, Repairs
<1>2. repair' = Idle \/ \E p \in 2..Len(disk[repair.file]) : repair' = KeyDone(p)
  BY DEF WriteFooterAt, KeyDone
<1>3. ASSUME NEW p \in Nat
      PROVE  KeyDone(p) \in Repairs /\ KeyDone(p).file = repair.file
                                    /\ KeyDone(p).pc = "footer"
  <2>1. repair.count + 1 \in Nat
    BY <1>1
  <2>2. KeyDone(p) \in [pc : {"truncate", "footer"}, file : Names, end : Nat,
                        done : Nat, count : Nat]
    BY <1>1, <2>1 DEF KeyDone
  <2> QED
    BY <1>1, <2>2 DEF Repairs, KeyDone
<1>4. CASE repair' = Idle
  BY <1>4, RepairTyped DEF Typed, TypeOK
<1>5. CASE \E p \in 2..Len(disk[repair.file]) : repair' = KeyDone(p)
  <2>1. PICK p \in 2..Len(disk[repair.file]) : repair' = KeyDone(p)
    BY <1>5
  <2> QED
    BY <1>3, <2>1
<1> QED
  BY <1>2, <1>4, <1>5

LEMMA FooterAtTyped ==
  ASSUME Typed, WriteFooterAt
  PROVE  Typed'
<1>1. /\ repair.file \in DOMAIN disk /\ DiskTyped
      /\ repair \in [pc : {"truncate", "footer"}, file : Names, end : Nat,
                    done : Nat, count : Nat]
  BY RepairTyped DEF Typed, TypeOK, Places, WriteFooterAt, Repairs
<1>2. disk' = disk \/ \E x \in Pieces : Append1(repair.file, x)
  BY FooterAtWrites
<1>3. DiskTyped' /\ Grown /\ DOMAIN disk' = DOMAIN disk
  <2>1. durable' = durable /\ acked' \subseteq [file : Names, at : Nat, block : Blocks]
    BY <1>1 DEF WriteFooterAt, DiskTyped
  <2> QED
    BY <1>1, <1>2, <2>1, FileGrows
<1>4. /\ repair' \in Repairs
      /\ repair'.pc = "idle" \/ (repair'.file = repair.file /\ repair'.pc = "footer")
  BY FooterAtMoves
<1>5. Places'
  BY <1>1, <1>3, <1>4 DEF Typed, Places, WriteFooterAt
<1>6. spent' \in 0..MaxFaults
  BY SpentTyped DEF Typed, TypeOK, WriteFooterAt, WriteFails
<1>7. BuilderTyped'
  BY DEF Typed, TypeOK, BuilderTyped, WriteFooterAt
<1> QED
  BY <1>3, <1>4, <1>5, <1>6, <1>7 DEF Typed, TypeOK, WriteFooterAt

LEMMA StoppedTyped ==
  ASSUME Typed, Stopped
  PROVE  /\ builder' \in [file : Names \cup {NoFile}, path : Names \cup {NoFile},
                         ctx : Contexts, indices : Seq(Indices), unflushed : Nat]
         /\ builder'.path = NoFile /\ builder'.file = NoFile
         /\ call' \in Calls /\ repair' \in Repairs
         /\ Places'
<1>1. /\ call' \in Calls /\ call'.pc = "idle"
      /\ repair' \in Repairs /\ repair'.pc = "idle"
  BY CallKinds DEF Stopped, Repairs, Idle
<1> QED
  BY <1>1, ClosedTyped DEF Stopped, Places

LEMMA CrashTyped ==
  ASSUME Typed, Crash
  PROVE  Typed' /\ Grown /\ DOMAIN disk' = DOMAIN disk
<1>1. DiskTyped /\ durable' = durable
      /\ acked' \subseteq [file : Names, at : Nat, block : Blocks]
  BY DEF Typed, TypeOK, Crash, DiskTyped
<1>2. DiskTyped' /\ Grown /\ DOMAIN disk' = DOMAIN disk
  <2>1. CASE disk' = disk
    BY <1>1, <2>1, SameGrown DEF DiskTyped
  <2>2. CASE call.pc \in {"header", "append", "footer"} /\ Append1(builder.file, Torn)
    <3>1. builder.file \in DOMAIN disk
      BY <2>2 DEF Typed, Places
    <3> QED
      BY <1>1, <2>2, <3>1, PieceTypes, FileGrows
  <2>3. CASE repair.pc = "footer" /\ Append1(repair.file, Torn)
    <3>1. repair.file \in DOMAIN disk
      BY <2>3 DEF Typed, Places
    <3> QED
      BY <1>1, <2>3, <3>1, PieceTypes, FileGrows
  <2> QED
    BY <2>1, <2>2, <2>3 DEF Crash, HalfWritten
<1>3. spent' \in 0..MaxFaults
  BY SpentTyped DEF Typed, TypeOK, Crash
<1>4. BuilderTyped'
  BY StoppedTyped DEF Typed, TypeOK, BuilderTyped, Crash
<1> QED
  BY <1>2, <1>3, <1>4, StoppedTyped DEF Typed, TypeOK, Crash

\* What a file holds after the machine lost its power.
LEMMA KeptIs ==
  ASSUME DiskTyped, NEW n \in DOMAIN disk, NEW lost \in Nat
  PROVE  /\ Kept(n, lost) \in Nat
         /\ durable[n] <= Kept(n, lost) /\ Kept(n, lost) <= Len(disk[n])
<1>1. durable[n] \in Nat /\ Len(disk[n]) \in Nat /\ durable[n] <= Len(disk[n])
  BY DEF DiskTyped
<1> QED
  BY <1>1 DEF Kept

AfterLoss(n, k, torn) ==
  IF torn /\ k < Len(disk[n]) THEN Append(SubSeq(disk[n], 1, k), Torn)
                               ELSE SubSeq(disk[n], 1, k)

LEMMA AfterLossIs ==
  ASSUME DiskTyped, NEW n \in DOMAIN disk, NEW k \in Nat, k <= Len(disk[n]),
         NEW torn \in BOOLEAN
  PROVE  /\ AfterLoss(n, k, torn) \in Seq(Pieces)
         /\ Len(AfterLoss(n, k, torn)) \in {k, k + 1}
         /\ \A p \in 1..k : AfterLoss(n, k, torn)[p] = disk[n][p]
<1> DEFINE f == SubSeq(disk[n], 1, k)
<1>1. /\ f \in Seq(Pieces) /\ Len(f) = k
      /\ \A p \in 1..k : f[p] = disk[n][p]
  <2>1. disk[n] \in Seq(Pieces) /\ \A p \in 1..k : disk[n][p] \in Pieces
    BY DEF DiskTyped
  <2>2. f \in Seq(Pieces) /\ Len(f) = k
    BY <2>1, SubSeqProperties
  <2>3. \A p \in 1..(k - 1 + 1) : f[p] = disk[n][1 + p - 1]
    BY <2>1, SubSeqProperties
  <2> QED
    BY <2>2, <2>3
<1> HIDE DEF f
<1>2. /\ Append(f, Torn) \in Seq(Pieces) /\ Len(Append(f, Torn)) = k + 1
      /\ \A p \in 1..k : Append(f, Torn)[p] = f[p]
  BY <1>1, PieceTypes
<1> QED
  BY <1>1, <1>2 DEF AfterLoss, f

\* The names of lost and torn are those of the action.
LEMMA PowerLossIs ==
  ASSUME Typed, PowerLoss
  PROVE  \E lost \in [DOMAIN disk -> 0..MaxLoss], torn \in BOOLEAN :
           /\ disk' = [n \in DOMAIN disk |-> AfterLoss(n, Kept(n, lost[n]), torn)]
           /\ acked' = {a \in acked : a.at <= Kept(a.file, lost[a.file])}
BY DEF PowerLoss, AfterLoss

LEMMA PowerLossTyped ==
  ASSUME Typed, PowerLoss
  PROVE  Typed' /\ DOMAIN disk' = DOMAIN disk
<1>1. PICK lost \in [DOMAIN disk -> 0..MaxLoss], torn \in BOOLEAN :
           /\ disk' = [n \in DOMAIN disk |-> AfterLoss(n, Kept(n, lost[n]), torn)]
           /\ acked' = {a \in acked : a.at <= Kept(a.file, lost[a.file])}
  BY PowerLossIs
<1>2. \A n \in DOMAIN disk : disk'[n] \in Seq(Pieces) /\ Len(disk'[n]) \in Nat
  <2> TAKE n \in DOMAIN disk
  <2>1. lost[n] \in Nat /\ DiskTyped
    BY Numbers DEF Typed, TypeOK
  <2>2. Kept(n, lost[n]) \in Nat /\ Kept(n, lost[n]) <= Len(disk[n])
    BY <2>1, KeptIs
  <2>3. disk'[n] = AfterLoss(n, Kept(n, lost[n]), torn)
    BY <1>1
  <2>4. disk'[n] \in Seq(Pieces)
    BY <2>1, <2>2, <2>3, AfterLossIs
  <2> QED
    BY <2>4
<1>3. disk' \in [DOMAIN disk -> Seq(Pieces)] /\ DOMAIN disk' = DOMAIN disk
  BY <1>1, <1>2
<1>4. durable' = [n \in DOMAIN disk |-> Len(disk'[n])]
  BY DEF PowerLoss
<1>5. DiskTyped'
  BY <1>1, <1>2, <1>3, <1>4 DEF Typed, TypeOK, DiskTyped
<1>6. BuilderTyped' /\ Places' /\ repair' \in Repairs
  BY StoppedTyped DEF Typed, TypeOK, BuilderTyped, PowerLoss
<1>7. spent' \in 0..MaxFaults
  BY SpentTyped DEF Typed, TypeOK, PowerLoss
<1> QED
  BY <1>3, <1>5, <1>6, <1>7 DEF Typed, TypeOK, PowerLoss

(***************************************************************************)
(* The files are never more than the blocks written.                       *)
(***************************************************************************)
LEMMA InitCounted == Init => Counted
<1> SUFFICES ASSUME Init PROVE Counted
  OBVIOUS
<1>1. DOMAIN disk = {} /\ calls = 0 /\ call.pc = "idle"
  BY DEF Init, Idle
<1> QED
  BY <1>1, FS_EmptySet DEF Counted, Creating

LEMMA NextCounted ==
  ASSUME Typed, Counted, NamesSuffice, [Next]_vars
  PROVE  Counted'
<1>0. calls \in Nat /\ Cardinality(DOMAIN disk) \in Nat
  BY FS_CardinalityType DEF Typed, TypeOK, Counted
<1>1. ASSUME NEW b \in Blocks, WriteBlock(b) PROVE Counted'
  <2>1. /\ DOMAIN disk' = DOMAIN disk /\ calls' = calls + 1 /\ ~ Creating
    BY <1>1 DEF WriteBlock, files, Creating
  <2> QED
    BY <1>0, <2>1 DEF Counted
<1>2. CASE OpenSegment
  <2>1. CASE Fault("write_fails") /\ call' = Idle /\ UNCHANGED <<files, builder>>
    <3>1. DOMAIN disk' = DOMAIN disk /\ calls' = calls /\ ~ Creating'
      BY <1>2, <2>1 DEF OpenSegment, files, Creating, Idle
    <3> QED
      BY <1>0, <3>1, CountedStays
  <2>2. ASSUME NEW name, disk' = Truncated(disk, name, <<>>), call' = At(call, "header")
        PROVE  Counted'
    <3>1. DOMAIN disk' = DOMAIN disk \cup {name} /\ calls' = calls /\ Creating
      BY <1>2, <2>2 DEF OpenSegment, Truncated, Creating
    <3>2. ~ Creating'
      <4>1. call'.pc = "header"
        BY <1>2, <2>2, CallFields, WriteMoves DEF OpenSegment, Typed, TypeOK, BuilderTyped
      <4> QED
        BY <4>1 DEF Creating
    <3>3. /\ IsFiniteSet(DOMAIN disk')
          /\ Cardinality(DOMAIN disk') <= Cardinality(DOMAIN disk) + 1
      BY <1>0, <3>1, FS_AddElement DEF Counted
    <3>4. Cardinality(DOMAIN disk') \in Nat
      BY <3>3, FS_CardinalityType
    <3> QED
      BY <1>0, <3>1, <3>2, <3>3, <3>4 DEF Counted
  <2> QED
    BY <1>2, <2>1, <2>2 DEF OpenSegment, At
<1>3. CASE WriteSegmentHeader \/ SyncHeader
  <2>1. \/ call' = At(call, "header_sync") \/ call' = At(call, "append")
        \/ call' = CloseOnly
    BY <1>3 DEF WriteSegmentHeader, SyncHeader, GiveUp, At, CloseOnly
  <2>4. call \in WriteCalls
    BY <1>3, CallFields DEF WriteSegmentHeader, SyncHeader, Typed, TypeOK, BuilderTyped
  <2>5. At(call, "header_sync").pc = "header_sync" /\ At(call, "append").pc = "append"
    BY <2>4, WriteMoves
  <2>2. ~ Creating'
    BY <2>1, <2>5, CloseMoves DEF Creating
  <2>3. DOMAIN disk' = DOMAIN disk /\ calls' = calls
    BY <1>3 DEF WriteSegmentHeader, SyncHeader, WriteFails, Append1
  <2> QED
    BY <1>0, <2>2, <2>3, CountedStays
<1>4. CASE AppendBlock \/ SyncBatch
  <2>1. call'.pc \in {"sync", "idle"}
    <3>1. call' = At(call, "sync") \/ call' = Idle
      BY <1>4 DEF AppendBlock, SyncBatch, At
    <3>2. call \in WriteCalls /\ Idle.pc = "idle"
      BY <1>4, CallFields DEF AppendBlock, SyncBatch, Typed, TypeOK, BuilderTyped, Idle
    <3> QED
      BY <3>1, <3>2, WriteMoves
  <2>2. ~ Creating'
    BY <2>1 DEF Creating
  <2>3. DOMAIN disk' = DOMAIN disk /\ calls' = calls
    BY <1>4 DEF AppendBlock, SyncBatch, Append1
  <2> QED
    BY <1>0, <2>2, <2>3, CountedStays
<1>5. CASE WriteSegmentFooter \/ FinishSegment
  <2>1. Creating' => Creating
    <3>1. \/ call' = OneMore(call) \/ call' = At(call, "close") \/ call' = Idle
          \/ call.then # "idle"
      BY <1>5 DEF WriteSegmentFooter, FinishSegment, At, OneMore
    <3>2. /\ call \in WriteCalls \/ call \in CloseCalls
          /\ call.pc \in {"footer", "close"} /\ call.then \in {"create", "idle"}
          /\ Idle.pc = "idle"
      BY <1>5, CallFields
         DEF WriteSegmentFooter, FinishSegment, Typed, TypeOK, BuilderTyped, Idle
    <3> QED
      BY <3>1, <3>2, WriteMoves, CloseMoves DEF Creating
  <2>2. DOMAIN disk' = DOMAIN disk /\ calls' = calls
    BY <1>5 DEF WriteSegmentFooter, FinishSegment, WriteFails, Append1
  <2> QED
    BY <1>0, <2>1, <2>2, CountedStays
<1>6. CASE CloseCurrentSegment
  <2>1. ~ Creating' /\ DOMAIN disk' = DOMAIN disk /\ calls' = calls
    BY <1>6 DEF CloseCurrentSegment, Creating, files
  <2> QED
    BY <1>0, <2>1, CountedStays
<1>7. CASE FlushPending \/ RepairStep
  <2>1. DOMAIN disk' = DOMAIN disk /\ calls' = calls /\ call' = call
    BY <1>7 DEF FlushPending, RepairStep, RepairSegment, TruncateFile, WriteFooterAt,
                WriteFails, Append1, files
  <2> QED
    BY <1>0, <2>1, CountedStays DEF Creating
<1>8. CASE Crash \/ PowerLoss
  <2>1. DOMAIN disk' = DOMAIN disk /\ calls' = calls /\ call' = Idle
    BY <1>8, CrashTyped, PowerLossTyped DEF Crash, PowerLoss, Stopped
  <2> QED
    BY <1>0, <2>1, CountedStays DEF Creating, Idle
<1>9. CASE UNCHANGED vars
  BY <1>9 DEF vars, files, Counted, Creating
<1> QED
  BY <1>1, <1>2, <1>3, <1>4, <1>5, <1>6, <1>7, <1>8, <1>9 DEF Next, BuilderStep

LEMMA NextTyped ==
  ASSUME Typed, Counted, NamesSuffice, [Next]_vars
  PROVE  Typed'
BY WriteBlockTyped, CloseTyped, FlushTyped, OpenTyped, HeaderTyped, HeaderSyncTyped,
   AppendBlockTyped, SyncBatchTyped, FooterTyped, FinishTyped, RepairSegmentTyped,
   TruncateTyped, FooterAtTyped, CrashTyped, PowerLossTyped, StutterTyped
   DEF Next, BuilderStep, RepairStep

\* While there are names enough, every variable keeps its type.
THEOREM TypeCorrect == NamesSuffice => (Spec => []TypeOK)
<1> SUFFICES ASSUME NamesSuffice PROVE Spec => []TypeOK
  OBVIOUS
<1>1. Init => Typed /\ Counted
  BY InitTyped, InitCounted
<1>2. Typed /\ Counted /\ [Next]_vars => (Typed /\ Counted)'
  BY NextTyped, NextCounted
<1>3. Typed => TypeOK
  BY DEF Typed
<1> QED
  BY <1>1, <1>2, <1>3, PTL DEF Spec

(***************************************************************************)
(* What was reported written survives.                                     *)
(***************************************************************************)
WellFormed(f) ==
  /\ Len(f) >= 1 /\ f[1] = Header
  /\ \A p \in 2..Len(f) : f[p].kind = "block"

\* The file the builder writes has nothing but its header and whole blocks,
\* until its footer is begun.
OpenFile ==
  /\ call.pc = "header" => disk[builder.file] = <<>>
  /\ call.pc = "header_sync" => disk[builder.file] = <<Header>>
  /\ call.pc \in {"idle", "append", "sync"} /\ builder.file # NoFile =>
       WellFormed(disk[builder.file])
  /\ call.pc = "sync" =>
       /\ Len(disk[builder.file]) >= 2
       /\ disk[builder.file][Len(disk[builder.file])] = BlockPiece(call.block)

\* A repair has another file in hand, and cuts it behind its last whole block.
RepairsApart ==
  /\ repair.pc # "idle" => repair.file # builder.file
  /\ repair.pc = "truncate" => repair.end >= 2 /\ Scanned(disk[repair.file], repair.end)

SafeInv == Typed /\ Counted /\ OpenFile /\ RepairsApart /\ BlocksSurvive

\* The block a is where it was reported written, behind whole blocks only.
Holds(a) ==
  /\ a.file \in DOMAIN disk
  /\ a.at \in 2..Len(disk[a.file])
  /\ disk[a.file][1] = Header
  /\ disk[a.file][a.at] = BlockPiece(a.block)
  /\ \A p \in 2..a.at : disk[a.file][p].kind = "block"

LEMMA SurviveIs == BlocksSurvive <=> \A a \in acked : Holds(a)
BY DEF BlocksSurvive, Holds

\* It stays there when the first a.at pieces of the file stay.
LEMMA PrefixHolds ==
  ASSUME NEW a, Holds(a), a.file \in DOMAIN disk', a.at <= Len(disk'[a.file]),
         Len(disk'[a.file]) \in Nat,
         \A p \in 1..a.at : disk'[a.file][p] = disk[a.file][p]
  PROVE  Holds(a)'
<1>1. a.at \in Int /\ a.at >= 2
  BY DEF Holds
<1>2. /\ a.at \in 2..Len(disk'[a.file]) /\ 1 \in 1..a.at /\ a.at \in 1..a.at
      /\ \A p \in 2..a.at : p \in 1..a.at
  BY <1>1
<1> QED
  BY <1>2 DEF Holds

LEMMA GrownHolds ==
  ASSUME Typed, Typed', Grown, NEW a, Holds(a)
  PROVE  Holds(a)'
<1>1. /\ a.file \in DOMAIN disk /\ a.file \in DOMAIN disk'
      /\ a.at \in Int /\ 2 <= a.at /\ a.at <= Len(disk[a.file])
  BY DEF Holds, Grown
<1>2. Len(disk[a.file]) \in Nat /\ Len(disk'[a.file]) \in Nat
  BY <1>1 DEF Typed, TypeOK, DiskTyped
<1>3. /\ Len(disk[a.file]) <= Len(disk'[a.file])
      /\ \A p \in 1..Len(disk[a.file]) : disk'[a.file][p] = disk[a.file][p]
  BY <1>1 DEF Grown
<1>4. a.at <= Len(disk'[a.file]) /\ \A p \in 1..a.at : p \in 1..Len(disk[a.file])
  BY <1>1, <1>2, <1>3
<1> QED
  BY <1>1, <1>2, <1>3, <1>4, PrefixHolds

LEMMA GrownKeeps ==
  ASSUME Typed, Typed', Grown, BlocksSurvive, acked' = acked
  PROVE  BlocksSurvive'
<1>1. \A a \in acked : Holds(a)'
  BY SurviveIs, GrownHolds
<1> QED
  BY <1>1 DEF BlocksSurvive, Holds

LEMMA SafeStutter == SafeInv /\ UNCHANGED vars => OpenFile' /\ RepairsApart' /\ BlocksSurvive'
BY DEF SafeInv, OpenFile, RepairsApart, BlocksSurvive, WellFormed, Scanned, vars, files

\* Steps that leave the files and what was promised alone.
LEMMA SafeCalls ==
  ASSUME SafeInv, Typed',
         (\E b \in Blocks : WriteBlock(b)) \/ CloseCurrentSegment \/ FlushPending
  PROVE  OpenFile' /\ RepairsApart' /\ BlocksSurvive'
<1>1. /\ UNCHANGED disk /\ UNCHANGED acked /\ UNCHANGED repair
      /\ call.pc = "idle" /\ builder'.file = builder.file
  <2>1. CASE FlushPending
    BY <2>1 DEF FlushPending, SafeInv, Typed, TypeOK, BuilderTyped
  <2>2. CASE CloseCurrentSegment
    BY <2>2 DEF CloseCurrentSegment, files
  <2>3. ASSUME NEW b \in Blocks, WriteBlock(b)
        PROVE  /\ UNCHANGED disk /\ UNCHANGED acked /\ UNCHANGED repair
               /\ call.pc = "idle" /\ builder'.file = builder.file
    BY <2>3 DEF WriteBlock, files
  <2> QED
    BY <2>1, <2>2, <2>3
<1>2. call'.pc \in {"create", "footer", "append", "idle"}
      /\ (call'.pc = "append" => builder.file # NoFile)
  <2>1. CASE FlushPending
    BY <1>1, <2>1 DEF FlushPending
  <2>2. CASE CloseCurrentSegment
    BY <2>2 DEF CloseCurrentSegment
  <2>3. ASSUME NEW b \in Blocks, WriteBlock(b)
        PROVE  /\ call'.pc \in {"create", "footer", "append", "idle"}
               /\ (call'.pc = "append" => builder.file # NoFile)
    BY <2>3 DEF WriteBlock, FirstStep
  <2> QED
    BY <2>1, <2>2, <2>3
<1>3. OpenFile'
  BY <1>1, <1>2 DEF SafeInv, OpenFile
<1>4. RepairsApart'
  BY <1>1 DEF SafeInv, RepairsApart
<1>5. BlocksSurvive'
  BY <1>1 DEF SafeInv, BlocksSurvive
<1> QED
  BY <1>3, <1>4, <1>5

LEMMA SafeOpen ==
  ASSUME SafeInv, Typed', NamesSuffice, OpenSegment
  PROVE  OpenFile' /\ RepairsApart' /\ BlocksSurvive'
<1>1. /\ call \in WriteCalls /\ call.block \in Blocks /\ builder.file = NoFile
      /\ call.pc = "create" /\ calls \in 0..MaxCalls
      /\ UNCHANGED acked /\ UNCHANGED repair
  BY CallFields, WriteMoves DEF SafeInv, Typed, TypeOK, BuilderTyped, OpenSegment, Places
<1>2. CASE Fault("write_fails") /\ call' = Idle /\ UNCHANGED <<files, builder>>
  <2>1. OpenFile'
    BY <1>1, <1>2 DEF OpenFile, Idle
  <2>2. RepairsApart' /\ BlocksSurvive'
    BY <1>1, <1>2 DEF SafeInv, RepairsApart, BlocksSurvive, files
  <2> QED
    BY <2>1, <2>2
<1>3. ASSUME NEW name \in Names, name \notin DOMAIN disk,
             disk' = Truncated(disk, name, <<>>),
             builder' = [builder EXCEPT !.file = name],
             call' = At(call, "header")
      PROVE  OpenFile' /\ RepairsApart' /\ BlocksSurvive'
  <2>1. /\ DOMAIN disk' = DOMAIN disk \cup {name}
        /\ disk'[name] = <<>>
        /\ \A n \in DOMAIN disk : disk'[n] = disk[n]
    BY <1>3 DEF Truncated
  <2>2. builder'.file = name
    BY <1>3 DEF SafeInv, Typed, TypeOK, BuilderTyped
  <2>3. call'.pc = "header"
    BY <1>1, <1>3, WriteMoves
  <2>4. OpenFile'
    BY <2>1, <2>2, <2>3 DEF OpenFile
  <2>5. RepairsApart'
    <3>1. repair.pc # "idle" => repair.file \in DOMAIN disk
      BY DEF SafeInv, Typed, Places
    <3> QED
      BY <1>1, <1>3, <2>1, <2>2, <3>1, RepairTyped
         DEF SafeInv, Typed, TypeOK, RepairsApart, Scanned
  <2>6. BlocksSurvive'
    <3>1. Grown
      <4>1. \A n \in DOMAIN disk : Len(disk[n]) \in Nat
        BY DEF SafeInv, Typed, TypeOK, DiskTyped
      <4> QED
        BY <2>1, <4>1 DEF Grown
    <3> QED
      BY <1>1, <3>1, GrownKeeps DEF SafeInv
  <2> QED
    BY <2>4, <2>5, <2>6
<1>4. ASSUME NEW q \in 0..LastSequence, NewName(call.block.start, q)
      PROVE  /\ SegmentName(call.block.start, q) \in Names
             /\ SegmentName(call.block.start, q) \notin DOMAIN disk
  BY <1>1, <1>4, Numbers, NameTyped, NameIsFree DEF SafeInv
<1> QED
  BY <1>2, <1>3, <1>4 DEF OpenSegment, At

\* A piece more in one file disturbs no repair of another.
LEMMA RepairsOfOthers ==
  ASSUME SafeInv, NEW x \in Pieces, builder.file \in DOMAIN disk,
         disk' = disk \/ Append1(builder.file, x),
         UNCHANGED repair, builder'.file \in {builder.file, NoFile}
  PROVE  RepairsApart'
<1>1. repair.pc # "idle" =>
        /\ repair.file \in DOMAIN disk /\ repair.file # builder.file
        /\ repair.file # NoFile
        /\ repair.pc = "truncate" =>
             repair.end >= 2 /\ Scanned(disk[repair.file], repair.end)
  BY Numbers DEF SafeInv, RepairsApart, Typed, TypeOK, Places, DiskTyped
<1>2. \A n \in DOMAIN disk : n # builder.file => disk'[n] = disk[n]
  BY AppendOne DEF SafeInv, Typed, TypeOK
<1>3. repair.pc = "truncate" => repair.pc # "idle"
  OBVIOUS
<1> QED
  BY <1>1, <1>2, <1>3 DEF RepairsApart

LEMMA SafeHeader ==
  ASSUME SafeInv, Typed', WriteSegmentHeader
  PROVE  OpenFile' /\ RepairsApart' /\ BlocksSurvive'
<1>1. /\ call \in WriteCalls /\ builder.file \in DOMAIN disk /\ DiskTyped
      /\ disk[builder.file] = <<>>
      /\ UNCHANGED acked /\ UNCHANGED repair /\ UNCHANGED builder
  BY CallFields
     DEF SafeInv, OpenFile, Typed, TypeOK, BuilderTyped, WriteSegmentHeader, Places
<1>2. \E x \in Pieces : disk' = disk \/ Append1(builder.file, x)
  BY PieceTypes DEF WriteSegmentHeader, WriteFails
<1>3. PICK x \in Pieces : disk' = disk \/ Append1(builder.file, x)
  BY <1>2
<1>4. RepairsApart'
  BY <1>1, <1>3, RepairsOfOthers
<1>5. BlocksSurvive'
  BY <1>1, <1>3, AppendOne, SameGrown, GrownKeeps DEF SafeInv
<1>6. OpenFile'
  <2>1. CASE Append1(builder.file, Header) /\ call' = At(call, "header_sync")
    <3>1. disk'[builder.file] = <<Header>>
      <4>1. disk'[builder.file] = Append(<<>>, Header)
        BY <1>1, <2>1, PieceTypes, AppendOne
      <4> QED
        BY <4>1
    <3>2. call'.pc = "header_sync"
      BY <1>1, <2>1, WriteMoves
    <3> QED
      BY <1>1, <3>1, <3>2 DEF OpenFile
  <2>2. CASE call' = CloseOnly
    BY <2>2, CloseMoves DEF OpenFile
  <2> QED
    BY <2>1, <2>2 DEF WriteSegmentHeader, GiveUp, At, CloseOnly
<1> QED
  BY <1>4, <1>5, <1>6

LEMMA SafeHeaderSync ==
  ASSUME SafeInv, Typed', SyncHeader
  PROVE  OpenFile' /\ RepairsApart' /\ BlocksSurvive'
<1>1. /\ call \in WriteCalls /\ builder.file \in DOMAIN disk
      /\ disk[builder.file] = <<Header>>
      /\ UNCHANGED disk /\ UNCHANGED acked /\ UNCHANGED repair
  BY CallFields DEF SafeInv, OpenFile, Typed, TypeOK, BuilderTyped, SyncHeader, Places
<1>2. builder'.file = builder.file
  BY DEF SafeInv, Typed, TypeOK, BuilderTyped, SyncHeader
<1>3. WellFormed(<<Header>>)
  BY DEF WellFormed
<1>4. call'.pc \in {"append", "footer"}
  <2>1. call' = At(call, "append") \/ call' = CloseOnly
    BY DEF SyncHeader, GiveUp, At, CloseOnly
  <2> QED
    BY <1>1, <2>1, WriteMoves, CloseMoves
<1>5. OpenFile'
  BY <1>1, <1>2, <1>3, <1>4 DEF OpenFile
<1>6. RepairsApart' /\ BlocksSurvive'
  BY <1>1, <1>2 DEF SafeInv, RepairsApart, BlocksSurvive
<1> QED
  BY <1>5, <1>6

\* A whole block behind whole blocks.
LEMMA OneMoreBlock ==
  ASSUME NEW f \in Seq(Pieces), WellFormed(f), NEW b \in Blocks
  PROVE  LET g == Append(f, BlockPiece(b)) IN
         /\ WellFormed(g) /\ Len(g) = Len(f) + 1 /\ Len(g) >= 2
         /\ g[Len(g)] = BlockPiece(b)
<1> DEFINE g == Append(f, BlockPiece(b))
<1>1. /\ Len(f) \in Nat /\ Len(f) >= 1 /\ Len(g) = Len(f) + 1
      /\ g[Len(f) + 1] = BlockPiece(b) /\ \A p \in 1..Len(f) : g[p] = f[p]
  BY PieceTypes DEF WellFormed
<1>2. \A p \in 2..Len(g) : g[p].kind = "block"
  <2> TAKE p \in 2..Len(g)
  <2>1. CASE p = Len(f) + 1
    BY <1>1, <2>1 DEF BlockPiece
  <2>2. CASE p # Len(f) + 1
    BY <1>1, <2>2 DEF WellFormed
  <2> QED
    BY <2>1, <2>2
<1>3. g[1] = Header
  BY <1>1 DEF WellFormed
<1> QED
  BY <1>1, <1>2, <1>3 DEF WellFormed

LEMMA SafeAppend ==
  ASSUME SafeInv, Typed', WholeWrites, AppendBlock
  PROVE  OpenFile' /\ RepairsApart' /\ BlocksSurvive'
<1> DEFINE n == builder.file
<1>1. /\ call \in WriteCalls /\ call.block \in Blocks
      /\ n \in DOMAIN disk /\ n # NoFile /\ DiskTyped /\ WellFormed(disk[n])
      /\ disk[n] \in Seq(Pieces)
      /\ UNCHANGED repair
  BY CallFields, WriteMoves
     DEF SafeInv, OpenFile, Typed, TypeOK, BuilderTyped, DiskTyped, AppendBlock, Places
<1>2. builder'.file = n
  BY DEF SafeInv, Typed, TypeOK, BuilderTyped, AppendBlock
<1>3. /\ Append1(n, BlockPiece(call.block)) \/ (disk' = disk /\ call' = Idle /\ acked' = acked)
      /\ call' = At(call, "sync") \/ call' = Idle
      /\ \/ acked' = acked
         \/ acked' = acked \cup {Place(n, Len(disk[n]) + 1, call.block)}
  BY DEF AppendBlock, At, WholeWrites, Fault, BlockOffset
<1>4. CASE disk' = disk /\ call' = Idle /\ acked' = acked
  <2>1. OpenFile'
    BY <1>1, <1>2, <1>4 DEF OpenFile, Idle
  <2> QED
    BY <1>1, <1>2, <1>4, <2>1 DEF SafeInv, RepairsApart, BlocksSurvive
<1>5. CASE Append1(n, BlockPiece(call.block))
  <2>1. /\ disk'[n] = Append(disk[n], BlockPiece(call.block))
        /\ Grown /\ DOMAIN disk' = DOMAIN disk
    BY <1>1, <1>5, PieceTypes, AppendOne
  <2>2. /\ WellFormed(disk'[n]) /\ Len(disk'[n]) = Len(disk[n]) + 1
        /\ Len(disk'[n]) >= 2 /\ disk'[n][Len(disk'[n])] = BlockPiece(call.block)
    BY <1>1, <2>1, OneMoreBlock
  <2>3. OpenFile'
    <3>1. CASE call' = Idle
      BY <1>2, <2>2, <3>1 DEF OpenFile, Idle
    <3>2. CASE call' = At(call, "sync")
      <4>1. call'.pc = "sync" /\ call'.block = call.block
        BY <1>1, <3>2, WriteMoves
      <4> QED
        BY <1>2, <2>2, <4>1 DEF OpenFile
    <3> QED
      BY <1>3, <3>1, <3>2
  <2>4. RepairsApart'
    BY <1>1, <1>2, <1>5, PieceTypes, RepairsOfOthers
  <2>5. BlocksSurvive'
    <3> DEFINE new == Place(n, Len(disk[n]) + 1, call.block)
    <3>1. /\ new.file \in DOMAIN disk' /\ new.at \in 2..Len(disk'[new.file])
          /\ disk'[new.file][1] = Header
          /\ disk'[new.file][new.at] = BlockPiece(new.block)
          /\ \A p \in 2..new.at : disk'[new.file][p].kind = "block"
      <4>1. Len(disk[n]) + 1 \in 2..Len(disk'[n])
        BY <1>1, <2>2
      <4> QED
        BY <1>1, <2>1, <2>2, <4>1 DEF Place, WellFormed
    <3> HIDE DEF new
    <3>2. \A a \in acked : Holds(a)'
      BY <2>1, SurviveIs, GrownHolds DEF SafeInv
    <3>3. \A a \in acked' : a \in acked \/ a = new
      BY <1>3 DEF new
    <3> QED
      BY <3>1, <3>2, <3>3 DEF BlocksSurvive, Holds
  <2> QED
    BY <2>3, <2>4, <2>5
<1> QED
  BY <1>3, <1>4, <1>5

LEMMA SafeSyncBatch ==
  ASSUME SafeInv, Typed', SyncBatch
  PROVE  OpenFile' /\ RepairsApart' /\ BlocksSurvive'
<1> DEFINE n == builder.file
<1>1. /\ n \in DOMAIN disk /\ n # NoFile /\ WellFormed(disk[n]) /\ Len(disk[n]) >= 2
      /\ Len(disk[n]) \in Nat
      /\ disk[n][Len(disk[n])] = BlockPiece(call.block)
      /\ UNCHANGED disk /\ UNCHANGED repair
  BY DEF SafeInv, OpenFile, Typed, TypeOK, DiskTyped, SyncBatch, Places
<1>2. builder'.file = n
  BY DEF SafeInv, Typed, TypeOK, BuilderTyped, SyncBatch
<1>3. OpenFile'
  BY <1>1, <1>2 DEF OpenFile, SyncBatch, Idle
<1>4. RepairsApart'
  BY <1>1, <1>2 DEF SafeInv, RepairsApart
<1>5. BlocksSurvive'
  <2> DEFINE new == Place(n, Len(disk[n]), call.block)
  <2>1. Holds(new)
    BY <1>1 DEF Holds, Place, WellFormed
  <2>2. \A a \in acked' : a \in acked \/ a = new
    BY DEF SyncBatch
  <2> HIDE DEF new
  <2>3. \A a \in acked' : Holds(a)
    BY <2>1, <2>2, SurviveIs DEF SafeInv
  <2> QED
    BY <1>1, <2>3 DEF BlocksSurvive, Holds
<1> QED
  BY <1>3, <1>4, <1>5

LEMMA SafeFooter ==
  ASSUME SafeInv, Typed', WriteSegmentFooter
  PROVE  OpenFile' /\ RepairsApart' /\ BlocksSurvive'
<1>1. /\ call \in WriteCalls \/ call \in CloseCalls
      /\ call.written \in Nat /\ call.pc = "footer" /\ DiskTyped
      /\ builder.file # NoFile /\ builder.file \in DOMAIN disk
      /\ builder.indices \in Seq(Indices)
      /\ UNCHANGED acked /\ UNCHANGED repair /\ UNCHANGED builder
  BY CallFields DEF SafeInv, Typed, TypeOK, BuilderTyped, WriteSegmentFooter, Places
<1>2. \E x \in Pieces : disk' = disk \/ Append1(builder.file, x)
  <2>1. ASSUME call.written < Len(builder.indices)
        PROVE  builder.indices[call.written + 1] \in Pieces
    <3>1. call.written + 1 \in 1..Len(builder.indices)
      BY <1>1, <2>1
    <3>2. builder.indices[call.written + 1] \in Indices
      BY <1>1, <3>1
    <3> QED
      BY <3>2, PieceTypes
  <2>2. Footer(Len(builder.indices)) \in Pieces
    BY <1>1, PieceTypes
  <2> QED
    BY <2>1, <2>2, PieceTypes DEF WriteSegmentFooter, WriteFails
<1>3. PICK x \in Pieces : disk' = disk \/ Append1(builder.file, x)
  BY <1>2
<1>4. RepairsApart'
  BY <1>1, <1>3, RepairsOfOthers
<1>5. BlocksSurvive'
  BY <1>1, <1>3, AppendOne, SameGrown, GrownKeeps DEF SafeInv
<1>6. call'.pc \in {"footer", "close"}
  <2>1. call' = OneMore(call) \/ call' = At(call, "close")
    BY DEF WriteSegmentFooter, At, OneMore
  <2> QED
    BY <1>1, <2>1, WriteMoves, CloseMoves
<1>7. OpenFile'
  BY <1>6 DEF OpenFile
<1> QED
  BY <1>4, <1>5, <1>7

LEMMA SafeFinish ==
  ASSUME SafeInv, Typed', FinishSegment
  PROVE  OpenFile' /\ RepairsApart' /\ BlocksSurvive'
<1>1. /\ call.then \in {"create", "idle"}
      /\ call.then = "create" => call \in WriteCalls
      /\ UNCHANGED disk /\ UNCHANGED acked /\ UNCHANGED repair
      /\ builder'.file = NoFile
  BY CallFields, ClosedTyped DEF SafeInv, Typed, TypeOK, BuilderTyped, FinishSegment
<1>2. call'.pc \in {"create", "idle"}
  <2>1. CASE call.then = "idle"
    BY <2>1 DEF FinishSegment, Idle
  <2>2. CASE call.then = "create"
    <3>1. call' = At(call, "create")
      BY <2>2 DEF FinishSegment, At
    <3> QED
      BY <1>1, <2>2, <3>1, WriteMoves
  <2> QED
    BY <1>1, <2>1, <2>2
<1>3. OpenFile'
  BY <1>1, <1>2 DEF OpenFile
<1>4. RepairsApart'
  <2>1. repair.pc # "idle" => repair.file # NoFile
    BY RepairTyped, Numbers DEF SafeInv, Typed, TypeOK
  <2> QED
    BY <1>1, <2>1 DEF SafeInv, RepairsApart
<1>5. BlocksSurvive'
  BY <1>1 DEF SafeInv, BlocksSurvive
<1> QED
  BY <1>3, <1>4, <1>5

LEMMA SafeRepair ==
  ASSUME SafeInv, Typed', NEW n \in DOMAIN disk, RepairSegment(n)
  PROVE  OpenFile' /\ RepairsApart' /\ BlocksSurvive'
<1>1. UNCHANGED disk /\ UNCHANGED acked /\ UNCHANGED builder /\ UNCHANGED call
  BY DEF RepairSegment, files
<1>2. OpenFile' /\ BlocksSurvive'
  BY <1>1 DEF SafeInv, OpenFile, BlocksSurvive
<1>3. PICK e \in 2..Len(disk[n]) :
        /\ Scanned(disk[n], e)
        /\ repair' = [pc |-> "truncate", file |-> n, end |-> e,
                      done |-> 1, count |-> 0]
  BY DEF RepairSegment
<1>4. n # builder.file
  BY DEF RepairSegment
<1>5. RepairsApart'
  BY <1>1, <1>3, <1>4 DEF RepairsApart
<1> QED
  BY <1>2, <1>5

LEMMA SafeFooterAt ==
  ASSUME SafeInv, Typed', WriteFooterAt
  PROVE  OpenFile' /\ RepairsApart' /\ BlocksSurvive'
<1>1. /\ repair.file \in DOMAIN disk /\ DiskTyped /\ repair.file # builder.file
      /\ UNCHANGED acked /\ UNCHANGED builder /\ UNCHANGED call
      /\ builder.file \in DOMAIN disk \/ builder.file = NoFile
      /\ call.pc \in {"header", "header_sync", "append", "sync"} => builder.file # NoFile
  BY DEF SafeInv, RepairsApart, Typed, TypeOK, Places, WriteFooterAt
<1>2. repair'.pc = "idle" \/ (repair'.file = repair.file /\ repair'.pc = "footer")
  BY FooterAtMoves DEF SafeInv, Typed, TypeOK
<1>3. /\ Grown
      /\ \A m \in DOMAIN disk : m # repair.file => disk'[m] = disk[m]
  BY <1>1, FooterAtWrites DEF SafeInv
<1>4. OpenFile'
  BY <1>1, <1>3 DEF SafeInv, OpenFile
<1>5. RepairsApart'
  BY <1>1, <1>2 DEF RepairsApart
<1>6. BlocksSurvive'
  BY <1>1, <1>3, GrownKeeps DEF SafeInv
<1> QED
  BY <1>4, <1>5, <1>6

\* The blocks of a file are not behind the last whole block a scan finds.
LEMMA HoldsWithin ==
  ASSUME Typed, NEW a, Holds(a), NEW e \in Nat, Scanned(disk[a.file], e)
  PROVE  a.at <= e
<1>1. Len(disk[a.file]) \in Nat /\ a.at \in 2..Len(disk[a.file])
  BY DEF Typed, TypeOK, DiskTyped, Holds
<1> SUFFICES ASSUME ~ (a.at <= e) PROVE FALSE
  OBVIOUS
<1>2. e \in 1..Len(disk[a.file]) /\ e + 1 \in 2..a.at /\ e < Len(disk[a.file])
  BY <1>1 DEF Scanned
<1>3. disk[a.file][e + 1].kind = "block"
  BY <1>2 DEF Holds
<1>4. disk[a.file][e + 1].kind # "block"
  BY <1>2 DEF Scanned
<1> QED
  BY <1>3, <1>4

LEMMA TruncateIs ==
  ASSUME SafeInv, TruncateFile, ~ UNCHANGED files
  PROVE  /\ repair.file \in DOMAIN disk /\ repair.end \in Nat
         /\ Scanned(disk[repair.file], repair.end)
         /\ DOMAIN disk' = DOMAIN disk
         /\ \A n \in DOMAIN disk : n # repair.file => disk'[n] = disk[n]
         /\ Len(disk'[repair.file]) = repair.end
         /\ \A p \in 1..repair.end : disk'[repair.file][p] = disk[repair.file][p]
<1> DEFINE f == disk[repair.file]
<1>1. /\ repair.file \in DOMAIN disk /\ repair.end \in Nat
      /\ Scanned(f, repair.end) /\ repair.end <= Len(f)
      /\ f \in Seq(Pieces)
  BY RepairTyped
     DEF SafeInv, Typed, TypeOK, DiskTyped, Places, RepairsApart, TruncateFile
<1>2. /\ disk' = [disk EXCEPT ![repair.file] = SubSeq(f, 1, repair.end)]
  BY DEF TruncateFile
<1>3. /\ DOMAIN disk' = DOMAIN disk
      /\ \A n \in DOMAIN disk : n # repair.file => disk'[n] = disk[n]
      /\ disk'[repair.file] = SubSeq(f, 1, repair.end)
  BY <1>1, <1>2 DEF SafeInv, Typed, TypeOK, DiskTyped
<1>4. \A p \in 1..repair.end : f[p] \in Pieces
  BY <1>1
<1> HIDE DEF f
<1>5. /\ Len(SubSeq(f, 1, repair.end)) = repair.end
      /\ \A p \in 1..(repair.end - 1 + 1) : SubSeq(f, 1, repair.end)[p] = f[1 + p - 1]
  BY <1>1, <1>4, SubSeqProperties
<1>6. \A p \in 1..repair.end : SubSeq(f, 1, repair.end)[p] = f[p]
  BY <1>1, <1>5
<1> QED
  BY <1>1, <1>3, <1>5, <1>6 DEF f

LEMMA SafeTruncate ==
  ASSUME SafeInv, Typed', TruncateFile
  PROVE  OpenFile' /\ RepairsApart' /\ BlocksSurvive'
<1>1. /\ repair.file # builder.file /\ repair.pc = "truncate"
      /\ UNCHANGED acked /\ UNCHANGED builder /\ UNCHANGED call
      /\ builder.file \in DOMAIN disk \/ builder.file = NoFile
      /\ call.pc \in {"header", "header_sync", "append", "sync"} => builder.file # NoFile
  BY DEF SafeInv, RepairsApart, Typed, Places, TruncateFile
<1>2. repair'.pc = "idle" \/ (repair'.file = repair.file /\ repair'.pc = "footer")
  <2>1. repair' = Idle \/ repair' = [repair EXCEPT !.pc = "footer"]
    BY DEF TruncateFile
  <2>2. repair \in [pc : {"truncate", "footer"}, file : Names, end : Nat,
                   done : Nat, count : Nat]
    BY <1>1, RepairTyped DEF SafeInv, Typed, TypeOK, Repairs
  <2> QED
    BY <2>1, <2>2 DEF Idle
<1>3. RepairsApart'
  BY <1>1, <1>2 DEF RepairsApart
<1>4. CASE UNCHANGED files
  BY <1>1, <1>3, <1>4 DEF SafeInv, OpenFile, BlocksSurvive, files
<1>5. CASE ~ UNCHANGED files
  <2>1. OpenFile'
    BY <1>1, <1>5, TruncateIs DEF SafeInv, OpenFile
  <2>2. \A a \in acked : Holds(a)'
    <3> TAKE a \in acked
    <3>1. Holds(a)
      BY SurviveIs DEF SafeInv
    <3>2. /\ a.file \in DOMAIN disk /\ a.at \in 2..Len(disk[a.file])
          /\ Len(disk[a.file]) \in Nat /\ Len(disk'[a.file]) \in Nat
          /\ a.file \in DOMAIN disk'
      <4>1. a.file \in DOMAIN disk /\ a.at \in 2..Len(disk[a.file])
        BY <3>1 DEF Holds
      <4>2. a.file \in DOMAIN disk'
        BY <1>5, <4>1, TruncateIs
      <4>3. Len(disk[a.file]) \in Nat
        BY <4>1 DEF SafeInv, Typed, TypeOK, DiskTyped
      <4>4. Len(disk'[a.file]) \in Nat
        BY <4>2 DEF Typed, TypeOK, DiskTyped
      <4> QED
        BY <4>1, <4>2, <4>3, <4>4
    <3>3. CASE a.file = repair.file
      <4>1. a.at <= repair.end
        BY <1>5, <3>1, <3>3, TruncateIs, HoldsWithin DEF SafeInv
      <4>2. /\ a.at <= Len(disk'[a.file])
            /\ \A p \in 1..repair.end : disk'[a.file][p] = disk[a.file][p]
            /\ repair.end \in Nat
        BY <1>5, <3>3, <4>1, TruncateIs
      <4>3. \A p \in 1..a.at : p \in 1..repair.end
        BY <3>2, <4>1, <4>2
      <4> QED
        BY <3>1, <3>2, <4>2, <4>3, PrefixHolds
    <3>4. CASE a.file # repair.file
      <4>1. disk'[a.file] = disk[a.file]
        BY <1>5, <3>2, <3>4, TruncateIs
      <4> QED
        BY <3>1, <3>2, <4>1, PrefixHolds
    <3> QED
      BY <3>3, <3>4
  <2> QED
    BY <1>1, <1>3, <2>1, <2>2 DEF BlocksSurvive, Holds
<1> QED
  BY <1>4, <1>5

LEMMA SafeStopped ==
  ASSUME Stopped PROVE OpenFile' /\ RepairsApart'
BY ClosedTyped DEF Stopped, OpenFile, RepairsApart, Idle

LEMMA SafeCrash ==
  ASSUME SafeInv, Typed', Crash
  PROVE  OpenFile' /\ RepairsApart' /\ BlocksSurvive'
<1>1. acked' = acked /\ Stopped
  BY DEF Crash
<1> QED
  BY <1>1, CrashTyped, GrownKeeps, SafeStopped DEF SafeInv

LEMMA SafePowerLoss ==
  ASSUME SafeInv, Typed', PowerLoss
  PROVE  OpenFile' /\ RepairsApart' /\ BlocksSurvive'
<1>1. OpenFile' /\ RepairsApart'
  BY SafeStopped DEF PowerLoss
<1>2. PICK lost \in [DOMAIN disk -> 0..MaxLoss], torn \in BOOLEAN :
           /\ disk' = [n \in DOMAIN disk |-> AfterLoss(n, Kept(n, lost[n]), torn)]
           /\ acked' = {a \in acked : a.at <= Kept(a.file, lost[a.file])}
  BY PowerLossIs DEF SafeInv
<1>3. ASSUME NEW a \in acked'
      PROVE  Holds(a)'
  <2>1. Holds(a) /\ a \in acked /\ a.at <= Kept(a.file, lost[a.file])
    BY <1>2, <1>3, SurviveIs DEF SafeInv
  <2>2. /\ a.file \in DOMAIN disk /\ a.file \in DOMAIN disk'
        /\ a.at \in Int /\ 2 <= a.at /\ DiskTyped /\ lost[a.file] \in Nat
    BY <1>2, <2>1, Numbers DEF Holds, SafeInv, Typed, TypeOK
  <2> DEFINE k == Kept(a.file, lost[a.file])
  <2>3. k \in Nat /\ k <= Len(disk[a.file])
    BY <2>2, KeptIs
  <2>4. disk'[a.file] = AfterLoss(a.file, k, torn)
    BY <1>2, <2>2
  <2> HIDE DEF k
  <2>5. /\ Len(disk'[a.file]) \in {k, k + 1}
        /\ \A p \in 1..k : disk'[a.file][p] = disk[a.file][p]
    BY <2>2, <2>3, <2>4, AfterLossIs
  <2>6. /\ a.at <= k
    BY <2>1 DEF k
  <2>7. /\ a.at <= Len(disk'[a.file]) /\ Len(disk'[a.file]) \in Nat
        /\ \A p \in 1..a.at : p \in 1..k
    BY <2>2, <2>3, <2>5, <2>6
  <2> QED
    BY <2>1, <2>2, <2>5, <2>7, PrefixHolds
<1>4. BlocksSurvive'
  BY <1>3 DEF BlocksSurvive, Holds
<1> QED
  BY <1>1, <1>4

LEMMA SafeInit == Init => OpenFile /\ RepairsApart /\ BlocksSurvive
BY ClosedTyped DEF Init, OpenFile, RepairsApart, BlocksSurvive, Idle

LEMMA SafeNext ==
  ASSUME SafeInv, NamesSuffice, WholeWrites, [Next]_vars
  PROVE  SafeInv'
<1>1. Typed' /\ Counted'
  BY NextTyped, NextCounted DEF SafeInv
<1>2. OpenFile' /\ RepairsApart' /\ BlocksSurvive'
  <2>1. CASE (\E b \in Blocks : WriteBlock(b)) \/ CloseCurrentSegment \/ FlushPending
    BY <1>1, <2>1, SafeCalls
  <2>2. CASE BuilderStep
    BY <1>1, <2>2, SafeOpen, SafeHeader, SafeHeaderSync, SafeAppend, SafeSyncBatch,
       SafeFooter, SafeFinish DEF BuilderStep
  <2>3. CASE RepairStep
    BY <1>1, <2>3, SafeRepair, SafeTruncate, SafeFooterAt DEF RepairStep
  <2>4. CASE Crash \/ PowerLoss
    BY <1>1, <2>4, SafeCrash, SafePowerLoss
  <2>5. CASE UNCHANGED vars
    BY <2>5, SafeStutter
  <2> QED
    BY <2>1, <2>2, <2>3, <2>4, <2>5 DEF Next
<1> QED
  BY <1>1, <1>2 DEF SafeInv

\* A block reported written stays where it is, behind whole blocks only, through
\* any number of failed writes, crashes, power losses and repairs: provided that
\* write() puts down all or nothing of a block and that names do not run out.
THEOREM BlocksNeverLost == NamesSuffice /\ WholeWrites => (Spec => []BlocksSurvive)
<1> SUFFICES ASSUME NamesSuffice, WholeWrites PROVE Spec => []BlocksSurvive
  OBVIOUS
<1>1. Init => SafeInv
  BY InitTyped, InitCounted, SafeInit DEF SafeInv
<1>2. SafeInv /\ [Next]_vars => SafeInv'
  BY SafeNext
<1>3. SafeInv => BlocksSurvive
  BY DEF SafeInv
<1> QED
  BY <1>1, <1>2, <1>3, PTL DEF Spec

(***************************************************************************)
(* What a power loss may take.                                             *)
(***************************************************************************)
Unsynced(n) == {a \in acked : a.file = n /\ a.at > durable[n]}

\* With full syncing: fewer than sync_blocks of each file, and of the file being
\* written no more than m_unflushed_blocks.
FewUnsynced ==
  level = "full" =>
    /\ \A n \in DOMAIN disk : Cardinality(Unsynced(n)) < SyncBlocks
    /\ \A n \in DOMAIN disk : n = builder.file =>
                                Cardinality(Unsynced(n)) <= builder.unflushed

\* A finished file is on the disk to its last block, and is not written any more.
FinishedSynced ==
  /\ \A r \in finished : r.file \in DOMAIN disk /\ r.file # builder.file
  /\ level = "full" =>
       \A r \in finished, a \in acked : a.file = r.file => a.at <= durable[a.file]

LossInv == IsFiniteSet(acked) /\ FewUnsynced /\ FinishedSynced

LEMMA AckedFacts ==
  ASSUME SafeInv
  PROVE  \A a \in acked : /\ a.file \in DOMAIN disk /\ a.at \in Nat
                          /\ durable[a.file] \in Nat
                          /\ a.at <= Len(disk[a.file])
<1> TAKE a \in acked
<1>1. a.file \in DOMAIN disk /\ a.at \in 2..Len(disk[a.file]) /\ a.at \in Nat
  BY DEF SafeInv, BlocksSurvive, Typed, TypeOK, DiskTyped
<1>2. durable[a.file] \in Nat /\ Len(disk[a.file]) \in Nat
  BY <1>1 DEF SafeInv, Typed, TypeOK, DiskTyped
<1> QED
  BY <1>1, <1>2

LEMMA AckedFactsNext ==
  ASSUME SafeInv'
  PROVE  \A a \in acked' : /\ a.file \in DOMAIN disk' /\ a.at \in Nat
                           /\ durable'[a.file] \in Nat
                           /\ a.at <= Len(disk'[a.file])
<1> TAKE a \in acked'
<1>1. a.file \in DOMAIN disk' /\ a.at \in 2..Len(disk'[a.file]) /\ a.at \in Nat
  BY DEF SafeInv, BlocksSurvive, Typed, TypeOK, DiskTyped
<1>2. durable'[a.file] \in Nat /\ Len(disk'[a.file]) \in Nat
  BY <1>1 DEF SafeInv, Typed, TypeOK, DiskTyped
<1> QED
  BY <1>1, <1>2

LEMMA UnsyncedShrinks ==
  ASSUME IsFiniteSet(acked), NEW n, Unsynced(n)' \subseteq Unsynced(n)
  PROVE  /\ Cardinality(Unsynced(n)) \in Nat /\ Cardinality(Unsynced(n)') \in Nat
         /\ Cardinality(Unsynced(n)') <= Cardinality(Unsynced(n))
<1>1. IsFiniteSet(Unsynced(n))
  BY FS_Subset DEF Unsynced
<1>2. IsFiniteSet(Unsynced(n)') /\ Cardinality(Unsynced(n)') <= Cardinality(Unsynced(n))
  BY <1>1, FS_Subset
<1> QED
  BY <1>1, <1>2, FS_CardinalityType

\* Steps that promise nothing more and unsync nothing that was promised.
LEMMA LossQuiet ==
  ASSUME SafeInv, SafeInv', LossInv, acked' \subseteq acked,
         \A a \in acked' : a.at > durable'[a.file] => a.at > durable[a.file],
         DOMAIN disk' = DOMAIN disk, finished' = finished, level' = level,
         builder'.file = NoFile \/ (builder'.file = builder.file
                                    /\ builder'.unflushed = builder.unflushed)
  PROVE  LossInv'
<1>1. IsFiniteSet(acked')
  BY FS_Subset DEF LossInv
<1>2. \A n : Unsynced(n)' \subseteq Unsynced(n)
  BY DEF Unsynced
<1>3. \A n : /\ Cardinality(Unsynced(n)) \in Nat /\ Cardinality(Unsynced(n)') \in Nat
              /\ Cardinality(Unsynced(n)') <= Cardinality(Unsynced(n))
  BY <1>2, UnsyncedShrinks DEF LossInv
<1>4. ASSUME level = "full", NEW n \in DOMAIN disk'
      PROVE  /\ Cardinality(Unsynced(n)') < SyncBlocks
             /\ n = builder'.file => Cardinality(Unsynced(n)') <= builder'.unflushed
  <2>1. Cardinality(Unsynced(n)) < SyncBlocks
    BY <1>4 DEF LossInv, FewUnsynced
  <2>2. n # NoFile
    BY Numbers DEF SafeInv, Typed, TypeOK, DiskTyped
  <2>3. builder.unflushed \in Nat
    BY DEF SafeInv, Typed, TypeOK, BuilderTyped
  <2>4. n = builder'.file => /\ Cardinality(Unsynced(n)) <= builder.unflushed
                             /\ builder'.unflushed = builder.unflushed
    BY <1>4, <2>2 DEF LossInv, FewUnsynced
  <2>5. Cardinality(Unsynced(n)') < SyncBlocks
    BY <1>3, <2>1, Numbers
  <2>6. n = builder'.file => Cardinality(Unsynced(n)') <= builder'.unflushed
    BY <1>3, <2>3, <2>4
  <2> QED
    BY <2>5, <2>6
<1>5. FewUnsynced'
  BY <1>4 DEF FewUnsynced
<1>6. \A r \in finished' : r.file \in DOMAIN disk' /\ r.file # builder'.file
  <2>1. \A r \in finished : r.file # NoFile
    BY Numbers DEF SafeInv, Typed, TypeOK, BuilderTyped
  <2> QED
    BY <2>1 DEF LossInv, FinishedSynced
<1>7. ASSUME level = "full", NEW r \in finished, NEW a \in acked', a.file = r.file
      PROVE  a.at <= durable'[a.file]
  <2>1. a.at <= durable[a.file]
    BY <1>7 DEF LossInv, FinishedSynced
  <2>2. a.at \in Nat /\ durable[a.file] \in Nat /\ durable'[a.file] \in Nat
    BY AckedFacts, AckedFactsNext
  <2> QED
    BY <2>1, <2>2
<1> QED
  BY <1>1, <1>5, <1>6, <1>7 DEF LossInv, FinishedSynced

\* A sync of the file being written: nothing of it is left unsynced.
LEMMA LossSynced ==
  ASSUME SafeInv, SafeInv', LossInv, SyncOk, builder.file \in DOMAIN disk,
         UNCHANGED disk, finished' = finished, level' = level,
         builder'.file = builder.file,
         NEW new, new.file = builder.file, acked' \subseteq acked \cup {new}
  PROVE  LossInv'
<1>1. IsFiniteSet(acked')
  <2>1. IsFiniteSet(acked \cup {new})
    BY FS_AddElement DEF LossInv
  <2> QED
    BY <2>1, FS_Subset
<1>2. ASSUME level = "full"
      PROVE  /\ durable'[builder.file] = Len(disk[builder.file])
             /\ \A n \in DOMAIN disk : n # builder.file => durable'[n] = durable[n]
  BY <1>2 DEF SyncOk, SafeInv, Typed, TypeOK, DiskTyped
<1>3. ASSUME level = "full", NEW n \in DOMAIN disk
      PROVE  /\ Cardinality(Unsynced(n)') < SyncBlocks
             /\ n = builder.file => Cardinality(Unsynced(n)') = 0
  <2>1. CASE n = builder.file
    <3>1. Unsynced(n)' = {}
      <4>1. \A a \in acked' : a.file = n => /\ a.at \in Nat /\ a.at <= Len(disk[n])
                                           /\ Len(disk[n]) \in Nat
        BY AckedFactsNext, <2>1 DEF SafeInv, Typed, TypeOK, DiskTyped
      <4>2. durable'[n] = Len(disk[n])
        BY <1>2, <1>3, <2>1
      <4> QED
        BY <4>1, <4>2 DEF Unsynced
    <3> QED
      BY <3>1, FS_EmptySet, Numbers
  <2>2. CASE n # builder.file
    <3>1. durable'[n] = durable[n]
      BY <1>2, <1>3, <2>2
    <3>2. Unsynced(n)' \subseteq Unsynced(n)
      BY <2>2, <3>1 DEF Unsynced
    <3>3. Cardinality(Unsynced(n)) < SyncBlocks
      BY <1>3 DEF LossInv, FewUnsynced
    <3> QED
      BY <2>2, <3>2, <3>3, UnsyncedShrinks, Numbers DEF LossInv
  <2> QED
    BY <2>1, <2>2
<1>4. FewUnsynced'
  <2>1. builder'.unflushed \in Nat
    BY DEF SafeInv, Typed, TypeOK, BuilderTyped
  <2> QED
    BY <1>3, <2>1 DEF FewUnsynced
<1>5. FinishedSynced'
  <2>1. ASSUME level = "full", NEW r \in finished, NEW a \in acked', a.file = r.file
        PROVE  a.at <= durable'[a.file]
    <3>1. r.file # builder.file /\ r.file \in DOMAIN disk
      BY DEF LossInv, FinishedSynced
    <3>2. a \in acked /\ durable'[a.file] = durable[a.file]
      BY <1>2, <2>1, <3>1
    <3> QED
      BY <2>1, <3>2 DEF LossInv, FinishedSynced
  <2> QED
    BY <2>1 DEF LossInv, FinishedSynced
<1> QED
  BY <1>1, <1>4, <1>5 DEF LossInv

LEMMA LossOpen ==
  ASSUME SafeInv, SafeInv', LossInv, NamesSuffice, OpenSegment
  PROVE  LossInv'
<1>1. /\ call \in WriteCalls /\ call.block \in Blocks /\ builder.file = NoFile
      /\ call.pc = "create" /\ calls \in 0..MaxCalls
      /\ UNCHANGED acked /\ UNCHANGED finished /\ UNCHANGED level
  BY CallFields, WriteMoves DEF SafeInv, Typed, TypeOK, BuilderTyped, OpenSegment, Places
<1>2. CASE UNCHANGED <<files, builder>>
  BY <1>1, <1>2, LossQuiet DEF files
<1>3. ASSUME NEW name \in Names, name \notin DOMAIN disk,
             disk' = Truncated(disk, name, <<>>),
             durable' = Truncated(durable, name, 0),
             builder' = [builder EXCEPT !.file = name]
      PROVE  LossInv'
  <2>1. /\ DOMAIN disk' = DOMAIN disk \cup {name}
        /\ \A n \in DOMAIN disk : durable'[n] = durable[n]
    BY <1>3 DEF Truncated
  <2>2. builder'.file = name /\ builder'.unflushed \in Nat
    BY <1>3 DEF SafeInv, Typed, TypeOK, BuilderTyped
  <2>3. \A a \in acked : a.file \in DOMAIN disk
    BY AckedFacts
  <2>4. \A n \in DOMAIN disk : Unsynced(n)' \subseteq Unsynced(n)
    BY <1>1, <2>1 DEF Unsynced
  <2>5. Cardinality(Unsynced(name)') = 0
    <3>1. Unsynced(name)' = {}
      BY <1>1, <1>3, <2>3 DEF Unsynced
    <3> QED
      BY <3>1, FS_EmptySet
  <2>6. ASSUME level = "full", NEW n \in DOMAIN disk
        PROVE  Cardinality(Unsynced(n)') < SyncBlocks
    <3>1. Cardinality(Unsynced(n)) < SyncBlocks
      BY <2>6 DEF LossInv, FewUnsynced
    <3> QED
      BY <2>4, <3>1, UnsyncedShrinks, Numbers DEF LossInv
  <2>7. FewUnsynced'
    <3>1. ASSUME level = "full", NEW n \in DOMAIN disk'
          PROVE  /\ Cardinality(Unsynced(n)') < SyncBlocks
                 /\ n = builder'.file => Cardinality(Unsynced(n)') <= builder'.unflushed
      <4>1. CASE n = name
        BY <2>2, <2>5, <4>1, Numbers
      <4>2. CASE n # name
        BY <2>1, <2>2, <2>6, <3>1, <4>2
      <4> QED
        BY <4>1, <4>2
    <3> QED
      BY <1>1, <3>1 DEF FewUnsynced
  <2>8. FinishedSynced'
    BY <1>1, <1>3, <2>1, <2>2, <2>3 DEF LossInv, FinishedSynced
  <2> QED
    BY <1>1, <2>7, <2>8 DEF LossInv
<1>4. ASSUME NEW q \in 0..LastSequence, NewName(call.block.start, q)
      PROVE  /\ SegmentName(call.block.start, q) \in Names
             /\ SegmentName(call.block.start, q) \notin DOMAIN disk
  BY <1>1, <1>4, Numbers, NameTyped, NameIsFree DEF SafeInv
<1> QED
  BY <1>2, <1>3, <1>4 DEF OpenSegment

LEMMA LossAppend ==
  ASSUME SafeInv, SafeInv', LossInv, AppendBlock
  PROVE  LossInv'
<1>1. CASE acked' = acked /\ disk' = disk /\ UNCHANGED builder
  BY <1>1, LossQuiet DEF AppendBlock
<1>2. CASE ~ (acked' = acked /\ disk' = disk /\ UNCHANGED builder)
  <2> DEFINE new == Place(builder.file, BlockOffset(builder.file), call.block)
  <2>1. PICK n \in DOMAIN disk : n = builder.file
    BY DEF SafeInv, Typed, Places, AppendBlock
  <2>2. /\ UNCHANGED durable /\ UNCHANGED finished /\ UNCHANGED level
        /\ DOMAIN disk' = DOMAIN disk
    BY DEF AppendBlock, Append1
  <2>3. /\ builder'.file = builder.file /\ builder'.unflushed = builder.unflushed + 1
        /\ builder.unflushed \in Nat
    BY <1>2 DEF AppendBlock, SafeInv, Typed, TypeOK, BuilderTyped
  <2>4. IF builder.unflushed + 1 >= SyncBlocks THEN acked' = acked
        ELSE acked' = acked \cup {new}
    BY <1>2 DEF AppendBlock, SyncDue
  <2>5. new.file = builder.file
    BY DEF Place
  <2> HIDE DEF new
  <2>6. IsFiniteSet(acked')
    BY <2>4, FS_AddElement DEF LossInv
  <2>7. ASSUME level = "full", NEW m \in DOMAIN disk
        PROVE  /\ Cardinality(Unsynced(m)') < SyncBlocks
               /\ m = n => Cardinality(Unsynced(m)') <= builder.unflushed + 1
    <3>1. /\ Cardinality(Unsynced(m)) < SyncBlocks
          /\ m = n => Cardinality(Unsynced(m)) <= builder.unflushed
      BY <2>1, <2>7 DEF LossInv, FewUnsynced
    <3>2. CASE Unsynced(m)' \subseteq Unsynced(m)
      BY <2>3, <3>1, <3>2, UnsyncedShrinks, Numbers DEF LossInv
    <3>3. CASE ~ (Unsynced(m)' \subseteq Unsynced(m))
      <4>1. /\ ~ (builder.unflushed + 1 >= SyncBlocks) /\ m = n
            /\ Unsynced(m)' \subseteq Unsynced(m) \cup {new}
        BY <2>1, <2>2, <2>4, <2>5, <3>3 DEF Unsynced
      <4>2. IsFiniteSet(Unsynced(m))
        BY FS_Subset DEF Unsynced, LossInv
      <4>3. /\ IsFiniteSet(Unsynced(m) \cup {new})
            /\ Cardinality(Unsynced(m) \cup {new}) <= Cardinality(Unsynced(m)) + 1
            /\ Cardinality(Unsynced(m)) \in Nat
        <5>1. Cardinality(Unsynced(m)) \in Nat
          BY <4>2, FS_CardinalityType
        <5> QED
          BY <4>2, <5>1, FS_AddElement
      <4>4. /\ Cardinality(Unsynced(m)') <= Cardinality(Unsynced(m) \cup {new})
            /\ Cardinality(Unsynced(m)') \in Nat
            /\ Cardinality(Unsynced(m) \cup {new}) \in Nat
        BY <4>1, <4>3, FS_Subset, FS_CardinalityType
      <4> QED
        BY <2>3, <3>1, <4>1, <4>3, <4>4, Numbers
    <3> QED
      BY <3>2, <3>3
  <2>8. FewUnsynced'
    BY <2>1, <2>2, <2>3, <2>7 DEF FewUnsynced
  <2>9. FinishedSynced'
    BY <2>2, <2>3, <2>4, <2>5 DEF LossInv, FinishedSynced
  <2> QED
    BY <2>6, <2>8, <2>9 DEF LossInv
<1> QED
  BY <1>1, <1>2

LEMMA LossFinish ==
  ASSUME SafeInv, SafeInv', LossInv, CloseSyncs, FinishSegment
  PROVE  LossInv'
<1>1. /\ UNCHANGED acked /\ UNCHANGED disk /\ UNCHANGED level
      /\ builder.file \in DOMAIN disk /\ builder.file # NoFile
      /\ builder'.file = NoFile
      /\ builder.path \in {NoFile, builder.file}
      /\ SyncOk
  BY ClosedTyped DEF FinishSegment, SyncFails, Fault, CloseSyncs, SafeInv, Typed, TypeOK,
     BuilderTyped, Places
<1>2. ASSUME level = "full"
      PROVE  /\ durable'[builder.file] = Len(disk[builder.file])
             /\ \A n \in DOMAIN disk : n # builder.file => durable'[n] = durable[n]
  BY <1>1, <1>2 DEF SyncOk, SafeInv, Typed, TypeOK, DiskTyped
<1>3. ASSUME level = "full", NEW n \in DOMAIN disk
      PROVE  Cardinality(Unsynced(n)') < SyncBlocks
  <2>1. Unsynced(n)' \subseteq Unsynced(n)
    <3>1. CASE n = builder.file
      <4>1. \A a \in acked : a.file = n => a.at \in Nat /\ a.at <= Len(disk[n])
        BY AckedFacts
      <4>2. Len(disk[n]) \in Nat
        BY DEF SafeInv, Typed, TypeOK, DiskTyped
      <4>3. Unsynced(n)' = {}
        BY <1>1, <1>2, <1>3, <3>1, <4>1, <4>2 DEF Unsynced
      <4> QED
        BY <4>3
    <3>2. CASE n # builder.file
      BY <1>1, <1>2, <1>3, <3>2 DEF Unsynced
    <3> QED
      BY <3>1, <3>2
  <2>2. Cardinality(Unsynced(n)) < SyncBlocks
    BY <1>3 DEF LossInv, FewUnsynced
  <2> QED
    BY <2>1, <2>2, UnsyncedShrinks, Numbers DEF LossInv
<1>4. FewUnsynced'
  <2>1. NoFile \notin DOMAIN disk
    BY Numbers DEF SafeInv, Typed, TypeOK, DiskTyped
  <2> QED
    BY <1>1, <1>3, <2>1 DEF FewUnsynced
<1>5. \A r \in finished' : r \in finished \/ r.file = builder.file
  BY <1>1 DEF FinishSegment
<1>6. \A r \in finished' : r.file \in DOMAIN disk' /\ r.file # builder'.file
  <2>1. NoFile \notin DOMAIN disk
    BY Numbers DEF SafeInv, Typed, TypeOK, DiskTyped
  <2> QED
    BY <1>1, <1>5, <2>1 DEF LossInv, FinishedSynced
<1>7. ASSUME level = "full", NEW r \in finished', NEW a \in acked, a.file = r.file
      PROVE  a.at <= durable'[a.file]
  <2>1. CASE r.file = builder.file
    BY <1>2, <1>7, <2>1, AckedFacts
  <2>2. CASE r.file # builder.file
    <3>1. r \in finished /\ r.file \in DOMAIN disk
      BY <1>5, <2>2 DEF LossInv, FinishedSynced
    <3> QED
      BY <1>2, <1>7, <2>2, <3>1 DEF LossInv, FinishedSynced
  <2> QED
    BY <2>1, <2>2
<1> QED
  BY <1>1, <1>4, <1>6, <1>7 DEF LossInv, FinishedSynced

LEMMA LossTruncate ==
  ASSUME SafeInv, SafeInv', LossInv, TruncateFile
  PROVE  LossInv'
<1>1. CASE UNCHANGED files
  BY <1>1, LossQuiet DEF TruncateFile, files
<1>2. CASE ~ UNCHANGED files
  <2>1. /\ repair.file \in DOMAIN disk /\ repair.end \in Nat
        /\ Scanned(disk[repair.file], repair.end)
        /\ DOMAIN disk' = DOMAIN disk
    BY <1>2, TruncateIs
  <2>2. durable' = [durable EXCEPT ![repair.file] =
                     IF @ > repair.end THEN repair.end ELSE @]
    BY <1>2 DEF TruncateFile
  <2>3. ASSUME NEW a \in acked, a.at > durable'[a.file]
        PROVE  a.at > durable[a.file]
    <3>1. /\ a.file \in DOMAIN disk /\ a.at \in Nat /\ durable[a.file] \in Nat
      BY AckedFacts
    <3>2. CASE a.file = repair.file
      <4>1. Holds(a)
        BY SurviveIs DEF SafeInv
      <4>2. a.at <= repair.end
        BY <2>1, <3>2, <4>1, HoldsWithin DEF SafeInv
      <4>3. durable'[a.file] = IF durable[a.file] > repair.end THEN repair.end
                               ELSE durable[a.file]
        BY <2>1, <2>2, <3>1, <3>2 DEF SafeInv, Typed, TypeOK, DiskTyped
      <4> QED
        BY <2>1, <2>3, <3>1, <4>2, <4>3
    <3>3. CASE a.file # repair.file
      BY <2>2, <2>3, <3>1, <3>3 DEF SafeInv, Typed, TypeOK, DiskTyped
    <3> QED
      BY <3>2, <3>3
  <2>4. /\ UNCHANGED acked /\ UNCHANGED builder /\ UNCHANGED finished /\ UNCHANGED level
    BY DEF TruncateFile
  <2> QED
    BY <2>1, <2>3, <2>4, LossQuiet
<1> QED
  BY <1>1, <1>2

LEMMA LossPowerLoss ==
  ASSUME SafeInv, SafeInv', LossInv, PowerLoss
  PROVE  LossInv'
<1>1. acked' \subseteq acked /\ DOMAIN disk' = DOMAIN disk
  BY PowerLossIs, PowerLossTyped DEF SafeInv
<1>2. \A a \in acked' : ~ (a.at > durable'[a.file])
  <2> TAKE a \in acked'
  <2>1. /\ a.file \in DOMAIN disk' /\ a.at \in Nat /\ durable'[a.file] \in Nat
        /\ a.at <= Len(disk'[a.file])
    BY AckedFactsNext
  <2>2. durable'[a.file] = Len(disk'[a.file])
    BY <1>1, <2>1 DEF PowerLoss
  <2> QED
    BY <2>1, <2>2
<1>3. builder'.file = NoFile /\ finished' = finished /\ level' = level
  BY ClosedTyped DEF PowerLoss, Stopped
<1> QED
  BY <1>1, <1>2, <1>3, LossQuiet

LEMMA LossNext ==
  ASSUME SafeInv, SafeInv', LossInv, NamesSuffice, CloseSyncs, [Next]_vars
  PROVE  LossInv'
<1>1. CASE \/ \E b \in Blocks : WriteBlock(b)
           \/ CloseCurrentSegment \/ (\E n \in DOMAIN disk : RepairSegment(n))
           \/ UNCHANGED vars
  <2>1. UNCHANGED <<disk, durable, acked, builder, finished, level>>
    BY <1>1 DEF WriteBlock, CloseCurrentSegment, RepairSegment, vars, files
  <2> QED
    BY <2>1, LossQuiet
<1>2. CASE WriteSegmentHeader \/ WriteSegmentFooter \/ WriteFooterAt
  <2>1. /\ UNCHANGED <<durable, acked, builder, finished, level>>
        /\ DOMAIN disk' = DOMAIN disk
    BY <1>2 DEF WriteSegmentHeader, WriteSegmentFooter, WriteFooterAt, WriteFails, Append1
  <2> QED
    BY <2>1, LossQuiet
<1>3. CASE SyncHeader
  <2>1. /\ UNCHANGED <<disk, acked, finished, level>>
        /\ builder'.file = builder.file /\ builder'.unflushed = builder.unflushed
    BY <1>3 DEF SyncHeader, SafeInv, Typed, TypeOK, BuilderTyped
  <2>2. \A a \in acked : a.at > durable'[a.file] => a.at > durable[a.file]
    <3> TAKE a \in acked
    <3>1. /\ a.at \in Nat /\ a.at <= Len(disk[a.file]) /\ a.file \in DOMAIN disk
      BY AckedFacts
    <3>2. Len(disk[a.file]) \in Nat
      BY <3>1 DEF SafeInv, Typed, TypeOK, DiskTyped
    <3>3. durable'[a.file] = durable[a.file] \/ durable'[a.file] = Len(disk[a.file])
      BY <1>3, <3>1 DEF SyncHeader, SyncOk, SyncFails, SafeInv, Typed, TypeOK, DiskTyped
    <3> QED
      BY <3>1, <3>2, <3>3
  <2> QED
    BY <2>1, <2>2, LossQuiet
<1>4. CASE FlushPending \/ SyncBatch
  <2>1. CASE SyncOk
    <3> DEFINE new == Place(builder.file, Len(disk[builder.file]), call.block)
    <3>1. /\ UNCHANGED <<disk, finished, level>> /\ builder'.file = builder.file
          /\ acked' \subseteq acked \cup {new} /\ new.file = builder.file
      BY <1>4 DEF FlushPending, SyncBatch, Place, SafeInv, Typed, TypeOK, BuilderTyped
    <3>2. builder.file \in DOMAIN disk
      <4>1. CASE FlushPending
        <5>1. ~ (0 > 0)
          OBVIOUS
        <5>2. builder.unflushed # 0
          BY <4>1, <5>1 DEF FlushPending
        <5> QED
          BY <5>2 DEF SafeInv, Typed, Places
      <4>2. CASE SyncBatch
        BY <4>2 DEF SyncBatch, SafeInv, Typed, Places
      <4> QED
        BY <1>4, <4>1, <4>2
    <3> HIDE DEF new
    <3> QED
      BY <2>1, <3>1, <3>2, LossSynced
  <2>2. CASE ~ SyncOk
    <3>1. UNCHANGED <<disk, durable, acked, builder, finished, level>>
      BY <1>4, <2>2 DEF FlushPending, SyncBatch, SyncFails
    <3> QED
      BY <3>1, LossQuiet
  <2> QED
    BY <2>1, <2>2
<1>5. CASE Crash
  <2>1. /\ UNCHANGED <<durable, acked, finished, level>> /\ builder'.file = NoFile
        /\ DOMAIN disk' = DOMAIN disk
    BY <1>5, CrashTyped, ClosedTyped DEF Crash, Stopped, SafeInv
  <2> QED
    BY <2>1, LossQuiet
<1> QED
  BY <1>1, <1>2, <1>3, <1>4, <1>5, LossOpen, LossAppend, LossFinish, LossTruncate,
     LossPowerLoss DEF Next, BuilderStep, RepairStep

LEMMA LossInit == Init => LossInv
<1> SUFFICES ASSUME Init PROVE LossInv
  OBVIOUS
<1>1. acked = {} /\ finished = {} /\ DOMAIN disk = {}
  BY DEF Init
<1> QED
  BY <1>1, FS_EmptySet DEF LossInv, FewUnsynced, FinishedSynced

\* With full syncing, and when the sync of a segment being closed does not fail, a
\* power loss takes fewer than sync_blocks of the blocks of a segment that were
\* reported written, and none of a segment reported finished.
THEOREM LossIsBounded ==
  NamesSuffice /\ WholeWrites /\ CloseSyncs => (Spec => []LossBounded)
<1> SUFFICES ASSUME NamesSuffice, WholeWrites, CloseSyncs PROVE Spec => []LossBounded
  OBVIOUS
<1>1. Init => SafeInv /\ LossInv
  BY InitTyped, InitCounted, SafeInit, LossInit DEF SafeInv
<1>2. SafeInv /\ LossInv /\ [Next]_vars => (SafeInv /\ LossInv)'
  BY SafeNext, LossNext
<1>3. SafeInv /\ LossInv => LossBounded
  BY DEF LossInv, FewUnsynced, FinishedSynced, LossBounded, Unsynced
<1> QED
  BY <1>1, <1>2, <1>3, PTL DEF Spec

(***************************************************************************)
(* What a footer says of its file.                                         *)
(***************************************************************************)
FooterLess(f) == \A p \in 1..Len(f) : f[p].kind # "footer"

\* The footer of the one file f is what FooterTellsTruth asks of all.
Truthful(f) ==
  HasFooter(f) /\ f[1] = Header =>
    \E e \in 1..Len(f) :
      /\ Scanned(f, e)
      /\ Len(f) = e + f[Len(f)].index_count + 1
      /\ Indexes(FooterIndices(f), f, e)

\* A footer is the last piece, and tells the truth.
Sound(f) ==
  /\ \A p \in 1..Len(f) : f[p].kind = "footer" => p = Len(f)
  /\ Truthful(f)

Base(f, e) ==
  /\ e \in 1..Len(f) /\ f[1] = Header
  /\ \A p \in 2..e : f[p].kind = "block"

\* The header and whole blocks, then the first w entries of their index s.
Listed(f, e, s, w) ==
  /\ Base(f, e) /\ Indexes(s, f, e)
  /\ w \in 0..Len(s) /\ Len(f) = e + w
  /\ \A i \in 1..w : f[e + i] = s[i]

\* The w pieces behind the first e are the index of the first d.
Entries(f, e, w, d) ==
  /\ \A i \in 1..w :
       /\ f[e + i].offset \in 2..d
       /\ IsKey(f, f[e + i].offset)
       /\ f[e + i] = IndexEntry(f[f[e + i].offset].block, f[e + i].offset)
  /\ \A i, j \in 1..w : i < j => f[e + i].offset < f[e + j].offset
  /\ \A p \in 2..d : IsKey(f, p) => \E i \in 1..w : f[e + i].offset = p

LEMMA OneMorePiece ==
  ASSUME NEW f \in Seq(Pieces), NEW x \in Pieces
  PROVE  /\ Append(f, x) \in Seq(Pieces) /\ Len(f) \in Nat
         /\ Len(Append(f, x)) = Len(f) + 1
         /\ Append(f, x)[Len(f) + 1] = x
         /\ \A p \in 1..Len(f) : Append(f, x)[p] = f[p]
OBVIOUS

LEMMA SoundWithout == \A f \in Seq(Pieces) : FooterLess(f) => Sound(f)
BY DEF FooterLess, Sound, Truthful, HasFooter

LEMMA StillWithout ==
  ASSUME NEW f \in Seq(Pieces), FooterLess(f), NEW x \in Pieces, x.kind # "footer"
  PROVE  FooterLess(Append(f, x))
BY OneMorePiece DEF FooterLess

LEMMA BlocksWithout ==
  ASSUME NEW f \in Seq(Pieces), WellFormed(f)
  PROVE  FooterLess(f)
<1> SUFFICES ASSUME NEW p \in 1..Len(f) PROVE f[p].kind # "footer"
  BY DEF FooterLess
<1>1. CASE p = 1
  BY <1>1 DEF WellFormed, Header
<1>2. CASE p # 1
  <2>1. p \in 2..Len(f)
    BY <1>2
  <2> QED
    BY <2>1 DEF WellFormed
<1> QED
  BY <1>1, <1>2

\* The first k pieces of a sound file: all of it, or no footer among them.
LEMMA PrefixSound ==
  ASSUME NEW f \in Seq(Pieces), Sound(f), NEW k \in 0..Len(f), NEW g \in Seq(Pieces),
         Len(g) = k, \A p \in 1..k : g[p] = f[p]
  PROVE  /\ k = Len(f) => g = f
         /\ k < Len(f) => FooterLess(g)
<1>1. CASE k = Len(f)
  BY <1>1
<1>2. CASE k < Len(f)
  BY <1>2 DEF Sound, FooterLess
<1> QED
  BY <1>1, <1>2

LEMMA IndexesSame ==
  ASSUME NEW s, NEW f, NEW g, NEW e \in Nat, Indexes(s, f, e), e >= 1,
         \A p \in 1..e : g[p] = f[p]
  PROVE  Indexes(s, g, e)
<1>1. \A p \in 2..e : g[p] = f[p]
  OBVIOUS
<1> QED
  BY <1>1 DEF Indexes, IsKey

\* A footer behind the index of its blocks tells the truth.
LEMMA EntriesTruth ==
  ASSUME NEW f \in Seq(Pieces), NEW e, NEW w \in Nat, Base(f, e), Len(f) = e + w,
         Entries(f, e, w, e), FooterLess(f)
  PROVE  Sound(Append(f, Footer(w)))
<1> DEFINE g == Append(f, Footer(w))
<1>1. /\ Footer(w) \in Pieces /\ e \in Nat /\ e >= 1 /\ e \in 1..Len(f)
  BY PieceTypes DEF Base
<1>2. /\ g \in Seq(Pieces) /\ Len(f) \in Nat /\ Len(g) = e + w + 1
      /\ g[Len(g)] = Footer(w)
      /\ \A p \in 1..(e + w) : g[p] = f[p]
  BY <1>1, OneMorePiece
<1> HIDE DEF g
<1>3. Footer(w).index_count = w /\ Footer(w).kind = "footer"
  BY DEF Footer
<1>4. \A p \in 1..Len(g) : g[p].kind = "footer" => p = Len(g)
  BY <1>1, <1>2 DEF FooterLess
<1>5. Scanned(g, e)
  <2>1. e \in 1..Len(g) /\ g[1] = Header /\ \A p \in 2..e : g[p].kind = "block"
    BY <1>1, <1>2 DEF Base
  <2>2. CASE w = 0
    BY <1>2, <1>3, <2>1, <2>2 DEF Scanned
  <2>3. CASE w > 0
    <3>1. g[e + 1] = f[e + 1] /\ 1 \in 1..w
      BY <1>1, <1>2, <2>3
    <3>2. f[e + 1].kind = "index"
      <4>1. f[e + 1] = IndexEntry(f[f[e + 1].offset].block, f[e + 1].offset)
        BY <3>1 DEF Entries
      <4>2. \A b, p : IndexEntry(b, p).kind = "index"
        BY DEF IndexEntry
      <4> QED
        BY <4>1, <4>2, Zenon
    <3> QED
      BY <2>1, <3>1, <3>2 DEF Scanned
  <2> QED
    BY <2>2, <2>3
<1>6. Indexes(FooterIndices(g), g, e)
  <2> DEFINE s == FooterIndices(g)
  <2>1. s = SubSeq(g, e + 1, e + w)
    BY <1>1, <1>2, <1>3 DEF FooterIndices
  <2>2. Len(s) = w /\ \A i \in 1..w : s[i] = f[e + i]
    <3>1. \A p \in (e + 1)..(e + w) : g[p] \in Pieces
      BY <1>1, <1>2
    <3>2. /\ Len(SubSeq(g, e + 1, e + w)) = (IF e + 1 <= e + w THEN e + w - (e + 1) + 1 ELSE 0)
          /\ \A i \in 1..(e + w - (e + 1) + 1) : SubSeq(g, e + 1, e + w)[i] = g[e + 1 + i - 1]
      BY <1>1, <3>1, SubSeqProperties
    <3>3. \A i \in 1..w : e + 1 + i - 1 = e + i /\ e + i \in 1..(e + w)
      BY <1>1
    <3>4. e + w - (e + 1) + 1 = w
      BY <1>1
    <3>5. Len(s) = w
      BY <1>1, <2>1, <3>2
    <3>6. \A i \in 1..w : s[i] = f[e + i]
      <4> TAKE i \in 1..w
      <4>1. s[i] = g[e + 1 + i - 1]
        BY <2>1, <3>2, <3>4
      <4> QED
        BY <1>2, <3>3, <4>1
    <3> QED
      BY <3>5, <3>6
  <2> HIDE DEF s
  <2>3. \A p \in 2..e : g[p] = f[p]
    BY <1>1, <1>2
  <2>4. Indexes(s, g, e)
    <3>1. \A p \in 2..e : IsKey(g, p) <=> IsKey(f, p)
      BY <2>3 DEF IsKey
    <3>2. ASSUME NEW i \in 1..w
          PROVE  /\ s[i].offset \in 2..e
                 /\ IsKey(g, s[i].offset)
                 /\ s[i] = IndexEntry(g[s[i].offset].block, s[i].offset)
      <4>1. /\ f[e + i].offset \in 2..e
            /\ IsKey(f, f[e + i].offset)
            /\ f[e + i] = IndexEntry(f[f[e + i].offset].block, f[e + i].offset)
        BY DEF Entries
      <4> QED
        BY <2>2, <2>3, <3>1, <4>1
    <3>3. \A i, j \in 1..w : i < j => s[i].offset < s[j].offset
      BY <2>2 DEF Entries
    <3>4. \A p \in 2..e : IsKey(g, p) => \E i \in 1..w : s[i].offset = p
      BY <2>2, <3>1 DEF Entries
    <3> QED
      BY <2>2, <3>2, <3>3, <3>4 DEF Indexes
  <2> QED
    BY <2>4 DEF s
<1>7. Truthful(g)
  BY <1>1, <1>2, <1>3, <1>5, <1>6 DEF Truthful
<1> QED
  BY <1>4, <1>7 DEF Sound, g

LEMMA ListedTruth ==
  ASSUME NEW f \in Seq(Pieces), NEW e, NEW s \in Seq(Indices), Listed(f, e, s, Len(s)),
         FooterLess(f)
  PROVE  Sound(Append(f, Footer(Len(s))))
<1>1. Len(s) \in Nat /\ Base(f, e) /\ Len(f) = e + Len(s)
  BY DEF Listed
<1>2. Entries(f, e, Len(s), e)
  BY <1>1 DEF Listed, Indexes, Entries
<1> QED
  BY <1>1, <1>2, EntriesTruth

LEMMA ListedMore ==
  ASSUME NEW f \in Seq(Pieces), NEW e, NEW s \in Seq(Indices), NEW w \in Nat,
         Listed(f, e, s, w), w < Len(s)
  PROVE  Listed(Append(f, s[w + 1]), e, s, w + 1)
<1> DEFINE g == Append(f, s[w + 1])
<1>1. s[w + 1] \in Pieces /\ e \in Nat /\ e >= 1 /\ e \in 1..Len(f) /\ Len(f) = e + w
  <2>1. w + 1 \in 1..Len(s)
    OBVIOUS
  <2>2. s[w + 1] \in Indices
    BY <2>1
  <2> QED
    BY <2>2, PieceTypes DEF Listed, Base
<1>2. /\ g \in Seq(Pieces) /\ Len(f) \in Nat /\ Len(g) = e + (w + 1)
      /\ g[e + (w + 1)] = s[w + 1] /\ \A p \in 1..(e + w) : g[p] = f[p]
  BY <1>1, OneMorePiece
<1> HIDE DEF g
<1>3. \A p \in 1..e : g[p] = f[p]
  BY <1>1, <1>2
<1>4. Base(g, e)
  BY <1>1, <1>2, <1>3 DEF Listed, Base
<1>5. Indexes(s, g, e)
  BY <1>1, <1>3, IndexesSame DEF Listed
<1>6. \A i \in 1..(w + 1) : g[e + i] = s[i]
  <2> TAKE i \in 1..(w + 1)
  <2>1. CASE i = w + 1
    BY <1>2, <2>1
  <2>2. CASE i # w + 1
    <3>1. i \in 1..w /\ e + i \in 1..(e + w)
      BY <1>1, <2>2
    <3> QED
      BY <1>2, <3>1 DEF Listed
  <2> QED
    BY <2>1, <2>2
<1>7. w + 1 \in 0..Len(s)
  OBVIOUS
<1> QED
  BY <1>2, <1>4, <1>5, <1>6, <1>7 DEF Listed, g

\* The next entry of the index a repair writes.
LEMMA EntriesMore ==
  ASSUME NEW f \in Seq(Pieces), NEW e, NEW w \in Nat, NEW d \in 1..e, Base(f, e),
         Len(f) = e + w, Entries(f, e, w, d),
         NEW p \in (d + 1)..e, IsKey(f, p), \A q \in (d + 1)..(p - 1) : ~ IsKey(f, q),
         IndexEntry(f[p].block, p) \in Pieces
  PROVE  LET g == Append(f, IndexEntry(f[p].block, p)) IN
         Base(g, e) /\ Len(g) = e + (w + 1) /\ Entries(g, e, w + 1, p)
<1> DEFINE x == IndexEntry(f[p].block, p)
           g == Append(f, x)
<1>1. e \in Nat /\ e >= 1 /\ e \in 1..Len(f) /\ Len(f) \in Nat /\ d \in Nat /\ p \in Nat
  BY DEF Base
<1>2. /\ g \in Seq(Pieces) /\ Len(g) = e + (w + 1)
      /\ g[e + (w + 1)] = x /\ \A q \in 1..(e + w) : g[q] = f[q]
  BY <1>1, OneMorePiece
<1>3. x.offset = p
  BY DEF IndexEntry
<1> HIDE DEF g
<1>4. \A q \in 1..e : g[q] = f[q]
  BY <1>1, <1>2
<1>5. Base(g, e)
  BY <1>1, <1>2, <1>4 DEF Base
<1>6. \A q \in 2..e : IsKey(g, q) <=> IsKey(f, q)
  BY <1>4 DEF IsKey
<1>7. \A i \in 1..w : g[e + i] = f[e + i]
  <2> TAKE i \in 1..w
  <2>1. e + i \in 1..(e + w)
    BY <1>1
  <2> QED
    BY <1>2, <2>1
<1>8. \A q \in 2..d : q \in 2..e /\ q \in 2..p
  BY <1>1
<1>9. p \in 2..e /\ p \in 2..p /\ d < p
  BY <1>1
<1>10. ASSUME NEW i \in 1..(w + 1)
       PROVE  /\ g[e + i].offset \in 2..p
              /\ IsKey(g, g[e + i].offset)
              /\ g[e + i] = IndexEntry(g[g[e + i].offset].block, g[e + i].offset)
  <2>1. CASE i = w + 1
    <3>1. g[e + i] = x
      BY <1>2, <2>1
    <3>2. g[p] = f[p] /\ IsKey(g, p)
      BY <1>1, <1>4, <1>6, <1>9
    <3> QED
      BY <1>3, <1>9, <3>1, <3>2
  <2>2. CASE i # w + 1
    <3>1. i \in 1..w
      BY <2>2
    <3>2. /\ f[e + i].offset \in 2..d
          /\ IsKey(f, f[e + i].offset)
          /\ f[e + i] = IndexEntry(f[f[e + i].offset].block, f[e + i].offset)
      BY <3>1 DEF Entries
    <3>3. g[f[e + i].offset] = f[f[e + i].offset]
      BY <1>4, <1>8, <3>2
    <3>4. IsKey(g, f[e + i].offset)
      BY <1>6, <1>8, <3>2
    <3> QED
      BY <1>7, <1>8, <3>1, <3>2, <3>3, <3>4
  <2> QED
    BY <2>1, <2>2
<1>11. ASSUME NEW i \in 1..(w + 1), NEW j \in 1..(w + 1), i < j
       PROVE  g[e + i].offset < g[e + j].offset
  <2>1. i \in 1..w
    BY <1>11
  <2>2. f[e + i].offset \in 2..d
    BY <2>1 DEF Entries
  <2>3. CASE j = w + 1
    <3>1. g[e + j].offset = p
      BY <1>2, <1>3, <2>3
    <3>2. g[e + i].offset = f[e + i].offset
      BY <1>7, <2>1
    <3>3. f[e + i].offset < p
      BY <1>1, <1>9, <2>2
    <3> QED
      BY <3>1, <3>2, <3>3, Zenon
  <2>4. CASE j # w + 1
    <3>1. j \in 1..w
      BY <2>4
    <3>2. f[e + i].offset < f[e + j].offset
      BY <1>11, <2>1, <3>1 DEF Entries
    <3> QED
      BY <1>7, <2>1, <3>1, <3>2
  <2> QED
    BY <2>3, <2>4
<1>12. ASSUME NEW q \in 2..p, IsKey(g, q)
       PROVE  \E i \in 1..(w + 1) : g[e + i].offset = q
  <2>1. CASE q = p
    <3>1. w + 1 \in 1..(w + 1) /\ g[e + (w + 1)].offset = p
      BY <1>2, <1>3
    <3> QED
      BY <2>1, <3>1
  <2>2. CASE q # p
    <3>1. q \in 2..e /\ IsKey(f, q)
      BY <1>1, <1>6, <1>12
    <3>2. q \notin (d + 1)..(p - 1)
      BY <3>1
    <3>3. q \in 2..d
      BY <1>1, <2>2, <3>2
    <3>4. PICK i \in 1..w : f[e + i].offset = q
      BY <3>1, <3>3 DEF Entries
    <3>5. i \in 1..(w + 1) /\ g[e + i].offset = q
      BY <1>7, <3>4
    <3> QED
      BY <3>5
  <2> QED
    BY <2>1, <2>2
<1>13. Entries(g, e, w + 1, p)
  BY <1>10, <1>11, <1>12 DEF Entries
<1> QED
  BY <1>2, <1>5, <1>13 DEF g

\* The index of a file after one more block.
LEMMA IndexGrows ==
  ASSUME NEW f \in Seq(Pieces), WellFormed(f), NEW s \in Seq(Indices), NEW b \in Blocks,
         Indexes(s, f, Len(f))
  PROVE  LET at == Len(f) + 1 IN
         Indexes(IF b.key THEN Append(s, IndexEntry(b, at)) ELSE s,
                 Append(f, BlockPiece(b)), at)
<1> DEFINE at == Len(f) + 1
           x == IndexEntry(b, at)
           g == Append(f, BlockPiece(b))
<1>1. /\ BlockPiece(b) \in Pieces /\ Len(f) \in Nat /\ Len(f) >= 1
      /\ Len(g) = at /\ g[at] = BlockPiece(b) /\ \A p \in 1..Len(f) : g[p] = f[p]
      /\ x \in Indices /\ b.key \in BOOLEAN
  BY PieceTypes, OneMorePiece, Numbers DEF WellFormed, IndexEntry, Indices
<1>2. x.offset = at
  BY DEF IndexEntry
<1>3. IsKey(g, at) <=> b.key
  BY <1>1 DEF IsKey, BlockPiece
<1>4. g[at].block = b
  BY <1>1 DEF BlockPiece
<1> HIDE DEF g
<1>5. \A p \in 2..Len(f) : g[p] = f[p] /\ (IsKey(g, p) <=> IsKey(f, p)) /\ p \in 2..at
  BY <1>1 DEF IsKey
<1>6. ASSUME NEW i \in 1..Len(s)
      PROVE  /\ s[i].offset \in 2..Len(f) /\ s[i].offset \in 2..at
             /\ IsKey(g, s[i].offset)
             /\ s[i] = IndexEntry(g[s[i].offset].block, s[i].offset)
  BY <1>5 DEF Indexes
<1>7. CASE ~ b.key
  <2>1. \A p \in 2..at : IsKey(g, p) => p \in 2..Len(f)
    BY <1>1, <1>3, <1>7
  <2>2. Indexes(s, g, at)
    BY <1>5, <1>6, <2>1 DEF Indexes
  <2> QED
    BY <1>7, <2>2 DEF g
<1>8. CASE b.key
  <2> DEFINE t == Append(s, x)
  <2>1. /\ t \in Seq(Indices) /\ Len(s) \in Nat /\ Len(t) = Len(s) + 1
        /\ t[Len(s) + 1] = x /\ \A i \in 1..Len(s) : t[i] = s[i]
    BY <1>1
  <2> HIDE DEF t, x
  <2>2. ASSUME NEW i \in 1..Len(t)
        PROVE  /\ t[i].offset \in 2..at
               /\ IsKey(g, t[i].offset)
               /\ t[i] = IndexEntry(g[t[i].offset].block, t[i].offset)
    <3>1. CASE i = Len(s) + 1
      <4>1. t[i] = x /\ at \in 2..at
        BY <1>1, <2>1, <3>1
      <4>2. x = IndexEntry(g[at].block, at)
        BY <1>4 DEF x
      <4> QED
        BY <1>2, <1>3, <1>8, <4>1, <4>2
    <3>2. CASE i # Len(s) + 1
      <4>1. i \in 1..Len(s)
        BY <2>1, <3>2
      <4> QED
        BY <1>6, <2>1, <4>1
    <3> QED
      BY <3>1, <3>2
  <2>3. ASSUME NEW i \in 1..Len(t), NEW j \in 1..Len(t), i < j
        PROVE  t[i].offset < t[j].offset
    <3>1. i \in 1..Len(s) /\ t[i] = s[i]
      BY <2>1, <2>3
    <3>2. s[i].offset \in 2..Len(f)
      BY <1>6, <3>1
    <3>3. CASE j = Len(s) + 1
      BY <1>1, <1>2, <2>1, <3>1, <3>2, <3>3
    <3>4. CASE j # Len(s) + 1
      <4>1. j \in 1..Len(s) /\ t[j] = s[j]
        BY <2>1, <3>4
      <4> QED
        BY <2>3, <3>1, <4>1 DEF Indexes
    <3> QED
      BY <3>3, <3>4
  <2>4. ASSUME NEW p \in 2..at, IsKey(g, p)
        PROVE  \E i \in 1..Len(t) : t[i].offset = p
    <3>1. CASE p = at
      <4>1. Len(s) + 1 \in 1..Len(t) /\ t[Len(s) + 1].offset = at
        BY <1>2, <2>1
      <4> QED
        BY <3>1, <4>1
    <3>2. CASE p # at
      <4>1. p \in 2..Len(f) /\ IsKey(f, p)
        BY <1>1, <1>5, <2>4, <3>2
      <4>2. PICK i \in 1..Len(s) : s[i].offset = p
        BY <4>1 DEF Indexes
      <4>3. i \in 1..Len(t) /\ t[i].offset = p
        BY <2>1, <4>2
      <4> QED
        BY <4>3
    <3> QED
      BY <3>1, <3>2
  <2>5. Indexes(t, g, at)
    BY <2>2, <2>3, <2>4 DEF Indexes
  <2> QED
    BY <1>8, <2>5 DEF g, t, x
<1> QED
  BY <1>1, <1>7, <1>8

LEMMA EntriesWithout ==
  ASSUME NEW f \in Seq(Pieces), NEW e, NEW w \in Nat, NEW d, Base(f, e), Len(f) = e + w,
         Entries(f, e, w, d)
  PROVE  FooterLess(f)
<1>1. e \in Nat /\ e >= 1
  BY DEF Base
<1> SUFFICES ASSUME NEW p \in 1..Len(f) PROVE f[p].kind # "footer"
  BY DEF FooterLess
<1>2. CASE p = 1
  BY <1>2 DEF Base, Header
<1>3. CASE p \in 2..e
  BY <1>3 DEF Base
<1>4. CASE p > e
  <2>1. p - e \in 1..w /\ e + (p - e) = p
    BY <1>1, <1>4
  <2>2. f[p] = IndexEntry(f[f[p].offset].block, f[p].offset)
    BY <2>1 DEF Entries
  <2>3. \A b, q : IndexEntry(b, q).kind = "index"
    BY DEF IndexEntry
  <2>4. f[p].kind = "index"
    BY <2>2, <2>3, Zenon
  <2> QED
    BY <2>4
<1> QED
  BY <1>1, <1>2, <1>3, <1>4

(***************************************************************************)
(* The index the builder keeps is the one of its file until the footer is  *)
(* written, and then the rest of the footer is still to come; the entries  *)
(* a repair has written are the index of the blocks it has passed.         *)
(***************************************************************************)
FilesSound == \A n \in DOMAIN disk : Sound(disk[n])

BuilderLists ==
  /\ builder.file = NoFile => builder.indices = <<>>
  /\ call.pc \in {"header", "header_sync"} => builder.indices = <<>>
  /\ call.pc \in {"idle", "append", "sync"} /\ builder.file # NoFile =>
       Indexes(builder.indices, disk[builder.file], Len(disk[builder.file]))
  /\ call.pc = "footer" =>
       /\ FooterLess(disk[builder.file])
       /\ Len(disk[builder.file]) >= 1 /\ disk[builder.file][1] = Header =>
            \E e \in Nat : Listed(disk[builder.file], e, builder.indices, call.written)

RepairLists ==
  /\ repair.pc = "truncate" => repair.done = 1 /\ repair.count = 0
  /\ repair.pc = "footer" =>
       /\ Base(disk[repair.file], repair.end)
       /\ Len(disk[repair.file]) = repair.end + repair.count
       /\ repair.done \in 1..repair.end
       /\ Entries(disk[repair.file], repair.end, repair.count, repair.done)

TruthInv == FilesSound /\ BuilderLists /\ RepairLists

LEMMA FilesTyped ==
  ASSUME SafeInv
  PROVE  /\ DiskTyped /\ call \in Calls /\ builder.indices \in Seq(Indices)
         /\ \A n \in DOMAIN disk : disk[n] \in Seq(Pieces) /\ Len(disk[n]) \in Nat
         /\ builder.file # NoFile => builder.file \in DOMAIN disk
         /\ call.pc \in {"header", "header_sync", "append", "sync", "footer", "close"}
              => builder.file # NoFile
         /\ repair.pc # "idle" => /\ repair.file \in DOMAIN disk
                                  /\ repair.file # builder.file
                                  /\ repair.end \in Nat /\ repair.count \in Nat
                                  /\ repair.done \in Nat
BY RepairTyped DEF SafeInv, Typed, TypeOK, DiskTyped, BuilderTyped, Places, RepairsApart, Repairs

\* Steps that write no file.
LEMMA NothingWritten ==
  ASSUME TruthInv, UNCHANGED disk, UNCHANGED repair
  PROVE  FilesSound' /\ RepairLists'
BY DEF TruthInv, FilesSound, RepairLists

\* A file that is being written by its blocks is ready for its footer.
LEMMA FooterBegins ==
  ASSUME SafeInv, TruthInv, call.pc \in {"idle", "append", "sync"}, builder.file # NoFile
  PROVE  LET f == disk[builder.file] IN
         FooterLess(f) /\ Len(f) \in Nat /\ Listed(f, Len(f), builder.indices, 0)
<1> DEFINE f == disk[builder.file]
<1>1. f \in Seq(Pieces) /\ Len(f) \in Nat /\ WellFormed(f) /\ builder.indices \in Seq(Indices)
  BY FilesTyped DEF SafeInv, OpenFile
<1>2. Base(f, Len(f)) /\ Indexes(builder.indices, f, Len(f))
  BY <1>1 DEF Base, WellFormed, TruthInv, BuilderLists
<1>3. 0 \in 0..Len(builder.indices) /\ Len(f) = Len(f) + 0
  BY <1>1
<1>4. Listed(f, Len(f), builder.indices, 0)
  BY <1>2, <1>3 DEF Listed
<1> QED
  BY <1>1, <1>4, BlocksWithout

LEMMA TruthQuiet ==
  ASSUME SafeInv, TruthInv,
         (\E b \in Blocks : WriteBlock(b)) \/ CloseCurrentSegment \/ FlushPending \/ SyncBatch
  PROVE  TruthInv'
<1>1. /\ UNCHANGED disk /\ UNCHANGED repair /\ builder'.file = builder.file
      /\ builder'.indices = builder.indices /\ call.pc \in {"idle", "sync"}
  <2>1. CASE FlushPending \/ SyncBatch
    <3>1. /\ UNCHANGED disk /\ UNCHANGED repair /\ call.pc \in {"idle", "sync"}
          /\ builder' = builder \/ builder' = [builder EXCEPT !.unflushed = 0]
      BY <2>1 DEF FlushPending, SyncBatch
    <3> QED
      BY <3>1 DEF SafeInv, Typed, TypeOK, BuilderTyped
  <2>2. CASE CloseCurrentSegment
    BY <2>2 DEF CloseCurrentSegment, files
  <2>3. ASSUME NEW b \in Blocks, WriteBlock(b)
        PROVE  /\ UNCHANGED disk /\ UNCHANGED repair /\ builder'.file = builder.file
               /\ builder'.indices = builder.indices /\ call.pc \in {"idle", "sync"}
    BY <2>3 DEF WriteBlock, files
  <2> QED
    BY <2>1, <2>2, <2>3
<1>2. /\ call'.pc \in {"create", "footer", "append", "idle"}
      /\ call'.pc = "footer" => call'.written = 0 /\ builder.file # NoFile
  <2>1. CASE FlushPending \/ SyncBatch
    BY <2>1 DEF FlushPending, SyncBatch, Idle
  <2>2. CASE CloseCurrentSegment
    BY <2>2 DEF CloseCurrentSegment
  <2>3. ASSUME NEW b \in Blocks, WriteBlock(b)
        PROVE  /\ call'.pc \in {"create", "footer", "append", "idle"}
               /\ call'.pc = "footer" => call'.written = 0 /\ builder.file # NoFile
    BY <2>3 DEF WriteBlock, FirstStep
  <2> QED
    BY <2>1, <2>2, <2>3
<1>3. BuilderLists'
  <2>1. builder'.file = NoFile => builder'.indices = <<>>
    BY <1>1 DEF TruthInv, BuilderLists
  <2>2. call'.pc = "footer" =>
          /\ FooterLess(disk[builder.file])
          /\ \E e \in Nat : Listed(disk[builder.file], e, builder.indices, 0)
    BY <1>1, <1>2, FooterBegins
  <2> QED
    BY <1>1, <1>2, <2>1, <2>2 DEF TruthInv, BuilderLists
<1> QED
  BY <1>1, <1>3, NothingWritten DEF TruthInv

\* When the builder's file alone changes, and is sound, so are all.
LEMMA OneFile ==
  ASSUME SafeInv, TruthInv, NEW n \in DOMAIN disk, DOMAIN disk' = DOMAIN disk,
         \A m \in DOMAIN disk : m # n => disk'[m] = disk[m], Sound(disk'[n])
  PROVE  /\ FilesSound'
         /\ UNCHANGED repair /\ n = builder.file => RepairLists'
         /\ builder.file # n /\ UNCHANGED builder /\ UNCHANGED call => BuilderLists'
<1>1. FilesSound'
  BY DEF TruthInv, FilesSound
<1>2. UNCHANGED repair /\ n = builder.file => RepairLists'
  <2> SUFFICES ASSUME UNCHANGED repair, n = builder.file PROVE RepairLists'
    OBVIOUS
  <2>1. repair.pc = "footer" => disk'[repair.file] = disk[repair.file]
    BY FilesTyped
  <2> QED
    BY <2>1 DEF TruthInv, RepairLists
<1>3. builder.file # n /\ UNCHANGED builder /\ UNCHANGED call => BuilderLists'
  <2> SUFFICES ASSUME builder.file # n, UNCHANGED builder, UNCHANGED call PROVE BuilderLists'
    OBVIOUS
  <2>1. builder.file # NoFile => disk'[builder.file] = disk[builder.file]
    BY FilesTyped
  <2>2. call.pc = "footer" => builder.file # NoFile
    BY FilesTyped
  <2> QED
    BY <2>1, <2>2 DEF TruthInv, BuilderLists
<1> QED
  BY <1>1, <1>2, <1>3

LEMMA TruthOpen ==
  ASSUME SafeInv, TruthInv, NamesSuffice, OpenSegment
  PROVE  TruthInv'
<1>1. /\ call \in WriteCalls /\ call.block \in Blocks /\ builder.file = NoFile
      /\ call.pc = "create" /\ calls \in 0..MaxCalls
      /\ UNCHANGED repair
  BY CallFields, WriteMoves DEF SafeInv, Typed, TypeOK, BuilderTyped, OpenSegment, Places
<1>2. CASE Fault("write_fails") /\ call' = Idle /\ UNCHANGED <<files, builder>>
  <2>1. BuilderLists'
    BY <1>1, <1>2 DEF TruthInv, BuilderLists, Idle
  <2> QED
    BY <1>1, <1>2, <2>1, NothingWritten DEF TruthInv, files
<1>3. ASSUME NEW name \in Names, name \notin DOMAIN disk,
             disk' = Truncated(disk, name, <<>>),
             builder' = [builder EXCEPT !.file = name],
             call' = At(call, "header")
      PROVE  TruthInv'
  <2>1. /\ DOMAIN disk' = DOMAIN disk \cup {name}
        /\ disk'[name] = <<>>
        /\ \A n \in DOMAIN disk : disk'[n] = disk[n]
    BY <1>3 DEF Truncated
  <2>2. builder'.file = name /\ builder'.indices = <<>> /\ name # NoFile
    BY <1>1, <1>3, Numbers DEF SafeInv, Typed, TypeOK, BuilderTyped, TruthInv, BuilderLists
  <2>3. call'.pc = "header"
    BY <1>1, <1>3, WriteMoves
  <2>4. BuilderLists'
    BY <2>2, <2>3 DEF BuilderLists
  <2>5. Sound(<<>>)
    <3>1. <<>> \in Seq(Pieces) /\ FooterLess(<<>>)
      BY DEF FooterLess
    <3> QED
      BY <3>1, SoundWithout
  <2>6. FilesSound'
    BY <2>1, <2>5 DEF TruthInv, FilesSound
  <2>7. RepairLists'
    <3>1. repair.pc = "footer" => repair.file \in DOMAIN disk
      BY FilesTyped
    <3> QED
      BY <1>1, <2>1, <3>1 DEF TruthInv, RepairLists
  <2> QED
    BY <2>4, <2>6, <2>7 DEF TruthInv
<1>4. ASSUME NEW q \in 0..LastSequence, NewName(call.block.start, q)
      PROVE  /\ SegmentName(call.block.start, q) \in Names
             /\ SegmentName(call.block.start, q) \notin DOMAIN disk
  BY <1>1, <1>4, Numbers, NameTyped, NameIsFree DEF SafeInv
<1> QED
  BY <1>2, <1>3, <1>4 DEF OpenSegment, At

LEMMA TruthHeader ==
  ASSUME SafeInv, TruthInv, WriteSegmentHeader
  PROVE  TruthInv'
<1> DEFINE n == builder.file
<1>1. /\ call \in WriteCalls /\ n \in DOMAIN disk /\ n # NoFile /\ DiskTyped
      /\ disk[n] = <<>> /\ builder.indices = <<>>
      /\ UNCHANGED repair /\ UNCHANGED builder
  BY FilesTyped, CallFields DEF SafeInv, OpenFile, WriteSegmentHeader, TruthInv, BuilderLists
<1>2. \/ Append1(n, Header) /\ call' = At(call, "header_sync")
      \/ Append1(n, Torn) /\ call' = CloseOnly
      \/ disk' = disk /\ call' = CloseOnly
  BY DEF WriteSegmentHeader, WriteFails, GiveUp, At, CloseOnly
<1>3. CloseOnly.pc = "footer"
  BY CloseMoves
<1>4. FooterLess(<<>>) /\ <<>> \in Seq(Pieces)
  BY DEF FooterLess
<1>5. CASE disk' = disk /\ call' = CloseOnly
  <2>1. BuilderLists'
    BY <1>1, <1>3, <1>4, <1>5 DEF BuilderLists
  <2> QED
    BY <1>1, <1>5, <2>1, NothingWritten DEF TruthInv
<1>6. ASSUME NEW x \in {Header, Torn}, Append1(n, x)
      PROVE  /\ FilesSound' /\ RepairLists' /\ disk'[n] = <<x>>
             /\ FooterLess(<<x>>)
  <2>1. x \in Pieces /\ x.kind # "footer"
    BY PieceTypes DEF Header, Torn
  <2>2. /\ DOMAIN disk' = DOMAIN disk
        /\ \A m \in DOMAIN disk : m # n => disk'[m] = disk[m]
        /\ disk'[n] = <<x>>
    <3>1. disk'[n] = Append(<<>>, x)
      BY <1>1, <1>6, <2>1, AppendOne
    <3> QED
      BY <1>1, <1>6, <2>1, <3>1, AppendOne
  <2>3. FooterLess(<<x>>) /\ <<x>> \in Seq(Pieces)
    BY <2>1 DEF FooterLess
  <2>4. Sound(disk'[n])
    BY <2>2, <2>3, SoundWithout
  <2> QED
    BY <1>1, <2>2, <2>3, <2>4, OneFile
<1>7. CASE Append1(n, Header) /\ call' = At(call, "header_sync")
  <2>1. call'.pc = "header_sync"
    BY <1>1, <1>7, WriteMoves
  <2>2. BuilderLists'
    BY <1>1, <2>1 DEF BuilderLists
  <2> QED
    BY <1>6, <1>7, <2>2 DEF TruthInv
<1>8. CASE Append1(n, Torn) /\ call' = CloseOnly
  <2>1. <<Torn>>[1] # Header
    BY DEF Torn, Header
  <2>2. BuilderLists'
    BY <1>1, <1>3, <1>6, <1>8, <2>1 DEF BuilderLists
  <2> QED
    BY <1>6, <1>8, <2>2 DEF TruthInv
<1> QED
  BY <1>2, <1>5, <1>7, <1>8

LEMMA TruthHeaderSync ==
  ASSUME SafeInv, TruthInv, SyncHeader
  PROVE  TruthInv'
<1> DEFINE n == builder.file
<1>1. /\ call \in WriteCalls /\ n \in DOMAIN disk /\ n # NoFile
      /\ disk[n] = <<Header>> /\ builder.indices = <<>>
      /\ UNCHANGED repair /\ UNCHANGED disk
  BY FilesTyped, CallFields DEF SafeInv, OpenFile, SyncHeader, TruthInv, BuilderLists
<1>2. builder'.file = n /\ builder'.indices = <<>>
  BY <1>1 DEF SafeInv, Typed, TypeOK, BuilderTyped, SyncHeader
<1>3. call'.pc \in {"append", "footer"} /\ (call'.pc = "footer" => call'.written = 0)
  <2>1. call' = At(call, "append") \/ call' = CloseOnly
    BY DEF SyncHeader, GiveUp, At, CloseOnly
  <2>2. CloseOnly.written = 0 /\ CloseOnly.pc = "footer"
    BY DEF CloseOnly
  <2>3. At(call, "append").pc = "append"
    BY <1>1, WriteMoves
  <2> QED
    BY <2>1, <2>2, <2>3
<1>4. /\ Len(<<Header>>) = 1 /\ Indexes(<<>>, <<Header>>, 1)
      /\ Listed(<<Header>>, 1, <<>>, 0) /\ FooterLess(<<Header>>)
  BY DEF Indexes, Listed, Base, FooterLess, Header
<1>5. BuilderLists'
  BY <1>1, <1>2, <1>3, <1>4 DEF BuilderLists
<1> QED
  BY <1>1, <1>5, NothingWritten DEF TruthInv

LEMMA TruthAppend ==
  ASSUME SafeInv, TruthInv, WholeWrites, AppendBlock
  PROVE  TruthInv'
<1> DEFINE n == builder.file
           b == call.block
<1>1. /\ call \in WriteCalls /\ b \in Blocks /\ n \in DOMAIN disk /\ n # NoFile
      /\ DiskTyped /\ disk[n] \in Seq(Pieces) /\ WellFormed(disk[n])
      /\ builder.indices \in Seq(Indices)
      /\ Indexes(builder.indices, disk[n], Len(disk[n]))
      /\ UNCHANGED repair
  BY FilesTyped, CallFields, WriteMoves
     DEF SafeInv, OpenFile, AppendBlock, TruthInv, BuilderLists
<1>2. call' = At(call, "sync") \/ call' = Idle
  BY DEF AppendBlock, At
<1>3. call'.pc \in {"sync", "idle"}
  BY <1>1, <1>2, WriteMoves DEF Idle
<1>4. CASE disk' = disk /\ builder' = builder
  <2>1. BuilderLists'
    BY <1>1, <1>3, <1>4 DEF BuilderLists
  <2> QED
    BY <1>1, <1>4, <2>1, NothingWritten DEF TruthInv
<1>5. CASE /\ Append1(n, BlockPiece(b))
           /\ builder'.file = n
           /\ builder'.indices = IF b.key THEN Append(builder.indices, IndexEntry(b, Len(disk[n]) + 1))
                                          ELSE builder.indices
  <2>1. /\ disk'[n] = Append(disk[n], BlockPiece(b)) /\ DOMAIN disk' = DOMAIN disk
        /\ \A m \in DOMAIN disk : m # n => disk'[m] = disk[m]
        /\ disk'[n] \in Seq(Pieces)
    BY <1>1, <1>5, PieceTypes, AppendOne
  <2>2. WellFormed(disk'[n]) /\ Len(disk'[n]) = Len(disk[n]) + 1
    BY <1>1, <2>1, OneMoreBlock
  <2>3. Sound(disk'[n])
    BY <2>1, <2>2, BlocksWithout, SoundWithout
  <2>4. Indexes(builder'.indices, disk'[n], Len(disk'[n]))
    BY <1>1, <1>5, <2>1, <2>2, IndexGrows
  <2>5. BuilderLists'
    BY <1>1, <1>3, <1>5, <2>4 DEF BuilderLists
  <2> QED
    BY <1>1, <2>1, <2>3, <2>5, OneFile DEF TruthInv
<1>6. \/ disk' = disk /\ builder' = builder
      \/ /\ Append1(n, BlockPiece(b))
         /\ builder' = [builder EXCEPT
              !.ctx = [start |-> @.start, end |-> b.end,
                       count |-> @.count + 1, size |-> @.size + b.size],
              !.indices = IF b.key THEN Append(@, IndexEntry(b, Len(disk[n]) + 1)) ELSE @,
              !.unflushed = @ + 1]
  BY DEF AppendBlock, WholeWrites, Fault, BlockOffset
<1> QED
  BY <1>4, <1>5, <1>6 DEF SafeInv, Typed, TypeOK, BuilderTyped

LEMMA TruthFooter ==
  ASSUME SafeInv, TruthInv, WriteSegmentFooter
  PROVE  TruthInv'
<1> DEFINE n == builder.file
           f == disk[n]
           s == builder.indices
           w == call.written
<1>1. /\ call \in WriteCalls \/ call \in CloseCalls
      /\ w \in Nat /\ call.pc = "footer" /\ DiskTyped
      /\ n # NoFile /\ n \in DOMAIN disk /\ f \in Seq(Pieces)
      /\ s \in Seq(Indices) /\ Len(s) \in Nat
      /\ FooterLess(f)
      /\ Len(f) >= 1 /\ f[1] = Header => \E e \in Nat : Listed(f, e, s, w)
      /\ UNCHANGED repair /\ UNCHANGED builder
  BY FilesTyped, CallFields DEF WriteSegmentFooter, TruthInv, BuilderLists
<1>2. /\ At(call, "close").pc = "close"
      /\ OneMore(call).pc = "footer" /\ OneMore(call).written = w + 1
  <2>1. call \in WriteCalls => call \in [pc : {"create", "header", "header_sync", "append",
                                  "sync", "footer", "close"}, then : {"create"}, block : Blocks, written : Nat]
    BY DEF WriteCalls
  <2>2. call \in CloseCalls => call \in [pc : {"footer", "close"}, then : {"idle"}, written : Nat]
    BY DEF CloseCalls
  <2> QED
    BY <1>1, <2>1, <2>2 DEF At, OneMore
<1>3. ASSUME NEW x \in Pieces, Append1(n, x), Sound(Append(f, x)), BuilderLists'
      PROVE  TruthInv'
  <2>1. /\ disk'[n] = Append(f, x) /\ DOMAIN disk' = DOMAIN disk
        /\ \A m \in DOMAIN disk : m # n => disk'[m] = disk[m]
    BY <1>1, <1>3, AppendOne
  <2> QED
    BY <1>1, <1>3, <2>1, OneFile DEF TruthInv
<1>4. call'.pc = "close" => BuilderLists'
  BY <1>1 DEF BuilderLists
<1>5. CASE w < Len(s) /\ Append1(n, s[w + 1]) /\ call' = OneMore(call)
  <2>1. s[w + 1] \in Pieces /\ s[w + 1].kind = "index"
    <3>1. w + 1 \in 1..Len(s)
      BY <1>1, <1>5
    <3>2. s[w + 1] \in Indices
      BY <1>1, <3>1
    <3> QED
      BY <3>2, PieceTypes DEF Indices
  <2>2. disk'[n] = Append(f, s[w + 1])
    BY <1>1, <1>5, <2>1, AppendOne
  <2>3. FooterLess(Append(f, s[w + 1])) /\ Sound(Append(f, s[w + 1]))
    BY <1>1, <2>1, StillWithout, SoundWithout, OneMorePiece
  <2>4. ASSUME Len(disk'[n]) >= 1, disk'[n][1] = Header
        PROVE  \E e \in Nat : Listed(disk'[n], e, s, w + 1)
    <3>1. Len(f) \in Nat /\ \A p \in 1..Len(f) : disk'[n][p] = f[p]
      BY <1>1, <2>1, <2>2, OneMorePiece
    <3>2. Len(f) >= 1
      <4>1. CASE Len(f) = 0
        <5>1. disk'[n][1] = s[w + 1]
          BY <1>1, <2>1, <2>2, <4>1, OneMorePiece
        <5> QED
          BY <2>1, <2>4, <5>1 DEF Header
      <4> QED
        BY <3>1, <4>1
    <3>3. f[1] = Header
      BY <2>4, <3>1, <3>2
    <3>4. PICK e \in Nat : Listed(f, e, s, w)
      BY <1>1, <3>2, <3>3
    <3>5. Listed(Append(f, s[w + 1]), e, s, w + 1)
      BY <1>1, <1>5, <3>4, ListedMore
    <3> QED
      BY <2>2, <3>5
  <2>5. BuilderLists'
    BY <1>1, <1>2, <1>5, <2>2, <2>3, <2>4 DEF BuilderLists
  <2> QED
    BY <1>3, <1>5, <2>1, <2>3, <2>5
<1>6. CASE w = Len(s) /\ Append1(n, Footer(Len(s))) /\ call' = At(call, "close")
  <2>1. Footer(Len(s)) \in Pieces
    BY <1>1, PieceTypes
  <2> DEFINE g == Append(f, Footer(Len(s)))
  <2>2. /\ g \in Seq(Pieces) /\ Len(f) \in Nat /\ Len(g) = Len(f) + 1
        /\ \A p \in 1..Len(f) : g[p] = f[p]
    BY <1>1, <2>1, OneMorePiece
  <2> HIDE DEF g
  <2>3. Sound(g)
    <3>1. CASE Len(f) >= 1 /\ f[1] = Header
      BY <1>1, <1>6, <3>1, ListedTruth DEF g
    <3>2. CASE ~ (Len(f) >= 1 /\ f[1] = Header)
      <4>1. Truthful(g)
        <5>1. CASE Len(f) = 0
          BY <2>2, <5>1 DEF Truthful, HasFooter
        <5>2. CASE Len(f) # 0
          <6>1. g[1] # Header
            BY <2>2, <3>2, <5>2
          <6> QED
            BY <6>1 DEF Truthful
        <5> QED
          BY <5>1, <5>2
      <4>2. \A p \in 1..Len(g) : g[p].kind = "footer" => p = Len(g)
        BY <1>1, <2>2 DEF FooterLess
      <4> QED
        BY <4>1, <4>2 DEF Sound
    <3> QED
      BY <3>1, <3>2
  <2> QED
    BY <1>2, <1>3, <1>4, <1>6, <2>1, <2>3 DEF g
<1>7. CASE WriteFails(n) /\ call' = At(call, "close")
  <2>1. CASE disk' = disk
    BY <1>1, <1>2, <1>4, <1>7, <2>1, NothingWritten DEF TruthInv
  <2>2. CASE Append1(n, Torn)
    <3>1. Torn \in Pieces /\ Torn.kind # "footer"
      BY PieceTypes DEF Torn
    <3>2. Sound(Append(f, Torn))
      BY <1>1, <3>1, StillWithout, SoundWithout, OneMorePiece
    <3> QED
      BY <1>2, <1>3, <1>4, <1>7, <2>2, <3>1, <3>2
  <2> QED
    BY <1>7, <2>1, <2>2 DEF WriteFails
<1> QED
  BY <1>5, <1>6, <1>7 DEF WriteSegmentFooter, At, OneMore

LEMMA TruthFinish ==
  ASSUME SafeInv, TruthInv, FinishSegment
  PROVE  TruthInv'
<1>1. UNCHANGED disk /\ UNCHANGED repair /\ builder'.file = NoFile /\ builder'.indices = <<>>
  BY ClosedTyped DEF FinishSegment, Closed
<1>2. call'.pc \in {"create", "idle"}
  <2>1. CASE call.then = "idle"
    BY <2>1 DEF FinishSegment, Idle
  <2>2. CASE call.then # "idle"
    <3>1. call.then = "create" /\ call \in WriteCalls /\ call' = At(call, "create")
      BY <2>2, FilesTyped, CallFields DEF FinishSegment, At
    <3> QED
      BY <3>1, WriteMoves
  <2> QED
    BY <2>1, <2>2
<1>3. BuilderLists'
  BY <1>1, <1>2 DEF BuilderLists
<1> QED
  BY <1>1, <1>3, NothingWritten DEF TruthInv

LEMMA TruthRepair ==
  ASSUME SafeInv, TruthInv, NEW n \in DOMAIN disk, RepairSegment(n)
  PROVE  TruthInv'
<1>1. /\ UNCHANGED disk /\ UNCHANGED builder /\ UNCHANGED call
      /\ repair'.pc = "truncate" /\ repair'.done = 1 /\ repair'.count = 0
  BY DEF RepairSegment, files
<1>2. FilesSound' /\ BuilderLists'
  BY <1>1 DEF TruthInv, FilesSound, BuilderLists
<1>3. RepairLists'
  BY <1>1 DEF RepairLists
<1> QED
  BY <1>2, <1>3 DEF TruthInv

LEMMA TruthTruncate ==
  ASSUME SafeInv, Typed', TruthInv, TruncateFile
  PROVE  TruthInv'
<1> DEFINE n == repair.file
           e == repair.end
<1>1. /\ n \in DOMAIN disk /\ n # builder.file /\ repair.pc = "truncate"
      /\ UNCHANGED builder /\ UNCHANGED call
      /\ repair \in [pc : {"truncate", "footer"}, file : Names, end : Nat,
                    done : Nat, count : Nat]
      /\ repair.done = 1 /\ repair.count = 0 /\ e >= 2
  BY RepairTyped, FilesTyped
     DEF TruncateFile, SafeInv, Typed, TypeOK, RepairsApart, Repairs, TruthInv, RepairLists
<1>2. CASE UNCHANGED files /\ repair' = Idle
  <2>1. RepairLists'
    BY <1>2 DEF RepairLists, Idle
  <2>2. FilesSound' /\ BuilderLists'
    BY <1>1, <1>2 DEF TruthInv, FilesSound, BuilderLists, files
  <2> QED
    BY <2>1, <2>2 DEF TruthInv
<1>3. CASE ~ UNCHANGED files
  <2>1. /\ e \in Nat /\ Scanned(disk[n], e) /\ DOMAIN disk' = DOMAIN disk
        /\ \A m \in DOMAIN disk : m # n => disk'[m] = disk[m]
        /\ Len(disk'[n]) = e
        /\ \A p \in 1..e : disk'[n][p] = disk[n][p]
    BY <1>3, TruncateIs
  <2>2. repair' = [repair EXCEPT !.pc = "footer"]
    BY <1>3 DEF TruncateFile
  <2>3. /\ repair'.pc = "footer" /\ repair'.file = n /\ repair'.end = e
        /\ repair'.done = 1 /\ repair'.count = 0
    BY <1>1, <2>2
  <2>4. WellFormed(disk'[n]) /\ Base(disk'[n], e) /\ disk'[n] \in Seq(Pieces)
    <3>1. 1 \in 1..e /\ \A p \in 2..e : p \in 1..e
      BY <1>1, <2>1
    <3>2. disk'[n][1] = Header /\ \A p \in 2..e : disk'[n][p].kind = "block"
      BY <2>1, <3>1 DEF Scanned
    <3>3. disk'[n] \in Seq(Pieces)
      BY <1>1, <2>1 DEF Typed, TypeOK, DiskTyped
    <3> QED
      BY <1>1, <2>1, <3>2, <3>3 DEF WellFormed, Base
  <2>5. Entries(disk'[n], e, 0, 1)
    BY DEF Entries
  <2>6. RepairLists'
    BY <1>1, <2>1, <2>3, <2>4, <2>5 DEF RepairLists
  <2>7. Sound(disk'[n])
    BY <2>4, BlocksWithout, SoundWithout
  <2> QED
    BY <1>1, <2>1, <2>6, <2>7, OneFile DEF TruthInv
<1>4. CASE /\ UNCHANGED files
           /\ disk' = [disk EXCEPT ![n] = SubSeq(@, 1, e)]
           /\ repair' = [repair EXCEPT !.pc = "footer"]
  \* the file ends with its last whole block already
  <2>1. disk[n] \in Seq(Pieces) /\ Scanned(disk[n], e) /\ e \in Nat /\ Len(disk[n]) \in Nat
    BY <1>1, FilesTyped DEF SafeInv, RepairsApart
  <2>2. disk[n] = SubSeq(disk[n], 1, e)
    BY <1>1, <1>4 DEF files, SafeInv, Typed, TypeOK, DiskTyped
  <2>3. Len(SubSeq(disk[n], 1, e)) = e
    <3>1. \A p \in 1..e : disk[n][p] \in Pieces
      BY <2>1 DEF Scanned
    <3> QED
      BY <2>1, <3>1, SubSeqProperties
  <2>4. Len(disk[n]) = e
    BY <2>2, <2>3
  <2>5. Base(disk[n], e)
    BY <1>1, <2>1, <2>4 DEF Base, Scanned
  <2>6. Entries(disk[n], e, 0, 1)
    BY DEF Entries
  <2>7. /\ repair'.pc = "footer" /\ repair'.file = n /\ repair'.end = e
        /\ repair'.done = 1 /\ repair'.count = 0
    BY <1>1, <1>4
  <2>8. RepairLists'
    BY <1>1, <1>4, <2>1, <2>4, <2>5, <2>6, <2>7 DEF RepairLists, files
  <2>9. FilesSound' /\ BuilderLists'
    BY <1>1, <1>4 DEF TruthInv, FilesSound, BuilderLists, files
  <2> QED
    BY <2>8, <2>9 DEF TruthInv
<1> QED
  BY <1>2, <1>3, <1>4 DEF TruncateFile

LEMMA TruthFooterAt ==
  ASSUME SafeInv, TruthInv, WriteFooterAt
  PROVE  TruthInv'
<1> DEFINE n == repair.file
           f == disk[n]
           e == repair.end
           w == repair.count
           d == repair.done
<1>1. /\ n \in DOMAIN disk /\ n # builder.file /\ repair.pc = "footer" /\ DiskTyped
      /\ UNCHANGED builder /\ UNCHANGED call
      /\ repair \in [pc : {"truncate", "footer"}, file : Names, end : Nat,
                    done : Nat, count : Nat]
      /\ f \in Seq(Pieces) /\ Len(f) \in Nat /\ e \in Nat /\ w \in Nat /\ d \in 1..e
      /\ Base(f, e) /\ Len(f) = e + w /\ Entries(f, e, w, d)
  BY RepairTyped, FilesTyped
     DEF WriteFooterAt, SafeInv, Typed, TypeOK, Repairs, TruthInv, RepairLists
<1>2. FooterLess(f)
  BY <1>1, EntriesWithout
<1>3. ASSUME NEW x \in Pieces, Append1(n, x), Sound(Append(f, x)), RepairLists'
      PROVE  TruthInv'
  <2>1. /\ disk'[n] = Append(f, x) /\ DOMAIN disk' = DOMAIN disk
        /\ \A m \in DOMAIN disk : m # n => disk'[m] = disk[m]
    BY <1>1, <1>3, AppendOne
  <2> QED
    BY <1>1, <1>3, <2>1, OneFile DEF TruthInv
<1>4. repair' = Idle => RepairLists'
  BY DEF RepairLists, Idle
<1>5. ASSUME NEW p \in 2..Len(f), NextKey(f, p), Append1(n, IndexEntry(f[p].block, p)),
             repair' = KeyDone(p)
      PROVE  TruthInv'
  <2> DEFINE x == IndexEntry(f[p].block, p)
             g == Append(f, x)
  <2>1. p \in (d + 1)..e /\ IsKey(f, p) /\ \A q \in (d + 1)..(p - 1) : ~ IsKey(f, q)
    BY <1>5 DEF NextKey
  <2>2. x \in Pieces /\ x.kind # "footer"
    <3>1. f[p] \in Pieces /\ p \in Nat
      BY <1>1
    <3>2. f[p].block \in Blocks
      BY <2>1, <3>1 DEF IsKey, Pieces, Header, Torn, Indices
    <3> QED
      BY <3>1, <3>2, PieceTypes DEF IndexEntry
  <2>3. Base(g, e) /\ Len(g) = e + (w + 1) /\ Entries(g, e, w + 1, p)
    BY <1>1, <2>1, <2>2, EntriesMore
  <2>4. disk'[n] = g
    BY <1>1, <1>5, <2>2, AppendOne
  <2> HIDE DEF x
  <2>5. Sound(g)
    BY <1>1, <1>2, <2>2, StillWithout, SoundWithout, OneMorePiece
  <2>6. /\ repair'.pc = "footer" /\ repair'.file = n /\ repair'.end = e
        /\ repair'.done = p /\ repair'.count = w + 1
    BY <1>1, <1>5 DEF KeyDone
  <2>7. p \in 1..e
    BY <1>1, <2>1
  <2> HIDE DEF g
  <2>8. RepairLists'
    BY <2>3, <2>4, <2>6, <2>7 DEF RepairLists
  <2> QED
    BY <1>3, <1>5, <2>2, <2>5, <2>8 DEF x, g
<1>6. CASE /\ \A p \in (d + 1)..e : ~ IsKey(f, p)
           /\ Append1(n, Footer(w)) /\ repair' = Idle
  <2>1. Entries(f, e, w, e)
    <3>1. \A p \in 2..d : p \in 2..e
      BY <1>1
    <3>2. \A p \in 2..e : p \in 2..d \/ p \in (d + 1)..e
      BY <1>1
    <3>3. \A p \in 2..e : IsKey(f, p) => p \in 2..d
      BY <1>6, <3>2
    <3> QED
      BY <1>1, <3>1, <3>3 DEF Entries
  <2>2. Sound(Append(f, Footer(w))) /\ Footer(w) \in Pieces
    BY <1>1, <1>2, <2>1, EntriesTruth, PieceTypes
  <2> QED
    BY <1>3, <1>4, <1>6, <2>2
<1>7. CASE WriteFails(n) /\ repair' = Idle
  <2>1. CASE disk' = disk
    BY <1>1, <1>4, <1>7, <2>1 DEF TruthInv, FilesSound, BuilderLists
  <2>2. CASE Append1(n, Torn)
    <3>1. Torn \in Pieces /\ Torn.kind # "footer"
      BY PieceTypes DEF Torn
    <3>2. Sound(Append(f, Torn))
      BY <1>1, <1>2, <3>1, StillWithout, SoundWithout, OneMorePiece
    <3> QED
      BY <1>3, <1>4, <1>7, <2>2, <3>1, <3>2
  <2> QED
    BY <1>7, <2>1, <2>2 DEF WriteFails
<1> QED
  BY <1>5, <1>6, <1>7 DEF WriteFooterAt, KeyDone

\* A file a write was under way to has no footer yet.
LEMMA WrittenWithout ==
  ASSUME SafeInv, TruthInv
  PROVE  /\ call.pc \in {"header", "append", "footer"} => FooterLess(disk[builder.file])
         /\ repair.pc = "footer" => FooterLess(disk[repair.file])
<1>1. call.pc = "header" => FooterLess(disk[builder.file])
  BY DEF SafeInv, OpenFile, FooterLess
<1>2. call.pc = "append" => FooterLess(disk[builder.file])
  BY FilesTyped, FooterBegins
<1>3. call.pc = "footer" => FooterLess(disk[builder.file])
  BY DEF TruthInv, BuilderLists
<1>4. repair.pc = "footer" => FooterLess(disk[repair.file])
  BY FilesTyped, EntriesWithout DEF TruthInv, RepairLists
<1> QED
  BY <1>1, <1>2, <1>3, <1>4

LEMMA TruthStopped ==
  ASSUME Stopped PROVE BuilderLists' /\ RepairLists'
BY ClosedTyped DEF Stopped, BuilderLists, RepairLists, Idle, Closed

LEMMA TruthCrash ==
  ASSUME SafeInv, TruthInv, Crash
  PROVE  TruthInv'
<1>1. BuilderLists' /\ RepairLists'
  BY TruthStopped DEF Crash
<1>2. ASSUME NEW n \in DOMAIN disk, FooterLess(disk[n]), Append1(n, Torn)
      PROVE  FilesSound'
  <2>1. Torn \in Pieces /\ Torn.kind # "footer" /\ DiskTyped /\ disk[n] \in Seq(Pieces)
    BY PieceTypes, FilesTyped DEF Torn
  <2>2. Sound(Append(disk[n], Torn))
    BY <1>2, <2>1, StillWithout, SoundWithout, OneMorePiece
  <2>3. /\ disk'[n] = Append(disk[n], Torn) /\ DOMAIN disk' = DOMAIN disk
        /\ \A m \in DOMAIN disk : m # n => disk'[m] = disk[m]
    BY <1>2, <2>1, AppendOne
  <2> QED
    BY <2>2, <2>3 DEF TruthInv, FilesSound
<1>3. FilesSound'
  <2>1. CASE disk' = disk
    BY <2>1 DEF TruthInv, FilesSound
  <2>2. CASE call.pc \in {"header", "append", "footer"} /\ Append1(builder.file, Torn)
    BY <1>2, <2>2, FilesTyped, WrittenWithout
  <2>3. CASE repair.pc = "footer" /\ Append1(repair.file, Torn)
    BY <1>2, <2>3, FilesTyped, WrittenWithout
  <2> QED
    BY <2>1, <2>2, <2>3 DEF Crash, HalfWritten
<1> QED
  BY <1>1, <1>3 DEF TruthInv

LEMMA FirstPieces ==
  ASSUME NEW f \in Seq(Pieces), NEW k \in 0..Len(f)
  PROVE  /\ SubSeq(f, 1, k) \in Seq(Pieces) /\ Len(SubSeq(f, 1, k)) = k
         /\ \A p \in 1..k : SubSeq(f, 1, k)[p] = f[p]
<1>1. k \in Nat /\ k <= Len(f) /\ \A p \in 1..k : f[p] \in Pieces
  OBVIOUS
<1>2. SubSeq(f, 1, k) \in Seq(Pieces) /\ Len(SubSeq(f, 1, k)) = k
  BY <1>1, SubSeqProperties
<1>3. \A p \in 1..(k - 1 + 1) : SubSeq(f, 1, k)[p] = f[1 + p - 1]
  BY <1>1, SubSeqProperties
<1> QED
  BY <1>1, <1>2, <1>3

LEMMA TruthPowerLoss ==
  ASSUME SafeInv, TruthInv, PowerLoss
  PROVE  TruthInv'
<1>1. BuilderLists' /\ RepairLists'
  BY TruthStopped DEF PowerLoss
<1>2. PICK lost \in [DOMAIN disk -> 0..MaxLoss], torn \in BOOLEAN :
           /\ disk' = [n \in DOMAIN disk |-> AfterLoss(n, Kept(n, lost[n]), torn)]
           /\ acked' = {a \in acked : a.at <= Kept(a.file, lost[a.file])}
  BY PowerLossIs DEF SafeInv
<1>3. DOMAIN disk' = DOMAIN disk
  BY <1>2
<1>4. ASSUME NEW n \in DOMAIN disk PROVE Sound(disk'[n])
  <2> DEFINE f == disk[n]
             k == Kept(n, lost[n])
             g == SubSeq(f, 1, k)
  <2>1. f \in Seq(Pieces) /\ Len(f) \in Nat /\ DiskTyped /\ Sound(f) /\ lost[n] \in Nat
    BY FilesTyped, Numbers DEF TruthInv, FilesSound
  <2>2. k \in 0..Len(f)
    BY <2>1, KeptIs
  <2>3. disk'[n] = IF torn /\ k < Len(f) THEN Append(g, Torn) ELSE g
    BY <1>2 DEF AfterLoss
  <2> HIDE DEF k
  <2>4. g \in Seq(Pieces) /\ Len(g) = k /\ \A p \in 1..k : g[p] = f[p]
    BY <2>1, <2>2, FirstPieces
  <2> HIDE DEF g, f
  <2>5. (k = Len(f) => g = f) /\ (k < Len(f) => FooterLess(g))
    BY <2>1, <2>2, <2>4, PrefixSound
  <2>6. CASE k = Len(f)
    BY <2>1, <2>3, <2>5, <2>6
  <2>7. CASE k < Len(f)
    <3>1. Torn \in Pieces /\ Torn.kind # "footer"
      BY PieceTypes DEF Torn
    <3>2. Sound(g) /\ Sound(Append(g, Torn))
      BY <2>4, <2>5, <2>7, <3>1, StillWithout, SoundWithout, OneMorePiece
    <3> QED
      BY <2>3, <3>2
  <2> QED
    BY <2>1, <2>2, <2>6, <2>7
<1> QED
  BY <1>1, <1>3, <1>4 DEF TruthInv, FilesSound

LEMMA TruthInit == Init => TruthInv
BY ClosedTyped DEF Init, TruthInv, FilesSound, BuilderLists, RepairLists, Idle, Closed

LEMMA TruthNext ==
  ASSUME SafeInv, SafeInv', TruthInv, NamesSuffice, WholeWrites, [Next]_vars
  PROVE  TruthInv'
<1>1. CASE (\E b \in Blocks : WriteBlock(b)) \/ CloseCurrentSegment \/ FlushPending
  BY <1>1, TruthQuiet
<1>2. CASE BuilderStep
  BY <1>2, TruthOpen, TruthHeader, TruthHeaderSync, TruthAppend, TruthQuiet, TruthFooter,
     TruthFinish DEF BuilderStep
<1>3. CASE RepairStep
  BY <1>3, TruthRepair, TruthTruncate, TruthFooterAt DEF RepairStep, SafeInv
<1>4. CASE Crash \/ PowerLoss
  BY <1>4, TruthCrash, TruthPowerLoss
<1>5. CASE UNCHANGED vars
  BY <1>5 DEF vars, files, TruthInv, FilesSound, BuilderLists, RepairLists
<1> QED
  BY <1>1, <1>2, <1>3, <1>4, <1>5 DEF Next

\* A file with a header and a footer is its blocks and the index of exactly its
\* keyframe blocks, whether write_segment_footer wrote it (segment_builder.cpp)
\* or write_footer_at (segment_repairer.cpp), after any faults.
THEOREM FootersTellTruth ==
  NamesSuffice /\ WholeWrites => (Spec => []FooterTellsTruth)
<1> SUFFICES ASSUME NamesSuffice, WholeWrites PROVE Spec => []FooterTellsTruth
  OBVIOUS
<1>1. Init => SafeInv /\ TruthInv
  BY InitTyped, InitCounted, SafeInit, TruthInit DEF SafeInv
<1>2. SafeInv /\ TruthInv /\ [Next]_vars => (SafeInv /\ TruthInv)'
  BY SafeNext, TruthNext
<1>3. TruthInv => FooterTellsTruth
  BY DEF TruthInv, FilesSound, Sound, Truthful, FooterTellsTruth
<1> QED
  BY <1>1, <1>2, <1>3, PTL DEF Spec

\* One step of the search: among the n entries behind the first lo, when f
\* says how it goes on among fewer.
Halved(s, t, f, n) ==
  [lo \in 0..(Len(s) - n) |->
     IF n = 0 THEN lo
     ELSE LET half == n \div 2 IN
          IF t < s[lo + half + 1].timestamp THEN f[half][lo]
          ELSE f[n - half - 1][lo + half + 1]]

Search(s, t) == CHOOSE f : f = [n \in 0..Len(s) |-> Halved(s, t, f, n)]

LEMMA SearchIs ==
  ASSUME NEW s, NEW t PROVE UpperBound(s, t) = Search(s, t)[Len(s)][0]
  BY DEF UpperBound, Search, Halved

LEMMA LeastNat ==
  ASSUME NEW T, T \subseteq Nat, T # {}
  PROVE  \E x \in T : \A y \in T : x <= y
<1> DEFINE R == OpToRel(<, Nat)
<1>1. IsWellFoundedOn(R, Nat)
  BY NatLessThanWellFounded
<1>2. R = {ss \in Nat \X Nat : ss[1] < ss[2]}
  BY DEF OpToRel
<1> HIDE DEF R
<1>3. PICK x \in T : \A y \in T : ~ (<<y, x>> \in R)
  BY <1>1, WFMin
<1>4. \A y \in T : ~(y < x)
  BY <1>2, <1>3
<1> QED
  BY <1>3, <1>4

LEMMA HalfLess ==
  ASSUME NEW n \in Nat \ {0}
  PROVE  /\ n \div 2 \in Nat /\ n \div 2 < n
         /\ n - (n \div 2) - 1 \in Nat /\ n - (n \div 2) - 1 < n
  OBVIOUS

\* Functions that agree below n go on alike at n.
LEMMA HalvedBelow ==
  ASSUME NEW s, NEW t, NEW f, NEW g, NEW n \in Nat,
         \A m \in 0..(n - 1) : f[m] = g[m]
  PROVE  Halved(s, t, f, n) = Halved(s, t, g, n)
<1>1. CASE n = 0
  BY <1>1 DEF Halved
<1>2. CASE n # 0
  <2>1. n \div 2 \in 0..(n - 1) /\ n - (n \div 2) - 1 \in 0..(n - 1)
    BY <1>2, HalfLess
  <2>2. f[n \div 2] = g[n \div 2] /\ f[n - (n \div 2) - 1] = g[n - (n \div 2) - 1]
    BY <2>1
  <2> QED
    BY <2>2, Zenon DEF Halved
<1> QED
  BY <1>1, <1>2

LEMMA SearchExists ==
  ASSUME NEW s, NEW t, NEW k \in Nat
  PROVE  \E f : f = [n \in 0..k |-> Halved(s, t, f, n)]
<1> DEFINE Bad == {m \in Nat : ~ \E f : f = [n \in 0..m |-> Halved(s, t, f, n)]}
<1>1. SUFFICES ASSUME Bad # {} PROVE FALSE
  OBVIOUS
<1>2. PICK m \in Bad : \A y \in Bad : m <= y
  BY <1>1, LeastNat
<1>3. m \in Nat
  OBVIOUS
<1>4. \A y \in Nat : y < m => \E f : f = [n \in 0..y |-> Halved(s, t, f, n)]
  BY <1>2
<1>5. \E g : \A n \in 0..(m - 1) : g[n] = Halved(s, t, g, n)
  <2>1. CASE m = 0
    BY <2>1
  <2>2. CASE m # 0
    <3>1. m - 1 \in Nat /\ m - 1 < m
      BY <2>2, <1>3
    <3>2. PICK f : f = [n \in 0..(m - 1) |-> Halved(s, t, f, n)]
      BY <3>1, <1>4
    <3> QED
      BY <3>2, Zenon
  <2> QED
    BY <2>1, <2>2
<1>6. PICK g : \A n \in 0..(m - 1) : g[n] = Halved(s, t, g, n)
  BY <1>5
<1> DEFINE h == [n \in 0..m |-> IF n = m THEN Halved(s, t, g, m) ELSE g[n]]
<1>7. \A n \in 0..(m - 1) : h[n] = g[n]
  BY <1>3
<1>8. \A n \in 0..m : Halved(s, t, h, n) = Halved(s, t, g, n)
  <2> SUFFICES ASSUME NEW n \in 0..m PROVE Halved(s, t, h, n) = Halved(s, t, g, n)
    OBVIOUS
  <2> HIDE DEF h
  <2>1. \A j \in 0..(n - 1) : h[j] = g[j]
    BY <1>3, <1>7
  <2> QED
    BY <1>3, <2>1, HalvedBelow
<1>9. \A n \in 0..m : h[n] = Halved(s, t, h, n)
  <2>1. \A n \in 0..m : n = m \/ n \in 0..(m - 1)
    BY <1>3
  <2>2. h[m] = Halved(s, t, g, m) /\ m \in 0..m
    BY <1>3
  <2> HIDE DEF h
  <2> QED
    BY <2>1, <2>2, <1>6, <1>7, <1>8, Zenon
<1>10. h = [n \in 0..m |-> h[n]]
  OBVIOUS
<1> HIDE DEF h
<1>11. h = [n \in 0..m |-> Halved(s, t, h, n)]
  BY <1>9, <1>10
<1> QED
  BY <1>2, <1>11

LEMMA SearchSolves ==
  ASSUME NEW s, NEW t, Len(s) \in Nat
  PROVE  \A n \in 0..Len(s) : Search(s, t)[n] = Halved(s, t, Search(s, t), n)
<1>1. \E f : f = [n \in 0..Len(s) |-> Halved(s, t, f, n)]
  BY SearchExists
<1>2. Search(s, t) = [n \in 0..Len(s) |-> Halved(s, t, Search(s, t), n)]
  BY <1>1, Zenon DEF Search
<1> QED
  BY <1>2, Zenon

\* it is a place the search among the n entries behind lo may come to, in
\* whatever order they are: the entry at it is no later than t, the next is.
IsBound(s, t, lo, n, it) ==
  /\ it \in lo..(lo + n)
  /\ it > lo => s[it].timestamp <= t
  /\ it < lo + n => t < s[it + 1].timestamp

Stamped(s) ==
  /\ Len(s) \in Nat
  /\ \A i \in 1..Len(s) : s[i].timestamp \in Int

\* Halving keeps to the bound.
LEMMA HalvedFinds ==
  ASSUME NEW s, Stamped(s), NEW t \in Int, NEW f, NEW n \in 0..Len(s),
         \A m \in 0..(n - 1) : \A lo \in 0..(Len(s) - m) : IsBound(s, t, lo, m, f[m][lo]),
         NEW lo \in 0..(Len(s) - n)
  PROVE  IsBound(s, t, lo, n, Halved(s, t, f, n)[lo])
<1>0. Len(s) \in Nat /\ n \in Nat /\ lo \in Nat /\ lo + n <= Len(s)
  BY DEF Stamped
<1>1. CASE n = 0
  <2>1. Halved(s, t, f, n)[lo] = lo
    BY <1>1 DEF Halved
  <2> QED
    BY <2>1, <1>0, <1>1 DEF IsBound
<1>2. CASE n # 0
  <2> DEFINE half == n \div 2
             rest == n - half - 1
             mid  == lo + half + 1
  <2>1. half \in Nat /\ half < n /\ rest \in Nat /\ rest < n
    BY <1>0, <1>2, HalfLess
  <2>2. Halved(s, t, f, n)[lo] = IF t < s[mid].timestamp THEN f[half][lo] ELSE f[rest][mid]
    BY <1>2 DEF Halved
  <2>3. half + rest + 1 = n
    BY <2>1, <1>0
  <2> HIDE DEF half, rest
  <2>4. mid \in 1..Len(s) /\ half \in 0..(n - 1) /\ rest \in 0..(n - 1)
        /\ lo \in 0..(Len(s) - half) /\ mid \in 0..(Len(s) - rest)
    BY <1>0, <2>1, <2>3
  <2>5. s[mid].timestamp \in Int
    BY <2>4 DEF Stamped
  <2>6. CASE t < s[mid].timestamp
    <3> DEFINE it == f[half][lo]
    <3>1. IsBound(s, t, lo, half, it)
      BY <2>4
    <3> HIDE DEF it
    <3>2. it \in lo..(lo + n) /\ it <= lo + half
      BY <3>1, <1>0, <2>1 DEF IsBound
    <3>3. it + 1 = mid \/ it < lo + half
      BY <3>1, <1>0, <2>1 DEF IsBound
    <3>4. t < s[it + 1].timestamp
      BY <2>6, <3>1, <3>3 DEF IsBound
    <3>5. IsBound(s, t, lo, n, it)
      BY <3>1, <3>2, <3>4 DEF IsBound
    <3> QED
      BY <3>5, <2>2, <2>6 DEF it
  <2>7. CASE ~ (t < s[mid].timestamp)
    <3> DEFINE it == f[rest][mid]
    <3>1. IsBound(s, t, mid, rest, it)
      BY <2>4
    <3> HIDE DEF it
    <3>2. it \in lo..(lo + n) /\ mid + rest = lo + n
      BY <3>1, <1>0, <2>1, <2>3 DEF IsBound
    <3>3. s[it].timestamp <= t
      <4>1. it = mid \/ it > mid
        BY <3>1, <1>0, <2>1, <2>4 DEF IsBound
      <4> QED
        BY <4>1, <2>5, <2>7, <3>1 DEF IsBound
    <3>4. IsBound(s, t, lo, n, it)
      BY <3>1, <3>2, <3>3 DEF IsBound
    <3> QED
      BY <3>4, <2>2, <2>7 DEF it
  <2> QED
    BY <2>6, <2>7
<1> QED
  BY <1>1, <1>2

LEMMA UpperBoundFinds ==
  ASSUME NEW s, Stamped(s), NEW t \in Int
  PROVE  IsBound(s, t, 0, Len(s), UpperBound(s, t))
<1> DEFINE f == Search(s, t)
           Good(n) == \A lo \in 0..(Len(s) - n) : IsBound(s, t, lo, n, f[n][lo])
           Bad == {n \in 0..Len(s) : ~ Good(n)}
<1>0. Len(s) \in Nat
  BY DEF Stamped
<1>1. \A n \in 0..Len(s) : f[n] = Halved(s, t, f, n)
  BY <1>0, SearchSolves
<1> HIDE DEF f
<1>2. Bad = {}
  <2>1. SUFFICES ASSUME Bad # {} PROVE FALSE
    OBVIOUS
  <2>2. Bad \subseteq Nat
    BY <1>0
  <2> HIDE DEF Bad
  <2>3. PICK n \in Bad : \A m \in Bad : n <= m
    BY <2>1, <2>2, LeastNat
  <2>4. n \in 0..Len(s) /\ ~ Good(n)
    BY DEF Bad
  <2>5. \A m \in 0..(n - 1) : Good(m)
    <3> SUFFICES ASSUME NEW m \in 0..(n - 1) PROVE Good(m)
      OBVIOUS
    <3>1. m \in 0..Len(s) /\ ~ (n <= m)
      BY <2>4, <1>0
    <3>2. m \notin Bad
      BY <2>3, <3>1
    <3> HIDE DEF Good
    <3> QED
      BY <3>1, <3>2 DEF Bad
  <2>6. Good(n)
    BY <2>4, <2>5, <1>1, HalvedFinds
  <2> QED
    BY <2>4, <2>6
<1>3. Good(Len(s))
  BY <1>0, <1>2
<1>4. IsBound(s, t, 0, Len(s), f[Len(s)][0])
  BY <1>0, <1>3
<1> QED
  BY <1>4, SearchIs DEF f

IsBlock(f, p) == p \in 1..Len(f) /\ f[p].kind = "block"

LEMMA BlockStart ==
  ASSUME NEW f \in Seq(Pieces), NEW p, IsBlock(f, p)
  PROVE  f[p].block \in Blocks /\ f[p].block.start \in Nat
<1>1. f[p] \in Pieces /\ f[p].kind = "block"
  BY DEF IsBlock
<1>2. f[p].block \in Blocks
  BY <1>1 DEF Pieces, Header, Torn, Indices
<1> QED
  BY <1>2, Numbers

(***************************************************************************)
(* Seeking in a file with a footer.                                        *)
(***************************************************************************)
\* The footer of a true file: its entries are those of the blocks, in order.
LEMMA FooterOf ==
  ASSUME NEW f \in Seq(Pieces), HasFooter(f), f[1] = Header, Truthful(f)
  PROVE  LET s == FooterIndices(f) IN
         /\ Stamped(s) /\ Len(s) = f[Len(f)].index_count
         /\ \A i \in 1..Len(s) : /\ IsBlock(f, s[i].offset) /\ f[s[i].offset].block.key
                                 /\ s[i].timestamp = f[s[i].offset].block.start
                                 /\ s[i].offset \in 2..Len(f)
                                 /\ \A p \in 2..s[i].offset : f[p].kind = "block"
         /\ \A i, j \in 1..Len(s) : i < j => s[i].offset < s[j].offset
         /\ \A p \in 2..Len(f) : IsBlock(f, p) /\ f[p].block.key =>
              \E i \in 1..Len(s) : s[i].offset = p
<1> DEFINE s == FooterIndices(f)
           c == f[Len(f)].index_count
<1>1. PICK e \in 1..Len(f) :
        /\ Scanned(f, e) /\ Len(f) = e + c + 1 /\ Indexes(s, f, e)
  BY DEF Truthful
<1>2. Len(f) \in Nat /\ Len(f) >= 2 /\ f[Len(f)].kind = "footer" /\ f[Len(f)] \in Pieces
  BY DEF HasFooter
<1>3. c \in Nat
  BY <1>2 DEF Pieces, Header, Torn, Indices
<1> HIDE DEF c
<1>4. s = SubSeq(f, Len(f) - c, Len(f) - 1)
  BY DEF FooterIndices, c
<1>5. /\ Len(s) = c /\ \A i \in 1..c : s[i] = f[e + i]
  <2>1. Len(f) - c = e + 1 /\ Len(f) - 1 = e + c
    BY <1>1, <1>2, <1>3
  <2>2. s = SubSeq(f, e + 1, e + c)
    BY <1>4, <2>1
  <2>3. \A p \in (e + 1)..(e + c) : f[p] \in Pieces
    BY <1>1, <1>2, <1>3
  <2>4. /\ Len(s) = IF e + 1 <= e + c THEN (e + c) - (e + 1) + 1 ELSE 0
        /\ \A i \in 1..((e + c) - (e + 1) + 1) : s[i] = f[(e + 1) + i - 1]
    BY <1>1, <1>2, <1>3, <2>2, <2>3, SubSeqProperties
  <2>5. Len(s) = c
    BY <1>1, <1>3, <2>4
  <2>6. \A i \in 1..c : i \in 1..((e + c) - (e + 1) + 1) /\ (e + 1) + i - 1 = e + i
    BY <1>1, <1>3
  <2> QED
    BY <2>4, <2>5, <2>6
<1> HIDE DEF s
<1>6. \A i \in 1..c : /\ s[i].offset \in 2..e /\ IsKey(f, s[i].offset)
                      /\ s[i] = IndexEntry(f[s[i].offset].block, s[i].offset)
  BY <1>1, <1>5 DEF Indexes
<1>7. \A i \in 1..c : s[i].kind = "index" /\ s[i].timestamp = f[s[i].offset].block.start
  <2>1. \A b, p : IndexEntry(b, p).kind = "index" /\ IndexEntry(b, p).timestamp = b.start
    BY DEF IndexEntry
  <2> SUFFICES ASSUME NEW i \in 1..c
               PROVE  s[i].kind = "index" /\ s[i].timestamp = f[s[i].offset].block.start
    OBVIOUS
  <2> DEFINE p == s[i].offset
             b == f[p].block
  <2>2. s[i] = IndexEntry(b, p)
    BY <1>6
  <2>3. IndexEntry(b, p).kind = "index" /\ IndexEntry(b, p).timestamp = b.start
    BY <2>1
  <2>4. b.start = f[s[i].offset].block.start
    OBVIOUS
  <2> HIDE DEF b, p
  <2> QED
    BY <2>2, <2>3, <2>4
<1>8. \A i \in 1..c : IsBlock(f, s[i].offset) /\ f[s[i].offset].block.key
                      /\ s[i].offset \in 2..Len(f)
  BY <1>1, <1>2, <1>6 DEF IsKey, IsBlock
<1>9. \A i \in 1..c : \A p \in 2..s[i].offset : f[p].kind = "block"
  <2> SUFFICES ASSUME NEW i \in 1..c, NEW p \in 2..s[i].offset PROVE f[p].kind = "block"
    OBVIOUS
  <2>1. p \in 2..e
    BY <1>6
  <2> QED
    BY <1>1, <2>1 DEF Scanned
<1>10. \A i, j \in 1..c : i < j => s[i].offset < s[j].offset
  BY <1>1, <1>5 DEF Indexes
<1>11. \A p \in 2..Len(f) : IsBlock(f, p) => p \in 2..e
  <2> SUFFICES ASSUME NEW p \in 2..Len(f), IsBlock(f, p), ~ (p \in 2..e) PROVE FALSE
    OBVIOUS
  <2>1. p - e \in 1..c \/ p = Len(f)
    BY <1>1, <1>2, <1>3
  <2>2. f[p].kind = "block"
    BY DEF IsBlock
  <2>3. CASE p - e \in 1..c
    <3>1. s[p - e] = f[e + (p - e)] /\ s[p - e].kind = "index"
      BY <2>3, <1>5, <1>7
    <3>2. e + (p - e) = p
      BY <1>1, <1>2
    <3> QED
      BY <2>2, <3>1, <3>2
  <2>4. CASE p = Len(f)
    BY <2>2, <2>4, <1>2
  <2> QED
    BY <2>1, <2>3, <2>4
<1>12. \A p \in 2..Len(f) : IsBlock(f, p) /\ f[p].block.key => \E i \in 1..c : s[i].offset = p
  <2> SUFFICES ASSUME NEW p \in 2..Len(f), IsBlock(f, p), f[p].block.key
               PROVE  \E i \in 1..c : s[i].offset = p
    OBVIOUS
  <2>1. p \in 2..e /\ IsKey(f, p)
    BY <1>11 DEF IsKey, IsBlock
  <2> QED
    BY <1>1, <1>5, <2>1 DEF Indexes
<1>13. Stamped(s)
  <2>1. \A i \in 1..c : s[i].timestamp \in Int
    BY <1>7, <1>8, BlockStart
  <2> QED
    BY <1>3, <1>5, <2>1 DEF Stamped
<1> QED
  BY <1>5, <1>7, <1>8, <1>9, <1>10, <1>12, <1>13 DEF s, c

\* What seek_to_time finds there.
LEMMA SeekFinds ==
  ASSUME NEW f \in Seq(Pieces), HasFooter(f), f[1] = Header, Truthful(f),
         Len(FooterIndices(f)) > 0, NEW t \in Int
  PROVE  LET found == SeekOffset(FooterIndices(f), t)
         IN  Straddles(f, t, found) /\ (Ascends(f) => Nearest(f, t, found))
<1> DEFINE s == FooterIndices(f)
           it == UpperBound(s, t)
           found == SeekOffset(s, t)
<1>1. /\ Stamped(s) /\ Len(s) \in Nat
      /\ \A i \in 1..Len(s) : /\ IsBlock(f, s[i].offset) /\ f[s[i].offset].block.key
                              /\ s[i].timestamp = f[s[i].offset].block.start
                              /\ s[i].offset \in 2..Len(f)
      /\ \A i, j \in 1..Len(s) : i < j => s[i].offset < s[j].offset
      /\ \A p \in 2..Len(f) : IsBlock(f, p) /\ f[p].block.key =>
              \E i \in 1..Len(s) : s[i].offset = p
  BY FooterOf DEF Stamped
<1>2. IsBound(s, t, 0, Len(s), it)
  BY <1>1, UpperBoundFinds
<1>3. found = s[IF it = 0 THEN 1 ELSE it].offset
  BY DEF SeekOffset
<1>4. Len(s) > 0 /\ Len(f) \in Nat
  OBVIOUS
<1> HIDE DEF s
<1>5. /\ it \in 0..Len(s)
      /\ it > 0 => s[it].timestamp <= t
      /\ it < Len(s) => t < s[it + 1].timestamp
  BY <1>1, <1>2 DEF IsBound
<1> HIDE DEF it, found
\* The keyframe blocks are those of the entries, in their order.
<1>6. \A i \in 1..Len(s) : /\ s[i].offset \in Keys(f) /\ s[i].offset \in Nat
                           /\ StartAt(f, s[i].offset) = s[i].timestamp
                           /\ s[i].timestamp \in Int
  <2> SUFFICES ASSUME NEW i \in 1..Len(s)
               PROVE  /\ s[i].offset \in Keys(f) /\ s[i].offset \in Nat
                      /\ StartAt(f, s[i].offset) = s[i].timestamp
                      /\ s[i].timestamp \in Int
    OBVIOUS
  <2>1. s[i].offset \in 2..Len(f) /\ IsBlock(f, s[i].offset) /\ f[s[i].offset].block.key
        /\ s[i].timestamp = f[s[i].offset].block.start /\ s[i].timestamp \in Int
    BY <1>1 DEF Stamped
  <2> QED
    BY <1>4, <2>1 DEF Keys, IsKey, IsBlock, StartAt
<1>7. \A q \in Keys(f) : \E j \in 1..Len(s) : s[j].offset = q
  BY <1>1, <1>4 DEF Keys, IsKey, IsBlock
<1>8. PICK k \in 1..Len(s) : k = (IF it = 0 THEN 1 ELSE it) /\ found = s[k].offset
  BY <1>1, <1>3, <1>4, <1>5
<1>9. \A i, j \in 1..Len(s) : s[i].offset < s[j].offset => i < j
  <2> SUFFICES ASSUME NEW i \in 1..Len(s), NEW j \in 1..Len(s), s[i].offset < s[j].offset, ~(i < j)
               PROVE  FALSE
    OBVIOUS
  <2>1. i = j \/ j < i
    OBVIOUS
  <2> QED
    BY <1>1, <1>6, <2>1
<1>10. Straddles(f, t, found)
  <2>1. found \in Keys(f)
    BY <1>6, <1>8
  <2>2. CASE StartAt(f, found) > t
    <3>1. k = 1
      BY <1>5, <1>6, <1>8, <2>2
    <3>2. ASSUME NEW q \in Keys(f) PROVE found <= q
      <4>1. PICK j \in 1..Len(s) : s[j].offset = q
        BY <1>7
      <4>2. j = 1 \/ 1 < j
        OBVIOUS
      <4> QED
        BY <1>1, <1>6, <1>8, <3>1, <4>1, <4>2
    <3> QED
      BY <2>1, <2>2, <3>2 DEF Straddles
  <2>3. CASE ~(StartAt(f, found) > t)
    <3>0. s[k].timestamp <= t
      BY <1>6, <1>8, <2>3
    <3>1. it = k
      BY <1>1, <1>4, <1>5, <1>6, <1>8, <3>0
    <3>2. ASSUME NEW q \in Keys(f), q > found, StartAt(f, q) <= t
          PROVE  \E r \in Keys(f) : found < r /\ r < q
      <4>1. PICK j \in 1..Len(s) : s[j].offset = q
        BY <1>7
      <4>2. k < j
        BY <1>8, <1>9, <3>2, <4>1
      <4>3. k + 1 \in 1..Len(s) /\ t < s[k + 1].timestamp
        BY <1>1, <1>5, <3>1, <4>2
      <4>4. j # k + 1
        BY <1>6, <3>2, <4>1, <4>3
      <4>5. k < k + 1 /\ k + 1 < j
        BY <4>2, <4>4
      <4>6. found < s[k + 1].offset /\ s[k + 1].offset < q /\ s[k + 1].offset \in Keys(f)
        BY <1>1, <1>6, <1>8, <4>1, <4>3, <4>5
      <4> QED
        BY <4>6
    <3> QED
      BY <2>1, <2>3, <3>2 DEF Straddles
  <2> QED
    BY <2>2, <2>3
<1>11. ASSUME Ascends(f) PROVE Nearest(f, t, found)
  <2> SUFFICES ASSUME NEW q \in Keys(f), StartAt(f, q) <= t
               PROVE  StartAt(f, q) <= StartAt(f, found) /\ StartAt(f, found) <= t
    BY DEF Nearest
  <2>1. PICK j \in 1..Len(s) : s[j].offset = q
    BY <1>7
  <2>2. \A i, h \in 1..Len(s) : i < h => s[i].timestamp <= s[h].timestamp
    BY <1>1, <1>6, <1>11 DEF Ascends
  <2>3. s[j].timestamp <= t /\ \A i \in 1..Len(s) : s[i].timestamp \in Int
    BY <1>6, <2>1
  <2>4. j <= it
    <3> SUFFICES ASSUME it < j PROVE FALSE
      BY <1>5
    <3>1. it + 1 \in 1..Len(s) /\ t < s[it + 1].timestamp /\ (j = it + 1 \/ it + 1 < j)
      BY <1>1, <1>5
    <3> QED
      BY <2>2, <2>3, <3>1
  <2>5. it = k /\ (j = k \/ j < k) /\ s[k].timestamp <= t
    BY <1>5, <1>8, <2>4
  <2>6. s[j].timestamp <= s[k].timestamp
    BY <2>2, <2>3, <2>5
  <2> QED
    BY <1>6, <1>8, <2>1, <2>5, <2>6
<1> QED
  BY <1>10, <1>11 DEF found, s

LEMMA SeekIs == SafeInv /\ TruthInv => SeekFindsNearest
<1> SUFFICES ASSUME SafeInv, TruthInv, NEW n \in DOMAIN disk,
                    HasFooter(disk[n]), disk[n][1] = Header,
                    NEW i \in 1..disk[n][Len(disk[n])].index_count, NEW d \in {0, 1}
             PROVE  LET f == disk[n]
                        t     == FooterIndices(f)[i].timestamp - d
                        found == SeekOffset(FooterIndices(f), t)
                    IN  Straddles(f, t, found) /\ (Ascends(f) => Nearest(f, t, found))
  BY Zenon DEF SeekFindsNearest
<1>1. disk[n] \in Seq(Pieces) /\ Truthful(disk[n])
  BY FilesTyped DEF TruthInv, FilesSound, Sound
<1>2. Stamped(FooterIndices(disk[n])) /\ Len(FooterIndices(disk[n])) = disk[n][Len(disk[n])].index_count
  BY <1>1, FooterOf
<1>3. /\ FooterIndices(disk[n])[i].timestamp - d \in Int
      /\ Len(FooterIndices(disk[n])) > 0
  BY <1>2 DEF Stamped
<1> QED
  BY <1>1, <1>3, SeekFinds

\* seek_to_time (segment_reader.cpp): in every file with a footer, however
\* often the clock of the caller went back, the binary search over the entries
\* finds a keyframe block that starts no later than the time asked for and is
\* followed by one that starts later; where the starts ascend, the nearest.
THEOREM SeekIsNearest ==
  NamesSuffice /\ WholeWrites => (Spec => []SeekFindsNearest)
<1> SUFFICES ASSUME NamesSuffice, WholeWrites PROVE Spec => []SeekFindsNearest
  OBVIOUS
<1>1. Init => SafeInv /\ TruthInv
  BY InitTyped, InitCounted, SafeInit, TruthInit DEF SafeInv
<1>2. SafeInv /\ TruthInv /\ [Next]_vars => (SafeInv /\ TruthInv)'
  BY SafeNext, TruthNext
<1> QED
  BY <1>1, <1>2, SeekIs, PTL DEF Spec

(***************************************************************************)
(* In a file with a header blocks come first, and what is torn comes last. *)
(***************************************************************************)
Shaped(f) ==
  f # <<>> /\ f[1] = Header =>
    \A p, q \in 2..Len(f) : p < q => /\ f[p] # Torn
                                     /\ f[q].kind = "block" => f[p].kind = "block"

\* Nothing is torn yet.
Ready(f) == f # <<>> /\ f[1] = Header => \A p \in 2..Len(f) : f[p] # Torn

ShapeInv == \A n \in DOMAIN disk : Shaped(disk[n])

LEMMA ShapedNext ==
  ASSUME NEW f \in Seq(Pieces), NEW x \in Pieces, Shaped(f), Ready(f),
         x.kind = "block" => WellFormed(f)
  PROVE  Shaped(Append(f, x))
<1> DEFINE g == Append(f, x)
<1>1. /\ Len(f) \in Nat /\ Len(g) = Len(f) + 1 /\ g[Len(f) + 1] = x
      /\ \A p \in 1..Len(f) : g[p] = f[p]
  OBVIOUS
<1> HIDE DEF g
<1>2. SUFFICES ASSUME g[1] = Header, NEW p \in 2..Len(g), NEW q \in 2..Len(g), p < q
               PROVE  g[p] # Torn /\ (g[q].kind = "block" => g[p].kind = "block")
  BY DEF Shaped, g
<1>3. p \in 2..Len(f) /\ 1 \in 1..Len(f) /\ p \in 1..Len(f)
  BY <1>1, <1>2
<1>4. f[1] = Header /\ g[p] = f[p] /\ f # <<>>
  <2>1. g[1] = f[1] /\ g[p] = f[p]
    BY <1>1, <1>3
  <2>2. f = <<>> => Len(f) = 0
    OBVIOUS
  <2> QED
    BY <1>1, <1>2, <1>3, <2>1, <2>2
<1>5. f[p] # Torn
  BY <1>3, <1>4 DEF Ready
<1>6. CASE q \in 2..Len(f)
  <2>1. g[q] = f[q]
    BY <1>1, <1>6
  <2>2. f[q].kind = "block" => f[p].kind = "block"
    BY <1>2, <1>3, <1>4, <1>6 DEF Shaped
  <2> QED
    BY <1>4, <1>5, <2>1, <2>2
<1>7. CASE q = Len(f) + 1
  <2>1. g[q] = x
    BY <1>1, <1>7
  <2>2. x.kind = "block" => f[p].kind = "block"
    BY <1>3 DEF WellFormed
  <2> QED
    BY <1>4, <1>5, <2>1, <2>2
<1> QED
  BY <1>1, <1>6, <1>7

LEMMA ShapedPrefix ==
  ASSUME NEW f \in Seq(Pieces), NEW g \in Seq(Pieces), Len(g) <= Len(f),
         \A p \in 1..Len(g) : g[p] = f[p], Shaped(f)
  PROVE  Shaped(g) /\ (Len(g) < Len(f) => Ready(g))
<1>1. Len(f) \in Nat /\ Len(g) \in Nat
  OBVIOUS
<1>2. CASE g = <<>>
  BY <1>2 DEF Shaped, Ready
<1>3. CASE g # <<>>
  <2>1. 1 \in 1..Len(g) /\ f # <<>>
    BY <1>1, <1>3
  <2>2. g[1] = f[1]
    BY <2>1
  <2>3. \A p \in 2..Len(g) : p \in 1..Len(g) /\ p \in 2..Len(f)
    BY <1>1
  <2>4. Shaped(g)
    BY <2>1, <2>2, <2>3 DEF Shaped
  <2>5. ASSUME Len(g) < Len(f), g[1] = Header, NEW p \in 2..Len(g) PROVE g[p] # Torn
    <3>1. p \in 2..Len(f) /\ Len(f) \in 2..Len(f) /\ p < Len(f) /\ g[p] = f[p]
      BY <1>1, <2>3, <2>5
    <3> QED
      BY <2>1, <2>2, <2>5, <3>1 DEF Shaped
  <2> QED
    BY <2>4, <2>5 DEF Ready
<1> QED
  BY <1>2, <1>3

LEMMA WellFormedReady == \A f : WellFormed(f) => Ready(f)
BY DEF WellFormed, Ready, Torn

\* Where a piece is written next, nothing is torn.
LEMMA WritingReady ==
  ASSUME SafeInv, TruthInv
  PROVE  /\ call.pc \in {"header", "append", "footer"} => Ready(disk[builder.file])
         /\ repair.pc = "footer" => Ready(disk[repair.file])
<1>1. call.pc = "header" => Ready(disk[builder.file])
  BY DEF SafeInv, OpenFile, Ready
<1>2. call.pc = "append" => Ready(disk[builder.file])
  BY FilesTyped, WellFormedReady DEF SafeInv, OpenFile
<1>3. ASSUME call.pc = "footer" PROVE Ready(disk[builder.file])
  <2> DEFINE f == disk[builder.file]
             s == builder.indices
  <2>1. f \in Seq(Pieces) /\ Len(f) \in Nat /\ s \in Seq(Indices)
    BY <1>3, FilesTyped
  <2>2. SUFFICES ASSUME f # <<>>, f[1] = Header, NEW p \in 2..Len(f) PROVE f[p].kind # "torn"
    BY DEF Ready, Torn
  <2>3. PICK e \in Nat : Listed(f, e, s, call.written)
    BY <1>3, <2>1, <2>2 DEF TruthInv, BuilderLists
  <2>4. CASE p <= e
    BY <2>3, <2>4 DEF Listed, Base
  <2>5. CASE p > e
    <3>1. p - e \in 1..call.written /\ p - e \in 1..Len(s) /\ e + (p - e) = p
      BY <2>1, <2>3, <2>5 DEF Listed
    <3>2. f[p] = s[p - e]
      BY <2>3, <3>1 DEF Listed
    <3>3. s[p - e] \in Indices
      BY <2>1, <3>1
    <3> QED
      BY <3>2, <3>3 DEF Indices
  <2> QED
    BY <2>4, <2>5
<1>4. ASSUME repair.pc = "footer" PROVE Ready(disk[repair.file])
  <2> DEFINE f == disk[repair.file]
             e == repair.end
  <2>1. f \in Seq(Pieces) /\ Len(f) \in Nat /\ e \in Nat /\ repair.count \in Nat
    BY <1>4, FilesTyped
  <2>2. SUFFICES ASSUME NEW p \in 2..Len(f) PROVE f[p].kind # "torn"
    BY DEF Ready, Torn
  <2>3. /\ Base(f, e) /\ Len(f) = e + repair.count
        /\ Entries(f, e, repair.count, repair.done)
    BY <1>4 DEF TruthInv, RepairLists
  <2>4. CASE p <= e
    BY <2>1, <2>3, <2>4 DEF Base
  <2>5. CASE p > e
    <3>1. p - e \in 1..repair.count /\ e + (p - e) = p
      BY <2>1, <2>3, <2>5
    <3>2. f[p] = IndexEntry(f[f[p].offset].block, f[p].offset)
      BY <2>3, <3>1, Zenon DEF Entries
    <3>3. \A b, o : IndexEntry(b, o).kind = "index"
      BY DEF IndexEntry
    <3>4. f[p].kind = "index"
      BY <3>2, <3>3, Zenon
    <3> QED
      BY <3>4
  <2> QED
    BY <2>1, <2>4, <2>5
<1> QED
  BY <1>1, <1>2, <1>3, <1>4

\* One file gets one more piece.
LEMMA ShapeGrows ==
  ASSUME SafeInv, ShapeInv, NEW n \in DOMAIN disk, NEW x \in Pieces, Append1(n, x),
         Ready(disk[n]), x.kind = "block" => WellFormed(disk[n])
  PROVE  ShapeInv'
<1>1. /\ DiskTyped /\ \A m \in DOMAIN disk : disk[m] \in Seq(Pieces)
  BY FilesTyped
<1>2. /\ disk'[n] = Append(disk[n], x) /\ DOMAIN disk' = DOMAIN disk
      /\ \A m \in DOMAIN disk : m # n => disk'[m] = disk[m]
  BY <1>1, AppendOne
<1>3. Shaped(disk'[n])
  BY <1>1, <1>2, ShapedNext DEF ShapeInv
<1> QED
  BY <1>2, <1>3 DEF ShapeInv

LEMMA ShapeTorn ==
  ASSUME SafeInv, ShapeInv, NEW n \in DOMAIN disk, WriteFails(n) \/ Append1(n, Torn),
         Ready(disk[n])
  PROVE  ShapeInv'
<1>1. Torn \in Pieces /\ Torn.kind # "block"
  BY PieceTypes DEF Torn
<1> QED
  BY <1>1, ShapeGrows DEF WriteFails, ShapeInv

LEMMA ShapeBuilder ==
  ASSUME SafeInv, TruthInv, ShapeInv, WholeWrites, BuilderStep
  PROVE  ShapeInv'
<1> DEFINE n == builder.file
<1>1. CASE OpenSegment
  <2>1. CASE UNCHANGED files
    BY <2>1 DEF files, ShapeInv
  <2>2. ASSUME NEW name, disk' = Truncated(disk, name, <<>>) PROVE ShapeInv'
    BY <2>2 DEF Truncated, ShapeInv, Shaped
  <2> QED
    BY <1>1, <2>1, <2>2 DEF OpenSegment
<1>2. CASE WriteSegmentHeader
  <2>1. n \in DOMAIN disk /\ Ready(disk[n])
    BY <1>2, FilesTyped, WritingReady DEF WriteSegmentHeader
  <2>2. Header \in Pieces /\ Header.kind # "block"
    BY PieceTypes DEF Header
  <2> QED
    BY <1>2, <2>1, <2>2, ShapeGrows, ShapeTorn DEF WriteSegmentHeader
<1>3. CASE AppendBlock
  <2>1. n \in DOMAIN disk /\ Ready(disk[n]) /\ WellFormed(disk[n]) /\ call \in WriteCalls
    BY <1>3, FilesTyped, CallFields, WritingReady DEF AppendBlock, SafeInv, OpenFile
  <2>2. BlockPiece(call.block) \in Pieces
    BY <2>1, PieceTypes DEF WriteCalls
  <2>3. Append1(n, BlockPiece(call.block)) \/ UNCHANGED disk
    BY <1>3 DEF AppendBlock, Fault, WholeWrites
  <2>4. CASE Append1(n, BlockPiece(call.block))
    BY <2>1, <2>2, <2>4, ShapeGrows
  <2> QED
    BY <2>3, <2>4 DEF ShapeInv
<1>4. CASE WriteSegmentFooter
  <2>1. n \in DOMAIN disk /\ builder.indices \in Seq(Indices) /\ Len(builder.indices) \in Nat
        /\ call.written \in Nat /\ Ready(disk[n])
    BY <1>4, FilesTyped, CallFields, WritingReady DEF WriteSegmentFooter
  <2>2. CASE WriteFails(n)
    BY <2>1, <2>2, ShapeTorn
  <2>3. CASE Append1(n, Footer(Len(builder.indices)))
    <3>1. Footer(Len(builder.indices)) \in Pieces /\ Footer(Len(builder.indices)).kind # "block"
      BY <2>1, PieceTypes DEF Footer
    <3> QED
      BY <2>1, <2>3, <3>1, ShapeGrows
  <2>4. CASE call.written < Len(builder.indices) /\ Append1(n, builder.indices[call.written + 1])
    <3>1. builder.indices[call.written + 1] \in Indices
      BY <2>1, <2>4
    <3>2. builder.indices[call.written + 1] \in Pieces /\ builder.indices[call.written + 1].kind # "block"
      BY <3>1, PieceTypes DEF Indices
    <3> QED
      BY <2>1, <2>4, <3>2, ShapeGrows
  <2> QED
    BY <1>4, <2>2, <2>3, <2>4 DEF WriteSegmentFooter
<1>5. CASE SyncHeader \/ SyncBatch \/ FinishSegment
  BY <1>5 DEF SyncHeader, SyncBatch, FinishSegment, ShapeInv
<1> QED
  BY <1>1, <1>2, <1>3, <1>4, <1>5 DEF BuilderStep

LEMMA ShapeRepair ==
  ASSUME SafeInv, TruthInv, ShapeInv, RepairStep
  PROVE  ShapeInv'
<1> DEFINE n == repair.file
<1>1. CASE \E m \in DOMAIN disk : RepairSegment(m)
  BY <1>1 DEF RepairSegment, files, ShapeInv
<1>2. CASE TruncateFile /\ UNCHANGED files
  BY <1>2 DEF files, ShapeInv
<1>3. CASE TruncateFile /\ ~ UNCHANGED files
  <2>1. /\ n \in DOMAIN disk /\ repair.end \in Nat /\ repair.end <= Len(disk[n]) /\ Len(disk[n]) \in Nat
        /\ DOMAIN disk' = DOMAIN disk
        /\ \A m \in DOMAIN disk : m # n => disk'[m] = disk[m]
        /\ disk[n] \in Seq(Pieces) /\ Len(disk'[n]) = repair.end
        /\ \A p \in 1..repair.end : disk'[n][p] = disk[n][p]
    BY <1>3, TruncateIs, FilesTyped DEF Scanned
  <2>2. disk'[n] \in Seq(Pieces)
    <3>1. disk'[n] = SubSeq(disk[n], 1, repair.end)
      BY <1>3, <2>1 DEF TruncateFile
    <3> QED
      BY <2>1, <3>1, FirstPieces
  <2>3. Shaped(disk'[n])
    BY <2>1, <2>2, ShapedPrefix DEF ShapeInv
  <2> QED
    BY <2>1, <2>3 DEF ShapeInv
<1>4. CASE WriteFooterAt
  <2>1. n \in DOMAIN disk /\ repair.count \in Nat /\ disk[n] \in Seq(Pieces) /\ Ready(disk[n])
    BY <1>4, FilesTyped, WritingReady DEF WriteFooterAt
  <2>2. CASE WriteFails(n)
    BY <2>1, <2>2, ShapeTorn
  <2>3. CASE Append1(n, Footer(repair.count))
    <3>1. Footer(repair.count) \in Pieces /\ Footer(repair.count).kind # "block"
      BY <2>1, PieceTypes DEF Footer
    <3> QED
      BY <2>1, <2>3, <3>1, ShapeGrows
  <2>4. ASSUME NEW p \in 2..Len(disk[n]), IsKey(disk[n], p), Append1(n, IndexEntry(disk[n][p].block, p))
        PROVE  ShapeInv'
    <3>1. IsBlock(disk[n], p) /\ p \in Nat
      BY <2>1, <2>4 DEF IsKey, IsBlock
    <3>2. IndexEntry(disk[n][p].block, p) \in Pieces
      BY <2>1, <3>1, BlockStart, PieceTypes
    <3>3. \A b : IndexEntry(b, p).kind = "index"
      BY DEF IndexEntry
    <3> QED
      BY <2>1, <2>4, <3>2, <3>3, ShapeGrows
  <2> QED
    BY <1>4, <2>2, <2>3, <2>4 DEF WriteFooterAt, NextKey
<1> QED
  BY <1>1, <1>2, <1>3, <1>4 DEF RepairStep

LEMMA ShapePowerLoss ==
  ASSUME SafeInv, TruthInv, ShapeInv, PowerLoss
  PROVE  ShapeInv'
<1>1. PICK lost \in [DOMAIN disk -> 0..MaxLoss], torn \in BOOLEAN :
           /\ disk' = [n \in DOMAIN disk |-> AfterLoss(n, Kept(n, lost[n]), torn)]
           /\ acked' = {a \in acked : a.at <= Kept(a.file, lost[a.file])}
  BY PowerLossIs DEF SafeInv
<1>2. ASSUME NEW n \in DOMAIN disk PROVE Shaped(disk'[n])
  <2> DEFINE f == disk[n]
             k == Kept(n, lost[n])
             g == SubSeq(f, 1, k)
  <2>1. f \in Seq(Pieces) /\ Len(f) \in Nat /\ DiskTyped /\ lost[n] \in Nat /\ Shaped(f)
    BY FilesTyped, Numbers DEF ShapeInv
  <2>2. k \in 0..Len(f)
    BY <2>1, KeptIs
  <2>3. disk'[n] = IF torn /\ k < Len(f) THEN Append(g, Torn) ELSE g
    BY <1>1 DEF AfterLoss
  <2> HIDE DEF k
  <2>4. g \in Seq(Pieces) /\ Len(g) = k /\ \A p \in 1..k : g[p] = f[p]
    BY <2>1, <2>2, FirstPieces
  <2> HIDE DEF g
  <2>5. Shaped(g) /\ (k < Len(f) => Ready(g))
    BY <2>1, <2>2, <2>4, ShapedPrefix
  <2>6. k < Len(f) => Shaped(Append(g, Torn))
    <3>1. Torn \in Pieces /\ Torn.kind # "block"
      BY PieceTypes DEF Torn
    <3> QED
      BY <2>4, <2>5, <3>1, ShapedNext
  <2> QED
    BY <2>3, <2>5, <2>6
<1> QED
  BY <1>1, <1>2 DEF ShapeInv

LEMMA ShapeNext ==
  ASSUME SafeInv, TruthInv, ShapeInv, WholeWrites, [Next]_vars
  PROVE  ShapeInv'
<1>1. CASE Crash
  <2>1. CASE call.pc \in {"header", "append", "footer"} /\ Append1(builder.file, Torn)
    BY <2>1, FilesTyped, WritingReady, ShapeTorn
  <2>2. CASE repair.pc = "footer" /\ Append1(repair.file, Torn)
    BY <2>2, FilesTyped, WritingReady, ShapeTorn
  <2> QED
    BY <1>1, <2>1, <2>2 DEF Crash, HalfWritten, ShapeInv
<1>2. CASE (\E b \in Blocks : WriteBlock(b)) \/ CloseCurrentSegment \/ FlushPending \/ UNCHANGED vars
  BY <1>2 DEF WriteBlock, CloseCurrentSegment, FlushPending, vars, files, ShapeInv
<1> QED
  BY <1>1, <1>2, ShapeBuilder, ShapeRepair, ShapePowerLoss DEF Next

LEMMA ShapeInit == Init => ShapeInv
BY DEF Init, ShapeInv

\* The search stays among the entries, in whatever order they are.
LEMMA HalvedWithin ==
  ASSUME NEW s, NEW t, Len(s) \in Nat, NEW n \in 0..Len(s),
         \A m \in 0..(n - 1) : \A lo \in 0..(Len(s) - m) : Search(s, t)[m][lo] \in lo..(lo + m)
  PROVE  \A lo \in 0..(Len(s) - n) : Search(s, t)[n][lo] \in lo..(lo + n)
<1> DEFINE F == Search(s, t)
<1>1. F[n] = Halved(s, t, F, n)
  BY SearchSolves
<1> HIDE DEF F
<1> SUFFICES ASSUME NEW lo \in 0..(Len(s) - n) PROVE F[n][lo] \in lo..(lo + n)
  BY DEF F
<1>2. CASE n = 0
  BY <1>1, <1>2 DEF Halved
<1>3. CASE n # 0
  <2> DEFINE half == n \div 2
             rest == n - half - 1
  <2>1. half \in 0..(n - 1) /\ rest \in 0..(n - 1) /\ rest = n - half - 1 /\ half \in Nat
    BY <1>3, HalfLess
  <2>2. F[n][lo] = IF t < s[lo + half + 1].timestamp THEN F[half][lo] ELSE F[rest][lo + half + 1]
    BY <1>1, <1>3 DEF Halved
  <2> HIDE DEF half, rest
  <2>3. lo \in 0..(Len(s) - half) /\ lo + half + 1 \in 0..(Len(s) - rest)
    BY <2>1
  <2>4. F[half][lo] \in lo..(lo + half)
    BY <2>1, <2>3 DEF F
  <2>5. F[rest][lo + half + 1] \in (lo + half + 1)..(lo + half + 1 + rest)
    BY <2>1, <2>3 DEF F
  <2>6. F[n][lo] = F[half][lo] \/ F[n][lo] = F[rest][lo + half + 1]
    BY <2>2
  <2> QED
    BY <2>1, <2>4, <2>5, <2>6
<1> QED
  BY <1>2, <1>3

LEMMA UpperBoundWithin ==
  ASSUME NEW s, NEW t, Len(s) \in Nat PROVE UpperBound(s, t) \in 0..Len(s)
<1> DEFINE P(n) == \A lo \in 0..(Len(s) - n) : Search(s, t)[n][lo] \in lo..(lo + n)
           Bad == {n \in 0..Len(s) : ~ P(n)}
<1>1. Bad = {}
  <2>1. SUFFICES ASSUME Bad # {} PROVE FALSE
    OBVIOUS
  <2>2. Bad \subseteq Nat
    OBVIOUS
  <2>3. PICK n \in Bad : \A m \in Bad : n <= m
    BY <2>1, <2>2, LeastNat
  <2>4. n \in 0..Len(s) /\ ~ P(n)
    OBVIOUS
  <2>5. \A m \in 0..(n - 1) : P(m)
    BY <2>3, <2>4
  <2> QED
    BY <2>4, <2>5, HalvedWithin
<1>2. P(Len(s))
  BY <1>1
<1>3. Search(s, t)[Len(s)][0] \in 0..(0 + Len(s))
  BY <1>2
<1> QED
  BY <1>3, SearchIs

\* The builder takes nothing away from any file.
LEMMA BuilderGrown ==
  ASSUME SafeInv, NamesSuffice, BuilderStep
  PROVE  Grown
<1> DEFINE n == builder.file
<1>0. DiskTyped /\ \A m \in DOMAIN disk : Len(disk[m]) \in Nat
  BY FilesTyped
<1>1. CASE OpenSegment
  <2>1. CASE UNCHANGED <<files, builder>>
    BY <2>1, <1>0, SameGrown DEF files
  <2>2. ASSUME NEW q \in 0..LastSequence, NewName(call.block.start, q),
               disk' = Truncated(disk, SegmentName(call.block.start, q), <<>>)
        PROVE  Grown
    <3>1. call.block \in Blocks /\ calls \in 0..MaxCalls
      BY <1>1, CallFields, WriteMoves DEF SafeInv, Typed, TypeOK, BuilderTyped, OpenSegment
    <3>2. SegmentName(call.block.start, q) \notin DOMAIN disk
      BY <1>1, <2>2, <3>1, Numbers, NameTyped, NameIsFree DEF SafeInv, OpenSegment
    <3> QED
      BY <1>0, <2>2, <3>2 DEF Truncated, Grown
  <2> QED
    BY <1>1, <2>1, <2>2 DEF OpenSegment
<1>2. CASE WriteSegmentHeader
  BY <1>0, <1>2, FilesTyped, PieceTypes, AppendOne, SameGrown DEF WriteSegmentHeader, WriteFails
<1>3. CASE AppendBlock
  <2>1. n \in DOMAIN disk /\ call \in WriteCalls
    BY <1>3, FilesTyped, CallFields DEF AppendBlock
  <2>2. BlockPiece(call.block) \in Pieces /\ Torn \in Pieces
    BY <2>1, PieceTypes DEF WriteCalls
  <2>3. Append1(n, BlockPiece(call.block)) \/ Append1(n, Torn) \/ UNCHANGED disk
    BY <1>3 DEF AppendBlock
  <2> QED
    BY <1>0, <2>1, <2>2, <2>3, AppendOne, SameGrown
<1>4. CASE WriteSegmentFooter
  <2>1. n \in DOMAIN disk /\ builder.indices \in Seq(Indices) /\ Len(builder.indices) \in Nat
        /\ call.written \in Nat
    BY <1>4, FilesTyped, CallFields DEF WriteSegmentFooter
  <2>2. CASE call.written < Len(builder.indices) /\ Append1(n, builder.indices[call.written + 1])
    <3>1. builder.indices[call.written + 1] \in Pieces
      BY <2>1, <2>2, PieceTypes
    <3> QED
      BY <1>0, <2>1, <2>2, <3>1, AppendOne
  <2> QED
    BY <1>0, <1>4, <2>1, <2>2, PieceTypes, AppendOne, SameGrown DEF WriteSegmentFooter, WriteFails
<1>5. CASE SyncHeader \/ SyncBatch \/ FinishSegment
  BY <1>0, <1>5, SameGrown DEF SyncHeader, SyncBatch, FinishSegment
<1> QED
  BY <1>1, <1>2, <1>3, <1>4, <1>5 DEF BuilderStep

\* A repair leaves every other file alone.
LEMMA RepairElsewhere ==
  ASSUME SafeInv, RepairStep, NEW n \in DOMAIN disk, repair.pc # "idle" => repair.file # n
  PROVE  n \in DOMAIN disk' /\ disk'[n] = disk[n]
<1>1. CASE \E m \in DOMAIN disk : RepairSegment(m)
  BY <1>1 DEF RepairSegment, files
<1>2. CASE TruncateFile /\ UNCHANGED files
  BY <1>2 DEF files
<1>3. CASE TruncateFile /\ ~ UNCHANGED files
  BY <1>3, TruncateIs DEF TruncateFile
<1>4. CASE WriteFooterAt
  <2>1. DOMAIN disk \subseteq DOMAIN disk' /\ \A m \in DOMAIN disk : m # repair.file => disk'[m] = disk[m]
    BY <1>4, FooterAtWrites DEF SafeInv, Grown
  <2> QED
    BY <1>4, <2>1 DEF WriteFooterAt
<1> QED
  BY <1>1, <1>2, <1>3, <1>4 DEF RepairStep
=============================================================================
