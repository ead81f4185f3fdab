------------------------- MODULE TcpWriteSerializer -------------------------
(***************************************************************************)
(* nxnet/rtsp/tcp_write_serializer.cpp: one queue of writes per TCP socket.*)
(*                                                                         *)
(* Producers (the RTP transports and the RTSP response path) submit from   *)
(* any thread; the work is posted to an asio strand, which runs the posted *)
(* handlers one at a time in the order they were posted.  At most one      *)
(* async_write may be outstanding on the socket; its buffers point into    *)
(* the front of the queue.  close() may be called from any thread.         *)
(***************************************************************************)
EXTENDS Integers, Sequences, FiniteSets

CONSTANTS Producers,    \* the threads that submit
          MaxQueueSize, \* m_max_queue_size
          MaxBatch,     \* bound: entries in one submission
          MaxSubmits,   \* bound: entries one producer submits in all
          Garbage       \* what a write of freed buffers puts on the wire

ASSUME SerializerAssumption ==
    /\ MaxQueueSize \in Nat
    /\ MaxBatch \in Nat
    /\ MaxSubmits \in Nat

Entry == Producers \X Nat   \* the n-th entry of a producer

VARIABLES
    active,        \* m_active
    queue,         \* m_queue
    writing,       \* m_writing
    queuedCount,   \* m_queued_count
    overflowCount, \* m_overflow_count
    tasks,         \* handlers posted to m_strand, oldest first
    inflight,      \* the async_write operations started and not completed
    socket,        \* "open", "broken" (by the peer) or "closed" (by this side)
    held,          \* what each producer has checked and not posted yet
    submitted,     \* number of entries each producer has handed over
    closer,        \* progress of close(): "idle", "posting" or "done"
    accepted,      \* history: entries pushed to the queue
    wire           \* history: entries written to the socket

strandVars  == <<queue, writing, queuedCount, overflowCount, accepted>>
callerVars  == <<held, submitted, closer>>
vars == <<active, strandVars, tasks, inflight, socket, callerVars, wire>>

SubmitTask(batch) == [op |-> "submit", batch |-> batch]
ClearTask         == [op |-> "clear"]
WrittenTask(ec)   == [op |-> "written", ec |-> ec]

Task == [op : {"submit"}, batch : Seq(Entry)]
          \cup [op : {"clear"}]
          \cup [op : {"written"}, ec : {"success", "failure"}]

Init ==
    /\ active = TRUE
    /\ queue = <<>>
    /\ writing = FALSE
    /\ queuedCount = 0
    /\ overflowCount = 0
    /\ tasks = <<>>
    /\ inflight = <<>>
    /\ socket = "open"
    /\ held = [p \in Producers |-> <<>>]
    /\ submitted = [p \in Producers |-> 0]
    /\ closer = "idle"
    /\ accepted = <<>>
    /\ wire = <<>>
-----------------------------------------------------------------------------
(* The callers' side: any thread.                                          *)

\* submit, submit_batch, submit_frame: the check of m_active ...
SubmitCheck(p) ==
    /\ held[p] = <<>>
    /\ active
    /\ \E n \in 1..MaxBatch :
         /\ submitted[p] + n <= MaxSubmits
         /\ held' = [held EXCEPT ![p] =
                       [i \in 1..n |-> <<p, submitted[p] + i>>]]
         /\ submitted' = [submitted EXCEPT ![p] = @ + n]
    /\ UNCHANGED <<active, strandVars, tasks, inflight, socket, closer, wire>>

\* ... and the post, which another thread's close() may precede.
SubmitPost(p) ==
    /\ held[p] # <<>>
    /\ tasks' = Append(tasks, SubmitTask(held[p]))
    /\ held' = [held EXCEPT ![p] = <<>>]
    /\ UNCHANGED <<active, strandVars, inflight, socket, submitted, closer, wire>>

\* close(): the exchange of m_active ...
CloseBegin ==
    /\ closer = "idle"
    /\ closer' = IF active THEN "posting" ELSE "done"
    /\ active' = FALSE
    /\ UNCHANGED <<strandVars, tasks, inflight, socket, held, submitted, wire>>

\* ... and the post of the handler that discards the queue.
ClosePost ==
    /\ closer = "posting"
    /\ closer' = "done"
    /\ tasks' = Append(tasks, ClearTask)
    /\ UNCHANGED <<active, strandVars, inflight, socket, held, submitted, wire>>
-----------------------------------------------------------------------------
(* Mutated forms.  The specification uses none of them: each stands for a  *)
(* bug, and shows that a property notices it when it takes the place of    *)
(* the definition it is named after.                                       *)

DoWriteKeepsFlag(q) ==      \* m_writing is not reset on an empty queue
    /\ writing' = TRUE
    /\ inflight' = IF q = <<>> THEN inflight ELSE Append(inflight, Head(q))

FitsOne(batch) == Len(queue) < MaxQueueSize      \* the size of a batch is ignored

PushedInFront(batch) == batch \o queue      \* push_front for push_back

-----------------------------------------------------------------------------
(* The strand: one posted handler at a time.                               *)

RunTask(op) ==
    /\ tasks # <<>>
    /\ Head(tasks).op = op
    /\ tasks' = Tail(tasks)

\* do_write with the queue q: the write of the front entry is started.
DoWrite(q) ==
    /\ writing' = (q # <<>>)
    /\ inflight' = IF q = <<>> THEN inflight ELSE Append(inflight, Head(q))

\* The posted handler looks at m_active again.
StillActive == active

\* A submission is dropped once the serializer is inactive.
SubmitIgnored ==
    /\ RunTask("submit")
    /\ ~StillActive
    /\ UNCHANGED <<active, strandVars, inflight, socket, callerVars, wire>>

\* Room for a whole batch (submit_frame: a batch of one entry).
Fits(batch) == Len(queue) + Len(batch) <= MaxQueueSize

\* handle_overflow: the consumer is slow, so the socket is closed.  The queue
\* is left alone.
HandleOverflow ==
    /\ overflowCount' = overflowCount + 1
    /\ socket' = "closed"
    /\ active' = FALSE

SubmitOverflows ==
    /\ RunTask("submit")
    /\ StillActive
    /\ ~Fits(Head(tasks).batch)
    /\ HandleOverflow
    /\ UNCHANGED <<queue, writing, queuedCount, accepted, inflight, callerVars, wire>>

Pushed(batch) == queue \o batch

SubmitAccepted ==
    /\ RunTask("submit")
    /\ StillActive
    /\ Fits(Head(tasks).batch)
    /\ queue' = Pushed(Head(tasks).batch)
    /\ accepted' = accepted \o Head(tasks).batch
    /\ queuedCount' = Len(queue')
    /\ IF writing THEN UNCHANGED <<writing, inflight>> ELSE DoWrite(queue')
    /\ UNCHANGED <<active, overflowCount, socket, callerVars, wire>>

Popped == Tail(queue)

StopWriting ==
    /\ writing' = FALSE
    /\ queuedCount' = 0

DropQueue ==
    /\ queue' = <<>>
    /\ StopWriting

\* The handler posted by close().  It does not wait for the write under way.
ClearQueue ==
    /\ RunTask("clear")
    /\ DropQueue
    /\ UNCHANGED <<active, overflowCount, accepted, inflight, socket, callerVars, wire>>

\* Completion handler, error path: the queue is dropped, m_active is not.
WriteFailedHandler ==
    /\ RunTask("written")
    /\ Head(tasks).ec # "success"
    /\ DropQueue
    /\ UNCHANGED <<active, overflowCount, accepted, inflight, socket, callerVars, wire>>

\* Completion handler of a write that succeeded after the end: the queue stays.
WrittenTooLateHandler ==
    /\ RunTask("written")
    /\ Head(tasks).ec = "success"
    /\ ~active \/ queue = <<>>
    /\ StopWriting
    /\ UNCHANGED <<active, queue, overflowCount, accepted, inflight, socket, callerVars, wire>>

\* Completion handler, normal path: the front goes, the next write starts.
WrittenHandler ==
    /\ RunTask("written")
    /\ Head(tasks).ec = "success"
    /\ active
    /\ queue # <<>>
    /\ queue' = Popped
    /\ queuedCount' = Len(queue')
    /\ DoWrite(queue')
    /\ UNCHANGED <<active, overflowCount, accepted, socket, callerVars, wire>>

StrandStep ==
    \/ SubmitIgnored \/ SubmitOverflows \/ SubmitAccepted
    \/ ClearQueue
    \/ WriteFailedHandler \/ WrittenTooLateHandler \/ WrittenHandler
-----------------------------------------------------------------------------
(* The socket: the kernel, the peer and the owner of the socket.           *)

\* The entry an async_write reads from is still at the front of the queue.
BuffersAlive == queue # <<>> /\ Head(queue) = Head(inflight)

\* The write completes.  Reading freed buffers may give anything.
WriteSucceeds ==
    /\ inflight # <<>>
    /\ socket = "open"
    /\ \/ wire' = Append(wire, Head(inflight))
       \/ /\ ~BuffersAlive
          /\ wire' = Append(wire, Garbage)
    /\ inflight' = Tail(inflight)
    /\ tasks' = Append(tasks, WrittenTask("success"))
    /\ UNCHANGED <<active, strandVars, socket, callerVars>>

WriteFails ==
    /\ inflight # <<>>
    /\ socket # "open"
    /\ inflight' = Tail(inflight)
    /\ tasks' = Append(tasks, WrittenTask("failure"))
    /\ UNCHANGED <<active, strandVars, socket, callerVars, wire>>

\* The peer resets the connection: every later write fails.
PeerBreaks ==
    /\ socket = "open"
    /\ socket' = "broken"
    /\ UNCHANGED <<active, strandVars, tasks, inflight, callerVars, wire>>

\* The session that owns the socket closes it, after close().
OwnerClosesSocket ==
    /\ closer = "done"
    /\ socket # "closed"
    /\ socket' = "closed"
    /\ UNCHANGED <<active, strandVars, tasks, inflight, callerVars, wire>>
-----------------------------------------------------------------------------
Caller == \/ \E p \in Producers : SubmitCheck(p) \/ SubmitPost(p)
          \/ CloseBegin \/ ClosePost

SocketEvent == WriteSucceeds \/ WriteFails \/ PeerBreaks \/ OwnerClosesSocket

Next == Caller \/ StrandStep \/ SocketEvent

Spec == Init /\ [][Next]_vars

\* asio runs every posted handler and reports every started operation; the
\* peer of a socket that stays open keeps reading.  A caller that has begun a
\* call finishes it; nobody has to submit or to close.
FairSpec ==
    /\ Spec
    /\ WF_vars(StrandStep)
    /\ WF_vars(WriteSucceeds \/ WriteFails)
    /\ WF_vars(ClosePost)
    /\ \A p \in Producers : WF_vars(SubmitPost(p))
-----------------------------------------------------------------------------
(* Properties.                                                             *)

\* Every variable keeps its type.
TypeOK ==
    /\ active \in BOOLEAN
    /\ queue \in Seq(Entry)
    /\ writing \in BOOLEAN
    /\ queuedCount \in Nat
    /\ overflowCount \in Nat
    /\ tasks \in Seq(Task)
    /\ inflight \in Seq(Entry)
    /\ socket \in {"open", "broken", "closed"}
    /\ held \in [Producers -> Seq(Entry)]
    /\ submitted \in [Producers -> Nat]
    /\ closer \in {"idle", "posting", "done"}
    /\ accepted \in Seq(Entry)
    /\ wire \in Seq(Entry \cup {Garbage})

WrittenAt(i) == i \in DOMAIN tasks /\ tasks[i].op = "written"

Completing == \E i \in DOMAIN tasks : WrittenAt(i)

\* A write is outstanding from async_write until its completion handler runs.
Outstanding == inflight # <<>> \/ Completing

\* No second async_write is started on the socket before the completion of
\* the first was handled, although the handler close() posts resets m_writing
\* while a write is under way: the purpose the class comment names.
OneWriteOutstanding ==
    /\ Len(inflight) <= 1
    /\ \A i \in DOMAIN tasks : WrittenAt(i) =>
         /\ inflight = <<>>
         /\ \A j \in DOMAIN tasks : WrittenAt(j) => i = j

\* While the serializer is active, a queued entry is never stranded: a write
\* whose completion handler will look at the queue is outstanding.
NoStrandedEntry ==
    active => (queue # <<>> <=> Outstanding)

\* The queue never grows beyond m_max_queue_size, and the count other threads
\* read is the length of the queue as long as the serializer is active.
QueueBounded ==
    /\ Len(queue) <= MaxQueueSize
    /\ active => queuedCount = Len(queue)

\* A slow consumer is counted once, and from then on the serializer is
\* inactive and the socket closed.
SlowConsumerDisconnected ==
    /\ overflowCount <= 1
    /\ overflowCount = 1 => ~active /\ socket = "closed"

\* The peer receives what was accepted, in that order, without a gap or a
\* duplicate; only what is written after close() may be damaged.
WireInOrder ==
    /\ Len(wire) <= Len(accepted)
    /\ \A i \in DOMAIN wire :
         \/ wire[i] = accepted[i]
         \/ wire[i] = Garbage /\ ~active

\* Once close() or an overflow has made the serializer inactive it stays so
\* and accepts nothing more, whatever was posted before or is posted after.
InactiveForGood ==
    [][~active => ~active' /\ accepted' = accepted]_vars

-----------------------------------------------------------------------------
(* The inductive invariant: what the properties above need besides them.   *)

\* Only an inactive serializer has its queue cleared by close().
ClearOnlyInactive ==
    /\ closer # "idle" => ~active
    /\ \A i \in DOMAIN tasks : tasks[i].op = "clear" => ~active

\* m_writing tells the truth while the serializer is active, and the write
\* under way reads the front of the queue.
WritingIsOutstanding ==
    /\ active => (writing <=> Outstanding)
    /\ active /\ inflight # <<>> => BuffersAlive

\* The queue holds the entries accepted last.
QueueIsSuffix ==
    /\ Len(queue) <= Len(accepted)
    /\ \A i \in 1..Len(queue) :
         queue[i] = accepted[Len(accepted) - Len(queue) + i]

\* On a healthy connection the written and the queued entries make up the
\* accepted ones: the front is both until its completion handler runs.
NothingLost ==
    active /\ socket = "open" =>
      Len(wire) + Len(queue) =
        Len(accepted) + (IF Completing THEN 1 ELSE 0)

\* A write can only have failed on a socket that is no longer open.
FailedIsFinal ==
    socket = "open" =>
      \A i \in DOMAIN tasks : WrittenAt(i) => tasks[i].ec = "success"

\* The write under way carries the entry the peer has to see next.
NextOnWire ==
    inflight # <<>> /\ socket = "open" =>
      /\ Len(wire) < Len(accepted)
      /\ Head(inflight) = accepted[Len(wire) + 1]

\* The conjunction that every step preserves.
IInv ==
    /\ TypeOK
    /\ OneWriteOutstanding
    /\ NoStrandedEntry
    /\ QueueBounded
    /\ SlowConsumerDisconnected
    /\ WireInOrder
    /\ ClearOnlyInactive
    /\ WritingIsOutstanding
    /\ QueueIsSuffix
    /\ NothingLost
    /\ FailedIsFinal
    /\ NextOnWire
-----------------------------------------------------------------------------
(* Statements the source makes and the code does not keep; liveness; the   *)
(* abstract specification.                                                 *)

\* Comment in do_write: the buffers live because pop_front happens only in
\* the completion handler, that is, every write under way reads the front of
\* the queue.
BuffersOutliveWrite == inflight # <<>> => BuffersAlive

\* Comment in handle_overflow: the queue is cleaned up by the completion
\* handler of the write that the overflow aborts.
OverflowedQueueCleaned ==
    overflowCount > 0 /\ ~Outstanding /\ tasks = <<>> => queue = <<>>

\* An accepted entry reaches the wire unless the connection ends first.
AcceptedIsSent ==
    \A i \in 1..(MaxSubmits * Cardinality(Producers)) :
       Len(accepted) >= i ~> Len(wire) >= i \/ ~active \/ socket # "open"

\* The serializer keeps the promise of WriteChannel.
Channel == INSTANCE WriteChannel WITH open <- active
ImplementsChannel == Channel!Spec
=============================================================================
