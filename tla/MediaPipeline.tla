--------------------------- MODULE MediaPipeline ---------------------------
(***************************************************************************)
(* nxcore/media/media_pipeline.cpp: frames from one source to one sink.    *)
(*                                                                         *)
(* The source calls on_frame_received on its own thread.  In the mode      *)
(* "live" the frame goes straight to the sink; in "buffered" and           *)
(* "playback" it is posted to a strand, which owns a priority queue of     *)
(* frames, and leaves it by a chain of posted handlers (buffered) or of    *)
(* timer waits (playback).  start() and stop() are coroutines of a caller, *)
(* who awaits the one before calling the other.                            *)
(***************************************************************************)
EXTENDS Integers, Sequences

CONSTANTS Modes,           \* the modes a pipeline may be made for
          BufferDuration,  \* m_buffer_duration
          Speed,           \* m_playback_speed
          Jitter,          \* how far behind the newest frame the source may be
          MaxStarts,       \* bound: calls of start()
          MaxFrames,       \* bound: frames the source delivers
          MaxTime          \* bound: timestamps and the clock

ASSUME PipelineAssumption ==
    /\ Modes \subseteq {"live", "buffered", "playback"}
    /\ BufferDuration \in Nat
    /\ Speed \in Nat \ {0}
    /\ Jitter \in Nat
    /\ MaxStarts \in Nat
    /\ MaxFrames \in Nat
    /\ MaxTime \in Nat

Frame == [n : Nat, ts : Nat]    \* the n-th frame and its timestamp

VARIABLES
    mode,         \* m_mode, fixed by the constructor
    running,      \* m_running
    queue,        \* m_frame_queue
    newest,       \* m_newest_timestamp
    base,         \* m_base_time_set, m_base_timestamp, m_base_wall_time: {} if unset
    pacing,       \* m_pacing_active
    wait,         \* the deadline of the pacing timer's outstanding wait, or {}
    fired,        \* waits that ended, on their way to the strand
    tasks,        \* handlers posted to m_strand, oldest first
    current,      \* the frame handler that has seen m_running and goes on, or <<>>
    source,       \* the source: "closed", "open" or "started"
    sink,         \* the sink: "closed" or "open"
    starter,      \* progress of start()
    stopper,      \* progress of stop()
    starts,       \* calls of start() so far
    sending,      \* on_frame_received past its check of m_running, or <<>>
    sent,         \* frames the source has delivered
    newestSent,   \* the newest timestamp among them
    ended,        \* the source has delivered its end-of-stream marker
    now,          \* the steady clock
    accepted,     \* history: frames pushed to the queue
    delivered,    \* history: frames given to the sink
    completions   \* history: calls of the completion callback

strandVars == <<queue, newest, base, pacing, wait, accepted>>
sourceVars == <<sent, newestSent, ended>>
ioVars     == <<source, sink>>
callerVars == <<starter, stopper, starts>>
vars == <<mode, running, strandVars, fired, tasks, current, ioVars, callerVars,
          sending, sourceVars, now, delivered, completions>>

FrameTask(f)  == [op |-> "frame", frame |-> f]
EofTask       == [op |-> "eof"]
FlushTask     == [op |-> "flush"]
DrainTask     == [op |-> "drain"]
ScheduleTask  == [op |-> "schedule"]
TimerTask(ec) == [op |-> "timer", ec |-> ec]
StopTask      == [op |-> "stop"]

Arrival == [op : {"frame"}, frame : Frame] \cup [op : {"eof"}]
Task == Arrival \cup [op : {"flush", "drain", "schedule", "stop"}]
          \cup [op : {"timer"}, ec : {"expired", "aborted"}]

Init ==
    /\ mode \in Modes
    /\ running = FALSE
    /\ queue = {}
    /\ newest = 0
    /\ base = {}
    /\ pacing = FALSE
    /\ wait = {}
    /\ fired = <<>>
    /\ tasks = <<>>
    /\ current = <<>>
    /\ source = "closed"
    /\ sink = "closed"
    /\ starter = "idle"
    /\ stopper = "idle"
    /\ starts = 0
    /\ sending = <<>>
    /\ sent = 0
    /\ newestSent = 0
    /\ ended = FALSE
    /\ now = 0
    /\ accepted = {}
    /\ delivered = <<>>
    /\ completions = 0
-----------------------------------------------------------------------------
(* start()                                                                 *)

\* A pipeline is started once, or again after stop() has returned.
StartOpenSource ==
    /\ starter = "idle"
    /\ starts = 0 \/ stopper = "done"
    /\ starts < MaxStarts
    /\ starts' = starts + 1
    /\ stopper' = "idle"
    /\ \/ /\ source' = "open"          \* source->open() returns tracks
          /\ starter' = "opening_sink"
       \/ /\ source' = "open"          \* no track: an error, and no close()
          /\ starter' = "failed"
       \/ /\ starter' = "failed"       \* an error
          /\ UNCHANGED source
    /\ UNCHANGED <<mode, running, strandVars, fired, tasks, current, sink,
                   sending, sourceVars, now, delivered, completions>>

StartOpenSink ==
    /\ starter = "opening_sink"
    /\ \/ /\ sink' = "open"
          /\ starter' = "starting_source"
       \/ /\ starter' = "closing_source"
          /\ UNCHANGED sink
    /\ UNCHANGED <<mode, running, strandVars, fired, tasks, current, source,
                   stopper, starts, sending, sourceVars, now, delivered,
                   completions>>

\* m_running is set before the source can call back.
StartSource ==
    /\ starter = "starting_source"
    /\ running' = TRUE
    /\ source' = "started"
    /\ starter' = "awaiting_source"
    /\ ended' = FALSE
    /\ newestSent' = 0
    /\ UNCHANGED <<mode, strandVars, fired, tasks, current, sink, stopper,
                   starts, sending, sent, now, delivered, completions>>

\* source->start() returns; a source that fails has not called back.
StartReturns ==
    /\ starter = "awaiting_source"
    /\ \/ /\ starter' = "idle"
          /\ UNCHANGED running
          /\ UNCHANGED source
       \/ /\ newestSent = 0
          /\ ~ended
          /\ source' = "open"
          /\ running' = FALSE
          /\ starter' = "closing_sink"
    /\ UNCHANGED <<mode, strandVars, fired, tasks, current, sink, stopper,
                   starts, sending, sourceVars, now, delivered, completions>>

StartCloseSink ==
    /\ starter = "closing_sink"
    /\ sink' = "closed"
    /\ starter' = "closing_source"
    /\ UNCHANGED <<mode, running, strandVars, fired, tasks, current, source,
                   stopper, starts, sending, sourceVars, now, delivered,
                   completions>>

StartCloseSource ==
    /\ starter = "closing_source"
    /\ sending = <<>>
    /\ source' = "closed"
    /\ starter' = "failed"
    /\ UNCHANGED <<mode, running, strandVars, fired, tasks, current, sink,
                   stopper, starts, sending, sourceVars, now, delivered,
                   completions>>
-----------------------------------------------------------------------------
(* The source's thread: on_frame_received.                                 *)

\* The source delivers a frame, or its end-of-stream marker, in a callback
\* that looks at m_running ...
Deliver(task) ==
    /\ source = "started"
    /\ sending = <<>>
    /\ sending' = IF running THEN <<task>> ELSE <<>>
    /\ UNCHANGED <<mode, running, strandVars, fired, tasks, current, ioVars,
                   callerVars, now, delivered, completions>>

DeliverFrame ==
    /\ ~ended
    /\ sent < MaxFrames
    /\ \E ts \in 1..MaxTime :
         /\ ts >= newestSent - Jitter
         /\ Deliver(FrameTask([n |-> sent + 1, ts |-> ts]))
         /\ newestSent' = IF ts > newestSent THEN ts ELSE newestSent
    /\ sent' = sent + 1
    /\ UNCHANGED ended

DeliverEof ==
    /\ ~ended
    /\ Deliver(EofTask)
    /\ ended' = TRUE
    /\ UNCHANGED <<sent, newestSent>>

\* ... and goes on: a post to the strand,
PostArrival ==
    /\ mode # "live"
    /\ sending # <<>>
    /\ tasks' = Append(tasks, Head(sending))
    /\ sending' = <<>>
    /\ UNCHANGED <<mode, running, strandVars, fired, current, ioVars,
                   callerVars, sourceVars, now, delivered, completions>>

\* or, in live mode, the frame is handed to the sink,
LiveFrame ==
    /\ mode = "live"
    /\ sending # <<>>
    /\ Head(sending).op = "frame"
    /\ delivered' = Append(delivered, Head(sending).frame)
    /\ sending' = <<>>
    /\ UNCHANGED <<mode, running, strandVars, fired, tasks, current, ioVars,
                   callerVars, sourceVars, now, completions>>

\* and the end of the stream stops the pipeline.
LiveEof ==
    /\ mode = "live"
    /\ sending # <<>>
    /\ Head(sending).op = "eof"
    /\ running' = FALSE
    /\ completions' = completions + 1
    /\ sending' = <<>>
    /\ UNCHANGED <<mode, strandVars, fired, tasks, current, ioVars, callerVars,
                   sourceVars, now, delivered>>
-----------------------------------------------------------------------------
(* The queue.                                                              *)

\* m_frame_queue.top(): a frame with the least timestamp; ties are unordered.
Top(q) == {f \in q : \A g \in q : f.ts <= g.ts}

MoreThanOne(q) == \E f, g \in q : f # g
-----------------------------------------------------------------------------
(* Mutated forms.  The specification uses none of them: each stands for a  *)
(* bug, and shows that a property notices it when it takes the place of    *)
(* the definition it is named after.                                       *)

MatureAtOnce(q, nw) ==      \* the buffer's duration is ignored
    \A f \in Top(q) : nw - f.ts >= 0

AfterFlushNothing(q, rest) == rest      \* one flush per arrival

DrainedButOne == ~MoreThanOne(queue)      \* flush_one_frame's test of the size

ContinueChainNot(rest) == rest      \* the next frame is not scheduled

-----------------------------------------------------------------------------
(* The strand's helpers.                                                   *)

\* The oldest frame has waited for the buffer's duration.
Mature(q, nw) == \A f \in Top(q) : nw - f.ts >= BufferDuration

\* Behind a dispatch the next flush is posted if more than one frame is left.
AfterFlush(q, rest) == IF MoreThanOne(q) THEN Append(rest, FlushTask) ELSE rest

\* flush_one_frame on the queue q and the newest timestamp nw; rest is what
\* the strand has still to run.
FlushOneFrame(q, nw, rest) ==
    IF MoreThanOne(q) /\ Mature(q, nw)
    THEN \E f \in Top(q) :
           /\ queue' = q \ {f}
           /\ delivered' = Append(delivered, f)
           /\ tasks' = AfterFlush(q \ {f}, rest)
    ELSE /\ queue' = q
         /\ tasks' = rest
         /\ UNCHANGED delivered

\* The wall time at which the frame is to be dispatched.
Due(f, b) == b.wall + (IF f.ts < b.ts THEN 0 ELSE (f.ts - b.ts) \div Speed)

\* cancel() or expires_after(): the outstanding wait ends with an error.
CancelWait == fired' = IF wait = {} THEN fired ELSE Append(fired, "aborted")

\* Behind a dispatch schedule_next_frame posts itself.
ContinueChain(rest) == Append(rest, ScheduleTask)

\* schedule_next_frame: q, active and out are the queue, m_pacing_active and
\* the frames delivered so far.
PacingEnds(q, rest, out) ==
    /\ ~running \/ q = {}
    /\ pacing' = FALSE
    /\ queue' = q
    /\ tasks' = rest
    /\ delivered' = out
    /\ UNCHANGED <<base, wait, fired>>

DispatchFirst(q, rest, active, out) ==
    /\ running
    /\ base = {}
    /\ \E f \in Top(q) :
         /\ queue' = q \ {f}
         /\ base' = {[ts |-> f.ts, wall |-> now]}
         /\ delivered' = Append(out, f)
    /\ tasks' = ContinueChain(rest)
    /\ pacing' = active
    /\ UNCHANGED <<wait, fired>>

DispatchDue(q, rest, active, out) ==
    /\ running
    /\ \E b \in base, f \in Top(q) :
         /\ Due(f, b) <= now
         /\ queue' = q \ {f}
         /\ delivered' = Append(out, f)
    /\ tasks' = ContinueChain(rest)
    /\ pacing' = active
    /\ UNCHANGED <<base, wait, fired>>

ArmTimer(q, rest, active, out) ==
    /\ running
    /\ \E b \in base, f \in Top(q) :
         /\ Due(f, b) > now
         /\ wait' = {Due(f, b)}
    /\ CancelWait
    /\ queue' = q
    /\ tasks' = rest
    /\ pacing' = active
    /\ delivered' = out
    /\ UNCHANGED base

ScheduleNextFrame(q, rest, active, out) ==
    \/ PacingEnds(q, rest, out)
    \/ DispatchFirst(q, rest, active, out)
    \/ DispatchDue(q, rest, active, out)
    \/ ArmTimer(q, rest, active, out)
-----------------------------------------------------------------------------
(* The strand: one posted handler at a time.                               *)

RunTask(op) ==
    /\ current = <<>>
    /\ tasks # <<>>
    /\ Head(tasks).op = op

\* on_frame_received_via_strand: the check of m_running ...
TakeArrival ==
    /\ \E op \in {"frame", "eof"} : RunTask(op)
    /\ tasks' = Tail(tasks)
    /\ current' = IF running THEN <<Head(tasks)>> ELSE <<>>
    /\ UNCHANGED <<mode, running, strandVars, fired, ioVars, callerVars,
                   sending, sourceVars, now, delivered, completions>>

Handle(op) ==
    /\ current # <<>>
    /\ Head(current).op = op
    /\ current' = <<>>

Raised(f) == IF f.ts > newest THEN f.ts ELSE newest

\* m_newest_timestamp is raised, the frame pushed and one frame flushed.
HandleBuffered ==
    /\ mode = "buffered"
    /\ Handle("frame")
    /\ LET f == Head(current).frame IN
         /\ accepted' = accepted \cup {f}
         /\ newest' = Raised(f)
         /\ FlushOneFrame(queue \cup {f}, newest', tasks)
    /\ UNCHANGED <<mode, running, base, pacing, wait, fired, ioVars,
                   callerVars, sending, sourceVars, now, completions>>

\* The frame is pushed, and the chain started unless it is active.
PacingIdle == ~pacing

HandlePlayback ==
    /\ mode = "playback"
    /\ Handle("frame")
    /\ LET f == Head(current).frame IN
         /\ accepted' = accepted \cup {f}
         /\ \/ /\ PacingIdle
               /\ ScheduleNextFrame(queue \cup {f}, tasks, TRUE, delivered)
            \/ /\ ~PacingIdle
               /\ queue' = queue \cup {f}
               /\ UNCHANGED <<base, pacing, wait, fired, tasks, delivered>>
    /\ UNCHANGED <<mode, running, newest, ioVars, callerVars, sending,
                   sourceVars, now, completions>>

\* drain_eof_queue: one frame, and a post for the next, or the callback.
Drained == queue = {}

DrainEofQueue(rest) ==
    \/ /\ Drained
       /\ completions' = completions + 1
       /\ tasks' = rest
       /\ UNCHANGED <<queue, delivered>>
    \/ /\ ~Drained
       /\ \E f \in Top(queue) :
            /\ queue' = queue \ {f}
            /\ delivered' = Append(delivered, f)
       /\ tasks' = Append(rest, DrainTask)
       /\ UNCHANGED completions

\* ... and the end of the stream: the timer is cancelled, the queue drained.
HandleEof ==
    /\ Handle("eof")
    /\ CancelWait
    /\ wait' = {}
    /\ pacing' = FALSE
    /\ running' = FALSE
    /\ DrainEofQueue(tasks)
    /\ UNCHANGED <<mode, newest, base, accepted, ioVars, callerVars, sending,
                   sourceVars, now>>

Drain ==
    /\ RunTask("drain")
    /\ DrainEofQueue(Tail(tasks))
    /\ UNCHANGED <<mode, running, newest, base, pacing, wait, accepted, fired,
                   current, ioVars, callerVars, sending, sourceVars, now>>

\* The flush posted by flush_one_frame.
Flush ==
    /\ RunTask("flush")
    /\ \/ /\ running
          /\ FlushOneFrame(queue, newest, Tail(tasks))
       \/ /\ ~running
          /\ tasks' = Tail(tasks)
          /\ UNCHANGED <<queue, delivered>>
    /\ UNCHANGED <<mode, running, newest, base, pacing, wait, accepted, fired,
                   current, ioVars, callerVars, sending, sourceVars, now,
                   completions>>

\* The schedule_next_frame posted by itself.
Schedule ==
    /\ RunTask("schedule")
    /\ ScheduleNextFrame(queue, Tail(tasks), pacing, delivered)
    /\ UNCHANGED <<mode, running, newest, accepted, current, ioVars,
                   callerVars, sending, sourceVars, now, completions>>

\* The handler of the timer: the chain ends, or it dispatches the frame that
\* is now on top and schedules the next.
TimerEndsChain ==
    /\ Head(tasks).ec = "aborted" \/ ~running \/ queue = {}
    /\ pacing' = FALSE
    /\ tasks' = Tail(tasks)
    /\ UNCHANGED <<queue, base, wait, fired, delivered>>

TimerDispatches ==
    /\ Head(tasks).ec = "expired" /\ running
    /\ \E f \in Top(queue) :
         ScheduleNextFrame(queue \ {f}, Tail(tasks), pacing, Append(delivered, f))

TimerHandler ==
    /\ RunTask("timer")
    /\ TimerEndsChain \/ TimerDispatches
    /\ UNCHANGED <<mode, running, newest, accepted, current, ioVars,
                   callerVars, sending, sourceVars, now, completions>>

\* The timer's wait ends, and its handler reaches the strand.
TimerExpires ==
    /\ \E d \in wait : d <= now
    /\ wait' = {}
    /\ fired' = Append(fired, "expired")
    /\ UNCHANGED <<mode, running, queue, newest, base, pacing, accepted, tasks,
                   current, ioVars, callerVars, sending, sourceVars, now,
                   delivered, completions>>

TimerPosts ==
    /\ fired # <<>>
    /\ fired' = Tail(fired)
    /\ tasks' = Append(tasks, TimerTask(Head(fired)))
    /\ UNCHANGED <<mode, running, strandVars, current, ioVars, callerVars,
                   sending, sourceVars, now, delivered, completions>>

\* Time is only looked at in playback mode, and goes on up to a deadline.
Tick ==
    /\ mode = "playback"
    /\ now < MaxTime \/ \E d \in wait : now < d
    /\ now' = now + 1
    /\ UNCHANGED <<mode, running, strandVars, fired, tasks, current, ioVars,
                   callerVars, sending, sourceVars, delivered, completions>>
-----------------------------------------------------------------------------
(* stop()                                                                  *)

\* The exchange of m_running: nothing to do, or a post to the strand.
StopBegin ==
    /\ starts > 0
    /\ starter = "idle"
    /\ stopper = "idle"
    /\ running' = FALSE
    /\ IF running
       THEN /\ stopper' = "posted"
            /\ tasks' = Append(tasks, StopTask)
       ELSE /\ stopper' = "done"
            /\ UNCHANGED tasks
    /\ UNCHANGED <<mode, strandVars, fired, current, ioVars, starter, starts,
                   sending, sourceVars, now, delivered, completions>>

\* stop() resumes inside the strand.
ClearQueue == queue' = {}

StopOnStrand ==
    /\ RunTask("stop")
    /\ tasks' = Tail(tasks)
    /\ CancelWait
    /\ wait' = {}
    /\ ClearQueue
    /\ base' = {}
    /\ pacing' = FALSE
    /\ newest' = 0
    /\ stopper' = "closing_source"
    /\ UNCHANGED <<mode, running, accepted, current, ioVars, starter, starts,
                   sending, sourceVars, now, delivered, completions>>

\* source->close() returns when no callback is under way.
StopCloseSource ==
    /\ stopper = "closing_source"
    /\ sending = <<>>
    /\ source' = "closed"
    /\ stopper' = "closing_sink"
    /\ UNCHANGED <<mode, running, strandVars, fired, tasks, current, sink,
                   starter, starts, sending, sourceVars, now, delivered,
                   completions>>

SinkMayClose == stopper = "closing_sink"

StopCloseSink ==
    /\ SinkMayClose
    /\ sink' = "closed"
    /\ stopper' = "done"
    /\ UNCHANGED <<mode, running, strandVars, fired, tasks, current, source,
                   starter, starts, sending, sourceVars, now, delivered,
                   completions>>
-----------------------------------------------------------------------------
Start == \/ StartOpenSource \/ StartOpenSink \/ StartSource
         \/ StartReturns \/ StartCloseSink \/ StartCloseSource

Arrive == PostArrival \/ LiveFrame \/ LiveEof

Strand == \/ TakeArrival \/ HandleBuffered \/ HandlePlayback \/ HandleEof
          \/ Drain \/ Flush \/ Schedule \/ TimerHandler \/ StopOnStrand

Timer == TimerExpires \/ TimerPosts

Stop == StopBegin \/ StopCloseSource \/ StopCloseSink

Next == \/ Start \/ DeliverFrame \/ DeliverEof \/ Arrive
        \/ Strand \/ Timer \/ Tick \/ Stop

Spec == Init /\ [][Next]_vars

\* The io_context runs what is posted to it, the timer fires, a callback and
\* the coroutines that have begun go on.  The source need not deliver anything
\* and nobody need call stop().
Fairness ==
    /\ WF_vars(Strand)
    /\ WF_vars(TimerExpires)
    /\ WF_vars(TimerPosts)
    /\ WF_vars(Tick)
    /\ WF_vars(Arrive)
    /\ WF_vars(StopCloseSource)
    /\ WF_vars(StopCloseSink)

FairSpec == Spec /\ Fairness
-----------------------------------------------------------------------------
\* The state has the types of the declarations in media_pipeline.h.
TypeOK ==
    /\ mode \in Modes
    /\ running \in BOOLEAN
    /\ queue \subseteq Frame
    /\ newest \in Nat
    /\ \A b \in base : b \in [ts : Nat, wall : Nat]
    /\ pacing \in BOOLEAN
    /\ \A d \in wait : d \in Nat
    /\ fired \in Seq({"expired", "aborted"})
    /\ tasks \in Seq(Task)
    /\ current \in Seq(Arrival)
    /\ source \in {"closed", "open", "started"}
    /\ sink \in {"closed", "open"}
    /\ starter \in {"idle", "opening_sink", "starting_source", "awaiting_source",
                    "closing_sink", "closing_source", "failed"}
    /\ stopper \in {"idle", "posted", "closing_source", "closing_sink", "done"}
    /\ starts \in Nat
    /\ sending \in Seq(Arrival)
    /\ sent \in Nat
    /\ newestSent \in Nat
    /\ ended \in BOOLEAN
    /\ now \in Nat
    /\ accepted \subseteq Frame
    /\ delivered \in Seq(Frame)
    /\ completions \in Nat

\* LiveBuffered sorts (media_pipeline.h: the small sorting buffer): as long as
\* no frame is more than the buffer's duration behind the newest one, the sink
\* gets the frames in the order of their timestamps, through flushes, the end
\* of the stream and a stop() at any point.
Sorted ==
    (mode = "buffered" /\ Jitter <= BufferDuration) =>
      \A i, j \in 1..Len(delivered) :
        i < j => delivered[i].ts <= delivered[j].ts

\* flush_one_frame posts itself only behind a dispatch, and an arrival runs it
\* only once: still no frame that is due to leave the buffer is left without
\* a handler that will look at it.
MatureFrameHasFlush ==
    (mode = "buffered" /\ running /\ MoreThanOne(queue) /\ Mature(queue, newest))
      => \E i \in 1..Len(tasks) : tasks[i] = FlushTask

\* The links of the pacing chain: posted schedulings, the wait, ended waits.
ChainLinks ==
    ({"tasks"} \X {i \in 1..Len(tasks) :
                     tasks[i] = ScheduleTask \/ tasks[i] = TimerTask("expired")})
      \cup ({"fired"} \X {i \in 1..Len(fired) : fired[i] = "expired"})
      \cup ({"wait"} \X wait)

\* "a single timer chain: only one is active at a time" (schedule_next_frame).
SingleTimerChain == \A a, b \in ChainLinks : a = b

\* The completion callback of a stream that ended undisturbed comes once, and
\* after every frame the pipeline took has been given to the sink.
EofDeliversAll ==
    /\ completions <= starts
    /\ (completions > 0 /\ stopper = "idle" /\ starts = 1) =>
         /\ queue = {}
         /\ \A f \in accepted : \E i \in 1..Len(delivered) : delivered[i] = f

\* Once stop() has returned, nothing is delivered any more.
QuietAfterStop == [][stopper = "done" => delivered' = delivered]_vars

\* In playback every frame taken leaves the queue.
PlaybackProgress ==
    (mode = "playback" /\ running /\ queue # {})
      ~> (queue = {} \/ stopper # "idle")

-----------------------------------------------------------------------------
(* The inductive invariant of the sorting buffer, for one start().         *)

IsFrame(t) == t.op = "frame"

\* Before the source is started nothing has happened on the strand.
Pristine ==
    /\ ~running /\ queue = {} /\ newest = 0 /\ wait = {} /\ fired = <<>>
    /\ tasks = <<>> /\ current = <<>> /\ sending = <<>> /\ delivered = <<>>
    /\ source # "started" /\ stopper = "idle"

FreshStart ==
    /\ starts = 0 => starter = "idle"
    /\ starts = 0 \/ starter \in {"opening_sink", "starting_source"} => Pristine

\* The pacing is not used; a drain or a stop is posted by who ends the run.
TaskKinds ==
    /\ wait = {} /\ fired = <<>>
    /\ stopper # "idle" => ~running
    /\ \A i \in 1..Len(tasks) :
         /\ tasks[i].op \notin {"schedule", "timer"}
         /\ tasks[i].op = "stop" => stopper # "idle"
         /\ tasks[i].op = "drain" => ~running

\* Every frame on its way is at most Jitter behind all that come before it.
PostedLate ==
    /\ \A i \in 1..Len(tasks) : IsFrame(tasks[i]) =>
         /\ tasks[i].frame.ts >= newest - Jitter
         /\ tasks[i].frame.ts <= newestSent
    /\ \A i, j \in 1..Len(tasks) : i < j /\ IsFrame(tasks[i]) /\ IsFrame(tasks[j])
         => tasks[j].frame.ts >= tasks[i].frame.ts - Jitter

CurrentLate ==
    /\ Len(current) <= 1
    /\ \A k \in 1..Len(current) : IsFrame(current[k]) =>
         /\ current[k].frame.ts >= newest - Jitter
         /\ current[k].frame.ts <= newestSent
         /\ \A i \in 1..Len(tasks) : IsFrame(tasks[i]) =>
              tasks[i].frame.ts >= current[k].frame.ts - Jitter

SendingLate ==
    /\ Len(sending) <= 1
    /\ \A k \in 1..Len(sending) : IsFrame(sending[k]) =>
         LET ts == sending[k].frame.ts IN
         /\ ts >= newest - Jitter
         /\ ts <= newestSent
         /\ \A i \in 1..Len(tasks) :
              IsFrame(tasks[i]) => ts >= tasks[i].frame.ts - Jitter
         /\ \A i \in 1..Len(current) :
              IsFrame(current[i]) => ts >= current[i].frame.ts - Jitter

\* What was delivered is older than what is queued, and than all a running
\* pipeline may still take.
DeliveredFirst ==
    /\ \A i \in 1..Len(delivered) : \A f \in queue : delivered[i].ts <= f.ts
    /\ running \/ current # <<>> =>
         \A i \in 1..Len(delivered) : delivered[i].ts <= newest - BufferDuration

SortInv ==
    /\ TypeOK
    /\ FreshStart
    /\ TaskKinds
    /\ newest <= newestSent
    /\ PostedLate
    /\ CurrentLate
    /\ SendingLate
    /\ DeliveredFirst
    /\ Sorted
    /\ MatureFrameHasFlush

\* (newest_timestamp and its queue are used by the buffered mode only.)
BufferedSortInv == mode = "buffered" => SortInv
=============================================================================
