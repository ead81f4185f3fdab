------------------------ MODULE MediaPipeline_proofs ------------------------
(***************************************************************************)
(* Proofs about MediaPipeline: its types, that the buffered mode sorts and *)
(* leaves no mature frame behind, and that in every mode the end of the    *)
(* stream comes once and last, for every buffer, source and stop().        *)
(***************************************************************************)
EXTENDS MediaPipeline, TLAPS

(* Sequences.                                                              *)

LEMMA TailProperties ==
  ASSUME NEW S, NEW s \in Seq(S), s # <<>>
  PROVE  /\ Tail(s) \in Seq(S)
         /\ Len(Tail(s)) = Len(s) - 1
         /\ Len(s) \in Nat \ {0}
         /\ Head(s) = s[1]
         /\ Head(s) \in S
         /\ \A i \in 1..(Len(s) - 1) : Tail(s)[i] = s[i + 1]
  OBVIOUS

LEMMA AppendProperties ==
  ASSUME NEW S, NEW s \in Seq(S), NEW e \in S
  PROVE  /\ Append(s, e) \in Seq(S)
         /\ Len(s) \in Nat
         /\ Len(Append(s, e)) = Len(s) + 1
         /\ \A i \in 1..Len(s) : Append(s, e)[i] = s[i]
         /\ Append(s, e)[Len(s) + 1] = e
  OBVIOUS

LEMMA SingletonProperties ==
  ASSUME NEW S, NEW e \in S
  PROVE  /\ <<e>> \in Seq(S)
         /\ <<>> \in Seq(S)
         /\ Len(<<e>>) = 1
         /\ <<e>>[1] = e
         /\ Len(<<>>) = 0
         /\ <<e>> # <<>>
  OBVIOUS

LEMMA QuotientIsNat ==
  ASSUME NEW a \in Int, NEW b \in Int, b <= a, NEW c \in Nat \ {0}
  PROVE  (a - b) \div c \in Nat
  OBVIOUS

\* The fields of a handler follow from its kind.
LEMMA TaskFields ==
  ASSUME NEW t \in Task
  PROVE  /\ t.op = "frame" => t.frame \in Frame /\ t \in Arrival
         /\ t.op = "eof" => t \in Arrival
         /\ t.op = "timer" => t.ec \in {"expired", "aborted"}
  BY DEF Task, Arrival

LEMMA ArrivalFields ==
  ASSUME NEW t \in Arrival
  PROVE  /\ t \in Task
         /\ t.op \in {"frame", "eof"}
         /\ t.op = "frame" => t.frame \in Frame
  BY DEF Task, Arrival

LEMMA NewTasks ==
  /\ \A f \in Frame : FrameTask(f) \in Arrival
  /\ EofTask \in Arrival
  /\ {FlushTask, DrainTask, ScheduleTask, StopTask} \subseteq Task
  /\ \A ec \in {"expired", "aborted"} : TimerTask(ec) \in Task
  BY DEF Task, Arrival, FrameTask, EofTask, FlushTask, DrainTask, ScheduleTask,
         StopTask, TimerTask
-----------------------------------------------------------------------------
(* Types.                                                                  *)

FlagsOK ==
  /\ mode \in Modes
  /\ running \in BOOLEAN
  /\ pacing \in BOOLEAN
  /\ ended \in BOOLEAN
  /\ source \in {"closed", "open", "started"}
  /\ sink \in {"closed", "open"}
  /\ starter \in {"idle", "opening_sink", "starting_source", "awaiting_source",
                  "closing_sink", "closing_source", "failed"}
  /\ stopper \in {"idle", "posted", "closing_source", "closing_sink", "done"}

NumbersOK ==
  /\ newest \in Nat
  /\ starts \in Nat
  /\ sent \in Nat
  /\ newestSent \in Nat
  /\ now \in Nat
  /\ completions \in Nat
  /\ \A b \in base : b \in [ts : Nat, wall : Nat]
  /\ \A d \in wait : d \in Nat

QueuesOK ==
  /\ queue \subseteq Frame
  /\ accepted \subseteq Frame
  /\ fired \in Seq({"expired", "aborted"})
  /\ tasks \in Seq(Task)
  /\ current \in Seq(Arrival)
  /\ sending \in Seq(Arrival)
  /\ delivered \in Seq(Frame)

LEMMA TypeParts ==
  /\ TypeOK <=> FlagsOK /\ NumbersOK /\ QueuesOK
  /\ TypeOK' <=> FlagsOK' /\ NumbersOK' /\ QueuesOK'
  BY Zenon DEF TypeOK, FlagsOK, NumbersOK, QueuesOK

\* The handler that runs is the first one posted.
LEMMA RunTaskTypes ==
  ASSUME QueuesOK, NEW op, RunTask(op)
  PROVE  /\ Tail(tasks) \in Seq(Task)
         /\ Head(tasks) \in Task
         /\ Head(tasks).op = op
  BY TailProperties DEF RunTask, QueuesOK

LEMMA TopIsQueued ==
  ASSUME NEW q, q \subseteq Frame, NEW f \in Top(q)
  PROVE  f \in q /\ f \in Frame /\ q \ {f} \subseteq Frame
  BY DEF Top

LEMMA FlushTypes ==
  ASSUME NEW q, q \subseteq Frame, NEW nw, NEW rest \in Seq(Task),
         delivered \in Seq(Frame), FlushOneFrame(q, nw, rest)
  PROVE  queue' \subseteq Frame /\ tasks' \in Seq(Task) /\ delivered' \in Seq(Frame)
  <1>1. CASE MoreThanOne(q) /\ Mature(q, nw)
    <2>1. PICK f \in Top(q) :
            /\ queue' = q \ {f}
            /\ delivered' = Append(delivered, f)
            /\ tasks' = AfterFlush(q \ {f}, rest)
      BY <1>1 DEF FlushOneFrame
    <2>2. f \in Frame /\ queue' \subseteq Frame
      BY <2>1, TopIsQueued
    <2>3. tasks' \in Seq(Task)
      BY <2>1, AppendProperties, NewTasks DEF AfterFlush
    <2> QED
      BY <2>1, <2>2, <2>3, AppendProperties
  <1>2. CASE ~(MoreThanOne(q) /\ Mature(q, nw))
    BY <1>2 DEF FlushOneFrame
  <1> QED
    BY <1>1, <1>2

LEMMA DrainTypes ==
  ASSUME QueuesOK, NEW rest \in Seq(Task), DrainEofQueue(rest)
  PROVE  queue' \subseteq Frame /\ tasks' \in Seq(Task) /\ delivered' \in Seq(Frame)
  <1>1. CASE Drained /\ tasks' = rest /\ UNCHANGED <<queue, delivered>>
    BY <1>1 DEF QueuesOK
  <1>2. CASE /\ \E f \in Top(queue) : /\ queue' = queue \ {f}
                                      /\ delivered' = Append(delivered, f)
             /\ tasks' = Append(rest, DrainTask)
    <2>1. PICK f \in Top(queue) : /\ queue' = queue \ {f}
                                  /\ delivered' = Append(delivered, f)
      BY <1>2
    <2>2. f \in Frame /\ queue' \subseteq Frame
      BY <2>1, TopIsQueued DEF QueuesOK
    <2> QED
      BY <1>2, <2>1, <2>2, AppendProperties, NewTasks DEF QueuesOK
  <1> QED
    BY <1>1, <1>2 DEF DrainEofQueue

\* What schedule_next_frame leaves has the types of the queue's variables.
LEMMA ScheduleTypes ==
  ASSUME QueuesOK, NumbersOK, NEW q, q \subseteq Frame, NEW rest \in Seq(Task),
         NEW active \in BOOLEAN, NEW out \in Seq(Frame),
         ScheduleNextFrame(q, rest, active, out)
  PROVE  /\ queue' \subseteq Frame
         /\ tasks' \in Seq(Task)
         /\ delivered' \in Seq(Frame)
         /\ fired' \in Seq({"expired", "aborted"})
         /\ pacing' \in BOOLEAN
         /\ \A b \in base' : b \in [ts : Nat, wall : Nat]
         /\ \A d \in wait' : d \in Nat
  <1>0. /\ Append(rest, ScheduleTask) \in Seq(Task)
        /\ Append(fired, "aborted") \in Seq({"expired", "aborted"})
    BY AppendProperties, NewTasks DEF QueuesOK
  <1>1. CASE PacingEnds(q, rest, out)
    BY <1>1 DEF PacingEnds, QueuesOK, NumbersOK
  <1>2. CASE DispatchFirst(q, rest, active, out)
    <2>1. PICK f \in Top(q) : /\ queue' = q \ {f}
                              /\ base' = {[ts |-> f.ts, wall |-> now]}
                              /\ delivered' = Append(out, f)
      BY <1>2 DEF DispatchFirst
    <2>2. f \in Frame /\ queue' \subseteq Frame
      BY <2>1, TopIsQueued
    <2>3. [ts |-> f.ts, wall |-> now] \in [ts : Nat, wall : Nat]
      BY <2>2 DEF Frame, NumbersOK
    <2> QED
      BY <1>0, <1>2, <2>1, <2>2, <2>3, AppendProperties
      DEF DispatchFirst, ContinueChain, QueuesOK, NumbersOK
  <1>3. CASE DispatchDue(q, rest, active, out)
    <2>1. PICK f \in Top(q) : queue' = q \ {f} /\ delivered' = Append(out, f)
      BY <1>3 DEF DispatchDue
    <2>2. f \in Frame /\ queue' \subseteq Frame
      BY <2>1, TopIsQueued
    <2> QED
      BY <1>0, <1>3, <2>1, <2>2, AppendProperties
      DEF DispatchDue, ContinueChain, QueuesOK, NumbersOK
  <1>4. CASE ArmTimer(q, rest, active, out)
    <2>1. PICK b \in base, f \in Top(q) : wait' = {Due(f, b)}
      BY <1>4 DEF ArmTimer
    <2>2. f.ts \in Nat /\ b.ts \in Nat /\ b.wall \in Nat
      BY <2>1, TopIsQueued DEF NumbersOK, Frame
    <2>3. Due(f, b) \in Nat
      <3>1. CASE f.ts < b.ts
        BY <2>2, <3>1 DEF Due
      <3>2. CASE ~(f.ts < b.ts)
        <4>1. (f.ts - b.ts) \div Speed \in Nat
          BY <2>2, <3>2, QuotientIsNat, PipelineAssumption
        <4> QED
          BY <2>2, <3>2, <4>1 DEF Due
      <3> QED
        BY <3>1, <3>2
    <2> QED
      BY <1>0, <1>4, <2>1, <2>3 DEF ArmTimer, CancelWait, QueuesOK, NumbersOK
  <1> QED
    BY <1>1, <1>2, <1>3, <1>4 DEF ScheduleNextFrame

\* The queue's variables through the timer's handler, which dispatches twice.
LEMMA TimerTypes ==
  ASSUME QueuesOK, NumbersOK, FlagsOK, TimerHandler
  PROVE  /\ queue' \subseteq Frame
         /\ tasks' \in Seq(Task)
         /\ delivered' \in Seq(Frame)
         /\ fired' \in Seq({"expired", "aborted"})
         /\ pacing' \in BOOLEAN
         /\ \A b \in base' : b \in [ts : Nat, wall : Nat]
         /\ \A d \in wait' : d \in Nat
  <1>1. Tail(tasks) \in Seq(Task)
    BY RunTaskTypes DEF TimerHandler
  <1>2. CASE TimerEndsChain
    BY <1>1, <1>2 DEF TimerEndsChain, QueuesOK, NumbersOK
  <1>3. CASE TimerDispatches
    <2>1. PICK f \in Top(queue) :
            ScheduleNextFrame(queue \ {f}, Tail(tasks), pacing, Append(delivered, f))
      BY <1>3 DEF TimerDispatches
    <2>2. f \in Frame /\ queue \ {f} \subseteq Frame
      BY <2>1, TopIsQueued DEF QueuesOK
    <2>3. Append(delivered, f) \in Seq(Frame)
      BY <2>2, AppendProperties DEF QueuesOK
    <2>4. pacing \in BOOLEAN
      BY DEF FlagsOK
    <2> QED
      BY <1>1, <2>1, <2>2, <2>3, <2>4, ScheduleTypes
  <1> QED
    BY <1>2, <1>3 DEF TimerHandler

\* A playback arrival is pushed, and may start the chain.
LEMMA PlaybackTypes ==
  ASSUME QueuesOK, NumbersOK, FlagsOK, HandlePlayback
  PROVE  /\ queue' \subseteq Frame
         /\ accepted' \subseteq Frame
         /\ current' \in Seq(Arrival)
         /\ tasks' \in Seq(Task)
         /\ delivered' \in Seq(Frame)
         /\ fired' \in Seq({"expired", "aborted"})
         /\ pacing' \in BOOLEAN
         /\ \A b \in base' : b \in [ts : Nat, wall : Nat]
         /\ \A d \in wait' : d \in Nat
  <1>1. PICK f : /\ f = Head(current).frame
                 /\ accepted' = accepted \cup {f}
                 /\ \/ /\ PacingIdle
                       /\ ScheduleNextFrame(queue \cup {f}, tasks, TRUE, delivered)
                    \/ /\ ~PacingIdle
                       /\ queue' = queue \cup {f}
                       /\ UNCHANGED <<base, pacing, wait, fired, tasks, delivered>>
    BY DEF HandlePlayback
  <1>2. Head(current) \in Arrival /\ Head(current).op = "frame" /\ current' = <<>>
    BY TailProperties DEF HandlePlayback, Handle, QueuesOK
  <1>3. f \in Frame
    BY <1>1, <1>2, ArrivalFields
  <1>4. /\ queue \cup {f} \subseteq Frame /\ accepted \cup {f} \subseteq Frame
        /\ tasks \in Seq(Task) /\ delivered \in Seq(Frame)
        /\ current' \in Seq(Arrival)
    BY <1>2, <1>3, SingletonProperties DEF QueuesOK
  <1>5. CASE ScheduleNextFrame(queue \cup {f}, tasks, TRUE, delivered)
    BY <1>1, <1>4, <1>5, ScheduleTypes
  <1>6. CASE /\ queue' = queue \cup {f}
             /\ UNCHANGED <<base, pacing, wait, fired, tasks, delivered>>
    BY <1>1, <1>4, <1>6 DEF QueuesOK, NumbersOK, FlagsOK
  <1> QED
    BY <1>1, <1>5, <1>6

LEMMA StartTypes == TypeOK /\ Start => TypeOK'
  <1> SUFFICES ASSUME FlagsOK, NumbersOK, QueuesOK, Start
               PROVE  FlagsOK' /\ NumbersOK' /\ QueuesOK'
    BY TypeParts
  <1> USE DEF strandVars, sourceVars, ioVars, callerVars
  <1>1. CASE StartOpenSource
    <2>1. FlagsOK'
      BY <1>1 DEF StartOpenSource, FlagsOK
    <2>2. NumbersOK'
      <3>1. /\ starts' = starts + 1
            /\ UNCHANGED <<newest, base, wait, sent, newestSent, now, completions>>
        BY <1>1 DEF StartOpenSource
      <3> QED
        BY <3>1 DEF NumbersOK
    <2>3. QueuesOK'
      BY <1>1 DEF StartOpenSource, QueuesOK
    <2> QED
      BY <2>1, <2>2, <2>3
  <1>2. CASE StartOpenSink
    BY <1>2 DEF StartOpenSink, FlagsOK, NumbersOK, QueuesOK
  <1>3. CASE StartSource
    BY <1>3 DEF StartSource, FlagsOK, NumbersOK, QueuesOK
  <1>4. CASE StartReturns
    BY <1>4 DEF StartReturns, FlagsOK, NumbersOK, QueuesOK
  <1>5. CASE StartCloseSink
    BY <1>5 DEF StartCloseSink, FlagsOK, NumbersOK, QueuesOK
  <1>6. CASE StartCloseSource
    BY <1>6 DEF StartCloseSource, FlagsOK, NumbersOK, QueuesOK
  <1> QED
    BY <1>1, <1>2, <1>3, <1>4, <1>5, <1>6 DEF Start

LEMMA SourceTypes ==
  TypeOK /\ (DeliverFrame \/ DeliverEof \/ Arrive) => TypeOK'
  <1> SUFFICES ASSUME FlagsOK, NumbersOK, QueuesOK,
                      DeliverFrame \/ DeliverEof \/ Arrive
               PROVE  FlagsOK' /\ NumbersOK' /\ QueuesOK'
    BY TypeParts
  <1> USE DEF strandVars, sourceVars, ioVars, callerVars
  <1>1. ASSUME NEW t \in Arrival, Deliver(t)
        PROVE  sending' \in Seq(Arrival)
    BY <1>1, SingletonProperties DEF Deliver
  <1>2. CASE DeliverFrame
    <2>1. PICK ts \in 1..MaxTime :
            /\ Deliver(FrameTask([n |-> sent + 1, ts |-> ts]))
            /\ newestSent' = IF ts > newestSent THEN ts ELSE newestSent
      BY <1>2 DEF DeliverFrame
    <2>2. [n |-> sent + 1, ts |-> ts] \in Frame
      BY PipelineAssumption DEF Frame, NumbersOK
    <2>3. sending' \in Seq(Arrival)
      BY <1>1, <2>1, <2>2, NewTasks
    <2>4. newestSent' \in Nat /\ sent' \in Nat
      BY <1>2, <2>1, PipelineAssumption DEF DeliverFrame, NumbersOK
    <2> QED
      BY <1>2, <2>1, <2>3, <2>4 DEF DeliverFrame, Deliver, FlagsOK, NumbersOK, QueuesOK
  <1>3. CASE DeliverEof
    <2>1. sending' \in Seq(Arrival)
      BY <1>1, <1>3, NewTasks DEF DeliverEof
    <2> QED
      BY <1>3, <2>1 DEF DeliverEof, Deliver, FlagsOK, NumbersOK, QueuesOK
  <1>4. sending # <<>> => Head(sending) \in Arrival
    BY TailProperties DEF QueuesOK
  <1>5. CASE PostArrival
    <2>1. tasks' \in Seq(Task) /\ sending' \in Seq(Arrival)
      BY <1>4, <1>5, ArrivalFields, AppendProperties, SingletonProperties
      DEF PostArrival, QueuesOK
    <2> QED
      BY <1>5, <2>1 DEF PostArrival, FlagsOK, NumbersOK, QueuesOK
  <1>6. CASE LiveFrame
    <2>1. delivered' \in Seq(Frame) /\ sending' \in Seq(Arrival)
      BY <1>4, <1>6, ArrivalFields, AppendProperties, SingletonProperties
      DEF LiveFrame, QueuesOK
    <2> QED
      BY <1>6, <2>1 DEF LiveFrame, FlagsOK, NumbersOK, QueuesOK
  <1>7. CASE LiveEof
    <2>1. FlagsOK'
      BY <1>7 DEF LiveEof, FlagsOK
    <2>2. NumbersOK'
      BY <1>7 DEF LiveEof, NumbersOK
    <2>3. QueuesOK'
      BY <1>7, SingletonProperties DEF LiveEof, QueuesOK
    <2> QED
      BY <2>1, <2>2, <2>3
  <1> QED
    BY <1>2, <1>3, <1>5, <1>6, <1>7 DEF Arrive

LEMMA StrandTypes == TypeOK /\ Strand => TypeOK'
  <1> SUFFICES ASSUME FlagsOK, NumbersOK, QueuesOK, Strand
               PROVE  FlagsOK' /\ NumbersOK' /\ QueuesOK'
    BY TypeParts
  <1> USE DEF strandVars, sourceVars, ioVars, callerVars
  <1>0. /\ <<>> \in Seq(Arrival)
        /\ Append(fired, "aborted") \in Seq({"expired", "aborted"})
    BY AppendProperties DEF QueuesOK
  <1>1. CASE TakeArrival
    <2>1. PICK op \in {"frame", "eof"} : RunTask(op)
      BY <1>1 DEF TakeArrival
    <2>2. tasks' \in Seq(Task) /\ Head(tasks) \in Arrival
      BY <1>1, <2>1, RunTaskTypes, TaskFields DEF TakeArrival
    <2>3. current' \in Seq(Arrival)
      BY <1>0, <1>1, <2>2, SingletonProperties DEF TakeArrival
    <2> QED
      BY <1>1, <2>2, <2>3 DEF TakeArrival, FlagsOK, NumbersOK, QueuesOK
  <1>2. CASE HandleBuffered
    <2>1. PICK f : /\ f = Head(current).frame
                   /\ accepted' = accepted \cup {f}
                   /\ newest' = Raised(f)
                   /\ FlushOneFrame(queue \cup {f}, newest', tasks)
      BY <1>2 DEF HandleBuffered
    <2>2. Head(current) \in Arrival /\ Head(current).op = "frame" /\ current' = <<>>
      BY <1>2, TailProperties DEF HandleBuffered, Handle, QueuesOK
    <2>3. f \in Frame
      BY <2>1, <2>2, ArrivalFields
    <2>4. newest' \in Nat
      BY <2>1, <2>3 DEF Raised, Frame, NumbersOK
    <2>5. queue' \subseteq Frame /\ tasks' \in Seq(Task) /\ delivered' \in Seq(Frame)
      <3>1. queue \cup {f} \subseteq Frame /\ tasks \in Seq(Task) /\ delivered \in Seq(Frame)
        BY <2>3 DEF QueuesOK
      <3> QED
        BY <2>1, <3>1, FlushTypes
    <2> QED
      BY <1>0, <1>2, <2>1, <2>2, <2>3, <2>4, <2>5
      DEF HandleBuffered, FlagsOK, NumbersOK, QueuesOK
  <1>3. CASE HandlePlayback
    BY <1>3, PlaybackTypes DEF HandlePlayback, FlagsOK, NumbersOK, QueuesOK
  <1>4. CASE HandleEof
    <2>1. queue' \subseteq Frame /\ tasks' \in Seq(Task) /\ delivered' \in Seq(Frame)
      BY <1>4, DrainTypes DEF HandleEof, QueuesOK
    <2>2. completions' \in Nat
      BY <1>4 DEF HandleEof, DrainEofQueue, NumbersOK
    <2> QED
      BY <1>0, <1>4, <2>1, <2>2
      DEF HandleEof, Handle, CancelWait, FlagsOK, NumbersOK, QueuesOK
  <1>5. CASE Drain
    <2>1. queue' \subseteq Frame /\ tasks' \in Seq(Task) /\ delivered' \in Seq(Frame)
      BY <1>5, DrainTypes, RunTaskTypes DEF Drain
    <2>2. completions' \in Nat
      BY <1>5 DEF Drain, DrainEofQueue, NumbersOK
    <2> QED
      BY <1>5, <2>1, <2>2 DEF Drain, FlagsOK, NumbersOK, QueuesOK
  <1>6. CASE Flush
    <2>1. Tail(tasks) \in Seq(Task)
      BY <1>6, RunTaskTypes DEF Flush
    <2>2. queue' \subseteq Frame /\ tasks' \in Seq(Task) /\ delivered' \in Seq(Frame)
      <3>1. CASE FlushOneFrame(queue, newest, Tail(tasks))
        BY <2>1, <3>1, FlushTypes DEF QueuesOK
      <3>2. CASE tasks' = Tail(tasks) /\ UNCHANGED <<queue, delivered>>
        BY <2>1, <3>2 DEF QueuesOK
      <3> QED
        BY <1>6, <3>1, <3>2 DEF Flush
    <2> QED
      BY <1>6, <2>2 DEF Flush, FlagsOK, NumbersOK, QueuesOK
  <1>7. CASE Schedule
    <2>1. Tail(tasks) \in Seq(Task)
      BY <1>7, RunTaskTypes DEF Schedule
    <2>2. pacing \in BOOLEAN /\ queue \subseteq Frame /\ delivered \in Seq(Frame)
      BY DEF FlagsOK, QueuesOK
    <2>3. ScheduleNextFrame(queue, Tail(tasks), pacing, delivered)
      BY <1>7 DEF Schedule
    <2>4. /\ queue' \subseteq Frame
          /\ tasks' \in Seq(Task)
          /\ delivered' \in Seq(Frame)
          /\ fired' \in Seq({"expired", "aborted"})
          /\ pacing' \in BOOLEAN
          /\ \A b \in base' : b \in [ts : Nat, wall : Nat]
          /\ \A d \in wait' : d \in Nat
      BY <2>1, <2>2, <2>3, ScheduleTypes
    <2> QED
      BY <1>7, <2>4 DEF Schedule, FlagsOK, NumbersOK, QueuesOK
  <1>8. CASE TimerHandler
    BY <1>8, TimerTypes DEF TimerHandler, FlagsOK, NumbersOK, QueuesOK
  <1>9. CASE StopOnStrand
    <2>1. Tail(tasks) \in Seq(Task)
      BY <1>9, RunTaskTypes DEF StopOnStrand
    <2> QED
      BY <1>0, <1>9, <2>1
      DEF StopOnStrand, CancelWait, ClearQueue, FlagsOK, NumbersOK, QueuesOK
  <1> QED
    BY <1>1, <1>2, <1>3, <1>4, <1>5, <1>6, <1>7, <1>8, <1>9 DEF Strand

LEMMA TimerAndStopTypes == TypeOK /\ (Timer \/ Tick \/ Stop) => TypeOK'
  <1> SUFFICES ASSUME FlagsOK, NumbersOK, QueuesOK, Timer \/ Tick \/ Stop
               PROVE  FlagsOK' /\ NumbersOK' /\ QueuesOK'
    BY TypeParts
  <1> USE DEF strandVars, sourceVars, ioVars, callerVars
  <1>1. CASE TimerExpires
    <2>1. fired' \in Seq({"expired", "aborted"})
      BY <1>1, AppendProperties DEF TimerExpires, QueuesOK
    <2> QED
      BY <1>1, <2>1 DEF TimerExpires, FlagsOK, NumbersOK, QueuesOK
  <1>2. CASE TimerPosts
    <2>1. Tail(fired) \in Seq({"expired", "aborted"}) /\ Head(fired) \in {"expired", "aborted"}
      BY <1>2, TailProperties DEF TimerPosts, QueuesOK
    <2>2. tasks' \in Seq(Task)
      BY <1>2, <2>1, NewTasks, AppendProperties DEF TimerPosts, QueuesOK
    <2> QED
      BY <1>2, <2>1, <2>2 DEF TimerPosts, FlagsOK, NumbersOK, QueuesOK
  <1>3. CASE Tick
    <2>1. FlagsOK'
      BY <1>3 DEF Tick, FlagsOK
    <2>2. NumbersOK'
      BY <1>3 DEF Tick, NumbersOK
    <2>3. QueuesOK'
      BY <1>3 DEF Tick, QueuesOK
    <2> QED
      BY <2>1, <2>2, <2>3
  <1>4. CASE StopBegin
    <2>1. tasks' \in Seq(Task)
      BY <1>4, NewTasks, AppendProperties DEF StopBegin, QueuesOK
    <2> QED
      BY <1>4, <2>1 DEF StopBegin, FlagsOK, NumbersOK, QueuesOK
  <1>5. CASE StopCloseSource
    BY <1>5 DEF StopCloseSource, FlagsOK, NumbersOK, QueuesOK
  <1>6. CASE StopCloseSink
    BY <1>6 DEF StopCloseSink, FlagsOK, NumbersOK, QueuesOK
  <1> QED
    BY <1>1, <1>2, <1>3, <1>4, <1>5, <1>6 DEF Timer, Stop

LEMMA TypeInit == Init => TypeOK
  <1> SUFFICES ASSUME Init
               PROVE  FlagsOK /\ NumbersOK /\ QueuesOK
    BY TypeParts
  <1>1. FlagsOK
    BY DEF Init, FlagsOK
  <1>2. NumbersOK
    BY DEF Init, NumbersOK
  <1>3. QueuesOK
    BY DEF Init, QueuesOK
  <1> QED
    BY <1>1, <1>2, <1>3

LEMMA TypeNext == TypeOK /\ [Next]_vars => TypeOK'
  <1>1. TypeOK /\ UNCHANGED vars => TypeOK'
    BY DEF TypeOK, vars, strandVars, sourceVars, ioVars, callerVars
  <1> QED
    BY <1>1, StartTypes, SourceTypes, StrandTypes, TimerAndStopTypes DEF Next

\* Every variable keeps the type of its declaration in media_pipeline.h, in
\* every mode and over any number of starts.
THEOREM TypeCorrect == Spec => []TypeOK
  BY TypeInit, TypeNext, PTL DEF Spec
-----------------------------------------------------------------------------
(* The sorting buffer.                                                     *)

SourceInBound == Jitter <= BufferDuration /\ MaxStarts = 1

SortSetting == mode = "buffered" /\ Jitter <= BufferDuration /\ MaxStarts = 1

InOrder(d) == \A i, j \in 1..Len(d) : i < j => d[i].ts <= d[j].ts

Before(d, q) == \A i \in 1..Len(d) : \A f \in q : d[i].ts <= f.ts

\* The oldest queued frame may follow what is delivered.
LEMMA AppendTop ==
  ASSUME NEW d \in Seq(Frame), NEW q, q \subseteq Frame, InOrder(d), Before(d, q),
         NEW f \in Top(q)
  PROVE  /\ Append(d, f) \in Seq(Frame)
         /\ InOrder(Append(d, f))
         /\ Before(Append(d, f), q \ {f})
  <1>1. /\ Append(d, f) \in Seq(Frame)
        /\ Len(d) \in Nat
        /\ Len(Append(d, f)) = Len(d) + 1
        /\ \A i \in 1..Len(d) : Append(d, f)[i] = d[i]
        /\ Append(d, f)[Len(d) + 1] = f
    BY TopIsQueued, AppendProperties
  <1>2. \A i \in 1..Len(d) : d[i].ts <= f.ts
    BY TopIsQueued DEF Before
  <1>3. InOrder(Append(d, f))
    <2>1. SUFFICES ASSUME NEW i \in 1..(Len(d) + 1), NEW j \in 1..(Len(d) + 1), i < j
                   PROVE  Append(d, f)[i].ts <= Append(d, f)[j].ts
      BY <1>1 DEF InOrder
    <2>2. i \in 1..Len(d)
      BY <1>1, <2>1
    <2>3. CASE j = Len(d) + 1
      BY <1>1, <1>2, <2>2, <2>3
    <2>4. CASE j # Len(d) + 1
      <3>1. j \in 1..Len(d)
        BY <1>1, <2>4
      <3> QED
        BY <1>1, <2>1, <2>2, <3>1 DEF InOrder
    <2> QED
      BY <2>3, <2>4
  <1>4. Before(Append(d, f), q \ {f})
    <2>1. SUFFICES ASSUME NEW i \in 1..(Len(d) + 1), NEW g \in q \ {f}
                   PROVE  Append(d, f)[i].ts <= g.ts
      BY <1>1 DEF Before
    <2>2. f.ts <= g.ts
      BY DEF Top
    <2>3. CASE i = Len(d) + 1
      BY <1>1, <2>2, <2>3
    <2>4. CASE i # Len(d) + 1
      <3>1. i \in 1..Len(d)
        BY <1>1, <2>4
      <3> QED
        BY <1>1, <3>1 DEF Before
    <2> QED
      BY <2>3, <2>4
  <1> QED
    BY <1>1, <1>3, <1>4

\* flush_one_frame delivers in order, nothing that is not mature, and leaves a
\* flush behind for the next mature frame.
LEMMA FlushKeepsOrder ==
  ASSUME NEW q, q \subseteq Frame, NEW nw \in Nat, NEW rest \in Seq(Task),
         delivered \in Seq(Frame), InOrder(delivered), Before(delivered, q),
         \A i \in 1..Len(delivered) : delivered[i].ts <= nw - BufferDuration,
         FlushOneFrame(q, nw, rest)
  PROVE  /\ InOrder(delivered')
         /\ Before(delivered', queue')
         /\ \A i \in 1..Len(delivered') : delivered'[i].ts <= nw - BufferDuration
         /\ (MoreThanOne(queue') /\ Mature(queue', nw))
              => \E i \in 1..Len(tasks') : tasks'[i] = FlushTask
         /\ \A i \in 1..Len(tasks') :
              tasks'[i] = FlushTask \/ (i \in 1..Len(rest) /\ tasks'[i] = rest[i])
  <1>1. CASE MoreThanOne(q) /\ Mature(q, nw)
    <2>1. PICK f \in Top(q) :
            /\ queue' = q \ {f}
            /\ delivered' = Append(delivered, f)
            /\ tasks' = AfterFlush(q \ {f}, rest)
      BY <1>1 DEF FlushOneFrame
    <2>2. InOrder(delivered') /\ Before(delivered', queue')
      BY <2>1, AppendTop
    <2>3. \A i \in 1..Len(delivered') : delivered'[i].ts <= nw - BufferDuration
      <3>1. nw - f.ts >= BufferDuration /\ f.ts \in Nat /\ f \in Frame
        BY <1>1, TopIsQueued DEF Mature, Frame
      <3>2. f.ts <= nw - BufferDuration
        BY <3>1, PipelineAssumption
      <3>3. /\ Len(delivered) \in Nat
            /\ Len(delivered') = Len(delivered) + 1
            /\ \A i \in 1..Len(delivered) : delivered'[i] = delivered[i]
            /\ delivered'[Len(delivered) + 1] = f
        BY <2>1, <3>1, AppendProperties
      <3>4. ASSUME NEW i \in 1..Len(delivered')
            PROVE  i \in 1..Len(delivered) \/ i = Len(delivered) + 1
        BY <3>3
      <3> QED
        BY <3>2, <3>3, <3>4
    <2>4. CASE MoreThanOne(q \ {f})
      <3>1. tasks' = Append(rest, FlushTask)
        BY <2>1, <2>4 DEF AfterFlush
      <3>2. /\ Len(rest) \in Nat
            /\ Len(tasks') = Len(rest) + 1
            /\ \A i \in 1..Len(rest) : tasks'[i] = rest[i]
            /\ tasks'[Len(rest) + 1] = FlushTask
        BY <3>1, NewTasks, AppendProperties
      <3>3. Len(rest) + 1 \in 1..Len(tasks')
        BY <3>2
      <3>4. ASSUME NEW i \in 1..Len(tasks')
            PROVE  i \in 1..Len(rest) \/ i = Len(rest) + 1
        BY <3>2
      <3> QED
        BY <2>2, <2>3, <3>2, <3>3, <3>4
    <2>5. CASE ~MoreThanOne(q \ {f})
      BY <2>1, <2>2, <2>3, <2>5 DEF AfterFlush
    <2> QED
      BY <2>4, <2>5
  <1>2. CASE ~(MoreThanOne(q) /\ Mature(q, nw))
    BY <1>2 DEF FlushOneFrame
  <1> QED
    BY <1>1, <1>2

\* So does drain_eof_queue.
LEMMA DrainKeepsOrder ==
  ASSUME QueuesOK, InOrder(delivered), Before(delivered, queue),
         NEW rest \in Seq(Task), DrainEofQueue(rest)
  PROVE  /\ InOrder(delivered')
         /\ Before(delivered', queue')
         /\ \A i \in 1..Len(tasks') :
              tasks'[i] = DrainTask \/ (i \in 1..Len(rest) /\ tasks'[i] = rest[i])
  <1>1. CASE Drained /\ tasks' = rest /\ UNCHANGED <<queue, delivered>>
    BY <1>1
  <1>2. CASE /\ \E f \in Top(queue) : /\ queue' = queue \ {f}
                                      /\ delivered' = Append(delivered, f)
             /\ tasks' = Append(rest, DrainTask)
    <2>1. PICK f \in Top(queue) : /\ queue' = queue \ {f}
                                  /\ delivered' = Append(delivered, f)
      BY <1>2
    <2>2. InOrder(delivered') /\ Before(delivered', queue')
      BY <2>1, AppendTop DEF QueuesOK
    <2>3. /\ Len(rest) \in Nat
          /\ Len(tasks') = Len(rest) + 1
          /\ \A i \in 1..Len(rest) : tasks'[i] = rest[i]
          /\ tasks'[Len(rest) + 1] = DrainTask
      BY <1>2, NewTasks, AppendProperties
    <2>4. ASSUME NEW i \in 1..Len(tasks')
          PROVE  i \in 1..Len(rest) \/ i = Len(rest) + 1
      BY <2>3
    <2> QED
      BY <2>2, <2>3, <2>4
  <1> QED
    BY <1>1, <1>2 DEF DrainEofQueue

LateInv == newest <= newestSent /\ PostedLate /\ CurrentLate /\ SendingLate

OrderInv == DeliveredFirst /\ Sorted /\ MatureFrameHasFlush

LEMMA SortParts ==
  /\ SortInv <=> TypeOK /\ FreshStart /\ TaskKinds /\ LateInv /\ OrderInv
  /\ SortInv' <=> TypeOK' /\ FreshStart' /\ TaskKinds' /\ LateInv' /\ OrderInv'
  BY Zenon DEF SortInv, LateInv, OrderInv

\* A step after which every posted frame was posted before it, k places further
\* back, keeps the bounds on the frames' lateness.
FramesKept(k) ==
  \A i \in 1..Len(tasks') :
    IsFrame(tasks'[i]) => i + k \in 1..Len(tasks) /\ tasks'[i] = tasks[i + k]

LEMMA LateKept ==
  ASSUME TypeOK, TypeOK', LateInv, NEW k \in {0, 1}, FramesKept(k),
         newest' <= newest, newestSent' = newestSent,
         current' = current \/ current' = <<>>, sending' = sending
  PROVE  LateInv'
  <1>0. /\ newest \in Nat /\ newest' \in Nat /\ newestSent \in Nat /\ Jitter \in Nat
        /\ Len(tasks) \in Nat /\ Len(tasks') \in Nat
        /\ \A i \in 1..Len(tasks) : IsFrame(tasks[i]) => tasks[i].frame.ts \in Nat
        /\ \A i \in 1..Len(current) : IsFrame(current[i]) => current[i].frame.ts \in Nat
        /\ \A i \in 1..Len(sending) : IsFrame(sending[i]) => sending[i].frame.ts \in Nat
    <2>1. /\ newest \in Nat /\ newest' \in Nat /\ newestSent \in Nat /\ Jitter \in Nat
          /\ tasks \in Seq(Task) /\ tasks' \in Seq(Task)
          /\ current \in Seq(Arrival) /\ sending \in Seq(Arrival)
      BY PipelineAssumption DEF TypeOK
    <2>2. \A t \in Task : IsFrame(t) => t.frame.ts \in Nat
      BY TaskFields DEF Frame, IsFrame
    <2>3. \A t \in Arrival : IsFrame(t) => t.frame.ts \in Nat
      BY ArrivalFields DEF Frame, IsFrame
    <2> QED
      BY <2>1, <2>2, <2>3
  <1>1. newest' <= newestSent'
    BY <1>0 DEF LateInv
  <1>2. PostedLate'
    <2>1. ASSUME NEW i \in 1..Len(tasks'), IsFrame(tasks'[i])
          PROVE  /\ tasks'[i].frame.ts >= newest' - Jitter
                 /\ tasks'[i].frame.ts <= newestSent'
      <3>1. i + k \in 1..Len(tasks) /\ tasks'[i] = tasks[i + k]
        BY <2>1 DEF FramesKept
      <3>2. /\ tasks[i + k].frame.ts >= newest - Jitter
            /\ tasks[i + k].frame.ts <= newestSent
            /\ tasks[i + k].frame.ts \in Nat
        BY <1>0, <2>1, <3>1 DEF LateInv, PostedLate
      <3> QED
        BY <1>0, <3>1, <3>2
    <2>2. ASSUME NEW i \in 1..Len(tasks'), NEW j \in 1..Len(tasks'), i < j,
                 IsFrame(tasks'[i]), IsFrame(tasks'[j])
          PROVE  tasks'[j].frame.ts >= tasks'[i].frame.ts - Jitter
      <3>1. /\ i + k \in 1..Len(tasks) /\ tasks'[i] = tasks[i + k]
            /\ j + k \in 1..Len(tasks) /\ tasks'[j] = tasks[j + k]
        BY <2>2 DEF FramesKept
      <3>2. i + k < j + k
        BY <2>2
      <3> QED
        BY <2>2, <3>1, <3>2 DEF LateInv, PostedLate
    <2> QED
      BY <2>1, <2>2 DEF PostedLate
  <1>3. CurrentLate'
    <2>1. CASE current' = <<>>
      BY <2>1, SingletonProperties DEF CurrentLate
    <2>2. CASE current' = current
      <3>1. ASSUME NEW c \in 1..Len(current), IsFrame(current[c])
            PROVE  /\ current[c].frame.ts >= newest' - Jitter
                   /\ current[c].frame.ts <= newestSent'
        <4>1. /\ current[c].frame.ts >= newest - Jitter
              /\ current[c].frame.ts <= newestSent
              /\ current[c].frame.ts \in Nat
          BY <1>0, <3>1 DEF LateInv, CurrentLate
        <4> QED
          BY <1>0, <4>1
      <3>2. ASSUME NEW c \in 1..Len(current), IsFrame(current[c]),
                   NEW i \in 1..Len(tasks'), IsFrame(tasks'[i])
            PROVE  tasks'[i].frame.ts >= current[c].frame.ts - Jitter
        BY <3>2 DEF FramesKept, LateInv, CurrentLate
      <3> QED
        BY <2>2, <3>1, <3>2 DEF CurrentLate, LateInv
    <2> QED
      BY <2>1, <2>2
  <1>4. SendingLate'
    <2>1. ASSUME NEW c \in 1..Len(sending), IsFrame(sending[c])
          PROVE  /\ sending[c].frame.ts >= newest' - Jitter
                 /\ sending[c].frame.ts <= newestSent'
      <3>1. /\ sending[c].frame.ts >= newest - Jitter
            /\ sending[c].frame.ts <= newestSent
            /\ sending[c].frame.ts \in Nat
        BY <1>0, <2>1 DEF LateInv, SendingLate
      <3> QED
        BY <1>0, <3>1
    <2>2. ASSUME NEW c \in 1..Len(sending), IsFrame(sending[c]),
                 NEW i \in 1..Len(tasks'), IsFrame(tasks'[i])
          PROVE  sending[c].frame.ts >= tasks'[i].frame.ts - Jitter
      BY <2>2 DEF FramesKept, LateInv, SendingLate
    <2>3. ASSUME NEW c \in 1..Len(sending), IsFrame(sending[c]),
                 NEW i \in 1..Len(current'), IsFrame(current'[i])
          PROVE  sending[c].frame.ts >= current'[i].frame.ts - Jitter
      <3>1. current' = current
        BY <2>3, SingletonProperties
      <3> QED
        BY <2>3, <3>1 DEF LateInv, SendingLate
    <2>4. Len(sending) <= 1
      BY DEF LateInv, SendingLate
    <2> QED
      BY <2>1, <2>2, <2>3, <2>4 DEF SendingLate
  <1> QED
    BY <1>1, <1>2, <1>3, <1>4 DEF LateInv

\* A step that neither delivers nor queues keeps the order of the output.
LEMMA OrderKept ==
  ASSUME SortSetting, OrderInv, UNCHANGED <<delivered, queue, newest>>,
         running' => running,
         current' # <<>> => running \/ current # <<>>,
         \A i \in 1..Len(tasks) : tasks[i] = FlushTask =>
           \E j \in 1..Len(tasks') : tasks'[j] = FlushTask
  PROVE  OrderInv'
  <1>1. DeliveredFirst'
    BY DEF OrderInv, DeliveredFirst
  <1>2. Sorted'
    BY DEF OrderInv, Sorted, SortSetting
  <1>3. MatureFrameHasFlush'
    <2>1. Mature(queue, newest)' <=> Mature(queue, newest)
      BY DEF Mature, Top
    <2>2. MoreThanOne(queue)' <=> MoreThanOne(queue)
      BY DEF MoreThanOne
    <2> QED
      BY <2>1, <2>2 DEF OrderInv, MatureFrameHasFlush, SortSetting
  <1> QED
    BY <1>1, <1>2, <1>3 DEF OrderInv

LEMMA KindsKept ==
  ASSUME TaskKinds, UNCHANGED <<wait, fired>>,
         running' => running,
         stopper # "idle" => stopper' # "idle",
         stopper' # "idle" => ~running',
         \A i \in 1..Len(tasks') :
           \/ \E j \in 1..Len(tasks) : tasks'[i] = tasks[j]
           \/ tasks'[i].op \in {"frame", "eof", "flush"}
           \/ tasks'[i].op = "stop" /\ stopper' # "idle"
           \/ tasks'[i].op = "drain" /\ ~running'
  PROVE  TaskKinds'
  <1>1. ASSUME NEW i \in 1..Len(tasks')
        PROVE  /\ tasks'[i].op \notin {"schedule", "timer"}
               /\ tasks'[i].op = "stop" => stopper' # "idle"
               /\ tasks'[i].op = "drain" => ~running'
    <2>1. CASE \E j \in 1..Len(tasks) : tasks'[i] = tasks[j]
      BY <2>1 DEF TaskKinds
    <2>2. CASE tasks'[i].op \in {"frame", "eof", "flush"}
      BY <2>2
    <2>3. CASE \/ tasks'[i].op = "stop" /\ stopper' # "idle"
               \/ tasks'[i].op = "drain" /\ ~running'
      BY <2>3
    <2> QED
      BY <2>1, <2>2, <2>3
  <1> QED
    BY <1>1 DEF TaskKinds

LEMMA StartOnce ==
  ASSUME SortSetting, TypeOK, StartOpenSource
  PROVE  starts = 0 /\ starts' = 1
  <1>1. starts \in Nat
    BY DEF TypeOK
  <1>2. starts < 1 /\ starts' = starts + 1
    BY DEF StartOpenSource, SortSetting
  <1> QED
    BY <1>1, <1>2

\* Before the source is started only start() can go on.
LEMMA FreshKept ==
  ASSUME SortSetting, TypeOK, FreshStart, Next
  PROVE  FreshStart'
  <1>1. CASE Start
    <2> USE DEF FreshStart, Pristine, strandVars, sourceVars, ioVars, callerVars
    <2>1. CASE StartOpenSource
      <3>1. starts = 0 /\ starts' = 1
        BY <2>1, StartOnce
      <3>2. /\ UNCHANGED <<running, queue, newest, wait, fired, tasks, current,
                          sending, delivered>>
            /\ stopper' = "idle"
            /\ source' \in {"open", source}
        BY <2>1 DEF StartOpenSource
      <3>3. Pristine
        BY <3>1, Zenon
      <3>4. source' # "started"
        BY <3>2, <3>3
      <3>5. Pristine'
        BY <3>2, <3>3, <3>4, Zenon
      <3>6. starts' # 0
        BY <3>1
      <3> QED
        BY <3>5, <3>6, Zenon
    <2>2. CASE StartOpenSink
      BY <2>2 DEF StartOpenSink
    <2>3. CASE StartSource
      BY <2>3 DEF StartSource
    <2>4. CASE StartReturns
      BY <2>4 DEF StartReturns
    <2>5. CASE StartCloseSink
      BY <2>5 DEF StartCloseSink
    <2>6. CASE StartCloseSource
      BY <2>6 DEF StartCloseSource
    <2> QED
      BY <1>1, <2>1, <2>2, <2>3, <2>4, <2>5, <2>6 DEF Start
  <1>2. CASE ~Start
    <2>1. ~(Pristine /\ (starts = 0 \/ starter \in {"opening_sink", "starting_source"}))
      <3>1. CASE DeliverFrame \/ DeliverEof
        BY <3>1 DEF DeliverFrame, DeliverEof, Deliver, Pristine
      <3>2. CASE Arrive
        BY <3>2 DEF Arrive, PostArrival, LiveFrame, LiveEof, Pristine
      <3>3. CASE Strand
        BY <3>3 DEF Strand, TakeArrival, RunTask, HandleBuffered, HandlePlayback,
          HandleEof, Handle, Drain, Flush, Schedule, TimerHandler, StopOnStrand, Pristine
      <3>4. CASE Timer \/ Tick
        BY <3>4 DEF Timer, TimerExpires, TimerPosts, Tick, SortSetting, Pristine
      <3>5. CASE Stop
        <4>1. CASE StopBegin
          <5>1. starts > 0 /\ starter = "idle"
            BY <4>1 DEF StopBegin
          <5> QED
            BY <5>1
        <4>2. CASE StopCloseSource \/ StopCloseSink
          <5>1. stopper # "idle"
            BY <4>2 DEF StopCloseSource, SinkMayClose, StopCloseSink
          <5> QED
            BY <5>1, Zenon DEF Pristine
        <4> QED
          BY <3>5, <4>1, <4>2 DEF Stop
      <3> QED
        BY <1>2, <3>1, <3>2, <3>3, <3>4, <3>5 DEF Next
    <2>2. UNCHANGED <<starts, starter>>
      BY <1>2 DEF Next, DeliverFrame, DeliverEof, Deliver, Arrive,
        PostArrival, LiveFrame, LiveEof, Strand, TakeArrival,
        HandleBuffered, HandlePlayback, HandleEof, Drain, Flush, Schedule,
        TimerHandler, StopOnStrand, Timer, TimerExpires, TimerPosts, Tick,
        Stop, StopBegin, StopCloseSource, StopCloseSink, callerVars
    <2> QED
      BY <2>1, <2>2 DEF FreshStart
  <1> QED
    BY <1>1, <1>2

\* start(): the frames are untouched, and m_running set once, at the beginning.
LEMMA StartSorts ==
  ASSUME SortSetting, SortInv, TypeOK', Start
  PROVE  TaskKinds' /\ LateInv' /\ OrderInv'
  <1>0. /\ TypeOK /\ FreshStart /\ TaskKinds /\ LateInv /\ OrderInv
        /\ UNCHANGED <<queue, newest, wait, fired, tasks, current, sending, delivered>>
    BY SortParts DEF Start, StartOpenSource, StartOpenSink, StartSource, StartReturns,
      StartCloseSink, StartCloseSource, strandVars
  <1>1. CASE StartSource
    <2>1. /\ Pristine /\ running' = TRUE /\ newestSent' = 0 /\ stopper' = stopper
      BY <1>0, <1>1 DEF StartSource, FreshStart
    <2>2. TaskKinds'
      BY <1>0, <2>1, SingletonProperties DEF TaskKinds, Pristine
    <2>3. LateInv'
      BY <1>0, <2>1, SingletonProperties
      DEF LateInv, PostedLate, CurrentLate, SendingLate, Pristine
    <2>4. OrderInv'
      <3>1. delivered' = <<>> /\ queue' = {}
        BY <1>0, <2>1 DEF Pristine
      <3> QED
        BY <3>1, SingletonProperties
        DEF OrderInv, DeliveredFirst, Sorted, MatureFrameHasFlush, MoreThanOne
    <2> QED
      BY <2>2, <2>3, <2>4
  <1>2. CASE ~StartSource
    <2>1. /\ running' => running
          /\ newestSent' = newestSent
          /\ stopper' = stopper
      <3>1. CASE StartOpenSource
        <4>1. Pristine
          BY <1>0, <3>1, StartOnce DEF FreshStart
        <4>2. stopper = "idle"
          BY <4>1, Zenon DEF Pristine
        <4>3. running' = running /\ newestSent' = newestSent /\ stopper' = "idle"
          BY <3>1 DEF StartOpenSource, sourceVars
        <4> QED
          BY <4>2, <4>3, Zenon
      <3>2. CASE StartReturns
        <4>1. running' = running \/ ~running'
          BY <3>2, Zenon DEF StartReturns
        <4>2. newestSent' = newestSent /\ stopper' = stopper
          BY <3>2 DEF StartReturns, sourceVars
        <4>3. CASE running' = running
          BY <4>2, <4>3, Zenon
        <4>4. CASE ~running'
          BY <4>2, <4>4, Zenon
        <4> QED
          BY <4>1, <4>3, <4>4
      <3>3. CASE StartOpenSink \/ StartCloseSink \/ StartCloseSource
        <4>1. running' = running /\ newestSent' = newestSent /\ stopper' = stopper
          BY <3>3 DEF StartOpenSink, StartCloseSink, StartCloseSource, sourceVars
        <4> QED
          BY <4>1, Zenon
      <3> QED
        BY <1>2, <3>1, <3>2, <3>3 DEF Start
    <2>2. TaskKinds'
      BY <1>0, <2>1 DEF TaskKinds
    <2>3. LateInv'
      BY <1>0, <2>1 DEF LateInv, PostedLate, CurrentLate, SendingLate
    <2>4. OrderInv'
      BY <1>0, <2>1, OrderKept
    <2> QED
      BY <2>2, <2>3, <2>4
  <1> QED
    BY <1>1, <1>2

\* The source's callback: the bound on its lateness is the source's.
LEMMA DeliverSorts ==
  ASSUME SortSetting, SortInv, TypeOK', DeliverFrame \/ DeliverEof
  PROVE  TaskKinds' /\ LateInv' /\ OrderInv'
  <1>0. TypeOK /\ TaskKinds /\ LateInv /\ OrderInv
    BY SortParts
  <1>1. PICK t : Deliver(t) /\ t \in Task /\ (IsFrame(t) =>
                   /\ t.frame.ts \in Nat
                   /\ t.frame.ts >= newestSent - Jitter
                   /\ newestSent' = IF t.frame.ts > newestSent THEN t.frame.ts
                                                               ELSE newestSent)
                 /\ (~IsFrame(t) => newestSent' = newestSent)
    <2>1. CASE DeliverFrame
      <3>1. PICK ts \in 1..MaxTime :
              /\ ts >= newestSent - Jitter
              /\ Deliver(FrameTask([n |-> sent + 1, ts |-> ts]))
              /\ newestSent' = IF ts > newestSent THEN ts ELSE newestSent
        BY <2>1 DEF DeliverFrame
      <3>2. ts \in Nat /\ [n |-> sent + 1, ts |-> ts] \in Frame
        <4>1. sent \in Nat /\ MaxTime \in Nat
          BY <1>0, PipelineAssumption DEF TypeOK
        <4>2. ts \in Nat /\ sent + 1 \in Nat
          BY <4>1
        <4> QED
          BY <4>2 DEF Frame
      <3>3. /\ FrameTask([n |-> sent + 1, ts |-> ts]).frame.ts = ts
            /\ IsFrame(FrameTask([n |-> sent + 1, ts |-> ts]))
            /\ FrameTask([n |-> sent + 1, ts |-> ts]) \in Task
        BY <3>2, NewTasks, ArrivalFields DEF FrameTask, IsFrame
      <3> QED
        BY <3>1, <3>2, <3>3
    <2>2. CASE DeliverEof
      <3>1. ~IsFrame(EofTask) /\ EofTask \in Task
        BY NewTasks, ArrivalFields DEF EofTask, IsFrame
      <3> QED
        BY <2>2, <3>1 DEF DeliverEof
    <2> QED
      BY <2>1, <2>2
  <1>2. /\ UNCHANGED <<running, queue, newest, wait, fired, tasks, current, delivered, stopper>>
        /\ sending = <<>>
        /\ sending' = <<t>> \/ sending' = <<>>
    BY <1>1 DEF Deliver, strandVars, callerVars
  <1>3. newestSent' >= newestSent /\ newestSent' \in Nat /\ newestSent \in Nat /\ newest \in Nat
    <2>1. newestSent' \in Nat /\ newestSent \in Nat /\ newest \in Nat
      BY <1>0 DEF TypeOK
    <2> QED
      BY <1>1, <2>1
  <1>4. TaskKinds'
    BY <1>0, <1>2 DEF TaskKinds
  <1>5. OrderInv'
    BY <1>0, <1>2, OrderKept
  <1>6. newest' <= newestSent'
    BY <1>0, <1>2, <1>3 DEF LateInv
  <1>7. \A x \in Nat : x <= newestSent => x <= newestSent' /\ newestSent - Jitter >= x - Jitter
    BY <1>3, PipelineAssumption
  <1>8. /\ \A i \in 1..Len(tasks) : IsFrame(tasks[i]) => tasks[i].frame.ts \in Nat
        /\ \A i \in 1..Len(current) : IsFrame(current[i]) => current[i].frame.ts \in Nat
    <2>1. tasks \in Seq(Task) /\ current \in Seq(Arrival)
      BY <1>0 DEF TypeOK
    <2> QED
      BY <2>1, TaskFields, ArrivalFields DEF Frame, IsFrame
  <1>9. PostedLate'
    BY <1>0, <1>2, <1>7, <1>8 DEF LateInv, PostedLate
  <1>10. CurrentLate'
    BY <1>0, <1>2, <1>7, <1>8 DEF LateInv, CurrentLate
  <1>11. SendingLate'
    <2>1. CASE sending' = <<>>
      BY <2>1, SingletonProperties DEF SendingLate
    <2>2. CASE sending' = <<t>> /\ ~IsFrame(t)
      BY <1>1, <2>2, SingletonProperties DEF SendingLate
    <2>3. CASE sending' = <<t>> /\ IsFrame(t)
      <3>1. /\ t.frame.ts \in Nat
            /\ t.frame.ts >= newestSent - Jitter
            /\ t.frame.ts <= newestSent'
        BY <1>1, <1>3, <2>3
      <3>2. \A x \in Nat : x <= newestSent => t.frame.ts >= x - Jitter
        BY <1>3, <3>1, PipelineAssumption
      <3>3. t.frame.ts >= newest' - Jitter
        BY <1>0, <1>2, <1>3, <3>2 DEF LateInv
      <3>4. \A i \in 1..Len(tasks') : IsFrame(tasks'[i]) =>
              t.frame.ts >= tasks'[i].frame.ts - Jitter
        BY <1>0, <1>2, <1>8, <3>2 DEF LateInv, PostedLate
      <3>5. \A i \in 1..Len(current') : IsFrame(current'[i]) =>
              t.frame.ts >= current'[i].frame.ts - Jitter
        BY <1>0, <1>2, <1>8, <3>2 DEF LateInv, CurrentLate
      <3>6. Len(sending') = 1 /\ \A k \in 1..Len(sending') : sending'[k] = t
        BY <1>1, <2>3, SingletonProperties
      <3> QED
        BY <3>1, <3>3, <3>4, <3>5, <3>6 DEF SendingLate
    <2> QED
      BY <1>2, <2>1, <2>2, <2>3
  <1> QED
    BY <1>4, <1>5, <1>6, <1>9, <1>10, <1>11 DEF LateInv

\* The post to the strand: the frame goes behind all that were posted.
LEMMA PostSorts ==
  ASSUME SortSetting, SortInv, TypeOK', PostArrival
  PROVE  TaskKinds' /\ LateInv' /\ OrderInv'
  <1>0. TypeOK /\ TaskKinds /\ LateInv /\ OrderInv
    BY SortParts
  <1>1. /\ UNCHANGED <<running, queue, newest, wait, fired, current, newestSent,
                       delivered, stopper>>
        /\ sending # <<>> /\ sending' = <<>>
        /\ tasks' = Append(tasks, Head(sending))
    BY DEF PostArrival, strandVars, callerVars, sourceVars
  <1>2. PICK t \in Arrival : t = sending[1] /\ tasks' = Append(tasks, t) /\ 1 \in 1..Len(sending)
    <2>1. sending \in Seq(Arrival)
      BY <1>0 DEF TypeOK
    <2> QED
      BY <1>1, <2>1, TailProperties
  <1>3. /\ Len(tasks) \in Nat
        /\ Len(tasks') = Len(tasks) + 1
        /\ \A i \in 1..Len(tasks) : tasks'[i] = tasks[i]
        /\ tasks'[Len(tasks) + 1] = t
    <2>1. t \in Task /\ tasks \in Seq(Task)
      BY <1>0, ArrivalFields DEF TypeOK
    <2> QED
      BY <1>2, <2>1, AppendProperties
  <1>4. \A i \in 1..Len(tasks') : i \in 1..Len(tasks) \/ i = Len(tasks) + 1
    BY <1>3
  <1>5. \A i \in 1..Len(tasks) : i \in 1..Len(tasks')
    BY <1>3
  <1>6. TaskKinds'
    <2>1. t.op \in {"frame", "eof"}
      BY ArrivalFields
    <2>2. stopper' # "idle" => ~running'
      BY <1>0, <1>1, Zenon DEF TaskKinds
    <2>3. \A i \in 1..Len(tasks') : \/ \E j \in 1..Len(tasks) : tasks'[i] = tasks[j]
                                    \/ tasks'[i].op \in {"frame", "eof", "flush"}
      BY <1>3, <1>4, <2>1
    <2> QED
      BY <1>0, <1>1, <2>2, <2>3, KindsKept
  <1>7. OrderInv'
    <2>1. \A i \in 1..Len(tasks) : tasks[i] = FlushTask =>
            \E j \in 1..Len(tasks') : tasks'[j] = FlushTask
      BY <1>3, <1>5
    <2> QED
      BY <1>0, <1>1, <2>1, OrderKept
  <1>8. IsFrame(t) => /\ t.frame.ts >= newest - Jitter
                      /\ t.frame.ts <= newestSent
                      /\ \A i \in 1..Len(tasks) : IsFrame(tasks[i]) =>
                           t.frame.ts >= tasks[i].frame.ts - Jitter
                      /\ \A i \in 1..Len(current) : IsFrame(current[i]) =>
                           t.frame.ts >= current[i].frame.ts - Jitter
    BY <1>0, <1>2 DEF LateInv, SendingLate
  <1>9. PostedLate'
    <2>1. ASSUME NEW i \in 1..Len(tasks'), IsFrame(tasks'[i])
          PROVE  tasks'[i].frame.ts >= newest' - Jitter /\ tasks'[i].frame.ts <= newestSent'
      <3>1. CASE i \in 1..Len(tasks)
        BY <1>0, <1>1, <1>3, <2>1, <3>1 DEF LateInv, PostedLate
      <3>2. CASE i = Len(tasks) + 1
        BY <1>1, <1>3, <1>8, <2>1, <3>2
      <3> QED
        BY <1>4, <3>1, <3>2
    <2>2. ASSUME NEW i \in 1..Len(tasks'), NEW j \in 1..Len(tasks'), i < j,
                 IsFrame(tasks'[i]), IsFrame(tasks'[j])
          PROVE  tasks'[j].frame.ts >= tasks'[i].frame.ts - Jitter
      <3>1. i \in 1..Len(tasks)
        BY <1>3, <2>2
      <3>2. CASE j \in 1..Len(tasks)
        BY <1>0, <1>3, <2>2, <3>1, <3>2 DEF LateInv, PostedLate
      <3>3. CASE j = Len(tasks) + 1
        BY <1>3, <1>8, <2>2, <3>1, <3>3
      <3> QED
        BY <1>4, <3>2, <3>3
    <2> QED
      BY <2>1, <2>2 DEF PostedLate
  <1>10. CurrentLate'
    <2>1. ASSUME NEW k \in 1..Len(current), IsFrame(current[k]),
                 NEW i \in 1..Len(tasks'), IsFrame(tasks'[i])
          PROVE  tasks'[i].frame.ts >= current[k].frame.ts - Jitter
      <3>1. CASE i \in 1..Len(tasks)
        BY <1>0, <1>3, <2>1, <3>1 DEF LateInv, CurrentLate
      <3>2. CASE i = Len(tasks) + 1
        BY <1>3, <1>8, <2>1, <3>2
      <3> QED
        BY <1>4, <3>1, <3>2
    <2> QED
      BY <1>0, <1>1, <2>1 DEF LateInv, CurrentLate
  <1>11. SendingLate'
    BY <1>1, SingletonProperties DEF SendingLate
  <1> QED
    BY <1>0, <1>1, <1>6, <1>7, <1>9, <1>10, <1>11 DEF LateInv

\* What the strand has still to run when the first handler is taken away.
LEMMA TailKept ==
  ASSUME TypeOK, NEW op, RunTask(op)
  PROVE  /\ Head(tasks) = tasks[1] /\ tasks[1].op = op /\ 1 \in 1..Len(tasks)
         /\ Len(tasks) \in Nat
         /\ Tail(tasks) \in Seq(Task)
         /\ Len(Tail(tasks)) = Len(tasks) - 1
         /\ \A i \in 1..Len(Tail(tasks)) :
              i + 1 \in 1..Len(tasks) /\ Tail(tasks)[i] = tasks[i + 1]
         /\ \A i \in 1..Len(tasks) :
              i = 1 \/ (i - 1 \in 1..Len(Tail(tasks)) /\ Tail(tasks)[i - 1] = tasks[i])
  <1>1. tasks \in Seq(Task) /\ tasks # <<>> /\ Head(tasks).op = op
    BY DEF RunTask, TypeOK
  <1>2. /\ Tail(tasks) \in Seq(Task)
        /\ Len(Tail(tasks)) = Len(tasks) - 1
        /\ Len(tasks) \in Nat \ {0}
        /\ Head(tasks) = tasks[1]
        /\ \A i \in 1..(Len(tasks) - 1) : Tail(tasks)[i] = tasks[i + 1]
    BY <1>1, TailProperties
  <1>3. ASSUME NEW i \in 1..Len(tasks), i # 1
        PROVE  i - 1 \in 1..(Len(tasks) - 1) /\ (i - 1) + 1 = i
    BY <1>2, <1>3
  <1>4. ASSUME NEW i \in 1..(Len(tasks) - 1)
        PROVE  i + 1 \in 1..Len(tasks)
    BY <1>2
  <1> QED
    BY <1>1, <1>2, <1>3, <1>4

\* The check of m_running on the strand.
LEMMA TakeSorts ==
  ASSUME SortSetting, SortInv, TypeOK', TakeArrival
  PROVE  TaskKinds' /\ LateInv' /\ OrderInv'
  <1>0. TypeOK /\ TaskKinds /\ LateInv /\ OrderInv
    BY SortParts
  <1>1. PICK op \in {"frame", "eof"} : RunTask(op)
    BY DEF TakeArrival
  <1>2. /\ UNCHANGED <<running, queue, newest, wait, fired, sending, newestSent,
                       delivered, stopper>>
        /\ current = <<>>
        /\ tasks' = Tail(tasks)
        /\ current' = IF running THEN <<tasks[1]>> ELSE <<>>
    BY <1>0, <1>1, TailKept DEF TakeArrival, RunTask, strandVars, callerVars, sourceVars
  <1>3. /\ tasks[1].op = op /\ 1 \in 1..Len(tasks) /\ Len(tasks) \in Nat
        /\ \A i \in 1..Len(tasks') : i + 1 \in 1..Len(tasks) /\ tasks'[i] = tasks[i + 1]
        /\ \A i \in 1..Len(tasks) :
             i = 1 \/ (i - 1 \in 1..Len(tasks') /\ tasks'[i - 1] = tasks[i])
    BY <1>0, <1>1, <1>2, TailKept
  <1>4. TaskKinds'
    <2>1. stopper' # "idle" => ~running'
      BY <1>0, <1>2, Zenon DEF TaskKinds
    <2>2. \A i \in 1..Len(tasks') : \E j \in 1..Len(tasks) : tasks'[i] = tasks[j]
      BY <1>3
    <2> QED
      BY <1>0, <1>2, <2>1, <2>2, KindsKept
  <1>5. OrderInv'
    <2>1. current' # <<>> => running
      BY <1>2
    <2>2. tasks[1] # FlushTask
      BY <1>3 DEF FlushTask
    <2>3. \A i \in 1..Len(tasks) : tasks[i] = FlushTask =>
            \E j \in 1..Len(tasks') : tasks'[j] = FlushTask
      BY <1>3, <2>2
    <2> QED
      BY <1>0, <1>2, <2>1, <2>3, OrderKept
  <1>6. PostedLate'
    <2>1. \A i \in 1..Len(tasks'), j \in 1..Len(tasks') : i < j => i + 1 < j + 1
      OBVIOUS
    <2> QED
      BY <1>0, <1>2, <1>3, <2>1 DEF LateInv, PostedLate
  <1>7. CurrentLate'
    <2>1. CASE current' = <<>>
      BY <2>1, SingletonProperties DEF CurrentLate
    <2>2. CASE current' = <<tasks[1]>>
      <3>1. Len(current') = 1 /\ \A k \in 1..Len(current') : current'[k] = tasks[1]
        BY <2>2
      <3>2. IsFrame(tasks[1]) => /\ tasks[1].frame.ts >= newest' - Jitter
                                 /\ tasks[1].frame.ts <= newestSent'
        BY <1>0, <1>2, <1>3 DEF LateInv, PostedLate
      <3>3. ASSUME IsFrame(tasks[1]), NEW i \in 1..Len(tasks'), IsFrame(tasks'[i])
            PROVE  tasks'[i].frame.ts >= tasks[1].frame.ts - Jitter
        <4>1. i + 1 \in 1..Len(tasks) /\ tasks'[i] = tasks[i + 1] /\ 1 < i + 1
          BY <1>3
        <4> QED
          BY <1>0, <1>3, <3>3, <4>1 DEF LateInv, PostedLate
      <3> QED
        BY <3>1, <3>2, <3>3 DEF CurrentLate
    <2> QED
      BY <1>2, <2>1, <2>2
  <1>8. SendingLate'
    <2>1. ASSUME NEW k \in 1..Len(sending), IsFrame(sending[k]),
                 NEW i \in 1..Len(current'), IsFrame(current'[i])
          PROVE  sending[k].frame.ts >= current'[i].frame.ts - Jitter
      <3>1. current'[i] = tasks[1]
        BY <1>2, <2>1, SingletonProperties
      <3> QED
        BY <1>0, <1>3, <2>1, <3>1 DEF LateInv, SendingLate
    <2> QED
      BY <1>0, <1>2, <1>3, <2>1 DEF LateInv, SendingLate
  <1> QED
    BY <1>0, <1>2, <1>4, <1>5, <1>6, <1>7, <1>8 DEF LateInv

\* The frame or the marker in hand.
LEMMA HandleFacts ==
  ASSUME TypeOK, NEW op, Handle(op)
  PROVE  /\ current' = <<>> /\ current # <<>>
         /\ 1 \in 1..Len(current) /\ Head(current) = current[1]
         /\ current[1] \in Arrival /\ current[1].op = op
  <1>1. current \in Seq(Arrival) /\ current # <<>>
    BY DEF TypeOK, Handle
  <1>2. Len(current) \in Nat \ {0} /\ Head(current) = current[1] /\ Head(current) \in Arrival
    BY <1>1, TailProperties
  <1> QED
    BY <1>1, <1>2 DEF Handle

\* A frame joins the buffer: it is not older than anything delivered.
LEMMA BufferSorts ==
  ASSUME SortSetting, SortInv, TypeOK', HandleBuffered
  PROVE  TaskKinds' /\ LateInv' /\ OrderInv'
  <1>0. TypeOK /\ TaskKinds /\ LateInv /\ OrderInv
    BY SortParts
  <1>1. PICK f : /\ f = Head(current).frame
                 /\ newest' = Raised(f)
                 /\ FlushOneFrame(queue \cup {f}, newest', tasks)
    BY DEF HandleBuffered
  <1>2. /\ UNCHANGED <<running, wait, fired, sending, newestSent, stopper>>
        /\ current' = <<>> /\ current # <<>> /\ 1 \in 1..Len(current)
        /\ f = current[1].frame /\ IsFrame(current[1])
        /\ f \in Frame
    <2>1. Handle("frame")
      BY DEF HandleBuffered
    <2>2. current[1] \in Arrival /\ current[1].op = "frame" /\ Head(current) = current[1]
      BY <1>0, <2>1, HandleFacts
    <2> QED
      BY <1>0, <1>1, <2>1, <2>2, HandleFacts, ArrivalFields
      DEF HandleBuffered, IsFrame, callerVars, sourceVars
  <1>3. /\ f.ts \in Nat /\ newest \in Nat /\ newest' \in Nat /\ newestSent \in Nat
        /\ Jitter \in Nat /\ BufferDuration \in Nat /\ Jitter <= BufferDuration
        /\ f.ts >= newest - Jitter
        /\ f.ts <= newestSent
        /\ newest <= newestSent
    <2>1. f.ts \in Nat
      BY <1>2 DEF Frame
    <2>2. f.ts >= newest - Jitter /\ f.ts <= newestSent /\ newest <= newestSent
      BY <1>0, <1>2 DEF LateInv, CurrentLate
    <2> QED
      BY <1>0, <2>1, <2>2, PipelineAssumption DEF TypeOK, SortSetting
  <1>4. newest' = f.ts \/ newest' = newest
    BY <1>1 DEF Raised
  <1>5. newest' >= newest /\ newest' >= f.ts /\ newest' <= newestSent
    BY <1>1, <1>3 DEF Raised
  <1>6. /\ delivered \in Seq(Frame) /\ tasks \in Seq(Task)
        /\ queue \cup {f} \subseteq Frame
        /\ Len(delivered) \in Nat
        /\ \A i \in 1..Len(delivered) : delivered[i].ts \in Nat
    <2>1. delivered \in Seq(Frame) /\ tasks \in Seq(Task) /\ queue \subseteq Frame
      BY <1>0 DEF TypeOK
    <2>2. \A g \in Frame : g.ts \in Nat
      BY DEF Frame
    <2> QED
      BY <1>2, <2>1, <2>2
  <1>7. \A i \in 1..Len(delivered) : delivered[i].ts <= newest - BufferDuration
    BY <1>0, <1>2 DEF OrderInv, DeliveredFirst
  <1>8. InOrder(delivered)
    BY <1>0 DEF OrderInv, Sorted, SortSetting, InOrder
  <1>9. Before(delivered, queue \cup {f})
    <2>1. ASSUME NEW i \in 1..Len(delivered)
          PROVE  delivered[i].ts <= f.ts
      <3>1. delivered[i].ts \in Nat /\ delivered[i].ts <= newest - BufferDuration
        BY <1>6, <1>7
      <3> QED
        BY <1>3, <3>1
    <2>2. ASSUME NEW i \in 1..Len(delivered), NEW g \in queue
          PROVE  delivered[i].ts <= g.ts
      BY <1>0 DEF OrderInv, DeliveredFirst
    <2> QED
      BY <2>1, <2>2 DEF Before
  <1>10. \A i \in 1..Len(delivered) : delivered[i].ts <= newest' - BufferDuration
    BY <1>3, <1>5, <1>6, <1>7
  <1>11. /\ InOrder(delivered')
         /\ Before(delivered', queue')
         /\ \A i \in 1..Len(delivered') : delivered'[i].ts <= newest' - BufferDuration
         /\ (MoreThanOne(queue') /\ Mature(queue', newest'))
              => \E i \in 1..Len(tasks') : tasks'[i] = FlushTask
         /\ \A i \in 1..Len(tasks') :
              tasks'[i] = FlushTask \/ (i \in 1..Len(tasks) /\ tasks'[i] = tasks[i])
    <2>1. newest' \in Nat /\ FlushOneFrame(queue \cup {f}, newest', tasks)
      BY <1>1, <1>3
    <2>2. delivered \in Seq(Frame) /\ tasks \in Seq(Task) /\ queue \cup {f} \subseteq Frame
      BY <1>6
    <2> QED
      BY <1>8, <1>9, <1>10, <2>1, <2>2, FlushKeepsOrder
  <1>12. OrderInv'
    BY <1>11 DEF OrderInv, DeliveredFirst, Sorted, MatureFrameHasFlush, InOrder, Before
  <1>13. FlushTask.op = "flush" /\ ~IsFrame(FlushTask)
    BY DEF FlushTask, IsFrame
  <1>14. TaskKinds'
    <2>1. stopper' # "idle" => ~running'
      BY <1>0, <1>2, Zenon DEF TaskKinds
    <2>2. \A i \in 1..Len(tasks') : \/ \E j \in 1..Len(tasks) : tasks'[i] = tasks[j]
                                    \/ tasks'[i].op \in {"frame", "eof", "flush"}
      BY <1>11, <1>13
    <2> QED
      BY <1>0, <1>2, <2>1, <2>2, KindsKept
  <1>15. ASSUME NEW i \in 1..Len(tasks'), IsFrame(tasks'[i])
         PROVE  i \in 1..Len(tasks) /\ tasks'[i] = tasks[i] /\ IsFrame(tasks[i])
    BY <1>11, <1>13, <1>15
  <1>16. PostedLate'
    <2>1. ASSUME NEW i \in 1..Len(tasks'), IsFrame(tasks'[i])
          PROVE  tasks'[i].frame.ts >= newest' - Jitter /\ tasks'[i].frame.ts <= newestSent'
      <3>1. /\ tasks'[i].frame.ts >= newest - Jitter
            /\ tasks'[i].frame.ts <= newestSent
            /\ tasks'[i].frame.ts >= f.ts - Jitter
        BY <1>0, <1>2, <1>15, <2>1 DEF LateInv, PostedLate, CurrentLate
      <3> QED
        BY <1>2, <1>4, <3>1
    <2>2. ASSUME NEW i \in 1..Len(tasks'), NEW j \in 1..Len(tasks'), i < j,
                 IsFrame(tasks'[i]), IsFrame(tasks'[j])
          PROVE  tasks'[j].frame.ts >= tasks'[i].frame.ts - Jitter
      BY <1>0, <1>15, <2>2 DEF LateInv, PostedLate
    <2> QED
      BY <2>1, <2>2 DEF PostedLate
  <1>17. CurrentLate'
    BY <1>2, SingletonProperties DEF CurrentLate
  <1>18. SendingLate'
    <2>1. ASSUME NEW k \in 1..Len(sending), IsFrame(sending[k])
          PROVE  /\ sending[k].frame.ts >= newest' - Jitter
                 /\ sending[k].frame.ts <= newestSent'
      <3>1. /\ sending[k].frame.ts >= newest - Jitter
            /\ sending[k].frame.ts <= newestSent
            /\ sending[k].frame.ts >= f.ts - Jitter
        BY <1>0, <1>2, <2>1 DEF LateInv, SendingLate
      <3> QED
        BY <1>2, <1>4, <3>1
    <2>2. ASSUME NEW k \in 1..Len(sending), IsFrame(sending[k]),
                 NEW i \in 1..Len(tasks'), IsFrame(tasks'[i])
          PROVE  sending[k].frame.ts >= tasks'[i].frame.ts - Jitter
      BY <1>0, <1>15, <2>2 DEF LateInv, SendingLate
    <2>3. Len(sending) <= 1 /\ Len(current') = 0
      BY <1>0, <1>2, SingletonProperties DEF LateInv, SendingLate
    <2> QED
      BY <1>2, <2>1, <2>2, <2>3 DEF SendingLate
  <1> QED
    BY <1>2, <1>5, <1>12, <1>14, <1>16, <1>17, <1>18 DEF LateInv

\* The end of the stream: the drain takes over from a pipeline that has ended.
LEMMA EofSorts ==
  ASSUME SortSetting, SortInv, TypeOK', HandleEof
  PROVE  TaskKinds' /\ LateInv' /\ OrderInv'
  <1>0. TypeOK /\ TaskKinds /\ LateInv /\ OrderInv
    BY SortParts
  <1>1. /\ UNCHANGED <<newest, sending, newestSent, stopper>>
        /\ ~running' /\ wait' = {} /\ wait = {} /\ fired = <<>> /\ fired' = fired
        /\ current' = <<>>
        /\ DrainEofQueue(tasks)
    BY <1>0 DEF HandleEof, Handle, CancelWait, TaskKinds, callerVars, sourceVars
  <1>2. InOrder(delivered) /\ Before(delivered, queue)
    BY <1>0 DEF OrderInv, Sorted, DeliveredFirst, SortSetting, InOrder, Before
  <1>3. QueuesOK /\ tasks \in Seq(Task)
    BY <1>0, TypeParts DEF TypeOK
  <1>4. /\ InOrder(delivered')
        /\ Before(delivered', queue')
        /\ \A i \in 1..Len(tasks') :
             tasks'[i] = DrainTask \/ (i \in 1..Len(tasks) /\ tasks'[i] = tasks[i])
    BY <1>1, <1>2, <1>3, DrainKeepsOrder
  <1>5. OrderInv'
    BY <1>1, <1>4 DEF OrderInv, DeliveredFirst, Sorted, MatureFrameHasFlush, InOrder, Before
  <1>6. DrainTask.op = "drain" /\ ~IsFrame(DrainTask)
    BY DEF DrainTask, IsFrame
  <1>7. TaskKinds'
    <2>1. running' => running
      BY <1>1, Zenon
    <2>2. \A i \in 1..Len(tasks') : \/ \E j \in 1..Len(tasks) : tasks'[i] = tasks[j]
                                    \/ tasks'[i].op = "drain" /\ ~running'
      BY <1>1, <1>4, <1>6
    <2> QED
      BY <1>0, <1>1, <2>1, <2>2, KindsKept
  <1>8. FramesKept(0)
    <2>1. ASSUME NEW i \in 1..Len(tasks'), IsFrame(tasks'[i])
          PROVE  i + 0 \in 1..Len(tasks) /\ tasks'[i] = tasks[i + 0]
      <3>1. i \in 1..Len(tasks) /\ tasks'[i] = tasks[i]
        BY <1>4, <1>6, <2>1
      <3>2. i + 0 = i
        OBVIOUS
      <3> QED
        BY <3>1, <3>2
    <2> QED
      BY <2>1 DEF FramesKept
  <1>9. newest' <= newest
    <2>1. newest \in Nat /\ newest' = newest
      BY <1>0, <1>1 DEF TypeOK
    <2> QED
      BY <2>1
  <1> QED
    BY <1>0, <1>1, <1>5, <1>7, <1>8, <1>9, LateKept

\* The handlers left behind the first one, and one more that is no frame.
LEMMA FramesKeptBehind ==
  ASSUME TypeOK, NEW op, RunTask(op), NEW t, ~IsFrame(t),
         \A i \in 1..Len(tasks') : \/ tasks'[i] = t
                                   \/ i \in 1..Len(Tail(tasks)) /\ tasks'[i] = Tail(tasks)[i]
  PROVE  /\ FramesKept(1)
         /\ \A i \in 1..Len(tasks') : tasks'[i] = t \/ \E j \in 1..Len(tasks) : tasks'[i] = tasks[j]
  <1>1. ASSUME NEW i \in 1..Len(tasks'), tasks'[i] # t
        PROVE  i + 1 \in 1..Len(tasks) /\ tasks'[i] = tasks[i + 1]
    BY <1>1, TailKept
  <1>2. FramesKept(1)
    BY <1>1 DEF FramesKept
  <1> QED
    BY <1>1, <1>2

LEMMA DrainSorts ==
  ASSUME SortSetting, SortInv, TypeOK', Drain
  PROVE  TaskKinds' /\ LateInv' /\ OrderInv'
  <1>0. TypeOK /\ TaskKinds /\ LateInv /\ OrderInv
    BY SortParts
  <1>1. /\ UNCHANGED <<running, newest, wait, fired, current, sending, newestSent, stopper>>
        /\ RunTask("drain") /\ current = <<>>
        /\ DrainEofQueue(Tail(tasks))
    BY DEF Drain, RunTask, callerVars, sourceVars
  <1>2. ~running /\ Tail(tasks) \in Seq(Task)
    BY <1>0, <1>1, TailKept DEF TaskKinds
  <1>3. InOrder(delivered) /\ Before(delivered, queue)
    BY <1>0 DEF OrderInv, Sorted, DeliveredFirst, SortSetting, InOrder, Before
  <1>4. QueuesOK
    BY <1>0, TypeParts
  <1>5. /\ InOrder(delivered')
        /\ Before(delivered', queue')
        /\ \A i \in 1..Len(tasks') :
             \/ tasks'[i] = DrainTask
             \/ i \in 1..Len(Tail(tasks)) /\ tasks'[i] = Tail(tasks)[i]
    BY <1>1, <1>2, <1>3, <1>4, DrainKeepsOrder
  <1>6. ~running' /\ current' = <<>>
    BY <1>1, <1>2, Zenon
  <1>7. OrderInv'
    BY <1>5, <1>6 DEF OrderInv, DeliveredFirst, Sorted, MatureFrameHasFlush, InOrder, Before
  <1>8. DrainTask.op = "drain" /\ ~IsFrame(DrainTask)
    BY DEF DrainTask, IsFrame
  <1>9. /\ FramesKept(1)
        /\ \A i \in 1..Len(tasks') :
             tasks'[i] = DrainTask \/ \E j \in 1..Len(tasks) : tasks'[i] = tasks[j]
    BY <1>0, <1>1, <1>5, <1>8, FramesKeptBehind
  <1>10. TaskKinds'
    <2>1. \A i \in 1..Len(tasks') : \/ \E j \in 1..Len(tasks) : tasks'[i] = tasks[j]
                                    \/ tasks'[i].op = "drain" /\ ~running'
      BY <1>6, <1>8, <1>9
    <2>2. running' => running
      BY <1>6, Zenon
    <2> QED
      BY <1>0, <1>1, <1>6, <2>1, <2>2, KindsKept
  <1>11. newest' <= newest
    <2>1. newest \in Nat /\ newest' = newest
      BY <1>0, <1>1 DEF TypeOK
    <2> QED
      BY <2>1
  <1> QED
    BY <1>0, <1>1, <1>7, <1>9, <1>10, <1>11, LateKept

LEMMA FlushSorts ==
  ASSUME SortSetting, SortInv, TypeOK', Flush
  PROVE  TaskKinds' /\ LateInv' /\ OrderInv'
  <1>0. TypeOK /\ TaskKinds /\ LateInv /\ OrderInv
    BY SortParts
  <1>1. /\ UNCHANGED <<running, newest, wait, fired, current, sending, newestSent, stopper>>
        /\ RunTask("flush") /\ current = <<>>
        /\ \/ running /\ FlushOneFrame(queue, newest, Tail(tasks))
           \/ ~running /\ tasks' = Tail(tasks) /\ UNCHANGED <<queue, delivered>>
    BY DEF Flush, RunTask, callerVars, sourceVars
  <1>2. /\ Tail(tasks) \in Seq(Task) /\ delivered \in Seq(Frame) /\ queue \subseteq Frame
        /\ newest \in Nat
    BY <1>0, <1>1, TailKept DEF TypeOK
  <1>3. InOrder(delivered) /\ Before(delivered, queue)
    BY <1>0 DEF OrderInv, Sorted, DeliveredFirst, SortSetting, InOrder, Before
  <1>4. FlushTask.op = "flush" /\ ~IsFrame(FlushTask)
    BY DEF FlushTask, IsFrame
  <1>5. /\ OrderInv'
        /\ \A i \in 1..Len(tasks') :
             \/ tasks'[i] = FlushTask
             \/ i \in 1..Len(Tail(tasks)) /\ tasks'[i] = Tail(tasks)[i]
    <2>1. CASE running /\ FlushOneFrame(queue, newest, Tail(tasks))
      <3>1. \A i \in 1..Len(delivered) : delivered[i].ts <= newest - BufferDuration
        BY <1>0, <2>1 DEF OrderInv, DeliveredFirst
      <3>2. FlushOneFrame(queue, newest, Tail(tasks))
        BY <2>1
      <3>3. /\ InOrder(delivered')
            /\ Before(delivered', queue')
            /\ \A i \in 1..Len(delivered') : delivered'[i].ts <= newest - BufferDuration
            /\ (MoreThanOne(queue') /\ Mature(queue', newest))
                 => \E i \in 1..Len(tasks') : tasks'[i] = FlushTask
            /\ \A i \in 1..Len(tasks') :
                 \/ tasks'[i] = FlushTask
                 \/ i \in 1..Len(Tail(tasks)) /\ tasks'[i] = Tail(tasks)[i]
        BY <1>2, <1>3, <3>1, <3>2, FlushKeepsOrder
      <3>4. newest' = newest
        BY <1>1
      <3> QED
        BY <3>3, <3>4
        DEF OrderInv, DeliveredFirst, Sorted, MatureFrameHasFlush, InOrder, Before
    <2>2. CASE ~running /\ tasks' = Tail(tasks) /\ UNCHANGED <<queue, delivered>>
      <3>1. ~running' /\ current' = <<>>
        BY <1>1, <2>2, Zenon
      <3>2. InOrder(delivered') /\ Before(delivered', queue')
        BY <1>3, <2>2
      <3> QED
        BY <2>2, <3>1, <3>2
        DEF OrderInv, DeliveredFirst, Sorted, MatureFrameHasFlush, InOrder, Before
    <2> QED
      BY <1>1, <2>1, <2>2
  <1>6. /\ FramesKept(1)
        /\ \A i \in 1..Len(tasks') :
             tasks'[i] = FlushTask \/ \E j \in 1..Len(tasks) : tasks'[i] = tasks[j]
    BY <1>0, <1>1, <1>4, <1>5, FramesKeptBehind
  <1>7. TaskKinds'
    <2>1. \A i \in 1..Len(tasks') : \/ \E j \in 1..Len(tasks) : tasks'[i] = tasks[j]
                                    \/ tasks'[i].op \in {"frame", "eof", "flush"}
      BY <1>4, <1>6
    <2>2. (running' => running) /\ (stopper' # "idle" => ~running')
      BY <1>0, <1>1, Zenon DEF TaskKinds
    <2> QED
      BY <1>0, <1>1, <2>1, <2>2, KindsKept
  <1>8. newest' <= newest
    BY <1>1, <1>2
  <1> QED
    BY <1>0, <1>1, <1>5, <1>6, <1>7, <1>8, LateKept

\* stop() empties the buffer before anything else.
LEMMA StopSorts ==
  ASSUME SortSetting, SortInv, TypeOK', Stop \/ StopOnStrand
  PROVE  TaskKinds' /\ LateInv' /\ OrderInv'
  <1>0. /\ TypeOK /\ TaskKinds /\ LateInv /\ OrderInv
        /\ newest \in Nat
    BY SortParts DEF TypeOK
  <1>1. CASE StopBegin
    <2>1. /\ UNCHANGED <<queue, newest, wait, fired, current, sending, newestSent, delivered>>
          /\ stopper' # "idle"
          /\ tasks' = Append(tasks, StopTask) \/ tasks' = tasks
      BY <1>1 DEF StopBegin, strandVars, sourceVars
    <2>2. ~running'
      BY <1>1, Zenon DEF StopBegin
    <2>3. StopTask.op = "stop" /\ ~IsFrame(StopTask) /\ StopTask \in Task
      BY NewTasks DEF StopTask, IsFrame
    <2>4. /\ \A i \in 1..Len(tasks) : i \in 1..Len(tasks') /\ tasks'[i] = tasks[i]
          /\ \A i \in 1..Len(tasks') :
               tasks'[i] = StopTask \/ (i \in 1..Len(tasks) /\ tasks'[i] = tasks[i])
      <3>1. CASE tasks' = tasks
        BY <3>1
      <3>2. CASE tasks' = Append(tasks, StopTask)
        <4>1. tasks \in Seq(Task)
          BY <1>0 DEF TypeOK
        <4>2. /\ Len(tasks) \in Nat
              /\ Len(tasks') = Len(tasks) + 1
              /\ \A i \in 1..Len(tasks) : tasks'[i] = tasks[i]
              /\ tasks'[Len(tasks) + 1] = StopTask
          BY <2>3, <3>2, <4>1, AppendProperties
        <4>3. \A i \in 1..Len(tasks') : i \in 1..Len(tasks) \/ i = Len(tasks) + 1
          BY <4>2
        <4>4. \A i \in 1..Len(tasks) : i \in 1..Len(tasks')
          BY <4>2
        <4> QED
          BY <4>2, <4>3, <4>4
      <3> QED
        BY <2>1, <3>1, <3>2
    <2>5. FramesKept(0)
      <3>1. ASSUME NEW i \in 1..Len(tasks'), IsFrame(tasks'[i])
            PROVE  i + 0 \in 1..Len(tasks) /\ tasks'[i] = tasks[i + 0]
        <4>1. i \in 1..Len(tasks) /\ tasks'[i] = tasks[i] /\ i + 0 = i
          BY <2>3, <2>4, <3>1
        <4> QED
          BY <4>1
      <3> QED
        BY <3>1 DEF FramesKept
    <2>6. TaskKinds'
      <3>1. running' => running
        BY <2>2, Zenon
      <3>2. \A i \in 1..Len(tasks') : \/ \E j \in 1..Len(tasks) : tasks'[i] = tasks[j]
                                      \/ tasks'[i].op = "stop" /\ stopper' # "idle"
        BY <2>1, <2>3, <2>4
      <3> QED
        BY <1>0, <2>1, <2>2, <3>1, <3>2, KindsKept
    <2>7. LateInv'
      <3>1. newest' <= newest
        BY <1>0, <2>1
      <3> QED
        BY <1>0, <2>1, <2>5, <3>1, LateKept
    <2>8. OrderInv'
      <3>1. running' => running
        BY <2>2, Zenon
      <3>2. \A i \in 1..Len(tasks) : tasks[i] = FlushTask =>
              \E j \in 1..Len(tasks') : tasks'[j] = FlushTask
        BY <2>4
      <3> QED
        BY <1>0, <2>1, <3>1, <3>2, OrderKept
    <2> QED
      BY <2>6, <2>7, <2>8
  <1>2. CASE StopOnStrand
    <2>1. /\ UNCHANGED <<running, current, sending, newestSent, delivered>>
          /\ RunTask("stop") /\ tasks' = Tail(tasks)
          /\ wait' = {} /\ wait = {} /\ fired' = fired /\ fired = <<>>
          /\ queue' = {} /\ newest' = 0 /\ stopper' # "idle" /\ current = <<>>
      BY <1>0, <1>2 DEF StopOnStrand, RunTask, CancelWait, ClearQueue, TaskKinds, sourceVars
    <2>2. stopper # "idle" /\ ~running
      <3>1. stopper # "idle"
        BY <1>0, <2>1, TailKept DEF TaskKinds
      <3> QED
        BY <1>0, <3>1 DEF TaskKinds
    <2>3. ~running' /\ (running' => running)
      BY <2>1, <2>2, Zenon
    <2>4. ~IsFrame(StopTask)
      BY DEF StopTask, IsFrame
    <2>5. \A i \in 1..Len(tasks') : i \in 1..Len(Tail(tasks)) /\ tasks'[i] = Tail(tasks)[i]
      BY <2>1
    <2>6. /\ FramesKept(1)
          /\ \A i \in 1..Len(tasks') : \E j \in 1..Len(tasks) : tasks'[i] = tasks[j]
      <3>1. \A i \in 1..Len(tasks') : i + 1 \in 1..Len(tasks) /\ tasks'[i] = tasks[i + 1]
        BY <1>0, <2>1, TailKept
      <3> QED
        BY <3>1 DEF FramesKept
    <2>7. TaskKinds'
      BY <1>0, <2>1, <2>3, <2>6, KindsKept
    <2>8. LateInv'
      <3>1. newest' <= newest
        BY <1>0, <2>1
      <3> QED
        BY <1>0, <2>1, <2>6, <3>1, LateKept
    <2>9. OrderInv'
      <3>1. InOrder(delivered') /\ Before(delivered', queue')
        BY <1>0, <2>1 DEF OrderInv, Sorted, SortSetting, InOrder, Before
      <3>2. current' = <<>>
        BY <2>1
      <3> QED
        BY <2>3, <3>1, <3>2
        DEF OrderInv, DeliveredFirst, Sorted, MatureFrameHasFlush, InOrder, Before
    <2> QED
      BY <2>7, <2>8, <2>9
  <1>3. CASE StopCloseSource \/ StopCloseSink
    <2>1. /\ UNCHANGED <<running, queue, newest, wait, fired, tasks, current, sending,
                         newestSent, delivered>>
          /\ stopper # "idle" /\ stopper' # "idle"
      BY <1>3 DEF StopCloseSource, StopCloseSink, SinkMayClose, strandVars, sourceVars
    <2>2. ~running
      BY <1>0, <2>1 DEF TaskKinds
    <2>3. (running' => running) /\ ~running'
      BY <2>1, <2>2, Zenon
    <2>4. TaskKinds'
      BY <1>0, <2>1, <2>3, KindsKept
    <2>5. LateInv'
      BY <1>0, <2>1 DEF LateInv, PostedLate, CurrentLate, SendingLate
    <2>6. OrderInv'
      BY <1>0, <2>1, <2>3, OrderKept
    <2> QED
      BY <2>4, <2>5, <2>6
  <1> QED
    BY <1>1, <1>2, <1>3 DEF Stop

\* Nothing of the other modes can happen.
LEMMA OnlyBuffered ==
  ASSUME SortSetting, SortInv
  PROVE  /\ ~(LiveFrame \/ LiveEof \/ HandlePlayback \/ Tick)
         /\ ~(Schedule \/ TimerHandler \/ TimerExpires \/ TimerPosts)
  <1>1. ~(LiveFrame \/ LiveEof \/ HandlePlayback \/ Tick)
    BY DEF SortSetting, LiveFrame, LiveEof, HandlePlayback, Tick
  <1>2. TypeOK /\ TaskKinds
    BY SortParts
  <1>3. ~(RunTask("schedule") \/ RunTask("timer"))
    BY <1>2, TailKept DEF TaskKinds
  <1>4. ~(TimerExpires \/ TimerPosts)
    BY <1>2 DEF TaskKinds, TimerExpires, TimerPosts
  <1> QED
    BY <1>1, <1>3, <1>4 DEF Schedule, TimerHandler

LEMMA SortNext == SortSetting /\ SortInv /\ [Next]_vars => SortInv'
  <1> SUFFICES ASSUME SortSetting, SortInv, [Next]_vars
               PROVE  SortInv'
    OBVIOUS
  <1>1. CASE UNCHANGED vars
    <2>1. UNCHANGED <<mode, running, queue, newest, base, pacing, wait, accepted, fired, tasks,
            current, source, sink, starter, stopper, starts, sending, sent, newestSent,
            ended, now, delivered, completions>>
      BY <1>1 DEF vars, strandVars, sourceVars, ioVars, callerVars
    <2>2. TypeOK'
      BY <1>1, SortParts, TypeNext
    <2>4. FreshStart'
      BY <2>1, SortParts, Zenon DEF FreshStart, Pristine
    <2>5. TaskKinds'
      BY <2>1, SortParts, Zenon DEF TaskKinds
    <2>6. LateInv'
      BY <2>1, SortParts DEF LateInv, PostedLate, CurrentLate, SendingLate
    <2>3. OrderInv'
      BY <2>1, SortParts, OrderKept
    <2> QED
      BY <2>2, <2>3, <2>4, <2>5, <2>6, SortParts
  <1>2. CASE Next
    <2>1. TypeOK' /\ FreshStart'
      BY <1>2, SortParts, TypeNext, FreshKept
    <2>2. TaskKinds' /\ LateInv' /\ OrderInv'
      BY <1>2, <2>1, StartSorts, DeliverSorts, PostSorts, TakeSorts, BufferSorts, EofSorts,
        DrainSorts, FlushSorts, StopSorts, OnlyBuffered
      DEF Next, Arrive, Strand, Timer
    <2> QED
      BY <2>1, <2>2, SortParts
  <1> QED
    BY <1>1, <1>2

LEMMA SortInit == SortSetting /\ Init => SortInv
  <1> SUFFICES ASSUME SortSetting, Init
               PROVE  SortInv
    OBVIOUS
  <1>1. TypeOK
    BY TypeInit
  <1>2. FreshStart
    BY DEF Init, FreshStart, Pristine
  <1>3. TaskKinds
    BY SingletonProperties DEF Init, TaskKinds
  <1>4. LateInv
    BY SingletonProperties DEF Init, LateInv, PostedLate, CurrentLate, SendingLate
  <1>5. OrderInv
    <2>1. delivered = <<>> /\ queue = {} /\ Len(delivered) = 0
      BY SingletonProperties DEF Init
    <2> QED
      BY <2>1 DEF OrderInv, DeliveredFirst, Sorted, MatureFrameHasFlush, MoreThanOne
  <1> QED
    BY <1>1, <1>2, <1>3, <1>4, <1>5, SortParts

LEMMA ModeFixed == [Next]_vars => mode' = mode
  <1>1. UNCHANGED vars => mode' = mode
    BY DEF vars
  <1>2. Start \/ Stop \/ StopOnStrand => mode' = mode
    BY DEF Start, StartOpenSource, StartOpenSink, StartSource, StartReturns,
           StartCloseSink, StartCloseSource, Stop, StopBegin, StopCloseSource,
           StopCloseSink, StopOnStrand
  <1>3. DeliverFrame \/ DeliverEof \/ Arrive => mode' = mode
    BY DEF DeliverFrame, DeliverEof, Deliver, Arrive, PostArrival, LiveFrame, LiveEof
  <1>4. TakeArrival \/ HandleBuffered \/ HandlePlayback \/ HandleEof => mode' = mode
    BY DEF TakeArrival, HandleBuffered, HandlePlayback, HandleEof
  <1>5. Drain \/ Flush \/ Schedule \/ TimerHandler \/ Timer \/ Tick => mode' = mode
    BY DEF Drain, Flush, Schedule, TimerHandler, Timer, TimerExpires, TimerPosts, Tick
  <1> QED
    BY <1>1, <1>2, <1>3, <1>4, <1>5 DEF Next, Strand

\* The inductive invariant holds of a buffered pipeline that is started once,
\* from a source no frame of which is later than the buffer tolerates.
THEOREM SortInvariant == ASSUME SourceInBound PROVE Spec => []BufferedSortInv
  <1>1. Init => BufferedSortInv
    BY SortInit DEF SourceInBound, SortSetting, BufferedSortInv
  <1>2. BufferedSortInv /\ [Next]_vars => BufferedSortInv'
    BY SortNext, ModeFixed DEF SourceInBound, SortSetting, BufferedSortInv
  <1> QED
    BY <1>1, <1>2, PTL DEF Spec

\* LiveBuffered sorts: the sink gets the frames in the order of their
\* timestamps, whatever the stream, the end of the stream and stop() do.
THEOREM SortedOutput == ASSUME SourceInBound PROVE Spec => []Sorted
  <1>1. BufferedSortInv => Sorted
    BY DEF BufferedSortInv, SortInv, Sorted
  <1> QED
    BY <1>1, SortInvariant, PTL

\* The flush chain never breaks off: a mature frame has a handler to come.
THEOREM NoMatureFrameLeft ==
  ASSUME SourceInBound PROVE Spec => []MatureFrameHasFlush
  <1>1. BufferedSortInv => MatureFrameHasFlush
    BY DEF BufferedSortInv, SortInv, MatureFrameHasFlush
  <1> QED
    BY <1>1, SortInvariant, PTL
-----------------------------------------------------------------------------
(***************************************************************************)
(* The end of the stream, for one start().  Its marker is in one place at  *)
(* a time: in the source's callback, posted to the strand, in a handler,   *)
(* turned into a posted drain, or turned into the completion.              *)
(***************************************************************************)
IsEnd(t) == t.op \in {"eof", "drain"}
EndIn(s)    == \E i \in 1..Len(s) : IsEnd(s[i])
OneEndIn(s) == \A i, j \in 1..Len(s) : IsEnd(s[i]) /\ IsEnd(s[j]) => i = j
KindIn(op, s) == \E i \in 1..Len(s) : s[i].op = op

\* Nothing has happened before the source is started.
Untouched ==
    starts = 0 \/ starter \in {"opening_sink", "starting_source"} =>
      /\ ~running /\ queue = {} /\ accepted = {} /\ wait = {} /\ fired = <<>>
      /\ tasks = <<>> /\ current = <<>> /\ sending = <<>> /\ completions = 0
      /\ source # "started"

OneStart ==
    /\ starts \in {0, 1}
    /\ starts = 0 => starter = "idle"
    /\ Untouched

OneEnd ==
    /\ Len(sending) <= 1 /\ Len(current) <= 1 /\ OneEndIn(tasks) /\ completions \in {0, 1}
    /\ EndIn(sending) => ~EndIn(tasks) /\ ~EndIn(current) /\ completions = 0
    /\ EndIn(tasks) => ~EndIn(current) /\ completions = 0
    /\ EndIn(current) => completions = 0
    /\ EndIn(sending) \/ EndIn(tasks) \/ EndIn(current) \/ completions > 0 => ended

\* Behind the end no frame is taken, and none is left when it is reported.
NothingBehind ==
    /\ KindIn("drain", tasks) \/ completions > 0 => ~running /\ current = <<>>
    /\ completions > 0 => queue = {}

\* In live mode the strand only runs stop().
LiveIdle ==
    mode = "live" =>
      /\ queue = {} /\ accepted = {} /\ wait = {} /\ fired = <<>> /\ current = <<>>
      /\ \A i \in 1..Len(tasks) : tasks[i].op = "stop"

Given(f) == \E i \in 1..Len(delivered) : delivered[i] = f

NoneLost ==
    /\ KindIn("stop", tasks) => stopper # "idle"
    /\ stopper = "idle" => \A f \in accepted : f \in queue \/ Given(f)

EofRest == OneStart /\ OneEnd /\ NothingBehind /\ LiveIdle /\ NoneLost

\* A handler taken from the front, and one put at the back.
LEMMA KindTail ==
  ASSUME NEW s \in Seq(Task), s # <<>>
  PROVE  /\ \A op : KindIn(op, Tail(s)) => KindIn(op, s)
         /\ EndIn(Tail(s)) => EndIn(s)
         /\ OneEndIn(s) => OneEndIn(Tail(s))
         /\ OneEndIn(s) /\ IsEnd(Head(s)) => ~EndIn(Tail(s))
         /\ IsEnd(Head(s)) => EndIn(s)
         /\ KindIn(Head(s).op, s)
<1>1. /\ Len(s) \in Nat \ {0}
      /\ Len(Tail(s)) = Len(s) - 1
      /\ Head(s) = s[1]
      /\ \A i \in 1..(Len(s) - 1) : Tail(s)[i] = s[i + 1]
  BY TailProperties
<1>2. /\ \A i \in 1..Len(Tail(s)) : i + 1 \in 1..Len(s) /\ Tail(s)[i] = s[i + 1] /\ i + 1 # 1
      /\ \A i, j \in 1..Len(Tail(s)) : i + 1 = j + 1 => i = j
      /\ 1 \in 1..Len(s)
  BY <1>1
<1> QED
  BY <1>1, <1>2 DEF KindIn, EndIn, OneEndIn

LEMMA KindAppend ==
  ASSUME NEW s \in Seq(Task), NEW t \in Task
  PROVE  /\ \A op : KindIn(op, Append(s, t)) => KindIn(op, s) \/ t.op = op
         /\ EndIn(Append(s, t)) => EndIn(s) \/ IsEnd(t)
         /\ OneEndIn(s) /\ ~(EndIn(s) /\ IsEnd(t)) => OneEndIn(Append(s, t))
<1>1. /\ Len(s) \in Nat
      /\ Len(Append(s, t)) = Len(s) + 1
      /\ \A i \in 1..Len(s) : Append(s, t)[i] = s[i]
      /\ Append(s, t)[Len(s) + 1] = t
  BY AppendProperties
<1>2. \A i \in 1..Len(Append(s, t)) : i \in 1..Len(s) \/ i = Len(s) + 1
  BY <1>1
<1> QED
  BY <1>1, <1>2 DEF KindIn, EndIn, OneEndIn

LEMMA KindNone ==
  /\ \A op : ~KindIn(op, <<>>)
  /\ ~EndIn(<<>>) /\ OneEndIn(<<>>) /\ Len(<<>>) = 0
  /\ \A t : Len(<<t>>) = 1 /\ (EndIn(<<t>>) <=> IsEnd(t))
  BY DEF KindIn, EndIn, OneEndIn

LEMMA KindsOfEnd ==
  ASSUME NEW s
  PROVE  EndIn(s) <=> KindIn("eof", s) \/ KindIn("drain", s)
  BY DEF EndIn, KindIn, IsEnd

\* t holds no end, drain or stop that s does not hold.
NoneNew(s, t) ==
    /\ \A op \in {"eof", "drain", "stop"} : KindIn(op, t) => KindIn(op, s)
    /\ EndIn(t) => EndIn(s)
    /\ OneEndIn(s) => OneEndIn(t)

LEMMA NoneNewTail ==
  ASSUME NEW s \in Seq(Task), s # <<>>
  PROVE  NoneNew(s, Tail(s))
  BY KindTail DEF NoneNew

LEMMA NoneNewAppend ==
  ASSUME NEW s \in Seq(Task), NEW t \in Task, t.op \notin {"eof", "drain", "stop"}
  PROVE  NoneNew(s, Append(s, t))
  BY KindAppend DEF NoneNew, IsEnd

LEMMA NoneNewTrans ==
  ASSUME NEW s, NEW t, NEW u, NoneNew(s, t), NoneNew(t, u)
  PROVE  NoneNew(s, u)
  BY DEF NoneNew

\* Frames delivered stay delivered.
GivenIn(f, s) == \E i \in 1..Len(s) : s[i] = f

LEMMA GivenAppend ==
  ASSUME NEW s \in Seq(Frame), NEW f \in Frame
  PROVE  /\ GivenIn(f, Append(s, f))
         /\ \A g : GivenIn(g, s) => GivenIn(g, Append(s, f))
<1>1. /\ Len(s) \in Nat
      /\ Len(Append(s, f)) = Len(s) + 1
      /\ \A i \in 1..Len(s) : Append(s, f)[i] = s[i]
      /\ Append(s, f)[Len(s) + 1] = f
  BY AppendProperties
<1>2. Len(s) + 1 \in 1..Len(Append(s, f)) /\ \A i \in 1..Len(s) : i \in 1..Len(Append(s, f))
  BY <1>1
<1> QED
  BY <1>1, <1>2 DEF GivenIn

\* A step from the queue q and the frames out, delivered so far, that loses
\* none of them and adds nothing to the queue.
Moves(q, out) ==
    /\ queue' \subseteq q
    /\ \A f \in q : f \in queue' \/ GivenIn(f, delivered')
    /\ \A f : GivenIn(f, out) => GivenIn(f, delivered')

LEMMA MoveTop ==
  ASSUME NEW q, q \subseteq Frame, NEW out \in Seq(Frame), NEW f \in Top(q),
         queue' = q \ {f}, delivered' = Append(out, f)
  PROVE  Moves(q, out)
<1>1. f \in Frame
  BY TopIsQueued
<1> QED
  BY <1>1, GivenAppend DEF Moves

LEMMA FlushMoves ==
  ASSUME NEW q, q \subseteq Frame, NEW nw, NEW rest \in Seq(Task),
         delivered \in Seq(Frame), FlushOneFrame(q, nw, rest)
  PROVE  Moves(q, delivered) /\ NoneNew(rest, tasks')
<1>1. NoneNew(rest, rest)
  BY DEF NoneNew
<1>2. NoneNew(rest, Append(rest, FlushTask))
  BY NoneNewAppend, NewTasks DEF FlushTask
<1>3. CASE MoreThanOne(q) /\ Mature(q, nw)
  <2>1. PICK f \in Top(q) : /\ queue' = q \ {f}
                            /\ delivered' = Append(delivered, f)
                            /\ tasks' = AfterFlush(q \ {f}, rest)
    BY <1>3 DEF FlushOneFrame
  <2> QED
    BY <2>1, <1>1, <1>2, MoveTop DEF AfterFlush
<1>4. CASE ~(MoreThanOne(q) /\ Mature(q, nw))
  BY <1>1, <1>4 DEF FlushOneFrame, Moves
<1> QED
  BY <1>3, <1>4

LEMMA ScheduleMoves ==
  ASSUME NEW q, q \subseteq Frame, NEW rest \in Seq(Task), NEW active,
         NEW out \in Seq(Frame), ScheduleNextFrame(q, rest, active, out)
  PROVE  Moves(q, out) /\ NoneNew(rest, tasks')
<1>1. NoneNew(rest, rest)
  BY DEF NoneNew
<1>2. NoneNew(rest, Append(rest, ScheduleTask))
  BY NoneNewAppend, NewTasks DEF ScheduleTask
<1>3. CASE PacingEnds(q, rest, out) \/ ArmTimer(q, rest, active, out)
  BY <1>1, <1>3 DEF PacingEnds, ArmTimer, Moves
<1>4. CASE DispatchFirst(q, rest, active, out) \/ DispatchDue(q, rest, active, out)
  <2>1. PICK f \in Top(q) : queue' = q \ {f} /\ delivered' = Append(out, f)
    BY <1>4 DEF DispatchFirst, DispatchDue
  <2>2. tasks' = Append(rest, ScheduleTask)
    BY <1>4 DEF DispatchFirst, DispatchDue, ContinueChain
  <2> QED
    BY <1>2, <2>1, <2>2, MoveTop
<1> QED
  BY <1>3, <1>4 DEF ScheduleNextFrame

LEMMA TimerMoves ==
  ASSUME QueuesOK, TimerHandler
  PROVE  Moves(queue, delivered) /\ NoneNew(tasks, tasks')
<1>1. /\ tasks # <<>> /\ tasks \in Seq(Task) /\ Tail(tasks) \in Seq(Task)
      /\ NoneNew(tasks, Tail(tasks))
  BY RunTaskTypes, NoneNewTail DEF TimerHandler, RunTask, QueuesOK
<1>2. CASE TimerEndsChain
  BY <1>1, <1>2 DEF TimerEndsChain, Moves
<1>3. CASE TimerDispatches
  <2>1. PICK f \in Top(queue) :
          ScheduleNextFrame(queue \ {f}, Tail(tasks), pacing, Append(delivered, f))
    BY <1>3 DEF TimerDispatches
  <2>2. f \in Frame /\ queue \ {f} \subseteq Frame
    BY <2>1, TopIsQueued DEF QueuesOK
  <2>3. Append(delivered, f) \in Seq(Frame) /\ delivered \in Seq(Frame)
    BY <2>2, AppendProperties DEF QueuesOK
  <2>4. Moves(queue \ {f}, Append(delivered, f)) /\ NoneNew(Tail(tasks), tasks')
    BY <1>1, <2>1, <2>2, <2>3, ScheduleMoves
  <2>5. Moves(queue, delivered)
    BY <2>2, <2>3, <2>4, GivenAppend DEF Moves
  <2> QED
    BY <1>1, <2>4, <2>5, NoneNewTrans
<1> QED
  BY <1>2, <1>3 DEF TimerHandler
-----------------------------------------------------------------------------
(* What a step must have, to keep the parts.                               *)

\* Somebody is at work: the source has been started.
LEMMA Begun ==
  ASSUME OneStart,
         \/ tasks # <<>> \/ current # <<>> \/ sending # <<>> \/ fired # <<>>
         \/ wait # {} \/ running \/ source = "started",
         UNCHANGED <<starts, starter>>
  PROVE  OneStart'
  BY DEF OneStart, Untouched

\* A step of the strand or the timer that takes no frame and ends nothing.
LEMMA QuietStep ==
  ASSUME TypeOK, EofRest, mode # "live", NoneNew(tasks, tasks'), Moves(queue, delivered),
         OneStart',
         UNCHANGED <<mode, running, current, sending, ended, completions, stopper, accepted>>
  PROVE  EofRest'
<1>1. OneEnd'
  BY DEF EofRest, OneEnd, NoneNew
<1>2. NothingBehind'
  BY DEF EofRest, NothingBehind, NoneNew, Moves
<1>3. LiveIdle'
  BY DEF LiveIdle
<1>4. NoneLost'
  BY DEF EofRest, NoneLost, NoneNew, Moves, Given, GivenIn
<1> QED
  BY <1>1, <1>2, <1>3, <1>4 DEF EofRest

\* What runs on the strand of a live pipeline is stop().
LEMMA NotLive ==
  ASSUME TypeOK, LiveIdle, NEW op, RunTask(op), op # "stop"
  PROVE  mode # "live"
<1>1. tasks # <<>> /\ tasks \in Seq(Task) /\ Head(tasks).op = op
  BY DEF RunTask, TypeOK
<1>2. 1 \in 1..Len(tasks) /\ tasks[1].op = op
  BY <1>1, TailProperties
<1> QED
  BY <1>2 DEF LiveIdle
-----------------------------------------------------------------------------
(* One lemma per kind of step.                                             *)

LEMMA EofStart ==
  ASSUME TypeOK, EofRest, MaxStarts = 1, Start
  PROVE  EofRest'
<1> USE DEF strandVars, sourceVars, ioVars, callerVars
<1>1. CASE StartOpenSource
  <2>1. /\ starts = 0 /\ starts' = 1 /\ stopper' = "idle" /\ starter' \in {"opening_sink", "failed"}
        /\ source' # "started" \/ source' = source
        /\ UNCHANGED <<mode, running, strandVars, fired, tasks, current, sending, sourceVars,
                       delivered, completions>>
    BY <1>1 DEF StartOpenSource, EofRest, OneStart
  <2>2. accepted = {} /\ tasks = <<>>
    BY <2>1 DEF EofRest, OneStart, Untouched
  <2>3. OneStart'
    BY <2>1 DEF EofRest, OneStart, Untouched
  <2>4. OneEnd' /\ NothingBehind' /\ LiveIdle'
    BY <2>1 DEF EofRest, OneEnd, NothingBehind, LiveIdle
  <2>5. NoneLost'
    BY <2>1, <2>2, KindNone DEF NoneLost
  <2> QED
    BY <2>3, <2>4, <2>5 DEF EofRest
<1>2. CASE StartSource
  <2>1. /\ starts = 1 /\ starts' = 1 /\ starter' = "awaiting_source"
        /\ accepted = {} /\ tasks = <<>> /\ current = <<>> /\ sending = <<>>
        /\ completions = 0 /\ queue = {} /\ wait = {} /\ fired = <<>>
        /\ UNCHANGED <<mode, strandVars, fired, tasks, current, sending, delivered, stopper,
                       completions>>
    BY <1>2 DEF StartSource, EofRest, OneStart, Untouched
  <2>2. OneStart'
    BY <2>1 DEF OneStart, Untouched
  <2>3. OneEnd' /\ NothingBehind' /\ LiveIdle' /\ NoneLost'
    BY <2>1, KindNone DEF OneEnd, NothingBehind, LiveIdle, NoneLost
  <2> QED
    BY <2>2, <2>3 DEF EofRest
<1>3. CASE StartOpenSink \/ StartReturns \/ StartCloseSink \/ StartCloseSource
  <2>1. /\ starts' = starts /\ starts = 1
        /\ starter' \in {"starting_source"} => starter = "opening_sink"
        /\ starter' # "opening_sink"
        /\ running' = running \/ ~running'
        /\ source' # "started" \/ source' = source
        /\ UNCHANGED <<mode, strandVars, fired, tasks, current, sending, ended, delivered,
                       stopper, completions>>
    BY <1>3 DEF StartOpenSink, StartReturns, StartCloseSink, StartCloseSource, EofRest, OneStart
  <2>2. OneStart'
    BY <2>1 DEF EofRest, OneStart, Untouched
  <2>3. OneEnd'
    BY <2>1 DEF EofRest, OneEnd
  <2>4. NothingBehind'
    BY <2>1 DEF EofRest, NothingBehind, TypeOK
  <2>5. LiveIdle' /\ NoneLost'
    BY <2>1 DEF EofRest, LiveIdle, NoneLost, Given
  <2> QED
    BY <2>2, <2>3, <2>4, <2>5 DEF EofRest
<1> QED
  BY <1>1, <1>2, <1>3 DEF Start

LEMMA EofDeliver ==
  ASSUME TypeOK, EofRest, DeliverFrame \/ DeliverEof
  PROVE  EofRest'
<1> USE DEF strandVars, sourceVars, ioVars, callerVars
<1>1. /\ ~ended /\ sending = <<>> /\ source = "started"
      /\ UNCHANGED <<mode, running, strandVars, fired, tasks, current, ioVars, callerVars,
                     delivered, completions>>
  BY DEF DeliverFrame, DeliverEof, Deliver
<1>2. sending' = <<>> \/ \E t : sending' = <<t>> /\ (IsEnd(t) => ended')
  <2>1. CASE DeliverEof
    BY <2>1 DEF DeliverEof, Deliver
  <2>2. CASE DeliverFrame
    <3>1. PICK ts : Deliver(FrameTask([n |-> sent + 1, ts |-> ts]))
      BY <2>2 DEF DeliverFrame
    <3>2. ~IsEnd(FrameTask([n |-> sent + 1, ts |-> ts]))
      BY DEF IsEnd, FrameTask
    <3> QED
      BY <3>1, <3>2 DEF Deliver
  <2> QED
    BY <2>1, <2>2
<1>3. OneStart'
  BY <1>1, Begun DEF EofRest
<1>4. ~EndIn(tasks) /\ ~EndIn(current) /\ completions = 0
  BY <1>1 DEF EofRest, OneEnd
<1>5. OneEnd'
  <2>1. /\ OneEndIn(tasks') /\ Len(current') <= 1 /\ completions' = 0
        /\ ~EndIn(tasks') /\ ~EndIn(current')
    BY <1>1, <1>4 DEF EofRest, OneEnd
  <2>2. Len(sending') <= 1 /\ (EndIn(sending') => ended')
    <3>1. CASE sending' = <<>>
      BY <3>1, KindNone
    <3>2. ASSUME NEW t, sending' = <<t>>, IsEnd(t) => ended'
          PROVE  Len(sending') <= 1 /\ (EndIn(sending') => ended')
      <4>1. Len(sending') = 1 /\ (EndIn(sending') <=> IsEnd(t))
        BY <3>2, KindNone
      <4> QED
        BY <3>2, <4>1
    <3> QED
      BY <1>2, <3>1, <3>2
  <2> QED
    BY <2>1, <2>2 DEF OneEnd
<1>6. NothingBehind' /\ LiveIdle' /\ NoneLost'
  BY <1>1 DEF EofRest, NothingBehind, LiveIdle, NoneLost, Given
<1> QED
  BY <1>3, <1>5, <1>6 DEF EofRest

LEMMA SendingFacts ==
  ASSUME TypeOK, sending # <<>>, Len(sending) <= 1
  PROVE  /\ Head(sending) \in Task /\ Head(sending).op \in {"frame", "eof"}
         /\ Head(sending).op = "frame" => Head(sending).frame \in Frame
         /\ EndIn(sending) <=> IsEnd(Head(sending))
<1>0. sending \in Seq(Arrival)
  BY DEF TypeOK
<1>1. /\ Head(sending) \in Arrival /\ Head(sending) = sending[1] /\ Len(sending) = 1
  <2>1. Len(sending) \in Nat \ {0}
    BY <1>0, TailProperties
  <2>2. ASSUME NEW n \in Nat \ {0}, n <= 1 PROVE n = 1
    BY <2>2
  <2>3. Len(sending) = 1
    BY <2>1, <2>2
  <2>4. Head(sending) \in Arrival /\ Head(sending) = sending[1]
    BY <1>0, TailProperties
  <2> QED
    BY <2>3, <2>4
<1>2. 1..Len(sending) = {1}
  BY <1>1
<1>3. EndIn(sending) <=> IsEnd(sending[1])
  BY <1>2 DEF EndIn
<1> QED
  BY <1>1, <1>3, ArrivalFields

LEMMA EofPost ==
  ASSUME TypeOK, EofRest, PostArrival
  PROVE  EofRest'
<1> USE DEF strandVars, sourceVars, ioVars, callerVars
<1>1. /\ mode # "live" /\ sending # <<>> /\ sending' = <<>>
      /\ tasks' = Append(tasks, Head(sending))
      /\ UNCHANGED <<mode, running, strandVars, fired, current, ioVars, callerVars, ended,
                     delivered, completions>>
  BY DEF PostArrival
<1>2. /\ Head(sending) \in Task /\ Head(sending).op \in {"frame", "eof"}
      /\ EndIn(sending) <=> IsEnd(Head(sending))
  BY <1>1, SendingFacts DEF EofRest, OneEnd
<1>3. /\ \A op : KindIn(op, tasks') => KindIn(op, tasks) \/ Head(sending).op = op
      /\ EndIn(tasks') => EndIn(tasks) \/ EndIn(sending)
      /\ OneEndIn(tasks) /\ ~(EndIn(tasks) /\ EndIn(sending)) => OneEndIn(tasks')
  BY <1>1, <1>2, KindAppend DEF TypeOK
<1>4. OneStart'
  BY <1>1, Begun DEF EofRest
<1>5. OneEnd'
  <2>1. OneEndIn(tasks')
    BY <1>3 DEF EofRest, OneEnd
  <2>2. ~EndIn(sending') /\ Len(sending') = 0
    BY <1>1, KindNone
  <2> QED
    BY <1>1, <1>3, <2>1, <2>2 DEF EofRest, OneEnd
<1>6. NothingBehind' /\ NoneLost'
  BY <1>1, <1>2, <1>3 DEF EofRest, NothingBehind, NoneLost, Given
<1>7. LiveIdle'
  BY <1>1 DEF LiveIdle
<1> QED
  BY <1>4, <1>5, <1>6, <1>7 DEF EofRest

LEMMA EofLive ==
  ASSUME TypeOK, EofRest, LiveFrame \/ LiveEof
  PROVE  EofRest'
<1> USE DEF strandVars, sourceVars, ioVars, callerVars
<1>1. /\ mode = "live" /\ sending # <<>> /\ sending' = <<>> /\ running' \in {running, FALSE}
      /\ UNCHANGED <<mode, strandVars, fired, tasks, current, ioVars, callerVars, ended>>
  BY DEF LiveFrame, LiveEof
<1>2. ~EndIn(sending') /\ Len(sending') = 0
  BY <1>1, KindNone
<1>3. OneStart'
  BY <1>1, Begun DEF EofRest
<1>4. /\ queue = {} /\ accepted = {} /\ current = <<>> /\ ~KindIn("drain", tasks)
      /\ ~EndIn(tasks)
  BY <1>1 DEF EofRest, LiveIdle, KindIn, EndIn, IsEnd
<1>5. CASE LiveFrame
  <2>1. completions' = completions /\ running' = running
    BY <1>5 DEF LiveFrame
  <2>2. OneEnd' /\ NothingBehind' /\ LiveIdle' /\ NoneLost'
    BY <1>1, <1>2, <1>4, <2>1 DEF EofRest, OneEnd, NothingBehind, LiveIdle, NoneLost
  <2> QED
    BY <1>3, <2>2 DEF EofRest
<1>6. CASE LiveEof
  <2>1. EndIn(sending)
    BY <1>6, SendingFacts DEF LiveEof, IsEnd, EofRest, OneEnd
  <2>2. completions' = 1 /\ ~running' /\ ended
    BY <1>6, <2>1 DEF LiveEof, EofRest, OneEnd
  <2>3. OneEnd' /\ NothingBehind' /\ LiveIdle' /\ NoneLost'
    BY <1>1, <1>2, <1>4, <2>1, <2>2, KindNone
    DEF EofRest, OneEnd, NothingBehind, LiveIdle, NoneLost
  <2> QED
    BY <1>3, <2>3 DEF EofRest
<1> QED
  BY <1>5, <1>6

LEMMA EofTake ==
  ASSUME TypeOK, EofRest, TakeArrival
  PROVE  EofRest'
<1> USE DEF strandVars, sourceVars, ioVars, callerVars
<1>1. PICK op \in {"frame", "eof"} : RunTask(op)
  BY DEF TakeArrival
<1>2. /\ current = <<>> /\ tasks # <<>> /\ tasks \in Seq(Task) /\ Head(tasks).op = op
      /\ tasks' = Tail(tasks) /\ current' = IF running THEN <<Head(tasks)>> ELSE <<>>
      /\ UNCHANGED <<mode, running, strandVars, fired, ioVars, callerVars, sending, ended,
                     delivered, completions>>
  BY <1>1 DEF TakeArrival, RunTask, TypeOK
<1>3. NoneNew(tasks, tasks')
  BY <1>2, NoneNewTail
<1>4. mode # "live"
  BY <1>1, NotLive DEF EofRest
<1>5. OneStart'
  BY <1>2, Begun DEF EofRest
<1>6. Len(current') <= 1 /\ (EndIn(current') => IsEnd(Head(tasks)))
  BY <1>2, KindNone
<1>7. IsEnd(Head(tasks)) => EndIn(tasks) /\ ~EndIn(tasks')
  BY <1>2, KindTail DEF EofRest, OneEnd
<1>8. OneEnd'
  <2>1. OneEndIn(tasks') /\ (EndIn(tasks') => EndIn(tasks))
    BY <1>3 DEF EofRest, OneEnd, NoneNew
  <2> QED
    BY <1>2, <1>6, <1>7, <2>1 DEF EofRest, OneEnd
<1>9. NothingBehind' /\ NoneLost'
  BY <1>2, <1>3 DEF EofRest, NothingBehind, NoneLost, NoneNew, Given
<1>10. LiveIdle'
  BY <1>2, <1>4 DEF LiveIdle
<1> QED
  BY <1>5, <1>8, <1>9, <1>10 DEF EofRest

\* A frame is taken: it joins the queue or leaves it at once.
LEMMA EofHandleFrame ==
  ASSUME TypeOK, EofRest, HandleBuffered \/ HandlePlayback
  PROVE  EofRest'
<1> USE DEF strandVars, sourceVars, ioVars, callerVars
<1>1. /\ current # <<>> /\ current' = <<>>
      /\ UNCHANGED <<mode, running, ioVars, callerVars, sending, ended, completions>>
  BY DEF HandleBuffered, HandlePlayback, Handle
<1>2. /\ Head(current) \in Arrival /\ Head(current).op = "frame"
      /\ Head(current).frame \in Frame
  BY TailProperties, ArrivalFields DEF HandleBuffered, HandlePlayback, Handle, TypeOK
<1> DEFINE f == Head(current).frame
           q == queue \cup {f}
<1>3. q \subseteq Frame /\ tasks \in Seq(Task) /\ delivered \in Seq(Frame)
  BY <1>2 DEF TypeOK
<1>4. accepted' = accepted \cup {f} /\ Moves(q, delivered) /\ NoneNew(tasks, tasks')
  <2>1. CASE HandleBuffered
    <3>1. accepted' = accepted \cup {f} /\ FlushOneFrame(q, newest', tasks)
      BY <2>1 DEF HandleBuffered
    <3> QED
      BY <1>3, <3>1, FlushMoves
  <2>2. CASE HandlePlayback
    <3>1. /\ accepted' = accepted \cup {f}
          /\ \/ ScheduleNextFrame(q, tasks, TRUE, delivered)
             \/ queue' = q /\ UNCHANGED <<tasks, delivered>>
      BY <2>2 DEF HandlePlayback
    <3>2. CASE ScheduleNextFrame(q, tasks, TRUE, delivered)
      BY <1>3, <3>1, <3>2, ScheduleMoves
    <3>3. CASE queue' = q /\ UNCHANGED <<tasks, delivered>>
      BY <3>1, <3>3 DEF Moves, NoneNew
    <3> QED
      BY <3>1, <3>2, <3>3
  <2> QED
    BY <2>1, <2>2
<1>5. mode # "live"
  BY <1>1 DEF EofRest, LiveIdle
<1>6. OneStart'
  BY <1>1, Begun DEF EofRest
<1>7. ~EndIn(current') /\ Len(current') = 0
  BY <1>1, KindNone
<1>8. OneEnd'
  BY <1>1, <1>4, <1>7 DEF EofRest, OneEnd, NoneNew
<1>9. NothingBehind'
  BY <1>1, <1>4 DEF EofRest, NothingBehind, NoneNew
<1>10. NoneLost'
  <2>1. \A g \in accepted : stopper = "idle" => g \in q \/ GivenIn(g, delivered)
    BY DEF EofRest, NoneLost, Given, GivenIn
  <2>2. \A g \in accepted' : stopper = "idle" => g \in queue' \/ GivenIn(g, delivered')
    BY <1>4, <2>1 DEF Moves
  <2> QED
    BY <1>1, <1>4, <2>2 DEF EofRest, NoneLost, NoneNew, Given, GivenIn
<1>11. LiveIdle'
  BY <1>1, <1>5 DEF LiveIdle
<1> QED
  BY <1>6, <1>8, <1>9, <1>10, <1>11 DEF EofRest

\* drain_eof_queue, in place of the end of the stream.
LEMMA EofDrains ==
  ASSUME TypeOK, EofRest, NEW rest \in Seq(Task), DrainEofQueue(rest),
         NoneNew(tasks, rest), ~EndIn(rest), OneEndIn(rest),
         EndIn(tasks) \/ EndIn(current), ~running', current' = <<>>, mode # "live", OneStart',
         UNCHANGED <<mode, sending, ended, stopper, accepted>>
  PROVE  EofRest'
<1>1. completions = 0 /\ ~EndIn(sending) /\ ended /\ Len(sending) <= 1
  BY DEF EofRest, OneEnd
<1>2. ~EndIn(current') /\ Len(current') = 0
  BY KindNone
<1>3. LiveIdle'
  BY DEF LiveIdle
<1>4. CASE /\ Drained /\ completions' = completions + 1 /\ tasks' = rest
           /\ UNCHANGED <<queue, delivered>>
  <2>1. OneEnd'
    BY <1>1, <1>2, <1>4 DEF OneEnd
  <2>2. NothingBehind'
    BY <1>4 DEF NothingBehind, Drained
  <2>3. NoneLost'
    BY <1>4 DEF EofRest, NoneLost, NoneNew, Given
  <2> QED
    BY <1>3, <2>1, <2>2, <2>3 DEF EofRest
<1>5. CASE /\ \E f \in Top(queue) : /\ queue' = queue \ {f}
                                    /\ delivered' = Append(delivered, f)
           /\ tasks' = Append(rest, DrainTask)
           /\ UNCHANGED completions
  <2>1. Moves(queue, delivered)
    BY <1>5, MoveTop DEF TypeOK
  <2>2. /\ \A op : KindIn(op, tasks') => KindIn(op, rest) \/ op = "drain"
        /\ OneEndIn(tasks')
    BY <1>5, KindAppend, NewTasks DEF DrainTask
  <2>3. OneEnd'
    BY <1>1, <1>2, <1>5, <2>2 DEF OneEnd
  <2>4. NothingBehind'
    BY <1>1, <1>5 DEF NothingBehind
  <2>5. NoneLost'
    BY <2>1, <2>2 DEF EofRest, NoneLost, NoneNew, Moves, Given, GivenIn
  <2> QED
    BY <1>3, <2>3, <2>4, <2>5 DEF EofRest
<1> QED
  BY <1>4, <1>5 DEF DrainEofQueue

LEMMA EofHandleEnd ==
  ASSUME TypeOK, EofRest, HandleEof
  PROVE  EofRest'
<1> USE DEF strandVars, sourceVars, ioVars, callerVars
<1>1. /\ current # <<>> /\ Head(current).op = "eof" /\ current' = <<>> /\ ~running'
      /\ DrainEofQueue(tasks)
      /\ UNCHANGED <<mode, sending, ended, stopper, accepted, starts, starter>>
  BY DEF HandleEof, Handle
<1>2. EndIn(current)
  <2>1. 1 \in 1..Len(current) /\ current[1] = Head(current)
    BY <1>1, TailProperties DEF TypeOK
  <2> QED
    BY <1>1, <2>1 DEF EndIn, IsEnd
<1>3. ~EndIn(tasks) /\ OneEndIn(tasks) /\ NoneNew(tasks, tasks) /\ tasks \in Seq(Task)
  BY <1>2 DEF EofRest, OneEnd, NoneNew, TypeOK
<1>4. mode # "live"
  BY <1>1 DEF EofRest, LiveIdle
<1>5. OneStart'
  BY <1>1, Begun DEF EofRest
<1> QED
  BY <1>1, <1>2, <1>3, <1>4, <1>5, EofDrains

LEMMA EofDrain ==
  ASSUME TypeOK, EofRest, Drain
  PROVE  EofRest'
<1> USE DEF strandVars, sourceVars, ioVars, callerVars
<1>1. /\ RunTask("drain") /\ DrainEofQueue(Tail(tasks))
      /\ UNCHANGED <<mode, running, current, sending, ended, stopper, accepted, starts, starter>>
  BY DEF Drain
<1>2. /\ tasks # <<>> /\ tasks \in Seq(Task) /\ Tail(tasks) \in Seq(Task)
      /\ Head(tasks).op = "drain" /\ current = <<>>
  BY <1>1, TailProperties DEF RunTask, TypeOK
<1>3. /\ NoneNew(tasks, Tail(tasks)) /\ ~EndIn(Tail(tasks)) /\ OneEndIn(Tail(tasks))
      /\ EndIn(tasks) /\ KindIn("drain", tasks)
  BY <1>2, NoneNewTail, KindTail DEF EofRest, OneEnd, IsEnd
<1>4. ~running
  BY <1>3 DEF EofRest, NothingBehind
<1>5. mode # "live"
  BY <1>1, NotLive DEF EofRest
<1>6. OneStart'
  BY <1>1, <1>2, Begun DEF EofRest
<1> QED
  BY <1>1, <1>2, <1>3, <1>4, <1>5, <1>6, EofDrains

LEMMA EofQuiet ==
  ASSUME TypeOK, EofRest, Flush \/ Schedule \/ TimerHandler
  PROVE  EofRest'
<1> USE DEF strandVars, sourceVars, ioVars, callerVars
<1>1. /\ \E op \in {"flush", "schedule", "timer"} : RunTask(op)
      /\ UNCHANGED <<mode, running, current, sending, ended, completions, stopper, accepted,
                     starts, starter>>
  BY DEF Flush, Schedule, TimerHandler
<1>2. mode # "live"
  BY <1>1, NotLive DEF EofRest
<1>3. /\ tasks # <<>> /\ tasks \in Seq(Task) /\ Tail(tasks) \in Seq(Task)
      /\ NoneNew(tasks, Tail(tasks)) /\ queue \subseteq Frame /\ delivered \in Seq(Frame)
  BY <1>1, TailProperties, NoneNewTail DEF RunTask, TypeOK
<1>4. OneStart'
  BY <1>1, <1>3, Begun DEF EofRest
<1>5. Moves(queue, delivered) /\ NoneNew(tasks, tasks')
  <2>1. CASE Flush
    <3>1. CASE FlushOneFrame(queue, newest, Tail(tasks))
      BY <1>3, <3>1, FlushMoves, NoneNewTrans
    <3>2. CASE tasks' = Tail(tasks) /\ UNCHANGED <<queue, delivered>>
      BY <1>3, <3>2 DEF Moves
    <3> QED
      BY <2>1, <3>1, <3>2 DEF Flush
  <2>2. CASE Schedule
    <3>1. ScheduleNextFrame(queue, Tail(tasks), pacing, delivered)
      BY <2>2 DEF Schedule
    <3> QED
      BY <1>3, <3>1, ScheduleMoves, NoneNewTrans
  <2>3. CASE TimerHandler
    BY <2>3, TimerMoves, TypeParts
  <2> QED
    BY <2>1, <2>2, <2>3
<1> QED
  BY <1>1, <1>2, <1>4, <1>5, QuietStep

LEMMA EofStop ==
  ASSUME TypeOK, EofRest, StopOnStrand \/ Stop
  PROVE  EofRest'
<1> USE DEF strandVars, sourceVars, ioVars, callerVars
<1>1. CASE StopOnStrand
  <2>1. /\ RunTask("stop") /\ tasks' = Tail(tasks) /\ queue' = {} /\ stopper' # "idle"
        /\ wait' = {} /\ (wait = {} => fired' = fired)
        /\ UNCHANGED <<mode, running, current, sending, ended, completions, accepted,
                       starts, starter>>
    BY <1>1 DEF StopOnStrand, ClearQueue, CancelWait
  <2>2. tasks # <<>> /\ tasks \in Seq(Task) /\ NoneNew(tasks, tasks')
    BY <2>1, NoneNewTail DEF RunTask, TypeOK
  <2>3. OneStart'
    BY <2>1, <2>2, Begun DEF EofRest
  <2>4. OneEnd'
    BY <2>1, <2>2 DEF EofRest, OneEnd, NoneNew
  <2>5. NothingBehind' /\ NoneLost'
    BY <2>1, <2>2 DEF EofRest, NothingBehind, NoneLost, NoneNew
  <2>6. LiveIdle'
    <3>1. \A i \in 1..Len(tasks') : i + 1 \in 1..Len(tasks) /\ tasks'[i] = tasks[i + 1]
      BY <2>1, <2>2, TailProperties
    <3> QED
      BY <2>1, <3>1 DEF EofRest, LiveIdle
  <2> QED
    BY <2>3, <2>4, <2>5, <2>6 DEF EofRest
<1>2. CASE StopBegin
  <2>1. /\ starts > 0 /\ starter = "idle" /\ stopper' # "idle" /\ running' = FALSE
        /\ UNCHANGED <<mode, strandVars, fired, current, sending, ended, completions,
                       starts, starter, delivered>>
    BY <1>2 DEF StopBegin
  <2>2. tasks' = tasks \/ tasks' = Append(tasks, StopTask)
    BY <1>2 DEF StopBegin
  <2>3. OneStart'
    BY <2>1 DEF EofRest, OneStart, Untouched
  <2>4. /\ EndIn(tasks') => EndIn(tasks)
        /\ OneEndIn(tasks) => OneEndIn(tasks')
        /\ KindIn("drain", tasks') => KindIn("drain", tasks)
    BY <2>2, KindAppend, NewTasks DEF StopTask, IsEnd, TypeOK
  <2>5. OneEnd'
    BY <2>1, <2>4 DEF EofRest, OneEnd
  <2>6. NothingBehind' /\ NoneLost'
    BY <2>1, <2>4 DEF EofRest, NothingBehind, NoneLost
  <2>7. LiveIdle'
    <3>1. /\ Len(tasks) \in Nat
          /\ tasks' # tasks => /\ Len(tasks') = Len(tasks) + 1
                               /\ \A i \in 1..Len(tasks) : tasks'[i] = tasks[i]
                               /\ tasks'[Len(tasks) + 1] = StopTask
      <4>1. tasks \in Seq(Task) /\ StopTask \in Task
        BY NewTasks DEF TypeOK
      <4> QED
        BY <2>2, <4>1, AppendProperties
    <3>2. ASSUME mode = "live", NEW i \in 1..Len(tasks') PROVE tasks'[i].op = "stop"
      <4>1. \A j \in 1..Len(tasks) : tasks[j].op = "stop"
        BY <3>2 DEF EofRest, LiveIdle
      <4>2. CASE tasks' = tasks
        BY <3>2, <4>1, <4>2
      <4>3. CASE tasks' # tasks
        <5>1. i \in 1..Len(tasks) \/ i = Len(tasks) + 1
          BY <3>1, <3>2, <4>3
        <5> QED
          BY <3>1, <4>1, <4>3, <5>1 DEF StopTask
      <4> QED
        BY <4>2, <4>3
    <3> QED
      BY <2>1, <3>2 DEF EofRest, LiveIdle
  <2> QED
    BY <2>3, <2>5, <2>6, <2>7 DEF EofRest
<1>3. CASE StopCloseSource \/ StopCloseSink
  <2>1. /\ stopper # "idle" /\ stopper' # "idle" /\ (source' # "started" \/ source' = source)
        /\ UNCHANGED <<mode, running, queue, accepted, wait, fired, tasks, current, sending, ended,
                       completions, starts, starter, delivered>>
    BY <1>3 DEF StopCloseSource, StopCloseSink, SinkMayClose
  <2>2. OneStart'
    BY <2>1 DEF EofRest, OneStart, Untouched
  <2>3. OneEnd' /\ NothingBehind' /\ LiveIdle'
    BY <2>1 DEF EofRest, OneEnd, NothingBehind, LiveIdle
  <2>4. NoneLost'
    BY <2>1 DEF NoneLost
  <2> QED
    BY <2>2, <2>3, <2>4 DEF EofRest
<1> QED
  BY <1>1, <1>2, <1>3 DEF Stop

LEMMA EofTimer ==
  ASSUME TypeOK, EofRest, Timer \/ Tick \/ UNCHANGED vars
  PROVE  EofRest'
<1> USE DEF strandVars, sourceVars, ioVars, callerVars
<1>1. CASE Timer
  <2>1. /\ wait # {} \/ fired # <<>>
        /\ UNCHANGED <<mode, running, queue, accepted, current, sending, ended, completions,
                       stopper, starts, starter, delivered>>
    BY <1>1 DEF Timer, TimerExpires, TimerPosts
  <2>2. mode # "live"
    BY <2>1 DEF EofRest, LiveIdle
  <2>3. NoneNew(tasks, tasks')
    <3>1. CASE TimerExpires
      BY <3>1 DEF TimerExpires, NoneNew
    <3>2. CASE TimerPosts
      <4>1. Head(fired) \in {"expired", "aborted"}
        BY <3>2, TailProperties DEF TimerPosts, TypeOK
      <4>2. /\ TimerTask(Head(fired)) \in Task
            /\ TimerTask(Head(fired)).op \notin {"eof", "drain", "stop"}
        BY <4>1, NewTasks DEF TimerTask
      <4> QED
        BY <3>2, <4>2, NoneNewAppend DEF TimerPosts, TypeOK
    <3> QED
      BY <1>1, <3>1, <3>2 DEF Timer
  <2>4. Moves(queue, delivered)
    BY <2>1 DEF Moves
  <2>5. OneStart'
    BY <2>1, Begun DEF EofRest
  <2> QED
    BY <2>1, <2>2, <2>3, <2>4, <2>5, QuietStep
<1>2. CASE Tick \/ UNCHANGED vars
  <2>1. UNCHANGED <<mode, running, queue, accepted, wait, fired, tasks, current, source, sending,
                    ended, completions, stopper, starts, starter, delivered>>
    BY <1>2 DEF Tick, vars
  <2> QED
    BY <2>1 DEF EofRest, OneStart, Untouched, OneEnd, NothingBehind, LiveIdle, NoneLost, Given
<1> QED
  BY <1>1, <1>2

\* A pipeline that is started once completes at most once, and undisturbed by
\* stop() only after every frame it took has been given to the sink: in every
\* mode, whatever the chains of flushes and of timer waits are at when the end
\* of the stream comes (media_pipeline.cpp, drain_eof_queue).
THEOREM EofDeliversEverything ==
  ASSUME MaxStarts = 1 PROVE Spec => []EofDeliversAll
  <1>1. Init => EofRest
    BY KindNone DEF Init, EofRest, OneStart, Untouched, OneEnd, NothingBehind, LiveIdle, NoneLost
  <1>2. TypeOK /\ EofRest /\ [Next]_vars => EofRest'
    BY EofStart, EofDeliver, EofPost, EofLive, EofTake, EofHandleFrame, EofHandleEnd, EofDrain,
       EofQuiet, EofStop, EofTimer DEF Next, Arrive, Strand
  <1>3. EofRest => EofDeliversAll
    BY DEF EofRest, OneStart, Untouched, OneEnd, NothingBehind, NoneLost, EofDeliversAll, Given
  <1> QED
    BY <1>1, <1>2, <1>3, TypeCorrect, PTL DEF Spec
=============================================================================
