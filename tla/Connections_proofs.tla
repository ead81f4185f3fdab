-------------------------- MODULE Connections_proofs --------------------------
(***************************************************************************)
(* Proofs about what goes over connections.                                 *)
(*                                                                         *)
(* TcpWriteSerializer: one write at a time, in the order of the queue, for  *)
(* every set of producers, every queue size and every bound.                *)
(*                                                                         *)
(* HttpClient and OnvifClient, for any servers, redirections, faults and    *)
(* number of calls: a call is never given the answer to another, an         *)
(* initialized client has the services of its camera, no request is carried *)
(* out twice, one that is redirected comes to where it was sent, and the    *)
(* main stream is of the largest profile.                                   *)
(***************************************************************************)
EXTENDS TcpWriteSerializer, OnvifClient, SequenceTheorems, WellFoundedInduction, TLAPS

-----------------------------------------------------------------------------
(* TcpWriteSerializer: sequences. *)

\* What the end and the rest of a sequence are.
LEMMA TailIs ==
  ASSUME NEW S, NEW s \in Seq(S), s # <<>>
  PROVE  /\ Tail(s) \in Seq(S)
         /\ Len(Tail(s)) = Len(s) - 1
         /\ Len(s) \in Nat \ {0}
         /\ Head(s) = s[1]
         /\ \A i \in 1..(Len(s) - 1) : Tail(s)[i] = s[i + 1]
  OBVIOUS

LEMMA AppendIs ==
  ASSUME NEW S, NEW s \in Seq(S), NEW e \in S
  PROVE  /\ Append(s, e) \in Seq(S)
         /\ Append(s, e) # <<>>
         /\ Len(Append(s, e)) = Len(s) + 1
         /\ \A i \in 1..Len(s) : Append(s, e)[i] = s[i]
         /\ Append(s, e)[Len(s) + 1] = e
  OBVIOUS

LEMMA ConcatIs ==
  ASSUME NEW S, NEW s \in Seq(S), NEW t \in Seq(S)
  PROVE  /\ s \o t \in Seq(S)
         /\ Len(s \o t) = Len(s) + Len(t)
         /\ \A i \in 1..Len(s) : (s \o t)[i] = s[i]
         /\ \A i \in 1..Len(t) : (s \o t)[Len(s) + i] = t[i]
  OBVIOUS

\* The fields of a task follow from its kind.
LEMMA TaskFields ==
  ASSUME NEW t \in Task
  PROVE  /\ t.op = "submit" => t.batch \in Seq(Entry)
         /\ t.op = "written" => t.ec \in {"success", "failure"}
  BY DEF Task

LEMMA NewTasks ==
  /\ \A b \in Seq(Entry) : SubmitTask(b) \in Task
  /\ ClearTask \in Task
  /\ WrittenTask("success") \in Task
  /\ WrittenTask("failure") \in Task
  BY DEF Task, SubmitTask, ClearTask, WrittenTask

\* The handler that runs first is a task of the strand, and what it leaves
\* are the others, each one place further ahead.
LEMMA RunTaskProperties ==
  ASSUME TypeOK, NEW op, RunTask(op)
  PROVE  /\ tasks' \in Seq(Task)
         /\ Head(tasks) \in Task
         /\ 1 \in DOMAIN tasks
         /\ tasks[1] = Head(tasks)
         /\ tasks[1].op = op
         /\ \A i \in DOMAIN tasks' : /\ i + 1 \in DOMAIN tasks
                                     /\ tasks'[i] = tasks[i + 1]
  BY TailIs DEF RunTask, TypeOK

-----------------------------------------------------------------------------
(* The Boolean variables and the others have their types for reasons that  *)
(* the provers find apart.                                                 *)

BooleansOK == active \in BOOLEAN /\ writing \in BOOLEAN

NumbersOK ==
    /\ queuedCount \in Nat
    /\ overflowCount \in Nat
    /\ submitted \in [Producers -> Nat]
    /\ socket \in {"open", "broken", "closed"}
    /\ closer \in {"idle", "posting", "done"}

SequencesOK ==
    /\ queue \in Seq(Entry)
    /\ tasks \in Seq(Task)
    /\ inflight \in Seq(Entry)
    /\ held \in [Producers -> Seq(Entry)]
    /\ accepted \in Seq(Entry)
    /\ wire \in Seq(Entry \cup {Garbage})

LEMMA TypeParts == TypeOK <=> BooleansOK /\ NumbersOK /\ SequencesOK
  BY Zenon DEF TypeOK, BooleansOK, NumbersOK, SequencesOK

LEMMA TypePartsNext == TypeOK' <=> BooleansOK' /\ NumbersOK' /\ SequencesOK'
  BY Zenon DEF TypeOK, BooleansOK, NumbersOK, SequencesOK

LEMMA BooleansNext == TypeOK /\ [Next]_vars => BooleansOK'
  <1> USE DEF TypeOK, BooleansOK
  <1> SUFFICES ASSUME TypeOK, Next
               PROVE  BooleansOK'
    BY DEF vars, strandVars
  <1>1. CASE Caller
    BY <1>1 DEF Caller, SubmitCheck, SubmitPost, CloseBegin, ClosePost, strandVars
  <1>2. CASE StrandStep
    <2>1. CASE SubmitIgnored
      BY <2>1 DEF SubmitIgnored, strandVars
    <2>2. CASE SubmitOverflows
      BY <2>2 DEF SubmitOverflows, HandleOverflow
    <2>3. CASE SubmitAccepted
      BY <2>3 DEF SubmitAccepted, DoWrite
    <2>4. CASE ClearQueue
      BY <2>4 DEF ClearQueue, DropQueue, StopWriting
    <2>5. CASE WriteFailedHandler
      BY <2>5 DEF WriteFailedHandler, DropQueue, StopWriting
    <2>6. CASE WrittenTooLateHandler
      BY <2>6 DEF WrittenTooLateHandler, StopWriting
    <2>7. CASE WrittenHandler
      BY <2>7 DEF WrittenHandler, DoWrite
    <2> QED
      BY <1>2, <2>1, <2>2, <2>3, <2>4, <2>5, <2>6, <2>7 DEF StrandStep
  <1>3. CASE SocketEvent
    BY <1>3 DEF SocketEvent, WriteSucceeds, WriteFails, PeerBreaks, OwnerClosesSocket,
                strandVars
  <1> QED
    BY <1>1, <1>2, <1>3 DEF Next

LEMMA NumbersNext == TypeOK /\ [Next]_vars => NumbersOK'
  <1> USE DEF TypeOK, NumbersOK
  <1> SUFFICES ASSUME TypeOK, Next
               PROVE  NumbersOK'
    BY DEF vars, strandVars, callerVars
  <1>1. CASE Caller
    <2>1. ASSUME NEW p \in Producers, SubmitCheck(p)
          PROVE  NumbersOK'
      BY <2>1, SerializerAssumption DEF SubmitCheck, strandVars
    <2>2. ASSUME NEW p \in Producers, SubmitPost(p)
          PROVE  NumbersOK'
      BY <2>2 DEF SubmitPost, strandVars
    <2>3. CASE CloseBegin \/ ClosePost
      BY <2>3 DEF CloseBegin, ClosePost, strandVars
    <2> QED
      BY <1>1, <2>1, <2>2, <2>3 DEF Caller
  <1>2. CASE StrandStep
    <2>1. CASE SubmitIgnored
      BY <2>1 DEF SubmitIgnored, strandVars, callerVars
    <2>2. CASE SubmitOverflows
      BY <2>2 DEF SubmitOverflows, HandleOverflow, callerVars
    <2>3. CASE SubmitAccepted
      <3>1. Head(tasks).batch \in Seq(Entry)
        BY <2>3, RunTaskProperties, TaskFields DEF SubmitAccepted
      <3>2. queue' \in Seq(Entry)
        BY <2>3, <3>1, ConcatIs DEF SubmitAccepted, Pushed
      <3> QED
        BY <2>3, <3>2 DEF SubmitAccepted, callerVars
    <2>4. CASE ClearQueue
      BY <2>4 DEF ClearQueue, DropQueue, StopWriting, callerVars
    <2>5. CASE WriteFailedHandler
      BY <2>5 DEF WriteFailedHandler, DropQueue, StopWriting, callerVars
    <2>6. CASE WrittenTooLateHandler
      BY <2>6 DEF WrittenTooLateHandler, StopWriting, callerVars
    <2>7. CASE WrittenHandler
      <3>1. queue' \in Seq(Entry)
        BY <2>7, TailIs DEF WrittenHandler, Popped
      <3> QED
        BY <2>7, <3>1 DEF WrittenHandler, callerVars
    <2> QED
      BY <1>2, <2>1, <2>2, <2>3, <2>4, <2>5, <2>6, <2>7 DEF StrandStep
  <1>3. CASE SocketEvent
    BY <1>3 DEF SocketEvent, WriteSucceeds, WriteFails, PeerBreaks, OwnerClosesSocket,
                strandVars, callerVars
  <1> QED
    BY <1>1, <1>2, <1>3 DEF Next

LEMMA SequencesNext == TypeOK /\ [Next]_vars => SequencesOK'
  <1> USE DEF SequencesOK
  <1> SUFFICES ASSUME TypeOK, SequencesOK, Next
               PROVE  SequencesOK'
    BY TypeParts DEF vars, strandVars, callerVars
  <1>1. CASE Caller
    <2>1. ASSUME NEW p \in Producers, SubmitCheck(p)
          PROVE  SequencesOK'
      <3>1. PICK n \in 1..MaxBatch :
              held' = [held EXCEPT ![p] = [i \in 1..n |-> <<p, submitted[p] + i>>]]
        BY <2>1 DEF SubmitCheck
      <3>2. n \in Nat
        BY SerializerAssumption
      <3>3. \A i \in 1..n : <<p, submitted[p] + i>> \in Entry
        BY DEF Entry, TypeOK
      <3>4. [i \in 1..n |-> <<p, submitted[p] + i>>] \in Seq(Entry)
        BY <3>2, <3>3
      <3>5. held' \in [Producers -> Seq(Entry)]
        BY <3>1, <3>4
      <3> QED
        BY <2>1, <3>5 DEF SubmitCheck, strandVars
    <2>2. ASSUME NEW p \in Producers, SubmitPost(p)
          PROVE  SequencesOK'
      <3>1. tasks' \in Seq(Task)
        BY <2>2, NewTasks, AppendIs DEF SubmitPost
      <3>2. held' \in [Producers -> Seq(Entry)]
        BY <2>2 DEF SubmitPost
      <3> QED
        BY <2>2, <3>1, <3>2 DEF SubmitPost, strandVars
    <2>3. CASE CloseBegin
      BY <2>3 DEF CloseBegin, strandVars
    <2>4. CASE ClosePost
      BY <2>4, NewTasks DEF ClosePost, strandVars
    <2> QED
      BY <1>1, <2>1, <2>2, <2>3, <2>4 DEF Caller
  <1>2. CASE StrandStep
    <2>0. tasks' \in Seq(Task)
      BY <1>2, RunTaskProperties
         DEF StrandStep, SubmitIgnored, SubmitOverflows, SubmitAccepted, ClearQueue,
             WriteFailedHandler, WrittenTooLateHandler, WrittenHandler
    <2>1. CASE SubmitIgnored
      BY <2>0, <2>1 DEF SubmitIgnored, strandVars, callerVars
    <2>2. CASE SubmitOverflows
      BY <2>0, <2>2 DEF SubmitOverflows, callerVars
    <2>3. CASE SubmitAccepted
      <3>1. Head(tasks).batch \in Seq(Entry)
        BY <2>3, RunTaskProperties, TaskFields DEF SubmitAccepted
      <3>2. queue' \in Seq(Entry) /\ accepted' \in Seq(Entry)
        BY <2>3, <3>1, ConcatIs DEF SubmitAccepted, Pushed
      <3>3. inflight' \in Seq(Entry)
        <4>1. CASE writing
          BY <4>1, <2>3 DEF SubmitAccepted
        <4>2. CASE ~writing
          <5>1. queue' # <<>> => Head(queue') \in Entry
            BY <3>2
          <5>2. inflight' = IF queue' = <<>> THEN inflight ELSE Append(inflight, Head(queue'))
            BY <4>2, <2>3, Zenon DEF SubmitAccepted, DoWrite
          <5> QED
            BY <5>1, <5>2
        <4> QED
          BY <4>1, <4>2
      <3> QED
        BY <2>0, <2>3, <3>2, <3>3 DEF SubmitAccepted, callerVars
    <2>4. CASE ClearQueue
      BY <2>0, <2>4 DEF ClearQueue, DropQueue, callerVars
    <2>5. CASE WriteFailedHandler
      BY <2>0, <2>5 DEF WriteFailedHandler, DropQueue, callerVars
    <2>6. CASE WrittenTooLateHandler
      BY <2>0, <2>6 DEF WrittenTooLateHandler, callerVars
    <2>7. CASE WrittenHandler
      <3>1. queue' \in Seq(Entry)
        BY <2>7, TailIs DEF WrittenHandler, Popped
      <3>2. inflight' \in Seq(Entry)
        BY <2>7, <3>1, TailIs, AppendIs DEF WrittenHandler, DoWrite
      <3> QED
        BY <2>0, <2>7, <3>1, <3>2 DEF WrittenHandler, callerVars
    <2> QED
      BY <1>2, <2>1, <2>2, <2>3, <2>4, <2>5, <2>6, <2>7 DEF StrandStep
  <1>3. CASE SocketEvent
    <2>1. CASE WriteSucceeds
      <3>1. tasks' \in Seq(Task)
        BY <2>1, NewTasks DEF WriteSucceeds
      <3>2. inflight' \in Seq(Entry) /\ Head(inflight) \in Entry
        BY <2>1, TailIs DEF WriteSucceeds
      <3>3. wire' \in Seq(Entry \cup {Garbage})
        <4>1. \E e \in Entry \cup {Garbage} : wire' = Append(wire, e)
          BY <2>1, <3>2 DEF WriteSucceeds
        <4> QED
          BY <4>1
      <3> QED
        BY <2>1, <3>1, <3>2, <3>3 DEF WriteSucceeds, strandVars, callerVars
    <2>2. CASE WriteFails
      <3>1. tasks' \in Seq(Task) /\ inflight' \in Seq(Entry)
        BY <2>2, NewTasks, TailIs DEF WriteFails
      <3> QED
        BY <2>2, <3>1 DEF WriteFails, strandVars, callerVars
    <2>3. CASE PeerBreaks \/ OwnerClosesSocket
      BY <2>3 DEF PeerBreaks, OwnerClosesSocket, strandVars, callerVars
    <2> QED
      BY <1>3, <2>1, <2>2, <2>3 DEF SocketEvent
  <1> QED
    BY <1>1, <1>2, <1>3 DEF Next

LEMMA TypeInit == Init => TypeOK
<1>1. Init => BooleansOK
  BY DEF Init, BooleansOK
<1>2. Init => NumbersOK
  BY DEF Init, NumbersOK
<1>3. Init => SequencesOK
  BY DEF Init, SequencesOK
<1> QED
  BY <1>1, <1>2, <1>3, TypeParts

LEMMA TypeNext == TypeOK /\ [Next]_vars => TypeOK'
  BY BooleansNext, NumbersNext, SequencesNext, TypePartsNext

\* Every variable keeps its type.
THEOREM TypeCorrect == Spec => []TypeOK
  BY TypeInit, TypeNext, PTL DEF Spec
-----------------------------------------------------------------------------
(* The inductive invariant, action by action.                              *)

\* A handler that is no completion leaves the completions as they are.
LEMMA RunOther ==
  ASSUME IInv, NEW op, RunTask(op), op # "written"
  PROVE  /\ Completing' <=> Completing
         /\ \A i, j \in DOMAIN tasks' : WrittenAt(i)' /\ WrittenAt(j)' => i = j
         /\ \A i \in DOMAIN tasks' : WrittenAt(i)' =>
              inflight = <<>> /\ (socket = "open" => tasks'[i].ec = "success")
         /\ \A i \in DOMAIN tasks' : tasks'[i].op = "clear" => ~active
  <1>1. TypeOK /\ OneWriteOutstanding /\ ClearOnlyInactive /\ FailedIsFinal
    BY DEF IInv
  <1>2. /\ Len(tasks) \in Nat \ {0}
        /\ DOMAIN tasks = 1..Len(tasks)
        /\ DOMAIN tasks' = 1..(Len(tasks) - 1)
        /\ tasks[1].op = op
        /\ \A i \in DOMAIN tasks' : tasks'[i] = tasks[i + 1]
    BY <1>1, TailIs DEF RunTask, TypeOK
  <1>3. \A i \in DOMAIN tasks' : WrittenAt(i)' <=> WrittenAt(i + 1)
    BY <1>2 DEF WrittenAt
  <1>4. \A i \in DOMAIN tasks : WrittenAt(i) => i - 1 \in DOMAIN tasks' /\ WrittenAt(i - 1)'
    BY <1>2 DEF WrittenAt
  <1>5. Completing' <=> Completing
    BY <1>2, <1>3, <1>4 DEF Completing
  <1>6. \A i, j \in DOMAIN tasks' : WrittenAt(i)' /\ WrittenAt(j)' => i = j
    BY <1>1, <1>2, <1>3 DEF OneWriteOutstanding
  <1>7. \A i \in DOMAIN tasks' : WrittenAt(i)' =>
          inflight = <<>> /\ (socket = "open" => tasks'[i].ec = "success")
    BY <1>1, <1>2, <1>3 DEF OneWriteOutstanding, FailedIsFinal
  <1>8. \A i \in DOMAIN tasks' : tasks'[i].op = "clear" => ~active
    BY <1>1, <1>2 DEF ClearOnlyInactive
  <1> QED
    BY <1>5, <1>6, <1>7, <1>8

\* A completion handler was the only write outstanding.
LEMMA RunWritten ==
  ASSUME IInv, RunTask("written")
  PROVE  /\ ~Completing'
         /\ Completing
         /\ inflight = <<>>
         /\ socket = "open" => Head(tasks).ec = "success"
         /\ \A i \in DOMAIN tasks' : ~WrittenAt(i)'
         /\ \A i \in DOMAIN tasks' : tasks'[i].op = "clear" => ~active
  <1>1. TypeOK /\ OneWriteOutstanding /\ ClearOnlyInactive /\ FailedIsFinal
    BY DEF IInv
  <1>2. /\ Len(tasks) \in Nat \ {0}
        /\ DOMAIN tasks = 1..Len(tasks)
        /\ DOMAIN tasks' = 1..(Len(tasks) - 1)
        /\ Head(tasks) = tasks[1]
        /\ tasks[1].op = "written"
        /\ \A i \in DOMAIN tasks' : tasks'[i] = tasks[i + 1]
    BY <1>1, TailIs DEF RunTask, TypeOK
  <1>3. WrittenAt(1) /\ 1 \in DOMAIN tasks
    BY <1>2 DEF WrittenAt
  <1>4. \A i \in DOMAIN tasks' : ~WrittenAt(i)'
    BY <1>1, <1>2, <1>3 DEF OneWriteOutstanding, WrittenAt
  <1>5. \A i \in DOMAIN tasks' : tasks'[i].op = "clear" => ~active
    BY <1>1, <1>2 DEF ClearOnlyInactive
  <1> QED
    BY <1>1, <1>2, <1>3, <1>4, <1>5 DEF OneWriteOutstanding, Completing, FailedIsFinal

\* Posting a handler that is no completion changes nothing the invariant sees.
LEMMA PostOther ==
  ASSUME IInv, NEW t \in Task, t.op # "written", tasks' = Append(tasks, t)
  PROVE  /\ Completing' <=> Completing
         /\ \A i \in DOMAIN tasks' : WrittenAt(i)' => i \in DOMAIN tasks /\ WrittenAt(i)
         /\ \A i \in DOMAIN tasks' : WrittenAt(i)' => tasks'[i] = tasks[i]
         /\ t.op # "clear" => \A i \in DOMAIN tasks' : tasks'[i].op = "clear" => ~active
  <1>1. TypeOK /\ OneWriteOutstanding /\ ClearOnlyInactive /\ FailedIsFinal
    BY DEF IInv
  <1>2. /\ Len(tasks) \in Nat
        /\ DOMAIN tasks = 1..Len(tasks)
        /\ DOMAIN tasks' = 1..(Len(tasks) + 1)
        /\ tasks'[Len(tasks) + 1] = t
        /\ \A i \in DOMAIN tasks : tasks'[i] = tasks[i]
    BY <1>1, AppendIs DEF TypeOK
  <1>3. \A i \in DOMAIN tasks' : WrittenAt(i)' => i \in DOMAIN tasks /\ WrittenAt(i)
    BY <1>2 DEF WrittenAt
  <1>4. \A i \in DOMAIN tasks : WrittenAt(i) => i \in DOMAIN tasks' /\ WrittenAt(i)'
    BY <1>2 DEF WrittenAt
  <1>5. Completing' <=> Completing
    BY <1>3, <1>4 DEF Completing
  <1>6. t.op # "clear" => \A i \in DOMAIN tasks' : tasks'[i].op = "clear" => ~active
    BY <1>1, <1>2 DEF ClearOnlyInactive
  <1> QED
    BY <1>2, <1>3, <1>5, <1>6

\* The parts of the invariant, grouped by what they are about.
WriteParts ==
    OneWriteOutstanding /\ NoStrandedEntry /\ WritingIsOutstanding /\ NextOnWire

QueueParts ==
    QueueBounded /\ WireInOrder /\ QueueIsSuffix /\ NothingLost

FlagParts ==
    SlowConsumerDisconnected /\ ClearOnlyInactive /\ FailedIsFinal

LEMMA InvariantParts ==
  /\ IInv <=> TypeOK /\ WriteParts /\ QueueParts /\ FlagParts
  /\ IInv' <=> TypeOK' /\ WriteParts' /\ QueueParts' /\ FlagParts'
  BY Zenon DEF IInv, WriteParts, QueueParts, FlagParts

\* What the sequences of a well-typed state are to the arithmetic.
LEMMA SequenceDomains ==
  ASSUME TypeOK
  PROVE  /\ Len(queue) \in Nat /\ DOMAIN queue = 1..Len(queue)
         /\ Len(accepted) \in Nat /\ DOMAIN accepted = 1..Len(accepted)
         /\ Len(wire) \in Nat /\ DOMAIN wire = 1..Len(wire)
         /\ Len(inflight) \in Nat
         /\ overflowCount \in Nat
         /\ active \in BOOLEAN /\ writing \in BOOLEAN
  BY DEF TypeOK

\* What a completed write posts to the strand.
LEMMA PostWritten ==
  ASSUME IInv, NEW ec \in {"success", "failure"}, inflight # <<>>,
         tasks' = Append(tasks, WrittenTask(ec)), inflight' = Tail(inflight)
  PROVE  /\ ~Completing
         /\ Completing'
         /\ inflight' = <<>>
         /\ \A i \in DOMAIN tasks' : WrittenAt(i)' => i = Len(tasks) + 1 /\ tasks'[i].ec = ec
         /\ \A i \in DOMAIN tasks' : tasks'[i].op = "clear" => ~active
  <1>1. TypeOK /\ OneWriteOutstanding /\ ClearOnlyInactive
    BY DEF IInv
  <1>2. WrittenTask(ec) \in Task
    BY DEF WrittenTask, Task
  <1>3. /\ Len(tasks) \in Nat
        /\ DOMAIN tasks = 1..Len(tasks)
        /\ DOMAIN tasks' = 1..(Len(tasks) + 1)
        /\ tasks'[Len(tasks) + 1] = WrittenTask(ec)
        /\ \A i \in DOMAIN tasks : tasks'[i] = tasks[i]
    BY <1>1, <1>2, AppendIs DEF TypeOK
  <1>4. WrittenTask(ec).op = "written" /\ WrittenTask(ec).ec = ec
    BY DEF WrittenTask
  <1>5. ~Completing /\ \A i \in DOMAIN tasks : tasks[i].op # "written"
    BY <1>1 DEF OneWriteOutstanding, Completing, WrittenAt
  <1>6. inflight' = <<>>
    BY <1>1 DEF OneWriteOutstanding, TypeOK
  <1>7. Completing'
    BY <1>3, <1>4 DEF Completing, WrittenAt
  <1>8. \A i \in DOMAIN tasks' : WrittenAt(i)' => i = Len(tasks) + 1 /\ tasks'[i].ec = ec
    BY <1>3, <1>4, <1>5 DEF WrittenAt
  <1>9. \A i \in DOMAIN tasks' : tasks'[i].op = "clear" => ~active
    BY <1>1, <1>3, <1>4 DEF ClearOnlyInactive
  <1> QED
    BY <1>5, <1>6, <1>7, <1>8, <1>9

LEMMA SubmitCheckStep ==
  ASSUME IInv, TypeOK', NEW p \in Producers, SubmitCheck(p)
  PROVE  IInv'
  <1>1. UNCHANGED <<active, strandVars, tasks, inflight, socket, closer, wire>>
    BY DEF SubmitCheck
  <1>2. WriteParts' /\ QueueParts' /\ FlagParts'
    BY <1>1, InvariantParts
       DEF strandVars, WriteParts, QueueParts, FlagParts, OneWriteOutstanding,
           NoStrandedEntry, WritingIsOutstanding, NextOnWire, QueueBounded, WireInOrder,
           QueueIsSuffix, NothingLost, SlowConsumerDisconnected, ClearOnlyInactive,
           FailedIsFinal, Outstanding, Completing, WrittenAt, BuffersAlive
  <1> QED
    BY <1>2, InvariantParts

\* A step that posts or drops a handler, and touches nothing else the
\* invariant depends on but the progress of close().
LEMMA QuietStep ==
  ASSUME IInv, TypeOK',
         UNCHANGED <<active, strandVars, inflight, socket, wire>>,
         closer' # "idle" => ~active,
         Completing' <=> Completing,
         \A i, j \in DOMAIN tasks' : WrittenAt(i)' /\ WrittenAt(j)' => i = j,
         \A i \in DOMAIN tasks' : WrittenAt(i)' =>
           inflight = <<>> /\ (socket = "open" => tasks'[i].ec = "success"),
         \A i \in DOMAIN tasks' : tasks'[i].op = "clear" => ~active
  PROVE  IInv'
  <1>1. WriteParts /\ QueueParts /\ FlagParts
    BY InvariantParts
  <1>2. /\ active' = active /\ queue' = queue /\ writing' = writing
        /\ queuedCount' = queuedCount /\ overflowCount' = overflowCount
        /\ accepted' = accepted /\ inflight' = inflight /\ socket' = socket
        /\ wire' = wire
    BY DEF strandVars
  <1>3. OneWriteOutstanding'
    BY <1>1, <1>2 DEF WriteParts, OneWriteOutstanding
  <1>4. Outstanding' <=> Outstanding
    BY <1>2 DEF Outstanding
  <1>5. NoStrandedEntry' /\ WritingIsOutstanding' /\ NextOnWire'
    BY <1>1, <1>2, <1>4
       DEF WriteParts, NoStrandedEntry, WritingIsOutstanding, NextOnWire, BuffersAlive
  <1>6. QueueBounded' /\ WireInOrder' /\ QueueIsSuffix'
    BY <1>1, <1>2 DEF QueueParts, QueueBounded, WireInOrder, QueueIsSuffix
  <1>7. NothingLost'
    <2>1. CASE Completing
      BY <1>1, <1>2, <2>1 DEF QueueParts, NothingLost
    <2>2. CASE ~Completing
      BY <1>1, <1>2, <2>2 DEF QueueParts, NothingLost
    <2> QED
      BY <2>1, <2>2
  <1>8. FlagParts'
    BY <1>1, <1>2
       DEF FlagParts, SlowConsumerDisconnected, ClearOnlyInactive, FailedIsFinal
  <1> QED
    BY <1>3, <1>5, <1>6, <1>7, <1>8, InvariantParts DEF WriteParts, QueueParts

LEMMA SubmitPostStep ==
  ASSUME IInv, TypeOK', NEW p \in Producers, SubmitPost(p)
  PROVE  IInv'
  <1>1. TypeOK /\ OneWriteOutstanding /\ ClearOnlyInactive /\ FailedIsFinal
    BY DEF IInv
  <1>2. PICK t \in Task : t.op = "submit" /\ tasks' = Append(tasks, t)
    <2>1. held[p] \in Seq(Entry)
      BY <1>1 DEF TypeOK
    <2>2. SubmitTask(held[p]) \in Task /\ SubmitTask(held[p]).op = "submit"
      BY <2>1, NewTasks DEF SubmitTask
    <2> QED
      BY <2>2 DEF SubmitPost
  <1>3. /\ UNCHANGED <<active, strandVars, inflight, socket, wire>>
        /\ closer' = closer
    BY DEF SubmitPost
  <1>4. \A i \in DOMAIN tasks' : WrittenAt(i)' =>
          inflight = <<>> /\ (socket = "open" => tasks'[i].ec = "success")
    BY <1>1, <1>2, PostOther DEF OneWriteOutstanding, FailedIsFinal
  <1>5. \A i, j \in DOMAIN tasks' : WrittenAt(i)' /\ WrittenAt(j)' => i = j
    BY <1>1, <1>2, PostOther DEF OneWriteOutstanding
  <1>6. Completing' <=> Completing
    BY <1>2, PostOther
  <1>7. \A i \in DOMAIN tasks' : tasks'[i].op = "clear" => ~active
    BY <1>2, PostOther
  <1>8. closer' # "idle" => ~active
    BY <1>1, <1>3 DEF ClearOnlyInactive
  <1> QED
    BY <1>3, <1>4, <1>5, <1>6, <1>7, <1>8, QuietStep

LEMMA ClosePostStep ==
  ASSUME IInv, TypeOK', ClosePost
  PROVE  IInv'
  <1>1. TypeOK /\ OneWriteOutstanding /\ ClearOnlyInactive /\ FailedIsFinal
    BY DEF IInv
  <1>2. ClearTask \in Task /\ ClearTask.op # "written" /\ tasks' = Append(tasks, ClearTask)
    BY NewTasks DEF ClosePost, ClearTask
  <1>3. /\ UNCHANGED <<active, strandVars, inflight, socket, wire>>
        /\ ~active
    BY <1>1 DEF ClosePost, ClearOnlyInactive
  <1>4. \A i \in DOMAIN tasks' : WrittenAt(i)' =>
          inflight = <<>> /\ (socket = "open" => tasks'[i].ec = "success")
    BY <1>1, <1>2, PostOther DEF OneWriteOutstanding, FailedIsFinal
  <1>5. \A i, j \in DOMAIN tasks' : WrittenAt(i)' /\ WrittenAt(j)' => i = j
    BY <1>1, <1>2, PostOther DEF OneWriteOutstanding
  <1>6. Completing' <=> Completing
    BY <1>2, PostOther
  <1> QED
    BY <1>3, <1>4, <1>5, <1>6, QuietStep

LEMMA SubmitIgnoredStep ==
  ASSUME IInv, TypeOK', SubmitIgnored
  PROVE  IInv'
  <1>1. RunTask("submit") /\ ~active
    BY DEF SubmitIgnored, StillActive
  <1>2. UNCHANGED <<active, strandVars, inflight, socket, wire>>
    BY DEF SubmitIgnored
  <1> QED
    BY <1>1, <1>2, RunOther, QuietStep

LEMMA SubmitAcceptedStep ==
  ASSUME IInv, TypeOK', SubmitAccepted
  PROVE  IInv'
  <1>1. /\ TypeOK /\ OneWriteOutstanding /\ NoStrandedEntry /\ QueueBounded
        /\ SlowConsumerDisconnected /\ WireInOrder /\ ClearOnlyInactive
        /\ WritingIsOutstanding /\ QueueIsSuffix /\ NothingLost /\ NextOnWire
    BY DEF IInv
  <1>2. RunTask("submit") /\ active /\ active'
    BY DEF SubmitAccepted, StillActive
  <1>3. PICK b \in Seq(Entry) : b = Head(tasks).batch
    BY <1>1, <1>2, RunTaskProperties, TaskFields
  <1>4. /\ queue' = queue \o b
        /\ accepted' = accepted \o b
        /\ queuedCount' = Len(queue')
        /\ Len(queue) + Len(b) <= MaxQueueSize
        /\ UNCHANGED <<overflowCount, socket, closer, wire>>
    BY <1>3 DEF SubmitAccepted, Pushed, Fits, callerVars
  <1>5. /\ Completing' <=> Completing
        /\ \A i, j \in DOMAIN tasks' : WrittenAt(i)' /\ WrittenAt(j)' => i = j
        /\ \A i \in DOMAIN tasks' : WrittenAt(i)' =>
             inflight = <<>> /\ (socket = "open" => tasks'[i].ec = "success")
        /\ \A i \in DOMAIN tasks' : tasks'[i].op = "clear" => ~active
    BY <1>2, RunOther
  <1>6. /\ Len(queue') = Len(queue) + Len(b)
        /\ Len(accepted') = Len(accepted) + Len(b)
        /\ \A i \in 1..Len(queue) : queue'[i] = queue[i]
        /\ \A i \in 1..Len(b) : queue'[Len(queue) + i] = b[i]
        /\ \A i \in 1..Len(accepted) : accepted'[i] = accepted[i]
        /\ \A i \in 1..Len(b) : accepted'[Len(accepted) + i] = b[i]
    BY <1>1, <1>3, <1>4, ConcatIs DEF TypeOK
  <1>7. Len(queue) \in Nat /\ Len(accepted) \in Nat /\ Len(b) \in Nat /\ Len(wire) \in Nat
    BY <1>1, <1>3 DEF TypeOK
  <1>8. ASSUME writing
        PROVE  WriteParts'
    <2>1. inflight' = inflight /\ writing'
      BY <1>8 DEF SubmitAccepted
    <2>2. Outstanding /\ queue # <<>>
      BY <1>1, <1>2, <1>8 DEF WritingIsOutstanding, NoStrandedEntry
    <2>3. Outstanding'
      BY <1>5, <2>1, <2>2 DEF Outstanding
    <2>4. queue' # <<>> /\ Head(queue') = Head(queue)
      BY <1>1, <1>3, <1>4, <2>2 DEF TypeOK
    <2>5. OneWriteOutstanding'
      BY <1>1, <1>5, <2>1 DEF OneWriteOutstanding
    <2>6. NoStrandedEntry' /\ WritingIsOutstanding'
      BY <1>1, <1>2, <2>1, <2>3, <2>4
         DEF NoStrandedEntry, WritingIsOutstanding, BuffersAlive
    <2>7. NextOnWire'
      BY <1>1, <1>4, <1>6, <1>7, <2>1 DEF NextOnWire
    <2> QED
      BY <2>5, <2>6, <2>7 DEF WriteParts
  <1>9. ASSUME ~writing
        PROVE  WriteParts'
    <2>1. ~Completing /\ inflight = <<>> /\ queue = <<>>
      BY <1>1, <1>2, <1>9 DEF WritingIsOutstanding, NoStrandedEntry, Outstanding
    <2>2. queue' = b /\ Len(queue) = 0
      BY <1>3, <1>4, <2>1
    <2>3. ~Completing' /\ \A i \in DOMAIN tasks' : ~WrittenAt(i)'
      BY <1>5, <2>1 DEF Completing
    <2>4. DoWrite(queue')
      BY <1>9 DEF SubmitAccepted
    <2>5. CASE b = <<>>
      <3>1. inflight' = <<>> /\ queue' = <<>> /\ ~writing'
        BY <2>1, <2>2, <2>4, <2>5 DEF DoWrite
      <3> QED
        BY <2>3, <3>1 DEF OneWriteOutstanding, NoStrandedEntry, WritingIsOutstanding,
                          NextOnWire, Outstanding, WriteParts
    <2>6. CASE b # <<>>
      <3>1. writing' /\ inflight' = Append(<<>>, Head(b))
        BY <2>1, <2>2, <2>4, <2>6 DEF DoWrite
      <3>2. Len(inflight') = 1 /\ Head(inflight') = b[1] /\ inflight' # <<>> /\ Len(b) > 0
        BY <1>3, <2>6, <3>1
      <3>3. Head(queue') = Head(inflight') /\ queue' # <<>>
        BY <1>3, <2>2, <2>6, <3>2
      <3>4. OneWriteOutstanding'
        BY <2>3, <3>2 DEF OneWriteOutstanding
      <3>5. Outstanding'
        BY <3>2 DEF Outstanding
      <3>6. NoStrandedEntry' /\ WritingIsOutstanding'
        BY <3>1, <3>3, <3>5 DEF NoStrandedEntry, WritingIsOutstanding, BuffersAlive
      <3>7. socket = "open" => Len(wire) = Len(accepted)
        BY <1>1, <1>2, <1>7, <2>1, <2>2 DEF NothingLost
      <3>8. NextOnWire'
        BY <1>4, <1>6, <1>7, <3>2, <3>7 DEF NextOnWire
      <3> QED
        BY <3>4, <3>6, <3>8 DEF WriteParts
    <2> QED
      BY <2>5, <2>6
  <1>10. QueueBounded'
    BY <1>4, <1>6 DEF QueueBounded
  <1>11. SlowConsumerDisconnected' /\ ClearOnlyInactive'
    BY <1>1, <1>2, <1>4, <1>5 DEF SlowConsumerDisconnected, ClearOnlyInactive
  <1>12. WireInOrder'
    <2>1. Len(wire) <= Len(accepted) /\ DOMAIN wire = 1..Len(wire)
      BY <1>1, SequenceDomains DEF WireInOrder
    <2>2. \A i \in DOMAIN wire : accepted'[i] = accepted[i]
      BY <1>6, <1>7, <2>1
    <2> QED
      BY <1>1, <1>2, <1>4, <1>6, <1>7, <2>1, <2>2 DEF WireInOrder
  <1>13. QueueIsSuffix'
    <2>1. Len(queue') <= Len(accepted')
      BY <1>1, <1>6, <1>7 DEF QueueIsSuffix
    <2>2. ASSUME NEW i \in 1..Len(queue')
          PROVE  queue'[i] = accepted'[Len(accepted') - Len(queue') + i]
      <3>1. CASE i <= Len(queue)
        BY <1>1, <1>6, <1>7, <3>1 DEF QueueIsSuffix
      <3>2. CASE i > Len(queue)
        <4>1. PICK k \in 1..Len(b) : i = Len(queue) + k
          <5>1. Len(queue') = Len(queue) + Len(b)
            BY <1>6
          <5>2. i - Len(queue) \in 1..Len(b) /\ i = Len(queue) + (i - Len(queue))
            BY <1>7, <3>2, <5>1
          <5> QED
            BY <5>2
        <4>2. Len(accepted') - Len(queue') + i = Len(accepted) + k
          <5>1. /\ Len(queue') = Len(queue) + Len(b)
                /\ Len(accepted') = Len(accepted) + Len(b)
            BY <1>6
          <5> QED
            BY <1>7, <4>1, <5>1
        <4> QED
          BY <1>6, <4>1, <4>2
      <3> QED
        BY <1>7, <3>1, <3>2
    <2> QED
      BY <2>1, <2>2 DEF QueueIsSuffix
  <1>14. NothingLost'
    <2>1. socket = "open" => Len(wire) + Len(queue) = Len(accepted) + (IF Completing THEN 1 ELSE 0)
      BY <1>1, <1>2 DEF NothingLost
    <2>2. socket = "open" => Len(wire) + Len(queue') = Len(accepted') + (IF Completing' THEN 1 ELSE 0)
      <3>1. /\ Len(queue') = Len(queue) + Len(b)
            /\ Len(accepted') = Len(accepted) + Len(b)
        BY <1>6
      <3>2. CASE Completing
        BY <1>5, <1>7, <2>1, <3>1, <3>2
      <3>3. CASE ~Completing
        BY <1>5, <1>7, <2>1, <3>1, <3>3
      <3> QED
        BY <3>2, <3>3
    <2> QED
      BY <1>4, <2>2 DEF NothingLost
  <1>15. FailedIsFinal'
    BY <1>4, <1>5 DEF FailedIsFinal
  <1> QED
    BY <1>8, <1>9, <1>10, <1>11, <1>12, <1>13, <1>14, <1>15, InvariantParts
       DEF QueueParts, FlagParts

\* Once the serializer is inactive, most of the invariant asks for nothing.
LEMMA InactiveStep ==
  ASSUME IInv, TypeOK', ~active',
         OneWriteOutstanding', NextOnWire', FailedIsFinal', QueueIsSuffix',
         Len(queue') <= MaxQueueSize,
         UNCHANGED <<wire, accepted>>,
         overflowCount' <= 1,
         overflowCount' = 1 => socket' = "closed"
  PROVE  IInv'
  <1>1. WireInOrder
    BY DEF IInv
  <1>2. WireInOrder'
    BY <1>1 DEF WireInOrder
  <1>3. /\ NoStrandedEntry' /\ QueueBounded' /\ SlowConsumerDisconnected'
        /\ ClearOnlyInactive' /\ WritingIsOutstanding' /\ NothingLost'
    BY DEF NoStrandedEntry, QueueBounded, SlowConsumerDisconnected, ClearOnlyInactive,
           WritingIsOutstanding, NothingLost
  <1> QED
    BY <1>2, <1>3 DEF IInv

LEMMA CloseBeginStep ==
  ASSUME IInv, TypeOK', CloseBegin
  PROVE  IInv'
  <1>1. /\ OneWriteOutstanding /\ NextOnWire /\ FailedIsFinal /\ QueueIsSuffix
        /\ QueueBounded /\ SlowConsumerDisconnected
    BY DEF IInv
  <1>2. ~active' /\ UNCHANGED <<strandVars, tasks, inflight, socket, wire>>
    BY DEF CloseBegin
  <1>3. OneWriteOutstanding' /\ NextOnWire' /\ FailedIsFinal' /\ QueueIsSuffix'
    BY <1>1, <1>2 DEF strandVars, OneWriteOutstanding, NextOnWire, FailedIsFinal,
                      QueueIsSuffix, WrittenAt
  <1>4. /\ Len(queue') <= MaxQueueSize /\ overflowCount' <= 1
        /\ overflowCount' = 1 => socket' = "closed"
        /\ UNCHANGED <<wire, accepted>>
    BY <1>1, <1>2 DEF strandVars, QueueBounded, SlowConsumerDisconnected
  <1> QED
    BY <1>2, <1>3, <1>4, InactiveStep

LEMMA SubmitOverflowsStep ==
  ASSUME IInv, TypeOK', SubmitOverflows
  PROVE  IInv'
  <1>1. /\ TypeOK /\ OneWriteOutstanding /\ QueueIsSuffix
        /\ QueueBounded /\ SlowConsumerDisconnected
    BY DEF IInv
  <1>2. /\ RunTask("submit") /\ active /\ ~active'
        /\ overflowCount' = overflowCount + 1 /\ socket' = "closed"
        /\ UNCHANGED <<queue, accepted, inflight, wire>>
    BY DEF SubmitOverflows, StillActive, HandleOverflow
  <1>3. overflowCount = 0
    BY <1>1, <1>2 DEF SlowConsumerDisconnected, TypeOK
  <1>4. OneWriteOutstanding'
    BY <1>1, <1>2, RunOther DEF OneWriteOutstanding
  <1>5. NextOnWire' /\ FailedIsFinal' /\ QueueIsSuffix'
    BY <1>1, <1>2 DEF NextOnWire, FailedIsFinal, QueueIsSuffix
  <1>6. Len(queue') <= MaxQueueSize /\ overflowCount' <= 1
    BY <1>1, <1>2, <1>3 DEF QueueBounded
  <1> QED
    BY <1>2, <1>4, <1>5, <1>6, InactiveStep

\* An empty queue is a suffix of everything.
LEMMA EmptyQueue ==
  ASSUME TypeOK, TypeOK', queue' = <<>>, UNCHANGED accepted, QueueBounded
  PROVE  /\ QueueIsSuffix'
         /\ Len(queue') = 0
         /\ Len(queue') <= MaxQueueSize
  <1>1. Len(queue') = 0 /\ Len(accepted') \in Nat
    BY SequenceDomains
  <1>2. MaxQueueSize \in Nat
    BY SerializerAssumption
  <1> QED
    BY <1>1, <1>2 DEF QueueIsSuffix

LEMMA ClearQueueStep ==
  ASSUME IInv, TypeOK', ClearQueue
  PROVE  IInv'
  <1>1. /\ TypeOK /\ OneWriteOutstanding /\ NextOnWire /\ QueueBounded
        /\ SlowConsumerDisconnected /\ ClearOnlyInactive
    BY DEF IInv
  <1>2. /\ RunTask("clear") /\ queue' = <<>>
        /\ UNCHANGED <<active, overflowCount, accepted, inflight, socket, wire>>
    BY DEF ClearQueue, DropQueue
  <1>3. ~active'
    BY <1>1, <1>2, RunTaskProperties DEF ClearOnlyInactive
  <1>4. OneWriteOutstanding'
    BY <1>1, <1>2, RunOther DEF OneWriteOutstanding
  <1>5. NextOnWire'
    BY <1>1, <1>2 DEF NextOnWire
  <1>6. FailedIsFinal'
    BY <1>2, RunOther DEF FailedIsFinal
  <1>7. QueueIsSuffix' /\ Len(queue') <= MaxQueueSize
    BY <1>1, <1>2, EmptyQueue
  <1>8. overflowCount' <= 1 /\ (overflowCount' = 1 => socket' = "closed")
    BY <1>1, <1>2 DEF SlowConsumerDisconnected
  <1> QED
    BY <1>2, <1>3, <1>4, <1>5, <1>6, <1>7, <1>8, InactiveStep

LEMMA WriteFailedHandlerStep ==
  ASSUME IInv, TypeOK', WriteFailedHandler
  PROVE  IInv'
  <1>1. /\ TypeOK /\ QueueBounded /\ SlowConsumerDisconnected /\ ClearOnlyInactive
        /\ WireInOrder
    BY DEF IInv
  <1>2. /\ RunTask("written") /\ Head(tasks).ec # "success"
        /\ queue' = <<>> /\ ~writing' /\ queuedCount' = 0
        /\ UNCHANGED <<active, overflowCount, accepted, inflight, socket, wire, closer>>
    BY DEF WriteFailedHandler, DropQueue, StopWriting, callerVars
  <1>3. /\ ~Completing' /\ inflight' = <<>> /\ socket' # "open"
        /\ \A i \in DOMAIN tasks' : ~WrittenAt(i)'
        /\ \A i \in DOMAIN tasks' : tasks'[i].op = "clear" => ~active'
    BY <1>2, RunWritten
  <1>4. QueueIsSuffix' /\ Len(queue') = 0 /\ Len(queue') <= MaxQueueSize
    BY <1>1, <1>2, EmptyQueue
  <1>5. OneWriteOutstanding'
    BY <1>3 DEF OneWriteOutstanding
  <1>6. NoStrandedEntry' /\ WritingIsOutstanding' /\ NextOnWire'
    BY <1>2, <1>3 DEF NoStrandedEntry, WritingIsOutstanding, NextOnWire, Outstanding
  <1>7. QueueBounded'
    BY <1>2, <1>4 DEF QueueBounded
  <1>8. WireInOrder'
    BY <1>1, <1>2 DEF WireInOrder
  <1>9. NothingLost' /\ FailedIsFinal'
    BY <1>3 DEF NothingLost, FailedIsFinal
  <1>10. SlowConsumerDisconnected' /\ ClearOnlyInactive'
    BY <1>1, <1>2, <1>3 DEF SlowConsumerDisconnected, ClearOnlyInactive
  <1> QED
    BY <1>4, <1>5, <1>6, <1>7, <1>8, <1>9, <1>10 DEF IInv

LEMMA WrittenTooLateHandlerStep ==
  ASSUME IInv, TypeOK', WrittenTooLateHandler
  PROVE  IInv'
  <1>1. /\ TypeOK /\ QueueBounded /\ SlowConsumerDisconnected /\ NoStrandedEntry
        /\ QueueIsSuffix
    BY DEF IInv
  <1>2. /\ RunTask("written") /\ (~active \/ queue = <<>>)
        /\ UNCHANGED <<active, queue, overflowCount, accepted, inflight, socket, wire>>
    BY DEF WrittenTooLateHandler
  <1>3. /\ Completing /\ inflight' = <<>>
        /\ \A i \in DOMAIN tasks' : ~WrittenAt(i)'
    BY <1>2, RunWritten
  <1>4. ~active'
    BY <1>1, <1>2, <1>3 DEF NoStrandedEntry, Outstanding
  <1>5. OneWriteOutstanding' /\ NextOnWire' /\ FailedIsFinal'
    BY <1>3 DEF OneWriteOutstanding, NextOnWire, FailedIsFinal
  <1>6. QueueIsSuffix' /\ Len(queue') <= MaxQueueSize
    BY <1>1, <1>2 DEF QueueIsSuffix, QueueBounded
  <1>7. overflowCount' <= 1 /\ (overflowCount' = 1 => socket' = "closed")
    BY <1>1, <1>2 DEF SlowConsumerDisconnected
  <1> QED
    BY <1>2, <1>4, <1>5, <1>6, <1>7, InactiveStep

LEMMA WrittenHandlerStep ==
  ASSUME IInv, TypeOK', WrittenHandler
  PROVE  IInv'
  <1>1. /\ TypeOK /\ QueueBounded /\ SlowConsumerDisconnected /\ WireInOrder
        /\ ClearOnlyInactive /\ QueueIsSuffix /\ NothingLost
    BY DEF IInv
  <1>2. /\ RunTask("written") /\ active /\ queue # <<>>
        /\ queue' = Tail(queue) /\ queuedCount' = Len(queue') /\ DoWrite(queue')
        /\ UNCHANGED <<active, overflowCount, accepted, socket, closer, wire>>
    BY DEF WrittenHandler, Popped, callerVars
  <1>3. /\ ~Completing' /\ Completing /\ inflight = <<>>
        /\ \A i \in DOMAIN tasks' : ~WrittenAt(i)'
        /\ \A i \in DOMAIN tasks' : tasks'[i].op = "clear" => ~active
    BY <1>2, RunWritten
  <1>4. /\ Len(queue') = Len(queue) - 1 /\ Len(queue) \in Nat \ {0}
        /\ \A i \in 1..(Len(queue) - 1) : queue'[i] = queue[i + 1]
    BY <1>1, <1>2, TailIs DEF TypeOK
  <1>5. Len(accepted) \in Nat /\ Len(wire) \in Nat
    BY <1>1, SequenceDomains
  <1>6. socket = "open" => Len(wire) + Len(queue) = Len(accepted) + 1
    BY <1>1, <1>2, <1>3 DEF NothingLost
  <1>7. WriteParts'
    <2>1. CASE queue' = <<>>
      <3>1. inflight' = <<>> /\ ~writing'
        BY <1>2, <1>3, <2>1 DEF DoWrite
      <3> QED
        BY <1>3, <2>1, <3>1 DEF WriteParts, OneWriteOutstanding, NoStrandedEntry,
                                WritingIsOutstanding, NextOnWire, Outstanding
    <2>2. CASE queue' # <<>>
      <3>1. writing' /\ inflight' = Append(<<>>, Head(queue'))
        BY <1>2, <1>3, <2>2 DEF DoWrite
      <3>2. Len(inflight') = 1 /\ inflight' # <<>> /\ Head(inflight') = Head(queue')
        BY <2>2, <3>1 DEF TypeOK
      <3>3. Len(queue') > 0 /\ Head(queue') = queue'[1]
        BY <2>2 DEF TypeOK
      <3>4. OneWriteOutstanding'
        BY <1>3, <3>2 DEF OneWriteOutstanding
      <3>5. Outstanding'
        BY <3>2 DEF Outstanding
      <3>6. NoStrandedEntry' /\ WritingIsOutstanding'
        BY <2>2, <3>1, <3>2, <3>5 DEF NoStrandedEntry, WritingIsOutstanding, BuffersAlive
      <3>7. queue'[1] = queue[2] /\ queue[2] = accepted[Len(accepted) - Len(queue) + 2]
        BY <1>1, <1>4, <1>5, <3>3 DEF QueueIsSuffix
      <3>8. socket = "open" => /\ Len(wire) < Len(accepted)
                               /\ Len(wire) + 1 = Len(accepted) - Len(queue) + 2
        <4>1. Len(queue) \in Nat /\ Len(queue) >= 2
          BY <1>4, <3>3
        <4>2. CASE socket = "open"
          BY <1>5, <1>6, <4>1, <4>2
        <4> QED
          BY <4>2
      <3>9. NextOnWire'
        BY <1>2, <3>2, <3>3, <3>7, <3>8 DEF NextOnWire
      <3> QED
        BY <3>4, <3>6, <3>9 DEF WriteParts
    <2> QED
      BY <2>1, <2>2
  <1>8. QueueBounded'
    BY <1>1, <1>2, <1>4, SerializerAssumption DEF QueueBounded
  <1>9. WireInOrder'
    BY <1>1, <1>2 DEF WireInOrder
  <1>10. QueueIsSuffix'
    <2>1. ASSUME NEW i \in 1..Len(queue')
          PROVE  queue'[i] = accepted'[Len(accepted') - Len(queue') + i]
      <3>1. i + 1 \in 1..Len(queue) /\ queue'[i] = queue[i + 1]
        BY <1>4
      <3>2. queue[i + 1] = accepted[Len(accepted) - Len(queue) + (i + 1)]
        BY <1>1, <3>1 DEF QueueIsSuffix
      <3>3. Len(accepted) - Len(queue) + (i + 1) = Len(accepted') - Len(queue') + i
        BY <1>2, <1>4, <1>5
      <3> QED
        BY <1>2, <3>1, <3>2, <3>3
    <2>2. Len(queue') <= Len(accepted')
      BY <1>1, <1>2, <1>4, <1>5 DEF QueueIsSuffix
    <2> QED
      BY <2>1, <2>2 DEF QueueIsSuffix
  <1>11. NothingLost'
    BY <1>2, <1>3, <1>4, <1>5, <1>6 DEF NothingLost
  <1>12. FlagParts'
    BY <1>1, <1>2, <1>3
       DEF FlagParts, SlowConsumerDisconnected, ClearOnlyInactive, FailedIsFinal
  <1> QED
    BY <1>7, <1>8, <1>9, <1>10, <1>11, <1>12, InvariantParts DEF QueueParts

LEMMA WriteSucceedsStep ==
  ASSUME IInv, TypeOK', WriteSucceeds
  PROVE  IInv'
  <1>1. /\ TypeOK /\ QueueBounded /\ SlowConsumerDisconnected /\ WireInOrder
        /\ ClearOnlyInactive /\ QueueIsSuffix /\ NothingLost /\ NextOnWire
        /\ NoStrandedEntry /\ WritingIsOutstanding
    BY DEF IInv
  <1>2. /\ inflight # <<>> /\ socket = "open" /\ inflight' = Tail(inflight)
        /\ tasks' = Append(tasks, WrittenTask("success"))
        /\ active' = active /\ queue' = queue /\ writing' = writing
        /\ queuedCount' = queuedCount /\ overflowCount' = overflowCount
        /\ accepted' = accepted /\ socket' = socket /\ closer' = closer
    BY DEF WriteSucceeds, strandVars, callerVars
  <1>3. /\ ~Completing /\ Completing' /\ inflight' = <<>>
        /\ \A i \in DOMAIN tasks' :
             WrittenAt(i)' => i = Len(tasks) + 1 /\ tasks'[i].ec = "success"
        /\ \A i \in DOMAIN tasks' : tasks'[i].op = "clear" => ~active
    BY <1>2, PostWritten
  <1>4. OneWriteOutstanding' /\ FailedIsFinal' /\ NextOnWire'
    BY <1>3 DEF OneWriteOutstanding, FailedIsFinal, NextOnWire
  <1>5. Outstanding /\ Outstanding'
    BY <1>2, <1>3 DEF Outstanding
  <1>6. NoStrandedEntry' /\ WritingIsOutstanding'
    BY <1>1, <1>2, <1>3, <1>5 DEF NoStrandedEntry, WritingIsOutstanding
  <1>7. /\ Len(wire) < Len(accepted)
        /\ Head(inflight) = accepted[Len(wire) + 1]
    BY <1>1, <1>2 DEF NextOnWire
  <1>8. PICK e \in Entry \cup {Garbage} :
          /\ wire' = Append(wire, e)
          /\ e = accepted[Len(wire) + 1] \/ (e = Garbage /\ ~active)
    <2>1. Head(inflight) \in Entry
      BY <1>1, <1>2 DEF TypeOK
    <2>2. active => BuffersAlive
      BY <1>1, <1>2 DEF WritingIsOutstanding
    <2> QED
      BY <1>7, <2>1, <2>2 DEF WriteSucceeds
  <1>9. /\ Len(wire') = Len(wire) + 1
        /\ \A i \in 1..Len(wire) : wire'[i] = wire[i]
        /\ wire'[Len(wire) + 1] = e
        /\ Len(wire) \in Nat /\ Len(accepted) \in Nat /\ Len(queue) \in Nat
        /\ DOMAIN wire = 1..Len(wire) /\ DOMAIN wire' = 1..(Len(wire) + 1)
    BY <1>1, <1>8, SequenceDomains DEF TypeOK
  <1>10. WireInOrder'
    BY <1>1, <1>2, <1>7, <1>8, <1>9 DEF WireInOrder
  <1>11. NothingLost'
    <2>1. CASE active
      <3>1. Len(wire) + Len(queue) = Len(accepted)
        BY <1>1, <1>2, <1>3, <1>9, <2>1 DEF NothingLost
      <3>2. Len(wire') + Len(queue') = Len(accepted') + 1
        <4>1. Len(queue') = Len(queue) /\ Len(accepted') = Len(accepted)
          BY <1>2
        <4>2. /\ Len(wire') = Len(wire) + 1
              /\ Len(wire) \in Nat /\ Len(accepted) \in Nat /\ Len(queue) \in Nat
          BY <1>9
        <4> QED
          BY <3>1, <4>1, <4>2
      <3> QED
        BY <1>3, <3>2 DEF NothingLost
    <2>2. CASE ~active
      BY <1>2, <2>2 DEF NothingLost
    <2> QED
      BY <2>1, <2>2
  <1>12. QueueBounded' /\ QueueIsSuffix'
    BY <1>1, <1>2 DEF QueueBounded, QueueIsSuffix
  <1>13. SlowConsumerDisconnected' /\ ClearOnlyInactive'
    BY <1>1, <1>2, <1>3 DEF SlowConsumerDisconnected, ClearOnlyInactive
  <1> QED
    BY <1>4, <1>6, <1>10, <1>11, <1>12, <1>13 DEF IInv

LEMMA WriteFailsStep ==
  ASSUME IInv, TypeOK', WriteFails
  PROVE  IInv'
  <1>1. /\ TypeOK /\ QueueBounded /\ SlowConsumerDisconnected /\ WireInOrder
        /\ ClearOnlyInactive /\ QueueIsSuffix /\ NoStrandedEntry /\ WritingIsOutstanding
    BY DEF IInv
  <1>2. /\ inflight # <<>> /\ socket # "open" /\ inflight' = Tail(inflight)
        /\ tasks' = Append(tasks, WrittenTask("failure"))
        /\ active' = active /\ queue' = queue /\ writing' = writing
        /\ queuedCount' = queuedCount /\ overflowCount' = overflowCount
        /\ accepted' = accepted /\ socket' = socket /\ closer' = closer /\ wire' = wire
    BY DEF WriteFails, strandVars, callerVars
  <1>3. /\ Completing' /\ inflight' = <<>>
        /\ \A i \in DOMAIN tasks' : WrittenAt(i)' => i = Len(tasks) + 1
        /\ \A i \in DOMAIN tasks' : tasks'[i].op = "clear" => ~active
    BY <1>2, PostWritten
  <1>4. OneWriteOutstanding' /\ FailedIsFinal' /\ NextOnWire' /\ NothingLost'
    BY <1>2, <1>3 DEF OneWriteOutstanding, FailedIsFinal, NextOnWire, NothingLost
  <1>5. Outstanding /\ Outstanding'
    BY <1>2, <1>3 DEF Outstanding
  <1>6. NoStrandedEntry' /\ WritingIsOutstanding'
    BY <1>1, <1>2, <1>3, <1>5 DEF NoStrandedEntry, WritingIsOutstanding
  <1>7. WireInOrder' /\ QueueBounded' /\ QueueIsSuffix'
    BY <1>1, <1>2 DEF WireInOrder, QueueBounded, QueueIsSuffix
  <1>8. SlowConsumerDisconnected' /\ ClearOnlyInactive'
    BY <1>1, <1>2, <1>3 DEF SlowConsumerDisconnected, ClearOnlyInactive
  <1> QED
    BY <1>4, <1>6, <1>7, <1>8 DEF IInv

LEMMA SocketEndsStep ==
  ASSUME IInv, TypeOK', PeerBreaks \/ OwnerClosesSocket
  PROVE  IInv'
  <1>1. /\ active' = active /\ queue' = queue /\ writing' = writing
        /\ queuedCount' = queuedCount /\ overflowCount' = overflowCount
        /\ accepted' = accepted /\ closer' = closer /\ wire' = wire
        /\ tasks' = tasks /\ inflight' = inflight
        /\ socket' # "open"
        /\ socket = "closed" => socket' = "closed"
    BY DEF PeerBreaks, OwnerClosesSocket, strandVars, callerVars
  <1>2. NextOnWire' /\ NothingLost' /\ FailedIsFinal'
    BY <1>1 DEF NextOnWire, NothingLost, FailedIsFinal
  <1>3. OneWriteOutstanding' /\ NoStrandedEntry' /\ WritingIsOutstanding'
    BY <1>1 DEF IInv, OneWriteOutstanding, NoStrandedEntry, WritingIsOutstanding,
                Outstanding, Completing, WrittenAt, BuffersAlive
  <1>4. WireInOrder' /\ QueueBounded' /\ QueueIsSuffix'
    BY <1>1 DEF IInv, WireInOrder, QueueBounded, QueueIsSuffix
  <1>5. SlowConsumerDisconnected' /\ ClearOnlyInactive'
    BY <1>1 DEF IInv, SlowConsumerDisconnected, ClearOnlyInactive
  <1> QED
    BY <1>2, <1>3, <1>4, <1>5 DEF IInv

-----------------------------------------------------------------------------
LEMMA IInvInit == Init => IInv
  <1> SUFFICES ASSUME Init
               PROVE  IInv
    OBVIOUS
  <1>1. TypeOK
    BY TypeInit
  <1>2. /\ tasks = <<>> /\ inflight = <<>> /\ queue = <<>> /\ wire = <<>> /\ accepted = <<>>
        /\ active /\ ~writing /\ closer = "idle" /\ overflowCount = 0 /\ queuedCount = 0
    BY DEF Init
  <1>3. OneWriteOutstanding /\ FailedIsFinal /\ ClearOnlyInactive
    BY <1>2 DEF OneWriteOutstanding, FailedIsFinal, ClearOnlyInactive
  <1>4. ~Completing /\ ~Outstanding
    BY <1>2 DEF Completing, Outstanding
  <1>5. NoStrandedEntry /\ WritingIsOutstanding /\ NextOnWire
    BY <1>2, <1>4 DEF NoStrandedEntry, WritingIsOutstanding, NextOnWire
  <1>6. QueueBounded /\ SlowConsumerDisconnected
    BY <1>2, SerializerAssumption DEF QueueBounded, SlowConsumerDisconnected
  <1>7. WireInOrder /\ QueueIsSuffix
    BY <1>2 DEF WireInOrder, QueueIsSuffix
  <1>8. NothingLost
    BY <1>2, <1>4 DEF NothingLost
  <1> QED
    BY <1>1, <1>3, <1>5, <1>6, <1>7, <1>8 DEF IInv

LEMMA IInvNext == IInv /\ [Next]_vars => IInv'
  <1> SUFFICES ASSUME IInv, [Next]_vars
               PROVE  IInv'
    OBVIOUS
  <1>1. TypeOK /\ TypeOK'
    BY TypeNext DEF IInv
  <1>2. CASE Caller
    BY <1>1, <1>2, SubmitCheckStep, SubmitPostStep, CloseBeginStep, ClosePostStep DEF Caller
  <1>3. CASE StrandStep
    BY <1>1, <1>3, SubmitIgnoredStep, SubmitOverflowsStep, SubmitAcceptedStep, ClearQueueStep,
       WriteFailedHandlerStep, WrittenTooLateHandlerStep, WrittenHandlerStep DEF StrandStep
  <1>4. CASE SocketEvent
    BY <1>1, <1>4, WriteSucceedsStep, WriteFailsStep, SocketEndsStep DEF SocketEvent
  <1>5. CASE UNCHANGED vars
    <2>1. /\ UNCHANGED <<active, strandVars, inflight, socket, wire>>
          /\ tasks' = tasks /\ closer' = closer
      BY <1>5 DEF vars, callerVars
    <2> QED
      BY <1>1, <2>1
         DEF strandVars, IInv, OneWriteOutstanding,
           NoStrandedEntry, WritingIsOutstanding, NextOnWire, QueueBounded, WireInOrder,
           QueueIsSuffix, NothingLost, SlowConsumerDisconnected, ClearOnlyInactive,
           FailedIsFinal, Outstanding, Completing, WrittenAt, BuffersAlive
  <1> QED
    BY <1>2, <1>3, <1>4, <1>5 DEF Next

\* The inductive invariant holds in every reachable state.
THEOREM InvariantHolds == Spec => []IInv
  BY IInvInit, IInvNext, PTL DEF Spec

\* No two async_write operations are ever outstanding on the socket.
THEOREM OneWriteAtATime == Spec => []OneWriteOutstanding
<1>1. IInv => OneWriteOutstanding
  BY DEF IInv
<1> QED
  BY <1>1, InvariantHolds, PTL

\* An active serializer with something to write has a write outstanding.
THEOREM NoEntryStranded == Spec => []NoStrandedEntry
<1>1. IInv => NoStrandedEntry
  BY DEF IInv
<1> QED
  BY <1>1, InvariantHolds, PTL

\* The queue keeps its bound, and its published length is right.
THEOREM QueueStaysBounded == Spec => []QueueBounded
<1>1. IInv => QueueBounded
  BY DEF IInv
<1> QED
  BY <1>1, InvariantHolds, PTL

\* The peer receives the accepted entries in order, without gap or duplicate.
THEOREM DeliveryInOrder == Spec => []WireInOrder
<1>1. IInv => WireInOrder
  BY DEF IInv
<1> QED
  BY <1>1, InvariantHolds, PTL

\* An overflow is counted once and ends the connection.
THEOREM OverflowDisconnects == Spec => []SlowConsumerDisconnected
<1>1. IInv => SlowConsumerDisconnected
  BY DEF IInv
<1> QED
  BY <1>1, InvariantHolds, PTL
-----------------------------------------------------------------------------
\* Every step is one of WriteChannel or changes nothing WriteChannel sees.
LEMMA StepRefines ==
  ASSUME IInv, TypeOK', [Next]_vars
  PROVE  [Channel!Next]_<<accepted, wire, active>>
  <1>0. TypeOK /\ WritingIsOutstanding /\ NextOnWire
    BY DEF IInv
  <1> USE DEF Channel!Next, Channel!channelVars
  <1>1. CASE Caller
    <2>1. CASE CloseBegin
      <3>1. active' = FALSE /\ UNCHANGED <<accepted, wire>>
        BY <2>1 DEF CloseBegin, strandVars
      <3> QED
        BY <1>0, <3>1 DEF Channel!Shut, TypeOK
    <2>2. CASE ~CloseBegin
      BY <1>1, <2>2 DEF Caller, SubmitCheck, SubmitPost, ClosePost, strandVars
    <2> QED
      BY <2>1, <2>2
  <1>2. CASE SubmitAccepted
    <2>1. active /\ UNCHANGED <<wire, active>> /\ accepted' \in Seq(Entry)
      BY <1>2 DEF SubmitAccepted, StillActive, TypeOK
    <2>2. PICK b \in Seq(Entry) : accepted' = accepted \o b
      BY <1>0, <1>2, RunTaskProperties, TaskFields DEF SubmitAccepted
    <2>3. CASE b = <<>>
      BY <1>0, <2>1, <2>2, <2>3 DEF TypeOK
    <2>4. CASE b # <<>>
      <3>1. /\ Len(accepted') = Len(accepted) + Len(b)
            /\ \A i \in 1..Len(accepted) : accepted'[i] = accepted[i]
        BY <1>0, <2>2, ConcatIs DEF TypeOK
      <3>2. Len(b) \in Nat \ {0} /\ Len(accepted) \in Nat
        BY <1>0, <2>4 DEF TypeOK
      <3> QED
        BY <2>1, <3>1, <3>2 DEF Channel!Accept
    <2> QED
      BY <2>3, <2>4
  <1>3. CASE SubmitOverflows
    <2>1. active /\ active' = FALSE /\ UNCHANGED <<accepted, wire>>
      BY <1>3 DEF SubmitOverflows, StillActive, HandleOverflow
    <2> QED
      BY <2>1 DEF Channel!Shut
  <1>4. CASE \/ SubmitIgnored \/ ClearQueue \/ WriteFailedHandler
             \/ WrittenTooLateHandler \/ WrittenHandler
    BY <1>4 DEF SubmitIgnored, ClearQueue, WriteFailedHandler, WrittenTooLateHandler,
                WrittenHandler, strandVars
  <1>5. CASE WriteSucceeds
    <2>1. inflight # <<>> /\ socket = "open" /\ UNCHANGED <<accepted, active>>
      BY <1>5 DEF WriteSucceeds, strandVars
    <2>2. Len(wire) < Len(accepted) /\ Head(inflight) = accepted[Len(wire) + 1]
      BY <1>0, <2>1 DEF NextOnWire
    <2>3. ~BuffersAlive => ~active
      BY <1>0, <2>1 DEF WritingIsOutstanding
    <2> QED
      BY <1>5, <2>1, <2>2, <2>3 DEF WriteSucceeds, Channel!Deliver
  <1>6. CASE WriteFails \/ PeerBreaks \/ OwnerClosesSocket
    BY <1>6 DEF WriteFails, PeerBreaks, OwnerClosesSocket, strandVars
  <1>7. CASE UNCHANGED vars
    BY <1>7 DEF vars, strandVars
  <1> QED
    BY <1>1, <1>2, <1>3, <1>4, <1>5, <1>6, <1>7 DEF Next, StrandStep, SocketEvent

\* The serializer implements the ordered channel.
THEOREM RefinesChannel == Spec => ImplementsChannel
<1>1. Init => Channel!Init
  BY DEF Init, Channel!Init
<1>2. IInv /\ [Next]_vars => [Channel!Next]_<<accepted, wire, active>>
  BY StepRefines, TypeNext DEF IInv
<1> QED
  BY <1>1, <1>2, InvariantHolds, PTL DEF Spec, ImplementsChannel, Channel!Spec,
     Channel!channelVars

\* An inactive serializer stays inactive and accepts nothing.
THEOREM InactiveIsFinal == Spec => InactiveForGood
<1>1. ASSUME IInv, [Next]_vars
      PROVE  [~active => ~active' /\ accepted' = accepted]_vars
  <2>1. [Channel!Next]_<<accepted, wire, active>>
    BY <1>1, StepRefines, TypeNext DEF IInv
  <2> QED
    BY <2>1 DEF Channel!Next, Channel!Accept, Channel!Deliver, Channel!Shut
<1>2. IInv /\ [Next]_vars => [~active => ~active' /\ accepted' = accepted]_vars
  BY <1>1
<1> QED
  BY <1>2, InvariantHolds, PTL DEF Spec, InactiveForGood

-----------------------------------------------------------------------------
(* Records. *)

StreamFields == {"state", "peer", "shaken"}
ServerFields == {"todo", "reply", "eof"}

LEMMA ClosedStream ==
  ASSUME NEW r, DOMAIN r = StreamFields, NEW s
  PROVE  LET t == [r EXCEPT !.state = s]
         IN  DOMAIN t = StreamFields /\ t.state = s /\ t.shaken = r.shaken
BY DEF StreamFields

LEMMA OpenedStream ==
  ASSUME NEW r, DOMAIN r = StreamFields, NEW s, NEW p
  PROVE  LET t == [r EXCEPT !.state = s, !.peer = p]
         IN  DOMAIN t = StreamFields /\ t.state = s /\ t.shaken = r.shaken
BY DEF StreamFields

LEMMA ShakenStream ==
  ASSUME NEW r, DOMAIN r = StreamFields, NEW s
  PROVE  LET t == [r EXCEPT !.shaken = TRUE, !.state = s]
         IN  DOMAIN t = StreamFields /\ t.state = s /\ t.shaken
BY DEF StreamFields

LEMMA AskedServer ==
  ASSUME NEW r, DOMAIN r = ServerFields, NEW q
  PROVE  LET t == [r EXCEPT !.todo = q, !.reply = None]
         IN  DOMAIN t = ServerFields /\ t.todo = q /\ t.reply = None /\ t.eof = r.eof
BY DEF ServerFields

LEMMA ReadServer ==
  ASSUME NEW r, DOMAIN r = ServerFields
  PROVE  LET t == [r EXCEPT !.reply = None]
         IN  DOMAIN t = ServerFields /\ t.todo = r.todo /\ t.reply = None /\ t.eof = r.eof
BY DEF ServerFields

LEMMA GoneServer ==
  ASSUME NEW r, DOMAIN r = ServerFields
  PROVE  LET t == [r EXCEPT !.eof = TRUE]
         IN  DOMAIN t = ServerFields /\ t.todo = r.todo /\ t.reply = r.reply /\ t.eof
BY DEF ServerFields

LEMMA QuietServer ==
  DOMAIN Quiet = ServerFields /\ Quiet.todo = None /\ Quiet.reply = None /\ Quiet.eof = FALSE
BY DEF Quiet, ServerFields

LEMMA GivenBack ==
  ASSUME NEW r, "id" \in DOMAIN r, NEW n
  PROVE  [r EXCEPT !.id = n].id = n
OBVIOUS

LEMMA SameId ==
  ASSUME NEW r, "id" \in DOMAIN r, NEW a, NEW b, NEW c, NEW d
  PROVE  LET t == [r EXCEPT !.target = a, !.method = b, !.want = c, !.meant = d]
         IN  "id" \in DOMAIN t /\ t.id = r.id
OBVIOUS

-----------------------------------------------------------------------------
(* Answers and requests. *)

Fields == DOMAIN stream = StreamFields /\ DOMAIN server = ServerFields

\* Where the coroutine waits says whether there is a connection.
Places ==
  /\ pc \in {"writing", "reading"} => m_connected
  /\ pc \in {"resolving", "connecting", "handshaking"} => ~m_connected
  /\ pc \in {"handshaking", "closing"} => secure
  /\ secure /\ m_connected => stream.shaken

\* What is left of an earlier answer can only be on a connection on which no
\* more answers come: one that is closed, that the server has ended, or that
\* cannot shake hands again.
Leftover ==
  m_buffer # None =>
    /\ secure => stream.shaken
    /\ ~secure => pc \notin {"resolving", "connecting"}
    /\ stream.state = "closed" \/ server.eof \/ (secure /\ ~m_connected)

\* The server has the request of the call, and so is its answer.
Exchange ==
  /\ server.todo # None /\ ~server.eof /\ stream.state = "open" =>
       pc = "reading" /\ server.todo.id = req.id
  /\ pc = "handshaking" => server.todo = None
  /\ server.reply # None =>
       /\ pc = "reading" /\ server.todo = None /\ m_buffer = None
       /\ "id" \in DOMAIN server.reply /\ server.reply.id = req.id
  /\ pc \in {"writing", "reading"} \/ inner => "id" \in DOMAIN req

AnswerInv == Fields /\ Places /\ Leftover /\ Exchange /\ OwnAnswer

LEMMA Untouched ==
  ASSUME AnswerInv, UNCHANGED httpVars
  PROVE  AnswerInv'
BY DEF AnswerInv, Fields, Places, Leftover, Exchange, OwnAnswer, httpVars

LEMMA ConnectOwn ==
  ASSUME AnswerInv, NEW a, Connect(a)
  PROVE  AnswerInv'
BY DEF Connect, BeginConnect, Return, Err, Idle,
       AnswerInv, Fields, Places, Leftover, Exchange, OwnAnswer

LEMMA ResolveOwn ==
  ASSUME AnswerInv, Resolve
  PROVE  AnswerInv'
BY DEF Resolve, ConnectFails, Return, Err,
       AnswerInv, Fields, Places, Leftover, Exchange, OwnAnswer

LEMMA OpenStreamOwn ==
  ASSUME AnswerInv, OpenStream
  PROVE  AnswerInv'
<1>1. CASE server' = Quiet /\ stream' = [stream EXCEPT !.state = "open", !.peer = dest]
  <2>1. DOMAIN stream' = StreamFields /\ stream'.state = "open" /\ stream'.shaken = stream.shaken
    BY <1>1, OpenedStream DEF AnswerInv, Fields
  <2> QED
    BY <1>1, <2>1, QuietServer DEF OpenStream, Connected, ConnectFails, Return, Ok, Err,
       AnswerInv, Fields, Places, Leftover, Exchange, OwnAnswer
<1>2. CASE ConnectFails /\ stream' = [stream EXCEPT !.state = "closed"] /\ UNCHANGED server
  <2>1. DOMAIN stream' = StreamFields /\ stream'.state = "closed" /\ stream'.shaken = stream.shaken
    BY <1>2, ClosedStream DEF AnswerInv, Fields
  <2> QED
    BY <1>2, <2>1 DEF OpenStream, ConnectFails, Return, Err,
       AnswerInv, Fields, Places, Leftover, Exchange, OwnAnswer
<1> QED BY <1>1, <1>2 DEF OpenStream

LEMMA HandshakeOwn ==
  ASSUME AnswerInv, Handshake
  PROVE  AnswerInv'
<1> DEFINE after == IF stream.shaken THEN "closed" ELSE "open"
<1>1. CASE Connected /\ stream' = [stream EXCEPT !.shaken = TRUE, !.state = after]
  <2>1. DOMAIN stream' = StreamFields /\ stream'.state = after /\ stream'.shaken
    BY <1>1, ShakenStream DEF AnswerInv, Fields
  <2> QED
    BY <1>1, <2>1 DEF Handshake, Connected, Return, Ok,
       AnswerInv, Fields, Places, Leftover, Exchange, OwnAnswer
<1>2. CASE Return(Err("ssl_handshake_failed")) /\ UNCHANGED <<stream, m_connected, m_host>>
  BY <1>2 DEF Handshake, Return, Err,
     AnswerInv, Fields, Places, Leftover, Exchange, OwnAnswer
<1> QED BY <1>1, <1>2 DEF Handshake

\* What is common to the end of closing at once and of closing over TLS.
LEMMA ClosedOwn ==
  ASSUME AnswerInv, pc \notin {"writing", "reading"},
         NEW ec, ec.value = None, AfterClose(ec),
         ~m_connected',
         DOMAIN stream' = StreamFields, stream'.shaken = stream.shaken,
         stream'.state = "closed" \/ stream'.state = stream.state,
         ~secure => stream'.state = "closed" \/ m_buffer = None \/ server.eof,
         UNCHANGED <<secure, req, server>>
  PROVE  AnswerInv'
BY DEF AfterClose, Return,
       AnswerInv, Fields, Places, Leftover, Exchange, OwnAnswer

LEMMA BeginCloseOwn ==
  ASSUME AnswerInv, BeginClose, pc \in {"idle", "done", "redirecting"},
         UNCHANGED <<secure, req, server>>
  PROVE  AnswerInv'
<1>1. CASE secure /\ m_connected
  BY <1>1 DEF BeginClose, AnswerInv, Fields, Places, Leftover, Exchange, OwnAnswer
<1>2. CASE ~(secure /\ m_connected) /\ m_connected
  <2>1. /\ stream' = [stream EXCEPT !.state = "closed"] /\ ~m_connected'
        /\ AfterClose(Ok(None))
    BY <1>2 DEF BeginClose, DoClose
  <2>2. DOMAIN stream' = StreamFields /\ stream'.state = "closed" /\ stream'.shaken = stream.shaken
    BY <2>1, ClosedStream DEF AnswerInv, Fields
  <2>3. Ok(None).value = None
    BY DEF Ok
  <2> QED BY <2>1, <2>2, <2>3, ClosedOwn
<1>3. CASE ~m_connected
  <2>1. UNCHANGED <<stream, m_connected>> /\ AfterClose(Ok(None))
    BY <1>3 DEF BeginClose, DoClose
  <2>2. Ok(None).value = None
    BY DEF Ok
  <2>3. DOMAIN stream' = StreamFields
    BY <2>1 DEF AnswerInv, Fields
  <2>4. ~secure => stream'.state = "closed" \/ m_buffer = None \/ server.eof
    BY <2>1 DEF AnswerInv, Leftover
  <2> QED BY <1>3, <2>1, <2>2, <2>3, <2>4, ClosedOwn
<1> QED BY <1>1, <1>2, <1>3

LEMMA CloseTlsOwn ==
  ASSUME AnswerInv, CloseTls
  PROVE  AnswerInv'
<1>1. secure /\ ~m_connected' /\ UNCHANGED <<secure, req, server>>
  BY DEF CloseTls, AnswerInv, Places
<1>2. Ok(None).value = None /\ Err("shutdown").value = None
  BY DEF Ok, Err
<1>3. CASE AfterClose(Ok(None)) /\ stream' = [stream EXCEPT !.state = "closed"]
  <2>1. DOMAIN stream' = StreamFields /\ stream'.state = "closed" /\ stream'.shaken = stream.shaken
    BY <1>3, ClosedStream DEF AnswerInv, Fields
  <2> QED BY <1>1, <1>2, <1>3, <2>1, ClosedOwn DEF CloseTls
<1>4. CASE AfterClose(Err("shutdown")) /\ UNCHANGED <<stream, m_host>>
  <2>1. DOMAIN stream' = StreamFields
    BY <1>4 DEF AnswerInv, Fields
  <2> QED BY <1>1, <1>2, <1>4, <2>1, ClosedOwn DEF CloseTls
<1> QED BY <1>3, <1>4 DEF CloseTls

LEMMA SendRequestOwn ==
  ASSUME AnswerInv, NEW id, NEW method, NEW target, SendRequest(id, method, target)
  PROVE  AnswerInv'
<1>1. "id" \in DOMAIN req'
  BY DEF SendRequest
<1>2. Idle /\ BeginSend /\ UNCHANGED <<secure, m_connected, m_buffer, stream, server>>
  BY DEF SendRequest
<1> QED
  BY <1>1, <1>2 DEF Idle, BeginSend, Return, Err,
     AnswerInv, Fields, Places, Leftover, Exchange, OwnAnswer

LEMMA WriteOwn ==
  ASSUME AnswerInv, Write
  PROVE  AnswerInv'
<1>1. CASE stream.state = "open"
  <2>1. /\ DOMAIN server' = ServerFields /\ server'.todo = req
        /\ server'.reply = None /\ server'.eof = server.eof
    <3>1. server' = [server EXCEPT !.todo = req, !.reply = None]
      BY <1>1 DEF Write
    <3>2. DOMAIN server = ServerFields
      BY DEF AnswerInv, Fields
    <3> QED BY <3>1, <3>2, AskedServer
  <2> QED
    BY <1>1, <2>1 DEF Write, AnswerInv, Fields, Places, Leftover, Exchange, OwnAnswer
<1>2. CASE stream.state # "open"
  BY <1>2 DEF Write, HandleRequestError, Return, Err,
     AnswerInv, Fields, Places, Leftover, Exchange, OwnAnswer
<1> QED BY <1>1, <1>2

\* A redirection keeps the number of the request.
LEMMA RedirectFollowed ==
  ASSUME "id" \in DOMAIN req, NEW response, FollowRedirect(response)
  PROVE  /\ req'.id = req.id /\ "id" \in DOMAIN req'
         /\ \/ pc' = "done" /\ ~result'.ok /\ inner' = FALSE
            \/ pc' = "redirecting" /\ inner' = TRUE
            \/ m_connected' /\ pc' = "writing" /\ UNCHANGED inner
<1> DEFINE to  == ParseLocation(response.location)
           get == ShouldConvertToGet(response.status, req.method)
           q   == [req EXCEPT !.target = to.target,
                              !.method = IF get THEN "get" ELSE req.method,
                              !.want = response.location.addr,
                              !.meant = response.location.means]
<1>1. "id" \in DOMAIN q /\ q.id = req.id
  <2> DEFINE method == IF get THEN "get" ELSE req.method
  <2> HIDE DEF to, get, method
  <2> SUFFICES LET t == [req EXCEPT !.target = to.target, !.method = method,
                                    !.want = response.location.addr,
                                    !.meant = response.location.means]
               IN  "id" \in DOMAIN t /\ t.id = req.id
    BY DEF method
  <2> QED BY SameId
<1>2. \/ UNCHANGED req /\ Return(Err("too_many_redirects"))
      \/ UNCHANGED req /\ Return(Err("invalid_redirect"))
      \/ UNCHANGED req /\ Return(Err("downgrade_forbidden"))
      \/ UNCHANGED req /\ Return(Err("https_required"))
      \/ req' = q /\ pc' = "redirecting" /\ inner' = TRUE
      \/ req' = q /\ m_connected' /\ pc' = "writing" /\ UNCHANGED inner
      \/ req' = q /\ Return(Err("not_connected"))
  BY DEF FollowRedirect
<1> HIDE DEF to, get, q
<1>3. req'.id = req.id /\ "id" \in DOMAIN req'
  BY <1>1, <1>2
<1>4. \/ pc' = "done" /\ ~result'.ok /\ inner' = FALSE
      \/ pc' = "redirecting" /\ inner' = TRUE
      \/ m_connected' /\ pc' = "writing" /\ UNCHANGED inner
  BY <1>2 DEF Return, Err
<1> QED BY <1>3, <1>4

\* What an answer leads to: it is returned, or its redirection is followed.
LEMMA HandleResponseOwn ==
  ASSUME AnswerInv, pc = "reading", NEW response, response.id = req.id,
         HandleResponse(response), m_buffer' = None,
         DOMAIN server' = ServerFields, server'.todo = None, server'.reply = None,
         UNCHANGED <<secure, m_host>>
  PROVE  AnswerInv'
<1>1. DOMAIN stream' = StreamFields /\ stream'.shaken = stream.shaken
  <2>1. DOMAIN stream = StreamFields
    BY DEF AnswerInv, Fields
  <2>2. UNCHANGED stream \/ stream' = [stream EXCEPT !.state = "closed"]
    BY DEF HandleResponse
  <2>3. CASE UNCHANGED stream
    BY <2>1, <2>3
  <2>4. CASE stream' = [stream EXCEPT !.state = "closed"]
    BY <2>1, <2>4, ClosedStream
  <2> QED BY <2>2, <2>3, <2>4
<1>2. secure /\ m_connected' => stream'.shaken
  BY <1>1 DEF HandleResponse, AnswerInv, Places
<1>3. secure => m_connected'
  BY DEF HandleResponse, AnswerInv, Places
<1>4. CASE ~(IsRedirectStatus(response.status) /\ Follow)
  <2>1. pc' = "done" /\ result' = Ok(response) /\ inner' = FALSE /\ UNCHANGED req
    BY <1>4 DEF HandleResponse, Return
  <2>2. Ok(response).value = response
    BY DEF Ok
  <2> QED
    BY <1>1, <1>2, <2>1, <2>2 DEF AnswerInv, Fields, Places, Leftover, Exchange, OwnAnswer
<1>5. CASE FollowRedirect(response)
  <2>1. "id" \in DOMAIN req
    BY DEF AnswerInv, Exchange
  <2>2. req'.id = req.id /\ "id" \in DOMAIN req'
    BY <1>5, <2>1, RedirectFollowed
  <2>3. \/ pc' = "done" /\ ~result'.ok /\ inner' = FALSE
        \/ pc' = "redirecting" /\ inner' = TRUE
        \/ m_connected' /\ pc' = "writing"
    BY <1>5, <2>1, RedirectFollowed
  <2>4. Fields' /\ Places'
    BY <1>1, <1>2, <2>3 DEF AnswerInv, Fields, Places
  <2>5. Leftover' /\ Exchange'
    BY <2>2, <2>3 DEF Leftover, Exchange
  <2>6. OwnAnswer'
    BY <2>3 DEF OwnAnswer
  <2> QED BY <2>4, <2>5, <2>6 DEF AnswerInv
<1> QED BY <1>4, <1>5 DEF HandleResponse

LEMMA ReadResponseOwn ==
  ASSUME AnswerInv, ReadResponse
  PROVE  AnswerInv'
<1>1. /\ pc = "reading" /\ server.todo = None /\ m_buffer = None
      /\ "id" \in DOMAIN server.reply /\ server.reply.id = req.id
  BY DEF ReadResponse, AnswerInv, Exchange
<1>2. /\ DOMAIN server' = ServerFields /\ server'.todo = server.todo
      /\ server'.reply = None /\ server'.eof = server.eof
  <2>1. server' = [server EXCEPT !.reply = None] /\ DOMAIN server = ServerFields
    BY DEF ReadResponse, AnswerInv, Fields
  <2> QED BY <2>1, ReadServer
<1>3. CASE server.reply.whole
  <2> DEFINE n == IF m_buffer = None THEN server.reply.id ELSE m_buffer
             response == [server.reply EXCEPT !.id = n]
  <2>1. HandleResponse(response) /\ m_buffer' = None /\ UNCHANGED <<secure, m_host>>
    BY <1>3 DEF ReadResponse
  <2>2. n = req.id
    BY <1>1
  <2>3. response.id = n
    <3> HIDE DEF n
    <3> QED BY <1>1, GivenBack
  <2> HIDE DEF response, n
  <2> QED BY <1>1, <1>2, <2>1, <2>2, <2>3, HandleResponseOwn
<1>4. CASE ~server.reply.whole
  <2>1. server.eof /\ HandleRequestError("other")
        /\ UNCHANGED <<stream, req, secure>>
    BY <1>4 DEF ReadResponse
  <2> QED
    BY <1>1, <1>2, <2>1 DEF HandleRequestError, Return, Err,
       AnswerInv, Fields, Places, Leftover, Exchange, OwnAnswer
<1> QED BY <1>3, <1>4

LEMMA ReadEofOwn ==
  ASSUME AnswerInv, ReadEof
  PROVE  AnswerInv'
<1>1. PICK kind \in {"eof", "other"} : HandleRequestError(kind)
  BY DEF ReadEof
<1> QED
  BY <1>1 DEF ReadEof, HandleRequestError, Return, Err,
     AnswerInv, Fields, Places, Leftover, Exchange, OwnAnswer

LEMMA TimeoutOwn ==
  ASSUME AnswerInv, Timeout
  PROVE  AnswerInv'
<1>1. DOMAIN stream' = StreamFields /\ stream'.state = "closed" /\ stream'.shaken = stream.shaken
  <2>1. stream' = [stream EXCEPT !.state = "closed"] /\ DOMAIN stream = StreamFields
    BY DEF Timeout, AnswerInv, Fields
  <2> QED BY <2>1, ClosedStream
<1>2. CASE pc = "connecting"
  BY <1>1, <1>2 DEF Timeout, Return, Err,
     AnswerInv, Fields, Places, Leftover, Exchange, OwnAnswer
<1>3. CASE pc = "reading"
  <2>1. /\ DOMAIN server' = ServerFields /\ server'.todo = server.todo
        /\ server'.reply = None /\ server'.eof = server.eof
    <3>1. server' = [server EXCEPT !.reply = None] /\ DOMAIN server = ServerFields
      BY <1>3 DEF Timeout, AnswerInv, Fields
    <3> QED BY <3>1, ReadServer
  <2>2. HandleRequestError("timeout") /\ UNCHANGED <<secure, req>>
    BY <1>3 DEF Timeout
  <2> QED
    BY <1>1, <1>3, <2>1, <2>2 DEF HandleRequestError, Return, Err,
       AnswerInv, Fields, Places, Leftover, Exchange, OwnAnswer
<1> QED BY <1>2, <1>3 DEF Timeout

\* A server answers the request it has and no other.
LEMMA ServeOwn ==
  ASSUME AnswerInv, NEW bodies, Serve(bodies)
  PROVE  AnswerInv'
<1>1. /\ server.todo # None /\ ~server.eof /\ stream.state = "open"
      /\ UNCHANGED <<secure, m_connected, m_buffer, stream, pc, req, inner, result>>
  BY DEF Serve
<1>2. pc = "reading" /\ server.todo.id = req.id /\ m_buffer = None
  BY <1>1 DEF AnswerInv, Places, Leftover, Exchange
<1>3. ASSUME NEW r, NEW eof, "id" \in DOMAIN r /\ r.id = req.id,
             Answer(r, eof)
      PROVE  AnswerInv'
  <2>1. DOMAIN server' = ServerFields /\ server'.todo = None /\ server'.reply = r
    BY <1>3 DEF Answer, ServerFields
  <2> QED
    BY <1>1, <1>2, <1>3, <2>1 DEF AnswerInv, Fields, Places, Leftover, Exchange, OwnAnswer
<1>4. CASE server' = [Quiet EXCEPT !.eof = TRUE]
  <2>1. /\ DOMAIN server' = ServerFields /\ server'.todo = None
        /\ server'.reply = None
    BY <1>4, QuietServer, GoneServer
  <2> QED
    BY <1>1, <1>2, <2>1 DEF AnswerInv, Fields, Places, Leftover, Exchange, OwnAnswer
<1>5. ASSUME NEW b, NEW keep,
             Answer(Reply(200, keep, TRUE, None, b), ~keep)
      PROVE  AnswerInv'
  <2> DEFINE r == Reply(200, keep, TRUE, None, b)
  <2>1. "id" \in DOMAIN r /\ r.id = req.id
    BY <1>2 DEF Reply
  <2>2. Answer(r, ~keep)
    BY <1>5
  <2> HIDE DEF r
  <2> QED BY <1>3, <2>1, <2>2
<1>6. ASSUME NEW status, NEW keep, NEW loc,
             Answer(Reply(status, keep, TRUE, loc, None), ~keep)
      PROVE  AnswerInv'
  <2> DEFINE r == Reply(status, keep, TRUE, loc, None)
  <2>1. "id" \in DOMAIN r /\ r.id = req.id
    BY <1>2 DEF Reply
  <2>2. Answer(r, ~keep)
    BY <1>6
  <2> HIDE DEF r
  <2> QED BY <1>3, <2>1, <2>2
<1>7. ASSUME NEW status,
             Answer(Reply(status, TRUE, TRUE, None, "fault"), FALSE)
      PROVE  AnswerInv'
  <2> DEFINE r == Reply(status, TRUE, TRUE, None, "fault")
  <2>1. "id" \in DOMAIN r /\ r.id = req.id
    BY <1>2 DEF Reply
  <2>2. Answer(r, FALSE)
    BY <1>7
  <2> HIDE DEF r
  <2> QED BY <1>3, <2>1, <2>2
<1>8. ASSUME NEW eof,
             Answer(Reply(200, TRUE, FALSE, None, "full"), eof)
      PROVE  AnswerInv'
  <2> DEFINE r == Reply(200, TRUE, FALSE, None, "full")
  <2>1. "id" \in DOMAIN r /\ r.id = req.id
    BY <1>2 DEF Reply
  <2>2. Answer(r, eof)
    BY <1>8
  <2> HIDE DEF r
  <2> QED BY <1>3, <2>1, <2>2
<1>9. CASE Responds(bodies)
  BY <1>5, <1>9 DEF Responds
<1>10. CASE Redirects
  BY <1>6, <1>10 DEF Redirects
<1>11. CASE Rejects
  BY <1>7, <1>11 DEF Rejects
<1>12. CASE BreaksOff
  BY <1>4, <1>8, <1>12 DEF BreaksOff
<1> QED BY <1>9, <1>10, <1>11, <1>12 DEF Serve

LEMMA ServerClosesOwn ==
  ASSUME AnswerInv, ServerCloses
  PROVE  AnswerInv'
<1>1. /\ DOMAIN server' = ServerFields /\ server'.todo = server.todo
      /\ server'.reply = server.reply /\ server'.eof
  <2>1. server' = [server EXCEPT !.eof = TRUE] /\ DOMAIN server = ServerFields
    BY DEF ServerCloses, AnswerInv, Fields
  <2> QED BY <2>1, GoneServer
<1> QED
  BY <1>1 DEF ServerCloses, AnswerInv, Fields, Places, Leftover, Exchange, OwnAnswer

LEMMA NextOwn ==
  ASSUME AnswerInv, [OnvifNext]_systemVars
  PROVE  AnswerInv'
<1>1. CASE AppStep
  <2>1. CASE Close
    BY <2>1, BeginCloseOwn DEF Close, Idle
  <2> QED BY <1>1, <2>1, ConnectOwn, SendRequestOwn DEF AppStep
<1>2. ASSUME NEW name, NEW service, NEW todo, NEW pick, Request(name, service, todo, pick)
      PROVE  AnswerInv'
  <2>1. UNCHANGED <<secure, m_connected, m_buffer, stream, pc, req, inner, result, server>>
    BY <1>2 DEF Request, Refuse, httpVars
  <2> QED
    BY <2>1 DEF AnswerInv, Fields, Places, Leftover, Exchange, OwnAnswer
<1>3. CASE DeviceCall
  BY <1>2, <1>3, ConnectOwn DEF DeviceCall, CheckConnection, Initialize, ConnectCall,
     GetDeviceInformation
<1>4. CASE MediaCall
  BY <1>2, <1>4 DEF MediaCall, GetProfiles, GetStreamUri, GetMainStreamUri, GetSecondStreamUri
<1>5. CASE PtzCall
  BY <1>2, <1>5 DEF PtzCall, ContinuousMove, StopMove, SetPreset, GetPresets, GotoPreset,
     RemovePreset, MoveFocus, MoveIris
<1>6. CASE OnvifStep
  BY <1>6, Untouched, ConnectOwn, SendRequestOwn DEF OnvifStep, Ensure, AfterConnect, TakeAnswer
<1>7. CASE HttpStep
  <2>1. CASE Reconnect
    BY <2>1, BeginCloseOwn DEF Reconnect
  <2> QED
    BY <1>7, <2>1, ResolveOwn, OpenStreamOwn, HandshakeOwn, CloseTlsOwn, WriteOwn,
       ReadResponseOwn, ReadEofOwn, TimeoutOwn DEF HttpStep, ClientStep
<1>8. CASE CameraStep
  BY <1>8, ServeOwn DEF CameraStep
<1>9. CASE ClosedIdle
  BY <1>9, ServerClosesOwn DEF ClosedIdle
<1>10. CASE UNCHANGED systemVars
  BY <1>10, Untouched DEF systemVars
<1> QED
  BY <1>1, <1>3, <1>4, <1>5, <1>6, <1>7, <1>8, <1>9, <1>10 DEF OnvifNext

(***************************************************************************)
(* AnswersAreOwn: what is left of an answer that was given up or broken off *)
(* is never read as the answer to a later request, over HTTP and over TLS.  *)
(***************************************************************************)
THEOREM AnswersAreOwn == OnvifSpec => []OwnAnswer
<1>1. OnvifInit => AnswerInv
  <2> SUFFICES ASSUME OnvifInit PROVE AnswerInv
    OBVIOUS
  <2>1. DOMAIN stream = StreamFields
    BY DEF OnvifInit, HttpInit, StreamFields
  <2> QED
    BY <2>1, QuietServer DEF OnvifInit, HttpInit,
       AnswerInv, Fields, Places, Leftover, Exchange, OwnAnswer
<1>2. AnswerInv /\ [OnvifNext]_systemVars => AnswerInv'
  BY NextOwn
<1>3. AnswerInv => OwnAnswer
  BY DEF AnswerInv
<1> QED BY <1>1, <1>2, <1>3, PTL DEF OnvifSpec

-----------------------------------------------------------------------------
(* Services. *)

ServesInv ==
  /\ m_initialized => m_media = camera.media /\ IsPath(m_media)
  /\ m_ptz # None => m_ptz = camera.ptz

LEMMA UntouchedServices ==
  ASSUME ServesInv, UNCHANGED <<camera, m_media, m_ptz, m_initialized>>
  PROVE  ServesInv'
BY DEF ServesInv, IsPath

\* An answer to a question for the capabilities initializes, no other does.
LEMMA WhatInitializes ==
  ASSUME NEW body, Answered(body)
  PROVE  \/ UNCHANGED <<m_media, m_ptz, m_initialized>>
         \/ InitializeServices(ParseCapabilities(body).value)
<1> DEFINE step == Head(call.todo)
<1>1. CASE step = "capabilities"
  <2>1. \/ ~ParseCapabilities(body).ok /\ Same
        \/ InitializeServices(ParseCapabilities(body).value)
    BY <1>1 DEF Answered, ParseCapabilities, Ok
  <2> QED BY <2>1 DEF Same
<1>2. CASE step # "capabilities"
  <2>1. Same
    BY <1>2 DEF Answered
  <2> QED BY <2>1 DEF Same
<1> QED BY <1>1, <1>2

LEMMA InitializeServes ==
  ASSUME ServesInv, UNCHANGED camera, NEW body,
         InitializeServices(ParseCapabilities(body).value)
  PROVE  ServesInv'
<1> DEFINE caps == ParseCapabilities(body).value
<1>1. \/ caps.media = NoXAddr /\ caps.ptz = None
      \/ caps.media = camera.media /\ caps.ptz = camera.ptz
  BY DEF ParseCapabilities, Ok
<1> HIDE DEF caps
<1>2. PtzService(caps) # None => PtzService(caps) = camera.ptz
  BY <1>1 DEF PtzService, IsPath, ServesInv
<1>3. CASE MediaService(caps).ok
  <2>1. /\ caps.media # NoXAddr /\ IsPath(caps.media)
        /\ MediaService(caps).value = caps.media
    BY <1>3 DEF MediaService, Ok, Err
  <2>2. /\ m_media' = caps.media /\ m_ptz' = PtzService(caps)
    BY <1>3, <2>1 DEF InitializeServices, caps
  <2> QED BY <1>1, <1>2, <2>1, <2>2 DEF ServesInv, IsPath
<1>4. CASE ~MediaService(caps).ok
  BY <1>4, UntouchedServices DEF InitializeServices, caps
<1> QED BY <1>3, <1>4

LEMMA NextServes ==
  ASSUME ServesInv, [OnvifNext]_systemVars
  PROVE  ServesInv'
<1>1. CASE AppStep
  BY <1>1, UntouchedServices DEF AppStep, onvifVars
<1>2. CASE DeviceCall
  BY <1>2, UntouchedServices DEF DeviceCall, CheckConnection, Initialize, ConnectCall,
     GetDeviceInformation, Request
<1>3. CASE MediaCall
  BY <1>3, UntouchedServices DEF MediaCall, GetProfiles, GetStreamUri, GetMainStreamUri,
     GetSecondStreamUri, Request
<1>4. CASE PtzCall
  BY <1>4, UntouchedServices DEF PtzCall, ContinuousMove, StopMove, SetPreset, GetPresets,
     GotoPreset, RemovePreset, MoveFocus, MoveIris, Request
<1>5. CASE Ensure \/ AfterConnect
  BY <1>5, UntouchedServices DEF Ensure, AfterConnect
<1>6. CASE TakeAnswer
  <2> DEFINE soap == SoapAnswer(result)
  <2>1. UNCHANGED camera /\ (Answered(soap.value) \/ Same)
    BY <1>6 DEF TakeAnswer
  <2> HIDE DEF soap
  <2>2. CASE Answered(soap.value)
    BY <2>1, <2>2, WhatInitializes, InitializeServes, UntouchedServices
  <2>3. CASE Same
    BY <2>1, <2>3, UntouchedServices DEF Same
  <2> QED BY <2>1, <2>2, <2>3
<1>7. CASE HttpStep \/ CameraStep \/ ClosedIdle
  BY <1>7, UntouchedServices DEF HttpStep, CameraStep, ClosedIdle, onvifVars
<1>8. CASE UNCHANGED systemVars
  BY <1>8, UntouchedServices DEF systemVars, onvifVars
<1> QED BY <1>1, <1>2, <1>3, <1>4, <1>5, <1>6, <1>7, <1>8 DEF OnvifNext, OnvifStep

(***************************************************************************)
(* InitializedIsServed: whatever became of the initialize() calls before, a *)
(* client that calls itself initialized has the media service of its camera *)
(* and no PTZ service that the camera has not.                              *)
(***************************************************************************)
THEOREM InitializedIsServed == OnvifSpec => []InitializedServes
<1>1. OnvifInit => ServesInv
  BY DEF OnvifInit, ServesInv
<1>2. ServesInv /\ [OnvifNext]_systemVars => ServesInv'
  BY NextServes
<1>3. ServesInv => InitializedServes
  BY DEF ServesInv, InitializedServes
<1> QED BY <1>1, <1>2, <1>3, PTL DEF OnvifSpec

-----------------------------------------------------------------------------
(* How often requests are carried out. *)

ReplyFields == {"id", "status", "keep", "whole", "location", "body"}
CallFields  == {"name", "phase", "todo", "target", "pick", "token", "id"}
Failures    == {"fault", "flat_fault", "junk", None}

\* What a caller takes for success.
Carried(r) == ~(r.status >= 400) /\ r.body \notin Failures

Counted == done \in Seq(Nat) /\ \A i \in DOMAIN done : done[i] <= 1

\* A request that is still to be sent, or is with the server, was not carried
\* out; one that was redirected neither, and one that succeeded was.
Unsent ==
  /\ inner => pc \notin {"writing", "reading", "idle", "done"}
  /\ pc = "writing" \/ inner \/ (pc = "reading" /\ server.todo # None) =>
       req.id \in DOMAIN done /\ done[req.id] = 0

Replied ==
  server.reply # None =>
    /\ DOMAIN server.reply = ReplyFields /\ req.id \in DOMAIN done
    /\ IsRedirectStatus(server.reply.status) => done[req.id] = 0
    /\ Carried(server.reply) => done[req.id] = 1

CountInv == Counted /\ Unsent /\ Replied

\* While a request is being sent, connections are made and closed for its
\* redirections only, and what comes back is what became of it.
Sending ==
  /\ pc \in {"resolving", "connecting", "handshaking", "closing", "redirecting"} => inner
  /\ pc = "done" /\ result.ok /\ Carried(result.value) => done[req.id] = 1

LEMMA ReplyKept ==
  ASSUME NEW r, DOMAIN r = ReplyFields, NEW n
  PROVE  LET t == [r EXCEPT !.id = n]
         IN  t.status = r.status /\ t.body = r.body
BY DEF ReplyFields

LEMMA ConnectCount ==
  ASSUME CountInv, NEW a, Connect(a)
  PROVE  CountInv'
BY DEF Connect, BeginConnect, Return, Idle, CountInv, Counted, Unsent, Replied

LEMMA ResolveCount ==
  ASSUME CountInv, Resolve
  PROVE  CountInv' /\ (Sending => Sending')
<1>1. CountInv'
  BY DEF Resolve, ConnectFails, Return, CountInv, Counted, Unsent, Replied
<1>2. \/ pc' = "connecting" /\ UNCHANGED inner
      \/ pc' = "done" /\ ~result'.ok
  BY DEF Resolve, ConnectFails, Return, Err
<1>3. Sending => Sending'
  BY <1>2 DEF Sending, Resolve
<1> QED BY <1>1, <1>3

LEMMA OpenStreamCount ==
  ASSUME CountInv, OpenStream
  PROVE  CountInv' /\ (Sending => Sending')
<1>1. CountInv'
  BY QuietServer DEF OpenStream, Connected, ConnectFails, Return, CountInv, Counted, Unsent, Replied
<1>2. Sending => inner
  BY DEF OpenStream, Sending
<1>3. inner => \/ pc' = "handshaking" /\ UNCHANGED inner
               \/ pc' = "writing"
               \/ pc' = "done" /\ ~result'.ok
  <2>1. \/ pc' = "handshaking" /\ UNCHANGED inner
        \/ Connected
        \/ ConnectFails
    BY DEF OpenStream
  <2>2. CASE Connected
    BY <2>2 DEF Connected
  <2>3. CASE ConnectFails
    BY <2>3 DEF ConnectFails, Return, Err
  <2> QED BY <2>1, <2>2, <2>3
<1>4. ASSUME Sending PROVE Sending'
  <2>1. CASE pc' = "handshaking" /\ UNCHANGED inner
    BY <1>2, <1>4, <2>1 DEF Sending
  <2>2. CASE pc' = "writing"
    BY <2>2 DEF Sending
  <2>3. CASE pc' = "done" /\ ~result'.ok
    BY <2>3 DEF Sending
  <2> QED BY <1>2, <1>3, <1>4, <2>1, <2>2, <2>3
<1> QED BY <1>1, <1>4

LEMMA HandshakeCount ==
  ASSUME CountInv, Handshake
  PROVE  CountInv' /\ (Sending => Sending')
<1>1. CountInv'
  BY DEF Handshake, Connected, Return, CountInv, Counted, Unsent, Replied
<1>2. Sending => Sending'
  BY DEF Handshake, Connected, Return, Err, Sending, Carried
<1> QED BY <1>1, <1>2

LEMMA AfterCloseCount ==
  ASSUME CountInv, NEW ec, AfterClose(ec), pc \notin {"writing", "reading"},
         UNCHANGED <<req, server, done>>
  PROVE  CountInv' /\ (inner => inner' /\ pc' = "resolving")
<1>1. CountInv'
  BY DEF AfterClose, Return, CountInv, Counted, Unsent, Replied
<1>2. inner => inner' /\ pc' = "resolving"
  BY DEF AfterClose
<1> QED BY <1>1, <1>2

LEMMA BeginCloseCount ==
  ASSUME CountInv, BeginClose, pc \notin {"writing", "reading"},
         UNCHANGED <<req, server, done>>
  PROVE  CountInv' /\ (inner => inner' /\ pc' \in {"closing", "resolving"})
<1>1. CASE secure /\ m_connected
  BY <1>1 DEF BeginClose, CountInv, Counted, Unsent, Replied
<1>2. CASE ~(secure /\ m_connected)
  BY <1>2, AfterCloseCount DEF BeginClose
<1> QED BY <1>1, <1>2

LEMMA CloseTlsCount ==
  ASSUME CountInv, CloseTls
  PROVE  CountInv' /\ (Sending => Sending')
<1>1. PICK ec : AfterClose(ec)
  BY DEF CloseTls
<1>2. pc = "closing" /\ UNCHANGED <<req, server, done>>
  BY DEF CloseTls
<1>3. CountInv' /\ (inner => inner' /\ pc' = "resolving")
  BY <1>1, <1>2, AfterCloseCount
<1> QED BY <1>2, <1>3 DEF Sending, CloseTls

LEMMA ReconnectCount ==
  ASSUME CountInv, Reconnect
  PROVE  CountInv' /\ (Sending => Sending')
<1>1. CountInv' /\ (inner => inner' /\ pc' \in {"closing", "resolving"})
  BY BeginCloseCount DEF Reconnect
<1> QED BY <1>1 DEF Sending, Reconnect

LEMMA SendRequestCount ==
  ASSUME AnswerInv, CountInv, NEW method, NEW target, SendRequest(Len(done) + 1, method, target)
  PROVE  /\ CountInv' /\ Len(done') = Len(done) + 1 /\ req'.id = Len(done')
         /\ \A i \in DOMAIN done : i \in DOMAIN done' /\ done'[i] = done[i]
         /\ m_connected => pc' = "writing"
<1> DEFINE n == Len(done)
<1>1. n \in Nat /\ DOMAIN done = 1..n /\ \A i \in 1..n : done[i] \in Nat /\ done[i] <= 1
  BY DEF CountInv, Counted
<1>2. done' = [i \in 1..(n + 1) |-> IF i \in DOMAIN done THEN done[i] ELSE 0]
  BY DEF SendRequest
<1> HIDE DEF n
<1>3. done' \in [1..(n + 1) -> Nat]
  BY <1>1, <1>2
<1>4. done' \in Seq(Nat)
  BY <1>1, <1>3
<1>5. Len(done') = n + 1 /\ DOMAIN done' = 1..(n + 1)
  BY <1>1, <1>3, <1>4
<1>6. \A i \in 1..n : i \in DOMAIN done' /\ done'[i] = done[i]
  BY <1>1, <1>2, <1>5
<1>7. n + 1 \in DOMAIN done' /\ done'[n + 1] = 0
  BY <1>1, <1>2, <1>5
<1>8. \A i \in DOMAIN done' : done'[i] <= 1
  BY <1>1, <1>5, <1>6, <1>7
<1>9. req'.id = n + 1
  BY DEF SendRequest, n
<1>10. UNCHANGED server /\ BeginSend /\ Idle
  BY DEF SendRequest
<1>11. pc' \in {"writing", "done"} /\ ~inner'
  BY <1>10 DEF BeginSend, Return, Idle, CountInv, Unsent
<1>12. Counted' /\ Unsent'
  BY <1>11, <1>4, <1>7, <1>8, <1>9 DEF Counted, Unsent
<1>13. Replied'
  <2>1. UNCHANGED server
    BY <1>10
  <2>2. ASSUME server.reply # None PROVE FALSE
    BY <1>10, <2>2 DEF Idle, AnswerInv, Exchange
  <2> QED BY <2>1, <2>2 DEF Replied
<1>14. m_connected => pc' = "writing"
  BY <1>10 DEF BeginSend
<1>15. CountInv'
  BY <1>12, <1>13 DEF CountInv
<1> QED
  BY <1>1, <1>5, <1>6, <1>9, <1>14, <1>15 DEF n

LEMMA FailedCount ==
  ASSUME CountInv, UNCHANGED <<req, done>>, pc' = "done", ~result'.ok, ~inner',
         server' = server \/ server'.reply = None
  PROVE  CountInv' /\ Sending'
<1>1. Counted' /\ Unsent'
  BY DEF CountInv, Counted, Unsent
<1>2. Replied'
  BY DEF CountInv, Replied
<1>3. Sending'
  BY DEF Sending
<1> QED BY <1>1, <1>2, <1>3 DEF CountInv

LEMMA ErrorReturned ==
  ASSUME NEW kind, HandleRequestError(kind)
  PROVE  pc' = "done" /\ ~result'.ok /\ ~inner'
BY DEF HandleRequestError, Return, Err

LEMMA WriteCount ==
  ASSUME AnswerInv, CountInv, Write
  PROVE  CountInv' /\ (Sending => Sending')
<1>1. CASE stream.state = "open"
  <2>1. server' = [server EXCEPT !.todo = req, !.reply = None] /\ pc' = "reading" /\ ~inner'
    BY <1>1 DEF Write, CountInv, Unsent
  <2>2. server'.reply = None
    <3>1. DOMAIN server = ServerFields
      BY DEF AnswerInv, Fields
    <3> QED BY <2>1, <3>1, AskedServer
  <2>3. CountInv'
    BY <2>1, <2>2 DEF Write, CountInv, Counted, Unsent, Replied
  <2>4. Sending'
    BY <2>1 DEF Sending
  <2> QED BY <2>3, <2>4
<1>2. CASE stream.state # "open"
  BY <1>2, ErrorReturned, FailedCount DEF Write
<1> QED BY <1>1, <1>2

LEMMA ReadResponseCount ==
  ASSUME AnswerInv, CountInv, ReadResponse
  PROVE  CountInv' /\ Sending' /\ req'.id = req.id
<1>1. /\ pc = "reading" /\ m_buffer = None /\ "id" \in DOMAIN req
      /\ req.id \in DOMAIN done /\ DOMAIN server.reply = ReplyFields
      /\ server.reply # None /\ UNCHANGED done
  BY DEF ReadResponse, AnswerInv, Exchange, CountInv, Replied
<1>2. server'.reply = None
  <2>1. server' = [server EXCEPT !.reply = None] /\ DOMAIN server = ServerFields
    BY DEF ReadResponse, AnswerInv, Fields
  <2> QED BY <2>1, ReadServer
<1>3. CASE server.reply.whole
  <2> DEFINE n == IF m_buffer = None THEN server.reply.id ELSE m_buffer
             response == [server.reply EXCEPT !.id = n]
  <2>1. HandleResponse(response)
    BY <1>3 DEF ReadResponse
  <2>2. response.status = server.reply.status /\ response.body = server.reply.body
    <3> HIDE DEF n
    <3> QED BY <1>1, ReplyKept
  <2> HIDE DEF response, n
  <2>3. CASE ~(IsRedirectStatus(response.status) /\ Follow)
    <3>1. pc' = "done" /\ result' = Ok(response) /\ inner' = FALSE /\ UNCHANGED req
      BY <2>1, <2>3 DEF HandleResponse, Return
    <3>2. result'.value = response
      BY <3>1 DEF Ok
    <3>3. Carried(result'.value) => done[req.id] = 1
      BY <1>1, <2>2, <3>2 DEF Carried, CountInv, Replied
    <3>4. Counted' /\ Unsent' /\ Replied'
      BY <1>1, <1>2, <3>1 DEF CountInv, Counted, Unsent, Replied
    <3>5. Sending'
      BY <1>1, <3>1, <3>3 DEF Sending, Carried
    <3> QED BY <3>1, <3>4, <3>5 DEF CountInv
  <2>4. CASE IsRedirectStatus(response.status) /\ FollowRedirect(response)
    <3>1. done[req.id] = 0
      BY <1>1, <2>2, <2>4 DEF CountInv, Replied
    <3>2. /\ req'.id = req.id
          /\ \/ pc' = "done" /\ ~result'.ok /\ inner' = FALSE
             \/ pc' = "redirecting" /\ inner' = TRUE
             \/ m_connected' /\ pc' = "writing" /\ ~inner'
      BY <1>1, <2>4, RedirectFollowed DEF CountInv, Unsent
    <3>3. Counted' /\ Replied'
      BY <1>1, <1>2 DEF CountInv, Counted, Replied
    <3>4. Unsent'
      BY <1>1, <3>1, <3>2 DEF Unsent
    <3>5. Sending'
      BY <3>2 DEF Sending
    <3> QED BY <3>2, <3>3, <3>4, <3>5 DEF CountInv
  <2> QED BY <2>1, <2>3, <2>4 DEF HandleResponse
<1>4. CASE ~server.reply.whole
  <2>1. HandleRequestError("other") /\ UNCHANGED req
    BY <1>4 DEF ReadResponse
  <2> QED BY <1>1, <1>2, <2>1, ErrorReturned, FailedCount
<1> QED BY <1>3, <1>4

LEMMA ReadEofCount ==
  ASSUME CountInv, ReadEof
  PROVE  CountInv' /\ Sending'
BY ErrorReturned, FailedCount DEF ReadEof

LEMMA TimeoutCount ==
  ASSUME AnswerInv, CountInv, Timeout
  PROVE  CountInv' /\ Sending'
<1>1. CASE pc = "connecting"
  <2>1. pc' = "done" /\ ~result'.ok /\ ~inner' /\ server' = server
    BY <1>1 DEF Timeout, Return, Err
  <2> QED BY <2>1, FailedCount DEF Timeout
<1>2. CASE pc = "reading"
  <2>1. HandleRequestError("timeout") /\ server' = [server EXCEPT !.reply = None]
    BY <1>2 DEF Timeout
  <2>2. server'.reply = None
    <3>1. DOMAIN server = ServerFields
      BY DEF AnswerInv, Fields
    <3> QED BY <2>1, <3>1, ReadServer
  <2> QED BY <2>1, <2>2, ErrorReturned, FailedCount DEF Timeout
<1> QED BY <1>1, <1>2 DEF Timeout

\* Whatever the client does by itself, it carries nothing out.
LEMMA ClientCount ==
  ASSUME AnswerInv, CountInv, ClientStep
  PROVE  CountInv' /\ (Sending => Sending') /\ UNCHANGED done /\ req'.id = req.id
<1>1. CASE ReadResponse
  BY <1>1, ReadResponseCount DEF ReadResponse
<1>2. CASE ~ReadResponse
  <2>1. UNCHANGED <<done, req>>
    BY <1>2 DEF ClientStep, Resolve, OpenStream, Handshake, CloseTls, Write, ReadEof, Timeout,
       Reconnect
  <2>2. CountInv' /\ (Sending => Sending')
    BY <1>2, ResolveCount, OpenStreamCount, HandshakeCount, CloseTlsCount, WriteCount,
       ReadEofCount, TimeoutCount, ReconnectCount DEF ClientStep
  <2> QED BY <2>1, <2>2
<1> QED BY <1>1, <1>2

\* The server has carried out a request that it had not.
LEMMA CarriedOut ==
  ASSUME Counted, NEW n \in DOMAIN done, done[n] = 0,
         done' = [done EXCEPT ![n] = done[n] + 1]
  PROVE  /\ Counted' /\ Len(done') = Len(done) /\ DOMAIN done' = DOMAIN done
         /\ done'[n] = 1
         /\ \A i \in DOMAIN done : done[i] = 1 => done'[i] = 1
<1> DEFINE m == Len(done)
<1>1. m \in Nat /\ DOMAIN done = 1..m /\ done \in [1..m -> Nat] /\ \A i \in 1..m : done[i] <= 1
  BY DEF Counted
<1> HIDE DEF m
<1>2. done' \in [1..m -> Nat]
  BY <1>1
<1>3. done' \in Seq(Nat)
  BY <1>1, <1>2
<1>4. Len(done') = m /\ DOMAIN done' = 1..m
  BY <1>1, <1>2, <1>3
<1>5. done'[n] = 1 /\ \A i \in 1..m : i # n => done'[i] = done[i]
  BY <1>1
<1>6. \A i \in DOMAIN done' : done'[i] <= 1
  BY <1>1, <1>4, <1>5
<1>7. Counted'
  BY <1>3, <1>6 DEF Counted
<1>8. \A i \in DOMAIN done : done[i] = 1 => done'[i] = 1
  BY <1>1, <1>5
<1> QED BY <1>1, <1>4, <1>5, <1>7, <1>8 DEF m

LEMMA ServeCount ==
  ASSUME AnswerInv, CountInv, NEW bodies, Serve(bodies)
  PROVE  /\ CountInv' /\ Sending' /\ UNCHANGED req
         /\ DOMAIN done' = DOMAIN done /\ Len(done') = Len(done)
         /\ \A i \in DOMAIN done : done[i] = 1 => done'[i] = 1
<1> DEFINE Goal == /\ CountInv' /\ Sending' /\ UNCHANGED req
                   /\ DOMAIN done' = DOMAIN done /\ Len(done') = Len(done)
                   /\ \A i \in DOMAIN done : done[i] = 1 => done'[i] = 1
<1>1. /\ server.todo # None /\ ~server.eof /\ stream.state = "open"
      /\ UNCHANGED <<pc, req, inner, result>>
  BY DEF Serve
<1>2. pc = "reading" /\ server.todo.id = req.id /\ req.id \in DOMAIN done /\ done[req.id] = 0
  BY <1>1 DEF AnswerInv, Exchange, CountInv, Unsent
<1>3. Counted
  BY DEF CountInv
<1>4. ~inner'
  <2>1. pc = "reading" => ~inner
    BY DEF CountInv, Unsent
  <2> QED BY <1>1, <1>2, <2>1
<1>5. Sending'
  BY <1>1, <1>2, <1>4 DEF Sending
<1>6. ASSUME NEW r, NEW eof, Answer(r, eof), DOMAIN r = ReplyFields, UNCHANGED done,
             ~Carried(r)
      PROVE  Goal
  <2>1. server'.reply = r /\ server'.todo = None
    BY <1>6 DEF Answer
  <2>2. Replied'
    BY <1>1, <1>2, <1>6, <2>1 DEF Replied, Carried
  <2>3. Counted' /\ Unsent'
    BY <1>1, <1>2, <1>3, <1>4, <1>6, <2>1 DEF Counted, Unsent
  <2> QED BY <1>1, <1>5, <1>6, <2>2, <2>3 DEF CountInv
<1>7. ASSUME NEW r, NEW eof, Answer(r, eof), DOMAIN r = ReplyFields, CarryOut,
             ~IsRedirectStatus(r.status)
      PROVE  Goal
  <2>1. server'.reply = r /\ server'.todo = None
    BY <1>7 DEF Answer
  <2>2. /\ Counted' /\ Len(done') = Len(done) /\ DOMAIN done' = DOMAIN done /\ done'[req.id] = 1
        /\ \A i \in DOMAIN done : done[i] = 1 => done'[i] = 1
    BY <1>2, <1>3, <1>7, CarriedOut DEF CarryOut
  <2>3. Replied'
    BY <1>1, <1>2, <1>7, <2>1, <2>2 DEF Replied, IsRedirectStatus
  <2>4. Unsent'
    BY <1>1, <1>2, <1>4, <2>1 DEF Unsent
  <2> QED BY <1>1, <1>5, <2>2, <2>3, <2>4 DEF CountInv
<1>8. CASE Responds(bodies)
  <2>1. PICK b \in bodies, keep \in BOOLEAN :
          /\ Answer(Reply(200, keep, TRUE, None, b), ~keep)
          /\ IF b \in {"fault", "flat_fault", "junk"} THEN UNCHANGED done ELSE CarryOut
    BY <1>8 DEF Responds
  <2> DEFINE r == Reply(200, keep, TRUE, None, b)
  <2>2. DOMAIN r = ReplyFields /\ r.status = 200 /\ r.body = b
    BY DEF Reply, ReplyFields
  <2>3. Answer(r, ~keep)
    BY <2>1
  <2> HIDE DEF r
  <2>4. CASE b \in {"fault", "flat_fault", "junk"}
    <3>1. ~Carried(r)
      BY <2>2, <2>4 DEF Carried, Failures
    <3> QED BY <1>6, <2>1, <2>2, <2>3, <2>4, <3>1
  <2>5. CASE b \notin {"fault", "flat_fault", "junk"}
    <3>1. ~IsRedirectStatus(r.status)
      BY <2>2 DEF IsRedirectStatus
    <3> QED BY <1>7, <2>1, <2>2, <2>3, <2>5, <3>1
  <2> QED BY <2>4, <2>5
<1>9. CASE Redirects
  <2>1. PICK status, keep, loc :
          Answer(Reply(status, keep, TRUE, loc, None), ~keep) /\ UNCHANGED done
    BY <1>9, Zenon DEF Redirects
  <2> DEFINE r == Reply(status, keep, TRUE, loc, None)
  <2>2. DOMAIN r = ReplyFields /\ r.body = None
    BY DEF Reply, ReplyFields
  <2>3. Answer(r, ~keep)
    BY <2>1
  <2> HIDE DEF r
  <2>4. ~Carried(r)
    BY <2>2 DEF Carried, Failures
  <2> QED BY <1>6, <2>1, <2>2, <2>3, <2>4
<1>10. CASE Rejects
  <2>1. PICK status \in {401, 500} :
          /\ Answer(Reply(status, TRUE, TRUE, None, "fault"), FALSE)
          /\ UNCHANGED <<done, faults>>
    BY <1>10 DEF Rejects
  <2> DEFINE r == Reply(status, TRUE, TRUE, None, "fault")
  <2>2. DOMAIN r = ReplyFields /\ r.body = "fault"
    BY DEF Reply, ReplyFields
  <2>3. Answer(r, FALSE)
    BY <2>1
  <2> HIDE DEF r
  <2>4. ~Carried(r)
    BY <2>2 DEF Carried, Failures
  <2> QED BY <1>6, <2>1, <2>2, <2>3, <2>4
<1>11. CASE BreaksOff
  <2>1. CarryOut
    BY <1>11 DEF BreaksOff
  <2>2. ASSUME NEW eof, Answer(Reply(200, TRUE, FALSE, None, "full"), eof)
        PROVE  Goal
    <3> DEFINE r == Reply(200, TRUE, FALSE, None, "full")
    <3>1. DOMAIN r = ReplyFields /\ r.status = 200
      BY DEF Reply, ReplyFields
    <3>2. Answer(r, eof)
      BY <2>2
    <3> HIDE DEF r
    <3>3. ~IsRedirectStatus(r.status)
      BY <3>1 DEF IsRedirectStatus
    <3> QED BY <1>7, <2>1, <3>1, <3>2, <3>3
  <2>3. CASE server' = [Quiet EXCEPT !.eof = TRUE]
    <3>1. server'.todo = None /\ server'.reply = None
      BY <2>3, QuietServer, GoneServer
    <3>2. /\ Counted' /\ Len(done') = Len(done) /\ DOMAIN done' = DOMAIN done
          /\ \A i \in DOMAIN done : done[i] = 1 => done'[i] = 1
      BY <1>2, <1>3, <2>1, CarriedOut DEF CarryOut
    <3>3. Unsent' /\ Replied'
      BY <1>1, <1>2, <1>4, <3>1 DEF Unsent, Replied
    <3> QED BY <1>1, <1>5, <3>2, <3>3 DEF CountInv
  <2> QED BY <1>11, <2>2, <2>3 DEF BreaksOff
<1> QED BY <1>8, <1>9, <1>10, <1>11 DEF Serve

LEMMA ServerClosesCount ==
  ASSUME AnswerInv, CountInv, ServerCloses
  PROVE  CountInv' /\ (Sending => Sending')
<1>1. server'.todo = server.todo /\ server'.reply = server.reply
  <2>1. server' = [server EXCEPT !.eof = TRUE] /\ DOMAIN server = ServerFields
    BY DEF ServerCloses, AnswerInv, Fields
  <2> QED BY <2>1, GoneServer
<1>2. UNCHANGED <<pc, req, inner, result, done>>
  BY DEF ServerCloses
<1>3. Counted' /\ Unsent'
  BY <1>1, <1>2 DEF CountInv, Counted, Unsent
<1>4. Replied'
  BY <1>1, <1>2 DEF CountInv, Replied, Carried, IsRedirectStatus
<1>5. Sending => Sending'
  BY <1>2 DEF Sending, Carried
<1> QED BY <1>3, <1>4, <1>5 DEF CountInv

-----------------------------------------------------------------------------
(* Calls. *)

\* A call that waits for an answer sent the last request; before, the request
\* it will send is the next.
CallInv ==
  call # None =>
    /\ user = "onvif" /\ DOMAIN call = CallFields
    /\ IF call.phase = "answer" THEN Sending /\ req.id = Len(done) /\ req.id \in DOMAIN done
                                ELSE call.id = Len(done) + 1

OutcomeInv ==
  outcome # None /\ outcome.ok => outcome.id \in DOMAIN done /\ done[outcome.id] = 1

OnceInv == CountInv /\ CallInv /\ OutcomeInv

LEMMA CallPhase ==
  ASSUME NEW c, DOMAIN c = CallFields, NEW phase
  PROVE  LET t == [c EXCEPT !.phase = phase]
         IN  DOMAIN t = CallFields /\ t.phase = phase /\ t.id = c.id
BY DEF CallFields

LEMMA CallOnward ==
  ASSUME NEW c, DOMAIN c = CallFields, NEW todo, NEW n
  PROVE  LET t == [c EXCEPT !.todo = todo, !.phase = "next", !.id = n]
         IN  DOMAIN t = CallFields /\ t.phase = "next" /\ t.id = n
BY DEF CallFields

LEMMA CallToken ==
  ASSUME NEW c, DOMAIN c = CallFields, NEW token
  PROVE  LET t == [c EXCEPT !.token = token, !.pick = None]
         IN  DOMAIN t = CallFields /\ t.phase = c.phase /\ t.id = c.id
BY DEF CallFields

LEMMA Finished ==
  ASSUME NEW r, Finish(r)
  PROVE  call' = None /\ outcome'.ok = r.ok /\ outcome'.id = Len(done)
BY DEF Finish

\* Nothing changes but connections, and requests are carried out.
LEMMA OutcomeKept ==
  ASSUME OutcomeInv, UNCHANGED outcome,
         \A i \in DOMAIN done : done[i] = 1 => i \in DOMAIN done' /\ done'[i] = 1
  PROVE  OutcomeInv'
BY DEF OutcomeInv

LEMMA NothingSent ==
  ASSUME CountInv, UNCHANGED httpVars
  PROVE  CountInv'
BY DEF httpVars, CountInv, Counted, Unsent, Replied, Carried, IsRedirectStatus

\* SoapClient calls nothing a success that the camera does not answer as one.
LEMMA SoapSucceeds ==
  ASSUME NEW http, SoapAnswer(http).ok
  PROVE  http.ok /\ Carried(http.value)
<1> DEFINE body == http.value.body
           soap == ParseSoapResponse(body)
<1>1. http.ok
  BY DEF SoapAnswer
<1>2. ~(http.value.status >= 400) /\ soap.ok /\ ~soap.value.is_fault
  BY <1>1 DEF SoapAnswer, Err
<1> HIDE DEF body
<1>3. body \notin {"junk", None}
  BY <1>2 DEF ParseSoapResponse, Err
<1>4. body \notin {"fault", "flat_fault"}
  <2>1. soap.value.is_fault = (body \in {"fault", "flat_fault"})
    BY <1>3 DEF ParseSoapResponse, Ok
  <2> HIDE DEF soap
  <2> QED BY <1>2, <2>1
<1> QED BY <1>1, <1>2, <1>3, <1>4 DEF body, Carried, Failures

\* An answer ends the call or leads to its next request.
LEMMA AnsweredGoes ==
  ASSUME DOMAIN call = CallFields, NEW body, Answered(body)
  PROVE  \/ call' = None /\ outcome'.id = Len(done)
         \/ /\ UNCHANGED outcome
            /\ DOMAIN call' = CallFields /\ call'.phase = "next" /\ call'.id = Len(done) + 1
<1> DEFINE onward == [call EXCEPT !.todo = Tail(call.todo), !.phase = "next", !.id = Len(done) + 1]
<1>1. DOMAIN onward = CallFields /\ onward.phase = "next" /\ onward.id = Len(done) + 1
  BY CallOnward
<1>2. \/ \E r : Finish(r)
      \/ \E caps : InitializeServices(caps)
      \/ \E p : Goes([onward EXCEPT !.token = p, !.pick = None])
      \/ Goes(onward)
  BY DEF Answered
<1> HIDE DEF onward
<1>3. CASE \E r : Finish(r)
  BY <1>3, Finished
<1>4. CASE \E caps : InitializeServices(caps)
  <2>1. \E r : Finish(r)
    BY <1>4 DEF InitializeServices
  <2> QED BY <2>1, Finished
<1>5. CASE \E p : Goes([onward EXCEPT !.token = p, !.pick = None])
  <2>1. PICK p : Goes([onward EXCEPT !.token = p, !.pick = None])
    BY <1>5
  <2> DEFINE t == [onward EXCEPT !.token = p, !.pick = None]
  <2>2. DOMAIN t = CallFields /\ t.phase = "next" /\ t.id = Len(done) + 1
    BY <1>1, CallToken
  <2> QED BY <2>1, <2>2 DEF Goes
<1>6. CASE Goes(onward)
  BY <1>1, <1>6 DEF Goes
<1> QED BY <1>2, <1>3, <1>4, <1>5, <1>6

LEMMA AppOnce ==
  ASSUME AnswerInv, OnceInv, AppStep
  PROVE  OnceInv'
<1>1. call = None /\ UNCHANGED <<call, outcome>>
  BY DEF AppStep, OnceInv, CallInv, onvifVars
<1>2. CASE Connect(Camera) \/ Close
  <2>1. UNCHANGED done
    BY <1>2 DEF Connect, Close
  <2>2. Close => CountInv'
    BY BeginCloseCount DEF Close, Idle, OnceInv
  <2>3. CountInv'
    BY <1>2, <2>2, ConnectCount DEF OnceInv
  <2>4. OutcomeInv'
    BY <1>1, <2>1 DEF OnceInv, OutcomeInv
  <2> QED BY <1>1, <2>3, <2>4 DEF OnceInv, CallInv
<1>3. ASSUME NEW method, NEW target, SendRequest(Len(done) + 1, method, target)
      PROVE  OnceInv'
  <2>1. CountInv' /\ \A i \in DOMAIN done : i \in DOMAIN done' /\ done'[i] = done[i]
    BY <1>3, SendRequestCount DEF OnceInv
  <2>2. OutcomeInv'
    BY <1>1, <2>1, OutcomeKept DEF OnceInv
  <2> QED BY <1>1, <2>1, <2>2 DEF OnceInv, CallInv
<1> QED BY <1>2, <1>3 DEF AppStep

LEMMA RequestOnce ==
  ASSUME OnceInv, NEW name, NEW service, NEW todo, NEW pick, Request(name, service, todo, pick)
  PROVE  OnceInv'
<1>1. UNCHANGED <<pc, done, req, inner, server>> /\ call = None /\ user = "onvif" /\ user' = user
  BY DEF Request, Refuse, Free, httpVars
<1>2. CountInv'
  BY <1>1 DEF OnceInv, CountInv, Counted, Unsent, Replied, Carried, IsRedirectStatus
<1>3. \/ call' = None /\ ~outcome'.ok
      \/ /\ call' = [name |-> name, phase |-> "next", todo |-> todo, target |-> service,
                     pick |-> pick, token |-> None, id |-> Len(done) + 1]
         /\ outcome' = None
  BY <1>1 DEF Request, Refuse
<1>4. CallInv'
  BY <1>1, <1>3 DEF CallInv, CallFields
<1>5. OutcomeInv'
  BY <1>3 DEF OutcomeInv
<1> QED BY <1>2, <1>4, <1>5 DEF OnceInv

LEMMA ConnectCallOnce ==
  ASSUME OnceInv, NEW name, NEW todo, ConnectCall(name, todo)
  PROVE  OnceInv'
<1>1. /\ user = "onvif" /\ user' = user /\ outcome' = None /\ UNCHANGED done
      /\ call' = [name |-> name, phase |-> "connect", todo |-> todo, target |-> DevicePath,
                  pick |-> None, token |-> None, id |-> Len(done) + 1]
  BY DEF ConnectCall, Free, Connect
<1>2. CountInv'
  BY ConnectCount DEF ConnectCall, OnceInv
<1>3. CallInv'
  BY <1>1 DEF CallInv, CallFields
<1> QED BY <1>1, <1>2, <1>3 DEF OnceInv, OutcomeInv

LEMMA EnsureOnce ==
  ASSUME AnswerInv, OnceInv, Ensure
  PROVE  OnceInv'
<1>1. /\ call # None /\ call.phase = "next" /\ UNCHANGED <<user, outcome>>
      /\ DOMAIN call = CallFields /\ user = "onvif" /\ call.id = Len(done) + 1
  BY DEF Ensure, OnceInv, CallInv
<1>2. CASE m_connected
  <2>1. call' = [call EXCEPT !.phase = "answer"] /\ SendRequest(Len(done) + 1, "post", call.target)
    BY <1>1, <1>2 DEF Ensure
  <2>2. /\ CountInv' /\ Len(done') = Len(done) + 1 /\ req'.id = Len(done') /\ pc' = "writing"
        /\ \A i \in DOMAIN done : i \in DOMAIN done' /\ done'[i] = done[i]
    BY <1>2, <2>1, SendRequestCount DEF OnceInv
  <2>3. Sending' /\ req'.id \in DOMAIN done'
    BY <2>2 DEF Sending, CountInv, Unsent
  <2>4. DOMAIN call' = CallFields /\ call'.phase = "answer"
    BY <1>1, <2>1, CallPhase
  <2>5. CallInv'
    BY <1>1, <2>2, <2>3, <2>4 DEF CallInv
  <2>6. OutcomeInv'
    BY <1>1, <2>2, OutcomeKept DEF OnceInv
  <2> QED BY <2>2, <2>5, <2>6 DEF OnceInv
<1>3. CASE ~m_connected
  <2>1. call' = [call EXCEPT !.phase = "ensure"] /\ Connect(soap_host)
    BY <1>3 DEF Ensure
  <2>2. UNCHANGED done
    BY <2>1 DEF Connect
  <2>3. DOMAIN call' = CallFields /\ call'.phase = "ensure" /\ call'.id = call.id
    BY <1>1, <2>1, CallPhase
  <2>4. CallInv'
    BY <1>1, <2>2, <2>3 DEF CallInv
  <2>5. CountInv' /\ OutcomeInv'
    BY <1>1, <2>1, <2>2, ConnectCount DEF OnceInv, OutcomeInv
  <2> QED BY <2>4, <2>5 DEF OnceInv
<1> QED BY <1>2, <1>3

LEMMA AfterConnectOnce ==
  ASSUME OnceInv, AfterConnect
  PROVE  OnceInv'
<1>1. /\ call # None /\ call.phase # "answer" /\ UNCHANGED <<user, done>>
      /\ DOMAIN call = CallFields /\ user = "onvif" /\ call.id = Len(done) + 1
  BY DEF AfterConnect, OnceInv, CallInv, httpVars
<1>2. CountInv'
  BY NothingSent DEF AfterConnect, OnceInv
<1>3. CASE result.ok
  <2>1. call' = [call EXCEPT !.phase = "next"] /\ UNCHANGED outcome
    BY <1>3 DEF AfterConnect
  <2>2. DOMAIN call' = CallFields /\ call'.phase = "next" /\ call'.id = call.id
    BY <1>1, <2>1, CallPhase
  <2>3. CallInv'
    BY <1>1, <2>2 DEF CallInv
  <2>4. OutcomeInv'
    BY <1>1, <2>1 DEF OnceInv, OutcomeInv
  <2> QED BY <1>2, <2>3, <2>4 DEF OnceInv
<1>4. CASE ~result.ok
  <2>1. call' = None /\ ~outcome'.ok
    BY <1>4, Finished DEF AfterConnect
  <2> QED BY <1>2, <2>1 DEF OnceInv, CallInv, OutcomeInv
<1> QED BY <1>3, <1>4

LEMMA TakeAnswerOnce ==
  ASSUME OnceInv, TakeAnswer
  PROVE  OnceInv'
<1> DEFINE soap == SoapAnswer(result)
<1>1. /\ call # None /\ pc = "done" /\ UNCHANGED <<user, done>>
      /\ DOMAIN call = CallFields /\ user = "onvif"
      /\ Sending /\ req.id = Len(done) /\ req.id \in DOMAIN done
      /\ IF soap.ok THEN Answered(soap.value) ELSE Finish(soap)
  BY DEF TakeAnswer, OnceInv, CallInv, httpVars
<1>2. CountInv'
  BY NothingSent DEF TakeAnswer, OnceInv
<1>3. soap.ok => done[Len(done)] = 1
  BY <1>1, SoapSucceeds DEF Sending
<1> HIDE DEF soap
<1>4. CASE call' = None /\ outcome'.id = Len(done) /\ (outcome'.ok => soap.ok)
  BY <1>1, <1>2, <1>3, <1>4 DEF OnceInv, CallInv, OutcomeInv
<1>5. CASE /\ UNCHANGED outcome
           /\ DOMAIN call' = CallFields /\ call'.phase = "next" /\ call'.id = Len(done) + 1
  <2>1. CallInv'
    BY <1>1, <1>5 DEF CallInv
  <2>2. OutcomeInv'
    BY <1>1, <1>5 DEF OnceInv, OutcomeInv
  <2> QED BY <1>2, <2>1, <2>2 DEF OnceInv
<1>6. CASE soap.ok
  BY <1>1, <1>4, <1>5, <1>6, AnsweredGoes
<1>7. CASE ~soap.ok
  BY <1>1, <1>4, <1>7, Finished
<1> QED BY <1>6, <1>7

LEMMA HttpOnce ==
  ASSUME AnswerInv, OnceInv, HttpStep
  PROVE  OnceInv'
<1>1. /\ CountInv' /\ (Sending => Sending') /\ UNCHANGED done /\ req'.id = req.id
      /\ UNCHANGED <<user, call, outcome>>
  BY ClientCount DEF HttpStep, onvifVars, OnceInv
<1>2. CallInv'
  BY <1>1 DEF OnceInv, CallInv
<1> QED BY <1>1, <1>2 DEF OnceInv, OutcomeInv

LEMMA CameraOnce ==
  ASSUME AnswerInv, OnceInv, CameraStep
  PROVE  OnceInv'
<1>1. UNCHANGED <<user, call, outcome>> /\ \E bodies : Serve(bodies)
  BY DEF CameraStep, onvifVars
<1>2. /\ CountInv' /\ Sending' /\ UNCHANGED req
      /\ DOMAIN done' = DOMAIN done /\ Len(done') = Len(done)
      /\ \A i \in DOMAIN done : done[i] = 1 => done'[i] = 1
  BY <1>1, ServeCount DEF OnceInv
<1>3. CallInv'
  BY <1>1, <1>2 DEF OnceInv, CallInv
<1>4. OutcomeInv'
  BY <1>1, <1>2, OutcomeKept DEF OnceInv
<1> QED BY <1>2, <1>3, <1>4 DEF OnceInv

LEMMA ClosedOnce ==
  ASSUME AnswerInv, OnceInv, ClosedIdle
  PROVE  OnceInv'
<1>1. /\ CountInv' /\ (Sending => Sending') /\ UNCHANGED <<done, req>>
      /\ UNCHANGED <<user, call, outcome>>
  BY ServerClosesCount DEF ClosedIdle, ServerCloses, onvifVars, OnceInv
<1>2. CallInv'
  BY <1>1 DEF OnceInv, CallInv
<1> QED BY <1>1, <1>2 DEF OnceInv, OutcomeInv

LEMMA NextOnce ==
  ASSUME AnswerInv, OnceInv, [OnvifNext]_systemVars
  PROVE  OnceInv'
<1>1. CASE DeviceCall
  BY <1>1, RequestOnce, ConnectCallOnce DEF DeviceCall, CheckConnection, Initialize,
     GetDeviceInformation
<1>2. CASE MediaCall
  BY <1>2, RequestOnce DEF MediaCall, GetProfiles, GetStreamUri, GetMainStreamUri,
     GetSecondStreamUri
<1>3. CASE PtzCall
  BY <1>3, RequestOnce DEF PtzCall, ContinuousMove, StopMove, SetPreset, GetPresets, GotoPreset,
     RemovePreset, MoveFocus, MoveIris
<1>4. CASE OnvifStep
  BY <1>4, EnsureOnce, AfterConnectOnce, TakeAnswerOnce DEF OnvifStep
<1>5. CASE UNCHANGED systemVars
  <2>1. UNCHANGED httpVars /\ UNCHANGED <<user, call, outcome>>
    BY <1>5 DEF systemVars, onvifVars
  <2>2. CountInv'
    BY <2>1, NothingSent DEF OnceInv
  <2>3. Sending => Sending'
    BY <2>1 DEF httpVars, Sending, Carried
  <2>4. UNCHANGED <<done, req>>
    BY <2>1 DEF httpVars
  <2>5. CallInv' /\ OutcomeInv'
    BY <2>1, <2>3, <2>4 DEF OnceInv, CallInv, OutcomeInv
  <2> QED BY <2>2, <2>5 DEF OnceInv
<1> QED
  BY <1>1, <1>2, <1>3, <1>4, <1>5, AppOnce, HttpOnce, CameraOnce, ClosedOnce DEF OnvifNext

(***************************************************************************)
(* RequestsCarriedOutOnce: whatever connections are lost, made again and    *)
(* redirected, no request is carried out twice, and a call that OnvifClient *)
(* reports as a success was carried out by the camera.                      *)
(***************************************************************************)
THEOREM RequestsCarriedOutOnce == OnvifSpec => []CarriedOutOnce
<1> DEFINE Inv == AnswerInv /\ OnceInv
<1>1. OnvifInit => Inv
  <2> SUFFICES ASSUME OnvifInit PROVE Inv
    OBVIOUS
  <2>1. DOMAIN stream = StreamFields
    BY DEF OnvifInit, HttpInit, StreamFields
  <2>2. AnswerInv
    BY <2>1, QuietServer DEF OnvifInit, HttpInit,
       AnswerInv, Fields, Places, Leftover, Exchange, OwnAnswer
  <2>3. Counted
    BY DEF OnvifInit, HttpInit, Counted
  <2>4. Unsent /\ Replied
    BY QuietServer DEF OnvifInit, HttpInit, Unsent, Replied
  <2> QED BY <2>2, <2>3, <2>4 DEF OnvifInit, OnceInv, CountInv, CallInv, OutcomeInv
<1>2. Inv /\ [OnvifNext]_systemVars => Inv'
  BY NextOwn, NextOnce
<1>3. Inv => CarriedOutOnce
  BY DEF OnceInv, CountInv, Counted, OutcomeInv, CarriedOutOnce
<1> QED BY <1>1, <1>2, <1>3, PTL DEF OnvifSpec

-----------------------------------------------------------------------------
(* Paths. *)

LEMMA LeastNat ==
  ASSUME NEW T, T \subseteq Nat, T # {}
  PROVE  \E x \in T : \A y \in T : x <= y
<1> DEFINE R == OpToRel(<, Nat)
<1>1. IsWellFoundedOn(R, Nat)
  BY NatLessThanWellFounded
<1>2. R = {ss \in Nat \X Nat : ss[1] < ss[2]}
  BY DEF OpToRel
<1> HIDE DEF R
<1>3. PICK x \in T : \A y \in T : ~ (<<y, x>> \in R)
  BY <1>1, WFMin
<1>4. \A y \in T : ~(y < x)
  BY <1>2, <1>3
<1> QED BY <1>3, <1>4

\* What RemoveDotSegments has when it has read i segments.
Taken(path, out, i) == IF i = 0 THEN <<>> ELSE TakeSegment(out[i - 1], path, i)
Kept(path)          == CHOOSE out : out = [i \in 0..Len(path) |-> Taken(path, out, i)]

LEMMA RemovedIs ==
  ASSUME NEW path PROVE RemoveDotSegments(path) = Kept(path)[Len(path)]
BY DEF RemoveDotSegments, Kept, Taken

\* A function that solves the recursion is the only one.
LEMMA KeptIs ==
  ASSUME NEW path, Len(path) \in Nat, NEW g, g = [i \in 0..Len(path) |-> Taken(path, g, i)]
  PROVE  \A i \in 0..Len(path) : Kept(path)[i] = g[i]
<1> DEFINE f == Kept(path)
           Bad == {i \in 0..Len(path) : f[i] # g[i]}
<1>1. f = [i \in 0..Len(path) |-> Taken(path, f, i)]
  BY Zenon DEF Kept
<1>2. \A i \in 0..Len(path) : f[i] = Taken(path, f, i) /\ g[i] = Taken(path, g, i)
  BY <1>1, Zenon
<1> HIDE DEF f
<1>3. SUFFICES ASSUME Bad # {} PROVE FALSE
  BY DEF f
<1>4. Bad \subseteq Nat
  OBVIOUS
<1>5. PICK m \in Bad : \A y \in Bad : m <= y
  BY <1>3, <1>4, LeastNat
<1>6. m \in 0..Len(path) /\ f[m] # g[m]
  OBVIOUS
<1>7. m # 0 => f[m - 1] = g[m - 1]
  <2>1. m # 0 => m - 1 \in 0..Len(path) /\ m - 1 < m
    BY <1>6
  <2> QED BY <2>1, <1>5, <1>6
<1>8. Taken(path, f, m) = Taken(path, g, m)
  BY <1>7, Zenon DEF Taken
<1> QED BY <1>2, <1>6, <1>8

\* One ".." for each of the segments that were there, and then the others.
Detour(down, up, m) == (down \o up) \o m

\* What is kept of it: the way down grows, is taken back, and m comes.
Way(down, m, i) ==
  LET k == Len(down)
  IN  IF i <= k THEN SubSeq(down, 1, i)
      ELSE IF i <= 2 * k THEN SubSeq(down, 1, 2 * k - i)
      ELSE SubSeq(m, 1, i - 2 * k)

\* The provers do not know that "x" is a string.
Segment == STRING \cup {"x", ".."}

LEMMA PlainPath ==
  ASSUME NEW path, Plain(path)
  PROVE  path \in Seq(Segment) /\ path # <<>>
<1>1. path \in Seq(STRING) /\ STRING \subseteq Segment
  BY DEF Plain, Segment
<1> QED BY <1>1, SeqMonotonic DEF Plain

Steps(s) == s \in Seq(Segment) /\ \A i \in DOMAIN s : s[i] \notin {".", ".."}
Back(s, k) == s \in Seq(Segment) /\ Len(s) = k /\ \A i \in 1..k : s[i] = ".."

LEMMA Joined ==
  ASSUME NEW s \in Seq(Segment), NEW t \in Seq(Segment)
  PROVE  /\ s \o t \in Seq(Segment)
         /\ Len(s \o t) = Len(s) + Len(t)
         /\ \A i \in 1..Len(s) + Len(t) :
              (s \o t)[i] = IF i <= Len(s) THEN s[i] ELSE t[i - Len(s)]
BY ConcatProperties, Zenon

LEMMA DetourIs ==
  ASSUME NEW down \in Seq(Segment), NEW up \in Seq(Segment), NEW m \in Seq(Segment),
         Len(up) = Len(down)
  PROVE  LET p == Detour(down, up, m)
             k == Len(down)
         IN  /\ Len(p) = 2 * k + Len(m) /\ Len(p) \in Nat /\ k \in Nat
             /\ \A i \in 1..k : p[i] = down[i]
             /\ \A i \in (k + 1)..(2 * k) : p[i] = up[i - k]
             /\ \A i \in (2 * k + 1)..Len(p) : p[i] = m[i - 2 * k]
<1> DEFINE d == down \o up
           p == Detour(down, up, m)
           k == Len(down)
<1>1. /\ d \in Seq(Segment)
      /\ Len(d) = Len(down) + Len(up)
      /\ \A i \in 1..Len(down) + Len(up) :
           d[i] = IF i <= Len(down) THEN down[i] ELSE up[i - Len(down)]
  BY Joined, Zenon
<1>2. Len(down) \in Nat /\ Len(m) \in Nat
  BY LenProperties
<1>3. p = d \o m
  BY DEF Detour
<1> HIDE DEF d, p
<1>4. /\ Len(p) = Len(d) + Len(m)
      /\ \A i \in 1..Len(d) + Len(m) : p[i] = IF i <= Len(d) THEN d[i] ELSE m[i - Len(d)]
  <2>1. /\ Len(d \o m) = Len(d) + Len(m)
        /\ \A i \in 1..Len(d) + Len(m) :
             (d \o m)[i] = IF i <= Len(d) THEN d[i] ELSE m[i - Len(d)]
    <3>1. d \in Seq(Segment) /\ m \in Seq(Segment)
      BY <1>1
    <3> QED BY <3>1, Joined, Zenon
  <2> QED BY <1>3, <2>1
<1>5. Len(d) = k + k /\ k \in Nat
  BY <1>1, <1>2
<1>6. \A i \in 1..(k + k) : p[i] = IF i <= k THEN down[i] ELSE up[i - k]
  BY <1>1, <1>2, <1>4, <1>5
<1>7. \A i \in (2 * k + 1)..Len(p) : p[i] = m[i - 2 * k]
  BY <1>2, <1>4, <1>5
<1>8. Len(p) = 2 * k + Len(m) /\ Len(p) \in Nat
  BY <1>2, <1>4, <1>5
<1> HIDE DEF k
<1>9. \A i \in 1..k : p[i] = down[i]
  <2> TAKE i \in 1..k
  <2>1. i \in 1..(k + k) /\ i <= k
    BY <1>5
  <2> QED BY <1>6, <2>1
<1>10. \A i \in (k + 1)..(2 * k) : p[i] = up[i - k]
  BY <1>5, <1>6
<1> QED BY <1>5, <1>7, <1>8, <1>9, <1>10 DEF p, k

\* Of the first i segments of s, when there was one more.
LEMMA OneMore ==
  ASSUME NEW s \in Seq(Segment), NEW i \in 1..Len(s)
  PROVE  Append(SubSeq(s, 1, i - 1), s[i]) = SubSeq(s, 1, i)
<1>1. Len(s) \in Nat /\ \A j \in 1..Len(s) : s[j] \in Segment
  BY LenProperties, ElementOfSeq
<1>2. /\ SubSeq(s, 1, i) \in Seq(Segment) /\ Len(SubSeq(s, 1, i)) = i
      /\ \A j \in 1..i : SubSeq(s, 1, i)[j] = s[j]
  <2>1. \A j \in 1..i : s[j] \in Segment
    BY <1>1
  <2>2. 1 \in Int /\ i \in Int /\ 1 <= i /\ i - 1 + 1 = i
    BY <1>1
  <2>3. \A j \in 1..i : 1 + j - 1 = j
    BY <1>1
  <2> QED BY <2>1, <2>2, <2>3, SubSeqProperties
<1>3. /\ SubSeq(s, 1, i - 1) \in Seq(Segment) /\ Len(SubSeq(s, 1, i - 1)) = i - 1
      /\ \A j \in 1..(i - 1) : SubSeq(s, 1, i - 1)[j] = s[j]
  <2>1. \A j \in 1..(i - 1) : s[j] \in Segment
    BY <1>1
  <2>2. 1 \in Int /\ i - 1 \in Int /\ (i - 1) - 1 + 1 = i - 1
    BY <1>1
  <2>3. \A j \in 1..(i - 1) : 1 + j - 1 = j
    BY <1>1
  <2>4. 1 <= i - 1 \/ i - 1 = 0
    BY <1>1
  <2> QED BY <2>1, <2>2, <2>3, <2>4, SubSeqProperties
<1> DEFINE t == SubSeq(s, 1, i - 1)
           u == SubSeq(s, 1, i)
<1>4. s[i] \in Segment
  BY <1>1
<1> HIDE DEF t, u
<1>5. /\ Append(t, s[i]) \in Seq(Segment) /\ Len(Append(t, s[i])) = Len(t) + 1
      /\ \A j \in 1..Len(t) : Append(t, s[i])[j] = t[j]
      /\ Append(t, s[i])[Len(t) + 1] = s[i]
  BY <1>3, <1>4, AppendProperties DEF t
<1>6. \A j \in 1..i : Append(t, s[i])[j] = u[j]
  <2> TAKE j \in 1..i
  <2>1. j \in 1..(i - 1) \/ j = i
    BY <1>1
  <2> QED BY <1>2, <1>3, <1>5, <2>1 DEF t, u
<1>7. Append(t, s[i]) = u
  <2>1. Len(Append(t, s[i])) = i /\ Len(u) = i
    BY <1>1, <1>2, <1>3, <1>5 DEF t, u
  <2>2. u \in Seq(Segment)
    BY <1>2 DEF u
  <2> QED BY <1>5, <1>6, <2>1, <2>2, SeqEqual
<1> QED BY <1>7 DEF t, u

LEMMA OneLess ==
  ASSUME NEW s \in Seq(Segment), NEW i \in 1..Len(s)
  PROVE  SubSeq(s, 1, i) # <<>> /\ Front(SubSeq(s, 1, i)) = SubSeq(s, 1, i - 1)
<1>1. Len(s) \in Nat /\ \A j \in 1..Len(s) : s[j] \in Segment
  BY LenProperties, ElementOfSeq
<1> DEFINE u == SubSeq(s, 1, i)
<1>2. u \in Seq(Segment) /\ Len(u) = i /\ \A j \in 1..i : u[j] = s[j]
  <2>1. \A j \in 1..i : s[j] \in Segment
    BY <1>1
  <2>2. 1 \in Int /\ i \in Int /\ 1 <= i /\ i - 1 + 1 = i
    BY <1>1
  <2>3. \A j \in 1..i : 1 + j - 1 = j
    BY <1>1
  <2> QED BY <2>1, <2>2, <2>3, SubSeqProperties
<1>3. Front(u) = SubSeq(u, 1, i - 1)
  <2> HIDE DEF u
  <2> QED BY <1>2 DEF Front
<1>4. u # <<>>
  BY <1>1, <1>2
<1>5. SubSeq(u, 1, i - 1) = SubSeq(s, 1, i - 1)
  <2>1. CASE i = 1
    <3>1. i - 1 = 0
      BY <2>1
    <3> QED BY <3>1, SubSeqEmpty
  <2>2. CASE i # 1
    <3>1. i \in 1..Len(s) /\ 1 \in 1..Len(s) /\ 1 \in 1..(i - 1 + 1) /\ i - 1 \in 1..(i - 1 + 1)
      BY <1>1, <2>2
    <3>2. SubSeq(SubSeq(s, 1, i), 1, i - 1) = SubSeq(s, 1 + 1 - 1, 1 + (i - 1) - 1)
      BY <1>2, <3>1, SubSeqOfSubSeq
    <3>3. 1 + 1 - 1 = 1 /\ 1 + (i - 1) - 1 = i - 1
      BY <1>1
    <3> QED BY <3>2, <3>3
  <2> QED BY <2>1, <2>2
<1> QED BY <1>3, <1>4, <1>5

\* RemoveDotSegments finds the way back: of a detour nothing is left.
LEMMA DetourRemoved ==
  ASSUME NEW down, Steps(down), NEW up, Back(up, Len(down)), NEW m, Plain(m)
  PROVE  RemoveDotSegments(Detour(down, up, m)) = m
<1> DEFINE p == Detour(down, up, m)
           k == Len(down)
           g == [i \in 0..Len(p) |-> Way(down, m, i)]
<1>1. /\ Len(p) = 2 * k + Len(m) /\ Len(p) \in Nat /\ k \in Nat
      /\ \A i \in 1..k : p[i] = down[i]
      /\ \A i \in (k + 1)..(2 * k) : p[i] = up[i - k]
      /\ \A i \in (2 * k + 1)..Len(p) : p[i] = m[i - 2 * k]
  <2>1. down \in Seq(Segment) /\ up \in Seq(Segment) /\ m \in Seq(Segment)
    BY PlainPath DEF Steps, Back
  <2>2. Len(up) = Len(down)
    BY DEF Back
  <2> QED BY <2>1, <2>2, DetourIs, Zenon
<1>2. Len(m) \in Nat \ {0} /\ m \in Seq(Segment)
  BY PlainPath, EmptySeq
<1>3. down \in Seq(Segment)
  BY DEF Steps
<1> HIDE DEF p
<1>4. ASSUME NEW i \in 1..Len(p)
      PROVE  Way(down, m, i) = TakeSegment(Way(down, m, i - 1), p, i)
  <2>1. i \in Nat /\ i - 1 \in Nat
    BY <1>1, <1>4
  <2>2. CASE i <= k
    <3>1. i \in 1..k /\ i - 1 <= k
      BY <1>1, <2>1, <2>2, <1>4
    <3>2. Way(down, m, i) = SubSeq(down, 1, i) /\ Way(down, m, i - 1) = SubSeq(down, 1, i - 1)
      BY <2>2, <3>1 DEF Way
    <3>3. p[i] = down[i] /\ down[i] \notin {".", ".."}
      <4>1. DOMAIN down = 1..k
        BY <1>3, LenProperties
      <4> QED BY <1>1, <3>1, <4>1 DEF Steps
    <3>4. TakeSegment(Way(down, m, i - 1), p, i) = Append(Way(down, m, i - 1), p[i])
      BY <3>3 DEF TakeSegment
    <3> QED BY <1>3, <3>1, <3>2, <3>3, <3>4, OneMore
  <2>3. CASE k < i /\ i <= 2 * k
    <3>1. i \in (k + 1)..(2 * k) /\ i - k \in 1..k /\ i # Len(p)
      BY <1>1, <1>2, <2>1, <2>3
    <3>2. p[i] = ".."
      BY <1>1, <3>1 DEF Back
    <3> DEFINE n == 2 * k - i + 1
    <3>3. n \in 1..k /\ n - 1 = 2 * k - i
      BY <1>1, <2>1, <2>3
    <3>4. Way(down, m, i) = SubSeq(down, 1, n - 1)
      <4>1. ~(i <= k) /\ i <= 2 * k
        BY <1>1, <2>1, <2>3
      <4> QED BY <3>3, <4>1 DEF Way
    <3>5. Way(down, m, i - 1) = SubSeq(down, 1, n)
      <4>1. CASE i = k + 1
        <5>1. i - 1 = k /\ n = k /\ i - 1 <= k
          BY <1>1, <2>1, <4>1
        <5> QED BY <5>1 DEF Way
      <4>2. CASE i # k + 1
        <5>1. ~(i - 1 <= k) /\ i - 1 <= 2 * k /\ 2 * k - (i - 1) = n
          BY <1>1, <2>1, <2>3, <4>2
        <5> QED BY <5>1 DEF Way
      <4> QED BY <4>1, <4>2
    <3> HIDE DEF n
    <3>6. SubSeq(down, 1, n) # <<>> /\ Front(SubSeq(down, 1, n)) = SubSeq(down, 1, n - 1)
      BY <1>3, <3>3, OneLess
    <3>7. TakeSegment(SubSeq(down, 1, n), p, i) = SubSeq(down, 1, n - 1) \o <<>>
      <4>1. p[i] # "."
        BY <3>2
      <4> QED BY <3>1, <3>2, <3>6, <4>1 DEF TakeSegment
    <3>8. SubSeq(down, 1, n - 1) \in Seq(Segment)
      <4>1. \A j \in 1..(n - 1) : down[j] \in Segment
        BY <1>1, <1>3, <3>3, ElementOfSeq
      <4>2. n - 1 \in Int
        BY <1>1, <3>3
      <4> QED BY <4>1, <4>2, SubSeqProperties
    <3>9. SubSeq(down, 1, n - 1) \o <<>> = SubSeq(down, 1, n - 1)
      BY <3>8, ConcatEmptySeq
    <3> QED BY <3>4, <3>5, <3>7, <3>9
  <2>4. CASE 2 * k < i
    <3> DEFINE j == i - 2 * k
    <3>1. j \in 1..Len(m) /\ i \in (2 * k + 1)..Len(p)
      BY <1>1, <1>2, <2>1, <2>4, <1>4
    <3>2. p[i] = m[j] /\ m[j] \notin {".", ".."}
      <4>1. DOMAIN m = 1..Len(m)
        BY <1>2, LenProperties
      <4> QED BY <1>1, <3>1, <4>1 DEF Plain
    <3>3. Way(down, m, i) = SubSeq(m, 1, j)
      <4>1. ~(i <= k) /\ ~(i <= 2 * k)
        BY <1>1, <2>1, <2>4
      <4> QED BY <4>1 DEF Way
    <3>4. Way(down, m, i - 1) = SubSeq(m, 1, j - 1)
      <4>1. CASE j = 1
        <5>1. j - 1 = 0 /\ i - 1 = 2 * k
          BY <1>1, <2>1, <4>1
        <5>2. SubSeq(m, 1, j - 1) = <<>>
          BY <5>1, SubSeqEmpty
        <5>3. SubSeq(down, 1, 0) = <<>>
          BY SubSeqEmpty
        <5>4. Way(down, m, i - 1) = SubSeq(down, 1, 0)
          <6>1. k = 0 => i - 1 <= k /\ i - 1 = 0
            BY <1>1, <5>1
          <6>2. k # 0 => ~(i - 1 <= k) /\ i - 1 <= 2 * k /\ 2 * k - (i - 1) = 0
            BY <1>1, <5>1
          <6>3. CASE k = 0
            BY <6>1, <6>3 DEF Way
          <6>4. CASE k # 0
            BY <6>2, <6>4 DEF Way
          <6> QED BY <6>3, <6>4
        <5> QED BY <5>2, <5>3, <5>4
      <4>2. CASE j # 1
        <5> DEFINE h == i - 1
        <5>1. h > 2 * k /\ h \in Nat /\ h - 2 * k = j - 1
          BY <1>1, <2>1, <2>4, <4>2
        <5>2. Way(down, m, i - 1) = Way(down, m, h)
          OBVIOUS
        <5> HIDE DEF h
        <5>3. ~(h <= k) /\ ~(h <= 2 * k)
          BY <1>1, <5>1
        <5> QED BY <5>1, <5>2, <5>3 DEF Way
      <4> QED BY <4>1, <4>2
    <3> HIDE DEF j
    <3>5. TakeSegment(SubSeq(m, 1, j - 1), p, i) = Append(SubSeq(m, 1, j - 1), m[j])
      BY <3>2 DEF TakeSegment
    <3> QED BY <1>2, <3>1, <3>3, <3>4, <3>5, OneMore
  <2> QED BY <1>1, <2>1, <2>2, <2>3, <2>4
<1>5. Way(down, m, 0) = <<>>
  BY <1>1, SubSeqEmpty DEF Way
<1>6. \A i \in 0..Len(p) : Way(down, m, i) = Taken(p, g, i)
  <2> TAKE i \in 0..Len(p)
  <2>1. CASE i = 0
    BY <1>5, <2>1 DEF Taken
  <2>2. CASE i # 0
    <3>1. i \in 1..Len(p) /\ i - 1 \in 0..Len(p)
      BY <1>1, <2>2
    <3>2. g[i - 1] = Way(down, m, i - 1)
      BY <3>1
    <3> HIDE DEF g
    <3> QED BY <1>4, <2>2, <3>1, <3>2 DEF Taken
  <2> QED BY <2>1, <2>2
<1>7. g = [i \in 0..Len(p) |-> Taken(p, g, i)]
  BY <1>6
<1>8. Kept(p)[Len(p)] = Way(down, m, Len(p))
  <2>1. Len(p) \in 0..Len(p)
    BY <1>1
  <2>2. g[Len(p)] = Way(down, m, Len(p))
    BY <2>1
  <2> HIDE DEF g
  <2> QED BY <1>1, <1>7, <2>1, <2>2, KeptIs
<1>9. Way(down, m, Len(p)) = m
  <2>1. ~(Len(p) <= k) /\ ~(Len(p) <= 2 * k) /\ Len(p) - 2 * k = Len(m)
    BY <1>1, <1>2
  <2> QED BY <1>2, <2>1, SubSeqFull DEF Way
<1> QED BY <1>8, <1>9, RemovedIs DEF p

-----------------------------------------------------------------------------
(* Where requests are for, and where they come. *)

ReqFields == {"id", "method", "target", "want", "meant"}

\* A request asks for what was meant.
Meant(q) == DOMAIN q = ReqFields /\ Plain(q.target) /\ q.target = q.meant

There ==
  /\ m_connected => m_host = stream.peer
  /\ pc = "handshaking" => dest = stream.peer

\* The coroutine is on its way to the server that the request is for.
Underway == {"redirecting", "closing", "resolving", "connecting", "handshaking"}
Aimed ==
  /\ pc \in {"writing", "reading"} \/ inner => Meant(req)
  /\ pc = "writing" => req.want = stream.peer
  /\ inner => pc \in Underway /\ dest = req.want

Asked ==
  /\ pc = "reading" => server.todo \in {None, req}
  /\ server.todo # None => Meant(server.todo) /\ server.todo.want = stream.peer

\* The server names a place as it may name it to who asked.
Named ==
  server.reply # None =>
    server.reply.location \in Locations([peer |-> stream.peer, target |-> req.target])

ReachInv == There /\ Aimed /\ Asked /\ Named

\* What the user of the client asks for.
PathInv ==
  /\ user = "onvif" => camera \in Cameras
  /\ call # None => user = "onvif" /\ DOMAIN call = CallFields /\ Plain(call.target)
  /\ m_ptz # None => Plain(m_ptz)

\* The way back from a path, and the way there from its directory.
LEMMA DirectoryOf ==
  ASSUME NEW t, Plain(t)
  PROVE  Steps(Front(t)) /\ Len(Front(t)) = Len(t) - 1 /\ Back(Ups(t), Len(Front(t)))
<1>1. t \in Seq(Segment) /\ Len(t) \in Nat /\ Len(t) # 0 /\ DOMAIN t = 1..Len(t)
      /\ \A i \in 1..Len(t) : t[i] \in Segment /\ t[i] \notin {".", ".."}
  <2>1. t \in Seq(Segment) /\ t # <<>>
    BY PlainPath
  <2>2. Len(t) \in Nat /\ Len(t) # 0 /\ DOMAIN t = 1..Len(t)
    BY <2>1, LenProperties, EmptySeq
  <2> QED BY <2>1, <2>2, ElementOfSeq DEF Plain
<1> DEFINE n == Len(t) - 1
<1>2. n \in Nat /\ n <= Len(t)
  BY <1>1
<1>3. Front(t) = SubSeq(t, 1, n)
  BY DEF Front
<1> HIDE DEF n
<1>4. /\ SubSeq(t, 1, n) \in Seq(Segment) /\ Len(SubSeq(t, 1, n)) = n
      /\ \A i \in 1..n : SubSeq(t, 1, n)[i] = t[i]
  <2>1. \A j \in 1..n : t[j] \in Segment /\ 1 + j - 1 = j
    BY <1>1, <1>2
  <2>2. 1 \in Int /\ n \in Int /\ n - 1 + 1 = n /\ (1 <= n \/ n = 0)
    BY <1>2
  <2> QED BY <2>1, <2>2, SubSeqProperties
<1>5. Steps(Front(t))
  <2>1. DOMAIN SubSeq(t, 1, n) = 1..n
    BY <1>4, LenProperties
  <2>2. \A i \in 1..n : t[i] \notin {".", ".."}
    BY <1>1, <1>2
  <2> QED BY <1>3, <1>4, <2>1, <2>2 DEF Steps
<1>6. Back(Ups(t), n)
  <2> DEFINE u == [i \in 1..n |-> ".."]
  <2>1. Ups(t) = u
    BY DEF Ups, n
  <2>2. u \in [1..n -> Segment]
    BY DEF Segment
  <2>3. u \in Seq(Segment)
    BY <1>2, <2>2, SeqDef, Zenon
  <2>4. DOMAIN u = 1..n /\ \A i \in 1..n : u[i] = ".."
    BY Zenon
  <2> HIDE DEF u
  <2>5. Len(u) = n
    <3>1. Len(u) \in Nat /\ DOMAIN u = 1..Len(u)
      BY <2>3, LenProperties
    <3> QED BY <1>2, <2>4, <3>1
  <2> QED BY <2>1, <2>3, <2>4, <2>5 DEF Back
<1> QED BY <1>3, <1>4, <1>5, <1>6 DEF n

LEMMA AsideIsDetour ==
  ASSUME NEW m
  PROVE  /\ <<"x", "..">> \o m = Detour(<<"x">>, <<"..">>, m)
         /\ Steps(<<"x">>) /\ Back(<<"..">>, Len(<<"x">>))
<1>1. /\ <<"x">> \in Seq(Segment) /\ Len(<<"x">>) = 1 /\ <<"x">>[1] = "x"
      /\ <<"..">> \in Seq(Segment) /\ Len(<<"..">>) = 1 /\ <<"..">>[1] = ".."
      /\ <<"x", "..">> \in Seq(Segment) /\ Len(<<"x", "..">>) = 2
      /\ <<"x", "..">>[1] = "x" /\ <<"x", "..">>[2] = ".."
  <2>1. "x" \in Segment /\ ".." \in Segment
    BY DEF Segment
  <2>2. ASSUME NEW a \in Segment
        PROVE  <<a>> \in Seq(Segment) /\ Len(<<a>>) = 1 /\ <<a>>[1] = a
    OBVIOUS
  <2>3. ASSUME NEW a \in Segment, NEW b \in Segment
        PROVE  /\ <<a, b>> \in Seq(Segment) /\ Len(<<a, b>>) = 2
               /\ <<a, b>>[1] = a /\ <<a, b>>[2] = b
    OBVIOUS
  <2>4. <<"x">> \in Seq(Segment) /\ Len(<<"x">>) = 1 /\ <<"x">>[1] = "x"
    BY <2>1, <2>2
  <2>5. <<"..">> \in Seq(Segment) /\ Len(<<"..">>) = 1 /\ <<"..">>[1] = ".."
    BY <2>1, <2>2
  <2>6. /\ <<"x", "..">> \in Seq(Segment) /\ Len(<<"x", "..">>) = 2
        /\ <<"x", "..">>[1] = "x" /\ <<"x", "..">>[2] = ".."
    BY <2>1, <2>3
  <2> QED BY <2>4, <2>5, <2>6
<1>2. <<"x">> \o <<"..">> = <<"x", "..">>
  <2> DEFINE a == <<"x">>
             b == <<"..">>
             c == <<"x", "..">>
  <2> HIDE DEF a, b, c
  <2>1. /\ a \in Seq(Segment) /\ Len(a) = 1 /\ a[1] = "x"
        /\ b \in Seq(Segment) /\ Len(b) = 1 /\ b[1] = ".."
        /\ c \in Seq(Segment) /\ Len(c) = 2 /\ c[1] = "x" /\ c[2] = ".."
    BY <1>1 DEF a, b, c
  <2> DEFINE d == a \o b
  <2>2. /\ d \in Seq(Segment) /\ Len(d) = Len(a) + Len(b)
        /\ \A i \in 1..Len(a) + Len(b) : d[i] = IF i <= Len(a) THEN a[i] ELSE b[i - Len(a)]
    BY <2>1, Joined
  <2> HIDE DEF d
  <2>3. Len(d) = 2 /\ d[1] = "x" /\ d[2] = ".."
    BY <2>1, <2>2
  <2>4. \A i \in 1..Len(d) : d[i] = c[i]
    BY <2>1, <2>3
  <2>5. d = c
    BY <2>1, <2>2, <2>3, <2>4, SeqEqual
  <2> QED BY <2>5 DEF a, b, c, d
<1>3. Steps(<<"x">>)
  <2> DEFINE a == <<"x">>
  <2>1. DOMAIN a = {1} /\ a[1] = "x" /\ a \in Seq(Segment)
    BY <1>1
  <2> HIDE DEF a
  <2>2. Steps(a)
    BY <2>1 DEF Steps
  <2> QED BY <2>2 DEF a
<1>4. Back(<<"..">>, Len(<<"x">>))
  <2> DEFINE b == <<"..">>
  <2>1. Len(b) = 1 /\ b[1] = ".." /\ b \in Seq(Segment)
    BY <1>1
  <2> HIDE DEF b
  <2>2. Back(b, 1)
    BY <2>1 DEF Back
  <2> QED BY <1>1, <2>2 DEF b
<1> QED BY <1>2, <1>3, <1>4 DEF Detour

\* In whatever form a server names a resource, the client asks for it, and goes
\* to the server that was named or stays where it is.
LEMMA NamedIsMeant ==
  ASSUME Meant(req), NEW loc, loc # None,
         loc \in Locations([peer |-> stream.peer, target |-> req.target])
  PROVE  LET to == ParseLocation(loc)
         IN  /\ to.target = loc.means /\ Plain(loc.means)
             /\ to.addr = loc.addr \/ (to.addr = m_host /\ loc.addr = stream.peer)
<1> DEFINE at == [peer |-> stream.peer, target |-> req.target]
           named(form, a, tls, path, m) ==
             [form |-> form, addr |-> a, https |-> tls, path |-> path, means |-> m]
           t == req.target
<1>1. \E m \in Resources :
        \/ \E a, tls : loc = named("absolute", a, tls, m, m)
        \/ loc = named("rooted", stream.peer, secure, <<"x", "..">> \o m, m)
        \/ loc = named("relative", stream.peer, secure, Ups(t) \o m, m)
  BY DEF Locations
<1>2. PICK m \in Resources :
        \/ \E a, tls : loc = named("absolute", a, tls, m, m)
        \/ loc = named("rooted", stream.peer, secure, <<"x", "..">> \o m, m)
        \/ loc = named("relative", stream.peer, secure, Ups(t) \o m, m)
  BY <1>1
<1>3. Plain(m) /\ m \in Seq(Segment)
  BY HttpAssumption, PlainPath
<1>4. CASE \E a, tls : loc = named("absolute", a, tls, m, m)
  BY <1>3, <1>4 DEF ParseLocation
<1>5. CASE loc = named("rooted", stream.peer, secure, <<"x", "..">> \o m, m)
  <2> DEFINE path == <<"x", "..">> \o m
  <2>1. RemoveDotSegments(path) = m
    BY <1>3, AsideIsDetour, DetourRemoved
  <2> HIDE DEF path
  <2>2. loc = named("rooted", stream.peer, secure, path, m)
    BY <1>5 DEF path
  <2> QED BY <1>3, <2>1, <2>2 DEF ParseLocation
<1>6. CASE loc = named("relative", stream.peer, secure, Ups(t) \o m, m)
  <2> DEFINE path == Ups(t) \o m
             whole == Front(t) \o path
  <2>1. Steps(Front(t)) /\ Back(Ups(t), Len(Front(t)))
    BY DirectoryOf DEF Meant
  <2>2. whole = Detour(Front(t), Ups(t), m)
    <3>1. Front(t) \in Seq(Segment) /\ Ups(t) \in Seq(Segment)
      BY <2>1 DEF Steps, Back
    <3> DEFINE f == Front(t)
               u == Ups(t)
    <3> HIDE DEF f, u
    <3>2. f \o (u \o m) = (f \o u) \o m
      BY <1>3, <3>1, ConcatAssociative DEF f, u
    <3> QED BY <3>2, Zenon DEF Detour, f, u
  <2>3. RemoveDotSegments(whole) = m
    BY <1>3, <2>1, <2>2, DetourRemoved
  <2>4. whole = Front(req.target) \o path
    OBVIOUS
  <2> HIDE DEF path, whole
  <2>5. loc = named("relative", stream.peer, secure, path, m)
    BY <1>6 DEF path
  <2> QED BY <1>3, <2>3, <2>4, <2>5 DEF ParseLocation
<1> QED BY <1>2, <1>4, <1>5, <1>6

LEMMA SamePeer ==
  ASSUME NEW r, DOMAIN r = StreamFields, NEW s
  PROVE  /\ [r EXCEPT !.state = s].peer = r.peer
         /\ [r EXCEPT !.shaken = TRUE, !.state = s].peer = r.peer
BY DEF StreamFields

LEMMA NewPeer ==
  ASSUME NEW r, DOMAIN r = StreamFields, NEW s, NEW p
  PROVE  [r EXCEPT !.state = s, !.peer = p].peer = p
BY DEF StreamFields

LEMMA NewAim ==
  ASSUME NEW r, DOMAIN r = ReqFields, NEW a, NEW b, NEW c, NEW d
  PROVE  LET t == [r EXCEPT !.target = a, !.method = b, !.want = c, !.meant = d]
         IN  DOMAIN t = ReqFields /\ t.target = a /\ t.want = c /\ t.meant = d
BY DEF ReqFields

\* Who does not read has no answer that would name a place.
LEMMA NothingNamed ==
  ASSUME AnswerInv', pc' # "reading"
  PROVE  Named'
BY DEF AnswerInv, Exchange, Named

LEMMA UntouchedReach ==
  ASSUME ReachInv,
         UNCHANGED <<secure, m_connected, m_host, stream, pc, dest, req, inner, server>>
  PROVE  ReachInv'
<1>1. There' /\ Aimed' /\ Asked'
  BY DEF ReachInv, There, Aimed, Asked, Meant
<1>2. Named'
  <2> DEFINE at == [peer |-> stream.peer, target |-> req.target]
  <2>1. Locations(at)' = Locations(at)
    BY DEF Locations
  <2>2. server.reply # None => server.reply.location \in Locations(at)
    BY DEF ReachInv, Named
  <2> QED BY <2>1, <2>2, Zenon DEF Named
<1> QED BY <1>1, <1>2 DEF ReachInv

LEMMA ConnectReach ==
  ASSUME AnswerInv, AnswerInv', ReachInv, NEW a, Connect(a)
  PROVE  ReachInv'
<1>1. pc' \in {"done", "resolving"} /\ ~inner /\ inner' = FALSE
      /\ UNCHANGED <<m_connected, m_host, stream, req, server>>
  BY DEF Connect, BeginConnect, Return, Idle, ReachInv, Aimed, Underway
<1>2. There' /\ Aimed' /\ Asked'
  BY <1>1 DEF ReachInv, There, Aimed, Asked, Meant
<1> QED BY <1>1, <1>2, NothingNamed DEF ReachInv

LEMMA ResolveReach ==
  ASSUME AnswerInv, AnswerInv', ReachInv, Resolve
  PROVE  ReachInv'
<1>1. \/ pc' = "connecting" /\ UNCHANGED <<m_connected, m_host, inner>>
      \/ pc' = "done" /\ inner' = FALSE /\ ~m_connected'
  BY DEF Resolve, ConnectFails, Return
<1>2. UNCHANGED <<stream, dest, req, server>>
  BY DEF Resolve
<1>3. There' /\ Aimed' /\ Asked'
  BY <1>1, <1>2 DEF ReachInv, There, Aimed, Asked, Meant, Underway
<1> QED BY <1>1, <1>3, NothingNamed DEF ReachInv

LEMMA OpenStreamReach ==
  ASSUME AnswerInv, AnswerInv', ReachInv, OpenStream
  PROVE  ReachInv'
<1>1. UNCHANGED <<dest, req>> /\ pc = "connecting" /\ ~m_connected
  BY DEF OpenStream, AnswerInv, Places
<1>2. CASE server' = Quiet /\ stream' = [stream EXCEPT !.state = "open", !.peer = dest]
  <2>1. stream'.peer = dest /\ server'.todo = None
    BY <1>2, NewPeer, QuietServer DEF AnswerInv, Fields
  <2>2. \/ pc' = "handshaking" /\ UNCHANGED <<m_connected, m_host, inner>>
        \/ m_host' = dest /\ inner /\ pc' = "writing" /\ inner' = FALSE
        \/ m_host' = dest /\ pc' = "done" /\ inner' = FALSE
        \/ ~m_connected' /\ pc' = "done" /\ inner' = FALSE
    BY DEF OpenStream, Connected, ConnectFails, Return
  <2>3. There' /\ Aimed' /\ Asked'
    BY <1>1, <2>1, <2>2 DEF ReachInv, There, Aimed, Asked, Meant, Underway
  <2>4. pc' # "reading"
    BY <2>2
  <2> QED BY <2>3, <2>4, NothingNamed DEF ReachInv
<1>3. CASE ConnectFails /\ stream' = [stream EXCEPT !.state = "closed"] /\ UNCHANGED server
  <2>1. stream'.peer = stream.peer
    BY <1>3, SamePeer DEF AnswerInv, Fields
  <2>2. pc' = "done" /\ inner' = FALSE /\ ~m_connected'
    BY <1>3 DEF ConnectFails, Return
  <2>3. There' /\ Aimed' /\ Asked'
    BY <1>1, <1>3, <2>1, <2>2 DEF ReachInv, There, Aimed, Asked, Meant
  <2> QED BY <2>2, <2>3, NothingNamed DEF ReachInv
<1> QED BY <1>2, <1>3 DEF OpenStream

LEMMA HandshakeReach ==
  ASSUME AnswerInv, AnswerInv', ReachInv, Handshake
  PROVE  ReachInv'
<1>1. stream'.peer = stream.peer
  <2>1. DOMAIN stream = StreamFields
    BY DEF AnswerInv, Fields
  <2>2. UNCHANGED stream \/ \E s : stream' = [stream EXCEPT !.shaken = TRUE, !.state = s]
    BY DEF Handshake
  <2> QED BY <2>1, <2>2, SamePeer
<1>2. pc = "handshaking" /\ dest = stream.peer /\ ~m_connected /\ UNCHANGED <<dest, req, server>>
  BY DEF Handshake, ReachInv, There, AnswerInv, Places
<1>3. \/ m_host' = dest /\ inner /\ pc' = "writing" /\ inner' = FALSE
      \/ m_host' = dest /\ pc' = "done" /\ inner' = FALSE
      \/ UNCHANGED m_connected /\ pc' = "done" /\ inner' = FALSE
  BY DEF Handshake, Connected, Return
<1>4. There' /\ Aimed' /\ Asked'
  BY <1>1, <1>2, <1>3 DEF ReachInv, There, Aimed, Asked, Meant
<1>5. pc' # "reading"
  BY <1>3
<1> QED BY <1>4, <1>5, NothingNamed DEF ReachInv

\* What is common to the ways to close.
LEMMA ClosedReach ==
  ASSUME AnswerInv', ReachInv, stream'.peer = stream.peer,
         m_connected' => m_connected /\ UNCHANGED m_host,
         \/ inner /\ pc' \in {"closing", "resolving"} /\ UNCHANGED inner
         \/ pc' = "closing" /\ UNCHANGED inner
         \/ pc' = "done" /\ inner' = FALSE,
         UNCHANGED <<dest, req, server>>
  PROVE  ReachInv'
<1>1. There' /\ Aimed' /\ Asked'
  BY DEF ReachInv, There, Aimed, Asked, Meant, Underway
<1>2. pc' # "reading"
  OBVIOUS
<1> QED BY <1>1, <1>2, NothingNamed DEF ReachInv

LEMMA BeginCloseReach ==
  ASSUME AnswerInv, AnswerInv', ReachInv, BeginClose, UNCHANGED <<dest, req, server>>
  PROVE  ReachInv'
<1>1. stream'.peer = stream.peer
  <2>1. DOMAIN stream = StreamFields
    BY DEF AnswerInv, Fields
  <2>2. UNCHANGED stream \/ stream' = [stream EXCEPT !.state = "closed"]
    BY DEF BeginClose, DoClose
  <2>3. [stream EXCEPT !.state = "closed"].peer = stream.peer
    BY <2>1, SamePeer
  <2> QED BY <2>2, <2>3
<1>2. m_connected' => m_connected /\ UNCHANGED m_host
  BY DEF BeginClose, DoClose
<1>3. \/ inner /\ pc' \in {"closing", "resolving"} /\ UNCHANGED inner
      \/ pc' = "closing" /\ UNCHANGED inner
      \/ pc' = "done" /\ inner' = FALSE
  BY DEF BeginClose, AfterClose, Return
<1> QED BY <1>1, <1>2, <1>3, ClosedReach

LEMMA CloseTlsReach ==
  ASSUME AnswerInv, AnswerInv', ReachInv, CloseTls
  PROVE  ReachInv'
<1>1. stream'.peer = stream.peer
  <2>1. DOMAIN stream = StreamFields
    BY DEF AnswerInv, Fields
  <2>2. UNCHANGED stream \/ stream' = [stream EXCEPT !.state = "closed"]
    BY DEF CloseTls
  <2>3. [stream EXCEPT !.state = "closed"].peer = stream.peer
    BY <2>1, SamePeer
  <2> QED BY <2>2, <2>3
<1>2. ~m_connected' /\ UNCHANGED <<dest, req, server>>
  BY DEF CloseTls
<1>3. \/ inner /\ pc' \in {"closing", "resolving"} /\ UNCHANGED inner
      \/ pc' = "done" /\ inner' = FALSE
  BY DEF CloseTls, AfterClose, Return
<1> QED BY <1>1, <1>2, <1>3, ClosedReach

LEMMA SendRequestReach ==
  ASSUME AnswerInv, AnswerInv', ReachInv, NEW id, NEW method, NEW target, Plain(target),
         SendRequest(id, method, target)
  PROVE  ReachInv'
<1>1. Meant(req') /\ req'.want = stream.peer
  BY DEF SendRequest, Meant, ReqFields
<1>2. ~inner /\ pc \in {"idle", "done"}
  BY DEF SendRequest, Idle, ReachInv, Aimed, Underway
<1>3. pc' \in {"writing", "done"} /\ inner' = FALSE
      /\ UNCHANGED <<m_connected, m_host, stream, dest, server>>
  BY <1>2 DEF SendRequest, BeginSend, Return
<1>4. There' /\ Aimed' /\ Asked'
  BY <1>1, <1>2, <1>3 DEF ReachInv, There, Aimed, Asked, Meant
<1> QED BY <1>3, <1>4, NothingNamed DEF ReachInv

\* What an error leaves.
LEMMA ErrorReach ==
  ASSUME AnswerInv', ReachInv, NEW kind, HandleRequestError(kind), stream'.peer = stream.peer,
         server'.todo = server.todo, UNCHANGED <<m_host, dest, req>>
  PROVE  ReachInv'
<1>1. pc' = "done" /\ inner' = FALSE /\ (m_connected' => m_connected)
  BY DEF HandleRequestError, Return
<1>2. There' /\ Aimed' /\ Asked'
  BY <1>1 DEF ReachInv, There, Aimed, Asked, Meant
<1> QED BY <1>1, <1>2, NothingNamed DEF ReachInv

LEMMA WriteReach ==
  ASSUME AnswerInv, AnswerInv', ReachInv, Write
  PROVE  ReachInv'
<1>1. UNCHANGED <<m_host, stream, dest, req>> /\ pc = "writing"
  BY DEF Write
<1>2. CASE stream.state = "open"
  <2>1. server'.todo = req /\ server'.reply = None
    <3>1. server' = [server EXCEPT !.todo = req, !.reply = None]
      BY <1>2 DEF Write
    <3>2. DOMAIN server = ServerFields
      BY DEF AnswerInv, Fields
    <3> QED BY <3>1, <3>2, AskedServer
  <2>2. pc' = "reading" /\ UNCHANGED <<m_connected, inner>>
    BY <1>2 DEF Write
  <2>3. ~inner
    BY <1>1 DEF ReachInv, Aimed, Underway
  <2> QED BY <1>1, <2>1, <2>2, <2>3 DEF ReachInv, There, Aimed, Asked, Meant, Named
<1>3. CASE stream.state # "open"
  <2>1. HandleRequestError("other") /\ UNCHANGED server
    BY <1>3 DEF Write
  <2> QED BY <1>1, <2>1, ErrorReach
<1> QED BY <1>2, <1>3

\* Where an answer leads to that is not returned.
LEMMA FollowReach ==
  ASSUME AnswerInv', ReachInv, pc = "reading", m_connected, stream'.peer = stream.peer,
         m_connected' => m_connected, server'.todo = None, server'.reply = None, UNCHANGED m_host,
         NEW response, response.location \in Locations([peer |-> stream.peer, target |-> req.target]),
         FollowRedirect(response)
  PROVE  ReachInv'
<1> DEFINE loc    == response.location
           to     == ParseLocation(loc)
           get    == ShouldConvertToGet(response.status, req.method)
           method == IF get THEN "get" ELSE req.method
           q      == [req EXCEPT !.target = to.target, !.method = method,
                                 !.want = loc.addr, !.meant = loc.means]
<1>1. ~inner /\ Meant(req) /\ m_host = stream.peer
  BY DEF ReachInv, Aimed, Underway, There
<1>2. \/ UNCHANGED <<req, dest>> /\ pc' = "done" /\ inner' = FALSE
      \/ /\ loc # None /\ req' = q /\ dest' = to.addr
         /\ \/ pc' = "redirecting" /\ inner' = TRUE /\ Elsewhere(to)
            \/ pc' = "writing" /\ UNCHANGED inner /\ ~Elsewhere(to)
            \/ pc' = "done" /\ inner' = FALSE
  BY DEF FollowRedirect, Return
<1>3. CASE UNCHANGED <<req, dest>> /\ pc' = "done" /\ inner' = FALSE
  <2>1. There' /\ Aimed' /\ Asked'
    BY <1>3 DEF ReachInv, There, Aimed, Asked, Meant
  <2> QED BY <1>3, <2>1, NothingNamed DEF ReachInv
<1>4. CASE loc # None /\ req' = q /\ dest' = to.addr
  <2>1. /\ to.target = loc.means /\ Plain(loc.means)
        /\ to.addr = loc.addr \/ (to.addr = m_host /\ loc.addr = stream.peer)
    <3> HIDE DEF loc
    <3>1. loc \in Locations([peer |-> stream.peer, target |-> req.target])
      BY DEF loc
    <3> QED BY <1>1, <1>4, <3>1, NamedIsMeant
  <2> HIDE DEF to, loc, method
  <2>2. DOMAIN q = ReqFields /\ q.target = to.target /\ q.want = loc.addr /\ q.meant = loc.means
    BY <1>1, NewAim DEF Meant
  <2> HIDE DEF q
  <2>3. Meant(req') /\ req'.want = loc.addr
    BY <1>4, <2>1, <2>2 DEF Meant
  <2>4. \/ pc' = "redirecting" /\ inner' = TRUE /\ dest' = req'.want
        \/ pc' = "writing" /\ ~inner' /\ req'.want = stream'.peer
        \/ pc' = "done" /\ inner' = FALSE
    BY <1>1, <1>2, <1>4, <2>1, <2>3 DEF Elsewhere
  <2>5. Aimed'
    BY <2>3, <2>4 DEF Aimed, Underway
  <2>6. There' /\ Asked'
    BY <2>4 DEF ReachInv, There, Asked
  <2>7. pc' # "reading"
    BY <2>4
  <2> QED BY <2>5, <2>6, <2>7, NothingNamed DEF ReachInv
<1> HIDE DEF loc, to, q
<1> QED BY <1>2, <1>3, <1>4

LEMMA ReadResponseReach ==
  ASSUME AnswerInv, AnswerInv', ReachInv, ReadResponse
  PROVE  ReachInv'
<1>1. /\ pc = "reading" /\ m_connected /\ server.todo = None /\ server.reply # None
      /\ UNCHANGED <<secure, m_host>>
  BY DEF ReadResponse, AnswerInv, Exchange, Places
<1>2. server'.todo = None /\ server'.reply = None
  <2>1. server' = [server EXCEPT !.reply = None] /\ DOMAIN server = ServerFields
    BY DEF ReadResponse, AnswerInv, Fields
  <2> QED BY <1>1, <2>1, ReadServer
<1>3. CASE server.reply.whole
  <2> DEFINE n == IF m_buffer = None THEN server.reply.id ELSE m_buffer
             response == [server.reply EXCEPT !.id = n]
  <2>1. HandleResponse(response)
    BY <1>3 DEF ReadResponse
  <2>2. response.location = server.reply.location
    OBVIOUS
  <2>3. response.location \in Locations([peer |-> stream.peer, target |-> req.target])
    BY <1>1, <2>2, Zenon DEF ReachInv, Named
  <2> HIDE DEF response
  <2>4. stream'.peer = stream.peer /\ (m_connected' => m_connected)
    <3>1. DOMAIN stream = StreamFields
      BY DEF AnswerInv, Fields
    <3>2. [stream EXCEPT !.state = "closed"].peer = stream.peer
      BY <3>1, SamePeer
    <3>3. UNCHANGED stream \/ stream' = [stream EXCEPT !.state = "closed"]
      BY <2>1 DEF HandleResponse
    <3> QED BY <1>1, <3>2, <3>3
  <2>5. CASE FollowRedirect(response)
    BY <1>1, <1>2, <2>3, <2>4, <2>5, FollowReach
  <2>6. CASE Return(Ok(response)) /\ UNCHANGED <<req, dest>>
    <3>1. pc' = "done" /\ inner' = FALSE
      BY <2>6 DEF Return
    <3>2. There' /\ Aimed' /\ Asked'
      BY <1>1, <1>2, <2>4, <2>6, <3>1 DEF ReachInv, There, Aimed, Asked, Meant
    <3> QED BY <3>1, <3>2, NothingNamed DEF ReachInv
  <2> QED BY <2>1, <2>5, <2>6 DEF HandleResponse
<1>4. CASE ~server.reply.whole
  <2>1. HandleRequestError("other") /\ UNCHANGED <<stream, req, dest>>
    BY <1>4 DEF ReadResponse
  <2> QED BY <1>1, <1>2, <2>1, ErrorReach
<1> QED BY <1>3, <1>4

LEMMA ReadEofReach ==
  ASSUME AnswerInv, AnswerInv', ReachInv, ReadEof
  PROVE  ReachInv'
<1>1. PICK kind \in {"eof", "other"} : HandleRequestError(kind)
  BY DEF ReadEof
<1>2. UNCHANGED <<m_host, stream, dest, req, server>>
  BY DEF ReadEof
<1> QED BY <1>1, <1>2, ErrorReach

LEMMA TimeoutReach ==
  ASSUME AnswerInv, AnswerInv', ReachInv, Timeout
  PROVE  ReachInv'
<1>1. stream'.peer = stream.peer
  <2>1. stream' = [stream EXCEPT !.state = "closed"] /\ DOMAIN stream = StreamFields
    BY DEF Timeout, AnswerInv, Fields
  <2>2. [stream EXCEPT !.state = "closed"].peer = stream.peer
    BY <2>1, SamePeer
  <2> QED BY <2>1, <2>2
<1>2. UNCHANGED <<m_host, dest, req>>
  BY DEF Timeout
<1>3. CASE pc = "connecting"
  <2>1. pc' = "done" /\ inner' = FALSE /\ ~m_connected' /\ UNCHANGED server
    BY <1>3 DEF Timeout, Return
  <2>2. There' /\ Aimed' /\ Asked'
    BY <1>1, <1>2, <1>3, <2>1 DEF ReachInv, There, Aimed, Asked, Meant
  <2> QED BY <2>1, <2>2, NothingNamed DEF ReachInv
<1>4. CASE pc = "reading"
  <2>1. server'.todo = server.todo
    <3>1. server' = [server EXCEPT !.reply = None] /\ DOMAIN server = ServerFields
      BY <1>4 DEF Timeout, AnswerInv, Fields
    <3> QED BY <3>1, ReadServer
  <2>2. HandleRequestError("timeout")
    BY <1>4 DEF Timeout
  <2> QED BY <1>1, <1>2, <2>1, <2>2, ErrorReach
<1> QED BY <1>3, <1>4 DEF Timeout

LEMMA ServeReach ==
  ASSUME AnswerInv, ReachInv, NEW bodies, Serve(bodies)
  PROVE  ReachInv'
<1>1. /\ server.todo # None /\ ~server.eof /\ stream.state = "open"
      /\ UNCHANGED <<secure, m_connected, m_host, stream, pc, dest, req, inner>>
  BY DEF Serve
<1>2. pc = "reading" /\ server.todo = req
  BY <1>1 DEF AnswerInv, Exchange, ReachInv, Asked
<1>3. There' /\ Aimed'
  BY <1>1 DEF ReachInv, There, Aimed, Meant
<1> DEFINE at == [peer |-> stream.peer, target |-> req.target]
<1>4. None \in Locations(at)
  BY DEF Locations
<1>5. ASSUME NEW status, NEW keep, NEW whole, NEW loc \in Locations(at), NEW body, NEW eof,
             Answer(Reply(status, keep, whole, loc, body), eof)
      PROVE  ReachInv'
  <2>1. server'.todo = None /\ server'.reply.location = loc
    BY <1>5 DEF Answer, Reply
  <2>2. Asked'
    BY <2>1 DEF Asked
  <2>3. Locations(at)' = Locations(at)
    BY <1>1 DEF Locations
  <2>4. at' = [peer |-> stream.peer, target |-> req.target]'
    OBVIOUS
  <2>5. Named'
    BY <1>5, <2>1, <2>3, Zenon DEF Named
  <2> QED BY <1>3, <2>2, <2>5 DEF ReachInv
<1>6. CASE server' = [Quiet EXCEPT !.eof = TRUE]
  <2>1. server'.todo = None /\ server'.reply = None
    BY <1>6, QuietServer, GoneServer
  <2> QED BY <1>3, <2>1 DEF ReachInv, Asked, Named
<1> HIDE DEF at
<1>7. CASE Responds(bodies)
  <2>1. PICK b, keep : Answer(Reply(200, keep, TRUE, None, b), ~keep)
    BY <1>7, Zenon DEF Responds
  <2> DEFINE eof == ~keep
  <2>2. Answer(Reply(200, keep, TRUE, None, b), eof)
    BY <2>1
  <2> HIDE DEF eof
  <2> QED BY <1>4, <1>5, <2>2
<1>8. CASE Redirects
  <2>1. \E status, keep : \E loc \in Locations([peer |-> stream.peer, target |-> server.todo.target]) :
          Answer(Reply(status, keep, TRUE, loc, None), ~keep)
    BY <1>8, Zenon DEF Redirects
  <2>2. PICK status, keep : \E loc \in Locations([peer |-> stream.peer, target |-> server.todo.target]) :
          Answer(Reply(status, keep, TRUE, loc, None), ~keep)
    BY <2>1
  <2>3. PICK loc \in Locations([peer |-> stream.peer, target |-> server.todo.target]) :
          Answer(Reply(status, keep, TRUE, loc, None), ~keep)
    BY <2>2
  <2>4. [peer |-> stream.peer, target |-> server.todo.target] = at
    BY <1>2 DEF at
  <2>5. loc \in Locations(at)
    BY <2>4, Zenon
  <2> DEFINE eof == ~keep
  <2>6. Answer(Reply(status, keep, TRUE, loc, None), eof)
    BY <2>3
  <2> HIDE DEF eof
  <2> QED BY <1>5, <2>5, <2>6
<1>9. CASE Rejects
  BY <1>4, <1>5, <1>9 DEF Rejects
<1>10. CASE BreaksOff
  <2>1. \/ \E eof : Answer(Reply(200, TRUE, FALSE, None, "full"), eof)
        \/ server' = [Quiet EXCEPT !.eof = TRUE]
    BY <1>10, Zenon DEF BreaksOff
  <2> QED BY <1>4, <1>5, <1>6, <2>1
<1> QED BY <1>7, <1>8, <1>9, <1>10 DEF Serve

LEMMA ServerClosesReach ==
  ASSUME AnswerInv, ReachInv, ServerCloses
  PROVE  ReachInv'
<1>1. server'.todo = None /\ server'.reply = None
  <2>1. server' = [server EXCEPT !.eof = TRUE] /\ DOMAIN server = ServerFields
        /\ server.todo = None /\ server.reply = None
    BY DEF ServerCloses, AnswerInv, Fields
  <2> QED BY <2>1, GoneServer
<1> QED BY <1>1 DEF ServerCloses, ReachInv, There, Aimed, Asked, Named, Meant

\* The paths that OnvifClient asks for are its device's and those it was told.
LEMMA CallAims ==
  ASSUME NEW c, DOMAIN c = CallFields
  PROVE  /\ \A phase : [c EXCEPT !.phase = phase].target = c.target
         /\ \A todo, n : [c EXCEPT !.todo = todo, !.phase = "next", !.id = n].target = c.target
         /\ \A token : [c EXCEPT !.token = token, !.pick = None].target = c.target
BY DEF CallFields

LEMMA AnsweredAims ==
  ASSUME DOMAIN call = CallFields, NEW body, Answered(body), call' # None
  PROVE  call'.target = call.target
<1> DEFINE onward == [call EXCEPT !.todo = Tail(call.todo), !.phase = "next", !.id = Len(done) + 1]
<1>1. DOMAIN onward = CallFields /\ onward.target = call.target
  BY CallOnward, CallAims
<1>2. \/ \E r : Finish(r)
      \/ \E caps : InitializeServices(caps)
      \/ \E p : Goes([onward EXCEPT !.token = p, !.pick = None])
      \/ Goes(onward)
  BY DEF Answered
<1> HIDE DEF onward
<1>3. ~ \E r : Finish(r)
  BY Finished
<1>4. ~ \E caps : InitializeServices(caps)
  BY <1>3 DEF InitializeServices
<1>5. CASE \E p : Goes([onward EXCEPT !.token = p, !.pick = None])
  <2>1. PICK p : Goes([onward EXCEPT !.token = p, !.pick = None])
    BY <1>5
  <2>2. [onward EXCEPT !.token = p, !.pick = None].target = onward.target
    BY <1>1, CallAims
  <2> QED BY <1>1, <2>1, <2>2 DEF Goes
<1>6. CASE Goes(onward)
  BY <1>1, <1>6 DEF Goes
<1> QED BY <1>2, <1>3, <1>4, <1>5, <1>6

LEMMA ServicesAim ==
  ASSUME PathInv, user = "onvif", UNCHANGED camera, NEW body, Answered(body)
  PROVE  m_ptz' # None => Plain(m_ptz')
<1> DEFINE caps == ParseCapabilities(body).value
<1>1. UNCHANGED m_ptz \/ InitializeServices(caps)
  BY WhatInitializes
<1>2. caps.ptz = None \/ caps.ptz = camera.ptz
  BY DEF ParseCapabilities, Ok
<1> HIDE DEF caps
<1>3. UNCHANGED m_ptz \/ m_ptz' = PtzService(caps)
  BY <1>1 DEF InitializeServices
<1>4. IsPath(camera.ptz) => Plain(camera.ptz)
  BY CameraAssumption DEF PathInv
<1> QED BY <1>2, <1>3, <1>4 DEF PathInv, PtzService, IsPath

LEMMA RequestAims ==
  ASSUME ReachInv, PathInv, NEW name, NEW service, m_initialized /\ service # None => Plain(service),
         NEW todo, NEW pick, Request(name, service, todo, pick)
  PROVE  ReachInv' /\ PathInv'
<1>1. UNCHANGED <<user, camera, m_ptz>> /\ user = "onvif"
      /\ UNCHANGED <<secure, m_connected, m_host, stream, pc, dest, req, inner, server>>
  BY DEF Request, Refuse, httpVars, Free
<1>2. ReachInv'
  BY <1>1, UntouchedReach
<1>3. \/ UNCHANGED call
      \/ /\ m_initialized /\ service # None
         /\ DOMAIN call' = CallFields /\ call'.target = service
  BY DEF Request, Refuse, CallFields
<1>4. PathInv'
  BY <1>1, <1>3 DEF PathInv, Plain
<1> QED BY <1>2, <1>4

\* Calls of one kind and of the other.
LEMMA CallsAim ==
  ASSUME AnswerInv, AnswerInv', ReachInv, PathInv, ServesInv, DeviceCall \/ MediaCall \/ PtzCall
  PROVE  ReachInv' /\ PathInv'
<1>1. Plain(DevicePath)
  BY CameraAssumption
<1>2. CASE \E name, todo : ConnectCall(name, todo)
  <2>1. PICK name, todo : ConnectCall(name, todo)
    BY <1>2
  <2>2. ReachInv'
    BY <2>1, ConnectReach DEF ConnectCall
  <2>3. /\ UNCHANGED <<user, camera, m_ptz>> /\ user = "onvif"
        /\ DOMAIN call' = CallFields /\ call'.target = DevicePath
    BY <2>1 DEF ConnectCall, Free, CallFields
  <2>4. PathInv'
    BY <1>1, <2>3 DEF PathInv, Plain
  <2> QED BY <2>2, <2>4
<1>3. CASE \E name, todo, pick : Request(name, DevicePath, todo, pick)
  BY <1>1, <1>3, RequestAims
<1>4. CASE \E name, todo, pick : Request(name, m_media, todo, pick)
  <2>1. user = "onvif"
    BY <1>4 DEF Request, Free
  <2>2. m_initialized => Plain(m_media)
    BY <2>1, CameraAssumption DEF PathInv, ServesInv
  <2> QED BY <1>4, <2>2, RequestAims
<1>5. CASE \E name, todo, pick : Request(name, m_ptz, todo, pick)
  BY <1>5, RequestAims DEF PathInv
<1>6. DeviceCall => \/ \E name, todo : ConnectCall(name, todo)
                    \/ \E name, todo, pick : Request(name, DevicePath, todo, pick)
  BY DEF DeviceCall, CheckConnection, Initialize, GetDeviceInformation
<1>7. MediaCall => \E name, todo, pick : Request(name, m_media, todo, pick)
  BY DEF MediaCall, GetProfiles, GetStreamUri, GetMainStreamUri, GetSecondStreamUri
<1>8. PtzCall => \E name, todo, pick : Request(name, m_ptz, todo, pick)
  BY DEF PtzCall, ContinuousMove, StopMove, SetPreset, GetPresets, GotoPreset, RemovePreset,
     MoveFocus, MoveIris
<1> QED BY <1>2, <1>3, <1>4, <1>5, <1>6, <1>7, <1>8

LEMMA StepAims ==
  ASSUME AnswerInv, AnswerInv', ReachInv, PathInv, OnvifStep
  PROVE  ReachInv' /\ PathInv'
<1>1. /\ UNCHANGED <<user, camera>> /\ call # None /\ user = "onvif"
      /\ DOMAIN call = CallFields /\ Plain(call.target)
  BY DEF OnvifStep, Ensure, AfterConnect, TakeAnswer, PathInv
<1>2. ASSUME UNCHANGED m_ptz, call' = None \/ \E phase : call' = [call EXCEPT !.phase = phase]
      PROVE  PathInv'
  <2>1. call' = None \/ (DOMAIN call' = CallFields /\ call'.target = call.target)
    <3>1. CASE call' = None
      BY <3>1
    <3>2. CASE \E phase : call' = [call EXCEPT !.phase = phase]
      <4>1. PICK phase : call' = [call EXCEPT !.phase = phase]
        BY <3>2
      <4> DEFINE t == [call EXCEPT !.phase = phase]
      <4>2. DOMAIN t = CallFields
        BY <1>1, CallPhase
      <4>3. t.target = call.target
        BY <1>1, CallAims
      <4> QED BY <4>1, <4>2, <4>3
    <3> QED BY <1>2, <3>1, <3>2
  <2> QED BY <1>1, <1>2, <2>1 DEF PathInv, Plain
<1>3. CASE Ensure
  <2>1. PathInv'
    BY <1>2, <1>3 DEF Ensure
  <2>2. ReachInv'
    BY <1>1, <1>3, ConnectReach, SendRequestReach DEF Ensure
  <2> QED BY <2>1, <2>2
<1>4. CASE AfterConnect
  <2>1. PathInv'
    BY <1>2, <1>4 DEF AfterConnect, Finish
  <2>2. ReachInv'
    BY <1>4, UntouchedReach DEF AfterConnect, httpVars
  <2> QED BY <2>1, <2>2
<1>5. CASE TakeAnswer
  <2>1. ReachInv'
    BY <1>5, UntouchedReach DEF TakeAnswer, httpVars
  <2> DEFINE soap == SoapAnswer(result)
  <2>2. \/ Answered(soap.value)
        \/ Finish(soap) /\ UNCHANGED m_ptz
    BY <1>5 DEF TakeAnswer, Same
  <2> HIDE DEF soap
  <2>3. CASE Answered(soap.value)
    <3>1. call' = None \/ (DOMAIN call' = CallFields /\ call'.target = call.target)
      BY <1>1, <2>3, AnsweredGoes, AnsweredAims
    <3>2. m_ptz' # None => Plain(m_ptz')
      BY <1>1, <2>3, ServicesAim
    <3> QED BY <1>1, <2>1, <3>1, <3>2 DEF PathInv, Plain
  <2>4. CASE Finish(soap) /\ UNCHANGED m_ptz
    BY <1>2, <2>1, <2>4, Finished
  <2> QED BY <2>2, <2>3, <2>4
<1> QED BY <1>3, <1>4, <1>5 DEF OnvifStep

LEMMA NextReaches ==
  ASSUME AnswerInv, AnswerInv', ReachInv, PathInv, ServesInv, [OnvifNext]_systemVars
  PROVE  ReachInv' /\ PathInv'
<1>1. ASSUME UNCHANGED <<user, camera, call, m_ptz>>
      PROVE  PathInv'
  BY <1>1 DEF PathInv, Plain
<1>2. CASE AppStep
  <2>1. ASSUME Close PROVE ReachInv'
    <3>1. BeginClose /\ UNCHANGED <<dest, req, server>>
      BY <2>1 DEF Close
    <3> QED BY <3>1, BeginCloseReach
  <2>2. \A r \in Resources : Plain(r)
    BY HttpAssumption
  <2>3. ReachInv'
    BY <1>2, <2>1, <2>2, ConnectReach, SendRequestReach DEF AppStep
  <2>4. PathInv'
    BY <1>1, <1>2 DEF AppStep, onvifVars
  <2> QED BY <2>3, <2>4
<1>3. CASE HttpStep
  <2>1. PathInv'
    BY <1>1, <1>3 DEF HttpStep, onvifVars
  <2>2. ASSUME Reconnect PROVE ReachInv'
    <3>1. BeginClose /\ UNCHANGED <<dest, req, server>>
      BY <2>2 DEF Reconnect
    <3> QED BY <3>1, BeginCloseReach
  <2>3. ReachInv'
    BY <1>3, <2>2, ResolveReach, OpenStreamReach, HandshakeReach, CloseTlsReach, WriteReach,
       ReadResponseReach, ReadEofReach, TimeoutReach DEF HttpStep, ClientStep
  <2> QED BY <2>1, <2>3
<1>4. CASE CameraStep \/ ClosedIdle
  <2>1. PathInv'
    BY <1>1, <1>4 DEF CameraStep, ClosedIdle, onvifVars
  <2>2. ReachInv'
    BY <1>4, ServeReach, ServerClosesReach DEF CameraStep, ClosedIdle
  <2> QED BY <2>1, <2>2
<1>5. CASE UNCHANGED systemVars
  BY <1>1, <1>5, UntouchedReach DEF systemVars, httpVars, onvifVars
<1> QED BY <1>2, <1>3, <1>4, <1>5, CallsAim, StepAims DEF OnvifNext

(***************************************************************************)
(* RequestsReach: whatever redirections a server answers with, to other     *)
(* hosts and ports, by any form of a location, over a connection that stays *)
(* or one that is made anew, the request comes to the server and asks for   *)
(* the resource that was meant; of a path with as many ".." as segments,   *)
(* remove_dot_segments leaves what comes after.                             *)
(***************************************************************************)
THEOREM RequestsReach == OnvifSpec => []RedirectReached
<1> DEFINE Inv == AnswerInv /\ ReachInv /\ PathInv /\ ServesInv
<1>1. OnvifInit => Inv
  <2> SUFFICES ASSUME OnvifInit PROVE Inv
    OBVIOUS
  <2>1. DOMAIN stream = StreamFields
    BY DEF OnvifInit, HttpInit, StreamFields
  <2>2. AnswerInv
    BY <2>1, QuietServer DEF OnvifInit, HttpInit,
       AnswerInv, Fields, Places, Leftover, Exchange, OwnAnswer
  <2>3. There /\ Aimed /\ Asked /\ Named
    BY QuietServer DEF OnvifInit, HttpInit, There, Aimed, Asked, Named
  <2>4. PathInv /\ ServesInv
    BY DEF OnvifInit, PathInv, ServesInv
  <2> QED BY <2>2, <2>3, <2>4 DEF ReachInv
<1>2. Inv /\ [OnvifNext]_systemVars => Inv'
  BY NextOwn, NextServes, NextReaches
<1>3. Inv => RedirectReached
  BY DEF ReachInv, Asked, Meant, RedirectReached
<1> QED BY <1>1, <1>2, <1>3, PTL DEF OnvifSpec
-----------------------------------------------------------------------------
(* Scores of profiles. *)

\* The whole part of a square root, if it is no greater than b.
RootTo(b, N) == CHOOSE n \in 0..b : n * n <= N /\ N < (n + 1) * (n + 1)

IsRoot(d, N) == d \in Nat /\ d * d <= N /\ N < (d + 1) * (d + 1)

LEMMA RootIs ==
  ASSUME NEW b \in Nat, NEW N \in Nat, N < (b + 1) * (b + 1)
  PROVE  IsRoot(RootTo(b, N), N)
<1> DEFINE Above == {n \in Nat : N < n * n}
<1>1. b + 1 \in Above /\ \A n \in Nat : n \in Above <=> N < n * n
  BY SMT
<1>2. Above \subseteq Nat
  OBVIOUS
<1> HIDE DEF Above
<1>3. Above # {}
  BY <1>1
<1>4. PICK m \in Above : \A n \in Above : m <= n
  BY <1>2, <1>3, LeastNat
<1>5. m \in Nat /\ m <= b + 1 /\ N < m * m
  BY <1>1, <1>2, <1>4
<1>6. m # 0
  BY <1>5
<1> DEFINE r == m - 1
<1>7. r \in 0..b /\ r \in Nat /\ r < m /\ m = r + 1
  BY <1>5, <1>6
<1> HIDE DEF r
<1>8. ~(N < r * r)
  BY <1>1, <1>4, <1>7
<1>9. r * r \in Nat
  BY <1>7
<1>10. r * r <= N /\ N < (r + 1) * (r + 1)
  BY <1>5, <1>7, <1>8, <1>9
<1> DEFINE P(n) == n * n <= N /\ N < (n + 1) * (n + 1)
<1>11. P(r)
  BY <1>10
<1> QED
  <2> HIDE DEF P
  <2>1. P(CHOOSE n \in 0..b : P(n)) /\ (CHOOSE n \in 0..b : P(n)) \in 0..b
    BY <1>7, <1>11, SMT
  <2> QED BY <2>1 DEF P, RootTo, IsRoot

\* A root is the larger, the larger the number.
LEMMA RootGrows ==
  ASSUME NEW N \in Nat, NEW M \in Nat, N < M, NEW d, IsRoot(d, N), NEW e, IsRoot(e, M)
  PROVE  d <= e
<1>1. d \in Nat /\ e \in Nat /\ d * d \in Nat /\ (e + 1) * (e + 1) \in Nat
  BY DEF IsRoot
<1> SUFFICES ASSUME d >= e + 1 PROVE FALSE
  BY <1>1
<1>2. d * d >= (e + 1) * (e + 1)
  BY <1>1, SMT
<1> QED BY <1>1, <1>2 DEF IsRoot

LEMMA SquareGrows ==
  ASSUME NEW x \in Nat, NEW y \in Nat, x < y PROVE x * x < y * y /\ x * x \in Nat /\ y * y \in Nat
BY SMT

LEMMA QuotientGrows ==
  ASSUME NEW x \in Nat, NEW y \in Nat, x <= y, NEW k \in Nat, k > 0
  PROVE  x \div k <= y \div k /\ x \div k \in Nat /\ y \div k \in Nat
<1>1. x \div k \in Int /\ x >= k * (x \div k) /\ x < k * (x \div k) + k
  BY SMT
<1>2. y \div k \in Int /\ y >= k * (y \div k) /\ y < k * (y \div k) + k
  BY SMT
<1> DEFINE a == x \div k
           b == y \div k
<1>3. a \in Int /\ b \in Int /\ x >= k * a /\ x < k * a + k /\ y >= k * b /\ y < k * b + k
  BY <1>1, <1>2
<1> HIDE DEF a, b
<1>4. a <= b
  <2> SUFFICES ASSUME a >= b + 1 PROVE FALSE
    BY <1>3
  <2>1. k * a >= k * b + k
    BY <1>3, SMT
  <2> QED BY <1>3, <2>1, SMT
<1>5. a >= 0
  <2> SUFFICES ASSUME a <= -1 PROVE FALSE
    BY <1>3
  <2>1. k * a <= -k
    BY <1>3, SMT
  <2> QED BY <1>3, <2>1, SMT
<1> QED BY <1>3, <1>4, <1>5 DEF a, b

LEMMA QuotientFalls ==
  ASSUME NEW d \in Nat, NEW e \in Nat, d <= e
  PROVE  100000 \div (100 + d) >= 100000 \div (100 + e) /\ 100000 \div (100 + d) \in Nat /\ 100000 \div (100 + e) <= 1000
         /\ 100000 \div (100 + e) \in Nat
<1> DEFINE k == 100 + d
           l == 100 + e
           a == 100000 \div k
           b == 100000 \div l
<1>1. k \in Nat /\ l \in Nat /\ 100 <= k /\ k <= l
  OBVIOUS
<1> HIDE DEF k, l
<1>2. a \in Int /\ 100000 >= k * a /\ 100000 < k * a + k
  BY <1>1, SMT
<1>3. b \in Int /\ 100000 >= l * b /\ 100000 < l * b + l
  BY <1>1, SMT
<1> HIDE DEF a, b
<1>4. a >= 0
  <2> SUFFICES ASSUME a <= -1 PROVE FALSE
    BY <1>2
  <2>1. k * a <= -k
    BY <1>1, <1>2, SMT
  <2> QED BY <1>1, <1>2, <2>1, SMT
<1>5. b >= 0
  <2> SUFFICES ASSUME b <= -1 PROVE FALSE
    BY <1>3
  <2>1. l * b <= -l
    BY <1>1, <1>3, SMT
  <2> QED BY <1>1, <1>3, <2>1, SMT
<1>6. a >= b
  <2> SUFFICES ASSUME b >= a + 1 PROVE FALSE
    BY <1>2, <1>3
  <2>1. l * b >= k * b
    BY <1>1, <1>3, <1>5, SMT
  <2>2. k * b >= k * a + k
    BY <1>1, <1>2, <1>3, SMT
  <2> QED BY <1>1, <1>2, <1>3, <2>1, <2>2, SMT
<1>7. b <= 1000
  <2> SUFFICES ASSUME b >= 1001 PROVE FALSE
    BY <1>3
  <2>1. l * b >= 100 * b
    BY <1>1, <1>3, <1>5, SMT
  <2> QED BY <1>1, <1>3, <2>1, SMT
<1> QED BY <1>2, <1>3, <1>4, <1>5, <1>6, <1>7 DEF a, b, k, l

Root(N) == RootTo(2500, N)

LEMMA BonusIs ==
  ASSUME NEW v, NEW W, NEW H
  PROVE  LET w == AbsDiff(v.width, W)
             h == AbsDiff(v.height, H)
         IN  ResolutionBonus(v, W, H) =
               IF w = 0 /\ h = 0 THEN 5000 ELSE 100000 \div (100 + Root(w * w + h * h))
BY DEF ResolutionBonus, Root, RootTo

\* Of two sizes that full HD holds the one that holds the other is nearer to it.
LEMMA BonusTells ==
  ASSUME NEW v, v.width \in Nat, v.height \in Nat, NEW w, w.width \in Nat, w.height \in Nat,
         w.width > v.width, w.height > v.height, w.width <= 1920, w.height <= 1080
  PROVE  /\ ResolutionBonus(v, 1920, 1080) \in Nat /\ ResolutionBonus(w, 1920, 1080) \in Nat
         /\ ResolutionBonus(v, 1920, 1080) <= ResolutionBonus(w, 1920, 1080)
<1> DEFINE vx == AbsDiff(v.width, 1920)
           vy == AbsDiff(v.height, 1080)
           wx == AbsDiff(w.width, 1920)
           wy == AbsDiff(w.height, 1080)
           V == vx * vx + vy * vy
           N == wx * wx + wy * wy
<1>1. /\ {vx, vy, wx, wy} \subseteq Nat /\ vx <= 1920 /\ vy <= 1080
      /\ wx < vx /\ wy < vy
  BY DEF AbsDiff
<1>2. /\ ResolutionBonus(v, 1920, 1080) =
            IF vx = 0 /\ vy = 0 THEN 5000 ELSE 100000 \div (100 + Root(V))
      /\ ResolutionBonus(w, 1920, 1080) =
            IF wx = 0 /\ wy = 0 THEN 5000 ELSE 100000 \div (100 + Root(N))
  BY BonusIs
<1> HIDE DEF vx, vy, wx, wy
<1>3. wx * wx < vx * vx /\ wx * wx \in Nat /\ wy * wy < vy * vy /\ wy * wy \in Nat
      /\ vx * vx \in Nat /\ vy * vy \in Nat
  BY <1>1, SquareGrows
<1>4. vx * vx <= 3686400 /\ vy * vy <= 1166400
  BY <1>1, SMT
<1>5. V \in Nat /\ N \in Nat /\ N < V /\ V < (2500 + 1) * (2500 + 1) /\ N < (2500 + 1) * (2500 + 1)
  BY <1>3, <1>4, SMT
<1> HIDE DEF V, N
<1>6. IsRoot(Root(V), V) /\ IsRoot(Root(N), N)
  <2> DEFINE b == 2500
  <2>1. b \in Nat /\ V < (b + 1) * (b + 1) /\ N < (b + 1) * (b + 1)
    BY <1>5
  <2> HIDE DEF b
  <2>2. IsRoot(RootTo(b, V), V) /\ IsRoot(RootTo(b, N), N)
    BY <1>5, <2>1, RootIs
  <2>3. Root(V) = RootTo(b, V) /\ Root(N) = RootTo(b, N)
    BY DEF Root, b
  <2> QED BY <2>2, <2>3
<1>7. Root(N) <= Root(V) /\ Root(N) \in Nat /\ Root(V) \in Nat
  <2>1. Root(N) \in Nat /\ Root(V) \in Nat
    BY <1>6 DEF IsRoot
  <2> QED BY <1>5, <1>6, <2>1, RootGrows
<1>8. /\ 100000 \div (100 + Root(N)) >= 100000 \div (100 + Root(V))
      /\ 100000 \div (100 + Root(N)) \in Nat /\ 100000 \div (100 + Root(V)) \in Nat
      /\ 100000 \div (100 + Root(V)) <= 1000
  BY <1>7, QuotientFalls
<1>9. vx # 0
  BY <1>1
<1> QED BY <1>2, <1>8, <1>9

LEMMA CodecScores ==
  ASSUME NEW c \in Codecs PROVE CodecScore[c] \in Nat
BY DEF Codecs, CodecScore

LEMMA PreferredMain == Preferred["main"][1] = 1920 /\ Preferred["main"][2] = 1080
BY DEF Preferred

\* A video encoder as the client has it.
IsRead(v) == /\ v.codec \in Codecs /\ {v.width, v.height, v.bitrate} \subseteq Nat

LEMMA ScoreTells ==
  ASSUME NEW p, NEW q, IsRead(p.video), IsRead(q.video),
         q.video.bitrate >= p.video.bitrate,
         CodecScore[q.video.codec] >= CodecScore[p.video.codec],
         q.video.width <= 1920, q.video.height <= 1080,
         q.video.width > p.video.width, q.video.height > p.video.height,
         q.video.width * q.video.height >= p.video.width * p.video.height + 1000
  PROVE  ~(Score(q, "main") <= Score(p, "main"))
<1> DEFINE v == p.video
           w == q.video
           a == v.width * v.height
           b == w.width * w.height
<1>1. CodecScore[v.codec] \in Nat /\ CodecScore[w.codec] \in Nat
  BY CodecScores DEF IsRead
<1>2. /\ v.bitrate \div 100000 <= w.bitrate \div 100000
      /\ v.bitrate \div 100000 \in Nat /\ w.bitrate \div 100000 \in Nat
  BY QuotientGrows DEF IsRead
<1>3. /\ ResolutionBonus(v, 1920, 1080) \in Nat /\ ResolutionBonus(w, 1920, 1080) \in Nat
      /\ ResolutionBonus(v, 1920, 1080) <= ResolutionBonus(w, 1920, 1080)
  BY BonusTells DEF IsRead
<1>4. a \in Nat /\ b \in Nat /\ b >= a + 1000
  BY SMT DEF IsRead
<1>5. /\ Score(p, "main") = CodecScore[v.codec] + a \div 1000 + v.bitrate \div 100000
                              + ResolutionBonus(v, 1920, 1080)
      /\ Score(q, "main") = CodecScore[w.codec] + b \div 1000 + w.bitrate \div 100000
                              + ResolutionBonus(w, 1920, 1080)
  BY PreferredMain DEF Score, ProfileScore
<1> HIDE DEF v, w, a, b
<1>6. a \div 1000 \in Nat /\ b \div 1000 \in Nat /\ b \div 1000 >= a \div 1000 + 1
  BY <1>4, SMT
<1>7. CodecScore[w.codec] >= CodecScore[v.codec]
  BY DEF v, w
<1> QED BY <1>1, <1>2, <1>3, <1>5, <1>6, <1>7

-----------------------------------------------------------------------------
(* The profile chosen. *)

\* The profiles of the camera as the client reads them, and those it may choose.
Listed == ParseProfiles("full").value.profiles
Best   == IF ParseProfiles("full").ok THEN SelectBestProfiles(Listed, "main") ELSE {}

ForMain(r) == r # None /\ r.name = "get_main_stream_uri"

\* The call for the main stream asks for the profiles first, then for the
\* stream of one that may come first.
ChoiceInv ==
  /\ call # None \/ outcome # None => user = "onvif"
  /\ user = "onvif" => camera \in Cameras
  /\ call # None => DOMAIN call = CallFields
  /\ ForMain(call) =>
       \/ call.todo = <<"profiles", "uri">> /\ call.pick = "main"
       \/ call.todo = <<"uri">> /\ call.token \in Best
  /\ ForMain(outcome) /\ outcome.ok => outcome.value.token \in Best

LEMMA SameChoice ==
  ASSUME UNCHANGED camera PROVE Best' = Best
BY DEF Best, Listed, ParseProfiles

LEMMA UntouchedChoice ==
  ASSUME ChoiceInv, UNCHANGED <<user, camera, call, outcome>>
  PROVE  ChoiceInv'
BY SameChoice DEF ChoiceInv, ForMain

LEMMA CallKeeps ==
  ASSUME NEW c, DOMAIN c = CallFields
  PROVE  /\ \A phase : LET t == [c EXCEPT !.phase = phase]
                      IN  t.name = c.name /\ t.todo = c.todo /\ t.pick = c.pick /\ t.token = c.token
         /\ \A todo, n : LET t == [c EXCEPT !.todo = todo, !.phase = "next", !.id = n]
                       IN  t.name = c.name /\ t.todo = todo
         /\ \A token : LET t == [c EXCEPT !.token = token, !.pick = None]
                      IN  t.name = c.name /\ t.todo = c.todo /\ t.token = token
BY DEF CallFields

\* A call goes on in another phase.
LEMMA PhaseChoice ==
  ASSUME ChoiceInv, call # None, UNCHANGED <<user, camera, outcome>>,
         NEW phase, call' = [call EXCEPT !.phase = phase]
  PROVE  ChoiceInv'
<1> DEFINE t == [call EXCEPT !.phase = phase]
<1>1. DOMAIN call = CallFields /\ user = "onvif"
  BY DEF ChoiceInv
<1>2. /\ DOMAIN t = CallFields /\ t.name = call.name /\ t.todo = call.todo
      /\ t.pick = call.pick /\ t.token = call.token
  BY <1>1, CallPhase, CallKeeps
<1>3. call' = t
  OBVIOUS
<1> HIDE DEF t
<1> QED BY <1>1, <1>2, <1>3, SameChoice DEF ChoiceInv, ForMain

\* A call ends, with what is not of a profile that comes first only if it was
\* not for the main stream.
LEMMA EndChoice ==
  ASSUME ChoiceInv, call # None, UNCHANGED <<user, camera>>, NEW r, Finish(r),
         ForMain(call) /\ r.ok => r.value.token \in Best
  PROVE  ChoiceInv'
<1>1. call' = None /\ outcome'.name = call.name /\ outcome'.ok = r.ok /\ outcome'.value = r.value
  BY DEF Finish
<1>2. user = "onvif"
  BY DEF ChoiceInv
<1> QED BY <1>1, <1>2, SameChoice DEF ChoiceInv, ForMain

LEMMA RequestChoice ==
  ASSUME ChoiceInv, NEW name, NEW service, NEW todo, NEW pick, Request(name, service, todo, pick),
         name = "get_main_stream_uri" => todo = <<"profiles", "uri">> /\ pick = "main"
  PROVE  ChoiceInv'
<1>1. user = "onvif" /\ call = None /\ UNCHANGED <<user, camera>>
  BY DEF Request, Free
<1>2. \/ call' = None /\ ~outcome'.ok
      \/ /\ call' = [name |-> name, phase |-> "next", todo |-> todo, target |-> service,
                     pick |-> pick, token |-> None, id |-> Len(done) + 1]
         /\ outcome' = None
  BY <1>1 DEF Request, Refuse
<1>3. call' # None => /\ DOMAIN call' = CallFields /\ call'.name = name
                      /\ call'.todo = todo /\ call'.pick = pick
  BY <1>2 DEF CallFields
<1> QED BY <1>1, <1>2, <1>3 DEF ChoiceInv, ForMain

LEMMA ConnectCallChoice ==
  ASSUME ChoiceInv, NEW name, NEW todo, ConnectCall(name, todo), name # "get_main_stream_uri"
  PROVE  ChoiceInv'
<1>1. user = "onvif" /\ UNCHANGED <<user, camera>> /\ outcome' = None
      /\ call' = [name |-> name, phase |-> "connect", todo |-> todo, target |-> DevicePath,
                  pick |-> None, token |-> None, id |-> Len(done) + 1]
  BY DEF ConnectCall, Free
<1>2. DOMAIN call' = CallFields /\ call'.name = name
  BY <1>1 DEF CallFields
<1> QED BY <1>1, <1>2 DEF ChoiceInv, ForMain

\* Every answer that lists profiles lists all of the camera's.
LEMMA ListedInAnswer ==
  ASSUME NEW body, ParseProfiles(body).ok
  PROVE  ParseProfiles("full").ok /\ ParseProfiles(body).value.profiles = Listed
BY DEF ParseProfiles, Listed, Ok, Err

LEMMA AnswerChoice ==
  ASSUME ChoiceInv, call # None, UNCHANGED <<user, camera>>, NEW body, Answered(body)
  PROVE  ChoiceInv'
<1> DEFINE onward == [call EXCEPT !.todo = Tail(call.todo), !.phase = "next", !.id = Len(done) + 1]
<1>1. /\ DOMAIN call = CallFields /\ user = "onvif"
  BY DEF ChoiceInv
<1>2. DOMAIN onward = CallFields /\ onward.name = call.name /\ onward.todo = Tail(call.todo)
  BY <1>1, CallOnward, CallKeeps
<1>3. CASE ~ForMain(call)
  <2>1. \/ \E r : Finish(r)
        \/ \E caps : InitializeServices(caps)
        \/ \E p : Goes([onward EXCEPT !.token = p, !.pick = None])
        \/ Goes(onward)
    BY DEF Answered
  <2> HIDE DEF onward
  <2>2. (\E caps : InitializeServices(caps)) => \E r : Finish(r)
    BY DEF InitializeServices
  <2>3. CASE \E r : Finish(r)
    BY <1>3, <2>3, EndChoice
  <2>4. ASSUME NEW t, DOMAIN t = CallFields, t.name = call.name, Goes(t)
        PROVE  ChoiceInv'
    <3>1. call' = t /\ outcome' = outcome
      BY <2>4 DEF Goes
    <3> QED BY <1>1, <1>3, <2>4, <3>1, SameChoice DEF ChoiceInv, ForMain
  <2>5. CASE \E p : Goes([onward EXCEPT !.token = p, !.pick = None])
    <3>1. PICK p : Goes([onward EXCEPT !.token = p, !.pick = None])
      BY <2>5
    <3> DEFINE t == [onward EXCEPT !.token = p, !.pick = None]
    <3>2. DOMAIN t = CallFields /\ t.name = call.name
      BY <1>2, CallToken, CallKeeps
    <3> HIDE DEF t
    <3>3. Goes(t)
      BY <3>1 DEF t
    <3> QED BY <2>4, <3>2, <3>3
  <2>6. CASE Goes(onward)
    BY <1>2, <2>4, <2>6
  <2> QED BY <2>1, <2>2, <2>3, <2>5, <2>6
<1>4. CASE ForMain(call) /\ call.todo = <<"profiles", "uri">> /\ call.pick = "main"
  <2>1. Head(call.todo) = "profiles" /\ Tail(call.todo) = <<"uri">> /\ call.pick # None
    BY <1>4, ProfilesAssumption
  <2>2. CASE ~ParseProfiles(body).ok
    <3>1. Finish(ParseProfiles(body))
      BY <2>1, <2>2 DEF Answered
    <3> QED BY <2>2, <3>1, EndChoice
  <2>3. CASE ParseProfiles(body).ok
    <3>1. ParseProfiles("full").ok /\ ParseProfiles(body).value.profiles = Listed
      BY <2>3, ListedInAnswer
    <3>2. \/ Finish(Err("kNoProfile"))
          \/ \E p \in Best : Goes([onward EXCEPT !.token = p, !.pick = None])
      BY <1>4, <2>1, <2>3, <3>1 DEF Answered, Best
    <3> HIDE DEF onward
    <3>3. CASE Finish(Err("kNoProfile"))
      BY <3>3, EndChoice DEF Err
    <3>4. CASE \E p \in Best : Goes([onward EXCEPT !.token = p, !.pick = None])
      <4>1. PICK p \in Best : Goes([onward EXCEPT !.token = p, !.pick = None])
        BY <3>4
      <4> DEFINE t == [onward EXCEPT !.token = p, !.pick = None]
      <4>2. DOMAIN t = CallFields /\ t.name = call.name /\ t.todo = <<"uri">> /\ t.token = p
        BY <1>2, <2>1, CallToken, CallKeeps
      <4>3. call' = t /\ outcome' = outcome
        BY <4>1 DEF Goes
      <4> HIDE DEF t
      <4> QED BY <1>1, <4>2, <4>3, SameChoice DEF ChoiceInv, ForMain
    <3> QED BY <3>2, <3>3, <3>4
  <2> QED BY <2>2, <2>3
<1>5. CASE ForMain(call) /\ call.todo = <<"uri">> /\ call.token \in Best
  <2>1. Head(call.todo) = "uri"
    BY <1>5
  <2> DEFINE parsed == ParseStreamUri(body, call.token)
  <2>2. CASE ~parsed.ok
    <3>1. Finish(parsed)
      BY <2>1, <2>2 DEF Answered
    <3> QED BY <2>2, <3>1, EndChoice
  <2>3. CASE parsed.ok
    <3>1. PICK host, port : Finish(Ok(ReplaceUriAuthority(parsed.value, host, port)))
      BY <2>1, <2>3 DEF Answered
    <3>2. parsed.value = [host |-> "inside", port |-> 8554, token |-> call.token]
      BY <2>3 DEF ParseStreamUri, Ok, Err
    <3> HIDE DEF parsed
    <3>3. ReplaceUriAuthority(parsed.value, host, port).token = call.token
      BY <3>2 DEF ReplaceUriAuthority
    <3> QED BY <1>5, <3>1, <3>3, EndChoice DEF Ok
  <2> QED BY <2>2, <2>3
<1> QED BY <1>3, <1>4, <1>5 DEF ChoiceInv

LEMMA NextChooses ==
  ASSUME ChoiceInv, [OnvifNext]_systemVars
  PROVE  ChoiceInv'
<1>1. CASE AppStep
  BY <1>1, UntouchedChoice DEF AppStep, onvifVars
<1>2. CASE DeviceCall
  BY <1>2, RequestChoice, ConnectCallChoice DEF DeviceCall, CheckConnection, Initialize,
     GetDeviceInformation
<1>3. CASE MediaCall
  BY <1>3, RequestChoice DEF MediaCall, GetProfiles, GetStreamUri, GetMainStreamUri,
     GetSecondStreamUri
<1>4. CASE PtzCall
  BY <1>4, RequestChoice DEF PtzCall, ContinuousMove, StopMove, SetPreset, GetPresets,
     GotoPreset, RemovePreset, MoveFocus, MoveIris
<1>5. CASE Ensure
  BY <1>5, PhaseChoice DEF Ensure
<1>6. CASE AfterConnect
  <2>1. call # None /\ UNCHANGED <<user, camera>>
    BY <1>6 DEF AfterConnect
  <2>2. CASE result.ok
    BY <1>6, <2>1, <2>2, PhaseChoice DEF AfterConnect
  <2>3. CASE ~result.ok
    BY <1>6, <2>1, <2>3, EndChoice DEF AfterConnect
  <2> QED BY <2>2, <2>3
<1>7. CASE TakeAnswer
  <2> DEFINE soap == SoapAnswer(result)
  <2>1. /\ call # None /\ UNCHANGED <<user, camera>>
        /\ IF soap.ok THEN Answered(soap.value) ELSE Finish(soap)
    BY <1>7 DEF TakeAnswer
  <2> HIDE DEF soap
  <2> QED BY <2>1, AnswerChoice, EndChoice
<1>8. CASE HttpStep \/ CameraStep \/ ClosedIdle
  BY <1>8, UntouchedChoice DEF HttpStep, CameraStep, ClosedIdle, onvifVars
<1>9. CASE UNCHANGED systemVars
  BY <1>9, UntouchedChoice DEF systemVars, onvifVars
<1> QED
  BY <1>1, <1>2, <1>3, <1>4, <1>5, <1>6, <1>7, <1>8, <1>9 DEF OnvifNext, OnvifStep

\* The profiles of a camera are read one by one.
LEMMA ListedIs ==
  ASSUME camera \in Cameras, ParseProfiles("full").ok, NEW q \in ToSet(Listed), q.video # None
  PROVE  \E p \in ToSet(camera.profiles) :
           p.video # None /\ q.video = ParseVideoEncoderConfig(p.video)
<1>1. Listed = [i \in DOMAIN camera.profiles |->
         LET p == camera.profiles[i]
         IN  IF p.video = None THEN p ELSE [p EXCEPT !.video = ParseVideoEncoderConfig(@)]]
  BY DEF Listed, ParseProfiles, Err, Ok
<1>2. PICK i \in DOMAIN camera.profiles : q = Listed[i]
  BY <1>1 DEF ToSet
<1> DEFINE p == camera.profiles[i]
<1>3. p \in ToSet(camera.profiles)
  BY DEF ToSet
<1>4. "video" \in DOMAIN p
  BY <1>3, ProfilesAssumption
<1>5. q = IF p.video = None THEN p ELSE [p EXCEPT !.video = ParseVideoEncoderConfig(@)]
  BY <1>1, <1>2
<1> HIDE DEF p
<1>6. p.video # None /\ q.video = ParseVideoEncoderConfig(p.video)
  BY <1>4, <1>5
<1> QED BY <1>3, <1>6

\* What is not known of a video encoder is taken for none.
LEMMA ReadIsRead ==
  ASSUME NEW c \in Cameras, NEW p \in ToSet(c.profiles), p.video # None
  PROVE  LET v == ParseVideoEncoderConfig(p.video)
         IN  v.codec \in Codecs /\ {v.width, v.height, v.bitrate} \subseteq Nat
<1> DEFINE node == p.video
<1>1. /\ node.codec \in Codecs \union {None}
      /\ {node.width, node.height, node.bitrate} \subseteq Nat \union {None}
  BY ProfilesAssumption
<1> HIDE DEF node
<1>2. LET v == ParseVideoEncoderConfig(node)
      IN  v.codec \in Codecs /\ {v.width, v.height, v.bitrate} \subseteq Nat
  BY <1>1 DEF ParseVideoEncoderConfig, Known, Codecs
<1> QED BY <1>2 DEF node

(***************************************************************************)
(* MainStreamIsLargest: with whatever profiles, in whatever order and with  *)
(* whatever left out, the stream that get_main_stream_uri() returns is not  *)
(* of a profile that another up to full HD exceeds both ways, with a codec  *)
(* and a bitrate at least as good: no step of the sum outweighs the size.   *)
(* It takes sizes that differ by the pixels of a point: below that two      *)
(* profiles have one score and the sort may put either first.               *)
(***************************************************************************)
THEOREM MainStreamIsLargest ==
  ASSUME SizesTell
  PROVE  OnvifSpec => []MainIsLargest
<1>1. OnvifInit => ChoiceInv
  BY DEF OnvifInit, ChoiceInv, ForMain
<1>2. ChoiceInv /\ [OnvifNext]_systemVars => ChoiceInv'
  BY NextChooses
<1>3. ChoiceInv => MainIsLargest
  <2> SUFFICES ASSUME ChoiceInv, ForMain(outcome), outcome.ok,
                      NEW q \in ToSet(Listed), q.video # None,
                      q.video.bitrate >= outcome.value.token.video.bitrate,
                      CodecScore[q.video.codec] >= CodecScore[outcome.value.token.video.codec],
                      q.video.width <= 1920, q.video.height <= 1080,
                      q.video.width > outcome.value.token.video.width,
                      q.video.height > outcome.value.token.video.height
               PROVE  FALSE
    BY DEF MainIsLargest, ForMain, Listed
  <2> DEFINE best == outcome.value.token
  <2>1. /\ camera \in Cameras /\ ParseProfiles("full").ok
        /\ best \in SelectBestProfiles(Listed, "main")
    BY DEF ChoiceInv, Best, ForMain
  <2>2. best \in ToSet(Listed) /\ best.video # None /\ Score(q, "main") <= Score(best, "main")
    BY <2>1 DEF SelectBestProfiles
  <2>3. PICK p \in ToSet(camera.profiles) :
          p.video # None /\ best.video = ParseVideoEncoderConfig(p.video)
    BY <2>1, <2>2, ListedIs
  <2>4. PICK r \in ToSet(camera.profiles) :
          r.video # None /\ q.video = ParseVideoEncoderConfig(r.video)
    BY <2>1, ListedIs
  <2>5. q.video.width * q.video.height >= best.video.width * best.video.height + 1000
    BY <2>1, <2>3, <2>4 DEF SizesTell
  <2>6. IsRead(best.video) /\ IsRead(q.video)
    BY <2>1, <2>3, <2>4, ReadIsRead DEF IsRead
  <2> HIDE DEF best
  <2> QED BY <2>2, <2>5, <2>6, ScoreTells DEF best
<1> QED BY <1>1, <1>2, <1>3, PTL DEF OnvifSpec
=============================================================================
