------------------------- MODULE RtspServer_proofs -------------------------
(***************************************************************************)
(* Theorems of RtspServerSession and of RtspServer.                        *)
(*                                                                         *)
(* Of the session, for any media sessions and any number of requests: to   *)
(* the server it is a session of SessionLife, its channels stay apart as   *)
(* long as they do not wrap, and what it leaves registered at its end is   *)
(* only what it had lost sight of, which takes a client that is not        *)
(* orderly or a read that is handled behind close().                       *)
(*                                                                         *)
(* Of the server, for any clients and any number of starts: it makes one   *)
(* session of each client and drives it as SessionLife allows, and stop()  *)
(* leaves open only sessions of accepts that had completed before it.      *)
(***************************************************************************)
EXTENDS RtspServerSession, RtspServer, SequenceTheorems, TLAPS

Codes == {200, 404, 405, 455, 461}
Slots == SUBSET Transport
Registrations == [media : Media, track : Nat, transport : Transport]

-----------------------------------------------------------------------------
LEMMA Bounds == Channels \in Nat \ {0} /\ MaxRequests \in Nat /\ MaxBatch \in Nat
  BY SessionAssumption

(***************************************************************************)
(* Sequences of tracks and of responses.                                   *)
(***************************************************************************)
\* A list of n tracks without a transport.
LEMMA NoSlots ==
  ASSUME NEW n \in Nat
  PROVE  /\ [i \in 1..n |-> {}] \in Seq(Slots)
         /\ Len([i \in 1..n |-> {}]) = n
         /\ \A i \in 1..n : [j \in 1..n |-> {}][i] = {}
<1>1. [i \in 1..n |-> {}] \in [1..n -> Slots]
  BY DEF Slots
<1>2. [i \in 1..n |-> {}] \in Seq(Slots)
  BY <1>1, SeqDef
<1> QED
  BY <1>2

\* One track gets another transport.
LEMMA SlotReplaced ==
  ASSUME NEW s \in Seq(Slots), NEW i \in 1..Len(s), NEW x \in Slots
  PROVE  /\ [s EXCEPT ![i] = x] \in Seq(Slots)
         /\ Len([s EXCEPT ![i] = x]) = Len(s)
         /\ \A j \in 1..Len(s) : [s EXCEPT ![i] = x][j] = IF j = i THEN x ELSE s[j]
  BY ExceptSeq, LenProperties

LEMMA SlotsOf ==
  ASSUME NEW s \in Seq(Slots)
  PROVE  /\ Len(s) \in Nat
         /\ \A i \in 1..Len(s) : s[i] \in Slots
         /\ \A i \in 1..Len(s) : \A t : t \in s[i] => t \in Transport
  BY DEF Slots

LEMMA Appended ==
  ASSUME NEW s \in Seq(Response), NEW e \in Response
  PROVE  Append(s, e) \in Seq(Response)
  OBVIOUS

LEMMA TailTyped ==
  ASSUME NEW s \in Seq(Response), s # <<>>
  PROVE  Head(s) \in Response /\ Tail(s) \in Seq(Response)
  OBVIOUS

-----------------------------------------------------------------------------
(***************************************************************************)
(* Types, and how far the counters can go.                                 *)
(***************************************************************************)
SessionTypes ==
    /\ running \in BOOLEAN
    /\ media \in Media \cup {NoMedia}
    /\ identified \in BOOLEAN
    /\ setups \in Seq(Slots)
    /\ state \in {"Disconnected", "Connected", "Described", "Ready", "Playing"}
    /\ nextChannel \in 0..(Channels - 1)
    /\ registered \subseteq Registrations
    /\ transports \in Nat
    /\ lost \subseteq Registrations

LoopTypes ==
    /\ loop \in {"reading", "read", "handling", "ended", "died", "crashed"}
    /\ buffered \in 0..MaxBatch
    /\ handled \in 0..MaxRequests
    /\ socketOpen \in BOOLEAN
    /\ peer \in BOOLEAN

WriteTypes ==
    /\ posted \in Seq(Response)
    /\ accepted \in Seq(Response)
    /\ wire \in Seq(Response)
    /\ active \in BOOLEAN

\* Every transport answers a request, and the client has a bound.
Counting ==
    /\ transports <= handled
    /\ handled + buffered <= MaxRequests

LEMMA TypeParts == TypeOK <=> SessionTypes /\ LoopTypes /\ WriteTypes
  BY Zenon DEF TypeOK, SessionTypes, LoopTypes, WriteTypes, Slots, Registrations

LEMMA TypePartsNext == TypeOK' <=> SessionTypes' /\ LoopTypes' /\ WriteTypes'
  BY Zenon DEF TypeOK, SessionTypes, LoopTypes, WriteTypes, Slots, Registrations

LEMMA TypeInit == Init => TypeOK /\ Counting
<1> SUFFICES ASSUME Init PROVE TypeOK /\ Counting
  OBVIOUS
<1>1. SessionTypes
  <2>1. nextChannel \in 0..(Channels - 1)
    BY Bounds DEF Init
  <2>2. setups \in Seq(Slots)
    BY DEF Init
  <2>3. registered \subseteq Registrations
    BY DEF Init
  <2> QED
    BY <2>1, <2>2, <2>3 DEF Init, SessionTypes, Registrations
<1>2. LoopTypes /\ Counting
  <2>1. buffered \in 0..MaxBatch /\ handled \in 0..MaxRequests /\ Counting
    BY Bounds DEF Init, Counting
  <2> QED
    BY <2>1 DEF Init, LoopTypes
<1>3. WriteTypes
  BY DEF Init, Serializer!Init, WriteTypes
<1> QED
  BY <1>1, <1>2, <1>3, TypeParts

(***************************************************************************)
(* What the parts of a handler keep.                                       *)
(***************************************************************************)
LEMMA AnswerTyped ==
  ASSUME WriteTypes, LoopTypes, NEW code \in Codes, Answer(code)
  PROVE  posted' \in Seq(Response)
<1>1. [to |-> handled + 1, code |-> code] \in Response
  BY DEF LoopTypes, Codes, Response
<1> QED
  BY <1>1, Appended DEF Answer, WriteTypes

LEMMA DoneTyped ==
  ASSUME LoopTypes, Counting, Done, socketOpen' \in BOOLEAN, peer' = peer
  PROVE  LoopTypes' /\ handled' + buffered' <= MaxRequests /\ handled' = handled + 1
<1>1. handled' \in 0..MaxRequests /\ buffered' \in 0..MaxBatch
      /\ handled' + buffered' <= MaxRequests /\ handled' = handled + 1
  BY Bounds DEF LoopTypes, Counting, Done, Pending
<1> QED
  BY <1>1 DEF LoopTypes, Done

LEMMA HandleTyped ==
  ASSUME LoopTypes, WriteTypes, Counting, NEW code \in Codes, Handle(code)
  PROVE  /\ LoopTypes' /\ WriteTypes'
         /\ handled' + buffered' <= MaxRequests
         /\ handled' = handled + 1
<1>1. socketOpen' \in BOOLEAN /\ peer' = peer
  BY DEF Handle, LoopTypes
<1>2. WriteTypes'
  BY AnswerTyped DEF Handle, WriteTypes
<1> QED
  BY <1>1, <1>2, DoneTyped DEF Handle

LEMMA ReleaseTyped ==
  ASSUME SessionTypes, Release
  PROVE  registered' \subseteq Registrations /\ setups' \in Seq(Slots)
<1>1. [i \in 1..Len(setups) |-> {}] \in Seq(Slots)
  BY SlotsOf, NoSlots DEF SessionTypes
<1> QED
  BY <1>1 DEF Release, SessionTypes

LEMMA CloseTyped ==
  ASSUME SessionTypes, active \in BOOLEAN, socketOpen \in BOOLEAN, Close
  PROVE  /\ registered' \subseteq Registrations /\ setups' \in Seq(Slots)
         /\ running' \in BOOLEAN /\ active' \in BOOLEAN /\ socketOpen' \in BOOLEAN
<1>1. CASE running
  BY <1>1, ReleaseTyped DEF Close, Shut
<1>2. CASE ~running
  BY <1>2 DEF Close, SessionTypes
<1> QED
  BY <1>1, <1>2

LEMMA SetupsNowTyped ==
  ASSUME SessionTypes, media # NoMedia
  PROVE  SetupsNow \in Seq(Slots)
<1>1. TrackCount[media] \in Nat
  BY SessionAssumption DEF SessionTypes
<1>2. EmptySetups \in Seq(Slots)
  BY <1>1, NoSlots DEF EmptySetups
<1> QED
  BY <1>2 DEF SetupsNow, SessionTypes

LEMMA MineTyped ==
  ASSUME SessionTypes, media # NoMedia
  PROVE  Mine \subseteq Registrations
  BY SlotsOf DEF SessionTypes, Mine, Registration, Registrations

(***************************************************************************)
(* The steps, one by one.                                                  *)
(***************************************************************************)
Typed == SessionTypes /\ LoopTypes /\ WriteTypes /\ Counting

LEMMA RequestTypes == Typed /\ Request => Typed'
<1> SUFFICES ASSUME Typed, Request PROVE Typed'
  OBVIOUS
<1> USE DEF Typed
<1>0. \A code \in {200, 404, 405, 455, 461} : code \in Codes
  BY DEF Codes
<1>a. ASSUME NEW code \in Codes, Handle(code), UNCHANGED sessionVars PROVE Typed'
  <2>1. SessionTypes' /\ transports' = transports
    BY <1>a DEF sessionVars, SessionTypes
  <2> QED
    BY <1>a, <2>1, HandleTyped, Bounds DEF Counting, LoopTypes, SessionTypes
<1>b. ASSUME NEW code \in Codes, Handle(code), SessionTypes', transports' = transports
      PROVE  Typed'
  BY <1>b, HandleTyped, Bounds DEF Counting, LoopTypes, SessionTypes
<1>c. ASSUME NEW code \in Codes, Handle(code), SessionTypes', transports' = transports + 1
      PROVE  Typed'
  BY <1>c, HandleTyped, Bounds DEF Counting, LoopTypes, SessionTypes
<1>1. CASE HandleOther
  BY <1>0, <1>1, <1>a DEF HandleOther
<1>2. CASE HandleGarbled
  <2>1. SessionTypes' /\ transports' = transports /\ WriteTypes'
    BY <1>2 DEF HandleGarbled, sessionVars, writeVars, SessionTypes, WriteTypes
  <2>2. LoopTypes' /\ handled' + buffered' <= MaxRequests /\ handled' = handled + 1
    BY <1>2, DoneTyped DEF HandleGarbled, LoopTypes
  <2> QED
    BY <2>1, <2>2 DEF Counting, LoopTypes, SessionTypes
<1>3. CASE HandleMalformed \/ HandlePauseOfNull
  <2>1. /\ UNCHANGED <<sessionVars, buffered, handled, writeVars, socketOpen, peer>>
        /\ loop' \in {"died", "crashed"}
    BY <1>3 DEF HandleMalformed, HandlePauseOfNull
  <2>2. SessionTypes' /\ WriteTypes' /\ Counting'
    BY <2>1 DEF sessionVars, writeVars, SessionTypes, WriteTypes, Counting
  <2>3. LoopTypes'
    BY <2>1 DEF LoopTypes
  <2> QED
    BY <2>2, <2>3
<1>4. CASE \E m \in Media : HandleDescribe(m)
  <2>1. PICK m \in Media : HandleDescribe(m)
    BY <1>4
  <2>2. SessionTypes' /\ transports' = transports
    BY <2>1 DEF HandleDescribe, Keep, Strays, SessionTypes
  <2> QED
    BY <1>0, <1>b, <2>1, <2>2 DEF HandleDescribe
<1>5. CASE HandleDescribeUnknown
  <2>1. SessionTypes' /\ transports' = transports
    BY <1>5 DEF HandleDescribeUnknown, Strays, SessionTypes
  <2> QED
    BY <1>0, <1>5, <1>b, <2>1 DEF HandleDescribeUnknown
<1>6. CASE HandleSetupUnbound \/ HandlePlayRefused \/ HandlePauseRefused
  BY <1>0, <1>6, <1>a DEF HandleSetupUnbound, HandlePlayRefused, HandlePauseRefused
<1>7. CASE HandleSetupRefused
  <2>1. PICK code \in {404, 461} : Handle(code)
    BY <1>7 DEF HandleSetupRefused
  <2>2. setups' \in Seq(Slots)
    BY <1>7, SetupsNowTyped DEF HandleSetupRefused
  <2>3. SessionTypes' /\ transports' = transports
    BY <1>7, <2>2 DEF HandleSetupRefused, SessionTypes
  <2> QED
    BY <1>0, <1>b, <2>1, <2>3
<1>8. ASSUME media # NoMedia, NEW i \in 1..Len(SetupsNow), HandleSetup(i) PROVE Typed'
  <2>a. Handle(200)
    BY <1>8 DEF HandleSetup
  <2>b. handled' = handled + 1 /\ LoopTypes'
    BY <1>0, <2>a, HandleTyped
  <2>1. Handle(200) /\ handled' = handled + 1 /\ handled' <= MaxRequests
    BY <2>a, <2>b, Bounds DEF LoopTypes
  <2>2. [id |-> transports + 1, channel |-> nextChannel] \in Transport
    <3>1. transports + 1 \in 1..MaxRequests
      BY <2>1, Bounds DEF Counting, LoopTypes, SessionTypes
    <3> QED
      BY <3>1 DEF Transport, SessionTypes
  <2>3. {[id |-> transports + 1, channel |-> nextChannel]} \in Slots
    BY <2>2 DEF Slots
  <2>4. setups' \in Seq(Slots)
    BY <1>8, <2>3, SetupsNowTyped, SlotReplaced DEF HandleSetup
  <2>5. nextChannel' \in 0..(Channels - 1)
    <3>1. \A x \in Nat, c \in Nat \ {0} : x % c \in 0..(c - 1)
      OBVIOUS
    <3>2. nextChannel + 2 \in Nat
      BY Bounds DEF SessionTypes
    <3> QED
      BY <1>8, <3>1, <3>2, Bounds DEF HandleSetup, NextChannel
  <2>5a. /\ identified' = TRUE /\ transports' = transports + 1 /\ state' = "Ready"
         /\ UNCHANGED <<running, media, registered>>
         /\ lost' \subseteq lost \cup registered
    BY <1>8 DEF HandleSetup, AfterSetup, Strays
  <2>6. SessionTypes'
    BY <2>4, <2>5, <2>5a DEF SessionTypes
  <2> QED
    BY <1>0, <1>8, <1>c, <2>1, <2>6 DEF HandleSetup
<1>9. CASE HandlePlay
  <2>1. registered' \subseteq Registrations /\ lost' \subseteq Registrations
    BY <1>9, MineTyped DEF HandlePlay, MayPlay, SessionTypes
  <2>2. SessionTypes'
    BY <1>9, <2>1 DEF HandlePlay, SessionTypes
  <2> QED
    BY <1>0, <1>9, <1>b, <2>2 DEF HandlePlay
<1>10. CASE HandlePause
  <2>2. SessionTypes'
    BY <1>10 DEF HandlePause, AfterPause, SessionTypes
  <2> QED
    BY <1>0, <1>10, <1>b, <2>2 DEF HandlePause
<1>11. CASE HandleTeardown
  <2>1. SessionTypes' /\ transports' = transports
    BY <1>11, ReleaseTyped DEF HandleTeardown, Shut, SessionTypes
  <2>2. WriteTypes'
    BY <1>0, <1>11, AnswerTyped DEF HandleTeardown, Shut, WriteTypes
  <2>3. LoopTypes' /\ handled' + buffered' <= MaxRequests /\ handled' = handled + 1
    BY <1>11, DoneTyped DEF HandleTeardown, Shut
  <2> QED
    BY <2>1, <2>2, <2>3 DEF Counting, LoopTypes, SessionTypes
<1> QED
  BY <1>1, <1>2, <1>3, <1>4, <1>5, <1>6, <1>7, <1>8, <1>9, <1>10, <1>11 DEF Request

LEMMA OtherTypes ==
  Typed /\ (Read \/ ReadResumes \/ ReadAgain \/ ReadFails \/ LeaveLoop \/ ServerCloses \/ Destroyed) => Typed'
<1> SUFFICES ASSUME Typed, Read \/ ReadResumes \/ ReadAgain \/ ReadFails \/ LeaveLoop \/ ServerCloses \/ Destroyed
             PROVE  Typed'
  OBVIOUS
<1> USE DEF Typed
<1>1. CASE Read
  <2>1. SessionTypes' /\ WriteTypes'
    BY <1>1 DEF Read, sessionVars, writeVars, SessionTypes, WriteTypes
  <2>2. LoopTypes' /\ Counting'
    <3>1. buffered' \in 0..MaxBatch /\ handled' + buffered' <= MaxRequests
      BY <1>1, Bounds DEF Read, LoopTypes
    <3> QED
      BY <1>1, <3>1 DEF Read, sessionVars, LoopTypes, Counting
  <2> QED
    BY <2>1, <2>2
<1>2. CASE ReadResumes \/ ReadAgain
  <2>1. SessionTypes' /\ WriteTypes'
    BY <1>2 DEF ReadResumes, ReadAgain, sessionVars, writeVars, SessionTypes, WriteTypes
  <2>2. LoopTypes' /\ Counting'
    BY <1>2 DEF ReadResumes, ReadAgain, sessionVars, LoopTypes, Counting
  <2> QED
    BY <2>1, <2>2
<1>3. CASE ReadFails \/ LeaveLoop \/ ServerCloses \/ Destroyed
  <2>1. /\ Close
        /\ UNCHANGED <<media, identified, state, nextChannel, transports, lost, buffered, handled,
                       posted, accepted, wire, peer>>
        /\ loop' \in {"ended", loop}
    BY <1>3 DEF ReadFails, LeaveLoop, ServerCloses, Destroyed, EndLoop, loopVars
  <2>2. /\ registered' \subseteq Registrations /\ setups' \in Seq(Slots)
        /\ running' \in BOOLEAN /\ active' \in BOOLEAN /\ socketOpen' \in BOOLEAN
    BY <2>1, CloseTyped DEF WriteTypes, LoopTypes
  <2>3. SessionTypes'
    BY <2>1, <2>2 DEF SessionTypes
  <2>4. LoopTypes'
    BY <2>1, <2>2 DEF LoopTypes
  <2>5. WriteTypes'
    BY <2>1, <2>2 DEF WriteTypes
  <2>6. Counting'
    BY <2>1 DEF Counting
  <2> QED
    BY <2>3, <2>4, <2>5, <2>6
<1> QED
  BY <1>1, <1>2, <1>3

LEMMA SurroundingTypes ==
  Typed /\ (TransportCloses \/ PeerLeaves \/ RunPosted \/ Deliver \/ UNCHANGED vars) => Typed'
<1> SUFFICES ASSUME Typed, TransportCloses \/ PeerLeaves \/ RunPosted \/ Deliver \/ UNCHANGED vars
             PROVE  Typed'
  OBVIOUS
<1> USE DEF Typed
<1>1. UNCHANGED <<sessionVars, loopVars>> /\ socketOpen' \in BOOLEAN /\ peer' \in BOOLEAN
  BY DEF TransportCloses, PeerLeaves, RunPosted, Deliver, vars, LoopTypes
<1>2. SessionTypes' /\ LoopTypes' /\ Counting'
  <2>1. SessionTypes'
    BY <1>1 DEF sessionVars, SessionTypes
  <2>2. LoopTypes'
    BY <1>1 DEF loopVars, LoopTypes
  <2>3. Counting'
    BY <1>1 DEF sessionVars, loopVars, Counting
  <2> QED
    BY <2>1, <2>2, <2>3
<1>3. WriteTypes'
  <2>1. CASE TransportCloses
    BY <2>1 DEF TransportCloses, WriteTypes
  <2>2. CASE PeerLeaves \/ UNCHANGED vars
    BY <2>2 DEF PeerLeaves, vars, writeVars, WriteTypes
  <2>3. CASE RunPosted
    BY <2>3, TailTyped, Appended DEF RunPosted, Queue, Drop, Serializer!Accept, WriteTypes
  <2>4. CASE Deliver
    <3>1. accepted[Len(wire) + 1] \in Response
      BY <2>4 DEF Deliver, Serializer!Deliver, WriteTypes
    <3> QED
      BY <2>4, <3>1, Appended DEF Deliver, Serializer!Deliver, WriteTypes
  <2> QED
    BY <2>1, <2>2, <2>3, <2>4
<1> QED
  BY <1>2, <1>3

LEMMA TypeNext == Typed /\ [Next]_vars => Typed'
  BY RequestTypes, OtherTypes, SurroundingTypes DEF Next, ReadLoop

\* The types hold, and no more transports than requests are ever made, for
\* any media sessions, any numbers and whatever the client does.
THEOREM TypeCorrect == Spec => [](TypeOK /\ Counting)
<1>1. Init => Typed
  BY TypeInit, TypeParts DEF Typed
<1>2. Typed => TypeOK /\ Counting
  BY TypeParts DEF Typed
<1> QED
  BY <1>1, <1>2, TypeNext, PTL DEF Spec

-----------------------------------------------------------------------------
(***************************************************************************)
(* The session is one of SessionLife.                                      *)
(***************************************************************************)
EndedIsClosed == loop = "ended" => running = FALSE

Turns == {"reading", "read", "handling"}

\* All that a step can do to the loop and to m_running.
LifeMoves ==
    /\ running' = running \/ running' = FALSE
    /\ \/ loop' = loop
       \/ loop \in Turns /\ loop' \in Turns \cup {"crashed"}
       \/ loop = "handling" /\ loop' = "died"
       \/ loop \in Turns /\ loop' = "ended" /\ running' = FALSE

LEMMA CloseShuts == running \in BOOLEAN /\ Close => running' = FALSE
  BY DEF Close, Shut

LEMMA StepMoves == Typed /\ [Next]_vars => LifeMoves
<1> SUFFICES ASSUME Typed, [Next]_vars PROVE LifeMoves
  OBVIOUS
<1>1. running \in BOOLEAN
  BY DEF Typed, SessionTypes
<1>2. CASE Request
  <2>1. CASE HandleTeardown
    BY <2>1 DEF HandleTeardown, Done, Shut, LifeMoves
  <2>2. CASE HandleMalformed \/ HandlePauseOfNull
    BY <2>2 DEF HandleMalformed, HandlePauseOfNull, Pending, sessionVars, LifeMoves, Turns
  <2>3. CASE ~HandleTeardown /\ ~HandleMalformed /\ ~HandlePauseOfNull
    <3>1. running' = running /\ loop' = loop
      BY <1>2, <2>3 DEF Request, HandleOther, HandleGarbled, HandleDescribe,
         HandleDescribeUnknown, HandleSetupUnbound, HandleSetupRefused, HandleSetup,
         HandlePlay, HandlePlayRefused, HandlePause, HandlePauseRefused, Handle, Done,
         sessionVars
    <3> QED
      BY <3>1 DEF LifeMoves
  <2> QED
    BY <2>1, <2>2, <2>3
<1>3. CASE Read \/ ReadResumes \/ ReadAgain
  BY <1>3 DEF Read, ReadResumes, ReadAgain, sessionVars, LifeMoves, Turns
<1>4. CASE ReadFails \/ LeaveLoop
  BY <1>1, <1>4, CloseShuts DEF ReadFails, LeaveLoop, EndLoop, LifeMoves, Turns
<1>5. CASE ServerCloses \/ Destroyed
  BY <1>1, <1>5, CloseShuts DEF ServerCloses, Destroyed, loopVars, LifeMoves
<1>6. CASE TransportCloses \/ PeerLeaves \/ RunPosted \/ Deliver \/ UNCHANGED vars
  <2>1. running' = running /\ loop' = loop
    BY <1>6 DEF TransportCloses, PeerLeaves, RunPosted, Deliver, vars, sessionVars, loopVars
  <2> QED
    BY <2>1 DEF LifeMoves
<1> QED
  BY <1>2, <1>3, <1>4, <1>5, <1>6 DEF Next, ReadLoop

LEMMA EndedKept == EndedIsClosed /\ LifeMoves => EndedIsClosed'
  BY DEF EndedIsClosed, LifeMoves, Turns

LEMMA LifeSteps == Typed /\ EndedIsClosed /\ LifeMoves => [Life!Next]_LifeNow
<1> SUFFICES ASSUME Typed, EndedIsClosed, LifeMoves, LifeNow' # LifeNow PROVE Life!Next
  OBVIOUS
<1>1. running \in BOOLEAN /\ loop \in {"reading", "read", "handling", "ended", "died", "crashed"}
  BY DEF Typed, SessionTypes, LoopTypes
<1>2. CASE loop \in {"reading", "read", "handling", "crashed"}
  <2>1. CASE running
    <3>1. LifeNow = "running"
      BY <1>2, <2>1 DEF LifeNow
    <3>2. LifeNow' \in {"running", "closing", "stranded", "over"}
      BY <1>1, <1>2 DEF LifeNow, LifeMoves, Turns
    <3> QED
      BY <3>1, <3>2 DEF Life!Next, Life!Successors
  <2>2. CASE ~running
    <3>1. LifeNow = "closing"
      BY <1>2, <2>2 DEF LifeNow
    <3>a. running' = FALSE
      BY <1>1, <2>2 DEF LifeMoves
    <3>b. loop' \in {"reading", "read", "handling", "crashed", "died", "ended"}
      BY <1>2 DEF LifeMoves, Turns
    <3>2. LifeNow' \in {"closing", "over"}
      BY <3>a, <3>b DEF LifeNow
    <3> QED
      BY <3>1, <3>2 DEF Life!Next, Life!Successors
  <2> QED
    BY <2>1, <2>2
<1>3. CASE loop = "died"
  <2>1. LifeNow = "stranded" /\ LifeNow' = "over"
    BY <1>1, <1>3 DEF LifeNow, LifeMoves, Turns
  <2> QED
    BY <2>1 DEF Life!Next, Life!Successors
<1>4. CASE loop = "ended"
  BY <1>1, <1>4 DEF LifeNow, LifeMoves, Turns, EndedIsClosed
<1> QED
  BY <1>1, <1>2, <1>3, <1>4

\* RtspServerSession implements SessionLife (the session RtspServer builds
\* on), for any client and any number of requests.
THEOREM ImplementsSessionLife == Spec => IsSessionLife
<1>1. Init => Typed /\ EndedIsClosed /\ Life!Init
  <2>1. Init => Typed
    BY TypeInit, TypeParts DEF Typed
  <2>2. Init => EndedIsClosed /\ Life!Init
    BY DEF Init, EndedIsClosed, Life!Init, LifeNow
  <2> QED
    BY <2>1, <2>2
<1>2. Typed /\ EndedIsClosed /\ [Next]_vars => (Typed /\ EndedIsClosed)' /\ [Life!Next]_LifeNow
  BY TypeNext, StepMoves, EndedKept, LifeSteps
<1> QED
  BY <1>1, <1>2, PTL DEF Spec, IsSessionLife, Life!Spec

-----------------------------------------------------------------------------
(***************************************************************************)
(* Channels.  The n-th transport has the n-th pair of channels.            *)
(***************************************************************************)
EnoughChannels == 2 * MaxRequests <= Channels

Numbered(t) == t.id \in 1..transports /\ t.channel = 2 * (t.id - 1)

ChannelInv ==
    /\ \A i \in 1..Len(setups) : \A t \in setups[i] : Numbered(t)
    /\ \A r \in registered : Numbered(r.transport)
    /\ transports < MaxRequests => nextChannel = 2 * transports

\* The step makes no transport: what is there afterwards was there before.
MakesNone ==
    /\ transports' = transports
    /\ nextChannel' = nextChannel
    /\ \A i \in 1..Len(setups') : \A t : t \in setups'[i] =>
         \E j \in 1..Len(setups) : t \in setups[j]
    /\ \A r \in registered' : \/ r \in registered
                              \/ \E j \in 1..Len(setups) : r.transport \in setups[j]

LEMMA NoneMade == ChannelInv /\ MakesNone => ChannelInv'
  BY DEF ChannelInv, MakesNone, Numbered

LEMMA MineIsSetUp ==
  \A r \in Mine : \E j \in 1..Len(setups) : r.transport \in setups[j]
  BY DEF Mine, Registration

LEMMA ReleaseMakesNone ==
  ASSUME SessionTypes, Release \/ UNCHANGED <<registered, setups>>,
         UNCHANGED <<transports, nextChannel>>
  PROVE  MakesNone
<1>1. CASE UNCHANGED <<registered, setups>>
  BY <1>1 DEF MakesNone
<1>2. CASE media # NoMedia /\ Release
  <2>1. /\ Len(setups) \in Nat
        /\ setups' = [i \in 1..Len(setups) |-> {}]
        /\ registered' \subseteq registered
    BY <1>2, SlotsOf DEF Release, SessionTypes
  <2>2. \A i \in 1..Len(setups') : setups'[i] = {}
    BY <2>1, NoSlots
  <2> QED
    BY <2>1, <2>2 DEF MakesNone
<1> QED
  BY <1>1, <1>2 DEF Release

LEMMA SetupsNowOld ==
  ASSUME SessionTypes, media # NoMedia
  PROVE  \A i \in 1..Len(SetupsNow) : \A t : t \in SetupsNow[i] =>
           \E j \in 1..Len(setups) : t \in setups[j]
<1>1. CASE identified
  BY <1>1 DEF SetupsNow
<1>2. CASE ~identified
  <2>1. TrackCount[media] \in Nat
    BY SessionAssumption DEF SessionTypes
  <2>2. SetupsNow = [i \in 1..TrackCount[media] |-> {}]
    BY <1>2 DEF SetupsNow, EmptySetups
  <2>3. \A i \in 1..Len(SetupsNow) : SetupsNow[i] = {}
    BY <2>1, <2>2, NoSlots
  <2> QED
    BY <2>3
<1> QED
  BY <1>1, <1>2

\* Every step but a SETUP that succeeds.
LEMMA OthersMakeNone ==
  ASSUME Typed, [Next]_vars,
         ~(media # NoMedia /\ \E i \in 1..Len(SetupsNow) : HandleSetup(i))
  PROVE  MakesNone
<1> USE DEF Typed
<1>1. CASE Request
  <2>1. CASE HandleTeardown
    BY <2>1, ReleaseMakesNone DEF HandleTeardown
  <2>2. CASE HandlePlay
    BY <2>2, MineIsSetUp DEF HandlePlay, MakesNone
  <2>3. CASE HandlePause
    BY <2>3 DEF HandlePause, MakesNone
  <2>4. CASE HandleSetupRefused
    <3>1. setups' = SetupsNow /\ media # NoMedia
          /\ UNCHANGED <<nextChannel, registered, transports>>
      BY <2>4 DEF HandleSetupRefused
    <3> QED
      BY <3>1, SetupsNowOld DEF MakesNone
  <2>5. CASE ~HandleTeardown /\ ~HandlePlay /\ ~HandlePause /\ ~HandleSetupRefused
    <3>1. UNCHANGED <<setups, nextChannel, registered, transports>>
      BY <1>1, <2>5 DEF Request, HandleOther, HandleGarbled, HandleMalformed, HandleDescribe,
         Keep, HandleDescribeUnknown, HandleSetupUnbound, HandlePlayRefused,
         HandlePauseOfNull, HandlePauseRefused, sessionVars
    <3> QED
      BY <3>1 DEF MakesNone
  <2> QED
    BY <2>1, <2>2, <2>3, <2>4, <2>5
<1>2. CASE ReadFails \/ LeaveLoop \/ ServerCloses \/ Destroyed
  <2>1. Close /\ UNCHANGED <<transports, nextChannel>>
    BY <1>2 DEF ReadFails, LeaveLoop, ServerCloses, Destroyed, EndLoop
  <2> QED
    BY <2>1, ReleaseMakesNone DEF Close
<1>3. CASE ~Request /\ ~(ReadFails \/ LeaveLoop \/ ServerCloses \/ Destroyed)
  <2>1. UNCHANGED sessionVars
    BY <1>3 DEF Next, ReadLoop, Read, ReadResumes, ReadAgain, TransportCloses, PeerLeaves, RunPosted,
       Deliver, vars
  <2> QED
    BY <2>1 DEF sessionVars, MakesNone
<1> QED
  BY <1>1, <1>2, <1>3

LEMMA SetupNumbers ==
  ASSUME EnoughChannels, Typed, Typed', ChannelInv, media # NoMedia,
         NEW i \in 1..Len(SetupsNow), HandleSetup(i)
  PROVE  ChannelInv'
<1> USE DEF Typed
<1>0. PICK new : new = [id |-> transports + 1, channel |-> nextChannel]
  OBVIOUS
<1>1. /\ transports' = transports + 1
      /\ setups' = [SetupsNow EXCEPT ![i] = {new}]
      /\ registered' = registered
      /\ nextChannel' = NextChannel
  BY <1>0 DEF HandleSetup
<1>2. transports \in Nat /\ transports + 1 <= MaxRequests
  BY <1>1, Bounds DEF Counting, LoopTypes, SessionTypes
<1>3. new.id = transports + 1 /\ new.channel = 2 * transports
  BY <1>0, <1>2, Bounds DEF ChannelInv
<1>4. Numbered(new)'
  BY <1>1, <1>2, <1>3 DEF Numbered
<1>5. \A t : Numbered(t) => Numbered(t)'
  BY <1>1, <1>2 DEF Numbered
<1>6. ASSUME NEW j \in 1..Len(setups'), NEW t \in setups'[j] PROVE Numbered(t)'
  <2>1. Len(setups') = Len(SetupsNow)
        /\ \A k \in 1..Len(SetupsNow) : setups'[k] = IF k = i THEN {new} ELSE SetupsNow[k]
    <3>1. SetupsNow \in Seq(Slots)
      BY SetupsNowTyped
    <3>2. new \in Transport
      BY <1>0, <1>2, Bounds DEF Transport, SessionTypes
    <3>3. {new} \in Slots
      BY <3>2 DEF Slots
    <3> QED
      BY <1>1, <3>1, <3>3, SlotReplaced
  <2>2. CASE j = i
    BY <1>4, <1>6, <2>1, <2>2
  <2>3. CASE j # i
    <3>1. t \in SetupsNow[j]
      BY <1>6, <2>1, <2>3
    <3>2. \E k \in 1..Len(setups) : t \in setups[k]
      BY <1>6, <2>1, <3>1, SetupsNowOld
    <3>3. Numbered(t)
      BY <3>2 DEF ChannelInv
    <3> QED
      BY <1>5, <3>3
  <2> QED
    BY <2>2, <2>3
<1>7. \A r \in registered' : Numbered(r.transport)'
  BY <1>1, <1>5 DEF ChannelInv
<1>8. ASSUME transports' < MaxRequests PROVE nextChannel' = 2 * transports'
  <2>1. 2 * transports + 2 < Channels /\ 2 * transports + 2 \in Nat
    BY <1>1, <1>2, <1>8, Bounds DEF EnoughChannels
  <2>2. \A x \in Nat, c \in Nat \ {0} : x < c => x % c = x
    OBVIOUS
  <2>3. nextChannel' = (2 * transports + 2) % Channels
    <3>1. nextChannel' = (nextChannel + 2) % Channels
      BY <1>1 DEF NextChannel
    <3>2. nextChannel = 2 * transports
      BY <1>1, <1>2, <1>8, Bounds DEF ChannelInv
    <3> QED
      BY <3>1, <3>2
  <2> QED
    BY <1>1, <1>2, <2>1, <2>2, <2>3, Bounds
<1> QED
  BY <1>6, <1>7, <1>8 DEF ChannelInv

LEMMA PairsApart ==
  ASSUME NEW t \in Transport, NEW u \in Transport, t # u, Typed, Numbered(t), Numbered(u)
  PROVE  ChannelPair(t) \cap ChannelPair(u) = {}
<1>1. /\ t = [id |-> t.id, channel |-> t.channel] /\ u = [id |-> u.id, channel |-> u.channel]
      /\ t.id \in Nat /\ u.id \in Nat /\ t.channel \in Nat /\ u.channel \in Nat
  BY Bounds DEF Transport
<1>2. t.id # u.id
  BY <1>1 DEF Numbered
<1>3. \A a, b \in Nat : a # b =>
        {2 * (a - 1), 2 * (a - 1) + 1} \cap {2 * (b - 1), 2 * (b - 1) + 1} = {}
  OBVIOUS
<1> QED
  BY <1>1, <1>2, <1>3 DEF Numbered, ChannelPair

LEMMA ChannelsApart == Typed /\ ChannelInv => ChannelsDistinct
<1> SUFFICES ASSUME Typed, ChannelInv PROVE ChannelsDistinct
  OBVIOUS
<1>1. \A r \in registered : r.transport \in Transport /\ Numbered(r.transport)
  BY DEF Typed, SessionTypes, Registrations, ChannelInv
<1>2. \A i \in 1..Len(setups) : \A t \in setups[i] : t \in Transport /\ Numbered(t)
  BY SlotsOf DEF Typed, SessionTypes, ChannelInv
<1> QED
  BY <1>1, <1>2, PairsApart DEF ChannelsDistinct

\* As long as there are channels enough for the requests of a connection,
\* no two transports of it ever share a channel, whatever the client does.
THEOREM ChannelsNeverShared == ASSUME EnoughChannels PROVE Spec => []ChannelsDistinct
<1>1. Init => Typed /\ ChannelInv
  <2>1. Init => Typed
    BY TypeInit, TypeParts DEF Typed
  <2>2. Init => ChannelInv
    BY DEF Init, ChannelInv
  <2> QED
    BY <2>1, <2>2
<1>2. Typed /\ ChannelInv /\ [Next]_vars => (Typed /\ ChannelInv)'
  BY EnoughChannels, TypeNext, OthersMakeNone, NoneMade, SetupNumbers
<1> QED
  BY <1>1, <1>2, ChannelsApart, PTL DEF Spec

-----------------------------------------------------------------------------
(***************************************************************************)
(* The orderly client: no DESCRIBE of another path after the first SETUP,  *)
(* no SETUP of a track that plays, nothing behind a TEARDOWN.              *)
(***************************************************************************)
Orderly == Habits \cap {"other path", "setup again", "reuse"} = {}

OrderInv ==
    /\ RegisteredIsMine
    /\ PlayingIsComplete
    /\ identified => media # NoMedia
    /\ ~identified => setups = <<>>

LEMMA NoneMine ==
  ASSUME \A i \in 1..Len(setups) : setups[i] = {}
  PROVE  Mine = {}
  BY DEF Mine

LEMMA NoneMineNext ==
  ASSUME \A i \in 1..Len(setups') : setups'[i] = {}
  PROVE  Mine' = {}
  BY DEF Mine

LEMMA UnboundIsEmpty ==
  ASSUME OrderInv, ~identified \/ media = NoMedia
  PROVE  setups = <<>> /\ Mine = {} /\ registered = {}
<1>1. setups = <<>>
  BY DEF OrderInv
<1>2. Mine = {}
  BY <1>1, NoneMine
<1> QED
  BY <1>1, <1>2 DEF OrderInv, RegisteredIsMine

\* on_teardown() for all of Mine leaves nothing.
LEMMA ReleaseEmpties ==
  ASSUME SessionTypes, OrderInv, Release
  PROVE  registered' = {} /\ Mine' = {} /\ (setups = <<>> => setups' = <<>>)
<1>1. CASE media = NoMedia
  <2>1. setups' = <<>> /\ registered' = {}
    BY <1>1, UnboundIsEmpty DEF Release
  <2> QED
    BY <2>1, NoneMineNext
<1>2. CASE media # NoMedia
  <2>1. registered' = {}
    BY <1>2 DEF Release, OrderInv, RegisteredIsMine
  <2>2. Len(setups) \in Nat /\ setups' = [i \in 1..Len(setups) |-> {}]
    BY <1>2, SlotsOf DEF Release, SessionTypes
  <2>3. \A i \in 1..Len(setups') : setups'[i] = {}
    BY <2>2, NoSlots
  <2>4. setups = <<>> => setups' = <<>>
    BY <2>2
  <2> QED
    BY <2>1, <2>3, <2>4, NoneMineNext
<1> QED
  BY <1>1, <1>2

LEMMA CloseOrders ==
  ASSUME Typed, OrderInv, Close, UNCHANGED <<media, identified, state>>
  PROVE  OrderInv'
<1>1. CASE running
  <2>1. Release
    BY <1>1 DEF Close
  <2>2. registered' = {} /\ Mine' = {} /\ (setups = <<>> => setups' = <<>>)
    BY <2>1, ReleaseEmpties DEF Typed
  <2> QED
    BY <2>1, <2>2 DEF OrderInv, RegisteredIsMine, PlayingIsComplete
<1>2. CASE ~running
  <2>1. UNCHANGED <<registered, setups>>
    BY <1>2 DEF Close
  <2>2. Mine' = Mine
    BY <2>1 DEF Mine, Registration
  <2> QED
    BY <2>1, <2>2 DEF OrderInv, RegisteredIsMine, PlayingIsComplete
<1> QED
  BY <1>1, <1>2

LEMMA SetupOrders ==
  ASSUME Orderly, Typed, OrderInv, media # NoMedia,
         NEW i \in 1..Len(SetupsNow), HandleSetup(i)
  PROVE  OrderInv'
<1> USE DEF Typed
<1>0. PICK new : new = {[id |-> transports + 1, channel |-> nextChannel]}
  OBVIOUS
<1>1. /\ setups' = [SetupsNow EXCEPT ![i] = new]
      /\ identified' = TRUE /\ state' = "Ready"
      /\ UNCHANGED <<running, media, registered>>
      /\ \A r \in registered : r.transport \notin SetupsNow[i]
  BY <1>0 DEF HandleSetup, AfterSetup, Orderly
<1>3. RegisteredIsMine'
  <2>1. CASE ~identified
    BY <1>1, <2>1, UnboundIsEmpty DEF RegisteredIsMine
  <2>2. CASE identified
    <3>1. SetupsNow = setups /\ i \in 1..Len(setups)
      BY <2>2 DEF SetupsNow
    <3>2. SUFFICES ASSUME NEW r \in registered PROVE r \in Mine'
      BY <1>1 DEF RegisteredIsMine
    <3>3. PICK j \in 1..Len(setups) : \E t \in setups[j] : r = Registration(j, t)
      BY DEF OrderInv, RegisteredIsMine, Mine
    <3>4. PICK t \in setups[j] : r = Registration(j, t)
      BY <3>3
    <3>5. r.transport = t /\ j # i
      BY <1>1, <3>1, <3>4 DEF Registration
    <3>6. /\ Len(setups') = Len(setups)
          /\ setups'[j] = setups[j]
      <4>1. setups \in Seq(Slots) /\ Len(setups) \in Nat
        BY SlotsOf DEF SessionTypes
      <4> QED
        BY <1>1, <3>1, <3>5, <4>1
    <3>7. r = Registration(j, t)'
      BY <1>1, <3>4 DEF Registration
    <3> QED
      BY <3>4, <3>6, <3>7 DEF Mine
  <2> QED
    BY <2>1, <2>2
<1>4. PlayingIsComplete' /\ (identified => media # NoMedia)' /\ (~identified => setups = <<>>)'
  BY <1>1 DEF PlayingIsComplete
<1> QED
  BY <1>3, <1>4 DEF OrderInv

LEMMA RequestOrders ==
  ASSUME Orderly, Typed, OrderInv, Request
  PROVE  OrderInv'
<1>a. ASSUME UNCHANGED sessionVars PROVE OrderInv'
  <2>1. UNCHANGED <<running, media, identified, setups, state, registered>> /\ Mine' = Mine
    BY <1>a DEF sessionVars, Mine, Registration
  <2>2. RegisteredIsMine' /\ PlayingIsComplete'
    BY <2>1 DEF OrderInv, RegisteredIsMine, PlayingIsComplete
  <2>3. (identified => media # NoMedia)' /\ (~identified => setups = <<>>)'
    BY <2>1 DEF OrderInv
  <2> QED
    BY <2>2, <2>3 DEF OrderInv
<1>1. CASE \/ HandleOther \/ HandleGarbled \/ HandleMalformed \/ HandleSetupUnbound
           \/ HandlePlayRefused \/ HandlePauseRefused \/ HandlePauseOfNull
  <2>1. UNCHANGED sessionVars
    BY <1>1 DEF HandleOther, HandleGarbled, HandleMalformed, HandleSetupUnbound,
       HandlePlayRefused, HandlePauseRefused, HandlePauseOfNull
  <2> QED
    BY <1>a, <2>1
<1>2. CASE \E m \in Media : HandleDescribe(m)
  <2>1. PICK m \in Media : HandleDescribe(m)
    BY <1>2
  <2>2. /\ m = media \/ ~identified
        /\ media' = m /\ state' = "Described"
        /\ UNCHANGED <<setups, identified, running, registered>>
    BY <2>1 DEF HandleDescribe, Keep, Orderly
  <2>3. RegisteredIsMine'
    <3>1. CASE media' = media
      BY <2>2, <3>1 DEF OrderInv, RegisteredIsMine, Mine, Registration
    <3>2. CASE ~identified
      BY <2>2, <3>2, UnboundIsEmpty DEF RegisteredIsMine
    <3> QED
      BY <2>2, <3>1, <3>2
  <2>4. (identified => media # NoMedia)' /\ (~identified => setups = <<>>)'
    BY <2>2, SessionAssumption DEF OrderInv
  <2>5. PlayingIsComplete'
    BY <2>2 DEF PlayingIsComplete
  <2> QED
    BY <2>3, <2>4, <2>5 DEF OrderInv
<1>3. CASE HandleDescribeUnknown
  <2>1. /\ ~identified
        /\ UNCHANGED <<running, identified, setups, registered>>
    BY <1>3 DEF HandleDescribeUnknown, Orderly
  <2>2. setups' = <<>> /\ registered' = {} /\ ~identified'
    BY <2>1, UnboundIsEmpty
  <2>3. Mine' = {}
    BY <2>2, NoneMineNext
  <2>4. RegisteredIsMine' /\ PlayingIsComplete'
    BY <2>2, <2>3 DEF RegisteredIsMine, PlayingIsComplete
  <2> QED
    BY <2>2, <2>4 DEF OrderInv
<1>4. CASE HandleSetupRefused
  <2>1. /\ media # NoMedia
        /\ identified' = TRUE /\ setups' = SetupsNow
        /\ UNCHANGED <<running, media, state, registered>>
    BY <1>4 DEF HandleSetupRefused
  <2>2. registered' = registered /\ Mine' = Mine
    <3>1. CASE identified
      BY <2>1, <3>1 DEF SetupsNow, Mine, Registration
    <3>2. CASE ~identified
      <4>1. TrackCount[media] \in Nat
        BY <2>1, SessionAssumption DEF Typed, SessionTypes
      <4>2. \A j \in 1..Len(setups') : setups'[j] = {}
        BY <2>1, <3>2, <4>1, NoSlots DEF SetupsNow, EmptySetups
      <4> QED
        BY <2>1, <3>2, <4>2, NoneMineNext, UnboundIsEmpty
    <3> QED
      BY <3>1, <3>2
  <2>3. RegisteredIsMine' /\ PlayingIsComplete'
    BY <2>1, <2>2 DEF OrderInv, RegisteredIsMine, PlayingIsComplete
  <2>4. (identified => media # NoMedia)' /\ (~identified => setups = <<>>)'
    BY <2>1
  <2> QED
    BY <2>3, <2>4 DEF OrderInv
<1>5. CASE media # NoMedia /\ \E i \in 1..Len(SetupsNow) : HandleSetup(i)
  BY <1>5, SetupOrders
<1>6. CASE HandlePlay
  <2>1. /\ registered' = registered \cup Mine
        /\ UNCHANGED <<running, media, identified, setups>>
    BY <1>6 DEF HandlePlay
  <2>2. Mine' = Mine /\ registered' = Mine
    BY <2>1 DEF Mine, Registration, OrderInv, RegisteredIsMine
  <2>3. RegisteredIsMine' /\ PlayingIsComplete'
    BY <2>2 DEF RegisteredIsMine, PlayingIsComplete
  <2>4. (identified => media # NoMedia)' /\ (~identified => setups = <<>>)'
    BY <2>1 DEF OrderInv
  <2> QED
    BY <2>3, <2>4 DEF OrderInv
<1>7. CASE HandlePause
  <2>1. /\ registered' = registered \ Mine /\ state' = "Ready"
        /\ UNCHANGED <<running, media, identified, setups>>
    BY <1>7 DEF HandlePause, AfterPause
  <2>2. RegisteredIsMine' /\ PlayingIsComplete'
    BY <2>1 DEF OrderInv, RegisteredIsMine, PlayingIsComplete
  <2>3. (identified => media # NoMedia)' /\ (~identified => setups = <<>>)'
    BY <2>1 DEF OrderInv
  <2> QED
    BY <2>2, <2>3 DEF OrderInv
<1>8. CASE HandleTeardown
  <2>1. Release /\ UNCHANGED <<media, identified>>
    BY <1>8 DEF HandleTeardown
  <2>2. registered' = {} /\ Mine' = {} /\ (setups = <<>> => setups' = <<>>)
    BY <2>1, ReleaseEmpties DEF Typed
  <2> QED
    BY <2>1, <2>2 DEF OrderInv, RegisteredIsMine, PlayingIsComplete
<1> QED
  BY <1>1, <1>2, <1>3, <1>4, <1>5, <1>6, <1>7, <1>8 DEF Request

LEMMA OrderNext ==
  ASSUME Orderly, Typed, OrderInv, [Next]_vars
  PROVE  OrderInv'
<1>1. CASE Request
  BY <1>1, RequestOrders
<1>2. CASE ReadFails \/ LeaveLoop \/ ServerCloses \/ Destroyed
  <2>1. Close /\ UNCHANGED <<media, identified, state>>
    BY <1>2 DEF ReadFails, LeaveLoop, ServerCloses, Destroyed, EndLoop
  <2> QED
    BY <2>1, CloseOrders
<1>3. CASE \/ Read \/ ReadResumes \/ ReadAgain \/ TransportCloses \/ PeerLeaves \/ RunPosted
           \/ Deliver \/ UNCHANGED vars
  <2>1. UNCHANGED sessionVars
    BY <1>3 DEF Read, ReadResumes, ReadAgain, TransportCloses, PeerLeaves, RunPosted, Deliver, vars
  <2> QED
    BY <2>1 DEF sessionVars, OrderInv, RegisteredIsMine, PlayingIsComplete, Mine, Registration
<1> QED
  BY <1>1, <1>2, <1>3 DEF Next, ReadLoop

LEMMA OrderInit == Init => OrderInv
<1> SUFFICES ASSUME Init PROVE OrderInv
  OBVIOUS
<1>1. setups = <<>> /\ registered = {} /\ state = "Connected" /\ identified = FALSE
  BY DEF Init
<1> QED
  BY <1>1 DEF OrderInv, RegisteredIsMine, PlayingIsComplete

LEMMA OrderHolds == ASSUME Orderly PROVE Spec => []OrderInv
<1>1. Init => Typed /\ OrderInv
  BY TypeInit, TypeParts, OrderInit DEF Typed
<1>2. Typed /\ OrderInv /\ [Next]_vars => (Typed /\ OrderInv)'
  BY Orderly, TypeNext, OrderNext
<1> QED
  BY <1>1, <1>2, PTL DEF Spec

\* With an orderly client every registration can be taken away again ...
THEOREM RegisteredCanBeRemoved == ASSUME Orderly PROVE Spec => []RegisteredIsMine
<1>1. OrderInv => RegisteredIsMine
  BY DEF OrderInv
<1> QED
  BY <1>1, OrderHolds, PTL

\* ... and while it plays, every track that is set up is registered.
THEOREM PlaysAllTracks == ASSUME Orderly PROVE Spec => []PlayingIsComplete
<1>1. OrderInv => PlayingIsComplete
  BY DEF OrderInv
<1> QED
  BY <1>1, OrderHolds, PTL

-----------------------------------------------------------------------------
(***************************************************************************)
(* Any client.  While the session runs, a registration is one that Release *)
(* takes away or one the session has lost sight of; afterwards only those  *)
(* are left, for a PLAY behind close() is lost at once.                    *)
(***************************************************************************)
StrayInv ==
    /\ registered \subseteq Mine \cup lost
    /\ running = FALSE => registered \subseteq lost
    /\ ~identified => setups = <<>>

\* on_teardown() for all of Mine leaves only what is lost.
LEMMA ReleaseStrays ==
  ASSUME SessionTypes, StrayInv, Release, lost' = lost, identified' = identified
  PROVE  registered' \subseteq lost' /\ (~identified' => setups' = <<>>)
<1>1. CASE media = NoMedia
  <2>1. \A r \in Mine : r.media = NoMedia
    BY <1>1 DEF Mine, Registration
  <2>2. \A r \in registered : r.media # NoMedia
    BY SessionAssumption DEF SessionTypes, Registrations
  <2>3. registered \subseteq lost
    BY <2>1, <2>2 DEF StrayInv
  <2> QED
    BY <1>1, <2>3 DEF Release, StrayInv
<1>2. CASE media # NoMedia
  <2>1. registered' = registered \ Mine /\ setups' = [i \in 1..Len(setups) |-> {}]
    BY <1>2 DEF Release
  <2>2. setups = <<>> => setups' = <<>>
    BY <2>1
  <2> QED
    BY <2>1, <2>2 DEF StrayInv
<1> QED
  BY <1>1, <1>2

LEMMA RequestStrays ==
  ASSUME Typed, StrayInv, Request
  PROVE  StrayInv'
<1> USE DEF Typed
<1>a. ASSUME UNCHANGED <<running, media, identified, setups, lost>>, registered' \subseteq registered
      PROVE  StrayInv'
  <2>1. Mine' = Mine
    BY <1>a DEF Mine, Registration
  <2> QED
    BY <1>a, <2>1 DEF StrayInv
<1>b. ASSUME UNCHANGED <<running, registered>>, Strays, ~identified' => setups' = <<>>
      PROVE  StrayInv'
  BY <1>b DEF Strays, StrayInv
<1>1. CASE \/ HandleOther \/ HandleGarbled \/ HandleMalformed \/ HandleSetupUnbound
           \/ HandlePlayRefused \/ HandlePauseRefused \/ HandlePauseOfNull
  <2>1. UNCHANGED sessionVars
    BY <1>1 DEF HandleOther, HandleGarbled, HandleMalformed, HandleSetupUnbound,
       HandlePlayRefused, HandlePauseRefused, HandlePauseOfNull
  <2> QED
    BY <1>a, <2>1 DEF sessionVars
<1>2. CASE \E m \in Media : HandleDescribe(m)
  <2>1. UNCHANGED <<setups, identified, running, registered>> /\ Strays
    BY <1>2 DEF HandleDescribe, Keep
  <2> QED
    BY <1>b, <2>1 DEF StrayInv
<1>3. CASE HandleDescribeUnknown
  BY <1>3, <1>b DEF HandleDescribeUnknown, StrayInv
<1>4. CASE HandleSetupRefused
  <2>1. /\ media # NoMedia /\ identified' = TRUE /\ setups' = SetupsNow
        /\ UNCHANGED <<running, media, registered, lost>>
    BY <1>4 DEF HandleSetupRefused
  <2>2. CASE identified
    BY <1>a, <2>1, <2>2 DEF SetupsNow, SessionTypes
  <2>3. CASE ~identified
    <3>1. Mine = {}
      BY <2>3, NoneMine DEF StrayInv
    <3> QED
      BY <2>1, <3>1 DEF StrayInv
  <2> QED
    BY <2>2, <2>3
<1>5. CASE media # NoMedia /\ \E i \in 1..Len(SetupsNow) : HandleSetup(i)
  BY <1>5, <1>b DEF HandleSetup
<1>6. CASE HandlePlay
  <2>1. /\ registered' = registered \cup Mine
        /\ lost' = IF running THEN lost ELSE lost \cup Mine
        /\ UNCHANGED <<running, media, identified, setups>>
    BY <1>6 DEF HandlePlay
  <2>2. Mine' = Mine
    BY <2>1 DEF Mine, Registration
  <2> QED
    BY <2>1, <2>2 DEF StrayInv
<1>7. CASE HandlePause
  BY <1>7, <1>a DEF HandlePause
<1>8. CASE HandleTeardown
  <2>1. Release /\ UNCHANGED <<lost, identified>>
    BY <1>8 DEF HandleTeardown
  <2> QED
    BY <2>1, ReleaseStrays DEF StrayInv
<1> QED
  BY <1>1, <1>2, <1>3, <1>4, <1>5, <1>6, <1>7, <1>8 DEF Request

LEMMA StrayNext ==
  ASSUME Typed, StrayInv, [Next]_vars
  PROVE  StrayInv'
<1>1. CASE Request
  BY <1>1, RequestStrays
<1>2. CASE ReadFails \/ LeaveLoop \/ ServerCloses \/ Destroyed
  <2>1. Close /\ UNCHANGED <<media, identified, lost>>
    BY <1>2 DEF ReadFails, LeaveLoop, ServerCloses, Destroyed, EndLoop
  <2>2. CASE running
    <3>1. Release
      BY <2>1, <2>2 DEF Close
    <3> QED
      BY <2>1, <3>1, ReleaseStrays DEF Typed, StrayInv
  <2>3. CASE ~running
    <3>1. UNCHANGED <<running, registered, setups>> /\ Mine' = Mine
      BY <2>1, <2>3 DEF Close, Mine, Registration
    <3> QED
      BY <2>1, <3>1 DEF StrayInv
  <2> QED
    BY <2>2, <2>3
<1>3. CASE ~Request /\ ~(ReadFails \/ LeaveLoop \/ ServerCloses \/ Destroyed)
  <2>1. UNCHANGED sessionVars
    BY <1>3 DEF Next, ReadLoop, Read, ReadResumes, ReadAgain, TransportCloses, PeerLeaves,
       RunPosted, Deliver, vars
  <2> QED
    BY <2>1 DEF sessionVars, StrayInv, Mine, Registration
<1> QED
  BY <1>1, <1>2, <1>3

\* Whatever the client sends and whenever the server closes the session,
\* nothing but what was lost in one of the three ways (472, 569 and 605
\* behind close()) is left with a media session at its end.
THEOREM EndsWithNothingElse == Spec => []NothingElseRegistered
<1>1. Init => Typed /\ EndedIsClosed /\ StrayInv
  <2>1. Init => Typed
    BY TypeInit, TypeParts DEF Typed
  <2>2. Init => EndedIsClosed /\ StrayInv
    BY DEF Init, EndedIsClosed, StrayInv
  <2> QED
    BY <2>1, <2>2
<1>2. Typed /\ EndedIsClosed /\ StrayInv /\ [Next]_vars => (Typed /\ EndedIsClosed /\ StrayInv)'
  BY TypeNext, StepMoves, EndedKept, StrayNext
<1>3. Typed /\ EndedIsClosed /\ StrayInv => NothingElseRegistered
  <2> SUFFICES ASSUME Typed, EndedIsClosed, StrayInv, LifeNow = "over"
               PROVE  registered \subseteq lost
    BY DEF NothingElseRegistered
  <2>1. running \in BOOLEAN /\ loop \in {"reading", "read", "handling", "ended", "died", "crashed"}
    BY DEF Typed, SessionTypes, LoopTypes
  <2>2. CASE loop \in {"reading", "read", "handling", "crashed"}
    BY <2>1, <2>2 DEF LifeNow
  <2>3. CASE loop = "died"
    BY <2>1, <2>3 DEF LifeNow, StrayInv
  <2>4. CASE loop = "ended"
    BY <2>4 DEF EndedIsClosed, StrayInv
  <2> QED
    BY <2>1, <2>2, <2>3, <2>4
<1> QED
  BY <1>1, <1>2, <1>3, PTL DEF Spec

\* A session that nobody has closed loses nothing of an orderly client: what
\* is left of it at the end was registered behind close().
LostBehindClose == running => lost = {}

THEOREM OrderlyLosesNothing == ASSUME Orderly PROVE Spec => []LostBehindClose
<1>1. Init => Typed /\ OrderInv /\ LostBehindClose
  <2>1. Init => LostBehindClose
    BY DEF Init, LostBehindClose
  <2> QED
    BY <2>1, TypeInit, TypeParts, OrderInit DEF Typed
<1>2. ASSUME Typed, OrderInv, OrderInv', LostBehindClose, [Next]_vars PROVE LostBehindClose'
  <2>1. CASE running' = running
    <3>1. CASE (\E m \in Media : HandleDescribe(m)) \/ HandleDescribeUnknown
                \/ \E i \in 1..Len(SetupsNow) : HandleSetup(i)
      <4>1. Strays
        BY <3>1 DEF HandleDescribe, HandleDescribeUnknown, HandleSetup
      <4> QED
        BY <1>2, <2>1, <4>1 DEF Strays, OrderInv, RegisteredIsMine, LostBehindClose
    <3>2. CASE HandlePlay
      BY <1>2, <2>1, <3>2 DEF HandlePlay, LostBehindClose
    <3>3. CASE ~HandlePlay /\ ~(\E m \in Media : HandleDescribe(m)) /\ ~HandleDescribeUnknown
                /\ ~\E i \in 1..Len(SetupsNow) : HandleSetup(i)
      <4>1. lost' = lost
        BY <1>2, <3>3 DEF Next, ReadLoop, Request, HandleOther, HandleGarbled, HandleMalformed,
           HandleSetupUnbound, HandleSetupRefused, HandlePlayRefused, HandlePause,
           HandlePauseOfNull, HandlePauseRefused, HandleTeardown, Read, ReadResumes, ReadAgain,
           ReadFails, LeaveLoop, ServerCloses, Destroyed, TransportCloses, PeerLeaves,
           RunPosted, Deliver, sessionVars, vars
      <4> QED
        BY <1>2, <2>1, <4>1 DEF LostBehindClose
    <3> QED
      BY <3>1, <3>2, <3>3
  <2>2. CASE running' = FALSE
    BY <2>2 DEF LostBehindClose
  <2> QED
    BY <1>2, <2>1, <2>2, StepMoves DEF LifeMoves
<1>3. Typed /\ OrderInv /\ LostBehindClose /\ [Next]_vars => (Typed /\ OrderInv /\ LostBehindClose)'
  BY <1>2, Orderly, TypeNext, OrderNext
<1> QED
  BY <1>1, <1>3, PTL DEF Spec

-----------------------------------------------------------------------------
(***************************************************************************)
(* The server.                                                             *)
(***************************************************************************)
LoopStates == {"none", "spawned", "waiting", "taken", "failed", "aborted", "ended"}
LifeStates == {"none", "running", "closing", "stranded", "over"}

Shapes ==
    /\ lives \in [Clients -> LifeStates]
    /\ loops \in [1..MaxStarts -> [at : LoopStates, got : SUBSET Clients]]
    /\ late \in [1..MaxStarts -> SUBSET Clients]

\* A client that is with the system or with an accept_loop() has no session
\* yet, and is with one of them only.
Handed(c) == c \in backlog \/ \E n \in 1..MaxStarts : c \in loops[n].got
OneHolder ==
    /\ \A c \in Clients : Handed(c) => lives[c] = "none"
    /\ \A n \in 1..MaxStarts : loops[n].got \cap backlog = {}
    /\ \A n, m \in 1..MaxStarts : n # m => loops[n].got \cap loops[m].got = {}
    /\ \A n \in 1..MaxStarts : \A c, d \in loops[n].got : c = d
    /\ \A c \in Clients \ came : lives[c] = "none"

SessionsLive == \A c \in sessions : lives[c] # "none"

ServerInv == ServerTypeOK /\ Shapes /\ OneHolder /\ SessionsLive

LEMMA ServerBounds == MaxStarts \in Nat /\ MaxErrors \in Nat
  BY ServerAssumption

LEMMA LivesOf == \A c \in Clients : Session(c)!Lives \cup {"none"} = LifeStates
  BY DEF Session!Lives, LifeStates

LEMMA ClosedOf ==
  ASSUME NEW c \in Clients
  PROVE  /\ lives[c] \in {"running", "closing"} => CloseSession(c) = "closing"
         /\ lives[c] \in {"stranded", "over"} => CloseSession(c) = "over"
  BY DEF CloseSession, Session!Closed

LEMMA OwnStepsOf ==
  ASSUME NEW c \in Clients, lives[c] \in LifeStates \ {"none"}
  PROVE  /\ lives[c] = "running" => OwnSteps(c) = {"closing", "stranded", "over"}
         /\ lives[c] = "closing" => OwnSteps(c) = {"over"}
         /\ lives[c] \in {"stranded", "over"} => OwnSteps(c) = {}
  BY DEF OwnSteps, Session!OwnSteps, Session!Successors, LifeStates

LEMMA ServerInitial == ServerInit => ServerInv
<1> SUFFICES ASSUME ServerInit PROVE ServerInv
  OBVIOUS
<1>0. starts \in 0..MaxStarts /\ errors \in 0..MaxErrors
  BY ServerBounds DEF ServerInit
<1>1. ServerTypeOK
  BY <1>0, Zenon DEF ServerInit, ServerTypeOK, At
<1>2. Shapes
  BY DEF ServerInit, Shapes, At, LifeStates, LoopStates
<1>3. OneHolder /\ SessionsLive
  BY DEF ServerInit, OneHolder, SessionsLive, Handed, At
<1> QED
  BY <1>1, <1>2, <1>3 DEF ServerInv

\* The type invariant in terms of what the proofs use, without the numbers.
TypesNow ==
    /\ m_running \in BOOLEAN
    /\ acceptor \in {"closed", "open", "listening"}
    /\ sessions \subseteq Clients
    /\ \A n \in 1..MaxStarts : loops[n].got \subseteq came
    /\ \A n \in 1..MaxStarts : loops[n].at = "taken" <=> loops[n].got # {}
    /\ backlog \subseteq came
    /\ came \subseteq Clients
Numbers == starts \in 0..MaxStarts /\ errors \in 0..MaxErrors

LEMMA ServerTypes == Shapes => (ServerTypeOK <=> TypesNow /\ Numbers)
<1> SUFFICES ASSUME Shapes PROVE ServerTypeOK <=> TypesNow /\ Numbers
  OBVIOUS
<1>1. \A c \in Clients : lives[c] \in Session(c)!Lives \cup {"none"}
  BY LivesOf DEF Shapes
<1>2. /\ \A n \in 1..MaxStarts : loops[n].at \in LoopStates
      /\ late \in [1..MaxStarts -> SUBSET Clients]
  BY DEF Shapes
<1> QED
  BY <1>1, <1>2, Zenon DEF ServerTypeOK, TypesNow, Numbers, LoopStates

LEMMA ServerTypesNext == Shapes' => (ServerTypeOK' <=> TypesNow' /\ Numbers')
  BY ServerTypes, PTL

\* A turn of one accept_loop() that leaves it without a connection.
LEMMA LoopLetsGo ==
  ASSUME ServerInv, NEW n \in 1..MaxStarts, NEW a \in LoopStates \ {"taken"},
         loops' = [loops EXCEPT ![n] = At(a)]
  PROVE  /\ loops' \in [1..MaxStarts -> [at : LoopStates, got : SUBSET Clients]]
         /\ loops'[n] = [at |-> a, got |-> {}]
         /\ \A m \in 1..MaxStarts \ {n} : loops'[m] = loops[m]
         /\ \A m \in 1..MaxStarts : loops'[m].got \subseteq loops[m].got
         /\ \A m \in 1..MaxStarts : loops'[m].at = "taken" <=> loops'[m].got # {}
<1>1. ServerTypeOK /\ Shapes /\ TypesNow
  BY ServerTypes DEF ServerInv
<1>2. [at |-> a, got |-> {}] \in [at : LoopStates, got : SUBSET Clients]
  OBVIOUS
<1> QED
  BY <1>1, <1>2 DEF Shapes, At, TypesNow

\* When the loops only let go of connections, nobody is held twice.
LEMMA HoldersApart ==
  ASSUME OneHolder, backlog' = backlog,
         \A m \in 1..MaxStarts : loops'[m].got \subseteq loops[m].got
  PROVE  /\ \A n \in 1..MaxStarts : loops'[n].got \cap backlog' = {}
         /\ \A n, m \in 1..MaxStarts : n # m => loops'[n].got \cap loops'[m].got = {}
         /\ \A n \in 1..MaxStarts : \A c, d \in loops'[n].got : c = d
  BY DEF OneHolder

\* What such a turn leaves of the invariant when no session is made.
LEMMA LoopTurns ==
  ASSUME ServerInv, NEW n \in 1..MaxStarts, NEW a \in LoopStates \ {"taken"},
         loops' = [loops EXCEPT ![n] = At(a)],
         UNCHANGED <<sessions, lives, backlog, came, late>>,
         m_running' \in BOOLEAN, acceptor' \in {"closed", "open", "listening"}, Numbers'
  PROVE  ServerInv'
<1>1. TypesNow /\ Shapes /\ OneHolder /\ SessionsLive
  BY ServerTypes DEF ServerInv
<1>2. Shapes'
  BY <1>1, LoopLetsGo DEF Shapes
<1>3. TypesNow'
  <2>1. \A m \in 1..MaxStarts : loops'[m].got \subseteq came'
    BY <1>1, LoopLetsGo DEF TypesNow
  <2> QED
    BY <1>1, <2>1, LoopLetsGo DEF TypesNow
<1>4. OneHolder'
  <2>1. \A c \in Clients : Handed(c)' => Handed(c)
    BY LoopLetsGo DEF Handed
  <2>2. \A m \in 1..MaxStarts : loops'[m].got \subseteq loops[m].got
    BY LoopLetsGo
  <2>3. \A c \in Clients \ came' : lives'[c] = "none"
    BY <1>1 DEF OneHolder
  <2>4. \A c \in Clients : Handed(c)' => lives'[c] = "none"
    BY <1>1, <2>1 DEF OneHolder
  <2> QED
    BY <1>1, <2>2, <2>3, <2>4, HoldersApart DEF OneHolder
<1>5. SessionsLive'
  BY <1>1 DEF SessionsLive
<1> QED
  BY <1>2, <1>3, <1>4, <1>5, ServerTypesNext DEF ServerInv

LEMMA ServerStep == ServerInv /\ [ServerNext]_serverVars => ServerInv'
<1> SUFFICES ASSUME ServerInv, [ServerNext]_serverVars PROVE ServerInv'
  OBVIOUS
<1> USE ServerBounds
<1>0. TypesNow /\ Numbers /\ Shapes /\ OneHolder /\ SessionsLive
  BY ServerTypes DEF ServerInv
<1>1. CASE Start
  <2>1. starts + 1 \in 1..MaxStarts /\ Numbers'
    BY <1>0, <1>1 DEF Start, Numbers
  <2>2. m_running' \in BOOLEAN /\ acceptor' \in {"closed", "open", "listening"}
    BY <1>1 DEF Start
  <2>3. "spawned" \in LoopStates \ {"taken"}
    BY DEF LoopStates
  <2> QED
    BY <1>1, <2>1, <2>2, <2>3, LoopTurns DEF Start
<1>2. CASE StartFails
  <2>1. Shapes' /\ OneHolder' /\ SessionsLive' /\ Numbers'
    BY <1>0, <1>2 DEF StartFails, Shapes, OneHolder, Handed, SessionsLive, Numbers
  <2>2. TypesNow'
    BY <1>0, <1>2 DEF StartFails, TypesNow
  <2> QED
    BY <2>1, <2>2, ServerTypesNext DEF ServerInv
<1>3. CASE Stop
  <2>1. /\ \A n \in 1..MaxStarts : loops'[n].got \subseteq loops[n].got
        /\ \A n \in 1..MaxStarts : loops'[n].at = "taken" <=> loops'[n].got # {}
        /\ loops' \in [1..MaxStarts -> [at : LoopStates, got : SUBSET Clients]]
    <3>1. ASSUME NEW n \in 1..MaxStarts
          PROVE  /\ loops'[n] \in [at : LoopStates, got : SUBSET Clients]
                 /\ loops'[n].got \subseteq loops[n].got
                 /\ loops'[n].at = "taken" <=> loops'[n].got # {}
      <4>1. CASE Waiting(n)
        BY <1>3, <4>1 DEF Stop, At, LoopStates
      <4>2. CASE ~Waiting(n)
        BY <1>0, <1>3, <4>2 DEF Stop, Shapes, TypesNow
      <4> QED
        BY <4>1, <4>2
    <3> QED
      BY <1>3, <3>1 DEF Stop
  <2>2. ASSUME NEW c \in Clients
        PROVE  /\ lives'[c] \in LifeStates
               /\ lives[c] = "none" <=> lives'[c] = "none"
    <3>1. c \in sessions => lives[c] \in {"running", "closing", "stranded", "over"}
      BY <1>0 DEF SessionsLive, Shapes, LifeStates
    <3>2. c \in sessions => lives'[c] = CloseSession(c)
      BY <1>3 DEF Stop
    <3>3. c \notin sessions => lives'[c] = lives[c]
      BY <1>3 DEF Stop
    <3> QED
      BY <1>0, <3>1, <3>2, <3>3, ClosedOf DEF Shapes, LifeStates
  <2>3. Shapes'
    BY <1>0, <1>3, <2>1, <2>2 DEF Shapes, Stop
  <2>4. TypesNow'
    <3>1. \A n \in 1..MaxStarts : loops'[n].got \subseteq came'
      BY <1>0, <1>3, <2>1 DEF TypesNow, Stop
    <3> QED
      BY <1>0, <1>3, <2>1, <3>1 DEF TypesNow, Stop
  <2>5. OneHolder'
    <3>1. \A c \in Clients : Handed(c)' => Handed(c)
      BY <1>3, <2>1 DEF Handed, Stop
    <3>2. backlog' = {} /\ came' = came
      BY <1>3 DEF Stop
    <3> QED
      BY <1>0, <2>1, <2>2, <3>1, <3>2 DEF OneHolder
  <2>6. SessionsLive' /\ Numbers'
    BY <1>0, <1>3 DEF Stop, SessionsLive, Numbers
  <2> QED
    BY <2>3, <2>4, <2>5, <2>6, ServerTypesNext DEF ServerInv
<1>4. ASSUME NEW n \in 1..MaxStarts, Resume(n) PROVE ServerInv'
  <2>1. PICK c \in loops[n].got :
          /\ sessions' = Kept \cup {c}
          /\ lives' = [d \in Clients |-> IF d = c THEN StartSession
                                         ELSE IF d \in Forgotten THEN CloseSession(d)
                                         ELSE lives[d]]
    BY <1>4 DEF Resume
  <2>2. c \in Clients /\ lives[c] = "none" /\ lives'[c] = "running" /\ c \in came
    BY <1>0, <2>1 DEF TypesNow, Shapes, OneHolder, Handed, StartSession
  <2>3. ASSUME NEW d \in Clients \ {c}
        PROVE  /\ lives'[d] \in LifeStates
               /\ lives[d] = "none" <=> lives'[d] = "none"
    <3>1. d \in Forgotten => lives[d] \in {"running", "closing", "stranded", "over"}
      BY <1>0 DEF SessionsLive, Shapes, LifeStates, Forgotten
    <3>2. d \in Forgotten => lives'[d] = CloseSession(d)
      BY <2>1
    <3>3. d \notin Forgotten => lives'[d] = lives[d]
      BY <2>1
    <3> QED
      BY <1>0, <3>1, <3>2, <3>3, ClosedOf DEF Shapes, LifeStates
  <2>4. PICK a \in LoopStates \ {"taken"} : loops' = [loops EXCEPT ![n] = At(a)]
    <3>1. "waiting" \in LoopStates \ {"taken"} /\ "ended" \in LoopStates \ {"taken"}
      BY DEF LoopStates
    <3>2. m_running => loops' = [loops EXCEPT ![n] = At("waiting")]
      BY <1>4 DEF Resume, Turn
    <3>3. ~m_running => loops' = [loops EXCEPT ![n] = At("ended")]
      BY <1>4 DEF Resume, Turn
    <3> QED
      BY <3>1, <3>2, <3>3, Zenon
  <2>5. Shapes'
    <3>1. late' \in [1..MaxStarts -> SUBSET Clients]
      <4>1. CASE m_running
        BY <1>0, <1>4, <4>1 DEF Resume, Shapes
      <4>2. CASE ~m_running
        <5>1. \E d \in loops[n].got : late' = [late EXCEPT ![n] = @ \cup {d}]
          BY <1>4, <4>2 DEF Resume
        <5> QED
          BY <1>0, <5>1 DEF Shapes
      <4> QED
        BY <4>1, <4>2
    <3> QED
      BY <2>1, <2>2, <2>3, <2>4, <3>1, LoopLetsGo DEF Shapes, LifeStates
  <2>6. TypesNow' /\ Numbers'
    <3>1. \A m \in 1..MaxStarts : loops'[m].got \subseteq came'
      BY <1>0, <1>4, <2>4, LoopLetsGo DEF TypesNow, Resume
    <3>2. sessions' \subseteq Clients
      BY <1>0, <2>1, <2>2 DEF TypesNow, Kept
    <3> QED
      BY <1>0, <1>4, <2>4, <3>1, <3>2, LoopLetsGo DEF TypesNow, Resume, Numbers
  <2>7. OneHolder'
    <3>1. \A d \in Clients : Handed(d)' => Handed(d) /\ d # c
      <4>1. \A m \in 1..MaxStarts : c \notin loops'[m].got
        <5>1. loops'[n].got = {}
          <6>1. loops'[n] = [at |-> a, got |-> {}]
            BY <2>4, LoopLetsGo
          <6> QED
            BY <6>1
        <5>2. \A m \in 1..MaxStarts \ {n} : loops'[m] = loops[m]
          BY <2>4, LoopLetsGo
        <5>3. \A m \in 1..MaxStarts \ {n} : c \notin loops[m].got
          BY <1>0, <2>1 DEF OneHolder
        <5> QED
          BY <5>1, <5>2, <5>3
      <4>2. c \notin backlog
        BY <1>0, <2>1 DEF OneHolder
      <4> QED
        BY <1>4, <2>4, <4>1, <4>2, LoopLetsGo DEF Handed, Resume
    <3>2. backlog' = backlog /\ came' = came
      BY <1>4 DEF Resume
    <3>3. \A m \in 1..MaxStarts : loops'[m].got \subseteq loops[m].got
      BY <2>4, LoopLetsGo
    <3>4. \A d \in Clients \ came' : lives'[d] = "none"
      BY <1>0, <2>2, <2>3, <3>2 DEF OneHolder
    <3>5. \A d \in Clients : Handed(d)' => lives'[d] = "none"
      BY <1>0, <2>3, <3>1 DEF OneHolder
    <3> QED
      BY <1>0, <3>2, <3>3, <3>4, <3>5, HoldersApart DEF OneHolder
  <2>8. SessionsLive'
    BY <1>0, <2>1, <2>2, <2>3 DEF SessionsLive, Kept, TypesNow
  <2> QED
    BY <2>5, <2>6, <2>7, <2>8, ServerTypesNext DEF ServerInv
<1>5. ASSUME NEW n \in 1..MaxStarts, EnterLoop(n) \/ ResumeFailed(n) \/ ResumeAborted(n) \/ AcceptFails(n)
      PROVE  ServerInv'
  <2>1. PICK a \in LoopStates \ {"taken"} : loops' = [loops EXCEPT ![n] = At(a)]
    BY <1>5, Zenon DEF EnterLoop, ResumeFailed, ResumeAborted, AcceptFails, Turn, AfterError, LoopStates
  <2>2. UNCHANGED <<sessions, lives, backlog, came, late, m_running, acceptor>>
    BY <1>5 DEF EnterLoop, ResumeFailed, ResumeAborted, AcceptFails, memberVars
  <2>3. Numbers'
    BY <1>0, <1>5 DEF EnterLoop, ResumeFailed, ResumeAborted, AcceptFails, memberVars, Numbers
  <2>4. m_running' \in BOOLEAN /\ acceptor' \in {"closed", "open", "listening"}
    BY <1>0, <2>2 DEF TypesNow
  <2> QED
    BY <2>1, <2>2, <2>3, <2>4, LoopTurns
<1>6. ASSUME NEW n \in 1..MaxStarts, NEW c \in Clients, Accept(n, c) PROVE ServerInv'
  <2>1. /\ loops' \in [1..MaxStarts -> [at : LoopStates, got : SUBSET Clients]]
        /\ loops'[n] = [at |-> "taken", got |-> {c}]
        /\ \A m \in 1..MaxStarts \ {n} : loops'[m] = loops[m]
    BY <1>0, <1>6 DEF Accept, Shapes, Taken, LoopStates
  <2>2. c \in came /\ lives[c] = "none" /\ c \in backlog
    BY <1>0, <1>6 DEF Accept, TypesNow, OneHolder, Handed
  <2>3. UNCHANGED <<sessions, lives, came, m_running, acceptor>> /\ backlog' = backlog \ {c}
    BY <1>6 DEF Accept, memberVars
  <2>4. Shapes' /\ Numbers' /\ SessionsLive'
    BY <1>0, <1>6, <2>1 DEF Shapes, Accept, memberVars, Numbers, SessionsLive
  <2>5. TypesNow'
    <3>1. ASSUME NEW m \in 1..MaxStarts
          PROVE  /\ loops'[m].got \subseteq came'
                 /\ loops'[m].at = "taken" <=> loops'[m].got # {}
      <4>1. CASE m = n
        <5>1. loops'[m].at = "taken" /\ loops'[m].got = {c} /\ c \in came'
          BY <2>1, <2>2, <2>3, <4>1
        <5> QED
          BY <5>1
      <4>2. CASE m # n
        BY <1>0, <2>1, <2>3, <4>2 DEF TypesNow
      <4> QED
        BY <4>1, <4>2
    <3> QED
      BY <1>0, <2>3, <3>1 DEF TypesNow
  <2>6. OneHolder'
    <3>1. \A d \in Clients : Handed(d)' => Handed(d)
      BY <2>1, <2>2, <2>3 DEF Handed
    <3>2. \A m \in 1..MaxStarts : loops'[m].got \cap backlog' = {}
      BY <1>0, <2>1, <2>3 DEF OneHolder
    <3>3. \A m, k \in 1..MaxStarts : m # k => loops'[m].got \cap loops'[k].got = {}
      <4>1. \A m \in 1..MaxStarts \ {n} : c \notin loops[m].got
        BY <1>0, <2>2 DEF OneHolder
      <4> QED
        BY <1>0, <2>1, <4>1 DEF OneHolder
    <3>4. \A m \in 1..MaxStarts : \A d, e \in loops'[m].got : d = e
      BY <1>0, <2>1 DEF OneHolder
    <3> QED
      BY <1>0, <2>3, <3>1, <3>2, <3>3, <3>4 DEF OneHolder
  <2> QED
    BY <2>4, <2>5, <2>6, ServerTypesNext DEF ServerInv
<1>7. ASSUME NEW c \in Clients, Connect(c) PROVE ServerInv'
  <2>1. \A n \in 1..MaxStarts : c \notin loops[n].got
    BY <1>0, <1>7 DEF Connect, TypesNow
  <2>2. Shapes' /\ SessionsLive' /\ Numbers'
    BY <1>0, <1>7 DEF Connect, memberVars, Shapes, SessionsLive, Numbers
  <2>3. TypesNow'
    BY <1>0, <1>7 DEF Connect, memberVars, TypesNow
  <2>4. OneHolder'
    BY <1>0, <1>7, <2>1 DEF Connect, memberVars, OneHolder, Handed
  <2> QED
    BY <2>2, <2>3, <2>4, ServerTypesNext DEF ServerInv
<1>8. ASSUME NEW c \in Clients, SessionStep(c) PROVE ServerInv'
  <2>1. PICK l \in OwnSteps(c) : lives' = [lives EXCEPT ![c] = l]
    BY <1>8 DEF SessionStep
  <2>2. lives[c] \in LifeStates \ {"none"}
    BY <1>0, <1>8 DEF SessionStep, Shapes
  <2>3. l \in LifeStates \ {"none"}
    <3>1. OwnSteps(c) \subseteq {"closing", "stranded", "over"}
      BY <2>2, OwnStepsOf DEF LifeStates
    <3> QED
      BY <3>1 DEF LifeStates
  <2>4. UNCHANGED <<memberVars, loops, backlog, came, errors, late>>
    BY <1>8 DEF SessionStep
  <2>5. \A d \in Clients : lives'[d] = "none" <=> lives[d] = "none"
    BY <1>0, <2>1, <2>2, <2>3 DEF Shapes
  <2>6. Shapes'
    BY <1>0, <2>1, <2>3, <2>4 DEF Shapes
  <2>7. TypesNow' /\ Numbers'
    BY <1>0, <2>4 DEF TypesNow, Numbers, memberVars
  <2>8. OneHolder' /\ SessionsLive'
    BY <1>0, <2>4, <2>5 DEF OneHolder, Handed, SessionsLive, memberVars, TypesNow
  <2> QED
    BY <2>6, <2>7, <2>8, ServerTypesNext DEF ServerInv
<1>9. CASE UNCHANGED serverVars
  <2>1. Shapes' /\ OneHolder' /\ SessionsLive' /\ Numbers'
    BY <1>0, <1>9 DEF serverVars, memberVars, Shapes, OneHolder, Handed, SessionsLive, Numbers
  <2>2. TypesNow'
    BY <1>0, <1>9 DEF serverVars, memberVars, TypesNow
  <2> QED
    BY <2>1, <2>2, ServerTypesNext DEF ServerInv
<1> QED
  BY <1>1, <1>2, <1>3, <1>4, <1>5, <1>6, <1>7, <1>8, <1>9 DEF ServerNext, Loop

\* The types of the server's state: an accept_loop() holds a connection
\* exactly while async_accept has handed it one (rtsp_server.cpp:122-149).
THEOREM ServerTypeCorrect == ServerSpec => []ServerTypeOK
<1>1. ServerInv => ServerTypeOK
  BY DEF ServerInv
<1> QED
  BY <1>1, ServerInitial, ServerStep, PTL DEF ServerSpec

(***************************************************************************)
(* The server makes one session of a client, starts it once, and what it   *)
(* does to it afterwards, by stop() or by cleanup_sessions(), is a step    *)
(* that SessionLife allows; RtspServerSession implements that life.        *)
(***************************************************************************)
SessionsLiveOn ==
    \A c \in Clients :
        [][IF lives[c] = "none" THEN lives'[c] = "running" ELSE Session(c)!Next]_(lives[c])

LEMMA LifeGoesOn ==
  ASSUME ServerInv, [ServerNext]_serverVars, NEW c \in Clients, lives'[c] # lives[c]
  PROVE  IF lives[c] = "none" THEN lives'[c] = "running" ELSE Session(c)!Next
<1>0. TypesNow /\ Shapes /\ OneHolder /\ SessionsLive
  BY ServerTypes DEF ServerInv
<1>1. ASSUME lives[c] # "none", lives'[c] = CloseSession(c)
      PROVE  IF lives[c] = "none" THEN lives'[c] = "running" ELSE Session(c)!Next
  <2>1. lives[c] \in {"running", "stranded"}
    BY <1>0, <1>1, ClosedOf DEF Shapes, LifeStates
  <2>2. lives[c] = "running" => lives'[c] \in {"closing", "stranded", "over"}
    BY <1>1, ClosedOf
  <2>3. lives[c] = "stranded" => lives'[c] \in {"over"}
    BY <1>1, ClosedOf
  <2> QED
    BY <1>1, <2>1, <2>2, <2>3 DEF Session!Next, Session!Successors
<1>2. CASE Stop
  <2>1. c \in sessions /\ lives'[c] = CloseSession(c)
    BY <1>2 DEF Stop
  <2> QED
    BY <1>0, <1>1, <2>1 DEF SessionsLive
<1>3. ASSUME NEW n \in 1..MaxStarts, Resume(n)
      PROVE  IF lives[c] = "none" THEN lives'[c] = "running" ELSE Session(c)!Next
  <2>1. PICK d \in loops[n].got :
          lives' = [e \in Clients |-> IF e = d THEN StartSession
                                     ELSE IF e \in Forgotten THEN CloseSession(e)
                                     ELSE lives[e]]
    BY <1>3 DEF Resume
  <2>2. CASE c = d
    BY <1>0, <1>3, <2>1, <2>2 DEF OneHolder, Handed, StartSession
  <2>3. CASE c # d
    <3>1. c \in Forgotten /\ lives'[c] = CloseSession(c)
      BY <2>1, <2>3
    <3> QED
      BY <1>0, <1>1, <3>1 DEF Forgotten, SessionsLive
  <2> QED
    BY <2>2, <2>3
<1>4. CASE SessionStep(c)
  <2>1. PICK l \in OwnSteps(c) : lives' = [lives EXCEPT ![c] = l]
    BY <1>4 DEF SessionStep
  <2>2. lives'[c] \in OwnSteps(c) /\ lives[c] \in LifeStates \ {"none"}
    BY <1>0, <1>4, <2>1 DEF SessionStep, Shapes
  <2>3. OwnSteps(c) \subseteq Session(c)!Successors[lives[c]]
    BY <2>2, OwnStepsOf DEF Session!Successors, LifeStates
  <2> QED
    BY <2>2, <2>3 DEF Session!Next
<1>5. ASSUME NEW d \in Clients, SessionStep(d), d # c PROVE FALSE
  BY <1>0, <1>5 DEF SessionStep, Shapes
<1>6. Stop \/ (\E n \in 1..MaxStarts : Resume(n)) \/ \E d \in Clients : SessionStep(d)
  BY DEF ServerNext, Loop, serverVars, Start, StartFails, EnterLoop, ResumeFailed, ResumeAborted,
         AcceptFails, Accept, Connect
<1> QED
  BY <1>2, <1>3, <1>4, <1>5, <1>6

THEOREM DrivesSessions == ServerSpec => SessionsLiveOn
<1> SUFFICES ASSUME NEW c \in Clients
             PROVE  ServerSpec =>
                      [][IF lives[c] = "none" THEN lives'[c] = "running" ELSE Session(c)!Next]_(lives[c])
  BY DEF SessionsLiveOn
<1>1. ServerInv /\ [ServerNext]_serverVars
        => [IF lives[c] = "none" THEN lives'[c] = "running" ELSE Session(c)!Next]_(lives[c])
  BY LifeGoesOn
<1> QED
  BY <1>1, ServerInitial, ServerStep, PTL DEF ServerSpec

-----------------------------------------------------------------------------
(***************************************************************************)
(* What outlives stop().  Every session that is not closed is in           *)
(* m_sessions, so stop() closes all there are; those that a stopped server *)
(* makes come one of each accept_loop(), which ends with it.               *)
(***************************************************************************)
StopInv ==
    /\ \A n \in 1..MaxStarts : loops[n].at = "waiting" => m_running
    /\ \A n \in 1..MaxStarts : loops[n].at # "none" => n <= starts
    /\ \A n \in 1..MaxStarts : late[n] # {} => loops[n].at = "ended"
    /\ StopEndsAll

LEMMA StopInitial == ServerInit => StopInv
  BY DEF ServerInit, StopInv, StopEndsAll, At, NotClosed

\* A step by which no session comes to be open and nothing is closed late.
LEMMA NoneOpened ==
  ASSUME StopEndsAll, UNCHANGED <<m_running, sessions, late>>,
         \A c \in Clients : NotClosed(c)' => NotClosed(c)
  PROVE  StopEndsAll'
  BY DEF StopEndsAll

LEMMA ResumeStops ==
  ASSUME ServerInv, StopInv, NEW n \in 1..MaxStarts, Resume(n)
  PROVE  StopInv'
<1>0. TypesNow /\ Shapes /\ OneHolder /\ SessionsLive
  BY ServerTypes DEF ServerInv
<1>1. PICK c \in loops[n].got :
        /\ sessions' = Kept \cup {c}
        /\ lives' = [d \in Clients |-> IF d = c THEN StartSession
                                       ELSE IF d \in Forgotten THEN CloseSession(d)
                                       ELSE lives[d]]
        /\ late' = IF m_running THEN late ELSE [late EXCEPT ![n] = @ \cup {c}]
  BY DEF Resume
<1>2. UNCHANGED <<m_running, starts>> /\ loops[n].at = "taken" /\ n <= starts /\ late[n] = {}
  BY DEF Resume, StopInv
<1>3. /\ loops' = [loops EXCEPT ![n] = At(IF m_running THEN "waiting" ELSE "ended")]
      /\ \A m \in 1..MaxStarts \ {n} : loops'[m] = loops[m]
      /\ loops'[n].at = IF m_running THEN "waiting" ELSE "ended"
  BY <1>0 DEF Resume, Turn, Shapes, At
<1>4. ASSUME NEW d \in Clients, NotClosed(d)'
      PROVE  d \in sessions' /\ (d = c \/ NotClosed(d))
  <2>1. CASE d \in Forgotten
    <3>1. d = c \/ lives'[d] = CloseSession(d)
      BY <1>1, <2>1
    <3>2. lives[d] \in {"stranded", "over"}
      BY <1>0, <2>1 DEF Forgotten, Referenced, SessionsLive, Shapes, LifeStates
    <3> QED
      BY <1>1, <1>4, <3>1, <3>2, ClosedOf DEF NotClosed
  <2>2. CASE d \notin Forgotten
    <3>1. d = c \/ NotClosed(d)
      BY <1>1, <1>4, <2>2 DEF NotClosed
    <3> QED
      BY <1>1, <2>2, <3>1 DEF StopInv, StopEndsAll, Forgotten, Kept
  <2> QED
    BY <2>1, <2>2
<1>5. CASE m_running
  <2>1. StopEndsAll'
    BY <1>2, <1>4, <1>5 DEF StopEndsAll
  <2>2. late' = late /\ m_running'
    BY <1>1, <1>2, <1>5
  <2> QED
    BY <1>2, <1>3, <2>1, <2>2 DEF StopInv
<1>6. CASE ~m_running
  <2>1. /\ late'[n] = {c}
        /\ \A m \in 1..MaxStarts \ {n} : late'[m] = late[m]
    BY <1>0, <1>1, <1>2, <1>6 DEF Shapes
  <2>2. ASSUME NEW d \in Clients, NotClosed(d)' PROVE \E m \in 1..MaxStarts : late'[m] = {d}
    <3>1. CASE d = c
      BY <2>1, <3>1
    <3>2. CASE d # c
      <4>1. PICK m \in 1..MaxStarts : late[m] = {d}
        BY <1>4, <1>6, <2>2, <3>2 DEF StopInv, StopEndsAll
      <4>2. m # n
        BY <1>2, <4>1
      <4> QED
        BY <2>1, <4>1, <4>2
    <3> QED
      BY <3>1, <3>2
  <2>3. StopEndsAll'
    BY <1>4, <2>2 DEF StopEndsAll
  <2>4. loops'[n].at = "ended"
    BY <1>3, <1>6
  <2>5. \A m \in 1..MaxStarts : loops'[m].at = "waiting" => m_running'
    BY <1>2, <1>3, <2>4 DEF StopInv
  <2>6. \A m \in 1..MaxStarts : loops'[m].at # "none" => m <= starts'
    BY <1>2, <1>3 DEF StopInv
  <2>7. \A m \in 1..MaxStarts : late'[m] # {} => loops'[m].at = "ended"
    BY <1>3, <2>1, <2>4 DEF StopInv
  <2> QED
    BY <2>3, <2>5, <2>6, <2>7 DEF StopInv
<1> QED
  BY <1>5, <1>6

LEMMA StopStep ==
  ASSUME ServerInv, StopInv, [ServerNext]_serverVars
  PROVE  StopInv'
<1>0. TypesNow /\ Shapes /\ OneHolder /\ SessionsLive /\ Numbers
  BY ServerTypes DEF ServerInv
<1>1. CASE Start
  <2>1. /\ m_running' /\ starts' = starts + 1 /\ starts + 1 \in 1..MaxStarts
        /\ loops' = [loops EXCEPT ![starts + 1] = At("spawned")]
        /\ UNCHANGED <<sessions, lives, late>>
    BY <1>0, <1>1, ServerBounds DEF Start, Numbers
  <2>2. /\ loops'[starts + 1].at = "spawned"
        /\ \A m \in 1..MaxStarts \ {starts + 1} : loops'[m] = loops[m]
    BY <1>0, <2>1 DEF Shapes, At
  <2>3. loops[starts + 1].at = "none"
    BY <1>0, <2>1, ServerBounds DEF StopInv, Numbers
  <2>4. \A m \in 1..MaxStarts : loops'[m].at # "none" => m <= starts'
    BY <1>0, <2>1, <2>2 DEF StopInv, Numbers
  <2>5. \A m \in 1..MaxStarts : late'[m] # {} => loops'[m].at = "ended"
    BY <2>1, <2>2, <2>3 DEF StopInv
  <2>6. StopEndsAll'
    BY <2>1 DEF StopInv, StopEndsAll, NotClosed
  <2> QED
    BY <2>1, <2>4, <2>5, <2>6 DEF StopInv
<1>2. CASE StartFails
  BY <1>2, NoneOpened DEF StartFails, StopInv, NotClosed
<1>3. CASE Stop
  <2>1. \A n \in 1..MaxStarts : loops'[n] = IF Waiting(n) THEN At("aborted") ELSE loops[n]
    BY <1>3 DEF Stop
  <2>2. \A n \in 1..MaxStarts : loops'[n].at # "waiting"
    BY <2>1 DEF Waiting, At
  <2>3. \A n \in 1..MaxStarts : loops'[n].at # "none" => n <= starts'
    BY <1>3, <2>1 DEF Stop, StopInv, Waiting
  <2>4. \A n \in 1..MaxStarts : late'[n] # {} => loops'[n].at = "ended"
    BY <1>3, <2>1 DEF Stop, StopInv, Waiting
  <2>5. ASSUME NEW c \in Clients PROVE ~NotClosed(c)'
    <3>1. CASE c \in sessions
      <4>1. lives'[c] = CloseSession(c) /\ lives[c] \in {"running", "closing", "stranded", "over"}
        BY <1>0, <1>3, <3>1 DEF Stop, SessionsLive, Shapes, LifeStates
      <4> QED
        BY <4>1, ClosedOf DEF NotClosed
    <3>2. CASE c \notin sessions
      BY <1>3, <3>2 DEF Stop, StopInv, StopEndsAll, NotClosed
    <3> QED
      BY <3>1, <3>2
  <2>6. StopEndsAll'
    BY <2>5 DEF StopEndsAll
  <2> QED
    BY <2>2, <2>3, <2>4, <2>6 DEF StopInv
<1>4. ASSUME NEW n \in 1..MaxStarts, Resume(n) PROVE StopInv'
  BY <1>4, ResumeStops
<1>5. ASSUME NEW n \in 1..MaxStarts, EnterLoop(n) \/ ResumeFailed(n) \/ ResumeAborted(n) \/ AcceptFails(n)
      PROVE  StopInv'
  <2>1. PICK a \in LoopStates \ {"taken"} : /\ loops' = [loops EXCEPT ![n] = At(a)]
                                            /\ a = "waiting" => m_running
    <3>1. "waiting" \in LoopStates \ {"taken"} /\ "ended" \in LoopStates \ {"taken"}
            /\ "failed" \in LoopStates \ {"taken"}
      BY DEF LoopStates
    <3>2. m_running /\ (EnterLoop(n) \/ ResumeFailed(n)) => loops' = [loops EXCEPT ![n] = At("waiting")]
      BY DEF EnterLoop, ResumeFailed, Turn, AfterError
    <3>3. ~m_running /\ (EnterLoop(n) \/ ResumeFailed(n)) => loops' = [loops EXCEPT ![n] = At("ended")]
      BY DEF EnterLoop, ResumeFailed, Turn, AfterError
    <3>4. ResumeAborted(n) => loops' = [loops EXCEPT ![n] = At("ended")]
      BY DEF ResumeAborted
    <3>5. AcceptFails(n) => loops' = [loops EXCEPT ![n] = At("failed")]
      BY DEF AcceptFails
    <3>6. "waiting" # "ended" /\ "waiting" # "failed"
      OBVIOUS
    <3> QED
      BY <1>5, <3>1, <3>2, <3>3, <3>4, <3>5, <3>6, Zenon
  <2>2. UNCHANGED <<sessions, lives, m_running, starts, late>>
    BY <1>5 DEF EnterLoop, ResumeFailed, ResumeAborted, AcceptFails, memberVars
  <2>3. loops'[n].at = a /\ \A m \in 1..MaxStarts \ {n} : loops'[m] = loops[m]
    BY <1>0, <2>1 DEF Shapes, At
  <2>4. loops[n].at \notin {"none", "ended"}
    BY <1>5 DEF EnterLoop, ResumeFailed, ResumeAborted, AcceptFails, Waiting
  <2>5. \A m \in 1..MaxStarts : loops'[m].at = "waiting" => m_running'
    BY <2>1, <2>2, <2>3 DEF StopInv
  <2>6. \A m \in 1..MaxStarts : loops'[m].at # "none" => m <= starts'
    BY <2>2, <2>3, <2>4 DEF StopInv
  <2>7. \A m \in 1..MaxStarts : late'[m] # {} => loops'[m].at = "ended"
    BY <2>2, <2>3, <2>4 DEF StopInv
  <2>8. StopEndsAll'
    BY <2>2, NoneOpened DEF StopInv, NotClosed
  <2> QED
    BY <2>5, <2>6, <2>7, <2>8 DEF StopInv
<1>6. ASSUME NEW n \in 1..MaxStarts, NEW c \in Clients, Accept(n, c) PROVE StopInv'
  <2>1. /\ UNCHANGED <<sessions, lives, m_running, starts, late>>
        /\ loops' = [loops EXCEPT ![n] = Taken(c)] /\ loops[n].at = "waiting"
    BY <1>6 DEF Accept, memberVars, Waiting
  <2>2. loops'[n].at = "taken" /\ \A m \in 1..MaxStarts \ {n} : loops'[m] = loops[m]
    BY <1>0, <2>1 DEF Shapes, Taken
  <2>3. StopEndsAll'
    BY <2>1, NoneOpened DEF StopInv, NotClosed
  <2> QED
    BY <2>1, <2>2, <2>3 DEF StopInv
<1>7. ASSUME NEW c \in Clients, Connect(c) PROVE StopInv'
  <2>1. UNCHANGED <<sessions, lives, m_running, starts, late, loops>>
    BY <1>7 DEF Connect, memberVars
  <2> QED
    BY <2>1, NoneOpened DEF StopInv, NotClosed
<1>8. ASSUME NEW c \in Clients, SessionStep(c) PROVE StopInv'
  <2>1. PICK l \in OwnSteps(c) : lives' = [lives EXCEPT ![c] = l]
    BY <1>8 DEF SessionStep
  <2>2. lives[c] \in LifeStates \ {"none"}
    BY <1>0, <1>8 DEF SessionStep, Shapes
  <2>3. UNCHANGED <<m_running, sessions, starts, loops, late>>
    BY <1>8 DEF SessionStep, memberVars
  <2>4. lives'[c] = l /\ \A d \in Clients \ {c} : lives'[d] = lives[d]
    BY <1>0, <2>1 DEF Shapes
  <2>5. l \in {"running", "stranded"} => NotClosed(c)
    BY <2>1, <2>2, OwnStepsOf DEF NotClosed, LifeStates
  <2>6. \A d \in Clients : NotClosed(d)' => NotClosed(d)
    BY <2>4, <2>5 DEF NotClosed
  <2>7. StopEndsAll'
    BY <2>3, <2>6, NoneOpened DEF StopInv
  <2> QED
    BY <2>3, <2>7 DEF StopInv
<1>9. CASE UNCHANGED serverVars
  <2>1. UNCHANGED <<sessions, lives, m_running, starts, late, loops>>
    BY <1>9 DEF serverVars, memberVars
  <2> QED
    BY <2>1, NoneOpened DEF StopInv, NotClosed
<1> QED
  BY <1>1, <1>2, <1>3, <1>4, <1>5, <1>6, <1>7, <1>8, <1>9 DEF ServerNext, Loop

\* rtsp_server.h, stop(): "stops the server (ends all sessions)".  Whenever
\* stop() comes, no session of a stopped server is left open but those of a
\* connection each that an accept_loop() had been given before it
\* (rtsp_server.cpp:90-116, 124-137).
THEOREM StopEnds == ServerSpec => []StopEndsAll
<1>1. StopInv => StopEndsAll
  BY DEF StopInv
<1>2. ServerInv /\ StopInv /\ [ServerNext]_serverVars => StopInv'
  BY StopStep
<1> QED
  BY <1>1, <1>2, ServerInitial, ServerStep, StopInitial, PTL DEF ServerSpec
=============================================================================
