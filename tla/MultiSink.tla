----------------------------- MODULE MultiSink -----------------------------
(***************************************************************************)
(* nxcore/media/multi_sink.cpp: one source of frames, several sinks.       *)
(*                                                                         *)
(* Three kinds of actors: the pipeline, which awaits open() and close();   *)
(* the thread of the source, which calls send_frame(); and for each sink a *)
(* manager, who calls add_sink() and perhaps remove_sink().  A lock guards *)
(* the registry, but every method works on a snapshot of raw pointers      *)
(* after it has left the lock.  The sinks themselves are external.         *)
(***************************************************************************)
EXTENDS Integers, Sequences, FiniteSets

CONSTANTS Sinks,      \* the sinks that may be added
          NoSink,     \* the url of no sink
          MaxOpens,   \* bound: calls of open()
          MaxFrames   \* bound: frames of the source

ASSUME MultiSinkAssumption ==
    /\ NoSink \notin Sinks
    /\ MaxOpens \in Nat
    /\ MaxFrames \in Nat

VARIABLES
    opened,     \* m_opened
    tracks,     \* m_tracks: the number of the open() that stored them
    sinks,      \* m_sinks: a sequence of [id, sink]
    nextId,     \* m_next_id
    primary,    \* m_primary_url: the sink it came from
    pipeline,   \* "idle", "opening", "ready", "failed" or "closing"
    todo,       \* raw pointers open() or close() still has to visit
    first,      \* open() is at its first sink (i == 0)
    snapshot,   \* raw pointers send_frame() still has to visit
    sent,       \* frames send_frame() was called with
    manager,    \* per sink: progress of its add_sink() and remove_sink()
    saw,        \* per sink: the tracks add_sink() copied, 0 if not opened
    handle,     \* per sink: the id add_sink() returned, -1 before
    sinkOpen,   \* per sink: the tracks it is open with, 0 if closed
    shared,     \* the sinks that somebody outside still owns
    received,   \* history, per sink: the frames it was given
    from,       \* history, per sink: frames sent before it was registered
    upto,       \* history, per sink: frames sent before it was removed
    crossed     \* history: the sinks whose add_sink() or remove_sink() was
                \* crossed by an open() or a close(), see Crossed

pipelineVars == <<pipeline, todo, first>>
frameVars    == <<snapshot, sent, received>>
managerVars  == <<manager, saw, handle, from, upto, crossed>>
registry     == <<opened, tracks, sinks, nextId, primary>>
vars == <<registry, pipelineVars, frameVars, managerVars, sinkOpen, shared>>

Init ==
    /\ opened = FALSE
    /\ tracks = 0
    /\ sinks = <<>>
    /\ nextId = 0
    /\ primary = NoSink
    /\ pipeline = "idle"
    /\ todo = <<>>
    /\ first = FALSE
    /\ snapshot = <<>>
    /\ sent = 0
    /\ manager = [s \in Sinks |-> "new"]
    /\ saw = [s \in Sinks |-> 0]
    /\ handle = [s \in Sinks |-> -1]
    /\ sinkOpen = [s \in Sinks |-> 0]
    /\ shared = Sinks
    /\ received = [s \in Sinks |-> <<>>]
    /\ from = [s \in Sinks |-> 0]
    /\ upto = [s \in Sinks |-> 0]
    /\ crossed = {}

-----------------------------------------------------------------------------
Pointers == [i \in 1..Len(sinks) |-> sinks[i].sink]
Registered == {sinks[i].sink : i \in 1..Len(sinks)}

(***************************************************************************)
(* Mutated forms, for the check that every property can fail.              *)
(***************************************************************************)
StoredTracks == tracks
PointersButLast == [i \in 1..(Len(sinks) - 1) |-> sinks[i].sink]

-----------------------------------------------------------------------------
Managing(s) == manager[s] \in {"adding", "opened", "removing"}
InTodo(s) == \E i \in 1..Len(todo) : todo[i] = s

(***************************************************************************)
(* add_sink() looks at m_opened under one lock and registers the sink      *)
(* under another; an open() or close() that begins in between crosses it.  *)
(* A registered sink is visited by the next open() or close() and put      *)
(* right.  An open() that still has to visit a sink crosses its removal.   *)
(***************************************************************************)
Between(s) == manager[s] \in {"adding", "opened"}
Crossed == {s \in Sinks : Between(s) \/ (s \in crossed /\ s \notin Registered)}
CrossedByOpen(s) == IF pipeline = "opening" /\ InTodo(s) THEN {s} ELSE {}

(***************************************************************************)
(* open().                                                                 *)
(***************************************************************************)
OpenBegin ==
    /\ pipeline \in {"idle", "failed"}
    /\ tracks < MaxOpens
    /\ tracks' = tracks + 1
    /\ opened' = TRUE
    /\ todo' = Pointers
    /\ first' = TRUE
    /\ pipeline' = "opening"
    /\ crossed' = Crossed
    /\ UNCHANGED <<sinks, nextId, primary, frameVars, manager, saw, handle, from, upto,
                   sinkOpen, shared>>

OpenNext ==
    /\ pipeline = "opening"
    /\ todo # <<>>
    /\ sinkOpen' = [sinkOpen EXCEPT ![Head(todo)] = tracks]
    /\ primary' = IF first THEN Head(todo) ELSE primary
    /\ first' = FALSE
    /\ todo' = Tail(todo)
    /\ UNCHANGED <<opened, tracks, sinks, nextId, pipeline, frameVars, managerVars, shared>>

(* An error ends open(); m_opened stays, and so do the sinks opened so far. *)
GiveUpOpening == pipeline' = "failed" /\ todo' = <<>>

OpenFails ==
    /\ pipeline = "opening"
    /\ todo # <<>>
    /\ GiveUpOpening
    /\ first' = FALSE
    /\ UNCHANGED <<registry, frameVars, managerVars, sinkOpen, shared>>

OpenEnd ==
    /\ pipeline = "opening"
    /\ todo = <<>>
    /\ pipeline' = "ready"
    /\ first' = FALSE
    /\ UNCHANGED <<registry, todo, frameVars, managerVars, sinkOpen, shared>>

(***************************************************************************)
(* close().  The pipeline has stopped the source before it calls it.       *)
(***************************************************************************)
SinksToClose == Pointers

CloseBegin ==
    /\ pipeline = "ready"
    /\ snapshot = <<>>
    /\ opened' = FALSE
    /\ todo' = SinksToClose
    /\ pipeline' = "closing"
    /\ crossed' = Crossed
    /\ UNCHANGED <<tracks, sinks, nextId, primary, first, frameVars, manager, saw, handle,
                   from, upto, sinkOpen, shared>>

CloseNext ==
    /\ pipeline = "closing"
    /\ todo # <<>>
    /\ sinkOpen' = [sinkOpen EXCEPT ![Head(todo)] = 0]
    /\ todo' = Tail(todo)
    /\ UNCHANGED <<registry, pipeline, first, frameVars, managerVars, shared>>

CloseEnd ==
    /\ pipeline = "closing"
    /\ todo = <<>>
    /\ pipeline' = "idle"
    /\ UNCHANGED <<registry, todo, first, frameVars, managerVars, sinkOpen, shared>>

(***************************************************************************)
(* send_frame(), on the thread of the source.                              *)
(***************************************************************************)
SinksToSend == Pointers

SendBegin ==
    /\ pipeline = "ready"
    /\ snapshot = <<>>
    /\ sent < MaxFrames
    /\ sent' = sent + 1
    /\ snapshot' = SinksToSend
    /\ UNCHANGED <<registry, pipelineVars, received, managerVars, sinkOpen, shared>>

SendNext ==
    /\ snapshot # <<>>
    /\ received' = [received EXCEPT ![Head(snapshot)] = Append(@, sent)]
    /\ snapshot' = Tail(snapshot)
    /\ UNCHANGED <<registry, pipelineVars, sent, managerVars, sinkOpen, shared>>

(***************************************************************************)
(* add_sink(s).                                                            *)
(***************************************************************************)
TracksIfOpen == IF opened THEN tracks ELSE 0

AddCheck(s) ==
    /\ manager[s] = "new"
    /\ saw' = [saw EXCEPT ![s] = TracksIfOpen]
    /\ manager' = [manager EXCEPT ![s] = "adding"]
    /\ UNCHANGED <<registry, pipelineVars, frameVars, handle, from, upto, crossed, sinkOpen,
                   shared>>

AddOpen(s) ==
    /\ manager[s] = "adding"
    /\ saw[s] # 0
    /\ sinkOpen' = [sinkOpen EXCEPT ![s] = saw[s]]
    /\ manager' = [manager EXCEPT ![s] = "opened"]
    /\ UNCHANGED <<registry, pipelineVars, frameVars, saw, handle, from, upto, crossed, shared>>

AddFails(s) ==
    /\ manager[s] = "adding"
    /\ saw[s] # 0
    /\ manager' = [manager EXCEPT ![s] = "rejected"]
    /\ UNCHANGED <<registry, pipelineVars, frameVars, saw, handle, from, upto, crossed, sinkOpen,
                   shared>>

FreshId == nextId

AddPush(s) ==
    /\ manager[s] = "opened" \/ (manager[s] = "adding" /\ saw[s] = 0)
    /\ sinks' = Append(sinks, [id |-> FreshId, sink |-> s])
    /\ handle' = [handle EXCEPT ![s] = FreshId]
    /\ nextId' = nextId + 1
    /\ manager' = [manager EXCEPT ![s] = "added"]
    /\ from' = [from EXCEPT ![s] = sent]
    /\ UNCHANGED <<opened, tracks, primary, pipelineVars, frameVars, saw, upto, crossed,
                   sinkOpen, shared>>

(***************************************************************************)
(* remove_sink(handle[s]).  What is erased is the first entry of that id.  *)
(***************************************************************************)
HasId(id, i) == sinks[i].id = id
Erase(id) ==
    LET i == CHOOSE i \in 1..Len(sinks) : HasId(id, i) /\ \A j \in 1..(i - 1) : ~HasId(id, j)
    IN  SubSeq(sinks, 1, i - 1) \o SubSeq(sinks, i + 1, Len(sinks))

RemoveErase(s) ==
    /\ manager[s] = "added"
    /\ \E i \in 1..Len(sinks) : HasId(handle[s], i)
    /\ sinks' = Erase(handle[s])
    /\ manager' = [manager EXCEPT ![s] = "removing"]
    /\ upto' = [upto EXCEPT ![s] = sent]
    /\ crossed' = crossed \cup CrossedByOpen(s)
    /\ UNCHANGED <<opened, tracks, nextId, primary, pipelineVars, frameVars, saw, handle,
                   from, sinkOpen, shared>>

Closed(s) == [sinkOpen EXCEPT ![s] = 0]

RemoveClose(s) ==
    /\ manager[s] = "removing"
    /\ sinkOpen' = Closed(s)
    /\ manager' = [manager EXCEPT ![s] = "removed"]
    /\ UNCHANGED <<registry, pipelineVars, frameVars, saw, handle, from, upto, crossed, shared>>

(* The shared_ptr outside the MultiSink is released. *)
LetGo(s) ==
    /\ s \in shared
    /\ manager[s] \in {"added", "removing", "removed", "rejected"}
    /\ shared' = shared \ {s}
    /\ UNCHANGED <<registry, pipelineVars, frameVars, managerVars, sinkOpen>>

-----------------------------------------------------------------------------
Pipeline == OpenBegin \/ OpenNext \/ OpenFails \/ OpenEnd
            \/ CloseBegin \/ CloseNext \/ CloseEnd
Source == SendBegin \/ SendNext
Manager(s) == \/ AddCheck(s) \/ AddOpen(s) \/ AddFails(s) \/ AddPush(s)
              \/ RemoveErase(s) \/ RemoveClose(s) \/ LetGo(s)
Next == Pipeline \/ Source \/ \E s \in Sinks : Manager(s)

Spec == Init /\ [][Next]_vars

-----------------------------------------------------------------------------
TypeOK ==
    /\ opened \in BOOLEAN
    /\ tracks \in 0..MaxOpens
    /\ sinks \in Seq([id : Nat, sink : Sinks])
    /\ nextId \in Nat
    /\ primary \in Sinks \cup {NoSink}
    /\ pipeline \in {"idle", "opening", "ready", "failed", "closing"}
    /\ todo \in Seq(Sinks)
    /\ first \in BOOLEAN
    /\ snapshot \in Seq(Sinks)
    /\ sent \in 0..MaxFrames
    /\ manager \in [Sinks -> {"new", "adding", "opened", "added", "rejected",
                              "removing", "removed"}]
    /\ saw \in [Sinks -> 0..MaxOpens]
    /\ handle \in [Sinks -> Int]
    /\ sinkOpen \in [Sinks -> 0..MaxOpens]
    /\ shared \subseteq Sinks
    /\ received \in [Sinks -> Seq(Nat)]
    /\ from \in [Sinks -> 0..MaxFrames]
    /\ upto \in [Sinks -> 0..MaxFrames]
    /\ crossed \subseteq Sinks

(***************************************************************************)
(* remove_sink() removes the sink its caller added, whatever was added and *)
(* removed in between: ids are never reused, the registry is ordered by    *)
(* them, and a sink is registered exactly while its handle is good.        *)
(***************************************************************************)
HandlesAreGood ==
    /\ \A i \in 1..Len(sinks) :
        /\ sinks[i].id < nextId
        /\ sinks[i].id = handle[sinks[i].sink]
        /\ manager[sinks[i].sink] = "added"
        /\ \A j \in 1..(i - 1) : sinks[j].id < sinks[i].id
    /\ \A s \in Sinks : manager[s] = "added" => s \in Registered

(***************************************************************************)
(* The fan-out is complete: a sink gets, once and in order, every frame    *)
(* whose send_frame() began while it was registered and no other; the      *)
(* frame under way at its removal is still delivered.                      *)
(***************************************************************************)
InSnapshot(s) == \E i \in 1..Len(snapshot) : snapshot[i] = s
Due(s) == CASE manager[s] = "added" -> sent
            [] manager[s] \in {"removing", "removed"} -> upto[s]
            [] OTHER -> from[s]
FanOutComplete ==
    \A s \in Sinks :
        LET last == IF InSnapshot(s) THEN Due(s) - 1 ELSE Due(s)
        IN  /\ Len(received[s]) = last - from[s]
            /\ \A i \in 1..Len(received[s]) : received[s][i] = from[s] + i

(***************************************************************************)
(* The sinks follow the MultiSink, unless an open() or close() crossed     *)
(* their add_sink() or remove_sink(): once open() has returned, every      *)
(* registered sink is open with the tracks of that open() (multi_sink.h:61 *)
(* says so of a sink added later); after close(), and after its removal,   *)
(* no sink is left open.  Without the exception this fails                 *)
(* (multi_sink.cpp:111, 126).                                              *)
(***************************************************************************)
SinksFollow ==
    \A s \in Sinks \ crossed :
        /\ pipeline = "ready" /\ s \in Registered => sinkOpen[s] = tracks
        /\ pipeline = "idle" /\ ~Managing(s) => sinkOpen[s] = 0
        /\ manager[s] = "removed" => sinkOpen[s] = 0

(***************************************************************************)
(* multi_sink.h:23: sinks may be removed while the pipeline runs.  A sink  *)
(* lives while the registry, a manager's coroutine or somebody outside     *)
(* owns it; no raw pointer that open(), close() or send_frame() still has  *)
(* to visit may outlive its sink.  The code does not keep this: nothing    *)
(* owns the sinks of a snapshot (multi_sink.cpp:52-60).                    *)
(***************************************************************************)
Owns(s) == s \in Registered    \* SinkEntry holds a shared_ptr
Alive(s) == s \in shared \/ Owns(s) \/ Managing(s)
PointersAlive ==
    \A s \in Sinks :
        InSnapshot(s) \/ InTodo(s) => Alive(s)

(***************************************************************************)
(* multi_sink.h:50: output_url() is the url of the first registered sink,  *)
(* and empty without one.                                                  *)
(***************************************************************************)
UrlOfFirstSink ==
    pipeline = "ready" => primary = IF sinks = <<>> THEN NoSink ELSE sinks[1].sink
=============================================================================
