------------------------------ MODULE TimerWheel ------------------------------
(***************************************************************************)
(* TimerWheel: one timer of the system for many periodic callbacks.  A      *)
(* unit of time is the resolution of the wheel.  start(), stop(), add()     *)
(* and cancel() may be called by any thread while the coroutine tick_loop   *)
(* runs on another; a stop() that gave up and a start() after it leave two  *)
(* loops on one timer.                                                      *)
(***************************************************************************)
EXTENDS Integers, FiniteSets

CONSTANTS
  Callbacks,        \* what owners add to the wheel
  Interval,         \* callback -> its interval
  StopTimeout,      \* how long stop() waits for the loop
  MaxLoops          \* bound: how many loops there may be

ASSUME WheelAssumption ==
  StopTimeout \in Nat /\ MaxLoops \in Nat /\ Interval \in [Callbacks -> Nat \ {0}]

VARIABLES
  m_running, m_stop_requested,
  m_entries,        \* callback -> the time to its next_fire, or NotAdded
  loops,            \* 1..MaxLoops -> [at, left, due]
  starting,         \* start() between its two writes
  stopping          \* stop(): "no", "polling", "clean" (done) or "timeout" (gave up)

wheelVars == <<m_running, m_stop_requested, m_entries, loops, starting, stopping>>

NotAdded == -1
Gone     == [at |-> "gone", left |-> 0, due |-> {}]

VARIABLE patience   \* the time stop() has left

WheelInit ==
  /\ m_running = FALSE /\ m_stop_requested = FALSE
  /\ m_entries = [k \in Callbacks |-> NotAdded]
  /\ loops = [l \in 1..MaxLoops |-> Gone]
  /\ starting = FALSE /\ stopping = "no" /\ patience = 0

Alive == {l \in 1..MaxLoops : loops[l].at # "gone"}

\* cancel() of m_tick_timer, and expires_after() of it, end the waits there are.
TimerCancelled(ls) ==
  [l \in DOMAIN ls |-> IF ls[l].at = "waiting" THEN [ls[l] EXCEPT !.at = "ending"] ELSE ls[l]]

-----------------------------------------------------------------------------
(* Owners *)

\* start(): of two callers one goes on.
StartBegins ==
  /\ ~starting /\ ~m_running
  /\ m_running' = TRUE /\ starting' = TRUE
  /\ stopping' = IF stopping = "polling" THEN stopping ELSE "no"
  /\ UNCHANGED <<m_stop_requested, m_entries, loops, patience>>

StartSpawns ==
  /\ starting
  /\ \E l \in 1..MaxLoops :
       /\ loops[l].at = "gone"
       /\ loops' = [loops EXCEPT ![l].at = "test"]
  /\ m_stop_requested' = FALSE /\ starting' = FALSE
  /\ UNCHANGED <<m_running, m_entries, stopping, patience>>

StopBegins ==
  /\ stopping # "polling" /\ m_running
  /\ m_stop_requested' = TRUE
  /\ loops' = TimerCancelled(loops)
  /\ stopping' = "polling" /\ patience' = StopTimeout
  /\ UNCHANGED <<m_running, m_entries, starting>>

\* Wrong: it waits for as long as it takes.
StopPollsForever ==
  /\ stopping = "polling" /\ ~m_running
  /\ stopping' = "clean"
  /\ UNCHANGED <<m_running, m_stop_requested, m_entries, loops, starting, patience>>
\* stop() looks every 10 ms whether the loop has ended.
StopPolls ==
  /\ stopping = "polling"
  /\ \/ ~m_running /\ stopping' = "clean" /\ UNCHANGED m_running
     \/ m_running /\ patience = 0 /\ stopping' = "timeout" /\ m_running' = FALSE
  /\ UNCHANGED <<m_stop_requested, m_entries, loops, starting, patience>>

Add(k) ==
  /\ m_entries[k] = NotAdded
  /\ m_entries' = [m_entries EXCEPT ![k] = Interval[k]]
  /\ UNCHANGED <<m_running, m_stop_requested, loops, starting, stopping, patience>>

Cancel(k) ==
  /\ m_entries[k] # NotAdded
  /\ m_entries' = [m_entries EXCEPT ![k] = NotAdded]
  /\ UNCHANGED <<m_running, m_stop_requested, loops, starting, stopping, patience>>

-----------------------------------------------------------------------------
(* The loop *)

\* Wrong: the flag goes down with the request, while callbacks may run.
LoopTestsReporting(l) ==
  /\ loops[l].at = "test"
  /\ loops' = [loops EXCEPT ![l].at = IF m_stop_requested THEN "ending" ELSE "arming"]
  /\ m_running' = (m_running /\ ~m_stop_requested)
  /\ UNCHANGED <<m_stop_requested, m_entries, starting, stopping, patience>>
LoopTests(l) ==
  /\ loops[l].at = "test"
  /\ loops' = [loops EXCEPT ![l].at = IF m_stop_requested THEN "ending" ELSE "arming"]
  /\ UNCHANGED <<m_running, m_stop_requested, m_entries, starting, stopping, patience>>

LoopArms(l) ==
  /\ loops[l].at = "arming"
  /\ loops' = [TimerCancelled(loops) EXCEPT ![l] = [at |-> "waiting", left |-> 1, due |-> {}]]
  /\ UNCHANGED <<m_running, m_stop_requested, m_entries, starting, stopping, patience>>

Expired == {k \in Callbacks : m_entries[k] = 0}

\* Wrong: the next time is counted from the tick after.
NextFireLate(k) == IF k \in Expired THEN 2 * Interval[k] ELSE m_entries[k]
NextFire(k) == IF k \in Expired THEN Interval[k] ELSE m_entries[k]

\* fire_expired up to the unlock: the callbacks are copied.
FireExpired(l) ==
  /\ loops[l].at = "waiting" /\ loops[l].left = 0
  /\ loops' = [loops EXCEPT ![l].at = "firing", ![l].due = Expired]
  /\ m_entries' = [k \in Callbacks |-> NextFire(k)]
  /\ UNCHANGED <<m_running, m_stop_requested, starting, stopping, patience>>

\* One callback is over, by its end or by an exception; its effects are its owner's.
RunCallback(l, k) ==
  /\ loops[l].at = "firing" /\ k \in loops[l].due
  /\ loops' = [loops EXCEPT ![l].due = @ \ {k}]
  /\ UNCHANGED <<m_running, m_stop_requested, m_entries, starting, stopping, patience>>

FiringEnds(l) ==
  /\ loops[l].at = "firing" /\ loops[l].due = {}
  /\ loops' = [loops EXCEPT ![l].at = "test"]
  /\ UNCHANGED <<m_running, m_stop_requested, m_entries, starting, stopping, patience>>

LoopEnds(l) ==
  /\ loops[l].at = "ending"
  /\ loops' = [loops EXCEPT ![l] = Gone]
  /\ m_running' = FALSE
  /\ UNCHANGED <<m_stop_requested, m_entries, starting, stopping, patience>>

-----------------------------------------------------------------------------
(* Time *)

\* Nothing on this wheel is overdue.
InTime ==
  /\ \A l \in Alive : loops[l].at = "waiting" /\ loops[l].left > 0
  /\ stopping = "polling" => patience > 0 /\ m_running
  /\ ~starting

Down(n) == IF n > 0 THEN n - 1 ELSE n

TimePasses ==
  /\ loops' = [l \in DOMAIN loops |-> [loops[l] EXCEPT !.left = Down(@)]]
  /\ m_entries' = [k \in Callbacks |-> Down(m_entries[k])]
  /\ patience' = Down(patience)
  /\ UNCHANGED <<m_running, m_stop_requested, starting, stopping>>
=============================================================================
