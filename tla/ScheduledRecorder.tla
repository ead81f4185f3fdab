-------------------------- MODULE ScheduledRecorder --------------------------
(***************************************************************************)
(* The owner of a RecordScheduler as its header wants one: a timer wheel    *)
(* calls check_time_changed() every second, here every tick, and            *)
(* on_hourly_schedule_change() every hour; other threads load schedules     *)
(* and set attributes.  A reader of the answers keeps what it was told to   *)
(* be recorded.                                                             *)
(***************************************************************************)
EXTENDS RecordScheduler, TimerWheel

CONSTANTS
  Files,          \* schedule files, as sequences of their entries
  Wishes,         \* attributes that callers set
  Jumps,          \* how the clock may be set
  MaxChanges,     \* bound: how many calls of owners and how many jumps there are
  MaxSlow,        \* bound: how long callbacks and threads dawdle
  Window          \* how long what is recorded may be behind the hour

\* Between two calls for the hour lie its interval and what is dawdled.
ASSUME OwnerAssumption ==
  /\ "hour" \in Callbacks /\ Jumps \subseteq Int
  /\ {MaxSlow, Window} \subseteq Nat /\ Interval["hour"] + MaxSlow <= Window

VARIABLES
  orderly,        \* start() and stop() await each other, and what gave up is not started again
  file,           \* what load_schedule_from_file has not come to
  checking,       \* loops whose check_time_changed returned TRUE
  told,           \* channels whose change was told to the reader
  picture,        \* what the reader takes for recorded
  behind,         \* for how long the wheel has left a channel off its schedule
  changes, slow

ownerVars == <<orderly, file, checking, told, picture, behind, changes, slow>>
allVars == <<schedulerVars, wheelVars, patience, ownerVars>>
wheel == <<wheelVars, patience>>

OwnerInit ==
  /\ SchedulerInit /\ WheelInit
  /\ orderly \in BOOLEAN
  /\ file = <<>> /\ checking = {} /\ told = {} /\ changes = 0 /\ slow = 0
  /\ picture = [c \in Channels |-> {}] /\ behind = [c \in Channels |-> 0]

Change == changes < MaxChanges /\ changes' = changes + 1

OnSchedule(c) ==
  \/ m_current_attributes[c] = None
  \/ Current(c) \ {"manual"} = GetScheduledAttribute(m_channel_schedules, c)

\* The wheel is of use while it runs and has the entry of the hour.
Served == m_running /\ m_entries["hour"] # NotAdded /\ stopping # "polling"

\* How long channels are off their schedules, when d goes by.
Tracked(d) ==
  behind' = [c \in Channels |-> IF ~Served' \/ OnSchedule(c)' THEN 0
                                ELSE IF behind[c] <= Window THEN behind[c] + d ELSE behind[c]]

Tell(cs) == told' = told \cup cs /\ UNCHANGED picture

LoadFile ==
  /\ file = <<>> /\ Change
  /\ file' \in Files
  /\ UNCHANGED <<schedulerVars, wheel, orderly, checking, told, picture, behind, slow>>

LoadStep ==
  /\ file # <<>>
  /\ LoadNext(file)
  /\ file' = Tail(file)
  /\ Tell({Head(file).channel_id} \cap Channels)
  /\ UNCHANGED <<wheel, orderly, checking, changes, slow>>
  /\ Tracked(0)

UserSets ==
  /\ Change
  /\ \E c \in Channels, a \in Wishes :
       SetAttribute(c, a) /\ Tell({c})
  /\ UNCHANGED <<wheel, orderly, file, checking, slow>>
  /\ Tracked(0)

\* A reader that was told asks for what is recorded now.
ReaderReads ==
  /\ \E c \in told :
       /\ picture' = [picture EXCEPT ![c] = Current(c)]
       /\ told' = told \ {c}
  /\ UNCHANGED <<schedulerVars, wheel, orderly, file, checking, behind, changes, slow>>

WheelCalls ==
  /\ \/ Change /\ StartBegins /\ (orderly => stopping \notin {"polling", "timeout"})
     \/ Change /\ StopBegins /\ (orderly => ~starting)
     \/ \E k \in Callbacks : (Change /\ Cancel(k)) \/ (Add(k) /\ UNCHANGED changes)
  /\ UNCHANGED <<schedulerVars, orderly, file, checking, told, picture, slow>>
  /\ Tracked(0)

WheelRuns ==
  /\ \/ StartSpawns \/ StopPolls
     \/ \E l \in Alive \ checking :
          LoopTests(l) \/ LoopArms(l) \/ FireExpired(l) \/ FiringEnds(l) \/ LoopEnds(l)
  /\ UNCHANGED <<schedulerVars, ownerVars>>

Refresh ==
  /\ OnHourlyScheduleChange
  /\ Tell({c \in Channels : Changed(c)})

EverySecond(l) ==
  /\ RunCallback(l, "second")
  /\ checking' = IF IsTimeChange(unchecked) THEN checking \cup {l} ELSE checking
  /\ CheckTimeChanged
  /\ UNCHANGED <<orderly, file, told, picture, behind, changes, slow>>

TimeChanged(l) ==
  /\ Refresh
  /\ checking' = checking \ {l}
  /\ UNCHANGED <<wheel, orderly, file, changes, slow>>
  /\ Tracked(0)

EveryHour(l) ==
  /\ RunCallback(l, "hour")
  /\ Refresh
  /\ UNCHANGED <<orderly, file, checking, changes, slow>>
  /\ Tracked(0)

CallbackRuns ==
  \/ \E l \in Alive \ checking : EverySecond(l) \/ EveryHour(l)
  \/ \E l \in checking : TimeChanged(l)

\* A longer lapse is a time change like any other.
Capped(n) == IF n > HourLength + 1 THEN HourLength + 1 ELSE n

Lapse(d) ==
  /\ wall' = (wall + d) % WeekLength
  /\ unchecked' = Capped(unchecked + d)
  /\ UNCHANGED <<m_channel_schedules, m_current_attributes>>

Tick ==
  /\ IF InTime THEN UNCHANGED slow ELSE slow < MaxSlow /\ slow' = slow + 1
  /\ TimePasses /\ Lapse(1)
  /\ UNCHANGED <<orderly, file, checking, told, picture, changes>>
  /\ Tracked(1)

\* Somebody sets the clock.
ClockIsSet ==
  /\ Change
  /\ \E d \in Jumps : Lapse(d)
  /\ UNCHANGED <<wheel, orderly, file, checking, told, picture, slow>>
  /\ Tracked(0)

OwnerNext ==
  \/ LoadFile \/ LoadStep \/ UserSets \/ ReaderReads \/ WheelCalls
  \/ WheelRuns \/ CallbackRuns \/ Tick \/ ClockIsSet

OwnerSpec == OwnerInit /\ [][OwnerNext]_allVars

\* Threads and time go on.
FairOwnerSpec ==
  /\ OwnerSpec
  /\ WF_allVars(WheelRuns) /\ WF_allVars(CallbackRuns) /\ WF_allVars(Tick)

-----------------------------------------------------------------------------
\* While the wheel serves its hourly callback, what a channel records besides
\* manual recording is off its schedule for an hour, a tick and what callbacks
\* dawdle at most, whoever set it, loaded another schedule or set the clock.
ScheduleFollowed ==
  orderly => \A c \in Channels : behind[c] <= Window

\* A reader that asks for every channel it is told of knows what is recorded.
PictureCatchesUp ==
  \A c \in Channels \ told : picture[c] = Current(c)

\* When stop() has returned in time no callback runs, nor will one.
StoppedIsQuiet ==
  orderly /\ stopping = "clean" => Alive = {}

\* stop() returns, whoever starts the wheel meanwhile.
StopReturns == stopping = "polling" ~> stopping # "polling"
=============================================================================
