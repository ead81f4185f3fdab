--------------------------- MODULE RecordScheduler ---------------------------
(***************************************************************************)
(* RecordScheduler: the weekly schedule of every channel and what is       *)
(* recorded of it now.  A set of attributes stands for the bits of one     *)
(* value; every operation holds m_mutex from its start to its end.         *)
(***************************************************************************)
EXTENDS Integers, Sequences, FiniteSets

CONSTANTS
  Channels,
  HourLength, HoursPerDay, DaysPerWeek,   \* of the clock, in its units
  None

ASSUME SchedulerAssumption == {HourLength, HoursPerDay, DaysPerWeek} \subseteq Nat \ {0}

Attributes == {"continuous", "motion", "event", "manual"}
WeekLength == HourLength * HoursPerDay * DaysPerWeek
Weekdays   == 0..DaysPerWeek - 1
Hours      == 0..HoursPerDay - 1

VARIABLES
  wall,                   \* system_clock, within a week
  unchecked,              \* how far it went since m_last_checked_time
  m_channel_schedules,    \* channel -> [weekday -> [hour -> [attribute, options]]]
  m_current_attributes    \* channel -> attributes, or None

schedulerVars == <<wall, unchecked, m_channel_schedules, m_current_attributes>>

SchedulerInit ==
  /\ wall = 0 /\ unchecked = 0
  /\ m_channel_schedules = [c \in Channels |-> None]
  /\ m_current_attributes = [c \in Channels |-> None]

-----------------------------------------------------------------------------
(* Time *)

\* timestamp_to_local_datetime, of which hour and weekday are used.
ExtractTimeInfo ==
  [weekday |-> wall \div (HourLength * HoursPerDay),
   hour    |-> (wall \div HourLength) % HoursPerDay]

\* A backward step counts, and a jump of more than an hour.
IsTimeChange(d) == d < 0 \/ d > HourLength

\* check_time_changed; whether the time changed is what is returned.
CheckTimeChanged ==
  /\ unchecked' = 0
  /\ UNCHANGED <<wall, m_channel_schedules, m_current_attributes>>

-----------------------------------------------------------------------------
(* Schedules *)

\* What is between two bars is an attribute, or nothing.
ParseAttributeString(names) ==
  {a \in Attributes : \E i \in DOMAIN names : names[i] = a}

NoHour == [attribute |-> {}, options |-> [a \in Attributes |-> 0]]

\* An hour of the file; manual recording cannot be scheduled.
HourlySchedule(hour_json) ==
  LET attribute == ParseAttributeString(hour_json.attribute) \ {"manual"}
  IN  [attribute |-> attribute,
       options   |-> [a \in Attributes |-> IF a \in attribute THEN hour_json.duration_minutes ELSE 0]]

\* One of "schedules": what is outside of the week is left out, and of two
\* entries for one hour the later one holds.
ChannelSchedule(json) ==
  LET At(d, h) == {i \in DOMAIN json.hours : json.hours[i].weekday = d /\ json.hours[i].hour = h}
      Last(S)  == CHOOSE i \in S : \A j \in S : j <= i
  IN  [d \in Weekdays |-> [h \in Hours |->
         IF At(d, h) = {} THEN NoHour ELSE HourlySchedule(json.hours[Last(At(d, h))])]]

GetScheduledAttribute(schedules, c) ==
  IF schedules[c] = None THEN {}
  ELSE LET t == ExtractTimeInfo IN schedules[c][t.weekday][t.hour].attribute

\* What a channel records changes here only when it is new.
SetChannelSchedule(c, schedule) ==
  LET schedules == [m_channel_schedules EXCEPT ![c] = schedule]
  IN  /\ m_channel_schedules' = schedules
      /\ m_current_attributes' =
           [m_current_attributes EXCEPT
              ![c] = IF @ = None THEN GetScheduledAttribute(schedules, c) ELSE @]
      /\ UNCHANGED <<wall, unchecked>>

\* load_schedule_from_file on a file that can be read: one channel after the
\* other, the lock taken for each.  Entries without a channel are passed over.
LoadNext(file) ==
  IF Head(file).channel_id \in Channels
    THEN SetChannelSchedule(Head(file).channel_id, ChannelSchedule(Head(file)))
    ELSE UNCHANGED schedulerVars

-----------------------------------------------------------------------------
(* What is recorded *)

\* One of the wanted attributes in the schedule is enough.
IsAttributeInSchedule(c, attribute) ==
  GetScheduledAttribute(m_channel_schedules, c) \cap attribute # {}

Current(c) == IF m_current_attributes[c] = None THEN {} ELSE m_current_attributes[c]

SetAttributeError(c, attribute) ==
  CASE "manual" \notin attribute /\ m_channel_schedules[c] = None -> "channel_not_found"
    [] "manual" \notin attribute /\ m_channel_schedules[c] # None
         /\ ~IsAttributeInSchedule(c, attribute)                  -> "attribute_not_in_schedule"
    [] OTHER -> IF Current(c) = attribute THEN "attribute_already_set" ELSE None

SetAttribute(c, attribute) ==
  /\ SetAttributeError(c, attribute) = None
  /\ m_current_attributes' = [m_current_attributes EXCEPT ![c] = attribute]
  /\ UNCHANGED <<wall, unchecked, m_channel_schedules>>

\* The schedule comes back; what is recorded by hand stays.
Refreshed(c) == GetScheduledAttribute(m_channel_schedules, c) \cup (Current(c) \cap {"manual"})

\* Wrong: only a channel that begins to be recorded is told.
ChangedByHour(c) == m_current_attributes[c] # None /\ Current(c) = {}
Changed(c) == m_current_attributes[c] # None /\ Refreshed(c) # Current(c)

\* on_hourly_schedule_change; the changed channels are what is returned.
OnHourlyScheduleChange ==
  /\ m_current_attributes' = [c \in Channels |->
       IF m_current_attributes[c] = None THEN None ELSE Refreshed(c)]
  /\ UNCHANGED <<wall, unchecked, m_channel_schedules>>
=============================================================================
