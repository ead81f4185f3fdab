------------------------- MODULE MCScheduledRecorder -------------------------
(* A small instance of ScheduledRecorder: weeks of one day, days of two hours. *)
EXTENDS ScheduledRecorder

MCInterval == [k \in {"second", "hour"} |-> IF k = "hour" THEN HourLength ELSE 1]

Hour(d, h, names, minutes) ==
  [weekday |-> d, hour |-> h, attribute |-> names, duration_minutes |-> minutes]
Entry(c, hours) == [channel_id |-> c, hours |-> hours]

MCFiles == {
  <<Entry("none", <<>>),
    Entry("c1", <<Hour(0, 0, <<"event">>, 0), Hour(0, 0, <<"continuous", "?">>, 0),
                  Hour(0, 1, <<"motion", "manual">>, 1), Hour(1, 1, <<"event">>, 0)>>)>>}

MCJumps  == {-1, 3}
MCWishes == {{"continuous", "event"}, {"manual"}}
=============================================================================
