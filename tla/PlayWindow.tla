----------------------------- MODULE PlayWindow ------------------------------
(***************************************************************************)
(* The play window of an asset: class Asset of anthias_server/app/         *)
(* models.py, as functions of a row and of the local time. A local time is *)
(* a day, counted from some Monday, and a time of that day, so that clock  *)
(* changes are left out. A row keeps what its play_days and its two times  *)
(* say, be it what the API accepts or not.                                 *)
(***************************************************************************)
EXTENDS Integers

CONSTANTS
  DayLength, \* the times of a day are 0..(DayLength - 1)
  NoTime     \* play_time_from or play_time_to is null

ASSUME DayAssumption == DayLength \in Nat \ {0}
ASSUME NoTimeAssumption == NoTime \notin Int

Times == 0..(DayLength - 1)
Instant == [day : Int, time : Times]
AllDays == 1..7
Window == [days : SUBSET Int, from : Times \cup {NoTime},
           to : Times \cup {NoTime}]

Weekday(day) == (day % 7) + 1

\* What is missing or malformed means every day. A list with an element that
\* is no day stands for all of that.
GetPlayDays(w) ==
  IF w.days \subseteq AllDays /\ w.days # {} THEN w.days ELSE AllDays

HasTimes(w) == w.from # NoTime /\ w.to # NoTime

HasWindowFilter(w) == HasTimes(w) \/ GetPlayDays(w) # AllDays

Yesterday(weekday) == IF weekday > 1 THEN weekday - 1 ELSE 7

Overnight(w) == w.to < w.from

MatchesPlayWindow(w, t) ==
  LET days == GetPlayDays(w)
      today == Weekday(t.day)
  IN  CASE ~HasTimes(w) -> today \in days
        [] HasTimes(w) /\ ~Overnight(w) ->
             today \in days /\ w.from <= t.time /\ t.time < w.to
        [] HasTimes(w) /\ Overnight(w) ->
             \/ w.from <= t.time /\ today \in days
             \/ t.time < w.from /\ t.time < w.to /\ Yesterday(today) \in days

\* What the serializers of the API let through.
ValidPlayDays(w) == w.days \subseteq AllDays /\ w.days # {}
ValidTimeWindow(w) == (w.from = NoTime) <=> (w.to = NoTime)

-----------------------------------------------------------------------------
(* The reference: one interval for each day that is listed. *)

\* The time passed since the midnight with which a day began.
Since(day, t) == (t.day - day) * DayLength + t.time

Opens(w) == w.from
Closes(w) == IF Overnight(w) THEN w.to + DayLength ELSE w.to

\* The window that opens on a day, and may close on the next one.
OpenFrom(w, day, t) == Opens(w) <= Since(day, t) /\ Since(day, t) < Closes(w)

InWindow(w, t, Days) ==
  \E day \in Days : Weekday(day) \in w.days /\ OpenFrom(w, day, t)

=============================================================================
