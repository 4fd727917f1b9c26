----------------------------- MODULE MCScheduler -----------------------------
(***************************************************************************)
(* Instances of Scheduler for TLC. The windows are those of PlayWindow:    *)
(* the clock of the one is the local time of the other.                    *)
(***************************************************************************)
EXTENDS Scheduler, PlayWindow

CONSTANTS a1, a2

\* The second asset has an overnight window, from the last time of a day to
\* the first of the next, and the first one none.
MCWindow(a) ==
  [days |-> AllDays,
   from |-> IF a = a2 THEN DayLength - 1 ELSE NoTime,
   to   |-> IF a = a2 THEN 1 ELSE NoTime]

Local(t) == [day |-> t \div DayLength, time |-> t % DayLength]

MCWindowed == {a \in Asset : HasWindowFilter(MCWindow(a))}
MCOpenAt ==
  [a \in Asset |-> {t \in 1..MaxTime : MatchesPlayWindow(MCWindow(a), Local(t))}]

\* The windows are the intervals of the reference over two weeks, for every
\* pair of times and days that lie together, apart and at the turn of a week.
ASSUME WindowsAreIntervals ==
  \A w \in [days : {{1}, {7}, {1, 7}, {2, 3, 6}, AllDays}, from : Times, to : Times],
     t \in [day : 0..14, time : Times] :
       MatchesPlayWindow(w, t) <=> InWindow(w, t, -2..16)

R(s, e, o, p) ==
  [enabled |-> TRUE, start |-> s, end |-> e, order |-> o, processing |-> p]

\* Assets that come and go, with their boundaries at different times.
MCDates == {R(0, 4, 0, FALSE), R(2, 4, 1, FALSE), R(3, 5, 0, FALSE)}

\* Assets that stay: two play orders, one of them in processing.
MCStay == {R(0, 9, 0, FALSE), R(0, 9, 1, FALSE)}
MCProc == {R(0, 9, 0, FALSE), R(0, 9, 0, TRUE)}

=============================================================================
