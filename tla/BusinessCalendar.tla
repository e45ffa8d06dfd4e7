--------------------------- MODULE BusinessCalendar ---------------------------
(***************************************************************************)
(* The business calendar: one local clock time on every business date,     *)
(* across the two days a year whose length differs, and a CALENDAR_DAILY   *)
(* schedule that moves from one occurrence to the next.                    *)
(*                                                                         *)
(* An instant is a number of slots of UTC, a business date a number of     *)
(* days, a clock time a number of slots since the local midnight.  One     *)
(* change of the clocks lies within the instants looked at, in either      *)
(* direction; it happens within a date, as Europe/Rome's does.             *)
(***************************************************************************)
EXTENDS Integers, FiniteSetsExt

CONSTANTS
  SlotsPerDay,      \* slots of a day
  Winter,           \* slots that the local clock is ahead of UTC in winter
  Summer,           \* the same in summer
  ChangeAt,         \* the instant at which the clocks change
  SearchWindow,     \* SEARCH_WINDOW_MINUTES
  ClockTime,        \* the clock times of the schedules looked at
  CalendarHorizon   \* bound: no clock reading is later

ASSUME CalendarAssumption ==
  /\ {SlotsPerDay, ChangeAt, CalendarHorizon} \subseteq Nat \ {0}
  /\ {Winter, Summer, SearchWindow} \subseteq Nat
  /\ Winter < Summer /\ Summer < SearchWindow /\ SearchWindow < SlotsPerDay
  /\ (ChangeAt + Winter) \div SlotsPerDay = (ChangeAt + Summer) \div SlotsPerDay
  /\ (ChangeAt + Winter) % SlotsPerDay # 0
  /\ ClockTime \subseteq 0 .. SlotsPerDay - 1

VARIABLES
  change,     \* the change of the clocks: "SPRING" or "AUTUMN"
  time,       \* the cadence's hour and minute
  nextRunAt,  \* the schedule's next occurrence
  lastTick    \* the clock reading of the last tick that moved the schedule

calendarVars == <<change, time, nextRunAt, lastTick>>

----------------------------------------------------------------------------
(* The local clock *)

Offset(t) == IF (change = "SPRING") = (t < ChangeAt) THEN Winter ELSE Summer
BusinessDateAt(t) == (t + Offset(t)) \div SlotsPerDay
BusinessClockTimeAt(t) == (t + Offset(t)) % SlotsPerDay

----------------------------------------------------------------------------
(* The instant of a clock time on a business date *)

\* The instants that calendarDailyOccurrenceAt tries.
Candidates(date, clock) ==
  LET naive == date * SlotsPerDay + clock
  IN {t \in naive - SearchWindow .. naive + SearchWindow : BusinessDateAt(t) = date}

Exact(date, clock) == {t \in Candidates(date, clock) : BusinessClockTimeAt(t) = clock}
AfterGap(date, clock) == {t \in Candidates(date, clock) : BusinessClockTimeAt(t) > clock}

\* RangeError "Business calendar occurrence cannot be resolved" otherwise.
IsResolved(date, clock) == Exact(date, clock) \cup AfterGap(date, clock) # {}

\* The later one of two equal clock times.
LaterOccurrenceAt(date, clock) ==
  IF Exact(date, clock) # {} THEN Max(Exact(date, clock)) ELSE Min(AfterGap(date, clock))

CalendarDailyOccurrenceAt(date, clock) ==
  IF Exact(date, clock) # {} THEN Min(Exact(date, clock)) ELSE Min(AfterGap(date, clock))

BusinessDayWindow(date) ==
  [startsAt |-> CalendarDailyOccurrenceAt(date, 0), endsAt |-> CalendarDailyOccurrenceAt(date + 1, 0)]

----------------------------------------------------------------------------
(* The occurrence after an occurrence and a clock reading *)

\* A first date that does not look at the schedule.
FirstDateOfBoundary(current, boundary) == BusinessDateAt(boundary)

FirstDate(current, boundary) == Max({BusinessDateAt(current) + 1, BusinessDateAt(boundary)})

NextDate(current, boundary) ==
  LET date == FirstDate(current, boundary)
  IN IF CalendarDailyOccurrenceAt(date, time) <= boundary THEN date + 1 ELSE date

NextCalendarDailyOccurrence(current, boundary) ==
  CalendarDailyOccurrenceAt(NextDate(current, boundary), time)

----------------------------------------------------------------------------
(* The schedule *)

\* A first occurrence is a minute after the registration, at any clock time.
CalendarInit ==
  /\ change \in {"SPRING", "AUTUMN"}
  /\ time \in ClockTime
  /\ nextRunAt \in 0 .. CalendarHorizon
  /\ lastTick = 0

\* nextOccurrence of the scheduler, for a tick at any instant from lastTick on.
MaterializeDaily ==
  /\ lastTick' \in {t \in lastTick .. CalendarHorizon : nextRunAt <= t}
  /\ nextRunAt' = NextCalendarDailyOccurrence(nextRunAt, lastTick')
  /\ UNCHANGED <<change, time>>

MissedDaily(reading) == NextCalendarDailyOccurrence(nextRunAt, nextRunAt) <= reading

CalendarNext == MaterializeDaily

CalendarSpec == CalendarInit /\ [][CalendarNext]_calendarVars

----------------------------------------------------------------------------
(* Properties *)

\* The first instant of a date that is not before the clock time: in autumn the
\* earlier one of two, in spring the end of the gap.
FirstInstant(date, clock) ==
  Min({t \in date * SlotsPerDay - SearchWindow .. (date + 1) * SlotsPerDay :
         BusinessDateAt(t) = date /\ BusinessClockTimeAt(t) >= clock})

\* A schedule keeps an integral instant no further off than two dates, one of
\* which may be the longer one.
CalendarTypeOK ==
  /\ change \in {"SPRING", "AUTUMN"}
  /\ time \in ClockTime
  /\ lastTick \in 0 .. CalendarHorizon
  /\ nextRunAt \in 0 .. CalendarHorizon + 2 * SlotsPerDay + (Summer - Winter)

\* Every clock time has an instant on every date, in the gap as well, and it is
\* the one that the calendar promises, so that no shift stays behind after the
\* change of the clocks.
OccurrencesResolve ==
  LET date == BusinessDateAt(nextRunAt)
  IN IsResolved(date, time) /\ CalendarDailyOccurrenceAt(date, time) = FirstInstant(date, time)

\* The windows of the dates meet without a gap or an overlap, on the short and
\* on the long day too: what happens at an instant is counted on its own
\* business date and on no other.
WindowsPartition ==
  \A date \in BusinessDateAt(nextRunAt) - 1 .. BusinessDateAt(nextRunAt) + 1 :
    LET window == BusinessDayWindow(date)
    IN (window.startsAt <= nextRunAt /\ nextRunAt < window.endsAt) <=> date = BusinessDateAt(nextRunAt)

\* A tick moves the schedule to the first occurrence behind the clock reading
\* on a later date: no date gets two occurrences (jobs are named by the date),
\* and no date is passed over whose occurrence is still to come.
MovesToFirstFollowing ==
  [][calendarVars' # calendarVars =>
       nextRunAt' =
         Min({t \in {FirstInstant(date, time) :
                       date \in BusinessDateAt(nextRunAt) + 1 .. BusinessDateAt(nextRunAt') + 1} :
                t > lastTick'})]_calendarVars

\* The two questions the scheduler asks the calendar agree: an occurrence is
\* missed exactly if the schedule does not move to the one that follows it.
MissedIsPassedOver ==
  [][calendarVars' # calendarVars =>
       (MissedDaily(lastTick') <=> nextRunAt' # NextCalendarDailyOccurrence(nextRunAt, nextRunAt))]_calendarVars

\* Where a daily schedule goes, and what it leaves behind.
OccurrencesFollow == MovesToFirstFollowing /\ MissedIsPassedOver

=============================================================================
