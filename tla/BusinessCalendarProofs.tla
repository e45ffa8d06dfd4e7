------------------------ MODULE BusinessCalendarProofs ------------------------
(***************************************************************************)
(* Proofs about BusinessCalendar, for every length of the day, offset of   *)
(* the zone and change of the clocks that CalendarAssumption admits.  All  *)
(* of them rest on one closed form: the first instant at which the local   *)
(* clock shows a date and a clock time or a later one (Reached).           *)
(***************************************************************************)
EXTENDS BusinessCalendar, TLAPS

-----------------------------------------------------------------------------
(* Arithmetic: quotients, products and minima. *)

LEMMA Products ==
  ASSUME NEW x \in Int, NEW y \in Int, NEW n \in Nat \ {0}
  PROVE  /\ x * n \in Int
         /\ x <= y => x * n <= y * n
         /\ (x + 1) * n = x * n + n
         /\ x * n < y * n + n => x <= y
<1>1. x * n \in Int /\ y * n \in Int /\ (x + 1) * n = x * n + n /\ (y + 1) * n = y * n + n
  BY SMT
<1>2. x <= y => x * n <= y * n
  BY SMT
<1>3. y + 1 <= x => (y + 1) * n <= x * n
  BY SMT
<1> QED BY <1>1, <1>2, <1>3

LEMMA Quotient ==
  ASSUME NEW x \in Int, NEW n \in Nat \ {0}
  PROVE  /\ x \div n \in Int
         /\ x = (x \div n) * n + (x % n)
         /\ x % n \in 0 .. n - 1
<1>1. x \div n \in Int /\ x % n \in 0 .. n - 1
  BY SMT
<1>2. x = (x \div n) * n + (x % n)
  BY SMT
<1> QED BY <1>1, <1>2

LEMMA MinIs ==
  ASSUME NEW T, NEW m \in T, T \subseteq Int, \A t \in T : m <= t
  PROVE  Min(T) = m
<1>1. \A x \in T : (\A y \in T : x =< y) => x = m
  OBVIOUS
<1>2. (CHOOSE x \in T : \A y \in T : x =< y) = m
  BY <1>1
<1> QED BY <1>2 DEF Min

LEMMA MaxOfTwo ==
  ASSUME NEW x \in Int, NEW y \in Int
  PROVE  Max({x, y}) = IF x >= y THEN x ELSE y
<1> DEFINE m == IF x >= y THEN x ELSE y
<1>1. m \in {x, y} /\ \A z \in {x, y} : m >= z
  OBVIOUS
<1>2. \A w \in {x, y} : (\A z \in {x, y} : w >= z) => w = m
  OBVIOUS
<1>3. (CHOOSE w \in {x, y} : \A z \in {x, y} : w >= z) = m
  BY <1>1, <1>2
<1> QED BY <1>3 DEF Max

-----------------------------------------------------------------------------
(* The local clock.  Around the change it stays within one date. *)

Local(t) == t + Offset(t)
Clocks == change \in {"SPRING", "AUTUMN"}
ChangeDate == (ChangeAt + Winter) \div SlotsPerDay

LEMMA Constants ==
  /\ SlotsPerDay \in Nat \ {0} /\ ChangeAt \in Nat \ {0} /\ CalendarHorizon \in Nat \ {0}
  /\ Winter \in Nat /\ Summer \in Nat /\ SearchWindow \in Nat
  /\ Winter < Summer /\ Summer < SearchWindow /\ SearchWindow < SlotsPerDay
  BY CalendarAssumption

LEMMA ChangeWithinDate ==
  /\ ChangeDate \in Int
  /\ ChangeDate * SlotsPerDay \in Int
  /\ ChangeDate * SlotsPerDay < ChangeAt + Winter
  /\ ChangeAt + Summer < ChangeDate * SlotsPerDay + SlotsPerDay
<1>1. ChangeAt + Winter \in Int /\ ChangeAt + Summer \in Int
  BY Constants
<1>2. (ChangeAt + Winter) \div SlotsPerDay = (ChangeAt + Summer) \div SlotsPerDay /\ (ChangeAt + Winter) % SlotsPerDay # 0
  BY CalendarAssumption
<1>3. /\ ChangeDate \in Int
      /\ ChangeAt + Winter = ChangeDate * SlotsPerDay + ((ChangeAt + Winter) % SlotsPerDay)
      /\ (ChangeAt + Winter) % SlotsPerDay \in 0 .. SlotsPerDay - 1
  BY <1>1, Constants, Quotient DEF ChangeDate
<1>4. /\ ChangeAt + Summer = ChangeDate * SlotsPerDay + ((ChangeAt + Summer) % SlotsPerDay)
      /\ (ChangeAt + Summer) % SlotsPerDay \in 0 .. SlotsPerDay - 1
  BY <1>1, <1>2, Constants, Quotient DEF ChangeDate
<1>5. ChangeDate * SlotsPerDay \in Int
  BY <1>3, Constants, Products
<1> QED BY <1>1, <1>2, <1>3, <1>4, <1>5, Constants

LEMMA LocalIs ==
  ASSUME Clocks, NEW t \in Int
  PROVE  /\ Local(t) \in Int
         /\ change = "SPRING" => Local(t) = IF t < ChangeAt THEN t + Winter ELSE t + Summer
         /\ change = "AUTUMN" => Local(t) = IF t < ChangeAt THEN t + Summer ELSE t + Winter
  BY Constants DEF Clocks, Local, Offset

LEMMA DateIs ==
  ASSUME Clocks, NEW t \in Int
  PROVE  /\ BusinessDateAt(t) \in Int
         /\ BusinessDateAt(t) * SlotsPerDay \in Int
         /\ BusinessDateAt(t) * SlotsPerDay <= Local(t)
         /\ Local(t) < BusinessDateAt(t) * SlotsPerDay + SlotsPerDay
         /\ BusinessClockTimeAt(t) = Local(t) - BusinessDateAt(t) * SlotsPerDay
<1>1. Local(t) \in Int
  BY LocalIs
<1>2. BusinessDateAt(t) = Local(t) \div SlotsPerDay /\ BusinessClockTimeAt(t) = Local(t) % SlotsPerDay
  BY DEF BusinessDateAt, BusinessClockTimeAt, Local
<1>3. /\ BusinessDateAt(t) \in Int
      /\ Local(t) = BusinessDateAt(t) * SlotsPerDay + BusinessClockTimeAt(t)
      /\ BusinessClockTimeAt(t) \in 0 .. SlotsPerDay - 1
  BY <1>1, <1>2, Constants, Quotient
<1>4. BusinessDateAt(t) * SlotsPerDay \in Int
  BY <1>3, Constants, Products
<1> QED BY <1>1, <1>3, <1>4, Constants

LEMMA DateUnique ==
  ASSUME Clocks, NEW t \in Int, NEW date \in Int,
         date * SlotsPerDay <= Local(t), Local(t) < date * SlotsPerDay + SlotsPerDay
  PROVE  BusinessDateAt(t) = date
<1> DEFINE other == BusinessDateAt(t)
<1>1. /\ other \in Int /\ other * SlotsPerDay \in Int /\ Local(t) \in Int
      /\ other * SlotsPerDay <= Local(t) /\ Local(t) < other * SlotsPerDay + SlotsPerDay
  BY DateIs, LocalIs
<1>2. date * SlotsPerDay \in Int
  BY Constants, Products
<1>3. date * SlotsPerDay < other * SlotsPerDay + SlotsPerDay /\ other * SlotsPerDay < date * SlotsPerDay + SlotsPerDay
  BY <1>1, <1>2, Constants
<1> HIDE DEF other
<1>4. date <= other
  BY <1>1, <1>3, Constants, Products
<1>5. other <= date
  BY <1>1, <1>3, Constants, Products
<1> QED BY <1>1, <1>4, <1>5 DEF other

-----------------------------------------------------------------------------
(* The first instant at which the local clock shows n or later. *)

Instant(n) ==
  IF change = "SPRING"
    THEN IF n < ChangeAt + Winter THEN n - Winter
         ELSE IF n < ChangeAt + Summer THEN ChangeAt ELSE n - Summer
    ELSE IF n < ChangeAt + Summer THEN n - Summer ELSE n - Winter

LEMMA InstantIs ==
  ASSUME Clocks, NEW n \in Int
  PROVE  /\ Instant(n) \in Int /\ n - Summer <= Instant(n) /\ Instant(n) <= n - Winter
         /\ n <= Local(Instant(n))
         /\ Local(Instant(n)) # n =>
              /\ change = "SPRING" /\ ChangeAt + Winter <= n /\ n < ChangeAt + Summer
              /\ Instant(n) = ChangeAt /\ Local(Instant(n)) = ChangeAt + Summer
         /\ \A t \in Int : n <= Local(t) => Instant(n) <= t
<1>1. Instant(n) \in Int /\ n - Summer <= Instant(n) /\ Instant(n) <= n - Winter
  BY Constants DEF Instant
<1>2. CASE change = "SPRING"
  <2>1. Local(Instant(n)) = IF Instant(n) < ChangeAt THEN Instant(n) + Winter ELSE Instant(n) + Summer
    BY <1>1, <1>2, LocalIs
  <2>2. \A t \in Int : Local(t) = IF t < ChangeAt THEN t + Winter ELSE t + Summer
    BY <1>2, LocalIs
  <2>3. Instant(n) = IF n < ChangeAt + Winter THEN n - Winter
                     ELSE IF n < ChangeAt + Summer THEN ChangeAt ELSE n - Summer
    BY <1>2 DEF Instant
  <2>4. \A t \in Int : n <= Local(t) => Instant(n) <= t
    BY <2>2, <2>3, Constants
  <2> QED BY <1>1, <1>2, <2>1, <2>3, <2>4, Constants
<1>3. CASE change = "AUTUMN"
  <2>1. Local(Instant(n)) = IF Instant(n) < ChangeAt THEN Instant(n) + Summer ELSE Instant(n) + Winter
    BY <1>1, <1>3, LocalIs
  <2>2. \A t \in Int : Local(t) = IF t < ChangeAt THEN t + Summer ELSE t + Winter
    BY <1>3, LocalIs
  <2>3. Instant(n) = IF n < ChangeAt + Summer THEN n - Summer ELSE n - Winter
    BY <1>3 DEF Instant
  <2>4. \A t \in Int : n <= Local(t) => Instant(n) <= t
    BY <2>2, <2>3, Constants
  <2> QED BY <1>1, <2>1, <2>3, <2>4, Constants
<1> QED BY <1>2, <1>3 DEF Clocks

-----------------------------------------------------------------------------
(* Occurrences.  A clock time falls on an instant of its date, which is the *)
(* first one at that time or later.                                         *)

At(date, clock) == Instant(date * SlotsPerDay + clock)

LEMMA SlotOfDate ==
  ASSUME NEW date \in Int, NEW clock \in 0 .. SlotsPerDay - 1
  PROVE  /\ date * SlotsPerDay \in Int /\ date * SlotsPerDay + clock \in Int
         /\ date * SlotsPerDay <= date * SlotsPerDay + clock
         /\ date * SlotsPerDay + clock < date * SlotsPerDay + SlotsPerDay
<1>1. date * SlotsPerDay \in Int
  BY Constants, Products
<1> QED BY <1>1, Constants

LEMMA AtIsOnItsDate ==
  ASSUME Clocks, NEW date \in Int, NEW clock \in 0 .. SlotsPerDay - 1
  PROVE  At(date, clock) \in Int /\ BusinessDateAt(At(date, clock)) = date
<1> DEFINE n == date * SlotsPerDay + clock
<1> DEFINE t == At(date, clock)
<1>1. /\ date * SlotsPerDay \in Int /\ n \in Int
      /\ date * SlotsPerDay <= n /\ n < date * SlotsPerDay + SlotsPerDay
  BY SlotOfDate
<1>2. /\ t \in Int /\ n <= Local(t)
      /\ Local(t) # n =>
           /\ ChangeAt + Winter <= n /\ n < ChangeAt + Summer /\ Local(t) = ChangeAt + Summer
  BY <1>1, InstantIs DEF At
<1>3. Local(t) \in Int
  BY <1>2, LocalIs
<1>4. Local(t) < date * SlotsPerDay + SlotsPerDay
  <2>1. SUFFICES ASSUME Local(t) # n PROVE Local(t) < date * SlotsPerDay + SlotsPerDay
    BY <1>1
  <2>2. ChangeDate * SlotsPerDay < date * SlotsPerDay + SlotsPerDay
    BY <1>1, <1>2, <2>1, ChangeWithinDate, Constants
  <2>3. ChangeDate <= date
    BY <2>2, ChangeWithinDate, Constants, Products
  <2>4. ChangeDate * SlotsPerDay <= date * SlotsPerDay
    BY <2>3, ChangeWithinDate, Constants, Products
  <2> QED BY <1>1, <1>2, <2>1, <2>4, ChangeWithinDate, Constants
<1>5. date * SlotsPerDay <= Local(t)
  BY <1>1, <1>2, <1>3
<1> QED BY <1>2, <1>4, <1>5, DateUnique

\* The code's search finds that instant (calendarDailyOccurrenceAt).
LEMMA OccurrenceIs ==
  ASSUME Clocks, NEW date \in Int, NEW clock \in 0 .. SlotsPerDay - 1
  PROVE  IsResolved(date, clock) /\ CalendarDailyOccurrenceAt(date, clock) = At(date, clock)
<1> DEFINE n == date * SlotsPerDay + clock
<1> DEFINE m == At(date, clock)
<1>1. /\ date * SlotsPerDay \in Int /\ n \in Int
      /\ date * SlotsPerDay <= n /\ n < date * SlotsPerDay + SlotsPerDay
  BY SlotOfDate
<1>2. /\ m \in Int /\ n - Summer <= m /\ m <= n - Winter /\ n <= Local(m)
      /\ Local(m) # n =>
           change = "SPRING" /\ ChangeAt + Winter <= n /\ n < ChangeAt + Summer
      /\ \A t \in Int : n <= Local(t) => m <= t
  BY <1>1, InstantIs DEF At
<1>3. BusinessDateAt(m) = date
  BY AtIsOnItsDate
<1>4. m \in n - SearchWindow .. n + SearchWindow
  BY <1>1, <1>2, Constants
<1>5. m \in Candidates(date, clock)
  BY <1>3, <1>4 DEF Candidates
<1>6. Candidates(date, clock) \subseteq Int
  BY <1>1, Constants DEF Candidates
<1>7. \A t \in Candidates(date, clock) :
        t \in Int /\ BusinessClockTimeAt(t) = Local(t) - date * SlotsPerDay /\ Local(t) \in Int
  <2> SUFFICES ASSUME NEW t \in Candidates(date, clock)
               PROVE  t \in Int /\ BusinessClockTimeAt(t) = Local(t) - date * SlotsPerDay /\ Local(t) \in Int
    OBVIOUS
  <2>1. t \in Int /\ BusinessDateAt(t) = date
    BY <1>6 DEF Candidates
  <2> QED BY <2>1, DateIs, LocalIs
<1>8. /\ Exact(date, clock) = {t \in Candidates(date, clock) : Local(t) = n}
      /\ AfterGap(date, clock) = {t \in Candidates(date, clock) : Local(t) > n}
  BY <1>1, <1>7, Constants DEF Exact, AfterGap
<1> HIDE DEF n, m
<1>9. CASE Local(m) = n
  <2>1. m \in Exact(date, clock)
    BY <1>5, <1>8, <1>9
  <2>2. Exact(date, clock) \subseteq Int /\ \A t \in Exact(date, clock) : m <= t
    BY <1>1, <1>2, <1>6, <1>8
  <2>3. Min(Exact(date, clock)) = m
    BY <2>1, <2>2, MinIs
  <2> QED BY <2>1, <2>3 DEF IsResolved, CalendarDailyOccurrenceAt, m
<1>10. CASE Local(m) # n
  <2>1. change = "SPRING" /\ ChangeAt + Winter <= n /\ n < ChangeAt + Summer
    BY <1>2, <1>10
  <2>2. \A t \in Int : Local(t) # n
    <3> SUFFICES ASSUME NEW t \in Int PROVE Local(t) # n
      OBVIOUS
    <3>1. Local(t) = IF t < ChangeAt THEN t + Winter ELSE t + Summer
      BY <2>1, LocalIs
    <3> QED BY <1>1, <2>1, <3>1, Constants
  <2>3. Exact(date, clock) = {}
    BY <1>6, <1>8, <2>2
  <2>4. Local(m) \in Int
    BY <1>2, LocalIs
  <2>5. m \in AfterGap(date, clock)
    BY <1>1, <1>2, <1>5, <1>8, <1>10, <2>4
  <2>6. AfterGap(date, clock) \subseteq Int /\ \A t \in AfterGap(date, clock) : m <= t
    BY <1>1, <1>2, <1>6, <1>7, <1>8
  <2>7. Min(AfterGap(date, clock)) = m
    BY <2>5, <2>6, MinIs
  <2> QED BY <2>3, <2>5, <2>7 DEF IsResolved, CalendarDailyOccurrenceAt, m
<1> QED BY <1>9, <1>10

LEMMA FirstInstantIs ==
  ASSUME Clocks, NEW date \in Int, NEW clock \in 0 .. SlotsPerDay - 1
  PROVE  FirstInstant(date, clock) = At(date, clock)
<1> DEFINE n == date * SlotsPerDay + clock
<1> DEFINE m == At(date, clock)
<1> DEFINE T == {t \in date * SlotsPerDay - SearchWindow .. (date + 1) * SlotsPerDay :
                   BusinessDateAt(t) = date /\ BusinessClockTimeAt(t) >= clock}
<1>1. /\ date * SlotsPerDay \in Int /\ n \in Int /\ clock \in Int /\ n = date * SlotsPerDay + clock
      /\ date * SlotsPerDay <= n /\ n < date * SlotsPerDay + SlotsPerDay
      /\ (date + 1) * SlotsPerDay = date * SlotsPerDay + SlotsPerDay
  BY SlotOfDate, Constants, Products
<1>2. /\ m \in Int /\ n - Summer <= m /\ m <= n - Winter /\ n <= Local(m)
      /\ \A t \in Int : n <= Local(t) => m <= t
  BY <1>1, InstantIs DEF At
<1>3. BusinessDateAt(m) = date /\ BusinessClockTimeAt(m) = Local(m) - date * SlotsPerDay /\ Local(m) \in Int
  BY <1>2, AtIsOnItsDate, DateIs, LocalIs
<1> HIDE DEF n, m
<1>4. m \in date * SlotsPerDay - SearchWindow .. (date + 1) * SlotsPerDay
  BY <1>1, <1>2, Constants
<1>5. BusinessClockTimeAt(m) >= clock
  BY <1>1, <1>2, <1>3
<1>6. m \in T
  BY <1>3, <1>4, <1>5
<1>7. T \subseteq Int
  BY <1>1, Constants
<1>8. ASSUME NEW t \in T PROVE m <= t
  <2>1. t \in Int /\ BusinessDateAt(t) = date /\ BusinessClockTimeAt(t) >= clock
    BY <1>7
  <2>2. BusinessClockTimeAt(t) = Local(t) - date * SlotsPerDay /\ Local(t) \in Int
    BY <2>1, DateIs, LocalIs
  <2>3. n <= Local(t)
    BY <1>1, <2>1, <2>2
  <2> QED BY <1>2, <2>1, <2>3
<1>9. Min(T) = m
  BY <1>6, <1>7, <1>8, MinIs
<1> QED BY <1>9 DEF FirstInstant, m

-----------------------------------------------------------------------------
(* Dates follow each other: an instant has reached the start of a date      *)
(* exactly when its local clock has, although the clock is put back.        *)

LEMMA Reached ==
  ASSUME Clocks, NEW t \in Int, NEW date \in Int
  PROVE  At(date, 0) \in Int /\ (At(date, 0) <= t <=> date * SlotsPerDay <= Local(t))
<1> DEFINE n == date * SlotsPerDay
<1>1. n \in Int /\ n + 0 = n /\ 0 \in 0 .. SlotsPerDay - 1
  BY Constants, Products
<1>2. /\ At(date, 0) = Instant(n) /\ Instant(n) \in Int
      /\ \A u \in Int : n <= Local(u) => Instant(n) <= u
  BY <1>1, InstantIs DEF At
<1>3. ASSUME Instant(n) <= t PROVE n <= Local(t)
  <2>1. CASE change = "SPRING"
    <3>1. Local(t) = IF t < ChangeAt THEN t + Winter ELSE t + Summer
      BY <2>1, LocalIs
    <3>2. Instant(n) = IF n < ChangeAt + Winter THEN n - Winter
                       ELSE IF n < ChangeAt + Summer THEN ChangeAt ELSE n - Summer
      BY <2>1 DEF Instant
    <3> HIDE DEF n
    <3> QED BY <1>1, <1>3, <3>1, <3>2, Constants
  <2>2. CASE change = "AUTUMN"
    <3>1. Local(t) = IF t < ChangeAt THEN t + Summer ELSE t + Winter
      BY <2>2, LocalIs
    <3>2. Instant(n) = IF n < ChangeAt + Summer THEN n - Summer ELSE n - Winter
      BY <2>2 DEF Instant
    <3>3. n < ChangeAt + Summer => n <= ChangeAt + Winter
      <4>1. SUFFICES ASSUME n < ChangeAt + Summer PROVE n <= ChangeAt + Winter
        OBVIOUS
      <4>2. n < ChangeDate * SlotsPerDay + SlotsPerDay
        BY <1>1, <4>1, ChangeWithinDate, Constants
      <4>3. date <= ChangeDate
        BY <4>2, ChangeWithinDate, Constants, Products
      <4>4. n <= ChangeDate * SlotsPerDay
        BY <4>3, ChangeWithinDate, Constants, Products
      <4> QED BY <1>1, <4>4, ChangeWithinDate, Constants
    <3> HIDE DEF n
    <3> QED BY <1>1, <1>3, <3>1, <3>2, <3>3, Constants
  <2> QED BY <2>1, <2>2 DEF Clocks
<1> QED BY <1>2, <1>3

LEMMA Within ==
  ASSUME Clocks, NEW t \in Int, NEW date \in Int
  PROVE  /\ At(date, 0) <= t <=> date <= BusinessDateAt(t)
         /\ At(date + 1, 0) <= t <=> date < BusinessDateAt(t)
<1> DEFINE other == BusinessDateAt(t)
<1>1. /\ other \in Int /\ other * SlotsPerDay \in Int /\ Local(t) \in Int
      /\ other * SlotsPerDay <= Local(t) /\ Local(t) < other * SlotsPerDay + SlotsPerDay
  BY DateIs, LocalIs
<1> HIDE DEF other
<1>2. ASSUME NEW d \in Int PROVE At(d, 0) <= t <=> d <= other
  <2>1. At(d, 0) <= t <=> d * SlotsPerDay <= Local(t)
    BY Reached
  <2>2. d * SlotsPerDay \in Int
    BY Constants, Products
  <2>3. ASSUME d <= other PROVE d * SlotsPerDay <= Local(t)
    <3>1. d * SlotsPerDay <= other * SlotsPerDay
      BY <1>1, <2>3, Constants, Products
    <3> QED BY <1>1, <2>2, <3>1
  <2>4. ASSUME d * SlotsPerDay <= Local(t) PROVE d <= other
    <3>1. d * SlotsPerDay < other * SlotsPerDay + SlotsPerDay
      BY <1>1, <2>2, <2>4, Constants
    <3> QED BY <1>1, <3>1, Constants, Products
  <2> QED BY <2>1, <2>3, <2>4
<1>3. date + 1 \in Int /\ (date + 1 <= other <=> date < other)
  BY <1>1
<1> QED BY <1>2, <1>3 DEF other

LEMMA DatesFollow ==
  ASSUME Clocks, NEW t \in Int, NEW u \in Int, t <= u
  PROVE  BusinessDateAt(t) <= BusinessDateAt(u)
<1>1. BusinessDateAt(t) \in Int /\ BusinessDateAt(u) \in Int
  BY DateIs
<1>2. At(BusinessDateAt(t), 0) <= t
  BY <1>1, Within
<1>3. At(BusinessDateAt(t), 0) \in Int
  BY <1>1, Reached
<1>4. At(BusinessDateAt(t), 0) <= u
  BY <1>2, <1>3
<1> QED BY <1>1, <1>4, Within

-----------------------------------------------------------------------------
(* The next date: the first one after the schedule's own date whose         *)
(* occurrence the clock has not passed.                                     *)

LEMMA ClockPasses ==
  ASSUME Clocks, NEW clock \in 0 .. SlotsPerDay - 1, NEW date \in Int, NEW t \in Int
  PROVE  /\ date < BusinessDateAt(t) => At(date, clock) <= t
         /\ BusinessDateAt(t) < date => t < At(date, clock)
<1>1. At(date, clock) \in Int /\ BusinessDateAt(At(date, clock)) = date /\ BusinessDateAt(t) \in Int
  BY AtIsOnItsDate, DateIs
<1>2. t <= At(date, clock) => BusinessDateAt(t) <= date
  BY <1>1, DatesFollow
<1>3. At(date, clock) <= t => date <= BusinessDateAt(t)
  BY <1>1, DatesFollow
<1> QED BY <1>1, <1>2, <1>3

LEMMA NextDateIs ==
  ASSUME Clocks, time \in 0 .. SlotsPerDay - 1, NEW current \in Int, NEW boundary \in Int,
         current <= boundary
  PROVE  LET date == NextDate(current, boundary)
         IN /\ date \in Int /\ BusinessDateAt(current) < date /\ date <= BusinessDateAt(boundary) + 1
            /\ NextCalendarDailyOccurrence(current, boundary) = At(date, time)
            /\ boundary < At(date, time)
            /\ \A d \in Int : BusinessDateAt(current) < d /\ d < date => At(d, time) <= boundary
<1> DEFINE c == BusinessDateAt(current)
<1> DEFINE e == BusinessDateAt(boundary)
<1> DEFINE f == FirstDate(current, boundary)
<1> DEFINE date == NextDate(current, boundary)
<1>1. c \in Int /\ e \in Int /\ c <= e
  BY DateIs, DatesFollow
<1>2. f = IF c + 1 >= e THEN c + 1 ELSE e
  BY <1>1, MaxOfTwo DEF FirstDate
<1>3. \A d \in Int : (d < e => At(d, time) <= boundary) /\ (e < d => boundary < At(d, time))
  BY ClockPasses
<1>4. f \in Int /\ At(f, time) \in Int
  BY <1>1, <1>2, AtIsOnItsDate
<1>5. date = IF At(f, time) <= boundary THEN f + 1 ELSE f
  BY <1>4, OccurrenceIs DEF NextDate
<1>6. date \in Int
  BY <1>4, <1>5
<1>7. NextCalendarDailyOccurrence(current, boundary) = At(date, time)
  BY <1>6, OccurrenceIs DEF NextCalendarDailyOccurrence
<1> HIDE DEF c, e, f, date
<1>8. CASE At(f, time) <= boundary
  <2>1. f <= e
    BY <1>1, <1>3, <1>4, <1>8
  <2>2. date = f + 1 /\ c < date /\ date <= e + 1 /\ e < date
    BY <1>1, <1>2, <1>5, <1>8, <2>1
  <2>3. boundary < At(date, time)
    BY <1>3, <1>6, <2>2
  <2>4. ASSUME NEW d \in Int, c < d, d < date PROVE At(d, time) <= boundary
    <3>1. d = f \/ d < e
      BY <1>1, <1>2, <2>2, <2>4
    <3> QED BY <1>3, <1>8, <3>1
  <2> QED BY <1>6, <1>7, <2>2, <2>3, <2>4 DEF c, e, date
<1>9. CASE ~(At(f, time) <= boundary)
  <2>1. date = f /\ c < date /\ date <= e + 1 /\ boundary < At(date, time)
    BY <1>1, <1>2, <1>4, <1>5, <1>9
  <2>2. ASSUME NEW d \in Int, c < d, d < date PROVE At(d, time) <= boundary
    <3>1. d < e
      BY <1>1, <1>2, <2>1, <2>2
    <3> QED BY <1>3, <3>1
  <2> QED BY <1>6, <1>7, <2>1, <2>2 DEF c, e, date
<1> QED BY <1>8, <1>9

-----------------------------------------------------------------------------
(* The schedule. *)

LEMMA Shapes ==
  ASSUME CalendarTypeOK
  PROVE  /\ Clocks /\ time \in 0 .. SlotsPerDay - 1 /\ nextRunAt \in Nat
         /\ lastTick \in Nat /\ lastTick <= CalendarHorizon
<1>1. ClockTime \subseteq 0 .. SlotsPerDay - 1
  BY CalendarAssumption
<1> QED BY <1>1, Constants DEF CalendarTypeOK, Clocks

LEMMA TickIs ==
  ASSUME CalendarTypeOK, MaterializeDaily
  PROVE  /\ lastTick' \in Nat /\ lastTick' <= CalendarHorizon /\ nextRunAt <= lastTick'
         /\ nextRunAt' = At(NextDate(nextRunAt, lastTick'), time)
         /\ nextRunAt' \in Int /\ lastTick' < nextRunAt'
<1>1. lastTick' \in Nat /\ lastTick' <= CalendarHorizon /\ nextRunAt <= lastTick'
  BY Shapes, Constants DEF MaterializeDaily
<1>2. nextRunAt' = NextCalendarDailyOccurrence(nextRunAt, lastTick')
  BY DEF MaterializeDaily
<1>3. /\ NextDate(nextRunAt, lastTick') \in Int
      /\ NextCalendarDailyOccurrence(nextRunAt, lastTick') = At(NextDate(nextRunAt, lastTick'), time)
      /\ lastTick' < At(NextDate(nextRunAt, lastTick'), time)
  BY <1>1, Shapes, NextDateIs
<1>4. At(NextDate(nextRunAt, lastTick'), time) \in Int
  BY <1>3, Shapes, AtIsOnItsDate
<1> QED BY <1>1, <1>2, <1>3, <1>4

LEMMA TickIsTyped == CalendarTypeOK /\ MaterializeDaily => CalendarTypeOK'
<1> SUFFICES ASSUME CalendarTypeOK, MaterializeDaily PROVE CalendarTypeOK'
  OBVIOUS
<1> DEFINE b == lastTick'
<1> DEFINE e == BusinessDateAt(b)
<1> DEFINE date == NextDate(nextRunAt, b)
<1> DEFINE n == date * SlotsPerDay + time
<1>1. /\ b \in Nat /\ b <= CalendarHorizon /\ nextRunAt <= b /\ nextRunAt' = At(date, time)
      /\ nextRunAt' \in Int /\ b < nextRunAt'
  BY TickIs
<1>2. Clocks /\ time \in 0 .. SlotsPerDay - 1 /\ nextRunAt \in Nat
  BY Shapes
<1>3. date \in Int /\ date <= e + 1
  BY <1>1, <1>2, NextDateIs
<1>4. e \in Int /\ e * SlotsPerDay \in Int /\ e * SlotsPerDay <= Local(b)
  BY <1>1, <1>2, DateIs
<1>5. Local(b) \in Int /\ Local(b) <= b + Summer
  BY <1>1, <1>2, LocalIs, Constants DEF Clocks
<1>6. date * SlotsPerDay \in Int /\ n \in Int /\ n = date * SlotsPerDay + time
  BY <1>2, <1>3, SlotOfDate
<1>7. nextRunAt' = Instant(n)
  BY <1>1 DEF At
<1> HIDE DEF b, e, date, n
<1>8. nextRunAt' <= n - Winter
  BY <1>2, <1>6, <1>7, InstantIs
<1>9. date * SlotsPerDay <= e * SlotsPerDay + SlotsPerDay
  <2>1. date * SlotsPerDay <= (e + 1) * SlotsPerDay
    BY <1>3, <1>4, Constants, Products
  <2> QED BY <1>4, <2>1, Constants, Products
<1>10. nextRunAt' <= CalendarHorizon + 2 * SlotsPerDay + (Summer - Winter)
  <2>1. date * SlotsPerDay <= CalendarHorizon + Summer + SlotsPerDay
    BY <1>1, <1>4, <1>5, <1>6, <1>9, Constants
  <2> QED BY <1>1, <1>2, <1>6, <1>8, <2>1, Constants
<1>11. nextRunAt' \in 0 .. CalendarHorizon + 2 * SlotsPerDay + (Summer - Winter)
  BY <1>1, <1>10, Constants
<1>12. lastTick' \in 0 .. CalendarHorizon
  BY <1>1, Constants DEF b
<1>13. change' = change /\ time' = time
  BY DEF MaterializeDaily
<1> QED BY <1>11, <1>12, <1>13 DEF CalendarTypeOK

\* The schedule of the calendar has an integral instant in the future or the
\* recent past, and a clock reading (registerSchedule, nextOccurrence).
THEOREM CalendarTyped == CalendarSpec => []CalendarTypeOK
<1>1. CalendarInit => CalendarTypeOK
  BY Constants DEF CalendarInit, CalendarTypeOK
<1>2. CalendarTypeOK /\ [CalendarNext]_calendarVars => CalendarTypeOK'
  <2>1. CalendarTypeOK /\ UNCHANGED calendarVars => CalendarTypeOK'
    BY DEF CalendarTypeOK, calendarVars
  <2> QED BY <2>1, TickIsTyped DEF CalendarNext
<1> QED BY <1>1, <1>2, PTL DEF CalendarSpec

\* On every date, in the gap of spring and in the repeated hour of autumn too,
\* every clock time has the promised instant, and the windows of the dates
\* part the instants among them (calendarDailyOccurrenceAt, businessDayWindow).
THEOREM DatesResolveOnEveryDate == CalendarSpec => [](OccurrencesResolve /\ WindowsPartition)
<1>1. CalendarTypeOK => OccurrencesResolve
  <2> SUFFICES ASSUME CalendarTypeOK PROVE OccurrencesResolve
    OBVIOUS
  <2>1. Clocks /\ time \in 0 .. SlotsPerDay - 1 /\ nextRunAt \in Int
    BY Shapes
  <2>2. BusinessDateAt(nextRunAt) \in Int
    BY <2>1, DateIs
  <2> QED BY <2>1, <2>2, OccurrenceIs, FirstInstantIs DEF OccurrencesResolve
<1>2. CalendarTypeOK => WindowsPartition
  <2> SUFFICES ASSUME CalendarTypeOK,
                      NEW date \in BusinessDateAt(nextRunAt) - 1 .. BusinessDateAt(nextRunAt) + 1
               PROVE  LET window == BusinessDayWindow(date)
                      IN window.startsAt <= nextRunAt /\ nextRunAt < window.endsAt
                           <=> date = BusinessDateAt(nextRunAt)
    BY DEF WindowsPartition
  <2>1. Clocks /\ nextRunAt \in Int
    BY Shapes
  <2>2. BusinessDateAt(nextRunAt) \in Int /\ date \in Int /\ date + 1 \in Int /\ 0 \in 0 .. SlotsPerDay - 1
    BY <2>1, DateIs, Constants
  <2>3. BusinessDayWindow(date).startsAt = At(date, 0) /\ BusinessDayWindow(date).endsAt = At(date + 1, 0)
    BY <2>1, <2>2, OccurrenceIs DEF BusinessDayWindow
  <2>4. At(date + 1, 0) \in Int
    BY <2>1, <2>2, Reached
  <2>5. nextRunAt < At(date + 1, 0) <=> ~(At(date + 1, 0) <= nextRunAt)
    BY <2>1, <2>4
  <2>6. /\ At(date, 0) <= nextRunAt <=> date <= BusinessDateAt(nextRunAt)
        /\ At(date + 1, 0) <= nextRunAt <=> date < BusinessDateAt(nextRunAt)
    BY <2>1, <2>2, Within
  <2> QED BY <2>2, <2>3, <2>5, <2>6
<1> QED BY <1>1, <1>2, CalendarTyped, PTL

(* A tick moves the schedule to the first occurrence behind the clock       *)
(* reading on a later date, and it has missed one exactly if it passes over *)
(* the occurrence that follows its own (nextOccurrence).                    *)
LEMMA OccurrencesIncrease ==
  ASSUME Clocks, NEW clock \in 0 .. SlotsPerDay - 1, NEW d \in Int, NEW e \in Int, d < e
  PROVE  At(d, clock) < At(e, clock)
<1>1. /\ At(d, clock) \in Int /\ BusinessDateAt(At(d, clock)) = d
      /\ At(e, clock) \in Int /\ BusinessDateAt(At(e, clock)) = e
  BY AtIsOnItsDate
<1>2. At(e, clock) <= At(d, clock) => e <= d
  BY <1>1, DatesFollow
<1> QED BY <1>1, <1>2

LEMMA MovesToFirst ==
  ASSUME CalendarTypeOK, MaterializeDaily
  PROVE  nextRunAt' =
           Min({t \in {FirstInstant(date, time) :
                         date \in BusinessDateAt(nextRunAt) + 1 .. BusinessDateAt(nextRunAt') + 1} :
                  t > lastTick'})
<1> DEFINE b == lastTick'
<1> DEFINE c == BusinessDateAt(nextRunAt)
<1> DEFINE next == NextDate(nextRunAt, b)
<1> DEFINE D == c + 1 .. BusinessDateAt(nextRunAt') + 1
<1> DEFINE T == {t \in {FirstInstant(date, time) : date \in D} : t > b}
<1>1. b \in Nat /\ nextRunAt <= b /\ nextRunAt' = At(next, time) /\ nextRunAt' \in Int /\ b < nextRunAt'
  BY TickIs
<1>2. Clocks /\ time \in 0 .. SlotsPerDay - 1 /\ nextRunAt \in Nat
  BY Shapes
<1>3. /\ next \in Int /\ c < next
      /\ \A d \in Int : c < d /\ d < next => At(d, time) <= b
  BY <1>1, <1>2, NextDateIs
<1>4. c \in Int
  BY <1>2, DateIs
<1>5. BusinessDateAt(nextRunAt') = next
  <2>1. BusinessDateAt(At(next, time)) = next
    BY <1>2, <1>3, AtIsOnItsDate
  <2> QED BY <1>1, <2>1
<1> HIDE DEF b, c, next
<1>6. D = c + 1 .. next + 1 /\ D \subseteq Int /\ next \in D
  BY <1>3, <1>4, <1>5
<1>7. \A d \in D : FirstInstant(d, time) = At(d, time) /\ At(d, time) \in Int
  BY <1>2, <1>6, FirstInstantIs, AtIsOnItsDate
<1>8. nextRunAt' \in T /\ T \subseteq Int
  BY <1>1, <1>6, <1>7
<1>9. ASSUME NEW t \in T PROVE nextRunAt' <= t
  <2>1. PICK d \in D : t = At(d, time) /\ t > b /\ t \in Int
    BY <1>7
  <2>2. d \in Int /\ c < d
    BY <1>4, <1>6, <2>1
  <2>3. ~(d < next)
    BY <1>1, <1>3, <2>1, <2>2
  <2>4. next < d => At(next, time) < At(d, time)
    BY <1>2, <1>3, <2>2, OccurrencesIncrease
  <2> QED BY <1>1, <1>3, <2>1, <2>2, <2>3, <2>4
<1>10. Min(T) = nextRunAt'
  BY <1>8, <1>9, MinIs
<1> QED BY <1>10 DEF b, c

LEMMA MissedIfPassedOver ==
  ASSUME CalendarTypeOK, MaterializeDaily
  PROVE  MissedDaily(lastTick') <=> nextRunAt' # NextCalendarDailyOccurrence(nextRunAt, nextRunAt)
<1> DEFINE b == lastTick'
<1> DEFINE c == BusinessDateAt(nextRunAt)
<1> DEFINE next == NextDate(nextRunAt, b)
<1> DEFINE following == NextDate(nextRunAt, nextRunAt)
<1>1. b \in Nat /\ nextRunAt <= b /\ nextRunAt' = At(next, time) /\ nextRunAt' \in Int /\ b < nextRunAt'
  BY TickIs
<1>2. Clocks /\ time \in 0 .. SlotsPerDay - 1 /\ nextRunAt \in Int
  BY Shapes
<1>3. next \in Int /\ c < next /\ \A d \in Int : c < d /\ d < next => At(d, time) <= b
  BY <1>1, <1>2, NextDateIs
<1>4. /\ following \in Int /\ c < following /\ following <= c + 1
      /\ NextCalendarDailyOccurrence(nextRunAt, nextRunAt) = At(following, time)
  BY <1>2, NextDateIs
<1>5. c \in Int
  BY <1>2, DateIs
<1> HIDE DEF c, next, following
<1>6. At(following, time) \in Int /\ (following < next \/ following = next)
  <2>1. following \in Int
    BY <1>4
  <2>2. At(following, time) \in Int
    BY <1>2, <2>1, AtIsOnItsDate
  <2> QED BY <1>3, <1>4, <1>5, <2>2
<1>7. MissedDaily(lastTick') <=> NextCalendarDailyOccurrence(nextRunAt, nextRunAt) <= lastTick'
  BY DEF MissedDaily
<1>8. CASE following < next
  BY <1>1, <1>3, <1>4, <1>6, <1>7, <1>8 DEF b
<1>9. CASE following = next
  BY <1>1, <1>4, <1>6, <1>7, <1>9 DEF b
<1> QED BY <1>6, <1>8, <1>9

\* Where a daily schedule goes, and what it leaves behind: to the first
\* occurrence behind the clock reading on a later date, passing over those that
\* are missed and no other (nextOccurrence, isMissed).
THEOREM OccurrencesFollowHolds == CalendarSpec => OccurrencesFollow
<1>1. CalendarTypeOK /\ [CalendarNext]_calendarVars =>
        [calendarVars' # calendarVars =>
           nextRunAt' =
             Min({t \in {FirstInstant(date, time) :
                           date \in BusinessDateAt(nextRunAt) + 1 .. BusinessDateAt(nextRunAt') + 1} :
                    t > lastTick'})]_calendarVars
  BY MovesToFirst DEF CalendarNext
<1>2. CalendarTypeOK /\ [CalendarNext]_calendarVars =>
        [calendarVars' # calendarVars =>
           (MissedDaily(lastTick')
              <=> nextRunAt' # NextCalendarDailyOccurrence(nextRunAt, nextRunAt))]_calendarVars
  BY MissedIfPassedOver DEF CalendarNext
<1>3. CalendarSpec => MovesToFirstFollowing
  BY <1>1, CalendarTyped, PTL DEF CalendarSpec, MovesToFirstFollowing
<1>4. CalendarSpec => MissedIsPassedOver
  BY <1>2, CalendarTyped, PTL DEF CalendarSpec, MissedIsPassedOver
<1> QED BY <1>3, <1>4 DEF OccurrencesFollow

=============================================================================
