------------------------------- MODULE XiTime -------------------------------
(***************************************************************************)
(* xi_mktime and xi_gmtime (xi_time.c): seconds since 1970 to the fields   *)
(* of a struct xi_tm and back.  The lengths of a minute, an hour and a day *)
(* and the widths of the C types are parameters, so that a few hundred     *)
(* years fit TLC's integers; the lengths of months and years are real.     *)
(***************************************************************************)
EXTENDS Integers, Sequences

CONSTANTS
    SecsPerMin, MinsPerHour, HoursPerDay,  \* 60, 60 and 24
    IntMax, LongMax                        \* of int, and of long and xi_time_t

\* An int is as wide as a long, or narrower by some bits.
ASSUME TimeAssumption ==
    /\ {SecsPerMin, MinsPerHour, HoursPerDay, IntMax, LongMax} \subseteq Nat \ {0}
    /\ SecsPerMin * MinsPerHour * HoursPerDay >= 3
    /\ IntMax <= LongMax /\ (LongMax + 1) % (IntMax + 1) = 0

EPOCH_YR == 1970
YEAR0 == 1900
SecsPerHour == SecsPerMin * MinsPerHour
SECS_DAY == SecsPerHour * HoursPerDay
ULongMax == 2 * LongMax + 1

\* The value of n in a signed type of the given maximum.
Wrapped(n, max) == ((n + max + 1) % (2 * (max + 1))) - (max + 1)

\* Mutant: centuries are years like others.
EveryFourth(year) == year % 4 = 0

LEAPYEAR(year) == year % 4 = 0 /\ (year % 100 # 0 \/ year % 400 = 0)

YEARSIZE(year) == IF LEAPYEAR(year) THEN 366 ELSE 365

\* The row of _ytab for a year; months are counted from 0.
ytab(year) ==
    [month \in 0 .. 11 |->
        IF month = 1 THEN IF LEAPYEAR(year) THEN 29 ELSE 28
        ELSE IF month \in {3, 5, 8, 10} THEN 30 ELSE 31]

-----------------------------------------------------------------------------
\* The loops that bring a day, counted from 0, into its month: back over months
\* as long as it is negative, on as long as it lies beyond the month's end.
DayOfMonth == [year : Int, mon : 0 .. 11, day : Int]

BackMonths[s \in DayOfMonth] ==
    LET mon == IF s.mon = 0 THEN 11 ELSE s.mon - 1
        year == IF s.mon = 0 THEN s.year - 1 ELSE s.year
    IN  IF s.day >= 0 THEN s
        ELSE BackMonths[[year |-> year, mon |-> mon, day |-> s.day + ytab(YEAR0 + year)[mon]]]

OnMonths[s \in DayOfMonth] ==
    LET length == ytab(YEAR0 + s.year)[s.mon]
    IN  IF s.day < length THEN s
        ELSE OnMonths[[year |-> IF s.mon = 11 THEN s.year + 1 ELSE s.year,
                       mon |-> IF s.mon = 11 THEN 0 ELSE s.mon + 1, day |-> s.day - length]]

-----------------------------------------------------------------------------
\* The loops of xi_gmtime, over the years and over the months of a year; the
\* day lies in the year, so the loop of xi_mktime stays in it too.
DayOfYear == [year : Nat, yday : Nat]

YearOf[s \in DayOfYear] ==
    IF s.yday < YEARSIZE(s.year) THEN s
    ELSE YearOf[[year |-> s.year + 1, yday |-> s.yday - YEARSIZE(s.year)]]

MonthOf(s) == OnMonths[[year |-> s.year - YEAR0, mon |-> 0, day |-> s.yday]]

\* A negative time is taken for an unsigned one.
xi_gmtime(time) ==
    LET clock == time % (ULongMax + 1)
        dayclock == clock % SECS_DAY
        dayno == clock \div SECS_DAY
        y == YearOf[[year |-> EPOCH_YR, yday |-> dayno]]
        m == MonthOf(y)
    IN  [sec |-> dayclock % SecsPerMin, min |-> (dayclock % SecsPerHour) \div SecsPerMin,
         hour |-> dayclock \div SecsPerHour, mday |-> m.day + 1, mon |-> m.mon,
         year |-> m.year, wday |-> (dayno + 4) % 7, yday |-> y.yday]

-----------------------------------------------------------------------------
\* Every field is carried to the next larger one; the division of C with the
\* correction for negative remainders is \div and %.
Normalised(tm) ==
    LET min == tm.min + tm.sec \div SecsPerMin
        hour == tm.hour + min \div MinsPerHour
        d == OnMonths[BackMonths[[year |-> tm.year + tm.mon \div 12, mon |-> tm.mon % 12,
                                  day |-> hour \div HoursPerDay + tm.mday - 1]]]
    IN  [sec |-> tm.sec % SecsPerMin, min |-> min % MinsPerHour,
         hour |-> hour % HoursPerDay, mday |-> d.day + 1, mon |-> d.mon, year |-> d.year]

\* The remainder of a year by 4, 100 or 400 lies in front of that of 1970.
Before(year, period) ==
    IF year % period # 0 /\ year % period < EPOCH_YR % period THEN 1 ELSE 0

\* Mutant: what the remainders add is left out.
LeapDaysShort(year) ==
    LET n == year - EPOCH_YR
    IN  n \div 4 - n \div 100 + n \div 400

\* Leap days of the years from 1970 on.
LeapDays(year) ==
    LET n == year - EPOCH_YR
    IN  (n \div 4 + Before(year, 4)) - (n \div 100 + Before(year, 100))
          + (n \div 400 + Before(year, 400))

\* The days of a year in front of a month.
DaysTo(year) ==
    LET to[mon \in 0 .. 12] == IF mon = 0 THEN 0 ELSE to[mon - 1] + ytab(year)[mon - 1]
    IN  to

\* -1 for a time before 1970 or one that does not fit.  The last test of
\* the code compares a long with itself.
xi_mktime(timep) ==
    LET tm == Normalised(timep)
        year == tm.year + YEAR0
        n == year - EPOCH_YR
        day == n * 365 + LeapDays(year) + DaysTo(year)[tm.mon] + tm.mday - 1
        seconds == (tm.hour * MinsPerHour + tm.min) * SecsPerMin + tm.sec
        overflow == \/ LongMax \div 365 < n
                    \/ LongMax - n * 365 < n \div 4 + 1
                    \/ (ULongMax - seconds) \div SECS_DAY < day
    IN  IF year < EPOCH_YR \/ overflow THEN -1
        ELSE Wrapped(seconds + day * SECS_DAY, LongMax)
=============================================================================
