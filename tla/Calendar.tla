------------------------------ MODULE Calendar ------------------------------
(***************************************************************************)
(* A clock with a calendar: what the fields of a struct xi_tm (xi_time.h)  *)
(* show while time goes on, second by second.  It knows nothing of the     *)
(* number of seconds since 1970 the library computes with; each tick only  *)
(* carries from one field to the next.                                     *)
(***************************************************************************)
EXTENDS Naturals

CONSTANTS
    SecsPerMin, MinsPerHour, HoursPerDay,
    Starts   \* the dates the clock may be set to

VARIABLE date  \* a record of year, mon, mday, hour, min, sec, wday and yday

vars == date

\* Years are counted from 1900, months, days of the week and of the year from
\* 0, days of the month from 1.
IsLeap(year) ==
    LET y == year + 1900
    IN  y % 400 = 0 \/ (y % 4 = 0 /\ y % 100 # 0)

MonthDays(year) ==
    <<31, IF IsLeap(year) THEN 29 ELSE 28, 31, 30, 31, 30, 31, 31, 30, 31, 30, 31>>

Init == date \in Starts

At(hour, min, sec) ==
    [year |-> date.year, mon |-> date.mon, mday |-> date.mday, wday |-> date.wday,
     yday |-> date.yday, hour |-> hour, min |-> min, sec |-> sec]

NextDay ==
    LET endOfMonth == date.mday = MonthDays(date.year)[date.mon + 1]
        endOfYear == endOfMonth /\ date.mon = 11
    IN  [year |-> IF endOfYear THEN date.year + 1 ELSE date.year,
         mon  |-> IF endOfYear THEN 0 ELSE IF endOfMonth THEN date.mon + 1 ELSE date.mon,
         mday |-> IF endOfMonth THEN 1 ELSE date.mday + 1,
         wday |-> (date.wday + 1) % 7,
         yday |-> IF endOfYear THEN 0 ELSE date.yday + 1,
         hour |-> 0, min |-> 0, sec |-> 0]

Tick ==
    date' =
        IF date.sec + 1 < SecsPerMin THEN At(date.hour, date.min, date.sec + 1)
        ELSE IF date.min + 1 < MinsPerHour THEN At(date.hour, date.min + 1, 0)
        ELSE IF date.hour + 1 < HoursPerDay THEN At(date.hour + 1, 0, 0)
        ELSE NextDay

Spec == Init /\ [][Tick]_vars
=============================================================================
