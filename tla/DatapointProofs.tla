-------------------------- MODULE DatapointProofs --------------------------
(***************************************************************************)
(* Proofs about Datapoint and the time it is stamped with (XiTime).  From  *)
(* the loops over years and months to what xi_gmtime and xi_mktime say by  *)
(* the calendar; from characters and digits to what csv_decode_value reads *)
(* of a text; then the invariants.                                         *)
(***************************************************************************)
EXTENDS Datapoint, Recursion, SequenceTheorems, TLAPS

-----------------------------------------------------------------------------
(***************************************************************************)
(* The loops over years and months                                         *)
(***************************************************************************)
\* The sizes of years and of months.
LEMMA YearSizes == \A year \in Int : YEARSIZE(year) \in {365, 366}
  BY DEF YEARSIZE

LEMMA MonthSizes ==
  ASSUME NEW year \in Int, NEW mon \in 0 .. 11
  PROVE  ytab(year)[mon] \in 28 .. 31
  BY DEF ytab

\* The recursive functions of XiTime are what their loops do: the rounds of
\* the loop over years end, and so do those over months.
LEMMA YearOfStep ==
  ASSUME NEW s \in DayOfYear
  PROVE  YearOf[s] = IF s.yday < YEARSIZE(s.year) THEN s
                     ELSE YearOf[[year |-> s.year + 1, yday |-> s.yday - YEARSIZE(s.year)]]
<1> DEFINE P == {t \in DayOfYear : ~(t.yday < YEARSIZE(t.year))}
           measure == [t \in DayOfYear |-> t.yday]
           next == [t \in P |-> [year |-> t.year + 1, yday |-> t.yday - YEARSIZE(t.year)]]
           U(f) == f = [t \in DayOfYear |-> IF t.yday < YEARSIZE(t.year) THEN t
                          ELSE f[[year |-> t.year + 1, yday |-> t.yday - YEARSIZE(t.year)]]]
<1>1. \A t \in DayOfYear : t.year \in Nat /\ t.yday \in Nat /\ YEARSIZE(t.year) \in {365, 366}
  BY YearSizes DEF DayOfYear
<1>2. measure \in [DayOfYear -> Nat] /\ next \in [P -> DayOfYear] /\ P \in SUBSET DayOfYear
  BY <1>1 DEF DayOfYear
<1>3. \A t \in P : measure[next[t]] < measure[t]
  <2>1. ASSUME NEW t \in P PROVE measure[next[t]] < measure[t]
    <3>1. next[t] \in DayOfYear /\ next[t].yday = t.yday - YEARSIZE(t.year)
      BY <1>2
    <3> HIDE DEF next
    <3>2. measure[next[t]] = next[t].yday /\ measure[t] = t.yday
      BY <3>1
    <3>3. QED BY <1>1, <3>1, <3>2
  <2>2. QED BY <2>1
<1>4. PICK f : LoopOf(f, DayOfYear, P, next)
  <2>1. Descends(DayOfYear, P, next, measure)
    BY <1>2, <1>3 DEF Descends
  <2> HIDE DEF P, measure, next
  <2>2. QED BY <2>1, LoopExists
<1>5. U(f)
  <2> DEFINE g == [t \in DayOfYear |-> IF t.yday < YEARSIZE(t.year) THEN t
                          ELSE f[[year |-> t.year + 1, yday |-> t.yday - YEARSIZE(t.year)]]]
  <2>1. \A t \in DayOfYear : f[t] = g[t]
    BY <1>4 DEF LoopOf
  <2>2. f = g
    <3> HIDE DEF g
    <3>1. g = [t \in DayOfYear |-> g[t]]
      BY DEF g
    <3>2. QED BY <1>4, <2>1, <3>1 DEF LoopOf
  <2>3. QED BY <2>2
<1>6. U(YearOf)
  <2> HIDE DEF U
  <2>1. U(CHOOSE g : U(g))
    BY <1>5
  <2>2. YearOf = CHOOSE g : U(g)
    BY DEF YearOf, U, DayOfYear
  <2>3. QED BY <2>1, <2>2
<1>7. QED BY <1>6

\* A round of each of the loops over months.
NextMonth(s) ==
    [year |-> IF s.mon = 11 THEN s.year + 1 ELSE s.year,
     mon |-> IF s.mon = 11 THEN 0 ELSE s.mon + 1, day |-> s.day - ytab(YEAR0 + s.year)[s.mon]]

MonthBack(s) ==
    LET mon == IF s.mon = 0 THEN 11 ELSE s.mon - 1
        year == IF s.mon = 0 THEN s.year - 1 ELSE s.year
    IN  [year |-> year, mon |-> mon, day |-> s.day + ytab(YEAR0 + year)[mon]]

\* A round of either loop over months keeps to dates, and moves the day by the
\* size of a month.
LEMMA RoundsTyped ==
  ASSUME NEW s \in DayOfMonth
  PROVE  /\ s.year \in Int /\ s.mon \in 0 .. 11 /\ s.day \in Int
         /\ ytab(YEAR0 + s.year)[s.mon] \in 28 .. 31
         /\ NextMonth(s) \in DayOfMonth
         /\ NextMonth(s).day = s.day - ytab(YEAR0 + s.year)[s.mon]
         /\ MonthBack(s) \in DayOfMonth
         /\ MonthBack(s).day \in s.day + 28 .. s.day + 31
<1>1. s.year \in Int /\ s.mon \in 0 .. 11 /\ s.day \in Int
  BY DEF DayOfMonth
<1>2. YEAR0 + s.year \in Int
  BY <1>1 DEF YEAR0
<1>3. ytab(YEAR0 + s.year)[s.mon] \in 28 .. 31
  BY <1>1, <1>2, MonthSizes
<1>4. NextMonth(s) \in DayOfMonth /\ NextMonth(s).day = s.day - ytab(YEAR0 + s.year)[s.mon]
  <2> DEFINE m == IF s.mon = 11 THEN 0 ELSE s.mon + 1
             y == IF s.mon = 11 THEN s.year + 1 ELSE s.year
             d == s.day - ytab(YEAR0 + s.year)[s.mon]
  <2>1. m \in 0 .. 11 /\ y \in Int /\ d \in Int
    BY <1>1, <1>3
  <2>2. NextMonth(s) = [year |-> y, mon |-> m, day |-> d]
    BY DEF NextMonth
  <2> HIDE DEF y, m, d
  <2>3. NextMonth(s) \in DayOfMonth /\ NextMonth(s).day = d
    BY <2>1, <2>2 DEF DayOfMonth
  <2>4. QED BY <2>3 DEF d
<1> DEFINE mon == IF s.mon = 0 THEN 11 ELSE s.mon - 1
           year == IF s.mon = 0 THEN s.year - 1 ELSE s.year
<1>5. year \in Int /\ mon \in 0 .. 11 /\ ytab(YEAR0 + year)[mon] \in 28 .. 31
  <2>1. year \in Int /\ mon \in 0 .. 11 /\ YEAR0 + year \in Int
    BY <1>1, <1>2 DEF YEAR0
  <2> HIDE DEF year, mon
  <2>2. QED BY <2>1, MonthSizes
<1>6. MonthBack(s) = [year |-> year, mon |-> mon, day |-> s.day + ytab(YEAR0 + year)[mon]]
  BY DEF MonthBack
<1> HIDE DEF year, mon
<1>7. MonthBack(s) \in DayOfMonth /\ MonthBack(s).day \in s.day + 28 .. s.day + 31
  BY <1>1, <1>5, <1>6 DEF DayOfMonth
<1>8. QED BY <1>1, <1>3, <1>4, <1>7

LEMMA OnMonthsStep ==
  ASSUME NEW s \in DayOfMonth
  PROVE  OnMonths[s] = IF s.day < ytab(YEAR0 + s.year)[s.mon] THEN s ELSE OnMonths[NextMonth(s)]
<1> DEFINE P == {t \in DayOfMonth : ~(t.day < ytab(YEAR0 + t.year)[t.mon])}
           measure == [t \in DayOfMonth |-> IF t.day < 0 THEN 0 ELSE t.day]
           next == [t \in P |-> NextMonth(t)]
           body(f, t) == LET length == ytab(YEAR0 + t.year)[t.mon]
                         IN  IF t.day < length THEN t
                             ELSE f[[year |-> IF t.mon = 11 THEN t.year + 1 ELSE t.year,
                                     mon |-> IF t.mon = 11 THEN 0 ELSE t.mon + 1, day |-> t.day - length]]
           U(f) == f = [t \in DayOfMonth |-> body(f, t)]
<1>1. Descends(DayOfMonth, P, next, measure)
  <2>1. \A t \in DayOfMonth : t.day \in Int /\ NextMonth(t) \in DayOfMonth
    BY RoundsTyped
  <2>2. measure \in [DayOfMonth -> Nat]
    <3>1. \A t \in DayOfMonth : (IF t.day < 0 THEN 0 ELSE t.day) \in Nat
      BY <2>1
    <3>2. QED BY <3>1
  <2>3. next \in [P -> DayOfMonth]
    BY <2>1
  <2>4. ASSUME NEW t \in P PROVE measure[next[t]] < measure[t]
    <3>1. next[t] = NextMonth(t) /\ NextMonth(t) \in DayOfMonth /\ t \in DayOfMonth
      BY <2>1
    <3> HIDE DEF next
    <3>2. measure[next[t]] = IF NextMonth(t).day < 0 THEN 0 ELSE NextMonth(t).day
      BY <3>1
    <3>3. measure[t] = IF t.day < 0 THEN 0 ELSE t.day
      OBVIOUS
    <3>4. t.day \in Int /\ ~(t.day < ytab(YEAR0 + t.year)[t.mon])
          /\ ytab(YEAR0 + t.year)[t.mon] \in 28 .. 31
          /\ NextMonth(t).day = t.day - ytab(YEAR0 + t.year)[t.mon]
      BY <3>1, RoundsTyped
    <3> HIDE DEF measure
    <3>5. QED BY <3>2, <3>3, <3>4
  <2>5. QED BY <2>2, <2>3, <2>4 DEF Descends
<1>2. PICK f : LoopOf(f, DayOfMonth, P, next)
  <2> HIDE DEF P, measure, next
  <2>1. QED BY <1>1, LoopExists
<1>3. U(f)
  <2> DEFINE g == [t \in DayOfMonth |-> body(f, t)]
  <2>1. \A t \in DayOfMonth : f[t] = g[t]
    BY <1>2 DEF LoopOf, NextMonth
  <2>2. f = g
    <3>1. g = [t \in DayOfMonth |-> g[t]]
      OBVIOUS
    <3> HIDE DEF g
    <3>2. QED BY <1>2, <2>1, <3>1 DEF LoopOf
  <2>3. QED BY <2>2
<1>4. U(OnMonths)
  <2> HIDE DEF U
  <2>1. U(CHOOSE g : U(g))
    BY <1>3
  <2>2. OnMonths = CHOOSE g : U(g)
    BY DEF OnMonths, U
  <2>3. QED BY <2>1, <2>2
<1>5. QED BY <1>4 DEF NextMonth

LEMMA BackMonthsStep ==
  ASSUME NEW s \in DayOfMonth
  PROVE  BackMonths[s] = IF s.day >= 0 THEN s ELSE BackMonths[MonthBack(s)]
<1> DEFINE P == {t \in DayOfMonth : ~(t.day >= 0)}
           measure == [t \in DayOfMonth |-> IF t.day < 0 THEN -t.day ELSE 0]
           next == [t \in P |-> MonthBack(t)]
           body(f, t) == LET mon == IF t.mon = 0 THEN 11 ELSE t.mon - 1
                             year == IF t.mon = 0 THEN t.year - 1 ELSE t.year
                         IN  IF t.day >= 0 THEN t
                             ELSE f[[year |-> year, mon |-> mon,
                                     day |-> t.day + ytab(YEAR0 + year)[mon]]]
           U(f) == f = [t \in DayOfMonth |-> body(f, t)]
<1>1. Descends(DayOfMonth, P, next, measure)
  <2>1. \A t \in DayOfMonth : t.day \in Int /\ MonthBack(t) \in DayOfMonth
    BY RoundsTyped
  <2>2. measure \in [DayOfMonth -> Nat]
    <3>1. \A t \in DayOfMonth : (IF t.day < 0 THEN -t.day ELSE 0) \in Nat
      BY <2>1
    <3>2. QED BY <3>1
  <2>3. next \in [P -> DayOfMonth]
    BY <2>1
  <2>4. ASSUME NEW t \in P PROVE measure[next[t]] < measure[t]
    <3>1. next[t] = MonthBack(t) /\ MonthBack(t) \in DayOfMonth /\ t \in DayOfMonth
      BY <2>1
    <3> HIDE DEF next
    <3>2. measure[next[t]] = IF MonthBack(t).day < 0 THEN -MonthBack(t).day ELSE 0
      BY <3>1
    <3>3. measure[t] = IF t.day < 0 THEN -t.day ELSE 0
      OBVIOUS
    <3>4. t.day \in Int /\ ~(t.day >= 0) /\ MonthBack(t).day \in t.day + 28 .. t.day + 31
      BY <3>1, RoundsTyped
    <3> HIDE DEF measure
    <3>5. QED BY <3>2, <3>3, <3>4
  <2>5. QED BY <2>2, <2>3, <2>4 DEF Descends
<1>2. PICK f : LoopOf(f, DayOfMonth, P, next)
  <2> HIDE DEF P, measure, next
  <2>1. QED BY <1>1, LoopExists
<1>3. U(f)
  <2> DEFINE g == [t \in DayOfMonth |-> body(f, t)]
  <2>1. \A t \in DayOfMonth : f[t] = g[t]
    BY <1>2 DEF LoopOf, MonthBack
  <2>2. f = g
    <3>1. g = [t \in DayOfMonth |-> g[t]]
      OBVIOUS
    <3> HIDE DEF g
    <3>2. QED BY <1>2, <2>1, <3>1 DEF LoopOf
  <2>3. QED BY <2>2
<1>4. U(BackMonths)
  <2> HIDE DEF U
  <2>1. U(CHOOSE g : U(g))
    BY <1>3
  <2>2. BackMonths = CHOOSE g : U(g)
    BY DEF BackMonths, U
  <2>3. QED BY <2>1, <2>2
<1>5. QED BY <1>4 DEF MonthBack

-----------------------------------------------------------------------------
(***************************************************************************)
(* Days since the beginning of the calendar                                *)
(***************************************************************************)
\* The days in front of a year, and in front of a day.
DaysBefore(year) == 365 * year + Leaps(year - 1)

DayCount(s) == DaysBefore(YEAR0 + s.year) + DaysTo(YEAR0 + s.year)[s.mon] + s.day

\* A year is as long as YEARSIZE says, a month as _ytab does.
LEMMA DaysBeforeNext ==
  ASSUME NEW year \in Int
  PROVE  /\ DaysBefore(year) \in Int
         /\ DaysBefore(year + 1) = DaysBefore(year) + YEARSIZE(year)
<1>1. (year + 1) - 1 = year /\ year - 1 \in Int
  OBVIOUS
<1>2. /\ year \div 4 - (year - 1) \div 4 = (IF year % 4 = 0 THEN 1 ELSE 0)
      /\ year \div 100 - (year - 1) \div 100 = (IF year % 100 = 0 THEN 1 ELSE 0)
      /\ year \div 400 - (year - 1) \div 400 = (IF year % 400 = 0 THEN 1 ELSE 0)
  OBVIOUS
<1>3. (year % 400 = 0 => year % 100 = 0) /\ (year % 100 = 0 => year % 4 = 0)
  OBVIOUS
<1>4. Leaps(year) \in Int /\ Leaps(year - 1) \in Int
      /\ Leaps(year) - Leaps(year - 1) = IF LEAPYEAR(year) THEN 1 ELSE 0
  BY <1>2, <1>3 DEF Leaps, LEAPYEAR
<1>5. QED BY <1>1, <1>4 DEF DaysBefore, YEARSIZE

LEMMA DaysToMonths ==
  ASSUME NEW year \in Int
  PROVE  /\ DaysTo(year)[0] = 0
         /\ \A mon \in 0 .. 12 : DaysTo(year)[mon] \in Nat
         /\ \A mon \in 0 .. 11 : DaysTo(year)[mon + 1] = DaysTo(year)[mon] + ytab(year)[mon]
         /\ DaysTo(year)[12] = YEARSIZE(year)
<1> DEFINE step == [mon \in 1 .. 12 |-> [n \in Nat |-> n + ytab(year)[mon - 1]]]
           U(f) == f = [mon \in 0 .. 12 |-> IF mon = 0 THEN 0 ELSE f[mon - 1] + ytab(year)[mon - 1]]
<1>1. \A mon \in 1 .. 12 : mon - 1 \in 0 .. 11 /\ ytab(year)[mon - 1] \in 28 .. 31
  <2>1. \A mon \in 1 .. 12 : mon - 1 \in 0 .. 11
    OBVIOUS
  <2>2. QED BY <2>1, MonthSizes
<1>2. PICK f : Iterates(f, 12, Nat, 0, step)
  <2> DEFINE V == Nat
             first == 0
             n == 12
  <2>1. step \in [1 .. 12 -> [Nat -> Nat]]
    BY <1>1
  <2>2. first \in V /\ n \in Nat /\ step \in Steps(n, V)
    BY <2>1 DEF Steps
  <2> HIDE DEF step, n, V, first
  <2>3. \E f : Iterates(f, n, V, first, step)
    BY <2>2, IntervalRecursion
  <2>4. QED BY <2>3 DEF n, V, first
<1>3. ASSUME NEW mon \in 1 .. 12 PROVE f[mon] = f[mon - 1] + ytab(year)[mon - 1]
  <2>1. mon - 1 \in 0 .. 12
    OBVIOUS
  <2>2. f[mon - 1] \in Nat
    BY <1>2, <2>1 DEF Iterates
  <2>3. QED BY <1>2, <2>2 DEF Iterates
<1>4. U(f)
  <2> DEFINE g == [mon \in 0 .. 12 |-> IF mon = 0 THEN 0 ELSE f[mon - 1] + ytab(year)[mon - 1]]
  <2>1. \A mon \in 0 .. 12 : f[mon] = g[mon]
    BY <1>2, <1>3 DEF Iterates
  <2>2. f = g
    <3>1. g = [mon \in 0 .. 12 |-> g[mon]]
      OBVIOUS
    <3> HIDE DEF g
    <3>2. QED BY <1>2, <2>1, <3>1 DEF Iterates
  <2>3. QED BY <2>2
<1> DEFINE to == CHOOSE g : U(g)
<1>5. U(to)
  <2> HIDE DEF U
  <2>1. QED BY <1>4
<1>6. DaysTo(year) = to
  BY DEF DaysTo
<1>7. \A mon \in 0 .. 12 : to[mon] = IF mon = 0 THEN 0 ELSE to[mon - 1] + ytab(year)[mon - 1]
  <2> HIDE DEF to
  <2>1. QED BY <1>5
<1> HIDE DEF to, U
<1>8. to[0] = 0
  BY <1>7
<1>9. ASSUME NEW mon \in 0 .. 11 PROVE to[mon + 1] = to[mon] + ytab(year)[mon]
  <2>1. mon + 1 \in 0 .. 12 /\ mon + 1 # 0 /\ (mon + 1) - 1 = mon
    OBVIOUS
  <2>2. to[mon + 1] = to[(mon + 1) - 1] + ytab(year)[(mon + 1) - 1]
    BY <1>7, <2>1
  <2>3. QED BY <2>1, <2>2
<1>10. \A mon \in 0 .. 12 : to[mon] \in Nat
  <2> DEFINE T == {mon \in 0 .. 12 : to[mon] \in Nat}
  <2>1. 0 \in T
    BY <1>8
  <2>2. \A mon \in 1 .. 12 : mon - 1 \in T => mon \in T
    BY <1>1, <1>7
  <2> HIDE DEF T
  <2>3. \A mon \in 0 .. 12 : mon \in T
    <3> DEFINE n == 12
    <3>1. n \in Nat /\ \A mon \in 1 .. n : mon - 1 \in T => mon \in T
      BY <2>2
    <3> HIDE DEF n
    <3>2. \A mon \in 0 .. n : mon \in T
      BY <2>1, <3>1, IntervalInduction
    <3>3. QED BY <3>2 DEF n
  <2>4. QED BY <2>3 DEF T
<1>11. to[12] = YEARSIZE(year)
  <2>1. /\ to[1] = to[0] + ytab(year)[0] /\ to[2] = to[1] + ytab(year)[1]
        /\ to[3] = to[2] + ytab(year)[2] /\ to[4] = to[3] + ytab(year)[3]
        /\ to[5] = to[4] + ytab(year)[4] /\ to[6] = to[5] + ytab(year)[5]
        /\ to[7] = to[6] + ytab(year)[6] /\ to[8] = to[7] + ytab(year)[7]
        /\ to[9] = to[8] + ytab(year)[8] /\ to[10] = to[9] + ytab(year)[9]
        /\ to[11] = to[10] + ytab(year)[10] /\ to[12] = to[11] + ytab(year)[11]
    <3>1. /\ to[0 + 1] = to[0] + ytab(year)[0] /\ to[1 + 1] = to[1] + ytab(year)[1]
          /\ to[2 + 1] = to[2] + ytab(year)[2] /\ to[3 + 1] = to[3] + ytab(year)[3]
          /\ to[4 + 1] = to[4] + ytab(year)[4] /\ to[5 + 1] = to[5] + ytab(year)[5]
          /\ to[6 + 1] = to[6] + ytab(year)[6] /\ to[7 + 1] = to[7] + ytab(year)[7]
          /\ to[8 + 1] = to[8] + ytab(year)[8] /\ to[9 + 1] = to[9] + ytab(year)[9]
          /\ to[10 + 1] = to[10] + ytab(year)[10] /\ to[11 + 1] = to[11] + ytab(year)[11]
      BY <1>9
    <3>2. QED BY <3>1
  <2>2. /\ ytab(year)[0] = 31 /\ ytab(year)[1] = (IF LEAPYEAR(year) THEN 29 ELSE 28)
        /\ ytab(year)[2] = 31 /\ ytab(year)[3] = 30 /\ ytab(year)[4] = 31 /\ ytab(year)[5] = 30
        /\ ytab(year)[6] = 31 /\ ytab(year)[7] = 31 /\ ytab(year)[8] = 30 /\ ytab(year)[9] = 31
        /\ ytab(year)[10] = 30 /\ ytab(year)[11] = 31
    BY DEF ytab
  <2>3. QED BY <1>8, <2>1, <2>2 DEF YEARSIZE
<1>12. QED BY <1>6, <1>8, <1>9, <1>10, <1>11

\* The rounds of the loops keep the day they are about.
LEMMA RoundsCount ==
  ASSUME NEW s \in DayOfMonth
  PROVE  /\ DayCount(s) \in Int
         /\ DayCount(NextMonth(s)) = DayCount(s)
         /\ DayCount(MonthBack(s)) = DayCount(s)
<1> DEFINE y == YEAR0 + s.year
<1>1. s.year \in Int /\ s.mon \in 0 .. 11 /\ s.day \in Int /\ y \in Int /\ y - 1 \in Int
  BY DEF DayOfMonth, YEAR0
<1>2. /\ DaysBefore(y) \in Int /\ DaysBefore(y + 1) = DaysBefore(y) + YEARSIZE(y)
      /\ DaysBefore(y - 1) \in Int /\ DaysBefore((y - 1) + 1) = DaysBefore(y - 1) + YEARSIZE(y - 1)
      /\ YEARSIZE(y) \in Int /\ YEARSIZE(y - 1) \in Int
  BY <1>1, DaysBeforeNext, YearSizes
<1>3. ASSUME NEW z \in Int, NEW m \in 0 .. 11
      PROVE  /\ DaysTo(z)[0] = 0 /\ DaysTo(z)[m] \in Nat /\ ytab(z)[m] \in Nat
             /\ DaysTo(z)[m + 1] = DaysTo(z)[m] + ytab(z)[m]
             /\ m = 11 => DaysTo(z)[m] + ytab(z)[m] = YEARSIZE(z)
  <2>1. m \in 0 .. 12
    OBVIOUS
  <2>2. /\ DaysTo(z)[0] = 0 /\ DaysTo(z)[m] \in Nat /\ ytab(z)[m] \in Nat
        /\ DaysTo(z)[m + 1] = DaysTo(z)[m] + ytab(z)[m] /\ DaysTo(z)[12] = YEARSIZE(z)
    <3>1. /\ DaysTo(z)[0] = 0 /\ DaysTo(z)[m] \in Nat
          /\ DaysTo(z)[m + 1] = DaysTo(z)[m] + ytab(z)[m] /\ DaysTo(z)[12] = YEARSIZE(z)
      BY <2>1, DaysToMonths
    <3>2. ytab(z)[m] \in 28 .. 31
      BY MonthSizes
    <3>3. QED BY <3>1, <3>2
  <2>3. m = 11 => m + 1 = 12
    OBVIOUS
  <2>4. QED BY <2>2, <2>3
<1>4. DayCount(s) = DaysBefore(y) + DaysTo(y)[s.mon] + s.day
  BY DEF DayCount
<1>5. DayCount(s) \in Int
  BY <1>1, <1>2, <1>3, <1>4
<1>6. DayCount(NextMonth(s)) = DayCount(s)
  <2> DEFINE z == IF s.mon = 11 THEN s.year + 1 ELSE s.year
             m == IF s.mon = 11 THEN 0 ELSE s.mon + 1
             d == s.day - ytab(y)[s.mon]
  <2>1. DayCount(NextMonth(s)) = DaysBefore(YEAR0 + z) + DaysTo(YEAR0 + z)[m] + d
    BY DEF DayCount, NextMonth
  <2>2. CASE s.mon = 11
    <3>1. m = 0 /\ YEAR0 + z = y + 1 /\ y + 1 \in Int
      BY <1>1, <2>2 DEF YEAR0
    <3>2. DaysTo(y + 1)[0] = 0
      BY <1>3, <3>1
    <3>3. /\ DaysTo(y)[s.mon] + ytab(y)[s.mon] = YEARSIZE(y)
          /\ ytab(y)[s.mon] \in Nat /\ DaysTo(y)[s.mon] \in Nat
      BY <1>1, <1>3, <2>2
    <3> HIDE DEF z, m, y
    <3>4. QED BY <1>1, <1>2, <1>4, <2>1, <3>1, <3>2, <3>3
  <2>3. CASE s.mon # 11
    <3>1. m = s.mon + 1 /\ YEAR0 + z = y
      BY <1>1, <2>3
    <3>2. /\ DaysTo(y)[s.mon + 1] = DaysTo(y)[s.mon] + ytab(y)[s.mon]
          /\ ytab(y)[s.mon] \in Nat /\ DaysTo(y)[s.mon] \in Nat
      BY <1>1, <1>3
    <3> HIDE DEF z, m, y
    <3>3. QED BY <1>1, <1>2, <1>4, <2>1, <3>1, <3>2
  <2>4. QED BY <2>2, <2>3
<1>7. DayCount(MonthBack(s)) = DayCount(s)
  <2> DEFINE z == IF s.mon = 0 THEN s.year - 1 ELSE s.year
             m == IF s.mon = 0 THEN 11 ELSE s.mon - 1
             d == s.day + ytab(YEAR0 + z)[m]
  <2>1. DayCount(MonthBack(s)) = DaysBefore(YEAR0 + z) + DaysTo(YEAR0 + z)[m] + d
    BY DEF DayCount, MonthBack
  <2>2. CASE s.mon = 0
    <3>1. m = 11 /\ YEAR0 + z = y - 1 /\ (y - 1) + 1 = y /\ 11 \in 0 .. 11
      BY <1>1, <2>2 DEF YEAR0
    <3>2. DaysTo(y)[0] = 0
      BY <1>1, <1>3
    <3>3. /\ DaysTo(y - 1)[m] + ytab(y - 1)[m] = YEARSIZE(y - 1)
          /\ ytab(y - 1)[m] \in Nat /\ DaysTo(y - 1)[m] \in Nat
      BY <1>1, <1>3, <3>1
    <3> HIDE DEF z, m, y
    <3>4. QED BY <1>1, <1>2, <1>4, <2>1, <2>2, <3>1, <3>2, <3>3
  <2>3. CASE s.mon # 0
    <3>1. m = s.mon - 1 /\ YEAR0 + z = y /\ m \in 0 .. 11 /\ m + 1 = s.mon
      BY <1>1, <2>3
    <3>2. /\ DaysTo(y)[m + 1] = DaysTo(y)[m] + ytab(y)[m]
          /\ ytab(y)[m] \in Nat /\ DaysTo(y)[m] \in Nat
      BY <1>1, <1>3, <3>1
    <3> HIDE DEF z, m, y
    <3>3. QED BY <1>1, <1>2, <1>4, <2>1, <3>1, <3>2
  <2>4. QED BY <2>2, <2>3
<1>8. QED BY <1>5, <1>6, <1>7

\* A day is in its month.
InMonth(s) == s.day \in 0 .. ytab(YEAR0 + s.year)[s.mon] - 1

\* Where the loops end, the day lies in its month, or in its year, and the
\* number of days since the beginning is that they began with.
LEMMA OnMonthsEnds ==
  ASSUME NEW s \in DayOfMonth, s.day >= 0
  PROVE  /\ OnMonths[s] \in DayOfMonth /\ InMonth(OnMonths[s])
         /\ DayCount(OnMonths[s]) = DayCount(s)
<1> DEFINE Ends(t, r) == r \in DayOfMonth /\ InMonth(r) /\ DayCount(r) = DayCount(t)
           T == {t \in DayOfMonth : t.day >= 0 => Ends(t, OnMonths[t])}
           measure == [t \in DayOfMonth |-> IF t.day < 0 THEN 0 ELSE t.day]
<1>1. measure \in [DayOfMonth -> Nat]
  <2>1. \A t \in DayOfMonth : (IF t.day < 0 THEN 0 ELSE t.day) \in Nat
    BY DEF DayOfMonth
  <2>2. QED BY <2>1
<1>2. ASSUME NEW t \in DayOfMonth, \A u \in DayOfMonth : measure[u] < measure[t] => u \in T
      PROVE  t \in T
  <2> SUFFICES ASSUME t.day >= 0 PROVE Ends(t, OnMonths[t])
    OBVIOUS
  <2> DEFINE length == ytab(YEAR0 + t.year)[t.mon]
             u == NextMonth(t)
  <2>1. t.day \in Int /\ length \in 28 .. 31 /\ u \in DayOfMonth /\ u.day = t.day - length
    BY RoundsTyped
  <2>2. CASE t.day < length
    <3>1. OnMonths[t] = t
      BY <2>2, OnMonthsStep
    <3>2. InMonth(t)
      BY <2>1, <2>2 DEF InMonth
    <3>3. QED BY <3>1, <3>2
  <2>3. CASE ~(t.day < length)
    <3>1. OnMonths[t] = OnMonths[u]
      BY <2>3, OnMonthsStep
    <3>2. u.day >= 0 /\ measure[u] < measure[t]
      <4>1. measure[u] = (IF u.day < 0 THEN 0 ELSE u.day) /\ measure[t] = IF t.day < 0 THEN 0 ELSE t.day
        BY <2>1
      <4> HIDE DEF length, u, measure
      <4>2. QED BY <2>1, <2>3, <4>1
    <3>3. Ends(u, OnMonths[u])
      <4> HIDE DEF Ends, u, measure
      <4>1. QED BY <1>2, <2>1, <3>2
    <3>4. DayCount(u) = DayCount(t)
      BY RoundsCount
    <3>5. QED BY <3>1, <3>3, <3>4
  <2>4. QED BY <2>2, <2>3
<1> HIDE DEF T, measure
<1>3. \A t \in DayOfMonth : t \in T
  BY <1>1, <1>2, MeasureInduction
<1>4. QED BY <1>3 DEF T

LEMMA BackMonthsEnds ==
  ASSUME NEW s \in DayOfMonth
  PROVE  /\ BackMonths[s] \in DayOfMonth /\ BackMonths[s].day >= 0
         /\ DayCount(BackMonths[s]) = DayCount(s)
<1> DEFINE Ends(t, r) == r \in DayOfMonth /\ r.day >= 0 /\ DayCount(r) = DayCount(t)
           T == {t \in DayOfMonth : Ends(t, BackMonths[t])}
           measure == [t \in DayOfMonth |-> IF t.day < 0 THEN -t.day ELSE 0]
<1>1. measure \in [DayOfMonth -> Nat]
  <2>1. \A t \in DayOfMonth : (IF t.day < 0 THEN -t.day ELSE 0) \in Nat
    BY DEF DayOfMonth
  <2>2. QED BY <2>1
<1>2. ASSUME NEW t \in DayOfMonth, \A u \in DayOfMonth : measure[u] < measure[t] => u \in T
      PROVE  t \in T
  <2> DEFINE u == MonthBack(t)
  <2>1. t.day \in Int /\ u \in DayOfMonth /\ u.day \in t.day + 28 .. t.day + 31
    BY RoundsTyped
  <2>2. CASE t.day >= 0
    BY <2>2, BackMonthsStep
  <2>3. CASE ~(t.day >= 0)
    <3>1. BackMonths[t] = BackMonths[u]
      BY <2>3, BackMonthsStep
    <3>2. measure[u] < measure[t]
      <4>1. measure[u] = (IF u.day < 0 THEN -u.day ELSE 0) /\ measure[t] = IF t.day < 0 THEN -t.day ELSE 0
        BY <2>1
      <4> HIDE DEF u, measure
      <4>2. QED BY <2>1, <2>3, <4>1
    <3>3. Ends(u, BackMonths[u])
      <4> HIDE DEF Ends, u, measure
      <4>1. QED BY <1>2, <2>1, <3>2
    <3>4. DayCount(u) = DayCount(t)
      BY RoundsCount
    <3>5. QED BY <3>1, <3>3, <3>4
  <2>4. QED BY <2>2, <2>3
<1> HIDE DEF T, measure
<1>3. \A t \in DayOfMonth : t \in T
  BY <1>1, <1>2, MeasureInduction
<1>4. QED BY <1>3 DEF T

LEMMA YearOfEnds ==
  ASSUME NEW s \in DayOfYear
  PROVE  /\ YearOf[s] \in DayOfYear /\ YearOf[s].yday < YEARSIZE(YearOf[s].year)
         /\ YearOf[s].year >= s.year
         /\ DaysBefore(YearOf[s].year) + YearOf[s].yday = DaysBefore(s.year) + s.yday
<1> DEFINE Ends(t, r) == /\ r \in DayOfYear /\ r.yday < YEARSIZE(r.year) /\ r.year >= t.year
                         /\ DaysBefore(r.year) + r.yday = DaysBefore(t.year) + t.yday
           T == {t \in DayOfYear : Ends(t, YearOf[t])}
           measure == [t \in DayOfYear |-> t.yday]
<1>1. measure \in [DayOfYear -> Nat]
  BY DEF DayOfYear
<1>2. ASSUME NEW t \in DayOfYear, \A u \in DayOfYear : measure[u] < measure[t] => u \in T
      PROVE  t \in T
  <2> DEFINE u == [year |-> t.year + 1, yday |-> t.yday - YEARSIZE(t.year)]
  <2>1. t.year \in Nat /\ t.yday \in Nat /\ YEARSIZE(t.year) \in {365, 366}
    BY YearSizes DEF DayOfYear
  <2>2. CASE t.yday < YEARSIZE(t.year)
    <3>1. YearOf[t] = t
      BY <2>2, YearOfStep
    <3>2. t.year >= t.year
      BY <2>1
    <3>3. QED BY <2>2, <3>1, <3>2
  <2>3. CASE ~(t.yday < YEARSIZE(t.year))
    <3>1. YearOf[t] = YearOf[u]
      BY <2>3, YearOfStep
    <3>2. u \in DayOfYear /\ u.yday = t.yday - YEARSIZE(t.year) /\ u.year = t.year + 1
      BY <2>1, <2>3 DEF DayOfYear
    <3> HIDE DEF u
    <3>3. measure[u] < measure[t]
      BY <2>1, <3>2
    <3>4. Ends(u, YearOf[u])
      <4> HIDE DEF Ends, measure
      <4>1. QED BY <1>2, <3>2, <3>3
    <3>5. DaysBefore(t.year) \in Int /\ DaysBefore(u.year) = DaysBefore(t.year) + YEARSIZE(t.year)
      BY <2>1, <3>2, DaysBeforeNext
    <3>6. YearOf[u].year >= t.year
      <4>1. YearOf[u].year \in Nat
        BY <3>4 DEF DayOfYear
      <4>2. QED BY <2>1, <3>2, <3>4, <4>1
    <3>7. DaysBefore(u.year) + u.yday = DaysBefore(t.year) + t.yday
      BY <2>1, <3>2, <3>5
    <3>8. QED BY <3>1, <3>4, <3>6, <3>7
  <2>4. QED BY <2>2, <2>3
<1> HIDE DEF T, measure
<1>3. \A t \in DayOfYear : t \in T
  BY <1>1, <1>2, MeasureInduction
<1>4. QED BY <1>3 DEF T

\* Later months and years begin later.
LEMMA DaysToMonotone ==
  ASSUME NEW year \in Int
  PROVE  \A a, b \in 0 .. 12 : a <= b => DaysTo(year)[a] <= DaysTo(year)[b]
<1> DEFINE T == {b \in 0 .. 12 : \A a \in 0 .. 12 : a <= b => DaysTo(year)[a] <= DaysTo(year)[b]}
           n == 12
<1>1. \A a \in 0 .. 12 : DaysTo(year)[a] \in Nat
  BY DaysToMonths
<1>2. 0 \in T
  BY <1>1
<1>3. ASSUME NEW b \in 1 .. n, b - 1 \in T PROVE b \in T
  <2>1. b - 1 \in 0 .. 11 /\ (b - 1) + 1 = b /\ b \in 0 .. 12 /\ b - 1 \in 0 .. 12
    OBVIOUS
  <2>2. ytab(year)[b - 1] \in 28 .. 31
    BY <2>1, MonthSizes
  <2>3. DaysTo(year)[(b - 1) + 1] = DaysTo(year)[b - 1] + ytab(year)[b - 1]
    BY <2>1, DaysToMonths
  <2>4. DaysTo(year)[b - 1] <= DaysTo(year)[b]
    BY <1>1, <2>1, <2>2, <2>3
  <2>5. ASSUME NEW a \in 0 .. 12, a <= b PROVE DaysTo(year)[a] <= DaysTo(year)[b]
    <3>1. CASE a = b
      BY <1>1, <3>1
    <3>2. CASE a # b
      <4>1. a <= b - 1
        BY <2>1, <2>5, <3>2
      <4>2. DaysTo(year)[a] <= DaysTo(year)[b - 1]
        BY <1>3, <4>1
      <4>3. QED BY <1>1, <2>1, <2>4, <4>2
    <3>3. QED BY <3>1, <3>2
  <2>6. QED BY <2>1, <2>5
<1> HIDE DEF T
<1>4. \A b \in 0 .. 12 : b \in T
  <2>1. n \in Nat
    OBVIOUS
  <2> HIDE DEF n
  <2>2. \A b \in 0 .. n : b \in T
    BY <1>2, <1>3, <2>1, IntervalInduction
  <2>3. QED BY <2>2 DEF n
<1>5. QED BY <1>4 DEF T

LEMMA DaysBeforeMonotone ==
  ASSUME NEW y \in Int, NEW z \in Int, y < z
  PROVE  DaysBefore(y) + YEARSIZE(y) <= DaysBefore(z)
<1>1. CASE z = y + 1
  <2>1. DaysBefore(z) = DaysBefore(y) + YEARSIZE(y) /\ DaysBefore(y) \in Int /\ YEARSIZE(y) \in {365, 366}
    BY <1>1, DaysBeforeNext, YearSizes
  <2>2. QED BY <2>1
<1>2. CASE z # y + 1
  <2>1. z >= y + 2
    BY <1>2
  <2>2. /\ (z - 1) \div 4 >= (y - 1) \div 4 /\ (z - 1) \div 400 >= (y - 1) \div 400
        /\ (z - 1) \div 100 <= (y - 1) \div 100 + (z - y)
        /\ (z - 1) \div 4 \in Int /\ (y - 1) \div 4 \in Int
        /\ (z - 1) \div 100 \in Int /\ (y - 1) \div 100 \in Int
        /\ (z - 1) \div 400 \in Int /\ (y - 1) \div 400 \in Int
    BY <2>1
  <2>3. DaysBefore(z) >= DaysBefore(y) + 365 * (z - y) - (z - y)
    BY <2>2 DEF DaysBefore, Leaps
  <2>4. DaysBefore(z) \in Int /\ DaysBefore(y) \in Int /\ YEARSIZE(y) \in {365, 366}
    BY DaysBeforeNext, YearSizes
  <2>5. QED BY <2>1, <2>3, <2>4
<1>3. QED BY <1>1, <1>2

\* A day in its month lies in its year.
LEMMA InYear ==
  ASSUME NEW r \in DayOfMonth, InMonth(r)
  PROVE  LET n == DaysTo(YEAR0 + r.year)[r.mon] + r.day
         IN  /\ n \in 0 .. YEARSIZE(YEAR0 + r.year) - 1
             /\ DayCount(r) = DaysBefore(YEAR0 + r.year) + n
<1> DEFINE y == YEAR0 + r.year
<1>1. r.year \in Int /\ r.mon \in 0 .. 11 /\ r.day \in Int /\ y \in Int
  BY DEF DayOfMonth, YEAR0
<1>2. r.mon \in 0 .. 12 /\ r.mon + 1 \in 0 .. 12 /\ r.mon + 1 <= 12 /\ 12 \in 0 .. 12
  BY <1>1
<1>3. /\ DaysTo(y)[r.mon] \in Nat /\ DaysTo(y)[r.mon + 1] \in Nat /\ DaysTo(y)[12] = YEARSIZE(y)
      /\ DaysTo(y)[r.mon + 1] = DaysTo(y)[r.mon] + ytab(y)[r.mon]
      /\ DaysTo(y)[r.mon + 1] <= DaysTo(y)[12]
  <2> HIDE DEF y
  <2>1. QED BY <1>1, <1>2, DaysToMonths, DaysToMonotone
<1>4. ytab(y)[r.mon] \in 28 .. 31 /\ r.day \in 0 .. ytab(y)[r.mon] - 1
  BY <1>1, MonthSizes DEF InMonth
<1>5. YEARSIZE(y) \in {365, 366} /\ DaysBefore(y) \in Int
  BY <1>1, YearSizes, DaysBeforeNext
<1>6. DayCount(r) = DaysBefore(y) + DaysTo(y)[r.mon] + r.day
  BY DEF DayCount
<1> HIDE DEF y
<1>7. /\ DaysTo(y)[r.mon] + r.day \in 0 .. YEARSIZE(y) - 1
      /\ DayCount(r) = DaysBefore(y) + (DaysTo(y)[r.mon] + r.day)
  BY <1>1, <1>3, <1>4, <1>5, <1>6
<1>8. QED BY <1>7 DEF y

\* A day is in one year, and has one date.
LEMMA YearUnique ==
  ASSUME NEW y \in Int, NEW z \in Int, NEW n \in 0 .. YEARSIZE(y) - 1, NEW m \in 0 .. YEARSIZE(z) - 1,
         DaysBefore(y) + n = DaysBefore(z) + m
  PROVE  y = z /\ n = m
<1>1. /\ DaysBefore(y) \in Int /\ DaysBefore(z) \in Int
      /\ YEARSIZE(y) \in {365, 366} /\ YEARSIZE(z) \in {365, 366}
  BY DaysBeforeNext, YearSizes
<1>2. n \in Nat /\ m \in Nat /\ n < YEARSIZE(y) /\ m < YEARSIZE(z)
  BY <1>1
<1>3. y < z => DaysBefore(y) + YEARSIZE(y) <= DaysBefore(z)
  BY DaysBeforeMonotone
<1>4. z < y => DaysBefore(z) + YEARSIZE(z) <= DaysBefore(y)
  BY DaysBeforeMonotone
<1>5. ~(y < z) /\ ~(z < y)
  BY <1>1, <1>2, <1>3, <1>4
<1>6. y = z
  BY <1>5
<1>7. QED BY <1>1, <1>2, <1>6

\* A number of days is one date; the next number is the date after.
LEMMA DateUnique ==
  ASSUME NEW r \in DayOfMonth, NEW q \in DayOfMonth, InMonth(r), InMonth(q), DayCount(r) = DayCount(q)
  PROVE  r = q
<1> DEFINE y == YEAR0 + r.year
           z == YEAR0 + q.year
           n == DaysTo(y)[r.mon] + r.day
           m == DaysTo(z)[q.mon] + q.day
<1>1. /\ r.year \in Int /\ r.mon \in 0 .. 11 /\ r.day \in Int /\ y \in Int
      /\ q.year \in Int /\ q.mon \in 0 .. 11 /\ q.day \in Int /\ z \in Int
  BY DEF DayOfMonth, YEAR0
<1>2. /\ n \in 0 .. YEARSIZE(y) - 1 /\ DayCount(r) = DaysBefore(y) + n
      /\ m \in 0 .. YEARSIZE(z) - 1 /\ DayCount(q) = DaysBefore(z) + m
  BY InYear
<1>3. y = z /\ n = m
  <2> HIDE DEF n, m, y, z
  <2>1. DaysBefore(y) + n = DaysBefore(z) + m
    BY <1>2
  <2>2. QED BY <1>1, <1>2, <2>1, YearUnique
<1>4. r.mon = q.mon
  <2>1. /\ r.day \in 0 .. ytab(y)[r.mon] - 1 /\ q.day \in 0 .. ytab(y)[q.mon] - 1
        /\ ytab(y)[r.mon] \in 28 .. 31 /\ ytab(y)[q.mon] \in 28 .. 31
    BY <1>1, <1>3, MonthSizes DEF InMonth
  <2>2. /\ r.mon \in 0 .. 12 /\ r.mon + 1 \in 0 .. 12 /\ q.mon \in 0 .. 12 /\ q.mon + 1 \in 0 .. 12
    BY <1>1
  <2>3. DaysTo(y)[r.mon] + r.day = DaysTo(y)[q.mon] + q.day
    BY <1>3
  <2> HIDE DEF n, m, y, z
  <2>4. /\ DaysTo(y)[r.mon] \in Nat /\ DaysTo(y)[q.mon] \in Nat
        /\ DaysTo(y)[r.mon + 1] = DaysTo(y)[r.mon] + ytab(y)[r.mon]
        /\ DaysTo(y)[q.mon + 1] = DaysTo(y)[q.mon] + ytab(y)[q.mon]
    BY <1>1, <2>2, DaysToMonths
  <2>5. /\ r.mon + 1 <= q.mon => DaysTo(y)[r.mon + 1] <= DaysTo(y)[q.mon]
        /\ q.mon + 1 <= r.mon => DaysTo(y)[q.mon + 1] <= DaysTo(y)[r.mon]
    BY <1>1, <2>2, DaysToMonotone
  <2>6. ~(r.mon + 1 <= q.mon) /\ ~(q.mon + 1 <= r.mon)
    BY <1>1, <2>1, <2>3, <2>4, <2>5
  <2>7. QED BY <1>1, <2>6
<1>5. r.day = q.day
  <2>1. r.mon \in 0 .. 12 /\ DaysTo(y)[r.mon] + r.day = DaysTo(y)[r.mon] + q.day
    BY <1>1, <1>3, <1>4
  <2> HIDE DEF y, n, m, z
  <2>2. DaysTo(y)[r.mon] \in Nat
    BY <1>1, <2>1, DaysToMonths
  <2> DEFINE c == DaysTo(y)[r.mon]
  <2>3. c \in Nat /\ c + r.day = c + q.day
    BY <2>1, <2>2
  <2> HIDE DEF c
  <2>4. QED BY <1>1, <2>3
<1>6. r.year = q.year
  BY <1>1, <1>3 DEF YEAR0
<1>7. QED BY <1>4, <1>5, <1>6 DEF DayOfMonth

\* The date of the day after.
DayAfter(r) ==
    IF r.day + 1 < ytab(YEAR0 + r.year)[r.mon] THEN [year |-> r.year, mon |-> r.mon, day |-> r.day + 1]
    ELSE IF r.mon < 11 THEN [year |-> r.year, mon |-> r.mon + 1, day |-> 0]
    ELSE [year |-> r.year + 1, mon |-> 0, day |-> 0]

LEMMA DayAfterIs ==
  ASSUME NEW r \in DayOfMonth, NEW q \in DayOfMonth, InMonth(r), InMonth(q),
         DayCount(q) = DayCount(r) + 1
  PROVE  q = DayAfter(r)
<1> DEFINE s == [year |-> r.year, mon |-> r.mon, day |-> r.day + 1]
           length == ytab(YEAR0 + r.year)[r.mon]
<1>1. /\ r.year \in Int /\ r.mon \in 0 .. 11 /\ r.day \in Int /\ length \in 28 .. 31
      /\ r.day \in 0 .. length - 1
  BY RoundsTyped DEF InMonth
<1>2. s \in DayOfMonth
  BY <1>1 DEF DayOfMonth
<1>3. DayCount(s) = DayCount(r) + 1
  <2> DEFINE n == DaysBefore(YEAR0 + r.year) + DaysTo(YEAR0 + r.year)[r.mon]
  <2>1. DayCount(s) = n + (r.day + 1) /\ DayCount(r) = n + r.day
    BY DEF DayCount
  <2>2. n \in Int
    <3> DEFINE y == YEAR0 + r.year
    <3>1. y \in Int /\ r.mon \in 0 .. 12
      BY <1>1 DEF YEAR0
    <3> HIDE DEF y
    <3>2. DaysBefore(y) \in Int /\ DaysTo(y)[r.mon] \in Nat
      BY <3>1, DaysBeforeNext, DaysToMonths
    <3>3. DaysBefore(y) + DaysTo(y)[r.mon] \in Int
      BY <3>2
    <3>4. QED BY <3>3 DEF y
  <2> HIDE DEF n
  <2>3. QED BY <1>1, <2>1, <2>2
<1>4. CASE r.day + 1 < length
  <2>1. InMonth(s)
    BY <1>1, <1>4 DEF InMonth
  <2>2. q = s
    <3> HIDE DEF s
    <3>1. QED BY <1>2, <1>3, <2>1, DateUnique
  <2>3. QED BY <1>4, <2>2 DEF DayAfter
<1>5. CASE ~(r.day + 1 < length)
  <2> DEFINE u == NextMonth(s)
  <2>1. u \in DayOfMonth /\ DayCount(u) = DayCount(r) + 1
    BY <1>2, <1>3, RoundsTyped, RoundsCount
  <2>2. r.day + 1 - length = 0
    BY <1>1, <1>5
  <2>3. u = IF r.mon < 11 THEN [year |-> r.year, mon |-> r.mon + 1, day |-> 0]
            ELSE [year |-> r.year + 1, mon |-> 0, day |-> 0]
    BY <1>1, <2>2 DEF NextMonth
  <2>4. u.day = 0 /\ ytab(YEAR0 + u.year)[u.mon] \in 28 .. 31
    <3>1. u.day = 0
      BY <2>3
    <3> HIDE DEF u
    <3>2. QED BY <2>1, <3>1, RoundsTyped
  <2>5. InMonth(u)
    <3> HIDE DEF u
    <3>1. QED BY <2>4 DEF InMonth
  <2>6. q = u
    <3> HIDE DEF u
    <3>1. QED BY <2>1, <2>5, DateUnique
  <2>7. QED BY <1>5, <2>3, <2>6 DEF DayAfter
<1>6. QED BY <1>4, <1>5

-----------------------------------------------------------------------------
(***************************************************************************)
(* The time of day                                                         *)
(***************************************************************************)
LEMMA ClockSizes ==
    /\ SecsPerMin \in Nat \ {0} /\ MinsPerHour \in Nat \ {0} /\ HoursPerDay \in Nat \ {0}
    /\ SecsPerHour \in Nat \ {0} /\ SECS_DAY \in Nat \ {0}
    /\ IntMax \in Nat \ {0} /\ LongMax \in Nat \ {0} /\ ULongMax \in Nat \ {0}
<1>1. /\ SecsPerMin \in Nat \ {0} /\ MinsPerHour \in Nat \ {0} /\ HoursPerDay \in Nat \ {0}
      /\ IntMax \in Nat \ {0} /\ LongMax \in Nat \ {0}
  BY TimeAssumption DEF TimeAssumption
<1>2. \A a, b \in Nat \ {0} : a * b \in Nat \ {0}
  OBVIOUS
<1>3. SecsPerHour \in Nat \ {0} /\ SECS_DAY \in Nat \ {0}
  BY <1>1, <1>2 DEF SecsPerHour, SECS_DAY
<1>4. QED BY <1>1, <1>3 DEF ULongMax

\* Division with remainder.
LEMMA DivMod ==
  ASSUME NEW n \in Int, NEW b \in Nat \ {0}
  PROVE  n \div b \in Int /\ n % b \in 0 .. b - 1 /\ n = b * (n \div b) + (n % b)
  OBVIOUS

\* A quotient and its remainder are the only ones.
LEMMA DivModIs ==
  ASSUME NEW n \in Int, NEW b \in Nat \ {0}, NEW q \in Int, NEW r \in 0 .. b - 1, n = b * q + r
  PROVE  n \div b = q /\ n % b = r
  OBVIOUS

\* The seconds of a day at a time.
SecondOf(hour, min, sec) == (hour * MinsPerHour + min) * SecsPerMin + sec

\* Hour, minute and second are the digits of the second of a day.
LEMMA SecondFields ==
  ASSUME NEW hour \in Int, NEW min \in 0 .. MinsPerHour - 1, NEW sec \in 0 .. SecsPerMin - 1
  PROVE  LET d == SecondOf(hour, min, sec)
         IN  /\ d \in Int /\ d % SecsPerMin = sec
             /\ (d % SecsPerHour) \div SecsPerMin = min
             /\ d \div SecsPerHour = hour
<1> DEFINE d == SecondOf(hour, min, sec)
           M == hour * MinsPerHour + min
           e == min * SecsPerMin + sec
<1>1. /\ SecsPerMin \in Nat \ {0} /\ MinsPerHour \in Nat \ {0} /\ SecsPerHour \in Nat \ {0}
      /\ min \in Int /\ sec \in Int
  BY ClockSizes
<1>2. M \in Int /\ e \in Int /\ M * SecsPerMin \in Int
  BY <1>1
<1>3. d = SecsPerMin * M + sec /\ d \in Int
  BY <1>1, <1>2 DEF SecondOf
<1>4. d % SecsPerMin = sec
  <2> HIDE DEF d, M
  <2>1. QED BY <1>1, <1>2, <1>3, DivModIs
<1>5. d = SecsPerHour * hour + e
  BY <1>1 DEF SecondOf, SecsPerHour
<1>6. e \in 0 .. SecsPerHour - 1
  <2>1. min + 1 <= MinsPerHour /\ min >= 0 /\ sec >= 0 /\ sec < SecsPerMin
    BY <1>1
  <2>2. (min + 1) * SecsPerMin <= MinsPerHour * SecsPerMin
    BY <1>1, <2>1
  <2>3. (min + 1) * SecsPerMin = min * SecsPerMin + SecsPerMin /\ min * SecsPerMin >= 0
    BY <1>1, <2>1
  <2>4. SecsPerHour = MinsPerHour * SecsPerMin
    BY <1>1 DEF SecsPerHour
  <2>5. QED BY <1>1, <1>2, <2>1, <2>2, <2>3, <2>4
<1>7. d \div SecsPerHour = hour /\ d % SecsPerHour = e
  <2> HIDE DEF d, e
  <2>1. QED BY <1>1, <1>3, <1>5, <1>6, DivModIs
<1>8. e \div SecsPerMin = min
  <2>1. e = SecsPerMin * min + sec
    BY <1>1
  <2> HIDE DEF e
  <2>2. QED BY <1>1, <1>2, <2>1, DivModIs
<1>9. QED BY <1>3, <1>4, <1>7, <1>8 DEF d

\* And every second of a day is at a time.
LEMMA FieldsOfSecond ==
  ASSUME NEW d \in 0 .. SECS_DAY - 1
  PROVE  LET hour == d \div SecsPerHour
             min == (d % SecsPerHour) \div SecsPerMin
             sec == d % SecsPerMin
         IN  /\ hour \in 0 .. HoursPerDay - 1 /\ min \in 0 .. MinsPerHour - 1
             /\ sec \in 0 .. SecsPerMin - 1
             /\ SecondOf(hour, min, sec) = d
<1> DEFINE hour == d \div SecsPerHour
           e == d % SecsPerHour
           min == e \div SecsPerMin
           r == e % SecsPerMin
<1>1. /\ SecsPerMin \in Nat \ {0} /\ MinsPerHour \in Nat \ {0} /\ HoursPerDay \in Nat \ {0}
      /\ SecsPerHour \in Nat \ {0} /\ SECS_DAY \in Nat \ {0} /\ d \in Int
      /\ d >= 0 /\ d < SECS_DAY
  BY ClockSizes
<1>2. hour \in Int /\ e \in 0 .. SecsPerHour - 1 /\ d = SecsPerHour * hour + e
  BY <1>1, DivMod
<1>3. e \in Int /\ min \in Int /\ r \in 0 .. SecsPerMin - 1 /\ e = SecsPerMin * min + r
  BY <1>1, <1>2, DivMod
<1> HIDE DEF hour, e, min, r
<1>4. min \in 0 .. MinsPerHour - 1
  <2>1. e >= 0 /\ e < SecsPerHour /\ r >= 0 /\ r < SecsPerMin /\ r \in Int
    BY <1>1, <1>2, <1>3
  <2>2. SecsPerHour = SecsPerMin * MinsPerHour
    BY DEF SecsPerHour
  <2>3. ~(min >= MinsPerHour)
    <3>1. min >= MinsPerHour => SecsPerMin * min >= SecsPerMin * MinsPerHour
      BY <1>1, <1>3
    <3>2. SecsPerMin * min \in Int /\ SecsPerMin * MinsPerHour \in Int
      BY <1>1, <1>3
    <3>3. QED BY <1>3, <2>1, <2>2, <3>1, <3>2
  <2>4. ~(min < 0)
    <3>1. min < 0 => SecsPerMin * min <= -SecsPerMin
      <4>1. min < 0 => min + 1 <= 0
        BY <1>3
      <4>2. min + 1 <= 0 => SecsPerMin * (min + 1) <= 0
        BY <1>1, <1>3
      <4>3. SecsPerMin * (min + 1) = SecsPerMin * min + SecsPerMin /\ SecsPerMin * min \in Int
        BY <1>1, <1>3
      <4>4. QED BY <1>1, <4>1, <4>2, <4>3
    <3>2. SecsPerMin * min \in Int
      BY <1>1, <1>3
    <3>3. QED BY <1>1, <1>3, <2>1, <3>1, <3>2
  <2>5. QED BY <1>1, <1>3, <2>3, <2>4
<1>5. hour \in 0 .. HoursPerDay - 1
  <2>1. e >= 0 /\ e < SecsPerHour /\ e \in Int
    BY <1>1, <1>2
  <2>2. SECS_DAY = SecsPerHour * HoursPerDay
    BY DEF SECS_DAY
  <2>3. ~(hour >= HoursPerDay)
    <3>1. hour >= HoursPerDay => SecsPerHour * hour >= SecsPerHour * HoursPerDay
      BY <1>1, <1>2
    <3>2. SecsPerHour * hour \in Int /\ SecsPerHour * HoursPerDay \in Int
      BY <1>1, <1>2
    <3>3. QED BY <1>1, <1>2, <2>1, <2>2, <3>1, <3>2
  <2>4. ~(hour < 0)
    <3>1. hour < 0 => hour + 1 <= 0
      BY <1>2
    <3>2. hour + 1 <= 0 => SecsPerHour * (hour + 1) <= 0
      BY <1>1, <1>2
    <3>3. SecsPerHour * (hour + 1) = SecsPerHour * hour + SecsPerHour /\ SecsPerHour * hour \in Int
      BY <1>1, <1>2
    <3>4. QED BY <1>1, <1>2, <2>1, <3>1, <3>2, <3>3
  <2>5. QED BY <1>1, <1>2, <2>3, <2>4
<1>6. SecondOf(hour, min, r) = d
  <2>1. d = SecsPerMin * MinsPerHour * hour + (SecsPerMin * min + r)
    BY <1>2, <1>3 DEF SecsPerHour
  <2>2. r \in Int
    BY <1>1, <1>3
  <2>3. QED BY <1>1, <1>2, <1>3, <2>1, <2>2 DEF SecondOf
<1>7. d % SecsPerMin = r
  BY <1>2, <1>3, <1>4, <1>6, SecondFields
<1>8. QED BY <1>3, <1>4, <1>5, <1>6, <1>7 DEF hour, e, min

-----------------------------------------------------------------------------
(***************************************************************************)
(* What xi_gmtime shows                                                    *)
(***************************************************************************)
\* A long, read as unsigned long.
UnsignedOf(time) == time % (ULongMax + 1)

\* The date of a struct xi_tm, its day of the month from 0, and its second.
DateOf(tm) == [year |-> tm.year, mon |-> tm.mon, day |-> tm.mday - 1]

\* The fields of a time are in range, and say the day and second of that day.
IsTimeOf(tm, day, second) ==
    /\ DateOf(tm) \in DayOfMonth /\ InMonth(DateOf(tm))
    /\ DayCount(DateOf(tm)) = DaysBefore(EPOCH_YR) + day
    /\ tm.mday \in Int
    /\ tm.hour \in 0 .. HoursPerDay - 1 /\ tm.min \in 0 .. MinsPerHour - 1
    /\ tm.sec \in 0 .. SecsPerMin - 1
    /\ SecondOf(tm.hour, tm.min, tm.sec) = second

\* xi_gmtime shows the day and the second of its time, read as unsigned long.
LEMMA GmtimeShows ==
  ASSUME NEW time \in Int
  PROVE  LET tm == xi_gmtime(time)
             day == UnsignedOf(time) \div SECS_DAY
         IN  /\ day \in Nat /\ UnsignedOf(time) \in Nat
             /\ IsTimeOf(tm, day, UnsignedOf(time) % SECS_DAY)
             /\ tm.wday = (day + 4) % 7
             /\ tm.yday = DaysTo(YEAR0 + tm.year)[tm.mon] + tm.mday - 1
             /\ tm.year >= 70
             /\ tm = [sec |-> tm.sec, min |-> tm.min, hour |-> tm.hour, mday |-> tm.mday,
                      mon |-> tm.mon, year |-> tm.year, wday |-> tm.wday, yday |-> tm.yday]
<1> DEFINE clock == UnsignedOf(time)
           day == clock \div SECS_DAY
           second == clock % SECS_DAY
           first == [year |-> EPOCH_YR, yday |-> day]
           y == YearOf[first]
           start == [year |-> y.year - YEAR0, mon |-> 0, day |-> y.yday]
           m == OnMonths[start]
           tm == xi_gmtime(time)
<1>1. ULongMax + 1 \in Nat \ {0} /\ SECS_DAY \in Nat \ {0} /\ clock \in 0 .. ULongMax
  <2>1. ULongMax \in Nat /\ SECS_DAY \in Nat \ {0} /\ ULongMax + 1 \in Nat \ {0}
    BY ClockSizes
  <2>2. QED BY <2>1, DivMod DEF UnsignedOf
<1>2. day \in Nat /\ second \in 0 .. SECS_DAY - 1
  <2> HIDE DEF clock
  <2>1. day \in Int /\ second \in 0 .. SECS_DAY - 1 /\ clock = SECS_DAY * day + second /\ clock \in Nat
    BY <1>1, ClockSizes, DivMod
  <2> HIDE DEF day, second
  <2>2. ~(day < 0)
    <3>1. day < 0 => day + 1 <= 0
      BY <2>1
    <3>2. day + 1 <= 0 => SECS_DAY * (day + 1) <= 0
      BY <1>1, <2>1
    <3>3. SECS_DAY * (day + 1) = SECS_DAY * day + SECS_DAY /\ SECS_DAY * day \in Int
      BY <1>1, <2>1
    <3>4. QED BY <1>1, <2>1, <3>1, <3>2, <3>3
  <2>3. QED BY <2>1, <2>2
<1>3. first \in DayOfYear /\ first.year = 1970 /\ first.yday = day
  <2> HIDE DEF day
  <2>1. QED BY <1>2 DEF DayOfYear, EPOCH_YR
<1>4. /\ y \in DayOfYear /\ y.yday < YEARSIZE(y.year) /\ y.year >= 1970
      /\ DaysBefore(y.year) + y.yday = DaysBefore(EPOCH_YR) + day
  <2>1. EPOCH_YR = 1970
    BY DEF EPOCH_YR
  <2> HIDE DEF first
  <2>2. QED BY <1>3, <2>1, YearOfEnds
<1>5. y.year \in Nat /\ y.yday \in Nat
  BY <1>4 DEF DayOfYear
<1>6. start \in DayOfMonth /\ start.day >= 0 /\ DayCount(start) = DaysBefore(EPOCH_YR) + day
  <2> HIDE DEF y, day
  <2>1. start \in DayOfMonth /\ start.day >= 0
    BY <1>5 DEF DayOfMonth, YEAR0
  <2>2. YEAR0 + start.year = y.year /\ start.mon = 0 /\ start.day = y.yday
    BY <1>5 DEF YEAR0
  <2>3. DaysTo(y.year)[0] = 0 /\ DaysBefore(y.year) \in Int
    <3> DEFINE z == y.year
    <3>1. z \in Int
      BY <1>5
    <3> HIDE DEF z
    <3>2. DaysTo(z)[0] = 0 /\ DaysBefore(z) \in Int
      BY <3>1, DaysToMonths, DaysBeforeNext
    <3>3. QED BY <3>2 DEF z
  <2> HIDE DEF start
  <2>4. QED BY <1>4, <1>5, <2>1, <2>2, <2>3 DEF DayCount
<1>7. m \in DayOfMonth /\ InMonth(m) /\ DayCount(m) = DaysBefore(EPOCH_YR) + day
  <2> HIDE DEF start, day
  <2>1. QED BY <1>6, OnMonthsEnds
<1>8. m.year \in Int /\ m.mon \in 0 .. 11 /\ m.day \in Int
  <2> HIDE DEF m
  <2>1. QED BY <1>7 DEF DayOfMonth
<1>9. YEAR0 + m.year = y.year /\ DaysTo(YEAR0 + m.year)[m.mon] + m.day = y.yday
  <2> DEFINE n == DaysTo(YEAR0 + m.year)[m.mon] + m.day
             z == YEAR0 + m.year
  <2> HIDE DEF m, y, day
  <2>1. z \in Int
    BY <1>8 DEF YEAR0
  <2>2. n \in 0 .. YEARSIZE(z) - 1 /\ DayCount(m) = DaysBefore(z) + n
    BY <1>7, InYear
  <2>3. y.yday \in 0 .. YEARSIZE(y.year) - 1
    BY <1>4, <1>5, YearSizes
  <2> HIDE DEF n, z
  <2>4. z = y.year /\ n = y.yday
    BY <1>4, <1>5, <1>7, <2>1, <2>2, <2>3, YearUnique
  <2>5. QED BY <2>4 DEF n, z
<1>10. tm = [sec |-> second % SecsPerMin, min |-> (second % SecsPerHour) \div SecsPerMin,
             hour |-> second \div SecsPerHour, mday |-> m.day + 1, mon |-> m.mon,
             year |-> m.year, wday |-> (day + 4) % 7, yday |-> y.yday]
  BY DEF xi_gmtime, UnsignedOf, MonthOf
<1> HIDE DEF tm, m, y, day, second, clock
<1>11. DateOf(tm) = m
  <2>1. tm.year = m.year /\ tm.mon = m.mon /\ tm.mday - 1 = m.day
    BY <1>8, <1>10
  <2>2. m = [year |-> m.year, mon |-> m.mon, day |-> m.day]
    BY <1>7 DEF DayOfMonth
  <2>3. QED BY <2>1, <2>2 DEF DateOf
<1>12. /\ tm.hour \in 0 .. HoursPerDay - 1 /\ tm.min \in 0 .. MinsPerHour - 1
       /\ tm.sec \in 0 .. SecsPerMin - 1
       /\ SecondOf(tm.hour, tm.min, tm.sec) = second
  <2>1. /\ tm.hour = second \div SecsPerHour /\ tm.min = (second % SecsPerHour) \div SecsPerMin
        /\ tm.sec = second % SecsPerMin
    BY <1>10
  <2>2. QED BY <1>2, <2>1, FieldsOfSecond
<1>13. IsTimeOf(tm, day, second)
  BY <1>7, <1>8, <1>10, <1>11, <1>12 DEF IsTimeOf
<1>14. tm.yday = DaysTo(YEAR0 + tm.year)[tm.mon] + tm.mday - 1
  <2>1. tm.yday = y.yday /\ tm.mday = m.day + 1 /\ tm.mon = m.mon /\ tm.year = m.year
    BY <1>10
  <2>2. DaysTo(YEAR0 + m.year)[m.mon] \in Nat
    <3> DEFINE z == YEAR0 + m.year
    <3>1. z \in Int /\ m.mon \in 0 .. 12
      BY <1>8 DEF YEAR0
    <3> HIDE DEF z
    <3>2. DaysTo(z)[m.mon] \in Nat
      BY <3>1, DaysToMonths
    <3>3. QED BY <3>2 DEF z
  <2>3. QED BY <1>8, <1>9, <2>1, <2>2
<1>15. tm.year >= 70
  BY <1>4, <1>5, <1>8, <1>9, <1>10 DEF YEAR0
<1>16. /\ tm.wday = (day + 4) % 7
       /\ tm = [sec |-> tm.sec, min |-> tm.min, hour |-> tm.hour, mday |-> tm.mday,
                mon |-> tm.mon, year |-> tm.year, wday |-> tm.wday, yday |-> tm.yday]
  BY <1>10
<1>17. day \in Nat /\ clock \in Nat
  BY <1>1, <1>2
<1>18. QED BY <1>13, <1>14, <1>15, <1>16, <1>17 DEF tm, day, second, clock

-----------------------------------------------------------------------------
(***************************************************************************)
(* The calendar                                                            *)
(***************************************************************************)
\* One second, and how the fields of a time of day are carried.
LEMMA SecondInDay ==
  ASSUME NEW hour \in 0 .. HoursPerDay - 1, NEW min \in 0 .. MinsPerHour - 1,
         NEW sec \in 0 .. SecsPerMin - 1
  PROVE  SecondOf(hour, min, sec) \in 0 .. SECS_DAY - 1
<1>1. /\ SecsPerMin \in Nat \ {0} /\ MinsPerHour \in Nat \ {0} /\ HoursPerDay \in Nat \ {0}
      /\ SECS_DAY \in Nat \ {0}
      /\ hour \in Nat /\ min \in Nat /\ sec \in Nat
      /\ hour + 1 <= HoursPerDay /\ min + 1 <= MinsPerHour /\ sec + 1 <= SecsPerMin
  BY ClockSizes
<1> DEFINE m == hour * MinsPerHour + min
<1>2. m \in Nat /\ m + 1 <= HoursPerDay * MinsPerHour
  <2>1. (hour + 1) * MinsPerHour <= HoursPerDay * MinsPerHour
    BY <1>1
  <2>2. (hour + 1) * MinsPerHour = hour * MinsPerHour + MinsPerHour /\ hour * MinsPerHour \in Nat
    BY <1>1
  <2>3. HoursPerDay * MinsPerHour \in Nat
    BY <1>1
  <2>4. QED BY <1>1, <2>1, <2>2, <2>3
<1> DEFINE e == m * SecsPerMin
           all == HoursPerDay * MinsPerHour
<1>3. e \in Nat /\ e + SecsPerMin <= SECS_DAY
  <2>1. all \in Nat /\ all * SecsPerMin = SECS_DAY
    BY <1>1 DEF SECS_DAY, SecsPerHour
  <2> HIDE DEF m, all
  <2>2. (m + 1) * SecsPerMin <= all * SecsPerMin
    BY <1>1, <1>2, <2>1 DEF all
  <2>3. (m + 1) * SecsPerMin = e + SecsPerMin /\ e \in Nat
    BY <1>1, <1>2
  <2>4. QED BY <1>1, <2>1, <2>2, <2>3
<1>4. SecondOf(hour, min, sec) = e + sec
  BY DEF SecondOf
<1> HIDE DEF e
<1>5. QED BY <1>1, <1>3, <1>4

\* A second of the day is one time; one with a field that overflows is the
\* time with the next field one up.
LEMMA TimeUnique ==
  ASSUME NEW hour \in Int, NEW min \in 0 .. MinsPerHour - 1, NEW sec \in 0 .. SecsPerMin - 1,
         NEW h \in Int, NEW m \in 0 .. MinsPerHour - 1, NEW s \in 0 .. SecsPerMin - 1,
         SecondOf(hour, min, sec) = SecondOf(h, m, s)
  PROVE  hour = h /\ min = m /\ sec = s
<1>1. /\ SecondOf(hour, min, sec) % SecsPerMin = sec
      /\ (SecondOf(hour, min, sec) % SecsPerHour) \div SecsPerMin = min
      /\ SecondOf(hour, min, sec) \div SecsPerHour = hour
  BY SecondFields
<1>2. /\ SecondOf(h, m, s) % SecsPerMin = s
      /\ (SecondOf(h, m, s) % SecsPerHour) \div SecsPerMin = m
      /\ SecondOf(h, m, s) \div SecsPerHour = h
  BY SecondFields
<1>3. QED BY <1>1, <1>2

LEMMA Carries ==
  ASSUME NEW hour \in Int, NEW min \in Int, NEW sec \in Int
  PROVE  /\ SecondOf(hour, min, sec + 1) = SecondOf(hour, min, sec) + 1
         /\ sec + 1 = SecsPerMin => SecondOf(hour, min + 1, 0) = SecondOf(hour, min, sec) + 1
         /\ sec + 1 = SecsPerMin /\ min + 1 = MinsPerHour =>
               SecondOf(hour + 1, 0, 0) = SecondOf(hour, min, sec) + 1
         /\ SecondOf(HoursPerDay, 0, 0) = SECS_DAY
<1>1. SecsPerMin \in Nat /\ MinsPerHour \in Nat /\ HoursPerDay \in Nat
  BY ClockSizes
<1>2. SecondOf(hour, min, sec + 1) = SecondOf(hour, min, sec) + 1
  BY <1>1 DEF SecondOf
<1>3. sec + 1 = SecsPerMin => SecondOf(hour, min + 1, 0) = SecondOf(hour, min, sec) + 1
  BY <1>1 DEF SecondOf
<1>4. sec + 1 = SecsPerMin /\ min + 1 = MinsPerHour =>
               SecondOf(hour + 1, 0, 0) = SecondOf(hour, min, sec) + 1
  BY <1>1 DEF SecondOf
<1>5. SecondOf(HoursPerDay, 0, 0) = SECS_DAY
  BY <1>1 DEF SecondOf, SECS_DAY, SecsPerHour
<1>6. QED BY <1>2, <1>3, <1>4, <1>5

\* The calendar and the tables of the code agree.
LEMMA CalendarTables ==
  ASSUME NEW year \in Int, NEW mon \in 0 .. 11
  PROVE  /\ Cal!IsLeap(year) <=> LEAPYEAR(YEAR0 + year)
         /\ Cal!MonthDays(year)[mon + 1] = ytab(YEAR0 + year)[mon]
<1>1. YEAR0 + year = year + 1900 /\ year + 1900 \in Int
  BY DEF YEAR0
<1>2. \A y \in Int : y % 400 = 0 => y % 4 = 0
  OBVIOUS
<1>3. Cal!IsLeap(year) <=> LEAPYEAR(YEAR0 + year)
  BY <1>1, <1>2 DEF Cal!IsLeap, LEAPYEAR
<1>4. mon \in {0, 1, 2, 3, 4, 5, 6, 7, 8, 9, 10, 11}
  OBVIOUS
<1>5. Cal!MonthDays(year)[mon + 1] = ytab(YEAR0 + year)[mon]
  BY <1>3, <1>4 DEF Cal!MonthDays, ytab
<1>6. QED BY <1>3, <1>5

\* The calendar's tick, for any date.
SameDay(d, hour, min, sec) ==
    [year |-> d.year, mon |-> d.mon, mday |-> d.mday, wday |-> d.wday, yday |-> d.yday,
     hour |-> hour, min |-> min, sec |-> sec]

NewDay(d) ==
    LET endOfMonth == d.mday = Cal!MonthDays(d.year)[d.mon + 1]
        endOfYear == endOfMonth /\ d.mon = 11
    IN  [year |-> IF endOfYear THEN d.year + 1 ELSE d.year,
         mon  |-> IF endOfYear THEN 0 ELSE IF endOfMonth THEN d.mon + 1 ELSE d.mon,
         mday |-> IF endOfMonth THEN 1 ELSE d.mday + 1,
         wday |-> (d.wday + 1) % 7,
         yday |-> IF endOfYear THEN 0 ELSE d.yday + 1,
         hour |-> 0, min |-> 0, sec |-> 0]

AfterTick(d) ==
    IF d.sec + 1 < SecsPerMin THEN SameDay(d, d.hour, d.min, d.sec + 1)
    ELSE IF d.min + 1 < MinsPerHour THEN SameDay(d, d.hour, d.min + 1, 0)
    ELSE IF d.hour + 1 < HoursPerDay THEN SameDay(d, d.hour + 1, 0, 0)
    ELSE NewDay(d)

\* A date with its day of the week and of the year.
ShowsDay(tm, day, second) ==
    /\ IsTimeOf(tm, day, second)
    /\ tm.wday = (day + 4) % 7
    /\ tm.yday = DaysTo(YEAR0 + tm.year)[tm.mon] + tm.mday - 1
    /\ tm = [sec |-> tm.sec, min |-> tm.min, hour |-> tm.hour, mday |-> tm.mday,
             mon |-> tm.mon, year |-> tm.year, wday |-> tm.wday, yday |-> tm.yday]

\* What the calendar shows a second later, on the same day and at midnight.
LEMMA SameDayShown ==
  ASSUME NEW d, NEW e, NEW day \in Nat, NEW second \in Int, NEW later \in Int,
         ShowsDay(d, day, second), ShowsDay(e, day, later),
         NEW hour \in 0 .. HoursPerDay - 1, NEW min \in 0 .. MinsPerHour - 1,
         NEW sec \in 0 .. SecsPerMin - 1,
         SecondOf(hour, min, sec) = later
  PROVE  e = SameDay(d, hour, min, sec)
<1>1. DateOf(e) = DateOf(d)
  BY DateUnique DEF ShowsDay, IsTimeOf
<1>2. e.year = d.year /\ e.mon = d.mon /\ e.mday - 1 = d.mday - 1 /\ e.mday \in Int /\ d.mday \in Int
  BY <1>1 DEF DateOf, ShowsDay, IsTimeOf
<1>3. e.mday = d.mday
  BY <1>2
<1>4. e.hour = hour /\ e.min = min /\ e.sec = sec
  <2>1. /\ e.hour \in 0 .. HoursPerDay - 1 /\ e.min \in 0 .. MinsPerHour - 1
        /\ e.sec \in 0 .. SecsPerMin - 1 /\ SecondOf(e.hour, e.min, e.sec) = later
    BY DEF ShowsDay, IsTimeOf
  <2>2. e.hour \in Int /\ hour \in Int
    BY <2>1, ClockSizes
  <2>3. QED BY <2>1, <2>2, TimeUnique
<1>5. e.wday = d.wday /\ e.yday = d.yday
  BY <1>2, <1>3 DEF ShowsDay
<1>6. e = [sec |-> e.sec, min |-> e.min, hour |-> e.hour, mday |-> e.mday,
           mon |-> e.mon, year |-> e.year, wday |-> e.wday, yday |-> e.yday]
  BY DEF ShowsDay
<1>7. QED BY <1>2, <1>3, <1>4, <1>5, <1>6 DEF SameDay

LEMMA NewDayShown ==
  ASSUME NEW d, NEW e, NEW day \in Nat, NEW second \in Int,
         ShowsDay(d, day, second), ShowsDay(e, day + 1, 0)
  PROVE  e = NewDay(d)
<1> DEFINE r == DateOf(d)
           q == DateOf(e)
           y == YEAR0 + d.year
           length == ytab(y)[d.mon]
<1>1. /\ r \in DayOfMonth /\ q \in DayOfMonth /\ InMonth(r) /\ InMonth(q)
      /\ DayCount(r) = DaysBefore(EPOCH_YR) + day
      /\ DayCount(q) = DaysBefore(EPOCH_YR) + (day + 1)
      /\ DaysBefore(EPOCH_YR) \in Int
  <2>1. DaysBefore(EPOCH_YR) \in Int
    BY DaysBeforeNext DEF EPOCH_YR
  <2>2. QED BY <2>1 DEF ShowsDay, IsTimeOf
<1>2. q = DayAfter(r)
  <2> HIDE DEF r, q
  <2>1. DayCount(q) = DayCount(r) + 1
    BY <1>1
  <2>2. QED BY <1>1, <2>1, DayAfterIs
<1>3. /\ d.year \in Int /\ d.mon \in 0 .. 11 /\ d.mday \in Int /\ e.mday \in Int
      /\ d.mday - 1 \in 0 .. length - 1 /\ length \in 28 .. 31 /\ y \in Int
      /\ r.year = d.year /\ r.mon = d.mon /\ r.day = d.mday - 1
      /\ q.year = e.year /\ q.mon = e.mon /\ q.day = e.mday - 1
  <2>1. /\ r.year = d.year /\ r.mon = d.mon /\ r.day = d.mday - 1
        /\ q.year = e.year /\ q.mon = e.mon /\ q.day = e.mday - 1
    BY DEF DateOf
  <2>2. d.mday \in Int /\ e.mday \in Int
    BY DEF ShowsDay, IsTimeOf
  <2> HIDE DEF r, q
  <2>3. d.year \in Int /\ d.mon \in 0 .. 11 /\ length \in 28 .. 31
    BY <1>1, <2>1, RoundsTyped
  <2>4. y \in Int
    BY <2>3 DEF YEAR0
  <2>5. d.mday - 1 \in 0 .. length - 1
    BY <1>1, <2>1 DEF InMonth
  <2>6. QED BY <2>1, <2>2, <2>3, <2>4, <2>5
<1>4. Cal!MonthDays(d.year)[d.mon + 1] = length
  BY <1>3, CalendarTables
<1>5. e.hour = 0 /\ e.min = 0 /\ e.sec = 0
  <2>1. /\ e.hour \in 0 .. HoursPerDay - 1 /\ e.min \in 0 .. MinsPerHour - 1
        /\ e.sec \in 0 .. SecsPerMin - 1 /\ SecondOf(e.hour, e.min, e.sec) = 0
    BY DEF ShowsDay, IsTimeOf
  <2>2. /\ e.hour \in Int /\ 0 \in 0 .. MinsPerHour - 1 /\ 0 \in 0 .. SecsPerMin - 1
        /\ SecondOf(0, 0, 0) = 0
    BY <2>1, ClockSizes DEF SecondOf
  <2>3. QED BY <2>1, <2>2, TimeUnique
<1>6. e.wday = (d.wday + 1) % 7
  <2>1. d.wday = (day + 4) % 7 /\ e.wday = ((day + 1) + 4) % 7
    BY DEF ShowsDay
  <2>2. \A n \in Nat : ((n + 1) + 4) % 7 = (((n + 4) % 7) + 1) % 7
    OBVIOUS
  <2>3. QED BY <2>1, <2>2
<1>7. /\ d.yday = DaysTo(y)[d.mon] + d.mday - 1
      /\ e.yday = DaysTo(YEAR0 + e.year)[e.mon] + e.mday - 1
      /\ e = [sec |-> e.sec, min |-> e.min, hour |-> e.hour, mday |-> e.mday,
              mon |-> e.mon, year |-> e.year, wday |-> e.wday, yday |-> e.yday]
  BY DEF ShowsDay
<1>8. /\ DaysTo(y)[d.mon] \in Nat /\ DaysTo(y)[d.mon + 1] = DaysTo(y)[d.mon] + length
  <2> HIDE DEF y
  <2>1. d.mon \in 0 .. 12
    BY <1>3
  <2>2. QED BY <1>3, <2>1, DaysToMonths
<1>9. CASE d.mday # length
  <2>1. d.mday < length
    BY <1>3, <1>9
  <2>2. q = [year |-> d.year, mon |-> d.mon, day |-> d.mday]
    BY <1>2, <1>3, <2>1 DEF DayAfter
  <2>3. e.year = d.year /\ e.mon = d.mon /\ e.mday = d.mday + 1
    <3> HIDE DEF q
    <3>1. q.year = d.year /\ q.mon = d.mon /\ q.day = d.mday
      BY <2>2
    <3>2. QED BY <1>3, <3>1
  <2>4. e.yday = d.yday + 1
    <3> HIDE DEF y
    <3>1. YEAR0 + e.year = y
      BY <2>3 DEF y
    <3>2. QED BY <1>3, <1>7, <1>8, <2>3, <3>1
  <2> HIDE DEF y, length
  <2>5. QED BY <1>4, <1>5, <1>6, <1>7, <1>9, <2>3, <2>4 DEF NewDay
<1>10. CASE d.mday = length /\ d.mon # 11
  <2>1. ~(r.day + 1 < length) /\ d.mon < 11
    BY <1>3, <1>10
  <2>2. q = [year |-> d.year, mon |-> d.mon + 1, day |-> 0]
    BY <1>2, <1>3, <2>1 DEF DayAfter
  <2>3. e.year = d.year /\ e.mon = d.mon + 1 /\ e.mday = 1
    <3> HIDE DEF q
    <3>1. q.year = d.year /\ q.mon = d.mon + 1 /\ q.day = 0
      BY <2>2
    <3>2. QED BY <1>3, <3>1
  <2>4. e.yday = d.yday + 1
    <3> HIDE DEF y, length
    <3>1. YEAR0 + e.year = y
      BY <2>3 DEF y
    <3>2. QED BY <1>3, <1>7, <1>8, <1>10, <2>3, <3>1
  <2> HIDE DEF y, length
  <2>5. QED BY <1>4, <1>5, <1>6, <1>7, <1>10, <2>3, <2>4 DEF NewDay
<1>11. CASE d.mday = length /\ d.mon = 11
  <2>1. ~(r.day + 1 < length) /\ ~(d.mon < 11)
    BY <1>3, <1>11
  <2>2. q = [year |-> d.year + 1, mon |-> 0, day |-> 0]
    BY <1>2, <1>3, <2>1 DEF DayAfter
  <2>3. e.year = d.year + 1 /\ e.mon = 0 /\ e.mday = 1
    <3> HIDE DEF q
    <3>1. q.year = d.year + 1 /\ q.mon = 0 /\ q.day = 0
      BY <2>2
    <3>2. QED BY <1>3, <3>1
  <2>4. e.yday = 0
    <3> DEFINE z == YEAR0 + e.year
    <3>1. z \in Int
      BY <1>3, <2>3 DEF YEAR0
    <3>2. e.yday = DaysTo(z)[0] + 1 - 1
      BY <1>7, <2>3
    <3> HIDE DEF z
    <3>3. DaysTo(z)[0] = 0
      BY <3>1, DaysToMonths
    <3>4. QED BY <3>2, <3>3
  <2> HIDE DEF y, length
  <2>5. QED BY <1>4, <1>5, <1>6, <1>7, <1>11, <2>3, <2>4 DEF NewDay
<1>12. QED BY <1>9, <1>10, <1>11

\* xi_gmtime shows the time of every second, and of the next one as the
\* calendar counts on.
LEMMA GmtimeShowsDay ==
  ASSUME NEW time \in 0 .. ULongMax
  PROVE  /\ time \div SECS_DAY \in Nat /\ time % SECS_DAY \in 0 .. SECS_DAY - 1
         /\ time = SECS_DAY * (time \div SECS_DAY) + (time % SECS_DAY)
         /\ ShowsDay(xi_gmtime(time), time \div SECS_DAY, time % SECS_DAY)
<1>1. time \in Int /\ ULongMax \in Nat /\ SECS_DAY \in Nat \ {0} /\ ULongMax + 1 \in Nat \ {0}
  BY ClockSizes
<1>2. UnsignedOf(time) = time
  <2>1. time = (ULongMax + 1) * 0 + time /\ time \in 0 .. (ULongMax + 1) - 1
    BY <1>1
  <2>2. QED BY <1>1, <2>1, DivModIs DEF UnsignedOf
<1>3. time \div SECS_DAY \in Nat /\ ShowsDay(xi_gmtime(time), time \div SECS_DAY, time % SECS_DAY)
  BY <1>1, <1>2, GmtimeShows DEF ShowsDay
<1>4. QED BY <1>1, <1>3, DivMod

LEMMA NextSecondShown ==
  ASSUME NEW time \in Nat, time + 1 <= ULongMax
  PROVE  xi_gmtime(time + 1) = AfterTick(xi_gmtime(time))
<1> DEFINE d == xi_gmtime(time)
           e == xi_gmtime(time + 1)
           day == time \div SECS_DAY
           second == time % SECS_DAY
<1>1. ULongMax \in Nat /\ SECS_DAY \in Nat \ {0} /\ time \in 0 .. ULongMax /\ time + 1 \in 0 .. ULongMax
  BY ClockSizes
<1>2. /\ day \in Nat /\ second \in 0 .. SECS_DAY - 1 /\ time = SECS_DAY * day + second
      /\ ShowsDay(d, day, second)
      /\ ShowsDay(e, (time + 1) \div SECS_DAY, (time + 1) % SECS_DAY)
  BY <1>1, GmtimeShowsDay
<1>3. /\ d.hour \in 0 .. HoursPerDay - 1 /\ d.min \in 0 .. MinsPerHour - 1
      /\ d.sec \in 0 .. SecsPerMin - 1
      /\ SecondOf(d.hour, d.min, d.sec) = second
  BY <1>2 DEF ShowsDay, IsTimeOf
<1> SUFFICES e = AfterTick(d)
  OBVIOUS
<1> HIDE DEF d, e, day, second
<1>4. /\ d.hour \in Int /\ d.min \in Int /\ d.sec \in Int /\ second \in Int
      /\ HoursPerDay \in Nat \ {0} /\ MinsPerHour \in Nat \ {0} /\ SecsPerMin \in Nat \ {0}
  BY <1>1, <1>2, <1>3, ClockSizes
<1>c. /\ SecondOf(d.hour, d.min, d.sec + 1) = second + 1
      /\ d.sec + 1 = SecsPerMin => SecondOf(d.hour, d.min + 1, 0) = second + 1
      /\ d.sec + 1 = SecsPerMin /\ d.min + 1 = MinsPerHour =>
            SecondOf(d.hour + 1, 0, 0) = second + 1
      /\ SecondOf(HoursPerDay, 0, 0) = SECS_DAY
  <2> DEFINE hour == d.hour
             min == d.min
             sec == d.sec
  <2>1. hour \in Int /\ min \in Int /\ sec \in Int /\ SecondOf(hour, min, sec) = second
    BY <1>3, <1>4
  <2> HIDE DEF hour, min, sec
  <2>2. /\ SecondOf(hour, min, sec + 1) = second + 1
        /\ sec + 1 = SecsPerMin => SecondOf(hour, min + 1, 0) = second + 1
        /\ sec + 1 = SecsPerMin /\ min + 1 = MinsPerHour => SecondOf(hour + 1, 0, 0) = second + 1
        /\ SecondOf(HoursPerDay, 0, 0) = SECS_DAY
    BY <2>1, Carries
  <2>3. QED BY <2>2 DEF hour, min, sec
\* Within the day.
<1>5. ASSUME NEW hour \in 0 .. HoursPerDay - 1, NEW min \in 0 .. MinsPerHour - 1,
             NEW sec \in 0 .. SecsPerMin - 1,
             SecondOf(hour, min, sec) = second + 1
      PROVE  e = SameDay(d, hour, min, sec)
  <2>1. second + 1 \in 0 .. SECS_DAY - 1
    BY <1>5, SecondInDay
  <2>2. time + 1 = SECS_DAY * day + (second + 1) /\ time + 1 \in Int /\ day \in Int
    <3>1. SECS_DAY * day \in Int
      BY <1>1, <1>2
    <3>2. QED BY <1>2, <1>4, <3>1
  <2>3. (time + 1) \div SECS_DAY = day /\ (time + 1) % SECS_DAY = second + 1
    <3> DEFINE t == time + 1
               s == second + 1
    <3> HIDE DEF t, s
    <3>1. /\ t \in Int /\ s \in 0 .. SECS_DAY - 1 /\ t = SECS_DAY * day + s
          /\ day \in Int /\ SECS_DAY \in Nat \ {0}
      BY <1>1, <2>1, <2>2 DEF t, s
    <3>2. t \div SECS_DAY = day /\ t % SECS_DAY = s
      BY <3>1, DivModIs
    <3>3. QED BY <3>2 DEF t, s
  <2>4. ShowsDay(e, day, second + 1)
    BY <1>2, <2>3
  <2>5. second + 1 \in Int
    BY <1>4
  <2>6. QED BY <1>2, <1>4, <1>5, <2>4, <2>5, SameDayShown
<1>6. CASE d.sec + 1 < SecsPerMin
  <2>1. d.sec + 1 \in 0 .. SecsPerMin - 1
    BY <1>3, <1>4, <1>6
  <2>2. SecondOf(d.hour, d.min, d.sec + 1) = second + 1
    BY <1>c
  <2>3. QED BY <1>3, <1>5, <1>6, <2>1, <2>2 DEF AfterTick
<1>7. CASE ~(d.sec + 1 < SecsPerMin) /\ d.min + 1 < MinsPerHour
  <2>1. d.sec + 1 = SecsPerMin /\ d.min + 1 \in 0 .. MinsPerHour - 1 /\ 0 \in 0 .. SecsPerMin - 1
    BY <1>3, <1>4, <1>7
  <2>2. SecondOf(d.hour, d.min + 1, 0) = second + 1
    BY <1>c, <2>1
  <2>3. QED BY <1>3, <1>5, <1>7, <2>1, <2>2 DEF AfterTick
<1>8. CASE ~(d.sec + 1 < SecsPerMin) /\ ~(d.min + 1 < MinsPerHour) /\ d.hour + 1 < HoursPerDay
  <2>1. /\ d.sec + 1 = SecsPerMin /\ d.min + 1 = MinsPerHour /\ d.hour + 1 \in 0 .. HoursPerDay - 1
        /\ 0 \in 0 .. SecsPerMin - 1 /\ 0 \in 0 .. MinsPerHour - 1
    BY <1>3, <1>4, <1>8
  <2>2. SecondOf(d.hour + 1, 0, 0) = second + 1
    BY <1>c, <2>1
  <2>3. QED BY <1>5, <1>8, <2>1, <2>2 DEF AfterTick
<1>9. CASE ~(d.sec + 1 < SecsPerMin) /\ ~(d.min + 1 < MinsPerHour) /\ ~(d.hour + 1 < HoursPerDay)
  <2>1. d.sec + 1 = SecsPerMin /\ d.min + 1 = MinsPerHour /\ d.hour + 1 = HoursPerDay
    BY <1>3, <1>4, <1>9
  <2>2. second + 1 = SECS_DAY
    BY <1>c, <2>1
  <2>3. time + 1 = SECS_DAY * (day + 1) + 0 /\ day + 1 \in Int /\ 0 \in 0 .. SECS_DAY - 1
        /\ time + 1 \in Int
    <3>1. SECS_DAY * day \in Int /\ SECS_DAY * (day + 1) = SECS_DAY * day + SECS_DAY
      BY <1>1, <1>2
    <3>2. QED BY <1>1, <1>2, <1>4, <2>2, <3>1
  <2>4. (time + 1) \div SECS_DAY = day + 1 /\ (time + 1) % SECS_DAY = 0
    BY <1>1, <2>3, DivModIs
  <2>5. ShowsDay(e, day + 1, 0)
    BY <1>2, <2>4
  <2>6. e = NewDay(d)
    BY <1>2, <1>4, <2>5, NewDayShown
  <2>7. QED BY <1>9, <2>6 DEF AfterTick
<1>10. QED BY <1>6, <1>7, <1>8, <1>9

\* The calendar of xi_gmtime begins as history's did: on a Thursday, 1 January
\* 1970 (xi_time.c:131).
THEOREM EpochDate ==
    xi_gmtime(0) = [sec |-> 0, min |-> 0, hour |-> 0, mday |-> 1, mon |-> 0, year |-> 70,
                    wday |-> 4, yday |-> 0]
<1> DEFINE first == [year |-> 1970, yday |-> 0]
           start == [year |-> 70, mon |-> 0, day |-> 0]
<1>1. /\ SECS_DAY \in Nat \ {0} /\ SecsPerMin \in Nat \ {0} /\ SecsPerHour \in Nat \ {0}
      /\ ULongMax + 1 \in Nat \ {0}
  BY ClockSizes
<1>2. \A b \in Nat \ {0} : 0 % b = 0 /\ 0 \div b = 0
  <2>1. ASSUME NEW b \in Nat \ {0} PROVE 0 % b = 0 /\ 0 \div b = 0
    <3>1. 0 = b * 0 + 0 /\ 0 \in 0 .. b - 1
      OBVIOUS
    <3>2. QED BY <3>1, DivModIs
  <2>2. QED BY <2>1
<1>3. YearOf[first] = first
  <2>1. first \in DayOfYear /\ first.yday < YEARSIZE(first.year)
    BY YearSizes DEF DayOfYear
  <2> HIDE DEF first
  <2>2. QED BY <2>1, YearOfStep
<1>4. OnMonths[start] = start
  <2>1. start \in DayOfMonth /\ start.day = 0
    BY DEF DayOfMonth
  <2> HIDE DEF start
  <2>2. ytab(YEAR0 + start.year)[start.mon] \in 28 .. 31
    BY <2>1, RoundsTyped
  <2>3. start.day < ytab(YEAR0 + start.year)[start.mon]
    BY <2>1, <2>2
  <2>4. QED BY <2>1, <2>3, OnMonthsStep
<1>5. MonthOf(first) = start
  <2>1. MonthOf(first) = OnMonths[[year |-> 1970 - 1900, mon |-> 0, day |-> 0]]
    BY DEF MonthOf, YEAR0
  <2>2. 1970 - 1900 = 70
    OBVIOUS
  <2>3. QED BY <1>4, <2>1, <2>2
<1>6. 0 % (ULongMax + 1) = 0 /\ 0 % SECS_DAY = 0 /\ 0 \div SECS_DAY = 0 /\ 0 % SecsPerMin = 0
      /\ 0 % SecsPerHour = 0 /\ 0 \div SecsPerMin = 0 /\ 0 \div SecsPerHour = 0 /\ (0 + 4) % 7 = 4
  BY <1>1, <1>2
<1>7. xi_gmtime(0) = [sec |-> 0, min |-> 0, hour |-> 0, mday |-> MonthOf(YearOf[first]).day + 1,
                      mon |-> MonthOf(YearOf[first]).mon, year |-> MonthOf(YearOf[first]).year,
                      wday |-> 4, yday |-> YearOf[first].yday]
  BY <1>6 DEF xi_gmtime, EPOCH_YR
<1>8. QED BY <1>3, <1>5, <1>7

\* The clock stays within its times, and its tick is the calendar's.
LEMMA ClockStays ==
  ASSUME now \in Clock, [Next]_vars
  PROVE  now' \in Clock
  BY DEF Next, vars, xi_set_value_i32, xi_set_value_f32, xi_set_value_str, Changed, Stamp, Clear,
         Tick, Encode, Decode, Receive

LEMMA TickIsCalendars ==
  ASSUME now \in Clock, [Next]_vars
  PROVE  [Cal!Tick]_(Cal!vars)
<1>1. CASE Tick
  <2>1. now \in Nat /\ now' = now + 1 /\ now' \in Clock /\ now' <= ULongMax
    BY <1>1, ClockSizes, DatapointAssumption DEF Tick, DatapointAssumption, ULongMax
  <2>2. Shown[now]' = AfterTick(Shown[now])
    BY <2>1, NextSecondShown DEF Shown
  <2>3. QED BY <2>2 DEF Cal!Tick, Cal!At, Cal!NextDay, AfterTick, SameDay, NewDay
<1>2. CASE now' = now
  BY <1>2 DEF Cal!vars
<1>3. QED BY <1>1, <1>2 DEF Next, vars, xi_set_value_i32, xi_set_value_f32, xi_set_value_str, Changed, Stamp, Clear,
         Encode, Decode, Receive

\* Where the starts are dates, the time goes on as the calendar does
\* (xi_time.c:117-151): the fields of every second are those of the second
\* before, with one carried from field to field.
THEOREM ShowsCalendar ==
  ASSUME \A t \in ClockStarts : xi_gmtime(t) \in Dates
  PROVE  Spec => CalendarSpec
<1>1. Init => now \in Clock
  BY DatapointAssumption DEF Init, DatapointAssumption
<1>2. Init => Cal!Init
  BY DatapointAssumption DEF Init, Cal!Init, Shown, DatapointAssumption
<1>3. now \in Clock /\ [Next]_vars => (now \in Clock)'
  BY ClockStays
<1>4. now \in Clock /\ [Next]_vars => [Cal!Tick]_(Cal!vars)
  BY TickIsCalendars
<1>5. QED BY <1>1, <1>2, <1>3, <1>4, PTL DEF Spec, CalendarSpec, Cal!Spec

-----------------------------------------------------------------------------
(***************************************************************************)
(* Integers of a width                                                     *)
(***************************************************************************)
LEMMA WrappedIs ==
  ASSUME NEW max \in Nat \ {0}, NEW n \in Int
  PROVE  /\ Wrapped(n, max) \in -max - 1 .. max
         /\ \E k \in Int : Wrapped(n, max) = n + (2 * (max + 1)) * k
<1> DEFINE w == 2 * (max + 1)
           a == n + max + 1
<1>1. w \in Nat \ {0} /\ a \in Int
  OBVIOUS
<1>2. a \div w \in Int /\ a % w \in 0 .. w - 1 /\ a = w * (a \div w) + (a % w)
  <2> HIDE DEF w, a
  <2>1. QED BY <1>1, DivMod
<1>3. Wrapped(n, max) = (a % w) - (max + 1)
  BY DEF Wrapped
<1> DEFINE q == a \div w
           r == a % w
<1> HIDE DEF q, r
<1>4. q \in Int /\ r \in 0 .. w - 1 /\ a = w * q + r /\ Wrapped(n, max) = r - (max + 1)
  BY <1>2, <1>3 DEF q, r
<1>5. Wrapped(n, max) \in -max - 1 .. max
  BY <1>4
<1>6. Wrapped(n, max) = n + w * (-q)
  <2> DEFINE x == w * q
  <2>1. x \in Int /\ w * (-q) = -x
    BY <1>1, <1>4
  <2>2. n + max + 1 = x + r
    BY <1>4
  <2> HIDE DEF x, w
  <2>3. QED BY <1>4, <2>1, <2>2
<1>7. -q \in Int
  BY <1>4
<1>8. QED BY <1>5, <1>6, <1>7

\* The only value of the width that differs from n by a multiple of 2^w.
LEMMA WrappedUnique ==
  ASSUME NEW max \in Nat \ {0}, NEW n \in Int, NEW v \in -max - 1 .. max, NEW k \in Int,
         v = n + (2 * (max + 1)) * k
  PROVE  Wrapped(n, max) = v
<1> DEFINE w == 2 * (max + 1)
           a == n + max + 1
           r == v + max + 1
           x == w * k
<1>1. w \in Nat \ {0} /\ a \in Int /\ r \in 0 .. w - 1 /\ -k \in Int /\ x \in Int /\ w * (-k) = -x
  OBVIOUS
<1>2. a = w * (-k) + r
  <2>1. v = n + x
    OBVIOUS
  <2> HIDE DEF x, w
  <2>2. QED BY <1>1, <2>1
<1>3. a % w = r
  <2> HIDE DEF a, w, r, x
  <2>1. QED BY <1>1, <1>2, DivModIs
<1>4. Wrapped(n, max) = (a % w) - (max + 1)
  BY DEF Wrapped
<1>5. QED BY <1>3, <1>4

\* A value that fits stays as it is; a larger one is negative.
LEMMA WrappedFits ==
  ASSUME NEW max \in Nat \ {0}, NEW n \in Int
  PROVE  /\ n \in -max - 1 .. max => Wrapped(n, max) = n
         /\ n \in max + 1 .. 2 * max + 1 => Wrapped(n, max) < 0
<1>1. n \in -max - 1 .. max => Wrapped(n, max) = n
  <2> DEFINE k == 0
  <2>1. k \in Int /\ n = n + (2 * (max + 1)) * k
    OBVIOUS
  <2> HIDE DEF k
  <2>2. QED BY <2>1, WrappedUnique
<1>2. n \in max + 1 .. 2 * max + 1 => Wrapped(n, max) < 0
  <2> SUFFICES ASSUME n \in max + 1 .. 2 * max + 1 PROVE Wrapped(n, max) < 0
    OBVIOUS
  <2> DEFINE v == n - 2 * (max + 1)
  <2>1. v \in -max - 1 .. max /\ v = n + (2 * (max + 1)) * (-1) /\ -1 \in Int /\ v < 0
    OBVIOUS
  <2> HIDE DEF v
  <2>2. Wrapped(n, max) = v
    BY <2>1, WrappedUnique
  <2>3. QED BY <2>1, <2>2
<1>3. QED BY <1>1, <1>2

\* Wrapping to long first makes no difference to an int.
LEMMA WrappedTwice ==
  ASSUME NEW n \in Int
  PROVE  Wrapped(Wrapped(n, LongMax), IntMax) = Wrapped(n, IntMax)
<1> DEFINE v == Wrapped(n, LongMax)
           u == Wrapped(v, IntMax)
           w == 2 * (IntMax + 1)
           c == (LongMax + 1) \div (IntMax + 1)
<1>1. IntMax \in Nat \ {0} /\ LongMax \in Nat \ {0} /\ (LongMax + 1) % (IntMax + 1) = 0
  BY ClockSizes, TimeAssumption DEF TimeAssumption
<1>2. c \in Int /\ 2 * (LongMax + 1) = w * c
  <2> DEFINE a == LongMax + 1
             b == IntMax + 1
  <2>1. a \in Int /\ b \in Nat \ {0} /\ a % b = 0
    BY <1>1
  <2>2. c = a \div b /\ w = 2 * b
    OBVIOUS
  <2> HIDE DEF a, b, c, w
  <2>3. c \in Int /\ a = b * c
    BY <2>1, <2>2, DivMod
  <2>4. 2 * a = w * c
    BY <2>1, <2>2, <2>3
  <2>5. QED BY <2>3, <2>4 DEF a
<1>3. PICK k \in Int : v = n + (2 * (LongMax + 1)) * k
  BY <1>1, WrappedIs
<1>4. v \in Int
  BY <1>1, <1>3
<1>5. PICK j \in Int : u = v + w * j
  <2> HIDE DEF v
  <2>1. QED BY <1>1, <1>4, WrappedIs
<1>6. u \in -IntMax - 1 .. IntMax
  <2> HIDE DEF v
  <2>1. QED BY <1>1, <1>4, WrappedIs
<1> HIDE DEF u, v, c, w
<1> DEFINE i == c * k + j
<1>7. i \in Int /\ w \in Int
  BY <1>1, <1>2 DEF w
<1>8. u = n + w * i
  <2>1. v = n + (w * c) * k
    BY <1>2, <1>3
  <2>2. (w * c) * k + w * j = w * i
    BY <1>2, <1>7
  <2>3. (w * c) * k \in Int /\ w * j \in Int
    BY <1>2, <1>7
  <2> HIDE DEF i
  <2>4. QED BY <1>5, <2>1, <2>2, <2>3
<1> HIDE DEF i
<1>9. Wrapped(n, IntMax) = u
  BY <1>1, <1>6, <1>7, <1>8, WrappedUnique DEF w
<1>10. QED BY <1>9 DEF u, v

-----------------------------------------------------------------------------
(***************************************************************************)
(* What xi_mktime makes of the fields of a time                            *)
(***************************************************************************)
TimeFields == [year : Int, mon : Int, mday : Int, hour : Int, min : Int, sec : Int]

\* The first day of a time whose fields may be out of range, and its seconds
\* since 1970.
StartOf(tm) ==
    [year |-> tm.year + tm.mon \div 12, mon |-> tm.mon % 12, day |-> tm.mday - 1]

SecondsSince(tm) ==
    SECS_DAY * (DayCount(StartOf(tm)) - DaysBefore(EPOCH_YR)) + SecondOf(tm.hour, tm.min, tm.sec)

\* Any fields begin on some day; xi_mktime makes them a date and a time of day
\* that are as many seconds from 1970.
LEMMA StartTyped ==
  ASSUME NEW tm \in TimeFields
  PROVE  /\ StartOf(tm) \in DayOfMonth /\ DayCount(StartOf(tm)) \in Int
         /\ StartOf(tm).year = tm.year + tm.mon \div 12 /\ StartOf(tm).mon = tm.mon % 12
         /\ StartOf(tm).day = tm.mday - 1
         /\ SecondOf(tm.hour, tm.min, tm.sec) \in Int
         /\ DaysBefore(EPOCH_YR) \in Int /\ SecondsSince(tm) \in Int
<1>1. /\ tm.year \in Int /\ tm.mon \in Int /\ tm.mday \in Int
      /\ tm.hour \in Int /\ tm.min \in Int /\ tm.sec \in Int
  BY DEF TimeFields
<1>2. tm.year + tm.mon \div 12 \in Int /\ tm.mon % 12 \in 0 .. 11 /\ tm.mday - 1 \in Int
  BY <1>1
<1>3. StartOf(tm) \in DayOfMonth
  BY <1>2 DEF StartOf, DayOfMonth
<1>4. DayCount(StartOf(tm)) \in Int
  BY <1>3, RoundsCount
<1>5. DaysBefore(EPOCH_YR) \in Int
  <2>1. EPOCH_YR \in Int
    BY DEF EPOCH_YR
  <2>2. QED BY <2>1, DaysBeforeNext
<1>6. SecondOf(tm.hour, tm.min, tm.sec) \in Int
  BY <1>1, ClockSizes DEF SecondOf
<1>7. SecondsSince(tm) \in Int
  BY <1>4, <1>5, <1>6, ClockSizes DEF SecondsSince
<1>8. QED BY <1>3, <1>4, <1>5, <1>6, <1>7 DEF StartOf

LEMMA NormalisedIs ==
  ASSUME NEW timep \in TimeFields
  PROVE  LET tm == Normalised(timep)
         IN  /\ DateOf(tm) \in DayOfMonth /\ InMonth(DateOf(tm)) /\ tm.mday \in Int
             /\ tm.hour \in 0 .. HoursPerDay - 1 /\ tm.min \in 0 .. MinsPerHour - 1
             /\ tm.sec \in 0 .. SecsPerMin - 1
             /\ SECS_DAY * (DayCount(DateOf(tm)) - DaysBefore(EPOCH_YR))
                  + SecondOf(tm.hour, tm.min, tm.sec) = SecondsSince(timep)
<1> DEFINE min == timep.min + timep.sec \div SecsPerMin
           hour == timep.hour + min \div MinsPerHour
           days == hour \div HoursPerDay
           s == StartOf(timep)
           u == [year |-> timep.year + timep.mon \div 12, mon |-> timep.mon % 12,
                 day |-> days + timep.mday - 1]
           d == OnMonths[BackMonths[u]]
           tm == Normalised(timep)
<1>1. /\ timep.year \in Int /\ timep.mon \in Int /\ timep.mday \in Int
      /\ timep.hour \in Int /\ timep.min \in Int /\ timep.sec \in Int
      /\ SecsPerMin \in Nat \ {0} /\ MinsPerHour \in Nat \ {0} /\ HoursPerDay \in Nat \ {0}
      /\ SECS_DAY \in Nat \ {0}
  BY ClockSizes DEF TimeFields
<1>2. tm = [sec |-> timep.sec % SecsPerMin, min |-> min % MinsPerHour,
            hour |-> hour % HoursPerDay, mday |-> d.day + 1, mon |-> d.mon, year |-> d.year]
  BY DEF Normalised
<1>3. /\ timep.sec \div SecsPerMin \in Int /\ timep.sec % SecsPerMin \in 0 .. SecsPerMin - 1
      /\ timep.sec = SecsPerMin * (timep.sec \div SecsPerMin) + (timep.sec % SecsPerMin)
  BY <1>1, DivMod
<1>4. min \in Int
  BY <1>1, <1>3
<1>5. /\ min \div MinsPerHour \in Int /\ min % MinsPerHour \in 0 .. MinsPerHour - 1
      /\ min = MinsPerHour * (min \div MinsPerHour) + (min % MinsPerHour)
  <2> HIDE DEF min
  <2>1. QED BY <1>1, <1>4, DivMod
<1>6. hour \in Int
  <2> HIDE DEF min
  <2>1. QED BY <1>1, <1>5
<1>7. /\ days \in Int /\ hour % HoursPerDay \in 0 .. HoursPerDay - 1
      /\ hour = HoursPerDay * days + (hour % HoursPerDay)
  <2> HIDE DEF hour
  <2>1. QED BY <1>1, <1>6, DivMod
<1> HIDE DEF days
<1>8. /\ s \in DayOfMonth /\ s.year = timep.year + timep.mon \div 12 /\ s.mon = timep.mon % 12
      /\ s.day = timep.mday - 1 /\ DayCount(s) \in Int /\ DaysBefore(EPOCH_YR) \in Int
  BY StartTyped
<1>9. u = [year |-> s.year, mon |-> s.mon, day |-> days + s.day]
  BY <1>1, <1>7, <1>8
<1> HIDE DEF u, s
<1>10. u \in DayOfMonth /\ DayCount(u) = DayCount(s) + days
  <2>1. s.year \in Int /\ s.mon \in 0 .. 11 /\ s.day \in Int
    BY <1>8 DEF DayOfMonth
  <2>2. u \in DayOfMonth
    BY <1>7, <1>9, <2>1 DEF DayOfMonth
  <2> DEFINE n == DaysBefore(YEAR0 + s.year) + DaysTo(YEAR0 + s.year)[s.mon]
             y == YEAR0 + s.year
  <2>3. DayCount(u) = n + (days + s.day) /\ DayCount(s) = n + s.day
    BY <1>9 DEF DayCount
  <2>4. n \in Int
    <3>1. y \in Int /\ s.mon \in 0 .. 12
      BY <2>1 DEF YEAR0
    <3> HIDE DEF y
    <3>2. DaysBefore(y) \in Int /\ DaysTo(y)[s.mon] \in Nat
      BY <3>1, DaysBeforeNext, DaysToMonths
    <3>3. DaysBefore(y) + DaysTo(y)[s.mon] \in Int
      BY <3>2
    <3>4. QED BY <3>3 DEF y
  <2> HIDE DEF n
  <2>5. QED BY <1>7, <2>1, <2>2, <2>3, <2>4
<1>11. d \in DayOfMonth /\ InMonth(d) /\ DayCount(d) = DayCount(s) + days
  <2> DEFINE b == BackMonths[u]
  <2>1. b \in DayOfMonth /\ b.day >= 0 /\ DayCount(b) = DayCount(u)
    BY <1>10, BackMonthsEnds
  <2> HIDE DEF b
  <2>2. OnMonths[b] \in DayOfMonth /\ InMonth(OnMonths[b]) /\ DayCount(OnMonths[b]) = DayCount(b)
    BY <2>1, OnMonthsEnds
  <2>3. QED BY <1>10, <2>1, <2>2 DEF b
<1> HIDE DEF d, tm
<1>12. DateOf(tm) = d /\ tm.mday \in Int
  <2>1. d.day \in Int /\ d = [year |-> d.year, mon |-> d.mon, day |-> d.day]
    BY <1>11 DEF DayOfMonth
  <2>2. tm.year = d.year /\ tm.mon = d.mon /\ tm.mday = d.day + 1
    BY <1>2
  <2>3. tm.mday - 1 = d.day
    BY <2>1, <2>2
  <2>4. QED BY <2>1, <2>2, <2>3 DEF DateOf
<1>13. /\ tm.hour = hour % HoursPerDay /\ tm.min = min % MinsPerHour
       /\ tm.sec = timep.sec % SecsPerMin
  BY <1>2
<1> DEFINE a == timep.sec \div SecsPerMin
           e == min \div MinsPerHour
<1>14. SecondOf(timep.hour, timep.min, timep.sec) = SECS_DAY * days + SecondOf(tm.hour, tm.min, tm.sec)
  <2>1. /\ a \in Int /\ e \in Int /\ tm.sec \in Int /\ tm.min \in Int /\ tm.hour \in Int
        /\ timep.sec = SecsPerMin * a + tm.sec
        /\ min = MinsPerHour * e + tm.min
        /\ hour = HoursPerDay * days + tm.hour
    BY <1>1, <1>3, <1>5, <1>7, <1>13
  <2>2. timep.min = min - a /\ timep.hour = hour - e
    BY <1>1, <2>1
  <2> HIDE DEF min, hour, a, e
  <2>3. timep.min = MinsPerHour * e + tm.min - a /\ timep.hour = HoursPerDay * days + tm.hour - e
    <3>1. MinsPerHour * e \in Int /\ HoursPerDay * days \in Int
      BY <1>1, <1>7, <2>1
    <3>2. QED BY <2>1, <2>2, <3>1
  <2>4. SECS_DAY = SecsPerMin * MinsPerHour * HoursPerDay
    BY DEF SECS_DAY, SecsPerHour
  <2>5. SecondOf(timep.hour, timep.min, timep.sec)
          = ((HoursPerDay * days + tm.hour - e) * MinsPerHour + (MinsPerHour * e + tm.min - a)) * SecsPerMin
              + (SecsPerMin * a + tm.sec)
    BY <2>1, <2>3 DEF SecondOf
  <2>6. @ = SecsPerMin * MinsPerHour * HoursPerDay * days
              + ((tm.hour * MinsPerHour + tm.min) * SecsPerMin + tm.sec)
    BY <1>1, <1>7, <2>1
  <2>7. QED BY <2>4, <2>5, <2>6 DEF SecondOf
<1>15. /\ tm.hour \in 0 .. HoursPerDay - 1 /\ tm.min \in 0 .. MinsPerHour - 1
       /\ tm.sec \in 0 .. SecsPerMin - 1
  BY <1>3, <1>5, <1>7, <1>13
<1> HIDE DEF min, hour
<1>16. SecondOf(tm.hour, tm.min, tm.sec) \in Int
  BY <1>1, <1>15 DEF SecondOf
<1>17. SECS_DAY * (DayCount(DateOf(tm)) - DaysBefore(EPOCH_YR)) + SecondOf(tm.hour, tm.min, tm.sec)
         = SecondsSince(timep)
  <2> DEFINE x == DayCount(s) - DaysBefore(EPOCH_YR)
             f == SecondOf(tm.hour, tm.min, tm.sec)
  <2>1. x \in Int /\ f \in Int /\ DayCount(DateOf(tm)) - DaysBefore(EPOCH_YR) = x + days
    BY <1>7, <1>8, <1>11, <1>12, <1>16
  <2>2. SecondsSince(timep) = SECS_DAY * x + (SECS_DAY * days + f)
    BY <1>14 DEF SecondsSince, s
  <2> HIDE DEF x, f
  <2>3. SECS_DAY * (x + days) + f = SECS_DAY * x + (SECS_DAY * days + f)
    BY <1>1, <1>7, <2>1
  <2>4. QED BY <2>1, <2>2, <2>3 DEF f
<1>18. QED BY <1>11, <1>12, <1>15, <1>17 DEF tm

\* The days in front of a year since 1970, by its leap days.
LEMMA LeapDaysAre ==
  ASSUME NEW year \in Int, year >= EPOCH_YR
  PROVE  /\ LeapDays(year) = Leaps(year - 1) - Leaps(1969)
         /\ LeapDays(year) >= 0 /\ LeapDays(year) \in Int
         /\ DaysBefore(year) - DaysBefore(EPOCH_YR) = (year - EPOCH_YR) * 365 + LeapDays(year)
<1> DEFINE n == year - EPOCH_YR
<1>1. EPOCH_YR = 1970 /\ n \in Nat /\ year >= 1970
  BY DEF EPOCH_YR
<1>2. n \div 4 + Before(year, 4) = (year - 1) \div 4 - 492
  BY <1>1 DEF Before
<1>3. n \div 100 + Before(year, 100) = (year - 1) \div 100 - 19
  BY <1>1 DEF Before
<1>4. n \div 400 + Before(year, 400) = (year - 1) \div 400 - 4
  BY <1>1 DEF Before
<1>5. Leaps(1969) = 492 - 19 + 4
  BY DEF Leaps
<1>6. LeapDays(year) = (n \div 4 + Before(year, 4)) - (n \div 100 + Before(year, 100))
                         + (n \div 400 + Before(year, 400))
  BY DEF LeapDays
<1> DEFINE a == (year - 1) \div 4
           b == (year - 1) \div 100
           c == (year - 1) \div 400
<1>7. a \in Int /\ b \in Int /\ c \in Int /\ Leaps(year - 1) = a - b + c
  BY DEF Leaps
<1>8. a - 492 >= b - 19 /\ c >= 4
  BY <1>1
<1> HIDE DEF a, b, c, n
<1>9. LeapDays(year) = (a - 492) - (b - 19) + (c - 4)
  BY <1>2, <1>3, <1>4, <1>6 DEF a, b, c
<1>10. LeapDays(year) = Leaps(year - 1) - Leaps(1969) /\ LeapDays(year) >= 0 /\ LeapDays(year) \in Int
  BY <1>5, <1>7, <1>8, <1>9
<1>11. DaysBefore(year) - DaysBefore(EPOCH_YR) = (year - EPOCH_YR) * 365 + LeapDays(year)
  <2>1. /\ DaysBefore(year) = 365 * year + Leaps(year - 1)
        /\ DaysBefore(EPOCH_YR) = 365 * 1970 + Leaps(1969) /\ Leaps(1969) \in Int
    BY <1>1, <1>5 DEF DaysBefore
  <2>2. QED BY <1>1, <1>7, <1>10, <2>1
<1>12. QED BY <1>10, <1>11

\* The tests for an overflow (xi_time.c:84-108).
Overflows(n, day, second) ==
    \/ LongMax \div 365 < n
    \/ LongMax - n * 365 < n \div 4 + 1
    \/ (ULongMax - second) \div SECS_DAY < day

\* They find the times that do not fit, and no others.
LEMMA OverflowIs ==
  ASSUME NEW n \in Nat, NEW day \in Nat, NEW second \in 0 .. SECS_DAY - 1, day >= n * 365
  PROVE  Overflows(n, day, second) <=> SECS_DAY * day + second > ULongMax
<1> DEFINE x == SECS_DAY * day
<1>1. /\ LongMax \in Nat \ {0} /\ SECS_DAY \in Nat \ {0} /\ SECS_DAY >= 3 /\ ULongMax = 2 * LongMax + 1
      /\ second \in Nat /\ ULongMax \in Nat
  BY ClockSizes, TimeAssumption DEF TimeAssumption, ULongMax, SECS_DAY, SecsPerHour
<1>2. x \in Nat /\ x >= 3 * day
  BY <1>1
<1>3. LongMax \div 365 < n => x + second > ULongMax
  <2>1. LongMax \div 365 < n => n * 365 > LongMax
    BY <1>1
  <2> HIDE DEF x
  <2>2. QED BY <1>1, <1>2, <2>1
<1>4. ~(LongMax \div 365 < n) /\ LongMax - n * 365 < n \div 4 + 1 => x + second > ULongMax
  <2> SUFFICES ASSUME LongMax - n * 365 < n \div 4 + 1 PROVE x + second > ULongMax
    OBVIOUS
  <2>1. 4 * (n \div 4) <= n /\ n \div 4 \in Int
    OBVIOUS
  <2>2. n # 0
    BY <1>1
  <2>3. 4 * LongMax <= 1461 * n
    BY <1>1, <2>1
  <2> HIDE DEF x
  <2>4. QED BY <1>1, <1>2, <2>2, <2>3
<1>5. (ULongMax - second) \div SECS_DAY < day <=> x + second > ULongMax
  <2> DEFINE a == ULongMax - second
             q == a \div SECS_DAY
             r == a % SECS_DAY
  <2>1. a \in Int
    BY <1>1
  <2>2. q \in Int /\ r \in 0 .. SECS_DAY - 1 /\ a = SECS_DAY * q + r
    <3> HIDE DEF a
    <3>1. QED BY <1>1, <2>1, DivMod
  <2> HIDE DEF q, r
  <2>3. r \in Int /\ r >= 0 /\ r < SECS_DAY
    BY <1>1, <2>2
  <2>4. q < day => x > a
    <3>1. q < day => SECS_DAY * (q + 1) <= SECS_DAY * day
      BY <1>1, <2>2
    <3>2. SECS_DAY * (q + 1) = SECS_DAY * q + SECS_DAY /\ SECS_DAY * q \in Int
      BY <1>1, <2>2
    <3> HIDE DEF a
    <3>3. QED BY <1>1, <1>2, <2>1, <2>2, <2>3, <3>1, <3>2
  <2>5. ~(q < day) => x <= a
    <3>1. ~(q < day) => SECS_DAY * day <= SECS_DAY * q
      BY <1>1, <2>2
    <3>2. SECS_DAY * q \in Int
      BY <1>1, <2>2
    <3> HIDE DEF a
    <3>3. QED BY <1>1, <1>2, <2>1, <2>2, <2>3, <3>1, <3>2
  <2> HIDE DEF x
  <2>6. x > a <=> x + second > ULongMax
    BY <1>1, <1>2
  <2>7. x <= a <=> ~(x + second > ULongMax)
    BY <1>1, <1>2
  <2>8. QED BY <2>4, <2>5, <2>6, <2>7 DEF q
<1> HIDE DEF x
<1>6. QED BY <1>3, <1>4, <1>5 DEF x, Overflows

\* xi_mktime returns the seconds that its fields say, in range or not, as a
\* long; and -1 exactly where they lie before 1970 or do not fit an unsigned
\* long, which is what its three tests for an overflow add up to
\* (xi_time.c:19-115).
THEOREM MktimeIs ==
  ASSUME NEW timep \in TimeFields
  PROVE  xi_mktime(timep) = IF SecondsSince(timep) \in 0 .. ULongMax
                            THEN Wrapped(SecondsSince(timep), LongMax) ELSE -1
<1> DEFINE tm == Normalised(timep)
           r == DateOf(tm)
           year == tm.year + YEAR0
           n == year - EPOCH_YR
           day == n * 365 + LeapDays(year) + DaysTo(year)[tm.mon] + tm.mday - 1
           second == (tm.hour * MinsPerHour + tm.min) * SecsPerMin + tm.sec
           overflow == \/ LongMax \div 365 < n
                       \/ LongMax - n * 365 < n \div 4 + 1
                       \/ (ULongMax - second) \div SECS_DAY < day
           x == DayCount(r) - DaysBefore(EPOCH_YR)
           since == SecondsSince(timep)
<1>1. xi_mktime(timep) = IF year < EPOCH_YR \/ overflow THEN -1
                         ELSE Wrapped(second + day * SECS_DAY, LongMax)
  BY DEF xi_mktime
<1>2. /\ r \in DayOfMonth /\ InMonth(r) /\ tm.mday \in Int
      /\ tm.hour \in 0 .. HoursPerDay - 1 /\ tm.min \in 0 .. MinsPerHour - 1
      /\ tm.sec \in 0 .. SecsPerMin - 1
      /\ SECS_DAY * x + second = since
  <2>1. SecondOf(tm.hour, tm.min, tm.sec) = second
    BY DEF SecondOf
  <2>2. QED BY <2>1, NormalisedIs
<1>3. r.year = tm.year /\ r.mon = tm.mon /\ r.day = tm.mday - 1
  BY DEF DateOf
<1> HIDE DEF tm, r
<1>4. /\ tm.year \in Int /\ tm.mon \in 0 .. 11 /\ tm.mday - 1 \in Int
      /\ YEAR0 + tm.year = year /\ year \in Int
  BY <1>2, <1>3 DEF DayOfMonth, YEAR0
<1> HIDE DEF year
<1>5. second \in 0 .. SECS_DAY - 1
  BY <1>2, SecondInDay DEF SecondOf
<1> DEFINE m == DaysTo(year)[tm.mon] + (tm.mday - 1)
<1>6. m \in 0 .. YEARSIZE(year) - 1 /\ DayCount(r) = DaysBefore(year) + m
  BY <1>2, <1>3, <1>4, InYear
<1>7. /\ YEARSIZE(year) \in {365, 366} /\ DaysBefore(year) \in Int /\ DaysBefore(EPOCH_YR) \in Int
      /\ EPOCH_YR = 1970
  <2>1. 1970 \in Int
    OBVIOUS
  <2>2. QED BY <1>4, <2>1, YearSizes, DaysBeforeNext DEF EPOCH_YR
<1>8. DaysTo(year)[tm.mon] \in Nat
  <2>1. tm.mon \in 0 .. 12
    BY <1>4
  <2>2. QED BY <1>4, <2>1, DaysToMonths
<1> HIDE DEF m
<1>9. m \in Nat /\ x = DaysBefore(year) - DaysBefore(EPOCH_YR) + m /\ x \in Int
  BY <1>6, <1>7
<1>10. /\ SECS_DAY \in Nat \ {0} /\ second \in Nat /\ second < SECS_DAY /\ ULongMax \in Nat
       /\ LongMax \in Nat \ {0}
  BY <1>5, ClockSizes
<1> HIDE DEF second, since, x
<1>11. since \in Int /\ since = SECS_DAY * x + second
  BY <1>2, <1>9, <1>10
<1>12. CASE year < EPOCH_YR
  <2>1. DaysBefore(year) + YEARSIZE(year) <= DaysBefore(EPOCH_YR)
    BY <1>4, <1>7, <1>12, DaysBeforeMonotone
  <2>2. x < 0
    BY <1>6, <1>7, <1>9, <2>1
  <2>3. since < 0
    <3>1. SECS_DAY * (x + 1) <= 0
      BY <1>9, <1>10, <2>2
    <3>2. SECS_DAY * (x + 1) = SECS_DAY * x + SECS_DAY /\ SECS_DAY * x \in Int
      BY <1>9, <1>10
    <3>3. QED BY <1>10, <1>11, <3>1, <3>2
  <2>4. since \notin 0 .. ULongMax
    BY <1>10, <1>11, <2>3
  <2>5. QED BY <1>1, <1>12, <2>4 DEF since
<1>13. CASE ~(year < EPOCH_YR)
  <2>1. year >= EPOCH_YR /\ n \in Nat
    BY <1>4, <1>7, <1>13
  <2>2. DaysBefore(year) - DaysBefore(EPOCH_YR) = n * 365 + LeapDays(year)
        /\ LeapDays(year) >= 0 /\ LeapDays(year) \in Int
    BY <1>4, <2>1, LeapDaysAre
  <2>3. day = n * 365 + LeapDays(year) + m
    BY <1>4, <1>8, <2>1, <2>2 DEF m
  <2> HIDE DEF n, day
  <2>4. day = x /\ day \in Nat /\ day >= n * 365
    BY <1>9, <2>1, <2>2, <2>3
  <2>5. overflow <=> SECS_DAY * day + second > ULongMax
    <3>1. overflow <=> Overflows(n, day, second)
      BY DEF Overflows
    <3> HIDE DEF overflow
    <3>2. QED BY <1>5, <2>1, <2>4, <3>1, OverflowIs
  <2>6. second + day * SECS_DAY = since /\ SECS_DAY * day + second = since /\ since >= 0
    BY <1>10, <1>11, <2>4
  <2> HIDE DEF overflow
  <2>7. overflow <=> since \notin 0 .. ULongMax
    BY <1>10, <1>11, <2>5, <2>6
  <2>8. QED BY <1>1, <1>13, <2>6, <2>7 DEF since
<1>14. QED BY <1>12, <1>13

-----------------------------------------------------------------------------
(***************************************************************************)
(* The time of a line                                                      *)
(***************************************************************************)
LEMMA MonthsAre ==
  ASSUME NEW year \in Int, NEW mon \in 0 .. 11
  PROVE  DaysTo(year)[mon] = DaysBeforeMonth[mon + 1] + (IF mon > 1 /\ LEAPYEAR(year) THEN 1 ELSE 0)
<1> DEFINE to == DaysTo(year)
           leap == IF LEAPYEAR(year) THEN 29 ELSE 28
<1>1. to[0] = 0 /\ \A m \in 0 .. 11 : to[m + 1] = to[m] + ytab(year)[m]
  BY DaysToMonths
<1>2. /\ ytab(year)[0] = 31 /\ ytab(year)[1] = leap
      /\ ytab(year)[2] = 31 /\ ytab(year)[3] = 30 /\ ytab(year)[4] = 31 /\ ytab(year)[5] = 30
      /\ ytab(year)[6] = 31 /\ ytab(year)[7] = 31 /\ ytab(year)[8] = 30 /\ ytab(year)[9] = 31
      /\ ytab(year)[10] = 30 /\ leap \in {28, 29}
  BY DEF ytab
<1> HIDE DEF to, leap
<1>3. /\ to[0 + 1] = to[0] + ytab(year)[0] /\ to[1 + 1] = to[1] + ytab(year)[1]
      /\ to[2 + 1] = to[2] + ytab(year)[2] /\ to[3 + 1] = to[3] + ytab(year)[3]
      /\ to[4 + 1] = to[4] + ytab(year)[4] /\ to[5 + 1] = to[5] + ytab(year)[5]
      /\ to[6 + 1] = to[6] + ytab(year)[6] /\ to[7 + 1] = to[7] + ytab(year)[7]
      /\ to[8 + 1] = to[8] + ytab(year)[8] /\ to[9 + 1] = to[9] + ytab(year)[9]
      /\ to[10 + 1] = to[10] + ytab(year)[10]
  BY <1>1
<1>4. /\ to[1] = 31 /\ to[2] = 31 + leap /\ to[3] = 62 + leap /\ to[4] = 92 + leap
      /\ to[5] = 123 + leap /\ to[6] = 153 + leap /\ to[7] = 184 + leap /\ to[8] = 215 + leap
      /\ to[9] = 245 + leap /\ to[10] = 276 + leap /\ to[11] = 306 + leap
  BY <1>1, <1>2, <1>3
<1>5. mon \in {0, 1, 2, 3, 4, 5, 6, 7, 8, 9, 10, 11}
  OBVIOUS
<1>6. to[mon] = DaysBeforeMonth[mon + 1] + (IF mon > 1 /\ LEAPYEAR(year) THEN 1 ELSE 0)
  BY <1>1, <1>4, <1>5 DEF DaysBeforeMonth, leap
<1>7. QED BY <1>6 DEF to

\* The seconds a stamp says by the calendar are those of its struct xi_tm.
LEMMA TimeInfoTyped ==
  ASSUME NEW s \in StampFields
  PROVE  /\ TimeInfo(s) \in TimeFields
         /\ s.year \in Int /\ s.mon \in Int /\ s.mday \in Int
         /\ s.hour \in Int /\ s.min \in Int /\ s.sec \in Int
<1>1. /\ s.year \in Int /\ s.mon \in Int /\ s.mday \in Int
      /\ s.hour \in Int /\ s.min \in Int /\ s.sec \in Int
  BY DEF StampFields
<1>2. s.year - YEAR0 \in Int /\ s.mon - 1 \in Int
  BY <1>1 DEF YEAR0
<1>3. QED BY <1>1, <1>2 DEF TimeInfo, TimeFields

LEMMA SecondsAre ==
  ASSUME NEW s \in StampFields
  PROVE  Seconds(s) = SecondsSince(TimeInfo(s)) /\ Seconds(s) \in Int
<1> DEFINE t == TimeInfo(s)
           q == StartOf(t)
           year == s.year + (s.mon - 1) \div 12
           month == (s.mon - 1) % 12
           leap == IF month > 1 /\ LEAPYEAR(year) THEN 1 ELSE 0
           days == 365 * (year - 1970) + Leaps(year - 1) - Leaps(1969)
                     + DaysBeforeMonth[month + 1] + leap + s.mday - 1
<1>1. /\ t \in TimeFields /\ s.year \in Int /\ s.mon \in Int /\ s.mday \in Int
      /\ s.hour \in Int /\ s.min \in Int /\ s.sec \in Int
  BY TimeInfoTyped
<1>2. /\ t.year = s.year - YEAR0 /\ t.mon = s.mon - 1 /\ t.mday = s.mday
      /\ t.hour = s.hour /\ t.min = s.min /\ t.sec = s.sec
  BY DEF TimeInfo
<1> HIDE DEF t
<1>3. /\ q \in DayOfMonth /\ DayCount(q) \in Int /\ DaysBefore(EPOCH_YR) \in Int
      /\ SecondsSince(t) \in Int
      /\ q.year = t.year + t.mon \div 12 /\ q.mon = t.mon % 12 /\ q.day = t.mday - 1
  BY <1>1, StartTyped
<1> HIDE DEF q
<1>4. /\ year \in Int /\ month \in 0 .. 11 /\ YEAR0 + q.year = year /\ q.mon = month
      /\ q.day = s.mday - 1
  BY <1>1, <1>2, <1>3 DEF YEAR0
<1>5. Cal!IsLeap(year - 1900) <=> LEAPYEAR(year)
  <2> HIDE DEF year
  <2> DEFINE z == year - 1900
  <2>1. z \in Int /\ YEAR0 + z = year /\ 0 \in 0 .. 11
    BY <1>4 DEF YEAR0
  <2> HIDE DEF z
  <2>2. Cal!IsLeap(z) <=> LEAPYEAR(year)
    BY <2>1, CalendarTables
  <2>3. QED BY <2>2 DEF z
<1>6. Seconds(s) = ((days * HoursPerDay + s.hour) * MinsPerHour + s.min) * SecsPerMin + s.sec
  BY <1>5 DEF Seconds
<1> HIDE DEF year, month
<1>7. DaysTo(year)[month] = DaysBeforeMonth[month + 1] + leap /\ DaysTo(year)[month] \in Nat
      /\ leap \in {0, 1}
  <2>1. month \in 0 .. 12
    BY <1>4
  <2>2. QED BY <1>4, <2>1, MonthsAre, DaysToMonths
<1>8. DayCount(q) = DaysBefore(year) + DaysTo(year)[month] + (s.mday - 1)
  BY <1>4 DEF DayCount
<1>9. DaysBeforeMonth[month + 1] \in Int
  <2>1. month \in {0, 1, 2, 3, 4, 5, 6, 7, 8, 9, 10, 11}
    BY <1>4
  <2>2. QED BY <2>1 DEF DaysBeforeMonth
<1>10. /\ DaysBefore(year) = 365 * year + Leaps(year - 1)
       /\ DaysBefore(EPOCH_YR) = 365 * 1970 + Leaps(1969)
       /\ Leaps(year - 1) \in Int /\ Leaps(1969) \in Int
  <2>1. \A y \in Int : Leaps(y) \in Int
    BY DEF Leaps
  <2>2. EPOCH_YR = 1970 /\ 1970 - 1 = 1969
    BY DEF EPOCH_YR
  <2>3. year - 1 \in Int
    BY <1>4
  <2>4. QED BY <2>1, <2>2, <2>3 DEF DaysBefore
<1>11. days = DayCount(q) - DaysBefore(EPOCH_YR) /\ days \in Int
  <2> HIDE DEF leap
  <2>1. QED BY <1>1, <1>4, <1>7, <1>8, <1>9, <1>10
<1> HIDE DEF days
<1>12. ((days * HoursPerDay + s.hour) * MinsPerHour + s.min) * SecsPerMin + s.sec
         = SECS_DAY * days + ((s.hour * MinsPerHour + s.min) * SecsPerMin + s.sec)
  BY <1>1, <1>11, ClockSizes DEF SECS_DAY, SecsPerHour
<1>13. Seconds(s) = SecondsSince(t)
  BY <1>2, <1>6, <1>11, <1>12 DEF SecondsSince, SecondOf, q
<1>14. QED BY <1>3, <1>13 DEF t

\* What is read of the microseconds is a number, and the one that was written
\* if that fits an int and its field.
LEMMA MicroReadStep ==
  ASSUME NEW n \in Int
  PROVE  /\ MicroRead[n] \in Int
         /\ InMicroField(n) => MicroRead[n] = n
<1> DEFINE P == {k \in Int : ~InMicroField(k)}
           shorter(k) == IF k < 0 THEN -((-k) \div 10) ELSE k \div 10
           measure == [k \in Int |-> IF k < 0 THEN -k ELSE k]
           next == [k \in P |-> shorter(k)]
           U(f) == f = [k \in Int |-> IF InMicroField(k) THEN k ELSE f[shorter(k)]]
<1>1. \A k \in Int : shorter(k) \in Int
  OBVIOUS
<1>2. 0 \notin P
  BY DatapointAssumption DEF InMicroField
<1>3. \A k \in Int : k # 0 => measure[shorter(k)] < measure[k]
  OBVIOUS
<1> HIDE DEF shorter
<1>4. /\ measure \in [Int -> Nat] /\ next \in [P -> Int] /\ P \in SUBSET Int
      /\ \A k \in P : next[k] = shorter(k)
  BY <1>1
<1>5. \A k \in P : measure[next[k]] < measure[k]
  BY <1>2, <1>3, <1>4
<1>6. PICK f : LoopOf(f, Int, P, next)
  <2>1. Descends(Int, P, next, measure)
    BY <1>4, <1>5 DEF Descends
  <2> HIDE DEF P, measure, next
  <2>2. QED BY <2>1, LoopExists
<1>7. U(f)
  <2> DEFINE g == [k \in Int |-> IF InMicroField(k) THEN k ELSE f[shorter(k)]]
  <2>1. \A k \in Int : f[k] = g[k]
    BY <1>4, <1>6 DEF LoopOf
  <2>2. f = g
    <3> HIDE DEF g
    <3>1. g = [k \in Int |-> g[k]]
      BY DEF g
    <3>2. QED BY <1>6, <2>1, <3>1 DEF LoopOf
  <2>3. QED BY <2>2
<1>8. U(MicroRead)
  <2> HIDE DEF U
  <2>1. U(CHOOSE g : U(g))
    BY <1>7
  <2>2. MicroRead = CHOOSE g : U(g)
    BY DEF MicroRead, U, shorter
  <2>3. QED BY <2>1, <2>2
<1>9. \A k \in Int : InMicroField(k) => MicroRead[k] = k
  BY <1>8
<1>10. \A k \in Int : ~InMicroField(k) => MicroRead[k] = MicroRead[shorter(k)]
  BY <1>8
<1>11. \A k \in Int : MicroRead[k] \in Int
  <2> DEFINE T == {k \in Int : MicroRead[k] \in Int}
  <2>1. ASSUME NEW k \in Int, \A j \in Int : measure[j] < measure[k] => j \in T
        PROVE  k \in T
    <3>1. CASE InMicroField(k)
      BY <1>9, <3>1
    <3>2. CASE ~InMicroField(k)
      <4>1. k # 0
        BY <1>2, <3>2
      <4>2. shorter(k) \in T
        <5> HIDE DEF T, measure
        <5>1. QED BY <1>1, <1>3, <2>1, <4>1
      <4>3. QED BY <1>10, <3>2, <4>2
    <3>3. QED BY <3>1, <3>2
  <2>2. measure \in [Int -> Nat]
    BY <1>4
  <2> HIDE DEF T, measure
  <2>3. \A k \in Int : k \in T
    BY <2>1, <2>2, MeasureInduction
  <2>4. QED BY <2>3 DEF T
<1>12. QED BY <1>9, <1>11

LEMMA MicroComesBack ==
  ASSUME NEW micro \in Int
  PROVE  /\ MicroRead[Wrapped(micro, IntMax)] \in Int
         /\ micro \in IntRange /\ InMicroField(micro) => MicroRead[Wrapped(micro, IntMax)] = micro
<1> DEFINE w == Wrapped(micro, IntMax)
<1>0. IntMax \in Nat \ {0}
  BY TimeAssumption
<1>1. w \in Int
  <2>1. w \in -IntMax - 1 .. IntMax
    BY <1>0, WrappedIs
  <2> HIDE DEF w
  <2>2. QED BY <1>0, <2>1
<1>2. micro \in IntRange => w = micro
  BY <1>0, WrappedFits DEF IntRange
<1> HIDE DEF w
<1>3. MicroRead[w] \in Int /\ (InMicroField(w) => MicroRead[w] = w)
  BY <1>1, MicroReadStep
<1>4. QED BY <1>2, <1>3 DEF w

\* What is written of a time (csv_data.c:229-239) is read as the same time
\* (csv_data.c:350-367), a negative one included: xi_mktime undoes xi_gmtime.
THEOREM TimeComesBack ==
  ASSUME NEW time \in LongRange, NEW micro
  PROVE  /\ xi_mktime(TimeInfo(Written(xi_gmtime(time), micro))) = time
         /\ LET s == Written(xi_gmtime(time), micro)
            IN  /\ s.year \in Int /\ s.mon \in Int /\ s.mday \in Int
                /\ s.hour \in Int /\ s.min \in Int /\ s.sec \in Int
                /\ s.micro = MicroRead[Wrapped(micro, IntMax)]
<1> DEFINE tm == xi_gmtime(time)
           s == Written(tm, micro)
           t == TimeInfo(s)
           clock == UnsignedOf(time)
           day == clock \div SECS_DAY
           second == clock % SECS_DAY
           r == DateOf(tm)
<1>1. time \in Int /\ LongMax \in Nat \ {0} /\ ULongMax = 2 * LongMax + 1 /\ SECS_DAY \in Nat \ {0}
      /\ time >= -LongMax - 1 /\ time <= LongMax
  BY ClockSizes DEF LongRange, ULongMax
<1>2. IsTimeOf(tm, day, second)
  BY <1>1, GmtimeShows
<1>3. clock \in 0 .. ULongMax /\ \E k \in Int : clock = time + (2 * (LongMax + 1)) * k
  <2> DEFINE w == ULongMax + 1
             k == time \div w
  <2>1. w \in Nat \ {0} /\ w = 2 * (LongMax + 1)
    BY <1>1
  <2> HIDE DEF w
  <2>2. k \in Int /\ time % w \in 0 .. w - 1 /\ time = w * k + (time % w)
    BY <1>1, <2>1, DivMod
  <2> HIDE DEF k
  <2>3. clock = time % w
    BY DEF UnsignedOf, w
  <2> HIDE DEF clock
  <2>4. clock = time + w * (-k) /\ -k \in Int
    <3>1. w * (-k) = -(w * k) /\ w * k \in Int /\ -k \in Int
      BY <2>1, <2>2
    <3>2. clock \in Int
      BY <2>1, <2>2, <2>3
    <3>3. QED BY <1>1, <2>2, <2>3, <3>1, <3>2
  <2>5. clock \in 0 .. ULongMax
    BY <1>1, <2>1, <2>2, <2>3
  <2>6. QED BY <2>1, <2>4, <2>5
<1>4. /\ r \in DayOfMonth /\ DayCount(r) = DaysBefore(EPOCH_YR) + day /\ tm.mday \in Int
      /\ tm.hour \in 0 .. HoursPerDay - 1 /\ tm.min \in 0 .. MinsPerHour - 1
      /\ tm.sec \in 0 .. SecsPerMin - 1 /\ SecondOf(tm.hour, tm.min, tm.sec) = second
  BY <1>2 DEF IsTimeOf
<1>5. r.year = tm.year /\ r.mon = tm.mon /\ r.day = tm.mday - 1
  BY DEF DateOf
<1> HIDE DEF r, tm
<1>6. /\ tm.year \in Int /\ tm.mon \in 0 .. 11 /\ tm.hour \in Int /\ tm.min \in Int /\ tm.sec \in Int
  BY <1>4, <1>5, ClockSizes DEF DayOfMonth
<1>7. /\ s.year = tm.year + YEAR0 /\ s.mon = tm.mon + 1 /\ s.mday = tm.mday
      /\ s.hour = tm.hour /\ s.min = tm.min /\ s.sec = tm.sec
      /\ s.micro = MicroRead[Wrapped(micro, IntMax)]
  BY DEF Written
<1> HIDE DEF s
<1>8. /\ s.year \in Int /\ s.mon \in Int /\ s.mday \in Int
      /\ s.hour \in Int /\ s.min \in Int /\ s.sec \in Int
      /\ s.micro = MicroRead[Wrapped(micro, IntMax)]
  BY <1>4, <1>6, <1>7 DEF YEAR0
<1>9. t = [year |-> tm.year, mon |-> tm.mon, mday |-> tm.mday,
           hour |-> tm.hour, min |-> tm.min, sec |-> tm.sec]
  <2>1. s.year - YEAR0 = tm.year /\ s.mon - 1 = tm.mon
    BY <1>6, <1>7 DEF YEAR0
  <2>2. QED BY <1>7, <2>1 DEF TimeInfo
<1> HIDE DEF t
<1>10. t \in TimeFields
  BY <1>4, <1>6, <1>9 DEF TimeFields
<1>11. StartOf(t) = r
  <2>1. tm.mon \div 12 = 0 /\ tm.mon % 12 = tm.mon
    BY <1>6
  <2>2. tm.year + 0 = tm.year
    BY <1>6
  <2>3. StartOf(t) = [year |-> tm.year, mon |-> tm.mon, day |-> tm.mday - 1]
    BY <1>9, <2>1, <2>2 DEF StartOf
  <2>4. QED BY <2>3 DEF r, DateOf
<1>12. SecondsSince(t) = clock
  <2>1. DaysBefore(EPOCH_YR) \in Int
    BY <1>10, StartTyped
  <2>2. day \in Int /\ clock = SECS_DAY * day + second
    <3> HIDE DEF clock
    <3>1. clock \in Int
      BY <1>1, <1>3
    <3>2. QED BY <1>1, <3>1, DivMod
  <2> HIDE DEF day, second
  <2>3. DayCount(r) - DaysBefore(EPOCH_YR) = day
    BY <1>4, <2>1, <2>2
  <2>4. t.hour = tm.hour /\ t.min = tm.min /\ t.sec = tm.sec
    BY <1>9
  <2>5. QED BY <1>4, <1>11, <2>2, <2>3, <2>4 DEF SecondsSince
<1> HIDE DEF clock
<1>13. xi_mktime(t) = Wrapped(clock, LongMax)
  BY <1>3, <1>10, <1>12, MktimeIs
<1>14. Wrapped(clock, LongMax) = time
  <2>1. PICK k \in Int : clock = time + (2 * (LongMax + 1)) * k
    BY <1>3
  <2> DEFINE x == (2 * (LongMax + 1)) * k
  <2>2. x \in Int /\ (2 * (LongMax + 1)) * (-k) = -x /\ -k \in Int /\ clock \in Int
    BY <1>1, <1>3
  <2>3. clock = time + x
    BY <2>1
  <2> HIDE DEF x
  <2>4. time = clock + (2 * (LongMax + 1)) * (-k)
    BY <1>1, <2>2, <2>3
  <2> DEFINE j == -k
  <2>5. j \in Int /\ time = clock + (2 * (LongMax + 1)) * j
    BY <2>2, <2>4
  <2> HIDE DEF j
  <2>6. time \in -LongMax - 1 .. LongMax
    BY <1>1
  <2>7. QED BY <1>1, <2>2, <2>5, <2>6, WrappedUnique
<1>15. QED BY <1>8, <1>13, <1>14 DEF t, s, tm

-----------------------------------------------------------------------------
(***************************************************************************)
(* Texts                                                                   *)
(***************************************************************************)
Numerals == ToSet(Digits)
States == {"INITIAL", "MINUS", "NUMBER", "FLOAT", "DOT", "STRING"}

\* The characters are different.
LEMMA NumeralsAre ==
    /\ Numerals = {"0", "1", "2", "3", "4", "5", "6", "7", "8", "9"}
    /\ "." \notin Numerals /\ "-" \notin Numerals /\ VT \notin Numerals
    /\ Numerals \cap LineEnds = {}
    /\ VT # "." /\ VT # "-" /\ VT \notin LineEnds
  BY DEF Numerals, ToSet, Digits, VT, LineEnds, NUL

\* FirstIn is the first place with one of the characters.
LEMMA FirstInIs ==
  ASSUME NEW S, NEW text \in Seq(S), NEW chars
  PROVE  LET n == FirstIn(chars, text)
         IN  /\ n \in 0 .. Len(text)
             /\ n = 0 <=> \A i \in 1 .. Len(text) : text[i] \notin chars
             /\ n # 0 => text[n] \in chars /\ \A i \in 1 .. n - 1 : text[i] \notin chars
<1> DEFINE at == {i \in DOMAIN text : text[i] \in chars}
<1>1. DOMAIN text = 1 .. Len(text) /\ Len(text) \in Nat
  OBVIOUS
<1>2. FirstIn(chars, text) = IF at = {} THEN 0 ELSE Min(at)
  BY DEF FirstIn
<1>3. at \subseteq Nat
  BY <1>1
<1>4. at # {} => Min(at) \in at /\ \A i \in at : Min(at) <= i
  <2> HIDE DEF at
  <2>1. QED BY <1>3, MinOfNats
<1>5. CASE at = {}
  BY <1>1, <1>2, <1>5
<1>6. CASE at # {}
  <2> DEFINE n == Min(at)
  <2>1. n \in 1 .. Len(text) /\ text[n] \in chars /\ \A i \in at : n <= i
    BY <1>1, <1>4, <1>6
  <2> HIDE DEF n
  <2>2. ASSUME NEW i \in 1 .. n - 1 PROVE text[i] \notin chars
    <3>1. i \in 1 .. Len(text) /\ ~(n <= i)
      BY <1>1, <2>1
    <3>2. QED BY <1>1, <2>1, <3>1
  <2>3. FirstIn(chars, text) = n
    BY <1>2, <1>6 DEF n
  <2> HIDE DEF at
  <2>4. QED BY <2>1, <2>2, <2>3
<1>7. QED BY <1>5, <1>6

\* The first place that holds one of the characters.
LEMMA FirstInFound ==
  ASSUME NEW S, NEW text \in Seq(S), NEW chars, NEW n \in 1 .. Len(text), text[n] \in chars,
         \A i \in 1 .. n - 1 : text[i] \notin chars
  PROVE  FirstIn(chars, text) = n
<1> DEFINE m == FirstIn(chars, text)
<1>1. /\ m \in 0 .. Len(text) /\ m # 0
      /\ text[m] \in chars /\ \A i \in 1 .. m - 1 : text[i] \notin chars
  BY FirstInIs
<1> HIDE DEF m
<1>2. ~(m < n)
  BY <1>1
<1>3. ~(n < m)
  BY <1>1
<1>4. QED BY <1>1, <1>2, <1>3 DEF m

\* Ten is the powers of 10.
LEMMA TenIs ==
    /\ Ten[0] = 1
    /\ \A n \in Nat : Ten[n] \in Nat \ {0} /\ Ten[n + 1] = 10 * Ten[n]
<1> DEFINE D == Nat
           P == Nat \ {0}
           measure == [n \in Nat |-> n]
           base == [n \in Nat |-> 1]
           pred == [n \in P |-> n - 1]
           step == [n \in P |-> [v \in Nat |-> 10 * v]]
           U(f) == f = [n \in Nat |-> IF n = 0 THEN 1 ELSE 10 * f[n - 1]]
<1>1. PICK f \in [D -> Nat] : Recurs(f, D, P, base, pred, step)
  <2>1. /\ P \in SUBSET D /\ measure \in [D -> Nat] /\ base \in [D -> Nat] /\ pred \in [P -> D]
        /\ step \in [P -> [Nat -> Nat]]
        /\ \A n \in P : measure[pred[n]] < measure[n]
    OBVIOUS
  <2> DEFINE V == Nat
  <2>2. base \in [D -> V] /\ step \in [P -> [V -> V]]
    BY <2>1
  <2> HIDE DEF D, P, measure, base, pred, step, V
  <2>3. \E f \in [D -> V] : Recurs(f, D, P, base, pred, step)
    BY <2>1, <2>2, RecursionExists
  <2>4. QED BY <2>3 DEF V
<1>2. U(f)
  <2> DEFINE g == [n \in Nat |-> IF n = 0 THEN 1 ELSE 10 * f[n - 1]]
  <2>1. \A n \in Nat : f[n] = g[n]
    <3>1. \A n \in Nat : f[n] \in Nat
      BY <1>1
    <3>2. \A n \in P : n - 1 \in Nat /\ pred[n] = n - 1
      OBVIOUS
    <3>3. \A n \in P : \A v \in Nat : step[n][v] = 10 * v
      OBVIOUS
    <3>4. \A n \in Nat : base[n] = 1
      OBVIOUS
    <3> HIDE DEF step, pred, base
    <3>5. ASSUME NEW n \in Nat
          PROVE  f[n] = IF n = 0 THEN 1 ELSE 10 * f[n - 1]
      <4>1. f[n] = IF n \in P THEN step[n][f[pred[n]]] ELSE base[n]
        BY <1>1 DEF Recurs
      <4>2. CASE n = 0
        BY <3>4, <4>1, <4>2
      <4>3. CASE n # 0
        BY <3>1, <3>2, <3>3, <4>1, <4>3
      <4>4. QED BY <4>2, <4>3
    <3>6. QED BY <3>5
  <2>2. f = g
    <3>1. g = [n \in Nat |-> g[n]]
      OBVIOUS
    <3> HIDE DEF g
    <3>2. QED BY <1>1, <2>1, <3>1
  <2>3. QED BY <2>2
<1>3. U(Ten)
  <2> HIDE DEF U
  <2>1. U(CHOOSE g : U(g))
    BY <1>2
  <2>2. Ten = CHOOSE g : U(g)
    BY DEF Ten, U
  <2>3. QED BY <2>1, <2>2
<1>4. Ten[0] = 1 /\ \A n \in Nat : Ten[n + 1] = 10 * Ten[n]
  <2>1. \A n \in Nat : Ten[n] = IF n = 0 THEN 1 ELSE 10 * Ten[n - 1]
    BY <1>3
  <2>2. ASSUME NEW n \in Nat PROVE Ten[n + 1] = 10 * Ten[n]
    <3>1. n + 1 \in Nat /\ n + 1 # 0 /\ (n + 1) - 1 = n
      OBVIOUS
    <3>2. Ten[n + 1] = 10 * Ten[(n + 1) - 1]
      BY <2>1, <3>1
    <3>3. QED BY <3>1, <3>2
  <2>3. QED BY <2>1, <2>2
<1>5. \A n \in Nat : Ten[n] \in Nat \ {0}
  <2> DEFINE T == {n \in Nat : Ten[n] \in Nat \ {0}}
  <2>1. T \subseteq Nat /\ 0 \in T /\ \A n \in T : n + 1 \in T
    BY <1>4
  <2> HIDE DEF T
  <2>2. T = Nat
    BY <2>1, NatSetInduction
  <2>3. QED BY <2>2 DEF T
<1>6. QED BY <1>4, <1>5

-----------------------------------------------------------------------------
(***************************************************************************)
(* The states of the loop over the characters of a value                   *)
(***************************************************************************)
LEMMA NextStateIs ==
  ASSUME NEW s, NEW c
  PROVE  LET next == NextState(s, csv_classify_char(c))
         IN  /\ next \in States
             /\ c = VT => next = "INITIAL"
             /\ c # VT => /\ next # "INITIAL"
                          /\ next = "MINUS" <=> c = "-" /\ s = "INITIAL"
                          /\ next = "NUMBER" <=> c \in Numerals /\ s \in {"INITIAL", "MINUS", "NUMBER"}
                          /\ next = "DOT" <=> c = "." /\ s \in {"INITIAL", "MINUS", "NUMBER"}
                          /\ next = "FLOAT" <=> c \in Numerals /\ s \in {"FLOAT", "DOT"}
  BY NumeralsAre DEF NextState, csv_classify_char, States, Numerals

\* The states after each of the characters.
Passes(a, read) ==
    /\ a \in [0 .. Len(read) -> States] /\ a[0] = "INITIAL"
    /\ \A i \in 1 .. Len(read) : a[i] = NextState(a[i - 1], csv_classify_char(read[i]))

\* There is a pass of the states over any text, and StateAfter is its last.
LEMMA PassesExist ==
  ASSUME NEW S, NEW read \in Seq(S)
  PROVE  \E a : Passes(a, read) /\ StateAfter(read) = a[Len(read)]
<1> DEFINE n == Len(read)
           step == [i \in 1 .. n |-> [s \in States |-> NextState(s, csv_classify_char(read[i]))]]
           U(f) == f = [i \in 0 .. n |-> IF i = 0 THEN "INITIAL"
                                         ELSE NextState(f[i - 1], csv_classify_char(read[i]))]
<1>1. n \in Nat
  OBVIOUS
<1>2. PICK f : Iterates(f, n, States, "INITIAL", step)
  <2>1. step \in Steps(n, States)
    BY NextStateIs DEF Steps
  <2> DEFINE first == "INITIAL"
  <2>2. first \in States
    BY DEF States
  <2> HIDE DEF step, n, first
  <2>3. \E f : Iterates(f, n, States, first, step)
    BY <1>1, <2>1, <2>2, IntervalRecursion
  <2>4. QED BY <2>3 DEF first
<1> HIDE DEF n
<1>3. ASSUME NEW i \in 1 .. n
      PROVE  f[i] = NextState(f[i - 1], csv_classify_char(read[i]))
  <2>1. i - 1 \in 0 .. n
    BY <1>1
  <2>2. f[i - 1] \in States
    BY <1>2, <2>1 DEF Iterates
  <2>3. QED BY <1>2, <2>2 DEF Iterates
<1>4. U(f)
  <2> DEFINE g == [i \in 0 .. n |-> IF i = 0 THEN "INITIAL"
                                    ELSE NextState(f[i - 1], csv_classify_char(read[i]))]
  <2>1. \A i \in 0 .. n : f[i] = g[i]
    BY <1>1, <1>2, <1>3 DEF Iterates
  <2>2. f = g
    <3>1. g = [i \in 0 .. n |-> g[i]]
      OBVIOUS
    <3> HIDE DEF g
    <3>2. QED BY <1>2, <2>1, <3>1 DEF Iterates
  <2>3. QED BY <2>2
<1> DEFINE after == CHOOSE g : U(g)
<1>5. U(after)
  <2> HIDE DEF U
  <2>1. QED BY <1>4
<1>6. StateAfter(read) = after[n]
  BY DEF StateAfter, n
<1> HIDE DEF after
<1>7. after[0] = "INITIAL" /\ \A i \in 1 .. n : after[i] = NextState(after[i - 1], csv_classify_char(read[i]))
  BY <1>1, <1>5
<1>8. after \in [0 .. n -> States]
  <2>1. \A i \in 0 .. n : after[i] \in States
    <3>1. \A i \in 1 .. n : after[i] \in States
      BY <1>7, NextStateIs
    <3>2. "INITIAL" \in States
      BY DEF States
    <3>3. QED BY <1>1, <1>7, <3>1, <3>2
  <2> DEFINE h == [i \in 0 .. n |-> IF i = 0 THEN "INITIAL"
                                    ELSE NextState(after[i - 1], csv_classify_char(read[i]))]
  <2>2. after = h /\ h = [i \in 0 .. n |-> h[i]]
    BY <1>5
  <2> HIDE DEF h
  <2>3. QED BY <2>1, <2>2
<1>9. Passes(after, read)
  BY <1>7, <1>8 DEF Passes, n
<1>10. QED BY <1>6, <1>9 DEF n

\* What the state says of the first k characters of a text without vertical tabs.
NumberTo(text, k) == SignLen(text) < k /\ AreDigits(text, SignLen(text) + 1, k)
DotAt(text, k) ==
    SignLen(text) < k /\ text[k] = "." /\ AreDigits(text, SignLen(text) + 1, k - 1)
FloatTo(text, k) ==
    \E j \in SignLen(text) + 1 .. k - 1 : DotAt(text, j) /\ AreDigits(text, j + 1, k)

Says(s, text, k) ==
    /\ s = "INITIAL" <=> k = 0
    /\ s = "MINUS" <=> k = 1 /\ text[1] = "-"
    /\ s = "NUMBER" <=> NumberTo(text, k)
    /\ s = "DOT" <=> DotAt(text, k)
    /\ s = "FLOAT" <=> FloatTo(text, k)

\* A pass says what has been read: one character more keeps it so.
LEMMA SaysNext ==
  ASSUME NEW S, NEW text \in Seq(S), NEW k \in 1 .. Len(text), NEW s,
         Says(s, text, k - 1), text[k] # VT
  PROVE  Says(NextState(s, csv_classify_char(text[k])), text, k)
<1> DEFINE c == text[k]
           next == NextState(s, csv_classify_char(c))
           b == SignLen(text)
<1>1. k \in Nat /\ k - 1 \in Nat /\ k >= 1 /\ Len(text) \in Nat /\ text # <<>>
  OBVIOUS
<1>2. b = (IF text[1] = "-" THEN 1 ELSE 0) /\ b \in {0, 1}
  BY <1>1 DEF SignLen
<1>3. /\ next # "INITIAL"
      /\ next = "MINUS" <=> c = "-" /\ s = "INITIAL"
      /\ next = "NUMBER" <=> c \in Numerals /\ s \in {"INITIAL", "MINUS", "NUMBER"}
      /\ next = "DOT" <=> c = "." /\ s \in {"INITIAL", "MINUS", "NUMBER"}
      /\ next = "FLOAT" <=> c \in Numerals /\ s \in {"FLOAT", "DOT"}
  BY NextStateIs
<1> HIDE DEF next, c, b
<1>4. "." \notin Numerals /\ "-" \notin Numerals
  BY NumeralsAre
<1>5. next = "MINUS" <=> k = 1 /\ text[1] = "-"
  <2>1. s = "INITIAL" <=> k - 1 = 0
    BY DEF Says
  <2>2. k - 1 = 0 <=> k = 1
    BY <1>1
  <2>3. QED BY <1>3, <2>1, <2>2 DEF c
\* A sign or digits in front.
<1>6. s \in {"INITIAL", "MINUS", "NUMBER"} /\ c # "-" <=>
         b < k /\ c # "-" /\ AreDigits(text, b + 1, k - 1)
  <2>1. s = "INITIAL" <=> k - 1 = 0
    BY DEF Says
  <2>2. s = "MINUS" <=> k - 1 = 1 /\ text[1] = "-"
    BY DEF Says
  <2>3. s = "NUMBER" <=> b < k - 1 /\ AreDigits(text, b + 1, k - 1)
    BY DEF Says, NumberTo, b
  <2>4. k = 1 /\ c # "-" => b = 0
    BY <1>2 DEF c
  <2>5. \A i : ~(i \in k .. k - 1)
    BY <1>1
  <2>6. b = k - 1 => AreDigits(text, b + 1, k - 1)
    <3>1. b = k - 1 => b + 1 = k
      BY <1>1
    <3>2. QED BY <2>5, <3>1 DEF AreDigits
  <2>7. b < k => b < k - 1 \/ b = k - 1
    BY <1>1, <1>2
  <2>8. b = k - 1 <=> (k = 1 /\ text[1] # "-") \/ (k = 2 /\ text[1] = "-")
    BY <1>1, <1>2
  <2>9. k - 1 = 0 <=> k = 1
    BY <1>1
  <2>10. k - 1 = 1 <=> k = 2
    BY <1>1
  <2>11. b < k - 1 => b < k
    BY <1>1, <1>2
  <2>12. k = 1 => c = text[1]
    BY DEF c
  <2>13. b = k - 1 => b < k
    BY <1>1, <1>2
  <2>14. QED BY <2>1, <2>2, <2>3, <2>6, <2>7, <2>8, <2>9, <2>10, <2>11, <2>12, <2>13
<1>7. next = "NUMBER" <=> NumberTo(text, k)
  <2>1. NumberTo(text, k) <=> b < k /\ AreDigits(text, b + 1, k - 1) /\ c \in Numerals
    <3>1. NumberTo(text, k) <=> b < k /\ AreDigits(text, b + 1, k)
      BY DEF NumberTo, b
    <3>2. b < k => (AreDigits(text, b + 1, k) <=> AreDigits(text, b + 1, k - 1) /\ c \in Numerals)
      <4>1. b < k => \A i : i \in b + 1 .. k <=> i \in b + 1 .. k - 1 \/ i = k
        BY <1>1, <1>2
      <4>2. QED BY <4>1 DEF AreDigits, Numerals, c
    <3>3. QED BY <3>1, <3>2
  <2>2. QED BY <1>3, <1>4, <1>6, <2>1
<1>8. next = "DOT" <=> DotAt(text, k)
  <2>1. DotAt(text, k) <=> b < k /\ c = "." /\ AreDigits(text, b + 1, k - 1)
    BY DEF DotAt, b, c
  <2>2. QED BY <1>3, <1>6, <2>1
<1>9. next = "FLOAT" <=> FloatTo(text, k)
  <2>1. s = "DOT" <=> DotAt(text, k - 1)
    BY DEF Says
  <2>2. s = "FLOAT" <=> \E j \in b + 1 .. (k - 1) - 1 : DotAt(text, j) /\ AreDigits(text, j + 1, k - 1)
    BY DEF Says, FloatTo, b
  <2>3. FloatTo(text, k) <=> \E j \in b + 1 .. k - 1 : DotAt(text, j) /\ AreDigits(text, j + 1, k)
    BY DEF FloatTo, b
  <2>4. ASSUME NEW j \in b + 1 .. k - 1
        PROVE  AreDigits(text, j + 1, k) <=> AreDigits(text, j + 1, k - 1) /\ c \in Numerals
    <3>1. j \in Int /\ j + 1 <= k
      BY <1>1, <1>2
    <3>2. \A i : i \in j + 1 .. k <=> i \in j + 1 .. k - 1 \/ i = k
      BY <1>1, <3>1
    <3>3. QED BY <3>2 DEF AreDigits, Numerals, c
  <2>5. \A j : j \in b + 1 .. k - 1 <=> j \in b + 1 .. (k - 1) - 1 \/ (j = k - 1 /\ b < k - 1)
    BY <1>1, <1>2
  <2>6. DotAt(text, k - 1) => b < k - 1
    BY DEF DotAt, b
  <2>7. AreDigits(text, (k - 1) + 1, k - 1)
    <3>1. \A i : ~(i \in (k - 1) + 1 .. k - 1)
      BY <1>1
    <3>2. QED BY <3>1 DEF AreDigits
  <2>8. FloatTo(text, k) => next = "FLOAT"
    <3> SUFFICES ASSUME FloatTo(text, k) PROVE next = "FLOAT"
      OBVIOUS
    <3>1. PICK j \in b + 1 .. k - 1 : DotAt(text, j) /\ AreDigits(text, j + 1, k)
      BY <2>3
    <3>2. c \in Numerals /\ AreDigits(text, j + 1, k - 1)
      BY <2>4, <3>1
    <3>3. s = "DOT" \/ s = "FLOAT"
      BY <2>1, <2>2, <2>5, <3>1, <3>2
    <3>4. QED BY <1>3, <3>2, <3>3
  <2>9. next = "FLOAT" => FloatTo(text, k)
    <3> SUFFICES ASSUME c \in Numerals, s \in {"FLOAT", "DOT"} PROVE FloatTo(text, k)
      BY <1>3
    <3>1. CASE s = "DOT"
      <4>1. k - 1 \in b + 1 .. k - 1
        BY <1>1, <1>2, <2>1, <2>6, <3>1
      <4>2. AreDigits(text, (k - 1) + 1, k)
        BY <2>4, <2>7, <4>1
      <4>3. QED BY <2>1, <2>3, <3>1, <4>1, <4>2
    <3>2. CASE s = "FLOAT"
      <4>1. PICK j \in b + 1 .. (k - 1) - 1 : DotAt(text, j) /\ AreDigits(text, j + 1, k - 1)
        BY <2>2, <3>2
      <4>2. j \in b + 1 .. k - 1
        BY <2>5
      <4>3. AreDigits(text, j + 1, k)
        BY <2>4, <4>1, <4>2
      <4>4. QED BY <2>3, <4>1, <4>2, <4>3
    <3>3. QED BY <3>1, <3>2
  <2>10. QED BY <2>8, <2>9
<1>10. ~(next = "INITIAL") /\ k # 0
  BY <1>1, <1>3
<1>11. QED BY <1>5, <1>7, <1>8, <1>9, <1>10 DEF Says, next, c

\* Without a vertical tab, the last state tells the look of the text.
LEMMA PlainState ==
  ASSUME NEW S, NEW text \in Seq(S), \A i \in 1 .. Len(text) : text[i] # VT
  PROVE  /\ StateAfter(text) \in States
         /\ StateAfter(text) = "NUMBER" <=> IsInt(text)
         /\ StateAfter(text) = "FLOAT" <=> IsFloat(text)
<1> DEFINE n == Len(text)
           b == SignLen(text)
<1>1. n \in Nat /\ b \in {0, 1} /\ DOMAIN text = 1 .. n
  BY DEF SignLen
<1>2. PICK a : Passes(a, text) /\ StateAfter(text) = a[n]
  BY PassesExist
<1> DEFINE T == {k \in 0 .. n : Says(a[k], text, k)}
<1>3. 0 \in T
  <2>1. a[0] = "INITIAL" /\ 0 \in 0 .. n
    BY <1>1, <1>2 DEF Passes
  <2>2. ~(b < 0) /\ \A j : ~(j \in b + 1 .. 0 - 1)
    BY <1>1
  <2>3. ~NumberTo(text, 0) /\ ~DotAt(text, 0) /\ ~FloatTo(text, 0)
    BY <2>2 DEF NumberTo, DotAt, FloatTo
  <2>4. QED BY <2>1, <2>3 DEF Says
<1>4. ASSUME NEW k \in 1 .. n, k - 1 \in T PROVE k \in T
  <2>1. a[k] = NextState(a[k - 1], csv_classify_char(text[k]))
    BY <1>2 DEF Passes
  <2>2. Says(a[k - 1], text, k - 1)
    BY <1>4
  <2>3. Says(NextState(a[k - 1], csv_classify_char(text[k])), text, k)
    BY <2>2, SaysNext
  <2>4. k \in 0 .. n
    BY <1>1
  <2>5. QED BY <2>1, <2>3, <2>4
<1>5. n \in T
  <2> HIDE DEF T, n
  <2>1. \A k \in 0 .. n : k \in T
    BY <1>1, <1>3, <1>4, IntervalInduction
  <2>2. n \in 0 .. n
    BY <1>1
  <2>3. QED BY <2>1, <2>2
<1>6. Says(a[n], text, n)
  BY <1>5
<1>7. NumberTo(text, n) <=> IsInt(text)
  BY DEF NumberTo, IsInt
<1>8. FloatTo(text, n) <=> IsFloat(text)
  <2>1. FloatTo(text, n) => IsFloat(text)
    <3> SUFFICES ASSUME FloatTo(text, n) PROVE IsFloat(text)
      OBVIOUS
    <3>1. PICK j \in b + 1 .. n - 1 : DotAt(text, j) /\ AreDigits(text, j + 1, n)
      BY DEF FloatTo
    <3>2. j \in DOMAIN text /\ j < n
      BY <1>1
    <3>3. IsPoint(text, j)
      BY <3>1, <3>2 DEF IsPoint, DotAt
    <3>4. QED BY <3>2, <3>3 DEF IsFloat
  <2>2. IsFloat(text) => FloatTo(text, n)
    <3> SUFFICES ASSUME NEW j \in DOMAIN text, IsPoint(text, j) PROVE FloatTo(text, n)
      BY DEF IsFloat
    <3>1. b < j /\ j < n /\ DotAt(text, j) /\ AreDigits(text, j + 1, n)
      BY DEF IsPoint, DotAt
    <3>2. j \in b + 1 .. n - 1
      BY <1>1, <3>1
    <3>3. QED BY <3>1, <3>2 DEF FloatTo
  <2>3. QED BY <2>1, <2>2
<1>9. a[n] \in States
  <2>1. n \in 0 .. n
    BY <1>1
  <2>2. QED BY <1>2, <2>1 DEF Passes
<1>10. QED BY <1>2, <1>6, <1>7, <1>8, <1>9 DEF Says

\* The largest of some numbers up to n.
LEMMA MaxOfNats ==
  ASSUME NEW n \in Nat, NEW B, B \subseteq 0 .. n, B # {}
  PROVE  Max(B) \in B /\ \A y \in B : y <= Max(B)
<1> DEFINE U == {x \in 0 .. n : \A y \in B : y <= x}
<1>1. n \in U /\ U \subseteq Nat
  OBVIOUS
<1>2. PICK x \in U : \A z \in U : x <= z
  <2> HIDE DEF U
  <2>1. QED BY <1>1, LeastNat
<1>3. x \in B
  <2> SUFFICES ASSUME x \notin B PROVE FALSE
    OBVIOUS
  <2>1. x \in 0 .. n /\ \A y \in B : y <= x
    BY <1>2
  <2>2. PICK y \in B : TRUE
    OBVIOUS
  <2>3. y \in Nat /\ y <= x /\ y # x
    BY <2>1
  <2>4. x - 1 \in 0 .. n
    BY <2>1, <2>3
  <2>5. \A z \in B : z <= x - 1
    <3>1. ASSUME NEW z \in B PROVE z <= x - 1
      <4>1. z \in Int /\ z <= x /\ z # x
        BY <2>1
      <4>2. QED BY <2>1, <4>1
    <3>2. QED BY <3>1
  <2>6. x <= x - 1
    BY <1>2, <2>4, <2>5
  <2>7. QED BY <2>1, <2>6
<1>4. \A y \in B : x >= y
  <2>1. ASSUME NEW y \in B PROVE x >= y
    <3>1. y <= x /\ x \in Int /\ y \in Int
      BY <1>2
    <3>2. QED BY <3>1
  <2>2. QED BY <2>1
<1> DEFINE m == Max(B)
<1>5. m \in B /\ \A y \in B : m >= y
  BY <1>3, <1>4 DEF Max
<1> HIDE DEF m
<1>6. \A y \in B : y <= m
  <2>1. ASSUME NEW y \in B PROVE y <= m
    <3>1. m >= y /\ m \in Int /\ y \in Int
      BY <1>5
    <3>2. QED BY <3>1
  <2>2. QED BY <2>1
<1>7. QED BY <1>5, <1>6 DEF m

\* A piece of a text.
LEMMA PieceIs ==
  ASSUME NEW S, NEW text \in Seq(S), NEW m \in Int, NEW n \in Int, 1 <= m, n <= Len(text)
  PROVE  /\ SubSeq(text, m, n) \in Seq(S)
         /\ Len(SubSeq(text, m, n)) = IF m <= n THEN n - m + 1 ELSE 0
         /\ \A i \in 1 .. n - m + 1 : SubSeq(text, m, n)[i] = text[m + i - 1]
<1>1. \A i \in m .. n : text[i] \in S
  OBVIOUS
<1>2. QED BY <1>1, SubSeqProperties

\* What follows the last vertical tab.
LEMMA AfterTabIs ==
  ASSUME NEW S, NEW text \in Seq(S)
  PROVE  \E t \in 0 .. Len(text) :
           /\ t = 0 \/ text[t] = VT
           /\ \A i \in t + 1 .. Len(text) : text[i] # VT
           /\ AfterTab(text) = SubSeq(text, t + 1, Len(text))
           /\ AfterTab(text) \in Seq(S) /\ Len(AfterTab(text)) = Len(text) - t
           /\ \A i \in 1 .. Len(text) - t : AfterTab(text)[i] = text[t + i]
<1> DEFINE n == Len(text)
           B == {0} \cup {i \in DOMAIN text : text[i] = VT}
           t == Max(B)
<1>1. n \in Nat /\ DOMAIN text = 1 .. n
  OBVIOUS
<1>2. B \subseteq 0 .. n /\ B # {}
  BY <1>1
<1>3. t \in B /\ \A y \in B : y <= t
  <2> HIDE DEF B, n
  <2>1. QED BY <1>1, <1>2, MaxOfNats
<1>4. AfterTab(text) = SubSeq(text, t + 1, n)
  BY DEF AfterTab
<1> HIDE DEF t
<1>5. t \in 0 .. n /\ (t = 0 \/ text[t] = VT)
  BY <1>1, <1>3
<1>6. ASSUME NEW i \in t + 1 .. n PROVE text[i] # VT
  <2>1. i \in 1 .. n /\ ~(i <= t)
    BY <1>1, <1>5
  <2>2. i \notin B
    BY <1>3, <2>1
  <2>3. QED BY <1>1, <2>1, <2>2
<1> DEFINE last == SubSeq(text, t + 1, n)
<1>7. last \in Seq(S) /\ Len(last) = n - t /\ \A i \in 1 .. n - t : last[i] = text[t + i]
  <2>1. t + 1 \in 1 .. n + 1 /\ n \in t .. n
    BY <1>1, <1>5
  <2> DEFINE m == t + 1
  <2>2. m \in Int /\ n \in Int /\ 1 <= m /\ n <= Len(text) /\ last = SubSeq(text, m, n)
    BY <1>1, <1>5
  <2> HIDE DEF m, last
  <2>3. /\ last \in Seq(S) /\ Len(last) = IF m <= n THEN n - m + 1 ELSE 0
        /\ \A i \in 1 .. n - m + 1 : last[i] = text[m + i - 1]
    BY <2>2, PieceIs
  <2>4. (IF m <= n THEN n - m + 1 ELSE 0) = n - t /\ n - m + 1 = n - t
    <3> HIDE DEF n
    <3>1. n \in Nat /\ t \in Nat /\ t <= n /\ m = t + 1
      BY <1>1, <1>5 DEF m
    <3>2. QED BY <3>1
  <2>5. \A i \in 1 .. n - t : m + i - 1 = t + i
    BY <1>5 DEF m
  <2>6. QED BY <2>3, <2>4, <2>5
<1>8. QED BY <1>4, <1>5, <1>6, <1>7

\* A vertical tab starts over: the last state is that of what is behind it.
LEMMA StateRestarts ==
  ASSUME NEW S, NEW text \in Seq(S)
  PROVE  StateAfter(text) = StateAfter(AfterTab(text))
<1> DEFINE last == AfterTab(text)
           n == Len(text)
<1>1. PICK t \in 0 .. n : /\ t = 0 \/ text[t] = VT
                          /\ last \in Seq(S) /\ Len(last) = n - t
                          /\ \A i \in 1 .. n - t : last[i] = text[t + i]
  BY AfterTabIs
<1>2. PICK a : Passes(a, text) /\ StateAfter(text) = a[n]
  BY PassesExist
<1> HIDE DEF last
<1>3. PICK c : Passes(c, last) /\ StateAfter(last) = c[n - t]
  BY <1>1, PassesExist
<1>4. n \in Nat /\ t \in Nat /\ t <= n /\ n - t \in Nat
  OBVIOUS
<1>5. a[t] = "INITIAL"
  <2>1. CASE t = 0
    BY <1>2, <2>1 DEF Passes
  <2>2. CASE t # 0
    <3>1. t \in 1 .. n /\ text[t] = VT
      BY <1>1, <1>4, <2>2
    <3>2. a[t] = NextState(a[t - 1], csv_classify_char(text[t]))
      BY <1>2, <3>1 DEF Passes
    <3>3. QED BY <3>1, <3>2, NextStateIs
  <2>3. QED BY <2>1, <2>2
<1> DEFINE T == {i \in 0 .. n - t : a[t + i] = c[i]}
           m == n - t
<1>6. 0 \in T
  <2>1. t + 0 = t /\ 0 \in 0 .. n - t /\ c[0] = "INITIAL"
    BY <1>3, <1>4 DEF Passes
  <2>2. QED BY <1>5, <2>1
<1>7. ASSUME NEW i \in 1 .. m, i - 1 \in T PROVE i \in T
  <2>1. t + i \in 1 .. n /\ (t + i) - 1 = t + (i - 1) /\ i \in 0 .. n - t /\ i \in 1 .. Len(last)
    BY <1>1, <1>4
  <2>2. a[t + i] = NextState(a[(t + i) - 1], csv_classify_char(text[t + i]))
    BY <1>2, <2>1 DEF Passes
  <2>3. c[i] = NextState(c[i - 1], csv_classify_char(last[i]))
    BY <1>3, <2>1 DEF Passes
  <2>4. last[i] = text[t + i]
    BY <1>1
  <2>5. a[t + (i - 1)] = c[i - 1]
    BY <1>7
  <2>6. a[t + i] = c[i]
    BY <2>1, <2>2, <2>3, <2>4, <2>5
  <2>7. QED BY <2>1, <2>6
<1> HIDE DEF T, m
<1>8. \A i \in 0 .. m : i \in T
  BY <1>4, <1>6, <1>7, IntervalInduction DEF m
<1>9. a[t + m] = c[m] /\ t + m = n
  <2>1. m \in 0 .. m /\ t + m = n
    BY <1>4 DEF m
  <2>2. QED BY <1>8, <2>1 DEF T
<1>10. StateAfter(text) = StateAfter(last)
  BY <1>2, <1>3, <1>9 DEF m
<1>11. QED BY <1>10 DEF last

-----------------------------------------------------------------------------
(***************************************************************************)
(* Numbers                                                                 *)
(***************************************************************************)
LEMMA DigitOfIs ==
    /\ \A c \in Numerals : DigitOf(c) \in 0 .. 9 /\ Digits[DigitOf(c) + 1] = c
    /\ \A n \in 0 .. 9 : Digits[n + 1] \in Numerals /\ DigitOf(Digits[n + 1]) = n
<1>1. ASSUME NEW c \in Numerals PROVE DigitOf(c) \in 0 .. 9 /\ Digits[DigitOf(c) + 1] = c
  <2>1. \E i \in 1 .. 10 : Digits[i] = c
    BY NumeralsAre DEF Digits
  <2> DEFINE i == CHOOSE i \in 1 .. 10 : Digits[i] = c
  <2>2. i \in 1 .. 10 /\ Digits[i] = c
    BY <2>1
  <2>3. DigitOf(c) = i - 1
    BY DEF DigitOf
  <2> HIDE DEF i
  <2>4. (i - 1) + 1 = i
    BY <2>2
  <2>5. QED BY <2>2, <2>3, <2>4
<1>2. ASSUME NEW n \in 0 .. 9 PROVE Digits[n + 1] \in Numerals /\ DigitOf(Digits[n + 1]) = n
  <2>1. n \in {0, 1, 2, 3, 4, 5, 6, 7, 8, 9}
    OBVIOUS
  <2>2. Digits[n + 1] \in Numerals
    BY <2>1, NumeralsAre DEF Digits
  <2> DEFINE m == DigitOf(Digits[n + 1])
  <2>3. m \in 0 .. 9 /\ Digits[m + 1] = Digits[n + 1]
    BY <1>1, <2>2
  <2> HIDE DEF m
  <2>4. \A i, j \in {0, 1, 2, 3, 4, 5, 6, 7, 8, 9} : Digits[i + 1] = Digits[j + 1] => i = j
    BY DEF Digits
  <2>5. m \in {0, 1, 2, 3, 4, 5, 6, 7, 8, 9}
    BY <2>3
  <2>6. m = n
    BY <2>1, <2>3, <2>4, <2>5
  <2>7. QED BY <2>2, <2>6 DEF m
<1>3. QED BY <1>1, <1>2

\* The values of the first digits.
Values(f, d) ==
    /\ f \in [0 .. Len(d) -> Nat] /\ f[0] = 0
    /\ \A i \in 1 .. Len(d) : f[i] = 10 * f[i - 1] + DigitOf(d[i])

\* Number is the last of the values of its beginnings.
LEMMA NumberIs ==
  ASSUME NEW d \in Seq(Numerals)
  PROVE  /\ \E f : Values(f, d) /\ Number(d) = f[Len(d)]
         /\ Number(d) \in Nat
<1> DEFINE n == Len(d)
           step == [i \in 1 .. n |-> [v \in Nat |-> 10 * v + DigitOf(d[i])]]
           U(f) == f = [i \in 0 .. n |-> IF i = 0 THEN 0 ELSE 10 * f[i - 1] + DigitOf(d[i])]
<1>1. n \in Nat /\ \A i \in 1 .. n : DigitOf(d[i]) \in Nat
  <2>1. \A i \in 1 .. n : d[i] \in Numerals
    OBVIOUS
  <2>2. \A i \in 1 .. n : DigitOf(d[i]) \in 0 .. 9
    BY <2>1, DigitOfIs
  <2>3. QED BY <2>2
<1>2. PICK f : Iterates(f, n, Nat, 0, step)
  <2> DEFINE V == Nat
             first == 0
  <2>1. step \in [1 .. n -> [Nat -> Nat]]
    BY <1>1
  <2>2. first \in V /\ step \in Steps(n, V)
    BY <2>1 DEF Steps
  <2> HIDE DEF step, n, V, first
  <2>3. \E f : Iterates(f, n, V, first, step)
    BY <1>1, <2>2, IntervalRecursion
  <2>4. QED BY <2>3 DEF V, first
<1> HIDE DEF n
<1>3. ASSUME NEW i \in 1 .. n PROVE f[i] = 10 * f[i - 1] + DigitOf(d[i])
  <2>1. i - 1 \in 0 .. n
    BY <1>1
  <2>2. f[i - 1] \in Nat
    BY <1>2, <2>1 DEF Iterates
  <2>3. QED BY <1>2, <2>2 DEF Iterates
<1>4. U(f)
  <2> DEFINE g == [i \in 0 .. n |-> IF i = 0 THEN 0 ELSE 10 * f[i - 1] + DigitOf(d[i])]
  <2>1. \A i \in 0 .. n : f[i] = g[i]
    BY <1>1, <1>2, <1>3 DEF Iterates
  <2>2. f = g
    <3>1. g = [i \in 0 .. n |-> g[i]]
      OBVIOUS
    <3> HIDE DEF g
    <3>2. QED BY <1>2, <2>1, <3>1 DEF Iterates
  <2>3. QED BY <2>2
<1> DEFINE upto == CHOOSE g : U(g)
<1>5. U(upto)
  <2> HIDE DEF U
  <2>1. QED BY <1>4
<1>6. Number(d) = upto[n]
  BY DEF Number, n
<1> HIDE DEF upto
<1>7. upto[0] = 0 /\ \A i \in 1 .. n : upto[i] = 10 * upto[i - 1] + DigitOf(d[i])
  BY <1>1, <1>5
<1>8. \A i \in 0 .. n : upto[i] \in Nat
  <2> DEFINE T == {i \in 0 .. n : upto[i] \in Nat}
  <2>1. 0 \in T
    BY <1>1, <1>7
  <2>2. ASSUME NEW i \in 1 .. n, i - 1 \in T PROVE i \in T
    <3>1. i \in 0 .. n /\ upto[i - 1] \in Nat /\ DigitOf(d[i]) \in Nat
      BY <1>1, <2>2
    <3>2. upto[i] = 10 * upto[i - 1] + DigitOf(d[i])
      BY <1>7
    <3> DEFINE a == upto[i - 1]
               b == DigitOf(d[i])
    <3>3. a \in Nat /\ b \in Nat => 10 * a + b \in Nat
      <4> HIDE DEF a, b
      <4>1. QED OBVIOUS
    <3>4. QED BY <3>1, <3>2, <3>3
  <2> HIDE DEF T
  <2>3. \A i \in 0 .. n : i \in T
    BY <1>1, <2>1, <2>2, IntervalInduction
  <2>4. QED BY <2>3 DEF T
<1>9. upto \in [0 .. n -> Nat]
  <2> DEFINE h == [i \in 0 .. n |-> IF i = 0 THEN 0 ELSE 10 * upto[i - 1] + DigitOf(d[i])]
  <2>1. upto = h /\ h = [i \in 0 .. n |-> h[i]]
    BY <1>5
  <2> HIDE DEF h
  <2>2. QED BY <1>8, <2>1
<1>10. Values(upto, d)
  BY <1>7, <1>9 DEF Values, n
<1>11. Number(d) \in Nat
  BY <1>1, <1>6, <1>8
<1>12. QED BY <1>6, <1>10, <1>11 DEF n

\* A number is what its first digits say, times a power of ten, and what the
\* others say.
LEMMA NumberConcat ==
  ASSUME NEW x \in Seq(Numerals), NEW y \in Seq(Numerals)
  PROVE  x \o y \in Seq(Numerals) /\ Number(x \o y) = Number(x) * Ten[Len(y)] + Number(y)
<1> DEFINE m == Len(x)
           n == Len(y)
           d == x \o y
<1>1. /\ m \in Nat /\ n \in Nat /\ d \in Seq(Numerals) /\ Len(d) = m + n
      /\ \A i \in 1 .. m : d[i] = x[i]
      /\ \A i \in 1 .. n : d[m + i] = y[i]
  OBVIOUS
<1> HIDE DEF d
<1>2. PICK f : Values(f, x) /\ Number(x) = f[m]
  BY NumberIs
<1>3. PICK g : Values(g, y) /\ Number(y) = g[n]
  BY NumberIs
<1>4. PICK h : Values(h, d) /\ Number(d) = h[m + n]
  BY <1>1, NumberIs
<1> HIDE DEF m, n
<1>5. h[m] = f[m]
  <2> DEFINE T == {i \in 0 .. m : h[i] = f[i]}
  <2>1. 0 \in T
    BY <1>1, <1>2, <1>4 DEF Values
  <2>2. ASSUME NEW i \in 1 .. m, i - 1 \in T PROVE i \in T
    <3>1. i \in 1 .. m + n /\ i \in 0 .. m
      BY <1>1
    <3>2. f[i] = 10 * f[i - 1] + DigitOf(x[i]) /\ h[i] = 10 * h[i - 1] + DigitOf(d[i])
      BY <1>1, <1>2, <1>4, <3>1 DEF Values, m
    <3>3. h[i - 1] = f[i - 1] /\ d[i] = x[i]
      BY <1>1, <2>2
    <3>4. h[i] = f[i]
      BY <3>2, <3>3
    <3>5. QED BY <3>1, <3>4
  <2> HIDE DEF T
  <2>3. \A i \in 0 .. m : i \in T
    BY <1>1, <2>1, <2>2, IntervalInduction
  <2>4. m \in 0 .. m
    BY <1>1
  <2>5. QED BY <2>3, <2>4 DEF T
<1>6. f[m] \in Nat
  <2>1. f \in [0 .. m -> Nat]
    BY <1>2 DEF Values, m
  <2>2. m \in 0 .. m
    BY <1>1
  <2>3. QED BY <2>1, <2>2
<1> DEFINE T == {i \in 0 .. n : h[m + i] = f[m] * Ten[i] + g[i]}
<1>7. 0 \in T
  <2>1. m + 0 = m /\ g[0] = 0 /\ Ten[0] = 1 /\ 0 \in 0 .. n
    BY <1>1, <1>3, TenIs DEF Values
  <2> DEFINE F == f[m]
  <2> HIDE DEF F
  <2>2. F * 1 + 0 = F
    BY <1>6 DEF F
  <2>3. h[m + 0] = F
    BY <1>5, <2>1 DEF F
  <2>4. h[m + 0] = F * Ten[0] + g[0]
    BY <2>1, <2>2, <2>3
  <2>5. QED BY <2>1, <2>4 DEF F
<1>8. ASSUME NEW i \in 1 .. n, i - 1 \in T PROVE i \in T
  <2>1. /\ m + i \in 1 .. m + n /\ (m + i) - 1 = m + (i - 1) /\ i \in 0 .. n
        /\ i - 1 \in Nat /\ (i - 1) + 1 = i /\ i - 1 \in 0 .. n
    BY <1>1
  <2>2. h[m + i] = 10 * h[(m + i) - 1] + DigitOf(d[m + i])
    BY <1>1, <1>4, <2>1 DEF Values
  <2>3. g[i] = 10 * g[i - 1] + DigitOf(y[i]) /\ g[i - 1] \in Nat
    BY <1>3, <2>1 DEF Values, n
  <2>4. h[m + (i - 1)] = f[m] * Ten[i - 1] + g[i - 1]
    BY <1>8
  <2>5. Ten[(i - 1) + 1] = 10 * Ten[i - 1] /\ Ten[i - 1] \in Nat
    BY <2>1, TenIs
  <2>6. y[i] \in Numerals /\ d[m + i] = y[i]
    BY <1>1 DEF n
  <2>7. DigitOf(y[i]) \in Int
    BY <2>6, DigitOfIs
  <2> DEFINE a == f[m]
             b == Ten[i - 1]
             c == g[i - 1]
             e == DigitOf(y[i])
  <2>8. a \in Nat /\ b \in Nat /\ c \in Nat /\ e \in Int
    BY <1>6, <2>3, <2>5, <2>7
  <2>9. h[m + i] = 10 * (a * b + c) + e
    BY <2>1, <2>2, <2>4, <2>6
  <2>10. g[i] = 10 * c + e /\ Ten[i] = 10 * b
    BY <2>1, <2>3, <2>5
  <2> HIDE DEF a, b, c, e
  <2>11. 10 * (a * b + c) + e = a * (10 * b) + (10 * c + e)
    BY <2>8
  <2>12. h[m + i] = a * Ten[i] + g[i]
    BY <2>9, <2>10, <2>11
  <2>13. QED BY <2>1, <2>12 DEF a
<1> HIDE DEF T
<1>9. \A i \in 0 .. n : i \in T
  BY <1>1, <1>7, <1>8, IntervalInduction
<1>10. h[m + n] = f[m] * Ten[n] + g[n]
  <2>1. n \in 0 .. n
    BY <1>1
  <2>2. QED BY <1>9, <2>1 DEF T
<1>11. QED BY <1>1, <1>2, <1>3, <1>4, <1>10 DEF d, n

\* The value of no digits and of one.
LEMMA NumberOfOne ==
    /\ Number(<<>>) = 0
    /\ \A c \in Numerals : <<c>> \in Seq(Numerals) /\ Number(<<c>>) = DigitOf(c)
<1>1. Number(<<>>) = 0
  <2> DEFINE d == <<>>
  <2>1. d \in Seq(Numerals) /\ Len(d) = 0
    OBVIOUS
  <2> HIDE DEF d
  <2>2. Number(d) = 0
    BY <2>1, NumberIs DEF Values
  <2>3. QED BY <2>2 DEF d
<1>2. ASSUME NEW c \in Numerals
      PROVE  <<c>> \in Seq(Numerals) /\ Number(<<c>>) = DigitOf(c)
  <2> DEFINE d == <<c>>
  <2>1. d \in Seq(Numerals) /\ Len(d) = 1 /\ d[1] = c
    OBVIOUS
  <2> HIDE DEF d
  <2>2. PICK f : Values(f, d) /\ Number(d) = f[1]
    BY <2>1, NumberIs
  <2>3. f[0] = 0 /\ f[1] = 10 * f[1 - 1] + DigitOf(d[1])
    BY <2>1, <2>2 DEF Values
  <2>4. 1 - 1 = 0 /\ DigitOf(c) \in Int
    BY DigitOfIs
  <2>5. Number(d) = DigitOf(c)
    BY <2>1, <2>2, <2>3, <2>4
  <2>6. QED BY <2>1, <2>5 DEF d
<1>3. QED BY <1>1, <1>2

\* Powers of 10 grow, and multiply by adding exponents.
LEMMA TenGrows ==
  ASSUME NEW m \in Nat, NEW n \in Nat
  PROVE  /\ m < n => Ten[m] < Ten[n]
         /\ Ten[m] < Ten[n] => m < n
         /\ Ten[m + n] = Ten[m] * Ten[n]
<1>1. ASSUME NEW i \in Nat, NEW j \in Nat, i < j PROVE Ten[i] < Ten[j]
  <2> DEFINE S == {k \in Nat : i < k => Ten[i] < Ten[k]}
  <2>1. 0 \in S
    OBVIOUS
  <2>2. ASSUME NEW k \in S PROVE k + 1 \in S
    <3>1. Ten[i] \in Nat \ {0} /\ Ten[k] \in Nat \ {0} /\ Ten[k + 1] = 10 * Ten[k]
      BY TenIs
    <3>2. Ten[k] < Ten[k + 1]
      BY <3>1
    <3>3. CASE i < k
      BY <3>1, <3>2, <3>3
    <3>4. CASE i = k
      BY <3>1, <3>2, <3>4
    <3>5. CASE k < i
      BY <3>5
    <3>6. QED BY <3>3, <3>4, <3>5
  <2> HIDE DEF S
  <2>3. S \subseteq Nat
    BY DEF S
  <2>4. S = Nat
    BY <2>1, <2>2, <2>3, NatSetInduction
  <2>5. QED BY <1>1, <2>4 DEF S
<1>2. Ten[m] \in Nat /\ Ten[n] \in Nat
  BY TenIs
<1>3. Ten[m] < Ten[n] => m < n
  <2> SUFFICES ASSUME ~(m < n) PROVE ~(Ten[m] < Ten[n])
    OBVIOUS
  <2>1. CASE m = n
    BY <1>2, <2>1
  <2>2. CASE n < m
    BY <1>1, <1>2, <2>2
  <2>3. QED BY <2>1, <2>2
<1>4. Ten[m + n] = Ten[m] * Ten[n]
  <2> DEFINE S == {k \in Nat : Ten[m + k] = Ten[m] * Ten[k]}
  <2>1. 0 \in S
    <3>1. m + 0 = m /\ Ten[m] * 1 = Ten[m]
      BY <1>2
    <3>2. QED BY <3>1, TenIs
  <2>2. ASSUME NEW k \in S PROVE k + 1 \in S
    <3>1. Ten[m + k] = Ten[m] * Ten[k] /\ m + (k + 1) = (m + k) + 1 /\ m + k \in Nat
      OBVIOUS
    <3>2. Ten[(m + k) + 1] = 10 * Ten[m + k] /\ Ten[k + 1] = 10 * Ten[k] /\ Ten[k] \in Nat
      BY <3>1, TenIs
    <3>3. 10 * (Ten[m] * Ten[k]) = Ten[m] * (10 * Ten[k])
      BY <1>2, <3>2
    <3>4. QED BY <3>1, <3>2, <3>3
  <2> HIDE DEF S
  <2>3. S \subseteq Nat
    BY DEF S
  <2>4. S = Nat
    BY <2>1, <2>2, <2>3, NatSetInduction
  <2>5. QED BY <2>4 DEF S
<1>5. QED BY <1>1, <1>3, <1>4

\* So many digits say less than the power of 10 with so many zeros.
LEMMA NumberFits ==
  ASSUME NEW d \in Seq(Numerals)
  PROVE  Number(d) < Ten[Len(d)]
<1> DEFINE n == Len(d)
<1>1. n \in Nat /\ \A i \in 1 .. n : d[i] \in Numerals
  OBVIOUS
<1>2. PICK f : Values(f, d) /\ Number(d) = f[n]
  BY NumberIs
<1> HIDE DEF n
<1> DEFINE T == {i \in 0 .. n : f[i] < Ten[i]}
<1>3. 0 \in T
  <2>1. f[0] = 0 /\ Ten[0] = 1 /\ 0 \in 0 .. n
    BY <1>1, <1>2, TenIs DEF Values
  <2>2. QED BY <2>1
<1>4. ASSUME NEW i \in 1 .. n, i - 1 \in T PROVE i \in T
  <2>1. i \in 0 .. n /\ i - 1 \in 0 .. n /\ i - 1 \in Nat /\ (i - 1) + 1 = i
    BY <1>1
  <2>2. f[i] = 10 * f[i - 1] + DigitOf(d[i]) /\ f[i - 1] \in Nat
    BY <1>2, <2>1 DEF Values, n
  <2>3. DigitOf(d[i]) \in 0 .. 9
    BY <1>1, DigitOfIs
  <2>4. Ten[(i - 1) + 1] = 10 * Ten[i - 1] /\ Ten[i - 1] \in Nat
    BY <2>1, TenIs
  <2>5. f[i - 1] < Ten[i - 1]
    BY <1>4
  <2>6. 10 * f[i - 1] + DigitOf(d[i]) < 10 * Ten[i - 1]
    <3> DEFINE a == f[i - 1]
               b == Ten[i - 1]
               c == DigitOf(d[i])
    <3>1. a \in Nat /\ b \in Nat /\ c \in 0 .. 9 /\ a < b
      BY <2>2, <2>3, <2>4, <2>5
    <3> HIDE DEF a, b, c
    <3>2. 10 * a + c < 10 * b
      BY <3>1
    <3>3. QED BY <3>2 DEF a, b, c
  <2>7. QED BY <2>1, <2>2, <2>4, <2>6
<1> HIDE DEF T
<1>5. \A i \in 0 .. n : i \in T
  BY <1>1, <1>3, <1>4, IntervalInduction
<1>6. n \in 0 .. n
  BY <1>1
<1>7. QED BY <1>2, <1>5, <1>6 DEF T, n

\* The digits of a number, by the recursion of Decimal.
LEMMA DecimalExists ==
    /\ Decimal \in [Nat -> Seq(Numerals)]
    /\ \A n \in Nat : Decimal[n] = IF n < 10 THEN <<Digits[n + 1]>>
                                   ELSE Append(Decimal[n \div 10], Digits[(n % 10) + 1])
<1> DEFINE D == Nat
           V == Seq(Numerals)
           P == {n \in Nat : ~(n < 10)}
           measure == [n \in Nat |-> n]
           base == [n \in Nat |-> IF n < 10 THEN <<Digits[n + 1]>> ELSE <<>>]
           pred == [n \in P |-> n \div 10]
           step == [n \in P |-> [v \in Seq(Numerals) |-> Append(v, Digits[(n % 10) + 1])]]
           U(f) == f = [n \in Nat |-> IF n < 10 THEN <<Digits[n + 1]>>
                                      ELSE Append(f[n \div 10], Digits[(n % 10) + 1])]
<1>1. \A n \in Nat : n % 10 \in 0 .. 9 /\ n \div 10 \in Nat
  OBVIOUS
<1>2. \A n \in P : n \div 10 < n
  OBVIOUS
<1>3. PICK f \in [D -> V] : Recurs(f, D, P, base, pred, step)
  <2>1. P \in SUBSET D /\ measure \in [D -> Nat] /\ pred \in [P -> D]
    BY <1>1
  <2>2. base \in [D -> V]
    <3>1. \A n \in Nat : n < 10 => n \in 0 .. 9
      OBVIOUS
    <3>2. \A n \in 0 .. 9 : Digits[n + 1] \in Numerals
      BY DigitOfIs
    <3>3. \A n \in Nat : (IF n < 10 THEN <<Digits[n + 1]>> ELSE <<>>) \in Seq(Numerals)
      BY <3>1, <3>2
    <3>4. QED BY <3>3
  <2>3. step \in [P -> [V -> V]]
    <3>1. ASSUME NEW n \in P, NEW v \in V PROVE Append(v, Digits[(n % 10) + 1]) \in V
      <4>1. Digits[(n % 10) + 1] \in Numerals
        BY <1>1, DigitOfIs
      <4>2. QED BY <4>1
    <3>2. QED BY <3>1
  <2>4. \A n \in P : measure[pred[n]] < measure[n]
    BY <1>1, <1>2
  <2> HIDE DEF D, P, measure, base, pred, step, V
  <2>5. \E f \in [D -> V] : Recurs(f, D, P, base, pred, step)
    BY <2>1, <2>2, <2>3, <2>4, RecursionExists
  <2>6. QED BY <2>5
<1>4. U(f)
  <2> DEFINE g == [n \in Nat |-> IF n < 10 THEN <<Digits[n + 1]>>
                                 ELSE Append(f[n \div 10], Digits[(n % 10) + 1])]
  <2>1. \A n \in Nat : f[n] = g[n]
    <3>1. \A n \in Nat : f[n] \in V
      BY <1>3
    <3>2. \A n \in P : n \div 10 \in Nat /\ pred[n] = n \div 10
      BY <1>1
    <3>3. \A n \in P : \A v \in V : step[n][v] = Append(v, Digits[(n % 10) + 1])
      OBVIOUS
    <3>4. \A n \in Nat : n < 10 => base[n] = <<Digits[n + 1]>>
      OBVIOUS
    <3>5. \A n \in Nat : n \in P <=> ~(n < 10)
      OBVIOUS
    <3> HIDE DEF step, pred, base, V, P
    <3>6. ASSUME NEW n \in Nat
          PROVE  f[n] = IF n < 10 THEN <<Digits[n + 1]>>
                        ELSE Append(f[n \div 10], Digits[(n % 10) + 1])
      <4>1. f[n] = IF n \in P THEN step[n][f[pred[n]]] ELSE base[n]
        BY <1>3 DEF Recurs
      <4>2. CASE n < 10
        BY <3>4, <3>5, <4>1, <4>2
      <4>3. CASE ~(n < 10)
        BY <3>1, <3>2, <3>3, <3>5, <4>1, <4>3
      <4>4. QED BY <4>2, <4>3
    <3>7. QED BY <3>6
  <2>2. f = g
    <3>1. g = [n \in Nat |-> g[n]]
      OBVIOUS
    <3> HIDE DEF g
    <3>2. QED BY <1>3, <2>1, <3>1
  <2>3. QED BY <2>2
<1>5. U(Decimal)
  <2> HIDE DEF U
  <2>1. U(CHOOSE g : U(g))
    BY <1>4
  <2>2. Decimal = CHOOSE g : U(g)
    BY DEF Decimal, U
  <2>3. QED BY <2>1, <2>2
<1>6. \A n \in Nat : Decimal[n] = IF n < 10 THEN <<Digits[n + 1]>>
                                  ELSE Append(Decimal[n \div 10], Digits[(n % 10) + 1])
  BY <1>5
<1>7. \A n \in Nat : Decimal[n] \in Seq(Numerals)
  <2> DEFINE T == {n \in Nat : Decimal[n] \in Seq(Numerals)}
  <2>1. ASSUME NEW n \in Nat, \A m \in Nat : m < n => m \in T PROVE n \in T
    <3>1. CASE n < 10
      <4>1. n \in 0 .. 9
        BY <3>1
      <4>2. Digits[n + 1] \in Numerals
        BY <4>1, DigitOfIs
      <4>3. <<Digits[n + 1]>> \in Seq(Numerals)
        BY <4>2
      <4>4. QED BY <1>6, <3>1, <4>3
    <3>2. CASE ~(n < 10)
      <4>1. n \div 10 \in Nat /\ n \div 10 < n
        BY <1>1, <1>2, <3>2
      <4>2. Decimal[n \div 10] \in Seq(Numerals)
        BY <2>1, <4>1
      <4>3. Digits[(n % 10) + 1] \in Numerals
        BY <1>1, DigitOfIs
      <4>4. Append(Decimal[n \div 10], Digits[(n % 10) + 1]) \in Seq(Numerals)
        BY <4>2, <4>3
      <4>5. QED BY <1>6, <3>2, <4>4
    <3>3. QED BY <3>1, <3>2
  <2> HIDE DEF T
  <2>2. T \subseteq Nat
    BY DEF T
  <2>3. T = Nat
    BY <2>1, <2>2, NatSetStrongInduction
  <2>4. QED BY <2>3 DEF T
<1>8. Decimal \in [Nat -> Seq(Numerals)]
  <2> DEFINE g == [n \in Nat |-> IF n < 10 THEN <<Digits[n + 1]>>
                                 ELSE Append(Decimal[n \div 10], Digits[(n % 10) + 1])]
  <2>1. Decimal = g /\ g = [n \in Nat |-> g[n]]
    BY <1>5
  <2> HIDE DEF g
  <2>2. QED BY <1>7, <2>1
<1>9. QED BY <1>6, <1>8

\* What %d and %f make of a number reads as that number; it has no more digits
\* than it needs.
LEMMA DecimalIs ==
  ASSUME NEW n \in Nat
  PROVE  LET d == Decimal[n]
         IN  /\ d \in Seq(Numerals) /\ Len(d) \in Nat \ {0}
             /\ Number(d) = n
             /\ n < Ten[Len(d)]
             /\ n # 0 => Ten[Len(d) - 1] <= n
<1> DEFINE Right(m) == /\ Len(Decimal[m]) \in Nat \ {0} /\ Number(Decimal[m]) = m
                       /\ m # 0 => Ten[Len(Decimal[m]) - 1] <= m
           T == {m \in Nat : Right(m)}
<1>1. ASSUME NEW m \in Nat, \A k \in Nat : k < m => k \in T PROVE m \in T
  <2>1. CASE m < 10
    <3>1. m \in 0 .. 9 /\ Digits[m + 1] \in Numerals /\ DigitOf(Digits[m + 1]) = m
      <4>1. m \in 0 .. 9
        BY <2>1
      <4>2. QED BY <4>1, DigitOfIs
    <3> DEFINE c == Digits[m + 1]
    <3>2. Decimal[m] = <<c>> /\ Len(<<c>>) = 1
      BY <2>1, DecimalExists
    <3> HIDE DEF c
    <3>3. Number(<<c>>) = m
      BY <3>1, NumberOfOne DEF c
    <3>4. Ten[1 - 1] = 1 /\ (m # 0 => 1 <= m)
      BY <3>1, TenIs
    <3>5. Right(m)
      BY <3>2, <3>3, <3>4
    <3>6. QED BY <3>5
  <2>2. CASE ~(m < 10)
    <3> DEFINE q == m \div 10
               r == m % 10
               c == Digits[r + 1]
               e == Decimal[q]
    <3>1. q \in Nat /\ q # 0 /\ q < m /\ r \in 0 .. 9 /\ m = 10 * q + r
      BY <2>2
    <3> HIDE DEF q, r
    <3>2. Decimal[m] = Append(e, c)
      BY <2>2, DecimalExists DEF q, r
    <3>3. c \in Numerals /\ DigitOf(c) = r
      BY <3>1, DigitOfIs
    <3>4. e \in Seq(Numerals)
      BY <3>1, DecimalExists
    <3>5. Right(q)
      BY <1>1, <3>1
    <3> HIDE DEF c, e
    <3>6. Append(e, c) = e \o <<c>> /\ Len(<<c>>) = 1 /\ Len(Append(e, c)) = Len(e) + 1
      BY <3>3, <3>4
    <3>7. Number(e \o <<c>>) = Number(e) * Ten[1] + r
      <4>1. <<c>> \in Seq(Numerals) /\ Number(<<c>>) = r
        BY <3>3, NumberOfOne
      <4>2. Number(e \o <<c>>) = Number(e) * Ten[Len(<<c>>)] + Number(<<c>>)
        BY <3>4, <4>1, NumberConcat
      <4>3. QED BY <3>6, <4>1, <4>2
    <3>8. Ten[1] = 10
      <4>1. Ten[0 + 1] = 10 * Ten[0] /\ Ten[0] = 1 /\ 0 + 1 = 1
        BY TenIs
      <4>2. QED BY <4>1
    <3>9. Number(e) = q /\ Len(e) \in Nat \ {0} /\ Ten[Len(e) - 1] <= q
      BY <3>1, <3>5 DEF e
    <3>10. Number(Decimal[m]) = m
      <4>1. Number(Decimal[m]) = q * 10 + r
        BY <3>2, <3>6, <3>7, <3>8, <3>9
      <4>2. QED BY <3>1, <4>1
    <3>11. Len(Decimal[m]) = Len(e) + 1
      BY <3>2, <3>6
    <3>12. Ten[(Len(e) + 1) - 1] <= m
      <4>1. Len(e) - 1 \in Nat /\ (Len(e) - 1) + 1 = Len(e) /\ (Len(e) + 1) - 1 = Len(e)
        BY <3>9
      <4>2. Ten[(Len(e) - 1) + 1] = 10 * Ten[Len(e) - 1] /\ Ten[Len(e) - 1] \in Nat
        BY <4>1, TenIs
      <4>3. 10 * Ten[Len(e) - 1] <= m
        BY <3>1, <3>9, <4>2
      <4>4. QED BY <4>1, <4>2, <4>3
    <3>13. Right(m)
      BY <3>9, <3>10, <3>11, <3>12
    <3>14. QED BY <3>13
  <2>3. QED BY <2>1, <2>2
<1> HIDE DEF T
<1>2. T \subseteq Nat
  BY DEF T
<1>3. T = Nat
  BY <1>1, <1>2, NatSetStrongInduction
<1>4. Right(n) /\ Decimal[n] \in Seq(Numerals)
  <2>1. n \in T
    BY <1>3
  <2>2. Right(n)
    <3> HIDE DEF Right
    <3>1. QED BY <2>1 DEF T
  <2>3. Decimal[n] \in Seq(Numerals)
    BY DecimalExists
  <2>4. QED BY <2>2, <2>3
<1>5. Number(Decimal[n]) < Ten[Len(Decimal[n])]
  BY <1>4, NumberFits
<1>6. QED BY <1>4, <1>5

\* The digits of %f: as many as it shows at least.
Shows(u) ==
    LET d == Decimal[Magnitude(u) + Ten[FracDigits + 1]]
    IN  IF Magnitude(u) < Ten[FracDigits + 1] THEN Tail(d) ELSE Decimal[Magnitude(u)]

\* A number without its sign, and the digits of %f for it.
LEMMA MagnitudeIs ==
  ASSUME NEW n \in Int
  PROVE  /\ Magnitude(n) \in Nat
         /\ n = IF n < 0 THEN -Magnitude(n) ELSE Magnitude(n)
  BY DEF Magnitude

LEMMA ShowsIs ==
  ASSUME NEW u \in Int
  PROVE  /\ Shows(u) \in Seq(Numerals) /\ Len(Shows(u)) \in Nat
         /\ Len(Shows(u)) > FracDigits
         /\ Number(Shows(u)) = Magnitude(u)
<1> DEFINE m == Magnitude(u)
           k == FracDigits + 1
           t == Ten[k]
           d == Decimal[m + t]
<1>1. m \in Nat /\ FracDigits \in Nat /\ k \in Nat /\ k > FracDigits
  BY MagnitudeIs, DatapointAssumption
<1>2. t \in Nat \ {0} /\ Ten[k + 1] = 10 * t /\ k + 1 \in Nat
  BY <1>1, TenIs
<1>3. Shows(u) = IF m < t THEN Tail(d) ELSE Decimal[m]
  BY DEF Shows
<1> HIDE DEF m, t, k
<1>4. CASE m < t
  <2> DEFINE l == Len(d)
  <2>1. /\ m + t \in Nat /\ m + t # 0
        /\ d \in Seq(Numerals) /\ l \in Nat \ {0} /\ Number(d) = m + t /\ m + t < Ten[l]
        /\ Ten[l - 1] <= m + t
    <3>1. m + t \in Nat /\ m + t # 0
      BY <1>1, <1>2
    <3>2. QED BY <3>1, DecimalIs
  <2> HIDE DEF d, l
  <2>2. l = k + 1
    <3>1. l - 1 \in Nat /\ Ten[l - 1] \in Nat /\ Ten[l] \in Nat
      <4>1. l - 1 \in Nat /\ l \in Nat
        BY <2>1
      <4>2. QED BY <4>1, TenIs
    <3>2. t < Ten[l] /\ Ten[l - 1] < Ten[k + 1]
      BY <1>1, <1>2, <1>4, <2>1, <3>1
    <3>3. k < l /\ l - 1 < k + 1
      BY <1>1, <1>2, <2>1, <3>1, <3>2, TenGrows DEF t
    <3>4. QED BY <1>1, <2>1, <3>3
  <2> DEFINE c == d[1]
             e == Tail(d)
  <2>3. /\ c \in Numerals /\ e \in Seq(Numerals) /\ Len(e) = k
        /\ d = <<c>> \o e
    <3>1. d # <<>> /\ Len(d) = k + 1
      BY <2>1, <2>2 DEF l
    <3>2. c \in Numerals /\ e \in Seq(Numerals) /\ Len(e) = Len(d) - 1 /\ d = <<c>> \o e
      BY <2>1, <3>1
    <3>3. QED BY <1>1, <3>1, <3>2
  <2> HIDE DEF c, e
  <2>4. Number(d) = DigitOf(c) * t + Number(e)
    <3>1. <<c>> \in Seq(Numerals) /\ Number(<<c>>) = DigitOf(c)
      BY <2>3, NumberOfOne
    <3>2. QED BY <2>3, <3>1, NumberConcat DEF t
  <2>5. Number(e) \in Nat /\ Number(e) < t /\ DigitOf(c) \in 0 .. 9
    BY <2>3, NumberIs, NumberFits, DigitOfIs DEF t
  <2>6. m + t = DigitOf(c) * t + Number(e)
    BY <2>1, <2>4
  <2>7. DigitOf(c) = 1
    <3> DEFINE x == DigitOf(c)
               y == Number(e)
    <3>1. x \in {0, 1, 2, 3, 4, 5, 6, 7, 8, 9} /\ y \in Nat /\ y < t /\ m + t = x * t + y
      BY <2>5, <2>6
    <3> HIDE DEF x, y
    <3>2. CASE x = 0
      BY <1>1, <1>2, <3>1, <3>2
    <3>3. CASE x >= 2
      <4>1. x * t >= 2 * t
        BY <1>2, <3>1, <3>3
      <4>2. x * t \in Int
        BY <1>2, <3>1
      <4>3. QED BY <1>1, <1>2, <1>4, <3>1, <4>1, <4>2
    <3>4. QED BY <3>1, <3>2, <3>3 DEF x
  <2>8. Number(e) = m
    <3>1. m + t = 1 * t + Number(e)
      BY <2>6, <2>7
    <3>2. QED BY <1>1, <1>2, <2>5, <3>1
  <2>9. Shows(u) = e
    BY <1>3, <1>4 DEF e
  <2>10. QED BY <1>1, <2>3, <2>8, <2>9 DEF m
<1>5. CASE ~(m < t)
  <2> DEFINE e == Decimal[m]
  <2>1. e \in Seq(Numerals) /\ Len(e) \in Nat \ {0} /\ Number(e) = m /\ m < Ten[Len(e)]
    BY <1>1, DecimalIs
  <2> HIDE DEF e
  <2>2. Ten[Len(e)] \in Nat /\ t < Ten[Len(e)]
    <3>1. Ten[Len(e)] \in Nat
      BY <2>1, TenIs
    <3>2. QED BY <1>1, <1>2, <1>5, <2>1, <3>1
  <2>3. k < Len(e)
    BY <1>1, <2>1, <2>2, TenGrows DEF t
  <2>4. Shows(u) = e
    BY <1>3, <1>5 DEF e
  <2>5. Len(e) > FracDigits
    BY <1>1, <2>1, <2>3
  <2>6. QED BY <2>1, <2>4, <2>5 DEF m
<1>6. QED BY <1>4, <1>5

\* The value of some digits, from the last one to the first.
LEMMA PlacesIs ==
  ASSUME NEW S, NEW text \in Seq(S), NEW i \in Int, NEW j \in Int,
         1 <= i, j <= Len(text), i <= j + 1, AreDigits(text, i, j)
  PROVE  /\ SubSeq(text, i, j) \in Seq(Numerals) /\ Len(SubSeq(text, i, j)) = j - i + 1
         /\ Places(text, i, j) = Number(SubSeq(text, i, j))
<1> DEFINE l == j - i + 1
           d == SubSeq(text, i, j)
           step == [n \in 1 .. l |-> [v \in Nat |-> v + DigitOf(text[j + 1 - n]) * Ten[n - 1]]]
           U(f) == f = [n \in 0 .. l |-> IF n = 0 THEN 0
                                         ELSE f[n - 1] + DigitOf(text[j + 1 - n]) * Ten[n - 1]]
<1>1. l \in Nat
  OBVIOUS
<1>2. d \in Seq(Numerals) /\ Len(d) = l /\ \A n \in 1 .. l : d[n] = text[i + n - 1]
  <2>1. \A k \in i .. j : text[k] \in Numerals
    BY DEF AreDigits, Numerals
  <2>2. d \in Seq(Numerals) /\ Len(d) = IF i <= j THEN j - i + 1 ELSE 0
    BY <2>1, SubSeqProperties
  <2>3. \A n \in 1 .. j - i + 1 : d[n] = text[i + n - 1]
    BY PieceIs
  <2>4. (IF i <= j THEN j - i + 1 ELSE 0) = l
    OBVIOUS
  <2>5. QED BY <2>2, <2>3, <2>4
<1>3. \A n \in 1 .. l : /\ j + 1 - n \in i .. j /\ n - 1 \in Nat
                        /\ DigitOf(text[j + 1 - n]) \in Nat /\ Ten[n - 1] \in Nat
                        /\ DigitOf(text[j + 1 - n]) * Ten[n - 1] \in Nat
  <2> SUFFICES ASSUME NEW n \in 1 .. l
               PROVE  /\ j + 1 - n \in i .. j /\ n - 1 \in Nat
                      /\ DigitOf(text[j + 1 - n]) \in Nat /\ Ten[n - 1] \in Nat
                      /\ DigitOf(text[j + 1 - n]) * Ten[n - 1] \in Nat
    OBVIOUS
  <2>1. j + 1 - n \in i .. j /\ n - 1 \in Nat
    OBVIOUS
  <2>2. text[j + 1 - n] \in Numerals
    BY <2>1 DEF AreDigits, Numerals
  <2>3. DigitOf(text[j + 1 - n]) \in 0 .. 9
    BY <2>2, DigitOfIs
  <2>4. Ten[n - 1] \in Nat
    BY <2>1, TenIs
  <2> DEFINE x == DigitOf(text[j + 1 - n])
             y == Ten[n - 1]
  <2>5. x \in Nat /\ y \in Nat
    BY <2>3, <2>4
  <2>6. x * y \in Nat
    <3> HIDE DEF x, y
    <3>1. QED BY <2>5
  <2>7. QED BY <2>1, <2>5, <2>6
<1>4. PICK f : Iterates(f, l, Nat, 0, step)
  <2> DEFINE V == Nat
             first == 0
  <2>1. step \in [1 .. l -> [Nat -> Nat]]
    <3>1. ASSUME NEW n \in 1 .. l, NEW v \in Nat
          PROVE  v + DigitOf(text[j + 1 - n]) * Ten[n - 1] \in Nat
      <4> DEFINE x == DigitOf(text[j + 1 - n]) * Ten[n - 1]
      <4>1. x \in Nat
        BY <1>3
      <4> HIDE DEF x
      <4>2. v + x \in Nat
        BY <4>1
      <4>3. QED BY <4>2 DEF x
    <3> HIDE DEF l
    <3>2. QED BY <3>1
  <2>2. first \in V /\ step \in Steps(l, V)
    BY <2>1 DEF Steps
  <2> HIDE DEF step, l, V, first
  <2>3. \E f : Iterates(f, l, V, first, step)
    BY <1>1, <2>2, IntervalRecursion
  <2>4. QED BY <2>3 DEF V, first
<1> HIDE DEF l
<1>5. ASSUME NEW n \in 1 .. l PROVE f[n] = f[n - 1] + DigitOf(text[j + 1 - n]) * Ten[n - 1]
  <2>1. n - 1 \in 0 .. l
    BY <1>1
  <2>2. f[n - 1] \in Nat
    BY <1>4, <2>1 DEF Iterates
  <2>3. QED BY <1>4, <2>2 DEF Iterates
<1>6. U(f)
  <2> DEFINE g == [n \in 0 .. l |-> IF n = 0 THEN 0
                                    ELSE f[n - 1] + DigitOf(text[j + 1 - n]) * Ten[n - 1]]
  <2>1. \A n \in 0 .. l : f[n] = g[n]
    <3>1. f[0] = 0
      BY <1>4 DEF Iterates
    <3>2. \A n \in 0 .. l : n # 0 => n \in 1 .. l
      BY <1>1
    <3>3. QED BY <1>5, <3>1, <3>2
  <2>2. f = g
    <3>1. g = [n \in 0 .. l |-> g[n]]
      OBVIOUS
    <3> HIDE DEF g
    <3>2. QED BY <1>4, <2>1, <3>1 DEF Iterates
  <2>3. QED BY <2>2
<1> DEFINE last == CHOOSE g : U(g)
<1>7. U(last)
  <2> HIDE DEF U
  <2>1. QED BY <1>6
<1>8. Places(text, i, j) = last[l]
  BY DEF Places, l
<1> HIDE DEF last
<1>9. last[0] = 0 /\ \A n \in 1 .. l : last[n] = last[n - 1] + DigitOf(text[j + 1 - n]) * Ten[n - 1]
  BY <1>1, <1>7
<1>10. PICK v : Values(v, d) /\ Number(d) = v[l]
  BY <1>2, NumberIs
<1> HIDE DEF d
<1>11. \A n \in 0 .. l : v[n] \in Nat
  BY <1>2, <1>10 DEF Values
<1> DEFINE T == {n \in 0 .. l : last[n] \in Nat /\ v[l] = v[l - n] * Ten[n] + last[n]}
<1>12. 0 \in T
  <2>1. l - 0 = l /\ Ten[0] = 1 /\ v[l] \in Nat /\ 0 \in 0 .. l
    BY <1>1, <1>11, TenIs
  <2>2. v[l] = v[l] * 1 + 0
    BY <2>1
  <2>3. last[0] = 0 /\ last[0] \in Nat
    BY <1>9
  <2>4. v[l] = v[l - 0] * Ten[0] + last[0]
    BY <2>1, <2>2, <2>3
  <2>5. QED BY <2>1, <2>3, <2>4
<1>13. ASSUME NEW n \in 1 .. l, n - 1 \in T PROVE n \in T
  <2> DEFINE m == l - n
             x == DigitOf(text[j + 1 - n])
             y == Ten[n - 1]
  <2>1. /\ m + 1 \in 1 .. l /\ (m + 1) - 1 = m /\ l - (n - 1) = m + 1 /\ i + (m + 1) - 1 = j + 1 - n
        /\ m \in 0 .. l /\ n \in 0 .. l /\ n - 1 \in Nat /\ (n - 1) + 1 = n
    BY <1>1 DEF l
  <2>2. v[m + 1] = 10 * v[(m + 1) - 1] + DigitOf(d[m + 1])
    BY <1>2, <1>10, <2>1 DEF Values
  <2>3. d[m + 1] = text[j + 1 - n]
    <3>1. d[m + 1] = text[i + (m + 1) - 1]
      BY <1>2, <2>1
    <3>2. QED BY <2>1, <3>1
  <2>4. v[m + 1] = 10 * v[m] + x
    BY <2>1, <2>2, <2>3
  <2>5. last[n - 1] \in Nat /\ v[l] = v[m + 1] * y + last[n - 1]
    BY <1>13, <2>1
  <2>6. last[n] = last[n - 1] + x * y /\ x \in Nat /\ y \in Nat /\ x * y \in Nat
    BY <1>3, <1>9
  <2>7. Ten[n] = 10 * y
    BY <2>1, TenIs
  <2>8. v[m] \in Nat
    BY <1>11, <2>1
  <2> DEFINE a == v[m]
             b == last[n - 1]
  <2>9. (10 * a + x) * y + b = a * (10 * y) + (b + x * y)
    <3>1. a \in Nat /\ b \in Nat /\ x \in Nat /\ y \in Nat
      BY <2>5, <2>6, <2>8
    <3> HIDE DEF a, b, x, y
    <3>2. QED BY <3>1
  <2>10. v[l] = v[m] * Ten[n] + last[n]
    BY <2>4, <2>5, <2>6, <2>7, <2>9
  <2>11. last[n] \in Nat
    BY <2>5, <2>6
  <2>12. QED BY <2>1, <2>10, <2>11
<1> HIDE DEF T
<1>14. \A n \in 0 .. l : n \in T
  BY <1>1, <1>12, <1>13, IntervalInduction
<1>15. v[l] = v[l - l] * Ten[l] + last[l] /\ last[l] \in Nat
  <2>1. l \in 0 .. l
    BY <1>1
  <2>2. QED BY <1>14, <2>1 DEF T
<1>16. v[l] = last[l]
  <2>1. l - l = 0 /\ v[0] = 0 /\ Ten[l] \in Nat
    <3>1. l - l = 0
      BY <1>1
    <3>2. v[0] = 0
      BY <1>10 DEF Values
    <3>3. Ten[l] \in Nat
      BY <1>1, TenIs
    <3>4. QED BY <3>1, <3>2, <3>3
  <2>2. 0 * Ten[l] = 0
    BY <2>1
  <2>3. QED BY <1>15, <2>1, <2>2
<1>17. QED BY <1>2, <1>8, <1>10, <1>16 DEF d, l

\* A character in front of a text.
LEMMA ConsIs ==
  ASSUME NEW S, NEW c \in S, NEW s \in Seq(S)
  PROVE  LET t == <<c>> \o s
         IN  /\ t \in Seq(S) /\ t # <<>> /\ Len(t) = Len(s) + 1 /\ t[1] = c
             /\ \A i \in 1 .. Len(s) : t[i + 1] = s[i]
             /\ Tail(t) = s
<1> DEFINE t == <<c>> \o s
<1>1. /\ t \in Seq(S) /\ t # <<>> /\ Len(t) = Len(s) + 1 /\ t[1] = c
      /\ \A i \in 1 .. Len(s) : t[i + 1] = s[i]
  OBVIOUS
<1> HIDE DEF t
<1>2. Tail(t) = s
  <2>1. /\ Tail(t) \in Seq(S) /\ Len(Tail(t)) = Len(t) - 1
        /\ \A i \in 1 .. Len(Tail(t)) : Tail(t)[i] = t[i + 1]
    BY <1>1, HeadTailProperties
  <2>2. Len(Tail(t)) = Len(s)
    BY <1>1, <2>1
  <2>3. \A i \in 1 .. Len(Tail(t)) : Tail(t)[i] = s[i]
    BY <1>1, <2>1, <2>2
  <2>4. QED BY <2>1, <2>2, <2>3, SeqEqual
<1>3. QED BY <1>1, <1>2 DEF t

\* The sign of a text, and the text without it.
LEMMA SignIs ==
  ASSUME NEW S, NEW text \in Seq(S)
  PROVE  /\ SignLen(text) \in {0, 1}
         /\ SignLen(text) = 1 <=> text # <<>> /\ text[1] = "-"
         /\ SignLen(text) <= Len(text)
         /\ Unsigned(text) = SubSeq(text, SignLen(text) + 1, Len(text))
<1>1. CASE text # <<>> /\ text[1] = "-"
  <2>1. Tail(text) = SubSeq(text, 2, Len(text))
    BY <1>1, TailIsSubSeq
  <2>2. SignLen(text) = 1 /\ Unsigned(text) = Tail(text) /\ 1 <= Len(text) /\ 1 + 1 = 2
    BY <1>1 DEF SignLen, Unsigned
  <2>3. QED BY <1>1, <2>1, <2>2
<1>2. CASE ~(text # <<>> /\ text[1] = "-")
  <2>1. SubSeq(text, 1, Len(text)) = text
    BY SubSeqFull
  <2>2. SignLen(text) = 0 /\ Unsigned(text) = text /\ 0 <= Len(text) /\ 0 + 1 = 1
    BY <1>2 DEF SignLen, Unsigned
  <2>3. QED BY <1>2, <2>1, <2>2
<1>3. QED BY <1>1, <1>2

\* What atoi makes of a text that looks like an integer.
LEMMA AtoiIs ==
  ASSUME NEW S, NEW text \in Seq(S), IsInt(text)
  PROVE  /\ Atoi(text) \in IntRange
         /\ IntOf(text) \in IntRange => Atoi(text) = IntOf(text)
<1> DEFINE n == Len(text)
           b == SignLen(text)
           v == Places(text, b + 1, n)
           s == Saying(text, v)
<1>1. b \in {0, 1} /\ (b = 1 <=> text[1] = "-") /\ n \in Nat /\ b < n
  BY SignIs DEF IsInt
<1>2. Number(Unsigned(text)) = v /\ v \in Nat
  <2> DEFINE i == b + 1
  <2>1. i \in Int /\ n \in Int /\ 1 <= i /\ n <= Len(text) /\ i <= n + 1
    BY <1>1
  <2>2. AreDigits(text, i, n)
    BY DEF IsInt
  <2> HIDE DEF i, n
  <2>3. SubSeq(text, i, n) \in Seq(Numerals) /\ Places(text, i, n) = Number(SubSeq(text, i, n))
    BY <2>1, <2>2, PlacesIs
  <2>4. Number(SubSeq(text, i, n)) \in Nat
    BY <2>3, NumberIs
  <2>5. Unsigned(text) = SubSeq(text, i, n)
    BY SignIs DEF i, n
  <2>6. QED BY <2>3, <2>4, <2>5 DEF i
<1> HIDE DEF n, v
<1>3. Signed(text, v) = s /\ s \in Int
  BY <1>1, <1>2 DEF Signed, Saying
<1>4. IntOf(text) = s
  BY DEF IntOf, v, n
<1> DEFINE c == IF s > LongMax THEN LongMax ELSE IF s < -LongMax - 1 THEN -LongMax - 1 ELSE s
<1>5. Atoi(text) = Wrapped(c, IntMax)
  BY <1>2, <1>3 DEF Atoi
<1> HIDE DEF s
<1>6. IntMax \in Nat \ {0} /\ LongMax \in Nat /\ IntMax <= LongMax
  BY TimeAssumption
<1>7. c \in Int /\ (s \in IntRange => c = s)
  BY <1>3, <1>6 DEF IntRange
<1> HIDE DEF c
<1>8. Wrapped(c, IntMax) \in -IntMax - 1 .. IntMax
  BY <1>6, <1>7, WrappedIs
<1>9. c \in -IntMax - 1 .. IntMax => Wrapped(c, IntMax) = c
  BY <1>6, <1>7, WrappedFits
<1>10. QED BY <1>4, <1>5, <1>7, <1>8, <1>9 DEF IntRange

\* What atof makes of a text that looks like a decimal.
LEMMA AtofIs ==
  ASSUME NEW S, NEW text \in Seq(S), NEW i \in DOMAIN text, IsPoint(text, i)
  PROVE  /\ Atof(text) \in Int
         /\ Len(text) - i <= FracDigits =>
              Atof(text) = FloatOf(text, i) * Ten[FracDigits - (Len(text) - i)]
<1> DEFINE n == Len(text)
           b == SignLen(text)
           e == Min({n, i + FracDigits})
           head == SubSeq(text, 1, i - 1)
           ints == SubSeq(text, b + 1, i - 1)
           frac == SubSeq(text, i + 1, e)
<1>1. /\ n \in Nat /\ i \in 1 .. n /\ FracDigits \in Nat \ {0} /\ text # <<>>
      /\ b \in {0, 1} /\ (b = 1 <=> text[1] = "-") /\ b < i /\ i < n /\ text[i] = "."
      /\ AreDigits(text, b + 1, i - 1) /\ AreDigits(text, i + 1, n)
  <2>1. n \in Nat /\ i \in 1 .. n /\ FracDigits \in Nat \ {0}
    BY DatapointAssumption
  <2>2. text # <<>>
    BY <2>1
  <2>3. QED BY <2>1, <2>2, SignIs DEF IsPoint
<1>2. "." # "-" /\ "." \notin Numerals /\ "-" \notin Numerals
  BY NumeralsAre
<1>3. FirstIn({"."}, text) = i
  <2>1. ASSUME NEW k \in 1 .. i - 1 PROVE text[k] \notin {"."}
    <3>1. CASE k <= b
      <4>1. k = 1 /\ text[1] = "-"
        BY <1>1, <3>1
      <4>2. QED BY <1>2, <4>1
    <3>2. CASE ~(k <= b)
      <4>1. k \in b + 1 .. i - 1
        BY <1>1, <3>2
      <4>2. text[k] \in Numerals
        BY <1>1, <4>1 DEF AreDigits, Numerals
      <4>3. QED BY <1>2, <4>2
    <3>3. QED BY <3>1, <3>2
  <2> DEFINE chars == {"."}
  <2>2. i \in 1 .. Len(text) /\ text[i] \in chars /\ \A k \in 1 .. i - 1 : text[k] \notin chars
    BY <1>1, <2>1
  <2> HIDE DEF chars
  <2>3. FirstIn(chars, text) = i
    BY <2>2, FirstInFound
  <2>4. QED BY <2>3 DEF chars
<1>4. e \in i + 1 .. n /\ e - i <= FracDigits /\ (n - i <= FracDigits => e = n)
  <2> DEFINE two == {n, i + FracDigits}
  <2>1. two \subseteq Nat /\ two # {}
    BY <1>1
  <2>2. e \in two /\ e <= n /\ e <= i + FracDigits
    <3>1. n \in two /\ i + FracDigits \in two
      OBVIOUS
    <3> HIDE DEF two
    <3>2. Min(two) \in two /\ \A y \in two : Min(two) <= y
      BY <2>1, MinOfNats
    <3>3. QED BY <3>1, <3>2 DEF two
  <2>3. e = n \/ e = i + FracDigits
    BY <2>2
  <2> HIDE DEF e, two
  <2>4. QED BY <1>1, <2>2, <2>3
<1>5. Atof(text) = Signed(text, Number(Unsigned(head \o frac)) * Ten[FracDigits - Len(frac)])
  BY <1>3 DEF Atof
<1> HIDE DEF e
<1>6. /\ ints \in Seq(Numerals) /\ Len(ints) = i - 1 - b
      /\ Places(text, b + 1, i - 1) = Number(ints)
  <2> DEFINE x == b + 1
             y == i - 1
  <2>1. /\ x \in Int /\ y \in Int /\ 1 <= x /\ y <= Len(text) /\ x <= y + 1
        /\ AreDigits(text, x, y) /\ y - x + 1 = i - 1 - b
    BY <1>1
  <2> HIDE DEF x, y
  <2>2. /\ SubSeq(text, x, y) \in Seq(Numerals) /\ Len(SubSeq(text, x, y)) = y - x + 1
        /\ Places(text, x, y) = Number(SubSeq(text, x, y))
    BY <2>1, PlacesIs
  <2>3. QED BY <2>1, <2>2 DEF x, y
<1>7. frac \in Seq(Numerals) /\ Len(frac) = e - i /\ Places(text, i + 1, e) = Number(frac)
  <2> DEFINE x == i + 1
  <2>1. /\ x \in Int /\ e \in Int /\ 1 <= x /\ e <= Len(text) /\ x <= e + 1 /\ e - x + 1 = e - i
    BY <1>1, <1>4
  <2>2. AreDigits(text, x, e)
    <3>1. \A k \in i + 1 .. e : k \in i + 1 .. n
      BY <1>1, <1>4
    <3>2. QED BY <1>1, <3>1 DEF AreDigits
  <2> HIDE DEF x
  <2>3. /\ SubSeq(text, x, e) \in Seq(Numerals) /\ Len(SubSeq(text, x, e)) = e - x + 1
        /\ Places(text, x, e) = Number(SubSeq(text, x, e))
    BY <2>1, <2>2, PlacesIs
  <2>4. QED BY <2>1, <2>3 DEF x
<1> HIDE DEF frac
<1>8. Unsigned(head \o frac) = ints \o frac
  <2>1. CASE b = 0
    <3>1. head = ints
      BY <2>1
    <3> HIDE DEF head, ints
    <3> DEFINE w == ints \o frac
    <3>2. w \in Seq(Numerals) /\ w # <<>> /\ w[1] \in Numerals
      <4>1. Len(frac) \in Nat \ {0}
        BY <1>1, <1>4, <1>7
      <4>2. w \in Seq(Numerals) /\ Len(w) = Len(ints) + Len(frac) /\ Len(ints) \in Nat
        <5>1. ints \in Seq(Numerals) /\ frac \in Seq(Numerals)
          BY <1>6, <1>7
        <5>2. Len(ints) \in Nat
          BY <5>1
        <5>3. w \in Seq(Numerals) /\ Len(w) = Len(ints) + Len(frac)
          BY <5>1, ConcatProperties
        <5>4. QED BY <5>2, <5>3
      <4> HIDE DEF w
      <4>3. 1 \in 1 .. Len(w)
        BY <4>1, <4>2
      <4>4. QED BY <4>2, <4>3
    <3>3. w[1] # "-"
      BY <1>2, <3>2
    <3>4. QED BY <3>1, <3>3 DEF Unsigned
  <2>2. CASE b = 1
    <3> DEFINE sign == text[1]
    <3>1. sign = "-" /\ sign \in S
      BY <1>1, <2>2
    <3>2. head = <<sign>> \o SubSeq(text, 2, i - 1)
      <4> DEFINE m == 1
                 l == i - 1
      <4>1. m \in 1 .. Len(text) /\ l \in m .. Len(text) /\ m + 1 = 2
        BY <1>1, <2>2
      <4> HIDE DEF m, l
      <4>2. SubSeq(text, m, l) = <<text[m]>> \o SubSeq(text, m + 1, l)
        BY <4>1, SubSeqRecursiveFirst
      <4>3. QED BY <4>1, <4>2 DEF m, l
    <3>3. ints = SubSeq(text, 2, i - 1)
      BY <2>2
    <3>4. ints \in Seq(S \cup Numerals) /\ frac \in Seq(S \cup Numerals)
          /\ sign \in S \cup Numerals
      BY <1>6, <1>7, <3>1, SeqMonotonic
    <3> DEFINE A == S \cup Numerals
               w == ints \o frac
    <3> HIDE DEF A, ints, head, sign
    <3>5. ints \in Seq(A) /\ frac \in Seq(A) /\ sign \in A /\ <<sign>> \in Seq(A)
      BY <3>4 DEF A
    <3>6. head \o frac = <<sign>> \o w
      <4>1. (<<sign>> \o ints) \o frac = <<sign>> \o (ints \o frac)
        BY <3>5, ConcatAssociative
      <4>2. QED BY <3>2, <3>3, <4>1
    <3>7. w \in Seq(A)
      BY <3>5, ConcatProperties
    <3> DEFINE t == <<sign>> \o w
    <3>8. t # <<>> /\ t[1] = sign /\ Tail(t) = w
      BY <3>5, <3>7, ConsIs
    <3> HIDE DEF t, w
    <3>9. Unsigned(t) = w
      BY <3>1, <3>8 DEF Unsigned
    <3>10. QED BY <3>6, <3>9 DEF t, w
  <2>3. QED BY <1>1, <2>1, <2>2
<1> HIDE DEF ints, head
<1> DEFINE x == Number(ints)
           y == Number(frac)
           t == Ten[Len(frac)]
           r == Ten[FracDigits - Len(frac)]
<1>9. Number(ints \o frac) = x * t + y
  BY <1>6, <1>7, NumberConcat
<1>10. x \in Nat /\ y \in Nat /\ t \in Nat /\ r \in Nat
  <2>1. Len(frac) \in Nat /\ FracDigits - Len(frac) \in Nat
    BY <1>1, <1>4, <1>7
  <2>2. QED BY <1>6, <1>7, <2>1, NumberIs, TenIs
<1>11. Atof(text) = Signed(text, (x * t + y) * r)
  BY <1>5, <1>8, <1>9
<1>12. n - i <= FracDigits => FloatOf(text, i) = Saying(text, x * t + y) /\ Len(frac) = n - i
  <2> SUFFICES ASSUME n - i <= FracDigits
               PROVE  FloatOf(text, i) = Saying(text, x * t + y) /\ Len(frac) = n - i
    OBVIOUS
  <2>1. e = n /\ Len(frac) = n - i
    BY <1>4, <1>7
  <2>2. Places(text, i + 1, n) = y /\ Places(text, b + 1, i - 1) = x
    BY <1>6, <1>7, <2>1
  <2>3. QED BY <2>1, <2>2 DEF FloatOf
<1> HIDE DEF x, y, t
<1> DEFINE u == x * t + y
<1>13. u \in Nat
  BY <1>10
<1> HIDE DEF u
<1>14. Signed(text, u * r) = Saying(text, u) * r /\ Signed(text, u * r) \in Int
  <2>1. CASE b = 1
    <3>1. Signed(text, u * r) = -(u * r) /\ Saying(text, u) = -u
      BY <1>1, <2>1 DEF Signed, Saying
    <3> HIDE DEF r
    <3>2. -(u * r) = (-u) * r /\ -(u * r) \in Int
      BY <1>10, <1>13
    <3>3. QED BY <3>1, <3>2
  <2>2. CASE b = 0
    <3>1. Signed(text, u * r) = u * r /\ Saying(text, u) = u
      BY <1>1, <2>2 DEF Signed, Saying
    <3> HIDE DEF r
    <3>2. u * r \in Int
      BY <1>10, <1>13
    <3>3. QED BY <3>1, <3>2
  <2>3. QED BY <1>1, <2>1, <2>2
<1>15. QED BY <1>11, <1>12, <1>14 DEF u, r

-----------------------------------------------------------------------------
(***************************************************************************)
(* Arrays and the strings in them                                          *)
(***************************************************************************)
Array(bytes) == bytes = [i \in 1 .. ValueSize |-> bytes[i]]

\* A function on 1 .. k is a sequence.
LEMMA ListIs ==
  ASSUME NEW k \in Nat, NEW f, f = [i \in 1 .. k |-> f[i]]
  PROVE  /\ f \in Seq({f[i] : i \in 1 .. k}) /\ Len(f) = k /\ DOMAIN f = 1 .. k
<1> DEFINE S == {f[i] : i \in 1 .. k}
           g == [i \in 1 .. k |-> f[i]]
<1>1. g \in [1 .. k -> S]
  OBVIOUS
<1>2. f \in [1 .. k -> S]
  BY <1>1
<1> HIDE DEF S
<1>3. f \in Seq(S)
  BY <1>2, SeqDef
<1>4. Len(f) \in Nat /\ DOMAIN f = 1 .. Len(f) /\ DOMAIN f = 1 .. k
  BY <1>2, <1>3, LenProperties
<1> DEFINE n == Len(f)
<1>5. n \in Nat /\ 1 .. n = 1 .. k
  BY <1>4
<1> HIDE DEF n
<1>6. n = k
  <2>1. ~(n < k)
    <3> SUFFICES ASSUME n < k PROVE FALSE
      OBVIOUS
    <3>1. k \in 1 .. k /\ k \notin 1 .. n
      BY <1>5
    <3>2. QED BY <1>5, <3>1
  <2>2. ~(k < n)
    <3> SUFFICES ASSUME k < n PROVE FALSE
      OBVIOUS
    <3>1. n \in 1 .. n /\ n \notin 1 .. k
      BY <1>5
    <3>2. QED BY <1>5, <3>1
  <2>3. QED BY <1>5, <2>1, <2>2
<1>7. QED BY <1>3, <1>4, <1>6 DEF n, S

\* A sequence is one over its own elements.
LEMMA TextIs ==
  ASSUME NEW S, NEW text \in Seq(S)
  PROVE  IsText(text)
<1> DEFINE k == Len(text)
           f == [i \in 1 .. k |-> text[i]]
           A == {text[i] : i \in 1 .. k}
<1>1. k \in Nat /\ DOMAIN text = 1 .. k /\ text = f
  OBVIOUS
<1> HIDE DEF k
<1>2. text \in Seq(A)
  BY <1>1, ListIs
<1>3. ToSet(text) = A
  BY <1>1 DEF ToSet
<1>4. QED BY <1>2, <1>3 DEF IsText

\* The bytes of a value, and what is written over them.
LEMMA ArrayIs ==
  ASSUME NEW bytes, Array(bytes)
  PROVE  /\ DOMAIN bytes = 1 .. ValueSize /\ Len(bytes) = ValueSize
         /\ bytes \in Seq({bytes[i] : i \in 1 .. ValueSize})
         /\ ToSet(bytes) = {bytes[i] : i \in 1 .. ValueSize}
<1>1. ValueSize \in Nat
  BY DatapointAssumption
<1>2. DOMAIN bytes = 1 .. ValueSize
  BY DEF Array
<1>3. /\ bytes \in Seq({bytes[i] : i \in 1 .. ValueSize}) /\ Len(bytes) = ValueSize
  <2> DEFINE k == ValueSize
  <2>1. k \in Nat /\ bytes = [i \in 1 .. k |-> bytes[i]]
    BY <1>1 DEF Array
  <2> HIDE DEF k
  <2>2. bytes \in Seq({bytes[i] : i \in 1 .. k}) /\ Len(bytes) = k
    BY <2>1, ListIs
  <2>3. QED BY <2>2 DEF k
<1>4. QED BY <1>2, <1>3 DEF ToSet

LEMMA OverIs ==
  ASSUME NEW bytes, NEW text
  PROVE  /\ Array(Over(bytes, text))
         /\ \A i \in 1 .. ValueSize :
               Over(bytes, text)[i] = IF i <= Len(text) THEN text[i] ELSE bytes[i]
  BY DEF Over, Array

LEMMA TerminatedIs ==
  ASSUME NEW bytes, Array(bytes), NEW n \in 0 .. ValueSize - 1
  PROVE  /\ Array(Terminated(bytes, n))
         /\ \A i \in 1 .. ValueSize :
               Terminated(bytes, n)[i] = IF i = n + 1 THEN NUL ELSE bytes[i]
<1> DEFINE f == [i \in 1 .. ValueSize |-> bytes[i]]
<1>1. bytes = f
  BY DEF Array
<1>2. Terminated(bytes, n) = [f EXCEPT ![n + 1] = NUL]
  BY <1>1 DEF Terminated
<1>3. QED BY <1>1, <1>2 DEF Array

\* XI_GUARD_EOS leaves an array with its last byte 0.
LEMMA GuardedIs ==
  ASSUME NEW bytes, Array(bytes)
  PROVE  /\ Array(Guarded(bytes)) /\ Guarded(bytes)[ValueSize] = NUL
<1>1. ValueSize \in Nat /\ ValueSize >= 1
  BY DatapointAssumption
<1> DEFINE n == ValueSize - 1
<1>2. n \in 0 .. ValueSize - 1 /\ n + 1 = ValueSize
  BY <1>1
<1>3. Guarded(bytes) = Terminated(bytes, n)
  BY <1>2 DEF Guarded, Terminated
<1> HIDE DEF n
<1>4. /\ Array(Terminated(bytes, n))
      /\ \A i \in 1 .. ValueSize :
            Terminated(bytes, n)[i] = IF i = n + 1 THEN NUL ELSE bytes[i]
  BY <1>2, TerminatedIs
<1>5. QED BY <1>1, <1>2, <1>3, <1>4

\* The beginning of a text that goes into the array.
LEMMA CutIs ==
  ASSUME NEW S, NEW text \in Seq(S)
  PROVE  /\ Cut(text) \in Seq(S) /\ Len(Cut(text)) \in 0 .. ValueSize - 1
         /\ Len(Cut(text)) <= Len(text)
         /\ Len(text) < ValueSize => Cut(text) = text
         /\ ~(Len(text) < ValueSize) => Len(Cut(text)) = ValueSize - 1
         /\ \A i \in 1 .. Len(Cut(text)) : Cut(text)[i] = text[i]
<1> DEFINE m == 1
           n == IF Len(text) < ValueSize THEN Len(text) ELSE ValueSize - 1
<1>1. ValueSize \in Nat /\ ValueSize >= 1 /\ Len(text) \in Nat
  BY DatapointAssumption
<1>2. m \in Int /\ n \in 0 .. ValueSize - 1 /\ n \in Int /\ 1 <= m /\ n <= Len(text) /\ m = 1
  BY <1>1
<1>3. Cut(text) = SubSeq(text, m, n)
  BY DEF Cut
<1>4. Len(text) < ValueSize => Cut(text) = text
  BY <1>3, SubSeqFull
<1>5. ~(Len(text) < ValueSize) => n = ValueSize - 1
  OBVIOUS
<1> HIDE DEF m, n
<1>6. /\ SubSeq(text, m, n) \in Seq(S)
      /\ Len(SubSeq(text, m, n)) = IF m <= n THEN n - m + 1 ELSE 0
      /\ \A i \in 1 .. n - m + 1 : SubSeq(text, m, n)[i] = text[m + i - 1]
  BY <1>2, PieceIs
<1>7. (IF m <= n THEN n - m + 1 ELSE 0) = n /\ n - m + 1 = n /\ \A i \in 1 .. n : m + i - 1 = i
  BY <1>1, <1>2
<1>8. QED BY <1>2, <1>3, <1>4, <1>5, <1>6, <1>7

\* The string in an array that begins with a text and a terminator.
LEMMA CStringIs ==
  ASSUME NEW bytes, Array(bytes), NEW S, NEW text \in Seq(S), Len(text) < ValueSize,
         \A i \in 1 .. Len(text) : bytes[i] = text[i] /\ text[i] # NUL,
         bytes[Len(text) + 1] = NUL
  PROVE  CString(bytes) = text
<1> DEFINE n == Len(text)
           A == {bytes[i] : i \in 1 .. ValueSize}
           chars == {NUL}
<1>1. n \in Nat /\ n + 1 \in 1 .. ValueSize /\ ValueSize \in Nat
  BY DatapointAssumption
<1>2. bytes \in Seq(A) /\ Len(bytes) = ValueSize
  BY ArrayIs
<1>3. FirstIn(chars, bytes) = n + 1
  <2> DEFINE k == n + 1
  <2>1. /\ k \in 1 .. Len(bytes) /\ bytes[k] \in chars
        /\ \A i \in 1 .. k - 1 : i \in 1 .. n /\ bytes[i] \notin chars
    BY <1>1, <1>2
  <2> HIDE DEF chars, k, A
  <2>2. FirstIn(chars, bytes) = k
    BY <1>2, <2>1, FirstInFound
  <2>3. QED BY <2>2 DEF k
<1>4. CString(bytes) = SubSeq(bytes, 1, n)
  <2>1. (n + 1) - 1 = n
    BY <1>1
  <2>2. CString(bytes) = SubSeq(bytes, 1, (n + 1) - 1)
    BY <1>3 DEF CString
  <2>3. QED BY <2>1, <2>2
<1> DEFINE m == 1
           t == SubSeq(bytes, m, n)
<1>5. m \in Int /\ n \in Int /\ 1 <= m /\ n <= Len(bytes)
  BY <1>1, <1>2
<1> HIDE DEF m, n, A
<1>6. /\ t \in Seq(A) /\ Len(t) = (IF m <= n THEN n - m + 1 ELSE 0)
      /\ \A i \in 1 .. n - m + 1 : t[i] = bytes[m + i - 1]
  BY <1>2, <1>5, PieceIs
<1>7. (IF m <= n THEN n - m + 1 ELSE 0) = n /\ n - m + 1 = n /\ \A i \in 1 .. n : m + i - 1 = i
  BY <1>1 DEF m
<1>8. t \in Seq(A) /\ Len(t) = n /\ \A i \in 1 .. n : t[i] = bytes[i]
  BY <1>6, <1>7
<1> HIDE DEF t
<1>9. t = text
  <2>1. t \in Seq(A \cup S) /\ text \in Seq(A \cup S)
    BY <1>8, SeqMonotonic
  <2> DEFINE B == A \cup S
  <2>2. /\ t \in Seq(B) /\ text \in Seq(B) /\ Len(t) = Len(text)
        /\ \A i \in 1 .. Len(t) : t[i] = text[i]
    BY <1>8, <2>1 DEF n
  <2> HIDE DEF B
  <2>3. QED BY <2>2, SeqEqual
<1>10. QED BY <1>4, <1>9 DEF t, m

\* Whatever an array holds, its string is shorter and has no terminator in it.
LEMMA CStringFits ==
  ASSUME NEW bytes, Array(bytes)
  PROVE  /\ CString(bytes) \in Seq({bytes[i] : i \in 1 .. ValueSize})
         /\ Len(CString(bytes)) < ValueSize
         /\ \A i \in 1 .. Len(CString(bytes)) : CString(bytes)[i] # NUL
<1> DEFINE A == {bytes[i] : i \in 1 .. ValueSize}
           chars == {NUL}
           e == FirstIn(chars, bytes)
           m == 1
           n == e - 1
           t == SubSeq(bytes, m, n)
<1>1. bytes \in Seq(A) /\ Len(bytes) = ValueSize /\ ValueSize \in Nat \ {0}
  BY ArrayIs, DatapointAssumption
<1>2. e \in 0 .. ValueSize /\ (e # 0 => \A i \in 1 .. e - 1 : bytes[i] \notin chars)
  <2> HIDE DEF chars, A
  <2>1. /\ FirstIn(chars, bytes) \in 0 .. Len(bytes)
        /\ FirstIn(chars, bytes) # 0
             => \A i \in 1 .. FirstIn(chars, bytes) - 1 : bytes[i] \notin chars
    BY <1>1, FirstInIs
  <2>2. QED BY <1>1, <2>1
<1>3. CString(bytes) = t
  BY DEF CString
<1> HIDE DEF e
<1>4. /\ m \in Int /\ n \in Int /\ 1 <= m /\ n <= Len(bytes) /\ n < ValueSize
      /\ n - m + 1 = n /\ \A i \in 1 .. n : m + i - 1 = i /\ bytes[i] # NUL
  BY <1>1, <1>2
<1>5. (IF m <= n THEN n - m + 1 ELSE 0) = (IF 1 <= n THEN n ELSE 0)
  BY <1>4
<1>6. (IF 1 <= n THEN n ELSE 0) < ValueSize
  BY <1>1, <1>4
<1> HIDE DEF m, n, A
<1>7. /\ t \in Seq(A) /\ Len(t) = (IF m <= n THEN n - m + 1 ELSE 0)
      /\ \A i \in 1 .. n - m + 1 : t[i] = bytes[m + i - 1]
  BY <1>1, <1>4, PieceIs
<1> HIDE DEF t
<1>8. Len(t) = (IF 1 <= n THEN n ELSE 0) /\ \A i \in 1 .. n : t[i] = bytes[i]
  BY <1>4, <1>5, <1>7
<1>9. \A i \in 1 .. Len(t) : t[i] # NUL
  <2>1. \A i \in 1 .. Len(t) : i \in 1 .. n
    BY <1>4, <1>8
  <2>2. QED BY <1>4, <1>8, <2>1
<1>10. QED BY <1>3, <1>6, <1>7, <1>8, <1>9 DEF A

\* What is read of a text is a beginning of it without the end of a line.
LEMMA LineOfIs ==
  ASSUME NEW S, NEW text \in Seq(S)
  PROVE  LET read == LineOf(text)
         IN  /\ read \in Seq(S) /\ Len(read) <= Len(text)
             /\ \A i \in 1 .. Len(read) : read[i] = text[i] /\ read[i] \notin LineEnds
<1> DEFINE e == FirstIn(LineEnds, text)
           m == 1
           n == e - 1
           t == SubSeq(text, m, n)
<1>1. Len(text) \in Nat
  OBVIOUS
<1>2. /\ e \in 0 .. Len(text)
      /\ e = 0 <=> \A i \in 1 .. Len(text) : text[i] \notin LineEnds
      /\ e # 0 => \A i \in 1 .. e - 1 : text[i] \notin LineEnds
  BY FirstInIs
<1>3. LineOf(text) = IF e = 0 THEN text ELSE t
  BY DEF LineOf
<1> HIDE DEF e
<1>4. CASE e = 0
  BY <1>1, <1>2, <1>3, <1>4
<1>5. CASE e # 0
  <2>1. /\ m \in Int /\ n \in Nat /\ 1 <= m /\ n <= Len(text) /\ m = 1
        /\ \A i \in 1 .. n : text[i] \notin LineEnds
    BY <1>1, <1>2, <1>5
  <2> HIDE DEF m, n
  <2>2. /\ t \in Seq(S) /\ Len(t) = (IF m <= n THEN n - m + 1 ELSE 0)
        /\ \A i \in 1 .. n - m + 1 : t[i] = text[m + i - 1]
    BY <2>1, PieceIs
  <2>3. (IF m <= n THEN n - m + 1 ELSE 0) = n /\ n - m + 1 = n /\ \A i \in 1 .. n : m + i - 1 = i
    BY <2>1
  <2>4. LineOf(text) = t
    BY <1>3, <1>5
  <2> HIDE DEF t
  <2>5. Len(t) = n /\ \A i \in 1 .. n : t[i] = text[i] /\ t[i] \notin LineEnds
    BY <2>1, <2>2, <2>3
  <2>6. QED BY <1>1, <2>1, <2>2, <2>4, <2>5
<1>6. QED BY <1>4, <1>5

\* The line in a text that ends there.
LEMMA LineOfWhole ==
  ASSUME NEW S, NEW text \in Seq(S), \A i \in 1 .. Len(text) : text[i] \notin LineEnds
  PROVE  LineOf(Append(text, "\n")) = text
<1> DEFINE t == Append(text, "\n")
           n == Len(text)
           A == S \cup {"\n"}
           k == n + 1
<1>1. text \in Seq(A) /\ "\n" \in A
  BY SeqMonotonic
<1>2. "\n" \in LineEnds
  BY DEF LineEnds
<1> HIDE DEF A
<1>3. /\ t \in Seq(A) /\ Len(t) = n + 1 /\ n \in Nat
      /\ \A i \in 1 .. n : t[i] = text[i]
      /\ t[n + 1] = "\n"
  BY <1>1, AppendProperties
<1> HIDE DEF t
<1>4. /\ k \in 1 .. Len(t) /\ t[k] \in LineEnds /\ k # 0
      /\ \A i \in 1 .. k - 1 : i \in 1 .. n /\ t[i] \notin LineEnds
  BY <1>2, <1>3
<1> HIDE DEF k
<1>5. FirstIn(LineEnds, t) = k
  BY <1>3, <1>4, FirstInFound
<1>6. LineOf(t) = SubSeq(t, 1, n)
  <2>1. k - 1 = n
    BY <1>3 DEF k
  <2>2. LineOf(t) = SubSeq(t, 1, k - 1)
    BY <1>4, <1>5 DEF LineOf
  <2>3. QED BY <2>1, <2>2
<1> DEFINE m == 1
           u == SubSeq(t, m, n)
<1>7. m \in Int /\ n \in Int /\ 1 <= m /\ n <= Len(t) /\ m = 1
  BY <1>3
<1> HIDE DEF m
<1>8. /\ u \in Seq(A) /\ Len(u) = (IF m <= n THEN n - m + 1 ELSE 0)
      /\ \A i \in 1 .. n - m + 1 : u[i] = t[m + i - 1]
  <2> HIDE DEF n
  <2>1. QED BY <1>3, <1>7, PieceIs
<1>9. (IF m <= n THEN n - m + 1 ELSE 0) = n /\ n - m + 1 = n /\ \A i \in 1 .. n : m + i - 1 = i
  BY <1>3, <1>7
<1> HIDE DEF u
<1>10. u \in Seq(A) /\ Len(u) = Len(text) /\ \A i \in 1 .. Len(u) : u[i] = text[i]
  BY <1>3, <1>8, <1>9
<1>11. u = text
  BY <1>1, <1>10, SeqEqual
<1>12. QED BY <1>6, <1>7, <1>11 DEF t, u

\* Without a vertical tab there is nothing in front of the last one.
LEMMA PlainTail ==
  ASSUME NEW S, NEW text \in Seq(S), VT \notin ToSet(text)
  PROVE  AfterTab(text) = text
<1>1. PICK t \in 0 .. Len(text) : /\ t = 0 \/ text[t] = VT
                                  /\ AfterTab(text) = SubSeq(text, t + 1, Len(text))
  BY AfterTabIs
<1>2. t = 0
  <2> SUFFICES ASSUME t # 0 PROVE FALSE
    OBVIOUS
  <2>1. t \in DOMAIN text /\ text[t] = VT
    BY <1>1
  <2>2. QED BY <2>1 DEF ToSet
<1>3. t + 1 = 1
  BY <1>2
<1>4. QED BY <1>1, <1>3, SubSeqFull

\* What the value of a line makes of a datapoint.
LEMMA DecodedIs ==
  ASSUME NEW q, Array(q.bytes), NEW S, NEW text \in Seq(S)
  PROVE  LET read == LineOf(text)
             last == AfterTab(read)
             r == csv_decode_value(q, text)
             whole == VT \notin ToSet(read)
         IN  /\ Array(r.p.bytes)
             /\ r.p.stamp = q.stamp /\ r.p.micro = q.micro
             /\ Len(read) < ValueSize =>
                  /\ r.ret = 1
                  /\ IF IsInt(last)
                     THEN /\ r.p.tag = "I32"
                          /\ r.p.num = IF whole THEN Atoi(read) ELSE Unknown
                     ELSE IF IsFloat(last)
                     THEN /\ r.p.tag = "F32"
                          /\ r.p.num = IF whole THEN Atof(read) ELSE Unknown
                     ELSE /\ r.p.tag = "STR" /\ r.p.num = Unknown
                          /\ \A i \in 1 .. Len(read) : read[i] # VT => r.p.bytes[i] = read[i]
                          /\ r.p.bytes[Len(read) + 1] = NUL
             /\ ~(Len(read) < ValueSize) =>
                  /\ r.ret = 0 /\ r.p.tag = q.tag /\ r.p.num = Unknown
                  /\ r.p.bytes[ValueSize] = NUL
<1> DEFINE read == LineOf(text)
           last == AfterTab(read)
           r == csv_decode_value(q, text)
           whole == VT \notin ToSet(read)
           n == Len(read)
           state == StateAfter(read)
           bytes == Guarded(q.bytes)
           cut == Cut(read)
           inside == Stored(bytes, cut)
           written == Over(bytes, inside)
           stored == WithBytes(q, Terminated(written, n), "STR")
           num(a) == IF whole THEN a ELSE Unknown
<1>1. ValueSize \in Nat \ {0} /\ read \in Seq(S) /\ n \in Nat
  <2>1. read \in Seq(S)
    BY LineOfIs
  <2>2. QED BY <2>1, DatapointAssumption
<1> HIDE DEF read
<1>2. Array(bytes) /\ bytes[ValueSize] = NUL
  BY GuardedIs
<1>3. /\ cut \in Seq(S) /\ Len(cut) \in 0 .. ValueSize - 1
      /\ n < ValueSize => cut = read
      /\ \A i \in 1 .. Len(cut) : cut[i] = read[i]
  BY <1>1, CutIs
<1> HIDE DEF bytes, cut
<1>4. Len(inside) = Len(cut) /\ \A i \in 1 .. Len(cut) : cut[i] # VT => inside[i] = cut[i]
  <2> DEFINE k == Len(cut)
  <2>1. k \in Nat /\ DOMAIN cut = 1 .. k
    BY <1>1, <1>3
  <2>2. inside = [i \in 1 .. k |-> IF cut[i] = VT THEN bytes[i] ELSE cut[i]]
    BY <2>1 DEF Stored
  <2> HIDE DEF inside, k
  <2>3. inside = [i \in 1 .. k |-> inside[i]] /\ \A i \in 1 .. k : cut[i] # VT => inside[i] = cut[i]
    BY <2>2
  <2>4. Len(inside) = k
    BY <2>1, <2>3, ListIs
  <2>5. QED BY <2>3, <2>4 DEF k
<1> HIDE DEF inside
<1>5. /\ Array(written)
      /\ \A i \in 1 .. ValueSize : written[i] = IF i <= Len(inside) THEN inside[i] ELSE bytes[i]
  BY OverIs
<1> HIDE DEF written
<1>6. written[ValueSize] = NUL
  <2>1. ValueSize \in 1 .. ValueSize /\ ~(ValueSize <= Len(inside))
    BY <1>1, <1>3, <1>4
  <2>2. QED BY <1>2, <1>5, <2>1
<1> HIDE DEF state, whole
<1>7. r = IF n > ValueSize - 1 THEN [ret |-> 0, p |-> WithBytes(q, written, q.tag)]
          ELSE [ret |-> 1,
                p |-> CASE state = "NUMBER" -> WithNumber(stored, "I32", num(Atoi(read)))
                        [] state = "FLOAT" -> WithNumber(stored, "F32", num(Atof(read)))
                        [] OTHER -> stored]
  BY DEF csv_decode_value, read, bytes, cut, inside, written, state, whole
<1>8. CASE ~(n < ValueSize)
  <2>1. n > ValueSize - 1
    BY <1>1, <1>8
  <2>2. r = [ret |-> 0, p |-> WithBytes(q, written, q.tag)]
    BY <1>7, <2>1
  <2> HIDE DEF r
  <2>3. QED BY <1>5, <1>6, <1>8, <2>2 DEF WithBytes, r, read
<1>9. CASE n < ValueSize
  <2>1. ~(n > ValueSize - 1) /\ n \in 0 .. ValueSize - 1
    BY <1>1, <1>9
  <2>2. r = [ret |-> 1,
             p |-> CASE state = "NUMBER" -> WithNumber(stored, "I32", num(Atoi(read)))
                     [] state = "FLOAT" -> WithNumber(stored, "F32", num(Atof(read)))
                     [] OTHER -> stored]
    BY <1>7, <2>1
  <2> DEFINE final == Terminated(written, n)
  <2>3. /\ Array(final)
        /\ \A i \in 1 .. ValueSize : final[i] = IF i = n + 1 THEN NUL ELSE written[i]
    BY <1>5, <2>1, TerminatedIs
  <2>4. \A i \in 1 .. n : read[i] # VT => final[i] = read[i]
    <3> SUFFICES ASSUME NEW i \in 1 .. n, read[i] # VT PROVE final[i] = read[i]
      OBVIOUS
    <3>1. i \in 1 .. ValueSize /\ i # n + 1
      BY <1>1, <2>1
    <3>2. cut = read /\ Len(inside) = n
      BY <1>3, <1>4, <1>9
    <3>3. inside[i] = read[i] /\ i <= Len(inside)
      BY <1>1, <1>4, <3>2
    <3>4. written[i] = inside[i]
      BY <1>5, <3>1, <3>3
    <3>5. QED BY <2>3, <3>1, <3>3, <3>4
  <2>5. final[n + 1] = NUL
    <3>1. n + 1 \in 1 .. ValueSize
      BY <1>1, <2>1
    <3>2. QED BY <2>3, <3>1
  <2> HIDE DEF final
  <2>6. stored = [bytes |-> final, num |-> Unknown, tag |-> "STR",
                  stamp |-> q.stamp, micro |-> q.micro]
    BY DEF WithBytes, final
  <2> HIDE DEF stored
  <2>7. /\ state = "NUMBER" <=> IsInt(last)
        /\ state = "FLOAT" <=> IsFloat(last)
    <3> PICK t \in 0 .. Len(read) : /\ last \in Seq(S)
                                    /\ Len(last) = Len(read) - t
                                    /\ \A i \in 1 .. Len(read) - t : last[i] = read[t + i]
                                    /\ \A i \in t + 1 .. Len(read) : read[i] # VT
      BY <1>1, AfterTabIs
    <3>1. \A i \in 1 .. Len(last) : last[i] # VT
      <4> SUFFICES ASSUME NEW i \in 1 .. Len(last) PROVE last[i] # VT
        OBVIOUS
      <4>1. i \in 1 .. n - t /\ t + i \in t + 1 .. n
        BY <1>1
      <4>2. QED BY <4>1
    <3>2. StateAfter(read) = StateAfter(last)
      BY <1>1, StateRestarts
    <3> HIDE DEF last
    <3>3. /\ StateAfter(last) = "NUMBER" <=> IsInt(last)
          /\ StateAfter(last) = "FLOAT" <=> IsFloat(last)
      BY <3>1, PlainState
    <3>4. QED BY <3>2, <3>3 DEF state
  <2> HIDE DEF last, r
  <2>8. CASE IsInt(last)
    <3>1. r = [ret |-> 1, p |-> WithNumber(stored, "I32", num(Atoi(read)))]
      BY <2>2, <2>7, <2>8
    <3> DEFINE w == WithNumber(stored, "I32", num(Atoi(read)))
    <3>2. /\ Array(w.bytes) /\ w.num = num(Atoi(read)) /\ w.tag = "I32"
          /\ w.stamp = q.stamp /\ w.micro = q.micro
      BY <2>6 DEF WithNumber, Array
    <3> HIDE DEF w
    <3>3. r = [ret |-> 1, p |-> w]
      BY <3>1 DEF w
    <3>4. /\ Array(r.p.bytes) /\ r.p.num = (IF whole THEN Atoi(read) ELSE Unknown)
          /\ r.p.tag = "I32" /\ r.p.stamp = q.stamp /\ r.p.micro = q.micro /\ r.ret = 1
      BY <3>2, <3>3
    <3>5. QED BY <1>9, <2>8, <3>4 DEF r, read, last, whole
  <2>9. CASE ~IsInt(last) /\ IsFloat(last)
    <3>1. r = [ret |-> 1, p |-> WithNumber(stored, "F32", num(Atof(read)))]
      BY <2>2, <2>7, <2>9
    <3> DEFINE w == WithNumber(stored, "F32", num(Atof(read)))
    <3>2. /\ Array(w.bytes) /\ w.num = num(Atof(read)) /\ w.tag = "F32"
          /\ w.stamp = q.stamp /\ w.micro = q.micro
      BY <2>6 DEF WithNumber, Array
    <3> HIDE DEF w
    <3>3. r = [ret |-> 1, p |-> w]
      BY <3>1 DEF w
    <3>4. /\ Array(r.p.bytes) /\ r.p.num = (IF whole THEN Atof(read) ELSE Unknown)
          /\ r.p.tag = "F32" /\ r.p.stamp = q.stamp /\ r.p.micro = q.micro /\ r.ret = 1
      BY <3>2, <3>3
    <3>5. QED BY <1>9, <2>9, <3>4 DEF r, read, last, whole
  <2>10. CASE ~IsInt(last) /\ ~IsFloat(last)
    <3>1. r = [ret |-> 1, p |-> stored]
      BY <2>2, <2>7, <2>10
    <3>2. QED BY <1>9, <2>3, <2>4, <2>5, <2>6, <2>10, <3>1 DEF r, read, last
  <2>11. QED BY <2>8, <2>9, <2>10
<1>10. QED BY <1>8, <1>9

-----------------------------------------------------------------------------
(***************************************************************************)
(* What %d and %f write                                                    *)
(***************************************************************************)
ValueChars == Numerals \cup {"-", "."}

\* A sign is a character of a number, or none.
LEMMA SignWritten ==
  ASSUME NEW n
  PROVE  Sign(n) \in Seq(ValueChars) /\ Sign(n) = (IF n < 0 THEN <<"-">> ELSE <<>>)
<1>1. "-" \in ValueChars
  BY DEF ValueChars
<1>2. <<"-">> \in Seq(ValueChars) /\ <<>> \in Seq(ValueChars)
  <2> HIDE DEF ValueChars
  <2>1. QED BY <1>1
<1>3. QED BY <1>2 DEF Sign

\* A sign, digits in front of the dot, the dot and FracDigits behind it.
LEMMA FixedIs ==
  ASSUME NEW u \in Int
  PROVE  LET n == Shows(u)
             k == Len(n) - FracDigits
             ints == SubSeq(n, 1, k)
             frac == SubSeq(n, k + 1, Len(n))
         IN  /\ Fixed(u) = (Sign(u) \o ints \o <<".">>) \o frac
             /\ k \in Nat \ {0}
             /\ ints \in Seq(Numerals) /\ Len(ints) = k
             /\ frac \in Seq(Numerals) /\ Len(frac) = FracDigits
             /\ n = ints \o frac
             /\ Fixed(u) \in Seq(ValueChars)
<1> DEFINE n == Shows(u)
           l == Len(n)
           k == l - FracDigits
           ints == SubSeq(n, 1, k)
           frac == SubSeq(n, k + 1, l)
<1>1. n \in Seq(Numerals) /\ l \in Nat /\ l > FracDigits /\ FracDigits \in Nat \ {0}
  BY ShowsIs, DatapointAssumption
<1>2. Fixed(u) = (Sign(u) \o ints \o <<".">>) \o frac
  BY DEF Fixed, Shows
<1> HIDE DEF n
<1>3. k \in Nat \ {0} /\ k < l
  BY <1>1
<1>4. ints \in Seq(Numerals) /\ Len(ints) = k
  <2> DEFINE a == 1
  <2>1. a \in Int /\ k \in Int /\ 1 <= a /\ k <= Len(n) /\ a <= k /\ k - a + 1 = k
    BY <1>1, <1>3
  <2> HIDE DEF a, k, l
  <2>2. /\ SubSeq(n, a, k) \in Seq(Numerals)
        /\ Len(SubSeq(n, a, k)) = IF a <= k THEN k - a + 1 ELSE 0
    BY <1>1, <2>1, PieceIs
  <2>3. QED BY <2>1, <2>2 DEF a
<1>5. frac \in Seq(Numerals) /\ Len(frac) = FracDigits
  <2> DEFINE a == k + 1
  <2>1. a \in Int /\ l \in Int /\ 1 <= a /\ l <= Len(n) /\ a <= l /\ l - a + 1 = FracDigits
    BY <1>1, <1>3
  <2> HIDE DEF a, l
  <2>2. /\ SubSeq(n, a, l) \in Seq(Numerals)
        /\ Len(SubSeq(n, a, l)) = IF a <= l THEN l - a + 1 ELSE 0
    BY <1>1, <2>1, PieceIs
  <2>3. QED BY <2>1, <2>2 DEF a
<1>6. n = ints \o frac
  <2> DEFINE a == 1
             b == k
             c == l
  <2>1. a \in 1 .. Len(n) + 1 /\ b \in a - 1 .. Len(n) /\ c \in b .. Len(n) /\ c = Len(n)
    BY <1>1, <1>3
  <2> HIDE DEF a, b, c
  <2>2. SubSeq(n, a, b) \o SubSeq(n, b + 1, c) = SubSeq(n, a, c)
    BY <1>1, <2>1, ConcatAdjacentSubSeq
  <2>3. SubSeq(n, 1, Len(n)) = n
    BY <1>1, SubSeqFull
  <2>4. QED BY <2>1, <2>2, <2>3 DEF a, b, c
<1>7. Fixed(u) \in Seq(ValueChars)
  <2> DEFINE dot == <<".">>
  <2>1. ints \in Seq(ValueChars) /\ frac \in Seq(ValueChars)
    BY <1>4, <1>5, SeqMonotonic DEF ValueChars
  <2>2. dot \in Seq(ValueChars)
    BY DEF ValueChars
  <2> HIDE DEF dot, ints, frac
  <2>3. Sign(u) \o ints \in Seq(ValueChars)
    BY <2>1, SignWritten, ConcatProperties
  <2>4. (Sign(u) \o ints) \o dot \in Seq(ValueChars)
    BY <2>2, <2>3, ConcatProperties
  <2>5. ((Sign(u) \o ints) \o dot) \o frac \in Seq(ValueChars)
    BY <2>1, <2>4, ConcatProperties
  <2>6. QED BY <1>2, <2>5 DEF dot
<1>8. QED BY <1>2, <1>3, <1>4, <1>5, <1>6, <1>7 DEF n

-----------------------------------------------------------------------------
(***************************************************************************)
(* Types, and the end of a string                                          *)
(***************************************************************************)
\* A well-formed datapoint: its string ends in its array.
Held(q) ==
    /\ Array(q.bytes)
    /\ q.tag \in {"I32", "F32", "STR"}
    /\ q.num # Unknown => q.num \in Int /\ (q.tag = "I32" => q.num \in IntRange)
    /\ q.stamp \in LongRange /\ q.micro \in Int
    /\ q.tag = "STR" => \E i \in 1 .. ValueSize : q.bytes[i] = NUL

\* A well-formed line.
LineHeld(l) == l.stamped \in BOOLEAN /\ l.stamp \in StampFields /\ IsText(l.text)

\* Adds to the types that a float is a number too, and the types of the line
\* and of what a string ends with.
IInv ==
    /\ now \in Clock
    /\ Held(p)
    /\ LineHeld(line)
    /\ result \in Errs \cup {"none"}
    /\ put.how \in {"none", "I32", "F32", "STR", "line"}
    /\ sent.value.how \in {"none", "I32", "F32", "STR"}

\* What the assumptions on the constants say of the ranges.
LEMMA Bounds ==
    /\ ValueSize \in Nat \ {0} /\ NumberSize \in Nat
    /\ LongMax \in Nat \ {0} /\ IntMax \in Nat \ {0}
    /\ 0 \in LongRange /\ -1 \in LongRange /\ 0 \in IntRange
    /\ \A n \in Ints : n \in IntRange /\ n \in Int
    /\ \A u \in Units : u \in Int
    /\ \A m \in Micros : m \in Int
    /\ \A t \in Clock : t \in LongRange
    /\ NUL # VT
<1>1. ValueSize \in Nat \ {0} /\ NumberSize \in Nat
  BY DatapointAssumption
<1>2. LongMax \in Nat \ {0} /\ IntMax \in Nat \ {0}
  BY TimeAssumption
<1>3. Ints \subseteq -IntMax - 1 .. IntMax /\ Units \cup Micros \subseteq Int /\ Clock \subseteq 0 .. LongMax
  BY DatapointAssumption
<1>4. 0 \in LongRange /\ -1 \in LongRange /\ 0 \in IntRange
  BY <1>2 DEF LongRange, IntRange
<1>5. \A n \in Ints : n \in IntRange /\ n \in Int
  BY <1>2, <1>3 DEF IntRange
<1>6. \A t \in Clock : t \in LongRange
  BY <1>2, <1>3 DEF LongRange
<1>7. NUL # VT
  BY DEF NUL, VT
<1>8. QED BY <1>1, <1>2, <1>3, <1>4, <1>5, <1>6, <1>7

\* A datapoint is well-formed on the stack, after memset, and after each of
\* the ways to write into it.
LEMMA FreshHeld == Held(Zero) /\ Held(Garbage)
<1>1. Array(Bytes(NUL)) /\ Array(Bytes(Unknown))
  BY DEF Array, Bytes
<1>2. Held(Zero)
  BY <1>1, Bounds DEF Held, Zero
<1>3. Held(Garbage)
  BY <1>1, Bounds DEF Held, Garbage
<1>4. QED BY <1>2, <1>3

LEMMA NumberHeld ==
  ASSUME NEW q, Held(q), NEW tag \in {"I32", "F32"}, NEW n \in Int, tag = "I32" => n \in IntRange
  PROVE  Held(WithNumber(q, tag, n))
<1>1. Array([i \in 1 .. ValueSize |-> IF i <= NumberSize THEN Unknown ELSE q.bytes[i]])
  BY DEF Array
<1>2. QED BY <1>1 DEF Held, WithNumber

LEMMA TimeHeld ==
  ASSUME NEW q, Held(q), NEW stamp \in LongRange, NEW micro \in Int
  PROVE  Held(WithTime(q, stamp, micro))
  BY DEF Held, WithTime

\* The array after a string has been set.
LEMMA SetTextIs ==
  ASSUME NEW q, Held(q), NEW S, NEW text \in Seq(S)
  PROVE  LET r == SetText(q, text)
             cut == Cut(text)
         IN  /\ Held(r) /\ r.tag = "STR" /\ Array(r.bytes) /\ r.num = Unknown
             /\ cut \in Seq(S) /\ Len(cut) < ValueSize /\ Len(cut) \in Nat
             /\ \A i \in 1 .. Len(cut) : r.bytes[i] = cut[i] /\ cut[i] = text[i]
             /\ r.bytes[Len(cut) + 1] = NUL
<1> DEFINE cut == Cut(text)
           n == Len(cut)
           over == Over(q.bytes, cut)
           final == Terminated(over, n)
<1>1. /\ cut \in Seq(S) /\ n \in 0 .. ValueSize - 1 /\ n <= Len(text) /\ ValueSize \in Nat
      /\ \A i \in 1 .. n : cut[i] = text[i]
  BY CutIs, Bounds
<1>2. Array(over) /\ \A i \in 1 .. ValueSize : over[i] = IF i <= n THEN cut[i] ELSE q.bytes[i]
  BY OverIs
<1> HIDE DEF over, cut
<1>3. /\ Array(final)
      /\ \A i \in 1 .. ValueSize : final[i] = IF i = n + 1 THEN NUL ELSE over[i]
  BY <1>1, <1>2, TerminatedIs
<1> HIDE DEF final, n
<1>4. \A i \in 1 .. n : i \in 1 .. ValueSize /\ i # n + 1 /\ i <= n
  BY <1>1
<1>5. \A i \in 1 .. n : final[i] = cut[i]
  BY <1>2, <1>3, <1>4
<1>6. n + 1 \in 1 .. ValueSize /\ n < ValueSize /\ n \in Nat
  BY <1>1
<1>7. final[n + 1] = NUL
  BY <1>3, <1>6
<1>8. SetText(q, text) = [bytes |-> final, num |-> Unknown, tag |-> "STR",
                          stamp |-> q.stamp, micro |-> q.micro]
  BY DEF SetText, WithBytes, final, n, cut, over
<1>9. Held(SetText(q, text))
  BY <1>3, <1>6, <1>7, <1>8 DEF Held
<1>10. QED BY <1>1, <1>3, <1>5, <1>6, <1>7, <1>8, <1>9 DEF cut, n

\* The time of a line is a long, whatever its fields say.
LEMMA MktimeHeld ==
  ASSUME NEW s \in StampFields
  PROVE  /\ xi_mktime(TimeInfo(s)) \in LongRange
         /\ LET t == Seconds(s)
            IN  /\ t \in Int
                /\ xi_mktime(TimeInfo(s)) = IF t \in 0 .. ULongMax THEN Wrapped(t, LongMax) ELSE -1
<1>1. TimeInfo(s) \in TimeFields
  BY TimeInfoTyped
<1>2. Seconds(s) = SecondsSince(TimeInfo(s)) /\ Seconds(s) \in Int
  BY SecondsAre
<1>3. xi_mktime(TimeInfo(s)) = IF Seconds(s) \in 0 .. ULongMax
                               THEN Wrapped(Seconds(s), LongMax) ELSE -1
  BY <1>1, <1>2, MktimeIs
<1>4. Wrapped(Seconds(s), LongMax) \in LongRange
  BY <1>2, Bounds, WrappedIs DEF LongRange
<1>5. QED BY <1>2, <1>3, <1>4, Bounds

\* csv_decode_value leaves a well-formed datapoint, also where it refuses.
LEMMA DecodeHeld ==
  ASSUME NEW q, Held(q), NEW S, NEW text \in Seq(S)
  PROVE  Held(csv_decode_value(q, text).p)
<1> DEFINE read == LineOf(text)
           last == AfterTab(read)
           r == csv_decode_value(q, text)
           whole == VT \notin ToSet(read)
<1>1. /\ Array(q.bytes) /\ q.tag \in {"I32", "F32", "STR"}
      /\ q.stamp \in LongRange /\ q.micro \in Int
  BY DEF Held
<1>2. read \in Seq(S) /\ Len(read) \in Nat /\ ValueSize \in 1 .. ValueSize
  <2>1. read \in Seq(S)
    BY LineOfIs
  <2>2. QED BY <2>1, Bounds
<1>3. /\ Array(r.p.bytes) /\ r.p.stamp = q.stamp /\ r.p.micro = q.micro
      /\ Len(read) < ValueSize =>
           IF IsInt(last)
           THEN r.p.tag = "I32" /\ r.p.num = IF whole THEN Atoi(read) ELSE Unknown
           ELSE IF IsFloat(last)
           THEN r.p.tag = "F32" /\ r.p.num = IF whole THEN Atof(read) ELSE Unknown
           ELSE r.p.tag = "STR" /\ r.p.num = Unknown /\ r.p.bytes[Len(read) + 1] = NUL
      /\ ~(Len(read) < ValueSize) =>
           r.p.tag = q.tag /\ r.p.num = Unknown /\ r.p.bytes[ValueSize] = NUL
  BY <1>1, DecodedIs
<1>4. whole => last = read
  BY <1>2, PlainTail
<1> HIDE DEF r, read, whole
<1>5. IsInt(read) => Atoi(read) \in IntRange /\ Atoi(read) \in Int
  <2>1. IsInt(read) => Atoi(read) \in IntRange
    BY <1>2, AtoiIs
  <2>2. \A n \in IntRange : n \in Int
    BY Bounds DEF IntRange
  <2>3. QED BY <2>1, <2>2
<1>6. IsFloat(read) => Atof(read) \in Int
  <2> SUFFICES ASSUME NEW i \in DOMAIN read, IsPoint(read, i) PROVE Atof(read) \in Int
    BY DEF IsFloat
  <2>1. QED BY <1>2, AtofIs
<1> HIDE DEF last
<1>7. CASE ~(Len(read) < ValueSize)
  BY <1>1, <1>2, <1>3, <1>7 DEF Held, r
<1>8. CASE Len(read) < ValueSize /\ IsInt(last)
  <2>1. r.p.num # Unknown => r.p.num \in Int /\ r.p.num \in IntRange
    BY <1>3, <1>4, <1>5, <1>8
  <2>2. QED BY <1>1, <1>3, <1>8, <2>1 DEF Held, r
<1>9. CASE Len(read) < ValueSize /\ ~IsInt(last) /\ IsFloat(last)
  <2>1. r.p.num # Unknown => r.p.num \in Int
    BY <1>3, <1>4, <1>6, <1>9
  <2>2. QED BY <1>1, <1>3, <1>9, <2>1 DEF Held, r
<1>10. CASE Len(read) < ValueSize /\ ~IsInt(last) /\ ~IsFloat(last)
  <2>1. Len(read) + 1 \in 1 .. ValueSize
    BY <1>2, <1>10
  <2>2. QED BY <1>1, <1>3, <1>10, <2>1 DEF Held, r
<1>11. QED BY <1>7, <1>8, <1>9, <1>10

\* What is written of a datapoint that can be read is a text.
LEMMA EncodedIs ==
  ASSUME NEW q, Held(q), q.tag # "STR" => q.num # Unknown
  PROVE  \E S : csv_encode_value(q) \in Seq(S)
<1>1. CASE q.tag = "I32"
  <2>1. q.num \in Int
    BY <1>1 DEF Held
  <2>2. Decimal[Magnitude(q.num)] \in Seq(ValueChars)
    <3>1. Decimal[Magnitude(q.num)] \in Seq(Numerals)
      BY <2>1, MagnitudeIs, DecimalIs
    <3>2. QED BY <3>1, SeqMonotonic DEF ValueChars
  <2>3. Sign(q.num) \o Decimal[Magnitude(q.num)] \in Seq(ValueChars)
    BY <2>2, SignWritten, ConcatProperties
  <2>4. csv_encode_value(q) = Sign(q.num) \o Decimal[Magnitude(q.num)]
    BY <1>1 DEF csv_encode_value
  <2>5. QED BY <2>3, <2>4
<1>2. CASE q.tag = "F32"
  <2>1. q.num \in Int
    BY <1>2 DEF Held
  <2>2. Fixed(q.num) \in Seq(ValueChars)
    BY <2>1, FixedIs
  <2>3. csv_encode_value(q) = Fixed(q.num)
    BY <1>2 DEF csv_encode_value
  <2>4. QED BY <2>2, <2>3
<1>3. CASE q.tag = "STR"
  <2>1. CString(q.bytes) \in Seq({q.bytes[i] : i \in 1 .. ValueSize})
    BY CStringFits DEF Held
  <2>2. csv_encode_value(q) = CString(q.bytes)
    BY <1>3 DEF csv_encode_value
  <2>3. QED BY <2>1, <2>2
<1>4. QED BY <1>1, <1>2, <1>3 DEF Held

\* A line that is none is a line, and has no stamp.
LEMMA NoLineHeld == LineHeld(NoLine) /\ NoStamp \in StampFields
<1>1. NoStamp \in StampFields
  BY DEF NoStamp, StampFields
<1>2. IsText(<<>>)
  <2> DEFINE S == {0}
  <2>1. <<>> \in Seq(S)
    BY EmptySeq
  <2>2. QED BY <2>1, TextIs
<1>3. QED BY <1>1, <1>2 DEF LineHeld, NoLine

\* The line that is written of a datapoint.
LEMMA LineWritten ==
  ASSUME NEW q, Held(q), q.tag # "STR" => q.num # Unknown
  PROVE  LineHeld([stamped |-> HasStamp(q.stamp),
                   stamp |-> IF q.stamp = 0 THEN NoStamp ELSE Written(xi_gmtime(q.stamp), q.micro),
                   text |-> Append(csv_encode_value(q), "\n")])
<1>1. IsText(Append(csv_encode_value(q), "\n"))
  <2>1. PICK S : csv_encode_value(q) \in Seq(S)
    BY EncodedIs
  <2> DEFINE A == S \cup {"\n"}
             t == csv_encode_value(q)
  <2>2. t \in Seq(A) /\ "\n" \in A
    BY <2>1, SeqMonotonic
  <2> HIDE DEF A, t
  <2>3. Append(t, "\n") \in Seq(A)
    BY <2>2, AppendProperties
  <2>4. QED BY <2>3, TextIs DEF t
<1> DEFINE s == Written(xi_gmtime(q.stamp), q.micro)
<1>2. s \in StampFields
  <2>1. q.stamp \in LongRange /\ q.micro \in Int
    BY DEF Held
  <2>2. /\ s.year \in Int /\ s.mon \in Int /\ s.mday \in Int
        /\ s.hour \in Int /\ s.min \in Int /\ s.sec \in Int /\ s.micro \in Int
    BY <2>1, TimeComesBack, MicroComesBack
  <2>3. s = [year |-> s.year, mon |-> s.mon, mday |-> s.mday,
             hour |-> s.hour, min |-> s.min, sec |-> s.sec, micro |-> s.micro]
    BY DEF Written
  <2> HIDE DEF s
  <2> DEFINE r == [year |-> s.year, mon |-> s.mon, mday |-> s.mday,
                   hour |-> s.hour, min |-> s.min, sec |-> s.sec, micro |-> s.micro]
  <2>4. r \in StampFields
    BY <2>1, <2>2 DEF StampFields
  <2>5. QED BY <2>3, <2>4
<1> HIDE DEF s
<1>3. HasStamp(q.stamp) \in BOOLEAN
  BY DEF HasStamp
<1>4. QED BY <1>1, <1>2, <1>3, NoLineHeld DEF LineHeld, s

\* The codes are errors, and differ.
LEMMA ErrsAre ==
    /\ NoErr \in Errs /\ "XI_CSV_DECODE_DATAPOINT_PARSER_ERROR" \in Errs
    /\ "XI_CSV_TIME_CONVERTION_ERROR" \in Errs
    /\ NoErr # "none" /\ NoErr # "XI_CSV_DECODE_DATAPOINT_PARSER_ERROR"
    /\ NoErr # "XI_CSV_TIME_CONVERTION_ERROR"
    /\ "XI_CSV_DECODE_DATAPOINT_PARSER_ERROR" # "XI_CSV_TIME_CONVERTION_ERROR"
  BY DEF Errs, NoErr, DecodeErrs

\* Nothing is put and sent at first.
LEMMA SentNothing == NotSent.value.how = "none" /\ Nothing.how = "none"
  BY DEF NotSent, Nothing, Put

\* What the setters and the stamping of a datapoint do.
LEMMA ChangedHolds ==
  ASSUME IInv, NEW q, NEW what, Changed(q, what), Held(q), what.how \in {"I32", "F32", "STR"}
  PROVE  IInv'
  BY NoLineHeld, SentNothing DEF IInv, Changed

\* The ways a line is decoded.
DecodeTime == xi_mktime(TimeInfo(line.stamp))
DecodeInto == WithTime(p, DecodeTime, line.stamp.micro)
Decoded == csv_decode_value(DecodeInto, line.text)

Unstamped ==
    /\ ~line.stamped
    /\ p' = p /\ put' = put /\ result' = "XI_CSV_DECODE_DATAPOINT_PARSER_ERROR"
Untimed ==
    /\ line.stamped /\ Wrapped(DecodeTime, IntMax) = -1
    /\ p' = p /\ put' = put /\ result' = "XI_CSV_TIME_CONVERTION_ERROR"
TooLong ==
    /\ line.stamped /\ Wrapped(DecodeTime, IntMax) # -1 /\ Decoded.ret = 0
    /\ p' = Decoded.p /\ put' = Nothing /\ result' = "XI_CSV_DECODE_DATAPOINT_PARSER_ERROR"
Read ==
    /\ line.stamped /\ Wrapped(DecodeTime, IntMax) # -1 /\ Decoded.ret # 0
    /\ p' = Decoded.p /\ put' = Put("line", 0, LineOf(line.text)) /\ result' = NoErr

\* There are no other ways.
LEMMA DecodeIs ==
  ASSUME Decode
  PROVE  /\ line # NoLine /\ result = "none"
         /\ now' = now /\ line' = line /\ sent' = sent
         /\ Unstamped \/ Untimed \/ TooLong \/ Read
<1> DEFINE time == xi_mktime(TimeInfo(line.stamp))
           q == WithTime(p, time, line.stamp.micro)
           r == csv_decode_value(q, line.text)
<1>1. time = DecodeTime /\ q = DecodeInto /\ r = Decoded
  BY DEF DecodeTime, DecodeInto, Decoded
<1>2. /\ line # NoLine /\ result = "none"
      /\ now' = now /\ line' = line /\ sent' = sent
      /\ IF ~line.stamped
         THEN Refuse(p, "XI_CSV_DECODE_DATAPOINT_PARSER_ERROR", put)
         ELSE IF Wrapped(time, IntMax) = -1
         THEN Refuse(p, "XI_CSV_TIME_CONVERTION_ERROR", put)
         ELSE IF r.ret = 0
         THEN Refuse(r.p, "XI_CSV_DECODE_DATAPOINT_PARSER_ERROR", Nothing)
         ELSE p' = r.p /\ put' = Put("line", 0, LineOf(line.text)) /\ result' = NoErr
  BY DEF Decode
<1> HIDE DEF time, q, r
<1>3. QED BY <1>1, <1>2 DEF Unstamped, Untimed, TooLong, Read, Refuse

\* A datapoint with the time of its line is well-formed.
LEMMA DecodeIntoHeld ==
  ASSUME Held(p), LineHeld(line)
  PROVE  /\ Held(DecodeInto) /\ DecodeInto.stamp = DecodeTime
         /\ DecodeInto.micro = line.stamp.micro
         /\ line.text \in Seq(ToSet(line.text))
<1>1. line.stamp \in StampFields /\ line.text \in Seq(ToSet(line.text))
  BY DEF LineHeld, IsText
<1>2. line.stamp.micro \in Int
  BY <1>1 DEF StampFields
<1>3. DecodeTime \in LongRange
  BY <1>1, MktimeHeld DEF DecodeTime
<1>4. Held(DecodeInto)
  BY <1>2, <1>3, TimeHeld DEF DecodeInto
<1>5. QED BY <1>1, <1>4 DEF DecodeInto, WithTime

\* The inductive invariant holds at first, is kept, and always holds.
LEMMA IInvInit == Init => IInv
  BY FreshHeld, NoLineHeld, SentNothing, DatapointAssumption DEF Init, IInv, Nothing, Put, NotSent

LEMMA IInvNext == IInv /\ [Next]_vars => IInv'
<1> SUFFICES ASSUME IInv, [Next]_vars PROVE IInv'
  OBVIOUS
<1>0. Held(p) /\ LineHeld(line)
  BY DEF IInv
<1>1. ASSUME NEW n \in Ints, xi_set_value_i32(n) PROVE IInv'
  <2>1. Held(WithNumber(p, "I32", n))
    BY <1>0, Bounds, NumberHeld
  <2> DEFINE q == WithNumber(p, "I32", n)
             what == Put("I32", n, <<>>)
  <2>2. Changed(q, what) /\ what.how \in {"I32", "F32", "STR"}
    BY <1>1 DEF xi_set_value_i32, Put
  <2> HIDE DEF q, what
  <2>3. QED BY <2>1, <2>2, ChangedHolds DEF q
<1>2. ASSUME NEW u \in Units, xi_set_value_f32(u) PROVE IInv'
  <2>1. Held(WithNumber(p, "F32", u))
    BY <1>0, Bounds, NumberHeld
  <2> DEFINE q == WithNumber(p, "F32", u)
             what == Put("F32", u, <<>>)
  <2>2. Changed(q, what) /\ what.how \in {"I32", "F32", "STR"}
    BY <1>2 DEF xi_set_value_f32, Put
  <2> HIDE DEF q, what
  <2>3. QED BY <2>1, <2>2, ChangedHolds DEF q
<1>3. ASSUME NEW t \in Texts, xi_set_value_str(t) PROVE IInv'
  <2>1. Held(SetText(p, t))
    <3>1. t \in Seq(ToSet(t))
      BY DatapointAssumption DEF IsText
    <3>2. QED BY <1>0, <3>1, SetTextIs
  <2> DEFINE q == SetText(p, t)
             what == Put("STR", 0, t)
  <2>2. Changed(q, what) /\ what.how \in {"I32", "F32", "STR"}
    BY <1>3 DEF xi_set_value_str, Put
  <2> HIDE DEF q, what
  <2>3. QED BY <2>1, <2>2, ChangedHolds DEF q
<1>4. ASSUME NEW m \in Micros, Stamp(m) PROVE IInv'
  <2>1. Held(WithTime(p, now, m))
    BY <1>0, Bounds, TimeHeld DEF IInv
  <2>2. QED BY <1>4, <2>1, NoLineHeld, SentNothing DEF IInv, Stamp
<1>5. CASE Clear
  BY <1>5, FreshHeld, NoLineHeld, SentNothing DEF IInv, Clear
<1>6. CASE Tick
  BY <1>6 DEF IInv, Tick
<1>7. CASE Encode
  <2> DEFINE l == [stamped |-> HasStamp(p.stamp),
                   stamp |-> IF p.stamp = 0 THEN NoStamp ELSE Written(xi_gmtime(p.stamp), p.micro),
                   text |-> Append(csv_encode_value(p), "\n")]
  <2>1. LineHeld(l)
    BY <1>0, <1>7, LineWritten DEF Encode, Readable
  <2>2. line' = l
    BY <1>7 DEF Encode
  <2>3. LineHeld(line)'
    BY <2>1, <2>2
  <2>4. sent.value.how' \in {"none", "I32", "F32", "STR"}
    BY <1>0, <1>7 DEF Encode, Getters, Held
  <2>5. QED BY <1>7, <2>3, <2>4 DEF IInv, Encode
<1>8. ASSUME NEW l \in Receivable, Receive(l) PROVE IInv'
  <2>1. l \in Lines
    BY DatapointAssumption DEF Receivable
  <2>2. LineHeld(l)
    BY <2>1, DatapointAssumption DEF LineHeld
  <2>3. QED BY <1>8, <2>2, SentNothing DEF IInv, Receive
<1>9. CASE Decode
  <2>1. /\ now' = now /\ line' = line /\ sent' = sent
        /\ Unstamped \/ Untimed \/ TooLong \/ Read
    BY <1>9, DecodeIs
  <2>2. Held(Decoded.p)
    BY <1>0, DecodeIntoHeld, DecodeHeld DEF Decoded
  <2>3. Held(p)'
    BY <1>0, <2>1, <2>2 DEF Unstamped, Untimed, TooLong, Read
  <2>4. result' \in Errs
    BY <2>1, ErrsAre DEF Unstamped, Untimed, TooLong, Read
  <2>5. put.how' \in {"none", "I32", "F32", "STR", "line"}
    BY <2>1, SentNothing DEF IInv, Unstamped, Untimed, TooLong, Read, Put
  <2>6. QED BY <2>1, <2>3, <2>4, <2>5 DEF IInv
<1>10. CASE UNCHANGED vars
  BY <1>10 DEF IInv, vars
<1>11. QED
  BY <1>1, <1>2, <1>3, <1>4, <1>5, <1>6, <1>7, <1>8, <1>9, <1>10 DEF Next

LEMMA IInvHolds == Spec => []IInv
<1>1. QED BY IInvInit, IInvNext, PTL DEF Spec

\* The datapoint, the clock, the result and what has been put and sent are of
\* their types, and a number is one of its type: what atoi makes of strtol's
\* long is an int (csv_data.c:190), and what xi_mktime returns, or the program
\* stamps, a long.
THEOREM DatapointTypes == Spec => []TypeOK
<1>1. IInv => TypeOK
  BY ArrayIs DEF IInv, Held, TypeOK
<1>2. QED BY <1>1, IInvHolds, PTL

\* A string ends within its array, after every call: the setter terminates the
\* copy (xively.c:181-184), and csv_decode_value its array before it writes into
\* it (XI_GUARD_EOS, csv_data.c:126), so that a line that is too long
\* (csv_data.c:150-154) leaves a string behind that ends.
THEOREM StringEndsInArray == Spec => []StringEnds
<1>1. IInv => StringEnds
  <2> SUFFICES ASSUME IInv, p.tag = "STR" PROVE NUL \in ToSet(p.bytes)
    BY DEF StringEnds
  <2>1. Array(p.bytes) /\ \E i \in 1 .. ValueSize : p.bytes[i] = NUL
    BY DEF IInv, Held
  <2>2. ToSet(p.bytes) = {p.bytes[i] : i \in 1 .. ValueSize}
    BY <2>1, ArrayIs
  <2>3. QED BY <2>1, <2>2
<1>2. QED BY <1>1, IInvHolds, PTL

\* Every step but the decoding of a line and the tick of the clock forgets the
\* result.
LEMMA ResultForgotten ==
  ASSUME [Next]_vars
  PROVE  result' = "none" \/ Decode \/ (p' = p /\ line' = line /\ result' = result /\ sent' = sent)
<1>1. CASE \/ \E n \in Ints : xi_set_value_i32(n)
           \/ \E u \in Units : xi_set_value_f32(u)
           \/ \E t \in Texts : xi_set_value_str(t)
  BY <1>1 DEF xi_set_value_i32, xi_set_value_f32, xi_set_value_str, Changed
<1>2. CASE \/ \E m \in Micros : Stamp(m)
           \/ \E l \in Receivable : Receive(l)
           \/ Clear \/ Encode
  BY <1>2 DEF Stamp, Receive, Clear, Encode
<1>3. CASE Tick \/ UNCHANGED vars
  BY <1>3 DEF Tick, vars
<1>4. QED BY <1>1, <1>2, <1>3 DEF Next

\* What the test for an error in the time lets through.
LEMMA TimeTested ==
  ASSUME NEW s \in StampFields
  PROVE  LET t == Seconds(s)
             time == xi_mktime(TimeInfo(s))
         IN  /\ Wrapped(time, IntMax) # -1 => IF t <= LongMax THEN time = t ELSE time < 0
             /\ Wrapped(time, IntMax) = -1 =>
                  t < 0 \/ t > ULongMax - SECS_DAY \/ Wrapped(t, IntMax) = -1
<1> DEFINE t == Seconds(s)
           time == xi_mktime(TimeInfo(s))
<1>1. t \in Int /\ time = IF t \in 0 .. ULongMax THEN Wrapped(t, LongMax) ELSE -1
  BY MktimeHeld
<1> HIDE DEF t, time
<1>2. LongMax \in Nat \ {0} /\ IntMax \in Nat \ {0} /\ ULongMax = 2 * LongMax + 1 /\ SECS_DAY \in Nat
  <2>1. SECS_DAY \in Nat
    <3>1. SecsPerMin \in Nat /\ MinsPerHour \in Nat /\ HoursPerDay \in Nat
      BY TimeAssumption
    <3>2. SecsPerMin * MinsPerHour \in Nat
      BY <3>1
    <3> DEFINE a == SecsPerMin * MinsPerHour
    <3>3. a \in Nat
      BY <3>2
    <3> HIDE DEF a
    <3>4. a * HoursPerDay \in Nat
      BY <3>1, <3>3
    <3>5. QED BY <3>4 DEF SECS_DAY, SecsPerHour, a
  <2>2. QED BY <2>1, Bounds DEF ULongMax
<1>3. Wrapped(-1, IntMax) = -1
  <2> DEFINE n == -1
  <2>1. n \in Int /\ n \in -IntMax - 1 .. IntMax
    BY <1>2
  <2> HIDE DEF n
  <2>2. Wrapped(n, IntMax) = n
    BY <1>2, <2>1, WrappedFits
  <2>3. QED BY <2>2 DEF n
<1>4. CASE t \in 0 .. ULongMax
  <2>1. time = Wrapped(t, LongMax)
    BY <1>1, <1>4
  <2>2. t <= LongMax => time = t
    <3>1. t <= LongMax => t \in -LongMax - 1 .. LongMax
      BY <1>2, <1>4
    <3>2. QED BY <1>1, <1>2, <2>1, <3>1, WrappedFits
  <2>3. ~(t <= LongMax) => time < 0
    <3>1. ~(t <= LongMax) => t \in LongMax + 1 .. 2 * LongMax + 1
      BY <1>2, <1>4
    <3>2. QED BY <1>1, <1>2, <2>1, <3>1, WrappedFits
  <2>4. Wrapped(time, IntMax) = Wrapped(t, IntMax)
    BY <1>1, <2>1, WrappedTwice
  <2>5. QED BY <2>2, <2>3, <2>4 DEF t, time
<1>5. CASE t \notin 0 .. ULongMax
  <2>1. Wrapped(time, IntMax) = -1
    BY <1>1, <1>3, <1>5
  <2>2. t < 0 \/ t > ULongMax - SECS_DAY
    BY <1>1, <1>2, <1>5
  <2>3. QED BY <2>1, <2>2 DEF t, time
<1>6. QED BY <1>4, <1>5

\* The time of a line that was decoded is what its fields say by the calendar,
\* whatever sscanf read into them (xi_time.c:19-115), and a line is refused for
\* its time only where xi_mktime has none or -1 for it (csv_data.c:367-369).
THEOREM DecodedStampIsTrue == Spec => []StampIsTrue
<1>1. Init => StampIsTrue
  BY DEF Init, StampIsTrue
<1>2. IInv /\ StampIsTrue /\ [Next]_vars => StampIsTrue'
  <2> SUFFICES ASSUME IInv, StampIsTrue, [Next]_vars PROVE StampIsTrue'
    OBVIOUS
  <2>1. CASE result' = "none"
    BY <2>1 DEF StampIsTrue
  <2>2. CASE p' = p /\ line' = line /\ result' = result /\ sent' = sent
    BY <2>2 DEF StampIsTrue
  <2>3. CASE Decode
    <3>1. line' = line /\ (Unstamped \/ Untimed \/ TooLong \/ Read)
      BY <2>3, DecodeIs
    <3>2. Held(p) /\ LineHeld(line) /\ line.stamp \in StampFields
      BY DEF IInv, LineHeld
    <3> DEFINE t == Seconds(line.stamp)
    <3>3. /\ Wrapped(DecodeTime, IntMax) # -1 =>
               IF t <= LongMax THEN DecodeTime = t ELSE DecodeTime < 0
          /\ Wrapped(DecodeTime, IntMax) = -1 =>
               t < 0 \/ t > ULongMax - SECS_DAY \/ Wrapped(t, IntMax) = -1
      BY <3>2, TimeTested DEF DecodeTime
    <3>4. Seconds(line.stamp)' = t
      BY <3>1 DEF Seconds
    <3>5. Decoded.p.stamp = DecodeTime
      <4>1. /\ Held(DecodeInto) /\ DecodeInto.stamp = DecodeTime
            /\ line.text \in Seq(ToSet(line.text))
        BY <3>2, DecodeIntoHeld
      <4> DEFINE q == DecodeInto
                 text == line.text
                 S == ToSet(text)
      <4>2. Array(q.bytes) /\ text \in Seq(S) /\ q.stamp = DecodeTime
        BY <4>1 DEF Held
      <4> HIDE DEF q, text, S
      <4>3. csv_decode_value(q, text).p.stamp = q.stamp
        BY <4>2, DecodedIs
      <4>4. QED BY <4>2, <4>3 DEF Decoded, q, text
    <3> HIDE DEF t
    <3>6. CASE Unstamped
      BY <3>1, <3>6 DEF Unstamped, StampIsTrue
    <3>7. CASE Untimed
      BY <3>3, <3>4, <3>7, ErrsAre DEF Untimed, StampIsTrue
    <3>8. CASE TooLong
      BY <3>8, ErrsAre DEF TooLong, StampIsTrue
    <3>9. CASE Read
      BY <3>3, <3>4, <3>5, <3>9, ErrsAre DEF Read, StampIsTrue
    <3>10. QED BY <3>1, <3>6, <3>7, <3>8, <3>9
  <2>4. QED BY <2>1, <2>2, <2>3, ResultForgotten
<1>3. QED BY <1>1, <1>2, IInvHolds, PTL DEF Spec

-----------------------------------------------------------------------------
(***************************************************************************)
(* What is put into a datapoint                                            *)
(***************************************************************************)
\* A number that is set is what the getter returns.
LEMMA NumberPut ==
  ASSUME NEW q, NEW tag \in {"I32", "F32"}, NEW n
  PROVE  Getters(WithNumber(q, tag, n)) = Put(tag, n, <<>>)
  BY DEF Getters, WithNumber, Put

\* So is a string, up to what the array holds.
LEMMA StringPut ==
  ASSUME NEW q, Held(q), NEW S, NEW text \in Seq(S), NUL \notin ToSet(text)
  PROVE  Getters(SetText(q, text)) = Put("STR", 0, Cut(text))
<1> DEFINE r == SetText(q, text)
           cut == Cut(text)
<1>1. /\ r.tag = "STR" /\ Array(r.bytes)
      /\ cut \in Seq(S) /\ Len(cut) < ValueSize
      /\ \A i \in 1 .. Len(cut) : r.bytes[i] = cut[i] /\ cut[i] = text[i]
      /\ r.bytes[Len(cut) + 1] = NUL
  BY SetTextIs
<1>2. \A i \in 1 .. Len(cut) : cut[i] # NUL
  <2>1. Len(cut) <= Len(text) /\ DOMAIN text = 1 .. Len(text)
    BY CutIs
  <2>2. \A i \in 1 .. Len(cut) : i \in DOMAIN text
    BY <1>1, <2>1
  <2>3. QED BY <1>1, <2>2 DEF ToSet
<1> HIDE DEF r, cut
<1>3. CString(r.bytes) = cut
  <2> DEFINE bytes == r.bytes
  <2>1. /\ Array(bytes) /\ cut \in Seq(S) /\ Len(cut) < ValueSize
        /\ \A i \in 1 .. Len(cut) : bytes[i] = cut[i] /\ cut[i] # NUL
        /\ bytes[Len(cut) + 1] = NUL
    BY <1>1, <1>2
  <2> HIDE DEF bytes
  <2>2. CString(bytes) = cut
    BY <2>1, CStringIs
  <2>3. QED BY <2>2 DEF bytes
<1>4. Getters(r) = Put("STR", 0, cut)
  BY <1>1, <1>3 DEF Getters, Put
<1>5. QED BY <1>4 DEF r, cut

\* What a datapoint reads of a line.
Reads(q, text) ==
    LET plain == VT \notin ToSet(text)
        last == AfterTab(text)
    IN  IF IsInt(last)
        THEN q.tag = "I32" /\ (plain /\ IntOf(text) \in IntRange => q.num = IntOf(text))
        ELSE IF IsFloat(last)
        THEN /\ q.tag = "F32"
             /\ \A i \in DOMAIN text :
                    LET behind == Len(text) - i
                    IN  plain /\ IsPoint(text, i) /\ behind <= FracDigits =>
                          q.num = FloatOf(text, i) * Ten[FracDigits - behind]
        ELSE /\ q.tag = "STR"
             /\ \A i \in DOMAIN text : text[i] # VT => q.bytes[i] = text[i]
             /\ q.bytes[Len(text) + 1] = NUL

\* A datapoint that a line is decoded into reads the line: an integer, a decimal
\* or a string by its look.
LEMMA DecodedReads ==
  ASSUME NEW q, Held(q), NEW S, NEW text \in Seq(S), csv_decode_value(q, text).ret # 0
  PROVE  Reads(csv_decode_value(q, text).p, LineOf(text))
<1> DEFINE read == LineOf(text)
           last == AfterTab(read)
           r == csv_decode_value(q, text)
           whole == VT \notin ToSet(read)
<1>1. Array(q.bytes)
  BY DEF Held
<1>2. read \in Seq(S) /\ DOMAIN read = 1 .. Len(read)
  <2>1. read \in Seq(S)
    BY LineOfIs
  <2>2. QED BY <2>1
<1>3. /\ Len(read) < ValueSize =>
           IF IsInt(last)
           THEN r.p.tag = "I32" /\ r.p.num = IF whole THEN Atoi(read) ELSE Unknown
           ELSE IF IsFloat(last)
           THEN r.p.tag = "F32" /\ r.p.num = IF whole THEN Atof(read) ELSE Unknown
           ELSE /\ r.p.tag = "STR"
                /\ \A i \in 1 .. Len(read) : read[i] # VT => r.p.bytes[i] = read[i]
                /\ r.p.bytes[Len(read) + 1] = NUL
      /\ ~(Len(read) < ValueSize) => r.ret = 0
  BY <1>1, DecodedIs
<1>4. Len(read) < ValueSize
  BY <1>3
<1>5. whole => last = read
  BY <1>2, PlainTail
<1> DEFINE d == r.p
<1> HIDE DEF r, d, read
<1>6. IsInt(read) /\ IntOf(read) \in IntRange => Atoi(read) = IntOf(read)
  BY <1>2, AtoiIs
<1>7. ASSUME NEW i \in DOMAIN read, IsPoint(read, i), Len(read) - i <= FracDigits
      PROVE  Atof(read) = FloatOf(read, i) * Ten[FracDigits - (Len(read) - i)]
  BY <1>2, <1>7, AtofIs
<1> HIDE DEF last
<1>8. CASE IsInt(last)
  <2>1. d.tag = "I32" /\ (whole => d.num = Atoi(read))
    BY <1>3, <1>4, <1>8 DEF d
  <2>2. whole /\ IntOf(read) \in IntRange => d.num = IntOf(read)
    BY <1>5, <1>6, <1>8, <2>1
  <2>3. Reads(d, read)
    BY <1>8, <2>1, <2>2 DEF Reads, last
  <2>4. QED BY <2>3 DEF d, r, read
<1>9. CASE ~IsInt(last) /\ IsFloat(last)
  <2>1. d.tag = "F32" /\ (whole => d.num = Atof(read))
    BY <1>3, <1>4, <1>9 DEF d
  <2>2. ASSUME NEW i \in DOMAIN read
        PROVE  whole /\ IsPoint(read, i) /\ Len(read) - i <= FracDigits =>
                 d.num = FloatOf(read, i) * Ten[FracDigits - (Len(read) - i)]
    BY <1>7, <2>1
  <2>3. Reads(d, read)
    BY <1>9, <2>1, <2>2 DEF Reads, last
  <2>4. QED BY <2>3 DEF d, r, read
<1>10. CASE ~IsInt(last) /\ ~IsFloat(last)
  <2>1. /\ d.tag = "STR" /\ d.bytes[Len(read) + 1] = NUL
        /\ \A i \in DOMAIN read : read[i] # VT => d.bytes[i] = read[i]
    BY <1>2, <1>3, <1>4, <1>10 DEF d
  <2>2. Reads(d, read)
    BY <1>10, <2>1 DEF Reads, last
  <2>3. QED BY <2>2 DEF d, r, read
<1>11. QED BY <1>8, <1>9, <1>10

\* The datapoint reads what was put into it.
ReadsPut(q, what) ==
    CASE what.how \in {"I32", "F32"} -> Getters(q) = what
      [] what.how = "STR"  -> Getters(q) = [what EXCEPT !.text = Cut(@)]
      [] what.how = "line" -> Reads(q, what.text)
      [] OTHER             -> TRUE

\* ReadsPut is ReadsWhatWasPut, of a datapoint; only the value counts.
LEMMA ReadsPutIs ==
    /\ ReadsWhatWasPut <=> ReadsPut(p, put)
    /\ ReadsWhatWasPut' <=> ReadsPut(p', put')
<1>1. ReadsWhatWasPut <=> ReadsPut(p, put)
  BY DEF ReadsWhatWasPut, ReadsPut, ReadsLine, Reads
<1>2. ReadsWhatWasPut' <=> ReadsPut(p', put')
  BY DEF ReadsWhatWasPut, ReadsPut, ReadsLine, Reads
<1>3. QED BY <1>1, <1>2

LEMMA SamePut ==
  ASSUME NEW q, NEW r, NEW what, r.bytes = q.bytes, r.num = q.num, r.tag = q.tag,
         ReadsPut(q, what)
  PROVE  ReadsPut(r, what)
<1>1. Getters(r) = Getters(q)
  BY DEF Getters
<1>2. \A text : Reads(r, text) <=> Reads(q, text)
  BY DEF Reads
<1>3. QED BY <1>1, <1>2 DEF ReadsPut

\* The getter of a datapoint's type returns what was put last, by a setter or
\* a line, whatever the datapoint held before (csv_data.c:118-203, xively.c:176-192).
THEOREM DatapointReads == Spec => []ReadsWhatWasPut
<1>1. Init => ReadsWhatWasPut
  BY DEF Init, ReadsWhatWasPut, Nothing, Put
<1>2. IInv /\ ReadsWhatWasPut /\ [Next]_vars => ReadsWhatWasPut'
  <2> SUFFICES ASSUME IInv, ReadsPut(p, put), [Next]_vars PROVE ReadsPut(p', put')
    BY ReadsPutIs
  <2>0. Held(p) /\ LineHeld(line)
    BY DEF IInv
  <2>1. ASSUME NEW n \in Ints, xi_set_value_i32(n) PROVE ReadsPut(p', put')
    <3>1. p' = WithNumber(p, "I32", n) /\ put' = Put("I32", n, <<>>)
      BY <2>1 DEF xi_set_value_i32, Changed
    <3>2. Getters(p') = put' /\ put'.how = "I32"
      BY <3>1, NumberPut DEF Put
    <3>3. QED BY <3>2 DEF ReadsPut
  <2>2. ASSUME NEW u \in Units, xi_set_value_f32(u) PROVE ReadsPut(p', put')
    <3>1. p' = WithNumber(p, "F32", u) /\ put' = Put("F32", u, <<>>)
      BY <2>2 DEF xi_set_value_f32, Changed
    <3>2. Getters(p') = put' /\ put'.how = "F32"
      BY <3>1, NumberPut DEF Put
    <3>3. QED BY <3>2 DEF ReadsPut
  <2>3. ASSUME NEW t \in Texts, xi_set_value_str(t) PROVE ReadsPut(p', put')
    <3>1. p' = SetText(p, t) /\ put' = Put("STR", 0, t)
      BY <2>3 DEF xi_set_value_str, Changed
    <3>2. t \in Seq(ToSet(t)) /\ NUL \notin ToSet(t)
      BY DatapointAssumption DEF IsText
    <3>3. Getters(p') = Put("STR", 0, Cut(t))
      BY <2>0, <3>1, <3>2, StringPut
    <3>4. Getters(p') = [put' EXCEPT !.text = Cut(@)] /\ put'.how = "STR"
      BY <3>1, <3>3 DEF Put
    <3>5. QED BY <3>4 DEF ReadsPut
  <2>4. ASSUME NEW m \in Micros, Stamp(m) PROVE ReadsPut(p', put')
    <3>1. p' = WithTime(p, now, m) /\ put' = put
      BY <2>4 DEF Stamp
    <3>2. p'.bytes = p.bytes /\ p'.num = p.num /\ p'.tag = p.tag
      BY <3>1 DEF WithTime
    <3>3. ReadsPut(p', put)
      BY <3>2, SamePut
    <3>4. QED BY <3>1, <3>3
  <2>5. CASE Clear
    BY <2>5 DEF Clear, ReadsPut, Nothing, Put
  <2>6. CASE (Tick \/ UNCHANGED vars) \/ Encode
    <3>1. p' = p /\ put' = put
      BY <2>6 DEF Tick, vars, Encode
    <3>2. QED BY <3>1
  <2>7. ASSUME NEW l \in Receivable, Receive(l) PROVE ReadsPut(p', put')
    BY <2>7 DEF Receive
  <2>8. CASE Decode
    <3>1. Unstamped \/ Untimed \/ TooLong \/ Read
      BY <2>8, DecodeIs
    <3>2. CASE Unstamped \/ Untimed
      BY <3>2 DEF Unstamped, Untimed
    <3>3. CASE TooLong
      BY <3>3 DEF TooLong, ReadsPut, Nothing, Put
    <3>4. CASE Read
      <4>1. Held(DecodeInto) /\ line.text \in Seq(ToSet(line.text))
        BY <2>0, DecodeIntoHeld
      <4> DEFINE text == line.text
                 S == ToSet(text)
                 q == DecodeInto
      <4>2. text \in Seq(S) /\ Held(q) /\ csv_decode_value(q, text).ret # 0
        BY <3>4, <4>1 DEF Read, Decoded
      <4> HIDE DEF text, S, q
      <4>3. Reads(csv_decode_value(q, text).p, LineOf(text))
        BY <4>2, DecodedReads
      <4>4. p' = csv_decode_value(q, text).p /\ put' = Put("line", 0, LineOf(text))
        BY <3>4 DEF Read, Decoded, q, text
      <4>5. QED BY <4>3, <4>4 DEF ReadsPut, Put
    <3>5. QED BY <3>1, <3>2, <3>3, <3>4
  <2>9. QED BY <2>1, <2>2, <2>3, <2>4, <2>5, <2>6, <2>7, <2>8 DEF Next
<1>3. QED BY <1>1, <1>2, IInvHolds, PTL DEF Spec

-----------------------------------------------------------------------------
(***************************************************************************)
(* What is written reads as it was                                         *)
(***************************************************************************)
LEMMA CharsAre ==
  ASSUME NEW c \in ValueChars
  PROVE  c \notin LineEnds /\ c # VT /\ c # NUL
  BY NumeralsAre DEF ValueChars, LineEnds, NUL, VT

\* A sign in front of a text that has none.
LEMMA SignedText ==
  ASSUME NEW n \in Int, NEW d \in Seq(ValueChars), d # <<>>, d[1] # "-"
  PROVE  LET w == Sign(n) \o d
             b == SignLen(w)
         IN  /\ w \in Seq(ValueChars) /\ b = (IF n < 0 THEN 1 ELSE 0)
             /\ Len(w) = b + Len(d) /\ Unsigned(w) = d
             /\ \A i \in 1 .. Len(d) : w[b + i] = d[i]
<1>1. CASE n < 0
  <2> DEFINE c == "-"
             w == <<c>> \o d
  <2>1. c \in ValueChars /\ Sign(n) = <<c>>
    BY <1>1 DEF ValueChars, Sign
  <2> HIDE DEF c
  <2>2. /\ w \in Seq(ValueChars) /\ w # <<>> /\ Len(w) = Len(d) + 1 /\ w[1] = c
        /\ \A i \in 1 .. Len(d) : w[i + 1] = d[i]
        /\ Tail(w) = d
    BY <2>1, ConsIs
  <2> HIDE DEF w
  <2>3. SignLen(w) = 1 /\ Unsigned(w) = d
    BY <2>2 DEF SignLen, Unsigned, c
  <2>4. Len(w) = 1 + Len(d) /\ \A i \in 1 .. Len(d) : w[1 + i] = d[i]
    <3>1. Len(d) \in Nat
      OBVIOUS
    <3>2. \A i \in 1 .. Len(d) : 1 + i = i + 1
      BY <3>1
    <3>3. QED BY <2>2, <3>1, <3>2
  <2>5. Sign(n) \o d = w
    BY <2>1 DEF w
  <2>6. QED BY <1>1, <2>2, <2>3, <2>4, <2>5
<1>2. CASE ~(n < 0)
  <2>1. Sign(n) = <<>>
    BY <1>2 DEF Sign
  <2>2. Sign(n) \o d = d
    BY <2>1, ConcatEmptySeq
  <2>3. SignLen(d) = 0 /\ Unsigned(d) = d
    BY DEF SignLen, Unsigned
  <2>4. Len(d) = 0 + Len(d) /\ \A i \in 1 .. Len(d) : d[0 + i] = d[i]
    OBVIOUS
  <2>5. QED BY <1>2, <2>2, <2>3, <2>4
<1>3. QED BY <1>1, <1>2

\* What %d writes of an int looks like an integer, and says the number.
LEMMA IntText ==
  ASSUME NEW n \in Int
  PROVE  LET w == Sign(n) \o Decimal[Magnitude(n)]
         IN  w \in Seq(ValueChars) /\ IsInt(w) /\ IntOf(w) = n
<1> DEFINE d == Decimal[Magnitude(n)]
           w == Sign(n) \o d
           b == SignLen(w)
           l == Len(w)
<1>1. /\ d \in Seq(Numerals) /\ Len(d) \in Nat \ {0} /\ Number(d) = Magnitude(n)
      /\ Magnitude(n) \in Nat /\ n = IF n < 0 THEN -Magnitude(n) ELSE Magnitude(n)
  BY MagnitudeIs, DecimalIs
<1> HIDE DEF d
<1>2. d \in Seq(ValueChars) /\ d # <<>> /\ d[1] # "-"
  <2>1. d \in Seq(ValueChars)
    BY <1>1, SeqMonotonic DEF ValueChars
  <2>2. d # <<>> /\ d[1] \in Numerals
    BY <1>1
  <2>3. QED BY <2>1, <2>2, NumeralsAre
<1>3. /\ w \in Seq(ValueChars) /\ b = (IF n < 0 THEN 1 ELSE 0)
      /\ l = b + Len(d) /\ Unsigned(w) = d
      /\ \A i \in 1 .. Len(d) : w[b + i] = d[i]
  BY <1>2, SignedText
<1> HIDE DEF w
<1>4. b \in {0, 1} /\ b < l /\ l \in Nat
  BY <1>1, <1>3
<1>5. AreDigits(w, b + 1, l)
  <2> SUFFICES ASSUME NEW k \in b + 1 .. l PROVE w[k] \in Numerals
    BY DEF AreDigits, Numerals
  <2>1. k - b \in 1 .. Len(d) /\ b + (k - b) = k
    BY <1>1, <1>3, <1>4
  <2>2. w[k] = d[k - b]
    BY <1>3, <2>1
  <2>3. QED BY <1>1, <2>1, <2>2
<1>6. IsInt(w)
  BY <1>4, <1>5 DEF IsInt
<1>7. Places(w, b + 1, l) = Magnitude(n)
  <2> DEFINE i == b + 1
  <2>1. /\ i \in Int /\ l \in Int /\ 1 <= i /\ l <= Len(w) /\ i <= l + 1
    BY <1>4
  <2>2. AreDigits(w, i, l)
    BY <1>5
  <2> HIDE DEF i, l
  <2>3. Places(w, i, l) = Number(SubSeq(w, i, l))
    BY <1>3, <2>1, <2>2, PlacesIs
  <2>4. SubSeq(w, i, l) = d
    BY <1>3, SignIs DEF i, l
  <2>5. QED BY <1>1, <2>3, <2>4 DEF i
<1>8. IntOf(w) = n
  BY <1>1, <1>3, <1>7 DEF IntOf, Saying
<1>9. QED BY <1>3, <1>6, <1>8 DEF w, d

\* What %f writes of a float looks like a decimal, and says it.
LEMMA FloatText ==
  ASSUME NEW u \in Int
  PROVE  LET w == Fixed(u)
         IN  w \in Seq(ValueChars) /\ ~IsInt(w) /\ IsFloat(w) /\ Atof(w) = u
<1> DEFINE n == Shows(u)
           k == Len(n) - FracDigits
           ints == SubSeq(n, 1, k)
           frac == SubSeq(n, k + 1, Len(n))
           dot == <<".">>
           d == (ints \o dot) \o frac
           w == Sign(u) \o d
           b == SignLen(w)
           i == b + (k + 1)
           l == Len(w)
<1>1. /\ Fixed(u) = (Sign(u) \o ints \o dot) \o frac
      /\ k \in Nat \ {0} /\ FracDigits \in Nat \ {0}
      /\ ints \in Seq(Numerals) /\ Len(ints) = k
      /\ frac \in Seq(Numerals) /\ Len(frac) = FracDigits
      /\ n = ints \o frac /\ Number(n) = Magnitude(u)
      /\ Magnitude(u) \in Nat /\ u = IF u < 0 THEN -Magnitude(u) ELSE Magnitude(u)
  BY FixedIs, ShowsIs, MagnitudeIs, DatapointAssumption
<1> HIDE DEF ints, frac, n, k
<1>2. /\ ints \in Seq(ValueChars) /\ frac \in Seq(ValueChars) /\ Sign(u) \in Seq(ValueChars)
      /\ dot \in Seq(ValueChars) /\ Len(dot) = 1 /\ dot[1] = "."
  <2>1. ints \in Seq(ValueChars) /\ frac \in Seq(ValueChars)
    BY <1>1, SeqMonotonic DEF ValueChars
  <2>2. "." \in ValueChars
    BY DEF ValueChars
  <2>3. QED BY <2>1, <2>2, SignWritten
<1> HIDE DEF dot
<1>3. Fixed(u) = w
  <2> DEFINE V == ValueChars
             a == Sign(u)
             e == ints \o dot
  <2>1. a \in Seq(V) /\ ints \in Seq(V) /\ dot \in Seq(V) /\ frac \in Seq(V)
    BY <1>2
  <2> HIDE DEF V, a
  <2>2. (a \o ints) \o dot = a \o (ints \o dot)
    BY <2>1, ConcatAssociative
  <2>3. e \in Seq(V)
    BY <2>1
  <2> HIDE DEF e
  <2>4. (a \o e) \o frac = a \o (e \o frac)
    BY <2>1, <2>3, ConcatAssociative, SMTT(30)
  <2>5. QED BY <1>1, <2>2, <2>4 DEF a, e
<1>4. /\ d \in Seq(ValueChars) /\ Len(d) = k + 1 + FracDigits
      /\ \A j \in 1 .. k : d[j] = ints[j]
      /\ d[k + 1] = "."
      /\ \A j \in 1 .. FracDigits : d[k + 1 + j] = frac[j]
  <2> DEFINE e == ints \o dot
  <2>1. /\ e \in Seq(ValueChars) /\ Len(e) = k + 1
        /\ \A j \in 1 .. k + 1 : e[j] = IF j <= k THEN ints[j] ELSE dot[j - k]
    <3>1. /\ ints \o dot \in Seq(ValueChars) /\ Len(ints \o dot) = Len(ints) + Len(dot)
          /\ \A j \in 1 .. Len(ints) + Len(dot) :
                (ints \o dot)[j] = IF j <= Len(ints) THEN ints[j] ELSE dot[j - Len(ints)]
      BY <1>2, ConcatProperties
    <3>2. Len(ints) = k /\ Len(dot) = 1
      BY <1>1, <1>2
    <3>3. QED BY <3>1, <3>2
  <2> HIDE DEF e
  <2>2. /\ d \in Seq(ValueChars) /\ Len(d) = k + 1 + FracDigits
        /\ \A j \in 1 .. k + 1 + FracDigits : d[j] = IF j <= k + 1 THEN e[j] ELSE frac[j - (k + 1)]
    <3>1. e \o frac \in Seq(ValueChars) /\ Len(e \o frac) = Len(e) + Len(frac)
          /\ \A j \in 1 .. Len(e) + Len(frac) :
                (e \o frac)[j] = IF j <= Len(e) THEN e[j] ELSE frac[j - Len(e)]
      BY <1>2, <2>1, ConcatProperties
    <3>2. QED BY <1>1, <2>1, <3>1 DEF e
  <2> HIDE DEF d
  <2>3. ASSUME NEW j \in 1 .. k PROVE d[j] = ints[j]
    <3>1. j \in 1 .. k + 1 + FracDigits /\ j \in 1 .. k + 1 /\ j <= k + 1 /\ j <= k
      BY <1>1
    <3>2. QED BY <2>1, <2>2, <3>1
  <2>4. d[k + 1] = "."
    <3>1. /\ k + 1 \in 1 .. k + 1 + FracDigits /\ k + 1 \in 1 .. k + 1 /\ k + 1 <= k + 1
          /\ ~(k + 1 <= k) /\ (k + 1) - k = 1
      BY <1>1
    <3>2. QED BY <1>2, <2>1, <2>2, <3>1
  <2>5. ASSUME NEW j \in 1 .. FracDigits PROVE d[k + 1 + j] = frac[j]
    <3>1. /\ k + 1 + j \in 1 .. k + 1 + FracDigits /\ ~(k + 1 + j <= k + 1)
          /\ (k + 1 + j) - (k + 1) = j
      BY <1>1
    <3>2. QED BY <2>2, <3>1
  <2>6. QED BY <2>2, <2>3, <2>4, <2>5
<1> HIDE DEF d
<1>5. d # <<>> /\ d[1] # "-"
  <2>1. 1 \in 1 .. k /\ Len(d) # 0
    BY <1>1, <1>4
  <2>2. d[1] = ints[1] /\ ints[1] \in Numerals
    BY <1>1, <1>4, <2>1
  <2>3. QED BY <2>1, <2>2, NumeralsAre
<1>6. /\ w \in Seq(ValueChars) /\ b = (IF u < 0 THEN 1 ELSE 0)
      /\ l = b + Len(d)
      /\ \A j \in 1 .. Len(d) : w[b + j] = d[j]
  BY <1>4, <1>5, SignedText
<1> HIDE DEF w
<1>7. /\ b \in {0, 1} /\ l \in Nat /\ i \in 1 .. l /\ b < i /\ i < l /\ l - i = FracDigits
      /\ i = b + (k + 1) /\ l = i + FracDigits
      /\ k \in Nat \ {0} /\ FracDigits \in Nat \ {0} /\ Len(d) = (k + 1) + FracDigits
  <2>1. k \in Nat \ {0} /\ FracDigits \in Nat \ {0}
    BY <1>1
  <2>2. b \in {0, 1} /\ l = b + ((k + 1) + FracDigits) /\ Len(d) = (k + 1) + FracDigits
    BY <1>4, <1>6, <2>1
  <2> HIDE DEF b, l
  <2>3. QED BY <2>1, <2>2
<1> HIDE DEF b, i, l
<1>8. w[i] = "."
  <2>1. k + 1 \in 1 .. Len(d)
    BY <1>7
  <2>2. QED BY <1>4, <1>6, <1>7, <2>1
<1>9. \A j \in 1 .. k : w[b + j] = ints[j]
  <2>1. \A j \in 1 .. k : j \in 1 .. Len(d)
    BY <1>7
  <2>2. QED BY <1>4, <1>6, <2>1
<1>10. \A j \in 1 .. FracDigits : w[i + j] = frac[j]
  <2>1. \A j \in 1 .. FracDigits : k + 1 + j \in 1 .. Len(d) /\ i + j = b + (k + 1 + j)
    BY <1>7
  <2>2. QED BY <1>4, <1>6, <2>1
<1>11. AreDigits(w, b + 1, i - 1)
  <2> SUFFICES ASSUME NEW m \in b + 1 .. i - 1 PROVE w[m] \in Numerals
    BY DEF AreDigits, Numerals
  <2>1. m - b \in 1 .. k /\ b + (m - b) = m
    BY <1>7
  <2>2. w[m] = ints[m - b]
    BY <1>9, <2>1
  <2>3. QED BY <1>1, <2>1, <2>2
<1>12. AreDigits(w, i + 1, l)
  <2> SUFFICES ASSUME NEW m \in i + 1 .. l PROVE w[m] \in Numerals
    BY DEF AreDigits, Numerals
  <2>1. m - i \in 1 .. FracDigits /\ i + (m - i) = m
    BY <1>7
  <2>2. w[m] = frac[m - i]
    BY <1>10, <2>1
  <2>3. QED BY <1>1, <2>1, <2>2
<1>13. IsPoint(w, i) /\ i \in DOMAIN w
  BY <1>6, <1>7, <1>8, <1>11, <1>12 DEF IsPoint, b, l
<1>14. ~IsInt(w)
  <2> SUFFICES ASSUME IsInt(w) PROVE FALSE
    OBVIOUS
  <2>1. i \in b + 1 .. l
    BY <1>7
  <2>2. w[i] \in Numerals
    BY <2>1 DEF IsInt, AreDigits, Numerals, b, l
  <2>3. QED BY <1>8, <2>2, NumeralsAre
<1>15. Places(w, b + 1, i - 1) = Number(ints)
  <2> DEFINE x == b + 1
             y == i - 1
             s == SubSeq(w, x, y)
  <2>1. /\ x \in Int /\ y \in Int /\ 1 <= x /\ y <= Len(w) /\ x <= y + 1 /\ AreDigits(w, x, y)
        /\ y - x + 1 = k /\ \A j \in 1 .. k : x + j - 1 = b + j
    BY <1>7, <1>11 DEF l
  <2> HIDE DEF x, y
  <2>2. s \in Seq(Numerals) /\ Len(s) = k /\ Places(w, x, y) = Number(s)
    BY <1>6, <2>1, PlacesIs
  <2>3. \A j \in 1 .. k : s[j] = w[x + j - 1]
    BY <1>6, <2>1, PieceIs
  <2> HIDE DEF s
  <2>4. \A j \in 1 .. Len(s) : s[j] = ints[j]
    BY <1>9, <2>1, <2>2, <2>3
  <2>5. s = ints
    BY <1>1, <2>2, <2>4, SeqEqual
  <2>6. QED BY <2>2, <2>5 DEF x, y
<1>16. Places(w, i + 1, l) = Number(frac)
  <2> DEFINE x == i + 1
             s == SubSeq(w, x, l)
  <2>1. /\ x \in Int /\ l \in Int /\ 1 <= x /\ l <= Len(w) /\ x <= l + 1 /\ AreDigits(w, x, l)
        /\ l - x + 1 = FracDigits /\ \A j \in 1 .. FracDigits : x + j - 1 = i + j
    BY <1>7, <1>12 DEF l
  <2> HIDE DEF x, l
  <2>2. s \in Seq(Numerals) /\ Len(s) = FracDigits /\ Places(w, x, l) = Number(s)
    BY <1>6, <2>1, PlacesIs
  <2>3. \A j \in 1 .. FracDigits : s[j] = w[x + j - 1]
    BY <1>6, <2>1, PieceIs
  <2> HIDE DEF s
  <2>4. \A j \in 1 .. Len(s) : s[j] = frac[j]
    BY <1>10, <2>1, <2>2, <2>3
  <2>5. s = frac
    BY <1>1, <2>2, <2>4, SeqEqual
  <2>6. QED BY <2>2, <2>5 DEF x, l
<1>17. Magnitude(u) = Number(ints) * Ten[FracDigits] + Number(frac)
  BY <1>1, NumberConcat
<1>18. FloatOf(w, i) = u
  <2>1. l - i = FracDigits
    BY <1>7
  <2>2. FloatOf(w, i) = Saying(w, Magnitude(u))
    BY <1>15, <1>16, <1>17, <2>1 DEF FloatOf, b, l
  <2>3. QED BY <1>1, <1>6, <2>2 DEF Saying, b
<1>19. Atof(w) = u
  <2>1. Len(w) - i <= FracDigits /\ FracDigits - (Len(w) - i) = 0
    BY <1>7 DEF l
  <2>2. Atof(w) = FloatOf(w, i) * Ten[FracDigits - (Len(w) - i)]
    BY <1>6, <1>13, <2>1, AtofIs
  <2>3. Atof(w) = u * 1
    BY <1>18, <2>1, <2>2, TenIs
  <2>4. QED BY <2>3
<1>20. QED BY <1>3, <1>6, <1>13, <1>14, <1>19 DEF IsFloat

\* What is sent of a value, and its text.
Sendable(v) ==
    \/ v = Put("I32", v.num, <<>>) /\ v.num \in Int /\ v.num \in IntRange
    \/ v = Put("F32", v.num, <<>>) /\ v.num \in Int
    \/ v = Put("STR", 0, v.text) /\ v.text \in Seq(ToSet(v.text))

TextOf(v) ==
    CASE v.how = "I32" -> Sign(v.num) \o Decimal[Magnitude(v.num)]
      [] v.how = "F32" -> Fixed(v.num)
      [] OTHER         -> v.text

\* A string that is read as something else, or cut.
Mistaken(text) ==
    IsInt(text) \/ IsFloat(text) \/ ToSet(text) \cap (LineEnds \cup {VT}) # {}

\* A text of what numbers are written with is read as a whole.
LEMMA ReadWhole ==
  ASSUME NEW w \in Seq(ValueChars)
  PROVE  /\ LineOf(Append(w, "\n")) = w /\ VT \notin ToSet(w) /\ AfterTab(w) = w
         /\ Append(w, "\n") \in Seq(ValueChars \cup {"\n"})
<1>1. \A i \in 1 .. Len(w) : w[i] \in ValueChars
  OBVIOUS
<1>2. \A i \in 1 .. Len(w) : w[i] \notin LineEnds /\ w[i] # VT
  BY <1>1, CharsAre
<1>3. LineOf(Append(w, "\n")) = w
  BY <1>2, LineOfWhole
<1>4. VT \notin ToSet(w)
  <2>1. DOMAIN w = 1 .. Len(w)
    OBVIOUS
  <2>2. QED BY <1>2, <2>1 DEF ToSet
<1>5. AfterTab(w) = w
  BY <1>4, PlainTail
<1>6. Append(w, "\n") \in Seq(ValueChars \cup {"\n"})
  <2> DEFINE A == ValueChars \cup {"\n"}
  <2>1. w \in Seq(A) /\ "\n" \in A
    BY SeqMonotonic
  <2> HIDE DEF A
  <2>2. Append(w, "\n") \in Seq(A)
    BY <2>1, AppendProperties
  <2>3. QED BY <2>2 DEF A
<1>7. QED BY <1>3, <1>4, <1>5, <1>6

\* The text a value is written as is read as that value, or mistaken.
LEMMA ValueComesBack ==
  ASSUME NEW q, Held(q), NEW v, Sendable(v),
         csv_decode_value(q, Append(TextOf(v), "\n")).ret # 0
  PROVE  \/ Getters(csv_decode_value(q, Append(TextOf(v), "\n")).p) = v
         \/ v.how = "STR" /\ Mistaken(v.text)
<1> DEFINE text == Append(TextOf(v), "\n")
           r == csv_decode_value(q, text)
           read == LineOf(text)
           last == AfterTab(read)
           whole == VT \notin ToSet(read)
           d == r.p
           Back == /\ Array(d.bytes)
                   /\ Len(read) < ValueSize
                   /\ IF IsInt(last)
                      THEN d.tag = "I32" /\ (whole => d.num = Atoi(read))
                      ELSE IF IsFloat(last)
                      THEN d.tag = "F32" /\ (whole => d.num = Atof(read))
                      ELSE /\ d.tag = "STR"
                           /\ \A i \in 1 .. Len(read) : read[i] # VT => d.bytes[i] = read[i]
                           /\ d.bytes[Len(read) + 1] = NUL
<1>1. ASSUME NEW S, text \in Seq(S) PROVE Back
  <2>1. Array(q.bytes)
    BY DEF Held
  <2> HIDE DEF text
  <2>2. /\ Array(r.p.bytes)
        /\ Len(read) < ValueSize =>
             IF IsInt(last)
             THEN r.p.tag = "I32" /\ r.p.num = IF whole THEN Atoi(read) ELSE Unknown
             ELSE IF IsFloat(last)
             THEN r.p.tag = "F32" /\ r.p.num = IF whole THEN Atof(read) ELSE Unknown
             ELSE /\ r.p.tag = "STR"
                  /\ \A i \in 1 .. Len(read) : read[i] # VT => r.p.bytes[i] = read[i]
                  /\ r.p.bytes[Len(read) + 1] = NUL
        /\ ~(Len(read) < ValueSize) => r.ret = 0
    BY <1>1, <2>1, DecodedIs
  <2>3. r.ret # 0
    BY DEF text
  <2> HIDE DEF r, read, last, whole
  <2>4. QED BY <2>2, <2>3
<1>2. CASE v = Put("I32", v.num, <<>>) /\ v.num \in Int /\ v.num \in IntRange
  <2> DEFINE w == Sign(v.num) \o Decimal[Magnitude(v.num)]
  <2>1. w \in Seq(ValueChars) /\ IsInt(w) /\ IntOf(w) = v.num
    BY <1>2, IntText
  <2>2. v.how = "I32" /\ text = Append(w, "\n")
    <3>1. v.how = "I32"
      BY <1>2 DEF Put
    <3>2. QED BY <3>1 DEF TextOf
  <2> HIDE DEF w, text
  <2>3. Atoi(w) = v.num
    BY <1>2, <2>1, AtoiIs
  <2>4. read = w /\ whole /\ last = w /\ \E S : text \in Seq(S)
    BY <2>1, <2>2, ReadWhole
  <2>5. Back
    BY <1>1, <2>4
  <2> HIDE DEF d, read, last, whole
  <2>6. d.tag = "I32" /\ d.num = v.num
    BY <2>1, <2>3, <2>4, <2>5
  <2>7. Getters(d) = Put("I32", v.num, <<>>)
    BY <2>6 DEF Getters, Put
  <2>8. Getters(d) = v
    BY <1>2, <2>7
  <2>9. QED BY <2>8 DEF d, text
<1>3. CASE v = Put("F32", v.num, <<>>) /\ v.num \in Int
  <2> DEFINE w == Fixed(v.num)
  <2>1. w \in Seq(ValueChars) /\ ~IsInt(w) /\ IsFloat(w) /\ Atof(w) = v.num
    BY <1>3, FloatText
  <2>2. v.how = "F32" /\ text = Append(w, "\n")
    <3>1. v.how = "F32"
      BY <1>3 DEF Put
    <3>2. QED BY <3>1 DEF TextOf
  <2> HIDE DEF w, text
  <2>3. read = w /\ whole /\ last = w /\ \E S : text \in Seq(S)
    BY <2>1, <2>2, ReadWhole
  <2>4. Back
    BY <1>1, <2>3
  <2> HIDE DEF d, read, last, whole
  <2>5. d.tag = "F32" /\ d.num = v.num
    BY <2>1, <2>3, <2>4
  <2>6. Getters(d) = Put("F32", v.num, <<>>)
    BY <2>5 DEF Getters, Put
  <2>7. Getters(d) = v
    BY <1>3, <2>6
  <2>8. QED BY <2>7 DEF d, text
<1>4. CASE v = Put("STR", 0, v.text) /\ v.text \in Seq(ToSet(v.text))
  <2> DEFINE w == v.text
             S == ToSet(w)
             A == S \cup {"\n"}
  <2>1. v.how = "STR"
    BY <1>4 DEF Put
  <2>2. text = Append(w, "\n")
    BY <2>1 DEF TextOf
  <2>3. SUFFICES ASSUME ~Mistaken(w) PROVE Getters(d) = v
    BY <2>1
  <2>4. /\ ~IsInt(w) /\ ~IsFloat(w) /\ VT \notin ToSet(w)
        /\ \A i \in DOMAIN w : w[i] \notin LineEnds
    BY <2>3 DEF Mistaken, ToSet
  <2>5. w \in Seq(S) /\ DOMAIN w = 1 .. Len(w)
    BY <1>4
  <2>6. text \in Seq(A)
    <3>1. w \in Seq(A) /\ "\n" \in A
      BY <2>5, SeqMonotonic
    <3> HIDE DEF A, w, text
    <3>2. QED BY <2>2, <3>1, AppendProperties
  <2> HIDE DEF S, A, text
  <2> HIDE DEF w
  <2>7. read = w
    BY <2>2, <2>4, <2>5, LineOfWhole
  <2>8. last = w /\ whole
    BY <2>4, <2>5, <2>7, PlainTail
  <2>9. Back
    BY <1>1, <2>6
  <2> HIDE DEF d, read, last, whole
  <2>10. /\ Array(d.bytes) /\ Len(w) < ValueSize /\ d.tag = "STR"
         /\ \A i \in 1 .. Len(w) : w[i] # VT => d.bytes[i] = w[i]
         /\ d.bytes[Len(w) + 1] = NUL
    BY <2>4, <2>7, <2>8, <2>9
  <2>11. \A i \in 1 .. Len(w) : d.bytes[i] = w[i] /\ w[i] # NUL
    <3>1. \A i \in 1 .. Len(w) : w[i] # VT
      BY <2>4, <2>5 DEF ToSet
    <3>2. NUL \in LineEnds
      BY DEF LineEnds
    <3>3. QED BY <2>4, <2>5, <2>10, <3>1, <3>2
  <2>12. CString(d.bytes) = w
    <3> DEFINE bytes == d.bytes
    <3>1. /\ Array(bytes) /\ Len(w) < ValueSize /\ bytes[Len(w) + 1] = NUL
          /\ \A i \in 1 .. Len(w) : bytes[i] = w[i] /\ w[i] # NUL
      BY <2>10, <2>11
    <3> HIDE DEF bytes
    <3>2. CString(bytes) = w
      BY <2>5, <3>1, CStringIs
    <3>3. QED BY <3>2 DEF bytes
  <2>13. Getters(d) = Put("STR", 0, w)
    BY <2>10, <2>12 DEF Getters, Put
  <2>14. QED BY <1>4, <2>13 DEF w
<1>5. QED BY <1>2, <1>3, <1>4 DEF Sendable

-----------------------------------------------------------------------------
\* The line is what was sent, as long as it is known to be.
SentIs(s, l) ==
    /\ Sendable(s.value) /\ s.stamp \in LongRange
    /\ l = [stamped |-> HasStamp(s.stamp),
            stamp |-> IF s.stamp = 0 THEN NoStamp ELSE Written(xi_gmtime(s.stamp), s.micro),
            text |-> Append(TextOf(s.value), "\n")]

SentInv == sent.value.how # "none" => SentIs(sent, line)

\* A value that can be read can be sent, as csv_encode_value writes it.
LEMMA GettersSendable ==
  ASSUME NEW q, Held(q), q.tag # "STR" => q.num # Unknown
  PROVE  Sendable(Getters(q)) /\ TextOf(Getters(q)) = csv_encode_value(q)
<1> DEFINE v == Getters(q)
<1>1. CASE q.tag = "I32"
  <2>1. q.num \in Int /\ q.num \in IntRange
    BY <1>1 DEF Held
  <2>2. v = Put("I32", q.num, <<>>) /\ v.num = q.num /\ v.how = "I32"
    BY <1>1 DEF Getters, Put
  <2> HIDE DEF v
  <2>3. Sendable(v)
    BY <2>1, <2>2 DEF Sendable
  <2>4. TextOf(v) = csv_encode_value(q)
    BY <1>1, <2>2 DEF TextOf, csv_encode_value
  <2>5. QED BY <2>3, <2>4 DEF v
<1>2. CASE q.tag = "F32"
  <2>1. q.num \in Int
    BY <1>2 DEF Held
  <2>2. v = Put("F32", q.num, <<>>) /\ v.num = q.num /\ v.how = "F32"
    BY <1>2 DEF Getters, Put
  <2> HIDE DEF v
  <2>3. Sendable(v)
    BY <2>1, <2>2 DEF Sendable
  <2>4. TextOf(v) = csv_encode_value(q)
    BY <1>2, <2>2 DEF TextOf, csv_encode_value
  <2>5. QED BY <2>3, <2>4 DEF v
<1>3. CASE q.tag = "STR"
  <2> DEFINE w == CString(q.bytes)
  <2>1. w \in Seq({q.bytes[i] : i \in 1 .. ValueSize})
    BY CStringFits DEF Held
  <2> HIDE DEF w
  <2>2. w \in Seq(ToSet(w))
    BY <2>1, TextIs DEF IsText
  <2>3. v = Put("STR", 0, w) /\ v.text = w /\ v.how = "STR"
    BY <1>3 DEF Getters, Put, w
  <2> HIDE DEF v
  <2>4. Sendable(v)
    BY <2>2, <2>3 DEF Sendable
  <2>5. TextOf(v) = csv_encode_value(q)
    BY <1>3, <2>3 DEF TextOf, csv_encode_value, w
  <2>6. QED BY <2>4, <2>5 DEF v
<1>4. QED BY <1>1, <1>2, <1>3 DEF Held

\* What is known of the line that was sent is kept.
LEMMA SentNext == IInv /\ SentInv /\ [Next]_vars => SentInv'
<1> SUFFICES ASSUME IInv, SentInv, [Next]_vars PROVE SentInv'
  OBVIOUS
<1>1. CASE \/ \E n \in Ints : xi_set_value_i32(n)
           \/ \E u \in Units : xi_set_value_f32(u)
           \/ \E t \in Texts : xi_set_value_str(t)
           \/ \E m \in Micros : Stamp(m)
           \/ \E l \in Receivable : Receive(l)
  <2>1. sent' = NotSent
    BY <1>1 DEF xi_set_value_i32, xi_set_value_f32, xi_set_value_str, Changed, Stamp, Receive
  <2>2. QED BY <2>1, SentNothing DEF SentInv
<1>2. CASE Clear \/ Tick \/ UNCHANGED vars \/ Decode
  <2>1. sent' = NotSent \/ (sent' = sent /\ line' = line)
    <3>1. CASE Decode
      BY <3>1, DecodeIs
    <3>2. CASE Clear \/ Tick \/ UNCHANGED vars
      BY <3>2 DEF Clear, Tick, vars
    <3>3. QED BY <1>2, <3>1, <3>2
  <2>2. CASE sent' = NotSent
    BY <2>2, SentNothing DEF SentInv
  <2>3. CASE sent' = sent /\ line' = line
    BY <2>3 DEF SentInv
  <2>4. QED BY <2>1, <2>2, <2>3
<1>3. CASE Encode
  <2>1. Held(p) /\ p.stamp \in LongRange /\ (p.tag # "STR" => p.num # Unknown)
    BY <1>3 DEF IInv, Held, Encode, Readable
  <2>2. Sendable(Getters(p)) /\ TextOf(Getters(p)) = csv_encode_value(p)
    BY <2>1, GettersSendable
  <2> DEFINE s == [value |-> Getters(p), stamp |-> p.stamp, micro |-> p.micro]
             l == [stamped |-> HasStamp(p.stamp),
                   stamp |-> IF p.stamp = 0 THEN NoStamp ELSE Written(xi_gmtime(p.stamp), p.micro),
                   text |-> Append(csv_encode_value(p), "\n")]
  <2>3. sent' = s /\ line' = l
    BY <1>3 DEF Encode
  <2>4. SentIs(s, l)
    BY <2>1, <2>2 DEF SentIs
  <2>5. QED BY <2>3, <2>4 DEF SentInv
<1>4. QED BY <1>1, <1>2, <1>3 DEF Next

\* A line that was sent is decoded to what it was encoded from.
LEMMA DecodedComesBack ==
  ASSUME IInv, SentInv, Decode
  PROVE  ComesBack'
<1> SUFFICES ASSUME sent.value.how # "none" PROVE ComesBack'
  BY DecodeIs DEF ComesBack
<1> DEFINE v == sent.value
           text == line.text
<1>1. /\ line' = line /\ sent' = sent
      /\ Unstamped \/ Untimed \/ TooLong \/ Read
  BY DecodeIs
<1>2. SentIs(sent, line) /\ Held(p) /\ LineHeld(line)
  BY DEF SentInv, IInv
<1>3. /\ Sendable(v) /\ sent.stamp \in LongRange
      /\ line.stamped = HasStamp(sent.stamp)
      /\ text = Append(TextOf(v), "\n")
      /\ sent.stamp # 0 => line.stamp = Written(xi_gmtime(sent.stamp), sent.micro)
  BY <1>2 DEF SentIs
<1>4. sent.stamp # 0 =>
        /\ DecodeTime = sent.stamp
        /\ line.stamp.micro = MicroRead[Wrapped(sent.micro, IntMax)]
        /\ line.stamp.year = xi_gmtime(sent.stamp).year + YEAR0
  BY <1>3, TimeComesBack DEF DecodeTime, Written
<1>4a. line.stamped <=> sent.stamp # 0 /\ line.stamp.year <= YearMax
  BY <1>3, <1>4 DEF HasStamp
<1> DEFINE kept == sent.micro \in IntRange /\ InMicroField(sent.micro)
<1>4b. sent.stamp # 0 /\ kept => line.stamp.micro = sent.micro
  <2>1. IntRange \subseteq Int
    BY Bounds DEF IntRange
  <2>2. QED BY <1>4, <2>1, MicroComesBack
<1>5. /\ Held(DecodeInto) /\ DecodeInto.stamp = DecodeTime
      /\ DecodeInto.micro = line.stamp.micro
      /\ text \in Seq(ToSet(text))
  BY <1>2, DecodeIntoHeld
<1> DEFINE q == DecodeInto
           S == ToSet(text)
           fits == Len(LineOf(text)) < ValueSize
<1>6. /\ Decoded.p.stamp = DecodeTime /\ Decoded.p.micro = line.stamp.micro
      /\ fits => Decoded.ret = 1
      /\ ~fits => Decoded.ret = 0
  <2>1. Array(q.bytes) /\ text \in Seq(S)
    BY <1>5 DEF Held
  <2>2. Decoded = csv_decode_value(q, text)
    BY DEF Decoded
  <2> HIDE DEF text, S, q
  <2>3. LET r == csv_decode_value(q, text)
        IN  /\ r.p.stamp = q.stamp /\ r.p.micro = q.micro
            /\ Len(LineOf(text)) < ValueSize => r.ret = 1
            /\ ~(Len(LineOf(text)) < ValueSize) => r.ret = 0
    BY <2>1, DecodedIs
  <2>4. q.stamp = DecodeTime /\ q.micro = line.stamp.micro
    BY <1>5 DEF q
  <2>5. QED BY <2>2, <2>3, <2>4
<1>7. Decoded.ret # 0 =>
        \/ Getters(Decoded.p) = v
        \/ v.how = "STR" /\ Mistaken(v.text)
  <2>1. Decoded = csv_decode_value(q, Append(TextOf(v), "\n"))
    BY <1>3 DEF Decoded
  <2> HIDE DEF q, v
  <2>2. Held(q)
    BY <1>5 DEF q
  <2>3. QED BY <1>3, <2>1, <2>2, ValueComesBack
<1> DEFINE timed == sent.stamp # 0 /\ line.stamp.year <= YearMax /\ Wrapped(sent.stamp, IntMax) # -1
           Back(r, d) ==
             /\ r = NoErr <=> timed /\ fits
             /\ r = NoErr =>
                  /\ d.stamp = sent.stamp
                  /\ kept => d.micro = sent.micro
                  /\ Getters(d) = v \/ (v.how = "STR" /\ Mistaken(v.text))
<1>8. Back(result', p')
  <2>1. CASE Unstamped
    <3>1. ~timed /\ result' # NoErr
      BY <1>4a, <2>1, ErrsAre DEF Unstamped
    <3> HIDE DEF timed, fits, kept, v
    <3>2. QED BY <3>1
  <2>2. CASE Untimed
    <3>1. ~timed /\ result' # NoErr
      BY <1>4, <1>4a, <2>2, ErrsAre DEF Untimed
    <3> HIDE DEF timed, fits, kept, v
    <3>2. QED BY <3>1
  <2>3. CASE TooLong
    <3>1. ~fits /\ result' # NoErr
      BY <1>6, <2>3, ErrsAre DEF TooLong
    <3> HIDE DEF timed, fits, kept, v
    <3>2. QED BY <3>1
  <2>4. CASE Read
    <3>1. timed /\ fits /\ result' = NoErr /\ p' = Decoded.p
      BY <1>4, <1>4a, <1>6, <2>4 DEF Read
    <3>2. Decoded.p.stamp = sent.stamp /\ (kept => Decoded.p.micro = sent.micro)
      BY <1>4, <1>4b, <1>6, <3>1
    <3>3. Getters(Decoded.p) = v \/ (v.how = "STR" /\ Mistaken(v.text))
      BY <1>7, <2>4 DEF Read
    <3> HIDE DEF timed, fits, kept, v
    <3>4. QED BY <3>1, <3>2, <3>3
  <2>5. QED BY <1>1, <2>1, <2>2, <2>3, <2>4
<1>9. Getters(p)' = Getters(p')
  BY DEF Getters
<1>10. QED BY <1>1, <1>8, <1>9 DEF ComesBack, Mistaken

\* A datapoint that is encoded and decoded again comes back with its time and
\* its value, for every int, every number of units and every string that does
\* not look like a number, and its microseconds if they fit their field; it is
\* refused only for a time of 0, one whose year does not fit its field or that
\* the test for an error takes for -1, or a string that is too long
\* (csv_data.c:22-43, 118-254, 330-386).
THEOREM DatapointComesBack == Spec => []ComesBack
<1> DEFINE J == SentInv /\ ComesBack
<1>1. Init => J
  BY SentNothing DEF Init, SentInv, ComesBack
<1>2. IInv /\ J /\ [Next]_vars => J'
  <2> SUFFICES ASSUME IInv, J, [Next]_vars PROVE J'
    OBVIOUS
  <2>1. SentInv'
    BY SentNext
  <2>2. ComesBack'
    <3>1. CASE result' = "none"
      BY <3>1 DEF ComesBack
    <3>2. CASE p' = p /\ line' = line /\ result' = result /\ sent' = sent
      BY <3>2 DEF ComesBack, Getters
    <3>3. CASE Decode
      BY <3>3, DecodedComesBack
    <3>4. QED BY <3>1, <3>2, <3>3, ResultForgotten
  <2>3. QED BY <2>1, <2>2
<1>3. QED BY <1>1, <1>2, IInvHolds, PTL DEF Spec
=============================================================================
