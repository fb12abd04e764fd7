-------------------------- MODULE ResponsePolicyProofs --------------------------
(***************************************************************************)
(* The arithmetic of the observe window is right for every date of a       *)
(* four-digit year: it orders dates as their digits do, and it counts one  *)
(* second for every second of the calendar.  Policies keep to the windows, *)
(* and a valid one covers every tool in exactly one way.                   *)
(***************************************************************************)
EXTENDS ResponsePolicy, FiniteSetTheorems, NaturalsInduction, WellFoundedInduction, TLAPS

Canonical == {t \in Texts : canonical_utc_seconds(t)}

\* Days before the first of March of a year, up to a constant.
YearStart(y) == 365 * y + (y \div 4) - (y \div 100) + (y \div 400)

\* Days before the n-th month of a year that begins in March.
MonthStart(n) == (153 * n + 2) \div 5

LEMMA YearLength ==
  ASSUME NEW y \in Int
  PROVE  /\ YearStart(y) \in Int
         /\ YearStart(y + 1) - YearStart(y) = 365 + IF leap(y + 1) THEN 1 ELSE 0
BY DEF YearStart, leap

LEMMA YearsIncrease ==
  ASSUME NEW y \in Int, NEW z \in Int, y < z
  PROVE  YearStart(y + 1) <= YearStart(z)
BY DEF YearStart

LEMMA TextFields ==
  ASSUME NEW t \in Texts
  PROVE  /\ t.year \in Nat /\ t.year <= 9999 /\ t.month \in Nat /\ t.day \in Nat
         /\ t.hour \in Nat /\ t.minute \in Nat /\ t.second \in Nat
         /\ adjusted_year(t) \in Int /\ adjusted_month(t) \in Int
BY DEF Texts, adjusted_year, adjusted_month

LEMMA DaysByYear ==
  ASSUME NEW t \in Texts
  PROVE  /\ days_since_epoch(t) = YearStart(adjusted_year(t)) + day_of_year(t) - 719468
         /\ day_of_year(t) = MonthStart(adjusted_month(t)) + t.day - 1
         /\ day_of_year(t) \in Int /\ days_since_epoch(t) \in Int
<1> DEFINE y == adjusted_year(t)
<1>1. y \in Int /\ adjusted_month(t) \in Int /\ t.day \in Int
  BY TextFields
<1>2. day_of_year(t) \in Int
  BY <1>1 DEF day_of_year
<1>3. (y \div 400) * 146097 + (y - (y \div 400) * 400) * 365
        + (y - (y \div 400) * 400) \div 4 - (y - (y \div 400) * 400) \div 100
      = YearStart(y)
  BY <1>1 DEF YearStart
<1>4. YearStart(y) \in Int
  BY <1>1, YearLength
<1> HIDE DEF y
<1>5. days_since_epoch(t) = YearStart(y) + day_of_year(t) - 719468
  BY <1>1, <1>2, <1>3 DEF days_since_epoch, y
<1> QED
  BY <1>1, <1>2, <1>4, <1>5 DEF y, day_of_year, MonthStart

\* A day is within its month, and the leap day ends the year.
LEMMA DayOfMonth ==
  ASSUME NEW t \in Canonical
  PROVE  /\ adjusted_month(t) \in 0..11 /\ t.day >= 1
         /\ t.month # 2 => day_of_year(t) < MonthStart(adjusted_month(t) + 1)
         /\ t.month = 2 => day_of_year(t) < 365 + IF leap(t.year) THEN 1 ELSE 0
<1>1. t.month \in 1..12 /\ t.day \in 1..month_days(t.year, t.month) /\ t.day \in Nat
  BY TextFields DEF Canonical, canonical_utc_seconds
<1>2. t.month \in {1, 2, 3, 4, 5, 6, 7, 8, 9, 10, 11, 12}
  BY <1>1
<1> QED
  BY <1>1, <1>2 DEF month_days, adjusted_month, day_of_year, MonthStart

LEMMA DatesInOrder ==
  ASSUME NEW s \in Canonical, NEW t \in Canonical, DateBefore(s, t)
  PROVE  days_since_epoch(s) < days_since_epoch(t)
<1>1. s \in Texts /\ t \in Texts
  BY DEF Canonical
<1>2. /\ s.month \in 1..12 /\ t.month \in 1..12
      /\ s.year \in Int /\ t.year \in Int /\ s.day \in Int /\ t.day \in Int
  BY <1>1, TextFields DEF Canonical, canonical_utc_seconds
<1>3. /\ day_of_year(s) = MonthStart(adjusted_month(s)) + s.day - 1
      /\ day_of_year(t) = MonthStart(adjusted_month(t)) + t.day - 1
      /\ day_of_year(s) \in Int /\ day_of_year(t) \in Int
      /\ adjusted_year(s) \in Int /\ adjusted_year(t) \in Int
      /\ YearStart(adjusted_year(s)) \in Int /\ YearStart(adjusted_year(t)) \in Int
  BY <1>1, TextFields, DaysByYear, YearLength
<1>4. SUFFICES YearStart(adjusted_year(s)) + day_of_year(s)
                 < YearStart(adjusted_year(t)) + day_of_year(t)
  BY <1>1, <1>3, DaysByYear
<1>5. CASE adjusted_year(s) < adjusted_year(t)
  <2>1. day_of_year(s) < 365 + IF leap(adjusted_year(s) + 1) THEN 1 ELSE 0
    <3>1. CASE s.month = 2
      <4>1. adjusted_year(s) + 1 = s.year
        BY <1>2, <3>1 DEF adjusted_year
      <4> QED
        BY <3>1, <4>1, DayOfMonth
    <3>2. CASE s.month # 2
      <4>1. adjusted_month(s) + 1 \in 1..11
        BY <1>1, <1>2, <3>2, TextFields DEF adjusted_month
      <4>2. MonthStart(adjusted_month(s) + 1) <= 365
        BY <4>1 DEF MonthStart
      <4> QED
        BY <1>3, <3>2, <4>1, <4>2, DayOfMonth DEF MonthStart
    <3> QED
      BY <3>1, <3>2
  <2>2. day_of_year(t) >= 0
    BY <1>1, <1>3, DayOfMonth, TextFields DEF MonthStart
  <2>3. YearStart(adjusted_year(s) + 1) <= YearStart(adjusted_year(t))
    BY <1>3, <1>5, YearsIncrease
  <2> QED
    BY <1>3, <2>1, <2>2, <2>3, YearLength
<1>6. CASE adjusted_year(s) = adjusted_year(t)
  <2>1. \/ adjusted_month(s) < adjusted_month(t) /\ s.month # 2
        \/ adjusted_month(s) = adjusted_month(t) /\ s.day < t.day
    BY <1>2, <1>6 DEF DateBefore, adjusted_year, adjusted_month
  <2>2. CASE adjusted_month(s) < adjusted_month(t) /\ s.month # 2
    <3>1. MonthStart(adjusted_month(s) + 1) <= MonthStart(adjusted_month(t))
      BY <2>2, DayOfMonth DEF MonthStart
    <3>2. day_of_year(s) < MonthStart(adjusted_month(s) + 1)
      BY <2>2, DayOfMonth
    <3>3. day_of_year(t) >= MonthStart(adjusted_month(t))
      BY <1>2, <1>3, DayOfMonth DEF MonthStart
    <3>4. /\ MonthStart(adjusted_month(s) + 1) \in Int
          /\ MonthStart(adjusted_month(t)) \in Int
      BY DayOfMonth DEF MonthStart
    <3> QED
      BY <1>3, <1>6, <3>1, <3>2, <3>3, <3>4
  <2>3. CASE adjusted_month(s) = adjusted_month(t) /\ s.day < t.day
    <3>1. MonthStart(adjusted_month(s)) \in Int
      BY DayOfMonth DEF MonthStart
    <3> QED
      BY <1>2, <1>3, <1>6, <2>3, <3>1
  <2> QED
    BY <2>1, <2>2, <2>3
<1>7. adjusted_year(s) <= adjusted_year(t)
  BY <1>2 DEF DateBefore, adjusted_year
<1> QED
  BY <1>3, <1>5, <1>6, <1>7

-----------------------------------------------------------------------------
LEMMA Scale ==
  /\ Hours \in Nat \ {0} /\ Minutes \in Nat \ {0} /\ Seconds \in Nat \ {0}
  /\ Minutes * Seconds \in Nat \ {0} /\ DaySeconds \in Nat \ {0}
<1>1. Hours \in Nat \ {0} /\ Minutes \in Nat \ {0} /\ Seconds \in Nat \ {0}
  BY WindowAssumption
<1>2. \A a, b \in Nat \ {0} : a * b \in Nat \ {0}
  OBVIOUS
<1> QED
  BY <1>1, <1>2 DEF DaySeconds

\* A digit place: larger digits weigh more than all the places after them.
LEMMA Place ==
  ASSUME NEW a \in Int, NEW b \in Int, NEW w \in Nat \ {0},
         NEW r \in 0..w - 1, NEW q \in 0..w - 1
  PROVE  /\ a * w + r \in Int
         /\ a < b => a * w + r < b * w + q
         /\ a >= 0 => a * w + r >= 0
         /\ a * w + w = (a + 1) * w
<1>1. a * w \in Int /\ b * w \in Int /\ a * w + w = (a + 1) * w
  OBVIOUS
<1>2. ASSUME a < b PROVE (a + 1) * w <= b * w
  <2>1. PICK d \in Nat : b = a + 1 + d
    <3>1. b - (a + 1) \in Nat
      BY <1>2
    <3> QED
      BY <3>1
  <2>2. b * w = (a + 1) * w + d * w
    BY <2>1
  <2>3. d * w \in Nat
    BY <2>1
  <2> QED
    BY <1>1, <2>2, <2>3
<1>3. a >= 0 => a * w >= 0
  OBVIOUS
<1> QED
  BY <1>1, <1>2, <1>3

LEMMA TimeWithinDay ==
  ASSUME NEW t \in Canonical
  PROVE  /\ t.second \in 0..Seconds - 1 /\ t.minute \in 0..Minutes - 1
         /\ t.hour \in 0..Hours - 1
         /\ t.minute * Seconds + t.second \in 0..(Minutes * Seconds) - 1
         /\ second_of_day(t) \in 0..DaySeconds - 1
<1>1. /\ t.second \in 0..Seconds - 1 /\ t.minute \in 0..Minutes - 1
      /\ t.hour \in 0..Hours - 1
  BY DEF Canonical, canonical_utc_seconds
<1>2. t.minute * Seconds + t.second \in 0..(Minutes * Seconds) - 1
  <2>1. 0 \in 0..Seconds - 1 /\ t.minute < Minutes /\ t.minute \in Int /\ Minutes \in Int
    BY <1>1, Scale
  <2>2. t.minute * Seconds + t.second < Minutes * Seconds + 0
    BY <1>1, <2>1, Scale, Place
  <2>3. t.minute * Seconds + t.second \in Int /\ t.minute * Seconds + t.second >= 0
    BY <1>1, <2>1, Scale, Place
  <2> QED
    BY <2>2, <2>3, Scale
<1>3. second_of_day(t) \in 0..DaySeconds - 1
  <2> DEFINE w == Minutes * Seconds
             r == t.minute * Seconds + t.second
  <2>1. /\ 0 \in 0..w - 1 /\ r \in 0..w - 1 /\ w \in Nat \ {0}
        /\ t.hour < Hours /\ t.hour >= 0 /\ t.hour \in Int /\ Hours \in Int
    BY <1>1, <1>2, Scale
  <2> HIDE DEF w, r
  <2>2. t.hour * w + r < Hours * w + 0 /\ t.hour * w + r \in Int /\ t.hour * w + r >= 0
    BY <2>1, Place
  <2> QED
    BY <2>2, Scale DEF second_of_day, DaySeconds, w, r
<1> QED
  BY <1>1, <1>2, <1>3

LEMMA TimesInOrder ==
  ASSUME NEW s \in Canonical, NEW t \in Canonical, TimeBefore(s, t)
  PROVE  second_of_day(s) < second_of_day(t)
<1> DEFINE w == Minutes * Seconds
           q == s.minute * Seconds + s.second
           r == t.minute * Seconds + t.second
<1>1. /\ q \in 0..w - 1 /\ r \in 0..w - 1 /\ w \in Nat \ {0}
      /\ s.hour \in Int /\ t.hour \in Int /\ s.minute \in Int /\ t.minute \in Int
      /\ s.second \in 0..Seconds - 1 /\ t.second \in 0..Seconds - 1
  BY TimeWithinDay, Scale
<1>2. second_of_day(s) = s.hour * w + q /\ second_of_day(t) = t.hour * w + r
  BY DEF second_of_day
<1>3. CASE s.hour < t.hour
  <2> HIDE DEF w, q, r
  <2> QED
    BY <1>1, <1>2, <1>3, Place
<1>4. s.hour = t.hour /\ q < r => second_of_day(s) < second_of_day(t)
  <2>1. s.hour * w \in Int
    BY <1>1
  <2> HIDE DEF w, q, r
  <2> QED
    BY <1>1, <1>2, <2>1
<1>5. s.minute < t.minute => q < r
  BY <1>1, Scale, Place
<1>6. s.minute = t.minute /\ s.second < t.second => q < r
  <2>1. s.minute * Seconds \in Int
    BY <1>1, Scale
  <2>2. s.second \in Int /\ t.second \in Int
    BY <1>1, Scale
  <2> QED
    BY <2>1, <2>2
<1> QED
  BY <1>3, <1>4, <1>5, <1>6 DEF TimeBefore

LEMMA SecondsInOrder ==
  ASSUME NEW s \in Canonical, NEW t \in Canonical
  PROVE  /\ seconds(s) \in Int
         /\ Before(s, t) => seconds(s) < seconds(t)
<1>1. /\ days_since_epoch(s) \in Int /\ days_since_epoch(t) \in Int
      /\ second_of_day(s) \in 0..DaySeconds - 1 /\ second_of_day(t) \in 0..DaySeconds - 1
  BY DaysByYear, TimeWithinDay DEF Canonical
<1>2. seconds(s) \in Int
  BY <1>1, Scale, Place DEF seconds
<1>3. CASE DateBefore(s, t)
  BY <1>1, <1>2, <1>3, DatesInOrder, Scale, Place DEF seconds
<1>4. CASE SameDate(s, t) /\ TimeBefore(s, t)
  <2>1. days_since_epoch(s) = days_since_epoch(t)
    BY <1>4 DEF SameDate, days_since_epoch, day_of_year, adjusted_year, adjusted_month
  <2>2. days_since_epoch(s) * DaySeconds \in Int
    BY <1>1, Scale
  <2> QED
    BY <1>1, <1>2, <1>4, <2>1, <2>2, TimesInOrder DEF seconds
<1> QED
  BY <1>2, <1>3, <1>4 DEF Before

\* Any two canonical texts are in order, or the same text.
LEMMA Trichotomy ==
  ASSUME NEW s \in Canonical, NEW t \in Canonical
  PROVE  Before(s, t) \/ Before(t, s) \/ s = t
<1>1. s \in Texts /\ t \in Texts
  BY DEF Canonical
<1>2. /\ s.year \in Int /\ t.year \in Int /\ s.month \in Int /\ t.month \in Int
      /\ s.day \in Int /\ t.day \in Int /\ s.hour \in Int /\ t.hour \in Int
      /\ s.minute \in Int /\ t.minute \in Int /\ s.second \in Int /\ t.second \in Int
  BY <1>1, TextFields
<1>3. SameDate(s, t) /\ s.hour = t.hour /\ s.minute = t.minute /\ s.second = t.second => s = t
  BY <1>1 DEF Texts, SameDate
<1> QED
  BY <1>2, <1>3 DEF Before, DateBefore, SameDate, TimeBefore
-----------------------------------------------------------------------------
(* The calendar's steps. *)

LEMMA LastDays ==
  ASSUME NEW t \in Texts, t.month \in 1..12
  PROVE  LastDay(t) = month_days(t.year, t.month)
<1>1. t.year \in Nat /\ t.year <= 9999
  BY TextFields
<1>2. /\ (\E n \in 0..2500 : t.year = 4 * n) <=> t.year % 4 = 0
      /\ (\E n \in 0..100 : t.year = 100 * n) <=> t.year % 100 = 0
      /\ (\E n \in 0..25 : t.year = 400 * n) <=> t.year % 400 = 0
  <2>1. t.year % 4 = 0 => t.year \div 4 \in 0..2500 /\ t.year = 4 * (t.year \div 4)
    BY <1>1
  <2>2. t.year % 100 = 0 => t.year \div 100 \in 0..100 /\ t.year = 100 * (t.year \div 100)
    BY <1>1
  <2>3. t.year % 400 = 0 => t.year \div 400 \in 0..25 /\ t.year = 400 * (t.year \div 400)
    BY <1>1
  <2>4. \A n \in Nat : /\ t.year = 4 * n => t.year % 4 = 0
                       /\ t.year = 100 * n => t.year % 100 = 0
                       /\ t.year = 400 * n => t.year % 400 = 0
    BY <1>1
  <2>5. (\E n \in 0..2500 : t.year = 4 * n) <=> t.year % 4 = 0
    <3>1. ASSUME t.year % 4 = 0 PROVE \E n \in 0..2500 : t.year = 4 * n
      <4> DEFINE q == t.year \div 4
      <4>1. q \in 0..2500 /\ t.year = 4 * q
        BY <2>1, <3>1
      <4> HIDE DEF q
      <4> QED
        BY <4>1
    <3>2. ASSUME NEW n \in 0..2500, t.year = 4 * n PROVE t.year % 4 = 0
      BY <2>4, <3>2
    <3> QED
      BY <3>1, <3>2
  <2>6. (\E n \in 0..100 : t.year = 100 * n) <=> t.year % 100 = 0
    BY <2>2, <2>4
  <2>7. (\E n \in 0..25 : t.year = 400 * n) <=> t.year % 400 = 0
    BY <2>3, <2>4
  <2> QED
    BY <2>5, <2>6, <2>7
<1>3. LeapDay(t) <=> t.month = 2 /\ leap(t.year)
  BY <1>2 DEF LeapDay, leap
<1>4. t.month \in {1, 2, 3, 4, 5, 6, 7, 8, 9, 10, 11, 12}
  OBVIOUS
<1> QED
  BY <1>3, <1>4 DEF LastDay, MonthLength, month_days

LEMMA MonthDays == \A y, m : month_days(y, m) \in 28..31
BY DEF month_days

LEMMA NextDayCounts ==
  ASSUME NEW t \in Canonical, NextDay(t).year <= 9999
  PROVE  /\ NextDay(t) \in Canonical
         /\ days_since_epoch(NextDay(t)) = days_since_epoch(t) + 1
         /\ second_of_day(NextDay(t)) = 0
<1>1. /\ t \in Texts /\ t.month \in 1..12 /\ t.day \in 1..month_days(t.year, t.month)
      /\ t.year \in Nat /\ t.month \in Nat /\ t.day \in Nat
      /\ LastDay(t) = month_days(t.year, t.month)
  BY TextFields, LastDays DEF Canonical, canonical_utc_seconds
<1>2. month_days(t.year, t.month) \in Nat
  BY MonthDays
<1>3. ASSUME NEW y \in Nat, NEW m \in 1..12, NEW d \in 1..month_days(y, m),
             NextDay(t) = Midnight(y, m, d)
      PROVE  NextDay(t) \in Canonical /\ second_of_day(NextDay(t)) = 0
  <2>1. d \in Nat /\ m \in Nat
    BY <1>3, MonthDays
  <2>2. NextDay(t) \in Texts
    BY <1>3, <2>1 DEF Midnight, Texts
  <2>3. canonical_utc_seconds(NextDay(t))
    <3>1. 0 \in 0..Hours - 1 /\ 0 \in 0..Minutes - 1 /\ 0 \in 0..Seconds - 1
      BY Scale
    <3>2. NextDay(t) # None
      BY <2>2, WindowAssumption
    <3> QED
      BY <1>3, <3>1, <3>2 DEF Midnight, canonical_utc_seconds
  <2>4. second_of_day(NextDay(t)) = 0
    BY <1>3, Scale DEF second_of_day, Midnight
  <2> QED
    BY <2>2, <2>3, <2>4 DEF Canonical
<1>4. CASE t.day < LastDay(t)
  <2>1. NextDay(t) = Midnight(t.year, t.month, t.day + 1)
    BY <1>4 DEF NextDay
  <2>2. t.day + 1 \in 1..month_days(t.year, t.month)
    BY <1>1, <1>2, <1>4
  <2>3. NextDay(t) \in Canonical /\ second_of_day(NextDay(t)) = 0
    BY <1>1, <1>3, <2>1, <2>2
  <2>4. /\ adjusted_year(NextDay(t)) = adjusted_year(t)
        /\ adjusted_month(NextDay(t)) = adjusted_month(t)
        /\ NextDay(t).day = t.day + 1
    BY <2>1 DEF Midnight, adjusted_year, adjusted_month
  <2>5. /\ adjusted_year(t) \in Int /\ adjusted_month(t) \in Int
        /\ YearStart(adjusted_year(t)) \in Int /\ MonthStart(adjusted_month(t)) \in Int
    BY <1>1, TextFields, YearLength DEF MonthStart
  <2> QED
    BY <1>1, <2>3, <2>4, <2>5, DaysByYear DEF Canonical
<1>5. CASE t.day = LastDay(t) /\ t.month < 12
  <2>1. NextDay(t) = Midnight(t.year, t.month + 1, 1)
    BY <1>1, <1>2, <1>5 DEF NextDay
  <2>2. t.month + 1 \in 1..12 /\ 1 \in 1..month_days(t.year, t.month + 1)
    BY <1>1, <1>5, MonthDays
  <2>3. NextDay(t) \in Canonical /\ second_of_day(NextDay(t)) = 0
    BY <1>1, <1>3, <2>1, <2>2
  <2>4. /\ NextDay(t).year = t.year /\ NextDay(t).month = t.month + 1 /\ NextDay(t).day = 1
    BY <2>1 DEF Midnight
  <2>5. adjusted_year(t) \in Int /\ YearStart(adjusted_year(t)) \in Int
    BY <1>1, TextFields, YearLength
  <2>6. CASE t.month # 2
    <3>1. /\ adjusted_year(NextDay(t)) = adjusted_year(t)
          /\ adjusted_month(NextDay(t)) = adjusted_month(t) + 1
      BY <1>1, <2>4, <2>6 DEF adjusted_year, adjusted_month
    <3>2. MonthStart(adjusted_month(t)) + month_days(t.year, t.month)
            = MonthStart(adjusted_month(t) + 1)
      <4>1. t.month \in {1, 3, 4, 5, 6, 7, 8, 9, 10, 11}
        BY <1>1, <1>5, <2>6
      <4> QED
        BY <4>1 DEF MonthStart, adjusted_month, month_days
    <3>3. adjusted_month(t) \in Int /\ MonthStart(adjusted_month(t)) \in Int
      BY <1>1, TextFields DEF MonthStart
    <3> QED
      BY <1>1, <1>2, <1>5, <2>3, <2>4, <2>5, <3>1, <3>2, <3>3, DaysByYear DEF Canonical
  <2>7. CASE t.month = 2
    <3>1. /\ adjusted_year(t) + 1 = t.year /\ adjusted_month(t) = 11
          /\ adjusted_year(NextDay(t)) = t.year /\ adjusted_month(NextDay(t)) = 0
      BY <1>1, <2>4, <2>7 DEF adjusted_year, adjusted_month
    <3>2. YearStart(t.year) - YearStart(adjusted_year(t)) = 337 + month_days(t.year, 2)
      <4>1. YearStart(t.year) - YearStart(adjusted_year(t))
              = 365 + IF leap(t.year) THEN 1 ELSE 0
        BY <2>5, <3>1, YearLength
      <4> QED
        BY <4>1 DEF month_days
    <3>3. MonthStart(0) = 0 /\ MonthStart(11) = 337
      BY DEF MonthStart
    <3>4. YearStart(t.year) \in Int
      BY <1>1, YearLength
    <3>5. /\ days_since_epoch(t) = YearStart(adjusted_year(t)) + 337 + t.day - 1 - 719468
          /\ days_since_epoch(NextDay(t)) = YearStart(t.year) + 0 + 1 - 1 - 719468
      BY <1>1, <2>3, <2>4, <2>5, <3>1, <3>3, <3>4, DaysByYear DEF Canonical
    <3> QED
      BY <1>1, <1>2, <1>5, <2>3, <2>5, <2>7, <3>2, <3>4, <3>5
  <2> QED
    BY <2>6, <2>7
<1>6. CASE t.day = LastDay(t) /\ t.month = 12
  <2>1. NextDay(t) = Midnight(t.year + 1, 1, 1)
    BY <1>1, <1>2, <1>6 DEF NextDay
  <2>2. t.year + 1 \in Nat /\ 1 \in 1..12 /\ 1 \in 1..month_days(t.year + 1, 1)
    BY <1>1, MonthDays
  <2>3. NextDay(t) \in Canonical /\ second_of_day(NextDay(t)) = 0
    BY <1>3, <2>1, <2>2
  <2>4. /\ adjusted_year(NextDay(t)) = adjusted_year(t)
        /\ adjusted_month(t) = 9 /\ adjusted_month(NextDay(t)) = 10
        /\ NextDay(t).day = 1 /\ t.day = 31
    BY <1>1, <1>6, <2>1 DEF Midnight, adjusted_year, adjusted_month, month_days
  <2>5. adjusted_year(t) \in Int /\ YearStart(adjusted_year(t)) \in Int
    BY <1>1, TextFields, YearLength
  <2>6. MonthStart(9) = 275 /\ MonthStart(10) = 306
    BY DEF MonthStart
  <2> QED
    BY <1>1, <2>3, <2>4, <2>5, <2>6, DaysByYear DEF Canonical
<1> QED
  BY <1>1, <1>2, <1>4, <1>5, <1>6

LEMMA NextSecondCounts ==
  ASSUME NEW t \in Canonical, NextSecond(t).year <= 9999
  PROVE  NextSecond(t) \in Canonical /\ seconds(NextSecond(t)) = seconds(t) + 1
<1>1. /\ t \in Texts /\ t.second \in 0..Seconds - 1 /\ t.minute \in 0..Minutes - 1
      /\ t.hour \in 0..Hours - 1
      /\ t.second \in Nat /\ t.minute \in Nat /\ t.hour \in Nat
  BY TimeWithinDay, TextFields DEF Canonical
<1>2. /\ days_since_epoch(t) \in Int /\ days_since_epoch(t) * DaySeconds \in Int
      /\ t.hour * (Minutes * Seconds) \in Int /\ t.minute * Seconds \in Int
  BY <1>1, DaysByYear, Scale
<1>3. ASSUME NEW h \in 0..Hours - 1, NEW m \in 0..Minutes - 1, NEW s \in 0..Seconds - 1,
             NextSecond(t) = AtTime(t, h, m, s)
      PROVE  /\ NextSecond(t) \in Canonical
             /\ seconds(NextSecond(t)) = days_since_epoch(t) * DaySeconds
                                           + (h * (Minutes * Seconds) + (m * Seconds + s))
  <2>1. h \in Nat /\ m \in Nat /\ s \in Nat
    BY Scale
  <2>2. NextSecond(t) \in Texts
    BY <1>1, <1>3, <2>1, TextFields DEF Texts, AtTime
  <2>3. /\ NextSecond(t).year = t.year /\ NextSecond(t).month = t.month
        /\ NextSecond(t).day = t.day /\ NextSecond(t).hour = h
        /\ NextSecond(t).minute = m /\ NextSecond(t).second = s
    BY <1>3 DEF AtTime
  <2>4. NextSecond(t) \in Canonical
    <3>1. NextSecond(t) # None
      BY <2>2, WindowAssumption
    <3> QED
      BY <2>2, <2>3, <3>1 DEF Canonical, canonical_utc_seconds
  <2>5. days_since_epoch(NextSecond(t)) = days_since_epoch(t)
    BY <2>3 DEF days_since_epoch, day_of_year, adjusted_year, adjusted_month
  <2> QED
    BY <2>3, <2>4, <2>5 DEF seconds, second_of_day
<1>4. seconds(t) = days_since_epoch(t) * DaySeconds
                     + (t.hour * (Minutes * Seconds) + (t.minute * Seconds + t.second))
  BY DEF seconds, second_of_day
<1>5. CASE t.second + 1 < Seconds
  <2>1. NextSecond(t) = AtTime(t, t.hour, t.minute, t.second + 1)
    BY <1>1, <1>5 DEF NextSecond
  <2>2. t.second + 1 \in 0..Seconds - 1
    BY <1>1, <1>5, Scale
  <2> QED
    BY <1>1, <1>2, <1>3, <1>4, <2>1, <2>2
<1>6. CASE t.second + 1 = Seconds /\ t.minute + 1 < Minutes
  <2>1. NextSecond(t) = AtTime(t, t.hour, t.minute + 1, 0)
    BY <1>1, <1>6, Scale DEF NextSecond
  <2>2. t.minute + 1 \in 0..Minutes - 1 /\ 0 \in 0..Seconds - 1
    BY <1>1, <1>6, Scale
  <2>3. (t.minute + 1) * Seconds + 0 = (t.minute * Seconds + t.second) + 1
    BY <1>1, <1>6, Scale
  <2> QED
    BY <1>1, <1>2, <1>3, <1>4, <2>1, <2>2, <2>3
<1>7. t.second + 1 = Seconds /\ t.minute + 1 = Minutes
        => t.minute * Seconds + t.second + 1 = Minutes * Seconds
  BY <1>1, Scale
<1>8. CASE t.second + 1 = Seconds /\ t.minute + 1 = Minutes /\ t.hour + 1 < Hours
  <2>1. NextSecond(t) = AtTime(t, t.hour + 1, 0, 0)
    BY <1>1, <1>8, Scale DEF NextSecond
  <2>2. t.hour + 1 \in 0..Hours - 1 /\ 0 \in 0..Minutes - 1 /\ 0 \in 0..Seconds - 1
    BY <1>1, <1>8, Scale
  <2> DEFINE w == Minutes * Seconds
  <2>3. (t.hour + 1) * w = t.hour * w + w /\ 0 * Seconds + 0 = 0 /\ w \in Int
    BY <1>1, Scale
  <2>4. seconds(NextSecond(t)) = days_since_epoch(t) * DaySeconds + ((t.hour + 1) * w + 0)
    BY <1>3, <2>1, <2>2, <2>3
  <2> HIDE DEF w
  <2>5. (t.hour + 1) * w + 0 = t.hour * w + (t.minute * Seconds + t.second) + 1
    BY <1>1, <1>2, <1>7, <1>8, <2>3 DEF w
  <2> QED
    BY <1>1, <1>2, <1>3, <1>4, <2>1, <2>2, <2>4, <2>5 DEF w
<1>9. CASE t.second + 1 = Seconds /\ t.minute + 1 = Minutes /\ t.hour + 1 = Hours
  <2>1. NextSecond(t) = NextDay(t)
    BY <1>1, <1>9, Scale DEF NextSecond
  <2>2. /\ NextDay(t) \in Canonical /\ second_of_day(NextDay(t)) = 0
        /\ days_since_epoch(NextDay(t)) = days_since_epoch(t) + 1
    BY <2>1, NextDayCounts
  <2>3. second_of_day(t) + 1 = DaySeconds
    <3> DEFINE w == Minutes * Seconds
    <3>1. w \in Int /\ t.hour * w + w = (t.hour + 1) * w
      BY <1>1, Scale
    <3> HIDE DEF w
    <3>2. t.hour * w + (t.minute * Seconds + t.second) + 1 = Hours * w
      BY <1>1, <1>2, <1>7, <1>9, <3>1 DEF w
    <3> QED
      BY <1>1, <1>2, <3>2 DEF second_of_day, DaySeconds, w
  <2>4. second_of_day(t) \in Int
    BY TimeWithinDay, Scale
  <2>5. (days_since_epoch(t) + 1) * DaySeconds = days_since_epoch(t) * DaySeconds + DaySeconds
    BY <1>2, Scale
  <2> QED
    BY <1>2, <2>1, <2>2, <2>3, <2>4, <2>5, Scale DEF seconds
<1> QED
  BY <1>1, <1>5, <1>6, <1>8, <1>9, Scale

-----------------------------------------------------------------------------
(* The walk. *)

\* The clock is at a canonical text that converts to what was counted, and an
\* issued policy remembers both and was judged by the validation.
IInv ==
  /\ now \in Canonical
  /\ elapsed = seconds(now)
  /\ left \in 0..MaxDays
  /\ policy # None =>
       /\ policy \in PolicyType
       /\ policy.on \in Canonical /\ policy.issued = seconds(policy.on)
       /\ policy.accepted <=> InWindow(policy.issued, policy.until)

LEMMA InitRight == Init => IInv
<1> SUFFICES ASSUME Init PROVE IInv
  OBVIOUS
<1>1. PICK a \in KnownDays : now = a.date /\ elapsed = a.days * DaySeconds
  BY WindowAssumption DEF Init
<1>2. /\ a.date.year \in Nat /\ a.date.year <= 9999
      /\ a.date.month \in 1..12 /\ a.date.month \in Nat /\ a.date.day \in Nat
      /\ a.date.day \in 1..month_days(a.date.year, a.date.month)
      /\ a.date = Midnight(a.date.year, a.date.month, a.date.day)
      /\ days_since_epoch(a.date) = a.days
  BY DEF KnownDays, month_days, leap, days_since_epoch, day_of_year, adjusted_year,
    adjusted_month, Midnight
<1>3. now \in Canonical /\ second_of_day(now) = 0
  <2>2. now \in Texts
    BY <1>1, <1>2 DEF Midnight, Texts
  <2>3. 0 \in 0..Hours - 1 /\ 0 \in 0..Minutes - 1 /\ 0 \in 0..Seconds - 1 /\ now # None
    BY <2>2, Scale, WindowAssumption
  <2> QED
    BY <1>1, <1>2, <2>2, <2>3, Scale
    DEF Midnight, Canonical, canonical_utc_seconds, second_of_day
<1>4. days_since_epoch(now) * DaySeconds \in Int
  BY <1>3, DaysByYear, Scale DEF Canonical
<1>5. elapsed = seconds(now)
  BY <1>1, <1>2, <1>3, <1>4 DEF seconds
<1> QED
  BY <1>3, <1>5, WindowAssumption DEF Init, IInv

LEMMA Invariance == Spec => []IInv
<1>1. Init => IInv
  BY InitRight
<1>2. IInv /\ [Next]_vars => IInv'
  <2> SUFFICES ASSUME IInv, [Next]_vars PROVE IInv'
    OBVIOUS
  <2>1. elapsed \in Int
    BY SecondsInOrder DEF IInv
  <2>2. CASE Tick
    <3>1. now' \in Canonical /\ seconds(now') = seconds(now) + 1
      BY <2>2, NextSecondCounts DEF Tick, IInv
    <3>2. elapsed' = seconds(now')
      BY <2>2, <3>1 DEF Tick, IInv
    <3>3. left' \in 0..MaxDays
      BY <2>2, WindowAssumption DEF Tick, IInv
    <3> QED
      BY <2>2, <3>1, <3>2, <3>3 DEF Tick, IInv
  <2>3. ASSUME NEW until \in Untils, Issue(until) PROVE IInv'
    <3>1. policy' = [on |-> now, issued |-> elapsed, until |-> until,
                     accepted |-> InWindow(elapsed, until)]
      BY <2>3 DEF Issue
    <3>2. elapsed \in Nat /\ InWindow(elapsed, until) \in BOOLEAN /\ now \in Texts
      BY <2>1, <2>3 DEF Issue, InWindow, IInv, Canonical
    <3>3. policy' \in PolicyType
      BY <3>1, <3>2 DEF PolicyType
    <3>4. /\ policy'.on = now /\ policy'.issued = elapsed /\ policy'.until = until
          /\ policy'.accepted = InWindow(elapsed, until)
      BY <3>1
    <3> QED
      BY <2>3, <3>3, <3>4 DEF Issue, IInv
  <2>4. CASE UNCHANGED vars
    BY <2>4 DEF vars, IInv
  <2> QED
    BY <2>2, <2>3, <2>4 DEF Next
<1> QED
  BY <1>1, <1>2, PTL DEF Spec

\* What the validation means for an issued policy.
LEMMA Judged ==
  ASSUME IInv, policy # None
  PROVE  /\ policy.issued \in Int /\ policy.accepted \in BOOLEAN
         /\ elapsed = seconds(now) /\ elapsed \in Int
         /\ policy.accepted =>
              /\ policy.until \in Canonical /\ seconds(policy.until) \in Int
              /\ seconds(policy.until) > policy.issued
              /\ seconds(policy.until) - policy.issued <= MaxWindow
<1>1. /\ policy.issued \in Int /\ policy.accepted \in BOOLEAN /\ policy.until \in Untils
  BY DEF IInv, PolicyType
<1>2. elapsed = seconds(now) /\ elapsed \in Int
  BY SecondsInOrder DEF IInv
<1>3. ASSUME policy.accepted PROVE policy.until \in Canonical /\ InWindow(policy.issued, policy.until)
  <2>1. InWindow(policy.issued, policy.until)
    BY <1>3 DEF IInv
  <2>2. policy.until \in Texts
    BY <1>1, <2>1, WindowAssumption DEF InWindow, canonical_utc_seconds
  <2> QED
    BY <2>1, <2>2 DEF InWindow, Canonical
<1> QED
  BY <1>1, <1>2, <1>3, SecondsInOrder DEF InWindow

LEMMA TypesHold == IInv => TypeOK
BY SecondsInOrder DEF IInv, TypeOK, Canonical

LEMMA BoundedFromInv == IInv => WindowIsBounded
<1> SUFFICES ASSUME IInv, policy # None, policy.accepted
             PROVE  /\ Before(policy.on, policy.until)
                    /\ Before(now, policy.until) => elapsed - policy.issued < MaxWindow
  BY DEF WindowIsBounded
<1>1. /\ policy.on \in Canonical /\ policy.issued = seconds(policy.on)
      /\ policy.until \in Canonical /\ now \in Canonical
      /\ policy.issued \in Int /\ seconds(policy.until) \in Int /\ elapsed \in Int
      /\ seconds(policy.until) > policy.issued /\ elapsed = seconds(now)
      /\ seconds(policy.until) - policy.issued <= MaxWindow
  BY Judged DEF IInv
<1>2. Before(policy.on, policy.until)
  <2>1. policy.on # policy.until
    BY <1>1
  <2>2. ~Before(policy.until, policy.on)
    BY <1>1, SecondsInOrder
  <2> QED
    BY <1>1, <2>1, <2>2, Trichotomy
<1>3. ASSUME Before(now, policy.until) PROVE elapsed - policy.issued < MaxWindow
  <2>1. elapsed < seconds(policy.until)
    BY <1>1, <1>3, SecondsInOrder
  <2> QED
    BY <1>1, <2>1, WindowAssumption
<1> QED
  BY <1>2, <1>3

LEMMA EndFromInv == IInv => WindowEndExists
<1> SUFFICES ASSUME IInv, policy # None, policy.accepted, elapsed = seconds(policy.until)
             PROVE  now = policy.until
  BY DEF WindowEndExists
<1>1. /\ now \in Canonical /\ policy.until \in Canonical
      /\ seconds(now) = seconds(policy.until) /\ seconds(now) \in Int
  BY Judged DEF IInv
<1>2. ~Before(now, policy.until) /\ ~Before(policy.until, now)
  BY <1>1, SecondsInOrder
<1> QED
  BY <1>1, <1>2, Trichotomy

LEMMA AdmittedFromInv == IInv => NoWindowRefused
<1> SUFFICES ASSUME IInv, policy # None, now = policy.until,
                    elapsed - policy.issued \in 1..MaxWindow
             PROVE  policy.accepted
  BY DEF NoWindowRefused
<1>1. /\ policy.issued \in Nat /\ elapsed = seconds(policy.until) /\ elapsed \in Int
      /\ canonical_utc_seconds(policy.until)
  BY Judged DEF IInv, Canonical, PolicyType
<1>2. InWindow(policy.issued, policy.until)
  BY <1>1, WindowAssumption DEF InWindow
<1> QED
  BY <1>2 DEF IInv

\* The clock never leaves the texts the validation accepts: no day of the
\* calendar is missing from it.
THEOREM WindowTypeCorrect == Spec => []TypeOK
BY Invariance, TypesHold, PTL

\* From any of the known dates on, whatever the scale of a day, the arithmetic
\* counts one second for every second of the calendar.
THEOREM DatesAreCounted == Spec => []DateIsCounted
<1>1. IInv => DateIsCounted
  BY DEF IInv, DateIsCounted
<1> QED
  BY Invariance, <1>1, PTL

\* Accepted windows end after their policy was issued and within the longest
\* window, by the dates as written.
THEOREM WindowsAreBounded == Spec => []WindowIsBounded
BY Invariance, BoundedFromInv, PTL

\* Accepted windows end at a moment of the calendar.
THEOREM WindowEndsExist == Spec => []WindowEndExists
BY Invariance, EndFromInv, PTL

\* No window of a proper length is refused.
THEOREM ProperWindowsAccepted == Spec => []NoWindowRefused
BY Invariance, AdmittedFromInv, PTL

-----------------------------------------------------------------------------
(* Sorting the names of tools.                                             *)

\* Every set of natural numbers has a least element.
LEMMA LeastNatural ==
  ASSUME NEW T \in SUBSET Nat, T # {}
  PROVE  \E n \in T : \A m \in T : ~(m < n)
<1>1. \E n \in T : \A m \in T : ~(<<m, n>> \in OpToRel(<, Nat))
  BY NatLessThanWellFounded, WFMin
<1> QED
  BY <1>1 DEF OpToRel

\* A set that holds a number once it holds all smaller ones holds them all.
LEMMA Descent ==
  ASSUME NEW G, \A n \in Nat : (\A m \in Nat : m < n => m \in G) => n \in G
  PROVE  Nat \subseteq G
<1> DEFINE T == {n \in Nat : n \notin G}
<1>1. SUFFICES ASSUME T # {} PROVE FALSE
  OBVIOUS
<1>2. PICK n \in T : \A m \in T : ~(m < n)
  BY <1>1, LeastNatural
<1> QED
  BY <1>2

\* A function on 1..n is a sequence of length n.
LEMMA SequenceLength ==
  ASSUME NEW S, NEW n \in Nat, NEW s \in [1..n -> S]
  PROVE  s \in Seq(S) /\ Len(s) = n
OBVIOUS

\* s lists S in increasing order.
Enumerates(s, S) == s \in [1..Cardinality(S) -> S] /\ Range(s) = S /\ Increasing(s)

\* A least name comes before the other ones.
LEMMA EnumerationExtends ==
  ASSUME NEW S \in SUBSET Nat, NEW n \in Nat, NEW x \in S, NEW t,
         Cardinality(S) = n + 1, Cardinality(S \ {x}) = n,
         \A y \in S : ~(y < x),
         Enumerates(t, S \ {x})
  PROVE  \E s : Enumerates(s, S)
<1> DEFINE s == [i \in 1..n + 1 |-> IF i = 1 THEN x ELSE t[i - 1]]
<1>1. t \in [1..n -> S \ {x}] /\ Range(t) = S \ {x} /\ Increasing(t) /\ Len(t) = n
  <2>1. t \in [1..n -> S \ {x}] /\ Range(t) = S \ {x} /\ Increasing(t)
    BY DEF Enumerates
  <2> QED
    BY <2>1, SequenceLength
<1>2. s \in [1..n + 1 -> S] /\ Len(s) = n + 1
  <2>1. s \in [1..n + 1 -> S] /\ n + 1 \in Nat
    BY <1>1
  <2> HIDE DEF s
  <2> QED
    BY <2>1, SequenceLength
<1>3. Range(s) = S
  <2>1. ASSUME NEW y \in S PROVE \E i \in 1..n + 1 : s[i] = y
    <3>1. CASE y = x
      <4>1. 1 \in 1..n + 1
        OBVIOUS
      <4> QED
        BY <3>1, <4>1
    <3>2. CASE y # x
      <4>1. PICK j \in 1..n : t[j] = y
        BY <1>1, <3>2 DEF Range
      <4>2. j + 1 \in 1..n + 1 /\ s[j + 1] = y
        BY <4>1
      <4> QED
        BY <4>2
    <3> QED
      BY <3>1, <3>2
  <2> HIDE DEF s
  <2> QED
    BY <1>2, <2>1 DEF Range
<1>4. Increasing(s)
  <2> SUFFICES ASSUME NEW i \in 1..n PROVE s[i] < s[i + 1]
    <3>1. Len(s) - 1 = n
      BY <1>2
    <3> HIDE DEF s
    <3> QED
      BY <3>1 DEF Increasing
  <2>1. CASE i = 1
    <3>1. s[i] = x /\ s[i + 1] = t[1] /\ t[1] \in S \ {x}
      BY <1>1, <2>1
    <3>2. t[1] \in Nat /\ x \in Nat /\ t[1] # x /\ ~(t[1] < x)
      BY <3>1
    <3> QED
      BY <3>1, <3>2
  <2>2. CASE i # 1
    <3>1. s[i] = t[i - 1] /\ s[i + 1] = t[i] /\ i - 1 \in 1..Len(t) - 1 /\ (i - 1) + 1 = i
      BY <1>1, <2>2
    <3> QED
      BY <1>1, <3>1 DEF Increasing
  <2> QED
    BY <2>1, <2>2
<1> HIDE DEF s
<1>5. Enumerates(s, S)
  BY <1>2, <1>3, <1>4 DEF Enumerates
<1> QED
  BY <1>5

\* Every finite set of names can be sorted.
LEMMA SortedIs ==
  ASSUME NEW S \in SUBSET Nat, IsFiniteSet(S)
  PROVE  Enumerates(sorted(S), S)
<1> DEFINE G == {n \in Nat : \A T \in SUBSET Nat :
                   IsFiniteSet(T) /\ Cardinality(T) = n => \E s : Enumerates(s, T)}
<1>1. ASSUME NEW n \in Nat, \A m \in Nat : m < n => m \in G PROVE n \in G
  <2> SUFFICES ASSUME NEW T \in SUBSET Nat, IsFiniteSet(T), Cardinality(T) = n
               PROVE  \E s : Enumerates(s, T)
    OBVIOUS
  <2>1. CASE T = {}
    <3>1. n = 0 /\ 1..n = {}
      BY <2>1, FS_EmptySet
    <3>2. Enumerates(<<>>, T)
      BY <2>1, <3>1 DEF Enumerates, Range, Increasing
    <3> QED
      BY <3>2
  <2>2. CASE T # {}
    <3>1. PICK x \in T : \A y \in T : ~(y < x)
      BY <2>2, LeastNatural
    <3> DEFINE U == T \ {x}
    <3>2. IsFiniteSet(U) /\ Cardinality(U) = n - 1 /\ U \in SUBSET Nat
      BY FS_RemoveElement
    <3>3. Cardinality(U) \in Nat
      BY <3>2, FS_CardinalityType
    <3>4. n - 1 \in G
      <4>1. n - 1 \in Nat /\ n - 1 < n
        BY <3>2, <3>3
      <4> HIDE DEF G
      <4> QED
        BY <4>1, <1>1
    <3>5. PICK t : Enumerates(t, U)
      BY <3>2, <3>4
    <3>6. n = (n - 1) + 1 /\ n - 1 \in Nat
      BY <3>2, <3>3
    <3> QED
      BY <3>1, <3>2, <3>5, <3>6, EnumerationExtends
  <2> QED
    BY <2>1, <2>2
<1>2. Nat \subseteq G
  <2> HIDE DEF G
  <2> QED
    BY <1>1, Descent
<1>3. Cardinality(S) \in Nat
  BY FS_CardinalityType
<1>4. \E s : Enumerates(s, S)
  BY <1>2, <1>3
<1>5. \E s \in [1..Cardinality(S) -> S] : Range(s) = S /\ Increasing(s)
  BY <1>4 DEF Enumerates
<1> QED
  BY <1>5 DEF Enumerates, sorted

\* A list has no more names than it is long.
LEMMA RangeIsNoLonger ==
  ASSUME NEW S, NEW w \in Seq(S)
  PROVE  /\ IsFiniteSet(Range(w)) /\ Range(w) \subseteq S
         /\ Cardinality(Range(w)) \in Nat /\ Cardinality(Range(w)) <= Len(w)
<1>1. Len(w) \in Nat /\ w \in [1..Len(w) -> S] /\ DOMAIN w = 1..Len(w)
  OBVIOUS
<1>2. Range(w) \subseteq S
  BY <1>1 DEF Range
<1>3. w \in Surjection(1..Len(w), Range(w))
  BY <1>1 DEF Range, Surjection
<1>4. IsFiniteSet(1..Len(w)) /\ Cardinality(1..Len(w)) = Len(w)
  BY <1>1, FS_Interval
<1>5. IsFiniteSet(Range(w)) /\ Cardinality(Range(w)) <= Len(w)
  BY <1>3, <1>4, FS_Surjection
<1> QED
  BY <1>2, <1>5, FS_CardinalityType

\* The length of the sorted union counts a name that is in both lists once, so
\* that lists with such a name are longer together.
LEMMA CoveragePartitions ==
  ASSUME NEW p \in Drafts, Coverage(p)
  PROVE  LET W == Range(Given(p.web_fetch_tools))
             H == Range(Given(p.http_tools))
         IN  Range(p.covered_tools) = W \cup H /\ W \cap H = {}
<1> DEFINE w == Given(p.web_fetch_tools)
           h == Given(p.http_tools)
           W == Range(w)
           H == Range(h)
<1>1. w \in Seq(Nat) /\ h \in Seq(Nat)
  <2>1. p \in DraftType /\ Names \subseteq Nat
    BY PolicyAssumption
  <2>2. p.web_fetch_tools \in Seq(Names) \cup {None} /\ p.http_tools \in Seq(Names) \cup {None}
    BY <2>1 DEF DraftType
  <2>3. Seq(Names) \subseteq Seq(Nat)
    <3> SUFFICES ASSUME NEW s \in Seq(Names) PROVE s \in Seq(Nat)
      OBVIOUS
    <3>1. Len(s) \in Nat /\ s \in [1..Len(s) -> Names]
      OBVIOUS
    <3>2. s \in [1..Len(s) -> Nat]
      BY <2>1, <3>1
    <3> QED
      BY <3>1, <3>2, SequenceLength
  <2> QED
    BY <2>2, <2>3, <<>> \in Seq(Nat) DEF Given
<1>2. /\ union(p) = sorted(W \cup H)
      /\ Len(union(p)) = Len(w) + Len(h)
      /\ union(p) = p.covered_tools
  BY DEF Coverage, union
<1> HIDE DEF w, h
<1>3. /\ IsFiniteSet(W) /\ Cardinality(W) \in Nat /\ Cardinality(W) <= Len(w) /\ W \subseteq Nat
      /\ IsFiniteSet(H) /\ Cardinality(H) \in Nat /\ Cardinality(H) <= Len(h) /\ H \subseteq Nat
      /\ Len(w) \in Nat /\ Len(h) \in Nat
  BY <1>1, RangeIsNoLonger
<1> HIDE DEF W, H
<1>4. /\ IsFiniteSet(W \cup H)
      /\ Cardinality(W \cup H) = Cardinality(W) + Cardinality(H) - Cardinality(W \cap H)
  BY <1>3, FS_Union
<1>5. IsFiniteSet(W \cap H) /\ Cardinality(W \cap H) \in Nat /\ Cardinality(W \cup H) \in Nat
  BY <1>3, <1>4, FS_Intersection, FS_CardinalityType
<1>6. Enumerates(sorted(W \cup H), W \cup H)
  BY <1>3, <1>4, SortedIs
<1>7. Len(sorted(W \cup H)) = Cardinality(W \cup H) /\ Range(sorted(W \cup H)) = W \cup H
  <2>1. /\ sorted(W \cup H) \in [1..Cardinality(W \cup H) -> W \cup H]
        /\ Range(sorted(W \cup H)) = W \cup H
    BY <1>6 DEF Enumerates
  <2> QED
    BY <2>1, <1>5, SequenceLength
<1>8. Cardinality(W \cap H) = 0
  BY <1>2, <1>3, <1>4, <1>5, <1>7
<1>9. W \cap H = {}
  BY <1>5, <1>8, FS_EmptySet
<1> QED
  BY <1>2, <1>7, <1>9 DEF W, H, w, h

-----------------------------------------------------------------------------
(* Policies.                                                               *)

\* A policy that passed the validation has the coverage the validation requires.
PolicyInv == valid => compiled \in Drafts /\ Coverage(compiled)

\* Issuing keeps it, and nothing else touches a policy.
LEMMA PolicyInvariance == PolicySpec => []PolicyInv
<1>1. PolicyInit => PolicyInv
  BY DEF PolicyInit, PolicyInv
<1>2. PolicyInv /\ [PolicyNext]_policyVars => PolicyInv'
  <2> SUFFICES ASSUME PolicyInv, [PolicyNext]_policyVars PROVE PolicyInv'
    OBVIOUS
  <2>1. ASSUME NEW p \in Drafts, IssuePolicy(p) PROVE PolicyInv'
    BY <2>1 DEF IssuePolicy, validate, PolicyInv
  <2>2. CASE UNCHANGED <<compiled, valid>>
    BY <2>2 DEF PolicyInv
  <2> QED
    BY <2>1, <2>2 DEF PolicyNext, policyVars
<1> QED
  BY <1>1, <1>2, PTL DEF PolicySpec

\* Every way of issuing a policy issues its observe window, so that what holds of
\* the windows holds of the windows of policies.
THEOREM PolicyImplementsWindow == PolicySpec => Spec
<1>1. PolicyInit => Init
  BY DEF PolicyInit
<1>2. [PolicyNext]_policyVars => [Next]_vars
  <2> SUFFICES ASSUME [PolicyNext]_policyVars PROVE [Next]_vars
    OBVIOUS
  <2>1. ASSUME NEW p \in Drafts, IssuePolicy(p) PROVE Next
    <3>1. p.observe \in [classes : Seq(Classes), until : Untils] \cup {None} /\ None \in Untils
      BY PolicyAssumption DEF DraftType
    <3>2. (IF p.observe = None THEN None ELSE p.observe.until) \in Untils
      BY <3>1
    <3> QED
      BY <2>1, <3>2 DEF IssuePolicy, Next
  <2>2. CASE UNCHANGED policyVars
    BY <2>2 DEF policyVars, vars
  <2> QED
    BY <2>1, <2>2 DEF PolicyNext, Next
<1> QED
  BY <1>1, <1>2, PTL DEF PolicySpec, Spec

\* A valid policy covers each of its tools in exactly one of the two ways, for
\* lists of any length: comparing lengths and one sorted list is enough.
THEOREM CoverageIsPartition == PolicySpec => []CoverageIsAPartition
<1>1. PolicyInv => CoverageIsAPartition
  <2> SUFFICES ASSUME PolicyInv, valid
               PROVE  LET c == compiled.covered_tools
                          W == Range(Given(compiled.web_fetch_tools))
                          H == Range(Given(compiled.http_tools))
                      IN  /\ \A i \in DOMAIN c : c[i] \in W <=> c[i] \notin H
                          /\ W \cup H \subseteq Range(c)
    BY DEF CoverageIsAPartition
  <2> DEFINE c == compiled.covered_tools
             W == Range(Given(compiled.web_fetch_tools))
             H == Range(Given(compiled.http_tools))
  <2>1. Range(c) = W \cup H /\ W \cap H = {}
    BY CoveragePartitions DEF PolicyInv
  <2>2. \A i \in DOMAIN c : c[i] \in Range(c)
    BY DEF Range
  <2> HIDE DEF c, W, H
  <2>3. \A i \in DOMAIN c : c[i] \in W <=> c[i] \notin H
    BY <2>1, <2>2
  <2> QED
    BY <2>1, <2>3 DEF c, W, H
<1> QED
  BY <1>1, PolicyInvariance, PTL
=============================================================================
