---------------------------- MODULE ObserveWindow ----------------------------
(***************************************************************************)
(* The observe window of a format-2 response policy: it is written as a    *)
(* UTC text, converted to seconds by the calendar arithmetic of            *)
(* response_wire.rs, and must end after the policy was issued and within   *)
(* max_observe_window_seconds.                                             *)
(*                                                                         *)
(* The world's calendar walks second by second beside that arithmetic and  *)
(* never converts anything.  A text is its six numbers; texts of another   *)
(* form are None.  Hours, Minutes and Seconds (24, 60, 60) may be scaled.  *)
(***************************************************************************)
EXTENDS Integers

CONSTANTS
  Hours, Minutes, Seconds,  \* of a day, an hour, a minute
  MaxWindow,                \* bounds.max_observe_window_seconds, 30 days
  Anchors,                  \* dates from which the walk starts, see KnownDays
  MaxDays,                  \* bound on the walk from an anchor
  Untils,                   \* texts an issuer may write
  None                      \* a text of another form; no policy

DaySeconds == Hours * (Minutes * Seconds)

\* Texts of the right form; the year has four digits.
Texts ==
  {t \in [year : Nat, month : Nat, day : Nat, hour : Nat, minute : Nat, second : Nat] :
     t.year <= 9999}

Midnight(y, m, d) ==
  [year |-> y, month |-> m, day |-> d, hour |-> 0, minute |-> 0, second |-> 0]

AtTime(t, h, m, s) ==
  [year |-> t.year, month |-> t.month, day |-> t.day, hour |-> h, minute |-> m, second |-> s]

VARIABLES
  now,      \* the date and time
  elapsed,  \* seconds since 1970, counted one by one
  left,     \* bound: days left to walk
  policy    \* a policy issued, see PolicyType, or None

vars == <<now, elapsed, left, policy>>

-----------------------------------------------------------------------------
(* The arithmetic of response_wire.rs. *)

\* Seeded fault: centuries are leap years.
leap_julian(year) == year % 4 = 0

leap(year) == year % 4 = 0 /\ (year % 100 # 0 \/ year % 400 = 0)

month_days(year, month) ==
  CASE month = 2 -> IF leap(year) THEN 29 ELSE 28
    [] month \in {4, 6, 9, 11} -> 30
    [] OTHER -> 31

canonical_utc_seconds(t) ==
  /\ t # None
  /\ t.month \in 1..12
  /\ t.day \in 1..month_days(t.year, t.month)
  /\ t.hour \in 0..Hours - 1
  /\ t.minute \in 0..Minutes - 1
  /\ t.second \in 0..Seconds - 1

\* Seeded fault: February counts to the year it is written in.
adjusted_year_january(t) == IF t.month < 2 THEN t.year - 1 ELSE t.year

\* Years begin in March, so that the leap day is the last.
adjusted_year(t) == IF t.month <= 2 THEN t.year - 1 ELSE t.year

adjusted_month(t) == IF t.month > 2 THEN t.month - 3 ELSE t.month + 9

day_of_year(t) == (153 * adjusted_month(t) + 2) \div 5 + t.day - 1

days_since_epoch(t) ==
  LET era         == adjusted_year(t) \div 400
      year_of_era == adjusted_year(t) - era * 400
  IN era * 146097 + year_of_era * 365 + year_of_era \div 4 - year_of_era \div 100
       + day_of_year(t) - 719468

second_of_day(t) == t.hour * (Minutes * Seconds) + (t.minute * Seconds + t.second)

\* Of a canonical text; a negative one is refused by the caller.
seconds(t) == days_since_epoch(t) * DaySeconds + second_of_day(t)

\* Seeded fault: the window is measured from the day of issue.
InWindow_by_day(issued, until) ==
  /\ canonical_utc_seconds(until)
  /\ seconds(until) > issued
  /\ days_since_epoch(until) * DaySeconds <= issued + MaxWindow

\* Seeded fault: a window of exactly the longest length is refused.
InWindow_strict(issued, until) ==
  /\ canonical_utc_seconds(until)
  /\ seconds(until) > issued
  /\ seconds(until) - issued < MaxWindow

\* The observe part of validate, for a policy issued at a given second.
InWindow(issued, until) ==
  /\ canonical_utc_seconds(until)
  /\ seconds(until) >= 0
  /\ seconds(until) > issued
  /\ seconds(until) - issued <= MaxWindow

-----------------------------------------------------------------------------
(* The world's calendar. *)

\* The months of a common year, and the Gregorian rule for the other ones.
MonthLength == <<31, 28, 31, 30, 31, 30, 31, 31, 30, 31, 30, 31>>

LeapDay(t) ==
  /\ t.month = 2
  /\ \E n \in 0..2500 : t.year = 4 * n
  /\ (\E n \in 0..100 : t.year = 100 * n) => \E n \in 0..25 : t.year = 400 * n

LastDay(t) == MonthLength[t.month] + IF LeapDay(t) THEN 1 ELSE 0

NextDay(t) ==
  IF t.day < LastDay(t) THEN Midnight(t.year, t.month, t.day + 1)
  ELSE IF t.month < 12 THEN Midnight(t.year, t.month + 1, 1)
  ELSE Midnight(t.year + 1, 1, 1)

NextSecond(t) ==
  IF t.second + 1 < Seconds THEN AtTime(t, t.hour, t.minute, t.second + 1)
  ELSE IF t.minute + 1 < Minutes THEN AtTime(t, t.hour, t.minute + 1, 0)
  ELSE IF t.hour + 1 < Hours THEN AtTime(t, t.hour + 1, 0, 0)
  ELSE NextDay(t)

\* Dates in the order of their digits, which is how people read them.
DateBefore(s, t) ==
  \/ s.year < t.year
  \/ s.year = t.year /\ s.month < t.month
  \/ s.year = t.year /\ s.month = t.month /\ s.day < t.day

SameDate(s, t) == s.year = t.year /\ s.month = t.month /\ s.day = t.day

TimeBefore(s, t) ==
  \/ s.hour < t.hour
  \/ s.hour = t.hour /\ s.minute < t.minute
  \/ s.hour = t.hour /\ s.minute = t.minute /\ s.second < t.second

Before(s, t) == DateBefore(s, t) \/ (SameDate(s, t) /\ TimeBefore(s, t))

\* Days since 1970 of dates people have counted.
KnownDays ==
  {[date |-> Midnight(0, 1, 1), days |-> -719528],
   [date |-> Midnight(1600, 2, 28), days |-> -135082],
   [date |-> Midnight(1969, 12, 30), days |-> -2],
   [date |-> Midnight(1970, 1, 1), days |-> 0],
   [date |-> Midnight(2000, 2, 27), days |-> 11014],
   [date |-> Midnight(2023, 12, 30), days |-> 19721],
   [date |-> Midnight(2024, 2, 27), days |-> 19780],
   [date |-> Midnight(2100, 2, 26), days |-> 47538],
   [date |-> Midnight(9999, 12, 30), days |-> 2932895]}

PolicyType ==
  [on : Texts, issued : Nat, until : Untils, accepted : BOOLEAN]

ASSUME WindowAssumption ==
  /\ {Hours, Minutes, Seconds} \subseteq 1..99
  /\ MaxWindow \in Nat
  /\ MaxDays \in Nat
  /\ Anchors \subseteq KnownDays
  /\ Untils \subseteq Texts \cup {None}
  /\ None \notin Texts

-----------------------------------------------------------------------------
TypeOK ==
  /\ now \in Texts /\ canonical_utc_seconds(now)
  /\ elapsed \in Int
  /\ left \in 0..MaxDays
  /\ policy # None => policy \in PolicyType

Init ==
  /\ \E a \in Anchors : now = a.date /\ elapsed = a.days * DaySeconds
  /\ left = MaxDays
  /\ policy = None

\* External: time passes, in years of four digits.
Tick ==
  /\ NextSecond(now).year <= 9999
  /\ \/ NextSecond(now).day = now.day /\ UNCHANGED left
     \/ NextSecond(now).day # now.day /\ left > 0 /\ left' = left - 1
  /\ now' = NextSecond(now)
  /\ elapsed' = elapsed + 1
  /\ UNCHANGED policy

\* A policy is issued now, and validated by canonical_bytes or the parser.
Issue(until) ==
  /\ policy = None
  /\ elapsed >= 0
  /\ policy' = [on |-> now, issued |-> elapsed, until |-> until,
                accepted |-> InWindow(elapsed, until)]
  /\ UNCHANGED <<now, elapsed, left>>

Next == Tick \/ \E until \in Untils : Issue(until)

Spec == Init /\ [][Next]_vars

-----------------------------------------------------------------------------
(* Properties. *)

\* The arithmetic never drifts from the calendar: across month ends, leap days,
\* centuries and the turn of an era, the text of a moment converts to the
\* seconds counted one by one.
DateIsCounted == elapsed = seconds(now)

\* Whoever reads the dates of an accepted policy finds a window that ends after
\* the policy was issued, and that is over when the longest window is.
WindowIsBounded ==
  policy # None /\ policy.accepted =>
    /\ Before(policy.on, policy.until)
    /\ Before(now, policy.until) => elapsed - policy.issued < MaxWindow

\* An accepted window ends at a moment the calendar has: when as many seconds
\* have passed as its text converts to, the date is that text.
WindowEndExists ==
  policy # None /\ policy.accepted /\ elapsed = seconds(policy.until) => now = policy.until

\* No proper window is refused: a text that came true within the longest window
\* had been accepted.
NoWindowRefused ==
  policy # None /\ now = policy.until
    /\ elapsed - policy.issued \in 1..MaxWindow => policy.accepted

=============================================================================
