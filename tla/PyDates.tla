------------------------------ MODULE PyDates ------------------------------
(***************************************************************************)
(* datetime.date as src/py.rs ports it: the proleptic Gregorian calendar,  *)
(* ordinals, and the texts that fromisoformat reads.  A text is the record *)
(* of its numbers and its form: YYYY-MM-DD, YYYYMMDD, YYYY-Www-D, YYYY-Www *)
(* and so on; what the property needs of its characters is their number    *)
(* and how they sort.                                                      *)
(***************************************************************************)
EXTENDS Integers

MaxYear == 9999

IsLeap(year) == year % 4 = 0 /\ (year % 100 # 0 \/ year % 400 = 0)

DaysInMonth(year, month) ==
    CASE month \in {1, 3, 5, 7, 8, 10, 12} -> 31
      [] month \in {4, 6, 9, 11} -> 30
      [] OTHER -> IF IsLeap(year) THEN 29 ELSE 28

DaysBeforeYear(year) ==
    LET y == year - 1 IN y * 365 + y \div 4 - y \div 100 + y \div 400

DaysBeforeMonth(year, month) ==
    LET before[m \in 1..12] == IF m = 1 THEN 0 ELSE before[m - 1] + DaysInMonth(year, m - 1)
    IN  before[month]

\* The dates date(year, month, day) makes; NoDate stands for its refusals.
IsDate(year, month, day) ==
    /\ year \in 1..MaxYear /\ month \in 1..12
    /\ day \in 1..DaysInMonth(year, month)

NoDate == [year |-> 0, month |-> 0, day |-> 0]

NewDate(year, month, day) ==
    IF IsDate(year, month, day) THEN [year |-> year, month |-> month, day |-> day] ELSE NoDate

Ordinal(d) == DaysBeforeYear(d.year) + DaysBeforeMonth(d.year, d.month) + d.day

\* The year of an ordinal by the mean Gregorian year, to be corrected upwards.
Estimate(ordinal) == ((ordinal - 1) * 400) \div 146097 + 1

FromOrdinal(ordinal) ==
    LET start == Estimate(ordinal)
        climb[y \in Int] == IF DaysBeforeYear(y + 1) < ordinal THEN climb[y + 1] ELSE y
        year == climb[start]
        rest[m \in 1..12] ==
            IF m = 1 THEN ordinal - DaysBeforeYear(year)
            ELSE rest[m - 1] - DaysInMonth(year, m - 1)
        month == CHOOSE m \in 1..12 :
            /\ rest[m] <= DaysInMonth(year, m)
            /\ \A n \in 1..(m - 1) : rest[n] > DaysInMonth(year, n)
    IN  IF ordinal \in 1..Ordinal([year |-> MaxYear, month |-> 12, day |-> 31])
        THEN [year |-> year, month |-> month, day |-> rest[month]]
        ELSE NoDate

\* The first day of the year as a weekday, Monday being 0.
FirstWeekday(year) == (DaysBeforeYear(year) + 1 + 6) % 7

LongYear(year) == FirstWeekday(year) = 3 \/ (FirstWeekday(year) = 2 /\ IsLeap(year))

FromIsoWeek(year, week, weekday) ==
    LET first == DaysBeforeYear(year) + 1
        monday == first - FirstWeekday(year) + IF FirstWeekday(year) > 3 THEN 7 ELSE 0
    IN  IF /\ year \in 1..MaxYear
           /\ week \in 1..52 \/ (week = 53 /\ LongYear(year))
           /\ weekday \in 1..7
        THEN FromOrdinal(monday + (week - 1) * 7 + weekday - 1)
        ELSE NoDate

(***************************************************************************)
(* Texts.  form is "calendar" or "week"; dashed says whether the parts are *)
(* separated; a week text may leave the weekday out.                       *)
(***************************************************************************)
Absent == -1

Calendar(year, month, day) ==
    [form |-> "calendar", dashed |-> TRUE, year |-> year, part |-> month, day |-> day]

Week(year, week, weekday) ==
    [form |-> "week", dashed |-> TRUE, year |-> year, part |-> week, day |-> weekday]

Length(t) ==
    4 + (IF t.dashed THEN 1 ELSE 0) + 2
      + IF t.form = "week"
        THEN 1 + IF t.day = Absent THEN 0 ELSE IF t.dashed THEN 2 ELSE 1
        ELSE IF t.dashed THEN 3 ELSE 2

\* The date a text names, or NoDate.
FromIsoFormat(t) ==
    IF Length(t) \notin {7, 8, 10} THEN NoDate
    ELSE IF t.form = "week"
         THEN FromIsoWeek(t.year, t.part, IF t.day = Absent THEN 1 ELSE t.day)
         ELSE NewDate(t.year, t.part, t.day)

IsoFormat(d) == Calendar(d.year, d.month, d.day)

\* How two dashed texts sort: digits before W.
SortsAfter(t, u) ==
    \/ t.year > u.year
    \/ t.year = u.year /\ t.form = "week" /\ u.form = "calendar"
    \/ t.year = u.year /\ t.form = u.form
       /\ (t.part > u.part \/ (t.part = u.part /\ t.day > u.day))
=============================================================================
