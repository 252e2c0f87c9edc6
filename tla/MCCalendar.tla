------------------------------ MODULE MCCalendar ------------------------------
(***************************************************************************)
(* The beginning and the last second of every month, and the hour up to    *)
(* the change of the clock on each of the days that can be the last Sunday *)
(* of March or October, for 28 years, after which the weekdays repeat.     *)
(***************************************************************************)
EXTENDS Calendar

MCYears == 40 .. 67

MonthStarts == {DayNumber(y, m, 1) * SecsPerDay :
                    y \in MCYears, m \in 1 .. 12}
Changes     == {DayNumber(y, m, d) * SecsPerDay + 2 * SecsPerHour :
                    y \in MCYears, m \in {3, 10}, d \in 25 .. 31}

MCStarts    == UNION ({{at - 1, at} : at \in MonthStarts}
                          \cup {{at - SecsPerHour, at - 1, at} : at \in Changes})
===============================================================================
