------------------------------- MODULE Calendar -------------------------------
(***************************************************************************)
(* Dates: breakTime() and makeTime() (Time/Time.cpp), the cache of the last *)
(* broken-down time that every call of hour(), day(), year()... goes       *)
(* through, and how loop() (loop.ino) puts the date together: year(),      *)
(* month(), day() and hour() each read the clock anew, in an order that    *)
(* C++ leaves open, and each may block in now() for a synchronisation.     *)
(* summertime_EU() (functions.ino) is compared with the law.               *)
(*                                                                         *)
(* The clock runs in Central European (standard) time and is not set back  *)
(* while the date is read; Clock is about how it is kept.                  *)
(***************************************************************************)
EXTENDS Integers, FiniteSets

CONSTANTS LastYear, \* of the calendar, counted from 1970; bounds the time
          Starts,   \* when loop() may look at the clock first
          Pauses,   \* seconds between two looks
          Blocked,  \* how many seconds one call of now() may take
          MaxLooks  \* bounds the looks of a behaviour

Years == 0 .. LastYear

SecsPerHour == 3600
SecsPerDay  == 24 * SecsPerHour

VARIABLES
    time,        \* sysTime: what now() returns
    looks,       \* how often loop() has looked
    asked,       \* one of the calls of now() has blocked during this look
    pc,          \* "idle", "read", "minute", "today", "dated", "done"
    cacheTime,   \* Time.cpp
    tm,
    read,        \* the arguments of summertime_EU() that have been evaluated
    sommerzeit, t, today

cache == <<cacheTime, tm>>
local == <<sommerzeit, t, today>>
vars  == <<time, looks, asked, pc, cache, read, local>>

-------------------------------------------------------------------------------
(* Time.cpp.  Years count from 1970, months and days from 1.               *)

LEAP_YEAR(y) ==
    (1970 + y) % 4 = 0 /\ ((1970 + y) % 100 # 0 \/ (1970 + y) % 400 = 0)

YearLength(y) == IF LEAP_YEAR(y) THEN 366 ELSE 365

MonthLength(y, m) == CASE m = 2 -> IF LEAP_YEAR(y) THEN 29 ELSE 28
                       [] m \in {4, 6, 9, 11} -> 30
                       [] OTHER -> 31

\* Days before a year, and before a month of a year.
DaysBefore == [y \in Years |-> 365 * y + Cardinality({i \in 0 .. y - 1 : LEAP_YEAR(i)})]
DaysBeforeMonth(y, m) ==
    <<0, 31, 59, 90, 120, 151, 181, 212, 243, 273, 304, 334>>[m]
        + (IF m > 2 /\ LEAP_YEAR(y) THEN 1 ELSE 0)

\* Time is bounded by the beginning of the last year.
EndOfTime == DaysBefore[LastYear] * SecsPerDay

ASSUME CalendarAssumption ==
    /\ {LastYear, MaxLooks} \subseteq Nat
    /\ Blocked \subseteq 0 .. 50
    /\ Starts \subseteq 1 .. EndOfTime - 1
    /\ Pauses \subseteq Nat \ {0}

\* The day, counted from 1 January 1970 as day 0.
DayNumber(y, m, d) == DaysBefore[y] + DaysBeforeMonth(y, m) + d - 1

\* Slip: the first day of a month counts as one more of the month before.
MonthOfDayLate(y, day) ==
    CHOOSE m \in 1 .. 12 : /\ DaysBeforeMonth(y, m) < day \/ m = 1
                           /\ day <= DaysBeforeMonth(y, m) + MonthLength(y, m)

\* Time.cpp:180-200: the month that a day of the year, from 0, is in.
MonthOfDay(y, day) == CHOOSE m \in 1 .. 12 : /\ DaysBeforeMonth(y, m) <= day
                                             /\ day < DaysBeforeMonth(y, m)
                                                          + MonthLength(y, m)

breakTime(at) ==
    LET days  == at \div SecsPerDay
        year  == CHOOSE y \in Years : /\ DaysBefore[y] <= days
                                      /\ days < DaysBefore[y] + YearLength(y)
        day   == days - DaysBefore[year]
        month == MonthOfDay(year, day)
    IN [Second |-> at % 60,
        Minute |-> (at \div 60) % 60,
        Hour   |-> (at \div SecsPerHour) % 24,
        Wday   |-> ((days + 4) % 7) + 1,
        Day    |-> day - DaysBeforeMonth(year, month) + 1,
        Month  |-> month,
        Year   |-> year]

makeTime(e) == DayNumber(e.Year, e.Month, e.Day) * SecsPerDay
                   + e.Hour * SecsPerHour + e.Minute * 60 + e.Second

\* What hour(at), day(at)... do before they look into tm.
refreshCache(at) == IF at = cacheTime THEN UNCHANGED cache
                                      ELSE cacheTime' = at /\ tm' = breakTime(at)

\* hour(), day()... without an argument: now() may block once in a while.
Now == /\ \/ time' = time /\ UNCHANGED asked
          \/ ~asked /\ asked' = TRUE /\ \E d \in Blocked : time' = time + d
       /\ refreshCache(time')

-------------------------------------------------------------------------------
(* functions.ino.                                                          *)

\* Slip: the hours are compared in UTC.
SummertimeHours(a) == /\ a.month \in 3 .. 10
                      /\ a.month = 3 => a.hour + 24 * a.day >=
                             1 + 24 * (31 - (((5 * a.year) \div 4 + 4) % 7))
                      /\ a.month = 10 => a.hour + 24 * a.day <
                             1 + 24 * (31 - (((5 * a.year) \div 4 + 1) % 7))

\* With the time zone MEZ.
summertime_EU(a) == /\ a.month \in 3 .. 10
                    /\ a.month = 3 => a.hour + 24 * a.day >=
                           1 + 1 + 24 * (31 - (((5 * a.year) \div 4 + 4) % 7))
                    /\ a.month = 10 => a.hour + 24 * a.day <
                           1 + 1 + 24 * (31 - (((5 * a.year) \div 4 + 1) % 7))

-------------------------------------------------------------------------------
(* loop().                                                                 *)

Fields == {"year", "month", "day", "hour"}

Field(e, f) == CASE f = "year"  -> e.Year + 1970
                 [] f = "month" -> e.Month
                 [] f = "day"   -> e.Day
                 [] f = "hour"  -> e.Hour

\* The sketch starts with an empty cache, before the first look.
Init == /\ time \in Starts
        /\ looks = 0
        /\ asked = FALSE
        /\ pc = "idle"
        /\ cacheTime = 0
        /\ tm = [Second |-> 0, Minute |-> 0, Hour |-> 0, Wday |-> 0,
                 Day |-> 0, Month |-> 0, Year |-> 0]
        /\ read = [f \in {} |-> 0]
        /\ sommerzeit = FALSE
        /\ t = 0
        /\ today = [year |-> 0, month |-> 0, day |-> 0]

\* Slip: the date is read in whatever second loop() looks.
AnySecond(e) == TRUE

\* loop.ino:18.
SecondZero(e) == e.Second = 0

Look == /\ pc = "idle"
        /\ Now
        /\ looks' = looks + 1
        /\ pc' = IF SecondZero(tm') THEN "read" ELSE "done"
        /\ UNCHANGED <<read, local>>

\* :25, the arguments.
Read == /\ pc = "read"
        /\ \E f \in Fields \ DOMAIN read :
               /\ Now
               /\ read' = [g \in DOMAIN read \cup {f} |->
                              IF g = f THEN Field(tm', f) ELSE read[g]]
        /\ UNCHANGED <<looks, pc, local>>

\* :25-34.
Summertime == /\ pc = "read"
              /\ DOMAIN read = Fields
              /\ sommerzeit' = summertime_EU(read)
              /\ \/ time' = time /\ UNCHANGED asked
                 \/ ~asked /\ asked' = TRUE /\ \E d \in Blocked : time' = time + d
              /\ t' = time' + (IF sommerzeit' THEN SecsPerHour ELSE 0)
              /\ read' = [f \in {} |-> 0]
              /\ pc' = "minute"
              /\ UNCHANGED <<looks, cache, today>>

\* :36.
Minute == /\ pc = "minute"
          /\ Now
          /\ pc' = IF tm'.Minute % 5 = 0 THEN "today" ELSE "done"
          /\ UNCHANGED <<looks, read, local>>

\* :41-43.
Today == /\ pc = "today"
         /\ refreshCache(t)
         /\ today' = [year |-> tm'.Year + 1970, month |-> tm'.Month - 1,
                      day |-> tm'.Day - 1]
         /\ pc' = "dated"
         /\ UNCHANGED <<time, looks, asked, read, sommerzeit, t>>

\* Until loop() looks again.
Elapse == /\ pc \in {"done", "dated"}
          /\ looks < MaxLooks
          /\ \E d \in Pauses : time' = time + d
          /\ time' < EndOfTime
          /\ asked' = FALSE
          /\ pc' = "idle"
          /\ UNCHANGED <<looks, cache, read, local>>

Next == \/ Look \/ Read \/ Summertime \/ Minute \/ Today
        \/ Elapse

Spec == Init /\ [][Next]_vars

-------------------------------------------------------------------------------
\* tm is a date of the calendar, and the date of the time it is kept for, in
\* whatever order times are looked up (refreshCache()); the cache starts
\* with time 0 and no date.
CacheIsTheTime ==
    cacheTime # 0 => /\ makeTime(tm) = cacheTime
                     /\ tm.Month \in 1 .. 12
                     /\ tm.Day \in 1 .. MonthLength(tm.Year, tm.Month)
                     /\ tm.Day + DaysBeforeMonth(tm.Year, tm.Month) <= YearLength(tm.Year)

\* The last Sunday of a month of 31 days: 1 January 1970 was a Thursday.
LastSunday(y, m) == CHOOSE day \in DayNumber(y, m, 25) .. DayNumber(y, m, 31) :
                        day % 7 = 3

\* By law the clocks are put forward on the last Sunday of March and back on
\* the last Sunday of October, at 1:00 UTC.
Law(at) == LET y == breakTime(at).Year
           IN /\ LastSunday(y, 3) * SecsPerDay + 2 * SecsPerHour <= at
              /\ at < LastSunday(y, 10) * SecsPerDay + 2 * SecsPerHour

\* When loop() has read the date, in whatever order and however long it took,
\* sommerzeit is what the law says, and today is the day in local time, on
\* which the pulses are booked.
DateIsLocal ==
    /\ pc = "minute" => sommerzeit = Law(time)
    /\ pc = "dated" => DayNumber(today.year - 1970, today.month + 1, today.day + 1)
                           = (IF Law(time) THEN time + SecsPerHour ELSE time) \div SecsPerDay
===============================================================================
