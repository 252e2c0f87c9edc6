--------------------------- MODULE Libraries_proof ----------------------------
(***************************************************************************)
(* Two libraries that the sketch calls and that share no state: the EEPROM *)
(* library (EepromClient), for any set of cells, any client values and a   *)
(* flash that may fail; and the dates of the Time library (Calendar), for  *)
(* any times of looking and any calls of now() that block.                 *)
(***************************************************************************)
EXTENDS EepromClient, Calendar, FiniteSetTheorems, WellFoundedInduction, TLAPS

-------------------------------------------------------------------------------
(* The EEPROM library: types, CleanMeansStored, refinement of DurableStore. *)

\* A buffer with some cells replaced by values is again a buffer.
LEMMA PatchedType ==
    ASSUME NEW patch, Open, data \in [Addr -> Val] \cup {NoBuffer},
           \A a \in DOMAIN patch : patch[a] \in Val
    PROVE  Patched(patch) \in [Addr -> Val]
  BY DEF Open, Patched

\* A torn sector still holds one value per cell.
LEMMA TornType ==
    ASSUME NEW buffer \in [Addr -> Val]
    PROVE  Torn(buffer) \subseteq [Addr -> Val]
  BY EepromAssumption DEF Torn

-------------------------------------------------------------------------------
\* The inductive invariant.  ErasedIsDirty is what makes the other two
\* inductive: it says that Program finds a buffer to program, and that no
\* call of the client runs between the erase and the programming.
EepromInv == EepromTypeOK /\ ErasedIsDirty /\ CleanMeansStored

LEMMA EepromInvInit == ClientInit => EepromInv
  BY ValuesAssumption, EepromAssumption
     DEF ClientInit, EepromInit, EepromInv, EepromTypeOK, ErasedIsDirty,
         CleanMeansStored, Open

LEMMA EepromInvNext == EepromInv /\ [ClientNext]_eepromVars => EepromInv'
  <1> SUFFICES ASSUME EepromInv, [ClientNext]_eepromVars
               PROVE  EepromInv'
    OBVIOUS
  <1> USE EepromAssumption
      DEF EepromInv, EepromTypeOK, ErasedIsDirty, CleanMeansStored, Open
  <1>1. CASE Begin
    BY <1>1 DEF Begin
  <1>2. ASSUME NEW a \in Addr, NEW v \in Values, Put([x \in {a} |-> v])
        PROVE  EepromInv'
    <2>1. CASE data = NoBuffer
      BY <1>2, <2>1 DEF Put
    <2>2. CASE data # NoBuffer
      <3>1. Patched([x \in {a} |-> v]) \in [Addr -> Val]
        BY <2>2, ValuesAssumption, PatchedType
      <3>2. QED
        BY <1>2, <2>2, <3>1 DEF Put
    <2>3. QED
      BY <2>1, <2>2
  <1>3. ASSUME NEW a \in Addr, NEW v \in Values, Write(a, v)
        PROVE  EepromInv'
    BY <1>3, ValuesAssumption DEF Write
  <1>4. CASE Commit
    BY <1>4 DEF Commit
  <1>5. CASE End
    BY <1>5 DEF End
  <1>6. CASE EepromStep
    <2>1. CASE CommitReturnsAtOnce
      BY <2>1 DEF CommitReturnsAtOnce, Return
    <2>2. CASE Erase
      BY <2>2 DEF Erase
    <2>3. CASE EraseFails
      BY <2>3 DEF EraseFails, Return
    <2>4. CASE Program
      BY <2>4 DEF Program, Return
    <2>5. CASE ProgramFails
      BY <2>5, TornType DEF ProgramFails, Return
    <2>6. QED
      BY <1>6, <2>1, <2>2, <2>3, <2>4, <2>5 DEF EepromStep
  <1>7. CASE PowerOff
    BY <1>7, TornType DEF PowerOff
  <1>8. CASE UNCHANGED eepromVars
    BY <1>8 DEF eepromVars
  <1>9. QED
    BY <1>1, <1>2, <1>3, <1>4, <1>5, <1>6, <1>7, <1>8 DEF ClientNext

\* The variables keep their types whatever the client does.
THEOREM EepromTyping == ClientSpec => []EepromTypeOK
  <1>1. EepromInv => EepromTypeOK
    BY DEF EepromInv
  <1>2. QED
    BY <1>1, EepromInvInit, EepromInvNext, PTL DEF ClientSpec

\* A clean buffer is what the sector holds (EEPROM.cpp:102-103).
THEOREM CleanBufferIsStored == ClientSpec => []CleanMeansStored
  <1>1. EepromInv => CleanMeansStored
    BY DEF EepromInv
  <1>2. QED
    BY <1>1, EepromInvInit, EepromInvNext, PTL DEF ClientSpec

-------------------------------------------------------------------------------
(* Refinement.                                                             *)

LEMMA DurableInit == ClientInit => Durable!Init
  BY ValuesAssumption DEF ClientInit, EepromInit, Durable!Init

\* Every step of the library is a step of DurableStore or leaves it alone.
LEMMA DurableNext ==
    EepromInv /\ [ClientNext]_eepromVars => [Durable!Next]_(Durable!vars)
  <1> SUFFICES ASSUME EepromInv, [ClientNext]_eepromVars
               PROVE  [Durable!Next]_(Durable!vars)
    OBVIOUS
  <1> USE EepromAssumption
      DEF EepromInv, EepromTypeOK, ErasedIsDirty, Open, Durable!vars
  <1>1. CASE Begin
    <2>1. Durable!Load
      BY <1>1 DEF Begin, Durable!Load
    <2>2. QED
      BY <2>1 DEF Durable!Next
  <1>2. ASSUME NEW a \in Addr, NEW v \in Values, Put([x \in {a} |-> v])
        PROVE  [Durable!Next]_(Durable!vars)
    <2>1. CASE data = NoBuffer
      BY <1>2, <2>1 DEF Put
    <2>2. CASE data # NoBuffer
      <3>1. Patched([x \in {a} |-> v]) \in [Addr -> Val]
        BY <2>2, ValuesAssumption, PatchedType
      <3>2. Durable!Edit
        BY <1>2, <2>2, <3>1 DEF Put, Durable!Edit
      <3>3. QED
        BY <3>2 DEF Durable!Next
    <2>3. QED
      BY <2>1, <2>2
  <1>3. ASSUME NEW a \in Addr, NEW v \in Values, Write(a, v)
        PROVE  [Durable!Next]_(Durable!vars)
    <2>1. CASE data # NoBuffer /\ data[a] # v
      <3>1. Durable!Edit
        BY <1>3, <2>1, ValuesAssumption DEF Write, Durable!Edit
      <3>2. QED
        BY <3>1 DEF Durable!Next
    <2>2. CASE ~(data # NoBuffer /\ data[a] # v)
      BY <1>3, <2>2 DEF Write
    <2>3. QED
      BY <2>1, <2>2
  <1>4. CASE Commit
    BY <1>4 DEF Commit
  <1>5. CASE End
    BY <1>5 DEF End
  <1>6. CASE EepromStep
    <2>1. CASE CommitReturnsAtOnce
      <3>1. UNCHANGED Durable!vars \/ Durable!Drop
        BY <2>1 DEF CommitReturnsAtOnce, Return, Durable!Drop
      <3>2. QED
        BY <3>1 DEF Durable!Next
    <2>2. CASE Erase
      <3>1. Durable!Commit
        BY <2>2 DEF Erase, Durable!Commit
      <3>2. QED
        BY <3>1 DEF Durable!Next
    <2>3. CASE EraseFails
      <3>1. UNCHANGED Durable!vars \/ Durable!Drop
        BY <2>3 DEF EraseFails, Return, Durable!Drop
      <3>2. QED
        BY <3>1 DEF Durable!Next
    <2>4. CASE Program
      <3>1. Durable!Settle
        BY <2>4 DEF Program, Return, Durable!Settle
      <3>2. QED
        BY <3>1 DEF Durable!Next
    <2>5. CASE ProgramFails
      <3>1. Durable!Spoil
        BY <2>5 DEF ProgramFails, Return, Torn, Durable!Spoil, Durable!Torn
      <3>2. QED
        BY <3>1 DEF Durable!Next
    <2>6. QED
      BY <1>6, <2>1, <2>2, <2>3, <2>4, <2>5 DEF EepromStep
  <1>7. CASE PowerOff
    <2>1. CASE erased
      <3>1. Durable!Spoil
        BY <1>7, <2>1 DEF PowerOff, Torn, Durable!Spoil, Durable!Torn
      <3>2. QED
        BY <3>1 DEF Durable!Next
    <2>2. CASE ~erased
      <3>1. Durable!Drop
        BY <1>7, <2>2 DEF PowerOff, Durable!Drop
      <3>2. QED
        BY <3>1 DEF Durable!Next
    <2>3. QED
      BY <2>1, <2>2
  <1>8. CASE UNCHANGED eepromVars
    BY <1>8 DEF eepromVars
  <1>9. QED
    BY <1>1, <1>2, <1>3, <1>4, <1>5, <1>6, <1>7, <1>8 DEF ClientNext

\* The EEPROM library implements DurableStore.
THEOREM EepromIsDurable == ClientSpec => DurableSpec
  BY EepromInvInit, EepromInvNext, DurableInit, DurableNext, PTL
     DEF ClientSpec, DurableSpec, Durable!Spec

-------------------------------------------------------------------------------
(* The calendar: every day has one year and one month, the cache is the    *)
(* date of its time, and the date that loop() puts together is the local.  *)

\* The library's induction takes a predicate; this says the same with a set.
LEMMA Minimal ==
    \A R, S : IsWellFoundedOn(R, S) =>
        \A T : T \subseteq S => (T # {} => \E x \in T : \A y \in T : ~(<<y, x>> \in R))
  BY WFMin, Zenon

\* Induction over the natural numbers, for a set.
LEMMA Induction ==
    ASSUME NEW S, 0 \in S, \A n \in Nat : n \in S => n + 1 \in S
    PROVE  Nat \subseteq S
  <1> SUFFICES ASSUME Nat \ S # {}
               PROVE  FALSE
    OBVIOUS
  <1>1. PICK n \in Nat \ S : \A m \in Nat \ S : n <= m
    <2>1. \A T : T \subseteq Nat => (T # {} =>
              \E x \in T : \A y \in T : ~(<<y, x>> \in OpToRel(<, Nat)))
      BY NatLessThanWellFounded, Minimal, Zenon
    <2>2. PICK n \in Nat \ S : \A m \in Nat \ S : ~(<<m, n>> \in OpToRel(<, Nat))
      BY <2>1
    <2>3. \A m \in Nat \ S : ~(m < n)
      BY <2>2 DEF OpToRel
    <2>4. QED
      BY <2>3
  <1>2. n - 1 \in Nat /\ n - 1 \notin Nat \ S
    BY <1>1
  <1>3. QED
    BY <1>1, <1>2

LeapYears(y) == {i \in 0 .. y - 1 : LEAP_YEAR(i)}

\* How the leap years before a year are counted.
LEMMA LeapsAre ==
    ASSUME NEW y \in Nat
    PROVE  /\ Cardinality(LeapYears(y)) \in Nat
           /\ Cardinality(LeapYears(y + 1))
                = Cardinality(LeapYears(y)) + (IF LEAP_YEAR(y) THEN 1 ELSE 0)
  <1>1. IsFiniteSet(LeapYears(y))
    <2>1. IsFiniteSet(0 .. y - 1)
      BY FS_Interval
    <2>2. LeapYears(y) \subseteq 0 .. y - 1
      BY DEF LeapYears
    <2>3. QED
      BY <2>1, <2>2, FS_Subset
  <1>2. CASE LEAP_YEAR(y)
    <2>1. LeapYears(y + 1) = LeapYears(y) \cup {y} /\ y \notin LeapYears(y)
      BY <1>2 DEF LeapYears
    <2>2. QED
      BY <1>1, <1>2, <2>1, FS_AddElement, FS_CardinalityType
  <1>3. CASE ~LEAP_YEAR(y)
    <2>1. LeapYears(y + 1) = LeapYears(y)
      BY <1>3 DEF LeapYears
    <2>2. QED
      BY <1>1, <1>3, <2>1, FS_CardinalityType
  <1>4. QED
    BY <1>2, <1>3

\* Each year begins where the one before it ends.
LEMMA DaysBeforeIs ==
    /\ LastYear \in Nat
    /\ DaysBefore[0] = 0
    /\ \A y \in Years : DaysBefore[y] \in Nat
    /\ \A y \in Nat : y + 1 \in Years =>
           y \in Years /\ DaysBefore[y + 1] = DaysBefore[y] + YearLength(y)
  <1>1. LastYear \in Nat
    BY CalendarAssumption
  <1>2. \A y \in Years : DaysBefore[y] = 365 * y + Cardinality(LeapYears(y))
    BY DEF DaysBefore, LeapYears
  <1>3. DaysBefore[0] = 0
    <2>1. LeapYears(0) = {}
      BY DEF LeapYears
    <2>2. QED
      BY <1>1, <1>2, <2>1, FS_EmptySet DEF Years
  <1>4. ASSUME NEW y \in Years PROVE DaysBefore[y] \in Nat
    <2>1. y \in Nat
      BY <1>1 DEF Years
    <2>2. Cardinality(LeapYears(y)) \in Nat
      BY <2>1, LeapsAre
    <2>3. QED
      BY <1>2, <2>1, <2>2
  <1>5. ASSUME NEW y \in Nat, y + 1 \in Years
        PROVE  y \in Years /\ DaysBefore[y + 1] = DaysBefore[y] + YearLength(y)
    <2>1. y \in Years
      BY <1>1, <1>5 DEF Years
    <2>2. PICK c \in Nat : c = Cardinality(LeapYears(y))
      BY LeapsAre
    <2>3. /\ DaysBefore[y] = 365 * y + c
          /\ DaysBefore[y + 1] = 365 * (y + 1) + c + (IF LEAP_YEAR(y) THEN 1 ELSE 0)
      <3>1. DaysBefore[y + 1] = 365 * (y + 1) + Cardinality(LeapYears(y + 1))
        BY <1>2, <1>5
      <3>2. Cardinality(LeapYears(y + 1)) = c + (IF LEAP_YEAR(y) THEN 1 ELSE 0)
        BY <2>2, LeapsAre
      <3>3. QED
        BY <1>2, <2>1, <2>2, <3>1, <3>2
    <2>4. QED
      BY <2>1, <2>3 DEF YearLength
  <1>6. QED
    BY <1>1, <1>3, <1>4, <1>5

\* The length of a year.
LEMMA YearLengthType == \A y : YearLength(y) \in {365, 366}
  BY DEF YearLength

\* breakTime() finds the year of every day of the calendar.
LEMMA YearExists ==
    ASSUME NEW days \in Nat, days < DaysBefore[LastYear] + YearLength(LastYear)
    PROVE  \E y \in Years : /\ DaysBefore[y] <= days
                            /\ days < DaysBefore[y] + YearLength(y)
  <1> DEFINE Found == \E y \in Years : /\ DaysBefore[y] <= days
                                       /\ days < DaysBefore[y] + YearLength(y)
             Good  == {z \in Nat : z \in Years /\ days < DaysBefore[z] + YearLength(z) => Found}
  <1>1. 0 \in Good
    <2>1. 0 \in Years /\ DaysBefore[0] = 0
      BY DaysBeforeIs DEF Years
    <2>2. QED
      BY <2>1
  <1>2. ASSUME NEW z \in Nat, z \in Good PROVE z + 1 \in Good
    <2> SUFFICES ASSUME z + 1 \in Years, days < DaysBefore[z + 1] + YearLength(z + 1)
                 PROVE  Found
      OBVIOUS
    <2>1. /\ z \in Years /\ DaysBefore[z + 1] = DaysBefore[z] + YearLength(z)
          /\ DaysBefore[z + 1] \in Nat
      BY DaysBeforeIs
    <2>2. CASE DaysBefore[z + 1] <= days
      BY <2>2
    <2>3. CASE ~(DaysBefore[z + 1] <= days)
      <3>1. days < DaysBefore[z] + YearLength(z)
        BY <2>1, <2>3
      <3>2. QED
        BY <1>2, <2>1, <3>1
    <2>4. QED
      BY <2>2, <2>3
  <1>3. LastYear \in Good
    <2> HIDE DEF Good
    <2>1. QED
      BY <1>1, <1>2, Induction, DaysBeforeIs
  <1>4. LastYear \in Years
    BY DaysBeforeIs DEF Years
  <1>5. QED
    BY <1>3, <1>4

-------------------------------------------------------------------------------
(* Months.                                                                 *)

Months == 1 .. 12

\* The months one by one.
LEMMA MonthsAre == Months = {1, 2, 3, 4, 5, 6, 7, 8, 9, 10, 11, 12}
  BY DEF Months

\* The table of DaysBeforeMonth adds up the lengths of the months.
LEMMA BeforeMonth ==
    ASSUME NEW y
    PROVE  /\ DaysBeforeMonth(y, 1) = 0
           /\ \A m \in Months : DaysBeforeMonth(y, m) \in Nat /\ MonthLength(y, m) \in 28 .. 31
           /\ \A m \in 1 .. 11 : DaysBeforeMonth(y, m + 1)
                                   = DaysBeforeMonth(y, m) + MonthLength(y, m)
           /\ DaysBeforeMonth(y, 12) + MonthLength(y, 12) = YearLength(y)
  <1>1. CASE LEAP_YEAR(y)
    BY <1>1, MonthsAre DEF DaysBeforeMonth, MonthLength, YearLength
  <1>2. CASE ~LEAP_YEAR(y)
    BY <1>2, MonthsAre DEF DaysBeforeMonth, MonthLength, YearLength
  <1>3. QED
    BY <1>1, <1>2

\* breakTime() finds the month of every day of a year.
LEMMA MonthExists ==
    ASSUME NEW y, NEW day \in Nat, day < YearLength(y)
    PROVE  \E m \in Months : /\ DaysBeforeMonth(y, m) <= day
                             /\ day < DaysBeforeMonth(y, m) + MonthLength(y, m)
  <1> DEFINE Found == \E m \in Months : /\ DaysBeforeMonth(y, m) <= day
                                        /\ day < DaysBeforeMonth(y, m) + MonthLength(y, m)
             Good == {k \in Nat : k \in 1 .. 12 /\ day < DaysBeforeMonth(y, k) + MonthLength(y, k)
                                    => Found}
  <1>1. 0 \in Good
    OBVIOUS
  <1>2. ASSUME NEW k \in Nat, k \in Good PROVE k + 1 \in Good
    <2> SUFFICES ASSUME k + 1 \in 1 .. 12,
                        day < DaysBeforeMonth(y, k + 1) + MonthLength(y, k + 1)
                 PROVE  Found
      OBVIOUS
    <2>1. CASE DaysBeforeMonth(y, k + 1) <= day
      BY <2>1 DEF Months
    <2>2. CASE ~(DaysBeforeMonth(y, k + 1) <= day)
      <3>1. CASE k = 0
        BY <2>2, <3>1, BeforeMonth
      <3>2. CASE k # 0
        <4>1. k \in 1 .. 11 /\ k \in Months /\ k + 1 \in Months
          BY <3>2 DEF Months
        <4>2. /\ DaysBeforeMonth(y, k + 1) = DaysBeforeMonth(y, k) + MonthLength(y, k)
              /\ DaysBeforeMonth(y, k + 1) \in Nat
          BY <4>1, BeforeMonth
        <4>3. day < DaysBeforeMonth(y, k) + MonthLength(y, k)
          BY <2>2, <4>2
        <4>4. QED
          BY <1>2, <4>1, <4>3 DEF Months
      <3>3. QED
        BY <3>1, <3>2
    <2>3. QED
      BY <2>1, <2>2
  <1>3. 12 \in Good
    <2> HIDE DEF Good
    <2>1. QED
      BY <1>1, <1>2, Induction
  <1>4. QED
    BY <1>3, BeforeMonth

-------------------------------------------------------------------------------
(* Broken-down times.                                                      *)

\* y, m and d are the year, month and day of the day that a time is in.
DateOf(at, y, m, d) ==
    /\ y \in Years /\ m \in Months /\ d \in 1 .. MonthLength(y, m)
    /\ DayNumber(y, m, d) = at \div SecsPerDay
    /\ d + DaysBeforeMonth(y, m) <= YearLength(y)

\* The times that the calendar has a date for.
InCalendar(at) == at \in Nat /\ at \div SecsPerDay < DaysBefore[LastYear] + YearLength(LastYear)

\* breakTime() finds the date of a time of the calendar.
LEMMA Broken ==
    ASSUME NEW at, InCalendar(at)
    PROVE  /\ DateOf(at, breakTime(at).Year, breakTime(at).Month, breakTime(at).Day)
           /\ breakTime(at).Hour = (at \div SecsPerHour) % 24
           /\ breakTime(at).Minute = (at \div 60) % 60
           /\ breakTime(at).Second = at % 60
  <1> DEFINE days  == at \div SecsPerDay
             year  == CHOOSE y \in Years : /\ DaysBefore[y] <= days
                                           /\ days < DaysBefore[y] + YearLength(y)
             day   == days - DaysBefore[year]
             month == MonthOfDay(year, day)
  <1>1. days \in Nat
    BY DEF InCalendar, SecsPerDay, SecsPerHour
  <1>2. /\ year \in Years /\ DaysBefore[year] <= days
        /\ days < DaysBefore[year] + YearLength(year)
    <2>1. \E y \in Years : /\ DaysBefore[y] <= days
                           /\ days < DaysBefore[y] + YearLength(y)
      <3> HIDE DEF days
      <3>1. days < DaysBefore[LastYear] + YearLength(LastYear)
        BY DEF InCalendar, days
      <3>2. QED
        BY <1>1, <3>1, YearExists
    <2>2. QED
      BY <2>1
  <1>3. /\ breakTime(at).Year = year /\ breakTime(at).Month = month
        /\ breakTime(at).Day = day - DaysBeforeMonth(year, month) + 1
        /\ breakTime(at).Hour = (at \div SecsPerHour) % 24
        /\ breakTime(at).Minute = (at \div 60) % 60
        /\ breakTime(at).Second = at % 60
    BY DEF breakTime
  <1> HIDE DEF days, year
  <1>4. DaysBefore[year] \in Nat /\ YearLength(year) \in Nat
    BY <1>2, DaysBeforeIs, YearLengthType
  <1>5. day \in Nat /\ day < YearLength(year)
    BY <1>1, <1>2, <1>4
  <1>6. days = DaysBefore[year] + day
    BY <1>1, <1>4
  <1> HIDE DEF day
  <1>7. /\ month \in Months /\ DaysBeforeMonth(year, month) <= day
        /\ day < DaysBeforeMonth(year, month) + MonthLength(year, month)
    <2>1. \E m \in Months : /\ DaysBeforeMonth(year, m) <= day
                            /\ day < DaysBeforeMonth(year, m) + MonthLength(year, m)
      BY <1>5, MonthExists
    <2>2. QED
      BY <2>1 DEF MonthOfDay, Months
  <1> HIDE DEF month
  <1>8. DaysBeforeMonth(year, month) \in Nat /\ MonthLength(year, month) \in Nat
    BY <1>7, BeforeMonth
  <1>9. DateOf(at, year, month, day - DaysBeforeMonth(year, month) + 1)
    BY <1>2, <1>4, <1>5, <1>6, <1>7, <1>8 DEF DateOf, DayNumber, days
  <1>10. QED
    BY <1>3, <1>9

\* makeTime() undoes breakTime().
LEMMA MadeAgain ==
    ASSUME NEW at, InCalendar(at)
    PROVE  makeTime(breakTime(at)) = at
  <1> DEFINE e == breakTime(at)
  <1>1. /\ DayNumber(e.Year, e.Month, e.Day) = at \div SecsPerDay
        /\ e.Hour = (at \div SecsPerHour) % 24
        /\ e.Minute = (at \div 60) % 60
        /\ e.Second = at % 60
    BY Broken DEF DateOf
  <1> HIDE DEF e
  <1>2. makeTime(e) = (at \div SecsPerDay) * SecsPerDay + ((at \div SecsPerHour) % 24) * SecsPerHour
                          + ((at \div 60) % 60) * 60 + (at % 60)
    BY <1>1 DEF makeTime
  <1>3. at \in Nat
    BY DEF InCalendar
  <1>4. makeTime(e) = at
    BY <1>2, <1>3 DEF SecsPerDay, SecsPerHour
  <1>5. QED
    BY <1>4 DEF e

\* Within an hour there is one date.
LEMMA OneDate ==
    ASSUME NEW at \in Nat, NEW other \in Nat, at \div SecsPerHour = other \div SecsPerHour
    PROVE  /\ breakTime(at).Year = breakTime(other).Year
           /\ breakTime(at).Month = breakTime(other).Month
           /\ breakTime(at).Day = breakTime(other).Day
           /\ breakTime(at).Hour = breakTime(other).Hour
  <1>1. at \div SecsPerDay = other \div SecsPerDay
    BY DEF SecsPerDay, SecsPerHour
  <1> DEFINE year(days) == CHOOSE y \in Years : /\ DaysBefore[y] <= days
                                               /\ days < DaysBefore[y] + YearLength(y)
             day(days)   == days - DaysBefore[year(days)]
             month(days) == MonthOfDay(year(days), day(days))
  <1>2. ASSUME NEW a \in Nat
        PROVE  /\ breakTime(a).Year = year(a \div SecsPerDay)
               /\ breakTime(a).Month = month(a \div SecsPerDay)
               /\ breakTime(a).Day = day(a \div SecsPerDay)
                      - DaysBeforeMonth(year(a \div SecsPerDay), month(a \div SecsPerDay)) + 1
               /\ breakTime(a).Hour = (a \div SecsPerHour) % 24
    BY DEF breakTime
  <1> HIDE DEF year, day, month
  <1>3. QED
    BY <1>1, <1>2

-------------------------------------------------------------------------------
(* Summer time, up to 2099.                                                *)

\* Until 2099 every fourth year is a leap year.
LEMMA LeapIs == \A y \in 0 .. 129 : LEAP_YEAR(y) <=> (y + 2) % 4 = 0
  BY DEF LEAP_YEAR

\* So the days before a year need no counting.
LEMMA Julian ==
    ASSUME NEW y \in Years, y <= 129
    PROVE  DaysBefore[y] = 365 * y + (y + 1) \div 4
  <1> DEFINE Good == {z \in Nat : z \in Years /\ z <= 129
                                    => DaysBefore[z] = 365 * z + (z + 1) \div 4}
  <1>1. 0 \in Good
    BY DaysBeforeIs
  <1>2. ASSUME NEW z \in Nat, z \in Good PROVE z + 1 \in Good
    <2> SUFFICES ASSUME z + 1 \in Years, z + 1 <= 129
                 PROVE  DaysBefore[z + 1] = 365 * (z + 1) + ((z + 1) + 1) \div 4
      OBVIOUS
    <2>1. z \in Years /\ DaysBefore[z + 1] = DaysBefore[z] + YearLength(z)
      BY DaysBeforeIs
    <2>2. DaysBefore[z] = 365 * z + (z + 1) \div 4
      BY <1>2, <2>1
    <2>3. YearLength(z) = IF (z + 2) % 4 = 0 THEN 366 ELSE 365
      BY LeapIs DEF YearLength
    <2>4. QED
      BY <2>1, <2>2, <2>3
  <1>3. y \in Nat
    BY DaysBeforeIs DEF Years
  <1>4. y \in Good
    <2> HIDE DEF Good
    <2>1. QED
      BY <1>1, <1>2, <1>3, Induction
  <1>5. QED
    BY <1>4

\* The first of March and of October, from 1970.
LEMMA Firsts ==
    ASSUME NEW y \in Years, y <= 129
    PROVE  /\ DayNumber(y, 3, 1) = 365 * y + (y + 2) \div 4 + 59
           /\ DayNumber(y, 10, 1) = 365 * y + (y + 2) \div 4 + 273
  <1>1. y \in 0 .. 129
    BY DaysBeforeIs DEF Years
  <1>2. DaysBefore[y] = 365 * y + (y + 1) \div 4
    BY Julian
  <1>3. /\ DaysBeforeMonth(y, 3) = 59 + (IF (y + 2) % 4 = 0 THEN 1 ELSE 0)
        /\ DaysBeforeMonth(y, 10) = 273 + (IF (y + 2) % 4 = 0 THEN 1 ELSE 0)
    BY <1>1, LeapIs DEF DaysBeforeMonth
  <1>4. QED
    BY <1>1, <1>2, <1>3 DEF DayNumber

\* Seven days in a row have one Sunday.
LEMMA OneSunday ==
    \A a, b \in Int : a % 7 = b % 7 /\ a - b \in (-6) .. 6 => a = b
  OBVIOUS

\* The last Sunday of a month of 31 days, from its first day.
LEMMA Sundays ==
    ASSUME NEW first \in Nat, NEW k \in 0 .. 6, (first + 30 - k) % 7 = 3
    PROVE  (CHOOSE day \in first + 24 .. first + 30 : day % 7 = 3) = first + 30 - k
  <1> DEFINE c == CHOOSE day \in first + 24 .. first + 30 : day % 7 = 3
  <1>1. first + 30 - k \in first + 24 .. first + 30
    OBVIOUS
  <1>2. c \in first + 24 .. first + 30 /\ c % 7 = 3
    BY <1>1
  <1> HIDE DEF c
  <1>3. c \in Int /\ first + 30 - k \in Int /\ c - (first + 30 - k) \in (-6) .. 6
    BY <1>2
  <1>4. c = first + 30 - k
    BY <1>2, <1>3, OneSunday
  <1>5. QED
    BY <1>4 DEF c

\* The days that summertime_EU() computes are the last Sundays.
LEMMA LastSundays ==
    ASSUME NEW y \in Years, y <= 129
    PROVE  /\ LastSunday(y, 3) = DayNumber(y, 3, 1) + 30
                                     - (((5 * (y + 1970)) \div 4 + 4) % 7)
           /\ LastSunday(y, 10) = DayNumber(y, 10, 1) + 30
                                      - (((5 * (y + 1970)) \div 4 + 1) % 7)
  <1>1. y \in Nat
    BY DaysBeforeIs DEF Years
  <1>2. PICK q \in Nat : q = (y + 2) \div 4
    BY <1>1
  <1>3. (5 * (y + 1970)) \div 4 = y + q + 2462
    BY <1>1, <1>2
  <1>4. \A j \in Nat : j = y + q => (j + 2466) % 7 = (j + 2) % 7 /\ (j + 2463) % 7 = (j + 6) % 7
    BY <1>1
  <1>5. PICK k \in 0 .. 6 : k = ((5 * (y + 1970)) \div 4 + 4) % 7
    BY <1>1, <1>3
  <1>6. PICK l \in 0 .. 6 : l = ((5 * (y + 1970)) \div 4 + 1) % 7
    BY <1>1, <1>3
  <1>7. PICK first \in Nat : first = DayNumber(y, 3, 1)
    BY <1>1, Firsts
  <1>8. PICK tenth \in Nat : tenth = DayNumber(y, 10, 1)
    BY <1>1, Firsts
  <1>9. first = 365 * y + q + 59 /\ tenth = 365 * y + q + 273
    BY <1>2, <1>7, <1>8, Firsts
  <1>10. k = (y + q + 2) % 7 /\ l = (y + q + 6) % 7
    BY <1>1, <1>3, <1>4, <1>5, <1>6
  <1>11. (first + 30 - k) % 7 = 3
    <2>1. PICK s \in Nat : y + q + 2 = 7 * s + k
      <3>1. (y + q + 2) \div 7 \in Nat /\ y + q + 2 = 7 * ((y + q + 2) \div 7) + k
        BY <1>1, <1>10
      <3>2. QED
        BY <3>1
    <2>2. first + 30 - k = 7 * (52 * y + s + 12) + 3
      BY <1>1, <1>9, <2>1
    <2>3. QED
      BY <1>1, <2>2
  <1>12. (tenth + 30 - l) % 7 = 3
    <2>1. PICK s \in Nat : y + q + 6 = 7 * s + l
      <3>1. (y + q + 6) \div 7 \in Nat /\ y + q + 6 = 7 * ((y + q + 6) \div 7) + l
        BY <1>1, <1>10
      <3>2. QED
        BY <3>1
    <2>2. tenth + 30 - l = 7 * (52 * y + s + 42) + 3
      BY <1>1, <1>9, <2>1
    <2>3. QED
      BY <1>1, <2>2
  <1>13. /\ DayNumber(y, 3, 25) = first + 24 /\ DayNumber(y, 3, 31) = first + 30
         /\ DayNumber(y, 10, 25) = tenth + 24 /\ DayNumber(y, 10, 31) = tenth + 30
    <2>1. DaysBefore[y] \in Nat /\ DaysBeforeMonth(y, 3) \in Nat /\ DaysBeforeMonth(y, 10) \in Nat
      BY DaysBeforeIs, BeforeMonth DEF Months
    <2>2. QED
      BY <1>7, <1>8, <2>1 DEF DayNumber
  <1>14. LastSunday(y, 3) = first + 30 - k
    BY <1>11, <1>13, Sundays DEF LastSunday
  <1>15. LastSunday(y, 10) = tenth + 30 - l
    BY <1>12, <1>13, Sundays DEF LastSunday
  <1>16. QED
    BY <1>5, <1>6, <1>7, <1>8, <1>14, <1>15

\* Where the months are, from March and October.
LEMMA MonthsApart ==
    ASSUME NEW y, NEW m \in Months
    PROVE  /\ m < 3  => DaysBeforeMonth(y, m) + MonthLength(y, m) <= DaysBeforeMonth(y, 3)
           /\ m > 3  => DaysBeforeMonth(y, m) >= DaysBeforeMonth(y, 3) + 31
           /\ m < 10 => DaysBeforeMonth(y, m) + MonthLength(y, m) <= DaysBeforeMonth(y, 10)
           /\ m > 10 => DaysBeforeMonth(y, m) >= DaysBeforeMonth(y, 10) + 31
           /\ MonthLength(y, 3) = 31 /\ MonthLength(y, 10) = 31
  <1>1. CASE LEAP_YEAR(y)
    BY <1>1, MonthsAre DEF DaysBeforeMonth, MonthLength
  <1>2. CASE ~LEAP_YEAR(y)
    BY <1>2, MonthsAre DEF DaysBeforeMonth, MonthLength
  <1>3. QED
    BY <1>1, <1>2

\* The hours since 1970 decide whether a moment is before or after a change.
LEMMA HoursDecide ==
    \A at, n \in Nat :
        /\ n * SecsPerDay + 2 * SecsPerHour <= at <=> n * 24 + 2 <= at \div SecsPerHour
        /\ at < n * SecsPerDay + 2 * SecsPerHour <=> at \div SecsPerHour < n * 24 + 2
  BY DEF SecsPerDay, SecsPerHour

\* summertime_EU() is the law, up to 2099 (functions.ino:248-261).
LEMMA Lawful ==
    ASSUME LastYear <= 129, NEW at, InCalendar(at), NEW a,
           a.year = breakTime(at).Year + 1970, a.month = breakTime(at).Month,
           a.day = breakTime(at).Day, a.hour = breakTime(at).Hour
    PROVE  summertime_EU(a) <=> Law(at)
  <1>1. PICK y \in Years : y = breakTime(at).Year
    BY Broken DEF DateOf
  <1>2. PICK m \in Months : m = breakTime(at).Month
    BY Broken DEF DateOf
  <1>3. PICK d \in 1 .. MonthLength(y, m) : d = breakTime(at).Day
    BY <1>1, <1>2, Broken DEF DateOf
  <1>4. at \in Nat /\ y \in 0 .. 129
    BY DaysBeforeIs DEF InCalendar, Years
  <1>5. PICK hours \in Nat : hours = at \div SecsPerHour
    BY <1>4 DEF SecsPerHour
  <1>6. PICK h \in 0 .. 23 : h = breakTime(at).Hour
    BY <1>5, Broken
  <1>7. MonthLength(y, m) \in 28 .. 31 /\ d \in Nat
    BY BeforeMonth
  <1>8. PICK base \in Nat : base = DaysBefore[y]
    BY DaysBeforeIs
  <1>9. PICK before \in Nat : before = DaysBeforeMonth(y, m)
    BY BeforeMonth
  <1>10. hours = 24 * (base + before + d - 1) + h
    <2>1. DayNumber(y, m, d) = at \div SecsPerDay /\ h = hours % 24
      BY <1>1, <1>2, <1>3, <1>5, <1>6, Broken DEF DateOf
    <2>2. at \div SecsPerDay = base + before + d - 1
      BY <1>7, <1>8, <1>9, <2>1 DEF DayNumber
    <2>3. at \div SecsPerDay = hours \div 24
      BY <1>4, <1>5 DEF SecsPerDay, SecsPerHour
    <2>4. hours = 24 * (hours \div 24) + (hours % 24)
      OBVIOUS
    <2>5. hours \div 24 = base + before + d - 1
      BY <2>2, <2>3
    <2>6. QED
      BY <1>6, <2>1, <2>4, <2>5
  <1>11. PICK march \in Nat : march = DaysBeforeMonth(y, 3)
    BY BeforeMonth DEF Months
  <1>12. PICK october \in Nat : october = DaysBeforeMonth(y, 10)
    BY BeforeMonth DEF Months
  <1>13. PICK k \in 0 .. 6 : k = ((5 * (y + 1970)) \div 4 + 4) % 7
    BY <1>4
  <1>14. PICK l \in 0 .. 6 : l = ((5 * (y + 1970)) \div 4 + 1) % 7
    BY <1>4
  <1>15. /\ LastSunday(y, 3) = base + march + 30 - k
         /\ LastSunday(y, 10) = base + october + 30 - l
    <2>1. /\ DayNumber(y, 3, 1) = base + march /\ DayNumber(y, 10, 1) = base + october
      BY <1>8, <1>11, <1>12 DEF DayNumber
    <2>2. QED
      BY <1>4, <1>13, <1>14, <2>1, LastSundays
  <1>16. Law(at) <=> /\ 24 * (base + march + 30 - k) + 2 <= hours
                     /\ hours < 24 * (base + october + 30 - l) + 2
    <2>1. PICK s \in Nat : s = base + march + 30 - k
      OBVIOUS
    <2>2. PICK u \in Nat : u = base + october + 30 - l
      OBVIOUS
    <2>3. Law(at) <=> /\ s * SecsPerDay + 2 * SecsPerHour <= at
                      /\ at < u * SecsPerDay + 2 * SecsPerHour
      BY <1>1, <1>15, <2>1, <2>2 DEF Law
    <2>4. Law(at) <=> s * 24 + 2 <= hours /\ hours < u * 24 + 2
      BY <1>4, <1>5, <2>3, HoursDecide
    <2>5. QED
      BY <2>1, <2>2, <2>4
  <1>17. summertime_EU(a) <=> /\ m \in 3 .. 10
                              /\ m = 3 => h + 24 * d >= 2 + 24 * (31 - k)
                              /\ m = 10 => h + 24 * d < 2 + 24 * (31 - l)
    <2>1. a.year = y + 1970 /\ a.month = m /\ a.day = d /\ a.hour = h
      BY <1>1, <1>2, <1>3, <1>6
    <2>2. QED
      BY <1>13, <1>14, <2>1 DEF summertime_EU
  <1>18. CASE m < 3
    <2>1. before + d <= march /\ march < october
      <3>1. 3 \in Months
        BY DEF Months
      <3>2. QED
        BY <1>3, <1>7, <1>9, <1>11, <1>12, <1>18, <3>1, MonthsApart
    <2>2. hours < 24 * (base + march + 30 - k)
      BY <1>10, <2>1
    <2>3. QED
      BY <1>16, <1>17, <1>18, <2>2
  <1>19. CASE m = 3
    <2>1. before = march /\ march + 31 <= october /\ d <= 31
      <3>1. 3 \in Months
        BY DEF Months
      <3>2. QED
        BY <1>3, <1>9, <1>11, <1>12, <1>19, <3>1, MonthsApart
    <2>2. hours < 24 * (base + october + 30 - l) + 2
      BY <1>10, <2>1
    <2>3. 24 * (base + march + 30 - k) + 2 <= hours <=> h + 24 * d >= 2 + 24 * (31 - k)
      BY <1>10, <2>1
    <2>4. QED
      BY <1>16, <1>17, <1>19, <2>2, <2>3
  <1>20. CASE m > 3 /\ m < 10
    <2>1. before >= march + 31 /\ before + d <= october
      BY <1>3, <1>7, <1>9, <1>11, <1>12, <1>20, MonthsApart
    <2>2. /\ 24 * (base + march + 30 - k) + 2 <= hours
          /\ hours < 24 * (base + october + 30 - l) + 2
      BY <1>10, <2>1
    <2>3. QED
      BY <1>16, <1>17, <1>20, <2>2 DEF Months
  <1>21. CASE m = 10
    <2>1. before = october /\ march + 31 <= october
      BY <1>9, <1>11, <1>12, <1>21, MonthsApart
    <2>2. 24 * (base + march + 30 - k) + 2 <= hours
      BY <1>10, <2>1
    <2>3. hours < 24 * (base + october + 30 - l) + 2 <=> h + 24 * d < 2 + 24 * (31 - l)
      BY <1>10, <2>1
    <2>4. QED
      BY <1>16, <1>17, <1>21, <2>2, <2>3
  <1>22. CASE m > 10
    <2>1. before >= october + 31
      BY <1>9, <1>12, <1>22, MonthsApart
    <2>2. ~(hours < 24 * (base + october + 30 - l) + 2)
      BY <1>10, <2>1
    <2>3. QED
      BY <1>16, <1>17, <1>22, <2>2
  <1>23. m \in Nat
    BY DEF Months
  <1>24. QED
    BY <1>18, <1>19, <1>20, <1>21, <1>22, <1>23

-------------------------------------------------------------------------------
(* The cache.                                                              *)

\* The clock is before the end of time, or has blocked once since.
TimeInv ==
    /\ asked \in BOOLEAN
    /\ time \in Nat \ {0}
    /\ time < EndOfTime + 51
    /\ ~asked => time < EndOfTime
    /\ pc = "idle" => ~asked

\* So is the local time, an hour later at most.
LocalInv == pc \in {"minute", "today"} => t # 0 /\ InCalendar(t)

\* The cache is empty, or tm is the whole date of its time.
CacheInv == cacheTime # 0 => InCalendar(cacheTime) /\ tm = breakTime(cacheTime)

DateInv == TimeInv /\ LocalInv /\ CacheInv

\* now() may block, once in a look.
Passes == \/ time' = time /\ UNCHANGED asked
          \/ ~asked /\ asked' = TRUE /\ \E d \in Blocked : time' = time + d

\* The calendar goes on for more than an hour after the end of time.
LEMMA EndIs ==
    /\ EndOfTime \in Nat
    /\ \A at \in Nat : at < EndOfTime + 51 + SecsPerHour => InCalendar(at)
  <1>1. DaysBefore[LastYear] \in Nat /\ YearLength(LastYear) \in {365, 366}
    BY DaysBeforeIs, YearLengthType DEF Years
  <1>2. EndOfTime \in Nat
    BY <1>1 DEF EndOfTime, SecsPerDay, SecsPerHour
  <1>3. ASSUME NEW at \in Nat, at < EndOfTime + 51 + SecsPerHour
        PROVE  InCalendar(at)
    <2>1. at < (DaysBefore[LastYear] + 1) * SecsPerDay
      BY <1>1, <1>3 DEF EndOfTime, SecsPerDay, SecsPerHour
    <2>2. at \div SecsPerDay < DaysBefore[LastYear] + 1
      BY <1>1, <2>1 DEF SecsPerDay, SecsPerHour
    <2>3. at \div SecsPerDay \in Nat
      BY DEF SecsPerDay, SecsPerHour
    <2>4. QED
      BY <1>1, <2>2, <2>3 DEF InCalendar
  <1>4. QED
    BY <1>2, <1>3

\* The clock does not go back, nor further than the calendar.
LEMMA Passing ==
    ASSUME TimeInv, Passes
    PROVE  /\ asked' \in BOOLEAN
           /\ time' \in Nat \ {0} /\ time' >= time
           /\ time' < EndOfTime + 51
           /\ ~asked' => time' < EndOfTime
           /\ InCalendar(time')
  <1>1. time \in Nat \ {0} /\ EndOfTime \in Nat
    BY EndIs DEF TimeInv
  <1>2. CASE time' = time /\ UNCHANGED asked
    <2>1. time < EndOfTime + 51 + SecsPerHour
      BY <1>1 DEF TimeInv, SecsPerHour
    <2>2. QED
      BY <1>1, <1>2, <2>1, EndIs DEF TimeInv
  <1>3. ASSUME ~asked, asked' = TRUE, NEW d \in Blocked, time' = time + d
        PROVE  /\ asked' \in BOOLEAN
               /\ time' \in Nat \ {0} /\ time' >= time
               /\ time' < EndOfTime + 51
               /\ ~asked' => time' < EndOfTime
               /\ InCalendar(time')
    <2>1. d \in 0 .. 50
      BY CalendarAssumption
    <2>2. time < EndOfTime
      BY <1>3 DEF TimeInv
    <2>3. time' \in Nat \ {0} /\ time' >= time /\ time' < EndOfTime + 51
      BY <1>1, <1>3, <2>1, <2>2
    <2>4. time' < EndOfTime + 51 + SecsPerHour
      BY <1>1, <2>3 DEF SecsPerHour
    <2>5. QED
      BY <1>3, <2>3, <2>4, EndIs
  <1>4. QED
    BY <1>2, <1>3 DEF Passes

\* What refreshCache() leaves.
LEMMA Refreshed ==
    ASSUME CacheInv, NEW at, at # 0, InCalendar(at), refreshCache(at)
    PROVE  tm' = breakTime(at) /\ CacheInv'
  <1>1. CASE at = cacheTime
    BY <1>1 DEF refreshCache, CacheInv, cache
  <1>2. CASE at # cacheTime
    <2>1. cacheTime' = at /\ tm' = breakTime(at)
      BY <1>2 DEF refreshCache
    <2>2. QED
      BY <2>1 DEF CacheInv
  <1>3. QED
    BY <1>1, <1>2

\* What hour(), day()... see: the broken-down present time.
LEMMA NowIs ==
    ASSUME TimeInv, CacheInv, Now
    PROVE  Passes /\ tm' = breakTime(time') /\ CacheInv'
  <1>1. Passes /\ refreshCache(time')
    BY DEF Now, Passes
  <1>2. time' # 0 /\ InCalendar(time')
    BY <1>1, Passing
  <1>3. QED
    BY <1>1, <1>2, Refreshed

LEMMA DateInit == Init => DateInv
  <1> SUFFICES ASSUME Init PROVE DateInv
    OBVIOUS
  <1>1. /\ time \in 1 .. EndOfTime - 1 /\ EndOfTime \in Nat
        /\ asked = FALSE /\ pc = "idle" /\ cacheTime = 0
    BY CalendarAssumption, EndIs DEF Init
  <1>2. TimeInv
    <2>1. asked \in BOOLEAN /\ ~asked
      BY <1>1
    <2>2. time \in Nat \ {0} /\ time < EndOfTime + 51 /\ time < EndOfTime
      BY <1>1
    <2>3. QED
      BY <2>1, <2>2 DEF TimeInv
  <1>3. LocalInv /\ CacheInv
    BY <1>1 DEF LocalInv, CacheInv
  <1>4. QED
    BY <1>2, <1>3 DEF DateInv

LEMMA DateStep == DateInv /\ [Next]_vars => DateInv'
  <1> SUFFICES ASSUME DateInv, [Next]_vars PROVE DateInv'
    OBVIOUS
  <1>1. TimeInv /\ LocalInv /\ CacheInv
    BY DEF DateInv
  <1>2. ASSUME Passes, pc' # "idle" PROVE TimeInv'
    BY <1>1, <1>2, Passing DEF TimeInv
  <1>3. CASE Look
    <2>1. Now /\ pc' \in {"read", "done"}
      BY <1>3 DEF Look
    <2>2. Passes /\ CacheInv'
      BY <1>1, <2>1, NowIs
    <2>3. QED
      BY <1>2, <2>1, <2>2 DEF DateInv, LocalInv
  <1>4. CASE Read
    <2>1. Now /\ pc' = "read"
      BY <1>4 DEF Read
    <2>2. Passes /\ CacheInv'
      BY <1>1, <2>1, NowIs
    <2>3. QED
      BY <1>2, <2>1, <2>2 DEF DateInv, LocalInv
  <1>5. CASE Summertime
    <2>1. /\ Passes /\ pc' = "minute" /\ UNCHANGED cache
          /\ t' = time' + (IF sommerzeit' THEN SecsPerHour ELSE 0)
      BY <1>5 DEF Summertime, Passes
    <2>2. /\ time' \in Nat \ {0} /\ time' < EndOfTime + 51 /\ EndOfTime \in Nat
      BY <1>1, <2>1, Passing, EndIs
    <2>3. t' \in Nat \ {0} /\ t' < EndOfTime + 51 + SecsPerHour
      <3>1. t' = time' + SecsPerHour \/ t' = time' + 0
        BY <2>1
      <3>2. QED
        BY <2>2, <3>1 DEF SecsPerHour
    <2>4. LocalInv'
      BY <2>3, EndIs DEF LocalInv
    <2>5. CacheInv'
      BY <1>1, <2>1 DEF CacheInv, cache
    <2>6. QED
      BY <1>2, <2>1, <2>4, <2>5 DEF DateInv
  <1>6. CASE Minute
    <2>1. Now /\ pc = "minute" /\ pc' \in {"today", "done"} /\ t' = t
      BY <1>6 DEF Minute, local
    <2>2. LocalInv'
      BY <1>1, <2>1 DEF LocalInv
    <2>3. QED
      BY <1>1, <1>2, <2>1, <2>2, NowIs DEF DateInv
  <1>7. CASE Today
    <2>1. pc = "today" /\ refreshCache(t) /\ pc' = "dated" /\ UNCHANGED <<time, asked>>
      BY <1>7 DEF Today
    <2>2. t # 0 /\ InCalendar(t)
      BY <1>1, <2>1 DEF LocalInv
    <2>3. CacheInv'
      BY <1>1, <2>1, <2>2, Refreshed
    <2>4. QED
      BY <1>1, <2>1, <2>3 DEF DateInv, TimeInv, LocalInv
  <1>8. CASE Elapse
    <2>1. /\ asked' = FALSE /\ pc' = "idle" /\ UNCHANGED cache /\ time' < EndOfTime
          /\ \E d \in Pauses : time' = time + d
      BY <1>8 DEF Elapse
    <2>2. time' \in Nat \ {0}
      BY <1>1, <2>1, CalendarAssumption DEF TimeInv
    <2>3. TimeInv'
      <3>1. asked' \in BOOLEAN /\ ~asked'
        BY <2>1
      <3>2. time' < EndOfTime + 51
        BY <2>1, <2>2, EndIs
      <3>3. QED
        BY <2>1, <2>2, <3>1, <3>2 DEF TimeInv
    <2>4. QED
      BY <1>1, <2>1, <2>3 DEF DateInv, LocalInv, CacheInv, cache
  <1>9. CASE UNCHANGED vars
    BY <1>1, <1>9 DEF vars, local, cache, DateInv, TimeInv, LocalInv, CacheInv
  <1>10. QED
    BY <1>3, <1>4, <1>5, <1>6, <1>7, <1>8, <1>9 DEF Next

\* The broken-down time in the cache is a date of the calendar, and the whole
\* date of the time it is kept for, whichever times are looked up in turn and
\* however the calls of now() block (Time.cpp:38-47).
THEOREM CacheStaysTheTime == Spec => []CacheIsTheTime
  <1>1. DateInv => CacheIsTheTime
    <2> SUFFICES ASSUME CacheInv, cacheTime # 0
                 PROVE  /\ makeTime(tm) = cacheTime
                        /\ tm.Month \in 1 .. 12
                        /\ tm.Day \in 1 .. MonthLength(tm.Year, tm.Month)
                        /\ tm.Day + DaysBeforeMonth(tm.Year, tm.Month) <= YearLength(tm.Year)
      BY DEF DateInv, CacheIsTheTime
    <2>1. InCalendar(cacheTime) /\ tm = breakTime(cacheTime)
      BY DEF CacheInv
    <2>2. DateOf(cacheTime, tm.Year, tm.Month, tm.Day) /\ makeTime(tm) = cacheTime
      BY <2>1, Broken, MadeAgain
    <2>3. QED
      BY <2>2 DEF DateOf, Months
  <1>2. QED
    BY <1>1, DateInit, DateStep, PTL DEF Spec

-------------------------------------------------------------------------------
(* The date of one look.                                                   *)

\* All that is read in a look is read within the minute whose second 0 it saw.
MinuteInv == pc \in {"read", "minute", "today"} =>
                 time % 60 <= (IF asked THEN 50 ELSE 0)

\* So the arguments of summertime_EU() are of one hour, the present one.
ReadInv == /\ DOMAIN read \subseteq Fields
           /\ pc # "read" => DOMAIN read = {}
           /\ \A f \in DOMAIN read : read[f] = Field(breakTime(time), f)

LocalTime == IF Law(time) THEN time + SecsPerHour ELSE time

\* t is the local time, to the minute.
SummerInv == pc \in {"minute", "today"} =>
                 /\ sommerzeit = Law(time)
                 /\ t \div 60 = LocalTime \div 60

DatedInv == pc = "dated" =>
    DayNumber(today.year - 1970, today.month + 1, today.day + 1) = LocalTime \div SecsPerDay

LookInv == DateInv /\ MinuteInv /\ ReadInv /\ SummerInv /\ DatedInv

\* Times of one minute are of one hour.
LEMMA HourOfMinute ==
    \A at \in Nat : \A other \in Nat :
        at \div 60 = other \div 60 => at \div SecsPerHour = other \div SecsPerHour
  BY DEF SecsPerHour

\* A call of now() that blocks stays in the minute whose second 0 was seen.
LEMMA SameMinute ==
    ASSUME TimeInv, Passes, time % 60 <= (IF asked THEN 50 ELSE 0)
    PROVE  /\ time' \div 60 = time \div 60
           /\ time' \div SecsPerHour = time \div SecsPerHour
           /\ time' % 60 <= (IF asked' THEN 50 ELSE 0)
  <1>1. time \in Nat /\ asked \in BOOLEAN
    BY DEF TimeInv
  <1>2. time' \div 60 = time \div 60 /\ time' % 60 <= (IF asked' THEN 50 ELSE 0)
    <2>1. CASE time' = time /\ UNCHANGED asked
      BY <2>1
    <2>2. ASSUME ~asked, asked' = TRUE, NEW d \in Blocked, time' = time + d
          PROVE  time' \div 60 = time \div 60 /\ time' % 60 <= (IF asked' THEN 50 ELSE 0)
      <3>1. d \in 0 .. 50
        BY CalendarAssumption
      <3>2. time % 60 = 0
        BY <1>1, <2>2
      <3>3. (time + d) \div 60 = time \div 60 /\ (time + d) % 60 <= 50
        BY <1>1, <3>1, <3>2
      <3>4. asked'
        BY <2>2
      <3>5. QED
        BY <2>2, <3>3, <3>4
    <2>3. QED
      BY <2>1, <2>2 DEF Passes
  <1>3. time' \in Nat
    BY Passing
  <1>4. time' \div 60 = time \div 60
    BY <1>2
  <1>5. time' \div SecsPerHour = time \div SecsPerHour
    <2>1. time \in Nat
      BY <1>1
    <2>2. QED
      BY <1>3, <1>4, <2>1, HourOfMinute
  <1>6. QED
    BY <1>2, <1>5

\* The four fields that loop() reads.
LEMMA FieldIs ==
    ASSUME NEW e
    PROVE  /\ Field(e, "year") = e.Year + 1970 /\ Field(e, "month") = e.Month
           /\ Field(e, "day") = e.Day /\ Field(e, "hour") = e.Hour
  BY DEF Field

\* They are the same within an hour.
LEMMA SameFields ==
    ASSUME NEW at \in Nat, NEW other \in Nat, at \div SecsPerHour = other \div SecsPerHour
    PROVE  \A f \in Fields : Field(breakTime(at), f) = Field(breakTime(other), f)
  BY OneDate, FieldIs DEF Fields

\* The law does not change within an hour.
LEMMA SameLaw ==
    ASSUME LastYear <= 129, NEW at, NEW other, InCalendar(at), InCalendar(other),
           at \div SecsPerHour = other \div SecsPerHour
    PROVE  Law(at) <=> Law(other)
  <1> DEFINE e == breakTime(at)
             a == [year |-> e.Year + 1970, month |-> e.Month, day |-> e.Day, hour |-> e.Hour]
  <1>1. /\ a.year = breakTime(at).Year + 1970 /\ a.month = breakTime(at).Month
        /\ a.day = breakTime(at).Day /\ a.hour = breakTime(at).Hour
    OBVIOUS
  <1>2. /\ a.year = breakTime(other).Year + 1970 /\ a.month = breakTime(other).Month
        /\ a.day = breakTime(other).Day /\ a.hour = breakTime(other).Hour
    <2>1. at \in Nat /\ other \in Nat
      BY DEF InCalendar
    <2>2. QED
      BY <1>1, <2>1, OneDate
  <1> HIDE DEF a
  <1>3. summertime_EU(a) <=> Law(at)
    BY <1>1, Lawful
  <1>4. summertime_EU(a) <=> Law(other)
    BY <1>2, Lawful
  <1>5. QED
    BY <1>3, <1>4

\* The law is a yes or no.
LEMMA LawType == \A at : Law(at) \in BOOLEAN
  BY DEF Law

\* Within a minute local time is of one minute, too.
LEMMA SameLocal ==
    ASSUME NEW at \in Nat, NEW other \in Nat, at \div 60 = other \div 60,
           NEW x \in BOOLEAN
    PROVE  (IF x THEN at + SecsPerHour ELSE at) \div 60
               = (IF x THEN other + SecsPerHour ELSE other) \div 60
  <1>1. (at + 3600) \div 60 = (other + 3600) \div 60
    OBVIOUS
  <1>2. QED
    BY <1>1 DEF SecsPerHour

LEMMA LookInit == Init => LookInv
  <1> SUFFICES ASSUME Init PROVE LookInv
    OBVIOUS
  <1>1. pc = "idle" /\ DOMAIN read = {}
    BY DEF Init
  <1>2. QED
    BY <1>1, DateInit DEF LookInv, MinuteInv, ReadInv, SummerInv, DatedInv

\* What happens to a date that is being read while a call of now() blocks.
LEMMA WhileReading ==
    ASSUME LastYear <= 129, LookInv, Passes, pc \in {"read", "minute", "today"}
    PROVE  /\ time' \in Nat
           /\ time' \div 60 = time \div 60
           /\ time' % 60 <= (IF asked' THEN 50 ELSE 0)
           /\ \A f \in Fields : Field(breakTime(time'), f) = Field(breakTime(time), f)
           /\ Law(time') <=> Law(time)
  <1>1. TimeInv /\ time % 60 <= (IF asked THEN 50 ELSE 0)
    BY DEF LookInv, DateInv, MinuteInv
  <1>2. /\ time' \div 60 = time \div 60
        /\ time' \div SecsPerHour = time \div SecsPerHour
        /\ time' % 60 <= (IF asked' THEN 50 ELSE 0)
    BY <1>1, SameMinute
  <1>3. time \in Nat /\ time' \in Nat /\ InCalendar(time')
    BY <1>1, Passing DEF TimeInv
  <1>4. InCalendar(time)
    <2>1. time < EndOfTime + 51 + SecsPerHour
      BY <1>1, EndIs DEF TimeInv, SecsPerHour
    <2>2. QED
      BY <1>3, <2>1, EndIs
  <1>5. QED
    BY <1>2, <1>3, <1>4, SameFields, SameLaw

LEMMA LookStep == LastYear <= 129 /\ LookInv /\ [Next]_vars => LookInv'
  <1> SUFFICES ASSUME LastYear <= 129, LookInv, [Next]_vars PROVE LookInv'
    OBVIOUS
  <1>1. DateInv /\ TimeInv /\ CacheInv /\ MinuteInv /\ ReadInv /\ SummerInv /\ DatedInv
    BY DEF LookInv, DateInv
  <1>2. DateInv'
    BY <1>1, DateStep
  <1>3. CASE Look
    <2>1. /\ Now /\ pc = "idle" /\ pc' = (IF SecondZero(tm') THEN "read" ELSE "done")
          /\ read' = read
      BY <1>3 DEF Look
    <2>2. DOMAIN read = {}
      BY <1>1, <2>1 DEF ReadInv
    <2>3. Passes /\ tm' = breakTime(time') /\ InCalendar(time') /\ time' \in Nat
      BY <1>1, <2>1, NowIs, Passing
    <2>4. pc' = "read" => time' % 60 = 0
      BY <2>1, <2>3, Broken DEF SecondZero
    <2>5. MinuteInv'
      <3>1. pc' \in {"read", "done"}
        BY <2>1
      <3>2. 0 <= (IF asked' THEN 50 ELSE 0)
        OBVIOUS
      <3>3. QED
        BY <2>4, <3>1, <3>2 DEF MinuteInv
    <2>6. ReadInv'
      BY <2>1, <2>2 DEF ReadInv
    <2>7. QED
      BY <1>2, <2>1, <2>5, <2>6 DEF LookInv, SummerInv, DatedInv
  <1>4. CASE Read
    <2>1. /\ Now /\ pc = "read" /\ pc' = "read"
      BY <1>4 DEF Read
    <2>2. PICK f \in Fields \ DOMAIN read :
              read' = [g \in DOMAIN read \cup {f} |-> IF g = f THEN Field(tm', f) ELSE read[g]]
      BY <1>4 DEF Read
    <2>3. Passes /\ tm' = breakTime(time')
      BY <1>1, <2>1, NowIs
    <2>4. /\ time' % 60 <= (IF asked' THEN 50 ELSE 0)
          /\ \A g \in Fields : Field(breakTime(time'), g) = Field(breakTime(time), g)
      BY <2>1, <2>3, WhileReading
    <2>5. DOMAIN read' = DOMAIN read \cup {f} /\ DOMAIN read' \subseteq Fields
      BY <1>1, <2>2 DEF ReadInv
    <2>6. ASSUME NEW g \in DOMAIN read' PROVE read'[g] = Field(breakTime(time'), g)
      <3>1. CASE g = f
        BY <2>2, <2>3, <3>1
      <3>2. CASE g # f
        <4>1. g \in DOMAIN read /\ read'[g] = read[g] /\ g \in Fields
          BY <2>2, <2>5, <3>2
        <4>2. QED
          BY <1>1, <2>4, <4>1 DEF ReadInv
      <3>3. QED
        BY <3>1, <3>2
    <2>7. ReadInv'
      BY <2>1, <2>5, <2>6 DEF ReadInv
    <2>8. QED
      BY <1>2, <2>1, <2>4, <2>7 DEF LookInv, MinuteInv, SummerInv, DatedInv
  <1>5. CASE Summertime
    <2>1. /\ Passes /\ pc = "read" /\ pc' = "minute" /\ DOMAIN read = Fields
          /\ sommerzeit' = summertime_EU(read) /\ DOMAIN read' = {}
          /\ t' = time' + (IF sommerzeit' THEN SecsPerHour ELSE 0)
      BY <1>5 DEF Summertime, Passes
    <2>2. /\ time' \in Nat /\ time' % 60 <= (IF asked' THEN 50 ELSE 0)
          /\ Law(time') <=> Law(time)
      BY <2>1, WhileReading
    <2>3. /\ read.year = breakTime(time).Year + 1970 /\ read.month = breakTime(time).Month
          /\ read.day = breakTime(time).Day /\ read.hour = breakTime(time).Hour
      BY <1>1, <2>1, FieldIs DEF ReadInv, Fields
    <2>4. InCalendar(time)
      <3>1. time \in Nat /\ time < EndOfTime + 51 + SecsPerHour
        BY <1>1, EndIs DEF TimeInv, SecsPerHour
      <3>2. QED
        BY <3>1, EndIs
    <2>5. summertime_EU(read) <=> Law(time)
      BY <2>3, <2>4, Lawful
    <2>6. sommerzeit' = Law(time')
      <3>1. summertime_EU(read) \in BOOLEAN
        BY DEF summertime_EU
      <3>2. QED
        BY <2>1, <2>2, <2>5, <3>1, LawType
    <2>7. t' = LocalTime'
      <3>1. CASE Law(time')
        <4>1. sommerzeit'
          BY <2>6, <3>1
        <4>2. QED
          BY <2>1, <3>1, <4>1 DEF LocalTime
      <3>2. CASE ~Law(time')
        <4>1. ~sommerzeit'
          BY <2>6, <3>2
        <4>2. t' = time' + 0
          BY <2>1, <4>1
        <4>3. time' \in Nat
          BY <2>2
        <4>4. \A n \in Nat : n + 0 = n
          OBVIOUS
        <4>5. t' = time'
          BY <4>2, <4>3, <4>4, Zenon
        <4>6. LocalTime' = time'
          BY <3>2 DEF LocalTime
        <4>7. QED
          BY <4>5, <4>6
      <3>3. QED
        BY <3>1, <3>2
    <2>8. MinuteInv'
      BY <2>2 DEF MinuteInv
    <2>9. ReadInv'
      BY <2>1 DEF ReadInv
    <2>10. SummerInv'
      BY <2>6, <2>7 DEF SummerInv
    <2>11. DatedInv'
      BY <2>1 DEF DatedInv
    <2>12. QED
      BY <1>2, <2>8, <2>9, <2>10, <2>11 DEF LookInv
  <1>6. CASE Minute
    <2>1. /\ Now /\ pc = "minute" /\ pc' \in {"today", "done"}
          /\ UNCHANGED <<t, sommerzeit, read>>
      BY <1>6 DEF Minute, local
    <2>2. Passes
      BY <1>1, <2>1, NowIs
    <2>3. /\ time' \in Nat /\ time' % 60 <= (IF asked' THEN 50 ELSE 0)
          /\ time' \div 60 = time \div 60 /\ (Law(time') <=> Law(time))
      BY <2>1, <2>2, WhileReading
    <2>4. DOMAIN read = {} /\ time \in Nat
      BY <1>1, <2>1 DEF ReadInv, TimeInv
    <2>5. Law(time') = Law(time)
      BY <2>3, LawType
    <2>6. LocalTime' \div 60 = LocalTime \div 60
      BY <2>3, <2>4, <2>5, LawType, SameLocal DEF LocalTime
    <2>7. SummerInv'
      BY <1>1, <2>1, <2>5, <2>6 DEF SummerInv
    <2>8. MinuteInv'
      BY <2>3 DEF MinuteInv
    <2>9. ReadInv'
      BY <2>1, <2>4 DEF ReadInv
    <2>10. DatedInv'
      BY <2>1 DEF DatedInv
    <2>11. QED
      BY <1>2, <2>7, <2>8, <2>9, <2>10 DEF LookInv
  <1>7. CASE Today
    <2>1. /\ pc = "today" /\ pc' = "dated" /\ refreshCache(t) /\ UNCHANGED <<time, read>>
          /\ today' = [year |-> tm'.Year + 1970, month |-> tm'.Month - 1, day |-> tm'.Day - 1]
      BY <1>7 DEF Today
    <2>2. t # 0 /\ InCalendar(t)
      BY <1>1, <2>1 DEF DateInv, LocalInv
    <2>3. tm' = breakTime(t)
      BY <1>1, <2>1, <2>2, Refreshed
    <2>4. DateOf(t, tm'.Year, tm'.Month, tm'.Day)
      BY <2>2, <2>3, Broken
    <2>5. tm'.Year \in Int /\ tm'.Month \in Int /\ tm'.Day \in Int
      BY <2>4, BeforeMonth DEF DateOf, Years, Months
    <2>6. /\ today'.year - 1970 = tm'.Year /\ today'.month + 1 = tm'.Month
          /\ today'.day + 1 = tm'.Day
      BY <2>1, <2>5
    <2>7. DayNumber(today'.year - 1970, today'.month + 1, today'.day + 1) = t \div SecsPerDay
      BY <2>4, <2>6 DEF DateOf
    <2>8. t \div SecsPerDay = LocalTime \div SecsPerDay
      <3>1. t \in Nat /\ LocalTime \in Nat /\ t \div 60 = LocalTime \div 60
        BY <1>1, <2>1, <2>2 DEF InCalendar, SummerInv, TimeInv, LocalTime, SecsPerHour
      <3>2. QED
        BY <3>1 DEF SecsPerDay, SecsPerHour
    <2>9. LocalTime' = LocalTime
      BY <2>1 DEF LocalTime, Law
    <2>10. DatedInv'
      BY <2>7, <2>8, <2>9 DEF DatedInv
    <2>11. DOMAIN read = {}
      BY <1>1, <2>1 DEF ReadInv
    <2>12. QED
      BY <1>2, <2>1, <2>10, <2>11 DEF LookInv, MinuteInv, ReadInv, SummerInv
  <1>8. CASE Elapse
    <2>1. pc # "read" /\ pc' = "idle" /\ read' = read
      BY <1>8 DEF Elapse
    <2>2. DOMAIN read = {}
      BY <1>1, <2>1 DEF ReadInv
    <2>3. QED
      BY <1>2, <2>1, <2>2 DEF LookInv, MinuteInv, ReadInv, SummerInv, DatedInv
  <1>9. CASE UNCHANGED vars
    <2>1. UNCHANGED <<time, asked, pc, read, sommerzeit, t, today>>
      BY <1>9 DEF vars, local
    <2>2. LocalTime' = LocalTime /\ Law(time') = Law(time)
      BY <2>1 DEF LocalTime, Law
    <2>3. MinuteInv'
      BY <1>1, <2>1 DEF MinuteInv
    <2>4. ReadInv'
      BY <1>1, <2>1 DEF ReadInv
    <2>5. SummerInv'
      BY <1>1, <2>1, <2>2 DEF SummerInv
    <2>6. DatedInv'
      BY <1>1, <2>1, <2>2 DEF DatedInv
    <2>7. QED
      BY <1>2, <2>3, <2>4, <2>5, <2>6 DEF LookInv
  <1>10. QED
    BY <1>3, <1>4, <1>5, <1>6, <1>7, <1>8, <1>9 DEF Next

\* However often the clock is read, in whatever order and however long one of
\* the calls blocks, sommerzeit is the law's and today the local day, for a
\* calendar that ends no later than with 2099 (loop.ino:18-43, functions.ino:248-261).
THEOREM DateStaysLocal == ASSUME LastYear <= 129 PROVE Spec => []DateIsLocal
  <1>1. LookInv => DateIsLocal
    BY DEF LookInv, SummerInv, DatedInv, LocalTime, DateIsLocal
  <1>2. LookInv /\ [Next]_vars => LookInv'
    BY LookStep
  <1>3. QED
    BY <1>1, <1>2, LookInit, PTL DEF Spec
===============================================================================
