-------------------------------- MODULE EspLog --------------------------------
(***************************************************************************)
(* The sketch's own core (esplog.ino, loop.ino, functions.ino, setup.ino): *)
(* the interrupt routine that counts S0 pulses, the five-minute work of    *)
(* loop() that books them as Wh into the yield table, the midnight work,   *)
(* the copy of the table in the EEPROM, the backup file, and a restart at  *)
(* any moment.                                                             *)
(*                                                                         *)
(* The interrupt routine and the passage of time interleave with every     *)
(* step of loop(); `pc' is cut where another actor's step, or a loss of    *)
(* power, makes a difference.                                              *)
(***************************************************************************)
EXTENDS Naturals, FiniteSetsExt

CONSTANTS
    MonthsPerYear, DaysPerMonth, SlotsPerDay,
    DaysIn,           \* the length of each month
    Summer,           \* the moments (standard time) in daylight saving time
    HourMarks,        \* the marks by which summer time runs ahead, 12 in the code
    WhPerKwh,         \* 1000 in the code
    ImpulseProKwh,    \* pulses per kWh; 0 disables the booking
    Blank, NoBuffer,  \* see Eeprom
    Images,           \* what the EEPROM may hold when the logger is installed
    NoFile, Partial, Garbage,  \* states of the backup file
    BootMoments,      \* the moments at which a boot may happen
    Events,           \* what may happen besides pulses and time, see EventKinds
    MaxPulses         \* bounds the pulses of a behaviour

Months == 0 .. MonthsPerYear - 1
Days   == 0 .. DaysPerMonth - 1
Slots  == 0 .. SlotsPerDay - 1     \* five-minute marks of a day

\* A day of the yield table, and the cell of the EEPROM that keeps it.
Cells   == Months \X Days
Moments == [month : Months, day : Days, slot : Slots]
Wh      == Nat

(* "missed"   loop() is not back in time to see second 0 of a mark         *)
(* "restart"  the logger restarts while loop() waits                       *)
(* "crash"    the power fails at any moment, also in the middle of work     *)
(* "outage"   the logger stays off while marks pass                        *)
(* "flash"    the flash refuses to be erased or written                    *)
(* "web"      a user runs clrrom or backup on the setup page               *)
EventKinds == {"missed", "restart", "crash", "outage", "flash", "web"}

ASSUME CalendarAssumption ==
    /\ MonthsPerYear \in Nat \ {0, 1}
    /\ DaysPerMonth \in Nat \ {0}
    /\ SlotsPerDay \in Nat \ {0, 1}
    /\ DaysIn \in [Months -> 1 .. DaysPerMonth]
    /\ Summer \subseteq Moments
    /\ HourMarks \in 1 .. SlotsPerDay - 1
    /\ BootMoments \subseteq Moments

ASSUME ValueAssumption ==
    /\ WhPerKwh \in Nat \ {0}
    /\ ImpulseProKwh \in Nat
    /\ Blank \in Wh
    /\ NoBuffer \notin [Cells -> Wh]
    /\ Images \subseteq [Cells -> Wh]
    /\ {NoFile, Partial, Garbage} \cap [Cells -> Wh] = {}

ASSUME EnvironmentAssumption ==
    /\ Events \subseteq EventKinds
    /\ MaxPulses \in Nat

VARIABLES
    \* the environment
    clock,       \* the current five-minute slot, standard time
    due,         \* second 0 of the current mark has not been polled yet
    impulse,     \* history: pulses the interrupt routine has seen
    verbucht,    \* history: pulses read by a booking
    verloren,    \* history: pulses forgotten without having been booked
    \* RAM of the sketch
    counter, tagesCounter, ausgabe, fuenfMinutenZaehler, yesterday,
    t,           \* local time of the mark that is (or was last) worked on
    ziel,        \* the day the running FuenfMinutenTimer books into
    caller,      \* who runs backup2file or deleteEEPROM: "loop" or "web"
    pc,
    \* SPIFFS
    backup,      \* /backup.csv
    \* the EEPROM library
    flash, data, dirty, phase, erased

EEPROM == INSTANCE Eeprom WITH Addr <- Cells, FlashFails <- "flash" \in Events

environment == <<clock, due>>
history     == <<impulse, verbucht, verloren>>
display     == <<ausgabe, fuenfMinutenZaehler>>
eeprom      == <<flash, data, dirty, phase, erased>>
control     == <<t, ziel, caller, yesterday>>
vars == <<environment, history, counter, tagesCounter, display, control, pc,
          backup, eeprom>>

-------------------------------------------------------------------------------
(* Time.                                                                   *)

LastSlot == SlotsPerDay - 1    \* 23:55

\* Five minutes later.
Successor(m) ==
    IF m.slot < LastSlot
      THEN [month |-> m.month, day |-> m.day, slot |-> m.slot + 1]
    ELSE IF m.day + 1 < DaysIn[m.month]
      THEN [month |-> m.month, day |-> m.day + 1, slot |-> 0]
    ELSE [month |-> (m.month + 1) % MonthsPerYear, day |-> 0, slot |-> 0]

\* Midnight after m.
NextDay(m) == Successor([m EXCEPT !.slot = LastSlot])

\* An hour later.
HourLater(m) ==
    IF m.slot + HourMarks < SlotsPerDay
      THEN [m EXCEPT !.slot = @ + HourMarks]
      ELSE [NextDay(m) EXCEPT !.slot = m.slot + HourMarks - SlotsPerDay]

\* Local time (loop.ino:25-34).
Local(m) == IF m \in Summer THEN HourLater(m) ELSE m

Date(m) == <<m.month, m.day>>

\* The clock is changed at night, but not around midnight (summertime_EU()
\* in functions.ino): both marks at which it changes are in the same day,
\* and neither in its last hour nor its midnight.
ASSUME SummerAssumption ==
    \A m \in Moments : (m \in Summer) # (Successor(m) \in Summer) =>
        /\ Date(Local(Successor(m))) = Date(Local(m))
        /\ Local(m).slot <= SlotsPerDay - HourMarks
        /\ Local(Successor(m)).slot # 0

today == Date(t)

\* The clock is set back on that day: it has an hour more than the others.
SetBack(date) ==
    \E m \in Summer : Successor(m) \notin Summer /\ Date(Local(m)) = date

\* Slip: rounded up instead of down.
WhRoundedUp(n) ==
    IF ImpulseProKwh > 0
      THEN (n * WhPerKwh + ImpulseProKwh - 1) \div ImpulseProKwh ELSE 0

\* The Wh of n pulses, in the integer arithmetic of functions.ino:9.
WhOf(n) == IF ImpulseProKwh > 0 THEN (n * WhPerKwh) \div ImpulseProKwh ELSE 0

\* Adding to a cell whose flash was blank leaves the range of an unsigned
\* int on the way back from float: it wraps or it saturates.
Sums(value, wh) == IF value = Blank THEN {0, Blank} ELSE {value + wh}

MonthOf(table, month) == SumFunctionOnSet(table, {month} \X Days)
YearOf(table) == SumFunctionOnSet(table, Cells)

-------------------------------------------------------------------------------
(* Power.                                                                  *)

NoTable == [c \in Cells |-> 0]
NoYield == [tag |-> 0, monat |-> 0, jahr |-> 0, maximal |-> 0, leistung |-> 0,
            zaehler |-> 0]

\* Pulses that are counted and that no booking has read yet.
Pending == IF pc \in {"power", "reset"} THEN 0 ELSE counter

\* The globals as the startup code leaves them (esplog.ino:84-132).
RamLost == /\ counter' = 0
           /\ tagesCounter' = NoTable
           /\ ausgabe' = NoYield
           /\ fuenfMinutenZaehler' = [s \in Slots |-> 0]
           /\ yesterday' = <<0, 0>>
           /\ ziel' = <<0, 0>>
           /\ caller' = "loop"

Init == /\ clock \in BootMoments
        /\ due = FALSE
        /\ impulse = 0 /\ verbucht = 0 /\ verloren = 0
        /\ counter = 0
        /\ tagesCounter = NoTable
        /\ ausgabe = NoYield
        /\ fuenfMinutenZaehler = [s \in Slots |-> 0]
        /\ yesterday = <<0, 0>>
        /\ t = clock
        /\ ziel = <<0, 0>>
        /\ caller = "loop"
        /\ pc = "off"
        /\ backup = NoFile
        /\ \E image \in Images : EEPROM!EepromInit(image)

TurnOff == /\ pc' = "off"
           /\ "outage" \in Events \/ clock \in BootMoments
           /\ EEPROM!PowerOff
           /\ RamLost
           /\ verloren' = verloren + Pending
           /\ due' = FALSE
           /\ UNCHANGED <<clock, impulse, verbucht, t, backup>>

\* ESP.restart() from the setup page, or a loss of power while loop() waits.
Restart == /\ "restart" \in Events
           /\ pc = "idle"
           /\ due => "missed" \in Events
           /\ TurnOff

PowerLoss == /\ "crash" \in Events
             /\ pc # "off"
             /\ TurnOff

\* setupNtp(): the clock is set, today is derived from local time.
SetupNtp == /\ pc = "off"
            /\ clock \in BootMoments
            /\ t' = Local(clock)
            /\ pc' = "setup"
            /\ UNCHANGED <<environment, history, counter, tagesCounter, display,
                           ziel, caller, yesterday, backup, eeprom>>

\* setupEeprom() and the rest of setup().  The day's yield is looked up with
\* month() and day(), which are standard time; the month's with today.
SetupEeprom ==
    /\ pc = "setup"
    /\ EEPROM!Begin
    /\ tagesCounter' = flash
    /\ ausgabe' = [NoYield EXCEPT !.tag   = flash[Date(clock)],
                                  !.monat = MonthOf(flash, t.month),
                                  !.jahr  = YearOf(flash)]
    /\ pc' = "idle"
    /\ UNCHANGED <<environment, history, counter, fuenfMinutenZaehler, control,
                   backup>>

-------------------------------------------------------------------------------
(* The interrupt routine and the passage of time.                          *)

DeletionSteps == {"backup", "backupWrite", "delete", "deleteCommit", "deleteEnd"}

\* interruptRoutineFalling().  commit() runs with interrupts off.  A pulse
\* that comes after a booking has read the counter and before the counter
\* is set to 0 is forgotten.
interruptRoutineFalling ==
    /\ pc \notin {"off", "setup"} /\ ~erased
    /\ impulse < MaxPulses
    /\ impulse' = impulse + 1
    /\ counter' = counter + 1
    /\ verloren' = IF pc \in {"power", "reset"} THEN verloren + 1 ELSE verloren
    /\ UNCHANGED <<environment, verbucht, tagesCounter, display, control, pc,
                   backup, eeprom>>

\* loop() has no five-minute work to do: it waits, or serves the setup page.
NoWork == \/ pc \in {"idle", "deleteRAM"}
          \/ caller = "web" /\ pc \in DeletionSteps

\* The next five-minute mark.  Five-minute work that lasts until the next
\* mark (a slow FHEM host) counts as a missed mark.
Tick == /\ ~due
        /\ \/ NoWork
           \/ pc = "off" /\ "outage" \in Events
           \/ pc # "off" /\ "missed" \in Events
        /\ clock' = Successor(clock)
        /\ due' = (pc \notin {"off", "setup"})
        /\ UNCHANGED <<history, counter, tagesCounter, display, control, pc,
                       backup, eeprom>>

\* Second 0 of the mark is over before loop() looked at the clock.
MarkMissed == /\ "missed" \in Events
              /\ due
              /\ due' = FALSE
              /\ UNCHANGED <<clock, history, counter, tagesCounter, display,
                             control, pc, backup, eeprom>>

-------------------------------------------------------------------------------
(* loop(): the five-minute work.                                           *)

\* The sketch is at p and no call of the EEPROM library is running.
At(p) == pc = p /\ phase = "ready"

\* Slip: midnight, too, books into the day that has just begun.
AlwaysToday(now) == Date(now)

\* The day the five minutes up to local time now belong to.
BookedDay(now) == IF now.slot = 0 THEN yesterday ELSE Date(now)

\* loop.ino:18-49, :77: the mark is seen; at midnight the last five minutes
\* go to yesterday, otherwise to today.
Poll == /\ At("idle")
        /\ due
        /\ due' = FALSE
        /\ t' = Local(clock)
        /\ ziel' = BookedDay(Local(clock))
        /\ pc' = "book"
        /\ UNCHANGED <<clock, history, counter, tagesCounter, display, caller,
                       yesterday, backup, eeprom>>

\* FuenfMinutenTimer(), functions.ino:7-27.
Book ==
    /\ At("book")
    /\ verbucht' = verbucht + counter
    /\ IF ImpulseProKwh > 0
         THEN LET tmp == WhOf(counter)
              IN /\ \E sum \in Sums(tagesCounter[ziel], tmp) :
                       tagesCounter' = [tagesCounter EXCEPT ![ziel] = sum]
                 /\ ausgabe' = [ausgabe EXCEPT !.tag = @ + tmp, !.monat = @ + tmp,
                                               !.jahr = @ + tmp, !.zaehler = @ + tmp]
         ELSE UNCHANGED <<tagesCounter, ausgabe>>
    /\ pc' = "power"
    /\ UNCHANGED <<environment, impulse, verloren, counter, fuenfMinutenZaehler,
                   control, backup, eeprom>>

\* functions.ino:31-41: the counter is read again; hour() and minute() are
\* standard time and read now.
Power ==
    /\ At("power")
    /\ fuenfMinutenZaehler' = [fuenfMinutenZaehler EXCEPT ![clock.slot] = counter]
    /\ ausgabe' = [ausgabe EXCEPT !.leistung = counter,
                                  !.maximal = IF counter > @ THEN counter ELSE @]
    /\ pc' = "reset"
    /\ UNCHANGED <<environment, history, counter, tagesCounter, control, backup,
                   eeprom>>

\* Slip: the counter is not cleared.
ResetForgotten == /\ At("reset")
                  /\ pc' = "putToday"
                  /\ UNCHANGED <<environment, history, counter, tagesCounter,
                                 display, control, backup, eeprom>>

\* functions.ino:43.
Reset == /\ At("reset")
         /\ counter' = 0
         /\ pc' = "putToday"
         /\ UNCHANGED <<environment, history, tagesCounter, display, control,
                        backup, eeprom>>

\* putEeprom(): nothing to do if the buffer already has the value.  Once the
\* EEPROM is closed get() leaves tmp uninitialised and either branch is taken.
PutEeprom(cell, committing, next) ==
    /\ \/ /\ EEPROM!Open => data[cell] = tagesCounter[cell]
          /\ pc' = next
          /\ UNCHANGED eeprom
       \/ /\ EEPROM!Open => data[cell] # tagesCounter[cell]
          /\ EEPROM!Put([c \in {cell} |-> tagesCounter[cell]])
          /\ pc' = committing
    /\ UNCHANGED <<environment, history, counter, tagesCounter, display, control,
                   backup>>

\* Slip: commit() is called until it answers true, which a closed EEPROM
\* never does.
CommitUntilStored(next) ==
    /\ EEPROM!Commit
    /\ pc' = IF EEPROM!Open THEN next ELSE pc
    /\ UNCHANGED <<environment, history, counter, tagesCounter, display, control,
                   backup>>

\* delay(200) is over, commit() is called.
CommitPut(next) ==
    /\ EEPROM!Commit
    /\ pc' = next
    /\ UNCHANGED <<environment, history, counter, tagesCounter, display, control,
                   backup>>

AfterBooking == IF t.slot = 0 THEN "putYesterday" ELSE "mark"

\* Slip: only the booked cell of yesterday is saved.
PutTodaySkipped ==
    /\ At("putToday")
    /\ pc' = AfterBooking
    /\ UNCHANGED <<environment, history, counter, tagesCounter, display, control,
                   backup, eeprom>>

\* functions.ino:44 saves today's cell, whatever day was booked.
PutToday    == At("putToday") /\ PutEeprom(today, "commitToday", AfterBooking)
CommitToday == At("commitToday") /\ CommitPut(AfterBooking)

\* Slip: FuenfMinutenTimer is trusted to have saved the day it booked.
PutYesterdaySkipped ==
    /\ At("putYesterday")
    /\ pc' = "newDay"
    /\ UNCHANGED <<environment, history, counter, tagesCounter, display, control,
                   backup, eeprom>>

\* loop.ino:49.
PutYesterday ==
    At("putYesterday") /\ PutEeprom(yesterday, "commitYesterday", "newDay")
CommitYesterday == At("commitYesterday") /\ CommitPut("newDay")

\* Slip: day() is stored without the -1 of the array index.
MarkedDayOffByOne == IF t.slot = LastSlot THEN <<t.month, t.day + 1>> ELSE yesterday

\* At 23:55 today is remembered as yesterday.
MarkedDay == IF t.slot = LastSlot THEN today ELSE yesterday

\* loop.ino:80-85, at 23:55.
Mark == /\ At("mark")
        /\ yesterday' = MarkedDay
        /\ pc' = "idle"
        /\ UNCHANGED <<environment, history, counter, tagesCounter, display, t,
                       ziel, caller, backup, eeprom>>

\* Slips: the maximum, the day's or the month's yield goes on.
PeakGoesOn  == [ausgabe EXCEPT !.tag = 0, !.monat = IF t.day = 0 THEN 0 ELSE @]
DayGoesOn   == [ausgabe EXCEPT !.maximal = 0, !.monat = IF t.day = 0 THEN 0 ELSE @]
MonthGoesOn == [ausgabe EXCEPT !.tag = 0, !.maximal = 0]

\* loop.ino:56-64.
NewDayYields == [ausgabe EXCEPT !.tag = 0, !.maximal = 0,
                                !.monat = IF t.day = 0 THEN 0 ELSE @]

\* Slip: the deletion comes without the backup.
DeletionFirst == IF t.month = 0 THEN "delete" ELSE "idle"

\* loop.ino:67-71, in January the backup and the deletion follow.
AfterNewDay == IF t.month = 0 THEN "backup" ELSE "idle"

\* loop.ino:53-68: a new day, perhaps a new month.  The month's cells are
\* cleared in RAM only.
NewDay ==
    /\ At("newDay")
    /\ fuenfMinutenZaehler' = [s \in Slots |-> 0]
    /\ ausgabe' = NewDayYields
    /\ tagesCounter' = IF t.day = 0
                         THEN [c \in Cells |-> IF c[1] = t.month THEN 0
                                                               ELSE tagesCounter[c]]
                         ELSE tagesCounter
    /\ caller' = "loop"
    /\ pc' = AfterNewDay
    /\ UNCHANGED <<environment, history, counter, t, ziel, yesterday, backup,
                   eeprom>>

\* loop.ino:72.
NewYear == /\ At("newYear")
           /\ ausgabe' = [ausgabe EXCEPT !.jahr = 0]
           /\ pc' = "idle"
           /\ UNCHANGED <<environment, history, counter, tagesCounter,
                          fuenfMinutenZaehler, control, backup, eeprom>>

-------------------------------------------------------------------------------
(* Backup and deletion, for loop() in January and for the setup page.      *)

\* handleSetup(), "backup" and "clrrom".
HandleSetup == /\ "web" \in Events
               /\ At("idle")
               /\ due => "missed" \in Events
               /\ caller' = "web"
               /\ pc' \in {"backup", "delete"}
               /\ UNCHANGED <<environment, history, counter, tagesCounter, display,
                              t, ziel, yesterday, backup, eeprom>>

\* backup2file(): open() with "w+" empties the file.
BackupOpen == /\ At("backup")
              /\ backup' = Partial
              /\ pc' = "backupWrite"
              /\ UNCHANGED <<environment, history, counter, tagesCounter, display,
                             control, eeprom>>

\* The cells are read from the EEPROM; a closed one leaves tmp uninitialised.
BackupWrite == /\ At("backupWrite")
               /\ backup' = IF EEPROM!Open THEN data ELSE Garbage
               /\ pc' = IF caller = "loop" THEN "delete" ELSE "idle"
               /\ UNCHANGED <<environment, history, counter, tagesCounter, display,
                              control, eeprom>>

\* deleteEEPROM(): clear the buffer, commit(), end().
DeletePut == /\ At("delete")
             /\ EEPROM!Put(NoTable)
             /\ pc' = "deleteCommit"
             /\ UNCHANGED <<environment, history, counter, tagesCounter, display,
                            control, backup>>

DeleteCommit == At("deleteCommit") /\ CommitPut("deleteEnd")

DeleteEnd == /\ At("deleteEnd")
             /\ EEPROM!End
             /\ pc' = IF caller = "loop" THEN "newYear" ELSE "deleteRAM"
             /\ UNCHANGED <<environment, history, counter, tagesCounter, display,
                            control, backup>>

\* deleteRAM(), after the deletion asked for on the setup page.
DeleteRAM == /\ At("deleteRAM")
             /\ tagesCounter' = NoTable
             /\ ausgabe' = [ausgabe EXCEPT !.tag = 0, !.monat = 0, !.jahr = 0]
             /\ counter' = 0
             /\ verloren' = verloren + counter
             /\ pc' = "idle"
             /\ UNCHANGED <<environment, impulse, verbucht, fuenfMinutenZaehler,
                            control, backup, eeprom>>

\* The steps of a commit() or end() that is running.
Flash == /\ EEPROM!EepromStep
         /\ UNCHANGED <<environment, history, counter, tagesCounter, display,
                        control, pc, backup>>

-------------------------------------------------------------------------------
FiveMinuteWork == \/ Poll \/ Book \/ Power \/ Reset
                  \/ PutToday \/ CommitToday \/ Mark
                  \/ PutYesterday \/ CommitYesterday \/ NewDay \/ NewYear

Deletion == \/ BackupOpen \/ BackupWrite
            \/ DeletePut \/ DeleteCommit \/ DeleteEnd \/ DeleteRAM

Setup == SetupNtp \/ SetupEeprom

Sketch == Setup \/ FiveMinuteWork \/ Deletion \/ Flash

Next == \/ Sketch
        \/ HandleSetup
        \/ interruptRoutineFalling
        \/ Tick \/ MarkMissed
        \/ Restart \/ PowerLoss

Spec == Init /\ [][Next]_vars

\* loop() is called again and again, and time goes on.
FairSpec == Spec /\ WF_vars(Sketch) /\ WF_vars(Tick)

-------------------------------------------------------------------------------
(* What the logger promises.                                               *)

Control == {"off", "setup", "idle", "book", "power", "reset",
            "putToday", "commitToday", "putYesterday", "commitYesterday",
            "mark", "newDay", "newYear", "backup", "backupWrite",
            "delete", "deleteCommit", "deleteEnd", "deleteRAM"}

StateOK ==
    /\ clock \in Moments
    /\ due \in BOOLEAN
    /\ impulse \in Nat /\ verbucht \in Nat /\ verloren \in Nat
    /\ counter \in Nat
    /\ tagesCounter \in [Cells -> Wh]
    /\ fuenfMinutenZaehler \in [Slots -> Nat]
    /\ yesterday \in Cells
    /\ t \in Moments
    /\ ziel \in Cells
    /\ caller \in {"loop", "web"}
    /\ pc \in Control
    /\ backup \in [Cells -> Wh] \cup {NoFile, Partial, Garbage}
    /\ EEPROM!EepromTypeOK

YieldsOK == ausgabe \in [tag : Wh, monat : Wh, jahr : Wh, maximal : Nat,
                         leistung : Nat, zaehler : Wh]

TypeOK == StateOK /\ YieldsOK

\* Every pulse is booked exactly once, or still counted, or was forgotten at
\* one of the known moments: in the window between reading the counter
\* (functions.ino:9) and clearing it (:43), by a loss of power, by clrrom.
PulseBalance == impulse = verbucht + verloren + Pending

\* The Wh in a table, cells of an erased sector aside.
WhIn(table) ==
    SumFunction([c \in Cells |-> IF table[c] = Blank THEN 0 ELSE table[c]])

\* Neither the table in RAM nor the one in flash ever shows more energy than
\* the booked pulses stand for, whatever restarts, deletions and month
\* changes happen: no pulse is in two days, no restored value is added twice.
NoEnergyInvented ==
    \A table \in {tagesCounter, flash} :
        WhIn(table) * ImpulseProKwh <= verbucht * WhPerKwh

\* While loop() waits, a cell in RAM differs from the one in flash only if
\* it was cleared in RAM (loop.ino:60-65), as long as the EEPROM is open and
\* no commit has failed.
OnlyClearedCellsDiffer ==
    pc = "idle" /\ EEPROM!Open /\ ~dirty =>
        \A c \in Cells : tagesCounter[c] \in {0, flash[c]}

\* With no mark missed and no crash the EEPROM holds the whole table while
\* loop() waits, unless a deletion has closed it: a restart loses no day.
TableStored == pc = "idle" /\ EEPROM!Open => flash = tagesCounter

\* The displayed month's yield is the sum of the month's days, also after a
\* restart (setup.ino:192) and a change of month (loop.ino:60-65).
MonthIsSumOfDays ==
    pc = "idle" => ausgabe.monat = MonthOf(tagesCounter, t.month)

\* The displayed day's yield is what the table holds for today.
DayMatchesTable == pc = "idle" => ausgabe.tag = tagesCounter[today]

\* Some mark of the curve has the displayed maximum.
PeakInCurve ==
    ausgabe.maximal > 0 =>
        \E s \in Slots : fuenfMinutenZaehler[s] = ausgabe.maximal

\* The curve has a slot for every mark of a day of 24 hours, chosen by
\* standard time (functions.ino:34).  In the last hour of the day on which
\* the clock is set back the slots of its first hour are written again.
Overwritten == SetBack(today) /\ t.slot > SlotsPerDay - HourMarks

\* The displayed maximum is the highest value of the day's curve, although
\* the curve is written by standard time and the day ends by local time: no
\* value exceeds it, and some slot has it unless the day's first hour is
\* being overwritten.
PeakOfCurve ==
    pc = "idle" =>
        /\ \A s \in Slots : fuenfMinutenZaehler[s] <= ausgabe.maximal
        /\ Overwritten \/ PeakInCurve

\* The five minutes that end at a mark are booked into the local day in
\* which they began (loop.ino:48, :77).
LastFiveMinutes ==
    pc = "book" =>
        \E before \in Moments : /\ Successor(before) = clock
                                /\ ziel = Date(Local(before))

\* When the January deletion erases the sector, the backup file holds the
\* very table that is erased (loop.ino:70-71).
DeletedYearIsBackedUp ==
    [][pc = "deleteEnd" /\ caller = "loop" /\ erased' /\ ~erased
         => backup = flash]_vars

\* Every pulse is booked sooner or later, or dropped by a restart.
PulsesGetBooked == counter > 0 ~> counter = 0

-------------------------------------------------------------------------------
(* What comments in the code say of it, and the code does not keep.        *)

\* "Ertragsdaten Array in das SPPIF sichern" (loop.ino:70): what the backup
\* leaves in the file are yields.
BackupHoldsYields == backup # Garbage
===============================================================================
