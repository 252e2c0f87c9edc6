----------------------------- MODULE EspLog_proof -----------------------------
(***************************************************************************)
(* Proofs about EspLog for every calendar, every pulse constant and every  *)
(* choice of Events: the types of the state, the balance of the pulses,    *)
(* the agreement of the table in RAM with the table in flash, and, from    *)
(* there, what the displayed yields, the curve of the day and the stored   *)
(* table are about.  A theorem that needs more of the installation or of   *)
(* its surroundings than EspLog assumes names that as a hypothesis.        *)
(***************************************************************************)
EXTENDS EspLog, FiniteSetTheorems, WellFoundedInduction, TLAPS

\* The calendar never leaves its ranges.
LEMMA SuccessorType ==
    ASSUME NEW m \in Moments
    PROVE  Successor(m) \in Moments
  <1> USE CalendarAssumption DEF Moments, Months, Days, Slots, LastSlot
  <1>1. CASE m.slot < LastSlot
    BY <1>1 DEF Successor
  <1>2. CASE ~(m.slot < LastSlot) /\ m.day + 1 < DaysIn[m.month]
    <2>1. DaysIn[m.month] \in 1 .. DaysPerMonth
      OBVIOUS
    <2>2. m.day + 1 \in Days
      BY <1>2, <2>1
    <2>3. QED
      BY <1>2, <2>2 DEF Successor
  <1>3. CASE ~(m.slot < LastSlot) /\ ~(m.day + 1 < DaysIn[m.month])
    <2>1. (m.month + 1) % MonthsPerYear \in Months
      OBVIOUS
    <2>2. QED
      BY <1>3, <2>1 DEF Successor
  <1>4. QED
    BY <1>1, <1>2, <1>3

\* The midnight that ends a day is a moment.
LEMMA NextDayType ==
    ASSUME NEW m \in Moments
    PROVE  NextDay(m) \in Moments /\ NextDay(m).slot = 0
  <1>1. LastSlot \in Slots
    BY CalendarAssumption DEF LastSlot, Slots
  <1>2. [m EXCEPT !.slot = LastSlot] \in Moments
    BY <1>1 DEF Moments
  <1>3. ~([m EXCEPT !.slot = LastSlot].slot < LastSlot)
    BY <1>1 DEF Moments, Slots
  <1>4. NextDay(m).slot = 0
    BY <1>3 DEF NextDay, Successor
  <1>5. QED
    BY <1>2, <1>4, SuccessorType DEF NextDay

\* So is an hour later.
LEMMA HourLaterType ==
    ASSUME NEW m \in Moments
    PROVE  HourLater(m) \in Moments
  <1>1. m.slot \in Nat /\ m.slot < SlotsPerDay
    BY CalendarAssumption DEF Moments, Slots
  <1>2. HourMarks \in Nat /\ HourMarks < SlotsPerDay /\ SlotsPerDay \in Nat
    BY CalendarAssumption
  <1>3. CASE m.slot + HourMarks < SlotsPerDay
    <2>1. m.slot + HourMarks \in Slots
      BY <1>1, <1>2, <1>3 DEF Slots
    <2>2. QED
      BY <1>3, <2>1 DEF HourLater, Moments
  <1>4. CASE ~(m.slot + HourMarks < SlotsPerDay)
    <2>1. m.slot + HourMarks - SlotsPerDay \in Slots
      BY <1>1, <1>2, <1>4 DEF Slots
    <2>2. QED
      BY <1>4, <2>1, NextDayType DEF HourLater, Moments
  <1>5. QED
    BY <1>3, <1>4

\* Local time is a moment like any other.
LEMMA LocalType ==
    ASSUME NEW m \in Moments
    PROVE  Local(m) \in Moments
  BY HourLaterType DEF Local

\* A date indexes the table.
LEMMA DateType ==
    ASSUME NEW m \in Moments
    PROVE  Date(m) \in Cells
  BY DEF Date, Cells, Moments

\* The date 0/0 of the freshly started globals indexes the table.
LEMMA ZeroCell == <<0, 0>> \in Cells
  BY CalendarAssumption DEF Cells, Months, Days

\* A booking adds whole Wh.
LEMMA WhOfType ==
    ASSUME NEW n \in Nat
    PROVE  WhOf(n) \in Nat
  BY ValueAssumption DEF WhOf

\* What a cell becomes when Wh are added.
LEMMA SumsType ==
    ASSUME NEW value \in Wh, NEW wh \in Nat
    PROVE  Sums(value, wh) \subseteq Wh
  BY ValueAssumption DEF Sums, Wh

LEMMA PatchType ==
    ASSUME NEW patch, data \in [Cells -> Wh],
           \A c \in DOMAIN patch : patch[c] \in Wh
    PROVE  EEPROM!Patched(patch) \in [Cells -> Wh]
  BY DEF EEPROM!Patched

LEMMA TornType ==
    ASSUME NEW buffer \in [Cells -> Wh]
    PROVE  EEPROM!Torn(buffer) \subseteq [Cells -> Wh]
  BY ValueAssumption DEF EEPROM!Torn

-------------------------------------------------------------------------------
(* The EEPROM under the sketch.                                            *)

\* A commit that has erased the sector still has the buffer to program.
ErasedIsDirty == erased => EEPROM!Open /\ dirty /\ phase # "ready"

\* A buffer that is not dirty is what the sector holds.
CleanMeansStored == EEPROM!Open /\ ~dirty => flash = data

StoreInv == EEPROM!EepromTypeOK /\ ErasedIsDirty /\ CleanMeansStored

\* Calls of the library, and its own steps, keep the store in order.
LEMMA StorePut ==
    ASSUME NEW patch, StoreInv, EEPROM!Put(patch),
           \A c \in DOMAIN patch : patch[c] \in Wh
    PROVE  StoreInv'
  <1> USE DEF StoreInv, EEPROM!EepromTypeOK, EEPROM!Val, Wh, ErasedIsDirty,
              CleanMeansStored, EEPROM!Open, EEPROM!Put
  <1>1. CASE data = NoBuffer
    BY <1>1
  <1>2. CASE data # NoBuffer
    <2>1. EEPROM!Patched(patch) \in [Cells -> Wh]
      BY <1>2, PatchType
    <2>2. QED
      BY <1>2, <2>1
  <1>3. QED
    BY <1>1, <1>2

LEMMA StoreCalls ==
    ASSUME StoreInv, EEPROM!Begin \/ EEPROM!Commit \/ EEPROM!End
    PROVE  StoreInv'
  BY DEF StoreInv, EEPROM!EepromTypeOK, ErasedIsDirty, CleanMeansStored,
         EEPROM!Open, EEPROM!Begin, EEPROM!Commit, EEPROM!End

LEMMA StoreStep ==
    ASSUME StoreInv, EEPROM!EepromStep
    PROVE  StoreInv'
  <1> USE ValueAssumption
      DEF StoreInv, EEPROM!EepromTypeOK, EEPROM!Val, Wh, ErasedIsDirty,
          CleanMeansStored, EEPROM!Open, EEPROM!Return
  <1>1. CASE EEPROM!CommitReturnsAtOnce
    BY <1>1 DEF EEPROM!CommitReturnsAtOnce
  <1>2. CASE EEPROM!Erase
    BY <1>2 DEF EEPROM!Erase
  <1>3. CASE EEPROM!EraseFails
    BY <1>3 DEF EEPROM!EraseFails
  <1>4. CASE EEPROM!Program
    BY <1>4 DEF EEPROM!Program
  <1>5. CASE EEPROM!ProgramFails
    BY <1>5, TornType DEF EEPROM!ProgramFails
  <1>6. QED
    BY <1>1, <1>2, <1>3, <1>4, <1>5 DEF EEPROM!EepromStep

LEMMA StorePowerOff ==
    ASSUME StoreInv, EEPROM!PowerOff
    PROVE  StoreInv'
  BY TornType, ValueAssumption
     DEF StoreInv, EEPROM!EepromTypeOK, EEPROM!Val, Wh, ErasedIsDirty,
         CleanMeansStored, EEPROM!Open, EEPROM!PowerOff

LEMMA StoreUnchanged ==
    ASSUME StoreInv, UNCHANGED eeprom
    PROVE  StoreInv'
  BY DEF StoreInv, EEPROM!EepromTypeOK, ErasedIsDirty, CleanMeansStored,
         EEPROM!Open, eeprom

-------------------------------------------------------------------------------
(* Types.                                                                  *)

\* What the proofs use as the type of the state; StoreInv implies the type
\* of the EEPROM.
StateInv == StateOK /\ StoreInv

\* Steps that leave the EEPROM alone.
LEMMA StateRest ==
    ASSUME StateInv, UNCHANGED eeprom
    PROVE  StoreInv' /\ (EEPROM!EepromTypeOK)'
  BY StoreUnchanged DEF StateInv, StoreInv

LEMMA StateInit == Init => StateInv
  <1> SUFFICES ASSUME Init PROVE StateInv
    OBVIOUS
  <1>1. clock \in Moments
    BY CalendarAssumption DEF Init
  <1>2. PICK image \in Images : EEPROM!EepromInit(image)
    BY DEF Init
  <1>3. image \in [Cells -> Wh]
    BY <1>2, ValueAssumption
  <1>4. StoreInv
    BY <1>2, <1>3, ValueAssumption
       DEF EEPROM!EepromInit, StoreInv, EEPROM!EepromTypeOK, EEPROM!Val, Wh,
           ErasedIsDirty, CleanMeansStored, EEPROM!Open
  <1>5. NoTable \in [Cells -> Wh]
    BY DEF NoTable, Wh
  <1>6. StateOK
    BY <1>1, <1>4, <1>5, ZeroCell
       DEF Init, StateOK, StoreInv, Control
  <1>7. QED
    BY <1>4, <1>6 DEF StateInv

\* A loss of power, in either action.
LEMMA StateTurnOff == ASSUME StateInv, TurnOff PROVE StateInv'
  <1>1. StoreInv'
    BY StorePowerOff DEF StateInv, TurnOff
  <1>2. NoTable \in [Cells -> Wh]
    BY DEF NoTable, Wh
  <1>3. Pending \in Nat
    BY DEF StateInv, StateOK, Pending
  <1>4. (EEPROM!EepromTypeOK)'
    BY <1>1 DEF StoreInv
  <1>5. verloren' \in Nat
    BY <1>3 DEF TurnOff, StateInv, StateOK
  <1>6. tagesCounter' \in [Cells -> Wh] /\ fuenfMinutenZaehler' \in [Slots -> Nat]
    BY <1>2 DEF TurnOff, RamLost
  <1>7. yesterday' \in Cells /\ ziel' \in Cells
    BY ZeroCell DEF TurnOff, RamLost
  <1>8. StateOK'
    BY <1>4, <1>5, <1>6, <1>7
       DEF StateInv, StateOK, TurnOff, RamLost, Control
  <1>9. QED
    BY <1>1, <1>8 DEF StateInv

LEMMA StateSetup == ASSUME StateInv, Setup PROVE StateInv'
  <1>1. CASE SetupNtp
    <2>1. StoreInv' /\ (EEPROM!EepromTypeOK)'
      BY <1>1, StateRest DEF SetupNtp
    <2>2. Local(clock) \in Moments
      BY LocalType DEF StateInv, StateOK
    <2>3. QED
      BY <1>1, <2>1, <2>2
         DEF SetupNtp, StateInv, StateOK, environment, history, display, Control
  <1>2. CASE SetupEeprom
    <2>1. StoreInv'
      BY <1>2, StoreCalls DEF SetupEeprom, StateInv
    <2>2. flash \in [Cells -> Wh]
      BY DEF StateInv, StoreInv, EEPROM!EepromTypeOK, EEPROM!Val, Wh
    <2>3. QED
      BY <1>2, <2>1, <2>2
         DEF SetupEeprom, StateInv, StoreInv, StateOK, environment, history,
             control, Control
  <1>3. QED
    BY <1>1, <1>2 DEF Setup

LEMMA StateBook == ASSUME StateInv, Book PROVE StateInv'
  <1>1. StoreInv' /\ (EEPROM!EepromTypeOK)'
    BY StateRest DEF Book
  <1>2. tagesCounter' \in [Cells -> Wh]
    <2>1. CASE ImpulseProKwh > 0
      <3>1. PICK sum \in Sums(tagesCounter[ziel], WhOf(counter)) :
                tagesCounter' = [tagesCounter EXCEPT ![ziel] = sum]
        BY <2>1 DEF Book
      <3>2. sum \in Wh
        BY <3>1, WhOfType, SumsType DEF StateInv, StateOK
      <3>3. QED
        BY <3>1, <3>2 DEF StateInv, StateOK
    <2>2. CASE ~(ImpulseProKwh > 0)
      BY <2>2 DEF Book, StateInv, StateOK
    <2>3. QED
      BY <2>1, <2>2
  <1>3. QED
    BY <1>1, <1>2
       DEF Book, StateInv, StateOK, environment, control, Control

LEMMA StatePut ==
    ASSUME StateInv, NEW cell \in Cells, NEW committing \in Control,
           NEW next \in Control, PutEeprom(cell, committing, next)
    PROVE  StateInv'
  <1>1. StoreInv'
    <2>1. CASE UNCHANGED eeprom
      BY <2>1, StateRest
    <2>2. CASE EEPROM!Put([c \in {cell} |-> tagesCounter[cell]])
      BY <2>2, StorePut DEF StateInv, StateOK
    <2>3. QED
      BY <2>1, <2>2 DEF PutEeprom
  <1>2. QED
    BY <1>1
       DEF PutEeprom, StateInv, StoreInv, StateOK, environment, history,
           display, control

LEMMA StateCommit ==
    ASSUME StateInv, NEW next \in Control, CommitPut(next)
    PROVE  StateInv'
  <1>1. StoreInv'
    BY StoreCalls DEF CommitPut, StateInv
  <1>2. QED
    BY <1>1
       DEF CommitPut, StateInv, StoreInv, StateOK, environment, history,
           display, control

LEMMA StateWork == ASSUME StateInv, FiveMinuteWork PROVE StateInv'
  <1> USE DEF environment, history, display, control, Control
  <1>1. CASE Poll
    <2>1. StoreInv' /\ (EEPROM!EepromTypeOK)'
      BY <1>1, StateRest DEF Poll
    <2>2. Local(clock) \in Moments
      BY LocalType DEF StateInv, StateOK
    <2>3. BookedDay(Local(clock)) \in Cells
      BY <2>2, DateType DEF BookedDay, StateInv, StateOK
    <2>4. QED
      BY <1>1, <2>1, <2>2, <2>3 DEF Poll, StateInv, StateOK
  <1>2. CASE Book
    BY <1>2, StateBook
  <1>3. CASE Power
    <2>1. StoreInv' /\ (EEPROM!EepromTypeOK)'
      BY <1>3, StateRest DEF Power
    <2>2. QED
      BY <1>3, <2>1 DEF Power, StateInv, StateOK
  <1>4. CASE Reset
    <2>1. StoreInv' /\ (EEPROM!EepromTypeOK)'
      BY <1>4, StateRest DEF Reset
    <2>2. QED
      BY <1>4, <2>1 DEF Reset, StateInv, StateOK
  <1>5. CASE PutToday
    <2>1. today \in Cells
      BY DateType DEF StateInv, StateOK, today
    <2>2. QED
      BY <1>5, <2>1, StatePut DEF PutToday, AfterBooking
  <1>6. CASE CommitToday
    BY <1>6, StateCommit DEF CommitToday, AfterBooking
  <1>7. CASE Mark
    <2>1. StoreInv' /\ (EEPROM!EepromTypeOK)'
      BY <1>7, StateRest DEF Mark
    <2>2. MarkedDay \in Cells
      BY DateType DEF MarkedDay, today, StateInv, StateOK
    <2>3. QED
      BY <1>7, <2>1, <2>2 DEF Mark, StateInv, StateOK
  <1>8. CASE PutYesterday
    <2>1. yesterday \in Cells
      BY DEF StateInv, StateOK
    <2>2. QED
      BY <1>8, <2>1, StatePut DEF PutYesterday
  <1>9. CASE CommitYesterday
    BY <1>9, StateCommit DEF CommitYesterday
  <1>10. CASE NewDay
    <2>1. StoreInv' /\ (EEPROM!EepromTypeOK)'
      BY <1>10, StateRest DEF NewDay
    <2>2. QED
      BY <1>10, <2>1 DEF NewDay, AfterNewDay, StateInv, StateOK, Wh
  <1>11. CASE NewYear
    <2>1. StoreInv' /\ (EEPROM!EepromTypeOK)'
      BY <1>11, StateRest DEF NewYear
    <2>2. QED
      BY <1>11, <2>1 DEF NewYear, StateInv, StateOK
  <1>12. QED
    BY <1>1, <1>2, <1>3, <1>4, <1>5, <1>6, <1>7, <1>8, <1>9, <1>10, <1>11
       DEF FiveMinuteWork

LEMMA StateDeletion == ASSUME StateInv, Deletion PROVE StateInv'
  <1> USE DEF environment, history, display, control, Control
  <1>1. CASE BackupOpen
    <2>1. StoreInv' /\ (EEPROM!EepromTypeOK)'
      BY <1>1, StateRest DEF BackupOpen
    <2>2. QED
      BY <1>1, <2>1 DEF BackupOpen, StateInv, StateOK
  <1>2. CASE BackupWrite
    <2>1. StoreInv' /\ (EEPROM!EepromTypeOK)'
      BY <1>2, StateRest DEF BackupWrite
    <2>2. EEPROM!Open => data \in [Cells -> Wh]
      BY DEF EEPROM!Open, StateInv, StoreInv, EEPROM!EepromTypeOK,
             EEPROM!Val, Wh
    <2>3. QED
      BY <1>2, <2>1, <2>2 DEF BackupWrite, StateInv, StateOK
  <1>3. CASE DeletePut
    <2>1. StoreInv'
      BY <1>3, StorePut DEF DeletePut, StateInv, NoTable, Wh
    <2>2. QED
      BY <1>3, <2>1 DEF DeletePut, StateInv, StoreInv, StateOK
  <1>4. CASE DeleteCommit
    BY <1>4, StateCommit DEF DeleteCommit
  <1>5. CASE DeleteEnd
    <2>1. StoreInv'
      BY <1>5, StoreCalls DEF DeleteEnd, StateInv
    <2>2. QED
      BY <1>5, <2>1 DEF DeleteEnd, StateInv, StoreInv, StateOK
  <1>6. CASE DeleteRAM
    <2>1. StoreInv' /\ (EEPROM!EepromTypeOK)'
      BY <1>6, StateRest DEF DeleteRAM
    <2>2. NoTable \in [Cells -> Wh]
      BY DEF NoTable, Wh
    <2>3. QED
      BY <1>6, <2>1, <2>2 DEF DeleteRAM, StateInv, StateOK
  <1>7. QED
    BY <1>1, <1>2, <1>3, <1>4, <1>5, <1>6 DEF Deletion

LEMMA StateNext == StateInv /\ [Next]_vars => StateInv'
  <1> SUFFICES ASSUME StateInv, [Next]_vars
               PROVE  StateInv'
    OBVIOUS
  <1>1. CASE Setup
    BY <1>1, StateSetup
  <1>2. CASE FiveMinuteWork
    BY <1>2, StateWork
  <1>3. CASE Deletion
    BY <1>3, StateDeletion
  <1>4. CASE Flash
    <2>1. StoreInv'
      BY <1>4, StoreStep DEF Flash, StateInv
    <2>2. QED
      BY <1>4, <2>1
         DEF Flash, StateInv, StoreInv, StateOK, environment, history, display,
             control
  <1>5. CASE HandleSetup
    <2>1. StoreInv' /\ (EEPROM!EepromTypeOK)'
      BY <1>5, StateRest DEF HandleSetup
    <2>2. QED
      BY <1>5, <2>1
         DEF HandleSetup, StateInv, StateOK, environment, history, display,
             Control
  <1>6. CASE interruptRoutineFalling
    <2>1. StoreInv' /\ (EEPROM!EepromTypeOK)'
      BY <1>6, StateRest DEF interruptRoutineFalling
    <2>2. QED
      BY <1>6, <2>1
         DEF interruptRoutineFalling, StateInv, StateOK, environment, display,
             control
  <1>7. CASE Tick
    <2>1. StoreInv' /\ (EEPROM!EepromTypeOK)'
      BY <1>7, StateRest DEF Tick
    <2>2. QED
      BY <1>7, <2>1, SuccessorType
         DEF Tick, StateInv, StateOK, history, display, control
  <1>8. CASE MarkMissed
    <2>1. StoreInv' /\ (EEPROM!EepromTypeOK)'
      BY <1>8, StateRest DEF MarkMissed
    <2>2. QED
      BY <1>8, <2>1
         DEF MarkMissed, StateInv, StateOK, history, display, control
  <1>9. CASE Restart \/ PowerLoss
    BY <1>9, StateTurnOff DEF Restart, PowerLoss
  <1>10. CASE UNCHANGED vars
    <2>1. StoreInv' /\ (EEPROM!EepromTypeOK)'
      BY <1>10, StateRest DEF vars
    <2>2. QED
      BY <1>10, <2>1
         DEF vars, StateInv, StateOK, environment, history, display, control
  <1>11. QED
    BY <1>1, <1>2, <1>3, <1>4, <1>5, <1>6, <1>7, <1>8, <1>9, <1>10
       DEF Next, Sketch

\* The state keeps its types: no date, no booking and no restored value ever
\* indexes the tables outside their bounds (esplog.ino:102-103).
THEOREM StateTyping == Spec => []StateOK
  <1>1. StateInv => StateOK
    BY DEF StateInv
  <1>2. QED
    BY <1>1, StateInit, StateNext, PTL DEF Spec

-------------------------------------------------------------------------------
(* Pulses.                                                                 *)

LEMMA BalanceInit == Init => PulseBalance
  BY DEF Init, PulseBalance, Pending

LEMMA BalanceNext ==
    StateInv /\ PulseBalance /\ [Next]_vars => PulseBalance'
  <1> SUFFICES ASSUME StateInv, PulseBalance, [Next]_vars
               PROVE  PulseBalance'
    OBVIOUS
  <1>1. /\ impulse \in Nat /\ verbucht \in Nat /\ verloren \in Nat
        /\ counter \in Nat
    BY DEF StateInv, StateOK
  <1> USE <1>1 DEF PulseBalance, Pending, At, history
  <1>2. CASE Setup
    BY <1>2 DEF Setup, SetupNtp, SetupEeprom
  <1>3. CASE Poll
    BY <1>3 DEF Poll
  <1>4. CASE Book
    BY <1>4 DEF Book
  <1>5. CASE Power
    BY <1>5 DEF Power
  <1>6. CASE Reset
    BY <1>6 DEF Reset
  <1>7. CASE PutToday \/ CommitToday
    BY <1>7 DEF PutToday, CommitToday, PutEeprom, CommitPut, AfterBooking
  <1>8. CASE PutYesterday \/ CommitYesterday
    BY <1>8 DEF PutYesterday, CommitYesterday, PutEeprom, CommitPut
  <1>9. CASE Mark
    BY <1>9 DEF Mark
  <1>10. CASE NewDay \/ NewYear
    BY <1>10 DEF NewDay, AfterNewDay, NewYear
  <1>11. CASE BackupOpen \/ BackupWrite
    BY <1>11 DEF BackupOpen, BackupWrite
  <1>12. CASE DeletePut \/ DeleteCommit \/ DeleteEnd
    BY <1>12 DEF DeletePut, DeleteCommit, DeleteEnd, CommitPut
  <1>13. CASE DeleteRAM
    BY <1>13 DEF DeleteRAM
  <1>14. CASE Flash
    BY <1>14 DEF Flash
  <1>15. CASE HandleSetup
    BY <1>15 DEF HandleSetup
  <1>16. CASE interruptRoutineFalling
    BY <1>16 DEF interruptRoutineFalling
  <1>17. CASE Tick \/ MarkMissed
    BY <1>17 DEF Tick, MarkMissed
  <1>18. CASE Restart \/ PowerLoss
    BY <1>18 DEF Restart, PowerLoss, TurnOff, RamLost
  <1>19. CASE UNCHANGED vars
    BY <1>19 DEF vars
  <1>20. QED
    BY <1>2, <1>3, <1>4, <1>5, <1>6, <1>7, <1>8, <1>9, <1>10, <1>11, <1>12,
       <1>13, <1>14, <1>15, <1>16, <1>17, <1>18, <1>19
       DEF Next, Sketch, FiveMinuteWork, Deletion

\* Every pulse the interrupt routine has counted is booked once, still
\* counted, or was forgotten in the window between the read of the counter
\* (functions.ino:9) and its reset (:43), by a loss of power, or by clrrom.
THEOREM PulsesBalance == Spec => []PulseBalance
  BY StateInit, StateNext, BalanceInit, BalanceNext, PTL DEF Spec

-------------------------------------------------------------------------------
(* The table in RAM and the table in the EEPROM.                           *)

\* A booking has changed the cell `ziel' and putEeprom has not reached it.
BookingUnsaved == \/ pc \in {"power", "reset", "putToday"}
                  \/ pc \in {"commitToday", "putYesterday"} /\ t.slot = 0

\* During five-minute work `ziel' is one of the two days that get saved.
ZielIsSaved ==
    /\ pc \in {"book", "power", "reset", "putToday", "commitToday", "putYesterday"}
           => ziel = IF t.slot = 0 THEN yesterday ELSE today
    /\ pc \in {"putYesterday", "commitYesterday", "newDay"} => t.slot = 0

\* The buffer is being cleared, and closed afterwards.
Deleting == pc \in {"deleteCommit", "deleteEnd", "newYear", "deleteRAM"}

\* Until the logger is set up, and once a deletion is through, the EEPROM is
\* closed, or closing.
ClosedPhases ==
    /\ pc \in {"off", "setup"} => ~EEPROM!Open
    /\ pc \in {"newYear", "deleteRAM"} => ~EEPROM!Open \/ phase = "end"

\* The inductive form of OnlyClearedCellsDiffer: it speaks of the buffer, not
\* of the sector, and excepts the cell that is booked and not saved yet.
TableInBuffer ==
    EEPROM!Open /\ ~Deleting =>
        \A c \in Cells : \/ tagesCounter[c] \in {0, data[c]}
                         \/ c = ziel /\ BookingUnsaved

TableInv == ZielIsSaved /\ ClosedPhases /\ TableInBuffer

LEMMA TableInit == Init => TableInv
  BY DEF Init, TableInv, ZielIsSaved, ClosedPhases, TableInBuffer,
         EEPROM!EepromInit, EEPROM!Open

\* Steps that touch neither the table, nor the buffer, nor the control.
LEMMA TableRest ==
    ASSUME StateInv, TableInv,
           UNCHANGED <<tagesCounter, data, phase, control, pc>>
    PROVE  TableInv'
  BY DEF TableInv, ZielIsSaved, ClosedPhases, TableInBuffer, BookingUnsaved,
         Deleting, EEPROM!Open, control, today, Date

LEMMA TableBook == ASSUME StateInv, TableInv, Book PROVE TableInv'
  <1>1. /\ pc = "book" /\ pc' = "power"
        /\ UNCHANGED <<data, phase, ziel, yesterday, t>>
    BY DEF Book, At, eeprom, control
  <1>2. \A c \in Cells : c # ziel => tagesCounter'[c] = tagesCounter[c]
    BY DEF Book, StateInv, StateOK
  <1>3. QED
    BY <1>1, <1>2
       DEF TableInv, ZielIsSaved, ClosedPhases, TableInBuffer, BookingUnsaved,
           Deleting, EEPROM!Open, today, Date

\* putEeprom() leaves the cell it was asked to save equal in the buffer.
LEMMA PutSaves ==
    ASSUME StateInv, NEW cell \in Cells, NEW committing, NEW next,
           PutEeprom(cell, committing, next), EEPROM!Open
    PROVE  /\ EEPROM!Open'
           /\ data'[cell] = tagesCounter[cell]
           /\ \A c \in Cells : c # cell => data'[c] = data[c]
           /\ UNCHANGED <<tagesCounter, ziel, yesterday, t, phase>>
  <1>1. data \in [Cells -> Wh] /\ NoBuffer \notin [Cells -> Wh]
    BY ValueAssumption
       DEF StateInv, StoreInv, EEPROM!EepromTypeOK, EEPROM!Val, Wh, EEPROM!Open
  <1>2. CASE UNCHANGED eeprom /\ data[cell] = tagesCounter[cell]
    BY <1>1, <1>2 DEF PutEeprom, eeprom, control, EEPROM!Open
  <1>3. CASE EEPROM!Put([c \in {cell} |-> tagesCounter[cell]])
    <2>1. data' = EEPROM!Patched([c \in {cell} |-> tagesCounter[cell]])
      BY <1>3 DEF EEPROM!Put
    <2>2. data' \in [Cells -> Wh]
      BY <1>1, <2>1, PatchType DEF StateInv, StateOK
    <2>3. QED
      BY <1>1, <1>3, <2>1, <2>2
         DEF PutEeprom, control, EEPROM!Open, EEPROM!Put, EEPROM!Patched
  <1>4. QED
    BY <1>2, <1>3 DEF PutEeprom

LEMMA TablePut ==
    ASSUME StateInv, TableInv, PutToday \/ PutYesterday
    PROVE  TableInv'
  <1> DEFINE cell == IF pc = "putToday" THEN today ELSE yesterday
  <1>1. today \in Cells /\ yesterday \in Cells
    BY DateType DEF StateInv, StateOK, today
  <1>2. \/ pc = "putToday" /\ PutEeprom(today, "commitToday", AfterBooking)
        \/ pc = "putYesterday" /\ PutEeprom(yesterday, "commitYesterday", "newDay")
    BY DEF PutToday, PutYesterday, At
  <1>3. UNCHANGED <<tagesCounter, ziel, yesterday, t>>
    BY <1>2 DEF PutEeprom, control
  <1>4. \/ pc = "putToday" /\ pc' \in {"commitToday", AfterBooking}
        \/ pc = "putYesterday" /\ pc' \in {"commitYesterday", "newDay"}
    BY <1>2 DEF PutEeprom
  <1>5. ZielIsSaved' /\ ClosedPhases'
    BY <1>3, <1>4
       DEF TableInv, ZielIsSaved, ClosedPhases, AfterBooking, today, Date
  <1>6. CASE ~EEPROM!Open
    <2>1. ~EEPROM!Open'
      BY <1>2, <1>6 DEF PutEeprom, EEPROM!Put, EEPROM!Open, eeprom
    <2>2. QED
      BY <1>5, <2>1 DEF TableInv, TableInBuffer
  <1>7. CASE EEPROM!Open
    <2>1. /\ data'[cell] = tagesCounter[cell]
          /\ \A c \in Cells : c # cell => data'[c] = data[c]
      BY <1>1, <1>2, <1>7, PutSaves
    <2>2. ASSUME NEW c \in Cells
          PROVE  \/ tagesCounter'[c] \in {0, data'[c]}
                 \/ c = ziel' /\ BookingUnsaved'
      <3>1. CASE c = cell
        BY <1>3, <2>1, <3>1
      <3>2. CASE c # cell
        <4>1. \/ tagesCounter[c] \in {0, data[c]}
              \/ c = ziel /\ BookingUnsaved
          BY <1>4, <1>7 DEF TableInv, TableInBuffer, Deleting
        <4>2. c = ziel /\ BookingUnsaved => pc = "putToday" /\ t.slot = 0
          BY <1>4, <3>2 DEF TableInv, ZielIsSaved
        <4>3. pc = "putToday" /\ t.slot = 0 => BookingUnsaved'
          BY <1>3, <1>4 DEF BookingUnsaved, AfterBooking
        <4>4. QED
          BY <1>3, <2>1, <3>2, <4>1, <4>2, <4>3
      <3>3. QED
        BY <3>1, <3>2
    <2>3. TableInBuffer'
      BY <2>2 DEF TableInBuffer
    <2>4. QED
      BY <1>5, <2>3 DEF TableInv
  <1>8. QED
    BY <1>6, <1>7

LEMMA TableWork == ASSUME StateInv, TableInv, FiveMinuteWork PROVE TableInv'
  <1> USE DEF At, eeprom, control, TableInv, ZielIsSaved, ClosedPhases,
              TableInBuffer, BookingUnsaved, Deleting, EEPROM!Open, today, Date
  <1>1. CASE Poll
    BY <1>1 DEF Poll, BookedDay
  <1>2. CASE Book
    BY <1>2, TableBook
  <1>3. CASE Power
    BY <1>3 DEF Power
  <1>4. CASE Reset
    BY <1>4 DEF Reset
  <1>5. CASE PutToday \/ PutYesterday
    BY <1>5, TablePut
  <1>6. CASE CommitToday
    BY <1>6 DEF CommitToday, CommitPut, AfterBooking, EEPROM!Commit
  <1>7. CASE Mark
    BY <1>7 DEF Mark
  <1>8. CASE CommitYesterday
    BY <1>8 DEF CommitYesterday, CommitPut, EEPROM!Commit
  <1>9. CASE NewDay
    <2>1. \A c \in Cells : tagesCounter'[c] \in {0, tagesCounter[c]}
      BY <1>9 DEF NewDay
    <2>2. QED
      BY <1>9, <2>1 DEF NewDay, AfterNewDay
  <1>10. CASE NewYear
    BY <1>10 DEF NewYear
  <1>11. QED
    BY <1>1, <1>2, <1>3, <1>4, <1>5, <1>6, <1>7, <1>8, <1>9, <1>10
       DEF FiveMinuteWork

LEMMA TableDeletion == ASSUME StateInv, TableInv, Deletion PROVE TableInv'
  <1> USE DEF At, eeprom, control, TableInv, ZielIsSaved, ClosedPhases,
              TableInBuffer, BookingUnsaved, Deleting, EEPROM!Open, today, Date
  <1>1. CASE BackupOpen
    BY <1>1 DEF BackupOpen
  <1>2. CASE BackupWrite
    BY <1>2 DEF BackupWrite
  <1>3. CASE DeletePut
    BY <1>3 DEF DeletePut
  <1>4. CASE DeleteCommit
    BY <1>4 DEF DeleteCommit, CommitPut
  <1>5. CASE DeleteEnd
    BY <1>5 DEF DeleteEnd, EEPROM!End
  <1>6. CASE DeleteRAM
    BY <1>6 DEF DeleteRAM
  <1>7. QED
    BY <1>1, <1>2, <1>3, <1>4, <1>5, <1>6 DEF Deletion

LEMMA TableSetup == ASSUME StateInv, TableInv, Setup PROVE TableInv'
  <1> USE DEF eeprom, control, TableInv, ZielIsSaved, ClosedPhases,
              TableInBuffer, BookingUnsaved, Deleting, EEPROM!Open, today, Date
  <1>1. CASE SetupNtp
    BY <1>1 DEF SetupNtp
  <1>2. CASE SetupEeprom
    <2>1. /\ pc' = "idle"
          /\ tagesCounter' = flash /\ data' = flash
          /\ UNCHANGED <<t, ziel, yesterday>>
      BY <1>2 DEF SetupEeprom, EEPROM!Begin
    <2>2. QED
      BY <2>1
  <1>3. QED
    BY <1>1, <1>2 DEF Setup

\* A running commit() leaves the buffer as it is; a running end() frees it.
LEMMA TableFlash == ASSUME StateInv, TableInv, Flash PROVE TableInv'
  <1>1. /\ data' \in {data, NoBuffer}
        /\ phase = "end" => phase' = "end" \/ data' = NoBuffer
    BY DEF Flash, EEPROM!EepromStep, EEPROM!CommitReturnsAtOnce, EEPROM!Erase,
           EEPROM!EraseFails, EEPROM!Program, EEPROM!ProgramFails, EEPROM!Return
  <1>2. UNCHANGED <<tagesCounter, control, pc>>
    BY DEF Flash
  <1>3. QED
    BY <1>1, <1>2
       DEF TableInv, ZielIsSaved, ClosedPhases, TableInBuffer, BookingUnsaved,
           Deleting, EEPROM!Open, control, today, Date

LEMMA TableNext == StateInv /\ TableInv /\ [Next]_vars => TableInv'
  <1> SUFFICES ASSUME StateInv, TableInv, [Next]_vars
               PROVE  TableInv'
    OBVIOUS
  <1>1. CASE Setup
    BY <1>1, TableSetup
  <1>2. CASE FiveMinuteWork
    BY <1>2, TableWork
  <1>3. CASE Deletion
    BY <1>3, TableDeletion
  <1>4. CASE Flash
    BY <1>4, TableFlash
  <1>5. CASE HandleSetup
    BY <1>5
       DEF HandleSetup, At, eeprom, TableInv, ZielIsSaved, ClosedPhases,
           TableInBuffer, BookingUnsaved, Deleting, EEPROM!Open, today, Date
  <1>6. CASE interruptRoutineFalling
    BY <1>6, TableRest DEF interruptRoutineFalling, eeprom
  <1>7. CASE Tick \/ MarkMissed
    BY <1>7, TableRest DEF Tick, MarkMissed, eeprom
  <1>8. CASE Restart \/ PowerLoss
    <2>1. data' = NoBuffer /\ pc' = "off"
      BY <1>8 DEF Restart, PowerLoss, TurnOff, EEPROM!PowerOff
    <2>2. QED
      BY <2>1 DEF TableInv, ZielIsSaved, ClosedPhases, TableInBuffer, EEPROM!Open
  <1>9. CASE UNCHANGED vars
    BY <1>9, TableRest DEF vars, eeprom
  <1>10. QED
    BY <1>1, <1>2, <1>3, <1>4, <1>5, <1>6, <1>7, <1>8, <1>9 DEF Next, Sketch

\* While loop() waits with the EEPROM open and no failed commit pending, the
\* two tables differ only in cells that were cleared in RAM alone: whatever
\* was booked is in the flash, whichever day it was booked to and whatever
\* crashed before.
THEOREM BookedIsStored == Spec => []OnlyClearedCellsDiffer
  <1>1. StateInv /\ TableInv => OnlyClearedCellsDiffer
    BY DEF StateInv, StoreInv, CleanMeansStored, TableInv, TableInBuffer,
           BookingUnsaved, Deleting, OnlyClearedCellsDiffer
  <1>2. QED
    BY <1>1, StateInit, StateNext, TableInit, TableNext, PTL DEF Spec

-------------------------------------------------------------------------------
(* Induction over finite sets.  The library's induction theorems take a    *)
(* predicate; what follows says the same with a set of sets.               *)

\* A well-founded relation has a minimal element in every set (WFMin).
LEMMA Minimal ==
    \A R, S : IsWellFoundedOn(R, S) =>
        \A T : T \subseteq S => (T # {} => \E x \in T : \A y \in T : ~(<<y, x>> \in R))
  BY WFMin, Zenon

\* Of some subsets of a finite set one has no smaller one.
LEMMA SmallestSubset ==
    ASSUME NEW S, IsFiniteSet(S), NEW Some, Some \subseteq SUBSET S, Some # {}
    PROVE  \E T \in Some : \A U \in Some : U \subseteq T => U = T
  <1> DEFINE R == StrictSubsetOrdering(S)
  <1>1. FiniteSubsetsOf(S) = SUBSET S
    BY FS_FiniteSubsetsOfFinite, Zenon
  <1>2. IsWellFoundedOn(R, FiniteSubsetsOf(S))
    BY FS_StrictSubsetOrderingWellFounded, Zenon
  <1>3. \A T : T \subseteq SUBSET S => (T # {} => \E x \in T : \A y \in T : ~(<<y, x>> \in R))
    <2> HIDE DEF R
    <2>1. QED
      BY <1>1, <1>2, Minimal
  <1>4. PICK T \in Some : \A U \in Some : ~(<<U, T>> \in R)
    <2> HIDE DEF R
    <2>1. QED
      BY <1>3
  <1>5. QED
    BY <1>4 DEF StrictSubsetOrdering

\* Induction over the subsets of a finite set.
LEMMA SubsetInduction ==
    ASSUME NEW S, IsFiniteSet(S), NEW Good,
           \A T \in SUBSET S : (\A U \in SUBSET T : U # T => U \in Good) => T \in Good
    PROVE  \A T \in SUBSET S : T \in Good
  <1> DEFINE Bad == {T \in SUBSET S : T \notin Good}
  <1> SUFFICES ASSUME Bad # {} PROVE FALSE
    OBVIOUS
  <1>1. PICK T \in Bad : \A U \in Bad : U \subseteq T => U = T
    <2>1. Bad \subseteq SUBSET S
      OBVIOUS
    <2> HIDE DEF Bad
    <2>2. QED
      BY <2>1, SmallestSubset
  <1>2. ASSUME NEW U \in SUBSET T, U # T PROVE U \in Good
    BY <1>1, <1>2
  <1>3. QED
    BY <1>1, <1>2

-------------------------------------------------------------------------------
(* The sum of a function over a finite set (Functions.tla).                *)

\* iter is the function that the fold recurs over.
Adds(iter, f, S) ==
    iter = [s \in SUBSET S |->
              IF s = {} THEN 0
              ELSE f[CHOOSE x \in s : TRUE] + iter[s \ {CHOOSE x \in s : TRUE}]]

\* SumFunctionOnSet, with the fold of the community modules expanded.
LEMMA SumIs ==
    ASSUME NEW f, NEW S
    PROVE  SumFunctionOnSet(f, S) = (CHOOSE iter : Adds(iter, f, S))[S]
  BY DEF SumFunctionOnSet, FoldFunctionOnSet, MapThenFoldSet, Adds

\* What is chosen from a set is in it.
LEMMA Chosen == \A s : s # {} => (CHOOSE x \in s : TRUE) \in s
  OBVIOUS

\* The recursion of such a function.
LEMMA AddsAt ==
    ASSUME NEW iter, NEW f, NEW S, Adds(iter, f, S)
    PROVE  /\ iter[{}] = 0
           /\ \A s \in SUBSET S : s # {} =>
                 iter[s] = f[CHOOSE x \in s : TRUE]
                             + iter[s \ {CHOOSE x \in s : TRUE}]
  BY DEF Adds

\* Two of them agree where both are defined.
LEMMA AddsAgree ==
    ASSUME NEW f, NEW S, NEW T, IsFiniteSet(S), NEW g, NEW h,
           Adds(g, f, S), Adds(h, f, T)
    PROVE  \A s \in SUBSET (S \cap T) : g[s] = h[s]
  <1> DEFINE Good == {s \in SUBSET (S \cap T) : g[s] = h[s]}
  <1>1. IsFiniteSet(S \cap T)
    BY FS_Subset
  <1>2. ASSUME NEW s \in SUBSET (S \cap T),
               \A u \in SUBSET s : u # s => u \in Good
        PROVE  s \in Good
    <2>1. CASE s = {}
      BY <2>1, AddsAt
    <2>2. CASE s # {}
      <3> DEFINE x == CHOOSE e \in s : TRUE
      <3>1. x \in s
        BY <2>2
      <3>2. s \ {x} \in Good
        BY <1>2, <3>1
      <3>3. g[s] = f[x] + g[s \ {x}]
        BY <2>2, AddsAt
      <3>4. h[s] = f[x] + h[s \ {x}]
        BY <2>2, AddsAt
      <3> HIDE DEF x
      <3>5. QED
        BY <3>2, <3>3, <3>4
    <2>3. QED
      BY <2>1, <2>2
  <1> HIDE DEF Good
  <1>3. \A s \in SUBSET (S \cap T) : s \in Good
    BY <1>1, <1>2, SubsetInduction
  <1>4. QED
    BY <1>3 DEF Good

\* The recursion has a solution on every finite set.
LEMMA AddsExists ==
    ASSUME NEW f, NEW S, IsFiniteSet(S)
    PROVE  \E iter : Adds(iter, f, S)
  <1> DEFINE Good == {T \in SUBSET S : \E g : Adds(g, f, T)}
  <1>1. ASSUME NEW T \in SUBSET S, \A U \in SUBSET T : U # T => U \in Good
        PROVE  T \in Good
    <2> DEFINE G(U) == CHOOSE g : Adds(g, f, U)
               g == [s \in SUBSET T |->
                      IF s = {} THEN 0
                      ELSE f[CHOOSE x \in s : TRUE]
                             + G(s \ {CHOOSE x \in s : TRUE})[s \ {CHOOSE x \in s : TRUE}]]
    <2>1. ASSUME NEW U \in SUBSET T, U # T
          PROVE  Adds(G(U), f, U)
      BY <1>1, <2>1
    <2>2. ASSUME NEW U \in SUBSET T, U # T
          PROVE  G(U)[U] = g[U]
      <3>1. CASE U = {}
        BY <2>1, <2>2, <3>1, AddsAt
      <3>2. CASE U # {}
        <4> DEFINE x == CHOOSE e \in U : TRUE
                   V == U \ {x}
        <4>1. x \in U
          BY <3>2
        <4>2. V \in SUBSET T /\ V # T /\ V \in SUBSET (U \cap V)
          BY <4>1
        <4>3. Adds(G(U), f, U) /\ Adds(G(V), f, V)
          BY <2>1, <2>2, <4>2
        <4>4. IsFiniteSet(U)
          BY FS_Subset
        <4>5. G(U)[V] = G(V)[V]
          <5> HIDE DEF V, G
          <5>1. QED
            BY <4>2, <4>3, <4>4, AddsAgree
        <4>6. G(U)[U] = f[x] + G(U)[V]
          BY <4>3, <3>2, AddsAt
        <4>7. g[U] = f[x] + G(V)[V]
          BY <3>2
        <4> HIDE DEF V, G, g, x
        <4>8. QED
          BY <4>5, <4>6, <4>7
      <3>3. QED
        BY <3>1, <3>2
    <2>3. \A s \in SUBSET T : s # {} =>
            LET x == CHOOSE e \in s : TRUE
            IN g[s] = f[x] + g[s \ {x}]
      <3> SUFFICES ASSUME NEW s \in SUBSET T, s # {}
                   PROVE  LET x == CHOOSE e \in s : TRUE
                          IN g[s] = f[x] + g[s \ {x}]
        OBVIOUS
      <3> DEFINE x == CHOOSE e \in s : TRUE
      <3>1. x \in s
        OBVIOUS
      <3>2. s \ {x} \in SUBSET T /\ s \ {x} # T
        BY <3>1
      <3>3. G(s \ {x})[s \ {x}] = g[s \ {x}]
        <4> HIDE DEF G, g, x
        <4>1. QED
          BY <2>2, <3>2
      <3>4. g[s] = f[x] + G(s \ {x})[s \ {x}]
        OBVIOUS
      <3> HIDE DEF G, g
      <3>5. QED
        BY <3>3, <3>4
    <2>4. g[{}] = 0
      OBVIOUS
    <2>5. Adds(g, f, T)
      <3>1. g = [s \in SUBSET T |-> g[s]]
        OBVIOUS
      <3> HIDE DEF g
      <3>2. \A s \in SUBSET T : g[s] = IF s = {} THEN 0
              ELSE f[CHOOSE x \in s : TRUE] + g[s \ {CHOOSE x \in s : TRUE}]
        BY <2>3, <2>4
      <3>3. QED
        BY <3>1, <3>2 DEF Adds
    <2>6. QED
      BY <2>5
  <1> HIDE DEF Good
  <1>2. S \in Good
    BY <1>1, SubsetInduction
  <1>3. QED
    BY <1>2 DEF Good

\* A sum takes out its elements one by one, in the order of CHOOSE.
LEMMA SumRecursion ==
    ASSUME NEW f, NEW S, IsFiniteSet(S)
    PROVE  /\ S = {} => SumFunctionOnSet(f, S) = 0
           /\ S # {} => LET x == CHOOSE e \in S : TRUE
                        IN SumFunctionOnSet(f, S)
                             = f[x] + SumFunctionOnSet(f, S \ {x})
  <1> DEFINE g(T) == CHOOSE iter : Adds(iter, f, T)
             c == CHOOSE e \in S : TRUE
             T == S \ {c}
  <1>1. Adds(g(S), f, S)
    BY AddsExists
  <1>2. IsFiniteSet(T)
    BY FS_Subset
  <1>3. Adds(g(T), f, T)
    BY <1>2, AddsExists
  <1>4. SumFunctionOnSet(f, S) = g(S)[S] /\ SumFunctionOnSet(f, T) = g(T)[T]
    BY SumIs
  <1>5. T \in SUBSET (S \cap T)
    OBVIOUS
  <1>6. g(S)[T] = g(T)[T]
    <2> HIDE DEF g, T
    <2>1. QED
      BY <1>1, <1>3, <1>5, AddsAgree
  <1>7. S = {} => g(S)[S] = 0
    BY <1>1, AddsAt
  <1>8. S # {} => g(S)[S] = f[c] + g(S)[T]
    BY <1>1, AddsAt
  <1> HIDE DEF g
  <1>9. QED
    BY <1>4, <1>6, <1>7, <1>8

\* The sum over nothing.
LEMMA SumEmpty == ASSUME NEW f PROVE SumFunctionOnSet(f, {}) = 0
  <1>1. IsFiniteSet({})
    BY FS_EmptySet
  <1>2. QED
    BY <1>1, SumRecursion

\* A sum of numbers is a number.
LEMMA SumType ==
    ASSUME NEW f, NEW S, IsFiniteSet(S), \A x \in S : f[x] \in Nat
    PROVE  SumFunctionOnSet(f, S) \in Nat
  <1> DEFINE Good == {T \in SUBSET S : SumFunctionOnSet(f, T) \in Nat}
  <1>1. ASSUME NEW T \in SUBSET S, \A U \in SUBSET T : U # T => U \in Good
        PROVE  T \in Good
    <2> DEFINE c == CHOOSE e \in T : TRUE
    <2>1. IsFiniteSet(T)
      BY FS_Subset
    <2>2. CASE T = {}
      BY <2>2, SumEmpty
    <2>3. CASE T # {}
      <3>1. c \in T
        BY <2>3
      <3>2. T \ {c} \in Good
        BY <1>1, <3>1
      <3>3. SumFunctionOnSet(f, T) = f[c] + SumFunctionOnSet(f, T \ {c})
        BY <2>1, <2>3, SumRecursion
      <3> HIDE DEF c
      <3>4. QED
        BY <3>1, <3>2, <3>3
    <2>4. QED
      BY <2>2, <2>3
  <1> HIDE DEF Good
  <1>2. S \in Good
    BY <1>1, SubsetInduction
  <1>3. QED
    BY <1>2 DEF Good

\* Any element may be taken out of the sum.
LEMMA SumWithout ==
    ASSUME NEW f, NEW S, IsFiniteSet(S), \A y \in S : f[y] \in Nat, NEW x \in S
    PROVE  SumFunctionOnSet(f, S) = f[x] + SumFunctionOnSet(f, S \ {x})
  <1> DEFINE Good == {T \in SUBSET S :
                        \A y \in T : SumFunctionOnSet(f, T)
                                       = f[y] + SumFunctionOnSet(f, T \ {y})}
  <1>1. ASSUME NEW T \in SUBSET S, \A U \in SUBSET T : U # T => U \in Good
        PROVE  T \in Good
    <2> SUFFICES ASSUME NEW y \in T
                 PROVE  SumFunctionOnSet(f, T) = f[y] + SumFunctionOnSet(f, T \ {y})
      OBVIOUS
    <2> DEFINE c == CHOOSE e \in T : TRUE
               Rest == T \ {y, c}
    <2>1. IsFiniteSet(T) /\ IsFiniteSet(Rest) /\ c \in T
      BY FS_Subset
    <2>2. SumFunctionOnSet(f, T) = f[c] + SumFunctionOnSet(f, T \ {c})
      BY <2>1, SumRecursion
    <2>3. CASE c = y
      <3> HIDE DEF c
      <3>1. QED
        BY <2>2, <2>3
    <2>4. CASE c # y
      <3> HIDE DEF c
      <3>1. T \ {c} \in Good /\ y \in T \ {c} /\ (T \ {c}) \ {y} = Rest
        BY <1>1, <2>1, <2>4
      <3>2. T \ {y} \in Good /\ c \in T \ {y} /\ (T \ {y}) \ {c} = Rest
        BY <1>1, <2>1, <2>4
      <3>3. SumFunctionOnSet(f, T \ {c}) = f[y] + SumFunctionOnSet(f, Rest)
        BY <3>1
      <3>4. SumFunctionOnSet(f, T \ {y}) = f[c] + SumFunctionOnSet(f, Rest)
        BY <3>2
      <3>5. SumFunctionOnSet(f, Rest) \in Nat
        BY <2>1, SumType
      <3>6. f[c] \in Nat /\ f[y] \in Nat
        BY <2>1
      <3> HIDE DEF Rest, Good
      <3>7. QED
        BY <2>2, <3>3, <3>4, <3>5, <3>6
    <2>5. QED
      BY <2>3, <2>4
  <1> HIDE DEF Good
  <1>2. S \in Good
    BY <1>1, SubsetInduction
  <1>3. QED
    BY <1>2 DEF Good

\* Larger summands make no smaller sum.
LEMMA SumMonotone ==
    ASSUME NEW f, NEW g, NEW S, IsFiniteSet(S),
           \A x \in S : f[x] \in Nat /\ g[x] \in Nat /\ f[x] <= g[x]
    PROVE  SumFunctionOnSet(f, S) <= SumFunctionOnSet(g, S)
  <1> DEFINE Good == {T \in SUBSET S : SumFunctionOnSet(f, T) <= SumFunctionOnSet(g, T)}
  <1>1. ASSUME NEW T \in SUBSET S, \A U \in SUBSET T : U # T => U \in Good
        PROVE  T \in Good
    <2>1. IsFiniteSet(T)
      BY FS_Subset
    <2>2. CASE T = {}
      BY <2>2, SumEmpty
    <2>3. CASE T # {}
      <3> DEFINE c == CHOOSE e \in T : TRUE
                 U == T \ {c}
      <3>1. c \in T /\ U \in SUBSET T /\ U # T
        BY <2>3
      <3>2. SumFunctionOnSet(f, U) <= SumFunctionOnSet(g, U)
        BY <1>1, <3>1
      <3>3. SumFunctionOnSet(f, T) = f[c] + SumFunctionOnSet(f, U)
        BY <2>1, <2>3, SumRecursion
      <3>4. SumFunctionOnSet(g, T) = g[c] + SumFunctionOnSet(g, U)
        BY <2>1, <2>3, SumRecursion
      <3>5. SumFunctionOnSet(f, U) \in Nat /\ SumFunctionOnSet(g, U) \in Nat
        BY <2>1, FS_Subset, SumType
      <3> HIDE DEF c, U
      <3>6. SumFunctionOnSet(f, T) <= SumFunctionOnSet(g, T)
        BY <3>1, <3>2, <3>3, <3>4, <3>5
      <3>7. QED
        BY <3>6
    <2>4. QED
      BY <2>2, <2>3
  <1> HIDE DEF Good
  <1>2. S \in Good
    BY <1>1, SubsetInduction
  <1>3. QED
    BY <1>2 DEF Good

\* Equal summands make equal sums.
LEMMA SumEqual ==
    ASSUME NEW f, NEW g, NEW S, IsFiniteSet(S),
           \A x \in S : f[x] \in Nat /\ g[x] = f[x]
    PROVE  SumFunctionOnSet(g, S) = SumFunctionOnSet(f, S)
  <1>1. SumFunctionOnSet(f, S) <= SumFunctionOnSet(g, S)
    BY SumMonotone
  <1>2. SumFunctionOnSet(g, S) <= SumFunctionOnSet(f, S)
    BY SumMonotone
  <1>3. SumFunctionOnSet(f, S) \in Nat /\ SumFunctionOnSet(g, S) \in Nat
    BY SumType
  <1>4. QED
    BY <1>1, <1>2, <1>3

\* One summand changes.
LEMMA SumChange ==
    ASSUME NEW f, NEW g, NEW S, IsFiniteSet(S), NEW x \in S,
           \A y \in S : f[y] \in Nat /\ g[y] \in Nat,
           \A y \in S : y # x => g[y] = f[y]
    PROVE  SumFunctionOnSet(g, S) + f[x] = SumFunctionOnSet(f, S) + g[x]
  <1> DEFINE Rest == S \ {x}
  <1>1. SumFunctionOnSet(f, S) = f[x] + SumFunctionOnSet(f, Rest)
    BY SumWithout
  <1>2. SumFunctionOnSet(g, S) = g[x] + SumFunctionOnSet(g, Rest)
    BY SumWithout
  <1>3. SumFunctionOnSet(g, Rest) = SumFunctionOnSet(f, Rest)
    BY FS_Subset, SumEqual
  <1>4. SumFunctionOnSet(f, Rest) \in Nat
    BY FS_Subset, SumType
  <1>5. f[x] \in Nat /\ g[x] \in Nat
    OBVIOUS
  <1> HIDE DEF Rest
  <1>6. QED
    BY <1>1, <1>2, <1>3, <1>4, <1>5

\* A sum of zeros.
LEMMA SumZero ==
    ASSUME NEW f, NEW S, IsFiniteSet(S), \A x \in S : f[x] = 0
    PROVE  SumFunctionOnSet(f, S) = 0
  <1> DEFINE Good == {T \in SUBSET S : SumFunctionOnSet(f, T) = 0}
  <1>1. ASSUME NEW T \in SUBSET S, \A U \in SUBSET T : U # T => U \in Good
        PROVE  T \in Good
    <2>1. IsFiniteSet(T)
      BY FS_Subset
    <2>2. CASE T = {}
      BY <2>2, SumEmpty
    <2>3. CASE T # {}
      <3> DEFINE c == CHOOSE e \in T : TRUE
      <3>1. c \in T
        BY <2>3
      <3>2. T \ {c} \in Good
        BY <1>1, <3>1
      <3>3. SumFunctionOnSet(f, T) = f[c] + SumFunctionOnSet(f, T \ {c})
        BY <2>1, <2>3, SumRecursion
      <3> HIDE DEF c
      <3>4. QED
        BY <3>1, <3>2, <3>3
    <2>4. QED
      BY <2>2, <2>3
  <1> HIDE DEF Good
  <1>2. S \in Good
    BY <1>1, SubsetInduction
  <1>3. QED
    BY <1>2 DEF Good

LEMMA CellsFinite == IsFiniteSet(Cells)
  <1>1. IsFiniteSet(Months) /\ IsFiniteSet(Days)
    BY FS_Interval, CalendarAssumption DEF Months, Days
  <1>2. QED
    BY <1>1, FS_Product DEF Cells

\* The days of a month are cells, finitely many.
LEMMA MonthFinite ==
    ASSUME NEW month \in Months
    PROVE  {month} \X Days \subseteq Cells /\ IsFiniteSet({month} \X Days)
  <1>1. {month} \X Days \subseteq Cells
    BY DEF Cells
  <1>2. QED
    BY <1>1, CellsFinite, FS_Subset

\* The yield of a month and of the year are numbers.
LEMMA YieldTypes ==
    ASSUME NEW table \in [Cells -> Wh], NEW month \in Months
    PROVE  MonthOf(table, month) \in Wh /\ YearOf(table) \in Wh
  <1>1. \A c \in Cells : table[c] \in Nat
    BY DEF Wh
  <1>2. MonthOf(table, month) \in Nat
    BY <1>1, MonthFinite, SumType DEF MonthOf
  <1>3. YearOf(table) \in Nat
    BY <1>1, CellsFinite, SumType DEF YearOf
  <1>4. QED
    BY <1>2, <1>3 DEF Wh

LEMMA NoYieldType == NoYield \in [tag : Wh, monat : Wh, jahr : Wh, maximal : Nat,
                                  leistung : Nat, zaehler : Wh]
  BY DEF NoYield, Wh

LEMMA YieldsInit == Init => YieldsOK
  BY NoYieldType DEF Init, YieldsOK

LEMMA YieldsSetup == ASSUME StateInv, YieldsOK, Setup PROVE YieldsOK'
  <1>1. CASE SetupNtp
    BY <1>1 DEF SetupNtp, YieldsOK, display
  <1>2. CASE SetupEeprom
    <2>1. flash \in [Cells -> Wh] /\ clock \in Moments /\ t \in Moments
      BY DEF StateInv, StateOK, StoreInv, EEPROM!EepromTypeOK, EEPROM!Val, Wh
    <2>2. MonthOf(flash, t.month) \in Wh /\ YearOf(flash) \in Wh
      BY <2>1, YieldTypes DEF Moments
    <2>3. flash[Date(clock)] \in Wh
      BY <2>1, DateType
    <2>4. QED
      <3>1. PICK tag \in Nat, monat \in Nat, jahr \in Nat :
              ausgabe' = [NoYield EXCEPT !.tag = tag, !.monat = monat, !.jahr = jahr]
        BY <1>2, <2>2, <2>3 DEF SetupEeprom, Wh
      <3>2. QED
        BY <3>1 DEF NoYield, YieldsOK, Wh
  <1>3. QED
    BY <1>1, <1>2 DEF Setup

LEMMA YieldsBook == ASSUME StateInv, YieldsOK, Book PROVE YieldsOK'
  <1>1. WhOf(counter) \in Nat
    BY WhOfType DEF StateInv, StateOK
  <1>2. CASE ImpulseProKwh > 0
    <2>1. PICK wh \in Nat :
            ausgabe' = [ausgabe EXCEPT !.tag = @ + wh, !.monat = @ + wh,
                                       !.jahr = @ + wh, !.zaehler = @ + wh]
      BY <1>1, <1>2 DEF Book
    <2>2. /\ ausgabe.tag + wh \in Nat /\ ausgabe.monat + wh \in Nat
          /\ ausgabe.jahr + wh \in Nat /\ ausgabe.zaehler + wh \in Nat
      BY DEF YieldsOK, Wh
    <2>3. PICK tag \in Nat, monat \in Nat, jahr \in Nat, zaehler \in Nat :
            ausgabe' = [ausgabe EXCEPT !.tag = tag, !.monat = monat,
                                       !.jahr = jahr, !.zaehler = zaehler]
      BY <2>1, <2>2, Zenon
    <2>4. QED
      BY <2>3 DEF YieldsOK, Wh
  <1>3. CASE ~(ImpulseProKwh > 0)
    BY <1>3 DEF Book, YieldsOK
  <1>4. QED
    BY <1>2, <1>3

LEMMA YieldsWork == ASSUME StateInv, YieldsOK, FiveMinuteWork PROVE YieldsOK'
  <1> USE DEF YieldsOK, display, Wh
  <1>1. CASE Book
    BY <1>1, YieldsBook
  <1>2. CASE Power
    BY <1>2 DEF Power, StateInv, StateOK
  <1>3. CASE NewDay
    BY <1>3 DEF NewDay, NewDayYields
  <1>4. CASE NewYear
    BY <1>4 DEF NewYear
  <1>5. CASE Poll \/ Reset \/ Mark
    BY <1>5 DEF Poll, Reset, Mark
  <1>6. CASE PutToday \/ PutYesterday
    BY <1>6 DEF PutToday, PutYesterday, PutEeprom
  <1>7. CASE CommitToday \/ CommitYesterday
    BY <1>7 DEF CommitToday, CommitYesterday, CommitPut
  <1>8. QED
    BY <1>1, <1>2, <1>3, <1>4, <1>5, <1>6, <1>7 DEF FiveMinuteWork

LEMMA YieldsNext == StateInv /\ YieldsOK /\ [Next]_vars => YieldsOK'
  <1> SUFFICES ASSUME StateInv, YieldsOK, [Next]_vars
               PROVE  YieldsOK'
    OBVIOUS
  <1>1. CASE Setup
    BY <1>1, YieldsSetup
  <1>2. CASE FiveMinuteWork
    BY <1>2, YieldsWork
  <1>3. CASE Restart \/ PowerLoss
    BY <1>3, NoYieldType DEF Restart, PowerLoss, TurnOff, RamLost, YieldsOK
  <1>4. CASE DeleteRAM
    BY <1>4 DEF DeleteRAM, YieldsOK, Wh
  <1>5. CASE BackupOpen \/ BackupWrite \/ DeletePut \/ DeleteCommit \/ DeleteEnd
    BY <1>5 DEF BackupOpen, BackupWrite, DeletePut, DeleteCommit, DeleteEnd,
                CommitPut, YieldsOK, display
  <1>6. CASE Flash \/ HandleSetup \/ interruptRoutineFalling \/ Tick \/ MarkMissed
    BY <1>6 DEF Flash, HandleSetup, interruptRoutineFalling, Tick, MarkMissed,
                YieldsOK, display
  <1>7. CASE UNCHANGED vars
    BY <1>7 DEF vars, YieldsOK, display
  <1>8. QED
    BY <1>1, <1>2, <1>3, <1>4, <1>5, <1>6, <1>7 DEF Next, Sketch, Deletion

\* The state and the displayed yields keep their types: no date, no booking
\* and no restored value indexes the tables outside their bounds
\* (esplog.ino:102-103), and every sum over the table is a number.
THEOREM Typing == Spec => []TypeOK
  <1>1. StateInv /\ YieldsOK => TypeOK
    BY DEF StateInv, TypeOK
  <1>2. QED
    BY <1>1, StateInit, StateNext, YieldsInit, YieldsNext, PTL DEF Spec

-------------------------------------------------------------------------------
(* Energy.                                                                 *)

\* A table shows nowhere more than `most', blank cells aside.
Within(table, most) == \A c \in Cells : table[c] = Blank \/ table[c] <= most[c]

\* The inductive form of NoEnergyInvented: one bound for all copies of the
\* table, which together is covered by the booked pulses.  Copying a table
\* over another one then cannot add up what both show.
Covers(most) ==
    /\ Within(tagesCounter, most)
    /\ Within(flash, most)
    /\ EEPROM!Open => Within(data, most)
    /\ SumFunctionOnSet(most, Cells) * ImpulseProKwh <= verbucht * WhPerKwh

EnergyInv == \E most \in [Cells -> Nat] : Covers(most)

\* What a cell may be copied from.
Sources(c) == {0, Blank, tagesCounter[c], flash[c]}
                \cup IF EEPROM!Open THEN {data[c]} ELSE {}

\* Outside a booking every copy of a cell keeps its value, takes over that of
\* another copy, is cleared, or is erased.
OnlyCopied == \A c \in Cells : /\ tagesCounter'[c] \in Sources(c)
                               /\ flash'[c] \in Sources(c)
                               /\ EEPROM!Open' => data'[c] \in Sources(c)

LEMMA EnergyInit ==
    ASSUME Images \subseteq [Cells -> {0, Blank}], Init
    PROVE  EnergyInv
  <1> DEFINE none == [c \in Cells |-> 0]
  <1>1. SumFunctionOnSet(none, Cells) = 0
    <2>1. \A c \in Cells : none[c] = 0
      OBVIOUS
    <2> HIDE DEF none
    <2>2. QED
      BY <2>1, CellsFinite, SumZero
  <1>2. PICK image \in Images : EEPROM!EepromInit(image)
    BY DEF Init
  <1>3. image \in [Cells -> {0, Blank}]
    BY <1>2
  <1>4. Within(flash, none) /\ ~EEPROM!Open
    BY <1>2, <1>3 DEF EEPROM!EepromInit, EEPROM!Open, Within
  <1>5. Within(tagesCounter, none)
    BY DEF Init, NoTable, Within
  <1>6. verbucht * WhPerKwh = 0 /\ 0 * ImpulseProKwh = 0
    BY ValueAssumption DEF Init
  <1>7. none \in [Cells -> Nat]
    OBVIOUS
  <1> HIDE DEF none
  <1>8. Covers(none)
    BY <1>1, <1>4, <1>5, <1>6 DEF Covers
  <1>9. QED
    BY <1>7, <1>8 DEF EnergyInv

LEMMA EnergyCopied ==
    ASSUME StateInv, EnergyInv, OnlyCopied, UNCHANGED verbucht
    PROVE  EnergyInv'
  <1>1. PICK most \in [Cells -> Nat] : Covers(most)
    BY DEF EnergyInv
  <1>2. ASSUME NEW c \in Cells, NEW value \in Sources(c)
        PROVE  value = Blank \/ value <= most[c]
    BY <1>1, <1>2 DEF Covers, Within, Sources
  <1>3. Within(tagesCounter, most)' /\ Within(flash, most)'
    BY <1>2 DEF OnlyCopied, Within
  <1>4. EEPROM!Open' => Within(data, most)'
    BY <1>2 DEF OnlyCopied, Within
  <1>5. Covers(most)'
    BY <1>1, <1>3, <1>4 DEF Covers
  <1>6. QED
    BY <1>5 DEF EnergyInv

\* The Wh of a booking are covered by the pulses it has read.
LEMMA WhOfCovered ==
    ASSUME NEW n \in Nat
    PROVE  WhOf(n) * ImpulseProKwh <= n * WhPerKwh
  <1>1. CASE ImpulseProKwh > 0
    <2>1. n * WhPerKwh \in Nat
      BY ValueAssumption
    <2>2. \A p \in Nat : (p \div ImpulseProKwh) * ImpulseProKwh <= p
      BY <1>1, ValueAssumption
    <2>3. QED
      BY <1>1, <2>1, <2>2 DEF WhOf
  <1>2. CASE ~(ImpulseProKwh > 0)
    BY <1>2, ValueAssumption DEF WhOf
  <1>3. QED
    BY <1>1, <1>2

LEMMA EnergyBook == ASSUME StateInv, EnergyInv, Book PROVE EnergyInv'
  <1>1. PICK most \in [Cells -> Nat] : Covers(most)
    BY DEF EnergyInv
  <1>2. UNCHANGED <<flash, data>>
    BY DEF Book, eeprom
  <1>3. /\ verbucht \in Nat /\ counter \in Nat /\ ziel \in Cells
        /\ tagesCounter \in [Cells -> Nat]
        /\ verbucht' = verbucht + counter
    BY DEF StateInv, StateOK, Book, Wh
  <1>4. WhOf(counter) \in Nat
    BY <1>3, WhOfType
  <1> DEFINE wh == WhOf(counter)
             more == [most EXCEPT ![ziel] = @ + wh]
  <1>5. more \in [Cells -> Nat]
    BY <1>3, <1>4
  <1>6. Within(flash, more) /\ (EEPROM!Open => Within(data, more))
    <2>1. \A c \in Cells : most[c] <= more[c] /\ most[c] \in Nat /\ more[c] \in Nat
      BY <1>3, <1>4
    <2>2. flash \in [Cells -> Nat] /\ (EEPROM!Open => data \in [Cells -> Nat])
      BY DEF StateInv, StoreInv, EEPROM!EepromTypeOK, EEPROM!Val, EEPROM!Open
    <2> HIDE DEF more
    <2>3. QED
      BY <1>1, <2>1, <2>2 DEF Covers, Within
  <1>7. Within(tagesCounter', more)
    <2>1. CASE ImpulseProKwh > 0
      <3>1. PICK sum \in Sums(tagesCounter[ziel], wh) :
              tagesCounter' = [tagesCounter EXCEPT ![ziel] = sum]
        BY <2>1 DEF Book
      <3>2. sum = Blank \/ sum <= more[ziel]
        BY <1>1, <1>3, <1>4, <3>1 DEF Sums, Covers, Within
      <3>3. QED
        BY <1>1, <1>3, <3>1, <3>2 DEF Covers, Within
    <2>2. CASE ~(ImpulseProKwh > 0)
      BY <1>1, <1>3, <1>4, <2>2 DEF Book, Covers, Within
    <2>3. QED
      BY <2>1, <2>2
  <1>8. SumFunctionOnSet(more, Cells) = SumFunctionOnSet(most, Cells) + wh
    <2>1. /\ \A c \in Cells : most[c] \in Nat /\ more[c] \in Nat
          /\ \A c \in Cells : c # ziel => more[c] = most[c]
          /\ more[ziel] = most[ziel] + wh
      BY <1>3, <1>4, <1>5
    <2>2. SumFunctionOnSet(most, Cells) \in Nat /\ SumFunctionOnSet(more, Cells) \in Nat
      <3> HIDE DEF more, wh
      <3>1. QED
        BY <2>1, CellsFinite, SumType
    <2> HIDE DEF more, wh
    <2>3. SumFunctionOnSet(more, Cells) + most[ziel]
            = SumFunctionOnSet(most, Cells) + more[ziel]
      BY <1>3, <2>1, CellsFinite, SumChange
    <2>4. QED
      BY <1>3, <1>4, <2>1, <2>2, <2>3 DEF wh
  <1>9. SumFunctionOnSet(more, Cells) * ImpulseProKwh <= (verbucht + counter) * WhPerKwh
    <2>1. SumFunctionOnSet(most, Cells) \in Nat
      <3>1. \A c \in Cells : most[c] \in Nat
        OBVIOUS
      <3>2. QED
        BY <3>1, CellsFinite, SumType
    <2>2. wh * ImpulseProKwh <= counter * WhPerKwh
      BY <1>3, WhOfCovered
    <2>3. SumFunctionOnSet(most, Cells) * ImpulseProKwh <= verbucht * WhPerKwh
      BY <1>1 DEF Covers
    <2>4. \A a, b, c, d, i, w \in Nat :
            a * i <= c * w /\ b * i <= d * w => (a + b) * i <= (c + d) * w
      <3> SUFFICES ASSUME NEW a \in Nat, NEW b \in Nat, NEW c \in Nat, NEW d \in Nat,
                          NEW i \in Nat, NEW w \in Nat,
                          a * i <= c * w, b * i <= d * w
                   PROVE  (a + b) * i <= (c + d) * w
        OBVIOUS
      <3>1. (a + b) * i = a * i + b * i /\ (c + d) * w = c * w + d * w
        OBVIOUS
      <3>2. a * i \in Nat /\ b * i \in Nat /\ c * w \in Nat /\ d * w \in Nat
        OBVIOUS
      <3>3. QED
        BY <3>1, <3>2
    <2> HIDE DEF more, wh
    <2>5. QED
      BY <1>3, <1>4, <1>8, <2>1, <2>2, <2>3, <2>4, ValueAssumption DEF wh
  <1> HIDE DEF more
  <1>10. PICK bound \in [Cells -> Nat] : bound = more
    BY <1>5
  <1>11. Covers(bound)'
    BY <1>2, <1>3, <1>6, <1>7, <1>9, <1>10 DEF Covers, Within, EEPROM!Open
  <1>12. QED
    BY <1>11 DEF EnergyInv

\* putEeprom() copies a cell of the table into the buffer.
LEMMA CopiedPut ==
    ASSUME StateInv, NEW cell \in Cells, NEW committing, NEW next,
           PutEeprom(cell, committing, next)
    PROVE  OnlyCopied /\ UNCHANGED verbucht
  <1>1. CASE EEPROM!Open
    <2>1. /\ data'[cell] = tagesCounter[cell]
          /\ \A c \in Cells : c # cell => data'[c] = data[c]
          /\ UNCHANGED tagesCounter
      BY <1>1, PutSaves
    <2>2. UNCHANGED <<flash, verbucht>>
      BY DEF PutEeprom, eeprom, EEPROM!Put, history
    <2>3. QED
      BY <1>1, <2>1, <2>2 DEF OnlyCopied, Sources
  <1>2. CASE ~EEPROM!Open
    <2>1. UNCHANGED <<flash, data, tagesCounter, verbucht>>
      BY <1>2 DEF PutEeprom, eeprom, EEPROM!Put, history
    <2>2. QED
      BY <1>2, <2>1 DEF OnlyCopied, Sources, EEPROM!Open
  <1>3. QED
    BY <1>1, <1>2

\* Steps that move no value at all.
LEMMA CopiedRest ==
    ASSUME UNCHANGED <<tagesCounter, flash, data>>
    PROVE  OnlyCopied
  BY DEF OnlyCopied, Sources, EEPROM!Open

LEMMA CopiedTorn ==
    ASSUME StateInv, flash' \in EEPROM!Torn(data), EEPROM!Open,
           NEW c \in Cells
    PROVE  flash'[c] \in Sources(c)
  BY DEF EEPROM!Torn, Sources

LEMMA CopiedFlash == ASSUME StateInv, Flash PROVE OnlyCopied /\ UNCHANGED verbucht
  <1>1. UNCHANGED <<tagesCounter, verbucht>>
    BY DEF Flash, history
  <1>2. data' \in {data, NoBuffer}
    BY DEF Flash, EEPROM!EepromStep, EEPROM!CommitReturnsAtOnce, EEPROM!Erase,
           EEPROM!EraseFails, EEPROM!Program, EEPROM!ProgramFails, EEPROM!Return
  <1>3. erased => EEPROM!Open
    BY DEF StateInv, StoreInv, ErasedIsDirty
  <1>4. ASSUME NEW c \in Cells PROVE flash'[c] \in Sources(c)
    <2>1. CASE UNCHANGED flash
      BY <2>1 DEF Sources
    <2>2. CASE flash' = [a \in Cells |-> Blank]
      BY <2>2 DEF Sources
    <2>3. CASE erased /\ flash' = data
      BY <1>3, <2>3 DEF Sources
    <2>4. CASE erased /\ flash' \in EEPROM!Torn(data)
      BY <1>3, <2>4, CopiedTorn
    <2>5. QED
      BY <2>1, <2>2, <2>3, <2>4
         DEF Flash, EEPROM!EepromStep, EEPROM!CommitReturnsAtOnce, EEPROM!Erase,
             EEPROM!EraseFails, EEPROM!Program, EEPROM!ProgramFails
  <1>5. QED
    BY <1>1, <1>2, <1>4 DEF OnlyCopied, Sources, EEPROM!Open

LEMMA CopiedTurnOff == ASSUME StateInv, TurnOff PROVE OnlyCopied /\ UNCHANGED verbucht
  <1>1. /\ tagesCounter' = NoTable /\ data' = NoBuffer
        /\ UNCHANGED verbucht
    BY DEF TurnOff, RamLost, EEPROM!PowerOff
  <1>2. ASSUME NEW c \in Cells PROVE flash'[c] \in Sources(c)
    <2>1. CASE erased
      <3>1. EEPROM!Open
        BY <2>1 DEF StateInv, StoreInv, ErasedIsDirty
      <3>2. QED
        BY <2>1, <3>1, CopiedTorn DEF TurnOff, EEPROM!PowerOff
    <2>2. CASE ~erased
      BY <2>2 DEF TurnOff, EEPROM!PowerOff, Sources
    <2>3. QED
      BY <2>1, <2>2
  <1>3. QED
    BY <1>1, <1>2 DEF OnlyCopied, Sources, NoTable, EEPROM!Open

LEMMA CopiedWork ==
    ASSUME StateInv, FiveMinuteWork, ~Book
    PROVE  OnlyCopied /\ UNCHANGED verbucht
  <1>1. CASE PutToday
    <2>1. today \in Cells
      BY DateType DEF StateInv, StateOK, today
    <2>2. QED
      BY <1>1, <2>1, CopiedPut DEF PutToday
  <1>2. CASE PutYesterday
    BY <1>2, CopiedPut DEF PutYesterday, StateInv, StateOK
  <1>3. CASE NewDay
    BY <1>3 DEF NewDay, OnlyCopied, Sources, history, eeprom, EEPROM!Open
  <1>4. CASE CommitToday \/ CommitYesterday
    BY <1>4, CopiedRest
       DEF CommitToday, CommitYesterday, CommitPut, EEPROM!Commit, history
  <1>5. CASE Poll \/ Power \/ Reset \/ Mark \/ NewYear
    BY <1>5, CopiedRest DEF Poll, Power, Reset, Mark, NewYear, history, eeprom
  <1>6. QED
    BY <1>1, <1>2, <1>3, <1>4, <1>5 DEF FiveMinuteWork

LEMMA CopiedDeletion ==
    ASSUME StateInv, Deletion
    PROVE  OnlyCopied /\ UNCHANGED verbucht
  <1>1. CASE BackupOpen \/ BackupWrite
    BY <1>1, CopiedRest DEF BackupOpen, BackupWrite, history, eeprom
  <1>2. CASE DeletePut
    BY <1>2 DEF DeletePut, EEPROM!Put, EEPROM!Patched, NoTable, OnlyCopied, Sources,
                history, EEPROM!Open
  <1>3. CASE DeleteCommit \/ DeleteEnd
    BY <1>3, CopiedRest
       DEF DeleteCommit, DeleteEnd, CommitPut, EEPROM!Commit, EEPROM!End, history
  <1>4. CASE DeleteRAM
    BY <1>4 DEF DeleteRAM, NoTable, OnlyCopied, Sources, eeprom, EEPROM!Open
  <1>5. QED
    BY <1>1, <1>2, <1>3, <1>4 DEF Deletion

LEMMA EnergyNext == StateInv /\ EnergyInv /\ [Next]_vars => EnergyInv'
  <1> SUFFICES ASSUME StateInv, EnergyInv, [Next]_vars
               PROVE  EnergyInv'
    OBVIOUS
  <1>1. CASE Book
    BY <1>1, EnergyBook
  <1>2. CASE FiveMinuteWork /\ ~Book
    BY <1>2, CopiedWork, EnergyCopied
  <1>3. CASE Setup
    <2>1. OnlyCopied /\ UNCHANGED verbucht
      BY <1>3 DEF Setup, SetupNtp, SetupEeprom, EEPROM!Begin, OnlyCopied, Sources,
                  history, eeprom, EEPROM!Open
    <2>2. QED
      BY <2>1, EnergyCopied
  <1>4. CASE Deletion
    BY <1>4, CopiedDeletion, EnergyCopied
  <1>5. CASE Flash
    BY <1>5, CopiedFlash, EnergyCopied
  <1>6. CASE Restart \/ PowerLoss
    BY <1>6, CopiedTurnOff, EnergyCopied DEF Restart, PowerLoss
  <1>7. CASE \/ HandleSetup \/ interruptRoutineFalling \/ Tick \/ MarkMissed
             \/ UNCHANGED vars
    <2>1. UNCHANGED <<tagesCounter, flash, data, verbucht>>
      BY <1>7 DEF HandleSetup, interruptRoutineFalling, Tick, MarkMissed, vars,
                  history, eeprom
    <2>2. QED
      BY <2>1, CopiedRest, EnergyCopied
  <1>8. QED
    BY <1>1, <1>2, <1>3, <1>4, <1>5, <1>6, <1>7 DEF Next, Sketch

\* What a table under the bound shows is covered by the booked pulses.
LEMMA WithinCovered ==
    ASSUME NEW table \in [Cells -> Nat], NEW most \in [Cells -> Nat],
           Within(table, most), verbucht \in Nat,
           SumFunctionOnSet(most, Cells) * ImpulseProKwh <= verbucht * WhPerKwh
    PROVE  WhIn(table) * ImpulseProKwh <= verbucht * WhPerKwh
  <1> DEFINE shown == [c \in Cells |-> IF table[c] = Blank THEN 0 ELSE table[c]]
  <1>1. WhIn(table) = SumFunctionOnSet(shown, Cells)
    BY DEF WhIn, SumFunction, FoldFunction, SumFunctionOnSet
  <1>2. \A c \in Cells : shown[c] \in Nat /\ most[c] \in Nat /\ shown[c] <= most[c]
    BY DEF Within
  <1> HIDE DEF shown
  <1>3. SumFunctionOnSet(shown, Cells) <= SumFunctionOnSet(most, Cells)
    BY <1>2, CellsFinite, SumMonotone
  <1>4. SumFunctionOnSet(shown, Cells) \in Nat /\ SumFunctionOnSet(most, Cells) \in Nat
    BY <1>2, CellsFinite, SumType
  <1>5. \A a, b, i \in Nat : a <= b => a * i <= b * i
    OBVIOUS
  <1>6. SumFunctionOnSet(shown, Cells) * ImpulseProKwh
          <= SumFunctionOnSet(most, Cells) * ImpulseProKwh
    BY <1>3, <1>4, <1>5, ValueAssumption
  <1>7. \A a, b, i, c \in Nat : a * i <= b * i /\ b * i <= c => a * i <= c
    OBVIOUS
  <1>8. verbucht * WhPerKwh \in Nat
    BY ValueAssumption
  <1>9. QED
    BY <1>1, <1>4, <1>6, <1>7, <1>8, ValueAssumption

\* Neither table ever shows more energy than the booked pulses stand for
\* (functions.ino:9-20), whatever is restarted, torn, deleted or restored, if
\* the EEPROM was erased or cleared when the logger was installed.
THEOREM EnergyIsBooked ==
    ASSUME Images \subseteq [Cells -> {0, Blank}]
    PROVE  Spec => []NoEnergyInvented
  <1>1. Init => EnergyInv
    BY EnergyInit
  <1>2. StateInv /\ EnergyInv => NoEnergyInvented
    <2> SUFFICES ASSUME StateInv, NEW most \in [Cells -> Nat], Covers(most)
                 PROVE  NoEnergyInvented
      BY DEF EnergyInv
    <2>1. flash \in [Cells -> Nat] /\ tagesCounter \in [Cells -> Nat] /\ verbucht \in Nat
      BY DEF StateInv, StateOK, StoreInv, EEPROM!EepromTypeOK, EEPROM!Val, Wh
    <2>2. QED
      BY <2>1, WithinCovered DEF Covers, NoEnergyInvented
  <1>3. QED
    BY <1>1, <1>2, StateInit, StateNext, EnergyNext, PTL DEF Spec

-------------------------------------------------------------------------------
(* The backup and the deletion.                                            *)

\* A changed buffer is committed at once, and stays changed only while the
\* commit is due or running.
NothingPending ==
    phase = "ready" /\ dirty => pc \in {"commitToday", "commitYesterday", "deleteCommit"}

\* Where loop() has called commit() or end().
ReadyWhen ==
    /\ phase = "commit" => pc \in {"putYesterday", "mark", "newDay", "deleteEnd"}
    /\ phase = "end" => pc \in {"newYear", "deleteRAM"}

ClosedIsClean == dirty => EEPROM!Open

\* From the backup to the erasure the file holds what the sector holds.
BackedUp ==
    /\ caller = "loop" /\ EEPROM!Open /\ ~erased
    /\ pc = "delete" \/ (pc \in {"deleteCommit", "deleteEnd"} /\ dirty)
    => backup = flash

DeletionInv == NothingPending /\ ReadyWhen /\ ClosedIsClean /\ BackedUp

LEMMA DeletionInit == Init => DeletionInv
  BY DEF Init, EEPROM!EepromInit, DeletionInv, NothingPending, ReadyWhen,
         ClosedIsClean, BackedUp

\* Steps that leave the EEPROM, the control and the backup alone.
LEMMA DeletionRest ==
    ASSUME DeletionInv, UNCHANGED <<eeprom, pc, caller, backup>>
    PROVE  DeletionInv'
  BY DEF DeletionInv, NothingPending, ReadyWhen, ClosedIsClean, BackedUp,
         EEPROM!Open, eeprom

LEMMA DeletionPut ==
    ASSUME StateInv, DeletionInv, PutToday \/ PutYesterday
    PROVE  DeletionInv'
  <1>1. today \in Cells /\ yesterday \in Cells
    BY DateType DEF StateInv, StateOK, today
  <1>2. EEPROM!Open => EEPROM!Open'
    BY <1>1, PutSaves DEF PutToday, PutYesterday
  <1>3. pc' \in {"putYesterday", "mark", "newDay"} => UNCHANGED eeprom
    BY DEF PutToday, PutYesterday, PutEeprom, AfterBooking
  <1>4. /\ phase = "ready" /\ phase' = "ready"
        /\ pc' \in {"commitToday", "commitYesterday", "putYesterday", "mark", "newDay"}
        /\ dirty' => dirty \/ EEPROM!Open
    BY DEF PutToday, PutYesterday, PutEeprom, AfterBooking, At, EEPROM!Put, eeprom
  <1>5. pc \in {"putToday", "putYesterday"}
    BY DEF PutToday, PutYesterday, At
  <1>6. QED
    BY <1>2, <1>3, <1>4, <1>5
       DEF DeletionInv, NothingPending, ReadyWhen, ClosedIsClean, BackedUp, eeprom

LEMMA DeletionWork ==
    ASSUME StateInv, DeletionInv, FiveMinuteWork
    PROVE  DeletionInv'
  <1> USE DEF At, DeletionInv, NothingPending, ReadyWhen, ClosedIsClean, BackedUp,
              EEPROM!Open, eeprom, control
  <1>1. CASE PutToday \/ PutYesterday
    BY <1>1, DeletionPut
  <1>2. CASE CommitToday \/ CommitYesterday
    BY <1>2 DEF CommitToday, CommitYesterday, CommitPut, AfterBooking, EEPROM!Commit
  <1>3. CASE Poll \/ Book \/ Power \/ Reset
    BY <1>3 DEF Poll, Book, Power, Reset
  <1>4. CASE Mark \/ NewYear
    BY <1>4 DEF Mark, NewYear
  <1>5. CASE NewDay
    BY <1>5 DEF NewDay, AfterNewDay
  <1>6. QED
    BY <1>1, <1>2, <1>3, <1>4, <1>5 DEF FiveMinuteWork

LEMMA DeletionDeletion ==
    ASSUME StateInv, DeletionInv, Deletion
    PROVE  DeletionInv'
  <1> USE DEF At, DeletionInv, NothingPending, ReadyWhen, ClosedIsClean, BackedUp,
              EEPROM!Open, eeprom, control
  <1>1. CASE BackupOpen
    BY <1>1 DEF BackupOpen
  <1>2. CASE BackupWrite
    <2>1. EEPROM!Open => flash = data
      BY <1>2 DEF BackupWrite, StateInv, StoreInv, CleanMeansStored
    <2>2. QED
      BY <1>2, <2>1 DEF BackupWrite
  <1>3. CASE DeletePut
    <2>1. EEPROM!Open => EEPROM!Open'
      <3>1. ASSUME EEPROM!Open PROVE data' \in [Cells -> Wh]
        <4>1. data' = EEPROM!Patched(NoTable) /\ data \in [Cells -> Wh]
          BY <1>3, <3>1 DEF DeletePut, EEPROM!Put, StateInv, StoreInv,
                            EEPROM!EepromTypeOK, EEPROM!Val, Wh
        <4>2. QED
          BY <4>1, PatchType DEF NoTable, Wh
      <3>2. QED
        BY <3>1, ValueAssumption
    <2>2. QED
      BY <1>3, <2>1 DEF DeletePut, EEPROM!Put
  <1>4. CASE DeleteCommit
    BY <1>4 DEF DeleteCommit, CommitPut, EEPROM!Commit
  <1>5. CASE DeleteEnd
    BY <1>5 DEF DeleteEnd, EEPROM!End
  <1>6. CASE DeleteRAM
    BY <1>6 DEF DeleteRAM
  <1>7. QED
    BY <1>1, <1>2, <1>3, <1>4, <1>5, <1>6 DEF Deletion

\* A flash that never fails ends every commit with a clean buffer.
LEMMA DeletionFlash ==
    ASSUME "flash" \notin Events, StateInv, DeletionInv, Flash
    PROVE  DeletionInv'
  <1> USE DEF DeletionInv, NothingPending, ReadyWhen, ClosedIsClean, BackedUp,
              EEPROM!Open, StateInv, StoreInv, ErasedIsDirty
  <1>1. UNCHANGED <<pc, caller, backup>> /\ phase \in {"commit", "end"}
    BY DEF Flash, control, EEPROM!EepromTypeOK, EEPROM!EepromStep,
           EEPROM!CommitReturnsAtOnce, EEPROM!Erase, EEPROM!EraseFails,
           EEPROM!Program, EEPROM!ProgramFails
  <1>2. CASE EEPROM!CommitReturnsAtOnce
    BY <1>1, <1>2 DEF EEPROM!CommitReturnsAtOnce, EEPROM!Return
  <1>3. CASE EEPROM!Erase
    BY <1>1, <1>3 DEF EEPROM!Erase
  <1>4. CASE EEPROM!Program
    BY <1>1, <1>4 DEF EEPROM!Program, EEPROM!Return
  <1>5. QED
    BY <1>2, <1>3, <1>4 DEF Flash, EEPROM!EepromStep, EEPROM!EraseFails,
                            EEPROM!ProgramFails

LEMMA DeletionNext ==
    ASSUME "flash" \notin Events, StateInv, DeletionInv, [Next]_vars
    PROVE  DeletionInv'
  <1>1. CASE Setup
    BY <1>1 DEF Setup, SetupNtp, SetupEeprom, EEPROM!Begin, eeprom, DeletionInv,
                NothingPending, ReadyWhen, ClosedIsClean, BackedUp, EEPROM!Open
  <1>2. CASE FiveMinuteWork
    BY <1>2, DeletionWork
  <1>3. CASE Deletion
    BY <1>3, DeletionDeletion
  <1>4. CASE Flash
    BY <1>4, DeletionFlash
  <1>5. CASE HandleSetup
    BY <1>5 DEF HandleSetup, At, eeprom, DeletionInv, NothingPending, ReadyWhen,
                ClosedIsClean, BackedUp, EEPROM!Open
  <1>6. CASE Restart \/ PowerLoss
    BY <1>6 DEF Restart, PowerLoss, TurnOff, EEPROM!PowerOff, DeletionInv,
                NothingPending, ReadyWhen, ClosedIsClean, BackedUp
  <1>7. CASE interruptRoutineFalling \/ Tick \/ MarkMissed \/ UNCHANGED vars
    <2>1. UNCHANGED <<eeprom, pc, caller, backup>>
      BY <1>7 DEF interruptRoutineFalling, Tick, MarkMissed, vars, control
    <2>2. QED
      BY <2>1, DeletionRest
  <1>8. QED
    BY <1>1, <1>2, <1>3, <1>4, <1>5, <1>6, <1>7 DEF Next, Sketch

\* Only the commit() of a deletion erases the sector in this state.
LEMMA ErasureIsBackedUp ==
    ASSUME StateInv, DeletionInv, [Next]_vars,
           pc = "deleteEnd", caller = "loop", erased', ~erased
    PROVE  backup = flash
  <1>1. EEPROM!Erase
    <2>1. ~erased => (erased' => \/ EEPROM!EepromStep \/ EEPROM!Put(NoTable)
                                 \/ EEPROM!Begin \/ EEPROM!Commit \/ EEPROM!End)
      BY DEF Next, Sketch, Setup, SetupNtp, SetupEeprom, FiveMinuteWork, Poll, Book,
             Power, Reset, PutToday, CommitToday, Mark, PutYesterday,
             CommitYesterday, NewDay, NewYear, PutEeprom, CommitPut, Deletion,
             BackupOpen, BackupWrite, DeletePut, DeleteCommit, DeleteEnd, DeleteRAM,
             Flash, HandleSetup, interruptRoutineFalling, Tick, MarkMissed, Restart,
             PowerLoss, TurnOff, EEPROM!PowerOff, EEPROM!Put, eeprom, vars
    <2>2. QED
      BY <2>1 DEF EEPROM!EepromStep, EEPROM!Put, EEPROM!Begin, EEPROM!Commit,
                  EEPROM!End, EEPROM!CommitReturnsAtOnce, EEPROM!EraseFails,
                  EEPROM!Program, EEPROM!ProgramFails, EEPROM!Return
  <1>2. QED
    BY <1>1 DEF EEPROM!Erase, EEPROM!Open, DeletionInv, BackedUp

\* When loop()'s January deletion erases the sector, the backup file holds the
\* very table that is erased (loop.ino:70-71), unless the flash has refused a
\* write: power may fail and marks may be missed at any moment.
THEOREM ErasedYearIsInTheBackup ==
    ASSUME "flash" \notin Events
    PROVE  Spec => DeletedYearIsBackedUp
  <1>1. StateInv /\ DeletionInv /\ [Next]_vars => DeletionInv'
    BY DeletionNext
  <1>2. StateInv /\ DeletionInv /\ [Next]_vars
        => [pc = "deleteEnd" /\ caller = "loop" /\ erased' /\ ~erased
              => backup = flash]_vars
    BY ErasureIsBackedUp
  <1>3. QED
    BY <1>1, <1>2, StateInit, StateNext, DeletionInit, PTL
       DEF Spec, DeletedYearIsBackedUp

-------------------------------------------------------------------------------
(* Marks.                                                                  *)

\* loop() looks at the clock during second 0 of every mark, and the logger is
\* not off at one.
Punctual == Events \cap {"missed", "outage"} = {}

\* It is not started in the last five minutes of a day: the globals do not
\* know yesterday yet.
BootsByDay == \A m \in BootMoments : Local(m).slot # LastSlot

\* Midnight is when the last slot is over; every other slot keeps the date.
LEMMA SuccessorSlot ==
    ASSUME NEW m \in Moments
    PROVE  /\ Successor(m).slot = 0 <=> m.slot = LastSlot
           /\ Successor(m).slot # 0 => /\ Date(Successor(m)) = Date(m)
                                       /\ Successor(m).slot = m.slot + 1
           /\ Successor(m).slot = 0 =>
                IF Successor(m).day > 0
                  THEN Date(m) = <<Successor(m).month, Successor(m).day - 1>>
                  ELSE Successor(m).month = (m.month + 1) % MonthsPerYear
  <1>1. /\ m.slot \in Nat /\ m.slot <= LastSlot /\ m.day \in Nat /\ LastSlot \in Nat
        /\ LastSlot # 0
    BY CalendarAssumption DEF Moments, Slots, Days, LastSlot
  <1>2. CASE m.slot < LastSlot
    BY <1>1, <1>2 DEF Successor, Date
  <1>3. CASE ~(m.slot < LastSlot) /\ m.day + 1 < DaysIn[m.month]
    BY <1>1, <1>3 DEF Successor, Date
  <1>4. CASE ~(m.slot < LastSlot) /\ ~(m.day + 1 < DaysIn[m.month])
    BY <1>1, <1>4 DEF Successor
  <1>5. QED
    BY <1>2, <1>3, <1>4

\* The mark after an hour is an hour after the mark.
LEMMA HourAndMark ==
    ASSUME NEW m \in Moments
    PROVE  HourLater(Successor(m)) = Successor(HourLater(m))
  <1>1. /\ m.slot \in Nat /\ m.slot <= LastSlot /\ SlotsPerDay = LastSlot + 1
        /\ LastSlot \in Nat
        /\ HourMarks \in Nat /\ HourMarks >= 1 /\ HourMarks <= LastSlot
    BY CalendarAssumption DEF Moments, Slots, LastSlot
  <1>2. Successor(m) \in Moments /\ HourLater(m) \in Moments
    BY SuccessorType, HourLaterType
  <1> DEFINE slot == m.slot + HourMarks
  <1>3. CASE slot < LastSlot
    <2>1. HourLater(m) = [m EXCEPT !.slot = slot]
      BY <1>1, <1>3 DEF HourLater
    <2>2. Successor(m) = [m EXCEPT !.slot = m.slot + 1]
      BY <1>1, <1>3 DEF Successor, Moments
    <2>3. HourLater(Successor(m)) = [m EXCEPT !.slot = slot + 1]
      <3>1. Successor(m).slot = m.slot + 1
        BY <2>2 DEF Moments
      <3>2. /\ m.slot + 1 + HourMarks < SlotsPerDay
            /\ m.slot + 1 + HourMarks = slot + 1
        BY <1>1, <1>3
      <3>3. HourLater(Successor(m)) = [Successor(m) EXCEPT !.slot = slot + 1]
        BY <3>1, <3>2 DEF HourLater
      <3>4. QED
        BY <2>2, <3>3 DEF Moments
    <2>4. Successor(HourLater(m)) = [m EXCEPT !.slot = slot + 1]
      BY <1>1, <1>3, <2>1 DEF Successor, Moments
    <2>5. QED
      BY <2>3, <2>4
  <1>4. CASE slot = LastSlot
    <2>1. HourLater(m) = [m EXCEPT !.slot = LastSlot]
      BY <1>1, <1>4 DEF HourLater
    <2>2. Successor(m) = [m EXCEPT !.slot = m.slot + 1]
      BY <1>1, <1>4 DEF Successor, Moments
    <2>3. NextDay(Successor(m)) = NextDay(m)
      BY <2>2 DEF NextDay, Moments
    <2>4. HourLater(Successor(m)) = [NextDay(m) EXCEPT !.slot = 0]
      BY <1>1, <1>2, <1>4, <2>2, <2>3 DEF HourLater, Moments
    <2>5. [NextDay(m) EXCEPT !.slot = 0] = NextDay(m)
      BY NextDayType DEF Moments
    <2>6. QED
      BY <2>1, <2>4, <2>5 DEF NextDay
  <1>5. CASE slot > LastSlot /\ m.slot < LastSlot
    <2>1. HourLater(m) = [NextDay(m) EXCEPT !.slot = slot - SlotsPerDay]
      BY <1>1, <1>5 DEF HourLater
    <2>2. Successor(m) = [m EXCEPT !.slot = m.slot + 1]
      BY <1>1, <1>5 DEF Successor, Moments
    <2>3. NextDay(Successor(m)) = NextDay(m)
      BY <2>2 DEF NextDay, Moments
    <2>4. HourLater(Successor(m)) = [NextDay(m) EXCEPT !.slot = slot + 1 - SlotsPerDay]
      <3>1. Successor(m).slot = m.slot + 1
        BY <2>2 DEF Moments
      <3>2. /\ ~(m.slot + 1 + HourMarks < SlotsPerDay)
            /\ m.slot + 1 + HourMarks - SlotsPerDay = slot + 1 - SlotsPerDay
        BY <1>1, <1>5
      <3>3. QED
        BY <2>3, <3>1, <3>2 DEF HourLater
    <2>5. Successor(HourLater(m)) = [NextDay(m) EXCEPT !.slot = slot + 1 - SlotsPerDay]
      BY <1>1, <1>5, <2>1, NextDayType DEF Successor, Moments
    <2>6. QED
      BY <2>4, <2>5
  <1>6. CASE m.slot = LastSlot
    <2>1. HourLater(m) = [NextDay(m) EXCEPT !.slot = HourMarks - 1]
      BY <1>1, <1>6 DEF HourLater
    <2>2. Successor(m) = NextDay(m)
      BY <1>6 DEF NextDay, Moments
    <2>3. HourLater(Successor(m)) = [NextDay(m) EXCEPT !.slot = HourMarks]
      BY <1>1, <2>2, NextDayType DEF HourLater
    <2>4. Successor(HourLater(m)) = [NextDay(m) EXCEPT !.slot = HourMarks]
      BY <1>1, <2>1, NextDayType DEF Successor, Moments
    <2>5. QED
      BY <2>3, <2>4
  <1>7. QED
    BY <1>1, <1>3, <1>4, <1>5, <1>6

\* Where the clock is not changed local time runs evenly.
LEMMA LocalSuccessor ==
    ASSUME NEW m \in Moments, (m \in Summer) = (Successor(m) \in Summer)
    PROVE  Local(Successor(m)) = Successor(Local(m))
  <1>1. CASE m \in Summer
    BY <1>1, HourAndMark DEF Local
  <1>2. CASE m \notin Summer
    BY <1>2 DEF Local
  <1>3. QED
    BY <1>1, <1>2

\* Around midnight it does.
LEMMA LocalMidnight ==
    ASSUME NEW m \in Moments, Local(Successor(m)).slot = 0
    PROVE  Local(Successor(m)) = Successor(Local(m)) /\ Local(m).slot = LastSlot
  <1>1. Local(Successor(m)) = Successor(Local(m))
    BY SummerAssumption, LocalSuccessor
  <1>2. QED
    BY <1>1, LocalType, SuccessorSlot

\* The local date changes at midnight and at no other mark.
LEMMA LocalDay ==
    ASSUME NEW m \in Moments, Local(Successor(m)).slot # 0
    PROVE  Date(Local(Successor(m))) = Date(Local(m))
  <1>1. CASE (m \in Summer) = (Successor(m) \in Summer)
    BY <1>1, LocalSuccessor, LocalType, SuccessorSlot
  <1>2. CASE (m \in Summer) # (Successor(m) \in Summer)
    BY <1>2, SummerAssumption
  <1>3. QED
    BY <1>1, <1>2

MidnightWork == /\ t.slot = 0
                /\ pc \in {"book", "power", "reset", "putToday", "commitToday",
                           "putYesterday", "commitYesterday", "newDay"}

\* t is the local time of the mark before the one that is due.
MarkBefore == \E before \in Moments : Successor(before) = clock /\ t = Local(before)

\* t is the local time of the mark that loop() has seen last, and loop()
\* has work only between a mark and the next.
MarkInTime ==
    pc # "off" => IF due THEN NoWork /\ MarkBefore ELSE t = Local(clock)

BootsInTime == pc \in {"off", "setup"} => clock \in BootMoments /\ ~due

TimeInv == MarkInTime /\ BootsInTime

\* Steps that leave the marks alone and that loop() waits through, or works.
Steady == /\ UNCHANGED <<environment, t>>
          /\ pc \notin {"off", "setup"} /\ pc' \notin {"off", "setup"}
          /\ NoWork => NoWork'

LEMMA TimeInit == Init => TimeInv
  BY DEF Init, TimeInv, MarkInTime, BootsInTime

LEMMA TimeSteady == ASSUME TimeInv, Steady PROVE TimeInv'
  BY DEF TimeInv, MarkInTime, MarkBefore, BootsInTime, Steady, environment

LEMMA SteadyWork == ASSUME FiveMinuteWork, ~Poll PROVE Steady
  <1> USE DEF Steady, environment, control, NoWork, DeletionSteps, At
  <1>1. CASE Book \/ Power \/ Reset
    BY <1>1 DEF Book, Power, Reset
  <1>2. CASE PutToday \/ CommitToday
    BY <1>2 DEF PutToday, CommitToday, PutEeprom, CommitPut, AfterBooking
  <1>3. CASE PutYesterday \/ CommitYesterday \/ Mark
    BY <1>3 DEF PutYesterday, CommitYesterday, PutEeprom, CommitPut, Mark
  <1>4. CASE NewDay \/ NewYear
    BY <1>4 DEF NewDay, AfterNewDay, NewYear
  <1>5. QED
    BY <1>1, <1>2, <1>3, <1>4 DEF FiveMinuteWork

LEMMA SteadyDeletion ==
    ASSUME StateInv, Deletion \/ HandleSetup
    PROVE  Steady /\ pc \notin {"book", "power"} /\ pc' \notin {"book", "power"}
  <1> USE DEF Steady, environment, control, NoWork, DeletionSteps, At
  <1>1. CASE BackupOpen \/ BackupWrite
    BY <1>1 DEF BackupOpen, BackupWrite, StateInv, StateOK
  <1>2. CASE DeletePut \/ DeleteCommit
    BY <1>2 DEF DeletePut, DeleteCommit, CommitPut
  <1>3. CASE DeleteEnd \/ DeleteRAM
    BY <1>3 DEF DeleteEnd, DeleteRAM, StateInv, StateOK
  <1>4. CASE HandleSetup
    BY <1>4 DEF HandleSetup
  <1>5. QED
    BY <1>1, <1>2, <1>3, <1>4 DEF Deletion

\* With every mark seen, the next comes while loop() waits.
LEMMA PunctualTick ==
    ASSUME Punctual, Tick
    PROVE  /\ NoWork /\ ~due /\ due' /\ clock' = Successor(clock)
           /\ pc \notin {"off", "setup", "book", "power"} /\ ~MidnightWork
           /\ UNCHANGED <<t, ziel, caller, yesterday, pc>>
  BY DEF Punctual, Tick, NoWork, MidnightWork, DeletionSteps, control

LEMMA TimeNext ==
    ASSUME Punctual, StateInv, TimeInv, [Next]_vars
    PROVE  TimeInv'
  <1> USE DEF TimeInv, MarkInTime, BootsInTime
  <1>1. CASE Setup
    BY <1>1 DEF Setup, SetupNtp, SetupEeprom, environment, control
  <1>2. CASE Poll
    BY <1>2 DEF Poll
  <1>3. CASE FiveMinuteWork /\ ~Poll
    BY <1>3, SteadyWork, TimeSteady
  <1>4. CASE Deletion \/ HandleSetup
    BY <1>4, SteadyDeletion, TimeSteady
  <1>5. CASE Flash \/ interruptRoutineFalling \/ UNCHANGED vars
    BY <1>5 DEF Flash, interruptRoutineFalling, vars, environment, control,
                MarkBefore, NoWork
  <1>6. CASE Tick
    <2>1. MarkBefore'
      BY <1>6, PunctualTick DEF MarkBefore, StateInv, StateOK
    <2>2. QED
      BY <1>6, <2>1, PunctualTick DEF NoWork
  <1>7. CASE MarkMissed
    BY <1>7 DEF MarkMissed, Punctual
  <1>8. CASE Restart \/ PowerLoss
    BY <1>8 DEF Restart, PowerLoss, TurnOff, Punctual
  <1>9. QED
    BY <1>1, <1>2, <1>3, <1>4, <1>5, <1>6, <1>7, <1>8 DEF Next, Sketch

-------------------------------------------------------------------------------
(* The day that is booked.                                                 *)

\* At 23:55 today is remembered, before the next mark comes.
YesterdayMarked == NoWork /\ t.slot = LastSlot => yesterday = today

\* loop() deletes at midnight only.
LoopDeletes ==
    pc = "newYear" \/ (caller = "loop" /\ pc \in DeletionSteps) => t.slot = 0

DayBefore(c) == IF t.day > 0 THEN c = <<t.month, t.day - 1>>
                             ELSE t.month = (c[1] + 1) % MonthsPerYear

\* What Poll has found out.
MarkBooked == /\ LastFiveMinutes
              /\ MidnightWork => DayBefore(yesterday)

MarkInv == YesterdayMarked /\ LoopDeletes /\ MarkBooked

LEMMA MarkInit == Init => MarkInv
  BY DEF Init, MarkInv, YesterdayMarked, LoopDeletes,
         MarkBooked, LastFiveMinutes, MidnightWork, NoWork, DeletionSteps

\* Steps that leave marks and control alone.
LEMMA MarkRest ==
    ASSUME MarkInv, UNCHANGED <<environment, control, pc>>
    PROVE  MarkInv'
  BY DEF MarkInv, YesterdayMarked, LoopDeletes, MarkBooked, LastFiveMinutes,
         MidnightWork, DayBefore, NoWork, environment, control, today, Date

LEMMA MarkPoll ==
    ASSUME StateInv, TimeInv, MarkInv, Poll
    PROVE  MarkInv'
  <1>1. PICK before \in Moments : Successor(before) = clock /\ t = Local(before)
    BY DEF Poll, At, TimeInv, MarkInTime, MarkBefore
  <1>2. /\ pc' = "book" /\ ~due' /\ t' = Local(clock)
        /\ ziel' = IF Local(clock).slot = 0 THEN yesterday ELSE Date(Local(clock))
        /\ UNCHANGED <<clock, yesterday, caller>>
        /\ pc = "idle"
    BY DEF Poll, At, BookedDay
  <1> USE DEF MarkInv, YesterdayMarked, LoopDeletes, MarkBooked, NoWork, DeletionSteps
  <1>3. CASE Local(clock).slot = 0
    <2>1. t.slot = LastSlot /\ Local(clock) = Successor(t)
      BY <1>1, <1>3, LocalMidnight
    <2>2. yesterday = Date(t)
      BY <1>2, <2>1 DEF today
    <2>3. LastFiveMinutes'
      BY <1>1, <1>2, <1>3, <2>2 DEF LastFiveMinutes
    <2>4. DayBefore(yesterday)'
      <3>1. t \in Moments
        BY DEF StateInv, StateOK
      <3>2. yesterday' = Date(t) /\ t' = Successor(t) /\ t'.slot = 0
        BY <1>2, <1>3, <2>1, <2>2
      <3>3. yesterday'[1] = t.month
        BY <3>2 DEF Date
      <3>4. QED
        BY <3>1, <3>2, <3>3, SuccessorSlot DEF DayBefore
    <2>5. QED
      BY <1>2, <2>3, <2>4
  <1>4. CASE Local(clock).slot # 0
    <2>1. Date(Local(clock)) = Date(Local(before))
      BY <1>1, <1>4, LocalDay
    <2>2. LastFiveMinutes'
      BY <1>1, <1>2, <1>4, <2>1 DEF LastFiveMinutes
    <2>3. QED
      BY <1>2, <1>4, <2>2 DEF MidnightWork
  <1>5. QED
    BY <1>3, <1>4

\* Steps that end no day: yesterday stays, and the control goes on as it may.
Onward ==
    /\ Steady
    /\ UNCHANGED yesterday
    /\ pc' # "book"
    /\ NoWork' => NoWork \/ t.slot = 0
    /\ MidnightWork' => MidnightWork
    /\ pc' = "newYear" \/ (caller' = "loop" /\ pc' \in DeletionSteps)
         => t.slot = 0

LEMMA MarkOnward == ASSUME MarkInv, Onward PROVE MarkInv'
  <1>1. LastSlot # 0
    BY CalendarAssumption DEF LastSlot
  <1>2. DayBefore(yesterday) => DayBefore(yesterday)'
    BY DEF Onward, Steady, DayBefore
  <1>3. YesterdayMarked'
    BY <1>1 DEF MarkInv, YesterdayMarked, Onward, Steady, today, Date
  <1>4. LoopDeletes' /\ MarkBooked'
    BY <1>2 DEF MarkInv, LoopDeletes, MarkBooked, LastFiveMinutes, Onward, Steady
  <1>5. QED
    BY <1>3, <1>4 DEF MarkInv

LEMMA OnwardWork ==
    ASSUME TableInv, MarkInv, FiveMinuteWork, ~Poll, ~Mark
    PROVE  Onward
  <1>1. Steady
    BY SteadyWork
  <1> USE <1>1 DEF Onward, control, NoWork, MidnightWork, DeletionSteps, At
  <1>2. CASE Book \/ Power \/ Reset
    BY <1>2 DEF Book, Power, Reset
  <1>3. CASE PutToday \/ CommitToday
    BY <1>3 DEF PutToday, CommitToday, PutEeprom, CommitPut, AfterBooking
  <1>4. CASE PutYesterday \/ CommitYesterday
    BY <1>4 DEF PutYesterday, CommitYesterday, PutEeprom, CommitPut
  <1>5. CASE NewDay
    BY <1>5 DEF NewDay, AfterNewDay, TableInv, ZielIsSaved
  <1>6. CASE NewYear
    BY <1>6 DEF NewYear, MarkInv, LoopDeletes
  <1>7. QED
    BY <1>2, <1>3, <1>4, <1>5, <1>6 DEF FiveMinuteWork

LEMMA MarkMark == ASSUME MarkInv, Mark PROVE MarkInv'
  <1>1. /\ UNCHANGED <<t, caller>>
        /\ pc = "mark" /\ pc' = "idle"
        /\ yesterday' = IF t.slot = LastSlot THEN today ELSE yesterday
    BY DEF Mark, At, MarkedDay
  <1>2. QED
    BY <1>1 DEF MarkInv, YesterdayMarked, LoopDeletes, MarkBooked, LastFiveMinutes,
                MidnightWork, DeletionSteps, today, Date

LEMMA OnwardDeletion ==
    ASSUME StateInv, MarkInv, Deletion \/ HandleSetup
    PROVE  Onward
  <1>1. Steady
    BY SteadyDeletion
  <1> USE <1>1 DEF Onward, control, NoWork, MidnightWork, DeletionSteps, At,
                   MarkInv, LoopDeletes
  <1>2. CASE BackupOpen \/ BackupWrite
    BY <1>2 DEF BackupOpen, BackupWrite, StateInv, StateOK
  <1>3. CASE DeletePut \/ DeleteCommit
    BY <1>3 DEF DeletePut, DeleteCommit, CommitPut
  <1>4. CASE DeleteEnd \/ DeleteRAM
    BY <1>4 DEF DeleteEnd, DeleteRAM, StateInv, StateOK
  <1>5. CASE HandleSetup
    BY <1>5 DEF HandleSetup
  <1>6. QED
    BY <1>2, <1>3, <1>4, <1>5 DEF Deletion

LEMMA MarkSetup ==
    ASSUME BootsByDay, StateInv, TimeInv, MarkInv, Setup
    PROVE  MarkInv'
  <1> USE DEF MarkInv, YesterdayMarked, LoopDeletes, MarkBooked, LastFiveMinutes,
              MidnightWork, NoWork, DeletionSteps, control
  <1>1. CASE SetupNtp
    BY <1>1 DEF SetupNtp
  <1>2. CASE SetupEeprom
    <2>1. t.slot # LastSlot
      BY <1>2 DEF SetupEeprom, BootsByDay, TimeInv, MarkInTime, BootsInTime
    <2>2. QED
      BY <1>2, <2>1 DEF SetupEeprom
  <1>3. QED
    BY <1>1, <1>2 DEF Setup

LEMMA MarkTick == ASSUME Punctual, MarkInv, Tick PROVE MarkInv'
  BY PunctualTick
     DEF MarkInv, YesterdayMarked, LoopDeletes, MarkBooked, LastFiveMinutes,
         MidnightWork, DayBefore, NoWork, today, Date

LEMMA MarkNext ==
    ASSUME Punctual, BootsByDay, StateInv, TableInv, TimeInv, MarkInv, [Next]_vars
    PROVE  MarkInv'
  <1>1. CASE Setup
    BY <1>1, MarkSetup
  <1>2. CASE FiveMinuteWork
    BY <1>2, MarkPoll, MarkMark, OnwardWork, MarkOnward
  <1>3. CASE Deletion \/ HandleSetup
    BY <1>3, OnwardDeletion, MarkOnward
  <1>4. CASE Flash \/ interruptRoutineFalling \/ UNCHANGED vars
    <2>1. UNCHANGED <<environment, control, pc>>
      BY <1>4 DEF Flash, interruptRoutineFalling, vars
    <2>2. QED
      BY <2>1, MarkRest
  <1>5. CASE Tick
    BY <1>5, MarkTick
  <1>6. CASE MarkMissed
    BY <1>6 DEF MarkMissed, Punctual
  <1>7. CASE Restart \/ PowerLoss
    <2>1. pc' = "off" /\ caller' = "loop"
      BY <1>7 DEF Restart, PowerLoss, TurnOff, RamLost
    <2>2. QED
      BY <2>1 DEF MarkInv, YesterdayMarked, LoopDeletes, MarkBooked, LastFiveMinutes,
                  MidnightWork, NoWork, DeletionSteps
  <1>8. QED
    BY <1>1, <1>2, <1>3, <1>4, <1>5, <1>6, <1>7 DEF Next, Sketch

\* The five minutes that end at a mark are booked into the local day in which
\* they began (loop.ino:48, :77), also at midnight, at the end of a month and
\* around the changes of the clock, whatever restarts, crashes and pages come
\* between, as long as no mark is missed.
THEOREM BookedIntoTheirDay ==
    ASSUME Punctual, BootsByDay
    PROVE  Spec => []LastFiveMinutes
  <1>1. StateInv /\ TimeInv /\ [Next]_vars => TimeInv'
    BY TimeNext
  <1>2. StateInv /\ TableInv /\ TimeInv /\ MarkInv /\ [Next]_vars => MarkInv'
    BY MarkNext
  <1>3. MarkInv => LastFiveMinutes
    BY DEF MarkInv, MarkBooked
  <1>4. QED
    BY <1>1, <1>2, <1>3, StateInit, StateNext, TableInit, TableNext, TimeInit,
       MarkInit, PTL DEF Spec

-------------------------------------------------------------------------------
(* The day's curve.                                                        *)

Peak == /\ \A s \in Slots : fuenfMinutenZaehler[s] <= ausgabe.maximal
        /\ Overwritten \/ PeakInCurve

EmptyAt(slots) == \A s \in slots : fuenfMinutenZaehler[s] = 0

\* The slot of standard time at which a day of summer ends.
SummerMidnight == SlotsPerDay - HourMarks

\* The slots that the local day will write for the first time after mark m:
\* between local and standard midnight those of the hour's rest and of the
\* day, later those of the day's rest - but for its last hour, if it has
\* written them at its beginning or will belong to the next day.
ToCome(m) ==
    IF m \in Summer /\ m.slot >= SummerMidnight
      THEN {s \in Slots : s > m.slot \/ s <= SummerMidnight}
      ELSE {s \in Slots :
              /\ s > m.slot
              /\ \/ s <= SummerMidnight
                 \/ m \notin Summer /\ ~SetBack(Date(Local(m)))}

\* The mark that is worked on next finds its slot empty, or it is one that
\* overwrites the day's first hour.
NextMarkIsNew ==
    Local(clock).slot # 0 =>
        /\ EmptyAt(ToCome(clock))
        /\ \/ fuenfMinutenZaehler[clock.slot] = 0
           \/ SetBack(Date(Local(clock))) /\ Local(clock).slot > SummerMidnight

\* The curve is empty where it is written next.
CurveEnds ==
    IF pc \in {"off", "setup"} THEN EmptyAt(Slots) /\ ausgabe.maximal = 0
    ELSE IF due \/ pc \in {"book", "power"} THEN NextMarkIsNew
    ELSE ~MidnightWork => EmptyAt(IF t.slot = 0 THEN Slots ELSE ToCome(clock))

CurveInv == CurveEnds /\ (~MidnightWork => Peak)

\* The next day is another one.
LEMMA NextDayIsAnother ==
    ASSUME NEW m \in Moments
    PROVE  Date(NextDay(m)) # Date(m)
  <1>1. m.month \in Nat /\ m.month < MonthsPerYear /\ m.day \in Nat
    BY CalendarAssumption DEF Moments, Months, Days
  <1>2. (m.month + 1) % MonthsPerYear # m.month
    <2>1. CASE m.month + 1 < MonthsPerYear
      BY <1>1, <2>1, CalendarAssumption
    <2>2. CASE m.month + 1 = MonthsPerYear
      BY <1>1, <2>2, CalendarAssumption
    <2>3. QED
      BY <1>1, <2>1, <2>2, CalendarAssumption
  <1> DEFINE last == [m EXCEPT !.slot = LastSlot]
  <1>3. last.month = m.month /\ last.day = m.day /\ ~(last.slot < LastSlot)
    BY CalendarAssumption DEF Moments, LastSlot
  <1>4. CASE m.day + 1 < DaysIn[m.month]
    <2>1. NextDay(m).day = m.day + 1
      BY <1>3, <1>4 DEF NextDay, Successor
    <2>2. QED
      BY <1>1, <2>1 DEF Date
  <1>5. CASE ~(m.day + 1 < DaysIn[m.month])
    <2>1. NextDay(m).month = (m.month + 1) % MonthsPerYear
      BY <1>3, <1>5 DEF NextDay, Successor
    <2>2. QED
      BY <1>2, <2>1 DEF Date
  <1>6. QED
    BY <1>4, <1>5

\* The local day and slot, in summer and else.
LEMMA LocalCases ==
    ASSUME NEW m \in Moments
    PROVE  IF m \in Summer /\ m.slot >= SummerMidnight
             THEN /\ Local(m).slot = m.slot - SummerMidnight
                  /\ Date(Local(m)) # Date(m)
             ELSE /\ Date(Local(m)) = Date(m)
                  /\ m \notin Summer => Local(m) = m
  <1>1. m.slot \in Nat /\ SlotsPerDay \in Nat /\ HourMarks \in Nat
    BY CalendarAssumption DEF Moments, Slots
  <1>2. CASE m \in Summer /\ m.slot >= SummerMidnight
    <2>1. Local(m) = [NextDay(m) EXCEPT !.slot = m.slot + HourMarks - SlotsPerDay]
      BY <1>1, <1>2 DEF HourLater, Local, SummerMidnight
    <2>2. Local(m).slot = m.slot - SummerMidnight
      BY <1>1, <2>1, NextDayType DEF Moments, SummerMidnight
    <2>3. Date(Local(m)) = Date(NextDay(m))
      BY <2>1, NextDayType DEF Moments, Date
    <2>4. QED
      BY <1>2, <2>2, <2>3, NextDayIsAnother
  <1>3. CASE m \in Summer /\ ~(m.slot >= SummerMidnight)
    <2>1. Local(m) = [m EXCEPT !.slot = m.slot + HourMarks]
      BY <1>1, <1>3 DEF HourLater, Local, SummerMidnight
    <2>2. Date(Local(m)) = Date(m)
      BY <2>1 DEF Moments, Date
    <2>3. QED
      BY <1>3, <2>2
  <1>4. CASE m \notin Summer
    BY <1>4 DEF Local
  <1>5. QED
    BY <1>2, <1>3, <1>4

\* Within a local day every mark comes to a slot that is to come, unless it
\* overwrites the first hour, and takes it from those to come.
LEMMA SlotsToCome ==
    ASSUME NEW m \in Moments, Local(Successor(m)).slot # 0, Local(m).slot # 0
    PROVE  LET n == Successor(m)
           IN /\ ToCome(n) \subseteq ToCome(m)
              /\ \/ n.slot \in ToCome(m)
                 \/ SetBack(Date(Local(n))) /\ Local(n).slot > SummerMidnight
  <1> DEFINE n == Successor(m)
  <1>1. n \in Moments /\ Date(Local(n)) = Date(Local(m))
    BY SuccessorType, LocalDay
  <1>2. /\ m.slot \in Nat /\ m.slot <= LastSlot /\ n.slot \in Slots /\ n.slot \in Nat
        /\ LastSlot \in Nat /\ SummerMidnight \in Nat
        /\ SummerMidnight >= 1 /\ SummerMidnight <= LastSlot
        /\ \A s \in Slots : s \in Nat /\ s <= LastSlot
    BY <1>1, CalendarAssumption DEF Moments, Slots, LastSlot, SummerMidnight
  <1>3. m \in Summer /\ n \notin Summer => SetBack(Date(Local(n)))
    BY <1>1 DEF SetBack
  <1>4. CASE n.slot = 0
    <2>1. m.slot = LastSlot /\ Date(n) = Date(NextDay(m))
      <3>1. m.slot = LastSlot
        BY <1>4, SuccessorSlot
      <3>2. [m EXCEPT !.slot = LastSlot] = m
        BY <3>1 DEF Moments
      <3>3. QED
        BY <3>1, <3>2 DEF NextDay
    <2>2. n \in Summer
      BY <1>1, <1>4, LocalCases
    <2>3. Date(Local(n)) = Date(n)
      BY <1>1, <1>2, <1>4, LocalCases
    <2>4. m \in Summer
      BY <1>1, <2>1, <2>3, LocalCases, NextDayIsAnother
    <2>5. ToCome(m) = {s \in Slots : s <= SummerMidnight}
      BY <1>2, <2>1, <2>4 DEF ToCome
    <2>6. ToCome(n) \subseteq {s \in Slots : s <= SummerMidnight}
      BY <1>2, <1>4, <2>2 DEF ToCome
    <2>7. QED
      BY <1>2, <1>4, <2>5, <2>6
  <1>5. CASE n.slot # 0
    <2>1. n.slot = m.slot + 1 /\ Date(n) = Date(m)
      BY <1>5, SuccessorSlot
    <2>2. CASE m \in Summer /\ m.slot >= SummerMidnight
      <3>1. n \in Summer /\ n.slot >= SummerMidnight
        <4>1. Date(Local(n)) # Date(n)
          BY <1>1, <2>1, <2>2, LocalCases
        <4>2. QED
          BY <1>1, <4>1, LocalCases
      <3>2. /\ ToCome(m) = {s \in Slots : s > m.slot \/ s <= SummerMidnight}
            /\ ToCome(n) = {s \in Slots : s > n.slot \/ s <= SummerMidnight}
        BY <2>2, <3>1 DEF ToCome
      <3>3. QED
        BY <1>2, <2>1, <3>2
    <2>3. CASE ~(m \in Summer /\ m.slot >= SummerMidnight)
      <3>1. ~(n \in Summer /\ n.slot >= SummerMidnight)
        <4>1. Date(Local(n)) = Date(n)
          BY <1>1, <2>1, <2>3, LocalCases
        <4>2. QED
          BY <1>1, <4>1, LocalCases
      <3>2. \A s \in Slots : s \in ToCome(m) <=>
              /\ s > m.slot
              /\ s <= SummerMidnight \/ (m \notin Summer /\ ~SetBack(Date(Local(m))))
        BY <2>3 DEF ToCome
      <3>3. \A s \in ToCome(n) :
              /\ s \in Slots /\ s > n.slot
              /\ s <= SummerMidnight \/ (n \notin Summer /\ ~SetBack(Date(Local(n))))
        BY <3>1 DEF ToCome
      <3>4. n \notin Summer /\ ~SetBack(Date(Local(n)))
              => m \notin Summer /\ ~SetBack(Date(Local(m)))
        BY <1>1, <1>3
      <3>5. ToCome(n) \subseteq ToCome(m)
        BY <1>2, <2>1, <3>2, <3>3, <3>4
      <3>6. CASE n.slot <= SummerMidnight
        BY <1>2, <2>1, <3>2, <3>5, <3>6
      <3>7. CASE ~(n.slot <= SummerMidnight)
        <4>1. n \notin Summer /\ Local(n) = n
          BY <1>1, <1>2, <3>1, <3>7, LocalCases
        <4>2. CASE SetBack(Date(Local(n)))
          BY <1>2, <3>5, <3>7, <4>1, <4>2
        <4>3. CASE ~SetBack(Date(Local(n)))
          BY <1>2, <2>1, <3>2, <3>4, <3>5, <4>1, <4>3
        <4>4. QED
          BY <4>2, <4>3
      <3>8. QED
        BY <3>6, <3>7
    <2>4. QED
      BY <2>2, <2>3
  <1>6. QED
    BY <1>4, <1>5

\* Once the day's first hour is being overwritten it is until midnight.
LEMMA OverwrittenStays ==
    ASSUME NEW m \in Moments, Local(Successor(m)).slot # 0,
           SetBack(Date(Local(m))), Local(m).slot > SummerMidnight
    PROVE  /\ SetBack(Date(Local(Successor(m))))
           /\ Local(Successor(m)).slot > SummerMidnight
  <1>1. Date(Local(Successor(m))) = Date(Local(m))
    BY LocalDay
  <1>2. (m \in Summer) = (Successor(m) \in Summer)
    <2>1. ~(Local(m).slot <= SummerMidnight)
      <3>1. Local(m).slot \in Nat /\ SummerMidnight \in Nat
        BY LocalType, CalendarAssumption DEF Moments, Slots, SummerMidnight
      <3>2. QED
        BY <3>1
    <2>2. QED
      BY <2>1, SummerAssumption DEF SummerMidnight
  <1>3. Local(Successor(m)).slot = Local(m).slot + 1
    BY <1>2, LocalSuccessor, LocalType, SuccessorSlot
  <1>4. Local(m).slot \in Nat /\ SummerMidnight \in Nat
    BY LocalType, CalendarAssumption DEF Moments, Slots, SummerMidnight
  <1>5. QED
    BY <1>1, <1>3, <1>4

LEMMA CurveInit == Init => CurveInv
  BY DEF Init, CurveInv, CurveEnds, EmptyAt, Peak, PeakInCurve, MidnightWork, NoYield,
         Slots

\* Steps that leave the curve and the maximum alone.
CurveSteady ==
    /\ Steady
    /\ UNCHANGED fuenfMinutenZaehler
    /\ ausgabe'.maximal = ausgabe.maximal
    /\ MidnightWork => MidnightWork'
    /\ pc' \in {"book", "power"} <=> pc \in {"book", "power"}

LEMMA CurveSteadyInv == ASSUME CurveInv, CurveSteady PROVE CurveInv'
  <1>1. Peak => Peak'
    BY DEF CurveSteady, Steady, Peak, PeakInCurve, Overwritten, today
  <1>2. \A slots : EmptyAt(slots) => EmptyAt(slots)'
    BY DEF CurveSteady, EmptyAt
  <1>3. NextMarkIsNew => NextMarkIsNew'
    BY DEF CurveSteady, Steady, NextMarkIsNew, EmptyAt, environment
  <1>4. EmptyAt(IF t.slot = 0 THEN Slots ELSE ToCome(clock))
          => EmptyAt(IF t.slot = 0 THEN Slots ELSE ToCome(clock))'
    BY DEF CurveSteady, Steady, EmptyAt, environment
  <1>5. CurveEnds'
    BY <1>3, <1>4 DEF CurveInv, CurveEnds, CurveSteady, Steady, environment
  <1>6. QED
    BY <1>1, <1>5 DEF CurveInv, CurveSteady

LEMMA CurveBook == ASSUME StateInv, YieldsOK, Book PROVE CurveSteady
  <1>1. Steady
    BY SteadyWork DEF FiveMinuteWork, Poll, Book, At
  <1>2. ausgabe'.maximal = ausgabe.maximal
    <2>1. CASE ImpulseProKwh > 0
      <3>1. PICK wh :
              ausgabe' = [ausgabe EXCEPT !.tag = @ + wh, !.monat = @ + wh,
                                         !.jahr = @ + wh, !.zaehler = @ + wh]
        BY <2>1 DEF Book
      <3>2. QED
        BY <3>1 DEF YieldsOK
    <2>2. CASE ~(ImpulseProKwh > 0)
      BY <2>2 DEF Book
    <2>3. QED
      BY <2>1, <2>2
  <1>3. QED
    BY <1>1, <1>2 DEF Book, At, CurveSteady, MidnightWork, control

LEMMA CurveWork ==
    ASSUME StateInv, YieldsOK, FiveMinuteWork, ~Poll, ~Power, ~NewDay
    PROVE  CurveSteady
  <1>1. Steady
    BY SteadyWork
  <1> USE <1>1 DEF CurveSteady, control, MidnightWork, At, display
  <1>2. CASE Book
    BY <1>2, CurveBook
  <1>3. CASE Reset
    BY <1>3 DEF Reset
  <1>4. CASE PutToday \/ CommitToday
    BY <1>4 DEF PutToday, CommitToday, PutEeprom, CommitPut, AfterBooking
  <1>5. CASE PutYesterday \/ CommitYesterday
    BY <1>5 DEF PutYesterday, CommitYesterday, PutEeprom, CommitPut
  <1>6. CASE Mark
    BY <1>6 DEF Mark
  <1>7. CASE NewYear
    BY <1>7 DEF NewYear, YieldsOK
  <1>8. QED
    BY <1>2, <1>3, <1>4, <1>5, <1>6, <1>7 DEF FiveMinuteWork

LEMMA CurveDeletion ==
    ASSUME StateInv, YieldsOK, Deletion \/ HandleSetup
    PROVE  CurveSteady
  <1>1. Steady /\ pc \notin {"book", "power"} /\ pc' \notin {"book", "power"}
    BY SteadyDeletion
  <1> USE <1>1 DEF CurveSteady, MidnightWork, At, display, DeletionSteps
  <1>2. CASE BackupOpen \/ BackupWrite
    BY <1>2 DEF BackupOpen, BackupWrite
  <1>3. CASE DeletePut \/ DeleteCommit \/ DeleteEnd
    BY <1>3 DEF DeletePut, DeleteCommit, CommitPut, DeleteEnd
  <1>4. CASE DeleteRAM
    BY <1>4 DEF DeleteRAM, YieldsOK
  <1>5. CASE HandleSetup
    BY <1>5 DEF HandleSetup
  <1>6. QED
    BY <1>2, <1>3, <1>4, <1>5 DEF Deletion

\* The slot of the mark gets the count; the maximum follows it.
LEMMA CurvePower ==
    ASSUME StateInv, YieldsOK, TimeInv, CurveInv, Power
    PROVE  CurveInv'
  <1>1. /\ pc = "power" /\ pc' = "reset" /\ ~due
        /\ UNCHANGED <<clock, due, t>>
        /\ clock.slot \in Slots /\ counter \in Nat
        /\ fuenfMinutenZaehler \in [Slots -> Nat]
        /\ fuenfMinutenZaehler' = [fuenfMinutenZaehler EXCEPT ![clock.slot] = counter]
    BY DEF Power, At, environment, control, StateInv, StateOK, Moments, TimeInv,
           MarkInTime, NoWork, DeletionSteps
  <1>2. /\ ausgabe.maximal \in Nat
        /\ ausgabe'.maximal = IF counter > ausgabe.maximal THEN counter
                                                           ELSE ausgabe.maximal
    BY DEF YieldsOK, Power
  <1>3. CASE t.slot = 0
    BY <1>1, <1>3 DEF CurveInv, CurveEnds, MidnightWork
  <1>4. CASE t.slot # 0
    <2>1. Peak /\ NextMarkIsNew
      BY <1>1, <1>4 DEF CurveInv, CurveEnds, MidnightWork
    <2>2. t = Local(clock)
      BY <1>1 DEF TimeInv, MarkInTime
    <2>3. EmptyAt(ToCome(clock)) /\ (fuenfMinutenZaehler[clock.slot] = 0 \/ Overwritten)
      BY <1>4, <2>1, <2>2 DEF NextMarkIsNew, Overwritten, SummerMidnight, today
    <2>4. Overwritten => Overwritten'
      BY <1>1 DEF Overwritten, today
    <2>5. Peak'
      <3>1. \A s \in Slots : fuenfMinutenZaehler'[s] <= ausgabe'.maximal
        BY <1>1, <1>2, <2>1 DEF Peak
      <3>2. CASE Overwritten
        BY <2>4, <3>1, <3>2 DEF Peak
      <3>3. CASE counter > ausgabe.maximal
        <4>1. fuenfMinutenZaehler'[clock.slot] = ausgabe'.maximal
          BY <1>1, <1>2, <3>3
        <4>2. QED
          BY <1>1, <3>1, <4>1 DEF Peak, PeakInCurve
      <3>4. CASE ~Overwritten /\ ~(counter > ausgabe.maximal)
        <4>1. ausgabe'.maximal = ausgabe.maximal
          BY <1>2, <3>4
        <4>2. CASE ausgabe.maximal > 0
          <5>1. PICK s \in Slots : fuenfMinutenZaehler[s] = ausgabe.maximal
            BY <2>1, <3>4, <4>2 DEF Peak, PeakInCurve
          <5>2. s # clock.slot
            BY <1>2, <2>3, <3>4, <4>2, <5>1
          <5>3. fuenfMinutenZaehler'[s] = ausgabe'.maximal
            BY <1>1, <4>1, <5>1, <5>2
          <5>4. QED
            BY <3>1, <5>3 DEF Peak, PeakInCurve
        <4>3. CASE ~(ausgabe.maximal > 0)
          BY <3>1, <4>1, <4>3 DEF Peak, PeakInCurve
        <4>4. QED
          BY <4>2, <4>3
      <3>5. QED
        BY <3>2, <3>3, <3>4
    <2>6. EmptyAt(ToCome(clock))'
      <3>1. clock \in Moments /\ clock.slot \in Nat /\ SummerMidnight \in Nat
        BY <1>1, CalendarAssumption DEF StateInv, StateOK, Slots, SummerMidnight
      <3>2. clock \in Summer /\ clock.slot >= SummerMidnight
              => clock.slot > SummerMidnight
        BY <1>4, <2>2, <3>1, LocalCases
      <3>3. clock.slot \notin ToCome(clock)
        BY <3>1, <3>2 DEF ToCome
      <3>4. ToCome(clock)' = ToCome(clock) /\ ToCome(clock) \subseteq Slots
        BY <1>1 DEF ToCome
      <3>5. QED
        BY <1>1, <2>3, <3>3, <3>4 DEF EmptyAt
    <2>7. CurveEnds'
      BY <1>1, <1>4, <2>6 DEF CurveEnds, EmptyAt
    <2>8. QED
      BY <2>5, <2>7 DEF CurveInv
  <1>5. QED
    BY <1>3, <1>4

LEMMA CurveTick ==
    ASSUME Punctual, StateInv, TimeInv, CurveInv, Tick
    PROVE  CurveInv'
  <1>1. UNCHANGED display
    BY DEF Tick
  <1>2. /\ t = Local(clock) /\ clock \in Moments
    BY PunctualTick DEF TimeInv, MarkInTime, StateInv, StateOK
  <1>3. Peak /\ EmptyAt(IF t.slot = 0 THEN Slots ELSE ToCome(clock))
    BY PunctualTick DEF CurveInv, CurveEnds
  <1>4. Peak'
    BY <1>1, <1>3, PunctualTick DEF Peak, PeakInCurve, Overwritten, today, display
  <1>5. ASSUME Local(clock').slot # 0
        PROVE  /\ EmptyAt(ToCome(clock'))
               /\ \/ fuenfMinutenZaehler[clock'.slot] = 0
                  \/ /\ SetBack(Date(Local(clock')))
                     /\ Local(clock').slot > SummerMidnight
    <2>1. clock' = Successor(clock) /\ clock' \in Moments
      BY <1>2, PunctualTick, SuccessorType
    <2>2. ToCome(clock') \subseteq Slots /\ clock'.slot \in Slots
      BY <2>1 DEF ToCome, Moments
    <2>3. CASE t.slot = 0
      BY <1>3, <2>2, <2>3 DEF EmptyAt
    <2>4. CASE t.slot # 0
      <3>1. EmptyAt(ToCome(clock))
        BY <1>3, <2>4
      <3>2. /\ ToCome(clock') \subseteq ToCome(clock)
            /\ \/ clock'.slot \in ToCome(clock)
               \/ /\ SetBack(Date(Local(clock')))
                  /\ Local(clock').slot > SummerMidnight
        BY <1>2, <1>5, <2>1, <2>4, SlotsToCome
      <3>3. QED
        BY <3>1, <3>2 DEF EmptyAt
    <2>5. QED
      BY <2>3, <2>4
  <1>6. NextMarkIsNew'
    <2>1. UNCHANGED fuenfMinutenZaehler
      BY <1>1 DEF display
    <2>2. EmptyAt(ToCome(clock')) => EmptyAt(ToCome(clock))'
      BY <2>1 DEF EmptyAt, ToCome
    <2>3. QED
      BY <1>5, <2>1, <2>2 DEF NextMarkIsNew
  <1>7. CurveEnds'
    BY <1>6, PunctualTick DEF CurveEnds
  <1>8. QED
    BY <1>4, <1>7 DEF CurveInv

\* The mark that Poll sees is of the same day, overwritten as before, or it
\* is midnight.
LEMMA CurvePoll ==
    ASSUME StateInv, TimeInv, CurveInv, Poll
    PROVE  CurveInv'
  <1>1. PICK before \in Moments : Successor(before) = clock /\ t = Local(before)
    BY DEF Poll, At, TimeInv, MarkInTime, MarkBefore
  <1>2. /\ pc = "idle" /\ due /\ pc' = "book" /\ t' = Local(clock)
        /\ UNCHANGED <<clock, fuenfMinutenZaehler, ausgabe>>
    BY DEF Poll, At, display
  <1>3. Peak /\ NextMarkIsNew
    BY <1>2 DEF CurveInv, CurveEnds, MidnightWork
  <1>4. CurveEnds'
    BY <1>2, <1>3 DEF CurveEnds, NextMarkIsNew, EmptyAt
  <1>5. ASSUME ~MidnightWork'
        PROVE  Peak'
    <2>1. Local(Successor(before)).slot # 0
      BY <1>1, <1>2, <1>5 DEF MidnightWork
    <2>2. Overwritten => Overwritten'
      <3>1. Overwritten => SetBack(Date(Local(before)))
                           /\ Local(before).slot > SummerMidnight
        BY <1>1 DEF Overwritten, today, SummerMidnight
      <3>2. SetBack(Date(Local(clock))) /\ Local(clock).slot > SummerMidnight
              => Overwritten'
        BY <1>2 DEF Overwritten, today, SummerMidnight
      <3>3. QED
        BY <1>1, <2>1, <3>1, <3>2, OverwrittenStays
    <2>3. QED
      BY <1>2, <1>3, <2>2 DEF Peak, PeakInCurve
  <1>6. QED
    BY <1>4, <1>5 DEF CurveInv

LEMMA CurveNext ==
    ASSUME Punctual, StateInv, YieldsOK, TimeInv, CurveInv, [Next]_vars
    PROVE  CurveInv'
  <1>1. CASE Setup
    <2>1. /\ pc \in {"off", "setup"} /\ pc' \in {"setup", "idle"} /\ ~due
          /\ UNCHANGED <<fuenfMinutenZaehler, clock, due>>
          /\ EmptyAt(Slots) /\ ausgabe.maximal = 0
      BY <1>1 DEF Setup, SetupNtp, SetupEeprom, CurveInv, CurveEnds, environment,
                  display, TimeInv, BootsInTime
    <2>2. ausgabe'.maximal = 0
      BY <1>1, <2>1 DEF Setup, SetupNtp, SetupEeprom, NoYield, display
    <2>3. EmptyAt(Slots)' /\ ToCome(clock)' \subseteq Slots
      BY <2>1 DEF EmptyAt, ToCome
    <2>4. Peak'
      BY <2>2, <2>3 DEF EmptyAt, Peak, PeakInCurve
    <2>5. CurveEnds'
      BY <2>1, <2>2, <2>3 DEF CurveEnds, EmptyAt
    <2>6. QED
      BY <2>4, <2>5 DEF CurveInv
  <1>2. CASE Poll
    BY <1>2, CurvePoll
  <1>3. CASE Power
    BY <1>3, CurvePower
  <1>4. CASE NewDay
    <2>1. /\ fuenfMinutenZaehler' = [s \in Slots |-> 0]
          /\ pc' \in {"idle", "backup"} /\ pc = "newDay"
          /\ UNCHANGED due /\ ~due
      BY <1>4 DEF NewDay, AfterNewDay, At, environment, TimeInv, MarkInTime, NoWork,
                  DeletionSteps
    <2>2. ausgabe'.maximal = 0
      BY <1>4 DEF NewDay, NewDayYields, YieldsOK
    <2>3. EmptyAt(Slots)' /\ ToCome(clock)' \subseteq Slots
      BY <2>1 DEF EmptyAt, ToCome
    <2>4. Peak'
      BY <2>2, <2>3 DEF EmptyAt, Peak, PeakInCurve
    <2>5. CurveEnds'
      BY <2>1, <2>2, <2>3 DEF CurveEnds, EmptyAt
    <2>6. QED
      BY <2>4, <2>5 DEF CurveInv
  <1>5. CASE FiveMinuteWork /\ ~Poll /\ ~Power /\ ~NewDay
    BY <1>5, CurveWork, CurveSteadyInv
  <1>6. CASE Deletion \/ HandleSetup
    BY <1>6, CurveDeletion, CurveSteadyInv
  <1>7. CASE Flash \/ interruptRoutineFalling \/ UNCHANGED vars
    <2>1. UNCHANGED <<clock, due, t, pc, fuenfMinutenZaehler, ausgabe>>
      BY <1>7 DEF Flash, interruptRoutineFalling, vars, environment, control, display
    <2>2. Peak => Peak'
      BY <2>1 DEF Peak, PeakInCurve, Overwritten, today
    <2>3. CurveEnds'
      BY <2>1 DEF CurveInv, CurveEnds, NextMarkIsNew, EmptyAt, MidnightWork
    <2>4. QED
      BY <2>1, <2>2, <2>3 DEF CurveInv, MidnightWork
  <1>8. CASE Tick
    BY <1>8, CurveTick
  <1>9. CASE MarkMissed
    BY <1>9 DEF MarkMissed, Punctual
  <1>10. CASE Restart \/ PowerLoss
    <2>1. /\ pc' = "off" /\ ausgabe'.maximal = 0
          /\ \A s \in Slots : fuenfMinutenZaehler'[s] = 0
      BY <1>10 DEF Restart, PowerLoss, TurnOff, RamLost, NoYield
    <2>2. QED
      BY <2>1 DEF CurveInv, CurveEnds, EmptyAt, Peak, PeakInCurve
  <1>11. QED
    BY <1>1, <1>2, <1>3, <1>4, <1>5, <1>6, <1>7, <1>8, <1>9, <1>10
       DEF Next, Sketch

\* The displayed maximum is the highest value of the day's curve
\* (functions.ino:31-41), although the curve is written by standard time and
\* the day ends by local time, as long as no mark is missed and but for the
\* day's last hour where the clock was set back: then the slots of its first
\* hour are written again, and all that is left is that no value exceeds it.
THEOREM MaximumIsOfTheCurve ==
    ASSUME Punctual
    PROVE  Spec => []PeakOfCurve
  <1>1. StateInv /\ TimeInv /\ [Next]_vars => TimeInv'
    BY TimeNext
  <1>2. StateInv /\ YieldsOK /\ TimeInv /\ CurveInv /\ [Next]_vars => CurveInv'
    BY CurveNext
  <1>3. CurveInv => PeakOfCurve
    BY DEF CurveInv, Peak, PeakOfCurve, MidnightWork
  <1>4. QED
    BY <1>1, <1>2, <1>3, StateInit, StateNext, YieldsInit, YieldsNext, TimeInit,
       CurveInit, PTL DEF Spec

-------------------------------------------------------------------------------
(* The whole table, without crashes and missed marks.                      *)

\* What may happen besides pulses and time.
Undisturbed == Events \subseteq {"restart", "web"}

\* The EEPROM was cleared when the logger was installed.
Cleared == Images \subseteq {NoTable}

\* The cells that are to be written after moment m.
Ahead(m) == {c \in Cells : \/ c[1] > m.month
                           \/ c[1] = m.month /\ c[2] > m.day
                           \/ c = Date(m) /\ m.slot = 0}

NewYearsDay(m) == m.month = 0 /\ m.day = 0

LEMMA MomentType ==
    ASSUME NEW m \in Moments
    PROVE  /\ m.month \in Nat /\ m.month < MonthsPerYear
           /\ m.day \in Nat /\ m.slot \in Nat
  BY CalendarAssumption DEF Moments, Months, Days, Slots

LEMMA CellType ==
    ASSUME NEW c \in Cells
    PROVE  /\ c = <<c[1], c[2]>> /\ c[1] \in Nat /\ c[2] \in Nat
           /\ c[1] < MonthsPerYear
  BY CalendarAssumption DEF Cells, Months, Days

\* The months count up, but for the turn of the year.
LEMMA NextMonth ==
    ASSUME NEW k \in Nat, k < MonthsPerYear, (k + 1) % MonthsPerYear # 0
    PROVE  (k + 1) % MonthsPerYear = k + 1
  <1>1. k + 1 # MonthsPerYear
    BY CalendarAssumption
  <1>2. k + 1 < MonthsPerYear
    BY <1>1, CalendarAssumption
  <1>3. QED
    BY <1>2, CalendarAssumption

\* Time does not bring cells back, unless the year begins anew.
LEMMA AheadLater ==
    ASSUME NEW m \in Moments, NEW n \in Moments,
           \/ n.slot # 0 /\ Date(n) = Date(m)
           \/ n.slot = 0 /\ n = Successor(m) /\ ~NewYearsDay(n)
    PROVE  Ahead(n) \subseteq Ahead(m)
  <1> SUFFICES ASSUME NEW c \in Ahead(n) PROVE c \in Ahead(m)
    OBVIOUS
  <1>1. c \in Cells /\ \/ c[1] > n.month
                       \/ c[1] = n.month /\ c[2] > n.day
                       \/ c = Date(n) /\ n.slot = 0
    BY DEF Ahead
  <1>2. CASE n.slot # 0 /\ Date(n) = Date(m)
    BY <1>1, <1>2 DEF Ahead, Date
  <1>3. CASE n.slot = 0 /\ n = Successor(m) /\ ~NewYearsDay(n)
    <2>1. IF n.day > 0 THEN Date(m) = <<n.month, n.day - 1>>
                       ELSE n.month = (m.month + 1) % MonthsPerYear
      BY <1>3, SuccessorSlot
    <2>2. CASE n.day > 0
      <3>1. m.month = n.month /\ m.day = n.day - 1
        BY <2>1, <2>2 DEF Date
      <3>2. QED
        BY <1>1, <2>2, <3>1, MomentType, CellType DEF Ahead, Date
    <2>3. CASE ~(n.day > 0)
      <3>1. n.month # 0 /\ n.day = 0
        BY <1>3, <2>3, MomentType DEF NewYearsDay
      <3>2. n.month = (m.month + 1) % MonthsPerYear
        BY <2>1, <2>3
      <3>3. n.month = m.month + 1
        BY <3>1, <3>2, MomentType, NextMonth
      <3>4. c[1] >= n.month
        BY <1>1, CellType, MomentType DEF Date
      <3>5. QED
        BY <1>1, <3>3, <3>4, CellType, MomentType DEF Ahead
    <2>4. QED
      BY <2>2, <2>3
  <1>4. QED
    BY <1>2, <1>3

\* Yesterday is over.
LEMMA YesterdayIsOver ==
    ASSUME StateInv, NEW c \in Cells, DayBefore(c), ~NewYearsDay(t)
    PROVE  c \notin Ahead(t) /\ c # today /\ (t.day > 0 => c[1] = t.month)
  <1>1. t \in Moments
    BY DEF StateInv, StateOK
  <1>2. CASE t.day > 0
    BY <1>1, <1>2, MomentType DEF DayBefore, Ahead, today, Date
  <1>3. CASE ~(t.day > 0)
    <2>1. t.day = 0 /\ t.month # 0
      BY <1>1, <1>3, MomentType DEF NewYearsDay
    <2>2. t.month = (c[1] + 1) % MonthsPerYear
      BY <1>3 DEF DayBefore
    <2>3. t.month = c[1] + 1
      BY <2>1, <2>2, CellType, NextMonth
    <2>4. QED
      BY <1>1, <1>3, <2>3, CellType, MomentType DEF Ahead, today, Date
  <1>4. QED
    BY <1>2, <1>3

\* The month that has just begun is all ahead.
LEMMA MonthIsAhead ==
    ASSUME NEW m \in Moments, m.day = 0, m.slot = 0, NEW c \in Cells, c[1] = m.month
    PROVE  c \in Ahead(m)
  BY CellType DEF Ahead, Date

\* What Poll finds: the next mark of the day, or the first one of the next.
LEMMA PollMoves ==
    ASSUME StateInv, TimeInv, Poll
    PROVE  /\ t' \in Moments
           /\ \/ t'.slot # 0 /\ Date(t') = Date(t)
              \/ t'.slot = 0 /\ t' = Successor(t)
           /\ pc = "idle" /\ pc' = "book"
  <1>1. PICK before \in Moments : Successor(before) = clock /\ t = Local(before)
    BY DEF Poll, At, TimeInv, MarkInTime, MarkBefore
  <1>2. t' = Local(clock) /\ t' \in Moments /\ pc = "idle" /\ pc' = "book"
    BY LocalType DEF Poll, At, StateInv, StateOK
  <1>3. QED
    BY <1>1, <1>2, LocalMidnight, LocalDay

\* loop() works on January nights on a table it is about to delete.
JanuaryWork == caller = "loop" /\ pc \in {"backup", "backupWrite", "delete"}

\* The inductive form of TableStored: the buffer is the table, but for the
\* cell that is booked and not saved yet, and until a deletion has cleared it.
Mirror ==
    EEPROM!Open /\ ~Deleting /\ ~JanuaryWork =>
        \A c \in Cells : tagesCounter[c] = data[c] \/ (c = ziel /\ BookingUnsaved)

\* Last year's cells are still there while the first night of the year is
\* worked on.
YearTurns == NewYearsDay(t) /\ (MidnightWork \/ JanuaryWork)

EmptyAhead(table, m) == \A c \in Ahead(m) : table[c] = 0

\* The EEPROM holds nothing for the days to come, so that a month that begins
\* has nothing to clear there; once it is closed it is empty altogether.
Future ==
    /\ pc \in {"off", "setup"} => EmptyAhead(flash, Local(clock))
    /\ EEPROM!Open /\ ~YearTurns => EmptyAhead(data, t)
    /\ EEPROM!Open /\ Deleting => data = NoTable
    /\ ~EEPROM!Open /\ pc \notin {"off", "setup"} => flash = NoTable

\* What loop() and the EEPROM do by the clock.
Context == StateInv /\ TableInv /\ TimeInv /\ MarkInv /\ DeletionInv

LEMMA MirrorInit == Init => Mirror
  BY DEF Init, Mirror, EEPROM!EepromInit, EEPROM!Open

\* Steps that leave the table and the buffer alone.
LEMMA MirrorRest ==
    ASSUME Mirror, UNCHANGED <<tagesCounter, data, ziel>>,
           Deleting \/ JanuaryWork => Deleting' \/ JanuaryWork' \/ ~EEPROM!Open,
           BookingUnsaved => BookingUnsaved'
    PROVE  Mirror'
  BY DEF Mirror, EEPROM!Open

LEMMA MirrorPut ==
    ASSUME StateInv, TableInv, Mirror, PutToday \/ PutYesterday
    PROVE  Mirror'
  <1> DEFINE cell == IF pc = "putToday" THEN today ELSE yesterday
  <1>1. today \in Cells /\ yesterday \in Cells
    BY DateType DEF StateInv, StateOK, today
  <1>2. \/ pc = "putToday" /\ PutEeprom(today, "commitToday", AfterBooking)
        \/ pc = "putYesterday" /\ PutEeprom(yesterday, "commitYesterday", "newDay")
    BY DEF PutToday, PutYesterday, At
  <1>3. UNCHANGED <<tagesCounter, ziel, yesterday, t, caller>>
    BY <1>2 DEF PutEeprom, control
  <1>4. \/ pc = "putToday" /\ pc' \in {"commitToday", AfterBooking}
        \/ pc = "putYesterday" /\ pc' \in {"commitYesterday", "newDay"}
    BY <1>2 DEF PutEeprom
  <1>5. CASE ~EEPROM!Open
    <2>1. ~EEPROM!Open'
      BY <1>2, <1>5 DEF PutEeprom, EEPROM!Put, EEPROM!Open, eeprom
    <2>2. QED
      BY <2>1 DEF Mirror
  <1>6. CASE EEPROM!Open
    <2>1. /\ data'[cell] = tagesCounter[cell]
          /\ \A c \in Cells : c # cell => data'[c] = data[c]
      BY <1>1, <1>2, <1>6, PutSaves
    <2>2. ASSUME NEW c \in Cells, c # cell
          PROVE  tagesCounter'[c] = data'[c] \/ (c = ziel' /\ BookingUnsaved')
      <3>1. tagesCounter[c] = data[c] \/ (c = ziel /\ BookingUnsaved)
        BY <1>4, <1>6 DEF Mirror, Deleting, JanuaryWork
      <3>2. c = ziel /\ BookingUnsaved => pc = "putToday" /\ t.slot = 0
        BY <1>4, <2>2 DEF TableInv, ZielIsSaved
      <3>3. pc = "putToday" /\ t.slot = 0 => BookingUnsaved'
        BY <1>3, <1>4 DEF BookingUnsaved, AfterBooking
      <3>4. QED
        BY <1>3, <2>1, <2>2, <3>1, <3>2, <3>3
    <2>3. QED
      BY <1>3, <2>1, <2>2 DEF Mirror
  <1>7. QED
    BY <1>5, <1>6

\* A month that begins is cleared in RAM; the EEPROM has nothing to clear.
LEMMA MirrorNewDay ==
    ASSUME Context, Mirror, Future, NewDay
    PROVE  Mirror'
  <1>1. /\ pc = "newDay" /\ UNCHANGED <<data, t, ziel>> /\ caller' = "loop"
        /\ pc' = IF t.month = 0 THEN "backup" ELSE "idle"
        /\ t.slot = 0 /\ t \in Moments
    BY DEF NewDay, AfterNewDay, At, eeprom, Context, TableInv, ZielIsSaved, StateInv,
           StateOK
  <1>2. CASE t.month = 0
    BY <1>1, <1>2 DEF Mirror, JanuaryWork
  <1>3. CASE t.month # 0
    <2>1. SUFFICES ASSUME EEPROM!Open, NEW c \in Cells
                   PROVE  tagesCounter'[c] = data[c]
      BY <1>1 DEF Mirror, EEPROM!Open
    <2>2. tagesCounter[c] = data[c]
      BY <1>1, <2>1 DEF Mirror, BookingUnsaved, Deleting, JanuaryWork
    <2>3. CASE t.day = 0 /\ c[1] = t.month
      <3>1. tagesCounter'[c] = 0
        BY <2>3 DEF NewDay
      <3>2. data[c] = 0
        BY <1>1, <1>3, <2>1, <2>3, MonthIsAhead
           DEF Future, YearTurns, NewYearsDay, EmptyAhead
      <3>3. QED
        BY <3>1, <3>2
    <2>4. CASE ~(t.day = 0 /\ c[1] = t.month)
      BY <2>2, <2>4 DEF NewDay
    <2>5. QED
      BY <2>3, <2>4
  <1>4. QED
    BY <1>2, <1>3

LEMMA MirrorWork ==
    ASSUME Context, Mirror, Future, FiveMinuteWork
    PROVE  Mirror'
  <1> USE DEF At, eeprom, control, BookingUnsaved, Deleting, JanuaryWork
  <1>1. CASE Poll
    BY <1>1 DEF Poll, Mirror, EEPROM!Open
  <1>2. CASE Book
    <2>1. \A c \in Cells : c # ziel => tagesCounter'[c] = tagesCounter[c]
      BY <1>2 DEF Book, Context, StateInv, StateOK
    <2>2. QED
      BY <1>2, <2>1 DEF Book, Mirror, EEPROM!Open
  <1>3. CASE Power \/ Reset
    BY <1>3, MirrorRest DEF Power, Reset
  <1>4. CASE PutToday \/ PutYesterday
    BY <1>4, MirrorPut DEF Context
  <1>5. CASE CommitToday
    BY <1>5, MirrorRest DEF CommitToday, CommitPut, AfterBooking, EEPROM!Commit
  <1>6. CASE CommitYesterday
    BY <1>6, MirrorRest DEF CommitYesterday, CommitPut, EEPROM!Commit
  <1>7. CASE Mark
    BY <1>7, MirrorRest DEF Mark
  <1>8. CASE NewDay
    BY <1>8, MirrorNewDay
  <1>9. CASE NewYear
    <2>1. ~EEPROM!Open
      BY <1>9 DEF NewYear, Context, TableInv, ClosedPhases
    <2>2. QED
      BY <1>9, <2>1, MirrorRest DEF NewYear
  <1>10. QED
    BY <1>1, <1>2, <1>3, <1>4, <1>5, <1>6, <1>7, <1>8, <1>9 DEF FiveMinuteWork

LEMMA MirrorDeletion ==
    ASSUME Context, Mirror, Deletion
    PROVE  Mirror'
  <1> USE DEF At, eeprom, control, BookingUnsaved, Deleting, JanuaryWork
  <1>1. CASE BackupOpen \/ BackupWrite
    BY <1>1, MirrorRest DEF BackupOpen, BackupWrite
  <1>2. CASE DeletePut
    BY <1>2 DEF DeletePut, Mirror
  <1>3. CASE DeleteCommit \/ DeleteEnd
    BY <1>3 DEF DeleteCommit, CommitPut, DeleteEnd, Mirror
  <1>4. CASE DeleteRAM
    <2>1. ~EEPROM!Open'
      BY <1>4 DEF DeleteRAM, Context, TableInv, ClosedPhases, EEPROM!Open
    <2>2. QED
      BY <2>1 DEF Mirror
  <1>5. QED
    BY <1>1, <1>2, <1>3, <1>4 DEF Deletion

LEMMA MirrorNext ==
    ASSUME Context, Mirror, Future, [Next]_vars
    PROVE  Mirror'
  <1> USE DEF At, eeprom, control, BookingUnsaved, Deleting, JanuaryWork
  <1>1. CASE SetupNtp
    <2>1. ~EEPROM!Open'
      BY <1>1 DEF SetupNtp, Context, TableInv, ClosedPhases, EEPROM!Open
    <2>2. QED
      BY <2>1 DEF Mirror
  <1>2. CASE SetupEeprom
    BY <1>2 DEF SetupEeprom, EEPROM!Begin, Mirror
  <1>3. CASE FiveMinuteWork
    BY <1>3, MirrorWork
  <1>4. CASE Deletion
    BY <1>4, MirrorDeletion
  <1>5. CASE Flash
    <2>1. data' \in {data, NoBuffer} /\ UNCHANGED <<tagesCounter, ziel, pc, caller, t>>
      BY <1>5 DEF Flash, EEPROM!EepromStep, EEPROM!CommitReturnsAtOnce,
                  EEPROM!Erase, EEPROM!EraseFails, EEPROM!Program,
                  EEPROM!ProgramFails, EEPROM!Return
    <2>2. QED
      BY <2>1 DEF Mirror, EEPROM!Open
  <1>6. CASE HandleSetup
    BY <1>6, MirrorRest DEF HandleSetup
  <1>7. CASE interruptRoutineFalling \/ Tick \/ MarkMissed \/ UNCHANGED vars
    <2>1. UNCHANGED <<tagesCounter, data, ziel, pc, caller, t>>
      BY <1>7 DEF interruptRoutineFalling, Tick, MarkMissed, vars
    <2>2. QED
      BY <2>1, MirrorRest
  <1>8. CASE Restart \/ PowerLoss
    BY <1>8 DEF Restart, PowerLoss, TurnOff, EEPROM!PowerOff, Mirror, EEPROM!Open
  <1>9. QED
    BY <1>1, <1>2, <1>3, <1>4, <1>5, <1>6, <1>7, <1>8 DEF Next, Sketch, Setup

LEMMA FutureInit == ASSUME Cleared, Init PROVE Future
  <1>1. flash = NoTable /\ pc = "off" /\ ~EEPROM!Open
    BY DEF Init, Cleared, EEPROM!EepromInit, EEPROM!Open
  <1>2. QED
    BY <1>1 DEF Future, EmptyAhead, Ahead, NoTable

\* Steps that leave the EEPROM and the day alone.
LEMMA FutureRest ==
    ASSUME Future, UNCHANGED <<flash, data, t>>,
           pc \notin {"off", "setup"}, pc' \notin {"off", "setup"},
           Deleting' => Deleting \/ ~EEPROM!Open,
           YearTurns => YearTurns' \/ ~EEPROM!Open
    PROVE  Future'
  BY DEF Future, EmptyAhead, EEPROM!Open

\* putEeprom() saves no cell of the days to come, but for last year's.
LEMMA FuturePut ==
    ASSUME Context, Mirror, Future, PutToday \/ PutYesterday
    PROVE  Future'
  <1> DEFINE cell == IF pc = "putToday" THEN today ELSE yesterday
  <1>1. today \in Cells /\ yesterday \in Cells /\ t \in Moments
    BY DateType DEF Context, StateInv, StateOK, today
  <1>2. \/ pc = "putToday" /\ PutEeprom(today, "commitToday", AfterBooking)
        \/ pc = "putYesterday" /\ PutEeprom(yesterday, "commitYesterday", "newDay")
    BY DEF PutToday, PutYesterday, At
  <1>3. UNCHANGED <<tagesCounter, ziel, yesterday, t, caller, flash>>
    BY <1>2 DEF PutEeprom, control, EEPROM!Put, eeprom
  <1>4. /\ pc \in {"putToday", "putYesterday"}
        /\ pc' \in {"commitToday", "putYesterday", "mark", "commitYesterday", "newDay"}
        /\ MidnightWork => MidnightWork'
    BY <1>2, <1>3 DEF PutEeprom, AfterBooking, MidnightWork
  <1>5. CASE ~EEPROM!Open
    <2>1. UNCHANGED data
      BY <1>2, <1>5 DEF PutEeprom, EEPROM!Put, EEPROM!Open, eeprom
    <2>2. QED
      BY <1>3, <1>4, <1>5, <2>1, FutureRest DEF Deleting
  <1>6. CASE EEPROM!Open
    <2>1. /\ EEPROM!Open'
          /\ data'[cell] = tagesCounter[cell]
          /\ \A c \in Cells : c # cell => data'[c] = data[c]
      BY <1>1, <1>2, <1>6, PutSaves DEF Context
    <2>2. ASSUME ~YearTurns' PROVE EmptyAhead(data', t)
      <3>1. ~YearTurns
        BY <1>3, <1>4, <2>2 DEF YearTurns, NewYearsDay, JanuaryWork
      <3>2. EmptyAhead(data, t)
        BY <1>6, <3>1 DEF Future
      <3>3. cell \in Ahead(t) => data'[cell] = 0
        <4>1. CASE t.slot # 0
          <5>1. cell = today
            BY <1>4, <4>1 DEF Context, TableInv, ZielIsSaved
          <5>2. today \notin Ahead(t)
            BY <1>1, <4>1, MomentType DEF Ahead, Date, today
          <5>3. QED
            BY <5>1, <5>2
        <4>2. CASE t.slot = 0
          <5>1. MidnightWork /\ ~NewYearsDay(t) /\ DayBefore(yesterday)
            BY <1>4, <3>1, <4>2 DEF MidnightWork, YearTurns, Context, MarkInv, MarkBooked
          <5>2. yesterday \notin Ahead(t) /\ yesterday # today
            BY <1>1, <5>1, YesterdayIsOver DEF Context
          <5>3. CASE pc = "putYesterday"
            BY <5>2, <5>3
          <5>4. CASE pc = "putToday"
            <6>1. ziel = yesterday
              BY <4>2, <5>4 DEF Context, TableInv, ZielIsSaved
            <6>2. tagesCounter[today] = data[today]
              BY <1>1, <1>6, <5>2, <5>4, <6>1 DEF Mirror, Deleting, JanuaryWork
            <6>3. QED
              BY <2>1, <3>2, <5>4, <6>2 DEF EmptyAhead
          <5>5. QED
            BY <1>4, <5>3, <5>4
        <4>3. QED
          BY <4>1, <4>2
      <3>4. \A c \in Ahead(t) : c \in Cells
        BY DEF Ahead
      <3>5. QED
        BY <2>1, <3>2, <3>3, <3>4 DEF EmptyAhead
    <2>3. QED
      BY <1>3, <1>4, <2>1, <2>2 DEF Future, Deleting
  <1>7. QED
    BY <1>5, <1>6

LEMMA FuturePoll == ASSUME Context, Future, Poll PROVE Future'
  <1>1. pc = "idle" /\ pc' = "book" /\ UNCHANGED <<flash, data>>
    BY DEF Poll, At, eeprom
  <1>2. ASSUME ~YearTurns', EEPROM!Open PROVE EmptyAhead(data, t')
    <2>1. EmptyAhead(data, t)
      BY <1>1, <1>2 DEF Future, YearTurns, MidnightWork, JanuaryWork
    <2>2. t'.slot = 0 => ~NewYearsDay(t')
      BY <1>1, <1>2 DEF YearTurns, MidnightWork, NewYearsDay
    <2>3. t \in Moments
      BY DEF Context, StateInv, StateOK
    <2>4. Ahead(t') \subseteq Ahead(t)
      BY <2>2, <2>3, PollMoves, AheadLater DEF Context
    <2>5. QED
      BY <2>1, <2>4 DEF EmptyAhead
  <1>3. QED
    BY <1>1, <1>2 DEF Future, Deleting, EEPROM!Open

LEMMA FutureWork ==
    ASSUME Context, Mirror, Future, FiveMinuteWork
    PROVE  Future'
  <1> USE DEF At, eeprom, control, Deleting, YearTurns, MidnightWork, JanuaryWork,
              NewYearsDay
  <1>1. CASE Poll
    BY <1>1, FuturePoll
  <1>2. CASE Book \/ Power \/ Reset
    BY <1>2, FutureRest DEF Book, Power, Reset
  <1>3. CASE PutToday \/ PutYesterday
    BY <1>3, FuturePut
  <1>4. CASE CommitToday
    BY <1>4, FutureRest DEF CommitToday, CommitPut, AfterBooking, EEPROM!Commit
  <1>5. CASE CommitYesterday
    BY <1>5, FutureRest DEF CommitYesterday, CommitPut, EEPROM!Commit
  <1>6. CASE Mark
    BY <1>6, FutureRest DEF Mark
  <1>7. CASE NewDay
    BY <1>7, FutureRest DEF NewDay, AfterNewDay
  <1>8. CASE NewYear
    <2>1. ~EEPROM!Open
      BY <1>8 DEF NewYear, Context, TableInv, ClosedPhases
    <2>2. QED
      BY <1>8, <2>1, FutureRest DEF NewYear
  <1>9. QED
    BY <1>1, <1>2, <1>3, <1>4, <1>5, <1>6, <1>7, <1>8 DEF FiveMinuteWork

LEMMA FutureDeletion ==
    ASSUME Context, Future, Deletion
    PROVE  Future'
  <1> USE DEF At, eeprom, control, Deleting, YearTurns, MidnightWork, JanuaryWork,
              NewYearsDay
  <1>1. CASE BackupOpen
    BY <1>1, FutureRest DEF BackupOpen
  <1>2. CASE BackupWrite
    BY <1>2, FutureRest DEF BackupWrite, Context, StateInv, StateOK
  <1>3. CASE DeletePut
    <2>1. /\ pc = "delete" /\ pc' = "deleteCommit" /\ UNCHANGED flash
          /\ EEPROM!Put(NoTable)
      BY <1>3 DEF DeletePut, EEPROM!Put
    <2>2. CASE EEPROM!Open
      <3>1. data' = NoTable
        BY <2>1, <2>2 DEF EEPROM!Put, EEPROM!Patched, NoTable
      <3>2. EEPROM!Open'
        BY <3>1, ValueAssumption DEF NoTable, EEPROM!Open, Wh
      <3>3. EmptyAhead(NoTable, t')
        BY DEF EmptyAhead, Ahead, NoTable
      <3>4. QED
        BY <2>1, <3>1, <3>2, <3>3 DEF Future
    <2>3. CASE ~EEPROM!Open
      BY <2>1, <2>3 DEF Future, EEPROM!Put, EEPROM!Open
    <2>4. QED
      BY <2>2, <2>3
  <1>4. CASE DeleteCommit
    BY <1>4, FutureRest DEF DeleteCommit, CommitPut, EEPROM!Commit
  <1>5. CASE DeleteEnd
    BY <1>5, FutureRest DEF DeleteEnd, EEPROM!End
  <1>6. CASE DeleteRAM
    <2>1. ~EEPROM!Open
      BY <1>6 DEF DeleteRAM, Context, TableInv, ClosedPhases
    <2>2. QED
      BY <1>6, <2>1, FutureRest DEF DeleteRAM
  <1>7. QED
    BY <1>1, <1>2, <1>3, <1>4, <1>5, <1>6 DEF Deletion

\* The commit() of a deletion clears the sector before end() closes it.
LEMMA FutureFlash ==
    ASSUME Undisturbed, Context, Future, Flash
    PROVE  Future'
  <1>1. /\ UNCHANGED <<t, pc, caller>>
        /\ \/ EEPROM!CommitReturnsAtOnce \/ EEPROM!Erase \/ EEPROM!Program
    BY DEF Flash, control, EEPROM!EepromStep, EEPROM!EraseFails, EEPROM!ProgramFails,
           Undisturbed
  <1>2. phase \in {"commit", "end"}
    BY <1>1 DEF EEPROM!CommitReturnsAtOnce, EEPROM!Erase, EEPROM!Program, Context,
                StateInv, StoreInv, ErasedIsDirty, EEPROM!EepromTypeOK
  <1>3. /\ pc \notin {"off", "setup"}
        /\ phase = "end" => Deleting
    BY <1>2 DEF Context, DeletionInv, ReadyWhen, Deleting
  <1>4. data' = data \/ (data' = NoBuffer /\ phase = "end")
    BY <1>1 DEF EEPROM!CommitReturnsAtOnce, EEPROM!Erase, EEPROM!Program, EEPROM!Return
  <1>5. CASE data' = data /\ EEPROM!Open
    BY <1>1, <1>3, <1>5 DEF Future, EmptyAhead, EEPROM!Open, Deleting, YearTurns,
                            MidnightWork, JanuaryWork
  <1>6. CASE ~EEPROM!Open
    <2>1. UNCHANGED flash /\ ~EEPROM!Open'
      BY <1>1, <1>4, <1>6
         DEF EEPROM!CommitReturnsAtOnce, EEPROM!Erase, EEPROM!Program, EEPROM!Open,
             Context, StateInv, StoreInv, ErasedIsDirty
    <2>2. QED
      BY <1>1, <1>3, <1>6, <2>1 DEF Future
  <1>7. CASE EEPROM!Open /\ data' = NoBuffer /\ phase = "end"
    <2>1. data = NoTable
      BY <1>3, <1>7 DEF Future
    <2>2. flash' = data
      BY <1>1, <1>7, <2>1
         DEF EEPROM!CommitReturnsAtOnce, EEPROM!Erase, EEPROM!Program, EEPROM!Open,
             Context, StateInv, StoreInv, CleanMeansStored
    <2>3. QED
      BY <1>1, <1>3, <1>7, <2>1, <2>2 DEF Future, EEPROM!Open
  <1>8. QED
    BY <1>4, <1>5, <1>6, <1>7

\* A restart finds in the flash what the buffer held.
LEMMA FutureRestart ==
    ASSUME Undisturbed, Context, Future, Restart
    PROVE  Future'
  <1>1. /\ pc = "idle" /\ ~due /\ pc' = "off" /\ UNCHANGED clock
        /\ data' = NoBuffer
    BY DEF Restart, TurnOff, EEPROM!PowerOff, Undisturbed
  <1>2. phase = "ready" /\ ~dirty /\ ~erased
    BY <1>1 DEF Context, DeletionInv, ReadyWhen, NothingPending, StateInv, StoreInv,
                EEPROM!EepromTypeOK, ErasedIsDirty
  <1>3. UNCHANGED flash /\ t = Local(clock)
    BY <1>1, <1>2 DEF Restart, TurnOff, EEPROM!PowerOff, Context, TimeInv, MarkInTime
  <1>4. EmptyAhead(flash, t)
    <2>1. CASE EEPROM!Open
      <3>1. flash = data
        BY <1>2, <2>1 DEF Context, StateInv, StoreInv, CleanMeansStored
      <3>2. QED
        BY <1>1, <2>1, <3>1 DEF Future, YearTurns, MidnightWork, JanuaryWork
    <2>2. CASE ~EEPROM!Open
      BY <1>1, <2>2 DEF Future, EmptyAhead, Ahead, NoTable
    <2>3. QED
      BY <2>1, <2>2
  <1>5. QED
    BY <1>1, <1>3, <1>4 DEF Future, EEPROM!Open

LEMMA FutureNext ==
    ASSUME Undisturbed, Context, Mirror, Future, [Next]_vars
    PROVE  Future'
  <1> USE DEF At, eeprom, control, Deleting, YearTurns, MidnightWork, JanuaryWork,
              NewYearsDay
  <1>1. CASE SetupNtp
    BY <1>1 DEF SetupNtp, environment, Future, EmptyAhead, EEPROM!Open, Context,
                TableInv, ClosedPhases
  <1>2. CASE SetupEeprom
    <2>1. /\ pc = "setup" /\ pc' = "idle" /\ data' = flash /\ UNCHANGED <<flash, t>>
          /\ t = Local(clock) /\ flash \in [Cells -> Wh]
      BY <1>2 DEF SetupEeprom, EEPROM!Begin, Context, TimeInv, MarkInTime, BootsInTime,
                  StateInv, StoreInv, EEPROM!EepromTypeOK, EEPROM!Val, Wh
    <2>2. EEPROM!Open'
      BY <2>1, ValueAssumption DEF EEPROM!Open
    <2>3. QED
      BY <2>1, <2>2 DEF Future, EmptyAhead
  <1>3. CASE FiveMinuteWork
    BY <1>3, FutureWork
  <1>4. CASE Deletion
    BY <1>4, FutureDeletion
  <1>5. CASE Flash
    BY <1>5, FutureFlash
  <1>6. CASE HandleSetup
    BY <1>6, FutureRest DEF HandleSetup
  <1>7. CASE Tick
    BY <1>7, FutureRest, PunctualTick DEF Undisturbed, Punctual, Tick
  <1>8. CASE interruptRoutineFalling \/ UNCHANGED vars
    <2>1. UNCHANGED <<flash, data, clock, t, pc, caller>>
      BY <1>8 DEF interruptRoutineFalling, vars, environment
    <2>2. QED
      BY <2>1 DEF Future, EmptyAhead, EEPROM!Open
  <1>9. CASE Restart
    BY <1>9, FutureRestart
  <1>10. CASE MarkMissed \/ PowerLoss
    BY <1>10 DEF MarkMissed, PowerLoss, Undisturbed
  <1>11. QED
    BY <1>1, <1>2, <1>3, <1>4, <1>5, <1>6, <1>7, <1>8, <1>9, <1>10
       DEF Next, Sketch, Setup

\* With no crash, no missed mark and a flash that works, the EEPROM holds the
\* whole table whenever loop() waits, unless a deletion has closed it
\* (functions.ino:44, loop.ino:49, :60-65): a restart loses no day.
THEOREM TableIsStored ==
    ASSUME Undisturbed, Cleared, BootsByDay
    PROVE  Spec => []TableStored
  <1>1. Punctual /\ "flash" \notin Events
    BY DEF Undisturbed, Punctual
  <1>2. StateInv /\ TimeInv /\ [Next]_vars => TimeInv'
    BY <1>1, TimeNext
  <1>3. StateInv /\ TableInv /\ TimeInv /\ MarkInv /\ [Next]_vars => MarkInv'
    BY <1>1, MarkNext
  <1>4. StateInv /\ DeletionInv /\ [Next]_vars => DeletionInv'
    BY <1>1, DeletionNext
  <1>5. Context /\ Mirror /\ Future /\ [Next]_vars => Mirror' /\ Future'
    BY MirrorNext, FutureNext
  <1>6. Init => Future
    BY FutureInit
  <1>7. Context /\ Mirror => TableStored
    <2>1. Context /\ pc = "idle" /\ EEPROM!Open => flash = data
      BY DEF Context, DeletionInv, ReadyWhen, NothingPending, StateInv, StoreInv,
             EEPROM!EepromTypeOK, CleanMeansStored
    <2>2. Context /\ EEPROM!Open => tagesCounter \in [Cells -> Wh] /\ data \in [Cells -> Wh]
      BY DEF Context, StateInv, StateOK, StoreInv, EEPROM!EepromTypeOK, EEPROM!Val,
             EEPROM!Open, Wh
    <2>3. Mirror /\ pc = "idle" /\ EEPROM!Open
            => \A c \in Cells : tagesCounter[c] = data[c]
      BY DEF Mirror, Deleting, JanuaryWork, BookingUnsaved
    <2>4. QED
      BY <2>1, <2>2, <2>3 DEF TableStored
  <1>8. QED
    BY <1>2, <1>3, <1>4, <1>5, <1>6, <1>7, StateInit, StateNext, TableInit, TableNext,
       TimeInit, MarkInit, DeletionInit, MirrorInit, PTL DEF Spec, Context

-------------------------------------------------------------------------------
(* The displayed yields and the table.                                     *)

\* The pulses of a behaviour stand for less than a blank cell reads as.
BelowBlank == MaxPulses * WhPerKwh < Blank

\* The logger is not started in the hours in which the dates of standard and
\* of local time differ: setup() looks up the day's yield by standard time.
BootsOnDate == \A m \in BootMoments : Date(Local(m)) = Date(m)

\* The first night of a month, until its cells are cleared.
MonthTurns == MidnightWork /\ t.day = 0

\* Outside of it the days to come of the running month are empty in RAM, too.
MonthAhead ==
    pc \notin {"off", "setup"} /\ ~MonthTurns =>
        \A c \in Ahead(t) : c[1] = t.month => tagesCounter[c] = 0

\* The inductive forms of DayMatchesTable and MonthIsSumOfDays: also while
\* loop() works, but for the midnight work.
DayShown ==
    BootsOnDate /\ pc \notin {"off", "setup"} /\ ~MidnightWork =>
        ausgabe.tag = tagesCounter[today]

MonthShown ==
    pc \notin {"off", "setup"} /\ ~MonthTurns =>
        ausgabe.monat = MonthOf(tagesCounter, t.month)

\* No cell has come near the value of a blank one.
Below(table) == \A c \in Cells : table[c] <= verbucht * WhPerKwh

Bounds == /\ impulse <= MaxPulses
          /\ Below(tagesCounter)
          /\ EEPROM!Open => Below(data)
          /\ ~erased => Below(flash)

-------------------------------------------------------------------------------
\* Bounds.

LEMMA BoundsInit == ASSUME Cleared, Init PROVE Bounds
  <1>1. flash = NoTable /\ tagesCounter = NoTable /\ ~EEPROM!Open /\ impulse = 0
        /\ verbucht = 0
    BY DEF Init, Cleared, EEPROM!EepromInit, EEPROM!Open
  <1>2. QED
    BY <1>1, ValueAssumption, EnvironmentAssumption DEF Bounds, Below, NoTable

\* Steps that leave the copies of the table alone.
LEMMA BoundsRest ==
    ASSUME StateInv, Bounds,
           UNCHANGED <<verbucht, tagesCounter, flash, data, erased>>,
           impulse' <= MaxPulses
    PROVE  Bounds'
  BY DEF Bounds, Below, EEPROM!Open

LEMMA TimesMonotone ==
    ASSUME NEW a \in Nat, NEW b \in Nat, NEW w \in Nat, a <= b
    PROVE  a * w <= b * w
  <1>1. PICK d \in Nat : b = a + d
    BY b - a \in Nat
  <1>2. b * w = a * w + d * w /\ a * w \in Nat /\ d * w \in Nat
    BY <1>1
  <1>3. QED
    BY <1>2

\* Whole Wh, and no more than a kWh for every pulse.
LEMMA WhOfBound ==
    ASSUME NEW n \in Nat
    PROVE  WhOf(n) \in Nat /\ WhOf(n) <= n * WhPerKwh
  <1>1. n * WhPerKwh \in Nat
    BY ValueAssumption
  <1>2. \A p \in Nat : ImpulseProKwh > 0 => p \div ImpulseProKwh <= p
    BY ValueAssumption
  <1>3. QED
    BY <1>1, <1>2, WhOfType DEF WhOf

\* No cell is blank when loop() books: the cell and the yields grow alike.
LEMMA BookAdds ==
    ASSUME BelowBlank, StateInv, YieldsOK, PulseBalance, Bounds, Book
    PROVE  /\ tagesCounter' = [tagesCounter EXCEPT ![ziel] = @ + WhOf(counter)]
           /\ ausgabe'.tag = ausgabe.tag + WhOf(counter)
           /\ ausgabe'.monat = ausgabe.monat + WhOf(counter)
           /\ tagesCounter[ziel] + WhOf(counter) <= verbucht' * WhPerKwh
           /\ verbucht * WhPerKwh <= verbucht' * WhPerKwh
  <1>1. /\ impulse \in Nat /\ verbucht \in Nat /\ verloren \in Nat /\ counter \in Nat
        /\ ziel \in Cells /\ tagesCounter \in [Cells -> Nat]
        /\ verbucht' = verbucht + counter
    BY DEF StateInv, StateOK, Wh, Book
  <1>2. WhOf(counter) \in Nat /\ WhOf(counter) <= counter * WhPerKwh
    BY <1>1, WhOfBound
  <1>3. tagesCounter[ziel] # Blank
    <2>1. verbucht <= impulse /\ impulse <= MaxPulses
      BY <1>1 DEF PulseBalance, Pending, Bounds
    <2>2. verbucht * WhPerKwh <= MaxPulses * WhPerKwh
      <3>1. verbucht <= MaxPulses
        BY <1>1, <2>1, EnvironmentAssumption
      <3>2. QED
        BY <1>1, <3>1, TimesMonotone, EnvironmentAssumption, ValueAssumption
    <2>3. tagesCounter[ziel] <= verbucht * WhPerKwh
      BY <1>1 DEF Bounds, Below
    <2>4. verbucht * WhPerKwh \in Nat /\ MaxPulses * WhPerKwh \in Nat
      BY <1>1, EnvironmentAssumption, ValueAssumption
    <2>5. QED
      BY <1>1, <2>2, <2>3, <2>4, ValueAssumption DEF BelowBlank, Wh
  <1>4. Sums(tagesCounter[ziel], WhOf(counter)) = {tagesCounter[ziel] + WhOf(counter)}
    BY <1>3 DEF Sums
  <1>5. /\ tagesCounter' = [tagesCounter EXCEPT ![ziel] = @ + WhOf(counter)]
        /\ ausgabe'.tag = ausgabe.tag + WhOf(counter)
        /\ ausgabe'.monat = ausgabe.monat + WhOf(counter)
    <2>1. CASE ImpulseProKwh > 0
      <3>1. tagesCounter' = [tagesCounter EXCEPT ![ziel] = @ + WhOf(counter)]
        BY <1>4, <2>1 DEF Book
      <3>2. PICK wh \in Nat :
              /\ wh = WhOf(counter)
              /\ ausgabe' = [ausgabe EXCEPT !.tag = @ + wh, !.monat = @ + wh,
                                            !.jahr = @ + wh, !.zaehler = @ + wh]
        BY <1>2, <2>1 DEF Book
      <3>3. QED
        BY <3>1, <3>2 DEF YieldsOK
    <2>2. CASE ~(ImpulseProKwh > 0)
      <3>1. WhOf(counter) = 0 /\ UNCHANGED <<tagesCounter, ausgabe>>
        BY <2>2 DEF Book, WhOf
      <3>2. tagesCounter[ziel] + 0 = tagesCounter[ziel]
        BY <1>1
      <3>3. ausgabe.tag \in Nat /\ ausgabe.monat \in Nat
        BY DEF YieldsOK, Wh
      <3>4. QED
        BY <1>1, <3>1, <3>2, <3>3
    <2>3. QED
      BY <2>1, <2>2
  <1>6. /\ tagesCounter[ziel] + WhOf(counter) <= verbucht' * WhPerKwh
        /\ verbucht * WhPerKwh <= verbucht' * WhPerKwh
    <2>1. tagesCounter[ziel] <= verbucht * WhPerKwh
      BY <1>1 DEF Bounds, Below
    <2>2. /\ verbucht' * WhPerKwh = verbucht * WhPerKwh + counter * WhPerKwh
          /\ verbucht * WhPerKwh \in Nat /\ counter * WhPerKwh \in Nat
      BY <1>1, ValueAssumption
    <2>3. tagesCounter[ziel] \in Nat
      BY <1>1
    <2>4. QED
      BY <1>2, <2>1, <2>2, <2>3
  <1>7. QED
    BY <1>5, <1>6

LEMMA BoundsBook ==
    ASSUME BelowBlank, StateInv, YieldsOK, PulseBalance, Bounds, Book
    PROVE  Bounds'
  <1>1. UNCHANGED <<flash, data, erased, impulse>>
    BY DEF Book, eeprom
  <1>2. /\ verbucht * WhPerKwh \in Nat /\ verbucht' * WhPerKwh \in Nat
        /\ ziel \in Cells /\ tagesCounter \in [Cells -> Nat]
        /\ flash \in [Cells -> Nat] /\ (EEPROM!Open => data \in [Cells -> Nat])
    BY ValueAssumption
       DEF StateInv, StateOK, Wh, Book, StoreInv, EEPROM!EepromTypeOK, EEPROM!Val,
           EEPROM!Open
  <1>3. verbucht * WhPerKwh <= verbucht' * WhPerKwh
    BY BookAdds
  <1>4. \A table \in [Cells -> Nat] :
          Below(table) => \A c \in Cells : table[c] <= verbucht' * WhPerKwh
    BY <1>2, <1>3 DEF Below
  <1>5. Below(tagesCounter)'
    <2>1. \A c \in Cells : c # ziel => tagesCounter'[c] <= verbucht' * WhPerKwh
      BY <1>2, <1>4, BookAdds DEF Bounds
    <2>2. tagesCounter'[ziel] <= verbucht' * WhPerKwh
      BY <1>2, BookAdds
    <2>3. QED
      BY <2>1, <2>2 DEF Below
  <1>6. /\ ~erased => \A c \in Cells : flash[c] <= verbucht' * WhPerKwh
        /\ EEPROM!Open => \A c \in Cells : data[c] <= verbucht' * WhPerKwh
    BY <1>2, <1>4 DEF Bounds
  <1>7. QED
    BY <1>1, <1>5, <1>6 DEF Bounds, Below, EEPROM!Open

LEMMA BoundsPut ==
    ASSUME StateInv, Bounds, NEW cell \in Cells, NEW committing, NEW next,
           PutEeprom(cell, committing, next)
    PROVE  Bounds'
  <1>1. UNCHANGED <<flash, erased, tagesCounter, impulse, verbucht>>
    BY DEF PutEeprom, eeprom, EEPROM!Put, history
  <1>2. CASE EEPROM!Open
    <2>1. /\ data'[cell] = tagesCounter[cell]
          /\ \A c \in Cells : c # cell => data'[c] = data[c]
      BY <1>2, PutSaves
    <2>2. QED
      BY <1>1, <1>2, <2>1 DEF Bounds, Below
  <1>3. CASE ~EEPROM!Open
    <2>1. UNCHANGED data
      BY <1>3 DEF PutEeprom, eeprom, EEPROM!Put
    <2>2. QED
      BY <1>1, <2>1, BoundsRest DEF Bounds
  <1>4. QED
    BY <1>2, <1>3

LEMMA BoundsWork ==
    ASSUME BelowBlank, StateInv, YieldsOK, PulseBalance, Bounds, FiveMinuteWork
    PROVE  Bounds'
  <1>0. impulse <= MaxPulses
    BY DEF Bounds
  <1> USE <1>0
  <1>1. CASE Book
    BY <1>1, BoundsBook
  <1>2. CASE PutToday \/ PutYesterday
    BY <1>2, BoundsPut, DateType
       DEF PutToday, PutYesterday, StateInv, StateOK, today
  <1>3. CASE CommitToday \/ CommitYesterday
    BY <1>3, BoundsRest
       DEF CommitToday, CommitYesterday, CommitPut, EEPROM!Commit, history
  <1>4. CASE Poll \/ Power \/ Reset \/ Mark \/ NewYear
    BY <1>4, BoundsRest DEF Poll, Power, Reset, Mark, NewYear, history, eeprom
  <1>5. CASE NewDay
    <2>1. /\ UNCHANGED <<verbucht, impulse, flash, data, erased>>
          /\ \A c \in Cells : tagesCounter'[c] \in {0, tagesCounter[c]}
      BY <1>5 DEF NewDay, history, eeprom
    <2>2. verbucht * WhPerKwh \in Nat
      BY ValueAssumption DEF StateInv, StateOK
    <2>3. QED
      BY <2>1, <2>2 DEF Bounds, Below, EEPROM!Open
  <1>6. QED
    BY <1>1, <1>2, <1>3, <1>4, <1>5 DEF FiveMinuteWork

LEMMA BoundsNext ==
    ASSUME Undisturbed, BelowBlank, Context, YieldsOK, PulseBalance, Bounds, [Next]_vars
    PROVE  Bounds'
  <1>0. StateInv /\ impulse <= MaxPulses /\ verbucht * WhPerKwh \in Nat /\ impulse \in Nat
    BY ValueAssumption DEF Context, Bounds, StateInv, StateOK
  <1> USE <1>0
  <1>1. CASE SetupNtp
    BY <1>1, BoundsRest DEF SetupNtp, history, eeprom
  <1>2. CASE SetupEeprom
    <2>1. ~erased
      BY <1>2 DEF SetupEeprom, EEPROM!Begin, StateInv, StoreInv, ErasedIsDirty
    <2>2. QED
      BY <1>2, <2>1 DEF SetupEeprom, EEPROM!Begin, history, Bounds, Below
  <1>3. CASE FiveMinuteWork
    BY <1>3, BoundsWork
  <1>4. CASE BackupOpen \/ BackupWrite
    BY <1>4, BoundsRest DEF BackupOpen, BackupWrite, history, eeprom
  <1>5. CASE DeletePut
    BY <1>5 DEF DeletePut, EEPROM!Put, EEPROM!Patched, EEPROM!Open, NoTable, history,
                Bounds, Below
  <1>6. CASE DeleteCommit \/ DeleteEnd
    BY <1>6, BoundsRest
       DEF DeleteCommit, DeleteEnd, CommitPut, EEPROM!Commit, EEPROM!End, history
  <1>7. CASE DeleteRAM
    BY <1>7 DEF DeleteRAM, NoTable, eeprom, Bounds, Below, EEPROM!Open
  <1>8. CASE Flash
    <2>1. /\ UNCHANGED <<tagesCounter, verbucht, impulse>>
          /\ \/ EEPROM!CommitReturnsAtOnce \/ EEPROM!Erase \/ EEPROM!Program
      BY <1>8 DEF Flash, history, EEPROM!EepromStep, EEPROM!EraseFails,
                  EEPROM!ProgramFails, Undisturbed
    <2>2. CASE EEPROM!CommitReturnsAtOnce
      BY <2>1, <2>2 DEF EEPROM!CommitReturnsAtOnce, EEPROM!Return, EEPROM!Open,
                        Bounds, Below
    <2>3. CASE EEPROM!Erase
      BY <2>1, <2>3 DEF EEPROM!Erase, EEPROM!Open, Bounds, Below
    <2>4. CASE EEPROM!Program
      BY <2>1, <2>4 DEF EEPROM!Program, EEPROM!Return, EEPROM!Open, Bounds, Below,
                        StateInv, StoreInv, ErasedIsDirty
    <2>5. QED
      BY <2>1, <2>2, <2>3, <2>4
  <1>9. CASE Restart
    <2>1. ~erased
      BY <1>9 DEF Restart, Context, DeletionInv, ReadyWhen, StoreInv, StateInv,
                  EEPROM!EepromTypeOK, ErasedIsDirty
    <2>2. QED
      BY <1>9, <2>1 DEF Restart, TurnOff, RamLost, EEPROM!PowerOff, NoTable, Bounds,
                        Below, EEPROM!Open
  <1>10. CASE interruptRoutineFalling
    <2>1. impulse' <= MaxPulses
      BY <1>10, EnvironmentAssumption DEF interruptRoutineFalling
    <2>2. QED
      BY <1>10, <2>1, BoundsRest DEF interruptRoutineFalling, eeprom
  <1>11. CASE HandleSetup \/ Tick \/ UNCHANGED vars
    BY <1>11, BoundsRest DEF HandleSetup, Tick, vars, history, eeprom
  <1>12. CASE MarkMissed \/ PowerLoss
    BY <1>12 DEF MarkMissed, PowerLoss, Undisturbed
  <1>13. QED
    BY <1>1, <1>2, <1>3, <1>4, <1>5, <1>6, <1>7, <1>8, <1>9, <1>10, <1>11, <1>12
       DEF Next, Sketch, Setup, Deletion

-------------------------------------------------------------------------------
\* The days to come in RAM.

ShownInv == MonthAhead /\ DayShown /\ MonthShown

LEMMA ShownInit == Init => ShownInv
  BY DEF Init, ShownInv, MonthAhead, DayShown, MonthShown

\* Steps that leave the table and the yields alone, and midnight too.
LEMMA ShownRest ==
    ASSUME ShownInv, UNCHANGED <<tagesCounter, t>>,
           ausgabe'.tag = ausgabe.tag, ausgabe'.monat = ausgabe.monat,
           pc \notin {"off", "setup"} \/ pc' \in {"off", "setup"},
           MidnightWork => MidnightWork' \/ pc' \in {"off", "setup"}
    PROVE  ShownInv'
  BY DEF ShownInv, MonthAhead, DayShown, MonthShown, MonthTurns, today, Date

\* A table that is empty has an empty month.
LEMMA EmptyMonth ==
    ASSUME NEW table, NEW month \in Months,
           \A c \in Cells : c[1] = month => table[c] = 0
    PROVE  MonthOf(table, month) = 0
  <1>1. \A c \in {month} \X Days : c \in Cells /\ c[1] = month
    BY DEF Cells
  <1>2. \A c \in {month} \X Days : table[c] = 0
    BY <1>1
  <1>3. QED
    BY <1>2, MonthFinite, SumZero DEF MonthOf

\* One cell grows: its month grows by as much, the others stay.
LEMMA MonthGrows ==
    ASSUME NEW table \in [Cells -> Nat], NEW cell \in Cells, NEW wh \in Nat,
           NEW month \in Months
    PROVE  MonthOf([table EXCEPT ![cell] = @ + wh], month)
             = MonthOf(table, month) + IF cell[1] = month THEN wh ELSE 0
  <1> DEFINE more == [table EXCEPT ![cell] = @ + wh]
             S == {month} \X Days
  <1>1. S \subseteq Cells /\ IsFiniteSet(S)
    BY MonthFinite
  <1>2. /\ \A c \in S : table[c] \in Nat /\ more[c] \in Nat
        /\ \A c \in S : c # cell => more[c] = table[c]
        /\ more[cell] = table[cell] + wh /\ table[cell] \in Nat
    BY <1>1
  <1>3. cell \in S <=> cell[1] = month
    BY DEF Cells
  <1> HIDE DEF more, S
  <1>4. SumFunctionOnSet(more, S) \in Nat /\ SumFunctionOnSet(table, S) \in Nat
    BY <1>1, <1>2, SumType
  <1>5. CASE cell[1] = month
    <2>1. SumFunctionOnSet(more, S) + table[cell] = SumFunctionOnSet(table, S) + more[cell]
      BY <1>1, <1>2, <1>3, <1>5, SumChange
    <2>2. SumFunctionOnSet(more, S) = SumFunctionOnSet(table, S) + wh
      BY <1>2, <1>4, <2>1
    <2>3. QED
      BY <1>5, <2>2 DEF MonthOf, more, S
  <1>6. CASE cell[1] # month
    <2>1. SumFunctionOnSet(more, S) = SumFunctionOnSet(table, S)
      BY <1>1, <1>2, <1>3, <1>6, SumEqual
    <2>2. QED
      BY <1>4, <1>6, <2>1 DEF MonthOf, more, S
  <1>7. QED
    BY <1>5, <1>6

LEMMA ShownBook ==
    ASSUME BelowBlank, Context, YieldsOK, PulseBalance, Bounds, ShownInv, Book
    PROVE  ShownInv'
  <1>1. /\ pc = "book" /\ pc' = "power" /\ UNCHANGED t
        /\ t \in Moments /\ ziel \in Cells /\ yesterday \in Cells
        /\ tagesCounter \in [Cells -> Nat]
        /\ ziel = IF t.slot = 0 THEN yesterday ELSE today
        /\ WhOf(counter) \in Nat
    BY WhOfType DEF Book, At, control, Context, StateInv, StateOK, TableInv,
                    ZielIsSaved, Wh
  <1> DEFINE wh == WhOf(counter)
  <1>2. /\ tagesCounter' = [tagesCounter EXCEPT ![ziel] = @ + wh]
        /\ ausgabe'.tag = ausgabe.tag + wh /\ ausgabe'.monat = ausgabe.monat + wh
    BY BookAdds DEF Context
  <1>3. CASE t.slot # 0
    <2>1. ziel = today /\ ziel[1] = t.month /\ ziel \notin Ahead(t)
      BY <1>1, <1>3, MomentType DEF today, Date, Ahead
    <2>2. DayShown'
      BY <1>1, <1>2, <1>3, <2>1 DEF ShownInv, DayShown, MidnightWork, today, Date
    <2>3. MonthAhead'
      BY <1>1, <1>2, <1>3, <2>1
         DEF ShownInv, MonthAhead, MonthTurns, MidnightWork, Ahead
    <2>4. MonthOf(tagesCounter', t.month) = MonthOf(tagesCounter, t.month) + wh
      BY <1>1, <1>2, <2>1, MonthGrows DEF Moments
    <2>5. MonthShown'
      BY <1>1, <1>2, <1>3, <2>4 DEF ShownInv, MonthShown, MonthTurns, MidnightWork
    <2>6. QED
      BY <2>2, <2>3, <2>5 DEF ShownInv
  <1>4. CASE t.slot = 0 /\ t.day # 0
    <2>1. ziel = yesterday /\ MidnightWork /\ MidnightWork' /\ ~MonthTurns
      BY <1>1, <1>4 DEF MidnightWork, MonthTurns
    <2>2. ziel \notin Ahead(t) /\ ziel[1] = t.month
      BY <1>1, <1>4, <2>1, YesterdayIsOver, MomentType
         DEF Context, MarkInv, MarkBooked, NewYearsDay
    <2>3. MonthAhead'
      BY <1>1, <1>2, <2>1, <2>2 DEF ShownInv, MonthAhead, Ahead
    <2>4. MonthOf(tagesCounter', t.month) = MonthOf(tagesCounter, t.month) + wh
      BY <1>1, <1>2, <2>2, MonthGrows DEF Moments
    <2>5. MonthShown'
      BY <1>1, <1>2, <2>1, <2>4 DEF ShownInv, MonthShown
    <2>6. QED
      BY <2>1, <2>3, <2>5 DEF ShownInv, DayShown
  <1>5. CASE t.slot = 0 /\ t.day = 0
    BY <1>1, <1>5
       DEF ShownInv, DayShown, MonthShown, MonthAhead, MonthTurns, MidnightWork
  <1>6. QED
    BY <1>3, <1>4, <1>5

LEMMA ShownPoll == ASSUME Context, ShownInv, Poll PROVE ShownInv'
  <1>1. /\ pc = "idle" /\ pc' = "book" /\ UNCHANGED <<tagesCounter, ausgabe>>
        /\ t \in Moments /\ t' \in Moments
        /\ \/ t'.slot # 0 /\ Date(t') = Date(t)
           \/ t'.slot = 0 /\ t' = Successor(t)
    BY PollMoves DEF Poll, display, Context, StateInv, StateOK
  <1>2. /\ \A c \in Ahead(t) : c[1] = t.month => tagesCounter[c] = 0
        /\ BootsOnDate => ausgabe.tag = tagesCounter[today]
        /\ ausgabe.monat = MonthOf(tagesCounter, t.month)
    BY <1>1 DEF ShownInv, MonthAhead, DayShown, MonthShown, MonthTurns, MidnightWork
  <1>3. CASE t'.slot # 0
    <2>1. t'.month = t.month /\ Date(t') = Date(t) /\ Ahead(t') \subseteq Ahead(t)
      BY <1>1, <1>3, AheadLater DEF Date
    <2>2. QED
      BY <1>1, <1>2, <2>1 DEF ShownInv, MonthAhead, DayShown, MonthShown, today
  <1>4. CASE t'.slot = 0 /\ t'.day # 0
    <2>1. t'.month = t.month
      BY <1>1, <1>4, SuccessorSlot, MomentType DEF Date
    <2>2. Ahead(t') \subseteq Ahead(t)
      BY <1>1, <1>4, AheadLater DEF NewYearsDay
    <2>3. MidnightWork'
      BY <1>1, <1>4 DEF MidnightWork
    <2>4. QED
      BY <1>1, <1>2, <2>1, <2>2, <2>3 DEF ShownInv, MonthAhead, DayShown, MonthShown
  <1>5. CASE t'.slot = 0 /\ t'.day = 0
    BY <1>1, <1>5
       DEF ShownInv, MonthAhead, DayShown, MonthShown, MonthTurns, MidnightWork
  <1>6. QED
    BY <1>1, <1>3, <1>4, <1>5

LEMMA ShownNewDay == ASSUME Context, YieldsOK, ShownInv, NewDay PROVE ShownInv'
  <1>1. /\ pc = "newDay" /\ pc' \in {"idle", "backup"} /\ UNCHANGED t
        /\ t.slot = 0 /\ t \in Moments /\ MidnightWork /\ ~MidnightWork'
        /\ today \in Cells /\ today \in Ahead(t) /\ today[1] = t.month
        /\ \A c \in Cells :
             tagesCounter'[c] = IF t.day = 0 /\ c[1] = t.month THEN 0
                                                             ELSE tagesCounter[c]
    BY DateType DEF NewDay, AfterNewDay, At, Context, TableInv, ZielIsSaved, StateInv,
                    StateOK, MidnightWork, Ahead, today, Date
  <1>2. /\ ausgabe'.tag = 0
        /\ ausgabe'.monat = IF t.day = 0 THEN 0 ELSE ausgabe.monat
    BY DEF NewDay, NewDayYields, YieldsOK
  <1>3. \A c \in Ahead(t) : c[1] = t.month => tagesCounter'[c] = 0
    <2>1. CASE t.day = 0
      BY <1>1, <2>1 DEF Ahead
    <2>2. CASE t.day # 0
      BY <1>1, <2>2 DEF ShownInv, MonthAhead, MonthTurns, Ahead
    <2>3. QED
      BY <2>1, <2>2
  <1>4. MonthAhead' /\ DayShown'
    BY <1>1, <1>2, <1>3 DEF MonthAhead, DayShown, today, Date
  <1>5. MonthShown'
    <2>1. CASE t.day = 0
      <3>1. MonthOf(tagesCounter', t.month) = 0
        BY <1>1, <2>1, EmptyMonth DEF Moments
      <3>2. QED
        BY <1>1, <1>2, <2>1, <3>1 DEF MonthShown
    <2>2. CASE t.day # 0
      <3>1. UNCHANGED tagesCounter
        BY <2>2 DEF NewDay
      <3>2. QED
        BY <1>1, <1>2, <2>2, <3>1 DEF ShownInv, MonthShown, MonthTurns
    <2>3. QED
      BY <2>1, <2>2
  <1>6. QED
    BY <1>4, <1>5 DEF ShownInv

LEMMA ShownSetup ==
    ASSUME Context, Future, ShownInv, SetupEeprom
    PROVE  ShownInv'
  <1>1. /\ pc = "setup" /\ pc' = "idle" /\ UNCHANGED t /\ t \in Moments
        /\ t = Local(clock) /\ clock \in BootMoments
        /\ tagesCounter' = flash
    BY DEF SetupEeprom, control, Context, TimeInv, MarkInTime, BootsInTime, StateInv,
           StateOK
  <1>2. BootsOnDate => Date(clock) = today
    BY <1>1 DEF BootsOnDate, today
  <1>3. /\ ausgabe'.tag = flash[Date(clock)]
        /\ ausgabe'.monat = MonthOf(flash, t.month)
    BY DEF SetupEeprom, NoYield
  <1>4. EmptyAhead(flash, t)
    BY <1>1 DEF Future
  <1>5. QED
    BY <1>1, <1>2, <1>3, <1>4
       DEF ShownInv, MonthAhead, DayShown, MonthShown, EmptyAhead, today, Date

LEMMA ShownDeleteRAM == ASSUME Context, YieldsOK, DeleteRAM PROVE ShownInv'
  <1>1. /\ UNCHANGED t /\ t \in Moments /\ today \in Cells
        /\ tagesCounter' = NoTable
        /\ ausgabe'.tag = 0 /\ ausgabe'.monat = 0
    BY DateType DEF DeleteRAM, control, Context, StateInv, StateOK, YieldsOK, today
  <1>2. MonthOf(NoTable, t.month) = 0
    BY <1>1, EmptyMonth DEF NoTable, Moments
  <1>3. QED
    BY <1>1, <1>2 DEF ShownInv, MonthAhead, DayShown, MonthShown, NoTable, Ahead, today,
                      Date

LEMMA ShownNext ==
    ASSUME Undisturbed, BelowBlank, Context, YieldsOK, PulseBalance,
           Bounds, Future, ShownInv, [Next]_vars
    PROVE  ShownInv'
  <1> USE DEF At, display, control, MidnightWork
  <1>1. CASE SetupNtp
    BY <1>1 DEF SetupNtp, ShownInv, MonthAhead, DayShown, MonthShown
  <1>2. CASE SetupEeprom
    BY <1>2, ShownSetup
  <1>3. CASE Poll
    BY <1>3, ShownPoll
  <1>4. CASE Book
    BY <1>4, ShownBook
  <1>5. CASE Power
    BY <1>5, ShownRest DEF Power, YieldsOK
  <1>6. CASE Reset \/ Mark
    BY <1>6, ShownRest DEF Reset, Mark
  <1>7. CASE PutToday \/ CommitToday
    BY <1>7, ShownRest DEF PutToday, CommitToday, PutEeprom, CommitPut, AfterBooking
  <1>8. CASE PutYesterday \/ CommitYesterday
    BY <1>8, ShownRest DEF PutYesterday, CommitYesterday, PutEeprom, CommitPut
  <1>9. CASE NewDay
    BY <1>9, ShownNewDay
  <1>10. CASE NewYear
    BY <1>10, ShownRest DEF NewYear, YieldsOK
  <1>11. CASE BackupOpen \/ BackupWrite
    BY <1>11, ShownRest DEF BackupOpen, BackupWrite
  <1>12. CASE DeletePut \/ DeleteCommit \/ DeleteEnd
    BY <1>12, ShownRest DEF DeletePut, DeleteCommit, CommitPut, DeleteEnd
  <1>13. CASE DeleteRAM
    BY <1>13, ShownDeleteRAM
  <1>14. CASE HandleSetup
    BY <1>14, ShownRest DEF HandleSetup
  <1>15. CASE Flash \/ interruptRoutineFalling \/ Tick \/ UNCHANGED vars
    <2>1. UNCHANGED <<tagesCounter, ausgabe, t, pc>>
      BY <1>15 DEF Flash, interruptRoutineFalling, Tick, vars
    <2>2. QED
      BY <2>1 DEF ShownInv, MonthAhead, DayShown, MonthShown, MonthTurns, today, Date
  <1>16. CASE Restart
    BY <1>16 DEF Restart, TurnOff, ShownInv, MonthAhead, DayShown, MonthShown
  <1>17. CASE MarkMissed \/ PowerLoss
    BY <1>17 DEF MarkMissed, PowerLoss, Undisturbed
  <1>18. QED
    BY <1>1, <1>2, <1>3, <1>4, <1>5, <1>6, <1>7, <1>8, <1>9, <1>10, <1>11, <1>12,
       <1>13, <1>14, <1>15, <1>16, <1>17
       DEF Next, Sketch, Setup, FiveMinuteWork, Deletion

\* All that holds while nothing disturbs the logger.
CalmInv == /\ Context /\ YieldsOK /\ PulseBalance
           /\ Mirror /\ Future /\ Bounds /\ ShownInv

LEMMA CalmInit == ASSUME Cleared, Init PROVE CalmInv
  BY StateInit, TableInit, TimeInit, MarkInit, DeletionInit, YieldsInit, BalanceInit,
     MirrorInit, FutureInit, BoundsInit, ShownInit DEF CalmInv, Context

LEMMA CalmNext ==
    ASSUME Undisturbed, BootsByDay, BelowBlank, CalmInv, [Next]_vars
    PROVE  CalmInv'
  <1>1. Punctual /\ "flash" \notin Events
    BY DEF Undisturbed, Punctual
  <1>2. Context'
    BY <1>1, StateNext, TableNext, TimeNext, MarkNext, DeletionNext DEF CalmInv, Context
  <1>3. YieldsOK' /\ PulseBalance'
    BY YieldsNext, BalanceNext DEF CalmInv, Context
  <1>4. Mirror' /\ Future'
    BY MirrorNext, FutureNext DEF CalmInv
  <1>5. Bounds' /\ ShownInv'
    BY BoundsNext, ShownNext DEF CalmInv
  <1>6. QED
    BY <1>2, <1>3, <1>4, <1>5 DEF CalmInv

\* The displayed yield of the month is the sum of its days, also after a
\* restart (setup.ino:192-193), at midnight and when a month begins
\* (loop.ino:60-65), as long as no mark is missed and the power does not fail.
THEOREM MonthIsItsDays ==
    ASSUME Undisturbed, Cleared, BootsByDay, BelowBlank
    PROVE  Spec => []MonthIsSumOfDays
  <1>1. Init => CalmInv
    BY CalmInit
  <1>2. CalmInv /\ [Next]_vars => CalmInv'
    BY CalmNext
  <1>3. CalmInv => MonthIsSumOfDays
    BY DEF CalmInv, ShownInv, MonthShown, MonthTurns, MidnightWork, MonthIsSumOfDays
  <1>4. QED
    BY <1>1, <1>2, <1>3, PTL DEF Spec

\* The displayed yield of the day is what the table holds for today, if the
\* logger is also not started while standard and local date differ
\* (setup.ino:185-187 looks the day up by standard time).
THEOREM DayIsInTheTable ==
    ASSUME Undisturbed, Cleared, BootsByDay, BootsOnDate, BelowBlank
    PROVE  Spec => []DayMatchesTable
  <1>1. Init => CalmInv
    BY CalmInit
  <1>2. CalmInv /\ [Next]_vars => CalmInv'
    BY CalmNext
  <1>3. CalmInv => DayMatchesTable
    BY DEF CalmInv, ShownInv, DayShown, MidnightWork, DayMatchesTable
  <1>4. QED
    BY <1>1, <1>2, <1>3, PTL DEF Spec
===============================================================================
