------------------------------- MODULE MCEspLog -------------------------------
(***************************************************************************)
(* A year of two months with two days of four marks, two of which make an  *)
(* hour: the first mark is midnight, the last one 23:55.  Month 0 is       *)
(* January.                                                                *)
(***************************************************************************)
EXTENDS EspLog

MCDaysIn == [m \in Months |-> DaysPerMonth]

\* Summer begins and ends in the middle of a day of month 1.
MCSummer == {m \in Moments : \/ m.month = 1 /\ m.day = 0 /\ m.slot > 0
                             \/ m.month = 1 /\ m.day = 1 /\ m.slot = 0}

\* No daylight saving time.
MCWinter == {}

MCCleared  == {NoTable}

\* A new sector is blank.
MCFactory == {NoTable, [c \in Cells |-> Blank]}

AllMoments == Moments

\* Outside the last five minutes of a (local) day.
Daytime == {m \in Moments : Local(m).slot # LastSlot}

\* ... and outside the hour in which standard and local date differ.
DateAgrees == {m \in Daytime : Date(Local(m)) = Date(m)}
===============================================================================
