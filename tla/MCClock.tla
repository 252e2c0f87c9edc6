------------------------------- MODULE MCClock -------------------------------
(***************************************************************************)
(* Seconds of three ticks of millis(), which wraps after 32, in the middle *)
(* of a second, and minutes of four seconds.                               *)
(***************************************************************************)
EXTENDS Clock
===============================================================================
