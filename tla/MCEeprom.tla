------------------------------- MODULE MCEeprom -------------------------------
(* Two cells, so that a torn image can differ from both the old and the new. *)
EXTENDS EepromClient
===============================================================================
