------------------------------ MODULE MCSettings ------------------------------
(***************************************************************************)
(* Values that settings change to and fro between, addresses of half the   *)
(* parts, of all, and of as many as the page's buffer of 20 characters     *)
(* takes, and a sector that is new or holds settings.                      *)
(***************************************************************************)
EXTENDS Settings

\* The offset's low bytes happen to be the high bytes of a port above 65535.
MCInputs == [impulseProKwh     |-> {800},
             compensation      |-> {32},
             generatorLeistung |-> {0, 5200},
             fhemPort          |-> {80},
             offset            |-> {131392}]

\* "10.0" sets the first half of the address only; the longest one sets the
\* port to 0, too, and runs on behind the end of the EEPROM.
MCAddresses == {<<10, 0>>, <<192, 168, 1, 7>>, <<1, 0, 0, 7, 0, 0, 0, 0, 0, 0>>}

\* A new sector is blank.
MCBlank == [a \in Addr |-> Blank]

\* A sector that holds 1000 impulses, 8 cent and 5200 Wp.
MCUsed == [a \in Addr |->
    CASE a \in 1488 .. 1491 -> FloatOf(1000)[a - 1487]
      [] a \in 1496 .. 1499 -> FloatOf(8)[a - 1495]
      [] a \in 1500 .. 1503 -> FloatOf(5200)[a - 1499]
      [] OTHER -> 0]

MCImages == {MCBlank, MCUsed}
===============================================================================
