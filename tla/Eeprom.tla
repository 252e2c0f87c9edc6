-------------------------------- MODULE Eeprom --------------------------------
(***************************************************************************)
(* The EEPROM library (src/EEPROM/EEPROM.cpp, EEPROM.h): one flash sector  *)
(* mirrored in a RAM buffer.  Writes go to the buffer, commit() erases the *)
(* sector and then programs the buffer into it.                            *)
(*                                                                         *)
(* `phase' says which library call is running, so that the power can fail  *)
(* between the erase and the end of the programming.  A client calls       *)
(* Commit or End and goes on when phase is "ready" again.                  *)
(***************************************************************************)
EXTENDS Naturals

CONSTANTS Addr,         \* the cells inside the size passed to begin()
          Blank,        \* what an erased cell reads as (all bits set)
          NoBuffer,     \* _data = 0, _size = 0
          FlashFails    \* may spi_flash_erase_sector / spi_flash_write fail?

Val == Nat

ASSUME EepromAssumption == /\ Addr # {}
                           /\ Blank \in Val
                           /\ NoBuffer \notin [Addr -> Val]
                           /\ FlashFails \in BOOLEAN

VARIABLES flash,    \* the sector
          data,     \* the buffer _data, or NoBuffer
          dirty,    \* _dirty
          phase,    \* "ready", or the call that is running
          erased    \* the running commit has erased the sector

eepromVars == <<flash, data, dirty, phase, erased>>

Open == data # NoBuffer

EepromTypeOK == /\ flash \in [Addr -> Val]
                /\ data \in [Addr -> Val] \cup {NoBuffer}
                /\ dirty \in BOOLEAN
                /\ phase \in {"ready", "commit", "end"}
                /\ erased \in BOOLEAN

\* What the sector can hold when programming the buffer did not finish.
Torn(buffer) ==
    {[a \in Addr |-> IF a \in written THEN buffer[a] ELSE Blank] :
        written \in SUBSET Addr}

-------------------------------------------------------------------------------
\* After a power-up, before begin().
EepromInit(image) == /\ flash = image
                     /\ data = NoBuffer
                     /\ dirty = FALSE
                     /\ phase = "ready"
                     /\ erased = FALSE

\* begin() reads the sector; it leaves _dirty as it was.
Begin == /\ phase = "ready"
         /\ data' = flash
         /\ UNCHANGED <<flash, dirty, phase, erased>>

\* The buffer after the bytes of `patch' (a function on some of the cells)
\* are copied into it.
Patched(patch) ==
    [a \in Addr |-> IF a \in DOMAIN patch THEN patch[a] ELSE data[a]]

\* put() sets _dirty whether or not the value changed; without a buffer it
\* does nothing.
Put(patch) ==
    /\ phase = "ready"
    /\ IF Open THEN data' = Patched(patch) /\ dirty' = TRUE
               ELSE UNCHANGED <<data, dirty>>
    /\ UNCHANGED <<flash, phase, erased>>

\* write() sets _dirty only when the byte differs.
Write(a, v) ==
    /\ phase = "ready"
    /\ IF Open /\ data[a] # v
         THEN data' = [data EXCEPT ![a] = v] /\ dirty' = TRUE
         ELSE UNCHANGED <<data, dirty>>
    /\ UNCHANGED <<flash, phase, erased>>

\* The calls of commit() and end().
Commit == /\ phase = "ready"
          /\ phase' = "commit"
          /\ UNCHANGED <<flash, data, dirty, erased>>

End == /\ phase = "ready"
       /\ phase' = "end"
       /\ UNCHANGED <<flash, data, dirty, erased>>

\* commit() comes back; end() frees the buffer whatever commit() answered.
Return == /\ phase' = "ready"
          /\ erased' = FALSE
          /\ data' = IF phase = "end" THEN NoBuffer ELSE data

\* No buffer, or nothing to write.
CommitReturnsAtOnce ==
    /\ phase # "ready" /\ ~erased
    /\ ~Open \/ ~dirty
    /\ Return
    /\ UNCHANGED <<flash, dirty>>

\* Slip: no check of _size and _data (EEPROM.cpp:100, :104).
EraseUnchecked == /\ phase # "ready" /\ ~erased
                  /\ dirty
                  /\ flash' = [a \in Addr |-> Blank]
                  /\ erased' = TRUE
                  /\ UNCHANGED <<data, dirty, phase>>

Erase == /\ phase # "ready" /\ ~erased
         /\ Open /\ dirty
         /\ flash' = [a \in Addr |-> Blank]
         /\ erased' = TRUE
         /\ UNCHANGED <<data, dirty, phase>>

\* The flash answers with an error before it has erased anything.
EraseFails == /\ FlashFails
              /\ phase # "ready" /\ ~erased
              /\ Open /\ dirty
              /\ Return
              /\ UNCHANGED <<flash, dirty>>

Program == /\ erased
           /\ flash' = data
           /\ dirty' = FALSE
           /\ Return

\* Slip: _dirty is reset whatever the flash answers.
ProgramFailsClean == /\ FlashFails
                     /\ erased
                     /\ flash' \in Torn(data)
                     /\ Return
                     /\ dirty' = FALSE

ProgramFails == /\ FlashFails
                /\ erased
                /\ flash' \in Torn(data)
                /\ Return
                /\ UNCHANGED dirty

\* The steps of a running commit() or end().
EepromStep == CommitReturnsAtOnce \/ Erase \/ EraseFails \/ Program \/ ProgramFails

\* The power fails: RAM is gone, and a sector that was being programmed is
\* left as it is.
PowerOff == /\ flash' \in IF erased THEN Torn(data) ELSE {flash}
            /\ data' = NoBuffer
            /\ dirty' = FALSE
            /\ phase' = "ready"
            /\ erased' = FALSE

===============================================================================
