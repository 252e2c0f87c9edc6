----------------------------- MODULE EepromClient -----------------------------
(***************************************************************************)
(* The EEPROM library under a client that calls it in any order, with the  *)
(* power failing at any moment, and what such a client can rely on.        *)
(***************************************************************************)
EXTENDS Eeprom

CONSTANT Values    \* what this client stores

ASSUME ValuesAssumption == Values \subseteq Val

ClientInit == \E image \in [Addr -> Values] : EepromInit(image)

ClientNext == \/ Begin
              \/ \E a \in Addr, v \in Values : Put([x \in {a} |-> v])
              \/ \E a \in Addr, v \in Values : Write(a, v)
              \/ Commit
              \/ End
              \/ EepromStep
              \/ PowerOff

ClientSpec == ClientInit /\ [][ClientNext]_eepromVars

-------------------------------------------------------------------------------
\* A buffer that is not marked dirty is exactly what the sector holds, so
\* the early return of commit() on a clean buffer (EEPROM.cpp:102-103) never
\* skips a change, even after a commit that failed half way.
CleanMeansStored == Open /\ ~dirty => flash = data

\* The inductive companion of CleanMeansStored: a commit that has erased the
\* sector still holds the buffer it is going to program.
ErasedIsDirty == erased => Open /\ dirty /\ phase # "ready"

\* The sector as the running commit will leave it.
Durable == INSTANCE DurableStore
               WITH image    <- IF erased THEN data ELSE flash,
                    working  <- data,
                    settling <- erased

\* The library (EEPROM.cpp:41-117) keeps the promise of DurableStore: the
\* stored image changes as a whole and only by a commit, and it can be torn
\* only between the erase and the end of the programming.
DurableSpec == Durable!Spec
===============================================================================
