----------------------------- MODULE DurableStore -----------------------------
(***************************************************************************)
(* What a program may rely on when it keeps its data in the emulated       *)
(* EEPROM: a working copy it edits in RAM and an image that survives a     *)
(* power loss.  A commit replaces the whole image at once, but stays       *)
(* "settling" for a while: until it has settled a power loss, or a flash   *)
(* that refuses the write, may leave an image in which some cells are      *)
(* erased.  No step other than a commit changes the image.                 *)
(***************************************************************************)
CONSTANTS Addr,     \* the cells of the store
          Val,      \* what a cell can hold
          Blank,    \* what an erased cell reads as
          NoBuffer  \* the working copy of a store that is not open

VARIABLES image,    \* what the next power-up will load
          working,  \* the copy the program edits
          settling  \* a commit whose result is not yet safe

vars == <<image, working, settling>>

\* The images a spoilt commit of the working copy can leave behind.
Torn(copy) ==
    {[a \in Addr |-> IF a \in written THEN copy[a] ELSE Blank] :
        written \in SUBSET Addr}

Init == /\ image \in [Addr -> Val]
        /\ working = NoBuffer
        /\ settling = FALSE

Load == /\ ~settling
        /\ working' = image
        /\ UNCHANGED <<image, settling>>

Edit == /\ ~settling
        /\ working # NoBuffer
        /\ working' \in [Addr -> Val]
        /\ UNCHANGED <<image, settling>>

Commit == /\ ~settling
          /\ working # NoBuffer
          /\ image' = working
          /\ settling' = TRUE
          /\ UNCHANGED working

\* A settled commit may be the last thing done before the copy is dropped.
Settle == /\ settling
          /\ settling' = FALSE
          /\ working' \in {working, NoBuffer}
          /\ UNCHANGED image

Spoil == /\ settling
         /\ image' \in Torn(working)
         /\ settling' = FALSE
         /\ working' \in {working, NoBuffer}

\* The copy is dropped without being committed: end() or a power loss.
Drop == /\ ~settling
        /\ working' = NoBuffer
        /\ UNCHANGED <<image, settling>>

Next == Load \/ Edit \/ Commit \/ Settle \/ Spoil \/ Drop

Spec == Init /\ [][Next]_vars
===============================================================================
