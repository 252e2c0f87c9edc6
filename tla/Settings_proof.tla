---------------------------- MODULE Settings_proof ----------------------------
(***************************************************************************)
(* Proofs about Settings, for any settings, addresses and images of the    *)
(* EEPROM: the stored address of the FHEM host changes at once, every      *)
(* setting keeps its type, and the settings that share no byte come back   *)
(* after a restart, except for what an address of more than four parts     *)
(* overwrites.                                                             *)
(*                                                                         *)
(* A value that is entered comes back because the float that is stored for *)
(* a whole number below 2^23 is read as that number again (RoundTrip).     *)
(***************************************************************************)
EXTENDS Settings, WellFoundedInduction, TLAPS

HostAddr == {1504, 1506, 1508, 1510}

\* No setting shares a byte with the host's address.
LEMMA StoredAside ==
    ASSUME NEW name \in Setting, NEW f
    PROVE  DOMAIN Stored(name, f) \cap HostAddr = {}
<1>1. adresseEeprom[name] \in {1488, 1496, 1500, 1512, 1514}
    BY DEF Setting, adresseEeprom
<1>2. DOMAIN Stored(name, f) = adresseEeprom[name] .. adresseEeprom[name] + 3
    BY DEF Stored
<1>3. QED
    BY <1>1, <1>2 DEF HostAddr

\* Where the bytes of the host's address lie.
LEMMA HostIs ==
    ASSUME NEW image
    PROVE  /\ DOMAIN HostIn(image) = 1 .. 4
           /\ \A i \in 1 .. 4 : /\ HostIn(image)[i] = image[1504 + (i - 1) * 2]
                                /\ 1504 + (i - 1) * 2 \in HostAddr
<1>1. \A i \in 1 .. 4 : 1504 + (i - 1) * 2 \in HostAddr
    BY DEF HostAddr
<1>2. QED
    BY <1>1 DEF HostIn, adresseEepromFhemHost

LEMMA SameHost ==
    ASSUME NEW image, NEW other, \A a \in HostAddr : other[a] = image[a]
    PROVE  HostIn(other) = HostIn(image)
<1>1. \A i \in 1 .. 4 : other[1504 + (i - 1) * 2] = image[1504 + (i - 1) * 2]
    BY HostIs
<1>2. QED
    BY <1>1 DEF HostIn, adresseEepromFhemHost

LEMMA Replaced ==
    ASSUME NEW f, DOMAIN f = 1 .. 4, NEW i, NEW v
    PROVE  LET g == [f EXCEPT ![i] = v] IN g = [j \in 1 .. 4 |-> g[j]]
<1> DEFINE g == [f EXCEPT ![i] = v]
<1>1. g = [j \in 1 .. 4 |-> IF j = i THEN v ELSE f[j]]
    BY Zenon
<1>2. \A j \in 1 .. 4 : g[j] = IF j = i THEN v ELSE f[j]
    BY <1>1
<1> HIDE DEF g
<1>3. g = [j \in 1 .. 4 |-> g[j]]
    BY <1>1, <1>2
<1>4. QED
    BY <1>3 DEF g

-------------------------------------------------------------------------------
(* The open buffer holds the address that RAM holds, part by part.         *)

SettingsShape ==
    /\ DOMAIN flash = Addr
    /\ EEPROM!Open => DOMAIN data = Addr
    /\ DOMAIN fhemHost = 1 .. 4
    /\ tokens \in Seq(Byte) /\ Len(tokens) \in Nat /\ teil \in Nat

\* A commit runs between the changes, never during one.
CommitApart == /\ pc \in {"off", "ip"} => phase = "ready"
               /\ erased => phase # "ready" /\ EEPROM!Open

HostInBuffer == pc # "off" /\ EEPROM!Open => HostIn(data) = fhemHost

HostInv == SettingsShape /\ CommitApart /\ HostInBuffer

LEMMA HostInit == Init => HostInv
<1> SUFFICES ASSUME Init
             PROVE  HostInv
    OBVIOUS
<1>1. PICK image \in Images : EEPROM!EepromInit(image)
    BY DEF Init
<1>2. flash \in [Addr -> Byte] /\ data = NoBuffer /\ phase = "ready" /\ ~erased
    BY <1>1, InputsAssumption DEF EEPROM!EepromInit, InputsAssumption
<1>3. DOMAIN fhemHost = 1 .. 4 /\ tokens = <<>> /\ teil = 0 /\ pc = "off"
    BY DEF Init
<1>4. SettingsShape
    BY <1>2, <1>3 DEF SettingsShape, EEPROM!Open
<1>5. QED
    BY <1>2, <1>3, <1>4 DEF HostInv, CommitApart, HostInBuffer

\* A put() beside the address.
LEMMA PutAside ==
    ASSUME HostInv, NEW patch, DOMAIN patch \cap HostAddr = {},
           EEPROM!Put(patch), pc # "off", pc' \in {"commit", "delete"},
           UNCHANGED <<fhemHost, tokens, teil>>
    PROVE  HostInv'
<1>1. UNCHANGED <<flash, phase, erased>> /\ phase = "ready"
    BY DEF EEPROM!Put
<1>2. CASE EEPROM!Open
  <2>1. data' = [a \in Addr |-> IF a \in DOMAIN patch THEN patch[a] ELSE data[a]]
      BY <1>2 DEF EEPROM!Put, EEPROM!Patched
  <2>2. \A a \in HostAddr : data'[a] = data[a]
    <3>1. HostAddr \subseteq Addr
        BY DEF HostAddr, Addr
    <3>2. QED
        BY <2>1, <3>1
  <2>3. HostIn(data') = HostIn(data) /\ DOMAIN data' = Addr
      BY <2>1, <2>2, SameHost
  <2>4. HostIn(data) = fhemHost
      BY <1>2 DEF HostInv, HostInBuffer
  <2>5. QED
      BY <1>1, <2>3, <2>4 DEF HostInv, SettingsShape, CommitApart, HostInBuffer
<1>3. CASE ~EEPROM!Open
  <2>1. UNCHANGED data
      BY <1>3 DEF EEPROM!Put
  <2>2. ~EEPROM!Open'
      BY <1>3, <2>1 DEF EEPROM!Open
  <2>3. QED
      BY <1>1, <2>1, <2>2 DEF HostInv, SettingsShape, CommitApart, HostInBuffer
<1>4. QED
    BY <1>2, <1>3

\* What a part of an address does to the buffer.
LEMMA PartInBuffer ==
    ASSUME SetIpByte
    PROVE  LET a == 1504 + teil * 2
               byte == tokens[teil + 1]
           IN /\ pc = "ip" /\ phase = "ready" /\ teil < Len(tokens)
              /\ teil' = teil + 1 /\ UNCHANGED <<tokens, pc, flash, phase, erased>>
              /\ \/ UNCHANGED <<data, dirty>> /\ (a \in Addr /\ EEPROM!Open => data[a] = byte)
                 \/ /\ a \in Addr /\ EEPROM!Open
                    /\ data' = [data EXCEPT ![a] = byte] /\ dirty'
<1> DEFINE a == 1504 + teil * 2
           byte == tokens[teil + 1]
<1>1. /\ pc = "ip" /\ phase = "ready" /\ teil < Len(tokens)
      /\ teil' = teil + 1 /\ UNCHANGED <<tokens, pc>>
      /\ IF a \in Addr THEN EEPROM!Write(a, byte) ELSE UNCHANGED eeprom
    BY DEF SetIpByte, At, adresseEepromFhemHost
<1> HIDE DEF a, byte
<1>2. CASE a \in Addr
    BY <1>1, <1>2 DEF EEPROM!Write, a, byte
<1>3. CASE a \notin Addr
    BY <1>1, <1>3 DEF eeprom, a, byte
<1>4. QED
    BY <1>2, <1>3

\* One part of the address goes to RAM and to the buffer; a fifth one and
\* those behind it go to neither of the address's bytes.
LEMMA PartIsStored ==
    ASSUME HostInv, SetIpByte
    PROVE  HostInv'
<1> DEFINE i == teil + 1
           a == 1504 + teil * 2
           byte == tokens[i]
<1>1. /\ pc = "ip" /\ phase = "ready" /\ teil < Len(tokens)
      /\ teil' = teil + 1 /\ UNCHANGED <<tokens, pc, flash, phase, erased>>
      /\ \/ UNCHANGED data /\ (a \in Addr /\ EEPROM!Open => data[a] = byte)
         \/ a \in Addr /\ EEPROM!Open /\ data' = [data EXCEPT ![a] = byte]
    BY PartInBuffer
<1>2. \/ teil < 4 /\ fhemHost' = [fhemHost EXCEPT ![i] = byte]
      \/ teil >= 4 /\ UNCHANGED fhemHost
    BY DEF SetIpByte
<1>3. teil \in Nat /\ teil' \in Nat /\ i = teil + 1 /\ a = 1504 + (i - 1) * 2
    BY <1>1 DEF HostInv, SettingsShape
<1>4. EEPROM!Open' => EEPROM!Open
    BY <1>1 DEF EEPROM!Open
<1> HIDE DEF i, a, byte
<1>5. DOMAIN fhemHost' = 1 .. 4
    BY <1>2 DEF HostInv, SettingsShape
<1>6. ASSUME EEPROM!Open
      PROVE  DOMAIN data' = Addr /\ HostIn(data') = fhemHost'
  <2>1. DOMAIN data = Addr /\ HostIn(data) = fhemHost /\ DOMAIN fhemHost = 1 .. 4
      BY <1>1, <1>6 DEF HostInv, SettingsShape, HostInBuffer
  <2>2. DOMAIN data' = Addr /\ (a \in Addr => data'[a] = byte)
        /\ \A b \in Addr \ {a} : data'[b] = data[b]
      BY <1>1, <1>6, <2>1
  <2>3. CASE teil < 4
    <3>1. i \in 1 .. 4 /\ a \in Addr /\ fhemHost' = [fhemHost EXCEPT ![i] = byte]
        BY <1>2, <1>3, <2>3 DEF Addr
    <3>2. \A j \in 1 .. 4 : data'[1504 + (j - 1) * 2] = fhemHost'[j]
      <4>1. SUFFICES ASSUME NEW j \in 1 .. 4
                     PROVE  data'[1504 + (j - 1) * 2] = fhemHost'[j]
          OBVIOUS
      <4>2. CASE j = i
          BY <1>3, <2>1, <2>2, <3>1, <4>2
      <4>3. CASE j # i
        <5>1. 1504 + (j - 1) * 2 \in Addr \ {a}
            BY <1>3, <3>1, <4>3, HostIs DEF HostAddr, Addr
        <5>2. fhemHost'[j] = fhemHost[j] /\ fhemHost[j] = data[1504 + (j - 1) * 2]
            BY <2>1, <3>1, <4>3, HostIs
        <5>3. QED
            BY <2>2, <5>1, <5>2
      <4>4. QED
          BY <4>2, <4>3
    <3>3. fhemHost' = [j \in 1 .. 4 |-> fhemHost'[j]]
        BY <2>1, <3>1, Replaced
    <3>4. QED
        BY <2>2, <3>2, <3>3 DEF HostIn, adresseEepromFhemHost
  <2>4. CASE ~(teil < 4)
    <3>1. a \notin HostAddr /\ HostAddr \subseteq Addr /\ UNCHANGED fhemHost
        BY <1>2, <1>3, <2>4 DEF HostAddr, Addr
    <3>2. HostIn(data') = HostIn(data)
        BY <2>2, <3>1, SameHost
    <3>3. QED
        BY <2>1, <2>2, <3>1, <3>2
  <2>5. QED
      BY <2>3, <2>4
<1>7. QED
    BY <1>1, <1>3, <1>4, <1>5, <1>6 DEF HostInv, SettingsShape, CommitApart, HostInBuffer

\* The library works on its own.
LEMMA FlashKeepsHost ==
    ASSUME HostInv, Flash
    PROVE  HostInv'
<1>1. EEPROM!EepromStep /\ UNCHANGED <<fhemHost, tokens, teil, pc>>
    BY DEF Flash
<1>2. CASE EEPROM!CommitReturnsAtOnce
  <2>1. /\ flash' = flash /\ ~erased' /\ phase' = "ready" /\ (data' = data \/ data' = NoBuffer)
      BY <1>2 DEF EEPROM!CommitReturnsAtOnce, EEPROM!Return
  <2>2. QED
      BY <1>1, <2>1 DEF HostInv, SettingsShape, CommitApart, HostInBuffer, EEPROM!Open
<1>3. CASE EEPROM!Erase
  <2>1. /\ DOMAIN flash' = Addr /\ phase # "ready" /\ EEPROM!Open
        /\ UNCHANGED <<data, phase>>
      BY <1>3 DEF EEPROM!Erase
  <2>2. QED
      BY <1>1, <2>1 DEF HostInv, SettingsShape, CommitApart, HostInBuffer, EEPROM!Open
<1>4. CASE EEPROM!Program
  <2>1. /\ flash' = data /\ ~erased' /\ phase' = "ready" /\ (data' = data \/ data' = NoBuffer)
        /\ erased
      BY <1>4 DEF EEPROM!Program, EEPROM!Return
  <2>2. QED
      BY <1>1, <2>1 DEF HostInv, SettingsShape, CommitApart, HostInBuffer, EEPROM!Open
<1>5. QED
    BY <1>1, <1>2, <1>3, <1>4 DEF EEPROM!EepromStep, EEPROM!EraseFails, EEPROM!ProgramFails

LEMMA HostStep == HostInv /\ [Next]_vars => HostInv'
<1> SUFFICES ASSUME HostInv, [Next]_vars
             PROVE  HostInv'
    OBVIOUS
<1>1. CASE SetupEeprom
  <2>1. /\ data' = flash /\ fhemHost' = HostIn(flash) /\ DOMAIN HostIn(flash) = 1 .. 4
        /\ phase = "ready" /\ UNCHANGED <<flash, phase, erased, tokens, teil>> /\ pc' = "idle"
      BY <1>1, HostIs DEF SetupEeprom, EEPROM!Begin
  <2>2. QED
      BY <2>1 DEF HostInv, SettingsShape, CommitApart, HostInBuffer
<1>2. ASSUME NEW name \in Setting, NEW n, SetValue(name, n)
      PROVE  HostInv'
  <2>1. /\ EEPROM!Put(Stored(name, FloatOf(n))) /\ pc = "idle" /\ pc' = "commit"
        /\ UNCHANGED <<fhemHost, tokens, teil>>
      BY <1>2 DEF SetValue, At
  <2>2. QED
      BY <2>1, StoredAside, PutAside
<1>3. CASE DeletePut
  <2> DEFINE patch == [a \in 1488 .. 1490 |-> 0]
  <2>1. /\ EEPROM!Put(patch) /\ pc = "idle" /\ pc' = "delete"
        /\ UNCHANGED <<fhemHost, tokens, teil>>
      BY <1>3 DEF DeletePut, At
  <2>2. DOMAIN patch \cap HostAddr = {}
      BY DEF HostAddr
  <2> HIDE DEF patch
  <2>3. QED
      BY <2>1, <2>2, PutAside
<1>4. CASE SetIpByte
    BY <1>4, PartIsStored
<1>5. CASE CommitValue \/ DeleteCommit \/ DeleteEnd
    BY <1>5 DEF CommitValue, DeleteCommit, DeleteEnd, At, EEPROM!Commit, EEPROM!End,
                HostInv, SettingsShape, CommitApart, HostInBuffer, EEPROM!Open
<1>6. CASE SetIpCommit
  <2>1. tokens' = <<>> /\ teil' = 0 /\ pc = "ip" /\ pc' = "idle" /\ phase' = "commit"
        /\ phase = "ready" /\ UNCHANGED <<flash, data, erased, fhemHost>>
      BY <1>6 DEF SetIpCommit, At, EEPROM!Commit
  <2>2. tokens' \in Seq(Byte) /\ Len(tokens') = 0
      BY <2>1
  <2>3. QED
      BY <2>1, <2>2 DEF HostInv, SettingsShape, CommitApart, HostInBuffer, EEPROM!Open
<1>7. ASSUME NEW ip \in Addresses, SetIp(ip)
      PROVE  HostInv'
  <2>0. ip \in Seq(Byte) /\ Len(ip) \in 0 .. 10
      BY InputsAssumption, Zenon DEF InputsAssumption
  <2>1. ip \in Seq(Byte) /\ Len(ip) \in Nat
      BY <2>0
  <2>2. /\ tokens' = ip /\ teil' = 0 /\ pc = "idle" /\ pc' = "ip" /\ phase = "ready"
        /\ UNCHANGED <<fhemHost, flash, data, phase, erased>>
      BY <1>7 DEF SetIp, At, eeprom
  <2>3. QED
      BY <2>1, <2>2 DEF HostInv, SettingsShape, CommitApart, HostInBuffer, EEPROM!Open
<1>8. CASE Restart
  <2>1. /\ DOMAIN fhemHost' = 1 .. 4 /\ tokens' = <<>> /\ teil' = 0 /\ pc' = "off"
        /\ flash' = flash /\ data' = NoBuffer /\ phase' = "ready" /\ ~erased'
      BY <1>8 DEF Restart, RamLost, EEPROM!PowerOff
  <2>2. tokens' \in Seq(Byte) /\ Len(tokens') = 0
      BY <2>1
  <2>3. QED
      BY <2>1, <2>2 DEF HostInv, SettingsShape, CommitApart, HostInBuffer, EEPROM!Open
<1>9. CASE Flash
    BY <1>9, FlashKeepsHost
<1>10. CASE UNCHANGED vars
    BY <1>10 DEF vars, eeprom, HostInv, SettingsShape, CommitApart, HostInBuffer, EEPROM!Open
<1>11. QED
    BY <1>1, <1>2, <1>3, <1>4, <1>5, <1>6, <1>7, <1>8, <1>9, <1>10 DEF Next

\* What a step does to the stored address.
LEMMA HostChanges ==
    ASSUME HostInv, [Next]_vars, HostIn(flash') # HostIn(flash), ~erased'
    PROVE  erased /\ pc # "ip" /\ HostIn(flash') = fhemHost
<1>1. flash' # flash
    OBVIOUS
<1>2. Flash
    BY <1>1 DEF Next, vars, eeprom, SetupEeprom, SetValue, CommitValue, SetIp, SetIpByte,
                SetIpCommit, DeletePut, DeleteCommit, DeleteEnd, Restart,
                EEPROM!Begin, EEPROM!Put, EEPROM!Write, EEPROM!Commit, EEPROM!End,
                EEPROM!PowerOff
<1>3. EEPROM!Program
    BY <1>1, <1>2 DEF Flash, EEPROM!EepromStep, EEPROM!CommitReturnsAtOnce, EEPROM!Erase,
                      EEPROM!EraseFails, EEPROM!ProgramFails
<1>4. erased /\ flash' = data
    BY <1>3 DEF EEPROM!Program
<1>5. EEPROM!Open /\ pc \notin {"off", "ip"}
    BY <1>4 DEF HostInv, CommitApart
<1>6. QED
    BY <1>4, <1>5 DEF HostInv, HostInBuffer

\* The stored address of the FHEM host changes only when a commit() that no
\* change of the address overlaps programs the sector, and then to the address
\* in RAM (HostChangesAtOnce), for any addresses, settings and deletions
\* (websites.ino:191-199, functions.ino:91-103).
THEOREM HostIsStoredWhole == Spec => HostChangesAtOnce
<1>1. Init => HostInv
    BY HostInit
<1>2. HostInv /\ [Next]_vars => HostInv'
    BY HostStep
<1>3. HostInv /\ [Next]_vars =>
        [HostIn(flash') # HostIn(flash) /\ ~erased'
           => erased /\ pc # "ip" /\ HostIn(flash') = fhemHost]_vars
    BY HostChanges
<1>4. QED
    BY <1>1, <1>2, <1>3, PTL DEF Spec, HostChangesAtOnce

-------------------------------------------------------------------------------
(* Numbers.                                                                *)

\* A well-founded relation has a minimal element in every set (WFMin).
LEMMA Minimal ==
    \A R, S : IsWellFoundedOn(R, S) =>
        \A T : T \subseteq S => (T # {} => \E x \in T : \A y \in T : ~(<<y, x>> \in R))
  BY WFMin, Zenon

\* The least-number principle.
LEMMA Least ==
    ASSUME NEW S, S \subseteq Nat, S # {}
    PROVE  \E n \in S : \A m \in S : n <= m
<1>1. \A T : T \subseteq Nat => (T # {} =>
          \E x \in T : \A y \in T : ~(<<y, x>> \in OpToRel(<, Nat)))
    BY NatLessThanWellFounded, Minimal, Zenon
<1>2. PICK n \in S : \A m \in S : ~(<<m, n>> \in OpToRel(<, Nat))
    BY <1>1
<1>3. \A m \in S : ~(m < n)
    BY <1>2 DEF OpToRel
<1>4. QED
    BY <1>3

-------------------------------------------------------------------------------
(* Floats.                                                                 *)

LEMMA Powers ==
    ASSUME NEW e \in 0 .. 22
    PROVE  /\ 2^e \in Nat \ {0} /\ 2^(23 - e) \in Nat \ {0}
           /\ 2^e * 2^(23 - e) = 2^23
           /\ 2^(e + 1) = 2 * 2^e
<1>1. CASE e = 0
    BY <1>1, SMT
<1>2. CASE e = 1
    BY <1>2, SMT
<1>3. CASE e = 2
    BY <1>3, SMT
<1>4. CASE e = 3
    BY <1>4, SMT
<1>5. CASE e = 4
    BY <1>5, SMT
<1>6. CASE e = 5
    BY <1>6, SMT
<1>7. CASE e = 6
    BY <1>7, SMT
<1>8. CASE e = 7
    BY <1>8, SMT
<1>9. CASE e = 8
    BY <1>9, SMT
<1>10. CASE e = 9
    BY <1>10, SMT
<1>11. CASE e = 10
    BY <1>11, SMT
<1>12. CASE e = 11
    BY <1>12, SMT
<1>13. CASE e = 12
    BY <1>13, SMT
<1>14. CASE e = 13
    BY <1>14, SMT
<1>15. CASE e = 14
    BY <1>15, SMT
<1>16. CASE e = 15
    BY <1>16, SMT
<1>17. CASE e = 16
    BY <1>17, SMT
<1>18. CASE e = 17
    BY <1>18, SMT
<1>19. CASE e = 18
    BY <1>19, SMT
<1>20. CASE e = 19
    BY <1>20, SMT
<1>21. CASE e = 20
    BY <1>21, SMT
<1>22. CASE e = 21
    BY <1>22, SMT
<1>23. CASE e = 22
    BY <1>23, SMT
<1>24. QED
    BY <1>1, <1>2, <1>3, <1>4, <1>5, <1>6, <1>7, <1>8, <1>9, <1>10, <1>11, <1>12, <1>13, <1>14, <1>15, <1>16, <1>17, <1>18, <1>19, <1>20, <1>21, <1>22, <1>23, SMT

\* Division with a remainder.
LEMMA Quotient ==
    ASSUME NEW m \in Nat \ {0}, NEW q \in Nat, NEW r \in 0 .. m - 1
    PROVE  (m * q + r) \div m = q /\ (m * q + r) % m = r
  OBVIOUS

LEMMA LowByte ==
    ASSUME NEW y \in Nat
    PROVE  \E q \in Nat, r \in Byte : y = 256 * q + r
<1>1. /\ y \div 256 \in Nat /\ y % 256 \in 0 .. 255
      /\ y = 256 * (y \div 256) + (y % 256)
    BY SMT
<1>2. QED
    BY <1>1, SMT DEF Byte

\* Exponent and mantissa, read from the bytes of a word.
LEMMA Bits ==
    ASSUME NEW b \in Nat
    PROVE  LET f1 == b % 256
               f2 == (b \div 256) % 256
               f3 == (b \div 65536) % 256
               f4 == b \div 16777216
           IN /\ f4 * 2 + f3 \div 128 = b \div 2^23
              /\ (f3 % 128) * 65536 + f2 * 256 + f1 = b % 2^23
<1>1. PICK q1 \in Nat, f1 \in 0 .. 255 : b = 256 * q1 + f1
    BY LowByte DEF Byte
<1>2. PICK q2 \in Nat, f2 \in 0 .. 255 : q1 = 256 * q2 + f2
    BY LowByte DEF Byte
<1>3. PICK q3 \in Nat, f3 \in 0 .. 255 : q2 = 256 * q3 + f3
    BY LowByte DEF Byte
<1>4. PICK g \in 0 .. 1, h \in 0 .. 127 : f3 = 128 * g + h
  <2>1. /\ f3 \div 128 \in 0 .. 1 /\ f3 % 128 \in 0 .. 127
        /\ f3 = 128 * (f3 \div 128) + (f3 % 128)
      BY SMT
  <2>2. QED
      BY <2>1, SMT
<1>5. b % 256 = f1 /\ b \div 256 = q1 /\ q1 % 256 = f2
    BY <1>1, <1>2, SMT
<1>6. b \div 65536 = q2 /\ q2 % 256 = f3
    BY <1>1, <1>2, <1>3, SMT
<1>7. b \div 16777216 = q3
    BY <1>1, <1>2, <1>3, SMT
<1>8. f3 \div 128 = g /\ f3 % 128 = h
    BY <1>4, SMT
<1>9. b = 8388608 * (2 * q3 + g) + (65536 * h + 256 * f2 + f1)
    BY <1>1, <1>2, <1>3, <1>4, SMT
<1>10. b \div 8388608 = 2 * q3 + g /\ b % 8388608 = 65536 * h + 256 * f2 + f1
    BY <1>9, SMT
<1>11. QED
    BY <1>5, <1>6, <1>7, <1>8, <1>10, SMT

\* The power of two that a number lies above.
LEMMA Magnitude ==
    ASSUME NEW n \in 1 .. 2^23 - 1
    PROVE  \E k \in 0 .. 22 : 2^k <= n /\ n < 2^(k + 1)
<1> DEFINE S == {k \in 0 .. 22 : n < 2^(k + 1)}
<1>1. 22 \in S /\ S \subseteq Nat
  <2>1. n < 2^(22 + 1)
      BY SMT
  <2>2. QED
      BY <2>1, SMT
<1>2. PICK k \in S : \A m \in S : k <= m
    BY <1>1, Least
<1>3. CASE k = 0
  <2>1. 2^0 <= n
      BY SMT
  <2>2. QED
      BY <1>2, <1>3, <2>1
<1>4. CASE k # 0
  <2>1. k - 1 \in 0 .. 22 /\ k - 1 \notin S /\ (k - 1) + 1 = k
      BY <1>2, <1>4, SMT
  <2>2. 2^k \in Nat
      BY Powers
  <2>3. ~(n < 2^((k - 1) + 1))
      BY <2>1
  <2>4. 2^k <= n
      BY <2>1, <2>2, <2>3, SMT
  <2>5. QED
      BY <1>2, <2>4
<1>5. QED
    BY <1>3, <1>4

\* The bytes of a word.
Word(b) == [i \in 1 .. 4 |-> (b \div 256^(i - 1)) % 256]

LEMMA WordIs ==
    ASSUME NEW b \in 0 .. 2^31 - 1
    PROVE  LET f == Word(b)
           IN /\ f \in Float /\ f[4] < 128
              /\ Exponent(f) = b \div 2^23
              /\ Mantissa(f) = b % 2^23
<1> DEFINE f == Word(b)
<1>1. /\ f[1] = (b \div 256^(1 - 1)) % 256
      /\ f[2] = (b \div 256^(2 - 1)) % 256
      /\ f[3] = (b \div 256^(3 - 1)) % 256
      /\ f[4] = (b \div 256^(4 - 1)) % 256
    BY DEF Word
<1>2. /\ f[1] = b % 256
      /\ f[2] = (b \div 256) % 256
      /\ f[3] = (b \div 65536) % 256
      /\ f[4] = (b \div 16777216) % 256
  <2>1. 256^(1 - 1) = 1 /\ 256^(2 - 1) = 256 /\ 256^(3 - 1) = 65536 /\ 256^(4 - 1) = 16777216
      BY SMT
  <2>2. b \div 1 = b
      BY SMT
  <2> HIDE DEF f
  <2>3. QED
      BY <1>1, <2>1, <2>2
<1>3. b \in Nat /\ b \div 16777216 \in 0 .. 127
    BY SMT
<1>4. f[4] = b \div 16777216 /\ f[4] \in 0 .. 127 /\ f[4] % 128 = f[4]
  <2> HIDE DEF f
  <2>1. QED
      BY <1>2, <1>3, SMT
<1>5. f \in [1 .. 4 -> Byte]
  <2>1. \A i \in 1 .. 4 : f[i] \in Byte
    <3>1. f[1] \in Byte /\ f[2] \in Byte /\ f[3] \in Byte /\ f[4] \in Byte
      <4> HIDE DEF f
      <4>1. QED
          BY <1>2, <1>3, <1>4, SMT DEF Byte
    <3> HIDE DEF f
    <3>2. QED
        BY <3>1
  <2>2. f = [i \in 1 .. 4 |-> f[i]]
      BY DEF Word
  <2> HIDE DEF f
  <2>3. QED
      BY <2>1, <2>2
<1> HIDE DEF f
<1>6. Exponent(f) = b \div 2^23 /\ Mantissa(f) = b % 2^23
    BY <1>2, <1>3, <1>4, Bits, SMT DEF Exponent, Mantissa
<1>7. QED
    BY <1>4, <1>5, <1>6 DEF f, Float

\* A positive whole number, in the form that memcpy() stores.
LEMMA FloatIs ==
    ASSUME NEW n \in 1 .. 2^23 - 1
    PROVE  \E e \in 0 .. 22 :
              /\ FloatOf(n) \in Float
              /\ FloatOf(n)[4] < 128
              /\ Exponent(FloatOf(n)) = 127 + e
              /\ Mantissa(FloatOf(n)) = (n - 2^e) * 2^(23 - e)
              /\ 2^e <= n
<1> DEFINE e == CHOOSE k \in 0 .. 22 : 2^k <= n /\ n < 2^(k + 1)
           low == (n - 2^e) * 2^(23 - e)
           bits == (127 + e) * 2^23 + low
<1>1. e \in 0 .. 22 /\ 2^e <= n /\ n < 2^(e + 1)
    BY Magnitude
<1>2. FloatOf(n) = Word(bits)
    BY SMT DEF FloatOf, Word
<1> HIDE DEF e
<1>3. low \in 0 .. 2^23 - 1
  <2>1. PICK p \in Nat : p = 2^e
      BY <1>1, Powers
  <2>2. PICK q \in Nat \ {0} : q = 2^(23 - e)
      BY <1>1, Powers
  <2>3. p * q = 2^23 /\ p <= n /\ n < 2 * p
      BY <1>1, <2>1, <2>2, Powers
  <2>4. PICK d \in Nat : n = p + d /\ d < p
    <3>1. n - p \in Nat /\ n = p + (n - p) /\ n - p < p
        BY <2>1, <2>3, SMT
    <3>2. QED
        BY <3>1
  <2>5. d * q \in Nat /\ d * q < p * q
      BY <2>1, <2>2, <2>4, SMT
  <2>6. low = d * q
      BY <2>1, <2>2, <2>4, SMT
  <2>7. QED
      BY <2>3, <2>5, <2>6, SMT
<1> HIDE DEF low
<1>4. /\ bits \in 0 .. 2^31 - 1
      /\ bits \div 2^23 = 127 + e
      /\ bits % 2^23 = low
    BY <1>1, <1>3, SMT
<1> HIDE DEF bits
<1>5. QED
    BY <1>1, <1>2, <1>4, WordIs DEF low

\* What is stored as a float comes back as the number it was.
LEMMA RoundTrip ==
    ASSUME NEW n \in 1 .. 2^23 - 1
    PROVE  Positive(FloatOf(n)) /\ Trunc(FloatOf(n)) = n
<1> DEFINE f == FloatOf(n)
<1>1. PICK e \in 0 .. 22 : /\ f[4] < 128
                          /\ Exponent(f) = 127 + e
                          /\ Mantissa(f) = (n - 2^e) * 2^(23 - e)
                          /\ 2^e <= n
    BY FloatIs
<1> HIDE DEF f
<1>2. Exponent(Zero) = 0
    BY SMT DEF Exponent, Zero
<1>3. Positive(f)
    BY <1>1, <1>2, SMT DEF Positive
<1>4. Trunc(f) = (2^23 + (n - 2^e) * 2^(23 - e)) \div 2^(150 - (127 + e))
    BY <1>1, SMT DEF Trunc
<1>5. 150 - (127 + e) = 23 - e
    BY SMT
<1>6. PICK p \in Nat : p = 2^e
    BY <1>1, Powers
<1>7. PICK q \in Nat \ {0} : q = 2^(23 - e)
    BY <1>1, Powers
<1>8. 2^23 + (n - p) * q = q * n + 0
  <2>1. p * q = 2^23
      BY <1>6, <1>7, Powers
  <2>2. PICK d \in Nat : n = p + d
    <3>1. n - p \in Nat /\ n = p + (n - p)
        BY <1>1, <1>6, SMT
    <3>2. QED
        BY <3>1
  <2>3. q * n = p * q + d * q /\ n - p = d
      BY <2>2, SMT
  <2>4. QED
      BY <2>1, <2>3, SMT
<1>9. (q * n + 0) \div q = n
    BY Quotient, SMT
<1>10. QED
    BY <1>3, <1>4, <1>5, <1>6, <1>7, <1>8, <1>9 DEF f

\* The zero of a setting that is a float.
LEMMA FloatType ==
    ASSUME NEW n \in 0 .. 2^23 - 1
    PROVE  FloatOf(n) \in Float
<1>1. CASE n = 0
    BY <1>1, SMT DEF FloatOf, Zero, Float, Byte
<1>2. CASE n # 0
  <2>1. n \in 1 .. 2^23 - 1
      BY <1>2, SMT
  <2>2. QED
      BY <2>1, FloatIs
<1>3. QED
    BY <1>1, <1>2

\* A stored float is no negative number.
LEMMA TruncType ==
    ASSUME NEW f \in Float
    PROVE  Trunc(f) \in Nat
<1>1. Exponent(f) \in Nat /\ Mantissa(f) \in Nat
  <2>1. f[1] \in Nat /\ f[2] \in Nat /\ f[3] \in Nat /\ f[4] \in Nat
      BY SMT DEF Float, Byte
  <2>2. \A f1, f2, f3, f4 \in Nat : /\ (f4 % 128) * 2 + f3 \div 128 \in Nat
                                    /\ (f3 % 128) * 65536 + f2 * 256 + f1 \in Nat
      BY SMT
  <2>3. QED
      BY <2>1, <2>2, SMT DEF Exponent, Mantissa
<1>2. CASE Exponent(f) < 127
    BY <1>2, SMT DEF Trunc
<1>3. CASE Exponent(f) >= 150
    BY <1>1, <1>3, SMT DEF Trunc
<1>4. CASE Exponent(f) \in 127 .. 149
  <2> DEFINE e == Exponent(f) - 127
  <2>1. e \in 0 .. 22 /\ 150 - Exponent(f) = 23 - e
      BY <1>4, SMT
  <2>2. Trunc(f) = (2^23 + Mantissa(f)) \div 2^(23 - e)
      BY <1>4, <2>1, SMT DEF Trunc
  <2>3. PICK q \in Nat \ {0} : q = 2^(23 - e)
      BY <2>1, Powers
  <2>4. PICK m \in Nat : m = 2^23 + Mantissa(f)
      BY <1>1, SMT
  <2>5. m \div q \in Nat
      BY SMT
  <2>6. QED
      BY <2>2, <2>3, <2>4, <2>5
<1>5. QED
    BY <1>1, <1>2, <1>3, <1>4, SMT

-------------------------------------------------------------------------------
(* Settings in an image of the EEPROM.                                     *)

Image == [Addr -> Byte]

\* Settings that no other one shares a byte with.
Apart == {"impulseProKwh", "compensation", "generatorLeistung"}

\* A port as setup.ino accepts it.
PortsInRange == Inputs["fhemPort"] \subseteq 0 .. 2^16 - 2

\* No impulses at all would be read back as the default.
SomeImpulses == 0 \notin Inputs["impulseProKwh"]

LEMMA Entered ==
    ASSUME NEW name \in Setting, NEW n \in Inputs[name]
    PROVE  n \in 0 .. 2^23 - 1
  BY InputsAssumption, Zenon DEF InputsAssumption

\* Where the settings lie.
LEMMA AddressIs ==
    ASSUME NEW name \in Setting
    PROVE  /\ adresseEeprom[name] \in {1488, 1496, 1500, 1512, 1514}
           /\ \A i \in 1 .. 4 : adresseEeprom[name] + i - 1 \in Addr
<1>1. adresseEeprom[name] \in {1488, 1496, 1500, 1512, 1514}
    BY DEF Setting, adresseEeprom
<1>2. QED
    BY <1>1 DEF Addr

LEMMA FloatAtType ==
    ASSUME NEW image \in Image, NEW name \in Setting
    PROVE  FloatAt(image, adresseEeprom[name]) \in Float
<1>1. \A i \in 1 .. 4 : image[adresseEeprom[name] + i - 1] \in Byte
    BY AddressIs DEF Image
<1>2. QED
    BY <1>1 DEF FloatAt, Float

LEMMA HostInType ==
    ASSUME NEW image \in Image
    PROVE  HostIn(image) \in [1 .. 4 -> Byte]
<1>1. \A i \in 1 .. 4 : image[1504 + (i - 1) * 2] \in Byte
    BY DEF Image, Addr
<1>2. QED
    BY <1>1 DEF HostIn, adresseEepromFhemHost

Values == [compensation : Float, offset : Float, impulseProKwh : Nat,
           generatorLeistung : Nat, fhemPort : 0 .. 2^16 - 2]

ValueOf(name) == IF name \in Floats THEN Float
                 ELSE IF name = "fhemPort" THEN 0 .. 2^16 - 2 ELSE Nat

LEMMA ValueIs ==
    /\ ValueOf("compensation") = Float /\ ValueOf("offset") = Float
    /\ ValueOf("impulseProKwh") = Nat /\ ValueOf("generatorLeistung") = Nat
    /\ ValueOf("fhemPort") = 0 .. 2^16 - 2
  BY SMT DEF ValueOf, Floats

LEMMA ValuesAre ==
    ASSUME NEW v, v = [name \in Setting |-> v[name]],
           \A name \in Setting : v[name] \in ValueOf(name)
    PROVE  v \in Values
<1>1. /\ v.compensation \in ValueOf("compensation") /\ v.offset \in ValueOf("offset")
      /\ v.impulseProKwh \in ValueOf("impulseProKwh")
      /\ v.generatorLeistung \in ValueOf("generatorLeistung")
      /\ v.fhemPort \in ValueOf("fhemPort")
    BY SMT DEF Setting
<1>2. \A P, F : /\ v.compensation \in F /\ v.offset \in F
                /\ v.impulseProKwh \in Nat /\ v.generatorLeistung \in Nat
                /\ v.fhemPort \in P
                => v \in [compensation : F, offset : F, impulseProKwh : Nat,
                          generatorLeistung : Nat, fhemPort : P]
    BY SMT DEF Setting
<1>3. QED
    BY <1>1, <1>2, ValueIs DEF Values

LEMMA ZeroType == Zero \in Float
  BY SMT DEF Zero, Float, Byte

LEMMA DefaultType == \A name \in Setting : Default[name] \in ValueOf(name)
<1>1. /\ Default["impulseProKwh"] = 1000 /\ Default["compensation"] = Zero
      /\ Default["generatorLeistung"] = 0 /\ Default["fhemPort"] = 8383
      /\ Default["offset"] = Zero
    BY SMT DEF Default
<1>2. PICK m \in Nat, port \in 0 .. 2^16 - 2 : m = 1000 /\ port = 8383
    BY SMT
<1>3. port \in ValueOf("fhemPort") /\ m \in ValueOf("impulseProKwh")
    BY ValueIs, Zenon
<1>4. 0 \in ValueOf("generatorLeistung")
    BY ValueIs
<1>5. Zero \in ValueOf("compensation") /\ Zero \in ValueOf("offset")
    BY ZeroType, ValueIs
<1>6. Default["fhemPort"] = port /\ Default["impulseProKwh"] = m
    BY <1>1, <1>2, SMT
<1>7. QED
    BY <1>1, <1>3, <1>4, <1>5, <1>6 DEF Setting

LEMMA RestoredType ==
    ASSUME NEW image \in Image, NEW name \in Setting
    PROVE  Restored(image, name) \in ValueOf(name)
<1> DEFINE f == FloatAt(image, adresseEeprom[name])
<1>1. f \in Float /\ Trunc(f) \in Nat
    BY FloatAtType, TruncType
<1>2. Default[name] \in ValueOf(name)
    BY DefaultType
<1> HIDE DEF f
<1>3. Accepted(name, f) => Trunc(f) \in 0 .. 2^16 - 2 \/ name # "fhemPort"
    BY <1>1, SMT DEF Accepted
<1>4. Restored(image, name) = IF ~Accepted(name, f) THEN Default[name]
                              ELSE IF name \in Floats THEN f ELSE Trunc(f)
    BY DEF Restored, f
<1>5. "fhemPort" \notin Floats
    BY DEF Floats
<1>6. CASE ~Accepted(name, f)
    BY <1>2, <1>4, <1>6
<1>7. CASE Accepted(name, f) /\ name \in Floats
    BY <1>1, <1>4, <1>7, ValueIs DEF Floats
<1>8. CASE Accepted(name, f) /\ name \notin Floats
  <2>1. Restored(image, name) = Trunc(f)
      BY <1>4, <1>8
  <2>2. CASE name = "fhemPort"
      BY <1>3, <1>8, <2>1, <2>2, ValueIs
  <2>3. CASE name # "fhemPort"
      BY <1>1, <1>8, <2>1, <2>3 DEF ValueOf
  <2>4. QED
      BY <2>2, <2>3
<1>9. QED
    BY <1>6, <1>7, <1>8

\* A setting is restored from its own four bytes.
LEMMA SameSetting ==
    ASSUME NEW image, NEW other, NEW name \in Setting,
           \A i \in 1 .. 4 : other[adresseEeprom[name] + i - 1]
                               = image[adresseEeprom[name] + i - 1]
    PROVE  Restored(other, name) = Restored(image, name)
<1>1. FloatAt(other, adresseEeprom[name]) = FloatAt(image, adresseEeprom[name])
    BY DEF FloatAt
<1>2. QED
    BY <1>1 DEF Restored

\* Storing a setting leaves the others apart.
LEMMA StoredBeside ==
    ASSUME NEW name \in Setting, NEW f, NEW other \in Apart, other # name, NEW i \in 1 .. 4
    PROVE  adresseEeprom[other] + i - 1 \notin DOMAIN Stored(name, f)
<1>1. DOMAIN Stored(name, f) = adresseEeprom[name] .. adresseEeprom[name] + 3
    BY DEF Stored
<1>2. QED
    BY <1>1 DEF Apart, Setting, adresseEeprom

\* What has been stored for a setting is restored.
LEMMA StoredIsRestored ==
    ASSUME NEW name \in Apart, NEW n \in 0 .. 2^23 - 1, n # 0 \/ name # "impulseProKwh",
           NEW image, \A i \in 1 .. 4 : image[adresseEeprom[name] + i - 1] = FloatOf(n)[i]
    PROVE  Restored(image, name) = IF name \in Floats THEN FloatOf(n) ELSE n
<1>1. FloatOf(n) \in Float
    BY FloatType
<1>2. FloatAt(image, adresseEeprom[name]) = FloatOf(n)
  <2>1. FloatOf(n) = [i \in 1 .. 4 |-> FloatOf(n)[i]]
      BY <1>1 DEF Float
  <2>2. QED
      BY <2>1 DEF FloatAt
<1>3. name # "fhemPort"
    BY DEF Apart
<1>4. CASE n = 0
  <2>1. FloatOf(n) = Zero
      BY <1>4 DEF FloatOf
  <2>2. ~Accepted(name, FloatOf(n))
      BY <2>1 DEF Accepted, Positive
  <2>3. QED
      BY <1>2, <1>4, <2>1, <2>2, SMT DEF Restored, Default, Apart, Floats
<1>5. CASE n # 0
  <2>1. n \in 1 .. 2^23 - 1
      BY <1>5, SMT
  <2>2. Positive(FloatOf(n)) /\ Trunc(FloatOf(n)) = n
      BY <2>1, RoundTrip
  <2>3. Accepted(name, FloatOf(n))
      BY <1>3, <2>2, SMT DEF Accepted
  <2>4. QED
      BY <1>2, <2>2, <2>3 DEF Restored
<1>6. QED
    BY <1>4, <1>5

-------------------------------------------------------------------------------
(* What is set is stored.                                                  *)

Bytewise ==
    /\ wert = [name \in Setting |-> wert[name]]
    /\ flash \in Image
    /\ data \in Image \cup {NoBuffer}

\* An open buffer without changes is what the sector holds.
CleanIsStored ==
    /\ EEPROM!Open /\ ~dirty => flash = data
    /\ dirty => EEPROM!Open
    /\ erased => dirty /\ phase # "ready"

\* When which call runs, and when there is something to commit.
Calls == /\ phase = "end" => pc = "idle"
         /\ phase = "commit" => pc \in {"idle", "deleteEnd"}
         /\ phase \in {"ready", "commit", "end"}
         /\ dirty /\ phase = "ready" => pc \in {"commit", "ip", "delete"}
         /\ pc = "off" => ~EEPROM!Open

\* Except while the table is deleted, the buffer holds the settings of RAM
\* that nothing was written over.
Kept == EEPROM!Open /\ phase # "end" /\ pc \in {"idle", "commit", "ip"} =>
            \A name \in Apart :
                (beyond => name \notin Floats) => Restored(data, name) = wert[name]

SettingsInv == Bytewise /\ CleanIsStored /\ Calls /\ Kept

LEMMA ImageNumbers == Image \subseteq [Addr -> Nat] /\ NoBuffer \notin Image
<1>1. Image \subseteq [Addr -> Nat]
    BY DEF Image, Byte
<1>2. NoBuffer \notin [Addr -> Nat]
    BY InputsAssumption DEF InputsAssumption
<1>3. QED
    BY <1>1, <1>2

LEMMA BlankImage == [a \in Addr |-> Blank] \in Image
  BY DEF Image, Byte, Blank

LEMMA ApartAreSettings == Apart \subseteq Setting
  BY DEF Apart, Setting

LEMMA SettingsInit == Init => SettingsInv
<1> SUFFICES ASSUME Init
             PROVE  SettingsInv
    OBVIOUS
<1>1. PICK image \in Images : EEPROM!EepromInit(image)
    BY DEF Init
<1>2. flash \in Image
    BY <1>1, InputsAssumption DEF EEPROM!EepromInit, InputsAssumption, Image
<1>3. data = NoBuffer /\ phase = "ready" /\ ~dirty /\ ~erased
    BY <1>1 DEF EEPROM!EepromInit
<1>4. wert = [name \in Setting |-> wert[name]]
  <2>1. wert = Globals
      BY DEF Init
  <2>2. Globals = [name \in Setting |-> Globals[name]]
      BY SMT DEF Globals, Default, Setting
  <2>3. QED
      BY <2>1, <2>2
<1>5. pc = "off"
    BY DEF Init
<1>6. QED
    BY <1>2, <1>3, <1>4, <1>5
       DEF SettingsInv, Bytewise, CleanIsStored, Calls, Kept, EEPROM!Open

\* setupEeprom() reads the buffer, and the settings from it.
LEMMA SettingsSetup ==
    ASSUME SettingsInv, HostInv, SetupEeprom
    PROVE  SettingsInv'
<1>1. /\ pc = "off" /\ pc' = "idle" /\ phase = "ready"
      /\ data' = flash /\ UNCHANGED <<flash, dirty, phase, erased>>
      /\ wert' = [name \in Setting |-> Restored(flash, name)]
    BY DEF SetupEeprom, EEPROM!Begin
<1>2. flash \in Image /\ ~dirty /\ ~erased
    BY <1>1 DEF SettingsInv, Bytewise, CleanIsStored, Calls
<1>3. EEPROM!Open'
    BY <1>1, <1>2, ImageNumbers DEF EEPROM!Open
<1>4. Bytewise'
    BY <1>1, <1>2 DEF Bytewise
<1>5. Kept'
    BY <1>1, ApartAreSettings DEF Kept
<1>6. QED
    BY <1>1, <1>2, <1>3, <1>4, <1>5 DEF SettingsInv, CleanIsStored, Calls

\* A buffer after a put().
LEMMA PatchedIs ==
    ASSUME Bytewise, EEPROM!Open, NEW patch, NEW i,
           \A a \in Addr \cap DOMAIN patch : patch[a] \in Byte
    PROVE  /\ EEPROM!Patched(patch) \in Image
           /\ \A a \in Addr : EEPROM!Patched(patch)[a] =
                  IF a \in DOMAIN patch THEN patch[a] ELSE data[a]
<1>1. data \in Image
    BY DEF Bytewise, EEPROM!Open
<1>2. EEPROM!Patched(patch) = [a \in Addr |-> IF a \in DOMAIN patch THEN patch[a] ELSE data[a]]
    BY DEF EEPROM!Patched
<1>3. QED
    BY <1>1, <1>2 DEF Image

\* A new value of a setting goes to RAM and to the buffer.
LEMMA SettingsSet ==
    ASSUME SomeImpulses, SettingsInv,
           NEW name \in Setting, NEW n \in Inputs[name], SetValue(name, n)
    PROVE  SettingsInv'
<1> DEFINE value == IF name \in Floats THEN FloatOf(n) ELSE n
           patch == Stored(name, FloatOf(n))
<1>1. /\ pc = "idle" /\ pc' = "commit" /\ phase = "ready"
      /\ wert' = [wert EXCEPT ![name] = value]
      /\ EEPROM!Put(patch) /\ UNCHANGED beyond
    BY DEF SetValue, At
<1>2. UNCHANGED <<flash, phase, erased>>
    BY <1>1 DEF EEPROM!Put
<1>3. n \in 0 .. 2^23 - 1 /\ FloatOf(n) \in Float
    BY Entered, FloatType
<1>4. ~dirty /\ ~erased
    BY <1>1 DEF SettingsInv, CleanIsStored, Calls
<1> HIDE DEF value
<1>5. /\ wert' = [x \in Setting |-> wert'[x]]
      /\ wert'[name] = value
      /\ \A x \in Setting \ {name} : wert'[x] = wert[x]
  <2>1. wert = [x \in Setting |-> wert[x]]
      BY DEF SettingsInv, Bytewise
  <2>2. wert' = [x \in Setting |-> IF x = name THEN value ELSE wert[x]]
      BY <1>1, <2>1
  <2>3. QED
      BY <2>2
<1>6. CASE ~EEPROM!Open
  <2>1. UNCHANGED <<data, dirty>> /\ ~EEPROM!Open'
      BY <1>1, <1>6 DEF EEPROM!Put, EEPROM!Open
  <2>2. QED
      BY <1>1, <1>2, <1>4, <1>5, <1>6, <2>1
         DEF SettingsInv, Bytewise, CleanIsStored, Calls, Kept
<1>7. CASE EEPROM!Open
  <2>1. data' = EEPROM!Patched(patch) /\ dirty'
      BY <1>1, <1>7 DEF EEPROM!Put
  <2>2. /\ DOMAIN patch = adresseEeprom[name] .. adresseEeprom[name] + 3
        /\ \A i \in 1 .. 4 : patch[adresseEeprom[name] + i - 1] = FloatOf(n)[i]
        /\ \A a \in DOMAIN patch : patch[a] \in Byte
    <3>1. adresseEeprom[name] \in Nat
        BY AddressIs
    <3>2. PICK base \in Nat : base = adresseEeprom[name]
        BY <3>1
    <3>3. patch = [a \in base .. base + 3 |-> FloatOf(n)[a - base + 1]]
        BY <3>2 DEF Stored
    <3>4. \A i \in 1 .. 4 : FloatOf(n)[i] \in Byte
        BY <1>3 DEF Float
    <3>5. \A i \in 1 .. 4 : base + i - 1 \in base .. base + 3 /\ base + i - 1 - base + 1 = i
        BY SMT
    <3>6. \A a \in base .. base + 3 : a - base + 1 \in 1 .. 4
        BY SMT
    <3> HIDE DEF patch
    <3>7. DOMAIN patch = base .. base + 3
        BY <3>3
    <3>8. \A i \in 1 .. 4 : patch[base + i - 1] = FloatOf(n)[i]
        BY <3>3, <3>5
    <3>9. \A a \in DOMAIN patch : patch[a] \in Byte
        BY <3>3, <3>4, <3>6, <3>7
    <3>10. QED
        BY <3>2, <3>7, <3>8, <3>9
  <2> HIDE DEF patch
  <2>3. /\ data' \in Image
        /\ \A a \in Addr : data'[a] = IF a \in DOMAIN patch THEN patch[a] ELSE data[a]
      BY <1>7, <2>1, <2>2, PatchedIs DEF SettingsInv
  <2>4. EEPROM!Open'
      BY <2>3, ImageNumbers DEF EEPROM!Open
  <2>5. Bytewise'
      BY <1>2, <1>5, <2>3 DEF SettingsInv, Bytewise
  <2>6. ASSUME NEW other \in Apart, other # name, beyond => other \notin Floats
        PROVE  Restored(data', other) = wert'[other]
    <3>1. \A i \in 1 .. 4 : adresseEeprom[other] + i - 1 \in Addr
        BY AddressIs, ApartAreSettings
    <3>2. \A i \in 1 .. 4 : adresseEeprom[other] + i - 1 \notin DOMAIN patch
        BY <2>6, StoredBeside DEF patch
    <3>3. \A i \in 1 .. 4 : data'[adresseEeprom[other] + i - 1] = data[adresseEeprom[other] + i - 1]
        BY <2>3, <3>1, <3>2
    <3>4. Restored(data', other) = Restored(data, other)
        BY <3>3, SameSetting, ApartAreSettings
    <3>5. Restored(data, other) = wert[other]
        BY <1>1, <1>7, <2>6 DEF SettingsInv, Kept
    <3>6. QED
        BY <1>5, <2>6, <3>4, <3>5, ApartAreSettings
  <2>7. ASSUME name \in Apart
        PROVE  Restored(data', name) = wert'[name]
    <3>1. \A i \in 1 .. 4 : /\ adresseEeprom[name] + i - 1 \in Addr
                            /\ adresseEeprom[name] + i - 1 \in DOMAIN patch
        BY <2>2, AddressIs
    <3>2. \A i \in 1 .. 4 : data'[adresseEeprom[name] + i - 1] = FloatOf(n)[i]
        BY <2>2, <2>3, <3>1
    <3>3. n # 0 \/ name # "impulseProKwh"
        BY DEF SomeImpulses
    <3>4. Restored(data', name) = IF name \in Floats THEN FloatOf(n) ELSE n
        BY <1>3, <2>7, <3>2, <3>3, StoredIsRestored
    <3>5. QED
        BY <1>5, <3>4 DEF value
  <2>8. Kept'
      BY <1>1, <2>6, <2>7 DEF Kept
  <2>9. QED
      BY <1>1, <1>2, <1>4, <2>1, <2>4, <2>5, <2>8
         DEF SettingsInv, CleanIsStored, Calls
<1>8. QED
    BY <1>6, <1>7

\* A part of the address lies behind the settings that are read back; the
\* fifth and those behind it may change a float in RAM.
LEMMA SettingsIpByte ==
    ASSUME SettingsInv, HostInv, SetIpByte
    PROVE  SettingsInv'
<1> DEFINE a == 1504 + teil * 2
           byte == tokens[teil + 1]
<1>1. /\ pc = "ip" /\ pc' = "ip" /\ phase = "ready" /\ teil < Len(tokens)
      /\ UNCHANGED <<flash, phase, erased>>
      /\ \/ UNCHANGED <<data, dirty>>
         \/ a \in Addr /\ EEPROM!Open /\ data' = [data EXCEPT ![a] = byte] /\ dirty'
    BY PartInBuffer
<1>2. UNCHANGED <<flash, phase, erased>>
    BY <1>1
<1>3. byte \in Byte /\ a \in Int /\ a >= 1504
  <2>1. tokens \in Seq(Byte) /\ Len(tokens) \in Nat /\ teil \in Nat
      BY DEF HostInv, SettingsShape
  <2>2. QED
      BY <1>1, <2>1
<1>4. \/ UNCHANGED <<wert, beyond>>
      \/ WriteBehindHost(byte) /\ beyond'
    BY DEF SetIpByte
<1> HIDE DEF a, byte
<1>5. ASSUME NEW name \in Apart, beyond' => name \notin Floats
      PROVE  wert'[name] = wert[name] /\ (beyond => name \notin Floats)
  <2>1. CASE UNCHANGED <<wert, beyond>>
      BY <1>5, <2>1
  <2>2. CASE WriteBehindHost(byte) /\ beyond'
    <3>1. name \notin Floats
        BY <1>5, <2>2
    <3>2. CASE UNCHANGED wert
        BY <3>1, <3>2
    <3>3. ASSUME NEW other \in Floats, NEW f, wert' = [wert EXCEPT ![other] = f]
          PROVE  wert'[name] = wert[name]
      <4>1. name # other
          BY <3>1
      <4>2. wert = [x \in Setting |-> wert[x]] /\ name \in Setting
          BY ApartAreSettings DEF SettingsInv, Bytewise
      <4>3. QED
          BY <3>3, <4>1, <4>2
    <3>4. QED
        BY <2>2, <3>1, <3>2, <3>3 DEF WriteBehindHost
  <2>3. QED
      BY <1>4, <2>1, <2>2
<1>6. wert' = [x \in Setting |-> wert'[x]]
  <2>1. wert = [x \in Setting |-> wert[x]]
      BY DEF SettingsInv, Bytewise
  <2>2. ASSUME NEW name, NEW f, wert' = [wert EXCEPT ![name] = f]
        PROVE  wert' = [x \in Setting |-> wert'[x]]
      BY <2>1, <2>2
  <2>3. QED
      BY <1>4, <2>1, <2>2 DEF WriteBehindHost
<1>7. CASE UNCHANGED <<data, dirty>>
  <2>1. UNCHANGED EEPROM!Open
      BY <1>7 DEF EEPROM!Open
  <2>2. Kept'
      BY <1>1, <1>5, <1>7, <2>1 DEF SettingsInv, Kept
  <2>3. QED
      BY <1>1, <1>2, <1>6, <1>7, <2>1, <2>2
         DEF SettingsInv, Bytewise, CleanIsStored, Calls
<1>8. CASE a \in Addr /\ EEPROM!Open /\ data' = [data EXCEPT ![a] = byte] /\ dirty'
  <2>1. data \in Image
      BY <1>8 DEF SettingsInv, Bytewise, EEPROM!Open
  <2>2. data' \in Image /\ \A b \in Addr \ {a} : data'[b] = data[b]
      BY <1>3, <1>8, <2>1 DEF Image
  <2>3. EEPROM!Open'
      BY <2>2, ImageNumbers DEF EEPROM!Open
  <2>4. ASSUME NEW name \in Apart, beyond' => name \notin Floats
        PROVE  Restored(data', name) = wert'[name]
    <3>1. \A i \in 1 .. 4 : adresseEeprom[name] + i - 1 \in Addr \ {a}
      <4>1. adresseEeprom[name] \in {1488, 1496, 1500}
          BY DEF Apart, adresseEeprom
      <4>2. QED
          BY <1>3, <4>1 DEF Addr
    <3>2. Restored(data', name) = Restored(data, name)
        BY <2>2, <3>1, SameSetting, ApartAreSettings
    <3>3. wert'[name] = wert[name] /\ (beyond => name \notin Floats)
        BY <1>5, <2>4
    <3>4. Restored(data, name) = wert[name]
        BY <1>1, <1>8, <3>3 DEF SettingsInv, Kept
    <3>5. QED
        BY <3>2, <3>3, <3>4
  <2>5. Kept'
      BY <2>4 DEF Kept
  <2>6. QED
      BY <1>1, <1>2, <1>6, <1>8, <2>2, <2>3, <2>5
         DEF SettingsInv, Bytewise, CleanIsStored, Calls
<1>9. QED
    BY <1>1, <1>7, <1>8

\* The deletion of the table, which reaches into the first setting.
LEMMA SettingsDelete ==
    ASSUME SettingsInv, DeletePut
    PROVE  SettingsInv'
<1> DEFINE patch == [a \in 1488 .. 1490 |-> 0]
<1>1. /\ pc = "idle" /\ pc' = "delete" /\ phase = "ready"
      /\ EEPROM!Put(patch) /\ UNCHANGED <<wert, beyond>>
    BY DEF DeletePut, At
<1>2. \A a \in Addr \cap DOMAIN patch : patch[a] \in Byte
    BY DEF Byte
<1> HIDE DEF patch
<1>3. UNCHANGED <<flash, phase, erased>>
    BY <1>1 DEF EEPROM!Put
<1>4. CASE ~EEPROM!Open /\ UNCHANGED <<data, dirty>>
    BY <1>1, <1>3, <1>4
       DEF SettingsInv, Bytewise, CleanIsStored, Calls, Kept, EEPROM!Open
<1>5. CASE EEPROM!Open /\ data' = EEPROM!Patched(patch) /\ dirty'
  <2>1. data' \in Image
      BY <1>2, <1>5, PatchedIs DEF SettingsInv
  <2>2. EEPROM!Open'
      BY <2>1, ImageNumbers DEF EEPROM!Open
  <2>3. QED
      BY <1>1, <1>3, <1>5, <2>1, <2>2
         DEF SettingsInv, Bytewise, CleanIsStored, Calls, Kept
<1>6. QED
    BY <1>1, <1>4, <1>5 DEF EEPROM!Put

\* The library works on its own.
LEMMA SettingsFlash ==
    ASSUME SettingsInv, HostInv, Flash
    PROVE  SettingsInv'
<1>1. EEPROM!EepromStep /\ UNCHANGED <<wert, beyond, pc>>
    BY DEF Flash
<1>2. pc \notin {"off", "ip"} \/ phase = "ready"
    BY DEF HostInv, CommitApart
<1>3. CASE EEPROM!CommitReturnsAtOnce
  <2>1. /\ phase # "ready" /\ ~erased /\ (~EEPROM!Open \/ ~dirty)
        /\ phase' = "ready" /\ ~erased' /\ UNCHANGED <<flash, dirty>>
        /\ data' = IF phase = "end" THEN NoBuffer ELSE data
      BY <1>3 DEF EEPROM!CommitReturnsAtOnce, EEPROM!Return
  <2>2. ~dirty
      BY <2>1 DEF SettingsInv, CleanIsStored
  <2>3. QED
      BY <1>1, <1>2, <2>1, <2>2
         DEF SettingsInv, Bytewise, CleanIsStored, Calls, Kept, EEPROM!Open
<1>4. CASE EEPROM!Erase
  <2>1. /\ phase # "ready" /\ EEPROM!Open /\ dirty /\ erased'
        /\ flash' = [a \in Addr |-> Blank] /\ UNCHANGED <<data, dirty, phase>>
      BY <1>4 DEF EEPROM!Erase
  <2>2. flash' \in Image
      BY <2>1, BlankImage
  <2>3. QED
      BY <1>1, <1>2, <2>1, <2>2
         DEF SettingsInv, Bytewise, CleanIsStored, Calls, Kept, EEPROM!Open
<1>5. CASE EEPROM!Program
  <2>1. /\ erased /\ phase' = "ready" /\ ~erased' /\ ~dirty' /\ flash' = data
        /\ data' = IF phase = "end" THEN NoBuffer ELSE data
      BY <1>5 DEF EEPROM!Program, EEPROM!Return
  <2>2. phase # "ready" /\ EEPROM!Open /\ data \in Image
      BY <2>1 DEF SettingsInv, CleanIsStored, Bytewise, EEPROM!Open
  <2>3. QED
      BY <1>1, <1>2, <2>1, <2>2
         DEF SettingsInv, Bytewise, CleanIsStored, Calls, Kept, EEPROM!Open
<1>6. QED
    BY <1>1, <1>3, <1>4, <1>5 DEF EEPROM!EepromStep, EEPROM!EraseFails, EEPROM!ProgramFails

LEMMA SettingsStep ==
    ASSUME SomeImpulses, SettingsInv, HostInv, [Next]_vars
    PROVE  SettingsInv'
<1>1. CASE SetupEeprom
    BY <1>1, SettingsSetup
<1>2. ASSUME NEW name \in Setting, NEW n \in Inputs[name], SetValue(name, n)
      PROVE  SettingsInv'
    BY <1>2, SettingsSet
<1>3. CASE SetIpByte
    BY <1>3, SettingsIpByte
<1>4. CASE DeletePut
    BY <1>4, SettingsDelete
<1>5. CASE CommitValue \/ DeleteCommit \/ SetIpCommit
  <2>1. /\ phase = "ready" /\ phase' = "commit" /\ UNCHANGED <<flash, data, dirty, erased, wert, beyond>>
        /\ \/ pc = "delete" /\ pc' = "deleteEnd"
           \/ pc \in {"commit", "ip"} /\ pc' = "idle"
      BY <1>5 DEF CommitValue, DeleteCommit, SetIpCommit, At, EEPROM!Commit
  <2>2. QED
      BY <2>1 DEF SettingsInv, Bytewise, CleanIsStored, Calls, Kept, EEPROM!Open
<1>6. CASE DeleteEnd
    BY <1>6 DEF DeleteEnd, At, EEPROM!End,
                SettingsInv, Bytewise, CleanIsStored, Calls, Kept, EEPROM!Open
<1>7. ASSUME NEW ip \in Addresses, SetIp(ip)
      PROVE  SettingsInv'
    BY <1>7 DEF SetIp, At, eeprom,
                SettingsInv, Bytewise, CleanIsStored, Calls, Kept, EEPROM!Open
<1>8. CASE Restart
  <2>1. /\ pc' = "off" /\ wert' = Globals
        /\ flash' = flash /\ data' = NoBuffer /\ ~dirty' /\ phase' = "ready" /\ ~erased'
      BY <1>8 DEF Restart, RamLost, EEPROM!PowerOff
  <2>2. Globals = [name \in Setting |-> Globals[name]]
      BY SMT DEF Globals, Default, Setting
  <2>3. QED
      BY <2>1, <2>2 DEF SettingsInv, Bytewise, CleanIsStored, Calls, Kept, EEPROM!Open
<1>9. CASE Flash
    BY <1>9, SettingsFlash
<1>10. CASE UNCHANGED vars
    BY <1>10 DEF vars, eeprom, SettingsInv, Bytewise, CleanIsStored, Calls, Kept, EEPROM!Open
<1>11. QED
    BY <1>1, <1>2, <1>3, <1>4, <1>5, <1>6, <1>7, <1>8, <1>9, <1>10 DEF Next

\* While the logger waits with an open EEPROM, a restart brings back the
\* settings of RAM that share no byte with another (setup.ino:201-250,
\* functions.ino:91-103), in whatever order they are entered, deleted and
\* restarted, and whatever addresses are entered, except for a float that an
\* address of more than four parts has gone over in RAM (websites.ino:191-197,
\* see SettingsSurvive).  A counter constant of 0 is the one input that is
\* stored, but read back as 1000 (setup.ino:202-205).
THEOREM SettingsComeBack ==
    ASSUME SomeImpulses
    PROVE  Spec => []SettingsSurvive
<1>1. Init => SettingsInv /\ HostInv
    BY SettingsInit, HostInit
<1>2. SettingsInv /\ HostInv /\ [Next]_vars => (SettingsInv /\ HostInv)'
    BY SettingsStep, HostStep
<1>3. SettingsInv /\ HostInv => SettingsSurvive
  <2> SUFFICES ASSUME SettingsInv, HostInv, At("idle"), EEPROM!Open
               PROVE  /\ \A name \in Apart :
                           (beyond => name \notin Floats)
                              => Restored(flash, name) = wert[name]
                      /\ HostIn(flash) = fhemHost
      BY DEF SettingsSurvive, Apart
  <2>1. pc = "idle" /\ phase = "ready"
      BY DEF At
  <2>2. flash = data
      BY <2>1 DEF SettingsInv, CleanIsStored, Calls
  <2>3. QED
      BY <2>1, <2>2 DEF SettingsInv, Kept, HostInv, HostInBuffer
<1>4. QED
    BY <1>1, <1>2, <1>3, PTL DEF Spec

-------------------------------------------------------------------------------
(* Types.                                                                  *)

Typed == /\ wert \in Values
         /\ beyond \in BOOLEAN
         /\ fhemHost \in [1 .. 4 -> Byte]
         /\ teil <= Len(tokens)
         /\ pc \in {"off", "idle", "commit", "ip", "delete", "deleteEnd"}

\* The types of SettingsInv, which hold whatever is entered.
TypeInv == Bytewise /\ Typed /\ HostInv

LEMMA GlobalsType == Globals \in Values
<1>1. \A name \in Setting : Globals[name] \in ValueOf(name)
  <2>1. /\ Globals["generatorLeistung"] = 1
        /\ \A name \in Setting \ {"generatorLeistung"} : Globals[name] = Default[name]
      BY SMT DEF Globals, Default, Setting
  <2>2. 1 \in ValueOf("generatorLeistung")
      BY ValueIs
  <2>3. QED
      BY <2>1, <2>2, DefaultType
<1>2. Globals = [name \in Setting |-> Globals[name]]
    BY SMT DEF Globals, Default, Setting
<1>3. QED
    BY <1>1, <1>2, ValuesAre

LEMMA NoHost == <<0, 0, 0, 0>> \in [1 .. 4 -> Byte]
  BY SMT DEF Byte

LEMMA TypeInit == Init => TypeInv
<1> SUFFICES ASSUME Init
             PROVE  TypeInv
    OBVIOUS
<1>1. Bytewise /\ HostInv
    BY SettingsInit, HostInit DEF SettingsInv
<1>2. wert = Globals /\ fhemHost = <<0, 0, 0, 0>> /\ tokens = <<>> /\ teil = 0 /\ pc = "off"
    BY DEF Init
<1>3. teil <= Len(tokens)
    BY <1>2
<1>4. beyond \in BOOLEAN
    BY DEF Init
<1>5. QED
    BY <1>1, <1>2, <1>3, <1>4, GlobalsType, NoHost DEF TypeInv, Typed

LEMMA WriteStep ==
    ASSUME TypeInv, UNCHANGED wert,
           NEW a \in 1488 .. 1519, NEW v \in Byte, EEPROM!Write(a, v)
    PROVE  Bytewise'
  BY DEF TypeInv, EEPROM!Write, EEPROM!Open, Bytewise, Image, Addr

\* What a step may do to the sector and the buffer.
LEMMA BytesStep ==
    ASSUME TypeInv, UNCHANGED wert,
           \/ EEPROM!EepromStep
           \/ EEPROM!Commit \/ EEPROM!End
           \/ \E patch : EEPROM!Put(patch) /\ \A a \in Addr \cap DOMAIN patch : patch[a] \in Byte
           \/ UNCHANGED eeprom
    PROVE  Bytewise'
<1>1. flash \in Image /\ data \in Image \cup {NoBuffer} /\ Bytewise
    BY DEF TypeInv, Bytewise
<1>2. CASE EEPROM!EepromStep
  <2>1. erased => EEPROM!Open
      BY DEF TypeInv, HostInv, CommitApart
  <2>2. data' \in {data, NoBuffer}
      BY <1>2 DEF EEPROM!EepromStep, EEPROM!CommitReturnsAtOnce, EEPROM!Return, EEPROM!Erase,
                  EEPROM!EraseFails, EEPROM!Program, EEPROM!ProgramFails
  <2>3. \/ flash' = flash
        \/ flash' = [a \in Addr |-> Blank]
        \/ erased /\ flash' = data
      BY <1>2 DEF EEPROM!EepromStep, EEPROM!CommitReturnsAtOnce, EEPROM!Erase,
                  EEPROM!EraseFails, EEPROM!Program, EEPROM!ProgramFails
  <2>4. flash' \in Image
      BY <1>1, <2>1, <2>3, BlankImage DEF EEPROM!Open
  <2>5. QED
      BY <1>1, <2>2, <2>4 DEF Bytewise
<1>3. CASE EEPROM!Commit \/ EEPROM!End \/ UNCHANGED eeprom
    BY <1>1, <1>3 DEF EEPROM!Commit, EEPROM!End, eeprom, Bytewise
<1>4. ASSUME NEW patch, EEPROM!Put(patch), \A a \in Addr \cap DOMAIN patch : patch[a] \in Byte
      PROVE  Bytewise'
    BY <1>1, <1>4, PatchedIs DEF EEPROM!Put, Bytewise
<1>5. QED
    BY <1>2, <1>3, <1>4

LEMMA ValuesHave ==
    ASSUME NEW v \in Values
    PROVE  \A name \in Setting : v[name] \in ValueOf(name)
<1>1. \A P, F : v \in [compensation : F, offset : F, impulseProKwh : Nat,
                      generatorLeistung : Nat, fhemPort : P]
          => /\ v["compensation"] \in F /\ v["offset"] \in F
             /\ v["impulseProKwh"] \in Nat /\ v["generatorLeistung"] \in Nat
             /\ v["fhemPort"] \in P
    BY SMT
<1>2. PICK P : P = 0 .. 2^16 - 2
    OBVIOUS
<1>3. /\ v["compensation"] \in Float /\ v["offset"] \in Float
      /\ v["impulseProKwh"] \in Nat /\ v["generatorLeistung"] \in Nat
      /\ v["fhemPort"] \in P
  <2>1. v \in [compensation : Float, offset : Float, impulseProKwh : Nat,
               generatorLeistung : Nat, fhemPort : P]
      BY <1>2, Zenon DEF Values
  <2>2. QED
      BY <1>1, <2>1
<1>4. ValueOf("fhemPort") = P
    BY <1>2, ValueIs
<1>5. QED
    BY <1>3, <1>4, ValueIs DEF Setting

LEMMA StoredBytes ==
    ASSUME NEW name \in Setting, NEW f \in Float
    PROVE  \A a \in DOMAIN Stored(name, f) : Stored(name, f)[a] \in Byte
<1>1. PICK base \in Nat : base = adresseEeprom[name]
    BY AddressIs
<1>2. Stored(name, f) = [a \in base .. base + 3 |-> f[a - base + 1]]
    BY <1>1 DEF Stored
<1>3. \A a \in base .. base + 3 : a - base + 1 \in 1 .. 4
    BY SMT
<1>4. QED
    BY <1>2, <1>3 DEF Float

LEMMA BeyondType ==
    ASSUME beyond \in BOOLEAN, [Next]_vars
    PROVE  beyond' \in BOOLEAN
<1>1. CASE SetupEeprom \/ SetIpByte \/ SetIpCommit
    BY <1>1 DEF SetupEeprom, SetIpByte, SetIpCommit
<1>2. ASSUME NEW name \in Setting, NEW n, SetValue(name, n)
      PROVE  beyond' \in BOOLEAN
    BY <1>2 DEF SetValue
<1>3. ASSUME NEW ip, SetIp(ip)
      PROVE  beyond' \in BOOLEAN
    BY <1>3 DEF SetIp
<1>4. CASE CommitValue \/ DeletePut \/ DeleteCommit \/ DeleteEnd
    BY <1>4 DEF CommitValue, DeletePut, DeleteCommit, DeleteEnd
<1>5. CASE Restart \/ Flash \/ UNCHANGED vars
    BY <1>5 DEF Restart, RamLost, Flash, vars
<1>6. QED
    BY <1>1, <1>2, <1>3, <1>4, <1>5 DEF Next

LEMMA TypeStep ==
    ASSUME PortsInRange, TypeInv, [Next]_vars
    PROVE  TypeInv'
<1>0. beyond' \in BOOLEAN
    BY BeyondType DEF TypeInv, Typed
<1>1. HostInv'
    BY HostStep DEF TypeInv
<1>2. /\ Bytewise /\ Typed /\ flash \in Image
      /\ tokens \in Seq(Byte) /\ Len(tokens) \in Nat /\ teil \in Nat
    BY DEF TypeInv, Bytewise, HostInv, SettingsShape
<1>3. CASE SetupEeprom
  <2>1. /\ data' = flash /\ flash' = flash /\ pc' = "idle" /\ UNCHANGED <<tokens, teil>>
        /\ wert' = [name \in Setting |-> Restored(flash, name)] /\ fhemHost' = HostIn(flash)
      BY <1>3 DEF SetupEeprom, EEPROM!Begin
  <2>2. wert' \in Values
      BY <1>2, <2>1, RestoredType, ValuesAre
  <2>3. QED
      BY <1>0, <1>1, <1>2, <2>1, <2>2, HostInType DEF TypeInv, Typed, Bytewise
<1>4. ASSUME NEW name \in Setting, NEW n \in Inputs[name], SetValue(name, n)
      PROVE  TypeInv'
  <2> DEFINE value == IF name \in Floats THEN FloatOf(n) ELSE n
             patch == Stored(name, FloatOf(n))
  <2>1. /\ wert' = [wert EXCEPT ![name] = value] /\ EEPROM!Put(patch)
        /\ pc' = "commit" /\ UNCHANGED <<fhemHost, tokens, teil>>
      BY <1>4 DEF SetValue
  <2>2. n \in 0 .. 2^23 - 1 /\ n \in Nat /\ FloatOf(n) \in Float
    <3>1. n \in 0 .. 2^23 - 1
        BY Entered
    <3>2. n \in Nat
        BY <3>1, SMT
    <3>3. QED
        BY <3>1, <3>2, FloatType
  <2>3. value \in ValueOf(name)
    <3>1. CASE name \in Floats
        BY <2>2, <3>1 DEF ValueOf
    <3>2. CASE name = "fhemPort"
      <4>1. name \notin Floats
          BY <3>2 DEF Floats
      <4>2. n \in 0 .. 2^16 - 2
          BY <3>2, Zenon DEF PortsInRange
      <4>3. QED
          BY <3>2, <4>1, <4>2, Zenon DEF ValueOf
    <3>3. CASE name \notin Floats /\ name # "fhemPort"
        BY <2>2, <3>3 DEF ValueOf
    <3>4. QED
        BY <3>1, <3>2, <3>3
  <2>4. \A a \in DOMAIN patch : patch[a] \in Byte
      BY <2>2, StoredBytes
  <2> HIDE DEF value, patch
  <2>5. \A x \in Setting : wert[x] \in ValueOf(x)
      BY <1>2, ValuesHave DEF Typed
  <2>6. wert' = [x \in Setting |-> wert'[x]] /\ \A x \in Setting : wert'[x] \in ValueOf(x)
    <3>1. wert = [x \in Setting |-> wert[x]]
        BY <1>2 DEF Bytewise
    <3>2. wert' = [x \in Setting |-> IF x = name THEN value ELSE wert[x]]
        BY <2>1, <3>1
    <3>3. QED
        BY <2>3, <2>5, <3>2
  <2>7. wert' \in Values
      BY <2>6, ValuesAre
  <2>8. flash' = flash /\ data' \in Image \cup {NoBuffer}
      BY <1>2, <2>1, <2>4, PatchedIs DEF EEPROM!Put, Bytewise
  <2>9. QED
      BY <1>0, <1>1, <1>2, <2>1, <2>6, <2>7, <2>8 DEF TypeInv, Typed, Bytewise
<1>5. CASE SetIpByte
  <2> DEFINE byte == tokens[teil + 1]
             a == 1504 + teil * 2
  <2>1. /\ teil < Len(tokens) /\ teil' = teil + 1 /\ UNCHANGED <<tokens, pc>>
        /\ UNCHANGED flash
        /\ \/ UNCHANGED data
           \/ a \in Addr /\ EEPROM!Open /\ data' = [data EXCEPT ![a] = byte]
      BY <1>5, PartInBuffer
  <2>2. byte \in Byte
      BY <1>2, <2>1
  <2>3. /\ \/ teil < 4 /\ fhemHost' = [fhemHost EXCEPT ![teil + 1] = byte]
              /\ UNCHANGED wert
           \/ WriteBehindHost(byte) /\ UNCHANGED fhemHost
      BY <1>5 DEF SetIpByte
  <2> HIDE DEF byte, a
  <2>4. flash' \in Image /\ data' \in Image \cup {NoBuffer}
    <3>1. data \in Image \cup {NoBuffer} /\ (EEPROM!Open => data \in Image)
        BY <1>2 DEF Bytewise, EEPROM!Open
    <3>2. ASSUME data \in Image, a \in Addr, data' = [data EXCEPT ![a] = byte]
          PROVE  data' \in Image
        BY <2>2, <3>2 DEF Image
    <3>3. QED
        BY <1>2, <2>1, <3>1, <3>2
  <2>5. wert' \in Values /\ wert' = [name \in Setting |-> wert'[name]]
    <3>1. CASE UNCHANGED wert
        BY <1>2, <3>1 DEF Typed, Bytewise
    <3>2. CASE WriteBehindHost(byte) /\ ~UNCHANGED wert
      <4>1. PICK name \in Floats, k \in 1 .. 4 :
              wert' = [wert EXCEPT ![name] = [@ EXCEPT ![k] = byte]]
          BY <3>2 DEF WriteBehindHost
      <4>2. wert[name] \in Float
          BY <1>2 DEF Typed, Values, Floats
      <4>3. [wert[name] EXCEPT ![k] = byte] \in Float
          BY <2>2, <4>2 DEF Float
      <4> DEFINE float == [wert[name] EXCEPT ![k] = byte]
      <4>4. wert' = [wert EXCEPT ![name] = float]
          BY <4>1
      <4> HIDE DEF float
      <4>5. float \in Float /\ wert \in Values /\ name \in Floats
          BY <1>2, <4>3 DEF float, Typed
      <4>6. wert' \in Values
          BY <4>4, <4>5 DEF Values, Floats
      <4>7. wert = [n \in Setting |-> wert[n]]
          BY <1>2 DEF Bytewise
      <4>8. wert' = [n \in Setting |-> wert'[n]]
          BY <4>4, <4>7
      <4>9. QED
          BY <4>6, <4>8
    <3>3. QED
        BY <2>3, <3>1, <3>2
  <2>6. Bytewise'
      BY <2>4, <2>5 DEF Bytewise
  <2>7. fhemHost' \in [1 .. 4 -> Byte]
    <3>1. CASE teil < 4 /\ fhemHost' = [fhemHost EXCEPT ![teil + 1] = byte]
        BY <1>2, <2>2, <3>1 DEF Typed
    <3>2. CASE UNCHANGED fhemHost
        BY <1>2, <3>2 DEF Typed
    <3>3. QED
        BY <2>3, <3>1, <3>2
  <2>8. teil' <= Len(tokens')
      BY <1>2, <2>1
  <2>9. QED
      BY <1>0, <1>1, <1>2, <2>1, <2>5, <2>6, <2>7, <2>8 DEF TypeInv, Typed
<1>6. CASE DeletePut
  <2> DEFINE patch == [a \in 1488 .. 1490 |-> 0]
  <2>1. EEPROM!Put(patch) /\ pc' = "delete" /\ UNCHANGED <<wert, fhemHost, tokens, teil>>
      BY <1>6 DEF DeletePut
  <2>2. \A a \in Addr \cap DOMAIN patch : patch[a] \in Byte
      BY DEF Byte
  <2> HIDE DEF patch
  <2>3. Bytewise'
      BY <2>1, <2>2, BytesStep
  <2>4. QED
      BY <1>0, <1>1, <1>2, <2>1, <2>3 DEF TypeInv, Typed
<1>7. CASE CommitValue \/ DeleteCommit \/ DeleteEnd
  <2>1. /\ EEPROM!Commit \/ EEPROM!End
        /\ pc' \in {"idle", "deleteEnd"} /\ UNCHANGED <<wert, fhemHost, tokens, teil>>
      BY <1>7 DEF CommitValue, DeleteCommit, DeleteEnd
  <2>2. Bytewise'
      BY <2>1, BytesStep
  <2>3. QED
      BY <1>0, <1>1, <1>2, <2>1, <2>2 DEF TypeInv, Typed
<1>8. CASE SetIpCommit
  <2>1. /\ EEPROM!Commit /\ tokens' = <<>> /\ teil' = 0 /\ pc' = "idle"
        /\ UNCHANGED <<wert, fhemHost>>
      BY <1>8 DEF SetIpCommit
  <2>2. Bytewise'
      BY <2>1, BytesStep
  <2>3. teil' <= Len(tokens')
      BY <2>1
  <2>4. QED
      BY <1>0, <1>1, <1>2, <2>1, <2>2, <2>3 DEF TypeInv, Typed
<1>9. ASSUME NEW ip \in Addresses, SetIp(ip)
      PROVE  TypeInv'
  <2>0. ip \in Seq(Byte) /\ Len(ip) \in 0 .. 10
      BY InputsAssumption, Zenon DEF InputsAssumption
  <2>1. ip \in Seq(Byte) /\ Len(ip) \in Nat
      BY <2>0
  <2>2. tokens' = ip /\ teil' = 0 /\ pc' = "ip" /\ UNCHANGED <<wert, fhemHost, eeprom>>
      BY <1>9 DEF SetIp
  <2>3. Bytewise'
      BY <2>2, BytesStep
  <2>4. teil' <= Len(tokens')
      BY <2>1, <2>2
  <2>5. QED
      BY <1>0, <1>1, <1>2, <2>2, <2>3, <2>4 DEF TypeInv, Typed
<1>10. CASE Restart
  <2>1. /\ pc' = "off" /\ wert' = Globals /\ fhemHost' = <<0, 0, 0, 0>>
        /\ tokens' = <<>> /\ teil' = 0 /\ flash' = flash /\ data' = NoBuffer
      BY <1>10 DEF Restart, RamLost, EEPROM!PowerOff
  <2>2. teil' <= Len(tokens')
      BY <2>1
  <2>3. Globals = [name \in Setting |-> Globals[name]]
      BY SMT DEF Globals, Default, Setting
  <2>4. QED
      BY <1>0, <1>1, <1>2, <2>1, <2>2, <2>3, GlobalsType, NoHost DEF TypeInv, Typed, Bytewise
<1>11. CASE Flash
  <2>1. EEPROM!EepromStep /\ UNCHANGED <<wert, fhemHost, tokens, teil, pc>>
      BY <1>11 DEF Flash
  <2>2. Bytewise'
      BY <2>1, BytesStep
  <2>3. QED
      BY <1>0, <1>1, <1>2, <2>1, <2>2 DEF TypeInv, Typed
<1>12. CASE UNCHANGED vars
  <2>1. UNCHANGED <<wert, fhemHost, tokens, teil, pc, eeprom>>
      BY <1>12 DEF vars
  <2>2. Bytewise'
      BY <2>1, BytesStep
  <2>3. QED
      BY <1>0, <1>1, <1>2, <2>1, <2>2 DEF TypeInv, Typed
<1>13. QED
    BY <1>3, <1>4, <1>5, <1>6, <1>7, <1>8, <1>9, <1>10, <1>11, <1>12 DEF Next

\* The settings have the types of esplog.ino, and the port is one that
\* setup.ino accepts (setup.ino:239-243), for every image of the EEPROM
\* that the logger is installed on, if such a port is entered.
THEOREM SettingsAreTyped ==
    ASSUME PortsInRange
    PROVE  Spec => []TypeOK
<1>1. TypeInv => TypeOK
  <2> SUFFICES ASSUME TypeInv
               PROVE  TypeOK
      OBVIOUS
  <2>1. tokens \in Seq(Byte) /\ teil \in 0 .. Len(tokens)
      BY DEF TypeInv, Typed, HostInv, SettingsShape
  <2>2. QED
      BY <2>1 DEF TypeInv, Typed, Bytewise, Image, Values, TypeOK
<1>2. TypeInv /\ [Next]_vars => TypeInv'
    BY TypeStep
<1>3. QED
    BY <1>1, <1>2, TypeInit, PTL DEF Spec
===============================================================================
