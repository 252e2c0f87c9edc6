------------------------------- MODULE Settings -------------------------------
(***************************************************************************)
(* The settings of the logger: set on the setup page (websites.ino), kept  *)
(* as floats and single bytes behind the yield table in the EEPROM, and    *)
(* read back by setupEeprom() (setup.ino).  The cells of the EEPROM are    *)
(* bytes here, because the layout of the settings is the point.            *)
(*                                                                         *)
(* A float is the four bytes of its IEEE 754 representation, in the order  *)
(* in which memcpy() moves them.                                           *)
(***************************************************************************)
EXTENDS Integers, Sequences

CONSTANTS
    NoBuffer,      \* see Eeprom
    Images,        \* what the EEPROM may hold when the logger is installed
    Inputs,        \* what a user enters, by setting; whole numbers below 2^23
    Addresses      \* what a user enters as the host's IP, as lists of bytes:
                   \* up to ten fit into the page's buffer of 20 characters

Byte  == 0 .. 255
Blank == 255

\* The bytes behind the yield table, up to the 1520 of EEPROM.begin().
Addr  == 1488 .. 1519
Float == [1 .. 4 -> Byte]

Setting == {"impulseProKwh", "compensation", "generatorLeistung", "fhemPort",
            "offset"}

\* Slip: the addresses count in words of 16 bits.
adresseEeprom16 == [impulseProKwh |-> 1488, compensation |-> 1496,
                    generatorLeistung |-> 1498, fhemPort |-> 1512, offset |-> 1514]

adresseEeprom == [impulseProKwh |-> 1488, compensation |-> 1496,
                  generatorLeistung |-> 1500, fhemPort |-> 1512, offset |-> 1514]

adresseEepromFhemHost == 1504

ASSUME InputsAssumption ==
    /\ NoBuffer \notin [Addr -> Nat]
    /\ Images \subseteq [Addr -> Byte]
    /\ Inputs \in [Setting -> SUBSET (0 .. 2^23 - 1)]
    /\ \A ip \in Addresses : ip \in Seq(Byte) /\ Len(ip) \in 0 .. 10

VARIABLES
    wert,        \* the settings in RAM; numbers, or floats (see Floats)
    fhemHost,    \* the four bytes of the FHEM host's address
    tokens, teil,  \* an address that is being stored, and how far
    beyond,      \* whether a part of an address went behind fhemHost in RAM
    pc,
    flash, data, dirty, phase, erased

EEPROM == INSTANCE Eeprom WITH FlashFails <- FALSE

eeprom == <<flash, data, dirty, phase, erased>>
vars   == <<wert, fhemHost, tokens, teil, beyond, pc, eeprom>>

-------------------------------------------------------------------------------
(* Floats.                                                                 *)

\* compensation and offset are floats in RAM, too.
Floats == {"compensation", "offset"}

Zero == [i \in 1 .. 4 |-> 0]

\* The float of the whole number n.
FloatOf(n) ==
    IF n = 0 THEN Zero
    ELSE LET e    == CHOOSE k \in 0 .. 22 : 2^k <= n /\ n < 2^(k + 1)
             bits == (127 + e) * 2^23 + (n - 2^e) * 2^(23 - e)
         IN [i \in 1 .. 4 |-> (bits \div 256^(i - 1)) % 256]

Exponent(f) == (f[4] % 128) * 2 + f[3] \div 128
Mantissa(f) == (f[3] % 128) * 65536 + f[2] * 256 + f[1]

\* f > 0, which is false of a NaN such as a blank float.
Positive(f) == /\ f[4] < 128
               /\ f # Zero
               /\ Exponent(f) = 255 => Mantissa(f) = 0

\* A positive float as a whole number, rounded towards 0.  2^23 stands for
\* all floats from there on: no setting is that large, and the port is only
\* compared with 65535.
Trunc(f) == CASE Exponent(f) < 127  -> 0
              [] Exponent(f) >= 150 -> 2^23
              [] OTHER -> (2^23 + Mantissa(f)) \div 2^(150 - Exponent(f))

-------------------------------------------------------------------------------
(* Storing and restoring.                                                  *)

\* The float and the bytes of the host that an image of the EEPROM holds.
FloatAt(image, address) == [i \in 1 .. 4 |-> image[address + i - 1]]
HostIn(image) == [i \in 1 .. 4 |-> image[adresseEepromFhemHost + (i - 1) * 2]]

\* What a setting is when its stored float is refused.
Default == [impulseProKwh |-> 1000, compensation |-> Zero,
            generatorLeistung |-> 0, fhemPort |-> 8383, offset |-> Zero]

\* Slip: any positive port will do.
PositiveAccepted(name, f) == Positive(f)

\* setup.ino:202-240, `floatTmp > 0 and floatTmp < 65535'.
Accepted(name, f) == /\ Positive(f)
                     /\ name = "fhemPort" => Trunc(f) < 65535

\* The setting as setupEeprom() takes it from an image of the EEPROM.
Restored(image, name) ==
    LET f == FloatAt(image, adresseEeprom[name])
    IN IF ~Accepted(name, f) THEN Default[name]
       ELSE IF name \in Floats THEN f ELSE Trunc(f)

\* The bytes that EEPROM.put() overwrites for a setting.
Stored(name, f) ==
    LET address == adresseEeprom[name]
    IN [a \in address .. address + 3 |-> f[a - address + 1]]

\* The initial values of the globals; setupEeprom() replaces all of them.
Globals == [Default EXCEPT !.generatorLeistung = 1]

RamLost == /\ wert' = Globals
           /\ fhemHost' = <<0, 0, 0, 0>>
           /\ tokens' = <<>> /\ teil' = 0
           /\ beyond' = FALSE

Init == /\ wert = Globals
        /\ fhemHost = <<0, 0, 0, 0>>
        /\ tokens = <<>> /\ teil = 0
        /\ beyond = FALSE
        /\ pc = "off"
        /\ \E image \in Images : EEPROM!EepromInit(image)

\* setup.ino:173, :201-250.
SetupEeprom ==
    /\ pc = "off"
    /\ EEPROM!Begin
    /\ wert' = [name \in Setting |-> Restored(flash, name)]
    /\ fhemHost' = HostIn(flash)
    /\ pc' = "idle"
    /\ UNCHANGED <<tokens, teil, beyond>>

-------------------------------------------------------------------------------
(* The setup page.                                                         *)

At(p) == pc = p /\ phase = "ready"

\* websites.ino:116-160, :207-212 with putEepromValue().
SetValue(name, n) ==
    LET entered == IF name \in Floats THEN FloatOf(n) ELSE n
    IN /\ At("idle")
       /\ entered # wert[name]
       /\ wert' = [wert EXCEPT ![name] = entered]
       /\ EEPROM!Put(Stored(name, FloatOf(n)))
       /\ pc' = "commit"
       /\ UNCHANGED <<fhemHost, tokens, teil, beyond>>

\* websites.ino:178-189: the address is split at its dots.
SetIp(ip) == /\ At("idle")
             /\ ip # fhemHost
             /\ tokens' = ip
             /\ teil' = 0
             /\ pc' = "ip"
             /\ UNCHANGED <<wert, fhemHost, beyond, eeprom>>

\* Slip: every part is committed at once.
SetIpByteCommitted ==
    /\ At("ip")
    /\ teil < Len(tokens)
    /\ LET byte == tokens[teil + 1]
           a    == adresseEepromFhemHost + teil * 2
       IN /\ fhemHost' = [fhemHost EXCEPT ![teil + 1] = byte]
          /\ data' = IF EEPROM!Open THEN [data EXCEPT ![a] = byte] ELSE data
          /\ dirty' = EEPROM!Open
    /\ phase' = "commit"
    /\ teil' = teil + 1
    /\ UNCHANGED <<wert, tokens, beyond, pc, flash, erased>>

\* The fifth part of an address and those behind it are written behind
\* fhemHost.  What lies there is up to the linker; of the settings it may be
\* those that start as zeros, like fhemHost.
WriteBehindHost(byte) ==
    \/ UNCHANGED wert
    \/ \E name \in Floats, k \in 1 .. 4 :
           wert' = [wert EXCEPT ![name] = [@ EXCEPT ![k] = byte]]

\* websites.ino:191-197.  The EEPROM ignores an address behind its end.
SetIpByte == /\ At("ip")
             /\ teil < Len(tokens)
             /\ LET byte == tokens[teil + 1]
                    a    == adresseEepromFhemHost + teil * 2
                IN /\ \/ /\ teil < 4
                         /\ fhemHost' = [fhemHost EXCEPT ![teil + 1] = byte]
                         /\ UNCHANGED <<wert, beyond>>
                      \/ /\ teil >= 4
                         /\ WriteBehindHost(byte)
                         /\ beyond' = TRUE
                         /\ UNCHANGED fhemHost
                   /\ IF a \in Addr THEN EEPROM!Write(a, byte)
                                   ELSE UNCHANGED eeprom
             /\ teil' = teil + 1
             /\ UNCHANGED <<tokens, pc>>

\* websites.ino:199.
SetIpCommit == /\ At("ip")
               /\ teil = Len(tokens)
               /\ EEPROM!Commit
               /\ tokens' = <<>>
               /\ teil' = 0
               /\ pc' = "idle"
               /\ UNCHANGED <<wert, fhemHost, beyond>>

\* functions.ino:96.  The commit runs before loop() is idle again, see At.
CommitValue == /\ At("commit")
               /\ EEPROM!Commit
               /\ pc' = "idle"
               /\ UNCHANGED <<wert, fhemHost, tokens, teil, beyond>>

\* deleteEEPROM(), called by loop() in January and by "clrrom".  The loop
\* puts an int of four bytes at every address below 1488.
DeletePut == /\ At("idle")
             /\ EEPROM!Put([a \in 1488 .. 1490 |-> 0])
             /\ pc' = "delete"
             /\ UNCHANGED <<wert, fhemHost, tokens, teil, beyond>>

DeleteCommit == /\ At("delete")
                /\ EEPROM!Commit
                /\ pc' = "deleteEnd"
                /\ UNCHANGED <<wert, fhemHost, tokens, teil, beyond>>

DeleteEnd == /\ At("deleteEnd")
             /\ EEPROM!End
             /\ pc' = "idle"
             /\ UNCHANGED <<wert, fhemHost, tokens, teil, beyond>>

\* A restart, or a loss of power while no sector is being programmed.  What
\* a torn sector does is checked with Eeprom and EspLog.
Restart == /\ pc # "off"
           /\ ~erased
           /\ EEPROM!PowerOff
           /\ RamLost
           /\ pc' = "off"

Flash == /\ EEPROM!EepromStep
         /\ UNCHANGED <<wert, fhemHost, tokens, teil, beyond, pc>>

Next == \/ SetupEeprom
        \/ \E name \in Setting : \E n \in Inputs[name] : SetValue(name, n)
        \/ CommitValue
        \/ \E ip \in Addresses : SetIp(ip)
        \/ SetIpByte \/ SetIpCommit
        \/ DeletePut \/ DeleteCommit \/ DeleteEnd
        \/ Restart
        \/ Flash

Spec == Init /\ [][Next]_vars

-------------------------------------------------------------------------------
TypeOK == /\ wert \in [compensation : Float, offset : Float,
                       impulseProKwh : Nat, generatorLeistung : Nat,
                       fhemPort : 0 .. 2^16 - 2]
          /\ fhemHost \in [1 .. 4 -> Byte]
          /\ tokens \in Seq(Byte) /\ teil \in 0 .. Len(tokens)
          /\ beyond \in BOOLEAN
          /\ pc \in {"off", "idle", "commit", "ip", "delete", "deleteEnd"}
          /\ flash \in [Addr -> Byte]
          /\ data \in [Addr -> Byte] \cup {NoBuffer}

\* While the logger waits with an open EEPROM, a restart brings back the
\* settings that RAM holds: whatever was set in whatever order, no store
\* (functions.ino:91-103, websites.ino:191-199) has touched the bytes of
\* another setting and no commit was skipped.  The page takes an address of
\* more than four parts: it may change what lies behind fhemHost in RAM, and
\* then a restart brings back what was entered before.  The port and the
\* offset are no part of this: they are stored as four bytes each, two bytes
\* apart, and the fifth and the sixth part of an address go there, too.
SettingsSurvive ==
    At("idle") /\ EEPROM!Open =>
        /\ \A name \in {"impulseProKwh", "compensation", "generatorLeistung"} :
               (beyond => name \notin Floats) => Restored(flash, name) = wert[name]
        /\ HostIn(flash) = fhemHost

\* A restart during the change of an address leaves the stored host as it
\* was before the change or as it was to become, never a mixture, although
\* its bytes are written one by one (websites.ino:191-197).
HostChangesAtOnce ==
    [][HostIn(flash') # HostIn(flash) /\ ~erased'
         => erased /\ pc # "ip" /\ HostIn(flash') = fhemHost]_vars

===============================================================================
