--------------------------- MODULE ESP8266WiFi_proof ---------------------------
(***************************************************************************)
(* Proofs about the two parts of the ESP8266WiFi library that share no     *)
(* state.  WifiStation and WifiScan, for any networks, lists and numbers   *)
(* of calls and faults: flash is spared, a static address stays, and       *)
(* callbacks find their place.  TlsClients, for any number of handles and  *)
(* connections: sessions, SSL_CTX and the credentials belong to those who  *)
(* use them.                                                               *)
(***************************************************************************)
EXTENDS WifiScan, TlsClients, SequenceTheorems, FiniteSetTheorems, TLAPS

-------------------------------------------------------------------------------
(* A static address and the DHCP client.                                   *)

LEMMA StationKeepsStatic ==
    ASSUME StaticAddressStays, StationNext
    PROVE  StaticAddressStays'
<1>1. CASE UNCHANGED address
    BY <1>1 DEF StaticAddressStays, address
<1>2. ASSUME StartDhcp, UNCHANGED staticIp
      PROVE  StaticAddressStays'
    BY <1>2, Zenon DEF StaticAddressStays, StartDhcp
<1>3. ASSUME NEW c, NEW connect, NEW fails, BeginWith(c, connect, fails)
      PROVE  StaticAddressStays'
  <2>1. UNCHANGED address \/ (StartDhcp /\ UNCHANGED staticIp)
      BY <1>3 DEF BeginWith, address
  <2>2. QED
      BY <1>1, <1>2, <2>1
<1>4. CASE Setup
    BY <1>1, <1>3, <1>4 DEF Setup, Boot, SetupResult, SetupBegin, SetupTried
<1>5. CASE Returns \/ LinkResults \/ Callbacks \/ Lose
    BY <1>1, <1>5
    DEF Returns, ResultReturns, HostReturns, WpsReturns, LinkResults, LinkResult,
        Join, NotFound, Refused, Callbacks, DnsFound, WpsStatus, SmartLink,
        SmartLinkOver, StopSmart, Lose
<1>6. CASE Begin
    BY <1>3, <1>6 DEF Begin
<1>7. CASE BeginAsStored
  <2>1. UNCHANGED address \/ (StartDhcp /\ UNCHANGED staticIp)
      BY <1>7 DEF BeginAsStored, address
  <2>2. QED
      BY <1>1, <1>2, <2>1
<1>8. CASE ConfigIp
  <2>1. PICK static \in BOOLEAN,
                 fails \in Trouble(ModeStep(With("STA")) \cup {"address"}) :
            CASE fails = "mode"    -> UNCHANGED address
              [] fails = "address" -> dhcp' = FALSE /\ UNCHANGED staticIp
              [] OTHER             -> dhcp' = ~static /\ staticIp' = static
      BY <1>8 DEF ConfigIp
  <2>2. QED
      BY <1>1, <2>1 DEF StaticAddressStays
<1>9. CASE Program /\ ~Begin /\ ~BeginAsStored /\ ~ConfigIp
    BY <1>1, <1>9
    DEF Program, Persistent, Mode, SleepBegin, SleepWake, HostByName, Reconnect,
        Disconnect, WaitForResult, BeginWps, BeginSmartConfig, StopSmartConfig,
        StopSmart, SoftAp, SoftApConfig, SoftApDisconnect
<1>10. QED
    BY <1>4, <1>5, <1>6, <1>7, <1>8, <1>9 DEF StationNext

LEMMA ScanKeepsStatic ==
    ASSUME StaticAddressStays, [Next]_vars
    PROVE  StaticAddressStays'
<1>1. CASE UNCHANGED address
    BY <1>1 DEF StaticAddressStays, address
<1>2. CASE StationNext
    BY <1>2, StationKeepsStatic
<1>3. CASE ScanDelete \/ ScanNetworks \/ ScanDone \/ ScanReturns \/ MultiReturns
    BY <1>1, <1>3
    DEF ScanDelete, ScanNetworks, StartScan, ScanDone, ScanReturns, MultiReturns
<1>4. CASE MultiRun
  <2>1. ASSUME NEW c, NEW fails, BeginWith(c, TRUE, fails)
        PROVE  StaticAddressStays'
    <3>1. UNCHANGED address \/ (StartDhcp /\ UNCHANGED staticIp)
        BY <2>1 DEF BeginWith, address
    <3>2. QED
        BY <1>1, <3>1, Zenon DEF StaticAddressStays, StartDhcp
  <2>2. CASE MultiAnalyses
      BY <1>1, <2>1, <2>2 DEF MultiAnalyses
  <2>3. CASE MultiScans
      BY <1>1, <2>3 DEF MultiScans
  <2>4. QED
      BY <1>1, <1>4, <2>2, <2>3 DEF MultiRun
<1>5. CASE Restart
    BY <1>5 DEF Restart, PowerCycle, StaticAddressStays
<1>6. CASE UNCHANGED vars
    BY <1>1, <1>6 DEF vars, stationVars
<1>7. QED
    BY <1>2, <1>3, <1>4, <1>5, <1>6 DEF Next

\* The DHCP client never takes over a static address (StaticAddressStays), in
\* any order of config(), begin(), run() and losses of power, whatever the SDK
\* refuses (ESP8266WiFiSTA.cpp:97-240).
THEOREM StaticAddressIsKept == Spec => []StaticAddressStays
<1>1. Init => StaticAddressStays
    BY DEF Init, StationInit, StaticAddressStays
<1>2. StaticAddressStays /\ [Next]_vars => StaticAddressStays'
    BY ScanKeepsStatic
<1>3. QED
    BY <1>1, <1>2, PTL DEF Spec

-------------------------------------------------------------------------------
(* What goes to flash.                                                     *)

Spared == persistent' \/ UNCHANGED flash

LEMMA SetModeSpares ==
    ASSUME NEW m, NEW ok, SetMode(m, ok), ~persistent'
    PROVE  UNCHANGED flashMode
    BY DEF SetMode

LEMMA SetConfSpares ==
    ASSUME NEW c, SetConf(c), UNCHANGED settings, ~persistent'
    PROVE  UNCHANGED flashConf
    BY DEF SetConf, settings

LEMMA SetApConfSpares ==
    ASSUME NEW c, SetApConf(c), UNCHANGED settings, ~persistent'
    PROVE  UNCHANGED flashApConf
    BY DEF SetApConf, settings

LEMMA StationSpares ==
    ASSUME StationNext
    PROVE  Spared \/ WpsStatus \/ SmartLink
<1> SUFFICES ASSUME ~persistent'
             PROVE  UNCHANGED flash \/ WpsStatus \/ SmartLink
    BY DEF Spared
<1>1. ASSUME NEW c, NEW connect, NEW fails, BeginWith(c, connect, fails)
      PROVE  UNCHANGED flash
  <2>1. UNCHANGED flashMode
      BY <1>1, SetModeSpares DEF BeginWith, EnableSta
  <2>2. UNCHANGED flashConf
      BY <1>1, SetConfSpares DEF BeginWith, config
  <2>3. UNCHANGED flashApConf
      BY <1>1 DEF BeginWith, ap
  <2>4. QED
      BY <2>1, <2>2, <2>3 DEF flash
<1>2. CASE Boot \/ SetupResult \/ SetupTried
    BY <1>2, SetModeSpares DEF Boot, SetupResult, SetupTried, flash, modes, config, ap
<1>3. CASE SetupBegin \/ Begin
    BY <1>1, <1>3 DEF SetupBegin, Begin
<1>4. CASE Returns \/ LinkResults \/ DnsFound \/ SmartLinkOver \/ Lose
    BY <1>4
    DEF Returns, ResultReturns, HostReturns, WpsReturns, LinkResults, LinkResult,
        Join, NotFound, Refused, DnsFound, SmartLinkOver, StopSmart, Lose,
        flash, modes, config, ap
<1>5. CASE Persistent \/ HostByName \/ Reconnect \/ WaitForResult \/ StopSmartConfig
    BY <1>5
    DEF Persistent, HostByName, Reconnect, WaitForResult, StopSmartConfig, StopSmart,
        flash, modes, config, ap
<1>6. CASE Mode \/ SleepBegin \/ SleepWake \/ BeginSmartConfig
    BY <1>6, SetModeSpares
    DEF Mode, SleepBegin, SleepWake, BeginSmartConfig, EnableSta, flash, modes, config, ap
<1>7. CASE BeginAsStored \/ ConfigIp
    BY <1>7, SetModeSpares DEF BeginAsStored, ConfigIp, EnableSta, flash, config, ap
<1>8. CASE Disconnect \/ BeginWps
    BY <1>8, SetModeSpares, SetConfSpares
    DEF Disconnect, BeginWps, EnableSta, Forget, flash, config, ap
<1>9. CASE SoftAp \/ SoftApConfig \/ SoftApDisconnect
  <2>1. UNCHANGED flashMode
      BY <1>9, SetModeSpares DEF SoftAp, SoftApConfig, SoftApDisconnect, EnableAp
  <2>2. UNCHANGED <<flashConf, flashApConf>>
      BY <1>9, SetApConfSpares DEF SoftAp, SoftApConfig, SoftApDisconnect, config
  <2>3. QED
      BY <2>1, <2>2 DEF flash
<1>10. QED
    BY <1>2, <1>3, <1>4, <1>5, <1>6, <1>7, <1>8, <1>9
    DEF StationNext, Setup, Callbacks, Program

LEMMA ScanSpares ==
    ASSUME [Next]_vars
    PROVE  Spared \/ WpsStatus \/ SmartLink \/ UNCHANGED vars
<1> SUFFICES ASSUME ~persistent'
             PROVE  UNCHANGED flash \/ WpsStatus \/ SmartLink \/ UNCHANGED vars
    BY DEF Spared
<1>1. CASE StationNext
    BY <1>1, StationSpares DEF Spared
<1>2. CASE ScanDelete \/ ScanDone \/ ScanReturns \/ MultiReturns
    BY <1>2
    DEF ScanDelete, ScanDone, ScanReturns, MultiReturns, flash, modes, config, ap
<1>3. CASE ScanNetworks
  <2>1. ASSUME NEW async, NEW fails, StartScan(async, fails)
        PROVE  UNCHANGED flash
    <3>1. UNCHANGED flashMode
        BY <2>1, SetModeSpares DEF StartScan, EnableSta
    <3>2. UNCHANGED flashConf
        BY <2>1, SetConfSpares DEF StartScan, Forget, config
    <3>3. QED
        BY <2>1, <3>1, <3>2 DEF StartScan, flash, ap
  <2>2. QED
      BY <1>3, <2>1 DEF ScanNetworks, flash, modes, config, ap
<1>4. CASE MultiRun
  <2>1. CASE MultiAnalyses
    <3>1. ASSUME NEW c, NEW fails, BeginWith(c, TRUE, fails)
          PROVE  UNCHANGED flash
      <4>1. UNCHANGED flashMode
          BY <3>1, SetModeSpares DEF BeginWith, EnableSta
      <4>2. UNCHANGED flashConf
          BY <3>1, SetConfSpares DEF BeginWith, config
      <4>3. QED
          BY <3>1, <4>1, <4>2 DEF BeginWith, ap, flash
    <3>2. QED
        BY <2>1, <3>1 DEF MultiAnalyses, flash, modes, config, ap
  <2>2. CASE MultiScans
    <3>1. UNCHANGED flashMode
        BY <2>2, SetModeSpares DEF MultiScans, EnableSta
    <3>2. UNCHANGED flashConf
        BY <2>2, SetConfSpares DEF MultiScans, Forget
    <3>3. QED
        BY <2>2, <3>1, <3>2 DEF MultiScans, flash, ap
  <2>3. QED
      BY <1>4, <2>1, <2>2 DEF MultiRun, flash, modes, config, ap
<1>5. CASE Restart
    BY <1>5 DEF Restart, PowerCycle
<1>6. QED
    BY <1>1, <1>2, <1>3, <1>4, <1>5 DEF Next

\* Once persistent(false) has been called, only WPS and SmartConfig write to
\* flash (FlashSpared), for any program and whatever the SDK refuses
\* (setup.ino:9, ESP8266WiFiGeneric.cpp:287-320).
THEOREM FlashIsSpared == Spec => FlashSpared
<1>1. [Next]_vars => [persistent' \/ UNCHANGED flash \/ WpsStatus \/ SmartLink]_vars
    BY ScanSpares DEF Spared
<1>2. QED
    BY <1>1, PTL DEF Spec, FlashSpared

-------------------------------------------------------------------------------
(* Callbacks and those who wait for them.                                  *)

WokenRightly == woken => \/ pc = "dns" /\ lookup = "answered"
                         \/ pc = "wps" /\ ~wps
                         \/ pc = "scan" /\ scanComplete

\* Who is to be woken is in the call that waits.
Awaited == /\ lookup # "none" => pc = "dns"
           /\ wps => pc = "wps"
           /\ scanStarted /\ ~scanAsync => pc = "scan"

ListIsFree == scanStarted => scanResult = None /\ ~scanComplete

WaitInv == WokenRightly /\ Awaited /\ ListIsFree /\ scanCount = Len(scanResult)

waiting == <<lookup, wps, woken, scan>>

LEMMA Elsewhere ==
    ASSUME WaitInv, pc \notin InYield
    PROVE  lookup = "none" /\ ~wps /\ ~woken /\ (scanStarted => scanAsync)
    BY DEF WaitInv, WokenRightly, Awaited, InYield

LEMMA WaitsOn ==
    ASSUME WaitInv, UNCHANGED waiting, UNCHANGED pc \/ pc \notin InYield
    PROVE  WaitInv'
<1>1. UNCHANGED <<lookup, wps, woken, scanAsync, scanStarted, scanComplete, scanCount, scanResult>>
    BY DEF waiting, scan
<1>2. CASE UNCHANGED pc
    BY <1>1, <1>2 DEF WaitInv, WokenRightly, Awaited, ListIsFree
<1>3. CASE pc \notin InYield
    BY <1>1, <1>3, Elsewhere DEF WaitInv, WokenRightly, Awaited, ListIsFree
<1>4. QED
    BY <1>2, <1>3

LEMMA DeletedCounts ==
    ASSUME WaitInv, Deleted
    PROVE  scanCount' = Len(scanResult') /\ scanResult' = None /\ ~scanComplete'
<1>1. scanCount = Len(scanResult) /\ Len(None) = 0
    BY DEF WaitInv, None
<1>2. CASE scanResult = None
    BY <1>1, <1>2 DEF Deleted
<1>3. CASE scanResult # None
    BY <1>1, <1>3 DEF Deleted
<1>4. QED
    BY <1>2, <1>3

\* A step of the program that leaves every wait as it is, or that begins one.
LEMMA ProgramWaits ==
    ASSUME WaitInv, StationNext, UNCHANGED scan
    PROVE  WaitInv'
<1>1. "run" \notin InYield /\ InSetup \cap InYield = {}
      /\ "wait" \notin InYield
    BY DEF InSetup, InYield
<1>2. CASE Setup
    BY <1>1, <1>2, WaitsOn
    DEF Setup, Boot, SetupResult, SetupBegin, SetupTried, BeginWith, remote, waiting, InYield
<1>3. CASE ResultReturns \/ LinkResults \/ SmartLink \/ SmartLinkOver \/ Lose
    BY <1>1, <1>3, WaitsOn
    DEF ResultReturns, LinkResults, LinkResult, Join, NotFound, Refused, SmartLink,
        SmartLinkOver, StopSmart, Lose, remote, thread, waiting
<1>4. CASE HostByName
  <2>1. CASE UNCHANGED <<lookup, pc, woken>>
      BY <1>4, <2>1, WaitsOn DEF HostByName, remote, waiting
  <2>2. CASE lookup' = "asked" /\ pc' = "dns" /\ woken' = FALSE
    <3>1. ~wps /\ (scanStarted => scanAsync) /\ UNCHANGED wps
        BY <1>1, <1>4, Elsewhere DEF HostByName, Call, remote
    <3>2. QED
        BY <2>2, <3>1 DEF WaitInv, WokenRightly, Awaited, ListIsFree, scan
  <2>3. QED
      BY <1>4, <2>1, <2>2 DEF HostByName
<1>5. CASE DnsFound
  <2>1. /\ pc = "dns" /\ pc' = pc /\ lookup' = "answered" /\ UNCHANGED wps
      BY <1>5 DEF DnsFound, WaitInv, Awaited, remote
  <2>2. QED
      BY <2>1 DEF WaitInv, WokenRightly, Awaited, ListIsFree, scan
<1>6. CASE HostReturns
  <2>1. /\ pc = "dns" /\ lookup = "answered" /\ lookup' = "none"
        /\ woken' = FALSE /\ UNCHANGED wps
      BY <1>6 DEF HostReturns, WaitInv, WokenRightly, remote
  <2>2. QED
      BY <2>1 DEF WaitInv, WokenRightly, Awaited, ListIsFree, scan
<1>7. CASE BeginWps
  <2>1. lookup = "none" /\ ~wps /\ ~woken /\ (scanStarted => scanAsync) /\ pc = "run"
      BY <1>1, <1>7, Elsewhere DEF BeginWps, Call
  <2>2. CASE wps' = TRUE /\ pc' = "wps" /\ woken' = FALSE /\ UNCHANGED lookup
      BY <2>1, <2>2 DEF WaitInv, WokenRightly, Awaited, ListIsFree, scan
  <2>3. CASE UNCHANGED <<wps, pc, woken, lookup>>
      BY <2>3, WaitsOn DEF waiting
  <2>4. QED
      BY <1>7, <2>2, <2>3 DEF BeginWps
<1>8. CASE WpsStatus
  <2>1. pc = "wps" /\ lookup = "none" /\ (scanStarted => scanAsync)
      BY <1>8 DEF WpsStatus, WaitInv, Awaited
  <2>2. /\ UNCHANGED <<pc, lookup>> /\ wps' = FALSE
      BY <1>8 DEF WpsStatus
  <2>3. QED
      BY <2>1, <2>2 DEF WaitInv, WokenRightly, Awaited, ListIsFree, scan
<1>9. CASE WpsReturns
  <2>1. /\ pc = "wps" /\ ~wps /\ lookup = "none" /\ (scanStarted => scanAsync)
        /\ UNCHANGED <<wps, lookup>> /\ woken' = FALSE
      BY <1>9 DEF WpsReturns, WaitInv, WokenRightly, Awaited, remote
  <2>2. QED
      BY <2>1 DEF WaitInv, WokenRightly, Awaited, ListIsFree, scan
<1>10. CASE Begin \/ BeginAsStored \/ ConfigIp \/ Reconnect \/ Disconnect \/ WaitForResult
    BY <1>1, <1>10, WaitsOn
    DEF Begin, BeginAsStored, BeginWith, ConfigIp, Reconnect, Disconnect, WaitForResult,
        Call, remote, thread, waiting
<1>11. CASE Persistent \/ Mode \/ SleepBegin \/ SleepWake
    BY <1>1, <1>11, WaitsOn
    DEF Persistent, Mode, SleepBegin, SleepWake, Call, remote, thread, waiting
<1>12. CASE \/ BeginSmartConfig \/ StopSmartConfig
            \/ SoftAp \/ SoftApConfig \/ SoftApDisconnect
    BY <1>1, <1>12, WaitsOn
    DEF BeginSmartConfig, StopSmartConfig, StopSmart, SoftAp, SoftApConfig, SoftApDisconnect,
        Call, remote, thread, waiting
<1>13. QED
    BY <1>2, <1>3, <1>4, <1>5, <1>6, <1>7, <1>8, <1>9, <1>10, <1>11, <1>12
    DEF StationNext, Returns, Callbacks, Program

\* A scan begins, or does not; the old list goes either way.
LEMMA StartWaits ==
    ASSUME WaitInv, pc \notin InYield, Deleted, UNCHANGED <<lookup, wps>>,
           \/ scanStarted' /\ ~scanAsync' /\ pc' = "scan" /\ woken' = FALSE
           \/ (scanStarted' => scanAsync') /\ UNCHANGED woken
    PROVE  WaitInv'
<1>1. lookup' = "none" /\ ~wps' /\ ~woken'
    BY Elsewhere
<1>2. scanCount' = Len(scanResult') /\ scanResult' = None /\ ~scanComplete'
    BY DeletedCounts
<1>3. Awaited' /\ WokenRightly'
    BY <1>1 DEF Awaited, WokenRightly
<1>4. QED
    BY <1>2, <1>3 DEF WaitInv, ListIsFree

LEMMA ScanWaits ==
    ASSUME WaitInv, NEW async \in BOOLEAN, NEW fails, StartScan(async, fails),
           pc \notin InYield
    PROVE  WaitInv'
<1>1. /\ Deleted /\ UNCHANGED <<lookup, wps>>
      /\ scanAsync' = async /\ scanStarted' = (fails # "scan")
      /\ IF ~async /\ fails # "scan" THEN pc' = "scan" /\ woken' = FALSE
                                     ELSE UNCHANGED <<pc, woken>>
    BY DEF StartScan, remote
<1>2. CASE ~async /\ fails # "scan"
    BY <1>1, <1>2, StartWaits
<1>3. CASE async \/ fails = "scan"
    BY <1>1, <1>3, StartWaits
<1>4. QED
    BY <1>2, <1>3

LEMMA ScanDoneWaits ==
    ASSUME WaitInv, ScanDone
    PROVE  WaitInv'
<1>1. /\ scanStarted /\ scanStarted' = FALSE /\ scanComplete' = TRUE
      /\ UNCHANGED <<lookup, wps, pc, scanAsync>>
      /\ woken' = IF scanAsync THEN woken ELSE TRUE
    BY DEF ScanDone, remote
<1>2. scanCount' = Len(scanResult')
  <2>1. PICK n \in 0 .. MaxFound : \E list \in [1 .. n -> Found] :
                 scanCount' = n /\ scanResult' = list
      BY DEF ScanDone
  <2>2. n \in Nat
      BY <2>1, ScanAssumption DEF ScanAssumption
  <2>3. ASSUME NEW list \in [1 .. n -> Found]
        PROVE  Len(list) = n
      BY <2>2, LenProperties
  <2>4. QED
      BY <2>1, <2>3
<1>3. Awaited' /\ ListIsFree'
    BY <1>1 DEF WaitInv, Awaited, ListIsFree
<1>4. WokenRightly'
  <2>1. CASE scanAsync
      BY <1>1, <2>1 DEF WaitInv, WokenRightly
  <2>2. CASE ~scanAsync
      BY <1>1, <2>2 DEF WaitInv, Awaited, WokenRightly
  <2>3. QED
      BY <2>1, <2>2
<1>5. QED
    BY <1>2, <1>3, <1>4 DEF WaitInv

LEMMA MultiWaits ==
    ASSUME WaitInv, MultiRun
    PROVE  WaitInv'
<1>1. pc = "run" /\ pc \notin InYield
    BY DEF MultiRun, Call, InYield
<1>2. CASE UNCHANGED <<lookup, remote, thread, scan>>
    BY <1>2, WaitsOn DEF remote, thread, waiting
<1>3. CASE MultiAnalyses
  <2>1. UNCHANGED <<lookup, wps, woken, scanStarted, scanAsync>> /\ Deleted
      BY <1>3 DEF MultiAnalyses, BeginWith, remote
  <2>2. ~scanStarted
      BY <1>3 DEF MultiAnalyses, WaitInv, ListIsFree
  <2>3. QED
      BY <1>1, <2>1, <2>2, StartWaits
<1>4. CASE MultiScans
  <2>1. /\ UNCHANGED <<lookup, wps, woken>> /\ Deleted /\ scanAsync' = TRUE
      BY <1>4 DEF MultiScans, remote, thread
  <2>2. QED
      BY <1>1, <2>1, StartWaits
<1>5. QED
    BY <1>2, <1>3, <1>4 DEF MultiRun

LEMMA WaitStep == WaitInv /\ [Next]_vars => WaitInv'
<1> SUFFICES ASSUME WaitInv, [Next]_vars
             PROVE  WaitInv'
    OBVIOUS
<1>1. CASE StationNext /\ UNCHANGED scan
    BY <1>1, ProgramWaits
<1>2. CASE ScanDelete
  <2>1. pc \notin InYield /\ UNCHANGED <<lookup, wps, woken, pc, scanStarted, scanAsync>> /\ Deleted
      BY <1>2 DEF ScanDelete, Call, InYield, remote, thread
  <2>2. scanStarted => scanAsync
      BY <2>1, Elsewhere
  <2>3. QED
      BY <2>1, <2>2, StartWaits
<1>3. CASE ScanNetworks
  <2>1. pc \notin InYield
      BY <1>3 DEF ScanNetworks, Call, InYield
  <2>2. CASE UNCHANGED <<lookup, remote, thread, scan>>
      BY <2>2, WaitsOn DEF remote, thread, waiting
  <2>3. QED
      BY <1>3, <2>1, <2>2, ScanWaits DEF ScanNetworks
<1>4. CASE ScanDone
    BY <1>4, ScanDoneWaits
<1>5. CASE ScanReturns
  <2>1. /\ pc = "scan" /\ scanComplete /\ lookup = "none" /\ ~wps
        /\ UNCHANGED <<lookup, wps, scan>> /\ woken' = FALSE
      BY <1>5 DEF ScanReturns, WaitInv, WokenRightly, Awaited, remote
  <2>2. ~scanStarted
      BY <2>1 DEF WaitInv, ListIsFree
  <2>3. QED
      BY <2>1, <2>2 DEF WaitInv, WokenRightly, Awaited, ListIsFree, scan
<1>6. CASE MultiRun
    BY <1>6, MultiWaits
<1>7. CASE MultiReturns
    BY <1>7, WaitsOn DEF MultiReturns, InYield, remote, waiting
<1>8. CASE Restart
  <2>1. Len(None) = 0
      BY DEF None
  <2>2. QED
      BY <1>8, <2>1
      DEF Restart, PowerCycle, WaitInv, WokenRightly, Awaited, ListIsFree
<1>9. CASE UNCHANGED vars
    BY <1>9, WaitsOn DEF vars, stationVars, remote, thread, waiting
<1>10. QED
    BY <1>1, <1>2, <1>3, <1>4, <1>5, <1>6, <1>7, <1>8, <1>9 DEF Next

\* A callback finds the call that waits for it, and a list that is free
\* (CallbacksFindTheirPlace), for any program, network and number of faults
\* (ESP8266WiFiGeneric.cpp:417-465, ESP8266WiFiScan.cpp:67-145 and 277-310).
THEOREM CallbacksAreExpected == Spec => []CallbacksFindTheirPlace
<1>1. Init => WaitInv
  <2>1. Len(None) = 0
      BY DEF None
  <2>2. QED
      BY <2>1 DEF Init, StationInit, ScanInit, WaitInv, WokenRightly, Awaited, ListIsFree
<1>2. WaitInv /\ [Next]_vars => WaitInv'
    BY WaitStep
<1>3. WaitInv => CallbacksFindTheirPlace
    BY DEF WaitInv, WokenRightly, Awaited, ListIsFree, CallbacksFindTheirPlace
<1>4. QED
    BY <1>1, <1>2, <1>3, PTL DEF Spec

-------------------------------------------------------------------------------
(* How many handles hold a context, when one of them changes what it holds. *)

Users(f, k) == Cardinality({h \in Handles : f[h] = k})

LEMMA UsersType ==
    ASSUME NEW f, NEW k
    PROVE  /\ Users(f, k) \in Nat
           /\ (\E h \in Handles : f[h] = k) => Users(f, k) > 0
           /\ (\A h \in Handles : f[h] # k) => Users(f, k) = 0
<1> DEFINE S == {h \in Handles : f[h] = k}
<1>1. IsFiniteSet(S)
    BY TlsAssumption, FS_Subset DEF TlsAssumption
<1>2. Cardinality(S) \in Nat /\ (Cardinality(S) = 0 <=> S = {})
    BY <1>1, FS_CardinalityType, FS_EmptySet
<1>3. QED
    BY <1>2 DEF Users

LEMMA UsersChange ==
    ASSUME NEW f, NEW g, NEW h \in Handles, NEW k, \A x \in Handles \ {h} : g[x] = f[x]
    PROVE  /\ g[h] # k => Users(g, k) <= Users(f, k)
           /\ g[h] # k /\ f[h] = k => Users(g, k) = Users(f, k) - 1
           /\ Users(g, k) <= Users(f, k) + 1
<1> DEFINE S == {x \in Handles : f[x] = k}
           T == {x \in Handles : g[x] = k}
<1>1. /\ IsFiniteSet(S) /\ Cardinality(S) \in Nat
      /\ Users(f, k) = Cardinality(S) /\ Users(g, k) = Cardinality(T)
    BY TlsAssumption, FS_Subset, FS_CardinalityType DEF TlsAssumption, Users
<1>3. CASE g[h] # k /\ f[h] = k
  <2>1. T = S \ {h} /\ h \in S
      BY <1>3
  <2>2. Cardinality(T) = Cardinality(S) - 1
      BY <1>1, <2>1, FS_RemoveElement
  <2>3. QED
      BY <1>1, <1>3, <2>2
<1>4. CASE g[h] = k /\ f[h] # k
  <2>1. T = S \cup {h} /\ h \notin S
      BY <1>4
  <2>2. Cardinality(T) = Cardinality(S) + 1
      BY <1>1, <2>1, FS_AddElement
  <2>3. QED
      BY <1>1, <1>4, <2>2
<1>5. CASE g[h] = k <=> f[h] = k
  <2>1. T = S
      BY <1>5
  <2>2. Users(g, k) = Users(f, k) /\ Users(f, k) \in Nat
      BY <1>1, <2>1
  <2>3. QED
      BY <1>5, <2>2
<1>6. QED
    BY <1>3, <1>4, <1>5

-------------------------------------------------------------------------------
(* The pool of contexts.                                                   *)

Living(p) == {k \in Contexts : p.refcnt[k] > 0}

\* f says what each handle holds, n how many contexts there have been.
PoolOK(p, f, n) ==
    /\ p \in PoolType
    /\ \A k \in Contexts : Users(f, k) <= p.refcnt[k]
    /\ p.count = Cardinality(Living(p))
    /\ p.shared = (p.count > 0)
    /\ \A k \in Contexts : k > n => p.refcnt[k] = 0

LEMMA Bounds == /\ MaxConnects \in Nat /\ Contexts = 1 .. MaxConnects /\ NoContext = 0
                /\ NoContext \notin Contexts /\ Contexts \cup {NoContext} = 0 .. MaxConnects
    BY TlsAssumption DEF TlsAssumption, Contexts, NoContext

\* _ssl_ctx goes with the last context and comes with the first.
LEMMA SharedGoes ==
    ASSUME NEW m \in Nat, m > 0, NEW s, s = (m > 0)
    PROVE  (s /\ m # 1) = (m - 1 > 0) /\ (s /\ m # 1) \in BOOLEAN
<1>1. (m - 1 > 0) = (m # 1)
    OBVIOUS
<1>2. s
    BY Zenon
<1>3. (s /\ m # 1) = (m # 1)
    BY <1>2, Zenon
<1>4. (s /\ m # 1) \in BOOLEAN
    BY Zenon
<1>5. QED
    BY <1>1, <1>3, <1>4, Zenon

LEMMA SharedComes ==
    ASSUME NEW m \in Nat, NEW s, s = (m > 0)
    PROVE  (s \/ m = 0) = (m + 1 > 0) /\ (s \/ m = 0) \in BOOLEAN
<1>1. (m > 0 \/ m = 0) /\ m + 1 > 0
    OBVIOUS
<1>2. QED
    BY <1>1, Zenon

LEMMA LivingType ==
    ASSUME NEW p
    PROVE  IsFiniteSet(Living(p)) /\ Cardinality(Living(p)) \in Nat
<1>1. Living(p) \subseteq 1 .. MaxConnects
    BY Bounds DEF Living
<1>2. IsFiniteSet(1 .. MaxConnects)
    BY Bounds, FS_Interval
<1>3. QED
    BY <1>1, <1>2, FS_Subset, FS_CardinalityType

\* A handle takes over the context of another one.
LEMMA RefKeeps ==
    ASSUME NEW p, NEW n \in Nat, NEW f \in [Handles -> 0 .. MaxConnects], PoolOK(p, f, n),
           NEW h \in Handles, NEW other \in Handles
    PROVE  PoolOK(Ref(p, f[other]), [f EXCEPT ![h] = f[other]], n)
<1> DEFINE k == f[other]
           q == Ref(p, k)
           g == [f EXCEPT ![h] = k]
<1>1. k \in 0 .. MaxConnects
    OBVIOUS
<1>0. g[h] = k /\ \A x \in Handles \ {h} : g[x] = f[x]
    OBVIOUS
<1>2. \A x \in Contexts : /\ x # k => Users(g, x) <= Users(f, x)
                          /\ Users(g, x) <= Users(f, x) + 1
                          /\ Users(f, x) \in Nat /\ Users(g, x) \in Nat
    BY <1>0, UsersChange, UsersType
<1>3. k # NoContext => Users(f, k) > 0
    BY UsersType
<1> HIDE DEF k, g
<1>4. CASE k = NoContext
  <2>1. q = p
      BY <1>4 DEF Ref
  <2>2. \A x \in Contexts : Users(g, x) <= p.refcnt[x]
    <3>1. \A x \in Contexts : /\ x # k /\ Users(f, x) <= p.refcnt[x]
                              /\ p.refcnt[x] \in Nat
        BY <1>4, Bounds DEF PoolOK, PoolType
    <3>2. QED
        BY <1>2, <3>1
  <2>3. QED
      BY <2>1, <2>2 DEF PoolOK, k, g
<1>5. CASE k # NoContext
  <2>1. k \in Contexts
      BY <1>1, <1>5, Bounds
  <2>2. /\ q \in PoolType /\ q.refcnt[k] = p.refcnt[k] + 1
        /\ \A x \in Contexts \ {k} : q.refcnt[x] = p.refcnt[x]
        /\ q.count = p.count /\ q.shared = p.shared
      BY <1>5, <2>1 DEF Ref, PoolOK, PoolType
  <2>3. p.refcnt[k] \in Nat /\ p.refcnt[k] > 0
      BY <1>2, <1>3, <1>5, <2>1 DEF PoolOK, PoolType
  <2> HIDE DEF q
  <2>4. Living(q) = Living(p)
      BY <2>1, <2>2, <2>3 DEF Living
  <2>5. \A x \in Contexts : Users(g, x) <= q.refcnt[x]
      BY <1>2, <2>2 DEF PoolOK, PoolType
  <2>6. \A x \in Contexts : x > n => q.refcnt[x] = 0
      BY <2>2, <2>3 DEF PoolOK
  <2>7. PoolOK(q, g, n)
      BY <2>2, <2>4, <2>5, <2>6 DEF PoolOK
  <2>8. QED
      BY <2>7 DEF q, g, k
<1>6. QED
    BY <1>4, <1>5

\* A handle gives its context back.
LEMMA UnrefKeeps ==
    ASSUME NEW p, NEW n \in Nat, NEW f \in [Handles -> 0 .. MaxConnects], PoolOK(p, f, n),
           NEW h \in Handles
    PROVE  PoolOK(Unref(p, f[h]), [f EXCEPT ![h] = NoContext], n)
<1> DEFINE k == f[h]
           q == Unref(p, k)
           g == [f EXCEPT ![h] = NoContext]
<1>1. k \in 0 .. MaxConnects /\ NoContext \in 0 .. MaxConnects
    BY Bounds
<1>0. k = f[h] /\ g[h] = NoContext /\ \A x \in Handles \ {h} : g[x] = f[x]
    OBVIOUS
<1> HIDE DEF k, g
<1>2. \A x \in Contexts : /\ Users(g, x) <= Users(f, x)
                          /\ x = k => Users(g, x) = Users(f, x) - 1
                          /\ Users(f, x) \in Nat /\ Users(g, x) \in Nat
  <2>1. SUFFICES ASSUME NEW x \in Contexts
                 PROVE  /\ Users(g, x) <= Users(f, x)
                        /\ x = k => Users(g, x) = Users(f, x) - 1
                        /\ Users(f, x) \in Nat /\ Users(g, x) \in Nat
      OBVIOUS
  <2>2. x \in 0 .. MaxConnects /\ x # NoContext /\ MaxConnects \in Nat
      BY Bounds
  <2>3. /\ x # NoContext => Users(g, x) <= Users(f, x)
        /\ x # NoContext /\ f[h] = x => Users(g, x) = Users(f, x) - 1
      BY <1>0, UsersChange
  <2>4. QED
      BY <1>0, <2>2, <2>3, UsersType
<1>3. k # NoContext => Users(f, k) > 0
    BY <1>0, UsersType
<1>4. CASE k = NoContext
  <2>1. q = p
      BY <1>4 DEF Unref
  <2>2. \A x \in Contexts : Users(g, x) <= p.refcnt[x]
    <3>1. \A x \in Contexts : /\ x # k /\ Users(f, x) <= p.refcnt[x]
                              /\ p.refcnt[x] \in Nat
        BY <1>4, Bounds DEF PoolOK, PoolType
    <3>2. QED
        BY <1>2, <3>1
  <2>3. QED
      BY <2>1, <2>2 DEF PoolOK, k, g
<1>5. ASSUME k # NoContext
      PROVE  PoolOK(q, g, n)
  <2>1. k \in Contexts
      BY <1>1, <1>5, Bounds
  <2>2. /\ p.refcnt \in [Contexts -> Nat] /\ p.count \in Nat /\ p.shared \in BOOLEAN
        /\ p.io \in Contexts \cup {NoContext} /\ p.refcnt[k] > 0
        /\ p.count = Cardinality(Living(p)) /\ k \in Living(p)
        /\ p.shared = (p.count > 0)
      BY <1>2, <1>3, <1>5, <2>1 DEF PoolOK, PoolType, Living
  <2>3. CASE p.refcnt[k] # 1
    <3>1. /\ q \in PoolType /\ q.refcnt[k] = p.refcnt[k] - 1
          /\ \A x \in Contexts \ {k} : q.refcnt[x] = p.refcnt[x]
          /\ q.count = p.count /\ q.shared = p.shared
        BY <1>5, <2>1, <2>2, <2>3 DEF Unref, PoolOK, PoolType
    <3> HIDE DEF q
    <3>2. Living(q) = Living(p)
        BY <2>1, <2>2, <2>3, <3>1 DEF Living
    <3>3. \A x \in Contexts : Users(g, x) <= q.refcnt[x]
        BY <1>2, <2>2, <3>1 DEF PoolOK
    <3>4. \A x \in Contexts : x > n => q.refcnt[x] = 0
        BY <2>2, <3>1 DEF PoolOK
    <3>5. QED
        BY <2>2, <3>1, <3>2, <3>3, <3>4 DEF PoolOK
  <2>4. CASE p.refcnt[k] = 1
    <3>1. /\ q.refcnt[k] = 0 /\ q.refcnt \in [Contexts -> Nat]
          /\ \A x \in Contexts \ {k} : q.refcnt[x] = p.refcnt[x]
          /\ q.count = p.count - 1 /\ q.shared = (p.shared /\ p.count # 1)
          /\ q.io = NoContext
          /\ q = [refcnt |-> q.refcnt, count |-> q.count, shared |-> q.shared, io |-> q.io]
        BY <1>5, <2>1, <2>2, <2>4 DEF Unref
    <3> HIDE DEF q
    <3>2. Living(q) = Living(p) \ {k}
        BY <2>1, <2>2, <3>1 DEF Living
    <3>3. Cardinality(Living(q)) = Cardinality(Living(p)) - 1
        BY <2>2, <3>2, LivingType, FS_RemoveElement
    <3>4. Cardinality(Living(q)) \in Nat
        BY LivingType
    <3>5. q.count = Cardinality(Living(q)) /\ q.count \in Nat
        BY <2>2, <3>1, <3>3, <3>4
    <3>6. q.shared = (q.count > 0) /\ q.shared \in BOOLEAN
      <4>1. p.count > 0
          BY <2>2, <3>1, <3>5
      <4>2. QED
          BY <2>2, <3>1, <4>1, SharedGoes
    <3>7. q \in PoolType
        BY <3>1, <3>5, <3>6 DEF PoolType
    <3>8. \A x \in Contexts : Users(g, x) <= q.refcnt[x]
        BY <1>2, <2>2, <2>4, <3>1 DEF PoolOK
    <3>9. \A x \in Contexts : x > n => q.refcnt[x] = 0
        BY <3>1 DEF PoolOK
    <3>10. QED
        BY <3>5, <3>6, <3>7, <3>8, <3>9 DEF PoolOK
  <2>5. QED
      BY <2>3, <2>4
<1>6. QED
    BY <1>4, <1>5 DEF k, g

\* A new context, held by one handle that held nothing before.
LEMMA NewKeeps ==
    ASSUME NEW p, NEW n \in Nat, n < MaxConnects,
           NEW f \in [Handles -> 0 .. MaxConnects], PoolOK(p, f, n), NEW h \in Handles
    PROVE  PoolOK(NewContext(p, n + 1), [f EXCEPT ![h] = n + 1], n + 1)
<1> DEFINE k == n + 1
           q == NewContext(p, k)
           g == [f EXCEPT ![h] = k]
<1>1. k \in Contexts /\ k \in 0 .. MaxConnects /\ k > n
    BY Bounds
<1>0. g[h] = k /\ \A x \in Handles \ {h} : g[x] = f[x]
    OBVIOUS
<1>2. \A x \in Contexts : /\ x # k => Users(g, x) <= Users(f, x)
                          /\ Users(g, x) <= Users(f, x) + 1
                          /\ Users(f, x) \in Nat /\ Users(g, x) \in Nat
    BY <1>0, UsersChange, UsersType
<1>3. /\ p.refcnt \in [Contexts -> Nat] /\ p.count \in Nat /\ p.shared \in BOOLEAN
      /\ p.count = Cardinality(Living(p)) /\ p.refcnt[k] = 0
      /\ p.shared = (p.count > 0)
    BY <1>1 DEF PoolOK, PoolType
<1> HIDE DEF g
<1>4. /\ q.refcnt[k] = 1 /\ q.refcnt \in [Contexts -> Nat]
      /\ \A x \in Contexts \ {k} : q.refcnt[x] = p.refcnt[x]
      /\ q.count = p.count + 1 /\ q.shared = (p.shared \/ p.count = 0) /\ q.io = k
      /\ q = [refcnt |-> q.refcnt, count |-> q.count, shared |-> q.shared, io |-> q.io]
    BY <1>1, <1>3 DEF NewContext
<1> HIDE DEF q
<1>5. Living(q) = Living(p) \cup {k} /\ k \notin Living(p)
    BY <1>1, <1>3, <1>4 DEF Living
<1>6. Cardinality(Living(q)) = Cardinality(Living(p)) + 1
    BY <1>5, LivingType, FS_AddElement
<1>7. /\ q.count = Cardinality(Living(q)) /\ q.count \in Nat
      /\ q.shared = (q.count > 0) /\ q.shared \in BOOLEAN
  <2>1. q.shared = (q.count > 0) /\ q.shared \in BOOLEAN
      BY <1>3, <1>4, SharedComes
  <2>2. q.count = Cardinality(Living(q)) /\ q.count \in Nat
      BY <1>3, <1>4, <1>6
  <2>3. QED
      BY <2>1, <2>2
<1> HIDE DEF k
<1>8. q \in PoolType
    BY <1>1, <1>4, <1>7 DEF PoolType
<1>9. \A x \in Contexts : Users(g, x) <= q.refcnt[x]
  <2>1. Users(f, k) <= 0
      BY <1>1, <1>3 DEF PoolOK
  <2>2. \A x \in Contexts : Users(f, x) <= p.refcnt[x]
      BY DEF PoolOK
  <2>3. QED
      BY <1>2, <1>3, <1>4, <2>1, <2>2
<1>10. \A x \in Contexts : x > n + 1 => q.refcnt[x] = 0
  <2>1. \A x \in Contexts : x > n + 1 => x # k /\ x > n
      BY Bounds DEF k
  <2>2. QED
      BY <1>4, <2>1 DEF PoolOK
<1>11. QED
    BY <1>7, <1>8, <1>9, <1>10 DEF PoolOK, q, g, k

LEMMA DetachKeeps ==
    ASSUME NEW p, NEW n, NEW f, PoolOK(p, f, n)
    PROVE  PoolOK(Detached(p), f, n)
<1> DEFINE q == Detached(p)
<1>1. q \in PoolType /\ q.refcnt = p.refcnt /\ q.count = p.count /\ q.shared = p.shared
    BY DEF PoolOK, PoolType, Detached
<1> HIDE DEF q
<1>2. Living(q) = Living(p)
    BY <1>1 DEF Living
<1>3. PoolOK(q, f, n)
    BY <1>1, <1>2 DEF PoolOK
<1>4. QED
    BY <1>3 DEF q
-------------------------------------------------------------------------------
(* Who holds what, at every step.                                          *)

CredentialTypes == /\ pointer \in [Credentials -> {"null", "flash", "heap", "freed"}]
                   /\ length \in [Credentials -> BOOLEAN]
                   /\ dynamic \in [Credentials -> BOOLEAN]

TlsInv == /\ ssl \in [Handles -> 0 .. MaxConnects]
          /\ connects \in 0 .. MaxConnects
          /\ PoolOK(pool, ssl, connects)
          /\ CredentialTypes
          /\ CredentialsAreOwned

LEMMA TlsBegins == TlsInit => TlsInv
<1> SUFFICES ASSUME TlsInit
             PROVE  TlsInv
    OBVIOUS
<1>1. /\ ssl \in [Handles -> 0 .. MaxConnects] /\ connects \in 0 .. MaxConnects
      /\ pool \in PoolType /\ \A k \in Contexts : pool.refcnt[k] = 0
    BY Bounds DEF TlsInit, PoolType
<1>2. \A k \in Contexts : Users(ssl, k) = 0
    BY Bounds, UsersType DEF TlsInit
<1>3. Living(pool) = {} /\ Cardinality(Living(pool)) = 0
    BY <1>1, FS_EmptySet DEF Living
<1>4. pool.count = 0 /\ pool.shared = (pool.count > 0)
  <2>1. pool.count = 0 /\ pool.shared = FALSE
      BY DEF TlsInit
  <2>2. (0 > 0) = FALSE
      OBVIOUS
  <2>3. QED
      BY <2>1, <2>2, Zenon
<1>5. PoolOK(pool, ssl, connects)
  <2>1. \A k \in Contexts : Users(ssl, k) <= pool.refcnt[k]
      BY <1>1, <1>2
  <2>2. pool.count = Cardinality(Living(pool))
      BY <1>3, <1>4
  <2>3. QED
      BY <1>1, <1>4, <2>1, <2>2 DEF PoolOK
<1>6. CredentialTypes /\ CredentialsAreOwned
    BY DEF TlsInit, CredentialTypes, CredentialsAreOwned
<1>7. QED
    BY <1>1, <1>5, <1>6 DEF TlsInv

\* Steps that leave the pool and the credentials alone.
LEMMA TlsQuiet ==
    ASSUME TlsInv, UNCHANGED <<ssl, pool, connects, credentials>>
    PROVE  TlsInv'
    BY DEF TlsInv, credentials, CredentialTypes, CredentialsAreOwned, PoolOK, Living

\* Steps that leave the credentials alone.
LEMMA PoolMoves ==
    ASSUME TlsInv, UNCHANGED credentials,
           ssl' \in [Handles -> 0 .. MaxConnects], connects' \in 0 .. MaxConnects,
           PoolOK(pool', ssl', connects')
    PROVE  TlsInv'
    BY DEF TlsInv, credentials, CredentialTypes, CredentialsAreOwned, PoolOK, Living

LEMMA CredentialSteps ==
    ASSUME TlsInv, NEW c \in Credentials, SetCredential(c) \/ LoadCredential(c)
    PROVE  TlsInv'
<1>1. UNCHANGED <<ssl, pool, connects>>
    BY DEF SetCredential, LoadCredential, handles, contexts
<1>2. CredentialTypes /\ CredentialsAreOwned
    BY DEF TlsInv
<1>3. CASE SetCredential(c)
  <2>1. /\ pointer' = [pointer EXCEPT ![c] = "flash"]
        /\ length' = [length EXCEPT ![c] = TRUE]
        /\ dynamic' = [dynamic EXCEPT ![c] = FALSE]
      BY <1>2, <1>3 DEF SetCredential, CredentialTypes, CredentialsAreOwned
  <2>2. CredentialTypes' /\ CredentialsAreOwned'
      BY <1>2, <2>1 DEF CredentialTypes, CredentialsAreOwned
  <2>3. QED
      BY <1>1, <2>2 DEF TlsInv, PoolOK, Living
<1>4. CASE LoadCredential(c)
  <2>1. PICK complete \in BOOLEAN :
            /\ pointer' = [pointer EXCEPT ![c] = IF complete THEN "heap" ELSE "freed"]
            /\ length' = [length EXCEPT ![c] = complete]
            /\ dynamic' = [dynamic EXCEPT ![c] = complete \/ (@ /\ pointer[c] = "null")]
      BY <1>4 DEF LoadCredential
  <2>2. dynamic' = [dynamic EXCEPT ![c] = complete]
      BY <1>2, <2>1 DEF CredentialTypes, CredentialsAreOwned
  <2>3. CredentialTypes' /\ CredentialsAreOwned'
      BY <1>2, <2>1, <2>2 DEF CredentialTypes, CredentialsAreOwned
  <2>4. QED
      BY <1>1, <2>3 DEF TlsInv, PoolOK, Living
<1>5. QED
    BY <1>3, <1>4

LEMMA ClearOwns ==
    ASSUME CredentialTypes, CredentialsAreOwned, Clear(Credentials)
    PROVE  CredentialTypes' /\ CredentialsAreOwned'
<1>1. \A c \in Credentials : /\ pointer'[c] = "null"
                             /\ length'[c] = FALSE
                             /\ dynamic'[c] = FALSE
    BY DEF Clear, CredentialTypes, CredentialsAreOwned
<1>2. CredentialTypes'
    BY <1>1 DEF Clear, CredentialTypes
<1>3. QED
    BY <1>1, <1>2 DEF CredentialsAreOwned

LEMMA TlsStep == TlsInv /\ [TlsNext]_tlsVars => TlsInv'
<1> SUFFICES ASSUME TlsInv, [TlsNext]_tlsVars
             PROVE  TlsInv'
    OBVIOUS
<1>1. /\ ssl \in [Handles -> 0 .. MaxConnects] /\ connects \in 0 .. MaxConnects
      /\ connects \in Nat /\ PoolOK(pool, ssl, connects) /\ MaxConnects \in Nat
      /\ NoContext \in 0 .. MaxConnects
    BY Bounds DEF TlsInv
<1>2. ASSUME NEW c \in Credentials, SetCredential(c) \/ LoadCredential(c)
      PROVE  TlsInv'
    BY <1>2, CredentialSteps
<1>3. ASSUME NEW h \in Handles, Construct(h)
      PROVE  TlsInv'
    BY <1>3, TlsQuiet DEF Construct, contexts
<1>4. ASSUME NEW h \in Handles, NEW other \in Handles, Copy(h, other) \/ Assign(h, other)
      PROVE  TlsInv'
  <2>1. /\ ssl' = [ssl EXCEPT ![h] = ssl[other]] /\ pool' = Ref(pool, ssl[other])
        /\ UNCHANGED <<credentials, connects>>
      BY <1>4 DEF Copy, Assign
  <2>2. PoolOK(pool', ssl', connects')
      BY <1>1, <2>1, RefKeeps
  <2>3. ssl' \in [Handles -> 0 .. MaxConnects]
      BY <1>1, <2>1
  <2>4. QED
      BY <1>1, <2>1, <2>2, <2>3, PoolMoves
<1>5. ASSUME NEW h \in Handles, Destroy(h)
      PROVE  TlsInv'
  <2>1. /\ ssl' = [ssl EXCEPT ![h] = NoContext] /\ pool' = Unref(pool, ssl[h])
        /\ UNCHANGED connects /\ (Clear(Credentials) \/ UNCHANGED credentials)
      BY <1>5 DEF Destroy
  <2>2. PoolOK(pool', ssl', connects')
      BY <1>1, <2>1, UnrefKeeps
  <2>3. ssl' \in [Handles -> 0 .. MaxConnects]
      BY <1>1, <2>1
  <2>4. CASE Clear(Credentials)
      BY <1>1, <2>1, <2>2, <2>3, <2>4, ClearOwns DEF TlsInv, PoolOK, Living
  <2>5. CASE UNCHANGED credentials
      BY <1>1, <2>1, <2>2, <2>3, <2>5, PoolMoves
  <2>6. QED
      BY <2>1, <2>4, <2>5
<1>6. ASSUME NEW h \in Handles, ConnectFails(h) \/ Stop(h)
      PROVE  TlsInv'
  <2>1. pool' \in {pool, Detached(pool)} /\ UNCHANGED <<ssl, connects, credentials>>
      BY <1>6 DEF ConnectFails, Stop, Stopped
  <2>2. PoolOK(pool', ssl', connects')
      BY <1>1, <2>1, DetachKeeps
  <2>3. QED
      BY <1>1, <2>1, <2>2, PoolMoves
<1>7. ASSUME NEW h \in Handles, Connect(h)
      PROVE  TlsInv'
  <2> DEFINE n == connects + 1
             less == Unref(Stopped(h), ssl[h])
             without == [ssl EXCEPT ![h] = NoContext]
             fresh == NewContext(less, n)
             with == [ssl EXCEPT ![h] = n]
  <2>1. /\ connects < MaxConnects /\ connects' = n /\ UNCHANGED credentials
        /\ \/ pool' = fresh /\ ssl' = with
           \/ pool' = Unref(fresh, n) /\ ssl' = without
      BY <1>7 DEF Connect
  <2>2. n \in 0 .. MaxConnects /\ n \in Nat
      BY <1>1, <2>1
  <2>3. PoolOK(Stopped(h), ssl, connects)
      BY <1>1, DetachKeeps DEF Stopped
  <2>4. without \in [Handles -> 0 .. MaxConnects] /\ with \in [Handles -> 0 .. MaxConnects]
      BY <1>1, <2>2
  <2>5. PoolOK(less, without, connects)
      BY <1>1, <2>3, UnrefKeeps
  <2>6. /\ [without EXCEPT ![h] = n] = with /\ [with EXCEPT ![h] = NoContext] = without
        /\ with[h] = n
      BY <1>1, <2>2
  <2> HIDE DEF less, without, with
  <2>7. PoolOK(fresh, with, n)
      BY <1>1, <2>1, <2>4, <2>5, <2>6, NewKeeps
  <2> HIDE DEF fresh
  <2>8. PoolOK(Unref(fresh, n), without, n)
    <3> HIDE DEF n
    <3>1. PoolOK(Unref(fresh, with[h]), [with EXCEPT ![h] = NoContext], n)
        BY <2>2, <2>4, <2>7, UnrefKeeps
    <3>2. QED
        BY <2>6, <3>1
  <2>9. PoolOK(pool', ssl', connects') /\ ssl' \in [Handles -> 0 .. MaxConnects]
      BY <2>1, <2>4, <2>7, <2>8
  <2>10. QED
      BY <2>1, <2>2, <2>9, PoolMoves
<1>8. ASSUME NEW h \in Handles, Write(h)
      PROVE  TlsInv'
  <2>1. /\ ssl' = [ssl EXCEPT ![h] = NoContext] /\ pool' = Unref(pool, ssl[h])
        /\ UNCHANGED <<connects, credentials>>
      BY <1>8 DEF Write
  <2>2. PoolOK(pool', ssl', connects')
      BY <1>1, <2>1, UnrefKeeps
  <2>3. ssl' \in [Handles -> 0 .. MaxConnects]
      BY <1>1, <2>1
  <2>4. QED
      BY <1>1, <2>1, <2>2, <2>3, PoolMoves
<1>9. ASSUME NEW h \in Handles, Available(h) \/ Read(h)
      PROVE  TlsInv'
    BY <1>9, TlsQuiet DEF Available, Read, handles
<1>10. CASE PeerCloses
    BY <1>10, TlsQuiet DEF PeerCloses, handles, contexts
<1>11. CASE UNCHANGED tlsVars
    BY <1>11, TlsQuiet DEF tlsVars, handles, contexts
<1>12. QED
    BY <1>2, <1>3, <1>4, <1>5, <1>6, <1>7, <1>8, <1>9, <1>10, <1>11 DEF TlsNext

\* No session is deleted that a handle still uses, SSL_CTX lives as long as a
\* context, and certificate and key are freed once (OwnershipHolds), for any
\* number of handles, references and connections
\* (WiFiClientSecure.cpp:65-97, 221-289, 477-535).
THEOREM OwnershipIsKept == TlsSpec => []OwnershipHolds
<1>1. TlsInit => TlsInv
    BY TlsBegins
<1>2. TlsInv /\ [TlsNext]_tlsVars => TlsInv'
    BY TlsStep
<1>3. TlsInv => OwnershipHolds
    BY DEF TlsInv, OwnershipHolds, PoolOK, Living, SessionsAreHeld, Holders, Users,
           OneSharedContext
<1>4. QED
    BY <1>1, <1>2, <1>3, PTL DEF TlsSpec
===============================================================================
