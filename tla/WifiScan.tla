-------------------------------- MODULE WifiScan --------------------------------
(***************************************************************************)
(* Scans for networks (ESP8266WiFiScan) and what ESP8266WiFiMulti::run()   *)
(* makes of them, on top of WifiStation, and the specification of both.    *)
(* A scan runs on while the program does something else; its callback ends *)
(* the wait of the program only if the scan was not asked for async.       *)
(***************************************************************************)
EXTENDS WifiStation, FiniteSets

CONSTANTS Strengths,  \* the RSSI of a network
          MaxFound    \* bounds the networks a scan finds

ASSUME ScanAssumption == Strengths \subseteq Int /\ MaxFound \in Nat

VARIABLES scanAsync, scanStarted, scanComplete, scanCount, \* _scanAsync, ...
          scanResult  \* _scanResult: the copied list, or None

\* The null pointer is a list of none.
None == <<>>
Found == [net : Nets, rssi : Strengths]

scan == <<scanAsync, scanStarted, scanComplete, scanCount, scanResult>>
vars == <<stationVars, scan>>

ScanInit == /\ scanAsync = FALSE
            /\ scanStarted = FALSE
            /\ scanComplete = FALSE
            /\ scanCount = 0
            /\ scanResult = None

Init == StationInit /\ ScanInit

\* The scan ends with the power.
Restart == /\ PowerCycle
           /\ scanAsync' = FALSE
           /\ scanStarted' = FALSE
           /\ scanComplete' = FALSE
           /\ scanCount' = 0
           /\ scanResult' = None

-------------------------------------------------------------------------------
\* Slip: the list is freed, its count stays.
DeletedButCounted == scanComplete' = FALSE /\ scanResult' = None /\ UNCHANGED scanCount

\* scanDelete(): the count goes with the list.
Deleted == /\ scanComplete' = FALSE
           /\ scanResult' = None
           /\ scanCount' = IF scanResult = None THEN scanCount ELSE 0

ScanDelete == /\ Call
              /\ Deleted
              /\ UNCHANGED <<modes, config, ap, address, link, remote, lookup, settings, thread,
                             faults, scanAsync, scanStarted>>

\* scanNetworks(), if no scan runs. A link that is neither up nor idle is given up.
StartScan(async, fails) ==
    /\ UNCHANGED settings
    /\ EnableSta(fails)
    /\ \E status \in LinkIn(mode') :
         IF status \in {"gotip", "idle"} THEN UNCHANGED config /\ link' = status ELSE Forget
    /\ scanAsync' = async
    /\ Deleted
    /\ scanStarted' = (fails # "scan")
    /\ IF ~async /\ fails # "scan" THEN pc' = "scan" /\ woken' = FALSE ELSE UNCHANGED <<pc, woken>>
    /\ UNCHANGED <<ap, address, remote, lookup, try>>

ScanSteps == ModeStep(With("STA")) \cup {"scan"}

\* Slip: _scanAsync is set before the look at _scanStarted.
ScanNetworksAsyncFirst ==
    /\ Call
    /\ \E async \in BOOLEAN :
         IF scanStarted
         THEN /\ scanAsync' = async
              /\ UNCHANGED <<modes, config, ap, address, link, remote, lookup, settings, thread,
                             faults, scanStarted, scanComplete, scanCount, scanResult>>
         ELSE \E fails \in Trouble(ScanSteps) : StartScan(async, fails)

ScanNetworks == /\ Call
                /\ \E async \in BOOLEAN :
                     IF scanStarted
                     THEN UNCHANGED <<modes, config, ap, address, link, remote, lookup, settings,
                                      thread, faults, scan>>
                     ELSE \E fails \in Trouble(ScanSteps) : StartScan(async, fails)

\* _scanDone(): a failed scan and one that finds nothing leave a null pointer.
ScanDone == /\ scanStarted
            /\ scanStarted' = FALSE
            /\ scanComplete' = TRUE
            /\ \E n \in 0 .. MaxFound : \E list \in [1 .. n -> Found] :
                 /\ scanCount' = n
                 /\ scanResult' = list
            /\ woken' = IF scanAsync THEN woken ELSE TRUE
            /\ UNCHANGED <<modes, config, ap, address, link, remote, lookup, settings, pc, try,
                           calls, faults, scanAsync>>

ScanReturns == /\ pc = "scan"
               /\ woken
               /\ pc' = "run"
               /\ woken' = FALSE
               /\ UNCHANGED <<modes, config, ap, address, link, remote, lookup, settings, try, calls,
                              faults, scan>>

-------------------------------------------------------------------------------
(* ESP8266WiFiMulti::run() for the networks in Listed.                     *)

Known == {Listed[i] : i \in 1 .. Len(Listed)}

\* The first of the strongest ones it knows; 0: there is none.
Best(list) ==
    LET better[i \in 0 .. Len(list)] ==
          IF i = 0 THEN 0
          ELSE LET best == better[i - 1]
               IN  IF list[i].net \in Known /\ (best = 0 \/ list[i].rssi > list[best].rssi)
                   THEN i ELSE best
    IN  better[Len(list)]

\* The result of a scan is used once, also when it holds nothing known.
MultiAnalyses ==
    /\ scanComplete
    /\ scanCount > 0
    /\ Deleted
    /\ LET best == Best(scanResult)
       IN  IF best = 0
           THEN UNCHANGED <<modes, config, ap, address, link, remote, lookup, settings, pc, faults>>
           ELSE /\ \E fails \in Trouble(ModeStep(With("STA"))) :
                     BeginWith(Config(scanResult[best].net, TRUE), TRUE, fails)
                /\ pc' = "multi"
    /\ UNCHANGED <<try, woken, scanAsync, scanStarted>>

\* No result, or none of use: the configuration is forgotten and a scan started.
MultiScans == /\ ~(scanComplete /\ scanCount > 0)
              /\ UNCHANGED settings
              /\ Forget
              /\ \E fails \in Trouble(ScanSteps) :
                   /\ EnableSta(fails)
                   /\ scanStarted' = (fails # "scan")
              /\ scanAsync' = TRUE
              /\ Deleted
              /\ UNCHANGED <<ap, address, remote, lookup, thread>>

MultiRun == /\ Call
            /\ IF link = "gotip" \/ scanStarted
               THEN UNCHANGED <<modes, config, ap, address, link, remote, lookup, settings, thread,
                                faults, scan>>
               ELSE MultiAnalyses \/ MultiScans

\* The loop ends with a connection or a failure only.
MultiReturns == /\ pc = "multi"
                /\ link \in {"gotip", "noap", "wrong"}
                /\ pc' = "run"
                /\ UNCHANGED <<modes, config, ap, address, link, remote, lookup, settings, try, woken,
                               calls, faults, scan>>

-------------------------------------------------------------------------------
Setup == Boot \/ SetupResult \/ SetupBegin \/ SetupTried
Returns == ResultReturns \/ HostReturns \/ WpsReturns
LinkResults == Join \/ NotFound \/ Refused
Callbacks == DnsFound \/ WpsStatus \/ SmartLink \/ SmartLinkOver

Program == \/ Persistent \/ Mode \/ SleepBegin \/ SleepWake \/ HostByName
           \/ Begin \/ BeginAsStored \/ ConfigIp \/ Reconnect \/ Disconnect \/ WaitForResult
           \/ BeginWps \/ BeginSmartConfig \/ StopSmartConfig
           \/ SoftAp \/ SoftApConfig \/ SoftApDisconnect

StationNext == Setup \/ Returns \/ LinkResults \/ Callbacks \/ Lose \/ Program

Next == \/ StationNext /\ UNCHANGED scan
        \/ ScanDelete \/ ScanNetworks \/ ScanDone \/ ScanReturns
        \/ MultiRun \/ MultiReturns
        \/ Restart

Spec == Init /\ [][Next]_vars

\* The program goes on where it can, and the SDK answers.
FairSpec == /\ Spec
            /\ WF_vars(Setup /\ UNCHANGED scan)
            /\ WF_vars(LinkResults /\ UNCHANGED scan)

-------------------------------------------------------------------------------
(* Properties.                                                             *)

\* The variables take the values listed at their declarations.
TypeOK == /\ {mode, flashMode, lastMode} \subseteq SUBSET Interfaces
          /\ {conf, flashConf} \subseteq Configs
          /\ {apConf, flashApConf} \subseteq {"blank", "own"}
          /\ apNet \in {"none", "default", "own"}
          /\ link \in {"idle", "connecting", "noap", "wrong", "gotip"}
          /\ {dhcp, wps, persistent, staticIp, woken} \subseteq BOOLEAN
          /\ lookup \in {"none", "asked", "answered"}
          /\ smart \in {"off", "started", "done"}
          /\ pc \in Places
          /\ try \in 1 .. Len(Listed)
          /\ calls \in 0 .. MaxCalls
          /\ faults \in 0 .. MaxFaults
          /\ {scanAsync, scanStarted, scanComplete} \subseteq BOOLEAN
          /\ scanCount \in 0 .. MaxFound
          /\ \E n \in 0 .. MaxFound : scanResult \in [1 .. n -> Found]

\* "Verhindert das neuschreiben des Flash" (setup.ino:9): once persistent(false)
\* has been called, no function writes a mode or a configuration to flash. WPS
\* and SmartConfig do: what they learn does not come through begin().
\* The flag that setAutoConnect() keeps in flash (ESP8266WiFiSTA.cpp:301-307) is
\* neither and not modelled.
FlashSpared == [][persistent' \/ UNCHANGED flash \/ WpsStatus \/ SmartLink]_vars

\* A callback finds what it is for: the one of a lookup its caller with the
\* address to write to, the one that wakes the program the call that waits for
\* it, and the one of a scan no list that it would lose. The number of networks
\* is that of the list.
CallbacksFindTheirPlace ==
    /\ lookup # "none" => pc = "dns"
    /\ woken => \/ pc = "dns" /\ lookup = "answered"
                \/ pc = "wps" /\ ~wps
                \/ pc = "scan" /\ scanComplete
    /\ scanStarted => scanResult = None /\ ~scanComplete
    /\ scanCount = Len(scanResult)

\* A static address is not taken over by the DHCP client, whichever of config(),
\* begin() and run() starts or stops it, and in whatever order.
StaticAddressStays == ~(dhcp /\ staticIp)

\* setupWifi() comes to an end, if a network of its list answers, also over
\* networks that do not, and after losses of power.
SetupConnects == pc \in InSetup ~> pc = "run"
===============================================================================
