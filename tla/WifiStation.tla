------------------------------ MODULE WifiStation ------------------------------
(***************************************************************************)
(* The station and the access point of the ESP8266 as the SDK keeps them,  *)
(* the functions of ESP8266WiFi that configure them (Generic, STA, AP),    *)
(* and setupWifi() of the sketch.  The SDK's part is what these functions  *)
(* rely on.  WifiScan adds the scans and makes a specification of both.    *)
(*                                                                         *)
(* The program is one thread.  Callbacks of the SDK run while it waits;    *)
(* esp_schedule() ends whatever wait it is in.                             *)
(***************************************************************************)
EXTENDS Integers, Sequences

CONSTANTS Nets,       \* the names of networks
          Reach,      \* how each answers: "open" to us, "locked", or "absent"
          Listed,     \* ssid[] of the sketch
          MaxCalls,   \* bounds the calls of a program after setupWifi()
          MaxFaults   \* bounds losses of power and of networks, failing SDK calls

ASSUME WifiAssumption == /\ Reach \in [Nets -> {"open", "locked", "absent"}]
                         /\ Listed \in Seq(Nets) \ {<<>>}
                         /\ {MaxCalls, MaxFaults} \subseteq Nat

Interfaces == {"STA", "AP"}
Blank == <<>>

\* A station_config: the network, and whether bssid_set.
Config(net, bound) == <<net, bound>>
Configs == (Nets \X BOOLEAN) \cup {Blank}

VARIABLES
    \* the SDK
    mode, flashMode,     \* WIFI_OFF is {}
    conf, flashConf,     \* the station's configuration, in RAM and in flash
    apConf, flashApConf, \* the access point's: "blank" or "own"
    apNet,               \* its addresses: "none", "default" or "own"
    link,                \* wifi_station_get_connect_status()
    dhcp,                \* the station's DHCP client runs
    wps,                 \* WPS runs
    lookup,              \* dns_gethostbyname(): "none", "asked" or "answered"
    \* ESP8266WiFi
    persistent,          \* _persistent
    staticIp,            \* _useStaticIp
    lastMode,            \* _forceSleepLastMode
    smart,               \* _smartConfigStarted, _smartConfigDone: "off", "started", "done"
    \* the program
    pc,                  \* see Places
    try,                 \* i of setupWifi()
    woken,               \* esp_schedule() has been called in this wait
    calls, faults

InSetup == {"boot", "result", "begin", "tried"} \* the parts of setupWifi()
InLoops == {"wait", "multi"}  \* in waitForConnectResult(), in ESP8266WiFiMulti::run()
InYield == {"dns", "wps", "scan"}               \* in esp_yield() for a callback
Places  == InSetup \cup InLoops \cup InYield \cup {"run"} \* "run": between two calls

flash    == <<flashMode, flashConf, flashApConf>>
modes    == <<mode, flashMode>>
config   == <<conf, flashConf>>
ap       == <<apConf, flashApConf, apNet>>
address  == <<dhcp, staticIp>>
remote   == <<wps, smart>>
settings == <<persistent, lastMode>>
thread   == <<pc, try, woken>>
stationVars == <<modes, config, ap, address, link, remote, lookup, settings, thread, calls, faults>>

\* What the SDK makes of its configuration: it connects by itself.
StationLink(m, c) == IF "STA" \in m /\ c # Blank THEN "connecting" ELSE "idle"

StationInit == /\ flashMode \in {{"AP"}, {"STA"}}
               /\ flashConf \in {Blank, Config(Listed[1], FALSE)}
               /\ flashApConf = "own"
               /\ mode = flashMode
               /\ conf = flashConf
               /\ apConf = flashApConf
               /\ apNet = "none"
               /\ link = StationLink(flashMode, flashConf)
               /\ dhcp = TRUE
               /\ staticIp = FALSE
               /\ wps = FALSE
               /\ smart = "off"
               /\ lookup = "none"
               /\ persistent = TRUE
               /\ lastMode = {}
               /\ pc = "boot"
               /\ try = 1
               /\ woken = FALSE
               /\ calls = 0
               /\ faults = 0

-------------------------------------------------------------------------------
(* The SDK.                                                                *)

\* Which of these calls of the SDK fails: one at most in a function, MaxFaults in all.
Trouble(steps) == {"none"} \cup IF faults < MaxFaults THEN steps ELSE {}
Fails(step) == faults' = IF step = "none" THEN faults ELSE faults + 1

\* What becomes of the link with the mode; a station that is switched on may
\* connect by itself.
LinkIn(m) == IF "STA" \notin m THEN {"idle"}
             ELSE IF "STA" \in mode THEN {link}
             ELSE {"idle", StationLink(m, conf)}

Target == Reach[conf[1]]

LinkResult(from, reach, to) == /\ link \in from
                               /\ conf # Blank
                               /\ Target = reach
                               /\ link' = to
                               /\ UNCHANGED <<modes, config, ap, address, remote, lookup, settings,
                                              thread, calls, faults>>

Join     == LinkResult({"connecting", "noap"}, "open", "gotip")
NotFound == LinkResult({"connecting"}, "absent", "noap")
Refused  == LinkResult({"connecting"}, "locked", "wrong")

Fault == faults < MaxFaults /\ faults' = faults + 1

Lose == /\ Fault
        /\ link = "gotip"
        /\ link' \in {"connecting", "noap"}
        /\ UNCHANGED <<modes, config, ap, address, remote, lookup, settings, thread, calls>>

\* All but the flash starts again.
PowerCycle == /\ Fault
              /\ UNCHANGED <<flash, calls>>
              /\ mode' = flashMode /\ conf' = flashConf
              /\ apConf' = flashApConf /\ apNet' = "none"
              /\ link' = StationLink(flashMode, flashConf)
              /\ dhcp' = TRUE /\ staticIp' = FALSE
              /\ wps' = FALSE /\ smart' = "off"
              /\ lookup' = "none"
              /\ persistent' = TRUE /\ lastMode' = {}
              /\ pc' = "boot" /\ try' = 1 /\ woken' = FALSE

-------------------------------------------------------------------------------
(* Generic: the mode.                                                      *)

\* mode(m) asks the SDK only for another mode.
SetMode(m, ok) == /\ mode' = IF ok THEN m ELSE mode
                  /\ flashMode' = IF ok /\ persistent' /\ m # mode THEN m ELSE flashMode
ModeStep(m) == IF m = mode THEN {} ELSE {"mode"}

\* enableSTA(true), enableAP(true)
With(interface) == mode \cup {interface}

\* A call of the program, when it is past setupWifi().
Call == /\ pc = "run"
        /\ calls < MaxCalls
        /\ calls' = calls + 1

Persistent == /\ Call
              /\ persistent' \in BOOLEAN
              /\ UNCHANGED <<modes, config, ap, address, link, remote, lookup, lastMode, thread,
                             faults>>

Mode == /\ Call
        /\ \E m \in SUBSET Interfaces : \E fails \in Trouble(ModeStep(m)) :
             /\ UNCHANGED settings
             /\ SetMode(m, fails # "mode")
             /\ Fails(fails)
        /\ link' \in LinkIn(mode')
        /\ UNCHANGED <<config, ap, address, remote, lookup, thread>>

\* forceSleepBegin(): the mode to come back to is the one it finds.
SleepBegin == /\ Call
              /\ lastMode' = mode
              /\ UNCHANGED persistent
              /\ \E fails \in Trouble(ModeStep({})) : SetMode({}, fails # "mode") /\ Fails(fails)
              /\ link' \in LinkIn(mode')
              /\ UNCHANGED <<config, ap, address, remote, lookup, thread>>

SleepWake == /\ Call
             /\ UNCHANGED settings
             /\ \E fails \in Trouble(ModeStep(lastMode)) :
                  /\ SetMode(lastMode, fails # "mode")
                  /\ Fails(fails)
                  /\ IF fails = "none" /\ "STA" \in lastMode
                     THEN link' = StationLink(lastMode, conf)
                     ELSE link' \in LinkIn(mode')
             /\ UNCHANGED <<config, ap, address, remote, lookup, thread>>

\* hostByName(): the answer is at hand, or a callback brings it.
HostByName == /\ Call
              /\ \/ UNCHANGED <<lookup, pc, woken>>
                 \/ lookup' = "asked" /\ pc' = "dns" /\ woken' = FALSE
              /\ UNCHANGED <<modes, config, ap, address, link, remote, settings, try, faults>>

\* wifi_dns_found_callback(): writes to the caller's aResult.
DnsFound == /\ lookup = "asked"
            /\ lookup' = "answered"
            /\ woken' = TRUE
            /\ UNCHANGED <<modes, config, ap, address, link, remote, settings, pc, try, calls, faults>>

HostReturns == /\ pc = "dns"
               /\ woken
               /\ pc' = "run"
               /\ woken' = FALSE
               /\ lookup' = IF lookup = "answered" THEN "none" ELSE lookup
               /\ UNCHANGED <<modes, config, ap, address, link, remote, settings, try, calls, faults>>

-------------------------------------------------------------------------------
(* STA.                                                                    *)

\* A configuration goes to RAM, and to flash too while _persistent is set.
SetConf(c) == /\ conf' = c
              /\ flashConf' = IF persistent THEN c ELSE flashConf

\* Slip: without the look at _useStaticIp.
StartDhcpAlways == dhcp' = TRUE

\* The client runs on or starts, unless the address is a static one.
StartDhcp == dhcp' = (dhcp \/ ~staticIp)

EnableSta(fails) == SetMode(With("STA"), fails # "mode") /\ Fails(fails)

\* begin(ssid, ...): config is written only if it differs from the one in RAM.
BeginWith(c, connect, fails) ==
    /\ UNCHANGED settings
    /\ EnableSta(fails)
    /\ IF fails = "mode"
       THEN UNCHANGED <<config, dhcp, link>>
       ELSE /\ IF conf = c THEN UNCHANGED config ELSE SetConf(c)
            /\ StartDhcp
            /\ IF connect THEN link' = "connecting" ELSE link' \in LinkIn(mode')
    /\ UNCHANGED <<ap, staticIp, remote, lookup>>

Begin == /\ Call
         /\ \E net \in Nets, connect \in BOOLEAN : \E fails \in Trouble(ModeStep(With("STA"))) :
              BeginWith(Config(net, FALSE), connect, fails)
         /\ UNCHANGED thread

\* begin() connects with the configuration there is.
BeginAsStored == /\ Call
                 /\ UNCHANGED settings
                 /\ \E fails \in Trouble(ModeStep(With("STA"))) :
                      /\ EnableSta(fails)
                      /\ IF fails = "mode" THEN UNCHANGED <<dhcp, link>>
                         ELSE StartDhcp /\ link' = StationLink(mode', conf)
                 /\ UNCHANGED <<config, ap, staticIp, remote, lookup, thread>>

\* config(): without addresses it goes back to DHCP.
ConfigIp == /\ Call
            /\ UNCHANGED settings
            /\ \E static \in BOOLEAN, fails \in Trouble(ModeStep(With("STA")) \cup {"address"}) :
                 /\ fails = "address" => static
                 /\ EnableSta(fails)
                 /\ CASE fails = "mode"    -> UNCHANGED address
                      [] fails = "address" -> dhcp' = FALSE /\ UNCHANGED staticIp
                      [] OTHER             -> dhcp' = ~static /\ staticIp' = static
            /\ link' \in LinkIn(mode')
            /\ UNCHANGED <<config, ap, remote, lookup, thread>>

Reconnect == /\ Call
             /\ \E fails \in Trouble({"disconnect"}) :
                  /\ "STA" \notin mode => fails = "none"
                  /\ link' = IF "STA" \in mode /\ fails = "none" THEN StationLink(mode, conf) ELSE link
                  /\ Fails(fails)
             /\ UNCHANGED <<modes, config, ap, address, remote, lookup, settings, thread>>

\* Slip: wifi_station_set_config() whatever _persistent says.
ForgetInFlash == conf' = Blank /\ flashConf' = Blank /\ link' = "idle"

\* disconnect() forgets the network.
Forget == SetConf(Blank) /\ link' = "idle"

Disconnect == /\ Call
              /\ UNCHANGED settings
              /\ Forget
              /\ \E off \in BOOLEAN :
                   LET m == IF off THEN mode \ {"STA"} ELSE mode
                   IN  \E fails \in Trouble(ModeStep(m)) : SetMode(m, fails # "mode") /\ Fails(fails)
              /\ UNCHANGED <<ap, address, remote, lookup, thread>>

\* Slip: a failure is not a result.
OnlySuccess == "STA" \notin mode \/ link = "gotip"

\* waitForConnectResult(): no station, or a status other than WL_DISCONNECTED.
ResultKnown == "STA" \notin mode \/ link # "connecting"
Connected   == "STA" \in mode /\ link = "gotip"

WaitForResult == /\ Call
                 /\ pc' = "wait"
                 /\ UNCHANGED <<modes, config, ap, address, link, remote, lookup, settings, try,
                                woken, faults>>

ResultReturns == /\ pc = "wait"
                 /\ ResultKnown
                 /\ pc' = "run"
                 /\ UNCHANGED <<modes, config, ap, address, link, remote, lookup, settings, try,
                                woken, calls, faults>>

-------------------------------------------------------------------------------
(* STA: WPS and SmartConfig.                                               *)

WpsSteps == {"disable", "enable", "callback", "start"}

BeginWps == /\ Call
            /\ UNCHANGED settings
            /\ \E fails \in Trouble(ModeStep(With("STA")) \cup WpsSteps) :
                 /\ EnableSta(fails)
                 /\ IF fails = "mode" THEN UNCHANGED <<config, link>> ELSE Forget
                 /\ IF fails = "none" THEN wps' = TRUE /\ pc' = "wps" /\ woken' = FALSE
                    ELSE UNCHANGED <<wps, pc, woken>>
            /\ UNCHANGED <<ap, address, smart, lookup, try>>

\* wifi_wps_status_cb(): success, or one of three failures. What WPS learns is
\* the SDK's to store.
WpsStatus == /\ wps
             /\ wps' = FALSE
             /\ woken' = TRUE
             /\ \/ UNCHANGED <<config, link>>
                \/ \E net \in Nets : /\ conf' = Config(net, FALSE)
                                     /\ flashConf' \in {flashConf, conf'}
                                     /\ link' = StationLink(mode, conf')
             /\ UNCHANGED <<modes, ap, address, smart, lookup, settings, pc, try, calls, faults>>

WpsReturns == /\ pc = "wps"
              /\ woken
              /\ pc' = "run"
              /\ woken' = FALSE
              /\ UNCHANGED <<modes, config, ap, address, link, remote, lookup, settings, try, calls,
                             faults>>

BeginSmartConfig ==
    /\ Call
    /\ UNCHANGED settings
    /\ IF smart # "off" THEN UNCHANGED <<modes, link, smart, faults>>
       ELSE \E fails \in Trouble(ModeStep(With("STA")) \cup {"start"}) :
              /\ EnableSta(fails)
              /\ link' \in LinkIn(mode')
              /\ smart' = IF fails = "none" THEN "started" ELSE "off"
    /\ UNCHANGED <<config, ap, address, wps, lookup, thread>>

StopSmart(fails) == /\ smart' = IF fails = "none" THEN "off" ELSE smart
                    /\ Fails(fails)
                    /\ UNCHANGED <<modes, config, ap, address, link, wps, lookup, settings, thread>>

StopSmartConfig == /\ Call
                   /\ \E fails \in Trouble({"stop"}) : (smart = "off" => fails = "none") /\ StopSmart(fails)

\* _smartConfigCallback(): SC_STATUS_LINK, SC_STATUS_LINK_OVER
SmartLink == /\ smart = "started"
             /\ smart' = "done"
             /\ \E net \in Nets : conf' = Config(net, FALSE) /\ flashConf' = conf'
             /\ link' = StationLink(mode, conf')
             /\ UNCHANGED <<modes, ap, address, wps, lookup, settings, thread, calls, faults>>

SmartLinkOver == /\ smart = "done"
                 /\ \E fails \in Trouble({"stop"}) : StopSmart(fails)
                 /\ UNCHANGED calls

-------------------------------------------------------------------------------
(* AP.                                                                     *)

SetApConf(c) == /\ apConf' = c
                /\ flashApConf' = IF persistent THEN c ELSE flashApConf

EnableAp(fails) == SetMode(With("AP"), fails # "mode") /\ Fails(fails)

\* softAP(): an access point without an address gets the default one.
SoftAp == /\ Call
          /\ UNCHANGED settings
          /\ \E fails \in Trouble(ModeStep(With("AP")) \cup {"config", "address"}) :
               /\ fails = "config" => apConf # "own"
               /\ fails = "address" => apNet = "none"
               /\ EnableAp(fails)
               /\ IF fails \in {"mode", "config"} \/ apConf = "own" THEN UNCHANGED <<apConf, flashApConf>>
                  ELSE SetApConf("own")
               /\ apNet' = IF fails = "none" /\ apNet = "none" THEN "default" ELSE apNet
          /\ link' \in LinkIn(mode')
          /\ UNCHANGED <<config, address, remote, lookup, thread>>

SoftApConfig == /\ Call
                /\ UNCHANGED settings
                /\ \E fails \in Trouble(ModeStep(With("AP")) \cup {"address"}) :
                     /\ EnableAp(fails)
                     /\ apNet' = IF fails = "none" THEN "own" ELSE apNet
                /\ link' \in LinkIn(mode')
                /\ UNCHANGED <<config, apConf, flashApConf, address, remote, lookup, thread>>

SoftApDisconnect == /\ Call
                    /\ UNCHANGED settings
                    /\ \E off \in BOOLEAN :
                         LET m == IF off THEN mode \ {"AP"} ELSE mode
                         IN  \E fails \in Trouble(ModeStep(m) \cup {"config"}) :
                               /\ SetMode(m, fails # "mode")
                               /\ Fails(fails)
                               /\ IF fails = "config" THEN UNCHANGED <<apConf, flashApConf>>
                                  ELSE SetApConf("blank")
                    /\ link' \in LinkIn(mode')
                    /\ UNCHANGED <<config, apNet, address, remote, lookup, thread>>

-------------------------------------------------------------------------------
(* setupWifi() of the sketch.                                              *)

Boot == /\ pc = "boot"
        /\ persistent' = FALSE
        /\ \E fails \in Trouble(ModeStep({"STA"})) : SetMode({"STA"}, fails # "mode") /\ Fails(fails)
        /\ link' \in LinkIn(mode')
        /\ pc' = "result"
        /\ UNCHANGED <<config, ap, address, remote, lookup, lastMode, try, woken, calls>>

SetupResult == /\ pc = "result"
               /\ ResultKnown
               /\ pc' = IF Connected THEN "run" ELSE "begin"
               /\ try' = 1
               /\ UNCHANGED <<modes, config, ap, address, link, remote, lookup, settings, woken,
                              calls, faults>>

SetupBegin == /\ pc = "begin"
              /\ pc' = "tried"
              /\ \E fails \in Trouble(ModeStep(With("STA"))) :
                   BeginWith(Config(Listed[try], FALSE), TRUE, fails)
              /\ UNCHANGED <<try, woken, calls>>

\* Slip: one network too many is tried.
SetupTriesOneMore ==
    /\ pc = "tried"
    /\ ResultKnown
    /\ IF Connected \/ try > Len(Listed) THEN pc' = "result" /\ UNCHANGED try
       ELSE pc' = "begin" /\ try' = try + 1
    /\ UNCHANGED <<modes, config, ap, address, link, remote, lookup, settings, woken, calls, faults>>

SetupTried == /\ pc = "tried"
              /\ ResultKnown
              /\ IF Connected \/ try = Len(Listed) THEN pc' = "result" /\ UNCHANGED try
                 ELSE pc' = "begin" /\ try' = try + 1
              /\ UNCHANGED <<modes, config, ap, address, link, remote, lookup, settings, woken,
                             calls, faults>>
===============================================================================
