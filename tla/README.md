# esp-s0-log in TLA+

The logger is an ESP8266 that counts the S0 pulses of a solar meter, books them
every five minutes into a table of daily yields, keeps that table and its
settings in one sector of flash, shows them on web pages and sends them to a
FHEM server. This directory models the parts of it in which order, time,
failure or the layout of memory decide whether the yields are right. TLC checks
the models on small instances, and TLAPS proves the theorems listed below for
all values of the constants.

Paths and line numbers are relative to the repository. `PROJECT.json` holds the
components, the runs, the line map of every definition, the known
disagreements ("findings") and the hazards.

## 1. Inventory

The sketch runs in one thread: `setup()` once, then `loop()` again and again.
What interleaves with it is the interrupt routine that counts pulses, the lwIP
callbacks that put packets into sockets, the passage of time (a mark is over
whether `loop()` has looked or not), and power losses.

| component | source | state | operations | hard behaviour |
|---|---|---|---|---|
| Pulse counting and five-minute work | `esplog.ino`, `loop.ino`, `functions.ino` | `counter`, `tagesCounter` (days of a year), `ausgabe` (day, month, year, maximum, power, meter reading), `fuenfMinutenZaehler` (the day's curve), `yesterday` | `interruptRoutineFalling`, `FuenfMinutenTimer`, midnight, month and January work, `backup2file`, `deleteEEPROM`, `deleteRAM`, `putEeprom` | the interrupt between the reads of `counter` and its reset; midnight books into yesterday; marks that are missed; power lost in the middle |
| Startup | `setup.ino` | RAM restored from flash | `setupNtp`, `setupEeprom` | which day and month a boot belongs to |
| EEPROM emulation | `EEPROM/EEPROM.{h,cpp}` | `_data`, `_dirty`, the sector | `begin`, `get`, `put`, `write`, `commit`, `end` | erase and write are two steps; either may fail or be cut off by a power loss |
| Settings | `websites.ino`, `functions.ino`, `setup.ino`, `esplog.ino` | pulse constant, tariff, generator power, FHEM host and port, offset: in RAM and as floats and bytes at fixed addresses | `handleSetup`, `putEepromValue`, restore in `setupEeprom` | overlapping addresses, an address that is stored byte by byte, the deletion |
| Software clock | `Time/Time.cpp`, `setup.ino`, `loop.ino` | `sysTime`, `prevMillis`, `nextSyncTime`, `syncInterval`, `Status`, `waitTime` | `now`, `setTime`, `setSyncProvider`, `setSyncInterval`, `timeStatus`, the look of `loop()` | `millis()` wraps; `now()` may block and then set the clock; a look may miss second 0 |
| NTP client and UDP socket | `EasyNTPClient`, `WiFiUdp.cpp`, `UdpContext.h` | the chain of packets, `_first_buf_taken`, `_rx_buf_offset` | `getServerTime`, `parsePacket`, `flush`, `next`, `_recv` | replies lost, late, doubled, overtaken; packets left over from an earlier call |
| Calendar | `Time/Time.cpp`, `functions.ino`, `loop.ino` | `cacheTime`, `tm`, `sommerzeit`, `t` | `breakTime`, `refreshCache`, `summertime_EU`, the date `loop()` puts together | the parts of a date are read one after the other, in an order C++ leaves open, and each read may block for a synchronisation; one static `tm` for all times |
| Web pages | `websites.ino` | `fsUploadFile` | pages, commands of the setup page, upload of a file | commands between two rounds of `loop()`; an upload that breaks off |
| Sending to FHEM | `sendfhem.ino` | a `WiFiClient` | one blocking request per value | can outlast a mark |
| HTTP server | `ESP8266WebServer` | the current client and its state, arguments, headers, the upload buffer | `handleClient`, the parsers of requests, forms and files, authorization | timeouts, partial requests, state that is left over from the request before |
| TCP client and server | `WiFiClient.cpp`, `WiFiServer.cpp`, `ClientContext.h` | reference counts, the chain of received packets, bytes in flight, accepted connections | `connect`, `available`, copies, `read`, `flush`, `write`, `stop`, `stopAll`, lwIP callbacks | callbacks between all steps; a free during use; `stopAll()` while `write()` waits |
| Update over the web | `ESP8266HTTPUpdateServer` | `_authenticated`, the `Updater` | upload handler, restart | an upload that breaks off; it stops all UDP sockets |
| WiFi management | `setup.ino`, `ESP8266WiFi{STA,AP,Generic,Scan,Multi}.cpp` | configuration in RAM and flash, DHCP, scan lists, `_persistent` | `setupWifi`, `begin`, `config`, modes, sleep, WPS, SmartConfig, lookups, scans, `WiFiMulti` | SDK calls that fail, callbacks that meet another wait, writes to flash |
| TLS client | `WiFiClientSecure.cpp` | counted sessions, the one `SSL_CTX`, default certificate and key | connect, copy, assign, write, read, stop, load | handles that share sessions, handshakes that fail half-way. Not used by the sketch |

How they interact: `loop()` asks the clock for second 0 of a minute; the clock
asks the NTP client when a synchronisation is due, inside that very call; the
five-minute work writes the table and calls the EEPROM library, which switches
interrupts off while it erases and writes; `handleClient()` runs the setup
page's commands between two rounds of `loop()`, and they share the table, the
EEPROM and the settings with the five-minute work. Web server and FHEM request
are handles on the same TCP contexts; an upload of a firmware stops the UDP
socket of the NTP client; the loss of the access point calls back into both.

What makes each part correct:

* *Pulses and yields*: every pulse is booked once; no energy appears from
  nowhere; the displayed day, month and maximum agree with the table; the table
  in RAM agrees with the one in flash, so a restart loses nothing; the last five
  minutes of a day belong to that day; what January deletes has been backed up;
  pulses do not wait for ever.
* *EEPROM*: a commit replaces the stored image as a whole, and a clean buffer
  is a stored one.
* *Settings*: setting one value never changes another one; a partial or
  interrupted change of an address stores no mixture.
* *Clock*: no millisecond is lost between two settings; synchronisation neither
  stops nor blocks again and again; `loop()` works once on every minute.
* *NTP*: the answer belongs to the question; a reply that came in time is found.
* *Calendar*: the cached date is the date of the time it is kept for; today and
  the summer time belong to one moment.
* *TCP*: a connection lives exactly as long as somebody holds it; every received
  byte is given back to the window once; a write reports what was acknowledged;
  nobody waits for ever.
* *HTTP*: a file that is called complete is what was sent; a request sees its
  own arguments, and a firmware its own authorization; it is answered once;
  every client is let go.
* *WiFi*: the setup comes to an end; flash is not worn out; a static address
  stays; a callback finds what waits for it.
* *TLS*: sessions and context are freed once, and not while a handle holds them;
  certificates are freed once; axTLS reads from a connection that still exists.

## 2. Modules

| module | models | composed of |
|---|---|---|
| `DurableStore` | what a program may expect of a store with a working copy and a durable image | |
| `Eeprom` | the EEPROM library: the calls as operators for its clients, and the steps of a running `commit()`; power loss | |
| `EepromClient` | the library under a client that calls it in any order | `Eeprom`, refines `DurableStore` |
| `EspLog` | pulse counting, five-minute work, startup, backup, deletion, restarts | `Eeprom`, one cell per day |
| `Settings` | the settings page and the restore, with the EEPROM as bytes | `Eeprom`, one cell per byte |
| `Clock` | `Time.cpp`, `setupNtp()` and the look of `loop()` | |
| `NtpClient` | `getServerTime()` over the receive side of `WiFiUDP` and `UdpContext` | |
| `Calendar` | `breakTime`, its cache, `summertime_EU()` and the date that `loop()` reads | |
| `SharedConnection` | what handles that share a connection promise | |
| `TcpConnections` | `WiFiServer`, `WiFiClient`, `ClientContext` under lwIP's callbacks, and `FHEMHTTPsend()` | refines `SharedConnection` |
| `WebServer` | `handleClient()`, the parsers, the handlers of the sketch, both uploads | |
| `WifiStation` | `setupWifi()`, modes, station, access point, DHCP, flash, WPS, lookups | |
| `WifiScan` | scans and the choice among networks, in the same program | `WifiStation` |
| `TlsClients` | handles of TLS connections and what they share | |
| `EspLog_proof`, `Settings_proof`, `Clock_proof`, `NtpClient_proof`, `TcpConnections_proof`, `WebServer_proof` | theorems and proofs about the module of the same name | |
| `Libraries_proof` | theorems and proofs about `EepromClient` and `Calendar`, which share no state | |
| `ESP8266WiFi_proof` | theorems and proofs about `WifiStation` with `WifiScan`, and about `TlsClients` | |
| `MC*` | instances for TLC | |

Names follow the source (`tagesCounter`, `interruptRoutineFalling`,
`_first_buf_taken` as `taken`, ...). A control variable `pc` is cut where
another actor's step or a power loss makes a difference, and only there.

Operators with a comment that begins "Slip:" are not behaviours of the program.
Each of them is a plausible mistake in the definition that follows it; the
property named with it in `PROJECT.json` must fail when the mistake is made.
They keep the properties honest.

### Eeprom, EepromClient, DurableStore

`data` is `_data` (or `NoBuffer` before `begin()` and after `end()`), `dirty` is
`_dirty`, `flash` the sector. `Put` and `Write` follow `EEPROM.h:50-58` and
`EEPROM.cpp:83-96`: `put` always marks the buffer dirty, `write` only on a
difference. `commit()` is a machine of its own: `phase` goes from "ready" to
"commit" (or "end", when `end()` called it), the sector is erased (`Erase`, or
`EraseFails`), then written (`Program`, or `ProgramFails`), and only a write
that succeeded clears `dirty`. A power loss while `erased` leaves any part of
the buffer written and the rest blank (`Torn`). A failed erase leaves the
sector as it was.

`EepromClient` drives this with arbitrary calls, and `DurableSpec` says that it
implements `DurableStore`: the image the next power-up loads is the working copy
from the erase on; until the commit settles it can only be
spoilt, and nothing else changes it.

### EspLog

The calendar is a parameter: months, days and five-minute marks per day, with
mark 0 the midnight and the last one 23:55. `clock` is standard time, `Summer`
the moments in daylight saving time, `Local` the local time derived from it
(`loop.ino:24-34`), an hour ahead; an hour is `HourMarks` marks (12 in the
code). Its size matters for the day's curve, whose slot is chosen by standard
time (`functions.ino:34`): where the clock is set back the local day has an hour
more than the curve has slots, and its last hour overwrites its first one
(`SetBack`, `Overwritten`; section 5).

`Tick` is the next mark; `due` says that second 0 of it is still to be seen.
`Poll` sees it, `Book`, `Power` and `Reset` are `FuenfMinutenTimer()` cut at its
three accesses to `counter`, with the interrupt routine in between; then
`PutToday`, at midnight `PutYesterday` and `NewDay`, at 23:55 the `Mark` of
`yesterday`, in January `BackupOpen`, `BackupWrite`, `DeletePut`,
`DeleteCommit`, `DeleteEnd` and `NewYear`. The setup page's commands use the
same steps with `caller = "web"`. `SetupNtp` and `SetupEeprom` are the startup.

`Events` says what may happen besides pulses and time, so that a run can ask
what the code promises in a given environment:

| event | meaning |
|---|---|
| `missed` | `loop()` does not see second 0 of a mark, or the work outlasts the next mark |
| `restart` | a restart while `loop()` waits |
| `crash` | power lost at any moment |
| `outage` | the logger stays off while marks pass, and may boot at any moment |
| `flash` | the flash refuses to erase or to write |
| `web` | `clrrom` or `backup` on the setup page |

The history variables `impulse`, `verbucht` and `verloren` count the pulses
seen, booked, and lost at one of three places where the code is known to lose
them: between the read (`functions.ino:9`) and the reset (`:43`) of the counter,
with the power, and in `deleteRAM()`.

Left out or abstracted: `leistung` is the counter without its factor; yields are
whole Wh, so the precision of `float` (exact up to 2^24 Wh) is not modelled; a
blank cell (all ones) leaves the range of `unsigned int` when something is added
to it, and `Sums` lets it wrap or saturate.

### Settings

Here the EEPROM's cells are the bytes 1488 to 1519, and a float is its four
bytes, because the defects are in the layout. `FloatOf`, `Positive` and `Trunc`
do what the conversions do on the values that can occur, denormals and NaN
included. The setup page stores a setting as a float (`SetValue`,
`CommitValue`), the host byte by byte, one step each (`SetIpByte`), and one
commit (`SetIpCommit`). An address has as many parts as fit into the page's
buffer of 20 characters (`websites.ino:186`), up to ten; the code does not stop
at four. The parts behind the fourth are written behind `fhemHost`
(`WriteBehindHost`: undefined behaviour, which may reach the globals that the
linker puts there) and, two bytes apart, over the port and the offset in the
EEPROM, as far as it goes. The deletion of the yield table reaches three bytes
beyond it (`DeletePut`). A power loss during the programming of the sector is
left to `Eeprom` and `EspLog`.

### Clock

`ms` is true time. `millis` wraps after `Wrap`. `now(next)` is `now()` with a
synchronisation due at `next`: it counts the seconds that have passed, keeping
the rest, and if a synchronisation is due asks the server, which takes one of
`Blocked` ms and answers with the true time or not at all. `SetSyncProvider` to
`LongInterval` are the lines of `setupNtp()`; `Loop` is the look at second 0,
with `waitTime` taken before the question, and `Elapse` the rest of a round.

The server is never behind the clock here: the model's time is rounded down. The
real client rounds to the nearest second, so that a synchronisation may set the
clock back by one second; `MinuteOnce` does not cover that.

### NtpClient

A reply is the number of the request that it answers. `net` counts the copies
on their way, `rx` is the chain of packets, and `Events` says whether replies
may be lost, slow (after the last look), overtaken (after the flush of the next
question) or doubled. `Ask` flushes and comes to the lookup of the host name in
`beginPacket()`, which waits; `Transmit` (or `SendFails`) is the rest of the
question; `PollFinds` and `PollFindsNothing` are a round of the loop of
`EasyNTPClient.cpp:65-71`, `GiveUp` its end, behind the last `delay()`. `Deliver`,
the lwIP callback, comes between any two of them. Chain, flush and
`_first_buf_taken` are those of `UdpContext.h`: the first `next()` after a chain
has been started keeps the first packet, later ones drop it; `flush()` only
moves the read position to the end of the first packet.

The socket itself is there too: `Begin` opens it once (`udpInited` is static),
`BeginPacket` gives `Transmit` a context to send through, and with the event
"update" `StopAll` closes it between two questions, as the update server does
at the beginning of a firmware upload. `InTimeIsAnswered` is about the questions
that could be asked; after an upload that breaks off no further one can
(section 5).

Every packet has the 48 bytes of a reply. Left out are multicast, the contents
of the request and the 60 s cache of `getUnixTime()`, which is shorter than the
interval between two synchronisations, and is not used after a failure.

### Calendar

Years, months and days are counted as in `Time.cpp`; the loops of `breakTime()`
and `makeTime()` are what they compute: the days before a year with its leap
years, and the table of the days before a month. `Look` is the test for second 0, `Read` evaluates one
of the four arguments of `summertime_EU()` (`loop.ino:25`), any one that is left,
`Summertime` takes the time and adds the hour, `Minute` and `Today` are the rest.
Every `Now` may block, but only once in a look, because the next synchronisation
is hours away. The clock is not set back while the date is read (it can be, by a
second: `Clock`). `Law` states the European directive, independent of the
formula. Time ends with the beginning of `LastYear` (`EndOfTime`): in the run
1 January 2038, as TLC's integers soon do; in the theorems any year, but for the
law none after 2099, up to which the formula `5 * year / 4` of `functions.ino`
holds.

### SharedConnection, TcpConnections

A `ClientContext` is a number; `made` is the last one. `client` is the `_client`
of each handle, `unclaimed` the list of `WiFiServer`. `refcnt`, `rx` (lengths of
the packets in the chain), `offset` and `sizeSent` are the fields of the
context, `open` says that `_pcb` is not null, and `owed` and `inflight` are what
lwIP knows of the connection. The sketch is one thread, so `pc` is where it
waits: `connecting` in the `esp_yield()` of `connect()`, `writing` in the
`delay(5000)` of `write()`. lwIP (`LwipStep`) acts between any two steps, also
there, and so does `StopAll`, the event callback for a lost access point.
`Connect` may be `stuck`: a `tcp_connect()` that fails is not noticed, and lwIP
calls nobody back. A peer sends as much as the receive window (`TcpWnd`) takes,
again and again, without an end.
`FhemStep` is `FHEMHTTPsend()`; in `loop` the web server's handles are used in
any order. `SharedConnection` has no counts: a connection is freed when nobody
holds it or waits for it any more; `FreedOnceAfterLastUse` says that counting
implements this.

### WebServer

A line of a request is a token, and a byte of an uploaded file is one, because
`_parseForm()` looks for CR LF - - and the boundary byte by byte: `pc` is "file",
"cr", "crlf", "dash", "dashdash" for the bytes already seen. `peer`, `coming` and
`input` are the connection. `Quiet` says that no more comes, so that a read with
a timeout returns nothing; peers are punctual or silent for ever. `status` is
`_currentStatus`. `Routes` are the handlers that `setup.ino` and the update server
register. The events: "silence", "close" (before everything is sent), "station"
(`stopAll()`), "full" and "stack".

With "full" SPIFFS may refuse to open a file and take any part of a chunk
(`Taken`), and the `Updater` may refuse to begin, to write and to end. Neither
handler stops then. An `Updater` keeps its error (`ErrorKept`) and does not make
a firmware with a hole the next start's (`Ended`); a file of SPIFFS has no such
memory, and `short` remembers for the properties that a write took only a part.
With "stack" the bytes that `_parseForm()` compares with the boundary
(`Parsing.cpp:479-482`) may hold it although it did not come; `guessed` remembers
that. Other bytes that were not read are tokens `x`.

`_authenticated` stays set after an upload, as in the code: section 5 says what
that leads to, and `HandledForItsOwnRequest` what it does not.

Abstracted: at most one file in a form, after its text field. The run has a
content with CR LF - - within the length of the boundary before its end, for
which `_parseForm()` swallows the beginning of the real end and waits (section
5). The theorems hold for every content: such a file is never called complete.

### WifiStation, WifiScan

The program is `setupWifi()` followed by any calls of the library, at most
`MaxCalls` of them. In a function at most one call of the SDK fails, and
`MaxFaults` failures happen in all, losses of power and of the network
included. `config` is the SDK's configuration in RAM and `flash` the one in
flash (not the flag of `setAutoConnect()`, which the SDK keeps in flash whatever
`persistent()` says, `ESP8266WiFiSTA.cpp:301-307`: the sketch does not call it); `dhcp` and `staticIp` are the two sources of an address. A call that
waits (`dns`, `wps`, `scan`) sets `pc`, and `woken` is `esp_schedule()`. The SDK
itself is external: the model has of it what these files rely on. Left out are
the registry of event handlers (`ESP8266WiFiGeneric.cpp:55-222`) and the
functions that only read.

### TlsClients

`ssl` is the `_ssl` of each handle and `pool` what all share: the count of every
context, `_ssl_ctx_refcnt`, whether `SSL_CTX` exists, and `s_io_ctx`. `Connect`
may fail before, in and after the handshake; `Write` is the write that fails
(one that succeeds changes nothing here); `LoadCredential` may end in the middle.
`OwnershipHolds` says that sessions are not deleted while a handle holds them and
credentials are freed once; not that a handle keeps its credentials, because a
copy is not counted. `IoIsHeld` says that the connection axTLS reads from is that
of a handle, unless `operator=` has leaked a context (`Leaked`; section 5).
`verify()` and the bytes of a session are left out. The model calls `write()`
only while the session exists: after `_readAll()` has freed it, `write()` would
use a null pointer, and the program is expected to ask `connected()` first.

## 3. Runs

Twelve runs. Eleven must pass; `backup` must find the violation of section 5.

| run | question | instance |
|---|---|---|
| `eeprom` | Does the library implement the durable store under any calls, failures and power losses? | 2 cells, 2 values |
| `regular` | Do displayed yields, RAM, flash and backup agree over the years, with restarts while `loop()` waits and commands of the setup page? | 2 months of 2 days of 4 marks, hours of 2 marks, switches of daylight saving in month 1, 2 pulses, `FairSpec` |
| `power` | What remains true with power losses and flash failures at any step, outages and missed marks? | 2 months of 1 day of 2 marks, 1 pulse, 4 Wh for 3 pulses, a sector that may be blank at first |
| `settings` | Do settings survive restarts, do only they change, is the stored address never a mixture, and do the settings keep their types? | all settings, one or two values each, addresses of 2, 4 and 10 parts, a new and a used sector |
| `ntp` | Is every reply in time found, and does it answer the question? | 3 looks, 4 requests, all events |
| `clock` | Is time kept, synchronisation scheduled, and a minute worked on once? | seconds of 3 ms, minutes of 4 s, `millis()` wraps after 32 ms, 100 ms |
| `calendar` | Are date, cache and summer time right, however long the reading takes? | 28 years (2010 to 2037, `LastYear` = 68): the turn of every month and the hour before every possible change of the clock, blocks of 1 and 3 s, 2 looks |
| `tcp` | Are contexts counted and freed once, is the window given back, do writes report the truth, and does the sketch go on? | 2 connections, 3 handles (one of FHEM), a receive window, writes and a send buffer of 2 bytes, peers without a bound, `size_t` modulo 8, `FairSpec` |
| `web` | Is a complete file the one sent, is a request handled once and as its own, and is every client let go? | 2 requests of 15 kinds, a buffer of 2 bytes, a boundary of 2, all events, `FairSpec` |
| `wifi` | Does the setup end, is flash spared, does an address stay, do callbacks find their wait? | a network that refuses, one that takes the station, one that is absent, 3 calls, 1 fault, `FairSpec` |
| `tls` | Is no session deleted while it is held, nothing freed twice, and does axTLS read from a connection that exists? | 2 handles with symmetry, 3 objects, 2 connects, 3 references, both credentials |
| `backup` | Does the backup of a year hold its yields? (section 5) | as `regular`, restarts |

Why the bounds are enough. In `EspLog` the year is cyclic and behaviours are
unbounded, so every kind of boundary (mark, midnight, month, year, switch of
daylight saving) occurs, and the steps of two of them follow each other; two
pulses are enough for one to be read and another to fall into the window before
the reset, and for two days to differ. Four marks of which two make an hour
leave a day of summer with slots of both standard dates, and a longest day with
two marks whose slots are written twice. `power` has one pulse, because a single
pulse that is booked twice, or a single cell restored wrongly, already breaks
its properties; the odd conversion factor makes rounding visible. In `NtpClient`
a packet left over by one request can spoil the next three; three looks are one
before, one at and one after the first call of `next()`. In `settings` an
address has half of the parts, all, or as many as the page takes, which go past
the end of the EEPROM; the parts too many are 0, so that the floats they may go
over have few values. In `Clock` the wrap is
in the middle of a second and the bound on time covers three wraps, a boot in
which the server does not answer, and several synchronisations, failed ones
included. 28 years contain every combination of weekday and leap year. In `tcp`
a window of two bytes has room for one packet, two packets, and one that is read
in part, and a peer fills it again as often as it likes; with
two connections a handle can change from one to the other, and a third handle
can hold what the first lets go; two writes of two bytes into a buffer of two
make a write that follows unacknowledged bytes. In `web` two requests are what
state left over from the one before needs, and files of 0 to 5 bytes end with a
full buffer of two and within one, with every prefix of the end of a file in
them, also overlapping ones; of a chunk of two bytes the flash takes none, one or both.
In `wifi` three calls are one that begins to wait or
starts a scan, one that meets it, and one that meets the result. In `tls` three
objects and two connections are a copy, its original, and one made after the
first was destroyed.

Deadlock is checked in the runs of the EEPROM, `EspLog`, `Settings` and TLS. In
`ntp`, `clock`, `calendar`, `tcp`, `web` and `wifi` the bound on requests, time,
looks, connections or calls ends a behaviour.

The bounds that cut behaviours off are `MaxPulses`, `MaxRequests` (`NtpClient`,
`WebServer`), `MaxMs`, `MaxLooks`, `LastYear`, `MaxConn`, `MaxCalls`,
`MaxFaults`, `MaxObjects`, `MaxConnects` and `MaxRefs`; all other counters are
finite by themselves.

Fairness, where a liveness property needs it:

* `PulsesGetBooked`: `WF_vars(Sketch)`, because the Arduino core calls `loop()`
  again and again and every step of the work ends, and `WF_vars(Tick)`, because
  time goes on. Nothing is assumed about the interrupt, the user or the power,
  and the run does not contain `missed`: with it nothing guarantees that
  `loop()` ever sees a mark.
* `SketchGoesOn`: lwIP answers or gives up a connection attempt that it has taken
  (its own retransmission limit), `delay(5000)` ends, and `FHEMHTTPsend()` goes on
  when it can. An attempt that it has not taken ("stuck") stays for ever and is
  exempted. Of the peer of `FHEMHTTPsend()` the property itself supposes that it
  stops sending at some time (`<>[][~FhemHears]_vars`), because
  `sendfhem.ino:70-87` reads as long as something comes; nothing else is assumed
  about peers or the access point.
* `ClientsAreLetGo`: `loop()` calls `handleClient()` in every round, and what a
  peer sends arrives. The timeouts of the server are its own steps.
* `SetupConnects`: the setup goes on, and the SDK reports the result of a
  connection attempt sooner or later.

The properties that hold only in a benign environment say so by the run they
are in: `TableStored`, `MonthIsSumOfDays`, `DayMatchesTable`, `PeakOfCurve` and
`LastFiveMinutes` are checked without crashes and missed marks, with boots
outside the last five minutes of a day and outside the hour in which standard
and local date differ. `PulseBalance`, `NoEnergyInvented` and
`OnlyClearedCellsDiffer` are checked with everything that can go wrong.

## 4. Theorems

All proofs are checked by TLAPS without exceptions, for any constants that
satisfy the named assumptions of the modules: any calendar, any pulse constant
(also 0), any set of events, any number of looks, requests, connections,
handles, networks and faults. Where a theorem holds only in a certain
environment, or for certain inputs, it says so as a hypothesis with a name of
its own; they are listed below the table.

| theorem | says | argument |
|---|---|---|
| `EepromTyping` | `[]EepromTypeOK`, which `regular` checks as a part of the `TypeOK` of `EspLog` | one lemma per call and per step |
| `CleanBufferIsStored` | `[]CleanMeansStored` | needs `ErasedIsDirty`: a sector that is erased belongs to a dirty, open buffer in a running commit. Without it a power loss or a failed write after the erase could leave a clean buffer |
| `EepromIsDurable` | `DurableSpec`, the refinement of `DurableStore` | maps `image` to `data` while the sector is erased and to `flash` otherwise, `working` to `data`, `settling` to `erased`; each step is an abstract step or a stutter |
| `StateTyping` | `[]StateOK`, the first conjunct of `TypeOK` of `EspLog` | inductive together with the invariants of the EEPROM library (`StateInv`) |
| `PulsesBalance` | `[]PulseBalance` | inductive with `StateInv`; every action moves a pulse between counted, booked and lost |
| `BookedIsStored` | `[]OnlyClearedCellsDiffer` | needs `TableInv`: the booked day (`ziel`) will be saved by the puts still to come (`ZielIsSaved`), the EEPROM is closed only after a deletion (`ClosedPhases`), and every other cell of RAM is 0 or what the buffer holds (`TableInBuffer`). `CleanMeansStored` then carries it from the buffer to the sector |
| `Typing` | `[]TypeOK` of `EspLog` | `StateTyping` with `YieldsOK`: every displayed yield is a number. A sum over the table is a fold over a finite set, for which `SumOf` and its companions are proved by induction over sets |
| `EnergyIsBooked` | `[]NoEnergyInvented`, if `Images` holds erased and cleared sectors only | needs `EnergyInv`: there is one table `most` that bounds every copy (RAM, buffer, sector) cell by cell, and its sum is covered by the booked pulses. The invariant itself, which bounds each sum alone, is not inductive: a copy over another table could add up what both show |
| `ErasedYearIsInTheBackup` | `[]DeletedYearIsBackedUp`, if the flash refuses nothing | needs `DeletionInv`: from `BackupWrite` to the commit of the deletion the backup is the sector (`BackedUp`), as no commit is pending (`NothingPending`, `ReadyWhen`) when the backup is written |
| `BookedIntoTheirDay` | `[]LastFiveMinutes`, if `Punctual` and `BootsByDay` | needs `TimeInv`: `t` is the mark that is worked on, or the one before it while second 0 is due; and `MarkInv`: at 23:55 `yesterday` has been set to the running day (`YesterdayMarked`), and midnight finds it there |
| `MaximumIsOfTheCurve` | `[]PeakOfCurve`, if `Punctual` | needs `CurveInv`: the slots that the local day has still to write for the first time (`ToCome`) are empty, and the next mark finds such a slot or is one that `PeakOfCurve` exempts (`NextMarkIsNew`). The slots count standard time and the day ends by local time, so `ToCome` tells the marks before standard midnight, the day and its last hour apart, and days with a change of the clock (`SummerAssumption`) from others |
| `TableIsStored` | `[]TableStored`, if `Undisturbed`, `Cleared` and `BootsByDay` | needs `Mirror`: buffer and table differ only in the cell that is booked and not saved yet; and `Future`: the days to come are empty in the EEPROM, without which `deleteRAM()` at the beginning of a month would clear what is only in RAM |
| `MonthIsItsDays` | `[]MonthIsSumOfDays`, if also `BelowBlank` | needs `ShownInv` and `Bounds`: the days to come of the month are empty (`MonthAhead`), so that the days up to today are all of it, and no cell reaches the value of a blank one |
| `DayIsInTheTable` | `[]DayMatchesTable`, if also `BootsOnDate` | the same invariant, with `DayShown` |
| `NtpTyping` | `[]TypeOK` of `NtpClient` | with `Waiting`: a look is taken for an existing request, at most `MaxPoll` times, and none before the request is sent |
| `InTimeAnswered` | `InTimeIsAnswered` | needs `SocketInv`: an unread packet is not taken; after the first look a packet that is not taken is unread; a reply that came before the last look is in the second place or unread in the first (`ReplyIsThere`), and so that look is still to come (`NotGivenUp`). The last look is not the first one (`MaxPoll > 1`), which is where the code's 15 looks matter |
| `CalmAnswersAreRight` | `CalmAnswers` | needs `CalmInv`: only the last reply is on its way, at most once (`OneReply`); between questions at most one packet is left; while the host name is looked up that packet has been read to its end and none comes (`CalmResolve`, `NothingComes`); during a question the reply can only be behind such a packet |
| `ClockTyping` | `[]TypeOK` of `Clock` | part of the invariant below |
| `TimeIsKept` | `[]ClockKeepsTime` | needs `LagInv`: since the last call of `now()`, or of the look of `loop()`, less than a wrap-around has passed, which `ClockAssumption` bounds by the pauses of the sketch and the server. The arithmetic modulo 2^32 is in `SinceGrows` (time goes on) and `SinceKept` (`prevMillis` moves on) |
| `SyncStaysScheduled` | `[]SyncIsScheduled` | with `SetInv`: a clock that has been set is not at 0 |
| `MinutesAreSeenOnce` | `MinuteOnce` | needs `NotAhead` (the clock is never ahead of the server, so a synchronisation does not set it back) and `LookInv`: if the last minute seen has just begun, then the second is no older than the last look of `loop()`, which waits for more than a second, or the clock has been set to that minute |
| `HostIsStoredWhole` | `HostChangesAtOnce` of `Settings` | needs `HostInBuffer` (an open buffer holds the address of RAM, part by part) and `CommitApart` (no commit runs while the parts are written); no setting shares a byte with the address, and the parts behind the fourth are not part of it |
| `SettingsAreTyped` | `[]TypeOK` of `Settings`, if `PortsInRange` | `TypeInv`: every byte of buffer and sector is a byte (`Bytewise`), so that whatever they hold, an interrupted change included, reads back as a setting |
| `SettingsComeBack` | `[]SettingsSurvive`, if `SomeImpulses`, for addresses of any length | needs `SettingsInv`: except while the table is deleted the buffer holds the settings of RAM (`Kept`), but for a float that the parts of a too long address may have gone over (`beyond`), and a clean buffer is the sector (`CleanIsStored`). The settings it is about share no bytes (`Apart`); `RoundTrip` shows that the four bytes of the float of a whole number below 2^23 read back as that number |
| `ConnectionsAreCounted` | `[]ContextsAreCounted` | strengthened by `Dialing` (while `connect()` waits and has not been called back, the new handle holds nothing); one lemma each for a handle that takes, gives back and changes its context, and for `stopAll()` |
| `ConnectionsAreShared` | `FreedOnceAfterLastUse`, the refinement of `SharedConnection` | maps `holds` to `client`, `waiting` to the list of the server, `freed` to what was made and does not live; `HeldInv` turns counts into sets of holders, and `Settles` turns each call into the abstract step |
| `WritesReportWhatWasAcknowledged` | `[]WriteReportsWhatWasAcknowledged` | needs `WriteInv`: while a connection is open, what has been acknowledged and what is in flight add up to what was in flight before and what `write()` added, and `_size_sent` has counted the acknowledged bytes down from `will_send`, modulo the width of `size_t` |
| `WindowStaysTheChain` | `[]WindowIsTheChain` | needs `WindowInv`: an open connection owes lwIP the length of its chain, the offset is inside the first packet, no packet is empty, and a connection that is not made yet has no chain. `TotLenConcat` and `TotLenAppend` give the lengths of chains; the recursive `totLen` exists by `TotLenIs`, with well-founded induction in the form of least counterexamples (`Induction`) |
| `WebTyping` | `[]TypeOK` of `WebServer` | part of the invariant of the next theorem |
| `UploadsAreComplete` | `[]UploadStoresTheFile` | needs `WebInv`. `Place`: what is unread at each place of the parser is what the peer sends there, perhaps cut off at its end (`Follows`); behind a file whose end was found where it was not, it is what is left of the file (`Leftover`). `Copied`: what was written without an error and what is in the buffer are the first bytes of the content, followed by those that `_parseForm()` remembers in `pc` alone. `EndOfFile`: in the content and what follows it, the bytes of the boundary are found only behind the CR LF - - that ends the content, so that a file is not ended too early |
| `RequestsAreTheirOwn` | `[]HandledForItsOwnRequest` | the same invariant. `Known`: headers and arguments read so far are those of this request; `Answered`: before the handler runs, only an upload may have answered, once |
| `CacheStaysTheTime` | `[]CacheIsTheTime` | needs `DateInv`: the cache is empty or `breakTime` of its time (`CacheInv`), and both times that are looked up are in the calendar (`TimeInv`, `LocalInv`). That `breakTime()` finds a year and a month for each day (`YearExists`, `MonthExists`), and that `makeTime()` undoes it (`MadeAgain`), is shown by induction (`Induction`) |
| `DateStaysLocal` | `[]DateIsLocal`, if `LastYear <= 129` | needs `LookInv`: all that one look reads is of the minute whose second 0 it saw, since a call of `now()` that blocks does so once and for at most 50 s (`MinuteInv`), so the arguments of `summertime_EU()` are of one hour (`ReadInv`). `Lawful` shows that the formula is the law: `Julian` counts the days, `LastSundays` finds the Sundays, `HoursDecide` the hour |
| `OwnershipIsKept` | `[]OwnershipHolds` of `TlsClients` | inductive with the types; `PoolOK` keeps the counts at or above the number of holders through a reference, its release and a new context, and `_ssl_ctx` with the number of contexts. `IoIsHeld` is only model-checked |
| `StaticAddressIsKept` | `[]StaticAddressStays` | inductive by itself: every function that starts the DHCP client looks at `staticIp`, and the ones that set an address stop it |
| `FlashIsSpared` | `FlashSpared` | an action property of every step from every state |
| `CallbacksAreExpected` | `[]CallbacksFindTheirPlace` | needs `WaitInv`: a wake-up belongs to the wait it was for (`WokenRightly`), a callback that is still to come has somebody who waits (`Awaited`), a scan that runs has no list (`ListIsFree`) |

The hypotheses, and what in the code they stand for:

* `Images \subseteq [Cells -> {0, Blank}]`, `Cleared`: the sector the logger is
  installed with. A new chip is erased, and `clrrom` clears it; an old image
  would show energy of another meter.
* `"flash" \notin Events`: `commit()` is not retried (`functions.ino:79`), so a
  refused write leaves RAM ahead of the sector that is then erased.
* `Punctual`, no mark missed and no outage over a mark: then `loop()` does the
  work of 23:55 and of 0:00 (`loop.ino:48`, `:53`).
* `BootsByDay`, no boot in the last five minutes of a local day: there
  `yesterday` is still 0/0 (`loop.ino:48`, `:80`; section 5).
* `BootsOnDate`, no boot in the hour in which standard and local date differ
  (`setup.ino:185`; section 5).
* `Undisturbed`, only restarts while `loop()` waits, and the setup page's
  commands. With a power loss, what was booked after the last commit is lost,
  which `OnlyClearedCellsDiffer` and `PulseBalance` account for.
* `BelowBlank`, all pulses together stand for less than the reading of an
  erased cell (2^32 - 1 Wh in the code).
* `LastYear <= 129`, no time after 2098: 2100 is no leap year, which the formula
  of `functions.ino:248-261` does not know. (An unsigned `time_t` would end in
  2106.)
* `SomeImpulses`, `PortsInRange`: the pulse constant 0 and the port 65535 are
  what an erased EEPROM reads as, and `setup()` replaces them by the defaults
  (`setup.ino:202-206`, `:240`).

The run `regular` satisfies all of the hypotheses about `EspLog` at once, the
run `settings` those about `Settings`, the run `calendar` the one about
`Calendar`, so the theorems are not vacuous. Environments that break
`Punctual`, `BootsByDay` or `BootsOnDate` are possible in the
program; section 5 says what happens there.

Every safety property of a passing run, invariant, action property or
refinement, is stated by a theorem, but for `IoIsHeld`. Only model-checked:
`IoIsHeld`, and liveness (`PulsesGetBooked`, `SketchGoesOn`, `ClientsAreLetGo`,
`SetupConnects`), because fairness and ENABLED are out of the prover's reach.

Induction over data: the library's induction theorems take an operator as
parameter, which no installed prover can instantiate. Where a proof needs
induction (sums over sets, chains of packets, years) it takes a least
counterexample of a set instead, whose existence the library states without such
a parameter.

## 5. Where the code and its comments disagree

One has a run that must find the violation, `backup`: the January work runs at
*every* midnight of January (`loop.ino:68` tests only the month, the comment
above it asks whether a new year has begun). The second time the EEPROM is
closed, `get()` leaves `tmp` uninitialised and `backup2file()` replaces the
backup of the year with it, although it is to save the yields (`loop.ino:70`).

Seen while modelling, and kept out of the passing runs by the environment they
name or by a term of the property:

* on the day on which the clock is set back, twelve slots of the "Array der
  Fünfminutenwerte eines Tages" (`esplog.ino:102`) are written twice, the second
  time in the last hour of the day: the slot is chosen by standard time
  (`functions.ino:34`), and the day is the local one, 3600 s ahead
  (`loop.ino:28`). The maximum on display may then be of no slot. `PeakOfCurve`
  exempts these marks (`Overwritten`) from this half of what it says;
* the loop over the parts of an address has no bound
  (`websites.ino:191-197`). The fifth part goes to byte 1512 of the EEPROM, the
  lowest byte of the port's float, the sixth to 1514, which makes it another
  port, the seventh to 1516 and into the offset; in RAM they are written behind
  `fhemHost`, which C++ leaves undefined. `SettingsSurvive` is not about port and
  offset, and no longer about the tariff when that has happened (`beyond`);
* `handleFileUpload()` ignores what `write()` returns (`websites.ino:643`), so
  that a file that SPIFFS took in part is logged as "Neue Datei gespeichert"
  (`:646`). `UploadStoresTheFile` exempts it (`short`);
* "handler for the /update form POST (once file upload finishes)"
  (`ESP8266HTTPUpdateServer.cpp:40`) looks only at `_authenticated`, which an
  aborted upload leaves set (`:81-84`). A later POST that brings no file and no
  authorization is answered with success, and the logger restarts.
  `HandledForItsOwnRequest` is about the authorization of a request that brings
  a firmware;
* after a boot between 23:55 and midnight `yesterday` is still 0/0
  (`loop.ino:48`, `:80`), so that the last five minutes are booked into the
  first of January;
* port (1512) and offset (1514) share two bytes (`esplog.ino:74-76`), because a
  float of four bytes is stored at each;
* the loop of `deleteEEPROM()` puts four bytes at *each* of its byte addresses
  and clears three bytes of the pulse constant (`functions.ino:189`);
* `flush()` empties only the first packet of the chain (`UdpContext.h:224`). The
  second copy of a doubled reply is the answer to the next question, six hours
  later, and each further answer is one question behind. So is that of a late
  reply that arrives between the flush and the sending of the next question
  (`EasyNTPClient.cpp:53-58`), where the host name is looked up;
* after the last look the client still waits 150 ms and does not look again
  (`EasyNTPClient.cpp:65-71`): a reply that comes then is found by nobody, and
  flushed with the next question;
* `loop()` looks every 1001 ms or later (`loop.ino:9`), and now and then misses
  second 0, and with it the five-minute work of that mark;
* before the first synchronisation the date is read from an empty cache: the
  cache begins with time 0, which is the time of the clock;
* `setup.ino:54` reads the parts of the date one after the other at boot; across
  midnight they are of two days;
* after a firmware upload that broke off, `stopAll()` has closed the socket of
  the NTP client and the static `udpInited` keeps it from opening a new one:
  there is no synchronisation until the next restart
  (`ESP8266HTTPUpdateServer.cpp:61`, `EasyNTPClient.cpp:43`);
* a form whose peer falls silent between two lines keeps `_parseForm()` in its
  loop for ever (`Parsing.cpp:365`), and so does a file whose peer stays connected
  and silent (`:338`). `ClientsAreLetGo` exempts exactly these (`AwaitsForEver`);
* where the boundary did not come in time, `_parseForm()` looks for it in what the
  stack holds (`Parsing.cpp:479-482`, `endBuf` is not initialised and has no end):
  a file that was cut off there may be called complete. `UploadStoresTheFile`
  exempts this (`guessed`);
* `tcp_connect()` may fail, which `WiFiClient.cpp:125` ignores: no callback
  comes, and the `esp_yield()` behind it never returns ("stuck");
* `FHEMHTTPsend()` reads its answer as long as something comes
  (`sendfhem.ino:70-87`): a peer that never stops sending holds `loop()`;
* the bytes of a `write()` that timed out and are acknowledged during the next one
  are counted there (`ClientContext.h:252`): it reports more than it was given, or
  wakes up too early. `WriteReportsWhatWasAcknowledged` says so;
* `stopAll()` deletes the context of a `write()` that waits
  (`ESP8266WiFiGeneric.cpp:209`), which then reads and clears freed memory. The
  properties exempt that writer (`pulled`);
* a file with CR LF - - closer to its end than the boundary is long is not
  recognised as complete (`Parsing.cpp:451`): what was read while looking for
  the boundary is given back as content;
* `write()` after `WiFiClientSecure::_readAll()` has freed the session would use
  a null pointer;
* a copy of a TLS handle is not counted in `s_pk_refcnt`
  (`WiFiClientSecure.cpp:235-242`), and its end (`:229`) clears certificate and key
  under the handle it was copied from, which connects without them from then on;
* the assignment of a TLS handle does not give back its old context (`:244-251`).
  It is leaked, and when the one of the last connect is, `s_io_ctx` stays behind:
  after `h2.connect()`, `h1.connect()`, `h1 = h2` it points to a connection that
  has been freed, and `h2.available()` reads it (`:537-538`). `IoIsHeld` exempts
  leaked contexts;
* `WiFiMulti.run()` waits without an end for a station that stays idle or
  disconnected, `waitForConnectResult()` likewise; a static `config()` that the
  SDK refuses leaves the DHCP client stopped; a scanned network is asked for by
  an index one too high without an error (`_getScanInfoByIndex`);
* after a deletion `EEPROM.end()` has closed the EEPROM (`functions.ino:194`)
  and nobody opens it again: nothing is stored until the next restart. The
  properties about stored values therefore say "while the EEPROM is open";
* a boot in the hour in which standard and local date differ restores the yield
  of the wrong day: `setup.ino:185` uses `month()` and `day()`, the rest local
  time. `DayMatchesTable` fails with `BootMoments <- Daytime`;
* a changed offset is added to a reading that contains the old one
  (`websites.ino:138`);
* a pulse constant of 0 can be set but is not restored (`setup.ino:202`);
* a synchronisation that lands on second 0 makes `loop()` work twice on that
  minute; `MinuteOnce` states it as the exception;
* a failed commit is not retried (`functions.ino:79` compares with the buffer
  in RAM). It stays `dirty`, and the next commit stores both.

## 6. Not modelled

* What only formats: the pages, the answer for sonnenertrag.eu, the headers of
  an HTTP answer, names of days and months, logging, the status LED.
* The contents of NTP request and reply, and of TLS records; `verify()`.
* Parts of the libraries that the sketch does not reach and that have no state
  of their own: the registry of WiFi event handlers, chunked answers, streaming
  of SPIFFS files, UDP multicast, `adjustTime`, setting the clock from a date.
* The simulation of pulses in debug builds.
* lwIP, axTLS, SPIFFS, the SDK and the `Updater`: not in the repository. The
  definitions that stand for them are marked external in `PROJECT.json`, and do
  no more than the code relies on.

## 7. What would come next

Compositions: `Clock` over `NtpClient`, with the clock set back by a stray reply;
`Clock` over `EspLog`, in which a mark is missed because of the drift instead of
by the event `missed`.
