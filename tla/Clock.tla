--------------------------------- MODULE Clock ---------------------------------
(***************************************************************************)
(* The software clock (Time/Time.cpp): seconds counted from millis(), a    *)
(* counter that wraps around, and set from time to time by an NTP server;  *)
(* how setupNtp() (setup.ino) starts it, and how loop() (loop.ino) looks   *)
(* for the beginning of a minute on it.                                    *)
(*                                                                         *)
(* The server is a source of true time that may not answer; NtpClient is   *)
(* about when its answers can be believed.                                 *)
(***************************************************************************)
EXTENDS Naturals

CONSTANTS
    MsPerSecond,       \* 1000
    SecondsPerMinute,  \* 60
    Wrap,              \* millis() counts modulo this, 2^32
    SetupInterval,     \* seconds between attempts in setup(), 5
    SyncInterval,      \* seconds between synchronisations, 21600
    Epoch,             \* Unix time of the power-up
    Busy,              \* how many ms loop() may take
    Blocked,           \* how many ms a question to the server may take
    MaxMs              \* bounds a behaviour

ASSUME ClockAssumption ==
    /\ {MsPerSecond, SecondsPerMinute, SetupInterval, SyncInterval} \subseteq Nat \ {0}
    /\ Epoch \in Nat \ 0 .. SecondsPerMinute
    /\ Busy \subseteq Nat \ {0}
    /\ Blocked \subseteq Nat
    /\ {Wrap, MaxMs} \subseteq Nat
    \* Between two calls of now() millis() does not wrap around completely.
    /\ \A d1 \in Busy \cup {0}, d2 \in Blocked \cup {0} :
           (SetupInterval + 2) * MsPerSecond + d1 + d2 < Wrap

VARIABLES
    ms,            \* true time since the power-up
    pc,            \* "boot", "interval", "wait", "delay", "set", "loop"
    \* Time.cpp
    sysTime, prevMillis, nextSyncTime, syncInterval, Status,
    \* loop()
    waitTime,
    runtime,       \* ausgabe[9].value, the uptime in minutes
    \* history
    gestellt,      \* when the clock was set last, and to what
    letzteMinute   \* the last minute whose beginning loop() has seen

time    == <<sysTime, prevMillis, nextSyncTime, Status, gestellt>>
minutes == <<waitTime, runtime, letzteMinute>>
vars    == <<ms, pc, time, syncInterval, minutes>>

Init == /\ ms \in 0 .. MsPerSecond
        /\ pc = "boot"
        /\ sysTime = 0
        /\ prevMillis = 0
        /\ nextSyncTime = 0
        /\ syncInterval = 300
        /\ Status = "timeNotSet"
        /\ waitTime = 0
        /\ runtime = 0
        /\ gestellt = [time |-> 0, ms |-> 0]
        /\ letzteMinute = 0

-------------------------------------------------------------------------------
(* Time.cpp.                                                               *)

millis == ms % Wrap

\* The unsigned difference to an earlier reading of millis().
Elapsed(reading) == (millis + Wrap - reading) % Wrap

\* Slips: prevMillis restarts at the reading, or is wider than millis().
KeptNothing(seconds) == millis
KeptWide(seconds)    == prevMillis + seconds * MsPerSecond

\* prevMillis after that many seconds were taken off: the remainder is kept.
Kept(seconds) == (prevMillis + seconds * MsPerSecond) % Wrap

\* Slip: a failed attempt does not move the next one.
NextAttemptForgotten(sys) == nextSyncTime

\* Time.cpp:266.
NextAttempt(sys) == sys + syncInterval

\* setTime(): counting restarts at this moment.
setTime(t) == /\ sysTime' = t
              /\ nextSyncTime' = t + syncInterval
              /\ Status' = "timeSet"
              /\ prevMillis' = ms' % Wrap
              /\ gestellt' = [time |-> t, ms |-> ms']

\* now(), when a synchronisation is due at `next'.
now(next) ==
    LET seconds == Elapsed(prevMillis) \div MsPerSecond
        sys     == sysTime + seconds
    IN \/ /\ sys < next
          /\ sysTime' = sys
          /\ prevMillis' = Kept(seconds)
          /\ nextSyncTime' = next
          /\ UNCHANGED <<ms, Status, gestellt>>
       \/ /\ next <= sys
          /\ \E d \in Blocked : ms' = ms + d
          /\ setTime(Epoch + ms' \div MsPerSecond)
       \/ /\ next <= sys
          /\ \E d \in Blocked : ms' = ms + d
          /\ sysTime' = sys
          /\ prevMillis' = Kept(seconds)
          /\ nextSyncTime' = NextAttempt(sys)
          /\ Status' = IF Status = "timeNotSet" THEN Status ELSE "timeNeedsSync"
          /\ UNCHANGED gestellt

-------------------------------------------------------------------------------
(* setupNtp().                                                             *)

setSyncInterval(interval) == /\ syncInterval' = interval
                             /\ nextSyncTime' = sysTime + interval
                             /\ UNCHANGED <<sysTime, prevMillis, Status, gestellt>>

\* setup.ino:43.
SetSyncProvider == /\ pc = "boot"
                   /\ now(sysTime)
                   /\ pc' = "interval"
                   /\ UNCHANGED <<syncInterval, minutes>>

\* :44.
ShortInterval == /\ pc = "interval"
                 /\ setSyncInterval(SetupInterval)
                 /\ pc' = "wait"
                 /\ UNCHANGED <<ms, minutes>>

\* :45, timeStatus().
TimeStatus == /\ pc = "wait"
              /\ ms < MaxMs
              /\ now(nextSyncTime)
              /\ pc' = IF Status' = "timeSet" THEN "set" ELSE "delay"
              /\ UNCHANGED <<syncInterval, minutes>>

\* :48.
Delay == /\ pc = "delay"
         /\ ms' = ms + SetupInterval * MsPerSecond
         /\ pc' = "wait"
         /\ UNCHANGED <<time, syncInterval, minutes>>

\* :52.  loop() has not missed the beginning of the current minute if it
\* starts in its first second.
LongInterval == /\ pc = "set"
                /\ setSyncInterval(SyncInterval)
                /\ letzteMinute' = (sysTime + SecondsPerMinute - 1)
                                       \div SecondsPerMinute - 1
                /\ pc' = "loop"
                /\ UNCHANGED <<ms, waitTime, runtime>>

-------------------------------------------------------------------------------
(* loop().                                                                 *)

\* Slip: twice a second.
DueTwice == Elapsed(waitTime) * 2 > MsPerSecond

\* loop.ino:9.
Due == Elapsed(waitTime) > MsPerSecond

\* loop.ino:9-22: once a second, is it second 0?
Loop == /\ pc = "loop"
        /\ Due
        /\ waitTime' = millis
        /\ now(nextSyncTime)
        /\ IF sysTime' % SecondsPerMinute = 0
             THEN /\ runtime' = runtime + 1
                  /\ letzteMinute' = sysTime' \div SecondsPerMinute
             ELSE UNCHANGED <<runtime, letzteMinute>>
        /\ UNCHANGED <<pc, syncInterval>>

\* The rest of a round of loop().
Elapse == /\ pc = "loop"
          /\ ~Due
          /\ ms < MaxMs
          /\ \E d \in Busy : ms' = ms + d
          /\ UNCHANGED <<pc, time, syncInterval, minutes>>

Next == \/ SetSyncProvider \/ ShortInterval \/ TimeStatus \/ Delay \/ LongInterval
        \/ Loop \/ Elapse

Spec == Init /\ [][Next]_vars

-------------------------------------------------------------------------------
TypeOK == /\ ms \in Nat
          /\ pc \in {"boot", "interval", "wait", "delay", "set", "loop"}
          /\ {sysTime, nextSyncTime, syncInterval, runtime, letzteMinute} \subseteq Nat
          /\ {prevMillis, waitTime} \subseteq 0 .. Wrap - 1
          /\ Status \in {"timeNotSet", "timeNeedsSync", "timeSet"}
          /\ gestellt \in [time : Nat, ms : Nat]

\* Not a millisecond is lost or counted twice between two settings of the
\* clock, wherever millis() wraps around and however long a failed question
\* to the server takes (Time.cpp:252-259).
ClockKeepsTime ==
    sysTime * MsPerSecond + Elapsed(prevMillis)
        = gestellt.time * MsPerSecond + (ms - gestellt.ms)

\* While the logger runs the next synchronisation is always ahead, so that
\* now() does not block again and again, but never further than the
\* interval, whether the last one failed or moved the clock (:260-270).
SyncIsScheduled ==
    pc = "loop" => /\ sysTime < nextSyncTime
                   /\ nextSyncTime <= sysTime + syncInterval

\* loop() works only once on a minute (loop.ino:9, :18), with a server that is
\* never behind the clock, unless a synchronisation has set the clock in that
\* minute: setTime() begins the second anew, and waitTime is older than the
\* question to the server.
MinuteOnce ==
    [][runtime' # runtime =>
          \/ letzteMinute' > letzteMinute
          \/ letzteMinute' = gestellt.time \div SecondsPerMinute]_vars
===============================================================================
