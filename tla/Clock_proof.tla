----------------------------- MODULE Clock_proof -----------------------------
(***************************************************************************)
(* Proofs about Clock, for any second, minute, wrap-around of millis() and *)
(* duration of loop() and of a question to the server: no millisecond is   *)
(* lost, the next synchronisation stays scheduled, and loop() works once   *)
(* on a minute.                                                            *)
(***************************************************************************)
EXTENDS Clock, Integers, TLAPS

-------------------------------------------------------------------------------
(* Division with a remainder.                                              *)

LEMMA DivMod ==
    ASSUME NEW m \in Nat \ {0}, NEW y \in Nat
    PROVE  /\ y \div m \in Nat /\ y % m \in 0 .. m - 1
           /\ y = m * (y \div m) + (y % m)
    OBVIOUS

LEMMA ModUnique ==
    ASSUME NEW m \in Nat \ {0}, NEW q \in Nat, NEW a \in 0 .. m - 1
    PROVE  (m * q + a) % m = a
    OBVIOUS

LEMMA ModSmall ==
    ASSUME NEW m \in Nat \ {0}, NEW y \in Nat
    PROVE  /\ y < m => y % m = y
           /\ m <= y /\ y < 2 * m => y % m = y - m
    OBVIOUS

LEMMA ModShift ==
    ASSUME NEW m \in Nat \ {0}, NEW q \in Nat, NEW z \in Nat
    PROVE  (m * q + z) % m = z % m
<1> DEFINE p == z \div m
           e == z % m
<1>1. p \in Nat /\ e \in 0 .. m - 1 /\ z = m * p + e
    BY DivMod
<1> HIDE DEF p, e
<1>2. m * q + z = m * (q + p) + e
  <2>1. m * (q + p) = m * q + m * p
      BY <1>1
  <2>2. m * q \in Nat /\ m * p \in Nat /\ m * (q + p) \in Nat
      BY <1>1
  <2>3. QED
      BY <1>1, <2>1, <2>2
<1>3. (m * (q + p) + e) % m = e
    BY <1>1, ModUnique
<1>4. QED
    BY <1>2, <1>3 DEF e

LEMMA ModPlus ==
    ASSUME NEW m \in Nat \ {0}, NEW y \in Nat, NEW d \in Nat
    PROVE  (y + d) % m = ((y % m) + d) % m
<1> DEFINE q == y \div m
           z == (y % m) + d
<1>1. q \in Nat /\ y % m \in Nat /\ y = m * q + (y % m)
    BY DivMod
<1>2. y + d = m * q + z /\ z \in Nat
    BY <1>1
<1> HIDE DEF q, z
<1>3. (m * q + z) % m = z % m
    BY <1>1, <1>2, ModShift
<1>4. QED
    BY <1>2, <1>3 DEF z

-------------------------------------------------------------------------------
(* Differences of readings of millis().                                    *)

\* The ms from a reading r to the time x.
Since(x, r) == ((x % Wrap) + Wrap - r) % Wrap

Readings == 0 .. Wrap - 1

LEMMA WrapAround == Wrap \in Nat \ {0}
<1>1. /\ Wrap \in Nat /\ MsPerSecond \in Nat \ {0} /\ SetupInterval \in Nat \ {0}
      /\ (SetupInterval + 2) * MsPerSecond + 0 + 0 < Wrap
    BY ClockAssumption DEF ClockAssumption
<1>2. (SetupInterval + 2) * MsPerSecond \in Nat
    BY <1>1
<1>3. QED
    BY <1>1, <1>2

LEMMA SinceIs ==
    ASSUME NEW x \in Nat, NEW r \in Readings
    PROVE  /\ x % Wrap \in Readings /\ Since(x, r) \in Readings
           /\ x % Wrap >= r => Since(x, r) = (x % Wrap) - r
           /\ x % Wrap < r => Since(x, r) = (x % Wrap) + Wrap - r
<1>1. x % Wrap \in Readings
    BY WrapAround, DivMod DEF Readings
<1> DEFINE y == (x % Wrap) + Wrap - r
<1>2. y \in Nat /\ y < 2 * Wrap /\ Wrap \in Nat \ {0}
    BY <1>1, WrapAround DEF Readings
<1>3. /\ y < Wrap => y % Wrap = y
      /\ Wrap <= y => y % Wrap = y - Wrap
    BY <1>2, ModSmall
<1>4. y % Wrap \in Readings
    BY <1>2, DivMod DEF Readings
<1>5. Since(x, r) = y % Wrap
    BY DEF Since
<1>6. CASE x % Wrap >= r
  <2>1. Wrap <= y /\ y - Wrap = (x % Wrap) - r
      BY <1>1, <1>2, <1>6 DEF Readings
  <2>2. QED
      BY <1>1, <1>3, <1>4, <1>5, <1>6, <2>1 DEF Readings
<1>7. CASE x % Wrap < r
  <2>1. y < Wrap
      BY <1>1, <1>2, <1>7 DEF Readings
  <2>2. QED
      BY <1>1, <1>3, <1>4, <1>5, <1>7, <2>1 DEF Readings
<1>8. QED
    BY <1>1, <1>6, <1>7 DEF Readings

\* Time goes on.
LEMMA SinceGrows ==
    ASSUME NEW x \in Nat, NEW r \in Readings, NEW d \in Nat, Since(x, r) + d < Wrap
    PROVE  Since(x + d, r) = Since(x, r) + d
<1> DEFINE a == x % Wrap
           b == (x + d) % Wrap
<1>1. /\ a \in Readings /\ b \in Readings /\ x + d \in Nat
      /\ a >= r => Since(x, r) = a - r
      /\ a < r => Since(x, r) = a + Wrap - r
      /\ b >= r => Since(x + d, r) = b - r
      /\ b < r => Since(x + d, r) = b + Wrap - r
    BY SinceIs
<1>2. b = (a + d) % Wrap
    BY WrapAround, ModPlus
<1>3. Wrap \in Nat \ {0} /\ a + d \in Nat
    BY <1>1, WrapAround DEF Readings
<1> DEFINE t == a + d
<1> HIDE DEF a, b, t
<1>4. /\ t < Wrap => b = t
      /\ Wrap <= t /\ t < 2 * Wrap => b = t - Wrap
      /\ t = a + d
  <2>1. b = t % Wrap /\ t \in Nat /\ t = a + d
      BY <1>2, <1>3 DEF t
  <2>2. QED
      BY <1>3, <2>1, ModSmall
<1>5. CASE a >= r
    BY <1>1, <1>3, <1>4, <1>5 DEF Readings
<1>6. CASE a < r
    BY <1>1, <1>3, <1>4, <1>6 DEF Readings
<1>7. QED
    BY <1>1, <1>5, <1>6 DEF Readings

\* The reading moves on.
LEMMA SinceKept ==
    ASSUME NEW x \in Nat, NEW r \in Readings, NEW s \in Nat, s <= Since(x, r)
    PROVE  /\ (r + s) % Wrap \in Readings
           /\ Since(x, (r + s) % Wrap) = Since(x, r) - s
<1> DEFINE a == x % Wrap
           k == (r + s) % Wrap
<1>1. Wrap \in Nat \ {0} /\ r + s \in Nat
    BY WrapAround DEF Readings
<1>2. k \in Readings
    BY <1>1, DivMod DEF Readings
<1>3. /\ a \in Readings /\ Since(x, r) \in Readings
      /\ a >= r => Since(x, r) = a - r
      /\ a < r => Since(x, r) = a + Wrap - r
      /\ a >= k => Since(x, k) = a - k
      /\ a < k => Since(x, k) = a + Wrap - k
    BY <1>2, SinceIs
<1> DEFINE t == r + s
<1>4. k = t % Wrap /\ t \in Nat /\ t = r + s
    BY <1>1
<1> HIDE DEF a, k, t
<1>5. /\ t < Wrap => k = t
      /\ Wrap <= t /\ t < 2 * Wrap => k = t - Wrap
    BY <1>1, <1>4, ModSmall
<1>6. ASSUME a >= r
      PROVE  Since(x, k) = Since(x, r) - s
  <2>1. t <= a
      BY <1>1, <1>3, <1>4, <1>6 DEF Readings
  <2>2. k = t
      BY <1>1, <1>3, <1>4, <1>5, <2>1 DEF Readings
  <2>3. QED
      BY <1>1, <1>3, <1>4, <1>6, <2>1, <2>2 DEF Readings
<1>7. ASSUME a < r
      PROVE  Since(x, k) = Since(x, r) - s
  <2>1. t <= a + Wrap /\ a + Wrap < 2 * Wrap
      BY <1>1, <1>3, <1>4, <1>7 DEF Readings
  <2>2. CASE t < Wrap
    <3>1. k = t /\ a < k
        BY <1>1, <1>3, <1>4, <1>5, <1>7, <2>2 DEF Readings
    <3>2. QED
        BY <1>1, <1>3, <1>4, <1>7, <3>1 DEF Readings
  <2>3. CASE Wrap <= t
    <3>1. k = t - Wrap /\ k <= a
        BY <1>1, <1>3, <1>4, <1>5, <2>1, <2>3 DEF Readings
    <3>2. QED
        BY <1>1, <1>3, <1>4, <1>7, <3>1 DEF Readings
  <2>4. QED
      BY <1>1, <1>4, <2>2, <2>3
<1>8. Since(x, k) = Since(x, r) - s
    BY <1>1, <1>3, <1>6, <1>7 DEF Readings
<1>9. QED
    BY <1>2, <1>8 DEF k

LEMMA SinceNow ==
    ASSUME NEW x \in Nat
    PROVE  x % Wrap \in Readings /\ Since(x, x % Wrap) = 0
<1>1. x % Wrap \in Readings
    BY WrapAround, DivMod DEF Readings
<1>2. Since(x, x % Wrap) = (x % Wrap) - (x % Wrap)
    BY <1>1, SinceIs DEF Readings
<1>3. QED
    BY <1>1, <1>2 DEF Readings

-------------------------------------------------------------------------------
(* The clock is kept.                                                      *)

Pauses == Blocked \cup {0}

ClockTypes == /\ ms \in Nat
              /\ pc \in {"boot", "interval", "wait", "delay", "set", "loop"}
              /\ sysTime \in Nat /\ nextSyncTime \in Nat /\ syncInterval \in Nat \ {0}
              /\ runtime \in Nat /\ letzteMinute \in Nat
              /\ prevMillis \in Readings /\ waitTime \in Readings
              /\ Status \in {"timeNotSet", "timeNeedsSync", "timeSet"}
              /\ gestellt \in [time : Nat, ms : Nat]

\* How long ago now() was called last, so that millis() has not wrapped around.
LagInv ==
    /\ pc = "boot" => Since(ms, prevMillis) <= MsPerSecond
    /\ pc \in {"interval", "delay", "set"} =>
           \E d \in Pauses : Since(ms, prevMillis) < MsPerSecond + d
    /\ pc = "wait" =>
           \E d \in Pauses : Since(ms, prevMillis) < (SetupInterval + 1) * MsPerSecond + d
    /\ pc = "loop" =>
           \E d \in Pauses : Since(ms, prevMillis) < Since(ms, waitTime) + MsPerSecond + d

KeepsTime == sysTime * MsPerSecond + Since(ms, prevMillis)
                 = gestellt.time * MsPerSecond + (ms - gestellt.ms)

\* A clock that has been set is not at 0.
SetInv == Status = "timeSet" \/ pc \in {"set", "loop"} => sysTime > 0

ClockInv == ClockTypes /\ LagInv /\ KeepsTime /\ SetInv /\ SyncIsScheduled

LEMMA Bounds ==
    ASSUME NEW d1 \in Busy \cup {0}, NEW d2 \in Pauses
    PROVE  /\ MsPerSecond \in Nat \ {0} /\ SecondsPerMinute \in Nat \ {0}
           /\ SetupInterval \in Nat \ {0} /\ SyncInterval \in Nat \ {0}
           /\ Epoch \in Nat \ {0} /\ d1 \in Nat /\ d2 \in Nat /\ Wrap \in Nat
           /\ (SetupInterval + 1) * MsPerSecond \in Nat
           /\ SetupInterval * MsPerSecond + MsPerSecond = (SetupInterval + 1) * MsPerSecond
           /\ SetupInterval * MsPerSecond \in Nat
           /\ (SetupInterval + 1) * MsPerSecond + MsPerSecond + d1 + d2 < Wrap
           /\ 2 * MsPerSecond <= (SetupInterval + 1) * MsPerSecond
<1>1. /\ MsPerSecond \in Nat \ {0} /\ SecondsPerMinute \in Nat \ {0}
      /\ SetupInterval \in Nat \ {0} /\ SyncInterval \in Nat \ {0}
      /\ Epoch \in Nat \ 0 .. SecondsPerMinute
      /\ d1 \in Nat /\ d2 \in Nat /\ Wrap \in Nat
      /\ (SetupInterval + 2) * MsPerSecond + d1 + d2 < Wrap
    BY ClockAssumption DEF ClockAssumption, Pauses
<1>2. /\ (SetupInterval + 2) * MsPerSecond = (SetupInterval + 1) * MsPerSecond + MsPerSecond
      /\ (SetupInterval + 1) * MsPerSecond = SetupInterval * MsPerSecond + MsPerSecond
      /\ (SetupInterval + 1) * MsPerSecond \in Nat
      /\ SetupInterval * MsPerSecond \in Nat
    BY <1>1
<1>3. MsPerSecond <= SetupInterval * MsPerSecond
    BY <1>1
<1>4. QED
    BY <1>1, <1>2, <1>3

LEMMA ClockInit == Init => ClockInv
<1> SUFFICES ASSUME Init
             PROVE  ClockInv
    OBVIOUS
<1>1. /\ 0 \in Pauses /\ 0 \in Busy \cup {0}
    BY DEF Pauses
<1>2. /\ MsPerSecond \in Nat /\ Wrap \in Nat /\ MsPerSecond < Wrap
      /\ ms \in Nat /\ ms <= MsPerSecond
    BY <1>1, Bounds DEF Init
<1>3. 0 \in Readings /\ Since(ms, 0) = ms
  <2>1. 0 \in Readings /\ ms % Wrap = ms
      BY <1>2, WrapAround, ModSmall DEF Readings
  <2>2. QED
      BY <1>2, <2>1, SinceIs
<1>4. ClockTypes
    BY <1>2, <1>3 DEF Init, ClockTypes
<1>5. KeepsTime
    BY <1>2, <1>3 DEF Init, KeepsTime
<1>6. QED
    BY <1>2, <1>3, <1>4, <1>5 DEF Init, ClockInv, LagInv, SetInv, SyncIsScheduled

\* What a call of now() does.
NowDone(next) ==
    /\ ms' \in Nat /\ sysTime' \in Nat /\ nextSyncTime' \in Nat /\ prevMillis' \in Readings
    /\ Status' \in {"timeNotSet", "timeNeedsSync", "timeSet"}
    /\ gestellt' \in [time : Nat, ms : Nat]
    /\ KeepsTime'
    /\ \E d \in Pauses : ms' = ms + d /\ Since(ms', prevMillis') < MsPerSecond + d
    /\ sysTime > 0 => sysTime' > 0
    /\ Status' = "timeSet" /\ Status # "timeSet" => sysTime' > 0
    /\ next <= sysTime + syncInterval => /\ sysTime' < nextSyncTime'
                                         /\ nextSyncTime' <= sysTime' + syncInterval

LEMMA NowKeeps ==
    ASSUME ClockTypes, KeepsTime, NEW next \in Nat, now(next)
    PROVE  NowDone(next)
<1> DEFINE lag == Since(ms, prevMillis)
           s == lag \div MsPerSecond
           sys == sysTime + s
<1>1. /\ MsPerSecond \in Nat \ {0} /\ Epoch \in Nat \ {0} /\ 0 \in Pauses
      /\ Pauses \subseteq Nat
    BY Bounds DEF Pauses
<1>2. lag \in Readings /\ lag \in Nat
  <2>1. ms \in Nat /\ prevMillis \in Readings
      BY DEF ClockTypes
  <2>2. Since(ms, prevMillis) \in Readings
      BY <2>1, SinceIs
  <2>3. QED
      BY <2>2, WrapAround DEF Readings
<1>3. /\ s \in Nat /\ lag % MsPerSecond \in 0 .. MsPerSecond - 1
      /\ lag = MsPerSecond * s + (lag % MsPerSecond)
    BY <1>1, <1>2, DivMod
<1>4. /\ sys \in Nat /\ sys >= sysTime
      /\ s * MsPerSecond \in Nat /\ s * MsPerSecond <= lag
      /\ lag - s * MsPerSecond < MsPerSecond
      /\ sys * MsPerSecond = sysTime * MsPerSecond + s * MsPerSecond
  <2> HIDE DEF lag, s
  <2>1. s * MsPerSecond \in Nat /\ MsPerSecond * s = s * MsPerSecond
      BY <1>1, <1>3
  <2>2. sysTime \in Nat /\ (sysTime + s) * MsPerSecond = sysTime * MsPerSecond + s * MsPerSecond
      BY <1>1, <1>3 DEF ClockTypes
  <2>3. QED
      BY <1>1, <1>2, <1>3, <2>1, <2>2
<1>5. /\ Kept(s) \in Readings /\ Since(ms, Kept(s)) = lag - s * MsPerSecond
  <2>1. ms \in Nat /\ prevMillis \in Readings
      BY DEF ClockTypes
  <2> HIDE DEF s
  <2>2. QED
      BY <1>4, <2>1, SinceKept DEF Kept
<1>6. \/ /\ sys < next /\ sysTime' = sys /\ prevMillis' = Kept(s) /\ nextSyncTime' = next
         /\ UNCHANGED <<ms, Status, gestellt>>
      \/ /\ next <= sys
         /\ \E d \in Blocked : ms' = ms + d
         /\ setTime(Epoch + ms' \div MsPerSecond)
      \/ /\ next <= sys
         /\ \E d \in Blocked : ms' = ms + d
         /\ sysTime' = sys /\ prevMillis' = Kept(s) /\ nextSyncTime' = sys + syncInterval
         /\ Status' = IF Status = "timeNotSet" THEN Status ELSE "timeNeedsSync"
         /\ UNCHANGED gestellt
    BY DEF now, Elapsed, millis, Since, NextAttempt
<1> HIDE DEF lag, s, sys
\* No synchronisation, or a failed one, after d ms.
<1>7. ASSUME NEW d \in Pauses, ms' = ms + d, sysTime' = sys, prevMillis' = Kept(s),
             UNCHANGED gestellt
      PROVE  /\ ms' \in Nat /\ Since(ms', prevMillis') < MsPerSecond + d
             /\ KeepsTime'
  <2>1. ms \in Nat /\ d \in Nat /\ ms' \in Nat
      BY <1>1, <1>7 DEF ClockTypes
  <2>2. Since(ms, Kept(s)) + d < Wrap
    <3>1. MsPerSecond + d < Wrap
      <4>1. 0 \in Busy \cup {0}
          OBVIOUS
      <4>2. QED
          BY <4>1, Bounds
    <3>2. QED
        BY <1>1, <1>2, <1>4, <1>5, <2>1, <3>1, WrapAround
  <2>3. Since(ms', prevMillis') = lag - s * MsPerSecond + d
      BY <1>5, <1>7, <2>1, <2>2, SinceGrows
  <2>4. sysTime * MsPerSecond + lag = gestellt.time * MsPerSecond + (ms - gestellt.ms)
      BY DEF KeepsTime, lag
  <2>5. /\ gestellt.time * MsPerSecond \in Nat /\ gestellt.ms \in Nat
        /\ sysTime * MsPerSecond \in Nat
      BY <1>1 DEF ClockTypes
  <2> DEFINE a == sysTime * MsPerSecond
             b == s * MsPerSecond
             c == gestellt.time * MsPerSecond
             e == sysTime' * MsPerSecond
  <2>a. e = a + b
      BY <1>4, <1>7
  <2>b. /\ a + lag = c + (ms - gestellt.ms) /\ Since(ms', prevMillis') = lag - b + d
        /\ a \in Nat /\ b \in Nat /\ c \in Nat /\ gestellt.ms \in Nat
      BY <1>4, <2>3, <2>4, <2>5
  <2> HIDE DEF a, b, c, e
  <2>c. e + Since(ms', prevMillis') = c + (ms' - gestellt.ms)
      BY <1>2, <1>7, <2>1, <2>a, <2>b
  <2>6. sysTime' * MsPerSecond + Since(ms', prevMillis')
            = gestellt.time * MsPerSecond + (ms' - gestellt.ms)
      BY <2>c DEF c, e
  <2>7. QED
      BY <1>1, <1>2, <1>4, <1>7, <2>1, <2>3, <2>6 DEF KeepsTime
<1>8. CASE /\ sys < next /\ sysTime' = sys /\ prevMillis' = Kept(s) /\ nextSyncTime' = next
           /\ UNCHANGED <<ms, Status, gestellt>>
  <2>1. ms' = ms + 0
      BY <1>8 DEF ClockTypes
  <2>2. /\ ms' \in Nat /\ Since(ms', prevMillis') < MsPerSecond + 0 /\ KeepsTime'
      BY <1>1, <1>7, <1>8, <2>1
  <2>3. next <= sysTime + syncInterval => next <= sys + syncInterval
      BY <1>4 DEF ClockTypes
  <2>4. QED
      BY <1>1, <1>4, <1>5, <1>8, <2>1, <2>2, <2>3 DEF ClockTypes, NowDone
<1>9. CASE /\ next <= sys
           /\ \E d \in Blocked : ms' = ms + d
           /\ setTime(Epoch + ms' \div MsPerSecond)
  <2>1. PICK d \in Blocked : ms' = ms + d
      BY <1>9
  <2>2. d \in Pauses /\ d \in Nat /\ ms' \in Nat
      BY <1>1, <2>1 DEF Pauses, ClockTypes
  <2> DEFINE u == Epoch + ms' \div MsPerSecond
  <2>3. u \in Nat /\ u > 0
    <3>1. ms' \div MsPerSecond \in Nat
        BY <1>1, <2>2, DivMod
    <3>2. QED
        BY <1>1, <3>1
  <2> HIDE DEF u
  <2>4. /\ sysTime' = u /\ nextSyncTime' = u + syncInterval /\ Status' = "timeSet"
        /\ prevMillis' = ms' % Wrap /\ gestellt' = [time |-> u, ms |-> ms']
      BY <1>9 DEF setTime, u
  <2>5. prevMillis' \in Readings /\ Since(ms', prevMillis') = 0
      BY <2>2, <2>4, SinceNow
  <2>6. KeepsTime'
    <3>1. /\ gestellt'.time = u /\ gestellt'.ms = ms' /\ u * MsPerSecond \in Nat
        BY <1>1, <2>3, <2>4
    <3>2. sysTime' * MsPerSecond + Since(ms', prevMillis')
              = gestellt'.time * MsPerSecond + (ms' - gestellt'.ms)
        BY <2>2, <2>4, <2>5, <3>1
    <3>3. QED
        BY <3>2 DEF KeepsTime
  <2>7. Since(ms', prevMillis') < MsPerSecond + d
      BY <1>1, <2>2, <2>5
  <2>8. u < u + syncInterval /\ u + syncInterval \in Nat
      BY <2>3 DEF ClockTypes
  <2>9. gestellt' \in [time : Nat, ms : Nat]
      BY <2>2, <2>3, <2>4
  <2>10. QED
      BY <2>1, <2>2, <2>3, <2>4, <2>5, <2>6, <2>7, <2>8, <2>9 DEF NowDone
<1>10. CASE /\ next <= sys
            /\ \E d \in Blocked : ms' = ms + d
            /\ sysTime' = sys /\ prevMillis' = Kept(s) /\ nextSyncTime' = sys + syncInterval
            /\ Status' = IF Status = "timeNotSet" THEN Status ELSE "timeNeedsSync"
            /\ UNCHANGED gestellt
  <2>1. PICK d \in Blocked : ms' = ms + d
      BY <1>10
  <2>2. d \in Pauses
      BY DEF Pauses
  <2>3. /\ ms' \in Nat /\ Since(ms', prevMillis') < MsPerSecond + d /\ KeepsTime'
      BY <1>7, <1>10, <2>1, <2>2
  <2>4. sys < sys + syncInterval /\ sys + syncInterval \in Nat
      BY <1>4 DEF ClockTypes
  <2>5. Status' \in {"timeNotSet", "timeNeedsSync"}
      BY <1>10 DEF ClockTypes
  <2>6. gestellt' \in [time : Nat, ms : Nat]
      BY <1>10 DEF ClockTypes
  <2>7. sysTime > 0 => sysTime' > 0
      BY <1>4, <1>10 DEF ClockTypes
  <2>8. QED
      BY <1>4, <1>5, <1>10, <2>1, <2>2, <2>3, <2>4, <2>5, <2>6, <2>7 DEF NowDone
<1>11. QED
    BY <1>6, <1>8, <1>9, <1>10

-------------------------------------------------------------------------------
(* The steps.                                                              *)

\* What a call of now() leaves of the invariant wherever it is made.
LEMMA NowInv ==
    ASSUME ClockInv, NEW next \in Nat, now(next)
    PROVE  NowDone(next) /\ (Status' = "timeSet" => sysTime' > 0)
<1>1. NowDone(next)
    BY NowKeeps DEF ClockInv
<1>2. Status = "timeSet" => sysTime > 0
    BY DEF ClockInv, SetInv
<1>3. /\ sysTime > 0 => sysTime' > 0
      /\ Status' = "timeSet" /\ Status # "timeSet" => sysTime' > 0
    BY <1>1 DEF NowDone
<1>4. QED
    BY <1>1, <1>2, <1>3

LEMMA SetSyncProviderKeeps ==
    ASSUME ClockInv, SetSyncProvider
    PROVE  ClockInv'
<1>1. NowDone(sysTime) /\ (Status' = "timeSet" => sysTime' > 0)
    BY NowInv DEF ClockInv, ClockTypes, SetSyncProvider
<1>2. pc' = "interval" /\ UNCHANGED <<syncInterval, waitTime, runtime, letzteMinute>>
    BY DEF SetSyncProvider, minutes
<1>3. ClockTypes'
    BY <1>1, <1>2 DEF ClockInv, ClockTypes, NowDone
<1>4. LagInv'
  <2>1. PICK d \in Pauses : Since(ms', prevMillis') < MsPerSecond + d
      BY <1>1 DEF NowDone
  <2>2. QED
      BY <1>2, <2>1 DEF LagInv
<1>5. QED
    BY <1>1, <1>2, <1>3, <1>4 DEF ClockInv, NowDone, SetInv, SyncIsScheduled

LEMMA ShortIntervalKeeps ==
    ASSUME ClockInv, ShortInterval
    PROVE  ClockInv'
<1>1. /\ pc = "interval" /\ pc' = "wait"
      /\ syncInterval' = SetupInterval /\ nextSyncTime' = sysTime + SetupInterval
      /\ UNCHANGED <<ms, sysTime, prevMillis, Status, gestellt,
                     waitTime, runtime, letzteMinute>>
    BY DEF ShortInterval, setSyncInterval, minutes
<1>2. 0 \in Busy \cup {0} /\ 0 \in Pauses
    BY DEF Pauses
<1>3. ClockTypes'
  <2>1. SetupInterval \in Nat \ {0}
      BY <1>2, Bounds
  <2>2. QED
      BY <1>1, <2>1 DEF ClockInv, ClockTypes
<1>4. LagInv'
  <2>1. PICK d \in Pauses : Since(ms, prevMillis) < MsPerSecond + d
      BY <1>1 DEF ClockInv, LagInv
  <2>2. Since(ms, prevMillis) < (SetupInterval + 1) * MsPerSecond + d
    <3>1. /\ (SetupInterval + 1) * MsPerSecond \in Nat /\ d \in Nat
          /\ MsPerSecond \in Nat /\ 2 * MsPerSecond <= (SetupInterval + 1) * MsPerSecond
        BY <1>2, Bounds
    <3>2. Since(ms, prevMillis) \in Nat
        BY SinceIs, WrapAround DEF ClockInv, ClockTypes, Readings
    <3>3. QED
        BY <2>1, <3>1, <3>2
  <2>3. QED
      BY <1>1, <2>2 DEF LagInv
<1>5. QED
    BY <1>1, <1>3, <1>4 DEF ClockInv, KeepsTime, SetInv, SyncIsScheduled

LEMMA TimeStatusKeeps ==
    ASSUME ClockInv, TimeStatus
    PROVE  ClockInv'
<1>1. NowDone(nextSyncTime) /\ (Status' = "timeSet" => sysTime' > 0)
    BY NowInv DEF ClockInv, ClockTypes, TimeStatus
<1>2. /\ pc' = IF Status' = "timeSet" THEN "set" ELSE "delay"
      /\ UNCHANGED <<syncInterval, waitTime, runtime, letzteMinute>>
    BY DEF TimeStatus, minutes
<1>3. ClockTypes'
    BY <1>1, <1>2 DEF ClockInv, ClockTypes, NowDone
<1>4. LagInv'
  <2>1. PICK d \in Pauses : Since(ms', prevMillis') < MsPerSecond + d
      BY <1>1 DEF NowDone
  <2>2. QED
      BY <1>2, <2>1 DEF LagInv
<1>5. QED
    BY <1>1, <1>2, <1>3, <1>4 DEF ClockInv, NowDone, SetInv, SyncIsScheduled

LEMMA DelayKeeps ==
    ASSUME ClockInv, Delay
    PROVE  ClockInv'
<1> DEFINE pause == SetupInterval * MsPerSecond
<1>1. /\ pc = "delay" /\ pc' = "wait" /\ ms' = ms + pause
      /\ UNCHANGED <<sysTime, prevMillis, nextSyncTime, Status, gestellt, syncInterval,
                     waitTime, runtime, letzteMinute>>
    BY DEF Delay, time, minutes
<1>2. PICK d \in Pauses : Since(ms, prevMillis) < MsPerSecond + d
    BY <1>1 DEF ClockInv, LagInv
<1>3. /\ pause \in Nat /\ d \in Nat /\ MsPerSecond \in Nat /\ Wrap \in Nat
      /\ pause + MsPerSecond = (SetupInterval + 1) * MsPerSecond
      /\ pause + MsPerSecond + d < Wrap
  <2>1. 0 \in Busy \cup {0}
      OBVIOUS
  <2>2. QED
      BY <2>1, Bounds
<1>4. ms \in Nat /\ prevMillis \in Readings /\ Since(ms, prevMillis) \in Readings
    BY SinceIs DEF ClockInv, ClockTypes
<1> HIDE DEF pause
<1>5. Since(ms, prevMillis) + pause < Wrap
    BY <1>2, <1>3, <1>4 DEF Readings
<1>6. Since(ms', prevMillis') = Since(ms, prevMillis) + pause /\ ms' \in Nat
    BY <1>1, <1>3, <1>4, <1>5, SinceGrows
<1>7. ClockTypes'
    BY <1>1, <1>6 DEF ClockInv, ClockTypes
<1>8. LagInv'
  <2>1. Since(ms', prevMillis') < (SetupInterval + 1) * MsPerSecond + d
      BY <1>2, <1>3, <1>4, <1>6 DEF Readings
  <2>2. QED
      BY <1>1, <2>1 DEF LagInv
<1>9. KeepsTime'
  <2>1. /\ sysTime * MsPerSecond \in Nat /\ gestellt.time * MsPerSecond \in Nat
        /\ gestellt.ms \in Nat
      BY <1>3 DEF ClockInv, ClockTypes
  <2> DEFINE a == sysTime * MsPerSecond
             c == gestellt.time * MsPerSecond
  <2>2. a + Since(ms, prevMillis) = c + (ms - gestellt.ms) /\ a \in Nat /\ c \in Nat
      BY <2>1 DEF ClockInv, KeepsTime
  <2>3. a' = a /\ c' = c /\ gestellt'.ms = gestellt.ms
      BY <1>1
  <2> HIDE DEF a, c
  <2>4. a + Since(ms', prevMillis') = c + (ms' - gestellt.ms)
      BY <1>1, <1>3, <1>4, <1>6, <2>1, <2>2 DEF Readings
  <2>5. a' + Since(ms', prevMillis') = c' + (ms' - gestellt'.ms)
      BY <2>3, <2>4
  <2>6. QED
      BY <2>5 DEF KeepsTime, a, c
<1>10. QED
    BY <1>1, <1>7, <1>8, <1>9 DEF ClockInv, SetInv, SyncIsScheduled

LEMMA LongIntervalKeeps ==
    ASSUME ClockInv, LongInterval
    PROVE  ClockInv'
<1>1. /\ pc = "set" /\ pc' = "loop"
      /\ syncInterval' = SyncInterval /\ nextSyncTime' = sysTime + SyncInterval
      /\ letzteMinute' = (sysTime + SecondsPerMinute - 1) \div SecondsPerMinute - 1
      /\ UNCHANGED <<ms, sysTime, prevMillis, Status, gestellt, waitTime, runtime>>
    BY DEF LongInterval, setSyncInterval
<1>2. sysTime \in Nat /\ sysTime > 0
    BY <1>1 DEF ClockInv, ClockTypes, SetInv
<1>3. SyncInterval \in Nat \ {0} /\ SecondsPerMinute \in Nat \ {0} /\ MsPerSecond \in Nat
  <2>1. 0 \in Busy \cup {0} /\ 0 \in Pauses
      BY DEF Pauses
  <2>2. QED
      BY <2>1, Bounds
<1>4. letzteMinute' \in Nat
  <2> DEFINE y == sysTime + SecondsPerMinute - 1
             q == y \div SecondsPerMinute
  <2>1. y \in Nat /\ y >= SecondsPerMinute
      BY <1>2, <1>3
  <2>2. /\ q \in Nat /\ y % SecondsPerMinute \in 0 .. SecondsPerMinute - 1
        /\ y = SecondsPerMinute * q + (y % SecondsPerMinute)
      BY <1>3, <2>1, DivMod
  <2>3. letzteMinute' = q - 1
      BY <1>1
  <2> HIDE DEF y, q
  <2>4. q # 0
    <3>1. q = 0 => SecondsPerMinute * q = 0
        BY <1>3
    <3>2. QED
        BY <1>3, <2>1, <2>2, <3>1
  <2>5. QED
      BY <2>2, <2>3, <2>4
<1>5. ClockTypes'
    BY <1>1, <1>2, <1>3, <1>4 DEF ClockInv, ClockTypes
<1>6. LagInv'
  <2>1. PICK d \in Pauses : Since(ms, prevMillis) < MsPerSecond + d
      BY <1>1 DEF ClockInv, LagInv
  <2>2. Since(ms, prevMillis) \in Nat /\ Since(ms, waitTime) \in Nat /\ d \in Nat
    <3>1. ms \in Nat /\ prevMillis \in Readings /\ waitTime \in Readings
        BY DEF ClockInv, ClockTypes
    <3>2. Since(ms, prevMillis) \in Readings /\ Since(ms, waitTime) \in Readings
        BY <3>1, SinceIs
    <3>3. d \in Nat
      <4>1. 0 \in Busy \cup {0}
          OBVIOUS
      <4>2. QED
          BY <4>1, Bounds
    <3>4. QED
        BY <3>2, <3>3, WrapAround DEF Readings
  <2>3. Since(ms, prevMillis) < Since(ms, waitTime) + MsPerSecond + d
      BY <1>3, <2>1, <2>2
  <2>4. QED
      BY <1>1, <2>3 DEF LagInv
<1>7. SyncIsScheduled'
    BY <1>1, <1>2, <1>3 DEF SyncIsScheduled
<1>8. QED
    BY <1>1, <1>2, <1>5, <1>6, <1>7 DEF ClockInv, KeepsTime, SetInv

LEMMA LoopKeeps ==
    ASSUME ClockInv, Loop
    PROVE  ClockInv'
<1>1. NowDone(nextSyncTime) /\ (Status' = "timeSet" => sysTime' > 0)
    BY NowInv DEF ClockInv, ClockTypes, Loop
<1>2. /\ pc = "loop" /\ pc' = "loop" /\ syncInterval' = syncInterval
      /\ waitTime' = ms % Wrap
      /\ IF sysTime' % SecondsPerMinute = 0
           THEN /\ runtime' = runtime + 1
                /\ letzteMinute' = sysTime' \div SecondsPerMinute
           ELSE UNCHANGED <<runtime, letzteMinute>>
    BY DEF Loop, millis
<1>3. SecondsPerMinute \in Nat \ {0} /\ MsPerSecond \in Nat /\ Pauses \subseteq Nat
  <2>1. 0 \in Busy \cup {0} /\ 0 \in Pauses
      BY DEF Pauses
  <2>2. QED
      BY <2>1, Bounds
<1>4. /\ ms' \in Nat /\ sysTime' \in Nat /\ nextSyncTime' \in Nat /\ prevMillis' \in Readings
      /\ Status' \in {"timeNotSet", "timeNeedsSync", "timeSet"}
      /\ gestellt' \in [time : Nat, ms : Nat]
    BY <1>1 DEF NowDone
<1>5. waitTime' \in Readings
    BY <1>2, SinceNow DEF ClockInv, ClockTypes
<1>6. runtime' \in Nat /\ letzteMinute' \in Nat
  <2>1. sysTime' \div SecondsPerMinute \in Nat
      BY <1>3, <1>4, DivMod
  <2>2. QED
      BY <1>2, <2>1 DEF ClockInv, ClockTypes
<1>7. ClockTypes'
    BY <1>2, <1>4, <1>5, <1>6 DEF ClockInv, ClockTypes
<1>8. LagInv'
  <2>1. PICK d \in Pauses : Since(ms', prevMillis') < MsPerSecond + d
      BY <1>1 DEF NowDone
  <2>2. Since(ms', prevMillis') \in Readings /\ Since(ms', waitTime') \in Readings
      BY <1>4, <1>5, SinceIs
  <2>3. Since(ms', prevMillis') \in Nat /\ Since(ms', waitTime') \in Nat /\ d \in Nat
      BY <1>3, <2>2, WrapAround DEF Readings
  <2>4. Since(ms', prevMillis') < Since(ms', waitTime') + MsPerSecond + d
      BY <1>3, <2>1, <2>3
  <2>5. QED
      BY <1>2, <2>4 DEF LagInv
<1>9. SyncIsScheduled'
    BY <1>1, <1>2 DEF ClockInv, SyncIsScheduled, NowDone
<1>10. SetInv'
  <2>1. sysTime > 0 => sysTime' > 0
      BY <1>1 DEF NowDone
  <2>2. QED
      BY <1>2, <2>1 DEF ClockInv, SetInv
<1>11. QED
    BY <1>1, <1>7, <1>8, <1>9, <1>10 DEF ClockInv, NowDone

\* A round of loop() does not last long enough for millis() to wrap around.
LEMMA ElapseGrows ==
    ASSUME ClockInv, Elapse
    PROVE  \E d1 \in Busy, d2 \in Pauses :
             /\ d1 \in Nat /\ d2 \in Nat
             /\ Since(ms, prevMillis) < Since(ms, waitTime) + MsPerSecond + d2
             /\ ms' = ms + d1
             /\ Since(ms', prevMillis') = Since(ms, prevMillis) + d1
             /\ Since(ms', waitTime') = Since(ms, waitTime) + d1
<1>1. /\ pc = "loop" /\ pc' = "loop" /\ Since(ms, waitTime) <= MsPerSecond
      /\ UNCHANGED <<sysTime, prevMillis, nextSyncTime, Status, gestellt, syncInterval,
                     waitTime, runtime, letzteMinute>>
  <2>1. Since(ms, waitTime) \in Nat /\ MsPerSecond \in Nat
    <3>1. Since(ms, waitTime) \in Readings
        BY SinceIs DEF ClockInv, ClockTypes
    <3>2. 0 \in Busy \cup {0} /\ 0 \in Pauses
        BY DEF Pauses
    <3>3. MsPerSecond \in Nat
        BY <3>2, Bounds
    <3>4. QED
        BY <3>1, <3>3, WrapAround DEF Readings
  <2>2. ~(Since(ms, waitTime) > MsPerSecond)
      BY DEF Elapse, Due, Elapsed, millis, Since
  <2>3. QED
      BY <2>1, <2>2 DEF Elapse, time, minutes
<1>2. PICK d1 \in Busy : ms' = ms + d1
    BY DEF Elapse
<1>3. PICK d2 \in Pauses :
          Since(ms, prevMillis) < Since(ms, waitTime) + MsPerSecond + d2
    BY <1>1 DEF ClockInv, LagInv
<1>4. /\ d1 \in Nat /\ d2 \in Nat /\ MsPerSecond \in Nat /\ Wrap \in Nat
      /\ 2 * MsPerSecond + d1 + d2 < Wrap
  <2>1. d1 \in Busy \cup {0}
      OBVIOUS
  <2>2. /\ d1 \in Nat /\ d2 \in Nat /\ MsPerSecond \in Nat /\ Wrap \in Nat
        /\ (SetupInterval + 1) * MsPerSecond \in Nat
        /\ (SetupInterval + 1) * MsPerSecond + MsPerSecond + d1 + d2 < Wrap
        /\ 2 * MsPerSecond <= (SetupInterval + 1) * MsPerSecond
      BY <2>1, Bounds
  <2> DEFINE k == (SetupInterval + 1) * MsPerSecond
  <2>3. k \in Nat /\ k + MsPerSecond + d1 + d2 < Wrap /\ 2 * MsPerSecond <= k
      BY <2>2
  <2> HIDE DEF k
  <2>4. QED
      BY <2>2, <2>3
<1>5. /\ ms \in Nat /\ prevMillis \in Readings /\ waitTime \in Readings
      /\ Since(ms, prevMillis) \in Nat /\ Since(ms, waitTime) \in Nat
  <2>1. ms \in Nat /\ prevMillis \in Readings /\ waitTime \in Readings
      BY DEF ClockInv, ClockTypes
  <2>2. Since(ms, prevMillis) \in Readings /\ Since(ms, waitTime) \in Readings
      BY <2>1, SinceIs
  <2>3. QED
      BY <2>1, <2>2, WrapAround DEF Readings
<1>6. Since(ms, prevMillis) + d1 < Wrap /\ Since(ms, waitTime) + d1 < Wrap
    BY <1>1, <1>3, <1>4, <1>5
<1>7. /\ ms' \in Nat
      /\ Since(ms', prevMillis') = Since(ms, prevMillis) + d1
      /\ Since(ms', waitTime') = Since(ms, waitTime) + d1
    BY <1>1, <1>2, <1>4, <1>5, <1>6, SinceGrows
<1>8. QED
    BY <1>2, <1>3, <1>4, <1>7

LEMMA ElapseKeeps ==
    ASSUME ClockInv, Elapse
    PROVE  ClockInv'
<1>1. /\ pc = "loop" /\ pc' = "loop"
      /\ UNCHANGED <<sysTime, prevMillis, nextSyncTime, Status, gestellt, syncInterval,
                     waitTime, runtime, letzteMinute>>
    BY DEF Elapse, time, minutes
<1>2. PICK d1 \in Busy, d2 \in Pauses :
             /\ d1 \in Nat /\ d2 \in Nat
             /\ Since(ms, prevMillis) < Since(ms, waitTime) + MsPerSecond + d2
             /\ ms' = ms + d1
             /\ Since(ms', prevMillis') = Since(ms, prevMillis) + d1
             /\ Since(ms', waitTime') = Since(ms, waitTime) + d1
    BY ElapseGrows
<1>3. MsPerSecond \in Nat
  <2>1. 0 \in Busy \cup {0} /\ 0 \in Pauses
      BY DEF Pauses
  <2>2. QED
      BY <2>1, Bounds
<1>4. /\ ms \in Nat /\ prevMillis \in Readings /\ waitTime \in Readings
      /\ Since(ms, prevMillis) \in Nat /\ Since(ms, waitTime) \in Nat
  <2>1. ms \in Nat /\ prevMillis \in Readings /\ waitTime \in Readings
      BY DEF ClockInv, ClockTypes
  <2>2. Since(ms, prevMillis) \in Readings /\ Since(ms, waitTime) \in Readings
      BY <2>1, SinceIs
  <2>3. QED
      BY <2>1, <2>2, WrapAround DEF Readings
<1>5. ms' \in Nat
    BY <1>2, <1>4
<1>6. ClockTypes'
    BY <1>1, <1>5 DEF ClockInv, ClockTypes
<1>7. LagInv'
  <2>1. Since(ms', prevMillis') < Since(ms', waitTime') + MsPerSecond + d2
      BY <1>2, <1>3, <1>4
  <2>2. QED
      BY <1>1, <2>1 DEF LagInv
<1>8. KeepsTime'
  <2> DEFINE a == sysTime * MsPerSecond
             c == gestellt.time * MsPerSecond
  <2>1. /\ a + Since(ms, prevMillis) = c + (ms - gestellt.ms)
        /\ a \in Nat /\ c \in Nat /\ gestellt.ms \in Nat
      BY <1>3 DEF ClockInv, ClockTypes, KeepsTime
  <2>2. a' = a /\ c' = c /\ gestellt'.ms = gestellt.ms
      BY <1>1
  <2> HIDE DEF a, c
  <2>3. a + Since(ms', prevMillis') = c + (ms' - gestellt.ms)
      BY <1>2, <1>4, <2>1
  <2>4. a' + Since(ms', prevMillis') = c' + (ms' - gestellt'.ms)
      BY <2>2, <2>3
  <2>5. QED
      BY <2>4 DEF KeepsTime, a, c
<1>9. QED
    BY <1>1, <1>6, <1>7, <1>8 DEF ClockInv, SetInv, SyncIsScheduled

LEMMA ClockStep == ClockInv /\ [Next]_vars => ClockInv'
<1>1. ASSUME ClockInv, UNCHANGED vars
      PROVE  ClockInv'
    BY <1>1 DEF vars, time, minutes, ClockInv, ClockTypes, LagInv, KeepsTime, SetInv,
                SyncIsScheduled
<1>2. ASSUME ClockInv, Next
      PROVE  ClockInv'
    BY <1>2, SetSyncProviderKeeps, ShortIntervalKeeps, TimeStatusKeeps, DelayKeeps,
       LongIntervalKeeps, LoopKeeps, ElapseKeeps DEF Next
<1>3. QED
    BY <1>1, <1>2

LEMMA ClockSafe == Spec => []ClockInv
BY ClockInit, ClockStep, PTL DEF Spec

-------------------------------------------------------------------------------
\* The readings of the clock stay readings: every difference of readings of
\* millis() is taken modulo 2^32, and time never runs below 0.
THEOREM ClockTyping == Spec => []TypeOK
<1>1. ClockInv => TypeOK
    BY DEF ClockInv, ClockTypes, TypeOK, Readings
<1>2. QED
    BY <1>1, ClockSafe, PTL

\* The while loop of now() (Time.cpp:252-259) neither loses nor counts twice a
\* millisecond, across any number of wrap-arounds, as long as loop() and a
\* question to the server together are shorter than one of them.
THEOREM TimeIsKept == Spec => []ClockKeepsTime
<1>1. ClockInv => ClockKeepsTime
    BY DEF ClockInv, KeepsTime, ClockKeepsTime, Elapsed, millis, Since
<1>2. QED
    BY <1>1, ClockSafe, PTL

\* Whatever the server does, once loop() runs the next synchronisation lies
\* ahead by at most the interval (Time.cpp:260-270).
THEOREM SyncStaysScheduled == Spec => []SyncIsScheduled
<1>1. ClockInv => SyncIsScheduled
    BY DEF ClockInv
<1>2. QED
    BY <1>1, ClockSafe, PTL

-------------------------------------------------------------------------------
(* The beginnings of minutes.                                              *)

LEMMA Cancel ==
    ASSUME NEW m \in Nat \ {0}, NEW a \in Nat, NEW b \in Nat, a * m < b * m
    PROVE  a < b
<1>1. ASSUME b <= a
      PROVE  FALSE
  <2>1. a - b \in Nat /\ (a - b) * m \in Nat /\ b * m \in Nat
      BY <1>1
  <2>2. ((a - b) + b) * m = (a - b) * m + b * m
      BY <2>1
  <2>3. (a - b) + b = a
      OBVIOUS
  <2>4. a * m = (a - b) * m + b * m
      BY <2>2, <2>3
  <2>5. QED
      BY <2>1, <2>4
<1>2. QED
    BY <1>1

\* The clock is never ahead of the server.
NotAhead == gestellt.time * MsPerSecond <= Epoch * MsPerSecond + gestellt.ms

\* The last minute seen is not in the future; if it has just begun, the second
\* is younger than the last look of loop(), or the clock has been set to it.
LookInv ==
    pc = "loop" =>
        /\ letzteMinute * SecondsPerMinute <= sysTime
        /\ \/ letzteMinute * SecondsPerMinute < sysTime
           \/ Since(ms, prevMillis) >= Since(ms, waitTime)
           \/ sysTime = gestellt.time

MinuteInv == ClockInv /\ NotAhead /\ LookInv

\* What a call of now() means for the minutes.
NowLooks ==
    /\ NotAhead'
    /\ sysTime' >= sysTime
    /\ Since(ms, prevMillis) > MsPerSecond => sysTime' > sysTime
    /\ \/ sysTime' = gestellt'.time
       \/ Since(ms', prevMillis') >= Since(ms', ms % Wrap)

LEMMA NowIsLooked ==
    ASSUME ClockTypes, KeepsTime, NotAhead, NEW next \in Nat, now(next)
    PROVE  NowLooks
<1> DEFINE lag == Since(ms, prevMillis)
           s == lag \div MsPerSecond
           sys == sysTime + s
           b == s * MsPerSecond
<1>1. /\ MsPerSecond \in Nat \ {0} /\ Epoch \in Nat /\ Blocked \subseteq Nat /\ Wrap \in Nat
  <2>1. 0 \in Pauses /\ 0 \in Busy \cup {0} /\ Blocked \subseteq Pauses
      BY DEF Pauses
  <2>2. QED
      BY <2>1, Bounds
<1>2. lag \in Nat /\ lag < Wrap /\ ms \in Nat /\ prevMillis \in Readings /\ sysTime \in Nat
  <2>1. ms \in Nat /\ prevMillis \in Readings /\ sysTime \in Nat
      BY DEF ClockTypes
  <2>2. Since(ms, prevMillis) \in Readings
      BY <2>1, SinceIs
  <2>3. QED
      BY <2>1, <2>2, WrapAround DEF Readings
<1>3. /\ s \in Nat /\ b \in Nat /\ b <= lag /\ lag - b < MsPerSecond
  <2>1. /\ s \in Nat /\ lag % MsPerSecond \in 0 .. MsPerSecond - 1
        /\ lag = MsPerSecond * s + (lag % MsPerSecond)
      BY <1>1, <1>2, DivMod
  <2> HIDE DEF lag, s
  <2>2. MsPerSecond * s = b /\ b \in Nat
      BY <1>1, <2>1
  <2>3. QED
      BY <1>1, <1>2, <2>1, <2>2
<1>4. lag > MsPerSecond => s > 0
  <2> HIDE DEF lag, s
  <2>1. s = 0 => b = 0
      BY <1>1
  <2> HIDE DEF b
  <2>2. QED
      BY <1>1, <1>2, <1>3, <2>1
<1>5. /\ Kept(s) \in Readings /\ Since(ms, Kept(s)) = lag - b
  <2> HIDE DEF s
  <2>1. QED
      BY <1>2, <1>3, SinceKept DEF Kept
<1>6. \/ /\ sysTime' = sys /\ prevMillis' = Kept(s)
         /\ \E d \in Blocked \cup {0} : ms' = ms + d
         /\ UNCHANGED gestellt
      \/ /\ \E d \in Blocked : ms' = ms + d
         /\ setTime(Epoch + ms' \div MsPerSecond)
  <2>1. ms' = ms => ms' = ms + 0
      BY <1>2
  <2>2. QED
      BY <2>1 DEF now, Elapsed, millis, Since
<1> HIDE DEF lag, s, sys, b
<1>7. sys = sysTime + s
    BY DEF sys
<1>8. CASE /\ sysTime' = sys /\ prevMillis' = Kept(s)
           /\ \E d \in Blocked \cup {0} : ms' = ms + d
           /\ UNCHANGED gestellt
  <2>1. PICK d \in Blocked \cup {0} : ms' = ms + d
      BY <1>8
  <2>2. d \in Nat /\ MsPerSecond + d < Wrap
    <3>1. d \in Pauses /\ 0 \in Busy \cup {0}
        BY DEF Pauses
    <3>2. QED
        BY <3>1, Bounds
  <2>3. Since(ms', prevMillis') = lag - b + d
    <3>1. Since(ms, Kept(s)) + d < Wrap
        BY <1>1, <1>2, <1>3, <1>5, <2>2
    <3>2. Since(ms + d, Kept(s)) = Since(ms, Kept(s)) + d
        BY <1>2, <1>5, <2>2, <3>1, SinceGrows
    <3>3. QED
        BY <1>5, <1>8, <2>1, <3>2
  <2>4. Since(ms', ms % Wrap) = d
    <3>1. ms % Wrap \in Readings /\ Since(ms, ms % Wrap) = 0
        BY <1>2, SinceNow
    <3>2. QED
        BY <1>1, <1>2, <2>1, <2>2, <3>1, SinceGrows
  <2>5. NotAhead'
      BY <1>8 DEF NotAhead
  <2>6. QED
      BY <1>2, <1>3, <1>4, <1>7, <1>8, <2>2, <2>3, <2>4, <2>5 DEF NowLooks, lag
<1>9. CASE /\ \E d \in Blocked : ms' = ms + d
           /\ setTime(Epoch + ms' \div MsPerSecond)
  <2> DEFINE q == ms' \div MsPerSecond
             e == ms' % MsPerSecond
             u == Epoch + q
  <2>1. ms' \in Nat /\ ms' >= ms
      BY <1>1, <1>2, <1>9
  <2>2. q \in Nat /\ e \in 0 .. MsPerSecond - 1 /\ ms' = MsPerSecond * q + e
      BY <1>1, <2>1, DivMod
  <2>3. sysTime' = u /\ gestellt' = [time |-> u, ms |-> ms']
      BY <1>9 DEF setTime
  <2> HIDE DEF q, e
  <2> DEFINE c == u * MsPerSecond
             f == Epoch * MsPerSecond
  <2>4. c = f + MsPerSecond * q /\ f \in Nat /\ MsPerSecond * q \in Nat
      BY <1>1, <2>2
  <2>5. gestellt'.time = u /\ gestellt'.ms = ms'
      BY <2>3
  <2>6. NotAhead'
    <3>1. c <= f + ms'
      <4> HIDE DEF c, f
      <4>1. QED
          BY <1>1, <2>1, <2>2, <2>4
    <3>2. QED
        BY <2>5, <3>1 DEF NotAhead
  <2>7. u \in Nat /\ u + 1 \in Nat /\ sys \in Nat
      BY <1>1, <1>2, <1>3, <1>7, <2>2
  <2>8. sys * MsPerSecond < (u + 1) * MsPerSecond
    <3> DEFINE a == sysTime * MsPerSecond
               g == gestellt.time * MsPerSecond
               h == gestellt.ms
    <3>1. sys * MsPerSecond = a + b /\ a \in Nat
        BY <1>1, <1>2, <1>3, <1>7 DEF b
    <3>2. a + lag = g + (ms - h) /\ g <= f + h /\ g \in Nat /\ h \in Nat
        BY <1>1 DEF KeepsTime, NotAhead, ClockTypes, lag
    <3>3. (u + 1) * MsPerSecond = c + MsPerSecond /\ c \in Nat
        BY <1>1, <2>7
    <3> HIDE DEF a, g, h, c, f, u
    <3>4. a + b < c + MsPerSecond
        BY <1>1, <1>2, <1>3, <2>1, <2>2, <2>4, <3>1, <3>2
    <3>5. QED
        BY <3>1, <3>3, <3>4
  <2> HIDE DEF u, c, f
  <2>9. sys < u + 1
      BY <1>1, <2>7, <2>8, Cancel
  <2>10. sysTime' >= sys
      BY <2>3, <2>7, <2>9
  <2>11. QED
      BY <1>2, <1>3, <1>4, <1>7, <2>3, <2>5, <2>6, <2>7, <2>10 DEF NowLooks, lag
<1>10. QED
    BY <1>6, <1>8, <1>9

LEMMA LongIntervalLooks ==
    ASSUME MinuteInv, LongInterval
    PROVE  LookInv'
<1>1. /\ letzteMinute' = (sysTime + SecondsPerMinute - 1) \div SecondsPerMinute - 1
      /\ sysTime' = sysTime /\ sysTime \in Nat /\ sysTime > 0
    BY DEF LongInterval, setSyncInterval, MinuteInv, ClockInv, ClockTypes, SetInv
<1>2. SecondsPerMinute \in Nat \ {0}
  <2>1. 0 \in Busy \cup {0} /\ 0 \in Pauses
      BY DEF Pauses
  <2>2. QED
      BY <2>1, Bounds
<1> DEFINE y == sysTime + SecondsPerMinute - 1
           q == y \div SecondsPerMinute
           e == y % SecondsPerMinute
<1>3. y \in Nat /\ y = sysTime + SecondsPerMinute - 1
    BY <1>1, <1>2
<1>4. letzteMinute' = q - 1
    BY <1>1
<1> HIDE DEF y
<1>5. q \in Nat /\ e \in 0 .. SecondsPerMinute - 1 /\ y = SecondsPerMinute * q + e
    BY <1>3, <1>2, DivMod
<1> HIDE DEF q, e
<1>6. (q - 1) * SecondsPerMinute = SecondsPerMinute * q - SecondsPerMinute
      /\ SecondsPerMinute * q \in Nat
    BY <1>2, <1>5
<1>7. (q - 1) * SecondsPerMinute < sysTime
    BY <1>3, <1>1, <1>2, <1>5, <1>6
<1>8. letzteMinute' * SecondsPerMinute < sysTime'
    BY <1>1, <1>4, <1>7
<1>9. letzteMinute' * SecondsPerMinute <= sysTime'
  <2>1. (q - 1) * SecondsPerMinute \in Int
      BY <1>2, <1>5
  <2>2. QED
      BY <1>1, <1>4, <1>7, <2>1
<1>10. QED
    BY <1>8, <1>9 DEF LookInv

LEMMA LoopLooks ==
    ASSUME MinuteInv, Loop
    PROVE  /\ NotAhead' /\ LookInv'
           /\ runtime' # runtime => \/ letzteMinute' > letzteMinute
                                   \/ letzteMinute' = gestellt.time \div SecondsPerMinute
<1>1. /\ pc = "loop" /\ waitTime' = ms % Wrap
      /\ Since(ms, waitTime) > MsPerSecond
      /\ now(nextSyncTime)
      /\ IF sysTime' % SecondsPerMinute = 0
           THEN /\ runtime' = runtime + 1
                /\ letzteMinute' = sysTime' \div SecondsPerMinute
           ELSE UNCHANGED <<runtime, letzteMinute>>
    BY DEF Loop, Due, Elapsed, millis, Since
<1>2. /\ NowLooks /\ NowDone(nextSyncTime)
    BY <1>1, NowIsLooked, NowInv DEF MinuteInv, ClockInv, ClockTypes
<1>3. SecondsPerMinute \in Nat \ {0} /\ MsPerSecond \in Nat \ {0}
  <2>1. 0 \in Busy \cup {0} /\ 0 \in Pauses
      BY DEF Pauses
  <2>2. QED
      BY <2>1, Bounds
<1>4. /\ sysTime \in Nat /\ sysTime' \in Nat /\ sysTime' >= sysTime
      /\ letzteMinute \in Nat /\ gestellt.time \in Nat
      /\ letzteMinute * SecondsPerMinute \in Nat
      /\ letzteMinute * SecondsPerMinute <= sysTime
    BY <1>1, <1>2, <1>3 DEF NowLooks, NowDone, MinuteInv, LookInv, ClockInv, ClockTypes
\* If the clock stands still on a minute already seen, it has been set to it.
<1>5. letzteMinute * SecondsPerMinute = sysTime' => sysTime' = gestellt.time
  <2>1. /\ Since(ms, prevMillis) \in Nat /\ Since(ms, waitTime) \in Nat
    <3>1. ms \in Nat /\ prevMillis \in Readings /\ waitTime \in Readings
        BY DEF MinuteInv, ClockInv, ClockTypes
    <3>2. Since(ms, prevMillis) \in Readings /\ Since(ms, waitTime) \in Readings
        BY <3>1, SinceIs
    <3>3. QED
        BY <3>2, WrapAround DEF Readings
  <2>2. ASSUME letzteMinute * SecondsPerMinute = sysTime'
        PROVE  sysTime' = gestellt.time
    <3>1. sysTime' = sysTime
        BY <1>4, <2>2
    <3>2. ~(Since(ms, prevMillis) > MsPerSecond)
        BY <1>2, <1>4, <3>1 DEF NowLooks
    <3>3. ~(Since(ms, prevMillis) >= Since(ms, waitTime))
        BY <1>1, <1>3, <2>1, <3>2
    <3>4. ~(letzteMinute * SecondsPerMinute < sysTime)
        BY <1>4, <2>2, <3>1
    <3>5. QED
        BY <1>1, <3>1, <3>3, <3>4 DEF MinuteInv, LookInv
  <2>3. QED
      BY <2>2
<1>6. CASE sysTime' % SecondsPerMinute = 0
  <2> DEFINE q == sysTime' \div SecondsPerMinute
  <2>1. q \in Nat /\ sysTime' = SecondsPerMinute * q /\ letzteMinute' = q
        /\ SecondsPerMinute * q = q * SecondsPerMinute
    <3>1. /\ q \in Nat
          /\ sysTime' = SecondsPerMinute * q + (sysTime' % SecondsPerMinute)
        BY <1>3, <1>4, DivMod
    <3>2. letzteMinute' = q
        BY <1>1, <1>6
    <3> HIDE DEF q
    <3>3. SecondsPerMinute * q = q * SecondsPerMinute /\ SecondsPerMinute * q \in Nat
        BY <1>3, <3>1
    <3>4. QED
        BY <1>4, <1>6, <3>1, <3>2, <3>3
  <2>2. gestellt.time = sysTime' => gestellt.time \div SecondsPerMinute = q
      OBVIOUS
  <2> HIDE DEF q
  <2>3. letzteMinute <= q
    <3>1. /\ (q + 1) * SecondsPerMinute = sysTime' + SecondsPerMinute
        BY <1>3, <2>1
    <3>2. letzteMinute * SecondsPerMinute < (q + 1) * SecondsPerMinute
        BY <1>3, <1>4, <3>1
    <3>3. q + 1 \in Nat
        BY <2>1
    <3>4. letzteMinute < q + 1
        BY <1>3, <1>4, <3>2, <3>3, Cancel
    <3>5. QED
        BY <1>4, <2>1, <3>4
  <2>4. letzteMinute' > letzteMinute \/ letzteMinute' = gestellt.time \div SecondsPerMinute
    <3>1. CASE letzteMinute = q
        BY <1>5, <2>1, <2>2, <3>1
    <3>2. CASE letzteMinute # q
        BY <1>4, <2>1, <2>3, <3>2
    <3>3. QED
        BY <3>1, <3>2
  <2>5. letzteMinute' * SecondsPerMinute <= sysTime'
      BY <1>4, <2>1
  <2>6. LookInv'
      BY <1>1, <1>2, <2>5 DEF NowLooks, LookInv
  <2>7. QED
      BY <1>2, <2>4, <2>6 DEF NowLooks
<1>7. CASE sysTime' % SecondsPerMinute # 0
  <2>1. letzteMinute' = letzteMinute /\ runtime' = runtime
      BY <1>1, <1>7
  <2>2. letzteMinute' * SecondsPerMinute <= sysTime'
      BY <1>4, <2>1
  <2>3. LookInv'
      BY <1>1, <1>2, <2>2 DEF NowLooks, LookInv
  <2>4. QED
      BY <1>2, <2>1, <2>3 DEF NowLooks
<1>8. QED
    BY <1>6, <1>7

LEMMA ElapseLooks ==
    ASSUME MinuteInv, Elapse
    PROVE  LookInv'
<1>1. /\ pc = "loop"
      /\ UNCHANGED <<sysTime, prevMillis, gestellt, waitTime, letzteMinute>>
    BY DEF Elapse, time, minutes
<1>2. PICK d \in Nat : /\ Since(ms', prevMillis') = Since(ms, prevMillis) + d
                       /\ Since(ms', waitTime') = Since(ms, waitTime) + d
  <2>1. \E d1 \in Busy, d2 \in Pauses :
            /\ d1 \in Nat
            /\ Since(ms', prevMillis') = Since(ms, prevMillis) + d1
            /\ Since(ms', waitTime') = Since(ms, waitTime) + d1
      BY ElapseGrows DEF MinuteInv
  <2>2. QED
      BY <2>1
<1>3. Since(ms, prevMillis) \in Nat /\ Since(ms, waitTime) \in Nat
  <2>1. ms \in Nat /\ prevMillis \in Readings /\ waitTime \in Readings
      BY DEF MinuteInv, ClockInv, ClockTypes
  <2>2. Since(ms, prevMillis) \in Readings /\ Since(ms, waitTime) \in Readings
      BY <2>1, SinceIs
  <2>3. QED
      BY <2>2, WrapAround DEF Readings
<1>4. Since(ms, prevMillis) >= Since(ms, waitTime)
          => Since(ms', prevMillis') >= Since(ms', waitTime')
    BY <1>2, <1>3
<1>5. QED
    BY <1>1, <1>4 DEF MinuteInv, LookInv

LEMMA MinuteStep ==
    ASSUME MinuteInv, [Next]_vars
    PROVE  /\ MinuteInv'
           /\ runtime' # runtime => \/ letzteMinute' > letzteMinute
                                   \/ letzteMinute' = gestellt.time \div SecondsPerMinute
<1>1. ClockInv'
    BY ClockStep DEF MinuteInv
<1>2. CASE SetSyncProvider \/ TimeStatus
  <2>1. PICK next \in Nat : now(next)
      BY <1>2 DEF SetSyncProvider, TimeStatus, MinuteInv, ClockInv, ClockTypes
  <2>2. NotAhead'
      BY <2>1, NowIsLooked DEF NowLooks, MinuteInv, ClockInv
  <2>3. pc' # "loop" /\ runtime' = runtime
      BY <1>2 DEF SetSyncProvider, TimeStatus, minutes
  <2>4. QED
      BY <1>1, <2>2, <2>3 DEF MinuteInv, LookInv
<1>3. CASE ShortInterval \/ Delay
  <2>1. pc' # "loop" /\ UNCHANGED <<runtime, gestellt>>
      BY <1>3 DEF ShortInterval, Delay, setSyncInterval, minutes, time
  <2>2. QED
      BY <1>1, <2>1 DEF MinuteInv, LookInv, NotAhead
<1>4. CASE LongInterval
  <2>1. UNCHANGED <<runtime, gestellt>>
      BY <1>4 DEF LongInterval, setSyncInterval
  <2>2. QED
      BY <1>1, <1>4, <2>1, LongIntervalLooks DEF MinuteInv, NotAhead
<1>5. CASE Loop
    BY <1>1, <1>5, LoopLooks DEF MinuteInv
<1>6. CASE Elapse
  <2>1. UNCHANGED <<runtime, gestellt>>
      BY <1>6 DEF Elapse, minutes, time
  <2>2. QED
      BY <1>1, <1>6, <2>1, ElapseLooks DEF MinuteInv, NotAhead
<1>7. CASE UNCHANGED vars
    BY <1>1, <1>7 DEF vars, time, minutes, MinuteInv, LookInv, NotAhead
<1>8. QED
    BY <1>2, <1>3, <1>4, <1>5, <1>6, <1>7 DEF Next

\* loop() works once on the beginning of a minute (loop.ino:9, :18) unless a
\* synchronisation has set the clock in that minute, for a server that is never
\* behind the clock and any lengths of seconds, minutes, rounds and questions.
THEOREM MinutesAreSeenOnce == Spec => MinuteOnce
<1>1. Init => MinuteInv
  <2>1. Init => ClockInv
      BY ClockInit
  <2>2. Init => NotAhead /\ LookInv
    <3>1. 0 \in Busy \cup {0} /\ 0 \in Pauses
        BY DEF Pauses
    <3>2. MsPerSecond \in Nat /\ Epoch \in Nat
        BY <3>1, Bounds
    <3>3. Epoch * MsPerSecond \in Nat /\ 0 * MsPerSecond = 0
        BY <3>2
    <3>4. QED
        BY <3>3 DEF Init, NotAhead, LookInv
  <2>3. QED
      BY <2>1, <2>2 DEF MinuteInv
<1>2. MinuteInv /\ [Next]_vars => MinuteInv'
    BY MinuteStep
<1>3. MinuteInv /\ [Next]_vars =>
        [runtime' # runtime =>
           \/ letzteMinute' > letzteMinute
           \/ letzteMinute' = gestellt.time \div SecondsPerMinute]_vars
    BY MinuteStep
<1>4. QED
    BY <1>1, <1>2, <1>3, PTL DEF Spec, MinuteOnce
===============================================================================
