---------------------------- MODULE TcpConnections ----------------------------
(***************************************************************************)
(* TCP connections of the logger: WiFiServer accepts them, WiFiClient      *)
(* objects (the handles) share them by counting, and ClientContext sits    *)
(* between them and lwIP.  The sketch is one thread; lwIP's callbacks run  *)
(* whenever it waits, and between any two of its calls.  The web server    *)
(* uses two handles, and FHEMHTTPsend() (sendfhem.ino) is a client with a  *)
(* handle of its own.                                                      *)
(***************************************************************************)
EXTENDS Naturals, Sequences, FiniteSets

CONSTANTS MaxConn,    \* bounds the connections of a behaviour
          TcpWnd,     \* lwIP's receive window
          MaxWrite,   \* the longest write
          SndBuf,     \* lwIP's send buffer
          W,          \* size_t is modulo W
          Handles,    \* the WiFiClient objects of the web server
          Fhem        \* the one of FHEMHTTPsend()

ASSUME TcpAssumption == /\ {MaxConn, TcpWnd, MaxWrite, SndBuf} \subseteq Nat \ {0}
                        /\ W \in Nat /\ W > 2 * SndBuf
                        /\ IsFiniteSet(Handles)
                        /\ Fhem \in Handles

Conn == 1 .. MaxConn
None == 0

VARIABLES
    \* WiFiServer
    listening, unclaimed,
    \* WiFiClient: _client of every handle
    client,
    \* ClientContext
    made,        \* how many there have been; the next one is made + 1
    alive,       \* those not deleted
    refcnt,      \* _refcnt
    open,        \* _pcb is not null
    rx,          \* the lengths of the packets chained to _rx_buf
    offset,      \* _rx_buf_offset
    sizeSent,    \* _size_sent; nobody reads it before the first write sets it
    \* lwIP
    inflight,    \* bytes of ours not acknowledged yet
    owed,        \* bytes of the receive window not yet given back
    \* the sketch
    pc,          \* what it does: see Places
    user,        \* with which handle
    busy,        \* the context in whose write() it waits
    willSend,    \* will_send of that write()
    scheduled,   \* esp_schedule() has been called: it will go on
    \* history
    acked,       \* bytes acknowledged during this write()
    before,      \* bytes in flight when it began
    pulled       \* stopAll() has deleted busy

\* "loop"        between two calls of the web server
\* "connecting"  in esp_yield() of connect()
\* "stuck"       there, and lwIP will call nobody back
\* "writing"     in delay(5000) of write()
\* "send", "reply", "read", "close"   the parts of FHEMHTTPsend()
Places == {"loop", "connecting", "stuck", "writing", "send", "reply", "read", "close"}

counts   == <<unclaimed, client, made, alive, refcnt>>
received == <<rx, offset, owed>>
sent     == <<sizeSent, inflight>>
waits    == <<user, busy, willSend, scheduled, acked, before, pulled>>
vars == <<listening, counts, open, received, sent, pc, waits>>

NoBytes == [c \in Conn |-> 0]

Init == /\ listening = FALSE
        /\ unclaimed = <<>>
        /\ client = [h \in Handles |-> None]
        /\ made = 0
        /\ alive = {}
        /\ refcnt = NoBytes
        /\ open = [c \in Conn |-> FALSE]
        /\ rx = [c \in Conn |-> <<>>]
        /\ offset = NoBytes
        /\ sizeSent = NoBytes
        /\ inflight = NoBytes
        /\ owed = NoBytes
        /\ pc = "loop"
        /\ user = Fhem
        /\ busy = None
        /\ willSend = 0
        /\ scheduled = FALSE
        /\ acked = 0
        /\ before = 0
        /\ pulled = FALSE

-------------------------------------------------------------------------------
(* ClientContext: its life.                                                *)

Create(c) == /\ made < MaxConn
             /\ c = made + 1
             /\ made' = c
             /\ alive' = alive \cup {c}
             /\ open' = [open EXCEPT ![c] = TRUE]

\* unref() at 0: flush(), close(), the discard callback, which does nothing,
\* and delete.
Delete(gone) == /\ alive' = alive \ gone
                /\ open' = [c \in Conn |-> open[c] /\ c \notin gone]
                /\ rx' = [c \in Conn |-> IF c \in gone THEN <<>> ELSE rx[c]]
                /\ offset' = [c \in Conn |-> IF c \in gone THEN 0 ELSE offset[c]]
                /\ owed' = [c \in Conn |-> IF c \in gone THEN 0 ELSE owed[c]]
                /\ sizeSent' = [c \in Conn |-> IF c \in gone THEN 0 ELSE sizeSent[c]]
                /\ inflight' = [c \in Conn |-> IF c \in gone THEN 0 ELSE inflight[c]]

\* Slip: an earlier delete.
LastRefEarly(c) == c # None /\ refcnt[c] <= 2

\* --_refcnt == 0
LastRef(c) == c # None /\ refcnt[c] = 1

\* Slip: the copy is not counted.
RefForgotten(count, c) == count

Ref(count, c) == [x \in Conn |-> IF x = c THEN count[x] + 1 ELSE count[x]]

Unref(count, c) == [x \in Conn |-> IF x = c THEN count[x] - 1 ELSE count[x]]

-------------------------------------------------------------------------------
(* WiFiServer.                                                             *)

\* begin(): closes the old socket; the new one may fail.
ServerBegin == /\ listening' \in BOOLEAN
               /\ UNCHANGED <<counts, open, received, sent, pc, waits>>

\* stop(), close(): what is unclaimed stays.
ServerStop == /\ listening' = FALSE
              /\ UNCHANGED <<counts, open, received, sent, pc, waits>>

\* _accept(), called by lwIP.
Accept(c) == /\ listening
             /\ Create(c)
             /\ unclaimed' = Append(unclaimed, c)
             /\ UNCHANGED <<listening, client, refcnt, received, sent, pc, waits>>

\* available(): a WiFiClient for the first unclaimed context.
Available(h) == /\ client[h] = None
                /\ unclaimed # <<>>
                /\ LET c == Head(unclaimed) IN
                     /\ client' = [client EXCEPT ![h] = c]
                     /\ refcnt' = Ref(refcnt, c)
                /\ unclaimed' = Tail(unclaimed)
                /\ UNCHANGED <<listening, made, alive, open, received, sent, pc, waits>>

-------------------------------------------------------------------------------
(* WiFiClient: sharing and letting go.                                     *)

\* operator= and the copy constructor, which begins with no _client.
Assign(h, other) ==
    /\ h # other
    /\ client' = [client EXCEPT ![h] = client[other]]
    /\ refcnt' = Ref(Unref(refcnt, client[h]), client[other])
    /\ Delete({c \in {client[h]} : LastRef(c)})
    /\ UNCHANGED <<listening, unclaimed, made, pc, waits>>

\* stop() and the destructor.
LetGo(h) == /\ client' = [client EXCEPT ![h] = None]
            /\ refcnt' = Unref(refcnt, client[h])
            /\ Delete({c \in {client[h]} : LastRef(c)})

Stop(h) == /\ client[h] # None
           /\ LetGo(h)
           /\ UNCHANGED <<listening, unclaimed, made, pc, waits>>

Holders(c) == Cardinality({h \in Handles : client[h] = c})

\* stopAll(), called by the event callback when the station loses its
\* access point, also while the sketch waits.
StopAll == /\ client' = [h \in Handles |-> None]
           /\ refcnt' = [c \in Conn |-> refcnt[c] - Holders(c)]
           /\ LET gone == {c \in Conn : Holders(c) > 0 /\ refcnt[c] = Holders(c)} IN
                /\ Delete(gone)
                /\ pulled' = (pulled \/ busy \in gone)
           /\ UNCHANGED <<listening, unclaimed, made, pc,
                          user, busy, willSend, scheduled, acked, before>>
-------------------------------------------------------------------------------
(* ClientContext: receiving.                                               *)

\* tot_len of a chain of packets.
totLen[chain \in Seq(Nat)] ==
    IF chain = <<>> THEN 0 ELSE Head(chain) + totLen[Tail(chain)]

\* getSize(); 0 for a handle without connection.
Size(c) == IF c = None THEN 0 ELSE totLen[rx[c]] - offset[c]

\* Slip: the packet that has been read to its end stays.
EmptiedLate(c, n) ==
    Cardinality({k \in 1 .. Len(rx[c]) : totLen[SubSeq(rx[c], 1, k)] < offset[c] + n})

\* How many packets n more bytes empty.
Emptied(c, n) ==
    Cardinality({k \in 1 .. Len(rx[c]) : totLen[SubSeq(rx[c], 1, k)] <= offset[c] + n})

\* _consume(), once for every packet in which the bytes lie: emptied packets
\* are freed, and lwIP may open the window by their length.
Consume(c, n) ==
    LET k == Emptied(c, n)
        bytes == totLen[SubSeq(rx[c], 1, k)]
    IN /\ rx' = [rx EXCEPT ![c] = SubSeq(@, k + 1, Len(@))]
       /\ offset' = [offset EXCEPT ![c] = @ + n - bytes]
       /\ owed' = [owed EXCEPT ![c] = IF open[c] THEN @ - bytes ELSE @]

\* read(): up to n bytes of what is there.
Read(h, n) == /\ n <= Size(client[h])
              /\ Consume(client[h], n)
              /\ UNCHANGED <<listening, counts, open, sent>>

\* Slip: the window is opened by the bytes nobody has read.
GivenBackUnread(c) == totLen[rx[c]] - offset[c]

\* tot_len in flush(): the first packet counts as a whole.
GivenBack(c) == totLen[rx[c]]

Flushed(c) == /\ rx' = [rx EXCEPT ![c] = <<>>]
              /\ offset' = [offset EXCEPT ![c] = 0]
              /\ owed' = [owed EXCEPT ![c] = IF open[c] THEN @ - GivenBack(c) ELSE @]

Flush(h) == /\ client[h] # None
            /\ Flushed(client[h])
            /\ UNCHANGED <<listening, counts, open, sent>>

\* _recv(), called by lwIP with a packet of n bytes, as long as the window is
\* open: a peer may go on for ever.
Receive(c, n) == /\ open[c]
                 /\ owed[c] + n <= TcpWnd
                 /\ owed' = [owed EXCEPT ![c] = @ + n]
                 /\ offset' = [offset EXCEPT ![c] = IF rx[c] = <<>> THEN 0 ELSE @]
                 /\ rx' = [rx EXCEPT ![c] = Append(@, n)]
                 /\ UNCHANGED <<listening, counts, open, sent, pc, waits>>

-------------------------------------------------------------------------------
(* ClientContext: sending, and the end of a connection.                    *)

\* _send_waiting of context c, while it lives.
SendWaiting(c) == pc = "writing" /\ busy = c

\* Where the sketch goes on after a write.
After(h) == IF h = Fhem THEN "reply" ELSE "loop"

\* write() returns at once: no connection, or tcp_write() fails.
WriteFails(h) == /\ pc' = After(h)
                 /\ UNCHANGED <<listening, counts, open, received, sent, waits>>

\* write() of n bytes up to delay(5000).
Write(h, n) ==
    LET c == client[h]
        room == SndBuf - inflight[c]
        sending == IF room < n THEN room ELSE n
    IN /\ c # None
       /\ open[c]
       /\ sizeSent' = [sizeSent EXCEPT ![c] = sending]
       /\ inflight' = [inflight EXCEPT ![c] = @ + sending]
       /\ pc' = "writing"
       /\ user' = h
       /\ busy' = c
       /\ willSend' = sending
       /\ before' = inflight[c]
       /\ UNCHANGED <<listening, counts, open, received, scheduled, acked, pulled>>

\* delay(5000) ends, because of esp_schedule() or after 5 s.
WriteReturns == /\ pc = "writing"
                /\ pc' = After(user)
                /\ busy' = None
                /\ willSend' = 0
                /\ scheduled' = FALSE
                /\ acked' = 0
                /\ before' = 0
                /\ pulled' = FALSE
                /\ user' = Fhem
                /\ UNCHANGED <<listening, counts, open, received, sent>>

\* Slip: all that is in flight counts for this write.
MinusAll(size, n) == 0

\* _size_sent -= len
Minus(size, n) == (size + W - n) % W

\* _sent(), called by lwIP when the peer has acknowledged n more bytes; they
\* may be of an earlier write().
Acknowledge(c, n) ==
    /\ open[c]
    /\ n <= inflight[c]
    /\ inflight' = [inflight EXCEPT ![c] = @ - n]
    /\ sizeSent' = [sizeSent EXCEPT ![c] = Minus(@, n)]
    /\ acked' = (IF SendWaiting(c) THEN acked + n ELSE acked)
    /\ scheduled' = (scheduled \/ (SendWaiting(c) /\ sizeSent'[c] = 0))
    /\ UNCHANGED <<listening, counts, open, received, pc,
                   user, busy, willSend, before, pulled>>

\* The pcb is gone, and with it what it knew.
PcbGone(c) == /\ open[c]
              /\ open' = [open EXCEPT ![c] = FALSE]
              /\ inflight' = [inflight EXCEPT ![c] = 0]
              /\ owed' = [owed EXCEPT ![c] = 0]
              /\ UNCHANGED <<listening, counts, rx, offset, sizeSent, pc,
                             user, busy, willSend, acked, before, pulled>>

\* Slip: the writer is not told.
ClosedUnnoticed(c) == PcbGone(c) /\ UNCHANGED scheduled

\* _recv() without a packet: the peer has closed the connection. abort()
\* drops what has not been sent; what has been received stays.
PeerCloses(c) == PcbGone(c) /\ scheduled' = (scheduled \/ SendWaiting(c))

\* _error(): lwIP has freed the pcb.
Error(c) == /\ PcbGone(c)
            /\ scheduled' = (scheduled \/ (sizeSent[c] # 0 /\ SendWaiting(c)))

-------------------------------------------------------------------------------
(* connect(), and FHEMHTTPsend() with it.                                  *)

\* connect() up to esp_yield(); the handle is a new one.  The result of
\* tcp_connect() is ignored: when it fails, no callback will follow.
Connect == /\ pc = "loop"
           /\ client[Fhem] = None
           /\ pc' \in {"connecting", "stuck"}
           /\ user' = Fhem
           /\ UNCHANGED <<listening, counts, open, received, sent,
                          busy, willSend, scheduled, acked, before, pulled>>

\* _connected(), called by lwIP.
Connected(c) == /\ pc = "connecting"
                /\ ~scheduled
                /\ Create(c)
                /\ client' = [client EXCEPT ![user] = c]
                /\ refcnt' = Ref(refcnt, c)
                /\ scheduled' = TRUE
                /\ UNCHANGED <<listening, unclaimed, received, sent, pc,
                               user, busy, willSend, acked, before, pulled>>

\* Slip: the sketch is not woken.
RefusedSilently == UNCHANGED scheduled

Woken == scheduled' = TRUE

\* _err(), called by lwIP when the peer refuses or does not answer.
Refused == /\ pc = "connecting"
           /\ ~scheduled
           /\ Woken
           /\ UNCHANGED <<listening, counts, open, received, sent, pc,
                          user, busy, willSend, acked, before, pulled>>

\* connect() returns whether there is a _client, and FHEMHTTPsend() goes on
\* or gives up.
ConnectReturns == /\ pc = "connecting"
                  /\ scheduled
                  /\ scheduled' = FALSE
                  /\ pc' = IF client[Fhem] # None THEN "send" ELSE "loop"
                  /\ UNCHANGED <<listening, counts, open, received, sent,
                                 user, busy, willSend, acked, before, pulled>>

\* client.print()
SendRequest == /\ pc = "send"
               /\ \/ \E n \in 1 .. MaxWrite : Write(Fhem, n)
                  \/ WriteFails(Fhem)

\* There is something to read, or 200 ms are over.
AwaitReply == /\ pc = "reply"
              /\ pc' = "read"
              /\ UNCHANGED <<listening, counts, open, received, sent, waits>>

\* A part of the reply is read.
ReadReply == /\ pc = "read"
             /\ \E n \in 1 .. TcpWnd : Read(Fhem, n)
             /\ UNCHANGED <<pc, waits>>

\* available() is 0.
ReplyEnds == /\ pc = "read"
             /\ Size(client[Fhem]) = 0
             /\ pc' = "close"
             /\ UNCHANGED <<listening, counts, open, received, sent, waits>>

\* flush(), stop() and the destructor.
CloseRequest == /\ pc = "close"
                /\ LetGo(Fhem)
                /\ pc' = "loop"
                /\ UNCHANGED <<listening, unclaimed, made, waits>>

-------------------------------------------------------------------------------
(* What the web server may do with its handles.                            *)

WebHandles == Handles \ {Fhem}

WebStep == /\ pc = "loop"
           /\ \/ ServerBegin
              \/ ServerStop
              \/ \E h \in WebHandles :
                    \/ Available(h)
                    \/ \E other \in WebHandles : Assign(h, other)
                    \/ Stop(h)
                    \/ \E n \in 1 .. TcpWnd : Read(h, n) /\ UNCHANGED <<pc, waits>>
                    \/ Flush(h) /\ UNCHANGED <<pc, waits>>
                    \/ \E n \in 1 .. MaxWrite : Write(h, n)
                    \/ WriteFails(h)

FhemStep == \/ Connect \/ ConnectReturns
            \/ SendRequest \/ AwaitReply \/ ReadReply \/ ReplyEnds \/ CloseRequest

LwipStep == \/ \E c \in Conn : \/ Accept(c) \/ Connected(c)
                               \/ PeerCloses(c) \/ Error(c)
                               \/ \E n \in 1 .. TcpWnd : Receive(c, n)
                               \/ \E n \in 1 .. SndBuf : Acknowledge(c, n)
            \/ Refused
            \/ StopAll

Next == WebStep \/ FhemStep \/ WriteReturns \/ LwipStep

Spec == Init /\ [][Next]_vars

\* lwIP answers or gives up a connection attempt that it has accepted,
\* delay(5000) ends, and the sketch goes on when it can.
FairSpec == /\ Spec
            /\ WF_vars(Refused \/ \E c \in Conn : Connected(c))
            /\ WF_vars(WriteReturns)
            /\ WF_vars(FhemStep /\ pc # "loop")
-------------------------------------------------------------------------------
(* Properties.                                                             *)

\* Types of ClientContext (ClientContext.h:335-348), WiFiServer and WiFiClient.
TypeOK == /\ listening \in BOOLEAN
          /\ unclaimed \in Seq(Conn)
          /\ client \in [Handles -> Conn \cup {None}]
          /\ made \in 0 .. MaxConn
          /\ alive \subseteq 1 .. made
          /\ refcnt \in [Conn -> Nat]
          /\ open \in [Conn -> BOOLEAN]
          /\ rx \in [Conn -> Seq(1 .. TcpWnd)]
          /\ {offset, owed} \subseteq [Conn -> 0 .. TcpWnd]
          /\ sizeSent \in [Conn -> 0 .. W - 1]
          /\ inflight \in [Conn -> 0 .. SndBuf]
          /\ pc \in Places
          /\ user \in Handles
          /\ busy \in Conn \cup {None}
          /\ {willSend, before} \subseteq 0 .. SndBuf
          /\ acked \in Nat
          /\ {scheduled, pulled} \subseteq BOOLEAN

CountedReferences == \A c \in Conn : refcnt[c] = Holders(c)

Waiting == {unclaimed[k] : k \in DOMAIN unclaimed}

OnlyLivingContextsAreUsed ==
    /\ \A c \in Conn : c \in alive <=> (refcnt[c] > 0 \/ c \in Waiting)
    /\ \A c \in Waiting : refcnt[c] = 0
    /\ \A c \in Conn : open[c] => c \in alive
    /\ pc = "writing" => busy \in alive \/ pulled

\* The count of a context is the number of its handles (WiFiClient.cpp:50-85).
\* A context lives while it is held or unclaimed, none is lost to both, none
\* is both (WiFiServer.cpp:99-110); lwIP calls back only living ones
\* (ClientContext.h:98-110), and write() waits in a living one unless the
\* access point was lost meanwhile (ESP8266WiFiGeneric.cpp:213).
ContextsAreCounted == CountedReferences /\ OnlyLivingContextsAreUsed

\* While a connection is open, lwIP's receive window is smaller by exactly the
\* packets in the chain, and there is something to read as long as there is a
\* chain, so that read() comes to an end (ClientContext.h:153-212, 257-276).
WindowIsTheChain ==
    \A c \in Conn : /\ open[c] => owed[c] = totLen[rx[c]]
                    /\ rx[c] # <<>> => offset[c] < Head(rx[c])

\* What write() would return now.
Report == (willSend + W - sizeSent[busy]) % W

\* write() returns what has been acknowledged while it waited; on a connection
\* with nothing in flight that is at most what it was given, and it waits only
\* while there is something to wait for (ClientContext.h:220-255).
WriteReportsWhatWasAcknowledged ==
    pc = "writing" /\ busy \in alive =>
        /\ Report = acked
        /\ before = 0 => /\ Report <= willSend
                         /\ \/ scheduled
                            \/ willSend = 0
                            \/ open[busy] /\ inflight[busy] > 0

\* The handles share connections as SharedConnection promises: each is freed
\* once, when its last handle lets go (ClientContext.h:98-110).
Sharing == INSTANCE SharedConnection
             WITH holds <- client,
                  waiting <- Waiting,
                  freed <- (1 .. made) \ alive

FreedOnceAfterLastUse == Sharing!Spec

\* The peer of FHEMHTTPsend() sends something.
FhemHears == \E c \in Conn, n \in 1 .. TcpWnd : c = client[Fhem] /\ Receive(c, n)

\* connect(), write() and FHEMHTTPsend() come to an end and loop() goes on
\* (sendfhem.ino:43-92), whether the peer refuses, answers, falls silent or
\* closes and whether the access point is lost, but with two exceptions: a
\* tcp_connect() that failed unnoticed (WiFiClient.cpp:125) never ends, and
\* the loop that reads the reply (sendfhem.ino:70) only if the peer at some
\* time stops sending.
SketchGoesOn ==
    <>[][~FhemHears]_vars => (pc \notin {"loop", "stuck"} ~> pc = "loop")
===============================================================================
