------------------------------ MODULE NtpClient ------------------------------
(***************************************************************************)
(* One question to an NTP server after the other: getServerTime()          *)
(* (EasyNTPClient.cpp) over the receive side of WiFiUDP (WiFiUdp.cpp) and  *)
(* its chain of packets (include/UdpContext.h), into which lwIP puts a     *)
(* packet whenever it arrives, until a firmware update stops all sockets   *)
(* (ESP8266HTTPUpdateServer.cpp:61).                                       *)
(*                                                                         *)
(* A reply is the number of the request that it answers; the time in it is *)
(* the time of that request.  The client does not compare the two.         *)
(***************************************************************************)
EXTENDS Naturals, Sequences

CONSTANTS MaxPoll,      \* how often the client looks for a reply, 15 in the code
          MaxRequests,  \* bounds the requests of a behaviour
          Events        \* what may happen to a reply, see EventKinds

\* "lost"       it does not arrive, or the request did not
\* "slow"       it arrives after the client's last look
\* "overtaken"  it arrives after the flush of the next question
\* "duplicate"  it arrives twice
\* "update"     a firmware upload begins between two questions
EventKinds == {"lost", "slow", "overtaken", "duplicate", "update"}

ASSUME NtpAssumption == /\ MaxPoll \in Nat \ {0, 1}
                        /\ MaxRequests \in Nat \ {0}
                        /\ Events \subseteq EventKinds

Requests == 1 .. MaxRequests

VARIABLES
    request,   \* the last request
    pc,        \* "idle"; in getServerTime(): "resolve" while beginPacket()
               \* looks up the host name, "poll" while a reply is awaited
    i,         \* how often it has looked
    answer,    \* the reply it returned last; 0 stands for its failure
    \* WiFiUDP
    socket,    \* "new"; "bound" by begin(); "closed", without a context;
               \* "deaf", with a context that no port and no callback belong to
    \* UdpContext
    rx,        \* the packets chained to _rx_buf
    taken,     \* _first_buf_taken
    consumed,  \* _rx_buf_offset is at the end of the first packet
    \* environment
    net,       \* how many copies of each reply are on their way
    arrived,   \* history: the last request was answered before the last look
    calm       \* history: no reply was overtaken or duplicated so far

udp  == <<rx, taken, consumed>>
network == <<net, arrived, calm>>
vars == <<request, pc, i, answer, socket, udp, network>>

Init == /\ request = 0
        /\ pc = "idle"
        /\ i = 0
        /\ answer = 0
        /\ socket = "new"
        /\ rx = <<>>
        /\ taken = FALSE
        /\ consumed = FALSE
        /\ net = [r \in Requests |-> 0]
        /\ arrived = FALSE
        /\ calm = TRUE

-------------------------------------------------------------------------------
(* UdpContext.                                                             *)

\* Slip: _first_buf_taken is not reset.
RecvTaken(r) == /\ rx' = Append(rx, r)
                /\ consumed' = (rx # <<>> /\ consumed)
                /\ UNCHANGED taken

\* _recv().
Recv(r) == /\ rx' = Append(rx, r)
           /\ IF rx = <<>>
                THEN taken' = FALSE /\ consumed' = FALSE
                ELSE UNCHANGED <<taken, consumed>>

\* The chain after next(): the first packet stays for the first call.
Chain == IF rx = <<>> \/ ~taken THEN rx ELSE Tail(rx)

\* What getSize() answers after next() is not 0: there is an unread packet.
Unread == Chain # <<>> /\ (~taken => ~consumed)

-------------------------------------------------------------------------------
(* WiFiUDP.                                                                *)

\* begin(): a context that listens.  The static udpInited
\* (EasyNTPClient.cpp:43) lets only the first question call it; nothing else
\* uses the port, so that it succeeds.
Begin(s) == IF s = "new" THEN "bound" ELSE s

\* beginPacket(): without a context it makes one that can only send.
BeginPacket(s) == IF s = "closed" THEN "deaf" ELSE s

\* ~UdpContext(): the packets go with the context.
Removed == /\ rx' = <<>>
           /\ taken' = FALSE
           /\ consumed' = FALSE

\* stopAll(), when a firmware upload begins: in loop(), when setup() has
\* asked.
StopAll == /\ pc = "idle"
           /\ "update" \in Events
           /\ socket \in {"bound", "deaf"}
           /\ socket' = "closed"
           /\ Removed
           /\ UNCHANGED <<request, pc, i, answer, network>>

-------------------------------------------------------------------------------
(* getServerTime().                                                        *)

\* Slip: the packets are not flushed before the request is sent.
FlushForgotten == UNCHANGED udp

\* WiFiUDP::flush() consumes the packet that is being read.
Flush == /\ consumed' = (consumed \/ rx # <<>>)
         /\ UNCHANGED <<rx, taken>>

\* What is left of earlier replies when the packets have been flushed.
StillComing == IF "overtaken" \in Events THEN net ELSE [r \in Requests |-> 0]

\* :43-53, up to hostByName() (WiFiUdp.cpp:147), which waits for the name
\* server: a packet may come before the request goes out.
Ask == /\ pc = "idle"
       /\ request < MaxRequests
       /\ Flush
       /\ socket' = Begin(socket)
       /\ request' = request + 1
       /\ net' = StillComing
       /\ calm' = (calm /\ \A r \in Requests : net'[r] = 0)
       /\ i' = 0
       /\ arrived' = FALSE
       /\ pc' = "resolve"
       /\ UNCHANGED answer

\* :56-58: the request goes out, and the network decides how many replies
\* come back.
Transmit ==
    /\ pc = "resolve"
    /\ socket' = BeginPacket(socket)
    /\ \E copies \in 0 .. 2 :
           /\ copies = 0 => "lost" \in Events
           /\ copies = 2 => "duplicate" \in Events
           /\ net' = [net EXCEPT ![request] = copies]
           /\ calm' = (calm /\ copies < 2)
    /\ pc' = "poll"
    /\ UNCHANGED <<request, i, answer, udp, arrived>>

\* :56-59: the host name is not resolved or the packet cannot be sent.
SendFails == /\ pc = "resolve"
             /\ "lost" \in Events
             /\ socket' \in {socket, BeginPacket(socket)}
             /\ answer' = 0
             /\ pc' = "idle"
             /\ UNCHANGED <<request, i, udp, network>>

\* Slip: one look more than the loop has.
MoreLooksOffByOne == i <= MaxPoll

\* :65, i < maxPoll.
MoreLooks == i < MaxPoll

\* :65-67, :73-95: parsePacket() finds a packet, which is read and flushed.
PollFinds == /\ pc = "poll"
             /\ MoreLooks
             /\ Unread
             /\ rx' = Chain
             /\ taken' = TRUE
             /\ consumed' = TRUE
             /\ answer' = Head(Chain)
             /\ pc' = "idle"
             /\ UNCHANGED <<request, i, socket, network>>

\* :65-68: parsePacket() finds nothing, delay().
PollFindsNothing ==
    /\ pc = "poll"
    /\ MoreLooks
    /\ ~Unread
    /\ i + 1 = MaxPoll /\ net[request] > 0 => "slow" \in Events
    /\ rx' = Chain
    /\ taken' = (taken \/ rx # <<>>)
    /\ consumed' = (consumed /\ ~taken)
    /\ i' = i + 1
    /\ UNCHANGED <<request, pc, answer, socket, network>>

\* :65, :70-71: after the last delay() there is no further look.
GiveUp == /\ pc = "poll"
          /\ ~MoreLooks
          /\ answer' = 0
          /\ pc' = "idle"
          /\ UNCHANGED <<request, i, socket, udp, network>>

\* A reply reaches lwIP, which drops it if no one listens.
Deliver(r) == /\ net[r] > 0
              /\ net' = [net EXCEPT ![r] = @ - 1]
              /\ IF socket = "bound"
                   THEN /\ Recv(r)
                        /\ arrived' = \/ arrived
                                      \/ pc = "poll" /\ MoreLooks /\ r = request
                   ELSE UNCHANGED <<udp, arrived>>
              /\ UNCHANGED <<request, pc, i, answer, socket, calm>>

Next == \/ StopAll
        \/ Ask \/ Transmit \/ SendFails
        \/ PollFinds \/ PollFindsNothing \/ GiveUp
        \/ \E r \in Requests : Deliver(r)

Spec == Init /\ [][Next]_vars

-------------------------------------------------------------------------------
TypeOK == /\ request \in 0 .. MaxRequests
          /\ pc \in {"idle", "resolve", "poll"}
          /\ i \in 0 .. MaxPoll
          /\ answer \in 0 .. MaxRequests
          /\ socket \in {"new", "bound", "closed", "deaf"}
          /\ rx \in Seq(Requests)
          /\ taken \in BOOLEAN /\ consumed \in BOOLEAN
          /\ net \in [Requests -> 0 .. 2]
          /\ arrived \in BOOLEAN /\ calm \in BOOLEAN

\* The answer is the reply to the question, as long as every reply came at
\* most once and before the flush of the next question, however late: what a
\* question that was given up has left is flushed (EasyNTPClient.cpp:53).  A
\* reply that comes after that flush, while the host name is looked up or
\* later, is not told from the answer; calm exempts it.
CalmAnswers ==
    [][pc = "poll" /\ pc' = "idle" /\ calm => answer' \in {0, request}]_vars

\* A question that was sent fails only if no reply reached the socket before
\* its last look: neither a packet that the flush has emptied nor one left
\* over by an earlier call hides the reply behind it.  A reply that comes in
\* the delay() after the last look (EasyNTPClient.cpp:68) is not looked for.
InTimeIsAnswered ==
    [][pc = "poll" /\ pc' = "idle" /\ answer' = 0 => ~arrived]_vars
===============================================================================
