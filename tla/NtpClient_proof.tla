---------------------------- MODULE NtpClient_proof ----------------------------
(* Proofs about NtpClient, for any number of looks and of requests and for *)
(* every kind of network.                                                  *)
EXTENDS NtpClient, SequenceTheorems, TLAPS

\* getServerTime() waits for an answer to a request, and looks MaxPoll times
\* at most.
Waiting == /\ pc # "idle" => request \in Requests /\ i <= MaxPoll
           /\ pc = "resolve" => i = 0

-------------------------------------------------------------------------------
(* The typing, and what Append and Tail do to the chain.                   *)

LEMMA ChainType ==
    ASSUME TypeOK
    PROVE  /\ Chain \in Seq(Requests)
           /\ Chain # <<>> => Head(Chain) \in Requests
           /\ Chain = <<>> => rx = <<>> \/ (taken /\ Len(rx) = 1)
<1>1. rx \in Seq(Requests)
    BY DEF TypeOK
<1>2. CASE rx = <<>> \/ ~taken
    BY <1>1, <1>2 DEF Chain
<1>3. CASE rx # <<>> /\ taken
  <2>1. /\ Tail(rx) \in Seq(Requests)
        /\ Len(Tail(rx)) = Len(rx) - 1
      BY <1>1, <1>3, HeadTailProperties
  <2>2. Chain = Tail(rx) /\ Len(rx) \in Nat /\ Len(<<>>) = 0
      BY <1>1, <1>3, EmptySeq, LenProperties DEF Chain
  <2>3. QED
      BY <1>3, <2>1, <2>2
<1>4. QED
    BY <1>2, <1>3

LEMMA RecvType ==
    ASSUME TypeOK, NEW r \in Requests, Recv(r)
    PROVE  /\ rx' \in Seq(Requests)
           /\ taken' \in BOOLEAN /\ consumed' \in BOOLEAN
           /\ Len(rx') = Len(rx) + 1
<1>1. rx \in Seq(Requests) /\ rx' = Append(rx, r)
    BY DEF TypeOK, Recv
<1>2. rx' \in Seq(Requests) /\ Len(rx') = Len(rx) + 1
    BY <1>1, AppendProperties
<1>3. taken' \in BOOLEAN /\ consumed' \in BOOLEAN
    BY Zenon DEF TypeOK, Recv
<1>4. QED
    BY <1>2, <1>3

LEMMA TypeInit == Init => TypeOK /\ Waiting
<1> SUFFICES ASSUME Init
             PROVE  TypeOK /\ Waiting
    OBVIOUS
<1>1. MaxPoll \in Nat /\ MaxRequests \in Nat
    BY NtpAssumption DEF NtpAssumption
<1>2. rx \in Seq(Requests)
    BY EmptySeq DEF Init
<1>3. net \in [Requests -> 0 .. 2]
    BY DEF Init
<1>4. request = 0 /\ pc = "idle" /\ i = 0 /\ answer = 0 /\ socket = "new"
    BY DEF Init
<1>5. taken \in BOOLEAN /\ consumed \in BOOLEAN /\ arrived \in BOOLEAN /\ calm \in BOOLEAN
    BY Zenon DEF Init
<1>6. QED
    BY <1>1, <1>2, <1>3, <1>4, <1>5 DEF TypeOK, Waiting

LEMMA TypeStep == TypeOK /\ Waiting /\ [Next]_vars => TypeOK' /\ Waiting'
<1> SUFFICES ASSUME TypeOK, Waiting, [Next]_vars
             PROVE  TypeOK' /\ Waiting'
    OBVIOUS
<1> USE NtpAssumption DEF NtpAssumption
<1>1. CASE Ask
  <2>1. request' \in Requests /\ request' \in 0 .. MaxRequests
      BY <1>1 DEF Ask, TypeOK, Requests
  <2>2. net' \in [Requests -> 0 .. 2]
      BY <1>1 DEF Ask, StillComing, TypeOK
  <2>3. calm' \in BOOLEAN
      BY <1>1 DEF Ask, TypeOK
  <2>4. rx' = rx /\ taken' = taken /\ answer' = answer /\ pc' = "resolve" /\ i' = 0
      BY <1>1 DEF Ask, Flush
  <2>5. consumed' \in BOOLEAN /\ arrived' \in BOOLEAN
      BY <1>1, Zenon DEF Ask, Flush
  <2>6. socket' \in {"new", "bound", "closed", "deaf"}
      BY <1>1 DEF Ask, Begin, TypeOK
  <2>7. QED
      BY <2>1, <2>2, <2>3, <2>4, <2>5, <2>6 DEF TypeOK, Waiting
<1>2. CASE Transmit
  <2>1. PICK copies \in 0 .. 2 : /\ net' = [net EXCEPT ![request] = copies]
                                /\ calm' = (calm /\ copies < 2)
      BY <1>2, Zenon DEF Transmit
  <2>2. net' \in [Requests -> 0 .. 2] /\ calm' \in BOOLEAN
      BY <2>1 DEF TypeOK
  <2>3. socket' \in {"new", "bound", "closed", "deaf"}
      BY <1>2 DEF Transmit, BeginPacket, TypeOK
  <2>4. QED
      BY <1>2, <2>2, <2>3 DEF Transmit, udp, TypeOK, Waiting
<1>9. CASE SendFails
    BY <1>9 DEF SendFails, BeginPacket, udp, network, TypeOK, Waiting
<1>3. CASE PollFinds
    BY <1>3, ChainType DEF PollFinds, Unread, network, TypeOK, Waiting, Requests
<1>4. CASE PollFindsNothing
    BY <1>4, ChainType DEF PollFindsNothing, MoreLooks, network, TypeOK, Waiting
<1>10. CASE GiveUp
    BY <1>10 DEF GiveUp, udp, network, TypeOK, Waiting
<1>5. CASE \E r \in Requests : Deliver(r)
  <2> PICK r \in Requests : Deliver(r)
      BY <1>5
  <2>1. net' \in [Requests -> 0 .. 2]
      BY DEF Deliver, TypeOK
  <2>2. CASE socket = "bound"
      BY <2>1, <2>2, RecvType DEF Deliver, TypeOK, Waiting
  <2>3. CASE socket # "bound"
      BY <2>1, <2>3 DEF Deliver, udp, TypeOK, Waiting
  <2>4. QED
      BY <2>2, <2>3
<1>6. CASE StopAll
    BY <1>6, EmptySeq DEF StopAll, Removed, network, TypeOK, Waiting
<1>7. CASE UNCHANGED vars
    BY <1>7 DEF vars, udp, network, TypeOK, Waiting
<1>8. QED
    BY <1>1, <1>2, <1>3, <1>4, <1>5, <1>6, <1>7, <1>9, <1>10 DEF Next

\* The types of the client, its socket and the network.
THEOREM NtpTyping == Spec => [](TypeOK /\ Waiting)
  BY TypeInit, TypeStep, PTL DEF Spec

-------------------------------------------------------------------------------
(* A reply that came in time is found.                                     *)

\* A packet that is not read to its end has not been taken.
UnreadIsNotTaken == rx # <<>> /\ ~consumed => ~taken

\* After the first look a packet that is not taken is unread.
NotTakenIsUnread == pc = "poll" /\ i > 0 /\ rx # <<>> /\ ~taken => ~consumed

\* The reply is behind the first packet, or it is the first and unread.
ReplyIsThere == arrived /\ pc = "poll" =>
                    Len(rx) >= 2 \/ (Len(rx) = 1 /\ ~consumed)

\* As long as there is such a reply, a look finds it.
NotGivenUp == arrived /\ pc # "idle" => pc = "poll" /\ i < MaxPoll

SocketInv == UnreadIsNotTaken /\ NotTakenIsUnread /\ ReplyIsThere /\ NotGivenUp

LEMMA SocketStep ==
    TypeOK /\ Waiting /\ SocketInv /\ [Next]_vars => SocketInv'
<1> SUFFICES ASSUME TypeOK, Waiting, SocketInv, [Next]_vars
             PROVE  SocketInv'
    OBVIOUS
<1> USE DEF SocketInv, UnreadIsNotTaken, NotTakenIsUnread, ReplyIsThere, NotGivenUp
<1>1. CASE Ask
    BY <1>1 DEF Ask, Flush, TypeOK
<1>2. CASE Transmit
    BY <1>2 DEF Transmit, udp, TypeOK, Waiting
<1>9. CASE SendFails
    BY <1>9 DEF SendFails, udp, network, TypeOK
<1>10. CASE GiveUp
    BY <1>10 DEF GiveUp, udp, network
<1>3. CASE PollFinds
    BY <1>3 DEF PollFinds, network
<1>4. CASE PollFindsNothing
  <2>1. CASE Chain = <<>>
    <3>1. rx = <<>> \/ (taken /\ Len(rx) = 1)
        BY <2>1, ChainType
    <3>2. rx = <<>> => Len(rx) = 0
        BY EmptySeq
    <3>3. pc' = "poll" => ~arrived
      <4>1. CASE rx = <<>>
          BY <1>4, <4>1, <3>2 DEF PollFindsNothing, MoreLooks
      <4>2. CASE rx # <<>> /\ taken /\ Len(rx) = 1
          BY <1>4, <4>2 DEF PollFindsNothing, MoreLooks
      <4>3. QED
          BY <3>1, <4>1, <4>2
    <3>4. QED
        BY <1>4, <2>1, <3>3 DEF PollFindsNothing, network
  <2>2. CASE Chain # <<>>
    <3>1. ~taken /\ consumed /\ rx' = rx /\ rx # <<>>
        BY <1>4, <2>2 DEF PollFindsNothing, Unread, Chain
    <3>2. taken' /\ consumed' /\ arrived' = arrived /\ pc' = "poll" /\ pc = "poll"
        BY <1>4, <3>1 DEF PollFindsNothing, network
    <3>4. i = 0
        BY <3>1, <3>2 DEF TypeOK
    <3>5. i' < MaxPoll
        BY <1>4, <3>4, NtpAssumption DEF PollFindsNothing, NtpAssumption
    <3>3. QED
        BY <3>1, <3>2, <3>5
  <2>3. QED
      BY <2>1, <2>2
<1>5. CASE \E r \in Requests : Deliver(r)
  <2> PICK r \in Requests : Deliver(r)
      BY <1>5
  <2>1. CASE socket # "bound"
      BY <2>1 DEF Deliver, udp
  <2>2. CASE socket = "bound" /\ rx = <<>>
      BY <2>2, RecvType DEF Deliver, MoreLooks, Recv, TypeOK
  <2>3. CASE socket = "bound" /\ rx # <<>>
    <3>1. Len(rx') >= 2 /\ UNCHANGED <<taken, consumed, pc, i>>
        BY <2>3, RecvType DEF Deliver, Recv, TypeOK
    <3>2. QED
        BY <2>3, <3>1 DEF Deliver, MoreLooks
  <2>4. QED
      BY <2>1, <2>2, <2>3
<1>6. CASE StopAll
    BY <1>6 DEF StopAll, Removed
<1>7. CASE UNCHANGED vars
    BY <1>7 DEF vars, udp, network
<1>8. QED
    BY <1>1, <1>2, <1>3, <1>4, <1>5, <1>6, <1>7, <1>9, <1>10 DEF Next

LEMMA InTimeStep ==
    TypeOK /\ Waiting /\ SocketInv /\ [Next]_vars
        => (pc = "poll" /\ pc' = "idle" /\ answer' = 0 => ~arrived)
<1> SUFFICES ASSUME TypeOK, Waiting, SocketInv, [Next]_vars,
                    pc = "poll", pc' = "idle", answer' = 0
             PROVE  ~arrived
    OBVIOUS
<1>1. ~PollFinds
    BY ChainType DEF PollFinds, Unread, Requests
<1>2. GiveUp
    BY <1>1 DEF Next, StopAll, Ask, Transmit, SendFails, PollFindsNothing, Deliver,
           vars
<1>3. QED
    BY <1>2 DEF GiveUp, MoreLooks, SocketInv, NotGivenUp

\* A question that was sent fails only if no reply reached the socket before
\* the last look.
THEOREM InTimeAnswered == Spec => InTimeIsAnswered
<1>1. Init => SocketInv
    BY DEF Init, SocketInv, UnreadIsNotTaken, NotTakenIsUnread, ReplyIsThere,
           NotGivenUp
<1>2. TypeOK /\ Waiting /\ SocketInv /\ [Next]_vars
          => [pc = "poll" /\ pc' = "idle" /\ answer' = 0 => ~arrived]_vars
    BY InTimeStep
<1>3. QED
    BY <1>1, <1>2, SocketStep, NtpTyping, PTL DEF Spec, InTimeIsAnswered

-------------------------------------------------------------------------------
(* In a calm network the answer is the reply to the question.              *)

\* No reply is on its way.
NothingComes == \A r \in Requests : net[r] = 0

\* Only the reply to the last request is on its way, and once.
OneReply == \A r \in Requests : net[r] = 0 \/ (r = request /\ net[r] = 1)

\* The question is on its way to be sent, and nothing comes meanwhile.
CalmResolve == pc = "resolve" =>
    /\ rx = <<>> \/ (Len(rx) = 1 /\ consumed)
    /\ NothingComes

\* Between two questions there is at most one packet.
CalmIdle == pc = "idle" => rx = <<>> \/ (Len(rx) = 1 /\ NothingComes)

\* During a question the reply may follow an old packet that is read to its
\* end; the second look takes that packet away.
CalmPoll == pc = "poll" =>
    \/ rx = <<>>
    \/ Len(rx) = 1 /\ consumed /\ i < 2
    \/ Len(rx) = 1 /\ rx[1] = request /\ NothingComes
    \/ Len(rx) = 2 /\ consumed /\ rx[2] = request /\ NothingComes /\ i < 2

CalmInv == calm => OneReply /\ CalmResolve /\ CalmIdle /\ CalmPoll

\* What a look finds.
LEMMA CalmLook ==
    ASSUME TypeOK, SocketInv, CalmInv, calm, pc = "poll", Unread
    PROVE  Len(Chain) = 1 /\ Head(Chain) = request /\ NothingComes
<1>1. rx \in Seq(Requests) /\ rx # <<>> /\ Len(<<>>) = 0
    BY EmptySeq DEF TypeOK, Unread, Chain
<1>2. CASE ~taken
  <2>1. Chain = rx /\ ~consumed
      BY <1>2 DEF Unread, Chain
  <2>2. Len(rx) = 1 /\ rx[1] = request /\ NothingComes
      BY <1>1, <2>1 DEF CalmInv, CalmPoll
  <2>3. QED
      BY <1>1, <2>1, <2>2
<1>3. CASE taken
  <2>1. Chain = Tail(rx) /\ Chain # <<>> /\ consumed
      BY <1>1, <1>3 DEF Unread, Chain, SocketInv, UnreadIsNotTaken
  <2>2. /\ Tail(rx) \in Seq(Requests)
        /\ Len(Tail(rx)) = Len(rx) - 1
        /\ \A j \in 1 .. Len(Tail(rx)) : Tail(rx)[j] = rx[j + 1]
      BY <1>1, HeadTailProperties
  <2>3. Len(rx) # 1
      BY <2>1, <2>2, EmptySeq
  <2>4. Len(rx) = 2 /\ rx[2] = request /\ NothingComes
      BY <1>1, <2>3 DEF CalmInv, CalmPoll
  <2>5. Len(Tail(rx)) = 1 /\ Tail(rx)[1] = request
    <3>1. Len(Tail(rx)) = 1
        BY <2>2, <2>4
    <3>2. 1 \in 1 .. Len(Tail(rx)) /\ 1 + 1 = 2
        BY <3>1
    <3>3. Tail(rx)[1] = rx[1 + 1]
        BY <2>2, <3>2
    <3>4. QED
        BY <2>4, <3>1, <3>2, <3>3
  <2>6. Head(Tail(rx)) = Tail(rx)[1]
      BY <2>1, <2>2
  <2>7. QED
      BY <2>1, <2>4, <2>5, <2>6
<1>4. QED
    BY <1>2, <1>3

LEMMA CalmStep ==
    TypeOK /\ Waiting /\ SocketInv /\ CalmInv /\ [Next]_vars => CalmInv'
<1> SUFFICES ASSUME TypeOK, Waiting, SocketInv, CalmInv, [Next]_vars, calm'
             PROVE  OneReply' /\ CalmResolve' /\ CalmIdle' /\ CalmPoll'
    BY DEF CalmInv
<1> USE NtpAssumption DEF NtpAssumption
<1>0. calm /\ OneReply /\ CalmResolve /\ CalmIdle /\ CalmPoll
  <2>1. calm
      BY DEF Next, StopAll, Ask, Transmit, SendFails, PollFinds, PollFindsNothing,
             GiveUp, Deliver, vars, network
  <2>2. QED
      BY <2>1 DEF CalmInv
<1>1. CASE Ask
  <2>1. pc' = "resolve" /\ rx' = rx /\ (rx # <<>> => consumed')
      BY <1>1 DEF Ask, Flush
  <2>2. NothingComes'
      BY <1>1 DEF Ask, NothingComes
  <2>3. rx = <<>> \/ Len(rx) = 1
      BY <1>0, <1>1 DEF Ask, CalmIdle
  <2>4. rx = <<>> \/ (Len(rx) = 1 /\ consumed')
      BY <2>1, <2>3
  <2>5. QED
      BY <2>1, <2>2, <2>4
         DEF OneReply, NothingComes, CalmResolve, CalmIdle, CalmPoll
<1>2. CASE Transmit
  <2>1. PICK copies \in 0 .. 2 : /\ net' = [net EXCEPT ![request] = copies]
                                /\ calm' = (calm /\ copies < 2)
      BY <1>2, Zenon DEF Transmit
  <2>2. copies < 2
      BY <2>1, Zenon
  <2>3. /\ request' = request /\ pc' = "poll" /\ i' = i
        /\ rx' = rx /\ consumed' = consumed
      BY <1>2 DEF Transmit, udp
  <2>4. NothingComes /\ (rx = <<>> \/ (Len(rx) = 1 /\ consumed))
      BY <1>0, <1>2 DEF Transmit, CalmResolve
  <2>5. OneReply'
      BY <2>1, <2>2, <2>3, <2>4 DEF OneReply, NothingComes, TypeOK
  <2>6. i = 0
      BY <1>2 DEF Transmit, Waiting
  <2>7. QED
      BY <2>3, <2>4, <2>5, <2>6 DEF CalmResolve, CalmIdle, CalmPoll
<1>9. CASE SendFails
  <2>1. pc = "resolve" /\ pc' = "idle" /\ UNCHANGED <<request, rx, net>>
      BY <1>9 DEF SendFails, udp, network
  <2>2. QED
      BY <1>0, <2>1
         DEF OneReply, NothingComes, CalmResolve, CalmIdle, CalmPoll
<1>3. CASE PollFinds
  <2>1. Unread /\ pc = "poll" /\ pc' = "idle" /\ rx' = Chain /\ UNCHANGED <<request, net>>
      BY <1>3 DEF PollFinds, network
  <2>2. Len(Chain) = 1 /\ NothingComes
      BY <1>0, <2>1, CalmLook
  <2>3. QED
      BY <1>0, <2>1, <2>2
         DEF OneReply, NothingComes, CalmResolve, CalmIdle, CalmPoll
<1>4. CASE PollFindsNothing
  <2>1. UNCHANGED <<request, net>> /\ pc' = "poll" /\ rx' = Chain /\ i' = i + 1
      BY <1>4 DEF PollFindsNothing, network
  <2>2. CASE Chain = <<>>
      BY <1>0, <2>1, <2>2 DEF OneReply, CalmResolve, CalmIdle, CalmPoll
  <2>3. CASE Chain # <<>>
    <3>1. ~taken /\ consumed /\ rx' = rx /\ rx # <<>>
        BY <1>4, <2>3 DEF PollFindsNothing, Unread, Chain
    <3>2. i = 0
        BY <1>4, <3>1 DEF PollFindsNothing, SocketInv, NotTakenIsUnread, TypeOK
    <3>3. i' < 2
        BY <2>1, <3>2
    <3>4. consumed'
        BY <1>4, <3>1, Zenon DEF PollFindsNothing
    <3>5. CalmPoll
        BY <1>0
    <3>6. pc = "poll"
        BY <1>4 DEF PollFindsNothing
    <3>7. QED
        BY <1>0, <2>1, <3>1, <3>3, <3>4, <3>5, <3>6
           DEF OneReply, NothingComes, CalmResolve, CalmIdle, CalmPoll
  <2>4. QED
      BY <2>2, <2>3
<1>10. CASE GiveUp
  <2>1. pc = "poll" /\ pc' = "idle" /\ UNCHANGED <<request, rx, net>>
      BY <1>10 DEF GiveUp, udp, network
  <2>2. ~(i < 2)
      BY <1>10 DEF GiveUp, MoreLooks, TypeOK
  <2>3. QED
      BY <1>0, <2>1, <2>2
         DEF OneReply, NothingComes, CalmResolve, CalmIdle, CalmPoll
<1>5. CASE \E r \in Requests : Deliver(r)
  <2> PICK r \in Requests : Deliver(r)
      BY <1>5
  <2>1. r = request /\ net[r] = 1
      BY <1>0 DEF Deliver, OneReply
  <2>2. net' = [net EXCEPT ![r] = 0] /\ UNCHANGED <<request, pc>>
      BY <2>1 DEF Deliver
  <2>3. OneReply' /\ NothingComes'
      BY <1>0, <2>1, <2>2 DEF OneReply, NothingComes, TypeOK
  <2>7. ~NothingComes
      BY <2>1 DEF NothingComes
  <2>8. pc # "resolve"
      BY <1>0, <2>7 DEF CalmResolve
  <2>4. rx = <<>> \/ (pc = "poll" /\ Len(rx) = 1 /\ consumed /\ i < 2)
      BY <1>0, <2>7, <2>8 DEF CalmIdle, CalmPoll, TypeOK
  <2>9. i' = i
      BY DEF Deliver
  <2>5. CASE socket # "bound"
    <3>1. rx' = rx /\ consumed' = consumed
        BY <2>5 DEF Deliver, udp
    <3>2. QED
        BY <2>2, <2>3, <2>4, <2>8, <2>9, <3>1 DEF CalmResolve, CalmIdle, CalmPoll
  <2>6. CASE socket = "bound"
    <3>1. /\ rx \in Seq(Requests) /\ rx' = Append(rx, r)
          /\ rx = <<>> \/ consumed' = consumed
        BY <2>6 DEF Deliver, Recv, TypeOK
    <3>2. Len(rx') = Len(rx) + 1 /\ rx'[Len(rx) + 1] = r
        BY <3>1, AppendProperties
    <3>3. CASE rx = <<>>
      <4>1. Len(rx') = 1 /\ rx'[1] = request'
          BY <2>1, <2>2, <3>2, <3>3, EmptySeq
      <4>2. QED
          BY <2>2, <2>3, <2>4, <2>8, <2>9, <4>1 DEF CalmResolve, CalmIdle, CalmPoll
    <3>4. CASE rx # <<>>
      <4>1. /\ Len(rx') = 2 /\ rx'[2] = request' /\ consumed'
            /\ pc' = "poll" /\ i' < 2
          BY <2>1, <2>2, <2>4, <2>9, <3>1, <3>2, <3>4
      <4>2. QED
          BY <2>3, <4>1 DEF CalmResolve, CalmIdle, CalmPoll
    <3>5. QED
        BY <3>3, <3>4
  <2>10. QED
      BY <2>5, <2>6
<1>6. CASE StopAll
    BY <1>0, <1>6
       DEF StopAll, Removed, network, OneReply, CalmResolve, CalmIdle, CalmPoll
<1>7. CASE UNCHANGED vars
    BY <1>0, <1>7
       DEF vars, udp, network, OneReply, CalmResolve, CalmIdle, CalmPoll, NothingComes
<1>8. QED
    BY <1>1, <1>2, <1>3, <1>4, <1>5, <1>6, <1>7, <1>9, <1>10 DEF Next

\* With replies that are lost or late, but neither doubled nor later than the
\* flush of the next question, no reply is taken for the answer to another
\* question.
THEOREM CalmAnswersAreRight == Spec => CalmAnswers
<1>1. Init => SocketInv /\ CalmInv
  <2>1. Init => SocketInv
      BY DEF Init, SocketInv, UnreadIsNotTaken, NotTakenIsUnread, ReplyIsThere,
           NotGivenUp
  <2>2. Init => CalmInv
      BY DEF Init, CalmInv, OneReply, CalmResolve, CalmIdle, CalmPoll
  <2>3. QED
      BY <2>1, <2>2
<1>2. TypeOK /\ SocketInv /\ CalmInv /\ [Next]_vars
          => [pc = "poll" /\ pc' = "idle" /\ calm => answer' \in {0, request}]_vars
  <2>1. SUFFICES ASSUME TypeOK, SocketInv, CalmInv, [Next]_vars,
                        pc = "poll", pc' = "idle", calm
                 PROVE  answer' \in {0, request}
      OBVIOUS
  <2>2. PollFinds \/ GiveUp
      BY <2>1 DEF Next, StopAll, Ask, Transmit, SendFails, PollFindsNothing, Deliver,
                  vars
  <2>3. CASE PollFinds
      BY <2>1, <2>3, CalmLook DEF PollFinds
  <2>4. CASE GiveUp
      BY <2>1, <2>4 DEF GiveUp
  <2>5. QED
      BY <2>2, <2>3, <2>4
<1>3. QED
    BY <1>1, <1>2, SocketStep, CalmStep, NtpTyping, PTL DEF Spec, CalmAnswers
===============================================================================
