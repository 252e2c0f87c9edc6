------------------------- MODULE TcpConnections_proof -------------------------
(***************************************************************************)
(* Proofs about TcpConnections, for any number of connections and handles, *)
(* of bytes on their way and of calls of lwIP: connections are counted     *)
(* right, shared as SharedConnection promises, write() reports what was    *)
(* acknowledged, and the receive window is the chain of packets.           *)
(***************************************************************************)
EXTENDS TcpConnections, FiniteSetTheorems, SequenceTheorems, WellFoundedInduction,
        TLAPS

-------------------------------------------------------------------------------
(* How many handles hold a connection, for any assignment of the handles.  *)

Count(f, c) == Cardinality({h \in Handles : f[h] = c})

LEMMA CountType ==
    ASSUME NEW f, NEW c
    PROVE  /\ Count(f, c) \in Nat
           /\ Count(f, c) = 0 <=> \A h \in Handles : f[h] # c
<1> DEFINE S == {h \in Handles : f[h] = c}
<1>1. IsFiniteSet(S)
    BY TcpAssumption, FS_Subset DEF TcpAssumption
<1>2. Cardinality(S) \in Nat /\ (Cardinality(S) = 0 <=> S = {})
    BY <1>1, FS_CardinalityType, FS_EmptySet
<1>3. QED
    BY <1>2 DEF Count

\* One handle changes what it holds.
LEMMA CountExcept ==
    ASSUME NEW f, NEW g, NEW h \in Handles, NEW c,
           \A x \in Handles \ {h} : g[x] = f[x]
    PROVE  /\ f[h] = c /\ g[h] # c => Count(g, c) = Count(f, c) - 1
           /\ f[h] # c /\ g[h] = c => Count(g, c) = Count(f, c) + 1
           /\ (f[h] = c <=> g[h] = c) => Count(g, c) = Count(f, c)
<1> DEFINE S == {x \in Handles : f[x] = c}
           T == {x \in Handles : g[x] = c}
<1>1. IsFiniteSet(S) /\ Cardinality(S) \in Nat
    BY TcpAssumption, FS_Subset, FS_CardinalityType DEF TcpAssumption
<1>2. Count(f, c) = Cardinality(S) /\ Count(g, c) = Cardinality(T)
    BY DEF Count
<1>3. ASSUME f[h] = c, g[h] # c
      PROVE  Count(g, c) = Count(f, c) - 1
  <2>1. T = S \ {h} /\ h \in S
      BY <1>3
  <2>2. Cardinality(T) = Cardinality(S) - 1
      BY <1>1, <2>1, FS_RemoveElement
  <2>3. QED
      BY <1>2, <2>2
<1>4. ASSUME f[h] # c, g[h] = c
      PROVE  Count(g, c) = Count(f, c) + 1
  <2>1. T = S \cup {h} /\ h \notin S
      BY <1>4
  <2>2. Cardinality(T) = Cardinality(S) + 1
      BY <1>1, <2>1, FS_AddElement
  <2>3. QED
      BY <1>2, <2>2
<1>5. ASSUME f[h] = c <=> g[h] = c
      PROVE  Count(g, c) = Count(f, c)
  <2>1. T = S
      BY <1>5
  <2>2. QED
      BY <1>2, <2>1
<1>6. QED
    BY <1>3, <1>4, <1>5

-------------------------------------------------------------------------------
(* The queue of accepted connections.                                      *)

Elements(s) == {s[k] : k \in DOMAIN s}
Distinct(s) == \A j, k \in DOMAIN s : s[j] = s[k] => j = k

LEMMA QueueAppend ==
    ASSUME NEW s \in Seq(Conn), NEW c \in Conn, c \notin Elements(s), Distinct(s)
    PROVE  /\ Append(s, c) \in Seq(Conn)
           /\ Elements(Append(s, c)) = Elements(s) \cup {c}
           /\ Distinct(Append(s, c))
<1>1. /\ Append(s, c) \in Seq(Conn)
      /\ Len(Append(s, c)) = Len(s) + 1
      /\ \A k \in 1 .. Len(s) : Append(s, c)[k] = s[k]
      /\ Append(s, c)[Len(s) + 1] = c
    BY AppendProperties
<1>2. /\ Len(s) \in Nat
      /\ DOMAIN s = 1 .. Len(s)
      /\ DOMAIN Append(s, c) = 1 .. Len(s) + 1
    BY <1>1, LenProperties
<1>3. Elements(Append(s, c)) = Elements(s) \cup {c}
    BY <1>1, <1>2 DEF Elements
<1>4. Distinct(Append(s, c))
    BY <1>1, <1>2 DEF Elements, Distinct
<1>5. QED
    BY <1>1, <1>3, <1>4

LEMMA QueueTail ==
    ASSUME NEW s \in Seq(Conn), s # <<>>, Distinct(s)
    PROVE  /\ Head(s) \in Elements(s) /\ Head(s) \in Conn
           /\ Tail(s) \in Seq(Conn)
           /\ Elements(Tail(s)) = Elements(s) \ {Head(s)}
           /\ Distinct(Tail(s))
<1>1. /\ Head(s) \in Conn /\ Tail(s) \in Seq(Conn)
      /\ Len(Tail(s)) = Len(s) - 1
      /\ \A k \in 1 .. Len(Tail(s)) : Tail(s)[k] = s[k + 1]
    BY HeadTailProperties
<1>2. /\ Len(s) \in Nat /\ Len(s) > 0
      /\ DOMAIN s = 1 .. Len(s)
      /\ DOMAIN Tail(s) = 1 .. Len(s) - 1
      /\ Head(s) = s[1]
    BY <1>1, LenProperties, EmptySeq
<1>3. Elements(Tail(s)) = Elements(s) \ {Head(s)}
  <2>1. ASSUME NEW x \in Elements(Tail(s))
        PROVE  x \in Elements(s) /\ x # Head(s)
    <3>1. PICK k \in 1 .. Len(s) - 1 : x = s[k + 1]
        BY <1>1, <1>2, <2>1 DEF Elements
    <3>2. k + 1 \in DOMAIN s /\ 1 \in DOMAIN s /\ k + 1 # 1
        BY <1>2
    <3>3. QED
        BY <1>2, <3>1, <3>2 DEF Elements, Distinct
  <2>2. ASSUME NEW x \in Elements(s), x # Head(s)
        PROVE  x \in Elements(Tail(s))
    <3>1. PICK k \in 1 .. Len(s) : x = s[k]
        BY <1>2, <2>2 DEF Elements
    <3>2. k # 1
        BY <1>2, <2>2, <3>1
    <3>3. k - 1 \in 1 .. Len(s) - 1 /\ (k - 1) + 1 = k
        BY <1>2, <3>2
    <3>4. Tail(s)[k - 1] = s[k]
        BY <1>1, <1>2, <3>3
    <3>5. QED
        BY <1>2, <3>1, <3>3, <3>4 DEF Elements
  <2>3. QED
      BY <2>1, <2>2
<1>4. Distinct(Tail(s))
  <2>1. SUFFICES ASSUME NEW j \in 1 .. Len(s) - 1, NEW k \in 1 .. Len(s) - 1,
                        Tail(s)[j] = Tail(s)[k]
                 PROVE  j = k
      BY <1>2 DEF Distinct
  <2>2. s[j + 1] = s[k + 1] /\ j + 1 \in DOMAIN s /\ k + 1 \in DOMAIN s
      BY <1>1, <1>2, <2>1
  <2>3. j + 1 = k + 1
      BY <2>2 DEF Distinct
  <2>4. QED
      BY <1>2, <2>3
<1>5. Head(s) \in Elements(s)
    BY <1>2 DEF Elements
<1>6. QED
    BY <1>1, <1>3, <1>4, <1>5

-------------------------------------------------------------------------------
(* Connections are counted right.                                          *)

\* What the counts need of the types.
CountTypes == /\ client \in [Handles -> 0 .. MaxConn]
              /\ refcnt \in [Conn -> Int]
              /\ open \in [Conn -> BOOLEAN]
              /\ made \in 0 .. MaxConn
              /\ alive \subseteq 1 .. made
              /\ unclaimed \in Seq(Conn)

\* No connection is accepted twice.
Queue == Distinct(unclaimed)

CountInv == CountTypes /\ Queue /\ ContextsAreCounted

\* What a step that leaves contexts and handles alone may do to a writer.
WriterUnchanged == pc' = "writing" => pc = "writing" /\ UNCHANGED <<busy, pulled>>

LEMMA Untouched ==
    ASSUME CountInv, UNCHANGED counts,
           open' \in [Conn -> BOOLEAN], \A c \in Conn : open'[c] => open[c],
           WriterUnchanged \/ busy' \in alive
    PROVE  CountInv'
<1>1. UNCHANGED <<client, refcnt, made, alive, unclaimed>>
    BY DEF counts
<1>2. CountTypes' /\ Queue'
    BY <1>1 DEF CountInv, CountTypes, Queue
<1>3. CountedReferences' /\ Waiting' = Waiting
    BY <1>1 DEF CountInv, ContextsAreCounted, CountedReferences, Holders, Waiting
<1>4. OnlyLivingContextsAreUsed'
    BY <1>1, <1>3 DEF CountInv, ContextsAreCounted, OnlyLivingContextsAreUsed, WriterUnchanged
<1>5. QED
    BY <1>2, <1>3, <1>4 DEF CountInv, ContextsAreCounted

LEMMA CountInit == Init => CountInv
<1> SUFFICES ASSUME Init
             PROVE  CountInv
    OBVIOUS
<1>1. CountTypes
    BY TcpAssumption, EmptySeq DEF Init, CountTypes, NoBytes, TcpAssumption, None
<1>2. Queue /\ Waiting = {}
    BY DEF Init, Queue, Distinct, Waiting
<1>3. CountedReferences
  <2>1. SUFFICES ASSUME NEW c \in Conn
                 PROVE  refcnt[c] = Holders(c)
      BY DEF CountedReferences
  <2>2. \A h \in Handles : client[h] # c
      BY DEF Init, Conn, None
  <2>3. Holders(c) = 0
      BY <2>2, CountType DEF Count, Holders
  <2>4. QED
      BY <2>3 DEF Init, NoBytes
<1>4. OnlyLivingContextsAreUsed
    BY <1>2 DEF Init, OnlyLivingContextsAreUsed, NoBytes
<1>5. QED
    BY <1>1, <1>2, <1>3, <1>4 DEF CountInv, ContextsAreCounted

\* A count is 0 where no handle holds the context.
LEMMA CountedIsHeld ==
    ASSUME CountInv, NEW c \in Conn
    PROVE  /\ refcnt[c] \in Nat /\ refcnt[c] = Count(client, c)
           /\ refcnt[c] = 0 <=> \A h \in Handles : client[h] # c
<1>1. refcnt[c] = Count(client, c)
    BY DEF CountInv, ContextsAreCounted, CountedReferences, Holders, Count
<1>2. QED
    BY <1>1, CountType

\* Two handles count twice.
LEMMA HeldTwice ==
    ASSUME CountInv, NEW c \in Conn, NEW g \in Handles, NEW h \in Handles,
           g # h, client[g] = c, client[h] = c
    PROVE  refcnt[c] >= 2
<1> DEFINE f == [client EXCEPT ![h] = 0]
<1>1. client \in [Handles -> Nat] /\ c \in Nat /\ c # 0
    BY TcpAssumption DEF CountInv, CountTypes, Conn, TcpAssumption
<1>2. Count(f, c) = Count(client, c) - 1
  <2>1. f[h] = 0 /\ \A x \in Handles \ {h} : f[x] = client[x]
      BY <1>1
  <2> HIDE DEF f
  <2>2. QED
      BY <1>1, <2>1, CountExcept
<1>3. Count(f, c) \in Nat /\ Count(f, c) # 0
  <2>1. f[g] = c
      BY <1>1
  <2>2. QED
      BY <2>1, CountType
<1>4. QED
  <2> HIDE DEF f
  <2>1. refcnt[c] = Count(client, c) /\ refcnt[c] \in Nat
      BY CountedIsHeld
  <2>2. QED
      BY <1>2, <1>3, <2>1

LEMMA HandleChanges ==
    ASSUME NEW h \in Handles, \A x \in Handles \ {h} : client'[x] = client[x], NEW c
    PROVE  /\ client[h] = c /\ client'[h] # c => Count(client', c) = Count(client, c) - 1
           /\ client[h] # c /\ client'[h] = c => Count(client', c) = Count(client, c) + 1
           /\ (client[h] = c <=> client'[h] = c) => Count(client', c) = Count(client, c)
    BY CountExcept

\* A handle lets go and takes over what another one holds, or nothing.
LEMMA Release ==
    ASSUME CountInv, NEW h \in Handles, NEW v \in 0 .. MaxConn,
           v = None \/ \E g \in Handles : g # h /\ client[g] = v,
           client' \in [Handles -> 0 .. MaxConn], client'[h] = v,
           \A x \in Handles \ {h} : client'[x] = client[x],
           refcnt' \in [Conn -> Int],
           \A c \in Conn : refcnt'[c] = refcnt[c] - (IF client[h] = c THEN 1 ELSE 0)
                                                  + (IF v = c THEN 1 ELSE 0),
           Delete({c \in {client[h]} : LastRef(c)}),
           UNCHANGED <<made, unclaimed>>, pc' # "writing"
    PROVE  CountInv'
<1> DEFINE gone == {c \in {client[h]} : LastRef(c)}
<1>1. /\ client \in [Handles -> 0 .. MaxConn] /\ client[h] \in 0 .. MaxConn
      /\ client \in [Handles -> Nat] /\ MaxConn \in Nat
    BY TcpAssumption DEF CountInv, CountTypes, TcpAssumption
<1>2. alive' = alive \ gone /\ open' = [c \in Conn |-> open[c] /\ c \notin gone]
    BY DEF Delete
<1>3. CountTypes' /\ Queue'
    BY <1>1, <1>2 DEF CountInv, CountTypes, Queue
<1>4. Waiting' = Waiting
    BY DEF Waiting
<1>5. ASSUME NEW c \in Conn
      PROVE  /\ refcnt'[c] = Count(client', c)
             /\ c \in alive' <=> (refcnt'[c] > 0 \/ c \in Waiting)
             /\ c \in Waiting => refcnt'[c] = 0
             /\ open'[c] => c \in alive'
  <2>1. c \in Nat /\ c # None
      BY <1>1 DEF Conn, None
  <2>2. refcnt'[c] = Count(client', c)
    <3>1. v \in Nat /\ refcnt[c] = Count(client, c) /\ refcnt[c] \in Nat
        BY <1>1, CountedIsHeld
    <3>2. /\ client[h] = c /\ v # c => Count(client', c) = Count(client, c) - 1
          /\ client[h] # c /\ v = c => Count(client', c) = Count(client, c) + 1
          /\ (client[h] = c <=> v = c) => Count(client', c) = Count(client, c)
      <4>1. /\ client[h] = c /\ client'[h] # c => Count(client', c) = Count(client, c) - 1
            /\ client[h] # c /\ client'[h] = c => Count(client', c) = Count(client, c) + 1
            /\ (client[h] = c <=> client'[h] = c) => Count(client', c) = Count(client, c)
          BY HandleChanges
      <4>2. QED
          BY <4>1
    <3>3. CASE client[h] = c /\ v # c
        BY <3>1, <3>2, <3>3
    <3>4. CASE client[h] # c /\ v = c
        BY <3>1, <3>2, <3>4
    <3>5. CASE client[h] = c <=> v = c
        BY <3>1, <3>2, <3>5
    <3>6. QED
        BY <3>3, <3>4, <3>5
  <2>3. /\ c \in alive <=> (refcnt[c] > 0 \/ c \in Waiting)
        /\ c \in Waiting => refcnt[c] = 0
        /\ open[c] => c \in alive
      BY DEF CountInv, ContextsAreCounted, OnlyLivingContextsAreUsed
  <2>4. refcnt[c] \in Nat /\ (refcnt[c] = 0 <=> \A g \in Handles : client[g] # c)
      BY CountedIsHeld
  <2>5. refcnt'[c] = refcnt[c] - (IF client[h] = c THEN 1 ELSE 0)
                               + (IF v = c THEN 1 ELSE 0)
      OBVIOUS
  <2>6. v = c => refcnt[c] > 0 /\ (client[h] = c => refcnt[c] >= 2)
      BY <2>1, <2>4, HeldTwice
  <2>7. c \in gone <=> client[h] = c /\ refcnt[c] = 1
      BY <2>1 DEF LastRef
  <2>8. c \in Waiting => refcnt'[c] = 0
      BY <2>3, <2>4, <2>5, <2>6
  <2>9. refcnt'[c] > 0 <=> refcnt[c] > 0 /\ c \notin gone
      BY <2>4, <2>5, <2>6, <2>7
  <2>10. c \in alive' <=> (refcnt'[c] > 0 \/ c \in Waiting)
      BY <1>2, <2>3, <2>7, <2>9
  <2>11. open'[c] => c \in alive'
      BY <1>2, <2>3
  <2>12. QED
      BY <2>2, <2>8, <2>10, <2>11
<1>6. CountedReferences'
    BY <1>5 DEF CountedReferences, Holders, Count
<1>7. OnlyLivingContextsAreUsed'
  <2>1. Waiting \subseteq Conn
      BY DEF CountInv, CountTypes, Waiting
  <2>2. QED
      BY <1>4, <1>5, <2>1 DEF OnlyLivingContextsAreUsed
<1>8. QED
    BY <1>3, <1>6, <1>7 DEF CountInv, ContextsAreCounted

\* What is known of the connection lwIP makes next.
LEMMA NextIsFresh ==
    ASSUME CountInv, NEW c \in Conn, Create(c)
    PROVE  /\ c \notin alive /\ c \notin Waiting /\ refcnt[c] = 0
           /\ made' \in 0 .. MaxConn /\ alive' \subseteq 1 .. made'
           /\ open' \in [Conn -> BOOLEAN]
           /\ alive' = alive \cup {c}
           /\ \A d \in Conn : open'[d] => d = c \/ open[d]
<1>1. /\ made \in 0 .. MaxConn /\ MaxConn \in Nat /\ alive \subseteq 1 .. made
      /\ made < MaxConn /\ c = made + 1 /\ made' = c /\ alive' = alive \cup {c}
      /\ open \in [Conn -> BOOLEAN] /\ open' = [open EXCEPT ![c] = TRUE]
    BY TcpAssumption DEF CountInv, CountTypes, Create, TcpAssumption
<1>2. c \notin alive
    BY <1>1
<1>3. c \notin Waiting /\ ~(refcnt[c] > 0)
    BY <1>2 DEF CountInv, ContextsAreCounted, OnlyLivingContextsAreUsed
<1>4. refcnt[c] = 0
    BY <1>3, CountedIsHeld
<1>5. made' \in 0 .. MaxConn /\ alive' \subseteq 1 .. made'
    BY <1>1
<1>6. QED
    BY <1>1, <1>2, <1>3, <1>4, <1>5

\* lwIP queues a new connection.
LEMMA AcceptCounts ==
    ASSUME CountInv, NEW c \in Conn, Accept(c)
    PROVE  CountInv'
<1>1. /\ c \notin alive /\ c \notin Waiting /\ refcnt[c] = 0
      /\ made' \in 0 .. MaxConn /\ alive' \subseteq 1 .. made'
      /\ open' \in [Conn -> BOOLEAN] /\ alive' = alive \cup {c}
      /\ \A d \in Conn : open'[d] => d = c \/ open[d]
    BY NextIsFresh DEF Accept
<1>2. /\ unclaimed' = Append(unclaimed, c)
      /\ UNCHANGED <<client, refcnt, pc, busy, pulled>>
    BY DEF Accept, waits
<1>3. /\ unclaimed' \in Seq(Conn) /\ Waiting' = Waiting \cup {c} /\ Distinct(unclaimed')
  <2>1. unclaimed \in Seq(Conn) /\ Distinct(unclaimed) /\ Elements(unclaimed) = Waiting
      BY DEF CountInv, CountTypes, Queue, Elements, Waiting
  <2>2. Waiting' = Elements(unclaimed')
      BY DEF Elements, Waiting
  <2>3. QED
      BY <1>1, <1>2, <2>1, <2>2, QueueAppend
<1>4. CountTypes' /\ Queue'
    BY <1>1, <1>2, <1>3 DEF CountInv, CountTypes, Queue
<1>5. CountedReferences'
    BY <1>2 DEF CountInv, ContextsAreCounted, CountedReferences, Holders
<1>6. OnlyLivingContextsAreUsed'
    BY <1>1, <1>2, <1>3 DEF CountInv, ContextsAreCounted, OnlyLivingContextsAreUsed
<1>7. QED
    BY <1>4, <1>5, <1>6 DEF CountInv, ContextsAreCounted

\* A handle that holds nothing takes a context nobody else holds.
LEMMA TakesOver ==
    ASSUME CountInv, NEW h \in Handles, NEW c \in Conn,
           client[h] = None, refcnt[c] = 0,
           client' = [client EXCEPT ![h] = c], refcnt' = Ref(refcnt, c)
    PROVE  /\ client' \in [Handles -> 0 .. MaxConn]
           /\ refcnt' \in [Conn -> Int]
           /\ refcnt'[c] = 1 /\ \A d \in Conn \ {c} : refcnt'[d] = refcnt[d]
           /\ CountedReferences'
<1>1. /\ client \in [Handles -> 0 .. MaxConn] /\ refcnt \in [Conn -> Int]
      /\ c \in 0 .. MaxConn /\ c # None
    BY TcpAssumption DEF CountInv, CountTypes, Conn, None, TcpAssumption
<1>2. client' \in [Handles -> 0 .. MaxConn] /\ client'[h] = c
      /\ \A x \in Handles \ {h} : client'[x] = client[x]
    BY <1>1
<1>3. /\ refcnt' \in [Conn -> Int] /\ refcnt'[c] = 1
      /\ \A d \in Conn \ {c} : refcnt'[d] = refcnt[d]
    BY <1>1 DEF Ref
<1>4. ASSUME NEW d \in Conn
      PROVE  refcnt'[d] = Count(client', d)
  <2>1. refcnt[d] = Count(client, d) /\ d # None
      BY CountedIsHeld, TcpAssumption DEF Conn, None, TcpAssumption
  <2>2. CASE d = c
    <3>1. Count(client', d) = Count(client, d) + 1
        BY <1>1, <1>2, <2>2, HandleChanges
    <3>2. QED
        BY <1>3, <2>1, <2>2, <3>1
  <2>3. CASE d # c
    <3>1. Count(client', d) = Count(client, d)
        BY <1>2, <2>1, <2>3, HandleChanges
    <3>2. QED
        BY <1>3, <2>1, <2>3, <3>1
  <2>4. QED
      BY <2>2, <2>3
<1>5. CountedReferences'
    BY <1>4 DEF CountedReferences, Holders, Count
<1>6. QED
    BY <1>2, <1>3, <1>5

\* The web server claims a connection.
LEMMA AvailableCounts ==
    ASSUME CountInv, NEW h \in Handles, Available(h), pc' # "writing"
    PROVE  CountInv'
<1> DEFINE c == Head(unclaimed)
<1>1. /\ unclaimed' = Tail(unclaimed) /\ unclaimed # <<>>
      /\ UNCHANGED <<made, alive, open>>
      /\ client[h] = None
      /\ client' = [client EXCEPT ![h] = c] /\ refcnt' = Ref(refcnt, c)
    BY DEF Available
<1>2. /\ c \in Waiting /\ c \in Conn /\ unclaimed' \in Seq(Conn)
      /\ Waiting' = Waiting \ {c} /\ Distinct(unclaimed')
  <2>1. unclaimed \in Seq(Conn) /\ Distinct(unclaimed) /\ Elements(unclaimed) = Waiting
      BY DEF CountInv, CountTypes, Queue, Elements, Waiting
  <2>2. Waiting' = Elements(unclaimed')
      BY DEF Elements, Waiting
  <2>3. QED
      BY <1>1, <2>1, <2>2, QueueTail
<1>3. refcnt[c] = 0 /\ c \in alive
    BY <1>2 DEF CountInv, ContextsAreCounted, OnlyLivingContextsAreUsed
<1> HIDE DEF c
<1>4. /\ client' \in [Handles -> 0 .. MaxConn] /\ refcnt' \in [Conn -> Int]
      /\ refcnt'[c] = 1 /\ \A d \in Conn \ {c} : refcnt'[d] = refcnt[d]
      /\ CountedReferences'
    BY <1>1, <1>2, <1>3, TakesOver
<1>5. CountTypes' /\ Queue'
    BY <1>1, <1>2, <1>4 DEF CountInv, CountTypes, Queue
<1>6. OnlyLivingContextsAreUsed'
  <2>1. ASSUME NEW d \in Conn
        PROVE  /\ d \in alive' <=> (refcnt'[d] > 0 \/ d \in Waiting')
               /\ d \in Waiting' => refcnt'[d] = 0
               /\ open'[d] => d \in alive'
    <3>1. /\ d \in alive <=> (refcnt[d] > 0 \/ d \in Waiting)
          /\ d \in Waiting => refcnt[d] = 0
          /\ open[d] => d \in alive
        BY DEF CountInv, ContextsAreCounted, OnlyLivingContextsAreUsed
    <3>2. CASE d = c
        BY <1>1, <1>2, <1>3, <1>4, <3>2
    <3>3. CASE d # c
        BY <1>1, <1>2, <1>4, <3>1, <3>3
    <3>4. QED
        BY <3>2, <3>3
  <2>2. Waiting' \subseteq Conn
      BY <1>2 DEF CountInv, CountTypes, Waiting
  <2>3. QED
      BY <2>1, <2>2 DEF OnlyLivingContextsAreUsed
<1>7. QED
    BY <1>4, <1>5, <1>6 DEF CountInv, ContextsAreCounted

\* connect() has succeeded.
LEMMA ConnectedCounts ==
    ASSUME CountInv, NEW c \in Conn, Connected(c), user \in Handles, client[user] = None
    PROVE  CountInv'
<1>1. /\ c \notin alive /\ c \notin Waiting /\ refcnt[c] = 0
      /\ made' \in 0 .. MaxConn /\ alive' \subseteq 1 .. made'
      /\ open' \in [Conn -> BOOLEAN] /\ alive' = alive \cup {c}
      /\ \A d \in Conn : open'[d] => d = c \/ open[d]
    BY NextIsFresh DEF Connected
<1>2. /\ client' = [client EXCEPT ![user] = c] /\ refcnt' = Ref(refcnt, c)
      /\ UNCHANGED unclaimed /\ Waiting' = Waiting /\ pc' # "writing"
    BY DEF Connected, Waiting
<1>3. /\ client' \in [Handles -> 0 .. MaxConn] /\ refcnt' \in [Conn -> Int]
      /\ refcnt'[c] = 1 /\ \A d \in Conn \ {c} : refcnt'[d] = refcnt[d]
      /\ CountedReferences'
    BY <1>1, <1>2, TakesOver
<1>4. CountTypes' /\ Queue'
    BY <1>1, <1>2, <1>3 DEF CountInv, CountTypes, Queue
<1>5. OnlyLivingContextsAreUsed'
  <2>1. ASSUME NEW d \in Conn
        PROVE  /\ d \in alive' <=> (refcnt'[d] > 0 \/ d \in Waiting')
               /\ d \in Waiting' => refcnt'[d] = 0
               /\ open'[d] => d \in alive'
    <3>1. /\ d \in alive <=> (refcnt[d] > 0 \/ d \in Waiting)
          /\ d \in Waiting => refcnt[d] = 0
          /\ open[d] => d \in alive
        BY DEF CountInv, ContextsAreCounted, OnlyLivingContextsAreUsed
    <3>2. CASE d = c
        BY <1>1, <1>2, <1>3, <3>2
    <3>3. CASE d # c
        BY <1>1, <1>2, <1>3, <3>1, <3>3
    <3>4. QED
        BY <3>2, <3>3
  <2>2. Waiting' \subseteq Conn
      BY <1>2 DEF CountInv, CountTypes, Waiting
  <2>3. QED
      BY <1>2, <2>1, <2>2 DEF OnlyLivingContextsAreUsed
<1>6. QED
    BY <1>3, <1>4, <1>5 DEF CountInv, ContextsAreCounted

\* A handle takes over what another one holds, if anything.
LEMMA AssignCounts ==
    ASSUME CountInv, NEW h \in Handles, NEW other \in Handles, Assign(h, other),
           pc' # "writing"
    PROVE  CountInv'
<1> DEFINE v == client[other]
<1>1. /\ client \in [Handles -> 0 .. MaxConn] /\ refcnt \in [Conn -> Int]
      /\ v \in 0 .. MaxConn
    BY DEF CountInv, CountTypes
<1>2. /\ h # other /\ client' = [client EXCEPT ![h] = v]
      /\ refcnt' = Ref(Unref(refcnt, client[h]), v)
      /\ Delete({c \in {client[h]} : LastRef(c)})
      /\ UNCHANGED <<made, unclaimed>>
    BY DEF Assign
<1>3. v = None \/ \E g \in Handles : g # h /\ client[g] = v
    BY <1>2
<1> HIDE DEF v
<1>4. /\ client' \in [Handles -> 0 .. MaxConn] /\ client'[h] = v
      /\ \A x \in Handles \ {h} : client'[x] = client[x]
    BY <1>1, <1>2
<1>5. /\ refcnt' \in [Conn -> Int]
      /\ \A c \in Conn : refcnt'[c] = refcnt[c] - (IF client[h] = c THEN 1 ELSE 0)
                                                + (IF v = c THEN 1 ELSE 0)
    BY <1>1, <1>2 DEF Ref, Unref
<1>6. QED
    BY <1>1, <1>2, <1>3, <1>4, <1>5, Release

\* A handle lets go.
LEMMA LetGoCounts ==
    ASSUME CountInv, NEW h \in Handles, LetGo(h), UNCHANGED <<made, unclaimed>>,
           pc' # "writing"
    PROVE  CountInv'
<1>1. /\ client \in [Handles -> 0 .. MaxConn] /\ refcnt \in [Conn -> Int]
      /\ None \in 0 .. MaxConn
    BY TcpAssumption DEF CountInv, CountTypes, None, TcpAssumption
<1>2. /\ client' = [client EXCEPT ![h] = None] /\ refcnt' = Unref(refcnt, client[h])
      /\ Delete({c \in {client[h]} : LastRef(c)})
    BY DEF LetGo
<1>3. /\ client' \in [Handles -> 0 .. MaxConn] /\ client'[h] = None
      /\ \A x \in Handles \ {h} : client'[x] = client[x]
    BY <1>1, <1>2
<1>4. /\ refcnt' \in [Conn -> Int]
      /\ \A c \in Conn : refcnt'[c] = refcnt[c] - (IF client[h] = c THEN 1 ELSE 0)
                                                + (IF None = c THEN 1 ELSE 0)
    BY <1>1, <1>2 DEF Unref, Conn, None
<1>5. QED
    BY <1>1, <1>2, <1>3, <1>4, Release

\* All handles let go, also that of a writer.
LEMMA StopAllCounts ==
    ASSUME CountInv, StopAll
    PROVE  CountInv'
<1> DEFINE gone == {c \in Conn : Holders(c) > 0 /\ refcnt[c] = Holders(c)}
<1>1. /\ client' = [h \in Handles |-> None]
      /\ refcnt' = [c \in Conn |-> refcnt[c] - Holders(c)]
      /\ alive' = alive \ gone /\ open' = [c \in Conn |-> open[c] /\ c \notin gone]
      /\ pulled' = (pulled \/ busy \in gone)
      /\ UNCHANGED <<unclaimed, made, pc, busy>> /\ Waiting' = Waiting
    BY DEF StopAll, Delete, Waiting
<1>2. \A c \in Conn : refcnt[c] = Holders(c) /\ refcnt[c] \in Nat
    BY CountedIsHeld DEF Count, Holders
<1>3. gone = {c \in Conn : refcnt[c] > 0}
    BY <1>2
<1> HIDE DEF gone
<1>4. \A c \in Conn : refcnt'[c] = 0
    BY <1>1, <1>2
<1>5. CountTypes' /\ Queue'
  <2>1. client' \in [Handles -> 0 .. MaxConn]
      BY <1>1, TcpAssumption DEF None, TcpAssumption
  <2>2. refcnt' \in [Conn -> Int]
      BY <1>1, <1>4
  <2>3. QED
      BY <1>1, <2>1, <2>2 DEF CountInv, CountTypes, Queue
<1>6. CountedReferences'
  <2>1. SUFFICES ASSUME NEW c \in Conn
                 PROVE  refcnt'[c] = Holders(c)'
      BY DEF CountedReferences
  <2>2. \A h \in Handles : client'[h] # c
      BY <1>1 DEF Conn, None
  <2>3. Count(client', c) = 0
      BY <2>2, CountType
  <2>4. QED
      BY <1>4, <2>3 DEF Count, Holders
<1>7. OnlyLivingContextsAreUsed'
  <2>1. ASSUME NEW c \in Conn
        PROVE  /\ c \in alive' <=> (refcnt'[c] > 0 \/ c \in Waiting')
               /\ open'[c] => c \in alive'
    <3>1. /\ c \in alive <=> (refcnt[c] > 0 \/ c \in Waiting)
          /\ c \in Waiting => refcnt[c] = 0
          /\ open[c] => c \in alive
        BY DEF CountInv, ContextsAreCounted, OnlyLivingContextsAreUsed
    <3>2. refcnt[c] \in Nat /\ (c \in gone <=> refcnt[c] > 0)
        BY <1>2, <1>3
    <3>3. refcnt'[c] = 0 /\ Waiting' = Waiting
        BY <1>1, <1>4
    <3>4. c \in alive' <=> c \in alive /\ c \notin gone
        BY <1>1
    <3>5. open'[c] => c \in alive'
        BY <1>1, <3>1, <3>4
    <3>6. c \in alive' <=> c \in Waiting
        BY <3>1, <3>2, <3>4
    <3>7. QED
        BY <3>3, <3>5, <3>6
  <2>2. Waiting' \subseteq Conn
      BY <1>1 DEF CountInv, CountTypes, Waiting
  <2>3. pc' = "writing" => busy' \in alive' \/ pulled'
    <3>1. pc = "writing" => busy \in alive \/ pulled
        BY DEF CountInv, ContextsAreCounted, OnlyLivingContextsAreUsed
    <3>2. CASE busy \in gone
        BY <1>1, <3>2
    <3>3. CASE busy \notin gone
        BY <1>1, <3>1, <3>3
    <3>4. QED
        BY <3>2, <3>3
  <2>4. QED
      BY <1>4, <2>1, <2>2, <2>3 DEF OnlyLivingContextsAreUsed
<1>8. QED
    BY <1>5, <1>6, <1>7 DEF CountInv, ContextsAreCounted

\* write() waits in a context whose connection is open.
LEMMA WriteCounts ==
    ASSUME CountInv, NEW h \in Handles, NEW n, Write(h, n)
    PROVE  CountInv'
<1>1. /\ client[h] # None /\ open[client[h]] /\ busy' = client[h]
      /\ UNCHANGED <<counts, open>>
    BY DEF Write
<1>2. client[h] \in Conn /\ open \in [Conn -> BOOLEAN]
    BY <1>1 DEF CountInv, CountTypes, Conn, None
<1>3. busy' \in alive
    BY <1>1, <1>2 DEF CountInv, ContextsAreCounted, OnlyLivingContextsAreUsed
<1>4. QED
    BY <1>1, <1>2, <1>3, Untouched

\* The end of a connection.
LEMMA PcbGoneCounts ==
    ASSUME CountInv, NEW c \in Conn, PcbGone(c)
    PROVE  CountInv'
<1>1. /\ open \in [Conn -> BOOLEAN] /\ open' = [open EXCEPT ![c] = FALSE]
      /\ UNCHANGED counts /\ UNCHANGED <<pc, busy, pulled>>
    BY DEF CountInv, CountTypes, PcbGone
<1>2. /\ open' \in [Conn -> BOOLEAN] /\ \A d \in Conn : open'[d] => open[d]
      /\ WriterUnchanged
    BY <1>1 DEF WriterUnchanged
<1>3. QED
    BY <1>1, <1>2, Untouched

\* Steps that leave contexts, handles and connections alone.
LEMMA QuietCounts ==
    ASSUME CountInv, UNCHANGED <<counts, open>>, WriterUnchanged
    PROVE  CountInv'
<1>1. open \in [Conn -> BOOLEAN]
    BY DEF CountInv, CountTypes
<1>2. QED
    BY <1>1, Untouched

-------------------------------------------------------------------------------
(* While connect() waits, its handle is empty.                             *)

Dialing == pc = "connecting" /\ ~scheduled => user \in Handles /\ client[user] = None

StrongInv == CountInv /\ Dialing

LEMMA WebCounts ==
    ASSUME StrongInv, WebStep
    PROVE  StrongInv'
<1>1. CountInv /\ pc = "loop" /\ WebHandles \subseteq Handles
    BY DEF StrongInv, WebStep, WebHandles
<1>2. CASE ServerBegin \/ ServerStop
    BY <1>1, <1>2, QuietCounts DEF StrongInv, Dialing, ServerBegin, ServerStop, WriterUnchanged, waits
<1>3. ASSUME NEW h \in WebHandles, Available(h)
      PROVE  StrongInv'
    BY <1>1, <1>3, AvailableCounts DEF StrongInv, Dialing, Available
<1>4. ASSUME NEW h \in WebHandles, NEW other \in WebHandles, Assign(h, other)
      PROVE  StrongInv'
    BY <1>1, <1>4, AssignCounts DEF StrongInv, Dialing, Assign
<1>5. ASSUME NEW h \in WebHandles, Stop(h)
      PROVE  StrongInv'
    BY <1>1, <1>5, LetGoCounts DEF StrongInv, Dialing, Stop
<1>6. ASSUME NEW h \in WebHandles, NEW n, Read(h, n), UNCHANGED <<pc, waits>>
      PROVE  StrongInv'
    BY <1>1, <1>6, QuietCounts DEF StrongInv, Dialing, Read, WriterUnchanged, waits
<1>7. ASSUME NEW h \in WebHandles, Flush(h), UNCHANGED <<pc, waits>>
      PROVE  StrongInv'
    BY <1>1, <1>7, QuietCounts DEF StrongInv, Dialing, Flush, WriterUnchanged, waits
<1>8. ASSUME NEW h \in WebHandles, NEW n, Write(h, n)
      PROVE  StrongInv'
    BY <1>1, <1>8, WriteCounts DEF StrongInv, Dialing, Write
<1>9. ASSUME NEW h \in WebHandles, WriteFails(h)
      PROVE  StrongInv'
    BY <1>1, <1>9, QuietCounts DEF StrongInv, Dialing, WriteFails, After, WriterUnchanged, waits
<1>10. QED
    BY <1>2, <1>3, <1>4, <1>5, <1>6, <1>7, <1>8, <1>9 DEF WebStep

LEMMA FhemCounts ==
    ASSUME StrongInv, FhemStep
    PROVE  StrongInv'
<1>1. CountInv /\ Fhem \in Handles
    BY TcpAssumption DEF StrongInv, TcpAssumption
<1>2. CASE Connect
    BY <1>1, <1>2, QuietCounts DEF Connect, StrongInv, Dialing, WriterUnchanged, counts
<1>3. CASE ConnectReturns
    BY <1>1, <1>3, QuietCounts DEF ConnectReturns, StrongInv, Dialing, WriterUnchanged
<1>4. CASE SendRequest
  <2>1. ASSUME NEW n, Write(Fhem, n)
        PROVE  StrongInv'
      BY <1>1, <2>1, WriteCounts DEF StrongInv, Dialing, Write
  <2>2. ASSUME WriteFails(Fhem)
        PROVE  StrongInv'
      BY <1>1, <2>2, QuietCounts DEF StrongInv, Dialing, WriteFails, After, WriterUnchanged, waits
  <2>3. QED
      BY <1>4, <2>1, <2>2 DEF SendRequest
<1>5. CASE AwaitReply
    BY <1>1, <1>5, QuietCounts DEF AwaitReply, StrongInv, Dialing, WriterUnchanged, waits
<1>6. CASE ReadReply
    BY <1>1, <1>6, QuietCounts DEF ReadReply, Read, StrongInv, Dialing, WriterUnchanged, waits
<1>7. CASE ReplyEnds
    BY <1>1, <1>7, QuietCounts DEF ReplyEnds, StrongInv, Dialing, WriterUnchanged, waits
<1>8. CASE CloseRequest
    BY <1>1, <1>8, LetGoCounts DEF CloseRequest, StrongInv, Dialing
<1>9. QED
    BY <1>2, <1>3, <1>4, <1>5, <1>6, <1>7, <1>8 DEF FhemStep

LEMMA LwipCounts ==
    ASSUME StrongInv, LwipStep
    PROVE  StrongInv'
<1>1. CountInv /\ Dialing
    BY DEF StrongInv
<1>2. ASSUME NEW c \in Conn, Accept(c)
      PROVE  StrongInv'
    BY <1>1, <1>2, AcceptCounts DEF StrongInv, Dialing, Accept, waits
<1>3. ASSUME NEW c \in Conn, Connected(c)
      PROVE  StrongInv'
    BY <1>1, <1>3, ConnectedCounts DEF StrongInv, Dialing, Connected
<1>4. ASSUME NEW c \in Conn, PeerCloses(c) \/ Error(c)
      PROVE  StrongInv'
  <2>1. PcbGone(c) /\ (scheduled => scheduled') /\ UNCHANGED <<client, pc, user>>
      BY <1>4 DEF PeerCloses, Error, PcbGone, counts
  <2>2. CountInv'
      BY <1>1, <2>1, PcbGoneCounts
  <2>3. Dialing'
      BY <1>1, <2>1 DEF Dialing
  <2>4. QED
      BY <2>2, <2>3 DEF StrongInv
<1>5. ASSUME NEW c \in Conn, NEW n, Receive(c, n)
      PROVE  StrongInv'
    BY <1>1, <1>5, QuietCounts DEF StrongInv, Dialing, Receive, WriterUnchanged, counts, waits
<1>6. ASSUME NEW c \in Conn, NEW n, Acknowledge(c, n)
      PROVE  StrongInv'
  <2>1. UNCHANGED <<counts, open, pc, user, busy, pulled>> /\ (scheduled => scheduled')
      BY <1>6 DEF Acknowledge
  <2>2. CountInv'
      BY <1>1, <2>1, QuietCounts DEF WriterUnchanged
  <2>3. Dialing'
      BY <1>1, <2>1 DEF Dialing, counts
  <2>4. QED
      BY <2>2, <2>3 DEF StrongInv
<1>7. CASE Refused
    BY <1>1, <1>7, QuietCounts DEF Refused, Woken, StrongInv, Dialing, WriterUnchanged
<1>8. CASE StopAll
    BY <1>1, <1>8, StopAllCounts DEF StopAll, StrongInv, Dialing
<1>9. QED
    BY <1>2, <1>3, <1>4, <1>5, <1>6, <1>7, <1>8 DEF LwipStep

LEMMA CountStep == StrongInv /\ [Next]_vars => StrongInv'
<1> SUFFICES ASSUME StrongInv, [Next]_vars
             PROVE  StrongInv'
    OBVIOUS
<1>1. CASE WebStep
    BY <1>1, WebCounts
<1>2. CASE FhemStep
    BY <1>2, FhemCounts
<1>3. CASE WriteReturns
    BY <1>3, QuietCounts DEF WriteReturns, After, StrongInv, Dialing, WriterUnchanged
<1>4. CASE LwipStep
    BY <1>4, LwipCounts
<1>5. CASE UNCHANGED vars
    BY <1>5, QuietCounts DEF vars, counts, waits, StrongInv, Dialing, WriterUnchanged
<1>6. QED
    BY <1>1, <1>2, <1>3, <1>4, <1>5 DEF Next

\* The counts are right (ContextsAreCounted) for any number of handles,
\* connections and bytes, whenever lwIP calls back and the access point is
\* lost (ClientContext.h:93-110, WiFiClient.cpp:50-85 and 339).
THEOREM ConnectionsAreCounted == Spec => []ContextsAreCounted
<1>1. Init => StrongInv
    BY CountInit DEF Init, StrongInv, Dialing
<1>2. StrongInv /\ [Next]_vars => StrongInv'
    BY CountStep
<1>3. StrongInv => ContextsAreCounted
    BY DEF StrongInv, CountInv
<1>4. QED
    BY <1>1, <1>2, <1>3, PTL DEF Spec

-------------------------------------------------------------------------------
(* The handles share connections as SharedConnection promises.             *)

LEMMA WaitingConn ==
    ASSUME CountInv
    PROVE  Waiting \subseteq Conn /\ None \notin Waiting
<1>1. Waiting \subseteq Conn
    BY DEF CountInv, CountTypes, Waiting
<1>2. None \notin Conn
    BY DEF Conn, None
<1>3. QED
    BY <1>1, <1>2

\* What lives is held or unclaimed, never both.
HeldInv == /\ Sharing!Held \cap Waiting = {}
           /\ alive = Sharing!Held \cup Waiting
           /\ alive \subseteq 1 .. made

LEMMA HeldIsCounted ==
    ASSUME CountInv
    PROVE  HeldInv
<1>1. /\ client \in [Handles -> 0 .. MaxConn] /\ alive \subseteq 1 .. made
      /\ made \in 0 .. MaxConn /\ MaxConn \in Nat /\ unclaimed \in Seq(Conn)
    BY TcpAssumption DEF CountInv, CountTypes, TcpAssumption
<1>2. Waiting \subseteq Conn /\ alive \subseteq Conn
  <2>1. Waiting \subseteq Conn
      BY <1>1 DEF Waiting
  <2>2. alive \subseteq Conn
      BY <1>1 DEF Conn
  <2>3. QED
      BY <2>1, <2>2
<1>3. Sharing!Held = {c \in Conn : refcnt[c] > 0}
  <2>1. Sharing!Held \subseteq Conn
      BY <1>1 DEF Sharing!Held, Conn, None
  <2>2. ASSUME NEW c \in Conn
        PROVE  c \in Sharing!Held <=> refcnt[c] > 0
    <3>1. c # None
        BY DEF Conn, None
    <3>2. refcnt[c] \in Nat /\ (refcnt[c] = 0 <=> \A h \in Handles : client[h] # c)
        BY CountedIsHeld
    <3>3. c \in Sharing!Held <=> \E h \in Handles : client[h] = c
        BY <3>1 DEF Sharing!Held
    <3>4. QED
        BY <3>2, <3>3
  <2>3. QED
      BY <2>1, <2>2
<1>4. \A c \in Conn : /\ c \in alive <=> (refcnt[c] > 0 \/ c \in Waiting)
                      /\ c \in Waiting => refcnt[c] = 0
    BY DEF CountInv, ContextsAreCounted, OnlyLivingContextsAreUsed
<1>5. Sharing!Held \cap Waiting = {}
    BY <1>3, <1>4
<1>6. alive = Sharing!Held \cup Waiting
    BY <1>2, <1>3, <1>4
<1>7. QED
    BY <1>1, <1>5, <1>6 DEF HeldInv

\* What is freed is what nobody holds any more; fresh are the connections that
\* the step makes.
LEMMA Settles ==
    ASSUME HeldInv, HeldInv',
           NEW fresh, fresh \subseteq (Sharing!Held)', fresh \cap (1 .. made) = {},
           1 .. made' = (1 .. made) \cup fresh,
           (Sharing!Held)' \subseteq Sharing!Held \cup Waiting \cup fresh,
           Waiting' = Waiting \ (Sharing!Held)', None \notin Waiting
    PROVE  Sharing!Settle(client')
<1> DEFINE still == {client'[h] : h \in Handles}
<1>1. (Sharing!Held)' = still \ {None}
    BY DEF Sharing!Held
<1>2. Waiting' = Waiting \ still
    BY <1>1
<1>3. (1 .. made') \ alive' = ((1 .. made) \ alive) \cup (Sharing!Held \ still)
  <2>1. None \notin Sharing!Held
      BY DEF Sharing!Held
  <2> HIDE DEF still
  <2>2. alive = Sharing!Held \cup Waiting /\ alive \subseteq 1 .. made
        /\ alive' = (Sharing!Held)' \cup Waiting' /\ Sharing!Held \cap Waiting = {}
      BY DEF HeldInv
  <2>3. QED
      BY <1>1, <2>1, <2>2
<1>4. QED
    BY <1>2, <1>3 DEF Sharing!Settle

\* Nothing changes hands.
LEMMA HandsStill ==
    ASSUME UNCHANGED counts
    PROVE  UNCHANGED Sharing!vars
    BY DEF counts, Sharing!vars, Waiting

LEMMA AcceptArrives ==
    ASSUME CountInv, HeldInv, HeldInv', NEW c \in Conn, Accept(c)
    PROVE  Sharing!Arrive(c)
<1>1. /\ made \in 0 .. MaxConn /\ c = made + 1 /\ made' = c
      /\ alive' = alive \cup {c} /\ UNCHANGED client
    BY DEF CountInv, CountTypes, Accept, Create
<1>2. c \notin 1 .. made /\ 1 .. made' = (1 .. made) \cup {c}
    BY <1>1
<1>3. c \notin alive /\ c \notin Sharing!Held \cup Waiting
    BY <1>2 DEF HeldInv
<1>4. Sharing!Fresh(c)
    BY <1>2, <1>3 DEF Sharing!Fresh
<1>5. Waiting' = Waiting \cup {c}
  <2>1. UNCHANGED Sharing!Held
      BY <1>1 DEF Sharing!Held
  <2>2. QED
      BY <1>1, <1>3, <2>1 DEF HeldInv
<1>6. (1 .. made') \ alive' = (1 .. made) \ alive
    BY <1>1, <1>2
<1>7. QED
    BY <1>1, <1>4, <1>5, <1>6 DEF Sharing!Arrive

LEMMA ConnectedOpens ==
    ASSUME CountInv, HeldInv, HeldInv', NEW c \in Conn, Connected(c),
           user \in Handles, client[user] = None
    PROVE  Sharing!Open(user, c)
<1>1. /\ made \in 0 .. MaxConn /\ c = made + 1 /\ made' = c
      /\ client \in [Handles -> 0 .. MaxConn]
      /\ client' = [client EXCEPT ![user] = c] /\ Waiting' = Waiting
      /\ unclaimed \in Seq(Conn)
    BY DEF CountInv, CountTypes, Connected, Create, Waiting
<1>2. c \notin 1 .. made /\ 1 .. made' = (1 .. made) \cup {c} /\ c # None
    BY <1>1 DEF None
<1>3. c \notin Sharing!Held \cup Waiting /\ None \notin Waiting
    BY <1>1, <1>2 DEF HeldInv, None
<1>4. Sharing!Fresh(c)
    BY <1>2, <1>3 DEF Sharing!Fresh
<1>5. (Sharing!Held)' = Sharing!Held \cup {c}
    BY <1>1, <1>2 DEF Sharing!Held
<1>6. Sharing!Settle(client')
  <2>1. Waiting' = Waiting \ (Sharing!Held)'
      BY <1>1, <1>3, <1>5 DEF HeldInv
  <2>2. QED
      BY <1>2, <1>3, <1>5, <2>1, Settles
<1>7. QED
    BY <1>1, <1>4, <1>6 DEF Sharing!Open

\* A handle takes over, or lets go.
LEMMA Gives ==
    ASSUME CountInv, HeldInv, HeldInv', NEW h \in Handles,
           NEW v \in Sharing!Held \cup Waiting \cup {None},
           client' = [client EXCEPT ![h] = v], UNCHANGED made,
           Waiting' = Waiting \ {v}
    PROVE  \E x \in Handles, c \in Conn \cup {None} : Sharing!Give(x, c)
<1>1. /\ client \in [Handles -> 0 .. MaxConn] /\ unclaimed \in Seq(Conn)
      /\ MaxConn \in Nat
    BY TcpAssumption DEF CountInv, CountTypes, TcpAssumption
<1>2. Waiting \subseteq Conn /\ None \notin Conn /\ Sharing!Held \subseteq Conn
    BY <1>1 DEF Waiting, Conn, None, Sharing!Held
<1>3. (Sharing!Held)' \subseteq Sharing!Held \cup {v}
    BY <1>1 DEF Sharing!Held
<1>4. v # None => v \in (Sharing!Held)'
    BY <1>1 DEF Sharing!Held
<1>5. Waiting' = Waiting \ (Sharing!Held)'
    BY <1>2, <1>3, <1>4 DEF HeldInv
<1>6. Sharing!Settle(client')
  <2>1. (Sharing!Held)' \subseteq Sharing!Held \cup Waiting
      BY <1>3 DEF Sharing!Held
  <2>2. /\ {} \subseteq (Sharing!Held)' /\ {} \cap (1 .. made) = {}
        /\ 1 .. made' = (1 .. made) \cup {}
        /\ (Sharing!Held)' \subseteq Sharing!Held \cup Waiting \cup {}
        /\ None \notin Waiting
      BY <1>2, <2>1
  <2>3. QED
      BY <1>5, <2>2, Settles
<1>7. Sharing!Give(h, v) /\ v \in Conn \cup {None}
    BY <1>2, <1>6 DEF Sharing!Give
<1>8. QED
    BY <1>7

LEMMA StopAllLetsGo ==
    ASSUME CountInv, HeldInv, HeldInv', StopAll
    PROVE  Sharing!LetGo
<1>1. /\ client' = [h \in Handles |-> None] /\ UNCHANGED made /\ Waiting' = Waiting
      /\ unclaimed \in Seq(Conn)
    BY DEF StopAll, Waiting, CountInv, CountTypes
<1>2. (Sharing!Held)' = {} /\ None \notin Waiting
    BY <1>1, WaitingConn DEF Sharing!Held
<1>3. /\ {} \subseteq (Sharing!Held)' /\ {} \cap (1 .. made) = {}
      /\ 1 .. made' = (1 .. made) \cup {}
      /\ (Sharing!Held)' \subseteq Sharing!Held \cup Waiting \cup {}
      /\ Waiting' = Waiting \ (Sharing!Held)'
    BY <1>1, <1>2
<1>4. Sharing!Settle(client')
    BY <1>2, <1>3, Settles
<1>5. QED
    BY <1>1, <1>4 DEF Sharing!LetGo

LEMMA SharingStep ==
    ASSUME StrongInv, HeldInv, HeldInv', [Next]_vars
    PROVE  [Sharing!Next]_Sharing!vars
<1>1. CountInv /\ Dialing
    BY DEF StrongInv
<1>2. None \notin Waiting /\ Waiting \subseteq Conn
    BY <1>1, WaitingConn
<1>3. ASSUME NEW h \in Handles, Available(h)
      PROVE  Sharing!Next
  <2> DEFINE v == Head(unclaimed)
  <2>1. /\ client' = [client EXCEPT ![h] = v] /\ UNCHANGED made
        /\ unclaimed' = Tail(unclaimed) /\ unclaimed # <<>>
      BY <1>3 DEF Available
  <2>2. v \in Waiting /\ Waiting' = Waiting \ {v}
    <3>1. /\ unclaimed \in Seq(Conn) /\ Distinct(unclaimed)
          /\ Elements(unclaimed) = Waiting /\ Waiting' = Elements(unclaimed')
        BY <1>1 DEF CountInv, CountTypes, Queue, Elements, Waiting
    <3>2. QED
        BY <2>1, <3>1, QueueTail
  <2> HIDE DEF v
  <2>3. QED
      BY <1>1, <2>1, <2>2, Gives DEF Sharing!Next
<1>4. ASSUME NEW h \in Handles, NEW other \in Handles, Assign(h, other)
      PROVE  Sharing!Next
  <2> DEFINE v == client[other]
  <2>1. /\ client' = [client EXCEPT ![h] = v] /\ UNCHANGED made /\ Waiting' = Waiting
      BY <1>4 DEF Assign, Waiting
  <2>2. v \in Sharing!Held \cup {None}
      BY DEF Sharing!Held
  <2>3. Waiting' = Waiting \ {v}
      BY <1>2, <2>1, <2>2 DEF HeldInv
  <2> HIDE DEF v
  <2>4. QED
      BY <1>1, <2>1, <2>2, <2>3, Gives DEF Sharing!Next
<1>5. ASSUME NEW h \in Handles, LetGo(h), UNCHANGED <<unclaimed, made>>
      PROVE  Sharing!Next
  <2>1. client' = [client EXCEPT ![h] = None] /\ UNCHANGED made /\ Waiting' = Waiting \ {None}
      BY <1>2, <1>5 DEF LetGo, Waiting
  <2>2. QED
      BY <1>1, <2>1, Gives DEF Sharing!Next
<1>6. CASE WebStep
  <2>1. WebHandles \subseteq Handles
      BY DEF WebHandles
  <2>2. ASSUME NEW h \in WebHandles, Stop(h)
        PROVE  Sharing!Next
      BY <1>5, <2>1, <2>2 DEF Stop
  <2>3. ASSUME UNCHANGED counts
        PROVE  UNCHANGED Sharing!vars
      BY <2>3, HandsStill
  <2>4. QED
      BY <1>3, <1>4, <1>6, <2>1, <2>2, <2>3
      DEF WebStep, ServerBegin, ServerStop, Read, Flush, Write, WriteFails
<1>7. CASE FhemStep
  <2>1. ASSUME UNCHANGED counts
        PROVE  UNCHANGED Sharing!vars
      BY <2>1, HandsStill
  <2>2. CASE CloseRequest
      BY <1>5, <2>2, TcpAssumption DEF CloseRequest, TcpAssumption
  <2>3. QED
      BY <1>7, <2>1, <2>2
      DEF FhemStep, Connect, ConnectReturns, SendRequest, Write, WriteFails,
          AwaitReply, ReadReply, Read, ReplyEnds
<1>8. CASE LwipStep
  <2>1. ASSUME UNCHANGED counts
        PROVE  UNCHANGED Sharing!vars
      BY <2>1, HandsStill
  <2>2. ASSUME NEW c \in Conn, Accept(c)
        PROVE  Sharing!Next
      BY <1>1, <2>2, AcceptArrives DEF Sharing!Next
  <2>3. ASSUME NEW c \in Conn, Connected(c)
        PROVE  Sharing!Next
    <3>1. user \in Handles /\ client[user] = None
        BY <1>1, <2>3 DEF Connected, Dialing
    <3>2. QED
        BY <1>1, <2>3, <3>1, ConnectedOpens DEF Sharing!Next
  <2>4. CASE StopAll
      BY <1>1, <2>4, StopAllLetsGo DEF Sharing!Next
  <2>5. QED
      BY <1>8, <2>1, <2>2, <2>3, <2>4
      DEF LwipStep, PeerCloses, Error, PcbGone, Receive, Acknowledge, Refused
<1>9. CASE WriteReturns \/ UNCHANGED vars
  <2>1. UNCHANGED counts
      BY <1>9 DEF WriteReturns, vars
  <2>2. QED
      BY <2>1, HandsStill
<1>10. QED
    BY <1>6, <1>7, <1>8, <1>9 DEF Next

LEMMA SharingInit == Init => Sharing!Init
<1> SUFFICES ASSUME Init
             PROVE  Sharing!Init
    OBVIOUS
<1>1. Waiting = {} /\ (1 .. made) \ alive = {}
    BY DEF Init, Waiting
<1>2. QED
    BY <1>1 DEF Init, Sharing!Init

\* The handles implement SharedConnection (FreedOnceAfterLastUse): a connection
\* is freed once, when the last handle lets go, for any number of handles and
\* connections (ClientContext.h:98-110).
THEOREM ConnectionsAreShared == Spec => FreedOnceAfterLastUse
<1>1. Init => StrongInv /\ Sharing!Init
    BY CountInit, SharingInit DEF Init, StrongInv, Dialing
<1>2. StrongInv /\ [Next]_vars => StrongInv'
    BY CountStep
<1>3. StrongInv => HeldInv
    BY HeldIsCounted DEF StrongInv
<1>4. StrongInv /\ HeldInv /\ HeldInv' /\ [Next]_vars => [Sharing!Next]_Sharing!vars
    BY SharingStep
<1>5. QED
    BY <1>1, <1>2, <1>3, <1>4, PTL DEF Spec, FreedOnceAfterLastUse, Sharing!Spec

-------------------------------------------------------------------------------
(* What write() reports.                                                   *)

SendTypes == /\ sizeSent \in [Conn -> 0 .. W - 1]
             /\ inflight \in [Conn -> 0 .. SndBuf]
             /\ willSend \in 0 .. SndBuf /\ before \in 0 .. SndBuf
             /\ acked \in Nat
             /\ busy \in 0 .. made
             /\ pc # "writing" => acked = 0

\* _size_sent wraps around when bytes of an earlier write() are acknowledged.
WriteKnown ==
    pc = "writing" /\ busy \in alive =>
        /\ willSend + before <= SndBuf
        /\ acked <= before + willSend
        /\ acked <= willSend => sizeSent[busy] = willSend - acked
        /\ willSend < acked => sizeSent[busy] = willSend + W - acked
        /\ open[busy] => acked + inflight[busy] = before + willSend
        /\ before = 0 => scheduled \/ willSend = 0 \/ (open[busy] /\ inflight[busy] > 0)

WriteInv == SendTypes /\ WriteKnown

LEMMA Widths == /\ W \in Nat /\ SndBuf \in Nat \ {0} /\ 2 * SndBuf < W
                /\ MaxConn \in Nat \ {0} /\ MaxWrite \in Nat \ {0}
    BY TcpAssumption DEF TcpAssumption

LEMMA ModSmall ==
    ASSUME NEW m \in Nat \ {0}, NEW y \in Nat
    PROVE  /\ y % m \in 0 .. m - 1
           /\ y < m => y % m = y
           /\ m <= y /\ y < 2 * m => y % m = y - m
    OBVIOUS

LEMMA MinusIs ==
    ASSUME NEW size \in 0 .. W - 1, NEW n \in 0 .. SndBuf
    PROVE  /\ Minus(size, n) \in 0 .. W - 1
           /\ n <= size => Minus(size, n) = size - n
           /\ size < n => Minus(size, n) = size + W - n
<1> DEFINE y == size + W - n
<1>1. /\ y \in Nat /\ W \in Nat \ {0} /\ y < 2 * W /\ y = size + W - n
    BY Widths
<1>2. Minus(size, n) = y % W
    BY DEF Minus
<1> HIDE DEF y
<1>3. /\ y % W \in 0 .. W - 1
      /\ y < W => y % W = y
      /\ W <= y => y % W = y - W
    BY <1>1, ModSmall
<1>4. QED
    BY <1>1, <1>2, <1>3

\* The report is right.
LEMMA KnownIsReported == CountInv /\ WriteInv => WriteReportsWhatWasAcknowledged
<1> SUFFICES ASSUME CountInv, WriteInv, pc = "writing", busy \in alive
             PROVE  /\ Report = acked
                    /\ before = 0 => /\ Report <= willSend
                                     /\ \/ scheduled
                                        \/ willSend = 0
                                        \/ open[busy] /\ inflight[busy] > 0
    BY DEF WriteReportsWhatWasAcknowledged
<1>1. /\ willSend \in 0 .. SndBuf /\ before \in 0 .. SndBuf /\ acked \in Nat
      /\ willSend + before <= SndBuf /\ acked <= before + willSend
      /\ acked <= willSend => sizeSent[busy] = willSend - acked
      /\ willSend < acked => sizeSent[busy] = willSend + W - acked
      /\ before = 0 => scheduled \/ willSend = 0 \/ (open[busy] /\ inflight[busy] > 0)
    BY DEF WriteInv, SendTypes, WriteKnown
<1>2. Report = acked
  <2> DEFINE y == willSend + W - sizeSent[busy]
  <2>1. /\ acked <= willSend => y = W + acked
        /\ willSend < acked => y = acked
        /\ acked < W /\ W \in Nat \ {0}
      BY <1>1, Widths
  <2>2. Report = y % W
      BY DEF Report
  <2> HIDE DEF y
  <2>3. y \in Nat /\ (y = acked \/ y = W + acked)
      BY <1>1, <2>1
  <2>4. /\ y < W => y % W = y
        /\ W <= y /\ y < 2 * W => y % W = y - W
      BY <2>1, <2>3, ModSmall
  <2>5. QED
      BY <1>1, <2>1, <2>2, <2>3, <2>4
<1>3. QED
    BY <1>1, <1>2

\* What leaves the connection of the writer alone.
WriterAlone ==
    pc' = "writing" /\ busy' \in alive' =>
        /\ pc = "writing" /\ busy \in alive
        /\ UNCHANGED <<busy, willSend, before, acked>>
        /\ scheduled => scheduled'
        /\ sizeSent'[busy] = sizeSent[busy]
        /\ inflight'[busy] = inflight[busy]
        /\ open'[busy] = open[busy]

LEMMA AloneKnown ==
    ASSUME WriteKnown, WriterAlone
    PROVE  WriteKnown'
<1> SUFFICES ASSUME pc' = "writing", busy' \in alive'
             PROVE  WriteKnown'
    BY DEF WriteKnown
<1>1. /\ pc = "writing" /\ busy \in alive
      /\ busy' = busy /\ willSend' = willSend /\ before' = before /\ acked' = acked
      /\ scheduled => scheduled'
      /\ sizeSent'[busy] = sizeSent[busy]
      /\ inflight'[busy] = inflight[busy]
      /\ open'[busy] = open[busy]
    BY DEF WriterAlone
<1>2. /\ sizeSent'[busy'] = sizeSent[busy]
      /\ inflight'[busy'] = inflight[busy]
      /\ open'[busy'] = open[busy]
    BY <1>1
<1>3. /\ willSend + before <= SndBuf
      /\ acked <= before + willSend
      /\ acked <= willSend => sizeSent[busy] = willSend - acked
      /\ willSend < acked => sizeSent[busy] = willSend + W - acked
      /\ open[busy] => acked + inflight[busy] = before + willSend
      /\ before = 0 => scheduled \/ willSend = 0 \/ (open[busy] /\ inflight[busy] > 0)
    BY <1>1 DEF WriteKnown
<1>4. QED
    BY <1>1, <1>2, <1>3 DEF WriteKnown

\* Steps after which the sketch does not write.
LEMMA NotWriting ==
    ASSUME pc' # "writing"
    PROVE  WriteKnown'
    BY DEF WriteKnown

LEMMA DeleteSends ==
    ASSUME SendTypes, NEW gone, Delete(gone)
    PROVE  /\ sizeSent' \in [Conn -> 0 .. W - 1] /\ inflight' \in [Conn -> 0 .. SndBuf]
           /\ \A c \in Conn \ gone : /\ sizeSent'[c] = sizeSent[c]
                                     /\ inflight'[c] = inflight[c]
                                     /\ open \in [Conn -> BOOLEAN] => open'[c] = open[c]
<1>1. 0 \in 0 .. W - 1 /\ 0 \in 0 .. SndBuf
    BY Widths
<1>2. /\ sizeSent' = [c \in Conn |-> IF c \in gone THEN 0 ELSE sizeSent[c]]
      /\ inflight' = [c \in Conn |-> IF c \in gone THEN 0 ELSE inflight[c]]
      /\ open' = [c \in Conn |-> open[c] /\ c \notin gone]
    BY DEF Delete
<1>3. /\ sizeSent \in [Conn -> 0 .. W - 1] /\ inflight \in [Conn -> 0 .. SndBuf]
    BY DEF SendTypes
<1>4. sizeSent' \in [Conn -> 0 .. W - 1] /\ inflight' \in [Conn -> 0 .. SndBuf]
    BY <1>1, <1>2, <1>3
<1>5. \A c \in Conn \ gone : open \in [Conn -> BOOLEAN] => open'[c] = open[c]
    BY <1>2
<1>6. QED
    BY <1>2, <1>4, <1>5

\* A write() begins.
LEMMA WriteIsKnown ==
    ASSUME CountInv, WriteInv, NEW h \in Handles, NEW n \in 1 .. MaxWrite, Write(h, n),
           pc # "writing"
    PROVE  WriteInv'
<1> DEFINE c == client[h]
           room == SndBuf - inflight[c]
           sending == IF room < n THEN room ELSE n
<1>1. /\ c # None /\ open[c]
      /\ sizeSent' = [sizeSent EXCEPT ![c] = sending]
      /\ inflight' = [inflight EXCEPT ![c] = @ + sending]
      /\ pc' = "writing" /\ busy' = c /\ willSend' = sending /\ before' = inflight[c]
      /\ UNCHANGED <<made, alive, open, acked, scheduled>>
    BY DEF Write, counts
<1>2. c \in Conn /\ c \in 0 .. made /\ made \in 0 .. MaxConn
  <2>1. c \in Conn
      BY <1>1 DEF CountInv, CountTypes, Conn, None
  <2>2. c \in alive /\ alive \subseteq 1 .. made /\ made \in 0 .. MaxConn
    <3>1. c \in alive
        BY <1>1, <2>1 DEF CountInv, ContextsAreCounted, OnlyLivingContextsAreUsed
    <3>2. QED
        BY <3>1 DEF CountInv, CountTypes
  <2> HIDE DEF c
  <2>3. c \in 1 .. made
      BY <2>2
  <2>4. QED
      BY <2>1, <2>2, <2>3
<1>3. /\ inflight[c] \in 0 .. SndBuf /\ acked = 0
      /\ sizeSent \in [Conn -> 0 .. W - 1] /\ inflight \in [Conn -> 0 .. SndBuf]
    BY <1>2 DEF WriteInv, SendTypes
<1>4. /\ sending \in 0 .. SndBuf /\ inflight[c] + sending \in 0 .. SndBuf
      /\ sending \in 0 .. W - 1
  <2>1. n \in Nat
      BY Widths
  <2>2. QED
      BY <1>3, <2>1, Widths
<1> HIDE DEF sending, c
<1>5. /\ sizeSent'[c] = sending /\ inflight'[c] = inflight[c] + sending
      /\ sizeSent' \in [Conn -> 0 .. W - 1] /\ inflight' \in [Conn -> 0 .. SndBuf]
    BY <1>1, <1>2, <1>3, <1>4
<1>6. SendTypes'
    BY <1>1, <1>2, <1>3, <1>4, <1>5 DEF SendTypes
<1>7. WriteKnown'
    BY <1>1, <1>3, <1>4, <1>5 DEF WriteKnown
<1>8. QED
    BY <1>6, <1>7 DEF WriteInv

\* Bytes are acknowledged.
LEMMA AcknowledgeIsKnown ==
    ASSUME CountInv, WriteInv, NEW c \in Conn, NEW n \in 1 .. SndBuf, Acknowledge(c, n)
    PROVE  WriteInv'
<1>1. /\ open[c] /\ n <= inflight[c]
      /\ inflight' = [inflight EXCEPT ![c] = @ - n]
      /\ sizeSent' = [sizeSent EXCEPT ![c] = Minus(@, n)]
      /\ acked' = (IF SendWaiting(c) THEN acked + n ELSE acked)
      /\ scheduled' = (scheduled \/ (SendWaiting(c) /\ sizeSent'[c] = 0))
      /\ UNCHANGED <<made, alive, open, pc, busy, willSend, before>>
    BY DEF Acknowledge, counts
<1>2. /\ inflight \in [Conn -> 0 .. SndBuf] /\ sizeSent \in [Conn -> 0 .. W - 1]
      /\ acked \in Nat /\ n \in 1 .. SndBuf /\ SndBuf \in Nat
      /\ willSend \in 0 .. SndBuf /\ before \in 0 .. SndBuf
    BY Widths DEF WriteInv, SendTypes
<1>3. /\ inflight'[c] = inflight[c] - n /\ inflight[c] - n \in 0 .. SndBuf
      /\ sizeSent'[c] = Minus(sizeSent[c], n) /\ Minus(sizeSent[c], n) \in 0 .. W - 1
    BY <1>1, <1>2, MinusIs
<1>4. inflight' \in [Conn -> 0 .. SndBuf] /\ sizeSent' \in [Conn -> 0 .. W - 1]
    BY <1>1, <1>2, <1>3
<1>5. SendTypes'
    BY <1>1, <1>2, <1>4 DEF WriteInv, SendTypes, SendWaiting
<1>6. CASE pc = "writing" /\ busy = c /\ busy \in alive
  <2> DEFINE k == inflight[c]
             z == sizeSent[c]
  <2>1. /\ willSend + before <= SndBuf /\ acked <= before + willSend
        /\ acked <= willSend => z = willSend - acked
        /\ willSend < acked => z = willSend + W - acked
        /\ acked + k = before + willSend
        /\ k \in 0 .. SndBuf /\ z \in 0 .. W - 1 /\ n <= k
      BY <1>1, <1>2, <1>6 DEF WriteInv, WriteKnown
  <2>2. /\ acked' = acked + n
        /\ n <= z => sizeSent'[c] = z - n
        /\ z < n => sizeSent'[c] = z + W - n
        /\ inflight'[c] = k - n
        /\ scheduled' = (scheduled \/ sizeSent'[c] = 0)
      BY <1>1, <1>2, <1>3, <1>6, MinusIs DEF SendWaiting
  <2> DEFINE a1 == acked'
             k1 == inflight'[c]
             z1 == sizeSent'[c]
  <2>2a. /\ a1 = acked + n /\ k1 = k - n
         /\ n <= z => z1 = z - n
         /\ z < n => z1 = z + W - n
      BY <2>2
  <2> HIDE DEF k, z, a1, k1, z1
  <2>3. /\ a1 <= before + willSend /\ a1 + k1 = before + willSend
        /\ k1 \in Nat /\ a1 \in Nat
      BY <1>2, <2>1, <2>2a
  <2>4. /\ a1 <= willSend => z1 = willSend - a1
        /\ willSend < a1 => z1 = willSend + W - a1
    <3>1. CASE acked <= willSend
        BY <1>2, <2>1, <2>2a, <3>1, Widths
    <3>2. CASE willSend < acked
        BY <1>2, <2>1, <2>2a, <3>2, Widths
    <3>3. QED
        BY <1>2, <3>1, <3>2
  <2>5. before = 0 => scheduled' \/ k1 > 0
    <3>1. before = 0 /\ ~(k1 > 0) => z1 = 0
        BY <1>2, <2>3, <2>4
    <3>2. QED
        BY <2>2, <3>1 DEF z1
  <2>6. QED
      BY <1>1, <1>5, <1>6, <2>1, <2>3, <2>4, <2>5 DEF WriteInv, WriteKnown, a1, k1, z1
<1>7. CASE ~(pc = "writing" /\ busy = c /\ busy \in alive)
  <2>1. WriterAlone
    <3>1. ASSUME pc = "writing", busy \in alive
          PROVE  /\ acked' = acked
                 /\ sizeSent'[busy] = sizeSent[busy] /\ inflight'[busy] = inflight[busy]
      <4>1. busy # c /\ ~SendWaiting(c)
          BY <1>7, <3>1 DEF SendWaiting
      <4>a. busy \in Conn
        <5>1. busy \in 1 .. made /\ made \in 0 .. MaxConn /\ MaxConn \in Nat
            BY <3>1, Widths DEF CountInv, CountTypes
        <5>2. QED
            BY <5>1 DEF Conn
      <4>2. QED
          BY <1>1, <1>2, <4>1, <4>a
    <3>2. QED
        BY <1>1, <3>1 DEF WriterAlone
  <2>2. QED
      BY <1>5, <2>1, AloneKnown DEF WriteInv
<1>8. QED
    BY <1>6, <1>7

\* The connection ends.
LEMMA PcbGoneIsKnown ==
    ASSUME CountInv, WriteInv, NEW c \in Conn, PeerCloses(c) \/ Error(c)
    PROVE  WriteInv'
<1>1. /\ open[c] /\ open' = [open EXCEPT ![c] = FALSE]
      /\ inflight' = [inflight EXCEPT ![c] = 0]
      /\ UNCHANGED <<made, alive, sizeSent, pc, busy, willSend, acked, before>>
      /\ scheduled => scheduled'
      /\ SendWaiting(c) /\ sizeSent[c] # 0 => scheduled'
    BY DEF PeerCloses, Error, PcbGone, counts
<1>2. /\ inflight \in [Conn -> 0 .. SndBuf] /\ sizeSent \in [Conn -> 0 .. W - 1]
      /\ open \in [Conn -> BOOLEAN] /\ 0 \in 0 .. SndBuf
      /\ acked \in Nat /\ willSend \in 0 .. SndBuf /\ before \in 0 .. SndBuf
    BY Widths DEF WriteInv, SendTypes, CountInv, CountTypes
<1>3. /\ inflight' \in [Conn -> 0 .. SndBuf] /\ inflight'[c] = 0 /\ ~open'[c]
      /\ \A d \in Conn \ {c} : inflight'[d] = inflight[d] /\ open'[d] = open[d]
    BY <1>1, <1>2
<1>4. SendTypes'
    BY <1>1, <1>3 DEF WriteInv, SendTypes
<1>5. CASE pc = "writing" /\ busy = c /\ busy \in alive
  <2>1. /\ willSend + before <= SndBuf /\ acked <= before + willSend
        /\ acked <= willSend => sizeSent[c] = willSend - acked
        /\ willSend < acked => sizeSent[c] = willSend + W - acked
        /\ acked + inflight[c] = before + willSend
        /\ before = 0 => scheduled \/ willSend = 0 \/ inflight[c] > 0
      BY <1>1, <1>5 DEF WriteInv, WriteKnown
  <2>2. before = 0 => scheduled' \/ willSend = 0
    <3>1. before = 0 /\ ~scheduled /\ willSend # 0 => sizeSent[c] # 0
      <4>1. inflight[c] \in 0 .. SndBuf
          BY <1>2
      <4>2. QED
          BY <1>2, <2>1, <4>1
    <3>2. QED
        BY <1>1, <1>5, <3>1 DEF SendWaiting
  <2>3. QED
      BY <1>1, <1>3, <1>4, <1>5, <2>1, <2>2 DEF WriteInv, WriteKnown
<1>6. CASE ~(pc = "writing" /\ busy = c /\ busy \in alive)
  <2>1. WriterAlone
    <3>1. ASSUME pc = "writing", busy \in alive
          PROVE  inflight'[busy] = inflight[busy] /\ open'[busy] = open[busy]
      <4>1. busy \in 1 .. made /\ made \in 0 .. MaxConn /\ MaxConn \in Nat
          BY <3>1, Widths DEF CountInv, CountTypes
      <4>2. busy # c /\ busy \in Conn
          BY <1>6, <3>1, <4>1 DEF Conn
      <4>3. QED
          BY <1>3, <4>2
    <3>2. QED
        BY <1>1, <3>1 DEF WriterAlone
  <2>2. QED
      BY <1>4, <2>1, AloneKnown DEF WriteInv
<1>7. QED
    BY <1>5, <1>6

\* The writer's context may go with all the others.
LEMMA StopAllIsKnown ==
    ASSUME CountInv, WriteInv, StopAll
    PROVE  WriteInv'
<1>1. PICK gone : /\ Delete(gone)
                  /\ UNCHANGED <<made, pc, busy, willSend, scheduled, acked, before>>
    BY DEF StopAll
<1>2. /\ sizeSent' \in [Conn -> 0 .. W - 1] /\ inflight' \in [Conn -> 0 .. SndBuf]
      /\ alive' = alive \ gone
      /\ \A c \in Conn \ gone : /\ sizeSent'[c] = sizeSent[c]
                                /\ inflight'[c] = inflight[c]
                                /\ open'[c] = open[c]
  <2>1. alive' = alive \ gone
      BY <1>1 DEF Delete
  <2>2. open \in [Conn -> BOOLEAN]
      BY DEF CountInv, CountTypes
  <2>3. QED
      BY <1>1, <2>1, <2>2, DeleteSends DEF WriteInv
<1>3. SendTypes'
    BY <1>1, <1>2 DEF WriteInv, SendTypes
<1>4. WriterAlone
  <2>1. ASSUME busy \in alive'
        PROVE  busy \in alive /\ busy \in Conn \ gone
    <3>1. busy \in alive /\ busy \notin gone
        BY <1>2, <2>1
    <3>2. busy \in 1 .. made /\ made \in 0 .. MaxConn /\ MaxConn \in Nat
        BY <3>1, Widths DEF CountInv, CountTypes
    <3>3. QED
        BY <3>1, <3>2 DEF Conn
  <2>2. QED
      BY <1>1, <1>2, <2>1 DEF WriterAlone
<1>5. QED
    BY <1>3, <1>4, AloneKnown DEF WriteInv

\* A new connection is not the one of the writer.
LEMMA AcceptIsKnown ==
    ASSUME CountInv, WriteInv, NEW c \in Conn, Accept(c)
    PROVE  WriteInv'
<1>1. /\ c = made + 1 /\ made' = c /\ alive' = alive \cup {c} /\ open' = [open EXCEPT ![c] = TRUE]
      /\ UNCHANGED <<sizeSent, inflight, pc, busy, willSend, scheduled, acked, before>>
    BY DEF Accept, Create, sent, waits
<1>2. busy \in 0 .. made /\ made \in Nat /\ open \in [Conn -> BOOLEAN]
    BY DEF WriteInv, SendTypes, CountInv, CountTypes
<1>3. busy # c /\ busy \in 0 .. made'
    BY <1>1, <1>2
<1>4. SendTypes'
    BY <1>1, <1>3 DEF WriteInv, SendTypes
<1>5. busy \in alive' => busy \in alive /\ open'[busy] = open[busy]
  <2>1. ASSUME busy \in alive
        PROVE  open'[busy] = open[busy]
    <3>1. busy \in 1 .. made /\ made \in 0 .. MaxConn /\ MaxConn \in Nat
        BY <2>1, Widths DEF CountInv, CountTypes
    <3>2. busy \in Conn
        BY <3>1 DEF Conn
    <3>3. QED
        BY <1>1, <1>2, <1>3, <3>2
  <2>2. QED
      BY <1>1, <1>3, <2>1
<1>6. WriterAlone
    BY <1>1, <1>5 DEF WriterAlone
<1>7. QED
    BY <1>4, <1>6, AloneKnown DEF WriteInv

\* Steps of the sketch that do not write.
LEMMA IdleIsKnown ==
    ASSUME WriteInv, pc' # "writing", made' \in Nat, made <= made',
           busy' = busy \/ busy' = None, acked' = 0,
           willSend' \in 0 .. SndBuf, before' \in 0 .. SndBuf,
           sizeSent' \in [Conn -> 0 .. W - 1], inflight' \in [Conn -> 0 .. SndBuf],
           made \in Nat
    PROVE  WriteInv'
<1>1. busy' \in 0 .. made'
    BY DEF WriteInv, SendTypes, None
<1>2. QED
    BY <1>1, NotWriting DEF WriteInv, SendTypes

LEMMA QuietIsKnown ==
    ASSUME CountInv, WriteInv, pc # "writing", pc' # "writing",
           UNCHANGED <<made, sent, busy, willSend, acked, before>>
    PROVE  WriteInv'
<1>1. made \in Nat
    BY DEF CountInv, CountTypes
<1>2. QED
    BY <1>1, IdleIsKnown DEF WriteInv, SendTypes, sent

LEMMA DeleteIsKnown ==
    ASSUME CountInv, WriteInv, NEW gone, Delete(gone), pc # "writing", pc' # "writing",
           UNCHANGED <<made, waits>>
    PROVE  WriteInv'
<1>1. made \in Nat
    BY DEF CountInv, CountTypes
<1>2. QED
    BY <1>1, IdleIsKnown, DeleteSends DEF WriteInv, SendTypes, waits

LEMMA WebWritesKnown ==
    ASSUME CountInv, WriteInv, WebStep
    PROVE  WriteInv'
<1>1. pc = "loop" /\ WebHandles \subseteq Handles
    BY DEF WebStep, WebHandles
<1>2. CASE ServerBegin \/ ServerStop
    BY <1>1, <1>2, QuietIsKnown DEF ServerBegin, ServerStop, counts, waits
<1>3. ASSUME NEW h \in WebHandles, Available(h)
      PROVE  WriteInv'
    BY <1>1, <1>3, QuietIsKnown DEF Available, waits
<1>4. ASSUME NEW h \in WebHandles, NEW other \in WebHandles, Assign(h, other)
      PROVE  WriteInv'
    BY <1>1, <1>4, DeleteIsKnown DEF Assign
<1>5. ASSUME NEW h \in WebHandles, Stop(h)
      PROVE  WriteInv'
    BY <1>1, <1>5, DeleteIsKnown DEF Stop, LetGo
<1>6. ASSUME NEW h \in WebHandles, NEW n, Read(h, n), UNCHANGED <<pc, waits>>
      PROVE  WriteInv'
    BY <1>1, <1>6, QuietIsKnown DEF Read, counts, waits
<1>7. ASSUME NEW h \in WebHandles, Flush(h), UNCHANGED <<pc, waits>>
      PROVE  WriteInv'
    BY <1>1, <1>7, QuietIsKnown DEF Flush, counts, waits
<1>8. ASSUME NEW h \in WebHandles, NEW n \in 1 .. MaxWrite, Write(h, n)
      PROVE  WriteInv'
    BY <1>1, <1>8, WriteIsKnown
<1>9. ASSUME NEW h \in WebHandles, WriteFails(h)
      PROVE  WriteInv'
    BY <1>1, <1>9, QuietIsKnown DEF WriteFails, After, counts, waits
<1>10. QED
    BY <1>2, <1>3, <1>4, <1>5, <1>6, <1>7, <1>8, <1>9 DEF WebStep

LEMMA FhemWritesKnown ==
    ASSUME CountInv, WriteInv, FhemStep
    PROVE  WriteInv'
<1>1. Fhem \in Handles
    BY TcpAssumption DEF TcpAssumption
<1>2. CASE Connect \/ ConnectReturns
    BY <1>2, QuietIsKnown DEF Connect, ConnectReturns, counts
<1>3. CASE SendRequest
  <2>1. ASSUME NEW n \in 1 .. MaxWrite, Write(Fhem, n)
        PROVE  WriteInv'
      BY <1>1, <1>3, <2>1, WriteIsKnown DEF SendRequest
  <2>2. ASSUME WriteFails(Fhem)
        PROVE  WriteInv'
      BY <1>3, <2>2, QuietIsKnown DEF SendRequest, WriteFails, After, counts, waits
  <2>3. QED
      BY <1>3, <2>1, <2>2 DEF SendRequest
<1>4. CASE AwaitReply \/ ReplyEnds
    BY <1>4, QuietIsKnown DEF AwaitReply, ReplyEnds, counts, waits
<1>5. CASE ReadReply
    BY <1>5, QuietIsKnown DEF ReadReply, Read, counts, waits
<1>6. CASE CloseRequest
    BY <1>6, DeleteIsKnown DEF CloseRequest, LetGo
<1>7. QED
    BY <1>2, <1>3, <1>4, <1>5, <1>6 DEF FhemStep

LEMMA LwipWritesKnown ==
    ASSUME CountInv, WriteInv, LwipStep
    PROVE  WriteInv'
<1>1. ASSUME NEW c \in Conn, Accept(c)
      PROVE  WriteInv'
    BY <1>1, AcceptIsKnown
<1>2. ASSUME NEW c \in Conn, Connected(c)
      PROVE  WriteInv'
  <2>1. /\ pc = "connecting" /\ made \in Nat /\ made' = made + 1
        /\ UNCHANGED <<pc, sent, busy, willSend, acked, before>>
      BY <1>2 DEF Connected, Create, CountInv, CountTypes
  <2>2. QED
      BY <2>1, IdleIsKnown DEF WriteInv, SendTypes, sent
<1>3. ASSUME NEW c \in Conn, PeerCloses(c) \/ Error(c)
      PROVE  WriteInv'
    BY <1>3, PcbGoneIsKnown
<1>4. ASSUME NEW c \in Conn, NEW n, Receive(c, n)
      PROVE  WriteInv'
  <2>1. UNCHANGED <<made, alive, open, sizeSent, inflight, pc,
                    busy, willSend, scheduled, acked, before>>
      BY <1>4 DEF Receive, counts, sent, waits
  <2>2. WriterAlone /\ SendTypes'
      BY <2>1 DEF WriterAlone, WriteInv, SendTypes
  <2>3. QED
      BY <2>2, AloneKnown DEF WriteInv
<1>5. ASSUME NEW c \in Conn, NEW n \in 1 .. SndBuf, Acknowledge(c, n)
      PROVE  WriteInv'
    BY <1>5, AcknowledgeIsKnown
<1>6. CASE Refused
    BY <1>6, QuietIsKnown DEF Refused, counts
<1>7. CASE StopAll
    BY <1>7, StopAllIsKnown
<1>8. QED
    BY <1>1, <1>2, <1>3, <1>4, <1>5, <1>6, <1>7 DEF LwipStep

LEMMA WriteStep == CountInv /\ WriteInv /\ [Next]_vars => WriteInv'
<1> SUFFICES ASSUME CountInv, WriteInv, [Next]_vars
             PROVE  WriteInv'
    OBVIOUS
<1>1. CASE WebStep
    BY <1>1, WebWritesKnown
<1>2. CASE FhemStep
    BY <1>2, FhemWritesKnown
<1>3. CASE WriteReturns
  <2>1. /\ pc' # "writing" /\ busy' = None /\ acked' = 0
        /\ willSend' = 0 /\ before' = 0 /\ UNCHANGED <<made, sent>>
      BY <1>3 DEF WriteReturns, After, counts
  <2>2. made \in Nat /\ 0 \in 0 .. SndBuf
      BY Widths DEF CountInv, CountTypes
  <2>3. QED
      BY <2>1, <2>2, IdleIsKnown DEF WriteInv, SendTypes, sent
<1>4. CASE LwipStep
    BY <1>4, LwipWritesKnown
<1>5. CASE UNCHANGED vars
  <2>1. UNCHANGED <<made, alive, open, sizeSent, inflight, pc,
                    busy, willSend, scheduled, acked, before>>
      BY <1>5 DEF vars, counts, sent, waits
  <2>2. WriterAlone /\ SendTypes'
      BY <2>1 DEF WriterAlone, WriteInv, SendTypes
  <2>3. QED
      BY <2>2, AloneKnown DEF WriteInv
<1>6. QED
    BY <1>1, <1>2, <1>3, <1>4, <1>5 DEF Next

\* write() reports what has been acknowledged while it waited, also when bytes
\* of an earlier write() are acknowledged and _size_sent wraps around, and on a
\* connection with nothing in flight it waits only while there is something to
\* wait for (ClientContext.h:220-255), for any sizes of the writes and the
\* buffer and whatever lwIP and the access point do.
THEOREM WritesReportWhatWasAcknowledged == Spec => []WriteReportsWhatWasAcknowledged
<1>1. Init => StrongInv /\ WriteInv
  <2>1. 0 \in 0 .. W - 1 /\ 0 \in 0 .. SndBuf
      BY Widths
  <2>2. Init => WriteInv
      BY <2>1 DEF Init, WriteInv, SendTypes, WriteKnown, NoBytes, None
  <2>3. QED
      BY <2>2, CountInit DEF Init, StrongInv, Dialing
<1>2. StrongInv /\ WriteInv /\ [Next]_vars => (StrongInv /\ WriteInv)'
    BY CountStep, WriteStep DEF StrongInv
<1>3. StrongInv /\ WriteInv => WriteReportsWhatWasAcknowledged
    BY KnownIsReported DEF StrongInv
<1>4. QED
    BY <1>1, <1>2, <1>3, PTL DEF Spec

-------------------------------------------------------------------------------
(* Induction.  The library's induction theorems take a predicate; what     *)
(* follows says the same with a set.                                       *)

\* A well-founded relation has a minimal element in every set (WFMin).
LEMMA Minimal ==
    \A R, S : IsWellFoundedOn(R, S) =>
        \A T : T \subseteq S => (T # {} => \E x \in T : \A y \in T : ~(<<y, x>> \in R))
  BY WFMin, Zenon

\* The least-number principle.
LEMMA Least ==
    ASSUME NEW S, S \subseteq Nat, S # {}
    PROVE  \E n \in S : \A m \in S : n <= m
<1>1. \A T : T \subseteq Nat => (T # {} =>
          \E x \in T : \A y \in T : ~(<<y, x>> \in OpToRel(<, Nat)))
    BY NatLessThanWellFounded, Minimal, Zenon
<1>2. PICK n \in S : \A m \in S : ~(<<m, n>> \in OpToRel(<, Nat))
    BY <1>1
<1>3. \A m \in S : ~(m < n)
    BY <1>2 DEF OpToRel
<1>4. QED
    BY <1>3

LEMMA Induction ==
    ASSUME NEW S, 0 \in S, \A n \in Nat : n \in S => n + 1 \in S
    PROVE  Nat \subseteq S
<1> SUFFICES ASSUME Nat \ S # {}
             PROVE  FALSE
    OBVIOUS
<1>1. PICK n \in Nat \ S : \A m \in Nat \ S : n <= m
    BY Least
<1>2. n - 1 \in Nat /\ n - 1 \notin Nat \ S
    BY <1>1
<1>3. QED
    BY <1>1, <1>2

-------------------------------------------------------------------------------
(* The length of a chain of packets.                                       *)

Chains == Seq(Nat)

\* total is tot_len for the chains of at most n packets.
Adds(total, n) ==
    total = [s \in {s \in Chains : Len(s) <= n} |->
               IF s = <<>> THEN 0 ELSE Head(s) + total[Tail(s)]]

LEMMA TailIs ==
    ASSUME NEW s \in Chains, s # <<>>
    PROVE  /\ Head(s) \in Nat /\ Tail(s) \in Chains
           /\ Len(s) \in Nat \ {0} /\ Len(Tail(s)) = Len(s) - 1
  BY HeadTailProperties, EmptySeq DEF Chains

LEMMA AddsAt ==
    ASSUME NEW total, NEW n \in Nat, Adds(total, n), NEW s \in Chains, Len(s) <= n
    PROVE  total[s] = IF s = <<>> THEN 0 ELSE Head(s) + total[Tail(s)]
  BY DEF Adds

\* Two of them agree where both are defined.
LEMMA AddsAgree ==
    ASSUME NEW g, NEW h, NEW m \in Nat, NEW n \in Nat, Adds(g, m), Adds(h, n)
    PROVE  \A s \in Chains : Len(s) <= m /\ Len(s) <= n => g[s] = h[s]
<1> DEFINE Good == {k \in Nat : \A s \in Chains :
                       Len(s) <= k /\ Len(s) <= m /\ Len(s) <= n => g[s] = h[s]}
<1>1. 0 \in Good
  <2> SUFFICES ASSUME NEW s \in Chains, Len(s) <= 0, Len(s) <= m, Len(s) <= n
               PROVE  g[s] = h[s]
      OBVIOUS
  <2>1. s = <<>>
      BY TailIs
  <2>2. QED
      BY <2>1, AddsAt
<1>2. ASSUME NEW k \in Nat, k \in Good
      PROVE  k + 1 \in Good
  <2> SUFFICES ASSUME NEW s \in Chains, Len(s) <= k + 1, Len(s) <= m, Len(s) <= n
               PROVE  g[s] = h[s]
      OBVIOUS
  <2>1. CASE s = <<>>
      BY <2>1, AddsAt
  <2>2. CASE s # <<>>
    <3>1. /\ Tail(s) \in Chains /\ Len(Tail(s)) <= k
          /\ Len(Tail(s)) <= m /\ Len(Tail(s)) <= n
        BY <2>2, TailIs
    <3>2. g[Tail(s)] = h[Tail(s)]
        BY <1>2, <3>1
    <3>3. QED
        BY <2>2, <3>2, AddsAt
  <2>3. QED
      BY <2>1, <2>2
<1>3. Nat \subseteq Good
  <2> HIDE DEF Good
  <2>1. QED
      BY <1>1, <1>2, Induction
<1>4. ASSUME NEW s \in Chains, Len(s) <= m, Len(s) <= n
      PROVE  g[s] = h[s]
  <2>1. m \in Good
      BY <1>3
  <2>2. QED
      BY <1>4, <2>1
<1>5. QED
    BY <1>4

LEMMA AddsExists == \A n \in Nat : \E total : Adds(total, n)
<1> DEFINE Good == {n \in Nat : \E total : Adds(total, n)}
<1>1. 0 \in Good
  <2> DEFINE total == [s \in {s \in Chains : Len(s) <= 0} |-> 0]
  <2>1. \A s \in Chains : Len(s) <= 0 => s = <<>>
      BY TailIs
  <2>2. total = [s \in {s \in Chains : Len(s) <= 0} |->
                   IF s = <<>> THEN 0 ELSE Head(s) + total[Tail(s)]]
      BY <2>1
  <2>3. Adds(total, 0)
      BY <2>2 DEF Adds
  <2>4. QED
      BY <2>3
<1>2. ASSUME NEW n \in Nat, n \in Good
      PROVE  n + 1 \in Good
  <2>1. PICK g : Adds(g, n)
      BY <1>2
  <2> DEFINE total == [s \in {s \in Chains : Len(s) <= n + 1} |->
                         IF s = <<>> THEN 0 ELSE Head(s) + g[Tail(s)]]
  <2>2. \A s \in Chains : Len(s) <= n => total[s] = g[s]
    <3>1. \A s \in Chains : Len(s) <= n => Len(s) <= n + 1
        BY TailIs, EmptySeq DEF Chains
    <3>2. QED
        BY <2>1, <3>1, AddsAt
  <2>3. \A s \in Chains : Len(s) <= n + 1 /\ s # <<>> => total[Tail(s)] = g[Tail(s)]
    <3>1. \A s \in Chains : Len(s) <= n + 1 /\ s # <<>> =>
              Tail(s) \in Chains /\ Len(Tail(s)) <= n
        BY TailIs
    <3> HIDE DEF total
    <3>2. QED
        BY <2>2, <3>1
  <2>4. total = [s \in {s \in Chains : Len(s) <= n + 1} |->
                   IF s = <<>> THEN 0 ELSE Head(s) + total[Tail(s)]]
      BY <2>3
  <2>5. Adds(total, n + 1)
      BY <2>4 DEF Adds
  <2>6. QED
      BY <2>5
<1> HIDE DEF Good
<1>3. Nat \subseteq Good
    BY <1>1, <1>2, Induction
<1>4. QED
    BY <1>3 DEF Good

\* tot_len is what its definition says.
LEMMA TotLenIs ==
    \A s \in Chains : totLen[s] = IF s = <<>> THEN 0 ELSE Head(s) + totLen[Tail(s)]
<1> DEFINE G(n) == CHOOSE total : Adds(total, n)
           total == [s \in Chains |-> G(Len(s))[s]]
<1>1. \A n \in Nat : Adds(G(n), n)
    BY AddsExists
<1>2. ASSUME NEW s \in Chains
      PROVE  total[s] = IF s = <<>> THEN 0 ELSE Head(s) + total[Tail(s)]
  <2>1. Len(s) \in Nat
      BY LenProperties DEF Chains
  <2>2. total[s] = G(Len(s))[s]
      OBVIOUS
  <2>3. CASE s = <<>>
      BY <1>1, <2>1, <2>2, <2>3, AddsAt
  <2>4. CASE s # <<>>
    <3>1. /\ Tail(s) \in Chains /\ Len(Tail(s)) \in Nat /\ Len(Tail(s)) <= Len(s)
        BY <2>4, TailIs
    <3>2. total[Tail(s)] = G(Len(Tail(s)))[Tail(s)]
        BY <3>1
    <3> HIDE DEF G, total
    <3>3. Adds(G(Len(s)), Len(s)) /\ Adds(G(Len(Tail(s))), Len(Tail(s)))
        BY <1>1, <2>1, <3>1
    <3>4. G(Len(Tail(s)))[Tail(s)] = G(Len(s))[Tail(s)]
      <4>1. PICK m \in Nat : m = Len(Tail(s))
          BY <3>1
      <4>2. PICK g, h : g = G(Len(Tail(s))) /\ h = G(Len(s))
          OBVIOUS
      <4>3. PICK n \in Nat : n = Len(s)
          BY <2>1
      <4>4. Adds(g, m) /\ Adds(h, n)
          BY <3>3, <4>1, <4>2, <4>3
      <4>5. Len(Tail(s)) <= m /\ Len(Tail(s)) <= n
          BY <3>1, <4>1, <4>3
      <4>6. \A u \in Chains : Len(u) <= m /\ Len(u) <= n => g[u] = h[u]
          BY <4>4, AddsAgree, Zenon
      <4>7. g[Tail(s)] = h[Tail(s)]
          BY <3>1, <4>5, <4>6
      <4>8. QED
          BY <4>2, <4>7
    <3>5. G(Len(s))[s] = Head(s) + G(Len(s))[Tail(s)]
        BY <2>1, <2>4, <3>3, AddsAt
    <3>6. QED
        BY <2>2, <2>4, <3>2, <3>4, <3>5
  <2>5. QED
      BY <2>3, <2>4
<1>3. total = [s \in Chains |-> IF s = <<>> THEN 0 ELSE Head(s) + total[Tail(s)]]
  <2>1. total = [s \in Chains |-> total[s]]
      OBVIOUS
  <2> HIDE DEF total
  <2>2. QED
      BY <1>2, <2>1
<1> HIDE DEF total
<1>4. totLen = [s \in Chains |-> IF s = <<>> THEN 0 ELSE Head(s) + totLen[Tail(s)]]
  <2>1. \E f : f = [s \in Chains |-> IF s = <<>> THEN 0 ELSE Head(s) + f[Tail(s)]]
      BY <1>3
  <2>2. totLen = CHOOSE f : f = [s \in Chains |-> IF s = <<>> THEN 0 ELSE Head(s) + f[Tail(s)]]
      BY DEF totLen, Chains
  <2>3. QED
      BY <2>1, <2>2
<1>5. QED
    BY <1>4

LEMMA ConcatTail ==
    ASSUME NEW s \in Chains, NEW t \in Chains, s # <<>>
    PROVE  /\ s \o t \in Chains /\ s \o t # <<>>
           /\ Head(s \o t) = Head(s) /\ Tail(s \o t) = Tail(s) \o t
<1>1. /\ s \o t \in Chains /\ Len(s \o t) = Len(s) + Len(t)
      /\ \A i \in 1 .. Len(s) + Len(t) :
            (s \o t)[i] = IF i <= Len(s) THEN s[i] ELSE t[i - Len(s)]
    BY ConcatProperties DEF Chains
<1>2. /\ Len(s) \in Nat \ {0} /\ Len(t) \in Nat
      /\ Tail(s) \in Chains /\ Len(Tail(s)) = Len(s) - 1
    BY TailIs, LenProperties DEF Chains
<1>3. s \o t # <<>>
    BY <1>1, <1>2, EmptySeq
<1>4. /\ Tail(s \o t) \in Chains /\ Len(Tail(s \o t)) = Len(s) + Len(t) - 1
      /\ \A i \in 1 .. Len(s) + Len(t) - 1 : Tail(s \o t)[i] = (s \o t)[i + 1]
    BY <1>1, <1>3, HeadTailProperties DEF Chains
<1>5. /\ Tail(s) \o t \in Chains /\ Len(Tail(s) \o t) = Len(s) - 1 + Len(t)
      /\ \A i \in 1 .. Len(s) - 1 + Len(t) :
            (Tail(s) \o t)[i] = IF i <= Len(s) - 1 THEN Tail(s)[i] ELSE t[i - (Len(s) - 1)]
  <2>1. /\ Tail(s) \o t \in Chains /\ Len(Tail(s) \o t) = Len(Tail(s)) + Len(t)
        /\ \A i \in 1 .. Len(Tail(s)) + Len(t) :
              (Tail(s) \o t)[i] = IF i <= Len(Tail(s)) THEN Tail(s)[i] ELSE t[i - Len(Tail(s))]
      BY <1>2, ConcatProperties DEF Chains
  <2>2. QED
      BY <1>2, <2>1
<1>6. \A i \in 1 .. Len(s) - 1 : Tail(s)[i] = s[i + 1]
    BY <1>2, HeadTailProperties DEF Chains
<1>7. \A i \in 1 .. Len(s) + Len(t) - 1 : Tail(s \o t)[i] = (Tail(s) \o t)[i]
  <2> SUFFICES ASSUME NEW i \in 1 .. Len(s) + Len(t) - 1
               PROVE  Tail(s \o t)[i] = (Tail(s) \o t)[i]
      OBVIOUS
  <2>1. PICK m \in Nat \ {0}, n \in Nat : m = Len(s) /\ n = Len(t)
      BY <1>2
  <2>2. /\ i \in 1 .. m + n - 1 /\ i + 1 \in 1 .. m + n /\ i + 1 - m = i - (m - 1)
        /\ i + 1 <= m <=> i <= m - 1
        /\ i \in 1 .. m - 1 + n
      BY <2>1
  <2>3. Tail(s \o t)[i] = IF i + 1 <= m THEN s[i + 1] ELSE t[i + 1 - m]
      BY <1>1, <1>4, <2>1, <2>2
  <2>4. (Tail(s) \o t)[i] = IF i <= m - 1 THEN Tail(s)[i] ELSE t[i - (m - 1)]
      BY <1>5, <2>1, <2>2
  <2>5. CASE i <= m - 1
    <3>1. Tail(s)[i] = s[i + 1]
        BY <1>6, <2>1, <2>2, <2>5
    <3>2. QED
        BY <2>2, <2>3, <2>4, <2>5, <3>1
  <2>6. CASE ~(i <= m - 1)
      BY <2>2, <2>3, <2>4, <2>6
  <2>7. QED
      BY <2>5, <2>6
<1>8. Tail(s \o t) = Tail(s) \o t
  <2>1. Len(Tail(s \o t)) = Len(Tail(s) \o t)
      BY <1>2, <1>4, <1>5
  <2>2. \A i \in 1 .. Len(Tail(s \o t)) : Tail(s \o t)[i] = (Tail(s) \o t)[i]
      BY <1>4, <1>7
  <2>3. QED
      BY <1>4, <1>5, <2>1, <2>2, SeqEqual DEF Chains
<1>9. Head(s \o t) = Head(s)
  <2>1. Head(s \o t) = (s \o t)[1] /\ Head(s) = s[1]
      BY <1>1, <1>2, <1>3 DEF Chains
  <2>2. 1 \in 1 .. Len(s) + Len(t) /\ 1 <= Len(s)
      BY <1>2
  <2>3. QED
      BY <1>1, <2>1, <2>2
<1>10. QED
    BY <1>1, <1>3, <1>8, <1>9

\* Chains add up.
LEMMA TotLenConcat ==
    \A s, t \in Chains : /\ totLen[s] \in Nat
                         /\ totLen[s \o t] = totLen[s] + totLen[t]
<1> DEFINE Good == {k \in Nat : \A s \in Chains : Len(s) <= k => totLen[s] \in Nat}
<1>1. 0 \in Good
  <2>1. \A s \in Chains : Len(s) <= 0 => s = <<>>
      BY TailIs
  <2>2. QED
      BY <2>1, TotLenIs
<1>2. ASSUME NEW k \in Nat, k \in Good
      PROVE  k + 1 \in Good
  <2> SUFFICES ASSUME NEW s \in Chains, Len(s) <= k + 1, s # <<>>
               PROVE  totLen[s] \in Nat
      BY TotLenIs
  <2>1. Tail(s) \in Chains /\ Len(Tail(s)) <= k /\ Head(s) \in Nat
      BY TailIs
  <2>2. totLen[Tail(s)] \in Nat
      BY <1>2, <2>1
  <2>3. QED
      BY <2>1, <2>2, TotLenIs
<1>3. Nat \subseteq Good
  <2> HIDE DEF Good
  <2>1. QED
      BY <1>1, <1>2, Induction
<1>4. \A s \in Chains : Len(s) \in Nat /\ totLen[s] \in Nat
  <2>1. \A s \in Chains : Len(s) \in Nat
      BY LenProperties DEF Chains
  <2>2. QED
      BY <1>3, <2>1
<1> DEFINE Fine == {k \in Nat : \A s \in Chains : Len(s) <= k =>
                      \A t \in Chains : totLen[s \o t] = totLen[s] + totLen[t]}
<1>5. 0 \in Fine
  <2>1. \A s \in Chains : Len(s) <= 0 => s = <<>>
      BY TailIs
  <2>2. \A t \in Chains : <<>> \o t = t
      BY ConcatEmptySeq DEF Chains
  <2>3. totLen[<<>>] = 0
    <3>1. <<>> \in Chains
        BY EmptySeq DEF Chains
    <3>2. QED
        BY <3>1, TotLenIs
  <2>4. \A t \in Chains : totLen[<<>> \o t] = totLen[<<>>] + totLen[t]
      BY <1>4, <2>2, <2>3
  <2> HIDE DEF Good
  <2>5. \A s, t \in Chains : Len(s) <= 0 => totLen[s \o t] = totLen[s] + totLen[t]
      BY <2>1, <2>4
  <2>6. QED
      BY <2>5
<1>6. ASSUME NEW k \in Nat, k \in Fine
      PROVE  k + 1 \in Fine
  <2> SUFFICES ASSUME NEW s \in Chains, Len(s) <= k + 1, NEW t \in Chains
               PROVE  totLen[s \o t] = totLen[s] + totLen[t]
      OBVIOUS
  <2>1. CASE s = <<>>
    <3>1. Len(s) <= 0
        BY <2>1, EmptySeq
    <3>2. QED
        BY <1>5, <3>1
  <2>2. CASE s # <<>>
    <3>1. /\ Tail(s) \in Chains /\ Len(Tail(s)) <= k /\ Head(s) \in Nat
        BY <2>2, TailIs
    <3>2. totLen[Tail(s) \o t] = totLen[Tail(s)] + totLen[t]
        BY <1>6, <3>1
    <3>3. totLen[s] = Head(s) + totLen[Tail(s)]
        BY <2>2, TotLenIs
    <3>4. totLen[s \o t] = Head(s) + totLen[Tail(s) \o t]
      <4>1. PICK u \in Chains : /\ u = s \o t /\ u # <<>>
                                 /\ Head(u) = Head(s) /\ Tail(u) = Tail(s) \o t
          BY <2>2, ConcatTail
      <4>2. totLen[u] = Head(u) + totLen[Tail(u)]
          BY <4>1, TotLenIs
      <4>3. QED
          BY <4>1, <4>2
    <3>5. totLen[Tail(s)] \in Nat /\ totLen[t] \in Nat
        BY <1>4, <3>1
    <3>6. QED
        BY <3>1, <3>2, <3>3, <3>4, <3>5
  <2>3. QED
      BY <2>1, <2>2
<1>7. Nat \subseteq Fine
  <2> HIDE DEF Fine
  <2>1. QED
      BY <1>5, <1>6, Induction
<1>8. QED
    BY <1>4, <1>7

LEMMA TotLenOne ==
    ASSUME NEW n \in Nat
    PROVE  <<n>> \in Chains /\ totLen[<<n>>] = n
<1>1. /\ <<n>> \in Chains /\ <<n>> # <<>> /\ Head(<<n>>) = n /\ Tail(<<n>>) = <<>>
      /\ <<>> \in Chains
    BY DEF Chains
<1>2. totLen[<<>>] = 0
    BY <1>1, TotLenIs
<1>3. totLen[<<n>>] = n + 0
    BY <1>1, <1>2, TotLenIs
<1>4. QED
    BY <1>1, <1>3

LEMMA TotLenAppend ==
    ASSUME NEW s \in Chains, NEW n \in Nat
    PROVE  totLen[Append(s, n)] = totLen[s] + n
<1>1. Append(s, n) = s \o <<n>>
    BY AppendIsConcat DEF Chains
<1>2. QED
    BY <1>1, TotLenConcat, TotLenOne

\* The first k packets of a chain, and the others.
LEMMA Split ==
    ASSUME NEW s \in Chains, NEW k \in 0 .. Len(s)
    PROVE  /\ SubSeq(s, 1, k) \in Chains /\ SubSeq(s, k + 1, Len(s)) \in Chains
           /\ totLen[SubSeq(s, 1, k)] \in Nat
           /\ totLen[s] = totLen[SubSeq(s, 1, k)] + totLen[SubSeq(s, k + 1, Len(s))]
           /\ k = 0 => totLen[SubSeq(s, 1, k)] = 0
           /\ k < Len(s) => /\ SubSeq(s, k + 1, Len(s)) # <<>>
                            /\ Head(SubSeq(s, k + 1, Len(s))) = s[k + 1]
                            /\ totLen[SubSeq(s, 1, k + 1)]
                                 = totLen[SubSeq(s, 1, k)] + s[k + 1]
           /\ k = Len(s) => SubSeq(s, k + 1, Len(s)) = <<>>
<1>1. Len(s) \in Nat /\ \A i \in 1 .. Len(s) : s[i] \in Nat
    BY LenProperties, ElementOfSeq DEF Chains
<1>2. SubSeq(s, 1, k) \in Chains /\ SubSeq(s, k + 1, Len(s)) \in Chains
    BY <1>1, SubSeqProperties DEF Chains
<1>3. totLen[s] = totLen[SubSeq(s, 1, k)] + totLen[SubSeq(s, k + 1, Len(s))]
  <2>1. SubSeq(s, 1, k) \o SubSeq(s, k + 1, Len(s)) = SubSeq(s, 1, Len(s))
    <3>1. /\ 1 \in 1 .. Len(s) + 1 /\ k \in 1 - 1 .. Len(s)
          /\ Len(s) \in k .. Len(s)
        BY <1>1
    <3>2. s \in Seq(Nat)
        BY DEF Chains
    <3>3. QED
        BY <3>1, <3>2, ConcatAdjacentSubSeq, Zenon
  <2>2. SubSeq(s, 1, Len(s)) = s
      BY SubSeqFull DEF Chains
  <2>3. QED
      BY <1>2, <2>1, <2>2, TotLenConcat
<1>4. ASSUME k = 0
      PROVE  totLen[SubSeq(s, 1, k)] = 0
  <2>1. SubSeq(s, 1, k) = <<>>
      BY <1>4, SubSeqEmpty
  <2>2. QED
      BY <1>2, <2>1, TotLenIs
<1>5. ASSUME k < Len(s)
      PROVE  /\ SubSeq(s, k + 1, Len(s)) # <<>>
             /\ Head(SubSeq(s, k + 1, Len(s))) = s[k + 1]
             /\ totLen[SubSeq(s, 1, k + 1)] = totLen[SubSeq(s, 1, k)] + s[k + 1]
  <2>1. k + 1 \in 1 .. Len(s) /\ Len(s) \in k + 1 .. Len(s)
      BY <1>1, <1>5
  <2>2. Len(SubSeq(s, k + 1, Len(s))) = Len(s) - (k + 1) + 1
      BY <1>1, <2>1, SubSeqProperties
  <2>3. SubSeq(s, k + 1, Len(s)) # <<>>
    <3>1. Len(SubSeq(s, k + 1, Len(s))) # 0
        BY <1>1, <1>5, <2>2
    <3>2. Len(<<>>) = 0
        OBVIOUS
    <3>3. QED
        BY <3>1, <3>2, Zenon
  <2>4. Head(SubSeq(s, k + 1, Len(s))) = s[k + 1]
      BY <2>1, HeadTailOfSubSeq DEF Chains
  <2>5. SubSeq(s, 1, k + 1) = SubSeq(s, 1, k) \o <<s[k + 1]>>
    <3>1. 1 \in 1 .. Len(s) /\ k + 1 \in 1 .. Len(s) /\ (k + 1) - 1 = k
        BY <2>1
    <3>2. SubSeq(s, 1, k + 1) = SubSeq(s, 1, (k + 1) - 1) \o <<s[k + 1]>>
        BY <3>1, SubSeqRecursiveSecond DEF Chains
    <3>3. QED
        BY <3>1, <3>2
  <2>6. s[k + 1] \in Nat
      BY <1>1, <2>1
  <2>7. totLen[SubSeq(s, 1, k + 1)] = totLen[SubSeq(s, 1, k)] + s[k + 1]
    <3>1. <<s[k + 1]>> \in Chains /\ totLen[<<s[k + 1]>>] = s[k + 1]
        BY <2>6, TotLenOne
    <3>2. totLen[SubSeq(s, 1, k) \o <<s[k + 1]>>]
            = totLen[SubSeq(s, 1, k)] + totLen[<<s[k + 1]>>]
        BY <1>2, <3>1, TotLenConcat
    <3>3. QED
        BY <2>5, <3>1, <3>2
  <2>8. QED
      BY <2>3, <2>4, <2>7
<1>6. k = Len(s) => SubSeq(s, k + 1, Len(s)) = <<>>
    BY <1>1, SubSeqEmpty
<1>7. QED
    BY <1>2, <1>3, <1>4, <1>5, <1>6, TotLenConcat

\* The first j packets are no longer than the first i.
LEMMA Prefixes ==
    ASSUME NEW s \in Chains, NEW i \in 1 .. Len(s), NEW j \in 1 .. i
    PROVE  /\ totLen[SubSeq(s, 1, j)] \in Nat /\ totLen[SubSeq(s, 1, i)] \in Nat
           /\ totLen[SubSeq(s, 1, j)] <= totLen[SubSeq(s, 1, i)]
<1>1. Len(s) \in Nat /\ \A k \in 1 .. Len(s) : s[k] \in Nat
    BY LenProperties, ElementOfSeq DEF Chains
<1>2. SubSeq(s, 1, j) \o SubSeq(s, j + 1, i) = SubSeq(s, 1, i)
  <2>1. 1 \in 1 .. Len(s) + 1 /\ j \in 1 - 1 .. Len(s) /\ i \in j .. Len(s)
      BY <1>1
  <2>2. s \in Seq(Nat)
      BY DEF Chains
  <2>3. QED
      BY <2>1, <2>2, ConcatAdjacentSubSeq, Zenon
<1>3. SubSeq(s, 1, j) \in Chains /\ SubSeq(s, j + 1, i) \in Chains
    BY <1>1, SubSeqProperties DEF Chains
<1>4. PICK u \in Chains, v \in Chains :
          /\ u = SubSeq(s, 1, j) /\ v = SubSeq(s, j + 1, i)
          /\ u \o v = SubSeq(s, 1, i)
    BY <1>2, <1>3
<1>5. totLen[u] \in Nat /\ totLen[v] \in Nat /\ totLen[u \o v] = totLen[u] + totLen[v]
    BY TotLenConcat
<1>6. QED
    BY <1>4, <1>5

\* How many packets of a chain lie in its first x bytes.
LEMMA Whole ==
    ASSUME NEW s \in Chains, NEW x \in Nat, NEW k,
           k = Cardinality({j \in 1 .. Len(s) : totLen[SubSeq(s, 1, j)] <= x})
    PROVE  /\ k \in 0 .. Len(s)
           /\ totLen[SubSeq(s, 1, k)] <= x
           /\ k < Len(s) => x < totLen[SubSeq(s, 1, k + 1)]
<1> DEFINE P(j) == totLen[SubSeq(s, 1, j)]
           S == {j \in 1 .. Len(s) : P(j) <= x}
<1>1. Len(s) \in Nat
    BY LenProperties DEF Chains
<1>2. P(0) <= x
    BY <1>1, Split
<1>3. CASE S = 1 .. Len(s)
  <2>1. k = Len(s)
    <3>1. k = Cardinality(1 .. Len(s))
        BY <1>3
    <3>2. PICK n \in Nat : n = Len(s)
        BY <1>1
    <3>3. Cardinality(1 .. n) = IF 1 > n THEN 0 ELSE n - 1 + 1
        BY FS_Interval
    <3>4. QED
        BY <3>1, <3>2, <3>3
  <2>2. CASE Len(s) = 0
      BY <1>1, <1>2, <2>1, <2>2
  <2>3. CASE Len(s) # 0
    <3>1. Len(s) \in S
        BY <1>1, <1>3, <2>3
    <3>2. QED
        BY <1>1, <2>1, <3>1
  <2>4. QED
      BY <2>2, <2>3
<1>4. CASE S # 1 .. Len(s)
  <2>1. PICK i \in (1 .. Len(s)) \ S : \A j \in (1 .. Len(s)) \ S : i <= j
    <3>1. (1 .. Len(s)) \ S # {} /\ (1 .. Len(s)) \ S \subseteq Nat
        BY <1>4
    <3> HIDE DEF S
    <3>2. QED
        BY <3>1, Least
  <2>2. \A j \in S : j < i
    <3> SUFFICES ASSUME NEW j \in S, i <= j
                 PROVE  FALSE
        BY <1>1, <2>1
    <3>1. j \in 1 .. Len(s) /\ i \in 1 .. j
        BY <1>1, <2>1
    <3>2. P(i) \in Nat /\ P(j) \in Nat /\ P(i) <= P(j)
        BY <3>1, Prefixes
    <3>3. P(j) <= x
        OBVIOUS
    <3>4. i \in S
      <4> HIDE DEF P
      <4>1. P(i) <= x
          BY <3>2, <3>3
      <4>2. QED
          BY <2>1, <4>1
    <3>5. QED
        BY <2>1, <3>4
  <2>3. S = 1 .. i - 1
    <3>1. \A j \in 1 .. i - 1 : j \in S
        BY <1>1, <2>1
    <3>2. S \subseteq 1 .. i - 1
        BY <1>1, <2>1, <2>2
    <3>3. QED
        BY <3>1, <3>2
  <2>4. k = i - 1
    <3>1. k = Cardinality(1 .. i - 1)
        BY <2>3
    <3>2. QED
        BY <2>1, <3>1, FS_Interval
  <2>5. P(k) <= x
    <3>1. CASE i = 1
        BY <1>2, <2>4, <3>1
    <3>2. CASE i # 1
      <4>1. i - 1 \in S
          BY <1>1, <2>1, <2>3, <3>2
      <4>2. QED
          BY <2>4, <4>1
    <3>3. QED
        BY <3>1, <3>2
  <2>6. x < P(k + 1)
    <3>1. k + 1 = i /\ i \in 1 .. Len(s) /\ i \notin S
        BY <1>1, <2>1, <2>4
    <3>2. P(i) \in Nat
        BY <1>1, <3>1, Prefixes
    <3>3. ~(P(i) <= x)
        BY <3>1
    <3> HIDE DEF P
    <3>4. QED
        BY <3>1, <3>2, <3>3
  <2>7. QED
      BY <1>1, <2>1, <2>4, <2>5, <2>6
<1>5. QED
    BY <1>3, <1>4

-------------------------------------------------------------------------------
(* The receive window.                                                     *)

\* No packet is empty.
Packet == Nat \ {0}

\* What the window of a connection needs, one that is not made yet included.
Window(c) == /\ rx[c] \in Seq(Packet) /\ offset[c] \in Nat /\ owed[c] \in Nat
             /\ open[c] => owed[c] = totLen[rx[c]]
             /\ rx[c] # <<>> => offset[c] < Head(rx[c])
             /\ c > made => rx[c] = <<>> /\ owed[c] = 0

Received == /\ rx = [c \in Conn |-> rx[c]]
            /\ offset = [c \in Conn |-> offset[c]]
            /\ owed = [c \in Conn |-> owed[c]]

WindowInv == Received /\ \A c \in Conn : Window(c)

LEMMA EmptyChain == <<>> \in Seq(Packet) /\ <<>> \in Chains /\ totLen[<<>>] = 0
<1>1. <<>> \in Seq(Packet) /\ <<>> \in Chains
    BY EmptySeq DEF Chains
<1>2. QED
    BY <1>1, TotLenIs

LEMMA PacketsAreChains == \A s \in Seq(Packet) : s \in Chains
  BY SeqMonotonic DEF Packet, Chains

\* A connection that a step leaves alone, or closes.
LEMMA WindowStays ==
    ASSUME CountInv, WindowInv, NEW c \in Conn, made' \in Nat, made <= made',
           rx'[c] = rx[c], offset'[c] = offset[c], owed'[c] = owed[c] \/ (owed'[c] = 0 /\ ~open'[c]),
           open'[c] => open[c]
    PROVE  Window(c)'
  BY DEF WindowInv, Window, CountInv, CountTypes, Conn

LEMMA WindowOfNone ==
    ASSUME NEW c \in Conn, rx'[c] = <<>>, offset'[c] = 0, owed'[c] = 0
    PROVE  Window(c)'
  BY EmptyChain DEF Window

LEMMA WindowUntouched ==
    ASSUME CountInv, WindowInv, UNCHANGED <<made, open, received>>
    PROVE  WindowInv'
<1>1. UNCHANGED <<rx, offset, owed>>
    BY DEF received
<1>2. made \in Nat /\ made' \in Nat /\ made <= made'
    BY DEF CountInv, CountTypes
<1>3. \A c \in Conn : Window(c)'
    BY <1>1, <1>2, WindowStays
<1>4. Received'
    BY <1>1 DEF WindowInv, Received
<1>5. QED
    BY <1>3, <1>4 DEF WindowInv

LEMMA DeleteWindow ==
    ASSUME CountInv, WindowInv, NEW gone, Delete(gone), UNCHANGED made
    PROVE  WindowInv'
<1>1. /\ rx' = [c \in Conn |-> IF c \in gone THEN <<>> ELSE rx[c]]
      /\ offset' = [c \in Conn |-> IF c \in gone THEN 0 ELSE offset[c]]
      /\ owed' = [c \in Conn |-> IF c \in gone THEN 0 ELSE owed[c]]
      /\ open' = [c \in Conn |-> open[c] /\ c \notin gone]
    BY DEF Delete
<1>2. made \in Nat /\ made' \in Nat /\ made <= made'
    BY DEF CountInv, CountTypes
<1>3. \A c \in Conn : Window(c)'
    BY <1>1, <1>2, WindowStays, WindowOfNone
<1>4. Received'
    BY <1>1 DEF Received
<1>5. QED
    BY <1>3, <1>4 DEF WindowInv

LEMMA CreateWindow ==
    ASSUME CountInv, WindowInv, NEW c \in Conn, Create(c), UNCHANGED received
    PROVE  WindowInv'
<1>1. /\ c = made + 1 /\ made' = c /\ open' = [open EXCEPT ![c] = TRUE]
      /\ UNCHANGED <<rx, offset, owed>>
    BY DEF Create, received
<1>2. made \in Nat /\ made' \in Nat /\ made <= made' /\ open \in [Conn -> BOOLEAN]
    BY <1>1 DEF CountInv, CountTypes
<1>3. ASSUME NEW d \in Conn, d # c
      PROVE  Window(d)'
    BY <1>1, <1>2, <1>3, WindowStays
<1>4. Window(c)'
  <2>1. rx[c] = <<>> /\ owed[c] = 0 /\ offset[c] \in Nat
      BY <1>1, <1>2 DEF WindowInv, Window, Conn
  <2>2. QED
      BY <1>1, <1>2, <2>1, EmptyChain DEF Window
<1>5. Received'
    BY <1>1 DEF WindowInv, Received
<1>6. QED
    BY <1>3, <1>4, <1>5 DEF WindowInv

LEMMA PcbGoneWindow ==
    ASSUME CountInv, WindowInv, NEW c \in Conn, PcbGone(c)
    PROVE  WindowInv'
<1>1. /\ open' = [open EXCEPT ![c] = FALSE] /\ owed' = [owed EXCEPT ![c] = 0]
      /\ UNCHANGED <<made, rx, offset>>
    BY DEF PcbGone, counts
<1>2. made \in Nat /\ made' \in Nat /\ made <= made' /\ open \in [Conn -> BOOLEAN]
    BY <1>1 DEF CountInv, CountTypes
<1>3. owed = [d \in Conn |-> owed[d]]
    BY DEF WindowInv, Received
<1>4. owed' = [d \in Conn |-> IF d = c THEN 0 ELSE owed[d]]
    BY <1>1, <1>3
<1>5. \A d \in Conn : Window(d)'
    BY <1>1, <1>2, <1>4, WindowStays
<1>6. Received'
    BY <1>1, <1>4 DEF WindowInv, Received
<1>7. QED
    BY <1>5, <1>6 DEF WindowInv

\* _consume() frees the packets that have been read to their end.
LEMMA ConsumeWindow ==
    ASSUME CountInv, WindowInv, NEW c \in Conn, NEW n \in Nat \ {0},
           n <= totLen[rx[c]] - offset[c], Consume(c, n), UNCHANGED <<made, open>>
    PROVE  WindowInv'
<1> DEFINE s == rx[c]
           k == Emptied(c, n)
           bytes == totLen[SubSeq(s, 1, k)]
           rest == SubSeq(s, k + 1, Len(s))
<1>1. /\ rx' = [rx EXCEPT ![c] = rest]
      /\ offset' = [offset EXCEPT ![c] = offset[c] + n - bytes]
      /\ owed' = [owed EXCEPT ![c] = IF open[c] THEN owed[c] - bytes ELSE owed[c]]
    BY DEF Consume
<1>2. /\ s \in Seq(Packet) /\ s \in Chains /\ offset[c] \in Nat /\ owed[c] \in Nat
      /\ open[c] => owed[c] = totLen[s]
      /\ c > made => s = <<>>
    BY PacketsAreChains DEF WindowInv, Window
<1>3. PICK x \in Nat : x = offset[c] + n
    BY <1>2
<1>4. k = Cardinality({j \in 1 .. Len(s) : totLen[SubSeq(s, 1, j)] <= x})
    BY <1>3 DEF Emptied
<1> HIDE DEF s, k
<1>5. /\ k \in 0 .. Len(s) /\ bytes <= x
      /\ k < Len(s) => x < totLen[SubSeq(s, 1, k + 1)]
    BY <1>2, <1>4, Whole
<1>6. /\ bytes \in Nat /\ rest \in Chains /\ totLen[rest] \in Nat
      /\ totLen[s] = bytes + totLen[rest]
      /\ k < Len(s) => /\ Head(rest) = s[k + 1]
                       /\ totLen[SubSeq(s, 1, k + 1)] = bytes + s[k + 1]
      /\ k = Len(s) => rest = <<>>
    BY <1>2, <1>5, Split, TotLenConcat
<1>7. Len(s) \in Nat /\ \A i \in 1 .. Len(s) : s[i] \in Packet
    BY <1>2, LenProperties, ElementOfSeq
<1>8. rest \in Seq(Packet)
    BY <1>5, <1>7, SubSeqProperties
<1> HIDE DEF bytes, rest
<1>9. rest # <<>> => x - bytes < Head(rest)
  <2> SUFFICES ASSUME rest # <<>>
               PROVE  x - bytes < Head(rest)
      OBVIOUS
  <2>1. k < Len(s)
      BY <1>5, <1>6, <1>7
  <2>2. s[k + 1] \in Nat
      BY <1>5, <1>7, <2>1 DEF Packet
  <2>3. SubSeq(s, 1, k + 1) \in Chains /\ totLen[SubSeq(s, 1, k + 1)] = bytes + s[k + 1]
            /\ Head(rest) = s[k + 1] /\ x < totLen[SubSeq(s, 1, k + 1)]
    <3>1. k + 1 \in 0 .. Len(s)
        BY <1>5, <1>7, <2>1
    <3>2. QED
        BY <1>2, <1>5, <1>6, <2>1, <3>1, Split
  <2>4. QED
      BY <1>6, <2>2, <2>3
<1>10. s # <<>>
  <2>1. s = <<>> => totLen[s] = 0
      BY EmptyChain
  <2>2. n <= totLen[s] - offset[c]
      BY DEF s
  <2>3. QED
      BY <1>2, <2>1, <2>2
<1>11. /\ made \in Nat /\ made' = made /\ open' = open /\ c \in Nat
    BY DEF CountInv, CountTypes, Conn
<1>12. /\ rx = [d \in Conn |-> rx[d]] /\ offset = [d \in Conn |-> offset[d]]
       /\ owed = [d \in Conn |-> owed[d]]
    BY DEF WindowInv, Received
<1>13. PICK off \in Nat, due \in Nat : /\ off = offset[c] + n - bytes
                                      /\ due = IF open[c] THEN owed[c] - bytes ELSE owed[c]
  <2>1. offset[c] + n - bytes \in Nat
      BY <1>2, <1>3, <1>5, <1>6
  <2>2. (IF open[c] THEN owed[c] - bytes ELSE owed[c]) \in Nat
      BY <1>2, <1>6
  <2>3. QED
      BY <2>1, <2>2
<1>14. /\ rx' = [d \in Conn |-> IF d = c THEN rest ELSE rx[d]]
       /\ offset' = [d \in Conn |-> IF d = c THEN off ELSE offset[d]]
       /\ owed' = [d \in Conn |-> IF d = c THEN due ELSE owed[d]]
    BY <1>1, <1>12, <1>13
<1>15. ASSUME NEW d \in Conn, d # c
       PROVE  Window(d)'
    BY <1>11, <1>14, <1>15, WindowStays
<1>16. Window(c)'
  <2>1. rx'[c] = rest /\ offset'[c] = off /\ owed'[c] = due
      BY <1>14
  <2>2. open[c] => due = totLen[rest]
      BY <1>2, <1>6, <1>13
  <2>3. rest # <<>> => off < Head(rest)
    <3>1. off = x - bytes
        BY <1>2, <1>3, <1>6, <1>13
    <3>2. QED
        BY <1>9, <3>1
  <2>4. ~(c > made)
      BY <1>2, <1>10
  <2>5. QED
      BY <1>8, <1>11, <2>1, <2>2, <2>3, <2>4 DEF Window
<1>17. Received'
    BY <1>14 DEF Received
<1>18. QED
    BY <1>15, <1>16, <1>17 DEF WindowInv

LEMMA ReadWindow ==
    ASSUME CountInv, WindowInv, NEW h \in Handles, NEW n \in 1 .. TcpWnd, Read(h, n)
    PROVE  WindowInv'
<1>1. n \in Nat \ {0}
    BY TcpAssumption DEF TcpAssumption
<1>2. client[h] \in 0 .. MaxConn
    BY DEF CountInv, CountTypes
<1>3. /\ n <= Size(client[h]) /\ Consume(client[h], n) /\ UNCHANGED <<made, open>>
    BY DEF Read, counts
<1>4. client[h] # None
    BY <1>1, <1>3 DEF Size
<1>5. client[h] \in Conn
    BY <1>2, <1>4, TcpAssumption DEF Conn, None, TcpAssumption
<1>6. n <= totLen[rx[client[h]]] - offset[client[h]]
    BY <1>3, <1>4 DEF Size
<1>7. QED
    BY <1>1, <1>3, <1>5, <1>6, ConsumeWindow

\* flush() gives back the whole chain.
LEMMA FlushWindow ==
    ASSUME CountInv, WindowInv, NEW h \in Handles, Flush(h)
    PROVE  WindowInv'
<1>1. PICK c \in Conn : c = client[h]
    BY TcpAssumption DEF Flush, CountInv, CountTypes, Conn, None, TcpAssumption
<1>2. /\ rx' = [rx EXCEPT ![c] = <<>>] /\ offset' = [offset EXCEPT ![c] = 0]
      /\ owed' = [owed EXCEPT ![c] = IF open[c] THEN owed[c] - totLen[rx[c]] ELSE owed[c]]
      /\ UNCHANGED <<made, open>>
    BY <1>1 DEF Flush, Flushed, GivenBack, counts
<1>3. /\ owed[c] \in Nat
      /\ open[c] => owed[c] = totLen[rx[c]]
      /\ c > made => owed[c] = 0
      /\ rx = [d \in Conn |-> rx[d]] /\ offset = [d \in Conn |-> offset[d]]
      /\ owed = [d \in Conn |-> owed[d]]
    BY DEF WindowInv, Window, Received
<1>4. PICK due \in Nat : /\ due = IF open[c] THEN owed[c] - totLen[rx[c]] ELSE owed[c]
                         /\ open[c] => due = 0
  <2>1. CASE open[c]
      BY <1>3, <2>1
  <2>2. CASE ~open[c]
      BY <1>3, <2>2
  <2>3. QED
      BY <2>1, <2>2
<1>5. /\ rx' = [d \in Conn |-> IF d = c THEN <<>> ELSE rx[d]]
      /\ offset' = [d \in Conn |-> IF d = c THEN 0 ELSE offset[d]]
      /\ owed' = [d \in Conn |-> IF d = c THEN due ELSE owed[d]]
    BY <1>2, <1>3, <1>4
<1>6. made \in Nat /\ made' = made /\ open' = open /\ c \in Nat
    BY <1>2 DEF CountInv, CountTypes, Conn
<1>7. ASSUME NEW d \in Conn, d # c
      PROVE  Window(d)'
    BY <1>5, <1>6, <1>7, WindowStays
<1>8. Window(c)'
  <2>1. rx'[c] = <<>> /\ offset'[c] = 0 /\ owed'[c] = due
      BY <1>5
  <2>2. c > made => due = 0
    <3>1. ASSUME c > made
          PROVE  ~open[c]
        BY <1>6, <3>1 DEF CountInv, ContextsAreCounted, OnlyLivingContextsAreUsed, CountTypes
    <3>2. QED
        BY <1>3, <1>4, <3>1
  <2>3. QED
      BY <1>4, <1>6, <2>1, <2>2, EmptyChain DEF Window
<1>9. Received'
    BY <1>5 DEF Received
<1>10. QED
    BY <1>7, <1>8, <1>9 DEF WindowInv

\* A packet comes in.
LEMMA ReceiveWindow ==
    ASSUME CountInv, WindowInv, NEW c \in Conn, NEW n \in 1 .. TcpWnd, Receive(c, n)
    PROVE  WindowInv'
<1>1. n \in Nat /\ n \in Packet /\ n > 0
    BY TcpAssumption DEF Packet, TcpAssumption
<1>2. /\ open[c] /\ UNCHANGED <<made, open>>
      /\ owed' = [owed EXCEPT ![c] = owed[c] + n]
      /\ offset' = [offset EXCEPT ![c] = IF rx[c] = <<>> THEN 0 ELSE offset[c]]
      /\ rx' = [rx EXCEPT ![c] = Append(rx[c], n)]
    BY DEF Receive, counts
<1>3. /\ rx[c] \in Seq(Packet) /\ rx[c] \in Chains /\ offset[c] \in Nat /\ owed[c] \in Nat
      /\ owed[c] = totLen[rx[c]]
      /\ rx[c] # <<>> => offset[c] < Head(rx[c])
    BY <1>2, PacketsAreChains DEF WindowInv, Window
<1>4. PICK s \in Seq(Packet), off \in Nat, due \in Nat :
          /\ s = Append(rx[c], n) /\ due = owed[c] + n
          /\ off = IF rx[c] = <<>> THEN 0 ELSE offset[c]
  <2>1. Append(rx[c], n) \in Seq(Packet)
      BY <1>1, <1>3, AppendProperties
  <2>2. owed[c] + n \in Nat /\ (IF rx[c] = <<>> THEN 0 ELSE offset[c]) \in Nat
      BY <1>1, <1>3
  <2>3. QED
      BY <2>1, <2>2
<1>5. totLen[s] = due
    BY <1>1, <1>3, <1>4, TotLenAppend
<1>6. off < Head(s)
  <2>1. Head(s) = IF rx[c] = <<>> THEN n ELSE Head(rx[c])
      BY <1>3, <1>4, HeadTailAppend
  <2>2. QED
      BY <1>1, <1>3, <1>4, <2>1
<1>7. /\ rx = [d \in Conn |-> rx[d]] /\ offset = [d \in Conn |-> offset[d]]
      /\ owed = [d \in Conn |-> owed[d]]
    BY DEF WindowInv, Received
<1>8. /\ rx' = [d \in Conn |-> IF d = c THEN s ELSE rx[d]]
      /\ offset' = [d \in Conn |-> IF d = c THEN off ELSE offset[d]]
      /\ owed' = [d \in Conn |-> IF d = c THEN due ELSE owed[d]]
    BY <1>2, <1>4, <1>7
<1>9. made \in Nat /\ made' = made /\ open' = open /\ c \in Nat
    BY <1>2 DEF CountInv, CountTypes, Conn
<1>10. ASSUME NEW d \in Conn, d # c
       PROVE  Window(d)'
    BY <1>8, <1>9, <1>10, WindowStays
<1>11. Window(c)'
  <2>1. rx'[c] = s /\ offset'[c] = off /\ owed'[c] = due
      BY <1>8
  <2>2. ~(c > made)
      BY <1>2, <1>9 DEF CountInv, ContextsAreCounted, OnlyLivingContextsAreUsed, CountTypes
  <2>3. QED
      BY <1>5, <1>6, <1>9, <2>1, <2>2 DEF Window
<1>12. Received'
    BY <1>8 DEF Received
<1>13. QED
    BY <1>10, <1>11, <1>12 DEF WindowInv

LEMMA WebWindow ==
    ASSUME CountInv, WindowInv, WebStep
    PROVE  WindowInv'
<1>1. WebHandles \subseteq Handles
    BY DEF WebHandles
<1>2. CASE ServerBegin \/ ServerStop
    BY <1>2, WindowUntouched DEF ServerBegin, ServerStop, counts
<1>3. ASSUME NEW h \in WebHandles, Available(h) \/ WriteFails(h) \/ \E n \in 1 .. MaxWrite : Write(h, n)
      PROVE  WindowInv'
    BY <1>3, WindowUntouched DEF Available, WriteFails, Write, counts
<1>4. ASSUME NEW h \in WebHandles, Stop(h) \/ \E other \in WebHandles : Assign(h, other)
      PROVE  WindowInv'
    BY <1>4, DeleteWindow DEF Stop, LetGo, Assign
<1>5. ASSUME NEW h \in WebHandles, NEW n \in 1 .. TcpWnd, Read(h, n)
      PROVE  WindowInv'
    BY <1>1, <1>5, ReadWindow
<1>6. ASSUME NEW h \in WebHandles, Flush(h)
      PROVE  WindowInv'
    BY <1>1, <1>6, FlushWindow
<1>7. QED
    BY <1>2, <1>3, <1>4, <1>5, <1>6 DEF WebStep

LEMMA FhemWindow ==
    ASSUME CountInv, WindowInv, FhemStep
    PROVE  WindowInv'
<1>1. Fhem \in Handles
    BY TcpAssumption DEF TcpAssumption
<1>2. CASE Connect \/ ConnectReturns \/ AwaitReply \/ ReplyEnds
    BY <1>2, WindowUntouched DEF Connect, ConnectReturns, AwaitReply, ReplyEnds, counts
<1>3. CASE SendRequest
    BY <1>3, WindowUntouched DEF SendRequest, Write, WriteFails, counts
<1>4. CASE ReadReply
    BY <1>1, <1>4, ReadWindow DEF ReadReply
<1>5. CASE CloseRequest
    BY <1>5, DeleteWindow DEF CloseRequest, LetGo
<1>6. QED
    BY <1>2, <1>3, <1>4, <1>5 DEF FhemStep

LEMMA LwipWindow ==
    ASSUME CountInv, WindowInv, LwipStep
    PROVE  WindowInv'
<1>1. ASSUME NEW c \in Conn, Accept(c) \/ Connected(c)
      PROVE  WindowInv'
    BY <1>1, CreateWindow DEF Accept, Connected
<1>2. ASSUME NEW c \in Conn, PeerCloses(c) \/ Error(c)
      PROVE  WindowInv'
    BY <1>2, PcbGoneWindow DEF PeerCloses, Error
<1>3. ASSUME NEW c \in Conn, NEW n \in 1 .. TcpWnd, Receive(c, n)
      PROVE  WindowInv'
    BY <1>3, ReceiveWindow
<1>4. ASSUME NEW c \in Conn, NEW n, Acknowledge(c, n)
      PROVE  WindowInv'
    BY <1>4, WindowUntouched DEF Acknowledge, counts
<1>5. CASE Refused
    BY <1>5, WindowUntouched DEF Refused, counts
<1>6. CASE StopAll
  <2>1. PICK gone : Delete(gone) /\ UNCHANGED made
      BY <1>6 DEF StopAll
  <2>2. QED
      BY <2>1, DeleteWindow
<1>7. QED
    BY <1>1, <1>2, <1>3, <1>4, <1>5, <1>6 DEF LwipStep

LEMMA WindowStep == CountInv /\ WindowInv /\ [Next]_vars => WindowInv'
<1> SUFFICES ASSUME CountInv, WindowInv, [Next]_vars
             PROVE  WindowInv'
    OBVIOUS
<1>1. CASE WriteReturns
    BY <1>1, WindowUntouched DEF WriteReturns, counts
<1>2. CASE UNCHANGED vars
    BY <1>2, WindowUntouched DEF vars, counts
<1>3. QED
    BY <1>1, <1>2, WebWindow, FhemWindow, LwipWindow DEF Next

\* While a connection is open, lwIP's receive window is smaller by exactly the
\* packets in the chain, and no chain has been read to the end of its first
\* packet (WindowIsTheChain), for any number of connections and packets of any
\* lengths, in whatever parts the sketch reads them and whenever it flushes
\* (ClientContext.h:153-212, 257-276).
THEOREM WindowStaysTheChain == Spec => []WindowIsTheChain
<1>1. Init => StrongInv /\ WindowInv
  <2>1. Init => WindowInv
      BY EmptyChain DEF Init, WindowInv, Received, Window, NoBytes
  <2>2. QED
      BY <2>1, CountInit DEF Init, StrongInv, Dialing
<1>2. StrongInv /\ WindowInv /\ [Next]_vars => (StrongInv /\ WindowInv)'
    BY CountStep, WindowStep DEF StrongInv
<1>3. WindowInv => WindowIsTheChain
    BY DEF WindowInv, Window, WindowIsTheChain
<1>4. QED
    BY <1>1, <1>2, <1>3, PTL DEF Spec
===============================================================================
