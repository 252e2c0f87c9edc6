------------------------------ MODULE TlsClients ------------------------------
(***************************************************************************)
(* The handles of TLS connections (WiFiClientSecure) and what they share:  *)
(* the counted contexts of their sessions (SSLContext), the one SSL_CTX    *)
(* behind all sessions, the connection that axTLS reads from and writes to *)
(* (s_io_ctx), and the default certificate and private key.                *)
(*                                                                         *)
(* The n-th TCP connection and the n-th SSLContext have the number n; the  *)
(* handles share connections as TcpConnections says.                       *)
(***************************************************************************)
EXTENDS Integers, FiniteSets

CONSTANTS Handles,      \* objects of class WiFiClientSecure
          MaxObjects,   \* bounds the constructions of a behaviour
          MaxConnects,  \* bounds its TCP connections
          MaxRefs,      \* bounds the references that assignments add to a context
          Credentials,  \* "certificate", "key"
          MaxRecord     \* bounds the bytes of a record

ASSUME TlsAssumption == /\ IsFiniteSet(Handles)
                        /\ {MaxObjects, MaxConnects, MaxRefs} \subseteq Nat
                        /\ Credentials \subseteq {"certificate", "key"}
                        /\ MaxRecord \in Nat \ {0}

Contexts == 1 .. MaxConnects
NoContext == 0

VARIABLES
    \* the handles that exist
    exists,
    client,     \* _client
    ssl,        \* _ssl
    \* SSLContext
    pool,       \* see PoolType
    session,    \* _ssl: "up", or "gone" for a null pointer
    unread,     \* _available
    \* default_certificate, default_private_key and their flags
    pointer,    \* "null", "flash", "heap", or "freed"
    length,     \* whether default_..._len is not 0
    dynamic,    \* default_..._dynamic
    keyUsers,   \* s_pk_refcnt
    \* bounds and environment
    objects, connects,
    closed      \* the connections that the peers have closed

handles     == <<exists, client, ssl>>
contexts    == <<pool, session, unread>>
credentials == <<pointer, length, dynamic>>
tlsVars     == <<handles, contexts, credentials, keyUsers, objects, connects, closed>>

\* _refcnt of each context, 0 if it does not exist; _ssl_ctx_refcnt; whether
\* _ssl_ctx is allocated; s_io_ctx.
PoolType == [refcnt : [Contexts -> Nat], count : Nat, shared : BOOLEAN,
             io : Contexts \cup {NoContext}]

TlsInit ==
    /\ exists = {}
    /\ client = [h \in Handles |-> NoContext]
    /\ ssl = [h \in Handles |-> NoContext]
    /\ pool = [refcnt |-> [k \in Contexts |-> 0], count |-> 0, shared |-> FALSE,
                io |-> NoContext]
    /\ session = [k \in Contexts |-> "gone"]
    /\ unread = [k \in Contexts |-> 0]
    /\ pointer = [c \in Credentials |-> "null"]
    /\ length = [c \in Credentials |-> FALSE]
    /\ dynamic = [c \in Credentials |-> FALSE]
    /\ keyUsers = 0
    /\ objects = 0
    /\ connects = 0
    /\ closed = {}

-------------------------------------------------------------------------------
(* SSLContext.                                                             *)

Ref(p, k) == IF k = NoContext THEN p ELSE [p EXCEPT !.refcnt[k] = @ + 1]

\* Slip: deleted one reference too early.
UnrefEarly(p, k) ==
    IF k = NoContext THEN p
    ELSE IF p.refcnt[k] > 2 THEN [p EXCEPT !.refcnt[k] = @ - 1]
    ELSE [refcnt |-> [p.refcnt EXCEPT ![k] = 0], count |-> p.count - 1,
          shared |-> p.shared /\ p.count # 1, io |-> NoContext]

\* unref(); the last one deletes the context, and the last context SSL_CTX. A
\* context that goes takes s_io_ctx with it, whosever it is.
Unref(p, k) == IF k = NoContext THEN p
               ELSE IF p.refcnt[k] # 1 THEN [p EXCEPT !.refcnt[k] = @ - 1]
               ELSE [refcnt |-> [p.refcnt EXCEPT ![k] = 0], count |-> p.count - 1,
                     shared |-> p.shared /\ p.count # 1, io |-> NoContext]

\* The constructor, ref() and the first line of connect().
NewContext(p, k) == [refcnt |-> [p.refcnt EXCEPT ![k] = 1], count |-> p.count + 1,
                     shared |-> p.shared \/ p.count = 0, io |-> k]

\* Slip: stop() of a session leaves its connection to axTLS.
LeftAttached(p) == p

\* stop()
Detached(p) == [p EXCEPT !.io = NoContext]

\* ax_port_read() finds a connection, if only one that has been freed.
CanRead == pool.io # NoContext /\ pool.io \notin closed

-------------------------------------------------------------------------------
(* The certificate and the key.                                            *)

\* clear_certificate() and clear_private_key(), for those in which.
Clear(which) == /\ pointer' = [c \in Credentials |-> IF c \in which THEN "null" ELSE pointer[c]]
                /\ length' = [c \in Credentials |-> c \notin which /\ length[c]]
                /\ dynamic' = [c \in Credentials |->
                                 dynamic[c] /\ (c \in which => pointer[c] = "null")]

\* setCertificate(), setPrivateKey()
SetCredential(c) == /\ pointer' = [pointer EXCEPT ![c] = "flash"]
                    /\ length' = [length EXCEPT ![c] = TRUE]
                    /\ dynamic' = [dynamic EXCEPT ![c] = @ /\ pointer[c] = "null"]
                    /\ UNCHANGED <<handles, contexts, keyUsers, objects, connects, closed>>

\* Slip: the flag is set before the stream has been read.
LoadCredentialDynamicFirst(c) ==
    /\ \E complete \in BOOLEAN :
         /\ pointer' = [pointer EXCEPT ![c] = IF complete THEN "heap" ELSE "freed"]
         /\ length' = [length EXCEPT ![c] = complete]
         /\ dynamic' = [dynamic EXCEPT ![c] = TRUE]
    /\ UNCHANGED <<handles, contexts, keyUsers, objects, connects, closed>>

\* loadCertificate(), loadPrivateKey(): the stream may end too early. Then the
\* buffer is freed and the pointer to it stays.
LoadCredential(c) ==
    /\ \E complete \in BOOLEAN :
         /\ pointer' = [pointer EXCEPT ![c] = IF complete THEN "heap" ELSE "freed"]
         /\ length' = [length EXCEPT ![c] = complete]
         /\ dynamic' = [dynamic EXCEPT ![c] = complete \/ (@ /\ pointer[c] = "null")]
    /\ UNCHANGED <<handles, contexts, keyUsers, objects, connects, closed>>

-------------------------------------------------------------------------------
(* WiFiClientSecure.                                                       *)

Create(h) == /\ h \notin exists
             /\ objects < MaxObjects
             /\ objects' = objects + 1
             /\ exists' = exists \cup {h}

Construct(h) == /\ Create(h)
                /\ keyUsers' = keyUsers + 1
                /\ UNCHANGED <<client, ssl, contexts, credentials, connects, closed>>

\* The copy is not counted in s_pk_refcnt.
Copy(h, other) == /\ Create(h)
                  /\ other \in exists
                  /\ client' = [client EXCEPT ![h] = client[other]]
                  /\ ssl' = [ssl EXCEPT ![h] = ssl[other]]
                  /\ pool' = Ref(pool, ssl[other])
                  /\ UNCHANGED <<session, unread, credentials, keyUsers, connects, closed>>

\* Slip: the new context is not counted.
AssignUncounted(h, rhs) ==
    /\ {h, rhs} \subseteq exists
    /\ client' = [client EXCEPT ![h] = client[rhs]]
    /\ ssl' = [ssl EXCEPT ![h] = ssl[rhs]]
    /\ UNCHANGED <<exists, contexts, credentials, keyUsers, objects, connects, closed>>

\* operator=: the reference to the old context is never given back.
Assign(h, rhs) == /\ {h, rhs} \subseteq exists
                  /\ ssl[rhs] # NoContext => pool.refcnt[ssl[rhs]] < MaxRefs
                  /\ client' = [client EXCEPT ![h] = client[rhs]]
                  /\ ssl' = [ssl EXCEPT ![h] = ssl[rhs]]
                  /\ pool' = Ref(pool, ssl[rhs])
                  /\ UNCHANGED <<exists, session, unread, credentials, keyUsers, objects, connects,
                                 closed>>

Destroy(h) == /\ h \in exists
              /\ exists' = exists \ {h}
              /\ client' = [client EXCEPT ![h] = NoContext]
              /\ ssl' = [ssl EXCEPT ![h] = NoContext]
              /\ pool' = Unref(pool, ssl[h])
              /\ keyUsers' = keyUsers - 1
              /\ IF keyUsers = 1 THEN Clear(Credentials) ELSE UNCHANGED credentials
              /\ UNCHANGED <<session, unread, objects, connects, closed>>

\* WiFiClient::connect() stops the connection that is open.
Stopped(h) == IF client[h] # NoContext /\ ssl[h] # NoContext THEN Detached(pool) ELSE pool

ConnectFails(h) == /\ h \in exists
                   /\ client' = [client EXCEPT ![h] = NoContext]
                   /\ pool' = Stopped(h)
                   /\ UNCHANGED <<exists, ssl, session, unread, credentials, keyUsers, objects,
                                  connects, closed>>

\* connect() and _connectSSL(): without a handshake the TCP connection stays.
Connect(h) ==
    /\ h \in exists
    /\ connects < MaxConnects
    /\ connects' = connects + 1
    /\ client' = [client EXCEPT ![h] = connects']
    /\ LET fresh == NewContext(Unref(Stopped(h), ssl[h]), connects')
       IN  \/ /\ pool' = fresh
              /\ ssl' = [ssl EXCEPT ![h] = connects']
              /\ session' = [session EXCEPT ![connects'] = "up"]
           \/ /\ pool' = Unref(fresh, connects')
              /\ ssl' = [ssl EXCEPT ![h] = NoContext]
              /\ UNCHANGED session
    /\ UNCHANGED <<exists, unread, credentials, keyUsers, objects, closed>>

\* write(): an error of ssl_write() ends the session for this handle.
Write(h) == /\ h \in exists
            /\ ssl[h] # NoContext
            /\ session[ssl[h]] = "up"
            /\ ssl' = [ssl EXCEPT ![h] = NoContext]
            /\ pool' = Unref(pool, ssl[h])
            /\ UNCHANGED <<exists, client, session, unread, credentials, keyUsers, objects, connects,
                           closed>>

\* _readAll() of available(), connected(), peek() and read(): a record, or an
\* error that frees the session.
ReadAll(k) == /\ unread[k] = 0
              /\ session[k] = "up"
              /\ CanRead
              /\ \/ /\ \E n \in 1 .. MaxRecord : unread' = [unread EXCEPT ![k] = n]
                    /\ UNCHANGED session
                 \/ /\ session' = [session EXCEPT ![k] = "gone"]
                    /\ UNCHANGED unread

Available(h) == /\ h \in exists
                /\ ssl[h] # NoContext
                /\ ReadAll(ssl[h])
                /\ UNCHANGED <<handles, pool, credentials, keyUsers, objects, connects, closed>>

\* read() of bytes that _readAll() has got.
Read(h) == /\ h \in exists
           /\ ssl[h] # NoContext
           /\ \E n \in 1 .. unread[ssl[h]] : unread' = [unread EXCEPT ![ssl[h]] = @ - n]
           /\ UNCHANGED <<handles, pool, session, credentials, keyUsers, objects, connects, closed>>

\* stop(): the session stays with the handle.
Stop(h) == /\ h \in exists
           /\ client' = [client EXCEPT ![h] = NoContext]
           /\ pool' = IF ssl[h] = NoContext THEN pool ELSE Detached(pool)
           /\ UNCHANGED <<exists, ssl, session, unread, credentials, keyUsers, objects, connects,
                          closed>>

PeerCloses == /\ \E k \in 1 .. connects : closed' = closed \cup {k}
              /\ UNCHANGED <<handles, contexts, credentials, keyUsers, objects, connects>>

TlsNext ==
    \/ \E c \in Credentials : SetCredential(c) \/ LoadCredential(c)
    \/ \E h \in Handles : \/ Construct(h) \/ Destroy(h)
                          \/ ConnectFails(h) \/ Connect(h) \/ Stop(h)
                          \/ Write(h) \/ Available(h) \/ Read(h)
    \/ \E h, other \in Handles : Copy(h, other) \/ Assign(h, other)
    \/ PeerCloses

TlsSpec == TlsInit /\ [][TlsNext]_tlsVars

-------------------------------------------------------------------------------
(* Properties.                                                             *)

Holders(k) == Cardinality({h \in Handles : ssl[h] = k})

\* What a handle uses has not been deleted. It is counted at least as often as
\* it is held: operator= counts too often, which leaks.
SessionsAreHeld == \A k \in Contexts : Holders(k) <= pool.refcnt[k]

\* SSL_CTX is there as long as there is a context, and no longer.
OneSharedContext == /\ pool.count = Cardinality({k \in Contexts : pool.refcnt[k] > 0})
                    /\ pool.shared = (pool.count > 0)

\* A certificate or key on the heap is freed once, and one that has been freed
\* is not offered to axTLS, which goes by its length.
CredentialsAreOwned == \A c \in Credentials : /\ dynamic[c] = (pointer[c] = "heap")
                                              /\ length[c] => pointer[c] \in {"flash", "heap"}

\* No session is deleted while a handle holds it, SSL_CTX lives exactly as long
\* as there are contexts, and a certificate or key is freed once and not offered
\* afterwards, in every order of copies, assignments, connections that fail in
\* the middle, errors and ends (WiFiClientSecure.cpp:65-97, 221-289, 477-535).
\* This does not say that a handle keeps its credentials: a copy is not counted
\* (:235-242), so that the end of one clears them under the handles that are left.
OwnershipHolds == /\ pool \in PoolType
                  /\ SessionsAreHeld
                  /\ OneSharedContext
                  /\ CredentialsAreOwned

\* operator= has taken the last handle from the context, and it stays for ever.
Leaked(k) == pool.refcnt[k] > Holders(k)

\* The one s_io_ctx of all sessions is a connection that some handle still has:
\* connects that fail in the middle, stop(), copies, errors and ends take it away
\* before they let the connection go.  Only a context that operator= has leaked
\* (:244-251) leaves it behind; ax_port_read() then reads a connection that has
\* been freed (:537-538).
IoIsHeld == \/ pool.io \in {NoContext} \cup {client[h] : h \in exists}
            \/ Leaked(pool.io)
===============================================================================
