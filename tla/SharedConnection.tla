--------------------------- MODULE SharedConnection ---------------------------
(***************************************************************************)
(* What the handles of a TCP connection (WiFiClient) promise: they share   *)
(* the connection, it is freed when the last of them lets go, only then,   *)
(* and once; a freed connection is never held again.                       *)
(***************************************************************************)
CONSTANTS Conn,      \* connections
          Handles,   \* the objects that may hold one
          None       \* what a handle without a connection holds; no connection

VARIABLES holds,     \* what each handle holds
          waiting,   \* accepted connections that nobody has asked for
          freed

vars == <<holds, waiting, freed>>

Held == {holds[h] : h \in Handles} \ {None}

Init == /\ holds = [h \in Handles |-> None]
        /\ waiting = {}
        /\ freed = {}

Fresh(c) == c \in Conn /\ c \notin Held \cup waiting \cup freed

\* The handles now hold what next says.
Settle(next) == LET still == {next[h] : h \in Handles} IN
                  /\ holds' = next
                  /\ waiting' = waiting \ still
                  /\ freed' = freed \cup (Held \ still)

Arrive(c) == /\ Fresh(c)
             /\ waiting' = waiting \cup {c}
             /\ UNCHANGED <<holds, freed>>

Open(h, c) == /\ holds[h] = None
              /\ Fresh(c)
              /\ Settle([holds EXCEPT ![h] = c])

Give(h, c) == /\ c \in Held \cup waiting \cup {None}
              /\ Settle([holds EXCEPT ![h] = c])

LetGo == Settle([h \in Handles |-> None])

Next == \/ \E c \in Conn : Arrive(c)
        \/ \E h \in Handles, c \in Conn : Open(h, c)
        \/ \E h \in Handles, c \in Conn \cup {None} : Give(h, c)
        \/ LetGo

Spec == Init /\ [][Next]_vars
===============================================================================
