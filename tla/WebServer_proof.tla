---------------------------- MODULE WebServer_proof ----------------------------
(***************************************************************************)
(* The types of the web server; that a file called complete is the one     *)
(* that was sent; and that a request is handled with its own arguments,    *)
(* file and password.  For any requests, contents of files, boundary, size *)
(* of the buffer and number of requests, wherever the peer falls silent,   *)
(* closes or is lost, and whatever the flash takes of what is written.     *)
(*                                                                         *)
(* The argument: what is unread at each place of the parser is a part of   *)
(* what the peer sends there, possibly cut off at its end, and the bytes   *)
(* of a file do not contain the boundary before the file's end.            *)
(***************************************************************************)
EXTENDS WebServer, SequenceTheorems, TLAPS


-------------------------------------------------------------------------------
(* Sequences of tokens.                                                    *)

Word   == {"line", "junk", "auth", "type", "length", "blank", "plain", "boundary",
           "field", "text", "end", "file", "last", "b", "c"} \cup Bytes
Tokens == Seq(Word)

LEMMA Lengths ==
    /\ <<>> \in Tokens /\ Len(<<>>) = 0
    /\ \A s \in Tokens : Len(s) \in Nat /\ (s # <<>> <=> Len(s) > 0)
<1>1. \A s \in Tokens : Len(s) \in Nat
    BY LenProperties DEF Tokens
<1>2. /\ <<>> \in Tokens /\ Len(<<>>) = 0
      /\ \A s \in Tokens : s # <<>> => Len(s) \in Nat \ {0}
    BY EmptySeq DEF Tokens
<1>3. QED
    BY <1>1, <1>2

LEMMA Entries ==
    \A s \in Tokens : \A k \in 1 .. Len(s) : s[k] \in Word
    BY ElementOfSeq DEF Tokens

LEMMA ConcatType == \A s, u \in Tokens : s \o u \in Tokens
    BY ConcatProperties DEF Tokens

LEMMA Concat ==
    \A s, u, v \in Tokens : \A m, n \in Nat :
        m = Len(s) /\ n = Len(u) /\ v = s \o u =>
            /\ Len(v) = m + n
            /\ \A k \in 1 .. m : v[k] = s[k]
            /\ \A k \in 1 .. n : v[m + k] = u[k]
<1> SUFFICES ASSUME NEW s \in Tokens, NEW u \in Tokens, NEW v \in Tokens,
                    NEW m \in Nat, NEW n \in Nat,
                    m = Len(s), n = Len(u), v = s \o u
             PROVE  /\ Len(v) = m + n
                    /\ \A k \in 1 .. m : v[k] = s[k]
                    /\ \A k \in 1 .. n : v[m + k] = u[k]
    OBVIOUS
<1>1. m \in Nat /\ n \in Nat
    BY Lengths
<1>2. /\ s \o u \in Tokens /\ Len(s \o u) = m + n
      /\ \A i \in 1 .. m + n : (s \o u)[i] = IF i <= m THEN s[i] ELSE u[i - m]
  <2>1. /\ s \o u \in Tokens /\ Len(s \o u) = Len(s) + Len(u)
        /\ \A i \in 1 .. Len(s) + Len(u) :
               (s \o u)[i] = IF i <= Len(s) THEN s[i] ELSE u[i - Len(s)]
      BY ConcatProperties DEF Tokens
  <2>2. QED
      BY <2>1
<1>3. \A k \in 1 .. m : v[k] = s[k]
    BY <1>1, <1>2
<1>4. ASSUME NEW k \in 1 .. n PROVE v[m + k] = u[k]
  <2>1. m + k \in 1 .. m + n /\ ~(m + k <= m) /\ (m + k) - m = k
      BY <1>1
  <2>2. v[m + k] = IF m + k <= m THEN s[m + k] ELSE u[(m + k) - m]
      BY <1>2, <2>1
  <2>3. QED
      BY <2>1, <2>2
<1>5. QED
    BY <1>2, <1>3, <1>4

LEMMA Rest ==
    \A s \in Tokens : s # <<>> =>
        /\ Tail(s) \in Tokens /\ Len(Tail(s)) = Len(s) - 1 /\ Head(s) = s[1]
        /\ Head(s) \in Word
        /\ \A k \in 1 .. Len(s) - 1 : Tail(s)[k] = s[k + 1]
<1> SUFFICES ASSUME NEW s \in Tokens, s # <<>>
             PROVE  /\ Tail(s) \in Tokens /\ Len(Tail(s)) = Len(s) - 1 /\ Head(s) = s[1]
                    /\ Head(s) \in Word
                    /\ \A k \in 1 .. Len(s) - 1 : Tail(s)[k] = s[k + 1]
    OBVIOUS
<1>1. /\ Head(s) \in Word /\ Tail(s) \in Tokens /\ Len(Tail(s)) = Len(s) - 1
      /\ \A i \in 1 .. Len(Tail(s)) : Tail(s)[i] = s[i + 1]
    BY HeadTailProperties DEF Tokens
<1>2. Head(s) = s[1]
    OBVIOUS
<1>3. QED
    BY <1>1, <1>2

LEMMA Added ==
    \A s \in Tokens : \A e \in Word :
        /\ Append(s, e) \in Tokens /\ Len(Append(s, e)) = Len(s) + 1
        /\ \A k \in 1 .. Len(s) : Append(s, e)[k] = s[k]
        /\ Append(s, e)[Len(s) + 1] = e
<1> SUFFICES ASSUME NEW s \in Tokens, NEW e \in Word
             PROVE  /\ Append(s, e) \in Tokens /\ Len(Append(s, e)) = Len(s) + 1
                    /\ \A k \in 1 .. Len(s) : Append(s, e)[k] = s[k]
                    /\ Append(s, e)[Len(s) + 1] = e
    OBVIOUS
<1>1. /\ Append(s, e) \in Tokens /\ Len(Append(s, e)) = Len(s) + 1
      /\ \A i \in 1 .. Len(s) : Append(s, e)[i] = s[i]
      /\ Append(s, e)[Len(s) + 1] = e
    BY AppendProperties DEF Tokens
<1>2. QED
    BY <1>1

\* All but the first n, and the first n of a sequence.
LEMMA Suffix ==
    \A s \in Tokens : \A n \in 0 .. Len(s) :
        /\ SubSeq(s, n + 1, Len(s)) \in Tokens
        /\ Len(SubSeq(s, n + 1, Len(s))) = Len(s) - n
        /\ \A k \in 1 .. Len(s) - n : SubSeq(s, n + 1, Len(s))[k] = s[n + k]
<1> SUFFICES ASSUME NEW s \in Tokens, NEW n \in 0 .. Len(s)
             PROVE  /\ SubSeq(s, n + 1, Len(s)) \in Tokens
                    /\ Len(SubSeq(s, n + 1, Len(s))) = Len(s) - n
                    /\ \A k \in 1 .. Len(s) - n : SubSeq(s, n + 1, Len(s))[k] = s[n + k]
    OBVIOUS
<1>1. Len(s) \in Nat
    BY Lengths
<1> DEFINE a == n + 1
           b == Len(s)
<1>2. a \in Int /\ b \in Int /\ \A i \in a .. b : s[i] \in Word
    BY <1>1, Entries
<1>3. /\ SubSeq(s, a, b) \in Seq(Word)
      /\ Len(SubSeq(s, a, b)) = IF a <= b THEN b - a + 1 ELSE 0
      /\ \A i \in 1 .. b - a + 1 : SubSeq(s, a, b)[i] = s[a + i - 1]
  <2> HIDE DEF a, b
  <2> QED
      BY <1>2, SubSeqProperties
<1> DEFINE v == SubSeq(s, a, b)
<1>4. Len(v) = Len(s) - n
    BY <1>1, <1>3
<1>5. ASSUME NEW k \in 1 .. Len(s) - n PROVE v[k] = s[n + k]
  <2>1. k \in 1 .. b - a + 1 /\ a + k - 1 = n + k
      BY <1>1
  <2>2. QED
      BY <1>3, <2>1
<1>6. QED
    BY <1>3, <1>4, <1>5 DEF Tokens

LEMMA Prefix ==
    \A s \in Tokens : \A n \in 0 .. Len(s) :
        /\ SubSeq(s, 1, n) \in Tokens /\ Len(SubSeq(s, 1, n)) = n
        /\ \A k \in 1 .. n : SubSeq(s, 1, n)[k] = s[k]
<1> SUFFICES ASSUME NEW s \in Tokens, NEW n \in 0 .. Len(s)
             PROVE  /\ SubSeq(s, 1, n) \in Tokens /\ Len(SubSeq(s, 1, n)) = n
                    /\ \A k \in 1 .. n : SubSeq(s, 1, n)[k] = s[k]
    OBVIOUS
<1>1. Len(s) \in Nat
    BY Lengths
<1>2. n \in Int /\ 1 \in Int /\ \A i \in 1 .. n : s[i] \in Word
    BY <1>1, Entries
<1>3. /\ SubSeq(s, 1, n) \in Seq(Word)
      /\ Len(SubSeq(s, 1, n)) = IF 1 <= n THEN n - 1 + 1 ELSE 0
      /\ \A i \in 1 .. n - 1 + 1 : SubSeq(s, 1, n)[i] = s[1 + i - 1]
      BY <1>2, SubSeqProperties
<1> DEFINE v == SubSeq(s, 1, n)
<1>4. Len(v) = n
    BY <1>1, <1>3
<1>5. ASSUME NEW k \in 1 .. n PROVE v[k] = s[k]
  <2>1. k \in 1 .. n - 1 + 1 /\ 1 + k - 1 = k
      BY <1>1
  <2>2. QED
      BY <1>3, <2>1
<1>6. QED
    BY <1>3, <1>4, <1>5 DEF Tokens

-------------------------------------------------------------------------------
(* What has arrived, a, and what is still to come, b, of w.                *)

Continues(a, b, w, i) ==
    /\ i \in Nat /\ i + Len(a) + Len(b) <= Len(w)
    /\ \A k \in 1 .. Len(a) : a[k] = w[i + k]
    /\ \A k \in 1 .. Len(b) : b[k] = w[i + Len(a) + k]

\* One more token arrives.
LEMMA Arrives ==
    \A a, b, w \in Tokens : \A i : b # <<>> /\ Continues(a, b, w, i) =>
        Continues(Append(a, Head(b)), Tail(b), w, i)
<1> SUFFICES ASSUME NEW a \in Tokens, NEW b \in Tokens, NEW w \in Tokens, NEW i,
                    b # <<>>, Continues(a, b, w, i)
             PROVE  Continues(Append(a, Head(b)), Tail(b), w, i)
    OBVIOUS
<1>1. PICK m \in Nat : m = Len(a)
    BY Lengths
<1>2. PICK n \in Nat \ {0} : n = Len(b)
    BY Lengths
<1>3. /\ i \in Nat /\ i + m + n <= Len(w) /\ Len(w) \in Nat
      /\ \A k \in 1 .. m : a[k] = w[i + k]
      /\ \A k \in 1 .. n : b[k] = w[i + m + k]
    BY <1>1, <1>2, Lengths DEF Continues
<1>4. /\ Len(Append(a, Head(b))) = m + 1
      /\ \A k \in 1 .. m : Append(a, Head(b))[k] = a[k]
      /\ Append(a, Head(b))[m + 1] = b[1]
    BY <1>1, Rest, Added
<1>5. /\ Len(Tail(b)) = n - 1
      /\ \A k \in 1 .. n - 1 : Tail(b)[k] = b[k + 1]
    BY <1>2, Rest
<1>6. ASSUME NEW k \in 1 .. m + 1 PROVE Append(a, Head(b))[k] = w[i + k]
  <2>1. CASE k = m + 1
      BY <1>3, <1>4, <2>1
  <2>2. CASE k \in 1 .. m
      BY <1>3, <1>4, <2>2
  <2>3. QED
      BY <2>1, <2>2, <1>1
<1>7. ASSUME NEW k \in 1 .. n - 1 PROVE Tail(b)[k] = w[i + (m + 1) + k]
  <2>1. b[k + 1] = w[i + m + (k + 1)] /\ i + m + (k + 1) = i + (m + 1) + k
      BY <1>3
  <2>2. QED
      BY <1>5, <2>1
<1>8. i + (m + 1) + (n - 1) <= Len(w)
    BY <1>3
<1>9. QED
    BY <1>3, <1>4, <1>5, <1>6, <1>7, <1>8 DEF Continues

\* The peer sends no more, or what has arrived is lost too.
LEMMA CutOff ==
    \A a, b, w \in Tokens : \A i : Continues(a, b, w, i) =>
        Continues(a, <<>>, w, i) /\ Continues(<<>>, <<>>, w, i)
    BY Lengths DEF Continues

LEMMA NothingContinues ==
    \A w \in Tokens : \A i \in 0 .. Len(w) : Continues(<<>>, <<>>, w, i)
    BY Lengths DEF Continues

\* The first token is read.
LEMMA Takes ==
    \A a, b, w \in Tokens : \A i : a # <<>> /\ Continues(a, b, w, i) =>
        /\ Head(a) = w[i + 1] /\ i + 1 \in 1 .. Len(w)
        /\ Continues(Tail(a), b, w, i + 1)
<1> SUFFICES ASSUME NEW a \in Tokens, NEW b \in Tokens, NEW w \in Tokens, NEW i,
                    a # <<>>, Continues(a, b, w, i)
             PROVE  /\ Head(a) = w[i + 1] /\ i + 1 \in 1 .. Len(w)
                    /\ Continues(Tail(a), b, w, i + 1)
    OBVIOUS
<1>1. PICK m \in Nat \ {0} : m = Len(a)
    BY Lengths
<1>2. PICK n \in Nat : n = Len(b)
    BY Lengths
<1>3. /\ i \in Nat /\ i + m + n <= Len(w) /\ Len(w) \in Nat
      /\ \A k \in 1 .. m : a[k] = w[i + k]
      /\ \A k \in 1 .. n : b[k] = w[i + m + k]
    BY <1>1, <1>2, Lengths DEF Continues
<1>4. /\ Len(Tail(a)) = m - 1 /\ Head(a) = a[1]
      /\ \A k \in 1 .. m - 1 : Tail(a)[k] = a[k + 1]
    BY <1>1, Rest
<1>5. ASSUME NEW k \in 1 .. m - 1 PROVE Tail(a)[k] = w[(i + 1) + k]
  <2>1. a[k + 1] = w[i + (k + 1)] /\ i + (k + 1) = (i + 1) + k
      BY <1>3
  <2>2. QED
      BY <1>4, <2>1
<1>6. ASSUME NEW k \in 1 .. n PROVE b[k] = w[(i + 1) + (m - 1) + k]
  <2>1. i + m + k = (i + 1) + (m - 1) + k
      BY <1>3
  <2>2. QED
      BY <1>3, <2>1
<1>7. (i + 1) + (m - 1) + n <= Len(w) /\ i + 1 \in Nat /\ Head(a) = w[i + 1]
      /\ i + 1 \in 1 .. Len(w)
    BY <1>3, <1>4
<1>8. QED
    BY <1>2, <1>4, <1>5, <1>6, <1>7 DEF Continues

\* So are the first n.
LEMMA Skips ==
    \A a, b, w \in Tokens : \A i : \A n \in 0 .. Len(a) : Continues(a, b, w, i) =>
        Continues(SubSeq(a, n + 1, Len(a)), b, w, i + n)
<1> SUFFICES ASSUME NEW a \in Tokens, NEW b \in Tokens, NEW w \in Tokens, NEW i,
                    NEW n \in 0 .. Len(a), Continues(a, b, w, i)
             PROVE  Continues(SubSeq(a, n + 1, Len(a)), b, w, i + n)
    OBVIOUS
<1>1. PICK m \in Nat : m = Len(a)
    BY Lengths
<1>2. PICK l \in Nat : l = Len(b)
    BY Lengths
<1>3. /\ i \in Nat /\ i + m + l <= Len(w) /\ Len(w) \in Nat /\ n \in 0 .. m
      /\ \A k \in 1 .. m : a[k] = w[i + k]
      /\ \A k \in 1 .. l : b[k] = w[i + m + k]
    BY <1>1, <1>2, Lengths DEF Continues
<1>4. PICK v \in Tokens : v = SubSeq(a, n + 1, Len(a))
    BY Suffix
<1>5. /\ Len(v) = m - n
      /\ \A k \in 1 .. m - n : v[k] = a[n + k]
    BY <1>1, <1>4, Suffix
<1>6. ASSUME NEW k \in 1 .. m - n PROVE v[k] = w[(i + n) + k]
  <2>1. n + k \in 1 .. m /\ i + (n + k) = (i + n) + k
      BY <1>3
  <2>2. QED
      BY <1>3, <1>5, <2>1
<1>7. ASSUME NEW k \in 1 .. l PROVE b[k] = w[(i + n) + (m - n) + k]
  <2>1. i + m + k = (i + n) + (m - n) + k
      BY <1>3
  <2>2. QED
      BY <1>3, <2>1
<1>8. (i + n) + (m - n) + l <= Len(w) /\ i + n \in Nat
    BY <1>3
<1>9. Continues(v, b, w, i + n)
    BY <1>2, <1>5, <1>6, <1>7, <1>8 DEF Continues
<1>10. QED
    BY <1>4, <1>9

\* w ends with v, behind its first m tokens.
EndsWith(w, v, m) == /\ m \in Nat /\ Len(w) = m + Len(v)
                     /\ \A k \in 1 .. Len(v) : w[m + k] = v[k]

LEMMA Ending ==
    \A a, b, w, v \in Tokens : \A m, j \in Nat :
        EndsWith(w, v, m) /\ Continues(a, b, w, m + j) => Continues(a, b, v, j)
<1> SUFFICES ASSUME NEW a \in Tokens, NEW b \in Tokens, NEW w \in Tokens, NEW v \in Tokens,
                    NEW m \in Nat, NEW j \in Nat,
                    EndsWith(w, v, m), Continues(a, b, w, m + j)
             PROVE  Continues(a, b, v, j)
    OBVIOUS
<1>1. PICK x \in Nat : x = Len(a)
    BY Lengths
<1>2. PICK y \in Nat : y = Len(b)
    BY Lengths
<1>3. PICK l \in Nat : l = Len(v)
    BY Lengths
<1>4. /\ (m + j) + x + y <= m + l
      /\ \A k \in 1 .. x : a[k] = w[(m + j) + k]
      /\ \A k \in 1 .. y : b[k] = w[(m + j) + x + k]
      /\ \A k \in 1 .. l : w[m + k] = v[k]
    BY <1>1, <1>2, <1>3 DEF Continues, EndsWith
<1>5. j + x + y <= l
    BY <1>4
<1>6. ASSUME NEW k \in 1 .. x PROVE a[k] = v[j + k]
  <2>1. j + k \in 1 .. l /\ m + (j + k) = (m + j) + k
      BY <1>5
  <2>2. QED
      BY <1>4, <2>1
<1>7. ASSUME NEW k \in 1 .. y PROVE b[k] = v[j + x + k]
  <2>1. j + x + k \in 1 .. l /\ m + (j + x + k) = (m + j) + x + k
      BY <1>5
  <2>2. QED
      BY <1>4, <2>1
<1>8. QED
    BY <1>1, <1>2, <1>3, <1>5, <1>6, <1>7 DEF Continues

-------------------------------------------------------------------------------
(* What peers send.                                                        *)

Header == {"auth", "type", "length"}

\* The kinds of headers that a request has.
Sent(r) == {h \in Header : \/ h = "auth" /\ r.auth
                           \/ h = "type" /\ r.body = "form"
                           \/ h = "length" /\ r.body = "plain"}

FormBody(r) == TextPart(r) \o FilePart(r)

LEMMA Request ==
    ASSUME NEW r \in Requests
    PROVE  /\ r.first \in {"line", "junk"} /\ r.method \in {"GET", "POST"}
           /\ r.auth \in BOOLEAN /\ r.query \in BOOLEAN
           /\ r.body \in {"none", "plain", "form"}
           /\ r.field \in BOOLEAN /\ r.file \in BOOLEAN
           /\ r.content \in Seq(Bytes)
    BY WebAssumption DEF WebAssumption, RequestType

LEMMA Words ==
    /\ {"line", "junk", "auth", "type", "length", "blank", "plain", "boundary", "field",
        "text", "end", "file", "last", "x", "CR", "LF", "-", "b", "c"} \subseteq Word
    /\ Bytes \subseteq Word
    BY DEF Word, Bytes

LEMMA Numbers == BufLen \in Nat \ {0} /\ MaxRequests \in Nat \ {0}
    BY WebAssumption DEF WebAssumption

LEMMA BoundaryBytes ==
    /\ Boundary \in Tokens /\ Len(Boundary) \in Nat \ {0}
    /\ \A k \in 1 .. Len(Boundary) : Boundary[k] \in {"b", "c"}
<1>1. Boundary \in Seq({"b", "c"}) /\ Boundary # <<>>
    BY WebAssumption DEF WebAssumption
<1>2. {"b", "c"} \subseteq Word
    BY Words
<1>3. Boundary \in Seq(Word)
    BY <1>1, <1>2, SeqMonotonic
<1>4. \A k \in 1 .. Len(Boundary) : Boundary[k] \in {"b", "c"}
    BY <1>1, ElementOfSeq
<1>5. QED
    BY <1>1, <1>3, <1>4, Lengths DEF Tokens

LEMMA Content ==
    ASSUME NEW r \in Requests
    PROVE  /\ r.content \in Tokens /\ Len(r.content) \in Nat
           /\ \A k \in 1 .. Len(r.content) : r.content[k] \in Bytes
<1>1. r.content \in Seq(Bytes)
    BY Request
<1>2. r.content \in Seq(Word)
    BY <1>1, Words, SeqMonotonic
<1>3. \A k \in 1 .. Len(r.content) : r.content[k] \in Bytes
    BY <1>1, ElementOfSeq
<1>4. QED
    BY <1>2, <1>3, Lengths DEF Tokens

\* Short sequences of tokens.
LEMMA Single ==
    ASSUME NEW x \in Word
    PROVE  \E s \in Tokens : s = <<x>> /\ Len(s) = 1 /\ s[1] = x
<1>1. <<x>> \in Tokens /\ Len(<<x>>) = 1 /\ <<x>>[1] = x
    BY DEF Tokens
<1>2. QED
    BY <1>1

LEMMA Pair ==
    ASSUME NEW x \in Word, NEW y \in Word
    PROVE  \E s \in Tokens : s = <<x, y>> /\ Len(s) = 2 /\ s[1] = x /\ s[2] = y
<1>1. <<x, y>> \in Tokens /\ Len(<<x, y>>) = 2 /\ <<x, y>>[1] = x /\ <<x, y>>[2] = y
    BY DEF Tokens
<1>2. QED
    BY <1>1

LEMMA HeaderLinesAre ==
    ASSUME NEW r \in Requests
    PROVE  /\ HeaderLines(r) \in Tokens
           /\ \A k \in 1 .. Len(HeaderLines(r)) : HeaderLines(r)[k] \in Sent(r)
<1> DEFINE a == FormPart(r.auth, <<"auth">>)
           b == FormPart(r.body = "form", <<"type">>)
           c == FormPart(r.body = "plain", <<"length">>)
<1>1. /\ a \in Tokens /\ b \in Tokens /\ c \in Tokens
      /\ Len(a) \in Nat /\ Len(b) \in Nat /\ Len(c) \in Nat
      /\ \A k \in 1 .. Len(a) : a[k] \in Sent(r)
      /\ \A k \in 1 .. Len(b) : b[k] \in Sent(r)
      /\ \A k \in 1 .. Len(c) : c[k] \in Sent(r)
  <2>1. /\ <<>> \in Tokens /\ Len(<<>>) = 0
        /\ <<"auth">> \in Tokens /\ Len(<<"auth">>) = 1 /\ <<"auth">>[1] = "auth"
        /\ <<"type">> \in Tokens /\ Len(<<"type">>) = 1 /\ <<"type">>[1] = "type"
        /\ <<"length">> \in Tokens /\ Len(<<"length">>) = 1 /\ <<"length">>[1] = "length"
      BY Lengths, Words DEF Tokens
  <2>2. /\ a \in Tokens /\ Len(a) \in Nat /\ \A k \in 1 .. Len(a) : a[k] \in Sent(r)
      BY <2>1, Request DEF FormPart, Sent, Header
  <2>3. /\ b \in Tokens /\ Len(b) \in Nat /\ \A k \in 1 .. Len(b) : b[k] \in Sent(r)
      BY <2>1, Request DEF FormPart, Sent, Header
  <2>4. /\ c \in Tokens /\ Len(c) \in Nat /\ \A k \in 1 .. Len(c) : c[k] \in Sent(r)
      BY <2>1, Request DEF FormPart, Sent, Header
  <2>5. QED
      BY <2>2, <2>3, <2>4
<1>2. HeaderLines(r) = (a \o b) \o c
    BY DEF HeaderLines
<1> HIDE DEF a, b, c
<1>3. ASSUME NEW s \in Tokens, NEW u \in Tokens,
             \A k \in 1 .. Len(s) : s[k] \in Sent(r),
             \A k \in 1 .. Len(u) : u[k] \in Sent(r)
      PROVE  /\ s \o u \in Tokens
             /\ \A k \in 1 .. Len(s \o u) : (s \o u)[k] \in Sent(r)
  <2>1. PICK m \in Nat : m = Len(s)
      BY Lengths
  <2>2. PICK n \in Nat : n = Len(u)
      BY Lengths
  <2>3. PICK v \in Tokens : v = s \o u
      BY ConcatType, Concat
  <2>4. /\ Len(v) = m + n
        /\ \A k \in 1 .. m : v[k] = s[k]
        /\ \A k \in 1 .. n : v[m + k] = u[k]
      BY <2>1, <2>2, <2>3, ConcatType, Concat
  <2>5. ASSUME NEW k \in 1 .. m + n PROVE v[k] \in Sent(r)
    <3>1. CASE k \in 1 .. m
        BY <1>3, <2>1, <2>4, <3>1
    <3>2. CASE k \notin 1 .. m
      <4>1. PICK j \in 1 .. n : k = m + j
        <5>1. k - m \in 1 .. n /\ k = m + (k - m)
            BY <3>2
        <5>2. QED
            BY <5>1
      <4>2. QED
          BY <1>3, <2>2, <2>4, <4>1
    <3>3. QED
        BY <3>1, <3>2
  <2>6. QED
      BY <2>3, <2>4, <2>5
<1>4. /\ a \o b \in Tokens
      /\ \A k \in 1 .. Len(a \o b) : (a \o b)[k] \in Sent(r)
    BY <1>1, <1>3
<1>5. QED
    BY <1>1, <1>2, <1>3, <1>4

LEMMA TextPartIs ==
    ASSUME NEW r \in Requests
    PROVE  /\ TextPart(r) \in Tokens
           /\ ~r.field => TextPart(r) = <<>>
           /\ r.field => /\ Len(TextPart(r)) = 4
                         /\ TextPart(r)[1] = "field" /\ TextPart(r)[2] = "blank"
                         /\ TextPart(r)[3] = "text"
                         /\ TextPart(r)[4] = IF r.file THEN "boundary" ELSE "end"
<1> DEFINE e == IF r.file THEN "boundary" ELSE "end"
           s == <<"field", "blank", "text", e>>
<1>1. e \in Word /\ {"field", "blank", "text"} \subseteq Word
    BY Words
<1> HIDE DEF e
<1>2. s \in Tokens /\ Len(s) = 4 /\ s[1] = "field" /\ s[2] = "blank" /\ s[3] = "text"
      /\ s[4] = e
    BY <1>1 DEF Tokens
<1>3. TextPart(r) = IF r.field THEN s ELSE <<>>
    BY DEF TextPart, FormPart, e
<1>4. QED
    BY <1>2, <1>3, Lengths, Request DEF e

LEMMA FileBytesType == \A r \in Requests : FileBytes(r) \in Tokens
<1> SUFFICES ASSUME NEW r \in Requests PROVE FileBytes(r) \in Tokens
    OBVIOUS
<1>1. <<"CR", "LF", "-", "-">> \in Tokens
    BY Words DEF Tokens
<1>2. PICK y \in Tokens : y = <<"CR", "LF", "-", "-">>
    BY <1>1
<1>3. PICK z \in Tokens : z = <<"last">>
    BY Words, Single
<1>4. r.content \in Tokens /\ Boundary \in Tokens
    BY Content, BoundaryBytes
<1>5. r.content \o y \in Tokens
    BY <1>4, ConcatType
<1>6. (r.content \o y) \o Boundary \in Tokens
    BY <1>4, <1>5, ConcatType
<1>7. ((r.content \o y) \o Boundary) \o z \in Tokens
    BY <1>6, ConcatType
<1>8. QED
    BY <1>2, <1>3, <1>7 DEF FileBytes

\* A file of l bytes and the bytes of a boundary of n bytes.
FileOf(w, r, l, n) ==
    /\ n \in Nat \ {0} /\ Len(w) = l + 4 + n + 1
    /\ \A k \in 1 .. l : w[k] = r.content[k]
    /\ w[l + 1] = "CR" /\ w[l + 2] = "LF" /\ w[l + 3] = "-" /\ w[l + 4] = "-"
    /\ \A k \in 1 .. n : w[l + 4 + k] = Boundary[k]
    /\ w[l + 4 + n + 1] = "last"

LEMMA FileBytesAre ==
    ASSUME NEW r \in Requests
    PROVE  FileOf(FileBytes(r), r, Len(r.content), Len(Boundary))
<1>1. PICK l \in Nat : l = Len(r.content)
    BY Content
<1>2. PICK n \in Nat : n = Len(Boundary)
    BY BoundaryBytes
<1> DEFINE d == <<"CR", "LF", "-", "-">>
<1>3. /\ d \in Tokens /\ Len(d) = 4
      /\ d[1] = "CR" /\ d[2] = "LF" /\ d[3] = "-" /\ d[4] = "-"
    BY Words DEF Tokens
<1>4. <<"last">> \in Tokens /\ Len(<<"last">>) = 1 /\ <<"last">>[1] = "last"
    BY Words DEF Tokens
<1>5. PICK z \in Tokens : z = <<"last">>
    BY <1>4
<1>6. PICK y \in Tokens : y = d
    BY <1>3
<1>7. l \in Nat /\ n \in Nat \ {0} /\ r.content \in Tokens /\ Boundary \in Tokens
    BY <1>2, Content, BoundaryBytes
<1>8. PICK v \in Tokens : v = r.content \o y
    BY <1>7, ConcatType
<1>9. PICK p \in Nat : p = Len(y)
    BY Lengths
<1>10. /\ Len(v) = l + 4 /\ \A k \in 1 .. l : v[k] = r.content[k]
      /\ \A k \in 1 .. 4 : v[l + k] = y[k]
  <2>1. /\ Len(v) = l + p /\ \A k \in 1 .. l : v[k] = r.content[k]
        /\ \A k \in 1 .. p : v[l + k] = y[k]
    <3>1. r.content \in Tokens /\ l \in Nat /\ l = Len(r.content)
        BY <1>7, <1>1
    <3>2. QED
        BY <3>1, <1>9, <1>8, Concat
  <2>2. p = 4
      BY <1>3, <1>6, <1>9
  <2>3. QED
      BY <2>1, <2>2
<1> DEFINE m == l + 4
           x == m + n
<1>11. m \in Nat /\ x \in Nat
    BY <1>7
<1> HIDE DEF m, x
<1>12. v \in Tokens /\ Boundary \in Tokens /\ m = Len(v) /\ n = Len(Boundary)
      /\ n \in Nat
    BY <1>7, <1>10, <1>2 DEF m
<1>13. PICK w \in Tokens : w = v \o Boundary
    BY <1>12, ConcatType
<1>14. /\ Len(w) = x
       /\ \A k \in 1 .. m : w[k] = v[k]
       /\ \A k \in 1 .. n : w[m + k] = Boundary[k]
    BY <1>11, <1>12, <1>13, ConcatType, Concat DEF x
<1>15. PICK u \in Tokens : u = w \o z
    BY ConcatType
<1>16. PICK q \in Nat : q = Len(z)
    BY Lengths
<1>17. /\ Len(u) = x + 1
       /\ \A k \in 1 .. x : u[k] = w[k]
       /\ \A k \in 1 .. 1 : u[x + k] = z[k]
  <2>1. /\ Len(u) = x + q
        /\ \A k \in 1 .. x : u[k] = w[k]
        /\ \A k \in 1 .. q : u[x + k] = z[k]
    <3>1. x = Len(w)
        BY <1>14
    <3>2. QED
        BY <3>1, <1>16, <1>11, <1>15, Concat
  <2>2. q = 1
      BY <1>4, <1>5, <1>16
  <2>3. QED
      BY <2>1, <2>2
<1>18. /\ Len(w) = l + 4 + n /\ \A k \in 1 .. l + 4 : w[k] = v[k]
       /\ \A k \in 1 .. n : w[l + 4 + k] = Boundary[k]
       /\ Len(u) = l + 4 + n + 1 /\ \A k \in 1 .. l + 4 + n : u[k] = w[k]
       /\ \A k \in 1 .. 1 : u[l + 4 + n + k] = z[k]
    BY <1>14, <1>17 DEF m, x
<1>19. FileBytes(r) = u
    BY <1>5, <1>6, <1>8, <1>13, <1>15 DEF FileBytes
<1>20. \A k \in 1 .. l : u[k] = r.content[k]
  <2> SUFFICES ASSUME NEW k \in 1 .. l PROVE u[k] = r.content[k]
      OBVIOUS
  <2>1. k \in 1 .. l + 4 /\ k \in 1 .. l + 4 + n
      BY <1>7
  <2>2. QED
      BY <1>10, <1>18, <2>1
<1>21. \A k \in 1 .. 4 : u[l + k] = y[k]
  <2> SUFFICES ASSUME NEW k \in 1 .. 4 PROVE u[l + k] = y[k]
      OBVIOUS
  <2>1. l + k \in 1 .. l + 4 /\ l + k \in 1 .. l + 4 + n
      BY <1>7
  <2>2. QED
      BY <1>10, <1>18, <2>1
<1>22. \A k \in 1 .. n : u[l + 4 + k] = Boundary[k]
  <2> SUFFICES ASSUME NEW k \in 1 .. n PROVE u[l + 4 + k] = Boundary[k]
      OBVIOUS
  <2>1. l + 4 + k \in 1 .. l + 4 + n
      BY <1>7
  <2>2. QED
      BY <1>18, <2>1
<1>23. u[l + 4 + n + 1] = "last"
    BY <1>4, <1>5, <1>18
<1>24. u[l + 1] = "CR" /\ u[l + 2] = "LF" /\ u[l + 3] = "-" /\ u[l + 4] = "-"
    BY <1>3, <1>6, <1>21
<1>25. FileOf(u, r, l, n)
    BY <1>7, <1>18, <1>20, <1>22, <1>23, <1>24 DEF FileOf
<1>26. QED
    BY <1>19, <1>25, <1>1, <1>2

\* What is put before a sequence, and where the sequence begins behind it.
LEMMA Joined ==
    ASSUME NEW s \in Tokens, NEW u \in Tokens, NEW m \in Nat, m = Len(s)
    PROVE  /\ s \o u \in Tokens
           /\ \A k \in 1 .. m : (s \o u)[k] = s[k]
           /\ EndsWith(s \o u, u, m)
<1>1. PICK v \in Tokens : v = s \o u
    BY ConcatType
<1>2. PICK n \in Nat : n = Len(u)
    BY Lengths
<1>3. /\ Len(v) = m + n
      /\ \A k \in 1 .. m : v[k] = s[k]
      /\ \A k \in 1 .. n : v[m + k] = u[k]
    BY <1>1, <1>2, Concat
<1>4. EndsWith(v, u, m)
    BY <1>2, <1>3 DEF EndsWith
<1>5. QED
    BY <1>1, <1>3, <1>4

LEMMA FilePartIs ==
    ASSUME NEW r \in Requests
    PROVE  /\ FilePart(r) \in Tokens /\ FileBytes(r) \in Tokens
           /\ ~r.file => FilePart(r) = <<>>
           /\ r.file => /\ FilePart(r)[1] = "file" /\ FilePart(r)[2] = "blank"
                        /\ EndsWith(FilePart(r), FileBytes(r), 2)
<1>1. PICK s \in Tokens : /\ s = <<"file", "blank">> /\ Len(s) = 2
                          /\ s[1] = "file" /\ s[2] = "blank"
    BY Words, Pair
<1>2. FileBytes(r) \in Tokens
    BY FileBytesType
<1>3. PICK m \in Nat : m = 2
    OBVIOUS
<1>4. /\ s \o FileBytes(r) \in Tokens
      /\ \A k \in 1 .. m : (s \o FileBytes(r))[k] = s[k]
      /\ EndsWith(s \o FileBytes(r), FileBytes(r), m)
    BY <1>1, <1>2, <1>3, Joined
<1>5. FilePart(r) = IF r.file THEN s \o FileBytes(r) ELSE <<>>
    BY <1>1 DEF FilePart, FormPart
<1>6. CASE r.file
  <2>1. PICK v \in Tokens : v = s \o FileBytes(r)
      BY <1>4
  <2>2. v[1] = "file" /\ v[2] = "blank" /\ EndsWith(v, FileBytes(r), 2)
      BY <1>1, <1>3, <1>4, <2>1
  <2>3. QED
      BY <1>2, <1>5, <1>6, <2>1, <2>2
<1>7. CASE ~r.file
    BY <1>2, <1>5, <1>7, Lengths
<1>8. QED
    BY <1>6, <1>7

LEMMA FormBodyIs ==
    ASSUME NEW r \in Requests
    PROVE  /\ FormBody(r) \in Tokens
           /\ ~r.field => FormBody(r) = FilePart(r)
           /\ r.field => /\ FormBody(r)[1] = "field" /\ FormBody(r)[2] = "blank"
                         /\ FormBody(r)[3] = "text"
                         /\ FormBody(r)[4] = IF r.file THEN "boundary" ELSE "end"
                         /\ EndsWith(FormBody(r), FilePart(r), 4)
<1>1. PICK s \in Tokens : s = TextPart(r)
    BY TextPartIs
<1>2. PICK u \in Tokens : u = FilePart(r)
    BY FilePartIs
<1>3. PICK m \in Nat : m = Len(s)
    BY Lengths
<1>4. /\ s \o u \in Tokens
      /\ \A k \in 1 .. m : (s \o u)[k] = s[k]
      /\ EndsWith(s \o u, u, m)
    BY <1>3, Joined
<1>5. PICK v \in Tokens : v = s \o u
    BY <1>4
<1>6. FormBody(r) = v
    BY <1>1, <1>2, <1>5 DEF FormBody
<1>7. CASE r.field
  <2>1. m = 4
      BY <1>1, <1>3, <1>7, TextPartIs
  <2>2. /\ \A k \in 1 .. 4 : v[k] = s[k]
        /\ EndsWith(v, u, 4)
      BY <1>4, <1>5, <2>1
  <2>3. v[1] = s[1] /\ v[2] = s[2] /\ v[3] = s[3] /\ v[4] = s[4] /\ EndsWith(v, u, 4)
      BY <2>2
  <2>4. QED
      BY <1>1, <1>2, <1>6, <1>7, <2>3, TextPartIs
<1>8. CASE ~r.field
  <2>1. s = <<>>
      BY <1>1, <1>8, TextPartIs
  <2>2. v = u
      BY <1>5, <2>1, ConcatEmptySeq DEF Tokens
  <2>3. QED
      BY <1>2, <1>6, <1>8, <2>2
<1>9. QED
    BY <1>7, <1>8, Request

LEMMA BodyIs ==
    ASSUME NEW r \in Requests
    PROVE  /\ Body(r) \in Tokens
           /\ r.body = "none" => Body(r) = <<>>
           /\ r.body = "plain" => Body(r) = <<"plain">>
           /\ r.body = "form" => /\ Body(r)[1] = "boundary"
                                 /\ EndsWith(Body(r), FormBody(r), 1)
<1>1. CASE r.body = "none"
    BY <1>1, Lengths DEF Body
<1>2. CASE r.body = "plain"
  <2>1. <<"plain">> \in Tokens
      BY Words DEF Tokens
  <2>2. QED
      BY <1>2, <2>1 DEF Body
<1>3. CASE r.body = "form"
  <2>1. PICK s \in Tokens : s = <<"boundary">> /\ Len(s) = 1 /\ s[1] = "boundary"
      BY Words, Single
  <2>2. PICK u \in Tokens : u = FormBody(r)
      BY FormBodyIs
  <2>3. PICK m \in Nat : m = 1
      OBVIOUS
  <2>4. /\ s \o u \in Tokens
        /\ \A k \in 1 .. m : (s \o u)[k] = s[k]
        /\ EndsWith(s \o u, u, m)
      BY <2>1, <2>3, Joined
  <2>5. PICK v \in Tokens : v = s \o u
      BY <2>4
  <2>6. v[1] = "boundary" /\ EndsWith(v, u, 1)
      BY <2>1, <2>3, <2>4, <2>5
  <2>7. Body(r) = v
      BY <1>3, <2>1, <2>2, <2>5 DEF Body, FormBody
  <2>8. QED
      BY <1>3, <2>2, <2>6, <2>7
<1>4. QED
    BY <1>1, <1>2, <1>3, Request

LEMMA StreamIs ==
    ASSUME NEW r \in Requests
    PROVE  /\ Stream(r) \in Tokens /\ Stream(r)[1] = r.first
           /\ \E h \in Nat :
                /\ h = Len(HeaderLines(r))
                /\ \A k \in 1 .. h : Stream(r)[1 + k] \in Sent(r)
                /\ Stream(r)[h + 2] = "blank"
                /\ EndsWith(Stream(r), Body(r), h + 2)
<1>1. PICK f \in Tokens : f = <<r.first>> /\ Len(f) = 1 /\ f[1] = r.first
  <2>1. r.first \in Word
      BY Request, Words
  <2>2. QED
      BY <2>1, Single
<1>2. PICK g \in Tokens : g = HeaderLines(r) /\ \A k \in 1 .. Len(g) : g[k] \in Sent(r)
    BY HeaderLinesAre
<1>3. PICK b \in Tokens : b = <<"blank">> /\ Len(b) = 1 /\ b[1] = "blank"
    BY Words, Single
<1>4. PICK d \in Tokens : d = Body(r)
    BY BodyIs
<1>5. PICK h \in Nat : h = Len(g)
    BY Lengths
<1>6. PICK n \in Nat : n = Len(d)
    BY Lengths
<1>7. PICK p \in Nat : p = Len(f)
    BY Lengths
<1>8. PICK q \in Nat : q = Len(b)
    BY Lengths
<1>9. PICK x \in Tokens : x = f \o g
    BY ConcatType
<1>10. /\ Len(x) = p + h
       /\ \A k \in 1 .. p : x[k] = f[k]
       /\ \A k \in 1 .. h : x[p + k] = g[k]
    BY <1>5, <1>7, <1>9, Concat
<1>11. PICK i \in Nat : i = p + h
    OBVIOUS
<1>12. PICK y \in Tokens : y = x \o b
    BY ConcatType
<1>13. /\ Len(y) = i + q
       /\ \A k \in 1 .. i : y[k] = x[k]
       /\ \A k \in 1 .. q : y[i + k] = b[k]
  <2>1. i = Len(x)
      BY <1>10, <1>11
  <2>2. QED
      BY <1>8, <1>12, <2>1, Concat
<1>14. PICK j \in Nat : j = i + q
    OBVIOUS
<1>15. PICK z \in Tokens : z = y \o d
    BY ConcatType
<1>16. /\ Len(z) = j + n
       /\ \A k \in 1 .. j : z[k] = y[k]
       /\ \A k \in 1 .. n : z[j + k] = d[k]
  <2>1. j = Len(y)
      BY <1>13, <1>14
  <2>2. QED
      BY <1>6, <1>15, <2>1, Concat
<1>17. Stream(r) = z
    BY <1>1, <1>2, <1>3, <1>4, <1>9, <1>12, <1>15 DEF Stream
<1>18. p = 1 /\ q = 1 /\ i = h + 1 /\ j = h + 2
    BY <1>1, <1>3, <1>7, <1>8, <1>11, <1>14
<1>19. z[1] = r.first
  <2>1. 1 \in 1 .. j /\ 1 \in 1 .. i /\ 1 \in 1 .. p
      BY <1>18
  <2>2. QED
      BY <1>1, <1>10, <1>13, <1>16, <2>1
<1>20. ASSUME NEW k \in 1 .. h PROVE z[1 + k] \in Sent(r)
  <2>1. 1 + k \in 1 .. j /\ 1 + k \in 1 .. i
      BY <1>18
  <2>2. z[1 + k] = g[k]
      BY <1>10, <1>13, <1>16, <1>18, <2>1
  <2>3. QED
      BY <1>2, <1>5, <2>2
<1>21. z[h + 2] = "blank"
  <2>1. j \in 1 .. j /\ 1 \in 1 .. q /\ i + 1 = j
      BY <1>18
  <2>2. QED
      BY <1>3, <1>13, <1>16, <1>18, <2>1
<1>22. EndsWith(z, d, h + 2)
    BY <1>6, <1>16, <1>18 DEF EndsWith
<1>23. QED
    BY <1>2, <1>4, <1>5, <1>17, <1>19, <1>20, <1>21, <1>22

LEMMA Between ==
    \A a, b, c \in Nat :
        (a + c # b + 4 + c + 1 /\ a + c <= b + 4 + c + 1 /\ (a = b + 4 \/ a > b + 4))
            => a = b + 4
    OBVIOUS

\* No token of a file begins the boundary, except at the file's end.
LEMMA EndOfFile ==
    ASSUME NEW r \in Requests, NEW i \in Nat,
           i + Len(Boundary) <= Len(FileBytes(r)),
           \A k \in 1 .. Len(Boundary) : FileBytes(r)[i + k] = Boundary[k]
    PROVE  i = Len(r.content) + 4
<1>1. PICK l \in Nat : l = Len(r.content)
    BY Content
<1>2. PICK n \in Nat : n = Len(Boundary)
    BY BoundaryBytes
<1>3. PICK w : w = FileBytes(r)
    OBVIOUS
<1>4. /\ n \in Nat \ {0} /\ Len(w) = l + 4 + n + 1
      /\ \A k \in 1 .. l : w[k] = r.content[k]
      /\ w[l + 1] = "CR" /\ w[l + 2] = "LF" /\ w[l + 3] = "-" /\ w[l + 4] = "-"
      /\ w[l + 4 + n + 1] = "last"
    BY <1>3, <1>1, <1>2, FileBytesAre DEF FileOf
<1>5. \A k \in 1 .. n : Boundary[k] \in {"b", "c"}
    BY <1>2, BoundaryBytes
<1>6. \A k \in 1 .. l : r.content[k] \in {"x", "CR", "LF", "-"}
    BY <1>1, Content DEF Bytes
<1>7. i + n <= Len(w) /\ \A k \in 1 .. n : w[i + k] = Boundary[k]
    BY <1>3, <1>2
<1>8. \A k \in 1 .. l + 4 : w[k] \notin {"b", "c"}
  <2> SUFFICES ASSUME NEW k \in 1 .. l + 4 PROVE w[k] \notin {"b", "c"}
      OBVIOUS
  <2>1. CASE k \in 1 .. l
      BY <1>4, <1>6, <2>1
  <2>2. CASE k \in {l + 1, l + 2, l + 3, l + 4}
      BY <1>4, <2>2
  <2>3. k \in 1 .. l \/ k \in {l + 1, l + 2, l + 3, l + 4}
      OBVIOUS
  <2>4. QED
      BY <2>1, <2>2, <2>3
<1>9. w[i + 1] \in {"b", "c"} /\ w[i + n] \in {"b", "c"}
  <2>1. 1 \in 1 .. n /\ n \in 1 .. n
      BY <1>4
  <2>2. QED
      BY <1>5, <1>7, <2>1
<1>10. i + 1 \notin 1 .. l + 4
    BY <1>8, <1>9
<1>11. i + n # l + 4 + n + 1
    BY <1>4, <1>9
<1>12. i + n <= l + 4 + n + 1
    BY <1>4, <1>7
<1>13. i = l + 4 \/ i > l + 4
    BY <1>10
<1>14. QED
    BY <1>11, <1>12, <1>13, <1>1, Between

-------------------------------------------------------------------------------
(* The inductive invariant.                                                *)

\* What a peer that still sends has not sent.
Awaited == IF peer = "sending" THEN coming ELSE <<>>

\* What is unread, and what is still to come, are w behind its first i tokens,
\* possibly cut off at its end.
Follows(w, i) == Continues(input, Awaited, w, i)

\* The first n tokens of w.
Starts(s, w, n) == Len(s) = n /\ \A k \in 1 .. n : s[k] = w[k]

Types == /\ {input, coming, buf, stored, image} \subseteq Tokens
         /\ total \in Nat

InFile    == pc \in {"file", "cr", "crlf", "dash", "dashdash"}
InForm    == InFile \/ pc \in {"form", "part", "parthead", "field", "tail"}
InRequest == pc \notin {"idle", "line"}

TextRead  == {<<"text", served>>}
TextFirst == postArgs = IF req.field THEN TextRead ELSE {}

\* What is known of the request.
Known == /\ InRequest => headers \subseteq Sent(req)
         /\ InForm => Posted("type") /\ args = Query \X {served}
         /\ pc = "plain" => Posted("length")
         /\ pc = "handle" =>
              /\ args = ArgumentsSent \X {served}
              /\ handler = "update" /\ authenticated /\ FileCame => "auth" \in headers

\* Where in what the peer sends the parser is.
AtLine    == Follows(Stream(req), 0)
AtHeaders == \E i \in 1 .. 1 + Len(HeaderLines(req)) : Follows(Stream(req), i)
AtForm    == postArgs = {} /\ Follows(Body(req), 0)
\* Nothing follows but what is left of the file, if anything is.
Leftover == \E i \in Nat : Follows(FileBytes(req), i)
AtPart == \/ Leftover
          \/ postArgs = {} /\ Follows(FormBody(req), 0)
          \/ req.field /\ req.file /\ postArgs = TextRead /\ Follows(FilePart(req), 0)
AtPartHead ==
    \/ part = "field" /\ req.field /\ postArgs = {} /\ Follows(FormBody(req), 1)
    \/ part = "file" /\ req.file /\ TextFirst /\ Follows(FilePart(req), 1)
AtField == /\ req.field /\ postArgs = {}
           /\ Follows(FormBody(req), 2) \/ Follows(FormBody(req), 3)
AtFile  == req.file /\ TextFirst

Place == /\ status = "WAIT_READ" /\ ~InRequest => AtLine
         /\ pc = "headers" => AtHeaders
         /\ pc = "form" => AtForm
         /\ pc = "part" => AtPart
         /\ pc = "parthead" => AtPartHead
         /\ pc = "field" => AtField
         /\ InFile \/ pc = "tail" => AtFile
         /\ pc = "tail" => Leftover

\* What has been written of the file.
Written(w) ==
    /\ \A k \in 1 .. Len(buf) : buf[k] = w[total + k]
    /\ handler = "upload" /\ upFile = "open" /\ ~short => Starts(stored, w, total)
    /\ update = "running" => Starts(image, w, total)

\* The file is read to the place before the bytes in Seen.
SeenOf(w, s, i) == \A k \in 1 .. Len(s) : s[k] = w[i + k]
Copied(w) == /\ Written(w)
             /\ SeenOf(w, Seen[pc], total + Len(buf))
             /\ Follows(w, total + Len(buf) + Len(Seen[pc]))

Files ==
    /\ InFile \/ pc = "tail" =>
         (handler = "update" => (authenticated <=> "auth" \in headers))
    /\ InFile => /\ handler = "upload" => upFile # "closed"
                 /\ NothingComes \/ Copied(FileBytes(req))
    /\ update # "none" => /\ handler = "update" /\ authenticated
                          /\ InFile \/ pc \in {"part", "tail", "handle"}
    /\ update # "none" /\ pc = "part" => Leftover
    /\ update = "running" => InFile
    /\ InFile => update # "ready"

Answered ==
    /\ status = "WAIT_READ" /\ pc \notin {"part", "tail", "handle"} => answers = 0
    /\ pc = "part" => Leftover \/ answers = 0
    /\ pc = "tail" => answers = IF handler = "upload" THEN 1 ELSE 0
    /\ pc = "handle" => answers = IF handler = "upload" /\ FileCame THEN 1 ELSE 0

WebInv == /\ TypeOK /\ Types /\ Known /\ Place /\ Files /\ Answered
          /\ UploadStoresTheFile /\ HandledForItsOwnRequest

\* The places of the parser in a file, and what it has read there.
LEMMA Places ==
    /\ DOMAIN Seen = {"file", "cr", "crlf", "dash", "dashdash"}
    /\ DOMAIN Expected = {"file", "cr", "crlf", "dash"}
    /\ Expected["file"] = "CR" /\ Expected["cr"] = "LF"
    /\ Expected["crlf"] = "-" /\ Expected["dash"] = "-"
    /\ NextPlace["file"] = "cr" /\ NextPlace["cr"] = "crlf"
    /\ NextPlace["crlf"] = "dash" /\ NextPlace["dash"] = "dashdash"
    BY DEF Seen, Expected, NextPlace

-------------------------------------------------------------------------------
(* The peer.                                                               *)

Peers == Sends \/ FallsSilent \/ Closes \/ StationLost

\* Whatever it does, it continues the same.
LEMMA PeersContinue ==
    ASSUME Types, Peers
    PROVE  /\ \A w \in Tokens : \A i :
                 Continues(input, Awaited, w, i) => Continues(input', Awaited', w, i)
           /\ NothingComes => NothingComes'
           /\ Types'
           /\ peer' \in {"sending", "silent", "closed"}
<1>1. input \in Tokens /\ coming \in Tokens /\ <<>> \in Tokens /\ Awaited \in Tokens
    BY Lengths DEF Types, Awaited
<1>2. CASE Sends
  <2>1. /\ peer = "sending" /\ coming # <<>> /\ peer' = "sending"
        /\ input' = Append(input, Head(coming)) /\ coming' = Tail(coming)
        /\ UNCHANGED <<buf, stored, image, total>>
      BY <1>2 DEF Sends, connection, files, parsed
  <2>2. Awaited = coming /\ Awaited' = Tail(coming)
      BY <2>1 DEF Awaited
  <2>3. ~NothingComes
      BY <2>1 DEF NothingComes, Quiet
  <2>4. input' \in Tokens /\ coming' \in Tokens
      BY <1>1, <2>1, Rest, Added
  <2>5. QED
      BY <1>1, <2>1, <2>2, <2>3, <2>4, Arrives DEF Types
<1>3. CASE FallsSilent
  <2>1. /\ peer' = "silent" /\ input' = input
        /\ UNCHANGED <<buf, stored, image, total, coming>>
      BY <1>3 DEF FallsSilent, files
  <2>2. Awaited' = <<>>
      BY <2>1 DEF Awaited
  <2>3. QED
      BY <1>1, <2>1, <2>2, CutOff DEF Types, NothingComes, Quiet
<1>4. CASE Closes
  <2>1. /\ peer' = "closed" /\ input' = input /\ coming' = <<>>
        /\ UNCHANGED <<buf, stored, image, total>>
      BY <1>4 DEF Closes, files
  <2>2. Awaited' = <<>>
      BY <2>1 DEF Awaited
  <2>3. QED
      BY <1>1, <2>1, <2>2, CutOff DEF Types, NothingComes, Quiet
<1>5. CASE StationLost
  <2>1. /\ peer' = "closed" /\ input' = <<>> /\ coming' = <<>>
        /\ UNCHANGED <<buf, stored, image, total>>
      BY <1>5 DEF StationLost, files
  <2>2. Awaited' = <<>>
      BY <2>1 DEF Awaited
  <2>3. QED
      BY <1>1, <2>1, <2>2, CutOff DEF Types, NothingComes, Quiet
<1>6. QED
    BY <1>2, <1>3, <1>4, <1>5 DEF Peers

LEMMA PeersKeep == WebInv /\ Peers => WebInv'
<1> SUFFICES ASSUME WebInv, Peers PROVE WebInv'
    OBVIOUS
<1>1. /\ TypeOK /\ Types /\ Known /\ Place /\ Files /\ Answered
      /\ UploadStoresTheFile /\ HandledForItsOwnRequest
    BY DEF WebInv
<1>2. /\ UNCHANGED <<req, served, status, pc, handler, headers, part, postArgs, args,
                     buf, total, upFile, stored, authenticated, update, image, short, guessed, answers>>
    BY DEF Peers, Sends, FallsSilent, Closes, StationLost, parsed, files
<1>3. /\ \A w \in Tokens : \A i :
             Continues(input, Awaited, w, i) => Continues(input', Awaited', w, i)
      /\ NothingComes => NothingComes'
      /\ Types' /\ peer' \in {"sending", "silent", "closed"}
    BY <1>1, PeersContinue
<1>4. /\ Stream(req) \in Tokens /\ Body(req) \in Tokens /\ FormBody(req) \in Tokens
      /\ FilePart(req) \in Tokens /\ FileBytes(req) \in Tokens
  <2>1. req \in Requests
      BY <1>1 DEF TypeOK
  <2>2. QED
      BY <2>1, StreamIs, BodyIs, FormBodyIs, FilePartIs
<1>5. /\ (InRequest <=> InRequest') /\ (InForm <=> InForm') /\ (InFile <=> InFile')
    BY <1>2 DEF InRequest, InForm, InFile
<1>6. TypeOK' /\ (Leftover => Leftover')
    BY <1>1, <1>2, <1>3, <1>4 DEF TypeOK, Kinds, Leftover, Follows
<1>7. Known'
    BY <1>1, <1>2 DEF Known, InRequest, InForm, InFile, Posted, Query, ArgumentsSent, FileCame
<1>8. Place'
    BY <1>1, <1>2, <1>3, <1>4, <1>5, <1>6
    DEF Place, AtLine, AtHeaders, AtForm, AtPart, AtPartHead, AtField, AtFile,
        Follows, TextFirst, TextRead
<1>9. Files'
    BY <1>1, <1>2, <1>3, <1>4, <1>5, <1>6 DEF Files, Copied, Written, Follows
<1>10. Answered'
    BY <1>1, <1>2, <1>6 DEF Answered, FileCame, Posted
<1>11. UploadStoresTheFile' /\ HandledForItsOwnRequest'
    BY <1>1, <1>2 DEF UploadStoresTheFile, HandledForItsOwnRequest, ArgumentsSent, Query,
                      FileCame, Posted
<1>12. QED
    BY <1>3, <1>6, <1>7, <1>8, <1>9, <1>10, <1>11 DEF WebInv

-------------------------------------------------------------------------------
(* A client is dropped or a new one comes.                                 *)

LEMMA Dropped ==
    ASSUME WebInv, Drop, update' = "none",
           headers' \subseteq Header, postArgs' \subseteq Kinds, args' \subseteq Kinds,
           {buf', stored', image'} \subseteq Tokens, total' \in Nat, Len(buf') <= BufLen,
           upFile' \in {"none", "open", "closed"}, authenticated' \in BOOLEAN,
           short' \in BOOLEAN, guessed' \in BOOLEAN
    PROVE  WebInv'
<1>1. /\ status' = "NONE" /\ pc' = "idle" /\ peer' = "closed" /\ coming' = <<>>
      /\ input' = <<>> /\ req' = req /\ served' = served
    BY DEF Drop
<1>2. TypeOK'
    BY <1>1, Places DEF WebInv, TypeOK, Header, Kinds
<1>3. Types'
    BY <1>1, Lengths DEF Types
<1>4. ~InRequest' /\ ~InForm' /\ ~InFile'
    BY <1>1 DEF InRequest, InForm, InFile
<1>5. Known' /\ Place' /\ Answered'
    BY <1>1, <1>4 DEF Known, Place, Answered
<1>6. Files'
    BY <1>1, <1>4 DEF Files
<1>7. UploadStoresTheFile' /\ HandledForItsOwnRequest'
    BY <1>1 DEF UploadStoresTheFile, HandledForItsOwnRequest
<1>8. QED
    BY <1>2, <1>3, <1>5, <1>6, <1>7 DEF WebInv

\* Outside a form there is no update.
LEMMA NoUpdate ==
    ASSUME WebInv, ~InFile, pc \notin {"part", "tail", "handle"}
    PROVE  update = "none"
    BY DEF WebInv, Files

LEMMA DroppedBefore ==
    ASSUME WebInv, Drop, pc \in {"idle", "line", "plain", "form"},
           headers' \subseteq headers,
           UNCHANGED <<postArgs, args, buf, total, upFile, stored, authenticated, update,
                       image, short, guessed>>
    PROVE  WebInv'
<1>1. update' = "none"
    BY NoUpdate DEF InFile
<1>2. /\ headers' \subseteq Header /\ postArgs' \subseteq Kinds /\ args' \subseteq Kinds
      /\ {buf', stored', image'} \subseteq Tokens /\ total' \in Nat /\ Len(buf') <= BufLen
      /\ upFile' \in {"none", "open", "closed"} /\ authenticated' \in BOOLEAN
      /\ short' \in BOOLEAN /\ guessed' \in BOOLEAN
    BY DEF WebInv, TypeOK, Types, Header
<1>3. QED
    BY <1>1, <1>2, Dropped

LEMMA InitInv == Init => WebInv
<1> SUFFICES ASSUME Init PROVE WebInv
    OBVIOUS
<1>1. /\ <<>> \in Tokens /\ Len(<<>>) = 0 /\ BufLen \in Nat /\ MaxRequests \in Nat
    BY Lengths, Numbers
<1>2. TypeOK
  <2>1. /\ req \in Requests /\ served = 0 /\ peer = "closed" /\ status = "NONE"
        /\ pc = "idle" /\ headers = {} /\ postArgs = {} /\ args = {} /\ buf = <<>>
        /\ upFile = "none" /\ update = "none" /\ authenticated = FALSE
        /\ short = FALSE /\ guessed = FALSE
      BY DEF Init
  <2>2. served \in 0 .. MaxRequests /\ Len(buf) <= BufLen
      BY <1>1, <2>1
  <2>3. QED
      BY <2>1, <2>2 DEF TypeOK
<1>3. Types
    BY <1>1 DEF Init, Types
<1>4. pc = "idle" /\ status = "NONE" /\ update = "none"
    BY DEF Init
<1>5. ~InRequest /\ ~InForm /\ ~InFile
    BY <1>4 DEF InRequest, InForm, InFile
<1>6. Known /\ Place /\ Answered
    BY <1>4, <1>5 DEF Known, Place, Answered
<1>7. Files
    BY <1>4, <1>5 DEF Files
<1>8. UploadStoresTheFile /\ HandledForItsOwnRequest
    BY <1>4 DEF UploadStoresTheFile, HandledForItsOwnRequest
<1>9. QED
    BY <1>2, <1>3, <1>6, <1>7, <1>8 DEF WebInv

LEMMA GiveUpKeeps == WebInv /\ GiveUp => WebInv'
    BY DroppedBefore DEF GiveUp, parsed, files

LEMMA BadRequestKeeps == WebInv /\ BadRequest => WebInv'
    BY DroppedBefore DEF BadRequest, files

LEMMA BodyMissingKeeps == WebInv /\ BodyMissing => WebInv'
    BY DroppedBefore DEF BodyMissing, parsed, files

LEMMA NewClientKeeps == WebInv /\ NewClient => WebInv'
<1> SUFFICES ASSUME WebInv, NewClient PROVE WebInv'
    OBVIOUS
<1>1. /\ status' = "WAIT_READ" /\ peer' = "sending" /\ req' \in Requests
      /\ coming' = Stream(req') /\ input' = <<>> /\ answers' = 0
      /\ status = "NONE" /\ served < MaxRequests /\ served' = served + 1
      /\ UNCHANGED <<pc, handler, headers, part, postArgs, args, buf, total, upFile,
                     stored, authenticated, update, image, short, guessed>>
    BY DEF NewClient, parsed, files
<1>2. TypeOK /\ Types
    BY DEF WebInv
<1>3. pc = "idle"
    BY <1>1, <1>2 DEF TypeOK
<1>4. update = "none"
    BY <1>3, NoUpdate DEF InFile
<1>5. /\ TypeOK'
      /\ pc' = "idle"
    BY <1>1, <1>2, <1>3, Numbers DEF TypeOK, Kinds
<1>6. Stream(req') \in Tokens /\ <<>> \in Tokens /\ Len(<<>>) = 0
    BY <1>1, StreamIs, Lengths
<1>7. Types'
    BY <1>1, <1>2, <1>6 DEF Types
<1>8. ~InRequest' /\ ~InForm' /\ ~InFile'
    BY <1>5 DEF InRequest, InForm, InFile
<1>9. Awaited' = Stream(req')
    BY <1>1 DEF Awaited
<1>10. Continues(<<>>, Stream(req'), Stream(req'), 0)
  <2>1. PICK s \in Tokens : s = Stream(req')
      BY <1>6
  <2>2. Len(s) \in Nat
      BY <2>1, Lengths
  <2>3. Continues(<<>>, s, s, 0)
      BY <1>6, <2>2 DEF Continues
  <2>4. QED
      BY <2>1, <2>3
<1>11. AtLine'
    BY <1>1, <1>9, <1>10 DEF AtLine, Follows
<1>12. Known' /\ Answered'
    BY <1>1, <1>5, <1>8 DEF Known, Answered
<1>13. Place'
    BY <1>5, <1>8, <1>11 DEF Place
<1>14. Files'
    BY <1>1, <1>4, <1>5, <1>8 DEF Files
<1>15. UploadStoresTheFile' /\ HandledForItsOwnRequest'
    BY <1>1, <1>4, <1>5 DEF UploadStoresTheFile, HandledForItsOwnRequest
<1>16. QED
    BY <1>5, <1>7, <1>12, <1>13, <1>14, <1>15 DEF WebInv

LEMMA ParseKeeps == WebInv /\ Parse => WebInv'
<1> SUFFICES ASSUME WebInv, Parse PROVE WebInv'
    OBVIOUS
<1>1. /\ pc = "idle" /\ pc' = "line" /\ status = "WAIT_READ"
      /\ UNCHANGED <<req, served, peer, coming, input, status, handler, headers, part,
                     postArgs, args, buf, total, upFile, stored, authenticated, update,
                     image, short, guessed, answers>>
    BY DEF Parse, connection, parsed, files
<1>2. TypeOK /\ Types /\ Place /\ Answered
    BY DEF WebInv
<1>3. update = "none"
    BY <1>1, NoUpdate DEF InFile
<1>4. /\ ~InRequest /\ ~InRequest' /\ ~InForm' /\ ~InFile'
    BY <1>1 DEF InRequest, InForm, InFile
<1>5. TypeOK' /\ Types'
    BY <1>1, <1>2 DEF TypeOK, Types, Kinds
<1>6. AtLine'
    BY <1>1, <1>2, <1>4 DEF Place, AtLine, Follows, Awaited
<1>7. Known' /\ Place' /\ Answered'
    BY <1>1, <1>2, <1>4, <1>6 DEF Known, Place, Answered
<1>8. Files'
    BY <1>1, <1>3, <1>4 DEF Files
<1>9. UploadStoresTheFile' /\ HandledForItsOwnRequest'
    BY <1>1 DEF UploadStoresTheFile, HandledForItsOwnRequest
<1>10. QED
    BY <1>5, <1>7, <1>8, <1>9 DEF WebInv

-------------------------------------------------------------------------------
(* The lines of a request.                                                 *)

LEMMA Reading ==
    ASSUME Types, input # <<>>, input' = Tail(input), UNCHANGED <<peer, coming>>
    PROVE  /\ input' \in Tokens
           /\ \A w \in Tokens : \A i : Continues(input, Awaited, w, i) =>
                /\ Head(input) = w[i + 1] /\ i + 1 \in 1 .. Len(w)
                /\ Continues(input', Awaited', w, i + 1)
<1>1. input \in Tokens /\ Awaited \in Tokens /\ Awaited' = Awaited
    BY Lengths DEF Types, Awaited
<1>2. QED
    BY <1>1, Takes, Rest

\* The empty line is there, or what is still to come is nothing.
LEMMA ReadingLine ==
    ASSUME Types, NothingComes, input' = AfterLine, UNCHANGED <<peer, coming>>
    PROVE  /\ input' = <<>> /\ input' \in Tokens /\ NothingComes'
           /\ \A w \in Tokens : \A i \in 0 .. Len(w) : Continues(input', Awaited', w, i)
<1>1. input = <<>> /\ input' = <<>> /\ (peer # "sending" \/ coming = <<>>)
    BY DEF NothingComes, AfterLine, Quiet
<1>2. Awaited' = <<>>
    BY <1>1 DEF Awaited
<1>3. QED
    BY <1>1, <1>2, NothingContinues, Lengths DEF NothingComes, Quiet

LEMMA TokenRead ==
    ASSUME NEW t, Token(t)
    PROVE  input # <<>> /\ Head(input) = t /\ AfterLine = Tail(input)
    BY DEF Token, AfterLine

LEMMA ArgumentsAre ==
    ASSUME TypeOK, NEW K, K \subseteq {"query", "plain", "text"}
    PROVE  Arguments(K) = K \X {served} /\ Arguments(K) \subseteq Kinds
<1>1. \A x : x \in Arguments(K) <=> \E kind \in K : x = <<kind, served>>
    BY DEF Arguments
<1>2. \A x : x \in K \X {served} <=> \E kind \in K : x = <<kind, served>>
  <2>1. \A kind \in K : <<kind, served>> \in K \X {served}
      OBVIOUS
  <2>2. ASSUME NEW x \in K \X {served} PROVE \E kind \in K : x = <<kind, served>>
    <3>1. x = <<x[1], x[2]>> /\ x[1] \in K /\ x[2] = served
        OBVIOUS
    <3>2. QED
        BY <3>1
  <2>3. QED
      BY <2>1, <2>2
<1>3. Arguments(K) = K \X {served}
    BY <1>1, <1>2
<1>4. served \in 0 .. MaxRequests
    BY DEF TypeOK
<1>5. ASSUME NEW x \in Arguments(K) PROVE x \in Kinds
  <2>1. PICK kind \in K : x = <<kind, served>>
      BY <1>1
  <2>2. QED
      BY <1>4, <2>1 DEF Kinds
<1>6. QED
    BY <1>3, <1>5

LEMMA QueryIs == Query \subseteq {"query"}
    BY DEF Query

\* What the headers of a request say of its body.
LEMMA HeadersSay ==
    ASSUME WebInv, InRequest
    PROVE  /\ "auth" \in headers => req.auth
           /\ "type" \in headers => req.body = "form" /\ "length" \notin headers
           /\ "length" \in headers => req.body = "plain"
<1>1. headers \subseteq Sent(req)
    BY DEF WebInv, Known
<1>2. QED
    BY <1>1 DEF Sent

LEMMA FirstLineKeeps == WebInv /\ FirstLine => WebInv'
<1> SUFFICES ASSUME WebInv, FirstLine PROVE WebInv'
    OBVIOUS
<1>1. /\ pc = "line" /\ pc' = "headers" /\ headers' = {} /\ Token("line")
      /\ input' = Tail(input)
      /\ UNCHANGED <<req, served, peer, coming, status, part,
                     postArgs, args, buf, total, upFile, stored, authenticated, update,
                     image, short, guessed, answers>>
    BY DEF FirstLine, connection, files
<1>2. TypeOK /\ Types /\ Place /\ Answered
    BY DEF WebInv
<1>3. update = "none" /\ status = "WAIT_READ"
    BY <1>1, <1>2, NoUpdate DEF InFile, TypeOK
<1>4. /\ ~InRequest /\ InRequest' /\ ~InForm' /\ ~InFile'
    BY <1>1 DEF InRequest, InForm, InFile
<1>5. Stream(req) \in Tokens /\ HeaderLines(req) \in Tokens
    BY <1>2, StreamIs, HeaderLinesAre DEF TypeOK
<1>6. Follows(Stream(req), 0)
    BY <1>2, <1>3, <1>4 DEF Place, AtLine
<1>7. /\ input' \in Tokens
      /\ Continues(input', Awaited', Stream(req), 1)
    BY <1>1, <1>2, <1>5, <1>6, Reading, TokenRead DEF Follows
<1>8. AtHeaders'
  <2>1. Len(HeaderLines(req)) \in Nat
      BY <1>5, Lengths
  <2>2. 1 \in 1 .. 1 + Len(HeaderLines(req))
      BY <2>1
  <2>3. QED
      BY <1>1, <1>7, <2>2 DEF AtHeaders, Follows
<1>9. TypeOK' /\ Types'
    BY <1>1, <1>2, <1>3, <1>7 DEF TypeOK, Types, Kinds
<1>10. Known' /\ Place' /\ Answered'
    BY <1>1, <1>2, <1>3, <1>4, <1>8 DEF Known, Place, Answered
<1>11. Files'
    BY <1>1, <1>3, <1>4 DEF Files
<1>12. UploadStoresTheFile' /\ HandledForItsOwnRequest'
    BY <1>1, <1>3 DEF UploadStoresTheFile, HandledForItsOwnRequest
<1>13. QED
    BY <1>9, <1>10, <1>11, <1>12 DEF WebInv

\* A header line of the request follows, or the empty line behind them.
LEMMA HeadersFollow ==
    ASSUME WebInv, pc = "headers", input # <<>>, input' = Tail(input),
           UNCHANGED <<req, peer, coming>>
    PROVE  \/ Head(input) \in Sent(req) /\ AtHeaders'
           \/ Head(input) = "blank" /\ Continues(input', Awaited', Body(req), 0)
<1>1. Types /\ AtHeaders /\ req \in Requests
    BY DEF WebInv, Place, TypeOK
<1>2. Stream(req) \in Tokens /\ Body(req) \in Tokens
    BY <1>1, StreamIs, BodyIs
<1>3. PICK h \in Nat :
        /\ h = Len(HeaderLines(req))
        /\ \A k \in 1 .. h : Stream(req)[1 + k] \in Sent(req)
        /\ Stream(req)[h + 2] = "blank"
        /\ EndsWith(Stream(req), Body(req), h + 2)
    BY <1>1, StreamIs
<1>4. PICK i \in 1 .. 1 + h : Continues(input, Awaited, Stream(req), i)
    BY <1>1, <1>3 DEF AtHeaders, Follows
<1>5. /\ Head(input) = Stream(req)[i + 1] /\ input' \in Tokens
      /\ Continues(input', Awaited', Stream(req), i + 1)
    BY <1>1, <1>2, <1>4, Reading
<1>6. CASE i \in 1 .. h
  <2>1. Head(input) \in Sent(req)
    <3>1. i + 1 = 1 + i
        OBVIOUS
    <3>2. QED
        BY <1>3, <1>5, <1>6, <3>1
  <2>2. i + 1 \in 1 .. 1 + h
      BY <1>6
  <2>3. AtHeaders'
      BY <1>3, <1>5, <2>2 DEF AtHeaders, Follows
  <2>4. QED
      BY <2>1, <2>3
<1>7. CASE i = h + 1
  <2>1. Head(input) = "blank" /\ i + 1 = (h + 2) + 0 /\ h + 2 \in Nat /\ 0 \in Nat
      BY <1>3, <1>5, <1>7
  <2>2. Awaited' \in Tokens
      BY <1>1, Lengths DEF Types, Awaited
  <2>3. PICK m \in Nat : m = h + 2
      BY <2>1
  <2>4. Continues(input', Awaited', Stream(req), m + 0)
      BY <1>5, <2>1, <2>3
  <2>5. EndsWith(Stream(req), Body(req), m)
      BY <1>3, <2>3
  <2>6. Continues(input', Awaited', Body(req), 0)
      BY <1>2, <1>5, <2>1, <2>2, <2>4, <2>5, Ending
  <2>7. QED
      BY <2>1, <2>6
<1>8. QED
    BY <1>4, <1>6, <1>7

LEMMA ReadHeaderKeeps == WebInv /\ ReadHeader => WebInv'
<1> SUFFICES ASSUME WebInv, ReadHeader PROVE WebInv'
    OBVIOUS
<1>1. /\ pc = "headers" /\ pc' = "headers" /\ input # <<>> /\ Head(input) \in Header
      /\ headers' = headers \cup {Head(input)} /\ input' = Tail(input)
      /\ UNCHANGED <<req, served, peer, coming, status, handler, part,
                     postArgs, args, buf, total, upFile, stored, authenticated, update,
                     image, short, guessed, answers>>
    BY DEF ReadHeader, connection, files, Header
<1>2. TypeOK /\ Types /\ Known /\ Answered
    BY DEF WebInv
<1>3. update = "none" /\ status = "WAIT_READ"
    BY <1>1, <1>2, NoUpdate DEF InFile, TypeOK
<1>4. /\ InRequest /\ InRequest' /\ ~InForm' /\ ~InFile'
    BY <1>1 DEF InRequest, InForm, InFile
<1>5. Head(input) \in Sent(req) /\ AtHeaders'
    BY <1>1, HeadersFollow DEF Header
<1>6. input' \in Tokens
    BY <1>1, <1>2, Reading
<1>7. TypeOK' /\ Types'
    BY <1>1, <1>2, <1>3, <1>6 DEF TypeOK, Types, Kinds, Header
<1>8. Known' /\ Place' /\ Answered'
    BY <1>1, <1>2, <1>3, <1>4, <1>5 DEF Known, Place, Answered
<1>9. Files'
    BY <1>1, <1>3, <1>4 DEF Files
<1>10. UploadStoresTheFile' /\ HandledForItsOwnRequest'
    BY <1>1, <1>3 DEF UploadStoresTheFile, HandledForItsOwnRequest
<1>11. QED
    BY <1>7, <1>8, <1>9, <1>10 DEF WebInv

LEMMA HeadersEndKeeps == WebInv /\ HeadersEnd => WebInv'
<1> SUFFICES ASSUME WebInv, HeadersEnd PROVE WebInv'
    OBVIOUS
<1>1. /\ pc = "headers" /\ (Token("blank") \/ NothingComes)
      /\ UNCHANGED <<req, served, peer, coming, status, handler, headers, part,
                     buf, total, upFile, stored, authenticated, update, image, short, guessed, answers>>
    BY DEF HeadersEnd, connection, files
<1>2. TypeOK /\ Types /\ Known /\ Answered
    BY DEF WebInv
<1>3. update = "none" /\ status = "WAIT_READ"
    BY <1>1, <1>2, NoUpdate DEF InFile, TypeOK
<1>4. InRequest /\ headers \subseteq Sent(req) /\ answers = 0
    BY <1>1, <1>2, <1>3 DEF InRequest, Known, Answered
<1>5. Query \subseteq {"query", "plain", "text"}
    BY QueryIs
<1>6. Arguments(Query) = Query \X {served} /\ Arguments(Query) \subseteq Kinds
    BY <1>2, <1>5, ArgumentsAre
<1>7. CASE /\ req.method = "POST" /\ "type" \in headers
           /\ args' = Arguments(Query) /\ postArgs' = {} /\ pc' = "form"
           /\ input' = AfterLine
  <2>1. /\ input' \in Tokens
        /\ Continues(input', Awaited', Body(req), 0)
    <3>1. CASE Token("blank")
      <4>1. input # <<>> /\ Head(input) = "blank" /\ input' = Tail(input)
          BY <1>7, <3>1, TokenRead
      <4>2. QED
          BY <1>1, <1>2, <4>1, HeadersFollow, Reading DEF Sent, Header
    <3>2. CASE NothingComes
      <4>1. Body(req) \in Tokens
          BY <1>2, BodyIs DEF TypeOK
      <4>2. 0 \in 0 .. Len(Body(req))
          BY <4>1, Lengths
      <4>3. QED
          BY <1>1, <1>2, <1>7, <3>2, <4>1, <4>2, ReadingLine
    <3>3. QED
        BY <1>1, <3>1, <3>2
  <2>2. InRequest' /\ InForm' /\ ~InFile'
      BY <1>7 DEF InRequest, InForm, InFile
  <2>3. TypeOK' /\ Types'
      BY <1>1, <1>2, <1>3, <1>6, <1>7, <2>1 DEF TypeOK, Types, Kinds
  <2>4. Known'
      BY <1>1, <1>4, <1>6, <1>7, <2>2 DEF Known, Posted, Query
  <2>5. Place' /\ Answered'
      BY <1>1, <1>4, <1>7, <2>1, <2>2 DEF Place, AtForm, Follows, Answered
  <2>6. Files'
      BY <1>1, <1>3, <1>7, <2>2 DEF Files
  <2>7. UploadStoresTheFile' /\ HandledForItsOwnRequest'
      BY <1>1, <1>3, <1>7 DEF UploadStoresTheFile, HandledForItsOwnRequest
  <2>8. QED
      BY <2>3, <2>4, <2>5, <2>6, <2>7 DEF WebInv
<1>8. CASE /\ req.method = "POST" /\ "length" \in headers
           /\ pc' = "plain" /\ input' = AfterLine /\ UNCHANGED <<args, postArgs>>
  <2>1. input' \in Tokens
      BY <1>2, <1>8, Lengths, Rest DEF Types, AfterLine
  <2>2. InRequest' /\ ~InForm' /\ ~InFile'
      BY <1>8 DEF InRequest, InForm, InFile
  <2>3. TypeOK' /\ Types'
      BY <1>1, <1>2, <1>3, <1>8, <2>1 DEF TypeOK, Types, Kinds
  <2>4. Known'
      BY <1>1, <1>4, <1>8, <2>2 DEF Known, Posted
  <2>5. Place' /\ Answered'
      BY <1>1, <1>4, <1>8, <2>2 DEF Place, Answered
  <2>6. Files'
      BY <1>1, <1>3, <1>8, <2>2 DEF Files
  <2>7. UploadStoresTheFile' /\ HandledForItsOwnRequest'
      BY <1>1, <1>3, <1>8 DEF UploadStoresTheFile, HandledForItsOwnRequest
  <2>8. QED
      BY <2>3, <2>4, <2>5, <2>6, <2>7 DEF WebInv
<1>9. CASE /\ req.method = "GET" \/ headers \cap {"type", "length"} = {}
           /\ args' = Arguments(Query) /\ pc' = "handle" /\ input' = <<>>
           /\ UNCHANGED postArgs
  <2>1. ~Posted("type") /\ ~Posted("length") /\ ~Posted("type")' /\ ~Posted("length")'
      BY <1>1, <1>9 DEF Posted
  <2>2. InRequest' /\ ~InForm' /\ ~InFile'
      BY <1>9 DEF InRequest, InForm, InFile
  <2>3. TypeOK' /\ Types'
      BY <1>1, <1>2, <1>3, <1>6, <1>9, Lengths DEF TypeOK, Types, Kinds
  <2>4. ~FileCame' /\ args' = ArgumentsSent' \X {served'}
    <3>1. Query' = Query
        BY <1>1 DEF Query
    <3>2. ArgumentsSent' = Query
        BY <2>1, <3>1 DEF ArgumentsSent
    <3>3. QED
        BY <1>1, <1>6, <1>9, <2>1, <3>2 DEF FileCame
  <2>5. Known'
      BY <1>1, <1>4, <1>9, <2>2, <2>4 DEF Known
  <2>6. Place' /\ Answered'
      BY <1>1, <1>4, <1>9, <2>2, <2>4 DEF Place, Answered
  <2>7. Files'
      BY <1>1, <1>3, <1>9, <2>2 DEF Files
  <2>8. UploadStoresTheFile' /\ HandledForItsOwnRequest'
      BY <1>1, <1>3, <1>4, <1>9, <2>4, HeadersSay
      DEF UploadStoresTheFile, HandledForItsOwnRequest
  <2>9. QED
      BY <2>3, <2>5, <2>6, <2>7, <2>8 DEF WebInv
<1>10. QED
    BY <1>7, <1>8, <1>9 DEF HeadersEnd

LEMMA ReadPlainKeeps == WebInv /\ ReadPlain => WebInv'
<1> SUFFICES ASSUME WebInv, ReadPlain PROVE WebInv'
    OBVIOUS
<1>1. /\ pc = "plain" /\ pc' = "handle" /\ input' = <<>>
      /\ args' = Arguments(Query \cup {"plain"})
      /\ UNCHANGED <<req, served, peer, coming, status, handler, headers, part, postArgs,
                     buf, total, upFile, stored, authenticated, update, image, short, guessed, answers>>
    BY DEF ReadPlain, connection, files
<1>2. TypeOK /\ Types /\ Known /\ Answered
    BY DEF WebInv
<1>3. update = "none" /\ status = "WAIT_READ"
    BY <1>1, <1>2, NoUpdate DEF InFile, TypeOK
<1>4. /\ InRequest /\ headers \subseteq Sent(req) /\ answers = 0 /\ Posted("length")
      /\ ~Posted("type")
    BY <1>1, <1>2, <1>3, HeadersSay DEF InRequest, Known, Answered, Posted
<1>5. Query \cup {"plain"} \subseteq {"query", "plain", "text"}
    BY QueryIs
<1>6. /\ args' = (Query \cup {"plain"}) \X {served}
      /\ args' \subseteq Kinds
    BY <1>1, <1>2, <1>5, ArgumentsAre
<1>7. InRequest' /\ ~InForm' /\ ~InFile'
    BY <1>1 DEF InRequest, InForm, InFile
<1>8. TypeOK' /\ Types'
    BY <1>1, <1>2, <1>3, <1>6, Lengths DEF TypeOK, Types, Kinds
<1>9. ~FileCame' /\ args' = ArgumentsSent' \X {served'}
  <2>1. Query' = Query /\ Posted("length")' /\ ~Posted("type")'
      BY <1>1, <1>4 DEF Query, Posted
  <2>2. ArgumentsSent' = Query \cup {"plain"}
      BY <2>1 DEF ArgumentsSent
  <2>3. QED
      BY <1>1, <1>6, <2>1, <2>2 DEF FileCame
<1>10. Known' /\ Place' /\ Answered'
    BY <1>1, <1>4, <1>7, <1>9 DEF Known, Place, Answered
<1>11. Files'
    BY <1>1, <1>3, <1>7 DEF Files
<1>12. UploadStoresTheFile' /\ HandledForItsOwnRequest'
    BY <1>1, <1>3, <1>4, <1>9, HeadersSay
    DEF UploadStoresTheFile, HandledForItsOwnRequest
<1>13. QED
    BY <1>8, <1>10, <1>11, <1>12 DEF WebInv

-------------------------------------------------------------------------------
(* The parts of a form.                                                    *)

LEMMA FormBeginsKeeps == WebInv /\ FormBegins => WebInv'
<1> SUFFICES ASSUME WebInv, FormBegins PROVE WebInv'
    OBVIOUS
<1>1. /\ pc = "form" /\ pc' = "part" /\ Token("boundary") /\ input' = Tail(input)
      /\ UNCHANGED <<req, served, peer, coming, status, handler, headers, part, postArgs,
                     args, buf, total, upFile, stored, authenticated, update, image, short, guessed,
                     answers>>
    BY DEF FormBegins, connection, parsed, files
<1>2. TypeOK /\ Types /\ Known /\ Place /\ Answered
    BY DEF WebInv
<1>3. update = "none" /\ status = "WAIT_READ"
    BY <1>1, <1>2, NoUpdate DEF InFile, TypeOK
<1>4. /\ InRequest /\ InForm /\ InRequest' /\ InForm' /\ ~InFile'
    BY <1>1 DEF InRequest, InForm, InFile
<1>5. /\ postArgs = {} /\ Continues(input, Awaited, Body(req), 0)
      /\ Posted("type") /\ answers = 0
    BY <1>1, <1>2, <1>3, <1>4 DEF Place, AtForm, Follows, Known, Answered
<1>6. /\ Body(req) \in Tokens /\ FormBody(req) \in Tokens
      /\ EndsWith(Body(req), FormBody(req), 1)
    BY <1>2, <1>4, <1>5, HeadersSay, BodyIs, FormBodyIs DEF TypeOK, Posted
<1>7. input' \in Tokens /\ Continues(input', Awaited', Body(req), 1)
    BY <1>1, <1>2, <1>5, <1>6, TokenRead, Reading
<1>8. Continues(input', Awaited', FormBody(req), 0)
  <2>1. Awaited' \in Tokens
      BY <1>1, <1>2, Lengths DEF Types, Awaited
  <2>2. PICK j \in Nat : j = 0
      OBVIOUS
  <2>3. PICK m \in Nat : m = 1
      OBVIOUS
  <2>4. Continues(input', Awaited', Body(req), m + j) /\ EndsWith(Body(req), FormBody(req), m)
      BY <1>6, <1>7, <2>2, <2>3
  <2>5. Continues(input', Awaited', FormBody(req), j)
      BY <1>6, <1>7, <2>1, <2>4, Ending
  <2>6. QED
      BY <2>2, <2>5
<1>9. TypeOK' /\ Types'
    BY <1>1, <1>2, <1>3, <1>7 DEF TypeOK, Types, Kinds
<1>10. Known'
    BY <1>1, <1>2, <1>4 DEF Known, Posted, Query
<1>11. Place' /\ Answered'
    BY <1>1, <1>4, <1>5, <1>8 DEF Place, AtPart, Follows, Answered
<1>12. Files'
    BY <1>1, <1>3, <1>4 DEF Files
<1>13. UploadStoresTheFile' /\ HandledForItsOwnRequest'
    BY <1>1, <1>3 DEF UploadStoresTheFile, HandledForItsOwnRequest
<1>14. QED
    BY <1>9, <1>10, <1>11, <1>12, <1>13 DEF WebInv

\* Nothing is a rest of a file, too.
LEMMA NothingLeft ==
    ASSUME NEW r \in Requests
    PROVE  Continues(<<>>, <<>>, FileBytes(r), 0)
<1>1. PICK w \in Tokens : w = FileBytes(r)
    BY FilePartIs
<1>2. 0 \in 0 .. Len(w)
    BY Lengths
<1>3. Continues(<<>>, <<>>, w, 0)
    BY <1>2, NothingContinues
<1>4. QED
    BY <1>1, <1>3

\* No token of a file begins a part of a form.
LEMMA NoPart ==
    ASSUME NEW r \in Requests
    PROVE  \A k \in 1 .. Len(FileBytes(r)) : FileBytes(r)[k] \notin {"field", "file"}
<1>1. PICK l \in Nat : l = Len(r.content)
    BY Content
<1>2. PICK n \in Nat : n = Len(Boundary)
    BY BoundaryBytes
<1>3. PICK w \in Tokens : w = FileBytes(r)
    BY FilePartIs
<1>4. /\ n \in Nat \ {0} /\ Len(w) = l + 4 + n + 1
      /\ \A k \in 1 .. l : w[k] = r.content[k]
      /\ w[l + 1] = "CR" /\ w[l + 2] = "LF" /\ w[l + 3] = "-" /\ w[l + 4] = "-"
      /\ \A k \in 1 .. n : w[l + 4 + k] = Boundary[k]
      /\ w[l + 4 + n + 1] = "last"
    BY <1>3, <1>1, <1>2, FileBytesAre DEF FileOf
<1>5. \A k \in 1 .. n : Boundary[k] \in {"b", "c"}
    BY <1>2, BoundaryBytes
<1>6. \A k \in 1 .. l : r.content[k] \in {"x", "CR", "LF", "-"}
    BY <1>1, Content DEF Bytes
<1>7. ASSUME NEW k \in 1 .. l + 4 + n + 1 PROVE w[k] \notin {"field", "file"}
  <2>1. CASE k \in 1 .. l
      BY <1>4, <1>6, <2>1
  <2>2. CASE k \in {l + 1, l + 2, l + 3, l + 4}
      BY <1>4, <2>2
  <2>3. CASE k \in l + 5 .. l + 4 + n
    <3>1. PICK j \in 1 .. n : k = l + 4 + j
      <4>1. k - (l + 4) \in 1 .. n /\ k = l + 4 + (k - (l + 4))
          BY <2>3
      <4>2. QED
          BY <4>1
    <3>2. w[k] = Boundary[j] /\ Boundary[j] \in {"b", "c"}
        BY <1>4, <1>5, <3>1
    <3>3. QED
        BY <3>2
  <2>4. CASE k = l + 4 + n + 1
      BY <1>4, <2>4
  <2>5. \/ k \in 1 .. l \/ k \in {l + 1, l + 2, l + 3, l + 4}
        \/ k \in l + 5 .. l + 4 + n \/ k = l + 4 + n + 1
      OBVIOUS
  <2>6. QED
      BY <2>1, <2>2, <2>3, <2>4, <2>5
<1>8. QED
    BY <1>3, <1>4, <1>7

\* What is left of a file stays that when a token of it is read.
LEMMA LeftoverRead ==
    ASSUME WebInv, Leftover, input # <<>>, input' = Tail(input),
           UNCHANGED <<req, peer, coming>>
    PROVE  Leftover' /\ Head(input) \notin {"field", "file"}
<1>1. Types /\ req \in Requests
    BY DEF WebInv, TypeOK
<1>2. PICK w \in Tokens : w = FileBytes(req)
    BY <1>1, FilePartIs
<1>3. PICK i \in Nat : Continues(input, Awaited, w, i)
    BY <1>2 DEF Leftover, Follows
<1>4. /\ Head(input) = w[i + 1] /\ i + 1 \in 1 .. Len(w)
      /\ Continues(input', Awaited', w, i + 1)
    BY <1>1, <1>3, Reading
<1>5. Head(input) \notin {"field", "file"}
    BY <1>1, <1>2, <1>4, NoPart
<1>6. FileBytes(req') = w
    BY <1>2
<1>7. i + 1 \in Nat
    OBVIOUS
<1>8. Leftover'
    BY <1>4, <1>6, <1>7 DEF Leftover, Follows
<1>9. QED
    BY <1>5, <1>8

\* The next part is the text field, or the file.
LEMMA PartsFollow ==
    ASSUME WebInv, pc = "part", ~Leftover, input # <<>>, input' = Tail(input),
           UNCHANGED <<req, peer, coming>>
    PROVE  \/ /\ Head(input) = "field" /\ req.field /\ postArgs = {}
              /\ Continues(input', Awaited', FormBody(req), 1)
           \/ /\ Head(input) = "file" /\ req.file /\ TextFirst
              /\ Continues(input', Awaited', FilePart(req), 1)
<1>1. Types /\ AtPart /\ req \in Requests
    BY DEF WebInv, Place, TypeOK
<1>2. /\ FormBody(req) \in Tokens /\ FilePart(req) \in Tokens
      /\ req.field \in BOOLEAN /\ req.file \in BOOLEAN
      /\ ~req.field => FormBody(req) = FilePart(req)
      /\ req.field => FormBody(req)[1] = "field"
      /\ ~req.file => FilePart(req) = <<>>
      /\ req.file => FilePart(req)[1] = "file"
    BY <1>1, FormBodyIs, FilePartIs, Request
<1>3. \A w \in Tokens : Continues(input, Awaited, w, 0) =>
          /\ Head(input) = w[1] /\ w # <<>>
          /\ Continues(input', Awaited', w, 1)
  <2> SUFFICES ASSUME NEW w \in Tokens, Continues(input, Awaited, w, 0)
               PROVE  /\ Head(input) = w[1] /\ w # <<>>
                      /\ Continues(input', Awaited', w, 1)
      OBVIOUS
  <2>1. /\ Head(input) = w[0 + 1] /\ 0 + 1 \in 1 .. Len(w)
        /\ Continues(input', Awaited', w, 0 + 1)
      BY <1>1, Reading
  <2>2. 0 + 1 = 1 /\ w # <<>>
      BY <2>1, Lengths
  <2>3. QED
      BY <2>1, <2>2
<1>4. CASE postArgs = {} /\ Continues(input, Awaited, FormBody(req), 0)
  <2>1. CASE req.field
      BY <1>2, <1>3, <1>4, <2>1
  <2>2. CASE ~req.field
    <3>1. Continues(input, Awaited, FilePart(req), 0)
        BY <1>2, <1>4, <2>2
    <3>2. /\ FilePart(req) # <<>> /\ Head(input) = FilePart(req)[1]
          /\ Continues(input', Awaited', FilePart(req), 1)
        BY <1>2, <1>3, <3>1
    <3>3. req.file
        BY <1>2, <3>2
    <3>4. QED
        BY <1>2, <1>4, <2>2, <3>2, <3>3 DEF TextFirst
  <2>3. QED
      BY <1>2, <2>1, <2>2
<1>5. CASE /\ req.field /\ req.file /\ postArgs = TextRead
           /\ Continues(input, Awaited, FilePart(req), 0)
    BY <1>2, <1>3, <1>5 DEF TextFirst
<1>6. QED
    BY <1>1, <1>4, <1>5 DEF AtPart, Follows

LEMMA ReadPartKeeps == WebInv /\ ReadPart => WebInv'
<1> SUFFICES ASSUME WebInv, ReadPart PROVE WebInv'
    OBVIOUS
<1>1. /\ pc = "part" /\ input # <<>> /\ input' = Tail(input)
      /\ IF Head(input) \in {"field", "file"}
           THEN part' = Head(input) /\ pc' = "parthead"
           ELSE part' = part /\ pc' = pc
      /\ UNCHANGED <<req, served, peer, coming, status, handler, headers, postArgs,
                     args, buf, total, upFile, stored, authenticated, update, image, short, guessed,
                     answers>>
    BY DEF ReadPart, connection, files
<1>2. TypeOK /\ Types /\ Known /\ Answered /\ Files /\ UploadStoresTheFile
      /\ HandledForItsOwnRequest /\ Place
    BY DEF WebInv
<1>3. status = "WAIT_READ" /\ InRequest /\ InForm /\ ~InFile
    BY <1>1, <1>2 DEF TypeOK, InRequest, InForm, InFile
<1>4. input' \in Tokens
    BY <1>1, <1>2, Reading
<1>5. CASE Leftover
  <2>1. Leftover' /\ part' = part /\ pc' = "part"
      BY <1>1, <1>5, LeftoverRead
  <2>2. InRequest' /\ InForm' /\ ~InFile'
      BY <2>1 DEF InRequest, InForm, InFile
  <2>3. TypeOK' /\ Types'
      BY <1>1, <1>2, <1>3, <1>4, <2>1 DEF TypeOK, Types, Kinds
  <2>4. Known'
      BY <1>1, <1>2, <1>3, <2>1, <2>2 DEF Known, Posted, Query
  <2>5. Place' /\ Answered'
      BY <1>1, <2>1, <2>2 DEF Place, AtPart, Answered
  <2>6. Files'
      BY <1>1, <1>2, <2>1, <2>2, <1>3 DEF Files
  <2>7. UploadStoresTheFile' /\ HandledForItsOwnRequest'
      BY <1>1, <1>3, <2>1 DEF UploadStoresTheFile, HandledForItsOwnRequest
  <2>8. QED
      BY <2>3, <2>4, <2>5, <2>6, <2>7 DEF WebInv
<1>6. CASE ~Leftover
  <2>1. update = "none" /\ answers = 0
      BY <1>1, <1>2, <1>3, <1>6 DEF Files, Answered
  <2>2. \/ /\ Head(input) = "field" /\ req.field /\ postArgs = {}
           /\ Continues(input', Awaited', FormBody(req), 1)
        \/ /\ Head(input) = "file" /\ req.file /\ TextFirst
           /\ Continues(input', Awaited', FilePart(req), 1)
      BY <1>1, <1>6, PartsFollow
  <2>3. pc' = "parthead" /\ part' = Head(input)
      BY <1>1, <2>2
  <2>4. InRequest' /\ InForm' /\ ~InFile'
      BY <2>3 DEF InRequest, InForm, InFile
  <2>5. TypeOK' /\ Types'
      BY <1>1, <1>2, <1>3, <1>4, <2>1, <2>3 DEF TypeOK, Types, Kinds
  <2>6. Known'
      BY <1>1, <1>2, <1>3, <2>3, <2>4 DEF Known, Posted, Query
  <2>7. AtPartHead'
      BY <1>1, <2>2, <2>3 DEF AtPartHead, Follows, TextFirst, TextRead
  <2>8. Place' /\ Answered'
      BY <1>1, <2>1, <2>3, <2>4, <2>7 DEF Place, Answered
  <2>9. Files'
      BY <1>1, <2>1, <2>3, <2>4 DEF Files
  <2>10. UploadStoresTheFile' /\ HandledForItsOwnRequest'
      BY <1>1, <1>3, <2>3 DEF UploadStoresTheFile, HandledForItsOwnRequest
  <2>11. QED
      BY <2>5, <2>6, <2>8, <2>9, <2>10 DEF WebInv
<1>7. QED
    BY <1>5, <1>6

LEMMA FieldBeginsKeeps == WebInv /\ FieldBegins => WebInv'
<1> SUFFICES ASSUME WebInv, FieldBegins PROVE WebInv'
    OBVIOUS
<1>1. /\ pc = "parthead" /\ pc' = "field" /\ part = "field" /\ input' = AfterLine
      /\ (Token("blank") \/ NothingComes)
      /\ UNCHANGED <<req, served, peer, coming, status, handler, headers, part, postArgs,
                     args, buf, total, upFile, stored, authenticated, update, image, short, guessed,
                     answers>>
    BY DEF FieldBegins, connection, parsed, files
<1>2. TypeOK /\ Types /\ Known /\ Place /\ Answered
    BY DEF WebInv
<1>3. update = "none" /\ status = "WAIT_READ"
    BY <1>1, <1>2, NoUpdate DEF InFile, TypeOK
<1>4. /\ InRequest /\ InForm /\ InRequest' /\ InForm' /\ ~InFile'
    BY <1>1 DEF InRequest, InForm, InFile
<1>5. /\ req.field /\ postArgs = {} /\ Continues(input, Awaited, FormBody(req), 1)
      /\ answers = 0
    BY <1>1, <1>2, <1>3 DEF Place, AtPartHead, Follows, Answered
<1>6. /\ FormBody(req) \in Tokens /\ FilePart(req) \in Tokens
      /\ EndsWith(FormBody(req), FilePart(req), 4)
    BY <1>2, <1>5, FormBodyIs, FilePartIs DEF TypeOK
<1>7. input' \in Tokens /\ Continues(input', Awaited', FormBody(req), 2)
  <2>1. CASE Token("blank")
    <3>1. /\ input' \in Tokens
          /\ Continues(input', Awaited', FormBody(req), 1 + 1)
        BY <1>1, <1>2, <1>5, <1>6, <2>1, TokenRead, Reading
    <3>2. 1 + 1 = 2
        OBVIOUS
    <3>3. QED
        BY <3>1, <3>2
  <2>2. CASE NothingComes
    <3>1. 2 \in 0 .. Len(FormBody(req))
      <4>1. Len(FormBody(req)) = 4 + Len(FilePart(req)) /\ Len(FilePart(req)) \in Nat
          BY <1>6, Lengths DEF EndsWith
      <4>2. QED
          BY <4>1
    <3>2. QED
        BY <1>1, <1>2, <1>6, <2>2, <3>1, ReadingLine
  <2>3. QED
      BY <1>1, <2>1, <2>2
<1>8. TypeOK' /\ Types'
    BY <1>1, <1>2, <1>3, <1>7 DEF TypeOK, Types, Kinds
<1>9. Known'
    BY <1>1, <1>2, <1>4 DEF Known, Posted, Query
<1>10. Place' /\ Answered'
    BY <1>1, <1>4, <1>5, <1>7 DEF Place, AtField, Follows, Answered
<1>11. Files'
    BY <1>1, <1>3, <1>4 DEF Files
<1>12. UploadStoresTheFile' /\ HandledForItsOwnRequest'
    BY <1>1, <1>3 DEF UploadStoresTheFile, HandledForItsOwnRequest
<1>13. QED
    BY <1>8, <1>9, <1>10, <1>11, <1>12 DEF WebInv

\* The text field goes on with its text, and with what ends it.
LEMMA FieldFollows ==
    ASSUME WebInv, pc = "field", input # <<>>, input' = Tail(input),
           UNCHANGED <<req, peer, coming>>
    PROVE  \/ /\ Head(input) = "text"
              /\ Continues(input', Awaited', FormBody(req), 3)
           \/ /\ Head(input) = "boundary" /\ req.file
              /\ Continues(input', Awaited', FilePart(req), 0)
           \/ Head(input) = "end" /\ ~req.file
<1>1. Types /\ AtField /\ req \in Requests /\ input' \in Tokens
    BY Reading DEF WebInv, Place, TypeOK
<1>2. /\ FormBody(req) \in Tokens /\ FilePart(req) \in Tokens
      /\ FormBody(req)[3] = "text"
      /\ FormBody(req)[4] = IF req.file THEN "boundary" ELSE "end"
      /\ EndsWith(FormBody(req), FilePart(req), 4)
      /\ req.file \in BOOLEAN
    BY <1>1, FormBodyIs, FilePartIs, Request DEF AtField
<1>3. CASE Continues(input, Awaited, FormBody(req), 2)
  <2>1. Head(input) = FormBody(req)[2 + 1] /\ Continues(input', Awaited', FormBody(req), 2 + 1)
      BY <1>1, <1>2, <1>3, Reading
  <2>2. 2 + 1 = 3
      OBVIOUS
  <2>3. QED
      BY <1>2, <2>1, <2>2
<1>4. CASE Continues(input, Awaited, FormBody(req), 3)
  <2>1. Head(input) = FormBody(req)[3 + 1] /\ Continues(input', Awaited', FormBody(req), 3 + 1)
      BY <1>1, <1>2, <1>4, Reading
  <2>2. 3 + 1 = 4 /\ 4 + 0 = 4
      OBVIOUS
  <2>3. Awaited' \in Tokens
      BY <1>1, Lengths DEF Types, Awaited
  <2>4. PICK m \in Nat : m = 4
      OBVIOUS
  <2>5. PICK j \in Nat : j = 0
      OBVIOUS
  <2>6. Continues(input', Awaited', FormBody(req), m + j)
      BY <2>1, <2>2, <2>4, <2>5
  <2>7. Continues(input', Awaited', FilePart(req), j)
      BY <1>1, <1>2, <2>3, <2>4, <2>6, Ending
  <2>8. QED
      BY <1>2, <2>1, <2>2, <2>5, <2>7
<1>5. QED
    BY <1>1, <1>3, <1>4 DEF AtField, Follows

LEMMA ReadFieldKeeps == WebInv /\ ReadField => WebInv'
<1> SUFFICES ASSUME WebInv, ReadField PROVE WebInv'
    OBVIOUS
<1>1. /\ pc = "field"
      /\ UNCHANGED <<req, served, peer, coming, status, handler, headers, part,
                     buf, total, upFile, stored, authenticated, update, image, short, guessed, answers>>
    BY DEF ReadField, connection, files
<1>2. TypeOK /\ Types /\ Known /\ Place /\ Answered
    BY DEF WebInv
<1>3. update = "none" /\ status = "WAIT_READ"
    BY <1>1, <1>2, NoUpdate DEF InFile, TypeOK
<1>4. InRequest /\ InForm
    BY <1>1 DEF InRequest, InForm
<1>5. /\ req.field /\ postArgs = {} /\ answers = 0
      /\ Posted("type") /\ args = Query \X {served} /\ headers \subseteq Sent(req)
    BY <1>1, <1>2, <1>3, <1>4 DEF Place, AtField, Answered, Known
<1>6. /\ Arguments({"text"}) = TextRead /\ Arguments({"text"}) \subseteq Kinds
      /\ {"text"} \X {served} = TextRead
  <2>1. /\ Arguments({"text"}) = {"text"} \X {served}
        /\ Arguments({"text"}) \subseteq Kinds
      BY <1>2, ArgumentsAre
  <2>2. Arguments({"text"}) = TextRead
      BY DEF Arguments, TextRead
  <2>3. QED
      BY <2>1, <2>2
<1>7. CASE Token("text") /\ input' = Tail(input) /\ UNCHANGED <<pc, postArgs, args>>
  <2>1. /\ input # <<>> /\ Head(input) = "text" /\ input' \in Tokens
      BY <1>1, <1>2, <1>7, TokenRead, Reading
  <2>2. Continues(input', Awaited', FormBody(req), 3)
      BY <1>1, <1>7, <2>1, FieldFollows
  <2>3. InRequest' /\ InForm' /\ ~InFile'
      BY <1>1, <1>7 DEF InRequest, InForm, InFile
  <2>4. TypeOK' /\ Types'
      BY <1>1, <1>2, <1>3, <1>7, <2>1 DEF TypeOK, Types, Kinds
  <2>5. Known'
      BY <1>1, <1>5, <1>7, <2>3 DEF Known, Posted, Query
  <2>6. Place' /\ Answered'
      BY <1>1, <1>5, <1>7, <2>2, <2>3 DEF Place, AtField, Follows, Answered
  <2>7. Files'
      BY <1>1, <1>3, <1>7, <2>3 DEF Files
  <2>8. UploadStoresTheFile' /\ HandledForItsOwnRequest'
      BY <1>1, <1>3, <1>7 DEF UploadStoresTheFile, HandledForItsOwnRequest
  <2>9. QED
      BY <2>4, <2>5, <2>6, <2>7, <2>8 DEF WebInv
<1>8. CASE /\ Token("boundary") /\ postArgs' = postArgs \cup Arguments({"text"})
           /\ input' = Tail(input) /\ pc' = "part" /\ UNCHANGED args
  <2>1. /\ input # <<>> /\ Head(input) = "boundary" /\ input' \in Tokens
      BY <1>1, <1>2, <1>8, TokenRead, Reading
  <2>2. req.file /\ Continues(input', Awaited', FilePart(req), 0)
      BY <1>1, <1>8, <2>1, FieldFollows
  <2>3. InRequest' /\ InForm' /\ ~InFile'
      BY <1>8 DEF InRequest, InForm, InFile
  <2>4. postArgs' = TextRead /\ postArgs' \subseteq Kinds
      BY <1>5, <1>6, <1>8
  <2>5. TypeOK' /\ Types'
      BY <1>1, <1>2, <1>3, <1>8, <2>1, <2>4 DEF TypeOK, Types, Kinds
  <2>6. Known'
      BY <1>1, <1>5, <1>8, <2>3 DEF Known, Posted, Query
  <2>7. Place' /\ Answered'
      BY <1>1, <1>5, <1>8, <2>2, <2>3, <2>4 DEF Place, AtPart, Follows, TextRead, Answered
  <2>8. Files'
      BY <1>1, <1>3, <1>8, <2>3 DEF Files
  <2>9. UploadStoresTheFile' /\ HandledForItsOwnRequest'
      BY <1>1, <1>3, <1>8 DEF UploadStoresTheFile, HandledForItsOwnRequest
  <2>10. QED
      BY <2>5, <2>6, <2>7, <2>8, <2>9 DEF WebInv
<1>9. CASE /\ Token("end") /\ postArgs' = postArgs \cup Arguments({"text"})
           /\ FormEnds(postArgs')
  <2>1. /\ pc' = "handle" /\ input' = <<>> /\ args' = postArgs' \cup args
        /\ postArgs' = TextRead
      BY <1>5, <1>6, <1>9 DEF FormEnds
  <2>2. ~req.file
    <3>1. input # <<>> /\ Head(input) = "end"
        BY <1>9, TokenRead
    <3>2. CASE Continues(input, Awaited, FormBody(req), 2)
      <4>1. Head(input) = FormBody(req)[2 + 1]
          BY <1>2, <3>1, <3>2, Takes, FormBodyIs, Lengths DEF Types, Awaited, TypeOK
      <4>2. FormBody(req)[3] = "text" /\ 2 + 1 = 3
          BY <1>2, <1>5, FormBodyIs DEF TypeOK
      <4>3. QED
          BY <3>1, <4>1, <4>2
    <3>3. CASE Continues(input, Awaited, FormBody(req), 3)
      <4>1. Head(input) = FormBody(req)[3 + 1]
          BY <1>2, <3>1, <3>3, Takes, FormBodyIs, Lengths DEF Types, Awaited, TypeOK
      <4>2. /\ FormBody(req)[4] = IF req.file THEN "boundary" ELSE "end"
            /\ 3 + 1 = 4
          BY <1>2, <1>5, FormBodyIs DEF TypeOK
      <4>3. QED
          BY <3>1, <4>1, <4>2
    <3>4. QED
        BY <1>1, <1>2, <3>2, <3>3 DEF Place, AtField, Follows
  <2>3. InRequest' /\ ~InForm' /\ ~InFile'
      BY <2>1 DEF InRequest, InForm, InFile
  <2>4. postArgs' \subseteq Kinds /\ args' \subseteq Kinds
      BY <1>2, <1>6, <2>1 DEF TypeOK
  <2>5. TypeOK' /\ Types'
      BY <1>1, <1>2, <1>3, <2>1, <2>4, Lengths DEF TypeOK, Types, Kinds
  <2>6. ~FileCame' /\ args' = ArgumentsSent' \X {served'}
    <3>1. Query' = Query /\ Posted("type")' /\ ~Posted("length")'
        BY <1>1, <1>4, <1>5, HeadersSay DEF Query, Posted
    <3>2. ArgumentsSent' = Query \cup {"text"}
        BY <1>1, <1>5, <3>1 DEF ArgumentsSent
    <3>3. args' = ({"text"} \X {served}) \cup (Query \X {served})
        BY <1>5, <1>6, <2>1
    <3>4. QED
        BY <1>1, <2>2, <3>1, <3>2, <3>3 DEF FileCame
  <2>7. Known' /\ Place' /\ Answered'
      BY <1>1, <1>5, <2>1, <2>3, <2>6 DEF Known, Place, Answered
  <2>8. Files'
      BY <1>1, <1>3, <2>1, <2>3 DEF Files
  <2>9. UploadStoresTheFile' /\ HandledForItsOwnRequest'
      BY <1>1, <1>3, <1>4, <2>1, <2>6, HeadersSay
      DEF UploadStoresTheFile, HandledForItsOwnRequest
  <2>10. QED
      BY <2>5, <2>7, <2>8, <2>9 DEF WebInv
<1>10. QED
    BY <1>7, <1>8, <1>9 DEF ReadField

-------------------------------------------------------------------------------
(* The end of a form, and what is done with a request.                     *)

LEMMA FormDoneKeeps == WebInv /\ FormDone => WebInv'
<1> SUFFICES ASSUME WebInv, FormDone PROVE WebInv'
    OBVIOUS
<1>1. /\ pc = "tail"
      /\ UNCHANGED <<req, served, peer, coming, status, handler, headers, part, postArgs,
                     buf, total, upFile, stored, authenticated, update, image, short, guessed, answers>>
    BY DEF FormDone, connection, files
<1>2. TypeOK /\ Types /\ Known /\ Place /\ Answered /\ Files
    BY DEF WebInv
<1>3. status = "WAIT_READ" /\ req \in Requests
    BY <1>1, <1>2 DEF TypeOK
<1>4. InRequest /\ InForm /\ ~InFile
    BY <1>1 DEF InRequest, InForm, InFile
<1>5. /\ Posted("type") /\ args = Query \X {served} /\ headers \subseteq Sent(req)
      /\ req.file /\ TextFirst /\ Leftover
      /\ answers = IF handler = "upload" THEN 1 ELSE 0
      /\ handler = "update" => (authenticated <=> "auth" \in headers)
      /\ update # "running"
      /\ update # "none" => handler = "update" /\ authenticated
    BY <1>1, <1>2, <1>4 DEF Place, AtFile, Leftover, Follows, Answered, Known, Files
<1>6. CASE Token("last") /\ FormEnds(postArgs)
  <2>1. pc' = "handle" /\ input' = <<>> /\ args' = postArgs \cup args
      BY <1>6 DEF FormEnds
  <2>2. InRequest' /\ ~InForm' /\ ~InFile'
      BY <2>1 DEF InRequest, InForm, InFile
  <2>3. args' \subseteq Kinds
      BY <1>2, <2>1 DEF TypeOK
  <2>4. TypeOK' /\ Types'
      BY <1>1, <1>2, <1>3, <2>1, <2>3, Lengths DEF TypeOK, Types, Kinds
  <2>5. FileCame'
      BY <1>1, <1>5 DEF FileCame, Posted
  <2>6. args' = ArgumentsSent' \X {served'}
    <3>1. Query' = Query /\ Posted("type")' /\ ~Posted("length")' /\ req.field \in BOOLEAN
        BY <1>1, <1>3, <1>4, <1>5, HeadersSay, Request DEF Query, Posted
    <3>2. {"text"} \X {served} = TextRead
      <4>1. {"text"} \X {served} = Arguments({"text"})
          BY <1>2, ArgumentsAre
      <4>2. QED
          BY <4>1 DEF Arguments, TextRead
    <3>3. CASE req.field
      <4>1. ArgumentsSent' = Query \cup {"text"}
          BY <1>1, <3>1, <3>3 DEF ArgumentsSent
      <4>2. args' = ({"text"} \X {served}) \cup (Query \X {served})
          BY <1>5, <2>1, <3>2, <3>3 DEF TextFirst
      <4>3. QED
          BY <1>1, <4>1, <4>2
    <3>4. CASE ~req.field
      <4>1. ArgumentsSent' = Query
          BY <1>1, <3>1, <3>4 DEF ArgumentsSent
      <4>2. args' = Query \X {served}
          BY <1>5, <2>1, <3>4 DEF TextFirst
      <4>3. QED
          BY <1>1, <4>1, <4>2
    <3>5. QED
        BY <3>1, <3>3, <3>4
  <2>7. Known' /\ Place' /\ Answered'
      BY <1>1, <1>5, <2>1, <2>2, <2>5, <2>6 DEF Known, Place, Answered
  <2>8. Files'
      BY <1>1, <1>5, <2>1, <2>2 DEF Files
  <2>9. UploadStoresTheFile' /\ HandledForItsOwnRequest'
      BY <1>1, <1>3, <1>4, <1>5, <2>1, <2>6, HeadersSay
      DEF UploadStoresTheFile, HandledForItsOwnRequest
  <2>10. QED
      BY <2>4, <2>7, <2>8, <2>9 DEF WebInv
<1>7. CASE /\ ~Token("last") /\ (input # <<>> \/ NothingComes)
           /\ input' = AfterLine /\ pc' = "part" /\ UNCHANGED args
  <2>1. input' \in Tokens /\ Leftover'
    <3>1. CASE input # <<>>
      <4>1. input' = Tail(input)
          BY <1>7, <3>1 DEF AfterLine
      <4>2. QED
          BY <1>1, <1>2, <1>5, <3>1, <4>1, LeftoverRead, Reading
    <3>2. CASE NothingComes
      <4>1. input' = <<>> /\ input' \in Tokens /\ NothingComes'
          BY <1>1, <1>2, <1>7, <3>2, ReadingLine
      <4>2. Awaited' = <<>>
          BY <4>1 DEF NothingComes, Quiet, Awaited
      <4>3. Continues(input', Awaited', FileBytes(req'), 0)
          BY <1>1, <1>3, <4>1, <4>2, NothingLeft
      <4>4. QED
          BY <4>1, <4>3 DEF Leftover, Follows
    <3>3. QED
        BY <1>7, <3>1, <3>2
  <2>2. InRequest' /\ InForm' /\ ~InFile'
      BY <1>7 DEF InRequest, InForm, InFile
  <2>3. TypeOK' /\ Types'
      BY <1>1, <1>2, <1>3, <1>7, <2>1 DEF TypeOK, Types, Kinds
  <2>4. Known'
      BY <1>1, <1>5, <1>7, <2>2 DEF Known, Posted, Query
  <2>5. Place' /\ Answered'
      BY <1>1, <1>7, <2>1, <2>2 DEF Place, AtPart, Answered
  <2>6. Files'
      BY <1>1, <1>5, <1>7, <2>1, <2>2 DEF Files
  <2>7. UploadStoresTheFile' /\ HandledForItsOwnRequest'
      BY <1>1, <1>3, <1>7 DEF UploadStoresTheFile, HandledForItsOwnRequest
  <2>8. QED
      BY <2>3, <2>4, <2>5, <2>6, <2>7 DEF WebInv
<1>8. QED
    BY <1>6, <1>7 DEF FormDone

LEMMA HandleRequestKeeps == WebInv /\ HandleRequest => WebInv'
<1> SUFFICES ASSUME WebInv, HandleRequest PROVE WebInv'
    OBVIOUS
<1>1. /\ pc = "handle" /\ (handler # "update" \/ ~authenticated)
      /\ answers' = answers + Answers
      /\ UNCHANGED <<handler, headers, part, postArgs, args, buf, total, upFile, stored,
                     authenticated, update, image, short, guessed>>
    BY DEF HandleRequest, parsed, files
<1>2. TypeOK /\ Types /\ Known /\ Answered /\ Files
    BY DEF WebInv
<1>3. update = "none"
    BY <1>1, <1>2 DEF Files
<1>4. CASE /\ status' = "WAIT_CLOSE" /\ pc' = "idle" /\ UNCHANGED <<connection, input>>
  <2>1. UNCHANGED <<req, served, peer, coming, input>>
      BY <1>4 DEF connection
  <2>2. ~InRequest' /\ ~InForm' /\ ~InFile'
      BY <1>4 DEF InRequest, InForm, InFile
  <2>3. TypeOK' /\ Types'
      BY <1>1, <1>2, <1>4, <2>1 DEF TypeOK, Types, Kinds
  <2>4. Known' /\ Place' /\ Answered'
      BY <1>4, <2>2 DEF Known, Place, Answered
  <2>5. Files'
      BY <1>1, <1>3, <1>4, <2>2 DEF Files
  <2>6. FileCame' <=> FileCame
      BY <1>1, <2>1 DEF FileCame, Posted
  <2>7. answers' = IF handler = "upload" /\ ~FileCame THEN 0 ELSE 1
      BY <1>1, <1>2 DEF Answered, Answers
  <2>8. UploadStoresTheFile' /\ HandledForItsOwnRequest'
      BY <1>1, <1>3, <1>4, <2>6, <2>7 DEF UploadStoresTheFile, HandledForItsOwnRequest
  <2>9. QED
      BY <2>3, <2>4, <2>5, <2>8 DEF WebInv
<1>5. CASE Drop
  <2>1. /\ update' = "none" /\ headers' \subseteq Header /\ postArgs' \subseteq Kinds
        /\ args' \subseteq Kinds /\ {buf', stored', image'} \subseteq Tokens
        /\ total' \in Nat /\ Len(buf') <= BufLen
        /\ upFile' \in {"none", "open", "closed"} /\ authenticated' \in BOOLEAN
        /\ short' \in BOOLEAN /\ guessed' \in BOOLEAN
      BY <1>1, <1>2, <1>3 DEF TypeOK, Types, Header
  <2>2. QED
      BY <1>5, <2>1, Dropped
<1>6. QED
    BY <1>4, <1>5 DEF HandleRequest

LEMMA RestartAfterUpdateKeeps == WebInv /\ RestartAfterUpdate => WebInv'
<1> SUFFICES ASSUME WebInv, RestartAfterUpdate PROVE WebInv'
    OBVIOUS
<1>1. /\ Drop /\ headers' = {} /\ postArgs' = {} /\ args' = {} /\ buf' = <<>>
      /\ total' = 0 /\ upFile' = "none" /\ authenticated' = FALSE /\ update' = "none"
      /\ UNCHANGED <<stored, image, short, guessed>>
    BY DEF RestartAfterUpdate
<1>2. /\ <<>> \in Tokens /\ Len(<<>>) <= BufLen /\ stored \in Tokens /\ image \in Tokens
      /\ short \in BOOLEAN /\ guessed \in BOOLEAN
    BY Lengths, Numbers DEF WebInv, Types, TypeOK
<1>3. QED
    BY <1>1, <1>2, Dropped

-------------------------------------------------------------------------------
(* What is written of a file.                                              *)

\* Full buffers are delivered, and what is left has room in the buffer.
LEMMA Full ==
    \A n, b \in Nat \ {0} :
        /\ ((n - 1) \div b) * b \in 0 .. n - 1
        /\ n - ((n - 1) \div b) * b <= b
<1> SUFFICES ASSUME NEW n \in Nat \ {0}, NEW b \in Nat \ {0}
             PROVE  /\ ((n - 1) \div b) * b \in 0 .. n - 1
                    /\ n - ((n - 1) \div b) * b <= b
    OBVIOUS
<1>1. PICK q \in Nat : q = (n - 1) \div b
    OBVIOUS
<1>2. q * b <= n - 1 /\ n - 1 < q * b + b
    BY <1>1
<1>3. q * b \in Nat
    OBVIOUS
<1>4. QED
    BY <1>1, <1>2, <1>3

\* What is appended to the first n tokens of w are the next ones.
LEMMA StartsOn ==
    ASSUME NEW s \in Tokens, NEW u \in Tokens, NEW w, NEW n \in Nat, NEW m \in Nat,
           Starts(s, w, n), Len(u) = m, \A k \in 1 .. m : u[k] = w[n + k]
    PROVE  Starts(s \o u, w, n + m)
<1>1. PICK v \in Tokens : v = s \o u
    BY ConcatType
<1>2. /\ Len(v) = n + m
      /\ \A k \in 1 .. n : v[k] = s[k]
      /\ \A k \in 1 .. m : v[n + k] = u[k]
    BY <1>1, Concat DEF Starts
<1>3. ASSUME NEW k \in 1 .. n + m PROVE v[k] = w[k]
  <2>1. CASE k \in 1 .. n
      BY <1>2, <2>1 DEF Starts
  <2>2. CASE k \notin 1 .. n
    <3>1. k - n \in 1 .. m /\ n + (k - n) = k
        BY <2>2
    <3>2. v[n + (k - n)] = u[k - n] /\ u[k - n] = w[n + (k - n)]
        BY <1>2, <3>1
    <3>3. QED
        BY <3>1, <3>2
  <2>3. QED
      BY <2>1, <2>2
<1>4. QED
    BY <1>1, <1>2, <1>3 DEF Starts

\* What a Write does to buffer and count: of the b bytes in the buffer and m
\* new ones, the chunk with the first d is delivered.
WritesOut(bytes, chunk, d, b, m) ==
    /\ b = Len(buf) /\ m = Len(bytes) /\ d <= b + m
    /\ Len(chunk) = d /\ Deliver(chunk, FALSE) /\ total' = total + d
    /\ buf' \in Tokens /\ Len(buf') = b + m - d /\ Len(buf') <= BufLen
    /\ \A k \in 1 .. d : chunk[k] = (buf \o bytes)[k]
    /\ \A k \in 1 .. b + m - d : buf'[k] = (buf \o bytes)[d + k]

LEMMA Writes ==
    ASSUME Types, NEW bytes \in Tokens, bytes # <<>>, Write(bytes)
    PROVE  \E chunk \in Tokens : \E d, b, m \in Nat : WritesOut(bytes, chunk, d, b, m)
<1>1. PICK c \in Tokens : c = buf \o bytes
    BY ConcatType DEF Types
<1>2. PICK b \in Nat : b = Len(buf)
    BY Lengths DEF Types
<1>3. PICK m \in Nat \ {0} : m = Len(bytes)
    BY Lengths
<1>4. Len(c) = b + m
    BY <1>1, <1>2, <1>3, Concat DEF Types
<1>5. PICK n \in Nat \ {0} : n = b + m
    OBVIOUS
<1>6. PICK d \in 0 .. n - 1 : d = ((n - 1) \div BufLen) * BufLen /\ n - d <= BufLen
    BY Full, Numbers
<1>7. Delivered(bytes) = d
    BY <1>1, <1>4, <1>5, <1>6 DEF Delivered
<1>8. /\ Deliver(SubSeq(c, 1, d), FALSE) /\ total' = total + d
      /\ buf' = SubSeq(c, d + 1, n)
    BY <1>1, <1>4, <1>5, <1>7 DEF Write
<1>9. d \in 0 .. Len(c) /\ Len(c) = n /\ d \in Nat /\ n \in Nat
    BY <1>4, <1>5, <1>6
<1>10. PICK chunk \in Tokens :
          chunk = SubSeq(c, 1, d) /\ Len(chunk) = d /\ \A k \in 1 .. d : chunk[k] = c[k]
    BY <1>9, Prefix
<1>11. PICK rest \in Tokens :
          /\ rest = SubSeq(c, d + 1, n) /\ Len(rest) = n - d
          /\ \A k \in 1 .. n - d : rest[k] = c[d + k]
    BY <1>9, Suffix
<1>12. buf' = rest /\ Deliver(chunk, FALSE)
    BY <1>8, <1>10, <1>11
<1>13. /\ d <= b + m /\ Len(rest) = b + m - d /\ Len(rest) <= BufLen
       /\ \A k \in 1 .. b + m - d : rest[k] = c[d + k]
    BY <1>5, <1>6, <1>9, <1>11
<1>14. d \in Nat /\ b \in Nat /\ m \in Nat
    BY <1>6, <1>9
<1>15. WritesOut(bytes, chunk, d, b, m)
    BY <1>1, <1>2, <1>3, <1>8, <1>10, <1>12, <1>13 DEF WritesOut
<1>16. QED
    BY <1>14, <1>15

\* The whole of a chunk.
LEMMA WholeChunk == \A s \in Tokens : SubSeq(s, 1, Len(s)) = s
<1> SUFFICES ASSUME NEW s \in Tokens PROVE SubSeq(s, 1, Len(s)) = s
    OBVIOUS
<1>1. PICK n \in Nat : n = Len(s)
    BY Lengths
<1>2. n \in 0 .. Len(s)
    BY <1>1
<1>3. PICK v \in Tokens : v = SubSeq(s, 1, n)
    BY <1>2, Prefix
<1>4. Len(v) = n /\ \A k \in 1 .. n : v[k] = s[k]
    BY <1>2, <1>3, Prefix
<1>5. v = s
    BY <1>1, <1>4, SeqEqual DEF Tokens
<1>6. QED
    BY <1>1, <1>3, <1>5

\* What a delivery may do: a file that is not noted as short, and a firmware
\* without an error, have got the whole chunk.
LEMMA Delivers ==
    ASSUME Types, NEW chunk \in Tokens, NEW last \in BOOLEAN, Deliver(chunk, last)
    PROVE  /\ stored' \in Tokens /\ image' \in Tokens /\ short' \in BOOLEAN
           /\ Storing /\ ~short' => ~short /\ stored' = stored \o chunk
           /\ ~Flashing => update' = update
           /\ Flashing => \/ update' = "failed"
                          \/ /\ update' = IF last THEN "ready" ELSE "running"
                             /\ image' = image \o chunk
<1>1. PICK n \in Taken(chunk) :
         /\ stored' = IF Storing THEN stored \o SubSeq(chunk, 1, n) ELSE stored
         /\ short' = (short \/ (Storing /\ n < Len(chunk)))
         /\ image' = IF Flashing THEN image \o SubSeq(chunk, 1, n) ELSE image
         /\ update' \in IF last THEN Ended(n < Len(chunk)) ELSE {ErrorKept(n < Len(chunk))}
    BY DEF Deliver
<1>2. PICK l \in Nat : l = Len(chunk)
    BY Lengths
<1>3. n \in 0 .. l
    BY <1>2 DEF Taken
<1>4. PICK c \in Tokens : c = SubSeq(chunk, 1, n)
    BY <1>2, <1>3, Prefix
<1>5. stored' \in Tokens /\ image' \in Tokens
    BY <1>1, <1>4, ConcatType DEF Types
<1>6. short' \in BOOLEAN
    BY <1>1
<1>7. ~(n < Len(chunk)) => c = chunk
  <2>1. ~(n < Len(chunk)) => n = l
      BY <1>2, <1>3
  <2>2. QED
      BY <1>2, <1>4, <2>1, WholeChunk
<1>8. ASSUME Storing, ~short' PROVE ~short /\ stored' = stored \o chunk
  <2>1. ~short /\ ~(n < Len(chunk))
      BY <1>1, <1>8
  <2>2. stored' = stored \o c
      BY <1>1, <1>4, <1>8
  <2>3. QED
      BY <1>7, <2>1, <2>2
<1>9. ASSUME ~Flashing PROVE update' = update
  <2>1. ErrorKept(n < Len(chunk)) = update
      BY <1>9 DEF ErrorKept
  <2>2. Ended(n < Len(chunk)) = {ErrorKept(n < Len(chunk))}
      BY <1>9 DEF Ended
  <2>3. QED
      BY <1>1, <2>1, <2>2
<1>10. ASSUME Flashing, update' # "failed"
       PROVE  update' = (IF last THEN "ready" ELSE "running") /\ image' = image \o chunk
  <2>1. update = "running" /\ image' = image \o c
      BY <1>1, <1>4, <1>10 DEF Flashing
  <2>2. CASE n < Len(chunk)
    <3>1. ErrorKept(n < Len(chunk)) = "failed"
        BY <1>10, <2>2 DEF ErrorKept
    <3>2. Ended(n < Len(chunk)) = {"failed"}
        BY <3>1 DEF Ended
    <3>3. QED
        BY <1>1, <1>10, <3>1, <3>2
  <2>3. CASE ~(n < Len(chunk))
    <3>1. ErrorKept(n < Len(chunk)) = "running"
        BY <2>1, <2>3 DEF ErrorKept
    <3>2. Ended(n < Len(chunk)) \subseteq {"ready", "failed"}
        BY <1>10, <3>1 DEF Ended
    <3>3. update' = IF last THEN "ready" ELSE "running"
      <4>1. CASE last
          BY <1>1, <1>10, <3>2, <4>1
      <4>2. CASE ~last
          BY <1>1, <3>1, <4>2
      <4>3. QED
          BY <4>1, <4>2
    <3>4. QED
        BY <1>7, <2>1, <2>3, <3>3
  <2>4. QED
      BY <2>2, <2>3
<1>11. QED
    BY <1>5, <1>6, <1>8, <1>9, <1>10

\* A write leaves the Updater as it is, or with an error.
StillRunning == update' = update \/ (update = "running" /\ update' = "failed")

LEMMA WriteTypes ==
    ASSUME Types, NEW bytes \in Tokens, bytes # <<>>, Write(bytes)
    PROVE  /\ {buf', stored', image'} \subseteq Tokens /\ total' \in Nat
           /\ Len(buf') <= BufLen /\ short' \in BOOLEAN /\ StillRunning
<1>1. PICK chunk \in Tokens, d, b, m \in Nat : WritesOut(bytes, chunk, d, b, m)
    BY Writes
<1>2. /\ Deliver(chunk, FALSE) /\ total' = total + d /\ buf' \in Tokens /\ Len(buf') <= BufLen
    BY <1>1 DEF WritesOut
<1>3. /\ stored' \in Tokens /\ image' \in Tokens /\ short' \in BOOLEAN
      /\ ~Flashing => update' = update
      /\ Flashing => update' = "failed" \/ update' = "running"
    BY <1>2, Delivers
<1>4. StillRunning
    BY <1>3 DEF StillRunning, Flashing
<1>5. QED
    BY <1>2, <1>3, <1>4 DEF Types

\* Delivered bytes get to the file and the firmware that are being written.
LEMMA DeliverStarts ==
    ASSUME Types, NEW w, NEW chunk \in Tokens, NEW d \in Nat, NEW last \in BOOLEAN,
           Deliver(chunk, last), Len(chunk) = d,
           \A k \in 1 .. d : chunk[k] = w[total + k],
           Written(w), update = "running" => handler = "update" /\ authenticated
    PROVE  /\ Storing /\ ~short' => Starts(stored', w, total + d)
           /\ update = "running" /\ update' # "failed" => Starts(image', w, total + d)
<1>1. total \in Nat /\ stored \in Tokens /\ image \in Tokens
    BY DEF Types
<1>2. ASSUME Storing, ~short'
      PROVE  Starts(stored', w, total + d)
  <2>1. ~short /\ stored' = stored \o chunk
      BY <1>2, Delivers
  <2>2. Starts(stored, w, total)
      BY <1>2, <2>1 DEF Written, Storing
  <2>3. QED
      BY <1>1, <2>1, <2>2, StartsOn
<1>3. ASSUME update = "running", update' # "failed"
      PROVE  Starts(image', w, total + d)
  <2>1. Flashing
      BY <1>3 DEF Flashing
  <2>2. image' = image \o chunk
      BY <1>3, <2>1, Delivers
  <2>3. Starts(image, w, total)
      BY <1>3 DEF Written
  <2>4. QED
      BY <1>1, <2>2, <2>3, StartsOn
<1>4. QED
    BY <1>2, <1>3

\* The bytes that continue a file are written behind it.
LEMMA Writing ==
    ASSUME Types, NEW w, Written(w), NEW bytes \in Tokens, bytes # <<>>, Write(bytes),
           SeenOf(w, bytes, total + Len(buf)),
           UNCHANGED <<handler, upFile>>,
           update = "running" => handler = "update" /\ authenticated
    PROVE  Written(w)' /\ total' + Len(buf') = total + Len(buf) + Len(bytes)
<1>1. PICK chunk \in Tokens, d, b, m \in Nat : WritesOut(bytes, chunk, d, b, m)
    BY Writes
<1>2. /\ b = Len(buf) /\ m = Len(bytes) /\ d <= b + m
      /\ Len(chunk) = d /\ Deliver(chunk, FALSE) /\ total' = total + d
      /\ Len(buf') = b + m - d
      /\ \A k \in 1 .. d : chunk[k] = (buf \o bytes)[k]
      /\ \A k \in 1 .. b + m - d : buf'[k] = (buf \o bytes)[d + k]
    BY <1>1 DEF WritesOut
<1>3. PICK c \in Tokens : c = buf \o bytes
    BY ConcatType DEF Types
<1>4. PICK t \in Nat : t = total
    BY DEF Types
<1>5. /\ \A k \in 1 .. b : c[k] = buf[k]
      /\ \A k \in 1 .. m : c[b + k] = bytes[k]
    BY <1>2, <1>3, Concat DEF Types
<1>6. ASSUME NEW k \in 1 .. b + m PROVE c[k] = w[t + k]
  <2>1. CASE k \in 1 .. b
      BY <1>2, <1>4, <1>5, <2>1 DEF Written
  <2>2. CASE k \notin 1 .. b
    <3>1. PICK j \in 1 .. m : k = b + j
      <4>1. k - b \in 1 .. m /\ k = b + (k - b)
          BY <2>2
      <4>2. QED
          BY <4>1
    <3>2. bytes[j] = w[(t + b) + j] /\ (t + b) + j = t + k
        BY <1>2, <1>4, <3>1 DEF SeenOf
    <3>3. QED
        BY <1>5, <3>1, <3>2
  <2>3. QED
      BY <2>1, <2>2
<1>7. ASSUME NEW k \in 1 .. d PROVE chunk[k] = w[t + k]
  <2>1. k \in 1 .. b + m
      BY <1>2
  <2>2. QED
      BY <1>2, <1>3, <1>6, <2>1
<1>8. ASSUME NEW k \in 1 .. b + m - d PROVE buf'[k] = w[(t + d) + k]
  <2>1. d + k \in 1 .. b + m /\ t + (d + k) = (t + d) + k
      BY <1>2
  <2>2. QED
      BY <1>2, <1>3, <1>6, <2>1
<1>9. /\ handler' = "upload" /\ upFile' = "open" /\ ~short' => Starts(stored', w, t + d)
      /\ update' = "running" => Starts(image', w, t + d)
  <2>1. /\ Storing /\ ~short' => Starts(stored', w, total + d)
        /\ update = "running" /\ update' # "failed" => Starts(image', w, total + d)
      BY <1>2, <1>4, <1>7, DeliverStarts
  <2>2. update' = "running" => update = "running"
      BY WriteTypes DEF StillRunning
  <2>3. QED
      BY <1>4, <2>1, <2>2 DEF Storing
<1>10. total' = t + d /\ Len(buf') = b + m - d
    BY <1>2, <1>4
<1>11. Written(w)'
    BY <1>8, <1>9, <1>10 DEF Written
<1>12. total' + Len(buf') = t + b + m
    BY <1>10
<1>13. QED
    BY <1>2, <1>4, <1>11, <1>12

-------------------------------------------------------------------------------
(* The bytes of a file.                                                    *)

LEMMA SeenIs ==
    /\ \A p \in {"file", "cr", "crlf", "dash", "dashdash"} : Seen[p] \in Tokens
    /\ Len(Seen["file"]) = 0 /\ Len(Seen["cr"]) = 1 /\ Len(Seen["crlf"]) = 2
    /\ Len(Seen["dash"]) = 3 /\ Len(Seen["dashdash"]) = 4
    /\ Seen["cr"][1] = "CR"
    /\ Seen["crlf"][1] = "CR" /\ Seen["crlf"][2] = "LF"
    /\ Seen["dash"][1] = "CR" /\ Seen["dash"][2] = "LF" /\ Seen["dash"][3] = "-"
    /\ Seen["dashdash"][1] = "CR" /\ Seen["dashdash"][2] = "LF"
    /\ Seen["dashdash"][3] = "-" /\ Seen["dashdash"][4] = "-"
<1>1. /\ Seen["file"] = <<>> /\ Seen["cr"] = <<"CR">> /\ Seen["crlf"] = <<"CR", "LF">>
      /\ Seen["dash"] = <<"CR", "LF", "-">> /\ Seen["dashdash"] = <<"CR", "LF", "-", "-">>
    BY DEF Seen
<1>2. <<>> \in Tokens /\ Len(<<>>) = 0
    BY Lengths
<1>3. /\ <<"CR">> \in Tokens /\ Len(<<"CR">>) = 1 /\ <<"CR">>[1] = "CR"
    BY Words DEF Tokens
<1>4. /\ <<"CR", "LF">> \in Tokens /\ Len(<<"CR", "LF">>) = 2
      /\ <<"CR", "LF">>[1] = "CR" /\ <<"CR", "LF">>[2] = "LF"
    BY Words DEF Tokens
<1>5. /\ <<"CR", "LF", "-">> \in Tokens /\ Len(<<"CR", "LF", "-">>) = 3
      /\ <<"CR", "LF", "-">>[1] = "CR" /\ <<"CR", "LF", "-">>[2] = "LF"
      /\ <<"CR", "LF", "-">>[3] = "-"
    BY Words DEF Tokens
<1>6. /\ <<"CR", "LF", "-", "-">> \in Tokens /\ Len(<<"CR", "LF", "-", "-">>) = 4
      /\ <<"CR", "LF", "-", "-">>[1] = "CR" /\ <<"CR", "LF", "-", "-">>[2] = "LF"
      /\ <<"CR", "LF", "-", "-">>[3] = "-" /\ <<"CR", "LF", "-", "-">>[4] = "-"
    BY Words DEF Tokens
<1>7. QED
    BY <1>1, <1>2, <1>3, <1>4, <1>5, <1>6

\* One more byte of the end has been read.
LEMMA SeenNext ==
    ASSUME NEW p \in {"file", "cr", "crlf", "dash"}, NEW q \in Nat, q = Len(Seen[p])
    PROVE  /\ NextPlace[p] \in {"cr", "crlf", "dash", "dashdash"}
           /\ Len(Seen[NextPlace[p]]) = q + 1
           /\ Seen[NextPlace[p]][q + 1] = Expected[p]
           /\ \A k \in 1 .. q : Seen[NextPlace[p]][k] = Seen[p][k]
<1>1. CASE p = "file"
    BY <1>1, SeenIs, Places
<1>2. CASE p = "cr"
    BY <1>2, SeenIs, Places
<1>3. CASE p = "crlf"
    BY <1>3, SeenIs, Places
<1>4. CASE p = "dash"
    BY <1>4, SeenIs, Places
<1>5. QED
    BY <1>1, <1>2, <1>3, <1>4

LEMMA FileBeginsKeeps == WebInv /\ FileBegins => WebInv'
<1> SUFFICES ASSUME WebInv, FileBegins PROVE WebInv'
    OBVIOUS
<1>1. /\ pc = "parthead" /\ pc' = "file" /\ part = "file" /\ input' = AfterLine
      /\ (Token("blank") \/ NothingComes) /\ buf' = <<>> /\ total' = 0
      /\ short' = FALSE /\ guessed' = FALSE
      /\ UNCHANGED <<req, served, peer, coming, status, handler, headers, part, postArgs,
                     args, answers>>
    BY DEF FileBegins, connection, parsed
<1>2. PICK opened \in BOOLEAN :
         /\ upFile' = IF handler # "upload" THEN upFile
                      ELSE IF opened THEN "open" ELSE "none"
         /\ stored' = IF handler = "upload" /\ opened THEN <<>> ELSE stored
         /\ authenticated' = IF handler = "update" THEN "auth" \in headers
                             ELSE authenticated
         /\ IF handler = "update" /\ authenticated' /\ opened /\ update # "running"
              THEN update' = "running" /\ image' = <<>>
              ELSE UNCHANGED <<update, image>>
    BY DEF FileBegins
<1>3. TypeOK /\ Types /\ Known /\ Place /\ Answered
    BY DEF WebInv
<1>4. update = "none" /\ status = "WAIT_READ"
    BY <1>1, <1>3, NoUpdate DEF InFile, TypeOK
<1>5. /\ InRequest /\ InForm /\ InRequest' /\ InForm' /\ InFile'
    BY <1>1 DEF InRequest, InForm, InFile
<1>6. /\ req.file /\ TextFirst /\ Continues(input, Awaited, FilePart(req), 1)
      /\ answers = 0 /\ req \in Requests
    BY <1>1, <1>3, <1>4 DEF Place, AtPartHead, Follows, Answered, TypeOK
<1>7. /\ FilePart(req) \in Tokens /\ FileBytes(req) \in Tokens
      /\ EndsWith(FilePart(req), FileBytes(req), 2)
    BY <1>6, FilePartIs
<1>8. input' \in Tokens /\ Continues(input', Awaited', FileBytes(req), 0)
  <2>1. CASE Token("blank")
    <3>1. /\ input' \in Tokens
          /\ Continues(input', Awaited', FilePart(req), 1 + 1)
        BY <1>1, <1>3, <1>6, <1>7, <2>1, TokenRead, Reading
    <3>2. PICK m \in Nat : m = 2
        OBVIOUS
    <3>3. PICK j \in Nat : j = 0
        OBVIOUS
    <3>4. Awaited' \in Tokens
        BY <1>1, <1>3, Lengths DEF Types, Awaited
    <3>5. m + j = 1 + 1
        BY <3>2, <3>3
    <3>6. Continues(input', Awaited', FileBytes(req), j)
        BY <1>7, <3>1, <3>2, <3>4, <3>5, Ending
    <3>7. QED
        BY <3>1, <3>3, <3>6
  <2>2. CASE NothingComes
    <3>1. 0 \in 0 .. Len(FileBytes(req))
        BY <1>7, Lengths
    <3>2. QED
        BY <1>1, <1>3, <1>7, <2>2, <3>1, ReadingLine
  <2>3. QED
      BY <1>1, <2>1, <2>2
<1>9. <<>> \in Tokens /\ Len(<<>>) = 0 /\ BufLen \in Nat
    BY Lengths, Numbers
<1>10. /\ stored' \in Tokens /\ image' \in Tokens
       /\ upFile' \in {"none", "open", "closed"} /\ authenticated' \in BOOLEAN
       /\ update' \in {"none", "running"}
       /\ update' = "running" => /\ handler = "update" /\ authenticated' /\ image' = <<>>
       /\ handler = "upload" => upFile' # "closed"
       /\ handler = "upload" /\ upFile' = "open" => stored' = <<>>
       /\ handler = "update" => (authenticated' <=> "auth" \in headers)
  <2>1. stored' \in Tokens /\ image' \in Tokens
      BY <1>2, <1>3, <1>9 DEF Types
  <2>2. /\ upFile' \in {"none", "open", "closed"}
        /\ handler = "upload" => upFile' # "closed"
        /\ handler = "upload" /\ upFile' = "open" => stored' = <<>>
      BY <1>2, <1>3 DEF TypeOK
  <2>3. /\ authenticated' \in BOOLEAN
        /\ handler = "update" => (authenticated' <=> "auth" \in headers)
    <3>1. authenticated \in BOOLEAN
        BY <1>3 DEF TypeOK
    <3>2. authenticated' = IF handler = "update" THEN "auth" \in headers
                           ELSE authenticated
        BY <1>2
    <3>3. CASE handler = "update"
      <4>1. authenticated' = ("auth" \in headers)
          BY <3>2, <3>3
      <4>2. CASE "auth" \in headers
          BY <4>1, <4>2
      <4>3. CASE "auth" \notin headers
        <5>1. ("auth" \in headers) = FALSE
            BY <4>3
        <5>2. authenticated' = FALSE
            BY <4>1, <5>1
        <5>3. QED
            BY <4>3, <5>2
      <4>4. QED
          BY <4>2, <4>3
    <3>4. CASE handler # "update"
        BY <3>1, <3>2, <3>4
    <3>5. QED
        BY <3>3, <3>4
  <2>4. /\ update' \in {"none", "running"}
        /\ update' = "running" => /\ handler = "update" /\ authenticated'
                                  /\ image' = <<>>
      BY <1>2, <1>4
  <2>5. QED
      BY <2>1, <2>2, <2>3, <2>4
<1>11. TypeOK' /\ Types'
  <2>1. short' \in BOOLEAN /\ guessed' \in BOOLEAN
      BY <1>1
  <2>2. pc' \in DOMAIN Seen /\ Len(buf') <= BufLen
      BY <1>1, <1>9, Places
  <2>3. update' \in {"none", "running", "failed", "ready"}
      BY <1>10
  <2>4. TypeOK'
      BY <1>1, <1>3, <1>4, <1>10, <2>1, <2>2, <2>3 DEF TypeOK, Kinds
  <2>5. Types'
      BY <1>1, <1>3, <1>8, <1>9, <1>10 DEF Types
  <2>6. QED
      BY <2>4, <2>5
<1>12. Known'
    BY <1>1, <1>3, <1>5 DEF Known, Posted, Query
<1>13. Place' /\ Answered'
    BY <1>1, <1>5, <1>6 DEF Place, AtFile, TextFirst, TextRead, Answered
<1>14. Copied(FileBytes(req))'
  <2>1. Starts(<<>>, FileBytes(req), 0)
      BY <1>9 DEF Starts
  <2>2. Written(FileBytes(req))'
      BY <1>1, <1>9, <1>10, <2>1 DEF Written
  <2>3. Len(Seen[pc']) = 0 /\ total' = 0 /\ Len(buf') = 0
      BY <1>1, <1>9, SeenIs
  <2>4. SeenOf(FileBytes(req'), Seen[pc'], total' + Len(buf'))
      BY <2>3 DEF SeenOf
  <2>5. Continues(input', Awaited', FileBytes(req'), total' + Len(buf') + Len(Seen[pc']))
      BY <1>1, <1>8, <2>3
  <2>6. QED
      BY <1>1, <2>2, <2>4, <2>5 DEF Copied, Follows
<1>15. Files'
    BY <1>1, <1>5, <1>10, <1>14 DEF Files
<1>16. UploadStoresTheFile' /\ HandledForItsOwnRequest'
    BY <1>1, <1>4 DEF UploadStoresTheFile, HandledForItsOwnRequest
<1>17. QED
    BY <1>11, <1>12, <1>13, <1>15, <1>16 DEF WebInv

\* A file that is not read to its end leaves no firmware half written.
LEMMA AbortKeeps ==
    ASSUME WebInv, InFile, Abort,
           UNCHANGED <<handler, headers, part, postArgs, args, upFile, authenticated,
                       guessed>>
    PROVE  WebInv'
<1>1. TypeOK /\ Types /\ Files
    BY DEF WebInv
<1>2. Drop /\ UNCHANGED <<buf, total, stored, image, short>>
    BY DEF Abort, WritesNothing
<1>3. update' = "none"
    BY <1>1 DEF Abort, Files
<1>4. /\ headers' \subseteq Header /\ postArgs' \subseteq Kinds /\ args' \subseteq Kinds
      /\ {buf', stored', image'} \subseteq Tokens /\ total' \in Nat /\ Len(buf') <= BufLen
      /\ upFile' \in {"none", "open", "closed"} /\ authenticated' \in BOOLEAN
      /\ short' \in BOOLEAN /\ guessed' \in BOOLEAN
    BY <1>1, <1>2 DEF TypeOK, Types, Header
<1>5. QED
    BY <1>2, <1>3, <1>4, Dropped

\* A step from place to place in the file.
LEMMA FileStep ==
    ASSUME WebInv, InFile, InFile', input' \in Tokens,
           UNCHANGED <<req, served, peer, coming, status, handler, headers, part, postArgs,
                       args, upFile, authenticated, guessed, answers>>,
           {buf', stored', image'} \subseteq Tokens, total' \in Nat, Len(buf') <= BufLen,
           short' \in BOOLEAN, StillRunning,
           NothingComes' \/ Copied(FileBytes(req))'
    PROVE  WebInv'
<1>1. TypeOK /\ Types /\ Known /\ Place /\ Answered /\ Files
    BY DEF WebInv
<1>2. /\ InRequest /\ InForm /\ InRequest' /\ InForm'
    BY DEF InRequest, InForm, InFile
<1>3. status = "WAIT_READ"
    BY <1>1 DEF TypeOK, InFile
<1>4. TypeOK' /\ Types'
  <2>1. pc' \in DOMAIN Seen
      BY Places DEF InFile
  <2>2. QED
      BY <1>1, <1>3, <2>1 DEF TypeOK, Types, Kinds, StillRunning
<1>5. Known'
    BY <1>1, <1>2 DEF Known, Posted, Query, InFile
<1>6. Place' /\ Answered'
  <2>1. AtFile' /\ answers = 0
      BY <1>1, <1>3 DEF Place, AtFile, TextFirst, TextRead, InFile, Answered
  <2>2. QED
      BY <1>2, <2>1 DEF Place, InFile, Answered
<1>7. Files'
    BY <1>1 DEF Files, InFile, StillRunning
<1>8. UploadStoresTheFile' /\ HandledForItsOwnRequest'
    BY <1>3 DEF UploadStoresTheFile, HandledForItsOwnRequest, InFile
<1>9. QED
    BY <1>4, <1>5, <1>6, <1>7, <1>8 DEF WebInv

LEMMA NoMoreBytesKeeps == WebInv /\ NoMoreBytes => WebInv'
<1> SUFFICES ASSUME WebInv, NoMoreBytes PROVE WebInv'
    OBVIOUS
<1>1. InFile
    BY Places DEF NoMoreBytes, InFile
<1>2. QED
    BY <1>1, AbortKeeps DEF NoMoreBytes, parsed

LEMMA CopiedIs ==
    ASSUME WebInv, InFile, NEW p \in Nat, NEW q \in Nat, ~NothingComes,
           p = total + Len(buf), q = Len(Seen[pc])
    PROVE  /\ req \in Requests /\ FileBytes(req) \in Tokens
           /\ Written(FileBytes(req))
           /\ SeenOf(FileBytes(req), Seen[pc], p)
           /\ Continues(input, Awaited, FileBytes(req), p + q)
           /\ update = "running" => handler = "update" /\ authenticated
<1>1. req \in Requests /\ Files
    BY DEF WebInv, TypeOK
<1>2. QED
    BY <1>1, FilePartIs DEF Files, Copied, Follows

\* The bytes of a file that are in the parser's hands, and the next one, are
\* written: the place is again before the bytes in Seen.
LEMMA ReadByteKeeps == WebInv /\ ReadByte => WebInv'
<1> SUFFICES ASSUME WebInv, ReadByte PROVE WebInv'
    OBVIOUS
<1>1. /\ pc \in {"file", "cr", "crlf", "dash"} /\ input # <<>>
      /\ UNCHANGED <<handler, headers, part, postArgs, args, upFile, authenticated,
                     guessed, answers>>
    BY Places DEF ReadByte, parsed
<1>2. TypeOK /\ Types /\ Files /\ InFile /\ ~NothingComes
    BY <1>1 DEF WebInv, InFile, NothingComes
<1>3. PICK byte \in Word : byte = Head(input)
    BY <1>1, <1>2, Rest DEF Types
<1>4. CASE Abort
    BY <1>1, <1>2, <1>4, AbortKeeps
<1>5. CASE /\ input' = Tail(input) /\ UNCHANGED <<connection, status>>
           /\ \/ /\ byte = Expected[pc]
                 /\ pc' = NextPlace[pc]
                 /\ WritesNothing
                 /\ UNCHANGED update
              \/ /\ byte # Expected[pc]
                 /\ byte = "CR"
                 /\ pc' = "cr"
                 /\ Write(Seen[pc])
              \/ /\ byte \notin {Expected[pc], "CR"}
                 /\ pc' = "file"
                 /\ Write(Append(Seen[pc], byte))
  <2>1. UNCHANGED <<req, served, peer, coming, status>>
      BY <1>5 DEF connection
  <2>2. Seen[pc] \in Tokens
      BY <1>1, SeenIs
  <2>3. PICK q \in Nat : q = Len(Seen[pc])
      BY <2>2, Lengths
  <2>4. PICK p \in Nat : p = total + Len(buf)
      BY <1>2, Lengths DEF Types
  <2>5. PICK w \in Tokens : w = FileBytes(req)
      BY <1>2, <2>3, <2>4, CopiedIs
  <2>6. /\ Written(w) /\ SeenOf(w, Seen[pc], p) /\ Continues(input, Awaited, w, p + q)
        /\ update = "running" => handler = "update" /\ authenticated
      BY <1>2, <2>3, <2>4, <2>5, CopiedIs
  <2>7. /\ input' \in Tokens /\ byte = w[(p + q) + 1]
        /\ Continues(input', Awaited', w, (p + q) + 1)
      BY <1>1, <1>2, <1>3, <1>5, <2>1, <2>5, <2>6, Reading
  <2>8. FileBytes(req') = w /\ FileBytes(req)' = w
      BY <2>1, <2>5
  <2>9. CASE /\ byte = Expected[pc] /\ pc' = NextPlace[pc] /\ WritesNothing
             /\ UNCHANGED update
    <3>1. UNCHANGED <<buf, total, stored, image, short>>
        BY <2>9 DEF WritesNothing
    <3>2. /\ pc' \in {"cr", "crlf", "dash", "dashdash"}
          /\ Len(Seen[pc']) = q + 1
          /\ Seen[pc'][q + 1] = byte
          /\ \A k \in 1 .. q : Seen[pc'][k] = Seen[pc][k]
        BY <1>1, <2>3, <2>9, SeenNext
    <3>3. SeenOf(w, Seen[pc'], p)
      <4>1. ASSUME NEW k \in 1 .. q + 1 PROVE Seen[pc'][k] = w[p + k]
        <5>1. CASE k \in 1 .. q
            BY <2>3, <2>6, <3>2, <5>1 DEF SeenOf
        <5>2. CASE k = q + 1
          <6>1. p + k = (p + q) + 1
              BY <5>2
          <6>2. QED
              BY <2>7, <3>2, <5>2, <6>1
        <5>3. QED
            BY <5>1, <5>2
      <4>2. QED
          BY <3>2, <4>1 DEF SeenOf
    <3>4. total' + Len(buf') = p
        BY <2>4, <3>1
    <3>5. Written(w)'
        BY <1>1, <2>1, <2>6, <2>9, <3>1 DEF Written
    <3>6. Continues(input', Awaited', w, p + Len(Seen[pc']))
      <4>1. p + (q + 1) = (p + q) + 1
          OBVIOUS
      <4>2. QED
          BY <2>7, <3>2, <4>1
    <3>7. Copied(FileBytes(req))'
      <4>1. Written(FileBytes(req))'
          BY <2>5, <2>8, <3>5 DEF Written
      <4>2. QED
          BY <2>8, <3>3, <3>4, <3>6, <4>1 DEF Copied, Follows
    <3>8. /\ {buf', stored', image'} \subseteq Tokens /\ total' \in Nat
          /\ Len(buf') <= BufLen /\ short' \in BOOLEAN /\ StillRunning
        BY <1>2, <2>9, <3>1 DEF TypeOK, Types, StillRunning
    <3>9. InFile'
        BY <3>2 DEF InFile
    <3>10. QED
        BY <1>1, <1>2, <2>1, <2>7, <3>7, <3>8, <3>9, FileStep
  <2>10. CASE byte # Expected[pc] /\ byte = "CR" /\ pc' = "cr" /\ Write(Seen[pc])
    <3>1. Seen[pc] # <<>>
      <4>1. pc # "file"
          BY <2>10, Places
      <4>2. q > 0
          BY <1>1, <2>3, <4>1, SeenIs
      <4>3. QED
          BY <2>2, <2>3, <4>2, Lengths
    <3>2. /\ {buf', stored', image'} \subseteq Tokens /\ total' \in Nat
          /\ Len(buf') <= BufLen /\ short' \in BOOLEAN /\ StillRunning
        BY <1>2, <2>2, <2>10, <3>1, WriteTypes
    <3>3. Written(w)' /\ total' + Len(buf') = p + q
        BY <1>1, <1>2, <2>1, <2>2, <2>3, <2>4, <2>6, <2>10, <3>1, Writing
    <3>4. /\ SeenOf(w, Seen[pc'], p + q)
          /\ Continues(input', Awaited', w, (p + q) + Len(Seen[pc']))
      <4>1. Len(Seen[pc']) = 1 /\ Seen[pc'][1] = "CR"
          BY <2>10, SeenIs
      <4>2. ASSUME NEW k \in 1 .. 1 PROVE Seen[pc'][k] = w[(p + q) + k]
        <5>1. k = 1
            OBVIOUS
        <5>2. QED
            BY <2>7, <2>10, <4>1, <5>1
      <4>3. QED
          BY <2>7, <4>1, <4>2 DEF SeenOf
    <3>5. Copied(FileBytes(req))'
      <4>1. Written(FileBytes(req))'
          BY <2>5, <2>8, <3>3 DEF Written
      <4>2. QED
          BY <2>8, <3>3, <3>4, <4>1 DEF Copied, Follows
    <3>6. InFile'
        BY <2>10 DEF InFile
    <3>7. QED
        BY <1>1, <1>2, <2>1, <2>7, <3>2, <3>5, <3>6, FileStep
  <2>11. CASE /\ byte \notin {Expected[pc], "CR"} /\ pc' = "file"
              /\ Write(Append(Seen[pc], byte))
    <3>1. PICK bytes \in Tokens : bytes = Append(Seen[pc], byte)
        BY <2>2, Added
    <3>2. /\ Len(bytes) = q + 1 /\ bytes[q + 1] = byte
          /\ \A k \in 1 .. q : bytes[k] = Seen[pc][k]
        BY <2>2, <2>3, <3>1, Added
    <3>3. bytes # <<>>
        BY <3>2, Lengths
    <3>4. /\ {buf', stored', image'} \subseteq Tokens /\ total' \in Nat
          /\ Len(buf') <= BufLen /\ short' \in BOOLEAN /\ StillRunning
        BY <1>2, <2>11, <3>1, <3>3, WriteTypes
    <3>5. SeenOf(w, bytes, p)
      <4>1. ASSUME NEW k \in 1 .. q + 1 PROVE bytes[k] = w[p + k]
        <5>1. CASE k \in 1 .. q
            BY <2>3, <2>6, <3>2, <5>1 DEF SeenOf
        <5>2. CASE k = q + 1
          <6>1. p + k = (p + q) + 1
              BY <5>2
          <6>2. QED
              BY <2>7, <3>2, <5>2, <6>1
        <5>3. QED
            BY <5>1, <5>2
      <4>2. QED
          BY <3>2, <4>1 DEF SeenOf
    <3>6. Written(w)' /\ total' + Len(buf') = p + (q + 1)
        BY <1>1, <1>2, <2>1, <2>4, <2>6, <2>11, <3>1, <3>2, <3>3, <3>5, Writing
    <3>7. /\ SeenOf(w, Seen[pc'], p + (q + 1))
          /\ Continues(input', Awaited', w, (p + (q + 1)) + Len(Seen[pc']))
      <4>1. Len(Seen[pc']) = 0 /\ (p + (q + 1)) + 0 = (p + q) + 1
          BY <2>11, SeenIs
      <4>2. QED
          BY <2>7, <4>1 DEF SeenOf
    <3>8. Copied(FileBytes(req))'
      <4>1. Written(FileBytes(req))'
          BY <2>5, <2>8, <3>6 DEF Written
      <4>2. QED
          BY <2>8, <3>6, <3>7, <4>1 DEF Copied, Follows
    <3>9. InFile'
        BY <2>11 DEF InFile
    <3>10. QED
        BY <1>1, <1>2, <2>1, <2>7, <3>4, <3>8, <3>9, FileStep
  <2>12. QED
      BY <1>5, <2>9, <2>10, <2>11
<1>6. QED
    BY <1>3, <1>4, <1>5 DEF ReadByte

\* Nothing is left behind the end of a sequence.
LEMMA BehindTheEnd ==
    ASSUME NEW s \in Tokens, NEW n \in Nat, Len(s) < n
    PROVE  SubSeq(s, n + 1, Len(s)) = <<>>
<1>1. PICK m \in Nat : m = Len(s)
    BY Lengths
<1>2. PICK a \in Int : a = n + 1
    OBVIOUS
<1>3. m \in Int /\ ~(a <= m) /\ \A i \in a .. m : s[i] \in Word
    BY <1>1, <1>2
<1>4. SubSeq(s, a, m) \in Seq(Word) /\ Len(SubSeq(s, a, m)) = 0
    BY <1>3, SubSeqProperties
<1>5. PICK v \in Tokens : v = SubSeq(s, a, m)
    BY <1>4 DEF Tokens
<1>6. v = <<>>
    BY <1>4, <1>5, Lengths
<1>7. QED
    BY <1>1, <1>2, <1>5, <1>6

\* What is read behind CR LF - -: n bytes of the file, w, from the place i on.
LEMMA BehindDashes ==
    ASSUME WebInv, pc = "dashdash", NEW n \in Nat, n = Len(Boundary), n <= Len(input),
           NEW p \in Nat, p = total + Len(buf)
    PROVE  /\ req \in Requests /\ FileBytes(req) \in Tokens
           /\ Written(FileBytes(req))
           /\ SeenOf(FileBytes(req), Seen.dashdash, p)
           /\ p + 4 + n <= Len(FileBytes(req))
           /\ \A k \in 1 .. n : input[k] = FileBytes(req)[p + 4 + k]
           /\ Continues(SubSeq(input, n + 1, Len(input)), Awaited, FileBytes(req), p + 4 + n)
           /\ SubSeq(input, n + 1, Len(input)) \in Tokens
           /\ update = "running" => handler = "update" /\ authenticated
<1>1. Types /\ InFile /\ input \in Tokens /\ Awaited \in Tokens
    BY Lengths DEF WebInv, InFile, Types, Awaited
<1>2. n > 0
    BY BoundaryBytes
<1>3. PICK m \in Nat : m = Len(input)
    BY <1>1, Lengths
<1>4. ~NothingComes
    BY <1>2, <1>3, Lengths DEF NothingComes
<1>5. PICK q \in Nat : q = Len(Seen[pc])
    BY SeenIs
<1>6. q = 4
    BY <1>5, SeenIs
<1>7. /\ req \in Requests /\ FileBytes(req) \in Tokens
      /\ Written(FileBytes(req)) /\ SeenOf(FileBytes(req), Seen[pc], p)
      /\ Continues(input, Awaited, FileBytes(req), p + q)
      /\ update = "running" => handler = "update" /\ authenticated
    BY <1>1, <1>4, <1>5, CopiedIs
<1>8. PICK w \in Tokens : w = FileBytes(req)
    BY <1>7
<1>9. PICK i \in Nat : i = p + 4
    OBVIOUS
<1>10. n \in 0 .. Len(input) /\ Continues(input, Awaited, w, i)
    BY <1>3, <1>6, <1>7, <1>8, <1>9
<1>11. /\ Continues(SubSeq(input, n + 1, Len(input)), Awaited, w, i + n)
       /\ SubSeq(input, n + 1, Len(input)) \in Tokens
    BY <1>1, <1>10, Skips, Suffix
<1>12. PICK y \in Nat : y = Len(Awaited)
    BY <1>1, Lengths
<1>13. i + n <= Len(w) /\ \A k \in 1 .. n : input[k] = w[i + k]
  <2>1. i + m + y <= Len(w) /\ Len(w) \in Nat /\ \A k \in 1 .. m : input[k] = w[i + k]
      BY <1>3, <1>8, <1>10, <1>12, Lengths DEF Continues
  <2>2. QED
      BY <1>3, <2>1
<1>14. QED
    BY <1>7, <1>8, <1>9, <1>11, <1>13

\* The end of a form is found where it is.
LEMMA EndFound ==
    ASSUME WebInv, pc = "dashdash", BoundaryArrived,
           NEW l \in Nat, NEW n \in Nat, l = Len(req.content), n = Len(Boundary)
    PROVE  /\ req \in Requests /\ total + Len(buf) = l
           /\ Written(FileBytes(req))
           /\ \A k \in 1 .. l : FileBytes(req)[k] = req.content[k]
<1>1. Types /\ input \in Tokens
    BY DEF WebInv, Types
<1>2. n <= Len(input) /\ n \in 0 .. Len(input) /\ SubSeq(input, 1, n) = Boundary
    BY <1>1, Lengths DEF BoundaryArrived
<1>3. \A k \in 1 .. n : input[k] = Boundary[k]
    BY <1>1, <1>2, Prefix
<1>4. PICK p \in Nat : p = total + Len(buf)
    BY <1>1, Lengths DEF Types
<1>5. /\ req \in Requests /\ FileBytes(req) \in Tokens
      /\ Written(FileBytes(req))
      /\ p + 4 + n <= Len(FileBytes(req))
      /\ \A k \in 1 .. n : input[k] = FileBytes(req)[p + 4 + k]
    BY <1>2, <1>4, BehindDashes
<1>6. PICK i \in Nat : i = p + 4
    OBVIOUS
<1>7. /\ i + n <= Len(FileBytes(req))
      /\ \A k \in 1 .. n : FileBytes(req)[i + k] = Boundary[k]
    BY <1>3, <1>5, <1>6
<1>8. i = l + 4
  <2>1. i = Len(req.content) + 4
      BY <1>5, <1>7, EndOfFile
  <2>2. QED
      BY <2>1
<1>9. p = l
    BY <1>6, <1>8
<1>10. FileOf(FileBytes(req), req, l, n)
    BY <1>5, FileBytesAre
<1>11. QED
    BY <1>4, <1>5, <1>9, <1>10 DEF FileOf

\* A sequence that starts as the file and is as long is the file.
LEMMA IsTheContent ==
    ASSUME NEW r \in Requests, NEW s \in Tokens, NEW w, NEW l \in Nat, l = Len(r.content),
           Starts(s, w, l), \A k \in 1 .. l : w[k] = r.content[k]
    PROVE  s = r.content
<1>1. r.content \in Tokens
    BY Content
<1>2. Len(s) = Len(r.content) /\ \A k \in 1 .. Len(s) : s[k] = r.content[k]
    BY DEF Starts
<1>3. QED
    BY <1>1, <1>2, SeqEqual DEF Tokens

\* What is unread behind the bytes that were taken for the boundary, or in its
\* place, belongs to the file.
LEMMA LeftBehindTheEnd ==
    ASSUME WebInv, pc = "dashdash", EndRead, input' = AfterEnd,
           UNCHANGED <<req, peer, coming>>
    PROVE  input' \in Tokens /\ Leftover'
<1>1. Types /\ input \in Tokens /\ req \in Requests
    BY DEF WebInv, Types, TypeOK
<1>2. PICK n \in Nat : n = Len(Boundary)
    BY BoundaryBytes
<1>3. PICK m \in Nat : m = Len(input)
    BY <1>1, Lengths
<1>4. Awaited' = Awaited /\ input' = SubSeq(input, n + 1, Len(input))
    BY <1>2 DEF Awaited, AfterEnd
<1>5. CASE n <= m
  <2>1. PICK p \in Nat : p = total + Len(buf)
      BY <1>1, Lengths DEF Types
  <2>2. /\ Continues(input', Awaited', FileBytes(req), p + 4 + n) /\ input' \in Tokens
      BY <1>2, <1>3, <1>4, <1>5, <2>1, BehindDashes
  <2>3. p + 4 + n \in Nat
      OBVIOUS
  <2>4. QED
      BY <2>2, <2>3 DEF Leftover, Follows
<1>6. CASE ~(n <= m)
  <2>1. input' = <<>> /\ input' \in Tokens
    <3>1. Len(input) < n
        BY <1>3, <1>6
    <3>2. SubSeq(input, n + 1, Len(input)) = <<>>
        BY <1>1, <3>1, BehindTheEnd
    <3>3. QED
        BY <1>4, <3>2, Lengths
  <2>2. Quiet
      BY <1>2, <1>3, <1>6 DEF EndRead
  <2>3. Awaited' = <<>>
      BY <1>4, <2>2 DEF Quiet, Awaited
  <2>4. Continues(input', Awaited', FileBytes(req'), 0)
      BY <1>1, <2>1, <2>3, NothingLeft
  <2>5. QED
      BY <2>1, <2>4 DEF Leftover, Follows
<1>7. QED
    BY <1>5, <1>6

LEMMA FileEndsKeeps == WebInv /\ FileEnds => WebInv'
<1> SUFFICES ASSUME WebInv, FileEnds PROVE WebInv'
    OBVIOUS
<1>1. /\ pc = "dashdash" /\ pc' = "tail" /\ EndRead /\ guessed' = ~BoundaryArrived
      /\ input' = AfterEnd
      /\ Deliver(buf, TRUE) /\ total' = total + Len(buf)
      /\ upFile' = IF Storing THEN "closed" ELSE upFile
      /\ answers' = IF handler = "upload" THEN answers + 1 ELSE answers
      /\ UNCHANGED <<req, served, peer, coming, status, handler, headers, part, postArgs,
                     args, authenticated, buf>>
    BY DEF FileEnds, connection, parsed
<1>2. TypeOK /\ Types /\ Known /\ Place /\ Answered /\ Files
    BY DEF WebInv
<1>3. /\ status = "WAIT_READ" /\ req \in Requests
      /\ InRequest /\ InForm /\ InFile /\ InRequest' /\ InForm' /\ ~InFile'
    BY <1>1, <1>2 DEF TypeOK, InRequest, InForm, InFile
<1>4. buf \in Tokens /\ Len(buf) \in Nat /\ total \in Nat /\ total' \in Nat
    BY <1>1, <1>2, Lengths DEF Types
<1>5. /\ stored' \in Tokens /\ image' \in Tokens /\ short' \in BOOLEAN
      /\ Storing /\ ~short' => ~short /\ stored' = stored \o buf
      /\ ~Flashing => update' = update
      /\ Flashing => \/ update' = "failed"
                     \/ update' = "ready" /\ image' = image \o buf
    BY <1>1, <1>2, <1>4, Delivers
<1>6. input' \in Tokens /\ Leftover'
    BY <1>1, LeftBehindTheEnd
<1>7. /\ answers = 0 /\ (handler = "upload" => upFile # "closed")
      /\ (handler = "update" => (authenticated <=> "auth" \in headers))
      /\ (update # "none" => handler = "update" /\ authenticated)
      /\ update # "ready"
    BY <1>1, <1>2, <1>3 DEF Files, Answered
<1>8. /\ update' \in {"none", "failed", "ready"}
      /\ update' = "ready" => update = "running"
      /\ update' # "none" => update # "none"
  <2>1. update \in {"none", "running", "failed"}
      BY <1>2, <1>7 DEF TypeOK
  <2>2. CASE Flashing
      BY <1>5, <2>2 DEF Flashing
  <2>3. CASE ~Flashing
    <3>1. update' = update /\ update # "running"
        BY <1>5, <1>7, <2>3 DEF Flashing
    <3>2. QED
        BY <2>1, <3>1
  <2>4. QED
      BY <2>2, <2>3
<1>9. ASSUME ~guessed'
      PROVE  /\ total' = Len(req.content)
             /\ upFile' = "closed" /\ handler = "upload" /\ ~short' => stored' = req.content
             /\ update' = "ready" /\ handler = "update" => image' = req.content
  <2>1. PICK l \in Nat : l = Len(req.content)
      BY <1>3, Content
  <2>2. PICK n \in Nat : n = Len(Boundary)
      BY BoundaryBytes
  <2>3. PICK b \in Nat : b = Len(buf)
      BY <1>4
  <2>4. PICK t \in Nat : t = total
      BY <1>4
  <2>5. PICK w : w = FileBytes(req)
      OBVIOUS
  <2>6. BoundaryArrived
      BY <1>1, <1>9
  <2>7. t + b = l /\ Written(w) /\ \A k \in 1 .. l : w[k] = req.content[k]
      BY <1>1, <2>1, <2>2, <2>3, <2>4, <2>5, <2>6, EndFound
  <2>8. \A k \in 1 .. b : buf[k] = w[total + k]
      BY <2>3, <2>7 DEF Written
  <2>9. update = "running" => handler = "update" /\ authenticated
      BY <1>7
  <2>10. /\ Storing /\ ~short' => Starts(stored', w, total + b)
         /\ update = "running" /\ update' # "failed" => Starts(image', w, total + b)
      BY <1>1, <1>2, <1>4, <2>3, <2>7, <2>8, <2>9, DeliverStarts
  <2>11. total + b = l
      BY <2>4, <2>7
  <2>12. ASSUME upFile' = "closed", handler = "upload", ~short' PROVE stored' = req.content
    <3>1. Storing
        BY <1>1, <1>7, <2>12
    <3>2. Starts(stored', w, l)
        BY <2>10, <2>11, <2>12, <3>1
    <3>3. QED
        BY <1>3, <1>5, <2>1, <2>7, <3>2, IsTheContent
  <2>13. ASSUME update' = "ready" PROVE image' = req.content
    <3>1. Starts(image', w, l)
        BY <1>8, <2>10, <2>11, <2>13
    <3>2. QED
        BY <1>3, <1>5, <2>1, <2>7, <3>1, IsTheContent
  <2>14. total' = Len(req.content)
      BY <1>1, <2>1, <2>3, <2>11
  <2>15. QED
      BY <2>12, <2>13, <2>14
<1>10. UploadStoresTheFile'
    BY <1>1, <1>9 DEF UploadStoresTheFile
<1>11. HandledForItsOwnRequest'
    BY <1>1, <1>3 DEF HandledForItsOwnRequest
<1>12. guessed' \in BOOLEAN /\ upFile' \in {"none", "open", "closed"}
    BY <1>1, <1>2 DEF TypeOK
<1>13. TypeOK' /\ Types'
    BY <1>1, <1>2, <1>3, <1>4, <1>5, <1>6, <1>8, <1>12 DEF TypeOK, Types, Kinds
<1>14. Known'
    BY <1>1, <1>2, <1>3 DEF Known, Posted, Query
<1>15. Place'
  <2>1. AtFile'
      BY <1>1, <1>2, <1>3 DEF Place, AtFile, TextFirst, TextRead
  <2>2. QED
      BY <1>1, <1>3, <1>6, <2>1 DEF Place
<1>16. Files'
    BY <1>1, <1>3, <1>7, <1>8 DEF Files
<1>17. Answered'
    BY <1>1, <1>7 DEF Answered
<1>18. QED
    BY <1>10, <1>11, <1>13, <1>14, <1>15, <1>16, <1>17 DEF WebInv

\* CR LF - - and as many bytes as a boundary has, which is not the one of the
\* form: all of them belong to the file.
LEMMA NotTheBoundaryKeeps == WebInv /\ NotTheBoundary => WebInv'
<1> SUFFICES ASSUME WebInv, NotTheBoundary PROVE WebInv'
    OBVIOUS
<1> DEFINE some == [i \in 1 .. Len(Boundary) |-> IF i <= Len(input) THEN input[i] ELSE "x"]
<1>1. /\ pc = "dashdash" /\ pc' = "file" /\ (Len(input) >= Len(Boundary) \/ Quiet)
      /\ input' = SubSeq(input, Len(Boundary) + 1, Len(input))
      /\ Write(Seen.dashdash \o some)
      /\ UNCHANGED <<req, served, peer, coming, status, handler, headers, part, postArgs,
                     args, upFile, authenticated, guessed, answers>>
    BY DEF NotTheBoundary, AfterEnd, EndRead, connection, parsed
<1>2. Types /\ input \in Tokens /\ InFile /\ InFile'
    BY <1>1 DEF WebInv, Types, InFile
<1>3. PICK n \in Nat \ {0} : n = Len(Boundary)
    BY BoundaryBytes
<1>4. PICK m \in Nat : m = Len(input)
    BY <1>2, Lengths
<1>5. PICK u \in Tokens :
        /\ u = some /\ Len(u) = n
        /\ \A k \in 1 .. n : k <= m => u[k] = input[k]
  <2>1. \A i \in 1 .. n : (IF i <= m THEN input[i] ELSE "x") \in Word
      BY <1>2, <1>4, Entries, Words
  <2>2. [i \in 1 .. n |-> IF i <= m THEN input[i] ELSE "x"] \in Seq(Word)
      BY <1>3, <2>1, IsASeq
  <2>3. some = [i \in 1 .. n |-> IF i <= m THEN input[i] ELSE "x"]
      BY <1>3, <1>4
  <2>4. some \in Tokens
      BY <2>2, <2>3 DEF Tokens
  <2>5. DOMAIN some = 1 .. n
      BY <2>3
  <2>6. Len(some) = n
      BY <1>3, <2>5, <2>4, LenProperties DEF Tokens
  <2>7. \A k \in 1 .. n : k <= m => some[k] = input[k]
      BY <2>3
  <2> HIDE DEF some
  <2>8. QED
      BY <2>4, <2>6, <2>7
<1> HIDE DEF some
<1>6. PICK d \in Tokens : /\ d = Seen.dashdash /\ Len(d) = 4
                          /\ d[1] = "CR" /\ d[2] = "LF" /\ d[3] = "-" /\ d[4] = "-"
    BY SeenIs
<1>7. PICK four \in Nat : four = 4
    OBVIOUS
<1>8. PICK bytes \in Tokens : bytes = d \o u
    BY ConcatType
<1>9. /\ Len(bytes) = four + n
      /\ \A k \in 1 .. four : bytes[k] = d[k]
      /\ \A k \in 1 .. n : bytes[four + k] = u[k]
  <2>1. four = Len(d) /\ n = Len(u) /\ four \in Nat /\ n \in Nat
      BY <1>3, <1>5, <1>6, <1>7
  <2>2. QED
      BY <2>1, <1>8, Concat
<1>10. bytes # <<>> /\ Write(bytes)
    BY <1>1, <1>3, <1>5, <1>6, <1>7, <1>8, <1>9, Lengths
<1>11. /\ {buf', stored', image'} \subseteq Tokens /\ total' \in Nat
       /\ Len(buf') <= BufLen /\ short' \in BOOLEAN /\ StillRunning
    BY <1>2, <1>10, WriteTypes
<1>12. CASE n <= m
  <2>1. PICK p \in Nat : p = total + Len(buf)
      BY <1>2, Lengths DEF Types
  <2>2. /\ req \in Requests /\ FileBytes(req) \in Tokens
        /\ Written(FileBytes(req))
        /\ SeenOf(FileBytes(req), Seen.dashdash, p)
        /\ \A k \in 1 .. n : input[k] = FileBytes(req)[p + 4 + k]
        /\ Continues(SubSeq(input, n + 1, Len(input)), Awaited, FileBytes(req), p + 4 + n)
        /\ SubSeq(input, n + 1, Len(input)) \in Tokens
        /\ update = "running" => handler = "update" /\ authenticated
      BY <1>1, <1>3, <1>4, <1>12, <2>1, BehindDashes
  <2>3. PICK w \in Tokens : w = FileBytes(req)
      BY <2>2
  <2>4. SeenOf(w, bytes, p)
    <3>1. ASSUME NEW k \in 1 .. four + n PROVE bytes[k] = w[p + k]
      <4>1. CASE k \in 1 .. four
          BY <1>6, <1>7, <1>9, <2>2, <2>3, <4>1 DEF SeenOf
      <4>2. CASE k \notin 1 .. four
        <5>1. PICK j \in 1 .. n : k = four + j
          <6>1. k - four \in 1 .. n /\ k = four + (k - four)
              BY <4>2
          <6>2. QED
              BY <6>1
        <5>2. bytes[k] = u[j] /\ u[j] = input[j] /\ input[j] = w[p + 4 + j]
          <6>1. bytes[k] = u[j]
              BY <1>9, <5>1
          <6>2. j <= m
              BY <1>12
          <6>3. u[j] = input[j]
              BY <1>5, <6>2
          <6>4. input[j] = w[p + 4 + j]
              BY <2>2, <2>3
          <6>5. QED
              BY <6>1, <6>3, <6>4
        <5>3. p + 4 + j = p + k
            BY <1>7, <5>1
        <5>4. QED
            BY <5>2, <5>3
      <4>3. QED
          BY <4>1, <4>2
    <3>2. QED
        BY <1>9, <3>1 DEF SeenOf
  <2>5. Written(w)' /\ total' + Len(buf') = p + (four + n)
      BY <1>1, <1>2, <1>9, <1>10, <2>1, <2>2, <2>3, <2>4, Writing
  <2>6. Awaited' = Awaited /\ FileBytes(req') = w /\ FileBytes(req)' = w
      BY <1>1, <2>3 DEF Awaited
  <2>7. /\ SeenOf(w, Seen[pc'], p + (four + n))
        /\ Continues(input', Awaited', w, (p + (four + n)) + Len(Seen[pc']))
        /\ input' \in Tokens
    <3>1. Len(Seen[pc']) = 0 /\ (p + (four + n)) + 0 = p + 4 + n
        BY <1>1, <1>7, SeenIs
    <3>2. QED
        BY <1>1, <1>3, <2>2, <2>3, <2>6, <3>1 DEF SeenOf
  <2>8. Copied(FileBytes(req))'
    <3>1. Written(FileBytes(req))'
        BY <2>3, <2>5, <2>6 DEF Written
    <3>2. QED
        BY <2>5, <2>6, <2>7, <3>1 DEF Copied, Follows
  <2>9. QED
      BY <1>1, <1>2, <1>11, <2>7, <2>8, FileStep
<1>13. CASE ~(n <= m)
  <2>1. input' = <<>> /\ input' \in Tokens
    <3>1. Len(input) < n
        BY <1>4, <1>13
    <3>2. SubSeq(input, n + 1, Len(input)) = <<>>
        BY <1>2, <3>1, BehindTheEnd
    <3>3. QED
        BY <1>1, <1>3, <3>2, Lengths
  <2>2. Quiet /\ Quiet'
      BY <1>1, <1>3, <1>4, <1>13 DEF Quiet
  <2>3. NothingComes'
      BY <2>1, <2>2 DEF NothingComes
  <2>4. QED
      BY <1>1, <1>2, <1>11, <2>1, <2>3, FileStep
<1>14. QED
    BY <1>12, <1>13

-------------------------------------------------------------------------------
(* The theorems.                                                           *)

LEMMA NextInv == WebInv /\ [Next]_vars => WebInv'
<1> SUFFICES ASSUME WebInv, [Next]_vars PROVE WebInv'
    OBVIOUS
<1>1. CASE Peers
    BY <1>1, PeersKeep
<1>2. CASE NewClient
    BY <1>2, NewClientKeeps
<1>3. CASE GiveUp \/ Parse
    BY <1>3, GiveUpKeeps, ParseKeeps
<1>4. CASE Lines
    BY <1>4, FirstLineKeeps, BadRequestKeeps, ReadHeaderKeeps, HeadersEndKeeps,
       ReadPlainKeeps, BodyMissingKeeps DEF Lines
<1>5. CASE Form
    BY <1>5, FormBeginsKeeps, ReadPartKeeps, FieldBeginsKeeps, ReadFieldKeeps,
       FileBeginsKeeps, ReadByteKeeps, NoMoreBytesKeeps, FileEndsKeeps,
       NotTheBoundaryKeeps, FormDoneKeeps DEF Form
<1>6. CASE Handled
    BY <1>6, HandleRequestKeeps, RestartAfterUpdateKeeps DEF Handled
<1>7. CASE UNCHANGED vars
  <2>1. UNCHANGED <<req, served, peer, coming, input, status, pc, handler, headers, part,
                    postArgs, args, buf, total, upFile, stored, authenticated, update,
                    image, short, guessed, answers>>
      BY <1>7 DEF vars, connection, parsed, files
  <2>2. TypeOK' /\ Types'
      BY <2>1 DEF WebInv, TypeOK, Types, Kinds
  <2>3. Known'
      BY <2>1 DEF WebInv, Known, InRequest, InForm, InFile, Posted, Query, ArgumentsSent,
                  FileCame
  <2>4. Answered'
      BY <2>1 DEF WebInv, Answered, FileCame, Posted, Leftover, Follows, Awaited
  <2>5. Place'
      BY <2>1 DEF WebInv, Place, AtLine, AtHeaders, AtForm, AtPart, AtPartHead, AtField,
                  AtFile, Leftover, Follows, Awaited, TextFirst, TextRead, InRequest,
                  InFile
  <2>6. Files'
      BY <2>1 DEF WebInv, Files, Copied, Written, Leftover, Follows, Awaited,
                  NothingComes, Quiet, InFile
  <2>7. UploadStoresTheFile' /\ HandledForItsOwnRequest'
      BY <2>1 DEF WebInv, UploadStoresTheFile, HandledForItsOwnRequest, ArgumentsSent,
                  Query, FileCame, Posted
  <2>8. QED
      BY <2>2, <2>3, <2>5, <2>6, <2>7, <2>4 DEF WebInv
<1>8. QED
    BY <1>1, <1>2, <1>3, <1>4, <1>5, <1>6, <1>7 DEF Next, handleClient, Peers

\* What is unread at each place of the parser is a part of what the peer sends
\* there, and what has been written of a file is what has been read of it.
THEOREM AlwaysWebInv == Spec => []WebInv
<1>1. Init => WebInv
    BY InitInv
<1>2. WebInv /\ [Next]_vars => WebInv'
    BY NextInv
<1>3. QED
    BY <1>1, <1>2, PTL DEF Spec

\* Connection, parser and files have their types, and the upload buffer never
\* holds more than HTTP_UPLOAD_BUFLEN.
THEOREM WebTyping == Spec => []TypeOK
<1>1. WebInv => TypeOK
    BY DEF WebInv
<1>2. QED
    BY <1>1, AlwaysWebInv, PTL

\* A file or firmware that _parseForm() calls complete is the one that was
\* sent, byte for byte, whatever its content, the boundary and the buffer, if
\* its end was found in what had arrived; a firmware even if writes failed, a
\* file if none of its writes took only a part (websites.ino:643 does not look).
THEOREM UploadsAreComplete == Spec => []UploadStoresTheFile
<1>1. WebInv => UploadStoresTheFile
    BY DEF WebInv
<1>2. QED
    BY <1>1, AlwaysWebInv, PTL

\* A request is handled with its own arguments and headers, a firmware that
\* came with it was authorized by it, and it is answered once, wherever its peer
\* or an earlier one fell silent.  A POST to "/update" that brings no file is
\* outside of this: the authorization of an earlier upload counts for it.
THEOREM RequestsAreTheirOwn == Spec => []HandledForItsOwnRequest
<1>1. WebInv => HandledForItsOwnRequest
    BY DEF WebInv
<1>2. QED
    BY <1>1, AlwaysWebInv, PTL
===============================================================================
