------------------------------- MODULE WebServer -------------------------------
(***************************************************************************)
(* ESP8266WebServer, one client at a time: handleClient() as a machine     *)
(* over a connection whose peer may stop or vanish at any byte, the parser *)
(* of requests and forms (Parsing.cpp), the handlers that setup.ino        *)
(* registers, the upload of a file (handleFileUpload()) and of a firmware  *)
(* (ESP8266HTTPUpdateServer).                                              *)
(*                                                                         *)
(* The lines of a request are tokens; the bytes of an uploaded file are    *)
(* tokens too, because the parser looks for the boundary byte by byte.     *)
(***************************************************************************)
EXTENDS Naturals, Sequences

CONSTANTS Requests,      \* what peers send, see RequestType
          Boundary,      \* the bytes of a form's boundary
          MaxRequests,   \* bounds the requests of a behaviour
          BufLen,        \* HTTP_UPLOAD_BUFLEN
          Events         \* what may go wrong, see EventKinds

\* "silence"  the peer sends no more but stays connected
\* "close"    the peer closes before it has sent everything
\* "station"  the access point is lost, and stopAll() ends all connections
\* "full"     SPIFFS cannot open a file or takes only a part of what is written,
\*            there is no room for a firmware or its flash does not take it
\* "stack"    the stack holds the boundary where nothing has been read to
EventKinds == {"silence", "close", "station", "full", "stack"}

Bytes == {"x", "CR", "LF", "-"}

\* body "form": with a text field and one uploaded file, or one of both.
RequestType ==
    [first : {"line", "junk"}, method : {"GET", "POST"}, auth : BOOLEAN,
     uri : {"page", "upload", "static", "update", "missing"},
     query : BOOLEAN, body : {"none", "plain", "form"},
     field : BOOLEAN, file : BOOLEAN, content : Seq(Bytes)]

ASSUME WebAssumption == /\ Requests \subseteq RequestType
                        /\ Boundary \in Seq({"b", "c"}) \ {<<>>}
                        /\ {MaxRequests, BufLen} \subseteq Nat \ {0}
                        /\ Events \subseteq EventKinds

VARIABLES
    \* the peer and the connection
    req,          \* the request it sends
    served,       \* number of that request
    peer,         \* "sending", "silent" or "closed"
    coming,       \* what it has not sent yet
    input,        \* what has arrived and is not read
    \* ESP8266WebServer
    status,       \* _currentStatus
    pc,           \* "idle" between calls of handleClient(), else the place in it
    handler,      \* _currentHandler
    headers,      \* headers of the request: "auth", "type", "length"
    part,         \* the kind of form part that is being read
    postArgs,     \* postArgs of _parseForm()
    args,         \* _currentArgs: what they are, and of which request
    buf, total,   \* _currentUpload: buf and totalSize
    \* the sketch and the update server
    upFile,       \* fsUploadFile: "none", "open" or "closed"
    stored,       \* what the uploaded file contains
    authenticated,
    update,       \* the Updater: "none", "running", "failed" or "ready"
    image,        \* what has been written to it
    short,        \* history: a write of this file took only a part of it
    guessed,      \* history: its end was found in memory nobody had written
    answers       \* history: responses to this request

connection == <<req, served, peer, coming>>
parsed     == <<handler, headers, part, postArgs, args>>
files      == <<upFile, stored, authenticated, update, image, short, guessed>>
vars == <<connection, input, status, pc, parsed, buf, total, files, answers>>

FormPart(yes, tokens) == IF yes THEN tokens ELSE <<>>

HeaderLines(r) == FormPart(r.auth, <<"auth">>)
                      \o FormPart(r.body = "form", <<"type">>)
                      \o FormPart(r.body = "plain", <<"length">>)

TextPart(r) == FormPart(r.field,
    <<"field", "blank", "text", IF r.file THEN "boundary" ELSE "end">>)

FileBytes(r) == r.content \o <<"CR", "LF", "-", "-">> \o Boundary \o <<"last">>
FilePart(r)  == FormPart(r.file, <<"file", "blank">> \o FileBytes(r))

Body(r) == CASE r.body = "none"  -> <<>>
             [] r.body = "plain" -> <<"plain">>
             [] r.body = "form"  -> <<"boundary">> \o (TextPart(r) \o FilePart(r))

Stream(r) == <<r.first>> \o HeaderLines(r) \o <<"blank">> \o Body(r)

Init == /\ req \in Requests
        /\ served = 0
        /\ peer = "closed"
        /\ coming = <<>>
        /\ input = <<>>
        /\ status = "NONE"
        /\ pc = "idle"
        /\ handler = "none"
        /\ headers = {}
        /\ part = "none"
        /\ postArgs = {}
        /\ args = {}
        /\ buf = <<>>
        /\ total = 0
        /\ upFile = "none"
        /\ stored = <<>>
        /\ authenticated = FALSE
        /\ update = "none"
        /\ image = <<>>
        /\ short = FALSE
        /\ guessed = FALSE
        /\ answers = 0

-------------------------------------------------------------------------------
(* The peer.                                                               *)

Sends == /\ peer = "sending"
         /\ coming # <<>>
         /\ input' = Append(input, Head(coming))
         /\ coming' = Tail(coming)
         /\ UNCHANGED <<req, served, peer, status, pc, parsed, buf, total, files, answers>>

FallsSilent == /\ "silence" \in Events
               /\ peer = "sending"
               /\ coming # <<>>
               /\ peer' = "silent"
               /\ UNCHANGED <<req, served, coming, input, status, pc, parsed,
                              buf, total, files, answers>>

Closes == /\ status # "NONE"
          /\ peer # "closed"
          /\ coming = <<>> \/ "close" \in Events
          /\ peer' = "closed"
          /\ coming' = <<>>
          /\ UNCHANGED <<req, served, input, status, pc, parsed, buf, total, files, answers>>

\* WiFiClient::stopAll(): what has arrived is lost as well.
StationLost == /\ "station" \in Events
               /\ status # "NONE"
               /\ peer # "closed" \/ input # <<>>
               /\ peer' = "closed"
               /\ coming' = <<>>
               /\ input' = <<>>
               /\ UNCHANGED <<req, served, status, pc, parsed, buf, total, files, answers>>

\* connected(), with the bytes left in the buffer.
ConnectedWith(bytes) == peer # "closed" \/ bytes # <<>>
Connected == ConnectedWith(input)

\* A read of a line or of a body ends by its timeout.
Quiet == peer # "sending" \/ coming = <<>>
NothingComes == input = <<>> /\ Quiet

Token(t) == input # <<>> /\ Head(input) = t

-------------------------------------------------------------------------------
(* handleClient().                                                         *)

\* _currentClient = WiFiClient(); _currentStatus = HC_NONE.
Drop == /\ status' = "NONE"
        /\ pc' = "idle"
        /\ peer' = "closed"
        /\ coming' = <<>>
        /\ input' = <<>>
        /\ UNCHANGED <<req, served>>

\* _server.available() has a client.
NewClient == /\ status = "NONE"
             /\ served < MaxRequests
             /\ req' \in Requests
             /\ served' = served + 1
             /\ peer' = "sending"
             /\ coming' = Stream(req')
             /\ input' = <<>>
             /\ status' = "WAIT_READ"
             /\ answers' = 0
             /\ UNCHANGED <<pc, parsed, buf, total, files>>

\* Slip: a client that waits with a connection is never given up.
WaitOver == ~Connected

\* The client is gone, or has sent nothing for HTTP_MAX_DATA_WAIT, or has not
\* closed for HTTP_MAX_CLOSE_WAIT.
TimeIsUp == \/ ~Connected
            \/ status = "WAIT_READ" /\ input = <<>>
            \/ status = "WAIT_CLOSE"

GiveUp == /\ pc = "idle"
          /\ status # "NONE"
          /\ TimeIsUp
          /\ Drop
          /\ UNCHANGED <<parsed, buf, total, files, answers>>

Parse == /\ pc = "idle"
         /\ status = "WAIT_READ"
         /\ input # <<>>
         /\ pc' = "line"
         /\ UNCHANGED <<connection, input, status, parsed, buf, total, files, answers>>

-------------------------------------------------------------------------------
(* _parseRequest(): a line that does not come in time reads as empty.      *)

\* The handlers of setupHttpServer() and of the update server.
Routes == {<<"ANY", "page", "page">>, <<"POST", "upload", "upload">>,
           <<"GET", "static", "static">>, <<"GET", "update", "updatePage">>,
           <<"POST", "update", "update">>}

CanHandle(route) == route[1] \in {"ANY", req.method} /\ route[2] = req.uri

HandlerFound == IF \E route \in Routes : CanHandle(route)
                  THEN (CHOOSE route \in Routes : CanHandle(route))[3]
                  ELSE "none"

CanUpload == handler \in {"upload", "update"}

AfterLine == IF input = <<>> THEN <<>> ELSE Tail(input)

FirstLine == /\ pc = "line"
             /\ Token("line")
             /\ handler' = HandlerFound
             /\ headers' = {}
             /\ input' = Tail(input)
             /\ pc' = "headers"
             /\ UNCHANGED <<connection, status, part, postArgs, args,
                            buf, total, files, answers>>

BadRequest == /\ pc = "line"
              /\ ~Token("line")
              /\ headers' = {}
              /\ Drop
              /\ UNCHANGED <<handler, part, postArgs, args, buf, total, files, answers>>

ReadHeader == /\ pc = "headers"
              /\ input # <<>>
              /\ Head(input) \in {"auth", "type", "length"}
              /\ headers' = headers \cup {Head(input)}
              /\ input' = Tail(input)
              /\ UNCHANGED <<connection, status, pc, handler, part, postArgs, args,
                             buf, total, files, answers>>

\* Slip: the arguments of the last request are kept.
ArgumentsKept(kinds) == args \cup {<<kind, served>> : kind \in kinds}

\* _parseArguments(): the new arguments replace the old ones.
Arguments(kinds) == {<<kind, served>> : kind \in kinds}
Query == IF req.query THEN {"query"} ELSE {}

HeadersEnd ==
    /\ pc = "headers"
    /\ Token("blank") \/ NothingComes
    /\ \/ /\ req.method = "POST" /\ "type" \in headers
          /\ args' = Arguments(Query)
          /\ postArgs' = {}
          /\ pc' = "form"
          /\ input' = AfterLine
       \/ /\ req.method = "POST" /\ "length" \in headers
          /\ pc' = "plain"
          /\ input' = AfterLine
          /\ UNCHANGED <<args, postArgs>>
       \/ /\ req.method = "GET" \/ headers \cap {"type", "length"} = {}
          /\ args' = Arguments(Query)
          /\ pc' = "handle"
          /\ input' = <<>>
          /\ UNCHANGED postArgs
    /\ UNCHANGED <<connection, status, handler, headers, part, buf, total, files, answers>>

\* readBytesWithTimeout(), and client.flush() behind it.
ReadPlain == /\ pc = "plain"
             /\ Token("plain")
             /\ args' = Arguments(Query \cup {"plain"})
             /\ input' = <<>>
             /\ pc' = "handle"
             /\ UNCHANGED <<connection, status, handler, headers, part, postArgs,
                            buf, total, files, answers>>

\* The body is not there in time, or the form does not begin with its boundary.
BodyMissing == /\ pc \in {"plain", "form"}
               /\ NothingComes
               /\ Drop
               /\ UNCHANGED <<parsed, buf, total, files, answers>>

-------------------------------------------------------------------------------
(* _parseForm(). Its two loops over lines end only with the lines they     *)
(* look for: an empty line after a timeout leaves them where they are.     *)

FormBegins == /\ pc = "form"
              /\ Token("boundary")
              /\ input' = Tail(input)
              /\ pc' = "part"
              /\ UNCHANGED <<connection, status, parsed, buf, total, files, answers>>

ReadPart == /\ pc = "part"
            /\ input # <<>>
            /\ input' = Tail(input)
            /\ IF Head(input) \in {"field", "file"}
                 THEN part' = Head(input) /\ pc' = "parthead"
                 ELSE UNCHANGED <<part, pc>>
            /\ UNCHANGED <<connection, status, handler, headers, postArgs, args,
                           buf, total, files, answers>>

FieldBegins == /\ pc = "parthead"
               /\ part = "field"
               /\ Token("blank") \/ NothingComes
               /\ input' = AfterLine
               /\ pc' = "field"
               /\ UNCHANGED <<connection, status, parsed, buf, total, files, answers>>

\* The fields come first, and then the arguments of the URL.
FormEnds(fields) == /\ args' = fields \cup args
                    /\ input' = <<>>
                    /\ pc' = "handle"

ReadField == /\ pc = "field"
             /\ \/ /\ Token("text")
                   /\ input' = Tail(input)
                   /\ UNCHANGED <<pc, postArgs, args>>
                \/ /\ Token("boundary")
                   /\ postArgs' = postArgs \cup Arguments({"text"})
                   /\ input' = Tail(input)
                   /\ pc' = "part"
                   /\ UNCHANGED args
                \/ /\ Token("end")
                   /\ postArgs' = postArgs \cup Arguments({"text"})
                   /\ FormEnds(postArgs')
             /\ UNCHANGED <<connection, status, handler, headers, part,
                            buf, total, files, answers>>

\* UPLOAD_FILE_START: SPIFFS.open(name, "w"), or Update.begin().
FileBegins ==
    /\ pc = "parthead"
    /\ part = "file"
    /\ Token("blank") \/ NothingComes
    /\ input' = AfterLine
    /\ pc' = "file"
    /\ buf' = <<>>
    /\ total' = 0
    /\ short' = FALSE
    /\ guessed' = FALSE
    /\ \E opened \in IF "full" \in Events THEN BOOLEAN ELSE {TRUE} :
         /\ upFile' = IF handler # "upload" THEN upFile
                      ELSE IF opened THEN "open" ELSE "none"
         /\ stored' = IF handler = "upload" /\ opened THEN <<>> ELSE stored
         /\ authenticated' = IF handler = "update" THEN "auth" \in headers
                             ELSE authenticated
         /\ IF handler = "update" /\ authenticated' /\ opened /\ update # "running"
              THEN update' = "running" /\ image' = <<>>
              ELSE UNCHANGED <<update, image>>
    /\ UNCHANGED <<connection, status, parsed, answers>>

-------------------------------------------------------------------------------
(* The bytes of a file, up to CR LF - - and the boundary. pc says how much *)
(* of that has been read: none, CR, CR LF, CR LF -, or all but the         *)
(* boundary.                                                               *)

\* Slip: the CR before a byte that is not LF is lost.
SeenWithoutCR == [file |-> <<>>, cr |-> <<>>, crlf |-> <<"CR", "LF">>,
                  dash |-> <<"CR", "LF", "-">>, dashdash |-> <<"CR", "LF", "-", "-">>]

Seen == [file |-> <<>>, cr |-> <<"CR">>, crlf |-> <<"CR", "LF">>,
         dash |-> <<"CR", "LF", "-">>, dashdash |-> <<"CR", "LF", "-", "-">>]
Expected  == [file |-> "CR", cr |-> "LF", crlf |-> "-", dash |-> "-"]
NextPlace == [file |-> "cr", cr |-> "crlf", crlf |-> "dash", dash |-> "dashdash"]

\* Slip: a buffer is delivered only when there is one byte too many in it.
DeliveredLate(bytes) == ((Len(buf \o bytes) - 2) \div BufLen) * BufLen

\* Full buffers are delivered before the next byte is put in.
Delivered(bytes) == ((Len(buf \o bytes) - 1) \div BufLen) * BufLen

Storing  == handler = "upload" /\ upFile = "open"
Flashing == handler = "update" /\ authenticated /\ update = "running"

\* How much of a chunk the flash takes.
Taken(chunk) == IF "full" \in Events THEN 0 .. Len(chunk) ELSE {Len(chunk)}

\* Slip: the Updater forgets a write that failed.
ErrorForgotten(failed) == update

\* An Updater with an error takes no more bytes.
ErrorKept(failed) == IF Flashing /\ failed THEN "failed" ELSE update

\* Update.end(true): without an error the firmware becomes the one of the next
\* start, unless the flash fails now.
Ended(failed) == IF Flashing /\ ErrorKept(failed) = "running"
                  THEN {"ready"} \cup (IF "full" \in Events THEN {"failed"} ELSE {})
                  ELSE {ErrorKept(failed)}

\* UPLOAD_FILE_WRITE: neither the sketch nor the update server stops when a
\* write takes less than it was given.  Behind the last chunk the file ends.
Deliver(chunk, last) ==
    \E n \in Taken(chunk) :
        LET failed == n < Len(chunk) IN
        /\ stored' = IF Storing THEN stored \o SubSeq(chunk, 1, n) ELSE stored
        /\ short' = (short \/ (Storing /\ failed))
        /\ image' = IF Flashing THEN image \o SubSeq(chunk, 1, n) ELSE image
        /\ update' \in IF last THEN Ended(failed) ELSE {ErrorKept(failed)}

Write(bytes) ==
    LET done == Delivered(bytes) IN
    /\ Deliver(SubSeq(buf \o bytes, 1, done), FALSE)
    /\ total' = total + done
    /\ buf' = SubSeq(buf \o bytes, done + 1, Len(buf \o bytes))

WritesNothing == UNCHANGED <<buf, total, stored, image, short>>

\* Slip: the update server does not end the update.
AbortIgnored == UNCHANGED update /\ Drop /\ WritesNothing

\* _parseFormUploadAborted(): the sketch leaves its file as it is, the update
\* server calls Update.end(), which drops the unfinished firmware.
Abort == /\ update' = IF handler = "update" /\ authenticated THEN "none" ELSE update
         /\ Drop
         /\ WritesNothing

\* "file" looks at the connection only after a byte that is not CR.
Unconnected(byte) == ~ConnectedWith(Tail(input)) /\ (pc # "file" \/ byte # "CR")

ReadByte ==
    /\ pc \in DOMAIN Expected
    /\ input # <<>>
    /\ LET byte == Head(input) IN
       \/ /\ Unconnected(byte)
          /\ Abort
       \/ /\ ~Unconnected(byte)
          /\ input' = Tail(input)
          /\ UNCHANGED <<connection, status>>
          /\ \/ /\ byte = Expected[pc]
                /\ pc' = NextPlace[pc]
                /\ WritesNothing
                /\ UNCHANGED update
             \/ /\ byte # Expected[pc]
                /\ byte = "CR"
                /\ pc' = "cr"
                /\ Write(Seen[pc])
             \/ /\ byte \notin {Expected[pc], "CR"}
                /\ pc' = "file"
                /\ Write(Append(Seen[pc], byte))
    /\ UNCHANGED <<parsed, upFile, authenticated, guessed, answers>>

\* _uploadReadByte() waits for a byte as long as there is a connection.
NoMoreBytes == /\ pc \in DOMAIN Expected
               /\ ~Connected
               /\ Abort
               /\ UNCHANGED <<parsed, upFile, authenticated, guessed, answers>>

BoundaryArrived == /\ Len(input) >= Len(Boundary)
                   /\ SubSeq(input, 1, Len(Boundary)) = Boundary

\* readBytes(endBuf) comes to its end, by its timeout if need be.
EndRead == Len(input) >= Len(Boundary) \/ Quiet
AfterEnd == SubSeq(input, Len(Boundary) + 1, Len(input))

\* UPLOAD_FILE_WRITE of the rest and UPLOAD_FILE_END, where handleSpiffs()
\* answers.  strstr() finds the boundary that was sent, or one that the stack
\* holds in the bytes of endBuf that were not read or behind it.
FileEnds == /\ pc = "dashdash"
            /\ EndRead
            /\ BoundaryArrived \/ "stack" \in Events
            /\ guessed' = ~BoundaryArrived
            /\ input' = AfterEnd
            /\ pc' = "tail"
            /\ Deliver(buf, TRUE)
            /\ total' = total + Len(buf)
            /\ upFile' = IF Storing THEN "closed" ELSE upFile
            /\ answers' = IF handler = "upload" THEN answers + 1 ELSE answers
            /\ UNCHANGED <<connection, status, parsed, authenticated, buf>>

\* Bytes that do not come are what the stack holds.
NotTheBoundary ==
    /\ pc = "dashdash"
    /\ EndRead
    /\ ~BoundaryArrived
    /\ input' = AfterEnd
    /\ Write(Seen.dashdash \o [i \in 1 .. Len(Boundary) |->
                                IF i <= Len(input) THEN input[i] ELSE "x"])
    /\ pc' = "file"
    /\ UNCHANGED <<connection, status, parsed, upFile, authenticated, guessed, answers>>

FormDone == /\ pc = "tail"
            /\ \/ Token("last") /\ FormEnds(postArgs)
               \/ /\ ~Token("last")
                  /\ input # <<>> \/ NothingComes
                  /\ input' = AfterLine
                  /\ pc' = "part"
                  /\ UNCHANGED args
            /\ UNCHANGED <<connection, status, handler, headers, part, postArgs,
                           buf, total, files, answers>>

-------------------------------------------------------------------------------
(* _handleRequest().                                                       *)

\* Slip: it answers as well.
AnswersAgain == 1

\* The handler of "/upload" is empty: its form has been answered.
Answers == IF handler = "upload" THEN 0 ELSE 1

HandleRequest ==
    /\ pc = "handle"
    /\ handler # "update" \/ ~authenticated
    /\ answers' = answers + Answers
    /\ IF Connected
         THEN /\ status' = "WAIT_CLOSE"
              /\ pc' = "idle"
              /\ UNCHANGED <<connection, input>>
         ELSE Drop
    /\ UNCHANGED <<parsed, buf, total, files>>

\* The update has ended, well or not: ESP.restart().
RestartAfterUpdate ==
    /\ pc = "handle"
    /\ handler = "update"
    /\ authenticated
    /\ Drop
    /\ handler' = "none"
    /\ headers' = {}
    /\ part' = "none"
    /\ postArgs' = {}
    /\ args' = {}
    /\ buf' = <<>>
    /\ total' = 0
    /\ upFile' = "none"
    /\ authenticated' = FALSE
    /\ update' = "none"
    /\ answers' = answers + 1
    /\ UNCHANGED <<stored, image, short, guessed>>

Handled == HandleRequest \/ RestartAfterUpdate

Lines == FirstLine \/ BadRequest \/ ReadHeader \/ HeadersEnd \/ ReadPlain \/ BodyMissing

Form == \/ FormBegins \/ ReadPart \/ FieldBegins \/ ReadField \/ FileBegins
        \/ ReadByte \/ NoMoreBytes \/ FileEnds \/ NotTheBoundary \/ FormDone

handleClient == GiveUp \/ Parse \/ Lines \/ Form \/ Handled

Next == \/ NewClient \/ Sends \/ FallsSilent \/ Closes \/ StationLost
        \/ handleClient

Spec == Init /\ [][Next]_vars

\* loop() calls handleClient() in every pass, and what a peer sends arrives.
FairSpec == Spec /\ WF_vars(handleClient) /\ WF_vars(Sends)

-------------------------------------------------------------------------------
(* Properties.                                                             *)

Kinds == {"query", "plain", "text"} \X (0..MaxRequests)

\* Types of connection, parser and files; the upload buffer of
\* ESP8266WebServer.h never holds more than it has room for.
TypeOK ==
    /\ req \in Requests /\ served \in 0..MaxRequests
    /\ peer \in {"sending", "silent", "closed"}
    /\ status \in {"NONE", "WAIT_READ", "WAIT_CLOSE"}
    /\ pc \in DOMAIN Seen \cup {"idle", "line", "headers", "plain", "form", "part",
                               "parthead", "field", "tail", "handle"}
    /\ pc # "idle" => status = "WAIT_READ"
    /\ headers \subseteq {"auth", "type", "length"}
    /\ postArgs \subseteq Kinds /\ args \subseteq Kinds
    /\ Len(buf) <= BufLen
    /\ upFile \in {"none", "open", "closed"}
    /\ update \in {"none", "running", "failed", "ready"}
    /\ authenticated \in BOOLEAN /\ short \in BOOLEAN /\ guessed \in BOOLEAN

\* _parseForm() looks for the end of an uploaded file byte by byte and gives
\* back what it took for the end by mistake: a file or a firmware that it
\* calls complete is byte for byte what was sent, its size is counted right,
\* and an upload that was cut off leaves no firmware half written.  A firmware
\* that did not fit is not the one of the next start.  Left out are a file of
\* which a write took only a part, because the sketch does not look at what
\* write() returns (websites.ino:643), and an end that was found in what the
\* stack held (Parsing.cpp:482).
UploadStoresTheFile ==
    /\ pc = "tail" /\ ~guessed =>
         /\ total = Len(req.content)
         /\ upFile = "closed" /\ handler = "upload" /\ ~short => stored = req.content
         /\ update = "ready" /\ handler = "update" => image = req.content
    /\ pc = "idle" => update = "none"

\* What POST brings with it, if it has not been cut off before.
Posted(header) == req.method = "POST" /\ header \in headers

ArgumentsSent == Query \cup (IF Posted("length") THEN {"plain"} ELSE {})
                       \cup (IF Posted("type") /\ req.field THEN {"text"} ELSE {})

FileCame == Posted("type") /\ req.file

\* A request is handled with its own arguments and headers, whatever was
\* parsed or broken off before it, and answered exactly once (_parseRequest(),
\* _handleRequest(), handleFileUpload()); only a form for "/upload" without a
\* file gets no answer.  A firmware that was uploaded with the request was
\* authorized by it.  Of a POST to "/update" without a file this is not said:
\* there the flag of an earlier upload counts (ESP8266HTTPUpdateServer.cpp:42).
HandledForItsOwnRequest ==
    /\ pc = "handle" =>
         /\ args = ArgumentsSent \X {served}
         /\ "auth" \in headers => req.auth
         /\ handler = "update" /\ authenticated /\ FileCame => "auth" \in headers
    /\ status = "WAIT_CLOSE" =>
         answers = IF handler = "upload" /\ ~FileCame THEN 0 ELSE 1

\* What handleClient() awaits without an end: the next line of a form whose
\* peer sends none, and the next byte of a file while the peer stays connected
\* and has no more to send - because it fell silent, or because _parseForm()
\* has swallowed the end of the file with a CR LF - - shortly before it.
AwaitsForEver == \/ pc \in {"part", "field"} /\ NothingComes
                 \/ pc \in DOMAIN Expected /\ NothingComes /\ peer # "closed"

\* Every client is let go in the end, answered or not, so that the next one is
\* served and loop() goes on - unless handleClient() AwaitsForEver.
ClientsAreLetGo == status # "NONE" ~> status = "NONE" \/ AwaitsForEver
===============================================================================
