------------------------------ MODULE MCWebServer ------------------------------
EXTENDS WebServer

\* Files whose bytes look like the end of a file, up to the second dash, one
\* that makes the parser miss its end, and lengths that fill the last buffer
\* and that do not.
MCContents == {<<>>, <<"x", "CR", "LF", "x">>, <<"CR", "CR", "LF", "-", "x">>,
               <<"CR", "LF", "-", "-">>}

Request(method, uri, query, body) ==
    [first |-> "line", method |-> method, auth |-> FALSE, uri |-> uri, query |-> query,
     body |-> body, field |-> FALSE, file |-> FALSE, content |-> <<>>]

Upload(uri, auth, field, contents) ==
    {[Request("POST", uri, FALSE, "form") EXCEPT !.auth = auth, !.field = field,
                                                 !.file = TRUE, !.content = c] : c \in contents}

MCRequests ==
    {Request("GET", "page", TRUE, "none"), Request("GET", "missing", FALSE, "none"),
     [Request("GET", "static", FALSE, "none") EXCEPT !.first = "junk"],
     Request("POST", "page", TRUE, "plain"),
     [Request("POST", "page", TRUE, "form") EXCEPT !.field = TRUE],
     [Request("GET", "page", TRUE, "form") EXCEPT !.field = TRUE],
     Request("POST", "upload", FALSE, "none"),
     Request("POST", "update", FALSE, "none")}
        \cup Upload("upload", FALSE, FALSE, MCContents)
        \cup Upload("upload", FALSE, TRUE, {<<"CR">>})
        \cup Upload("update", TRUE, FALSE, {<<"CR">>})
        \cup Upload("update", FALSE, FALSE, {<<>>})

MCBoundary == <<"b", "c">>
===============================================================================
