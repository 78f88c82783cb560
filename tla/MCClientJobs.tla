---------------------------- MODULE MCClientJobs -----------------------------
(* Instances of ClientJobs for TLC.                                         *)
EXTENDS ClientJobs

Lengths ==
    {NoLength} \cup [name : {"Content-Length"}, value : {0, 2, NotANumber}]

\* Every kind of request, with bodies shorter and longer than they declare.
SomeRequests ==
    [method : {"POST"}, path : {"callback"}, auth : {"good", "forged", "no XML"},
     named : {FALSE}, length : Lengths, body : 0 .. 2]
    \cup
    [method : {"GET"}, path : {"callback"}, auth : {"good", "forged"},
     named : {FALSE}, length : Lengths, body : 0 .. 1]
    \cup
    [method : {"GET", "PUT", "GETX", "FOO"}, path : {"other"}, auth : {"good"},
     named : BOOLEAN, length : {NoLength}, body : {0}]

\* The other names of Content-Length, with a body and without one.
Spellings ==
    [method : {"POST"}, path : {"callback"}, auth : {"good"}, named : {FALSE},
     length : [name : LengthNames \ {"Content-Length"}, value : {1}], body : 0 .. 1]

\* Those of which a client may send two without waiting for the answer.
Pipelined ==
    [method : {"GET"}, path : {"callback"}, auth : {"good"}, named : BOOLEAN,
     length : {NoLength}, body : {0}]
    \cup
    [method : {"POST"}, path : {"callback"}, auth : {"good"}, named : {FALSE},
     length : [name : {"Content-Length", "content-length"}, value : {1}], body : {1}]

\* One that is larger than the receive buffer may become.
Large ==
    [method : {"POST"}, path : {"callback"}, auth : {"good"}, named : {TRUE},
     length : [name : {"Content-Length"}, value : {9}], body : {9}]

MCRequests == SomeRequests \cup Spellings \cup Large \cup Pipelined

\* Two requests, one of them a message spelled as usual.
Pairs ==
    {p \in Pipelined \X Pipelined :
        "Content-Length" \in {p[1].length.name, p[2].length.name}}

MCStreams == {Encode(r) : r \in MCRequests} \cup {Encode(p[1]) \o Encode(p[2]) : p \in Pairs}

\* A callback message with a body of two units.
OneMessage ==
    [method : {"POST"}, path : {"callback"}, auth : {"good"}, named : {FALSE},
     length : [name : {"Content-Length"}, value : {2}], body : {2}]

OneStream == {Encode(r) : r \in OneMessage}

=============================================================================
