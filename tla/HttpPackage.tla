----------------------------- MODULE HttpPackage -----------------------------
(****************************************************************************)
(* Requests on the wire (src/Utility/HttpPackage.cc) and the codec that     *)
(* finds their end (src/Codec/HttpCodec.cc), over sequences of tokens.      *)
(*                                                                          *)
(* A token is a piece of the request that the code looks at as a whole: the *)
(* text of the request line, of a header line or of the Content-Length      *)
(* line, a line end, and a unit of the body.  Lengths are counted in tokens.*)
(* A text has four bytes or more; a line end has two.                       *)
(****************************************************************************)
EXTENDS Integers, Sequences, FiniteSetsExt

NotANumber == -1        \* a Content-Length that sscanf does not read

NoLength == [name |-> "none", value |-> 0]

\* The spellings that both the codec and the parser take for Content-Length.
KnownNames == {"Content-Length", "content-length"}

\* With a blank before the colon, and as the end of another field's name.
LengthNames ==
    KnownNames \cup {"Content-Length ", "content-length ", "X-Content-Length", "x-content-length"}

\* r.auth stands for the signature in the query string and for the message that
\* it covers; r.named says that there is a header field besides Content-Length,
\* and r.body counts the units of the body, whatever r.length says.
Request ==
    [method : STRING, path : STRING, auth : {"good", "forged", "no XML"},
     named : BOOLEAN,
     length : {NoLength} \cup [name : LengthNames, value : Nat \cup {NotANumber}],
     body : Nat]

CRLF == [kind |-> "crlf"]
Field == [kind |-> "field"]
Data == [kind |-> "data"]
LengthField(length) == [kind |-> "length", name |-> length.name, value |-> length.value]

\* The request line.
Line(r) == [kind |-> "line", method |-> r.method, path |-> r.path, auth |-> r.auth]

\* A request as a client sends it.
Encode(r) ==
    <<Line(r), CRLF>>
    \o (IF r.named THEN <<Field, CRLF>> ELSE <<>>)
    \o (IF r.length = NoLength THEN <<>> ELSE <<LengthField(r.length), CRLF>>)
    \o <<CRLF>>
    \o [i \in 1 .. r.body |-> Data]

-----------------------------------------------------------------------------
(* Searching (StrNStr): the first position of a set, 0 for nullptr.         *)

First(positions) == IF positions = {} THEN 0 ELSE Min(positions)

LineEnd(buf, from) == First({i \in from .. Len(buf) : buf[i] = CRLF})

\* The position of the first of two line ends in a row.
HeaderEnd(buf, from) ==
    First({i \in from .. Len(buf) - 1 : buf[i] = CRLF /\ buf[i + 1] = CRLF})

LengthNamed(buf, from, to, names) ==
    First({i \in from .. to : buf[i].kind = "length" /\ buf[i].name \in names})

-----------------------------------------------------------------------------
(* The codec.                                                               *)

ExactCaseOnly(buf) ==                                              \* a mutant
    LengthNamed(buf, 1, Len(buf), {"Content-Length", "X-Content-Length"})

\* The bytes "Content-Length:" anywhere in the buffer, within the name of another
\* field too, in the body or in requests that follow; "content-length:" only
\* where there are none.
SearchLength(buf) ==
    LET exact == LengthNamed(buf, 1, Len(buf), {"Content-Length", "X-Content-Length"})
    IN  IF exact # 0 THEN exact
        ELSE LengthNamed(buf, 1, Len(buf), {"content-length", "x-content-length"})

\* HttpProtocolCheck: 0 for not complete, or the length of header and body, of
\* which the body need not be there.
HttpProtocolCheck(buf) ==
    LET end == HeaderEnd(buf, 1)
        at == SearchLength(buf)
        header == end + 1
    IN  CASE end = 0 -> 0
          [] end # 0 /\ at = 0 -> IF header = Len(buf) THEN header ELSE 0
          [] end # 0 /\ at # 0 ->
                IF LineEnd(buf, at) = 0 \/ buf[at].value = NotANumber
                THEN 0 ELSE header + buf[at].value

HttpMethods == {"GET", "POST", "PUT"}

\* strncmp with the names of the methods: the line of a request whose method
\* merely begins like one of them passes.
BeginsLikeMethod(buf) ==
    buf # <<>> /\ buf[1].kind = "line" /\ buf[1].method \in HttpMethods \cup {"GETX"}

\* HttpRequestCodec::IsComplete.
IsComplete(buf) == IF BeginsLikeMethod(buf) THEN HttpProtocolCheck(buf) ELSE 0

-----------------------------------------------------------------------------
(* The parser.                                                              *)

\* A request without a header field, and nothing behind it: two bytes are left
\* after the request line, StrNStr looks for four, and its unsigned difference
\* sends it past the end of the buffer.
Overruns(buf) == Len(buf) - LineEnd(buf, 1) < 2

\* The line of the header whose key, blanks around it trimmed, is Content-Length,
\* or content-length where there is none; the first of several lines.
LengthHeader(buf, from, to) ==
    LET exact == LengthNamed(buf, from, to, {"Content-Length", "Content-Length "})
    IN  IF exact # 0 THEN exact
        ELSE LengthNamed(buf, from, to, {"content-length", "content-length "})

Accept(body) == [ok |-> TRUE, body |-> body]
Reject == [ok |-> FALSE, body |-> 0]

CountLineEnd(actual, declared) ==                                  \* a mutant
    IF actual + 1 = declared THEN Accept(actual) ELSE Reject

\* The body must be all that follows the header in the buffer.
CheckBody(actual, declared) == IF actual = declared THEN Accept(actual) ELSE Reject

\* HttpRequest::Parse of a buffer that the codec took for complete: whether it
\* succeeds, and the size of Body.  Without a Content-Length it succeeds with an
\* empty Body, whatever follows the header.
Parse(buf) ==
    LET line == LineEnd(buf, 1)
        end == HeaderEnd(buf, line + 1)
        at == LengthHeader(buf, line + 1, end)
    IN  CASE buf[1].method \notin HttpMethods \/ end = 0 -> Reject
          [] buf[1].method \in HttpMethods /\ end # 0 ->
                IF at = 0 \/ buf[at].value = NotANumber THEN Accept(0)
                ELSE CheckBody(Len(buf) - (end + 1), buf[at].value)

=============================================================================
