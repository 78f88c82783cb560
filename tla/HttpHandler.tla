----------------------------- MODULE HttpHandler ------------------------------
(****************************************************************************)
(* One connection of the bot from its bytes to its answer: the receive      *)
(* buffer (src/Utility/MemoryBuffer.cc), the framing of requests in         *)
(* OnTcpRead (src/Core/EngineImpl.cc), and the HttpHandlerJob of each       *)
(* request (src/Job/HttpHandlerJob.cc) with the application's callback job. *)
(*                                                                          *)
(* The client sends all of its requests, in pieces that the network chooses,*)
(* and keeps its side open; TcpServer has the clients that leave.  Buffers  *)
(* hold the tokens of HttpPackage.  The queues between the threads are kept *)
(* for each handler, since handlers of one connection run on any worker.    *)
(****************************************************************************)
EXTENDS HttpPackage

CONSTANTS Requests,             \* the requests that clients may want to send
          Streams,              \* the sequences of tokens that they do send
          InitialSize,          \* MemoryBuffer::kInitialSize
          SuggestedSize,        \* what libuv asks AllocateBuffer for
          MaxRecvBuffLength     \* Config.Network.MaxRecvBuffLength

Tokens == {CRLF, Field, Data} \cup {Line(r) : r \in Requests}
                              \cup {LengthField(r.length) : r \in Requests}

ASSUME HttpHandlerAssumption ==
    /\ Requests \subseteq Request
    /\ Streams \subseteq Seq(Tokens)
    /\ InitialSize \in Nat \ {0}
    /\ SuggestedSize \in Nat \ {0}
    /\ MaxRecvBuffLength \in Nat

VARIABLES
    stream,     \* history: all that the client sends
    creator,    \* whether the application has set CbHandlerCreator
    unsent,     \* tokens that have not arrived yet
    inbox,      \* the content of the connection's current TcpMemoryBuffer
    capacity,   \* and its Capacity
    taken,      \* history: the tokens that were cut off as complete requests
    conn,       \* the connection's handle: open, closing, closed
    jobs,       \* the HttpHandlerJob of each dispatched buffer
    wire,       \* responses that uv_write has accepted
    aborted     \* what ended the process, "no" while it runs

vars == <<stream, creator, unsent, inbox, capacity, taken, conn, jobs, wire, aborted>>

Status == {"200", "400", "500", "501"}

Phases == {"kStart", "kParseTcpPackage", "kDispatchRequest", "kVerifyCallbackSetting",
           "kInvokeCallbackJobStart", "kInvokeCallbackJobFinish", "kFinish", "kDone"}

\* package is the ReceiveBuffer and valid what the codec said of it; callback is
\* the child's state; answers is a history of the responses given to SendData,
\* sent counts those that the main thread has processed.
NewJob(buf, valid) ==
    [phase |-> "kStart", package |-> buf, valid |-> valid, callback |-> "none",
     answers |-> <<>>, sent |-> 0]

HandlerJob ==
    [phase : Phases, package : Seq(Tokens), valid : Nat,
     callback : {"none", "running", "replied", "silent"},
     answers : Seq(Status), sent : Nat]

BuffersOK ==
    /\ stream \in Seq(Tokens)
    /\ unsent \in Seq(Tokens)
    /\ inbox \in Seq(Tokens)
    /\ taken \in Seq(Tokens)

Init ==
    /\ stream \in Streams
    /\ creator \in BOOLEAN
    /\ unsent = stream
    /\ inbox = <<>>
    /\ capacity = InitialSize
    /\ taken = <<>>
    /\ conn = "open"
    /\ jobs = <<>>
    /\ wire = <<>>
    /\ aborted = "no"

client == <<stream, creator>>
buffers == <<unsent, inbox, capacity, taken>>

-----------------------------------------------------------------------------
(* The receive buffer.                                                      *)

PowerOfTwo[k \in Nat] == IF k = 0 THEN 1 ELSE 2 * PowerOfTwo[k - 1]

\* Capacity doubled until it holds what is needed.
Doubled(cap, needed) ==
    Min({c \in {cap * PowerOfTwo[k] : k \in 0 .. needed} : c >= needed})

StaleCapacity(cap, length, suggested) == cap                       \* a mutant

\* MemoryBuffer::Allocate: the Capacity after the call.
Allocate(cap, length, suggested) ==
    IF cap - length >= suggested THEN cap ELSE Doubled(cap, length + suggested)

-----------------------------------------------------------------------------
(* Main thread.  libuv calls AllocateBuffer, reads, and calls OnTcpRead.    *)

Grown == Allocate(capacity, Len(inbox), SuggestedSize)
Received(n) == inbox \o SubSeq(unsent, 1, n)

\* A read that completes n tokens; of nothing if the socket turns out to have no
\* data.
Read(n) ==
    /\ conn = "open"
    /\ n \in 0 .. SuggestedSize
    /\ n <= Len(unsent)
    /\ unsent' = SubSeq(unsent, n + 1, Len(unsent))

\* The buffer is larger than the configured value: uv_close, before Length
\* counts what was read.
ReadTooMuch(n) ==
    /\ Read(n)
    /\ Grown > MaxRecvBuffLength
    /\ capacity' = Grown
    /\ conn' = "closing"
    /\ UNCHANGED <<client, inbox, taken, jobs, wire, aborted>>

\* No codec finds a complete request yet.
ReadPart(n) ==
    /\ Read(n)
    /\ Grown <= MaxRecvBuffLength
    /\ IsComplete(Received(n)) <= 0
    /\ inbox' = Received(n)
    /\ capacity' = Grown
    /\ UNCHANGED <<client, taken, conn, jobs, wire, aborted>>

NothingLeft(buf, valid) == <<>>                                    \* a mutant

\* The bytes behind the complete request, which the new buffer starts with.
Rest(buf, valid) == SubSeq(buf, valid + 1, Len(buf))

\* The buffer goes to a worker as it is, with the bytes that follow the request;
\* the connection gets a new one with a copy of those bytes.
ReadWhole(n) ==
    /\ Read(n)
    /\ Grown <= MaxRecvBuffLength
    /\ LET buf == Received(n)
           valid == IsComplete(buf)
       IN  /\ valid \in 1 .. Len(buf)
           /\ jobs' = Append(jobs, NewJob(buf, valid))
           /\ inbox' = Rest(buf, valid)
           /\ capacity' = Doubled(InitialSize, Len(inbox'))
           /\ taken' = taken \o SubSeq(buf, 1, valid)
    /\ UNCHANGED <<client, conn, wire, aborted>>

\* The header has arrived and its body has not: GetLength() - ValidLength wraps
\* around, and Append doubles the capacity until realloc fails.
ReadHeaderOnly(n) ==
    /\ Read(n)
    /\ Grown <= MaxRecvBuffLength
    /\ IsComplete(Received(n)) > Len(Received(n))
    /\ inbox' = Received(n)
    /\ capacity' = Grown
    /\ aborted' = "append"
    /\ UNCHANGED <<client, taken, conn, jobs, wire>>

\* Nothing has arrived, and the codec runs all the same: strncmp compares memory
\* that nobody has written.  If a method's name is left in it, StrNStr's unsigned
\* difference goes on from there, until it faults or finds a header that is
\* longer than the buffer.  (If none is, ReadPart.)
ReadUninitialized(n) ==
    /\ Read(n)
    /\ Grown <= MaxRecvBuffLength
    /\ Received(n) = <<>>
    /\ inbox' = Received(n)
    /\ capacity' = Grown
    /\ aborted' = "uninitialized"
    /\ UNCHANGED <<client, taken, conn, jobs, wire>>

\* TcpWorkerToMain::Process: SendTcpToClient with Close set.
SendTcpToClient(h) ==
    /\ jobs[h].sent < Len(jobs[h].answers)
    /\ jobs' = [jobs EXCEPT ![h].sent = @ + 1]
    /\ \/ conn = "open" /\ conn' = "closing" /\ UNCHANGED aborted
          /\ wire' = Append(wire, [from |-> h, status |-> jobs[h].answers[jobs[h].sent + 1]])
       \/ conn = "closing" /\ aborted' = "close" /\ UNCHANGED <<conn, wire>>
       \/ conn = "closed" /\ UNCHANGED <<conn, wire, aborted>>
    /\ UNCHANGED <<client, buffers>>

\* OnTcpClose: the current buffer is deleted with the handle.
OnTcpClose ==
    /\ conn = "closing"
    /\ conn' = "closed"
    /\ inbox' = <<>>
    /\ UNCHANGED <<client, unsent, capacity, taken, jobs, wire, aborted>>

-----------------------------------------------------------------------------
(* HttpHandlerJob, one action per state of OnStep.                          *)

worker == <<client, buffers, conn, wire>>

In(h, phase) == jobs[h].phase = phase

Move(h, phase) ==
    /\ jobs' = [jobs EXCEPT ![h].phase = phase]
    /\ UNCHANGED <<worker, aborted>>

AnswerAndGoOn(h, status) ==                                        \* a mutant
    /\ jobs' = [jobs EXCEPT ![h].answers = Append(@, status), ![h].phase = "kDispatchRequest"]
    /\ UNCHANGED <<worker, aborted>>

\* Response200OK and its like, and State = kFinish.
Respond(h, status) ==
    /\ jobs' = [jobs EXCEPT ![h].answers = Append(@, status), ![h].phase = "kFinish"]
    /\ UNCHANGED <<worker, aborted>>

\* DispatchTcp has created the job, or DriveOne calls it again after kContinue.
Start(h) == In(h, "kStart") /\ Move(h, "kParseTcpPackage")

\* Past the end of the buffer StrNStr finds what lies there, which makes the
\* body's length negative, or faults.
DoParseTcpPackage(h) ==
    /\ In(h, "kParseTcpPackage")
    /\ \/ /\ Overruns(jobs[h].package)
          /\ aborted' = "overrun"
          /\ UNCHANGED <<worker, jobs>>
       \/ /\ Overruns(jobs[h].package) \/ ~Parse(jobs[h].package).ok
          /\ Respond(h, "400")
       \/ /\ ~Overruns(jobs[h].package) /\ Parse(jobs[h].package).ok
          /\ Move(h, "kDispatchRequest")

RequestLine(h) == jobs[h].package[1]

DoDispatchRequest(h) ==
    /\ In(h, "kDispatchRequest")
    /\ \/ /\ RequestLine(h).path = "callback" /\ RequestLine(h).method = "POST"
          /\ Move(h, "kInvokeCallbackJobStart")
       \/ /\ RequestLine(h).path = "callback" /\ RequestLine(h).method = "GET"
          /\ Move(h, "kVerifyCallbackSetting")
       \/ /\ RequestLine(h).path # "callback" \/ RequestLine(h).method \notin {"GET", "POST"}
          /\ Respond(h, "400")

Unchecked(h) == TRUE                                               \* a mutant

\* VerifyURL and DecryptMsg return 0 for the right signature.
Signed(h) == RequestLine(h).auth # "forged"

DoVerifyCallbackSetting(h) ==
    /\ In(h, "kVerifyCallbackSetting")
    /\ Respond(h, IF Signed(h) THEN "200" ELSE "400")

\* There is a creator, the Body decrypts, and the message in it is XML.
Readable(h) ==
    Signed(h) /\ Parse(jobs[h].package).body > 0 /\ RequestLine(h).auth # "no XML"

DoInvokeCallbackJobStart(h) ==
    /\ In(h, "kInvokeCallbackJobStart")
    /\ \/ ~creator /\ Respond(h, "501")
       \/ creator /\ ~Readable(h) /\ Respond(h, "400")
       \/ /\ creator /\ Readable(h)
          /\ jobs' = [jobs EXCEPT ![h].phase = "kInvokeCallbackJobFinish",
                                  ![h].callback = "running"]
          /\ UNCHANGED <<worker, aborted>>

\* The application's MessageCallbackJob returns kDone, with or without having
\* called SetResponse.
CallbackDone(h) ==
    /\ jobs[h].callback = "running"
    /\ \E outcome \in {"replied", "silent"} :
          jobs' = [jobs EXCEPT ![h].callback = outcome]
    /\ UNCHANGED <<worker, aborted>>

\* The handler has no other child and no timer, so its trigger is the callback
\* job.  EncryptMsg may fail.
DoInvokeCallbackJobFinish(h) ==
    /\ In(h, "kInvokeCallbackJobFinish")
    /\ \/ jobs[h].callback = "silent" /\ Respond(h, "200")
       \/ jobs[h].callback = "replied" /\ \E status \in {"200", "500"} : Respond(h, status)

\* kDone: the job is deleted, and the receive buffer with it.
Finish(h) == In(h, "kFinish") /\ Move(h, "kDone")

OnStep(h) ==
    \/ Start(h)
    \/ DoParseTcpPackage(h)
    \/ DoDispatchRequest(h)
    \/ DoVerifyCallbackSetting(h)
    \/ DoInvokeCallbackJobStart(h)
    \/ DoInvokeCallbackJobFinish(h)
    \/ Finish(h)

Reads(n) ==
    \/ ReadTooMuch(n)
    \/ ReadPart(n)
    \/ ReadWhole(n)
    \/ ReadHeaderOnly(n)
    \/ ReadUninitialized(n)

\* What the two threads do; the rest is the application's.
Framework ==
    \/ \E n \in 0 .. SuggestedSize : Reads(n)
    \/ OnTcpClose
    \/ \E h \in DOMAIN jobs : SendTcpToClient(h) \/ OnStep(h)

Steps == Framework \/ \E h \in DOMAIN jobs : CallbackDone(h)

Next == aborted = "no" /\ Steps

Spec == Init /\ [][Next]_vars

\* The network delivers what the client sends, the loops run, a callback job
\* ends.  No handler runs for ever, so the threads need no fairness by handler.
FairSpec ==
    /\ Spec
    /\ WF_vars(aborted = "no" /\ \E n \in 1 .. SuggestedSize : Reads(n))
    /\ WF_vars(aborted = "no" /\ OnTcpClose)
    /\ WF_vars(aborted = "no" /\ \E h \in DOMAIN jobs : SendTcpToClient(h))
    /\ WF_vars(aborted = "no" /\ \E h \in DOMAIN jobs : OnStep(h))
    /\ WF_vars(aborted = "no" /\ \E h \in DOMAIN jobs : CallbackDone(h))

-----------------------------------------------------------------------------
(* Properties.                                                              *)

\* Every handler calls SendData exactly once before it is deleted, whichever of
\* its states gives the answer, and the main thread processes no answer twice.
AnsweredOnce ==
    \A h \in DOMAIN jobs :
       /\ Len(jobs[h].answers) = IF jobs[h].phase \in {"kFinish", "kDone"} THEN 1 ELSE 0
       /\ jobs[h].sent <= Len(jobs[h].answers)

\* Framing neither loses nor repeats a byte: what was cut off as complete
\* requests, what the current buffer holds and what is still to come make up
\* what the client sends.
NoByteLost ==
    conn = "open" => stream = taken \o inbox \o unsent

\* The limit on the receive buffer is kept although it is compared with the
\* capacity (comment of MemoryBuffer::Allocate): a buffer never holds more than
\* it has room for, nor more than MaxRecvBuffLength.
WithinLimit ==
    /\ conn = "open" => Len(inbox) <= capacity /\ Len(inbox) <= MaxRecvBuffLength
    /\ \A h \in DOMAIN jobs : Len(jobs[h].package) <= MaxRecvBuffLength

\* A request that states the length of its body, with a name of it that is known,
\* and has a header field.
WellFormed(r) ==
    /\ r.method \in HttpMethods
    /\ r.named \/ r.length # NoLength
    /\ r.length = NoLength \/ r.length.name \in KnownNames
    /\ r.length.value = r.body

\* The answers that such a request calls for.
Expected(r) ==
    CASE r.path # "callback" \/ r.method \notin {"GET", "POST"} -> {"400"}
      [] r.path = "callback" /\ r.method = "GET" ->
            IF r.auth # "forged" THEN {"200"} ELSE {"400"}
      [] r.path = "callback" /\ r.method = "POST" ->
            IF ~creator THEN {"501"}
            ELSE IF r.auth = "good" /\ r.body > 0 THEN {"200", "500"} ELSE {"400"}

\* However a well-formed request is cut into pieces, the only answer it can get
\* is the one that its whole text calls for.
RightAnswer ==
    \A r \in Requests :
       WellFormed(r) /\ stream = Encode(r)
          => \A i \in DOMAIN wire : wire[i].status \in Expected(r)

HeaderSize(buf) == HeaderEnd(buf, 1) + 1

\* The header has a field, and what looks like a Content-Length is in it, under a
\* name that is known.
PlainHeader(buf) ==
    /\ LineEnd(buf, 1) < HeaderEnd(buf, 1)
    /\ \A i \in DOMAIN buf : buf[i].kind = "length" =>
          i \in LineEnd(buf, 1) + 1 .. HeaderEnd(buf, 1) /\ buf[i].name \in KnownNames

\* The codec and the parser look for the Content-Length with different code, in
\* different parts of the buffer and under different names.  Where only the names
\* are plain, they agree, for any other bytes that were received: a buffer which
\* ends where the codec says is accepted, with all of it behind the header for
\* Body.
CodecAgreesWithParser ==
    \A h \in DOMAIN jobs :
       LET buf == jobs[h].package
       IN  jobs[h].valid = Len(buf) /\ buf[1].method \in HttpMethods /\ PlainHeader(buf)
              => Parse(buf) = Accept(Len(buf) - HeaderSize(buf))

\* The limit leaves room for a read of SuggestedSize behind all but the last
\* token of the request, with the capacity doubled up to there.
Fits(bytes) ==
    Doubled(InitialSize, Len(bytes) - 1 + SuggestedSize) <= MaxRecvBuffLength

\* A client that sends one well-formed request, not too large a one, gets an
\* answer unless the network cuts it within the body (WaitsForMore), or delivers
\* nothing at first (ReadUninitialized).
Served ==
    (\E r \in Requests : WellFormed(r) /\ stream = Encode(r) /\ Fits(stream))
        ~> wire # <<>> \/ aborted \in {"append", "uninitialized"}

\* A codec's result above the buffer's length makes the reader wait for more
\* (tests/HttpCodec_test.cc).
WaitsForMore == aborted # "append"
=============================================================================
