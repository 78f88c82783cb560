------------------------------ MODULE TcpServer ------------------------------
(****************************************************************************)
(* The main thread's TCP server (src/Core/EngineImpl.cc) and the round trip *)
(* of requests through the worker threads: accept, read, complete request,  *)
(* dispatch to the next worker, HttpHandlerJob, response, uv_write and      *)
(* uv_close, close callback.                                                *)
(*                                                                          *)
(* The two ItcQueues of a worker are used through what EventChannel         *)
(* promises: FIFO, nothing lost.  A worker runs many handler jobs at once   *)
(* and they answer in any order; every answer asks for kDisconnect.         *)
(*                                                                          *)
(* uv_close makes a handle "closing"; its OnTcpClose runs at the end of the *)
(* loop iteration, after the other callbacks of that iteration, so any of   *)
(* them may run in between.  A second uv_close of the handle in that time   *)
(* is against libuv's protocol and aborts the process.                      *)
(****************************************************************************)
EXTENDS Integers, Sequences, FiniteSets

CONSTANTS MaxConns,     \* connections that are ever accepted
          NumWorkers,   \* Config.Framework.WorkerThread
          MaxRequests,  \* requests that a client sends on its connection
          MaxCrons,     \* cron entries that ever fire
          Polite        \* clients that send one request and wait for the response;
                        \* the others pipeline, close, reset or send too much

ASSUME ServerAssumption ==
    /\ MaxConns \in Nat
    /\ NumWorkers \in Nat \ {0}
    /\ MaxRequests \in Nat
    /\ MaxCrons \in Nat
    /\ Polite \subseteq 1 .. MaxConns

ConnIds == 1 .. MaxConns
Workers == 0 .. (NumWorkers - 1)
Requests == [conn : ConnIds, no : 1 .. MaxRequests]
JobCreateAndRun == [conn |-> 0, no |-> 0]       \* the event of a cron entry

VARIABLES
    connId,     \* TcpConnectionId, the last one given out
    table,      \* domain of TcpIdToConn
    handle,     \* the uv_tcp_t of each connection
    unread,     \* complete requests in the connection's current TcpMemoryBuffer
    received,   \* requests that arrived on the connection so far
    taken,      \* requests of the connection dispatched so far
    current,    \* RoundRobinThreadDispatcher::Current
    crons,      \* cron entries that fired so far
    toWorker,   \* MainToWorkerQueue of each worker
    running,    \* the requests whose HttpHandlerJob runs on the worker
    toMain,     \* WorkerToMainQueue of each worker: answered requests
    written,    \* requests whose response uv_write has accepted
    dropped,    \* responses deleted by SendTcpToClient, connection not in table
    aborted     \* connections whose closing handle was given to uv_close again

vars == <<connId, table, handle, unread, received, taken, current, crons,
          toWorker, running, toMain, written, dropped, aborted>>

TypeOK ==
    /\ connId \in 0 .. MaxConns
    /\ table \subseteq ConnIds
    /\ handle \in [ConnIds -> {"none", "open", "closing", "freed"}]
    /\ unread \in [ConnIds -> 0 .. MaxRequests]
    /\ received \in [ConnIds -> 0 .. MaxRequests]
    /\ taken \in [ConnIds -> 0 .. MaxRequests]
    /\ current \in Workers
    /\ crons \in 0 .. MaxCrons
    /\ toWorker \in [Workers -> Seq(Requests \cup {JobCreateAndRun})]
    /\ running \in [Workers -> SUBSET Requests]
    /\ toMain \in [Workers -> Seq(Requests)]
    /\ written \subseteq Requests
    /\ dropped \subseteq Requests
    /\ aborted \subseteq ConnIds

Init ==
    /\ connId = 0
    /\ table = {}
    /\ handle = [c \in ConnIds |-> "none"]
    /\ unread = [c \in ConnIds |-> 0]
    /\ received = [c \in ConnIds |-> 0]
    /\ taken = [c \in ConnIds |-> 0]
    /\ current = 0
    /\ crons = 0
    /\ toWorker = [w \in Workers |-> <<>>]
    /\ running = [w \in Workers |-> {}]
    /\ toMain = [w \in Workers |-> <<>>]
    /\ written = {}
    /\ dropped = {}
    /\ aborted = {}

traffic == <<unread, received, taken, current, crons, toWorker>>
worker == <<running, toMain>>
outcome == <<written, dropped, aborted>>

-----------------------------------------------------------------------------
(* Main thread.                                                             *)

\* OnNewConnection.  uv_accept may fail, and the new handle is closed then.
OnNewConnection(accepted) ==
    /\ connId < MaxConns
    /\ connId' = connId + 1
    /\ table' = table \cup {connId'}
    /\ handle' = [handle EXCEPT ![connId'] = IF accepted THEN "open" ELSE "closing"]
    /\ UNCHANGED <<traffic, worker, outcome>>

\* RoundRobinThreadDispatcher::NextThreadIndex: Current after the call.
NextThreadIndex == IF current + 1 = NumWorkers THEN 0 ELSE current + 1

\* What the client may have sent in all.
Limit(c) == IF c \in Polite THEN 1 ELSE MaxRequests

\* OnTcpRead with data: more requests become complete, or none does (part of
\* one arrived).  If the buffer holds a complete request, the codec takes one,
\* the rest moves to a new buffer, and the old buffer goes to the next worker.
OnTcpRead(c, more) ==
    /\ handle[c] = "open"
    /\ received[c] + more <= Limit(c)
    /\ received' = [received EXCEPT ![c] = @ + more]
    /\ IF unread[c] + more = 0
       THEN UNCHANGED <<unread, taken, current, toWorker>>
       ELSE /\ unread' = [unread EXCEPT ![c] = @ + more - 1]
            /\ taken' = [taken EXCEPT ![c] = @ + 1]
            /\ toWorker' = [toWorker EXCEPT ![current] = Append(@, [conn |-> c, no |-> taken[c] + 1])]
            /\ current' = NextThreadIndex
    /\ UNCHANGED <<connId, table, handle, crons, worker, outcome>>

\* OnCronTimerTick: each entry that fires is sent to the next worker as well
\* (TimeWheelTickImpl).
TimeWheelTick ==
    /\ crons < MaxCrons
    /\ crons' = crons + 1
    /\ toWorker' = [toWorker EXCEPT ![current] = Append(@, JobCreateAndRun)]
    /\ current' = NextThreadIndex
    /\ UNCHANGED <<connId, table, handle, unread, received, taken, worker, outcome>>

StayOpen(c) == handle                                              \* a mutant

\* uv_close: the handle is closing until its close callback.
UvClose(c) == [handle EXCEPT ![c] = "closing"]

\* OnTcpRead with EOF or an error, or with a buffer above MaxRecvBuffLength.
OnTcpReadClose(c) ==
    /\ c \notin Polite
    /\ handle[c] = "open"
    /\ handle' = UvClose(c)
    /\ UNCHANGED <<connId, table, traffic, worker, outcome>>

KeepEntry(c) == table                                              \* a mutant

WithoutEntry(c) == table \ {c}

\* OnTcpClose: the connection leaves the table, its buffer and handle go.
OnTcpClose(c) ==
    /\ handle[c] = "closing"
    /\ handle' = [handle EXCEPT ![c] = "freed"]
    /\ table' = WithoutEntry(c)
    /\ unread' = [unread EXCEPT ![c] = 0]
    /\ UNCHANGED <<connId, received, taken, current, crons, toWorker, worker, outcome>>

\* TcpWorkerToMain::Process: SendTcpToClient with Close set.
SendTcpToClient(w) ==
    /\ toMain[w] # <<>>
    /\ toMain' = [toMain EXCEPT ![w] = Tail(@)]
    /\ LET r == Head(toMain[w])
           c == r.conn
       IN  IF c \notin table
           THEN /\ dropped' = dropped \cup {r}
                /\ UNCHANGED <<handle, written, aborted>>
           ELSE /\ IF handle[c] = "open"
                   THEN written' = written \cup {r} /\ UNCHANGED aborted
                   ELSE aborted' = {c} /\ UNCHANGED written
                /\ handle' = UvClose(c)
                /\ UNCHANGED dropped
    /\ UNCHANGED <<connId, table, traffic, running>>

-----------------------------------------------------------------------------
(* Worker threads.                                                          *)

\* TcpMainToWorker::Process: DispatchTcp creates the handler job, which takes
\* over the receive buffer.
DispatchTcp(w) ==
    /\ toWorker[w] # <<>>
    /\ Head(toWorker[w]) # JobCreateAndRun
    /\ running' = [running EXCEPT ![w] = @ \cup {Head(toWorker[w])}]
    /\ toWorker' = [toWorker EXCEPT ![w] = Tail(@)]
    /\ UNCHANGED <<connId, table, handle, unread, received, taken, current, crons, toMain, outcome>>

\* JobCreateAndRun::Process: the cron job runs; it answers no connection.
CreateAndRun(w) ==
    /\ toWorker[w] # <<>>
    /\ Head(toWorker[w]) = JobCreateAndRun
    /\ toWorker' = [toWorker EXCEPT ![w] = Tail(@)]
    /\ UNCHANGED <<connId, table, handle, unread, received, taken, current, crons, worker, outcome>>

StillRunning(w, r) == running[w]                                   \* a mutant

\* kDone: the handler job is deleted.
HandlersLeft(w, r) == running[w] \ {r}

NotEnqueued(w, r) == toMain[w]                                     \* a mutant

Answers(w, r) == Append(toMain[w], r)

\* The handler job answers (SendData) and returns kDone.
SendData(w, r) ==
    /\ r \in running[w]
    /\ running' = [running EXCEPT ![w] = HandlersLeft(w, r)]
    /\ toMain' = [toMain EXCEPT ![w] = Answers(w, r)]
    /\ UNCHANGED <<connId, table, handle, traffic, outcome>>

Steps ==
    \/ \E accepted \in BOOLEAN : OnNewConnection(accepted)
    \/ \E c \in ConnIds : \/ \E more \in 0 .. MaxRequests : OnTcpRead(c, more)
                          \/ OnTcpReadClose(c)
                          \/ OnTcpClose(c)
    \/ TimeWheelTick
    \/ \E w \in Workers : \/ SendTcpToClient(w)
                          \/ DispatchTcp(w)
                          \/ CreateAndRun(w)
                          \/ \E r \in running[w] : SendData(w, r)

Next == aborted = {} /\ Steps

Spec == Init /\ [][Next]_vars

\* The loops run their callbacks; a handler job answers (what it waits for, a
\* callback job of the application, ends).  Clients promise nothing.
FairSpec ==
    /\ Spec
    /\ \A c \in ConnIds : WF_vars(OnTcpClose(c))
    /\ \A w \in Workers :
          /\ WF_vars(SendTcpToClient(w))
          /\ WF_vars(DispatchTcp(w) \/ CreateAndRun(w))
          /\ \A r \in Requests : WF_vars(SendData(w, r))

-----------------------------------------------------------------------------
(* Properties.                                                              *)

SeqSet(s) == {s[i] : i \in 1 .. Len(s)}

\* The owners a dispatched request and its buffers can have.
Owners(r) ==
    {<<"toWorker", w>> : w \in {w \in Workers : r \in SeqSet(toWorker[w])}} \cup
    {<<"running", w>> : w \in {w \in Workers : r \in running[w]}} \cup
    {<<"toMain", w>> : w \in {w \in Workers : r \in SeqSet(toMain[w])}} \cup
    (IF r \in written THEN {<<"written">>} ELSE {}) \cup
    (IF r \in dropped THEN {<<"dropped">>} ELSE {})

Dispatched == {r \in Requests : r.no <= taken[r.conn]}

\* Single ownership of requests and responses (comment of ITC.h): a dispatched
\* request is with exactly one owner until it is answered or dropped.
OneOwner ==
    aborted = {} => \A r \in Requests : Cardinality(Owners(r)) = IF r \in Dispatched THEN 1 ELSE 0

\* The table holds the connections whose handle exists, so that SendTcpToClient
\* finds a live uv_tcp_t or nothing, and requests go to workers that exist.
TableIsHandles ==
    /\ TypeOK
    /\ table = {c \in ConnIds : handle[c] \in {"open", "closing"}}

\* libuv's close protocol: no uv_write and uv_close on a handle that is already
\* closing (the callback that frees the write's buffer would never come).
CloseProtocol == aborted = {}

\* A client that sends one request and waits never gets its handle closed
\* twice, whatever the other clients do.
PoliteCloseOnce == aborted \cap Polite = {}

\* A connection carries at most one response: the first answer closes it, and
\* the answers to pipelined requests do not follow it.
OneResponse ==
    \A r, s \in written : r.conn = s.conn => r = s

\* Every dispatched request is answered or, unless its client waits, finds its
\* connection gone.
Answered ==
    \A r \in Requests :
       r \in Dispatched ~> \/ r \in written
                           \/ r \in dropped /\ r.conn \notin Polite
                           \/ aborted # {}
=============================================================================
