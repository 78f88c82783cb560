--------------------------- MODULE TcpServer_proofs ---------------------------
(****************************************************************************)
(* Proofs about TcpServer, for every number of connections, workers,        *)
(* pipelined requests and cron events, and every set of polite clients.     *)
(****************************************************************************)
EXTENDS TcpServer, SequenceTheorems, FiniteSetTheorems, TLAPS

USE ServerAssumption

-----------------------------------------------------------------------------
(* The inductive invariant.                                                 *)

\* A request is in a queue once; the events of cron entries are all alike.
NoRepeat(s) ==
    \A i, j \in 1 .. Len(s) : s[i] = s[j] /\ s[i] # JobCreateAndRun => i = j

NoRepeats == \A w \in Workers : NoRepeat(toWorker[w]) /\ NoRepeat(toMain[w])

\* OneOwner without counting: it is the same owner, not only as many.
OwnedOnce ==
    aborted = {} =>
       \A r \in Requests :
          IF r \in Dispatched THEN \E o \in Owners(r) : Owners(r) = {o} ELSE Owners(r) = {}

\* Ids are given out in order, and nothing has come from those to be given out.
NewIsQuiet ==
    \A c \in ConnIds :
       /\ c > connId => handle[c] = "none"
       /\ handle[c] = "none" => received[c] = 0

\* The codec takes no more requests than have arrived, and the client sends no
\* more than it may.
Counted ==
    \A c \in ConnIds :
       taken[c] + unread[c] <= received[c] /\ received[c] <= Limit(c)

\* An answer closes its connection, for good.
AnswerCloses ==
    \A r \in written : handle[r.conn] \in {"closing", "freed"}

\* Only its answer closes the connection of a polite client.
PoliteAnswered ==
    \A r \in Dispatched :
       r.conn \in Polite /\ handle[r.conn] \in {"closing", "freed"} => r \in written

IInv ==
    /\ TableIsHandles
    /\ NoRepeats
    /\ OwnedOnce
    /\ NewIsQuiet
    /\ Counted
    /\ AnswerCloses
    /\ OneResponse
    /\ PoliteAnswered
    /\ PoliteCloseOnce

-----------------------------------------------------------------------------
(* Queues.                                                                  *)

LEMMA AppendedSet ==
    ASSUME NEW S, NEW s \in Seq(S), NEW e \in S
    PROVE  /\ Append(s, e) \in Seq(S)
           /\ SeqSet(Append(s, e)) = SeqSet(s) \cup {e}
           /\ NoRepeat(s) /\ (e \notin SeqSet(s) \/ e = JobCreateAndRun)
              => NoRepeat(Append(s, e))
<1>. DEFINE t == Append(s, e)
<1>1. /\ t \in Seq(S)
      /\ Len(s) \in Nat
      /\ Len(t) = Len(s) + 1
      /\ \A i \in 1 .. Len(s) : t[i] = s[i]
      /\ t[Len(s) + 1] = e
  BY AppendProperties, LenProperties
<1>. HIDE DEF t
<1>2. \A i \in 1 .. Len(t) : i \in 1 .. Len(s) \/ i = Len(s) + 1
  BY <1>1
<1>3. SeqSet(t) = SeqSet(s) \cup {e}
  BY <1>1, <1>2 DEF SeqSet
<1>4. ASSUME NoRepeat(s), e \notin SeqSet(s) \/ e = JobCreateAndRun
      PROVE  NoRepeat(t)
  BY <1>1, <1>2, <1>4 DEF NoRepeat, SeqSet
<1>. QED
  BY <1>1, <1>3, <1>4 DEF t

LEMMA TailSet ==
    ASSUME NEW S, NEW s \in Seq(S), s # <<>>
    PROVE  /\ Tail(s) \in Seq(S)
           /\ Head(s) \in S
           /\ SeqSet(s) = SeqSet(Tail(s)) \cup {Head(s)}
           /\ NoRepeat(s) => /\ NoRepeat(Tail(s))
                             /\ Head(s) \in SeqSet(Tail(s)) => Head(s) = JobCreateAndRun
<1>. DEFINE t == Tail(s)
<1>1. /\ t \in Seq(S)
      /\ Len(s) \in Nat \ {0}
      /\ Len(t) = Len(s) - 1
      /\ \A i \in 1 .. Len(t) : t[i] = s[i + 1]
      /\ Head(s) = s[1] /\ Head(s) \in S
  BY HeadTailProperties, LenProperties, EmptySeq
<1>. HIDE DEF t
<1>2. \A i \in 1 .. Len(s) : i = 1 \/ (i - 1 \in 1 .. Len(t) /\ t[i - 1] = s[i])
  BY <1>1
<1>3. SeqSet(s) = SeqSet(t) \cup {Head(s)}
  BY <1>1, <1>2 DEF SeqSet
<1>4. ASSUME NoRepeat(s)
      PROVE  NoRepeat(t) /\ (Head(s) \in SeqSet(t) => Head(s) = JobCreateAndRun)
  <2>1. NoRepeat(t)
    <3>1. SUFFICES ASSUME NEW i \in 1 .. Len(t), NEW j \in 1 .. Len(t),
                          t[i] = t[j], t[i] # JobCreateAndRun
                   PROVE  i = j
      BY DEF NoRepeat
    <3>2. i + 1 \in 1 .. Len(s) /\ j + 1 \in 1 .. Len(s) /\ s[i + 1] = s[j + 1]
      BY <1>1, <3>1
    <3>. QED
      BY <1>1, <1>4, <3>1, <3>2 DEF NoRepeat
  <2>2. ASSUME NEW i \in 1 .. Len(t), t[i] = Head(s), Head(s) # JobCreateAndRun
        PROVE  FALSE
    <3>1. i + 1 \in 1 .. Len(s) /\ 1 \in 1 .. Len(s) /\ s[i + 1] = s[1] /\ i + 1 # 1
      BY <1>1, <2>2
    <3>. QED
      BY <1>1, <1>4, <2>2, <3>1 DEF NoRepeat
  <2>. QED
    BY <2>1, <2>2 DEF SeqSet
<1>. QED
  BY <1>1, <1>3, <1>4 DEF t

-----------------------------------------------------------------------------
(* Owners.                                                                  *)

\* In words of their content, what Owners counts.
OwnedBy(o, r) ==
    \/ \E w \in Workers : o = <<"toWorker", w>> /\ r \in SeqSet(toWorker[w])
    \/ \E w \in Workers : o = <<"running", w>> /\ r \in running[w]
    \/ \E w \in Workers : o = <<"toMain", w>> /\ r \in SeqSet(toMain[w])
    \/ o = <<"written">> /\ r \in written
    \/ o = <<"dropped">> /\ r \in dropped

\* Whatever has an owner was dispatched and has no other.
LEMMA OwnerIsOnly ==
    ASSUME OwnedOnce, aborted = {}, NEW r \in Requests, NEW o, OwnedBy(o, r)
    PROVE  r \in Dispatched /\ \A q : OwnedBy(q, r) => q = o
<1>1. \A q : OwnedBy(q, r) => q \in Owners(r)
  BY DEF Owners, OwnedBy
<1>2. o \in Owners(r)
  BY <1>1
<1>. QED
  BY <1>1, <1>2 DEF OwnedOnce

\* Request r goes from owner o to owner p, and all others stay where they are.
Passes(r, o, p) ==
    \A s \in Requests : \A q :
       OwnedBy(q, s)' <=> \/ OwnedBy(q, s) /\ ~(s = r /\ q = o)
                          \/ s = r /\ q = p

\* A request that is handed from one owner to the next still has one.
LEMMA HandedOver ==
    ASSUME OwnedOnce, aborted = {}, taken' = taken,
           NEW r \in Requests, NEW o, OwnedBy(o, r), NEW p,
           Passes(r, o, p)
    PROVE  OwnedOnce'
<1>1. Dispatched' = Dispatched
  BY DEF Dispatched
<1>2. r \in Dispatched /\ \A q : OwnedBy(q, r) => q = o
  BY OwnerIsOnly
<1>3. \A q : q \in Owners(r)' <=> q = p
  BY <1>2 DEF Owners, OwnedBy, Passes
<1>4. \A s \in Requests : s # r => Owners(s)' = Owners(s)
  BY DEF Owners, OwnedBy, Passes
<1>. QED
  BY <1>1, <1>2, <1>3, <1>4 DEF OwnedOnce

\* A step that leaves owners alone.
LEMMA OwnersStay ==
    ASSUME OwnedOnce, UNCHANGED <<taken, toWorker, worker, outcome>>
    PROVE  OwnedOnce'
<1>1. \A r : Owners(r)' = Owners(r)
  BY DEF Owners, worker, outcome
<1>2. Dispatched' = Dispatched /\ aborted' = aborted
  BY DEF Dispatched, outcome
<1>. QED
  BY <1>1, <1>2 DEF OwnedOnce

-----------------------------------------------------------------------------
(* Worker threads.                                                          *)

\* The first event of a queue leaves it.
LEMMA TakenFromWorker ==
    ASSUME IInv, NEW w \in Workers, toWorker[w] # <<>>,
           toWorker' = [toWorker EXCEPT ![w] = Tail(@)]
    PROVE  LET e == Head(toWorker[w])
           IN  /\ e \in Requests \cup {JobCreateAndRun}
               /\ e \in SeqSet(toWorker[w])
               /\ toWorker' \in [Workers -> Seq(Requests \cup {JobCreateAndRun})]
               /\ \A v \in Workers : NoRepeat(toWorker'[v])
               /\ \A v \in Workers : \A r \in Requests :
                     r \in SeqSet(toWorker'[v])
                        <=> r \in SeqSet(toWorker[v]) /\ ~(v = w /\ r = e)
<1>. DEFINE e == Head(toWorker[w])
            t == Tail(toWorker[w])
<1>1. /\ toWorker \in [Workers -> Seq(Requests \cup {JobCreateAndRun})]
      /\ \A v \in Workers : NoRepeat(toWorker[v])
  BY DEF IInv, TableIsHandles, TypeOK, NoRepeats
<1>2. toWorker[w] \in Seq(Requests \cup {JobCreateAndRun})
  BY <1>1
<1>3. /\ t \in Seq(Requests \cup {JobCreateAndRun})
      /\ e \in Requests \cup {JobCreateAndRun}
      /\ SeqSet(toWorker[w]) = SeqSet(t) \cup {e}
      /\ NoRepeat(t)
      /\ e \in SeqSet(t) => e = JobCreateAndRun
  BY <1>1, <1>2, TailSet
<1>4. \A v \in Workers : toWorker'[v] = IF v = w THEN t ELSE toWorker[v]
  BY <1>1
<1>5. JobCreateAndRun \notin Requests
  BY DEF JobCreateAndRun, Requests, ConnIds
<1>. HIDE DEF e, t
<1>6. toWorker' \in [Workers -> Seq(Requests \cup {JobCreateAndRun})]
  BY <1>1, <1>3 DEF t
<1>7. \A v \in Workers : NoRepeat(toWorker'[v])
  BY <1>1, <1>3, <1>4
<1>8. ASSUME NEW v \in Workers, NEW r \in Requests
      PROVE  r \in SeqSet(toWorker'[v])
                <=> r \in SeqSet(toWorker[v]) /\ ~(v = w /\ r = e)
  BY <1>3, <1>4, <1>5, <1>8
<1>. QED
  BY <1>3, <1>6, <1>7, <1>8 DEF e

\* What is left of the invariant when only queues and owners change.
LEMMA OnlyQueuesChange ==
    ASSUME IInv, UNCHANGED <<connId, table, handle, unread, received, taken, current, crons, outcome>>,
           toWorker' \in [Workers -> Seq(Requests \cup {JobCreateAndRun})],
           running' \in [Workers -> SUBSET Requests],
           toMain' \in [Workers -> Seq(Requests)],
           NoRepeats', OwnedOnce'
    PROVE  IInv'
<1>1. TableIsHandles'
  BY DEF IInv, TableIsHandles, TypeOK, outcome
<1>2. (NewIsQuiet /\ Counted)'
  BY DEF IInv, NewIsQuiet, Counted
<1>3. (AnswerCloses /\ OneResponse /\ PoliteAnswered /\ PoliteCloseOnce)'
  BY DEF IInv, AnswerCloses, OneResponse, PoliteAnswered, PoliteCloseOnce, Dispatched, outcome
<1>. QED
  BY <1>1, <1>2, <1>3 DEF IInv

LEMMA DispatchTcpKeeps ==
    ASSUME IInv, aborted = {}, NEW w \in Workers, DispatchTcp(w)
    PROVE  IInv'
<1>. DEFINE r == Head(toWorker[w])
<1>1. /\ toWorker[w] # <<>> /\ r # JobCreateAndRun
      /\ running' = [running EXCEPT ![w] = @ \cup {r}]
      /\ toWorker' = [toWorker EXCEPT ![w] = Tail(@)]
      /\ UNCHANGED <<connId, table, handle, unread, received, taken, current, crons, toMain, outcome>>
  BY DEF DispatchTcp
<1>2. /\ r \in Requests
      /\ r \in SeqSet(toWorker[w])
      /\ toWorker' \in [Workers -> Seq(Requests \cup {JobCreateAndRun})]
      /\ \A v \in Workers : NoRepeat(toWorker'[v])
      /\ \A v \in Workers : \A s \in Requests :
            s \in SeqSet(toWorker'[v]) <=> s \in SeqSet(toWorker[v]) /\ ~(v = w /\ s = r)
  BY <1>1, TakenFromWorker
<1>3. running \in [Workers -> SUBSET Requests] /\ toMain \in [Workers -> Seq(Requests)]
  BY DEF IInv, TableIsHandles, TypeOK
<1>. HIDE DEF r
<1>4. running' \in [Workers -> SUBSET Requests]
      /\ \A v \in Workers : running'[v] = IF v = w THEN running[v] \cup {r} ELSE running[v]
  BY <1>1, <1>2, <1>3
<1>5. NoRepeats'
  BY <1>1, <1>2 DEF IInv, NoRepeats
<1>6. OwnedBy(<<"toWorker", w>>, r)
  BY <1>2 DEF OwnedBy
<1>7. Passes(r, <<"toWorker", w>>, <<"running", w>>)
  BY <1>1, <1>2, <1>4 DEF Passes, OwnedBy, outcome
<1>8. OwnedOnce'
  BY <1>1, <1>2, <1>6, <1>7, HandedOver DEF IInv
<1>. QED
  BY <1>1, <1>2, <1>3, <1>4, <1>5, <1>8, OnlyQueuesChange

LEMMA CreateAndRunKeeps ==
    ASSUME IInv, aborted = {}, NEW w \in Workers, CreateAndRun(w)
    PROVE  IInv'
<1>1. /\ toWorker[w] # <<>> /\ Head(toWorker[w]) = JobCreateAndRun
      /\ toWorker' = [toWorker EXCEPT ![w] = Tail(@)]
      /\ UNCHANGED <<connId, table, handle, unread, received, taken, current, crons, worker, outcome>>
  BY DEF CreateAndRun
<1>2. JobCreateAndRun \notin Requests
  BY DEF JobCreateAndRun, Requests, ConnIds
<1>3. /\ toWorker' \in [Workers -> Seq(Requests \cup {JobCreateAndRun})]
      /\ \A v \in Workers : NoRepeat(toWorker'[v])
      /\ \A v \in Workers : \A s \in Requests :
            s \in SeqSet(toWorker'[v]) <=> s \in SeqSet(toWorker[v])
  BY <1>1, <1>2, TakenFromWorker
<1>4. NoRepeats'
  BY <1>1, <1>3 DEF IInv, NoRepeats, worker
<1>5. \A s \in Requests : Owners(s)' = Owners(s)
  BY <1>1, <1>3 DEF Owners, worker, outcome
<1>6. OwnedOnce'
  BY <1>1, <1>5 DEF IInv, OwnedOnce, Dispatched, outcome
<1>7. running' \in [Workers -> SUBSET Requests] /\ toMain' \in [Workers -> Seq(Requests)]
  BY <1>1 DEF IInv, TableIsHandles, TypeOK, worker
<1>. QED
  BY <1>1, <1>3, <1>4, <1>6, <1>7, OnlyQueuesChange

\* The answer joins the queue to the main thread: the handler had no other.
LEMMA SendDataKeeps ==
    ASSUME IInv, aborted = {}, NEW w \in Workers, NEW r \in running[w], SendData(w, r)
    PROVE  IInv'
<1>1. /\ running' = [running EXCEPT ![w] = @ \ {r}]
      /\ toMain' = [toMain EXCEPT ![w] = Append(@, r)]
      /\ UNCHANGED <<connId, table, handle, unread, received, taken, current, crons, toWorker, outcome>>
  BY DEF SendData, HandlersLeft, Answers, traffic
<1>2. /\ running \in [Workers -> SUBSET Requests]
      /\ toMain \in [Workers -> Seq(Requests)]
      /\ toWorker \in [Workers -> Seq(Requests \cup {JobCreateAndRun})]
  BY DEF IInv, TableIsHandles, TypeOK
<1>3. r \in Requests /\ toMain[w] \in Seq(Requests)
  BY <1>2
<1>4. OwnedBy(<<"running", w>>, r)
  BY DEF OwnedBy
<1>5. \A v \in Workers : r \notin SeqSet(toMain[v])
  <2>1. SUFFICES ASSUME NEW v \in Workers, r \in SeqSet(toMain[v]) PROVE FALSE
    OBVIOUS
  <2>2. OwnedBy(<<"toMain", v>>, r)
    BY <2>1 DEF OwnedBy
  <2>3. <<"toMain", v>> = <<"running", w>>
    BY <1>3, <1>4, <2>2, OwnerIsOnly DEF IInv
  <2>. QED
    BY <2>3
<1>. DEFINE t == Append(toMain[w], r)
<1>6. t \in Seq(Requests) /\ SeqSet(t) = SeqSet(toMain[w]) \cup {r} /\ NoRepeat(t)
  BY <1>3, <1>5, AppendedSet DEF IInv, NoRepeats
<1>7. \A v \in Workers : toMain'[v] = IF v = w THEN t ELSE toMain[v]
  BY <1>1, <1>2
<1>8. toMain' \in [Workers -> Seq(Requests)]
  BY <1>1, <1>2, <1>6
<1>. HIDE DEF t
<1>9. running' \in [Workers -> SUBSET Requests]
      /\ \A v \in Workers : running'[v] = IF v = w THEN running[v] \ {r} ELSE running[v]
  BY <1>1, <1>2
<1>10. NoRepeats'
  BY <1>1, <1>6, <1>7 DEF IInv, NoRepeats
<1>11. \A v \in Workers : \A s \in Requests :
          /\ s \in SeqSet(toMain'[v]) <=> s \in SeqSet(toMain[v]) \/ (v = w /\ s = r)
          /\ s \in running'[v] <=> s \in running[v] /\ ~(v = w /\ s = r)
  BY <1>6, <1>7, <1>9
<1>12. UNCHANGED <<toWorker, written, dropped>>
  BY <1>1 DEF outcome
<1>13. Passes(r, <<"running", w>>, <<"toMain", w>>)
  BY <1>11, <1>12 DEF Passes, OwnedBy
<1>14. OwnedOnce'
  BY <1>1, <1>3, <1>4, <1>13, HandedOver DEF IInv
<1>. QED
  BY <1>1, <1>2, <1>8, <1>9, <1>10, <1>14, OnlyQueuesChange

-----------------------------------------------------------------------------
(* SendTcpToClient.                                                         *)

\* The first answer of a queue leaves it.
LEMMA TakenFromMain ==
    ASSUME IInv, NEW w \in Workers, toMain[w] # <<>>,
           toMain' = [toMain EXCEPT ![w] = Tail(@)]
    PROVE  LET r == Head(toMain[w])
           IN  /\ r \in Requests
               /\ r \in SeqSet(toMain[w])
               /\ toMain' \in [Workers -> Seq(Requests)]
               /\ \A v \in Workers : NoRepeat(toMain'[v])
               /\ \A v \in Workers : \A s \in Requests :
                     s \in SeqSet(toMain'[v]) <=> s \in SeqSet(toMain[v]) /\ ~(v = w /\ s = r)
<1>. DEFINE r == Head(toMain[w])
            t == Tail(toMain[w])
<1>1. /\ toMain \in [Workers -> Seq(Requests)]
      /\ \A v \in Workers : NoRepeat(toMain[v])
  BY DEF IInv, TableIsHandles, TypeOK, NoRepeats
<1>2. toMain[w] \in Seq(Requests)
  BY <1>1
<1>3. JobCreateAndRun \notin Requests
  BY DEF JobCreateAndRun, Requests, ConnIds
<1>4. /\ t \in Seq(Requests)
      /\ r \in Requests
      /\ SeqSet(toMain[w]) = SeqSet(t) \cup {r}
      /\ NoRepeat(t)
      /\ r \notin SeqSet(t)
  BY <1>1, <1>2, <1>3, TailSet
<1>5. \A v \in Workers : toMain'[v] = IF v = w THEN t ELSE toMain[v]
  BY <1>1
<1>6. toMain' \in [Workers -> Seq(Requests)]
  BY <1>1, <1>4
<1>. HIDE DEF r, t
<1>7. \A v \in Workers : NoRepeat(toMain'[v])
  BY <1>1, <1>4, <1>5
<1>8. ASSUME NEW v \in Workers, NEW s \in Requests
      PROVE  s \in SeqSet(toMain'[v]) <=> s \in SeqSet(toMain[v]) /\ ~(v = w /\ s = r)
  BY <1>4, <1>5, <1>8
<1>. QED
  BY <1>4, <1>6, <1>7, <1>8 DEF r

\* Of a polite client there is one request.
LEMMA PoliteHasOne ==
    ASSUME IInv, NEW r \in Dispatched, NEW s \in Dispatched,
           r.conn \in Polite, s.conn = r.conn
    PROVE  s = r
<1>1. r.conn \in ConnIds /\ r.no \in 1 .. MaxRequests /\ s.no \in 1 .. MaxRequests
      /\ r \in Requests /\ s \in Requests
  BY DEF Dispatched, Requests
<1>2. r.no <= taken[r.conn] /\ s.no <= taken[r.conn]
  BY DEF Dispatched
<1>3. /\ taken[r.conn] \in 0 .. MaxRequests
      /\ unread[r.conn] \in 0 .. MaxRequests
      /\ received[r.conn] \in 0 .. MaxRequests
  BY <1>1 DEF IInv, TableIsHandles, TypeOK
<1>4. taken[r.conn] + unread[r.conn] <= received[r.conn] /\ received[r.conn] <= 1
  BY <1>1 DEF IInv, Counted, Limit
<1>5. r.no = s.no
  BY <1>1, <1>2, <1>3, <1>4
<1>. QED
  BY <1>1, <1>5 DEF Requests

\* The connection is gone: the answer goes with it.
LEMMA AnswerDropped ==
    ASSUME IInv, aborted = {}, NEW w \in Workers, toMain[w] # <<>>,
           toMain' = [toMain EXCEPT ![w] = Tail(@)],
           dropped' = dropped \cup {Head(toMain[w])},
           UNCHANGED <<connId, table, handle, traffic, running, written, aborted>>
    PROVE  IInv'
<1>. DEFINE r == Head(toMain[w])
<1>1. /\ r \in Requests
      /\ r \in SeqSet(toMain[w])
      /\ toMain' \in [Workers -> Seq(Requests)]
      /\ \A v \in Workers : NoRepeat(toMain'[v])
      /\ \A v \in Workers : \A s \in Requests :
            s \in SeqSet(toMain'[v]) <=> s \in SeqSet(toMain[v]) /\ ~(v = w /\ s = r)
  BY TakenFromMain
<1>2. dropped' = dropped \cup {r}
  OBVIOUS
<1>. HIDE DEF r
<1>3. OwnedBy(<<"toMain", w>>, r)
  BY <1>1 DEF OwnedBy
<1>4. Passes(r, <<"toMain", w>>, <<"dropped">>)
  BY <1>1, <1>2 DEF Passes, OwnedBy, traffic
<1>5. OwnedOnce'
  BY <1>1, <1>3, <1>4, HandedOver DEF IInv, traffic
<1>6. TableIsHandles'
  BY <1>1, <1>2 DEF IInv, TableIsHandles, TypeOK, traffic
<1>7. (NoRepeats /\ NewIsQuiet /\ Counted)'
  BY <1>1 DEF IInv, NoRepeats, NewIsQuiet, Counted, traffic
<1>8. (AnswerCloses /\ OneResponse /\ PoliteAnswered /\ PoliteCloseOnce)'
  BY DEF IInv, AnswerCloses, OneResponse, PoliteAnswered, PoliteCloseOnce, Dispatched, traffic
<1>. QED
  BY <1>5, <1>6, <1>7, <1>8 DEF IInv

\* The answer is written, and its connection closed.
LEMMA AnswerWritten ==
    ASSUME IInv, aborted = {}, NEW w \in Workers, toMain[w] # <<>>,
           toMain' = [toMain EXCEPT ![w] = Tail(@)],
           Head(toMain[w]).conn \in table,
           handle[Head(toMain[w]).conn] = "open",
           handle' = UvClose(Head(toMain[w]).conn),
           written' = written \cup {Head(toMain[w])},
           UNCHANGED <<connId, table, traffic, running, dropped, aborted>>
    PROVE  IInv'
<1>. DEFINE r == Head(toMain[w])
            c == r.conn
<1>1. /\ r \in Requests
      /\ r \in SeqSet(toMain[w])
      /\ toMain' \in [Workers -> Seq(Requests)]
      /\ \A v \in Workers : NoRepeat(toMain'[v])
      /\ \A v \in Workers : \A s \in Requests :
            s \in SeqSet(toMain'[v]) <=> s \in SeqSet(toMain[v]) /\ ~(v = w /\ s = r)
  BY TakenFromMain
<1>2. /\ written' = written \cup {r}
      /\ c \in table /\ handle[c] = "open"
      /\ handle' = [handle EXCEPT ![c] = "closing"]
  BY DEF UvClose
<1>3. c \in ConnIds
  BY <1>1 DEF Requests
<1>. HIDE DEF r, c
<1>4. OwnedBy(<<"toMain", w>>, r)
  BY <1>1 DEF OwnedBy
<1>5. Passes(r, <<"toMain", w>>, <<"written">>)
  BY <1>1, <1>2 DEF Passes, OwnedBy, traffic
<1>6. OwnedOnce'
  BY <1>1, <1>4, <1>5, HandedOver DEF IInv, traffic
<1>7. handle \in [ConnIds -> {"none", "open", "closing", "freed"}]
  BY DEF IInv, TableIsHandles, TypeOK
<1>8. \A b \in ConnIds : handle'[b] = IF b = c THEN "closing" ELSE handle[b]
  BY <1>2, <1>3, <1>7
<1>9. TableIsHandles'
  <2>1. TypeOK'
    BY <1>1, <1>2, <1>3 DEF IInv, TableIsHandles, TypeOK, traffic
  <2>2. table' = {b \in ConnIds : handle'[b] \in {"open", "closing"}}
    BY <1>2, <1>3, <1>8 DEF IInv, TableIsHandles
  <2>. QED
    BY <2>1, <2>2 DEF TableIsHandles
<1>10. (NoRepeats /\ NewIsQuiet /\ Counted)'
  BY <1>1, <1>2, <1>8 DEF IInv, NoRepeats, NewIsQuiet, Counted, traffic
<1>11. r \in Dispatched /\ Dispatched' = Dispatched
  BY <1>1, <1>4, OwnerIsOnly DEF IInv, Dispatched, traffic
<1>12. \A s \in written : s \in Requests /\ s.conn \in ConnIds /\ s.conn # c
  BY <1>2 DEF IInv, TableIsHandles, TypeOK, AnswerCloses, Requests
<1>13. AnswerCloses' /\ OneResponse'
  BY <1>2, <1>3, <1>8, <1>12 DEF IInv, AnswerCloses, OneResponse, c
<1>14. PoliteAnswered'
  <2>1. SUFFICES ASSUME NEW s \in Dispatched, s.conn \in Polite,
                        handle'[s.conn] \in {"closing", "freed"}
                 PROVE  s \in written'
    BY <1>11 DEF PoliteAnswered
  <2>2. CASE s.conn = c
    BY <1>2, <1>11, <2>1, <2>2, PoliteHasOne DEF c
  <2>3. CASE s.conn # c
    <3>1. s.conn \in ConnIds
      BY DEF Dispatched, Requests
    <3>. QED
      BY <1>2, <1>8, <2>1, <2>3, <3>1 DEF IInv, PoliteAnswered
  <2>. QED
    BY <2>2, <2>3
<1>15. PoliteCloseOnce'
  BY DEF IInv, PoliteCloseOnce
<1>. QED
  BY <1>6, <1>9, <1>10, <1>13, <1>14, <1>15 DEF IInv

\* The handle is closing already: not that of a polite client, whose only
\* request was answered when it was closed.
LEMMA AnswerAborts ==
    ASSUME IInv, aborted = {}, NEW w \in Workers, toMain[w] # <<>>,
           toMain' = [toMain EXCEPT ![w] = Tail(@)],
           Head(toMain[w]).conn \in table,
           handle[Head(toMain[w]).conn] # "open",
           handle' = UvClose(Head(toMain[w]).conn),
           aborted' = {Head(toMain[w]).conn},
           UNCHANGED <<connId, table, traffic, running, written, dropped>>
    PROVE  IInv'
<1>. DEFINE r == Head(toMain[w])
            c == r.conn
<1>1. /\ r \in Requests
      /\ r \in SeqSet(toMain[w])
      /\ toMain' \in [Workers -> Seq(Requests)]
      /\ \A v \in Workers : NoRepeat(toMain'[v])
  BY TakenFromMain
<1>2. /\ c \in table /\ handle[c] # "open" /\ aborted' = {c}
      /\ handle' = [handle EXCEPT ![c] = "closing"]
  BY DEF UvClose
<1>3. c \in ConnIds
  BY <1>1 DEF Requests
<1>. HIDE DEF r, c
<1>4. handle[c] = "closing" /\ handle' = handle
  BY <1>2, <1>3 DEF IInv, TableIsHandles, TypeOK
<1>5. OwnedOnce'
  BY <1>2 DEF OwnedOnce
<1>6. TableIsHandles'
  BY <1>1, <1>2, <1>3, <1>4 DEF IInv, TableIsHandles, TypeOK, traffic
<1>7. (NoRepeats /\ NewIsQuiet /\ Counted)'
  BY <1>1, <1>4 DEF IInv, NoRepeats, NewIsQuiet, Counted, traffic
<1>8. (AnswerCloses /\ OneResponse /\ PoliteAnswered)'
  BY <1>4 DEF IInv, AnswerCloses, OneResponse, PoliteAnswered, Dispatched, traffic
<1>9. c \notin Polite
  <2>1. SUFFICES ASSUME c \in Polite PROVE FALSE
    OBVIOUS
  <2>2. OwnedBy(<<"toMain", w>>, r)
    BY <1>1 DEF OwnedBy
  <2>3. r \in Dispatched /\ \A q : OwnedBy(q, r) => q = <<"toMain", w>>
    BY <1>1, <2>2, OwnerIsOnly DEF IInv
  <2>4. r \in written
    BY <1>4, <2>1, <2>3 DEF IInv, PoliteAnswered, c
  <2>5. OwnedBy(<<"written">>, r)
    BY <2>4 DEF OwnedBy
  <2>6. <<"written">> = <<"toMain", w>>
    BY <2>3, <2>5
  <2>. QED
    BY <2>6
<1>. QED
  BY <1>2, <1>5, <1>6, <1>7, <1>8, <1>9 DEF IInv, PoliteCloseOnce

LEMMA SendTcpToClientKeeps ==
    ASSUME IInv, aborted = {}, NEW w \in Workers, SendTcpToClient(w)
    PROVE  IInv'
<1>. DEFINE c == Head(toMain[w]).conn
<1>1. CASE c \notin table
  BY <1>1, AnswerDropped DEF SendTcpToClient
<1>2. CASE c \in table /\ handle[c] = "open"
  BY <1>2, AnswerWritten DEF SendTcpToClient
<1>3. CASE c \in table /\ handle[c] # "open"
  BY <1>3, AnswerAborts DEF SendTcpToClient
<1>. QED
  BY <1>1, <1>2, <1>3

-----------------------------------------------------------------------------
(* Main thread.                                                             *)

LEMMA NextThread == TypeOK => current \in Workers /\ NextThreadIndex \in Workers
  BY DEF TypeOK, Workers, NextThreadIndex

\* An event goes to the end of the next worker's queue.
LEMMA SentToWorker ==
    ASSUME IInv, NEW e \in Requests \cup {JobCreateAndRun},
           e \in Requests => \A v \in Workers : e \notin SeqSet(toWorker[v]),
           toWorker' = [toWorker EXCEPT ![current] = Append(@, e)]
    PROVE  /\ toWorker' \in [Workers -> Seq(Requests \cup {JobCreateAndRun})]
           /\ \A v \in Workers : NoRepeat(toWorker'[v])
           /\ \A v \in Workers : \A s \in Requests :
                 s \in SeqSet(toWorker'[v])
                    <=> s \in SeqSet(toWorker[v]) \/ (v = current /\ s = e)
<1>. DEFINE t == Append(toWorker[current], e)
<1>1. /\ toWorker \in [Workers -> Seq(Requests \cup {JobCreateAndRun})]
      /\ \A v \in Workers : NoRepeat(toWorker[v])
      /\ current \in Workers
  BY NextThread DEF IInv, TableIsHandles, TypeOK, NoRepeats
<1>2. /\ t \in Seq(Requests \cup {JobCreateAndRun})
      /\ SeqSet(t) = SeqSet(toWorker[current]) \cup {e}
      /\ NoRepeat(t)
  BY <1>1, AppendedSet
<1>3. \A v \in Workers : toWorker'[v] = IF v = current THEN t ELSE toWorker[v]
  BY <1>1
<1>4. toWorker' \in [Workers -> Seq(Requests \cup {JobCreateAndRun})]
  BY <1>1, <1>2
<1>. HIDE DEF t
<1>. QED
  BY <1>1, <1>2, <1>3, <1>4

\* The request that the codec takes next is in nobody's hands.
LEMMA NextIsFresh ==
    ASSUME IInv, aborted = {}, NEW c \in ConnIds, NEW r \in Requests,
           r.conn = c, r.no = taken[c] + 1
    PROVE  r \notin Dispatched /\ \A o : ~OwnedBy(o, r)
<1>1. taken[c] \in 0 .. MaxRequests
  BY DEF IInv, TableIsHandles, TypeOK
<1>2. r \notin Dispatched
  BY <1>1 DEF Dispatched
<1>. QED
  BY <1>2, OwnerIsOnly DEF IInv

LEMMA OnTcpReadKeeps ==
    ASSUME IInv, aborted = {}, NEW c \in ConnIds, NEW more \in 0 .. MaxRequests,
           OnTcpRead(c, more)
    PROVE  IInv'
<1>1. /\ handle[c] = "open"
      /\ received[c] + more <= Limit(c)
      /\ received' = [received EXCEPT ![c] = @ + more]
      /\ UNCHANGED <<connId, table, handle, crons, worker, outcome>>
  BY DEF OnTcpRead
<1>2. TypeOK
  BY DEF IInv, TableIsHandles
<1>3. /\ taken[c] \in 0 .. MaxRequests
      /\ unread[c] \in 0 .. MaxRequests
      /\ received[c] \in 0 .. MaxRequests
      /\ taken[c] + unread[c] <= received[c]
  BY <1>2 DEF TypeOK, IInv, Counted
<1>4. received[c] + more \in 0 .. MaxRequests
  BY <1>1, <1>3 DEF Limit
<1>5. NewIsQuiet' /\ received' \in [ConnIds -> 0 .. MaxRequests]
  BY <1>1, <1>2, <1>4 DEF IInv, NewIsQuiet, TypeOK
<1>6. (AnswerCloses /\ OneResponse /\ PoliteCloseOnce)'
  BY <1>1 DEF IInv, AnswerCloses, OneResponse, PoliteCloseOnce, outcome
<1>7. CASE unread[c] + more = 0
  <2>1. UNCHANGED <<unread, taken, current, toWorker>>
    BY <1>7 DEF OnTcpRead
  <2>2. TableIsHandles'
    BY <1>1, <1>2, <1>5, <2>1 DEF IInv, TableIsHandles, TypeOK, worker, outcome
  <2>3. Counted'
    BY <1>1, <1>2, <1>3, <2>1 DEF IInv, Counted, TypeOK, Limit
  <2>4. OwnedOnce'
    BY <1>1, <2>1, OwnersStay DEF IInv
  <2>5. NoRepeats' /\ PoliteAnswered'
    BY <1>1, <2>1 DEF IInv, NoRepeats, PoliteAnswered, Dispatched, worker, outcome
  <2>. QED
    BY <1>5, <1>6, <2>2, <2>3, <2>4, <2>5 DEF IInv
<1>8. CASE unread[c] + more # 0
  <2>1. /\ unread' = [unread EXCEPT ![c] = @ + more - 1]
        /\ taken' = [taken EXCEPT ![c] = @ + 1]
        /\ toWorker' = [toWorker EXCEPT ![current] = Append(@, [conn |-> c, no |-> taken[c] + 1])]
        /\ current' = NextThreadIndex
    BY <1>8 DEF OnTcpRead
  <2>2. /\ taken[c] + 1 \in 1 .. MaxRequests
        /\ unread[c] + more - 1 \in 0 .. MaxRequests
    BY <1>3, <1>4, <1>8
  <2>3. PICK r \in Requests : /\ r = [conn |-> c, no |-> taken[c] + 1]
                              /\ r.conn = c /\ r.no = taken[c] + 1
    <3>1. [conn |-> c, no |-> taken[c] + 1] \in Requests
      BY <2>2 DEF Requests
    <3>. QED
      BY <3>1
  <2>4. r \notin Dispatched /\ \A o : ~OwnedBy(o, r)
    BY <2>3, NextIsFresh
  <2>5. /\ \A v \in Workers : /\ r \notin SeqSet(toWorker[v])
                              /\ r \notin running[v]
                              /\ r \notin SeqSet(toMain[v])
        /\ r \notin written /\ r \notin dropped
    BY <2>4 DEF OwnedBy
  <2>6. /\ toWorker' \in [Workers -> Seq(Requests \cup {JobCreateAndRun})]
        /\ \A v \in Workers : NoRepeat(toWorker'[v])
        /\ \A v \in Workers : \A s \in Requests :
              s \in SeqSet(toWorker'[v])
                 <=> s \in SeqSet(toWorker[v]) \/ (v = current /\ s = r)
    <3>1. toWorker' = [toWorker EXCEPT ![current] = Append(@, r)]
      BY <2>1, <2>3
    <3>. QED
      BY <2>5, <3>1, SentToWorker
  <2>7. current \in Workers /\ current' \in Workers
    BY <1>2, <2>1, NextThread
  <2>8. /\ taken' \in [ConnIds -> 0 .. MaxRequests]
        /\ unread' \in [ConnIds -> 0 .. MaxRequests]
        /\ \A b \in ConnIds : /\ taken'[b] = IF b = c THEN taken[c] + 1 ELSE taken[b]
                              /\ unread'[b] = IF b = c THEN unread[c] + more - 1 ELSE unread[b]
                              /\ received'[b] = IF b = c THEN received[c] + more ELSE received[b]
    BY <1>1, <1>2, <2>1, <2>2 DEF TypeOK
  <2>9. TableIsHandles'
    BY <1>1, <1>2, <1>5, <2>6, <2>7, <2>8 DEF IInv, TableIsHandles, TypeOK, worker, outcome
  <2>10. Counted'
    BY <1>1, <1>3, <2>8 DEF IInv, Counted, Limit
  <2>11. \A s \in Requests : s \in Dispatched' <=> s \in Dispatched \/ s = r
    <3>1. SUFFICES ASSUME NEW s \in Requests
                   PROVE  s.no <= taken'[s.conn] <=> s.no <= taken[s.conn] \/ s = r
      BY DEF Dispatched
    <3>2. s.conn \in ConnIds /\ s.no \in Nat
          /\ s = [conn |-> s.conn, no |-> s.no]
      BY DEF Requests
    <3>3. CASE s.conn = c
      <4>1. s = r <=> s.no = taken[c] + 1
        BY <2>3, <3>2, <3>3
      <4>. QED
        BY <1>3, <2>8, <3>2, <3>3, <4>1
    <3>4. CASE s.conn # c
      BY <2>3, <2>8, <3>2, <3>4
    <3>. QED
      BY <3>3, <3>4
  <2>12. NoRepeats'
    BY <1>1, <2>6 DEF IInv, NoRepeats, worker
  <2>13. PoliteAnswered'
    BY <1>1, <2>3, <2>11 DEF IInv, PoliteAnswered, Dispatched, outcome
  <2>14. OwnedOnce'
    <3>1. \A s \in Requests : s # r => Owners(s)' = Owners(s)
      BY <1>1, <2>6 DEF Owners, worker, outcome
    <3>2. \A q : q \in Owners(r)' <=> q = <<"toWorker", current>>
      <4>1. \A v \in Workers : r \in SeqSet(toWorker'[v]) <=> v = current
        BY <2>3, <2>5, <2>6
      <4>2. UNCHANGED <<running, toMain, written, dropped>>
        BY <1>1 DEF worker, outcome
      <4>. QED
        BY <2>5, <2>7, <4>1, <4>2 DEF Owners
    <3>3. Owners(r)' = {<<"toWorker", current>>}
      BY <3>2
    <3>4. aborted' = {} /\ r \in Dispatched'
      BY <1>1, <2>3, <2>11 DEF outcome
    <3>. QED
      <4>1. \A s \in Requests : IF s \in Dispatched THEN \E o \in Owners(s) : Owners(s) = {o}
                                ELSE Owners(s) = {}
        BY DEF IInv, OwnedOnce
      <4>2. ASSUME NEW s \in Requests
            PROVE  IF s \in Dispatched' THEN \E o \in Owners(s)' : Owners(s)' = {o}
                   ELSE Owners(s)' = {}
        <5>1. CASE s = r
          BY <3>3, <3>4, <5>1
        <5>2. CASE s # r
          BY <2>11, <3>1, <4>1, <5>2
        <5>. QED
          BY <5>1, <5>2
      <4>. QED
        BY <4>2 DEF OwnedOnce
  <2>. QED
    BY <1>5, <1>6, <2>9, <2>10, <2>12, <2>13, <2>14 DEF IInv
<1>. QED
  BY <1>7, <1>8

LEMMA TimeWheelTickKeeps ==
    ASSUME IInv, aborted = {}, TimeWheelTick
    PROVE  IInv'
<1>1. /\ crons < MaxCrons /\ crons' = crons + 1
      /\ toWorker' = [toWorker EXCEPT ![current] = Append(@, JobCreateAndRun)]
      /\ current' = NextThreadIndex
      /\ UNCHANGED <<connId, table, handle, unread, received, taken, worker, outcome>>
  BY DEF TimeWheelTick
<1>2. JobCreateAndRun \notin Requests
  BY DEF JobCreateAndRun, Requests, ConnIds
<1>3. /\ toWorker' \in [Workers -> Seq(Requests \cup {JobCreateAndRun})]
      /\ \A v \in Workers : NoRepeat(toWorker'[v])
      /\ \A v \in Workers : \A s \in Requests :
            s \in SeqSet(toWorker'[v]) <=> s \in SeqSet(toWorker[v])
  <2>. DEFINE e == JobCreateAndRun
  <2>1. e \in Requests \cup {JobCreateAndRun} /\ e \notin Requests
    BY <1>2
  <2>2. toWorker' = [toWorker EXCEPT ![current] = Append(@, e)]
    BY <1>1
  <2>. HIDE DEF e
  <2>. QED
    BY <2>1, <2>2, SentToWorker
<1>4. TableIsHandles'
  BY <1>1, <1>3, NextThread DEF IInv, TableIsHandles, TypeOK, worker, outcome
<1>5. \A s \in Requests : Owners(s)' = Owners(s)
  BY <1>1, <1>3 DEF Owners, worker, outcome
<1>6. OwnedOnce'
  BY <1>1, <1>5 DEF IInv, OwnedOnce, Dispatched, outcome
<1>7. (NoRepeats /\ NewIsQuiet /\ Counted)'
  BY <1>1, <1>3 DEF IInv, NoRepeats, NewIsQuiet, Counted, worker
<1>8. (AnswerCloses /\ OneResponse /\ PoliteAnswered /\ PoliteCloseOnce)'
  BY <1>1 DEF IInv, AnswerCloses, OneResponse, PoliteAnswered, PoliteCloseOnce, Dispatched, outcome
<1>. QED
  BY <1>4, <1>6, <1>7, <1>8 DEF IInv

LEMMA OnNewConnectionKeeps ==
    ASSUME IInv, aborted = {}, NEW accepted \in BOOLEAN, OnNewConnection(accepted)
    PROVE  IInv'
<1>. DEFINE c == connId + 1
<1>1. /\ connId < MaxConns /\ connId' = c
      /\ table' = table \cup {c}
      /\ handle' = [handle EXCEPT ![c] = IF accepted THEN "open" ELSE "closing"]
      /\ UNCHANGED <<traffic, worker, outcome>>
  BY DEF OnNewConnection
<1>2. TypeOK
  BY DEF IInv, TableIsHandles
<1>3. c \in ConnIds /\ connId \in Nat /\ c > connId
  BY <1>1, <1>2 DEF TypeOK, ConnIds
<1>4. handle[c] = "none" /\ received[c] = 0
  BY <1>3 DEF IInv, NewIsQuiet
<1>5. \A b \in ConnIds :
         handle'[b] = IF b = c THEN IF accepted THEN "open" ELSE "closing" ELSE handle[b]
  BY <1>1, <1>2, <1>3 DEF TypeOK
<1>6. TypeOK'
  <2>1. connId' \in 0 .. MaxConns
    BY <1>1, <1>3 DEF ConnIds
  <2>2. table' \subseteq ConnIds
    BY <1>1, <1>2, <1>3 DEF TypeOK
  <2>3. handle' \in [ConnIds -> {"none", "open", "closing", "freed"}]
    BY <1>1, <1>2 DEF TypeOK
  <2>. QED
    BY <1>1, <1>2, <2>1, <2>2, <2>3 DEF TypeOK, traffic, worker, outcome
<1>7. \A s \in Dispatched : s.conn \in ConnIds /\ s.conn # c
  <2>1. taken[c] = 0
    BY <1>2, <1>3, <1>4 DEF TypeOK, IInv, Counted
  <2>. QED
    BY <2>1 DEF Dispatched, Requests
<1>8. \A s \in written : s \in Dispatched
  <2>1. SUFFICES ASSUME NEW s \in written PROVE s \in Dispatched
    OBVIOUS
  <2>2. s \in Requests /\ OwnedBy(<<"written">>, s)
    BY <1>2 DEF TypeOK, OwnedBy
  <2>. QED
    BY <2>2, OwnerIsOnly DEF IInv
<1>. HIDE DEF c
<1>9. TableIsHandles'
  BY <1>1, <1>3, <1>5, <1>6 DEF IInv, TableIsHandles
<1>10. NewIsQuiet'
  <2>1. \A b \in ConnIds : b > c => b > connId /\ b # c
    BY <1>3 DEF ConnIds, c
  <2>. QED
    BY <1>1, <1>5, <2>1 DEF IInv, NewIsQuiet, traffic
<1>11. OwnedOnce'
  BY <1>1, OwnersStay DEF IInv, traffic
<1>12. (NoRepeats /\ Counted)'
  BY <1>1 DEF IInv, NoRepeats, Counted, traffic, worker
<1>13. (AnswerCloses /\ OneResponse /\ PoliteAnswered /\ PoliteCloseOnce)'
  BY <1>1, <1>5, <1>7, <1>8
     DEF IInv, AnswerCloses, OneResponse, PoliteAnswered, PoliteCloseOnce,
         Dispatched, traffic, outcome
<1>. QED
  BY <1>9, <1>10, <1>11, <1>12, <1>13 DEF IInv

LEMMA OnTcpReadCloseKeeps ==
    ASSUME IInv, aborted = {}, NEW c \in ConnIds, OnTcpReadClose(c)
    PROVE  IInv'
<1>1. /\ c \notin Polite /\ handle[c] = "open"
      /\ handle' = [handle EXCEPT ![c] = "closing"]
      /\ UNCHANGED <<connId, table, traffic, worker, outcome>>
  BY DEF OnTcpReadClose, UvClose
<1>2. \A b \in ConnIds : handle'[b] = IF b = c THEN "closing" ELSE handle[b]
  BY <1>1 DEF IInv, TableIsHandles, TypeOK
<1>3. TypeOK'
  BY <1>1 DEF IInv, TableIsHandles, TypeOK, traffic, worker, outcome
<1>4. TableIsHandles'
  BY <1>1, <1>2, <1>3 DEF IInv, TableIsHandles
<1>5. OwnedOnce'
  BY <1>1, OwnersStay DEF IInv, traffic
<1>6. (NoRepeats /\ NewIsQuiet /\ Counted)'
  BY <1>1, <1>2 DEF IInv, NoRepeats, NewIsQuiet, Counted, traffic, worker
<1>7. \A s \in Requests : s.conn \in ConnIds
  BY DEF Requests
<1>8. AnswerCloses' /\ OneResponse' /\ PoliteCloseOnce'
  BY <1>1, <1>2, <1>7
     DEF IInv, AnswerCloses, OneResponse, PoliteCloseOnce, TableIsHandles, TypeOK, outcome
<1>9. PoliteAnswered'
  BY <1>1, <1>2, <1>7 DEF IInv, PoliteAnswered, Dispatched, traffic, outcome
<1>. QED
  BY <1>4, <1>5, <1>6, <1>8, <1>9 DEF IInv

LEMMA OnTcpCloseKeeps ==
    ASSUME IInv, aborted = {}, NEW c \in ConnIds, OnTcpClose(c)
    PROVE  IInv'
<1>1. /\ handle[c] = "closing"
      /\ handle' = [handle EXCEPT ![c] = "freed"]
      /\ table' = table \ {c}
      /\ unread' = [unread EXCEPT ![c] = 0]
      /\ UNCHANGED <<connId, received, taken, current, crons, toWorker, worker, outcome>>
  BY DEF OnTcpClose, WithoutEntry
<1>2. TypeOK
  BY DEF IInv, TableIsHandles
<1>3. \A b \in ConnIds : /\ handle'[b] = IF b = c THEN "freed" ELSE handle[b]
                         /\ unread'[b] = IF b = c THEN 0 ELSE unread[b]
  BY <1>1, <1>2 DEF TypeOK
<1>4. TypeOK'
  BY <1>1, <1>2 DEF TypeOK, worker, outcome
<1>5. TableIsHandles'
  BY <1>1, <1>3, <1>4 DEF IInv, TableIsHandles
<1>6. OwnedOnce'
  BY <1>1, OwnersStay DEF IInv
<1>7. Counted'
  <2>1. SUFFICES ASSUME NEW b \in ConnIds
                 PROVE  taken[b] + unread'[b] <= received[b] /\ received[b] <= Limit(b)
    BY <1>1 DEF Counted, Limit
  <2>2. /\ taken[b] \in Nat /\ unread[b] \in Nat /\ received[b] \in Nat
        /\ taken[b] + unread[b] <= received[b] /\ received[b] <= Limit(b)
    BY <1>2 DEF TypeOK, IInv, Counted
  <2>3. unread'[b] \in {0, unread[b]}
    BY <1>3
  <2>. QED
    BY <2>2, <2>3
<1>8. (NoRepeats /\ NewIsQuiet)'
  BY <1>1, <1>3 DEF IInv, NoRepeats, NewIsQuiet, worker
<1>9. \A s \in Requests : s.conn \in ConnIds
  BY DEF Requests
<1>10. AnswerCloses' /\ OneResponse' /\ PoliteCloseOnce'
  BY <1>1, <1>2, <1>3, <1>9
     DEF IInv, AnswerCloses, OneResponse, PoliteCloseOnce, TypeOK, outcome
<1>11. PoliteAnswered'
  BY <1>1, <1>3, <1>9 DEF IInv, PoliteAnswered, Dispatched, outcome
<1>. QED
  BY <1>5, <1>6, <1>7, <1>8, <1>10, <1>11 DEF IInv

-----------------------------------------------------------------------------
(* Theorems.                                                                *)

LEMMA InitServer == Init => IInv
<1>. SUFFICES ASSUME Init PROVE IInv
  OBVIOUS
<1>1. TypeOK
  BY EmptySeq DEF Init, TypeOK, ConnIds, Workers
<1>2. TableIsHandles
  BY <1>1 DEF Init, TableIsHandles
<1>3. NoRepeats
  BY EmptySeq DEF Init, NoRepeats, NoRepeat
<1>4. Dispatched = {}
  BY DEF Init, Dispatched, Requests
<1>5. OwnedOnce
  <2>1. SeqSet(<<>>) = {}
    BY EmptySeq DEF SeqSet
  <2>2. \A r \in Requests : Owners(r) = {}
    BY <2>1 DEF Init, Owners
  <2>. QED
    BY <1>4, <2>2 DEF OwnedOnce
<1>6. NewIsQuiet /\ Counted
  BY DEF Init, NewIsQuiet, Counted, Limit
<1>7. AnswerCloses /\ OneResponse /\ PoliteAnswered /\ PoliteCloseOnce
  BY <1>4 DEF Init, AnswerCloses, OneResponse, PoliteAnswered, PoliteCloseOnce
<1>. QED
  BY <1>2, <1>3, <1>5, <1>6, <1>7 DEF IInv

LEMMA StutterKeeps == IInv /\ UNCHANGED vars => IInv'
<1>. SUFFICES ASSUME IInv, UNCHANGED vars PROVE IInv'
  OBVIOUS
<1>1. OwnedOnce'
  BY OwnersStay DEF vars, IInv, worker, outcome
<1>2. (TableIsHandles /\ NoRepeats /\ NewIsQuiet /\ Counted)'
  BY DEF vars, IInv, TableIsHandles, TypeOK, NoRepeats, NewIsQuiet, Counted
<1>3. (AnswerCloses /\ OneResponse /\ PoliteAnswered /\ PoliteCloseOnce)'
  BY DEF vars, IInv, AnswerCloses, OneResponse, PoliteAnswered, PoliteCloseOnce, Dispatched
<1>. QED
  BY <1>1, <1>2, <1>3 DEF IInv

LEMMA NextKeepsServer == IInv /\ [Next]_vars => IInv'
<1>. SUFFICES ASSUME IInv, aborted = {}, Steps PROVE IInv'
  BY StutterKeeps DEF Next
<1>1. ASSUME NEW accepted \in BOOLEAN, OnNewConnection(accepted) PROVE IInv'
  BY <1>1, OnNewConnectionKeeps
<1>2. ASSUME NEW c \in ConnIds, NEW more \in 0 .. MaxRequests, OnTcpRead(c, more)
      PROVE  IInv'
  BY <1>2, OnTcpReadKeeps
<1>3. ASSUME NEW c \in ConnIds, OnTcpReadClose(c) PROVE IInv'
  BY <1>3, OnTcpReadCloseKeeps
<1>4. ASSUME NEW c \in ConnIds, OnTcpClose(c) PROVE IInv'
  BY <1>4, OnTcpCloseKeeps
<1>5. CASE TimeWheelTick
  BY <1>5, TimeWheelTickKeeps
<1>6. ASSUME NEW w \in Workers, SendTcpToClient(w) PROVE IInv'
  BY <1>6, SendTcpToClientKeeps
<1>7. ASSUME NEW w \in Workers, DispatchTcp(w) PROVE IInv'
  BY <1>7, DispatchTcpKeeps
<1>8. ASSUME NEW w \in Workers, CreateAndRun(w) PROVE IInv'
  BY <1>8, CreateAndRunKeeps
<1>9. ASSUME NEW w \in Workers, NEW r \in running[w], SendData(w, r) PROVE IInv'
  BY <1>9, SendDataKeeps
<1>. QED
  BY <1>1, <1>2, <1>3, <1>4, <1>5, <1>6, <1>7, <1>8, <1>9 DEF Steps

\* The invariant of the server: types and table, queues without repetition, one
\* owner, ids and counts, and what an answer does to its connection.
THEOREM ServerInvariant == Spec => []IInv
  BY InitServer, NextKeepsServer, PTL DEF Spec

\* A dispatched request and its buffers are with exactly one owner, from the
\* read that completes it until its answer is written or dropped.
THEOREM RequestsHaveOneOwner == Spec => []OneOwner
<1>1. IInv => OneOwner
  <2>1. SUFFICES ASSUME OwnedOnce, aborted = {}, NEW r \in Requests
                 PROVE  Cardinality(Owners(r)) = IF r \in Dispatched THEN 1 ELSE 0
    BY DEF IInv, OneOwner
  <2>2. CASE r \in Dispatched
    <3>1. PICK o \in Owners(r) : Owners(r) = {o}
      BY <2>1, <2>2 DEF OwnedOnce
    <3>2. Cardinality({o}) = 1
      BY FS_Singleton
    <3>. QED
      BY <2>2, <3>1, <3>2
  <2>3. CASE r \notin Dispatched
    BY <2>1, <2>3, FS_EmptySet DEF OwnedOnce
  <2>. QED
    BY <2>2, <2>3
<1>. QED
  BY ServerInvariant, <1>1, PTL

\* SendTcpToClient finds a live handle in the table, or no entry.
THEOREM TableKnowsHandles == Spec => []TableIsHandles
<1>1. IInv => TableIsHandles
  BY DEF IInv
<1>. QED
  BY ServerInvariant, <1>1, PTL

\* However its pipelined requests are answered, a connection carries at most
\* one response.
THEOREM ConnectionsAnswerOnce == Spec => []OneResponse
<1>1. IInv => OneResponse
  BY DEF IInv
<1>. QED
  BY ServerInvariant, <1>1, PTL

\* The handle of a client that sends one request and waits is closed once,
\* whatever all other clients do.
THEOREM PoliteClientsAreClosedOnce == Spec => []PoliteCloseOnce
<1>1. IInv => PoliteCloseOnce
  BY DEF IInv
<1>. QED
  BY ServerInvariant, <1>1, PTL
=============================================================================
