------------------------- MODULE HttpHandler_proofs --------------------------
(****************************************************************************)
(* Proofs about HttpHandler, for every set of requests and streams and for  *)
(* every size of the buffers.  Whatever the codec and the parser say,       *)
(* framing loses no byte, every handler gives exactly one answer, and no    *)
(* buffer is larger than the limit.  From what they do say: codec and       *)
(* parser agree, and a well-formed request gets the answer it calls for.    *)
(****************************************************************************)
EXTENDS HttpHandler, SequenceTheorems, WellFoundedInduction, TLAPS

-----------------------------------------------------------------------------
(* Recursion over the naturals, by least counterexamples.                   *)

\* A set of naturals that is not empty has a least element.
LEMMA LeastNatural ==
    ASSUME NEW T \in SUBSET Nat, T # {}
    PROVE  \E n \in T : \A m \in T : n <= m
<1>. DEFINE R == OpToRel(<, Nat)
<1>1. \A m, n \in Nat : m < n => <<m, n>> \in R
  BY DEF OpToRel
<1>2. IsWellFoundedOn(R, Nat)
  BY NatLessThanWellFounded
<1>. HIDE DEF R
<1>3. PICK n \in T : \A m \in T : <<m, n>> \notin R
  BY <1>2, WFMin
<1>4. \A m \in T : ~(m < n)
  BY <1>1, <1>3
<1>. QED
  BY <1>3, <1>4

\* What holds of zero and of each successor holds of every natural.
LEMMA NaturalInduction ==
    ASSUME NEW T, 0 \in T, \A n \in Nat : n \in T => n + 1 \in T
    PROVE  \A n \in Nat : n \in T
<1>. DEFINE rest == {n \in Nat : n \notin T}
<1>. SUFFICES ASSUME rest # {} PROVE FALSE
  OBVIOUS
<1>1. PICK n \in rest : \A m \in rest : n <= m
  BY LeastNatural
<1>2. n \in Nat /\ n # 0 /\ n - 1 \in Nat /\ n - 1 \notin rest
  BY <1>1
<1>3. (n - 1) + 1 \in T
  BY <1>2
<1>. QED
  BY <1>1, <1>2, <1>3

\* f starts with a and continues with g.
Iterates(f, a, g) == f[0] = a /\ \A n \in Nat : f[n + 1] = g[<<n, f[n]>>]

\* Such a function exists.
LEMMA IterationExists ==
    ASSUME NEW S, NEW a \in S, NEW g \in [Nat \X S -> S]
    PROVE  \E f \in [Nat -> S] : Iterates(f, a, g)
<1>. DEFINE Begins(f, n) ==
              /\ f \in [0 .. n -> S] /\ f[0] = a
              /\ \A m \in 0 .. (n - 1) : f[m + 1] = g[<<m, f[m]>>]
<1>1. \A n \in Nat : \E f : Begins(f, n)
  <2>. DEFINE T == {n \in Nat : \E f : Begins(f, n)}
  <2>1. 0 \in T
    <3>1. Begins([m \in 0 .. 0 |-> a], 0)
      OBVIOUS
    <3>. QED
      BY <3>1
  <2>2. ASSUME NEW n \in Nat, n \in T PROVE n + 1 \in T
    <3>1. PICK f : Begins(f, n)
      BY <2>2
    <3>. DEFINE h == [m \in 0 .. (n + 1) |-> IF m <= n THEN f[m] ELSE g[<<n, f[n]>>]]
    <3>2. f[n] \in S /\ g[<<n, f[n]>>] \in S
      BY <3>1
    <3>3. h \in [0 .. (n + 1) -> S] /\ h[0] = a
      BY <3>1, <3>2
    <3>4. ASSUME NEW m \in 0 .. n PROVE h[m + 1] = g[<<m, h[m]>>]
      <4>1. CASE m < n
        <5>1. m \in 0 .. (n - 1) /\ m + 1 \in 0 .. (n + 1) /\ m + 1 <= n
          BY <4>1
        <5>2. h[m + 1] = f[m + 1] /\ h[m] = f[m]
          BY <5>1
        <5>. QED
          BY <3>1, <5>1, <5>2
      <4>2. CASE m = n
        BY <4>2
      <4>. QED
        BY <4>1, <4>2
    <3>. HIDE DEF h
    <3>5. (n + 1) - 1 = n
      OBVIOUS
    <3>6. Begins(h, n + 1)
      BY <3>3, <3>4, <3>5
    <3>. QED
      BY <3>6
  <2>. HIDE DEF T
  <2>3. \A n \in Nat : n \in T
    BY <2>1, <2>2, NaturalInduction
  <2>. QED
    BY <2>3 DEF T
<1>2. ASSUME NEW n \in Nat, NEW m \in Nat, NEW f, NEW h, Begins(f, n), Begins(h, m)
      PROVE  \A k \in Nat : k <= n /\ k <= m => f[k] = h[k]
  <2>. DEFINE T == {k \in Nat : k <= n /\ k <= m => f[k] = h[k]}
  <2>1. 0 \in T
    BY <1>2
  <2>2. ASSUME NEW k \in Nat, k \in T PROVE k + 1 \in T
    <3>1. SUFFICES ASSUME k + 1 <= n, k + 1 <= m PROVE f[k + 1] = h[k + 1]
      OBVIOUS
    <3>2. k \in 0 .. (n - 1) /\ k \in 0 .. (m - 1) /\ f[k] = h[k]
      BY <2>2, <3>1
    <3>. QED
      BY <1>2, <3>2
  <2>. HIDE DEF T
  <2>3. \A k \in Nat : k \in T
    BY <2>1, <2>2, NaturalInduction
  <2>. QED
    BY <2>3 DEF T
<1>. DEFINE begin == [n \in Nat |-> CHOOSE f : Begins(f, n)]
            f == [n \in Nat |-> begin[n][n]]
<1>3. \A n \in Nat : Begins(begin[n], n)
  BY <1>1
<1>. HIDE DEF begin
<1>4. f \in [Nat -> S] /\ f[0] = a
  BY <1>3
<1>5. ASSUME NEW n \in Nat PROVE f[n + 1] = g[<<n, f[n]>>]
  <2>. DEFINE b == begin[n + 1]
  <2>1. n + 1 \in Nat /\ Begins(b, n + 1) /\ Begins(begin[n], n)
    BY <1>3
  <2>2. n \in 0 .. (n + 1 - 1) /\ b[n + 1] = g[<<n, b[n]>>]
    BY <2>1
  <2>. HIDE DEF b, Begins
  <2>3. \A k \in Nat : k <= n + 1 /\ k <= n => b[k] = begin[n][k]
    BY <1>2, <2>1
  <2>4. b[n] = begin[n][n]
    BY <2>3
  <2>. QED
    BY <2>2, <2>4 DEF b
<1>. QED
  BY <1>4, <1>5 DEF Iterates

\* The definition of PowerOfTwo has a solution, which is what it then is.
LEMMA PowerOfTwoIs ==
    PowerOfTwo = [k \in Nat |-> IF k = 0 THEN 1 ELSE 2 * PowerOfTwo[k - 1]]
<1>1. PICK g \in [Nat \X Nat -> Nat] : \A n, x \in Nat : g[<<n, x>>] = 2 * x
  <2>. WITNESS [p \in Nat \X Nat |-> 2 * p[2]] \in [Nat \X Nat -> Nat]
  <2>. QED
    OBVIOUS
<1>2. PICK f \in [Nat -> Nat] : Iterates(f, 1, g)
  <2>1. 1 \in Nat
    OBVIOUS
  <2>. QED
    BY <2>1, IterationExists, Zenon
<1>3. ASSUME NEW k \in Nat PROVE f[k] = IF k = 0 THEN 1 ELSE 2 * f[k - 1]
  <2>1. CASE k = 0
    BY <1>2, <2>1 DEF Iterates
  <2>2. CASE k # 0
    <3>1. k - 1 \in Nat /\ (k - 1) + 1 = k /\ f[k - 1] \in Nat
      BY <2>2
    <3>2. f[(k - 1) + 1] = g[<<k - 1, f[k - 1]>>]
      BY <1>2, <3>1 DEF Iterates
    <3>. QED
      BY <1>1, <2>2, <3>1, <3>2
  <2>. QED
    BY <2>1, <2>2
<1>4. f = [k \in Nat |-> IF k = 0 THEN 1 ELSE 2 * f[k - 1]]
  BY <1>3
<1>. QED
  BY <1>4 DEF PowerOfTwo

LEMMA PowerOfTwoGrows == \A k \in Nat : PowerOfTwo[k] \in Nat /\ PowerOfTwo[k] > k
<1>. DEFINE T == {k \in Nat : PowerOfTwo[k] \in Nat /\ PowerOfTwo[k] > k}
<1>1. 0 \in T
  BY PowerOfTwoIs
<1>2. ASSUME NEW k \in Nat, k \in T PROVE k + 1 \in T
  <2>1. k + 1 \in Nat /\ k + 1 # 0 /\ (k + 1) - 1 = k
    OBVIOUS
  <2>2. PowerOfTwo[k + 1] = 2 * PowerOfTwo[k]
    BY <2>1, PowerOfTwoIs
  <2>. QED
    BY <1>2, <2>2
<1>. HIDE DEF T
<1>3. \A k \in Nat : k \in T
  BY <1>1, <1>2, NaturalInduction
<1>. QED
  BY <1>3 DEF T

LEMMA ProductOfPositives == \A m, n \in Nat \ {0} : m * n \in Nat \ {0}
OBVIOUS

LEMMA ProductGrows == \A m \in Nat \ {0}, n, k \in Nat : n > k => m * n >= k
OBVIOUS

USE HttpHandlerAssumption

-----------------------------------------------------------------------------
(* Framing.                                                                 *)

\* Cutting a sequence in two and joining the parts gives it back.
LEMMA CutAndJoin ==
    ASSUME NEW S, NEW s \in Seq(S), NEW n \in 0 .. Len(s)
    PROVE  /\ SubSeq(s, 1, n) \in Seq(S)
           /\ SubSeq(s, n + 1, Len(s)) \in Seq(S)
           /\ SubSeq(s, 1, n) \o SubSeq(s, n + 1, Len(s)) = s
<1>1. Len(s) \in Nat /\ \A i \in 1 .. Len(s) : s[i] \in S
  BY LenProperties, ElementOfSeq
<1>2. SubSeq(s, 1, n) \in Seq(S)
  BY <1>1, SubSeqProperties
<1>3. SubSeq(s, n + 1, Len(s)) \in Seq(S)
  BY <1>1, SubSeqProperties
<1>4. SubSeq(s, 1, n) \o SubSeq(s, n + 1, Len(s)) = SubSeq(s, 1, Len(s))
  <2>1. /\ 1 \in 1 .. Len(s) + 1
        /\ n \in 1 - 1 .. Len(s)
        /\ Len(s) \in n .. Len(s)
    BY <1>1
  <2>. QED
    BY <2>1, ConcatAdjacentSubSeq, Zenon
<1>. QED
  BY <1>2, <1>3, <1>4, SubSeqFull

\* How three pieces of a stream are joined does not matter.
LEMMA JoinAssociative ==
    \A s, t, u \in Seq(Tokens) : (s \o t) \o u = s \o (t \o u)
<1>. SUFFICES ASSUME NEW s \in Seq(Tokens), NEW t \in Seq(Tokens), NEW u \in Seq(Tokens)
     PROVE  (s \o t) \o u = s \o (t \o u)
  OBVIOUS
<1>. QED
  BY ConcatAssociative

\* A read moves the first tokens of unsent behind those of inbox.
LEMMA ReadMovesTokens ==
    ASSUME BuffersOK, NEW n \in Nat, Read(n)
    PROVE  /\ Received(n) \in Seq(Tokens)
           /\ unsent' \in Seq(Tokens)
           /\ Received(n) \o unsent' = inbox \o unsent
<1>1. unsent \in Seq(Tokens) /\ inbox \in Seq(Tokens)
  BY DEF BuffersOK
<1>2. n \in 0 .. Len(unsent) /\ unsent' = SubSeq(unsent, n + 1, Len(unsent))
  BY <1>1, LenProperties DEF Read
<1>3. /\ SubSeq(unsent, 1, n) \in Seq(Tokens)
      /\ unsent' \in Seq(Tokens)
      /\ SubSeq(unsent, 1, n) \o unsent' = unsent
  BY <1>1, <1>2, CutAndJoin
<1>4. Received(n) \in Seq(Tokens)
  BY <1>1, <1>3, ConcatProperties DEF Received
<1>5. Received(n) \o unsent' = inbox \o (SubSeq(unsent, 1, n) \o unsent')
  BY <1>1, <1>3, JoinAssociative, Zenon DEF Received
<1>. QED
  BY <1>3, <1>4, <1>5

\* The reads that only move tokens: part of a request, or a header alone.
LEMMA ReadIntoInbox ==
    ASSUME BuffersOK, NoByteLost, NEW n \in Nat, Read(n),
           inbox' = Received(n), UNCHANGED <<stream, taken>>
    PROVE  BuffersOK' /\ NoByteLost'
<1>1. /\ stream \in Seq(Tokens) /\ taken \in Seq(Tokens)
      /\ inbox \in Seq(Tokens) /\ unsent \in Seq(Tokens)
  BY DEF BuffersOK
<1>2. /\ inbox' \in Seq(Tokens) /\ unsent' \in Seq(Tokens)
      /\ inbox' \o unsent' = inbox \o unsent
  BY ReadMovesTokens
<1>3. stream = taken \o (inbox \o unsent)
  BY <1>1, JoinAssociative DEF Read, NoByteLost
<1>4. taken \o (inbox' \o unsent') = (taken \o inbox') \o unsent'
  BY <1>1, <1>2, JoinAssociative
<1>. QED
  BY <1>1, <1>2, <1>3, <1>4 DEF BuffersOK, NoByteLost

\* The read that completes a request: what the codec counts leaves the buffer,
\* the rest is copied to the new one.
LEMMA ReadCutsRequest ==
    ASSUME BuffersOK, NoByteLost, NEW n \in Nat, ReadWhole(n)
    PROVE  BuffersOK' /\ NoByteLost'
<1>. DEFINE buf == Received(n)
            valid == IsComplete(buf)
            first == SubSeq(buf, 1, valid)
            rest == SubSeq(buf, valid + 1, Len(buf))
<1>1. /\ stream \in Seq(Tokens) /\ taken \in Seq(Tokens)
      /\ inbox \in Seq(Tokens) /\ unsent \in Seq(Tokens)
  BY DEF BuffersOK
<1>2. /\ Read(n) /\ valid \in 1 .. Len(buf)
      /\ inbox' = rest /\ taken' = taken \o first /\ stream' = stream
  BY DEF ReadWhole, Rest, client
<1>3. buf \in Seq(Tokens) /\ unsent' \in Seq(Tokens) /\ buf \o unsent' = inbox \o unsent
  BY <1>2, ReadMovesTokens
<1>4. valid \in 0 .. Len(buf)
  BY <1>2, <1>3, LenProperties
<1>. HIDE DEF buf, valid
<1>5. first \in Seq(Tokens) /\ rest \in Seq(Tokens) /\ first \o rest = buf
  BY <1>3, <1>4, CutAndJoin
<1>. HIDE DEF first, rest
<1>6. taken' \in Seq(Tokens) /\ inbox' \in Seq(Tokens)
  BY <1>1, <1>2, <1>5, ConcatProperties
<1>7. stream = taken \o (inbox \o unsent)
  BY <1>1, <1>2, JoinAssociative DEF Read, NoByteLost
<1>8. taken' \o inbox' = taken \o buf
  BY <1>1, <1>2, <1>5, JoinAssociative
<1>9. (taken \o buf) \o unsent' = taken \o (buf \o unsent')
  BY <1>1, <1>3, JoinAssociative
<1>. QED
  BY <1>1, <1>2, <1>3, <1>6, <1>7, <1>8, <1>9 DEF BuffersOK, NoByteLost

\* No step takes a token away from the connection, or gives it one twice.
LEMMA NextKeepsBytes ==
    ASSUME BuffersOK, NoByteLost, [Next]_vars
    PROVE  BuffersOK' /\ NoByteLost'
<1>1. ASSUME NEW n \in 0 .. SuggestedSize, ReadTooMuch(n)
      PROVE  BuffersOK' /\ NoByteLost'
  <2>1. Read(n) /\ UNCHANGED <<stream, inbox, taken>> /\ conn' = "closing"
    BY <1>1 DEF ReadTooMuch, client
  <2>2. unsent' \in Seq(Tokens)
    BY <2>1, ReadMovesTokens
  <2>. QED
    BY <2>1, <2>2 DEF BuffersOK, NoByteLost
<1>2. ASSUME NEW n \in 0 .. SuggestedSize, ReadPart(n)
      PROVE  BuffersOK' /\ NoByteLost'
  BY <1>2, ReadIntoInbox DEF ReadPart, client
<1>3. ASSUME NEW n \in 0 .. SuggestedSize, ReadWhole(n)
      PROVE  BuffersOK' /\ NoByteLost'
  BY <1>3, ReadCutsRequest
<1>4. ASSUME NEW n \in 0 .. SuggestedSize, ReadHeaderOnly(n) \/ ReadUninitialized(n)
      PROVE  BuffersOK' /\ NoByteLost'
  BY <1>4, ReadIntoInbox DEF ReadHeaderOnly, ReadUninitialized, client
<1>5. CASE OnTcpClose
  <2>1. inbox' = <<>> /\ conn' = "closed" /\ UNCHANGED <<stream, unsent, taken>>
    BY <1>5 DEF OnTcpClose, client
  <2>. QED
    BY <2>1, EmptySeq DEF BuffersOK, NoByteLost
<1>6. ASSUME NEW h \in DOMAIN jobs, SendTcpToClient(h)
      PROVE  BuffersOK' /\ NoByteLost'
  BY <1>6 DEF SendTcpToClient, client, buffers, BuffersOK, NoByteLost
<1>7. ASSUME NEW h \in DOMAIN jobs, OnStep(h) \/ CallbackDone(h)
      PROVE  BuffersOK' /\ NoByteLost'
  <2>1. UNCHANGED worker
    BY <1>7 DEF OnStep, CallbackDone, Start, DoParseTcpPackage, DoDispatchRequest,
                DoVerifyCallbackSetting, DoInvokeCallbackJobStart,
                DoInvokeCallbackJobFinish, Finish, Move, Respond
  <2>. QED
    BY <2>1 DEF worker, client, buffers, BuffersOK, NoByteLost
<1>8. CASE UNCHANGED vars
  BY <1>8 DEF vars, BuffersOK, NoByteLost
<1>. QED
  BY <1>1, <1>2, <1>3, <1>4, <1>5, <1>6, <1>7, <1>8 DEF Next, Steps, Framework, Reads

\* At first everything is still to come.
LEMMA InitBytes == Init => BuffersOK /\ NoByteLost
<1>1. SUFFICES ASSUME Init PROVE BuffersOK /\ NoByteLost
  OBVIOUS
<1>2. stream \in Seq(Tokens) /\ unsent = stream /\ inbox = <<>> /\ taken = <<>>
  BY <1>1 DEF Init
<1>3. <<>> \in Seq(Tokens) /\ <<>> \o <<>> = <<>> /\ <<>> \o stream = stream
  BY <1>2, EmptySeq, ConcatEmptySeq
<1>. QED
  BY <1>2, <1>3 DEF BuffersOK, NoByteLost

\* Framing neither loses nor repeats a byte, for every stream, every way the
\* network cuts it and every result of the codec that lies within the buffer.
THEOREM FramingKeepsBytes == Spec => []NoByteLost
<1>1. (BuffersOK /\ NoByteLost) /\ [Next]_vars => (BuffersOK /\ NoByteLost)'
  BY NextKeepsBytes
<1>. QED
  BY InitBytes, <1>1, PTL DEF Spec

-----------------------------------------------------------------------------
(* Answers.                                                                 *)

JobsOK == jobs \in Seq(HandlerJob)

\* AnsweredOnce, for one job.
AnsweredOk(job) ==
    /\ Len(job.answers) = IF job.phase \in {"kFinish", "kDone"} THEN 1 ELSE 0
    /\ job.sent <= Len(job.answers)

LEMMA AnsweredByJob == AnsweredOnce <=> \A h \in DOMAIN jobs : AnsweredOk(jobs[h])
  BY DEF AnsweredOnce, AnsweredOk

\* A step that changes one job keeps the invariant if it does for that job.
LEMMA OneJobChanges ==
    ASSUME JobsOK, AnsweredOnce, NEW h \in DOMAIN jobs, NEW job \in HandlerJob,
           AnsweredOk(job), jobs' = [jobs EXCEPT ![h] = job]
    PROVE  JobsOK' /\ AnsweredOnce'
<1>1. jobs \in Seq(HandlerJob) /\ h \in 1 .. Len(jobs) /\ DOMAIN jobs = 1 .. Len(jobs)
  BY LenProperties DEF JobsOK
<1>2. JobsOK'
  BY <1>1, ExceptSeq DEF JobsOK
<1>3. DOMAIN jobs' = DOMAIN jobs
  OBVIOUS
<1>4. \A k \in DOMAIN jobs : jobs'[k] = IF k = h THEN job ELSE jobs[k]
  BY <1>1
<1>5. \A k \in DOMAIN jobs : AnsweredOk(jobs'[k])
  BY <1>4, AnsweredByJob
<1>. QED
  BY <1>2, <1>3, <1>5 DEF AnsweredOnce, AnsweredOk

\* What is known of a job before a step of it.
LEMMA JobFacts ==
    ASSUME JobsOK, AnsweredOnce, NEW h \in DOMAIN jobs
    PROVE  jobs[h] \in HandlerJob /\ AnsweredOk(jobs[h])
<1>1. jobs[h] \in HandlerJob
  BY LenProperties, ElementOfSeq DEF JobsOK
<1>. QED
  BY <1>1, AnsweredByJob

\* A change of state that leaves out kFinish and kDone, on both sides or on none.
LEMMA MoveKeepsAnswers ==
    ASSUME JobsOK, AnsweredOnce, NEW h \in DOMAIN jobs, NEW phase \in Phases,
           phase \in {"kFinish", "kDone"} <=> jobs[h].phase \in {"kFinish", "kDone"},
           Move(h, phase)
    PROVE  JobsOK' /\ AnsweredOnce'
<1>. DEFINE job == [jobs[h] EXCEPT !.phase = phase]
<1>1. jobs[h] \in HandlerJob /\ AnsweredOk(jobs[h])
  BY JobFacts
<1>2. job \in HandlerJob /\ AnsweredOk(job)
  BY <1>1 DEF HandlerJob, AnsweredOk
<1>3. jobs' = [jobs EXCEPT ![h] = job]
  BY DEF Move
<1>. QED
  BY <1>2, <1>3, OneJobChanges

\* An answer, given in a state in which there is none yet.
LEMMA RespondKeepsAnswers ==
    ASSUME JobsOK, AnsweredOnce, NEW h \in DOMAIN jobs, NEW status \in Status,
           jobs[h].phase \notin {"kFinish", "kDone"}, Respond(h, status)
    PROVE  JobsOK' /\ AnsweredOnce'
<1>. DEFINE answers == Append(jobs[h].answers, status)
            job == [jobs[h] EXCEPT !.answers = answers, !.phase = "kFinish"]
<1>1. jobs[h] \in HandlerJob /\ AnsweredOk(jobs[h])
  BY JobFacts
<1>2. jobs[h].answers \in Seq(Status) /\ Len(jobs[h].answers) = 0
      /\ jobs[h].sent \in Nat /\ jobs[h].sent <= 0
  BY <1>1 DEF HandlerJob, AnsweredOk
<1>3. answers \in Seq(Status) /\ Len(answers) = 1
  BY <1>2, AppendProperties
<1>4. jobs' = [jobs EXCEPT ![h] = job]
  BY DEF Respond
<1>. HIDE DEF answers
<1>5. job \in HandlerJob /\ job.answers = answers /\ job.phase = "kFinish"
      /\ job.sent = jobs[h].sent
  BY <1>1, <1>3 DEF HandlerJob, Phases
<1>6. AnsweredOk(job)
  BY <1>2, <1>3, <1>5 DEF AnsweredOk
<1>. QED
  BY <1>4, <1>5, <1>6, OneJobChanges

\* The states of HttpHandlerJob::OnStep, one step each.
LEMMA OnStepKeepsAnswers ==
    ASSUME JobsOK, AnsweredOnce, NEW h \in DOMAIN jobs, OnStep(h)
    PROVE  JobsOK' /\ AnsweredOnce'
<1>. USE DEF In
<1>1. CASE Start(h)
  BY <1>1, MoveKeepsAnswers DEF Start, Phases
<1>2. CASE DoParseTcpPackage(h)
  <2>1. CASE UNCHANGED jobs
    BY <2>1 DEF JobsOK, AnsweredOnce
  <2>2. CASE Respond(h, "400")
    BY <1>2, <2>2, RespondKeepsAnswers DEF DoParseTcpPackage, Status
  <2>3. CASE Move(h, "kDispatchRequest")
    BY <1>2, <2>3, MoveKeepsAnswers DEF DoParseTcpPackage, Phases
  <2>. QED
    BY <1>2, <2>1, <2>2, <2>3 DEF DoParseTcpPackage
<1>3. CASE DoDispatchRequest(h)
  <2>1. CASE Respond(h, "400")
    BY <1>3, <2>1, RespondKeepsAnswers DEF DoDispatchRequest, Status
  <2>2. ASSUME NEW phase \in {"kInvokeCallbackJobStart", "kVerifyCallbackSetting"},
               Move(h, phase)
        PROVE  JobsOK' /\ AnsweredOnce'
    BY <1>3, <2>2, MoveKeepsAnswers DEF DoDispatchRequest, Phases
  <2>. QED
    BY <1>3, <2>1, <2>2 DEF DoDispatchRequest
<1>4. CASE DoVerifyCallbackSetting(h)
  <2>1. PICK status \in Status : Respond(h, status)
    BY <1>4 DEF DoVerifyCallbackSetting, Status
  <2>. QED
    BY <1>4, <2>1, RespondKeepsAnswers DEF DoVerifyCallbackSetting
<1>5. CASE DoInvokeCallbackJobStart(h)
  <2>1. ASSUME NEW status \in {"501", "400"}, Respond(h, status)
        PROVE  JobsOK' /\ AnsweredOnce'
    BY <1>5, <2>1, RespondKeepsAnswers DEF DoInvokeCallbackJobStart, Status
  <2>2. CASE jobs' = [jobs EXCEPT ![h].phase = "kInvokeCallbackJobFinish",
                                  ![h].callback = "running"]
    <3>. DEFINE job == [jobs[h] EXCEPT !.phase = "kInvokeCallbackJobFinish",
                                       !.callback = "running"]
    <3>1. jobs[h] \in HandlerJob /\ AnsweredOk(jobs[h])
      BY JobFacts
    <3>2. job \in HandlerJob /\ AnsweredOk(job)
      BY <1>5, <3>1 DEF HandlerJob, AnsweredOk, Phases, DoInvokeCallbackJobStart
    <3>3. jobs' = [jobs EXCEPT ![h] = job]
      BY <2>2
    <3>. QED
      BY <3>2, <3>3, OneJobChanges
  <2>. QED
    BY <1>5, <2>1, <2>2 DEF DoInvokeCallbackJobStart
<1>6. CASE DoInvokeCallbackJobFinish(h)
  <2>1. PICK status \in Status : Respond(h, status)
    BY <1>6 DEF DoInvokeCallbackJobFinish, Status
  <2>. QED
    BY <1>6, <2>1, RespondKeepsAnswers DEF DoInvokeCallbackJobFinish
<1>7. CASE Finish(h)
  BY <1>7, MoveKeepsAnswers DEF Finish, Phases
<1>. QED
  BY <1>1, <1>2, <1>3, <1>4, <1>5, <1>6, <1>7 DEF OnStep

\* Every step keeps the count of answers of every handler.
LEMMA NextKeepsAnswers ==
    ASSUME BuffersOK, JobsOK, AnsweredOnce, [Next]_vars
    PROVE  JobsOK' /\ AnsweredOnce'
<1>1. ASSUME NEW n \in 0 .. SuggestedSize, ReadWhole(n)
      PROVE  JobsOK' /\ AnsweredOnce'
  <2>. DEFINE job == NewJob(Received(n), IsComplete(Received(n)))
  <2>1. Read(n) /\ IsComplete(Received(n)) \in Nat /\ jobs' = Append(jobs, job)
    BY <1>1 DEF ReadWhole
  <2>2. Received(n) \in Seq(Tokens)
    BY <2>1, ReadMovesTokens
  <2>3. job \in HandlerJob /\ AnsweredOk(job)
    <3>1. <<>> \in Seq(Status) /\ Len(<<>>) = 0
      BY EmptySeq
    <3>. QED
      BY <2>1, <2>2, <3>1 DEF NewJob, HandlerJob, AnsweredOk, Phases
  <2>. HIDE DEF job
  <2>4. /\ JobsOK'
        /\ Len(jobs') = Len(jobs) + 1
        /\ \A h \in 1 .. Len(jobs) : jobs'[h] = jobs[h]
        /\ jobs'[Len(jobs) + 1] = job
    BY <2>1, <2>3, AppendProperties DEF JobsOK
  <2>5. DOMAIN jobs = 1 .. Len(jobs) /\ DOMAIN jobs' = 1 .. Len(jobs) + 1 /\ Len(jobs) \in Nat
    BY <2>4, LenProperties DEF JobsOK
  <2>6. \A h \in DOMAIN jobs' : AnsweredOk(jobs'[h])
    BY <2>3, <2>4, <2>5, AnsweredByJob
  <2>. QED
    BY <2>4, <2>6 DEF AnsweredOnce, AnsweredOk
<1>2. ASSUME NEW h \in DOMAIN jobs, SendTcpToClient(h)
      PROVE  JobsOK' /\ AnsweredOnce'
  <2>. DEFINE job == [jobs[h] EXCEPT !.sent = @ + 1]
  <2>1. jobs[h] \in HandlerJob /\ AnsweredOk(jobs[h])
    BY JobFacts
  <2>2. Len(jobs[h].answers) \in Nat
    BY <2>1, LenProperties DEF HandlerJob
  <2>3. job \in HandlerJob /\ AnsweredOk(job)
    BY <1>2, <2>1, <2>2 DEF HandlerJob, AnsweredOk, SendTcpToClient
  <2>4. jobs' = [jobs EXCEPT ![h] = job]
    BY <1>2 DEF SendTcpToClient
  <2>. QED
    BY <2>3, <2>4, OneJobChanges
<1>3. ASSUME NEW h \in DOMAIN jobs, OnStep(h)
      PROVE  JobsOK' /\ AnsweredOnce'
  BY <1>3, OnStepKeepsAnswers
<1>4. ASSUME NEW h \in DOMAIN jobs, CallbackDone(h)
      PROVE  JobsOK' /\ AnsweredOnce'
  <2>1. PICK outcome \in {"replied", "silent"} :
            jobs' = [jobs EXCEPT ![h].callback = outcome]
    BY <1>4 DEF CallbackDone
  <2>. DEFINE job == [jobs[h] EXCEPT !.callback = outcome]
  <2>2. jobs[h] \in HandlerJob /\ AnsweredOk(jobs[h])
    BY JobFacts
  <2>3. job \in HandlerJob /\ AnsweredOk(job)
    BY <2>2 DEF HandlerJob, AnsweredOk
  <2>4. jobs' = [jobs EXCEPT ![h] = job]
    BY <2>1
  <2>. QED
    BY <2>3, <2>4, OneJobChanges
<1>5. CASE UNCHANGED jobs
  BY <1>5 DEF JobsOK, AnsweredOnce
<1>6. ASSUME NEW n \in 0 .. SuggestedSize, Reads(n)
      PROVE  ReadWhole(n) \/ UNCHANGED jobs
  BY <1>6 DEF Reads, ReadTooMuch, ReadPart, ReadHeaderOnly, ReadUninitialized
<1>7. OnTcpClose \/ UNCHANGED vars => UNCHANGED jobs
  BY DEF OnTcpClose, vars
<1>. QED
  BY <1>1, <1>2, <1>3, <1>4, <1>5, <1>6, <1>7 DEF Next, Steps, Framework

\* Exactly one response for every dispatched request, from every state of the
\* handler in which it can end, and no response processed twice.
THEOREM HandlersAnswerOnce == Spec => []AnsweredOnce
<1>1. Init => JobsOK /\ AnsweredOnce
  BY EmptySeq DEF Init, JobsOK, AnsweredOnce
<1>2. Init => BuffersOK /\ NoByteLost
  BY InitBytes
<1>3. (BuffersOK /\ NoByteLost /\ JobsOK /\ AnsweredOnce) /\ [Next]_vars
      => (BuffersOK /\ NoByteLost /\ JobsOK /\ AnsweredOnce)'
  BY NextKeepsBytes, NextKeepsAnswers
<1>. QED
  BY <1>1, <1>2, <1>3, PTL DEF Spec

-----------------------------------------------------------------------------
(* The receive buffer.                                                      *)

\* Doubling ends, with room for what is needed.
LEMMA DoubledHolds ==
    ASSUME NEW cap \in Nat \ {0}, NEW needed \in Nat
    PROVE  Doubled(cap, needed) \in Nat \ {0} /\ Doubled(cap, needed) >= needed
<1>. DEFINE large == {c \in {cap * PowerOfTwo[k] : k \in 0 .. needed} : c >= needed}
<1>1. \A k \in 0 .. needed : cap * PowerOfTwo[k] \in Nat \ {0}
  <2>. SUFFICES ASSUME NEW k \in 0 .. needed PROVE cap * PowerOfTwo[k] \in Nat \ {0}
    OBVIOUS
  <2>1. PowerOfTwo[k] \in Nat \ {0}
    BY PowerOfTwoGrows
  <2>. HIDE DEF large
  <2>. QED
    BY <2>1, ProductOfPositives
<1>2. cap * PowerOfTwo[needed] >= needed
  <2>1. PowerOfTwo[needed] \in Nat /\ PowerOfTwo[needed] > needed
    BY PowerOfTwoGrows
  <2>. QED
    BY <2>1, ProductGrows
<1>3. large \in SUBSET Nat /\ large # {}
  BY <1>1, <1>2
<1>4. \A c \in large : c \in Nat \ {0} /\ c >= needed
  BY <1>1
<1>. HIDE DEF large
<1>5. \E c \in large : \A d \in large : c <= d
  BY <1>3, LeastNatural
<1>6. Min(large) \in large
  BY <1>5 DEF Min
<1>. QED
  BY <1>4, <1>6 DEF Doubled, large

\* The capacity is never zero, or doubling it would not end.
Sized ==
    /\ capacity \in Nat \ {0}
    /\ WithinLimit

\* The buffer that a read fills has room for it.
LEMMA GrownHolds ==
    ASSUME BuffersOK, Sized, NEW n \in Nat, Read(n)
    PROVE  /\ Grown \in Nat \ {0}
           /\ Received(n) \in Seq(Tokens)
           /\ Len(Received(n)) <= Grown
<1>1. inbox \in Seq(Tokens) /\ unsent \in Seq(Tokens) /\ Len(inbox) \in Nat
  BY LenProperties DEF BuffersOK
<1>2. n \in 0 .. SuggestedSize /\ n \in 0 .. Len(unsent) /\ Len(inbox) <= capacity
  BY <1>1, LenProperties DEF Read, Sized, WithinLimit
<1>3. /\ SubSeq(unsent, 1, n) \in Seq(Tokens)
      /\ Len(SubSeq(unsent, 1, n)) = n
  BY <1>1, <1>2, SubSeqProperties, LenProperties
<1>4. Received(n) \in Seq(Tokens) /\ Len(Received(n)) = Len(inbox) + n
  BY <1>1, <1>3, ConcatProperties DEF Received
<1>5. Len(inbox) + SuggestedSize \in Nat
  BY <1>1
<1>6. /\ Doubled(capacity, Len(inbox) + SuggestedSize) \in Nat \ {0}
      /\ Doubled(capacity, Len(inbox) + SuggestedSize) >= Len(inbox) + SuggestedSize
  BY <1>5, DoubledHolds DEF Sized
<1>. QED
  BY <1>1, <1>2, <1>4, <1>6 DEF Grown, Allocate, Sized

\* What the handlers have been given stays as it is.
SamePackages ==
    /\ DOMAIN jobs' = DOMAIN jobs
    /\ \A h \in DOMAIN jobs :
          jobs'[h].package = jobs[h].package /\ jobs'[h].valid = jobs[h].valid

LEMMA EditKeepsPackages ==
    ASSUME NEW h \in DOMAIN jobs, NEW job,
           job.package = jobs[h].package, job.valid = jobs[h].valid,
           jobs' = [jobs EXCEPT ![h] = job]
    PROVE  SamePackages
  BY DEF SamePackages

\* Only a read that completes a request adds a buffer, and none changes one.
LEMMA StepsKeepPackages ==
    ASSUME JobsOK, NEW h \in DOMAIN jobs,
           OnStep(h) \/ CallbackDone(h) \/ SendTcpToClient(h)
    PROVE  SamePackages
<1>1. jobs[h] \in HandlerJob
  BY LenProperties, ElementOfSeq DEF JobsOK
<1>2. CASE UNCHANGED jobs
  BY <1>2 DEF SamePackages
<1>3. ASSUME NEW phase, Move(h, phase) PROVE SamePackages
  <2>1. jobs' = [jobs EXCEPT ![h] = [jobs[h] EXCEPT !.phase = phase]]
    BY <1>3 DEF Move
  <2>. QED
    BY <1>1, <2>1, EditKeepsPackages DEF HandlerJob
<1>4. ASSUME NEW status, Respond(h, status) PROVE SamePackages
  <2>1. jobs' = [jobs EXCEPT ![h] = [jobs[h] EXCEPT
                    !.answers = Append(jobs[h].answers, status), !.phase = "kFinish"]]
    BY <1>4 DEF Respond
  <2>. QED
    BY <1>1, <2>1, EditKeepsPackages DEF HandlerJob
<1>5. CASE jobs' = [jobs EXCEPT ![h].phase = "kInvokeCallbackJobFinish",
                                ![h].callback = "running"]
  <2>1. jobs' = [jobs EXCEPT ![h] = [jobs[h] EXCEPT
                    !.phase = "kInvokeCallbackJobFinish", !.callback = "running"]]
    BY <1>5
  <2>. QED
    BY <1>1, <2>1, EditKeepsPackages DEF HandlerJob
<1>6. CASE OnStep(h)
  BY <1>2, <1>3, <1>4, <1>5, <1>6
     DEF OnStep, Start, DoParseTcpPackage, DoDispatchRequest, DoVerifyCallbackSetting,
         DoInvokeCallbackJobStart, DoInvokeCallbackJobFinish, Finish
<1>7. CASE CallbackDone(h)
  <2>1. PICK outcome : jobs' = [jobs EXCEPT ![h] = [jobs[h] EXCEPT !.callback = outcome]]
    BY <1>7 DEF CallbackDone
  <2>. QED
    BY <1>1, <2>1, EditKeepsPackages DEF HandlerJob
<1>8. CASE SendTcpToClient(h)
  <2>1. jobs' = [jobs EXCEPT ![h] = [jobs[h] EXCEPT !.sent = @ + 1]]
    BY <1>8 DEF SendTcpToClient
  <2>. QED
    BY <1>1, <2>1, EditKeepsPackages DEF HandlerJob
<1>. QED
  BY <1>6, <1>7, <1>8

\* The packages, and the sizes they have.
LEMMA StepsKeepSizes ==
    ASSUME Sized, JobsOK, JobsOK', SamePackages, UNCHANGED <<inbox, capacity>>,
           conn' = "open" => conn = "open"
    PROVE  Sized'
  BY DEF Sized, WithinLimit, SamePackages, JobsOK

\* No step makes a buffer larger than its room or than the limit.
LEMMA NextKeepsSizes ==
    ASSUME BuffersOK, JobsOK, JobsOK', Sized, [Next]_vars
    PROVE  Sized'
<1>1. /\ capacity \in Nat \ {0} /\ inbox \in Seq(Tokens)
      /\ conn = "open" => Len(inbox) <= capacity /\ Len(inbox) <= MaxRecvBuffLength
      /\ \A h \in DOMAIN jobs : Len(jobs[h].package) <= MaxRecvBuffLength
  BY DEF Sized, WithinLimit, BuffersOK
<1>2. ASSUME NEW n \in 0 .. SuggestedSize, ReadTooMuch(n) PROVE Sized'
  <2>1. Grown \in Nat \ {0}
    BY <1>2, GrownHolds DEF ReadTooMuch
  <2>2. capacity' = Grown /\ conn' = "closing" /\ jobs' = jobs
    BY <1>2 DEF ReadTooMuch
  <2>. QED
    BY <1>1, <2>1, <2>2 DEF Sized, WithinLimit, JobsOK
<1>3. ASSUME NEW n \in 0 .. SuggestedSize,
             ReadPart(n) \/ ReadHeaderOnly(n) \/ ReadUninitialized(n)
      PROVE  Sized'
  <2>1. /\ Grown \in Nat \ {0} /\ Len(Received(n)) <= Grown
        /\ Received(n) \in Seq(Tokens)
    BY <1>3, GrownHolds DEF ReadPart, ReadHeaderOnly, ReadUninitialized
  <2>2. /\ Grown <= MaxRecvBuffLength
        /\ capacity' = Grown /\ inbox' = Received(n) /\ jobs' = jobs
    BY <1>3 DEF ReadPart, ReadHeaderOnly, ReadUninitialized
  <2>3. Len(Received(n)) \in Nat
    BY <2>1, LenProperties
  <2>. QED
    BY <1>1, <2>1, <2>2, <2>3 DEF Sized, WithinLimit, JobsOK
<1>4. ASSUME NEW n \in 0 .. SuggestedSize, ReadWhole(n) PROVE Sized'
  <2>1. /\ Grown \in Nat \ {0} /\ Len(Received(n)) <= Grown
        /\ Received(n) \in Seq(Tokens)
    BY <1>4, GrownHolds DEF ReadWhole
  <2>2. PICK valid \in 1 .. Len(Received(n)) :
          /\ jobs' = Append(jobs, NewJob(Received(n), valid))
          /\ inbox' = SubSeq(Received(n), valid + 1, Len(Received(n)))
    BY <1>4 DEF ReadWhole, Rest
  <2>3. Grown <= MaxRecvBuffLength /\ capacity' = Doubled(InitialSize, Len(inbox'))
    BY <1>4 DEF ReadWhole
  <2>4. Len(Received(n)) \in Nat
    BY <2>1, LenProperties
  <2>5. Len(inbox') \in Nat /\ Len(inbox') <= Len(Received(n))
    BY <2>1, <2>2, <2>4, SubSeqProperties
  <2>6. capacity' \in Nat \ {0} /\ capacity' >= Len(inbox')
    BY <2>3, <2>5, DoubledHolds
  <2>7. NewJob(Received(n), valid).package = Received(n)
    BY DEF NewJob
  <2>8. \A h \in DOMAIN jobs' : Len(jobs'[h].package) <= MaxRecvBuffLength
    <3>. SUFFICES ASSUME NEW h \in DOMAIN jobs'
         PROVE  Len(jobs'[h].package) <= MaxRecvBuffLength
      OBVIOUS
    <3>1. DOMAIN jobs = 1 .. Len(jobs) /\ DOMAIN jobs' = 1 .. Len(jobs) + 1 /\ Len(jobs) \in Nat
      BY <2>2, LenProperties, AppendProperties DEF JobsOK
    <3>2. \/ h \in DOMAIN jobs /\ jobs'[h] = jobs[h]
          \/ jobs'[h] = NewJob(Received(n), valid)
      BY <2>2, <3>1 DEF JobsOK
    <3>3. CASE h \in DOMAIN jobs /\ jobs'[h] = jobs[h]
      BY <1>1, <3>3
    <3>4. CASE jobs'[h] = NewJob(Received(n), valid)
      BY <2>1, <2>3, <2>4, <2>7, <3>4
    <3>. QED
      BY <3>2, <3>3, <3>4
  <2>. QED
    BY <2>1, <2>3, <2>4, <2>5, <2>6, <2>8 DEF Sized, WithinLimit, JobsOK
<1>5. CASE OnTcpClose
  <2>1. conn' = "closed" /\ UNCHANGED <<jobs, capacity>>
    BY <1>5 DEF OnTcpClose
  <2>. QED
    BY <1>1, <2>1 DEF Sized, WithinLimit, JobsOK
<1>6. ASSUME NEW h \in DOMAIN jobs, OnStep(h) \/ CallbackDone(h) \/ SendTcpToClient(h)
      PROVE  Sized'
  <2>1. SamePackages
    BY <1>6, StepsKeepPackages
  <2>2. CASE SendTcpToClient(h)
    BY <2>1, <2>2, StepsKeepSizes DEF SendTcpToClient, client, buffers
  <2>3. CASE OnStep(h) \/ CallbackDone(h)
    <3>1. UNCHANGED worker
      BY <2>3 DEF OnStep, CallbackDone, Start, DoParseTcpPackage, DoDispatchRequest,
                  DoVerifyCallbackSetting, DoInvokeCallbackJobStart,
                  DoInvokeCallbackJobFinish, Finish, Move, Respond
    <3>. QED
      BY <2>1, <3>1, StepsKeepSizes DEF worker, client, buffers
  <2>. QED
    BY <1>6, <2>2, <2>3
<1>7. CASE UNCHANGED vars
  BY <1>7 DEF vars, Sized, WithinLimit
<1>. QED
  BY <1>2, <1>3, <1>4, <1>5, <1>6, <1>7 DEF Next, Steps, Framework, Reads

\* The limit, although it is compared with the capacity before a read: neither
\* a buffer of the main thread nor one of a handler is larger, for every way the
\* network cuts the stream and every result of the codec.
THEOREM BuffersKeepTheLimit == Spec => []WithinLimit
<1>. DEFINE Inv == BuffersOK /\ NoByteLost /\ JobsOK /\ AnsweredOnce /\ Sized
<1>1. Init => Inv
  <2>. SUFFICES ASSUME Init PROVE Inv
    OBVIOUS
  <2>1. BuffersOK /\ NoByteLost
    BY InitBytes
  <2>2. jobs = <<>> /\ inbox = <<>> /\ capacity = InitialSize
    BY DEF Init
  <2>3. JobsOK /\ AnsweredOnce /\ Len(inbox) = 0
    BY <2>2, EmptySeq DEF JobsOK, AnsweredOnce
  <2>. QED
    BY <2>1, <2>2, <2>3 DEF Sized, WithinLimit, JobsOK
<1>2. Inv /\ [Next]_vars => Inv'
  <2>. SUFFICES ASSUME Inv, [Next]_vars PROVE Inv'
    OBVIOUS
  <2>1. BuffersOK' /\ NoByteLost'
    BY NextKeepsBytes
  <2>2. JobsOK' /\ AnsweredOnce'
    BY NextKeepsAnswers
  <2>. QED
    BY <2>1, <2>2, NextKeepsSizes
<1>3. Inv => WithinLimit
  BY DEF Sized
<1>. QED
  BY <1>1, <1>2, <1>3, PTL DEF Spec

-----------------------------------------------------------------------------
(* The text of a request.                                                   *)

\* The length of the header, with the empty line at its end.
Header(r) == 3 + (IF r.named THEN 2 ELSE 0) + (IF r.length = NoLength THEN 0 ELSE 2)

TokenAt(r, i) ==
    IF i = 1 THEN Line(r)
    ELSE IF r.named /\ i = 3 THEN Field
    ELSE IF r.length # NoLength /\ i = Header(r) - 2 THEN LengthField(r.length)
    ELSE IF i <= Header(r) THEN CRLF
    ELSE Data

LEMMA HeaderIsNatural ==
    ASSUME NEW r \in Request
    PROVE  /\ Header(r) \in {3, 5, 7} /\ r.body \in Nat /\ r.named \in BOOLEAN
           /\ r.named => Header(r) \in {5, 7}
           /\ r.length # NoLength => Header(r) \in {5, 7}
           /\ r.named /\ r.length # NoLength => Header(r) = 7
<1>1. r.named \in BOOLEAN /\ r.body \in Nat
  BY DEF Request
<1>. QED
  BY <1>1 DEF Header

\* Encode, position by position.
LEMMA EncodeIs ==
    ASSUME NEW r \in Request
    PROVE  /\ Encode(r) \in Seq({Line(r), CRLF, Field, LengthField(r.length), Data})
           /\ Len(Encode(r)) = Header(r) + r.body
           /\ \A i \in 1 .. Header(r) + r.body : Encode(r)[i] = TokenAt(r, i)
<1>. DEFINE S == {Line(r), CRLF, Field, LengthField(r.length), Data}
            line == <<Line(r), CRLF>>
            field == line \o (IF r.named THEN <<Field, CRLF>> ELSE <<>>)
            length == field \o (IF r.length = NoLength THEN <<>>
                                ELSE <<LengthField(r.length), CRLF>>)
            head == length \o <<CRLF>>
            body == [i \in 1 .. r.body |-> Data]
            H == Header(r)
<1>. r.named \in BOOLEAN /\ r.body \in Nat
  BY DEF Request
<1>1. /\ Line(r) \in S /\ CRLF \in S /\ Field \in S /\ LengthField(r.length) \in S
      /\ Data \in S /\ line \in Seq(S) /\ Len(line) = 2 /\ line[1] = Line(r) /\ line[2] = CRLF
  OBVIOUS
<1>2. body \in Seq(S) /\ Len(body) = r.body /\ \A i \in 1 .. r.body : body[i] = Data
  OBVIOUS
<1>3. Encode(r) = head \o body
  BY DEF Encode
<1>. HIDE DEF S, line
<1>4. /\ field \in Seq(S) /\ Len(field) = IF r.named THEN 4 ELSE 2
      /\ field[1] = Line(r) /\ field[2] = CRLF
      /\ r.named => field[3] = Field /\ field[4] = CRLF
  <2>1. CASE r.named
    <3>. DEFINE two == <<Field, CRLF>>
    <3>1. field = line \o two
      BY <2>1
    <3>2. two \in Seq(S) /\ Len(two) = 2 /\ two[1] = Field /\ two[2] = CRLF
      BY <1>1
    <3>. HIDE DEF two, field
    <3>3. /\ line \o two \in Seq(S)
          /\ Len(line \o two) = Len(line) + Len(two)
          /\ \A i \in 1 .. Len(line) + Len(two) :
                (line \o two)[i] = IF i <= Len(line) THEN line[i] ELSE two[i - Len(line)]
      BY <1>1, <3>2, ConcatProperties
    <3>. QED
      BY <1>1, <2>1, <3>1, <3>2, <3>3
  <2>2. CASE ~r.named
    <3>1. field = line
      BY <1>1, <2>2, ConcatEmptySeq
    <3>. QED
      BY <1>1, <2>2, <3>1
  <2>. QED
    BY <2>1, <2>2
<1>. HIDE DEF field
<1>5. /\ length \in Seq(S) /\ Len(length) = H - 1
      /\ \A i \in 1 .. Len(field) : length[i] = field[i]
      /\ r.length # NoLength => length[H - 2] = LengthField(r.length) /\ length[H - 1] = CRLF
  <2>1. CASE r.length # NoLength
    <3>. DEFINE two == <<LengthField(r.length), CRLF>>
    <3>1. length = field \o two
      BY <2>1
    <3>2. /\ two \in Seq(S) /\ Len(two) = 2
          /\ two[1] = LengthField(r.length) /\ two[2] = CRLF
      BY <1>1
    <3>3. Len(field) \in Nat /\ Len(field) + 2 = H - 1 /\ Len(field) + 1 = H - 2
      BY <1>4, <2>1 DEF Header
    <3>. HIDE DEF two, length
    <3>4. /\ field \o two \in Seq(S)
          /\ Len(field \o two) = Len(field) + Len(two)
          /\ \A i \in 1 .. Len(field) + Len(two) :
                (field \o two)[i] = IF i <= Len(field) THEN field[i] ELSE two[i - Len(field)]
      BY <1>4, <3>2, ConcatProperties
    <3>5. length[H - 2] = two[1] /\ length[H - 1] = two[2]
      BY <3>1, <3>2, <3>3, <3>4
    <3>. QED
      BY <1>4, <3>1, <3>2, <3>3, <3>4, <3>5
  <2>2. CASE r.length = NoLength
    <3>1. length = field
      BY <1>4, <2>2, ConcatEmptySeq
    <3>2. Len(field) = H - 1
      BY <1>4, <2>2 DEF Header
    <3>. QED
      BY <1>4, <2>2, <3>1, <3>2
  <2>. QED
    BY <2>1, <2>2
<1>. HIDE DEF length
<1>6. H \in {3, 5, 7}
  BY HeaderIsNatural
<1>7. /\ head \in Seq(S) /\ Len(head) = H
      /\ \A i \in 1 .. H - 1 : head[i] = length[i]
      /\ head[H] = CRLF
  <2>1. <<CRLF>> \in Seq(S) /\ Len(<<CRLF>>) = 1 /\ <<CRLF>>[1] = CRLF
    BY <1>1
  <2>. QED
    BY <1>5, <1>6, <2>1, ConcatProperties
<1>. HIDE DEF head, body
<1>8. \A i \in 1 .. H : head[i] = TokenAt(r, i)
  <2>1. CASE r.named /\ r.length # NoLength
    <3>1. H = 7
      BY <2>1 DEF Header
    <3>. QED
      BY <1>4, <1>5, <1>7, <2>1, <3>1 DEF TokenAt
  <2>2. CASE r.named /\ r.length = NoLength
    <3>1. H = 5
      BY <2>2 DEF Header
    <3>. QED
      BY <1>4, <1>5, <1>7, <2>2, <3>1 DEF TokenAt
  <2>3. CASE ~r.named /\ r.length # NoLength
    <3>1. H = 5
      BY <2>3 DEF Header
    <3>. QED
      BY <1>4, <1>5, <1>7, <2>3, <3>1 DEF TokenAt
  <2>4. CASE ~r.named /\ r.length = NoLength
    <3>1. H = 3
      BY <2>4 DEF Header
    <3>. QED
      BY <1>4, <1>5, <1>7, <2>4, <3>1 DEF TokenAt
  <2>. QED
    BY <2>1, <2>2, <2>3, <2>4
<1>9. /\ head \o body \in Seq(S)
      /\ Len(head \o body) = H + r.body
      /\ \A i \in 1 .. H : (head \o body)[i] = head[i]
      /\ \A i \in H + 1 .. H + r.body : (head \o body)[i] = body[i - H]
  BY <1>2, <1>6, <1>7, ConcatProperties
<1>10. ASSUME NEW i \in H + 1 .. H + r.body PROVE (head \o body)[i] = TokenAt(r, i)
  <2>1. i - H \in 1 .. r.body /\ i > H
    BY <1>6
  <2>2. (head \o body)[i] = Data
    BY <1>2, <1>9, <2>1
  <2>3. TokenAt(r, i) = Data
    <3>1. r.named => H >= 5
      BY <1>6 DEF Header
    <3>. QED
      BY <1>6, <2>1, <3>1 DEF TokenAt
  <2>. QED
    BY <2>2, <2>3
<1>. QED
  BY <1>3, <1>6, <1>8, <1>9, <1>10 DEF S

\* Where the tokens are that the code looks for.
LEMMA TokenKinds ==
    ASSUME NEW r \in Request, NEW i \in 1 .. Header(r) + r.body
    PROVE  /\ TokenAt(r, i) = CRLF <=> \/ i \in {2, Header(r)}
                                       \/ r.named /\ i = 4
                                       \/ r.length # NoLength /\ i = Header(r) - 1
           /\ TokenAt(r, i).kind = "length" <=> r.length # NoLength /\ i = Header(r) - 2
           /\ TokenAt(r, i).kind = "line" <=> i = 1
<1>1. /\ Line(r).kind = "line" /\ Field.kind = "field" /\ CRLF.kind = "crlf"
      /\ Data.kind = "data" /\ LengthField(r.length).kind = "length"
  BY DEF Line, Field, CRLF, Data, LengthField
<1>2. Header(r) \in {3, 5, 7} /\ r.body \in Nat /\ r.named \in BOOLEAN
  BY HeaderIsNatural DEF Request
<1>3. /\ r.named /\ r.length # NoLength => Header(r) = 7
      /\ r.named /\ r.length = NoLength => Header(r) = 5
      /\ ~r.named /\ r.length # NoLength => Header(r) = 5
      /\ ~r.named /\ r.length = NoLength => Header(r) = 3
  BY <1>2 DEF Header
<1>. DEFINE t == TokenAt(r, i)
<1>4. /\ i = 1 => t = Line(r)
      /\ r.named /\ i = 3 => t = Field
      /\ r.length # NoLength /\ i = Header(r) - 2 => t = LengthField(r.length)
      /\ i \in {2, Header(r)} \/ (r.named /\ i = 4) \/ (r.length # NoLength /\ i = Header(r) - 1)
            => t = CRLF
      /\ i > Header(r) => t = Data
  BY <1>2, <1>3 DEF TokenAt
<1>5. \/ i = 1 \/ (r.named /\ i = 3) \/ (r.length # NoLength /\ i = Header(r) - 2)
      \/ i \in {2, Header(r)} \/ (r.named /\ i = 4) \/ (r.length # NoLength /\ i = Header(r) - 1)
      \/ i > Header(r)
  BY <1>2, <1>3
<1>. HIDE DEF t
<1>6. /\ t = CRLF <=> \/ i \in {2, Header(r)}
                      \/ r.named /\ i = 4
                      \/ r.length # NoLength /\ i = Header(r) - 1
      /\ t.kind = "length" <=> r.length # NoLength /\ i = Header(r) - 2
      /\ t.kind = "line" <=> i = 1
  <2>1. CASE i = 1
    BY <1>1, <1>2, <1>3, <1>4, <2>1
  <2>2. CASE r.named /\ i = 3
    BY <1>1, <1>2, <1>3, <1>4, <2>2
  <2>3. CASE r.length # NoLength /\ i = Header(r) - 2
    BY <1>1, <1>2, <1>3, <1>4, <2>3
  <2>4. CASE \/ i \in {2, Header(r)} \/ (r.named /\ i = 4)
             \/ (r.length # NoLength /\ i = Header(r) - 1)
    BY <1>1, <1>2, <1>3, <1>4, <2>4
  <2>5. CASE i > Header(r)
    BY <1>1, <1>2, <1>3, <1>4, <2>5
  <2>. QED
    BY <1>5, <2>1, <2>2, <2>3, <2>4, <2>5
<1>. QED
  BY <1>6 DEF t

\* What First finds.
LEMMA FirstIs ==
    ASSUME NEW S, NEW x \in Nat \ {0}, S \in SUBSET (Nat \ {0})
    PROVE  /\ First({}) = 0
           /\ x \in S /\ (\A y \in S : x <= y) => First(S) = x
           /\ S # {} => First(S) \in S /\ \A y \in S : First(S) <= y
<1>1. S # {} => First(S) \in S /\ \A y \in S : First(S) <= y
  <2>. SUFFICES ASSUME S # {} PROVE First(S) \in S /\ \A y \in S : First(S) <= y
    OBVIOUS
  <2>1. \E n \in S : \A m \in S : n <= m
    BY LeastNatural
  <2>. QED
    BY <2>1 DEF First, Min
<1>2. ASSUME x \in S, \A y \in S : x <= y PROVE First(S) = x
  <2>1. First(S) \in S /\ First(S) <= x
    BY <1>1, <1>2
  <2>2. First(S) \in Nat /\ x <= First(S)
    BY <1>2, <2>1
  <2>. QED
    BY <2>1, <2>2
<1>. QED
  BY <1>1, <1>2 DEF First

LEMMA FirstFinds ==
    ASSUME NEW S \in SUBSET (Nat \ {0})
    PROVE  /\ First(S) \in Nat
           /\ First(S) # 0 => First(S) \in S /\ \A y \in S : First(S) <= y
<1>1. S # {} => First(S) \in S /\ \A y \in S : First(S) <= y
  BY FirstIs
<1>2. CASE S = {}
  BY <1>2 DEF First
<1>3. CASE S # {}
  BY <1>1, <1>3
<1>. QED
  BY <1>2, <1>3

\* buf is the beginning of the text of r, or the whole of it.
Begins(buf, r) ==
    /\ Len(buf) \in 1 .. Header(r) + r.body
    /\ \A i \in 1 .. Len(buf) : buf[i] = TokenAt(r, i)

LEMMA LineEndOf ==
    ASSUME NEW r \in Request, NEW buf, Begins(buf, r), Len(buf) >= 2
    PROVE  LineEnd(buf, 1) = 2
<1>. DEFINE S == {i \in 1 .. Len(buf) : buf[i] = CRLF}
<1>1. Len(buf) \in Nat /\ Len(buf) <= Header(r) + r.body
      /\ Header(r) \in {3, 5, 7} /\ r.body \in Nat
  BY HeaderIsNatural DEF Begins
<1>2. \A i \in 1 .. Len(buf) : i \in S <=> TokenAt(r, i) = CRLF
  BY <1>1 DEF Begins
<1>3. S \in SUBSET (Nat \ {0})
  BY <1>1
<1>4. 2 \in S
  BY <1>1, <1>2, TokenKinds
<1>5. 1 \notin S
  <2>1. 1 \in 1 .. Header(r) + r.body /\ 1 \in 1 .. Len(buf)
    BY <1>1
  <2>2. TokenAt(r, 1) # CRLF
    BY <1>1, <2>1, TokenKinds
  <2>. QED
    BY <1>2, <2>1, <2>2
<1>6. \A y \in S : 2 <= y
  BY <1>3, <1>5
<1>. HIDE DEF S
<1>7. First(S) = 2
  BY <1>3, <1>4, <1>6, FirstIs
<1>. QED
  BY <1>7 DEF LineEnd, S

\* The empty line is found as soon as it is there, and nothing before it.
LEMMA HeaderEndOf ==
    ASSUME NEW r \in Request, NEW buf, Begins(buf, r), NEW from \in {1, 3}, from < Header(r)
    PROVE  HeaderEnd(buf, from) = IF Len(buf) >= Header(r) THEN Header(r) - 1 ELSE 0
<1>. DEFINE S == {i \in from .. Len(buf) - 1 : buf[i] = CRLF /\ buf[i + 1] = CRLF}
            H == Header(r)
<1>1. /\ Len(buf) \in Nat /\ Len(buf) <= H + r.body
      /\ H \in {3, 5, 7} /\ r.body \in Nat /\ r.named \in BOOLEAN
  BY HeaderIsNatural DEF Begins
<1>2. \A i \in 1 .. Len(buf) : buf[i] = CRLF <=> \/ i \in {2, H}
                                                 \/ r.named /\ i = 4
                                                 \/ r.length # NoLength /\ i = H - 1
  BY <1>1, TokenKinds DEF Begins
<1>3. /\ r.named /\ r.length # NoLength => H = 7
      /\ r.named /\ r.length = NoLength => H = 5
      /\ ~r.named /\ r.length # NoLength => H = 5
      /\ ~r.named /\ r.length = NoLength => H = 3
  BY <1>1 DEF Header
<1>. HIDE DEF H
<1>4. ASSUME NEW i \in from .. Len(buf) - 1 PROVE i \in S <=> i = H - 1
  <2>1. i \in 1 .. Len(buf) /\ i + 1 \in 1 .. Len(buf)
    BY <1>1
  <2>2. i \in S <=> buf[i] = CRLF /\ buf[i + 1] = CRLF
    OBVIOUS
  <2>. QED
    BY <1>1, <1>2, <1>3, <2>1, <2>2
<1>5. S \in SUBSET (Nat \ {0})
  BY <1>1
<1>6. CASE Len(buf) >= H
  <2>1. H - 1 \in from .. Len(buf) - 1 /\ H - 1 \in Nat \ {0}
    BY <1>1, <1>6 DEF H
  <2>2. H - 1 \in S /\ \A y \in S : H - 1 <= y
    BY <1>1, <1>4, <2>1
  <2>3. PICK x \in Nat \ {0} : x = H - 1
    BY <2>1
  <2>. HIDE DEF S
  <2>4. First(S) = x
    BY <1>5, <2>2, <2>3, FirstIs
  <2>. QED
    BY <1>6, <2>3, <2>4 DEF HeaderEnd, S, H
<1>7. CASE ~(Len(buf) >= H)
  <2>1. S = {}
    BY <1>1, <1>4, <1>7
  <2>2. First(S) = 0
    BY <2>1 DEF First
  <2>. QED
    BY <1>7, <2>2 DEF HeaderEnd, S, H
<1>. QED
  BY <1>6, <1>7

\* So is the field for the length, wherever its name is looked for.
LEMMA LengthNamedOf ==
    ASSUME NEW r \in Request, NEW buf, Begins(buf, r), NEW from \in {1, 3},
           NEW to \in Nat, to <= Len(buf), NEW names
    PROVE  /\ LengthNamed(buf, from, to, names) =
                 IF r.length # NoLength /\ Header(r) - 2 <= to /\ r.length.name \in names
                 THEN Header(r) - 2 ELSE 0
           /\ r.length # NoLength /\ Header(r) - 2 <= to
                 => buf[Header(r) - 2] = LengthField(r.length)
<1>. DEFINE H == Header(r)
            S == {i \in from .. to : buf[i].kind = "length" /\ buf[i].name \in names}
            there == r.length # NoLength /\ H - 2 <= to
<1>1. /\ Len(buf) \in Nat /\ Len(buf) <= H + r.body
      /\ H \in {3, 5, 7} /\ r.body \in Nat /\ r.named \in BOOLEAN
      /\ r.length # NoLength => H \in {5, 7}
  BY HeaderIsNatural DEF Begins
<1>2. \A i \in from .. to : i \in 1 .. H + r.body /\ buf[i] = TokenAt(r, i)
  BY <1>1 DEF Begins
<1>3. \A i \in from .. to : buf[i].kind = "length" <=> r.length # NoLength /\ i = H - 2
  BY <1>2, TokenKinds
<1>4. there => H - 2 \in from .. to /\ H - 2 \in Nat \ {0}
  BY <1>1
<1>5. there => buf[H - 2] = LengthField(r.length)
  <2>. SUFFICES ASSUME there PROVE buf[H - 2] = LengthField(r.length)
    OBVIOUS
  <2>1. buf[H - 2] = TokenAt(r, H - 2)
    BY <1>2, <1>4
  <2>2. H - 2 # 1 /\ ~(r.named /\ H - 2 = 3)
    BY <1>1 DEF Header
  <2>. QED
    BY <2>1, <2>2 DEF TokenAt
<1>6. \A i : i \in S <=> there /\ r.length.name \in names /\ i = H - 2
  <2>1. there => buf[H - 2].name = r.length.name
    BY <1>5 DEF LengthField
  <2>. QED
    BY <1>1, <1>3, <1>4, <2>1
<1>7. S \in SUBSET (Nat \ {0}) /\ LengthNamed(buf, from, to, names) = First(S)
  BY <1>1 DEF LengthNamed
<1>. HIDE DEF S, there, H
<1>8. CASE there /\ r.length.name \in names
  <2>1. H - 2 \in Nat \ {0} /\ H - 2 \in S /\ \A y \in S : H - 2 <= y
    BY <1>4, <1>6, <1>8
  <2>2. First(S) = H - 2
    BY <1>7, <2>1, FirstIs
  <2>. QED
    BY <1>5, <1>7, <1>8, <2>2 DEF H, there
<1>9. CASE ~(there /\ r.length.name \in names)
  <2>1. S = {}
    BY <1>6, <1>9
  <2>2. First(S) = 0
    BY <2>1 DEF First
  <2>. QED
    BY <1>5, <1>7, <1>9, <2>2 DEF H, there
<1>. QED
  BY <1>8, <1>9

\* A request whose Content-Length, if it has one, goes by a known name.
Named(r) == r.length = NoLength \/ r.length.name \in KnownNames

\* Such a field is what the codec finds, and what the parser finds.
LEMMA SearchesOf ==
    ASSUME NEW r \in Request, NEW buf, Begins(buf, r), Named(r)
    PROVE  /\ SearchLength(buf) =
                 IF r.length # NoLength /\ Header(r) - 2 <= Len(buf) THEN Header(r) - 2 ELSE 0
           /\ r.length # NoLength /\ Header(r) - 2 <= Len(buf)
                 => buf[Header(r) - 2] = LengthField(r.length)
           /\ Len(buf) >= Header(r) =>
                 LengthHeader(buf, 3, Header(r) - 1) =
                    IF r.length # NoLength THEN Header(r) - 2 ELSE 0
<1>. DEFINE H == Header(r)
<1>1. /\ Len(buf) \in Nat /\ H \in {3, 5, 7}
      /\ r.length # NoLength => H \in {5, 7} /\ r.length.name \in KnownNames
  BY HeaderIsNatural DEF Begins, Named
<1>2. ASSUME NEW names
      PROVE  LengthNamed(buf, 1, Len(buf), names) =
                IF r.length # NoLength /\ H - 2 <= Len(buf) /\ r.length.name \in names
                THEN H - 2 ELSE 0
  BY <1>1, LengthNamedOf
<1>3. r.length # NoLength /\ H - 2 <= Len(buf) => buf[H - 2] = LengthField(r.length)
  BY <1>1, LengthNamedOf
<1>4. ASSUME Len(buf) >= H, NEW names
      PROVE  LengthNamed(buf, 3, H - 1, names) =
                IF r.length # NoLength /\ r.length.name \in names THEN H - 2 ELSE 0
  <2>1. H - 1 \in Nat /\ H - 1 <= Len(buf) /\ H - 2 <= H - 1
    BY <1>1, <1>4
  <2>. QED
    BY <2>1, LengthNamedOf
<1>. HIDE DEF H
<1>5. SearchLength(buf) = IF r.length # NoLength /\ H - 2 <= Len(buf) THEN H - 2 ELSE 0
  BY <1>1, <1>2 DEF SearchLength, KnownNames
<1>6. Len(buf) >= H =>
         LengthHeader(buf, 3, H - 1) = IF r.length # NoLength THEN H - 2 ELSE 0
  BY <1>1, <1>4 DEF LengthHeader, KnownNames
<1>. QED
  BY <1>3, <1>5, <1>6 DEF H

\* What the codec says of the beginning of a request, once it says something.
LEMMA CodecOf ==
    ASSUME NEW r \in Request, NEW buf, Begins(buf, r), Named(r), IsComplete(buf) > 0
    PROVE  /\ Len(buf) \in Nat /\ Len(buf) >= Header(r) /\ buf[1] = Line(r)
           /\ r.length = NoLength => Len(buf) = Header(r) /\ IsComplete(buf) = Header(r)
           /\ r.length # NoLength => /\ r.length.value \in Nat
                                     /\ IsComplete(buf) = Header(r) + r.length.value
<1>. DEFINE H == Header(r)
<1>1. /\ Len(buf) \in Nat /\ Len(buf) >= 1 /\ H \in {3, 5, 7} /\ r.body \in Nat
      /\ buf[1] = TokenAt(r, 1)
  BY HeaderIsNatural DEF Begins
<1>2. buf[1] = Line(r)
  BY <1>1 DEF TokenAt
<1>3. HeaderEnd(buf, 1) = IF Len(buf) >= H THEN H - 1 ELSE 0
  BY <1>1, HeaderEndOf
<1>4. /\ SearchLength(buf) =
            IF r.length # NoLength /\ H - 2 <= Len(buf) THEN H - 2 ELSE 0
      /\ r.length # NoLength /\ H - 2 <= Len(buf) => buf[H - 2] = LengthField(r.length)
  BY <1>1, SearchesOf
<1>5. IsComplete(buf) = HttpProtocolCheck(buf) /\ HttpProtocolCheck(buf) > 0
  BY DEF IsComplete
<1>6. Len(buf) >= H
  BY <1>1, <1>3, <1>5 DEF HttpProtocolCheck
<1>7. CASE r.length = NoLength
  <2>1. HeaderEnd(buf, 1) = H - 1 /\ H - 1 # 0 /\ SearchLength(buf) = 0
    BY <1>1, <1>3, <1>4, <1>6, <1>7
  <2>2. HttpProtocolCheck(buf) = IF H = Len(buf) THEN H ELSE 0
    BY <1>1, <2>1 DEF HttpProtocolCheck
  <2>. QED
    BY <1>1, <1>2, <1>5, <1>6, <1>7, <2>2
<1>8. CASE r.length # NoLength
  <2>1. /\ HeaderEnd(buf, 1) = H - 1 /\ H - 1 # 0
        /\ SearchLength(buf) = H - 2 /\ H - 2 # 0
        /\ buf[H - 2].value = r.length.value
    BY <1>1, <1>3, <1>4, <1>6, <1>8 DEF LengthField
  <2>2. HttpProtocolCheck(buf) =
          IF LineEnd(buf, H - 2) = 0 \/ r.length.value = NotANumber
          THEN 0 ELSE H + r.length.value
    <3>1. HttpProtocolCheck(buf) =
            IF LineEnd(buf, SearchLength(buf)) = 0 \/ buf[SearchLength(buf)].value = NotANumber
            THEN 0 ELSE (HeaderEnd(buf, 1) + 1) + buf[SearchLength(buf)].value
      <4>. HIDE DEF H
      <4>. QED
        BY <2>1 DEF HttpProtocolCheck
    <3>2. HeaderEnd(buf, 1) + 1 = H
      BY <1>1, <2>1
    <3>. HIDE DEF H
    <3>. QED
      BY <2>1, <3>1, <3>2
  <2>3. r.length.value \in Nat \cup {NotANumber}
    BY <1>8 DEF Request
  <2>. QED
    BY <1>1, <1>2, <1>5, <1>6, <1>8, <2>2, <2>3
<1>. QED
  BY <1>7, <1>8

\* What the parser says of a header that is there, with a field in it.
LEMMA ParserOf ==
    ASSUME NEW r \in Request, NEW buf, Begins(buf, r), Named(r),
           Len(buf) >= Header(r), Header(r) # 3, r.method \in HttpMethods
    PROVE  /\ ~Overruns(buf)
           /\ Parse(buf) = IF r.length = NoLength \/ r.length.value = NotANumber
                           THEN Accept(0)
                           ELSE CheckBody(Len(buf) - Header(r), r.length.value)
<1>. DEFINE H == Header(r)
<1>1. /\ Len(buf) \in Nat /\ Len(buf) >= H /\ H \in {5, 7} /\ r.body \in Nat
      /\ buf[1] = TokenAt(r, 1)
  BY HeaderIsNatural DEF Begins
<1>2. buf[1].method \in HttpMethods
  BY <1>1 DEF TokenAt, Line
<1>3. LineEnd(buf, 1) = 2
  BY <1>1, LineEndOf
<1>4. HeaderEnd(buf, 3) = H - 1
  BY <1>1, HeaderEndOf
<1>5. /\ LengthHeader(buf, 3, H - 1) = IF r.length # NoLength THEN H - 2 ELSE 0
      /\ r.length # NoLength => buf[H - 2] = LengthField(r.length)
  BY <1>1, SearchesOf
<1>. HIDE DEF H
<1>6. LineEnd(buf, 1) + 1 = 3 /\ H - 1 # 0 /\ H - 2 # 0 /\ (H - 1) + 1 = H
  BY <1>1, <1>3
<1>7. ~Overruns(buf)
  BY <1>1, <1>3 DEF Overruns
<1>8. CASE r.length = NoLength
  <2>1. Parse(buf) = Accept(0)
    BY <1>2, <1>4, <1>5, <1>6, <1>8 DEF Parse
  <2>. QED
    BY <1>7, <1>8, <2>1 DEF H
<1>9. CASE r.length # NoLength
  <2>1. LengthHeader(buf, 3, H - 1) = H - 2 /\ buf[H - 2].value = r.length.value
    BY <1>5, <1>6, <1>9 DEF LengthField
  <2>2. Parse(buf) = IF r.length.value = NotANumber THEN Accept(0)
                     ELSE CheckBody(Len(buf) - H, r.length.value)
    BY <1>2, <1>4, <1>6, <2>1 DEF Parse
  <2>. QED
    BY <1>7, <1>9, <2>2 DEF H
<1>. QED
  BY <1>8, <1>9

\* Of a well-formed request no beginning is complete, and the whole is what its
\* sender meant.
LEMMA WholeIsRead ==
    ASSUME NEW r \in Request, WellFormed(r), NEW buf, Begins(buf, r),
           IsComplete(buf) \in 1 .. Len(buf)
    PROVE  /\ buf[1] = Line(r)
           /\ ~Overruns(buf)
           /\ Parse(buf) = Accept(r.body)
<1>1. /\ Len(buf) \in Nat /\ Len(buf) <= Header(r) + r.body /\ Named(r)
      /\ IsComplete(buf) > 0 /\ IsComplete(buf) <= Len(buf)
  BY HeaderIsNatural DEF Begins, WellFormed, Named
<1>2. /\ Len(buf) >= Header(r) /\ buf[1] = Line(r)
      /\ r.length = NoLength => Len(buf) = Header(r)
      /\ r.length # NoLength => /\ r.length.value \in Nat
                                /\ IsComplete(buf) = Header(r) + r.length.value
  BY <1>1, CodecOf
<1>3. /\ Header(r) \in {5, 7} /\ r.body \in Nat
      /\ r.method \in HttpMethods /\ r.length.value = r.body
  BY HeaderIsNatural DEF WellFormed
<1>4. /\ ~Overruns(buf)
      /\ Parse(buf) = IF r.length = NoLength \/ r.length.value = NotANumber
                      THEN Accept(0) ELSE CheckBody(Len(buf) - Header(r), r.length.value)
  BY <1>1, <1>2, <1>3, ParserOf
<1>5. CASE r.length = NoLength
  <2>1. r.body = 0
    BY <1>3, <1>5 DEF NoLength
  <2>. QED
    BY <1>2, <1>4, <1>5, <2>1
<1>6. CASE r.length # NoLength
  <2>1. r.length.value # NotANumber /\ Len(buf) - Header(r) = r.body
    BY <1>1, <1>2, <1>3, <1>6 DEF NotANumber
  <2>. QED
    BY <1>2, <1>3, <1>4, <1>6, <2>1 DEF CheckBody
<1>. QED
  BY <1>5, <1>6

-----------------------------------------------------------------------------
(* What the handlers are given.                                             *)

\* buf is the part of s that follows the first p tokens.
IsPiece(buf, s, p) ==
    /\ Len(buf) \in Nat /\ p + Len(buf) <= Len(s)
    /\ \A i \in 1 .. Len(buf) : buf[i] = s[p + i]

\* A package, and what the codec said of it.
Given(job, s) ==
    /\ job.valid = IsComplete(job.package)
    /\ job.valid \in 1 .. Len(job.package)
    /\ \E p \in Nat : IsPiece(job.package, s, p)

Pieces == \A h \in DOMAIN jobs : Given(jobs[h], stream)

\* The buffer of a connection is a piece of what the client sends.
LEMMA ReceivedIsPiece ==
    ASSUME BuffersOK, NoByteLost, NEW n \in Nat, Read(n)
    PROVE  \E p \in Nat : IsPiece(Received(n), stream, p)
<1>. DEFINE buf == Received(n)
<1>1. /\ stream \in Seq(Tokens) /\ taken \in Seq(Tokens)
      /\ inbox \in Seq(Tokens) /\ unsent \in Seq(Tokens)
      /\ stream = (taken \o inbox) \o unsent
  BY DEF BuffersOK, NoByteLost, Read
<1>2. /\ buf \in Seq(Tokens) /\ unsent' \in Seq(Tokens)
      /\ buf \o unsent' = inbox \o unsent
  BY ReadMovesTokens
<1>3. stream = taken \o (inbox \o unsent)
  BY <1>1, JoinAssociative
<1>. HIDE DEF buf
<1>. DEFINE rest == buf \o unsent'
<1>4. /\ rest \in Seq(Tokens) /\ Len(rest) = Len(buf) + Len(unsent')
      /\ \A i \in 1 .. Len(buf) + Len(unsent') :
            rest[i] = IF i <= Len(buf) THEN buf[i] ELSE unsent'[i - Len(buf)]
  BY <1>2, ConcatProperties
<1>5. stream = taken \o rest
  BY <1>2, <1>3
<1>. HIDE DEF rest
<1>6. /\ Len(stream) = Len(taken) + Len(rest)
      /\ \A i \in 1 .. Len(taken) + Len(rest) :
            stream[i] = IF i <= Len(taken) THEN taken[i] ELSE rest[i - Len(taken)]
  <2>1. /\ Len(taken \o rest) = Len(taken) + Len(rest)
        /\ \A i \in 1 .. Len(taken) + Len(rest) :
              (taken \o rest)[i] = IF i <= Len(taken) THEN taken[i] ELSE rest[i - Len(taken)]
    BY <1>1, <1>4, ConcatProperties
  <2>. QED
    BY <1>5, <2>1
<1>7. Len(taken) \in Nat /\ Len(buf) \in Nat /\ Len(unsent') \in Nat
  BY <1>1, <1>2, LenProperties
<1>8. ASSUME NEW i \in 1 .. Len(buf) PROVE buf[i] = stream[Len(taken) + i]
  <2>1. /\ Len(taken) + i \in 1 .. Len(taken) + Len(rest)
        /\ ~(Len(taken) + i <= Len(taken)) /\ (Len(taken) + i) - Len(taken) = i
        /\ i \in 1 .. Len(buf) + Len(unsent') /\ i <= Len(buf)
    BY <1>4, <1>7
  <2>2. stream[Len(taken) + i] = rest[i]
    BY <1>6, <2>1
  <2>. QED
    BY <1>4, <2>1, <2>2
<1>9. IsPiece(buf, stream, Len(taken))
  BY <1>4, <1>6, <1>7, <1>8 DEF IsPiece
<1>. QED
  BY <1>7, <1>9 DEF buf

\* What the client sends and whether there is a creator are fixed.
LEMMA StreamStays == [Next]_vars => UNCHANGED <<stream, creator>>
<1>. SUFFICES ASSUME [Next]_vars PROVE UNCHANGED <<stream, creator>>
  OBVIOUS
<1>1. ASSUME NEW n \in 0 .. SuggestedSize, Reads(n) PROVE UNCHANGED <<stream, creator>>
  BY <1>1 DEF Reads, ReadTooMuch, ReadPart, ReadWhole, ReadHeaderOnly,
              ReadUninitialized, client
<1>2. ASSUME NEW h \in DOMAIN jobs, OnStep(h) \/ CallbackDone(h) \/ SendTcpToClient(h)
      PROVE  UNCHANGED <<stream, creator>>
  BY <1>2 DEF SendTcpToClient, OnStep, CallbackDone, Start, DoParseTcpPackage,
              DoDispatchRequest, DoVerifyCallbackSetting, DoInvokeCallbackJobStart,
              DoInvokeCallbackJobFinish, Finish, Move, Respond, worker, client
<1>3. CASE OnTcpClose \/ UNCHANGED vars
  BY <1>3 DEF OnTcpClose, vars, client
<1>. QED
  BY <1>1, <1>2, <1>3 DEF Next, Steps, Framework

\* A new package is a piece of the stream, and the others stay.
LEMMA NextKeepsPieces ==
    ASSUME BuffersOK, NoByteLost, JobsOK, JobsOK', Pieces, [Next]_vars
    PROVE  Pieces'
<1>1. ASSUME SamePackages, UNCHANGED stream PROVE Pieces'
  <2>1. \A h \in DOMAIN jobs : Given(jobs'[h], stream)
    BY <1>1 DEF Pieces, Given, SamePackages
  <2>. QED
    BY <1>1, <2>1 DEF Pieces, SamePackages
<1>2. ASSUME NEW n \in 0 .. SuggestedSize, ReadWhole(n) PROVE Pieces'
  <2>. DEFINE job == NewJob(Received(n), IsComplete(Received(n)))
  <2>1. /\ Read(n) /\ UNCHANGED stream /\ jobs' = Append(jobs, job)
        /\ IsComplete(Received(n)) \in 1 .. Len(Received(n))
    BY <1>2 DEF ReadWhole, client
  <2>2. PICK p \in Nat : IsPiece(Received(n), stream, p)
    BY <2>1, ReceivedIsPiece
  <2>3. job.package = Received(n) /\ job.valid = IsComplete(Received(n))
    BY DEF NewJob
  <2>. HIDE DEF job
  <2>4. Given(job, stream)
    BY <2>1, <2>2, <2>3 DEF Given
  <2>5. \A h \in DOMAIN jobs' : Given(jobs'[h], stream)
    <3>. SUFFICES ASSUME NEW h \in DOMAIN jobs' PROVE Given(jobs'[h], stream)
      OBVIOUS
    <3>1. DOMAIN jobs = 1 .. Len(jobs) /\ DOMAIN jobs' = 1 .. Len(jobs) + 1 /\ Len(jobs) \in Nat
      BY <2>1, LenProperties, AppendProperties DEF JobsOK
    <3>2. (h \in DOMAIN jobs /\ jobs'[h] = jobs[h]) \/ jobs'[h] = job
      BY <2>1, <3>1 DEF JobsOK
    <3>. QED
      BY <2>4, <3>2 DEF Pieces
  <2>. QED
    BY <2>1, <2>5 DEF Pieces
<1>3. ASSUME NEW n \in 0 .. SuggestedSize, Reads(n), ~ReadWhole(n) PROVE Pieces'
  <2>1. UNCHANGED <<jobs, stream>>
    BY <1>3 DEF Reads, ReadTooMuch, ReadPart, ReadHeaderOnly, ReadUninitialized, client
  <2>. QED
    BY <1>1, <2>1 DEF SamePackages
<1>4. ASSUME NEW h \in DOMAIN jobs, OnStep(h) \/ CallbackDone(h) \/ SendTcpToClient(h)
      PROVE  Pieces'
  <2>1. SamePackages
    BY <1>4, StepsKeepPackages
  <2>2. UNCHANGED stream
    BY StreamStays
  <2>. QED
    BY <1>1, <2>1, <2>2
<1>5. CASE OnTcpClose \/ UNCHANGED vars
  <2>1. UNCHANGED <<jobs, stream>>
    BY <1>5 DEF OnTcpClose, vars, client
  <2>. QED
    BY <1>1, <2>1 DEF SamePackages
<1>. QED
  BY <1>2, <1>3, <1>4, <1>5 DEF Next, Steps, Framework

\* Framing as a whole: what the parts of the proof have established so far.
Framed == BuffersOK /\ NoByteLost /\ JobsOK /\ AnsweredOnce /\ Pieces

LEMMA InitFramed == Init => Framed
<1>. SUFFICES ASSUME Init PROVE Framed
  OBVIOUS
<1>1. jobs = <<>> /\ BuffersOK /\ NoByteLost
  BY InitBytes DEF Init
<1>. QED
  BY <1>1, EmptySeq DEF Framed, JobsOK, AnsweredOnce, Pieces

LEMMA NextKeepsFraming ==
    ASSUME Framed, [Next]_vars
    PROVE  Framed'
<1>1. BuffersOK' /\ NoByteLost'
  BY NextKeepsBytes DEF Framed
<1>2. JobsOK' /\ AnsweredOnce'
  BY NextKeepsAnswers DEF Framed
<1>3. Pieces'
  BY <1>2, NextKeepsPieces DEF Framed
<1>. QED
  BY <1>1, <1>2, <1>3 DEF Framed

\* The codec says something only of a buffer that starts with a request line.
LEMMA StartsWithLine ==
    ASSUME NEW job, NEW s, Given(job, s)
    PROVE  job.package[1].kind = "line" /\ Len(job.package) \in Nat \ {0}
<1>1. IsComplete(job.package) > 0 /\ Len(job.package) \in Nat \ {0}
  BY DEF Given, IsPiece
<1>. QED
  BY <1>1 DEF IsComplete, BeginsLikeMethod

\* The two ways to the Content-Length, through a header whose names are plain.
LEMMA SearchesAgree ==
    ASSUME NEW buf, Len(buf) \in Nat, DOMAIN buf = 1 .. Len(buf), PlainHeader(buf)
    PROVE  /\ LineEnd(buf, 1) \in Nat
           /\ HeaderEnd(buf, 1) \in Nat \ {0}
           /\ HeaderEnd(buf, LineEnd(buf, 1) + 1) = HeaderEnd(buf, 1)
           /\ LengthHeader(buf, LineEnd(buf, 1) + 1, HeaderEnd(buf, 1)) = SearchLength(buf)
           /\ SearchLength(buf) # 0 =>
                 SearchLength(buf) \in DOMAIN buf /\ buf[SearchLength(buf)].kind = "length"
<1>. DEFINE ends(from) == {i \in from .. Len(buf) - 1 : buf[i] = CRLF /\ buf[i + 1] = CRLF}
            L == LineEnd(buf, 1)
            E == HeaderEnd(buf, 1)
<1>1. L \in Nat
  <2>. DEFINE S == {i \in 1 .. Len(buf) : buf[i] = CRLF}
  <2>1. S \in SUBSET (Nat \ {0}) /\ L = First(S)
    BY DEF LineEnd
  <2>. HIDE DEF S, L
  <2>. QED
    BY <2>1, FirstFinds
<1>2. E \in ends(1) /\ E \in Nat \ {0} /\ L < E /\ \A y \in ends(1) : E <= y
  <2>1. ends(1) \in SUBSET (Nat \ {0}) /\ E = First(ends(1)) /\ L < E
    BY DEF HeaderEnd, PlainHeader
  <2>. HIDE DEF ends, E, L
  <2>. QED
    BY <1>1, <2>1, FirstFinds
<1>3. HeaderEnd(buf, L + 1) = E
  <2>1. E \in ends(L + 1) /\ ends(L + 1) \in SUBSET ends(1)
    BY <1>1, <1>2
  <2>2. ends(L + 1) \in SUBSET (Nat \ {0}) /\ HeaderEnd(buf, L + 1) = First(ends(L + 1))
    BY <1>1 DEF HeaderEnd
  <2>3. \A y \in ends(L + 1) : E <= y
    BY <1>2, <2>1
  <2>. HIDE DEF ends, E, L
  <2>. QED
    BY <1>2, <2>1, <2>2, <2>3, FirstIs
<1>4. \A i \in 1 .. Len(buf) : buf[i].kind = "length" =>
         i \in L + 1 .. E /\ buf[i].name \in {"Content-Length", "content-length"}
  BY DEF PlainHeader, KnownNames
<1>5. L + 1 \in Nat \ {0} /\ E <= Len(buf)
  BY <1>1, <1>2
<1>. HIDE DEF ends, L, E
<1>6. ASSUME NEW names, NEW more, more \cap {"Content-Length", "content-length"} =
                                  names \cap {"Content-Length", "content-length"}
      PROVE  /\ LengthNamed(buf, L + 1, E, names) = LengthNamed(buf, 1, Len(buf), more)
             /\ LengthNamed(buf, 1, Len(buf), more) # 0 =>
                   /\ LengthNamed(buf, 1, Len(buf), more) \in 1 .. Len(buf)
                   /\ buf[LengthNamed(buf, 1, Len(buf), more)].kind = "length"
  <2>. DEFINE S == {i \in L + 1 .. E : buf[i].kind = "length" /\ buf[i].name \in names}
              T == {i \in 1 .. Len(buf) : buf[i].kind = "length" /\ buf[i].name \in more}
  <2>1. S = T
    BY <1>2, <1>4, <1>5, <1>6
  <2>2. /\ LengthNamed(buf, L + 1, E, names) = First(S)
        /\ LengthNamed(buf, 1, Len(buf), more) = First(T)
        /\ T \in SUBSET (Nat \ {0})
        /\ \A i \in T : i \in 1 .. Len(buf) /\ buf[i].kind = "length"
    BY DEF LengthNamed
  <2>. HIDE DEF S, T
  <2>. QED
    BY <2>1, <2>2, FirstFinds
<1>7. /\ LengthNamed(buf, L + 1, E, {"Content-Length", "Content-Length "}) =
            LengthNamed(buf, 1, Len(buf), {"Content-Length", "X-Content-Length"})
      /\ LengthNamed(buf, L + 1, E, {"content-length", "content-length "}) =
            LengthNamed(buf, 1, Len(buf), {"content-length", "x-content-length"})
  BY <1>6
<1>8. LengthHeader(buf, L + 1, E) = SearchLength(buf)
  BY <1>7 DEF LengthHeader, SearchLength
<1>9. SearchLength(buf) # 0 =>
         SearchLength(buf) \in DOMAIN buf /\ buf[SearchLength(buf)].kind = "length"
  BY <1>6 DEF SearchLength
<1>. QED
  BY <1>1, <1>2, <1>3, <1>8, <1>9 DEF L, E

\* A buffer of any tokens, complete for the codec as it is, is so for the parser.
LEMMA AgreeOnWhole ==
    ASSUME NEW buf \in Seq(Tokens), IsComplete(buf) = Len(buf), Len(buf) > 0,
           buf[1].method \in HttpMethods, PlainHeader(buf)
    PROVE  Parse(buf) = Accept(Len(buf) - HeaderSize(buf))
<1>. DEFINE E == HeaderEnd(buf, 1)
            at == SearchLength(buf)
<1>1. Len(buf) \in Nat /\ DOMAIN buf = 1 .. Len(buf)
  BY LenProperties
<1>2. /\ E \in Nat \ {0} /\ HeaderEnd(buf, LineEnd(buf, 1) + 1) = E
      /\ LengthHeader(buf, LineEnd(buf, 1) + 1, E) = at
      /\ at # 0 => at \in DOMAIN buf /\ buf[at].kind = "length"
  BY <1>1, SearchesAgree
<1>3. HttpProtocolCheck(buf) = Len(buf)
  BY <1>1 DEF IsComplete
<1>4. at # 0 => buf[at].value \in Int
  <2>. SUFFICES ASSUME at # 0 PROVE buf[at].value \in Int
    OBVIOUS
  <2>1. buf[at] \in Tokens /\ buf[at].kind = "length"
    BY <1>1, <1>2
  <2>. HIDE DEF at
  <2>2. PICK r \in Requests : buf[at] = LengthField(r.length)
    BY <2>1 DEF Tokens, CRLF, Field, Data, Line
  <2>3. r.length = NoLength \/ r.length.value \in Nat \cup {NotANumber}
    BY HttpHandlerAssumption DEF Request
  <2>. QED
    BY <2>2, <2>3 DEF LengthField, NoLength, NotANumber
<1>5. Parse(buf) = IF at = 0 \/ buf[at].value = NotANumber THEN Accept(0)
                   ELSE CheckBody(Len(buf) - (E + 1), buf[at].value)
  <2>. HIDE DEF E, at
  <2>. QED
    BY <1>2 DEF Parse
<1>6. HeaderSize(buf) = E + 1
  BY DEF HeaderSize
<1>7. CASE at = 0
  <2>1. E + 1 = Len(buf)
    BY <1>1, <1>2, <1>3, <1>7 DEF HttpProtocolCheck
  <2>. QED
    BY <1>1, <1>2, <1>5, <1>6, <1>7, <2>1
<1>8. CASE at # 0
  <2>1. buf[at].value # NotANumber /\ E + 1 + buf[at].value = Len(buf)
    BY <1>1, <1>2, <1>3, <1>8 DEF HttpProtocolCheck
  <2>. HIDE DEF E, at
  <2>2. Len(buf) - (E + 1) = buf[at].value
    BY <1>1, <1>2, <1>4, <1>8, <2>1
  <2>. QED
    BY <1>5, <1>6, <1>8, <2>1, <2>2 DEF CheckBody
<1>. QED
  BY <1>7, <1>8

\* Codec and parser look for the Content-Length with code of their own.  In a
\* package that ends where the codec says, and whose names are plain, they agree
\* on it, whatever the clients send and however the network cuts it.
THEOREM CodecAndParserAgree == Spec => []CodecAgreesWithParser
<1>1. Framed => CodecAgreesWithParser
  <2>. SUFFICES ASSUME Framed, NEW h \in DOMAIN jobs,
                       jobs[h].valid = Len(jobs[h].package),
                       jobs[h].package[1].method \in HttpMethods, PlainHeader(jobs[h].package)
       PROVE  Parse(jobs[h].package) =
                 Accept(Len(jobs[h].package) - HeaderSize(jobs[h].package))
    BY DEF CodecAgreesWithParser
  <2>1. jobs[h].package \in Seq(Tokens)
    <3>1. jobs[h] \in HandlerJob
      BY DEF Framed, JobsOK
    <3>. QED
      BY <3>1 DEF HandlerJob
  <2>2. Given(jobs[h], stream)
    BY DEF Framed, Pieces
  <2>3. IsComplete(jobs[h].package) = Len(jobs[h].package)
    BY <2>2 DEF Given
  <2>4. Len(jobs[h].package) > 0
    BY <2>2, StartsWithLine
  <2>. QED
    BY <2>1, <2>3, <2>4, AgreeOnWhole
<1>. QED
  BY <1>1, InitFramed, NextKeepsFraming, PTL DEF Spec

-----------------------------------------------------------------------------
(* The answer to a well-formed request that is all the client sends.        *)

\* The states of the handler that only some requests lead to.
RightPhase(r, phase) ==
    /\ phase = "kVerifyCallbackSetting" => r.path = "callback" /\ r.method = "GET"
    /\ phase \in {"kInvokeCallbackJobStart", "kInvokeCallbackJobFinish"}
          => r.path = "callback" /\ r.method = "POST"
    /\ phase = "kInvokeCallbackJobFinish" => creator /\ r.auth = "good" /\ r.body > 0

RightJob(r, job) ==
    /\ RightPhase(r, job.phase)
    /\ \A i \in DOMAIN job.answers : job.answers[i] \in Expected(r)

RightJobs(r) == \A h \in DOMAIN jobs : RightJob(r, jobs[h])

RightWire(r) == \A i \in DOMAIN wire : wire[i].status \in Expected(r)

WireOK == wire \in Seq([from : Nat, status : Status])

Sole(r) == WellFormed(r) /\ stream = Encode(r)

\* What every handler is given is the whole request.
LEMMA SoleIsRead ==
    ASSUME NEW r \in Requests, Sole(r), NEW job, Given(job, stream)
    PROVE  /\ job.package[1] = Line(r)
           /\ ~Overruns(job.package)
           /\ Parse(job.package) = Accept(r.body)
<1>. DEFINE buf == job.package
            L == Header(r) + r.body
<1>1. r \in Request /\ L \in Nat /\ L >= 3
  BY HeaderIsNatural
<1>2. /\ Len(stream) = L /\ \A i \in 1 .. L : stream[i] = TokenAt(r, i)
  BY <1>1, EncodeIs DEF Sole
<1>3. PICK p \in Nat : IsPiece(buf, stream, p)
  BY DEF Given
<1>4. buf[1].kind = "line" /\ Len(buf) \in Nat \ {0}
  BY StartsWithLine
<1>5. p + Len(buf) <= L /\ \A i \in 1 .. Len(buf) : buf[i] = stream[p + i]
  BY <1>2, <1>3 DEF IsPiece
<1>. HIDE DEF buf, L
<1>6. p = 0
  <2>1. p + 1 \in 1 .. L /\ 1 \in 1 .. Len(buf)
    BY <1>4, <1>5, <1>1
  <2>2. TokenAt(r, p + 1).kind = "line"
    BY <1>2, <1>4, <1>5, <2>1
  <2>3. p + 1 = 1
    BY <1>1, <2>1, <2>2, TokenKinds DEF L
  <2>. QED
    BY <2>3
<1>7. Len(buf) \in 1 .. L /\ \A i \in 1 .. Len(buf) : buf[i] = TokenAt(r, i)
  BY <1>1, <1>2, <1>4, <1>5, <1>6
<1>8. Begins(buf, r)
  BY <1>7 DEF Begins, L
<1>9. IsComplete(buf) \in 1 .. Len(buf)
  BY DEF Given, buf
<1>. QED
  BY <1>1, <1>8, <1>9, WholeIsRead DEF Sole, buf

\* A step of one handler.
LEMMA EditKeepsRight ==
    ASSUME NEW r, RightJobs(r), NEW h \in DOMAIN jobs, NEW job, RightJob(r, job),
           jobs' = [jobs EXCEPT ![h] = job], UNCHANGED creator
    PROVE  RightJobs(r)'
<1>1. DOMAIN jobs' = DOMAIN jobs
  OBVIOUS
<1>2. \A k \in DOMAIN jobs : RightJob(r, jobs'[k])
  BY DEF RightJobs
<1>. QED
  BY <1>1, <1>2 DEF RightJobs, RightJob, RightPhase, Expected

LEMMA MoveKeepsRight ==
    ASSUME NEW r, RightJobs(r), JobsOK, NEW h \in DOMAIN jobs, NEW phase \in Phases,
           Move(h, phase), RightPhase(r, phase)
    PROVE  RightJobs(r)'
<1>. DEFINE job == [jobs[h] EXCEPT !.phase = phase]
<1>1. jobs[h] \in HandlerJob
  BY LenProperties, ElementOfSeq DEF JobsOK
<1>2. job.phase = phase /\ job.answers = jobs[h].answers
  BY <1>1 DEF HandlerJob
<1>3. RightJob(r, job)
  BY <1>2 DEF RightJobs, RightJob
<1>4. jobs' = [jobs EXCEPT ![h] = job] /\ UNCHANGED creator
  BY DEF Move, worker, client
<1>. HIDE DEF job
<1>. QED
  BY <1>3, <1>4, EditKeepsRight

LEMMA RespondKeepsRight ==
    ASSUME NEW r, RightJobs(r), JobsOK, NEW h \in DOMAIN jobs, NEW status \in Status,
           Respond(h, status), status \in Expected(r)
    PROVE  RightJobs(r)'
<1>. DEFINE answers == Append(jobs[h].answers, status)
            job == [jobs[h] EXCEPT !.answers = answers, !.phase = "kFinish"]
<1>1. jobs[h] \in HandlerJob
  BY LenProperties, ElementOfSeq DEF JobsOK
<1>2. jobs[h].answers \in Seq(Status)
  BY <1>1 DEF HandlerJob
<1>3. \A i \in DOMAIN answers : answers[i] \in Expected(r)
  <2>1. /\ DOMAIN answers = 1 .. Len(jobs[h].answers) + 1
        /\ DOMAIN jobs[h].answers = 1 .. Len(jobs[h].answers)
        /\ Len(jobs[h].answers) \in Nat
        /\ \A i \in 1 .. Len(jobs[h].answers) : answers[i] = jobs[h].answers[i]
        /\ answers[Len(jobs[h].answers) + 1] = status
    BY <1>2, AppendProperties, LenProperties
  <2>. HIDE DEF answers
  <2>. QED
    BY <2>1 DEF RightJobs, RightJob
<1>4. jobs' = [jobs EXCEPT ![h] = job] /\ UNCHANGED creator
  BY DEF Respond, worker, client
<1>. HIDE DEF answers
<1>5. job.phase = "kFinish" /\ job.answers = answers
  BY <1>1 DEF HandlerJob
<1>. HIDE DEF job
<1>6. RightJob(r, job)
  BY <1>3, <1>5 DEF RightJob, RightPhase
<1>. QED
  BY <1>4, <1>6, EditKeepsRight

\* The handler's states, for a request that is read as a whole.
LEMMA OnStepKeepsRight ==
    ASSUME NEW r \in Requests, Sole(r), Framed, RightJobs(r),
           NEW h \in DOMAIN jobs, OnStep(h)
    PROVE  RightJobs(r)'
<1>. USE DEF In
<1>1. JobsOK /\ Given(jobs[h], stream) /\ RightPhase(r, jobs[h].phase)
  BY DEF Framed, Pieces, RightJobs, RightJob
<1>2. /\ RequestLine(h) = Line(r)
      /\ ~Overruns(jobs[h].package)
      /\ Parse(jobs[h].package) = Accept(r.body)
  BY <1>1, SoleIsRead DEF RequestLine
<1>3. /\ RequestLine(h).path = r.path /\ RequestLine(h).method = r.method
      /\ RequestLine(h).auth = r.auth
      /\ Parse(jobs[h].package).ok /\ Parse(jobs[h].package).body = r.body
  BY <1>2 DEF Line, Accept
<1>4. r.auth \in {"good", "forged", "no XML"} /\ r.body \in Nat
  BY DEF Request
<1>5. CASE Start(h)
  BY <1>1, <1>5, MoveKeepsRight DEF Start, RightPhase, Phases
<1>6. CASE DoParseTcpPackage(h)
  <2>1. Move(h, "kDispatchRequest")
    BY <1>2, <1>3, <1>6 DEF DoParseTcpPackage
  <2>. QED
    BY <1>1, <2>1, MoveKeepsRight DEF RightPhase, Phases
<1>7. CASE DoDispatchRequest(h)
  <2>1. ASSUME RequestLine(h).path = "callback", RequestLine(h).method = "POST",
               Move(h, "kInvokeCallbackJobStart")
        PROVE  RightJobs(r)'
    BY <1>1, <1>3, <2>1, MoveKeepsRight DEF RightPhase, Phases
  <2>2. ASSUME RequestLine(h).path = "callback", RequestLine(h).method = "GET",
               Move(h, "kVerifyCallbackSetting")
        PROVE  RightJobs(r)'
    BY <1>1, <1>3, <2>2, MoveKeepsRight DEF RightPhase, Phases
  <2>3. ASSUME RequestLine(h).path # "callback" \/ RequestLine(h).method \notin {"GET", "POST"},
               Respond(h, "400")
        PROVE  RightJobs(r)'
    <3>1. "400" \in Expected(r) /\ "400" \in Status
      BY <1>3, <2>3 DEF Expected, Status
    <3>. QED
      BY <1>1, <2>3, <3>1, RespondKeepsRight
  <2>. QED
    BY <1>7, <2>1, <2>2, <2>3 DEF DoDispatchRequest
<1>8. CASE DoVerifyCallbackSetting(h)
  <2>. DEFINE status == IF Signed(h) THEN "200" ELSE "400"
  <2>1. r.path = "callback" /\ r.method = "GET" /\ Respond(h, status)
    BY <1>1, <1>8 DEF DoVerifyCallbackSetting, RightPhase
  <2>2. status \in Expected(r) /\ status \in Status
    BY <1>3, <2>1 DEF Expected, Status, Signed
  <2>. HIDE DEF status
  <2>. QED
    BY <1>1, <2>1, <2>2, RespondKeepsRight
<1>9. CASE DoInvokeCallbackJobStart(h)
  <2>1. r.path = "callback" /\ r.method = "POST"
    BY <1>1, <1>9 DEF DoInvokeCallbackJobStart, RightPhase
  <2>2. Readable(h) <=> r.auth = "good" /\ r.body > 0
    BY <1>3, <1>4 DEF Readable, Signed
  <2>3. ASSUME ~creator, Respond(h, "501") PROVE RightJobs(r)'
    <3>1. "501" \in Expected(r) /\ "501" \in Status
      BY <2>1, <2>3 DEF Expected, Status
    <3>. QED
      BY <1>1, <2>3, <3>1, RespondKeepsRight
  <2>4. ASSUME creator, ~Readable(h), Respond(h, "400") PROVE RightJobs(r)'
    <3>1. "400" \in Expected(r) /\ "400" \in Status
      BY <2>1, <2>2, <2>4 DEF Expected, Status
    <3>. QED
      BY <1>1, <2>4, <3>1, RespondKeepsRight
  <2>5. ASSUME creator, Readable(h), UNCHANGED <<worker, aborted>>,
               jobs' = [jobs EXCEPT ![h].phase = "kInvokeCallbackJobFinish",
                                    ![h].callback = "running"]
        PROVE  RightJobs(r)'
    <3>. DEFINE job == [jobs[h] EXCEPT !.phase = "kInvokeCallbackJobFinish",
                                       !.callback = "running"]
    <3>1. jobs[h] \in HandlerJob
      BY <1>1, LenProperties, ElementOfSeq DEF JobsOK
    <3>2. job.phase = "kInvokeCallbackJobFinish" /\ job.answers = jobs[h].answers
      BY <3>1 DEF HandlerJob
    <3>3. jobs' = [jobs EXCEPT ![h] = job] /\ UNCHANGED creator
      BY <2>5 DEF worker, client
    <3>. HIDE DEF job
    <3>4. RightJob(r, job)
      BY <2>1, <2>2, <2>5, <3>2 DEF RightJobs, RightJob, RightPhase
    <3>. QED
      BY <3>3, <3>4, EditKeepsRight
  <2>. QED
    BY <1>9, <2>3, <2>4, <2>5 DEF DoInvokeCallbackJobStart
<1>10. CASE DoInvokeCallbackJobFinish(h)
  <2>1. /\ r.path = "callback" /\ r.method = "POST"
        /\ creator /\ r.auth = "good" /\ r.body > 0
    BY <1>1, <1>10 DEF DoInvokeCallbackJobFinish, RightPhase
  <2>2. Expected(r) = {"200", "500"}
    BY <2>1 DEF Expected
  <2>3. PICK status \in {"200", "500"} : Respond(h, status)
    BY <1>10 DEF DoInvokeCallbackJobFinish
  <2>. QED
    BY <1>1, <2>2, <2>3, RespondKeepsRight DEF Status
<1>11. CASE Finish(h)
  BY <1>1, <1>11, MoveKeepsRight DEF Finish, RightPhase, Phases
<1>. QED
  BY <1>5, <1>6, <1>7, <1>8, <1>9, <1>10, <1>11 DEF OnStep

\* The next answer of a handler that has one to be sent.
NextAnswer(h) == [from |-> h, status |-> jobs[h].answers[jobs[h].sent + 1]]

LEMMA NextAnswerIs ==
    ASSUME JobsOK, NEW h \in DOMAIN jobs, SendTcpToClient(h)
    PROVE  /\ NextAnswer(h) \in [from : Nat, status : Status]
           /\ jobs[h].sent + 1 \in DOMAIN jobs[h].answers
           /\ UNCHANGED wire \/ wire' = Append(wire, NextAnswer(h))
<1>1. jobs[h] \in HandlerJob /\ h \in Nat
  BY LenProperties, ElementOfSeq DEF JobsOK
<1>2. jobs[h].answers \in Seq(Status) /\ jobs[h].sent \in Nat
  BY <1>1 DEF HandlerJob
<1>3. jobs[h].sent < Len(jobs[h].answers)
  BY DEF SendTcpToClient
<1>4. Len(jobs[h].answers) \in Nat /\ DOMAIN jobs[h].answers = 1 .. Len(jobs[h].answers)
  BY <1>2, LenProperties
<1>5. jobs[h].sent + 1 \in 1 .. Len(jobs[h].answers)
  BY <1>2, <1>3, <1>4
<1>6. jobs[h].answers[jobs[h].sent + 1] \in Status
  BY <1>2, <1>5, ElementOfSeq
<1>7. UNCHANGED wire \/ wire' = Append(wire, NextAnswer(h))
  BY DEF SendTcpToClient, NextAnswer
<1>. QED
  BY <1>1, <1>4, <1>5, <1>6, <1>7 DEF NextAnswer

LEMMA NextKeepsWire ==
    ASSUME JobsOK, WireOK, [Next]_vars
    PROVE  WireOK'
<1>1. ASSUME NEW h \in DOMAIN jobs, SendTcpToClient(h) PROVE WireOK'
  <2>1. /\ NextAnswer(h) \in [from : Nat, status : Status]
        /\ UNCHANGED wire \/ wire' = Append(wire, NextAnswer(h))
    BY <1>1, NextAnswerIs
  <2>. DEFINE S == [from : Nat, status : Status]
  <2>2. wire \in Seq(S) /\ NextAnswer(h) \in S
    BY <2>1 DEF WireOK
  <2>. HIDE DEF S
  <2>3. Append(wire, NextAnswer(h)) \in Seq(S)
    BY <2>2, AppendProperties
  <2>4. wire' \in Seq(S)
    BY <2>1, <2>2, <2>3
  <2>. QED
    BY <2>4 DEF WireOK, S
<1>2. ASSUME NEW n \in 0 .. SuggestedSize, Reads(n) PROVE UNCHANGED wire
  BY <1>2 DEF Reads, ReadTooMuch, ReadPart, ReadWhole, ReadHeaderOnly, ReadUninitialized
<1>3. ASSUME NEW h \in DOMAIN jobs, OnStep(h) \/ CallbackDone(h) PROVE UNCHANGED wire
  BY <1>3 DEF OnStep, CallbackDone, Start, DoParseTcpPackage, DoDispatchRequest,
              DoVerifyCallbackSetting, DoInvokeCallbackJobStart,
              DoInvokeCallbackJobFinish, Finish, Move, Respond, worker
<1>4. OnTcpClose \/ UNCHANGED vars => UNCHANGED wire
  BY DEF OnTcpClose, vars
<1>. QED
  BY <1>1, <1>2, <1>3, <1>4 DEF Next, Steps, Framework, WireOK

\* What is written is an answer that a handler has given.
LEMMA SendKeepsRight ==
    ASSUME NEW r, JobsOK, WireOK, RightJobs(r), RightWire(r),
           NEW h \in DOMAIN jobs, SendTcpToClient(h)
    PROVE  RightJobs(r)' /\ RightWire(r)'
<1>. DEFINE job == [jobs[h] EXCEPT !.sent = @ + 1]
<1>1. jobs[h] \in HandlerJob
  BY LenProperties, ElementOfSeq DEF JobsOK
<1>2. UNCHANGED creator /\ jobs' = [jobs EXCEPT ![h] = job]
  BY DEF SendTcpToClient, client
<1>3. RightJobs(r)'
  <2>1. job.phase = jobs[h].phase /\ job.answers = jobs[h].answers
    BY <1>1 DEF HandlerJob
  <2>. HIDE DEF job
  <2>2. RightJob(r, job)
    BY <2>1 DEF RightJobs, RightJob
  <2>. QED
    BY <1>2, <2>2, EditKeepsRight
<1>4. NextAnswer(h) \in [from : Nat, status : Status] /\ NextAnswer(h).status \in Expected(r)
  BY NextAnswerIs DEF NextAnswer, RightJobs, RightJob
<1>5. CASE UNCHANGED wire
  BY <1>2, <1>3, <1>5 DEF RightWire, Expected
<1>6. CASE wire' = Append(wire, NextAnswer(h))
  <2>1. /\ DOMAIN wire = 1 .. Len(wire) /\ DOMAIN wire' = 1 .. Len(wire) + 1
        /\ Len(wire) \in Nat
        /\ \A i \in 1 .. Len(wire) : wire'[i] = wire[i]
        /\ wire'[Len(wire) + 1] = NextAnswer(h)
    BY <1>4, <1>6, AppendProperties, LenProperties DEF WireOK
  <2>2. \A i \in DOMAIN wire' : wire'[i].status \in Expected(r)
    BY <1>4, <2>1 DEF RightWire
  <2>. QED
    BY <1>2, <1>3, <2>1, <2>2 DEF RightWire, Expected
<1>. QED
  BY <1>3, <1>5, <1>6, NextAnswerIs

LEMMA NextKeepsRight ==
    ASSUME NEW r \in Requests, Sole(r), Framed, WireOK, RightJobs(r), RightWire(r),
           [Next]_vars
    PROVE  RightJobs(r)' /\ RightWire(r)'
<1>1. JobsOK /\ UNCHANGED <<stream, creator>>
  BY StreamStays DEF Framed
<1>2. ASSUME UNCHANGED wire PROVE RightWire(r)'
  BY <1>1, <1>2 DEF RightWire, Expected
<1>3. ASSUME UNCHANGED jobs PROVE RightJobs(r)'
  BY <1>1, <1>3 DEF RightJobs, RightJob, RightPhase, Expected
<1>4. ASSUME NEW n \in 0 .. SuggestedSize, ReadWhole(n)
      PROVE  RightJobs(r)' /\ RightWire(r)'
  <2>. DEFINE job == NewJob(Received(n), IsComplete(Received(n)))
  <2>1. /\ jobs' = Append(jobs, job) /\ UNCHANGED wire
        /\ job.phase = "kStart" /\ job.answers = <<>>
    BY <1>4 DEF ReadWhole, NewJob
  <2>. HIDE DEF job
  <2>2. RightJob(r, job)
    BY <2>1 DEF RightJob, RightPhase
  <2>3. /\ DOMAIN jobs = 1 .. Len(jobs) /\ Len(jobs) \in Nat
        /\ DOMAIN jobs' = 1 .. Len(jobs) + 1
        /\ \A h \in 1 .. Len(jobs) : jobs'[h] = jobs[h]
        /\ jobs'[Len(jobs) + 1] = job
    BY <1>1, <2>1, LenProperties, AppendProperties DEF JobsOK
  <2>4. \A h \in DOMAIN jobs' : RightJob(r, jobs'[h])
    BY <2>2, <2>3 DEF RightJobs
  <2>5. RightJobs(r)'
    BY <1>1, <2>4 DEF RightJobs, RightJob, RightPhase, Expected
  <2>. QED
    BY <1>2, <2>1, <2>5
<1>5. ASSUME NEW n \in 0 .. SuggestedSize, Reads(n), ~ReadWhole(n)
      PROVE  RightJobs(r)' /\ RightWire(r)'
  <2>1. UNCHANGED <<jobs, wire>>
    BY <1>5 DEF Reads, ReadTooMuch, ReadPart, ReadHeaderOnly, ReadUninitialized
  <2>. QED
    BY <1>2, <1>3, <2>1
<1>6. CASE OnTcpClose \/ UNCHANGED vars
  <2>1. UNCHANGED <<jobs, wire>>
    BY <1>6 DEF OnTcpClose, vars
  <2>. QED
    BY <1>2, <1>3, <2>1
<1>7. ASSUME NEW h \in DOMAIN jobs, SendTcpToClient(h)
      PROVE  RightJobs(r)' /\ RightWire(r)'
  BY <1>1, <1>7, SendKeepsRight
<1>8. ASSUME NEW h \in DOMAIN jobs, OnStep(h)
      PROVE  RightJobs(r)' /\ RightWire(r)'
  <2>1. UNCHANGED wire
    BY <1>8 DEF OnStep, Start, DoParseTcpPackage, DoDispatchRequest, DoVerifyCallbackSetting,
                DoInvokeCallbackJobStart, DoInvokeCallbackJobFinish, Finish, Move, Respond,
                worker
  <2>2. RightJobs(r)'
    BY <1>8, OnStepKeepsRight
  <2>. QED
    BY <1>2, <2>1, <2>2
<1>9. ASSUME NEW h \in DOMAIN jobs, CallbackDone(h)
      PROVE  RightJobs(r)' /\ RightWire(r)'
  <2>1. PICK outcome : jobs' = [jobs EXCEPT ![h].callback = outcome]
    BY <1>9 DEF CallbackDone
  <2>. DEFINE job == [jobs[h] EXCEPT !.callback = outcome]
  <2>2. jobs[h] \in HandlerJob
    BY <1>1, LenProperties, ElementOfSeq DEF JobsOK
  <2>3. job.phase = jobs[h].phase /\ job.answers = jobs[h].answers
    BY <2>2 DEF HandlerJob
  <2>4. jobs' = [jobs EXCEPT ![h] = job] /\ UNCHANGED wire
    BY <1>9, <2>1 DEF CallbackDone, worker
  <2>. HIDE DEF job
  <2>5. RightJob(r, job)
    BY <2>3 DEF RightJobs, RightJob
  <2>6. RightJobs(r)'
    BY <1>1, <2>4, <2>5, EditKeepsRight
  <2>. QED
    BY <1>2, <2>4, <2>6
<1>. QED
  BY <1>4, <1>5, <1>6, <1>7, <1>8, <1>9 DEF Next, Steps, Framework

\* However the network cuts a well-formed request and whatever else the threads
\* do meanwhile, the only answer that the client can get is one that its whole
\* text calls for.
THEOREM SoleRequestIsAnsweredRight == Spec => []RightAnswer
<1>. DEFINE Right == \A r \in Requests : Sole(r) => RightJobs(r) /\ RightWire(r)
            Inv == Framed /\ WireOK /\ Right
<1>1. Init => Inv
  <2>. SUFFICES ASSUME Init PROVE Inv
    OBVIOUS
  <2>1. jobs = <<>> /\ wire = <<>> /\ Framed
    BY InitFramed DEF Init
  <2>. QED
    BY <2>1, EmptySeq DEF WireOK, RightJobs, RightWire
<1>2. Inv /\ [Next]_vars => Inv'
  <2>. SUFFICES ASSUME Inv, [Next]_vars PROVE Inv'
    OBVIOUS
  <2>1. Framed'
    BY NextKeepsFraming
  <2>2. ASSUME NEW r \in Requests, Sole(r)' PROVE RightJobs(r)' /\ RightWire(r)'
    <3>1. Sole(r)
      BY <2>2, StreamStays DEF Sole
    <3>. QED
      BY <3>1, NextKeepsRight
  <2>3. WireOK'
    BY NextKeepsWire DEF Framed
  <2>. QED
    BY <2>1, <2>2, <2>3
<1>3. Inv => RightAnswer
  BY DEF RightAnswer, Sole, RightWire
<1>. QED
  BY <1>1, <1>2, <1>3, PTL DEF Spec

=============================================================================
