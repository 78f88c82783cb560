------------------------- MODULE DemoCallback_proofs -------------------------
(****************************************************************************)
(* Proofs about ClientJobs and about DemoCallback on top of it, for every   *)
(* set of requests, streams and arguments and for every size of the buffers *)
(* and length of the timeouts.  With either application the handlers are    *)
(* still those of HttpHandler; a job that succeeds has seen a whole         *)
(* response; and the sample's replies are true and in time.                 *)
(****************************************************************************)
EXTENDS DemoCallback, HttpHandler_proofs, FiniteSetTheorems

-----------------------------------------------------------------------------
(* With its jobs, the application is still one that HttpHandler allows.     *)

LEMMA CallsAreSteps == CallsNext => [Next]_vars
<1>. SUFFICES ASSUME CallsNext PROVE [Next]_vars
  OBVIOUS
<1>1. CASE Framework /\ UNCHANGED calls
  BY <1>1 DEF CallsNext, Next, Steps
<1>2. CASE \E h \in DOMAIN jobs, kind \in Kinds : InvokeChild(h, kind)
  BY <1>2 DEF InvokeChild
<1>3. CASE \E h \in DOMAIN jobs : CallbackEnds(h)
  BY <1>3 DEF CallsNext, Next, Steps, CallbackEnds
<1>4. CASE Starts
  BY <1>4, Zenon DEF Starts, SendPush, UploadMedia, AskForChat, Sent
<1>5. CASE Ends
  BY <1>5, Zenon DEF Ends, PushAnswered, UploadAnswered, ChatAnswered, Answered
<1>. QED
  BY <1>1, <1>2, <1>3, <1>4, <1>5 DEF CallsNext, CallsSteps

\* What is proved of HttpHandler holds beside every job that a callback job
\* invokes: each step is one of HttpHandler or leaves its variables alone.
THEOREM CallsImplementHandler == CallsSpec => Spec
<1>1. CallsInit => Init
  BY DEF CallsInit
<1>2. [CallsNext]_<<vars, calls>> => [Next]_vars
  BY CallsAreSteps
<1>. QED
  BY <1>1, <1>2, PTL DEF CallsSpec, Spec

\* In particular no byte of a connection is lost.
THEOREM CallsKeepBytes == CallsSpec => []NoByteLost
  BY CallsImplementHandler, FramingKeepsBytes, PTL

\* And each handler answers once.
THEOREM CallsAnswerOnce == CallsSpec => []AnsweredOnce
  BY CallsImplementHandler, HandlersAnswerOnce, PTL

-----------------------------------------------------------------------------
(* What an invoked job reports.                                             *)

\* A job: of any caller, so that nothing need be known of the handlers.
Job(by) ==
    [by : {by}, kind : Kinds \cup {"none"},
     state : {"none", "scheduled", "sent", "finished"},
     seen : Outcomes, ErrCode : Errors,
     code : {"0", "other"}, fired : Nat]

CallOK == \E by : call \in Job(by)

\* SuccessIsWhole is inductive with the type of call: each finished job has seen
\* the outcome that it reports.
CallInv == CallOK /\ SuccessIsWhole

LEMMA NothingIsOutcome == Nothing \in Outcomes
  BY DEF Nothing, Outcomes

LEMMA InitCall == CallsInit => CallInv
<1>. SUFFICES ASSUME CallsInit PROVE CallInv
  OBVIOUS
<1>1. NoCall \in Job(0) /\ NoCall.state = "none"
  BY NothingIsOutcome DEF NoCall, Job, Errors
<1>. QED
  BY <1>1 DEF CallsInit, CallInv, CallOK, SuccessIsWhole

\* A reported success stands for a whole response.
Whole(error, code, o) ==
    error = "0" /\ code = "0" => o.got = "all" /\ o.errcode = "0" /\ o.fields

\* The end of a job keeps the invariant if what it reports is right.
LEMMA ResultKeepsCall ==
    ASSUME CallInv, NEW o \in Outcomes, NEW error \in Errors, NEW code \in {"0", "other"},
           call.kind = "SilentPushJob" \/ Whole(error, code, o),
           call' = Result(o, error, code)
    PROVE  CallInv'
<1>1. PICK by : call \in Job(by)
  BY DEF CallInv, CallOK
<1>2. call' \in Job(by)
  BY <1>1 DEF Job, Result
<1>3. /\ call'.kind = call.kind /\ call'.seen = o
      /\ call'.ErrCode = error /\ call'.code = code
  BY <1>1 DEF Job, Result
<1>. QED
  BY <1>2, <1>3 DEF CallInv, CallOK, SuccessIsWhole, Whole

LEMMA InvokeKeepsCall ==
    ASSUME CallInv, NEW h, NEW kind \in Kinds, InvokeChild(h, kind)
    PROVE  CallInv'
<1>1. call' = [NoCall EXCEPT !.by = h, !.kind = kind, !.state = "scheduled"]
  BY DEF InvokeChild
<1>2. call' \in Job(h) /\ call'.state = "scheduled"
  BY <1>1, NothingIsOutcome DEF NoCall, Job, Errors
<1>. QED
  BY <1>2 DEF CallInv, CallOK, SuccessIsWhole

LEMMA StartKeepsCall ==
    ASSUME CallInv, Starts
    PROVE  CallInv'
<1>1. PICK by : call \in Job(by)
  BY DEF CallInv, CallOK
<1>2. CASE Sent
  <2>1. call' \in Job(by) /\ call'.state = "sent"
    BY <1>1, <1>2 DEF Job, Sent
  <2>. QED
    BY <2>1 DEF CallInv, CallOK, SuccessIsWhole
<1>3. CASE call' = [call EXCEPT !.state = "finished", !.ErrCode = "kErrTooLarge"]
  <2>1. call' \in Job(by) /\ call'.ErrCode = "kErrTooLarge"
    BY <1>1, <1>3 DEF Job, Errors
  <2>. QED
    BY <2>1 DEF CallInv, CallOK, SuccessIsWhole
<1>. QED
  BY <1>2, <1>3, Zenon DEF Starts, SendPush, UploadMedia, AskForChat

LEMMA UploadKeepsCall ==
    ASSUME CallInv, NEW o \in Outcomes, UploadAnswered(o)
    PROVE  CallInv'
<1>1. CASE call' = Result(o, "kErrTimeout", "0")
  BY <1>1, ResultKeepsCall DEF Errors, Whole
<1>2. CASE call' = Result(o, "kErrRspFailed", "0")
  BY <1>2, ResultKeepsCall DEF Errors, Whole
<1>3. CASE call' = Result(o, "kErrRspPkgInvalid", "0")
  BY <1>3, ResultKeepsCall DEF Errors, Whole
<1>4. CASE /\ IsReply(o)
           /\ call' = IF o.errcode = "0" THEN Result(o, MediaId(o), "0")
                      ELSE Result(o, "0", "other")
  <2>1. MediaId(o) \in Errors /\ (o.errcode = "0" => Whole(MediaId(o), "0", o))
    BY <1>4 DEF MediaId, Errors, Whole, IsReply
  <2>2. "0" \in Errors /\ Whole("0", "other", o)
    BY DEF Errors, Whole
  <2>. QED
    BY <1>4, <2>1, <2>2, ResultKeepsCall
<1>. QED
  BY <1>1, <1>2, <1>3, <1>4, Zenon DEF UploadAnswered

LEMMA ChatKeepsCall ==
    ASSUME CallInv, NEW o \in Outcomes, ChatAnswered(o)
    PROVE  CallInv'
<1>1. PICK by : call \in Job(by)
  BY DEF CallInv, CallOK
<1>2. ASSUME NEW error \in Errors, NEW code \in {"0", "other"}, Whole(error, code, o),
             call' = [Result(o, error, code) EXCEPT !.fired = @ + 1]
      PROVE  CallInv'
  <2>. DEFINE result == Result(o, error, code)
  <2>1. /\ result \in Job(by)
        /\ result.seen = o /\ result.ErrCode = error /\ result.code = code
    BY <1>1, <1>2 DEF Job, Result
  <2>2. call' = [result EXCEPT !.fired = @ + 1]
    BY <1>2
  <2>. HIDE DEF result
  <2>3. /\ call' \in Job(by)
        /\ call'.seen = o /\ call'.ErrCode = error /\ call'.code = code
    BY <2>1, <2>2 DEF Job
  <2>. QED
    BY <1>2, <2>3 DEF CallInv, CallOK, SuccessIsWhole, Whole
<1>3. CASE call' = [Result(o, "kErrTimeout", "0") EXCEPT !.fired = @ + 1]
  BY <1>2, <1>3 DEF Errors, Whole
<1>4. CASE call' = [Result(o, "kErrHttp", "0") EXCEPT !.fired = @ + 1]
  BY <1>2, <1>4 DEF Errors, Whole
<1>5. CASE call' = [ChatResult(o) EXCEPT !.fired = @ + 1]
  <2>1. CASE IsReply(o) /\ o.fields
    <3>1. ChatResult(o) = Result(o, "0", o.errcode)
      BY <2>1 DEF ChatResult
    <3>2. o.errcode \in {"0", "other"} /\ Whole("0", o.errcode, o) /\ "0" \in Errors
      BY <2>1 DEF IsReply, Outcomes, Whole, Errors
    <3>. QED
      BY <1>2, <1>5, <3>1, <3>2
  <2>2. CASE ~(IsReply(o) /\ o.fields)
    <3>. DEFINE code == IF IsReply(o) THEN o.errcode ELSE "0"
    <3>1. ChatResult(o) = Result(o, "kErrJson", code)
      BY <2>2 DEF ChatResult
    <3>2. code \in {"0", "other"} /\ Whole("kErrJson", code, o) /\ "kErrJson" \in Errors
      BY DEF IsReply, Outcomes, Whole, Errors
    <3>. HIDE DEF code
    <3>. QED
      BY <1>2, <1>5, <3>1, <3>2
  <2>. QED
    BY <2>1, <2>2
<1>. QED
  BY <1>3, <1>4, <1>5 DEF ChatAnswered

LEMMA NextKeepsCall ==
    ASSUME CallInv, [CallsNext]_<<vars, calls>>
    PROVE  CallInv'
<1>1. CASE UNCHANGED calls
  BY <1>1 DEF calls, CallInv, CallOK, SuccessIsWhole
<1>2. ASSUME NEW h \in DOMAIN jobs, NEW kind \in Kinds, InvokeChild(h, kind)
      PROVE  CallInv'
  BY <1>2, InvokeKeepsCall
<1>3. ASSUME NEW h \in DOMAIN jobs, CallbackEnds(h)
      PROVE  CallInv'
  <2>1. CASE call' = NoCall
    <3>1. NoCall \in Job(0) /\ NoCall.state = "none"
      BY NothingIsOutcome DEF NoCall, Job, Errors
    <3>. QED
      BY <2>1, <3>1 DEF CallInv, CallOK, SuccessIsWhole
  <2>2. CASE call' = call
    BY <2>2 DEF CallInv, CallOK, SuccessIsWhole
  <2>. QED
    BY <1>3, <2>1, <2>2 DEF CallbackEnds
<1>4. CASE Starts
  BY <1>4, StartKeepsCall
<1>5. ASSUME NEW o \in Outcomes, PushAnswered(o)
      PROVE  CallInv'
  <2>1. call.kind = "SilentPushJob" /\ call' = Result(o, "0", "0")
    BY <1>5 DEF PushAnswered, Answered
  <2>. QED
    BY <2>1, ResultKeepsCall DEF Errors
<1>6. ASSUME NEW o \in Outcomes, UploadAnswered(o) PROVE CallInv'
  BY <1>6, UploadKeepsCall
<1>7. ASSUME NEW o \in Outcomes, ChatAnswered(o) PROVE CallInv'
  BY <1>7, ChatKeepsCall
<1>. QED
  BY <1>1, <1>2, <1>3, <1>4, <1>5, <1>6, <1>7, Zenon DEF CallsNext, CallsSteps, Ends, calls

\* A caller that finds no error in the job it invoked has a whole response,
\* whichever way the request went.
THEOREM CallsReportTruly == CallsSpec => []SuccessIsWhole
<1>1. CallInv /\ [CallsNext]_<<vars, calls>> => CallInv'
  BY NextKeepsCall
<1>2. CallInv => SuccessIsWhole
  BY DEF CallInv
<1>. QED
  BY InitCall, <1>1, <1>2, PTL DEF CallsSpec


-----------------------------------------------------------------------------
(* There are no more handlers than requests.                                *)

LinesOf(s) == {p \in DOMAIN s : s[p].kind = "line"}

\* What was taken is the beginning of the stream, with a line for each handler.
Counted ==
    /\ Len(taken) <= Len(stream)
    /\ \A p \in 1 .. Len(taken) : taken[p] = stream[p]
    /\ Len(jobs) <= Cardinality(LinesOf(taken))

LEMMA BeginsTheJoin ==
    ASSUME NEW s, NEW t \in Seq(Tokens), NEW u \in Seq(Tokens), NEW v \in Seq(Tokens),
           s = (t \o u) \o v
    PROVE  Len(t) <= Len(s) /\ \A p \in 1 .. Len(t) : t[p] = s[p]
<1>. DEFINE rest == u \o v
<1>1. rest \in Seq(Tokens) /\ s = t \o rest
  <2>1. rest \in Seq(Tokens)
    BY ConcatProperties
  <2>2. (t \o u) \o v = t \o rest
    BY JoinAssociative
  <2>. QED
    BY <2>1, <2>2
<1>. HIDE DEF rest
<1>2. /\ Len(t \o rest) = Len(t) + Len(rest)
      /\ \A i \in 1 .. Len(t) + Len(rest) :
            (t \o rest)[i] = IF i <= Len(t) THEN t[i] ELSE rest[i - Len(t)]
  BY <1>1, ConcatProperties
<1>3. Len(t) \in Nat /\ Len(rest) \in Nat
  BY <1>1, LenProperties
<1>. QED
  BY <1>1, <1>2, <1>3

LEMMA LinesAreFinite ==
    ASSUME NEW s \in Seq(Tokens)
    PROVE  IsFiniteSet(LinesOf(s)) /\ Cardinality(LinesOf(s)) \in Nat
<1>1. LinesOf(s) \subseteq 1 .. Len(s) /\ Len(s) \in Nat
  BY LenProperties DEF LinesOf
<1>. DEFINE all == 1 .. Len(s)
<1>2. IsFiniteSet(all)
  BY <1>1, FS_Interval
<1>. HIDE DEF all
<1>3. IsFiniteSet(LinesOf(s))
  <2>1. LinesOf(s) \subseteq all
    BY <1>1 DEF all
  <2>. QED
    BY <1>2, <2>1, FS_Subset
<1>. QED
  BY <1>3, FS_CardinalityType

\* Each complete request brings its own line.
LEMMA NextKeepsCount ==
    ASSUME Framed, Framed', Counted, [Next]_vars
    PROVE  Counted'
<1>1. ASSUME UNCHANGED <<stream, taken>>, Len(jobs') = Len(jobs) PROVE Counted'
  BY <1>1 DEF Counted, LinesOf
<1>2. JobsOK /\ JobsOK' /\ BuffersOK /\ BuffersOK' /\ NoByteLost'
  BY DEF Framed
<1>3. ASSUME NEW n \in 0 .. SuggestedSize, ReadWhole(n) PROVE Counted'
  <2>. DEFINE buf == Received(n)
              valid == IsComplete(buf)
              first == SubSeq(buf, 1, valid)
  <2>1. /\ Read(n) /\ valid \in 1 .. Len(buf) /\ taken' = taken \o first
        /\ jobs' = Append(jobs, NewJob(buf, valid)) /\ conn' = "open"
    BY <1>3 DEF ReadWhole, Read
  <2>2. Len(taken') <= Len(stream') /\ \A p \in 1 .. Len(taken') : taken'[p] = stream'[p]
    <3>1. taken' \in Seq(Tokens) /\ inbox' \in Seq(Tokens) /\ unsent' \in Seq(Tokens)
      BY <1>2 DEF BuffersOK
    <3>2. stream' = (taken' \o inbox') \o unsent'
      BY <1>2, <2>1 DEF NoByteLost
    <3>. QED
      BY <3>1, <3>2, BeginsTheJoin
  <2>3. buf[1].kind = "line"
    BY <2>1 DEF IsComplete, BeginsLikeMethod
  <2>4. buf \in Seq(Tokens)
    BY <1>2, <2>1, ReadMovesTokens
  <2>. HIDE DEF buf, valid
  <2>5. Len(buf) \in Nat /\ valid \in 0 .. Len(buf) /\ \A i \in 1 .. Len(buf) : buf[i] \in Tokens
    BY <2>1, <2>4, LenProperties, ElementOfSeq
  <2>6. first \in Seq(Tokens) /\ Len(first) = valid /\ first[1] = buf[1]
    BY <2>1, <2>4, <2>5, SubSeqProperties
  <2>. HIDE DEF first
  <2>7. /\ taken \in Seq(Tokens) /\ Len(taken) \in Nat
        /\ taken' \in Seq(Tokens) /\ Len(taken') = Len(taken) + valid
        /\ \A i \in 1 .. Len(taken) + valid :
              taken'[i] = IF i <= Len(taken) THEN taken[i] ELSE first[i - Len(taken)]
    BY <1>2, <2>1, <2>6, ConcatProperties, LenProperties DEF BuffersOK
  <2>. DEFINE new == Len(taken) + 1
  <2>8. LinesOf(taken) \cup {new} \subseteq LinesOf(taken') /\ new \notin LinesOf(taken)
    <3>1. DOMAIN taken = 1 .. Len(taken) /\ DOMAIN taken' = 1 .. Len(taken) + valid
      BY <2>7, LenProperties
    <3>2. \A p \in DOMAIN taken : p \in DOMAIN taken' /\ taken'[p] = taken[p]
      BY <2>1, <2>5, <2>7, <3>1
    <3>3. new \in DOMAIN taken' /\ taken'[new] = first[1] /\ new \notin DOMAIN taken
      BY <2>1, <2>5, <2>7, <3>1
    <3>. HIDE DEF new
    <3>. QED
      BY <2>3, <2>6, <3>2, <3>3 DEF LinesOf
  <2>9. Cardinality(LinesOf(taken')) >= Cardinality(LinesOf(taken)) + 1
    <3>. HIDE DEF new
    <3>1. /\ IsFiniteSet(LinesOf(taken)) /\ Cardinality(LinesOf(taken)) \in Nat
          /\ IsFiniteSet(LinesOf(taken'))
      BY <2>7, LinesAreFinite
    <3>2. Cardinality(LinesOf(taken) \cup {new}) = Cardinality(LinesOf(taken)) + 1
      BY <2>8, <3>1, FS_AddElement
    <3>3. Cardinality(LinesOf(taken) \cup {new}) <= Cardinality(LinesOf(taken'))
      BY <2>8, <3>1, FS_Subset
    <3>. QED
      BY <3>1, <3>2, <3>3
  <2>10. Len(jobs') = Len(jobs) + 1 /\ Len(jobs) \in Nat
    BY <1>2, <2>1, LenProperties DEF JobsOK
  <2>11. Cardinality(LinesOf(taken)) \in Nat /\ Cardinality(LinesOf(taken')) \in Nat
    BY <2>7, LinesAreFinite
  <2>. QED
    BY <2>2, <2>9, <2>10, <2>11 DEF Counted, LinesOf
<1>4. ASSUME NEW n \in 0 .. SuggestedSize, Reads(n), ~ReadWhole(n) PROVE Counted'
  BY <1>1, <1>4 DEF Reads, ReadTooMuch, ReadPart, ReadHeaderOnly,
                      ReadUninitialized, client
<1>5. ASSUME NEW h \in DOMAIN jobs, OnStep(h) \/ CallbackDone(h) \/ SendTcpToClient(h)
      PROVE  Counted'
  <2>1. DOMAIN jobs' = DOMAIN jobs
    BY <1>2, <1>5, StepsKeepPackages DEF SamePackages
  <2>2. Len(jobs') = Len(jobs)
    BY <1>2, <2>1, LenProperties DEF JobsOK
  <2>3. UNCHANGED <<stream, taken>>
    BY <1>5 DEF SendTcpToClient, OnStep, CallbackDone, Start, DoParseTcpPackage,
                DoDispatchRequest, DoVerifyCallbackSetting, DoInvokeCallbackJobStart,
                DoInvokeCallbackJobFinish, Finish, Move, Respond, worker, client, buffers
  <2>. QED
    BY <1>1, <2>2, <2>3
<1>6. CASE OnTcpClose \/ UNCHANGED vars
  BY <1>1, <1>6 DEF OnTcpClose, vars, client
<1>. QED
  BY <1>3, <1>4, <1>5, <1>6 DEF Next, Steps, Framework

LEMMA InitCounted == Init => Counted
<1>. SUFFICES ASSUME Init PROVE Counted
  OBVIOUS
<1>1. taken = <<>> /\ jobs = <<>> /\ stream \in Seq(Tokens)
  BY HttpHandlerAssumption DEF Init
<1>2. LinesOf(taken) = {} /\ Len(taken) = 0 /\ Len(jobs) = 0 /\ Len(stream) \in Nat
  BY <1>1, EmptySeq, LenProperties DEF LinesOf
<1>. QED
  BY <1>2, FS_EmptySet DEF Counted

LEMMA HandlersFit ==
    ASSUME Framed, Counted
    PROVE  /\ DOMAIN jobs \subseteq 1 .. Cardinality(LinesOf(stream))
           /\ Cardinality(LinesOf(stream)) \in Nat
<1>1. stream \in Seq(Tokens) /\ taken \in Seq(Tokens) /\ jobs \in Seq(HandlerJob)
  BY DEF Framed, BuffersOK, JobsOK
<1>2. LinesOf(taken) \subseteq LinesOf(stream)
  BY <1>1, LenProperties DEF Counted, LinesOf
<1>3. /\ IsFiniteSet(LinesOf(stream)) /\ Cardinality(LinesOf(stream)) \in Nat
      /\ Cardinality(LinesOf(taken)) \in Nat
  BY <1>1, LinesAreFinite
<1>4. Cardinality(LinesOf(taken)) <= Cardinality(LinesOf(stream))
  BY <1>2, <1>3, FS_Subset
<1>5. Len(jobs) \in Nat /\ DOMAIN jobs = 1 .. Len(jobs)
  BY <1>1, LenProperties
<1>. QED
  BY <1>3, <1>4, <1>5 DEF Counted
-----------------------------------------------------------------------------
(* The sample's job is one that an application may register.                *)

\* What a request leaves in ReplyContent, a part of the body or the whole.
Texts ==
    {<<>>} \cup {ExtractJsonString(b) : b \in Bodies}
           \cup {ExtractJsonString(SubSeq(b, 1, n)) : b \in Bodies, n \in Nat}

ReplyTexts ==
    {"", "help", "pong", "echo", "timeout", "failed", "unparseable", "uuid", "slept"}

DemoJob ==
    [state : {"kStart", "kIssueHttp", "kAwaitSleep", "kFinish", "kDone"}, woken : BOOLEAN,
     Command : Commands, SleepMs : 0 .. kMaxSleepMs, reply : ReplyTexts, value : Texts,
     since : Nat, whole : Texts]

Active(d) == d.state \in {"kIssueHttp", "kAwaitSleep", "kFinish"}

\* A job that has started and has not ended belongs to a handler that waits for
\* it, and the sample invokes no other job.
Registered ==
    /\ application \in {"calls", "demo"}
    /\ now \in Nat
    /\ demo \in [Handlers -> DemoJob]
    /\ application = "demo" =>
         /\ call = NoCall
         /\ stream \in DemoStreams
         /\ \A h \in Handlers :
              Active(demo[h]) => h \in DOMAIN jobs /\ jobs[h].callback = "running"

DemoFramed == Framed /\ Counted /\ Registered

\* There is a DemoCallbackJob for each handler.
LEMMA HandlersAreThere ==
    ASSUME DemoFramed, application = "demo"
    PROVE  DOMAIN jobs \subseteq Handlers
<1>1. stream \in DemoStreams
  BY DEF DemoFramed, Registered
<1>2. Cardinality(LinesOf(stream)) <= MaxHandlers /\ MaxHandlers \in Nat
  BY <1>1, DemoAssumption DEF LinesOf
<1>3. /\ DOMAIN jobs \subseteq 1 .. Cardinality(LinesOf(stream))
      /\ Cardinality(LinesOf(stream)) \in Nat
  BY HandlersFit DEF DemoFramed
<1>. QED
  BY <1>2, <1>3 DEF Handlers

\* A callback job that runs goes on to do so unless it ends.
LEMMA RunningStays ==
    ASSUME JobsOK, NEW h \in DOMAIN jobs, OnStep(h) \/ SendTcpToClient(h)
    PROVE  \A g \in DOMAIN jobs :
              /\ g \in DOMAIN jobs'
              /\ jobs[g].callback = "running" => jobs'[g].callback = "running"
<1>1. jobs[h] \in HandlerJob
  BY LenProperties, ElementOfSeq DEF JobsOK
<1>. DEFINE Goal == \A g \in DOMAIN jobs :
              /\ g \in DOMAIN jobs'
              /\ jobs[g].callback = "running" => jobs'[g].callback = "running"
<1>. SUFFICES Goal
  OBVIOUS
<1>2. ASSUME NEW job, jobs' = [jobs EXCEPT ![h] = job],
             job.callback = jobs[h].callback \/ job.callback = "running"
      PROVE  Goal
  BY <1>2
<1>3. CASE UNCHANGED jobs
  BY <1>3
<1>. HIDE DEF Goal
<1>4. ASSUME NEW phase, Move(h, phase) PROVE Goal
  <2>1. jobs' = [jobs EXCEPT ![h] = [jobs[h] EXCEPT !.phase = phase]]
    BY <1>4 DEF Move
  <2>. QED
    BY <1>1, <1>2, <2>1 DEF HandlerJob
<1>5. ASSUME NEW status, Respond(h, status) PROVE Goal
  <2>1. jobs' = [jobs EXCEPT ![h] = [jobs[h] EXCEPT
                    !.answers = Append(jobs[h].answers, status), !.phase = "kFinish"]]
    BY <1>5 DEF Respond
  <2>. QED
    BY <1>1, <1>2, <2>1 DEF HandlerJob
<1>6. CASE jobs' = [jobs EXCEPT ![h].phase = "kInvokeCallbackJobFinish",
                                ![h].callback = "running"]
  <2>1. jobs' = [jobs EXCEPT ![h] = [jobs[h] EXCEPT
                    !.phase = "kInvokeCallbackJobFinish", !.callback = "running"]]
    BY <1>6
  <2>. QED
    BY <1>1, <1>2, <2>1 DEF HandlerJob
<1>7. CASE OnStep(h)
  BY <1>3, <1>4, <1>5, <1>6, <1>7
     DEF OnStep, Start, DoParseTcpPackage, DoDispatchRequest, DoVerifyCallbackSetting,
         DoInvokeCallbackJobStart, DoInvokeCallbackJobFinish, Finish
<1>8. CASE SendTcpToClient(h)
  <2>1. jobs' = [jobs EXCEPT ![h] = [jobs[h] EXCEPT !.sent = @ + 1]]
    BY <1>8 DEF SendTcpToClient
  <2>. QED
    BY <1>1, <1>2, <2>1 DEF HandlerJob
<1>. QED
  BY <1>7, <1>8

LEMMA InitDemoFramed == DemoInit => DemoFramed
<1>. SUFFICES ASSUME DemoInit PROVE DemoFramed
  OBVIOUS
<1>1. Init /\ call = NoCall
  BY DEF DemoInit, CallsInit
<1>2. Framed /\ Counted
  BY <1>1, InitFramed, InitCounted
<1>3. NewDemo \in DemoJob /\ ~Active(NewDemo)
  <2>1. <<>> \in Texts
    BY DEF Texts
  <2>2. 0 \in 0 .. kMaxSleepMs
    BY DemoAssumption
  <2>. HIDE DEF Texts
  <2>. QED
    BY <2>1, <2>2 DEF NewDemo, DemoJob, Active, Commands, ReplyTexts
<1>4. demo \in [Handlers -> DemoJob] /\ \A h \in Handlers : ~Active(demo[h])
  BY <1>3 DEF DemoInit
<1>5. application \in {"calls", "demo"} /\ now \in Nat /\ (application = "demo" => stream \in DemoStreams)
  BY DEF DemoInit
<1>. QED
  BY <1>1, <1>2, <1>4, <1>5 DEF DemoFramed, Registered

\* What a step does to the sample's jobs.
DemoEdits(h, new) ==
    /\ application = "demo" /\ h \in Handlers /\ new \in DemoJob
    /\ demo' = [demo EXCEPT ![h] = new]
    /\ UNCHANGED <<calls, application, now, loop>>

\* A step of the sample's job, before it ends.
LEMMA SetsIsEdit ==
    ASSUME NEW h \in Handlers, NEW new \in DemoJob, application = "demo", Sets(h, new)
    PROVE  DemoEdits(h, new) /\ UNCHANGED vars
  BY DEF Sets, DemoEdits

\* What an active job may become, and what it stays beside.
LEMMA EditKeepsRegistered ==
    ASSUME Registered, NEW h \in Handlers, NEW new, DemoEdits(h, new),
           UNCHANGED stream,
           \A g \in DOMAIN jobs :
              /\ g \in DOMAIN jobs'
              /\ g # h /\ jobs[g].callback = "running" => jobs'[g].callback = "running",
           Active(new) => h \in DOMAIN jobs' /\ jobs'[h].callback = "running"
    PROVE  Registered'
<1>1. new \in DemoJob /\ demo' = [demo EXCEPT ![h] = new]
  BY DEF DemoEdits
<1>2. demo' \in [Handlers -> DemoJob]
  BY <1>1 DEF Registered
<1>3. \A g \in Handlers : demo'[g] = IF g = h THEN new ELSE demo[g]
  BY <1>1 DEF Registered
<1>4. call' = call /\ application' = application /\ now' = now
  BY DEF DemoEdits, calls
<1>. QED
  BY <1>2, <1>3, <1>4 DEF Registered

\* Each step of a DemoCallbackJob, of the SleepQueue and of the loop.
LEMMA JobType ==
    ASSUME Registered, NEW h \in Handlers
    PROVE  demo[h] \in DemoJob
  BY DEF Registered

LEMMA RepliesIsEdit ==
    ASSUME Registered, application = "demo", NEW h \in Handlers,
           NEW reply \in ReplyTexts, Replies(h, reply)
    PROVE  LET new == [demo[h] EXCEPT !.state = "kFinish", !.woken = FALSE, !.reply = reply]
           IN  DemoEdits(h, new) /\ UNCHANGED <<vars, sleepers>>
<1>. DEFINE new == [demo[h] EXCEPT !.state = "kFinish", !.woken = FALSE, !.reply = reply]
<1>1. new \in DemoJob
  BY JobType DEF DemoJob
<1>2. Sets(h, new) /\ UNCHANGED sleepers
  BY DEF Replies
<1>. HIDE DEF new
<1>3. DemoEdits(h, new) /\ UNCHANGED <<vars, sleepers>>
  BY <1>1, <1>2, SetsIsEdit
<1>. QED
  BY <1>3 DEF new

\* The steps of the loop and of a job that leave the handlers alone.
LEMMA DoneIsDemoJob == Deleted \in DemoJob /\ ~Active(Deleted)
<1>1. <<>> \in Texts
  BY DEF Texts
<1>2. 0 \in 0 .. kMaxSleepMs
  BY DemoAssumption
<1>. HIDE DEF Texts
<1>. QED
  BY <1>1, <1>2 DEF Deleted, NewDemo, DemoJob, Active, Commands, ReplyTexts

LEMMA UuidIsDemoJob ==
    ASSUME NEW d \in DemoJob, NEW b \in Bodies, NEW n \in Nat, NEW reply \in ReplyTexts
    PROVE  [d EXCEPT !.state = "kFinish", !.reply = reply,
                     !.value = ExtractJsonString(SubSeq(b, 1, n)),
                     !.whole = ExtractJsonString(b)] \in DemoJob
<1>. DEFINE value == ExtractJsonString(SubSeq(b, 1, n))
            whole == ExtractJsonString(b)
<1>1. value \in Texts /\ whole \in Texts
  BY DEF Texts
<1>. HIDE DEF Texts, value, whole
<1>2. [d EXCEPT !.state = "kFinish", !.reply = reply, !.value = value, !.whole = whole]
         \in DemoJob
  BY <1>1 DEF DemoJob
<1>. QED
  BY <1>2 DEF value, whole

LEMMA LimitedIs ==
    ASSUME NEW arg \in SleepArguments
    PROVE  Limited(arg) \in 0 .. kMaxSleepMs
  BY DemoAssumption DEF Limited

\* A step of the sample that changes a job of it, but not the handlers.
LEMMA QuietKeepsRegistered ==
    ASSUME Registered, NEW h \in Handlers, NEW new, DemoEdits(h, new),
           UNCHANGED vars,
           \/ Active(demo[h])
           \/ ~Active(new)
           \/ h \in DOMAIN jobs /\ jobs[h].callback = "running"
    PROVE  Registered'
<1>1. UNCHANGED <<stream, jobs>>
  BY DEF vars
<1>2. Active(new) => h \in DOMAIN jobs /\ jobs[h].callback = "running"
  BY DEF Registered, DemoEdits
<1>. QED
  BY <1>1, <1>2, EditKeepsRegistered

LEMMA StartKeepsRegistered ==
    ASSUME Registered, NEW h \in Handlers, h \in DOMAIN jobs, application = "demo",
           StartReplies(h) \/ StartUuid(h) \/ StartSleep(h)
    PROVE  Registered' /\ UNCHANGED vars
<1>1. jobs[h].callback = "running" /\ demo[h] \in DemoJob
  BY JobType DEF StartReplies, StartUuid, StartSleep, Starting
<1>2. ASSUME NEW new \in DemoJob, Sets(h, new) PROVE Registered' /\ UNCHANGED vars
  BY <1>1, <1>2, SetsIsEdit, QuietKeepsRegistered
<1>3. ASSUME NEW reply \in {"help", "pong", "echo", ""}, Replies(h, reply)
      PROVE  Registered' /\ UNCHANGED vars
  <2>1. reply \in ReplyTexts
    BY DEF ReplyTexts
  <2>. QED
    BY <1>1, <1>3, <2>1, RepliesIsEdit, QuietKeepsRegistered
<1>4. CASE StartUuid(h)
  <2>. DEFINE new == [demo[h] EXCEPT !.state = "kIssueHttp", !.Command = "kUuid", !.since = now]
  <2>1. new \in DemoJob
    BY <1>1 DEF DemoJob, Commands, Registered
  <2>. QED
    BY <1>2, <1>4, <2>1 DEF StartUuid
<1>5. ASSUME NEW arg \in SleepArguments,
             Sets(h, [demo[h] EXCEPT !.state = "kAwaitSleep", !.Command = "kSleep",
                         !.SleepMs = Limited(arg), !.since = now])
      PROVE  Registered' /\ UNCHANGED vars
  <2>. DEFINE new == [demo[h] EXCEPT !.state = "kAwaitSleep", !.Command = "kSleep",
                         !.SleepMs = Limited(arg), !.since = now]
  <2>1. new \in DemoJob
    BY <1>1, LimitedIs DEF DemoJob, Commands, Registered
  <2>. QED
    BY <1>2, <1>5, <2>1
<1>. QED
  BY <1>3, <1>4, <1>5 DEF StartReplies, StartSleep

\* What ExtractJsonString tells apart.
BodyTokens == {"open", "close", "key", "space", ":", "quote", "x", "n", "\\"}

LEMMA BodiesAreTokens == \A b \in Bodies : b \in Seq(BodyTokens)
<1>. DEFINE B == BodyTokens
<1>0. /\ "open" \in B /\ "close" \in B /\ "key" \in B /\ "space" \in B /\ ":" \in B
      /\ "quote" \in B /\ "x" \in B /\ "n" \in B /\ "\\" \in B
  BY DEF BodyTokens
<1>. HIDE DEF B
<1>1. <<"open", "key", "space", ":", "space", "quote", "x", "n", "quote", "close">> \in Seq(B)
  BY <1>0
<1>2. <<"open", "key", ":", "quote", "\\", "quote", "x", "\\", "n", "\\", "\\",
       "quote", "close">>
         \in Seq(B)
  BY <1>0
<1>3. <<"open", "x", ":", "key", "close">> \in Seq(B)
  BY <1>0
<1>4. <<"open", "key", ":", "x", "close">> \in Seq(B)
  BY <1>0
<1>. QED
  BY <1>1, <1>2, <1>3, <1>4, Zenon DEF Bodies, B

\* The sample's job ends, with a reply or without.
LEMMA EndKeepsRegistered ==
    ASSUME DemoFramed, NEW h \in Handlers, application = "demo", NEW outcome,
           h \in DOMAIN jobs, aborted = "no", jobs[h].callback = "running",
           outcome \in {"replied", "silent"},
           jobs' = [jobs EXCEPT ![h].callback = outcome],
           demo' = [demo EXCEPT ![h] = Deleted],
           UNCHANGED <<worker, aborted, calls, application, now, loop>>
    PROVE  Registered' /\ CallsNext
<1>1. DemoEdits(h, Deleted) /\ ~Active(Deleted)
  BY DoneIsDemoJob, Zenon DEF DemoEdits
<1>2. \A g \in DOMAIN jobs :
         g \in DOMAIN jobs' /\ (g # h => jobs'[g] = jobs[g])
  OBVIOUS
<1>3. UNCHANGED stream
  BY DEF worker, client
<1>4. Registered'
  BY <1>1, <1>2, <1>3, EditKeepsRegistered DEF DemoFramed
<1>5. call.by # h
  <2>1. call = NoCall /\ h # 0
    BY DEF DemoFramed, Registered, Handlers
  <2>. QED
    BY <2>1 DEF NoCall
<1>6. CallbackEnds(h)
  BY <1>5 DEF CallbackEnds, CallbackDone, calls
<1>. QED
  BY <1>4, <1>6 DEF CallsNext, CallsSteps

LEMMA DriveKeepsRegistered ==
    ASSUME DemoFramed, NEW h \in DOMAIN jobs, application = "demo", aborted = "no",
           Driven(h) \/ DoIssueHttp(h)
    PROVE  Registered' /\ [CallsNext]_<<vars, calls>>
<1>1. h \in Handlers /\ Registered
  BY HandlersAreThere DEF DemoFramed
<1>2. demo[h] \in DemoJob
  BY <1>1, JobType
<1>3. CASE StartIgnores(h)
  <2>1. jobs[h].callback = "running"
    BY <1>3 DEF StartIgnores, Starting
  <2>. QED
    BY <1>1, <1>3, <2>1, EndKeepsRegistered DEF StartIgnores, queues
<1>4. CASE StartReplies(h) \/ StartUuid(h) \/ StartSleep(h)
  <2>1. UNCHANGED calls
    BY <1>4 DEF StartReplies, StartUuid, StartSleep, Replies, Sets
  <2>. QED
    BY <1>1, <1>4, <2>1, StartKeepsRegistered
<1>5. CASE DoFinish(h)
  <2>1. Active(demo[h])
    BY <1>5 DEF DoFinish, Active
  <2>2. jobs[h].callback = "running"
    BY <1>1, <2>1 DEF Registered
  <2>. DEFINE outcome == IF demo[h].reply = "" THEN "silent" ELSE "replied"
  <2>3. outcome \in {"replied", "silent"} /\ jobs' = [jobs EXCEPT ![h].callback = outcome]
    BY <1>5 DEF DoFinish
  <2>. HIDE DEF outcome
  <2>. QED
    BY <1>1, <1>5, <2>2, <2>3, EndKeepsRegistered DEF DoFinish, queues
<1>6. CASE DoAwaitSleep(h)
  <2>1. Replies(h, "slept") /\ Active(demo[h]) /\ "slept" \in ReplyTexts
    BY <1>6 DEF DoAwaitSleep, Active, ReplyTexts
  <2>. QED
    BY <1>1, <2>1, RepliesIsEdit, QuietKeepsRegistered DEF DemoEdits
<1>7. CASE DoIssueHttp(h)
  <2>1. Active(demo[h])
    BY <1>7 DEF DoIssueHttp, Active
  <2>2. CASE UuidFailed(h)
    <3>1. Replies(h, "failed") /\ "failed" \in ReplyTexts
      BY <2>2 DEF UuidFailed, ReplyTexts
    <3>. QED
      BY <1>1, <2>1, <3>1, RepliesIsEdit, QuietKeepsRegistered DEF DemoEdits
  <2>3. ASSUME NEW b \in Bodies, NEW n \in 0 .. Len(b),
               NEW reply \in {"unparseable", "uuid"},
               Sets(h, [demo[h] EXCEPT !.state = "kFinish", !.reply = reply,
                           !.value = ExtractJsonString(SubSeq(b, 1, n)),
                           !.whole = ExtractJsonString(b)])
        PROVE  Registered' /\ [CallsNext]_<<vars, calls>>
    <3>. DEFINE new == [demo[h] EXCEPT !.state = "kFinish", !.reply = reply,
                           !.value = ExtractJsonString(SubSeq(b, 1, n)),
                           !.whole = ExtractJsonString(b)]
    <3>1. reply \in ReplyTexts /\ n \in Nat
      <4>1. Len(b) \in Nat
        BY BodiesAreTokens, LenProperties
      <4>2. n \in Nat
        BY <4>1
      <4>. QED
        BY <4>2 DEF ReplyTexts
    <3>2. new \in DemoJob
      BY <1>2, <3>1, UuidIsDemoJob
    <3>3. Sets(h, new)
      BY <2>3
    <3>. HIDE DEF new
    <3>4. DemoEdits(h, new) /\ UNCHANGED vars
      BY <1>1, <3>2, <3>3, SetsIsEdit
    <3>. QED
      BY <1>1, <2>1, <3>4, QuietKeepsRegistered DEF DemoEdits
  <2>4. CASE UuidArrived(h)
    <3>0. PICK b \in Bodies : \E n \in 0 .. Len(b) :
             LET value == ExtractJsonString(SubSeq(b, 1, n))
             IN  Sets(h, [demo[h] EXCEPT !.state = "kFinish",
                             !.reply = IF value = NoValue THEN "unparseable" ELSE "uuid",
                             !.value = value, !.whole = ExtractJsonString(b)])
      BY <2>4, Zenon DEF UuidArrived
    <3>1. PICK n \in 0 .. Len(b) :
             LET value == ExtractJsonString(SubSeq(b, 1, n))
             IN  Sets(h, [demo[h] EXCEPT !.state = "kFinish",
                             !.reply = IF value = NoValue THEN "unparseable" ELSE "uuid",
                             !.value = value, !.whole = ExtractJsonString(b)])
      BY <3>0
    <3>. DEFINE reply == IF ExtractJsonString(SubSeq(b, 1, n)) = NoValue
                         THEN "unparseable" ELSE "uuid"
    <3>2. reply \in {"unparseable", "uuid"}
      OBVIOUS
    <3>3. Sets(h, [demo[h] EXCEPT !.state = "kFinish", !.reply = reply,
                      !.value = ExtractJsonString(SubSeq(b, 1, n)),
                      !.whole = ExtractJsonString(b)])
      BY <3>1
    <3>. HIDE DEF reply
    <3>. QED
      BY <2>3, <3>2, <3>3
  <2>. QED
    BY <1>7, <2>2, <2>4 DEF DoIssueHttp
<1>. QED
  BY <1>3, <1>4, <1>5, <1>6, <1>7 DEF Driven, DoStart


\* The steps of the worker's loop.
LEMMA LoopKeepsRegistered ==
    ASSUME DemoFramed, application = "demo", LoopStep
    PROVE  Registered' /\ UNCHANGED <<vars, calls>>
<1>0. Registered
  BY DEF DemoFramed
<1>1. ASSUME now' \in Nat, UNCHANGED <<vars, calls, application, demo>>
      PROVE  Registered' /\ UNCHANGED <<vars, calls>>
  BY <1>0, <1>1 DEF Registered, vars, calls
<1>2. ASSUME NEW from, NEW to, LoopMoves(from, to)
      PROVE  Registered' /\ UNCHANGED <<vars, calls>>
  BY <1>0, <1>1, <1>2 DEF LoopMoves, Registered
<1>3. CASE TimePasses
  <2>1. now' \in Nat
    BY <1>0, <1>3 DEF TimePasses, Registered
  <2>. QED
    BY <1>1, <1>3, <2>1 DEF TimePasses
<1>4. ASSUME NEW h \in Handlers, TimesOut(h)
      PROVE  Registered' /\ UNCHANGED <<vars, calls>>
  <2>1. Active(demo[h]) /\ Replies(h, "timeout") /\ "timeout" \in ReplyTexts
    BY <1>4 DEF TimesOut, Overdue, UuidTimedOut, Active, ReplyTexts
  <2>. QED
    BY <1>0, <2>1, RepliesIsEdit, QuietKeepsRegistered DEF DemoEdits
<1>5. CASE WakesUp
  <2>. DEFINE h == Head(sleepers).job
              new == [demo[h] EXCEPT !.woken = TRUE]
  <2>1. Sets(h, new)
    BY <1>5 DEF WakesUp
  <2>2. CASE h \in Handlers
    <3>1. demo[h] \in DemoJob
      BY <1>0, <2>2, JobType
    <3>2. new \in DemoJob /\ new.state = demo[h].state
      BY <3>1 DEF DemoJob
    <3>. HIDE DEF new, h
    <3>3. DemoEdits(h, new) /\ UNCHANGED vars
      BY <2>1, <2>2, <3>2, SetsIsEdit
    <3>4. Active(demo[h]) \/ ~Active(new)
      BY <3>2 DEF Active
    <3>. QED
      BY <1>0, <2>2, <3>3, <3>4, QuietKeepsRegistered DEF DemoEdits
  <2>3. CASE h \notin Handlers
    <3>. HIDE DEF new, h
    <3>1. demo \in [Handlers -> DemoJob]
      BY <1>0 DEF Registered
    <3>2. demo' = demo
      BY <2>1, <2>3, <3>1 DEF Sets
    <3>. QED
      BY <1>0, <1>1, <2>1, <3>2 DEF Sets, Registered
  <2>. QED
    BY <2>2, <2>3
<1>. QED
  BY <1>2, <1>3, <1>4, <1>5 DEF LoopStep, OnTickTimer, DelayQueueEnds, SleepQueueEnds

\* The sample keeps to what ClientJobs allows.
LEMMA DemoNextIsCallsNext ==
    ASSUME DemoFramed, [DemoNext]_demoVars
    PROVE  Registered' /\ [CallsNext]_<<vars, calls>>
<1>0. Registered /\ JobsOK
  BY DEF DemoFramed, Framed
<1>1. ASSUME UNCHANGED <<stream, call, application, now, demo>>,
             \A g \in DOMAIN jobs :
                /\ g \in DOMAIN jobs'
                /\ jobs[g].callback = "running" => jobs'[g].callback = "running"
      PROVE  Registered'
  BY <1>0, <1>1 DEF Registered
<1>2. ASSUME NEW n \in 0 .. SuggestedSize, Reads(n), UNCHANGED <<calls, demos>>, aborted = "no"
      PROVE  Registered' /\ [CallsNext]_<<vars, calls>>
  <2>1. CallsNext
    BY <1>2 DEF CallsNext, CallsSteps, Framework
  <2>2. UNCHANGED stream
    BY <2>1, CallsAreSteps, StreamStays
  <2>3. \A g \in DOMAIN jobs : g \in DOMAIN jobs' /\ jobs'[g] = jobs[g]
    <3>1. CASE UNCHANGED jobs
      BY <3>1
    <3>2. ASSUME NEW job, jobs' = Append(jobs, job)
          PROVE  \A g \in DOMAIN jobs : g \in DOMAIN jobs' /\ jobs'[g] = jobs[g]
      <4>. DEFINE S == HandlerJob \cup {job}
      <4>0. jobs \in Seq(S) /\ job \in S
        BY <1>0 DEF JobsOK
      <4>. HIDE DEF S
      <4>1. /\ DOMAIN jobs = 1 .. Len(jobs) /\ Len(jobs) \in Nat
            /\ jobs' \in Seq(S) /\ Len(jobs') = Len(jobs) + 1
            /\ \A g \in 1 .. Len(jobs) : jobs'[g] = jobs[g]
        BY <3>2, <4>0, LenProperties, AppendProperties
      <4>2. DOMAIN jobs' = 1 .. Len(jobs')
        BY <4>1, LenProperties
      <4>. QED
        BY <4>1, <4>2
    <3>. QED
      BY <1>2, <3>1, <3>2 DEF Reads, ReadTooMuch, ReadPart, ReadWhole, ReadHeaderOnly,
                              ReadUninitialized
  <2>. QED
    BY <1>1, <1>2, <2>1, <2>2, <2>3 DEF calls, demos
<1>3. ASSUME NEW h \in DOMAIN jobs, OnStep(h) \/ SendTcpToClient(h),
             UNCHANGED <<calls, demos>>, aborted = "no"
      PROVE  Registered' /\ [CallsNext]_<<vars, calls>>
  <2>1. CallsNext
    BY <1>3 DEF CallsNext, CallsSteps, Framework
  <2>2. UNCHANGED stream
    BY <2>1, CallsAreSteps, StreamStays
  <2>. QED
    BY <1>0, <1>1, <1>3, <2>1, <2>2, RunningStays DEF calls, demos
<1>4. CASE OnTcpClose /\ UNCHANGED <<calls, demos>> /\ aborted = "no"
  <2>1. CallsNext
    BY <1>4 DEF CallsNext, CallsSteps, Framework
  <2>2. UNCHANGED <<stream, jobs>>
    BY <1>4 DEF OnTcpClose, client
  <2>. QED
    BY <1>1, <1>4, <2>1, <2>2 DEF calls, demos
<1>5. CASE application = "calls" /\ CallsSteps /\ UNCHANGED demos /\ aborted = "no"
  <2>1. CallsNext
    BY <1>5 DEF CallsNext
  <2>2. Registered'
    BY <1>0, <1>5 DEF Registered, demos
  <2>. QED
    BY <2>1, <2>2
<1>6. CASE application = "demo" /\ LoopStep /\ aborted = "no"
  BY <1>6, LoopKeepsRegistered
<1>7. ASSUME NEW h \in DOMAIN jobs, application = "demo", Driven(h) \/ DoIssueHttp(h),
             aborted = "no"
      PROVE  Registered' /\ [CallsNext]_<<vars, calls>>
  BY <1>7, DriveKeepsRegistered
<1>8. CASE UNCHANGED demoVars
  <2>1. UNCHANGED <<stream, jobs>>
    BY <1>8 DEF demoVars, vars
  <2>. QED
    BY <1>1, <1>8, <2>1 DEF demoVars, demos, calls
<1>. QED
  BY <1>2, <1>3, <1>4, <1>5, <1>6, <1>7, <1>8, Zenon DEF DemoNext, DemoSteps, Main, HandlerStep

LEMMA NextKeepsDemoFramed ==
    ASSUME DemoFramed, [DemoNext]_demoVars
    PROVE  DemoFramed'
<1>1. Registered' /\ [CallsNext]_<<vars, calls>>
  BY DemoNextIsCallsNext
<1>2. [Next]_vars
  BY <1>1, CallsAreSteps DEF calls
<1>3. Framed' /\ Counted'
  BY <1>2, NextKeepsFraming, NextKeepsCount DEF DemoFramed
<1>. QED
  BY <1>1, <1>3 DEF DemoFramed

\* What the sample's job does to its handlers is what ClientJobs, and with it
\* HttpHandler, allow any application: each step is one of theirs or none.
THEOREM DemoImplementsCalls == DemoSpec => CallsSpec
<1>1. DemoInit => CallsInit
  BY DEF DemoInit
<1>2. DemoFramed /\ [DemoNext]_demoVars => DemoFramed'
  BY NextKeepsDemoFramed
<1>3. DemoFramed /\ [DemoNext]_demoVars => [CallsNext]_<<vars, calls>>
  BY DemoNextIsCallsNext
<1>. QED
  BY <1>1, <1>2, <1>3, InitDemoFramed, PTL DEF DemoSpec, CallsSpec

\* So what is proved of them holds of the sample too: no byte of a connection is
\* lost ...
THEOREM DemoKeepsBytes == DemoSpec => []NoByteLost
  BY DemoImplementsCalls, CallsKeepBytes, PTL

\* ... and each handler answers once, whenever and however its callback job ends.
THEOREM DemoAnswersOnce == DemoSpec => []AnsweredOnce
  BY DemoImplementsCalls, CallsAnswerOnce, PTL

-----------------------------------------------------------------------------
(* ExtractJsonString of a part of a body.                                   *)

LEMMA LeastIs ==
    ASSUME NEW T \in SUBSET Nat, T # {}
    PROVE  Min(T) \in T /\ \A k \in T : Min(T) <= k
<1>1. \E n \in T : \A m \in T : n <= m
  BY LeastNatural
<1>. QED
  BY <1>1 DEF Min

LEMMA LeastIsTheOne ==
    ASSUME NEW T \in SUBSET Nat, NEW m \in T, \A k \in T : m <= k
    PROVE  Min(T) = m
<1>. DEFINE least == Min(T)
<1>1. least \in T /\ least <= m
  BY LeastIs
<1>. HIDE DEF least
<1>2. least \in Nat /\ m \in Nat /\ m <= least
  BY <1>1
<1>3. least = m
  BY <1>1, <1>2
<1>. QED
  BY <1>3 DEF least

\* p is the beginning of b, or all of it.
BeginningOf(p, b) ==
    /\ Len(p) \in Nat /\ DOMAIN p = 1 .. Len(p)
    /\ Len(b) \in Nat /\ DOMAIN b = 1 .. Len(b)
    /\ Len(p) <= Len(b)
    /\ \A i \in 1 .. Len(p) : p[i] = b[i]

\* What lies behind white space is the same if it is there.
LEMMA SkipInBoth ==
    ASSUME NEW p, NEW b, BeginningOf(p, b), NEW i \in Nat \ {0}
    PROVE  /\ Skip(p, i) \in Nat \ {0}
           /\ Skip(p, i) <= Len(p) => Skip(b, i) = Skip(p, i)
<1>. DEFINE T == {j \in i .. Len(p) : p[j] # "space"} \cup {Len(p) + 1}
            U == {j \in i .. Len(b) : b[j] # "space"} \cup {Len(b) + 1}
<1>0. Len(p) \in Nat /\ Len(b) \in Nat /\ Len(p) <= Len(b)
  BY DEF BeginningOf
<1>1. T \in SUBSET Nat /\ T # {} /\ U \in SUBSET Nat /\ 0 \notin T
  BY <1>0
<1>2. Skip(p, i) = Min(T) /\ Skip(b, i) = Min(U)
  BY DEF Skip
<1>3. Min(T) \in T /\ \A k \in T : Min(T) <= k
  BY <1>1, LeastIs
<1>4. ASSUME Min(T) <= Len(p) PROVE Min(U) = Min(T)
  <2>. DEFINE m == Min(T)
  <2>1. m \in Nat /\ m <= Len(p) /\ m \in T /\ \A k \in T : m <= k
    BY <1>1, <1>3, <1>4
  <2>. HIDE DEF m
  <2>2. m \in i .. Len(p) /\ p[m] # "space"
    BY <1>0, <2>1
  <2>3. m \in U
    BY <1>0, <2>2 DEF BeginningOf
  <2>4. ASSUME NEW k \in U PROVE m <= k
    <3>1. CASE k <= Len(p)
      BY <1>0, <2>1, <2>4, <3>1 DEF BeginningOf
    <3>2. CASE k > Len(p)
      BY <1>0, <1>1, <2>1, <2>4, <3>2
    <3>. QED
      BY <1>0, <1>1, <3>1, <3>2
  <2>. HIDE DEF U
  <2>5. Min(U) = m
    BY <1>1, <2>3, <2>4, LeastIsTheOne
  <2>. QED
    BY <2>5 DEF m
<1>. HIDE DEF T, U
<1>. QED
  BY <1>1, <1>2, <1>3, <1>4

\* The definition of Escaped has a solution, which is what it then is.
LEMMA EscapedIs ==
    ASSUME NEW b, Len(b) \in Nat, NEW first \in Nat \ {0}
    PROVE  \A k \in (first - 1) .. Len(b) :
              Escaped(b, first)[k] =
                 (k > first /\ b[k - 1] = "\\" /\ ~Escaped(b, first)[k - 1])
<1>. DEFINE D == (first - 1) .. Len(b)
<1>1. PICK g \in [Nat \X BOOLEAN -> BOOLEAN] :
         \A m \in Nat, x \in BOOLEAN :
            g[<<m, x>>] = (m > 0 /\ b[m + first - 1] = "\\" /\ ~x)
  <2>. WITNESS [p \in Nat \X BOOLEAN |->
                   (p[1] > 0 /\ b[p[1] + first - 1] = "\\" /\ ~p[2])]
               \in [Nat \X BOOLEAN -> BOOLEAN]
  <2>. QED
    OBVIOUS
<1>2. PICK f \in [Nat -> BOOLEAN] : Iterates(f, FALSE, g)
  <2>1. FALSE \in BOOLEAN
    OBVIOUS
  <2>. QED
    BY <2>1, IterationExists, Zenon
<1>. DEFINE e == [k \in D |-> f[k - (first - 1)]]
<1>3. ASSUME NEW k \in D
      PROVE  e[k] = (k > first /\ b[k - 1] = "\\" /\ ~e[k - 1])
  <2>1. CASE k = first - 1
    <3>1. e[k] = FALSE
      BY <1>2, <2>1 DEF Iterates
    <3>. QED
      BY <2>1, <3>1
  <2>2. CASE k # first - 1
    <3>. DEFINE m == k - first
    <3>1. m \in Nat /\ k - 1 \in D /\ k - (first - 1) = m + 1 /\ k - 1 - (first - 1) = m
      BY <2>2
    <3>2. e[k] = f[m + 1] /\ e[k - 1] = f[m] /\ f[m] \in BOOLEAN
      BY <3>1
    <3>3. f[m + 1] = g[<<m, f[m]>>]
      BY <1>2, <3>1 DEF Iterates
    <3>4. g[<<m, f[m]>>] = (m > 0 /\ b[m + first - 1] = "\\" /\ ~f[m])
      BY <1>1, <3>1, <3>2
    <3>5. m + first - 1 = k - 1 /\ (m > 0 <=> k > first)
      BY <3>1
    <3>. HIDE DEF m, e
    <3>. QED
      BY <3>2, <3>3, <3>4, <3>5
  <2>. QED
    BY <2>1, <2>2
<1>4. e = [k \in D |-> k > first /\ b[k - 1] = "\\" /\ ~e[k - 1]]
  BY <1>3
<1>. HIDE DEF e
<1>5. \E x : x = [k \in D |-> k > first /\ b[k - 1] = "\\" /\ ~x[k - 1]]
  BY <1>4
<1>6. Escaped(b, first)
         = [k \in D |-> k > first /\ b[k - 1] = "\\" /\ ~Escaped(b, first)[k - 1]]
  BY <1>5 DEF Escaped
<1>. QED
  BY <1>6

\* A token of a literal is escaped or not, whatever follows it.
LEMMA EscapedInBoth ==
    ASSUME NEW p, NEW b, BeginningOf(p, b), NEW first \in Nat \ {0}
    PROVE  \A k \in (first - 1) .. Len(p) : Escaped(p, first)[k] = Escaped(b, first)[k]
<1>0. Len(p) \in Nat /\ Len(b) \in Nat /\ Len(p) <= Len(b)
  BY DEF BeginningOf
<1>. DEFINE f == Escaped(p, first)
            g == Escaped(b, first)
            T == {m \in Nat : m + first - 1 <= Len(p) => f[m + first - 1] = g[m + first - 1]}
<1>1. \A k \in (first - 1) .. Len(p) :
         f[k] = (k > first /\ p[k - 1] = "\\" /\ ~f[k - 1])
  BY <1>0, EscapedIs
<1>2. \A k \in (first - 1) .. Len(b) :
         g[k] = (k > first /\ b[k - 1] = "\\" /\ ~g[k - 1])
  BY <1>0, EscapedIs
<1>. HIDE DEF f, g
<1>3. 0 \in T
  <2>1. ASSUME first - 1 <= Len(p) PROVE f[first - 1] = g[first - 1]
    <3>1. first - 1 \in (first - 1) .. Len(p) /\ first - 1 \in (first - 1) .. Len(b)
      BY <1>0, <2>1
    <3>2. ~(first - 1 > first)
      OBVIOUS
    <3>. QED
      BY <1>1, <1>2, <3>1, <3>2
  <2>2. 0 + first - 1 = first - 1
    OBVIOUS
  <2>. QED
    BY <2>1, <2>2
<1>4. ASSUME NEW m \in Nat, m \in T PROVE m + 1 \in T
  <2>1. ASSUME m + 1 + first - 1 <= Len(p) PROVE f[m + 1 + first - 1] = g[m + 1 + first - 1]
    <3>1. PICK k : k = m + first
      OBVIOUS
    <3>2. /\ k \in (first - 1) .. Len(p) /\ k \in (first - 1) .. Len(b)
          /\ m + first - 1 = k - 1 /\ m + 1 + first - 1 = k /\ k - 1 <= Len(p)
      BY <1>0, <2>1, <3>1
    <3>3. f[k - 1] = g[k - 1]
      BY <1>4, <3>2
    <3>4. k > first => p[k - 1] = b[k - 1]
      BY <3>2 DEF BeginningOf
    <3>5. f[k] = (k > first /\ p[k - 1] = "\\" /\ ~f[k - 1])
      BY <1>1, <3>2
    <3>6. g[k] = (k > first /\ b[k - 1] = "\\" /\ ~g[k - 1])
      BY <1>2, <3>2
    <3>7. f[k] = g[k]
      BY <3>3, <3>4, <3>5, <3>6
    <3>. QED
      BY <3>2, <3>7
  <2>. QED
    BY <2>1
<1>. HIDE DEF T
<1>5. \A m \in Nat : m \in T
  BY <1>3, <1>4, NaturalInduction
<1>6. ASSUME NEW k \in (first - 1) .. Len(p) PROVE f[k] = g[k]
  <2>1. PICK m : m = k - (first - 1)
    OBVIOUS
  <2>2. m \in Nat /\ m + first - 1 = k /\ k <= Len(p)
    BY <1>0, <2>1
  <2>3. m \in T
    BY <1>5, <2>2
  <2>. QED
    BY <2>2, <2>3 DEF T
<1>. QED
  BY <1>6 DEF f, g

\* Where a literal ends in the part, it ends in the whole.
LEMMA ClosingInBoth ==
    ASSUME NEW p, NEW b, BeginningOf(p, b), NEW first \in Nat \ {0}, Closing(p, first) # 0
    PROVE  /\ Closing(p, first) \in first .. Len(p)
           /\ Closing(b, first) = Closing(p, first)
<1>0. Len(p) \in Nat /\ Len(b) \in Nat /\ Len(p) <= Len(b)
  BY DEF BeginningOf
<1>. DEFINE T == {k \in first .. Len(p) : p[k] = "quote" /\ ~Escaped(p, first)[k]}
            U == {k \in first .. Len(b) : b[k] = "quote" /\ ~Escaped(b, first)[k]}
<1>1. /\ Closing(p, first) = IF T = {} THEN 0 ELSE Min(T)
      /\ Closing(b, first) = IF U = {} THEN 0 ELSE Min(U)
  BY DEF Closing
<1>2. \A k \in first .. Len(p) : k \in T <=> k \in U
  BY <1>0, EscapedInBoth DEF BeginningOf
<1>3. T \subseteq first .. Len(p) /\ U \subseteq first .. Len(b)
  OBVIOUS
<1>. HIDE DEF T, U
<1>4. T # {} /\ T \in SUBSET Nat /\ U \in SUBSET Nat
  BY <1>0, <1>1, <1>3
<1>5. Min(T) \in T /\ \A k \in T : Min(T) <= k
  BY <1>4, LeastIs
<1>. DEFINE m == Min(T)
<1>6. m \in first .. Len(p) /\ m \in U
  BY <1>2, <1>3, <1>5
<1>7. ASSUME NEW k \in U PROVE m <= k
  <2>1. CASE k <= Len(p)
    BY <1>0, <1>2, <1>3, <1>5, <2>1
  <2>2. CASE k > Len(p)
    BY <1>0, <1>3, <1>6, <2>2
  <2>. QED
    BY <1>0, <1>3, <2>1, <2>2
<1>. HIDE DEF m
<1>8. Min(U) = m
  BY <1>4, <1>6, <1>7, LeastIsTheOne
<1>. QED
  BY <1>1, <1>4, <1>6, <1>8 DEF m

LEMMA UnescapedInBoth ==
    ASSUME NEW p, NEW b, BeginningOf(p, b), NEW first \in Nat \ {0},
           NEW last \in Nat, last <= Len(p)
    PROVE  Unescaped(b, first, last) = Unescaped(p, first, last)
<1>. DEFINE T == {k \in first .. last : p[k] # "\\" \/ Escaped(p, first)[k]}
            U == {k \in first .. last : b[k] # "\\" \/ Escaped(b, first)[k]}
            charsT == [k \in T |->
                         IF p[k] = "n" /\ Escaped(p, first)[k] THEN "newline" ELSE p[k]]
            charsU == [k \in U |->
                         IF b[k] = "n" /\ Escaped(b, first)[k] THEN "newline" ELSE b[k]]
<1>1. \A k \in first .. last : p[k] = b[k] /\ Escaped(p, first)[k] = Escaped(b, first)[k]
  BY EscapedInBoth DEF BeginningOf
<1>2. T = U /\ charsT = charsU
  BY <1>1
<1>. DEFINE placesT == SetToSortSeq(T, LAMBDA j, k : j < k)
            placesU == SetToSortSeq(U, LAMBDA j, k : j < k)
<1>3. /\ Unescaped(p, first, last) = [i \in DOMAIN placesT |-> charsT[placesT[i]]]
      /\ Unescaped(b, first, last) = [i \in DOMAIN placesU |-> charsU[placesU[i]]]
  BY DEF Unescaped
<1>. HIDE DEF T, U, charsT, charsU
<1>4. placesT = placesU
  BY <1>2
<1>. HIDE DEF placesT, placesU
<1>. QED
  BY <1>2, <1>3, <1>4

\* A value that is found in a part of a body is that of the whole body.
LEMMA ValueOfPart ==
    ASSUME NEW p, NEW b, BeginningOf(p, b), ExtractJsonString(p) # NoValue
    PROVE  ExtractJsonString(b) = ExtractJsonString(p)
<1>. DEFINE Keys(s) == {i \in DOMAIN s : s[i] = "key"}
            Colon(s) == Skip(s, Min(Keys(s)) + 1)
            Quote(s) == Skip(s, Colon(s) + 1)
            Ending(s) == Closing(s, Quote(s) + 1)
            Found(s) == /\ Keys(s) # {} /\ At(s, Colon(s), ":")
                        /\ At(s, Quote(s), "quote") /\ Ending(s) # 0
<1>0. /\ Len(p) \in Nat /\ Len(b) \in Nat /\ Len(p) <= Len(b)
      /\ DOMAIN p = 1 .. Len(p) /\ DOMAIN b = 1 .. Len(b)
  BY DEF BeginningOf
<1>1. \A s : ExtractJsonString(s) =
                IF Found(s) THEN Unescaped(s, Quote(s) + 1, Ending(s) - 1) ELSE NoValue
  BY DEF ExtractJsonString
<1>2. Found(p)
  BY <1>1
<1>3. Min(Keys(b)) = Min(Keys(p)) /\ Min(Keys(p)) \in Nat \ {0} /\ Keys(b) # {}
  <2>. DEFINE T == Keys(p)
              U == Keys(b)
              m == Min(T)
  <2>1. T \in SUBSET Nat /\ T # {} /\ U \in SUBSET Nat /\ 0 \notin T
    BY <1>0, <1>2
  <2>. HIDE DEF T
  <2>2. m \in T /\ \A k \in T : m <= k
    BY <2>1, LeastIs
  <2>. HIDE DEF m
  <2>3. \A k \in 1 .. Len(p) : k \in T <=> k \in U
    BY <1>0 DEF T, BeginningOf
  <2>4. m \in 1 .. Len(p)
    BY <1>0, <2>2 DEF T
  <2>5. ASSUME NEW k \in U PROVE m <= k
    <3>1. CASE k <= Len(p)
      BY <1>0, <2>2, <2>3, <3>1
    <3>2. CASE k > Len(p)
      BY <1>0, <2>1, <2>4, <3>2
    <3>. QED
      BY <1>0, <2>1, <3>1, <3>2
  <2>6. m \in U
    BY <2>2, <2>3, <2>4
  <2>. HIDE DEF U
  <2>7. Min(U) = m
    BY <2>1, <2>5, <2>6, LeastIsTheOne
  <2>. QED
    BY <2>1, <2>2, <2>6, <2>7 DEF T, U, m
<1>. HIDE DEF Keys
<1>4. Colon(b) = Colon(p) /\ Colon(p) \in 1 .. Len(p)
  <2>1. PICK i : i = Min(Keys(p)) + 1
    OBVIOUS
  <2>2. i \in Nat \ {0} /\ Colon(p) = Skip(p, i) /\ Colon(b) = Skip(b, i)
    BY <1>3, <2>1
  <2>3. Colon(p) <= Len(p)
    BY <1>2 DEF At
  <2>. HIDE DEF Colon
  <2>4. Skip(p, i) \in Nat \ {0} /\ (Skip(p, i) <= Len(p) => Skip(b, i) = Skip(p, i))
    BY <2>2, SkipInBoth
  <2>. QED
    BY <1>0, <2>2, <2>3, <2>4
<1>. HIDE DEF Colon
<1>5. Quote(b) = Quote(p) /\ Quote(p) \in 1 .. Len(p)
  <2>1. PICK i : i = Colon(p) + 1
    OBVIOUS
  <2>2. i \in Nat \ {0} /\ Quote(p) = Skip(p, i) /\ Quote(b) = Skip(b, i)
    BY <1>4, <2>1
  <2>3. Quote(p) <= Len(p)
    BY <1>2 DEF At
  <2>. HIDE DEF Quote
  <2>4. Skip(p, i) \in Nat \ {0} /\ (Skip(p, i) <= Len(p) => Skip(b, i) = Skip(p, i))
    BY <2>2, SkipInBoth
  <2>. QED
    BY <1>0, <2>2, <2>3, <2>4
<1>. HIDE DEF Quote
<1>6. PICK first : first = Quote(p) + 1
  OBVIOUS
<1>7. first \in Nat \ {0} /\ Ending(p) = Closing(p, first) /\ Ending(b) = Closing(b, first)
  BY <1>5, <1>6
<1>8. Ending(p) # 0
  BY <1>2
<1>. HIDE DEF Ending
<1>9. Ending(b) = Ending(p) /\ Ending(p) \in first .. Len(p)
  BY <1>7, <1>8, ClosingInBoth
<1>10. Found(b)
  <2>1. At(b, Colon(b), ":") /\ At(b, Quote(b), "quote")
    BY <1>0, <1>2, <1>4, <1>5 DEF At, BeginningOf
  <2>. QED
    BY <1>3, <1>8, <1>9, <2>1
<1>11. PICK last : last = Ending(p) - 1
  OBVIOUS
<1>12. last \in Nat /\ last <= Len(p)
  BY <1>0, <1>7, <1>9, <1>11
<1>13. Unescaped(b, first, last) = Unescaped(p, first, last)
  BY <1>7, <1>12, UnescapedInBoth
<1>. HIDE DEF Found
<1>14. /\ ExtractJsonString(p) = Unescaped(p, first, last)
       /\ ExtractJsonString(b) = Unescaped(b, first, last)
  BY <1>1, <1>2, <1>5, <1>6, <1>9, <1>10, <1>11
<1>. QED
  BY <1>13, <1>14

LEMMA PartBegins ==
    ASSUME NEW b \in Bodies, NEW n \in 0 .. Len(b)
    PROVE  BeginningOf(SubSeq(b, 1, n), b)
<1>1. b \in Seq(BodyTokens)
  BY BodiesAreTokens
<1>2. Len(b) \in Nat /\ DOMAIN b = 1 .. Len(b) /\ \A i \in 1 .. Len(b) : b[i] \in BodyTokens
  BY <1>1, LenProperties, ElementOfSeq
<1>. DEFINE p == SubSeq(b, 1, n)
<1>3. p \in Seq(BodyTokens) /\ Len(p) = n /\ \A i \in 1 .. n : p[i] = b[i]
  BY <1>1, <1>2, SubSeqProperties
<1>. HIDE DEF p
<1>4. DOMAIN p = 1 .. Len(p)
  BY <1>3, LenProperties
<1>5. BeginningOf(p, b)
  BY <1>2, <1>3, <1>4 DEF BeginningOf
<1>. QED
  BY <1>5 DEF p

-----------------------------------------------------------------------------
(* The SleepQueue.                                                          *)

\* A list with an element inserted at a position.
LEMMA Inserted ==
    ASSUME NEW S, NEW s \in Seq(S), NEW i \in 1 .. Len(s) + 1, NEW e \in S
    PROVE  /\ InsertAt(s, i, e) \in Seq(S)
           /\ Len(InsertAt(s, i, e)) = Len(s) + 1
           /\ \A j \in 1 .. Len(s) + 1 : InsertAt(s, i, e)[j] =
                  IF j < i THEN s[j] ELSE IF j = i THEN e ELSE s[j - 1]
<1>. DEFINE a == SubSeq(s, 1, i - 1)
            b == SubSeq(s, i, Len(s))
<1>1. \A k \in 1 .. Len(s) : s[k] \in S
  BY ElementOfSeq
<1>2. /\ a \in Seq(S) /\ Len(a) = i - 1
      /\ \A k \in 1 .. i - 1 : a[k] = s[k]
  BY <1>1, SubSeqProperties
<1>3. /\ b \in Seq(S) /\ Len(b) = Len(s) - i + 1
      /\ \A k \in 1 .. Len(s) - i + 1 : b[k] = s[i + k - 1]
  BY <1>1, SubSeqProperties
<1>4. /\ <<e>> \in Seq(S) /\ Len(<<e>>) = 1 /\ <<e>>[1] = e
  OBVIOUS
<1>0. Len(s) \in Nat
  BY LenProperties
<1>. HIDE DEF a, b
<1>5. /\ a \o <<e>> \in Seq(S) /\ Len(a \o <<e>>) = i
      /\ \A k \in 1 .. i : (a \o <<e>>)[k] = IF k <= i - 1 THEN a[k] ELSE <<e>>[k - (i - 1)]
  BY <1>2, <1>4, ConcatProperties
<1>6. /\ (a \o <<e>>) \o b \in Seq(S) /\ Len((a \o <<e>>) \o b) = Len(s) + 1
      /\ \A k \in 1 .. Len(s) + 1 : ((a \o <<e>>) \o b)[k] =
             IF k <= i THEN (a \o <<e>>)[k] ELSE b[k - i]
  BY <1>3, <1>5, ConcatProperties
<1>7. InsertAt(s, i, e) = (a \o <<e>>) \o b
  BY DEF InsertAt, a, b
<1>8. ASSUME NEW j \in 1 .. Len(s) + 1
      PROVE  ((a \o <<e>>) \o b)[j] = IF j < i THEN s[j] ELSE IF j = i THEN e ELSE s[j - 1]
  <2>1. CASE j < i
    BY <2>1, <1>2, <1>5, <1>6
  <2>2. CASE j = i
    BY <2>2, <1>4, <1>5, <1>6
  <2>3. CASE j > i
    <3>1. j - i \in 1 .. Len(s) - i + 1
      BY <2>3
    <3>2. b[j - i] = s[j - 1]
      BY <3>1, <1>3
    <3>. QED
      BY <2>3, <3>2, <1>6
  <2>4. j < i \/ j = i \/ j > i
    BY <1>0
  <2>. QED
    BY <2>1, <2>2, <2>3, <2>4
<1>. QED
  BY <1>6, <1>7, <1>8

\* A non-empty set of numbers up to n has a largest one, and Max returns it.
LEMMA Largest ==
    ASSUME NEW n \in Nat, NEW T \in SUBSET (0 .. n), T # {}
    PROVE  Max(T) \in T /\ \A k \in T : k <= Max(T)
<1>. DEFINE U == {m \in 0 .. n : n - m \in T}
<1>1. PICK k \in T : TRUE
  OBVIOUS
<1>2. n - k \in U
  BY <1>1
<1>3. U \in SUBSET Nat /\ U # {}
  <2>1. \A m \in U : m \in Nat
    OBVIOUS
  <2>. HIDE DEF U
  <2>. QED
    BY <1>2, <2>1
<1>4. PICK u \in U : \A m \in U : u <= m
  BY <1>3, LeastNatural
<1>5. ASSUME NEW x \in T PROVE x <= n - u
  <2>1. n - x \in U
    BY <1>5
  <2>2. u <= n - x
    BY <1>4, <2>1
  <2>. QED
    BY <2>2
<1>6. \E x \in T : \A y \in T : x >= y
  BY <1>4, <1>5
<1>. QED
  BY <1>6 DEF Max

Entry == [job : Handlers, at : Nat]

Sleeping(d) == d.state = "kAwaitSleep" /\ ~d.woken

\* The queue has one entry for each job that sleeps, with the time at which that
\* is to be woken, in the order of these times.
SleepersOK(s, d) ==
    /\ s \in Seq(Entry)
    /\ \A i \in 1 .. Len(s) :
         Sleeping(d[s[i].job]) /\ s[i].at = d[s[i].job].since + d[s[i].job].SleepMs
    /\ \A i, j \in 1 .. Len(s) : i < j => s[i].at <= s[j].at /\ s[i].job # s[j].job
    /\ \A h \in Handlers : Sleeping(d[h]) => \E i \in 1 .. Len(s) : s[i].job = h

\* A job that neither slept nor sleeps is not in the queue.
LEMMA EditKeepsSleepers ==
    ASSUME NEW s, NEW d \in [Handlers -> DemoJob], SleepersOK(s, d),
           NEW h \in Handlers, NEW new, ~Sleeping(d[h]), ~Sleeping(new)
    PROVE  SleepersOK(s, [d EXCEPT ![h] = new])
<1>. DEFINE e == [d EXCEPT ![h] = new]
<1>1. \A g \in Handlers : e[g] = IF g = h THEN new ELSE d[g]
  OBVIOUS
<1>2. s \in Seq(Entry)
  BY DEF SleepersOK
<1>3. \A i \in 1 .. Len(s) : s[i].job \in Handlers /\ s[i].job # h
  <2>1. \A i \in 1 .. Len(s) : s[i] \in Entry
    BY <1>2, ElementOfSeq
  <2>2. \A i \in 1 .. Len(s) : s[i].job \in Handlers
    BY <2>1 DEF Entry
  <2>. QED
    BY <2>2 DEF SleepersOK
<1>. HIDE DEF e
<1>4. SleepersOK(s, e)
  BY <1>1, <1>3 DEF SleepersOK
<1>. QED
  BY <1>4 DEF e

\* FindPosition: behind the entries that are earlier.
LEMMA Position ==
    ASSUME SleepersOK(sleepers, demo), NEW at \in Nat
    PROVE  /\ FindPosition(at) \in 1 .. Len(sleepers) + 1
           /\ \A k \in 1 .. Len(sleepers) :
                /\ k < FindPosition(at) => sleepers[k].at <= at
                /\ k >= FindPosition(at) => at <= sleepers[k].at
<1>. DEFINE T == {0} \cup {i \in DOMAIN sleepers : sleepers[i].at < at}
            m == Max(T)
<1>0. sleepers \in Seq(Entry)
  BY DEF SleepersOK
<1>1. /\ Len(sleepers) \in Nat /\ DOMAIN sleepers = 1 .. Len(sleepers)
      /\ \A k \in 1 .. Len(sleepers) : sleepers[k] \in Entry
  BY <1>0, LenProperties, ElementOfSeq
<1>2. \A k \in 1 .. Len(sleepers) : sleepers[k].at \in Nat
  BY <1>1 DEF Entry
<1>3. T \in SUBSET (0 .. Len(sleepers)) /\ T # {}
  BY <1>1
<1>4. Max(T) \in T /\ \A k \in T : k <= Max(T)
  BY <1>1, <1>3, Largest
<1>5. FindPosition(at) = m + 1
  BY DEF FindPosition
<1>6. m \in T /\ m \in 0 .. Len(sleepers) /\ \A k \in T : k <= m
  BY <1>3, <1>4
<1>. HIDE DEF m
<1>7. ASSUME NEW k \in 1 .. Len(sleepers), k < m + 1
      PROVE  sleepers[k].at <= at
  <2>1. m \in 1 .. Len(sleepers) /\ sleepers[m].at < at
    BY <1>1, <1>6, <1>7
  <2>2. k = m \/ sleepers[k].at <= sleepers[m].at
    <3>1. k = m \/ k < m
      BY <1>1, <1>6, <1>7
    <3>. QED
      BY <2>1, <3>1 DEF SleepersOK
  <2>. QED
    BY <1>2, <2>1, <2>2
<1>8. ASSUME NEW k \in 1 .. Len(sleepers), k >= m + 1
      PROVE  at <= sleepers[k].at
  <2>1. k \notin T
    BY <1>6, <1>8
  <2>. QED
    BY <1>1, <1>2, <2>1
<1>. QED
  BY <1>5, <1>6, <1>7, <1>8

\* SleepQueue::Join.
LEMMA JoinKeepsSleepers ==
    ASSUME SleepersOK(sleepers, demo), demo \in [Handlers -> DemoJob], NEW h \in Handlers,
           NEW new, Sleeping(new), ~Sleeping(demo[h]), NEW at \in Nat,
           at = new.since + new.SleepMs
    PROVE  SleepersOK(JoinSleepQueue(h, at), [demo EXCEPT ![h] = new])
<1>. DEFINE i == FindPosition(at)
            e == [job |-> h, at |-> at]
            s == JoinSleepQueue(h, at)
            d == [demo EXCEPT ![h] = new]
<1>0. sleepers \in Seq(Entry)
  BY DEF SleepersOK
<1>1. /\ Len(sleepers) \in Nat
      /\ \A k \in 1 .. Len(sleepers) : sleepers[k] \in Entry
  BY <1>0, LenProperties, ElementOfSeq
<1>2. /\ i \in 1 .. Len(sleepers) + 1
      /\ \A k \in 1 .. Len(sleepers) :
           /\ k < i => sleepers[k].at <= at
           /\ k >= i => at <= sleepers[k].at
  BY Position
<1>3. e \in Entry /\ e.job = h /\ e.at = at /\ s = InsertAt(sleepers, i, e)
  BY DEF Entry, JoinSleepQueue
<1>4. \A g \in Handlers : d[g] = IF g = h THEN new ELSE demo[g]
  OBVIOUS
<1>. HIDE DEF i, e, s, d
<1>5. /\ s \in Seq(Entry)
      /\ Len(s) = Len(sleepers) + 1
      /\ \A j \in 1 .. Len(sleepers) + 1 :
           s[j] = IF j < i THEN sleepers[j] ELSE IF j = i THEN e ELSE sleepers[j - 1]
  BY <1>0, <1>2, <1>3, Inserted
<1>6. \A k \in 1 .. Len(sleepers) :
         /\ sleepers[k].job \in Handlers /\ sleepers[k].job # h
         /\ d[sleepers[k].job] = demo[sleepers[k].job]
  <2>1. \A k \in 1 .. Len(sleepers) : sleepers[k].job \in Handlers
    BY <1>1 DEF Entry
  <2>2. \A k \in 1 .. Len(sleepers) : sleepers[k].job # h
    BY DEF SleepersOK
  <2>. QED
    BY <1>4, <2>1, <2>2
\* Where an element of the new list was before, 0 if nowhere.
<1>. DEFINE old(j) == IF j < i THEN j ELSE j - 1
<1>7. \A j \in 1 .. Len(s) : j # i => old(j) \in 1 .. Len(sleepers) /\ s[j] = sleepers[old(j)]
  BY <1>1, <1>2, <1>5
<1>8. \A j \in 1 .. Len(s) :
         Sleeping(d[s[j].job]) /\ s[j].at = d[s[j].job].since + d[s[j].job].SleepMs
  <2>. SUFFICES ASSUME NEW j \in 1 .. Len(s)
                PROVE  /\ Sleeping(d[s[j].job])
                       /\ s[j].at = d[s[j].job].since + d[s[j].job].SleepMs
    OBVIOUS
  <2>1. CASE j = i
    BY <1>2, <1>3, <1>4, <1>5, <2>1
  <2>2. CASE j # i
    <3>1. PICK k \in 1 .. Len(sleepers) : s[j] = sleepers[k]
      BY <1>7, <2>2
    <3>. QED
      BY <1>6, <3>1 DEF SleepersOK
  <2>. QED
    BY <2>1, <2>2
<1>9. \A j, k \in 1 .. Len(s) : j < k => s[j].at <= s[k].at /\ s[j].job # s[k].job
  <2>. SUFFICES ASSUME NEW j \in 1 .. Len(s), NEW k \in 1 .. Len(s), j < k
                PROVE  s[j].at <= s[k].at /\ s[j].job # s[k].job
    OBVIOUS
  <2>1. CASE j = i
    <3>1. k # i /\ s[j] = e /\ old(k) \in 1 .. Len(sleepers) /\ old(k) >= i
      BY <1>2, <1>5, <1>7, <2>1
    <3>. QED
      BY <1>2, <1>3, <1>6, <1>7, <3>1
  <2>2. CASE k = i
    <3>1. j # i /\ s[k] = e /\ old(j) \in 1 .. Len(sleepers) /\ old(j) < i
      BY <1>2, <1>5, <1>7, <2>2
    <3>. QED
      BY <1>2, <1>3, <1>6, <1>7, <3>1
  <2>3. CASE j # i /\ k # i
    <3>1. old(j) \in 1 .. Len(sleepers) /\ old(k) \in 1 .. Len(sleepers) /\ old(j) < old(k)
      BY <1>2, <1>7, <2>3
    <3>2. s[j] = sleepers[old(j)] /\ s[k] = sleepers[old(k)]
      BY <1>7, <2>3
    <3>. HIDE DEF old
    <3>. QED
      BY <3>1, <3>2 DEF SleepersOK
  <2>. QED
    BY <2>1, <2>2, <2>3
<1>10. \A g \in Handlers : Sleeping(d[g]) => \E j \in 1 .. Len(s) : s[j].job = g
  <2>. SUFFICES ASSUME NEW g \in Handlers, Sleeping(d[g])
                PROVE  \E j \in 1 .. Len(s) : s[j].job = g
    OBVIOUS
  <2>1. CASE g = h
    BY <1>2, <1>3, <1>5, <2>1
  <2>2. CASE g # h
    <3>1. PICK k \in 1 .. Len(sleepers) : sleepers[k].job = g
      BY <1>4, <2>2 DEF SleepersOK
    <3>2. PICK j : j = IF k < i THEN k ELSE k + 1
      OBVIOUS
    <3>3. j \in 1 .. Len(s) /\ s[j] = sleepers[k]
      BY <1>1, <1>2, <1>5, <3>2
    <3>. QED
      BY <3>1, <3>3
  <2>. QED
    BY <2>1, <2>2
<1>11. SleepersOK(s, d)
  BY <1>5, <1>8, <1>9, <1>10 DEF SleepersOK
<1>. QED
  BY <1>11 DEF s, d

\* SleepQueue::Dequeue.
LEMMA WakeKeepsSleepers ==
    ASSUME NEW s, NEW d \in [Handlers -> DemoJob], SleepersOK(s, d), s # <<>>,
           NEW new, ~Sleeping(new)
    PROVE  /\ Head(s).job \in Handlers /\ Sleeping(d[Head(s).job])
           /\ Head(s).at = d[Head(s).job].since + d[Head(s).job].SleepMs
           /\ SleepersOK(Tail(s), [d EXCEPT ![Head(s).job] = new])
<1>0. s \in Seq(Entry)
  BY DEF SleepersOK
<1>1. /\ Len(s) \in Nat \ {0} /\ Head(s) = s[1]
      /\ \A k \in 1 .. Len(s) : s[k] \in Entry
  BY <1>0, EmptySeq, LenProperties, ElementOfSeq
<1>. DEFINE h == Head(s).job
            t == Tail(s)
            e == [d EXCEPT ![h] = new]
<1>2. /\ t \in Seq(Entry) /\ Len(t) = Len(s) - 1
      /\ \A k \in 1 .. Len(s) - 1 : t[k] = s[k + 1]
  BY <1>0, <1>1, HeadTailProperties
<1>3. h \in Handlers /\ Sleeping(d[h]) /\ Head(s).at = d[h].since + d[h].SleepMs
  BY <1>1 DEF Entry, SleepersOK
<1>4. \A g \in Handlers : e[g] = IF g = h THEN new ELSE d[g]
  OBVIOUS
<1>5. \A k \in 1 .. Len(t) :
         /\ k + 1 \in 1 .. Len(s) /\ t[k] = s[k + 1] /\ s[k + 1].job \in Handlers
         /\ s[k + 1].job # h
  <2>. SUFFICES ASSUME NEW k \in 1 .. Len(t)
                PROVE  /\ k + 1 \in 1 .. Len(s) /\ t[k] = s[k + 1]
                       /\ s[k + 1].job \in Handlers /\ s[k + 1].job # h
    OBVIOUS
  <2>1. k + 1 \in 1 .. Len(s) /\ 1 \in 1 .. Len(s) /\ 1 < k + 1 /\ t[k] = s[k + 1]
    BY <1>1, <1>2
  <2>2. s[k + 1].job \in Handlers
    BY <1>1, <2>1 DEF Entry
  <2>3. s[1].job # s[k + 1].job
    BY <2>1 DEF SleepersOK
  <2>. QED
    BY <1>1, <2>1, <2>2, <2>3
<1>. HIDE DEF h, t, e
<1>6. \A k \in 1 .. Len(t) :
         Sleeping(e[t[k].job]) /\ t[k].at = e[t[k].job].since + e[t[k].job].SleepMs
  BY <1>4, <1>5 DEF SleepersOK
<1>7. \A j, k \in 1 .. Len(t) : j < k => t[j].at <= t[k].at /\ t[j].job # t[k].job
  BY <1>5 DEF SleepersOK
<1>8. \A g \in Handlers : Sleeping(e[g]) => \E k \in 1 .. Len(t) : t[k].job = g
  <2>. SUFFICES ASSUME NEW g \in Handlers, Sleeping(e[g])
                PROVE  \E k \in 1 .. Len(t) : t[k].job = g
    OBVIOUS
  <2>1. g # h /\ Sleeping(d[g])
    BY <1>4
  <2>2. PICK j \in 1 .. Len(s) : s[j].job = g
    BY <2>1 DEF SleepersOK
  <2>3. j # 1
    BY <1>1, <2>1, <2>2 DEF h
  <2>4. PICK k : k = j - 1
    OBVIOUS
  <2>5. k \in 1 .. Len(t) /\ t[k] = s[j]
    BY <1>1, <1>2, <2>3, <2>4
  <2>. QED
    BY <2>2, <2>5
<1>9. SleepersOK(t, e)
  BY <1>2, <1>6, <1>7, <1>8 DEF SleepersOK
<1>. QED
  BY <1>3, <1>9 DEF h, t, e

-----------------------------------------------------------------------------
(* The replies are true and in time.                                        *)

\* A request has been answered or timed out by the tick after its time ...
InTime(d, t) == t <= d.since + kHttpTimeoutMs \/ t <= d.since + 1

\* ... and a sleep has ended by the tick after its own.
SleptUntil(d, t) == t <= d.since + d.SleepMs + 1

\* What is true of a job while the loop is at l and the clock at t.  Where the
\* tick is over, nothing overdue is left.
Truthful(d, t, l) ==
    /\ d.since <= t
    /\ d.state = "kStart" => d.Command = "kIgnore"
    /\ d.woken => d.state = "kAwaitSleep"
    /\ d.state # "kFinish" => d.reply = ""
    /\ d.state = "kIssueHttp" =>
         /\ d.Command = "kUuid"
         /\ InTime(d, t)
         /\ l \in {"sleep", "poll"} => t < d.since + kHttpTimeoutMs \/ t = d.since
    /\ d.state = "kAwaitSleep" =>
         /\ d.Command = "kSleep"
         /\ SleptUntil(d, t)
         /\ d.woken => d.since + d.SleepMs <= t
         /\ ~d.woken /\ l = "poll" => t <= d.since + d.SleepMs
    /\ d.state = "kFinish" =>
         /\ d.Command = "kUuid" => InTime(d, t)
         /\ d.Command = "kSleep" => SleptUntil(d, t)
         /\ d.reply = "slept" => SleptUntil(d, t) /\ d.since + d.SleepMs <= t
         /\ d.reply = "uuid" => d.value = d.whole

OnTime ==
    /\ loop \in {"due", "delay", "sleep", "poll"}
    /\ \A h \in Handlers : Truthful(demo[h], now, loop)
    /\ SleepersOK(sleepers, demo)

LEMMA InitOnTime == DemoInit => OnTime
<1>. SUFFICES ASSUME DemoInit PROVE OnTime
  OBVIOUS
<1>1. \A h \in Handlers : demo[h] = NewDemo
  BY DEF DemoInit
<1>2. now = 0 /\ loop = "due" /\ sleepers = <<>>
  BY DEF DemoInit
<1>3. Truthful(NewDemo, now, loop)
  BY <1>2 DEF Truthful, NewDemo
<1>4. SleepersOK(sleepers, demo)
  <2>1. ~Sleeping(NewDemo)
    BY DEF Sleeping, NewDemo
  <2>2. sleepers \in Seq(Entry) /\ Len(sleepers) = 0
    BY <1>2, EmptySeq
  <2>. QED
    BY <1>1, <2>1, <2>2 DEF SleepersOK
<1>. QED
  BY <1>1, <1>2, <1>3, <1>4 DEF OnTime

\* A step of one job keeps the invariant if it does for that job and the queue.
LEMMA EditKeepsOnTime ==
    ASSUME Registered, OnTime, NEW h \in Handlers, NEW new, DemoEdits(h, new),
           Truthful(new, now, loop), SleepersOK(sleepers', demo')
    PROVE  OnTime'
<1>1. \A g \in Handlers : demo'[g] = IF g = h THEN new ELSE demo[g]
  BY DEF DemoEdits, Registered
<1>2. now' = now /\ loop' = loop
  BY DEF DemoEdits
<1>3. \A g \in Handlers : Truthful(demo'[g], now, loop)
  BY <1>1 DEF OnTime
<1>. QED
  BY <1>2, <1>3 DEF OnTime

\* One that leaves the queue alone.
LEMMA QuietEditKeepsOnTime ==
    ASSUME Registered, OnTime, NEW h \in Handlers, NEW new, DemoEdits(h, new),
           Truthful(new, now, loop), UNCHANGED sleepers,
           ~Sleeping(demo[h]), ~Sleeping(new)
    PROVE  OnTime'
<1>1. demo' = [demo EXCEPT ![h] = new] /\ demo \in [Handlers -> DemoJob]
  BY DEF DemoEdits, Registered
<1>2. SleepersOK(sleepers, [demo EXCEPT ![h] = new])
  BY <1>1, EditKeepsSleepers DEF OnTime
<1>3. SleepersOK(sleepers', demo')
  BY <1>1, <1>2
<1>. QED
  BY <1>3, EditKeepsOnTime

\* What Replies leaves behind.
LEMMA RepliesKeepsOnTime ==
    ASSUME Registered, OnTime, application = "demo", NEW h \in Handlers,
           NEW reply \in ReplyTexts, Replies(h, reply), ~Sleeping(demo[h]),
           Truthful([demo[h] EXCEPT !.state = "kFinish", !.woken = FALSE, !.reply = reply],
                    now, loop)
    PROVE  OnTime'
<1>. DEFINE new == [demo[h] EXCEPT !.state = "kFinish", !.woken = FALSE, !.reply = reply]
<1>1. DemoEdits(h, new) /\ UNCHANGED sleepers
  BY RepliesIsEdit
<1>2. new.state = "kFinish"
  BY JobType DEF DemoJob
<1>3. Truthful(new, now, loop)
  OBVIOUS
<1>. HIDE DEF new
<1>. QED
  BY <1>1, <1>2, <1>3, QuietEditKeepsOnTime DEF Sleeping

\* A job is deleted.
LEMMA EndKeepsOnTime ==
    ASSUME Registered, OnTime, application = "demo", NEW h \in Handlers, ~Sleeping(demo[h]),
           demo' = [demo EXCEPT ![h] = Deleted],
           UNCHANGED <<calls, application, now, loop, sleepers>>
    PROVE  OnTime'
<1>1. DemoEdits(h, Deleted)
  BY DoneIsDemoJob, Zenon DEF DemoEdits
<1>2. Truthful(Deleted, now, loop) /\ ~Sleeping(Deleted)
  <2>1. /\ Deleted.state = "kDone" /\ ~Deleted.woken /\ Deleted.reply = ""
        /\ Deleted.since = 0
    BY DEF Deleted, NewDemo
  <2>2. 0 <= now
    BY DEF Registered
  <2>. QED
    BY <2>1, <2>2 DEF Truthful, Sleeping
<1>. QED
  BY <1>1, <1>2, QuietEditKeepsOnTime

LEMMA StartKeepsOnTime ==
    ASSUME Registered, OnTime, NEW h \in Handlers, application = "demo", DoStart(h)
    PROVE  OnTime'
<1>1. /\ demo[h].state = "kStart" /\ demo[h] \in DemoJob
      /\ demo[h].Command = "kIgnore" /\ ~demo[h].woken /\ demo[h].reply = ""
      /\ demo[h].since <= now
  <2>1. demo[h].state = "kStart" /\ demo[h] \in DemoJob
    BY JobType DEF DoStart, StartIgnores, StartReplies, StartUuid, StartSleep, Starting
  <2>. QED
    BY <2>1 DEF OnTime, Truthful
<1>2. ~Sleeping(demo[h])
  BY <1>1 DEF Sleeping
<1>3. now \in Nat /\ loop \in {"due", "delay", "sleep", "poll"}
  BY DEF Registered, OnTime
<1>4. CASE StartIgnores(h)
  BY <1>2, <1>4, EndKeepsOnTime DEF StartIgnores, queues
<1>5. ASSUME NEW reply \in {"help", "pong", "echo", ""}, Replies(h, reply)
      PROVE  OnTime'
  <2>. DEFINE new == [demo[h] EXCEPT !.state = "kFinish", !.woken = FALSE, !.reply = reply]
  <2>1. reply \in ReplyTexts
    BY DEF ReplyTexts
  <2>2. Truthful(new, now, loop)
    <3>1. reply # "slept" /\ reply # "uuid"
      OBVIOUS
    <3>2. /\ new.state = "kFinish" /\ new.reply = reply /\ new.Command = "kIgnore"
          /\ ~new.woken /\ new.since = demo[h].since
      BY <1>1 DEF DemoJob
    <3>. HIDE DEF new
    <3>. QED
      BY <1>1, <3>1, <3>2 DEF Truthful
  <2>. QED
    BY <1>2, <1>5, <2>1, <2>2, RepliesKeepsOnTime
<1>6. CASE StartUuid(h)
  <2>. DEFINE new == [demo[h] EXCEPT !.state = "kIssueHttp", !.Command = "kUuid", !.since = now]
  <2>1. new \in DemoJob
    BY <1>1, <1>3 DEF DemoJob, Commands
  <2>2. Truthful(new, now, loop) /\ ~Sleeping(new)
    <3>1. /\ new.state = "kIssueHttp" /\ new.reply = "" /\ new.Command = "kUuid"
          /\ ~new.woken /\ new.since = now
      BY <1>1 DEF DemoJob
    <3>. HIDE DEF new
    <3>2. now <= now + 1 /\ now <= now
      BY <1>3
    <3>3. Truthful(new, now, loop)
      BY <3>1, <3>2 DEF Truthful, InTime
    <3>. QED
      BY <3>1, <3>3 DEF Sleeping
  <2>3. Sets(h, new) /\ UNCHANGED sleepers
    BY <1>6 DEF StartUuid
  <2>. HIDE DEF new
  <2>4. DemoEdits(h, new)
    BY <2>1, <2>3, SetsIsEdit
  <2>. QED
    BY <1>2, <2>2, <2>3, <2>4, QuietEditKeepsOnTime
<1>7. ASSUME NEW arg \in SleepArguments,
             Sets(h, [demo[h] EXCEPT !.state = "kAwaitSleep", !.Command = "kSleep",
                         !.SleepMs = Limited(arg), !.since = now]),
             sleepers' = JoinSleepQueue(h, now + Limited(arg))
      PROVE  OnTime'
  <2>. DEFINE ms == Limited(arg)
              new == [demo[h] EXCEPT !.state = "kAwaitSleep", !.Command = "kSleep",
                         !.SleepMs = ms, !.since = now]
  <2>0. ms \in 0 .. kMaxSleepMs /\ kMaxSleepMs \in Nat
    BY LimitedIs, DemoAssumption
  <2>1. Sets(h, new) /\ sleepers' = JoinSleepQueue(h, now + ms)
    BY <1>7
  <2>. HIDE DEF ms
  <2>2. new \in DemoJob
    BY <1>1, <1>3, <2>0 DEF DemoJob, Commands
  <2>3. Truthful(new, now, loop) /\ Sleeping(new)
    <3>1. /\ new.state = "kAwaitSleep" /\ new.reply = "" /\ new.Command = "kSleep"
          /\ ~new.woken /\ new.since = now /\ new.SleepMs = ms
      BY <1>1 DEF DemoJob
    <3>. HIDE DEF new
    <3>2. now <= now + ms + 1 /\ now <= now + ms /\ now <= now
      BY <1>3, <2>0
    <3>3. Truthful(new, now, loop)
      BY <3>1, <3>2 DEF Truthful, SleptUntil
    <3>. QED
      BY <3>1, <3>3 DEF Sleeping
  <2>4. new.since = now /\ new.SleepMs = ms
    BY <1>1 DEF DemoJob
  <2>. HIDE DEF new
  <2>5. DemoEdits(h, new)
    BY <2>1, <2>2, SetsIsEdit
  <2>6. demo' = [demo EXCEPT ![h] = new] /\ demo \in [Handlers -> DemoJob]
    BY <2>5 DEF DemoEdits, Registered
  <2>7. PICK at \in Nat : at = now + ms
    BY <1>3, <2>0
  <2>8. SleepersOK(JoinSleepQueue(h, at), [demo EXCEPT ![h] = new])
    BY <1>2, <2>3, <2>4, <2>6, <2>7, JoinKeepsSleepers DEF OnTime
  <2>9. SleepersOK(sleepers', demo')
    BY <2>1, <2>6, <2>7, <2>8
  <2>. QED
    BY <2>3, <2>5, <2>9, EditKeepsOnTime
<1>. QED
  BY <1>4, <1>5, <1>6, <1>7 DEF DoStart, StartReplies, StartSleep

\* The other steps of a DemoCallbackJob.
LEMMA DriveKeepsOnTime ==
    ASSUME Registered, OnTime, NEW h \in Handlers, application = "demo",
           DoAwaitSleep(h) \/ DoFinish(h) \/ DoIssueHttp(h)
    PROVE  OnTime'
<1>1. demo[h] \in DemoJob /\ Truthful(demo[h], now, loop) /\ now \in Nat
  BY JobType DEF OnTime, Registered
<1>2. CASE DoFinish(h)
  <2>1. ~Sleeping(demo[h])
    BY <1>2 DEF DoFinish, Sleeping
  <2>. QED
    BY <1>2, <2>1, EndKeepsOnTime DEF DoFinish, queues
<1>3. CASE DoAwaitSleep(h)
  <2>. DEFINE new == [demo[h] EXCEPT !.state = "kFinish", !.woken = FALSE, !.reply = "slept"]
  <2>1. /\ demo[h].state = "kAwaitSleep" /\ demo[h].woken /\ Replies(h, "slept")
        /\ ~Sleeping(demo[h]) /\ "slept" \in ReplyTexts
    BY <1>3 DEF DoAwaitSleep, Sleeping, ReplyTexts
  <2>2. Truthful(new, now, loop)
    BY <1>1, <2>1 DEF Truthful, SleptUntil, DemoJob
  <2>. QED
    BY <2>1, <2>2, RepliesKeepsOnTime
<1>4. CASE DoIssueHttp(h)
  <2>1. demo[h].state = "kIssueHttp" /\ ~Sleeping(demo[h])
    BY <1>4 DEF DoIssueHttp, Sleeping
  <2>2. CASE UuidFailed(h)
    <3>. DEFINE new == [demo[h] EXCEPT !.state = "kFinish", !.woken = FALSE, !.reply = "failed"]
    <3>1. Replies(h, "failed") /\ "failed" \in ReplyTexts
      BY <2>2 DEF UuidFailed, ReplyTexts
    <3>2. Truthful(new, now, loop)
      BY <1>1, <2>1 DEF Truthful, InTime, DemoJob
    <3>. QED
      BY <2>1, <3>1, <3>2, RepliesKeepsOnTime
  <2>3. ASSUME NEW b \in Bodies, NEW n \in 0 .. Len(b), NEW reply,
               reply = IF ExtractJsonString(SubSeq(b, 1, n)) = NoValue
                       THEN "unparseable" ELSE "uuid",
               Sets(h, [demo[h] EXCEPT !.state = "kFinish", !.reply = reply,
                           !.value = ExtractJsonString(SubSeq(b, 1, n)),
                           !.whole = ExtractJsonString(b)]),
               UNCHANGED sleepers
        PROVE  OnTime'
    <3>. DEFINE value == ExtractJsonString(SubSeq(b, 1, n))
                whole == ExtractJsonString(b)
                new == [demo[h] EXCEPT !.state = "kFinish", !.reply = reply,
                           !.value = value, !.whole = whole]
    <3>1. n \in Nat /\ reply \in ReplyTexts
      <4>1. Len(b) \in Nat
        BY BodiesAreTokens, LenProperties
      <4>2. n \in Nat
        BY <4>1
      <4>. QED
        BY <2>3, <4>2 DEF ReplyTexts
    <3>2. new \in DemoJob
      BY <1>1, <3>1, UuidIsDemoJob
    <3>3. reply = "uuid" => value = whole
      BY <2>3, PartBegins, ValueOfPart
    <3>4. reply # "slept" /\ Sets(h, new)
      BY <2>3
    <3>. HIDE DEF value, whole
    <3>5. Truthful(new, now, loop) /\ ~Sleeping(new)
      BY <1>1, <2>1, <3>3, <3>4 DEF Truthful, InTime, DemoJob, Sleeping
    <3>. HIDE DEF new
    <3>6. DemoEdits(h, new)
      BY <3>2, <3>4, SetsIsEdit
    <3>. QED
      BY <2>1, <2>3, <3>5, <3>6, QuietEditKeepsOnTime
  <2>4. CASE UuidArrived(h)
    <3>0. PICK b \in Bodies : \E n \in 0 .. Len(b) :
             LET value == ExtractJsonString(SubSeq(b, 1, n))
             IN  /\ Sets(h, [demo[h] EXCEPT !.state = "kFinish",
                                !.reply = IF value = NoValue THEN "unparseable" ELSE "uuid",
                                !.value = value, !.whole = ExtractJsonString(b)])
                 /\ UNCHANGED sleepers
      BY <2>4, Zenon DEF UuidArrived
    <3>1. PICK n \in 0 .. Len(b) :
             LET value == ExtractJsonString(SubSeq(b, 1, n))
             IN  /\ Sets(h, [demo[h] EXCEPT !.state = "kFinish",
                                !.reply = IF value = NoValue THEN "unparseable" ELSE "uuid",
                                !.value = value, !.whole = ExtractJsonString(b)])
                 /\ UNCHANGED sleepers
      BY <3>0
    <3>2. PICK reply : reply = IF ExtractJsonString(SubSeq(b, 1, n)) = NoValue
                               THEN "unparseable" ELSE "uuid"
      OBVIOUS
    <3>3. Sets(h, [demo[h] EXCEPT !.state = "kFinish", !.reply = reply,
                      !.value = ExtractJsonString(SubSeq(b, 1, n)),
                      !.whole = ExtractJsonString(b)])
      BY <3>1, <3>2
    <3>. QED
      BY <2>3, <3>1, <3>2, <3>3
  <2>. QED
    BY <1>4, <2>2, <2>4 DEF DoIssueHttp
<1>. QED
  BY <1>2, <1>3, <1>4

\* The steps of the worker's loop.
LEMMA LoopKeepsOnTime ==
    ASSUME Registered, OnTime, application = "demo", LoopStep
    PROVE  OnTime'
<1>1. now \in Nat /\ \A h \in Handlers : demo[h] \in DemoJob /\ Truthful(demo[h], now, loop)
  BY JobType DEF OnTime, Registered
<1>0. now \in Nat /\ kHttpTimeoutMs \in Nat
  BY <1>1, DemoAssumption
<1>2. \A h \in Handlers : /\ demo[h].since \in Nat /\ demo[h].SleepMs \in Nat
                          /\ demo[h].woken \in BOOLEAN
  BY <1>1, DemoAssumption DEF DemoJob
<1>3. ASSUME NEW to \in {"due", "delay", "sleep", "poll"}, loop' = to,
             UNCHANGED <<demo, sleepers>>,
             \A h \in Handlers : Truthful(demo[h], now', to)
      PROVE  OnTime'
  BY <1>3 DEF OnTime
<1>4. CASE OnTickTimer
  <2>1. loop' = "delay" /\ UNCHANGED <<demo, sleepers, now>>
    BY <1>4 DEF OnTickTimer, LoopMoves
  <2>2. \A h \in Handlers : Truthful(demo[h], now, "delay")
    BY <1>1 DEF Truthful
  <2>. QED
    BY <1>3, <2>1, <2>2
<1>5. CASE DelayQueueEnds
  <2>1. loop' = "sleep" /\ UNCHANGED <<demo, sleepers, now>> /\ \A h \in Handlers : ~Overdue(h)
    BY <1>5 DEF DelayQueueEnds, LoopMoves
  <2>2. ASSUME NEW h \in Handlers PROVE Truthful(demo[h], now, "sleep")
    <3>1. Truthful(demo[h], now, loop) /\ demo[h].since \in Nat
      BY <1>1, <1>2
    <3>2. demo[h].state = "kIssueHttp" => now < demo[h].since + kHttpTimeoutMs
      BY <1>0, <2>1, <3>1 DEF Overdue
    <3>. QED
      BY <3>1, <3>2 DEF Truthful
  <2>. QED
    BY <1>3, <2>1, <2>2
<1>6. CASE SleepQueueEnds
  <2>1. loop = "sleep" /\ loop' = "poll" /\ UNCHANGED <<demo, sleepers, now>> /\ ~Sleepy
    BY <1>6 DEF SleepQueueEnds, LoopMoves
  <2>2. ASSUME NEW h \in Handlers, Sleeping(demo[h])
        PROVE  now <= demo[h].since + demo[h].SleepMs
    <3>0. sleepers \in Seq(Entry)
      BY DEF OnTime, SleepersOK
    <3>1. PICK i \in 1 .. Len(sleepers) : sleepers[i].job = h
      BY <2>2 DEF OnTime, SleepersOK
    <3>2. Len(sleepers) \in Nat /\ \A k \in 1 .. Len(sleepers) : sleepers[k] \in Entry
      BY <3>0, LenProperties, ElementOfSeq
    <3>3. sleepers # <<>> /\ Head(sleepers) = sleepers[1] /\ 1 \in 1 .. Len(sleepers)
      BY <3>0, <3>1, <3>2, EmptySeq
    <3>4. sleepers[1].at \in Nat /\ sleepers[i].at \in Nat
      BY <3>1, <3>2, <3>3 DEF Entry
    <3>5. now < sleepers[1].at
      BY <1>1, <2>1, <3>3, <3>4 DEF Sleepy
    <3>6. sleepers[1].at <= sleepers[i].at
      <4>1. i = 1 \/ 1 < i
        BY <3>1, <3>2
      <4>. QED
        BY <3>1, <3>3, <3>4, <4>1 DEF OnTime, SleepersOK
    <3>7. sleepers[i].at = demo[h].since + demo[h].SleepMs
      BY <3>1 DEF OnTime, SleepersOK
    <3>. QED
      BY <1>1, <3>4, <3>5, <3>6, <3>7
  <2>3. \A h \in Handlers : Truthful(demo[h], now, "poll")
    BY <1>1, <2>1, <2>2 DEF Truthful, Sleeping
  <2>. QED
    BY <1>3, <2>1, <2>3
<1>7. CASE TimePasses
  <2>1. /\ loop = "poll" /\ loop' = "due" /\ now' = now + 1 /\ UNCHANGED <<demo, sleepers>>
        /\ \A h \in Handlers : demo[h].state # "kFinish" /\ ~demo[h].woken
    BY <1>7 DEF TimePasses, Drained
  <2>2. ASSUME NEW h \in Handlers PROVE Truthful(demo[h], now + 1, "due")
    <3>. DEFINE d == demo[h]
    <3>1. Truthful(d, now, "poll") /\ d.since \in Nat /\ d.SleepMs \in Nat
      BY <1>1, <1>2, <2>1
    <3>2. d.state # "kFinish" /\ ~d.woken
      BY <2>1
    <3>. HIDE DEF d
    <3>3. d.state = "kIssueHttp" => now < d.since + kHttpTimeoutMs \/ now = d.since
      BY <3>1 DEF Truthful
    <3>4. d.state = "kIssueHttp" => InTime(d, now + 1)
      BY <1>0, <3>1, <3>3 DEF InTime
    <3>5. d.state = "kAwaitSleep" => now <= d.since + d.SleepMs
      BY <3>1, <3>2 DEF Truthful
    <3>6. d.state = "kAwaitSleep" => SleptUntil(d, now + 1)
      BY <1>0, <3>1, <3>5 DEF SleptUntil
    <3>7. d.since <= now
      BY <3>1 DEF Truthful
    <3>8. d.since <= now + 1
      BY <1>0, <3>1, <3>7
    <3>9. Truthful(d, now + 1, "due")
      BY <3>1, <3>2, <3>4, <3>6, <3>8 DEF Truthful
    <3>. QED
      BY <3>9 DEF d
  <2>. QED
    BY <1>3, <2>1, <2>2
<1>8. ASSUME NEW h \in Handlers, TimesOut(h) PROVE OnTime'
  <2>. DEFINE new == [demo[h] EXCEPT !.state = "kFinish", !.woken = FALSE, !.reply = "timeout"]
  <2>1. /\ demo[h].state = "kIssueHttp" /\ Replies(h, "timeout") /\ "timeout" \in ReplyTexts
        /\ ~Sleeping(demo[h])
    BY <1>8 DEF TimesOut, Overdue, UuidTimedOut, ReplyTexts, Sleeping
  <2>2. Truthful(new, now, loop)
    BY <1>1, <2>1 DEF Truthful, InTime, DemoJob
  <2>. QED
    BY <2>1, <2>2, RepliesKeepsOnTime
<1>9. CASE WakesUp
  <2>. DEFINE h == Head(sleepers).job
              new == [demo[h] EXCEPT !.woken = TRUE]
  <2>1. /\ Sets(h, new) /\ sleepers' = Tail(sleepers)
        /\ sleepers # <<>> /\ Head(sleepers).at <= now
    BY <1>9 DEF WakesUp, Sleepy
  <2>2. demo \in [Handlers -> DemoJob] /\ SleepersOK(sleepers, demo)
    BY DEF Registered, OnTime
  <2>3. /\ h \in Handlers /\ Sleeping(demo[h])
        /\ Head(sleepers).at = demo[h].since + demo[h].SleepMs
    <3>1. ~Sleeping(NewDemo)
      BY DEF Sleeping, NewDemo
    <3>. QED
      BY <2>1, <2>2, <3>1, WakeKeepsSleepers
  <2>. HIDE DEF h
  <2>4. demo[h] \in DemoJob /\ Truthful(demo[h], now, loop)
    BY <1>1, <2>3
  <2>5. /\ new \in DemoJob /\ ~Sleeping(new)
        /\ new.state = "kAwaitSleep" /\ new.woken = TRUE /\ new.since = demo[h].since
        /\ new.SleepMs = demo[h].SleepMs /\ new.Command = demo[h].Command
        /\ new.reply = demo[h].reply
    BY <2>3, <2>4 DEF DemoJob, Sleeping
  <2>. HIDE DEF new
  <2>6. Truthful(new, now, loop)
    BY <2>1, <2>3, <2>4, <2>5 DEF Truthful, SleptUntil, Sleeping
  <2>7. DemoEdits(h, new)
    BY <2>1, <2>3, <2>5, SetsIsEdit
  <2>8. SleepersOK(Tail(sleepers), [demo EXCEPT ![h] = new])
    BY <2>1, <2>2, <2>5, WakeKeepsSleepers DEF h
  <2>9. SleepersOK(sleepers', demo')
    BY <2>1, <2>7, <2>8 DEF DemoEdits
  <2>. QED
    BY <2>3, <2>6, <2>7, <2>9, EditKeepsOnTime
<1>. QED
  BY <1>4, <1>5, <1>6, <1>7, <1>8, <1>9 DEF LoopStep

LEMMA NextKeepsOnTime ==
    ASSUME DemoFramed, OnTime, [DemoNext]_demoVars
    PROVE  OnTime'
<1>0. Registered
  BY DEF DemoFramed
<1>1. CASE UNCHANGED demos
  BY <1>1 DEF demos, queues, OnTime
<1>2. CASE application = "demo" /\ LoopStep
  BY <1>0, <1>2, LoopKeepsOnTime
<1>3. ASSUME NEW h \in DOMAIN jobs, application = "demo", Driven(h) \/ DoIssueHttp(h)
      PROVE  OnTime'
  <2>1. h \in Handlers
    BY <1>3, HandlersAreThere
  <2>. QED
    BY <1>0, <1>3, <2>1, StartKeepsOnTime, DriveKeepsOnTime DEF Driven
<1>4. CASE UNCHANGED demoVars
  BY <1>1, <1>4 DEF demoVars
<1>. QED
  BY <1>1, <1>2, <1>3, <1>4, Zenon DEF DemoNext, DemoSteps

LEMMA OnTimeAlways == DemoSpec => [](DemoFramed /\ OnTime)
<1>1. DemoInit => DemoFramed /\ OnTime
  BY InitDemoFramed, InitOnTime
<1>2. DemoFramed /\ OnTime /\ [DemoNext]_demoVars => (DemoFramed /\ OnTime)'
  BY NextKeepsDemoFramed, NextKeepsOnTime
<1>. QED
  BY <1>1, <1>2, PTL DEF DemoSpec

\* A job that slept is woken neither before its time nor later than by the next
\* tick, and a UUID is the whole one of the response, however much of it arrived.
THEOREM DemoRepliesTruly == DemoSpec => []RepliesTruly
<1>1. DemoFramed /\ OnTime => RepliesTruly
  <2>. SUFFICES ASSUME DemoFramed, OnTime, NEW h \in Handlers
                PROVE  /\ demo[h].state = "kFinish" /\ demo[h].reply = "slept"
                            => now - demo[h].since
                                  \in demo[h].SleepMs .. (demo[h].SleepMs + 1)
                       /\ demo[h].reply = "uuid" => demo[h].value = demo[h].whole
    BY DEF RepliesTruly
  <2>1. Truthful(demo[h], now, loop) /\ now \in Nat
    BY DEF OnTime, DemoFramed, Registered
  <2>2. demo[h].since \in Nat /\ demo[h].SleepMs \in Nat
    BY JobType, DemoAssumption DEF DemoFramed, DemoJob
  <2>3. demo[h].state = "kFinish" /\ demo[h].reply = "slept"
           => SleptUntil(demo[h], now) /\ demo[h].since + demo[h].SleepMs <= now
    BY <2>1 DEF Truthful
  <2>4. demo[h].reply = "uuid" => demo[h].value = demo[h].whole
    BY <2>1 DEF Truthful
  <2>. QED
    BY <2>1, <2>2, <2>3, <2>4 DEF SleptUntil
<1>. QED
  BY <1>1, OnTimeAlways, PTL

\* Whatever the command, its argument, the answer from httpbin.org and the other
\* jobs in the queue, the reply is there within the budget, if both limits leave
\* a tick of it.
THEOREM DemoWithinBudget ==
    ASSUME kHttpTimeoutMs < Budget, kMaxSleepMs + 1 < Budget
    PROVE  DemoSpec => []WithinBudget
<1>1. DemoFramed /\ OnTime => WithinBudget
  <2>. SUFFICES ASSUME DemoFramed, OnTime, NEW h \in Handlers,
                       demo[h].state \in {"kIssueHttp", "kAwaitSleep", "kFinish"},
                       demo[h].Command \in {"kUuid", "kSleep"}
                PROVE  now - demo[h].since < Budget
    BY DEF WithinBudget
  <2>1. Truthful(demo[h], now, loop) /\ now \in Nat
    BY DEF OnTime, DemoFramed, Registered
  <2>2. demo[h].since \in Nat /\ demo[h].SleepMs \in 0 .. kMaxSleepMs
    BY JobType DEF DemoFramed, DemoJob
  <2>3. kHttpTimeoutMs \in Nat /\ kMaxSleepMs \in Nat /\ Budget \in Nat
    BY DemoAssumption
  <2>4. InTime(demo[h], now) \/ SleptUntil(demo[h], now)
    BY <2>1 DEF Truthful
  <2>. QED
    BY <2>1, <2>2, <2>3, <2>4 DEF InTime, SleptUntil
<1>. QED
  BY <1>1, OnTimeAlways, PTL
=============================================================================
