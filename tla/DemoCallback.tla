------------------------------ MODULE DemoCallback ------------------------------
(****************************************************************************)
(* The sample's callback job (sample/Job/DemoCallbackJob.cc) in the place   *)
(* of HttpHandler's: its commands, the HttpClientJob of /uuid, and the      *)
(* SleepQueue (src/Core/TimeQueue.cc) that /sleep uses, which the tick      *)
(* serves after the delay queue (src/Core/WorkerThread.cc).                 *)
(*                                                                          *)
(* An application registers one creator: that of this job, or one of jobs   *)
(* that use ClientJobs.  There is one worker, so that the callback jobs of  *)
(* pipelined requests are in one SleepQueue.  Callbacks of the loop take no *)
(* time, and the tick comes in every unit of time.                          *)
(*                                                                          *)
(* How a request ends is WorkerHttp's subject: a timeout by a tick, or at   *)
(* any time before by a response, which may be cut anywhere.  The response  *)
(* of httpbin.org is a sequence of the tokens that ExtractJsonString tells  *)
(* apart.                                                                   *)
(****************************************************************************)
EXTENDS ClientJobs, SequencesExt

CONSTANTS DemoStreams,      \* what clients of the sample send
          SleepArguments,   \* what strtol makes of the text after /sleep
          kMaxSleepMs,      \* in units of time, as the next two
          kHttpTimeoutMs,
          Budget,           \* what WeCom allows for a callback
          MaxArrival,       \* the requests arrive within this time
          MaxHandlers       \* bound on the requests of a stream

ASSUME DemoAssumption ==
    /\ DemoStreams \subseteq Streams
    /\ SleepArguments \subseteq Int
    /\ {kMaxSleepMs, kHttpTimeoutMs, Budget, MaxArrival, MaxHandlers} \subseteq Nat
    /\ \A s \in DemoStreams :
          Cardinality({p \in DOMAIN s : s[p].kind = "line"}) <= MaxHandlers

VARIABLES
    application,  \* whose creator is registered: "calls" or "demo"
    now,          \* steady_clock
    loop,         \* the worker: "due" for a tick, "delay", "sleep", "poll"
    demo,         \* the DemoCallbackJob of each handler
    sleepers      \* SleepQueueImpl::List

queues == <<loop, sleepers>>
demos == <<application, now, queues, demo>>
demoVars == <<vars, calls, demos>>

Handlers == 1 .. MaxHandlers

Commands == {"kIgnore", "kEcho", "kHelp", "kPing", "kUuid", "kSleep"}

\* woken is set when the job has been put into a drain; reply is ReplyContent
\* and value what it quotes; since (history) is when DoStart ran, and whole
\* (history) what the complete body would have given.
NewDemo == [state |-> "kStart", woken |-> FALSE, Command |-> "kIgnore", SleepMs |-> 0,
            reply |-> "", value |-> <<>>, since |-> 0, whole |-> <<>>]

\* The job has returned kDone.
Deleted == [NewDemo EXCEPT !.state = "kDone"]

DemoInit ==
    /\ CallsInit
    /\ application \in {"calls", "demo"}
    /\ application = "demo" => creator /\ stream \in DemoStreams
    /\ now = 0
    /\ loop = "due"
    /\ demo = [h \in Handlers |-> NewDemo]
    /\ sleepers = <<>>

-----------------------------------------------------------------------------
(* ExtractJsonString, for the key "uuid".                                   *)

\* "key" is the text "uuid" with its quotes, "n" and "x" are characters, of
\* which \n is a newline.
Bodies ==
    {<<"open", "key", "space", ":", "space", "quote", "x", "n", "quote", "close">>,
     <<"open", "key", ":", "quote", "\\", "quote", "x", "\\", "n", "\\", "\\",
       "quote", "close">>,
     <<"open", "x", ":", "key", "close">>,
     <<"open", "key", ":", "x", "close">>}

\* The first position from i on that is not white space.
Skip(b, i) == Min({j \in i .. Len(b) : b[j] # "space"} \cup {Len(b) + 1})

At(b, i, token) == i <= Len(b) /\ b[i] = token

\* Whether the token at a position of a string literal is escaped.
Escaped(b, first) ==
    LET esc[k \in (first - 1) .. Len(b)] ==
            k > first /\ b[k - 1] = "\\" /\ ~esc[k - 1]
    IN  esc

ToTheEnd(b, first) == Len(b) + 1                                   \* a mutant

\* Where the un-escaped quote is, or 0.
Closing(b, first) ==
    LET quotes == {k \in first .. Len(b) : b[k] = "quote" /\ ~Escaped(b, first)[k]}
    IN  IF quotes = {} THEN 0 ELSE Min(quotes)

\* The characters of a literal, without the backslashes that escape.
Unescaped(b, first, last) ==
    LET kept == {k \in first .. last : b[k] # "\\" \/ Escaped(b, first)[k]}
        places == SetToSortSeq(kept, LAMBDA j, k : j < k)
        chars == [k \in kept |->
                    IF b[k] = "n" /\ Escaped(b, first)[k] THEN "newline" ELSE b[k]]
    IN  [i \in DOMAIN places |-> chars[places[i]]]

NoValue == <<"none">>

ExtractJsonString(b) ==
    LET keys == {i \in DOMAIN b : b[i] = "key"}
        colon == Skip(b, Min(keys) + 1)
        quote == Skip(b, colon + 1)
        last == Closing(b, quote + 1)
    IN  IF keys # {} /\ At(b, colon, ":") /\ At(b, quote, "quote") /\ last # 0
        THEN Unescaped(b, quote + 1, last - 1)
        ELSE NoValue

-----------------------------------------------------------------------------
(* The SleepQueue.                                                          *)

\* SleepQueueImpl::FindPosition: behind the last one that wakes up earlier.
FindPosition(at) ==
    Max({0} \cup {i \in DOMAIN sleepers : sleepers[i].at < at}) + 1

\* SleepQueue::Join.
JoinSleepQueue(h, at) == InsertAt(sleepers, FindPosition(at), [job |-> h, at |-> at])

\* SleepQueue::Dequeue looks at the first one only.
Sleepy == sleepers # <<>> /\ Head(sleepers).at <= now

-----------------------------------------------------------------------------
(* DemoCallbackJob.                                                         *)

Sets(h, new) ==
    /\ demo' = [demo EXCEPT ![h] = new]
    /\ UNCHANGED <<vars, calls, application, now, loop>>

\* A step that goes on with kFinish.
Replies(h, reply) ==
    Sets(h, [demo[h] EXCEPT !.state = "kFinish", !.woken = FALSE, !.reply = reply])
        /\ UNCHANGED sleepers

Starting(h) == jobs[h].callback = "running" /\ demo[h].state = "kStart"

\* A drain goes on until each job of it waits or is done; a handler whose event
\* is in the worker's queue has none yet.
Drained ==
    /\ \A h \in DOMAIN jobs :
         jobs[h].phase \in {"kStart", "kDone"} \/ jobs[h].callback = "running"
    /\ \A h \in Handlers :
         /\ demo[h].state # "kFinish" /\ ~demo[h].woken
         /\ h \in DOMAIN jobs => ~Starting(h)

\* Not a TextClientMessage: kDone without a response.
StartIgnores(h) ==
    /\ Starting(h)
    /\ jobs' = [jobs EXCEPT ![h].callback = "silent"]
    /\ demo' = [demo EXCEPT ![h] = Deleted]
    /\ UNCHANGED <<worker, aborted, calls, application, now, queues>>

\* /help, /ping, and the text of any other message, which may be empty.
StartReplies(h) ==
    /\ Starting(h)
    /\ \E reply \in {"help", "pong", "echo", ""} : Replies(h, reply)

\* /uuid: the HttpClientJob arms its timeout later in the same drain.
StartUuid(h) ==
    /\ Starting(h)
    /\ Sets(h, [demo[h] EXCEPT !.state = "kIssueHttp", !.Command = "kUuid", !.since = now])
    /\ UNCHANGED sleepers

Unlimited(ms) == IF ms < 0 THEN 0 ELSE ms                          \* a mutant

Limited(ms) == IF ms < 0 THEN 0 ELSE IF ms > kMaxSleepMs THEN kMaxSleepMs ELSE ms

StartSleep(h) ==
    /\ Starting(h)
    /\ \E arg \in SleepArguments :
          LET ms == Limited(arg)
          IN  /\ Sets(h, [demo[h] EXCEPT !.state = "kAwaitSleep", !.Command = "kSleep",
                             !.SleepMs = ms, !.since = now])
              /\ sleepers' = JoinSleepQueue(h, now + ms)

\* DoIssueHttp, with the child that has timed out ...
UuidTimedOut(h) == Replies(h, "timeout")

\* ... or has any StatusCode but 200, 0 if there was no answer or no handle ...
UuidFailed(h) == Replies(h, "failed")

\* ... or has as much of a body as arrived before the end, or cURL's timeout.
UuidArrived(h) ==
    \E b \in Bodies :
       \E n \in 0 .. Len(b) :
          LET value == ExtractJsonString(SubSeq(b, 1, n))
          IN  /\ Sets(h, [demo[h] EXCEPT !.state = "kFinish",
                             !.reply = IF value = NoValue THEN "unparseable" ELSE "uuid",
                             !.value = value, !.whole = ExtractJsonString(b)])
              /\ UNCHANGED sleepers

DoIssueHttp(h) ==
    /\ loop = "poll" /\ Drained
    /\ demo[h].state = "kIssueHttp"
    /\ UuidFailed(h) \/ UuidArrived(h)

DoAwaitSleep(h) ==
    /\ demo[h].state = "kAwaitSleep"
    /\ demo[h].woken
    /\ Replies(h, "slept")

\* An empty reply is no response.
DoFinish(h) ==
    /\ demo[h].state = "kFinish"
    /\ jobs' = [jobs EXCEPT ![h].callback =
                   IF demo[h].reply = "" THEN "silent" ELSE "replied"]
    /\ demo' = [demo EXCEPT ![h] = Deleted]
    /\ UNCHANGED <<worker, aborted, calls, application, now, queues>>

-----------------------------------------------------------------------------
(* The worker's loop.                                                       *)

LoopMoves(from, to) ==
    /\ loop = from /\ Drained
    /\ loop' = to
    /\ UNCHANGED <<vars, calls, application, now, demo, sleepers>>

OnTickTimer == LoopMoves("due", "delay")

Overdue(h) == demo[h].state = "kIssueHttp" /\ demo[h].since + kHttpTimeoutMs <= now

\* DealDealyQueue, as in WorkerHttp.
TimesOut(h) ==
    /\ loop = "delay" /\ Drained
    /\ Overdue(h)
    /\ UuidTimedOut(h)

DelayQueueEnds == (\A h \in Handlers : ~Overdue(h)) /\ LoopMoves("delay", "sleep")

\* DealSleepQueue: the job is driven before the next one is looked for.
WakesUp ==
    /\ loop = "sleep" /\ Drained
    /\ Sleepy
    /\ sleepers' = Tail(sleepers)
    /\ Sets(Head(sleepers).job, [demo[Head(sleepers).job] EXCEPT !.woken = TRUE])

SleepQueueEnds == ~Sleepy /\ LoopMoves("sleep", "poll")

Waiting == \E h \in Handlers : demo[h].state \in {"kIssueHttp", "kAwaitSleep"}

\* The requests arrive within MaxArrival; then time passes as long as a job
\* waits for it.
TimePasses ==
    /\ loop = "poll" /\ Drained
    /\ \A h \in DOMAIN jobs : ~In(h, "kStart")
    /\ now < MaxArrival \/ (Waiting /\ (unsent = <<>> \/ conn # "open"))
    /\ now' = now + 1
    /\ loop' = "due"
    /\ UNCHANGED <<vars, calls, application, demo, sleepers>>

-----------------------------------------------------------------------------

DoStart(h) == StartIgnores(h) \/ StartReplies(h) \/ StartUuid(h) \/ StartSleep(h)

\* What a drain does next with a callback job.
Driven(h) == DoStart(h) \/ DoAwaitSleep(h) \/ DoFinish(h)

\* The worker of the sample takes an event between two callbacks of its loop.
HandlerStep ==
    \E h \in DOMAIN jobs :
       /\ OnStep(h)
       /\ application = "demo" /\ In(h, "kStart") => loop \in {"due", "poll"} /\ Drained

Main == OnTcpClose \/ \E h \in DOMAIN jobs : SendTcpToClient(h)

LoopStep ==
    \/ OnTickTimer
    \/ \E h \in Handlers : TimesOut(h)
    \/ DelayQueueEnds
    \/ WakesUp
    \/ SleepQueueEnds
    \/ TimePasses

\* The framework, other applications, and the sample.
DemoSteps ==
    \/ (\E n \in 0 .. SuggestedSize : Reads(n)) /\ UNCHANGED <<calls, demos>>
    \/ Main /\ UNCHANGED <<calls, demos>>
    \/ HandlerStep /\ UNCHANGED <<calls, demos>>
    \/ /\ application = "calls"
       /\ CallsSteps
       /\ UNCHANGED demos
    \/ /\ application = "demo"
       /\ LoopStep \/ \E h \in DOMAIN jobs : Driven(h) \/ DoIssueHttp(h)

DemoNext == aborted = "no" /\ DemoSteps

DemoSpec == DemoInit /\ [][DemoNext]_demoVars

\* As in ClientJobs; the sample's worker goes on with a drain and with its loop.
\* An answer from httpbin.org need not come.
DemoFairSpec ==
    /\ DemoSpec
    /\ WF_demoVars(/\ aborted = "no" /\ UNCHANGED <<calls, demos>>
                   /\ \E n \in 1 .. SuggestedSize : Reads(n))
    /\ WF_demoVars(aborted = "no" /\ Main /\ UNCHANGED <<calls, demos>>)
    /\ WF_demoVars(aborted = "no" /\ HandlerStep /\ UNCHANGED <<calls, demos>>)
    /\ WF_demoVars(/\ aborted = "no" /\ application = "calls" /\ UNCHANGED demos
                   /\ \E h \in DOMAIN jobs : CallbackEnds(h))
    /\ WF_demoVars(/\ aborted = "no" /\ application = "calls" /\ UNCHANGED demos
                   /\ Starts \/ Ends)
    /\ WF_demoVars(/\ aborted = "no" /\ application = "demo"
                   /\ LoopStep \/ \E h \in DOMAIN jobs : Driven(h))

-----------------------------------------------------------------------------
(* Properties.                                                              *)

\* Whatever the command, its argument and the answer from httpbin.org, the reply
\* is there within WeCom's budget (comments at kHttpTimeoutMs and kMaxSleepMs).
WithinBudget ==
    \A h \in Handlers :
       demo[h].state \in {"kIssueHttp", "kAwaitSleep", "kFinish"}
           /\ demo[h].Command \in {"kUuid", "kSleep"}
       => now - demo[h].since < Budget

\* A reply says what happened: a job that slept is woken neither before its time
\* nor, whoever else sleeps in the queue, later than by the next tick; and a UUID
\* is the whole one of the response, however much of that arrived.
RepliesTruly ==
    \A h \in Handlers :
       LET d == demo[h]
       IN  /\ d.state = "kFinish" /\ d.reply = "slept"
              => now - d.since \in d.SleepMs .. (d.SleepMs + 1)
           /\ d.reply = "uuid" => d.value = d.whole
=============================================================================
