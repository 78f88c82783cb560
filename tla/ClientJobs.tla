------------------------------ MODULE ClientJobs ------------------------------
(****************************************************************************)
(* The jobs that an application's callback job may invoke before it answers:*)
(* SilentPushJob, WeComUploadJob and GetChatInfoJob (src/Job).  Each sends  *)
(* one request with an HttpClientJob, reads what came back, and is handed   *)
(* to the job that invoked it.                                              *)
(*                                                                          *)
(* This module adds them to HttpHandler, where the callback job is an       *)
(* outcome.  How a request ends on the wire is WorkerHttp's subject; here   *)
(* it is any of the ends that WorkerHttp allows.  One of these jobs at a    *)
(* time is followed, since those of different handlers have nothing in      *)
(* common.                                                                  *)
(****************************************************************************)
EXTENDS HttpHandler

CONSTANT MaxCalls       \* bound on the jobs that are invoked

ASSUME ClientJobsAssumption == MaxCalls \in Nat

VARIABLES
    call,       \* the job that a callback job has invoked last
    made        \* how many were invoked

calls == <<call, made>>

Kinds == {"SilentPushJob", "WeComUploadJob", "GetChatInfoJob"}

Errors == {"0", "kErrTimeout", "kErrTooLarge", "kErrRspFailed", "kErrRspPkgInvalid",
           "kErrRspNoMediaId", "kErrHttp", "kErrJson"}

\* What an HttpClientJob brings back: how it ended, and StatusCode and Body of
\* its Response.  The body is an object with errcode and errmsg, or without them
\* ("missing"), and with the fields that the request was made for or without.
Outcomes ==
    [end : {"response", "timeout", "error"}, status : {0, 200},
     got : {"nothing", "part", "all"}, errcode : {"0", "other", "missing"},
     fields : BOOLEAN]

\* No response at all.
Nothing == [end |-> "error", status |-> 0, got |-> "nothing",
            errcode |-> "missing", fields |-> FALSE]

\* As in WorkerHttp: a job that could not be issued has no response; cURL's own
\* timeout and broken connections end in "response" as well, with what there is
\* by then.  Only a message from cURL sets StatusCode, and without a status line
\* no body arrives.
Possible(o) ==
    /\ o.end = "error" => o = Nothing
    /\ o.end = "timeout" => o.status = 0
    /\ o.end = "response" /\ o.status = 0 => o.got = "nothing"
    /\ o.got # "all" => o.errcode = "missing" /\ ~o.fields

\* ErrCode and the number that the remote side gave (Code, or Response.ErrCode);
\* fired counts the calls of FinishCallback.
NoCall == [by |-> 0, kind |-> "none", state |-> "none",
           seen |-> Nothing, ErrCode |-> "0", code |-> "0", fired |-> 0]

CallsInit == Init /\ call = NoCall /\ made = 0

-----------------------------------------------------------------------------
(* The caller.                                                              *)

\* InvokeChild: the child takes its first step after the caller's OnStep has
\* returned.  The message, the data and the URL outlive that step.
InvokeChild(h, kind) ==
    /\ jobs[h].callback = "running"
    /\ call.state \in {"none", "finished"}
    /\ made < MaxCalls
    /\ call' = [NoCall EXCEPT !.by = h, !.kind = kind, !.state = "scheduled"]
    /\ made' = made + 1
    /\ UNCHANGED vars

\* The callback job returns kDone: after its child was handed to it, or earlier
\* (a sleep of its own has ended), and then the driver cancels the child.  Not
\* between InvokeChild and the child's first step, which are one drain.
CallbackEnds(h) ==
    /\ call.by = h => call.state # "scheduled"
    /\ CallbackDone(h)
    /\ call' = IF call.by = h THEN NoCall ELSE call
    /\ UNCHANGED made

-----------------------------------------------------------------------------
(* The first step: build the request and issue it.                          *)

Scheduled(kind) == call.kind = kind /\ call.state = "scheduled"

Sent == call' = [call EXCEPT !.state = "sent"] /\ UNCHANGED <<vars, made>>

\* kSendReq: Body is made of *Message.
SendPush == Scheduled("SilentPushJob") /\ Sent

\* kUploadMediaReq: Body is made of Data, unless there is too much of it.
UploadMedia ==
    /\ Scheduled("WeComUploadJob")
    /\ \/ Sent
       \/ /\ call' = [call EXCEPT !.state = "finished", !.ErrCode = "kErrTooLarge"]
          /\ UNCHANGED <<vars, made>>

\* kSendReq: the request goes to GetChatInfoUrl, a reference.
AskForChat == Scheduled("GetChatInfoJob") /\ Sent

-----------------------------------------------------------------------------
(* The second step: read the response of the HttpClientJob.                 *)

\* There is nothing to be parsed.
Unanswered(o) == o.status = 0 \/ o.got = "nothing"

\* A part of a body is not JSON: the parser reports an error, and leaves a value
\* that is not an object.
IsReply(o) == o.got = "all" /\ o.errcode # "missing"

Result(o, error, code) ==
    [call EXCEPT !.state = "finished", !.seen = o, !.ErrCode = error, !.code = code]

Answered(kind, o) ==
    /\ call.kind = kind
    /\ call.state = "sent"
    /\ UNCHANGED <<vars, made>>

\* kSendRsp: the outcome is logged only.
PushAnswered(o) == Answered("SilentPushJob", o) /\ call' = Result(o, "0", "0")

MediaIdOptional(o) == "0"                                          \* a mutant

\* Where the remote side accepts the upload it names a media id.
MediaId(o) == IF o.fields THEN "0" ELSE "kErrRspNoMediaId"

\* kUploadMediaRsp.  A refused upload has its errcode in Code; ErrCode stays 0.
UploadAnswered(o) ==
    /\ Answered("WeComUploadJob", o)
    /\ \/ o.end = "timeout" /\ call' = Result(o, "kErrTimeout", "0")
       \/ o.end # "timeout" /\ Unanswered(o) /\ call' = Result(o, "kErrRspFailed", "0")
       \/ /\ o.end # "timeout" /\ ~Unanswered(o) /\ ~IsReply(o)
          /\ call' = Result(o, "kErrRspPkgInvalid", "0")
       \/ /\ o.end # "timeout" /\ ~Unanswered(o) /\ IsReply(o)
          /\ call' = IF o.errcode = "0" THEN Result(o, MediaId(o), "0")
                     ELSE Result(o, "0", "other")

\* The errcode is read before the other fields, so Response.ErrCode has it even
\* where one of them is missing.
ChatResult(o) ==
    IF IsReply(o) /\ o.fields THEN Result(o, "0", o.errcode)
    ELSE Result(o, "kErrJson", IF IsReply(o) THEN o.errcode ELSE "0")

\* kSendRsp: whichever way it goes, FinishCallback is called at the end.
ChatAnswered(o) ==
    /\ Answered("GetChatInfoJob", o)
    /\ \E result \in
          {IF o.end = "timeout" THEN Result(o, "kErrTimeout", "0")
           ELSE IF Unanswered(o) THEN Result(o, "kErrHttp", "0")
           ELSE ChatResult(o)} :
          call' = [result EXCEPT !.fired = @ + 1]

-----------------------------------------------------------------------------

Starts == SendPush \/ UploadMedia \/ AskForChat

Ends ==
    \E o \in {p \in Outcomes : Possible(p)} :
       PushAnswered(o) \/ UploadAnswered(o) \/ ChatAnswered(o)

CallsSteps ==
    \/ Framework /\ UNCHANGED calls
    \/ \E h \in DOMAIN jobs, kind \in Kinds : InvokeChild(h, kind)
    \/ \E h \in DOMAIN jobs : CallbackEnds(h)
    \/ Starts
    \/ Ends

CallsNext == aborted = "no" /\ CallsSteps

CallsSpec == CallsInit /\ [][CallsNext]_<<vars, calls>>

\* As in HttpHandler.  Every HttpClientJob ends (WorkerHttp), and a drain that
\* has begun goes on to the child's first step.
CallsFairSpec ==
    /\ CallsSpec
    /\ WF_vars(aborted = "no" /\ (\E n \in 1 .. SuggestedSize : Reads(n)) /\ UNCHANGED calls)
    /\ WF_vars(aborted = "no" /\ OnTcpClose /\ UNCHANGED calls)
    /\ WF_vars(aborted = "no" /\ (\E h \in DOMAIN jobs : SendTcpToClient(h)) /\ UNCHANGED calls)
    /\ WF_vars(aborted = "no" /\ (\E h \in DOMAIN jobs : OnStep(h)) /\ UNCHANGED calls)
    /\ WF_vars(aborted = "no" /\ \E h \in DOMAIN jobs : CallbackEnds(h))
    /\ WF_calls(aborted = "no" /\ (Starts \/ Ends))

-----------------------------------------------------------------------------
(* Properties.                                                              *)

\* A caller that finds neither an ErrCode nor a code in the job it invoked has
\* the result it asked for: the whole of a response that says so arrived, however
\* the request ended on the wire, in cURL's timeout after half of the body too.
SuccessIsWhole ==
    call.state = "finished" /\ call.kind # "SilentPushJob"
        /\ call.ErrCode = "0" /\ call.code = "0"
    => call.seen.got = "all" /\ call.seen.errcode = "0" /\ call.seen.fields
=============================================================================
