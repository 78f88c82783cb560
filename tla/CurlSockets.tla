----------------------------- MODULE CurlSockets -----------------------------
(****************************************************************************)
(* WorkerHttp together with what connects cURL's multi handle to the        *)
(* worker's loop (src/Core/WorkerThread.cc): TimerFunction and the one      *)
(* UvCurlTimer, SocketFunction with a UvCurlContext for every socket, and   *)
(* the callbacks of both, which call curl_multi_socket_action.              *)
(*                                                                          *)
(* cURL is external.  It keeps the expiry of each transfer (at once when it *)
(* is added, its timeout when it has started) in a tree, and after every    *)
(* call announces the first one through TimerFunction, unless it is the     *)
(* one it has announced last.  UvCurlOnPoll stops the timer all the same.   *)
(* A socket action treats the transfer of its socket and every expired one. *)
(*                                                                          *)
(* Left out: uv_poll_init_socket failing, and CURL_POLL_INOUT, which        *)
(* SocketFunction does not know; both raise SIGINT.                         *)
(****************************************************************************)
EXTENDS WorkerHttp

Off == -1
NoKey == <<None, 0>>

VARIABLES
    curlTimer,    \* when UvCurlTimer fires, or Off
    lastCall,     \* the expiry that cURL announced last (its timer_lastcall)
    acting,       \* the thread is in curl_multi_socket_action
    inCurl,       \* transfers that this action has still to treat
    context       \* the UvCurlContext of each transfer's socket

glue == <<curlTimer, lastCall, acting, inCurl, context>>
curlVars == <<vars, glue>>

GlueTypeOK ==
    /\ curlTimer \in Nat \cup {Off}
    /\ lastCall \in (Clients \X Nat) \cup {NoKey}
    /\ acting \in BOOLEAN
    /\ inCurl \subseteq Clients
    /\ context \in [Clients -> {"none", "open", "closing"}]

CurlInit ==
    /\ Init
    /\ curlTimer = Off
    /\ lastCall = NoKey
    /\ acting = FALSE
    /\ inCurl = {}
    /\ context = [c \in Clients |-> "none"]

-----------------------------------------------------------------------------
(* TimerFunction.                                                           *)

Expiry(c) == IF easy[c] = "added" THEN issued[c].at ELSE begun[c] + issued[c].ms

Tree == {<<c, Expiry(c)>> : c \in {d \in Clients : easy[d] \in {"added", "running"}}}

FirstKeys == {k \in Tree : \A l \in Tree : k[2] <= l[2]}

Expired == {k[1] : k \in {l \in Tree : l[2] <= now}}

StopAtZero(at) == curlTimer' = IF at <= now THEN Off ELSE at       \* a mutant

\* uv_timer_start, at once for a time in the past.
TimerFunction(at) == curlTimer' = at

\* cURL announces an expiry; for -1 the timer is stopped, and started again
\* with a time that never comes.
Announce(k) == TimerFunction(k[2]) /\ lastCall' = k

\* Curl_update_timer, at the end of every call that may change the tree.  Two
\* keys of one tick may be first by turns.
UpdateTimer ==
    \/ Tree' = {} /\ curlTimer' = Off /\ lastCall' = NoKey
    \/ \E k \in FirstKeys' :
          IF k = lastCall THEN UNCHANGED <<curlTimer, lastCall>> ELSE Announce(k)

-----------------------------------------------------------------------------
(* The steps of WorkerHttp in which the thread is outside of                *)
(* curl_multi_socket_action.                                                *)

\* curl_multi_add_handle forgets the last announcement.
AddHandle(c, ms) ==
    /\ ~acting
    /\ DoIssue(c, ms)
    /\ \E k \in FirstKeys' : Announce(k)
    /\ UNCHANGED <<acting, inCurl, context>>

\* curl_multi_remove_handle, with CURL_POLL_REMOVE if it has a socket.
CancelHandle(c) ==
    /\ ~acting
    /\ OnCancel(c)
    /\ UpdateTimer
    /\ context' = [context EXCEPT ![c] = IF @ = "open" THEN "closing" ELSE @]
    /\ UNCHANGED <<acting, inCurl>>

RemoveHandle ==
    /\ ~acting
    /\ CleanUp
    /\ UpdateTimer
    /\ UNCHANGED <<acting, inCurl, context>>

OtherCallback ==
    /\ ~acting
    /\ Dequeue \/ TickEnds \/ CheckEnds \/ \E c \in Clients : ReadMessage(c)
    /\ UNCHANGED glue

StartTick == ~acting /\ OnTickTimer /\ UNCHANGED glue

-----------------------------------------------------------------------------
(* The callbacks of the timer and of the sockets.                           *)

UvCurlTimerOnTimeOut ==
    /\ loop = "poll" /\ ~acting
    /\ curlTimer # Off /\ curlTimer <= now
    /\ curlTimer' = Off
    /\ lastCall' = NoKey
    /\ acting' = TRUE
    /\ inCurl' = Expired
    /\ UNCHANGED <<vars, context>>

\* The socket is ready, or has an error.
UvCurlOnPoll(c) ==
    /\ loop = "poll" /\ ~acting
    /\ context[c] = "open"
    /\ curlTimer' = Off
    /\ acting' = TRUE
    /\ inCurl' = {c} \cup Expired
    /\ UNCHANGED <<vars, lastCall, context>>

\* cURL starts the transfer and wants to hear of its socket: SocketFunction
\* creates the context (CURL_POLL_OUT).
Connect(c) ==
    /\ BeginTransfer(c)
    /\ context' = [context EXCEPT ![c] = "open"]

\* Nothing for the job: the connection is established, the request sent.
Advance(c) ==
    /\ easy[c] = "running" /\ now < Expiry(c)
    /\ UNCHANGED <<vars, context>>

\* CURL_POLL_REMOVE at the end of a transfer: uv_close, and the context is
\* deleted later.
Finish(c) ==
    /\ Ends(c)
    /\ context' = [context EXCEPT ![c] = "closing"]

Treat(c) ==
    /\ acting
    /\ c \in inCurl
    /\ \/ Connect(c)
       \/ Advance(c)
       \/ Receive(c, FALSE) /\ UNCHANGED context
       \/ Finish(c)
    /\ inCurl' = inCurl \ {c}
    /\ UNCHANGED <<curlTimer, lastCall, acting>>

\* The action ends with the timer; what it announces may also be another
\* expiry of its own, of a connection attempt for one.
ActionEnds ==
    /\ acting /\ inCurl = {}
    /\ acting' = FALSE
    /\ UNCHANGED <<vars, inCurl, context>>
    /\ UpdateTimer \/ \E k \in FirstKeys : Announce(k)

\* UvCurlOnClose, in a later part of the loop.
UvCurlOnClose(c) ==
    /\ loop = "poll" /\ ~acting
    /\ context[c] = "closing"
    /\ context' = [context EXCEPT ![c] = "none"]
    /\ UNCHANGED <<vars, curlTimer, lastCall, acting, inCurl>>

-----------------------------------------------------------------------------

Returns ==
    \/ RemoveHandle
    \/ OtherCallback
    \/ ActionEnds
    \/ \E c \in Clients : Treat(c)

CurlSteps ==
    \/ TimePasses /\ UNCHANGED glue
    \/ StartTick
    \/ UvCurlTimerOnTimeOut
    \/ Returns
    \/ \E c \in Clients :
          \/ \E ms \in Timeouts : AddHandle(c, ms)
          \/ ~acting /\ IssueFails(c) /\ UNCHANGED glue
          \/ CancelHandle(c)
          \/ UvCurlOnPoll(c)
          \/ UvCurlOnClose(c)

CurlNext == touched = {} /\ CurlSteps

CurlSpec == CurlInit /\ [][CurlNext]_curlVars

\* Time goes on, callbacks return, and uv_run serves the tick, cURL's timer and
\* closing handles again and again, among whatever else is ready: strong
\* fairness where the thread must be in uv_run.  A socket need never be ready.
CurlFairness ==
    /\ WF_curlVars(TimePasses /\ UNCHANGED glue)
    /\ WF_curlVars(Returns)
    /\ SF_curlVars(StartTick)
    /\ SF_curlVars(UvCurlTimerOnTimeOut)
    /\ \A c \in Clients : SF_curlVars(UvCurlOnClose(c))

CurlFairSpec == CurlSpec /\ CurlFairness

-----------------------------------------------------------------------------
(* Properties.                                                              *)

\* A transfer that was added is begun by the timer, whatever other sockets,
\* timeouts and cancellations do to it in between: there is one timer for all.
AddedIsAnnounced ==
    ~acting /\ (\E c \in Clients : easy[c] = "added") =>
        curlTimer # Off /\ curlTimer <= now

\* The comment at HttpClientJob.cc:81-85: the handle of a job that has timed out
\* is cleaned up too, because cURL's own timeout produces a message for it.
TimedOutIsCleanedUp ==
    \A c \in Clients : job[c] = "timeout" ~> easy[c] = "cleaned"

\* A transfer that is over leaves nothing behind, whatever became of its job and
\* of the other transfers meanwhile: its handle is cleaned up and the context of
\* its socket deleted (unless the model has stopped at a use of a deleted job).
FinishedIsReleased ==
    \A c \in Clients :
        easy[c] = "finished" \/ job[c] = "cancelled" ~>
            \/ easy[c] = "cleaned" /\ context[c] = "none"
            \/ touched # {}

-----------------------------------------------------------------------------
(* The invariant that proves AddedIsAnnounced (CurlSockets_proofs).         *)

\* cURL does not leave a socket action before it has begun what was added.
GlueInv ==
    /\ GlueTypeOK
    /\ AddedIsAnnounced
    /\ \A c \in Clients : issued[c].at <= now
    /\ acting => \A c \in Clients : easy[c] = "added" => c \in inCurl
=============================================================================
