------------------------------ MODULE WorkerHttp ------------------------------
(****************************************************************************)
(* HttpClientJobs on one worker thread (src/Job/HttpClientJob.cc), the      *)
(* DelayQueue that times them out (src/Core/TimeQueue.cc) and the loop      *)
(* callbacks that serve both (src/Core/WorkerThread.cc).                    *)
(*                                                                          *)
(* A request in flight is registered twice: its easy handle is in the       *)
(* thread's cURL multi, with cURL's own CURLOPT_TIMEOUT_MS, and the job is  *)
(* in the delay queue, with the same number of milliseconds.  Whichever     *)
(* ends first drives the job, which answers kDone; its parent takes the     *)
(* result and the driver deletes it in the same drain (see JobDriver).  The *)
(* handle stays in the multi until CurlMultiStatusCheck or OnCancel cleans  *)
(* it up, and its callbacks keep the pointer to the job.                    *)
(*                                                                          *)
(* cURL is external.  It starts a new transfer at a later iteration of the  *)
(* loop and counts its timeout from then.  It is done with a transfer when  *)
(* the response is complete, has failed, or took too long: these are one    *)
(* CURLMSG_DONE, and the code does not look at which it was.  Time moves in *)
(* steps of one tick.  A model stops when a deleted job is used: what the   *)
(* program does from there is undefined.                                    *)
(****************************************************************************)
EXTENDS Integers, Sequences, FiniteSets, SequencesExt

CONSTANTS Clients,    \* the HttpClientJobs ever created on the thread
          None,       \* no client
          Timeouts,   \* values of TimeoutMS, in ticks
          MaxTime,    \* bound on the clock
          MaxStart,   \* ticks within which cURL starts a transfer
          Abandoned   \* clients whose parent may finish, or be cancelled, early

ASSUME HttpAssumption ==
    /\ IsFiniteSet(Clients)
    /\ None \notin Clients
    /\ Timeouts \subseteq Nat \ {0}
    /\ MaxTime \in Nat
    /\ MaxStart \in Nat
    /\ Abandoned \subseteq Clients

Ids == 0 .. (Cardinality(Clients) - 1)      \* far below the width of uint32_t
Time == 0 .. MaxTime
Deleted == {"response", "timeout", "error", "cancelled"}

VARIABLES
    now,          \* steady_clock
    loop,         \* where the thread is: see Places
    tickNow,      \* DealDealyQueue's Now
    jobSeq,       \* DelayQueueImpl::JobSeq
    delayQueue,   \* DelayQueueImpl::List; Map finds an entry by its id
    job,          \* "new", "waiting" in kAwaitResult, or how the job ended
    jobId,        \* IOJob::JobId
    issued,       \* what DoIssue was called with, and when
    easy,         \* the CURL easy handle of the job
    privateId,    \* CURLOPT_PRIVATE of the handle
    begun,        \* when cURL started the transfer
    inHand,       \* the handle whose message CurlMultiStatusCheck is treating
    cleanedTwice, \* handles given to curl_easy_cleanup a second time
    touched       \* deleted jobs that were used

clock == <<now, tickNow>>
jobs == <<job, jobId, issued>>
queues == <<jobSeq, delayQueue>>
curl == <<easy, privateId, begun, cleanedTwice>>
vars == <<clock, loop, jobs, queues, curl, inHand, touched>>

\* The thread waits in uv_run, or runs the delay queue's part of the tick, or
\* is in curl_multi_socket_action with messages to read, or reads them.
Places == {"poll", "tick", "socket", "check"}

Entries == [id : Ids, job : Clients, at : Time]

TypeOK ==
    /\ now \in Time
    /\ tickNow \in Time
    /\ loop \in Places
    /\ jobSeq \in 0 .. Cardinality(Clients)
    /\ delayQueue \in Seq(Entries)
    /\ job \in [Clients -> {"new", "waiting"} \cup Deleted]
    /\ jobId \in [Clients -> Ids]
    /\ issued \in [Clients -> [ms : Timeouts \cup {0}, at : Time]]
    /\ easy \in [Clients -> {"none", "added", "running", "finished", "cleaned"}]
    /\ privateId \in [Clients -> Ids]
    /\ begun \in [Clients -> Time]
    /\ inHand \in Clients \cup {None}
    /\ cleanedTwice \subseteq Clients
    /\ touched \subseteq Clients

Init ==
    /\ now = 0
    /\ tickNow = 0
    /\ loop = "poll"
    /\ jobSeq = 0
    /\ delayQueue = <<>>
    /\ job = [c \in Clients |-> "new"]
    /\ jobId = [c \in Clients |-> 0]
    /\ issued = [c \in Clients |-> [ms |-> 0, at |-> 0]]
    /\ easy = [c \in Clients |-> "none"]
    /\ privateId = [c \in Clients |-> 0]
    /\ begun = [c \in Clients |-> 0]
    /\ inHand = None
    /\ cleanedTwice = {}
    /\ touched = {}

Gone(c) == job[c] \in Deleted

\* Time passes, wherever the thread is.  cURL is not late to start a transfer.
TimePasses ==
    /\ now < MaxTime
    /\ \A c \in Clients : easy[c] = "added" => now < issued[c].at + MaxStart
    /\ now' = now + 1
    /\ UNCHANGED <<tickNow, loop, jobs, queues, curl, inHand, touched>>

-----------------------------------------------------------------------------
(* The delay queue.                                                         *)

AtTheEnd(at) == Len(delayQueue) + 1                                \* a mutant

\* FindPosition: behind the last entry with an earlier deadline, and so in
\* front of the entries with the same one.
FindPosition(at) ==
    Max({0} \cup {i \in DOMAIN delayQueue : delayQueue[i].at < at}) + 1

NotJoined(c, at) == delayQueue                                     \* a mutant

\* DelayQueue::Join, of a job whose id is the next one.
Join(c, at) ==
    InsertAt(delayQueue, FindPosition(at), [id |-> jobSeq, job |-> c, at |-> at])

\* Map.find: where the entry with this id is, if there is one.
Index(id) == {i \in DOMAIN delayQueue : delayQueue[i].id = id}

StillQueued(i) == delayQueue                                       \* a mutant

\* DelayQueue::Remove: what is left of the list.
Without(i) == RemoveAt(delayQueue, i)

OneTickEarly(e) == e.at <= tickNow + 1                             \* a mutant

\* DelayQueue::Dequeue: the first entry is served if its time has come.
Due(e) == e.at <= tickNow

AnyDue == delayQueue # <<>> /\ Due(Head(delayQueue))

-----------------------------------------------------------------------------
(* HttpClientJob.  Its parent invokes it in any drain, and so wherever the  *)
(* thread is: on an ITC event, or in reaction to another job's end.         *)

IdBeforeArming(c) == jobId[c]                                      \* a mutant

\* GetJobId() at CURLOPT_PRIVATE: ArmTimeout has just given the job this id.
PrivateId(c) == jobSeq

\* OnStep in kIssue: DoIssue.
DoIssue(c, ms) ==
    /\ job[c] = "new"
    /\ now + ms <= MaxTime
    /\ job' = [job EXCEPT ![c] = "waiting"]
    /\ issued' = [issued EXCEPT ![c] = [ms |-> ms, at |-> now]]
    /\ delayQueue' = Join(c, now + ms)
    /\ jobId' = [jobId EXCEPT ![c] = jobSeq]
    /\ jobSeq' = jobSeq + 1
    /\ privateId' = [privateId EXCEPT ![c] = PrivateId(c)]
    /\ easy' = [easy EXCEPT ![c] = "added"]
    /\ UNCHANGED <<clock, loop, begun, inHand, cleanedTwice, touched>>

\* curl_easy_init returns no handle: kError, and kDone.
IssueFails(c) ==
    /\ job[c] = "new"
    /\ job' = [job EXCEPT ![c] = "error"]
    /\ UNCHANGED <<clock, loop, jobId, issued, queues, curl, inHand, touched>>

StepCleansUp(c) == [easy EXCEPT ![c] = "cleaned"]                  \* a mutant

\* OnStep in kAwaitResult forgets the handle and leaves it to cURL.
AfterStep(c) == easy

\* The parent finishes, or is cancelled, before this child: OnCancel takes the
\* handle out of the multi, its message with it.  The delay queue is not told.
OnCancel(c) ==
    /\ c \in Abandoned
    /\ job[c] = "waiting"
    /\ job' = [job EXCEPT ![c] = "cancelled"]
    /\ easy' = [easy EXCEPT ![c] = "cleaned"]
    /\ UNCHANGED <<clock, loop, jobId, issued, queues, privateId, begun,
                   inHand, cleanedTwice, touched>>

-----------------------------------------------------------------------------
(* The tick: DealDealyQueue.                                                *)

OnTickTimer ==
    /\ loop = "poll"
    /\ loop' = "tick"
    /\ tickNow' = now
    /\ UNCHANGED <<now, jobs, queues, curl, inHand, touched>>

\* One turn of the loop: the entry's job, found through the stored pointer,
\* gets kErrTimeout and is driven, unless it carries another id by now.
Dequeue ==
    /\ loop = "tick"
    /\ AnyDue
    /\ delayQueue' = Tail(delayQueue)
    /\ LET e == Head(delayQueue)
           current == ~Gone(e.job) /\ jobId[e.job] = e.id
       IN  /\ touched' = IF Gone(e.job) THEN touched \cup {e.job} ELSE touched
           /\ job' = IF current THEN [job EXCEPT ![e.job] = "timeout"] ELSE job
           /\ easy' = IF current THEN AfterStep(e.job) ELSE easy
    /\ UNCHANGED <<clock, loop, jobId, issued, jobSeq, privateId, begun,
                   inHand, cleanedTwice>>

TickEnds ==
    /\ loop = "tick"
    /\ ~AnyDue
    /\ loop' = "poll"
    /\ UNCHANGED <<clock, jobs, queues, curl, inHand, touched>>

-----------------------------------------------------------------------------
(* cURL, within the curl_multi_socket_action of UvCurlOnPoll or of          *)
(* UvCurlTimerOnTimeOut.                                                    *)

InSocketAction == loop \in {"poll", "socket"}

BeginTransfer(c) ==
    /\ InSocketAction
    /\ easy[c] = "added"
    /\ easy' = [easy EXCEPT ![c] = "running"]
    /\ begun' = [begun EXCEPT ![c] = now]
    /\ UNCHANGED <<clock, loop, jobs, queues, privateId, inHand, cleanedTwice, touched>>

\* cURL has a message for CurlMultiStatusCheck.
Done(c) ==
    /\ easy' = [easy EXCEPT ![c] = "finished"]
    /\ loop' = "socket"

\* A part of the response goes to HeaderFunction or WriteFunction, which store
\* it in the job.  cURL looks at its own timeout first.
Receive(c, last) ==
    /\ InSocketAction
    /\ easy[c] = "running"
    /\ now < begun[c] + issued[c].ms
    /\ touched' = IF Gone(c) THEN touched \cup {c} ELSE touched
    /\ IF last THEN Done(c) ELSE UNCHANGED <<easy, loop>>
    /\ UNCHANGED <<clock, jobs, queues, privateId, begun, inHand, cleanedTwice>>

\* The transfer fails or reaches cURL's timeout.
GiveUp(c) ==
    /\ InSocketAction
    /\ easy[c] = "running"
    /\ Done(c)
    /\ UNCHANGED <<clock, jobs, queues, privateId, begun, inHand, cleanedTwice, touched>>

-----------------------------------------------------------------------------
(* CurlMultiStatusCheck.                                                    *)

IfQueued(c) == IF Index(privateId[c]) = {} THEN None ELSE c        \* a mutant

\* The handle of every message is cleaned up after its job was driven.
ToCleanUp(c) == c

\* A message: the job that the delay queue has under the handle's id is driven.
\* If the queue has none, the job has timed out before.
ReadMessage(c) ==
    /\ loop \in {"socket", "check"}
    /\ inHand = None
    /\ easy[c] = "finished"
    /\ loop' = "check"
    /\ inHand' = ToCleanUp(c)
    /\ \/ /\ Index(privateId[c]) = {}
          /\ UNCHANGED <<delayQueue, job, easy, touched>>
       \/ \E i \in Index(privateId[c]) :
             LET j == delayQueue[i].job
             IN  /\ delayQueue' = Without(i)
                 /\ IF Gone(j)
                    THEN touched' = touched \cup {j} /\ UNCHANGED <<job, easy>>
                    ELSE /\ job' = [job EXCEPT ![j] = "response"]
                         /\ easy' = AfterStep(j)
                         /\ UNCHANGED touched
    /\ UNCHANGED <<clock, jobId, issued, jobSeq, privateId, begun, cleanedTwice>>

\* After the drain the handle leaves the multi and is cleaned up.
CleanUp ==
    /\ inHand # None
    /\ easy' = [easy EXCEPT ![inHand] = "cleaned"]
    /\ cleanedTwice' = cleanedTwice \cup {c \in {inHand} : easy[c] = "cleaned"}
    /\ inHand' = None
    /\ UNCHANGED <<clock, loop, jobs, queues, privateId, begun, touched>>

CheckEnds ==
    /\ loop \in {"socket", "check"}
    /\ inHand = None
    /\ \A c \in Clients : easy[c] # "finished"
    /\ loop' = "poll"
    /\ UNCHANGED <<clock, jobs, queues, curl, inHand, touched>>

-----------------------------------------------------------------------------

\* What the thread does next by itself when it is not in uv_run.
Callback ==
    \/ Dequeue
    \/ TickEnds
    \/ \E c \in Clients : ReadMessage(c)
    \/ CleanUp
    \/ CheckEnds

Ends(c) == Receive(c, TRUE) \/ GiveUp(c)

Steps ==
    \/ TimePasses
    \/ OnTickTimer
    \/ Callback
    \/ \E c \in Clients :
          \/ \E ms \in Timeouts : DoIssue(c, ms)
          \/ IssueFails(c)
          \/ OnCancel(c)
          \/ BeginTransfer(c)
          \/ Receive(c, FALSE)
          \/ Ends(c)

Next == touched = {} /\ Steps

Spec == Init /\ [][Next]_vars

-----------------------------------------------------------------------------
(* Properties.                                                              *)

\* No loop callback uses a job that the driver has deleted: what remains of a
\* timed-out job in cURL is cleaned up without it (comment at
\* HttpClientJob.cc:81-87).
NoDeadAccess == touched = {}

Deadline(c) == issued[c].at + issued[c].ms

\* A deleted job is used in two cases only, and not before its deadline: it was
\* cancelled, and the tick finds the entry that OnCancel left in the delay
\* queue; or it has timed out, and cURL had begun to count later than ArmTimeout.
OnlyLateTouched ==
    \A c \in touched :
        /\ Deadline(c) <= now
        /\ job[c] = "cancelled" \/ (job[c] = "timeout" /\ begun[c] > issued[c].at)

\* However timeout, completion and cancellation meet, no easy handle is given
\* to curl_easy_cleanup twice.
CleanedOnce == cleanedTwice = {}

\* A waiting job has an entry in the delay queue and a handle in the multi,
\* under the same id, so that either may end it; no job has two entries; and
\* only cancelled jobs leave one behind.
Registered ==
    /\ \A c \in Clients : job[c] = "waiting" =>
         /\ easy[c] \in {"added", "running", "finished"}
         /\ c # inHand
         /\ \E i \in Index(privateId[c]) : delayQueue[i].job = c
    /\ \A i, k \in DOMAIN delayQueue :
         delayQueue[i].job = delayQueue[k].job => i = k
    /\ \A i \in DOMAIN delayQueue : job[delayQueue[i].job] \in {"waiting", "cancelled"}

\* A completion is delivered to the job whose handle completed, never to
\* another request that waits on the thread, a retry included.
OwnResult ==
    [][\A c \in Clients : job[c] = "waiting" /\ job'[c] = "response" => inHand' = c]_vars

\* A tick leaves no entry behind that was due when it started: DealDealyQueue
\* stops at the first one that is not.
NothingOverdue ==
    [][loop = "tick" /\ loop' = "poll" =>
         \A i \in DOMAIN delayQueue : delayQueue[i].at > tickNow]_vars

\* Of a bounded number of requests none stays in flight for ever: each job
\* ends, through cURL or through the tick that comes after its deadline (under
\* the fairness of CurlSockets, which does not include any of its sockets).
InFlightEnds == []<>(touched # {} \/ \A c \in Clients : job[c] # "waiting")

-----------------------------------------------------------------------------
(* The invariant that proves the safety properties (WorkerHttp_proofs).     *)

Issued == {c \in Clients : easy[c] # "none"}

\* The queue is ordered by deadline.
Ordered ==
    \A i, k \in DOMAIN delayQueue : i < k => delayQueue[i].at <= delayQueue[k].at

\* Ids are handed out once, and the job, its handle and its entry have the same.
OneId ==
    /\ jobSeq = Cardinality(Issued)
    /\ \A c \in Issued : privateId[c] = jobId[c] /\ jobId[c] < jobSeq
    /\ \A c, d \in Issued : jobId[c] = jobId[d] => c = d
    /\ \A i \in DOMAIN delayQueue :
         LET e == delayQueue[i]
         IN  e.job \in Issued /\ e.id = jobId[e.job] /\ e.at = Deadline(e.job)

\* How a job ended says what may have become of its handle.
Handles ==
    /\ \A c \in Clients :
         /\ job[c] \in {"new", "error"} => easy[c] = "none"
         /\ job[c] = "response" => easy[c] \in {"finished", "cleaned"}
         /\ job[c] = "cancelled" => easy[c] = "cleaned"
         /\ job[c] = "timeout" => easy[c] # "none" /\ Deadline(c) <= now
    /\ inHand # None => easy[inHand] = "finished"

\* cURL starts a transfer in time.
Started ==
    /\ tickNow <= now
    /\ \A c \in Clients :
         /\ easy[c] = "added" => now <= issued[c].at + MaxStart
         /\ easy[c] = "running" => begun[c] <= issued[c].at + MaxStart

IInv == TypeOK /\ Ordered /\ OneId /\ Registered /\ Handles /\ Started /\ CleanedOnce
=============================================================================
