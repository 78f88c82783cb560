------------------------------ MODULE JobDriver ------------------------------
(****************************************************************************)
(* The job driver of one worker thread (src/Job/Job.h, src/Job/Job.cc).     *)
(*                                                                          *)
(* Jobs form a forest.  Driver::Run drains a per-thread queue of pending    *)
(* activations; each activation runs Job::OnStep of business code, whose    *)
(* effects (InvokeChild, Cancel, Sleep, starting an IO) and whose result    *)
(* (kContinue, kWaiting, kDone) are chosen nondeterministically here.  The  *)
(* driver alone frees jobs.                                                 *)
(*                                                                          *)
(* What business code does is bounded by three sets of jobs, so that one    *)
(* specification covers the way the repository's own jobs behave and the    *)
(* freer use that the contract in Job.h allows:                             *)
(*   Parallel    the jobs that may have several children in flight at once; *)
(*   Cancellers  the jobs that may call Cancel() or may return kDone while  *)
(*               a child or a timer of theirs is still outstanding;         *)
(*   Sleepers    the jobs that may call Sleep or ArmTimeout.                *)
(****************************************************************************)
EXTENDS Integers

CONSTANTS Jobs,         \* every Job object that the thread ever sees
          None,         \* nullptr
          Parallel,
          Cancellers,
          Sleepers

ASSUME JobDriverAssumption ==
    /\ None \notin Jobs
    /\ Parallel \subseteq Jobs
    /\ Cancellers \subseteq Jobs
    /\ Sleepers \subseteq Jobs

VARIABLES
    status,         \* of the object: not yet constructed, alive, deleted
    parent,         \* Job::Parent; Children is its inverse
    cancelPending,  \* Job::CancelPending
    queue,          \* PendingQueue::Q, a function from slots to activations
    tail,           \* the slot that the next push_back fills
    active,         \* PendingQueue::Active
    cur,            \* arguments of the DriveOne that runs; job None if none does
    io,             \* jobs waiting for an external completion (cURL)
    timers,         \* jobs in the thread's SleepQueue or DelayQueue
    finished        \* history: jobs that returned kDone and are not deleted yet

vars == <<status, parent, cancelPending, queue, tail, active, cur, io, timers,
          finished>>

forest == <<parent, cancelPending>>

Activation == [job : Jobs, trigger : Jobs, del : Jobs \cup {None}]

\* The arguments of DriveOne outside a call, and those of a re-entered OnStep.
Frame(j) == [job |-> j, trigger |-> None, del |-> None]

TypeOK ==
    /\ status \in [Jobs -> {"new", "live", "freed"}]
    /\ parent \in [Jobs -> Jobs \cup {None}]
    /\ cancelPending \in [Jobs -> BOOLEAN]
    /\ tail \in Nat \ {0}
    /\ DOMAIN queue \subseteq 1 .. (tail - 1)
    /\ queue \in [DOMAIN queue -> Activation]
    /\ active \in BOOLEAN
    /\ cur \in [job : Jobs \cup {None}, trigger : Jobs \cup {None},
                del : Jobs \cup {None}]
    /\ io \subseteq Jobs
    /\ timers \subseteq Jobs
    /\ finished \subseteq Jobs

Init ==
    /\ status = [j \in Jobs |-> "new"]
    /\ parent = [j \in Jobs |-> None]
    /\ cancelPending = [j \in Jobs |-> FALSE]
    /\ queue = [i \in {} |-> Frame(None)]
    /\ tail = 1
    /\ active = FALSE
    /\ cur = Frame(None)
    /\ io = {}
    /\ timers = {}
    /\ finished = {}

-----------------------------------------------------------------------------
(* The forest and the queue.                                                *)

Children(p) == {c \in Jobs : parent[c] = p}

ClosedUnderChildren(S) == \A c \in Jobs : parent[c] \in S => c \in S

\* The jobs that Job::CancelChildrenAndSelf visits, starting from j.
Subtree(j) ==
    {k \in Jobs : \A S \in SUBSET Jobs :
                      j \in S /\ ClosedUnderChildren(S) => k \in S}

Mentions(e, victims) ==
    e.job \in victims \/ e.trigger \in victims \/ e.del \in victims

KeepPending(q, victims) == q                                       \* a mutant

\* Driver::PurgePending, for every job of a set.
PurgePending(q, victims) ==
    [i \in {i \in DOMAIN q : ~Mentions(q[i], victims)} |-> q[i]]

PushBack(q, e) ==
    [i \in DOMAIN q \cup {tail} |-> IF i = tail THEN e ELSE q[i]]

Front == CHOOSE i \in DOMAIN queue : \A k \in DOMAIN queue : i <= k

\* Activations that deliver a finished child of p, not yet dequeued.
Undelivered(p) == {i \in DOMAIN queue : queue[i].job = p /\ queue[i].del # None}

NothingOutstanding(p) == Children(p) = {} /\ Undelivered(p) = {}

\* delete of every job of a set.
Freed(gone) == [j \in Jobs |-> IF j \in gone THEN "freed" ELSE status[j]]

Detached(gone) == [j \in Jobs |-> IF j \in gone THEN None ELSE parent[j]]

-----------------------------------------------------------------------------
(* Driver::Run, called by the event loop for a new job, for an IO that      *)
(* completed and for a timer that fired.  The loop is single-threaded: it   *)
(* calls Run only when no drain is in progress.                             *)

Run(j) ==
    /\ queue' = PushBack(queue, [job |-> j, trigger |-> j, del |-> None])
    /\ tail' = tail + 1
    /\ active' = TRUE

\* itc::JobCreateAndRun::Process and DispatchTcp: a root job.
Submit(j) ==
    /\ ~active
    /\ status[j] = "new"
    /\ status' = [status EXCEPT ![j] = "live"]
    /\ Run(j)
    /\ UNCHANGED <<forest, cur, io, timers, finished>>

\* CurlMultiStatusCheck: an external completion.
CompleteIO(j) ==
    /\ ~active
    /\ j \in io
    /\ io' = io \ {j}
    /\ Run(j)
    /\ UNCHANGED <<status, forest, cur, timers, finished>>

\* DealSleepQueue and DealDealyQueue.  The queues hold plain pointers, which
\* nothing removes when the job is deleted.
FireTimer(j) ==
    /\ ~active
    /\ j \in timers
    /\ timers' = timers \ {j}
    /\ Run(j)
    /\ UNCHANGED <<status, forest, cur, io, finished>>

SwappedArguments == [queue[Front] EXCEPT !.trigger = queue[Front].job]  \* a mutant

\* The entry that Driver::Run passes to DriveOne.
Arguments == queue[Front]

\* The loop of Driver::Run takes the front of the queue ...
Dequeue ==
    /\ active
    /\ cur.job = None
    /\ DOMAIN queue # {}
    /\ cur' = Arguments
    /\ queue' = [i \in DOMAIN queue \ {Front} |-> queue[i]]
    /\ UNCHANGED <<status, forest, tail, active, io, timers, finished>>

\* ... and returns to the event loop when the queue is empty.
DrainEnd ==
    /\ active
    /\ cur.job = None
    /\ DOMAIN queue = {}
    /\ active' = FALSE
    /\ tail' = 1
    /\ UNCHANGED <<status, forest, queue, cur, io, timers, finished>>

-----------------------------------------------------------------------------
(* DriveOne, one iteration of its loop per action.                          *)

\* The child that was handed over as Trigger is deleted after OnStep, or by
\* the cancellation that comes instead of it; the pointer is then reset.
DeleteAfterStep == {cur.del} \ {None}

KeepPointer(j) == [Frame(j) EXCEPT !.del = cur.del]                \* a mutant

Again(j) == Frame(j)

ForgetReturn == cur                                                \* a mutant

Returned == Frame(None)

KeepHandedOver == Subtree(cur.job)                                 \* a mutant

DeletedByCancel == Subtree(cur.job) \cup DeleteAfterStep

\* The top of the loop: a job whose Cancel() was called is cancelled with its
\* descendants and its parent is not notified.
CancelCurrent ==
    /\ cur.job # None
    /\ cancelPending[cur.job]
    /\ LET victims == Subtree(cur.job)
       IN  /\ parent' = Detached(victims)
           /\ queue' = PurgePending(queue, victims)
           /\ io' = io \ victims                              \* OnCancel
    /\ status' = Freed(DeletedByCancel)
    /\ finished' = finished \ DeletedByCancel
    /\ cur' = Returned
    /\ UNCHANGED <<cancelPending, tail, active, timers>>

Stepping(j) == j # None /\ cur.job = j /\ ~cancelPending[j]

\* kContinue loops, kWaiting and kDone leave DriveOne.
Resume(j, step) ==
    cur' = IF step = "kContinue" THEN Again(j) ELSE Returned

\* OnStep calls InvokeChild(new Child).
StepInvokeChild(j, c, step) ==
    /\ Stepping(j)
    /\ status[c] = "new"
    /\ j \in Parallel \/ NothingOutstanding(j)
    /\ status' = [Freed(DeleteAfterStep) EXCEPT ![c] = "live"]
    /\ parent' = [parent EXCEPT ![c] = j]
    /\ queue' = PushBack(queue, [job |-> c, trigger |-> c, del |-> None])
    /\ tail' = tail + 1
    /\ finished' = finished \ DeleteAfterStep
    /\ Resume(j, step)
    /\ UNCHANGED <<cancelPending, active, io, timers>>

\* OnStep calls Cancel() on its own job or on a child.
StepCancel(j, target, step) ==
    /\ Stepping(j)
    /\ j \in Cancellers
    /\ target \in {j} \cup Children(j)
    /\ cancelPending' = [cancelPending EXCEPT ![target] = TRUE]
    /\ status' = Freed(DeleteAfterStep)
    /\ finished' = finished \ DeleteAfterStep
    /\ Resume(j, step)
    /\ UNCHANGED <<parent, queue, tail, active, io, timers>>

\* OnStep only advances its own state and returns kContinue.
StepContinue(j) ==
    /\ Stepping(j)
    /\ status' = Freed(DeleteAfterStep)
    /\ finished' = finished \ DeleteAfterStep
    /\ Resume(j, "kContinue")
    /\ UNCHANGED <<forest, queue, tail, active, io, timers>>

\* OnStep starts an IO, calls Sleep or ArmTimeout, or waits for a child, and
\* returns kWaiting.
StepWait(j) ==
    /\ Stepping(j)
    /\ \/ io' = io \cup {j} /\ UNCHANGED timers
       \/ j \in Sleepers /\ timers' = timers \cup {j} /\ UNCHANGED io
       \/ ~NothingOutstanding(j) /\ UNCHANGED <<io, timers>>
    /\ status' = Freed(DeleteAfterStep)
    /\ finished' = finished \ DeleteAfterStep
    /\ Resume(j, "kWaiting")
    /\ UNCHANGED <<forest, queue, tail, active>>

\* What the parent of a finished job is woken with: it observes the job as
\* Trigger, and the job is deleted after that OnStep.
HandOver(j) == [job |-> parent[j], trigger |-> j, del |-> j]

AbandonNone(j) == {}                                               \* a mutant

\* The descendants that still run when a job is done.
Abandoned(j) == Subtree(j) \ {j}

Untold(j) == FALSE                                                 \* a mutant

HasParent(j) == parent[j] # None

\* OnStep returns kDone, having cleaned up its own IO (the contract of IOJob).
\* The children that still run are cancelled.  With a parent, the job is handed
\* over to it and is deleted after the parent's OnStep; without one it is
\* deleted at once.
StepDone(j) ==
    /\ Stepping(j)
    /\ j \in Cancellers \/ (NothingOutstanding(j) /\ j \notin timers)
    /\ LET victims == Abandoned(j)
           purged == PurgePending(queue, victims)
           gone == victims \cup DeleteAfterStep
       IN  /\ parent' = Detached(victims \cup {j})
           /\ io' = io \ (victims \cup {j})                   \* OnCancel
           /\ \/ /\ HasParent(j)
                 /\ status' = Freed(gone)
                 /\ queue' = PushBack(purged, HandOver(j))
                 /\ tail' = tail + 1
                 /\ finished' = (finished \ gone) \cup {j}
              \/ /\ ~HasParent(j)
                 /\ status' = Freed(gone \cup {j})
                 /\ queue' = PurgePending(purged, {j})
                 /\ finished' = finished \ (gone \cup {j})
                 /\ UNCHANGED tail
    /\ Resume(j, "kDone")
    /\ UNCHANGED <<cancelPending, active, timers>>

OnStep(j) ==
    \/ \E c \in Jobs, step \in {"kContinue", "kWaiting"} : StepInvokeChild(j, c, step)
    \/ \E x \in Jobs, step \in {"kContinue", "kWaiting"} : StepCancel(j, x, step)
    \/ StepContinue(j)
    \/ StepWait(j)
    \/ StepDone(j)

Driver == Dequeue \/ DrainEnd \/ CancelCurrent \/ \E j \in Jobs : OnStep(j)

Next ==
    \/ Driver
    \/ \E j \in Jobs : Submit(j) \/ CompleteIO(j) \/ FireTimer(j)

Spec == Init /\ [][Next]_vars

\* Business code returns from OnStep and does not answer kContinue for ever;
\* the event loop keeps running, so completions and timers are served.
Yield(j) == StepWait(j) \/ StepDone(j)

FairSpec ==
    /\ Spec
    /\ WF_vars(Dequeue)
    /\ WF_vars(DrainEnd)
    /\ WF_vars(CancelCurrent)
    /\ \A j \in Jobs : WF_vars(Yield(j)) /\ WF_vars(CompleteIO(j)) /\ WF_vars(FireTimer(j))

-----------------------------------------------------------------------------
(* Properties.                                                              *)

Live == {j \in Jobs : status[j] = "live"}

\* Memory safety of the driver: the DriveOne in progress, every queued
\* activation and every Parent / Children link names a job that is not
\* deleted, so Run, OnStep and ~Job never follow a stale pointer.
NoStaleJob ==
    /\ cur.job # None => cur.job \in Live
    /\ cur.del # None => cur.del \in Live
    /\ \A i \in DOMAIN queue :
           /\ queue[i].job \in Live
           /\ queue[i].trigger \in Live
           /\ queue[i].del # None => queue[i].del \in Live
    /\ \A c \in Jobs : parent[c] # None => {c, parent[c]} \subseteq Live

DeletesOwed(j) ==
    {i \in DOMAIN queue : queue[i].del = j} \cup (IF cur.del = j THEN {0} ELSE {})

\* "delete this happens exactly once, in the framework" (Job.h guarantee 1):
\* a job that returned kDone is owed exactly one delete, held by one queued
\* activation or by the DriveOne in progress; nothing else is owed one.
ExactlyOneDelete ==
    \A j \in Jobs :
        /\ j \in finished => \E i \in DeletesOwed(j) : DeletesOwed(j) = {i}
        /\ j \notin finished => DeletesOwed(j) = {}

\* kDone is final: a job that returned it is neither stepped again nor does it
\* take part in the forest, and its parent has not been destroyed under it.
DoneIsFinal ==
    \A j \in finished :
        /\ j \in Live
        /\ cur.job # j
        /\ parent[j] = None /\ Children(j) = {}
        /\ \A i \in DOMAIN queue : queue[i].job # j

\* Job.h guarantee 2: a job that returned kDone with a parent stays alive until
\* the DriveOne that hands it to that parent as Trigger, so the parent can take
\* its result; no other activation, of a sibling say, deletes it.
HandedOverFirst ==
    [][\A j \in finished : status'[j] = "freed" => cur.trigger = j /\ cur.del = j]_vars

\* Driver::Run returns: every drain comes to an end, whatever mixture of
\* spawning, cancelling and finishing the jobs go through.
DrainEnds == active ~> ~active

\* No completion is lost: a job that returned kDone is eventually observed by
\* its parent and deleted.
FinishedIsReaped == \A j \in Jobs : j \in finished ~> status[j] = "freed"

-----------------------------------------------------------------------------
(* JobTree, without queue and activations: what Job.h promises.             *)

\* The job whose next OnStep observes c, by the DriveOne in progress or by an
\* activation.
Delivers(c, p) ==
    \/ cur.del = c /\ cur.job = p
    \/ \E i \in DOMAIN queue : queue[i].del = c /\ queue[i].job = p

TreeState == [j \in Jobs |-> IF j \in finished THEN "returned" ELSE status[j]]

\* A job that is done has left Children, and its parent is known to the queue.
TreeParent ==
    [j \in Jobs |-> IF j \in finished THEN CHOOSE p \in Jobs : Delivers(j, p) ELSE parent[j]]

Tree == INSTANCE JobTree WITH state <- TreeState, parent <- TreeParent,
                              cancelled <- {j \in Jobs : cancelPending[j]}

\* Through all activations the driver keeps the forest that Job.h describes: a
\* finished child waits for the step of its parent that observes it, and no job
\* leaves without its descendants, those included that are done and not observed.
ImplementsTree == Tree!Spec

-----------------------------------------------------------------------------
(* Why the safety properties hold: the inductive invariant.                 *)

\* The discipline the driver relies on.  Jobs that cancel or abandon their
\* children have one child at a time, and timers are used only where nothing
\* is cancelled.  The jobs of this repository satisfy it with Cancellers = {}.
Discipline ==
    /\ Parallel = {} \/ Cancellers = {}
    /\ Sleepers = {} \/ Cancellers = {}

\* The shape of activations: self-driven, or the delivery of a finished child.
ActivationShape ==
    /\ cur.job = None => cur = Frame(None)
    /\ cur.del # None => cur.del \in finished /\ cur.trigger = cur.del
    /\ \A i \in DOMAIN queue :
           IF queue[i].del = None THEN queue[i].trigger = queue[i].job
           ELSE queue[i].del \in finished /\ queue[i].trigger = queue[i].del
    /\ ~active => cur.job = None /\ DOMAIN queue = {}

\* A self-driven activation is that of a job that has just been spawned, or
\* that of the root of this drain.
SelfDriven ==
    \A i \in DOMAIN queue : queue[i].del = None =>
        /\ cur.job # queue[i].job
        /\ \A k \in DOMAIN queue \ {i} : queue[k].job # queue[i].job
        /\ \/ Children(queue[i].job) = {}
           \/ cur.job = None /\ DOMAIN queue = {i}

\* Without parallel children a drain is one thread of control: it moves down
\* to a spawned child and back up to its parent.
OneThread ==
    Parallel = {} =>
        /\ \A i, k \in DOMAIN queue : i = k
        /\ cur.job # None =>
               \A i \in DOMAIN queue : queue[i].del = None /\ parent[queue[i].job] = cur.job

Acyclic ==
    \A c \in Jobs : parent[c] # None => parent[c] \notin Subtree(c)

WaitersAreLive ==
    /\ io \subseteq Live \ finished
    /\ timers \subseteq Live \ finished
    /\ Sleepers = {} => timers = {}
    /\ Cancellers = {} => \A j \in Jobs : ~cancelPending[j]

IInv ==
    /\ TypeOK
    /\ NoStaleJob
    /\ ExactlyOneDelete
    /\ DoneIsFinal
    /\ ActivationShape
    /\ SelfDriven
    /\ OneThread
    /\ Acyclic
    /\ WaitersAreLive

=============================================================================
