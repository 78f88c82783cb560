-------------------------- MODULE JobDriver_proofs --------------------------
(****************************************************************************)
(* Proofs about JobDriver: under the stated discipline of business code the *)
(* driver never follows a stale pointer, deletes every job exactly once,    *)
(* never steps a job after kDone, and implements JobTree, for any set of    *)
(* jobs.                                                                    *)
(****************************************************************************)
EXTENDS JobDriver, TLAPS, WellFoundedInduction

USE JobDriverAssumption

-----------------------------------------------------------------------------
(* The queue and the forest.                                                *)

\* A nonempty set of naturals has a least element, so Front is a slot in use.
LEMMA LeastElement ==
    ASSUME NEW S \in SUBSET Nat, S # {}
    PROVE  \E i \in S : \A k \in S : i <= k
<1>1. PICK i \in S : \A k \in S : ~(<<k, i>> \in OpToRel(<, Nat))
  BY NatLessThanWellFounded, WFMin, Zenon
<1>2. \A k \in S : ~(k < i)
  BY <1>1 DEF OpToRel
<1>. QED
  BY <1>2

\* The entry that Driver::Run pops is an entry of the queue.
LEMMA FrontInQueue ==
    ASSUME TypeOK, DOMAIN queue # {}
    PROVE  Front \in DOMAIN queue
<1>1. DOMAIN queue \in SUBSET Nat
  BY DEF TypeOK
<1>. QED
  BY <1>1, LeastElement DEF Front

\* CancelChildrenAndSelf reaches the job itself and is closed under children.
LEMMA SubtreeFacts ==
    ASSUME NEW j \in Jobs
    PROVE  /\ j \in Subtree(j)
           /\ Subtree(j) \subseteq Jobs
           /\ ClosedUnderChildren(Subtree(j))
           /\ \A S \in SUBSET Jobs : j \in S /\ ClosedUnderChildren(S) => Subtree(j) \subseteq S
  BY DEF Subtree, ClosedUnderChildren

\* A job without children is cancelled alone.
LEMMA LeafSubtree ==
    ASSUME NEW j \in Jobs, Children(j) = {}
    PROVE  Subtree(j) = {j}
<1>1. ClosedUnderChildren({j})
  BY DEF ClosedUnderChildren, Children
<1>. QED
  BY <1>1, SubtreeFacts

-----------------------------------------------------------------------------
\* A thread starts with no job, an empty queue and no drain.
LEMMA InitIInv == Init => IInv
<1>. SUFFICES ASSUME Init PROVE IInv
  OBVIOUS
<1>. USE DEF Init
<1>1. DOMAIN queue = {} /\ cur.job = None /\ cur.del = None /\ cur.trigger = None
  BY DEF Frame
<1>2. TypeOK
  <2>1. queue \in [DOMAIN queue -> Activation]
    OBVIOUS
  <2>2. cur \in [job : Jobs \cup {None}, trigger : Jobs \cup {None}, del : Jobs \cup {None}]
    BY DEF Frame
  <2>3. DOMAIN queue \subseteq 1 .. (tail - 1) /\ tail \in Nat \ {0}
    BY <1>1
  <2>4. /\ status \in [Jobs -> {"new", "live", "freed"}]
        /\ parent \in [Jobs -> Jobs \cup {None}]
        /\ cancelPending \in [Jobs -> BOOLEAN]
        /\ active \in BOOLEAN
        /\ io \subseteq Jobs /\ timers \subseteq Jobs /\ finished \subseteq Jobs
    OBVIOUS
  <2>. HIDE DEF Init
  <2>. QED
    BY <2>1, <2>2, <2>3, <2>4 DEF TypeOK
<1>3. NoStaleJob /\ DoneIsFinal /\ ActivationShape /\ SelfDriven /\ OneThread
  BY <1>1 DEF NoStaleJob, DoneIsFinal, ActivationShape, SelfDriven, OneThread
<1>4. ExactlyOneDelete
  BY <1>1 DEF ExactlyOneDelete, DeletesOwed
<1>5. Acyclic /\ WaitersAreLive
  BY DEF Acyclic, WaitersAreLive
<1>. QED
  BY <1>2, <1>3, <1>4, <1>5 DEF IInv

-----------------------------------------------------------------------------
(* The event loop: Run starts a drain with one self-driven activation.      *)

\* What Driver::Run does to an empty queue: one activation of the job for itself.
LEMMA RunEffect ==
    ASSUME IInv, NEW j \in Jobs, ~active, Run(j)
    PROVE  /\ cur = Frame(None)
           /\ DOMAIN queue' = {tail}
           /\ queue'[tail] = [job |-> j, trigger |-> j, del |-> None]
           /\ tail' = tail + 1
           /\ active' = TRUE
<1>1. cur = Frame(None) /\ DOMAIN queue = {}
  BY DEF IInv, ActivationShape
<1>2. queue' = [i \in {tail} |-> [job |-> j, trigger |-> j, del |-> None]]
  BY <1>1 DEF Run, PushBack
<1>. QED
  BY <1>1, <1>2 DEF Run

\* A drain that starts with a live, unfinished job satisfies the invariant.
LEMMA RunPreserves ==
    ASSUME IInv, NEW j \in Jobs, ~active, Run(j),
           UNCHANGED <<parent, cancelPending, cur, finished>>,
           status' \in [Jobs -> {"new", "live", "freed"}],
           Live \subseteq Live', j \in Live', j \notin finished,
           WaitersAreLive'
    PROVE  IInv'
<1>1. /\ cur = Frame(None) /\ cur' = Frame(None)
      /\ DOMAIN queue' = {tail}
      /\ queue'[tail] = [job |-> j, trigger |-> j, del |-> None]
      /\ tail' = tail + 1
      /\ active' = TRUE
  BY RunEffect
<1>2. cur'.job = None /\ cur'.trigger = None /\ cur'.del = None /\ cur.del = None
  BY <1>1 DEF Frame
<1>3. TypeOK /\ DOMAIN queue = {}
  BY DEF IInv, ActivationShape
<1>4. TypeOK'
  <2>1. queue' \in [DOMAIN queue' -> Activation]
    <3>1. queue' = [i \in {tail} |-> [job |-> j, trigger |-> j, del |-> None]]
      BY <1>3 DEF Run, PushBack
    <3>. QED
      BY <3>1 DEF Activation
  <2>2. io' \subseteq Jobs /\ timers' \subseteq Jobs
    BY DEF WaitersAreLive, Live
  <2>3. tail \in Nat \ {0} /\ DOMAIN queue' \subseteq 1 .. (tail' - 1)
    BY <1>1, <1>3 DEF TypeOK
  <2>. QED
    BY <1>1, <1>3, <2>1, <2>2, <2>3 DEF TypeOK
<1>5. NoStaleJob'
  BY <1>1, <1>2 DEF IInv, NoStaleJob
<1>6. ExactlyOneDelete'
  <2>1. finished = {}
    BY <1>2, <1>3 DEF IInv, ExactlyOneDelete, DeletesOwed, TypeOK
  <2>2. \A k \in Jobs : DeletesOwed(k)' = {}
    BY <1>1, <1>2 DEF DeletesOwed
  <2>. QED
    BY <2>1, <2>2 DEF ExactlyOneDelete
<1>7. DoneIsFinal'
  BY <1>1, <1>2, <1>3 DEF IInv, DoneIsFinal, Children, TypeOK
<1>8. ActivationShape'
  BY <1>1, <1>2 DEF ActivationShape
<1>9. SelfDriven'
  BY <1>1, <1>2 DEF SelfDriven
<1>10. OneThread'
  BY <1>1, <1>2 DEF OneThread
<1>11. Acyclic'
  BY DEF IInv, Acyclic, Subtree, ClosedUnderChildren
<1>. QED
  BY <1>4, <1>5, <1>6, <1>7, <1>8, <1>9, <1>10, <1>11 DEF IInv

\* The three ways the event loop starts a drain: a new root job, a completed IO
\* and a timer that fired.
LEMMA LoopPreserves ==
    ASSUME IInv, NEW j \in Jobs, Submit(j) \/ CompleteIO(j) \/ FireTimer(j)
    PROVE  IInv'
<1>1. CASE Submit(j)
  <2>. USE <1>1 DEF Submit
  <2>1. status' \in [Jobs -> {"new", "live", "freed"}] /\ Live \subseteq Live' /\ j \in Live'
    BY DEF IInv, TypeOK, Live
  <2>2. j \notin finished
    BY DEF IInv, DoneIsFinal, Live
  <2>3. WaitersAreLive'
    BY <2>1 DEF IInv, WaitersAreLive, forest
  <2>. QED
    BY <2>1, <2>2, <2>3, RunPreserves DEF forest
<1>2. CASE CompleteIO(j)
  <2>. USE <1>2 DEF CompleteIO
  <2>1. WaitersAreLive /\ TypeOK
    BY DEF IInv
  <2>2. WaitersAreLive'
    BY <2>1 DEF WaitersAreLive, Live, forest
  <2>. QED
    BY <2>1, <2>2, RunPreserves DEF forest, WaitersAreLive, Live, TypeOK
<1>3. CASE FireTimer(j)
  <2>. USE <1>3 DEF FireTimer
  <2>1. WaitersAreLive /\ TypeOK
    BY DEF IInv
  <2>2. WaitersAreLive'
    BY <2>1 DEF WaitersAreLive, Live, forest
  <2>. QED
    BY <2>1, <2>2, RunPreserves DEF forest, WaitersAreLive, Live, TypeOK
<1>. QED
  BY <1>1, <1>2, <1>3

-----------------------------------------------------------------------------
(* The loop of Driver::Run.                                                 *)

\* Popping an entry hands its debts (Trigger, DeleteAfterStep) to DriveOne.
LEMMA DequeuePreserves == IInv /\ Dequeue => IInv'
<1>. SUFFICES ASSUME IInv, Dequeue PROVE IInv'
  OBVIOUS
<1>. DEFINE f == Front
<1>1. f \in DOMAIN queue
  BY FrontInQueue DEF IInv, Dequeue, Arguments
<1>2. /\ cur = Frame(None) /\ active
      /\ cur' = queue[f]
      /\ DOMAIN queue' = DOMAIN queue \ {f}
      /\ \A i \in DOMAIN queue' : queue'[i] = queue[i]
      /\ UNCHANGED <<status, parent, cancelPending, tail, active, io, timers, finished>>
  BY DEF IInv, ActivationShape, Dequeue, Arguments, forest
<1>3. cur.job = None /\ cur.del = None /\ cur.trigger = None
  BY <1>2 DEF Frame
<1>4. TypeOK
  BY DEF IInv
<1>5. queue[f] \in Activation
  BY <1>1, <1>4 DEF TypeOK
<1>6. cur'.job \in Jobs /\ cur'.job = queue[f].job /\ cur'.del = queue[f].del /\ cur'.trigger = queue[f].trigger
  BY <1>2, <1>5 DEF Activation
<1>7. 0 \notin DOMAIN queue
  BY <1>4 DEF TypeOK
<1>. HIDE DEF f
<1>8. TypeOK'
  <2>1. queue' = [i \in DOMAIN queue' |-> queue[i]] /\ DOMAIN queue' \subseteq DOMAIN queue
    BY <1>2 DEF Dequeue
  <2>2. queue' \in [DOMAIN queue' -> Activation]
    BY <1>4, <2>1 DEF TypeOK
  <2>3. cur' \in [job : Jobs \cup {None}, trigger : Jobs \cup {None}, del : Jobs \cup {None}]
    BY <1>2, <1>5 DEF Activation
  <2>. QED
    BY <1>2, <1>4, <2>1, <2>2, <2>3 DEF TypeOK
<1>9. NoStaleJob'
  BY <1>1, <1>2, <1>6 DEF IInv, NoStaleJob, Live
<1>10. ExactlyOneDelete'
  <2>1. SUFFICES ASSUME NEW j \in Jobs
                 PROVE  /\ j \in finished' => \E i \in DeletesOwed(j)' : DeletesOwed(j)' = {i}
                        /\ j \notin finished' => DeletesOwed(j)' = {}
    BY DEF ExactlyOneDelete
  <2>2. /\ j \in finished => \E i \in DeletesOwed(j) : DeletesOwed(j) = {i}
        /\ j \notin finished => DeletesOwed(j) = {}
    BY DEF IInv, ExactlyOneDelete
  <2>3. DeletesOwed(j) = {i \in DOMAIN queue : queue[i].del = j}
    BY <1>3 DEF DeletesOwed
  <2>4. CASE queue[f].del = j
    <3>1. DeletesOwed(j) = {f} /\ j \in finished
      BY <1>1, <2>2, <2>3, <2>4
    <3>2. {i \in DOMAIN queue' : queue'[i].del = j} = {}
      BY <1>2, <2>3, <3>1
    <3>3. DeletesOwed(j)' = {0}
      BY <1>6, <2>4, <3>2 DEF DeletesOwed
    <3>. QED
      BY <1>2, <3>1, <3>3
  <2>5. CASE queue[f].del # j
    <3>1. DeletesOwed(j)' = {i \in DOMAIN queue' : queue'[i].del = j}
      BY <1>6, <2>5 DEF DeletesOwed
    <3>2. DeletesOwed(j)' = DeletesOwed(j)
      BY <1>2, <2>3, <2>5, <3>1
    <3>. QED
      BY <1>2, <2>2, <3>2
  <2>. QED
    BY <2>4, <2>5
<1>11. DoneIsFinal'
  BY <1>1, <1>2, <1>6 DEF IInv, DoneIsFinal, Live, Children
<1>12. ActivationShape'
  BY <1>1, <1>2, <1>6 DEF IInv, ActivationShape
<1>13. SelfDriven'
  <2>1. SUFFICES ASSUME NEW i \in DOMAIN queue', queue'[i].del = None
                 PROVE  /\ cur'.job # queue'[i].job
                        /\ \A k \in DOMAIN queue' \ {i} : queue'[k].job # queue'[i].job
                        /\ Children(queue'[i].job) = {}
    BY <1>2 DEF SelfDriven, Children
  <2>2. i \in DOMAIN queue /\ i # f /\ queue'[i] = queue[i] /\ queue[i].del = None
    BY <1>2, <2>1
  <2>3. \A k \in DOMAIN queue \ {i} : queue[k].job # queue[i].job
    BY <2>2 DEF IInv, SelfDriven
  <2>4. Children(queue[i].job) = {}
    BY <1>1, <2>2 DEF IInv, SelfDriven
  <2>. QED
    BY <1>1, <1>2, <1>6, <2>2, <2>3, <2>4
<1>14. OneThread'
  BY <1>1, <1>2, <1>3 DEF IInv, OneThread
<1>15. Acyclic' /\ WaitersAreLive'
  BY <1>2 DEF IInv, Acyclic, Subtree, ClosedUnderChildren, WaitersAreLive, Live
<1>. QED
  BY <1>8, <1>9, <1>10, <1>11, <1>12, <1>13, <1>14, <1>15 DEF IInv

\* The drain ends with nothing queued, so nothing is owed.
LEMMA DrainEndPreserves == IInv /\ DrainEnd => IInv'
<1>. SUFFICES ASSUME IInv, DrainEnd PROVE IInv'
  OBVIOUS
<1>1. /\ UNCHANGED <<status, parent, cancelPending, queue, cur, io, timers, finished>>
      /\ cur.job = None /\ DOMAIN queue = {} /\ active' = FALSE /\ tail' = 1
  BY DEF DrainEnd, forest
<1>2. TypeOK'
  <2>1. DOMAIN queue' = {} /\ tail' = 1 /\ queue' = queue
    BY <1>1
  <2>2. DOMAIN queue' \subseteq 1 .. (tail' - 1) /\ tail' \in Nat \ {0}
    BY <2>1
  <2>. QED
    BY <1>1, <2>1, <2>2 DEF IInv, TypeOK
<1>3. NoStaleJob' /\ DoneIsFinal' /\ ExactlyOneDelete'
  BY <1>1 DEF IInv, NoStaleJob, DoneIsFinal, ExactlyOneDelete, DeletesOwed, Live, Children
<1>4. ActivationShape' /\ SelfDriven' /\ OneThread'
  BY <1>1 DEF IInv, ActivationShape, SelfDriven, OneThread, Children
<1>5. Acyclic' /\ WaitersAreLive'
  BY <1>1 DEF IInv, Acyclic, Subtree, ClosedUnderChildren, WaitersAreLive, Live
<1>. QED
  BY <1>2, <1>3, <1>4, <1>5 DEF IInv

-----------------------------------------------------------------------------
(* One OnStep.                                                              *)

\* The child handed over to the running DriveOne is mentioned nowhere else.
LEMMA HandedOver ==
    ASSUME IInv, cur.job # None, NEW d \in DeleteAfterStep
    PROVE  /\ d \in finished /\ d \in Jobs /\ d # None /\ d # cur.job /\ d = cur.del
           /\ parent[d] = None /\ Children(d) = {}
           /\ \A i \in DOMAIN queue : queue[i].job # d /\ queue[i].trigger # d /\ queue[i].del # d
<1>1. d = cur.del /\ d # None
  BY DEF DeleteAfterStep
<1>2. d \in finished /\ d \in Jobs
  BY <1>1 DEF IInv, ActivationShape, TypeOK
<1>3. d # cur.job /\ parent[d] = None /\ Children(d) = {} /\ \A i \in DOMAIN queue : queue[i].job # d
  BY <1>2 DEF IInv, DoneIsFinal
<1>4. \A i \in DOMAIN queue : queue[i].del # d
  <2>1. 0 \in DeletesOwed(d)
    BY <1>1 DEF DeletesOwed
  <2>2. DeletesOwed(d) = {0}
    BY <1>2, <2>1 DEF IInv, ExactlyOneDelete
  <2>3. 0 \notin DOMAIN queue
    BY DEF IInv, TypeOK
  <2>. QED
    BY <2>2, <2>3 DEF DeletesOwed
<1>5. \A i \in DOMAIN queue : queue[i].trigger # d
  BY <1>1, <1>3, <1>4 DEF IInv, ActivationShape
<1>. QED
  BY <1>1, <1>2, <1>3, <1>4, <1>5

\* An OnStep that touches neither the forest nor the queue.
LEMMA QuietStep ==
    ASSUME IInv, NEW j \in Jobs, Stepping(j),
           status' = Freed(DeleteAfterStep),
           finished' = finished \ DeleteAfterStep,
           cur' = Frame(j) \/ cur' = Frame(None),
           UNCHANGED <<parent, queue, tail, active>>,
           cancelPending' \in [Jobs -> BOOLEAN],
           WaitersAreLive'
    PROVE  IInv'
<1>. DEFINE D == DeleteAfterStep
<1>1. cur.job = j /\ j # None
  BY DEF Stepping
<1>2. cur'.job \in {j, None} /\ cur'.del = None /\ cur'.trigger = None
  BY DEF Frame
<1>3. \A d \in D : /\ d \in finished /\ d \in Jobs /\ d # None /\ d # j /\ d = cur.del
                   /\ parent[d] = None /\ Children(d) = {}
                   /\ \A i \in DOMAIN queue : queue[i].job # d /\ queue[i].trigger # d /\ queue[i].del # d
  BY <1>1, HandedOver
<1>4. \A k \in Jobs \ D : k # None => cur.del # k
  BY DEF DeleteAfterStep
<1>. HIDE DEF D
<1>5. TypeOK
  BY DEF IInv
<1>6. Live' = Live \ D
  BY <1>5 DEF Live, Freed, D, TypeOK
<1>7. finished' = finished \ D
  BY DEF D
<1>8. TypeOK'
  <2>1. status' \in [Jobs -> {"new", "live", "freed"}]
    BY <1>5 DEF Freed, TypeOK
  <2>2. cur' \in [job : Jobs \cup {None}, trigger : Jobs \cup {None}, del : Jobs \cup {None}]
    BY DEF Frame
  <2>3. io' \subseteq Jobs /\ timers' \subseteq Jobs
    BY DEF WaitersAreLive, Live
  <2>. QED
    BY <1>5, <1>7, <2>1, <2>2, <2>3 DEF TypeOK
<1>9. NoStaleJob'
  <2>1. cur'.job # None => cur'.job \in Live'
    BY <1>1, <1>2, <1>3, <1>6 DEF IInv, NoStaleJob
  <2>2. ASSUME NEW i \in DOMAIN queue
        PROVE  /\ queue[i].job \in Live' /\ queue[i].trigger \in Live'
               /\ queue[i].del # None => queue[i].del \in Live'
    BY <1>3, <1>6 DEF IInv, NoStaleJob
  <2>3. ASSUME NEW c \in Jobs, parent[c] # None
        PROVE  {c, parent[c]} \subseteq Live'
    <3>1. {c, parent[c]} \subseteq Live
      BY <2>3 DEF IInv, NoStaleJob
    <3>2. c \notin D /\ parent[c] \notin D
      BY <1>3, <2>3 DEF Children
    <3>. QED
      BY <1>6, <3>1, <3>2
  <2>. QED
    BY <1>2, <2>1, <2>2, <2>3 DEF NoStaleJob
<1>10. ExactlyOneDelete'
  <2>1. SUFFICES ASSUME NEW k \in Jobs
                 PROVE  /\ k \in finished' => \E i \in DeletesOwed(k)' : DeletesOwed(k)' = {i}
                        /\ k \notin finished' => DeletesOwed(k)' = {}
    BY DEF ExactlyOneDelete
  <2>2. /\ k \in finished => \E i \in DeletesOwed(k) : DeletesOwed(k) = {i}
        /\ k \notin finished => DeletesOwed(k) = {}
    BY DEF IInv, ExactlyOneDelete
  <2>3. DeletesOwed(k)' = {i \in DOMAIN queue : queue[i].del = k}
    BY <1>2 DEF DeletesOwed
  <2>4. CASE k \in D
    BY <1>3, <1>7, <2>3, <2>4
  <2>5. CASE k \notin D
    <3>1. cur.del # k
      BY <1>4, <2>5
    <3>2. DeletesOwed(k)' = DeletesOwed(k)
      BY <2>3, <3>1 DEF DeletesOwed
    <3>. QED
      BY <1>7, <2>2, <2>5, <3>2
  <2>. QED
    BY <2>4, <2>5
<1>11. DoneIsFinal'
  BY <1>1, <1>2, <1>5, <1>6, <1>7 DEF IInv, DoneIsFinal, Children, TypeOK
<1>12. ActivationShape'
  BY <1>1, <1>2, <1>3, <1>7 DEF IInv, ActivationShape, Frame
<1>13. SelfDriven'
  <2>1. \A i \in DOMAIN queue : queue[i].job # None
    BY <1>5 DEF TypeOK, Activation, JobDriverAssumption
  <2>. QED
    BY <1>1, <1>2, <2>1 DEF IInv, SelfDriven, Children
<1>14. OneThread'
  BY <1>1, <1>2 DEF IInv, OneThread
<1>15. Acyclic'
  BY DEF IInv, Acyclic, Subtree, ClosedUnderChildren
<1>. QED
  BY <1>8, <1>9, <1>10, <1>11, <1>12, <1>13, <1>14, <1>15 DEF IInv

\* OnStep that cancels, continues or waits.
LEMMA QuietPreserves ==
    ASSUME IInv, NEW j \in Jobs,
           \/ \E x \in Jobs, step \in {"kContinue", "kWaiting"} : StepCancel(j, x, step)
           \/ StepContinue(j)
           \/ StepWait(j)
    PROVE  IInv'
<1>1. TypeOK /\ WaitersAreLive
  BY DEF IInv
<1>2. ASSUME status' = Freed(DeleteAfterStep), finished' = finished \ DeleteAfterStep, Stepping(j)
      PROVE  \A S : S \subseteq Live \ finished => S \subseteq Live' \ finished'
  <2>1. DeleteAfterStep \subseteq finished
    BY <1>2, HandedOver DEF Stepping
  <2>. QED
    BY <1>1, <1>2, <2>1 DEF Live, Freed, TypeOK
<1>3. ASSUME NEW x \in Jobs, NEW step \in {"kContinue", "kWaiting"}, StepCancel(j, x, step)
      PROVE  IInv'
  <2>. USE <1>3 DEF StepCancel
  <2>1. cancelPending' \in [Jobs -> BOOLEAN] /\ Cancellers # {}
    BY <1>1 DEF TypeOK
  <2>2. WaitersAreLive'
    BY <1>1, <1>2, <2>1 DEF WaitersAreLive
  <2>. QED
    BY <2>1, <2>2, QuietStep DEF Resume, Again, Returned
<1>4. CASE StepContinue(j)
  <2>. USE <1>4 DEF StepContinue, forest
  <2>1. WaitersAreLive'
    BY <1>1, <1>2 DEF WaitersAreLive
  <2>. QED
    BY <1>1, <2>1, QuietStep DEF Resume, Again, Returned, TypeOK
<1>5. CASE StepWait(j)
  <2>. USE <1>5 DEF StepWait, forest
  <2>1. j \in Live \ finished
    BY DEF Stepping, IInv, NoStaleJob, DoneIsFinal
  <2>2. io' \subseteq Live \ finished /\ timers' \subseteq Live \ finished
    BY <1>1, <2>1 DEF WaitersAreLive
  <2>3. WaitersAreLive'
    BY <1>1, <1>2, <2>2 DEF WaitersAreLive
  <2>. QED
    BY <1>1, <2>3, QuietStep DEF Resume, Again, Returned, TypeOK
<1>. QED
  BY <1>3, <1>4, <1>5

\* A freshly constructed job occurs nowhere.
LEMMA NewJob ==
    ASSUME IInv, NEW c \in Jobs, status[c] = "new"
    PROVE  /\ c \notin Live /\ c \notin finished
           /\ parent[c] = None /\ Children(c) = {}
           /\ cur.job # c /\ cur.del # c
           /\ \A i \in DOMAIN queue : queue[i].job # c /\ queue[i].trigger # c /\ queue[i].del # c
<1>1. c \notin Live /\ c # None
  BY DEF Live, JobDriverAssumption
<1>2. parent[c] = None /\ Children(c) = {}
  BY <1>1 DEF IInv, NoStaleJob, Children
<1>. QED
  BY <1>1, <1>2 DEF IInv, NoStaleJob, DoneIsFinal

\* A freshly constructed child closes no cycle.
LEMMA SpawnAcyclic ==
    ASSUME TypeOK, Acyclic, NEW j \in Jobs, NEW c \in Jobs, c # j, Children(c) = {},
           parent[c] = None, \A x \in Jobs : parent[x] # c,
           parent' = [parent EXCEPT ![c] = j]
    PROVE  Acyclic'
<1>1. SUFFICES ASSUME NEW d \in Jobs, parent'[d] # None PROVE parent'[d] \notin Subtree(d)'
  BY DEF Acyclic
<1>0. ASSUME NEW S \in SUBSET Jobs, d \in S, ClosedUnderChildren(S)', parent'[d] \notin S
      PROVE  parent'[d] \notin Subtree(d)'
  BY <1>0 DEF Subtree, ClosedUnderChildren
<1>2. CASE d = c
  <2>1. ClosedUnderChildren({c})'
    BY DEF ClosedUnderChildren, TypeOK
  <2>2. parent'[d] \notin {c}
    BY <1>2 DEF TypeOK
  <2>. QED
    BY <1>0, <1>2, <2>1, <2>2
<1>3. CASE d # c
  <2>1. parent'[d] = parent[d] /\ parent[d] # c
    BY <1>3 DEF TypeOK
  <2>2. PICK S \in SUBSET Jobs : d \in S /\ ClosedUnderChildren(S) /\ parent[d] \notin S
    <3>1. parent[d] \in Jobs /\ parent[d] \notin Subtree(d)
      BY <1>1, <2>1 DEF Acyclic, TypeOK
    <3>. QED
      BY <3>1 DEF Subtree
  <2>3. ClosedUnderChildren(S \cup {c})'
    BY <2>2 DEF ClosedUnderChildren, TypeOK
  <2>4. S \cup {c} \in SUBSET Jobs /\ d \in S \cup {c} /\ parent'[d] \notin S \cup {c}
    BY <2>1, <2>2
  <2>. QED
    BY <1>0, <2>3, <2>4
<1>. QED
  BY <1>2, <1>3

\* Detaching a whole subtree leaves a forest.
LEMMA DetachAcyclic ==
    ASSUME TypeOK, Acyclic, \A x \in Jobs : parent'[x] \in {parent[x], None}
    PROVE  Acyclic'
<1>1. SUFFICES ASSUME NEW d \in Jobs, parent'[d] # None PROVE parent'[d] \notin Subtree(d)'
  BY DEF Acyclic
<1>2. PICK S \in SUBSET Jobs : d \in S /\ ClosedUnderChildren(S) /\ parent[d] \notin S
  <2>1. parent[d] \in Jobs /\ parent[d] \notin Subtree(d)
    BY <1>1 DEF Acyclic, TypeOK
  <2>. QED
    BY <2>1 DEF Subtree
<1>3. ClosedUnderChildren(S)'
  BY <1>2 DEF ClosedUnderChildren, JobDriverAssumption
<1>4. Subtree(d)' \subseteq S
  BY <1>2, <1>3 DEF Subtree, ClosedUnderChildren
<1>. QED
  BY <1>1, <1>2, <1>4

\* OnStep that spawns: the child has one activation, which finds it alive.
LEMMA InvokeChildPreserves ==
    ASSUME IInv, NEW j \in Jobs, NEW c \in Jobs, NEW step \in {"kContinue", "kWaiting"},
           StepInvokeChild(j, c, step)
    PROVE  IInv'
<1>. DEFINE D == DeleteAfterStep
<1>. DEFINE e == [job |-> c, trigger |-> c, del |-> None]
<1>. USE DEF StepInvokeChild
<1>1. cur.job = j /\ j # None /\ j \in Live /\ j \notin finished
  BY DEF Stepping, IInv, NoStaleJob, DoneIsFinal
<1>2. cur'.job \in {j, None} /\ cur'.del = None /\ cur'.trigger = None /\ cur' \in {Frame(j), Frame(None)}
  BY DEF Frame, Resume, Again, Returned
<1>3. \A d \in D : /\ d \in finished /\ d \in Jobs /\ d # None /\ d # j /\ d = cur.del
                   /\ parent[d] = None /\ Children(d) = {}
                   /\ \A i \in DOMAIN queue : queue[i].job # d /\ queue[i].trigger # d /\ queue[i].del # d
  BY <1>1, HandedOver
<1>4. \A k \in Jobs \ D : cur.del # k
  BY DEF DeleteAfterStep, JobDriverAssumption
<1>5. /\ c \notin Live /\ c \notin finished /\ c # None
      /\ parent[c] = None /\ Children(c) = {}
      /\ \A i \in DOMAIN queue : queue[i].job # c /\ queue[i].trigger # c /\ queue[i].del # c
  BY NewJob DEF JobDriverAssumption
<1>6. TypeOK
  BY DEF IInv
<1>7. c \notin D /\ c # j
  BY <1>1, <1>3, <1>5
<1>8. Live' = (Live \ D) \cup {c}
  BY <1>6, <1>7 DEF Live, Freed, D, TypeOK
<1>9. /\ finished' = finished \ D /\ active' = active /\ cancelPending' = cancelPending
      /\ io' = io /\ timers' = timers /\ tail' = tail + 1
  OBVIOUS
<1>10. /\ tail \notin DOMAIN queue
       /\ DOMAIN queue' = DOMAIN queue \cup {tail}
       /\ queue'[tail] = e
       /\ \A i \in DOMAIN queue : queue'[i] = queue[i]
  BY <1>6 DEF PushBack, TypeOK
<1>11. e.job = c /\ e.trigger = c /\ e.del = None
  OBVIOUS
<1>12. /\ parent'[c] = j
       /\ \A x \in Jobs \ {c} : parent'[x] = parent[x]
  BY <1>6 DEF TypeOK
<1>13. \A x \in Jobs : parent[x] # c
  BY <1>5 DEF Children
<1>. HIDE DEF D, e, StepInvokeChild
<1>14. TypeOK'
  <2>1. status' \in [Jobs -> {"new", "live", "freed"}]
    BY <1>6 DEF Freed, TypeOK, StepInvokeChild
  <2>2. queue' \in [DOMAIN queue' -> Activation]
    <3>1. queue' = [i \in DOMAIN queue \cup {tail} |-> IF i = tail THEN e ELSE queue[i]]
      BY DEF StepInvokeChild, PushBack, e
    <3>2. e \in Activation
      BY DEF Activation, e
    <3>. QED
      BY <1>6, <3>1, <3>2 DEF TypeOK
  <2>3. DOMAIN queue' \subseteq 1 .. (tail' - 1) /\ tail' \in Nat \ {0}
    BY <1>6, <1>9, <1>10 DEF TypeOK
  <2>4. cur' \in [job : Jobs \cup {None}, trigger : Jobs \cup {None}, del : Jobs \cup {None}]
    BY <1>2 DEF Frame
  <2>5. parent' \in [Jobs -> Jobs \cup {None}]
    BY <1>6 DEF TypeOK, StepInvokeChild
  <2>. QED
    BY <1>6, <1>9, <2>1, <2>2, <2>3, <2>4, <2>5 DEF TypeOK
<1>15. NoStaleJob'
  <2>1. cur'.job # None => cur'.job \in Live'
    BY <1>1, <1>2, <1>3, <1>8
  <2>2. ASSUME NEW i \in DOMAIN queue
        PROVE  /\ queue[i].job \in Live' /\ queue[i].trigger \in Live'
               /\ queue[i].del # None => queue[i].del \in Live'
    BY <1>3, <1>8 DEF IInv, NoStaleJob
  <2>3. ASSUME NEW x \in Jobs, parent'[x] # None
        PROVE  {x, parent'[x]} \subseteq Live'
    <3>1. CASE x = c
      BY <1>1, <1>3, <1>8, <1>12, <3>1
    <3>2. CASE x # c
      <4>1. {x, parent[x]} \subseteq Live
        BY <1>12, <2>3, <3>2 DEF IInv, NoStaleJob
      <4>2. x \notin D /\ parent[x] \notin D
        BY <1>3, <1>12, <2>3, <3>2 DEF Children
      <4>. QED
        BY <1>8, <1>12, <3>2, <4>1, <4>2
    <3>. QED
      BY <3>1, <3>2
  <2>. QED
    BY <1>2, <1>8, <1>10, <1>11, <2>1, <2>2, <2>3 DEF NoStaleJob
<1>16. ExactlyOneDelete'
  <2>1. SUFFICES ASSUME NEW k \in Jobs
                 PROVE  /\ k \in finished' => \E i \in DeletesOwed(k)' : DeletesOwed(k)' = {i}
                        /\ k \notin finished' => DeletesOwed(k)' = {}
    BY DEF ExactlyOneDelete
  <2>2. /\ k \in finished => \E i \in DeletesOwed(k) : DeletesOwed(k) = {i}
        /\ k \notin finished => DeletesOwed(k) = {}
    BY DEF IInv, ExactlyOneDelete
  <2>3. k # None
    BY DEF JobDriverAssumption
  <2>4. DeletesOwed(k)' = {i \in DOMAIN queue : queue[i].del = k}
    BY <1>2, <1>10, <1>11, <2>3 DEF DeletesOwed
  <2>5. CASE k \in D
    BY <1>3, <1>9, <2>4, <2>5
  <2>6. CASE k \notin D
    <3>1. cur.del # k
      BY <1>4, <2>6
    <3>2. DeletesOwed(k)' = DeletesOwed(k)
      BY <2>4, <3>1 DEF DeletesOwed
    <3>. QED
      BY <1>9, <2>2, <2>6, <3>2
  <2>. QED
    BY <2>5, <2>6
<1>17. DoneIsFinal'
  <2>1. SUFFICES ASSUME NEW k \in finished, k \notin D
                 PROVE  /\ k \in Live' /\ cur'.job # k
                        /\ parent'[k] = None /\ Children(k)' = {}
                        /\ \A i \in DOMAIN queue' : queue'[i].job # k
    BY <1>9 DEF DoneIsFinal
  <2>2. /\ k \in Jobs /\ k \in Live /\ parent[k] = None /\ Children(k) = {} /\ k # None
        /\ \A i \in DOMAIN queue : queue[i].job # k
    BY <1>6 DEF IInv, DoneIsFinal, TypeOK, JobDriverAssumption
  <2>3. k # j /\ k # c
    BY <1>1, <1>5
  <2>4. Children(k)' = {}
    BY <1>12, <2>2, <2>3 DEF Children
  <2>. QED
    BY <1>2, <1>8, <1>10, <1>11, <1>12, <2>1, <2>2, <2>3, <2>4
<1>18. ActivationShape'
  <2>1. cur'.job = None => cur' = Frame(None)
    BY <1>1, <1>2 DEF Frame
  <2>2. active
    BY <1>1 DEF IInv, ActivationShape
  <2>3. ASSUME NEW i \in DOMAIN queue
        PROVE  IF queue[i].del = None THEN queue[i].trigger = queue[i].job
               ELSE queue[i].del \in finished' /\ queue[i].trigger = queue[i].del
    BY <1>3, <1>9 DEF IInv, ActivationShape
  <2>. QED
    BY <1>2, <1>9, <1>10, <1>11, <2>1, <2>2, <2>3 DEF ActivationShape
<1>19. SelfDriven'
  <2>1. SUFFICES ASSUME NEW i \in DOMAIN queue', queue'[i].del = None
                 PROVE  /\ cur'.job # queue'[i].job
                        /\ \A k \in DOMAIN queue' \ {i} : queue'[k].job # queue'[i].job
                        /\ {x \in Jobs : parent'[x] = queue'[i].job} = {}
    BY DEF SelfDriven, Children
  <2>2. CASE i = tail
    <3>1. {x \in Jobs : parent'[x] = c} = {}
      BY <1>7, <1>12, <1>13
    <3>. QED
      BY <1>2, <1>5, <1>7, <1>10, <1>11, <2>2, <3>1
  <2>3. CASE i # tail
    <3>1. i \in DOMAIN queue /\ queue'[i] = queue[i] /\ queue[i].job \in Jobs
      BY <1>6, <1>10, <2>3 DEF TypeOK, Activation
    <3>2. /\ queue[i].job # j /\ Children(queue[i].job) = {}
          /\ \A k \in DOMAIN queue \ {i} : queue[k].job # queue[i].job
      BY <1>1, <2>1, <3>1 DEF IInv, SelfDriven
    <3>3. {x \in Jobs : parent'[x] = queue[i].job} = {}
      BY <1>12, <3>1, <3>2 DEF Children
    <3>4. {x \in Jobs : parent'[x] = queue'[i].job} = {}
      BY <3>1, <3>3
    <3>5. queue[i].job # None /\ queue[i].job # c
      BY <1>5, <3>1 DEF JobDriverAssumption
    <3>. QED
      BY <1>2, <1>10, <1>11, <3>1, <3>2, <3>4, <3>5
  <2>. QED
    BY <2>2, <2>3
<1>20. OneThread'
  <2>1. SUFFICES ASSUME Parallel = {} PROVE DOMAIN queue = {}
    BY <1>2, <1>5, <1>10, <1>11, <1>12 DEF OneThread
  <2>2. NothingOutstanding(j)
    BY <2>1 DEF StepInvokeChild
  <2>3. \A i \in DOMAIN queue : parent[queue[i].job] = j /\ queue[i].job \in Jobs
    BY <1>1, <1>6, <2>1 DEF IInv, OneThread, TypeOK, Activation
  <2>. QED
    BY <2>2, <2>3 DEF NothingOutstanding, Children
<1>21. Acyclic'
  BY <1>5, <1>6, <1>7, <1>13, SpawnAcyclic DEF IInv, StepInvokeChild
<1>22. WaitersAreLive'
  BY <1>3, <1>8, <1>9 DEF IInv, WaitersAreLive
<1>. QED
  BY <1>14, <1>15, <1>16, <1>17, <1>18, <1>19, <1>20, <1>21, <1>22 DEF IInv

-----------------------------------------------------------------------------
(* A running job finishes or is cancelled.                                  *)

\* What is below the running job: alive, not finished, without the child that
\* is being handed over; and what its queue entries look like.
LEMMA BelowRunning ==
    ASSUME IInv, NEW j \in Jobs, cur.job = j
    PROVE  /\ j \in Subtree(j) /\ Subtree(j) \subseteq Live \ finished
           /\ \A x \in Jobs : parent[x] \in Subtree(j) => x \in Subtree(j)
           /\ j \in Live /\ j \notin finished
<1>. DEFINE S == {j} \cup {k \in Jobs : parent[k] # None}
<1>1. j \in Subtree(j) /\ Subtree(j) \subseteq Jobs /\ ClosedUnderChildren(Subtree(j))
  BY SubtreeFacts
<1>2. j \in Live /\ j \notin finished
  BY DEF IInv, NoStaleJob, DoneIsFinal, JobDriverAssumption
<1>3. ClosedUnderChildren(S)
  BY DEF ClosedUnderChildren, JobDriverAssumption
<1>4. Subtree(j) \subseteq S
  BY <1>3, SubtreeFacts
<1>5. S \subseteq Live \ finished
  BY <1>2 DEF IInv, NoStaleJob, DoneIsFinal
<1>. QED
  BY <1>1, <1>2, <1>4, <1>5 DEF ClosedUnderChildren

\* What StepDone leaves of the queue: nothing that is owed to a job outside of
\* the subtree is dropped.
LEMMA PurgedByDone ==
    ASSUME IInv, Discipline, NEW j \in Jobs, cur.job = j,
           Cancellers # {} \/ NothingOutstanding(j)
    PROVE  /\ \A i \in DOMAIN queue :
                  \/ ~Mentions(queue[i], Subtree(j))
                  \/ queue[i].del = None /\ queue[i].job \in Subtree(j) \ {j}
           /\ Parallel = {} => \A i \in DOMAIN queue : Mentions(queue[i], Subtree(j) \ {j})
<1>1. j # None /\ j \notin finished /\ TypeOK
  BY BelowRunning DEF IInv, JobDriverAssumption
<1>2. CASE Parallel = {}
  <2>1. ASSUME NEW i \in DOMAIN queue
        PROVE  queue[i].del = None /\ queue[i].job \in Subtree(j) \ {j}
    <3>1. queue[i].del = None /\ parent[queue[i].job] = j /\ queue[i].job \in Jobs
      BY <1>1, <1>2 DEF IInv, OneThread, TypeOK, Activation
    <3>2. queue[i].job # j
      BY <3>1 DEF IInv, SelfDriven
    <3>. QED
      BY <3>1, <3>2, BelowRunning
  <2>. QED
    BY <2>1 DEF Mentions
<1>3. CASE Parallel # {}
  <2>1. NothingOutstanding(j)
    BY <1>3 DEF Discipline
  <2>2. Subtree(j) = {j}
    BY <2>1, LeafSubtree DEF NothingOutstanding
  <2>3. ASSUME NEW i \in DOMAIN queue
        PROVE  queue[i].job # j /\ queue[i].trigger # j /\ queue[i].del # j
    <3>1. queue[i].job # j
      BY <2>1 DEF NothingOutstanding, Undelivered, IInv, SelfDriven
    <3>2. queue[i].del # j /\ queue[i].trigger # j
      BY <1>1, <3>1 DEF IInv, ActivationShape
    <3>. QED
      BY <3>1, <3>2
  <2>. QED
    BY <1>3, <2>2, <2>3 DEF Mentions
<1>. QED
  BY <1>2, <1>3

\* The end of a job that is not handed over: it is deleted with its subtree.
LEMMA SubtreeDies ==
    ASSUME IInv, Discipline, NEW j \in Jobs, cur.job = j,
           Cancellers # {} \/ (NothingOutstanding(j) /\ j \notin timers),
           status' = Freed(Subtree(j) \cup DeleteAfterStep),
           parent' = Detached(Subtree(j)),
           queue' = PurgePending(queue, Subtree(j)),
           finished' = finished \ (Subtree(j) \cup DeleteAfterStep),
           io' = io \ Subtree(j),
           cur' = Frame(None),
           UNCHANGED <<cancelPending, tail, active, timers>>
    PROVE  IInv'
<1>. DEFINE D == DeleteAfterStep
            V == Subtree(j)
            K == {i \in DOMAIN queue : ~Mentions(queue[i], V)}
<1>1. cur.job = j /\ j # None /\ TypeOK /\ active
  BY DEF IInv, ActivationShape, JobDriverAssumption
<1>2. /\ V \subseteq Live \ finished /\ j \in V
      /\ \A x \in Jobs : parent[x] \in V => x \in V
  BY <1>1, BelowRunning
<1>3. \A d \in D : /\ d \in finished /\ d \in Jobs /\ d # None /\ d # j /\ d = cur.del
                   /\ parent[d] = None /\ Children(d) = {}
                   /\ \A i \in DOMAIN queue : queue[i].job # d /\ queue[i].trigger # d /\ queue[i].del # d
  BY <1>1, HandedOver
<1>4. \A k \in Jobs \ D : cur.del # k
  BY DEF DeleteAfterStep, JobDriverAssumption
<1>5. /\ \A i \in DOMAIN queue : i \in K \/ queue[i].del = None
      /\ Parallel = {} => K = {}
  <2>1. /\ \A i \in DOMAIN queue :
               \/ ~Mentions(queue[i], Subtree(j))
               \/ queue[i].del = None /\ queue[i].job \in Subtree(j) \ {j}
        /\ Parallel = {} => \A i \in DOMAIN queue : Mentions(queue[i], Subtree(j) \ {j})
    BY <1>1, PurgedByDone
  <2>. QED
    BY <2>1 DEF Mentions
<1>6. /\ cur'.job = None /\ cur'.del = None /\ cur'.trigger = None
      /\ cancelPending' = cancelPending /\ active' = active /\ timers' = timers /\ tail' = tail
      /\ io' = io \ V
  BY DEF Frame
<1>7. \A x \in Jobs : parent'[x] = IF x \in V THEN None ELSE parent[x]
  BY DEF Detached
<1>8. finished' = finished \ D
  BY <1>2
<1>9. Live' = Live \ (V \cup D)
  BY <1>1 DEF Live, Freed, TypeOK
<1>10. DOMAIN queue' = K /\ \A i \in K : queue'[i] = queue[i] /\ i \in DOMAIN queue
  BY DEF PurgePending
<1>11. \A i \in K : queue[i].job \notin V /\ queue[i].trigger \notin V /\ queue[i].del \notin V
  BY DEF Mentions
<1>12. TypeOK'
  <2>1. status' \in [Jobs -> {"new", "live", "freed"}]
    BY <1>1 DEF Freed, TypeOK
  <2>2. queue' \in [DOMAIN queue' -> Activation]
    <3>1. queue' = [i \in K |-> queue[i]]
      BY DEF PurgePending
    <3>. QED
      BY <1>1, <3>1 DEF TypeOK
  <2>3. DOMAIN queue' \subseteq 1 .. (tail' - 1) /\ tail' \in Nat \ {0}
    BY <1>1, <1>6, <1>10 DEF TypeOK
  <2>4. cur' \in [job : Jobs \cup {None}, trigger : Jobs \cup {None}, del : Jobs \cup {None}]
    BY DEF Frame
  <2>5. parent' \in [Jobs -> Jobs \cup {None}]
    BY <1>1 DEF Detached, TypeOK
  <2>6. finished' \subseteq Jobs /\ io' \subseteq Jobs
    BY <1>1, <1>6, <1>8 DEF TypeOK
  <2>. QED
    BY <1>1, <1>6, <2>1, <2>2, <2>3, <2>4, <2>5, <2>6 DEF TypeOK
<1>. HIDE DEF D, V, K
<1>13. NoStaleJob'
  <2>1. \A i \in K : /\ queue[i].job \in Live' /\ queue[i].trigger \in Live'
                     /\ queue[i].del # None => queue[i].del \in Live'
    <3>1. \A i \in K : /\ queue[i].job \in Live /\ queue[i].trigger \in Live
                       /\ queue[i].del # None => queue[i].del \in Live
      BY <1>10 DEF IInv, NoStaleJob
    <3>. QED
      BY <1>3, <1>9, <1>10, <1>11, <3>1
  <2>2. ASSUME NEW x \in Jobs, parent'[x] # None
        PROVE  {x, parent'[x]} \subseteq Live'
    <3>1. x \notin V /\ parent'[x] = parent[x] /\ parent[x] \notin V
      BY <1>2, <1>7, <2>2
    <3>2. {x, parent[x]} \subseteq Live
      BY <2>2, <3>1 DEF IInv, NoStaleJob
    <3>3. x \notin D /\ parent[x] \notin D
      BY <1>3, <2>2, <3>1 DEF Children
    <3>. QED
      BY <1>9, <3>1, <3>2, <3>3
  <2>. QED
    BY <1>6, <1>10, <2>1, <2>2 DEF NoStaleJob
<1>14. ExactlyOneDelete'
  <2>1. SUFFICES ASSUME NEW k \in Jobs
                 PROVE  /\ k \in finished' => \E i \in DeletesOwed(k)' : DeletesOwed(k)' = {i}
                        /\ k \notin finished' => DeletesOwed(k)' = {}
    BY DEF ExactlyOneDelete
  <2>2. /\ k \in finished => \E i \in DeletesOwed(k) : DeletesOwed(k) = {i}
        /\ k \notin finished => DeletesOwed(k) = {}
        /\ k # None
    BY DEF IInv, ExactlyOneDelete, JobDriverAssumption
  <2>3. DeletesOwed(k)' = {i \in K : queue[i].del = k}
    BY <1>6, <1>10, <2>2 DEF DeletesOwed
  <2>4. DeletesOwed(k)' = {i \in DOMAIN queue : queue[i].del = k}
    BY <1>5, <1>10, <2>2, <2>3
  <2>5. CASE k \in D
    BY <1>3, <1>8, <2>4, <2>5
  <2>6. CASE k \notin D
    <3>1. DeletesOwed(k)' = DeletesOwed(k)
      BY <1>4, <2>4, <2>6 DEF DeletesOwed
    <3>. QED
      BY <1>8, <2>2, <2>6, <3>1
  <2>. QED
    BY <2>5, <2>6
<1>15. DoneIsFinal'
  <2>1. SUFFICES ASSUME NEW k \in finished, k \notin D
                 PROVE  /\ k \in Live' /\ cur'.job # k
                        /\ parent'[k] = None /\ {x \in Jobs : parent'[x] = k} = {}
                        /\ \A i \in DOMAIN queue' : queue'[i].job # k
    BY <1>8 DEF DoneIsFinal, Children
  <2>2. /\ k \in Jobs /\ k # None /\ k \in Live /\ parent[k] = None /\ Children(k) = {}
        /\ \A i \in DOMAIN queue : queue[i].job # k
    BY <1>1 DEF IInv, DoneIsFinal, TypeOK, JobDriverAssumption
  <2>3. k \in Live'
    BY <1>2, <1>9, <2>1, <2>2
  <2>4. parent'[k] = None /\ {x \in Jobs : parent'[x] = k} = {}
    BY <1>7, <2>2 DEF Children
  <2>. QED
    BY <1>6, <1>10, <2>2, <2>3, <2>4
<1>16. ActivationShape'
  <2>1. ASSUME NEW i \in K
        PROVE  IF queue[i].del = None THEN queue[i].trigger = queue[i].job
               ELSE queue[i].del \in finished' /\ queue[i].trigger = queue[i].del
    BY <1>3, <1>8, <1>10 DEF IInv, ActivationShape
  <2>. QED
    BY <1>1, <1>6, <1>10, <2>1 DEF ActivationShape
<1>17. SelfDriven'
  <2>1. SUFFICES ASSUME NEW i \in DOMAIN queue', queue'[i].del = None
                 PROVE  /\ cur'.job # queue'[i].job
                        /\ \A k \in DOMAIN queue' \ {i} : queue'[k].job # queue'[i].job
                        /\ {x \in Jobs : parent'[x] = queue'[i].job} = {}
    BY DEF SelfDriven, Children
  <2>2. i \in K /\ i \in DOMAIN queue /\ queue'[i] = queue[i] /\ queue[i].del = None
    BY <1>10, <2>1
  <2>3. queue[i].job \in Jobs /\ queue[i].job # None
    BY <1>1, <2>2 DEF TypeOK, Activation, JobDriverAssumption
  <2>4. /\ Children(queue[i].job) = {}
        /\ \A k \in DOMAIN queue \ {i} : queue[k].job # queue[i].job
    BY <1>1, <2>2 DEF IInv, SelfDriven
  <2>5. {x \in Jobs : parent'[x] = queue[i].job} = {}
    BY <1>7, <2>3, <2>4 DEF Children
  <2>. QED
    BY <1>6, <1>10, <2>2, <2>3, <2>4, <2>5
<1>18. OneThread'
  BY <1>5, <1>6, <1>10 DEF OneThread
<1>19. Acyclic'
  BY <1>1, <1>7, DetachAcyclic DEF IInv
<1>20. WaitersAreLive'
  <2>1. io' \subseteq Live' \ finished'
    BY <1>3, <1>6, <1>8, <1>9 DEF IInv, WaitersAreLive
  <2>2. timers' \subseteq Live' \ finished'
    <3>1. CASE Sleepers = {}
      BY <1>6, <3>1 DEF IInv, WaitersAreLive
    <3>2. CASE Sleepers # {}
      <4>1. NothingOutstanding(j) /\ j \notin timers
        BY <3>2 DEF Discipline
      <4>2. V = {j}
        BY <4>1, LeafSubtree DEF NothingOutstanding, V
      <4>. QED
        BY <1>3, <1>6, <1>8, <1>9, <4>1, <4>2 DEF IInv, WaitersAreLive
    <3>. QED
      BY <3>1, <3>2
  <2>. QED
    BY <1>6, <2>1, <2>2 DEF IInv, WaitersAreLive
<1>. QED
  BY <1>12, <1>13, <1>14, <1>15, <1>16, <1>17, <1>18, <1>19, <1>20 DEF IInv

\* OnStep that returns kDone: the subtree dies and the job is handed over, or it
\* dies with its subtree.
LEMMA DonePreserves ==
    ASSUME IInv, Discipline, NEW j \in Jobs, StepDone(j)
    PROVE  IInv'
<1>. DEFINE D == DeleteAfterStep
            V == Subtree(j) \ {j}
            K == {i \in DOMAIN queue : ~Mentions(queue[i], Subtree(j))}
            p == parent[j]
            e == [job |-> p, trigger |-> j, del |-> j]
<1>. USE DEF StepDone, HandOver, Abandoned, HasParent
<1>1. cur.job = j /\ j # None /\ TypeOK /\ active
  BY DEF Stepping, IInv, ActivationShape
<1>2. /\ j \in Subtree(j) /\ Subtree(j) \subseteq Live \ finished
      /\ \A x \in Jobs : parent[x] \in Subtree(j) => x \in Subtree(j)
      /\ j \in Live /\ j \notin finished
  BY <1>1, BelowRunning
<1>3. \A d \in D : /\ d \in finished /\ d \in Jobs /\ d # None /\ d # j /\ d = cur.del
                   /\ parent[d] = None /\ Children(d) = {}
                   /\ \A i \in DOMAIN queue : queue[i].job # d /\ queue[i].trigger # d /\ queue[i].del # d
  BY <1>1, HandedOver
<1>4. \A k \in Jobs \ D : cur.del # k
  BY DEF DeleteAfterStep, JobDriverAssumption
<1>5. /\ \A i \in DOMAIN queue : i \in K \/ queue[i].del = None
      /\ K = {i \in DOMAIN queue : ~Mentions(queue[i], V)}
      /\ Parallel = {} => K = {}
  <2>1. /\ \A i \in DOMAIN queue :
               \/ ~Mentions(queue[i], Subtree(j))
               \/ queue[i].del = None /\ queue[i].job \in Subtree(j) \ {j}
        /\ Parallel = {} => \A i \in DOMAIN queue : Mentions(queue[i], Subtree(j) \ {j})
    BY <1>1, PurgedByDone
  <2>. QED
    BY <2>1 DEF Mentions
<1>6. /\ cur' = Frame(None) /\ cur'.job = None /\ cur'.del = None /\ cur'.trigger = None
      /\ cancelPending' = cancelPending /\ active' = active /\ timers' = timers
      /\ io' = io \ Subtree(j) /\ parent' = Detached(Subtree(j))
  <2>1. V \cup {j} = Subtree(j)
    BY <1>2
  <2>. QED
    BY <2>1 DEF Resume, Again, Returned, Frame
<1>7. \A x \in Jobs : parent'[x] = IF x \in Subtree(j) THEN None ELSE parent[x]
  BY <1>6 DEF Detached
<1>8. V \cap D = {} /\ V \cap finished = {} /\ finished \ (V \cup D) = finished \ D
  BY <1>2, <1>3
<1>9. p # None => /\ p \in Live /\ p \in Jobs /\ p \notin Subtree(j) /\ p \notin finished /\ p # j
                  /\ Children(p) # {} /\ p \notin D
  <2>1. SUFFICES ASSUME p # None PROVE /\ p \in Live /\ p \in Jobs /\ p \notin Subtree(j) /\ p \notin finished
                                       /\ p # j /\ Children(p) # {} /\ p \notin D
    OBVIOUS
  <2>2. p \in Jobs /\ p \in Live
    BY <1>1, <2>1 DEF TypeOK, IInv, NoStaleJob
  <2>3. p \notin Subtree(j)
    BY <2>1 DEF IInv, Acyclic
  <2>4. j \in Children(p)
    BY <2>2 DEF Children
  <2>5. p \notin finished
    BY <2>4 DEF IInv, DoneIsFinal
  <2>. QED
    BY <1>2, <1>3, <2>2, <2>3, <2>4, <2>5
\* The two ends of the step, in the same words.
<1>10. CASE p # None
  <2>1. /\ status' = Freed(V \cup D)
        /\ queue' = PushBack(PurgePending(queue, V), e)
        /\ tail' = tail + 1
        /\ finished' = (finished \ (V \cup D)) \cup {j}
    BY <1>10
  <2>2. finished' = (finished \ D) \cup {j}
    BY <1>8, <2>1
  <2>3. Live' = Live \ (V \cup D)
    BY <1>1, <2>1 DEF Live, Freed, TypeOK
  <2>4. DOMAIN PurgePending(queue, V) = K /\ \A i \in K : PurgePending(queue, V)[i] = queue[i]
    BY <1>5 DEF PurgePending
  <2>5. /\ tail \notin DOMAIN queue /\ tail \notin K
        /\ DOMAIN queue' = K \cup {tail}
        /\ queue'[tail] = e
        /\ \A i \in K : queue'[i] = queue[i] /\ i \in DOMAIN queue
    <3>1. K \subseteq DOMAIN queue
      OBVIOUS
    <3>2. tail \notin DOMAIN queue
      BY <1>1 DEF TypeOK
    <3>. HIDE DEF K, e, V, D, StepDone, HandOver, Abandoned, HasParent
    <3>3. queue' = [i \in K \cup {tail} |-> IF i = tail THEN e ELSE PurgePending(queue, V)[i]]
      BY <2>1, <2>4 DEF PushBack
    <3>. QED
      BY <2>4, <3>1, <3>2, <3>3
  <2>6. e.job = p /\ e.trigger = j /\ e.del = j
    OBVIOUS
  <2>7. \A i \in K : queue[i].job \notin Subtree(j) /\ queue[i].trigger \notin Subtree(j) /\ queue[i].del \notin Subtree(j)
    BY DEF Mentions
  <2>8. 0 \notin DOMAIN queue /\ tail # 0
    BY <1>1 DEF TypeOK
  <2>. HIDE DEF D, V, K, e, p, StepDone, HandOver, Abandoned, HasParent
  <2>9. TypeOK'
    <3>1. status' \in [Jobs -> {"new", "live", "freed"}]
      BY <1>1, <2>1 DEF Freed, TypeOK
    <3>2. queue' \in [DOMAIN queue' -> Activation]
      <4>1. queue' = [i \in K \cup {tail} |-> IF i = tail THEN e ELSE PurgePending(queue, V)[i]]
        BY <2>1, <2>4 DEF PushBack
      <4>2. e \in Activation
        BY <1>9, <1>10 DEF Activation, e
      <4>3. \A i \in K : queue[i] \in Activation
        BY <1>1, <2>5 DEF TypeOK
      <4>. QED
        BY <2>4, <4>1, <4>2, <4>3
    <3>3. DOMAIN queue' \subseteq 1 .. (tail' - 1) /\ tail' \in Nat \ {0}
      <4>1. K \subseteq 1 .. (tail - 1) /\ tail \in Nat \ {0}
        BY <1>1, <2>5 DEF TypeOK
      <4>2. tail' = tail + 1 /\ DOMAIN queue' = K \cup {tail}
        BY <2>1, <2>5
      <4>3. K \cup {tail} \subseteq 1 .. tail
        BY <4>1
      <4>4. tail' - 1 = tail /\ tail' \in Nat \ {0}
        BY <4>1, <4>2
      <4>. QED
        BY <4>2, <4>3, <4>4
    <3>4. cur' \in [job : Jobs \cup {None}, trigger : Jobs \cup {None}, del : Jobs \cup {None}]
      BY <1>6 DEF Frame
    <3>5. parent' \in [Jobs -> Jobs \cup {None}]
      BY <1>1, <1>6 DEF Detached, TypeOK
    <3>6. finished' \subseteq Jobs /\ io' \subseteq Jobs
      BY <1>1, <1>6, <2>2 DEF TypeOK
    <3>. QED
      BY <1>1, <1>6, <3>1, <3>2, <3>3, <3>4, <3>5, <3>6 DEF TypeOK
  <2>10. NoStaleJob'
    <3>1. \A i \in K : /\ queue[i].job \in Live' /\ queue[i].trigger \in Live'
                       /\ queue[i].del # None => queue[i].del \in Live'
      <4>1. \A i \in K : /\ queue[i].job \in Live /\ queue[i].trigger \in Live
                         /\ queue[i].del # None => queue[i].del \in Live
        BY <2>5 DEF IInv, NoStaleJob
      <4>. QED
        BY <1>3, <2>3, <2>5, <2>7, <4>1 DEF V
    <3>2. p \in Live' /\ j \in Live'
      BY <1>2, <1>3, <1>9, <1>10, <2>3 DEF V
    <3>3. ASSUME NEW x \in Jobs, parent'[x] # None
          PROVE  {x, parent'[x]} \subseteq Live'
      <4>1. x \notin Subtree(j) /\ parent'[x] = parent[x] /\ parent[x] \notin Subtree(j)
        BY <1>2, <1>7, <3>3
      <4>2. {x, parent[x]} \subseteq Live
        BY <3>3, <4>1 DEF IInv, NoStaleJob
      <4>3. x \notin D /\ parent[x] \notin D
        BY <1>3, <3>3, <4>1 DEF Children
      <4>. QED
        BY <2>3, <4>1, <4>2, <4>3 DEF V
    <3>. QED
      BY <1>6, <2>5, <2>6, <3>1, <3>2, <3>3 DEF NoStaleJob
  <2>11. ExactlyOneDelete'
    <3>1. SUFFICES ASSUME NEW k \in Jobs
                   PROVE  /\ k \in finished' => \E i \in DeletesOwed(k)' : DeletesOwed(k)' = {i}
                          /\ k \notin finished' => DeletesOwed(k)' = {}
      BY DEF ExactlyOneDelete
    <3>2. /\ k \in finished => \E i \in DeletesOwed(k) : DeletesOwed(k) = {i}
          /\ k \notin finished => DeletesOwed(k) = {}
          /\ k # None
      BY DEF IInv, ExactlyOneDelete, JobDriverAssumption
    <3>3. CASE k = j
      <4>1. DeletesOwed(k)' = {tail}
        BY <1>2, <1>6, <2>5, <2>6, <2>7, <3>2, <3>3 DEF DeletesOwed
      <4>. QED
        BY <2>2, <3>3, <4>1
    <3>4. CASE k # j
      <4>1. DeletesOwed(k)' = {i \in K : queue[i].del = k}
        BY <1>6, <2>5, <2>6, <3>2, <3>4 DEF DeletesOwed
      <4>2. DeletesOwed(k)' = {i \in DOMAIN queue : queue[i].del = k}
        BY <1>5, <2>5, <3>2, <4>1
      <4>3. CASE k \in D
        BY <1>3, <2>2, <3>4, <4>2, <4>3
      <4>4. CASE k \notin D
        <5>1. DeletesOwed(k)' = DeletesOwed(k)
          BY <1>4, <4>2, <4>4 DEF DeletesOwed
        <5>. QED
          BY <2>2, <3>2, <3>4, <4>4, <5>1
      <4>. QED
        BY <4>3, <4>4
    <3>. QED
      BY <3>3, <3>4
  <2>12. DoneIsFinal'
    <3>1. SUFFICES ASSUME NEW k \in finished'
                   PROVE  /\ k \in Live' /\ cur'.job # k
                          /\ parent'[k] = None /\ {x \in Jobs : parent'[x] = k} = {}
                          /\ \A i \in DOMAIN queue' : queue'[i].job # k
      BY DEF DoneIsFinal, Children
    <3>2. CASE k = j
      <4>1. k \in Live' /\ cur'.job # k /\ parent'[k] = None
        BY <1>1, <1>2, <1>3, <1>6, <1>7, <2>3, <3>2 DEF V
      <4>2. {x \in Jobs : parent'[x] = k} = {}
        BY <1>1, <1>2, <1>7, <3>2
      <4>3. \A i \in DOMAIN queue' : queue'[i].job # k
        BY <1>2, <1>9, <1>10, <2>5, <2>6, <2>7, <3>2
      <4>. QED
        BY <4>1, <4>2, <4>3
    <3>3. CASE k # j
      <4>1. k \in finished /\ k \notin D /\ k \in Jobs /\ k # None
        BY <1>1, <2>2, <3>3 DEF TypeOK, JobDriverAssumption
      <4>2. /\ k \in Live /\ parent[k] = None /\ Children(k) = {}
            /\ \A i \in DOMAIN queue : queue[i].job # k
        BY <4>1 DEF IInv, DoneIsFinal
      <4>3. k \in Live' /\ cur'.job # k
        BY <1>6, <1>8, <2>3, <4>1, <4>2
      <4>4. parent'[k] = None /\ {x \in Jobs : parent'[x] = k} = {}
        BY <1>7, <4>1, <4>2 DEF Children
      <4>5. \A i \in DOMAIN queue' : queue'[i].job # k
        BY <1>9, <1>10, <2>5, <2>6, <4>1, <4>2
      <4>. QED
        BY <4>3, <4>4, <4>5
    <3>. QED
      BY <3>2, <3>3
  <2>13. ActivationShape'
    <3>1. ASSUME NEW i \in K
          PROVE  IF queue[i].del = None THEN queue[i].trigger = queue[i].job
                 ELSE queue[i].del \in finished' /\ queue[i].trigger = queue[i].del
      BY <1>3, <2>2, <2>5 DEF IInv, ActivationShape
    <3>. QED
      BY <1>1, <1>6, <2>2, <2>5, <2>6, <3>1 DEF ActivationShape
  <2>14. SelfDriven'
    <3>1. SUFFICES ASSUME NEW i \in DOMAIN queue', queue'[i].del = None
                   PROVE  /\ cur'.job # queue'[i].job
                          /\ \A k \in DOMAIN queue' \ {i} : queue'[k].job # queue'[i].job
                          /\ {x \in Jobs : parent'[x] = queue'[i].job} = {}
      BY DEF SelfDriven, Children
    <3>2. i \in K /\ i \in DOMAIN queue /\ queue'[i] = queue[i] /\ queue[i].del = None
      BY <1>1, <2>5, <2>6, <3>1
    <3>3. queue[i].job \in Jobs /\ queue[i].job # None
      BY <1>1, <3>2 DEF TypeOK, Activation, JobDriverAssumption
    <3>4. /\ Children(queue[i].job) = {}
          /\ \A k \in DOMAIN queue \ {i} : queue[k].job # queue[i].job
      BY <1>1, <3>2 DEF IInv, SelfDriven
    <3>5. queue[i].job # p
      BY <1>9, <1>10, <3>4
    <3>6. {x \in Jobs : parent'[x] = queue[i].job} = {}
      BY <1>7, <3>3, <3>4 DEF Children
    <3>. QED
      BY <1>6, <2>5, <2>6, <3>2, <3>3, <3>4, <3>5, <3>6
  <2>15. OneThread'
    BY <1>5, <1>6, <2>5 DEF OneThread
  <2>16. Acyclic'
    BY <1>1, <1>7, DetachAcyclic DEF IInv
  <2>17. WaitersAreLive'
    <3>1. io' \subseteq Live' \ finished'
      BY <1>2, <1>3, <1>6, <2>2, <2>3 DEF IInv, WaitersAreLive, V
    <3>2. timers' \subseteq Live' \ finished'
      <4>1. CASE Sleepers = {}
        BY <1>6, <4>1 DEF IInv, WaitersAreLive
      <4>2. CASE Sleepers # {}
        <5>1. NothingOutstanding(j) /\ j \notin timers
          BY <4>2 DEF Discipline, StepDone
        <5>2. V = {}
          BY <5>1, LeafSubtree DEF NothingOutstanding, V
        <5>. QED
          BY <1>3, <1>6, <2>2, <2>3, <5>1, <5>2 DEF IInv, WaitersAreLive
      <4>. QED
        BY <4>1, <4>2
    <3>. QED
      BY <1>6, <3>1, <3>2 DEF IInv, WaitersAreLive
  <2>. QED
    BY <2>9, <2>10, <2>11, <2>12, <2>13, <2>14, <2>15, <2>16, <2>17 DEF IInv
<1>11. CASE p = None
  <2>1. PurgePending(PurgePending(queue, V), {j}) = PurgePending(queue, Subtree(j))
    <3>1. /\ DOMAIN PurgePending(queue, V) = K
          /\ \A i \in K : PurgePending(queue, V)[i] = queue[i] /\ ~Mentions(queue[i], {j})
      BY <1>2, <1>5 DEF PurgePending, Mentions
    <3>2. PurgePending(PurgePending(queue, V), {j}) = [i \in K |-> queue[i]]
      BY <3>1 DEF PurgePending
    <3>. QED
      BY <3>2 DEF PurgePending
  <2>2. (V \cup D) \cup {j} = Subtree(j) \cup D
    BY <1>2
  <2>3. /\ status' = Freed(Subtree(j) \cup D)
        /\ queue' = PurgePending(queue, Subtree(j))
        /\ finished' = finished \ (Subtree(j) \cup D)
        /\ tail' = tail
    BY <1>11, <2>1, <2>2
  <2>4. Cancellers # {} \/ (NothingOutstanding(j) /\ j \notin timers)
    OBVIOUS
  <2>. QED
    BY <1>1, <1>6, <2>3, <2>4, SubtreeDies
<1>. QED
  BY <1>10, <1>11

\* A cancelled job dies with its subtree and the child handed over to it.
LEMMA CancelPreserves == IInv /\ Discipline /\ CancelCurrent => IInv'
<1>. SUFFICES ASSUME IInv, Discipline, CancelCurrent PROVE IInv'
  OBVIOUS
<1>1. cur.job \in Jobs
  BY DEF IInv, TypeOK, CancelCurrent
<1>2. Cancellers # {}
  BY <1>1 DEF IInv, WaitersAreLive, CancelCurrent
<1>. QED
  BY <1>1, <1>2, SubtreeDies DEF CancelCurrent, DeleteAfterStep, DeletedByCancel, Returned

-----------------------------------------------------------------------------
(* The theorems.                                                            *)

\* Nothing changes.
LEMMA StutterPreserves == IInv /\ UNCHANGED vars => IInv'
<1>. SUFFICES ASSUME IInv, UNCHANGED vars PROVE IInv'
  OBVIOUS
<1>. USE DEF vars
<1>1. TypeOK'
  BY DEF IInv, TypeOK
<1>2. NoStaleJob'
  BY DEF IInv, NoStaleJob, Live
<1>3. ExactlyOneDelete'
  BY DEF IInv, ExactlyOneDelete, DeletesOwed
<1>4. DoneIsFinal'
  BY DEF IInv, DoneIsFinal, Live, Children
<1>5. ActivationShape' /\ OneThread'
  BY DEF IInv, ActivationShape, OneThread
<1>6. SelfDriven'
  BY DEF IInv, SelfDriven, Children
<1>7. Acyclic' /\ WaitersAreLive'
  BY DEF IInv, Acyclic, Subtree, ClosedUnderChildren, WaitersAreLive, Live
<1>. QED
  BY <1>1, <1>2, <1>3, <1>4, <1>5, <1>6, <1>7 DEF IInv

\* The inductive invariant of the driver, for every set of jobs.
THEOREM DriverInvariant == Discipline /\ Spec => []IInv
<1>. SUFFICES ASSUME Discipline PROVE Spec => []IInv
  OBVIOUS
<1>1. IInv /\ [Next]_vars => IInv'
  <2>. SUFFICES ASSUME IInv, [Next]_vars PROVE IInv'
    OBVIOUS
  <2>1. CASE Dequeue
    BY <2>1, DequeuePreserves
  <2>2. CASE DrainEnd
    BY <2>2, DrainEndPreserves
  <2>3. CASE CancelCurrent
    BY <2>3, CancelPreserves
  <2>4. ASSUME NEW j \in Jobs, OnStep(j) PROVE IInv'
    BY <2>4, InvokeChildPreserves, QuietPreserves, DonePreserves DEF OnStep
  <2>5. ASSUME NEW j \in Jobs, Submit(j) \/ CompleteIO(j) \/ FireTimer(j) PROVE IInv'
    BY <2>5, LoopPreserves
  <2>6. CASE UNCHANGED vars
    BY <2>6, StutterPreserves
  <2>. QED
    BY <2>1, <2>2, <2>3, <2>4, <2>5, <2>6 DEF Next, Driver
<1>. QED
  BY <1>1, InitIInv, PTL DEF Spec

\* The driver follows no stale pointer: whatever business code does within the
\* discipline, every job named by DriveOne, by an activation or by a Parent /
\* Children link is alive.
THEOREM DriverMemorySafety == Discipline /\ Spec => []NoStaleJob
<1>1. IInv => NoStaleJob
  BY DEF IInv
<1>. QED
  BY <1>1, DriverInvariant, PTL

\* Job.h guarantee 1: a job that returned kDone is owed exactly one delete, and
\* no other job is owed one.
THEOREM DriverDeletesOnce == Discipline /\ Spec => []ExactlyOneDelete
<1>1. IInv => ExactlyOneDelete
  BY DEF IInv
<1>. QED
  BY <1>1, DriverInvariant, PTL

\* kDone is final: no later OnStep, no place in the forest.
THEOREM DriverDoneIsFinal == Discipline /\ Spec => []DoneIsFinal
<1>1. IInv => DoneIsFinal
  BY DEF IInv
<1>. QED
  BY <1>1, DriverInvariant, PTL

\* Job.h guarantee 2: a finished job is deleted only by the DriveOne that hands
\* it to its parent as Trigger.
THEOREM DriverHandsOver == Discipline /\ Spec => HandedOverFirst
<1>. DEFINE A == \A j \in finished : status'[j] = "freed" => cur.trigger = j /\ cur.del = j
<1>1. IInv /\ [Next]_vars => [A]_vars
  <2>. SUFFICES ASSUME IInv, Next, NEW j \in finished, status'[j] = "freed"
                PROVE  cur.trigger = j /\ cur.del = j
    OBVIOUS
  <2>1. j \in Jobs /\ j \in Live /\ status[j] = "live" /\ status \in [Jobs -> {"new", "live", "freed"}]
    BY DEF IInv, DoneIsFinal, TypeOK, Live
  <2>2. cur.del = j => cur.trigger = j
    BY <2>1 DEF IInv, ActivationShape, JobDriverAssumption
  <2>3. ASSUME cur.job \in Jobs PROVE j \notin Subtree(cur.job)
    BY <2>3, BelowRunning
  <2>4. CASE CancelCurrent
    <3>1. cur.job \in Jobs
      BY <2>4 DEF IInv, TypeOK, CancelCurrent
    <3>. QED
      BY <2>1, <2>2, <2>3, <2>4, <3>1 DEF CancelCurrent, DeletedByCancel, DeleteAfterStep, Freed
  <2>5. ASSUME NEW k \in Jobs, OnStep(k) PROVE cur.del = j
    <3>1. CASE StepDone(k)
      <4>1. k # j /\ cur.job = k
        BY <2>1, <3>1 DEF StepDone, Stepping, IInv, DoneIsFinal
      <4>. QED
        BY <2>1, <2>3, <3>1, <4>1 DEF StepDone, HasParent, Abandoned, Freed, DeleteAfterStep
    <3>2. ASSUME NEW c \in Jobs, NEW step, StepInvokeChild(k, c, step) PROVE cur.del = j
      BY <2>1, <3>2 DEF StepInvokeChild, Freed, DeleteAfterStep
    <3>3. ASSUME NEW x \in Jobs, NEW step, StepCancel(k, x, step) PROVE cur.del = j
      BY <2>1, <3>3 DEF StepCancel, Freed, DeleteAfterStep
    <3>4. CASE StepContinue(k) \/ StepWait(k)
      BY <2>1, <3>4 DEF StepContinue, StepWait, Freed, DeleteAfterStep
    <3>. QED
      BY <2>5, <3>1, <3>2, <3>3, <3>4 DEF OnStep
  <2>6. ASSUME NEW k \in Jobs, Submit(k) \/ CompleteIO(k) \/ FireTimer(k) PROVE FALSE
    BY <2>1, <2>6 DEF Submit, CompleteIO, FireTimer
  <2>7. CASE Dequeue \/ DrainEnd
    BY <2>1, <2>7 DEF Dequeue, DrainEnd
  <2>. QED
    BY <2>2, <2>4, <2>5, <2>6, <2>7 DEF Next, Driver
<1>. QED
  BY <1>1, DriverInvariant, PTL DEF HandedOverFirst, Spec

-----------------------------------------------------------------------------
(* The forest of JobTree.                                                   *)

\* The parent that waits for a finished child is known, and only one is.
LEMMA OneObserver ==
    IInv => \A c \in finished :
               \E p \in Jobs : Delivers(c, p) /\ \A q \in Jobs : Delivers(c, q) => q = p
<1>. SUFFICES ASSUME IInv, NEW c \in finished
              PROVE  \E p \in Jobs : Delivers(c, p) /\ \A q \in Jobs : Delivers(c, q) => q = p
  OBVIOUS
<1>1. c \in Jobs /\ c # None /\ TypeOK /\ 0 \notin DOMAIN queue
  BY JobDriverAssumption DEF IInv, TypeOK
<1>2. PICK i \in DeletesOwed(c) : DeletesOwed(c) = {i}
  BY <1>1 DEF IInv, ExactlyOneDelete
<1>3. CASE cur.del = c
  <2>1. \A k \in DOMAIN queue : queue[k].del # c
    BY <1>1, <1>2, <1>3 DEF DeletesOwed
  <2>2. cur.job \in Jobs
    BY <1>1, <1>3 DEF IInv, ActivationShape, TypeOK, Frame
  <2>. QED
    BY <1>3, <2>1, <2>2 DEF Delivers
<1>4. CASE cur.del # c
  <2>1. i \in DOMAIN queue /\ queue[i].del = c /\ \A k \in DOMAIN queue : queue[k].del = c => k = i
    BY <1>2, <1>4 DEF DeletesOwed
  <2>2. queue[i].job \in Jobs
    BY <1>1, <2>1 DEF TypeOK, Activation
  <2>. QED
    BY <1>4, <2>1, <2>2 DEF Delivers
<1>. QED
  BY <1>3, <1>4

\* So the parent of a job in the tree is what the forest or the queue says.
TreeParentKnown ==
    \A c \in Jobs :
       /\ TreeParent[c] \in Jobs \cup {None}
       /\ c \notin finished => TreeParent[c] = parent[c]
       /\ c \in finished => /\ Delivers(c, TreeParent[c])
                            /\ \A p \in Jobs : Delivers(c, p) => TreeParent[c] = p

LEMMA TreeParentIs == IInv => TreeParentKnown
<1>. SUFFICES ASSUME IInv, NEW c \in Jobs
              PROVE  /\ TreeParent[c] \in Jobs \cup {None}
                     /\ c \notin finished => TreeParent[c] = parent[c]
                     /\ c \in finished => /\ Delivers(c, TreeParent[c])
                                          /\ \A p \in Jobs : Delivers(c, p) => TreeParent[c] = p
  BY Zenon DEF TreeParentKnown
<1>1. CASE c \notin finished
  BY <1>1 DEF TreeParent, IInv, TypeOK
<1>2. CASE c \in finished
  <2>1. PICK p \in Jobs : Delivers(c, p) /\ \A q \in Jobs : Delivers(c, q) => q = p
    BY <1>2, OneObserver
  <2>2. TreeParent[c] = CHOOSE q \in Jobs : Delivers(c, q)
    BY <1>2 DEF TreeParent
  <2>3. (CHOOSE q \in Jobs : Delivers(c, q)) = p
    BY <2>1
  <2>. QED
    BY <1>2, <2>1, <2>2, <2>3
<1>. QED
  BY <1>1, <1>2

\* A job that stays finished and is still delivered to its parent keeps its place.
LEMMA StaysReturned ==
    ASSUME IInv, IInv', NEW c \in finished, c \in finished',
           \A p \in Jobs : Delivers(c, p) => Delivers(c, p)'
    PROVE  TreeParent'[c] = TreeParent[c]
<1>1. c \in Jobs
  BY DEF IInv, TypeOK
<1>2. PICK p \in Jobs : Delivers(c, p)
  BY OneObserver
<1>3. TreeParent[c] = p
  BY <1>1, <1>2, TreeParentIs DEF TreeParentKnown
<1>4. TreeParent'[c] = p
  <2>1. IInv' => TreeParentKnown'
    BY TreeParentIs, PTL
  <2>. QED
    BY <1>1, <1>2, <2>1 DEF TreeParentKnown
<1>. QED
  BY <1>3, <1>4

\* A job that is in the forest of Children before and after keeps its place too.
LEMMA StaysInForest ==
    ASSUME IInv, IInv', NEW c \in Jobs, c \notin finished, c \notin finished', parent'[c] = parent[c]
    PROVE  TreeParent'[c] = TreeParent[c]
  BY DEF TreeParent

\* What is delivered by an activation that stays, or by a DriveOne that goes on,
\* is still delivered.
LEMMA StillDelivered ==
    ASSUME NEW c,
           \A i \in DOMAIN queue : queue[i].del = c => i \in DOMAIN queue' /\ queue'[i] = queue[i],
           c # cur.del \/ cur' = cur
    PROVE  \A p \in Jobs : Delivers(c, p) => Delivers(c, p)'
  BY DEF Delivers

\* Nothing but the argument of the OnStep that runs is observed by it.
LEMMA SeenIsObserved ==
    ASSUME IInv, NEW j \in Jobs, cur.job = j
    PROVE  DeleteAfterStep \in Tree!Observed(j)
<1>1. CASE cur.del = None
  BY <1>1 DEF DeleteAfterStep, Tree!Observed
<1>2. CASE cur.del # None
  <2>1. DeleteAfterStep = {cur.del} /\ cur.job # None
    BY <1>2 DEF DeleteAfterStep
  <2>2. cur.del \in finished /\ cur.del \in Jobs /\ cur.del \in Live
    BY <1>2 DEF IInv, ActivationShape, TypeOK, DoneIsFinal
  <2>3. TreeParent[cur.del] = j
    BY <2>2, TreeParentIs DEF TreeParentKnown, Delivers
  <2>4. TreeState[cur.del] = "returned"
    BY <2>2 DEF TreeState, Live
  <2>. QED
    BY <2>1, <2>2, <2>3, <2>4 DEF Tree!Observed
<1>. QED
  BY <1>1, <1>2

\* The job that runs is one that runs in the tree.
LEMMA SteppingRuns ==
    ASSUME IInv, NEW j \in Jobs, cur.job = j
    PROVE  /\ TreeState[j] = "live" /\ TreeParent[j] = parent[j] /\ j \notin finished
           /\ ~cancelPending[j] => Tree!Runs(j)
<1>1. j \in Live /\ j \notin finished
  BY BelowRunning
<1>. QED
  BY <1>1 DEF TreeState, TreeParent, Live, Tree!Runs

\* What CancelChildrenAndSelf reaches, and the child that is handed over, is the
\* whole family of the running job: nothing of it is on its way to another job.
LEMMA FamilyIs ==
    ASSUME IInv, Discipline, NEW j \in Jobs, cur.job = j,
           Cancellers # {} \/ NothingOutstanding(j)
    PROVE  Tree!Family(j) = Subtree(j) \cup DeleteAfterStep
<1>. DEFINE S == Subtree(j) \cup DeleteAfterStep
<1>1. j \in Subtree(j) /\ Subtree(j) \subseteq Jobs \ finished
  BY BelowRunning, SubtreeFacts
<1>2. ASSUME NEW d \in DeleteAfterStep
      PROVE  d \in finished /\ d \in Jobs /\ d = cur.del /\ Children(d) = {} /\ TreeParent[d] = j
  <2>1. d \in finished /\ d \in Jobs /\ d = cur.del /\ Children(d) = {}
    BY <1>2, HandedOver DEF JobDriverAssumption
  <2>. QED
    BY <2>1, TreeParentIs DEF TreeParentKnown, Delivers
<1>3. ASSUME NEW c \in finished, TreeParent[c] \in S PROVE c \in DeleteAfterStep
  <2>1. c \in Jobs /\ c # None
    BY JobDriverAssumption DEF IInv, TypeOK
  <2>2. Delivers(c, TreeParent[c])
    BY <2>1, TreeParentIs DEF TreeParentKnown
  <2>3. CASE cur.del = c
    BY <2>1, <2>3 DEF DeleteAfterStep
  <2>4. ASSUME NEW i \in DOMAIN queue, queue[i].del = c, queue[i].job = TreeParent[c] PROVE FALSE
    <3>1. CASE Parallel = {}
      BY <2>1, <2>4, <3>1 DEF IInv, OneThread, JobDriverAssumption
    <3>2. CASE NothingOutstanding(j)
      <4>1. Subtree(j) = {j} /\ TreeParent[c] # j
        BY <2>1, <2>4, <3>2, LeafSubtree DEF NothingOutstanding, Undelivered
      <4>2. TreeParent[c] \in finished
        BY <1>2, <1>3, <4>1
      <4>. QED
        BY <2>4, <4>2 DEF IInv, DoneIsFinal
    <3>. QED
      BY <3>1, <3>2 DEF Discipline
  <2>. QED
    BY <2>2, <2>3, <2>4 DEF Delivers
<1>4. ASSUME NEW c \in Jobs, TreeParent[c] \in S PROVE c \in S
  <2>1. CASE c \in finished
    BY <1>3, <1>4, <2>1
  <2>2. CASE c \notin finished
    <3>1. parent[c] \in S
      BY <1>4, <2>2, TreeParentIs DEF TreeParentKnown
    <3>2. parent[c] \notin DeleteAfterStep
      BY <1>2 DEF Children
    <3>. QED
      BY <3>1, <3>2, BelowRunning
  <2>. QED
    BY <2>1, <2>2
<1>5. Tree!Family(j) \subseteq S
  BY <1>1, <1>2, <1>4 DEF Tree!Family
<1>6. ASSUME NEW T \in SUBSET Jobs, j \in T, \A c \in Jobs : TreeParent[c] \in T => c \in T
      PROVE  S \subseteq T
  <2>1. DeleteAfterStep \subseteq T
    BY <1>2, <1>6
  <2>2. ASSUME NEW c \in Jobs, parent[c] \in T PROVE c \in T
    <3>1. parent[c] # None
      BY <1>6, <2>2 DEF JobDriverAssumption
    <3>2. c \notin finished
      BY <3>1 DEF IInv, DoneIsFinal
    <3>. QED
      BY <1>6, <2>2, <3>2, TreeParentIs DEF TreeParentKnown
  <2>3. Subtree(j) \subseteq T
    BY <1>6, <2>2, SubtreeFacts DEF ClosedUnderChildren
  <2>. QED
    BY <2>1, <2>3
<1>7. S \subseteq Tree!Family(j)
  BY <1>1, <1>2, <1>6 DEF Tree!Family
<1>. QED
  BY <1>5, <1>7

\* The states and parents of the tree, before and after a step, are functions.
LEMMA TreeFunctions ==
    /\ TreeState = [c \in Jobs |-> TreeState[c]] /\ TreeParent = [c \in Jobs |-> TreeParent[c]]
    /\ TreeState' = [c \in Jobs |-> TreeState'[c]] /\ TreeParent' = [c \in Jobs |-> TreeParent'[c]]
<1>1. TreeState = [c \in Jobs |-> TreeState[c]] /\ TreeState' = [c \in Jobs |-> TreeState'[c]]
  BY DEF TreeState
<1>2. TreeParent = [c \in Jobs |-> TreeParent[c]] /\ TreeParent' = [c \in Jobs |-> TreeParent'[c]]
  BY DEF TreeParent
<1>. QED
  BY <1>1, <1>2

\* The loop's own part of the driver moves activations about and leaves the
\* forest as it is; a new job starts one.
LEMMA LoopKeepsTree ==
    ASSUME IInv, IInv',
           Dequeue \/ DrainEnd \/ \E j \in Jobs : CompleteIO(j) \/ FireTimer(j)
    PROVE  UNCHANGED <<TreeState, TreeParent, {j \in Jobs : cancelPending[j]}>>
<1>1. UNCHANGED <<status, parent, cancelPending, finished>>
  BY DEF Dequeue, DrainEnd, CompleteIO, FireTimer, forest
<1>2. TreeState' = TreeState
  BY <1>1 DEF TreeState
<1>3. ASSUME NEW c \in finished PROVE \A p \in Jobs : Delivers(c, p) => Delivers(c, p)'
  <2>1. CASE Dequeue
    <3>1. cur = Frame(None) /\ c # None
      BY <1>3, <2>1, JobDriverAssumption DEF Dequeue, IInv, ActivationShape, TypeOK
    <3>2. ASSUME NEW p \in Jobs, NEW i \in DOMAIN queue, queue[i].del = c, queue[i].job = p
          PROVE  Delivers(c, p)'
      <4>1. CASE i = Front
        BY <2>1, <3>2, <4>1 DEF Dequeue, Arguments, Delivers
      <4>2. CASE i # Front
        BY <2>1, <3>2, <4>2 DEF Dequeue, Delivers
      <4>. QED
        BY <4>1, <4>2
    <3>. QED
      BY <3>1, <3>2 DEF Delivers, Frame
  <2>2. CASE DrainEnd
    BY <2>2, StillDelivered DEF DrainEnd
  <2>3. ASSUME NEW j \in Jobs, CompleteIO(j) \/ FireTimer(j)
        PROVE  \A p \in Jobs : Delivers(c, p) => Delivers(c, p)'
    BY <2>3, StillDelivered DEF CompleteIO, FireTimer, Run, PushBack, IInv, TypeOK
  <2>. QED
    BY <2>1, <2>2, <2>3
<1>4. ASSUME NEW c \in Jobs PROVE TreeParent'[c] = TreeParent[c]
  BY <1>1, <1>3, StaysReturned, StaysInForest
<1>5. TreeParent' = TreeParent
  BY <1>4, TreeFunctions
<1>. QED
  BY <1>1, <1>2, <1>5

LEMMA SubmitStarts ==
    ASSUME IInv, IInv', NEW j \in Jobs, Submit(j)
    PROVE  Tree!Start(j)
<1>1. j \notin finished /\ TreeState[j] = "new"
  BY DEF Submit, TreeState, IInv, DoneIsFinal, Live
<1>2. TreeState' = [TreeState EXCEPT ![j] = "live"]
  <2>1. status \in [Jobs -> {"new", "live", "freed"}] /\ finished' = finished
    BY DEF Submit, IInv, TypeOK
  <2>2. ASSUME NEW c \in Jobs
        PROVE  TreeState'[c] = IF c = j THEN "live" ELSE TreeState[c]
    <3>1. status'[c] = IF c = j THEN "live" ELSE status[c]
      BY <2>1 DEF Submit
    <3>. QED
      BY <1>1, <2>1, <3>1 DEF TreeState
  <2>. QED
    BY <2>2, TreeFunctions
<1>3. ASSUME NEW c \in Jobs PROVE TreeParent'[c] = TreeParent[c]
  <2>1. CASE c \in finished
    <3>1. \A p \in Jobs : Delivers(c, p) => Delivers(c, p)'
      BY StillDelivered DEF Submit, Run, PushBack, IInv, TypeOK
    <3>. QED
      BY <2>1, <3>1, StaysReturned DEF Submit
  <2>2. CASE c \notin finished
    BY <2>2, StaysInForest DEF Submit, forest
  <2>. QED
    BY <2>1, <2>2
<1>4. TreeParent' = TreeParent
  BY <1>3, TreeFunctions
<1>. QED
  BY <1>1, <1>2, <1>4 DEF Tree!Start, Submit, forest

\* What an OnStep leaves to be delivered, when it deletes the jobs of a set: all
\* other finished jobs keep their activations.
OthersKept(gone) ==
    \A c \in finished \ gone :
       /\ c \in finished'
       /\ \A i \in DOMAIN queue : queue[i].del = c => i \in DOMAIN queue' /\ queue'[i] = queue[i]

\* Then the tree keeps the parents of all that stay as they are.
LEMMA OthersKeepTheirParent ==
    ASSUME IInv, IInv', cur.job # None, NEW gone, DeleteAfterStep \subseteq gone, OthersKept(gone),
           NEW c \in Jobs, c \notin gone, c \notin finished => c \notin finished' /\ parent'[c] = parent[c]
    PROVE  TreeParent'[c] = TreeParent[c]
<1>1. CASE c \in finished
  <2>1. c # cur.del
    BY DEF DeleteAfterStep, JobDriverAssumption
  <2>2. \A p \in Jobs : Delivers(c, p) => Delivers(c, p)'
    BY <1>1, <2>1, StillDelivered DEF OthersKept
  <2>. QED
    BY <1>1, <2>2, StaysReturned DEF OthersKept
<1>2. CASE c \notin finished
  BY <1>2, StaysInForest
<1>. QED
  BY <1>1, <1>2

\* Deleted jobs have no parent any more.
LEMMA GoneHaveNoParent ==
    ASSUME IInv', NEW c \in Jobs, status'[c] = "freed"
    PROVE  c \notin finished' /\ TreeParent'[c] = None
<1>1. c \notin finished'
  BY DEF IInv, DoneIsFinal, Live
<1>2. parent'[c] = None
  BY DEF IInv, NoStaleJob, Live
<1>. QED
  BY <1>1, <1>2 DEF TreeParent

-----------------------------------------------------------------------------
(* Each OnStep is a step of the forest.                                     *)

\* What is deleted leaves the tree, and nothing else changes in it but for the
\* jobs that the step itself is about.
LEMMA LeavesTree ==
    ASSUME IInv, IInv', cur.job # None, NEW gone \in SUBSET Jobs,
           DeleteAfterStep \subseteq gone, OthersKept(gone),
           NEW c \in Jobs,
           c \in gone => status'[c] = "freed",
           c \notin gone /\ c \notin finished
              => c \notin finished' /\ status'[c] = status[c] /\ parent'[c] = parent[c],
           c \notin gone /\ c \in finished => status'[c] = status[c]
    PROVE  /\ TreeState'[c] = Tree!StatesWithout(gone)[c]
           /\ TreeParent'[c] = Tree!ParentsWithout(gone)[c]
<1>1. CASE c \in gone
  <2>1. c \notin finished' /\ TreeParent'[c] = None
    BY <1>1, GoneHaveNoParent
  <2>2. TreeState'[c] = "freed"
    BY <1>1, <2>1 DEF TreeState
  <2>. QED
    BY <1>1, <2>1, <2>2 DEF Tree!StatesWithout, Tree!ParentsWithout
<1>2. CASE c \notin gone
  <2>1. TreeParent'[c] = TreeParent[c]
    BY <1>2, OthersKeepTheirParent
  <2>2. TreeState'[c] = TreeState[c]
    BY <1>2 DEF TreeState, OthersKept
  <2>. QED
    BY <1>2, <2>1, <2>2 DEF Tree!StatesWithout, Tree!ParentsWithout
<1>. QED
  BY <1>1, <1>2

\* The child handed over, which the step deletes, is a job.
LEMMA HandedOverIsJob ==
    ASSUME IInv, cur.job # None
    PROVE  DeleteAfterStep \subseteq finished /\ DeleteAfterStep \subseteq Jobs
  BY HandedOver

LEMMA QuietIsStep ==
    ASSUME IInv, IInv', NEW j \in Jobs, StepContinue(j) \/ StepWait(j)
    PROVE  Tree!Step(j, DeleteAfterStep)
<1>1. cur.job = j /\ j # None /\ ~cancelPending[j]
  BY DEF StepContinue, StepWait, Stepping
<1>2. /\ status' = Freed(DeleteAfterStep) /\ finished' = finished \ DeleteAfterStep
      /\ UNCHANGED <<parent, cancelPending, queue>>
  BY DEF StepContinue, StepWait, forest
<1>3. DeleteAfterStep \subseteq Jobs /\ OthersKept(DeleteAfterStep)
  BY <1>1, <1>2, HandedOverIsJob DEF OthersKept
<1>4. ASSUME NEW c \in Jobs
      PROVE  /\ TreeState'[c] = Tree!StatesWithout(DeleteAfterStep)[c]
             /\ TreeParent'[c] = Tree!ParentsWithout(DeleteAfterStep)[c]
  BY <1>1, <1>2, <1>3, LeavesTree DEF Freed
<1>5. /\ TreeState' = Tree!StatesWithout(DeleteAfterStep)
      /\ TreeParent' = Tree!ParentsWithout(DeleteAfterStep)
  BY <1>4, TreeFunctions DEF Tree!StatesWithout, Tree!ParentsWithout
<1>6. Tree!Runs(j)
  BY <1>1, SteppingRuns
<1>. QED
  BY <1>2, <1>5, <1>6 DEF Tree!Step

LEMMA CancelIsCancel ==
    ASSUME IInv, IInv', NEW j \in Jobs, NEW target \in Jobs, NEW step, StepCancel(j, target, step)
    PROVE  Tree!Cancel(j, target, DeleteAfterStep)
<1>1. cur.job = j /\ j # None /\ ~cancelPending[j]
  BY DEF StepCancel, Stepping
<1>2. /\ status' = Freed(DeleteAfterStep) /\ finished' = finished \ DeleteAfterStep
      /\ UNCHANGED <<parent, queue>>
      /\ cancelPending' = [cancelPending EXCEPT ![target] = TRUE]
      /\ target \in {j} \cup Children(j)
  BY DEF StepCancel
<1>3. DeleteAfterStep \subseteq Jobs /\ OthersKept(DeleteAfterStep)
  BY <1>1, <1>2, HandedOverIsJob DEF OthersKept
<1>4. ASSUME NEW c \in Jobs
      PROVE  /\ TreeState'[c] = Tree!StatesWithout(DeleteAfterStep)[c]
             /\ TreeParent'[c] = Tree!ParentsWithout(DeleteAfterStep)[c]
  BY <1>1, <1>2, <1>3, LeavesTree DEF Freed
<1>5. /\ TreeState' = Tree!StatesWithout(DeleteAfterStep)
      /\ TreeParent' = Tree!ParentsWithout(DeleteAfterStep)
  BY <1>4, TreeFunctions DEF Tree!StatesWithout, Tree!ParentsWithout
<1>6. Tree!Runs(j) /\ TreeState[j] = "live"
  BY <1>1, SteppingRuns
<1>7. {k \in Jobs : cancelPending[k]}' = {k \in Jobs : cancelPending[k]} \cup {target}
  BY <1>2 DEF IInv, TypeOK
<1>8. TreeState[target] = "live" /\ (target = j \/ TreeParent[target] = j)
  <2>1. CASE target = j
    BY <1>6, <2>1
  <2>2. CASE parent[target] = j
    <3>1. target \notin finished /\ target \in Live
      BY <1>1, <2>2 DEF IInv, DoneIsFinal, NoStaleJob
    <3>. QED
      BY <2>2, <3>1 DEF TreeState, TreeParent, Live
  <2>. QED
    BY <1>2, <2>1, <2>2 DEF Children
<1>. QED
  BY <1>5, <1>6, <1>7, <1>8 DEF Tree!Cancel

LEMMA InvokeIsInvoke ==
    ASSUME IInv, IInv', NEW j \in Jobs, NEW c \in Jobs, NEW step, StepInvokeChild(j, c, step)
    PROVE  Tree!InvokeChild(j, c, DeleteAfterStep)
<1>1. cur.job = j /\ j # None /\ ~cancelPending[j] /\ status[c] = "new"
  BY DEF StepInvokeChild, Stepping
<1>2. /\ status' = [Freed(DeleteAfterStep) EXCEPT ![c] = "live"]
      /\ parent' = [parent EXCEPT ![c] = j]
      /\ finished' = finished \ DeleteAfterStep /\ UNCHANGED cancelPending
      /\ queue' = PushBack(queue, [job |-> c, trigger |-> c, del |-> None])
  BY DEF StepInvokeChild
<1>3. c \notin finished /\ c \notin DeleteAfterStep /\ TreeState[c] = "new"
  BY <1>1, HandedOverIsJob DEF IInv, DoneIsFinal, Live, TreeState
<1>4. DeleteAfterStep \subseteq Jobs /\ OthersKept(DeleteAfterStep)
  BY <1>1, <1>2, HandedOverIsJob DEF OthersKept, PushBack, IInv, TypeOK
<1>5. ASSUME NEW k \in Jobs, k # c
      PROVE  /\ TreeState'[k] = Tree!StatesWithout(DeleteAfterStep)[k]
             /\ TreeParent'[k] = Tree!ParentsWithout(DeleteAfterStep)[k]
  <2>1. /\ parent'[k] = parent[k]
        /\ status'[k] = IF k \in DeleteAfterStep THEN "freed" ELSE status[k]
    BY <1>2, <1>5 DEF Freed, IInv, TypeOK
  <2>. QED
    BY <1>1, <1>2, <1>4, <2>1, LeavesTree
<1>6. TreeState'[c] = "live" /\ TreeParent'[c] = j
  <2>1. status'[c] = "live" /\ parent'[c] = j /\ c \notin finished'
    BY <1>2, <1>3 DEF Freed, IInv, TypeOK
  <2>. QED
    BY <2>1 DEF TreeState, TreeParent
<1>7. /\ TreeState' = [Tree!StatesWithout(DeleteAfterStep) EXCEPT ![c] = "live"]
      /\ TreeParent' = [Tree!ParentsWithout(DeleteAfterStep) EXCEPT ![c] = j]
  BY <1>5, <1>6, TreeFunctions DEF Tree!StatesWithout, Tree!ParentsWithout
<1>8. Tree!Runs(j)
  BY <1>1, SteppingRuns
<1>. QED
  BY <1>2, <1>3, <1>7, <1>8 DEF Tree!InvokeChild

\* The end of a running job takes its subtree and the child that was handed to it;
\* what is owed to other jobs stays in the queue.
LEMMA OthersOutliveFamily ==
    ASSUME IInv, Discipline, NEW j \in Jobs, cur.job = j,
           Cancellers # {} \/ NothingOutstanding(j),
           NEW i \in DOMAIN queue, queue[i].del # None
    PROVE  ~Mentions(queue[i], Subtree(j))
  BY PurgedByDone

LEMMA FamilyEnds ==
    ASSUME IInv, IInv', Discipline, NEW j \in Jobs, cur.job = j,
           Cancellers # {} \/ NothingOutstanding(j),
           parent[j] = None \/ cancelPending[j],
           status' = Freed(Subtree(j) \cup DeleteAfterStep),
           parent' = Detached(Subtree(j)),
           \A i \in DOMAIN queue :
              ~Mentions(queue[i], Subtree(j)) => i \in DOMAIN queue' /\ queue'[i] = queue[i],
           finished' = finished \ (Subtree(j) \cup DeleteAfterStep),
           UNCHANGED cancelPending
    PROVE  Tree!End(j)
<1>. DEFINE gone == Subtree(j) \cup DeleteAfterStep
<1>1. Tree!Family(j) = gone
  BY FamilyIs
<1>2. j # None /\ gone \subseteq Jobs
  BY HandedOverIsJob, SubtreeFacts DEF JobDriverAssumption
<1>3. OthersKept(gone)
  BY OthersOutliveFamily DEF OthersKept, JobDriverAssumption, IInv, TypeOK
<1>4. ASSUME NEW c \in Jobs
      PROVE  /\ TreeState'[c] = Tree!StatesWithout(gone)[c]
             /\ TreeParent'[c] = Tree!ParentsWithout(gone)[c]
  BY <1>2, <1>3, LeavesTree DEF Freed, Detached
<1>5. TreeState' = Tree!StatesWithout(gone) /\ TreeParent' = Tree!ParentsWithout(gone)
  BY <1>4, TreeFunctions DEF Tree!StatesWithout, Tree!ParentsWithout
<1>6. TreeState[j] = "live" /\ TreeParent[j] = parent[j]
  BY SteppingRuns
<1>. QED
  BY <1>1, <1>5, <1>6 DEF Tree!End

LEMMA CancelCurrentEnds ==
    ASSUME IInv, IInv', Discipline, CancelCurrent
    PROVE  \E j \in Jobs : Tree!End(j)
<1>1. cur.job \in Jobs /\ cancelPending[cur.job]
  BY DEF CancelCurrent, IInv, TypeOK
<1>2. Cancellers # {}
  BY <1>1 DEF IInv, WaitersAreLive
<1>3. /\ status' = Freed(Subtree(cur.job) \cup DeleteAfterStep)
      /\ parent' = Detached(Subtree(cur.job))
      /\ queue' = PurgePending(queue, Subtree(cur.job))
      /\ finished' = finished \ (Subtree(cur.job) \cup DeleteAfterStep)
      /\ UNCHANGED cancelPending
  BY DEF CancelCurrent, DeletedByCancel
<1>4. \A i \in DOMAIN queue :
         ~Mentions(queue[i], Subtree(cur.job)) => i \in DOMAIN queue' /\ queue'[i] = queue[i]
  BY <1>3 DEF PurgePending
<1>. QED
  BY <1>1, <1>2, <1>3, <1>4, FamilyEnds

LEMMA DoneReturnsOrEnds ==
    ASSUME IInv, IInv', Discipline, NEW j \in Jobs, StepDone(j)
    PROVE  Tree!Return(j) \/ Tree!End(j)
<1>. DEFINE victims == Abandoned(j)
            gone == victims \cup DeleteAfterStep
<1>1. /\ cur.job = j /\ j # None /\ ~cancelPending[j]
      /\ Cancellers # {} \/ NothingOutstanding(j)
      /\ UNCHANGED cancelPending
      /\ parent' = Detached(victims \cup {j})
  BY DEF StepDone, Stepping
<1>2. j \in Subtree(j) /\ Subtree(j) = victims \cup {j} /\ j \notin victims
  BY SubtreeFacts DEF Abandoned
<1>3. CASE ~HasParent(j)
  <2>1. /\ status' = Freed(gone \cup {j})
        /\ queue' = PurgePending(PurgePending(queue, victims), {j})
        /\ finished' = finished \ (gone \cup {j})
    BY <1>3 DEF StepDone
  <2>2. gone \cup {j} = Subtree(j) \cup DeleteAfterStep
    BY <1>2
  <2>3. \A i \in DOMAIN queue :
           ~Mentions(queue[i], Subtree(j)) => i \in DOMAIN queue' /\ queue'[i] = queue[i]
    BY <1>2, <2>1 DEF PurgePending, Mentions
  <2>4. parent[j] = None
    BY <1>3 DEF HasParent
  <2>. QED
    BY <1>1, <1>2, <2>1, <2>2, <2>3, <2>4, FamilyEnds
<1>4. CASE HasParent(j)
  <2>1. /\ status' = Freed(gone)
        /\ queue' = PushBack(PurgePending(queue, victims), HandOver(j))
        /\ finished' = (finished \ gone) \cup {j}
    BY <1>4 DEF StepDone
  <2>2. /\ TreeState[j] = "live" /\ TreeParent[j] = parent[j] /\ j \notin finished
        /\ Tree!Runs(j) /\ parent[j] # None
    BY <1>1, <1>4, SteppingRuns DEF HasParent
  <2>3. DeleteAfterStep \subseteq finished /\ gone \subseteq Jobs /\ j \notin gone
    BY <1>1, <1>2, <2>2, HandedOverIsJob, SubtreeFacts
  <2>4. Tree!Family(j) \ {j} = gone
    BY <1>1, <1>2, <2>3, FamilyIs
  <2>5. ASSUME NEW i \in DOMAIN queue, queue[i].del # None
        PROVE  i \in DOMAIN queue' /\ queue'[i] = queue[i]
    <3>1. ~Mentions(queue[i], victims)
      BY <1>1, <1>2, <2>5, OthersOutliveFamily DEF Mentions
    <3>2. i # tail
      BY <2>5 DEF IInv, TypeOK
    <3>. QED
      BY <2>1, <2>5, <3>1, <3>2 DEF PushBack, PurgePending
  <2>6. OthersKept(gone)
    BY <2>1, <2>5 DEF OthersKept, IInv, TypeOK, JobDriverAssumption
  <2>7. ASSUME NEW c \in Jobs, c # j
        PROVE  /\ TreeState'[c] = Tree!StatesWithout(gone)[c]
               /\ TreeParent'[c] = Tree!ParentsWithout(gone)[c]
    BY <1>1, <2>1, <2>3, <2>6, <2>7, LeavesTree DEF Freed, Detached
  <2>8. TreeState'[j] = "returned" /\ TreeParent'[j] = parent[j]
    <3>1. j \in finished'
      BY <2>1
    <3>2. PICK p \in Jobs : p = parent[j]
      BY <2>2 DEF IInv, TypeOK
    <3>3. tail \in DOMAIN queue' /\ queue'[tail] = HandOver(j)
      BY <2>1 DEF PushBack
    <3>4. Delivers(j, p)'
      BY <3>2, <3>3 DEF HandOver, Delivers
    <3>5. TreeParentKnown'
      <4>1. IInv' => TreeParentKnown'
        BY TreeParentIs, PTL
      <4>. QED
        BY <4>1
    <3>. QED
      BY <3>1, <3>2, <3>4, <3>5 DEF TreeState, TreeParentKnown
  <2>9. /\ TreeState' = [Tree!StatesWithout(gone) EXCEPT ![j] = "returned"]
        /\ TreeParent' = Tree!ParentsWithout(gone)
    BY <2>2, <2>3, <2>7, <2>8, TreeFunctions DEF Tree!StatesWithout, Tree!ParentsWithout
  <2>10. Tree!Return(j)
    BY <1>1, <2>2, <2>4, <2>9 DEF Tree!Return
  <2>. QED
    BY <2>10
<1>. QED
  BY <1>3, <1>4

LEMMA NextIsTreeNext ==
    ASSUME IInv, IInv', Discipline, [Next]_vars
    PROVE  [Tree!Next]_Tree!tree
<1>1. CASE Dequeue \/ DrainEnd \/ \E j \in Jobs : CompleteIO(j) \/ FireTimer(j)
  BY <1>1, LoopKeepsTree DEF Tree!tree
<1>2. CASE CancelCurrent
  BY <1>2, CancelCurrentEnds DEF Tree!Next
<1>3. ASSUME NEW j \in Jobs, Submit(j) PROVE Tree!Next
  BY <1>3, SubmitStarts DEF Tree!Next
<1>4. ASSUME NEW j \in Jobs, OnStep(j) PROVE Tree!Next
  <2>1. cur.job = j
    BY <1>4 DEF OnStep, StepInvokeChild, StepCancel, StepContinue, StepWait, StepDone, Stepping
  <2>2. DeleteAfterStep \in Tree!Observed(j)
    BY <2>1, SeenIsObserved
  <2>3. ASSUME NEW c \in Jobs, NEW step, StepInvokeChild(j, c, step) PROVE Tree!Next
    BY <2>2, <2>3, InvokeIsInvoke DEF Tree!Next
  <2>4. ASSUME NEW c \in Jobs, NEW step, StepCancel(j, c, step) PROVE Tree!Next
    <3>1. PICK seen \in Tree!Observed(j) : seen = DeleteAfterStep
      BY <2>2
    <3>2. Tree!Cancel(j, c, seen)
      BY <2>4, <3>1, CancelIsCancel DEF Tree!Cancel
    <3>. QED
      BY <3>2, Zenon DEF Tree!Next
  <2>5. CASE StepContinue(j) \/ StepWait(j)
    BY <2>2, <2>5, QuietIsStep DEF Tree!Next
  <2>6. CASE StepDone(j)
    BY <2>6, DoneReturnsOrEnds DEF Tree!Next
  <2>. QED
    BY <1>4, <2>3, <2>4, <2>5, <2>6 DEF OnStep
<1>5. CASE UNCHANGED vars
  <2>1. UNCHANGED <<status, parent, cancelPending, queue, cur, finished>>
    BY <1>5 DEF vars
  <2>2. UNCHANGED <<TreeState, TreeParent, {j \in Jobs : cancelPending[j]}>>
    BY <2>1 DEF TreeState, TreeParent, Delivers
  <2>. QED
    BY <2>2 DEF Tree!tree
<1>. QED
  BY <1>1, <1>2, <1>3, <1>4, <1>5 DEF Next, Driver

\* The driver keeps the forest that Job.h describes, although its activations are
\* queued: within the discipline every step of it is one of JobTree or none.
THEOREM DriverKeepsTree == Discipline /\ Spec => ImplementsTree
<1>. SUFFICES ASSUME Discipline PROVE Spec => ImplementsTree
  OBVIOUS
<1>1. Init => Tree!Init
  BY DEF Init, Tree!Init, TreeState, TreeParent
<1>2. IInv /\ IInv' /\ [Next]_vars => [Tree!Next]_Tree!tree
  BY NextIsTreeNext
<1>3. Spec => []IInv
  BY DriverInvariant
<1>. QED
  BY <1>1, <1>2, <1>3, PTL DEF Spec, ImplementsTree, Tree!Spec

=============================================================================
