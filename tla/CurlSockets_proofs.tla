-------------------------- MODULE CurlSockets_proofs --------------------------
(****************************************************************************)
(* Proofs about WorkerHttp and about CurlSockets on top of it, for every    *)
(* number of requests, every choice of timeouts and delays and every bound  *)
(* on the clock.  Of WorkerHttp: the registrations of a request stay        *)
(* consistent, no handle is cleaned up twice, a completion reaches its own  *)
(* job, a tick leaves nothing overdue, and with a prompt cURL only a        *)
(* cancelled job is used after its deletion.  Of CurlSockets: with the      *)
(* timer and the sockets, the requests are still those of WorkerHttp, and   *)
(* an added transfer is always announced by the one timer.                  *)
(****************************************************************************)
EXTENDS CurlSockets, SequenceTheorems, FiniteSetTheorems, WellFoundedInduction, TLAPS

-----------------------------------------------------------------------------
(* Lists.                                                                   *)

\* A list with an element inserted at a position.
LEMMA Inserted ==
    ASSUME NEW S, NEW s \in Seq(S), NEW i \in 1 .. Len(s) + 1, NEW e \in S
    PROVE  /\ InsertAt(s, i, e) \in Seq(S)
           /\ Len(InsertAt(s, i, e)) = Len(s) + 1
           /\ \A j \in 1 .. Len(s) + 1 : InsertAt(s, i, e)[j] =
                  IF j < i THEN s[j] ELSE IF j = i THEN e ELSE s[j - 1]
<1>. DEFINE a == SubSeq(s, 1, i - 1)
            b == SubSeq(s, i, Len(s))
<1>1. \A k \in 1 .. Len(s) : s[k] \in S
  BY ElementOfSeq
<1>2. /\ a \in Seq(S) /\ Len(a) = i - 1
      /\ \A k \in 1 .. i - 1 : a[k] = s[k]
  BY <1>1, SubSeqProperties
<1>3. /\ b \in Seq(S) /\ Len(b) = Len(s) - i + 1
      /\ \A k \in 1 .. Len(s) - i + 1 : b[k] = s[i + k - 1]
  BY <1>1, SubSeqProperties
<1>4. /\ <<e>> \in Seq(S) /\ Len(<<e>>) = 1 /\ <<e>>[1] = e
  OBVIOUS
<1>0. Len(s) \in Nat
  BY LenProperties
<1>. HIDE DEF a, b
<1>5. /\ a \o <<e>> \in Seq(S) /\ Len(a \o <<e>>) = i
      /\ \A k \in 1 .. i : (a \o <<e>>)[k] = IF k <= i - 1 THEN a[k] ELSE <<e>>[k - (i - 1)]
  BY <1>2, <1>4, ConcatProperties
<1>6. /\ (a \o <<e>>) \o b \in Seq(S) /\ Len((a \o <<e>>) \o b) = Len(s) + 1
      /\ \A k \in 1 .. Len(s) + 1 : ((a \o <<e>>) \o b)[k] =
             IF k <= i THEN (a \o <<e>>)[k] ELSE b[k - i]
  BY <1>3, <1>5, ConcatProperties
<1>7. InsertAt(s, i, e) = (a \o <<e>>) \o b
  BY DEF InsertAt, a, b
<1>8. ASSUME NEW j \in 1 .. Len(s) + 1
      PROVE  ((a \o <<e>>) \o b)[j] = IF j < i THEN s[j] ELSE IF j = i THEN e ELSE s[j - 1]
  <2>1. CASE j < i
    BY <2>1, <1>2, <1>5, <1>6
  <2>2. CASE j = i
    BY <2>2, <1>4, <1>5, <1>6
  <2>3. CASE j > i
    <3>1. j - i \in 1 .. Len(s) - i + 1
      BY <2>3
    <3>2. b[j - i] = s[j - 1]
      BY <3>1, <1>3
    <3>. QED
      BY <2>3, <3>2, <1>6
  <2>4. j < i \/ j = i \/ j > i
    BY <1>0
  <2>. QED
    BY <2>1, <2>2, <2>3, <2>4
<1>. QED
  BY <1>6, <1>7, <1>8

\* A list without the element at a position.
LEMMA Removed ==
    ASSUME NEW S, NEW s \in Seq(S), NEW i \in 1 .. Len(s)
    PROVE  /\ RemoveAt(s, i) \in Seq(S)
           /\ Len(RemoveAt(s, i)) = Len(s) - 1
           /\ \A j \in 1 .. Len(s) - 1 : RemoveAt(s, i)[j] = IF j < i THEN s[j] ELSE s[j + 1]
<1>. DEFINE a == SubSeq(s, 1, i - 1)
            b == SubSeq(s, i + 1, Len(s))
<1>1. \A k \in 1 .. Len(s) : s[k] \in S
  BY ElementOfSeq
<1>2. /\ a \in Seq(S) /\ Len(a) = i - 1
      /\ \A k \in 1 .. i - 1 : a[k] = s[k]
  BY <1>1, SubSeqProperties
<1>3. /\ b \in Seq(S) /\ Len(b) = Len(s) - i
      /\ \A k \in 1 .. Len(s) - i : b[k] = s[i + k]
  BY <1>1, SubSeqProperties
<1>0. Len(s) \in Nat
  BY LenProperties
<1>. HIDE DEF a, b
<1>4. /\ a \o b \in Seq(S) /\ Len(a \o b) = Len(s) - 1
      /\ \A k \in 1 .. Len(s) - 1 : (a \o b)[k] = IF k <= i - 1 THEN a[k] ELSE b[k - (i - 1)]
  <2>1. /\ a \o b \in Seq(S) /\ Len(a \o b) = Len(a) + Len(b)
        /\ \A k \in 1 .. Len(a) + Len(b) :
               (a \o b)[k] = IF k <= Len(a) THEN a[k] ELSE b[k - Len(a)]
    BY <1>2, <1>3, ConcatProperties
  <2>2. Len(a) + Len(b) = Len(s) - 1
    BY <1>0, <1>2, <1>3
  <2>. QED
    BY <1>2, <2>1, <2>2
<1>5. RemoveAt(s, i) = a \o b
  BY DEF RemoveAt, a, b
<1>6. ASSUME NEW j \in 1 .. Len(s) - 1
      PROVE  (a \o b)[j] = IF j < i THEN s[j] ELSE s[j + 1]
  <2>1. CASE j < i
    BY <2>1, <1>2, <1>4
  <2>2. CASE j >= i
    <3>1. j - (i - 1) \in 1 .. Len(s) - i
      BY <2>2
    <3>. QED
      BY <3>1, <2>2, <1>3, <1>4
  <2>4. j < i \/ j >= i
    BY <1>0
  <2>. QED
    BY <2>1, <2>2, <2>4
<1>. QED
  BY <1>4, <1>5, <1>6

\* A non-empty set of numbers up to n has a largest one, and Max returns it.
LEMMA Largest ==
    ASSUME NEW n \in Nat, NEW T, T \subseteq 0 .. n, T # {}
    PROVE  Max(T) \in T /\ \A k \in T : k <= Max(T)
<1>. DEFINE U == {n - k : k \in T}
<1>1. U \subseteq Nat /\ U # {}
  <2>1. ASSUME NEW k \in T PROVE n - k \in Nat
    OBVIOUS
  <2>2. U \subseteq Nat
    BY <2>1
  <2>3. PICK k \in T : TRUE
    OBVIOUS
  <2>4. n - k \in U
    OBVIOUS
  <2>. QED
    BY <2>2, <2>4
<1>2. PICK u \in U : \A v \in U : <<v, u>> \notin OpToRel(<, Nat)
  BY <1>1, NatLessThanWellFounded, WFMin
<1>3. \A v \in U : ~(v < u)
  BY <1>1, <1>2 DEF OpToRel
<1>4. PICK m \in T : u = n - m
  OBVIOUS
<1>5. ASSUME NEW k \in T PROVE k <= m
  <2>1. ~(n - k < n - m)
    BY <1>3, <1>4
  <2>. QED
    BY <2>1
<1>6. \E x \in T : \A y \in T : x >= y
  BY <1>5
<1>7. Max(T) \in T /\ \A y \in T : Max(T) >= y
  BY <1>6 DEF Max
<1>. QED
  BY <1>7

\* Where Join puts an entry: behind the earlier deadlines, and in an ordered
\* list in front of all others.
LEMMA Position ==
    ASSUME TypeOK, NEW at \in Time
    PROVE  /\ FindPosition(at) \in 1 .. Len(delayQueue) + 1
           /\ Ordered =>
                /\ \A k \in 1 .. Len(delayQueue) :
                     k < FindPosition(at) => delayQueue[k].at <= at
                /\ \A k \in 1 .. Len(delayQueue) :
                     k >= FindPosition(at) => at <= delayQueue[k].at
<1>. DEFINE T == {0} \cup {i \in DOMAIN delayQueue : delayQueue[i].at < at}
<1>1. /\ Len(delayQueue) \in Nat /\ DOMAIN delayQueue = 1 .. Len(delayQueue)
      /\ \A k \in 1 .. Len(delayQueue) : delayQueue[k] \in Entries
  BY LenProperties, ElementOfSeq DEF TypeOK
<1>2. T \subseteq 0 .. Len(delayQueue) /\ T # {}
  BY <1>1
<1>3. Max(T) \in T /\ \A k \in T : k <= Max(T)
  BY <1>1, <1>2, Largest
<1>4. FindPosition(at) = Max(T) + 1
  BY DEF FindPosition
<1>. DEFINE m == Max(T)
<1>5. m \in 0 .. Len(delayQueue)
  BY <1>2, <1>3
<1>. HIDE DEF m
<1>6. ASSUME Ordered, NEW k \in 1 .. Len(delayQueue), k < m + 1
      PROVE  delayQueue[k].at <= at
  <2>1. m \in 1 .. Len(delayQueue) /\ delayQueue[m].at < at
    BY <1>1, <1>3, <1>5, <1>6 DEF m
  <2>2. delayQueue[k].at <= delayQueue[m].at
    <3>1. CASE k = m
      BY <3>1, <2>1, <1>1 DEF Entries, Time
    <3>2. CASE k < m
      BY <3>2, <2>1, <1>1, <1>6 DEF Ordered
    <3>. QED
      BY <3>1, <3>2, <1>5, <1>6
  <2>3. delayQueue[k].at \in Nat /\ delayQueue[m].at \in Nat /\ at \in Nat
    BY <1>1, <2>1, HttpAssumption DEF Entries, Time
  <2>. QED
    BY <2>1, <2>2, <2>3
<1>7. ASSUME NEW k \in 1 .. Len(delayQueue), k >= m + 1
      PROVE  at <= delayQueue[k].at
  <2>1. k \notin T
    BY <1>3, <1>5, <1>7 DEF m
  <2>2. delayQueue[k].at \in Nat /\ at \in Nat
    BY <1>1, HttpAssumption DEF Entries, Time
  <2>. QED
    BY <1>1, <2>1, <2>2
<1>8. FindPosition(at) = m + 1
  BY <1>4 DEF m
<1>. QED
  BY <1>5, <1>6, <1>7, <1>8

-----------------------------------------------------------------------------
(* Steps of the list.                                                       *)

\* What the list is, element by element.
LEMMA Listed ==
    ASSUME TypeOK
    PROVE  /\ Len(delayQueue) \in Nat
           /\ DOMAIN delayQueue = 1 .. Len(delayQueue)
           /\ \A k \in DOMAIN delayQueue :
                /\ delayQueue[k] \in Entries
                /\ delayQueue[k].job \in Clients
                /\ delayQueue[k].at \in Nat
<1>1. delayQueue \in Seq(Entries)
  BY DEF TypeOK
<1>2. /\ Len(delayQueue) \in Nat
      /\ DOMAIN delayQueue = 1 .. Len(delayQueue)
      /\ \A k \in 1 .. Len(delayQueue) : delayQueue[k] \in Entries
  BY <1>1, LenProperties, ElementOfSeq
<1>. QED
  BY <1>2, HttpAssumption DEF Entries, Time

\* The first request of a job is counted, and there is an id for it.
LEMMA IssueCount ==
    ASSUME OneId, NEW c \in Clients, easy[c] = "none"
    PROVE  jobSeq \in Ids /\ Cardinality(Issued \cup {c}) = jobSeq + 1
<1>1. Issued \subseteq Clients /\ c \notin Issued
  BY DEF Issued
<1>2. IsFiniteSet(Issued) /\ Cardinality(Issued) \in Nat
  BY <1>1, HttpAssumption, FS_Subset, FS_CardinalityType
<1>3. Cardinality(Issued \cup {c}) = jobSeq + 1
  BY <1>1, <1>2, FS_AddElement DEF OneId
<1>4. Cardinality(Issued \cup {c}) <= Cardinality(Clients)
  BY <1>1, HttpAssumption, FS_Subset
<1>5. Cardinality(Clients) \in Nat
  BY HttpAssumption, FS_CardinalityType
<1>6. jobSeq \in Nat
  BY <1>2 DEF OneId
<1>. QED
  BY <1>3, <1>4, <1>5, <1>6 DEF Ids

\* DoIssue puts one entry, for the new job, into the list.
LEMMA IssueJoins ==
    ASSUME TypeOK, OneId, Handles, NEW c \in Clients, NEW ms \in Timeouts, DoIssue(c, ms)
    PROVE  /\ [id |-> jobSeq, job |-> c, at |-> now + ms] \in Entries
           /\ delayQueue' \in Seq(Entries)
           /\ Len(delayQueue') = Len(delayQueue) + 1
           /\ \A j \in 1 .. Len(delayQueue) + 1 : delayQueue'[j] =
                  IF j < FindPosition(now + ms) THEN delayQueue[j]
                  ELSE IF j = FindPosition(now + ms)
                       THEN [id |-> jobSeq, job |-> c, at |-> now + ms]
                       ELSE delayQueue[j - 1]
<1>1. easy[c] = "none"
  BY DEF DoIssue, Handles
<1>2. jobSeq \in Ids
  BY <1>1, IssueCount
<1>3. now + ms \in Time
  BY HttpAssumption DEF DoIssue, TypeOK, Time
<1>4. [id |-> jobSeq, job |-> c, at |-> now + ms] \in Entries
  BY <1>2, <1>3 DEF Entries
<1>5. FindPosition(now + ms) \in 1 .. Len(delayQueue) + 1
  BY <1>3, Position
<1>6. delayQueue' = InsertAt(delayQueue, FindPosition(now + ms),
                             [id |-> jobSeq, job |-> c, at |-> now + ms])
  BY DEF DoIssue, Join
<1>7. delayQueue \in Seq(Entries)
  BY DEF TypeOK
<1>. DEFINE e == [id |-> jobSeq, job |-> c, at |-> now + ms]
<1>8. e \in Entries /\ delayQueue' = InsertAt(delayQueue, FindPosition(now + ms), e)
  BY <1>4, <1>6
<1>. HIDE DEF e
<1>9. /\ delayQueue' \in Seq(Entries)
      /\ Len(delayQueue') = Len(delayQueue) + 1
      /\ \A j \in 1 .. Len(delayQueue) + 1 : delayQueue'[j] =
             IF j < FindPosition(now + ms) THEN delayQueue[j]
             ELSE IF j = FindPosition(now + ms) THEN e ELSE delayQueue[j - 1]
  BY <1>5, <1>7, <1>8, Inserted
<1>. QED
  BY <1>4, <1>9 DEF e

\* A message takes at most one entry out of the list, the one with its id.
LEMMA MessageRemoves ==
    ASSUME TypeOK, NEW i \in DOMAIN delayQueue
    PROVE  /\ Without(i) \in Seq(Entries)
           /\ Len(Without(i)) = Len(delayQueue) - 1
           /\ \A j \in 1 .. Len(delayQueue) - 1 :
                  Without(i)[j] = IF j < i THEN delayQueue[j] ELSE delayQueue[j + 1]
<1>1. delayQueue \in Seq(Entries) /\ i \in 1 .. Len(delayQueue)
  BY LenProperties DEF TypeOK
<1>. QED
  BY <1>1, Removed DEF Without

\* Dequeue takes the first entry.
LEMMA TickRemoves ==
    ASSUME TypeOK, Dequeue
    PROVE  /\ delayQueue' \in Seq(Entries)
           /\ Len(delayQueue) \in Nat \ {0}
           /\ Head(delayQueue) = delayQueue[1] /\ delayQueue[1] \in Entries
           /\ Len(delayQueue') = Len(delayQueue) - 1
           /\ \A j \in 1 .. Len(delayQueue) - 1 : delayQueue'[j] = delayQueue[j + 1]
<1>1. delayQueue \in Seq(Entries) /\ delayQueue # <<>> /\ delayQueue' = Tail(delayQueue)
  BY DEF TypeOK, Dequeue, AnyDue
<1>2. Len(delayQueue) \in Nat \ {0}
  BY <1>1, EmptySeq
<1>3. Head(delayQueue) = delayQueue[1] /\ delayQueue[1] \in Entries
  BY <1>1, <1>2, ElementOfSeq
<1>. QED
  BY <1>1, <1>2, <1>3, HeadTailProperties

-----------------------------------------------------------------------------
(* Every step preserves the invariant, one conjunct at a time.              *)

\* What a step may be.
LEMMA StepCases ==
    ASSUME [Next]_vars
    PROVE  \/ TimePasses
           \/ OnTickTimer
           \/ Dequeue
           \/ TickEnds
           \/ CleanUp
           \/ CheckEnds
           \/ \E c \in Clients : \/ ReadMessage(c)
                                 \/ \E ms \in Timeouts : DoIssue(c, ms)
                                 \/ IssueFails(c)
                                 \/ OnCancel(c)
                                 \/ BeginTransfer(c)
                                 \/ Receive(c, FALSE) \/ Receive(c, TRUE)
                                 \/ GiveUp(c)
           \/ UNCHANGED vars
BY DEF Next, Steps, Callback, Ends

LEMMA NextTypeOK ==
    ASSUME TypeOK, OneId, Handles, [Next]_vars
    PROVE  TypeOK'
<1>. USE HttpAssumption DEF TypeOK
<1>1. CASE TimePasses
  <2>1. now' \in Time
    BY <1>1 DEF TimePasses, Time
  <2>. QED
    BY <1>1, <2>1 DEF TimePasses, jobs, queues, curl
<1>2. CASE OnTickTimer
  BY <1>2 DEF OnTickTimer, Places, jobs, queues, curl
<1>3. CASE Dequeue
  <2>1. delayQueue' \in Seq(Entries) /\ Head(delayQueue) \in Entries
    BY <1>3, TickRemoves
  <2>2. Head(delayQueue).job \in Clients
    BY <2>1 DEF Entries
  <2>. QED
    BY <1>3, <2>1, <2>2 DEF Dequeue, AfterStep, Deleted, clock
<1>4. CASE TickEnds
  BY <1>4 DEF TickEnds, Places, clock, jobs, queues, curl
<1>5. CASE CleanUp
  BY <1>5 DEF CleanUp, clock, jobs, queues
<1>6. CASE CheckEnds
  BY <1>6 DEF CheckEnds, Places, clock, jobs, queues, curl
<1>7. ASSUME NEW c \in Clients, ReadMessage(c) PROVE TypeOK'
  <2>1. CASE Index(privateId[c]) = {} /\ UNCHANGED <<delayQueue, job, easy, touched>>
    BY <1>7, <2>1 DEF ReadMessage, ToCleanUp, Places, clock
  <2>2. ASSUME NEW i \in Index(privateId[c]), delayQueue' = Without(i),
               \/ touched' = touched \cup {delayQueue[i].job} /\ UNCHANGED <<job, easy>>
               \/ /\ job' = [job EXCEPT ![delayQueue[i].job] = "response"]
                  /\ UNCHANGED <<easy, touched>>
        PROVE  TypeOK'
    <3>1. i \in DOMAIN delayQueue
      BY DEF Index
    <3>2. delayQueue' \in Seq(Entries)
      BY <2>2, <3>1, MessageRemoves
    <3>3. delayQueue[i].job \in Clients
      BY <3>1, Listed
    <3>4. job' \in [Clients -> {"new", "waiting"} \cup Deleted] /\ touched' \subseteq Clients /\ easy' = easy
      BY <2>2, <3>3 DEF Deleted
    <3>. QED
      BY <1>7, <3>2, <3>4 DEF ReadMessage, ToCleanUp, Places, clock
  <2>. QED
    BY <1>7, <2>1, <2>2 DEF ReadMessage, AfterStep
<1>8. ASSUME NEW c \in Clients, NEW ms \in Timeouts, DoIssue(c, ms) PROVE TypeOK'
  <2>1. delayQueue' \in Seq(Entries)
    BY <1>8, IssueJoins
  <2>2. jobSeq \in Ids
    BY <1>8, IssueCount DEF DoIssue, Handles
  <2>3. jobSeq' \in 0 .. Cardinality(Clients)
    BY <1>8, <2>2, FS_CardinalityType DEF DoIssue, Ids
  <2>. QED
    BY <1>8, <2>1, <2>2, <2>3 DEF DoIssue, PrivateId, clock
<1>9. ASSUME NEW c \in Clients, IssueFails(c) PROVE TypeOK'
  BY <1>9 DEF IssueFails, Deleted, clock, queues, curl
<1>10. ASSUME NEW c \in Clients, OnCancel(c) PROVE TypeOK'
  BY <1>10 DEF OnCancel, Deleted, clock, queues
<1>11. ASSUME NEW c \in Clients, BeginTransfer(c) PROVE TypeOK'
  BY <1>11 DEF BeginTransfer, clock, jobs, queues
<1>12. ASSUME NEW c \in Clients, Receive(c, FALSE) \/ Receive(c, TRUE) PROVE TypeOK'
  BY <1>12 DEF Receive, Done, Places, clock, jobs, queues
<1>13. ASSUME NEW c \in Clients, GiveUp(c) PROVE TypeOK'
  BY <1>13 DEF GiveUp, Done, Places, clock, jobs, queues
<1>14. CASE UNCHANGED vars
  BY <1>14 DEF vars, clock, jobs, queues, curl
<1>. QED
  BY <1>1, <1>2, <1>3, <1>4, <1>5, <1>6, <1>7, <1>8, <1>9, <1>10, <1>11, <1>12,
     <1>13, <1>14, StepCases

\* The steps that change the list.
LEMMA QueueSteps ==
    ASSUME [Next]_vars
    PROVE  \/ delayQueue' = delayQueue
           \/ Dequeue
           \/ \E c \in Clients : \E ms \in Timeouts : DoIssue(c, ms)
           \/ \E c \in Clients : \E i \in Index(privateId[c]) :
                 ReadMessage(c) /\ delayQueue' = Without(i)
<1>1. ASSUME NEW c \in Clients, ReadMessage(c)
      PROVE  \/ delayQueue' = delayQueue
             \/ \E i \in Index(privateId[c]) : delayQueue' = Without(i)
  BY <1>1 DEF ReadMessage
<1>. QED
  BY <1>1, StepCases DEF TimePasses, OnTickTimer, TickEnds, CleanUp, CheckEnds,
     IssueFails, OnCancel, BeginTransfer, Receive, GiveUp, vars, queues

\* Join keeps the list in the order of the deadlines, and taking an entry out
\* does not disturb it.
LEMMA NextOrdered ==
    ASSUME TypeOK, OneId, Handles, Ordered, [Next]_vars
    PROVE  Ordered'
<1>. USE Listed
<1>1. CASE delayQueue' = delayQueue
  BY <1>1 DEF Ordered
<1>2. CASE Dequeue
  <2>1. DOMAIN delayQueue' = 1 .. Len(delayQueue) - 1
    BY <1>2, TickRemoves, LenProperties
  <2>2. \A j \in 1 .. Len(delayQueue) - 1 : delayQueue'[j] = delayQueue[j + 1]
    BY <1>2, TickRemoves
  <2>3. ASSUME NEW i \in 1 .. Len(delayQueue) - 1, NEW k \in 1 .. Len(delayQueue) - 1, i < k
        PROVE  delayQueue'[i].at <= delayQueue'[k].at
    <3>1. delayQueue[i + 1].at <= delayQueue[k + 1].at
      BY <2>3 DEF Ordered
    <3>. QED
      BY <2>2, <3>1
  <2>. QED
    BY <2>1, <2>3 DEF Ordered
<1>3. ASSUME NEW c \in Clients, NEW ms \in Timeouts, DoIssue(c, ms) PROVE Ordered'
  <2>. DEFINE p == FindPosition(now + ms)
  <2>1. now + ms \in Time /\ now + ms \in Nat
    BY <1>3, HttpAssumption DEF DoIssue, TypeOK, Time
  <2>2. /\ p \in 1 .. Len(delayQueue) + 1
        /\ \A k \in 1 .. Len(delayQueue) : k < p => delayQueue[k].at <= now + ms
        /\ \A k \in 1 .. Len(delayQueue) : k >= p => now + ms <= delayQueue[k].at
    BY <2>1, Position
  <2>3. /\ DOMAIN delayQueue' = 1 .. Len(delayQueue) + 1
        /\ \A j \in 1 .. Len(delayQueue) + 1 : delayQueue'[j].at =
               IF j < p THEN delayQueue[j].at
               ELSE IF j = p THEN now + ms ELSE delayQueue[j - 1].at
    <3>1. DOMAIN delayQueue' = 1 .. Len(delayQueue) + 1
      BY <1>3, IssueJoins, LenProperties
    <3>2. ASSUME NEW j \in 1 .. Len(delayQueue) + 1
          PROVE  delayQueue'[j] = IF j < p THEN delayQueue[j]
                                  ELSE IF j = p THEN [id |-> jobSeq, job |-> c, at |-> now + ms]
                                       ELSE delayQueue[j - 1]
      BY <1>3, IssueJoins
    <3>. HIDE DEF p
    <3>3. [id |-> jobSeq, job |-> c, at |-> now + ms].at = now + ms
      OBVIOUS
    <3>. QED
      BY <3>1, <3>2, <3>3
  <2>. HIDE DEF p
  <2>4. ASSUME NEW i \in 1 .. Len(delayQueue) + 1, NEW k \in 1 .. Len(delayQueue) + 1, i < k
        PROVE  delayQueue'[i].at <= delayQueue'[k].at
    <3>1. CASE k < p
      BY <2>2, <2>3, <2>4, <3>1 DEF Ordered
    <3>2. CASE k = p
      BY <2>2, <2>3, <2>4, <3>2 DEF Ordered
    <3>3. CASE k > p
      <4>1. k - 1 \in 1 .. Len(delayQueue) /\ k - 1 >= p
        BY <2>2, <3>3
      <4>2. CASE i = p
        BY <2>1, <2>2, <2>3, <3>3, <4>1, <4>2
      <4>3. CASE i < p
        BY <2>2, <2>3, <3>3, <4>1, <4>3 DEF Ordered
      <4>4. CASE i > p
        BY <2>2, <2>3, <2>4, <3>3, <4>1, <4>4 DEF Ordered
      <4>. QED
        BY <2>2, <4>2, <4>3, <4>4
    <3>. QED
      BY <2>2, <3>1, <3>2, <3>3
  <2>. QED
    BY <2>3, <2>4 DEF Ordered
<1>4. ASSUME NEW i \in DOMAIN delayQueue, delayQueue' = Without(i) PROVE Ordered'
  <2>1. /\ DOMAIN delayQueue' = 1 .. Len(delayQueue) - 1
        /\ \A j \in 1 .. Len(delayQueue) - 1 :
              delayQueue'[j] = IF j < i THEN delayQueue[j] ELSE delayQueue[j + 1]
    BY <1>4, MessageRemoves, LenProperties
  <2>2. ASSUME NEW j \in 1 .. Len(delayQueue) - 1, NEW k \in 1 .. Len(delayQueue) - 1, j < k
        PROVE  delayQueue'[j].at <= delayQueue'[k].at
    <3>. DEFINE from(l) == IF l < i THEN l ELSE l + 1
    <3>1. from(j) \in DOMAIN delayQueue /\ from(k) \in DOMAIN delayQueue /\ from(j) < from(k)
      BY <2>2
    <3>2. delayQueue'[j] = delayQueue[from(j)] /\ delayQueue'[k] = delayQueue[from(k)]
      BY <2>1
    <3>. QED
      BY <3>1, <3>2 DEF Ordered
  <2>. QED
    BY <2>1, <2>2 DEF Ordered
<1>. QED
  BY <1>1, <1>2, <1>3, <1>4, QueueSteps DEF Index

\* When an entry is taken out, by a tick or by a message, the others stay.
LEMMA EntryTaken ==
    ASSUME TypeOK, NEW i \in DOMAIN delayQueue,
           delayQueue' = Without(i) \/ (Dequeue /\ i = 1)
    PROVE  /\ \A j \in DOMAIN delayQueue' :
                \E k \in DOMAIN delayQueue : k # i /\ delayQueue'[j] = delayQueue[k]
           /\ \A k \in DOMAIN delayQueue : k # i =>
                \E j \in DOMAIN delayQueue' : delayQueue'[j] = delayQueue[k]
           /\ \A j, l \in DOMAIN delayQueue' : j # l =>
                \E k, m \in DOMAIN delayQueue :
                   k # m /\ delayQueue'[j] = delayQueue[k] /\ delayQueue'[l] = delayQueue[m]
<1>. DEFINE from(j) == IF j < i THEN j ELSE j + 1
            n == Len(delayQueue)
<1>1. n \in Nat /\ DOMAIN delayQueue = 1 .. n /\ i \in 1 .. n
  BY Listed
<1>2. /\ DOMAIN delayQueue' = 1 .. n - 1
      /\ \A j \in 1 .. n - 1 : delayQueue'[j] = delayQueue[from(j)]
  <2>1. CASE delayQueue' = Without(i)
    BY <2>1, MessageRemoves, LenProperties
  <2>2. CASE Dequeue /\ i = 1
    BY <2>2, TickRemoves, LenProperties
  <2>. QED
    BY <2>1, <2>2
<1>. HIDE DEF n
<1>3. \A j \in 1 .. n - 1 : from(j) \in 1 .. n /\ from(j) # i
  BY <1>1
<1>4. \A j, l \in 1 .. n - 1 : j # l => from(j) # from(l)
  BY <1>1
<1>5. ASSUME NEW k \in 1 .. n, k # i
      PROVE  \E j \in 1 .. n - 1 : from(j) = k
  <2>1. CASE k < i
    BY <2>1, <1>1
  <2>2. CASE k > i
    <3>1. k - 1 \in 1 .. n - 1 /\ from(k - 1) = k
      BY <2>2, <1>1
    <3>. QED
      BY <3>1
  <2>. QED
    BY <1>1, <1>5, <2>1, <2>2
<1>. HIDE DEF from
<1>. QED
  BY <1>1, <1>2, <1>3, <1>4, <1>5

\* When a job joins, the other entries stay.
LEMMA EntryJoined ==
    ASSUME TypeOK, OneId, Handles, NEW c \in Clients, NEW ms \in Timeouts, DoIssue(c, ms)
    PROVE  \E p \in DOMAIN delayQueue' :
             /\ delayQueue'[p] = [id |-> jobSeq, job |-> c, at |-> now + ms]
             /\ \A j \in DOMAIN delayQueue' : j # p =>
                  \E k \in DOMAIN delayQueue : delayQueue'[j] = delayQueue[k]
             /\ \A k \in DOMAIN delayQueue :
                  \E j \in DOMAIN delayQueue' : j # p /\ delayQueue'[j] = delayQueue[k]
             /\ \A j, l \in DOMAIN delayQueue' : j # l /\ j # p /\ l # p =>
                  \E k, m \in DOMAIN delayQueue :
                     k # m /\ delayQueue'[j] = delayQueue[k] /\ delayQueue'[l] = delayQueue[m]
<1>. DEFINE p == FindPosition(now + ms)
            n == Len(delayQueue)
            from(j) == IF j < p THEN j ELSE j - 1
<1>1. n \in Nat /\ DOMAIN delayQueue = 1 .. n
  BY Listed
<1>2. p \in 1 .. n + 1
  <2>1. now + ms \in Time
    BY HttpAssumption DEF DoIssue, TypeOK, Time
  <2>. QED
    BY <2>1, Position
<1>3. /\ DOMAIN delayQueue' = 1 .. n + 1
      /\ delayQueue'[p] = [id |-> jobSeq, job |-> c, at |-> now + ms]
      /\ \A j \in 1 .. n + 1 : j # p => delayQueue'[j] = delayQueue[from(j)]
  <2>1. DOMAIN delayQueue' = 1 .. n + 1
    BY IssueJoins, LenProperties
  <2>2. \A j \in 1 .. n + 1 : delayQueue'[j] =
           IF j < p THEN delayQueue[j]
           ELSE IF j = p THEN [id |-> jobSeq, job |-> c, at |-> now + ms]
                ELSE delayQueue[j - 1]
    BY IssueJoins
  <2>. HIDE DEF p, n
  <2>. QED
    BY <1>1, <1>2, <2>1, <2>2
<1>. HIDE DEF p, n
<1>4. \A j \in 1 .. n + 1 : j # p => from(j) \in 1 .. n
  BY <1>1, <1>2
<1>5. \A j, l \in 1 .. n + 1 : j # l /\ j # p /\ l # p => from(j) # from(l)
  BY <1>1, <1>2
<1>6. ASSUME NEW k \in 1 .. n
      PROVE  \E j \in 1 .. n + 1 : j # p /\ from(j) = k
  <2>1. CASE k < p
    BY <2>1, <1>1, <1>2
  <2>2. CASE k >= p
    <3>1. k + 1 \in 1 .. n + 1 /\ k + 1 # p /\ from(k + 1) = k
      BY <2>2, <1>1, <1>2
    <3>. QED
      BY <3>1
  <2>. QED
    BY <1>2, <2>1, <2>2
<1>. HIDE DEF from
<1>7. p \in DOMAIN delayQueue'
  BY <1>2, <1>3
<1>8. \A j \in DOMAIN delayQueue' : j # p =>
         \E k \in DOMAIN delayQueue : delayQueue'[j] = delayQueue[k]
  BY <1>1, <1>3, <1>4
<1>9. \A k \in DOMAIN delayQueue :
         \E j \in DOMAIN delayQueue' : j # p /\ delayQueue'[j] = delayQueue[k]
  BY <1>1, <1>3, <1>6
<1>10. \A j, l \in DOMAIN delayQueue' : j # l /\ j # p /\ l # p =>
         \E k, m \in DOMAIN delayQueue :
            k # m /\ delayQueue'[j] = delayQueue[k] /\ delayQueue'[l] = delayQueue[m]
  BY <1>1, <1>3, <1>4, <1>5
<1>. QED
  BY <1>3, <1>7, <1>8, <1>9, <1>10

\* A message concerns the entry of its own job: ids are not shared.
LEMMA MessageOwner ==
    ASSUME TypeOK, OneId, NEW c \in Clients, ReadMessage(c), NEW i \in Index(privateId[c])
    PROVE  i \in DOMAIN delayQueue /\ delayQueue[i].job = c
<1>1. i \in DOMAIN delayQueue /\ delayQueue[i].id = privateId[c]
  BY DEF Index
<1>2. c \in Issued
  BY DEF ReadMessage, Issued
<1>3. delayQueue[i].job \in Issued /\ delayQueue[i].id = jobId[delayQueue[i].job]
  BY <1>1 DEF OneId
<1>. QED
  BY <1>1, <1>2, <1>3 DEF OneId

\* Only DoIssue gives out an id.
LEMMA SameIds ==
    ASSUME TypeOK, Registered, Handles, [Next]_vars,
           \A c \in Clients : \A ms \in Timeouts : ~DoIssue(c, ms)
    PROVE  Issued' = Issued /\ UNCHANGED <<jobSeq, jobId, privateId, issued>>
<1>1. CASE TimePasses \/ OnTickTimer \/ TickEnds \/ CheckEnds \/ UNCHANGED vars
  BY <1>1 DEF TimePasses, OnTickTimer, TickEnds, CheckEnds, Issued, vars, jobs, queues, curl
<1>2. CASE Dequeue
  BY <1>2 DEF Dequeue, AfterStep, Issued
<1>3. CASE CleanUp
  <2>1. inHand \in Clients /\ easy[inHand] = "finished"
    BY <1>3 DEF CleanUp, TypeOK, Handles
  <2>. QED
    BY <1>3, <2>1 DEF CleanUp, TypeOK, Issued, jobs, queues
<1>4. ASSUME NEW c \in Clients, ReadMessage(c)
      PROVE  Issued' = Issued /\ UNCHANGED <<jobSeq, jobId, privateId, issued>>
  BY <1>4 DEF ReadMessage, AfterStep, Issued
<1>5. ASSUME NEW c \in Clients, IssueFails(c)
      PROVE  Issued' = Issued /\ UNCHANGED <<jobSeq, jobId, privateId, issued>>
  BY <1>5 DEF IssueFails, Issued, queues, curl
<1>6. ASSUME NEW c \in Clients, OnCancel(c)
      PROVE  Issued' = Issued /\ UNCHANGED <<jobSeq, jobId, privateId, issued>>
  BY <1>6 DEF OnCancel, Registered, TypeOK, Issued, queues
<1>7. ASSUME NEW c \in Clients,
             BeginTransfer(c) \/ Receive(c, FALSE) \/ Receive(c, TRUE) \/ GiveUp(c)
      PROVE  Issued' = Issued /\ UNCHANGED <<jobSeq, jobId, privateId, issued>>
  BY <1>7 DEF BeginTransfer, Receive, GiveUp, Done, TypeOK, Issued, jobs, queues
<1>. QED
  BY <1>1, <1>2, <1>3, <1>4, <1>5, <1>6, <1>7, StepCases

\* Ids stay unique and shared by job, handle and entry.
LEMMA NextOneId ==
    ASSUME TypeOK, OneId, Registered, Handles, [Next]_vars
    PROVE  OneId'
<1>1. ASSUME NEW c \in Clients, NEW ms \in Timeouts, DoIssue(c, ms) PROVE OneId'
  <2>1. easy[c] = "none" /\ c \notin Issued
    BY <1>1 DEF DoIssue, Handles, Issued
  <2>2. Issued' = Issued \cup {c}
    BY <1>1 DEF DoIssue, TypeOK, Issued
  <2>3. jobSeq' = Cardinality(Issued') /\ jobSeq \in Ids /\ jobSeq' = jobSeq + 1
    BY <1>1, <2>1, <2>2, IssueCount DEF DoIssue
  <2>4. /\ jobId'[c] = jobSeq /\ privateId'[c] = jobSeq
        /\ issued'[c] = [ms |-> ms, at |-> now]
        /\ \A d \in Issued : /\ jobId'[d] = jobId[d] /\ privateId'[d] = privateId[d]
                             /\ issued'[d] = issued[d]
    BY <1>1, <2>1 DEF DoIssue, PrivateId, TypeOK, Issued
  <2>5. jobSeq \in Nat /\ \A d \in Issued : jobId[d] \in Nat /\ jobId[d] < jobSeq
    BY <2>3 DEF OneId, TypeOK, Issued, Ids
  <2>6. \A d \in Issued' : privateId'[d] = jobId'[d] /\ jobId'[d] < jobSeq'
    BY <2>2, <2>3, <2>4, <2>5 DEF OneId
  <2>7. \A d, e \in Issued' : jobId'[d] = jobId'[e] => d = e
    BY <2>2, <2>4, <2>5 DEF OneId
  <2>8. ASSUME NEW i \in DOMAIN delayQueue'
        PROVE  /\ delayQueue'[i].job \in Issued'
               /\ delayQueue'[i].id = jobId'[delayQueue'[i].job]
               /\ delayQueue'[i].at = issued'[delayQueue'[i].job].at + issued'[delayQueue'[i].job].ms
    <3>1. CASE delayQueue'[i] = [id |-> jobSeq, job |-> c, at |-> now + ms]
      <4>1. delayQueue'[i].job = c /\ delayQueue'[i].id = jobSeq /\ delayQueue'[i].at = now + ms
        BY <3>1
      <4>. QED
        BY <4>1, <2>2, <2>4 DEF Deadline
    <3>2. ASSUME NEW k \in DOMAIN delayQueue, delayQueue'[i] = delayQueue[k]
          PROVE  /\ delayQueue'[i].job \in Issued'
                 /\ delayQueue'[i].id = jobId'[delayQueue'[i].job]
                 /\ delayQueue'[i].at = issued'[delayQueue'[i].job].at + issued'[delayQueue'[i].job].ms
      <4>1. /\ delayQueue[k].job \in Issued
            /\ delayQueue[k].id = jobId[delayQueue[k].job]
            /\ delayQueue[k].at = Deadline(delayQueue[k].job)
        BY DEF OneId
      <4>. QED
        BY <3>2, <4>1, <2>2, <2>4 DEF Deadline
    <3>. QED
      BY <1>1, <3>1, <3>2, EntryJoined
  <2>. QED
    BY <2>3, <2>6, <2>7, <2>8 DEF OneId, Deadline
<1>2. ASSUME \A c \in Clients : \A ms \in Timeouts : ~DoIssue(c, ms)
      PROVE  OneId'
  <2>1. Issued' = Issued /\ UNCHANGED <<jobSeq, jobId, privateId, issued>>
    BY <1>2, SameIds
  <2>2. \A j \in DOMAIN delayQueue' :
           \E k \in DOMAIN delayQueue : delayQueue'[j] = delayQueue[k]
    <3>1. CASE Dequeue
      <4>1. 1 \in DOMAIN delayQueue
        BY <3>1, TickRemoves, Listed
      <4>. QED
        BY <3>1, <4>1, EntryTaken
    <3>2. ASSUME NEW c \in Clients, NEW i \in Index(privateId[c]),
                 ReadMessage(c), delayQueue' = Without(i)
          PROVE  \A j \in DOMAIN delayQueue' :
                    \E k \in DOMAIN delayQueue : delayQueue'[j] = delayQueue[k]
      BY <3>2, EntryTaken DEF Index
    <3>. QED
      BY <1>2, <3>1, <3>2, QueueSteps
  <2>3. \A c \in Clients : Deadline(c)' = Deadline(c)
    BY <2>1 DEF Deadline
  <2>4. ASSUME NEW j \in DOMAIN delayQueue'
        PROVE  /\ delayQueue'[j].job \in Issued
               /\ delayQueue'[j].id = jobId[delayQueue'[j].job]
               /\ delayQueue'[j].at = Deadline(delayQueue'[j].job)
    BY <2>2 DEF OneId
  <2>5. Issued \subseteq Clients
    BY DEF Issued
  <2>. QED
    BY <2>1, <2>3, <2>4, <2>5 DEF OneId
<1>. QED
  BY <1>1, <1>2

\* Taking out the entry of a job that no longer waits, nor is cancelled, leaves
\* the others registered.
LEMMA TakenRegistered ==
    ASSUME TypeOK, OneId, Registered, NEW i \in DOMAIN delayQueue,
           delayQueue' = Without(i) \/ (Dequeue /\ i = 1),
           UNCHANGED <<privateId, easy>>,
           job'[delayQueue[i].job] # "waiting",
           \A d \in Clients : d # delayQueue[i].job =>
              job'[d] = job[d] /\ (job[d] = "waiting" => inHand' # d)
    PROVE  Registered'
<1>. DEFINE c == delayQueue[i].job
<1>1. \A k \in DOMAIN delayQueue : k # i => delayQueue[k].job \in Clients /\ delayQueue[k].job # c
  BY Listed DEF Registered
<1>2. ASSUME NEW d \in Clients, job'[d] = "waiting"
      PROVE  /\ easy'[d] \in {"added", "running", "finished"}
             /\ d # inHand'
             /\ \E j \in DOMAIN delayQueue' :
                   delayQueue'[j].id = privateId'[d] /\ delayQueue'[j].job = d
  <2>1. d # c /\ job[d] = "waiting" /\ d # inHand'
    BY <1>2
  <2>2. PICK k \in DOMAIN delayQueue : delayQueue[k].id = privateId[d] /\ delayQueue[k].job = d
    BY <2>1 DEF Registered, Index
  <2>3. \E j \in DOMAIN delayQueue' : delayQueue'[j] = delayQueue[k]
    BY <2>1, <2>2, EntryTaken
  <2>. QED
    BY <2>1, <2>2, <2>3 DEF Registered
<1>3. ASSUME NEW j \in DOMAIN delayQueue', NEW l \in DOMAIN delayQueue',
             delayQueue'[j].job = delayQueue'[l].job
      PROVE  j = l
  <2>1. SUFFICES ASSUME j # l PROVE FALSE
    OBVIOUS
  <2>2. PICK k \in DOMAIN delayQueue, m \in DOMAIN delayQueue :
           k # m /\ delayQueue'[j] = delayQueue[k] /\ delayQueue'[l] = delayQueue[m]
    BY <2>1, EntryTaken
  <2>. QED
    BY <1>3, <2>2 DEF Registered
<1>4. ASSUME NEW j \in DOMAIN delayQueue'
      PROVE  job'[delayQueue'[j].job] \in {"waiting", "cancelled"}
  <2>1. PICK k \in DOMAIN delayQueue : k # i /\ delayQueue'[j] = delayQueue[k]
    BY EntryTaken
  <2>2. delayQueue[k].job \in Clients /\ delayQueue[k].job # c
    BY <1>1, <2>1
  <2>3. job'[delayQueue[k].job] = job[delayQueue[k].job]
    BY <2>2
  <2>. QED
    BY <2>1, <2>3 DEF Registered
<1>. QED
  BY <1>2, <1>3, <1>4 DEF Registered, Index

\* A job waits with exactly its two registrations, until one of them ends it.
LEMMA NextRegistered ==
    ASSUME TypeOK, OneId, Registered, Handles, [Next]_vars
    PROVE  Registered'
<1>. USE DEF TypeOK
<1>1. CASE TimePasses \/ OnTickTimer \/ TickEnds \/ CheckEnds \/ UNCHANGED vars
  BY <1>1 DEF TimePasses, OnTickTimer, TickEnds, CheckEnds, Registered, Index,
     vars, jobs, queues, curl
<1>2. CASE Dequeue
  <2>. DEFINE e == delayQueue[1]
  <2>1. 1 \in DOMAIN delayQueue /\ Head(delayQueue) = e /\ e.job \in Clients
    BY <1>2, TickRemoves, Listed
  <2>2. e.id = jobId[e.job] /\ job[e.job] \in {"waiting", "cancelled"}
    BY <2>1 DEF OneId, Registered
  <2>3. /\ UNCHANGED <<privateId, easy, inHand>>
        /\ job' = IF job[e.job] = "cancelled" THEN job ELSE [job EXCEPT ![e.job] = "timeout"]
    BY <1>2, <2>1, <2>2 DEF Dequeue, AfterStep, Gone, Deleted
  <2>4. /\ job'[e.job] # "waiting"
        /\ \A d \in Clients : d # e.job => job'[d] = job[d]
    BY <2>1, <2>2, <2>3
  <2>5. \A d \in Clients : d # e.job =>
          job'[d] = job[d] /\ (job[d] = "waiting" => inHand' # d)
    BY <2>3, <2>4 DEF Registered
  <2>. QED
    BY <1>2, <2>1, <2>3, <2>4, <2>5, TakenRegistered
<1>3. CASE CleanUp
  <2>1. inHand \in Clients /\ job[inHand] # "waiting" /\ inHand' = None /\ None \notin Clients
    BY <1>3, HttpAssumption DEF CleanUp, Registered
  <2>2. /\ UNCHANGED <<job, delayQueue, privateId>>
        /\ \A c \in Clients : job[c] = "waiting" => easy'[c] = easy[c] /\ c # inHand'
    BY <1>3, <2>1 DEF CleanUp, jobs, queues
  <2>. QED
    BY <2>2 DEF Registered, Index
<1>4. ASSUME NEW c \in Clients, ReadMessage(c) PROVE Registered'
  <2>1. ASSUME Index(privateId[c]) = {}, UNCHANGED <<delayQueue, job, easy, touched>>
        PROVE  Registered'
    <3>1. job[c] # "waiting"
      BY <2>1 DEF Registered
    <3>. QED
      BY <1>4, <2>1, <3>1 DEF ReadMessage, ToCleanUp, Registered, Index
  <2>2. ASSUME NEW i \in Index(privateId[c]), delayQueue' = Without(i),
               \/ Gone(c) /\ UNCHANGED <<job, easy>>
               \/ ~Gone(c) /\ job' = [job EXCEPT ![c] = "response"] /\ UNCHANGED easy
        PROVE  Registered'
    <3>1. i \in DOMAIN delayQueue /\ delayQueue[i].job = c
      BY <1>4, MessageOwner
    <3>2. UNCHANGED <<privateId, easy>> /\ inHand' = c
      BY <1>4, <2>2 DEF ReadMessage, ToCleanUp
    <3>3. job'[c] # "waiting" /\ \A d \in Clients : d # c => job'[d] = job[d] /\ inHand' # d
      BY <2>2, <3>2 DEF Gone, Deleted
    <3>. QED
      BY <2>2, <3>1, <3>2, <3>3, TakenRegistered
  <2>3. ASSUME NEW i \in Index(privateId[c]) PROVE delayQueue[i].job = c
    BY <1>4, MessageOwner
  <2>. QED
    BY <1>4, <2>1, <2>2, <2>3 DEF ReadMessage, AfterStep
<1>5. ASSUME NEW c \in Clients, NEW ms \in Timeouts, DoIssue(c, ms) PROVE Registered'
  <2>1. c \notin Issued
    BY <1>5 DEF DoIssue, Handles, Issued
  <2>2. PICK p \in DOMAIN delayQueue' :
          /\ delayQueue'[p] = [id |-> jobSeq, job |-> c, at |-> now + ms]
          /\ \A j \in DOMAIN delayQueue' : j # p =>
               \E k \in DOMAIN delayQueue : delayQueue'[j] = delayQueue[k]
          /\ \A k \in DOMAIN delayQueue :
               \E j \in DOMAIN delayQueue' : j # p /\ delayQueue'[j] = delayQueue[k]
          /\ \A j, l \in DOMAIN delayQueue' : j # l /\ j # p /\ l # p =>
               \E k, m \in DOMAIN delayQueue :
                  k # m /\ delayQueue'[j] = delayQueue[k] /\ delayQueue'[l] = delayQueue[m]
    BY <1>5, EntryJoined
  <2>3. delayQueue'[p].job = c /\ delayQueue'[p].id = jobSeq
    BY <2>2
  <2>4. /\ job'[c] = "waiting" /\ easy'[c] = "added" /\ privateId'[c] = jobSeq
        /\ inHand' = inHand /\ inHand # c
        /\ \A d \in Clients : d # c => /\ job'[d] = job[d] /\ easy'[d] = easy[d]
                                       /\ privateId'[d] = privateId[d]
    <3>1. inHand # c
      BY <1>5, <2>1, HttpAssumption DEF DoIssue, Handles, Issued
    <3>. QED
      BY <1>5, <3>1 DEF DoIssue, PrivateId
  <2>5. \A k \in DOMAIN delayQueue : delayQueue[k].job \in Clients /\ delayQueue[k].job # c
    BY <2>1, Listed DEF OneId
  <2>6. ASSUME NEW d \in Clients, job'[d] = "waiting"
        PROVE  /\ easy'[d] \in {"added", "running", "finished"}
               /\ d # inHand'
               /\ \E j \in DOMAIN delayQueue' :
                     delayQueue'[j].id = privateId'[d] /\ delayQueue'[j].job = d
    <3>1. CASE d = c
      BY <2>3, <2>4, <3>1
    <3>2. CASE d # c
      <4>1. job[d] = "waiting"
        BY <2>4, <2>6, <3>2
      <4>2. PICK k \in DOMAIN delayQueue : delayQueue[k].id = privateId[d] /\ delayQueue[k].job = d
        BY <4>1 DEF Registered, Index
      <4>3. \E j \in DOMAIN delayQueue' : delayQueue'[j] = delayQueue[k]
        BY <2>2
      <4>. QED
        BY <2>4, <3>2, <4>1, <4>2, <4>3 DEF Registered
    <3>. QED
      BY <3>1, <3>2
  <2>7. ASSUME NEW j \in DOMAIN delayQueue', NEW l \in DOMAIN delayQueue',
               delayQueue'[j].job = delayQueue'[l].job
        PROVE  j = l
    <3>1. CASE j # p /\ l # p
      <4>1. SUFFICES ASSUME j # l PROVE FALSE
        OBVIOUS
      <4>2. PICK k \in DOMAIN delayQueue, m \in DOMAIN delayQueue :
               k # m /\ delayQueue'[j] = delayQueue[k] /\ delayQueue'[l] = delayQueue[m]
        BY <2>2, <3>1, <4>1
      <4>. QED
        BY <2>7, <4>2 DEF Registered
    <3>2. CASE j = p \/ l = p
      BY <2>2, <2>3, <2>5, <2>7, <3>2
    <3>. QED
      BY <3>1, <3>2
  <2>8. ASSUME NEW j \in DOMAIN delayQueue'
        PROVE  job'[delayQueue'[j].job] \in {"waiting", "cancelled"}
    <3>1. CASE j = p
      BY <2>3, <2>4, <3>1
    <3>2. CASE j # p
      <4>1. PICK k \in DOMAIN delayQueue : delayQueue'[j] = delayQueue[k]
        BY <2>2, <3>2
      <4>. QED
        BY <2>4, <2>5, <4>1 DEF Registered
    <3>. QED
      BY <3>1, <3>2
  <2>. QED
    BY <2>6, <2>7, <2>8 DEF Registered, Index
<1>6. ASSUME NEW c \in Clients, IssueFails(c) PROVE Registered'
  <2>1. \A d \in Clients : (job'[d] = "waiting" <=> job[d] = "waiting") /\ (d # c => job'[d] = job[d])
    BY <1>6 DEF IssueFails
  <2>2. \A k \in DOMAIN delayQueue : delayQueue[k].job \in Clients /\ delayQueue[k].job # c
    BY <1>6, Listed DEF IssueFails, Registered
  <2>. QED
    BY <1>6, <2>1, <2>2 DEF IssueFails, Registered, Index, queues, curl
<1>7. ASSUME NEW c \in Clients, OnCancel(c) PROVE Registered'
  <2>1. /\ job'[c] = "cancelled" /\ UNCHANGED <<delayQueue, privateId, inHand>>
        /\ \A d \in Clients : d # c => job'[d] = job[d] /\ easy'[d] = easy[d]
    BY <1>7 DEF OnCancel, queues
  <2>2. \A k \in DOMAIN delayQueue : delayQueue[k].job \in Clients
    BY Listed
  <2>. QED
    BY <2>1, <2>2 DEF Registered, Index
<1>8. ASSUME NEW c \in Clients,
             BeginTransfer(c) \/ Receive(c, FALSE) \/ Receive(c, TRUE) \/ GiveUp(c)
      PROVE  Registered'
  <2>1. /\ UNCHANGED <<job, delayQueue, privateId, inHand>>
        /\ \A d \in Clients : easy[d] \in {"added", "running", "finished"}
                              => easy'[d] \in {"added", "running", "finished"}
    BY <1>8 DEF BeginTransfer, Receive, GiveUp, Done, jobs, queues
  <2>. QED
    BY <2>1 DEF Registered, Index
<1>. QED
  BY <1>1, <1>2, <1>3, <1>4, <1>5, <1>6, <1>7, <1>8, StepCases

\* Times are numbers.
LEMMA Times ==
    ASSUME TypeOK
    PROVE  /\ now \in Nat
           /\ \A c \in Clients : /\ issued[c].ms \in Nat /\ issued[c].at \in Nat
                                 /\ begun[c] \in Nat
<1>1. \A t \in Time : t \in Nat
  BY HttpAssumption DEF Time
<1>2. \A ms \in Timeouts \cup {0} : ms \in Nat
  BY HttpAssumption
<1>3. ASSUME NEW c \in Clients
      PROVE  issued[c].ms \in Timeouts \cup {0} /\ issued[c].at \in Time /\ begun[c] \in Time
  BY DEF TypeOK
<1>4. now \in Time
  BY DEF TypeOK
<1>. QED
  BY <1>1, <1>2, <1>3, <1>4

\* How a job ended keeps matching the state of its handle.
LEMMA NextHandles ==
    ASSUME TypeOK, OneId, Registered, Handles, Started, [Next]_vars
    PROVE  Handles'
<1>. USE HttpAssumption DEF TypeOK
<1>1. \A c \in Clients : Deadline(c) \in Nat
  BY Times DEF Deadline
<1>2. now \in Nat /\ tickNow \in Nat
  BY DEF Time
<1>3. CASE TimePasses
  <2>1. /\ now' = now + 1
        /\ UNCHANGED <<job, easy, inHand, issued>>
    BY <1>3 DEF TimePasses, jobs, curl
  <2>2. \A c \in Clients : issued'[c].at + issued'[c].ms = Deadline(c)
    BY <2>1 DEF Deadline
  <2>3. \A c \in Clients : Deadline(c) <= now => Deadline(c) <= now'
    BY <1>1, <1>2, <2>1
  <2>. QED
    BY <2>1, <2>2, <2>3 DEF Handles, Deadline
<1>4. CASE OnTickTimer \/ TickEnds \/ CheckEnds \/ UNCHANGED vars
  BY <1>4 DEF OnTickTimer, TickEnds, CheckEnds, Handles, Deadline, vars, clock,
     jobs, queues, curl
<1>5. CASE Dequeue
  <2>. DEFINE e == delayQueue[1]
  <2>1. 1 \in DOMAIN delayQueue /\ Head(delayQueue) = e /\ e.job \in Clients
    BY <1>5, TickRemoves, Listed
  <2>2. /\ e.id = jobId[e.job] /\ e.at = Deadline(e.job)
        /\ job[e.job] \in {"waiting", "cancelled"}
    BY <2>1 DEF OneId, Registered
  <2>3. /\ UNCHANGED <<now, issued, easy, inHand>>
        /\ job' = IF job[e.job] = "cancelled" THEN job ELSE [job EXCEPT ![e.job] = "timeout"]
    BY <1>5, <2>1, <2>2 DEF Dequeue, AfterStep, Gone, Deleted, clock
  <2>4. Deadline(e.job) <= now
    <3>1. Deadline(e.job) <= tickNow
      BY <1>5, <2>1, <2>2 DEF Dequeue, AnyDue, Due
    <3>. QED
      BY <1>1, <1>2, <2>1, <3>1 DEF Started
  <2>5. job[e.job] = "waiting" => easy[e.job] # "none"
    BY <2>1 DEF Registered
  <2>6. \A c \in Clients : c # e.job => job'[c] = job[c]
    BY <2>3
  <2>7. job'[e.job] \in {"timeout", "cancelled"} /\ (job'[e.job] = "timeout" => job[e.job] = "waiting")
    BY <2>1, <2>2, <2>3
  <2>8. ASSUME NEW c \in Clients
        PROVE  /\ job'[c] \in {"new", "error"} => easy'[c] = "none"
               /\ job'[c] = "response" => easy'[c] \in {"finished", "cleaned"}
               /\ job'[c] = "cancelled" => easy'[c] = "cleaned"
               /\ job'[c] = "timeout" => easy'[c] # "none" /\ Deadline(c) <= now
    <3>1. CASE c = e.job
      <4>1. job'[c] = "cancelled" => job[c] = "cancelled"
        BY <2>1, <2>2, <2>3, <3>1
      <4>. QED
        BY <2>3, <2>4, <2>5, <2>7, <3>1, <4>1 DEF Handles
    <3>2. CASE c # e.job
      BY <2>3, <2>6, <3>2 DEF Handles
    <3>. QED
      BY <3>1, <3>2
  <2>9. \A c \in Clients : issued'[c].at + issued'[c].ms = Deadline(c)
    BY <2>3 DEF Deadline
  <2>. QED
    BY <2>3, <2>8, <2>9 DEF Handles, Deadline
<1>6. CASE CleanUp
  <2>1. inHand \in Clients /\ easy[inHand] = "finished"
    BY <1>6 DEF CleanUp, Handles
  <2>2. /\ UNCHANGED <<now, job, issued>> /\ inHand' = None
        /\ easy' = [easy EXCEPT ![inHand] = "cleaned"]
    BY <1>6 DEF CleanUp, clock, jobs
  <2>. QED
    BY <2>1, <2>2 DEF Handles, Deadline
<1>7. ASSUME NEW c \in Clients, ReadMessage(c) PROVE Handles'
  <2>1. /\ UNCHANGED <<now, issued, easy>> /\ inHand' = c /\ easy[c] = "finished"
        /\ job' = job \/ job' = [job EXCEPT ![c] = "response"]
    BY <1>7, MessageOwner DEF ReadMessage, ToCleanUp, AfterStep, clock
  <2>2. \A d \in Clients : job'[d] = job[d] \/ (d = c /\ job'[d] = "response")
    BY <2>1
  <2>. QED
    BY <2>1, <2>2 DEF Handles, Deadline
<1>8. ASSUME NEW c \in Clients, NEW ms \in Timeouts, DoIssue(c, ms) PROVE Handles'
  <2>1. easy[c] = "none" /\ inHand # c
    BY <1>8 DEF DoIssue, Handles
  <2>2. /\ job'[c] = "waiting" /\ UNCHANGED <<now, inHand>>
        /\ \A d \in Clients : d # c => /\ job'[d] = job[d] /\ easy'[d] = easy[d]
                                       /\ issued'[d] = issued[d]
    BY <1>8 DEF DoIssue, clock
  <2>. QED
    BY <2>1, <2>2 DEF Handles, Deadline
<1>9. ASSUME NEW c \in Clients, IssueFails(c) PROVE Handles'
  BY <1>9 DEF IssueFails, Handles, Deadline, clock, curl
<1>10. ASSUME NEW c \in Clients, OnCancel(c) PROVE Handles'
  <2>1. inHand # c
    BY <1>10 DEF OnCancel, Registered
  <2>2. /\ job'[c] = "cancelled" /\ easy'[c] = "cleaned"
        /\ UNCHANGED <<now, issued, inHand>>
        /\ \A d \in Clients : d # c => job'[d] = job[d] /\ easy'[d] = easy[d]
    BY <1>10 DEF OnCancel, clock
  <2>. QED
    BY <2>1, <2>2 DEF Handles, Deadline
<1>11. ASSUME NEW c \in Clients,
              BeginTransfer(c) \/ Receive(c, FALSE) \/ Receive(c, TRUE) \/ GiveUp(c)
       PROVE  Handles'
  <2>1. /\ UNCHANGED <<now, job, issued, inHand>>
        /\ \A d \in Clients : \/ easy'[d] = easy[d]
                              \/ easy[d] \in {"added", "running"} /\ easy'[d] \in {"running", "finished"}
    BY <1>11 DEF BeginTransfer, Receive, GiveUp, Done, clock, jobs
  <2>. QED
    BY <2>1 DEF Handles, Deadline
<1>. QED
  BY <1>3, <1>4, <1>5, <1>6, <1>7, <1>8, <1>9, <1>10, <1>11, StepCases

\* Time does not pass a transfer that cURL should have started.
LEMMA NextStarted ==
    ASSUME TypeOK, Handles, Started, [Next]_vars
    PROVE  Started'
<1>. USE HttpAssumption DEF TypeOK
<1>1. \A c \in Clients : issued[c].at \in Nat /\ begun[c] \in Nat
  BY DEF Time
<1>2. now \in Nat /\ tickNow \in Nat
  BY DEF Time
<1>3. CASE TimePasses
  <2>1. /\ now' = now + 1
        /\ UNCHANGED <<tickNow, easy, issued, begun>>
        /\ \A c \in Clients : easy[c] = "added" => now < issued[c].at + MaxStart
    BY <1>3 DEF TimePasses, jobs, curl
  <2>. QED
    BY <1>1, <1>2, <2>1 DEF Started
<1>4. CASE OnTickTimer
  BY <1>2, <1>4 DEF OnTickTimer, Started, jobs, curl
<1>5. CASE Dequeue \/ TickEnds \/ CheckEnds \/ UNCHANGED vars
  BY <1>5 DEF Dequeue, TickEnds, CheckEnds, AfterStep, Started, vars, clock, jobs, curl
<1>6. CASE CleanUp
  <2>1. /\ UNCHANGED <<now, tickNow, issued, begun>>
        /\ easy' = [easy EXCEPT ![inHand] = "cleaned"]
    BY <1>6 DEF CleanUp, clock, jobs
  <2>. QED
    BY <2>1 DEF Started
<1>7. ASSUME NEW c \in Clients, ReadMessage(c) \/ IssueFails(c) \/ OnCancel(c)
      PROVE  Started'
  <2>1. /\ UNCHANGED <<now, tickNow, issued, begun>>
        /\ \A d \in Clients : easy'[d] = easy[d] \/ easy'[d] = "cleaned"
    BY <1>7 DEF ReadMessage, IssueFails, OnCancel, AfterStep, clock, curl
  <2>. QED
    BY <2>1 DEF Started
<1>8. ASSUME NEW c \in Clients, NEW ms \in Timeouts, DoIssue(c, ms) PROVE Started'
  <2>1. /\ UNCHANGED <<now, tickNow, begun>>
        /\ easy'[c] = "added" /\ issued'[c].at = now
        /\ \A d \in Clients : d # c => easy'[d] = easy[d] /\ issued'[d] = issued[d]
    BY <1>8 DEF DoIssue, clock
  <2>. QED
    BY <1>2, <2>1 DEF Started
<1>9. ASSUME NEW c \in Clients, BeginTransfer(c) PROVE Started'
  <2>1. /\ UNCHANGED <<now, tickNow, issued>>
        /\ easy[c] = "added" /\ easy'[c] = "running" /\ begun'[c] = now
        /\ \A d \in Clients : d # c => easy'[d] = easy[d] /\ begun'[d] = begun[d]
    BY <1>9 DEF BeginTransfer, clock, jobs
  <2>. QED
    BY <2>1 DEF Started
<1>10. ASSUME NEW c \in Clients, Receive(c, FALSE) \/ Receive(c, TRUE) \/ GiveUp(c)
       PROVE  Started'
  <2>1. /\ UNCHANGED <<now, tickNow, issued, begun>>
        /\ \A d \in Clients : easy'[d] = easy[d] \/ easy'[d] = "finished"
    BY <1>10 DEF Receive, GiveUp, Done, clock, jobs
  <2>. QED
    BY <2>1 DEF Started
<1>. QED
  BY <1>3, <1>4, <1>5, <1>6, <1>7, <1>8, <1>9, <1>10, StepCases

\* A handle in hand has not been cleaned up yet.
LEMMA NextCleanedOnce ==
    ASSUME TypeOK, Handles, CleanedOnce, [Next]_vars
    PROVE  CleanedOnce'
<1>1. CASE CleanUp
  <2>1. easy[inHand] = "finished"
    BY <1>1 DEF CleanUp, Handles
  <2>2. {c \in {inHand} : easy[c] = "cleaned"} = {}
    BY <2>1
  <2>. QED
    BY <1>1, <2>2 DEF CleanUp, CleanedOnce
<1>2. CASE ~CleanUp
  <2>1. cleanedTwice' = cleanedTwice
    BY <1>2, StepCases DEF TimePasses, OnTickTimer, Dequeue, TickEnds, CheckEnds,
       ReadMessage, DoIssue, IssueFails, OnCancel, BeginTransfer, Receive, GiveUp, vars, curl
  <2>. QED
    BY <2>1 DEF CleanedOnce
<1>. QED
  BY <1>1, <1>2

\* At the start nothing is registered.
LEMMA InitIInv == Init => IInv
<1>. SUFFICES ASSUME Init PROVE IInv
  OBVIOUS
<1>1. Issued = {} /\ Cardinality(Issued) = 0
  BY FS_EmptySet DEF Init, Issued
<1>2. Cardinality(Clients) \in Nat
  BY HttpAssumption, FS_CardinalityType
<1>3. delayQueue = <<>> /\ delayQueue \in Seq(Entries) /\ DOMAIN delayQueue = {}
  BY DEF Init
<1>4. TypeOK
  <2>1. 0 \in Time /\ 0 \in 0 .. Cardinality(Clients)
    BY <1>2, HttpAssumption DEF Time
  <2>2. ASSUME NEW c \in Clients PROVE 0 \in Ids
    <3>1. Cardinality(Clients) # 0
      BY HttpAssumption, FS_EmptySet
    <3>. QED
      BY <1>2, <3>1 DEF Ids
  <2>3. jobId \in [Clients -> Ids] /\ privateId \in [Clients -> Ids]
    BY <2>2 DEF Init
  <2>4. issued \in [Clients -> [ms : Timeouts \cup {0}, at : Time]]
    BY <2>1 DEF Init
  <2>. QED
    BY <1>3, <2>1, <2>3, <2>4 DEF Init, TypeOK, Places
<1>5. Ordered /\ OneId /\ Registered /\ Handles /\ Started /\ CleanedOnce
  BY <1>1, <1>3, HttpAssumption DEF Init, Ordered, OneId, Registered, Handles, Started,
     CleanedOnce, Issued
<1>. QED
  BY <1>4, <1>5 DEF IInv

\* Every step preserves the invariant.
LEMMA NextIInv ==
    ASSUME IInv, [Next]_vars
    PROVE  IInv'
BY NextTypeOK, NextOrdered, NextOneId, NextRegistered, NextHandles, NextStarted,
   NextCleanedOnce DEF IInv

-----------------------------------------------------------------------------
(* Theorems.                                                                *)

\* The queue, the multi and the jobs agree about every request, at any time.
THEOREM RequestInvariant == Spec => []IInv
<1>1. IInv /\ [Next]_vars => IInv'
  BY NextIInv
<1>. QED
  BY <1>1, InitIInv, PTL DEF Spec

\* Every variable keeps its type.
THEOREM TypeCorrect == Spec => []TypeOK
<1>1. IInv => TypeOK
  BY DEF IInv
<1>. QED
  BY <1>1, RequestInvariant, PTL

\* No easy handle is given to curl_easy_cleanup twice, by CurlMultiStatusCheck
\* and by OnCancel or by two messages.
THEOREM HandlesCleanedOnce == Spec => []CleanedOnce
<1>1. IInv => CleanedOnce
  BY DEF IInv
<1>. QED
  BY <1>1, RequestInvariant, PTL

\* A job that waits for its response can be ended by cURL and by the delay
\* queue, under one id.
THEOREM WaitingIsRegistered == Spec => []Registered
<1>1. IInv => Registered
  BY DEF IInv
<1>. QED
  BY <1>1, RequestInvariant, PTL

\* The job that gets a response is the one whose handle CurlMultiStatusCheck is
\* treating.
THEOREM ResponseReachesItsJob == Spec => OwnResult
<1>. DEFINE Own == \A c \in Clients : job[c] = "waiting" /\ job'[c] = "response" => inHand' = c
<1>1. ASSUME IInv, [Next]_vars, NEW c \in Clients, job[c] = "waiting", job'[c] = "response"
      PROVE  inHand' = c
  <2>. USE DEF IInv, TypeOK
  <2>1. ~(TimePasses \/ OnTickTimer \/ TickEnds \/ CleanUp \/ CheckEnds \/ UNCHANGED vars)
    BY <1>1 DEF TimePasses, OnTickTimer, TickEnds, CleanUp, CheckEnds, vars, jobs
  <2>2. ~Dequeue
    BY <1>1 DEF Dequeue
  <2>3. \A d \in Clients : ~(\/ \E ms \in Timeouts : DoIssue(d, ms)
                             \/ IssueFails(d) \/ OnCancel(d) \/ BeginTransfer(d)
                             \/ Receive(d, FALSE) \/ Receive(d, TRUE) \/ GiveUp(d))
    BY <1>1 DEF DoIssue, IssueFails, OnCancel, BeginTransfer, Receive, GiveUp, jobs
  <2>4. PICK d \in Clients : ReadMessage(d)
    BY <1>1, <2>1, <2>2, <2>3, StepCases
  <2>5. inHand' = d
    BY <2>4 DEF ReadMessage, ToCleanUp
  <2>6. job' = job \/ job' = [job EXCEPT ![d] = "response"]
    <3>1. \A i \in Index(privateId[d]) : delayQueue[i].job = d
      BY <1>1, <2>4, MessageOwner
    <3>. QED
      BY <2>4, <3>1 DEF ReadMessage
  <2>. QED
    BY <1>1, <2>5, <2>6
<1>2. IInv /\ [Next]_vars => [Own]_vars
  BY <1>1
<1>. QED
  BY <1>2, RequestInvariant, PTL DEF Spec, OwnResult

\* After a tick every entry of the delay queue is still to come.
THEOREM TickLeavesNothingOverdue == Spec => NothingOverdue
<1>. DEFINE Left == loop = "tick" /\ loop' = "poll" =>
                      \A i \in DOMAIN delayQueue : delayQueue[i].at > tickNow
<1>1. ASSUME IInv, [Next]_vars, loop = "tick", loop' = "poll", NEW i \in DOMAIN delayQueue
      PROVE  delayQueue[i].at > tickNow
  <2>. USE DEF IInv
  <2>1. TickEnds
    BY <1>1, StepCases DEF TimePasses, OnTickTimer, Dequeue, CleanUp, CheckEnds,
       ReadMessage, DoIssue, IssueFails, OnCancel, BeginTransfer, Receive, GiveUp,
       Done, InSocketAction, vars
  <2>2. /\ Len(delayQueue) \in Nat /\ DOMAIN delayQueue = 1 .. Len(delayQueue)
        /\ \A k \in DOMAIN delayQueue : delayQueue[k].at \in Nat
    BY <1>1, Listed
  <2>3. delayQueue # <<>> /\ 1 \in DOMAIN delayQueue /\ Head(delayQueue) = delayQueue[1]
    BY <1>1, <2>2 DEF TypeOK
  <2>4. ~(delayQueue[1].at <= tickNow)
    BY <2>1, <2>3 DEF TickEnds, AnyDue, Due
  <2>5. delayQueue[1].at <= delayQueue[i].at
    BY <1>1, <2>2, <2>3 DEF Ordered
  <2>6. tickNow \in Nat
    BY <1>1, HttpAssumption DEF TypeOK, Time
  <2>. QED
    BY <2>2, <2>3, <2>4, <2>5, <2>6
<1>2. IInv /\ [Next]_vars => [Left]_vars
  BY <1>1
<1>. QED
  BY <1>2, RequestInvariant, PTL DEF Spec, NothingOverdue

\* However late cURL starts a transfer, a deleted job is used only after its
\* deadline, and only if it was cancelled, or has timed out in a transfer that
\* cURL began later than the job was armed: were cURL prompt, its own timeout
\* would come no later than the job's.
THEOREM DeletedJobsAreUsedLate == Spec => []OnlyLateTouched
<1>1. Init => OnlyLateTouched
  BY DEF Init, OnlyLateTouched
<1>2. ASSUME IInv, OnlyLateTouched, [Next]_vars
      PROVE  OnlyLateTouched'
  <2>. USE DEF IInv, TypeOK
  <2>1. CASE UNCHANGED vars
    BY <1>2, <2>1 DEF OnlyLateTouched, Deadline, vars, clock, jobs, curl
  <2>2. CASE touched' = {}
    BY <2>2 DEF OnlyLateTouched
  <2>3. CASE Next /\ Dequeue
    <3>. DEFINE e == delayQueue[1]
    <3>1. 1 \in DOMAIN delayQueue /\ Head(delayQueue) = e /\ e.job \in Clients
      BY <1>2, <2>3, TickRemoves, Listed
    <3>2. job[e.job] \in {"waiting", "cancelled"} /\ e.at = Deadline(e.job)
      BY <1>2, <3>1 DEF Registered, OneId
    <3>3. CASE Gone(e.job)
      <4>1. /\ job' = job /\ touched' = {e.job}
            /\ UNCHANGED <<now, issued>>
        BY <2>3, <3>1, <3>3 DEF Next, Dequeue, clock
      <4>2. Deadline(e.job) <= tickNow
        BY <2>3, <3>1, <3>2 DEF Dequeue, AnyDue, Due
      <4>3. Deadline(e.job) <= now
        <5>1. now \in Nat /\ tickNow \in Nat /\ Deadline(e.job) \in Nat
          BY <1>2, <3>1, Times, HttpAssumption DEF Deadline, Time
        <5>2. tickNow <= now
          BY <1>2 DEF Started
        <5>. QED
          BY <4>2, <5>1, <5>2
      <4>. QED
        BY <3>2, <3>3, <4>1, <4>3 DEF OnlyLateTouched, Deadline, Gone, Deleted
    <3>4. CASE ~Gone(e.job)
      BY <2>2, <2>3, <3>1, <3>4 DEF Next, Dequeue
    <3>. QED
      BY <3>3, <3>4
  <2>4. ASSUME Next, NEW c \in Clients, ReadMessage(c) PROVE OnlyLateTouched'
    <3>1. ASSUME NEW i \in Index(privateId[c]) PROVE delayQueue[i].job = c /\ ~Gone(c)
      <4>1. i \in DOMAIN delayQueue /\ delayQueue[i].job = c
        BY <1>2, <2>4, MessageOwner
      <4>2. easy[c] = "finished"
        BY <2>4 DEF ReadMessage
      <4>. QED
        BY <1>2, <4>1, <4>2 DEF Registered, Handles, Gone, Deleted
    <3>2. touched' = touched
      BY <2>4, <3>1 DEF ReadMessage
    <3>. QED
      BY <2>2, <2>4, <3>2 DEF Next
  <2>5. ASSUME Next, NEW c \in Clients, Receive(c, FALSE) \/ Receive(c, TRUE)
        PROVE  OnlyLateTouched'
    <3>1. easy[c] = "running" /\ now < begun[c] + issued[c].ms
      BY <2>5 DEF Receive
    <3>2. CASE Gone(c)
      <4>1. /\ touched' = {c} /\ job[c] = "timeout" /\ Deadline(c) <= now
            /\ UNCHANGED <<now, job, issued, begun>>
        BY <1>2, <2>5, <3>1, <3>2
           DEF Next, Receive, Handles, Gone, Deleted, clock, jobs
      <4>2. begun[c] > issued[c].at
        <5>1. /\ now \in Nat /\ begun[c] \in Nat
              /\ issued[c].at \in Nat /\ issued[c].ms \in Nat
          BY <1>2, Times
        <5>. QED
          BY <3>1, <4>1, <5>1 DEF Deadline
      <4>. QED
        BY <4>1, <4>2 DEF OnlyLateTouched, Deadline
    <3>3. CASE ~Gone(c)
      BY <2>2, <2>5, <3>3 DEF Next, Receive
    <3>. QED
      BY <3>2, <3>3
  <2>6. touched' = touched \/ Dequeue \/ \E c \in Clients : \/ ReadMessage(c)
                                                          \/ Receive(c, FALSE)
                                                          \/ Receive(c, TRUE)
    BY <1>2, StepCases DEF TimePasses, OnTickTimer, TickEnds, CleanUp, CheckEnds,
       DoIssue, IssueFails, OnCancel, BeginTransfer, GiveUp, vars
  <2>. QED
    BY <1>2, <2>1, <2>2, <2>3, <2>4, <2>5, <2>6 DEF Next
<1>. QED
  BY <1>1, <1>2, RequestInvariant, PTL DEF Spec

-----------------------------------------------------------------------------
(* The composition implements WorkerHttp.                                   *)

\* One transfer is treated.
LEMMA TreatIsStep ==
    ASSUME touched = {}, NEW c \in Clients, Treat(c) PROVE [Next]_vars
<1>1. CASE Connect(c)
  BY <1>1 DEF Connect, Next, Steps
<1>2. CASE Advance(c)
  BY <1>2 DEF Advance
<1>3. CASE Receive(c, FALSE)
  BY <1>3 DEF Next, Steps
<1>4. CASE Finish(c)
  BY <1>4 DEF Finish, Next, Steps
<1>. QED
  BY <1>1, <1>2, <1>3, <1>4 DEF Treat

LEMMA CurlIsStep == CurlNext => [Next]_vars
<1>. SUFFICES ASSUME CurlNext PROVE [Next]_vars
  OBVIOUS
<1>1. touched = {}
  BY DEF CurlNext
<1>2. CASE TimePasses /\ UNCHANGED glue
  BY <1>1, <1>2 DEF Next, Steps
<1>3. CASE StartTick
  BY <1>1, <1>3 DEF StartTick, Next, Steps
<1>4. CASE RemoveHandle
  BY <1>1, <1>4 DEF RemoveHandle, Next, Steps, Callback
<1>5. CASE OtherCallback
  BY <1>1, <1>5 DEF OtherCallback, Next, Steps, Callback
<1>6. CASE UvCurlTimerOnTimeOut \/ ActionEnds
  BY <1>6 DEF UvCurlTimerOnTimeOut, ActionEnds
<1>7. CASE \E c \in Clients : Treat(c)
  BY <1>1, <1>7, TreatIsStep
<1>8. ASSUME NEW c \in Clients, \E ms \in Timeouts : AddHandle(c, ms)
      PROVE  [Next]_vars
  BY <1>1, <1>8 DEF AddHandle, Next, Steps
<1>9. ASSUME NEW c \in Clients, IssueFails(c) \/ CancelHandle(c)
      PROVE  [Next]_vars
  BY <1>1, <1>9 DEF CancelHandle, Next, Steps
<1>10. ASSUME NEW c \in Clients, UvCurlOnPoll(c) \/ UvCurlOnClose(c)
       PROVE  [Next]_vars
  BY <1>10 DEF UvCurlOnPoll, UvCurlOnClose
<1>. QED
  BY <1>2, <1>3, <1>4, <1>5, <1>6, <1>7, <1>8, <1>9, <1>10
     DEF CurlNext, CurlSteps, Returns

\* Whatever sockets and timer do, what is proved of WorkerHttp holds: each step
\* is one of WorkerHttp or leaves its variables alone.
THEOREM CurlImplementsRequests == CurlSpec => Spec
<1>1. CurlInit => Init
  BY DEF CurlInit
<1>2. [CurlNext]_curlVars => [Next]_vars
  BY CurlIsStep DEF curlVars
<1>. QED
  BY <1>1, <1>2, PTL DEF CurlSpec, Spec

-----------------------------------------------------------------------------
(* The timer.                                                               *)

\* A key of the tree is a transfer and the time of its expiry.
LEMMA KeysAreTimes ==
    ASSUME TypeOK, NEW k \in Tree
    PROVE  k \in Clients \X Nat
<1>. USE HttpAssumption DEF HttpAssumption
<1>1. PICK c \in Clients : k = <<c, Expiry(c)>>
  BY DEF Tree
<1>2. /\ issued[c] \in [ms : Timeouts \cup {0}, at : Time]
      /\ begun[c] \in Time
  <2>1. /\ issued \in [Clients -> [ms : Timeouts \cup {0}, at : Time]]
        /\ begun \in [Clients -> Time]
    BY DEF TypeOK
  <2>2. c \in Clients
    BY <1>1
  <2>. QED
    BY <2>1, <2>2, Zenon
<1>3. issued[c].at \in Nat /\ issued[c].ms \in Nat /\ begun[c] \in Nat
  <2>1. Time \subseteq Nat /\ Timeouts \cup {0} \subseteq Nat
    BY DEF Time
  <2>2. issued[c].at \in Time /\ issued[c].ms \in Timeouts \cup {0}
    BY <1>2
  <2>. QED
    BY <1>2, <2>1, <2>2
<1>4. begun[c] + issued[c].ms \in Nat
  BY <1>3
<1>5. Expiry(c) \in Nat
  BY <1>3, <1>4, Zenon DEF Expiry
<1>. QED
  BY <1>1, <1>5

\* Only transfers expire.
LEMMA ExpiredClients == Expired \subseteq Clients
<1>1. ASSUME NEW k \in Tree PROVE k[1] \in Clients
  <2>1. PICK c \in Clients : k = <<c, Expiry(c)>>
    BY DEF Tree
  <2>. QED
    BY <2>1
<1>. QED
  BY <1>1 DEF Expired

\* What was added has expired.
LEMMA AddedExpired ==
    ASSUME \A c \in Clients : issued[c].at <= now, NEW c \in Clients, easy[c] = "added"
    PROVE  <<c, issued[c].at>> \in Tree /\ c \in Expired
<1>1. <<c, issued[c].at>> \in Tree
  BY DEF Tree, Expiry
<1>2. <<c, issued[c].at>>[2] <= now /\ <<c, issued[c].at>>[1] = c
  OBVIOUS
<1>. QED
  BY <1>1, <1>2 DEF Expired

\* Each first key of the tree is such a pair, and due if a transfer was added.
FirstAreDue ==
    \A k \in FirstKeys :
       /\ k \in Clients \X Nat
       /\ (\E c \in Clients : easy[c] = "added") => k[2] <= now

LEMMA FirstIsDue ==
    TypeOK /\ (\A c \in Clients : issued[c].at <= now) => FirstAreDue
<1>. SUFFICES ASSUME TypeOK, \A c \in Clients : issued[c].at <= now, NEW k \in FirstKeys
     PROVE  /\ k \in Clients \X Nat
            /\ (\E c \in Clients : easy[c] = "added") => k[2] <= now
  BY DEF FirstAreDue
<1>1. k \in Tree /\ \A l \in Tree : k[2] <= l[2]
  BY DEF FirstKeys
<1>2. k \in Clients \X Nat
  BY <1>1, KeysAreTimes
<1>3. ASSUME NEW c \in Clients, easy[c] = "added" PROVE k[2] <= now
  <2>1. <<c, issued[c].at>> \in Tree
    BY <1>3, AddedExpired
  <2>2. issued[c].at \in Nat /\ now \in Nat /\ k[2] \in Nat
    BY <1>2, HttpAssumption DEF TypeOK, Time, HttpAssumption
  <2>3. k[2] <= issued[c].at
    BY <1>1, <2>1
  <2>. QED
    BY <2>2, <2>3
<1>. QED
  BY <1>2, <1>3

\* ... after a step as well.
LEMMA FirstIsDueNext ==
    TypeOK' /\ (\A c \in Clients : issued[c].at <= now)' => FirstAreDue'
BY FirstIsDue, PTL

\* After an announcement the timer is right.
LEMMA AnnounceIsRight ==
    ASSUME TypeOK', \A c \in Clients : issued'[c].at <= now',
           NEW k \in FirstKeys', Announce(k)
    PROVE  /\ AddedIsAnnounced'
           /\ curlTimer' \in Nat \cup {Off}
           /\ lastCall' \in (Clients \X Nat) \cup {NoKey}
<1>1. /\ k \in Clients \X Nat
      /\ (\E c \in Clients : easy'[c] = "added") => k[2] <= now'
  BY FirstIsDueNext DEF FirstAreDue
<1>2. curlTimer' = k[2] /\ lastCall' = k
  BY DEF Announce, TimerFunction
<1>3. k[2] \in Nat /\ k[2] # Off
  BY <1>1 DEF Off
<1>. QED
  BY <1>1, <1>2, <1>3 DEF AddedIsAnnounced

\* So it is after a call that updates the timer: it stays as it was, and no
\* transfer was added, or it follows the tree.
LEMMA UpdateIsRight ==
    ASSUME GlueInv, TypeOK', \A c \in Clients : issued'[c].at <= now',
           now \in Nat, now' \in Nat, now <= now', acting' = FALSE,
           acting => \A c \in Clients : easy'[c] # "added",
           \A c \in Clients : easy'[c] = "added" => easy[c] = "added",
           UpdateTimer
    PROVE  /\ AddedIsAnnounced'
           /\ curlTimer' \in Nat \cup {Off}
           /\ lastCall' \in (Clients \X Nat) \cup {NoKey}
<1>1. CASE Tree' = {} /\ curlTimer' = Off /\ lastCall' = NoKey
  <2>1. \A c \in Clients : easy'[c] # "added"
    BY <1>1 DEF Tree
  <2>. QED
    BY <1>1, <2>1 DEF AddedIsAnnounced
<1>2. CASE \E k \in FirstKeys' : Announce(k)
  BY <1>2, AnnounceIsRight
<1>3. CASE UNCHANGED <<curlTimer, lastCall>>
  BY <1>3 DEF GlueInv, GlueTypeOK, AddedIsAnnounced, Off
<1>. QED
  BY <1>1, <1>2, <1>3 DEF UpdateTimer

-----------------------------------------------------------------------------
(* The steps.                                                               *)

\* The contexts, and what cURL has to treat, are typed.
LEMMA Contexts ==
    ASSUME GlueTypeOK, CurlNext
    PROVE  /\ context' \in [Clients -> {"none", "open", "closing"}]
           /\ inCurl' \subseteq Clients
           /\ acting' \in BOOLEAN
<1>. USE DEF GlueTypeOK
<1>1. CASE UNCHANGED <<acting, inCurl, context>>
  BY <1>1
<1>2. ASSUME NEW c \in Clients, CancelHandle(c) \/ UvCurlOnClose(c)
      PROVE  /\ context' \in [Clients -> {"none", "open", "closing"}]
             /\ UNCHANGED <<acting, inCurl>>
  BY <1>2 DEF CancelHandle, UvCurlOnClose
<1>3. ASSUME NEW c \in Clients, Treat(c)
      PROVE  /\ context' \in [Clients -> {"none", "open", "closing"}]
             /\ inCurl' \subseteq Clients /\ UNCHANGED acting
  BY <1>3 DEF Treat, Connect, Advance, Finish
<1>4. ASSUME UvCurlTimerOnTimeOut \/ ActionEnds \/ \E c \in Clients : UvCurlOnPoll(c)
      PROVE  /\ UNCHANGED context /\ inCurl' \subseteq Clients /\ acting' \in BOOLEAN
  BY <1>4, ExpiredClients DEF UvCurlTimerOnTimeOut, ActionEnds, UvCurlOnPoll
<1>5. ASSUME NEW c \in Clients, NEW ms \in Timeouts, AddHandle(c, ms)
      PROVE  UNCHANGED <<acting, inCurl, context>>
  BY <1>5 DEF AddHandle
<1>6. ASSUME StartTick \/ RemoveHandle \/ OtherCallback PROVE UNCHANGED <<acting, inCurl, context>>
  BY <1>6 DEF StartTick, RemoveHandle, OtherCallback, glue
<1>. QED
  BY <1>1, <1>2, <1>3, <1>4, <1>5, <1>6 DEF CurlNext, CurlSteps, Returns, glue

\* A request is not issued in the future.
LEMMA Past ==
    ASSUME TypeOK, TypeOK', \A c \in Clients : issued[c].at <= now, CurlNext
    PROVE  now <= now' /\ \A c \in Clients : issued'[c].at <= now'
<1>. USE HttpAssumption DEF HttpAssumption
<1>1. now \in Nat /\ now' \in Nat /\ \A c \in Clients : issued[c].at \in Nat
  BY DEF TypeOK, Time
<1>2. ASSUME NEW c \in Clients, NEW ms \in Timeouts, DoIssue(c, ms)
      PROVE  now' = now /\ \A d \in Clients : issued'[d].at <= now
  BY <1>1, <1>2 DEF DoIssue, clock, TypeOK
<1>3. CASE UNCHANGED issued /\ now' \in {now, now + 1}
  BY <1>1, <1>3
<1>4. (\E c \in Clients : \E ms \in Timeouts : DoIssue(c, ms))
         \/ (UNCHANGED issued /\ now' \in {now, now + 1})
  <2>1. [Next]_vars
    BY CurlIsStep
  <2>2. CASE UNCHANGED vars
    BY <2>2 DEF vars, clock, jobs
  <2>3. CASE TimePasses
    BY <2>3 DEF TimePasses, jobs
  <2>4. CASE OnTickTimer \/ Callback
    BY <2>4 DEF OnTickTimer, Callback, Dequeue, TickEnds, ReadMessage, CleanUp, CheckEnds,
       clock, jobs
  <2>5. ASSUME NEW c \in Clients,
               \/ IssueFails(c) \/ OnCancel(c) \/ BeginTransfer(c)
               \/ Receive(c, FALSE) \/ Ends(c)
        PROVE  UNCHANGED issued /\ now' = now
    BY <2>5 DEF IssueFails, OnCancel, BeginTransfer, Receive, Ends, GiveUp, clock, jobs
  <2>. QED
    BY <2>1, <2>2, <2>3, <2>4, <2>5 DEF Next, Steps
<1>. QED
  BY <1>1, <1>2, <1>3, <1>4

\* Steps that touch neither timer, action nor what is added.
LEMMA NothingAdded ==
    ASSUME GlueInv, TypeOK, TypeOK', now <= now', UNCHANGED <<curlTimer, lastCall, acting>>,
           \A c \in Clients : easy'[c] = "added" => easy[c] = "added",
           acting => \A c \in Clients : easy'[c] = "added" => c \in inCurl'
    PROVE  /\ AddedIsAnnounced'
           /\ curlTimer' \in Nat \cup {Off}
           /\ lastCall' \in (Clients \X Nat) \cup {NoKey}
           /\ acting' => \A c \in Clients : easy'[c] = "added" => c \in inCurl'
<1>1. now \in Nat /\ now' \in Nat
  BY HttpAssumption DEF TypeOK, Time, HttpAssumption
<1>. QED
  BY <1>1 DEF GlueInv, GlueTypeOK, AddedIsAnnounced, Off

\* Each step keeps the timer right.
LEMMA NextTimer ==
    ASSUME GlueInv, TypeOK, TypeOK', CurlNext
    PROVE  /\ AddedIsAnnounced'
           /\ curlTimer' \in Nat \cup {Off}
           /\ lastCall' \in (Clients \X Nat) \cup {NoKey}
           /\ acting' => \A c \in Clients : easy'[c] = "added" => c \in inCurl'
<1>1. now <= now' /\ \A c \in Clients : issued'[c].at <= now'
  BY Past DEF GlueInv
<1>2. now \in Nat /\ now' \in Nat
  BY HttpAssumption DEF TypeOK, Time, HttpAssumption
<1>3. easy \in [Clients -> {"none", "added", "running", "finished", "cleaned"}]
  BY DEF TypeOK
<1>4. CASE TimePasses /\ UNCHANGED glue
  BY <1>1, <1>4, NothingAdded DEF TimePasses, curl, glue, GlueInv
<1>5. CASE StartTick
  BY <1>1, <1>5, NothingAdded DEF StartTick, OnTickTimer, curl, glue, GlueInv
<1>6. CASE OtherCallback
  <2>1. UNCHANGED <<easy, glue>> /\ ~acting
    BY <1>6 DEF OtherCallback, Dequeue, TickEnds, CheckEnds, ReadMessage, AfterStep, curl
  <2>. QED
    BY <1>1, <2>1, NothingAdded DEF glue
<1>7. ASSUME NEW c \in Clients, (IssueFails(c) /\ UNCHANGED glue) \/ UvCurlOnClose(c)
      PROVE  UNCHANGED <<easy, curlTimer, lastCall, acting, inCurl>>
  BY <1>7 DEF IssueFails, UvCurlOnClose, curl, glue, vars
<1>8. CASE UNCHANGED <<easy, curlTimer, lastCall, acting, inCurl>>
  BY <1>1, <1>8, NothingAdded DEF GlueInv
<1>9. ASSUME NEW c \in Clients, NEW ms \in Timeouts, AddHandle(c, ms)
      PROVE  acting' = FALSE /\ \E k \in FirstKeys' : Announce(k)
  BY <1>9 DEF AddHandle, GlueInv, GlueTypeOK
<1>10. CASE acting' = FALSE /\ \E k \in FirstKeys' : Announce(k)
  BY <1>1, <1>10, AnnounceIsRight
<1>11. ASSUME RemoveHandle \/ \E c \in Clients : CancelHandle(c)
       PROVE  /\ acting' = FALSE /\ ~acting /\ UpdateTimer
              /\ \A c \in Clients : easy'[c] = "added" => easy[c] = "added"
  BY <1>3, <1>11 DEF RemoveHandle, CleanUp, CancelHandle, OnCancel, GlueInv, GlueTypeOK
<1>12. CASE RemoveHandle \/ \E c \in Clients : CancelHandle(c)
  BY <1>1, <1>2, <1>11, <1>12, UpdateIsRight
<1>13. ASSUME UvCurlTimerOnTimeOut \/ \E c \in Clients : UvCurlOnPoll(c)
       PROVE  /\ acting' = TRUE /\ Expired \subseteq inCurl' /\ UNCHANGED vars
              /\ curlTimer' = Off /\ lastCall' \in {lastCall, NoKey}
  BY <1>13 DEF UvCurlTimerOnTimeOut, UvCurlOnPoll
<1>14. CASE UvCurlTimerOnTimeOut \/ \E c \in Clients : UvCurlOnPoll(c)
  <2>1. \A c \in Clients : easy'[c] = "added" => c \in inCurl'
    BY <1>13, <1>14, AddedExpired DEF GlueInv, vars, curl
  <2>. QED
    BY <1>13, <1>14, <2>1 DEF AddedIsAnnounced, GlueInv, GlueTypeOK
<1>15. ASSUME NEW c \in Clients, Treat(c)
       PROVE  /\ UNCHANGED <<curlTimer, lastCall, acting>>
              /\ \A d \in Clients : easy'[d] = "added" => easy[d] = "added" /\ d # c
              /\ inCurl' = inCurl \ {c}
  <2>1. easy'[c] # "added" /\ \A d \in Clients \ {c} : easy'[d] = easy[d]
    BY <1>3, <1>15 DEF Treat, Connect, BeginTransfer, Advance, Receive, Finish, Ends,
       GiveUp, Done, vars, curl
  <2>. QED
    BY <1>15, <2>1 DEF Treat
<1>16. CASE \E c \in Clients : Treat(c)
  <2>1. PICK c \in Clients : Treat(c)
    BY <1>16
  <2>. QED
    BY <1>1, <1>15, <2>1, NothingAdded DEF GlueInv
<1>17. CASE ActionEnds
  <2>1. /\ acting' = FALSE /\ UNCHANGED vars
        /\ \A c \in Clients : easy'[c] # "added"
    BY <1>17 DEF ActionEnds, GlueInv, vars, curl
  <2>2. CASE UpdateTimer
    BY <1>1, <1>2, <2>1, <2>2, UpdateIsRight
  <2>3. CASE \E k \in FirstKeys' : Announce(k)
    BY <1>1, <2>1, <2>3, AnnounceIsRight
  <2>4. FirstKeys' = FirstKeys
    BY <2>1 DEF FirstKeys, Tree, Expiry, vars, curl, jobs
  <2>. QED
    BY <1>17, <2>2, <2>3, <2>4 DEF ActionEnds
<1>. QED
  BY <1>4, <1>5, <1>6, <1>7, <1>8, <1>9, <1>10, <1>12, <1>14, <1>16, <1>17
     DEF CurlNext, CurlSteps, Returns

-----------------------------------------------------------------------------
(* Theorems.                                                                *)

LEMMA InitGlue == CurlInit => GlueInv
<1>. SUFFICES ASSUME CurlInit PROVE GlueInv
  OBVIOUS
<1>1. GlueTypeOK
  BY DEF CurlInit, GlueTypeOK, Off, NoKey
<1>2. \A c \in Clients : easy[c] = "none" /\ issued[c] = [ms |-> 0, at |-> 0] /\ now = 0
  BY DEF CurlInit, Init
<1>3. AddedIsAnnounced /\ acting = FALSE
  BY <1>2 DEF CurlInit, AddedIsAnnounced
<1>4. \A c \in Clients : issued[c].at <= now
  BY <1>2
<1>. QED
  BY <1>1, <1>3, <1>4 DEF GlueInv

LEMMA NextGlue == ASSUME GlueInv, TypeOK, TypeOK', [CurlNext]_curlVars PROVE GlueInv'
<1>1. CASE UNCHANGED curlVars
  BY <1>1 DEF curlVars, vars, glue, clock, jobs, curl, GlueInv, GlueTypeOK, AddedIsAnnounced
<1>2. CASE CurlNext
  <2>1. \A c \in Clients : issued'[c].at <= now'
    BY <1>2, Past DEF GlueInv
  <2>2. GlueTypeOK'
    BY <1>2, NextTimer, Contexts DEF GlueInv, GlueTypeOK
  <2>. QED
    BY <1>2, <2>1, <2>2, NextTimer DEF GlueInv
<1>. QED
  BY <1>1, <1>2

\* However sockets, timeouts and cancellations meet, a transfer that was added
\* and not begun is announced by the worker's one timer.
THEOREM AddedAreAnnounced == CurlSpec => []AddedIsAnnounced
<1>1. CurlSpec => []TypeOK
  BY CurlImplementsRequests, TypeCorrect, PTL
<1>2. GlueInv /\ TypeOK /\ TypeOK' /\ [CurlNext]_curlVars => GlueInv'
  BY NextGlue
<1>3. GlueInv => AddedIsAnnounced
  BY DEF GlueInv
<1>. QED
  BY <1>1, <1>2, <1>3, InitGlue, PTL DEF CurlSpec
=============================================================================
