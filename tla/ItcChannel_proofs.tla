-------------------------- MODULE ItcChannel_proofs --------------------------
(****************************************************************************)
(* Proofs about ItcChannel, for every number of events, every batch size    *)
(* and every interleaving of the two threads: ownership and order of events, *)
(* no wake-up lost but behind a full batch, the refinement of EventChannel.  *)
(****************************************************************************)
EXTENDS ItcChannel, SequenceTheorems, TLAPS

-----------------------------------------------------------------------------
(* The inductive invariant.                                                 *)

\* Nothing is queued, held or pending when the threads start.
LEMMA InitIInv == Init => IInv
<1>. SUFFICES ASSUME Init PROVE IInv
  OBVIOUS
<1>1. TypeOK
  <2>1. <<>> \in Seq(1 .. Last)
    BY EmptySeq
  <2>2. 0 \in 0 .. Last /\ -1 \in -1 .. kMaxBatchCount
    BY ItcAssumption
  <2>. QED
    BY <2>1, <2>2 DEF Init, TypeOK
<1>. QED
  BY <1>1 DEF Init, IInv, HeldInBatch, FoundIsLeft, NoLostWakeUp, AsleepOnEvents

\* Type correctness needs one more fact: an event is held only inside a batch
\* that is not full, so the loop variable stays within the batch size.
LEMMA NextTypeOK ==
    ASSUME TypeOK, HeldInBatch, [Next]_vars
    PROVE  TypeOK' /\ HeldInBatch'
<1>. USE ItcAssumption DEF TypeOK, HeldInBatch
<1>1. ASSUME NEW e \in 1 .. Last, Enqueue(e) PROVE TypeOK' /\ HeldInBatch'
  BY <1>1, AppendProperties DEF Enqueue
<1>2. CASE Notify
  BY <1>2 DEF Notify
<1>3. CASE WakeUp
  <2>1. /\ batch' = 0 /\ asyncPending' = FALSE /\ held = 0
        /\ found' \in Nat
        /\ UNCHANGED <<queue, producer, sent, held, processed>>
    BY <1>3, LenProperties DEF WakeUp
  <2>2. 0 \in -1 .. kMaxBatchCount
    OBVIOUS
  <2>. QED
    BY <2>1, <2>2
<1>4. CASE Dequeue
  <2>1. held' \in 1 .. Last /\ queue' \in Seq(1 .. Last)
    BY <1>4, HeadTailProperties DEF Dequeue, Oldest, Remaining
  <2>. QED
    BY <1>4, <2>1 DEF Dequeue, BatchGoesOn
<1>5. CASE Process
  <2>1. held \in 1 .. Last /\ processed' = Append(processed, held)
    BY <1>5 DEF Process
  <2>2. processed' \in Seq(1 .. Last)
    BY <2>1, AppendProperties
  <2>3. batch' \in -1 .. kMaxBatchCount
    <3>1. batch \in 0 .. (kMaxBatchCount - 1) /\ batch' = batch + 1
      BY <1>5 DEF Process
    <3>. QED
      BY <3>1
  <2>. QED
    BY <1>5, <2>2, <2>3 DEF Process
<1>6. CASE BatchEnd
  <2>1. -1 \in -1 .. kMaxBatchCount
    OBVIOUS
  <2>. QED
    BY <1>6, <2>1 DEF BatchEnd
<1>7. CASE UNCHANGED vars
  BY <1>7 DEF vars
<1>. QED
  BY <1>1, <1>2, <1>3, <1>4, <1>5, <1>6, <1>7 DEF Next

\* The producer's and the consumer's steps keep the invariant: while no wake-up
\* follows, a batch only hands on what its own wake-up found.
LEMMA NextIInv ==
    ASSUME IInv, [Next]_vars
    PROVE  IInv'
<1>. USE ItcAssumption
<1>1. /\ TypeOK' /\ HeldInBatch' /\ HeldInBatch
      /\ Len(queue) \in Nat /\ queue \in Seq(1 .. Last)
      /\ batch \in -1 .. kMaxBatchCount /\ found \in Nat
  BY NextTypeOK, LenProperties DEF IInv, TypeOK
<1>. SUFFICES FoundIsLeft' /\ NoLostWakeUp'
  BY <1>1 DEF IInv
<1>. USE DEF HeldInBatch, FoundIsLeft, LeftInBatch, NoLostWakeUp, AsleepOnEvents, Overflow
<1>2. ASSUME NEW e \in 1 .. Last, Enqueue(e)
      PROVE  FoundIsLeft' /\ NoLostWakeUp'
  BY <1>2 DEF Enqueue
<1>3. CASE Notify
  BY <1>3 DEF Notify
<1>4. CASE WakeUp
  <2>1. batch' = 0 /\ held = 0 /\ held' = 0 /\ queue' = queue /\ found' = Len(queue)
    BY <1>1, <1>4 DEF WakeUp
  <2>. QED
    BY <1>1, <2>1
<1>5. CASE Dequeue
  <2>1. Len(queue') = Len(queue) - 1
    BY <1>1, <1>5, HeadTailProperties DEF Dequeue, Remaining
  <2>2. held = 0 /\ held' # 0
    BY <1>1, <1>5, HeadTailProperties DEF Dequeue, Oldest
  <2>. QED
    BY <1>1, <1>5, <2>1, <2>2 DEF Dequeue, BatchGoesOn, IInv
<1>6. CASE Process
  <2>1. batch \in 0 .. kMaxBatchCount /\ batch' = batch + 1 /\ held # 0 /\ held' = 0
    BY <1>1, <1>6 DEF Process
  <2>. QED
    BY <1>1, <1>6, <2>1 DEF Process, IInv
<1>7. CASE BatchEnd
  <2>1. queue # <<>> => batch = kMaxBatchCount /\ Len(queue) > 0
    BY <1>1, <1>7, EmptySeq DEF BatchEnd, BatchFull
  <2>. QED
    BY <1>1, <1>7, <2>1 DEF BatchEnd, IInv
<1>8. CASE UNCHANGED vars
  BY <1>1, <1>8 DEF vars, IInv
<1>. QED
  BY <1>2, <1>3, <1>4, <1>5, <1>6, <1>7, <1>8 DEF Next

\* The inductive invariant, from which the theorem below reads off its part.
LEMMA ChannelInvariant == Spec => []IInv
<1>1. IInv /\ [Next]_vars => IInv'
  BY NextIInv
<1>. QED
  BY InitIInv, <1>1, PTL DEF Spec

\* Coalescing notifications loses no wake-up except behind a full batch:
\* whenever the consumer sleeps with events queued and nobody about to wake it,
\* its last wake-up found more events than one batch takes.
THEOREM ChannelWakesUp == Spec => []NoLostWakeUp
<1>1. IInv => NoLostWakeUp
  BY DEF IInv
<1>. QED
  BY ChannelInvariant, <1>1, PTL

-----------------------------------------------------------------------------
(* Ownership and order.                                                     *)

\* What each step does to the events in transit: Enqueue appends one, Process
\* takes the oldest, which is then the last one processed, and the other steps
\* only move an event from the queue into the consumer's hand, or nothing.
LEMMA TransitSteps ==
    ASSUME TypeOK, [Next]_vars
    PROVE  /\ InTransit \in Seq(1 .. Last)
           /\ \/ InTransit' = InTransit /\ processed' = processed /\ sent' = sent
              \/ /\ InTransit # <<>>
                 /\ Head(InTransit) \in 1 .. Last
                 /\ processed' = Append(processed, Head(InTransit))
                 /\ InTransit' = Tail(InTransit)
                 /\ sent' = sent
              \/ \E e \in 1 .. Last : /\ e = sent + 1
                                     /\ InTransit' = Append(InTransit, e)
                                     /\ processed' = processed /\ sent' = e
<1>. DEFINE S == Seq(1 .. Last)
<1>1. queue \in S /\ held \in 0 .. Last /\ Last \in Nat
  BY ItcAssumption DEF TypeOK
<1>2. InHand \in S /\ InTransit \in S
  <2>1. InHand \in S
    <3>1. held # 0 => held \in 1 .. Last
      BY <1>1
    <3>2. held \in 1 .. Last => <<held>> \in S
      OBVIOUS
    <3>3. <<>> \in S
      BY EmptySeq
    <3>. QED
      BY <3>1, <3>2, <3>3 DEF InHand
  <2>. QED
    BY <1>1, <2>1, ConcatProperties DEF InTransit
<1>3. ASSUME NEW e \in 1 .. Last, Enqueue(e)
      PROVE  InTransit' = Append(InTransit, e)
  <2>1. InHand' = InHand /\ queue' = Append(queue, e)
    BY <1>3 DEF Enqueue, InHand
  <2>2. <<e>> \in S
    OBVIOUS
  <2>3. Append(queue, e) = queue \o <<e>> /\ Append(InTransit, e) = InTransit \o <<e>>
    BY <1>1, <1>2, AppendIsConcat
  <2>. QED
    BY <1>1, <1>2, <2>1, <2>2, <2>3, ConcatAssociative DEF InTransit
<1>4. CASE Dequeue
  <2>1. held = 0 /\ queue # <<>> /\ held' = Head(queue) /\ queue' = Tail(queue)
    BY <1>4 DEF Dequeue, Oldest, Remaining
  <2>2. Head(queue) \in 1 .. Last /\ Tail(queue) \in S
    BY <1>1, <2>1, HeadTailProperties
  <2>3. InHand = <<>> /\ InHand' = <<Head(queue)>>
    BY <2>1, <2>2 DEF InHand
  <2>4. <<Head(queue)>> \o Tail(queue) = queue
    <3>1. /\ queue = SubSeq(queue, 1, Len(queue))
          /\ Tail(queue) = SubSeq(queue, 2, Len(queue))
          /\ Head(queue) = queue[1]
      BY <1>1, <2>1, SubSeqFull, TailIsSubSeq
    <3>2. 1 \in 1 .. Len(queue) /\ Len(queue) \in 1 .. Len(queue)
      BY <1>1, <2>1, EmptySeq
    <3>. QED
      BY <1>1, <3>1, <3>2, SubSeqRecursiveFirst
  <2>5. <<>> \o queue = queue
    BY <1>1, ConcatEmptySeq
  <2>. QED
    BY <1>2, <1>4, <2>1, <2>3, <2>4, <2>5 DEF InTransit, Dequeue
<1>5. CASE Process
  <2>1. held # 0 /\ processed' = Append(processed, held) /\ held' = 0
        /\ queue' = queue /\ sent' = sent
    BY <1>5 DEF Process
  <2>2. held \in 1 .. Last /\ InHand = <<held>> /\ InHand' = <<>>
    BY <1>1, <2>1 DEF InHand
  <2>3. /\ <<held>> \o queue # <<>>
        /\ Head(<<held>> \o queue) = held
        /\ Tail(<<held>> \o queue) = queue
    BY <1>1, <2>2
  <2>4. <<>> \o queue = queue
    BY <1>1, ConcatEmptySeq
  <2>. QED
    BY <1>2, <2>1, <2>2, <2>3, <2>4 DEF InTransit
<1>6. CASE Notify \/ WakeUp \/ BatchEnd \/ UNCHANGED vars
  BY <1>2, <1>6 DEF Notify, WakeUp, BatchEnd, vars, InTransit, InHand
<1>7. ASSUME NEW e \in 1 .. Last, Enqueue(e)
      PROVE  e = sent + 1 /\ processed' = processed /\ sent' = e
  BY <1>7 DEF Enqueue
<1>. QED
  BY <1>2, <1>3, <1>4, <1>5, <1>6, <1>7 DEF Next

\* The order of the events: with TransitSteps, what was processed and what is in
\* transit remain together the events that were sent.
LEMMA NextBaton == TypeOK /\ TypeOK' /\ Baton /\ [Next]_vars => Baton'
<1>. SUFFICES ASSUME TypeOK, TypeOK', Baton, [Next]_vars PROVE Baton'
  OBVIOUS
<1>. DEFINE S == Seq(1 .. Last)
<1>1. processed \in S /\ InTransit \in S /\ sent \in Nat
  BY TransitSteps, ItcAssumption DEF TypeOK
<1>2. CASE /\ InTransit # <<>> /\ Head(InTransit) \in 1 .. Last
           /\ processed' = Append(processed, Head(InTransit))
           /\ InTransit' = Tail(InTransit) /\ sent' = sent
  <2>. DEFINE h == Head(InTransit)
              t == Tail(InTransit)
  <2>1. t \in S /\ <<h>> \in S
    BY <1>1, <1>2, HeadTailProperties
  <2>2. InTransit = <<h>> \o t
    <3>1. /\ InTransit = SubSeq(InTransit, 1, Len(InTransit))
          /\ t = SubSeq(InTransit, 2, Len(InTransit))
          /\ h = InTransit[1]
      BY <1>1, <1>2, SubSeqFull, TailIsSubSeq
    <3>2. 1 \in 1 .. Len(InTransit) /\ Len(InTransit) \in 1 .. Len(InTransit)
      BY <1>1, <1>2, EmptySeq
    <3>. QED
      BY <1>1, <3>1, <3>2, SubSeqRecursiveFirst
  <2>3. Append(processed, h) = processed \o <<h>>
    BY <1>1, <1>2, AppendIsConcat
  <2>4. (processed \o <<h>>) \o t = processed \o (<<h>> \o t)
    BY <1>1, <2>1, ConcatAssociative
  <2>. QED
    BY <1>2, <2>2, <2>3, <2>4 DEF Baton
<1>3. ASSUME NEW e \in 1 .. Last, e = sent + 1, InTransit' = Append(InTransit, e),
             processed' = processed, sent' = e
      PROVE  Baton'
  <2>. DEFINE all == processed \o InTransit
  <2>1. all \in S /\ <<e>> \in S
    BY <1>1, ConcatProperties
  <2>2. processed' \o InTransit' = Append(all, e)
    <3>1. Append(InTransit, e) = InTransit \o <<e>> /\ Append(all, e) = all \o <<e>>
      BY <1>1, <2>1, AppendIsConcat
    <3>. QED
      BY <1>1, <1>3, <2>1, <3>1, ConcatAssociative
  <2>3. all = [i \in 1 .. sent |-> i]
    BY DEF Baton
  <2>4. Len(all) = sent
    BY <1>1, <2>1, <2>3, LenProperties
  <2>5. Append(all, e) = [i \in 1 .. e |-> i]
    <3>1. /\ Append(all, e) \in S /\ Len(Append(all, e)) = e
          /\ \A i \in 1 .. sent : Append(all, e)[i] = all[i]
          /\ Append(all, e)[e] = e
      BY <1>1, <1>3, <2>1, <2>4, AppendProperties
    <3>2. DOMAIN Append(all, e) = 1 .. e
      BY <3>1, LenProperties
    <3>3. \A i \in 1 .. e : Append(all, e)[i] = i
      <4>1. \A i \in 1 .. e : i \in 1 .. sent \/ i = e
        BY <1>1, <1>3
      <4>. HIDE DEF all
      <4>. QED
        BY <2>3, <3>1, <4>1
    <3>4. Append(all, e) = [i \in DOMAIN Append(all, e) |-> Append(all, e)[i]]
      BY <3>1, LenProperties
    <3>. HIDE DEF all
    <3>. QED
      BY <3>2, <3>3, <3>4
  <2>. QED
    BY <1>3, <2>2, <2>5 DEF Baton
<1>. QED
  BY <1>2, <1>3, TransitSteps DEF Baton

-----------------------------------------------------------------------------
(* The theorems about order and the refinement.                             *)

\* Every reachable state has the declared types.
THEOREM ChannelTypeCorrect == Spec => [](TypeOK /\ HeldInBatch)
<1>1. Init => TypeOK /\ HeldInBatch
  BY InitIInv DEF IInv
<1>2. (TypeOK /\ HeldInBatch) /\ [Next]_vars => (TypeOK /\ HeldInBatch)'
  BY NextTypeOK
<1>. QED
  BY <1>1, <1>2, PTL DEF Spec

\* Single ownership and order of events: every event that was sent is exactly
\* one of processed, in the consumer's hand and queued, and none overtakes
\* another, for every number of events and every batch size.
THEOREM ChannelKeepsOrder == Spec => []Baton
<1>1. Init => Baton
  <2>1. SUFFICES ASSUME Init PROVE Baton
    OBVIOUS
  <2>2. processed = <<>> /\ InTransit = <<>> \o <<>> /\ sent = 0
    BY <2>1 DEF Init, InTransit, InHand
  <2>3. <<>> \o <<>> = <<>>
    OBVIOUS
  <2>4. [i \in 1 .. 0 |-> i] = <<>>
    OBVIOUS
  <2>. QED
    BY <2>2, <2>3, <2>4 DEF Baton
<1>2. TypeOK /\ TypeOK' /\ Baton /\ [Next]_vars => Baton'
  BY NextBaton
<1>3. Spec => []TypeOK
  BY ChannelTypeCorrect, PTL
<1>. QED
  BY <1>1, <1>2, <1>3, PTL DEF Spec

\* The queue, the wake-ups and the batches implement the abstract channel of the
\* ownership comment (its safety part): Enqueue sends, Process processes, and no
\* other step shows.
THEOREM ChannelRefines == Spec => Channel!Spec
<1>1. Init => Channel!Init
  <2>1. <<>> \o <<>> = <<>>
    OBVIOUS
  <2>. QED
    BY <2>1 DEF Init, Channel!Init, InTransit, InHand
<1>2. TypeOK /\ [Next]_vars => [Channel!Next]_Channel!channel
  <2>1. SUFFICES ASSUME TypeOK, [Next]_vars PROVE [Channel!Next]_Channel!channel
    OBVIOUS
  <2>. QED
    BY <2>1, TransitSteps
       DEF Channel!Next, Channel!Process, Channel!Send, Channel!channel
<1>3. Spec => []TypeOK
  BY ChannelTypeCorrect, PTL
<1>. QED
  BY <1>1, <1>2, <1>3, PTL DEF Spec, Channel!Spec

=============================================================================
