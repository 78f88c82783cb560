----------------------------- MODULE ItcChannel -----------------------------
(****************************************************************************)
(* One direction of inter-thread communication: an ItcQueue (a deque behind *)
(* a mutex, src/Core/ITC.cc), the uv_async handle that wakes the consumer's *)
(* loop, and the consumer's OnItcAsyncSend, which handles at most           *)
(* kMaxBatchCount events per wake-up.  MainToWorkerQueue and                *)
(* WorkerToMainQueue of a worker are two instances; each has one producer   *)
(* thread and one consumer thread.                                          *)
(*                                                                          *)
(* uv_async_send only sets a flag, so several notifications become one      *)
(* callback; libuv clears the flag before it calls back.                    *)
(****************************************************************************)
EXTENDS Integers, Sequences

CONSTANTS Last,             \* the producer sends the events 1, ..., Last
          kMaxBatchCount    \* ItcQueue::kMaxBatchCount

ASSUME ItcAssumption ==
    /\ Last \in Nat
    /\ kMaxBatchCount \in Nat \ {0}

VARIABLES queue,        \* ItcQueueImpl::Queue
          asyncPending, \* the pending flag of the uv_async_t
          producer,     \* "ready" or "enqueued" (before its uv_async_send)
          sent,         \* number of events enqueued so far
          batch,        \* loop variable i of OnItcAsyncSend, -1 outside of it
          held,         \* the event dequeued and not yet processed, 0 for none
          processed,    \* history: events whose Process() ran, in order
          found         \* history: events queued when the last wake-up came

vars == <<queue, asyncPending, producer, sent, batch, held, processed, found>>

TypeOK ==
    /\ queue \in Seq(1 .. Last)
    /\ asyncPending \in BOOLEAN
    /\ producer \in {"ready", "enqueued"}
    /\ sent \in 0 .. Last
    /\ batch \in -1 .. kMaxBatchCount
    /\ held \in 0 .. Last
    /\ processed \in Seq(1 .. Last)
    /\ found \in Nat

Init ==
    /\ queue = <<>>
    /\ asyncPending = FALSE
    /\ producer = "ready"
    /\ sent = 0
    /\ batch = -1
    /\ held = 0
    /\ processed = <<>>
    /\ found = 0

-----------------------------------------------------------------------------
(* The producer: OnTcpRead, TimeWheelTickImpl or SendData.                  *)

\* ItcQueue::Enqueue.
Enqueue(e) ==
    /\ producer = "ready"
    /\ sent < Last
    /\ e = sent + 1
    /\ queue' = Append(queue, e)
    /\ sent' = e
    /\ producer' = "enqueued"
    /\ UNCHANGED <<asyncPending, batch, held, processed, found>>

NotifyWhenEmpty ==                                                 \* a mutant
    /\ producer = "enqueued"
    /\ asyncPending' = (asyncPending \/ Len(queue) <= 1)
    /\ producer' = "ready"
    /\ UNCHANGED <<queue, sent, batch, held, processed, found>>

\* NotifyWorker or NotifyMain: uv_async_send.
Notify ==
    /\ producer = "enqueued"
    /\ asyncPending' = TRUE
    /\ producer' = "ready"
    /\ UNCHANGED <<queue, sent, batch, held, processed, found>>

-----------------------------------------------------------------------------
(* The consumer's loop.                                                     *)

\* The loop notices the wake-up and calls OnItcAsyncSend.
WakeUp ==
    /\ batch = -1
    /\ asyncPending
    /\ asyncPending' = FALSE
    /\ batch' = 0
    /\ found' = Len(queue)
    /\ UNCHANGED <<queue, producer, sent, held, processed>>

\* The condition of the for loop, and the way it ends.
BatchGoesOn == batch \in 0 .. (kMaxBatchCount - 1)

BatchStopsEarly == batch = kMaxBatchCount - 1                      \* a mutant

BatchFull == batch = kMaxBatchCount

\* Queue.front() and Queue.pop_front().
Oldest == Head(queue)

NothingPopped == queue                                             \* a mutant

Remaining == Tail(queue)

\* ItcQueue::Dequeue.
Dequeue ==
    /\ BatchGoesOn
    /\ held = 0
    /\ queue # <<>>
    /\ held' = Oldest
    /\ queue' = Remaining
    /\ UNCHANGED <<asyncPending, producer, sent, batch, processed, found>>

\* ItcEvent::Process, which frees the event; then ++i.
Process ==
    /\ held # 0
    /\ processed' = Append(processed, held)
    /\ held' = 0
    /\ batch' = batch + 1
    /\ UNCHANGED <<queue, asyncPending, producer, sent, found>>

\* The for loop ends: Dequeue found nothing, or the batch is full.
BatchEnd ==
    /\ batch >= 0
    /\ held = 0
    /\ queue = <<>> \/ BatchFull
    /\ batch' = -1
    /\ UNCHANGED <<queue, asyncPending, producer, sent, held, processed, found>>

Next ==
    \/ \E e \in 1 .. Last : Enqueue(e)
    \/ Notify
    \/ WakeUp
    \/ Dequeue
    \/ Process
    \/ BatchEnd

Spec == Init /\ [][Next]_vars

\* A thread that has enqueued goes on to notify, and a running loop goes on:
\* neither blocks in this code.
FairSpec == Spec /\ WF_vars(Notify) /\ WF_vars(WakeUp \/ Dequeue \/ Process \/ BatchEnd)

-----------------------------------------------------------------------------
(* Properties.                                                              *)

InHand == IF held = 0 THEN <<>> ELSE <<held>>

\* What was handed over and is not processed yet, oldest first.
InTransit == InHand \o queue

\* Each event is owned by exactly one party and keeps its turn: what was
\* processed, what the consumer holds and what is queued are together the
\* events that were sent, in the order they were sent.
Baton ==
    processed \o InTransit = [i \in 1 .. sent |-> i]

\* The consumer sleeps with events queued and nobody is going to wake it.
AsleepOnEvents ==
    /\ batch = -1
    /\ queue # <<>>
    /\ ~asyncPending
    /\ producer = "ready"

\* Its last wake-up found more events than one batch takes.
Overflow == found > kMaxBatchCount

\* No lost wake-up: coalescing the notifications leaves events behind for one
\* reason only, more than a batch of them queued before one wake-up.  However
\* the two threads interleave, and however far the producer is ahead otherwise,
\* a consumer that sleeps with events queued has a wake-up on its way.
NoLostWakeUp == AsleepOnEvents => Overflow

\* Why no other wake-up is lost: the inductive invariant.  A batch that no
\* further wake-up will follow still has to do with what was found at its start.
HeldInBatch == held # 0 => batch \in 0 .. (kMaxBatchCount - 1)

LeftInBatch == batch + Len(queue) + (IF held = 0 THEN 0 ELSE 1)

FoundIsLeft ==
    batch >= 0 => asyncPending \/ producer = "enqueued" \/ LeftInBatch <= found

IInv ==
    /\ TypeOK
    /\ HeldInBatch
    /\ FoundIsLeft
    /\ NoLostWakeUp

\* The channel implements EventChannel; an event is in transit until Process.
\* An overflow is what stalls the channel, until the next event.
Channel == INSTANCE EventChannel WITH
    Events <- 1 .. Last,
    inTransit <- InTransit,
    stalled <- AsleepOnEvents /\ Overflow

ImplementsChannel == Channel!FairSpec

=============================================================================
