---------------------------- MODULE EventChannel ----------------------------
(****************************************************************************)
(* What inter-thread communication promises (the ownership comment of       *)
(* src/Core/ITC.h): the producer hands events over, the consumer processes  *)
(* each of them exactly once, in the order they were handed over, and every *)
(* event that was handed over is processed, unless the channel stalls.      *)
(****************************************************************************)
EXTENDS Sequences

CONSTANT Events

VARIABLES inTransit,    \* handed over, not processed yet
          processed,    \* in the order of Process()
          stalled       \* nobody is going to wake the consumer

channel == <<inTransit, processed>>

Init ==
    /\ inTransit = <<>>
    /\ processed = <<>>

\* The producer relays the baton.
Send(e) ==
    /\ inTransit' = Append(inTransit, e)
    /\ UNCHANGED processed

\* The consumer calls Process(), which frees the event.
Process ==
    /\ inTransit # <<>>
    /\ processed' = Append(processed, Head(inTransit))
    /\ inTransit' = Tail(inTransit)

Next == Process \/ \E e \in Events : Send(e)

Spec == Init /\ [][Next]_channel

\* A channel that does not stall goes on.
FairSpec == Spec /\ WF_channel(Process /\ ~stalled)

=============================================================================
