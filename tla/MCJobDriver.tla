----------------------------- MODULE MCJobDriver -----------------------------
(* JobDriver for TLC under both sides of its Discipline: jobs with several  *)
(* children in flight and timers, without cancellation ("join"), and fewer  *)
(* jobs that cancel and abandon, with one child at a time ("chain").        *)
EXTENDS JobDriver

CONSTANT ChainJobs      \* the jobs that a chain uses

VARIABLE discipline

Chain == INSTANCE JobDriver WITH Parallel <- {}, Cancellers <- ChainJobs, Sleepers <- {}

bothVars == <<vars, discipline>>

BothInit == Init /\ discipline \in {"join", "chain"}

Unused == \A j \in Jobs \ ChainJobs : status'[j] = "new"

BothNext ==
    /\ UNCHANGED discipline
    /\ \/ discipline = "join" /\ Next
       \/ discipline = "chain" /\ Chain!Next /\ Unused

BothYield(j) ==
    /\ UNCHANGED discipline
    /\ \/ discipline = "join" /\ Yield(j)
       \/ discipline = "chain" /\ Chain!Yield(j)

\* The fairness of JobDriver's FairSpec.
BothSpec ==
    /\ BothInit
    /\ [][BothNext]_bothVars
    /\ WF_bothVars(Dequeue /\ UNCHANGED discipline)
    /\ WF_bothVars(DrainEnd /\ UNCHANGED discipline)
    /\ WF_bothVars(CancelCurrent /\ UNCHANGED discipline)
    /\ \A j \in Jobs :
          /\ WF_bothVars(BothYield(j))
          /\ WF_bothVars(CompleteIO(j) /\ UNCHANGED discipline)
          /\ WF_bothVars(FireTimer(j) /\ UNCHANGED discipline)
=============================================================================
