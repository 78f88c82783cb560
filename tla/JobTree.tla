------------------------------- MODULE JobTree -------------------------------
(****************************************************************************)
(* What src/Job/Job.h promises its users, without queue or activations: a   *)
(* forest of jobs.  A job that is done with a parent stays in the forest,   *)
(* as returned, until the parent has observed it, and goes then; and no job *)
(* ends without its family, the returned ones included.                     *)
(****************************************************************************)

CONSTANTS Jobs, None

VARIABLES
    state,          \* "returned": done, and its parent has still to observe it
    parent,
    cancelled       \* the jobs that Cancel() was called for

tree == <<state, parent, cancelled>>

Init ==
    /\ state = [j \in Jobs |-> "new"]
    /\ parent = [j \in Jobs |-> None]
    /\ cancelled = {}

\* A job with everything below it.
Family(j) ==
    {k \in Jobs : \A S \in SUBSET Jobs :
        j \in S /\ (\A c \in Jobs : parent[c] \in S => c \in S) => k \in S}

\* The forest when the jobs of a set have been deleted.
StatesWithout(gone) == [j \in Jobs |-> IF j \in gone THEN "freed" ELSE state[j]]
ParentsWithout(gone) == [j \in Jobs |-> IF j \in gone THEN None ELSE parent[j]]

Runs(j) == state[j] = "live" /\ j \notin cancelled

\* The child that a step observes (its Trigger), if any.
Observed(j) == {{}} \cup {{c} : c \in {c \in Jobs : state[c] = "returned" /\ parent[c] = j}}

-----------------------------------------------------------------------------
\* The event loop has a new job.
Start(j) ==
    /\ state[j] = "new"
    /\ state' = [state EXCEPT ![j] = "live"]
    /\ UNCHANGED <<parent, cancelled>>

\* A step that waits or continues.
Step(j, seen) ==
    /\ Runs(j)
    /\ state' = StatesWithout(seen)
    /\ parent' = ParentsWithout(seen)
    /\ UNCHANGED cancelled

\* A step that calls InvokeChild.
InvokeChild(j, c, seen) ==
    /\ Runs(j)
    /\ state[c] = "new"
    /\ state' = [StatesWithout(seen) EXCEPT ![c] = "live"]
    /\ parent' = [ParentsWithout(seen) EXCEPT ![c] = j]
    /\ UNCHANGED cancelled

\* A step that calls Cancel() for its own job or a child.
Cancel(j, target, seen) ==
    /\ Runs(j)
    /\ state[target] = "live"
    /\ target = j \/ parent[target] = j
    /\ state' = StatesWithout(seen)
    /\ parent' = ParentsWithout(seen)
    /\ cancelled' = cancelled \cup {target}

\* A step that is done, of a job whose parent will observe it.
Return(j) ==
    /\ Runs(j)
    /\ parent[j] # None
    /\ LET gone == Family(j) \ {j}
       IN  /\ state' = [StatesWithout(gone) EXCEPT ![j] = "returned"]
           /\ parent' = ParentsWithout(gone)
    /\ UNCHANGED cancelled

\* A step that is done, of a job without a parent, or the end of a cancelled
\* job, which no parent is told of.
End(j) ==
    /\ state[j] = "live"
    /\ parent[j] = None \/ j \in cancelled
    /\ state' = StatesWithout(Family(j))
    /\ parent' = ParentsWithout(Family(j))
    /\ UNCHANGED cancelled

Next ==
    \E j \in Jobs :
       \/ Start(j) \/ Return(j) \/ End(j)
       \/ \E seen \in Observed(j) :
             \/ Step(j, seen)
             \/ \E c \in Jobs : InvokeChild(j, c, seen) \/ Cancel(j, c, seen)

Spec == Init /\ [][Next]_tree
=============================================================================
