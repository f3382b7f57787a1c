------------------------------ MODULE WorkPool ------------------------------
(***************************************************************************)
(* What the job queue promises: jobs are taken in the order they came,     *)
(* never twice at the same time and never more than the limit.  The limit  *)
(* changes when everything that came before the change is done.            *)
(***************************************************************************)
EXTENDS Naturals, Sequences, FiniteSets

CONSTANTS
    Jobs,     \* the jobs
    Sizes     \* the limits that can be asked for, positive numbers

VARIABLES
    waiting,  \* jobs that will be taken, in this order
    behind,   \* jobs that came after a change of the limit was asked for
    active,   \* jobs being processed
    limit,    \* how many may be
    wanted    \* the limit asked for, 0 when no change is pending

vars == <<waiting, behind, active, limit, wanted>>

Init ==
    /\ waiting = <<>>
    /\ behind = <<>>
    /\ active = {}
    /\ limit \in Sizes
    /\ wanted = 0

Submit(j) ==
    /\ j \notin active
    /\ IF wanted = 0
       THEN waiting' = Append(waiting, j) /\ UNCHANGED behind
       ELSE behind' = Append(behind, j) /\ UNCHANGED waiting
    /\ UNCHANGED <<active, limit, wanted>>

Begin ==
    /\ waiting # <<>>
    /\ Head(waiting) \notin active
    /\ Cardinality(active) < limit
    /\ active' = active \cup {Head(waiting)}
    /\ waiting' = Tail(waiting)
    /\ UNCHANGED <<behind, limit, wanted>>

\* A duplicate of a job in progress is dropped.
Skip ==
    /\ waiting # <<>>
    /\ Head(waiting) \in active
    /\ waiting' = Tail(waiting)
    /\ UNCHANGED <<behind, active, limit, wanted>>

Finish(j) ==
    /\ j \in active
    /\ active' = active \ {j}
    /\ UNCHANGED <<waiting, behind, limit, wanted>>

AskResize(n) ==
    /\ wanted = 0
    /\ n # limit
    /\ wanted' = n
    /\ UNCHANGED <<waiting, behind, active, limit>>

\* What came after the change was asked for is lost with the old queue.
Resize ==
    /\ wanted # 0
    /\ waiting = <<>>
    /\ active = {}
    /\ limit' = wanted
    /\ wanted' = 0
    /\ behind' = <<>>
    /\ UNCHANGED <<waiting, active>>

Next ==
    \/ \E j \in Jobs : Submit(j) \/ Finish(j)
    \/ Begin
    \/ Skip
    \/ \E n \in Sizes : AskResize(n)
    \/ Resize

Spec ==
    /\ Init /\ [][Next]_vars
    /\ WF_vars(Begin) /\ WF_vars(Skip) /\ WF_vars(Resize)
    /\ \A j \in Jobs : WF_vars(Finish(j))
=============================================================================
