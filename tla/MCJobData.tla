------------------------------ MODULE MCJobData ------------------------------
(* Small instances of what one job goes through, its media among other jobs' *)
(* and the choice of its models.  The three share no state: a behaviour      *)
(* moves one of them, the part it starts with, and the others rest.          *)
EXTENDS JobRun, JobMedia, ModelChoice, TLC

VARIABLE part

MCInit ==
    /\ part \in {"run", "media", "choice"}
    /\ JobRunInit /\ MediaInit /\ ChoiceInit
    /\ part # "run" => share = 100
    /\ part # "choice" =>
         /\ offer = [r \in Offers |-> "on"] /\ diarizers = [d \in Diarizers |-> FALSE]
         /\ defaults = [provider |-> 0, model |-> 0, diarizer |-> 0] /\ asked = defaults

MCNext ==
    \/ part = "run" /\ JobRunNext /\ UNCHANGED <<mediaVars, choiceVars, part>>
    \/ part = "media" /\ MediaNext /\ UNCHANGED <<runVars, choiceVars, part>>
    \/ part = "choice" /\ ChoiceNext /\ UNCHANGED <<runVars, mediaVars, part>>

MCSpec == MCInit /\ [][MCNext]_<<runVars, mediaVars, choiceVars, part>>

\* The jobs of the media and the requests for them are interchangeable.
Symmetry == Permutations(MediaJobs) \cup Permutations(MediaHandlers)
=============================================================================
