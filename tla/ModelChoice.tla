---------------------------- MODULE ModelChoice ----------------------------
(***************************************************************************)
(* Which model a job gets and which one its run loads: the resolution of   *)
(* services/capabilities.py when the job is created, and the choice of     *)
(* services/whisper_service.py when a worker runs it, against a snapshot   *)
(* of the registry that may have changed in between.                       *)
(*                                                                         *)
(* A weight of the snapshot is the pair of its provider and its model      *)
(* name, in the order of the snapshot; 0 stands for a choice not made.     *)
(***************************************************************************)
EXTENDS Naturals

CONSTANTS
    Providers, ModelNames, \* positive numbers, in the order of the snapshot
    Diarizers,             \* likewise
    MaxEdits,              \* bound: changes of the snapshot
    MaxRuns                \* bound: runs of the job

ASSUME ModelChoiceConstants ==
    /\ Providers \subseteq Nat \ {0} /\ ModelNames \subseteq Nat \ {0}
    /\ Diarizers \subseteq Nat \ {0}
    /\ MaxEdits \in Nat /\ MaxRuns \in Nat

VARIABLES
    offer,     \* weight -> "absent", "off" (disabled or without files) or "on"
    diarizers, \* diarizer -> is it available
    defaults,  \* the effective settings: default_asr_provider, default_model, default_diarizer
    asked,     \* the form of the request
    job,       \* the columns of the job, pc the stage it is at; history: the
               \* record its last run loaded, and the available ones that could be
    edits, runCount

choiceVars == <<offer, diarizers, defaults, asked, job, edits, runCount>>

Offers == Providers \X ModelNames
NoOffer == <<0, 0>>
Registered == {r \in Offers : offer[r] # "absent"}
Available == {r \in Offers : offer[r] = "on"}
Choices == [provider : Providers \cup {0}, model : ModelNames \cup {0}, diarizer : Diarizers \cup {0}]
Before(a, b) == a[1] < b[1] \/ (a[1] = b[1] /\ a[2] <= b[2])
First(R) == IF R = {} THEN NoOffer ELSE CHOOSE r \in R : \A q \in R : Before(r, q)
Named(R, m) == {r \in R : r[2] = m}

ChoiceInit ==
    /\ offer \in [Offers -> {"absent", "off", "on"}]
    /\ diarizers \in [Diarizers -> BOOLEAN]
    /\ defaults \in Choices /\ asked \in Choices
    \* Models and diarizers are chosen apart: one of the two is varied.
    /\ \/ defaults.diarizer = 0 /\ asked.diarizer = 0 /\ \A d \in Diarizers : ~diarizers[d]
       \/ /\ \A r \in Offers : offer[r] = "on"
          /\ defaults.provider = 0 /\ defaults.model = 0 /\ asked.provider = 0 /\ asked.model = 0
    /\ job = [pc |-> "new"]
    /\ edits = 0 /\ runCount = 0

-----------------------------------------------------------------------------
(* The creation of the job. *)

\* resolve_from_provider; NoOffer is its error.
FromProvider(p, m) ==
    IF m = 0 THEN First({r \in Available : r[1] = p})
    ELSE IF <<p, m>> \in Available THEN <<p, m>> ELSE NoOffer

OrElse(a, b) == IF a # NoOffer THEN a ELSE b

\* What was asked for is honoured or refused, what was not falls back.
ResolveAsr_FallsBack(want, default) ==   \* mutated form
    OrElse(FromProvider(want.provider, want.model), First(Available))
ResolveAsr(want, default) ==
    IF want.provider # 0 THEN FromProvider(want.provider, want.model)
    ELSE IF want.model # 0 THEN First(Named(Available, want.model))
    ELSE OrElse(IF default.provider # 0 THEN FromProvider(default.provider, default.model) ELSE NoOffer,
         OrElse(IF default.model # 0 THEN First(Named(Available, default.model)) ELSE NoOffer,
                First(Available)))

\* The first of the wanted diarizers that is available, then the first of all.
FirstDiarizer(wanted) ==
    LET ready == {d \in Diarizers : diarizers[d]} IN
    IF wanted \in ready THEN wanted
    ELSE IF ready = {} THEN 0 ELSE CHOOSE d \in ready : \A e \in ready : d <= e

CreateResolved ==
    /\ job.pc = "new"
    /\ \E labels \in BOOLEAN :
         LET r == ResolveAsr(asked, defaults)
             d == IF labels THEN FirstDiarizer(asked.diarizer) ELSE 0 IN
         job' = IF r = NoOffer THEN [pc |-> "refused"]
                ELSE [pc |-> "queued", provider |-> r[1], model |-> r[2],
                      diarizer |-> d, labels |-> d # 0, loaded |-> NoOffer, loads |-> {}]
    /\ UNCHANGED <<offer, diarizers, defaults, asked, edits, runCount>>

-----------------------------------------------------------------------------
(* A run of it. *)

\* The record for a candidate name: that of the default provider, if it has one
\* of the name, enabled or not; the provider of the job is not looked at.
PickRecord(m) ==
    LET preferred == {r \in Named(Registered, m) : defaults.provider \in {0, r[1]}} IN
    OrElse(First(preferred), First(Named(Registered, m)))

\* The name of the job, the default, the rest in the order of the snapshot; the
\* first whose record can be loaded.
LoadFirst_IgnoresJob(m, loads) ==   \* mutated form
    LET works == {r \in Available : PickRecord(r[2]) \in loads} IN
    IF works = {} THEN NoOffer ELSE PickRecord(First(works)[2])
LoadFirst(m, loads) ==
    LET works == {r \in Available : PickRecord(r[2]) \in loads} IN
    IF works = {} THEN NoOffer
    ELSE IF Named(works, m) # {} THEN PickRecord(m)
    ELSE IF Named(works, defaults.model) # {} THEN PickRecord(defaults.model)
    ELSE PickRecord(First(works)[2])

\* enforce_runtime_diarizer: that of the job, the default, the first.
RuntimeDiarizer ==
    IF ~job.labels THEN 0
    ELSE IF job.diarizer \in Diarizers /\ diarizers[job.diarizer] THEN job.diarizer
    ELSE FirstDiarizer(defaults.diarizer)

\* Records whose files are gone do not load; one that is there may fail to.  A
\* diarizer that cannot run here ends the wish for labels, for later runs too.
RunChosen(loads, ready) ==
    LET r == LoadFirst(job.model, loads)
        d == RuntimeDiarizer IN
    job' = [job EXCEPT !.pc = IF r = NoOffer THEN "failed" ELSE "paused",
                       !.model = IF r = NoOffer THEN @ ELSE r[2],
                       !.provider = IF r = NoOffer THEN @ ELSE r[1],
                       !.loaded = r, !.loads = loads \cap Available,
                       !.diarizer = d, !.labels = d \in ready]

RunJob ==
    /\ job.pc \in {"queued", "paused"}
    /\ runCount < MaxRuns /\ runCount' = runCount + 1
    /\ \E broken \in {{}} \cup {{r} : r \in Registered},
          down \in IF job.labels THEN {{}, Diarizers} ELSE {{}} :
         RunChosen(Registered \ broken, Diarizers \ down)
    /\ UNCHANGED <<offer, diarizers, defaults, asked, edits>>

\* Changes that no run is left to see are not made.
EditOffers ==
    /\ job.pc \in {"queued", "paused"} /\ runCount < MaxRuns
    /\ edits < MaxEdits /\ edits' = edits + 1
    /\ \/ /\ \E r \in Offers, s \in {"absent", "off", "on"} :
               offer[r] # s /\ offer' = [offer EXCEPT ![r] = s]
          /\ UNCHANGED diarizers
       \/ /\ \E d \in Diarizers : diarizers' = [diarizers EXCEPT ![d] = ~@]
          /\ UNCHANGED offer
    /\ UNCHANGED <<defaults, asked, job, runCount>>

ChoiceNext == CreateResolved \/ RunJob \/ EditOffers

ModelChoiceSpec == ChoiceInit /\ [][ChoiceNext]_choiceVars

-----------------------------------------------------------------------------
(* Properties. *)

\* A provider or a model the request names is the one the job is created with,
\* and what it is created with was available.
ExplicitChoiceHonoured ==
    [][job.pc = "new" /\ job'.pc = "queued" =>
        /\ asked.provider \in {0, job'.provider}
        /\ asked.model \in {0, job'.model}
        /\ <<job'.provider, job'.model>> \in Available]_choiceVars

\* Where no model name is shared by two providers, a run loads the model of the
\* job whenever it is available and loads, and another available one rather than
\* fail.
NamesAreUnique == \A r, q \in Registered : r[2] = q[2] => r = q
RunKeepsChoice ==
    [][job.pc \in {"queued", "paused"} /\ NamesAreUnique /\ job' # job =>
        LET chosen == <<job.provider, job.model>>
            works == job'.loads IN
        /\ chosen \in works => job'.loaded = chosen
        /\ works # {} => job'.loaded \in works]_choiceVars
=============================================================================
