------------------------------ MODULE JobQueue ------------------------------
(***************************************************************************)
(* TranscriptionJobQueue (services/job_queue.py): the asyncio queue, the   *)
(* worker tasks, the semaphore of job slots, and the change of concurrency *)
(* that a settings save schedules as a background task (routes/            *)
(* settings.py).  What a worker does with a job is JobLifecycle's subject. *)
(*                                                                         *)
(* stop() drops the queue and the semaphore and start() makes new ones, so *)
(* both have a generation: a worker waits on the object it saw, and says   *)
(* task_done to the one that is current.                                   *)
(***************************************************************************)
EXTENDS Naturals, Sequences, FiniteSets

CONSTANTS
    Jobs,         \* job ids
    Stop,         \* the sentinel
    NoJob,        \* "holds no job"
    Savers,       \* background tasks of set_concurrency that can coexist
    Sizes,        \* values of max_concurrent_jobs
    Biggest,      \* the largest of them
    InitialSize,  \* concurrency after startup
    MaxPuts,      \* bound: calls of enqueue
    MaxChanges    \* bound: changes of concurrency

ASSUME QueueAssumption ==
    /\ Stop \notin Jobs /\ NoJob \notin Jobs /\ Stop # NoJob
    /\ IsFiniteSet(Savers)
    /\ Biggest \in Nat
    /\ Sizes \subseteq 1..Biggest
    /\ InitialSize \in Sizes
    /\ MaxPuts \in Nat /\ MaxChanges \in Nat

Gens  == 1..(MaxChanges + 1)                \* generations of the queue
Tasks == 1..(Biggest * (MaxChanges + 1))    \* worker tasks, in creation order

VARIABLES
    apart,        \* an assumption on the users: no save during a change
    gen,          \* the generation of _queue and _slot_lock
    entries,      \* the content of the queue of each generation
    unfinished,   \* its counter of unfinished tasks
    slots,        \* the value of the semaphore of each generation
    concurrency,  \* _concurrency
    members,      \* _workers
    born,         \* worker tasks created so far
    running,      \* _running_ids
    pc,           \* where a worker task is
    on,           \* the generation of the queue or semaphore it waits on or holds
    job,          \* the job it has taken
    save,         \* what a background set_concurrency is doing
    puts,         \* calls of enqueue so far
    changes       \* changes of concurrency so far

queueVars  == <<gen, entries, unfinished>>
workerVars == <<pc, on, job>>
poolVars   == <<concurrency, members, born>>
vars == <<apart, queueVars, slots, poolVars, running, workerVars, save, puts, changes>>

IdleSave == [pc |-> "idle", want |-> 0, waits |-> {}]

Init ==
    /\ apart \in BOOLEAN
    /\ gen = 1
    /\ entries = [g \in Gens |-> <<>>]
    /\ unfinished = [g \in Gens |-> 0]
    /\ slots = [g \in Gens |-> IF g = 1 THEN InitialSize ELSE 0]
    /\ concurrency = InitialSize
    /\ members = 1..InitialSize
    /\ born = InitialSize
    /\ running = {}
    /\ pc = [t \in Tasks |-> IF t \in 1..InitialSize THEN "new" ELSE "unborn"]
    /\ on = [t \in Tasks |-> 1]
    /\ job = [t \in Tasks |-> NoJob]
    /\ save = [s \in Savers |-> IdleSave]
    /\ puts = 0
    /\ changes = 0

-----------------------------------------------------------------------------
(* Producers. *)

Enqueue(j) ==
    /\ puts < MaxPuts
    /\ puts' = puts + 1
    /\ j \notin running
    /\ entries' = [entries EXCEPT ![gen] = Append(@, j)]
    /\ unfinished' = [unfinished EXCEPT ![gen] = @ + 1]
    /\ UNCHANGED <<apart, gen, slots, poolVars, running, workerVars, save, changes>>

-----------------------------------------------------------------------------
(* Workers. *)

\* What the steps of a worker never touch.
WorkerFrame == UNCHANGED <<apart, poolVars, save, puts, changes>>

\* The first run of a task: it waits on the queue that is current by then.
StartWorker(t) ==
    /\ pc[t] = "new"
    /\ pc' = [pc EXCEPT ![t] = "get"]
    /\ on' = [on EXCEPT ![t] = gen]
    /\ UNCHANGED <<queueVars, slots, running, job>>
    /\ WorkerFrame

\* task_done on the current queue, whatever queue the entry came from, and the
\* next round.  It raises when it is called too often: the task dies of it.
NextRound(t) ==
    /\ job' = [job EXCEPT ![t] = NoJob]
    /\ on' = [on EXCEPT ![t] = gen]
    /\ \/ /\ unfinished[gen] > 0
          /\ unfinished' = [unfinished EXCEPT ![gen] = @ - 1]
          /\ pc' = [pc EXCEPT ![t] = "get"]
       \/ /\ unfinished[gen] = 0
          /\ pc' = [pc EXCEPT ![t] = "ended"]
          /\ UNCHANGED unfinished

Get(t) ==
    /\ pc[t] = "get"
    /\ entries[on[t]] # <<>>
    /\ entries' = [entries EXCEPT ![on[t]] = Tail(@)]
    /\ UNCHANGED gen
    /\ WorkerFrame

TakeSentinel(t) ==
    /\ Get(t)
    /\ Head(entries[on[t]]) = Stop
    /\ pc' = [pc EXCEPT ![t] = "ended"]
    /\ UNCHANGED <<unfinished, slots, running, on, job>>

Duplicate_Unchecked(j) == FALSE   \* mutated form
Duplicate(j) == j \in running

\* Mutated form: the skip goes through the release of the slot.
SkipDuplicate_ReleasesSlot(t) ==
    /\ Get(t)
    /\ Duplicate(Head(entries[on[t]]))
    /\ slots' = [slots EXCEPT ![gen] = @ + 1]
    /\ NextRound(t)
    /\ UNCHANGED running

\* Mutated form: the skip also goes through the finally of the job.
SkipDuplicate_DoneTwice(t) ==
    /\ Get(t)
    /\ Duplicate(Head(entries[on[t]]))
    /\ unfinished' = [unfinished EXCEPT ![gen] = @ - 2]
    /\ on' = [on EXCEPT ![t] = gen]
    /\ UNCHANGED <<pc, job, slots, running>>

SkipDuplicate(t) ==
    /\ Get(t)
    /\ Duplicate(Head(entries[on[t]]))
    /\ NextRound(t)
    /\ UNCHANGED <<slots, running>>

TakeJob(t) ==
    LET j == Head(entries[on[t]]) IN
    /\ Get(t)
    /\ j \in Jobs /\ ~Duplicate(j)
    /\ running' = running \cup {j}
    /\ job' = [job EXCEPT ![t] = j]
    /\ on' = [on EXCEPT ![t] = gen]
    /\ \/ /\ slots[gen] > 0
          /\ slots' = [slots EXCEPT ![gen] = @ - 1]
          /\ pc' = [pc EXCEPT ![t] = "run"]
       \/ /\ slots[gen] = 0
          /\ pc' = [pc EXCEPT ![t] = "slot"]
          /\ UNCHANGED slots
    /\ UNCHANGED unfinished

TakeSlot(t) ==
    /\ pc[t] = "slot"
    /\ slots[on[t]] > 0
    /\ slots' = [slots EXCEPT ![on[t]] = @ - 1]
    /\ pc' = [pc EXCEPT ![t] = "run"]
    /\ UNCHANGED <<queueVars, running, on, job>>
    /\ WorkerFrame

\* The end of process_transcription_job, with or without an exception.
EndJob(t) ==
    /\ pc[t] = "run"
    /\ slots' = [slots EXCEPT ![on[t]] = @ + 1]
    /\ running' = running \ {job[t]}
    /\ NextRound(t)
    /\ UNCHANGED <<gen, entries>>
    /\ WorkerFrame

WorkerStep(t) ==
    \/ StartWorker(t) \/ TakeSentinel(t) \/ SkipDuplicate(t)
    \/ TakeJob(t) \/ TakeSlot(t) \/ EndJob(t)

-----------------------------------------------------------------------------
(* set_concurrency, in a background task. *)

\* A set_concurrency waits in its gather.
Changing == \E s \in Savers : save[s].pc = "gather"

Sentinels_OneShort(n) == [i \in 1..(n - 1) |-> Stop]   \* mutated form
Sentinels(n) == [i \in 1..n |-> Stop]

\* Mutated form: the sentinels overtake what is pending.
BeginChange_Overtakes(s, n) ==
    LET k == Cardinality(members) IN
    /\ save[s].pc = "idle"
    /\ apart => ~Changing
    /\ changes < MaxChanges
    /\ n # concurrency
    /\ changes' = changes + 1
    /\ entries' = [entries EXCEPT ![gen] = Sentinels(k) \o @]
    /\ unfinished' = [unfinished EXCEPT ![gen] = @ + k]
    /\ save' = [save EXCEPT ![s] = [pc |-> "gather", want |-> n, waits |-> members]]
    /\ UNCHANGED <<apart, gen, slots, poolVars, running, workerVars, puts>>

\* stop(), up to its gather.
BeginChange(s, n) ==
    LET k == Cardinality(members) IN
    /\ save[s].pc = "idle"
    /\ apart => ~Changing
    /\ changes < MaxChanges
    /\ n # concurrency
    /\ changes' = changes + 1
    /\ entries' = [entries EXCEPT ![gen] = @ \o Sentinels(k)]
    /\ unfinished' = [unfinished EXCEPT ![gen] = @ + k]
    /\ save' = [save EXCEPT ![s] = [pc |-> "gather", want |-> n, waits |-> members]]
    /\ UNCHANGED <<apart, gen, slots, poolVars, running, workerVars, puts>>

\* Mutated form: start() does not wait for the old workers.
EndChange_NoGather(s) ==
    LET n == save[s].want
        new == (born + 1)..(born + n)
    IN
    /\ save[s].pc = "gather"
    /\ gen' = gen + 1
    /\ slots' = [slots EXCEPT ![gen + 1] = n]
    /\ concurrency' = n
    /\ members' = new
    /\ born' = born + n
    /\ pc' = [t \in Tasks |-> IF t \in new THEN "new" ELSE pc[t]]
    /\ save' = [save EXCEPT ![s] = IdleSave]
    /\ UNCHANGED <<apart, entries, unfinished, running, on, job, puts, changes>>

\* Mutated form: _started stays set, start() returns at once.
EndChange_StaysStarted(s) ==
    /\ save[s].pc = "gather"
    /\ \A t \in save[s].waits : pc[t] = "ended"
    /\ gen' = gen + 1
    /\ concurrency' = save[s].want
    /\ members' = {}
    /\ save' = [save EXCEPT ![s] = IdleSave]
    /\ UNCHANGED <<apart, entries, unfinished, slots, born, running, workerVars, puts, changes>>

\* The rest of stop(), and start(): a new queue, a new semaphore, new workers.
EndChange(s) ==
    LET n == save[s].want
        new == (born + 1)..(born + n)
    IN
    /\ save[s].pc = "gather"
    /\ \A t \in save[s].waits : pc[t] = "ended"
    /\ gen' = gen + 1
    /\ slots' = [slots EXCEPT ![gen + 1] = n]
    /\ concurrency' = n
    /\ members' = new
    /\ born' = born + n
    /\ pc' = [t \in Tasks |-> IF t \in new THEN "new" ELSE pc[t]]
    /\ save' = [save EXCEPT ![s] = IdleSave]
    /\ UNCHANGED <<apart, entries, unfinished, running, on, job, puts, changes>>

Next ==
    \/ \E j \in Jobs : Enqueue(j)
    \/ \E t \in Tasks : WorkerStep(t)
    \/ \E s \in Savers, n \in Sizes : BeginChange(s, n)
    \/ \E s \in Savers : EndChange(s)

Spec == Init /\ [][Next]_vars

\* The event loop runs every task that can run; nobody has to submit or save.
Fairness ==
    /\ \A t \in Tasks : WF_vars(WorkerStep(t))
    /\ \A s \in Savers : WF_vars(EndChange(s))

FairSpec == Spec /\ Fairness

-----------------------------------------------------------------------------
(* Properties. *)

Live(t) == pc[t] \notin {"unborn", "ended"}

\* Every variable keeps to the values the code can give it; a semaphore never
\* counts more slots than the largest concurrency.
TypeOK ==
    /\ gen \in Gens
    /\ entries \in [Gens -> Seq(Jobs \cup {Stop})]
    /\ unfinished \in [Gens -> Nat]
    /\ slots \in [Gens -> 0..Biggest]
    /\ concurrency \in Sizes
    /\ members \subseteq 1..born
    /\ born \in 0..(Biggest * (MaxChanges + 1))
    /\ running \subseteq Jobs
    /\ pc \in [Tasks -> {"unborn", "new", "get", "slot", "run", "ended"}]
    /\ on \in [Tasks -> Gens]
    /\ job \in [Tasks -> Jobs \cup {NoJob}]
    /\ save \in [Savers -> [pc : {"idle", "gather"}, want : Sizes \cup {0}, waits : SUBSET Tasks]]
    /\ puts \in 0..MaxPuts
    /\ changes \in 0..MaxChanges

\* However the changes of concurrency overlap, and whatever workers they leave
\* behind, two tasks never have the same job.
OneTaskPerJob == \A t, u \in Tasks : t # u /\ job[t] = job[u] => job[t] = NoJob

\* No slot is lost or gained over exceptions, skips and orphaned workers: the
\* free slots of the current semaphore and the jobs that run under it make up
\* the concurrency that was asked for.
SlotsBalance ==
    slots[gen] + Cardinality({t \in Tasks : pc[t] = "run" /\ on[t] = gen}) = concurrency

\* No worker escapes stop(): every live task is in _workers, so the sentinels
\* that stop() counts by it reach exactly the workers it waits for.
WorkersAreKnown == apart => \A t \in Tasks : Live(t) => t \in members

\* task_done is never called too often, across queues: what the current queue
\* still counts covers its entries and the jobs in progress.  (It raises
\* otherwise, outside of the worker's try, and the worker is gone.)
TaskDoneIsCovered ==
    apart => unfinished[gen] >= Len(entries[gen]) + Cardinality(running)

\* The entries that the sentinels of a pending change do not precede, and those
\* that they do.
StopsAt == {i \in 1..Len(entries[gen]) : entries[gen][i] = Stop}
FirstStop == CHOOSE i \in StopsAt : \A k \in StopsAt : i <= k
LastStop == CHOOSE i \in StopsAt : \A k \in StopsAt : k <= i
Ahead == IF StopsAt # {} THEN SubSeq(entries[gen], 1, FirstStop - 1)
         ELSE IF Changing THEN <<>> ELSE entries[gen]
Behind == IF ~Changing THEN <<>>
          ELSE IF StopsAt = {} THEN entries[gen]
          ELSE SubSeq(entries[gen], LastStop + 1, Len(entries[gen]))

\* What is in the queue ahead of the sentinels is taken, even by the workers
\* that overlapping changes leave behind.
AheadIsTaken == \A j \in Jobs : (\E i \in 1..Len(Ahead) : Ahead[i] = j)
                                  ~> ~(\E i \in 1..Len(Ahead) : Ahead[i] = j)

\* set_concurrency "gracefully stops existing workers then restarts with new
\* count": a change of concurrency comes to its end.
ChangeEnds == \A s \in Savers : apart /\ save[s].pc = "gather" ~> save[s].pc = "idle"

\* The queue implements WorkPool when the saves come apart.  (A behaviour in
\* which they do not is mapped to an idle pool.)
Active == {job[t] : t \in {u \in Tasks : pc[u] \in {"slot", "run"}}}
Wanted == IF Changing THEN save[CHOOSE s \in Savers : save[s].pc = "gather"].want ELSE 0

PoolWaiting == IF apart THEN Ahead ELSE <<>>
PoolBehind  == IF apart THEN Behind ELSE <<>>
PoolActive  == IF apart THEN Active ELSE {}
PoolLimit   == IF apart THEN concurrency ELSE InitialSize
PoolWanted  == IF apart THEN Wanted ELSE 0

Pool == INSTANCE WorkPool WITH
    waiting <- PoolWaiting, behind <- PoolBehind, active <- PoolActive,
    limit <- PoolLimit, wanted <- PoolWanted

\* The implementation of WorkPool: jobs are taken in order, never twice at a
\* time, never more than the limit; a change of concurrency waits for what came
\* before it and loses only what came after it.
ImplementsWorkPool == Pool!Spec

-----------------------------------------------------------------------------
(* What the repository says of the program and the code does not keep. *)

\* set_concurrency: "Pending jobs remain in queue."
PendingRemain ==
    [][gen' # gen => \A i \in 1..Len(entries[gen]) :
          entries[gen][i] # Stop => \E k \in 1..Len(entries'[gen']) : entries'[gen'][k] = entries[gen][i]]_vars

\* set_concurrency: "Gracefully stops existing workers then restarts with new
\* count", also while another change is under way.
EveryChangeEnds == \A s \in Savers : save[s].pc = "gather" ~> save[s].pc = "idle"
=============================================================================
