-------------------------- MODULE JobQueue_proofs ---------------------------
(***************************************************************************)
(* Theorems about JobQueue, for any number of jobs, of concurrent saves,   *)
(* of changes and for any sizes of the pool.  They follow from IInv, the   *)
(* conjunction of four invariants that are inductive together:             *)
(*   Wf     types, and what exists: generations, tasks, pending changes    *)
(*   Held   which task has which job                                       *)
(*   Slots  the semaphores                                                 *)
(*   Calm   what holds when the saves come apart                           *)
(* With what the current queue then looks like (Shape) they show that the  *)
(* queue implements WorkPool, fairness aside.                              *)
(***************************************************************************)
EXTENDS JobQueue, FiniteSetTheorems, SequenceTheorems, TLAPS

-----------------------------------------------------------------------------
(* The inductive invariant. *)

Pending == {s \in Savers : save[s].pc = "gather"}

\* Of a generation or a task to come nothing exists yet, and every generation
\* but the first was made by a change that has ended.
Wf ==
    /\ TypeOK
    /\ born <= Biggest * gen
    /\ gen + Cardinality(Pending) = changes + 1
    /\ \A s \in Pending : save[s].want \in Sizes
    /\ \A g \in Gens : g > gen => entries[g] = <<>> /\ unfinished[g] = 0 /\ slots[g] = 0
    /\ \A t \in Tasks : on[t] <= gen
    /\ \A t \in Tasks : t > born => pc[t] = "unborn"

Busy == {t \in Tasks : pc[t] \in {"slot", "run"}}

\* Exactly the busy tasks have a job, each its own, and _running_ids is the set
\* of these jobs.
Held ==
    /\ \A t \in Tasks : t \in Busy <=> job[t] # NoJob
    /\ \A t \in Busy : job[t] \in running
    /\ \A j \in running : \E t \in Busy : job[t] = j
    /\ \A t, u \in Busy : job[t] = job[u] => t = u
    /\ IsFiniteSet(running)

Under(g) == {t \in Tasks : pc[t] = "run" /\ on[t] = g}

\* The slots of every semaphore are conserved.
Slots ==
    /\ \A g \in Gens : slots[g] + Cardinality(Under(g)) <= Biggest
    /\ slots[gen] + Cardinality(Under(gen)) = concurrency

\* Without overlapping saves: one change at a time, which waits for all the live
\* tasks; they work on the current queue, whose count covers its entries.
OneChange == \A s, u \in Pending : s = u
WaitsForAll == \A s \in Pending : save[s].waits = members
AreMembers == \A t \in Tasks : Live(t) => t \in members
AreCurrent == \A t \in Tasks : Live(t) /\ pc[t] # "new" => on[t] = gen
IsCovered == unfinished[gen] >= Len(entries[gen]) + Cardinality(running)

Calm == apart => OneChange /\ WaitsForAll /\ AreMembers /\ AreCurrent /\ IsCovered

IInv == Wf /\ Held /\ Slots /\ Calm

-----------------------------------------------------------------------------
(* Finite sets and sequences. *)

\* The bound of the tasks is a number, and grows with the generation.
LEMMA TaskBound ==
    /\ Biggest * (MaxChanges + 1) \in Nat
    /\ \A g \in Gens : Biggest * g \in Nat /\ Biggest * g <= Biggest * (MaxChanges + 1)
    /\ \A g \in Gens : Biggest * (g + 1) = Biggest * g + Biggest
BY QueueAssumption DEF Gens

\* Tasks and every set of tasks are finite, and so are the members.
LEMMA TasksFinite == \A S \in SUBSET Tasks : IsFiniteSet(S) /\ Cardinality(S) \in Nat
<1>1. IsFiniteSet(Tasks)  BY TaskBound, FS_Interval DEF Tasks
<1>2. QED  BY <1>1, FS_Subset, FS_CardinalityType

\* The saves in their gather are finitely many.
LEMMA PendingFinite == IsFiniteSet(Pending) /\ Cardinality(Pending) \in Nat
<1>1. Pending \in SUBSET Savers  BY DEF Pending
<1>2. QED  BY <1>1, QueueAssumption, FS_Subset, FS_CardinalityType

\* The sentinels are a sequence of the length asked for.
LEMMA SentinelsLength ==
    ASSUME NEW n \in Nat
    PROVE  Sentinels(n) \in Seq(Jobs \cup {Stop}) /\ Len(Sentinels(n)) = n
BY DEF Sentinels

\* A save that starts its gather is one more pending change.
LEMMA PendingGrows ==
    ASSUME Wf, NEW s \in Savers, save[s].pc = "idle", NEW r, r.pc = "gather",
           save' = [save EXCEPT ![s] = r]
    PROVE  Pending' = Pending \cup {s} /\ Cardinality(Pending') = Cardinality(Pending) + 1
<1>1. Pending' = Pending \cup {s} /\ s \notin Pending  BY DEF Wf, TypeOK, Pending
<1>2. QED  BY <1>1, PendingFinite, FS_AddElement

\* A save that ends is one less.
LEMMA PendingShrinks ==
    ASSUME Wf, NEW s \in Savers, save[s].pc = "gather", save' = [save EXCEPT ![s] = IdleSave]
    PROVE  Pending' = Pending \ {s} /\ Cardinality(Pending') = Cardinality(Pending) - 1
<1>1. Pending' = Pending \ {s} /\ s \in Pending  BY DEF Wf, TypeOK, Pending, IdleSave
<1>2. QED  BY <1>1, PendingFinite, FS_RemoveElement

\* While a change is pending there is room for another generation.
LEMMA RoomForChange ==
    ASSUME Wf, NEW s \in Pending
    PROVE  gen + 1 \in Gens /\ gen <= changes
<1>1. Cardinality(Pending) # 0  BY PendingFinite, FS_EmptySet
<1>2. gen \in Nat /\ changes \in Nat /\ changes <= MaxChanges /\ MaxChanges \in Nat
  BY QueueAssumption DEF Wf, TypeOK, Gens
<1>3. gen + Cardinality(Pending) = changes + 1  BY DEF Wf
<1>4. gen <= changes  BY <1>1, <1>2, <1>3, PendingFinite
<1>5. QED  BY <1>2, <1>4 DEF Gens

-----------------------------------------------------------------------------
(* Wf. *)

\* Generations are numbers.
LEMMA GenType == TypeOK => gen \in Gens /\ gen \in Int /\ gen + 1 > gen
<1>1. TypeOK => gen \in Gens  BY DEF TypeOK
<1>2. \A g \in Gens : g \in Int /\ g + 1 > g  BY QueueAssumption DEF Gens
<1>3. QED  BY <1>1, <1>2

\* The parts of the state that the steps of a worker leave as they are.
LEMMA WorkerStepFrame ==
    ASSUME NEW t \in Tasks, WorkerStep(t)
    PROVE  UNCHANGED <<apart, gen, concurrency, members, born, save, puts, changes>>
BY DEF WorkerStep, StartWorker, Get, TakeSentinel, SkipDuplicate, TakeJob, TakeSlot, EndJob,
       WorkerFrame, poolVars, queueVars

\* A task that takes a step exists.
LEMMA StepIsBorn ==
    ASSUME Wf, NEW t \in Tasks, WorkerStep(t)
    PROVE  pc[t] \in {"new", "get", "slot", "run"} /\ t <= born
<1>1. pc[t] \in {"new", "get", "slot", "run"}
  BY DEF WorkerStep, StartWorker, Get, TakeSentinel, SkipDuplicate, TakeJob, TakeSlot, EndJob
<1>2. t \in Int /\ born \in Int  BY TaskBound DEF Tasks, Wf, TypeOK
<1>3. QED  BY <1>1, <1>2 DEF Wf

\* The initial states are well formed.
LEMMA WfInit == Init => Wf
<1> SUFFICES ASSUME Init PROVE Wf  OBVIOUS
<1>1. Pending = {}  BY DEF Init, Pending, IdleSave
<1>2. InitialSize \in 1..Biggest /\ Biggest \in Nat /\ 1 \in Gens  BY QueueAssumption DEF Gens
<1>3. InitialSize <= Biggest * (MaxChanges + 1) /\ InitialSize <= Biggest * 1
  BY <1>2, TaskBound
<1>4. TypeOK
  <2>1. \A s \in Savers : save[s] \in [pc : {"idle", "gather"}, want : Sizes \cup {0}, waits : SUBSET Tasks]
    BY DEF Init, IdleSave
  <2>2. save \in [Savers -> [pc : {"idle", "gather"}, want : Sizes \cup {0}, waits : SUBSET Tasks]]
    BY <2>1 DEF Init
  <2>3. born \in 0..(Biggest * (MaxChanges + 1)) /\ members \subseteq 1..born
    BY <1>2, <1>3, TaskBound DEF Init
  <2>4. slots \in [Gens -> 0..Biggest] /\ entries \in [Gens -> Seq(Jobs \cup {Stop})]
        /\ unfinished \in [Gens -> Nat]
    BY <1>2 DEF Init
  <2>5. QED  BY <1>2, <2>2, <2>3, <2>4, QueueAssumption DEF Init, TypeOK
<1>5. born <= Biggest * gen  BY <1>3 DEF Init
<1>6. \A g \in Gens : g > gen => entries[g] = <<>> /\ unfinished[g] = 0 /\ slots[g] = 0
  BY DEF Init, Gens
<1>7. \A t \in Tasks : on[t] <= gen /\ (t > born => pc[t] = "unborn")
  BY <1>2, TaskBound DEF Init, Tasks
<1>8. QED  BY <1>1, <1>4, <1>5, <1>6, <1>7, FS_EmptySet DEF Wf, Init

\* What every step but a change preserves once it has been typed.
LEMMA WfKept ==
    ASSUME Wf, TypeOK', UNCHANGED <<gen, born, save, changes>>,
           \A g \in Gens : g > gen => UNCHANGED <<entries[g], unfinished[g], slots[g]>>,
           \A t \in Tasks : on'[t] = on[t] \/ on'[t] = gen,
           \A t \in Tasks : t > born => pc'[t] = pc[t]
    PROVE  Wf'
<1>1. Pending' = Pending  BY DEF Pending
<1>2. gen \in Int /\ gen' = gen  BY QueueAssumption DEF Wf, TypeOK, Gens
<1>3. \A t \in Tasks : on'[t] <= gen'  BY <1>2 DEF Wf
<1>4. QED  BY <1>1, <1>2, <1>3 DEF Wf

\* An entry taken from a queue: it is an entry, and a queue remains.
LEMMA GetType ==
    ASSUME TypeOK, NEW t \in Tasks, Get(t)
    PROVE  /\ entries' \in [Gens -> Seq(Jobs \cup {Stop})]
           /\ on[t] \in Gens
           /\ entries[on[t]] \in Seq(Jobs \cup {Stop})
           /\ Head(entries[on[t]]) \in Jobs \cup {Stop}
           /\ Len(entries'[on[t]]) = Len(entries[on[t]]) - 1
           /\ \A g \in Gens : g # on[t] => entries'[g] = entries[g]
<1>1. on[t] \in Gens /\ entries[on[t]] \in Seq(Jobs \cup {Stop})  BY DEF TypeOK
<1>2. entries[on[t]] # <<>>  BY DEF Get
<1>3. Head(entries[on[t]]) \in Jobs \cup {Stop} /\ Tail(entries[on[t]]) \in Seq(Jobs \cup {Stop})
      /\ Len(Tail(entries[on[t]])) = Len(entries[on[t]]) - 1
  BY <1>1, <1>2, HeadTailProperties
<1>4. entries' = [entries EXCEPT ![on[t]] = Tail(entries[on[t]])]  BY DEF Get
<1>5. QED  BY <1>1, <1>3, <1>4 DEF TypeOK

\* The end of a round: the worker goes back to the current queue or dies.
LEMMA NextRoundType ==
    ASSUME TypeOK, NEW t \in Tasks, NextRound(t)
    PROVE  /\ unfinished' \in [Gens -> Nat]
           /\ \A g \in Gens : g # gen => unfinished'[g] = unfinished[g]
           /\ pc' = [pc EXCEPT ![t] = pc'[t]] /\ pc'[t] \in {"get", "ended"}
           /\ pc' \in [Tasks -> {"unborn", "new", "get", "slot", "run", "ended"}]
           /\ on' = [on EXCEPT ![t] = gen] /\ on' \in [Tasks -> Gens]
           /\ job' = [job EXCEPT ![t] = NoJob] /\ job' \in [Tasks -> Jobs \cup {NoJob}]
<1>1. /\ on' = [on EXCEPT ![t] = gen] /\ on' \in [Tasks -> Gens]
      /\ job' = [job EXCEPT ![t] = NoJob] /\ job' \in [Tasks -> Jobs \cup {NoJob}]
  BY DEF NextRound, TypeOK
<1>2. CASE unfinished[gen] > 0 /\ unfinished' = [unfinished EXCEPT ![gen] = @ - 1]
           /\ pc' = [pc EXCEPT ![t] = "get"]
  <2>1. unfinished[gen] - 1 \in Nat  BY <1>2 DEF TypeOK
  <2>2. QED  BY <1>1, <1>2, <2>1 DEF TypeOK
<1>3. CASE unfinished[gen] = 0 /\ pc' = [pc EXCEPT ![t] = "ended"] /\ UNCHANGED unfinished
  BY <1>1, <1>3 DEF TypeOK
<1>4. QED  BY <1>2, <1>3 DEF NextRound

\* ... which concerns the task and the current queue only.
LEMMA NextRoundRest ==
    ASSUME TypeOK, NEW t \in Tasks, NextRound(t)
    PROVE  /\ unfinished' \in [Gens -> Nat]
           /\ pc' \in [Tasks -> {"unborn", "new", "get", "slot", "run", "ended"}]
           /\ on' \in [Tasks -> Gens] /\ job' \in [Tasks -> Jobs \cup {NoJob}]
           /\ \A g \in Gens : g # gen => unfinished'[g] = unfinished[g]
           /\ \A u \in Tasks : on'[u] = on[u] \/ on'[u] = gen
           /\ \A u \in Tasks : u # t => pc'[u] = pc[u] /\ job'[u] = job[u] /\ on'[u] = on[u]
           /\ pc'[t] \in {"get", "ended"} /\ on'[t] = gen /\ job'[t] = NoJob
BY NextRoundType DEF TypeOK

\* Semaphores: a free slot is taken or a taken one is released.
LEMMA SlotTaken ==
    ASSUME TypeOK, NEW g \in Gens, slots[g] > 0, slots' = [slots EXCEPT ![g] = @ - 1]
    PROVE  slots' \in [Gens -> 0..Biggest]
BY QueueAssumption DEF TypeOK

LEMMA SlotReleased ==
    ASSUME TypeOK, Slots, NEW t \in Tasks, pc[t] = "run", slots' = [slots EXCEPT ![on[t]] = @ + 1]
    PROVE  slots' \in [Gens -> 0..Biggest]
<1>1. on[t] \in Gens /\ slots \in [Gens -> 0..Biggest] /\ Biggest \in Nat
  BY QueueAssumption DEF TypeOK
<1>2. t \in Under(on[t]) /\ Under(on[t]) \in SUBSET Tasks  BY <1>1 DEF Under
<1>3. Cardinality(Under(on[t])) # 0 /\ Cardinality(Under(on[t])) \in Nat
  BY <1>2, TasksFinite, FS_EmptySet
<1>4. slots[on[t]] + 1 <= Biggest  BY <1>1, <1>3 DEF Slots
<1>5. QED  BY <1>1, <1>4

\* The steps of a worker preserve Wf.
LEMMA WfWorker ==
    ASSUME Wf, Held, Slots, NEW t \in Tasks, WorkerStep(t)
    PROVE  Wf'
<1> DEFINE PCs == {"unborn", "new", "get", "slot", "run", "ended"}
<1>1. TypeOK  BY DEF Wf
<1>2. UNCHANGED <<gen, concurrency, members, born, save, puts, changes>>
  BY WorkerStepFrame
<1>3. gen \in Gens /\ gen \in Int /\ on[t] \in Gens /\ on[t] \in Int /\ on[t] <= gen
  BY <1>1, QueueAssumption DEF Wf, TypeOK, Gens
<1>4. \A g \in Gens : g > gen => g # gen /\ g # on[t]  BY <1>3 DEF Gens
<1>5. t <= born  BY StepIsBorn
<1>6. SUFFICES /\ entries' \in [Gens -> Seq(Jobs \cup {Stop})]
               /\ unfinished' \in [Gens -> Nat]
               /\ slots' \in [Gens -> 0..Biggest]
               /\ running' \subseteq Jobs
               /\ pc' \in [Tasks -> PCs]
               /\ on' \in [Tasks -> Gens]
               /\ job' \in [Tasks -> Jobs \cup {NoJob}]
               /\ \A g \in Gens : g > gen => UNCHANGED <<entries[g], unfinished[g], slots[g]>>
               /\ \A u \in Tasks : on'[u] = on[u] \/ on'[u] = gen
               /\ \A u \in Tasks : u # t => pc'[u] = pc[u]
  <2> SUFFICES TypeOK' /\ \A u \in Tasks : u > born => pc'[u] = pc[u]
    BY <1>2, WfKept
  <2>1. \A u \in Tasks : u > born => u # t
    BY <1>5, TaskBound DEF Tasks, Wf, TypeOK
  <2>2. TypeOK'  BY <1>1, <1>2 DEF TypeOK
  <2>3. QED  BY <2>1, <2>2
<1>7. CASE StartWorker(t)
  BY <1>1, <1>3, <1>7 DEF StartWorker, TypeOK, queueVars
<1>8. CASE TakeSentinel(t)
  BY <1>1, <1>3, <1>4, <1>8, GetType DEF TakeSentinel, TypeOK
<1>9. CASE SkipDuplicate(t)
  <2>1. Get(t) /\ NextRound(t) /\ UNCHANGED <<slots, running>>  BY <1>9 DEF SkipDuplicate
  <2>2. /\ unfinished' \in [Gens -> Nat] /\ pc' \in [Tasks -> PCs] /\ on' \in [Tasks -> Gens]
        /\ job' \in [Tasks -> Jobs \cup {NoJob}]
        /\ \A g \in Gens : g # gen => unfinished'[g] = unfinished[g]
        /\ \A u \in Tasks : on'[u] = on[u] \/ on'[u] = gen
        /\ \A u \in Tasks : u # t => pc'[u] = pc[u]
    BY <1>1, <2>1, NextRoundRest
  <2>3. QED  BY <1>1, <1>4, <2>1, <2>2, GetType DEF TypeOK
<1>10. CASE TakeJob(t)
  <2>1. Get(t) /\ Head(entries[on[t]]) \in Jobs  BY <1>10 DEF TakeJob
  <2>2. running' \subseteq Jobs /\ on' = [on EXCEPT ![t] = gen] /\ UNCHANGED unfinished
        /\ job' = [job EXCEPT ![t] = Head(entries[on[t]])]
    BY <1>1, <1>10, <2>1 DEF TakeJob, TypeOK
  <2>3. pc' = [pc EXCEPT ![t] = "run"] \/ pc' = [pc EXCEPT ![t] = "slot"]
    BY <1>10 DEF TakeJob
  <2>4. slots' \in [Gens -> 0..Biggest] /\ \A g \in Gens : g # gen => slots'[g] = slots[g]
    <3>1. CASE slots[gen] > 0 /\ slots' = [slots EXCEPT ![gen] = @ - 1]
      BY <1>1, <1>3, <3>1, SlotTaken DEF TypeOK
    <3>2. CASE UNCHANGED slots  BY <1>1, <3>2 DEF TypeOK
    <3>3. QED  BY <1>10, <3>1, <3>2 DEF TakeJob
  <2>5. on' \in [Tasks -> Gens] /\ job' \in [Tasks -> Jobs \cup {NoJob}] /\ pc' \in [Tasks -> PCs]
    BY <1>1, <1>3, <2>1, <2>2, <2>3 DEF TypeOK
  <2>6. QED  BY <1>1, <1>3, <1>4, <2>1, <2>2, <2>3, <2>4, <2>5, GetType DEF TypeOK
<1>11. CASE TakeSlot(t)
  <2>1. slots' \in [Gens -> 0..Biggest]  BY <1>1, <1>3, <1>11, SlotTaken DEF TakeSlot
  <2>2. QED  BY <1>1, <1>3, <1>4, <1>11, <2>1 DEF TakeSlot, TypeOK, queueVars
<1>12. CASE EndJob(t)
  <2>1. NextRound(t) /\ UNCHANGED entries  BY <1>12 DEF EndJob
  <2>2. slots' \in [Gens -> 0..Biggest]  BY <1>1, <1>12, SlotReleased DEF EndJob
  <2>3. slots' = [slots EXCEPT ![on[t]] = @ + 1] /\ running' \subseteq Jobs
    BY <1>1, <1>12 DEF EndJob, TypeOK
  <2>4. /\ unfinished' \in [Gens -> Nat] /\ pc' \in [Tasks -> PCs] /\ on' \in [Tasks -> Gens]
        /\ job' \in [Tasks -> Jobs \cup {NoJob}]
        /\ \A g \in Gens : g # gen => unfinished'[g] = unfinished[g]
        /\ \A u \in Tasks : on'[u] = on[u] \/ on'[u] = gen
        /\ \A u \in Tasks : u # t => pc'[u] = pc[u]
    BY <1>1, <2>1, NextRoundRest
  <2>5. \A g \in Gens : g > gen => slots'[g] = slots[g]  BY <1>1, <1>4, <2>3 DEF TypeOK
  <2>6. QED  BY <1>1, <1>4, <2>1, <2>2, <2>3, <2>4, <2>5 DEF TypeOK
<1>13. QED  BY <1>7, <1>8, <1>9, <1>10, <1>11, <1>12 DEF WorkerStep

\* So do the submissions.
LEMMA WfEnqueue ==
    ASSUME Wf, NEW j \in Jobs, Enqueue(j)
    PROVE  Wf'
<1>1. TypeOK /\ gen \in Gens /\ gen \in Int  BY GenType DEF Wf
<1>2. UNCHANGED <<gen, slots, concurrency, members, born, running, pc, on, job, save, changes>>
  BY DEF Enqueue, poolVars, workerVars
<1>3. /\ entries' = [entries EXCEPT ![gen] = Append(@, j)]
      /\ unfinished' = [unfinished EXCEPT ![gen] = @ + 1]
      /\ puts < MaxPuts /\ puts' = puts + 1
  BY DEF Enqueue
<1>4. Append(entries[gen], j) \in Seq(Jobs \cup {Stop})  BY <1>1, AppendProperties DEF TypeOK
<1>5. entries' \in [Gens -> Seq(Jobs \cup {Stop})] /\ unfinished' \in [Gens -> Nat]
  BY <1>1, <1>3, <1>4 DEF TypeOK
<1>6. puts' \in 0..MaxPuts  BY <1>1, <1>3, QueueAssumption DEF TypeOK
<1>7. TypeOK'  BY <1>1, <1>2, <1>5, <1>6 DEF TypeOK
<1>8. \A g \in Gens : g > gen => g # gen  BY <1>1
<1>9. \A g \in Gens : g > gen => UNCHANGED <<entries[g], unfinished[g], slots[g]>>
  BY <1>1, <1>2, <1>3, <1>8 DEF TypeOK
<1>10. QED  BY <1>2, <1>7, <1>9, WfKept

\* Of a change, its beginning ...
LEMMA WfBegin ==
    ASSUME Wf, NEW s \in Savers, NEW n \in Sizes, BeginChange(s, n)
    PROVE  Wf'
<1> DEFINE k == Cardinality(members)
           r == [pc |-> "gather", want |-> n, waits |-> members]
<1>1. TypeOK /\ gen \in Gens /\ gen \in Int  BY GenType DEF Wf
<1>2. UNCHANGED <<gen, slots, concurrency, members, born, running, pc, on, job, puts>>
  BY DEF BeginChange, poolVars, workerVars
<1>3. /\ save[s].pc = "idle" /\ changes < MaxChanges /\ changes' = changes + 1
      /\ entries' = [entries EXCEPT ![gen] = @ \o Sentinels(k)]
      /\ unfinished' = [unfinished EXCEPT ![gen] = @ + k]
      /\ save' = [save EXCEPT ![s] = r]
  BY DEF BeginChange
<1>4. members \in SUBSET Tasks  BY <1>1, TaskBound DEF TypeOK, Tasks
<1>5. k \in Nat  BY <1>4, TasksFinite
<1>6. entries[gen] \o Sentinels(k) \in Seq(Jobs \cup {Stop})
  BY <1>1, <1>5, SentinelsLength, ConcatProperties DEF TypeOK
<1>7. entries' \in [Gens -> Seq(Jobs \cup {Stop})] /\ unfinished' \in [Gens -> Nat]
  BY <1>1, <1>3, <1>5, <1>6 DEF TypeOK
<1>8. changes' \in 0..MaxChanges  BY <1>1, <1>3, QueueAssumption DEF TypeOK
<1>9. save' \in [Savers -> [pc : {"idle", "gather"}, want : Sizes \cup {0}, waits : SUBSET Tasks]]
  BY <1>1, <1>3, <1>4 DEF TypeOK
<1>10. TypeOK'  BY <1>1, <1>2, <1>7, <1>8, <1>9 DEF TypeOK
<1>11. Pending' = Pending \cup {s} /\ Cardinality(Pending') = Cardinality(Pending) + 1
  BY <1>3, PendingGrows
<1>12. gen' + Cardinality(Pending') = changes' + 1
  <2>1. gen + Cardinality(Pending) = changes + 1 /\ changes \in Int  BY <1>1 DEF Wf, TypeOK
  <2>2. QED  BY <1>1, <1>2, <1>3, <1>11, <2>1, PendingFinite
<1>13. \A u \in Pending' : save'[u].want \in Sizes
  BY <1>1, <1>3, <1>11 DEF Wf, TypeOK, Pending
<1>14. \A g \in Gens : g > gen => g # gen  BY <1>1
<1>15. \A g \in Gens : g > gen' => entries'[g] = <<>> /\ unfinished'[g] = 0 /\ slots'[g] = 0
  BY <1>1, <1>2, <1>3, <1>14 DEF Wf, TypeOK
<1>16. QED  BY <1>2, <1>10, <1>12, <1>13, <1>15 DEF Wf

\* ... and its end: the pool gets the next generation.
LEMMA WfEnd ==
    ASSUME Wf, NEW s \in Savers, EndChange(s)
    PROVE  Wf'
<1> DEFINE n == save[s].want
           new == (born + 1)..(born + n)
<1>1. TypeOK /\ gen \in Gens /\ gen \in Int  BY GenType DEF Wf
<1>2. /\ save[s].pc = "gather" /\ gen' = gen + 1 /\ slots' = [slots EXCEPT ![gen + 1] = n]
      /\ concurrency' = n /\ members' = new /\ born' = born + n
      /\ pc' = [t \in Tasks |-> IF t \in new THEN "new" ELSE pc[t]]
      /\ save' = [save EXCEPT ![s] = IdleSave]
      /\ UNCHANGED <<entries, unfinished, running, on, job, puts, changes>>
  BY DEF EndChange
<1>3. s \in Pending  BY <1>2 DEF Pending
<1>4. gen + 1 \in Gens /\ gen <= changes  BY <1>3, RoomForChange
<1>5. n \in Sizes /\ n \in 1..Biggest /\ n \in Int /\ Biggest \in Nat
  <2>1. n \in Sizes  BY <1>3, Zenon DEF Wf
  <2>2. Sizes \subseteq 1..Biggest /\ Biggest \in Nat  BY QueueAssumption
  <2> HIDE DEF n
  <2>3. QED  BY <2>1, <2>2
<1>6. born \in Nat /\ born <= Biggest * gen  BY <1>1, TaskBound DEF Wf, TypeOK
<1>7. born' <= Biggest * gen' /\ born' \in 0..(Biggest * (MaxChanges + 1))
  <2>1. Biggest * (gen + 1) = Biggest * gen + Biggest /\ Biggest * gen \in Nat
        /\ Biggest * (gen + 1) <= Biggest * (MaxChanges + 1)
    BY <1>1, <1>4, TaskBound
  <2> HIDE DEF n
  <2>2. QED  BY <1>2, <1>5, <1>6, <2>1, TaskBound
<1>8. members' \subseteq 1..born'  BY <1>2, <1>5, <1>6
<1>9. slots' \in [Gens -> 0..Biggest]  BY <1>1, <1>2, <1>4, <1>5 DEF TypeOK
<1>10. pc' \in [Tasks -> {"unborn", "new", "get", "slot", "run", "ended"}]
  BY <1>1, <1>2 DEF TypeOK
<1>11. save' \in [Savers -> [pc : {"idle", "gather"}, want : Sizes \cup {0}, waits : SUBSET Tasks]]
  BY <1>1, <1>2 DEF TypeOK, IdleSave
<1>12. TypeOK'
  BY <1>1, <1>2, <1>4, <1>5, <1>7, <1>8, <1>9, <1>10, <1>11 DEF TypeOK
<1>13. Pending' = Pending \ {s} /\ Cardinality(Pending') = Cardinality(Pending) - 1
  BY <1>2, PendingShrinks
<1>14. gen' + Cardinality(Pending') = changes' + 1
  <2>1. gen + Cardinality(Pending) = changes + 1 /\ changes \in Int  BY <1>1 DEF Wf, TypeOK
  <2>2. QED  BY <1>1, <1>2, <1>13, <2>1, PendingFinite
<1>15. \A u \in Pending' : save'[u].want \in Sizes
  BY <1>1, <1>2, <1>13 DEF Wf, TypeOK
<1>16. \A g \in Gens : g > gen' => entries'[g] = <<>> /\ unfinished'[g] = 0 /\ slots'[g] = 0
  <2>1. \A g \in Gens : g > gen + 1 => g > gen /\ g # gen + 1
    BY <1>1, QueueAssumption DEF Gens
  <2>2. QED  BY <1>1, <1>2, <2>1 DEF Wf, TypeOK
<1>17. \A t \in Tasks : on'[t] <= gen'
  <2>1. \A t \in Tasks : on[t] \in Gens /\ on[t] <= gen  BY <1>1 DEF Wf, TypeOK
  <2>2. \A g \in Gens : g <= gen => g <= gen + 1  BY <1>1, QueueAssumption DEF Gens
  <2>3. on' = on /\ gen' = gen + 1  BY <1>2
  <2>4. QED  BY <2>1, <2>2, <2>3
<1>18. \A t \in Tasks : t > born' => pc'[t] = "unborn"
  <2>1. \A t \in Tasks : t > born + n => t > born /\ t \notin new
    BY <1>5, <1>6, TaskBound DEF Tasks
  <2>2. QED  BY <1>2, <2>1 DEF Wf
<1>19. QED  BY <1>7, <1>12, <1>14, <1>15, <1>16, <1>17, <1>18 DEF Wf

\* Wf is preserved by every step.
LEMMA WfNext == Wf /\ Held /\ Slots /\ [Next]_vars => Wf'
<1> SUFFICES ASSUME Wf, Held, Slots, [Next]_vars PROVE Wf'  OBVIOUS
<1>1. CASE UNCHANGED vars
  <2>1. UNCHANGED <<gen, entries, unfinished, slots, concurrency, members, born, running, pc, on,
                    job, save, puts, changes>>
    BY <1>1 DEF vars, queueVars, poolVars, workerVars
  <2>2. TypeOK'  BY <2>1 DEF Wf, TypeOK
  <2>3. QED  BY <2>1, <2>2, WfKept
<1>2. QED  BY <1>1, WfWorker, WfEnqueue, WfBegin, WfEnd DEF Next

-----------------------------------------------------------------------------
(* Held. *)

\* At the start nobody has a job.
LEMMA HeldInit == Init => Held
BY FS_EmptySet DEF Init, Held, Busy

\* What leaves the busy tasks and their jobs alone preserves Held.
LEMMA HeldKept ==
    ASSUME Held, UNCHANGED <<job, running>>, Busy' = Busy
    PROVE  Held'
BY DEF Held

\* A task that becomes busy with a job that nobody had ...
LEMMA HeldTakes ==
    ASSUME Held, NEW t \in Tasks, t \notin Busy, NEW j \in Jobs, j \notin running,
           job' = [job EXCEPT ![t] = j], job \in [Tasks -> Jobs \cup {NoJob}],
           running' = running \cup {j}, Busy' = Busy \cup {t}
    PROVE  Held'
<1>1. j # NoJob  BY QueueAssumption
<1>2. job'[t] = j /\ \A u \in Tasks : u # t => job'[u] = job[u]  OBVIOUS
<1>3. \A u \in Busy : u # t /\ u \in Tasks /\ job[u] # j  BY DEF Held, Busy
<1>4. IsFiniteSet(running')  BY FS_AddElement DEF Held
<1>5. \A u \in Tasks : u \in Busy' <=> job'[u] # NoJob  BY <1>1, <1>2 DEF Held
<1>6. \A u \in Busy' : job'[u] \in running'  BY <1>2, <1>3 DEF Held
<1>7. \A i \in running' : \E u \in Busy' : job'[u] = i  BY <1>2, <1>3 DEF Held
<1>8. \A u, v \in Busy' : job'[u] = job'[v] => u = v  BY <1>2, <1>3 DEF Held
<1>9. QED  BY <1>4, <1>5, <1>6, <1>7, <1>8 DEF Held

\* ... and one that is done with it.
LEMMA HeldReleases ==
    ASSUME Held, NEW t \in Busy,
           job' = [job EXCEPT ![t] = NoJob], job \in [Tasks -> Jobs \cup {NoJob}],
           running' = running \ {job[t]}, Busy' = Busy \ {t}
    PROVE  Held'
<1>1. t \in Tasks /\ job'[t] = NoJob /\ \A u \in Tasks : u # t => job'[u] = job[u]
  BY DEF Busy
<1>2. \A u \in Busy : u # t => u \in Tasks /\ job[u] # job[t]  BY DEF Held, Busy
<1>3. IsFiniteSet(running')  BY FS_RemoveElement DEF Held
<1>4. \A u \in Tasks : u \in Busy' <=> job'[u] # NoJob  BY <1>1 DEF Held
<1>5. \A u \in Busy' : job'[u] \in running'  BY <1>1, <1>2 DEF Held
<1>6. \A i \in running' : \E u \in Busy' : job'[u] = i  BY <1>1, <1>2 DEF Held
<1>7. \A u, v \in Busy' : job'[u] = job'[v] => u = v  BY <1>1, <1>2 DEF Held
<1>8. QED  BY <1>3, <1>4, <1>5, <1>6, <1>7 DEF Held

\* The steps of a worker preserve Held.
LEMMA HeldWorker ==
    ASSUME Wf, Held, NEW t \in Tasks, WorkerStep(t)
    PROVE  Held'
<1>1. TypeOK /\ pc \in [Tasks -> {"unborn", "new", "get", "slot", "run", "ended"}]
      /\ job \in [Tasks -> Jobs \cup {NoJob}]
  BY DEF Wf, TypeOK
<1>2. CASE StartWorker(t)
  <2>1. Busy' = Busy  BY <1>1, <1>2 DEF StartWorker, Busy
  <2>2. QED  BY <1>2, <2>1, HeldKept DEF StartWorker
<1>3. CASE TakeSentinel(t)
  <2>1. Busy' = Busy  BY <1>1, <1>3 DEF TakeSentinel, Get, Busy
  <2>2. QED  BY <1>3, <2>1, HeldKept DEF TakeSentinel
<1>4. CASE SkipDuplicate(t)
  <2>1. pc[t] = "get" /\ NextRound(t) /\ UNCHANGED running  BY <1>4 DEF SkipDuplicate, Get
  <2>2. t \notin Busy /\ job[t] = NoJob  BY <2>1 DEF Held, Busy
  <2>3. job' = job  BY <1>1, <2>1, <2>2, NextRoundType
  <2>4. Busy' = Busy  BY <1>1, <2>1, <2>2, NextRoundRest DEF Busy
  <2>5. QED  BY <2>1, <2>3, <2>4, HeldKept
<1>5. CASE TakeJob(t)
  <2> DEFINE j == Head(entries[on[t]])
  <2>1. pc[t] = "get" /\ j \in Jobs /\ j \notin running /\ running' = running \cup {j}
        /\ job' = [job EXCEPT ![t] = j]
    BY <1>5 DEF TakeJob, Get, Duplicate
  <2>2. t \notin Busy  BY <2>1 DEF Busy
  <2>3. pc' = [pc EXCEPT ![t] = "run"] \/ pc' = [pc EXCEPT ![t] = "slot"]
    BY <1>5 DEF TakeJob
  <2>4. Busy' = Busy \cup {t}  BY <1>1, <2>3 DEF Busy
  <2> HIDE DEF j
  <2>5. QED  BY <1>1, <2>1, <2>2, <2>4, HeldTakes
<1>6. CASE TakeSlot(t)
  <2>1. Busy' = Busy  BY <1>1, <1>6 DEF TakeSlot, Busy
  <2>2. QED  BY <1>6, <2>1, HeldKept DEF TakeSlot
<1>7. CASE EndJob(t)
  <2>1. pc[t] = "run" /\ NextRound(t) /\ running' = running \ {job[t]}  BY <1>7 DEF EndJob
  <2>2. t \in Busy  BY <2>1 DEF Busy
  <2>3. job' = [job EXCEPT ![t] = NoJob]  BY <1>1, <2>1, NextRoundType
  <2>4. Busy' = Busy \ {t}  BY <1>1, <2>1, NextRoundRest DEF Busy
  <2>5. QED  BY <1>1, <2>1, <2>2, <2>3, <2>4, HeldReleases
<1>8. QED  BY <1>2, <1>3, <1>4, <1>5, <1>6, <1>7 DEF WorkerStep

\* Held is preserved by every step: a change of the pool brings idle tasks only.
LEMMA HeldNext == Wf /\ Held /\ [Next]_vars => Held'
<1> SUFFICES ASSUME Wf, Held, [Next]_vars PROVE Held'  OBVIOUS
<1>1. ASSUME UNCHANGED <<pc, job, running>> PROVE Held'
  BY <1>1, HeldKept DEF Busy
<1>2. ASSUME NEW s \in Savers, EndChange(s) PROVE Held'
  <2>1. UNCHANGED <<job, running>>  BY <1>2 DEF EndChange
  <2>2. \A t \in Tasks : pc'[t] # pc[t] => pc[t] = "unborn" /\ pc'[t] = "new"
    <3>1. \A t \in Tasks : pc'[t] = IF t \in (born + 1)..(born + save[s].want) THEN "new" ELSE pc[t]
      BY <1>2 DEF EndChange
    <3>2. \A t \in Tasks : t \in (born + 1)..(born + save[s].want) => t > born
      <4>1. born \in Int  BY TaskBound DEF Wf, TypeOK
      <4>2. QED  BY <4>1, TaskBound DEF Tasks
    <3>3. QED  BY <3>1, <3>2, Zenon DEF Wf
  <2>3. Busy' = Busy  BY <2>2 DEF Busy
  <2>4. QED  BY <2>1, <2>3, HeldKept
<1>3. ASSUME NEW j \in Jobs, Enqueue(j) PROVE Held'
  BY <1>1, <1>3 DEF Enqueue, workerVars
<1>4. ASSUME NEW s \in Savers, NEW n \in Sizes, BeginChange(s, n) PROVE Held'
  BY <1>1, <1>4 DEF BeginChange, workerVars
<1>5. CASE UNCHANGED vars  BY <1>1, <1>5 DEF vars, workerVars
<1>6. QED  BY <1>2, <1>3, <1>4, <1>5, HeldWorker DEF Next

-----------------------------------------------------------------------------
(* Slots. *)

\* The tasks under a semaphore are finitely many.
LEMMA UnderFinite == \A g : IsFiniteSet(Under(g)) /\ Cardinality(Under(g)) \in Nat
BY TasksFinite DEF Under

\* At the start every slot of the first semaphore is free.
LEMMA SlotsInit == Init => Slots
<1> SUFFICES ASSUME Init PROVE Slots  OBVIOUS
<1>1. \A g : Under(g) = {}  BY DEF Init, Under
<1>2. \A g \in Gens : slots[g] \in 0..Biggest  BY QueueAssumption DEF Init
<1>3. slots[gen] = concurrency /\ slots[gen] \in Nat
  BY QueueAssumption DEF Init, Gens
<1>4. \A g : Cardinality(Under(g)) = 0  BY <1>1, FS_EmptySet
<1>5. QED  BY <1>2, <1>3, <1>4, QueueAssumption DEF Slots

\* What leaves the semaphores and the tasks under them alone preserves Slots.
LEMMA SlotsKept ==
    ASSUME Slots, UNCHANGED <<gen, slots, concurrency>>, \A g \in Gens : Under(g)' = Under(g), gen \in Gens
    PROVE  Slots'
BY DEF Slots

\* A task comes under a semaphore by taking one of its slots ...
LEMMA SlotsTake ==
    ASSUME Wf, Slots, NEW t \in Tasks, NEW g \in Gens, slots[g] > 0,
           slots' = [slots EXCEPT ![g] = @ - 1], UNCHANGED <<gen, concurrency>>,
           t \notin Under(g), Under(g)' = Under(g) \cup {t},
           \A h \in Gens : h # g => Under(h)' = Under(h)
    PROVE  Slots'
<1>1. slots \in [Gens -> 0..Biggest] /\ gen \in Gens /\ Biggest \in Nat
  BY QueueAssumption DEF Wf, TypeOK
<1>2. Cardinality(Under(g)') = Cardinality(Under(g)) + 1  BY UnderFinite, FS_AddElement
<1>3. slots'[g] + Cardinality(Under(g)') = slots[g] + Cardinality(Under(g))
  BY <1>1, <1>2, UnderFinite
<1>4. \A h \in Gens : slots'[h] + Cardinality(Under(h)') = slots[h] + Cardinality(Under(h))
  BY <1>1, <1>3
<1>5. QED  BY <1>1, <1>4 DEF Slots

\* ... and leaves it by giving the slot back.
LEMMA SlotsGive ==
    ASSUME Wf, Slots, NEW t \in Tasks, NEW g \in Gens,
           slots' = [slots EXCEPT ![g] = @ + 1], UNCHANGED <<gen, concurrency>>,
           t \in Under(g), Under(g)' = Under(g) \ {t},
           \A h \in Gens : h # g => Under(h)' = Under(h)
    PROVE  Slots'
<1>1. slots \in [Gens -> 0..Biggest] /\ gen \in Gens /\ Biggest \in Nat
  BY QueueAssumption DEF Wf, TypeOK
<1>2. Cardinality(Under(g)') = Cardinality(Under(g)) - 1  BY UnderFinite, FS_RemoveElement
<1>3. slots'[g] + Cardinality(Under(g)') = slots[g] + Cardinality(Under(g))
  BY <1>1, <1>2, UnderFinite
<1>4. \A h \in Gens : slots'[h] + Cardinality(Under(h)') = slots[h] + Cardinality(Under(h))
  BY <1>1, <1>3
<1>5. QED  BY <1>1, <1>4 DEF Slots

\* The steps of a worker preserve Slots.
LEMMA SlotsWorker ==
    ASSUME Wf, Slots, NEW t \in Tasks, WorkerStep(t)
    PROVE  Slots'
<1>1. /\ TypeOK /\ gen \in Gens /\ on[t] \in Gens
      /\ pc \in [Tasks -> {"unborn", "new", "get", "slot", "run", "ended"}]
      /\ on \in [Tasks -> Gens]
  BY DEF Wf, TypeOK
<1>2. UNCHANGED <<gen, concurrency>>  BY WorkerStepFrame
<1>3. ASSUME pc[t] # "run", pc'[t] # "run", UNCHANGED slots,
             \A u \in Tasks : u # t => pc'[u] = pc[u] /\ on'[u] = on[u]
      PROVE  Slots'
  <2>1. \A g \in Gens : Under(g)' = Under(g)  BY <1>3 DEF Under
  <2>2. QED  BY <1>1, <1>2, <1>3, <2>1, SlotsKept
<1>4. CASE StartWorker(t)  BY <1>1, <1>3, <1>4 DEF StartWorker
<1>5. CASE TakeSentinel(t)  BY <1>1, <1>3, <1>5 DEF TakeSentinel, Get
<1>6. CASE SkipDuplicate(t)
  <2>1. pc[t] = "get" /\ NextRound(t) /\ UNCHANGED slots  BY <1>6 DEF SkipDuplicate, Get
  <2>2. QED  BY <1>1, <1>3, <2>1, NextRoundRest
<1>7. CASE TakeJob(t)
  <2>1. pc[t] = "get" /\ on' = [on EXCEPT ![t] = gen]  BY <1>7 DEF TakeJob, Get
  <2>2. CASE /\ slots[gen] > 0 /\ slots' = [slots EXCEPT ![gen] = @ - 1]
             /\ pc' = [pc EXCEPT ![t] = "run"]
    <3>1. t \notin Under(gen) /\ Under(gen)' = Under(gen) \cup {t}
      BY <1>1, <1>2, <2>1, <2>2 DEF Under
    <3>2. \A h \in Gens : h # gen => Under(h)' = Under(h)
      BY <1>1, <2>1, <2>2 DEF Under
    <3>3. QED  BY <1>1, <1>2, <2>2, <3>1, <3>2, SlotsTake
  <2>3. CASE UNCHANGED slots /\ pc' = [pc EXCEPT ![t] = "slot"]
    BY <1>1, <1>3, <2>1, <2>3
  <2>4. QED  BY <1>7, <2>2, <2>3 DEF TakeJob
<1>8. CASE TakeSlot(t)
  <2>1. /\ pc[t] = "slot" /\ slots[on[t]] > 0 /\ slots' = [slots EXCEPT ![on[t]] = @ - 1]
        /\ pc' = [pc EXCEPT ![t] = "run"] /\ UNCHANGED on
    BY <1>8 DEF TakeSlot
  <2>2. t \notin Under(on[t]) /\ Under(on[t])' = Under(on[t]) \cup {t}
    BY <1>1, <2>1 DEF Under
  <2>3. \A h \in Gens : h # on[t] => Under(h)' = Under(h)
    BY <1>1, <2>1 DEF Under
  <2>4. QED  BY <1>1, <1>2, <2>1, <2>2, <2>3, SlotsTake
<1>9. CASE EndJob(t)
  <2>1. pc[t] = "run" /\ slots' = [slots EXCEPT ![on[t]] = @ + 1] /\ NextRound(t)
    BY <1>9 DEF EndJob
  <2>2. pc'[t] # "run" /\ \A u \in Tasks : u # t => pc'[u] = pc[u] /\ on'[u] = on[u]
    BY <1>1, <2>1, NextRoundRest
  <2>3. PICK g \in Gens : g = on[t]  BY <1>1
  <2>4. t \in Under(g) /\ Under(g)' = Under(g) \ {t}
    BY <2>1, <2>2, <2>3 DEF Under
  <2>5. \A h \in Gens : h # g => Under(h)' = Under(h)
    BY <2>1, <2>2, <2>3 DEF Under
  <2>6. QED  BY <1>1, <1>2, <2>1, <2>3, <2>4, <2>5, SlotsGive
<1>10. QED  BY <1>4, <1>5, <1>6, <1>7, <1>8, <1>9 DEF WorkerStep

\* The end of a change makes a semaphore under which no task is yet.
LEMMA SlotsEnd ==
    ASSUME Wf, Slots, NEW s \in Savers, EndChange(s)
    PROVE  Slots'
<1> DEFINE n == save[s].want
<1>1. TypeOK /\ gen \in Gens /\ gen \in Int  BY GenType DEF Wf
<1>2. /\ save[s].pc = "gather" /\ gen' = gen + 1 /\ slots' = [slots EXCEPT ![gen + 1] = n]
      /\ concurrency' = n /\ UNCHANGED on
      /\ pc' = [t \in Tasks |-> IF t \in (born + 1)..(born + n) THEN "new" ELSE pc[t]]
  BY DEF EndChange
<1>3. s \in Pending  BY <1>2 DEF Pending
<1>4. PICK g \in Gens : g = gen + 1  BY <1>3, RoomForChange
<1>5. n \in Sizes  BY <1>3, Zenon DEF Wf
<1>6. \A i \in Sizes : i \in Nat /\ i <= Biggest  BY QueueAssumption
<1>7. \A t \in Tasks : pc'[t] = "run" <=> pc[t] = "run"
  <2>1. \A t \in Tasks : t \in (born + 1)..(born + n) => t > born
    <3>1. born \in Int  BY TaskBound DEF Wf, TypeOK
    <3>2. QED  BY <3>1, TaskBound DEF Tasks
  <2>2. \A t \in Tasks : t \in (born + 1)..(born + n) => pc[t] = "unborn"
    BY <2>1, Zenon DEF Wf
  <2>3. QED  BY <1>2, <2>2
<1>8. \A h \in Gens : Under(h)' = Under(h)  BY <1>2, <1>7 DEF Under
<1>9. Under(g) = {}
  <2>1. \A t \in Tasks : on[t] \in Gens /\ on[t] <= gen  BY <1>1 DEF Wf, TypeOK
  <2>2. \A h \in Gens : h <= gen => h # g  BY <1>1, <1>4, QueueAssumption DEF Gens
  <2>3. QED  BY <2>1, <2>2 DEF Under
<1>10. Cardinality(Under(g)') = 0  BY <1>8, <1>9, FS_EmptySet
<1> HIDE DEF n
<1>11. slots'[g] = n /\ \A h \in Gens : h # g => slots'[h] = slots[h]
  BY <1>1, <1>2, <1>4 DEF TypeOK
<1>12. \A h \in Gens : slots'[h] + Cardinality(Under(h)') <= Biggest
  <2>1. \A h \in Gens : h # g => slots'[h] + Cardinality(Under(h)') <= Biggest
    BY <1>8, <1>11 DEF Slots
  <2>2. slots'[g] + Cardinality(Under(g)') <= Biggest
    BY <1>5, <1>6, <1>10, <1>11
  <2>3. QED  BY <2>1, <2>2
<1>13. slots'[g] + Cardinality(Under(g)') = concurrency' /\ g = gen'
  BY <1>2, <1>4, <1>5, <1>6, <1>10, <1>11
<1>14. slots'[gen'] + Cardinality(Under(gen)') = concurrency'  BY <1>13
<1>15. QED  BY <1>12, <1>14 DEF Slots

\* Slots is preserved by every step.
LEMMA SlotsNext == Wf /\ Slots /\ [Next]_vars => Slots'
<1> SUFFICES ASSUME Wf, Slots, [Next]_vars PROVE Slots'  OBVIOUS
<1>1. ASSUME UNCHANGED <<gen, slots, concurrency, pc, on>> PROVE Slots'
  <2>1. \A g \in Gens : Under(g)' = Under(g)  BY <1>1 DEF Under
  <2>2. gen \in Gens  BY DEF Wf, TypeOK
  <2>3. QED  BY <1>1, <2>1, <2>2, SlotsKept
<1>2. ASSUME NEW j \in Jobs, Enqueue(j) PROVE Slots'
  BY <1>1, <1>2 DEF Enqueue, poolVars, workerVars
<1>3. ASSUME NEW s \in Savers, NEW n \in Sizes, BeginChange(s, n) PROVE Slots'
  BY <1>1, <1>3 DEF BeginChange, poolVars, workerVars
<1>4. CASE UNCHANGED vars  BY <1>1, <1>4 DEF vars, queueVars, poolVars, workerVars
<1>5. QED  BY <1>2, <1>3, <1>4, SlotsWorker, SlotsEnd DEF Next

-----------------------------------------------------------------------------
(* Calm. *)

\* At the start no change is pending and the queue is empty.
LEMMA CalmInit == Init => Calm
<1> SUFFICES ASSUME Init PROVE Calm  OBVIOUS
<1>1. Pending = {}  BY DEF Init, Pending, IdleSave
<1>2. AreMembers /\ AreCurrent  BY DEF Init, AreMembers, AreCurrent, Live
<1>3. Len(entries[gen]) = 0 /\ unfinished[gen] = 0 /\ Cardinality(running) = 0
  BY FS_EmptySet, QueueAssumption DEF Init, Gens
<1>4. QED  BY <1>1, <1>2, <1>3 DEF Calm, OneChange, WaitsForAll, IsCovered

\* The numbers that IsCovered compares.
LEMMA CoveredType ==
    ASSUME Wf, Held
    PROVE  /\ gen \in Gens /\ unfinished[gen] \in Nat
           /\ entries[gen] \in Seq(Jobs \cup {Stop}) /\ Len(entries[gen]) \in Nat
           /\ IsFiniteSet(running) /\ Cardinality(running) \in Nat
<1>1. gen \in Gens /\ unfinished[gen] \in Nat /\ entries[gen] \in Seq(Jobs \cup {Stop})
  BY DEF Wf, TypeOK
<1>2. IsFiniteSet(running) /\ Cardinality(running) \in Nat
  BY FS_CardinalityType DEF Held
<1>3. QED  BY <1>1, <1>2, LenProperties

\* The end of a round: the task counts down the current queue, or is gone.
LEMMA CoveredRound ==
    ASSUME Wf, NEW t \in Tasks, NextRound(t), UNCHANGED gen
    PROVE  \/ unfinished[gen] > 0 /\ unfinished'[gen'] = unfinished[gen] - 1
           \/ unfinished[gen] = 0 /\ unfinished'[gen'] = 0
<1>1. gen \in Gens /\ unfinished \in [Gens -> Nat]  BY DEF Wf, TypeOK
<1>2. QED  BY <1>1 DEF NextRound

\* The steps of a worker preserve IsCovered: an entry leaves the queue and a
\* job the running set no sooner than it is counted down.
LEMMA CoveredWorker ==
    ASSUME Wf, Held, AreCurrent, IsCovered, NEW t \in Tasks, WorkerStep(t)
    PROVE  IsCovered'
<1>1. TypeOK /\ UNCHANGED gen /\ gen \in Gens  BY WorkerStepFrame DEF Wf, TypeOK
<1>2. pc[t] \in {"get", "slot", "run"} => on[t] = gen  BY DEF AreCurrent, Live
<1>3. ASSUME Get(t) PROVE Len(entries'[gen']) = Len(entries[gen]) - 1
  <2>1. pc[t] = "get"  BY <1>3 DEF Get
  <2>2. QED  BY <1>1, <1>2, <1>3, <2>1, GetType
<1>4. CASE StartWorker(t)
  BY <1>4 DEF StartWorker, IsCovered, queueVars
<1>5. CASE TakeSentinel(t)
  <2>1. Get(t) /\ UNCHANGED <<unfinished, running>>  BY <1>5 DEF TakeSentinel
  <2>2. QED  BY <1>1, <1>3, <2>1, CoveredType DEF IsCovered
<1>6. CASE SkipDuplicate(t)
  <2>1. Get(t) /\ NextRound(t) /\ UNCHANGED running  BY <1>6 DEF SkipDuplicate
  <2>2. QED  BY <1>1, <1>3, <2>1, CoveredType, CoveredRound DEF IsCovered
<1>7. CASE TakeJob(t)
  <2>1. Get(t) /\ UNCHANGED unfinished  BY <1>7 DEF TakeJob
  <2>2. PICK j \in Jobs : j \notin running /\ running' = running \cup {j}
    BY <1>7 DEF TakeJob, Duplicate
  <2>3. Cardinality(running') = Cardinality(running) + 1
    BY <2>2, CoveredType, FS_AddElement
  <2>4. QED  BY <1>1, <1>3, <2>1, <2>3, CoveredType DEF IsCovered
<1>8. CASE TakeSlot(t)
  BY <1>8 DEF TakeSlot, IsCovered, queueVars
<1>9. CASE EndJob(t)
  <2>1. NextRound(t) /\ UNCHANGED entries /\ running' = running \ {job[t]} /\ pc[t] = "run"
    BY <1>9 DEF EndJob
  <2>2. job[t] \in running  BY <2>1 DEF Held, Busy
  <2>3. Cardinality(running') = Cardinality(running) - 1
    BY <2>1, <2>2, CoveredType, FS_RemoveElement
  <2>4. QED  BY <1>1, <2>1, <2>3, CoveredType, CoveredRound DEF IsCovered
<1>10. QED  BY <1>4, <1>5, <1>6, <1>7, <1>8, <1>9 DEF WorkerStep

\* The steps of a worker preserve Calm.
LEMMA CalmWorker ==
    ASSUME Wf, Held, Calm, NEW t \in Tasks, WorkerStep(t)
    PROVE  Calm'
<1>1. SUFFICES ASSUME apart PROVE OneChange' /\ WaitsForAll' /\ AreMembers' /\ AreCurrent' /\ IsCovered'
  BY WorkerStepFrame DEF Calm
<1>2. OneChange /\ WaitsForAll /\ AreMembers /\ AreCurrent /\ IsCovered
  BY <1>1 DEF Calm
<1>3. UNCHANGED <<gen, members, save>>  BY WorkerStepFrame
<1>4. OneChange' /\ WaitsForAll'
  BY <1>2, <1>3 DEF OneChange, WaitsForAll, Pending
<1>5. Live(t)  BY StepIsBorn DEF Live
<1>6. /\ TypeOK /\ pc \in [Tasks -> {"unborn", "new", "get", "slot", "run", "ended"}]
      /\ on \in [Tasks -> Gens]
  BY DEF Wf, TypeOK
<1>7. /\ \A u \in Tasks : u # t => pc'[u] = pc[u] /\ on'[u] = on[u]
      /\ pc'[t] # "new"
      /\ pc'[t] # "ended" => on'[t] = gen
  <2>1. CASE StartWorker(t)  BY <1>6, <2>1 DEF StartWorker
  <2>2. CASE TakeSentinel(t)  BY <1>6, <2>2 DEF TakeSentinel
  <2>3. CASE SkipDuplicate(t)  BY <1>6, <2>3, NextRoundRest DEF SkipDuplicate
  <2>4. CASE TakeJob(t)
    <3>1. pc' = [pc EXCEPT ![t] = "run"] \/ pc' = [pc EXCEPT ![t] = "slot"]
      BY <2>4 DEF TakeJob
    <3>2. on' = [on EXCEPT ![t] = gen]  BY <2>4 DEF TakeJob
    <3>3. QED  BY <1>6, <3>1, <3>2
  <2>5. CASE TakeSlot(t)  BY <1>2, <1>6, <2>5 DEF TakeSlot, AreCurrent, Live
  <2>6. CASE EndJob(t)  BY <1>6, <2>6, NextRoundRest DEF EndJob
  <2>7. QED  BY <2>1, <2>2, <2>3, <2>4, <2>5, <2>6 DEF WorkerStep
<1>8. AreMembers'  BY <1>2, <1>3, <1>5, <1>7 DEF AreMembers, Live
<1>9. AreCurrent'  BY <1>2, <1>3, <1>7 DEF AreCurrent, Live
<1>10. QED  BY <1>2, <1>4, <1>8, <1>9, CoveredWorker

\* A submission is counted.
LEMMA CalmEnqueue ==
    ASSUME Wf, Held, Calm, NEW j \in Jobs, Enqueue(j)
    PROVE  Calm'
<1>1. UNCHANGED <<apart, gen, members, save, pc, on, running>>
  BY DEF Enqueue, poolVars, workerVars
<1>2. SUFFICES ASSUME apart PROVE OneChange' /\ WaitsForAll' /\ AreMembers' /\ AreCurrent' /\ IsCovered'
  BY <1>1 DEF Calm
<1>3. OneChange /\ WaitsForAll /\ AreMembers /\ AreCurrent /\ IsCovered
  BY <1>2 DEF Calm
<1>4. OneChange' /\ WaitsForAll' /\ AreMembers' /\ AreCurrent'
  BY <1>1, <1>3 DEF OneChange, WaitsForAll, Pending, AreMembers, AreCurrent, Live
<1>5. entries' = [entries EXCEPT ![gen] = Append(@, j)] /\ unfinished' = [unfinished EXCEPT ![gen] = @ + 1]
  BY DEF Enqueue
<1>6. Len(entries'[gen]) = Len(entries[gen]) + 1 /\ unfinished'[gen] = unfinished[gen] + 1
  BY <1>5, CoveredType, AppendProperties DEF Wf, TypeOK
<1>7. IsCovered'  BY <1>1, <1>3, <1>6, CoveredType DEF IsCovered
<1>8. QED  BY <1>4, <1>7

\* The beginning of a change counts its sentinels, and waits for all members.
LEMMA CalmBegin ==
    ASSUME Wf, Held, Calm, NEW s \in Savers, NEW n \in Sizes, BeginChange(s, n)
    PROVE  Calm'
<1> DEFINE k == Cardinality(members)
<1>1. UNCHANGED <<apart, gen, members, pc, on, running>>
  BY DEF BeginChange, poolVars, workerVars
<1>2. SUFFICES ASSUME apart PROVE OneChange' /\ WaitsForAll' /\ AreMembers' /\ AreCurrent' /\ IsCovered'
  BY <1>1 DEF Calm
<1>3. OneChange /\ WaitsForAll /\ AreMembers /\ AreCurrent /\ IsCovered
  BY <1>2 DEF Calm
<1>4. AreMembers' /\ AreCurrent'
  BY <1>1, <1>3 DEF AreMembers, AreCurrent, Live
<1>5. /\ save' = [save EXCEPT ![s] = [pc |-> "gather", want |-> n, waits |-> members]]
      /\ Pending = {}
      /\ save \in [Savers -> [pc : {"idle", "gather"}, want : Sizes \cup {0}, waits : SUBSET Tasks]]
  <2>1. ~Changing /\ save' = [save EXCEPT ![s] = [pc |-> "gather", want |-> n, waits |-> members]]
    BY <1>2 DEF BeginChange
  <2>2. Pending = {}  BY <2>1 DEF Changing, Pending
  <2>3. QED  BY <2>1, <2>2 DEF Wf, TypeOK
<1>6. Pending' = {s} /\ save'[s].waits = members
  <2>1. \A u \in Savers : u # s => save'[u] = save[u] /\ save[u].pc # "gather"  BY <1>5 DEF Pending
  <2>2. save'[s].pc = "gather" /\ save'[s].waits = members  BY <1>5
  <2>3. QED  BY <2>1, <2>2 DEF Pending
<1>7. OneChange' /\ WaitsForAll'  BY <1>1, <1>6 DEF OneChange, WaitsForAll
<1>8. /\ entries' = [entries EXCEPT ![gen] = @ \o Sentinels(k)]
      /\ unfinished' = [unfinished EXCEPT ![gen] = @ + k]
  BY DEF BeginChange
<1>9. k \in Nat
  <2>1. members \in SUBSET Tasks  BY TaskBound DEF Wf, TypeOK, Tasks
  <2>2. QED  BY <2>1, TasksFinite
<1> HIDE DEF k
<1>10. Len(entries[gen] \o Sentinels(k)) = Len(entries[gen]) + k
  <2>1. Sentinels(k) \in Seq(Jobs \cup {Stop}) /\ Len(Sentinels(k)) = k
    BY <1>9, SentinelsLength
  <2>2. entries[gen] \in Seq(Jobs \cup {Stop})  BY CoveredType
  <2>3. Len(entries[gen] \o Sentinels(k)) = Len(entries[gen]) + Len(Sentinels(k))
    BY <2>1, <2>2, ConcatProperties, Zenon
  <2>4. QED  BY <2>1, <2>3
<1>11. Len(entries'[gen]) = Len(entries[gen]) + k /\ unfinished'[gen] = unfinished[gen] + k
  <2>1. gen \in Gens /\ entries \in [Gens -> Seq(Jobs \cup {Stop})] /\ unfinished \in [Gens -> Nat]
    BY DEF Wf, TypeOK
  <2>2. entries'[gen] = entries[gen] \o Sentinels(k) /\ unfinished'[gen] = unfinished[gen] + k
    BY <1>8, <2>1
  <2>3. QED  BY <1>10, <2>2
<1>12. IsCovered'  BY <1>1, <1>3, <1>9, <1>11, CoveredType DEF IsCovered
<1>13. QED  BY <1>4, <1>7, <1>12

\* At the end of a change no task is live, so no job is running, and the pool
\* starts afresh.
LEMMA CalmEnd ==
    ASSUME Wf, Held, Calm, NEW s \in Savers, EndChange(s)
    PROVE  Calm'
<1> DEFINE new == (born + 1)..(born + save[s].want)
<1>1. /\ save[s].pc = "gather" /\ \A t \in save[s].waits : pc[t] = "ended"
      /\ gen' = gen + 1 /\ members' = new
      /\ pc' = [t \in Tasks |-> IF t \in new THEN "new" ELSE pc[t]]
      /\ save' = [save EXCEPT ![s] = IdleSave]
      /\ UNCHANGED <<apart, entries, unfinished, running>>
  BY DEF EndChange
<1>2. SUFFICES ASSUME apart PROVE OneChange' /\ WaitsForAll' /\ AreMembers' /\ AreCurrent' /\ IsCovered'
  BY <1>1 DEF Calm
<1>3. OneChange /\ WaitsForAll /\ AreMembers /\ AreCurrent /\ IsCovered
  BY <1>2 DEF Calm
<1>4. s \in Pending  BY <1>1 DEF Pending
<1>5. Pending = {s}  BY <1>3, <1>4 DEF OneChange
<1>6. Pending' = {}  BY <1>1, <1>5, PendingShrinks
<1>7. \A t \in Tasks : ~Live(t)
  BY <1>1, <1>3, <1>4 DEF WaitsForAll, AreMembers, Live
<1>8. AreMembers' /\ AreCurrent'
  BY <1>1, <1>7 DEF AreMembers, AreCurrent, Live
<1>9. running = {}  BY <1>7 DEF Held, Busy, Live
<1>10. gen + 1 \in Gens /\ gen + 1 > gen  BY <1>4, RoomForChange, GenType DEF Wf
<1>11. entries[gen + 1] = <<>> /\ unfinished[gen + 1] = 0  BY <1>10, Zenon DEF Wf
<1>12. IsCovered'  BY <1>1, <1>9, <1>11, FS_EmptySet DEF IsCovered
<1>13. QED  BY <1>6, <1>8, <1>12 DEF OneChange, WaitsForAll

\* Calm is preserved by every step.
LEMMA CalmNext == Wf /\ Held /\ Calm /\ [Next]_vars => Calm'
<1> SUFFICES ASSUME Wf, Held, Calm, [Next]_vars PROVE Calm'  OBVIOUS
<1>1. CASE UNCHANGED vars
  BY <1>1 DEF vars, queueVars, poolVars, workerVars, Calm, OneChange, WaitsForAll, Pending,
     AreMembers, AreCurrent, IsCovered, Live
<1>2. QED  BY <1>1, CalmWorker, CalmEnqueue, CalmBegin, CalmEnd DEF Next

-----------------------------------------------------------------------------
(* The theorems. *)

\* IInv holds in every reachable state.
LEMMA Inductive == Spec => []IInv
<1>1. Init => IInv  BY WfInit, HeldInit, SlotsInit, CalmInit DEF IInv
<1>2. IInv /\ [Next]_vars => IInv'
  BY WfNext, HeldNext, SlotsNext, CalmNext DEF IInv
<1>3. QED  BY <1>1, <1>2, PTL DEF Spec

\* The variables keep to their types for any sizes, jobs, saves and changes;
\* generations and tasks never outnumber the changes.
THEOREM QueueTypeCorrectness == Spec => []TypeOK
<1>1. IInv => TypeOK  BY DEF IInv, Wf
<1>2. QED  BY <1>1, Inductive, PTL

\* Two tasks of the pool never have the same job, also the tasks that
\* overlapping changes of concurrency leave behind.
THEOREM JobsAreExclusive == Spec => []OneTaskPerJob
<1>1. IInv => OneTaskPerJob
  <2> SUFFICES ASSUME IInv, NEW t \in Tasks, NEW u \in Tasks, t # u, job[t] = job[u]
               PROVE  job[t] = NoJob
    BY DEF OneTaskPerJob
  <2>1. QED  BY DEF IInv, Held
<1>2. QED  BY <1>1, Inductive, PTL

\* The slots of the current semaphore are neither lost nor gained.
THEOREM SlotsAreConserved == Spec => []SlotsBalance
<1>1. IInv => SlotsBalance  BY DEF IInv, Slots, SlotsBalance, Under
<1>2. QED  BY <1>1, Inductive, PTL

\* With saves that come apart no worker escapes the sentinels of a change.
THEOREM NoOrphanedWorker == Spec => []WorkersAreKnown
<1>1. IInv => WorkersAreKnown  BY DEF IInv, Calm, WorkersAreKnown, AreMembers
<1>2. QED  BY <1>1, Inductive, PTL

\* With saves that come apart task_done is never called too often, so no worker
\* dies of it.
THEOREM TaskDoneNeverRaises == Spec => []TaskDoneIsCovered
<1>1. IInv => TaskDoneIsCovered  BY DEF IInv, Calm, TaskDoneIsCovered, IsCovered
<1>2. QED  BY <1>1, Inductive, PTL

-----------------------------------------------------------------------------
(* The refinement of WorkPool.  What the queue holds has a shape that tells *)
(* what the pool that WorkPool describes is to take and what it will lose.  *)

Workers == {t \in Tasks : Live(t)}

\* The current queue: a entries ahead of the sentinels, the k sentinels that are
\* left of a pending change, one for each worker, and what came after them.
Shape(a, k) ==
    /\ a + k <= Len(entries[gen])
    /\ \A i \in 1..Len(entries[gen]) : entries[gen][i] = Stop <=> a < i /\ i <= a + k
    /\ Changing => k = Cardinality(Workers) /\ (k = 0 => a = 0)
    /\ ~Changing => k = 0 /\ a = Len(entries[gen])

\* The pool has the size asked for, and its workers leave during a change only.
Complete ==
    /\ Cardinality(members) = concurrency
    /\ apart /\ ~Changing => Workers = members

\* Sizes are positive, and WorkPool counts as the queue does.
LEMMA SizesArePositive == \A n \in Sizes : n \in Nat /\ n > 0
BY QueueAssumption

LEMMA SameCardinality == \A S : Pool!Cardinality(S) = Cardinality(S)
BY DEF Pool!Cardinality, Cardinality

\* Sequences: taking the first element ...
LEMMA TailOfSplit ==
    ASSUME NEW S, NEW e \in Seq(S), e # <<>>, NEW a \in Nat, NEW k \in Nat, a + k <= Len(e)
    PROVE  /\ a > 0 => /\ SubSeq(e, 1, a) # <<>> /\ Head(SubSeq(e, 1, a)) = Head(e)
                       /\ SubSeq(Tail(e), 1, a - 1) = Tail(SubSeq(e, 1, a))
           /\ a + k > 0 => SubSeq(Tail(e), a + k, Len(Tail(e))) = SubSeq(e, a + k + 1, Len(e))
<1>1. Len(e) \in Nat /\ Len(e) > 0 /\ \A i \in 1..Len(e) : e[i] \in S
  BY EmptySeq, ElementOfSeq
<1>2. Tail(e) \in Seq(S) /\ Len(Tail(e)) = Len(e) - 1 /\ \A i \in 1..(Len(e) - 1) : Tail(e)[i] = e[i + 1]
  BY HeadTailProperties
<1>3. \A i \in 1..Len(Tail(e)) : Tail(e)[i] \in S  BY <1>2, ElementOfSeq
<1>4. ASSUME a > 0
      PROVE  /\ SubSeq(e, 1, a) # <<>> /\ Head(SubSeq(e, 1, a)) = Head(e)
             /\ SubSeq(Tail(e), 1, a - 1) = Tail(SubSeq(e, 1, a))
  <2> DEFINE s == SubSeq(e, 1, a)
             u == SubSeq(Tail(e), 1, a - 1)
  <2>1. s \in Seq(S) /\ Len(s) = a /\ \A i \in 1..a : s[i] = e[i]
    <3>1. \A i \in 1..a : e[i] \in S  BY <1>1
    <3>2. /\ SubSeq(e, 1, a) \in Seq(S) /\ Len(SubSeq(e, 1, a)) = IF 1 <= a THEN a - 1 + 1 ELSE 0
          /\ \A i \in 1..(a - 1 + 1) : SubSeq(e, 1, a)[i] = e[1 + i - 1]
      BY <3>1, SubSeqProperties
    <3>3. QED  BY <1>4, <3>2
  <2>2. u \in Seq(S) /\ Len(u) = a - 1 /\ \A i \in 1..(a - 1) : u[i] = Tail(e)[i]
    <3>1. \A i \in 1..(a - 1) : Tail(e)[i] \in S  BY <1>2, <1>3
    <3>2. /\ u \in Seq(S) /\ Len(u) = IF 1 <= a - 1 THEN (a - 1) - 1 + 1 ELSE 0
          /\ \A i \in 1..((a - 1) - 1 + 1) : u[i] = Tail(e)[1 + i - 1]
      BY <3>1, <1>4, SubSeqProperties
    <3>3. QED  BY <1>4, <3>2
  <2> HIDE DEF s, u
  <2>3. s # <<>>  BY <1>4, <2>1, EmptySeq
  <2>4. Head(s) = s[1] /\ Head(e) = e[1]  OBVIOUS
  <2>5. /\ Tail(s) \in Seq(S) /\ Len(Tail(s)) = a - 1
        /\ \A i \in 1..(a - 1) : Tail(s)[i] = s[i + 1]
    BY <2>1, <2>3, HeadTailProperties
  <2>6. \A i \in 1..(a - 1) : Tail(s)[i] = u[i]  BY <1>2, <2>1, <2>2, <2>5
  <2>7. Tail(s) = u  BY <2>2, <2>5, <2>6, SeqEqual
  <2>8. QED  BY <1>4, <2>1, <2>3, <2>4, <2>7 DEF s, u
<1>5. ASSUME a + k > 0
      PROVE  SubSeq(Tail(e), a + k, Len(Tail(e))) = SubSeq(e, a + k + 1, Len(e))
  <2> DEFINE m == a + k
             s == SubSeq(e, m + 1, Len(e))
             u == SubSeq(Tail(e), m, Len(Tail(e)))
  <2>1. m \in Nat /\ m >= 1 /\ m <= Len(e)  BY <1>5
  <2> HIDE DEF m
  <2>2. s \in Seq(S) /\ Len(s) = Len(e) - m /\ \A i \in 1..(Len(e) - m) : s[i] = e[m + i]
    <3>1. \A i \in (m + 1)..Len(e) : e[i] \in S  BY <1>1, <2>1
    <3>2. /\ s \in Seq(S) /\ Len(s) = IF m + 1 <= Len(e) THEN Len(e) - (m + 1) + 1 ELSE 0
          /\ \A i \in 1..(Len(e) - (m + 1) + 1) : s[i] = e[m + 1 + i - 1]
      BY <1>1, <2>1, <3>1, SubSeqProperties
    <3> HIDE DEF s
    <3>3. QED  BY <1>1, <2>1, <3>2
  <2>3. u \in Seq(S) /\ Len(u) = Len(e) - m /\ \A i \in 1..(Len(e) - m) : u[i] = Tail(e)[m + i - 1]
    <3>1. \A i \in m..Len(Tail(e)) : Tail(e)[i] \in S  BY <1>1, <1>3, <2>1
    <3>2. /\ u \in Seq(S) /\ Len(u) = IF m <= Len(Tail(e)) THEN Len(Tail(e)) - m + 1 ELSE 0
          /\ \A i \in 1..(Len(Tail(e)) - m + 1) : u[i] = Tail(e)[m + i - 1]
      BY <1>1, <1>2, <2>1, <3>1, SubSeqProperties
    <3> HIDE DEF u
    <3>3. Len(Tail(e)) - m + 1 = Len(e) - m  BY <1>1, <1>2, <2>1
    <3>4. Len(u) = Len(e) - m
      <4>1. CASE m <= Len(Tail(e))
        <5>1. Len(u) = Len(Tail(e)) - m + 1  BY <3>2, <4>1
        <5>2. QED  BY <3>3, <5>1
      <4>2. CASE ~(m <= Len(Tail(e)))
        <5>1. Len(u) = 0  BY <3>2, <4>2
        <5>2. m = Len(e)
          <6>1. Len(Tail(e)) = Len(e) - 1  BY <1>2
          <6>2. ~(m <= Len(e) - 1)  BY <4>2, <6>1
          <6>3. QED  BY <1>1, <2>1, <6>2
        <5>3. QED  BY <1>1, <5>1, <5>2
      <4>3. QED  BY <4>1, <4>2
    <3>5. \A i \in 1..(Len(e) - m) : u[i] = Tail(e)[m + i - 1]  BY <3>2, <3>3
    <3>6. QED  BY <3>2, <3>4, <3>5
  <2> HIDE DEF s, u
  <2>4. \A i \in 1..(Len(e) - m) : s[i] = u[i]
    <3> SUFFICES ASSUME NEW i \in 1..(Len(e) - m) PROVE s[i] = u[i]  OBVIOUS
    <3>1. m + i - 1 \in 1..(Len(e) - 1) /\ (m + i - 1) + 1 = m + i  BY <1>1, <2>1
    <3>2. Tail(e)[m + i - 1] = e[m + i]  BY <1>2, <3>1
    <3>3. QED  BY <2>2, <2>3, <3>2
  <2>5. s = u  BY <2>2, <2>3, <2>4, SeqEqual
  <2>6. QED  BY <2>5 DEF s, u, m
<1>6. QED  BY <1>4, <1>5

\* ... appending one ...
LEMMA AppendToSplit ==
    ASSUME NEW S, NEW e \in Seq(S), NEW x \in S, NEW a \in Nat, a <= Len(e)
    PROVE  /\ SubSeq(Append(e, x), 1, a) = SubSeq(e, 1, a)
           /\ SubSeq(Append(e, x), a + 1, Len(Append(e, x))) = Append(SubSeq(e, a + 1, Len(e)), x)
<1> DEFINE f == Append(e, x)
           n == Len(e)
<1>1. n \in Nat /\ \A i \in 1..n : e[i] \in S  BY LenProperties, ElementOfSeq
<1>2. f \in Seq(S) /\ Len(f) = n + 1 /\ (\A i \in 1..n : f[i] = e[i]) /\ f[n + 1] = x
  BY AppendProperties
<1>3. \A i \in 1..(n + 1) : f[i] \in S  BY <1>2, ElementOfSeq
<1> HIDE DEF f, n
<1>4. a <= n  BY DEF n
<1>5. SubSeq(f, 1, a) = SubSeq(e, 1, a)
  <2> DEFINE s == SubSeq(f, 1, a)
             u == SubSeq(e, 1, a)
  <2>1. \A i \in 1..a : f[i] \in S /\ e[i] \in S /\ f[i] = e[i]  BY <1>1, <1>2, <1>4
  <2>2. /\ s \in Seq(S) /\ Len(s) = IF 1 <= a THEN a - 1 + 1 ELSE 0
        /\ \A i \in 1..(a - 1 + 1) : s[i] = f[1 + i - 1]
    BY <2>1, SubSeqProperties
  <2>3. /\ u \in Seq(S) /\ Len(u) = IF 1 <= a THEN a - 1 + 1 ELSE 0
        /\ \A i \in 1..(a - 1 + 1) : u[i] = e[1 + i - 1]
    BY <2>1, SubSeqProperties
  <2> HIDE DEF s, u
  <2>4. Len(s) = Len(u) /\ Len(s) = a /\ \A i \in 1..a : s[i] = u[i]  BY <2>1, <2>2, <2>3
  <2>5. s = u  BY <2>2, <2>3, <2>4, SeqEqual
  <2>6. QED  BY <2>5 DEF s, u
<1>6. SubSeq(f, a + 1, n + 1) = Append(SubSeq(e, a + 1, n), x)
  <2> DEFINE s == SubSeq(f, a + 1, n + 1)
             u == SubSeq(e, a + 1, n)
             v == Append(u, x)
  <2>1. /\ s \in Seq(S) /\ Len(s) = n - a + 1 /\ \A i \in 1..(n - a + 1) : s[i] = f[a + i]
    <3>1. \A i \in (a + 1)..(n + 1) : f[i] \in S  BY <1>1, <1>3, <1>4
    <3>2. /\ s \in Seq(S) /\ Len(s) = IF a + 1 <= n + 1 THEN (n + 1) - (a + 1) + 1 ELSE 0
          /\ \A i \in 1..((n + 1) - (a + 1) + 1) : s[i] = f[a + 1 + i - 1]
      BY <1>1, <3>1, SubSeqProperties
    <3> HIDE DEF s
    <3>3. QED  BY <1>1, <1>4, <3>2
  <2>2. /\ u \in Seq(S) /\ Len(u) = n - a /\ \A i \in 1..(n - a) : u[i] = e[a + i]
    <3>1. \A i \in (a + 1)..n : e[i] \in S  BY <1>1, <1>4
    <3>2. /\ u \in Seq(S) /\ Len(u) = IF a + 1 <= n THEN n - (a + 1) + 1 ELSE 0
          /\ \A i \in 1..(n - (a + 1) + 1) : u[i] = e[a + 1 + i - 1]
      BY <1>1, <3>1, SubSeqProperties
    <3> HIDE DEF u
    <3>3. QED  BY <1>1, <1>4, <3>2
  <2> HIDE DEF u, s
  <2>3. /\ v \in Seq(S) /\ Len(v) = Len(u) + 1 /\ (\A i \in 1..Len(u) : v[i] = u[i]) /\ v[Len(u) + 1] = x
    BY <2>2, AppendProperties
  <2> HIDE DEF v
  <2>4. \A i \in 1..(n - a + 1) : s[i] = v[i]
    <3> SUFFICES ASSUME NEW i \in 1..(n - a + 1) PROVE s[i] = v[i]  OBVIOUS
    <3>1. CASE i = n - a + 1
      <4>1. a + i = n + 1  BY <1>1, <1>4, <3>1
      <4>2. QED  BY <1>2, <2>1, <2>2, <2>3, <3>1, <4>1
    <3>2. CASE i # n - a + 1
      <4>1. i \in 1..(n - a) /\ a + i \in 1..n  BY <1>1, <1>4, <3>2
      <4>2. QED  BY <1>2, <2>1, <2>2, <2>3, <4>1
    <3>3. QED  BY <3>1, <3>2
  <2>5. s = v  BY <1>1, <1>4, <2>1, <2>2, <2>3, <2>4, SeqEqual
  <2>6. QED  BY <2>5 DEF s, v, u
<1>7. QED  BY <1>2, <1>5, <1>6 DEF f, n

\* What the pool that WorkPool describes sees of a state.
Sight ==
    IInv /\ apart =>
      /\ PoolActive = running /\ PoolLimit = concurrency
      /\ \A s \in Savers : save[s].pc = "gather" => PoolWanted = save[s].want
      /\ ~Changing => PoolWanted = 0
      /\ \A a, k \in Nat : Shape(a, k) =>
           /\ PoolWaiting = SubSeq(entries[gen], 1, a)
           /\ PoolBehind = SubSeq(entries[gen], a + k + 1, Len(entries[gen]))

LEMMA SightNow == Sight
<1> SUFFICES ASSUME IInv, apart
    PROVE  /\ PoolActive = running /\ PoolLimit = concurrency
           /\ \A s \in Savers : save[s].pc = "gather" => PoolWanted = save[s].want
           /\ ~Changing => PoolWanted = 0
           /\ \A a, k \in Nat : Shape(a, k) =>
                /\ PoolWaiting = SubSeq(entries[gen], 1, a)
                /\ PoolBehind = SubSeq(entries[gen], a + k + 1, Len(entries[gen]))
  BY DEF Sight
<1>1. PoolActive = running
  <2>1. Held  BY DEF IInv
  <2>2. Active = {job[t] : t \in Busy}  BY DEF Active, Busy
  <2>3. {job[t] : t \in Busy} = running  BY <2>1 DEF Held
  <2>4. QED  BY <2>2, <2>3 DEF PoolActive
<1>2. PoolLimit = concurrency  BY DEF PoolLimit
<1>3. ASSUME NEW s \in Savers, save[s].pc = "gather" PROVE PoolWanted = save[s].want
  <2>1. OneChange  BY DEF IInv, Calm
  <2>2. \A u \in Savers : save[u].pc = "gather" => u = s  BY <1>3, <2>1 DEF OneChange, Pending
  <2>3. (CHOOSE u \in Savers : save[u].pc = "gather") = s  BY <1>3, <2>2
  <2>4. Changing  BY <1>3 DEF Changing
  <2>5. QED  BY <2>3, <2>4 DEF PoolWanted, Wanted
<1>4. ~Changing => PoolWanted = 0  BY DEF PoolWanted, Wanted
<1>5. ASSUME NEW a \in Nat, NEW k \in Nat, Shape(a, k)
      PROVE  /\ PoolWaiting = SubSeq(entries[gen], 1, a)
             /\ PoolBehind = SubSeq(entries[gen], a + k + 1, Len(entries[gen]))
  <2> DEFINE e == entries[gen]
  <2>1. e \in Seq(Jobs \cup {Stop}) /\ Len(e) \in Nat  BY CoveredType DEF IInv
  <2>2. a + k <= Len(e) /\ StopsAt = {i \in 1..Len(e) : a < i /\ i <= a + k}
    BY <1>5 DEF Shape, StopsAt
  <2>3. SubSeq(e, 1, Len(e)) = e  BY <2>1, SubSeqFull
  <2> HIDE DEF e
  <2>4. CASE k = 0
    <3>1. StopsAt = {}  BY <2>1, <2>2, <2>4
    <3>2. CASE Changing
      <4>1. a = 0  BY <1>5, <2>4, <3>2 DEF Shape
      <4>2. Ahead = <<>> /\ Behind = e  BY <3>1, <3>2 DEF Ahead, Behind, e
      <4>3. SubSeq(e, 1, 0) = <<>>  BY SubSeqEmpty
      <4>4. a + k + 1 = 1  BY <2>4, <4>1
      <4>5. QED  BY <2>3, <4>1, <4>2, <4>3, <4>4 DEF PoolWaiting, PoolBehind, e
    <3>3. CASE ~Changing
      <4>1. a = Len(e)  BY <1>5, <3>3 DEF Shape, e
      <4>2. Ahead = e /\ Behind = <<>>  BY <3>1, <3>3 DEF Ahead, Behind, e
      <4>3. SubSeq(e, Len(e) + 1, Len(e)) = <<>>  BY <2>1, SubSeqEmpty
      <4>4. a + k + 1 = Len(e) + 1  BY <2>1, <2>4, <4>1
      <4>5. QED  BY <2>3, <4>1, <4>2, <4>3, <4>4 DEF PoolWaiting, PoolBehind, e
    <3>4. QED  BY <3>2, <3>3
  <2>5. CASE k # 0
    <3>1. Changing  BY <1>5, <2>5 DEF Shape
    <3>2. a + 1 \in StopsAt /\ a + k \in StopsAt /\ \A i \in StopsAt : a + 1 <= i /\ i <= a + k /\ i \in Int
      BY <2>1, <2>2, <2>5
    <3>3. FirstStop = a + 1
      <4>1. FirstStop \in StopsAt /\ \A i \in StopsAt : FirstStop <= i  BY <3>2 DEF FirstStop
      <4>2. QED  BY <3>2, <4>1
    <3>4. LastStop = a + k
      <4>1. LastStop \in StopsAt /\ \A i \in StopsAt : i <= LastStop  BY <3>2 DEF LastStop
      <4>2. QED  BY <3>2, <4>1
    <3>5. FirstStop - 1 = a  BY <3>3
    <3>6. Ahead = SubSeq(e, 1, a) /\ Behind = SubSeq(e, a + k + 1, Len(e))
      BY <3>1, <3>2, <3>4, <3>5 DEF Ahead, Behind, e
    <3>7. QED  BY <3>6 DEF PoolWaiting, PoolBehind, e
  <2>6. QED  BY <2>4, <2>5
<1>6. QED  BY <1>1, <1>2, <1>3, <1>4, <1>5

LEMMA SightNext == Sight'
BY SightNow, PTL

-----------------------------------------------------------------------------
(* The shape is kept, and each step is one of the pool or none. *)

\* Shape, and what of IInv goes with it, in a state without overlapping saves.
Shaped == Complete /\ (apart => \E a, k \in Nat : Shape(a, k))

\* Workers are finitely many, and the parts of IInv that come with apart.
LEMMA Known ==
    ASSUME IInv, apart
    PROVE  /\ Wf /\ Held /\ OneChange /\ WaitsForAll /\ AreMembers /\ AreCurrent /\ IsCovered
           /\ gen \in Gens /\ entries \in [Gens -> Seq(Jobs \cup {Stop})]
           /\ entries[gen] \in Seq(Jobs \cup {Stop}) /\ Len(entries[gen]) \in Nat
           /\ IsFiniteSet(Workers) /\ Cardinality(Workers) \in Nat /\ Workers \subseteq members
           /\ IsFiniteSet(members) /\ Cardinality(members) \in Nat /\ members \subseteq Tasks
<1>1. Wf /\ Held /\ Calm  BY DEF IInv
<1>2. members \in SUBSET Tasks  BY <1>1, TaskBound DEF Wf, TypeOK, Tasks
<1>3. Workers \in SUBSET Tasks  BY DEF Workers
<1>4. Workers \subseteq members  BY <1>1 DEF Calm, AreMembers, Workers
<1>5. entries \in [Gens -> Seq(Jobs \cup {Stop})]  BY <1>1 DEF Wf, TypeOK
<1>6. QED  BY <1>1, <1>2, <1>3, <1>4, <1>5, TasksFinite, CoveredType DEF Calm

\* What the pool sees stays or changes with the limit and the running jobs.
LEMMA SightKept ==
    ASSUME IInv, IInv', apart, apart' = apart, UNCHANGED <<save, concurrency>>
    PROVE  /\ PoolLimit' = PoolLimit /\ PoolWanted' = PoolWanted /\ PoolLimit = concurrency
           /\ PoolActive = running /\ PoolActive' = running'
           /\ (Changing' <=> Changing)
<1>1. PoolLimit = concurrency /\ PoolLimit' = concurrency' /\ PoolActive = running /\ PoolActive' = running'
  BY SightNow, SightNext DEF Sight
<1>2. Changing' <=> Changing  BY DEF Changing
<1>3. PoolWanted' = PoolWanted
  <2>1. CASE ~Changing  BY <1>2, <2>1, SightNow, SightNext DEF Sight
  <2>2. CASE Changing
    <3>1. PICK s \in Savers : save[s].pc = "gather"  BY <2>2 DEF Changing
    <3>2. PoolWanted = save[s].want  BY <3>1, SightNow DEF Sight
    <3>3. save'[s].pc = "gather" /\ save'[s].want = save[s].want  BY <3>1
    <3>4. PoolWanted' = save'[s].want  BY <3>3, SightNext DEF Sight
    <3>5. QED  BY <3>2, <3>3, <3>4
  <2>3. QED  BY <2>1, <2>2
<1>4. QED  BY <1>1, <1>2, <1>3

\* An entry is taken from the current queue: a sentinel only if nothing is ahead
\* of it, and a job only from what is ahead of the sentinels.
LEMMA ShapeTaken ==
    ASSUME IInv, apart, NEW a \in Nat, NEW k \in Nat, Shape(a, k),
           NEW t \in Tasks, WorkerStep(t), Get(t)
    PROVE  /\ entries[gen] # <<>> /\ Head(entries[gen]) = Head(entries[on[t]])
           /\ entries'[gen'] = Tail(entries[gen])
           /\ Head(entries[gen]) = Stop => a = 0 /\ k > 0 /\ Changing
           /\ Head(entries[gen]) # Stop => a > 0
           /\ Head(entries[gen]) = Stop /\ Workers' = Workers \ {t} => Shape(0, k - 1)'
           /\ Head(entries[gen]) # Stop /\ Workers' = Workers => Shape(a - 1, k)'
<1> DEFINE e == entries[gen]
           f == Tail(e)
           n == Len(e)
<1>1. UNCHANGED <<gen, save>> /\ (Changing' <=> Changing)  BY WorkerStepFrame DEF Changing
<1>2. t \in Workers /\ on[t] = gen /\ e # <<>>  BY Known DEF Workers, Live, Get, AreCurrent
<1>3. /\ gen \in Gens /\ e \in Seq(Jobs \cup {Stop}) /\ n \in Nat /\ n > 0
      /\ entries \in [Gens -> Seq(Jobs \cup {Stop})]
  BY <1>2, Known, EmptySeq
<1>4. entries'[gen'] = f  BY <1>1, <1>2, <1>3 DEF Get
<1>5. Len(f) = n - 1 /\ \A i \in 1..(n - 1) : f[i] = e[i + 1]
  BY <1>2, <1>3, HeadTailProperties
<1>6. /\ a + k <= n /\ \A i \in 1..n : e[i] = Stop <=> a < i /\ i <= a + k
      /\ Changing => k = Cardinality(Workers) /\ (k = 0 => a = 0)
      /\ ~Changing => k = 0 /\ a = n
  BY DEF Shape
<1>7. Changing => k > 0
  <2>1. Workers # {} /\ IsFiniteSet(Workers) /\ Cardinality(Workers) \in Nat  BY <1>2, Known
  <2>2. Cardinality(Workers) # 0  BY <2>1, FS_EmptySet
  <2>3. QED  BY <1>6, <2>2
<1>8. Head(e) = e[1]  BY <1>2, <1>3
<1> HIDE DEF e, f, n
<1>9. e[1] = Stop <=> a = 0 /\ k > 0
  <2>1. 1 \in 1..n  BY <1>3
  <2>2. QED  BY <1>3, <1>6, <2>1
<1>10. e[1] = Stop => Changing  BY <1>6, <1>9
<1>11. e[1] # Stop => a > 0  BY <1>3, <1>6, <1>7, <1>9
<1>12. ASSUME e[1] = Stop, Workers' = Workers \ {t} PROVE Shape(0, k - 1)'
  <2>1. a = 0 /\ k > 0 /\ Changing /\ Changing'  BY <1>1, <1>9, <1>10, <1>12
  <2>2. 0 + (k - 1) <= Len(f)  BY <1>3, <1>5, <1>6, <2>1
  <2>3. \A i \in 1..Len(f) : f[i] = Stop <=> 0 < i /\ i <= 0 + (k - 1)
    <3> SUFFICES ASSUME NEW i \in 1..(n - 1) PROVE f[i] = Stop <=> 0 < i /\ i <= k - 1
      BY <1>3, <1>5
    <3>1. i + 1 \in 1..n /\ f[i] = e[i + 1]  BY <1>3, <1>5
    <3>2. e[i + 1] = Stop <=> a < i + 1 /\ i + 1 <= a + k  BY <1>6, <3>1
    <3>3. QED  BY <2>1, <3>1, <3>2
  <2>4. k - 1 = Cardinality(Workers')
    <3>1. Cardinality(Workers \ {t}) = Cardinality(Workers) - 1  BY <1>2, Known, FS_RemoveElement
    <3>2. QED  BY <1>6, <1>12, <2>1, <3>1
  <2>5. QED  BY <1>4, <2>1, <2>2, <2>3, <2>4 DEF Shape
<1>13. ASSUME e[1] # Stop, Workers' = Workers PROVE Shape(a - 1, k)'
  <2>1. a > 0  BY <1>11, <1>13
  <2>2. (a - 1) + k <= Len(f)  BY <1>3, <1>5, <1>6
  <2>3. \A i \in 1..Len(f) : f[i] = Stop <=> a - 1 < i /\ i <= (a - 1) + k
    <3> SUFFICES ASSUME NEW i \in 1..(n - 1) PROVE f[i] = Stop <=> a - 1 < i /\ i <= (a - 1) + k
      BY <1>3, <1>5
    <3>1. i + 1 \in 1..n /\ f[i] = e[i + 1]  BY <1>3, <1>5
    <3>2. e[i + 1] = Stop <=> a < i + 1 /\ i + 1 <= a + k  BY <1>6, <3>1
    <3>3. QED  BY <3>1, <3>2
  <2>4. Changing' => k = Cardinality(Workers') /\ (k = 0 => a - 1 = 0)  BY <1>1, <1>6, <1>7, <1>13
  <2>5. ~Changing' => k = 0 /\ a - 1 = Len(f)  BY <1>1, <1>5, <1>6
  <2>6. QED  BY <1>4, <2>2, <2>3, <2>4, <2>5 DEF Shape
<1>14. QED  BY <1>2, <1>4, <1>8, <1>9, <1>10, <1>11, <1>12, <1>13 DEF e, f

\* A step that leaves the queue and the workers as they are keeps the shape.
LEMMA ShapeKept ==
    ASSUME NEW a \in Nat, NEW k \in Nat, Shape(a, k),
           UNCHANGED <<gen, entries, save>>, Workers' = Workers
    PROVE  Shape(a, k)'
<1>1. Changing' <=> Changing  BY DEF Changing
<1>2. QED  BY <1>1 DEF Shape

\* A worker only leaves by a sentinel: task_done does not raise.
LEMMA WorkersStay ==
    ASSUME IInv, apart, NEW t \in Tasks, WorkerStep(t)
    PROVE  Workers' = IF TakeSentinel(t) THEN Workers \ {t} ELSE Workers
<1>1. /\ t \in Workers /\ TypeOK /\ pc \in [Tasks -> {"unborn", "new", "get", "slot", "run", "ended"}]
  <2>1. Wf  BY DEF IInv
  <2>2. QED  BY <2>1, StepIsBorn DEF Wf, TypeOK, Workers, Live
<1>2. ASSUME \A u \in Tasks : u # t => pc'[u] = pc[u], pc'[t] \notin {"unborn", "ended"}
      PROVE  Workers' = Workers
  BY <1>1, <1>2 DEF Workers, Live
<1>3. ASSUME unfinished[gen] > 0, NextRound(t) PROVE Workers' = Workers
  <2>1. pc' = [pc EXCEPT ![t] = "get"]
    <3>1. unfinished[gen] # 0  BY <1>1, <1>3 DEF TypeOK
    <3>2. QED  BY <1>3, <3>1 DEF NextRound
  <2>2. QED  BY <1>1, <1>2, <2>1
<1>4. CASE TakeSentinel(t)
  <2>1. pc' = [pc EXCEPT ![t] = "ended"]  BY <1>4 DEF TakeSentinel
  <2>2. QED  BY <1>1, <1>4, <2>1 DEF Workers, Live
<1>5. CASE ~TakeSentinel(t)
  <2>1. CASE StartWorker(t)  BY <1>1, <1>2, <1>5, <2>1 DEF StartWorker
  <2>2. CASE TakeSlot(t)  BY <1>1, <1>2, <1>5, <2>2 DEF TakeSlot
  <2>3. CASE TakeJob(t)
    <3>1. pc' = [pc EXCEPT ![t] = "run"] \/ pc' = [pc EXCEPT ![t] = "slot"]  BY <2>3 DEF TakeJob
    <3>2. QED  BY <1>1, <1>2, <1>5, <3>1
  <2>4. CASE SkipDuplicate(t)
    <3>1. Get(t) /\ NextRound(t)  BY <2>4 DEF SkipDuplicate
    <3>2. on[t] = gen  BY <3>1, Known DEF Get, AreCurrent, Live
    <3>3. Len(entries[gen]) > 0  BY <3>1, <3>2, Known, EmptySeq DEF Get
    <3>4. unfinished[gen] > 0  BY <3>3, Known, CoveredType DEF IsCovered
    <3>5. QED  BY <1>3, <1>5, <3>1, <3>4
  <2>5. CASE EndJob(t)
    <3>1. pc[t] = "run" /\ NextRound(t)  BY <2>5 DEF EndJob
    <3>2. running # {}  BY <3>1, Known DEF Held, Busy
    <3>3. Cardinality(running) # 0  BY <3>2, Known, FS_EmptySet DEF Held
    <3>4. unfinished[gen] > 0  BY <3>3, Known, CoveredType DEF IsCovered
    <3>5. QED  BY <1>3, <1>5, <3>1, <3>4
  <2>6. QED  BY <1>5, <2>1, <2>2, <2>3, <2>4, <2>5 DEF WorkerStep
<1>6. QED  BY <1>4, <1>5

\* While a worker is free, fewer jobs are running than the limit says.
LEMMA RoomForJob ==
    ASSUME IInv, Complete, apart, NEW t \in Workers, t \notin Busy
    PROVE  Cardinality(running) < concurrency
<1> DEFINE f == [u \in Busy |-> job[u]]
           rest == members \ {t}
<1>1. Busy \subseteq rest
  <2>1. Busy \subseteq Workers  BY DEF Busy, Workers, Live
  <2>2. QED  BY <2>1, Known
<1>2. IsFiniteSet(rest) /\ Cardinality(rest) = Cardinality(members) - 1
  <2>1. t \in members  BY Known
  <2>2. QED  BY <2>1, Known, FS_RemoveElement
<1>3. IsFiniteSet(Busy) /\ Cardinality(Busy) <= Cardinality(rest)  BY <1>1, <1>2, FS_Subset
<1>4. f \in Surjection(Busy, running)  BY Known DEF Held, Surjection
<1> HIDE DEF f, rest
<1>5. Cardinality(running) <= Cardinality(Busy)  BY <1>3, <1>4, FS_Surjection
<1>6. /\ Cardinality(running) \in Nat /\ Cardinality(Busy) \in Nat /\ Cardinality(members) \in Nat
      /\ Cardinality(members) = concurrency
  BY <1>3, Known, CoveredType, FS_CardinalityType DEF Complete
<1>7. QED  BY <1>2, <1>3, <1>5, <1>6
\* The steps of a worker: taking a job, dropping a duplicate and ending a job are
\* steps of the pool, the others leave it as it is.
LEMMA PoolWorker ==
    ASSUME IInv, IInv', Shaped, apart, NEW t \in Tasks, WorkerStep(t)
    PROVE  Shaped' /\ (Pool!Next \/ UNCHANGED Pool!vars)
<1> DEFINE e == entries[gen]
<1>1. UNCHANGED <<apart, gen, concurrency, members, save>>  BY WorkerStepFrame
<1>2. /\ PoolLimit' = PoolLimit /\ PoolWanted' = PoolWanted /\ PoolLimit = concurrency
      /\ PoolActive = running /\ PoolActive' = running'
      /\ (Changing' <=> Changing)
  BY <1>1, SightKept
<1>3. PICK a \in Nat, k \in Nat : Shape(a, k)  BY DEF Shaped
<1>4. Complete  BY DEF Shaped
<1>5. PoolWaiting = SubSeq(e, 1, a) /\ PoolBehind = SubSeq(e, a + k + 1, Len(e))
  BY <1>3, SightNow DEF Sight
<1>6. ASSUME NEW b \in Nat, NEW l \in Nat, Shape(b, l)'
      PROVE  /\ PoolWaiting' = SubSeq(entries'[gen'], 1, b)
             /\ PoolBehind' = SubSeq(entries'[gen'], b + l + 1, Len(entries'[gen']))
  BY <1>1, <1>6, SightNext DEF Sight
<1>7. ASSUME Workers' = Workers PROVE Complete'
  BY <1>1, <1>2, <1>4, <1>7 DEF Complete
<1>8. e \in Seq(Jobs \cup {Stop}) /\ a + k <= Len(e)  BY <1>3, Known DEF Shape
<1>9. t \in Workers  BY Known, StepIsBorn DEF Workers, Live
<1>10. ASSUME UNCHANGED <<entries, running>>, Workers' = Workers
       PROVE  Shaped' /\ UNCHANGED Pool!vars
  <2>1. Shape(a, k)'  BY <1>1, <1>3, <1>10, ShapeKept
  <2>2. PoolWaiting' = PoolWaiting /\ PoolBehind' = PoolBehind
    BY <1>1, <1>5, <1>6, <1>10, <2>1
  <2>3. QED  BY <1>2, <1>7, <1>10, <2>1, <2>2 DEF Shaped, Pool!vars
<1>11. ASSUME Get(t), Head(e) # Stop, Workers' = Workers
       PROVE  /\ Shaped' /\ PoolWaiting # <<>> /\ Head(PoolWaiting) = Head(entries[on[t]])
              /\ PoolWaiting' = Tail(PoolWaiting) /\ PoolBehind' = PoolBehind
  <2>1. /\ e # <<>> /\ Head(e) = Head(entries[on[t]]) /\ entries'[gen'] = Tail(e)
        /\ a > 0 /\ Shape(a - 1, k)'
    BY <1>3, <1>11, ShapeTaken
  <2>2. a - 1 \in Nat /\ (a - 1) + k + 1 = a + k  BY <2>1
  <2>3. PoolWaiting' = SubSeq(Tail(e), 1, a - 1) /\ PoolBehind' = SubSeq(Tail(e), a + k, Len(Tail(e)))
    BY <1>6, <2>1, <2>2
  <2>4. Shaped'  BY <1>7, <1>11, <2>1, <2>2 DEF Shaped
  <2> HIDE DEF e
  <2>5. /\ SubSeq(e, 1, a) # <<>> /\ Head(SubSeq(e, 1, a)) = Head(e)
        /\ SubSeq(Tail(e), 1, a - 1) = Tail(SubSeq(e, 1, a))
    BY <1>8, <2>1, TailOfSplit
  <2>6. SubSeq(Tail(e), a + k, Len(Tail(e))) = SubSeq(e, a + k + 1, Len(e))
    <3>1. a + k > 0  BY <2>1
    <3>2. QED  BY <1>8, <2>1, <3>1, TailOfSplit
  <2>7. QED  BY <1>5, <2>1, <2>3, <2>4, <2>5, <2>6
<1>12. CASE TakeSentinel(t)
  <2>1. /\ Get(t) /\ Head(entries[on[t]]) = Stop /\ UNCHANGED running /\ Workers' = Workers \ {t}
    BY <1>12, WorkersStay DEF TakeSentinel
  <2>2. /\ e # <<>> /\ Head(e) = Stop /\ entries'[gen'] = Tail(e)
        /\ a = 0 /\ k > 0 /\ Changing /\ Shape(0, k - 1)'
    BY <1>3, <2>1, ShapeTaken
  <2>3. k - 1 \in Nat /\ 0 + (k - 1) + 1 = a + k /\ 0 \in Nat  BY <2>2
  <2>4. PoolWaiting' = SubSeq(Tail(e), 1, 0) /\ PoolBehind' = SubSeq(Tail(e), a + k, Len(Tail(e)))
    BY <1>6, <2>2, <2>3
  <2>5. Complete'  BY <1>1, <1>2, <1>4, <2>2 DEF Complete
  <2> HIDE DEF e
  <2>6. SubSeq(Tail(e), 1, 0) = <<>> /\ SubSeq(e, 1, 0) = <<>>  BY SubSeqEmpty
  <2>7. SubSeq(Tail(e), a + k, Len(Tail(e))) = SubSeq(e, a + k + 1, Len(e))
    BY <1>8, <2>2, TailOfSplit
  <2>8. PoolWaiting' = PoolWaiting /\ PoolBehind' = PoolBehind
    BY <1>5, <2>2, <2>4, <2>6, <2>7
  <2>9. QED  BY <1>2, <2>1, <2>2, <2>3, <2>5, <2>8 DEF Shaped, Pool!vars
<1>13. CASE ~TakeSentinel(t)
  <2>0. Workers' = Workers  BY <1>13, WorkersStay
  <2>1. CASE StartWorker(t)  BY <1>10, <2>0, <2>1 DEF StartWorker, queueVars
  <2>2. CASE TakeSlot(t)  BY <1>10, <2>0, <2>2 DEF TakeSlot, queueVars
  <2>3. CASE TakeJob(t)
    <3>1. PICK j \in Jobs : /\ j = Head(entries[on[t]]) /\ Get(t) /\ j \notin running
                            /\ running' = running \cup {j}
      BY <2>3 DEF TakeJob, Duplicate
    <3>2. Head(e) = j  BY <1>3, <3>1, ShapeTaken
    <3>3. Head(e) # Stop  BY <3>2, QueueAssumption
    <3>4. /\ Shaped' /\ PoolWaiting # <<>> /\ Head(PoolWaiting) = j
          /\ PoolWaiting' = Tail(PoolWaiting) /\ PoolBehind' = PoolBehind
      BY <1>11, <2>0, <3>1, <3>3
    <3>5. Cardinality(running) < concurrency
      <4>1. t \notin Busy  BY <3>1 DEF Get, Busy
      <4>2. QED  BY <1>4, <1>9, <4>1, RoomForJob
    <3>6. Pool!Begin  BY <1>2, <3>1, <3>4, <3>5, SameCardinality DEF Pool!Begin
    <3>7. QED  BY <3>4, <3>6 DEF Pool!Next
  <2>4. CASE SkipDuplicate(t)
    <3>1. Get(t) /\ Head(entries[on[t]]) \in running /\ UNCHANGED running
      BY <2>4 DEF SkipDuplicate, Duplicate
    <3>2. Head(e) = Head(entries[on[t]])  BY <1>3, <3>1, ShapeTaken
    <3>3. Head(e) # Stop  BY <3>1, <3>2, Known, QueueAssumption DEF Wf, TypeOK
    <3>4. /\ Shaped' /\ PoolWaiting # <<>> /\ Head(PoolWaiting) \in running
          /\ PoolWaiting' = Tail(PoolWaiting) /\ PoolBehind' = PoolBehind
      BY <1>11, <2>0, <3>1, <3>3
    <3>5. Pool!Skip  BY <1>2, <3>1, <3>4 DEF Pool!Skip
    <3>6. QED  BY <3>4, <3>5 DEF Pool!Next
  <2>5. CASE EndJob(t)
    <3>1. pc[t] = "run" /\ UNCHANGED entries /\ running' = running \ {job[t]}  BY <2>5 DEF EndJob
    <3>2. job[t] \in running /\ running \subseteq Jobs  BY <3>1, Known DEF Held, Busy, Wf, TypeOK
    <3>3. Shape(a, k)'  BY <1>1, <1>3, <2>0, <3>1, ShapeKept
    <3>4. PoolWaiting' = PoolWaiting /\ PoolBehind' = PoolBehind
      BY <1>1, <1>5, <1>6, <3>1, <3>3
    <3>5. Pool!Finish(job[t])  BY <1>2, <3>1, <3>2, <3>4 DEF Pool!Finish
    <3>6. Shaped'  BY <1>7, <2>0, <3>3 DEF Shaped
    <3>7. QED  BY <3>2, <3>5, <3>6 DEF Pool!Next
  <2>6. QED  BY <1>13, <2>1, <2>2, <2>3, <2>4, <2>5 DEF WorkerStep
<1>14. QED  BY <1>12, <1>13

\* enqueue is a submission: behind the sentinels if there are any.
LEMMA PoolEnqueue ==
    ASSUME IInv, IInv', Shaped, apart, NEW j \in Jobs, Enqueue(j)
    PROVE  Shaped' /\ Pool!Submit(j)
<1> DEFINE e == entries[gen]
<1>1. UNCHANGED <<apart, gen, concurrency, members, save, pc, running>> /\ j \notin running
  BY DEF Enqueue, poolVars, workerVars
<1>2. /\ PoolLimit' = PoolLimit /\ PoolWanted' = PoolWanted
      /\ PoolActive = running /\ PoolActive' = running'
      /\ (Changing' <=> Changing)
  BY <1>1, SightKept
<1>3. PICK a \in Nat, k \in Nat : Shape(a, k)  BY DEF Shaped
<1>4. PoolWaiting = SubSeq(e, 1, a) /\ PoolBehind = SubSeq(e, a + k + 1, Len(e))
  BY <1>3, SightNow DEF Sight
<1>5. Workers' = Workers  BY <1>1 DEF Workers, Live
<1>6. Complete'  BY <1>1, <1>2, <1>5 DEF Shaped, Complete
<1>7. entries'[gen'] = Append(e, j)
  <2>1. gen \in Gens /\ entries \in [Gens -> Seq(Jobs \cup {Stop})]  BY Known
  <2>2. QED  BY <1>1, <2>1 DEF Enqueue
<1>8. /\ e \in Seq(Jobs \cup {Stop}) /\ Len(e) \in Nat /\ Len(Append(e, j)) = Len(e) + 1
      /\ (\A i \in 1..Len(e) : Append(e, j)[i] = e[i]) /\ Append(e, j)[Len(e) + 1] = j
  BY Known, AppendProperties
<1>9. /\ a + k <= Len(e) /\ \A i \in 1..Len(e) : e[i] = Stop <=> a < i /\ i <= a + k
      /\ Changing => k = Cardinality(Workers) /\ (k = 0 => a = 0)
      /\ ~Changing => k = 0 /\ a = Len(e)
  BY <1>3 DEF Shape
<1>10. j # Stop  BY QueueAssumption
<1> HIDE DEF e
<1>11. CASE Changing
  <2>1. PoolWanted # 0
    <3>1. PICK s \in Savers : save[s].pc = "gather"  BY <1>11 DEF Changing
    <3>2. PoolWanted = save[s].want  BY <3>1, SightNow DEF Sight
    <3>3. save[s].want \in Sizes  BY <3>1, Known DEF Wf, Pending
    <3>4. QED  BY <3>2, <3>3, SizesArePositive
  <2>2. \A i \in 1..Len(Append(e, j)) : Append(e, j)[i] = Stop <=> a < i /\ i <= a + k
    <3> SUFFICES ASSUME NEW i \in 1..(Len(e) + 1) PROVE Append(e, j)[i] = Stop <=> a < i /\ i <= a + k
      BY <1>8
    <3>1. CASE i \in 1..Len(e)  BY <1>8, <1>9, <3>1
    <3>2. CASE i = Len(e) + 1  BY <1>8, <1>9, <1>10, <3>2
    <3>3. QED  BY <1>8, <3>1, <3>2
  <2>3. a + k <= Len(Append(e, j))  BY <1>8, <1>9
  <2>4. Shape(a, k)'  BY <1>2, <1>5, <1>7, <1>9, <1>11, <2>2, <2>3 DEF Shape
  <2>5. /\ PoolWaiting' = SubSeq(Append(e, j), 1, a)
        /\ PoolBehind' = SubSeq(Append(e, j), a + k + 1, Len(Append(e, j)))
    BY <1>1, <1>7, <2>4, SightNext DEF Sight
  <2>6. SubSeq(Append(e, j), 1, a) = SubSeq(e, 1, a)
    BY <1>8, <1>9, AppendToSplit
  <2>7. SubSeq(Append(e, j), (a + k) + 1, Len(Append(e, j))) = Append(SubSeq(e, (a + k) + 1, Len(e)), j)
    <3> DEFINE m == a + k
    <3>1. m \in Nat /\ m <= Len(e)  BY <1>9
    <3> HIDE DEF m
    <3>2. e \in Seq(Jobs \cup {Stop}) /\ j \in Jobs \cup {Stop}  BY <1>8
    <3>3. /\ SubSeq(Append(e, j), 1, m) = SubSeq(e, 1, m)
          /\ SubSeq(Append(e, j), m + 1, Len(Append(e, j))) = Append(SubSeq(e, m + 1, Len(e)), j)
      BY <3>1, <3>2, AppendToSplit
    <3>4. QED  BY <3>3 DEF m
  <2>8. PoolWaiting' = PoolWaiting /\ PoolBehind' = Append(PoolBehind, j)
    BY <1>4, <2>5, <2>6, <2>7
  <2>9. Pool!Submit(j)  BY <1>1, <1>2, <2>1, <2>8 DEF Pool!Submit
  <2>10. QED  BY <1>6, <2>4, <2>9 DEF Shaped
<1>12. CASE ~Changing
  <2>1. PoolWanted = 0  BY <1>12, SightNow DEF Sight
  <2>2. k = 0 /\ a = Len(e) /\ a + 1 \in Nat  BY <1>9, <1>12
  <2>3. \A i \in 1..Len(Append(e, j)) : Append(e, j)[i] = Stop <=> a + 1 < i /\ i <= (a + 1) + k
    <3> SUFFICES ASSUME NEW i \in 1..(Len(e) + 1) PROVE Append(e, j)[i] # Stop
      BY <1>8, <2>2
    <3>1. CASE i \in 1..Len(e)  BY <1>8, <1>9, <2>2, <3>1
    <3>2. CASE i = Len(e) + 1  BY <1>8, <1>10, <3>2
    <3>3. QED  BY <1>8, <3>1, <3>2
  <2>4. Shape(a + 1, k)'  BY <1>2, <1>7, <1>8, <1>12, <2>2, <2>3 DEF Shape
  <2>5. /\ PoolWaiting' = SubSeq(Append(e, j), 1, a + 1)
        /\ PoolBehind' = SubSeq(Append(e, j), (a + 1) + k + 1, Len(Append(e, j)))
    BY <1>1, <1>7, <2>2, <2>4, SightNext DEF Sight
  <2>6. Append(e, j) \in Seq(Jobs \cup {Stop})  BY <1>8, AppendProperties
  <2>7. PoolWaiting' = Append(e, j)  BY <1>8, <2>2, <2>5, <2>6, SubSeqFull
  <2>8. PoolWaiting = e  BY <1>4, <1>8, <2>2, SubSeqFull
  <2>9. PoolBehind' = <<>>
    <3>1. (a + 1) + k + 1 = Len(Append(e, j)) + 1  BY <1>8, <2>2
    <3>2. QED  BY <1>8, <2>5, <3>1, SubSeqEmpty
  <2>10. PoolBehind = <<>>
    <3>1. a + k + 1 = Len(e) + 1  BY <1>8, <2>2
    <3>2. QED  BY <1>4, <1>8, <3>1, SubSeqEmpty
  <2>11. Pool!Submit(j)  BY <1>1, <1>2, <2>1, <2>7, <2>8, <2>9, <2>10 DEF Pool!Submit
  <2>12. QED  BY <1>6, <2>2, <2>4, <2>11 DEF Shaped
<1>13. QED  BY <1>11, <1>12

\* A change of concurrency asks for the new limit, with a sentinel for every worker.
LEMMA PoolAsk ==
    ASSUME IInv, IInv', Shaped, apart, NEW s \in Savers, NEW n \in Sizes, BeginChange(s, n)
    PROVE  Shaped' /\ Pool!AskResize(n)
<1> DEFINE e == entries[gen]
<1>0. PICK c \in Nat : c = Cardinality(members)  BY Known
<1> DEFINE z == Sentinels(c)
<1>1. /\ UNCHANGED <<apart, gen, concurrency, members, pc, running>>
      /\ ~Changing /\ n # concurrency
      /\ entries' = [entries EXCEPT ![gen] = e \o z]
      /\ save' = [save EXCEPT ![s] = [pc |-> "gather", want |-> n, waits |-> members]]
  BY <1>0 DEF BeginChange, poolVars, workerVars
<1>2. PICK a \in Nat, k \in Nat : Shape(a, k)  BY DEF Shaped
<1>3. k = 0 /\ a = Len(e) /\ \A i \in 1..Len(e) : e[i] # Stop  BY <1>1, <1>2 DEF Shape
<1>4. /\ e \in Seq(Jobs \cup {Stop}) /\ Len(e) \in Nat /\ c \in Nat /\ gen \in Gens
      /\ entries \in [Gens -> Seq(Jobs \cup {Stop})]
  BY Known
<1>5. c = concurrency /\ Workers = members /\ c > 0
  <2>1. c = concurrency /\ Workers = members  BY <1>0, <1>1 DEF Shaped, Complete
  <2>2. concurrency \in Sizes  BY Known DEF Wf, TypeOK
  <2>3. QED  BY <2>1, <2>2, SizesArePositive
<1>6. save'[s].pc = "gather" /\ save'[s].want = n
  <2>1. save \in [Savers -> [pc : {"idle", "gather"}, want : Sizes \cup {0}, waits : SUBSET Tasks]]
    BY Known DEF Wf, TypeOK
  <2>2. QED  BY <1>1, <2>1
<1>7. Changing'  BY <1>6 DEF Changing
<1>8. Workers' = Workers  BY <1>1 DEF Workers, Live
<1>9. entries'[gen'] = e \o z  BY <1>1, <1>4
<1> HIDE DEF e
<1>10. z \in Seq(Jobs \cup {Stop}) /\ Len(z) = c  BY <1>4, SentinelsLength
<1>11. \A i \in 1..c : z[i] = Stop  BY DEF Sentinels
<1> HIDE DEF z
<1>12. /\ e \o z \in Seq(Jobs \cup {Stop}) /\ Len(e \o z) = Len(e) + c
       /\ \A i \in 1..(Len(e) + c) : (e \o z)[i] = IF i <= Len(e) THEN e[i] ELSE z[i - Len(e)]
  BY <1>4, <1>10, ConcatProperties
<1>13. \A i \in 1..Len(e \o z) : (e \o z)[i] = Stop <=> a < i /\ i <= a + c
  <2> SUFFICES ASSUME NEW i \in 1..(Len(e) + c) PROVE (e \o z)[i] = Stop <=> Len(e) < i
    BY <1>3, <1>4, <1>12
  <2>1. CASE i <= Len(e)
    <3>1. i \in 1..Len(e)  BY <1>4, <2>1
    <3>2. QED  BY <1>3, <1>4, <1>12, <2>1, <3>1
  <2>2. CASE ~(i <= Len(e))
    <3>1. i - Len(e) \in 1..c  BY <1>4, <2>2
    <3>2. QED  BY <1>4, <1>11, <1>12, <2>2, <3>1
  <2>3. QED  BY <2>1, <2>2
<1>14. Shape(a, c)'
  <2>1. a + c <= Len(e \o z)  BY <1>3, <1>4, <1>12
  <2>2. c = Cardinality(Workers')  BY <1>0, <1>5, <1>8
  <2>3. QED  BY <1>5, <1>7, <1>9, <1>13, <2>1, <2>2 DEF Shape
<1>15. /\ PoolWaiting' = SubSeq(e \o z, 1, a) /\ PoolBehind' = SubSeq(e \o z, a + c + 1, Len(e \o z))
       /\ PoolWanted' = n /\ PoolActive' = running' /\ PoolLimit' = concurrency'
  BY <1>1, <1>4, <1>6, <1>9, <1>14, SightNext DEF Sight
<1>16. /\ PoolWaiting = SubSeq(e, 1, a) /\ PoolBehind = SubSeq(e, a + k + 1, Len(e))
       /\ PoolWanted = 0 /\ PoolActive = running /\ PoolLimit = concurrency
  BY <1>1, <1>2, SightNow DEF Sight, e
<1>17. SubSeq(e \o z, 1, a) = SubSeq(e, 1, a)
  <2>1. CASE a = 0  BY <2>1, SubSeqEmpty
  <2>2. CASE a # 0
    <3>1. 1 \in 1..Len(e) /\ a \in 1..Len(e)  BY <1>3, <1>4, <2>2
    <3>2. QED  BY <1>4, <1>10, <3>1, SubSeqOfConcat1
  <2>3. QED  BY <2>1, <2>2
<1>18. SubSeq(e \o z, a + c + 1, Len(e \o z)) = <<>>
  <2>1. a + c + 1 = Len(e \o z) + 1 /\ Len(e \o z) \in Nat  BY <1>3, <1>4, <1>12
  <2>2. QED  BY <2>1, SubSeqEmpty
<1>19. SubSeq(e, a + k + 1, Len(e)) = <<>>
  <2>1. a + k + 1 = Len(e) + 1  BY <1>3, <1>4
  <2>2. QED  BY <1>4, <2>1, SubSeqEmpty
<1>20. Pool!AskResize(n)
  BY <1>1, <1>15, <1>16, <1>17, <1>18, <1>19 DEF Pool!AskResize
<1>21. Complete'  BY <1>1, <1>7 DEF Shaped, Complete
<1>22. QED  BY <1>4, <1>14, <1>20, <1>21 DEF Shaped

\* The end of the change: everything ahead of the sentinels is done, and what is
\* behind them goes.
LEMMA PoolResize ==
    ASSUME IInv, IInv', Shaped, apart, NEW s \in Savers, EndChange(s)
    PROVE  Shaped' /\ Pool!Resize
<1> DEFINE e == entries[gen]
           n == save[s].want
           new == (born + 1)..(born + n)
<1>1. /\ save[s].pc = "gather" /\ \A t \in save[s].waits : pc[t] = "ended"
      /\ gen' = gen + 1 /\ concurrency' = n /\ members' = new
      /\ pc' = [t \in Tasks |-> IF t \in new THEN "new" ELSE pc[t]]
      /\ save' = [save EXCEPT ![s] = IdleSave]
      /\ UNCHANGED <<apart, entries, running>>
  BY DEF EndChange
<1>2. s \in Pending /\ Changing  BY <1>1 DEF Pending, Changing
<1>3. n \in Sizes /\ n \in Nat /\ n > 0
  <2>1. n \in Sizes  BY <1>2, Known DEF Wf
  <2> HIDE DEF n
  <2>2. QED  BY <2>1, SizesArePositive
<1>4. Workers = {}  BY <1>1, <1>2, Known DEF WaitsForAll, Workers, Live
<1>5. PICK a \in Nat, k \in Nat : Shape(a, k)  BY DEF Shaped
<1>6. a = 0 /\ k = 0
  <2>1. k = Cardinality(Workers) /\ (k = 0 => a = 0)  BY <1>2, <1>5 DEF Shape
  <2>2. QED  BY <1>4, <2>1, FS_EmptySet
<1>7. /\ PoolWaiting = SubSeq(e, 1, a) /\ PoolWanted = n /\ PoolActive = running
  BY <1>1, <1>5, SightNow DEF Sight
<1>8. PoolWaiting = <<>>
  <2> HIDE DEF e
  <2>1. SubSeq(e, 1, 0) = <<>>  BY SubSeqEmpty
  <2>2. QED  BY <1>6, <1>7, <2>1
<1>9. running = {}  BY <1>4, Known DEF Held, Busy, Workers, Live
<1>10. ~Changing'
  <2>1. \A u \in Savers : u # s => save[u].pc # "gather"  BY <1>1, Known DEF OneChange, Pending
  <2>2. save \in [Savers -> [pc : {"idle", "gather"}, want : Sizes \cup {0}, waits : SUBSET Tasks]]
    BY Known DEF Wf, TypeOK
  <2>3. \A u \in Savers : save'[u].pc # "gather"  BY <1>1, <2>1, <2>2 DEF IdleSave
  <2>4. QED  BY <2>3 DEF Changing
<1>11. entries'[gen'] = <<>>
  <2>1. gen + 1 \in Gens /\ gen + 1 > gen  BY <1>2, Known, RoomForChange, GenType DEF Wf
  <2>2. QED  BY <1>1, <2>1, Known DEF Wf
<1>12. Shape(0, 0)'  BY <1>10, <1>11 DEF Shape
<1>13. /\ PoolWaiting' = SubSeq(<<>>, 1, 0) /\ PoolBehind' = SubSeq(<<>>, 1, 0)
       /\ PoolWanted' = 0 /\ PoolActive' = running' /\ PoolLimit' = n
  <2>1. /\ PoolWaiting' = SubSeq(entries'[gen'], 1, 0)
        /\ PoolBehind' = SubSeq(entries'[gen'], 0 + 0 + 1, Len(entries'[gen']))
        /\ PoolWanted' = 0 /\ PoolActive' = running' /\ PoolLimit' = concurrency'
    BY <1>1, <1>10, <1>12, SightNext DEF Sight
  <2>2. QED  BY <1>1, <1>11, <2>1
<1>14. SubSeq(<<>>, 1, 0) = <<>>  BY SubSeqEmpty
<1>15. Pool!Resize
  <2>1. PoolWanted # 0  BY <1>3, <1>7
  <2> HIDE DEF n
  <2>2. QED  BY <1>1, <1>7, <1>8, <1>9, <1>13, <1>14, <2>1 DEF Pool!Resize
<1>16. Workers' = members'
  <2>1. members' \subseteq Tasks
    <3>1. Wf'  BY DEF IInv
    <3>2. QED  BY <3>1, TaskBound DEF Wf, TypeOK, Tasks
  <2>2. \A t \in Tasks : Live(t)' <=> t \in new  BY <1>1, <1>4 DEF Workers, Live
  <2>3. QED  BY <1>1, <2>1, <2>2 DEF Workers
<1>17. Cardinality(new) = n
  <2>1. born \in Nat  BY Known, TaskBound DEF Wf, TypeOK
  <2> HIDE DEF n
  <2>2. born + 1 \in Int /\ born + n \in Int /\ ~(born + 1 > born + n)
        /\ (born + n) - (born + 1) + 1 = n
    BY <1>3, <2>1
  <2>3. QED  BY <2>2, FS_Interval
<1>18. Complete'  BY <1>1, <1>16, <1>17 DEF Complete
<1>19. QED  BY <1>12, <1>15, <1>18 DEF Shaped

\* Where saves may overlap the pool is idle, and its size still follows them.
LEMMA PoolIdle ==
    ASSUME IInv, Shaped, ~apart, [Next]_vars
    PROVE  Shaped' /\ UNCHANGED Pool!vars
<1>1. apart' = apart
  BY WorkerStepFrame DEF Next, Enqueue, BeginChange, EndChange, vars
<1>2. UNCHANGED Pool!vars
  BY <1>1 DEF Pool!vars, PoolWaiting, PoolBehind, PoolActive, PoolLimit, PoolWanted
<1>3. Cardinality(members') = concurrency'
  <2>1. CASE UNCHANGED <<members, concurrency>>  BY <2>1 DEF Shaped, Complete
  <2>2. ASSUME NEW s \in Savers, EndChange(s) PROVE Cardinality(members') = concurrency'
    <3> DEFINE n == save[s].want
    <3>1. members' = (born + 1)..(born + n) /\ concurrency' = n /\ save[s].pc = "gather"
      BY <2>2 DEF EndChange
    <3>2. n \in Nat /\ n > 0 /\ born \in Nat
      <4>1. n \in Sizes  BY <3>1 DEF IInv, Wf, Pending
      <4>2. born \in Nat  BY TaskBound DEF IInv, Wf, TypeOK
      <4> HIDE DEF n
      <4>3. QED  BY <4>1, <4>2, SizesArePositive
    <3> HIDE DEF n
    <3>3. born + 1 \in Int /\ born + n \in Int /\ ~(born + 1 > born + n)
          /\ (born + n) - (born + 1) + 1 = n
      BY <3>2
    <3>4. QED  BY <3>1, <3>3, FS_Interval
  <2>3. QED  BY <2>1, <2>2, WorkerStepFrame DEF Next, Enqueue, BeginChange, vars, poolVars
<1>4. QED  BY <1>1, <1>2, <1>3 DEF Shaped, Complete

\* The initial pool.
LEMMA PoolInit == Init => Shaped /\ Pool!Init
<1> SUFFICES ASSUME Init PROVE Shaped /\ Pool!Init  OBVIOUS
<1>1. InitialSize \in 1..Biggest /\ InitialSize \in Sizes /\ Biggest \in Nat /\ 1 \in Gens
  BY QueueAssumption DEF Gens
<1>2. Cardinality(members) = concurrency
  <2>1. 1 \in Int /\ InitialSize \in Int /\ ~(1 > InitialSize) /\ InitialSize - 1 + 1 = InitialSize  BY <1>1
  <2>2. QED  BY <2>1, FS_Interval DEF Init
<1>3. Workers = members
  <2>1. 1..InitialSize \subseteq Tasks
    <3>1. 1 \in Gens /\ Biggest * 1 = Biggest  BY <1>1
    <3>2. Biggest <= Biggest * (MaxChanges + 1)  BY <3>1, TaskBound
    <3>3. QED  BY <1>1, <3>2, TaskBound DEF Tasks
  <2>2. QED  BY <2>1 DEF Init, Workers, Live
<1>4. ~Changing  BY DEF Init, Changing, IdleSave
<1>5. entries[gen] = <<>>  BY <1>1 DEF Init
<1>6. Shape(0, 0)  BY <1>4, <1>5 DEF Shape
<1>7. Shaped  BY <1>2, <1>3, <1>6 DEF Shaped, Complete
<1>8. Ahead = <<>> /\ Behind = <<>>
  <2>1. StopsAt = {}  BY <1>5 DEF StopsAt
  <2>2. QED  BY <1>4, <1>5, <2>1 DEF Ahead, Behind
<1>9. Active = {}  BY DEF Init, Active
<1>10. Pool!Init
  BY <1>1, <1>4, <1>8, <1>9
  DEF Pool!Init, PoolWaiting, PoolBehind, PoolActive, PoolLimit, PoolWanted, Wanted, Init
<1>11. QED  BY <1>7, <1>10

\* Every step keeps the shape, and is a step of the pool or none.
LEMMA PoolStep == IInv /\ IInv' /\ Shaped /\ [Next]_vars => Shaped' /\ [Pool!Next]_(Pool!vars)
<1> SUFFICES ASSUME IInv, IInv', Shaped, [Next]_vars
             PROVE  Shaped' /\ (Pool!Next \/ UNCHANGED Pool!vars)
  OBVIOUS
<1>1. CASE ~apart  BY <1>1, PoolIdle
<1>2. CASE apart
  <2>1. ASSUME NEW j \in Jobs, Enqueue(j) PROVE Shaped' /\ Pool!Next
    BY <1>2, <2>1, PoolEnqueue DEF Pool!Next
  <2>2. ASSUME NEW s \in Savers, NEW n \in Sizes, BeginChange(s, n) PROVE Shaped' /\ Pool!Next
    BY <1>2, <2>2, PoolAsk DEF Pool!Next
  <2>3. ASSUME NEW s \in Savers, EndChange(s) PROVE Shaped' /\ Pool!Next
    BY <1>2, <2>3, PoolResize DEF Pool!Next
  <2>4. CASE UNCHANGED vars
    <3>1. UNCHANGED <<apart, gen, entries, running, concurrency, members, pc, job, save>>
      BY <2>4 DEF vars, queueVars, poolVars, workerVars
    <3>2. PICK a \in Nat, k \in Nat : Shape(a, k)  BY <1>2 DEF Shaped
    <3>3. Workers' = Workers  BY <3>1 DEF Workers, Live
    <3>4. Shape(a, k)'  BY <3>1, <3>2, <3>3, ShapeKept
    <3>5. Shaped'  BY <3>1, <3>3, <3>4 DEF Shaped, Complete, Changing
    <3>6. /\ PoolLimit' = PoolLimit /\ PoolWanted' = PoolWanted /\ PoolActive' = PoolActive
      BY <1>2, <3>1, SightKept
    <3>7. /\ PoolWaiting = SubSeq(entries[gen], 1, a)
          /\ PoolBehind = SubSeq(entries[gen], a + k + 1, Len(entries[gen]))
      BY <1>2, <3>2, SightNow DEF Sight
    <3>8. /\ PoolWaiting' = SubSeq(entries'[gen'], 1, a)
          /\ PoolBehind' = SubSeq(entries'[gen'], a + k + 1, Len(entries'[gen']))
      BY <1>2, <3>1, <3>4, SightNext DEF Sight
    <3>9. QED  BY <3>1, <3>5, <3>6, <3>7, <3>8 DEF Pool!vars
  <2>5. QED  BY <1>2, <2>1, <2>2, <2>3, <2>4, PoolWorker DEF Next
<1>3. QED  BY <1>1, <1>2

\* Where saves do not overlap the queue implements WorkPool, fairness aside: jobs
\* are taken in order, never twice at a time and never more than the limit, and a
\* change of concurrency waits for what came before it and loses only what came
\* after it.
THEOREM QueueIsWorkPool == Spec => Pool!Init /\ [][Pool!Next]_(Pool!vars)
<1>1. IInv /\ [Next]_vars => IInv'  BY WfNext, HeldNext, SlotsNext, CalmNext DEF IInv
<1>2. Init => IInv  BY WfInit, HeldInit, SlotsInit, CalmInit DEF IInv
<1>3. QED  BY <1>1, <1>2, PoolInit, PoolStep, PTL DEF Spec
=============================================================================
