---------------------------- MODULE JobData_proofs ----------------------------
(***************************************************************************)
(* Proofs about what a job keeps and what its run reads: whatever requests *)
(* and process deaths meet, the audio under a job's path is that job's own *)
(* unless its file was shared by a restart or a request overtook another,  *)
(* and the run of a job loads the model and the diarizer its row asks for. *)
(***************************************************************************)
EXTENDS JobMedia, ModelChoice, FiniteSetTheorems, WellFoundedInduction, TLAPS

\* A non-empty set of numbers has a least one.
LEMMA LeastNumber ==
    ASSUME NEW T \in SUBSET Nat, T # {}
    PROVE  \E x \in T : \A y \in T : x <= y
<1>1. \E x \in T : \A y \in T : ~(<<y, x>> \in OpToRel(<, Nat))
  BY NatLessThanWellFounded, WFMin
<1>2. PICK x \in T : \A y \in T : ~(<<y, x>> \in OpToRel(<, Nat))  BY <1>1
<1>3. \A y \in T : ~(y < x)  BY <1>2 DEF OpToRel
<1>4. QED  BY <1>3

-----------------------------------------------------------------------------
(* Media. *)

\* A row, and what a handler can be about to commit.
MediaRow == [path : Paths, upload : MediaJobs,
             status : {"queued", "processing", "cancelling", "resting"}]
MediaTask == {Idle} \cup [op : {"create", "rename"}, job : MediaJobs, path : Paths]
                    \cup [op : {"restart"}, job : MediaJobs, copy : MediaRow]
                    \cup [op : {"delete"}, job : MediaJobs]

MediaTypes ==
    /\ DOMAIN disk \subseteq Paths
    /\ \A p \in DOMAIN disk : disk[p] \in MediaJobs
    /\ jobRow \in [MediaJobs -> {NoRow} \cup MediaRow]
    /\ task \in [MediaHandlers -> MediaTask]

TaskOf(h, i)  == task[h] # Idle /\ task[h].job = i
Writing(h, i) == TaskOf(h, i) /\ task[h].op \in {"create", "rename"}
OneTask(i)    == \A g, h \in MediaHandlers : TaskOf(g, i) /\ TaskOf(h, i) => g = h

\* Where the media of a job is: at the path a handler is about to commit, or
\* where its row says if nobody is at it.
MediaAt(i, p) ==
    \/ \E h \in MediaHandlers : Writing(h, i) /\ task[h].path = p
    \/ i \in Rows /\ jobRow[i].path = p /\ ~Busy(i)

\* No two files hold the same upload.
FilesApart == \A p, q \in DOMAIN disk : disk[p] = disk[q] => p = q

\* The job of an upload or of a restart has no row yet and no other handler.
FreshTask(h) ==
    task[h].op \in {"create", "restart"} => task[h].job \notin Rows /\ OneTask(task[h].job)

\* Nobody is about to write to p, and who has a row that leads to p will have
\* another one or none when its one handler is through.
Others(i, p) ==
    \A j \in MediaJobs \ {i} :
      /\ \A h \in MediaHandlers : Writing(h, j) => task[h].path # p
      /\ j \in Rows /\ jobRow[j].path = p => Busy(j) /\ OneTask(j)

\* What holds of a job that is not tangled.
Clean(i) ==
    /\ OneTask(i)
    /\ i \in Rows => jobRow[i].upload = i
    /\ \A p \in Paths : MediaAt(i, p) => p \in DOMAIN disk /\ disk[p] = i /\ Others(i, p)

MediaInv ==
    /\ MediaTypes
    /\ FilesApart
    /\ \A h \in MediaHandlers : FreshTask(h)
    /\ \A i \in MediaJobs \ tangled : Clean(i)

-----------------------------------------------------------------------------

\* There are more counters than files, so one is free.
LEMMA FreeCounter ==
    ASSUME MediaTypes, FilesApart, NEW name \in MediaNames
    PROVE  \E n \in 0..Cardinality(MediaJobs) : <<name, n>> \notin DOMAIN disk
<1> DEFINE N == Cardinality(MediaJobs)
           f == [n \in 0..N |-> disk[<<name, n>>]]
<1>1. N \in Nat  BY JobMediaConstants, FS_CardinalityType
<1>2. SUFFICES ASSUME \A n \in 0..N : <<name, n>> \in DOMAIN disk PROVE FALSE  OBVIOUS
<1>3. f \in [0..N -> MediaJobs]  BY <1>2 DEF MediaTypes
<1>4. IsFiniteSet(0..N) /\ Cardinality(0..N) = N + 1
  <2>1. 0 \in Int /\ N \in Int /\ ~(0 > N) /\ N - 0 + 1 = N + 1  BY <1>1
  <2> HIDE DEF N
  <2>2. QED  BY <2>1, FS_Interval
<1>5. PICK x \in 0..N, y \in 0..N : x # y /\ f[x] = f[y]
  <2>1. N < N + 1  BY <1>1
  <2> HIDE DEF f
  <2>2. QED  BY <1>3, <1>4, <2>1, JobMediaConstants, FS_PigeonHole
<1>6. disk[<<name, x>>] = disk[<<name, y>>]  BY <1>5
<1>7. <<name, x>> = <<name, y>>  BY <1>2, <1>6 DEF FilesApart
<1>8. QED  BY <1>5, <1>7

\* resolve_unique_media_path returns a free path or the current one.
LEMMA UniquePathIsFree ==
    ASSUME MediaTypes, FilesApart, NEW name \in MediaNames, NEW current
    PROVE  /\ UniquePath(name, current) \in Paths
           /\ UniquePath(name, current) = current \/ UniquePath(name, current) \notin DOMAIN disk
<1> DEFINE N == Cardinality(MediaJobs)
           open(n) == <<name, n>> = current \/ <<name, n>> \notin DOMAIN disk
           T == {n \in 0..N : open(n)}
<1>1. N \in Nat  BY JobMediaConstants, FS_CardinalityType
<1>2. T # {}  BY FreeCounter
<1>3. T \in SUBSET Nat  BY <1>1
<1>4. \E x \in T : \A y \in T : x <= y
  <2> HIDE DEF T
  <2>1. QED  BY <1>2, <1>3, LeastNumber
<1>5. \E n \in 0..N : open(n) /\ \A k \in 0..(n - 1) : ~open(k)
  <2>1. PICK x \in T : \A y \in T : x <= y  BY <1>4
  <2>2. ASSUME NEW k \in 0..(x - 1) PROVE ~open(k)
    <3>1. k \in 0..N /\ ~(x <= k)  BY <1>1, <2>1
    <3>2. k \notin T  BY <2>1, <3>1
    <3>3. QED  BY <3>1, <3>2
  <2>3. QED  BY <2>1, <2>2
<1> DEFINE c == CHOOSE n \in 0..N : open(n) /\ \A k \in 0..(n - 1) : ~open(k)
<1>6. c \in 0..N /\ open(c)  BY <1>5
<1>7. UniquePath(name, current) = <<name, c>>  BY DEF UniquePath
<1> HIDE DEF c
<1>8. QED  BY <1>6, <1>7 DEF Paths

\* The members of MediaTask by their operation.
LEMMA TaskShape ==
    ASSUME MediaTypes, NEW h \in MediaHandlers
    PROVE  /\ task[h] # Idle <=> task[h].op # "idle"
           /\ task[h] # Idle => task[h].job \in MediaJobs
           /\ task[h].op \in {"create", "rename"} => task[h].path \in Paths
           /\ task[h].op = "restart" => task[h].copy \in MediaRow
           /\ task[h].op \in {"idle", "create", "rename", "restart", "delete"}
BY DEF MediaTypes, MediaTask, Idle

\* PathsOf, by its elements.
LEMMA InPathsOf ==
    ASSUME NEW i, NEW p
    PROVE  p \in PathsOf(i) <=> \/ i \in Rows /\ jobRow[i].path = p
                                \/ \E h \in MediaHandlers : Writing(h, i) /\ task[h].path = p
BY DEF PathsOf, Writing, TaskOf

\* A job that Around(js) leaves out shares no path with those of js.
LEMMA OutsideAround ==
    ASSUME NEW js, NEW i \in MediaJobs, i \notin Around(js), NEW j \in js
    PROVE  i # j /\ \A p \in PathsOf(j) : p \notin PathsOf(i)
BY DEF Around, At

\* What Begin does to a job that is not tangled afterwards.
LEMMA BeginClean ==
    ASSUME NEW h \in MediaHandlers, NEW j \in MediaJobs, NEW t, Begin(h, j, t),
           NEW i \in MediaJobs \ tangled'
    PROVE  /\ i \notin tangled
           /\ Busy(j) => i # j /\ \A p \in PathsOf(j) : p \notin PathsOf(i)
           /\ i = j /\ "path" \in DOMAIN t => \A k \in MediaJobs : t.path \in PathsOf(k) => k \notin tangled
<1>1. i \notin tangled /\ (Busy(j) => i \notin Around({j}))  BY DEF Begin
<1>2. ASSUME Busy(j) PROVE i # j /\ \A p \in PathsOf(j) : p \notin PathsOf(i)
  BY <1>1, <1>2, OutsideAround
<1>3. ASSUME i = j, "path" \in DOMAIN t, NEW k \in MediaJobs, t.path \in PathsOf(k) PROVE k \notin tangled
  BY <1>3 DEF Begin, At
<1>4. QED  BY <1>1, <1>2, <1>3

\* The preservation of MediaInv, one lemma per action: create_job saves an upload.
LEMMA UploadStep ==
    ASSUME MediaInv, NEW h \in MediaHandlers, Upload(h)
    PROVE  MediaInv'
<1>1. PICK j \in Unused, name \in MediaNames :
        /\ disk' = Placed(disk, UniquePath(name, NoRow), j)
        /\ Begin(h, j, [op |-> "create", job |-> j, path |-> UniquePath(name, NoRow)])
  BY DEF Upload
<1>2. PICK p \in Paths : p = UniquePath(name, NoRow) /\ p \notin DOMAIN disk
  BY UniquePathIsFree, JobMediaConstants DEF MediaInv
<1> DEFINE t == [op |-> "create", job |-> j, path |-> p]
<1>3. /\ task[h] = Idle /\ jobRow' = jobRow /\ task' = [task EXCEPT ![h] = t]
      /\ disk' = Placed(disk, p, j) /\ Begin(h, j, t)
  BY <1>1, <1>2 DEF Begin
<1>4. /\ j \in MediaJobs /\ j \notin Rows /\ jobRow[j] = NoRow
      /\ \A g \in MediaHandlers : ~TaskOf(g, j)
      /\ \A q \in DOMAIN disk : disk[q] # j
  BY DEF Unused, TaskOf, Rows
<1>5. /\ DOMAIN disk' = DOMAIN disk \cup {p} /\ disk'[p] = j
      /\ \A q \in DOMAIN disk : disk'[q] = disk[q]
  BY <1>2, <1>3 DEF Placed
<1>6. /\ task'[h] = t /\ \A g \in MediaHandlers \ {h} : task'[g] = task[g]
      /\ t \in MediaTask /\ t # Idle /\ t.op = "create" /\ t.job = j /\ t.path = p
  BY <1>2, <1>3, <1>4 DEF MediaInv, MediaTypes, MediaTask, Idle
<1>7. MediaTypes'
  BY <1>2, <1>3, <1>4, <1>5, <1>6 DEF MediaInv, MediaTypes
<1>8. FilesApart'
  BY <1>4, <1>5 DEF MediaInv, FilesApart
<1> HIDE DEF t
<1>9. Rows' = Rows  BY <1>3 DEF Rows
<1>10. /\ \A g \in MediaHandlers, i \in MediaJobs :
            /\ TaskOf(g, i)' <=> IF g = h THEN i = j ELSE TaskOf(g, i)
            /\ Writing(g, i)' <=> IF g = h THEN i = j ELSE Writing(g, i)
            /\ task[h] = Idle /\ ~TaskOf(h, i)
  BY <1>3, <1>6 DEF TaskOf, Writing
<1>11. ASSUME NEW g \in MediaHandlers PROVE FreshTask(g)'
  BY <1>3, <1>4, <1>6, <1>9, <1>10, TaskShape DEF MediaInv, FreshTask, OneTask
<1>12. ASSUME NEW i \in MediaJobs \ tangled' PROVE Clean(i)'
  <2>1. i \notin tangled /\ Clean(i)  BY <1>3, <1>4, BeginClean DEF MediaInv
  <2>2. CASE i # j
    <3>1. \A q : MediaAt(i, q)' => MediaAt(i, q)
      BY <1>3, <1>4, <1>6, <1>9, <1>10, <2>2 DEF MediaAt, Busy, TaskOf
    <3>2. ASSUME NEW q \in Paths, MediaAt(i, q) PROVE Others(i, q)' /\ q \in DOMAIN disk' /\ disk'[q] = i
      BY <1>2, <1>3, <1>4, <1>5, <1>6, <1>9, <1>10, <2>1, <2>2, <3>2 DEF Clean, Others, Busy, OneTask, TaskOf
    <3>3. QED  BY <1>3, <1>6, <1>9, <1>10, <2>1, <2>2, <3>1, <3>2 DEF Clean, OneTask
  <2>3. CASE i = j
    <3>1. \A k \in MediaJobs : p \in PathsOf(k) => k \notin tangled
      BY <1>3, <1>4, <1>6, <2>3, BeginClean DEF t
    <3>2. \A q : MediaAt(i, q)' => q = p
      BY <1>3, <1>4, <1>6, <1>9, <1>10, <2>3 DEF MediaAt, Writing
    <3>3. ASSUME NEW k \in MediaJobs \ {j} PROVE
            /\ \A g \in MediaHandlers : Writing(g, k) => task[g].path # p
            /\ k \in Rows /\ jobRow[k].path = p => Busy(k) /\ OneTask(k)
      <4>1. \A g \in MediaHandlers : Writing(g, k) /\ task[g].path = p => k \notin tangled /\ MediaAt(k, p)
        BY <3>1, InPathsOf DEF MediaAt
      <4>2. k \in Rows /\ jobRow[k].path = p => k \notin tangled  BY <3>1, InPathsOf
      <4>3. k \notin tangled => Clean(k)  BY DEF MediaInv
      <4>4. QED  BY <1>2, <4>1, <4>2, <4>3 DEF Clean, MediaAt
    <3>4. Others(i, p)'
      BY <1>3, <1>6, <1>9, <1>10, <2>3, <3>3 DEF Others, Busy, OneTask, TaskOf
    <3>5. QED  BY <1>4, <1>5, <1>6, <1>9, <1>10, <2>3, <3>2, <3>4 DEF Clean, OneTask
  <2>4. QED  BY <2>2, <2>3
<1>13. QED  BY <1>7, <1>8, <1>11, <1>12 DEF MediaInv

\* The end of a handler, as the tasks see it.
LEMMA DoneTask ==
    ASSUME MediaTypes, NEW h \in MediaHandlers, NEW j \in MediaJobs, TaskOf(h, j), Done(h)
    PROVE  /\ task' \in [MediaHandlers -> MediaTask] /\ task'[h] = Idle /\ disk' = disk
           /\ \A g \in MediaHandlers \ {h} : task'[g] = task[g]
           /\ \A g \in MediaHandlers, i \in MediaJobs :
                /\ TaskOf(g, i)' <=> g # h /\ TaskOf(g, i)
                /\ Writing(g, i)' <=> g # h /\ Writing(g, i)
                /\ i # j => ~TaskOf(h, i) /\ ~Writing(h, i)
           /\ \A i \in MediaJobs \ {j} : (Busy(i)' <=> Busy(i)) /\ (OneTask(i)' <=> OneTask(i))
           /\ \A i \in MediaJobs : OneTask(i) => OneTask(i)'
           /\ OneTask(j) => ~Busy(j)'
<1>1. task' = [task EXCEPT ![h] = Idle] /\ disk' = disk  BY DEF Done
<1>2. task'[h] = Idle /\ \A g \in MediaHandlers \ {h} : task'[g] = task[g]
  BY <1>1 DEF MediaTypes
<1>3. task' \in [MediaHandlers -> MediaTask]  BY <1>1 DEF MediaTypes, MediaTask
<1>4. \A g \in MediaHandlers, i \in MediaJobs :
        /\ TaskOf(g, i)' <=> g # h /\ TaskOf(g, i)
        /\ Writing(g, i)' <=> g # h /\ Writing(g, i)
        /\ i # j => ~TaskOf(h, i) /\ ~Writing(h, i)
  BY <1>2 DEF TaskOf, Writing
<1>5. \A i \in MediaJobs \ {j} : (Busy(i)' <=> Busy(i)) /\ (OneTask(i)' <=> OneTask(i))
  BY <1>4 DEF Busy, TaskOf, OneTask
<1>6. \A i \in MediaJobs : OneTask(i) => OneTask(i)'  BY <1>4 DEF OneTask
<1>7. OneTask(j) => ~Busy(j)'  BY <1>4 DEF OneTask, Busy, TaskOf
<1>8. QED  BY <1>1, <1>2, <1>3, <1>4, <1>5, <1>6, <1>7

\* The commit of a handler keeps the invariant if the new row of its job leads
\* to where no clean job's media is, and to its own if it is clean itself.
LEMMA CommitStep ==
    ASSUME MediaInv, NEW h \in MediaHandlers, NEW j \in MediaJobs, TaskOf(h, j), Done(h),
           tangled \subseteq tangled',
           jobRow' \in [MediaJobs -> {NoRow} \cup MediaRow],
           \A i \in MediaJobs \ {j} : jobRow'[i] = jobRow[i],
           \A i \in MediaJobs \ (tangled' \cup {j}), q \in Paths :
              MediaAt(i, q) /\ j \in Rows' => q # jobRow'[j].path,
           j \notin tangled' /\ j \in Rows' => jobRow'[j].upload = j /\ MediaAt(j, jobRow'[j].path)
    PROVE  MediaInv'
<1> USE DoneTask
<1>1. MediaTypes'  BY DEF MediaInv, MediaTypes
<1>2. FilesApart'  BY DEF MediaInv, FilesApart
<1>3. \A i \in MediaJobs \ {j} : i \in Rows' <=> i \in Rows  BY DEF Rows
<1>4. ASSUME NEW g \in MediaHandlers PROVE FreshTask(g)'
  <2>1. CASE g = h  BY <2>1 DEF FreshTask, MediaInv, Idle
  <2>2. CASE g # h
    <3>1. SUFFICES ASSUME task[g].op \in {"create", "restart"} PROVE task[g].job \notin Rows' /\ OneTask(task[g].job)'
      BY <2>2 DEF FreshTask, MediaInv
    <3>2. PICK k \in MediaJobs : k = task[g].job /\ TaskOf(g, k)
      BY <3>1, TaskShape DEF MediaInv, TaskOf
    <3>3. k \notin Rows /\ OneTask(k)  BY <3>1, <3>2 DEF MediaInv, FreshTask
    <3>4. k # j  BY <2>2, <3>2, <3>3 DEF OneTask
    <3>5. task'[g].job = k /\ OneTask(k)' /\ k \notin Rows'  BY <1>3, <2>2, <3>2, <3>3, <3>4 DEF MediaInv
    <3>6. QED  BY <3>2, <3>5
  <2>3. QED  BY <2>1, <2>2
<1>5. ASSUME NEW i \in MediaJobs \ tangled' PROVE Clean(i)'
  <2>1. i \notin tangled /\ Clean(i)  BY DEF MediaInv
  <2>2. OneTask(i) /\ OneTask(i)'  BY <2>1 DEF Clean, MediaInv
  <2>3. i \in Rows' => jobRow'[i].upload = i  BY <1>3, <2>1 DEF Clean
  <2>4. \A q \in Paths : MediaAt(i, q)' => MediaAt(i, q)
    <3>1. CASE i = j  BY <2>2, <3>1 DEF MediaAt, OneTask, Writing, MediaInv
    <3>2. CASE i # j  BY <1>3, <3>2 DEF MediaAt, MediaInv
    <3>3. QED  BY <3>1, <3>2
  <2>5. ASSUME NEW q \in Paths, MediaAt(i, q) PROVE Others(i, q)'
    <3>1. Others(i, q)  BY <2>1, <2>5 DEF Clean
    <3>2. ASSUME NEW k \in MediaJobs \ {i}
          PROVE  /\ \A g \in MediaHandlers : Writing(g, k)' => task'[g].path # q
                 /\ k \in Rows' /\ jobRow'[k].path = q => Busy(k)' /\ OneTask(k)'
      <4>1. \A g \in MediaHandlers : Writing(g, k)' => task'[g].path # q  BY <3>1 DEF Others, MediaInv
      <4>2. CASE k = j  BY <2>5, <4>1, <4>2
      <4>3. CASE k # j  BY <1>3, <3>1, <4>1, <4>3 DEF Others, MediaInv
      <4>4. QED  BY <4>2, <4>3
    <3>3. QED  BY <3>2 DEF Others
  <2>6. QED  BY <2>1, <2>2, <2>3, <2>4, <2>5 DEF Clean, MediaInv
<1>6. QED  BY <1>1, <1>2, <1>4, <1>5 DEF MediaInv

\* create_job commits the row of its upload.
LEMMA InsertJobStep ==
    ASSUME MediaInv, NEW h \in MediaHandlers, InsertJob(h)
    PROVE  MediaInv'
<1>1. PICK j \in MediaJobs, p \in Paths : TaskOf(h, j) /\ p = task[h].path /\ j = task[h].job
  BY TaskShape DEF MediaInv, InsertJob, TaskOf, Idle
<1>2. j \notin Rows /\ Writing(h, j) /\ MediaAt(j, p) /\ Done(h) /\ tangled' = tangled
  BY <1>1 DEF MediaInv, FreshTask, InsertJob, Writing, MediaAt
<1>3. /\ jobRow' \in [MediaJobs -> {NoRow} \cup MediaRow]
      /\ \A i \in MediaJobs \ {j} : jobRow'[i] = jobRow[i]
      /\ j \in Rows' => jobRow'[j].path = p /\ jobRow'[j].upload = j
  BY <1>1, <1>2 DEF InsertJob, MediaInv, MediaTypes, MediaRow, Rows
<1>4. ASSUME NEW i \in MediaJobs \ (tangled' \cup {j}), NEW q \in Paths, MediaAt(i, q) PROVE q # p
  BY <1>1, <1>2, <1>4 DEF MediaInv, Clean, Others
<1>5. QED  BY <1>1, <1>2, <1>3, <1>4, CommitStep

\* rename_job commits the new path.
LEMMA CommitRenameStep ==
    ASSUME MediaInv, NEW h \in MediaHandlers, CommitRename(h)
    PROVE  MediaInv'
<1>1. PICK j \in MediaJobs, p \in Paths : TaskOf(h, j) /\ p = task[h].path /\ j = task[h].job
  BY TaskShape DEF MediaInv, CommitRename, TaskOf, Idle
<1>2. Writing(h, j) /\ MediaAt(j, p) /\ Done(h) /\ tangled' = tangled
  BY <1>1 DEF CommitRename, Writing, MediaAt
<1>3. /\ jobRow' \in [MediaJobs -> {NoRow} \cup MediaRow]
      /\ \A i \in MediaJobs \ {j} : jobRow'[i] = jobRow[i]
      /\ j \in Rows' => j \in Rows /\ jobRow'[j].path = p /\ jobRow'[j].upload = jobRow[j].upload
  BY <1>1 DEF CommitRename, MediaInv, MediaTypes, MediaRow, Rows
<1>4. ASSUME NEW i \in MediaJobs \ (tangled' \cup {j}), NEW q \in Paths, MediaAt(i, q) PROVE q # p
  BY <1>1, <1>2, <1>4 DEF MediaInv, Clean, Others
<1>5. j \notin tangled /\ j \in Rows => jobRow[j].upload = j  BY DEF MediaInv, Clean
<1>6. QED  BY <1>1, <1>2, <1>3, <1>4, <1>5, CommitStep

\* restart_job commits the row of the copy.
LEMMA CommitCopyStep ==
    ASSUME MediaInv, NEW h \in MediaHandlers, CommitCopy(h)
    PROVE  MediaInv'
<1>1. PICK j \in MediaJobs : TaskOf(h, j) /\ j = task[h].job /\ task[h].copy \in MediaRow
  BY TaskShape DEF MediaInv, CommitCopy, TaskOf, Idle
<1>2. PICK p \in Paths : p = task[h].copy.path  BY <1>1 DEF MediaRow
<1>3. Done(h) /\ tangled \subseteq tangled' /\ j \in tangled' /\ At({p}) \subseteq tangled'
  BY <1>1, <1>2 DEF CommitCopy
<1>4. /\ jobRow' \in [MediaJobs -> {NoRow} \cup MediaRow]
      /\ \A i \in MediaJobs \ {j} : jobRow'[i] = jobRow[i]
      /\ jobRow'[j].path = p
  BY <1>1, <1>2 DEF CommitCopy, MediaInv, MediaTypes, MediaRow
<1>5. ASSUME NEW i \in MediaJobs \ (tangled' \cup {j}), NEW q \in Paths, MediaAt(i, q) PROVE q # p
  <2>1. q \in PathsOf(i)  BY <1>5, InPathsOf DEF MediaAt
  <2>2. p \notin PathsOf(i)  BY <1>3 DEF At
  <2>3. QED  BY <2>1, <2>2
<1>6. QED  BY <1>1, <1>3, <1>4, <1>5, CommitStep

\* delete_job commits the removal of the row.
LEMMA CommitRemovalStep ==
    ASSUME MediaInv, NEW h \in MediaHandlers, CommitRemoval(h)
    PROVE  MediaInv'
<1>1. PICK j \in MediaJobs : TaskOf(h, j) /\ j = task[h].job
  BY TaskShape DEF MediaInv, CommitRemoval, TaskOf, Idle
<1>2. Done(h) /\ tangled' = tangled  BY DEF CommitRemoval
<1>3. /\ jobRow' \in [MediaJobs -> {NoRow} \cup MediaRow]
      /\ \A i \in MediaJobs \ {j} : jobRow'[i] = jobRow[i]
      /\ j \notin Rows'
  BY <1>1 DEF CommitRemoval, MediaInv, MediaTypes, Rows
<1>4. QED  BY <1>1, <1>2, <1>3, CommitStep

\* rename_job moves the file.
LEMMA MoveMediaStep ==
    ASSUME MediaInv, NEW h \in MediaHandlers, MoveMedia(h)
    PROVE  MediaInv'
<1>1. PICK j \in Rows, name \in MediaNames :
        /\ jobRow[j].path \in DOMAIN disk
        /\ disk' = Placed(Without(jobRow[j].path), UniquePath(name, jobRow[j].path), disk[jobRow[j].path])
        /\ Begin(h, j, [op |-> "rename", job |-> j, path |-> UniquePath(name, jobRow[j].path)])
  BY DEF MoveMedia
<1>2. PICK p \in Paths : p = jobRow[j].path /\ p \in DOMAIN disk
  BY <1>1 DEF MediaInv, MediaTypes, MediaRow, Rows
<1>3. PICK q \in Paths : q = UniquePath(name, p) /\ (q = p \/ q \notin DOMAIN disk)
  BY UniquePathIsFree DEF MediaInv
<1> DEFINE t == [op |-> "rename", job |-> j, path |-> q]
<1>4. /\ task[h] = Idle /\ jobRow' = jobRow /\ task' = [task EXCEPT ![h] = t]
      /\ disk' = Placed(Without(p), q, disk[p]) /\ Begin(h, j, t) /\ j \in MediaJobs
  BY <1>1, <1>2, <1>3 DEF Begin, Rows
<1>5. /\ DOMAIN disk' = (DOMAIN disk \ {p}) \cup {q} /\ disk'[q] = disk[p]
      /\ \A r \in DOMAIN disk \ {p} : disk'[r] = disk[r]
  BY <1>3, <1>4 DEF Placed, Without, Restrict
<1>6. /\ task'[h] = t /\ \A g \in MediaHandlers \ {h} : task'[g] = task[g]
      /\ t \in MediaTask /\ t # Idle /\ t.op = "rename" /\ t.job = j /\ t.path = q
  BY <1>2, <1>3, <1>4 DEF MediaInv, MediaTypes, MediaTask, Idle
<1>7. MediaTypes'
  BY <1>2, <1>3, <1>4, <1>5, <1>6 DEF MediaInv, MediaTypes
<1>8. FilesApart'
  BY <1>2, <1>3, <1>5 DEF MediaInv, FilesApart
<1>9. Rows' = Rows /\ "path" \in DOMAIN t  BY <1>4 DEF Rows
<1> HIDE DEF t
<1>10. /\ \A g \in MediaHandlers, i \in MediaJobs :
            /\ TaskOf(g, i)' <=> IF g = h THEN i = j ELSE TaskOf(g, i)
            /\ Writing(g, i)' <=> IF g = h THEN i = j ELSE Writing(g, i)
            /\ task[h] = Idle /\ ~TaskOf(h, i)
  BY <1>4, <1>6 DEF TaskOf, Writing
<1>11. ASSUME NEW g \in MediaHandlers PROVE FreshTask(g)'
  <2>1. CASE g = h  BY <1>6, <2>1 DEF FreshTask
  <2>2. CASE g # h
    <3>1. SUFFICES ASSUME task[g].op \in {"create", "restart"} PROVE task[g].job \notin Rows' /\ OneTask(task[g].job)'
      BY <1>6, <2>2 DEF FreshTask
    <3>2. PICK k \in MediaJobs : k = task[g].job  BY <3>1, TaskShape DEF MediaInv
    <3>3. k \notin Rows /\ OneTask(k) /\ k # j  BY <1>1, <3>1, <3>2 DEF MediaInv, FreshTask
    <3>4. OneTask(k)'  BY <1>10, <3>3 DEF OneTask
    <3>5. QED  BY <1>9, <1>6, <2>2, <3>2, <3>3, <3>4
  <2>3. QED  BY <2>1, <2>2
<1>12. ASSUME NEW i \in MediaJobs \ tangled' PROVE Clean(i)'
  <2>1. i \notin tangled /\ Clean(i)  BY <1>4, BeginClean DEF MediaInv
  <2>2. Busy(j) => i # j /\ p \notin PathsOf(i)
    <3>1. p \in PathsOf(j)  BY <1>1, <1>2, InPathsOf
    <3>2. QED  BY <1>4, <3>1, BeginClean
  <2>3. CASE i # j
    <3>1. \A r : MediaAt(i, r)' => MediaAt(i, r)
      BY <1>4, <1>6, <1>9, <1>10, <2>3 DEF MediaAt, Busy, TaskOf
    <3>2. ASSUME NEW r \in Paths, MediaAt(i, r) PROVE Others(i, r)' /\ r \in DOMAIN disk' /\ disk'[r] = i
      <4>1. r \in DOMAIN disk /\ disk[r] = i /\ Others(i, r)  BY <2>1, <3>2 DEF Clean
      <4>2. r \in PathsOf(i)  BY <3>2, InPathsOf DEF MediaAt
      <4>3. r # p  BY <1>1, <1>2, <1>4, <2>2, <2>3, <4>1, <4>2 DEF Others
      <4>4. r # q  BY <1>3, <4>1, <4>3
      <4>5. QED
        BY <1>1, <1>2, <1>4, <1>5, <1>6, <1>9, <1>10, <2>3, <4>1, <4>3, <4>4 DEF Others, Busy, OneTask, TaskOf
    <3>3. QED  BY <1>4, <1>6, <1>9, <1>10, <2>1, <2>3, <3>1, <3>2 DEF Clean, OneTask
  <2>4. CASE i = j
    <3>1. ~Busy(j) /\ MediaAt(j, p) /\ disk[p] = j /\ Others(j, p)
      BY <1>1, <1>2, <2>1, <2>2, <2>4 DEF MediaAt, Clean
    <3>2. \A k \in MediaJobs : q \in PathsOf(k) => k \notin tangled
      BY <1>4, <1>6, <1>9, <2>4, BeginClean
    <3>3. \A r : MediaAt(i, r)' => r = q
      BY <1>4, <1>6, <1>9, <1>10, <2>4, <3>1 DEF MediaAt, Writing, Busy, TaskOf
    <3>4. ASSUME NEW k \in MediaJobs \ {j} PROVE
            /\ \A g \in MediaHandlers : Writing(g, k) => task[g].path # q
            /\ k \in Rows /\ jobRow[k].path = q => Busy(k) /\ OneTask(k)
      <4>1. CASE q = p  BY <3>1, <4>1 DEF Others
      <4>2. CASE q \notin DOMAIN disk
        <5>1. \A g \in MediaHandlers : Writing(g, k) /\ task[g].path = q => k \notin tangled /\ MediaAt(k, q)
          BY <3>2, InPathsOf DEF MediaAt
        <5>2. k \in Rows /\ jobRow[k].path = q => k \notin tangled  BY <3>2, InPathsOf
        <5>3. k \notin tangled => Clean(k)  BY DEF MediaInv
        <5>4. QED  BY <4>2, <5>1, <5>2, <5>3 DEF Clean, MediaAt
      <4>3. QED  BY <1>3, <4>1, <4>2
    <3>5. Others(i, q)'
      BY <1>4, <1>6, <1>9, <1>10, <2>4, <3>4 DEF Others, Busy, OneTask, TaskOf
    <3>6. OneTask(i)'  BY <1>10, <2>4, <3>1 DEF OneTask, Busy, TaskOf
    <3>7. i \in Rows' /\ jobRow'[i].upload = i  BY <1>1, <1>4, <1>9, <2>1, <2>4 DEF Clean
    <3>8. q \in DOMAIN disk' /\ disk'[q] = i  BY <1>5, <2>4, <3>1
    <3>9. QED  BY <3>3, <3>5, <3>6, <3>7, <3>8 DEF Clean
  <2>5. QED  BY <2>3, <2>4
<1>13. QED  BY <1>7, <1>8, <1>11, <1>12 DEF MediaInv

\* restart_job reads the row of a job into a new one.
LEMMA CopyJobStep ==
    ASSUME MediaInv, NEW h \in MediaHandlers, CopyJob(h)
    PROVE  MediaInv'
<1>1. PICK old \in Rows, j \in Unused :
        /\ Begin(h, old, [op |-> "restart", job |-> j, copy |-> jobRow[old]])
        /\ disk' = disk
  BY DEF CopyJob
<1>2. PICK r \in MediaRow : r = jobRow[old]  BY DEF MediaInv, MediaTypes, Rows
<1> DEFINE t == [op |-> "restart", job |-> j, copy |-> r]
<1>3. /\ task[h] = Idle /\ jobRow' = jobRow /\ task' = [task EXCEPT ![h] = t]
      /\ tangled \subseteq tangled'
  BY <1>1, <1>2 DEF Begin
<1>4. j \in MediaJobs /\ j \notin Rows /\ \A g \in MediaHandlers : ~TaskOf(g, j)
  BY DEF Unused, TaskOf, Rows
<1>5. /\ task'[h] = t /\ \A g \in MediaHandlers \ {h} : task'[g] = task[g]
      /\ t \in MediaTask /\ t # Idle /\ t.op = "restart" /\ t.job = j
  BY <1>3, <1>4 DEF MediaInv, MediaTypes, MediaTask, Idle
<1>6. MediaTypes'  BY <1>1, <1>3, <1>5 DEF MediaInv, MediaTypes
<1>7. FilesApart'  BY <1>1 DEF MediaInv, FilesApart
<1>8. Rows' = Rows  BY <1>3 DEF Rows
<1> HIDE DEF t
<1>9. \A g \in MediaHandlers, i \in MediaJobs :
        /\ TaskOf(g, i)' <=> IF g = h THEN i = j ELSE TaskOf(g, i)
        /\ Writing(g, i)' <=> g # h /\ Writing(g, i)
        /\ task[h] = Idle /\ ~TaskOf(h, i)
  BY <1>3, <1>5 DEF TaskOf, Writing
<1>10. \A i \in MediaJobs \ {j} : (Busy(i)' <=> Busy(i)) /\ (OneTask(i)' <=> OneTask(i))
  BY <1>9 DEF Busy, TaskOf, OneTask
<1>11. OneTask(j)'  BY <1>4, <1>9 DEF OneTask
<1>12. ASSUME NEW g \in MediaHandlers PROVE FreshTask(g)'
  <2>1. CASE g = h  BY <1>4, <1>5, <1>8, <1>11, <2>1 DEF FreshTask
  <2>2. CASE g # h
    <3>1. SUFFICES ASSUME task[g].op \in {"create", "restart"} PROVE task[g].job \notin Rows' /\ OneTask(task[g].job)'
      BY <1>5, <2>2 DEF FreshTask
    <3>2. PICK k \in MediaJobs : k = task[g].job /\ TaskOf(g, k)
      BY <3>1, TaskShape DEF MediaInv, TaskOf
    <3>3. k \notin Rows /\ OneTask(k) /\ k # j  BY <1>4, <3>1, <3>2 DEF MediaInv, FreshTask
    <3>4. QED  BY <1>5, <1>8, <1>10, <2>2, <3>2, <3>3
  <2>3. QED  BY <2>1, <2>2
<1>13. ASSUME NEW i \in MediaJobs \ tangled' PROVE Clean(i)'
  <2>1. Clean(i)  BY <1>3 DEF MediaInv
  <2>2. OneTask(i)'  BY <1>10, <1>11, <2>1 DEF Clean
  <2>3. \A q : MediaAt(i, q)' => MediaAt(i, q)
    BY <1>3, <1>4, <1>5, <1>8, <1>9, <1>10 DEF MediaAt
  <2>4. ASSUME NEW q \in Paths, MediaAt(i, q) PROVE Others(i, q)'
    <3>1. Others(i, q)  BY <2>1, <2>4 DEF Clean
    <3>2. QED  BY <1>3, <1>4, <1>5, <1>8, <1>9, <1>10, <3>1 DEF Others
  <2>5. QED  BY <1>1, <1>3, <1>8, <2>1, <2>2, <2>3, <2>4 DEF Clean
<1>14. QED  BY <1>6, <1>7, <1>12, <1>13 DEF MediaInv

\* delete_job removes the file.
LEMMA RemoveMediaStep ==
    ASSUME MediaInv, NEW h \in MediaHandlers, RemoveMedia(h)
    PROVE  MediaInv'
<1>1. PICK j \in Rows :
        disk' = Without(jobRow[j].path) /\ Begin(h, j, [op |-> "delete", job |-> j])
  BY DEF RemoveMedia
<1>2. PICK p \in Paths : p = jobRow[j].path
  BY <1>1 DEF MediaInv, MediaTypes, MediaRow, Rows
<1> DEFINE t == [op |-> "delete", job |-> j]
<1>3. /\ task[h] = Idle /\ jobRow' = jobRow /\ task' = [task EXCEPT ![h] = t]
      /\ Begin(h, j, t) /\ j \in MediaJobs
  BY <1>1 DEF Begin, Rows
<1>4. DOMAIN disk' = DOMAIN disk \ {p} /\ \A q \in DOMAIN disk \ {p} : disk'[q] = disk[q]
  BY <1>1, <1>2 DEF Without, Restrict
<1>5. /\ task'[h] = t /\ \A g \in MediaHandlers \ {h} : task'[g] = task[g]
      /\ t \in MediaTask /\ t # Idle /\ t.op = "delete" /\ t.job = j
  BY <1>3 DEF MediaInv, MediaTypes, MediaTask, Idle
<1>6. MediaTypes'  BY <1>3, <1>4, <1>5 DEF MediaInv, MediaTypes
<1>7. FilesApart'  BY <1>4 DEF MediaInv, FilesApart
<1>8. Rows' = Rows  BY <1>3 DEF Rows
<1> HIDE DEF t
<1>9. \A g \in MediaHandlers, i \in MediaJobs :
        /\ TaskOf(g, i)' <=> IF g = h THEN i = j ELSE TaskOf(g, i)
        /\ Writing(g, i)' <=> g # h /\ Writing(g, i)
        /\ task[h] = Idle /\ ~TaskOf(h, i)
  BY <1>3, <1>5 DEF TaskOf, Writing
<1>10. /\ \A i \in MediaJobs \ {j} : (Busy(i)' <=> Busy(i)) /\ (OneTask(i)' <=> OneTask(i))
       /\ Busy(j)'
  BY <1>3, <1>9 DEF Busy, TaskOf, OneTask
<1>11. ASSUME NEW g \in MediaHandlers PROVE FreshTask(g)'
  <2>1. CASE g = h  BY <1>5, <2>1 DEF FreshTask
  <2>2. CASE g # h
    <3>1. SUFFICES ASSUME task[g].op \in {"create", "restart"} PROVE task[g].job \notin Rows' /\ OneTask(task[g].job)'
      BY <1>5, <2>2 DEF FreshTask
    <3>2. PICK k \in MediaJobs : k = task[g].job  BY <3>1, TaskShape DEF MediaInv
    <3>3. k \notin Rows /\ OneTask(k) /\ k # j  BY <1>1, <3>1, <3>2 DEF MediaInv, FreshTask
    <3>4. QED  BY <1>5, <1>8, <1>10, <2>2, <3>2, <3>3
  <2>3. QED  BY <2>1, <2>2
<1>12. ASSUME NEW i \in MediaJobs \ tangled' PROVE Clean(i)'
  <2>1. i \notin tangled /\ Clean(i)  BY <1>3, BeginClean DEF MediaInv
  <2>2. Busy(j) => i # j /\ p \notin PathsOf(i)
    <3>1. p \in PathsOf(j)  BY <1>1, <1>2, InPathsOf
    <3>2. QED  BY <1>3, <3>1, BeginClean
  <2>3. CASE i # j
    <3>1. \A q : MediaAt(i, q)' => MediaAt(i, q)
      BY <1>3, <1>5, <1>8, <1>9, <1>10, <2>3 DEF MediaAt
    <3>2. ASSUME NEW q \in Paths, MediaAt(i, q) PROVE Others(i, q)' /\ q \in DOMAIN disk' /\ disk'[q] = i
      <4>1. q \in DOMAIN disk /\ disk[q] = i /\ Others(i, q)  BY <2>1, <3>2 DEF Clean
      <4>2. q \in PathsOf(i)  BY <3>2, InPathsOf DEF MediaAt
      <4>3. q # p  BY <1>1, <1>2, <1>3, <2>2, <2>3, <4>1, <4>2 DEF Others
      <4>4. QED  BY <1>2, <1>3, <1>4, <1>5, <1>8, <1>9, <1>10, <4>1, <4>3 DEF Others
    <3>3. QED  BY <1>3, <1>8, <1>10, <2>1, <2>3, <3>1, <3>2 DEF Clean
  <2>4. CASE i = j
    <3>1. ~Busy(j)  BY <2>2, <2>4
    <3>2. OneTask(i)' /\ \A q : ~MediaAt(i, q)'
      BY <1>9, <1>10, <2>4, <3>1 DEF OneTask, MediaAt, Busy, TaskOf, Writing
    <3>3. QED  BY <1>3, <1>8, <2>1, <3>2 DEF Clean
  <2>5. QED  BY <2>3, <2>4
<1>13. QED  BY <1>6, <1>7, <1>11, <1>12 DEF MediaInv

\* Steps that keep the disk and the paths of the rows, and end no handler or all.
LEMMA WorkStep == MediaInv /\ Work => MediaInv'
<1> SUFFICES ASSUME MediaInv, Work PROVE MediaInv'  OBVIOUS
<1>1. disk' = disk /\ task' = task /\ tangled' = tangled  BY DEF Work
<1>2. PICK j \in Rows, s \in {"processing", "cancelling", "resting"} :
        jobRow' = [jobRow EXCEPT ![j].status = s]
  BY DEF Work
<1>3. /\ jobRow' \in [MediaJobs -> {NoRow} \cup MediaRow]
      /\ \A i \in Rows' : i \in Rows /\ jobRow'[i].path = jobRow[i].path /\ jobRow'[i].upload = jobRow[i].upload
  BY <1>2 DEF MediaInv, MediaTypes, MediaRow, Rows
<1>4. \A g \in MediaHandlers, i \in MediaJobs :
        (TaskOf(g, i)' <=> TaskOf(g, i)) /\ (Writing(g, i)' <=> Writing(g, i))
  BY <1>1 DEF TaskOf, Writing
<1>5. \A i : (Busy(i)' <=> Busy(i)) /\ (OneTask(i)' <=> OneTask(i))
  BY <1>1 DEF Busy, OneTask, TaskOf
<1>6. MediaTypes' /\ FilesApart'  BY <1>1, <1>3 DEF MediaInv, MediaTypes, FilesApart
<1>7. \A g \in MediaHandlers : FreshTask(g)'
  BY <1>1, <1>3, <1>5 DEF MediaInv, FreshTask
<1>8. ASSUME NEW i \in MediaJobs \ tangled' PROVE Clean(i)'
  <2>1. Clean(i)  BY <1>1 DEF MediaInv
  <2>2. \A q : MediaAt(i, q)' => MediaAt(i, q)  BY <1>1, <1>3, <1>4, <1>5 DEF MediaAt
  <2>3. \A q : Others(i, q) => Others(i, q)'  BY <1>1, <1>3, <1>4, <1>5 DEF Others
  <2>4. QED  BY <1>1, <1>3, <1>5, <2>1, <2>2, <2>3 DEF Clean
<1>9. QED  BY <1>6, <1>7, <1>8 DEF MediaInv

\* The process dies, inside a request or between two.
LEMMA DieServingStep == MediaInv /\ DieServing => MediaInv'
<1> SUFFICES ASSUME MediaInv, DieServing PROVE MediaInv'  OBVIOUS
<1> DEFINE js == {task[h].job : h \in {g \in MediaHandlers : task[g] # Idle}}
<1>1. /\ disk' = disk /\ task' = [h \in MediaHandlers |-> Idle]
      /\ tangled' = tangled \cup Around(js)
  BY DEF DieServing
<1>2. /\ jobRow' \in [MediaJobs -> {NoRow} \cup MediaRow]
      /\ \A i \in Rows' : i \in Rows /\ jobRow'[i].path = jobRow[i].path /\ jobRow'[i].upload = jobRow[i].upload
  BY DEF DieServing, MediaInv, MediaTypes, MediaRow, Rows
<1>3. \A g \in MediaHandlers, i \in MediaJobs : ~TaskOf(g, i)' /\ ~Writing(g, i)'
  BY <1>1 DEF TaskOf, Writing
<1>4. \A i \in MediaJobs : ~Busy(i)' /\ OneTask(i)'
  BY <1>3 DEF Busy, OneTask, TaskOf
<1>5. MediaTypes' /\ FilesApart'  BY <1>1, <1>2 DEF MediaInv, MediaTypes, MediaTask, FilesApart
<1>6. \A g \in MediaHandlers : FreshTask(g)'  BY <1>1 DEF FreshTask, Idle
<1>7. ASSUME NEW i \in MediaJobs \ tangled' PROVE Clean(i)'
  <2>1. Clean(i) /\ i \notin Around(js)  BY <1>1 DEF MediaInv
  <2>2. \A j \in MediaJobs : Busy(j) => j \in js  BY DEF Busy
  <2> HIDE DEF js
  <2>3. ~Busy(i)  BY <2>1, <2>2, OutsideAround
  <2>4. \A q \in Paths : MediaAt(i, q)' => MediaAt(i, q) /\ q \in PathsOf(i)
    BY <1>2, <1>3, <2>3, InPathsOf DEF MediaAt
  <2>5. ASSUME NEW q \in Paths, MediaAt(i, q)' PROVE Others(i, q)'
    <3>1. Others(i, q)  BY <2>1, <2>4, <2>5 DEF Clean
    <3>2. ASSUME NEW k \in MediaJobs \ {i}, k \in Rows', jobRow'[k].path = q PROVE FALSE
      <4>1. k \in js /\ q \in PathsOf(k)  BY <1>2, <2>2, <3>1, <3>2, InPathsOf DEF Others
      <4>2. QED  BY <2>1, <2>4, <2>5, <4>1, OutsideAround
    <3>3. QED  BY <1>3, <3>2 DEF Others
  <2>6. QED  BY <1>1, <1>2, <1>4, <2>1, <2>4, <2>5 DEF Clean
<1>8. QED  BY <1>5, <1>6, <1>7 DEF MediaInv

\* So MediaInv holds in every state.
LEMMA MediaInductive == JobMediaSpec => []MediaInv
<1>1. MediaInit => MediaInv
  <2> SUFFICES ASSUME MediaInit PROVE MediaInv  OBVIOUS
  <2>1. /\ DOMAIN disk = {} /\ jobRow = [j \in MediaJobs |-> NoRow]
        /\ task = [h \in MediaHandlers |-> Idle]
    BY DEF MediaInit
  <2>2. MediaTypes /\ FilesApart  BY <2>1 DEF MediaTypes, MediaTask, FilesApart
  <2>3. Rows = {} /\ \A g \in MediaHandlers, i \in MediaJobs : ~TaskOf(g, i)
    BY <2>1 DEF Rows, TaskOf
  <2>4. \A g \in MediaHandlers : FreshTask(g)  BY <2>1 DEF FreshTask, Idle
  <2>5. \A i \in MediaJobs : Clean(i)  BY <2>3 DEF Clean, OneTask, MediaAt, Writing
  <2>6. QED  BY <2>2, <2>4, <2>5 DEF MediaInv
<1>2. MediaInv /\ [MediaNext]_mediaVars => MediaInv'
  <2> SUFFICES ASSUME MediaInv, [MediaNext]_mediaVars PROVE MediaInv'  OBVIOUS
  <2>1. ASSUME NEW h \in MediaHandlers,
               \/ Upload(h) \/ InsertJob(h) \/ MoveMedia(h) \/ CommitRename(h)
               \/ CopyJob(h) \/ CommitCopy(h) \/ RemoveMedia(h) \/ CommitRemoval(h)
        PROVE  MediaInv'
    BY <2>1, UploadStep, InsertJobStep, MoveMediaStep, CommitRenameStep, CopyJobStep,
       CommitCopyStep, RemoveMediaStep, CommitRemovalStep
  <2>2. CASE UNCHANGED mediaVars
    BY <2>2 DEF mediaVars, MediaInv, MediaTypes, FilesApart, FreshTask, Clean, MediaAt, Others,
       OneTask, Writing, TaskOf, Busy, Rows
  <2>3. QED  BY <2>1, <2>2, WorkStep, DieServingStep DEF MediaNext
<1>3. QED  BY <1>1, <1>2, PTL DEF JobMediaSpec

\* A job's path leads to its own upload, for any numbers of jobs, names, handlers
\* and deaths, but for the jobs the property excepts.
THEOREM MediaStaysOwn == JobMediaSpec => []MediaIsOwn
<1>1. MediaInv => MediaIsOwn
  <2> SUFFICES ASSUME MediaInv, NEW j \in Rows \ tangled, ~Busy(j)
               PROVE  jobRow[j].path \in DOMAIN disk /\ disk[jobRow[j].path] = jobRow[j].upload
    BY DEF MediaIsOwn
  <2>1. PICK p \in Paths : p = jobRow[j].path  BY DEF MediaInv, MediaTypes, MediaRow, Rows
  <2>2. j \in MediaJobs /\ MediaAt(j, p)  BY <2>1 DEF MediaAt, Rows
  <2>3. QED  BY <2>1, <2>2 DEF MediaInv, Clean
<1>2. QED  BY <1>1, MediaInductive, PTL

-----------------------------------------------------------------------------
(* The choice of models. *)

\* The columns a job has once it is created.
ChosenJob == [pc : {"queued", "paused", "failed"}, provider : Providers, model : ModelNames,
              diarizer : Diarizers \cup {0}, labels : BOOLEAN,
              loaded : Offers \cup {NoOffer}, loads : SUBSET Offers]
ChoiceTypes == job.pc \in {"queued", "paused"} => job \in ChosenJob

\* The first of some weights is one of them.
LEMMA FirstIsOne ==
    ASSUME NEW R \in SUBSET Offers, R # {}
    PROVE  First(R) \in R
<1>0. \A r \in R : r[1] \in Providers /\ r[2] \in ModelNames /\ r = <<r[1], r[2]>>
  BY DEF Offers
<1> DEFINE P == {p \in Providers : \E r \in R : r[1] = p}
<1>1. PICK p \in P : \A y \in P : p <= y
  <2>1. P # {} /\ P \in SUBSET Nat  BY <1>0, ModelChoiceConstants
  <2> HIDE DEF P
  <2>2. QED  BY <2>1, LeastNumber
<1> DEFINE N == {m \in ModelNames : <<p, m>> \in R}
<1>2. PICK m \in N : \A y \in N : m <= y
  <2>1. PICK r \in R : r[1] = p  BY <1>1
  <2>2. r[2] \in ModelNames /\ r = <<p, r[2]>>  BY <1>0, <2>1
  <2>3. N # {} /\ N \in SUBSET Nat  BY <2>2, ModelChoiceConstants
  <2> HIDE DEF N
  <2>4. QED  BY <2>3, LeastNumber
<1>3. <<p, m>> \in R /\ p \in Nat /\ m \in Nat  BY <1>2, ModelChoiceConstants
<1>4. ASSUME NEW q \in R PROVE Before(<<p, m>>, q)
  <2>1. q[1] \in P /\ q[1] \in Nat /\ q[2] \in Nat /\ q[2] \in ModelNames /\ q = <<q[1], q[2]>>
    BY <1>0, ModelChoiceConstants
  <2>2. p <= q[1]  BY <1>1, <2>1
  <2>3. q[1] = p => m <= q[2]  BY <1>2, <2>1
  <2>4. QED  BY <1>3, <2>1, <2>2, <2>3 DEF Before
<1>5. \E r \in R : \A q \in R : Before(r, q)  BY <1>3, <1>4
<1>6. QED  BY <1>5 DEF First

\* No weight is the mark of none.
LEMMA NoOfferIsNone == NoOffer \notin Offers
BY ModelChoiceConstants DEF NoOffer, Offers

\* First returns a weight of the set, or the mark of none.
LEMMA FirstOrNone ==
    ASSUME NEW R \in SUBSET Offers
    PROVE  First(R) # NoOffer => First(R) \in R
BY FirstIsOne DEF First

\* resolve_from_provider returns an available weight that is as asked for.
LEMMA FromProviderFits ==
    ASSUME NEW p, NEW m, FromProvider(p, m) # NoOffer
    PROVE  /\ FromProvider(p, m) \in Available /\ FromProvider(p, m)[1] = p
           /\ m = 0 \/ FromProvider(p, m)[2] = m
<1>1. CASE m = 0
  <2> DEFINE R == {r \in Available : r[1] = p}
  <2>1. R \in SUBSET Offers /\ FromProvider(p, m) = First(R)  BY <1>1 DEF FromProvider, Available
  <2>2. First(R) \in R  BY <2>1, FirstOrNone
  <2>3. QED  BY <1>1, <2>1, <2>2
<1>2. CASE m # 0  BY <1>2 DEF FromProvider
<1>3. QED  BY <1>1, <1>2

\* What the creation resolves is available and as asked for.
LEMMA ResolvedFits ==
    ASSUME NEW want, NEW default, ResolveAsr(want, default) # NoOffer
    PROVE  /\ ResolveAsr(want, default) \in Available
           /\ want.provider \in {0, ResolveAsr(want, default)[1]}
           /\ want.model \in {0, ResolveAsr(want, default)[2]}
<1>1. CASE want.provider # 0
  BY <1>1, FromProviderFits DEF ResolveAsr
<1>2. CASE want.provider = 0 /\ want.model # 0
  <2>1. Named(Available, want.model) \in SUBSET Offers  BY DEF Named, Available
  <2>2. ResolveAsr(want, default) \in Named(Available, want.model)
    BY <1>2, <2>1, FirstOrNone DEF ResolveAsr
  <2>3. QED  BY <1>2, <2>2 DEF Named
<1>3. CASE want.provider = 0 /\ want.model = 0
  <2>1. Available \in SUBSET Offers /\ Named(Available, default.model) \in SUBSET Offers
    BY DEF Named, Available
  <2>2. \/ ResolveAsr(want, default) = FromProvider(default.provider, default.model)
        \/ ResolveAsr(want, default) = First(Named(Available, default.model))
        \/ ResolveAsr(want, default) = First(Available)
    BY <1>3 DEF ResolveAsr, OrElse
  <2>3. First(Named(Available, default.model)) # NoOffer
           => First(Named(Available, default.model)) \in Available
    BY <2>1, FirstOrNone DEF Named
  <2>4. First(Available) # NoOffer => First(Available) \in Available  BY <2>1, FirstOrNone
  <2>5. QED  BY <1>3, <2>2, <2>3, <2>4, FromProviderFits
<1>4. QED  BY <1>1, <1>2, <1>3

\* The record picked for a name some registered weight has is registered.
LEMMA PickedIsRegistered ==
    ASSUME NEW r \in Registered
    PROVE  PickRecord(r[2]) \in Registered
<1> DEFINE Preferred == {q \in Named(Registered, r[2]) : defaults.provider \in {0, q[1]}}
<1>1. Named(Registered, r[2]) \in SUBSET Offers /\ Preferred \in SUBSET Offers
  BY DEF Named, Registered
<1>2. r \in Named(Registered, r[2])  BY DEF Named
<1>3. First(Named(Registered, r[2])) \in Registered
  BY <1>1, <1>2, FirstIsOne DEF Named
<1>4. First(Preferred) # NoOffer => First(Preferred) \in Registered
  BY <1>1, FirstOrNone DEF Named
<1>5. QED  BY <1>3, <1>4 DEF PickRecord, OrElse

\* What a run loads is a registered weight or none.
LEMMA LoadedIsOne ==
    ASSUME NEW loads, NEW m, LoadFirst(m, loads) # NoOffer
    PROVE  LoadFirst(m, loads) \in Offers
<1> DEFINE works == {r \in Available : PickRecord(r[2]) \in loads}
<1>1. works \in SUBSET Offers /\ works \subseteq Registered  BY DEF Available, Registered
<1>2. LoadFirst(m, loads) =
        IF works = {} THEN NoOffer
        ELSE IF Named(works, m) # {} THEN PickRecord(m)
        ELSE IF Named(works, defaults.model) # {} THEN PickRecord(defaults.model)
        ELSE PickRecord(First(works)[2])
  BY DEF LoadFirst
<1>3. works # {} => First(works) \in works  BY <1>1, FirstIsOne
<1>4. \A n : Named(works, n) # {} => \E r \in works : r[2] = n  BY DEF Named
<1> HIDE DEF works
<1>5. LoadFirst(m, loads) \in Registered
  BY <1>1, <1>2, <1>3, <1>4, PickedIsRegistered
<1>6. QED  BY <1>5 DEF Registered

\* Where names are unique among the registered weights, the record picked for a
\* name is the weight of that name.
LEMMA PickedIsTheOne ==
    ASSUME NamesAreUnique, NEW r \in Registered
    PROVE  PickRecord(r[2]) = r
<1> DEFINE Preferred == {q \in Named(Registered, r[2]) : defaults.provider \in {0, q[1]}}
<1>1. Named(Registered, r[2]) = {r}  BY DEF Named, NamesAreUnique
<1>2. {r} \in SUBSET Offers /\ r # NoOffer  BY NoOfferIsNone DEF Registered
<1>3. First({r}) = r  BY <1>2, FirstIsOne
<1>4. CASE Preferred = {r}  BY <1>1, <1>2, <1>3, <1>4 DEF PickRecord, OrElse
<1>5. CASE Preferred = {}
  BY <1>1, <1>3, <1>5 DEF PickRecord, OrElse, First
<1>6. QED  BY <1>1, <1>4, <1>5

\* Then a run loads the weight of that name if it loads, and else another one
\* that does.
LEMMA LoadedFits ==
    ASSUME NamesAreUnique, NEW loads, NEW m
    PROVE  /\ \A r \in loads \cap Available : r[2] = m => LoadFirst(m, loads) = r
           /\ loads \cap Available # {} => LoadFirst(m, loads) \in loads \cap Available
<1> DEFINE works == {r \in Available : PickRecord(r[2]) \in loads}
<1>1. Available \subseteq Registered  BY DEF Available, Registered
<1>2. works = loads \cap Available  BY <1>1, PickedIsTheOne
<1>3. works \in SUBSET Offers /\ works \subseteq Registered  BY <1>1 DEF Available
<1>4. \A r \in works : PickRecord(r[2]) = r  BY <1>3, PickedIsTheOne
<1>5. LoadFirst(m, loads) =
        IF works = {} THEN NoOffer
        ELSE IF Named(works, m) # {} THEN PickRecord(m)
        ELSE IF Named(works, defaults.model) # {} THEN PickRecord(defaults.model)
        ELSE PickRecord(First(works)[2])
  BY DEF LoadFirst
<1>6. works # {} => First(works) \in works  BY <1>3, FirstIsOne
<1>7. \A n : Named(works, n) # {} => \E r \in works : r[2] = n  BY DEF Named
<1>8. \A r \in works : r \in Named(works, r[2])  BY DEF Named
<1> HIDE DEF works
<1>9. works # {} => LoadFirst(m, loads) \in works
  BY <1>4, <1>5, <1>6, <1>7
<1>10. \A r \in works : r[2] = m => LoadFirst(m, loads) = r
  BY <1>4, <1>5, <1>8
<1>11. QED  BY <1>2, <1>9, <1>10

\* The diarizer found is one of them or none.
LEMMA DiarizerFound == ASSUME NEW wanted PROVE FirstDiarizer(wanted) \in Diarizers \cup {0}
<1> DEFINE ready == {d \in Diarizers : diarizers[d]}
<1>1. ready \in SUBSET Nat  BY ModelChoiceConstants
<1>2. ready # {} => \E d \in ready : \A e \in ready : d <= e
  <2> HIDE DEF ready
  <2>1. QED  BY <1>1, LeastNumber
<1>3. QED  BY <1>2 DEF FirstDiarizer

\* The columns of a created job.
LEMMA ChoiceTypesKept == ModelChoiceSpec => []ChoiceTypes
<1>1. ChoiceInit => ChoiceTypes  BY DEF ChoiceInit, ChoiceTypes
<1>2. ChoiceTypes /\ [ChoiceNext]_choiceVars => ChoiceTypes'
  <2> SUFFICES ASSUME ChoiceTypes, [ChoiceNext]_choiceVars PROVE ChoiceTypes'  OBVIOUS
  <2>1. CASE CreateResolved
    <3>1. PICK labels \in BOOLEAN :
            LET r == ResolveAsr(asked, defaults)
                d == IF labels THEN FirstDiarizer(asked.diarizer) ELSE 0 IN
            job' = IF r = NoOffer THEN [pc |-> "refused"]
                   ELSE [pc |-> "queued", provider |-> r[1], model |-> r[2],
                         diarizer |-> d, labels |-> d # 0, loaded |-> NoOffer, loads |-> {}]
      BY <2>1 DEF CreateResolved
    <3> DEFINE r == ResolveAsr(asked, defaults)
               d == IF labels THEN FirstDiarizer(asked.diarizer) ELSE 0
    <3>2. r # NoOffer => r[1] \in Providers /\ r[2] \in ModelNames
      BY ResolvedFits DEF Available, Offers
    <3>3. d \in Diarizers \cup {0}  BY DiarizerFound
    <3> HIDE DEF r, d
    <3>4. QED  BY <3>1, <3>2, <3>3 DEF r, d, ChoiceTypes, ChosenJob
  <2>2. CASE RunJob
    <3>1. PICK loads, ready : RunChosen(loads, ready) /\ job.pc \in {"queued", "paused"}
      BY <2>2 DEF RunJob
    <3> DEFINE r == LoadFirst(job.model, loads)
               d == RuntimeDiarizer
    <3>2. r # NoOffer => r \in Offers /\ r[1] \in Providers /\ r[2] \in ModelNames
      <4>1. r # NoOffer => r \in Offers  BY LoadedIsOne
      <4>2. QED  BY <4>1 DEF Offers
    <3>3. d \in Diarizers \cup {0}  BY DiarizerFound DEF RuntimeDiarizer
    <3>4. loads \cap Available \in SUBSET Offers  BY DEF Available
    <3> HIDE DEF r, d
    <3>5. job' = [job EXCEPT !.pc = IF r = NoOffer THEN "failed" ELSE "paused",
                             !.model = IF r = NoOffer THEN @ ELSE r[2],
                             !.provider = IF r = NoOffer THEN @ ELSE r[1],
                             !.loaded = r, !.loads = loads \cap Available,
                             !.diarizer = d, !.labels = d \in ready]
      BY <3>1 DEF RunChosen, r, d
    <3>6. job \in ChosenJob  BY <3>1 DEF ChoiceTypes
    <3>7. (d \in ready) \in BOOLEAN  OBVIOUS
    <3>8. job' \in ChosenJob
      BY <3>2, <3>3, <3>4, <3>5, <3>6, <3>7 DEF ChosenJob
    <3>9. QED  BY <3>8 DEF ChoiceTypes
  <2>3. CASE EditOffers  BY <2>3 DEF EditOffers, ChoiceTypes
  <2>4. CASE UNCHANGED choiceVars  BY <2>4 DEF choiceVars, ChoiceTypes
  <2>5. QED  BY <2>1, <2>2, <2>3, <2>4 DEF ChoiceNext
<1>3. QED  BY <1>1, <1>2, PTL DEF ModelChoiceSpec

\* A provider or a model the request names is the one the job is created with,
\* and what it is created with was available.
THEOREM ChoiceIsHonoured == ModelChoiceSpec => ExplicitChoiceHonoured
<1> DEFINE P == job.pc = "new" /\ job'.pc = "queued" =>
                  /\ asked.provider \in {0, job'.provider}
                  /\ asked.model \in {0, job'.model}
                  /\ <<job'.provider, job'.model>> \in Available
<1>1. [ChoiceNext]_choiceVars => [P]_choiceVars
  <2> SUFFICES ASSUME ChoiceNext, job.pc = "new", job'.pc = "queued" PROVE P  OBVIOUS
  <2>1. CreateResolved  BY DEF ChoiceNext, RunJob, EditOffers
  <2>2. PICK r : r = ResolveAsr(asked, defaults)  OBVIOUS
  <2>3. r # NoOffer /\ job'.provider = r[1] /\ job'.model = r[2]
    BY <2>1, <2>2 DEF CreateResolved
  <2>4. r \in Available /\ asked.provider \in {0, r[1]} /\ asked.model \in {0, r[2]}
    BY <2>2, <2>3, ResolvedFits
  <2>5. <<r[1], r[2]>> = r  BY <2>4 DEF Available, Offers
  <2>6. QED  BY <2>3, <2>4, <2>5
<1>2. QED  BY <1>1, PTL DEF ModelChoiceSpec, ExplicitChoiceHonoured

\* Where names are unique, a run loads the model of the job whenever it can, and
\* another one that it can load rather than fail.
THEOREM ChoiceIsKept == ModelChoiceSpec => RunKeepsChoice
<1> DEFINE P == job.pc \in {"queued", "paused"} /\ NamesAreUnique /\ job' # job =>
                  LET chosen == <<job.provider, job.model>>
                      works == job'.loads IN
                  /\ chosen \in works => job'.loaded = chosen
                  /\ works # {} => job'.loaded \in works
<1>1. ChoiceTypes /\ [ChoiceNext]_choiceVars => [P]_choiceVars
  <2> SUFFICES ASSUME ChoiceTypes, ChoiceNext,
                      job.pc \in {"queued", "paused"}, NamesAreUnique, job' # job
               PROVE  P
    OBVIOUS
  <2>1. PICK loads, ready : RunChosen(loads, ready)
    BY DEF ChoiceNext, CreateResolved, RunJob, EditOffers
  <2>2. PICK r : r = LoadFirst(job.model, loads)  OBVIOUS
  <2>3. job \in ChosenJob  BY DEF ChoiceTypes
  <2>4. job'.loaded = r /\ job'.loads = loads \cap Available
    BY <2>1, <2>2, <2>3 DEF RunChosen, ChosenJob
  <2>5. <<job.provider, job.model>>[2] = job.model  OBVIOUS
  <2>6. QED  BY <2>2, <2>4, <2>5, LoadedFits
<1>2. QED  BY <1>1, ChoiceTypesKept, PTL DEF ModelChoiceSpec, RunKeepsChoice
=============================================================================
