------------------------------ MODULE JobMedia ------------------------------
(***************************************************************************)
(* The uploaded media of jobs: routes/jobs.py places, renames, shares and  *)
(* removes files of one directory by name, utils/file_handling.py finds a  *)
(* name that is free, and the jobs table remembers the path.  A handler    *)
(* touches the directory in the step in which it has read the row, and     *)
(* commits in a later one.                                                 *)
(*                                                                         *)
(* A path is a wanted name and the counter that made it unique.  The       *)
(* content of a file is the job it was uploaded for.                       *)
(***************************************************************************)
EXTENDS Naturals, Functions, FiniteSets

CONSTANTS
    MediaJobs,     \* ids of jobs, those of restarts included
    MediaHandlers, \* concurrent requests
    MediaNames,    \* names users ask for
    NoRow,
    MaxMediaOps,   \* bound: requests begun
    MaxMediaDeaths \* bound: process deaths

\* The counter is bounded by the number of files there can be.
Paths == MediaNames \X (0..Cardinality(MediaJobs))

ASSUME JobMediaConstants ==
    /\ IsFiniteSet(MediaJobs)
    /\ NoRow \notin MediaJobs \cup Paths
    /\ MaxMediaOps \in Nat /\ MaxMediaDeaths \in Nat

VARIABLES
    disk,     \* the media directory: path -> content
    jobRow,   \* the jobs table: job -> NoRow or [path, upload, status]
    task,     \* what each handler is about to commit
    tangled,  \* history: jobs that shared a file with a restart, had overlapping
              \* requests or a process death inside one, or met such a job's path
    mediaOps, mediaDeaths

mediaVars == <<disk, jobRow, task, tangled, mediaOps, mediaDeaths>>

Idle == [op |-> "idle"]
Rows == {j \in MediaJobs : jobRow[j] # NoRow}
Unused == {j \in MediaJobs : /\ jobRow[j] = NoRow
                             /\ \A h \in MediaHandlers : task[h] # Idle => task[h].job # j
                             /\ \A p \in DOMAIN disk : disk[p] # j}

MediaInit ==
    /\ disk = [p \in {} |-> NoRow]
    /\ jobRow = [j \in MediaJobs |-> NoRow]
    /\ task = [h \in MediaHandlers |-> Idle]
    /\ tangled = {}
    /\ mediaOps = 0 /\ mediaDeaths = 0

\* resolve_unique_media_path: the name itself, or the first counter that is free
\* or already leads to the current file.
UniquePath_Unchecked(name, current) == <<name, 0>>   \* mutated form
UniquePath(name, current) ==
    LET open(n) == <<name, n>> = current \/ <<name, n>> \notin DOMAIN disk
    IN <<name, CHOOSE n \in 0..Cardinality(MediaJobs) :
                   open(n) /\ \A k \in 0..(n - 1) : ~open(k)>>

Without(p) == Restrict(disk, DOMAIN disk \ {p})
Placed(f, p, content) == [q \in DOMAIN f \cup {p} |-> IF q = p THEN content ELSE f[q]]

Busy(j) == \E h \in MediaHandlers : task[h] # Idle /\ task[h].job = j

PathsOf(j) ==
    (IF j \in Rows THEN {jobRow[j].path} ELSE {}) \cup
    {task[h].path : h \in {g \in MediaHandlers : task[g] # Idle /\ task[g].job = j
                                                /\ task[g].op \in {"create", "rename"}}}
At(paths) == {j \in MediaJobs : PathsOf(j) \cap paths # {}}
Around(js) == js \cup At(UNION {PathsOf(j) : j \in js})

Begin(h, j, t) ==
    /\ task[h] = Idle /\ mediaOps < MaxMediaOps
    /\ mediaOps' = mediaOps + 1
    /\ task' = [task EXCEPT ![h] = t]
    /\ tangled' = tangled \cup (IF Busy(j) THEN Around({j}) ELSE {})
                         \cup (IF "path" \in DOMAIN t /\ At({t.path}) \cap tangled # {} THEN {j} ELSE {})
    /\ UNCHANGED <<jobRow, mediaDeaths>>

\* The end of a handler: its commit, or nothing when the row is gone.
Done(h) == task' = [task EXCEPT ![h] = Idle] /\ UNCHANGED <<disk, mediaOps, mediaDeaths>>

-----------------------------------------------------------------------------
(* The handlers. *)

\* The file is in place before settings and models are looked up; a request
\* refused by them leaves the file where it is.
Upload(h) ==
    \E j \in Unused, name \in MediaNames :
      LET p == UniquePath(name, NoRow) IN
      /\ disk' = Placed(disk, p, j)
      /\ Begin(h, j, [op |-> "create", job |-> j, path |-> p])
InsertJob(h) ==
    /\ task[h].op = "create"
    /\ \/ jobRow' = [jobRow EXCEPT ![task[h].job] =
                       [path |-> task[h].path, upload |-> task[h].job, status |-> "queued"]]
       \/ UNCHANGED jobRow
    /\ Done(h) /\ UNCHANGED tangled

\* The file moves when the row has been read, the row follows.
MoveMedia(h) ==
    \E j \in Rows, name \in MediaNames :
      LET p == jobRow[j].path
          q == UniquePath(name, p) IN
      /\ jobRow[j].status \notin {"processing", "cancelling"}
      /\ p \in DOMAIN disk
      /\ disk' = Placed(Without(p), q, disk[p])
      /\ Begin(h, j, [op |-> "rename", job |-> j, path |-> q])
CommitRename(h) ==
    /\ task[h].op = "rename"
    /\ jobRow' = IF task[h].job \in Rows
                 THEN [jobRow EXCEPT ![task[h].job].path = task[h].path]
                 ELSE jobRow
    /\ Done(h) /\ UNCHANGED tangled

\* A restarted job takes the path of the old one.
CopyJob(h) ==
    \E old \in Rows, j \in Unused :
      /\ jobRow[old].status \notin {"processing", "queued"}
      /\ Begin(h, old, [op |-> "restart", job |-> j, copy |-> jobRow[old]])
      /\ UNCHANGED disk
CommitCopy(h) ==
    /\ task[h].op = "restart"
    /\ jobRow' = [jobRow EXCEPT ![task[h].job] = [task[h].copy EXCEPT !.status = "queued"]]
    /\ tangled' = tangled \cup {task[h].job} \cup At({task[h].copy.path})
    /\ Done(h)

\* Whatever lies at the path of the row is removed, then the row.
RemoveMedia(h) ==
    \E j \in Rows :
      /\ jobRow[j].status \notin {"queued", "processing"}
      /\ disk' = Without(jobRow[j].path)
      /\ Begin(h, j, [op |-> "delete", job |-> j])
CommitRemoval(h) ==
    /\ task[h].op = "delete"
    /\ jobRow' = [jobRow EXCEPT ![task[h].job] = NoRow]
    /\ Done(h) /\ UNCHANGED tangled

\* Worker and cancel requests move the status the guards above read.
Work ==
    /\ \E j \in Rows, s \in {"processing", "cancelling", "resting"} :
         /\ <<jobRow[j].status, s>> \in
              {<<"queued", "processing">>, <<"processing", "cancelling">>,
               <<"processing", "resting">>, <<"cancelling", "resting">>, <<"queued", "resting">>}
         /\ jobRow' = [jobRow EXCEPT ![j].status = s]
    /\ UNCHANGED <<disk, task, tangled, mediaOps, mediaDeaths>>

\* The process dies: the handlers are gone, and the startup settles the rows.
DieServing ==
    /\ mediaDeaths < MaxMediaDeaths /\ mediaDeaths' = mediaDeaths + 1
    /\ tangled' = tangled \cup Around({task[h].job : h \in {g \in MediaHandlers : task[g] # Idle}})
    /\ task' = [h \in MediaHandlers |-> Idle]
    /\ jobRow' = [j \in MediaJobs |->
                    IF jobRow[j] = NoRow THEN NoRow ELSE [jobRow[j] EXCEPT !.status = "resting"]]
    /\ UNCHANGED <<disk, mediaOps>>

MediaNext ==
    \/ \E h \in MediaHandlers :
         \/ Upload(h) \/ InsertJob(h) \/ MoveMedia(h) \/ CommitRename(h)
         \/ CopyJob(h) \/ CommitCopy(h) \/ RemoveMedia(h) \/ CommitRemoval(h)
    \/ Work \/ DieServing

JobMediaSpec == MediaInit /\ [][MediaNext]_mediaVars

-----------------------------------------------------------------------------
(* Properties. *)

\* The path of a job leads to the media that was uploaded for it and to nothing
\* else, across uploads of one name, renames and deletions, except for the jobs
\* that restarts, overlapping requests or a death have tangled.
MediaIsOwn ==
    \A j \in Rows \ tangled : ~Busy(j) =>
        jobRow[j].path \in DOMAIN disk /\ disk[jobRow[j].path] = jobRow[j].upload
=============================================================================
