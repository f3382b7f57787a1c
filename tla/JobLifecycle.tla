---------------------------- MODULE JobLifecycle ----------------------------
(***************************************************************************)
(* The life of a transcription job: the row of the jobs table, the route   *)
(* handlers that change it (routes/jobs.py), the queue workers             *)
(* (services/job_queue.py), the pipeline they run (services/               *)
(* whisper_service.py) and the clean-up at startup (main.py).              *)
(*                                                                         *)
(* Everything runs on one event loop, so the unit of interleaving is the   *)
(* code between two awaits.  Each handler and the pipeline has a database  *)
(* session of its own, and a session keeps a copy of the row it has        *)
(* loaded: the copy changes only when the code refreshes it, and a commit  *)
(* writes only the columns whose value differs from that copy (Col).       *)
(***************************************************************************)
EXTENDS Naturals, Sequences

CONSTANTS
    Jobs,         \* the job ids that can come to exist
    Workers,      \* the tasks of the worker pool (the pool of one concurrency)
    Clients,      \* route handlers that can be in progress at the same time
    NoJob,        \* "holds no job"
    Ops,          \* the operations the clients use
    FailFlags,    \* the values of create's ?fail= parameter
    Chunks,       \* checkpointed chunks of every media file
    MaxRequests,  \* bound: accepted requests in a behaviour
    MaxCrashes    \* bound: process deaths in a behaviour

ASSUME ConstantsAssumption ==
    /\ NoJob \notin Jobs
    /\ Ops \subseteq {"create", "cancel", "pause", "resume", "restart", "delete"}
    /\ FailFlags \subseteq BOOLEAN
    /\ Chunks \in Nat \ {0}
    /\ MaxRequests \in Nat
    /\ MaxCrashes \in Nat

VARIABLES
    up,          \* the process runs and has completed its startup
    status,      \* jobs.status; "unborn" and "deleted" stand for no row
    stage,       \* jobs.progress_stage
    ckpt,        \* next_index of the checkpoint file, 0 when there is none
    transcript,  \* the transcript file of a job
    rows,        \* how many rows of the transcripts table refer to a job
    queue,       \* the asyncio queue of (job_id, should_fail)
    running,     \* _running_ids
    pc,          \* the await at which a worker is suspended
    cur,         \* the job a worker has dequeued
    at,          \* the point of the pipeline a stop check belongs to
    chunk,       \* the loop variable of the chunk loop
    memStatus,   \* status in the copy of the worker's session
    memStage,    \* progress_stage in the copy of the worker's session
    late,        \* history: calls of the recogniser that a requested stop came before the end of
    req,         \* the handler in progress in a client slot
    issued,      \* accepted requests so far
    crashes      \* process deaths so far

rowVars    == <<status, stage>>
fileVars   == <<ckpt, transcript, rows>>
memVars    == <<memStatus, memStage>>
localVars  == <<cur, at, chunk, memVars>>
clientVars == <<req, issued>>
vars == <<up, rowVars, fileVars, queue, running, pc, localVars, late,
          clientVars, crashes>>

Terminal   == {"completed", "failed", "cancelled"}
StopStates == {"cancelling", "cancelled", "pausing", "paused"}
Status     == {"unborn", "deleted", "queued", "processing"} \cup Terminal \cup StopStates
Stage      == {"none", "loading_model", "transcribing", "diarizing", "finalizing",
               "cancelling", "pausing", "paused"}
PC         == {"idle", "fetch", "sim_fetch", "sim_fail", "claim", "claimed",
               "check_cancel", "check_pause", "load", "stage", "loop", "transcribe",
               "diarize", "diarizing", "finalize", "write", "complete", "cleanup",
               "raised", "fail", "fin_cancel", "fin_pause", "release"}
Point      == {"none", "resolve", "select", "start", "chunk", "final"}

FreeSlot == [pc |-> "free", op |-> "none", job |-> NoJob, st |-> "unborn",
             sg |-> "none", fail |-> FALSE]
Request  == [pc : {"free", "commit", "enqueue"}, op : Ops \cup {"none"},
             job : Jobs \cup {NoJob}, st : Status, sg : Stage, fail : BOOLEAN]

\* The pipeline between the commit that claims a job and the one that ends it.
Active == {"claimed", "check_cancel", "check_pause", "load", "stage", "loop",
           "transcribe", "diarize", "diarizing", "finalize", "write", "complete",
           "raised", "fail"}

Exists(j)    == status[j] \notin {"unborn", "deleted"}
Held(j)      == \E w \in Workers : cur[w] = j
Col(loaded, new, now) == IF new = loaded THEN now ELSE new

IsCancelled_OnlyFinal(st) == st = "cancelled"   \* mutated form
IsCancelled(st) == st \in {"cancelled", "cancelling"}
IsPause_OnlyPaused(st) == st = "paused"   \* mutated form
IsPause(st) == st \in {"paused", "pausing"}

Init ==
    /\ up = TRUE
    /\ status = [j \in Jobs |-> "unborn"]
    /\ stage = [j \in Jobs |-> "none"]
    /\ ckpt = [j \in Jobs |-> 0]
    /\ transcript = [j \in Jobs |-> "none"]
    /\ rows = [j \in Jobs |-> 0]
    /\ queue = <<>>
    /\ running = {}
    /\ pc = [w \in Workers |-> "idle"]
    /\ cur = [w \in Workers |-> NoJob]
    /\ at = [w \in Workers |-> "none"]
    /\ chunk = [w \in Workers |-> 0]
    /\ memStatus = [w \in Workers |-> "unborn"]
    /\ memStage = [w \in Workers |-> "none"]
    /\ late = [j \in Jobs |-> 0]
    /\ req = [c \in Clients |-> FreeSlot]
    /\ issued = 0
    /\ crashes = 0

-----------------------------------------------------------------------------
(* Sessions and control of a worker. *)

Goto(w, p) == pc' = [pc EXCEPT ![w] = p]

\* SELECT by a fresh session, or refresh: the copy becomes the row.
Refresh(w) ==
    /\ memStatus' = [memStatus EXCEPT ![w] = status[cur[w]]]
    /\ memStage' = [memStage EXCEPT ![w] = stage[cur[w]]]

\* UPDATE of the changed columns and COMMIT.
CommitRow(w, st, sg) ==
    /\ status' = [status EXCEPT ![cur[w]] = Col(memStatus[w], st, @)]
    /\ stage' = [stage EXCEPT ![cur[w]] = Col(memStage[w], sg, @)]
    /\ memStatus' = [memStatus EXCEPT ![w] = st]
    /\ memStage' = [memStage EXCEPT ![w] = sg]

\* The row is gone: the statement raises, process_job's own handler refreshes
\* the same row and raises again, and the worker swallows the exception.
RowGone(w) ==
    /\ ~Exists(cur[w])
    /\ Goto(w, "release")
    /\ UNCHANGED <<rowVars, memVars>>

\* What the steps of a worker never touch.
WorkerFrame == UNCHANGED <<up, clientVars, crashes>>

-----------------------------------------------------------------------------
(* The worker loop and the start of the pipeline. *)

AlreadyRunning_Unchecked(j) == FALSE   \* mutated form
AlreadyRunning(j) == j \in running

Dequeue(w) ==
    /\ up
    /\ pc[w] = "idle"
    /\ queue # <<>>
    /\ queue' = Tail(queue)
    /\ \/ /\ AlreadyRunning(Head(queue).job)
          /\ UNCHANGED <<running, pc, cur>>
       \/ /\ ~AlreadyRunning(Head(queue).job)
          /\ running' = running \cup {Head(queue).job}
          /\ cur' = [cur EXCEPT ![w] = Head(queue).job]
          /\ Goto(w, IF Head(queue).fail THEN "sim_fetch" ELSE "fetch")
    /\ WorkerFrame
    /\ UNCHANGED <<rowVars, fileVars, at, chunk, memVars, late>>

FetchJob(w) ==
    /\ pc[w] = "fetch"
    /\ \/ RowGone(w)
       \/ /\ Exists(cur[w])
          /\ Refresh(w)
          /\ Goto(w, CASE IsCancelled(status[cur[w]]) -> "fin_cancel"
                       [] status[cur[w]] = "pausing" -> "fin_pause"
                       [] status[cur[w]] = "paused" -> "release"
                       [] OTHER -> "claim")
          /\ UNCHANGED rowVars
    /\ WorkerFrame
    /\ UNCHANGED <<fileVars, queue, running, cur, at, chunk, late>>

\* Mutated form: the claim forgets the stage.
Claim_WithoutStage(w) ==
    /\ pc[w] = "claim"
    /\ \/ RowGone(w)
       \/ /\ Exists(cur[w])
          /\ CommitRow(w, "processing", memStage[w])
          /\ Goto(w, "claimed")
    /\ WorkerFrame
    /\ UNCHANGED <<fileVars, queue, running, cur, at, chunk, late>>

\* The copy loaded by FetchJob is several awaits old here, and the checks
\* before the claim read that copy: they cannot see a later pause or cancel.
Claim(w) ==
    /\ pc[w] = "claim"
    /\ \/ RowGone(w)
       \/ /\ Exists(cur[w])
          /\ CommitRow(w, "processing", "loading_model")
          /\ Goto(w, "claimed")
    /\ WorkerFrame
    /\ UNCHANGED <<fileVars, queue, running, cur, at, chunk, late>>

CheckAt(w, point) ==
    /\ Goto(w, "check_cancel")
    /\ at' = [at EXCEPT ![w] = point]

ConfirmClaim(w) ==
    /\ pc[w] = "claimed"
    /\ \/ RowGone(w) /\ UNCHANGED at
       \/ /\ Exists(cur[w])
          /\ Refresh(w)
          /\ IF status[cur[w]] = "processing"
             THEN CheckAt(w, "resolve")
             ELSE Goto(w, "release") /\ UNCHANGED at
          /\ UNCHANGED rowVars
    /\ WorkerFrame
    /\ UNCHANGED <<fileVars, queue, running, cur, chunk, late>>

\* should_fail: the row is marked failed whatever its state.
FetchToFail(w) ==
    /\ pc[w] = "sim_fetch"
    /\ \/ RowGone(w)
       \/ /\ Exists(cur[w])
          /\ Refresh(w)
          /\ Goto(w, "sim_fail")
          /\ UNCHANGED rowVars
    /\ WorkerFrame
    /\ UNCHANGED <<fileVars, queue, running, cur, at, chunk, late>>

SimulateFailure(w) ==
    /\ pc[w] = "sim_fail"
    /\ \/ RowGone(w)
       \/ /\ Exists(cur[w])
          /\ CommitRow(w, "failed", memStage[w])
          /\ Goto(w, "release")
    /\ WorkerFrame
    /\ UNCHANGED <<fileVars, queue, running, cur, at, chunk, late>>

-----------------------------------------------------------------------------
(* The two stop checks, each with a refresh of its own. *)

CheckCancel(w) ==
    /\ pc[w] = "check_cancel"
    /\ \/ RowGone(w)
       \/ /\ Exists(cur[w])
          /\ Refresh(w)
          /\ Goto(w, IF IsCancelled(status[cur[w]])
                     THEN "fin_cancel" ELSE "check_pause")
          /\ UNCHANGED rowVars
    /\ WorkerFrame
    /\ UNCHANGED <<fileVars, queue, running, cur, at, chunk, late>>

AfterChecks_SkipsWrite(point) ==   \* mutated form
    CASE point = "resolve" -> "load"
      [] point = "select"  -> "stage"
      [] point = "start"   -> "loop"
      [] point = "chunk"   -> "transcribe"
      [] OTHER             -> "complete"

AfterChecks(point) ==
    CASE point = "resolve" -> "load"
      [] point = "select"  -> "stage"
      [] point = "start"   -> "loop"
      [] point = "chunk"   -> "transcribe"
      [] OTHER             -> "finalize"

CheckPause(w) ==
    /\ pc[w] = "check_pause"
    /\ \/ RowGone(w)
       \/ /\ Exists(cur[w])
          /\ Refresh(w)
          /\ Goto(w, CASE status[cur[w]] = "pausing" -> "fin_pause"
                       [] status[cur[w]] = "paused" -> "release"
                       [] OTHER -> AfterChecks(at[w]))
          /\ UNCHANGED rowVars
    /\ WorkerFrame
    /\ UNCHANGED <<fileVars, queue, running, cur, at, chunk, late>>

\* The last statement of a run: end the row's state and leave the pipeline.
Finish(w, p, st, sg) ==
    /\ pc[w] = p
    /\ \/ RowGone(w)
       \/ /\ Exists(cur[w])
          /\ CommitRow(w, st, sg)
          /\ Goto(w, "release")
    /\ WorkerFrame
    /\ UNCHANGED <<fileVars, queue, running, cur, at, chunk, late>>

FinalizeCancellation(w) == Finish(w, "fin_cancel", "cancelled", "none")
FinalizePause(w)        == Finish(w, "fin_pause", "paused", "paused")
FailJob_KeepsStatus(w)  == Finish(w, "fail", memStatus[w], "none")   \* mutated form
FailJob(w)              == Finish(w, "fail", "failed", "none")

-----------------------------------------------------------------------------
(* Model, chunks, diarization. *)

LoadModel(w) ==
    /\ pc[w] = "load"
    /\ CheckAt(w, "select")
    /\ WorkerFrame
    /\ UNCHANGED <<rowVars, fileVars, queue, running, cur, chunk, memVars, late>>

BeginTranscribing(w) ==
    /\ pc[w] = "stage"
    /\ \/ RowGone(w) /\ UNCHANGED at
       \/ /\ Exists(cur[w])
          /\ CommitRow(w, memStatus[w], "transcribing")
          /\ CheckAt(w, "start")
    /\ WorkerFrame
    /\ UNCHANGED <<fileVars, queue, running, cur, chunk, late>>

NextChunk_OffByOne(w, i) ==   \* mutated form
    IF i <= Chunks
    THEN CheckAt(w, "chunk")
    ELSE Goto(w, "diarize") /\ UNCHANGED at

NextChunk_Unchecked(w, i) ==   \* mutated form
    /\ Goto(w, IF i < Chunks THEN "transcribe" ELSE "diarize")
    /\ UNCHANGED at

\* The head of the chunk loop, with i the next chunk.
NextChunk(w, i) ==
    IF i < Chunks
    THEN CheckAt(w, "chunk")
    ELSE Goto(w, "diarize") /\ UNCHANGED at

OpenCheckpoint(w) ==
    /\ pc[w] = "loop"
    /\ \/ RowGone(w) /\ UNCHANGED <<at, chunk>>
       \/ /\ Exists(cur[w])
          /\ chunk' = [chunk EXCEPT ![w] = ckpt[cur[w]]]
          /\ NextChunk(w, ckpt[cur[w]])
          /\ UNCHANGED <<rowVars, memVars>>
    /\ WorkerFrame
    /\ UNCHANGED <<fileVars, queue, running, cur, late>>

\* The recogniser comes back, from a chunk or from the whole media.
Recognised(w) ==
    late' = [late EXCEPT ![cur[w]] = IF status[cur[w]] \in StopStates THEN @ + 1 ELSE @]

\* The checkpoint file is written before the row.
TranscribeChunk(w) ==
    /\ pc[w] = "transcribe"
    /\ ckpt' = [ckpt EXCEPT ![cur[w]] = chunk[w] + 1]
    /\ Recognised(w)
    /\ \/ RowGone(w) /\ UNCHANGED <<at, chunk>>
       \/ /\ Exists(cur[w])
          /\ CommitRow(w, memStatus[w], "transcribing")
          /\ chunk' = [chunk EXCEPT ![w] = @ + 1]
          /\ NextChunk(w, chunk[w] + 1)
    /\ WorkerFrame
    /\ UNCHANGED <<transcript, rows, queue, running, cur>>

\* Mutated form: the fallback's result is not returned from the loop.
TranscribeWholeFile_KeepsLooping(w) ==
    /\ pc[w] = "transcribe"
    /\ ckpt' = [ckpt EXCEPT ![cur[w]] = 0]
    /\ Recognised(w)
    /\ \/ RowGone(w)
       \/ /\ Exists(cur[w])
          /\ Goto(w, "loop")
          /\ UNCHANGED <<rowVars, memVars>>
    /\ WorkerFrame
    /\ UNCHANGED <<transcript, rows, queue, running, cur, at, chunk>>

\* A chunk that cannot be rendered: the whole file is transcribed at once, in
\* one call that nothing interrupts, and without a check before or after it.
TranscribeWholeFile(w) ==
    /\ pc[w] = "transcribe"
    /\ ckpt' = [ckpt EXCEPT ![cur[w]] = 0]
    /\ Recognised(w)
    /\ \/ RowGone(w)
       \/ /\ Exists(cur[w])
          /\ Goto(w, "diarize")
          /\ UNCHANGED <<rowVars, memVars>>
    /\ WorkerFrame
    /\ UNCHANGED <<transcript, rows, queue, running, cur, at, chunk>>

SkipDiarization(w) ==
    /\ pc[w] = "diarize"
    /\ CheckAt(w, "final")
    /\ WorkerFrame
    /\ UNCHANGED <<rowVars, fileVars, queue, running, cur, chunk, memVars, late>>

BeginDiarization(w) ==
    /\ pc[w] = "diarize"
    /\ \/ RowGone(w)
       \/ /\ Exists(cur[w])
          /\ CommitRow(w, memStatus[w], "diarizing")
          /\ Goto(w, "diarizing")
    /\ WorkerFrame
    /\ UNCHANGED <<fileVars, queue, running, cur, at, chunk, late>>

\* The diarizer's failure is caught: either way the labels are committed.
EndDiarization(w) ==
    /\ pc[w] = "diarizing"
    /\ \/ RowGone(w) /\ UNCHANGED at
       \/ /\ Exists(cur[w])
          /\ CheckAt(w, "final")
          /\ UNCHANGED <<rowVars, memVars>>
    /\ WorkerFrame
    /\ UNCHANGED <<fileVars, queue, running, cur, chunk, late>>

-----------------------------------------------------------------------------
(* The end of a run. *)

BeginFinalizing(w) ==
    /\ pc[w] = "finalize"
    /\ \/ RowGone(w)
       \/ /\ Exists(cur[w])
          /\ CommitRow(w, memStatus[w], "finalizing")
          /\ Goto(w, "write")
    /\ WorkerFrame
    /\ UNCHANGED <<fileVars, queue, running, cur, at, chunk, late>>

WriteTranscript(w) ==
    /\ pc[w] = "write"
    /\ transcript' = [transcript EXCEPT ![cur[w]] = "written"]
    /\ Goto(w, "complete")
    /\ WorkerFrame
    /\ UNCHANGED <<rowVars, ckpt, rows, queue, running, cur, at, chunk, memVars, late>>

CompleteJob(w) ==
    /\ pc[w] = "complete"
    /\ \/ RowGone(w) /\ UNCHANGED rows
       \/ /\ Exists(cur[w])
          /\ CommitRow(w, "completed", "none")
          /\ rows' = [rows EXCEPT ![cur[w]] = @ + 1]
          /\ Goto(w, "cleanup")
    /\ WorkerFrame
    /\ UNCHANGED <<ckpt, transcript, queue, running, cur, at, chunk, late>>

RemoveCheckpoint(w) ==
    /\ pc[w] = "cleanup"
    /\ ckpt' = [ckpt EXCEPT ![cur[w]] = 0]
    /\ Goto(w, "release")
    /\ WorkerFrame
    /\ UNCHANGED <<rowVars, transcript, rows, queue, running, cur, at, chunk, memVars, late>>

\* No model can be loaded, the recogniser raises, the disk is full.
Raise(w) ==
    /\ pc[w] \in {"load", "loop", "transcribe", "write"}
    /\ Goto(w, "raised")
    /\ WorkerFrame
    /\ UNCHANGED <<rowVars, fileVars, queue, running, cur, at, chunk, memVars, late>>

HandleError(w) ==
    /\ pc[w] = "raised"
    /\ \/ RowGone(w)
       \/ /\ Exists(cur[w])
          /\ Refresh(w)
          /\ Goto(w, CASE IsCancelled(status[cur[w]]) -> "fin_cancel"
                       [] IsPause(status[cur[w]]) -> "fin_pause"
                       [] OTHER -> "fail")
          /\ UNCHANGED rowVars
    /\ WorkerFrame
    /\ UNCHANGED <<fileVars, queue, running, cur, at, chunk, late>>

Release(w) ==
    /\ pc[w] = "release"
    /\ running' = running \ {cur[w]}
    /\ late' = [late EXCEPT ![cur[w]] = 0]
    /\ Goto(w, "idle")
    /\ cur' = [cur EXCEPT ![w] = NoJob]
    /\ at' = [at EXCEPT ![w] = "none"]
    /\ chunk' = [chunk EXCEPT ![w] = 0]
    /\ memStatus' = [memStatus EXCEPT ![w] = "unborn"]
    /\ memStage' = [memStage EXCEPT ![w] = "none"]
    /\ WorkerFrame
    /\ UNCHANGED <<rowVars, fileVars, queue>>

WorkerStep(w) ==
    \/ Dequeue(w) \/ FetchJob(w) \/ Claim(w) \/ ConfirmClaim(w)
    \/ FetchToFail(w) \/ SimulateFailure(w)
    \/ CheckCancel(w) \/ CheckPause(w)
    \/ FinalizeCancellation(w) \/ FinalizePause(w) \/ FailJob(w)
    \/ LoadModel(w) \/ BeginTranscribing(w) \/ OpenCheckpoint(w)
    \/ TranscribeChunk(w) \/ TranscribeWholeFile(w)
    \/ SkipDiarization(w) \/ BeginDiarization(w) \/ EndDiarization(w)
    \/ BeginFinalizing(w) \/ WriteTranscript(w) \/ CompleteJob(w)
    \/ RemoveCheckpoint(w) \/ Raise(w) \/ HandleError(w) \/ Release(w)

-----------------------------------------------------------------------------
(* Route handlers: SELECT and guards, then the commit, then the enqueue.   *)

\* What a handler never touches.
ClientFrame == UNCHANGED <<up, ckpt, running, pc, localVars, crashes>>

Accept(c, r) ==
    /\ up
    /\ req[c] = FreeSlot
    /\ issued < MaxRequests
    /\ issued' = issued + 1
    /\ req' = [req EXCEPT ![c] = r]

CreateJob(c, j, fail) ==
    /\ "create" \in Ops
    /\ status[j] = "unborn"
    /\ Accept(c, [pc |-> "enqueue", op |-> "create", job |-> j, st |-> "unborn",
                  sg |-> "none", fail |-> fail])
    /\ status' = [status EXCEPT ![j] = "queued"]
    /\ ClientFrame
    /\ UNCHANGED <<stage, transcript, rows, queue, late>>

\* The guards of the handlers.  Pausing a paused job answers 200 and changes
\* nothing, so it is not a request here.
Admits(op, st, sg) ==
    CASE op = "cancel"  -> st \notin Terminal
      [] op = "pause"   -> \/ st = "queued"
                           \/ st = "processing" /\ sg # "diarizing"
      [] op = "resume"  -> st = "paused"
      [] op = "restart" -> st \notin {"processing", "queued"}
      [] op = "delete"  -> st \notin {"queued", "processing"}
      [] OTHER          -> FALSE

BeginRequest(c, op, j) ==
    /\ Exists(j)
    /\ Admits(op, status[j], stage[j])
    /\ Accept(c, [pc |-> "commit", op |-> op, job |-> j, st |-> status[j],
                  sg |-> stage[j], fail |-> FALSE])
    /\ transcript' = IF op = "delete" /\ transcript[j] = "written"
                     THEN [transcript EXCEPT ![j] = "erased"]
                     ELSE transcript
    /\ ClientFrame
    /\ UNCHANGED <<rowVars, rows, queue, late>>

\* The columns a handler assigns, from the status it loaded.
NewStatus(op, st) ==
    CASE op = "resume" -> "queued"
      [] op = "cancel" -> IF st \in {"processing", "pausing"} THEN "cancelling" ELSE "cancelled"
      [] OTHER         -> IF st = "queued" THEN "paused" ELSE "pausing"

NewStage(op, st) ==
    IF NewStatus(op, st) \in {"cancelling", "pausing", "paused"} THEN NewStatus(op, st) ELSE "none"

EndRequest(c) == req' = [req EXCEPT ![c] = FreeSlot]

ToEnqueue(c, j) ==
    req' = [req EXCEPT ![c] = [pc |-> "enqueue", op |-> req[c].op, job |-> j, st |-> "unborn",
                               sg |-> "none", fail |-> FALSE]]

CommitRequest(c) ==
    LET r == req[c] IN
    /\ r.pc = "commit"
    /\ r.op \in {"cancel", "pause", "resume"}
    /\ \/ /\ ~Exists(r.job)
          /\ EndRequest(c)
          /\ UNCHANGED <<rowVars, late>>
       \/ /\ Exists(r.job)
          /\ status' = [status EXCEPT ![r.job] = Col(r.st, NewStatus(r.op, r.st), @)]
          /\ stage' = [stage EXCEPT ![r.job] = Col(r.sg, NewStage(r.op, r.st), @)]
          /\ late' = [late EXCEPT ![r.job] = 0]
          /\ IF r.op = "resume" THEN ToEnqueue(c, r.job) ELSE EndRequest(c)
    /\ ClientFrame
    /\ UNCHANGED <<transcript, rows, queue, issued>>

\* Mutated form: the old job is enqueued.
CommitRestart_EnqueuesOld(c, n) ==
    /\ req[c].pc = "commit"
    /\ req[c].op = "restart"
    /\ status[n] = "unborn"
    /\ status' = [status EXCEPT ![n] = "queued"]
    /\ ToEnqueue(c, req[c].job)
    /\ ClientFrame
    /\ UNCHANGED <<stage, transcript, rows, queue, late, issued>>

CommitRestart(c, n) ==
    /\ req[c].pc = "commit"
    /\ req[c].op = "restart"
    /\ status[n] = "unborn"
    /\ status' = [status EXCEPT ![n] = "queued"]
    /\ ToEnqueue(c, n)
    /\ ClientFrame
    /\ UNCHANGED <<stage, transcript, rows, queue, late, issued>>

CommitDelete(c) ==
    /\ req[c].pc = "commit"
    /\ req[c].op = "delete"
    /\ status' = [status EXCEPT ![req[c].job] = "deleted"]
    /\ stage' = [stage EXCEPT ![req[c].job] = "none"]
    /\ rows' = [rows EXCEPT ![req[c].job] = 0]
    /\ EndRequest(c)
    /\ ClientFrame
    /\ UNCHANGED <<transcript, queue, late, issued>>

\* db.refresh after the commit, then queue.enqueue, which returns silently for
\* a job in _running_ids.  A row deleted meanwhile makes the refresh raise.
Enqueue(c) ==
    /\ req[c].pc = "enqueue"
    /\ \/ /\ ~Exists(req[c].job)
          /\ UNCHANGED queue
       \/ queue' = IF AlreadyRunning(req[c].job)
                   THEN queue
                   ELSE Append(queue, [job |-> req[c].job, fail |-> req[c].fail])
    /\ EndRequest(c)
    /\ ClientFrame
    /\ UNCHANGED <<rowVars, transcript, rows, late, issued>>

Accepting(c) ==
    \/ \E j \in Jobs, f \in FailFlags : CreateJob(c, j, f)
    \/ \E op \in Ops, j \in Jobs : BeginRequest(c, op, j)

Finishing(c) ==
    \/ CommitRequest(c)
    \/ \E n \in Jobs : CommitRestart(c, n)
    \/ CommitDelete(c)
    \/ Enqueue(c)

-----------------------------------------------------------------------------
(* Death and startup of the process. *)

Crash ==
    /\ up
    /\ crashes < MaxCrashes
    /\ crashes' = crashes + 1
    /\ up' = FALSE
    /\ queue' = <<>>
    /\ running' = {}
    /\ pc' = [w \in Workers |-> "idle"]
    /\ cur' = [w \in Workers |-> NoJob]
    /\ at' = [w \in Workers |-> "none"]
    /\ chunk' = [w \in Workers |-> 0]
    /\ memStatus' = [w \in Workers |-> "unborn"]
    /\ memStage' = [w \in Workers |-> "none"]
    /\ late' = [j \in Jobs |-> 0]
    /\ req' = [c \in Clients |-> FreeSlot]
    /\ UNCHANGED <<rowVars, fileVars, issued>>

Abandoned_NotQueued == {"processing", "cancelling"}   \* mutated form
Abandoned == {"queued", "processing", "cancelling"}

\* finalize_incomplete_jobs runs before the first request is served.
Startup ==
    /\ ~up
    /\ up' = TRUE
    /\ status' = [j \in Jobs |->
                    CASE status[j] = "pausing" -> "paused"
                      [] status[j] \in Abandoned -> "cancelled"
                      [] OTHER -> status[j]]
    /\ stage' = [j \in Jobs |->
                    CASE status[j] = "pausing" -> "paused"
                      [] status[j] \in Abandoned -> "none"
                      [] OTHER -> stage[j]]
    /\ UNCHANGED <<fileVars, queue, running, pc, localVars, late, clientVars, crashes>>

Next ==
    \/ \E w \in Workers : WorkerStep(w)
    \/ \E c \in Clients : Accepting(c)
    \/ \E c \in Clients : Finishing(c)
    \/ Crash
    \/ Startup

Spec == Init /\ [][Next]_vars

\* The event loop runs every ready task, and uvicorn runs a handler it has
\* accepted to its end; nobody has to send a request or to crash.
Fairness ==
    /\ \A w \in Workers : WF_vars(WorkerStep(w))
    /\ \A c \in Clients : WF_vars(Finishing(c))
    /\ WF_vars(Startup)

FairSpec == Spec /\ Fairness

-----------------------------------------------------------------------------
(* Safety. *)

\* Every variable keeps to the values the code can give it.
TypeOK ==
    /\ up \in BOOLEAN
    /\ status \in [Jobs -> Status]
    /\ stage \in [Jobs -> Stage]
    /\ ckpt \in [Jobs -> 0..Chunks]
    /\ transcript \in [Jobs -> {"none", "written", "erased"}]
    /\ rows \in [Jobs -> Nat]
    /\ queue \in Seq([job : Jobs, fail : BOOLEAN])
    /\ running \subseteq Jobs
    /\ pc \in [Workers -> PC]
    /\ cur \in [Workers -> Jobs \cup {NoJob}]
    /\ at \in [Workers -> Point]
    /\ chunk \in [Workers -> 0..Chunks]
    /\ memStatus \in [Workers -> Status]
    /\ memStage \in [Workers -> Stage]
    /\ late \in [Jobs -> Nat]
    /\ req \in [Clients -> Request]
    /\ issued \in 0..MaxRequests
    /\ crashes \in 0..MaxCrashes

\* Whatever duplicates the queue holds, two workers never run the same job:
\* they would write the same checkpoint and the same transcript file.
OneWorkerPerJob ==
    \A v, w \in Workers : v # w /\ cur[v] = cur[w] => cur[v] = NoJob

\* A row says "processing" only while a worker is in the pipeline with it: no
\* interleaving of handlers, errors, deletions and restarts leaves it behind.
ProcessingIsHeld ==
    up => \A j \in Jobs : status[j] = "processing" =>
            \E w \in Workers : cur[w] = j /\ pc[w] \in Active

\* After the last cancel or pause that was committed a run calls the recogniser
\* once more at most, or lets the call it is in come to its end, although the
\* cancel check and the pause check of the loop read the row at two different
\* moments.  That call is for one chunk, or, where a chunk could not be rendered,
\* for the whole media; the fallback never follows a late chunk, nor the other
\* way round.  A diarizer may still be run on top of it.
StopWithinOneCall == \A j \in Jobs : late[j] <= 1

\* A completed job has a transcripts row, and its file was written before.
CompletedHasTranscript ==
    \A j \in Jobs : status[j] = "completed" => rows[j] >= 1 /\ transcript[j] # "none"

\* The stage of a processing row, which pause_job reads in its guard, is one of
\* the pipeline's, although status and progress_stage are written column by
\* column from copies of different age.  Holds without pause and resume: a
\* request that changes only the stage between a fetch and its claim keeps the
\* claim, which then writes the status alone, from showing "loading_model".
ProcessingHasPipelineStage ==
    \A j \in Jobs : status[j] = "processing" =>
       stage[j] \in {"loading_model", "transcribing", "diarizing", "finalizing"}

Waiting(j) ==
    \/ \E i \in 1..Len(queue) : queue[i].job = j
    \/ \E c \in Clients : req[c].pc = "enqueue" /\ req[c].job = j
    \/ \E w \in Workers : cur[w] = j /\ pc[w] \in {"fetch", "claim", "sim_fetch", "sim_fail"}

\* A queued job is waiting to be picked up by a worker (models/job.py): it is
\* in the queue, about to be put there, or just taken from it.  Holds without
\* pause and resume; with them a resume can be swallowed by enqueue.
QueuedIsWaiting == up => \A j \in Jobs : status[j] = "queued" => Waiting(j)

\* A job is transcribed once: it gets one transcripts row, although process_job
\* does not look whether the row it fetches is completed.  Holds without pause
\* and resume, whose duplicate queue entries run a completed job again.
TranscribedOnce == \A j \in Jobs : rows[j] <= 1

-----------------------------------------------------------------------------
(* Liveness, under FairSpec. *)

\* A processing row does not stay processing, whatever fails on the way.
ProcessingEnds == \A j \in Jobs : status[j] = "processing" ~> status[j] # "processing"

\* A worker that has taken a job comes back for the next one.
WorkersComeBack == \A w \in Workers : pc[w] # "idle" ~> pc[w] = "idle"

\* A queued job leaves the queued state.  Holds without pause and resume.
QueuedIsServed == \A j \in Jobs : status[j] = "queued" ~> status[j] # "queued"

\* The checks that a worker at w has still to pass before the last ones.
BeforeLastChecks(w) ==
    pc[w] \in {"load", "stage", "loop", "transcribe", "diarize", "diarizing",
               "check_cancel", "raised"}

\* A cancel request that reaches the worker before its last cancel check ends
\* in a cancelled (or deleted) job: no error path turns it into another state.
\* Handlers one at a time: a stale pause can overwrite a cancel.
CancelIsHonoured ==
    \A j \in Jobs :
      (status[j] = "cancelling" /\ \E w \in Workers : cur[w] = j /\ BeforeLastChecks(w))
         ~> status[j] \in {"cancelled", "deleted"}

\* A pause request that reaches the worker before its last pause check ends in
\* a paused job, unless a cancel supersedes it.  Handlers one at a time.
PauseIsHonoured ==
    \A j \in Jobs :
      (status[j] = "pausing" /\ \E w \in Workers :
           cur[w] = j /\ (BeforeLastChecks(w) \/ pc[w] = "check_pause"))
         ~> status[j] \in {"paused", "cancelling", "cancelled", "deleted"}

-----------------------------------------------------------------------------
(* What the repository says of the program and the code does not keep. *)

\* models/job.py: "cancelling - ... worker is draining work in progress".
CancellingIsDrained == up => \A j \in Jobs : status[j] = "cancelling" => Held(j)

\* models/job.py: "cancelled - Cancellation confirmed (queued job or worker
\* acknowledged)": a cancelled job does not come back to life.
CancelledIsFinal ==
    [][\A j \in Jobs : status[j] = "cancelled" => status'[j] \in {"cancelled", "deleted"}]_vars
=============================================================================
