------------------------------- MODULE JobRun -------------------------------
(***************************************************************************)
(* What the runs of one job compute: the checkpoint file and the rendered  *)
(* chunks of services/whisper_service.py, the transcript they add up to,   *)
(* the transcoded audio file, the clock (started_at, processing_seconds)   *)
(* and the progress of the row.  The races of handlers and workers on the  *)
(* status are the subject of JobLifecycle; here a refresh and the commit   *)
(* that answers it are one step, handlers are atomic, and there is one     *)
(* worker.                                                                 *)
(*                                                                         *)
(* A chunk stands for the segments transcribed from it, so a list of       *)
(* segments is a sequence of chunk indices, with Torn for a rendered chunk *)
(* that is cut off.                                                        *)
(***************************************************************************)
EXTENDS Naturals, Sequences

CONSTANTS
    Durations,    \* chunks of the media, as the probe or its defaults may tell
    AsrShares,    \* percent of the work that is transcription: 100 = no diarizer
    DrainTargets, \* progress the heuristic may show while the diarizer works
    NoTime, NoFile, Torn, Whole,
    Second,       \* ticks of the clock in a second, the unit of processing_seconds
    RunMaxTime,   \* bound: ticks of the clock
    RunMaxOps,    \* bound: accepted pause, resume and cancel requests
    RunMaxCrashes \* bound: process deaths

ASSUME JobRunConstants ==
    /\ Durations \subseteq Nat \ {0} /\ \E n \in Durations : \A k \in Durations : k <= n
    /\ NoTime \notin Nat /\ Torn \notin Nat /\ NoFile # Torn
    /\ \A f \in {NoFile, Torn} : f \notin [total : Nat, next : Nat, segs : Seq(Nat \cup {Torn})]
    /\ AsrShares \subseteq 1..100
    /\ DrainTargets \subseteq 1..95
    /\ Second \in Nat \ {0}
    /\ RunMaxTime \in Nat /\ RunMaxOps \in Nat /\ RunMaxCrashes \in Nat

VARIABLES
    row,      \* the columns status, started, spent, percent, path of the job
    mem,      \* the copy of the row in the worker's session
    entries,  \* entries of the queue for this job
    file,     \* checkpoint.json: NoFile, Torn or [total, next, segs]
    parts,    \* chunks/chunk-*.wav: which chunks exist
    torn,     \* those of them that a failed or dying rendering left incomplete
    wav,      \* the transcoded copy of the media exists
    wpc,      \* the await at which the worker is suspended
    ck,       \* the checkpoint in the worker's memory
    usesWav,  \* transcoded_path is set in this run
    result,   \* segments of the transcript: NoFile, Whole or a sequence
    now,      \* the clock
    share,    \* percent of this job's work that is transcription
    worked,   \* history: ticks while a worker had the job
    claims,   \* history: how often a worker has claimed the job
    unsaved,  \* history: a pause could not write its checkpoint
    marred,   \* history: chunks whose rendering has failed or was cut off
    planned,  \* history: total of the checkpoint when it was created
    heard,    \* history: how often each chunk was transcribed
    losses,   \* history: how often a chunk was heard and not kept, or a
              \* checkpoint was torn, given up or done with
    ops, died \* counters of the bounds

runFiles == <<file, parts, torn, wav>>
runHist  == <<worked, claims, unsaved, marred, planned, heard, losses>>
runBounds == <<ops, died>>
runVars == <<row, mem, entries, runFiles, wpc, ck, usesWav, result, now,
             share, runHist, runBounds>>

AllChunks == 0..(CHOOSE n \in Durations : \A k \in Durations : k <= n) - 1
Heard(c) == IF c \in torn THEN Torn ELSE c
NewCheckpoint(n) == [total |-> n, next |-> 0, segs |-> <<>>]
Atleast(a, b) == IF a >= b THEN a ELSE b
Put(loaded, new, current) == IF new = loaded THEN current ELSE new

JobRunInit ==
    /\ row = [status |-> "queued", started |-> NoTime, spent |-> 0,
              percent |-> 0, path |-> FALSE]
    /\ mem = row
    /\ entries = 1
    /\ file = NoFile /\ parts = {} /\ torn = {} /\ wav = FALSE
    /\ wpc = "idle"
    /\ ck = NewCheckpoint(0)
    /\ usesWav = FALSE
    /\ share \in AsrShares
    /\ result = NoFile
    /\ now = 0 /\ worked = 0 /\ claims = 0 /\ unsaved = FALSE
    /\ marred = {}
    /\ planned = 0
    /\ heard = [c \in AllChunks |-> 0]
    /\ losses = 0
    /\ ops = 0 /\ died = 0

-----------------------------------------------------------------------------
(* The row, the clock and the ends of a run. *)

\* Commit: a column is written when it differs from the copy.
Write(new) ==
    /\ row' = [c \in DOMAIN row |-> Put(mem[c], new[c], row[c])]
    /\ mem' = new

\* processing_seconds grows by the whole seconds since the last claim.
Clocked(r) == IF r.started = NoTime THEN r.spent ELSE r.spent + (now - r.started) \div Second

\* A refresh followed by a commit.
Settle(new) == row' = new /\ mem' = new

Cancelling(r) == r.status \in {"cancelling", "cancelled"}

\* The answers to a stop; the commit of a refreshed copy.
FinalizeCancel == Settle([row EXCEPT !.spent = Clocked(row), !.status = "cancelled"])
FinalizePauseRow == Settle([row EXCEPT !.spent = Clocked(row), !.status = "paused"])

Stops == row.status \in {"cancelling", "cancelled", "pausing", "paused"}

\* abort_if_cancelled, then abort_if_pausing, with what follows at each.
StopOr(pausedAt) ==
    \/ /\ Cancelling(row) /\ FinalizeCancel /\ wpc' = "release"
    \/ /\ row.status = "pausing" /\ FinalizePauseRow /\ wpc' = pausedAt
    \/ /\ row.status = "paused" /\ Settle(row) /\ wpc' = pausedAt

\* What most steps of the worker leave alone.
KeepFiles == UNCHANGED <<runFiles, result>>
KeepHistory == UNCHANGED <<now, share, runHist, runBounds>>

\* A checkpoint that is not written to its end: the file is as it was or cut
\* off.  What was heard since the last one is lost, and all of it when the file is.
HalfWrite ==
    /\ \/ file' = file
       \/ wpc \in {"keep", "save"} /\ file' = Torn
    /\ losses' = losses + (IF wpc = "keep" \/ file' # file THEN 1 ELSE 0)

\* Everything inside the try: refresh, then cancel, pause or fail.  (What the
\* rendering of a chunk raises is caught in the loop: RenderRun.)  A checkpoint
\* that fails after the commit of a pause settles the row once more.
RunRaise ==
    /\ wpc \in {"prepare", "open", "hear", "whole", "keep", "save", "write"}
    /\ \/ /\ ~Stops
          /\ Settle([row EXCEPT !.status = "failed", !.spent = Clocked(row),
                               !.started = NoTime])
       \/ Cancelling(row) /\ FinalizeCancel
       \/ row.status \in {"pausing", "paused"} /\ FinalizePauseRow
    /\ wpc' = "release"
    /\ HalfWrite
    /\ unsaved' = (unsaved \/ wpc = "save")
    /\ UNCHANGED <<entries, parts, torn, wav, ck, usesWav, result, now, share, worked,
                   claims, marred, planned, heard, runBounds>>

\* finally: the transcoded file goes unless the job is paused.
RunRelease ==
    /\ wpc = "release"
    /\ wpc' = "idle"
    /\ mem' = row
    /\ wav' = (wav /\ (usesWav => row.status \in {"paused", "pausing"}))
    /\ usesWav' = FALSE
    /\ KeepHistory
    /\ UNCHANGED <<row, entries, file, parts, torn, ck, result>>

-----------------------------------------------------------------------------
(* The pipeline. *)

\* Dequeue and fetch.
FetchRun ==
    /\ wpc = "idle" /\ entries > 0
    /\ entries' = entries - 1
    /\ \/ StopOr("release")
       \/ ~Stops /\ Settle(row) /\ wpc' = "claim"
    /\ KeepFiles /\ KeepHistory
    /\ UNCHANGED <<ck, usesWav>>

\* Status, started_at and progress are written whatever happened since.
ClaimRun_KeepsStart ==   \* mutated form
    /\ wpc = "claim"
    /\ Write([mem EXCEPT !.status = "processing", !.percent = 0,
                         !.started = IF @ = NoTime THEN now ELSE @])
    /\ wpc' = "claimed"
    /\ claims' = claims + 1
    /\ KeepFiles
    /\ UNCHANGED <<entries, ck, usesWav, now, share, worked, unsaved, marred, planned,
                   heard, losses, runBounds>>
ClaimRun ==
    /\ wpc = "claim"
    /\ Write([mem EXCEPT !.status = "processing", !.percent = 0, !.started = now])
    /\ wpc' = "claimed"
    /\ claims' = claims + 1
    /\ KeepFiles
    /\ UNCHANGED <<entries, ck, usesWav, now, share, worked, unsaved, marred, planned,
                   heard, losses, runBounds>>

\* The refresh after the claim: a job that has left processing is let go as it is.
ConfirmRun ==
    /\ wpc = "claimed"
    /\ Settle(row)
    /\ wpc' = IF row.status = "processing" THEN "prepare" ELSE "release"
    /\ KeepFiles /\ KeepHistory
    /\ UNCHANGED <<entries, ck, usesWav>>

\* The model is resolved and the media transcoded, which may fail and is then
\* done without; a run that fails to transcode does not know the file an
\* earlier run has kept.
PrepareRun ==
    /\ wpc = "prepare"
    /\ \/ StopOr("release") /\ UNCHANGED <<wav, usesWav>>
       \/ /\ ~Stops
          /\ Settle(row)
          /\ \/ wav' = TRUE /\ usesWav' = TRUE
             \/ UNCHANGED <<wav, usesWav>>
          /\ wpc' = "begin"
    /\ KeepHistory
    /\ UNCHANGED <<entries, file, parts, torn, ck, result>>

BeginRun ==
    /\ wpc = "begin"
    /\ \/ StopOr("release")
       \/ ~Stops /\ Settle([row EXCEPT !.percent = 0]) /\ wpc' = "open"
    /\ KeepFiles /\ KeepHistory
    /\ UNCHANGED <<entries, ck, usesWav>>

\* A readable checkpoint keeps its total; otherwise the duration is probed.
OpenRun_ProbesAgain ==   \* mutated form
    /\ wpc = "open"
    /\ \E n \in Durations :
         /\ ck' = IF file \in {NoFile, Torn} THEN NewCheckpoint(n)
                  ELSE [file EXCEPT !.total = n]
         /\ planned' = IF file \in {NoFile, Torn} THEN n ELSE planned
    /\ Settle([row EXCEPT !.path = TRUE])
    /\ wpc' = "loop"
    /\ UNCHANGED <<entries, runFiles, usesWav, result, now, share, worked, claims,
                   unsaved, marred, heard, losses, runBounds>>
OpenRun ==
    /\ wpc = "open"
    /\ \/ StopOr("release") /\ UNCHANGED <<ck, planned>>
       \/ /\ ~Stops
          /\ \/ /\ file \in {NoFile, Torn}
                /\ \E n \in Durations : ck' = NewCheckpoint(n) /\ planned' = n
             \/ /\ file \notin {NoFile, Torn}
                /\ ck' = file
                /\ UNCHANGED planned
          /\ Settle([row EXCEPT !.path = TRUE])
          /\ wpc' = "loop"
    /\ UNCHANGED <<entries, runFiles, usesWav, result, now, share, worked, claims,
                   unsaved, marred, heard, losses, runBounds>>

\* One turn of the chunk loop up to the rendering, or the end of the loop.
LoopRun ==
    /\ wpc = "loop"
    /\ IF ck.next >= ck.total
       THEN result' = ck.segs /\ wpc' = "transcribed" /\ UNCHANGED <<row, mem>>
       ELSE /\ UNCHANGED result
            /\ \/ StopOr("save")
               \/ ~Stops /\ Settle(row) /\ wpc' = "render"
    /\ UNCHANGED runFiles /\ KeepHistory
    /\ UNCHANGED <<entries, ck, usesWav>>

\* A pause rewrites the checkpoint after its commit.
SaveRun ==
    /\ wpc = "save"
    /\ file' = ck
    /\ wpc' = "release"
    /\ KeepHistory
    /\ UNCHANGED <<row, mem, entries, parts, torn, wav, ck, usesWav, result>>

\* ffmpeg fails or is killed: what it has written of the chunk may stay.
PartialChunk ==
    /\ ck.next \notin parts
    /\ \/ UNCHANGED <<parts, torn>>
       \/ parts' = parts \cup {ck.next} /\ torn' = torn \cup {ck.next}
    /\ marred' = marred \cup {ck.next}

\* A chunk that exists is not rendered again; one that cannot be rendered sends
\* the whole media through the model.
RenderRun ==
    /\ wpc = "render"
    /\ \/ /\ parts' = parts \cup {ck.next}
          /\ wpc' = "hear"
          /\ UNCHANGED <<torn, marred>>
       \/ PartialChunk /\ wpc' = "whole"
    /\ UNCHANGED <<row, mem, entries, file, wav, ck, usesWav, result, now, share, worked,
                   claims, unsaved, planned, heard, losses, runBounds>>

\* The transcript of the whole media; the checkpoint is deleted...
WholeRun ==
    /\ wpc = "whole"
    /\ result' = Whole
    /\ file' = NoFile
    /\ losses' = losses + 1
    /\ wpc' = "drop"
    /\ UNCHANGED <<row, mem, entries, parts, torn, wav, ck, usesWav, now, share, worked,
                   claims, unsaved, marred, planned, heard, runBounds>>

\* ...and then its path.
DropRun ==
    /\ wpc = "drop"
    /\ Write([mem EXCEPT !.path = FALSE])
    /\ wpc' = "transcribed"
    /\ KeepFiles /\ KeepHistory
    /\ UNCHANGED <<entries, ck, usesWav>>

\* The segments of a chunk are in the worker's memory...
HearRun ==
    /\ wpc = "hear"
    /\ ck' = [ck EXCEPT !.next = @ + 1, !.segs = Append(@, Heard(ck.next))]
    /\ heard' = [heard EXCEPT ![ck.next] = @ + 1]
    /\ wpc' = "keep"
    /\ UNCHANGED <<row, mem, entries, runFiles, usesWav, result, now, share, worked, claims,
                   unsaved, marred, planned, losses, runBounds>>

\* ...then in the file...
KeepRun_ForgetsFile ==   \* mutated form
    /\ wpc = "keep"
    /\ wpc' = "commit"
    /\ KeepFiles /\ KeepHistory
    /\ UNCHANGED <<row, mem, entries, ck, usesWav>>
KeepRun ==
    /\ wpc = "keep"
    /\ file' = ck
    /\ wpc' = "commit"
    /\ KeepHistory
    /\ UNCHANGED <<row, mem, entries, parts, torn, wav, ck, usesWav, result>>

\* ...and then the progress is in the row.
CommitRun ==
    /\ wpc = "commit"
    /\ Write([mem EXCEPT !.percent = Atleast(@, (ck.next * share) \div ck.total)])
    /\ wpc' = "loop"
    /\ KeepFiles /\ KeepHistory
    /\ UNCHANGED <<entries, ck, usesWav>>

\* Without a diarizer, or with it from the share of the transcription on.
BeginDiarizing ==
    /\ wpc = "transcribed"
    /\ \/ wpc' = "check" /\ UNCHANGED <<row, mem>>
       \/ /\ share < 100
          /\ Write([mem EXCEPT !.percent = Atleast(@, share)])
          /\ wpc' = "diarizing"
    /\ KeepFiles /\ KeepHistory
    /\ UNCHANGED <<entries, ck, usesWav>>

\* The background task that moves the progress while the diarizer works, in a
\* session of its own; it is cancelled and awaited before the run goes on.
DrainProgress ==
    /\ wpc = "diarizing" /\ row.status = "processing"
    /\ \E target \in DrainTargets :
         row' = [row EXCEPT !.percent = Atleast(@, target)]
    /\ KeepFiles /\ KeepHistory
    /\ UNCHANGED <<mem, entries, wpc, ck, usesWav>>

\* Success reaches 95, an error leaves the progress where it is.
EndDiarizing_ToFloor ==   \* mutated form
    /\ wpc = "diarizing"
    /\ Write([mem EXCEPT !.percent = share + 1])
    /\ wpc' = "check"
    /\ KeepFiles /\ KeepHistory
    /\ UNCHANGED <<entries, ck, usesWav>>
EndDiarizing ==
    /\ wpc = "diarizing"
    /\ \/ Write([mem EXCEPT !.percent = Atleast(@, 95)])
       \/ UNCHANGED <<row, mem>>
    /\ wpc' = "check"
    /\ KeepFiles /\ KeepHistory
    /\ UNCHANGED <<entries, ck, usesWav>>

BeginFinal ==
    /\ wpc = "check"
    /\ \/ StopOr("release")
       \/ ~Stops /\ Settle([row EXCEPT !.percent = Atleast(@, 95)]) /\ wpc' = "write"
    /\ KeepFiles /\ KeepHistory
    /\ UNCHANGED <<entries, ck, usesWav>>

CompleteRun ==
    /\ wpc = "write"
    /\ Write([mem EXCEPT !.status = "completed", !.percent = 100, !.spent = Clocked(mem)])
    /\ wpc' = IF mem.path THEN "clean" ELSE "release"
    /\ KeepFiles /\ KeepHistory
    /\ UNCHANGED <<entries, ck, usesWav>>

CleanRun ==
    /\ wpc = "clean"
    /\ file' = NoFile /\ parts' = {} /\ torn' = {}
    /\ Write([mem EXCEPT !.path = FALSE])
    /\ wpc' = "release"
    /\ losses' = losses + 1
    /\ UNCHANGED <<entries, wav, ck, usesWav, result, now, share, worked, claims, unsaved,
                   marred, planned, heard, runBounds>>

WorkerRuns ==
    \/ FetchRun \/ ClaimRun \/ ConfirmRun \/ PrepareRun \/ BeginRun \/ OpenRun \/ LoopRun
    \/ SaveRun \/ RenderRun \/ WholeRun \/ DropRun \/ HearRun \/ KeepRun \/ CommitRun
    \/ BeginDiarizing \/ EndDiarizing \/ BeginFinal \/ CompleteRun \/ CleanRun \/ RunRaise \/ RunRelease

-----------------------------------------------------------------------------
(* The requests, the clock, and the death of the process. *)

\* An id the worker has not released yet is not enqueued again.
CancelRun ==
    /\ \/ row.status \in {"processing", "pausing"} /\ row' = [row EXCEPT !.status = "cancelling"]
       \/ /\ row.status \in {"queued", "paused", "cancelling"}
          /\ row' = [row EXCEPT !.status = "cancelled"]
    /\ UNCHANGED entries

PauseRun ==
    /\ \/ /\ row.status = "processing" /\ wpc # "diarizing"
          /\ row' = [row EXCEPT !.status = "pausing"]
       \/ row.status = "queued" /\ row' = [row EXCEPT !.status = "paused"]
    /\ UNCHANGED entries

ResumeRun ==
    /\ row.status = "paused"
    /\ row' = [row EXCEPT !.status = "queued"]
    /\ entries' = IF wpc = "idle" THEN entries + 1 ELSE entries

RequestRun ==
    /\ ops < RunMaxOps /\ ops' = ops + 1
    /\ CancelRun \/ PauseRun \/ ResumeRun
    /\ UNCHANGED <<mem, runFiles, wpc, ck, usesWav, result, now, share, runHist, died>>

\* A worker has the job: by the row, or by a worker that has not seen that a
\* second cancel closed the row.
Worked ==
    \/ row.status \in {"processing", "pausing", "cancelling"}
    \/ row.status = "cancelled" /\ wpc \notin {"idle", "claim", "release"}

Tick ==
    /\ now < RunMaxTime /\ now' = now + 1
    /\ worked' = worked + (IF Worked THEN 1 ELSE 0)
    /\ UNCHANGED <<row, mem, entries, runFiles, wpc, ck, usesWav, result, share, claims,
                   unsaved, marred, planned, heard, losses, runBounds>>

\* The process dies, in the middle of a write or of a rendering if it was at
\* one, and finalize_incomplete_jobs settles the row at the next startup.
CrashRun ==
    /\ died < RunMaxCrashes /\ died' = died + 1
    /\ HalfWrite
    /\ \/ UNCHANGED <<parts, torn, marred>>
       \/ wpc = "render" /\ PartialChunk
    /\ row' = IF row.status \in {"queued", "processing", "cancelling", "pausing"}
              THEN [row EXCEPT !.spent = Clocked(row), !.started = NoTime,
                       !.status = IF row.status = "pausing" THEN "paused" ELSE "cancelled"]
              ELSE row
    /\ mem' = row'
    /\ entries' = 0
    /\ wpc' = "idle"
    /\ usesWav' = FALSE
    /\ UNCHANGED <<wav, ck, result, now, share, worked, claims, unsaved, planned, heard, ops>>

JobRunNext ==
    \/ WorkerRuns \/ DrainProgress \/ RequestRun \/ Tick \/ CrashRun

JobRunSpec == JobRunInit /\ [][JobRunNext]_runVars

-----------------------------------------------------------------------------
(* Properties. *)

RunStatus == {"queued", "processing", "pausing", "paused", "cancelling", "cancelled",
              "completed", "failed"}
Checkpoint == [total : Durations \cup {0}, next : Nat, segs : Seq(AllChunks \cup {Torn})]
Times == Nat \cup {NoTime}
RunRow == [status : RunStatus, started : Times, spent : Nat, percent : 0..100, path : BOOLEAN]

\* Types of the variables, and the index of a checkpoint stays in its range.
JobRunTypeOK ==
    /\ row \in RunRow /\ mem \in RunRow
    /\ entries \in Nat
    /\ file \in {NoFile, Torn} \/ file \in Checkpoint
    /\ ck \in Checkpoint /\ ck.next <= ck.total
    /\ parts \subseteq AllChunks /\ torn \subseteq parts
    /\ wav \in BOOLEAN /\ usesWav \in BOOLEAN
    /\ result \in {NoFile, Whole} \/ result \in Seq(AllChunks \cup {Torn})
    /\ heard \in [AllChunks -> Nat] /\ torn \subseteq marred

\* The transcript of a completed job has every chunk of the media once and in
\* order, however often the run was paused, resumed, failed to be written or was
\* killed in between; cut off is at most a chunk whose rendering once failed or
\* died, because a chunk that exists is not rendered again.
InOrder(segs, n) ==
    /\ Len(segs) = n
    /\ \A i \in 1..n : segs[i] = i - 1 \/ (segs[i] = Torn /\ i - 1 \in marred)
TranscriptIsWhole ==
    row.status = "completed" => result = Whole \/ InOrder(result, planned)

\* Chunks are not transcribed again after a pause: once, and once more each time
\* a run failed or died between a chunk and its checkpoint, a checkpoint was cut
\* off or given up, or a run finished and another one found its checkpoint gone
\* (of an entry left behind by pause and resume).
HeardOnce == \A c \in AllChunks : heard[c] <= losses + 1

\* While no process dies, processing_seconds of a job that rests is the time its
\* row was processing or stopping, up to the part of a second that each run drops:
\* pauses and waits in the queue do not count.  A pause that cannot write its
\* checkpoint counts its run twice and is left out.
TimeIsWork ==
    died = 0 /\ ~unsaved /\ row.status \in {"completed", "failed", "paused"} =>
        /\ Second * row.spent <= worked
        /\ worked <= Second * row.spent + claims * (Second - 1)

\* The progress a user sees falls only where a run starts over.
ProgressOnlyRises ==
    [][wpc \notin {"claim", "begin"} => row'.percent >= row.percent]_runVars
=============================================================================
