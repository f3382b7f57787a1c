------------------------ MODULE JobLifecycle_proofs -------------------------
(***************************************************************************)
(* Theorems about JobLifecycle, for any number of jobs, workers, handlers, *)
(* chunks, requests and crashes.                                           *)
(*                                                                         *)
(* First type correctness, through the invariant TInv.  Then the safety    *)
(* properties, through the inductive invariant IInv.  The steps of the     *)
(* pipeline of a worker are handled together: PipelineLocal bounds what    *)
(* they touch, PipelineStatus, PipelineOwnJob and PipelineLate say what    *)
(* they do to their own job, action by action.  Last, what holds only      *)
(* where nobody pauses and resumes, through the invariant Ticket.          *)
(***************************************************************************)
EXTENDS JobLifecycle, SequenceTheorems, TLAPS

-----------------------------------------------------------------------------
(* Type correctness. *)

\* Exactly the idle workers hold no job.
HeldJob == \A w \in Workers : cur[w] = NoJob <=> pc[w] = "idle"

\* A worker that is about to transcribe has a chunk left.
ChunkBound ==
    \A w \in Workers :
      \/ pc[w] = "transcribe"
      \/ at[w] = "chunk" /\ pc[w] \in {"check_cancel", "check_pause"}
      => chunk[w] < Chunks

\* A handler in progress has a job.
ReqJob == \A c \in Clients : req[c].pc # "free" => req[c].job \in Jobs

TInv == TypeOK /\ HeldJob /\ ChunkBound /\ ReqJob

\* The initial states are well typed.
LEMMA TInvInit == Init => TInv
BY ConstantsAssumption DEF Init, TInv, TypeOK, HeldJob, ChunkBound, ReqJob, Status, Stage, Terminal,
  StopStates, PC, Point, FreeSlot, Request

\* The members of the enumerated sets, so that the sets stay folded below.
LEMMA Literals ==
    /\ {"idle", "fetch", "sim_fetch", "sim_fail", "claim", "claimed", "check_cancel",
        "check_pause", "load", "stage", "loop", "transcribe", "diarize", "diarizing",
        "finalize", "write", "complete", "cleanup", "raised", "fail", "fin_cancel",
        "fin_pause", "release"} \subseteq PC
    /\ {"unborn", "deleted", "queued", "processing", "completed", "failed", "cancelled",
        "cancelling", "pausing", "paused"} \subseteq Status
    /\ {"none", "loading_model", "transcribing", "diarizing", "finalizing",
        "cancelling", "pausing", "paused"} \subseteq Stage
    /\ {"none", "resolve", "select", "start", "chunk", "final"} \subseteq Point
BY DEF PC, Status, Stage, Point, Terminal, StopStates

\* A refresh copies a status and a stage.
LEMMA RefreshType ==
    ASSUME TypeOK, NEW w \in Workers, cur[w] \in Jobs, Refresh(w)
    PROVE  memStatus' \in [Workers -> Status] /\ memStage' \in [Workers -> Stage]
BY DEF TypeOK, Refresh

\* A commit of a status and a stage keeps rows and copies well typed.
LEMMA CommitRowType ==
    ASSUME TypeOK, NEW w \in Workers, NEW st \in Status, NEW sg \in Stage, CommitRow(w, st, sg)
    PROVE  /\ status' \in [Jobs -> Status] /\ stage' \in [Jobs -> Stage]
           /\ memStatus' \in [Workers -> Status] /\ memStage' \in [Workers -> Stage]
BY DEF TypeOK, CommitRow, Col

\* The count of late calls stays a number.
LEMMA RecognisedType ==
    ASSUME TypeOK, NEW w \in Workers, Recognised(w)
    PROVE  late' \in [Jobs -> Nat]
<1>1. late \in [Jobs -> Nat]  BY DEF TypeOK
<1>2. late' = late \/ late' = [late EXCEPT ![cur[w]] = late[cur[w]] + 1]
  <2>1. late' = [late EXCEPT ![cur[w]] = IF status[cur[w]] \in StopStates THEN @ + 1 ELSE @]
    BY DEF Recognised
  <2>2. QED  BY <2>1, <1>1
<1>3. QED  BY <1>1, <1>2

\* A jump leads to an await of the code.
LEMMA GotoType ==
    ASSUME TypeOK, NEW w \in Workers, NEW p \in PC, Goto(w, p)
    PROVE  pc' \in [Workers -> PC]
BY DEF TypeOK, Goto

\* Every step of the pipeline preserves TInv.
LEMMA TInvPipeline ==
    ASSUME TypeOK, HeldJob, ChunkBound, ReqJob, NEW w \in Workers, WorkerStep(w), pc[w] # "idle", ~Release(w)
    PROVE  TypeOK' /\ HeldJob' /\ ChunkBound' /\ ReqJob'
<1>1. cur[w] \in Jobs /\ cur[w] # NoJob
  BY ConstantsAssumption DEF HeldJob, TypeOK
<1>2. CASE FetchJob(w)
  <2>1. \E p \in {"fin_cancel", "fin_pause", "release", "claim"} : Goto(w, p)
    BY <1>2 DEF FetchJob, RowGone
  <2>2. pc' \in [Workers -> PC]
    BY <2>1, GotoType, Literals
  <2>3. memStatus' \in [Workers -> Status] /\ memStage' \in [Workers -> Stage]
    BY <1>2, <1>1, RefreshType DEF FetchJob, RowGone, memVars, TypeOK
  <2>4. TypeOK'
    BY <1>2, <2>2, <2>3 DEF FetchJob, TypeOK, RowGone, WorkerFrame, clientVars, rowVars, fileVars, memVars
  <2>5. HeldJob'
    <3>1. cur' = cur  BY <1>2 DEF FetchJob
    <3>2. QED  BY <3>1, <2>1, <1>1 DEF HeldJob, Goto, TypeOK
  <2>6. ChunkBound'
    BY <1>2 DEF FetchJob, ChunkBound, Goto, RowGone, TypeOK
  <2>7. ReqJob'
    BY <1>2 DEF FetchJob, ReqJob, WorkerFrame, clientVars
  <2>8. QED  BY <2>4, <2>5, <2>6, <2>7
<1>3. CASE Claim(w)
  <2>1. \E p \in {"claimed", "release"} : Goto(w, p)
    BY <1>3 DEF Claim, RowGone
  <2>2. pc' \in [Workers -> PC]
    BY <2>1, GotoType, Literals
  <2>3. /\ status' \in [Jobs -> Status] /\ stage' \in [Jobs -> Stage]
       /\ memStatus' \in [Workers -> Status] /\ memStage' \in [Workers -> Stage]
    BY <1>3, CommitRowType, Literals DEF Claim, RowGone, rowVars, memVars, TypeOK
  <2>4. TypeOK'
    BY <1>3, <2>2, <2>3 DEF Claim, TypeOK, RowGone, WorkerFrame, clientVars, rowVars, fileVars, memVars
  <2>5. HeldJob'
    <3>1. cur' = cur  BY <1>3 DEF Claim
    <3>2. QED  BY <3>1, <2>1, <1>1 DEF HeldJob, Goto, TypeOK
  <2>6. ChunkBound'
    BY <1>3 DEF Claim, ChunkBound, Goto, RowGone, TypeOK
  <2>7. ReqJob'
    BY <1>3 DEF Claim, ReqJob, WorkerFrame, clientVars
  <2>8. QED  BY <2>4, <2>5, <2>6, <2>7
<1>4. CASE ConfirmClaim(w)
  <2>1. \E p \in {"check_cancel", "release"} : Goto(w, p)
    BY <1>4 DEF ConfirmClaim, CheckAt, RowGone
  <2>2. pc' \in [Workers -> PC]
    BY <2>1, GotoType, Literals
  <2>3. at' \in [Workers -> Point]
    <3>1. at' = at \/ at' = [at EXCEPT ![w] = "resolve"]
      BY <1>4 DEF ConfirmClaim, CheckAt, RowGone
    <3>2. QED  BY <3>1, Literals DEF TypeOK
  <2>4. memStatus' \in [Workers -> Status] /\ memStage' \in [Workers -> Stage]
    BY <1>4, <1>1, RefreshType DEF ConfirmClaim, RowGone, memVars, TypeOK
  <2>5. TypeOK'
    BY <1>4, <2>2, <2>3, <2>4 DEF ConfirmClaim, TypeOK, RowGone, WorkerFrame, clientVars, rowVars, fileVars, memVars
  <2>6. HeldJob'
    <3>1. cur' = cur  BY <1>4 DEF ConfirmClaim
    <3>2. QED  BY <3>1, <2>1, <1>1 DEF HeldJob, Goto, TypeOK
  <2>7. ChunkBound'
    BY <1>4 DEF ConfirmClaim, ChunkBound, Goto, RowGone, TypeOK, CheckAt
  <2>8. ReqJob'
    BY <1>4 DEF ConfirmClaim, ReqJob, WorkerFrame, clientVars
  <2>9. QED  BY <2>5, <2>6, <2>7, <2>8
<1>5. CASE FetchToFail(w)
  <2>1. \E p \in {"sim_fail", "release"} : Goto(w, p)
    BY <1>5 DEF FetchToFail, RowGone
  <2>2. pc' \in [Workers -> PC]
    BY <2>1, GotoType, Literals
  <2>3. memStatus' \in [Workers -> Status] /\ memStage' \in [Workers -> Stage]
    BY <1>5, <1>1, RefreshType DEF FetchToFail, RowGone, memVars, TypeOK
  <2>4. TypeOK'
    BY <1>5, <2>2, <2>3 DEF FetchToFail, TypeOK, RowGone, WorkerFrame, clientVars, rowVars, fileVars, memVars
  <2>5. HeldJob'
    <3>1. cur' = cur  BY <1>5 DEF FetchToFail
    <3>2. QED  BY <3>1, <2>1, <1>1 DEF HeldJob, Goto, TypeOK
  <2>6. ChunkBound'
    BY <1>5 DEF FetchToFail, ChunkBound, Goto, RowGone, TypeOK
  <2>7. ReqJob'
    BY <1>5 DEF FetchToFail, ReqJob, WorkerFrame, clientVars
  <2>8. QED  BY <2>4, <2>5, <2>6, <2>7
<1>6. CASE SimulateFailure(w)
  <2>1. \E p \in {"release"} : Goto(w, p)
    BY <1>6 DEF SimulateFailure, RowGone
  <2>2. pc' \in [Workers -> PC]
    BY <2>1, GotoType, Literals
  <2>3. /\ status' \in [Jobs -> Status] /\ stage' \in [Jobs -> Stage]
       /\ memStatus' \in [Workers -> Status] /\ memStage' \in [Workers -> Stage]
    BY <1>6, CommitRowType, Literals DEF SimulateFailure, RowGone, rowVars, memVars, TypeOK
  <2>4. TypeOK'
    BY <1>6, <2>2, <2>3 DEF SimulateFailure, TypeOK, RowGone, WorkerFrame, clientVars, rowVars, fileVars, memVars
  <2>5. HeldJob'
    <3>1. cur' = cur  BY <1>6 DEF SimulateFailure
    <3>2. QED  BY <3>1, <2>1, <1>1 DEF HeldJob, Goto, TypeOK
  <2>6. ChunkBound'
    BY <1>6 DEF SimulateFailure, ChunkBound, Goto, RowGone, TypeOK
  <2>7. ReqJob'
    BY <1>6 DEF SimulateFailure, ReqJob, WorkerFrame, clientVars
  <2>8. QED  BY <2>4, <2>5, <2>6, <2>7
<1>7. CASE CheckCancel(w)
  <2>1. \E p \in {"fin_cancel", "check_pause", "release"} : Goto(w, p)
    BY <1>7 DEF CheckCancel, RowGone
  <2>2. pc' \in [Workers -> PC]
    BY <2>1, GotoType, Literals
  <2>3. memStatus' \in [Workers -> Status] /\ memStage' \in [Workers -> Stage]
    BY <1>7, <1>1, RefreshType DEF CheckCancel, RowGone, memVars, TypeOK
  <2>4. TypeOK'
    BY <1>7, <2>2, <2>3 DEF CheckCancel, TypeOK, RowGone, WorkerFrame, clientVars, rowVars, fileVars, memVars
  <2>5. HeldJob'
    <3>1. cur' = cur  BY <1>7 DEF CheckCancel
    <3>2. QED  BY <3>1, <2>1, <1>1 DEF HeldJob, Goto, TypeOK
  <2>6. ChunkBound'
    BY <1>7 DEF CheckCancel, ChunkBound, Goto, RowGone, TypeOK
  <2>7. ReqJob'
    BY <1>7 DEF CheckCancel, ReqJob, WorkerFrame, clientVars
  <2>8. QED  BY <2>4, <2>5, <2>6, <2>7
<1>8. CASE CheckPause(w)
  <2>1. \E p \in {"fin_pause", "release", "load", "stage", "loop", "transcribe", "finalize"} : Goto(w, p)
    BY <1>8 DEF CheckPause, AfterChecks, RowGone
  <2>2. pc' \in [Workers -> PC]
    BY <2>1, GotoType, Literals
  <2>3. memStatus' \in [Workers -> Status] /\ memStage' \in [Workers -> Stage]
    BY <1>8, <1>1, RefreshType DEF CheckPause, RowGone, memVars, TypeOK, AfterChecks
  <2>4. TypeOK'
    BY <1>8, <2>2, <2>3 DEF CheckPause, TypeOK, RowGone, WorkerFrame, clientVars, rowVars, fileVars, memVars
  <2>5. HeldJob'
    <3>1. cur' = cur  BY <1>8 DEF CheckPause
    <3>2. QED  BY <3>1, <2>1, <1>1 DEF HeldJob, Goto, TypeOK
  <2>6. ChunkBound'
    BY <1>8 DEF CheckPause, ChunkBound, Goto, RowGone, TypeOK, AfterChecks
  <2>7. ReqJob'
    BY <1>8 DEF CheckPause, ReqJob, WorkerFrame, clientVars
  <2>8. QED  BY <2>4, <2>5, <2>6, <2>7
<1>9. CASE FinalizeCancellation(w)
  <2>1. \E p \in {"release"} : Goto(w, p)
    BY <1>9 DEF FinalizeCancellation, Finish, RowGone
  <2>2. pc' \in [Workers -> PC]
    BY <2>1, GotoType, Literals
  <2>3. /\ status' \in [Jobs -> Status] /\ stage' \in [Jobs -> Stage]
       /\ memStatus' \in [Workers -> Status] /\ memStage' \in [Workers -> Stage]
    BY <1>9, CommitRowType, Literals DEF FinalizeCancellation, RowGone, rowVars, memVars, TypeOK, Finish
  <2>4. TypeOK'
    BY <1>9, <2>2, <2>3 DEF FinalizeCancellation, TypeOK, RowGone, WorkerFrame, clientVars, rowVars, fileVars, memVars, Finish
  <2>5. HeldJob'
    <3>1. cur' = cur  BY <1>9 DEF FinalizeCancellation, Finish
    <3>2. QED  BY <3>1, <2>1, <1>1 DEF HeldJob, Goto, TypeOK
  <2>6. ChunkBound'
    BY <1>9 DEF FinalizeCancellation, ChunkBound, Goto, RowGone, TypeOK, Finish
  <2>7. ReqJob'
    BY <1>9 DEF FinalizeCancellation, ReqJob, WorkerFrame, clientVars, Finish
  <2>8. QED  BY <2>4, <2>5, <2>6, <2>7
<1>10. CASE FinalizePause(w)
  <2>1. \E p \in {"release"} : Goto(w, p)
    BY <1>10 DEF FinalizePause, Finish, RowGone
  <2>2. pc' \in [Workers -> PC]
    BY <2>1, GotoType, Literals
  <2>3. /\ status' \in [Jobs -> Status] /\ stage' \in [Jobs -> Stage]
       /\ memStatus' \in [Workers -> Status] /\ memStage' \in [Workers -> Stage]
    BY <1>10, CommitRowType, Literals DEF FinalizePause, RowGone, rowVars, memVars, TypeOK, Finish
  <2>4. TypeOK'
    BY <1>10, <2>2, <2>3 DEF FinalizePause, TypeOK, RowGone, WorkerFrame, clientVars, rowVars, fileVars, memVars, Finish
  <2>5. HeldJob'
    <3>1. cur' = cur  BY <1>10 DEF FinalizePause, Finish
    <3>2. QED  BY <3>1, <2>1, <1>1 DEF HeldJob, Goto, TypeOK
  <2>6. ChunkBound'
    BY <1>10 DEF FinalizePause, ChunkBound, Goto, RowGone, TypeOK, Finish
  <2>7. ReqJob'
    BY <1>10 DEF FinalizePause, ReqJob, WorkerFrame, clientVars, Finish
  <2>8. QED  BY <2>4, <2>5, <2>6, <2>7
<1>11. CASE FailJob(w)
  <2>1. \E p \in {"release"} : Goto(w, p)
    BY <1>11 DEF FailJob, Finish, RowGone
  <2>2. pc' \in [Workers -> PC]
    BY <2>1, GotoType, Literals
  <2>3. /\ status' \in [Jobs -> Status] /\ stage' \in [Jobs -> Stage]
       /\ memStatus' \in [Workers -> Status] /\ memStage' \in [Workers -> Stage]
    BY <1>11, CommitRowType, Literals DEF FailJob, RowGone, rowVars, memVars, TypeOK, Finish
  <2>4. TypeOK'
    BY <1>11, <2>2, <2>3 DEF FailJob, TypeOK, RowGone, WorkerFrame, clientVars, rowVars, fileVars, memVars, Finish
  <2>5. HeldJob'
    <3>1. cur' = cur  BY <1>11 DEF FailJob, Finish
    <3>2. QED  BY <3>1, <2>1, <1>1 DEF HeldJob, Goto, TypeOK
  <2>6. ChunkBound'
    BY <1>11 DEF FailJob, ChunkBound, Goto, RowGone, TypeOK, Finish
  <2>7. ReqJob'
    BY <1>11 DEF FailJob, ReqJob, WorkerFrame, clientVars, Finish
  <2>8. QED  BY <2>4, <2>5, <2>6, <2>7
<1>12. CASE LoadModel(w)
  <2>1. \E p \in {"check_cancel"} : Goto(w, p)
    BY <1>12 DEF LoadModel, CheckAt, RowGone
  <2>2. pc' \in [Workers -> PC]
    BY <2>1, GotoType, Literals
  <2>3. at' \in [Workers -> Point]
    <3>1. at' = at \/ at' = [at EXCEPT ![w] = "select"]
      BY <1>12 DEF LoadModel, CheckAt, RowGone
    <3>2. QED  BY <3>1, Literals DEF TypeOK
  <2>4. TypeOK'
    BY <1>12, <2>2, <2>3 DEF LoadModel, TypeOK, RowGone, WorkerFrame, clientVars, rowVars, fileVars, memVars
  <2>5. HeldJob'
    <3>1. cur' = cur  BY <1>12 DEF LoadModel
    <3>2. QED  BY <3>1, <2>1, <1>1 DEF HeldJob, Goto, TypeOK
  <2>6. ChunkBound'
    BY <1>12 DEF LoadModel, ChunkBound, Goto, RowGone, TypeOK, CheckAt
  <2>7. ReqJob'
    BY <1>12 DEF LoadModel, ReqJob, WorkerFrame, clientVars
  <2>8. QED  BY <2>4, <2>5, <2>6, <2>7
<1>13. CASE BeginTranscribing(w)
  <2>1. \E p \in {"check_cancel", "release"} : Goto(w, p)
    BY <1>13 DEF BeginTranscribing, CheckAt, RowGone
  <2>2. pc' \in [Workers -> PC]
    BY <2>1, GotoType, Literals
  <2>3. at' \in [Workers -> Point]
    <3>1. at' = at \/ at' = [at EXCEPT ![w] = "start"]
      BY <1>13 DEF BeginTranscribing, CheckAt, RowGone
    <3>2. QED  BY <3>1, Literals DEF TypeOK
  <2>4. /\ status' \in [Jobs -> Status] /\ stage' \in [Jobs -> Stage]
       /\ memStatus' \in [Workers -> Status] /\ memStage' \in [Workers -> Stage]
    BY <1>13, CommitRowType, Literals DEF BeginTranscribing, RowGone, rowVars, memVars, TypeOK
  <2>5. TypeOK'
    BY <1>13, <2>2, <2>3, <2>4 DEF BeginTranscribing, TypeOK, RowGone, WorkerFrame, clientVars, rowVars, fileVars, memVars
  <2>6. HeldJob'
    <3>1. cur' = cur  BY <1>13 DEF BeginTranscribing
    <3>2. QED  BY <3>1, <2>1, <1>1 DEF HeldJob, Goto, TypeOK
  <2>7. ChunkBound'
    BY <1>13 DEF BeginTranscribing, ChunkBound, Goto, RowGone, TypeOK, CheckAt
  <2>8. ReqJob'
    BY <1>13 DEF BeginTranscribing, ReqJob, WorkerFrame, clientVars
  <2>9. QED  BY <2>5, <2>6, <2>7, <2>8
<1>14. CASE OpenCheckpoint(w)
  <2>1. \E p \in {"check_cancel", "diarize", "release"} : Goto(w, p)
    BY <1>14 DEF OpenCheckpoint, NextChunk, CheckAt, RowGone
  <2>2. pc' \in [Workers -> PC]
    BY <2>1, GotoType, Literals
  <2>3. at' \in [Workers -> Point]
    <3>1. at' = at \/ at' = [at EXCEPT ![w] = "chunk"]
      BY <1>14 DEF OpenCheckpoint, NextChunk, CheckAt, RowGone
    <3>2. QED  BY <3>1, Literals DEF TypeOK
  <2>4. chunk' \in [Workers -> 0..Chunks]
    BY <1>14, <1>1 DEF OpenCheckpoint, RowGone, TypeOK
  <2>5. TypeOK'
    BY <1>14, <2>2, <2>3, <2>4 DEF OpenCheckpoint, TypeOK, RowGone, WorkerFrame, clientVars, rowVars, fileVars, memVars
  <2>6. HeldJob'
    <3>1. cur' = cur  BY <1>14 DEF OpenCheckpoint
    <3>2. QED  BY <3>1, <2>1, <1>1 DEF HeldJob, Goto, TypeOK
  <2>7. ChunkBound'
    BY <1>14, <1>1, ConstantsAssumption DEF OpenCheckpoint, ChunkBound, NextChunk, CheckAt, Goto, RowGone, TypeOK
  <2>8. ReqJob'
    BY <1>14 DEF OpenCheckpoint, ReqJob, WorkerFrame, clientVars
  <2>9. QED  BY <2>5, <2>6, <2>7, <2>8
<1>15. CASE TranscribeChunk(w)
  <2>1. \E p \in {"check_cancel", "diarize", "release"} : Goto(w, p)
    BY <1>15 DEF TranscribeChunk, NextChunk, CheckAt, RowGone
  <2>2. pc' \in [Workers -> PC]
    BY <2>1, GotoType, Literals
  <2>3. at' \in [Workers -> Point]
    <3>1. at' = at \/ at' = [at EXCEPT ![w] = "chunk"]
      BY <1>15 DEF TranscribeChunk, NextChunk, CheckAt, RowGone
    <3>2. QED  BY <3>1, Literals DEF TypeOK
  <2>4. /\ status' \in [Jobs -> Status] /\ stage' \in [Jobs -> Stage]
       /\ memStatus' \in [Workers -> Status] /\ memStage' \in [Workers -> Stage]
    BY <1>15, CommitRowType, Literals DEF TranscribeChunk, RowGone, rowVars, memVars, TypeOK
  <2>5. chunk' \in [Workers -> 0..Chunks]
    <3>1. chunk[w] + 1 \in 0..Chunks
      BY <1>15, ConstantsAssumption DEF TranscribeChunk, ChunkBound, TypeOK
    <3>2. QED  BY <1>15, <3>1 DEF TranscribeChunk, RowGone, TypeOK
  <2>6. ckpt' \in [Jobs -> 0..Chunks]
    <3>1. ckpt \in [Jobs -> 0..Chunks] /\ chunk[w] + 1 \in 0..Chunks
      BY <1>15, ConstantsAssumption DEF TranscribeChunk, ChunkBound, TypeOK
    <3>2. ckpt' = [ckpt EXCEPT ![cur[w]] = chunk[w] + 1]  BY <1>15 DEF TranscribeChunk
    <3>3. QED  BY <3>1, <3>2
  <2>7. late' \in [Jobs -> Nat]  BY <1>15, RecognisedType DEF TranscribeChunk
  <2>8. TypeOK'
    BY <1>15, <2>2, <2>3, <2>4, <2>5, <2>6, <2>7 DEF TranscribeChunk, TypeOK, RowGone, WorkerFrame, clientVars, rowVars, fileVars, memVars
  <2>9. HeldJob'
    <3>1. cur' = cur  BY <1>15 DEF TranscribeChunk
    <3>2. QED  BY <3>1, <2>1, <1>1 DEF HeldJob, Goto, TypeOK
  <2>10. ChunkBound'
    BY <1>15, <1>1, ConstantsAssumption DEF TranscribeChunk, ChunkBound, NextChunk, CheckAt, Goto, RowGone, TypeOK
  <2>11. ReqJob'
    BY <1>15 DEF TranscribeChunk, ReqJob, WorkerFrame, clientVars
  <2>12. QED  BY <2>8, <2>9, <2>10, <2>11
<1>16. CASE TranscribeWholeFile(w)
  <2>1. \E p \in {"diarize", "release"} : Goto(w, p)
    BY <1>16 DEF TranscribeWholeFile, RowGone
  <2>2. pc' \in [Workers -> PC]
    BY <2>1, GotoType, Literals
  <2>3. ckpt' \in [Jobs -> 0..Chunks]
    <3>1. ckpt \in [Jobs -> 0..Chunks] /\ 0 \in 0..Chunks
      BY <1>16, ConstantsAssumption DEF TranscribeWholeFile, ChunkBound, TypeOK
    <3>2. ckpt' = [ckpt EXCEPT ![cur[w]] = 0]  BY <1>16 DEF TranscribeWholeFile
    <3>3. QED  BY <3>1, <3>2
  <2>4. late' \in [Jobs -> Nat]  BY <1>16, RecognisedType DEF TranscribeWholeFile
  <2>5. TypeOK'
    BY <1>16, <2>2, <2>3, <2>4 DEF TranscribeWholeFile, TypeOK, RowGone, WorkerFrame, clientVars, rowVars, fileVars, memVars
  <2>6. HeldJob'
    <3>1. cur' = cur  BY <1>16 DEF TranscribeWholeFile
    <3>2. QED  BY <3>1, <2>1, <1>1 DEF HeldJob, Goto, TypeOK
  <2>7. ChunkBound'
    BY <1>16 DEF TranscribeWholeFile, ChunkBound, Goto, RowGone, TypeOK
  <2>8. ReqJob'
    BY <1>16 DEF TranscribeWholeFile, ReqJob, WorkerFrame, clientVars
  <2>9. QED  BY <2>5, <2>6, <2>7, <2>8
<1>17. CASE SkipDiarization(w)
  <2>1. \E p \in {"check_cancel"} : Goto(w, p)
    BY <1>17 DEF SkipDiarization, CheckAt, RowGone
  <2>2. pc' \in [Workers -> PC]
    BY <2>1, GotoType, Literals
  <2>3. at' \in [Workers -> Point]
    <3>1. at' = at \/ at' = [at EXCEPT ![w] = "final"]
      BY <1>17 DEF SkipDiarization, CheckAt, RowGone
    <3>2. QED  BY <3>1, Literals DEF TypeOK
  <2>4. TypeOK'
    BY <1>17, <2>2, <2>3 DEF SkipDiarization, TypeOK, RowGone, WorkerFrame, clientVars, rowVars, fileVars, memVars
  <2>5. HeldJob'
    <3>1. cur' = cur  BY <1>17 DEF SkipDiarization
    <3>2. QED  BY <3>1, <2>1, <1>1 DEF HeldJob, Goto, TypeOK
  <2>6. ChunkBound'
    BY <1>17 DEF SkipDiarization, ChunkBound, Goto, RowGone, TypeOK, CheckAt
  <2>7. ReqJob'
    BY <1>17 DEF SkipDiarization, ReqJob, WorkerFrame, clientVars
  <2>8. QED  BY <2>4, <2>5, <2>6, <2>7
<1>18. CASE BeginDiarization(w)
  <2>1. \E p \in {"diarizing", "release"} : Goto(w, p)
    BY <1>18 DEF BeginDiarization, RowGone
  <2>2. pc' \in [Workers -> PC]
    BY <2>1, GotoType, Literals
  <2>3. /\ status' \in [Jobs -> Status] /\ stage' \in [Jobs -> Stage]
       /\ memStatus' \in [Workers -> Status] /\ memStage' \in [Workers -> Stage]
    BY <1>18, CommitRowType, Literals DEF BeginDiarization, RowGone, rowVars, memVars, TypeOK
  <2>4. TypeOK'
    BY <1>18, <2>2, <2>3 DEF BeginDiarization, TypeOK, RowGone, WorkerFrame, clientVars, rowVars, fileVars, memVars
  <2>5. HeldJob'
    <3>1. cur' = cur  BY <1>18 DEF BeginDiarization
    <3>2. QED  BY <3>1, <2>1, <1>1 DEF HeldJob, Goto, TypeOK
  <2>6. ChunkBound'
    BY <1>18 DEF BeginDiarization, ChunkBound, Goto, RowGone, TypeOK
  <2>7. ReqJob'
    BY <1>18 DEF BeginDiarization, ReqJob, WorkerFrame, clientVars
  <2>8. QED  BY <2>4, <2>5, <2>6, <2>7
<1>19. CASE EndDiarization(w)
  <2>1. \E p \in {"check_cancel", "release"} : Goto(w, p)
    BY <1>19 DEF EndDiarization, CheckAt, RowGone
  <2>2. pc' \in [Workers -> PC]
    BY <2>1, GotoType, Literals
  <2>3. at' \in [Workers -> Point]
    <3>1. at' = at \/ at' = [at EXCEPT ![w] = "final"]
      BY <1>19 DEF EndDiarization, CheckAt, RowGone
    <3>2. QED  BY <3>1, Literals DEF TypeOK
  <2>4. TypeOK'
    BY <1>19, <2>2, <2>3 DEF EndDiarization, TypeOK, RowGone, WorkerFrame, clientVars, rowVars, fileVars, memVars
  <2>5. HeldJob'
    <3>1. cur' = cur  BY <1>19 DEF EndDiarization
    <3>2. QED  BY <3>1, <2>1, <1>1 DEF HeldJob, Goto, TypeOK
  <2>6. ChunkBound'
    BY <1>19 DEF EndDiarization, ChunkBound, Goto, RowGone, TypeOK, CheckAt
  <2>7. ReqJob'
    BY <1>19 DEF EndDiarization, ReqJob, WorkerFrame, clientVars
  <2>8. QED  BY <2>4, <2>5, <2>6, <2>7
<1>20. CASE BeginFinalizing(w)
  <2>1. \E p \in {"write", "release"} : Goto(w, p)
    BY <1>20 DEF BeginFinalizing, RowGone
  <2>2. pc' \in [Workers -> PC]
    BY <2>1, GotoType, Literals
  <2>3. /\ status' \in [Jobs -> Status] /\ stage' \in [Jobs -> Stage]
       /\ memStatus' \in [Workers -> Status] /\ memStage' \in [Workers -> Stage]
    BY <1>20, CommitRowType, Literals DEF BeginFinalizing, RowGone, rowVars, memVars, TypeOK
  <2>4. TypeOK'
    BY <1>20, <2>2, <2>3 DEF BeginFinalizing, TypeOK, RowGone, WorkerFrame, clientVars, rowVars, fileVars, memVars
  <2>5. HeldJob'
    <3>1. cur' = cur  BY <1>20 DEF BeginFinalizing
    <3>2. QED  BY <3>1, <2>1, <1>1 DEF HeldJob, Goto, TypeOK
  <2>6. ChunkBound'
    BY <1>20 DEF BeginFinalizing, ChunkBound, Goto, RowGone, TypeOK
  <2>7. ReqJob'
    BY <1>20 DEF BeginFinalizing, ReqJob, WorkerFrame, clientVars
  <2>8. QED  BY <2>4, <2>5, <2>6, <2>7
<1>21. CASE WriteTranscript(w)
  <2>1. \E p \in {"complete"} : Goto(w, p)
    BY <1>21 DEF WriteTranscript, RowGone
  <2>2. pc' \in [Workers -> PC]
    BY <2>1, GotoType, Literals
  <2>3. TypeOK'
    BY <1>21, <2>2 DEF WriteTranscript, TypeOK, RowGone, WorkerFrame, clientVars, rowVars, fileVars, memVars
  <2>4. HeldJob'
    <3>1. cur' = cur  BY <1>21 DEF WriteTranscript
    <3>2. QED  BY <3>1, <2>1, <1>1 DEF HeldJob, Goto, TypeOK
  <2>5. ChunkBound'
    BY <1>21 DEF WriteTranscript, ChunkBound, Goto, RowGone, TypeOK
  <2>6. ReqJob'
    BY <1>21 DEF WriteTranscript, ReqJob, WorkerFrame, clientVars
  <2>7. QED  BY <2>3, <2>4, <2>5, <2>6
<1>22. CASE CompleteJob(w)
  <2>1. \E p \in {"cleanup", "release"} : Goto(w, p)
    BY <1>22 DEF CompleteJob, RowGone
  <2>2. pc' \in [Workers -> PC]
    BY <2>1, GotoType, Literals
  <2>3. /\ status' \in [Jobs -> Status] /\ stage' \in [Jobs -> Stage]
       /\ memStatus' \in [Workers -> Status] /\ memStage' \in [Workers -> Stage]
    BY <1>22, CommitRowType, Literals DEF CompleteJob, RowGone, rowVars, memVars, TypeOK
  <2>4. rows' \in [Jobs -> Nat]
    <3>1. rows \in [Jobs -> Nat]  BY DEF TypeOK
    <3>2. \/ rows' = rows
          \/ rows' = [rows EXCEPT ![cur[w]] = rows[cur[w]] + 1]
      BY <1>22 DEF CompleteJob
    <3>3. QED  BY <3>1, <3>2, <1>1
  <2>5. TypeOK'
    BY <1>22, <2>2, <2>3, <2>4 DEF CompleteJob, TypeOK, RowGone, WorkerFrame, clientVars, rowVars, fileVars, memVars
  <2>6. HeldJob'
    <3>1. cur' = cur  BY <1>22 DEF CompleteJob
    <3>2. QED  BY <3>1, <2>1, <1>1 DEF HeldJob, Goto, TypeOK
  <2>7. ChunkBound'
    BY <1>22 DEF CompleteJob, ChunkBound, Goto, RowGone, TypeOK
  <2>8. ReqJob'
    BY <1>22 DEF CompleteJob, ReqJob, WorkerFrame, clientVars
  <2>9. QED  BY <2>5, <2>6, <2>7, <2>8
<1>23. CASE RemoveCheckpoint(w)
  <2>1. \E p \in {"release"} : Goto(w, p)
    BY <1>23 DEF RemoveCheckpoint, RowGone
  <2>2. pc' \in [Workers -> PC]
    BY <2>1, GotoType, Literals
  <2>3. ckpt' \in [Jobs -> 0..Chunks]
    <3>1. ckpt \in [Jobs -> 0..Chunks] /\ 0 \in 0..Chunks
      BY <1>23, ConstantsAssumption DEF RemoveCheckpoint, ChunkBound, TypeOK
    <3>2. ckpt' = [ckpt EXCEPT ![cur[w]] = 0]  BY <1>23 DEF RemoveCheckpoint
    <3>3. QED  BY <3>1, <3>2
  <2>4. TypeOK'
    BY <1>23, <2>2, <2>3 DEF RemoveCheckpoint, TypeOK, RowGone, WorkerFrame, clientVars, rowVars, fileVars, memVars
  <2>5. HeldJob'
    <3>1. cur' = cur  BY <1>23 DEF RemoveCheckpoint
    <3>2. QED  BY <3>1, <2>1, <1>1 DEF HeldJob, Goto, TypeOK
  <2>6. ChunkBound'
    BY <1>23 DEF RemoveCheckpoint, ChunkBound, Goto, RowGone, TypeOK
  <2>7. ReqJob'
    BY <1>23 DEF RemoveCheckpoint, ReqJob, WorkerFrame, clientVars
  <2>8. QED  BY <2>4, <2>5, <2>6, <2>7
<1>24. CASE Raise(w)
  <2>1. \E p \in {"raised"} : Goto(w, p)
    BY <1>24 DEF Raise, RowGone
  <2>2. pc' \in [Workers -> PC]
    BY <2>1, GotoType, Literals
  <2>3. TypeOK'
    BY <1>24, <2>2 DEF Raise, TypeOK, RowGone, WorkerFrame, clientVars, rowVars, fileVars, memVars
  <2>4. HeldJob'
    <3>1. cur' = cur  BY <1>24 DEF Raise
    <3>2. QED  BY <3>1, <2>1, <1>1 DEF HeldJob, Goto, TypeOK
  <2>5. ChunkBound'
    BY <1>24 DEF Raise, ChunkBound, Goto, RowGone, TypeOK
  <2>6. ReqJob'
    BY <1>24 DEF Raise, ReqJob, WorkerFrame, clientVars
  <2>7. QED  BY <2>3, <2>4, <2>5, <2>6
<1>25. CASE HandleError(w)
  <2>1. \E p \in {"fin_cancel", "fin_pause", "fail", "release"} : Goto(w, p)
    BY <1>25 DEF HandleError, RowGone
  <2>2. pc' \in [Workers -> PC]
    BY <2>1, GotoType, Literals
  <2>3. memStatus' \in [Workers -> Status] /\ memStage' \in [Workers -> Stage]
    BY <1>25, <1>1, RefreshType DEF HandleError, RowGone, memVars, TypeOK
  <2>4. TypeOK'
    BY <1>25, <2>2, <2>3 DEF HandleError, TypeOK, RowGone, WorkerFrame, clientVars, rowVars, fileVars, memVars
  <2>5. HeldJob'
    <3>1. cur' = cur  BY <1>25 DEF HandleError
    <3>2. QED  BY <3>1, <2>1, <1>1 DEF HeldJob, Goto, TypeOK
  <2>6. ChunkBound'
    BY <1>25 DEF HandleError, ChunkBound, Goto, RowGone, TypeOK
  <2>7. ReqJob'
    BY <1>25 DEF HandleError, ReqJob, WorkerFrame, clientVars
  <2>8. QED  BY <2>4, <2>5, <2>6, <2>7
<1>26. QED
  BY <1>2, <1>3, <1>4, <1>5, <1>6, <1>7, <1>8, <1>9, <1>10, <1>11, <1>12, <1>13, <1>14, <1>15, <1>16, <1>17, <1>18, <1>19, <1>20, <1>21, <1>22, <1>23, <1>24, <1>25 DEF WorkerStep, Dequeue

\* A dequeue preserves TInv.
LEMMA TInvDequeue ==
    ASSUME TInv, NEW w \in Workers, Dequeue(w)
    PROVE  TInv'
<1> DEFINE e == Head(queue)
<1>1. e \in [job : Jobs, fail : BOOLEAN] /\ Tail(queue) \in Seq([job : Jobs, fail : BOOLEAN])
  BY HeadTailProperties DEF TInv, TypeOK, Dequeue
<1>2. e.job \in Jobs /\ e.job # NoJob
  BY <1>1, ConstantsAssumption
<1>3. running' \subseteq Jobs /\ queue' \in Seq([job : Jobs, fail : BOOLEAN])
  BY <1>1, <1>2 DEF Dequeue, TInv, TypeOK
<1>4. cur' \in [Workers -> Jobs \cup {NoJob}]
  BY <1>2 DEF Dequeue, TInv, TypeOK
<1>5. pc' \in [Workers -> PC]
  BY Literals DEF Dequeue, TInv, TypeOK, Goto
<1>6. TypeOK'
  BY <1>3, <1>4, <1>5 DEF Dequeue, TInv, TypeOK, WorkerFrame, clientVars, rowVars, fileVars, memVars
<1>7. HeldJob'
  BY <1>2 DEF Dequeue, TInv, TypeOK, HeldJob, Goto
<1>8. ChunkBound'
  BY DEF Dequeue, TInv, TypeOK, ChunkBound, Goto
<1>9. ReqJob'
  BY DEF Dequeue, TInv, ReqJob, WorkerFrame, clientVars
<1>10. QED  BY <1>6, <1>7, <1>8, <1>9 DEF TInv

\* A release preserves TInv.
LEMMA TInvRelease ==
    ASSUME TInv, NEW w \in Workers, Release(w)
    PROVE  TInv'
<1>1. /\ running' \subseteq Jobs
      /\ late' \in [Jobs -> Nat]
      /\ pc' \in [Workers -> PC]
      /\ cur' \in [Workers -> Jobs \cup {NoJob}]
  BY Literals DEF Release, TInv, TypeOK, Goto
<1>2. /\ at' \in [Workers -> Point]
      /\ chunk' \in [Workers -> 0..Chunks]
      /\ memStatus' \in [Workers -> Status]
      /\ memStage' \in [Workers -> Stage]
  BY Literals, ConstantsAssumption DEF Release, TInv, TypeOK
<1>3. TypeOK'
  BY <1>1, <1>2 DEF Release, TInv, TypeOK, WorkerFrame, clientVars, rowVars, fileVars
<1>4. HeldJob'
  BY DEF Release, TInv, TypeOK, HeldJob, Goto
<1>5. ChunkBound'
  BY DEF Release, TInv, TypeOK, ChunkBound, Goto
<1>6. ReqJob'
  BY DEF Release, TInv, ReqJob, WorkerFrame, clientVars
<1>7. QED  BY <1>3, <1>4, <1>5, <1>6 DEF TInv

\* A free handler slot is well typed.
LEMMA FreeSlotType == FreeSlot \in Request
BY Literals DEF FreeSlot, Request

\* Accepting a request preserves TInv.
LEMMA TInvAccepting ==
    ASSUME TInv, NEW c \in Clients, Accepting(c)
    PROVE  TInv'
<1>1. CASE \E j \in Jobs, f \in FailFlags : CreateJob(c, j, f)
  <2>1. PICK j \in Jobs, f \in FailFlags : CreateJob(c, j, f)  BY <1>1
  <2> DEFINE r == [pc |-> "enqueue", op |-> "create", job |-> j, st |-> "unborn",
                   sg |-> "none", fail |-> f]
  <2>2. r \in Request
    BY <2>1, Literals, ConstantsAssumption DEF Request, CreateJob
  <2>3. req' = [req EXCEPT ![c] = r] /\ issued' = issued + 1 /\ issued < MaxRequests
    BY <2>1 DEF CreateJob, Accept
  <2>4. req' \in [Clients -> Request] /\ issued' \in 0..MaxRequests
    BY <2>2, <2>3, ConstantsAssumption DEF TInv, TypeOK
  <2>5. status' \in [Jobs -> Status]
    BY <2>1, Literals DEF CreateJob, TInv, TypeOK
  <2>6. TypeOK'
    BY <2>1, <2>4, <2>5 DEF CreateJob, TInv, TypeOK, ClientFrame, localVars, memVars
  <2>7. HeldJob' /\ ChunkBound'
    BY <2>1 DEF CreateJob, TInv, HeldJob, ChunkBound, ClientFrame, localVars
  <2>8. ReqJob'
    BY <2>3 DEF TInv, TypeOK, ReqJob
  <2>9. QED  BY <2>6, <2>7, <2>8 DEF TInv
<1>2. CASE \E op \in Ops, j \in Jobs : BeginRequest(c, op, j)
  <2>1. PICK op \in Ops, j \in Jobs : BeginRequest(c, op, j)  BY <1>2
  <2> DEFINE r == [pc |-> "commit", op |-> op, job |-> j, st |-> status[j],
                   sg |-> stage[j], fail |-> FALSE]
  <2>2. r \in Request
    BY DEF Request, TInv, TypeOK
  <2>3. req' = [req EXCEPT ![c] = r] /\ issued' = issued + 1 /\ issued < MaxRequests
    BY <2>1 DEF BeginRequest, Accept
  <2>4. req' \in [Clients -> Request] /\ issued' \in 0..MaxRequests
    BY <2>2, <2>3, ConstantsAssumption DEF TInv, TypeOK
  <2>5. transcript' \in [Jobs -> {"none", "written", "erased"}]
    BY <2>1 DEF BeginRequest, TInv, TypeOK
  <2>6. TypeOK'
    BY <2>1, <2>4, <2>5 DEF BeginRequest, TInv, TypeOK, ClientFrame, localVars, memVars, rowVars
  <2>7. HeldJob' /\ ChunkBound'
    BY <2>1 DEF BeginRequest, TInv, HeldJob, ChunkBound, ClientFrame, localVars
  <2>8. ReqJob'
    BY <2>3 DEF TInv, TypeOK, ReqJob
  <2>9. QED  BY <2>6, <2>7, <2>8 DEF TInv
<1>3. QED  BY <1>1, <1>2 DEF Accepting

\* The columns a handler assigns are a status and a stage.
LEMMA NewRowType ==
    ASSUME NEW op, NEW st
    PROVE  NewStatus(op, st) \in Status /\ NewStage(op, st) \in Stage
BY Literals DEF NewStatus, NewStage

\* A handler that goes on to enqueue has a well typed slot.
LEMMA ToEnqueueType ==
    ASSUME TypeOK, ReqJob, NEW c \in Clients, NEW j \in Jobs, ToEnqueue(c, j)
    PROVE  req' \in [Clients -> Request] /\ ReqJob'
<1> DEFINE r == [pc |-> "enqueue", op |-> req[c].op, job |-> j, st |-> "unborn",
                 sg |-> "none", fail |-> FALSE]
<1>1. req' = [req EXCEPT ![c] = r]  BY DEF ToEnqueue
<1>2. req[c].op \in Ops \cup {"none"}  BY DEF TypeOK, Request
<1>3. r \in Request  BY <1>2, Literals DEF Request
<1>4. req' \in [Clients -> Request]  BY <1>1, <1>3 DEF TypeOK
<1>5. QED  BY <1>1, <1>4 DEF ReqJob, TypeOK

\* A handler that ends leaves well typed slots.
LEMMA EndRequestType ==
    ASSUME TypeOK, ReqJob, NEW c \in Clients, EndRequest(c)
    PROVE  req' \in [Clients -> Request] /\ ReqJob'
BY FreeSlotType DEF EndRequest, TypeOK, ReqJob, FreeSlot

\* The later steps of a handler preserve TInv.
LEMMA TInvFinishing ==
    ASSUME TInv, NEW c \in Clients, Finishing(c)
    PROVE  TInv'
<1> USE DEF TInv
<1>1. CASE CommitRequest(c)
  <2>1. req[c].job \in Jobs  BY <1>1 DEF CommitRequest, ReqJob
  <2>2. req' \in [Clients -> Request] /\ ReqJob'
    BY <1>1, <2>1, ToEnqueueType, EndRequestType DEF CommitRequest
  <2>3. status' \in [Jobs -> Status] /\ stage' \in [Jobs -> Stage] /\ late' \in [Jobs -> Nat]
    <3>1. /\ NewStatus(req[c].op, req[c].st) \in Status
          /\ NewStage(req[c].op, req[c].st) \in Stage
      BY NewRowType
    <3>2. late' \in [Jobs -> Nat]
      <4>1. late \in [Jobs -> Nat]  BY DEF TypeOK
      <4>2. late' = late \/ late' = [late EXCEPT ![req[c].job] = 0]
        BY <1>1 DEF CommitRequest
      <4>3. QED  BY <4>1, <4>2
    <3>3. CASE UNCHANGED rowVars  BY <3>2, <3>3 DEF TypeOK, rowVars
    <3>4. CASE /\ status' = [status EXCEPT ![req[c].job] =
                               Col(req[c].st, NewStatus(req[c].op, req[c].st), @)]
               /\ stage' = [stage EXCEPT ![req[c].job] =
                               Col(req[c].sg, NewStage(req[c].op, req[c].st), @)]
      BY <2>1, <3>1, <3>2, <3>4 DEF TypeOK, Col
    <3>5. QED  BY <1>1, <3>3, <3>4 DEF CommitRequest
  <2>4. TypeOK'
    BY <1>1, <2>2, <2>3 DEF CommitRequest, TypeOK, ClientFrame, localVars, memVars
  <2>5. HeldJob' /\ ChunkBound'
    BY <1>1 DEF CommitRequest, HeldJob, ChunkBound, ClientFrame, localVars
  <2>6. QED  BY <2>2, <2>4, <2>5
<1>2. CASE \E n \in Jobs : CommitRestart(c, n)
  <2>1. PICK n \in Jobs : CommitRestart(c, n)  BY <1>2
  <2>2. req' \in [Clients -> Request] /\ ReqJob'
    BY <2>1, ToEnqueueType DEF CommitRestart
  <2>3. status' \in [Jobs -> Status]
    BY <2>1, Literals DEF CommitRestart, TypeOK
  <2>4. TypeOK'
    BY <2>1, <2>2, <2>3 DEF CommitRestart, TypeOK, ClientFrame, localVars, memVars
  <2>5. HeldJob' /\ ChunkBound'
    BY <2>1 DEF CommitRestart, HeldJob, ChunkBound, ClientFrame, localVars
  <2>6. QED  BY <2>2, <2>4, <2>5
<1>3. CASE CommitDelete(c)
  <2>1. req' \in [Clients -> Request] /\ ReqJob'
    BY <1>3, EndRequestType DEF CommitDelete
  <2>2. status' \in [Jobs -> Status] /\ stage' \in [Jobs -> Stage] /\ rows' \in [Jobs -> Nat]
    BY <1>3, Literals DEF CommitDelete, TypeOK
  <2>3. TypeOK'
    BY <1>3, <2>1, <2>2 DEF CommitDelete, TypeOK, ClientFrame, localVars, memVars
  <2>4. HeldJob' /\ ChunkBound'
    BY <1>3 DEF CommitDelete, HeldJob, ChunkBound, ClientFrame, localVars
  <2>5. QED  BY <2>1, <2>3, <2>4
<1>4. CASE Enqueue(c)
  <2> DEFINE e == [job |-> req[c].job, fail |-> req[c].fail]
  <2>1. e \in [job : Jobs, fail : BOOLEAN]
    BY <1>4 DEF Enqueue, ReqJob, TypeOK, Request
  <2>2. queue' \in Seq([job : Jobs, fail : BOOLEAN])
    <3>1. queue' = queue \/ queue' = Append(queue, e)  BY <1>4 DEF Enqueue
    <3>2. queue \in Seq([job : Jobs, fail : BOOLEAN])  BY DEF TypeOK
    <3> DEFINE Entry == [job : Jobs, fail : BOOLEAN]
    <3>3. queue \in Seq(Entry) /\ e \in Entry  BY <2>1, <3>2
    <3> HIDE DEF e, Entry
    <3>4. Append(queue, e) \in Seq(Entry)  BY <3>3, AppendProperties
    <3>5. queue' \in Seq(Entry)  BY <3>1, <3>3, <3>4
    <3>6. QED  BY <3>5 DEF Entry
  <2>3. req' \in [Clients -> Request] /\ ReqJob'
    BY <1>4, EndRequestType DEF Enqueue
  <2>4. TypeOK'
    BY <1>4, <2>2, <2>3 DEF Enqueue, TypeOK, ClientFrame, localVars, memVars, rowVars
  <2>5. HeldJob' /\ ChunkBound'
    BY <1>4 DEF Enqueue, HeldJob, ChunkBound, ClientFrame, localVars
  <2>6. QED  BY <2>3, <2>4, <2>5
<1>5. QED  BY <1>1, <1>2, <1>3, <1>4 DEF Finishing

\* The death of the process preserves TInv.
LEMMA TInvCrash == TInv /\ Crash => TInv'
<1> SUFFICES ASSUME TInv, Crash PROVE TInv'  OBVIOUS
<1>1. queue' \in Seq([job : Jobs, fail : BOOLEAN])  BY DEF Crash
<1>2. /\ pc' \in [Workers -> PC] /\ at' \in [Workers -> Point]
      /\ cur' \in [Workers -> Jobs \cup {NoJob}] /\ chunk' \in [Workers -> 0..Chunks]
  BY Literals, ConstantsAssumption DEF Crash
<1>3. memStatus' \in [Workers -> Status] /\ memStage' \in [Workers -> Stage]
  BY Literals DEF Crash
<1>4. req' \in [Clients -> Request] /\ late' \in [Jobs -> Nat]  BY FreeSlotType DEF Crash
<1>5. up' \in BOOLEAN /\ running' \subseteq Jobs /\ crashes' \in 0..MaxCrashes
  <2>1. crashes \in 0..MaxCrashes /\ crashes < MaxCrashes /\ crashes' = crashes + 1
    BY DEF Crash, TInv, TypeOK
  <2>2. crashes' \in 0..MaxCrashes  BY <2>1, ConstantsAssumption
  <2>3. QED  BY <2>2 DEF Crash
<1>6. TypeOK'
  BY <1>1, <1>2, <1>3, <1>4, <1>5 DEF Crash, TInv, TypeOK, rowVars, fileVars
<1>7. HeldJob' /\ ChunkBound'  BY DEF Crash, HeldJob, ChunkBound
<1>8. ReqJob'  BY DEF Crash, ReqJob, FreeSlot
<1>9. QED  BY <1>6, <1>7, <1>8 DEF TInv

\* The clean-up at startup preserves TInv.
LEMMA TInvStartup == TInv /\ Startup => TInv'
<1> SUFFICES ASSUME TInv, Startup PROVE TInv'  OBVIOUS
<1>1. status' \in [Jobs -> Status]
  <2>1. \A j \in Jobs : status'[j] \in {"paused", "cancelled", status[j]}  BY DEF Startup
  <2>2. QED  BY <2>1, Literals DEF Startup, TInv, TypeOK
<1>2. stage' \in [Jobs -> Stage]
  <2>1. \A j \in Jobs : stage'[j] \in {"paused", "none", stage[j]}  BY DEF Startup
  <2>2. QED  BY <2>1, Literals DEF Startup, TInv, TypeOK
<1>3. TypeOK'
  BY <1>1, <1>2 DEF Startup, TInv, TypeOK, fileVars, localVars, memVars, clientVars
<1>4. HeldJob' /\ ChunkBound'  BY DEF Startup, TInv, HeldJob, ChunkBound, localVars
<1>5. ReqJob'  BY DEF Startup, TInv, ReqJob, clientVars
<1>6. QED  BY <1>3, <1>4, <1>5 DEF TInv

\* Only Dequeue belongs to an idle worker.
LEMMA BusyStep ==
    ASSUME NEW w \in Workers, WorkerStep(w), ~Dequeue(w), ~Release(w)
    PROVE  pc[w] # "idle"
BY DEF WorkerStep, FetchJob, Claim, ConfirmClaim, FetchToFail, SimulateFailure,
   CheckCancel, CheckPause, FinalizeCancellation, FinalizePause, FailJob, Finish, LoadModel,
   BeginTranscribing, OpenCheckpoint, TranscribeChunk, TranscribeWholeFile, SkipDiarization,
   BeginDiarization, EndDiarization, BeginFinalizing, WriteTranscript, CompleteJob,
   RemoveCheckpoint, Raise, HandleError

\* TInv is inductive.
LEMMA TInvNext == TInv /\ [Next]_vars => TInv'
<1> SUFFICES ASSUME TInv, [Next]_vars PROVE TInv'  OBVIOUS
<1>1. ASSUME NEW w \in Workers, WorkerStep(w) PROVE TInv'
  <2>1. CASE Dequeue(w)  BY <2>1, TInvDequeue
  <2>2. CASE Release(w)  BY <2>2, TInvRelease
  <2>3. CASE ~Dequeue(w) /\ ~Release(w)
    <3>1. pc[w] # "idle"  BY <1>1, <2>3, BusyStep
    <3>2. QED  BY <1>1, <2>3, <3>1, TInvPipeline DEF TInv
  <2>4. QED  BY <2>1, <2>2, <2>3
<1>2. ASSUME NEW c \in Clients, Accepting(c) PROVE TInv'  BY <1>2, TInvAccepting
<1>3. ASSUME NEW c \in Clients, Finishing(c) PROVE TInv'  BY <1>3, TInvFinishing
<1>4. CASE UNCHANGED vars
  BY <1>4 DEF vars, rowVars, fileVars, localVars, memVars, clientVars, TInv, TypeOK, HeldJob,
     ChunkBound, ReqJob
<1>5. QED  BY <1>1, <1>2, <1>3, <1>4, TInvCrash, TInvStartup DEF Next

\* Every variable keeps to its type: no interleaving gives a row, a copy of it or
\* a worker a value the code does not name.
THEOREM TypeCorrectness == Spec => []TypeOK
<1>1. Spec => []TInv  BY TInvInit, TInvNext, PTL DEF Spec
<1>2. TInv => TypeOK  BY DEF TInv
<1>3. QED  BY <1>1, <1>2, PTL

-----------------------------------------------------------------------------
(* The inductive invariant: type correctness, exclusive holding, and what   *)
(* each worker and each job must satisfy.                                   *)

\* Every held job is in _running_ids, and by one worker only.
Exclusive ==
    /\ \A w \in Workers : cur[w] # NoJob => cur[w] \in running
    /\ OneWorkerPerJob

\* Outside the pipeline a worker's job is not processing.
IdleSound(w) ==
    up /\ cur[w] # NoJob /\ pc[w] \notin Active => status[cur[w]] # "processing"

\* In the pipeline, a session's copy that is not processing proves that the
\* row is not either: only the claim writes "processing".
MemSound(w) ==
    pc[w] \in Active /\ memStatus[w] # "processing" => status[cur[w]] # "processing"

\* The row is completed after the file has been written.
FileSound(w) == pc[w] = "complete" => transcript[cur[w]] # "none"

\* Between the call that was late and the end of the run there is no way
\* back to the recogniser: the row still tells the next check to stop.
Early == {"fetch", "claim", "claimed", "load", "stage", "loop", "transcribe"}

LateSound(w) ==
    cur[w] # NoJob /\ late[cur[w]] > 0 =>
      /\ pc[w] \notin Early
      /\ pc[w] \in {"check_cancel", "check_pause"} => at[w] \in {"chunk", "final"}
      /\ pc[w] = "check_cancel" /\ at[w] = "chunk" => status[cur[w]] \in StopStates \cup {"deleted"}
      /\ pc[w] = "check_pause" /\ at[w] = "chunk" => status[cur[w]] \in {"paused", "pausing", "deleted"}

WorkerInv == \A w \in Workers : IdleSound(w) /\ MemSound(w) /\ FileSound(w) /\ LateSound(w)

JobInv ==
    \A j \in Jobs :
      /\ up /\ status[j] = "processing" => Held(j)
      /\ status[j] = "completed" => rows[j] >= 1 /\ transcript[j] # "none"
      /\ late[j] <= 1
      /\ ~Held(j) => late[j] = 0

IInv == TInv /\ Exclusive /\ WorkerInv /\ JobInv

\* A pipeline step touches its own worker and its own job only.
Local(w) ==
    /\ cur' = cur /\ running' = running /\ up' = up
    /\ \A v \in Workers \ {w} :
          /\ pc'[v] = pc[v] /\ at'[v] = at[v] /\ memStatus'[v] = memStatus[v]
    /\ \A j \in Jobs \ {cur[w]} :
          /\ status'[j] = status[j] /\ late'[j] = late[j]
          /\ transcript'[j] = transcript[j] /\ rows'[j] = rows[j]

\* What a pipeline step guarantees of its worker and of the job it holds.
OwnJob(j) ==
    /\ status[j] = "completed" => rows[j] >= 1 /\ transcript[j] # "none"
    /\ late[j] <= 1

\* Every step of the pipeline is local.
LEMMA PipelineLocal ==
    ASSUME IInv, NEW w \in Workers, WorkerStep(w), pc[w] # "idle", ~Release(w)
    PROVE  Local(w)
<1> USE DEF IInv, TInv, TypeOK
<1>1. cur[w] \in Jobs /\ cur[w] # NoJob
  BY ConstantsAssumption DEF HeldJob
<1>2. CASE FetchJob(w)
  BY <1>2, <1>1 DEF FetchJob, RowGone, CommitRow, Refresh, Goto, WorkerFrame, rowVars, fileVars, memVars, clientVars, Local
<1>3. CASE Claim(w)
  BY <1>3, <1>1 DEF Claim, RowGone, CommitRow, Refresh, Goto, WorkerFrame, rowVars, fileVars, memVars, clientVars, Local
<1>4. CASE ConfirmClaim(w)
  BY <1>4, <1>1 DEF ConfirmClaim, RowGone, CommitRow, Refresh, Goto, WorkerFrame, rowVars, fileVars, memVars, clientVars, CheckAt, Local
<1>5. CASE FetchToFail(w)
  BY <1>5, <1>1 DEF FetchToFail, RowGone, CommitRow, Refresh, Goto, WorkerFrame, rowVars, fileVars, memVars, clientVars, Local
<1>6. CASE SimulateFailure(w)
  BY <1>6, <1>1 DEF SimulateFailure, RowGone, CommitRow, Refresh, Goto, WorkerFrame, rowVars, fileVars, memVars, clientVars, Local
<1>7. CASE CheckCancel(w)
  BY <1>7, <1>1 DEF CheckCancel, RowGone, CommitRow, Refresh, Goto, WorkerFrame, rowVars, fileVars, memVars, clientVars, Local
<1>8. CASE CheckPause(w)
  BY <1>8, <1>1 DEF CheckPause, RowGone, CommitRow, Refresh, Goto, WorkerFrame, rowVars, fileVars, memVars, clientVars, AfterChecks, Local
<1>9. CASE FinalizeCancellation(w)
  BY <1>9, <1>1 DEF FinalizeCancellation, RowGone, CommitRow, Refresh, Goto, WorkerFrame, rowVars, fileVars, memVars, clientVars, Finish, Local
<1>10. CASE FinalizePause(w)
  BY <1>10, <1>1 DEF FinalizePause, RowGone, CommitRow, Refresh, Goto, WorkerFrame, rowVars, fileVars, memVars, clientVars, Finish, Local
<1>11. CASE FailJob(w)
  BY <1>11, <1>1 DEF FailJob, RowGone, CommitRow, Refresh, Goto, WorkerFrame, rowVars, fileVars, memVars, clientVars, Finish, Local
<1>12. CASE LoadModel(w)
  BY <1>12, <1>1 DEF LoadModel, RowGone, CommitRow, Refresh, Goto, WorkerFrame, rowVars, fileVars, memVars, clientVars, CheckAt, Local
<1>13. CASE BeginTranscribing(w)
  BY <1>13, <1>1 DEF BeginTranscribing, RowGone, CommitRow, Refresh, Goto, WorkerFrame, rowVars, fileVars, memVars, clientVars, CheckAt, Local
<1>14. CASE OpenCheckpoint(w)
  BY <1>14, <1>1 DEF OpenCheckpoint, RowGone, CommitRow, Refresh, Goto, WorkerFrame, rowVars, fileVars, memVars, clientVars, NextChunk, CheckAt, Local
<1>15. CASE TranscribeChunk(w)
  BY <1>15, <1>1 DEF TranscribeChunk, Recognised, RowGone, CommitRow, Refresh, Goto, WorkerFrame, rowVars, fileVars, memVars, clientVars, NextChunk, CheckAt, Local
<1>16. CASE TranscribeWholeFile(w)
  BY <1>16, <1>1 DEF TranscribeWholeFile, Recognised, RowGone, CommitRow, Refresh, Goto, WorkerFrame, rowVars, fileVars, memVars, clientVars, Local
<1>17. CASE SkipDiarization(w)
  BY <1>17, <1>1 DEF SkipDiarization, RowGone, CommitRow, Refresh, Goto, WorkerFrame, rowVars, fileVars, memVars, clientVars, CheckAt, Local
<1>18. CASE BeginDiarization(w)
  BY <1>18, <1>1 DEF BeginDiarization, RowGone, CommitRow, Refresh, Goto, WorkerFrame, rowVars, fileVars, memVars, clientVars, Local
<1>19. CASE EndDiarization(w)
  BY <1>19, <1>1 DEF EndDiarization, RowGone, CommitRow, Refresh, Goto, WorkerFrame, rowVars, fileVars, memVars, clientVars, CheckAt, Local
<1>20. CASE BeginFinalizing(w)
  BY <1>20, <1>1 DEF BeginFinalizing, RowGone, CommitRow, Refresh, Goto, WorkerFrame, rowVars, fileVars, memVars, clientVars, Local
<1>21. CASE WriteTranscript(w)
  BY <1>21, <1>1 DEF WriteTranscript, RowGone, CommitRow, Refresh, Goto, WorkerFrame, rowVars, fileVars, memVars, clientVars, Local
<1>22. CASE CompleteJob(w)
  BY <1>22, <1>1 DEF CompleteJob, RowGone, CommitRow, Refresh, Goto, WorkerFrame, rowVars, fileVars, memVars, clientVars, Local
<1>23. CASE RemoveCheckpoint(w)
  BY <1>23, <1>1 DEF RemoveCheckpoint, RowGone, CommitRow, Refresh, Goto, WorkerFrame, rowVars, fileVars, memVars, clientVars, Local
<1>24. CASE Raise(w)
  BY <1>24, <1>1 DEF Raise, RowGone, CommitRow, Refresh, Goto, WorkerFrame, rowVars, fileVars, memVars, clientVars, Local
<1>25. CASE HandleError(w)
  BY <1>25, <1>1 DEF HandleError, RowGone, CommitRow, Refresh, Goto, WorkerFrame, rowVars, fileVars, memVars, clientVars, Local
<1>26. QED
  BY <1>2, <1>3, <1>4, <1>5, <1>6, <1>7, <1>8, <1>9, <1>10, <1>11, <1>12, <1>13, <1>14, <1>15, <1>16, <1>17, <1>18, <1>19, <1>20, <1>21, <1>22, <1>23, <1>24, <1>25 DEF WorkerStep, Dequeue

\* A step of the pipeline keeps the claims about status and copies.
LEMMA PipelineStatus ==
    ASSUME IInv, NEW w \in Workers, WorkerStep(w), pc[w] # "idle", ~Release(w)
    PROVE  IdleSound(w)' /\ MemSound(w)'
<1> USE DEF IInv, TInv, TypeOK
<1>1. cur[w] \in Jobs /\ cur[w] # NoJob
  BY ConstantsAssumption DEF HeldJob
<1>2. CASE FetchJob(w)
  BY <1>2, <1>1 DEF FetchJob, RowGone, CommitRow, Refresh, Goto, WorkerFrame, rowVars, fileVars, memVars, clientVars, IdleSound, MemSound, Active, Exists, Col, WorkerInv
<1>3. CASE Claim(w)
  BY <1>3, <1>1 DEF Claim, RowGone, CommitRow, Refresh, Goto, WorkerFrame, rowVars, fileVars, memVars, clientVars, IdleSound, MemSound, Active, Exists, Col, WorkerInv
<1>4. CASE ConfirmClaim(w)
  BY <1>4, <1>1 DEF ConfirmClaim, RowGone, CommitRow, Refresh, Goto, WorkerFrame, rowVars, fileVars, memVars, clientVars, CheckAt, IdleSound, MemSound, Active, Exists, Col, WorkerInv
<1>5. CASE FetchToFail(w)
  BY <1>5, <1>1 DEF FetchToFail, RowGone, CommitRow, Refresh, Goto, WorkerFrame, rowVars, fileVars, memVars, clientVars, IdleSound, MemSound, Active, Exists, Col, WorkerInv
<1>6. CASE SimulateFailure(w)
  BY <1>6, <1>1 DEF SimulateFailure, RowGone, CommitRow, Refresh, Goto, WorkerFrame, rowVars, fileVars, memVars, clientVars, IdleSound, MemSound, Active, Exists, Col, WorkerInv
<1>7. CASE CheckCancel(w)
  BY <1>7, <1>1 DEF CheckCancel, RowGone, CommitRow, Refresh, Goto, WorkerFrame, rowVars, fileVars, memVars, clientVars, IdleSound, MemSound, Active, Exists, Col, WorkerInv, IsCancelled, IsPause
<1>8. CASE CheckPause(w)
  BY <1>8, <1>1 DEF CheckPause, RowGone, CommitRow, Refresh, Goto, WorkerFrame, rowVars, fileVars, memVars, clientVars, AfterChecks, IdleSound, MemSound, Active, Exists, Col, WorkerInv
<1>9. CASE FinalizeCancellation(w)
  BY <1>9, <1>1 DEF FinalizeCancellation, RowGone, CommitRow, Refresh, Goto, WorkerFrame, rowVars, fileVars, memVars, clientVars, Finish, IdleSound, MemSound, Active, Exists, Col, WorkerInv
<1>10. CASE FinalizePause(w)
  BY <1>10, <1>1 DEF FinalizePause, RowGone, CommitRow, Refresh, Goto, WorkerFrame, rowVars, fileVars, memVars, clientVars, Finish, IdleSound, MemSound, Active, Exists, Col, WorkerInv
<1>11. CASE FailJob(w)
  BY <1>11, <1>1 DEF FailJob, RowGone, CommitRow, Refresh, Goto, WorkerFrame, rowVars, fileVars, memVars, clientVars, Finish, IdleSound, MemSound, Active, Exists, Col, WorkerInv
<1>12. CASE LoadModel(w)
  BY <1>12, <1>1 DEF LoadModel, RowGone, CommitRow, Refresh, Goto, WorkerFrame, rowVars, fileVars, memVars, clientVars, CheckAt, IdleSound, MemSound, Active, Exists, Col, WorkerInv
<1>13. CASE BeginTranscribing(w)
  BY <1>13, <1>1 DEF BeginTranscribing, RowGone, CommitRow, Refresh, Goto, WorkerFrame, rowVars, fileVars, memVars, clientVars, CheckAt, IdleSound, MemSound, Active, Exists, Col, WorkerInv
<1>14. CASE OpenCheckpoint(w)
  BY <1>14, <1>1 DEF OpenCheckpoint, RowGone, CommitRow, Refresh, Goto, WorkerFrame, rowVars, fileVars, memVars, clientVars, NextChunk, CheckAt, IdleSound, MemSound, Active, Exists, Col, WorkerInv
<1>15. CASE TranscribeChunk(w)
  BY <1>15, <1>1 DEF TranscribeChunk, Recognised, RowGone, CommitRow, Refresh, Goto, WorkerFrame, rowVars, fileVars, memVars, clientVars, NextChunk, CheckAt, IdleSound, MemSound, Active, Exists, Col, WorkerInv
<1>16. CASE TranscribeWholeFile(w)
  BY <1>16, <1>1 DEF TranscribeWholeFile, Recognised, RowGone, CommitRow, Refresh, Goto, WorkerFrame, rowVars, fileVars, memVars, clientVars, IdleSound, MemSound, Active, Exists, Col, WorkerInv
<1>17. CASE SkipDiarization(w)
  BY <1>17, <1>1 DEF SkipDiarization, RowGone, CommitRow, Refresh, Goto, WorkerFrame, rowVars, fileVars, memVars, clientVars, CheckAt, IdleSound, MemSound, Active, Exists, Col, WorkerInv
<1>18. CASE BeginDiarization(w)
  BY <1>18, <1>1 DEF BeginDiarization, RowGone, CommitRow, Refresh, Goto, WorkerFrame, rowVars, fileVars, memVars, clientVars, IdleSound, MemSound, Active, Exists, Col, WorkerInv
<1>19. CASE EndDiarization(w)
  BY <1>19, <1>1 DEF EndDiarization, RowGone, CommitRow, Refresh, Goto, WorkerFrame, rowVars, fileVars, memVars, clientVars, CheckAt, IdleSound, MemSound, Active, Exists, Col, WorkerInv
<1>20. CASE BeginFinalizing(w)
  BY <1>20, <1>1 DEF BeginFinalizing, RowGone, CommitRow, Refresh, Goto, WorkerFrame, rowVars, fileVars, memVars, clientVars, IdleSound, MemSound, Active, Exists, Col, WorkerInv
<1>21. CASE WriteTranscript(w)
  BY <1>21, <1>1 DEF WriteTranscript, RowGone, CommitRow, Refresh, Goto, WorkerFrame, rowVars, fileVars, memVars, clientVars, IdleSound, MemSound, Active, Exists, Col, WorkerInv
<1>22. CASE CompleteJob(w)
  BY <1>22, <1>1 DEF CompleteJob, RowGone, CommitRow, Refresh, Goto, WorkerFrame, rowVars, fileVars, memVars, clientVars, IdleSound, MemSound, Active, Exists, Col, WorkerInv
<1>23. CASE RemoveCheckpoint(w)
  BY <1>23, <1>1 DEF RemoveCheckpoint, RowGone, CommitRow, Refresh, Goto, WorkerFrame, rowVars, fileVars, memVars, clientVars, IdleSound, MemSound, Active, Exists, Col, WorkerInv
<1>24. CASE Raise(w)
  BY <1>24, <1>1 DEF Raise, RowGone, CommitRow, Refresh, Goto, WorkerFrame, rowVars, fileVars, memVars, clientVars, IdleSound, MemSound, Active, Exists, Col, WorkerInv
<1>25. CASE HandleError(w)
  BY <1>25, <1>1 DEF HandleError, RowGone, CommitRow, Refresh, Goto, WorkerFrame, rowVars, fileVars, memVars, clientVars, IdleSound, MemSound, Active, Exists, Col, WorkerInv, IsCancelled, IsPause
<1>26. QED
  BY <1>2, <1>3, <1>4, <1>5, <1>6, <1>7, <1>8, <1>9, <1>10, <1>11, <1>12, <1>13, <1>14, <1>15, <1>16, <1>17, <1>18, <1>19, <1>20, <1>21, <1>22, <1>23, <1>24, <1>25 DEF WorkerStep, Dequeue

\* A step of the pipeline keeps the claims about the job's files and rows.
LEMMA PipelineOwnJob ==
    ASSUME IInv, NEW w \in Workers, WorkerStep(w), pc[w] # "idle", ~Release(w)
    PROVE  FileSound(w)' /\ OwnJob(cur[w])'
<1> USE DEF IInv, TInv, TypeOK
<1>1. cur[w] \in Jobs /\ cur[w] # NoJob
  BY ConstantsAssumption DEF HeldJob
<1>2. CASE FetchJob(w)
  BY <1>2, <1>1 DEF FetchJob, RowGone, CommitRow, Refresh, Goto, WorkerFrame, rowVars, fileVars, memVars, clientVars, FileSound, OwnJob, LateSound, Early, Exists, Col, WorkerInv, JobInv
<1>3. CASE Claim(w)
  BY <1>3, <1>1 DEF Claim, RowGone, CommitRow, Refresh, Goto, WorkerFrame, rowVars, fileVars, memVars, clientVars, FileSound, OwnJob, LateSound, Early, Exists, Col, WorkerInv, JobInv
<1>4. CASE ConfirmClaim(w)
  BY <1>4, <1>1 DEF ConfirmClaim, RowGone, CommitRow, Refresh, Goto, WorkerFrame, rowVars, fileVars, memVars, clientVars, CheckAt, FileSound, OwnJob, LateSound, Early, Exists, Col, WorkerInv, JobInv
<1>5. CASE FetchToFail(w)
  BY <1>5, <1>1 DEF FetchToFail, RowGone, CommitRow, Refresh, Goto, WorkerFrame, rowVars, fileVars, memVars, clientVars, FileSound, OwnJob, LateSound, Early, Exists, Col, WorkerInv, JobInv
<1>6. CASE SimulateFailure(w)
  BY <1>6, <1>1 DEF SimulateFailure, RowGone, CommitRow, Refresh, Goto, WorkerFrame, rowVars, fileVars, memVars, clientVars, FileSound, OwnJob, LateSound, Early, Exists, Col, WorkerInv, JobInv
<1>7. CASE CheckCancel(w)
  BY <1>7, <1>1 DEF CheckCancel, RowGone, CommitRow, Refresh, Goto, WorkerFrame, rowVars, fileVars, memVars, clientVars, FileSound, OwnJob, LateSound, Early, Exists, Col, WorkerInv, JobInv
<1>8. CASE CheckPause(w)
  BY <1>8, <1>1 DEF CheckPause, RowGone, CommitRow, Refresh, Goto, WorkerFrame, rowVars, fileVars, memVars, clientVars, AfterChecks, FileSound, OwnJob, LateSound, Early, Exists, Col, WorkerInv, JobInv
<1>9. CASE FinalizeCancellation(w)
  BY <1>9, <1>1 DEF FinalizeCancellation, RowGone, CommitRow, Refresh, Goto, WorkerFrame, rowVars, fileVars, memVars, clientVars, Finish, FileSound, OwnJob, LateSound, Early, Exists, Col, WorkerInv, JobInv
<1>10. CASE FinalizePause(w)
  BY <1>10, <1>1 DEF FinalizePause, RowGone, CommitRow, Refresh, Goto, WorkerFrame, rowVars, fileVars, memVars, clientVars, Finish, FileSound, OwnJob, LateSound, Early, Exists, Col, WorkerInv, JobInv
<1>11. CASE FailJob(w)
  BY <1>11, <1>1 DEF FailJob, RowGone, CommitRow, Refresh, Goto, WorkerFrame, rowVars, fileVars, memVars, clientVars, Finish, FileSound, OwnJob, LateSound, Early, Exists, Col, WorkerInv, JobInv
<1>12. CASE LoadModel(w)
  BY <1>12, <1>1 DEF LoadModel, RowGone, CommitRow, Refresh, Goto, WorkerFrame, rowVars, fileVars, memVars, clientVars, CheckAt, FileSound, OwnJob, LateSound, Early, Exists, Col, WorkerInv, JobInv
<1>13. CASE BeginTranscribing(w)
  BY <1>13, <1>1 DEF BeginTranscribing, RowGone, CommitRow, Refresh, Goto, WorkerFrame, rowVars, fileVars, memVars, clientVars, CheckAt, FileSound, OwnJob, LateSound, Early, Exists, Col, WorkerInv, JobInv
<1>14. CASE OpenCheckpoint(w)
  BY <1>14, <1>1 DEF OpenCheckpoint, RowGone, CommitRow, Refresh, Goto, WorkerFrame, rowVars, fileVars, memVars, clientVars, NextChunk, CheckAt, FileSound, OwnJob, LateSound, Early, Exists, Col, WorkerInv, JobInv
<1>15. CASE TranscribeChunk(w)
  BY <1>15, <1>1 DEF TranscribeChunk, Recognised, RowGone, CommitRow, Refresh, Goto, WorkerFrame, rowVars, fileVars, memVars, clientVars, NextChunk, CheckAt, FileSound, OwnJob, LateSound, Early, Exists, Col, WorkerInv, JobInv
<1>16. CASE TranscribeWholeFile(w)
  BY <1>16, <1>1 DEF TranscribeWholeFile, Recognised, RowGone, CommitRow, Refresh, Goto, WorkerFrame, rowVars, fileVars, memVars, clientVars, FileSound, OwnJob, LateSound, Early, Exists, Col, WorkerInv, JobInv
<1>17. CASE SkipDiarization(w)
  BY <1>17, <1>1 DEF SkipDiarization, RowGone, CommitRow, Refresh, Goto, WorkerFrame, rowVars, fileVars, memVars, clientVars, CheckAt, FileSound, OwnJob, LateSound, Early, Exists, Col, WorkerInv, JobInv
<1>18. CASE BeginDiarization(w)
  BY <1>18, <1>1 DEF BeginDiarization, RowGone, CommitRow, Refresh, Goto, WorkerFrame, rowVars, fileVars, memVars, clientVars, FileSound, OwnJob, LateSound, Early, Exists, Col, WorkerInv, JobInv
<1>19. CASE EndDiarization(w)
  BY <1>19, <1>1 DEF EndDiarization, RowGone, CommitRow, Refresh, Goto, WorkerFrame, rowVars, fileVars, memVars, clientVars, CheckAt, FileSound, OwnJob, LateSound, Early, Exists, Col, WorkerInv, JobInv
<1>20. CASE BeginFinalizing(w)
  BY <1>20, <1>1 DEF BeginFinalizing, RowGone, CommitRow, Refresh, Goto, WorkerFrame, rowVars, fileVars, memVars, clientVars, FileSound, OwnJob, LateSound, Early, Exists, Col, WorkerInv, JobInv
<1>21. CASE WriteTranscript(w)
  BY <1>21, <1>1 DEF WriteTranscript, RowGone, CommitRow, Refresh, Goto, WorkerFrame, rowVars, fileVars, memVars, clientVars, FileSound, OwnJob, LateSound, Early, Exists, Col, WorkerInv, JobInv
<1>22. CASE CompleteJob(w)
  BY <1>22, <1>1 DEF CompleteJob, RowGone, CommitRow, Refresh, Goto, WorkerFrame, rowVars, fileVars, memVars, clientVars, FileSound, OwnJob, LateSound, Early, Exists, Col, WorkerInv, JobInv
<1>23. CASE RemoveCheckpoint(w)
  BY <1>23, <1>1 DEF RemoveCheckpoint, RowGone, CommitRow, Refresh, Goto, WorkerFrame, rowVars, fileVars, memVars, clientVars, FileSound, OwnJob, LateSound, Early, Exists, Col, WorkerInv, JobInv
<1>24. CASE Raise(w)
  BY <1>24, <1>1 DEF Raise, RowGone, CommitRow, Refresh, Goto, WorkerFrame, rowVars, fileVars, memVars, clientVars, FileSound, OwnJob, LateSound, Early, Exists, Col, WorkerInv, JobInv
<1>25. CASE HandleError(w)
  BY <1>25, <1>1 DEF HandleError, RowGone, CommitRow, Refresh, Goto, WorkerFrame, rowVars, fileVars, memVars, clientVars, FileSound, OwnJob, LateSound, Early, Exists, Col, WorkerInv, JobInv
<1>26. QED
  BY <1>2, <1>3, <1>4, <1>5, <1>6, <1>7, <1>8, <1>9, <1>10, <1>11, <1>12, <1>13, <1>14, <1>15, <1>16, <1>17, <1>18, <1>19, <1>20, <1>21, <1>22, <1>23, <1>24, <1>25 DEF WorkerStep, Dequeue

\* A step of the pipeline keeps the claim about late calls.
LEMMA PipelineLate ==
    ASSUME IInv, NEW w \in Workers, WorkerStep(w), pc[w] # "idle", ~Release(w)
    PROVE  LateSound(w)'
<1> USE DEF IInv, TInv, TypeOK
<1>1. cur[w] \in Jobs /\ cur[w] # NoJob
  BY ConstantsAssumption DEF HeldJob
<1>2. CASE FetchJob(w)
  BY <1>2, <1>1 DEF FetchJob, RowGone, CommitRow, Refresh, Goto, WorkerFrame, rowVars, fileVars, memVars, clientVars, LateSound, Early, Exists, Col, WorkerInv, JobInv, StopStates, IsCancelled, IsPause
<1>3. CASE Claim(w)
  BY <1>3, <1>1 DEF Claim, RowGone, CommitRow, Refresh, Goto, WorkerFrame, rowVars, fileVars, memVars, clientVars, LateSound, Early, Exists, Col, WorkerInv, JobInv, StopStates, IsCancelled, IsPause
<1>4. CASE ConfirmClaim(w)
  BY <1>4, <1>1 DEF ConfirmClaim, RowGone, CommitRow, Refresh, Goto, WorkerFrame, rowVars, fileVars, memVars, clientVars, CheckAt, LateSound, Early, Exists, Col, WorkerInv, JobInv, StopStates, IsCancelled, IsPause
<1>5. CASE FetchToFail(w)
  BY <1>5, <1>1 DEF FetchToFail, RowGone, CommitRow, Refresh, Goto, WorkerFrame, rowVars, fileVars, memVars, clientVars, LateSound, Early, Exists, Col, WorkerInv, JobInv, StopStates, IsCancelled, IsPause
<1>6. CASE SimulateFailure(w)
  BY <1>6, <1>1 DEF SimulateFailure, RowGone, CommitRow, Refresh, Goto, WorkerFrame, rowVars, fileVars, memVars, clientVars, LateSound, Early, Exists, Col, WorkerInv, JobInv, StopStates, IsCancelled, IsPause
<1>7. CASE CheckCancel(w)
  BY <1>7, <1>1 DEF CheckCancel, RowGone, CommitRow, Refresh, Goto, WorkerFrame, rowVars, fileVars, memVars, clientVars, LateSound, Early, Exists, Col, WorkerInv, JobInv, StopStates, IsCancelled, IsPause
<1>8. CASE CheckPause(w)
  BY <1>8, <1>1 DEF CheckPause, RowGone, CommitRow, Refresh, Goto, WorkerFrame, rowVars, fileVars, memVars, clientVars, AfterChecks, LateSound, Early, Exists, Col, WorkerInv, JobInv, StopStates, IsCancelled, IsPause
<1>9. CASE FinalizeCancellation(w)
  BY <1>9, <1>1 DEF FinalizeCancellation, RowGone, CommitRow, Refresh, Goto, WorkerFrame, rowVars, fileVars, memVars, clientVars, Finish, LateSound, Early, Exists, Col, WorkerInv, JobInv, StopStates, IsCancelled, IsPause
<1>10. CASE FinalizePause(w)
  BY <1>10, <1>1 DEF FinalizePause, RowGone, CommitRow, Refresh, Goto, WorkerFrame, rowVars, fileVars, memVars, clientVars, Finish, LateSound, Early, Exists, Col, WorkerInv, JobInv, StopStates, IsCancelled, IsPause
<1>11. CASE FailJob(w)
  BY <1>11, <1>1 DEF FailJob, RowGone, CommitRow, Refresh, Goto, WorkerFrame, rowVars, fileVars, memVars, clientVars, Finish, LateSound, Early, Exists, Col, WorkerInv, JobInv, StopStates, IsCancelled, IsPause
<1>12. CASE LoadModel(w)
  BY <1>12, <1>1 DEF LoadModel, RowGone, CommitRow, Refresh, Goto, WorkerFrame, rowVars, fileVars, memVars, clientVars, CheckAt, LateSound, Early, Exists, Col, WorkerInv, JobInv, StopStates, IsCancelled, IsPause
<1>13. CASE BeginTranscribing(w)
  BY <1>13, <1>1 DEF BeginTranscribing, RowGone, CommitRow, Refresh, Goto, WorkerFrame, rowVars, fileVars, memVars, clientVars, CheckAt, LateSound, Early, Exists, Col, WorkerInv, JobInv, StopStates, IsCancelled, IsPause
<1>14. CASE OpenCheckpoint(w)
  BY <1>14, <1>1 DEF OpenCheckpoint, RowGone, CommitRow, Refresh, Goto, WorkerFrame, rowVars, fileVars, memVars, clientVars, NextChunk, CheckAt, LateSound, Early, Exists, Col, WorkerInv, JobInv, StopStates, IsCancelled, IsPause
<1>15. CASE TranscribeChunk(w)
  BY <1>15, <1>1 DEF TranscribeChunk, Recognised, RowGone, CommitRow, Refresh, Goto, WorkerFrame, rowVars, fileVars, memVars, clientVars, NextChunk, CheckAt, LateSound, Early, Exists, Col, WorkerInv, JobInv, StopStates, IsCancelled, IsPause
<1>16. CASE TranscribeWholeFile(w)
  BY <1>16, <1>1 DEF TranscribeWholeFile, Recognised, RowGone, CommitRow, Refresh, Goto, WorkerFrame, rowVars, fileVars, memVars, clientVars, LateSound, Early, Exists, Col, WorkerInv, JobInv, StopStates, IsCancelled, IsPause
<1>17. CASE SkipDiarization(w)
  BY <1>17, <1>1 DEF SkipDiarization, RowGone, CommitRow, Refresh, Goto, WorkerFrame, rowVars, fileVars, memVars, clientVars, CheckAt, LateSound, Early, Exists, Col, WorkerInv, JobInv, StopStates, IsCancelled, IsPause
<1>18. CASE BeginDiarization(w)
  BY <1>18, <1>1 DEF BeginDiarization, RowGone, CommitRow, Refresh, Goto, WorkerFrame, rowVars, fileVars, memVars, clientVars, LateSound, Early, Exists, Col, WorkerInv, JobInv, StopStates, IsCancelled, IsPause
<1>19. CASE EndDiarization(w)
  BY <1>19, <1>1 DEF EndDiarization, RowGone, CommitRow, Refresh, Goto, WorkerFrame, rowVars, fileVars, memVars, clientVars, CheckAt, LateSound, Early, Exists, Col, WorkerInv, JobInv, StopStates, IsCancelled, IsPause
<1>20. CASE BeginFinalizing(w)
  BY <1>20, <1>1 DEF BeginFinalizing, RowGone, CommitRow, Refresh, Goto, WorkerFrame, rowVars, fileVars, memVars, clientVars, LateSound, Early, Exists, Col, WorkerInv, JobInv, StopStates, IsCancelled, IsPause
<1>21. CASE WriteTranscript(w)
  BY <1>21, <1>1 DEF WriteTranscript, RowGone, CommitRow, Refresh, Goto, WorkerFrame, rowVars, fileVars, memVars, clientVars, LateSound, Early, Exists, Col, WorkerInv, JobInv, StopStates, IsCancelled, IsPause
<1>22. CASE CompleteJob(w)
  BY <1>22, <1>1 DEF CompleteJob, RowGone, CommitRow, Refresh, Goto, WorkerFrame, rowVars, fileVars, memVars, clientVars, LateSound, Early, Exists, Col, WorkerInv, JobInv, StopStates, IsCancelled, IsPause
<1>23. CASE RemoveCheckpoint(w)
  BY <1>23, <1>1 DEF RemoveCheckpoint, RowGone, CommitRow, Refresh, Goto, WorkerFrame, rowVars, fileVars, memVars, clientVars, LateSound, Early, Exists, Col, WorkerInv, JobInv, StopStates, IsCancelled, IsPause
<1>24. CASE Raise(w)
  BY <1>24, <1>1 DEF Raise, RowGone, CommitRow, Refresh, Goto, WorkerFrame, rowVars, fileVars, memVars, clientVars, LateSound, Early, Exists, Col, WorkerInv, JobInv, StopStates, IsCancelled, IsPause
<1>25. CASE HandleError(w)
  BY <1>25, <1>1 DEF HandleError, RowGone, CommitRow, Refresh, Goto, WorkerFrame, rowVars, fileVars, memVars, clientVars, LateSound, Early, Exists, Col, WorkerInv, JobInv, StopStates, IsCancelled, IsPause
<1>26. QED
  BY <1>2, <1>3, <1>4, <1>5, <1>6, <1>7, <1>8, <1>9, <1>10, <1>11, <1>12, <1>13, <1>14, <1>15, <1>16, <1>17, <1>18, <1>19, <1>20, <1>21, <1>22, <1>23, <1>24, <1>25 DEF WorkerStep, Dequeue

\* Every step of the pipeline preserves IInv.
LEMMA IInvPipeline ==
    ASSUME IInv, TInv', NEW w \in Workers, WorkerStep(w), pc[w] # "idle", ~Release(w)
    PROVE  IInv'
<1>1. Local(w)  BY PipelineLocal
<1>2. cur[w] \in Jobs /\ cur[w] # NoJob
  BY ConstantsAssumption DEF IInv, TInv, HeldJob, TypeOK
<1>3. Exclusive'
  BY <1>1 DEF Local, IInv, Exclusive, OneWorkerPerJob
<1>4. ASSUME NEW v \in Workers
      PROVE  (IdleSound(v) /\ MemSound(v) /\ FileSound(v) /\ LateSound(v))'
  <2>1. CASE v = w
    BY <2>1, PipelineStatus, PipelineOwnJob, PipelineLate
  <2>2. CASE v # w /\ cur[v] = NoJob
    BY <1>1, <2>2 DEF Local, IInv, TInv, HeldJob, IdleSound, MemSound, FileSound, LateSound, Active
  <2>3. CASE v # w /\ cur[v] # NoJob
    <3>1. cur[v] \in Jobs \ {cur[w]}
      BY <2>3 DEF IInv, TInv, TypeOK, Exclusive, OneWorkerPerJob
    <3>2. IdleSound(v) /\ MemSound(v) /\ FileSound(v) /\ LateSound(v)
      BY DEF IInv, WorkerInv
    <3>3. v \in Workers \ {w}  BY <2>3
    <3>4. QED
      BY <1>1, <3>1, <3>2, <3>3 DEF Local, IdleSound, MemSound, FileSound, LateSound
  <2>4. QED  BY <2>1, <2>2, <2>3
<1>5. JobInv'
  <2> SUFFICES ASSUME NEW j \in Jobs
               PROVE  /\ up' /\ status'[j] = "processing" => Held(j)'
                      /\ status'[j] = "completed" => rows'[j] >= 1 /\ transcript'[j] # "none"
                      /\ late'[j] <= 1
                      /\ ~Held(j)' => late'[j] = 0
    BY DEF JobInv
  <2>1. Held(j)' <=> Held(j)  BY <1>1 DEF Local, Held
  <2>2. CASE j = cur[w]
    <3>1. Held(j)  BY <2>2 DEF Held
    <3>2. OwnJob(cur[w])'  BY PipelineOwnJob
    <3>3. cur' = cur  BY <1>1 DEF Local
    <3>4. QED  BY <2>1, <2>2, <3>1, <3>2, <3>3 DEF OwnJob
  <2>3. CASE j # cur[w]
    BY <1>1, <2>1, <2>3 DEF Local, IInv, JobInv
  <2>4. QED  BY <2>2, <2>3
<1>6. QED  BY <1>3, <1>4, <1>5 DEF IInv, WorkerInv

\* A dequeue preserves IInv: a job in _running_ids is not taken again.
LEMMA IInvDequeue ==
    ASSUME IInv, TInv', NEW w \in Workers, Dequeue(w)
    PROVE  IInv'
<1> DEFINE j == Head(queue).job
<1>1. /\ UNCHANGED <<up, status, transcript, rows, at, memStatus, late>>
      /\ pc[w] = "idle" /\ cur[w] = NoJob
  BY DEF Dequeue, WorkerFrame, rowVars, fileVars, memVars, IInv, TInv, HeldJob
<1>2. CASE UNCHANGED <<running, pc, cur>>
  BY <1>1, <1>2 DEF IInv, Exclusive, OneWorkerPerJob, WorkerInv, IdleSound, MemSound, FileSound,
     LateSound, JobInv, Held
<1>3. CASE /\ j \notin running
           /\ running' = running \cup {j}
           /\ cur' = [cur EXCEPT ![w] = j]
           /\ pc' = [pc EXCEPT ![w] = IF Head(queue).fail THEN "sim_fetch" ELSE "fetch"]
  <2> HIDE DEF j
  <2>1. /\ cur'[w] = j /\ pc'[w] \in {"sim_fetch", "fetch"}
        /\ \A v \in Workers \ {w} : cur'[v] = cur[v] /\ pc'[v] = pc[v]
    BY <1>3 DEF IInv, TInv, TypeOK
  <2>2. j \in Jobs /\ j # NoJob
    <3>1. cur' \in [Workers -> Jobs \cup {NoJob}]  BY DEF TInv, TypeOK
    <3>2. pc'[w] # "idle"  BY <2>1
    <3>3. j # NoJob  BY <2>1, <3>2 DEF TInv, HeldJob
    <3>4. QED  BY <2>1, <3>1, <3>3
  <2>3. ~Held(j)  BY <1>3, <2>2 DEF Held, IInv, Exclusive
  <2>4. late[j] = 0 /\ (up => status[j] # "processing")
    BY <2>2, <2>3 DEF IInv, JobInv
  <2>5. Exclusive'
    BY <1>3, <2>1, <2>2, <2>3 DEF IInv, Exclusive, OneWorkerPerJob, Held
  <2>6. WorkerInv'
    <3> SUFFICES ASSUME NEW v \in Workers
                 PROVE  (IdleSound(v) /\ MemSound(v) /\ FileSound(v) /\ LateSound(v))'
      BY DEF WorkerInv
    <3>1. CASE v = w
      BY <1>1, <2>1, <2>4, <3>1 DEF IdleSound, MemSound, FileSound, LateSound, Active
    <3>2. CASE v # w
      <4>1. IdleSound(v) /\ MemSound(v) /\ FileSound(v) /\ LateSound(v)  BY DEF IInv, WorkerInv
      <4>2. QED  BY <1>1, <2>1, <3>2, <4>1 DEF IdleSound, MemSound, FileSound, LateSound
    <3>3. QED  BY <3>1, <3>2
  <2>7. JobInv'
    <3>1. ASSUME NEW i \in Jobs, Held(i) PROVE Held(i)'
      <4>1. PICK v \in Workers : cur[v] = i  BY <3>1 DEF Held
      <4>2. v # w  BY <1>1, <4>1, ConstantsAssumption
      <4>3. cur'[v] = i  BY <2>1, <4>1, <4>2
      <4>4. QED  BY <4>3 DEF Held
    <3>2. QED  BY <1>1, <3>1 DEF IInv, JobInv
  <2>8. QED  BY <2>5, <2>6, <2>7 DEF IInv
<1>4. QED  BY <1>2, <1>3 DEF Dequeue, AlreadyRunning, Goto

\* A release preserves IInv.
LEMMA IInvRelease ==
    ASSUME IInv, TInv', NEW w \in Workers, Release(w)
    PROVE  IInv'
<1>1. /\ UNCHANGED <<up, status, transcript, rows>>
      /\ running' = running \ {cur[w]}
      /\ late' = [late EXCEPT ![cur[w]] = 0]
      /\ pc[w] = "release"
  BY DEF Release, WorkerFrame, rowVars, fileVars
<1>2. /\ cur'[w] = NoJob /\ pc'[w] = "idle"
      /\ \A v \in Workers \ {w} :
            cur'[v] = cur[v] /\ pc'[v] = pc[v] /\ at'[v] = at[v] /\ memStatus'[v] = memStatus[v]
  BY DEF Release, Goto, IInv, TInv, TypeOK
<1>3. cur[w] \in Jobs /\ cur[w] # NoJob
  BY <1>1, ConstantsAssumption DEF IInv, TInv, HeldJob, TypeOK
<1>4. \A v \in Workers \ {w} : cur[v] # NoJob => cur[v] # cur[w]
  BY DEF IInv, Exclusive, OneWorkerPerJob
<1>5. Exclusive'
  BY <1>1, <1>2, <1>4 DEF IInv, Exclusive, OneWorkerPerJob
<1>6. late'[cur[w]] = 0 /\ \A j \in Jobs \ {cur[w]} : late'[j] = late[j]
  BY <1>1, <1>3 DEF IInv, TInv, TypeOK
<1>7. WorkerInv'
  <2> SUFFICES ASSUME NEW v \in Workers
               PROVE  (IdleSound(v) /\ MemSound(v) /\ FileSound(v) /\ LateSound(v))'
    BY DEF WorkerInv
  <2>1. CASE v = w
    BY <1>2, <2>1 DEF IdleSound, MemSound, FileSound, LateSound, Active
  <2>2. CASE v # w
    <3>1. IdleSound(v) /\ MemSound(v) /\ FileSound(v) /\ LateSound(v)  BY DEF IInv, WorkerInv
    <3>2. cur[v] # NoJob => cur[v] \in Jobs \ {cur[w]}
      BY <1>4, <2>2 DEF IInv, TInv, TypeOK
    <3>3. QED  BY <1>1, <1>2, <1>6, <2>2, <3>1, <3>2 DEF IdleSound, MemSound, FileSound, LateSound
  <2>3. QED  BY <2>1, <2>2
<1>8. JobInv'
  <2> SUFFICES ASSUME NEW j \in Jobs
               PROVE  /\ up' /\ status'[j] = "processing" => Held(j)'
                      /\ status'[j] = "completed" => rows'[j] >= 1 /\ transcript'[j] # "none"
                      /\ late'[j] <= 1
                      /\ ~Held(j)' => late'[j] = 0
    BY DEF JobInv
  <2>1. CASE j = cur[w]
    <3>1. up => status[j] # "processing"
      BY <1>1, <1>3, <2>1 DEF IInv, WorkerInv, IdleSound, Active
    <3>2. QED  BY <1>1, <1>6, <2>1, <3>1 DEF IInv, JobInv
  <2>2. CASE j # cur[w]
    <3>1. Held(j) => Held(j)'  BY <1>2, <2>2 DEF Held
    <3>2. QED  BY <1>1, <1>6, <2>2, <3>1 DEF IInv, JobInv
  <2>3. QED  BY <2>1, <2>2
<1>9. QED  BY <1>5, <1>7, <1>8 DEF IInv

\* IInv holds initially.
LEMMA IInvInit == Init => IInv
<1> SUFFICES ASSUME Init PROVE IInv  OBVIOUS
<1>1. TInv  BY TInvInit
<1>2. Exclusive  BY DEF Init, Exclusive, OneWorkerPerJob
<1>3. WorkerInv
  BY DEF Init, WorkerInv, IdleSound, MemSound, FileSound, LateSound, Active
<1>4. JobInv
  <2> SUFFICES ASSUME NEW j \in Jobs
               PROVE  /\ up /\ status[j] = "processing" => Held(j)
                      /\ status[j] = "completed" => rows[j] >= 1 /\ transcript[j] # "none"
                      /\ late[j] <= 1
                      /\ ~Held(j) => late[j] = 0
    BY DEF JobInv
  <2>1. status[j] = "unborn" /\ late[j] = 0  BY DEF Init
  <2>2. QED  BY <2>1
<1>5. QED  BY <1>1, <1>2, <1>3, <1>4 DEF IInv

\* What a handler, or the clean-up at startup, guarantees: it leaves the
\* workers alone, starts and completes nothing, and undoes no stop.
LEMMA IInvOutside ==
    ASSUME IInv, TInv', UNCHANGED <<running, pc, cur, at, memStatus>>,
           \A j \in Jobs :
             /\ status'[j] = "processing" => status[j] = "processing" /\ (up' => up)
             /\ status'[j] = "completed" => status[j] = "completed" /\ rows'[j] = rows[j]
             /\ transcript'[j] = "none" => transcript[j] = "none"
             /\ \/ late'[j] = 0
                \/ /\ late'[j] = late[j]
                   /\ status[j] \in StopStates \cup {"deleted"}
                        => status'[j] \in StopStates \cup {"deleted"}
                   /\ status[j] \in {"paused", "pausing", "deleted"}
                        => status'[j] \in {"paused", "pausing", "deleted"}
    PROVE  IInv'
<1>1. Exclusive'  BY DEF IInv, Exclusive, OneWorkerPerJob
<1>2. WorkerInv'
  <2> SUFFICES ASSUME NEW v \in Workers
               PROVE  (IdleSound(v) /\ MemSound(v) /\ FileSound(v) /\ LateSound(v))'
    BY DEF WorkerInv
  <2>1. IdleSound(v) /\ MemSound(v) /\ FileSound(v) /\ LateSound(v)  BY DEF IInv, WorkerInv
  <2>2. CASE cur[v] = NoJob
    BY <2>2 DEF IInv, TInv, HeldJob, IdleSound, MemSound, FileSound, LateSound, Active
  <2>3. CASE cur[v] # NoJob
    <3>1. cur[v] \in Jobs  BY <2>3 DEF IInv, TInv, TypeOK
    <3>2. (IdleSound(v) /\ MemSound(v) /\ FileSound(v))'
      BY <2>1, <3>1, <2>3 DEF IdleSound, MemSound, FileSound
    <3>3. CASE late'[cur[v]] = 0
      BY <3>2, <3>3 DEF LateSound
    <3>4. CASE late'[cur[v]] # 0
      BY <2>1, <2>3, <3>1, <3>2, <3>4 DEF LateSound
    <3>5. QED  BY <3>2, <3>3, <3>4
  <2>4. QED  BY <2>2, <2>3
<1>3. JobInv'
  <2> SUFFICES ASSUME NEW j \in Jobs
               PROVE  /\ up' /\ status'[j] = "processing" => Held(j)'
                      /\ status'[j] = "completed" => rows'[j] >= 1 /\ transcript'[j] # "none"
                      /\ late'[j] <= 1
                      /\ ~Held(j)' => late'[j] = 0
    BY DEF JobInv
  <2>1. Held(j)' <=> Held(j)  BY DEF Held
  <2>2. QED  BY <2>1 DEF IInv, JobInv
<1>4. QED  BY <1>1, <1>2, <1>3 DEF IInv

\* Accepting a request preserves IInv.
LEMMA IInvAccepting ==
    ASSUME IInv, TInv', NEW c \in Clients, Accepting(c)
    PROVE  IInv'
<1>1. CASE \E j \in Jobs, f \in FailFlags : CreateJob(c, j, f)
  <2>1. PICK j \in Jobs, f \in FailFlags : CreateJob(c, j, f)  BY <1>1
  <2>2. UNCHANGED <<running, pc, cur, at, memStatus, up, rows, transcript, late>>
    BY <2>1 DEF CreateJob, ClientFrame, localVars, memVars
  <2>3. status[j] = "unborn" /\ status' = [status EXCEPT ![j] = "queued"]
    BY <2>1 DEF CreateJob
  <2>4. status'[j] = "queued" /\ \A i \in Jobs \ {j} : status'[i] = status[i]
    BY <2>3 DEF IInv, TInv, TypeOK
  <2>5. QED  BY <2>2, <2>3, <2>4, IInvOutside DEF StopStates
<1>2. CASE \E op \in Ops, j \in Jobs : BeginRequest(c, op, j)
  <2>1. PICK op \in Ops, j \in Jobs : BeginRequest(c, op, j)  BY <1>2
  <2>2. UNCHANGED <<running, pc, cur, at, memStatus, up, rows, status, late>>
    BY <2>1 DEF BeginRequest, ClientFrame, localVars, memVars, rowVars
  <2>3. \A i \in Jobs : transcript'[i] = "none" => transcript[i] = "none"
    BY <2>1 DEF BeginRequest, IInv, TInv, TypeOK
  <2>4. QED  BY <2>2, <2>3, IInvOutside
<1>3. QED  BY <1>1, <1>2 DEF Accepting

\* No handler writes "processing" or a final state other than cancelled.
LEMMA NewStatusValues ==
    ASSUME NEW op, NEW st
    PROVE  NewStatus(op, st) \in {"queued", "cancelled", "cancelling", "paused", "pausing"}
BY DEF NewStatus

\* The later steps of a handler preserve IInv.
LEMMA IInvFinishing ==
    ASSUME IInv, TInv', NEW c \in Clients, Finishing(c)
    PROVE  IInv'
<1>1. CASE CommitRequest(c)
  <2> DEFINE r == req[c]
  <2>1. UNCHANGED <<running, pc, cur, at, memStatus, up, rows, transcript>>
    BY <1>1 DEF CommitRequest, ClientFrame, localVars, memVars
  <2>2. CASE UNCHANGED <<status, late>>
    BY <2>1, <2>2, IInvOutside
  <2>3. CASE /\ status' = [status EXCEPT ![r.job] = Col(r.st, NewStatus(r.op, r.st), @)]
             /\ late' = [late EXCEPT ![r.job] = 0]
    <3>1. r.job \in Jobs  BY <1>1 DEF CommitRequest, IInv, TInv, ReqJob
    <3>2. late'[r.job] = 0 /\ \A i \in Jobs \ {r.job} : late'[i] = late[i] /\ status'[i] = status[i]
      BY <2>3, <3>1 DEF IInv, TInv, TypeOK
    <3>3. status'[r.job] \in {status[r.job], NewStatus(r.op, r.st)}
      BY <2>3, <3>1 DEF IInv, TInv, TypeOK, Col
    <3>4. status'[r.job] \in {status[r.job], "queued", "cancelled", "cancelling", "paused", "pausing"}
      BY <3>3, NewStatusValues
    <3>5. QED  BY <2>1, <3>2, <3>4, IInvOutside
  <2>4. QED  BY <1>1, <2>2, <2>3 DEF CommitRequest, rowVars
<1>2. CASE \E n \in Jobs : CommitRestart(c, n)
  <2>1. PICK n \in Jobs : CommitRestart(c, n)  BY <1>2
  <2>2. UNCHANGED <<running, pc, cur, at, memStatus, up, rows, transcript, late>>
    BY <2>1 DEF CommitRestart, ClientFrame, localVars, memVars
  <2>3. status[n] = "unborn" /\ status' = [status EXCEPT ![n] = "queued"]
    BY <2>1 DEF CommitRestart
  <2>4. status'[n] = "queued" /\ \A i \in Jobs \ {n} : status'[i] = status[i]
    BY <2>3 DEF IInv, TInv, TypeOK
  <2>5. QED  BY <2>2, <2>3, <2>4, IInvOutside DEF StopStates
<1>3. CASE CommitDelete(c)
  <2> DEFINE j == req[c].job
  <2>1. UNCHANGED <<running, pc, cur, at, memStatus, up, transcript, late>>
    BY <1>3 DEF CommitDelete, ClientFrame, localVars, memVars
  <2>2. j \in Jobs  BY <1>3 DEF CommitDelete, IInv, TInv, ReqJob
  <2>3. /\ status'[j] = "deleted"
        /\ \A i \in Jobs \ {j} : status'[i] = status[i] /\ rows'[i] = rows[i]
    BY <1>3, <2>2 DEF CommitDelete, IInv, TInv, TypeOK
  <2>4. QED  BY <2>1, <2>3, IInvOutside
<1>4. CASE Enqueue(c)
  <2>1. UNCHANGED <<running, pc, cur, at, memStatus, up, rows, transcript, status, late>>
    BY <1>4 DEF Enqueue, ClientFrame, localVars, memVars, rowVars
  <2>2. QED  BY <2>1, IInvOutside
<1>5. QED  BY <1>1, <1>2, <1>3, <1>4 DEF Finishing

\* The death of the process preserves IInv.
LEMMA IInvCrash ==
    ASSUME IInv, TInv', Crash
    PROVE  IInv'
<1>1. Exclusive'  BY DEF Crash, Exclusive, OneWorkerPerJob
<1>2. WorkerInv'
  BY DEF Crash, WorkerInv, IdleSound, MemSound, FileSound, LateSound, Active
<1>3. JobInv'  BY DEF Crash, IInv, JobInv, rowVars, fileVars
<1>4. QED  BY <1>1, <1>2, <1>3 DEF IInv

\* The clean-up at startup preserves IInv.
LEMMA IInvStartup ==
    ASSUME IInv, TInv', Startup
    PROVE  IInv'
<1>1. UNCHANGED <<running, pc, cur, at, memStatus, rows, transcript, late>>
  BY DEF Startup, fileVars, localVars, memVars
<1>2. \A j \in Jobs : status'[j] = CASE status[j] = "pausing" -> "paused"
                                     [] status[j] \in Abandoned -> "cancelled"
                                     [] OTHER -> status[j]
  BY DEF Startup
<1>3. \A j \in Jobs :
        /\ status'[j] # "processing"
        /\ status'[j] = "completed" => status[j] = "completed"
        /\ status[j] \in {"paused", "pausing", "deleted"}
             => status'[j] \in {"paused", "pausing", "deleted"}
        /\ status[j] \in StopStates \cup {"deleted"}
             => status'[j] \in StopStates \cup {"deleted"}
  BY <1>2 DEF Abandoned, StopStates
<1>4. QED  BY <1>1, <1>3, IInvOutside

\* The invariant is inductive.
LEMMA IInvNext == IInv /\ TInv' /\ [Next]_vars => IInv'
<1> SUFFICES ASSUME IInv, TInv', [Next]_vars PROVE IInv'  OBVIOUS
<1>1. ASSUME NEW w \in Workers, WorkerStep(w) PROVE IInv'
  <2>1. CASE Dequeue(w)  BY <2>1, IInvDequeue
  <2>2. CASE Release(w)  BY <2>2, IInvRelease
  <2>3. CASE ~Dequeue(w) /\ ~Release(w)
    <3>1. pc[w] # "idle"  BY <1>1, <2>3, BusyStep
    <3>2. QED  BY <1>1, <2>3, <3>1, IInvPipeline
  <2>4. QED  BY <2>1, <2>2, <2>3
<1>2. ASSUME NEW c \in Clients, Accepting(c) PROVE IInv'  BY <1>2, IInvAccepting
<1>3. ASSUME NEW c \in Clients, Finishing(c) PROVE IInv'  BY <1>3, IInvFinishing
<1>4. CASE UNCHANGED vars
  <2>1. UNCHANGED <<running, pc, cur, at, memStatus, up, rows, transcript, status, late>>
    BY <1>4 DEF vars, rowVars, fileVars, localVars, memVars
  <2>2. QED  BY <2>1, IInvOutside
<1>5. CASE Crash  BY <1>5, IInvCrash
<1>6. CASE Startup  BY <1>6, IInvStartup
<1>7. QED  BY <1>1, <1>2, <1>3, <1>4, <1>5, <1>6 DEF Next

\* Every reachable state satisfies IInv.
LEMMA Inductive == Spec => []IInv
<1>1. Spec => []TInv  BY TInvInit, TInvNext, PTL DEF Spec
<1>2. IInv /\ TInv' /\ [Next]_vars => IInv'  BY IInvNext
<1>3. QED  BY <1>1, <1>2, IInvInit, PTL DEF Spec

\* Whatever duplicates the queue holds and however workers, handlers and
\* crashes interleave, two workers never run the same job.
THEOREM MutualExclusion == Spec => []OneWorkerPerJob
<1>1. IInv => OneWorkerPerJob  BY DEF IInv, Exclusive
<1>2. QED  BY <1>1, Inductive, PTL

\* A row says "processing" only while a worker is in the pipeline with the job:
\* no error path, handler, deletion or restart of the process leaves it behind.
THEOREM NoOrphanedProcessing == Spec => []ProcessingIsHeld
<1>1. ASSUME IInv, up, NEW j \in Jobs, status[j] = "processing"
      PROVE  \E w \in Workers : cur[w] = j /\ pc[w] \in Active
  <2>1. PICK w \in Workers : cur[w] = j  BY <1>1 DEF IInv, JobInv, Held
  <2>2. IdleSound(w)  BY <1>1 DEF IInv, WorkerInv
  <2>3. pc[w] \in Active  BY <1>1, <2>1, <2>2, ConstantsAssumption DEF IdleSound
  <2>4. QED  BY <2>1, <2>3
<1>3. IInv => ProcessingIsHeld  BY <1>1 DEF ProcessingIsHeld
<1>4. QED  BY <1>3, Inductive, PTL

\* After the last committed cancel or pause a run comes back from the recogniser
\* once more at most, from a chunk or from the whole media, whatever the number
\* of chunks and of concurrent requests.
THEOREM PromptStop == Spec => []StopWithinOneCall
<1>1. IInv => StopWithinOneCall  BY DEF IInv, JobInv, StopWithinOneCall
<1>2. QED  BY <1>1, Inductive, PTL

\* A completed job has its transcripts row and its file has been written.
THEOREM CompletionIsBacked == Spec => []CompletedHasTranscript
<1>1. IInv => CompletedHasTranscript  BY DEF IInv, JobInv, CompletedHasTranscript
<1>2. QED  BY <1>1, Inductive, PTL

-----------------------------------------------------------------------------
(* Without pause and resume: a job has one ticket in its life.              *)

\* The clients use neither pause nor resume.
NoPauses == "pause" \notin Ops /\ "resume" \notin Ops

PipelineStages == {"loading_model", "transcribing", "diarizing", "finalizing"}

\* A worker that has taken a job and not yet claimed it.
Front == {"fetch", "claim", "sim_fetch", "sim_fail"}

\* No job has two entries in the queue.
NoDuplicateEntries ==
    \A i, k \in 1..Len(queue) : i # k => queue[i].job # queue[k].job

\* A job is in one place only: one entry of the queue, one handler about to put
\* it there, or one worker; and _running_ids names the held jobs only, so that
\* no entry is dropped.
OneTicket ==
    /\ NoDuplicateEntries
    /\ \A c \in Clients : req[c].pc = "enqueue" =>
         /\ \A d \in Clients \ {c} : req[d].pc = "enqueue" => req[d].job # req[c].job
         /\ \A i \in 1..Len(queue) : queue[i].job # req[c].job
         /\ ~Held(req[c].job)
    /\ \A i \in 1..Len(queue) : ~Held(queue[i].job)
    /\ \A j \in running : Held(j)

\* What the row a handler has loaded says of the row as it is now.
ReqSound(c) ==
    req[c].pc = "commit" =>
      /\ req[c].op \in {"cancel", "restart", "delete"}
      /\ status[req[c].job] # "unborn"
      /\ req[c].op = "cancel" => req[c].st \notin Terminal
      /\ Waiting(req[c].job) => req[c].st \in {"queued", "cancelled"}

\* What a worker's copy says before the claim, and that it has not completed.
TicketSound(w) ==
    /\ pc[w] = "claim" => memStatus[w] = "queued" /\ memStage[w] = "none"
    /\ pc[w] = "sim_fail" => memStatus[w] \in {"queued", "cancelled"}
    /\ cur[w] # NoJob /\ pc[w] \notin {"cleanup", "release"} => rows[cur[w]] = 0

\* The row of a job before, while and after it waits for a worker.
LifeSound(j) ==
    /\ status[j] = "unborn" => stage[j] = "none" /\ rows[j] = 0 /\ ~Waiting(j) /\ ~Held(j)
    /\ Waiting(j) => /\ status[j] \in {"queued", "cancelled", "deleted"}
                     /\ stage[j] = "none" /\ rows[j] = 0
    /\ up /\ status[j] = "queued" => Waiting(j)
    /\ status[j] = "processing" => stage[j] \in PipelineStages
    /\ rows[j] <= 1

Ticket ==
    /\ OneTicket
    /\ \A c \in Clients : ReqSound(c)
    /\ \A w \in Workers : TicketSound(w) /\ (pc[w] # "idle" => up)
    /\ \A j \in Jobs : LifeSound(j)

\* What a pipeline step guarantees of the ticket its worker holds.
OwnTicket(w) ==
    /\ queue' = queue /\ req' = req
    /\ \A v \in Workers \ {w} : memStage'[v] = memStage[v]
    /\ \A j \in Jobs \ {cur[w]} : stage'[j] = stage[j]
    /\ pc'[w] \in Front => /\ pc[w] \in Front
                           /\ status'[cur[w]] = status[cur[w]] /\ stage'[cur[w]] = stage[cur[w]]
    /\ status'[cur[w]] = "queued" => status[cur[w]] = "queued" /\ (pc[w] \in Front => pc'[w] \in Front)
    /\ status'[cur[w]] = "unborn" => status[cur[w]] = "unborn"
    /\ status'[cur[w]] = "processing" => stage'[cur[w]] \in PipelineStages
    /\ rows'[cur[w]] <= 1 /\ (pc'[w] \in Front => rows'[cur[w]] = rows[cur[w]])
    /\ TicketSound(w)'

\* Every step of the pipeline keeps the worker's ticket sound.
LEMMA PipelineTicket ==
    ASSUME IInv, Ticket, NEW w \in Workers, WorkerStep(w), pc[w] # "idle", ~Release(w)
    PROVE  OwnTicket(w)
<1> USE DEF IInv, TInv, TypeOK
<1>1. cur[w] \in Jobs /\ cur[w] # NoJob /\ up
  BY ConstantsAssumption DEF HeldJob, Ticket
<1>2. /\ pc[w] \in Front => status[cur[w]] \in {"queued", "cancelled", "deleted"} /\ stage[cur[w]] = "none"
      /\ status[cur[w]] = "processing" => pc[w] \in Active /\ stage[cur[w]] \in PipelineStages
      /\ rows[cur[w]] <= 1 /\ rows[cur[w]] \in Nat /\ TicketSound(w) /\ MemSound(w)
      /\ TypeOK
  BY <1>1 DEF Ticket, LifeSound, Waiting, Front, WorkerInv, IdleSound
<1> HIDE DEF IInv, TInv
<1>3. CASE FetchJob(w)
  BY <1>3, <1>1, <1>2 DEF FetchJob, IsCancelled, RowGone, CommitRow, Refresh, Goto, WorkerFrame, rowVars, fileVars, memVars, clientVars, MemSound, Exists, Col, TicketSound, OwnTicket, Front, Active, PipelineStages
<1>4. CASE Claim(w)
  BY <1>4, <1>1, <1>2 DEF Claim, RowGone, CommitRow, Refresh, Goto, WorkerFrame, rowVars, fileVars, memVars, clientVars, MemSound, Exists, Col, TicketSound, OwnTicket, Front, Active, PipelineStages
<1>5. CASE ConfirmClaim(w)
  BY <1>5, <1>1, <1>2 DEF ConfirmClaim, RowGone, CommitRow, Refresh, Goto, WorkerFrame, rowVars, fileVars, memVars, clientVars, CheckAt, MemSound, Exists, Col, TicketSound, OwnTicket, Front, Active, PipelineStages
<1>6. CASE FetchToFail(w)
  BY <1>6, <1>1, <1>2 DEF FetchToFail, RowGone, CommitRow, Refresh, Goto, WorkerFrame, rowVars, fileVars, memVars, clientVars, MemSound, Exists, Col, TicketSound, OwnTicket, Front, Active, PipelineStages
<1>7. CASE SimulateFailure(w)
  BY <1>7, <1>1, <1>2 DEF SimulateFailure, RowGone, CommitRow, Refresh, Goto, WorkerFrame, rowVars, fileVars, memVars, clientVars, MemSound, Exists, Col, TicketSound, OwnTicket, Front, Active, PipelineStages
<1>8. CASE CheckCancel(w)
  BY <1>8, <1>1, <1>2 DEF CheckCancel, RowGone, CommitRow, Refresh, Goto, WorkerFrame, rowVars, fileVars, memVars, clientVars, MemSound, Exists, Col, IsCancelled, IsPause, TicketSound, OwnTicket, Front, Active, PipelineStages
<1>9. CASE CheckPause(w)
  BY <1>9, <1>1, <1>2 DEF CheckPause, RowGone, CommitRow, Refresh, Goto, WorkerFrame, rowVars, fileVars, memVars, clientVars, AfterChecks, MemSound, Exists, Col, TicketSound, OwnTicket, Front, Active, PipelineStages
<1>10. CASE FinalizeCancellation(w)
  BY <1>10, <1>1, <1>2 DEF FinalizeCancellation, RowGone, CommitRow, Refresh, Goto, WorkerFrame, rowVars, fileVars, memVars, clientVars, Finish, MemSound, Exists, Col, TicketSound, OwnTicket, Front, Active, PipelineStages
<1>11. CASE FinalizePause(w)
  BY <1>11, <1>1, <1>2 DEF FinalizePause, RowGone, CommitRow, Refresh, Goto, WorkerFrame, rowVars, fileVars, memVars, clientVars, Finish, MemSound, Exists, Col, TicketSound, OwnTicket, Front, Active, PipelineStages
<1>12. CASE FailJob(w)
  BY <1>12, <1>1, <1>2 DEF FailJob, RowGone, CommitRow, Refresh, Goto, WorkerFrame, rowVars, fileVars, memVars, clientVars, Finish, MemSound, Exists, Col, TicketSound, OwnTicket, Front, Active, PipelineStages
<1>13. CASE LoadModel(w)
  BY <1>13, <1>1, <1>2 DEF LoadModel, RowGone, CommitRow, Refresh, Goto, WorkerFrame, rowVars, fileVars, memVars, clientVars, CheckAt, MemSound, Exists, Col, TicketSound, OwnTicket, Front, Active, PipelineStages
<1>14. CASE BeginTranscribing(w)
  BY <1>14, <1>1, <1>2 DEF BeginTranscribing, RowGone, CommitRow, Refresh, Goto, WorkerFrame, rowVars, fileVars, memVars, clientVars, CheckAt, MemSound, Exists, Col, TicketSound, OwnTicket, Front, Active, PipelineStages
<1>15. CASE OpenCheckpoint(w)
  BY <1>15, <1>1, <1>2 DEF OpenCheckpoint, RowGone, CommitRow, Refresh, Goto, WorkerFrame, rowVars, fileVars, memVars, clientVars, NextChunk, CheckAt, MemSound, Exists, Col, TicketSound, OwnTicket, Front, Active, PipelineStages
<1>16. CASE TranscribeChunk(w)
  BY <1>16, <1>1, <1>2 DEF TranscribeChunk, Recognised, RowGone, CommitRow, Refresh, Goto, WorkerFrame, rowVars, fileVars, memVars, clientVars, NextChunk, CheckAt, MemSound, Exists, Col, TicketSound, OwnTicket, Front, Active, PipelineStages
<1>17. CASE TranscribeWholeFile(w)
  BY <1>17, <1>1, <1>2 DEF TranscribeWholeFile, Recognised, RowGone, CommitRow, Refresh, Goto, WorkerFrame, rowVars, fileVars, memVars, clientVars, MemSound, Exists, Col, TicketSound, OwnTicket, Front, Active, PipelineStages
<1>18. CASE SkipDiarization(w)
  BY <1>18, <1>1, <1>2 DEF SkipDiarization, RowGone, CommitRow, Refresh, Goto, WorkerFrame, rowVars, fileVars, memVars, clientVars, CheckAt, MemSound, Exists, Col, TicketSound, OwnTicket, Front, Active, PipelineStages
<1>19. CASE BeginDiarization(w)
  BY <1>19, <1>1, <1>2 DEF BeginDiarization, RowGone, CommitRow, Refresh, Goto, WorkerFrame, rowVars, fileVars, memVars, clientVars, MemSound, Exists, Col, TicketSound, OwnTicket, Front, Active, PipelineStages
<1>20. CASE EndDiarization(w)
  BY <1>20, <1>1, <1>2 DEF EndDiarization, RowGone, CommitRow, Refresh, Goto, WorkerFrame, rowVars, fileVars, memVars, clientVars, CheckAt, MemSound, Exists, Col, TicketSound, OwnTicket, Front, Active, PipelineStages
<1>21. CASE BeginFinalizing(w)
  BY <1>21, <1>1, <1>2 DEF BeginFinalizing, RowGone, CommitRow, Refresh, Goto, WorkerFrame, rowVars, fileVars, memVars, clientVars, MemSound, Exists, Col, TicketSound, OwnTicket, Front, Active, PipelineStages
<1>22. CASE WriteTranscript(w)
  BY <1>22, <1>1, <1>2 DEF WriteTranscript, RowGone, CommitRow, Refresh, Goto, WorkerFrame, rowVars, fileVars, memVars, clientVars, MemSound, Exists, Col, TicketSound, OwnTicket, Front, Active, PipelineStages
<1>23. CASE CompleteJob(w)
  BY <1>23, <1>1, <1>2 DEF CompleteJob, RowGone, CommitRow, Refresh, Goto, WorkerFrame, rowVars, fileVars, memVars, clientVars, MemSound, Exists, Col, TicketSound, OwnTicket, Front, Active, PipelineStages
<1>24. CASE RemoveCheckpoint(w)
  BY <1>24, <1>1, <1>2 DEF RemoveCheckpoint, RowGone, CommitRow, Refresh, Goto, WorkerFrame, rowVars, fileVars, memVars, clientVars, MemSound, Exists, Col, TicketSound, OwnTicket, Front, Active, PipelineStages
<1>25. CASE Raise(w)
  BY <1>25, <1>1, <1>2 DEF Raise, RowGone, CommitRow, Refresh, Goto, WorkerFrame, rowVars, fileVars, memVars, clientVars, MemSound, Exists, Col, TicketSound, OwnTicket, Front, Active, PipelineStages
<1>26. CASE HandleError(w)
  BY <1>26, <1>1, <1>2 DEF HandleError, RowGone, CommitRow, Refresh, Goto, WorkerFrame, rowVars, fileVars, memVars, clientVars, MemSound, Exists, Col, IsCancelled, IsPause, TicketSound, OwnTicket, Front, Active, PipelineStages
<1>27. QED
  BY <1>3, <1>4, <1>5, <1>6, <1>7, <1>8, <1>9, <1>10, <1>11, <1>12, <1>13, <1>14, <1>15, <1>16, <1>17, <1>18, <1>19, <1>20, <1>21, <1>22, <1>23, <1>24, <1>25, <1>26 DEF WorkerStep, Dequeue

\* A held job has no entry and no handler about to enqueue it, so that it waits
\* exactly while its worker is before the claim.
LEMMA HeldWaits ==
    ASSUME IInv, Ticket, NEW w \in Workers, cur[w] # NoJob
    PROVE  Waiting(cur[w]) <=> pc[w] \in Front
<1>1. Held(cur[w])  BY DEF Held
<1>2. ~\E i \in 1..Len(queue) : queue[i].job = cur[w]
  BY <1>1 DEF Ticket, OneTicket
<1>3. ~\E c \in Clients : req[c].pc = "enqueue" /\ req[c].job = cur[w]
  BY <1>1 DEF Ticket, OneTicket
<1>4. \A v \in Workers : cur[v] = cur[w] => v = w
  BY DEF IInv, Exclusive, OneWorkerPerJob
<1>5. QED  BY <1>2, <1>3, <1>4 DEF Waiting, Front

\* Every entry of the queue names a job.
LEMMA QueuedJobs == TInv => \A i \in 1..Len(queue) : queue[i].job \in Jobs
<1> DEFINE Entry == [job : Jobs, fail : BOOLEAN]
<1> SUFFICES ASSUME TInv, NEW i \in 1..Len(queue) PROVE queue[i].job \in Jobs
  OBVIOUS
<1>1. queue \in Seq(Entry)  BY DEF TInv, TypeOK
<1> HIDE DEF Entry
<1>2. queue[i] \in Entry  BY <1>1, ElementOfSeq
<1>3. QED  BY <1>2 DEF Entry

\* A step of the pipeline preserves Ticket.
LEMMA TicketPipeline ==
    ASSUME IInv, IInv', Ticket, NEW w \in Workers, WorkerStep(w), pc[w] # "idle", ~Release(w)
    PROVE  Ticket'
<1>1. OwnTicket(w)  BY PipelineTicket
<1>2. Local(w)  BY PipelineLocal
<1>3. cur[w] \in Jobs /\ cur[w] # NoJob /\ up /\ up'
  BY <1>2, ConstantsAssumption DEF IInv, TInv, TypeOK, HeldJob, Ticket, Local
<1> PICK h \in Jobs : h = cur[w]  BY <1>3
<1>4. \A j \in Jobs : Held(j)' <=> Held(j)
  BY <1>2 DEF Held, Local
<1>5. \A j \in Jobs \ {h} : Waiting(j)' <=> Waiting(j)
  BY <1>1, <1>2 DEF Waiting, OwnTicket, Local
<1>6. Waiting(h)' <=> pc'[w] \in Front
  <2>1. Held(cur[w])  BY DEF Held
  <2>2. ~\E i \in 1..Len(queue) : queue[i].job = cur[w]
    BY <2>1 DEF Ticket, OneTicket
  <2>3. ~\E c \in Clients : req[c].pc = "enqueue" /\ req[c].job = cur[w]
    BY <2>1 DEF Ticket, OneTicket
  <2>4. \A v \in Workers : cur[v] = cur[w] => v = w
    BY <1>3 DEF IInv, Exclusive, OneWorkerPerJob
  <2>5. QED  BY <1>1, <1>2, <2>2, <2>3, <2>4 DEF Waiting, Front, OwnTicket, Local
<1>7. Waiting(h) <=> pc[w] \in Front  BY <1>3, HeldWaits
<1>8. running' = running /\ queue' = queue /\ req' = req  BY <1>1, <1>2 DEF OwnTicket, Local
<1>9. OneTicket'
  <2>1. \A i \in 1..Len(queue) : queue[i].job \in Jobs
    BY QueuedJobs DEF IInv
  <2>2. \A c \in Clients : req[c].pc = "enqueue" => req[c].job \in Jobs
    BY DEF IInv, TInv, ReqJob
  <2>3. running \subseteq Jobs  BY DEF IInv, TInv, TypeOK
  <2>4. QED  BY <1>4, <1>8, <2>1, <2>2, <2>3 DEF Ticket, OneTicket, NoDuplicateEntries
<1>10. ASSUME NEW c \in Clients PROVE ReqSound(c)'
  <2>1. ReqSound(c)  BY DEF Ticket
  <2>2. CASE req[c].pc # "commit"  BY <1>8, <2>2 DEF ReqSound
  <2>3. CASE req[c].pc = "commit"
    <3>1. PICK r \in Jobs : r = req[c].job  BY <2>3 DEF IInv, TInv, ReqJob
    <3>2. Waiting(r)' => Waiting(r)
      BY <1>1, <1>5, <1>6, <1>7 DEF OwnTicket
    <3>3. status'[r] = "unborn" => status[r] = "unborn"
      BY <1>1, <1>2 DEF OwnTicket, Local
    <3>4. (ReqSound(c))' <=>
            (req[c].pc = "commit" =>
               /\ req[c].op \in {"cancel", "restart", "delete"}
               /\ status'[r] # "unborn"
               /\ req[c].op = "cancel" => req[c].st \notin Terminal
               /\ Waiting(r)' => req[c].st \in {"queued", "cancelled"})
      BY <1>8, <3>1 DEF ReqSound
    <3>5. QED  BY <2>1, <3>1, <3>2, <3>3, <3>4 DEF ReqSound
  <2>4. QED  BY <2>2, <2>3
<1>11. ASSUME NEW v \in Workers PROVE TicketSound(v)' /\ (pc'[v] # "idle" => up')
  <2>1. CASE v = w  BY <1>1, <1>3, <2>1 DEF OwnTicket
  <2>2. CASE v # w
    <3>1. TicketSound(v)  BY DEF Ticket
    <3>2. cur[v] # cur[w] /\ cur[v] \in Jobs \cup {NoJob}
      BY <1>3, <2>2 DEF IInv, TInv, TypeOK, Exclusive, OneWorkerPerJob
    <3>3. /\ pc'[v] = pc[v] /\ cur'[v] = cur[v]
          /\ memStatus'[v] = memStatus[v] /\ memStage'[v] = memStage[v]
          /\ cur[v] # NoJob => rows'[cur[v]] = rows[cur[v]]
      BY <1>1, <1>2, <2>2, <3>2 DEF OwnTicket, Local
    <3>4. QED  BY <1>3, <3>1, <3>3 DEF TicketSound
  <2>3. QED  BY <2>1, <2>2
<1>12. ASSUME NEW j \in Jobs PROVE LifeSound(j)'
  <2>1. LifeSound(j)  BY DEF Ticket
  <2>2. CASE j = h
    <3>1. Held(j)  BY <2>2 DEF Held
    <3>2. status[j] # "unborn"  BY <2>1, <3>1 DEF LifeSound
    <3>3. QED  BY <1>1, <1>3, <1>6, <1>7, <2>1, <2>2, <3>2 DEF LifeSound, OwnTicket
  <2>3. CASE j # h
    <3>1. status'[j] = status[j] /\ stage'[j] = stage[j] /\ rows'[j] = rows[j]
      BY <1>1, <1>2, <2>3 DEF OwnTicket, Local
    <3>2. QED  BY <1>3, <1>4, <1>5, <2>1, <2>3, <3>1 DEF LifeSound
  <2>4. QED  BY <2>2, <2>3
<1>13. QED  BY <1>9, <1>10, <1>11, <1>12 DEF Ticket

\* Taking an entry moves its ticket from the queue to the worker: nothing is
\* dropped, because the job of an entry is not running.
LEMMA TicketDequeue ==
    ASSUME IInv, IInv', Ticket, NEW w \in Workers, Dequeue(w)
    PROVE  Ticket'
<1> DEFINE Entry == [job : Jobs, fail : BOOLEAN]
<1>1. queue \in Seq(Entry) /\ queue # <<>>  BY DEF Dequeue, IInv, TInv, TypeOK
<1>2. /\ Len(queue) \in Nat \ {0} /\ Len(Tail(queue)) = Len(queue) - 1
      /\ Head(queue) = queue[1]
      /\ \A i \in 1..Len(Tail(queue)) : Tail(queue)[i] = queue[i + 1]
  <2> HIDE DEF Entry
  <2>1. Len(queue) \in Nat /\ (Len(queue) = 0 => queue = <<>>)  BY <1>1, EmptySeq, LenProperties
  <2>2. QED  BY <1>1, <2>1, HeadTailProperties
<1>3. \A i \in 1..Len(queue) : queue[i].job \in Jobs  BY QueuedJobs DEF IInv
<1> PICK j \in Jobs : j = queue[1].job  BY <1>2, <1>3
<1>4. ~Held(j) /\ j \notin running  BY <1>2 DEF Ticket, OneTicket
<1>5. Waiting(j)  BY <1>2 DEF Waiting
<1>6. /\ up /\ up' /\ pc[w] = "idle" /\ cur[w] = NoJob /\ j # NoJob
      /\ running' = running \cup {j}
      /\ queue' = Tail(queue)
      /\ UNCHANGED <<status, stage, rows, req, memStatus, memStage>>
      /\ cur'[w] = j /\ pc'[w] \in {"fetch", "sim_fetch"}
      /\ \A v \in Workers \ {w} : cur'[v] = cur[v] /\ pc'[v] = pc[v]
  <2>1. j # NoJob  BY ConstantsAssumption
  <2>2. QED
    BY <1>2, <1>4, <2>1 DEF Dequeue, AlreadyRunning, Goto, WorkerFrame, clientVars, rowVars,
       fileVars, memVars, IInv, TInv, TypeOK, HeldJob
<1>7. \A i \in Jobs : Held(i)' <=> Held(i) \/ i = j
  BY <1>6, ConstantsAssumption DEF Held
<1>8. \A i \in 1..Len(queue') : i + 1 \in 1..Len(queue) /\ i + 1 # 1 /\ queue'[i] = queue[i + 1]
  BY <1>2, <1>6
<1>9. \A i \in Jobs : Waiting(i)' <=> Waiting(i)
  <2> SUFFICES ASSUME NEW i \in Jobs PROVE Waiting(i)' <=> Waiting(i)  OBVIOUS
  <2>1. CASE i = j  BY <1>5, <1>6, <2>1 DEF Waiting
  <2>2. CASE i # j
    <3>1. (\E k \in 1..Len(queue') : queue'[k].job = i) <=> (\E k \in 1..Len(queue) : queue[k].job = i)
      <4>1. ASSUME NEW k \in 1..Len(queue), queue[k].job = i
            PROVE  \E l \in 1..Len(queue') : queue'[l].job = i
        <5>1. k # 1 /\ k - 1 \in 1..Len(queue')  BY <1>2, <1>6, <2>2, <4>1
        <5>2. queue'[k - 1] = queue[k]  BY <1>2, <1>6, <5>1
        <5>3. QED  BY <4>1, <5>1, <5>2
      <4>2. QED  BY <1>8, <4>1
    <3>2. QED  BY <1>6, <2>2, <3>1 DEF Waiting
  <2>3. QED  BY <2>1, <2>2
<1>10. OneTicket'
  <2>1. NoDuplicateEntries'
    BY <1>8 DEF NoDuplicateEntries, Ticket, OneTicket
  <2>2. \A i \in 1..Len(queue') : queue'[i].job \in Jobs /\ queue'[i].job # j /\ ~Held(queue'[i].job)
    BY <1>2, <1>3, <1>8 DEF NoDuplicateEntries, Ticket, OneTicket
  <2>3. ASSUME NEW c \in Clients, req[c].pc = "enqueue"
        PROVE  /\ \A d \in Clients \ {c} : req[d].pc = "enqueue" => req[d].job # req[c].job
               /\ \A i \in 1..Len(queue') : queue'[i].job # req[c].job
               /\ req[c].job \in Jobs /\ req[c].job # j /\ ~Held(req[c].job)
    BY <1>2, <1>8, <2>3 DEF Ticket, OneTicket, IInv, TInv, ReqJob
  <2>4. ASSUME NEW i \in 1..Len(queue') PROVE ~Held(queue[i].job)'
    <3>1. PICK x \in Jobs : x = queue'[i].job  BY <2>2
    <3>2. ~Held(x)'  BY <1>7, <2>2, <3>1
    <3>3. QED  BY <3>1, <3>2 DEF Held
  <2>5. ASSUME NEW c \in Clients, req'[c].pc = "enqueue" PROVE ~Held(req[c].job)'
    <3>1. PICK x \in Jobs : x = req[c].job  BY <1>6, <2>3, <2>5
    <3>2. ~Held(x)'  BY <1>6, <1>7, <2>3, <2>5, <3>1
    <3>3. QED  BY <1>6, <3>1, <3>2 DEF Held
  <2>6. \A i \in running' : Held(i)'
    BY <1>6, <1>7 DEF Ticket, OneTicket, IInv, TInv, TypeOK
  <2>7. QED  BY <1>6, <2>1, <2>3, <2>4, <2>5, <2>6 DEF OneTicket
<1>11. ASSUME NEW c \in Clients PROVE ReqSound(c)'
  <2>1. ReqSound(c)  BY DEF Ticket
  <2>2. CASE req[c].pc # "commit"  BY <1>6, <2>2 DEF ReqSound
  <2>3. CASE req[c].pc = "commit"
    <3>1. PICK x \in Jobs : x = req[c].job  BY <2>3 DEF IInv, TInv, ReqJob
    <3>2. QED  BY <1>6, <1>9, <2>1, <3>1 DEF ReqSound, Waiting
  <2>4. QED  BY <2>2, <2>3
<1>12. ASSUME NEW v \in Workers PROVE TicketSound(v)' /\ (pc'[v] # "idle" => up')
  <2>1. TicketSound(v)  BY DEF Ticket
  <2>2. rows[j] = 0  BY <1>5 DEF Ticket, LifeSound
  <2>3. QED  BY <1>6, <2>1, <2>2 DEF TicketSound
<1>13. ASSUME NEW i \in Jobs PROVE LifeSound(i)'
  <2>1. LifeSound(i) /\ LifeSound(j)  BY DEF Ticket
  <2>2. QED  BY <1>5, <1>6, <1>7, <1>9, <2>1 DEF LifeSound
<1>14. QED  BY <1>10, <1>11, <1>12, <1>13 DEF Ticket

\* A release ends the ticket: nothing of the job is left to run again.
LEMMA TicketRelease ==
    ASSUME IInv, IInv', Ticket, NEW w \in Workers, Release(w)
    PROVE  Ticket'
<1>1. /\ pc[w] = "release" /\ cur'[w] = NoJob /\ pc'[w] = "idle"
      /\ UNCHANGED <<up, status, stage, rows, req, queue>>
      /\ running' = running \ {cur[w]}
      /\ \A v \in Workers \ {w} : /\ cur'[v] = cur[v] /\ pc'[v] = pc[v]
                                  /\ memStatus'[v] = memStatus[v] /\ memStage'[v] = memStage[v]
  BY DEF Release, Goto, WorkerFrame, clientVars, rowVars, fileVars, IInv, TInv, TypeOK
<1>2. PICK h \in Jobs : h = cur[w] /\ h # NoJob
  BY <1>1, ConstantsAssumption DEF IInv, TInv, HeldJob, TypeOK
<1>3. \A i \in Jobs : /\ Held(i)' => Held(i)
                      /\ Held(i) /\ i # h => Held(i)'
  BY <1>1, <1>2, ConstantsAssumption DEF Held
<1>4. \A i \in Jobs : Waiting(i)' <=> Waiting(i)
  BY <1>1 DEF Waiting
<1>5. \A i \in 1..Len(queue) : queue[i].job \in Jobs  BY QueuedJobs DEF IInv
<1>6. OneTicket'
  <2>1. NoDuplicateEntries'  BY <1>1 DEF NoDuplicateEntries, Ticket, OneTicket
  <2>2. ASSUME NEW i \in 1..Len(queue') PROVE ~Held(queue[i].job)'
    <3>1. PICK x \in Jobs : x = queue[i].job  BY <1>1, <1>5
    <3>2. ~Held(x)'  BY <1>1, <1>3, <3>1 DEF Ticket, OneTicket
    <3>3. QED  BY <1>1, <3>1, <3>2 DEF Held
  <2>3. ASSUME NEW c \in Clients, req'[c].pc = "enqueue" PROVE ~Held(req[c].job)'
    <3>1. PICK x \in Jobs : x = req[c].job  BY <1>1, <2>3 DEF IInv, TInv, ReqJob
    <3>2. ~Held(x)'  BY <1>1, <1>3, <2>3, <3>1 DEF Ticket, OneTicket
    <3>3. QED  BY <1>1, <3>1, <3>2 DEF Held
  <2>4. \A i \in running' : Held(i)'
    BY <1>1, <1>2, <1>3 DEF Ticket, OneTicket, IInv, TInv, TypeOK
  <2>5. QED  BY <1>1, <2>1, <2>2, <2>3, <2>4 DEF Ticket, OneTicket
<1>7. ASSUME NEW c \in Clients PROVE ReqSound(c)'
  <2>1. ReqSound(c)  BY DEF Ticket
  <2>2. CASE req[c].pc # "commit"  BY <1>1, <2>2 DEF ReqSound
  <2>3. CASE req[c].pc = "commit"
    <3>1. PICK x \in Jobs : x = req[c].job  BY <2>3 DEF IInv, TInv, ReqJob
    <3>2. QED  BY <1>1, <1>4, <2>1, <3>1 DEF ReqSound, Waiting
  <2>4. QED  BY <2>2, <2>3
<1>8. ASSUME NEW v \in Workers PROVE TicketSound(v)' /\ (pc'[v] # "idle" => up')
  BY <1>1 DEF Ticket, TicketSound
<1>9. ASSUME NEW i \in Jobs PROVE LifeSound(i)'
  <2>1. LifeSound(i)  BY DEF Ticket
  <2>2. QED  BY <1>1, <1>3, <1>4, <2>1 DEF LifeSound
<1>10. QED  BY <1>6, <1>7, <1>8, <1>9 DEF Ticket

\* A job that comes into being gets its one ticket, in the handler that made it.
LEMMA TicketBorn ==
    ASSUME IInv, IInv', Ticket, NEW c \in Clients, NEW j \in Jobs,
           status[j] = "unborn", status' = [status EXCEPT ![j] = "queued"],
           UNCHANGED <<up, stage, rows, queue, running, pc, cur, memStatus, memStage>>,
           req[c].pc # "enqueue", req'[c].pc = "enqueue", req'[c].job = j,
           \A d \in Clients \ {c} : req'[d] = req[d]
    PROVE  Ticket'
<1>1. ~Waiting(j) /\ ~Held(j) /\ stage[j] = "none" /\ rows[j] = 0
  BY DEF Ticket, LifeSound
<1>2. status'[j] = "queued" /\ \A i \in Jobs \ {j} : status'[i] = status[i]
  BY DEF IInv, TInv, TypeOK
<1>3. \A i \in Jobs : Held(i)' <=> Held(i)  BY DEF Held
<1>4. \A i \in Jobs : Waiting(i)' <=> Waiting(i) \/ i = j
  BY DEF Waiting
<1>5. OneTicket'
  <2>1. \A i \in 1..Len(queue) : queue[i].job # j  BY <1>1 DEF Waiting
  <2>2. \A d \in Clients : req[d].pc = "enqueue" => req[d].job # j  BY <1>1 DEF Waiting
  <2>3. NoDuplicateEntries'  BY DEF NoDuplicateEntries, Ticket, OneTicket
  <2>4. ASSUME NEW i \in 1..Len(queue') PROVE ~Held(queue[i].job)'
    BY DEF Ticket, OneTicket, Held
  <2>5. ASSUME NEW d \in Clients, req'[d].pc = "enqueue" PROVE ~Held(req[d].job)'
    <3>1. CASE d = c  BY <1>1, <3>1 DEF Held
    <3>2. CASE d # c  BY <2>5, <3>2 DEF Ticket, OneTicket, Held
    <3>3. QED  BY <3>1, <3>2
  <2>6. \A i \in running' : Held(i)'
    BY <1>3 DEF Ticket, OneTicket, IInv, TInv, TypeOK
  <2>7. QED  BY <2>1, <2>2, <2>3, <2>4, <2>5, <2>6 DEF Ticket, OneTicket
<1>6. ASSUME NEW d \in Clients PROVE ReqSound(d)'
  <2>1. CASE req'[d].pc # "commit"  BY <2>1 DEF ReqSound
  <2>2. CASE req'[d].pc = "commit"
    <3>1. d # c /\ ReqSound(d) /\ req[d].pc = "commit"  BY <2>2 DEF Ticket
    <3>2. PICK x \in Jobs : x = req[d].job  BY <3>1 DEF IInv, TInv, ReqJob
    <3>3. x # j  BY <3>1, <3>2 DEF ReqSound
    <3>4. QED  BY <1>2, <1>4, <3>1, <3>2, <3>3 DEF ReqSound, Waiting
  <2>3. QED  BY <2>1, <2>2
<1>7. ASSUME NEW v \in Workers PROVE TicketSound(v)' /\ (pc'[v] # "idle" => up')
  BY DEF Ticket, TicketSound
<1>8. ASSUME NEW i \in Jobs PROVE LifeSound(i)'
  <2>1. LifeSound(i)  BY DEF Ticket
  <2>2. QED  BY <1>1, <1>2, <1>3, <1>4, <2>1 DEF LifeSound
<1>9. QED  BY <1>5, <1>6, <1>7, <1>8 DEF Ticket

\* A step of a handler that neither gives nor takes a ticket.
LEMMA TicketKept ==
    ASSUME IInv, IInv', Ticket, NEW c \in Clients,
           UNCHANGED <<up, queue, running, pc, cur, memStatus, memStage>>,
           req[c].pc # "enqueue", req'[c].pc # "enqueue",
           \A d \in Clients \ {c} : req'[d] = req[d],
           ReqSound(c)',
           \A i \in Jobs :
              /\ status'[i] = "unborn" <=> status[i] = "unborn"
              /\ status'[i] \in {"queued", "processing"} => status'[i] = status[i]
              /\ Waiting(i) => status'[i] \in {"queued", "cancelled", "deleted"}
              /\ stage'[i] = stage[i] \/ stage'[i] = "none"
                   \/ (~Waiting(i) /\ status[i] # "unborn")
              /\ status'[i] = "processing" => stage'[i] = stage[i]
              /\ rows'[i] = rows[i] \/ rows'[i] = 0
    PROVE  Ticket'
<1>1. \A i \in Jobs : Held(i)' <=> Held(i)  BY DEF Held
<1>2. \A i \in Jobs : Waiting(i)' <=> Waiting(i)  BY DEF Waiting
<1>3. OneTicket'
  <2>1. NoDuplicateEntries'  BY DEF NoDuplicateEntries, Ticket, OneTicket
  <2>2. ASSUME NEW i \in 1..Len(queue') PROVE ~Held(queue[i].job)'
    BY DEF Ticket, OneTicket, Held
  <2>3. ASSUME NEW d \in Clients, req'[d].pc = "enqueue" PROVE ~Held(req[d].job)'
    BY <2>3 DEF Ticket, OneTicket, Held
  <2>4. \A i \in running' : Held(i)'
    BY <1>1 DEF Ticket, OneTicket, IInv, TInv, TypeOK
  <2>5. QED  BY <2>1, <2>2, <2>3, <2>4 DEF Ticket, OneTicket
<1>4. ASSUME NEW d \in Clients PROVE ReqSound(d)'
  <2>1. CASE d = c  BY <2>1
  <2>2. CASE d # c /\ req[d].pc # "commit"  BY <2>2 DEF ReqSound
  <2>3. CASE d # c /\ req[d].pc = "commit"
    <3>1. ReqSound(d)  BY DEF Ticket
    <3>2. PICK x \in Jobs : x = req[d].job  BY <2>3 DEF IInv, TInv, ReqJob
    <3>3. QED  BY <1>2, <2>3, <3>1, <3>2 DEF ReqSound, Waiting
  <2>4. QED  BY <2>1, <2>2, <2>3
<1>5. ASSUME NEW v \in Workers PROVE TicketSound(v)' /\ (pc'[v] # "idle" => up')
  <2>1. TicketSound(v)  BY DEF Ticket
  <2>2. cur[v] \in Jobs \cup {NoJob}  BY DEF IInv, TInv, TypeOK
  <2>3. QED  BY <2>1, <2>2 DEF Ticket, TicketSound
<1>6. ASSUME NEW i \in Jobs PROVE LifeSound(i)'
  <2>1. LifeSound(i)  BY DEF Ticket
  <2>2. QED  BY <1>1, <1>2, <2>1 DEF LifeSound
<1>7. QED  BY <1>3, <1>4, <1>5, <1>6 DEF Ticket

\* Accepting a request preserves Ticket.
LEMMA TicketAccepting ==
    ASSUME NoPauses, IInv, IInv', Ticket, NEW c \in Clients, Accepting(c)
    PROVE  Ticket'
<1>1. CASE \E j \in Jobs, f \in FailFlags : CreateJob(c, j, f)
  <2>1. PICK j \in Jobs, f \in FailFlags : CreateJob(c, j, f)  BY <1>1
  <2>2. /\ status[j] = "unborn" /\ status' = [status EXCEPT ![j] = "queued"]
        /\ UNCHANGED <<up, stage, rows, queue, running, pc, cur, memStatus, memStage>>
    BY <2>1 DEF CreateJob, ClientFrame, localVars, memVars
  <2>3. /\ req[c].pc # "enqueue" /\ req'[c].pc = "enqueue" /\ req'[c].job = j
        /\ \A d \in Clients \ {c} : req'[d] = req[d]
    BY <2>1 DEF CreateJob, Accept, FreeSlot, IInv, TInv, TypeOK
  <2>4. QED  BY <2>2, <2>3, TicketBorn
<1>2. CASE \E op \in Ops, j \in Jobs : BeginRequest(c, op, j)
  <2>1. PICK op \in Ops, j \in Jobs : BeginRequest(c, op, j)  BY <1>2
  <2>2. UNCHANGED <<up, status, stage, rows, queue, running, pc, cur, memStatus, memStage>>
    BY <2>1 DEF BeginRequest, ClientFrame, localVars, memVars, rowVars
  <2>3. /\ req[c].pc # "enqueue"
        /\ req'[c].pc = "commit" /\ req'[c].op = op /\ req'[c].job = j /\ req'[c].st = status[j]
        /\ \A d \in Clients \ {c} : req'[d] = req[d]
    BY <2>1 DEF BeginRequest, Accept, FreeSlot, IInv, TInv, TypeOK
  <2>4. /\ op \in {"cancel", "restart", "delete"} /\ status[j] \notin {"unborn", "deleted"}
        /\ op = "cancel" => status[j] \notin Terminal
    BY <2>1, ConstantsAssumption DEF BeginRequest, Admits, Exists, NoPauses
  <2>5. Waiting(j)' => status[j] \in {"queued", "cancelled"}
    <3>1. Waiting(j)' => Waiting(j)  BY <2>2, <2>3 DEF Waiting
    <3>2. QED  BY <2>4, <3>1 DEF Ticket, LifeSound
  <2>6. ReqSound(c)'  BY <2>2, <2>3, <2>4, <2>5 DEF ReqSound, Waiting
  <2>7. \A i \in Jobs : Waiting(i) => status[i] \in {"queued", "cancelled", "deleted"}
    BY DEF Ticket, LifeSound
  <2>8. QED  BY <2>2, <2>3, <2>6, <2>7, TicketKept
<1>3. QED  BY <1>1, <1>2 DEF Accepting

\* A handler that ends frees its slot.
LEMMA EndRequestFrees ==
    ASSUME TypeOK, NEW c \in Clients, EndRequest(c)
    PROVE  /\ req'[c].pc = "free"
           /\ \A d \in Clients \ {c} : req'[d] = req[d]
BY DEF EndRequest, FreeSlot, TypeOK

\* The commit of a cancel leaves a waiting job cancelled with no stage.
LEMMA TicketCancel ==
    ASSUME IInv, IInv', Ticket, NEW c \in Clients, CommitRequest(c)
    PROVE  Ticket'
<1> DEFINE r == req[c]
<1>1. /\ r.pc = "commit" /\ r.op = "cancel" /\ r.st \notin Terminal
      /\ UNCHANGED <<up, rows, queue, running, pc, cur, memStatus, memStage>>
      /\ ReqSound(c)
  BY DEF CommitRequest, ClientFrame, localVars, memVars, Ticket, ReqSound
<1>2. EndRequest(c)  BY <1>1 DEF CommitRequest
<1>3. req'[c].pc = "free" /\ \A d \in Clients \ {c} : req'[d] = req[d]
  BY <1>2, EndRequestFrees DEF IInv, TInv
<1>4. ReqSound(c)'  BY <1>3 DEF ReqSound
<1>5. \A i \in Jobs : LifeSound(i)  BY DEF Ticket
<1>6. CASE UNCHANGED rowVars
  BY <1>1, <1>3, <1>4, <1>5, <1>6, TicketKept DEF rowVars, LifeSound
<1>7. CASE /\ Exists(r.job)
           /\ status' = [status EXCEPT ![r.job] = Col(r.st, NewStatus(r.op, r.st), @)]
           /\ stage' = [stage EXCEPT ![r.job] = Col(r.sg, NewStage(r.op, r.st), @)]
  <2>1. PICK j \in Jobs : j = r.job  BY <1>1 DEF IInv, TInv, ReqJob
  <2>2. \A i \in Jobs \ {j} : status'[i] = status[i] /\ stage'[i] = stage[i]
    BY <1>7, <2>1 DEF IInv, TInv, TypeOK
  <2>3. status'[j] = NewStatus("cancel", r.st) /\ status'[j] \in {"cancelled", "cancelling"}
    BY <1>1, <1>7, <2>1 DEF IInv, TInv, TypeOK, Col, NewStatus, Terminal
  <2>4. Waiting(j) => r.st = "queued"  BY <1>1, <2>1 DEF ReqSound, Terminal
  <2>5. r.st = "queued" => NewStatus("cancel", r.st) = "cancelled" /\ NewStage("cancel", r.st) = "none"
    BY DEF NewStage, NewStatus
  <2>6. Waiting(j) => status'[j] = "cancelled" /\ (stage'[j] = stage[j] \/ stage'[j] = "none")
    BY <1>1, <1>7, <2>1, <2>3, <2>4, <2>5 DEF IInv, TInv, TypeOK, Col
  <2>7. status[j] # "unborn" /\ status'[j] \notin {"unborn", "queued", "processing"}
    BY <1>7, <2>1, <2>3 DEF Exists
  <2>8. QED
    BY <1>1, <1>3, <1>4, <1>5, <2>2, <2>6, <2>7, TicketKept DEF LifeSound
<1>8. QED  BY <1>6, <1>7 DEF CommitRequest

\* The commit of a deletion, also of a waiting job that was cancelled.
LEMMA TicketDelete ==
    ASSUME IInv, IInv', Ticket, NEW c \in Clients, CommitDelete(c)
    PROVE  Ticket'
<1>1. /\ req[c].pc = "commit"
      /\ UNCHANGED <<up, queue, running, pc, cur, memStatus, memStage>>
      /\ ReqSound(c)
  BY DEF CommitDelete, ClientFrame, localVars, memVars, Ticket
<1>2. req'[c].pc = "free" /\ \A d \in Clients \ {c} : req'[d] = req[d]
  BY EndRequestFrees DEF CommitDelete, IInv, TInv
<1>3. ReqSound(c)'  BY <1>2 DEF ReqSound
<1>4. PICK j \in Jobs : j = req[c].job  BY <1>1 DEF IInv, TInv, ReqJob
<1>5. /\ status'[j] = "deleted" /\ stage'[j] = "none" /\ rows'[j] = 0 /\ status[j] # "unborn"
      /\ \A i \in Jobs \ {j} : status'[i] = status[i] /\ stage'[i] = stage[i] /\ rows'[i] = rows[i]
  BY <1>1, <1>4 DEF CommitDelete, ReqSound, IInv, TInv, TypeOK
<1>6. \A i \in Jobs : LifeSound(i)  BY DEF Ticket
<1>7. QED  BY <1>1, <1>2, <1>3, <1>5, <1>6, TicketKept DEF LifeSound

\* Enqueueing moves the ticket of a job from the handler to the queue, where no
\* entry of the job is; for a deleted job it is thrown away.
LEMMA TicketEnqueue ==
    ASSUME IInv, IInv', Ticket, NEW c \in Clients, Enqueue(c)
    PROVE  Ticket'
<1> DEFINE Entry == [job : Jobs, fail : BOOLEAN]
           e == [job |-> req[c].job, fail |-> req[c].fail]
<1>1. /\ req[c].pc = "enqueue"
      /\ UNCHANGED <<up, status, stage, rows, running, pc, cur, memStatus, memStage>>
  BY DEF Enqueue, ClientFrame, localVars, memVars, rowVars
<1>2. req'[c].pc = "free" /\ \A d \in Clients \ {c} : req'[d] = req[d]
  BY EndRequestFrees DEF Enqueue, IInv, TInv
<1>3. PICK j \in Jobs : j = req[c].job  BY <1>1 DEF IInv, TInv, ReqJob
<1>4. /\ ~Held(j) /\ j \notin running
      /\ \A i \in 1..Len(queue) : queue[i].job # j
      /\ \A d \in Clients \ {c} : req[d].pc = "enqueue" => req[d].job # j
  BY <1>1, <1>3 DEF Ticket, OneTicket
<1>5. Waiting(j)  BY <1>1, <1>3 DEF Waiting
<1>6. \A i \in Jobs : Held(i)' <=> Held(i)  BY <1>1 DEF Held
<1>7. /\ Len(queue) \in Nat
      /\ \/ queue' = queue /\ ~Exists(j)
         \/ /\ Len(queue') = Len(queue) + 1
            /\ queue'[Len(queue) + 1].job = j
            /\ \A i \in 1..Len(queue) : queue'[i] = queue[i]
  <2>1. queue \in Seq(Entry) /\ e \in Entry
    BY <1>1, <1>3 DEF IInv, TInv, TypeOK, Request
  <2>2. (queue' = queue /\ ~Exists(j)) \/ queue' = Append(queue, e)
    BY <1>3, <1>4 DEF Enqueue, AlreadyRunning
  <2>3. e.job = j  BY <1>3
  <2> HIDE DEF Entry, e
  <2>4. /\ Len(queue) \in Nat
        /\ Len(Append(queue, e)) = Len(queue) + 1
        /\ Append(queue, e)[Len(queue) + 1] = e
        /\ \A i \in 1..Len(queue) : Append(queue, e)[i] = queue[i]
    BY <2>1, AppendProperties, LenProperties
  <2>5. QED  BY <2>2, <2>3, <2>4
<1>8. \A i \in Jobs \ {j} : Waiting(i)' <=> Waiting(i)
  <2> SUFFICES ASSUME NEW i \in Jobs \ {j} PROVE Waiting(i)' <=> Waiting(i)  OBVIOUS
  <2>1. (\E k \in 1..Len(queue') : queue'[k].job = i) <=> (\E k \in 1..Len(queue) : queue[k].job = i)
    BY <1>7
  <2>2. (\E d \in Clients : req'[d].pc = "enqueue" /\ req'[d].job = i)
          <=> (\E d \in Clients : req[d].pc = "enqueue" /\ req[d].job = i)
    BY <1>2, <1>3
  <2>3. QED  BY <1>1, <2>1, <2>2 DEF Waiting
<1>9. Exists(j) => Waiting(j)'
  BY <1>7 DEF Waiting
<1>10. OneTicket'
  <2>1. \A i \in 1..Len(queue) : queue[i].job \in Jobs  BY QueuedJobs DEF IInv
  <2>2. \A i \in 1..Len(queue') : queue'[i].job = j \/ (i \in 1..Len(queue) /\ queue'[i] = queue[i])
    BY <1>7
  <2>3. NoDuplicateEntries'
    BY <1>4, <1>7 DEF NoDuplicateEntries, Ticket, OneTicket
  <2>4. ASSUME NEW i \in 1..Len(queue') PROVE ~Held(queue[i].job)'
    BY <1>1, <1>4, <2>2 DEF Ticket, OneTicket, Held
  <2>5. ASSUME NEW d \in Clients, req'[d].pc = "enqueue"
        PROVE  ~Held(req[d].job)' /\ \A i \in 1..Len(queue') : queue'[i].job # req'[d].job
    <3>1. d # c /\ req'[d] = req[d]  BY <1>2, <2>5
    <3>2. QED  BY <1>1, <1>4, <2>2, <2>5, <3>1 DEF Ticket, OneTicket, Held
  <2>6. \A i \in running' : Held(i)'
    BY <1>1, <1>6 DEF Ticket, OneTicket, IInv, TInv, TypeOK
  <2>7. QED  BY <1>2, <2>3, <2>4, <2>5, <2>6 DEF Ticket, OneTicket
<1>11. Waiting(j) /\ \A i \in Jobs : Waiting(i)' => Waiting(i)
  BY <1>5, <1>8
<1>12. ASSUME NEW d \in Clients PROVE ReqSound(d)'
  <2>1. CASE req'[d].pc # "commit"  BY <2>1 DEF ReqSound
  <2>2. CASE req'[d].pc = "commit"
    <3>1. d # c /\ ReqSound(d) /\ req[d].pc = "commit" /\ req'[d] = req[d]
      BY <1>2, <2>2 DEF Ticket
    <3>2. PICK x \in Jobs : x = req[d].job  BY <3>1 DEF IInv, TInv, ReqJob
    <3>3. Waiting(x)' => Waiting(x)  BY <1>11
    <3>4. (ReqSound(d))' <=>
            (/\ req[d].op \in {"cancel", "restart", "delete"}
             /\ status'[x] # "unborn"
             /\ req[d].op = "cancel" => req[d].st \notin Terminal
             /\ Waiting(x)' => req[d].st \in {"queued", "cancelled"})
      BY <3>1, <3>2 DEF ReqSound
    <3>5. QED  BY <1>1, <3>1, <3>2, <3>3, <3>4 DEF ReqSound
  <2>3. QED  BY <2>1, <2>2
<1>13. ASSUME NEW v \in Workers PROVE TicketSound(v)' /\ (pc'[v] # "idle" => up')
  BY <1>1 DEF Ticket, TicketSound
<1>14. ASSUME NEW i \in Jobs PROVE LifeSound(i)'
  <2>1. LifeSound(i)  BY DEF Ticket
  <2>2. CASE i = j  BY <1>1, <1>5, <1>6, <1>9, <2>1, <2>2 DEF LifeSound, Exists
  <2>3. CASE i # j  BY <1>1, <1>6, <1>8, <2>1, <2>3 DEF LifeSound
  <2>4. QED  BY <2>2, <2>3
<1>15. QED  BY <1>10, <1>12, <1>13, <1>14 DEF Ticket

\* The later steps of a handler preserve Ticket.
LEMMA TicketFinishing ==
    ASSUME IInv, IInv', Ticket, NEW c \in Clients, Finishing(c)
    PROVE  Ticket'
<1>1. CASE \E n \in Jobs : CommitRestart(c, n)
  <2>1. PICK n \in Jobs : CommitRestart(c, n)  BY <1>1
  <2>2. /\ status[n] = "unborn" /\ status' = [status EXCEPT ![n] = "queued"]
        /\ UNCHANGED <<up, stage, rows, queue, running, pc, cur, memStatus, memStage>>
    BY <2>1 DEF CommitRestart, ClientFrame, localVars, memVars
  <2>3. /\ req[c].pc # "enqueue" /\ req'[c].pc = "enqueue" /\ req'[c].job = n
        /\ \A d \in Clients \ {c} : req'[d] = req[d]
    BY <2>1 DEF CommitRestart, ToEnqueue, IInv, TInv, TypeOK
  <2>4. QED  BY <2>2, <2>3, TicketBorn
<1>2. QED  BY <1>1, TicketCancel, TicketDelete, TicketEnqueue DEF Finishing

\* A death takes every ticket.
LEMMA TicketCrash ==
    ASSUME IInv, Ticket, Crash
    PROVE  Ticket'
<1>1. /\ Len(queue') = 0 /\ running' = {} /\ ~up'
      /\ \A w \in Workers : cur'[w] = NoJob /\ pc'[w] = "idle"
      /\ \A c \in Clients : req'[c].pc = "free"
      /\ UNCHANGED <<status, stage, rows>>
  BY DEF Crash, FreeSlot, rowVars, fileVars
<1>2. \A j \in Jobs : ~Waiting(j)' /\ ~Held(j)'
  BY <1>1, ConstantsAssumption DEF Waiting, Held
<1>3. OneTicket'  BY <1>1 DEF OneTicket, NoDuplicateEntries
<1>4. \A c \in Clients : ReqSound(c)'  BY <1>1 DEF ReqSound
<1>5. \A w \in Workers : TicketSound(w)' /\ (pc'[w] # "idle" => up')
  BY <1>1 DEF TicketSound
<1>6. \A j \in Jobs : LifeSound(j)'
  BY <1>1, <1>2 DEF Ticket, LifeSound
<1>7. QED  BY <1>3, <1>4, <1>5, <1>6 DEF Ticket

\* The startup cancels the jobs whose tickets the death took.
LEMMA TicketStartup ==
    ASSUME IInv, IInv', Ticket, Startup
    PROVE  Ticket'
<1>1. UNCHANGED <<queue, running, req, pc, cur, memStatus, memStage, rows>>
  BY DEF Startup, fileVars, localVars, memVars, clientVars
<1>2. \A j \in Jobs :
        /\ status'[j] = CASE status[j] = "pausing" -> "paused"
                          [] status[j] \in Abandoned -> "cancelled"
                          [] OTHER -> status[j]
        /\ stage'[j] = CASE status[j] = "pausing" -> "paused"
                          [] status[j] \in Abandoned -> "none"
                          [] OTHER -> stage[j]
  BY DEF Startup
<1>3. \A j \in Jobs : (Held(j)' <=> Held(j)) /\ (Waiting(j)' <=> Waiting(j))
  BY <1>1 DEF Held, Waiting
<1>4. OneTicket'  BY <1>1 DEF Ticket, OneTicket, NoDuplicateEntries, Held
<1>5. ASSUME NEW c \in Clients PROVE ReqSound(c)'
  <2>1. CASE req[c].pc # "commit"  BY <1>1, <2>1 DEF ReqSound
  <2>2. CASE req[c].pc = "commit"
    <3>1. PICK x \in Jobs : x = req[c].job  BY <2>2 DEF IInv, TInv, ReqJob
    <3>2. status[x] # "unborn" => status'[x] # "unborn"  BY <1>2
    <3>3. Waiting(x)' <=> Waiting(x)  BY <1>3
    <3>4. ReqSound(c)  BY DEF Ticket
    <3>5. QED  BY <1>1, <3>1, <3>2, <3>3, <3>4 DEF ReqSound, Waiting
  <2>3. QED  BY <2>1, <2>2
<1>6. ASSUME NEW w \in Workers PROVE TicketSound(w)' /\ (pc'[w] # "idle" => up')
  BY <1>1 DEF Ticket, TicketSound, Startup
<1>7. ASSUME NEW j \in Jobs PROVE LifeSound(j)'
  <2>1. LifeSound(j)  BY DEF Ticket
  <2>2. QED  BY <1>1, <1>2, <1>3, <2>1 DEF LifeSound, Abandoned
<1>8. QED  BY <1>4, <1>5, <1>6, <1>7 DEF Ticket

\* Ticket is inductive.
LEMMA TicketNext == NoPauses /\ IInv /\ IInv' /\ Ticket /\ [Next]_vars => Ticket'
<1> SUFFICES ASSUME NoPauses, IInv, IInv', Ticket, [Next]_vars PROVE Ticket'  OBVIOUS
<1>1. ASSUME NEW w \in Workers, WorkerStep(w) PROVE Ticket'
  <2>1. CASE Dequeue(w)  BY <2>1, TicketDequeue
  <2>2. CASE Release(w)  BY <2>2, TicketRelease
  <2>3. CASE ~Dequeue(w) /\ ~Release(w)
    <3>1. pc[w] # "idle"  BY <1>1, <2>3, BusyStep
    <3>2. QED  BY <1>1, <2>3, <3>1, TicketPipeline
  <2>4. QED  BY <2>1, <2>2, <2>3
<1>2. ASSUME NEW c \in Clients, Accepting(c) PROVE Ticket'  BY <1>2, TicketAccepting
<1>3. ASSUME NEW c \in Clients, Finishing(c) PROVE Ticket'  BY <1>3, TicketFinishing
<1>4. CASE UNCHANGED vars
  BY <1>4 DEF vars, rowVars, fileVars, localVars, memVars, clientVars, Ticket, OneTicket,
     NoDuplicateEntries, ReqSound, TicketSound, LifeSound, Waiting, Held
<1>5. QED  BY <1>1, <1>2, <1>3, <1>4, TicketCrash, TicketStartup DEF Next

\* Ticket holds initially.
LEMMA TicketInit == Init => Ticket
<1> SUFFICES ASSUME Init PROVE Ticket  OBVIOUS
<1>1. Len(queue) = 0  BY DEF Init
<1>2. ASSUME NEW j \in Jobs PROVE ~Waiting(j) /\ ~Held(j)
  <2>1. \A c \in Clients : req[c].pc = "free"  BY DEF Init, FreeSlot
  <2>2. \A w \in Workers : cur[w] = NoJob /\ pc[w] = "idle"  BY DEF Init
  <2>3. ~(\E i \in 1..Len(queue) : queue[i].job = j)  BY <1>1
  <2>4. QED  BY <2>1, <2>2, <2>3, ConstantsAssumption DEF Waiting, Held
<1>3. OneTicket  BY <1>1 DEF Init, OneTicket, NoDuplicateEntries, FreeSlot
<1>4. \A c \in Clients : ReqSound(c)  BY DEF Init, ReqSound, FreeSlot
<1>5. \A w \in Workers : TicketSound(w) /\ (pc[w] # "idle" => up)  BY DEF Init, TicketSound
<1>6. ASSUME NEW j \in Jobs PROVE LifeSound(j)
  <2>1. status[j] = "unborn" /\ stage[j] = "none" /\ rows[j] = 0  BY DEF Init
  <2>2. ~Waiting(j) /\ ~Held(j)  BY <1>2
  <2>3. QED  BY <2>1, <2>2 DEF LifeSound
<1>7. QED  BY <1>3, <1>4, <1>5, <1>6 DEF Ticket

\* Every reachable state satisfies Ticket, where nobody pauses or resumes.
LEMMA TicketInductive ==
    ASSUME NoPauses
    PROVE  Spec => []Ticket
<1>1. NoPauses /\ IInv /\ IInv' /\ Ticket /\ [Next]_vars => Ticket'  BY TicketNext
<1>2. IInv /\ IInv' /\ Ticket /\ [Next]_vars => Ticket'  BY <1>1
<1>3. QED  BY <1>2, TicketInit, Inductive, PTL DEF Spec

\* Where nobody pauses or resumes, a queued job is always on its way to a
\* worker: no interleaving of creates, cancels, restarts, deletions and deaths
\* of the process leaves a row queued that nothing will pick up.
THEOREM QueuedIsOnItsWay == NoPauses => (Spec => []QueuedIsWaiting)
<1> SUFFICES ASSUME NoPauses PROVE Spec => []QueuedIsWaiting  OBVIOUS
<1>1. Ticket => QueuedIsWaiting  BY DEF Ticket, LifeSound, QueuedIsWaiting
<1>2. QED  BY <1>1, TicketInductive, PTL

\* Where nobody pauses or resumes, a job is transcribed at most once, although
\* process_job does not ask whether the job it fetches is completed.
THEOREM OneTranscription == NoPauses => (Spec => []TranscribedOnce)
<1> SUFFICES ASSUME NoPauses PROVE Spec => []TranscribedOnce  OBVIOUS
<1>1. Ticket => TranscribedOnce  BY DEF Ticket, LifeSound, TranscribedOnce
<1>2. QED  BY <1>1, TicketInductive, PTL

\* Where nobody pauses or resumes, a processing row shows a stage of the
\* pipeline, although status and stage are written column by column from
\* copies of different age.
THEOREM StageFollowsStatus == NoPauses => (Spec => []ProcessingHasPipelineStage)
<1> SUFFICES ASSUME NoPauses PROVE Spec => []ProcessingHasPipelineStage  OBVIOUS
<1>1. Ticket => ProcessingHasPipelineStage
  BY DEF Ticket, LifeSound, ProcessingHasPipelineStage, PipelineStages
<1>2. QED  BY <1>1, TicketInductive, PTL
=============================================================================
