----------------------------- MODULE JobRun_proofs -----------------------------
(***************************************************************************)
(* What the runs of a job add up to: its transcript, what is transcribed   *)
(* again, its time and its progress, for any length of the media, shares   *)
(* of the work, and numbers of requests, ticks and deaths of the process.  *)
(***************************************************************************)
EXTENDS JobRun, TLAPS

Places == {"idle", "claim", "claimed", "prepare", "begin", "open", "loop", "save", "render",
           "hear", "keep", "commit", "whole", "drop", "transcribed", "diarizing", "check", "write", "clean", "release"}
Past(r) == r.started = NoTime \/ r.started <= now
Readable == file \notin {NoFile, Torn}

RunTypes ==
    /\ JobRunTypeOK
    /\ wpc \in Places /\ share \in AsrShares
    /\ Past(row) /\ Past(mem)
    /\ now \in Nat /\ worked \in Nat /\ claims \in Nat /\ unsaved \in BOOLEAN
    /\ planned \in Nat /\ losses \in Nat /\ died \in Nat
    /\ Readable => file.next <= file.total
    /\ wpc \in {"render", "hear"} => ck.next < ck.total
    /\ wpc \in {"keep", "commit"} => ck.next > 0

LEMMA DurationsArePositive == \A n \in Durations : n \in Nat /\ n > 0
<1>1. Durations \subseteq Nat \ {0}
  BY JobRunConstants
<1> QED BY <1>1

\* The last chunk there may be.
LEMMA LastChunk ==
  /\ \A n \in Durations, c \in Nat : c < n => c \in AllChunks
  /\ AllChunks \subseteq Nat
<1> DEFINE max == CHOOSE n \in Durations : \A k \in Durations : k <= n
<1>1. max \in Durations /\ \A k \in Durations : k <= max
  BY JobRunConstants
<1>2. \A n \in Durations, c \in Nat : c < n => c <= max - 1
  <2>1. max \in Nat /\ \A n \in Durations : n \in Nat /\ n <= max
    BY <1>1, JobRunConstants
  <2> HIDE DEF max
  <2> QED BY <2>1
<1>3. max \in Nat /\ AllChunks = 0..(max - 1)
  BY <1>1, JobRunConstants DEF AllChunks
<1> HIDE DEF max
<1> QED BY <1>2, <1>3

LEMMA SharePercent ==
  ASSUME NEW n \in Nat, NEW t \in Nat \ {0}, n <= t, NEW s \in 1..100
  PROVE  (n * s) \div t \in 0..100
<1>1. n * s \in Nat /\ t * s \in Nat /\ n * s <= t * s /\ t * s <= 100 * t
  <2>1. n * s \in Nat /\ t * s \in Nat
    OBVIOUS
  <2>2. n * s <= t * s
    OBVIOUS
  <2>3. t * s <= t * 100
    OBVIOUS
  <2> QED BY <2>1, <2>2, <2>3
<1> DEFINE x == n * s
<1>2. x \in Nat /\ x <= 100 * t
  BY <1>1
<1> HIDE DEF x
<1>3. x \div t \in 0..100
  <2>1. x \div t \in Nat /\ t * (x \div t) <= x
    BY <1>2
  <2>2. x \div t > 100 => t * (x \div t) > 100 * t
    BY <2>1
  <2> QED BY <1>2, <2>1, <2>2
<1> QED BY <1>3 DEF x

\* A write puts the columns that differ from the copy.
LEMMA WriteRow ==
  ASSUME row \in RunRow, mem \in RunRow, NEW new \in RunRow, Write(new)
  PROVE  /\ row' \in RunRow /\ mem' = new
         /\ row'.status = Put(mem.status, new.status, row.status)
         /\ row'.started = Put(mem.started, new.started, row.started)
         /\ row'.spent = Put(mem.spent, new.spent, row.spent)
         /\ row'.percent = Put(mem.percent, new.percent, row.percent)
         /\ row'.path = Put(mem.path, new.path, row.path)
<1>1. DOMAIN row = {"status", "started", "spent", "percent", "path"}
  BY DEF RunRow
<1>2. row' = [c \in DOMAIN row |-> Put(mem[c], new[c], row[c])] /\ mem' = new
  BY DEF Write
<1>3. /\ row'.status = Put(mem.status, new.status, row.status)
      /\ row'.started = Put(mem.started, new.started, row.started)
      /\ row'.spent = Put(mem.spent, new.spent, row.spent)
      /\ row'.percent = Put(mem.percent, new.percent, row.percent)
      /\ row'.path = Put(mem.path, new.path, row.path)
  BY <1>1, <1>2
<1>4. row' = [status |-> row'.status, started |-> row'.started, spent |-> row'.spent,
              percent |-> row'.percent, path |-> row'.path]
  BY <1>1, <1>2
<1>5. row' \in RunRow
  BY <1>3, <1>4 DEF RunRow, Put
<1> QED BY <1>2, <1>3, <1>5

\* Rows that differ in one column or two.
LEMMA RowWith ==
  ASSUME NEW r \in RunRow, NEW s \in RunStatus, NEW t \in Times, NEW n \in Nat, NEW p \in 0..100,
         NEW b \in BOOLEAN
  PROVE  /\ [r EXCEPT !.status = s] \in RunRow
         /\ [r EXCEPT !.path = b] \in RunRow
         /\ [r EXCEPT !.percent = p] \in RunRow
         /\ [r EXCEPT !.spent = n, !.status = s] \in RunRow
         /\ [r EXCEPT !.status = s, !.spent = n, !.started = t] \in RunRow
         /\ [r EXCEPT !.status = s, !.percent = p, !.started = t] \in RunRow
         /\ [r EXCEPT !.status = s, !.percent = p, !.spent = n] \in RunRow
  BY DEF RunRow

LEMMA ClockedIsNat ==
  ASSUME NEW r \in RunRow, now \in Nat, Past(r)
  PROVE  Clocked(r) \in Nat
<1>1. Second \in Nat \ {0} /\ r.spent \in Nat
  BY JobRunConstants DEF RunRow
<1>2. r.started # NoTime => now - r.started \in Nat
  BY DEF RunRow, Times, Past
<1> DEFINE e == now - r.started
<1> HIDE DEF e
<1>3. e \in Nat => e \div Second \in Nat
  BY <1>1
<1> QED BY <1>1, <1>2, <1>3 DEF Clocked, e

RowTypes == row \in RunRow /\ mem \in RunRow /\ Past(row) /\ Past(mem) /\ now \in Nat

LEMMA RowPut ==
  ASSUME RowTypes, now' = now, NEW new \in RunRow, Past(new), Settle(new) \/ Write(new)
  PROVE  RowTypes'
<1>1. CASE Settle(new)
  BY <1>1 DEF Settle, RowTypes, Past
<1>2. CASE Write(new)
  <2>1. row' \in RunRow /\ mem' = new /\ row'.started = Put(mem.started, new.started, row.started)
    BY <1>2, WriteRow DEF RowTypes
  <2> QED BY <2>1 DEF RowTypes, Past, Put
<1> QED BY <1>1, <1>2

\* What an answer to a stop makes of the row.
Running == {"processing", "pausing", "cancelling"}

LEMMA FinalRow ==
  ASSUME RowTypes, NEW st \in {"cancelled", "paused"},
         Settle([row EXCEPT !.spent = Clocked(row), !.status = st])
  PROVE  /\ row' \in RunRow /\ mem' = row' /\ row'.started = row.started /\ row'.percent = row.percent
         /\ row'.status = st /\ row'.spent = Clocked(row) /\ (now' = now => RowTypes')
<1>1. Clocked(row) \in Nat /\ st \in RunStatus
  BY ClockedIsNat DEF RowTypes, RunStatus
<1> DEFINE new == [row EXCEPT !.spent = Clocked(row), !.status = st]
<1>2. /\ new \in RunRow /\ new.started = row.started /\ new.percent = row.percent
      /\ new.status = st /\ new.spent = Clocked(row)
  <2> DEFINE k == Clocked(row)
  <2> HIDE DEF k
  <2>1. k \in Nat => LET e == [row EXCEPT !.spent = k, !.status = st] IN
          /\ e \in RunRow /\ e.started = row.started /\ e.percent = row.percent
          /\ e.status = st /\ e.spent = k
    BY <1>1 DEF RowTypes, RunRow
  <2> QED BY <1>1, <2>1 DEF k
<1>3. row' = new /\ mem' = new
  BY DEF Settle
<1> HIDE DEF new
<1>4. now' = now => RowTypes'
  BY <1>2, <1>3 DEF RowTypes, Past
<1> QED BY <1>2, <1>3, <1>4

LEMMA StopEffect ==
  ASSUME RowTypes, NEW p, StopOr(p)
  PROVE  /\ row' \in RunRow /\ mem' = row' /\ row'.started = row.started /\ row'.percent = row.percent
         /\ row'.status \in {"cancelled", "paused"} /\ wpc' \in {"release", p}
         /\ row'.status = "paused" => wpc' = p
         /\ \/ row'.spent = Clocked(row)
            \/ row.status = "paused" /\ row' = row
         /\ row.status \in {"cancelling", "cancelled", "pausing", "paused"}
         /\ row.status = "cancelled" => row'.status = "cancelled"
         /\ row'.status = "paused" => \/ row.status = "pausing" /\ row'.spent = Clocked(row)
                                      \/ row.status = "paused" /\ row' = row
         /\ (now' = now => RowTypes')
<1>1. CASE Cancelling(row) /\ FinalizeCancel /\ wpc' = "release"
  BY <1>1, FinalRow DEF FinalizeCancel, Cancelling
<1>2. CASE row.status = "pausing" /\ FinalizePauseRow /\ wpc' = p
  <2>1. /\ row' \in RunRow /\ mem' = row' /\ row'.started = row.started /\ row'.percent = row.percent
        /\ row'.status = "paused" /\ row'.spent = Clocked(row) /\ (now' = now => RowTypes')
    BY <1>2, FinalRow DEF FinalizePauseRow
  <2>2. row.status = "pausing" /\ wpc' = p
    BY <1>2
  <2> QED BY <2>1, <2>2
<1>3. CASE row.status = "paused" /\ Settle(row) /\ wpc' = p
  BY <1>3 DEF Settle, RowTypes, Past
<1> QED BY <1>1, <1>2, <1>3 DEF StopOr

\* The three ends of an error.
LEMMA RaiseEffect ==
  ASSUME RowTypes, RunRaise
  PROVE  /\ row' \in RunRow /\ mem' = row' /\ row'.percent = row.percent
         /\ row'.status \in {"cancelled", "paused", "failed"}
         /\ row'.spent = Clocked(row) /\ RowTypes'
         /\ row'.status \in {"paused", "failed"} => row.status # "cancelled"
<1>1. now' = now
  BY DEF RunRaise
<1>2. CASE ~Stops /\ Settle([row EXCEPT !.status = "failed", !.spent = Clocked(row), !.started = NoTime])
  <2> DEFINE k == Clocked(row)
             new == [row EXCEPT !.status = "failed", !.spent = k, !.started = NoTime]
  <2>1. k \in Nat
    BY ClockedIsNat DEF RowTypes
  <2>2. row' = new /\ mem' = new
    BY <1>2 DEF Settle
  <2> HIDE DEF k
  <2>3. /\ new \in RunRow /\ new.percent = row.percent /\ new.status = "failed" /\ new.spent = k
        /\ new.started = NoTime
    BY <2>1 DEF RowTypes, RunRow, RunStatus, Times
  <2> HIDE DEF new
  <2>4. RowTypes'
    BY <1>1, <2>2, <2>3 DEF RowTypes, Past
  <2> QED BY <1>2, <2>2, <2>3, <2>4 DEF k, Stops
<1>3. CASE Cancelling(row) /\ FinalizeCancel
  BY <1>1, <1>3, FinalRow DEF FinalizeCancel
<1>4. CASE row.status \in {"pausing", "paused"} /\ FinalizePauseRow
  BY <1>1, <1>4, FinalRow DEF FinalizePauseRow
<1> QED BY <1>2, <1>3, <1>4 DEF RunRaise

\* What a worker's step writes while it is not stopped.
LEMMA SettleEffect ==
  ASSUME RowTypes, now' = now, NEW new \in RunRow, new.started = row.started, Settle(new)
  PROVE  row' = new /\ mem' = new /\ RowTypes'
<1>1. Past(new)
  BY DEF RowTypes, Past
<1> QED BY <1>1, RowPut DEF Settle

LEMMA PercentOf ==
  ASSUME NEW r \in RunRow, NEW p \in 0..100
  PROVE  LET e == [r EXCEPT !.percent = Atleast(@, p)] IN
         /\ e \in RunRow /\ e.percent = Atleast(r.percent, p) /\ e.status = r.status
         /\ e.started = r.started /\ e.spent = r.spent /\ e.path = r.path
         /\ e.percent >= r.percent /\ e.percent >= p
<1>1. r.percent \in 0..100
  BY DEF RunRow
<1>2. Atleast(r.percent, p) \in 0..100 /\ Atleast(r.percent, p) >= r.percent /\ Atleast(r.percent, p) >= p
  BY <1>1 DEF Atleast
<1> DEFINE q == Atleast(r.percent, p)
<1> HIDE DEF q
<1>3. q \in 0..100 => LET e == [r EXCEPT !.percent = q] IN
        /\ e \in RunRow /\ e.percent = q /\ e.status = r.status
        /\ e.started = r.started /\ e.spent = r.spent /\ e.path = r.path
  BY DEF RunRow
<1> QED BY <1>2, <1>3 DEF q

LEMMA HeardPercent ==
  ASSUME RunTypes, wpc = "commit"
  PROVE  (ck.next * share) \div ck.total \in 0..100
<1>1. /\ ck.total \in Durations \cup {0} /\ ck.next \in Nat /\ ck.next <= ck.total
      /\ ck.next > 0 /\ share \in 1..100
  BY JobRunConstants DEF RunTypes, JobRunTypeOK, Checkpoint
<1>2. ck.total \in Nat \ {0}
  <2>1. ck.total \in Nat
    BY <1>1, DurationsArePositive
  <2> QED BY <1>1, <2>1
<1> QED BY <1>1, <1>2, SharePercent

LEMMA RowStep ==
  ASSUME RunTypes, [JobRunNext]_runVars
  PROVE  RowTypes'
<1>0. /\ RowTypes /\ row \in RunRow /\ mem \in RunRow /\ now \in Nat /\ Past(row) /\ Past(mem)
      /\ share \in 1..100 /\ 95 \in 0..100 /\ 100 \in 0..100 /\ 0 \in 0..100
      /\ Past(row)
  BY JobRunConstants DEF RunTypes, JobRunTypeOK, RowTypes
<1>1. CASE FetchRun
  <2>1. now' = now
    BY <1>1 DEF FetchRun, KeepHistory
  <2> QED BY <1>0, <1>1, <2>1, StopEffect, SettleEffect DEF FetchRun
<1>2. CASE ClaimRun
  <2> DEFINE new == [mem EXCEPT !.status = "processing", !.percent = 0, !.started = now]
  <2>1. new \in RunRow /\ new.started = now
    BY <1>0 DEF RunRow, RunStatus, Times
  <2>2. Past(new)
    BY <1>0, <2>1 DEF Past
  <2>3. now' = now /\ Write(new)
    BY <1>2 DEF ClaimRun
  <2> HIDE DEF new
  <2> QED BY <1>0, <2>1, <2>2, <2>3, RowPut
<1>3. CASE ConfirmRun
  <2>1. now' = now
    BY <1>3 DEF ConfirmRun, KeepHistory
  <2> QED BY <1>0, <1>3, <2>1, SettleEffect DEF ConfirmRun
<1>4. CASE PrepareRun
  <2>1. now' = now
    BY <1>4 DEF PrepareRun, KeepHistory
  <2> QED BY <1>0, <1>4, <2>1, StopEffect, SettleEffect DEF PrepareRun
<1>5. CASE BeginRun
  <2>1. now' = now
    BY <1>5 DEF BeginRun, KeepHistory
  <2>2. [row EXCEPT !.percent = 0] \in RunRow /\ [row EXCEPT !.percent = 0].started = row.started
    BY <1>0 DEF RunRow
  <2> QED BY <1>0, <1>5, <2>1, <2>2, StopEffect, SettleEffect DEF BeginRun
<1>6. CASE OpenRun
  <2>1. now' = now
    BY <1>6 DEF OpenRun
  <2>2. [row EXCEPT !.path = TRUE] \in RunRow /\ [row EXCEPT !.path = TRUE].started = row.started
    BY <1>0 DEF RunRow
  <2> QED BY <1>0, <1>6, <2>1, <2>2, StopEffect, SettleEffect DEF OpenRun
<1>7. CASE LoopRun
  <2>1. now' = now
    BY <1>7 DEF LoopRun, KeepHistory
  <2>2. UNCHANGED <<row, mem>> => RowTypes'
    BY <1>0, <2>1 DEF RowTypes, Past
  <2> QED BY <1>0, <1>7, <2>1, <2>2, StopEffect, SettleEffect DEF LoopRun
<1>8. CASE DropRun
  <2>1. now' = now
    BY <1>8 DEF DropRun, KeepHistory
  <2>2. [mem EXCEPT !.path = FALSE] \in RunRow /\ [mem EXCEPT !.path = FALSE].started = mem.started
    BY <1>0 DEF RunRow
  <2>3. Past([mem EXCEPT !.path = FALSE])
    BY <1>0, <2>2 DEF Past
  <2> QED BY <1>0, <1>8, <2>1, <2>2, <2>3, RowPut DEF DropRun
<1>9. CASE CommitRun
  <2> DEFINE p == (ck.next * share) \div ck.total
             new == [mem EXCEPT !.percent = Atleast(@, p)]
  <2>1. p \in 0..100
    BY <1>9, HeardPercent DEF CommitRun
  <2>2. now' = now /\ Write(new)
    BY <1>9 DEF CommitRun, KeepHistory
  <2> HIDE DEF p
  <2>3. new \in RunRow /\ new.started = mem.started
    BY <1>0, <2>1, PercentOf
  <2> HIDE DEF new
  <2> QED BY <1>0, <2>2, <2>3, RowPut DEF Past
<1>10. CASE BeginDiarizing \/ EndDiarizing
  <2>1. now' = now
    BY <1>10 DEF BeginDiarizing, EndDiarizing, KeepHistory
  <2>2. \A p \in 0..100 : /\ [mem EXCEPT !.percent = Atleast(@, p)] \in RunRow
                          /\ [mem EXCEPT !.percent = Atleast(@, p)].started = mem.started
    BY <1>0, PercentOf
  <2>3. UNCHANGED <<row, mem>> => RowTypes'
    BY <1>0, <2>1 DEF RowTypes, Past
  <2>4. ASSUME NEW p \in 0..100, Write([mem EXCEPT !.percent = Atleast(@, p)]) PROVE RowTypes'
    <3> DEFINE new == [mem EXCEPT !.percent = Atleast(@, p)]
    <3>1. new \in RunRow /\ new.started = mem.started
      BY <2>2
    <3>2. Write(new)
      BY <2>4
    <3> HIDE DEF new
    <3> QED BY <1>0, <2>1, <3>1, <3>2, RowPut DEF Past
  <2>5. share \in 0..100
    BY <1>0
  <2> QED BY <1>0, <1>10, <2>3, <2>4, <2>5 DEF BeginDiarizing, EndDiarizing
<1>11. CASE BeginFinal
  <2>1. now' = now
    BY <1>11 DEF BeginFinal, KeepHistory
  <2>2. /\ [row EXCEPT !.percent = Atleast(@, 95)] \in RunRow
        /\ [row EXCEPT !.percent = Atleast(@, 95)].started = row.started
    BY <1>0, PercentOf
  <2> QED BY <1>0, <1>11, <2>1, <2>2, StopEffect, SettleEffect DEF BeginFinal
<1>12. CASE CompleteRun
  <2> DEFINE k == Clocked(mem)
             new == [mem EXCEPT !.status = "completed", !.percent = 100, !.spent = k]
  <2>1. k \in Nat
    BY <1>0, ClockedIsNat
  <2>2. now' = now /\ Write(new)
    BY <1>12 DEF CompleteRun, KeepHistory
  <2> HIDE DEF k
  <2>3. new \in RunRow /\ new.started = mem.started
    BY <1>0, <2>1 DEF RunRow, RunStatus
  <2> HIDE DEF new
  <2> QED BY <1>0, <2>2, <2>3, RowPut DEF Past
<1>13. CASE CleanRun
  <2>1. now' = now
    BY <1>13 DEF CleanRun
  <2>2. [mem EXCEPT !.path = FALSE] \in RunRow /\ [mem EXCEPT !.path = FALSE].started = mem.started
    BY <1>0 DEF RunRow
  <2>3. Past([mem EXCEPT !.path = FALSE])
    BY <1>0, <2>2 DEF Past
  <2> QED BY <1>0, <1>13, <2>1, <2>2, <2>3, RowPut DEF CleanRun
<1>14. CASE RunRaise
  BY <1>0, <1>14, RaiseEffect
<1>15. CASE RunRelease
  BY <1>0, <1>15 DEF RunRelease, KeepHistory, RowTypes, Past
<1>16. CASE DrainProgress
  <2>1. PICK t \in DrainTargets : row' = [row EXCEPT !.percent = Atleast(@, t)]
    BY <1>16 DEF DrainProgress
  <2>2. t \in 0..100
    BY JobRunConstants
  <2>3. row' \in RunRow /\ row'.started = row.started
    BY <1>0, <2>1, <2>2, PercentOf
  <2> QED BY <1>0, <1>16, <2>3 DEF DrainProgress, KeepHistory, RowTypes, Past
<1>17. CASE RequestRun
  <2>1. PICK st \in RunStatus : row' = [row EXCEPT !.status = st]
    BY <1>17 DEF RequestRun, CancelRun, PauseRun, ResumeRun, RunStatus
  <2>2. row' \in RunRow /\ row'.started = row.started
    BY <1>0, <2>1 DEF RunRow
  <2> QED BY <1>0, <1>17, <2>2 DEF RequestRun, RowTypes, Past
<1>18. CASE Tick
  <2>1. UNCHANGED <<row, mem>> /\ now' = now + 1
    BY <1>18 DEF Tick
  <2>2. \A r \in RunRow : Past(r) => r.started = NoTime \/ r.started <= now + 1
    BY <1>0 DEF Past, RunRow, Times
  <2> QED BY <1>0, <2>1, <2>2 DEF RowTypes, Past
<1>19. CASE CrashRun
  <2> DEFINE k == Clocked(row)
             st == IF row.status = "pausing" THEN "paused" ELSE "cancelled"
             new == [row EXCEPT !.spent = k, !.started = NoTime, !.status = st]
  <2>1. k \in Nat /\ st \in RunStatus
    BY <1>0, ClockedIsNat DEF RunStatus
  <2>2. row' \in {row, new} /\ mem' = row' /\ now' = now
    BY <1>19 DEF CrashRun
  <2> HIDE DEF k, st
  <2>3. new \in RunRow /\ new.started = NoTime
    BY <1>0, <2>1 DEF RunRow, Times
  <2> HIDE DEF new
  <2> QED BY <1>0, <2>2, <2>3 DEF RowTypes, Past
<1>20. CASE UNCHANGED runVars
  BY <1>0, <1>20 DEF runVars, RowTypes, Past
<1>21. CASE SaveRun \/ RenderRun \/ WholeRun \/ HearRun \/ KeepRun
  BY <1>0, <1>21 DEF SaveRun, RenderRun, WholeRun, HearRun, KeepRun, KeepHistory, RowTypes, Past
<1> QED BY <1>1, <1>2, <1>3, <1>4, <1>5, <1>6, <1>7, <1>8, <1>9, <1>10, <1>11, <1>12, <1>13, <1>14,
           <1>15, <1>16, <1>17, <1>18, <1>19, <1>20, <1>21 DEF JobRunNext, WorkerRuns

-----------------------------------------------------------------------------
(* Types. *)

LEMMA CheckpointIsNoMark ==
  ASSUME NEW c \in Checkpoint
  PROVE  c \notin {NoFile, Torn}
<1>1. \A n \in Durations : n \in Nat
  BY DurationsArePositive
<1>2. \A s \in Seq(AllChunks \cup {Torn}) : s \in Seq(Nat \cup {Torn})
  <2> DEFINE A == AllChunks \cup {Torn}
             B == Nat \cup {Torn}
  <2>1. A \subseteq B
    BY LastChunk
  <2> HIDE DEF A, B
  <2>2. \A s \in Seq(A) : s \in Seq(B)
    BY <2>1
  <2> QED BY <2>2 DEF A, B
<1>3. c \in [total : Nat, next : Nat, segs : Seq(Nat \cup {Torn})]
  <2>1. c = [total |-> c.total, next |-> c.next, segs |-> c.segs]
    BY DEF Checkpoint
  <2>2. c.total \in Durations \cup {0} /\ c.next \in Nat /\ c.segs \in Seq(AllChunks \cup {Torn})
    BY DEF Checkpoint
  <2>3. c.total \in Nat /\ c.segs \in Seq(Nat \cup {Torn})
    BY <1>1, <1>2, <2>2
  <2> QED BY <2>1, <2>2, <2>3
<1>4. NoFile \notin [total : Nat, next : Nat, segs : Seq(Nat \cup {Torn})]
      /\ Torn \notin [total : Nat, next : Nat, segs : Seq(Nat \cup {Torn})]
  BY JobRunConstants
<1> QED BY <1>3, <1>4

LEMMA FreshCheckpoint ==
  ASSUME NEW n \in Durations \cup {0}
  PROVE  LET e == NewCheckpoint(n) IN
         /\ e \in Checkpoint /\ e.total = n /\ e.next = 0 /\ e.segs = <<>> /\ n \in Nat /\ e.next <= e.total
<1>1. n \in Nat
  BY DurationsArePositive
<1>2. LET e == NewCheckpoint(n) IN
        e.total = n /\ e.next = 0 /\ e.segs = <<>> /\ e \in Checkpoint
  BY DEF NewCheckpoint, Checkpoint
<1> QED BY <1>1, <1>2

\* The chunk that is heard is one of the media.
LEMMA HeardChunk ==
  ASSUME RunTypes, wpc \in {"hear", "render"}
  PROVE  /\ ck.next \in AllChunks /\ ck.next \in Nat /\ ck.total \in Durations /\ ck.next < ck.total
<1>1. ck.total \in Durations \cup {0} /\ ck.next \in Nat /\ ck.next < ck.total
  BY DEF RunTypes, JobRunTypeOK, Checkpoint
<1>2. ck.total \in Durations
  BY <1>1
<1> QED BY <1>1, <1>2, LastChunk

\* The checkpoint after one more chunk.
LEMMA NextCheckpoint ==
  ASSUME RunTypes, wpc = "hear"
  PROVE  LET e == [ck EXCEPT !.next = @ + 1, !.segs = Append(@, Heard(ck.next))] IN
         /\ e \in Checkpoint /\ e.next = ck.next + 1 /\ e.total = ck.total /\ e.next <= e.total
         /\ e.segs = Append(ck.segs, Heard(ck.next))
<1>1. /\ ck \in Checkpoint /\ ck.next \in Nat /\ ck.next < ck.total
      /\ ck.total \in Nat
  BY HeardChunk, DurationsArePositive DEF RunTypes, JobRunTypeOK
<1>2. ck.next \in AllChunks
  BY HeardChunk
<1> DEFINE h == Heard(ck.next)
<1>3. h \in AllChunks \cup {Torn}
  BY <1>2 DEF Heard
<1> HIDE DEF h
<1>4. Append(ck.segs, h) \in Seq(AllChunks \cup {Torn}) /\ ck.next + 1 \in Nat /\ ck.next + 1 <= ck.total
  BY <1>1, <1>3 DEF Checkpoint
<1> DEFINE s == Append(ck.segs, h)
           n == ck.next + 1
           e == [ck EXCEPT !.next = n, !.segs = s]
<1> HIDE DEF s, n
<1>5. s \in Seq(AllChunks \cup {Torn}) /\ n \in Nat =>
        e \in Checkpoint /\ e.next = n /\ e.total = ck.total /\ e.segs = s
  BY <1>1 DEF Checkpoint
<1> QED BY <1>4, <1>5 DEF s, n, h

FileTypes ==
    /\ entries \in Nat
    /\ file \in {NoFile, Torn} \/ file \in Checkpoint
    /\ ck \in Checkpoint /\ ck.next <= ck.total
    /\ parts \subseteq AllChunks /\ torn \subseteq parts
    /\ wav \in BOOLEAN /\ usesWav \in BOOLEAN
    /\ result \in {NoFile, Whole} \/ result \in Seq(AllChunks \cup {Torn})
    /\ heard \in [AllChunks -> Nat]
    /\ wpc \in Places /\ share \in AsrShares
    /\ torn \subseteq marred
    /\ worked \in Nat /\ claims \in Nat /\ unsaved \in BOOLEAN
    /\ planned \in Nat /\ losses \in Nat /\ died \in Nat
    /\ Readable => file.next <= file.total
    /\ wpc \in {"render", "hear"} => ck.next < ck.total
    /\ wpc \in {"keep", "commit"} => ck.next > 0

LEMMA TypesSplit == RunTypes <=> RowTypes /\ FileTypes
  BY DEF RunTypes, JobRunTypeOK, RowTypes, FileTypes

LEMMA FileStep ==
  ASSUME RunTypes, [JobRunNext]_runVars
  PROVE  FileTypes'
<1>0. RowTypes /\ FileTypes
  BY TypesSplit
<1> USE DEF FileTypes
<1>1. \A p : StopOr(p) => wpc' \in {"release", p}
  BY <1>0, StopEffect
<1>2. CASE FetchRun \/ ConfirmRun \/ BeginRun
  BY <1>0, <1>1, <1>2 DEF FetchRun, ConfirmRun, BeginRun, KeepFiles, KeepHistory, runFiles,
     runHist, runBounds, Places, Readable
<1>3. CASE PrepareRun
  BY <1>0, <1>1, <1>3 DEF PrepareRun, KeepHistory, runHist, runBounds, Places, Readable
<1>4. CASE OpenRun
  <2>1. \A n \in Durations : /\ NewCheckpoint(n) \in Checkpoint /\ NewCheckpoint(n).next <= NewCheckpoint(n).total
                             /\ n \in Nat
    BY FreshCheckpoint
  <2>2. ck' \in Checkpoint /\ ck'.next <= ck'.total /\ planned' \in Nat
    <3>1. CASE UNCHANGED <<ck, planned>>
      BY <1>0, <3>1
    <3>2. ASSUME NEW n \in Durations, ck' = NewCheckpoint(n), planned' = n
          PROVE  ck' \in Checkpoint /\ ck'.next <= ck'.total /\ planned' \in Nat
      BY <2>1, <3>2
    <3>3. CASE Readable /\ ck' = file /\ planned' = planned
      BY <1>0, <3>3 DEF Readable
    <3> QED BY <1>4, <3>1, <3>2, <3>3 DEF OpenRun, Readable
  <2>3. wpc' \in {"release", "loop"}
    BY <1>1, <1>4 DEF OpenRun
  <2> QED BY <1>0, <1>4, <2>2, <2>3 DEF OpenRun, runFiles, runBounds, Places, Readable
<1>5. CASE LoopRun
  <2>1. wpc' \in {"release", "save", "render", "transcribed"} /\ (wpc' = "render" => ~(ck.next >= ck.total))
    BY <1>1, <1>5 DEF LoopRun
  <2>2. result' \in {NoFile, Whole} \/ result' \in Seq(AllChunks \cup {Torn})
    BY <1>0, <1>5 DEF LoopRun, Checkpoint
  <2>3. wpc' = "render" => ck.next < ck.total
    <3>1. ck.next \in Nat /\ ck.total \in Nat
      BY <1>0, DurationsArePositive DEF Checkpoint
    <3> QED BY <2>1, <3>1
  <2> QED BY <1>0, <1>5, <2>1, <2>2, <2>3 DEF LoopRun, KeepHistory, runFiles, runHist, runBounds, Places, Readable
<1>6. CASE SaveRun
  BY <1>0, <1>6 DEF SaveRun, KeepHistory, runHist, runBounds, Places, Readable
<1>7. CASE RenderRun
  <2>1. ck.next \in AllChunks
    BY <1>7, HeardChunk DEF RenderRun
  <2>2. parts' \subseteq AllChunks /\ torn' \subseteq parts' /\ torn' \subseteq marred'
    BY <1>0, <1>7, <2>1 DEF RenderRun, PartialChunk
  <2>3. wpc = "render" /\ wpc' \in {"hear", "whole"}
    BY <1>7 DEF RenderRun
  <2> QED BY <1>0, <1>7, <2>2, <2>3 DEF RenderRun, runBounds, Places, Readable
<1>8. CASE HearRun
  <2>1. ck' \in Checkpoint /\ ck'.next <= ck'.total /\ ck'.next > 0
    <3>1. ck.next \in Nat
      BY <1>0 DEF Checkpoint
    <3> QED BY <1>8, <3>1, NextCheckpoint DEF HearRun
  <2>2. heard' \in [AllChunks -> Nat]
    <3> DEFINE k == heard[ck.next] + 1
    <3>1. k \in Nat /\ heard' = [heard EXCEPT ![ck.next] = k]
      BY <1>0, <1>8, HeardChunk DEF HearRun
    <3> HIDE DEF k
    <3> QED BY <1>0, <3>1
  <2> QED BY <1>0, <1>8, <2>1, <2>2 DEF HearRun, runFiles, runBounds, Places, Readable
<1>k. CASE KeepRun
  BY <1>0, <1>k DEF KeepRun, KeepHistory, runHist, runBounds, Places, Readable
<1>d. CASE DropRun \/ CommitRun
  BY <1>0, <1>d DEF DropRun, CommitRun, KeepFiles, KeepHistory, runFiles, runHist, runBounds, Places,
     Readable
<1>h. CASE WholeRun
  BY <1>0, <1>h DEF WholeRun, runBounds, Places, Readable
<1>c. CASE ClaimRun
  BY <1>0, <1>c DEF ClaimRun, KeepFiles, runFiles, runBounds, Places, Readable
<1>9. CASE BeginDiarizing \/ EndDiarizing \/ CompleteRun
  BY <1>0, <1>9 DEF BeginDiarizing, EndDiarizing, CompleteRun, KeepFiles, KeepHistory, runFiles,
     runHist, runBounds, Places, Readable
<1>10. CASE BeginFinal
  BY <1>0, <1>1, <1>10 DEF BeginFinal, KeepFiles, KeepHistory, runFiles, runHist, runBounds, Places, Readable
<1>11. CASE CleanRun
  BY <1>0, <1>11 DEF CleanRun, runBounds, Places, Readable
<1>12. CASE RunRelease
  BY <1>0, <1>12 DEF RunRelease, KeepHistory, runHist, runBounds, Places, Readable
<1>e. ASSUME HalfWrite
      PROVE  /\ losses' \in Nat
             /\ file' \in {NoFile, Torn} \/ file' \in Checkpoint
             /\ file' \notin {NoFile, Torn} => file'.next <= file'.total
  BY <1>0, <1>e DEF HalfWrite, Readable
<1>r. CASE RunRaise
  <2>1. /\ HalfWrite /\ unsaved' \in BOOLEAN /\ wpc' = "release"
        /\ UNCHANGED <<entries, parts, torn, wav, ck, usesWav, result, share, worked, claims,
                       marred, planned, heard, died>>
    BY <1>0, <1>r DEF RunRaise, runBounds
  <2>2. /\ losses' \in Nat /\ (file' \in {NoFile, Torn} \/ file' \in Checkpoint)
        /\ file' \notin {NoFile, Torn} => file'.next <= file'.total
    BY <1>e, <2>1
  <2> QED BY <1>0, <2>1, <2>2 DEF Places, Readable
<1>13. CASE DrainProgress
  BY <1>0, <1>13 DEF DrainProgress, KeepFiles, KeepHistory, runFiles, runHist, runBounds, Readable
<1>14. CASE RequestRun
  BY <1>0, <1>14 DEF RequestRun, CancelRun, PauseRun, ResumeRun, runFiles, runHist, Readable
<1>15. CASE Tick
  BY <1>0, <1>15 DEF Tick, runFiles, runBounds, Readable
<1>16. CASE CrashRun
  <2>1. torn' \subseteq parts' /\ parts' \subseteq AllChunks /\ torn' \subseteq marred'
    <3>1. wpc = "render" => ck.next \in AllChunks
      BY HeardChunk
    <3> QED BY <1>0, <1>16, <3>1 DEF CrashRun, PartialChunk
  <2>2. HalfWrite /\ wpc' = "idle" /\ entries' = 0 /\ usesWav' = FALSE /\ died' \in Nat
    BY <1>0, <1>16 DEF CrashRun
  <2>3. UNCHANGED <<wav, ck, result, share, worked, claims, unsaved, planned, heard>>
    BY <1>16 DEF CrashRun
  <2>4. /\ losses' \in Nat /\ (file' \in {NoFile, Torn} \/ file' \in Checkpoint)
        /\ file' \notin {NoFile, Torn} => file'.next <= file'.total
    BY <1>e, <2>2
  <2> QED BY <1>0, <2>1, <2>2, <2>3, <2>4 DEF Places, Readable
<1>17. CASE UNCHANGED runVars
  BY <1>0, <1>17 DEF runVars, runFiles, runHist, runBounds, Readable
<1> QED BY <1>2, <1>3, <1>4, <1>5, <1>6, <1>7, <1>8, <1>9, <1>10, <1>11, <1>12, <1>13, <1>14,
           <1>15, <1>16, <1>17, <1>k, <1>d, <1>h, <1>c, <1>r DEF JobRunNext, WorkerRuns

LEMMA TypesHold == JobRunSpec => []RunTypes
<1>1. JobRunInit => RunTypes
  <2> SUFFICES ASSUME JobRunInit PROVE RunTypes
    OBVIOUS
  <2>1. row \in RunRow /\ mem \in RunRow /\ row.started = NoTime /\ mem.started = NoTime
    BY DEF JobRunInit, RunRow, RunStatus, Times
  <2>2. ck \in Checkpoint /\ ck.next <= ck.total
    BY DEF JobRunInit, NewCheckpoint, Checkpoint
  <2> QED BY <2>1, <2>2 DEF JobRunInit, RunTypes, JobRunTypeOK, Places, Past, Readable
<1>2. RunTypes /\ [JobRunNext]_runVars => RunTypes'
  <2> SUFFICES ASSUME RunTypes, [JobRunNext]_runVars PROVE RowTypes' /\ FileTypes'
    BY DEF RunTypes, JobRunTypeOK, RowTypes, FileTypes
  <2> QED BY RowStep, FileStep
<1> QED BY <1>1, <1>2, PTL DEF JobRunSpec

\* The row, the checkpoint in memory and on disk, and the index of its next chunk
\* keep their types, whatever the number of chunks.
THEOREM RunKeepsTypes == JobRunSpec => []JobRunTypeOK
<1>1. RunTypes => JobRunTypeOK
  BY DEF RunTypes
<1> QED BY <1>1, TypesHold, PTL

-----------------------------------------------------------------------------
(* What is transcribed again. *)

\* A chunk that the checkpoint has not reached was transcribed at most once for
\* each loss before; the file has it, except between the hearing of a chunk and
\* the write of the checkpoint.
HeardInv ==
    /\ HeardOnce
    /\ wpc # "keep" =>
         /\ ~Readable => \A c \in AllChunks : heard[c] <= losses
         /\ Readable => \A c \in AllChunks : c >= file.next => heard[c] <= losses
    /\ wpc \in {"loop", "render", "hear", "keep", "commit", "save"} =>
         \A c \in AllChunks : c >= ck.next => heard[c] <= losses

LEMMA HeardStep ==
  ASSUME RunTypes, HeardInv, [JobRunNext]_runVars
  PROVE  HeardInv'
<1>0. /\ RowTypes /\ losses \in Nat /\ heard \in [AllChunks -> Nat] /\ AllChunks \subseteq Nat
      /\ Readable => file \in Checkpoint
      /\ ck \in Checkpoint /\ NoFile # Torn
  BY TypesSplit, LastChunk, JobRunConstants DEF FileTypes, Readable
<1>1. \A c \in AllChunks : heard[c] \in Nat /\ c \in Nat
  BY <1>0
<1>2. \A p : StopOr(p) => wpc' \in {"release", p}
  BY <1>0, StopEffect
<1>3. ASSUME UNCHANGED <<file, ck, heard, losses>>,
             wpc \notin {"hear", "keep"}, wpc' # "keep",
             wpc' \in {"loop", "render", "hear", "keep", "commit", "save"} =>
                wpc \in {"loop", "render", "hear", "keep", "commit", "save"}
      PROVE  HeardInv'
  BY <1>3 DEF HeardInv, HeardOnce, Readable
<1>4. CASE FetchRun \/ ClaimRun \/ ConfirmRun \/ PrepareRun \/ BeginRun \/ BeginFinal
  BY <1>2, <1>3, <1>4 DEF FetchRun, ClaimRun, ConfirmRun, PrepareRun, BeginRun, BeginFinal, KeepFiles,
     KeepHistory, runFiles, runHist
<1>5. CASE OpenRun
  <2>1. UNCHANGED <<file, heard, losses>> /\ wpc = "open" /\ wpc' \in {"release", "loop"}
    BY <1>2, <1>5 DEF OpenRun, runFiles
  <2>2. CASE UNCHANGED <<ck, planned>> /\ wpc' = "release"
    BY <2>1, <2>2 DEF HeardInv, HeardOnce, Readable
  <2>3. CASE ~Readable
    <3>1. \A c \in AllChunks : heard[c] <= losses
      BY <2>1, <2>3 DEF HeardInv
    <3> QED BY <2>1, <2>3, <3>1 DEF HeardInv, HeardOnce, Readable
  <2>4. CASE Readable /\ ck' = file
    BY <2>1, <2>4 DEF HeardInv, HeardOnce, Readable
  <2>5. StopOr("release") => wpc' = "release"
    BY <1>2
  <2> QED BY <1>5, <2>2, <2>3, <2>4, <2>5 DEF OpenRun, Readable
<1>6. CASE LoopRun
  BY <1>2, <1>3, <1>6 DEF LoopRun, KeepHistory, runFiles, runHist
<1>7. CASE SaveRun \/ KeepRun
  <2>1. /\ file' = ck /\ UNCHANGED <<ck, heard, losses>>
        /\ wpc \in {"save", "keep"} /\ wpc' \in {"release", "commit"}
    BY <1>7 DEF SaveRun, KeepRun, KeepHistory, runHist
  <2>2. Readable'
    BY <1>0, <2>1, CheckpointIsNoMark DEF Readable
  <2> QED BY <2>1, <2>2 DEF HeardInv, HeardOnce
<1>8. CASE WholeRun \/ CleanRun
  <2>1. /\ file' = NoFile /\ losses' = losses + 1 /\ wpc' \in {"drop", "release"}
        /\ heard' = heard
    BY <1>8 DEF WholeRun, CleanRun
  <2>2. \A c \in AllChunks : heard[c] <= losses' /\ heard[c] <= losses' + 1
    BY <1>0, <1>1, <2>1 DEF HeardInv, HeardOnce
  <2>3. ~Readable'
    BY <2>1 DEF Readable
  <2> QED BY <2>1, <2>2, <2>3 DEF HeardInv, HeardOnce
<1>r. CASE RenderRun \/ DropRun \/ CommitRun
  BY <1>3, <1>r DEF RenderRun, DropRun, CommitRun, KeepFiles, KeepHistory, runFiles, runHist
<1>9. CASE HearRun
  <2>1. /\ ck'.next = ck.next + 1 /\ wpc = "hear" /\ wpc' = "keep" /\ losses' = losses
        /\ heard' = [heard EXCEPT ![ck.next] = heard[ck.next] + 1]
    BY <1>9, NextCheckpoint DEF HearRun
  <2>2. ck.next \in AllChunks /\ ck.next \in Nat
    BY <2>1, HeardChunk
  <2>3. heard[ck.next] <= losses
    BY <1>0, <2>1, <2>2 DEF HeardInv
  <2>4. \A c \in AllChunks : heard'[c] = IF c = ck.next THEN heard[c] + 1 ELSE heard[c]
    BY <1>0, <2>1
  <2>5. \A c \in AllChunks : heard'[c] <= losses + 1
    BY <1>0, <1>1, <2>3, <2>4 DEF HeardInv, HeardOnce
  <2>6. \A c \in AllChunks : c >= ck'.next => heard'[c] <= losses
    <3>1. \A c \in AllChunks : c >= ck.next + 1 => c >= ck.next /\ c # ck.next
      BY <1>1, <2>2
    <3> QED BY <2>1, <2>4, <3>1 DEF HeardInv
  <2> QED BY <2>1, <2>5, <2>6 DEF HeardInv, HeardOnce
<1>10. CASE BeginDiarizing \/ EndDiarizing \/ CompleteRun \/ RunRelease \/ DrainProgress
  BY <1>3, <1>10 DEF BeginDiarizing, EndDiarizing, CompleteRun, RunRelease, DrainProgress,
     KeepFiles, KeepHistory, runFiles, runHist
<1>11. CASE RequestRun \/ Tick \/ UNCHANGED runVars
  BY <1>11 DEF RequestRun, Tick, runVars, runFiles, runHist, HeardInv, HeardOnce, Readable
<1>12. CASE RunRaise \/ CrashRun
  <2>1. HalfWrite /\ UNCHANGED <<ck, heard>> /\ wpc' \in {"release", "idle"}
    BY <1>12 DEF RunRaise, CrashRun
  <2>2. CASE wpc # "keep" /\ file' = file
    <3>1. losses' = losses
      BY <1>0, <2>1, <2>2 DEF HalfWrite
    <3> QED BY <2>1, <2>2, <3>1 DEF HeardInv, HeardOnce, Readable
  <2>3. CASE wpc = "keep" \/ file' # file
    <3>1. losses' = losses + 1
      BY <2>1, <2>3 DEF HalfWrite
    <3>2. \A c \in AllChunks : heard'[c] <= losses' /\ heard'[c] <= losses' + 1
      BY <1>0, <1>1, <2>1, <3>1 DEF HeardInv, HeardOnce
    <3> QED BY <2>1, <3>2 DEF HeardInv, HeardOnce
  <2> QED BY <2>2, <2>3
<1> QED BY <1>4, <1>5, <1>6, <1>7, <1>8, <1>r, <1>9, <1>10, <1>11, <1>12 DEF JobRunNext, WorkerRuns

\* However often a job is paused and resumed, no chunk is transcribed more often
\* than once, and once more for each chunk or checkpoint that was not written, was
\* given up or done with.
THEOREM PausesHearNothingTwice == JobRunSpec => []HeardOnce
<1>1. RunTypes /\ JobRunInit => HeardInv
  <2> SUFFICES ASSUME JobRunInit PROVE HeardInv
    OBVIOUS
  <2>1. \A c \in AllChunks : heard[c] = 0
    BY DEF JobRunInit
  <2> QED BY <2>1 DEF JobRunInit, HeardInv, HeardOnce, Readable
<1>2. RunTypes /\ HeardInv /\ [JobRunNext]_runVars => HeardInv'
  BY HeardStep
<1>3. HeardInv => HeardOnce
  BY DEF HeardInv
<1> QED BY <1>1, <1>2, <1>3, TypesHold, PTL DEF JobRunSpec

-----------------------------------------------------------------------------
(* The progress. *)

\* The copy in the worker's session is as recent as the row, up to what the
\* diarizer's heuristic has shown in between.
Transcribing == {"loop", "render", "hear", "keep", "commit", "whole", "drop", "transcribed"}
PercentInv ==
    /\ wpc \in Transcribing => row.percent = mem.percent
    /\ wpc = "diarizing" =>
         /\ mem.percent <= row.percent
         /\ row.percent <= Atleast(mem.percent, 95)

Rises == wpc \notin {"claim", "begin"} => row'.percent >= row.percent

LEMMA PercentStep ==
  ASSUME RunTypes, PercentInv, [JobRunNext]_runVars
  PROVE  PercentInv' /\ Rises
<1>0. /\ RowTypes /\ row \in RunRow /\ mem \in RunRow /\ row.percent \in 0..100 /\ mem.percent \in 0..100
      /\ row' \in RunRow /\ mem' \in RunRow /\ row'.percent \in 0..100 /\ mem'.percent \in 0..100
      /\ share \in 0..100 /\ 95 \in 0..100 /\ 100 \in 0..100
  <2>1. RowTypes /\ RowTypes' /\ share \in AsrShares
    BY TypesSplit, RowStep DEF FileTypes
  <2>2. \A r \in RunRow : r.percent \in 0..100
    BY DEF RunRow
  <2>3. share \in 0..100
    BY <2>1, JobRunConstants
  <2> QED BY <2>1, <2>2, <2>3 DEF RowTypes
<1>1. \A p : StopOr(p) => row'.percent = row.percent /\ mem' = row' /\ wpc' \in {"release", p}
  BY <1>0, StopEffect
<1>2. \A new \in RunRow : Write(new) => /\ row'.percent = Put(mem.percent, new.percent, row.percent)
                                        /\ mem' = new
  BY <1>0, WriteRow
<1>3. ASSUME row'.percent = row.percent,
             \/ mem'.percent = row'.percent
             \/ wpc' \notin Transcribing \cup {"diarizing"}
             \/ mem'.percent = mem.percent /\ wpc' = wpc
      PROVE  PercentInv' /\ Rises
  BY <1>0, <1>3 DEF PercentInv, Transcribing, Rises, Atleast
<1>4. CASE FetchRun \/ ConfirmRun \/ PrepareRun
  BY <1>1, <1>3, <1>4 DEF FetchRun, ConfirmRun, PrepareRun, Settle, Transcribing
<1>5. CASE ClaimRun
  BY <1>5 DEF ClaimRun, PercentInv, Transcribing, Rises
<1>6. CASE BeginRun
  BY <1>0, <1>1, <1>6 DEF BeginRun, PercentInv, Transcribing, Rises
<1>7. CASE OpenRun
  <2>1. [row EXCEPT !.path = TRUE].percent = row.percent
    BY <1>0 DEF RunRow
  <2> QED BY <1>1, <1>3, <1>7, <2>1 DEF OpenRun, Settle
<1>8. CASE LoopRun
  <2>1. wpc = "loop" /\ row.percent = mem.percent
    BY <1>8 DEF LoopRun, PercentInv, Transcribing
  <2> QED BY <1>1, <1>3, <1>8, <2>1 DEF LoopRun, Settle
<1>9. CASE SaveRun \/ RunRelease
  BY <1>3, <1>9 DEF SaveRun, RunRelease, Transcribing
<1>r. CASE RenderRun \/ WholeRun \/ HearRun \/ KeepRun
  <2>1. wpc \in Transcribing /\ UNCHANGED <<row, mem>>
    BY <1>r DEF RenderRun, WholeRun, HearRun, KeepRun, Transcribing
  <2> QED BY <1>3, <2>1 DEF PercentInv
<1>10. CASE DropRun
  <2>1. wpc = "drop" /\ row.percent = mem.percent
    BY <1>10 DEF DropRun, PercentInv, Transcribing
  <2> DEFINE new == [mem EXCEPT !.path = FALSE]
  <2>2. new \in RunRow /\ new.percent = mem.percent
    BY <1>0 DEF RunRow
  <2>3. Write(new)
    BY <1>10 DEF DropRun
  <2> HIDE DEF new
  <2>4. row'.percent = row.percent /\ mem'.percent = row'.percent
    BY <1>2, <2>1, <2>2, <2>3 DEF Put
  <2> QED BY <1>3, <2>1, <2>4
<1>11. ASSUME NEW p \in 0..100, row.percent = mem.percent,
              Write([mem EXCEPT !.percent = Atleast(@, p)])
       PROVE  row'.percent = mem'.percent /\ row'.percent >= row.percent
  <2> DEFINE new == [mem EXCEPT !.percent = Atleast(@, p)]
  <2>1. new \in RunRow /\ new.percent >= mem.percent
    BY <1>0, PercentOf
  <2>2. Write(new)
    BY <1>11
  <2> HIDE DEF new
  <2>3. row'.percent = Put(mem.percent, new.percent, row.percent) /\ mem' = new
    BY <1>2, <2>1, <2>2
  <2> QED BY <1>0, <1>11, <2>1, <2>3 DEF Put
<1>12. CASE CommitRun
  <2> DEFINE p == (ck.next * share) \div ck.total
  <2>1. p \in 0..100 /\ wpc = "commit" /\ wpc' = "loop" /\ Write([mem EXCEPT !.percent = Atleast(@, p)])
    BY <1>12, HeardPercent DEF CommitRun
  <2> HIDE DEF p
  <2>2. row'.percent = mem'.percent /\ row'.percent >= row.percent
    BY <1>11, <2>1 DEF PercentInv, Transcribing
  <2> QED BY <2>1, <2>2 DEF PercentInv, Transcribing, Rises
<1>13. CASE BeginDiarizing
  <2>1. wpc = "transcribed" /\ row.percent = mem.percent
    BY <1>13 DEF BeginDiarizing, PercentInv, Transcribing
  <2>2. CASE UNCHANGED <<row, mem>>
    BY <1>3, <2>1, <2>2
  <2>3. CASE wpc' = "diarizing" /\ Write([mem EXCEPT !.percent = Atleast(@, share)])
    <3>1. row'.percent = mem'.percent /\ row'.percent >= row.percent
      BY <1>0, <1>11, <2>1, <2>3
    <3> QED BY <1>0, <2>3, <3>1 DEF PercentInv, Transcribing, Rises, Atleast
  <2> QED BY <1>13, <2>2, <2>3 DEF BeginDiarizing
<1>14. CASE DrainProgress
  <2>1. PICK t \in DrainTargets : row' = [row EXCEPT !.percent = Atleast(@, t)]
    BY <1>14 DEF DrainProgress
  <2>2. t \in 0..100 /\ t <= 95
    BY JobRunConstants
  <2>3. row'.percent = Atleast(row.percent, t)
    BY <1>0, <2>1, <2>2, PercentOf
  <2>4. wpc = "diarizing" /\ wpc' = wpc /\ mem' = mem
    BY <1>14 DEF DrainProgress
  <2>5. mem.percent <= row.percent /\ row.percent <= Atleast(mem.percent, 95)
    BY <2>4 DEF PercentInv
  <2>6. mem.percent <= row'.percent /\ row'.percent <= Atleast(mem.percent, 95)
        /\ row'.percent >= row.percent
    BY <1>0, <2>2, <2>3, <2>5 DEF Atleast
  <2> QED BY <2>4, <2>6 DEF PercentInv, Transcribing, Rises
<1>15. CASE EndDiarizing
  <2>1. wpc = "diarizing" /\ wpc' = "check"
    BY <1>15 DEF EndDiarizing
  <2>2. mem.percent <= row.percent /\ row.percent <= Atleast(mem.percent, 95)
    BY <2>1 DEF PercentInv
  <2>3. CASE UNCHANGED <<row, mem>>
    BY <1>3, <2>1, <2>3 DEF Transcribing
  <2>4. CASE Write([mem EXCEPT !.percent = Atleast(@, 95)])
    <3> DEFINE new == [mem EXCEPT !.percent = Atleast(@, 95)]
    <3>1. new \in RunRow /\ new.percent = Atleast(mem.percent, 95)
      BY <1>0, PercentOf
    <3>2. Write(new)
      BY <2>4
    <3> HIDE DEF new
    <3>3. row'.percent = Put(mem.percent, Atleast(mem.percent, 95), row.percent)
      BY <1>2, <3>1, <3>2
    <3>4. row'.percent >= row.percent
      BY <1>0, <2>2, <3>3 DEF Put, Atleast
    <3> QED BY <2>1, <3>4 DEF PercentInv, Transcribing, Rises
  <2> QED BY <1>15, <2>3, <2>4 DEF EndDiarizing
<1>16. CASE BeginFinal
  <2>1. [row EXCEPT !.percent = Atleast(@, 95)].percent >= row.percent
    BY <1>0, PercentOf
  <2>2. \A p : StopOr("release") => wpc' = "release" /\ row'.percent = row.percent
    BY <1>1
  <2>3. CASE StopOr("release")
    BY <1>3, <2>2, <2>3 DEF Transcribing
  <2>4. CASE wpc' = "write" /\ Settle([row EXCEPT !.percent = Atleast(@, 95)])
    <3>1. row'.percent >= row.percent
      BY <2>1, <2>4 DEF Settle
    <3> QED BY <2>4, <3>1 DEF PercentInv, Transcribing, Rises
  <2> QED BY <1>16, <2>3, <2>4 DEF BeginFinal
<1>17. CASE CompleteRun
  <2> DEFINE k == Clocked(mem)
             new == [mem EXCEPT !.status = "completed", !.percent = 100, !.spent = k]
  <2>1. k \in Nat
    BY <1>0, ClockedIsNat DEF RowTypes
  <2>2. Write(new) /\ wpc' \in {"clean", "release"}
    BY <1>17 DEF CompleteRun
  <2> HIDE DEF k
  <2>3. new \in RunRow /\ new.percent = 100
    BY <1>0, <2>1 DEF RunRow, RunStatus
  <2> HIDE DEF new
  <2>4. row'.percent = Put(mem.percent, 100, row.percent)
    BY <1>2, <2>2, <2>3
  <2>5. row'.percent >= row.percent
    BY <1>0, <2>4 DEF Put
  <2> QED BY <2>2, <2>5 DEF PercentInv, Transcribing, Rises
<1>18. CASE CleanRun
  <2> DEFINE new == [mem EXCEPT !.path = FALSE]
  <2>1. new \in RunRow /\ new.percent = mem.percent
    BY <1>0 DEF RunRow
  <2>2. Write(new) /\ wpc' = "release"
    BY <1>18 DEF CleanRun
  <2> HIDE DEF new
  <2>3. row'.percent = row.percent
    BY <1>2, <2>1, <2>2 DEF Put
  <2> QED BY <1>3, <2>2, <2>3 DEF Transcribing
<1>19. CASE RunRaise
  BY <1>0, <1>3, <1>19, RaiseEffect DEF RunRaise, Transcribing
<1>20. CASE RequestRun
  <2>1. PICK st \in RunStatus : row' = [row EXCEPT !.status = st]
    BY <1>20 DEF RequestRun, CancelRun, PauseRun, ResumeRun, RunStatus
  <2>2. row'.percent = row.percent
    BY <1>0, <2>1 DEF RunRow
  <2> QED BY <1>3, <1>20, <2>2 DEF RequestRun
<1>21. CASE Tick \/ UNCHANGED runVars
  BY <1>3, <1>21 DEF Tick, runVars
<1>22. CASE CrashRun
  <2> DEFINE k == Clocked(row)
             st == IF row.status = "pausing" THEN "paused" ELSE "cancelled"
             new == [row EXCEPT !.spent = k, !.started = NoTime, !.status = st]
  <2>1. row' \in {row, new} /\ wpc' = "idle"
    BY <1>22 DEF CrashRun
  <2> HIDE DEF k, st
  <2>2. new.percent = row.percent
    BY <1>0 DEF RunRow
  <2> HIDE DEF new
  <2> QED BY <1>3, <2>1, <2>2 DEF Transcribing
<1> QED BY <1>4, <1>5, <1>6, <1>7, <1>8, <1>9, <1>r, <1>10, <1>12, <1>13, <1>14, <1>15, <1>16, <1>17, <1>18,
           <1>19, <1>20, <1>21, <1>22 DEF JobRunNext, WorkerRuns

\* The progress a user sees falls only where the worker claims the job and where
\* it begins to transcribe, whatever the diarizer's background task writes.
THEOREM ProgressRises == JobRunSpec => ProgressOnlyRises
<1>1. JobRunInit => PercentInv
  BY DEF JobRunInit, PercentInv, Transcribing
<1>2. RunTypes /\ PercentInv /\ [JobRunNext]_runVars => PercentInv' /\ Rises
  BY PercentStep
<1>3. Rises => [wpc \notin {"claim", "begin"} => row'.percent >= row.percent]_runVars
  BY DEF Rises
<1> QED BY <1>1, <1>2, <1>3, TypesHold, PTL DEF JobRunSpec, ProgressOnlyRises

-----------------------------------------------------------------------------
(* The transcript. *)

\* InOrder with the marred chunks as a parameter.
Ordered(s, n, m) ==
    /\ Len(s) = n
    /\ \A i \in 1..n : s[i] = i - 1 \/ (s[i] = Torn /\ i - 1 \in m)

LEMMA OrderedWith ==
  ASSUME NEW s, NEW n, NEW m, NEW w, m \subseteq w, Ordered(s, n, m)
  PROVE  Ordered(s, n, w)
  BY DEF Ordered

Told(n, m) == result = Whole \/ Ordered(result, n, m)
Looping == {"loop", "save", "render", "hear", "keep", "commit"}
Telling == {"drop", "transcribed", "diarizing", "check", "write"}
InPipeline == wpc \in Places \ {"idle", "claim", "claimed", "clean", "release"}
Finished == row.status = "completed"

\* Checkpoints on disk and in memory hold the chunks up to their index; a job in the
\* pipeline is not completed, so the loop overwrites no finished transcript.
OrderInv ==
    /\ Readable => Ordered(file.segs, file.next, marred) /\ file.total = planned
    /\ wpc \in Looping => Ordered(ck.segs, ck.next, marred) /\ ck.total = planned
    /\ wpc \in Telling \/ Finished => Told(planned, marred)
    /\ InPipeline => ~Finished /\ mem.status # "completed"

\* One more segment at the end.
LEMMA OneMore ==
  ASSUME NEW S, NEW s \in Seq(S), NEW n \in Nat, NEW m, Ordered(s, n, m), NEW x \in S,
         x = n \/ (x = Torn /\ n \in m)
  PROVE  Ordered(Append(s, x), n + 1, m)
<1> DEFINE t == Append(s, x)
<1>1. Len(s) = n /\ Len(t) = n + 1 /\ t[n + 1] = x
  BY DEF Ordered
<1>2. \A i \in 1..n : t[i] = s[i]
  BY <1>1
<1> HIDE DEF t
<1>3. ASSUME NEW i \in 1..(n + 1) PROVE t[i] = i - 1 \/ (t[i] = Torn /\ i - 1 \in m)
  <2>1. CASE i \in 1..n
    BY <1>2, <2>1 DEF Ordered
  <2>2. CASE i = n + 1
    <3>1. i - 1 = n
      BY <2>2
    <3> QED BY <1>1, <2>2, <3>1
  <2> QED BY <2>1, <2>2
<1> QED BY <1>1, <1>3 DEF Ordered, t

\* Where neither the transcript nor the checkpoints change, except that a file may
\* be torn and a chunk marred.
LEMMA OrderKept ==
  ASSUME RunTypes, OrderInv, UNCHANGED <<ck, result, planned>>,
         file' = file \/ file' \in {NoFile, Torn}, marred \subseteq marred',
         wpc' \in Looping => wpc \in Looping,
         wpc' \in Telling => wpc \in Telling,
         Finished' => Finished \/ wpc \in Telling,
         InPipeline' => ~Finished' /\ mem'.status # "completed"
  PROVE  OrderInv'
<1>1. \A s, n : Ordered(s, n, marred) => Ordered(s, n, marred')
  BY OrderedWith
<1>2. Told(planned, marred) => Told(planned, marred)'
  BY <1>1 DEF Told
<1> QED BY <1>1, <1>2 DEF OrderInv, Readable

LEMMA StatusWrite ==
  ASSUME RowTypes, NEW new \in RunRow, Write(new)
  PROVE  mem' = new /\ row'.status = (IF new.status = mem.status THEN row.status ELSE new.status)
  BY WriteRow DEF RowTypes, Put

LEMMA OrderStep ==
  ASSUME RunTypes, OrderInv, [JobRunNext]_runVars
  PROVE  OrderInv'
<1>0. /\ RowTypes /\ row \in RunRow /\ mem \in RunRow /\ FileTypes
      /\ ck.next \in Nat /\ ck.segs \in Seq(AllChunks \cup {Torn}) /\ NoFile # Torn /\ share \in 0..100
      /\ died \in Nat /\ now \in Nat
  <2>1. RowTypes /\ FileTypes /\ ck \in Checkpoint /\ share \in AsrShares /\ died \in Nat
    BY TypesSplit DEF FileTypes
  <2>2. share \in 0..100 /\ NoFile # Torn
    BY <2>1, JobRunConstants
  <2>3. ck.next \in Nat /\ ck.segs \in Seq(AllChunks \cup {Torn})
    BY <2>1 DEF Checkpoint
  <2> QED BY <2>1, <2>2, <2>3 DEF RowTypes
<1>1. \A p : StopOr(p) => mem' = row' /\ row'.status # "completed" /\ wpc' \in {"release", p}
  BY <1>0, StopEffect
<1>p. \A r \in RunRow : \A q \in 0..100 :
        /\ [r EXCEPT !.percent = q] \in RunRow /\ [r EXCEPT !.percent = q].status = r.status
        /\ [r EXCEPT !.percent = Atleast(@, q)] \in RunRow
        /\ [r EXCEPT !.percent = Atleast(@, q)].status = r.status
        /\ [r EXCEPT !.path = TRUE].status = r.status
        /\ [r EXCEPT !.path = FALSE].status = r.status /\ [r EXCEPT !.path = FALSE] \in RunRow
  <2>1. \A r \in RunRow : \A q \in 0..100 :
        /\ [r EXCEPT !.percent = q] \in RunRow /\ [r EXCEPT !.percent = q].status = r.status
        /\ [r EXCEPT !.path = TRUE].status = r.status
        /\ [r EXCEPT !.path = FALSE].status = r.status /\ [r EXCEPT !.path = FALSE] \in RunRow
    BY DEF RunRow
  <2>2. \A r \in RunRow : \A q \in 0..100 :
        /\ [r EXCEPT !.percent = Atleast(@, q)] \in RunRow
        /\ [r EXCEPT !.percent = Atleast(@, q)].status = r.status
    BY PercentOf
  <2> QED BY <2>1, <2>2
<1>q. 0 \in 0..100 /\ 95 \in 0..100
  OBVIOUS
<1>2. CASE FetchRun
  <2>1. UNCHANGED <<file, ck, result, planned, marred>>
    BY <1>2 DEF FetchRun, KeepFiles, KeepHistory, runFiles, runHist, runBounds
  <2>2. wpc' \in {"release", "claim"} /\ (Finished' => Finished)
    BY <1>1, <1>2 DEF FetchRun, Settle, Finished
  <2> QED BY <2>1, <2>2, OrderKept DEF InPipeline, Looping, Telling
<1>3. CASE ClaimRun
  <2> DEFINE new == [mem EXCEPT !.status = "processing", !.percent = 0, !.started = now]
  <2>1. new \in RunRow /\ new.status = "processing"
    BY <1>0, <1>q DEF RunRow, RunStatus, Times
  <2>2. Write(new) /\ wpc' = "claimed"
    BY <1>3 DEF ClaimRun
  <2> HIDE DEF new
  <2>3. Finished' => Finished
    BY <1>0, <2>1, <2>2, StatusWrite DEF Finished
  <2>4. UNCHANGED <<file, ck, result, planned, marred>>
    BY <1>3 DEF ClaimRun, KeepFiles, KeepHistory, runFiles, runHist, runBounds
  <2> QED BY <2>2, <2>3, <2>4, OrderKept DEF InPipeline, Looping, Telling
<1>4. CASE ConfirmRun
  <2>1. UNCHANGED <<file, ck, result, planned, marred>>
    BY <1>4 DEF ConfirmRun, KeepFiles, KeepHistory, runFiles, runHist, runBounds
  <2>2. row' = row /\ mem' = row /\ wpc' = IF row.status = "processing" THEN "prepare" ELSE "release"
    BY <1>4 DEF ConfirmRun, Settle
  <2> QED BY <2>1, <2>2, OrderKept DEF InPipeline, Looping, Telling, Finished
<1>5. CASE PrepareRun \/ BeginRun
  <2>1. UNCHANGED <<file, ck, result, planned, marred>> /\ wpc \in {"prepare", "begin"}
    BY <1>5 DEF PrepareRun, BeginRun, KeepFiles, KeepHistory, runFiles, runHist, runBounds
  <2>2. wpc' \in {"release", "begin", "open"} /\ ~Finished' /\ mem'.status # "completed"
    <3>1. ~Finished
      BY <2>1 DEF OrderInv, InPipeline, Places
    <3>2. [row EXCEPT !.percent = 0].status = row.status
      BY <1>0, <1>p, <1>q
    <3>3. CASE PrepareRun
      BY <1>1, <3>1, <3>3 DEF PrepareRun, Settle, Finished
    <3>4. CASE BeginRun
      BY <1>1, <3>1, <3>2, <3>4 DEF BeginRun, Settle, Finished
    <3> QED BY <1>5, <3>3, <3>4
  <2> QED BY <2>1, <2>2, OrderKept DEF InPipeline, Looping, Telling
<1>6. CASE OpenRun
  <2>1. wpc = "open" /\ UNCHANGED <<file, result, marred>> /\ ~Finished
    BY <1>6 DEF OpenRun, runFiles, runBounds, OrderInv, InPipeline, Places
  <2>2. wpc' \in {"release", "loop"} /\ ~Finished' /\ mem'.status # "completed"
    BY <1>0, <1>1, <1>p, <1>q, <1>6, <2>1 DEF OpenRun, Settle, Finished
  <2>3. CASE UNCHANGED <<ck, planned>> /\ wpc' = "release"
    BY <2>1, <2>2, <2>3, OrderKept DEF Looping, Telling
  <2>4. ASSUME ~Readable, NEW n \in Durations, ck' = NewCheckpoint(n), planned' = n
        PROVE  OrderInv'
    <3>1. ck'.total = planned' /\ ck'.next = 0 /\ ck'.segs = <<>>
      BY <2>4, FreshCheckpoint
    <3>2. Ordered(ck'.segs, ck'.next, marred')
      BY <3>1 DEF Ordered
    <3> QED BY <2>1, <2>2, <2>4, <3>1, <3>2 DEF OrderInv, Readable, Telling
  <2>5. CASE Readable /\ ck' = file /\ planned' = planned
    BY <2>1, <2>2, <2>5 DEF OrderInv, Readable, Telling
  <2>6. StopOr("release") => wpc' = "release"
    BY <1>1
  <2> QED BY <1>6, <2>3, <2>4, <2>5, <2>6 DEF OpenRun, Readable
<1>7. CASE LoopRun
  <2>1. wpc = "loop" /\ UNCHANGED <<file, ck, planned, marred>>
    BY <1>7 DEF LoopRun, KeepHistory, runFiles, runHist, runBounds
  <2>2. ~Finished /\ mem.status # "completed" /\ Ordered(ck.segs, ck.next, marred) /\ ck.total = planned
    BY <2>1 DEF OrderInv, InPipeline, Places, Looping
  <2>3. CASE ck.next >= ck.total /\ result' = ck.segs /\ wpc' = "transcribed" /\ UNCHANGED <<row, mem>>
    <3>1. ck.next = ck.total
      BY <1>0, <2>3, DurationsArePositive DEF FileTypes, Checkpoint
    <3>2. Told(planned, marred)'
      BY <2>1, <2>2, <2>3, <3>1 DEF Told
    <3> QED BY <2>1, <2>2, <2>3, <3>2 DEF OrderInv, Readable, InPipeline, Finished, Looping
  <2>4. CASE result' = result /\ (StopOr("save") \/ (Settle(row) /\ wpc' = "render"))
    <3>1. wpc' \in {"save", "render", "release"} /\ ~Finished' /\ mem'.status # "completed"
      BY <1>1, <2>2, <2>4 DEF Settle, Finished
    <3> QED BY <2>1, <2>4, <3>1, OrderKept DEF Looping, Telling
  <2> QED BY <1>7, <2>3, <2>4 DEF LoopRun
<1>8. CASE SaveRun \/ KeepRun
  <2>1. /\ wpc \in {"save", "keep"} /\ file' = ck /\ UNCHANGED <<row, mem, ck, result, planned, marred>>
        /\ wpc' = IF wpc = "save" THEN "release" ELSE "commit"
    BY <1>8 DEF SaveRun, KeepRun, KeepHistory, runHist, runBounds
  <2>2. ~Finished /\ mem.status # "completed"
    BY <2>1 DEF OrderInv, InPipeline, Places
  <2> QED BY <2>1, <2>2 DEF OrderInv, InPipeline, Finished, Looping, Telling
<1>9. CASE RenderRun
  <2>1. /\ wpc = "render" /\ wpc' \in {"hear", "whole"} /\ UNCHANGED <<row, mem, file, ck, result, planned>>
        /\ marred \subseteq marred'
    BY <1>9 DEF RenderRun, PartialChunk
  <2>2. ~Finished /\ mem.status # "completed"
    BY <2>1 DEF OrderInv, InPipeline, Places
  <2> QED BY <2>1, <2>2, OrderKept DEF Finished, Looping, Telling
<1>h. CASE WholeRun
  <2>1. /\ wpc = "whole" /\ result' = Whole /\ file' = NoFile /\ wpc' = "drop" /\ UNCHANGED <<row, mem>>
    BY <1>h DEF WholeRun
  <2>2. ~Finished /\ mem.status # "completed"
    BY <2>1 DEF OrderInv, InPipeline, Places
  <2> QED BY <2>1, <2>2 DEF OrderInv, Readable, Told, Finished, Looping
<1>d. CASE DropRun
  <2> DEFINE new == [mem EXCEPT !.path = FALSE]
  <2>1. new \in RunRow /\ new.status = mem.status
    BY <1>0, <1>p, <1>q
  <2>2. Write(new) /\ wpc = "drop" /\ wpc' = "transcribed" /\ UNCHANGED <<file, ck, result, planned, marred>>
    BY <1>d DEF DropRun, KeepFiles, KeepHistory, runFiles, runHist
  <2> HIDE DEF new
  <2>3. ~Finished /\ mem.status # "completed"
    BY <2>2 DEF OrderInv, InPipeline, Places
  <2>4. ~Finished' /\ mem'.status # "completed"
    BY <1>0, <2>1, <2>2, <2>3, StatusWrite DEF Finished
  <2> QED BY <2>2, <2>4, OrderKept DEF Looping, Telling
<1>10. ASSUME NEW q \in 0..100, Write([mem EXCEPT !.percent = Atleast(@, q)])
       PROVE  mem'.status = mem.status /\ row'.status = row.status
  <2> DEFINE new == [mem EXCEPT !.percent = Atleast(@, q)]
  <2>1. new \in RunRow /\ new.status = mem.status
    BY <1>0, <1>p
  <2>2. Write(new)
    BY <1>10
  <2> HIDE DEF new
  <2> QED BY <1>0, <2>1, <2>2, StatusWrite
<1>11. CASE HearRun
  <2>1. wpc = "hear" /\ wpc' = "keep" /\ UNCHANGED <<row, mem, file, marred, planned, result>>
    BY <1>11 DEF HearRun, runFiles
  <2>2. ~Finished /\ mem.status # "completed"
    BY <2>1 DEF OrderInv, InPipeline, Places
  <2>3. /\ ck'.next = ck.next + 1 /\ ck'.total = ck.total
        /\ ck'.segs = Append(ck.segs, Heard(ck.next))
    BY <1>11, <2>1, NextCheckpoint DEF HearRun
  <2>4. /\ Heard(ck.next) = ck.next \/ (Heard(ck.next) = Torn /\ ck.next \in marred)
        /\ Heard(ck.next) \in AllChunks \cup {Torn}
    BY <1>0, <2>1, HeardChunk DEF Heard, FileTypes
  <2>5. Ordered(ck.segs, ck.next, marred) /\ ck.total = planned
    BY <2>1 DEF OrderInv, Looping
  <2>6. Ordered(Append(ck.segs, Heard(ck.next)), ck.next + 1, marred)
    BY <1>0, <2>4, <2>5, OneMore
  <2>7. Ordered(ck'.segs, ck'.next, marred') /\ ck'.total = planned'
    BY <2>1, <2>3, <2>5, <2>6
  <2> QED BY <2>1, <2>2, <2>7 DEF OrderInv, Readable, Finished, Told, Telling
<1>c. CASE CommitRun
  <2> DEFINE q == (ck.next * share) \div ck.total
  <2>1. q \in 0..100 /\ wpc = "commit" /\ wpc' = "loop" /\ Write([mem EXCEPT !.percent = Atleast(@, q)])
    BY <1>c, HeardPercent DEF CommitRun
  <2> HIDE DEF q
  <2>2. mem'.status = mem.status /\ row'.status = row.status
    BY <1>10, <2>1
  <2>3. ~Finished' /\ mem'.status # "completed"
    BY <2>1, <2>2 DEF OrderInv, InPipeline, Places, Finished
  <2>4. UNCHANGED <<file, ck, result, planned, marred>>
    BY <1>c DEF CommitRun, KeepFiles, KeepHistory, runFiles, runHist
  <2> QED BY <2>1, <2>3, <2>4, OrderKept DEF Looping, Telling
<1>12. CASE BeginDiarizing \/ EndDiarizing
  <2>1. /\ UNCHANGED <<file, ck, result, planned, marred>> /\ wpc \in {"transcribed", "diarizing"}
        /\ wpc' \in {"check", "diarizing"}
    BY <1>12 DEF BeginDiarizing, EndDiarizing, KeepFiles, KeepHistory, runFiles, runHist, runBounds
  <2>2. mem'.status = mem.status /\ row'.status = row.status
    BY <1>0, <1>q, <1>10, <1>12 DEF BeginDiarizing, EndDiarizing
  <2>3. ~Finished /\ mem.status # "completed"
    BY <2>1 DEF OrderInv, InPipeline, Places
  <2> QED BY <2>1, <2>2, <2>3, OrderKept DEF Finished, Looping, Telling
<1>13. CASE DrainProgress
  <2>1. PICK t \in DrainTargets : row' = [row EXCEPT !.percent = Atleast(@, t)]
    BY <1>13 DEF DrainProgress
  <2>2. t \in 0..100
    BY JobRunConstants
  <2>3. row'.status = row.status /\ mem' = mem /\ wpc' = wpc
    BY <1>0, <1>p, <1>13, <2>1, <2>2 DEF DrainProgress
  <2>4. UNCHANGED <<file, ck, result, planned, marred>>
    BY <1>13 DEF DrainProgress, KeepFiles, KeepHistory, runFiles, runHist, runBounds
  <2> QED BY <2>3, <2>4, OrderKept DEF Looping, Telling, OrderInv, InPipeline, Finished
<1>14. CASE BeginFinal
  <2>1. UNCHANGED <<file, ck, result, planned, marred>> /\ wpc = "check" /\ wpc' \in {"release", "write"}
    BY <1>1, <1>14 DEF BeginFinal, KeepFiles, KeepHistory, runFiles, runHist, runBounds
  <2>2. ~Finished
    BY <2>1 DEF OrderInv, InPipeline, Places
  <2>3. ~Finished' /\ mem'.status # "completed"
    <3> DEFINE new == [row EXCEPT !.percent = Atleast(@, 95)]
    <3>1. new.status = row.status
      BY <1>0, <1>p, <1>q
    <3>2. StopOr("release") \/ (row' = new /\ mem' = new)
      BY <1>14 DEF BeginFinal, Settle
    <3> HIDE DEF new
    <3> QED BY <1>1, <2>2, <3>1, <3>2 DEF Finished
  <2> QED BY <2>1, <2>3, OrderKept DEF Looping, Telling
<1>15. CASE CompleteRun
  <2>1. UNCHANGED <<file, ck, result, planned, marred>> /\ wpc = "write" /\ wpc' \in {"clean", "release"}
    BY <1>15 DEF CompleteRun, KeepFiles, KeepHistory, runFiles, runHist, runBounds
  <2> QED BY <2>1, OrderKept DEF InPipeline, Looping, Telling
<1>16. CASE CleanRun
  <2> DEFINE new == [mem EXCEPT !.path = FALSE]
  <2>1. new \in RunRow /\ new.status = mem.status
    BY <1>0, <1>p, <1>q
  <2>2. Write(new) /\ wpc' = "release" /\ file' = NoFile /\ UNCHANGED <<ck, result, planned, marred>>
    BY <1>16 DEF CleanRun, runBounds
  <2> HIDE DEF new
  <2>3. Finished' => Finished
    BY <1>0, <2>1, <2>2, StatusWrite DEF Finished
  <2> QED BY <2>2, <2>3, OrderKept DEF InPipeline, Looping, Telling
<1>17. CASE RunRaise
  <2>1. ~Finished' /\ wpc' = "release"
    BY <1>0, <1>17, RaiseEffect DEF RunRaise, Finished
  <2>2. UNCHANGED <<ck, result, planned, marred>> /\ file' \in {file, Torn}
    BY <1>17 DEF RunRaise, HalfWrite
  <2> QED BY <2>1, <2>2, OrderKept DEF InPipeline, Looping, Telling
<1>18. CASE RunRelease
  <2>1. UNCHANGED <<row, file, ck, result, planned, marred>> /\ wpc' = "idle"
    BY <1>18 DEF RunRelease, KeepHistory, runHist, runBounds
  <2> QED BY <2>1, OrderKept DEF InPipeline, Looping, Telling, Finished
<1>19. CASE RequestRun
  <2>1. PICK st \in RunStatus \ {"completed"} : row' = [row EXCEPT !.status = st]
    BY <1>19 DEF RequestRun, CancelRun, PauseRun, ResumeRun, RunStatus
  <2>2. row'.status = st
    BY <1>0, <2>1 DEF RunRow
  <2>3. UNCHANGED <<file, ck, result, planned, marred, mem, wpc>>
    BY <1>19 DEF RequestRun, runFiles, runHist
  <2> QED BY <2>2, <2>3, OrderKept DEF Looping, Telling, OrderInv, InPipeline, Finished
<1>20. CASE Tick \/ UNCHANGED runVars
  BY <1>20, OrderKept DEF Tick, runVars, runFiles, runHist, runBounds, OrderInv, InPipeline, Finished
<1>21. CASE CrashRun
  <2> DEFINE k == Clocked(row)
             st == IF row.status = "pausing" THEN "paused" ELSE "cancelled"
             new == [row EXCEPT !.spent = k, !.started = NoTime, !.status = st]
  <2>1. /\ row' \in {row, new} /\ wpc' = "idle" /\ file' \in {file, Torn}
        /\ UNCHANGED <<ck, result, planned>> /\ marred \subseteq marred'
    BY <1>21 DEF CrashRun, HalfWrite, PartialChunk
  <2>2. st \in {"paused", "cancelled"}
    OBVIOUS
  <2> HIDE DEF k, st
  <2>3. new.status # "completed"
    BY <1>0, <2>2 DEF RunRow
  <2> HIDE DEF new
  <2>4. Finished' => Finished
    BY <2>1, <2>3 DEF Finished
  <2> QED BY <2>1, <2>4, OrderKept DEF InPipeline, Looping, Telling
<1> QED BY <1>2, <1>3, <1>4, <1>5, <1>6, <1>7, <1>8, <1>9, <1>h, <1>d, <1>11, <1>c, <1>12, <1>13, <1>14, <1>15, <1>16,
           <1>17, <1>18, <1>19, <1>20, <1>21 DEF JobRunNext, WorkerRuns

\* The transcript of a completed job has every chunk of the probed media once and
\* in order, for media of any length and any number of pauses and deaths.
THEOREM TranscriptStaysWhole == JobRunSpec => []TranscriptIsWhole
<1>1. JobRunInit => OrderInv
  BY DEF JobRunInit, OrderInv, Readable, InPipeline, Finished, Looping, Telling
<1>2. RunTypes /\ OrderInv /\ [JobRunNext]_runVars => OrderInv'
  BY OrderStep
<1>3. OrderInv => TranscriptIsWhole
  BY DEF OrderInv, Finished, Told, Ordered, TranscriptIsWhole, InOrder
<1> QED BY <1>1, <1>2, <1>3, TypesHold, PTL DEF JobRunSpec

-----------------------------------------------------------------------------
(* The time. *)

\* Where the worker has claimed the job and not stopped.
Claimed == {"claimed", "prepare", "begin", "open", "loop", "render", "hear", "keep",
            "commit", "whole", "drop", "transcribed",
            "diarizing", "check", "write"}

\* A worker has the job; the clock runs.
Held == row.status \in Running \/ (row.status = "cancelled" /\ wpc \in Claimed)

\* A number of whole seconds stands for w ticks in n runs.
Tallies(s, w, n) ==
    /\ Second * s <= w
    /\ w <= Second * s + n * (Second - 1)

\* While a worker has the job, the time since the claim is still to be added; the
\* worker's copy agrees with the row on both columns that are needed to add it.
TimeInv ==
    died = 0 /\ ~unsaved =>
      /\ Held => /\ row.started \in Nat /\ claims > 0 /\ now - row.started <= worked
                 /\ Tallies(row.spent, worked - (now - row.started), claims - 1)
      /\ ~Held /\ (row.status # "cancelled" \/ wpc = "claim") => Tallies(row.spent, worked, claims)
      /\ wpc \in Claimed \cup {"claim"} => mem.started = row.started /\ mem.spent = row.spent
      /\ row.status = "processing" => wpc \in Claimed
      /\ wpc \in Claimed => Held
      /\ wpc = "claim" => row.status \notin Running /\ mem.status \notin Running
      /\ wpc = "write" => mem.status = "processing"

SameTime == UNCHANGED <<died, worked, claims, unsaved, now>>

LEMMA TallyTypes ==
  ASSUME NEW a \in Nat, NEW n \in Nat
  PROVE  Second * a \in Nat /\ n * (Second - 1) \in Nat
<1>1. Second \in Nat /\ Second - 1 \in Nat
  BY JobRunConstants
<1> DEFINE r == Second - 1
<1> HIDE DEF r
<1>2. \A x, y \in Nat : x * y \in Nat
  OBVIOUS
<1> QED BY <1>1, <1>2 DEF r

\* One more run drops less than a second.
LEMMA OneMoreRun ==
  ASSUME NEW a \in Nat, NEW w \in Nat, NEW n \in Nat, Tallies(a, w, n)
  PROVE  Tallies(a, w, n + 1)
<1> DEFINE r == Second - 1
<1>1. r \in Nat /\ n * r \in Nat /\ Second * a \in Nat
  BY TallyTypes, JobRunConstants
<1>2. Second * a <= w /\ w <= Second * a + n * r
  BY DEF Tallies
<1> HIDE DEF r
<1>3. (n + 1) * r = n * r + r
  BY <1>1
<1> DEFINE x == Second * a
           y == n * r
           z == (n + 1) * r
<1>4. x \in Nat /\ y \in Nat /\ z = y + r /\ x <= w /\ w <= x + y
  BY <1>1, <1>2, <1>3
<1> HIDE DEF x, y, z
<1>5. x <= w /\ w <= x + z
  BY <1>1, <1>4
<1> QED BY <1>5 DEF Tallies, x, y, z, r

\* Whole seconds of the time since the claim.
LEMMA TallyClosed ==
  ASSUME NEW a \in Nat, NEW w \in Nat, NEW e \in Nat, NEW n \in Nat, Tallies(a, w, n)
  PROVE  Tallies(a + (e \div Second), w + e, n + 1)
<1> DEFINE r == Second - 1
           q == e \div Second
<1>1. Second \in Nat \ {0} /\ r \in Nat /\ n * r \in Nat /\ Second * a \in Nat /\ Second = r + 1
  BY TallyTypes, JobRunConstants
<1>2. q \in Nat /\ Second * q <= e /\ e <= Second * q + r
  BY <1>1
<1>3. Second * a <= w /\ w <= Second * a + n * r
  BY DEF Tallies
<1> HIDE DEF r, q
<1>4. Second * (a + q) = Second * a + Second * q /\ (n + 1) * r = n * r + r /\ Second * q \in Nat
  BY <1>1, <1>2
<1> DEFINE x == Second * a
           y == n * r
           z == Second * q
<1>5. x \in Nat /\ y \in Nat /\ z \in Nat /\ x <= w /\ w <= x + y /\ z <= e /\ e <= z + r
  BY <1>1, <1>2, <1>3, <1>4
<1>6. Second * (a + q) = x + z /\ (n + 1) * r = y + r
  BY <1>4
<1> HIDE DEF x, y, z
<1>7. x + z <= w + e /\ w + e <= (x + z) + (y + r)
  BY <1>1, <1>5
<1> QED BY <1>6, <1>7 DEF Tallies, r, q

\* The clock of a running job tells the whole seconds of all the work there was.
LEMMA ClockedIsWork ==
  ASSUME RunTypes, TimeInv, died = 0, ~unsaved, Held
  PROVE  Tallies(Clocked(row), worked, claims)
<1> DEFINE e == now - row.started
           w == worked - e
           n == claims - 1
<1>1. /\ row.started \in Nat /\ claims > 0 /\ e <= worked /\ Tallies(row.spent, w, n)
  BY DEF TimeInv
<1>2. row.started # NoTime
  BY <1>1, JobRunConstants
<1>3. worked \in Nat /\ claims \in Nat /\ now \in Nat /\ row.spent \in Nat /\ row.started <= now
  BY <1>2 DEF RunTypes, JobRunTypeOK, RunRow, Past
<1>4. e \in Nat /\ w \in Nat /\ n \in Nat /\ w + e = worked /\ n + 1 = claims
  BY <1>1, <1>3
<1>5. Clocked(row) = row.spent + (e \div Second)
  BY <1>2 DEF Clocked
<1> HIDE DEF e, w, n
<1>6. Tallies(row.spent + (e \div Second), w + e, n + 1)
  BY <1>1, <1>3, <1>4, TallyClosed
<1> QED BY <1>4, <1>5, <1>6

\* Where the columns of the row that matter here are kept.
LEMMA TimeKept ==
  ASSUME TimeInv, SameTime,
         row'.status = row.status /\ row'.started = row.started /\ row'.spent = row.spent,
         \/ mem'.started = mem.started /\ mem'.spent = mem.spent /\ mem'.status = mem.status
         \/ mem'.started = row.started /\ mem'.spent = row.spent /\ mem'.status = row.status,
         wpc' \in Claimed => wpc \in Claimed,
         wpc \in Claimed => wpc' \in Claimed \/ row.status # "processing",
         wpc' = "claim" => wpc = "claim",
         died = 0 /\ ~unsaved /\ wpc' = "write" => mem'.status = "processing"
  PROVE  TimeInv'
<1>1. Held' => Held
  BY DEF Held
<1>2. Held /\ ~Held' => row'.status = "cancelled" /\ wpc' # "claim"
  BY DEF Held, Claimed
<1>3. row.started' = row.started /\ row.spent' = row.spent /\ worked' = worked /\ now' = now /\ claims' = claims
      /\ died' = died /\ unsaved' = unsaved
  BY DEF SameTime
<1>4. Tallies(row.spent, worked, claims)' <=> Tallies(row.spent, worked, claims)
  BY <1>3 DEF Tallies
<1>5. Tallies(row.spent, worked - (now - row.started), claims - 1)'
        <=> Tallies(row.spent, worked - (now - row.started), claims - 1)
  BY <1>3 DEF Tallies
<1>6. died = 0 /\ ~unsaved /\ wpc' \in Claimed => Held'
  BY DEF TimeInv, Held
<1> QED BY <1>1, <1>2, <1>3, <1>4, <1>5, <1>6 DEF TimeInv, Claimed

\* A row that is settled after the time since the claim was added.
LEMMA TimeSettled ==
  ASSUME TimeInv, SameTime, wpc' \notin Claimed \cup {"claim", "write"}, row'.status \notin Running,
         died = 0 /\ ~unsaved /\ row'.status # "cancelled" => Tallies(row'.spent, worked, claims)
  PROVE  TimeInv'
<1>1. ~Held'
  BY DEF Held
<1>2. died' = died /\ unsaved' = unsaved /\ worked' = worked /\ claims' = claims
  BY DEF SameTime
<1>3. Tallies(row'.spent, worked, claims) => Tallies(row.spent, worked, claims)'
  BY <1>2 DEF Tallies
<1>4. row'.status # "processing" /\ wpc' # "claim" /\ wpc' # "write" /\ wpc' \notin Claimed
  BY DEF Running
<1> QED BY <1>1, <1>2, <1>3, <1>4 DEF TimeInv

LEMMA TimeStopped ==
  ASSUME RunTypes, TimeInv, SameTime, NEW p \in {"release", "save"}, StopOr(p)
  PROVE  TimeInv'
<1>1. /\ row'.status \in {"cancelled", "paused"} /\ wpc' \in {"release", p}
      /\ row'.status = "paused" => \/ row.status = "pausing" /\ row'.spent = Clocked(row)
                                   \/ row.status = "paused" /\ row' = row
  BY TypesSplit, StopEffect
<1>2. died = 0 /\ ~unsaved /\ row'.status # "cancelled" => Tallies(row'.spent, worked, claims)
  <2>1. died = 0 /\ ~unsaved /\ row.status = "pausing" => Tallies(Clocked(row), worked, claims)
    BY ClockedIsWork DEF Running, Held
  <2>2. died = 0 /\ ~unsaved /\ row.status = "paused" => Tallies(row.spent, worked, claims)
    BY DEF TimeInv, Running, Held
  <2> QED BY <1>1, <2>1, <2>2
<1>3. row'.status \notin Running /\ wpc' \notin Claimed \cup {"claim", "write"}
  BY <1>1 DEF Running, Claimed
<1> QED BY <1>2, <1>3, TimeSettled

LEMMA TimeStep ==
  ASSUME RunTypes, TimeInv, [JobRunNext]_runVars
  PROVE  TimeInv'
<1>0. /\ RowTypes /\ row \in RunRow /\ mem \in RunRow /\ now \in Nat /\ worked \in Nat /\ died \in Nat
      /\ claims \in Nat /\ row.spent \in Nat
      /\ share \in 0..100 /\ 0 \in 0..100 /\ 95 \in 0..100 /\ 100 \in 0..100
  <2>1. share \in 0..100
    <3>1. share \in AsrShares
      BY TypesSplit DEF FileTypes
    <3> QED BY <3>1, JobRunConstants
  <2>2. row \in RunRow
    BY TypesSplit DEF RowTypes
  <2>3. row.spent \in Nat
    BY <2>2 DEF RunRow
  <2> QED BY <2>1, <2>3, TypesSplit DEF RowTypes, FileTypes
<1>p. \A r \in RunRow : \A q \in 0..100 :
        /\ [r EXCEPT !.percent = q] \in RunRow /\ [r EXCEPT !.path = TRUE] \in RunRow
        /\ [r EXCEPT !.percent = Atleast(@, q)] \in RunRow /\ [r EXCEPT !.path = FALSE] \in RunRow
        /\ LET e == [r EXCEPT !.percent = q] IN
             e.status = r.status /\ e.started = r.started /\ e.spent = r.spent
        /\ LET e == [r EXCEPT !.path = TRUE] IN
             e.status = r.status /\ e.started = r.started /\ e.spent = r.spent
        /\ LET e == [r EXCEPT !.path = FALSE] IN
             e.status = r.status /\ e.started = r.started /\ e.spent = r.spent
        /\ LET e == [r EXCEPT !.percent = Atleast(@, q)] IN
             e.status = r.status /\ e.started = r.started /\ e.spent = r.spent
  <2>1. \A r \in RunRow : \A q \in 0..100 :
        /\ [r EXCEPT !.percent = q] \in RunRow /\ [r EXCEPT !.path = TRUE] \in RunRow
        /\ [r EXCEPT !.path = FALSE] \in RunRow
        /\ LET e == [r EXCEPT !.percent = q] IN
             e.status = r.status /\ e.started = r.started /\ e.spent = r.spent
        /\ LET e == [r EXCEPT !.path = TRUE] IN
             e.status = r.status /\ e.started = r.started /\ e.spent = r.spent
        /\ LET e == [r EXCEPT !.path = FALSE] IN
             e.status = r.status /\ e.started = r.started /\ e.spent = r.spent
    BY DEF RunRow
  <2>2. \A r \in RunRow : \A q \in 0..100 :
        /\ [r EXCEPT !.percent = Atleast(@, q)] \in RunRow
        /\ LET e == [r EXCEPT !.percent = Atleast(@, q)] IN
             e.status = r.status /\ e.started = r.started /\ e.spent = r.spent
    BY PercentOf
  <2> QED BY <2>1, <2>2
\* A step inside the pipeline that settles or writes one of the other columns.
<1>w. ASSUME NEW new \in RunRow, Write(new), SameTime,
             new.status = mem.status /\ new.started = mem.started /\ new.spent = mem.spent,
             wpc' \in Claimed => wpc \in Claimed,
             wpc \in Claimed => wpc' \in Claimed, wpc' \notin {"claim", "write"}
      PROVE  TimeInv'
  <2>1. /\ row'.status = row.status /\ row'.started = row.started /\ row'.spent = row.spent
        /\ mem' = new
    BY <1>0, <1>w, WriteRow DEF Put
  <2> QED BY <1>w, <2>1, TimeKept
<1>s. ASSUME NEW new \in RunRow, Settle(new), SameTime, ~Stops,
             new.status = row.status /\ new.started = row.started /\ new.spent = row.spent,
             wpc \in Claimed, wpc' \in Claimed
      PROVE  TimeInv'
  <2>1. row' = new /\ mem' = new
    BY <1>s DEF Settle
  <2>2. died = 0 /\ ~unsaved => row.status = "processing"
    BY <1>s DEF TimeInv, Held, Running, Stops
  <2>3. wpc' # "claim"
    BY <1>s DEF Claimed
  <2> QED BY <1>s, <2>1, <2>2, <2>3, TimeKept
<1>1. CASE FetchRun
  <2>1. SameTime /\ wpc = "idle"
    BY <1>1 DEF FetchRun, KeepHistory, runHist, runBounds, SameTime
  <2>2. CASE ~Stops /\ Settle(row) /\ wpc' = "claim"
    <3>1. row' = row /\ mem' = row
      BY <2>2 DEF Settle
    <3>2. died = 0 /\ ~unsaved => row.status \notin Running /\ row.status # "cancelled"
      BY <2>1, <2>2 DEF Stops, TimeInv, Running, Claimed
    <3>3. wpc' \notin Claimed /\ wpc \notin Claimed
      BY <2>1, <2>2 DEF Claimed
    <3>4. died = 0 /\ ~unsaved => ~Held /\ ~Held'
      BY <3>1, <3>2, <3>3 DEF Held
    <3>5. died = 0 /\ ~unsaved => Tallies(row.spent, worked, claims)'
      BY <2>1, <3>1, <3>2, <3>4 DEF TimeInv, SameTime, Tallies
    <3> QED BY <2>1, <2>2, <3>1, <3>2, <3>3, <3>4, <3>5 DEF TimeInv, SameTime, Running
  <2> QED BY <1>1, <2>1, <2>2, TimeStopped DEF FetchRun
<1>2. CASE ClaimRun
  <2> DEFINE new == [mem EXCEPT !.status = "processing", !.percent = 0, !.started = now]
  <2>1. new \in RunRow /\ new.status = "processing" /\ new.started = now /\ new.spent = mem.spent
    BY <1>0 DEF RunRow, RunStatus, Times
  <2>2. /\ Write(new) /\ wpc = "claim" /\ wpc' = "claimed" /\ claims' = claims + 1
        /\ UNCHANGED <<died, unsaved, worked, now>>
    BY <1>2 DEF ClaimRun, runBounds
  <2> HIDE DEF new
  <2> SUFFICES ASSUME died = 0, ~unsaved PROVE TimeInv'
    BY <2>2 DEF TimeInv
  <2>3. ~Held
    BY <2>2 DEF Held, TimeInv, Claimed
  <2>4. /\ mem.status # "processing" /\ mem.started = row.started /\ mem.spent = row.spent
        /\ Tallies(row.spent, worked, claims)
    BY <2>2, <2>3 DEF TimeInv, Running
  <2>5. /\ row'.status = "processing" /\ row'.started = now /\ row'.spent = row.spent
        /\ mem'.started = now /\ mem'.spent = row.spent
    BY <1>0, <2>1, <2>2, <2>4, WriteRow DEF Put
  <2>6. /\ worked' - (now' - row'.started) = worked /\ claims' - 1 = claims /\ claims' > 0
        /\ now' - row'.started <= worked' /\ row'.started \in Nat
    BY <1>0, <2>2, <2>5
  <2>7. Tallies(row.spent, worked - (now - row.started), claims - 1)'
    BY <2>4, <2>5, <2>6 DEF Tallies
  <2>8. wpc' \in Claimed /\ wpc' # "claim" /\ wpc' # "write" /\ Held'
    BY <2>2, <2>5 DEF Claimed, Held, Running
  <2> QED BY <2>5, <2>6, <2>7, <2>8 DEF TimeInv
<1>3. CASE ConfirmRun
  <2>1. SameTime /\ wpc = "claimed" /\ row' = row /\ mem' = row
        /\ wpc' = IF row.status = "processing" THEN "prepare" ELSE "release"
    BY <1>3 DEF ConfirmRun, KeepHistory, runHist, runBounds, SameTime, Settle
  <2> QED BY <2>1, TimeKept DEF Claimed
<1>4. CASE PrepareRun \/ BeginRun
  <2>1. SameTime /\ wpc \in {"prepare", "begin"}
    BY <1>4 DEF PrepareRun, BeginRun, KeepHistory, runHist, runBounds, SameTime
  <2>2. CASE StopOr("release")
    BY <2>1, <2>2, TimeStopped
  <2>3. CASE ~Stops /\ wpc' \in {"begin", "open"} /\ (Settle(row) \/ Settle([row EXCEPT !.percent = 0]))
    <3>1. ~Stops
      BY <2>3
    <3>2. wpc \in Claimed /\ wpc' \in Claimed
      BY <2>1, <2>3 DEF Claimed
    <3>3. CASE Settle(row)
      BY <1>0, <1>s, <2>1, <3>1, <3>2, <3>3
    <3>4. CASE Settle([row EXCEPT !.percent = 0])
      <4> DEFINE new == [row EXCEPT !.percent = 0]
      <4>1. /\ new \in RunRow /\ Settle(new) /\ new.status = row.status /\ new.started = row.started
            /\ new.spent = row.spent
        BY <1>0, <1>p, <3>4
      <4> HIDE DEF new
      <4> QED BY <1>s, <2>1, <3>1, <3>2, <4>1
    <3> QED BY <2>3, <3>3, <3>4
  <2> QED BY <1>4, <2>2, <2>3 DEF PrepareRun, BeginRun
<1>5. CASE OpenRun \/ BeginFinal
  <2>1. SameTime /\ wpc \in {"open", "check"}
    BY <1>5 DEF OpenRun, BeginFinal, KeepHistory, runHist, runBounds, SameTime
  <2>2. CASE StopOr("release")
    BY <2>1, <2>2, TimeStopped
  <2>3. CASE ~Stops /\ wpc' \in {"loop", "write"}
             /\ (Settle([row EXCEPT !.path = TRUE]) \/ Settle([row EXCEPT !.percent = Atleast(@, 95)]))
    <3>1. ~Stops
      BY <2>3
    <3>2. wpc \in Claimed /\ wpc' \in Claimed
      BY <2>1, <2>3 DEF Claimed
    <3>3. CASE Settle([row EXCEPT !.path = TRUE])
      <4> DEFINE new == [row EXCEPT !.path = TRUE]
      <4>1. /\ new \in RunRow /\ Settle(new) /\ new.status = row.status /\ new.started = row.started
            /\ new.spent = row.spent
        BY <1>0, <1>p, <3>3
      <4> HIDE DEF new
      <4> QED BY <1>s, <2>1, <3>1, <3>2, <4>1
    <3>4. CASE Settle([row EXCEPT !.percent = Atleast(@, 95)])
      <4> DEFINE new == [row EXCEPT !.percent = Atleast(@, 95)]
      <4>1. /\ new \in RunRow /\ Settle(new) /\ new.status = row.status /\ new.started = row.started
            /\ new.spent = row.spent
        BY <1>0, <1>p, <3>4
      <4> HIDE DEF new
      <4> QED BY <1>s, <2>1, <3>1, <3>2, <4>1
    <3> QED BY <2>3, <3>3, <3>4
  <2> QED BY <1>5, <2>2, <2>3 DEF OpenRun, BeginFinal
<1>6. CASE LoopRun
  <2>1. SameTime /\ wpc = "loop"
    BY <1>6 DEF LoopRun, KeepHistory, runHist, runBounds, SameTime
  <2>2. CASE StopOr("save")
    BY <2>1, <2>2, TimeStopped
  <2>3. CASE wpc' = "transcribed" /\ UNCHANGED <<row, mem>>
    BY <2>1, <2>3, TimeKept DEF Claimed
  <2>4. CASE ~Stops /\ Settle(row) /\ wpc' = "render"
    BY <1>0, <1>s, <2>1, <2>4 DEF Claimed
  <2> QED BY <1>6, <2>2, <2>3, <2>4 DEF LoopRun
<1>7. CASE SaveRun
  BY <1>7, TimeKept DEF SaveRun, KeepHistory, runHist, runBounds, SameTime, Claimed
<1>r. CASE RenderRun \/ WholeRun \/ HearRun \/ KeepRun
  <2>1. /\ SameTime /\ UNCHANGED <<row, mem>>
        /\ wpc \in {"render", "whole", "hear", "keep"} /\ wpc' \in {"hear", "whole", "drop", "keep", "commit"}
    BY <1>r DEF RenderRun, WholeRun, HearRun, KeepRun, KeepHistory, runHist, runBounds, SameTime
  <2> QED BY <2>1, TimeKept DEF Claimed
<1>8. CASE DropRun
  <2>1. SameTime /\ wpc = "drop" /\ wpc' = "transcribed"
    BY <1>8 DEF DropRun, KeepHistory, runHist, runBounds, SameTime
  <2> DEFINE new == [mem EXCEPT !.path = FALSE]
  <2>2. /\ new \in RunRow /\ Write(new) /\ new.status = mem.status /\ new.started = mem.started
        /\ new.spent = mem.spent
    BY <1>0, <1>p, <1>8 DEF DropRun
  <2> HIDE DEF new
  <2> QED BY <1>w, <2>1, <2>2 DEF Claimed
\* A worker's write of the progress alone.
<1>9. ASSUME NEW q \in 0..100, Write([mem EXCEPT !.percent = Atleast(@, q)]), SameTime,
             wpc \in Claimed, wpc' \in Claimed \ {"write"}
      PROVE  TimeInv'
  <2> DEFINE new == [mem EXCEPT !.percent = Atleast(@, q)]
  <2>1. /\ new \in RunRow /\ Write(new) /\ new.status = mem.status /\ new.started = mem.started
        /\ new.spent = mem.spent
    BY <1>0, <1>p, <1>9
  <2> HIDE DEF new
  <2> QED BY <1>w, <1>9, <2>1 DEF Claimed
<1>10. CASE CommitRun
  <2> DEFINE q == (ck.next * share) \div ck.total
  <2>1. /\ q \in 0..100 /\ wpc = "commit" /\ wpc' = "loop" /\ Write([mem EXCEPT !.percent = Atleast(@, q)])
        /\ SameTime
    BY <1>10, HeardPercent DEF CommitRun, KeepHistory, runHist, runBounds, SameTime
  <2> HIDE DEF q
  <2> QED BY <1>9, <2>1 DEF Claimed
<1>11. CASE BeginDiarizing \/ EndDiarizing
  <2>1. SameTime /\ wpc \in {"transcribed", "diarizing"} /\ wpc' \in {"check", "diarizing"}
    BY <1>11 DEF BeginDiarizing, EndDiarizing, KeepHistory, runHist, runBounds, SameTime
  <2>2. CASE UNCHANGED <<row, mem>>
    BY <2>1, <2>2, TimeKept DEF Claimed
  <2>3. \A q \in {share, 95} : Write([mem EXCEPT !.percent = Atleast(@, q)]) => TimeInv'
    BY <1>0, <1>9, <2>1 DEF Claimed
  <2> QED BY <1>11, <2>2, <2>3 DEF BeginDiarizing, EndDiarizing
<1>12. CASE DrainProgress
  <2>1. PICK t \in DrainTargets : row' = [row EXCEPT !.percent = Atleast(@, t)]
    BY <1>12 DEF DrainProgress
  <2>2. t \in 0..100
    BY JobRunConstants
  <2>3. row'.status = row.status /\ row'.started = row.started /\ row'.spent = row.spent
    BY <1>0, <1>p, <2>1, <2>2
  <2>4. SameTime /\ mem' = mem /\ wpc' = wpc /\ wpc = "diarizing"
    BY <1>12 DEF DrainProgress, KeepHistory, runHist, runBounds, SameTime
  <2> QED BY <2>3, <2>4, TimeKept
<1>13. CASE CompleteRun
  <2> DEFINE k == Clocked(mem)
             new == [mem EXCEPT !.status = "completed", !.percent = 100, !.spent = k]
  <2>1. k \in Nat
    BY <1>0, ClockedIsNat DEF RowTypes
  <2>2. SameTime /\ Write(new) /\ wpc = "write" /\ wpc' \in {"clean", "release"}
    BY <1>13 DEF CompleteRun, KeepHistory, runHist, runBounds, SameTime
  <2>3. died = 0 /\ ~unsaved =>
          k = Clocked(row) /\ Tallies(Clocked(row), worked, claims)
          /\ mem.status = "processing" /\ mem.spent = row.spent
    <3>1. died = 0 /\ ~unsaved => /\ Held /\ mem.status = "processing"
                                  /\ mem.started = row.started /\ mem.spent = row.spent
      BY <2>2 DEF TimeInv, Claimed
    <3> QED BY <3>1, ClockedIsWork DEF Clocked
  <2> HIDE DEF k
  <2>4. new \in RunRow /\ new.status = "completed" /\ new.spent = k
    BY <1>0, <2>1 DEF RunRow, RunStatus
  <2> HIDE DEF new
  <2>5. died = 0 /\ ~unsaved => row'.status = "completed" /\ row'.spent = k
    BY <1>0, <2>2, <2>3, <2>4, WriteRow DEF Put
  <2> SUFFICES ASSUME died = 0, ~unsaved PROVE TimeInv'
    BY <2>2 DEF TimeInv, SameTime
  <2>6. row'.status \notin Running /\ wpc' \notin Claimed \cup {"claim", "write"}
    BY <2>2, <2>5 DEF Running, Claimed
  <2> QED BY <2>2, <2>3, <2>5, <2>6, TimeSettled
<1>14. CASE CleanRun
  <2> DEFINE new == [mem EXCEPT !.path = FALSE]
  <2>1. /\ new \in RunRow /\ new.status = mem.status /\ new.started = mem.started
        /\ new.spent = mem.spent
    BY <1>0, <1>p
  <2>2. SameTime /\ wpc = "clean" /\ wpc' = "release" /\ Write(new)
    BY <1>14 DEF CleanRun, runBounds, SameTime
  <2> HIDE DEF new
  <2> QED BY <1>w, <2>1, <2>2 DEF Claimed
<1>15. CASE RunRaise
  <2>1. /\ died' = died /\ worked' = worked /\ claims' = claims /\ now' = now
        /\ unsaved' = (unsaved \/ wpc = "save") /\ wpc' = "release"
        /\ wpc \in {"prepare", "open", "hear", "whole", "keep", "save", "write"}
    BY <1>15 DEF RunRaise, runBounds
  <2> SUFFICES ASSUME died = 0, ~unsaved, wpc # "save" PROVE TimeInv'
    BY <2>1 DEF TimeInv
  <2>2. SameTime /\ wpc \in Claimed
    <3>1. unsaved \in BOOLEAN
      BY TypesSplit DEF FileTypes
    <3>2. unsaved' = unsaved
      BY <2>1, <3>1
    <3> QED BY <2>1, <3>2 DEF SameTime, Claimed
  <2>3. row'.status \in {"cancelled", "paused", "failed"} /\ row'.spent = Clocked(row)
    BY <1>0, <1>15, RaiseEffect
  <2>4. Tallies(Clocked(row), worked, claims)
    BY <2>2, ClockedIsWork DEF TimeInv
  <2>5. row'.status \notin Running /\ wpc' \notin Claimed \cup {"claim", "write"}
    BY <2>1, <2>3 DEF Running, Claimed
  <2> QED BY <2>2, <2>3, <2>4, <2>5, TimeSettled
<1>16. CASE RunRelease
  BY <1>16, TimeKept DEF RunRelease, KeepHistory, runHist, runBounds, SameTime, Claimed
<1>17. CASE RequestRun
  <2>1. PICK st \in RunStatus :
          /\ row' = [row EXCEPT !.status = st]
          /\ \/ row.status \in Running /\ st \in {"cancelling", "pausing"}
             \/ row.status = "cancelling" /\ st = "cancelled"
             \/ row.status \in {"queued", "paused"} /\ st \in {"cancelled", "paused", "queued"}
    BY <1>17 DEF RequestRun, CancelRun, PauseRun, ResumeRun, RunStatus, Running
  <2>2. row'.status = st /\ row'.started = row.started /\ row'.spent = row.spent
    BY <1>0, <2>1 DEF RunRow
  <2>3. SameTime /\ mem' = mem /\ wpc' = wpc
    BY <1>17 DEF RequestRun, runHist, SameTime
  <2> SUFFICES ASSUME died = 0, ~unsaved PROVE TimeInv'
    BY <2>3 DEF TimeInv, SameTime
  <2>4. Tallies(row.spent, worked, claims)' <=> Tallies(row.spent, worked, claims)
    BY <2>2, <2>3 DEF Tallies, SameTime
  <2>5. Tallies(row.spent, worked - (now - row.started), claims - 1)'
          <=> Tallies(row.spent, worked - (now - row.started), claims - 1)
    BY <2>2, <2>3 DEF Tallies, SameTime
  <2>6. \/ Held' /\ Held
        \/ ~Held' /\ ~Held
        \/ ~Held' /\ Held /\ row'.status = "cancelled" /\ wpc' # "claim"
    <3>1. wpc = "claim" => row.status \notin Running
      BY DEF TimeInv
    <3>2. wpc \in Claimed => row.status \in Running \cup {"cancelled"}
      BY DEF TimeInv, Held
    <3> QED BY <2>1, <2>2, <2>3, <3>1, <3>2 DEF Held, Running
  <2>7. wpc' \in Claimed => Held'
    <3>1. wpc \in Claimed => row.status \in Running \cup {"cancelled"}
      BY DEF TimeInv, Held
    <3> QED BY <2>1, <2>2, <2>3, <3>1 DEF Held, Running
  <2>8. ~Held /\ row'.status = "cancelled" /\ wpc = "claim" => Tallies(row.spent, worked, claims)
    BY DEF TimeInv
  <2>9. ~Held /\ row'.status # "cancelled" => row.status # "cancelled"
    BY <2>1, <2>2 DEF Running
  <2>10. wpc = "claim" => row'.status \notin Running
    BY <2>1, <2>2 DEF TimeInv, Running
  <2>11. row'.status # "processing"
    BY <2>1, <2>2
  <2>12. /\ Held' => Tallies(row.spent, worked - (now - row.started), claims - 1)'
                     /\ row'.started \in Nat /\ claims' > 0 /\ now' - row'.started <= worked'
    BY <2>2, <2>3, <2>5, <2>6 DEF TimeInv, SameTime
  <2>13. ~Held' /\ (row'.status # "cancelled" \/ wpc' = "claim") => Tallies(row.spent, worked, claims)'
    BY <2>3, <2>4, <2>6, <2>8, <2>9 DEF TimeInv
  <2> QED BY <2>2, <2>3, <2>7, <2>10, <2>11, <2>12, <2>13 DEF TimeInv
<1>18. CASE Tick
  <2>1. /\ now' = now + 1 /\ UNCHANGED <<row, mem, wpc, died, unsaved, claims>>
        /\ worked' = worked + (IF Worked THEN 1 ELSE 0)
    BY <1>18 DEF Tick, runBounds
  <2> SUFFICES ASSUME died = 0, ~unsaved PROVE TimeInv'
    BY <2>1 DEF TimeInv
  <2>2. Held => Worked
    BY DEF Held, Running, Worked, Claimed
  <2>3. Worked => Held \/ (row.status = "cancelled" /\ wpc # "claim")
    BY DEF Held, Running, Worked
  <2>4. Held' <=> Held
    BY <2>1 DEF Held
  <2>5. Held => /\ row'.started \in Nat /\ claims' > 0 /\ now' - row'.started <= worked'
                /\ Tallies(row.spent, worked - (now - row.started), claims - 1)'
    <3> SUFFICES ASSUME Held PROVE row'.started \in Nat /\ claims' > 0 /\ now' - row'.started <= worked'
                            /\ Tallies(row.spent, worked - (now - row.started), claims - 1)'
      OBVIOUS
    <3>1. /\ row.started \in Nat /\ claims > 0 /\ now - row.started <= worked
          /\ Tallies(row.spent, worked - (now - row.started), claims - 1)
      BY DEF TimeInv
    <3>2. worked' = worked + 1
      BY <2>1, <2>2
    <3>3. worked' - (now' - row'.started) = worked - (now - row.started) /\ claims' = claims
          /\ now' - row'.started <= worked' /\ row' = row
      BY <1>0, <2>1, <3>1, <3>2
    <3> QED BY <3>1, <3>3 DEF Tallies
  <2>6. ~Held /\ (row.status # "cancelled" \/ wpc = "claim") => Tallies(row.spent, worked, claims)'
    <3>1. ~Held /\ (row.status # "cancelled" \/ wpc = "claim") => worked' = worked
      BY <1>0, <2>1, <2>3
    <3> QED BY <2>1, <3>1 DEF TimeInv, Tallies
  <2> QED BY <2>1, <2>4, <2>5, <2>6 DEF TimeInv
<1>19. CASE CrashRun
  <2>1. died' # 0
    BY <1>0, <1>19 DEF CrashRun
  <2> QED BY <2>1 DEF TimeInv
<1>20. CASE UNCHANGED runVars
  BY <1>20 DEF runVars, runHist, runBounds, TimeInv, Held, Tallies
<1> QED BY <1>1, <1>2, <1>3, <1>4, <1>5, <1>6, <1>7, <1>r, <1>8, <1>10, <1>11, <1>12, <1>13, <1>14,
           <1>15, <1>16, <1>17, <1>18, <1>19, <1>20 DEF JobRunNext, WorkerRuns

\* While no process dies and no pause loses its checkpoint, the processing time of a
\* job at rest is the time a worker had it, up to less than a second for each run,
\* for any number of pauses and resumes.
THEOREM TimeAddsUp == JobRunSpec => []TimeIsWork
<1>1. JobRunInit => TimeInv
  <2> SUFFICES ASSUME JobRunInit PROVE TimeInv
    OBVIOUS
  <2>1. Tallies(row.spent, worked, claims)
    BY JobRunConstants DEF JobRunInit, Tallies
  <2> QED BY <2>1 DEF JobRunInit, TimeInv, Running, Claimed, Held
<1>2. RunTypes /\ TimeInv /\ [JobRunNext]_runVars => TimeInv'
  BY TimeStep
<1>3. RunTypes /\ TimeInv => TimeIsWork
  BY DEF TimeInv, TimeIsWork, Running, Held, Tallies
<1> QED BY <1>1, <1>2, <1>3, TypesHold, PTL DEF JobRunSpec
=============================================================================
