------------------------- MODULE SourceLifecycleProofs -------------------------
(***************************************************************************)
(* The rows of a source, whatever DELETE requests, retries and failures    *)
(* meet its ingest run and its summary.                                    *)
(***************************************************************************)
EXTENDS SourceLifecycle, TLAPS

Requesting == {"loaded", "unlinked"}

Running == {"claimed", "fetched", "found", "working"}

(* Until the upload is committed there is nothing anybody could find.        *)
Unpublished ==
    upload # "done" =>
        /\ row = "absent" /\ ~chunks /\ ~deleted
        /\ job = "absent" /\ attempts = 0 /\ note = "absent"
        /\ \A d \in Requests : del[d] \notin Requesting

(* A run that has updated the row keeps it from being deleted.               *)
RunInv ==
    /\ worker \in Running => job = "pending"
    /\ worker = "working" => row # "absent"
    /\ job = "pending" => attempts <= MaxRetries

(* The summary job follows the run that has committed the chunks.            *)
NoteInv ==
    /\ job # "completed" => note = "absent"
    /\ note = "absent" => noteAttempts = 0
    /\ note \in {"pending", "processing"} => noteAttempts <= MaxRetries
    /\ note # "absent" => row = "processed" \/ deleted
    /\ scribe # "idle" => note = "processing"
    /\ draft = "nothing" => deleted

Promises == ChunksGoWithSource /\ DeletedStaysDeleted

LifeInv == TypeOK /\ Unpublished /\ RunInv /\ NoteInv /\ Promises

LEMMA LifeInit == Init => LifeInv
<1> SUFFICES ASSUME Init PROVE LifeInv
    OBVIOUS
<1>0. MaxRetries \in Nat /\ MaxFaults \in Nat
    BY LifecycleAssumption DEF LifecycleAssumption
<1>1. TypeOK
  <2>1. file \in BOOLEAN /\ chunks \in BOOLEAN /\ deleted \in BOOLEAN /\ silent \in BOOLEAN
    BY Zenon DEF Init
  <2> QED
    BY <1>0, <2>1 DEF Init, TypeOK
<1>2. RunInv /\ NoteInv
    BY <1>0 DEF Init, RunInv, NoteInv, Running
<1>3. \A d \in Requests : del[d] \notin Requesting
    BY DEF Init, Requesting
<1>4. row = "absent" /\ ~chunks /\ ~deleted /\ page = "none"
    BY Zenon DEF Init
<1>5. Unpublished /\ Promises
    BY <1>3, <1>4 DEF Init, Unpublished, Promises, ChunksGoWithSource, DeletedStaysDeleted
<1> QED
    BY <1>1, <1>2, <1>5 DEF LifeInv

LEMMA FaultType ==
    ASSUME TypeOK, Fault
    PROVE  faults' \in 0 .. MaxFaults
BY LifecycleAssumption DEF TypeOK, Fault, LifecycleAssumption

LEMMA UploadKeeps ==
    ASSUME LifeInv, Upload, UNCHANGED summary, UNCHANGED setting
    PROVE  LifeInv'
<1> USE DEF LifeInv, summary, setting, jobVars
<1>0. /\ UNCHANGED <<via, silent, note, noteAttempts, scribe, draft, page, attempts, chunks,
                     del, worker, deleted>>
      /\ upload' \in {"start", "stored", "inserted", "cleaning", "done", "failed", "broken"}
      /\ upload # "done"
    BY DEF Upload, StoreFile, StoreFails, InsertRows, InsertFails, CleanUp, CommitRows,
       CommitFails, UploadBreaks
<1>1. /\ \/ row' = row /\ job' = job /\ upload' # "done"
         \/ row' = "pending" /\ job' = "pending" /\ upload' = "done"
      /\ file' \in BOOLEAN
  <2>1. file' \in BOOLEAN
    BY Zenon DEF Upload, StoreFile, StoreFails, InsertRows, InsertFails, CleanUp, CommitRows,
       CommitFails, UploadBreaks, TypeOK
  <2> QED
    BY <2>1 DEF Upload, StoreFile, StoreFails, InsertRows, InsertFails, CleanUp, CommitRows,
       CommitFails, UploadBreaks
<1>2. faults' \in 0 .. MaxFaults
    BY FaultType DEF Upload, StoreFile, StoreFails, InsertRows, InsertFails, CleanUp, CommitRows,
       CommitFails, UploadBreaks, TypeOK
<1>3. TypeOK'
    BY <1>0, <1>1, <1>2 DEF TypeOK
<1>4. Unpublished'
    BY <1>0, <1>1 DEF Unpublished
<1>5. RunInv'
    BY <1>0, <1>1, LifecycleAssumption DEF RunInv, Unpublished, Running, LifecycleAssumption
<1>6. NoteInv' /\ Promises'
    BY <1>0, <1>1 DEF NoteInv, Unpublished, Promises, ChunksGoWithSource, DeletedStaysDeleted
<1> QED
    BY <1>3, <1>4, <1>5, <1>6

LEMMA DeleteKeeps ==
    ASSUME LifeInv, NEW d \in Requests, Delete(d), UNCHANGED summary, UNCHANGED setting
    PROVE  LifeInv'
<1> USE DEF LifeInv, summary, setting, jobVars
<1>0. /\ UNCHANGED <<via, silent, note, noteAttempts, scribe, draft, page, attempts, job,
                     upload, worker>>
      /\ del' \in [Requests -> {"idle", "loaded", "unlinked", "ended"}]
      /\ file' \in BOOLEAN
    BY DEF Delete, LoadSource, UnlinkFile, FileAfterUnlink, DeleteRow, DeleteBreaks, TypeOK
<1>1. faults' \in 0 .. MaxFaults
    BY FaultType DEF Delete, LoadSource, UnlinkFile, DeleteRow, DeleteBreaks, TypeOK
<1>2. CASE DeleteRow(d)
  <2>1. row' = "absent" /\ chunks' = FALSE /\ deleted' = TRUE /\ worker # "working"
        /\ upload = "done"
    BY <1>2 DEF DeleteRow, ChunksAfterDelete, RowLocked, Unpublished, Requesting
  <2>2. TypeOK'
    BY <1>0, <1>1, <2>1 DEF TypeOK
  <2>3. Unpublished' /\ RunInv' /\ NoteInv' /\ Promises'
    BY <1>0, <2>1 DEF Unpublished, RunInv, NoteInv, Promises, ChunksGoWithSource,
       DeletedStaysDeleted
  <2> QED
    BY <2>2, <2>3
<1>3. CASE ~DeleteRow(d)
  <2>1. UNCHANGED <<row, chunks, deleted>>
    BY <1>3 DEF Delete, LoadSource, UnlinkFile, DeleteBreaks
  <2>2. TypeOK'
    BY <1>0, <1>1, <2>1 DEF TypeOK
  <2>3. upload # "done" => \A e \in Requests : del'[e] \notin Requesting
    BY <1>3 DEF Delete, LoadSource, UnlinkFile, DeleteBreaks, Unpublished, Requesting, TypeOK
  <2>4. Unpublished' /\ RunInv' /\ NoteInv' /\ Promises'
    BY <1>0, <2>1, <2>3 DEF Unpublished, RunInv, NoteInv, Promises, ChunksGoWithSource,
       DeletedStaysDeleted
  <2> QED
    BY <2>2, <2>4
<1> QED
    BY <1>2, <1>3

-----------------------------------------------------------------------------
(* The ingest run *)

(* A failed run has been one of at most max_retries + 1.                     *)
LEMMA RunFailsKeeps ==
    ASSUME LifeInv, RunFails, worker \in Running, faults' \in 0 .. MaxFaults,
           UNCHANGED summary, UNCHANGED setting
    PROVE  LifeInv'
<1> USE DEF LifeInv, summary, setting
<1>0. /\ job = "pending" /\ upload = "done"
      /\ UNCHANGED <<via, silent, note, noteAttempts, scribe, draft, page, file, row, chunks,
                     upload, del, deleted>>
      /\ worker' = "idle"
    BY DEF RunFails, RunInv, Unpublished
<1>1. /\ attempts \in Nat /\ attempts <= MaxRetries /\ attempts' = attempts + 1
      /\ MaxRetries \in Nat
    BY <1>0, LifecycleAssumption DEF RunFails, AttemptsAfterFailure, RunInv, TypeOK, LifecycleAssumption
<1>2. /\ attempts' \in 0 .. (MaxRetries + 1)
      /\ (job' = "pending" /\ attempts' <= MaxRetries) \/ job' = "failed"
    BY <1>1 DEF RunFails, RetryAllowed
<1>3. TypeOK'
    BY <1>0, <1>2 DEF TypeOK
<1>4. Unpublished' /\ RunInv'
    BY <1>0, <1>2 DEF Unpublished, RunInv, Running
<1>5. NoteInv' /\ Promises'
    BY <1>0, <1>2 DEF NoteInv, Promises, ChunksGoWithSource, DeletedStaysDeleted
<1> QED
    BY <1>3, <1>4, <1>5

(* A step of the worker alone.                                               *)
LEMMA WorkerMoves ==
    ASSUME LifeInv, worker' \in {"idle", "claimed", "fetched", "found", "working", "down"},
           worker' \in Running => job = "pending",
           worker' = "working" => row # "absent",
           faults' \in 0 .. MaxFaults,
           UNCHANGED <<file, row, chunks, jobVars, upload, del, deleted>>,
           UNCHANGED summary, UNCHANGED setting
    PROVE  LifeInv'
<1> USE DEF LifeInv, summary, setting, jobVars
<1>1. TypeOK'
    BY DEF TypeOK
<1>2. Unpublished' /\ RunInv'
    BY DEF Unpublished, RunInv
<1>3. NoteInv' /\ Promises'
    BY DEF NoteInv, Promises, ChunksGoWithSource, DeletedStaysDeleted
<1> QED
    BY <1>1, <1>2, <1>3

LEMMA FinishRunKeeps ==
    ASSUME LifeInv, FinishRun, UNCHANGED setting
    PROVE  LifeInv'
<1> USE DEF LifeInv, setting, FinishRun
<1>1. /\ job = "pending" /\ row # "absent" /\ note = "absent" /\ noteAttempts = 0
      /\ upload = "done"
    BY DEF RunInv, NoteInv, Unpublished, Running
<1>2. ~deleted /\ page # "nothing"
    BY <1>1 DEF Promises, DeletedStaysDeleted
<1>3. chunks' = TRUE /\ row' = "processed"
    OBVIOUS
<1>4. TypeOK'
    BY <1>3 DEF TypeOK
<1>5. Unpublished' /\ RunInv'
    BY <1>1 DEF Unpublished, RunInv, Running
<1>6. NoteInv'
    BY <1>1, LifecycleAssumption DEF NoteInv, LifecycleAssumption
<1>7. Promises'
    BY <1>2, <1>3 DEF Promises, ChunksGoWithSource, DeletedStaysDeleted
<1> QED
    BY <1>4, <1>5, <1>6, <1>7

LEMMA RunKeeps ==
    ASSUME LifeInv, RunStep \/ (RunBreaks /\ UNCHANGED summary), UNCHANGED setting
    PROVE  LifeInv'
<1>0. /\ faults \in 0 .. MaxFaults
      /\ Fault => faults' \in 0 .. MaxFaults
      /\ worker \in Running => job = "pending"
    BY FaultType DEF LifeInv, TypeOK, RunInv
<1>1. CASE FinishRun
    BY <1>1, FinishRunKeeps
<1>2. CASE (Claim \/ Download \/ FindSource \/ UpdateSource \/ UpdateStale \/ Restart) /\ UNCHANGED summary
    BY <1>0, <1>2, WorkerMoves
       DEF Claim, Download, FindSource, UpdateSource, UpdateStale, WorkerDies, Restart, RowThere, Running
<1>3. CASE (FileMissing \/ SourceMissing) /\ UNCHANGED summary
    BY <1>0, <1>3, RunFailsKeeps DEF FileMissing, SourceMissing, Running
<1>4. CASE RunBreaks /\ UNCHANGED summary
  <2>1. worker \in Running /\ faults' \in 0 .. MaxFaults /\ (RunFails \/ WorkerDies)
    BY <1>0, <1>4 DEF RunBreaks, Running
  <2>2. CASE RunFails
    BY <1>4, <2>1, <2>2, RunFailsKeeps
  <2>3. CASE WorkerDies
    BY <1>4, <2>1, <2>3, WorkerMoves DEF WorkerDies, Running
  <2> QED
    BY <2>1, <2>2, <2>3
<1> QED
    BY <1>1, <1>2, <1>3, <1>4 DEF RunStep

-----------------------------------------------------------------------------
(* The summary *)

LEMMA SummaryKeeps ==
    ASSUME LifeInv, SummaryStep \/ SkipSummary \/ SummaryBreaks, UNCHANGED setting
    PROVE  LifeInv'
<1> USE DEF LifeInv, setting, restOfSource, jobVars
<1>0. UNCHANGED <<via, silent, file, row, chunks, job, attempts, upload, del, worker, deleted>>
    BY DEF SummaryStep, ClaimSummary, FindSummarized, SummarizedMissing, SummaryFails,
       ReadSummarized, WriteSummary, SummaryEnds, SkipSummary, SummaryBreaks
<1>1. faults' \in 0 .. MaxFaults
    BY FaultType DEF SummaryStep, ClaimSummary, FindSummarized, SummarizedMissing,
       ReadSummarized, WriteSummary, SkipSummary, SummaryBreaks, TypeOK
<1>2. MaxRetries \in Nat /\ noteAttempts \in 0 .. (MaxRetries + 1)
    BY LifecycleAssumption DEF LifecycleAssumption, TypeOK
<1>3. ASSUME SummaryFails, scribe # "idle"
      PROVE  /\ noteAttempts' \in 0 .. (MaxRetries + 1)
             /\ (note' = "pending" /\ noteAttempts' <= MaxRetries) \/ note' = "failed"
             /\ scribe' = "idle" /\ draft' = "none" /\ page' = page
  <2>1. noteAttempts <= MaxRetries /\ noteAttempts' = noteAttempts + 1
    BY <1>3 DEF NoteInv, SummaryFails
  <2> QED
    BY <1>2, <1>3, <2>1 DEF SummaryFails, RetryAllowed
<1>4. scribe # "idle" => note = "processing" /\ job = "completed" /\ upload = "done"
    BY DEF NoteInv, Unpublished
<1>5. /\ noteAttempts' \in 0 .. (MaxRetries + 1)
      /\ note' \in {"pending", "processing", "completed", "failed"}
      /\ note' \in {"pending", "processing"} => noteAttempts' <= MaxRetries
      /\ scribe' \in {"idle", "claimed", "found", "drafted"}
      /\ scribe' # "idle" => note' = "processing"
    BY <1>2, <1>3, <1>4 DEF SummaryStep, ClaimSummary, FindSummarized, SummarizedMissing,
       ReadSummarized, WriteSummary, SummaryEnds, SkipSummary, SummaryBreaks, NoteInv
<1>6. note # "absent"
    BY <1>4 DEF SummaryStep, ClaimSummary, FindSummarized, SummarizedMissing,
       ReadSummarized, WriteSummary, SkipSummary, SummaryBreaks
<1>7. /\ draft' \in {"none", "text", "nothing"} /\ page' \in {"none", "text", "nothing"}
      /\ draft' = "nothing" => deleted
      /\ page' = "nothing" => deleted
  <2>1. DraftOfChunks \in {"text", "nothing"} /\ (DraftOfChunks = "nothing" => deleted)
    BY <1>6 DEF DraftOfChunks, NoteInv, Promises, ChunksGoWithSource
  <2> QED
    BY <2>1 DEF SummaryStep, ClaimSummary, FindSummarized, SummarizedMissing, SummaryFails,
       ReadSummarized, WriteSummary, SummaryEnds, SkipSummary, SummaryBreaks, NoteInv, Promises,
       DeletedStaysDeleted, TypeOK
<1>8. TypeOK'
    BY <1>0, <1>1, <1>5, <1>7 DEF TypeOK
<1>9. Unpublished' /\ RunInv'
    BY <1>0, <1>6 DEF Unpublished, RunInv
<1>10. NoteInv' /\ Promises'
    BY <1>0, <1>5, <1>6, <1>7 DEF NoteInv, Promises, ChunksGoWithSource, DeletedStaysDeleted
<1> QED
    BY <1>8, <1>9, <1>10

-----------------------------------------------------------------------------

LEMMA LifeStep == LifeInv /\ [Next]_vars => LifeInv'
<1> SUFFICES ASSUME LifeInv, [Next]_vars PROVE LifeInv'
    OBVIOUS
<1>1. CASE Next
    BY <1>1, UploadKeeps, DeleteKeeps, RunKeeps, SummaryKeeps DEF Next
<1>2. CASE UNCHANGED vars
  <2>1. UNCHANGED <<file, row, chunks, jobVars, upload, del, worker, deleted, faults>>
        /\ UNCHANGED summary /\ UNCHANGED setting
    BY <1>2 DEF vars
  <2>2. faults' \in 0 .. MaxFaults /\ worker' = worker
    BY <2>1 DEF LifeInv, TypeOK
  <2>3. /\ worker' \in {"idle", "claimed", "fetched", "found", "working", "down"}
        /\ worker' \in Running => job = "pending"
        /\ worker' = "working" => row # "absent"
    BY <2>2 DEF LifeInv, TypeOK, RunInv
  <2> QED
    BY <2>1, <2>2, <2>3, WorkerMoves
<1> QED
    BY <1>1, <1>2

LEMMA LifeHolds == Spec => []LifeInv
BY LifeInit, LifeStep, PTL DEF Spec

(* However DELETE requests, a run with its retries and the summary           *)
(* interleave, and whatever fails: chunks and a processed source come and go *)
(* together.                                                                 *)
THEOREM SourceStaysConsistent == Spec => []ChunksGoWithSource
<1>1. LifeInv => ChunksGoWithSource
    BY DEF LifeInv, Promises
<1> QED
    BY <1>1, LifeHolds, PTL

(* Neither a run nor a retry brings a deleted source back, and a summary     *)
(* page made of nothing is one of a deleted source.                          *)
THEOREM SourceStaysDeleted == Spec => []DeletedStaysDeleted
<1>1. LifeInv => DeletedStaysDeleted
    BY DEF LifeInv, Promises
<1> QED
    BY <1>1, LifeHolds, PTL

(* Every variable keeps its type, so that no run or summary is tried more    *)
(* than max_retries + 1 times.                                               *)
THEOREM LifecycleTypes == Spec => []TypeOK
<1>1. LifeInv => TypeOK
    BY DEF LifeInv
<1> QED
    BY <1>1, LifeHolds, PTL

-----------------------------------------------------------------------------
(* The file *)

(* As long as nothing has failed, a row without its file is about to be      *)
(* deleted by the request that removed the file.                             *)
FileInv ==
    faults = 0 =>
        /\ upload \in {"start", "stored", "inserted", "done"}
        /\ upload \in {"stored", "inserted"} => file
        /\ upload = "done" =>
              /\ file => row # "absent"
              /\ \A d \in Requests : del[d] = "unlinked" => ~file
              /\ row # "absent" => file \/ \E d \in Requests : del[d] = "unlinked"

LEMMA FileUntouched ==
    ASSUME FileInv, faults = 0, UNCHANGED <<file, upload, del>>,
           row' = "absent" <=> row = "absent"
    PROVE  FileInv'
BY DEF FileInv

LEMMA UploadKeepsFile ==
    ASSUME LifeInv, FileInv, faults = 0, faults' = 0, Upload
    PROVE  FileInv'
<1>1. ~Fault
    BY DEF Fault
<1>2. CASE StoreFile
  <2>1. file' = TRUE /\ upload' = "stored"
    BY <1>2 DEF StoreFile
  <2> QED
    BY <2>1 DEF FileInv
<1>3. CASE InsertRows
    BY <1>3 DEF InsertRows, FileInv
<1>4. CASE CleanUp
    BY <1>4 DEF CleanUp, FileInv
<1>5. CASE CommitRows
  <2>1. file /\ \A d \in Requests : del[d] # "unlinked"
    BY <1>5 DEF CommitRows, FileInv, LifeInv, Unpublished, Requesting
  <2> QED
    BY <1>5, <2>1 DEF CommitRows, FileInv
<1> QED
    BY <1>1, <1>2, <1>3, <1>4, <1>5 DEF Upload, StoreFails, InsertFails, CommitFails, UploadBreaks

LEMMA DeleteKeepsFile ==
    ASSUME LifeInv, FileInv, faults = 0, faults' = 0, NEW d \in Requests, Delete(d)
    PROVE  FileInv'
<1>1. ~Fault /\ del \in [Requests -> {"idle", "loaded", "unlinked", "ended"}] /\ upload' = upload
    BY DEF Fault, LifeInv, TypeOK, Delete, LoadSource, UnlinkFile, DeleteRow, DeleteBreaks
<1>2. CASE LoadSource(d)
  <2>1. \A e \in Requests : del'[e] = "unlinked" <=> del[e] = "unlinked"
    BY <1>1, <1>2 DEF LoadSource
  <2> QED
    BY <1>2, <2>1 DEF LoadSource, FileInv
<1>3. CASE UnlinkFile(d)
  <2>1. /\ row' = row /\ upload = "done"
        /\ file => row # "absent"
        /\ row # "absent" => file \/ \E e \in Requests : del[e] = "unlinked"
        /\ \A e \in Requests : del[e] = "unlinked" => ~file
    BY <1>3 DEF UnlinkFile, FileInv, LifeInv, Unpublished, Requesting
  <2>2. CASE file \/ silent
    <3>1. file' = FALSE /\ del'[d] = "unlinked"
      BY <1>1, <1>3, <2>2, Zenon DEF UnlinkFile, FileAfterUnlink
    <3> QED
      BY <1>1, <2>1, <3>1 DEF FileInv
  <2>3. CASE ~(file \/ silent)
    <3>1. file' = file /\ \A e \in Requests : del'[e] = "unlinked" <=> del[e] = "unlinked"
      BY <1>1, <1>3, <2>3 DEF UnlinkFile
    <3> QED
      BY <1>1, <2>1, <3>1 DEF FileInv
  <2> QED
    BY <2>2, <2>3
<1>4. CASE DeleteRow(d)
  <2>1. ~file
    BY <1>4 DEF DeleteRow, FileInv, LifeInv, Unpublished, Requesting
  <2> QED
    BY <1>1, <1>4, <2>1 DEF DeleteRow, FileInv
<1> QED
    BY <1>1, <1>2, <1>3, <1>4 DEF Delete, DeleteBreaks

LEMMA FileStep == LifeInv /\ FileInv /\ [Next]_vars => FileInv'
<1> SUFFICES ASSUME LifeInv, FileInv, [Next]_vars, faults' = 0 PROVE FileInv'
    BY DEF FileInv
<1>1. faults \in Nat /\ (faults' = faults \/ faults' = faults + 1)
  <2>1. faults \in Nat
    BY LifecycleAssumption DEF LifecycleAssumption, LifeInv, TypeOK
  <2> QED
    BY <2>1 DEF Next, vars, Upload, StoreFile, StoreFails, InsertRows, InsertFails, CleanUp,
       CommitRows, CommitFails, UploadBreaks, Delete, LoadSource, UnlinkFile, DeleteRow, DeleteBreaks,
       RunBreaks, RunStep, Claim, Download, FileMissing, FindSource, SourceMissing, UpdateSource,
       UpdateStale, Restart, FinishRun, SummaryStep, ClaimSummary, FindSummarized,
       SummarizedMissing, ReadSummarized, WriteSummary, SkipSummary, SummaryBreaks, Fault
<1>2. faults = 0
    BY <1>1
<1>3. CASE UNCHANGED vars
    BY <1>2, <1>3, FileUntouched DEF vars
<1>4. CASE Upload
    BY <1>2, <1>4, UploadKeepsFile
<1>5. ASSUME NEW d \in Requests, Delete(d) PROVE FileInv'
    BY <1>2, <1>5, DeleteKeepsFile
<1>6. CASE FinishRun
  <2>1. row # "absent" /\ row' # "absent"
    BY <1>6 DEF FinishRun, LifeInv, RunInv
  <2> QED
    BY <1>2, <1>6, <2>1, FileUntouched DEF FinishRun
<1>7. CASE RunStep /\ ~FinishRun
    BY <1>2, <1>7, FileUntouched
    DEF RunStep, Claim, Download, FileMissing, FindSource, SourceMissing, UpdateSource,
        UpdateStale, Restart, RunFails, WorkerDies
<1>8. CASE RunBreaks
    BY <1>2, <1>8 DEF RunBreaks, Fault
<1>9. CASE SummaryStep \/ SkipSummary \/ SummaryBreaks
  <2>1. UNCHANGED restOfSource
    BY <1>9 DEF SummaryStep, ClaimSummary, FindSummarized, SummarizedMissing, SummaryFails,
       ReadSummarized, WriteSummary, SummaryEnds, SkipSummary, SummaryBreaks, restOfSource
  <2> QED
    BY <1>2, <2>1, FileUntouched DEF restOfSource
<1> QED
    BY <1>3, <1>4, <1>5, <1>6, <1>7, <1>8, <1>9 DEF Next

(* Without failures, any number of DELETEs at once and a run in between      *)
(* leave file and row both there or both gone.                               *)
THEOREM FileFollowsRow == Spec => []FileGoesWithRow
<1>1. Init => FileInv
    BY DEF Init, FileInv
<1>2. LifeInv /\ FileInv => FileGoesWithRow
    BY DEF FileInv, FileGoesWithRow, Requested
<1> QED
    BY <1>1, <1>2, FileStep, LifeHolds, PTL DEF Spec
=============================================================================
