---------------------------- MODULE SourceLifecycle ----------------------------
(***************************************************************************)
(* The life of one uploaded source: its file in storage, its row, its      *)
(* chunks, its ingest job and its summary page, as the upload              *)
(* (api/routes/source.py or cli.py), the DELETE requests, the ingest run   *)
(* of a worker and the synthesis of the summary (wiki/synthesis.py) see    *)
(* and change them.  Every upload has a UUID of its own, so sources do not *)
(* meet, and its job is run by one worker at a time (JobQueue).            *)
(*                                                                         *)
(* The session of a request is committed by get_db (db/session.py), which  *)
(* FastAPI resumes after the response has been sent.                       *)
(***************************************************************************)
EXTENDS Naturals

CONSTANTS
    Requests,    (* DELETE requests for the source                          *)
    MaxRetries,
    MaxFaults    (* bound: storage, database and process failures           *)

ASSUME LifecycleAssumption ==
    /\ MaxRetries \in Nat /\ MaxFaults \in Nat

VARIABLES
    via,       (* "api" or "cli": where it is uploaded                      *)
    silent,    (* storage deletes a missing key silently, as S3 does        *)
    file,      (* the file is in storage                                    *)
    row,       (* committed status of the source, "absent" without a row    *)
    chunks,    (* it has committed chunk rows                               *)
    job, attempts,
    upload,    (* where the upload is                                       *)
    del,       (* where a DELETE request is                                 *)
    worker,    (* where the ingest run is                                   *)
    deleted,   (* history: a DELETE has removed the row                     *)
    faults,
    note, noteAttempts,    (* the summary job the ingest run enqueues       *)
    scribe,    (* where the synthesis of the summary is                     *)
    draft,     (* what the chunks it read amount to: "text" or "nothing"    *)
    page       (* the committed summary page, made of a draft               *)

jobVars == <<job, attempts>>
summary == <<note, noteAttempts, scribe, draft, page>>
setting == <<via, silent>>
vars    == <<setting, file, row, chunks, jobVars, upload, del, worker, deleted, faults, summary>>

Init ==
    /\ via \in {"api", "cli"}
    /\ silent \in BOOLEAN
    /\ file = FALSE
    /\ row = "absent"
    /\ chunks = FALSE
    /\ job = "absent"
    /\ attempts = 0
    /\ upload = "start"
    /\ del = [d \in Requests |-> "idle"]
    /\ worker = "idle"
    /\ deleted = FALSE
    /\ faults = 0
    /\ note = "absent" /\ noteAttempts = 0
    /\ scribe = "idle"
    /\ draft = "none" /\ page = "none"

Fault == faults < MaxFaults /\ faults' = faults + 1

-----------------------------------------------------------------------------
(* create_source, _ingest_command *)

StoreFile ==
    /\ upload = "start"
    /\ file' = TRUE
    /\ upload' = "stored"
    /\ UNCHANGED <<row, chunks, jobVars, del, worker, deleted, faults>>

(* The write breaks off; what was written stays. *)
StoreFails ==
    /\ upload = "start"
    /\ Fault
    /\ file' \in BOOLEAN
    /\ upload' = "broken"
    /\ UNCHANGED <<row, chunks, jobVars, del, worker, deleted>>

(* The INSERTs of the source and of its job. *)
InsertRows ==
    /\ upload = "stored"
    /\ upload' = "inserted"
    /\ UNCHANGED <<file, row, chunks, jobVars, del, worker, deleted, faults>>

(* Only the API removes the file when they fail. *)
InsertFails ==
    /\ upload = "stored"
    /\ Fault
    /\ upload' = IF via = "api" THEN "cleaning" ELSE "failed"
    /\ UNCHANGED <<file, row, chunks, jobVars, del, worker, deleted>>

CleanUp ==
    /\ upload = "cleaning"
    /\ file' = FALSE
    /\ upload' = "failed"
    /\ UNCHANGED <<row, chunks, jobVars, del, worker, deleted, faults>>

(* The CLI's commit, or that of get_db once the response has been sent.      *)
CommitRows ==
    /\ upload = "inserted"
    /\ row' = "pending"
    /\ job' = "pending"
    /\ upload' = "done"
    /\ UNCHANGED <<file, chunks, attempts, del, worker, deleted, faults>>

(* The commit fails: the handler has returned, and nothing is undone but the *)
(* transaction.                                                              *)
CommitFails ==
    /\ upload = "inserted"
    /\ Fault
    /\ upload' = "failed"
    /\ UNCHANGED <<file, row, chunks, jobVars, del, worker, deleted>>

(* The planner (API) or the removal of the file fails, or the process dies.  *)
UploadBreaks ==
    /\ upload \in {"stored", "cleaning", "inserted"}
    /\ Fault
    /\ upload' = "broken"
    /\ UNCHANGED <<file, row, chunks, jobVars, del, worker, deleted>>

-----------------------------------------------------------------------------
(* delete_source *)

LoadSource(d) ==
    /\ del[d] = "idle"
    /\ del' = [del EXCEPT ![d] = IF row = "absent" THEN "ended" ELSE "loaded"]
    /\ UNCHANGED <<file, row, chunks, jobVars, upload, worker, deleted, faults>>

(* Mutant: the file is only looked for. *)
FileAfterUnlinkKept == file

FileAfterUnlink == FALSE

(* Local storage raises for a missing file, and the request ends with that. *)
UnlinkFile(d) ==
    /\ del[d] = "loaded"
    /\ IF file \/ silent
       THEN file' = FileAfterUnlink /\ del' = [del EXCEPT ![d] = "unlinked"]
       ELSE UNCHANGED file /\ del' = [del EXCEPT ![d] = "ended"]
    /\ UNCHANGED <<row, chunks, jobVars, upload, worker, deleted, faults>>

(* The run has updated the row in its open transaction. *)
RowLocked == worker = "working"

(* Mutant: the chunks are not deleted with their source. *)
ChunksAfterDeleteKept == chunks

(* The foreign key cascades also to chunks committed while the DELETE waited. *)
ChunksAfterDelete == FALSE

(* The flush and the commit; a second DELETE finds no row and only warns. *)
DeleteRow(d) ==
    /\ del[d] = "unlinked"
    /\ ~ RowLocked
    /\ row' = "absent"
    /\ chunks' = ChunksAfterDelete
    /\ deleted' = TRUE
    /\ del' = [del EXCEPT ![d] = "ended"]
    /\ UNCHANGED <<file, jobVars, upload, worker, faults>>

(* Storage or the database fails, or the process dies. *)
DeleteBreaks(d) ==
    /\ del[d] \in {"loaded", "unlinked"}
    /\ Fault
    /\ del' = [del EXCEPT ![d] = "ended"]
    /\ UNCHANGED <<file, row, chunks, jobVars, upload, worker, deleted>>

-----------------------------------------------------------------------------
(* The ingest run *)

Claim ==
    /\ worker = "idle"
    /\ job = "pending"
    /\ worker' = "claimed"
    /\ UNCHANGED <<file, row, chunks, jobVars, upload, del, deleted, faults>>

(* Mutant: a failed run is not counted. *)
AttemptsAfterFailureUncounted == attempts

AttemptsAfterFailure == attempts + 1

(* Mutant: one more retry. *)
RetryAllowedOnceMore(n) == n <= MaxRetries + 1

RetryAllowed(n) == n <= MaxRetries

(* The worker rolls back and records the failure. *)
RunFails ==
    /\ attempts' = AttemptsAfterFailure
    /\ job' = IF RetryAllowed(attempts') THEN "pending" ELSE "failed"
    /\ worker' = "idle"
    /\ UNCHANGED <<file, row, chunks, upload, del, deleted>>

(* with_temp_file: the content is copied before the database is read. *)
Download ==
    /\ worker = "claimed"
    /\ file
    /\ worker' = "fetched"
    /\ UNCHANGED <<file, row, chunks, jobVars, upload, del, deleted, faults>>

FileMissing ==
    /\ worker = "claimed"
    /\ ~ file
    /\ RunFails
    /\ UNCHANGED faults

(* The SELECT of the source. *)
FindSource ==
    /\ worker = "fetched"
    /\ row # "absent"
    /\ worker' = "found"
    /\ UNCHANGED <<file, row, chunks, jobVars, upload, del, deleted, faults>>

SourceMissing ==
    /\ worker = "fetched"
    /\ row = "absent"
    /\ RunFails
    /\ UNCHANGED faults

(* Mutant: the UPDATE of a row that is gone is not noticed. *)
RowThereAlways == TRUE

RowThere == row # "absent"

(* The flush that sets the status "processing" locks the row. *)
UpdateSource ==
    /\ worker = "found"
    /\ RowThere
    /\ worker' = "working"
    /\ UNCHANGED <<file, row, chunks, jobVars, upload, del, deleted, faults>>

(* The process ends; its transaction and the claim in it roll back. *)
WorkerDies ==
    /\ worker' = "down"
    /\ UNCHANGED <<file, row, chunks, jobVars, upload, del, deleted>>

(* The row was deleted since: the flush fails (StaleDataError), and that     *)
(* ends the process (see Die in JobQueue).                                   *)
UpdateStale ==
    /\ worker = "found"
    /\ ~ RowThere
    /\ WorkerDies
    /\ UNCHANGED faults

(* Chunks, status, job and the summary job are committed at once. *)
FinishRun ==
    /\ worker = "working"
    /\ row' = "processed"
    /\ chunks' = TRUE
    /\ job' = "completed"
    /\ note' = "pending"
    /\ worker' = "idle"
    /\ UNCHANGED <<file, attempts, upload, del, deleted, faults, noteAttempts, scribe, draft, page>>

(* Something in the run fails, or the process is killed. *)
RunBreaks ==
    /\ worker \in {"claimed", "fetched", "found", "working"}
    /\ Fault
    /\ RunFails \/ WorkerDies

Restart ==
    /\ worker = "down"
    /\ worker' = "idle"
    /\ UNCHANGED <<file, row, chunks, jobVars, upload, del, deleted, faults>>

-----------------------------------------------------------------------------
(* synthesize_source_summary *)

restOfSource == <<file, row, chunks, jobVars, upload, del, worker, deleted>>

(* The claim is committed with the cancellation of duplicates; nothing       *)
(* locks the source.                                                         *)
ClaimSummary ==
    /\ scribe = "idle"
    /\ note = "pending"
    /\ note' = "processing"
    /\ scribe' = "claimed"
    /\ UNCHANGED <<restOfSource, faults, noteAttempts, draft, page>>

FindSummarized ==
    /\ scribe = "claimed"
    /\ row # "absent"
    /\ scribe' = "found"
    /\ UNCHANGED <<restOfSource, faults, note, noteAttempts, draft, page>>

SummaryFails ==
    /\ noteAttempts' = noteAttempts + 1
    /\ note' = IF RetryAllowed(noteAttempts') THEN "pending" ELSE "failed"
    /\ scribe' = "idle"
    /\ draft' = "none"
    /\ UNCHANGED <<restOfSource, page>>

SummarizedMissing ==
    /\ scribe = "claimed"
    /\ row = "absent"
    /\ SummaryFails
    /\ UNCHANGED faults

(* Mutant: the summary is drafted before the source's chunks are committed.  *)
DraftOfNothing == "nothing"

DraftOfChunks == IF chunks THEN "text" ELSE "nothing"

(* The chunks are read after the source: a DELETE may come in between.       *)
ReadSummarized ==
    /\ scribe = "found"
    /\ draft' = DraftOfChunks
    /\ scribe' = "drafted"
    /\ UNCHANGED <<restOfSource, faults, note, noteAttempts, page>>

SummaryEnds ==
    /\ note' = "completed"
    /\ scribe' = "idle"
    /\ draft' = "none"
    /\ UNCHANGED <<restOfSource, noteAttempts>>

(* The page refers to no row of the source, so that nothing stops it.        *)
WriteSummary ==
    /\ scribe = "drafted"
    /\ page' = draft
    /\ SummaryEnds
    /\ UNCHANGED faults

(* The LLM fails: no page, and the job is completed.                         *)
SkipSummary ==
    /\ scribe = "drafted"
    /\ Fault
    /\ SummaryEnds
    /\ UNCHANGED page

(* Something else fails, or the process ends with the job "processing".      *)
SummaryBreaks ==
    /\ scribe \in {"claimed", "found", "drafted"}
    /\ Fault
    /\ \/ SummaryFails
       \/ /\ scribe' = "idle"
          /\ draft' = "none"
          /\ UNCHANGED <<restOfSource, note, noteAttempts, page>>

-----------------------------------------------------------------------------

RunStep ==
    \/ /\ \/ Claim
          \/ Download
          \/ FileMissing
          \/ FindSource
          \/ SourceMissing
          \/ UpdateSource
          \/ UpdateStale
          \/ Restart
       /\ UNCHANGED summary
    \/ FinishRun

SummaryStep ==
    \/ ClaimSummary \/ FindSummarized \/ SummarizedMissing
    \/ ReadSummarized \/ WriteSummary

Upload ==
    \/ StoreFile \/ StoreFails
    \/ InsertRows \/ InsertFails \/ CleanUp
    \/ CommitRows \/ CommitFails
    \/ UploadBreaks

Delete(d) == LoadSource(d) \/ UnlinkFile(d) \/ DeleteRow(d) \/ DeleteBreaks(d)

Next ==
    /\ \/ (Upload \/ (\E d \in Requests : Delete(d)) \/ RunBreaks) /\ UNCHANGED summary
       \/ RunStep
       \/ SummaryStep \/ SkipSummary \/ SummaryBreaks
    /\ UNCHANGED setting

Spec == Init /\ [][Next]_vars

(* The worker's event loop runs, and its container is restarted. *)
FairSpec ==
    /\ Spec
    /\ WF_vars(RunStep /\ UNCHANGED setting)
    /\ WF_vars(SummaryStep /\ UNCHANGED setting)

-----------------------------------------------------------------------------
(* Properties *)

(* Every variable has a value of its type; a run fails at most max_retries   *)
(* + 1 times.                                                                *)
TypeOK ==
    /\ via \in {"api", "cli"} /\ silent \in BOOLEAN
    /\ file \in BOOLEAN /\ chunks \in BOOLEAN
    /\ row \in {"absent", "pending", "processed"}
    /\ job \in {"absent", "pending", "completed", "failed"}
    /\ attempts \in 0..(MaxRetries + 1)
    /\ upload \in {"start", "stored", "inserted", "cleaning", "done", "failed",
                 "broken"}
    /\ del \in [Requests -> {"idle", "loaded", "unlinked", "ended"}]
    /\ worker \in {"idle", "claimed", "fetched", "found", "working", "down"}
    /\ deleted \in BOOLEAN
    /\ faults \in 0..MaxFaults
    /\ note \in {"absent", "pending", "processing", "completed", "failed"}
    /\ noteAttempts \in 0..(MaxRetries + 1)
    /\ scribe \in {"idle", "claimed", "found", "drafted"}
    /\ draft \in {"none", "text", "nothing"} /\ page \in {"none", "text", "nothing"}

(* Chunks exist exactly for a source that reads "processed": a DELETE that   *)
(* overtakes, waits for or follows the ingest run leaves none behind.        *)
ChunksGoWithSource == chunks <=> row = "processed"

(* A deleted source does not come back when a run that had already found it  *)
(* goes on.  Its summary page may: the synthesis locks nothing, and nothing  *)
(* removes the page (synthesis.py:407); but a page made of no chunks is      *)
(* always one of a source that is gone.                                      *)
DeletedStaysDeleted ==
    /\ deleted => row = "absent"
    /\ page = "nothing" => deleted

Requested == {d \in Requests : del[d] \in {"loaded", "unlinked"}}

(* Without failures, two DELETEs at once and a run in between leave file and *)
(* row both there or both gone.                                              *)
FileGoesWithRow ==
    faults = 0 /\ upload = "done" /\ Requested = {} => (file <=> row # "absent")

(* The job of a source whose file or row is deleted ends all the same, and   *)
(* so does its summary job, but for a process that dies: the claim stays.    *)
IngestEnds ==
    /\ job = "pending" ~> job \in {"completed", "failed"}
    /\ note = "pending" ~> note \in {"completed", "failed"} \/ (note = "processing" /\ scribe = "idle")
=============================================================================
