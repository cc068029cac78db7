------------------------------ MODULE JobQueue ------------------------------
(***************************************************************************)
(* The Postgres-native job queue (jobs/__init__.py) and the worker         *)
(* processes that drain it (worker.py), with the coalescing of pending     *)
(* duplicates that the synthesis jobs perform (wiki/synthesis.py).         *)
(*                                                                         *)
(* The model is at the grain of the database: a claim is an UPDATE that    *)
(* stays uncommitted, under a row lock, until the worker commits; a        *)
(* rollback makes the old row visible again; the ORM writes back only the  *)
(* columns that differ from the snapshot it loaded.                        *)
(*                                                                         *)
(* Columns no code reads back (claimed_at, worker_id, completed_at,        *)
(* error_message) are left out.  So is scheduled_at: no caller sets it.    *)
(***************************************************************************)
EXTENDS Naturals, FiniteSets

CONSTANTS
    Workers,     (* the worker processes                                    *)
    Jobs,        (* the rows the jobs table may come to hold                *)
    Kind,        (* job_type of a row: "ingest", "entity" or "summary"      *)
    Target,      (* what it is about: target_entity_id, or the source       *)
    Sources,     (* the source_ids of its payload, never rewritten          *)
    Origin,      (* the ingest job whose run enqueues it, or NoJob          *)
    Rank,        (* created_at: the order in which claims prefer the rows   *)
    PkRank,      (* the order of the primary keys, in which a flush updates *)
    Backlog,     (* the rows already pending when the workers start         *)
    NoJob, NoWorker,
    MaxRetries,  (* the max_retries column                                  *)
    MaxFails,    (* bound: failed executions of one job                     *)
    MaxRestarts  (* bound: crashes and graceful stops of worker processes   *)

Kinds == {"ingest", "entity", "summary"}

Statuses == {"absent", "pending", "processing", "completed", "failed"}

ASSUME ConstantsAssumption ==
    /\ IsFiniteSet(Workers) /\ NoWorker \notin Workers
    /\ IsFiniteSet(Jobs) /\ NoJob \notin Jobs
    /\ Kind \in [Jobs -> Kinds]
    /\ Origin \in [Jobs -> Jobs \cup {NoJob}]
    /\ \A j \in Jobs : /\ Kind[j] = "ingest" => Origin[j] = NoJob
                       /\ Origin[j] # NoJob => Kind[Origin[j]] = "ingest"
    /\ Rank \in [Jobs -> Nat]
    /\ PkRank \in [Jobs -> Nat]
    /\ \A j, k \in Jobs : PkRank[j] = PkRank[k] => j = k
    /\ Backlog \subseteq Jobs
    /\ MaxRetries \in Nat /\ MaxFails \in Nat /\ MaxRestarts \in Nat
    /\ DOMAIN Target = Jobs /\ DOMAIN Sources = Jobs

VARIABLES
    (* the jobs table, as committed *)
    status,    (* status column, "absent" before the row is inserted        *)
    attempts,  (* attempts column                                           *)
    rowLock,   (* worker whose open transaction has updated the row         *)
    (* the workers *)
    pc,        (* where the worker loop is                                  *)
    cur,       (* the job it holds                                          *)
    dups,      (* the duplicates it read and is about to complete           *)
    merged,    (* the source ids it will synthesize from, in memory only    *)
    outcome,   (* which except branch it is in: "fail" or "release"         *)
    seen,      (* the row as db.refresh(job) loaded it                      *)
    (* bounds and history *)
    restarts,  (* crashes and stops so far                                  *)
    fails,     (* failed executions of each job                             *)
    done,      (* completed runs of each ingest job                         *)
    settled,   (* source ids that a finished synthesis of a target covered  *)
    aborted    (* targets of which a run ended without result after merging *)

table   == <<status, attempts, rowLock>>
memory  == <<dups, merged>>
handler == <<outcome, seen>>
history == <<restarts, fails, done, settled, aborted>>
vars    == <<table, pc, cur, memory, handler, history>>

Phases == {"down", "idle", "claimed", "merging", "locking", "writing",
           "erring", "recording"}

(* The phases in which the job's handler is running. *)
Executing == {"claimed", "merging", "locking", "writing"}

(* The phases in which the claim is not committed yet. *)
Uncommitted == {"claimed", "merging"}

NoSnapshot == [status |-> "absent", attempts |-> 0]

Targets   == {Target[j] : j \in Jobs}
SourceIds == UNION {Sources[j] : j \in Jobs}

RowFree(j) == rowLock[j] = NoWorker

(* What rollback, commit and the end of a connection do to the row locks. *)
Unlocked(w) == [j \in Jobs |-> IF rowLock[j] = w THEN NoWorker ELSE rowLock[j]]

Init ==
    /\ status = [j \in Jobs |-> IF j \in Backlog THEN "pending" ELSE "absent"]
    /\ attempts = [j \in Jobs |-> 0]
    /\ rowLock = [j \in Jobs |-> NoWorker]
    /\ pc = [w \in Workers |-> "idle"]
    /\ cur = [w \in Workers |-> NoJob]
    /\ dups = [w \in Workers |-> {}]
    /\ merged = [w \in Workers |-> {}]
    /\ outcome = [w \in Workers |-> "none"]
    /\ seen = [w \in Workers |-> NoSnapshot]
    /\ restarts = 0
    /\ fails = [j \in Jobs |-> 0]
    /\ done = [j \in Jobs |-> 0]
    /\ settled = [t \in Targets |-> {}]
    /\ aborted = {}

-----------------------------------------------------------------------------
(* Producers *)

(* The API or the CLI commits an ingest job. *)
Enqueue(j) ==
    /\ Kind[j] = "ingest"
    /\ status[j] = "absent"
    /\ status' = [status EXCEPT ![j] = "pending"]
    /\ UNCHANGED <<attempts, rowLock, pc, cur, memory, handler, history>>

-----------------------------------------------------------------------------
(* The worker loop *)

(* Mutant: claim_next with the guard of its PRD, attempts < max_retries. *)
ClaimableBelowRetries(j) ==
    /\ status[j] = "pending"
    /\ attempts[j] < MaxRetries
    /\ RowFree(j)

(* Mutant: claim_next without FOR UPDATE SKIP LOCKED. *)
ClaimableWithoutLock(j) ==
    /\ status[j] = "pending"
    /\ attempts[j] <= MaxRetries

(* FOR UPDATE SKIP LOCKED sees the committed rows nobody has locked. *)
Claimable(j) ==
    /\ status[j] = "pending"
    /\ attempts[j] <= MaxRetries
    /\ RowFree(j)

(* The claiming UPDATE: the row stays pending for everybody else. *)
Claim(w) ==
    /\ pc[w] = "idle"
    /\ \E j \in Jobs :
        /\ Claimable(j)
        /\ \A k \in Jobs : Claimable(k) => Rank[j] <= Rank[k]
        /\ rowLock' = [rowLock EXCEPT ![j] = w]
        /\ cur' = [cur EXCEPT ![w] = j]
    /\ pc' = [pc EXCEPT ![w] = "claimed"]
    /\ UNCHANGED <<status, attempts, memory, handler, history>>

(* Mutant: the commit comes without complete_job. *)
StatusAfterIngestIncomplete(w, new) ==
    [j \in Jobs |-> IF j \in new THEN "pending" ELSE status[j]]

StatusAfterIngest(w, new) ==
    [j \in Jobs |-> IF j = cur[w] THEN "completed"
                    ELSE IF j \in new THEN "pending"
                    ELSE status[j]]

(* run_ingest_pipeline, complete_job and the commit: the follow-up jobs    *)
(* appear in the transaction that completes the ingest job.                *)
IngestDone(w) ==
    /\ pc[w] = "claimed"
    /\ Kind[cur[w]] = "ingest"
    /\ \E new \in SUBSET {k \in Jobs : Origin[k] = cur[w] /\ status[k] = "absent"} :
        status' = StatusAfterIngest(w, new)
    /\ done' = [done EXCEPT ![cur[w]] = @ + 1]
    /\ rowLock' = Unlocked(w)
    /\ pc' = [pc EXCEPT ![w] = "idle"]
    /\ cur' = [cur EXCEPT ![w] = NoJob]
    /\ UNCHANGED <<attempts, memory, handler, restarts, fails, settled, aborted>>

(* The pending rows of the same type about the same entity or source. *)
Duplicates(j) ==
    {k \in Jobs \ {j} : /\ Kind[k] = Kind[j]
                        /\ Target[k] = Target[j]
                        /\ status[k] = "pending"}

(* Mutant: the duplicates are completed but their source_ids not taken. *)
MergedSourcesOwnOnly(j) == Sources[j]

(* The union of the source_ids that one synthesis will cover. *)
MergedSources(j) == Sources[j] \cup UNION {Sources[k] : k \in Duplicates(j)}

(* The SELECT of _merge_duplicate_jobs or _cancel_duplicate_jobs: a plain   *)
(* read, to which a row claimed but not committed still looks pending.      *)
ReadDuplicates(w) ==
    /\ pc[w] = "claimed"
    /\ Kind[cur[w]] # "ingest"
    /\ dups' = [dups EXCEPT ![w] = Duplicates(cur[w])]
    /\ merged' = [merged EXCEPT ![w] = MergedSources(cur[w])]
    /\ pc' = [pc EXCEPT ![w] = "merging"]
    /\ UNCHANGED <<table, cur, handler, history>>

(* The duplicates the flush has still to update, and the next of them. *)
Unflushed(w) == {k \in dups[w] : rowLock[k] # w}

IsNextFlush(w, k) ==
    /\ pc[w] = "merging"
    /\ k \in Unflushed(w)
    /\ \A i \in Unflushed(w) : PkRank[k] <= PkRank[i]

(* One UPDATE of the flush; it waits while another transaction has the row. *)
FlushDuplicate(w) ==
    /\ \E k \in Jobs :
        /\ IsNextFlush(w, k)
        /\ RowFree(k)
        /\ rowLock' = [rowLock EXCEPT ![k] = w]
    /\ UNCHANGED <<status, attempts, pc, cur, memory, handler, history>>

(* Mutant: the claimed job is marked completed together with its duplicates. *)
StatusAfterMergeCompleted(w) ==
    [j \in Jobs |-> IF j \in dups[w] \cup {cur[w]} THEN "completed" ELSE status[j]]

StatusAfterMerge(w) ==
    [j \in Jobs |-> IF j = cur[w] THEN "processing"
                    ELSE IF j \in dups[w] THEN "completed"
                    ELSE status[j]]

(* db.commit() before the synthesis: the claim becomes visible, the         *)
(* duplicates are completed whatever their status is by now.                *)
CommitMerge(w) ==
    /\ pc[w] = "merging"
    /\ Unflushed(w) = {}
    /\ status' = StatusAfterMerge(w)
    /\ rowLock' = Unlocked(w)
    /\ dups' = [dups EXCEPT ![w] = {}]
    /\ pc' = [pc EXCEPT ![w] = IF Kind[cur[w]] = "entity" THEN "locking"
                               ELSE "writing"]
    /\ UNCHANGED <<attempts, cur, merged, handler, history>>

(* Another worker is inside the advisory lock of w's entity. *)
EntityLocked(w) ==
    \E v \in Workers \ {w} : /\ pc[v] = "writing"
                             /\ Kind[cur[v]] = "entity"
                             /\ Target[cur[v]] = Target[cur[w]]

(* pg_try_advisory_lock succeeds. *)
TakeEntityLock(w) ==
    /\ pc[w] = "locking"
    /\ ~EntityLocked(w)
    /\ pc' = [pc EXCEPT ![w] = "writing"]
    /\ UNCHANGED <<table, cur, memory, handler, history>>

(* The three tries all found the lock taken: AdvisoryLockExhausted, which   *)
(* the worker answers with a rollback.                                      *)
LockExhausted(w) ==
    /\ pc[w] = "locking"
    /\ EntityLocked(w)
    /\ pc' = [pc EXCEPT ![w] = "erring"]
    /\ outcome' = [outcome EXCEPT ![w] = "release"]
    /\ merged' = [merged EXCEPT ![w] = {}]
    /\ aborted' = aborted \cup {Target[cur[w]]}
    /\ UNCHANGED <<table, cur, dups, seen, restarts, fails, done, settled>>

(* The page is written, or skipped on an LLM error, and the job completed   *)
(* by an UPDATE of its row, whatever the row says by now.                   *)
SynthesisDone(w) ==
    /\ pc[w] = "writing"
    /\ RowFree(cur[w])
    /\ status' = [status EXCEPT ![cur[w]] = "completed"]
    /\ settled' = [settled EXCEPT ![Target[cur[w]]] = @ \cup merged[w]]
    /\ merged' = [merged EXCEPT ![w] = {}]
    /\ pc' = [pc EXCEPT ![w] = "idle"]
    /\ cur' = [cur EXCEPT ![w] = NoJob]
    /\ UNCHANGED <<attempts, rowLock, dups, handler, restarts, fails, done, aborted>>

-----------------------------------------------------------------------------
(* Failure *)

(* An exception reaches the worker's except branch, which rolls back.       *)
(* (After a failed flush the branch itself raises: see Die.)                *)
Abort(w) ==
    /\ pc[w] \in Executing
    /\ fails[cur[w]] < MaxFails
    /\ fails' = [fails EXCEPT ![cur[w]] = @ + 1]
    /\ aborted' = IF pc[w] \in Uncommitted THEN aborted
                  ELSE aborted \cup {Target[cur[w]]}
    /\ rowLock' = Unlocked(w)
    /\ pc' = [pc EXCEPT ![w] = "erring"]
    /\ outcome' = [outcome EXCEPT ![w] = "fail"]
    /\ dups' = [dups EXCEPT ![w] = {}]
    /\ merged' = [merged EXCEPT ![w] = {}]
    /\ UNCHANGED <<status, attempts, cur, seen, restarts, done, settled>>

(* The worker whose open transaction a flush of w waits for. *)
Blockers(w) == {v \in Workers \ {w} : \E k \in Jobs : IsNextFlush(w, k) /\ rowLock[k] = v}

(* The flush of w waits for itself in the end. *)
InWaitCycle(w) ==
    \E S \in SUBSET Workers :
        /\ w \in S
        /\ \A v \in S : Blockers(v) \cap S # {}
        /\ \A v \in S : \E u \in S : v \in Blockers(u)

(* db.refresh(job): the committed row, in a new transaction. *)
Refresh(w) ==
    /\ pc[w] = "erring"
    /\ seen' = [seen EXCEPT ![w] = [status |-> status[cur[w]],
                                    attempts |-> attempts[cur[w]]]]
    /\ pc' = [pc EXCEPT ![w] = "recording"]
    /\ UNCHANGED <<table, cur, memory, outcome, history>>

(* The ORM's UPDATE sets the status only where it differs from the snapshot. *)
WriteBack(w, new) == IF new = seen[w].status THEN status[cur[w]] ELSE new

EndOfHandler(w) ==
    /\ pc' = [pc EXCEPT ![w] = "idle"]
    /\ cur' = [cur EXCEPT ![w] = NoJob]
    /\ outcome' = [outcome EXCEPT ![w] = "none"]
    /\ seen' = [seen EXCEPT ![w] = NoSnapshot]

(* Mutant: the claim is cleared but the status left as it is. *)
ReleasedStatusUnchanged(w) == status[cur[w]]

ReleasedStatus(w) == WriteBack(w, "pending")

(* Mutant: a release gives an attempt back. *)
AttemptsAfterReleaseRefunded(w) == seen[w].attempts - 1

AttemptsAfterRelease(w) == attempts[cur[w]]

(* release_claim_to_pending and commit; nothing is written if nothing differs. *)
ReleaseClaim(w) ==
    /\ pc[w] = "recording"
    /\ outcome[w] = "release"
    /\ seen[w].status = "pending" \/ RowFree(cur[w])
    /\ status' = [status EXCEPT ![cur[w]] = ReleasedStatus(w)]
    /\ attempts' = [attempts EXCEPT ![cur[w]] = AttemptsAfterRelease(w)]
    /\ EndOfHandler(w)
    /\ UNCHANGED <<rowLock, memory, history>>

(* Mutant: the comparison that fail_job's docstring states. *)
RetryAllowedBelow(n) == n < MaxRetries

RetryAllowed(n) == n <= MaxRetries

(* fail_job and commit. *)
FailJob(w) ==
    /\ pc[w] = "recording"
    /\ outcome[w] = "fail"
    /\ RowFree(cur[w])
    /\ LET n == seen[w].attempts + 1 IN
        /\ attempts' = [attempts EXCEPT ![cur[w]] = n]
        /\ status' = [status EXCEPT ![cur[w]] =
                        WriteBack(w, IF RetryAllowed(n) THEN "pending" ELSE "failed")]
    /\ EndOfHandler(w)
    /\ UNCHANGED <<rowLock, memory, history>>

-----------------------------------------------------------------------------
(* Processes *)

(* The process ends, its connection with it, and its transaction rolls back. *)
(* That is also what a failed flush leads to: the session has rolled back    *)
(* and expired its objects by then, so the except branch raises when it      *)
(* reads job.id for its log entry, and worker_loop with it.                  *)
Die(w) ==
    /\ aborted' = IF pc[w] \in {"locking", "writing"}
                  THEN aborted \cup {Target[cur[w]]} ELSE aborted
    /\ rowLock' = Unlocked(w)
    /\ pc' = [pc EXCEPT ![w] = "down"]
    /\ cur' = [cur EXCEPT ![w] = NoJob]
    /\ dups' = [dups EXCEPT ![w] = {}]
    /\ merged' = [merged EXCEPT ![w] = {}]
    /\ outcome' = [outcome EXCEPT ![w] = "none"]
    /\ seen' = [seen EXCEPT ![w] = NoSnapshot]
    /\ UNCHANGED <<status, attempts, fails, done, settled>>

(* The process is killed, or a flush or a statement of the worker loop fails. *)
Crash(w) ==
    /\ pc[w] # "down"
    /\ restarts < MaxRestarts
    /\ restarts' = restarts + 1
    /\ Die(w)

(* Postgres makes the flush of a transaction in a cycle of waits fail. *)
DeadlockVictim(w) ==
    /\ InWaitCycle(w)
    /\ Die(w)
    /\ UNCHANGED restarts

(* SIGTERM is obeyed at the top of the loop, between two jobs. *)
Stop(w) ==
    /\ pc[w] = "idle"
    /\ restarts < MaxRestarts
    /\ restarts' = restarts + 1
    /\ pc' = [pc EXCEPT ![w] = "down"]
    /\ UNCHANGED <<table, cur, memory, handler, fails, done, settled, aborted>>

(* restart: unless-stopped *)
Restart(w) ==
    /\ pc[w] = "down"
    /\ pc' = [pc EXCEPT ![w] = "idle"]
    /\ UNCHANGED <<table, cur, memory, handler, history>>

-----------------------------------------------------------------------------

(* The steps a live worker takes of itself. *)
WorkerStep(w) ==
    \/ Claim(w)
    \/ IngestDone(w)
    \/ ReadDuplicates(w)
    \/ FlushDuplicate(w)
    \/ CommitMerge(w)
    \/ TakeEntityLock(w)
    \/ LockExhausted(w)
    \/ SynthesisDone(w)
    \/ DeadlockVictim(w)
    \/ Refresh(w)
    \/ ReleaseClaim(w)
    \/ FailJob(w)
    \/ Restart(w)

Next ==
    \/ \E j \in Jobs : Enqueue(j)
    \/ \E w \in Workers : \/ WorkerStep(w)
                          \/ Abort(w)
                          \/ Crash(w)
                          \/ Stop(w)

Spec == Init /\ [][Next]_vars

(* The event loop runs, Postgres answers, and a container that died is       *)
(* started again.  An UPDATE that waits for a row is queued for it, ahead of *)
(* the claims that come later: it gets the row if it is free again and again.*)
AwaitingRow(w) ==
    \/ FlushDuplicate(w)
    \/ SynthesisDone(w)
    \/ ReleaseClaim(w)
    \/ FailJob(w)

Fairness == \A w \in Workers : WF_vars(WorkerStep(w)) /\ SF_vars(AwaitingRow(w))

FairSpec == Spec /\ Fairness

-----------------------------------------------------------------------------
(* Properties *)

(* The rows and the workers' memory hold values of the types the code gives  *)
(* them; attempts in particular never drops below zero.                      *)
TypeOK ==
    /\ status \in [Jobs -> Statuses]
    /\ attempts \in [Jobs -> Nat]
    /\ rowLock \in [Jobs -> Workers \cup {NoWorker}]
    /\ pc \in [Workers -> Phases]
    /\ cur \in [Workers -> Jobs \cup {NoJob}]
    /\ dups \in [Workers -> SUBSET Jobs]
    /\ merged \in [Workers -> SUBSET SourceIds]
    /\ outcome \in [Workers -> {"none", "fail", "release"}]
    /\ seen \in [Workers -> [status : Statuses, attempts : Nat]]
    /\ restarts \in 0..MaxRestarts
    /\ fails \in [Jobs -> 0..MaxFails]
    /\ done \in [Jobs -> Nat]
    /\ settled \in [Targets -> SUBSET SourceIds]
    /\ aborted \subseteq Targets

IsExecuting(w, j) == pc[w] \in Executing /\ cur[w] = j

(* No two workers are in the handler of the same job: "multiple workers do   *)
(* not process the same job" (docs/prd/ingest-pipeline-orchestration.md).    *)
OneExecutor ==
    \A v, w \in Workers, j \in Jobs :
        IsExecuting(v, j) /\ IsExecuting(w, j) => v = w

(* For ingest jobs, whose claim stays uncommitted to the end, that is so     *)
(* however failing, crashing and claiming workers interleave.                *)
IngestExclusive ==
    \A v, w \in Workers, j \in Jobs :
        Kind[j] = "ingest" /\ IsExecuting(v, j) /\ IsExecuting(w, j) => v = w

(* The workers whose failure on j is not recorded yet. *)
Unrecorded(j) ==
    {w \in Workers : /\ cur[w] = j
                     /\ outcome[w] = "fail"
                     /\ pc[w] \in {"erring", "recording"}}

(* Neither the row nor any snapshot of it that is about to be written back   *)
(* counts a failure that has not happened, or one that is not recorded yet.  *)
FailuresCounted ==
    \A j \in Jobs :
        /\ attempts[j] + Cardinality(Unrecorded(j)) <= fails[j]
        /\ \A w \in Unrecorded(j) :
              pc[w] = "recording"
                => seen[w].attempts + Cardinality(Unrecorded(j)) <= fails[j]

(* A worker that has failed frees the row before it writes its verdict, and  *)
(* writes it over whatever the row says by then: another worker may have     *)
(* completed the job meanwhile, and the verdict "pending" has it carried out *)
(* once more (worker.py:115-118).  That is all that can happen: an ingest    *)
(* job is carried out once, and once more at most for every failure whose    *)
(* verdict has been given, however claims, rollbacks and crashes interleave. *)
CompletedOncePerFailure ==
    \A j \in Jobs :
        done[j] + Cardinality(Unrecorded(j))
            <= fails[j] + (IF status[j] = "completed" THEN 1 ELSE 0)

(* A job is marked failed only after its handler has failed max_retries + 1  *)
(* times: no interleaving of two workers' bookkeeping uses up retries that   *)
(* were not spent.                                                           *)
NoEarlyGiveUp == \A j \in Jobs : status[j] = "failed" => fails[j] > MaxRetries

(* "Catch everything so a single bad job does not crash the worker loop"     *)
(* (worker.py): unless something kills or stops it, no worker is down.       *)
LoopSurvives == restarts = 0 => \A w \in Workers : pc[w] # "down"

(* As long as no process is killed or stopped, a job that reads "processing" *)
(* is in the hands of a worker that will still write its status.             *)
ProcessingHasWorker ==
    restarts = 0 =>
        \A j \in Jobs : status[j] = "processing" => \E w \in Workers : cur[w] = j

(* A finished synthesis of t covered s, or one that has merged it is under way. *)
IsCovered(t, s) ==
    \/ s \in settled[t]
    \/ \E w \in Workers : /\ pc[w] \in {"locking", "writing"}
                          /\ Target[cur[w]] = t
                          /\ s \in merged[w]

(* The sources of a coalesced entity job are covered by a finished synthesis *)
(* or on their way to one ("merge their source_ids into claimed payload",    *)
(* docs/prd/wiki-synthesis.md), but for an entity of which a run broke off   *)
(* after it had committed its merge: claims, waits and deadlocks in the      *)
(* merge itself lose nothing.                                                *)
MergeLosesNothing ==
    \A j \in Jobs : Kind[j] = "entity" /\ status[j] = "completed" /\ Target[j] \notin aborted
                        => \A s \in Sources[j] : IsCovered(Target[j], s)

Ended(j) == status[j] \in {"completed", "failed"}

(* The job reads "processing", and no worker has it any more. *)
Orphaned(j) == status[j] = "processing" /\ \A w \in Workers : cur[w] # j

(* The queue is "durable and restart-safe" (README.md) but for one case: a   *)
(* job that waits ends, unless a worker is killed after the handler has      *)
(* committed the claim.  Failures, retries and restarts between two jobs     *)
(* delay it at most.  An ingest job knows no such case: its claim is rolled  *)
(* back with the transaction that did the work.                              *)
JobSettlesOrIsOrphaned ==
    \A j \in Jobs :
        status[j] = "pending"
            ~> Ended(j) \/ (restarts > 0 /\ Kind[j] # "ingest" /\ Orphaned(j))

-----------------------------------------------------------------------------
(* Refinement *)

(* A row counts as waiting until its end is committed. *)
StateOf(s) == CASE s = "absent" -> "absent"
                [] s \in {"pending", "processing"} -> "waiting"
                [] s = "completed" -> "done"
                [] s = "failed" -> "dead"

Durable == INSTANCE DurableQueue WITH
                state <- [j \in Jobs |-> StateOf(status[j])],
                tries <- attempts

(* A single worker that may fail, crash and be restarted keeps the queue's   *)
(* promise.                                                                  *)
ImplementsDurableQueue == Durable!Spec
=============================================================================
