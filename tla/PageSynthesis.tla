---------------------------- MODULE PageSynthesis ----------------------------
(***************************************************************************)
(* synthesize_entity_page (wiki/synthesis.py) after its merge has been     *)
(* committed: the advisory lock on the entity, the page that is read,      *)
(* rewritten by the LLM and written back, and the order in which the lock  *)
(* is released and the transaction commits.                                *)
(*                                                                         *)
(* The queue is reduced to what it does to a synthesis: a claim takes the  *)
(* oldest pending job with all the pending jobs about the same entity.     *)
(* What several workers do to each other during that merge is in JobQueue. *)
(*                                                                         *)
(* The text of a page is the set of the sources it has something from,     *)
(* and its form: a stub, a page that the next prompt shows as a whole, or  *)
(* one of which it shows only the beginning.  The LLM is told to preserve  *)
(* the existing page, and the model takes it that it keeps what it is      *)
(* shown: what is lost nevertheless is lost by the code.                   *)
(***************************************************************************)
EXTENDS Naturals, FiniteSets

CONSTANTS
    Workers, Jobs, Entities, SourceIds,
    Entity,      (* target_entity_id of a job                               *)
    Sources,     (* source_ids of its payload                               *)
    Rank,        (* created_at                                              *)
    NoJob, NoWorker,
    LockTries,   (* length of _ADVISORY_LOCK_DELAYS                         *)
    MaxRetries,  (* max_retries                                             *)
    MaxErrors,   (* bound: exceptions that come from outside the model      *)
    MaxCrashes   (* bound: worker processes that die                        *)

ASSUME SynthesisAssumption ==
    /\ NoWorker \notin Workers /\ NoJob \notin Jobs
    /\ Entity \in [Jobs -> Entities]
    /\ Sources \in [Jobs -> SUBSET SourceIds]
    /\ Rank \in [Jobs -> Nat]
    /\ LockTries \in Nat \ {0}
    /\ MaxRetries \in Nat /\ MaxErrors \in Nat /\ MaxCrashes \in Nat

VARIABLES
    queue,     (* status of a job, "absent" before it is enqueued           *)
    attempts,  (* attempts of a job                                         *)
    page,      (* the committed page of an entity                           *)
    rowOwner,  (* worker with an uncommitted write of the page              *)
    holder,    (* worker whose connection holds the advisory lock           *)
    depth,     (* how many times it has taken it                            *)
    pc,        (* where synthesize_entity_page is                           *)
    job,       (* the job of the worker                                     *)
    sources,   (* merged_source_ids                                         *)
    tries,     (* failed tries for the lock                                 *)
    base,      (* the page as read inside the lock                          *)
    draft,     (* the page as written, not committed                        *)
    errors,    (* bound                                                     *)
    crashes    (* bound                                                     *)

jobVars    == <<queue, attempts>>
pageVars   == <<page, rowOwner>>
lockVars   == <<holder, depth>>
workerVars == <<pc, job, sources, tries, base, draft>>
bounds     == <<errors, crashes>>
vars       == <<jobVars, pageVars, lockVars, workerVars, bounds>>

Phases == {"idle", "locking", "reading", "prompting", "written", "failed",
           "committing", "recording", "down"}

(* Between pg_try_advisory_lock and pg_advisory_unlock. *)
Section == {"reading", "prompting", "written", "failed"}

(* "long" is longer than the _TIER_2_BUDGET that the prompt has for a page. *)
Forms == {"none", "stub", "fits", "long"}

PageOf(form, content) == [form |-> form, content |-> content]

NoPage == PageOf("none", {})

Exists(p) == p.form # "none"

Init ==
    /\ queue = [j \in Jobs |-> "absent"]
    /\ attempts = [j \in Jobs |-> 0]
    /\ page = [e \in Entities |-> NoPage]
    /\ rowOwner = [e \in Entities |-> NoWorker]
    /\ holder = [e \in Entities |-> NoWorker]
    /\ depth = [e \in Entities |-> 0]
    /\ pc = [w \in Workers |-> "idle"]
    /\ job = [w \in Workers |-> NoJob]
    /\ sources = [w \in Workers |-> {}]
    /\ tries = [w \in Workers |-> 0]
    /\ base = [w \in Workers |-> NoPage]
    /\ draft = [w \in Workers |-> NoPage]
    /\ errors = 0
    /\ crashes = 0

-----------------------------------------------------------------------------
(* The queue *)

(* An ingest run commits the job. *)
Enqueue(j) ==
    /\ queue[j] = "absent"
    /\ queue' = [queue EXCEPT ![j] = "pending"]
    /\ UNCHANGED <<attempts, pageVars, lockVars, workerVars, bounds>>

Pending == {j \in Jobs : queue[j] = "pending"}

(* The claim, _merge_duplicate_jobs and the commit after it. *)
Claim(w) ==
    /\ pc[w] = "idle"
    /\ \E j \in Pending :
        /\ \A k \in Pending : Rank[j] <= Rank[k]
        /\ LET same == {k \in Pending : Entity[k] = Entity[j]} IN
            /\ queue' = [k \in Jobs |-> IF k = j THEN "processing"
                                        ELSE IF k \in same THEN "completed"
                                        ELSE queue[k]]
            /\ sources' = [sources EXCEPT ![w] = UNION {Sources[k] : k \in same}]
        /\ job' = [job EXCEPT ![w] = j]
    /\ pc' = [pc EXCEPT ![w] = "locking"]
    /\ UNCHANGED <<attempts, pageVars, lockVars, tries, base, draft, bounds>>

Target(w) == Entity[job[w]]

(* The worker's locals at the end of a job. *)
Forget(w) ==
    /\ job' = [job EXCEPT ![w] = NoJob]
    /\ sources' = [sources EXCEPT ![w] = {}]
    /\ tries' = [tries EXCEPT ![w] = 0]
    /\ base' = [base EXCEPT ![w] = NoPage]
    /\ draft' = [draft EXCEPT ![w] = NoPage]

-----------------------------------------------------------------------------
(* The advisory lock *)

(* Mutant: the lock is granted while another connection has it. *)
LockFreeAlways(w) == holder[Target(w)] \in Workers \cup {NoWorker}

(* A session-level lock is granted again to the session that has it. *)
LockFree(w) == holder[Target(w)] \in {NoWorker, w}

TryLock(w) ==
    /\ pc[w] = "locking"
    /\ LockFree(w)
    /\ holder' = [holder EXCEPT ![Target(w)] = w]
    /\ depth' = [depth EXCEPT ![Target(w)] = @ + 1]
    /\ pc' = [pc EXCEPT ![w] = "reading"]
    /\ UNCHANGED <<jobVars, pageVars, job, sources, tries, base, draft, bounds>>

(* Mutant: one try more. *)
TriesLeftOneMore(w) == tries[w] < LockTries

TriesLeft(w) == tries[w] + 1 < LockTries

(* A try fails; after the last one, AdvisoryLockExhausted makes the worker  *)
(* roll back and put the job back.                                          *)
TryFails(w) ==
    /\ pc[w] = "locking"
    /\ ~ LockFree(w)
    /\ IF TriesLeft(w)
       THEN /\ tries' = [tries EXCEPT ![w] = @ + 1]
            /\ UNCHANGED <<queue, pc, job, sources, base, draft>>
       ELSE /\ queue' = [queue EXCEPT ![job[w]] = "pending"]
            /\ pc' = [pc EXCEPT ![w] = "idle"]
            /\ Forget(w)
    /\ UNCHANGED <<attempts, pageVars, lockVars, bounds>>

(* What an unlock leaves of the lock. *)
UnlockedBy(e) ==
    /\ depth' = [depth EXCEPT ![e] = @ - 1]
    /\ holder' = [holder EXCEPT ![e] = IF depth[e] = 1 THEN NoWorker ELSE @]

-----------------------------------------------------------------------------
(* Inside the lock *)

ReadPage(w) ==
    /\ pc[w] = "reading"
    /\ base' = [base EXCEPT ![w] = page[Target(w)]]
    /\ pc' = [pc EXCEPT ![w] = "prompting"]
    /\ UNCHANGED <<jobVars, pageVars, lockVars, job, sources, tries, draft, bounds>>

(* LLMProviderError: return without a page; the worker completes the job. *)
SkipOnLLMError(w) ==
    /\ pc[w] = "prompting"
    /\ errors < MaxErrors
    /\ errors' = errors + 1
    /\ pc' = [pc EXCEPT ![w] = "written"]
    /\ UNCHANGED <<jobVars, pageVars, lockVars, job, sources, tries, base, draft, crashes>>

(* Mutant: the prompt does not carry the existing page. *)
ExcerptsNone(p) == {{}}

(* What the prompt may show of the existing page: its head, 800 tokens of it. *)
Excerpts(p) == IF p.form = "long" THEN SUBSET p.content ELSE {p.content}

(* What an answer has something from: all that the prompt showed of the page *)
(* and any of the sources, whose chunks the prompt carries as far as they    *)
(* fit.                                                                      *)
Contents(w) ==
    {c \in SUBSET (base[w].content \cup sources[w]) :
        \E shown \in Excerpts(base[w]) : shown \subseteq c}

(* The answer replaces the page as a whole, with any length.  One without    *)
(* content becomes a stub.                                                   *)
Answers(w) ==
    {PageOf("stub", {})} \cup [form : {"fits", "long"}, content : Contents(w)]

(* The INSERT hits the unique entity_id of a page committed meanwhile. *)
Collides(w) == ~ Exists(base[w]) /\ Exists(page[Target(w)])

(* The flush waits for another worker's uncommitted row of the same page,   *)
(* then updates whatever is there now, or inserts.                          *)
WritePage(w) ==
    /\ pc[w] = "prompting"
    /\ rowOwner[Target(w)] = NoWorker
    /\ ~ Collides(w)
    /\ \E new \in Answers(w) : draft' = [draft EXCEPT ![w] = new]
    /\ rowOwner' = [rowOwner EXCEPT ![Target(w)] = w]
    /\ pc' = [pc EXCEPT ![w] = "written"]
    /\ UNCHANGED <<jobVars, page, lockVars, job, sources, tries, base, bounds>>

(* finally: the unlock, on the same connection and before the commit. *)
Unlock(w) ==
    /\ pc[w] \in {"written", "failed"}
    /\ UnlockedBy(Target(w))
    /\ pc' = [pc EXCEPT ![w] = IF pc[w] = "written" THEN "committing" ELSE "recording"]
    /\ UNCHANGED <<jobVars, pageVars, job, sources, tries, base, draft, bounds>>

(* An LLM error leaves no draft, and the page as it is. *)
CommittedPage(w) == IF Exists(draft[w]) THEN draft[w] ELSE page[Target(w)]

(* Mutant: the job is still pending when its page is committed. *)
StatusAtCommitPending(w) == "pending"

StatusAtCommit(w) == "completed"

(* complete_job and the worker's commit. *)
Commit(w) ==
    /\ pc[w] = "committing"
    /\ page' = [page EXCEPT ![Target(w)] = CommittedPage(w)]
    /\ rowOwner' = [e \in Entities |-> IF rowOwner[e] = w THEN NoWorker ELSE rowOwner[e]]
    /\ queue' = [queue EXCEPT ![job[w]] = StatusAtCommit(w)]
    /\ pc' = [pc EXCEPT ![w] = "idle"]
    /\ Forget(w)
    /\ UNCHANGED <<attempts, lockVars, bounds>>

-----------------------------------------------------------------------------
(* Failure *)

RolledBack(w) ==
    /\ rowOwner' = [e \in Entities |-> IF rowOwner[e] = w THEN NoWorker ELSE rowOwner[e]]
    /\ draft' = [draft EXCEPT ![w] = NoPage]

(* An exception that is not the database's: the transaction still works, so *)
(* the finally clause can unlock.                                           *)
OtherError(w) ==
    /\ pc[w] \in {"reading", "prompting"}
    /\ errors < MaxErrors
    /\ errors' = errors + 1
    /\ pc' = [pc EXCEPT ![w] = "failed"]
    /\ UNCHANGED <<jobVars, pageVars, lockVars, job, sources, tries, base, draft, crashes>>

(* A query or the insert into the join table fails.  In the aborted          *)
(* transaction the unlock fails too: the connection keeps the lock when it   *)
(* goes back to the pool.                                                    *)
StatementFails(w) ==
    /\ pc[w] \in {"reading", "prompting", "written"}
    /\ errors < MaxErrors
    /\ errors' = errors + 1
    /\ RolledBack(w)
    /\ pc' = [pc EXCEPT ![w] = "recording"]
    /\ UNCHANGED <<jobVars, page, lockVars, job, sources, tries, base, crashes>>

(* An exception before the lock was taken or after it was released. *)
ErrorOutsideLock(w) ==
    /\ pc[w] \in {"locking", "committing"}
    /\ errors < MaxErrors
    /\ errors' = errors + 1
    /\ RolledBack(w)
    /\ pc' = [pc EXCEPT ![w] = "recording"]
    /\ UNCHANGED <<jobVars, page, lockVars, job, sources, tries, base, crashes>>

(* The worker's rollback, refresh, fail_job and commit. *)
RecordFailure(w) ==
    /\ pc[w] = "recording"
    /\ attempts' = [attempts EXCEPT ![job[w]] = @ + 1]
    /\ queue' = [queue EXCEPT ![job[w]] =
                    IF attempts[job[w]] + 1 <= MaxRetries THEN "pending" ELSE "failed"]
    /\ pc' = [pc EXCEPT ![w] = "idle"]
    /\ Forget(w)
    /\ UNCHANGED <<pageVars, lockVars, bounds>>

(* The process ends, and its connection with it.  A failed flush leads to    *)
(* that: the worker's except branch reads job.id, expired by then, and       *)
(* raises out of worker_loop.                                                *)
Die(w) ==
    /\ rowOwner' = [e \in Entities |-> IF rowOwner[e] = w THEN NoWorker ELSE rowOwner[e]]
    /\ holder' = [e \in Entities |-> IF holder[e] = w THEN NoWorker ELSE holder[e]]
    /\ depth' = [e \in Entities |-> IF holder[e] = w THEN 0 ELSE depth[e]]
    /\ pc' = [pc EXCEPT ![w] = "down"]
    /\ Forget(w)
    /\ UNCHANGED <<jobVars, page>>

(* The process is killed, or a flush fails for a reason of its own. *)
Crash(w) ==
    /\ pc[w] # "down"
    /\ crashes < MaxCrashes
    /\ crashes' = crashes + 1
    /\ Die(w)
    /\ UNCHANGED errors

(* The unique violation of the flush, after it has waited. *)
InsertCollision(w) ==
    /\ pc[w] = "prompting"
    /\ rowOwner[Target(w)] = NoWorker
    /\ Collides(w)
    /\ Die(w)
    /\ UNCHANGED bounds

Restart(w) ==
    /\ pc[w] = "down"
    /\ pc' = [pc EXCEPT ![w] = "idle"]
    /\ UNCHANGED <<jobVars, pageVars, lockVars, job, sources, tries, base, draft, bounds>>

-----------------------------------------------------------------------------

WorkerStep(w) ==
    \/ Claim(w)
    \/ TryLock(w)
    \/ TryFails(w)
    \/ ReadPage(w)
    \/ WritePage(w)
    \/ InsertCollision(w)
    \/ Unlock(w)
    \/ Commit(w)
    \/ RecordFailure(w)
    \/ Restart(w)

Next ==
    \/ \E j \in Jobs : Enqueue(j)
    \/ \E w \in Workers : \/ WorkerStep(w)
                          \/ SkipOnLLMError(w)
                          \/ OtherError(w)
                          \/ StatementFails(w)
                          \/ ErrorOutsideLock(w)
                          \/ Crash(w)

Spec == Init /\ [][Next]_vars

(* The event loop runs and Postgres answers. *)
Fairness == \A w \in Workers : WF_vars(WorkerStep(w))

FairSpec == Spec /\ Fairness

-----------------------------------------------------------------------------
(* Properties *)

PageType == [form : Forms, content : SUBSET SourceIds]

(* Every variable holds a value of its type; in particular no unlock takes   *)
(* the lock's depth below zero and nobody tries more than three times.       *)
TypeOK ==
    /\ queue \in [Jobs -> {"absent", "pending", "processing", "completed", "failed"}]
    /\ attempts \in [Jobs -> Nat]
    /\ page \in [Entities -> PageType]
    /\ rowOwner \in [Entities -> Workers \cup {NoWorker}]
    /\ holder \in [Entities -> Workers \cup {NoWorker}]
    /\ depth \in [Entities -> Nat]
    /\ pc \in [Workers -> Phases]
    /\ job \in [Workers -> Jobs \cup {NoJob}]
    /\ sources \in [Workers -> SUBSET SourceIds]
    /\ tries \in [Workers -> 0..(LockTries - 1)]
    /\ base \in [Workers -> PageType]
    /\ draft \in [Workers -> PageType]
    /\ errors \in 0..MaxErrors
    /\ crashes \in 0..MaxCrashes

InSection(w, e) == pc[w] \in Section /\ Target(w) = e

(* Whatever fails, leaks or crashes, two workers are never between lock and  *)
(* unlock of the same entity, so no two LLM calls rewrite the same page.     *)
OneSynthesizer ==
    \A e \in Entities, v, w \in Workers : InSection(v, e) /\ InSection(w, e) => v = w

(* A page appears or changes only in the step that completes the job that    *)
(* wrote it: a run that fails, is released or dies publishes nothing.        *)
PublishedWithCompletion ==
    [][\A e \in Entities : page'[e] # page[e]
            => \E j \in Jobs : /\ Entity[j] = e
                               /\ queue[j] = "processing"
                               /\ queue'[j] = "completed"]_vars

(* What a page covers, its later versions do ("so that no content is lost",  *)
(* docs/prd/wiki-synthesis.md), but for three cases, even if the LLM drops   *)
(* nothing that it is shown: the worker read the page before the version     *)
(* that it overwrites was committed; the LLM answered with nothing, and a    *)
(* stub replaces the page; or the page is longer than what the prompt shows. *)
LossExplained ==
    [][\A e \in Entities :
            page[e].content \subseteq page'[e].content
            \/ \E w \in Workers : /\ pc[w] = "committing" /\ pc'[w] = "idle"
                                  /\ Target(w) = e
                                  /\ \/ base[w] # page[e]
                                     \/ page'[e].form = "stub"
                                     \/ page[e].form = "long"]_vars

(* What keeps a job from ending: its worker died, or a connection kept the   *)
(* lock of its entity.                                                       *)
Orphaned(j) == queue[j] = "processing" /\ \A w \in Workers : job[w] # j

Leaked(e) == holder[e] # NoWorker /\ ~ InSection(holder[e], e)

(* Workers that refuse each other the lock, wait for each other's rows or    *)
(* put their jobs back do so for a while only.                               *)
JobEndsOrIsStuck ==
    \A j \in Jobs : queue[j] = "pending"
        ~> \/ queue[j] \in {"completed", "failed"}
           \/ Orphaned(j)
           \/ Leaked(Entity[j])
=============================================================================
