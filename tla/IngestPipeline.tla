---------------------------- MODULE IngestPipeline ----------------------------
(***************************************************************************)
(* One ingest run per claimed job (ingest/pipeline.py): the loop over the  *)
(* chunks of a source, the resolution of each chunk's entity candidates    *)
(* against the graph under an advisory lock on the candidate's name        *)
(* (graph/resolution.py, graph/merge.py), and the single transaction that  *)
(* the worker commits or rolls back at the end.                            *)
(*                                                                         *)
(* A row that a run has written is in its own sets until that commit: the  *)
(* run sees it, nobody else does.  An entity is embedded as its name and   *)
(* description, its text; embeddings are reduced to the distances between  *)
(* texts.  What parsing and extraction return is given by the constants.   *)
(***************************************************************************)
EXTENDS Naturals, Sequences, FiniteSets

CONSTANTS
    Workers,
    Runs,         (* the ingest jobs, one per source                        *)
    Chunks,       (* the chunks that the sources are parsed into            *)
    ChunksOf,     (* the chunks of a run, in the order of chunk_index       *)
    Names,        (* canonical names                                        *)
    Descriptions,
    Candidates,   (* the names and descriptions extracted from a chunk, by  *)
                  (* position                                               *)
    Relations,    (* its relations: pairs of positions, in order            *)
    Distance,     (* between the embeddings of two texts                    *)
    Threshold,    (* entity_resolution_distance_threshold                   *)
    TopK,         (* entity_resolution_top_k                                *)
    NoRun,
    MaxRetries,   (* max_retries of the job                                 *)
    MaxErrors,    (* bound: exceptions from providers and the database      *)
    MaxCrashes    (* bound: worker processes that die                       *)

(* What is embedded of a candidate, and then of the entity made from it.     *)
Texts == Names \X Descriptions

(* A chunk row is made by the run that parses its source, so that no two     *)
(* runs share one.  The distance of two vectors is the same both ways.       *)
ASSUME PipelineAssumption ==
    /\ NoRun \notin Runs
    /\ ChunksOf \in [Runs -> Seq(Chunks)]
    /\ \A q, r \in Runs : \A i \in DOMAIN ChunksOf[q], k \in DOMAIN ChunksOf[r] :
            ChunksOf[q][i] = ChunksOf[r][k] => q = r /\ i = k
    /\ Candidates \in [Chunks -> Seq(Texts)]
    /\ \A c \in Chunks : Relations[c] \in Seq((DOMAIN Candidates[c]) \X (DOMAIN Candidates[c]))
    /\ Distance \in [Texts \X Texts -> Nat]
    /\ \A s, t \in Texts : Distance[<<s, t>>] = Distance[<<t, s>>]
    /\ Threshold \in Nat /\ TopK \in Nat
    /\ MaxRetries \in Nat /\ MaxErrors \in Nat /\ MaxCrashes \in Nat

VARIABLES
    faithful,      (* the LLM merges into a found entity of the very name   *)
    (* committed *)
    jobStatus,     (* of the ingest job                                     *)
    attempts,
    sourceStatus,  (* sources.status                                        *)
    entities,      (* an entity is named by the candidate it was made from  *)
    links,         (* chunk_entities                                        *)
    relations,     (* relations: source, target, chunk                      *)
    processed,     (* the chunks with status "processed"                    *)
    synthesis,     (* synthesize_entity jobs enqueued: run and entity       *)
    (* one run *)
    pc,
    run,           (* the run of a worker                                   *)
    at,            (* index of its chunk                                    *)
    cand,          (* index of the chunk's candidate                        *)
    found,         (* what the vector search returned                       *)
    resolved,      (* resolved: positions and their entities                *)
    own,           (* its uncommitted rows                                  *)
    tx,            (* its transaction, see TxStates                         *)
    leaked,        (* names whose lock its connection keeps                 *)
    (* bounds *)
    errors, crashes

committed == <<jobStatus, attempts, sourceStatus, entities, links, relations,
               processed, synthesis>>
position  == <<run, at, cand, found, resolved>>
bounds    == <<errors, crashes>>
vars      == <<faithful, committed, pc, position, own, tx, leaked, bounds>>

Phases == {"idle", "chunk", "candidate", "locked", "deciding", "down"}

(* Aborted by a failed statement; lost by a failed flush, which rolls back   *)
(* and expires the objects of the session.                                   *)
TxStates == {"open", "aborted", "lost"}

Entities == UNION {{<<c, i>> : i \in DOMAIN Candidates[c]} : c \in Chunks}

TextOf(e) == Candidates[e[1]][e[2]]

NameOf(e) == TextOf(e)[1]

Apart(d, e) == Distance[<<TextOf(d), TextOf(e)>>]

NoRows == [entities |-> {}, links |-> {}, relations |-> {}, processed |-> {}]

Init ==
    /\ faithful \in BOOLEAN
    /\ jobStatus = [r \in Runs |-> "pending"]
    /\ attempts = [r \in Runs |-> 0]
    /\ sourceStatus = [r \in Runs |-> "pending"]
    /\ entities = {}
    /\ links = {}
    /\ relations = {}
    /\ processed = {}
    /\ synthesis = {}
    /\ pc = [w \in Workers |-> "idle"]
    /\ run = [w \in Workers |-> NoRun]
    /\ at = [w \in Workers |-> 1]
    /\ cand = [w \in Workers |-> 1]
    /\ found = [w \in Workers |-> {}]
    /\ resolved = [w \in Workers |-> {}]
    /\ own = [w \in Workers |-> NoRows]
    /\ tx = [w \in Workers |-> "open"]
    /\ leaked = [w \in Workers |-> {}]
    /\ errors = 0
    /\ crashes = 0

-----------------------------------------------------------------------------

Chunk(w) == ChunksOf[run[w]][at[w]]

HasChunk(w) == at[w] <= Len(ChunksOf[run[w]])

HasCandidate(w) == cand[w] <= Len(Candidates[Chunk(w)])

Candidate(w) == <<Chunk(w), cand[w]>>

Name(w) == NameOf(Candidate(w))

(* The names whose lock the connection of w has. *)
LockedBy(w) == leaked[w] \cup (IF pc[w] \in {"locked", "deciding"} THEN {Name(w)} ELSE {})

NameFree(w) == \A v \in Workers \ {w} : Name(w) \notin LockedBy(v)

(* What a query of w sees: READ COMMITTED and its own rows. *)
Visible(w) == entities \cup own[w].entities

(* The run moves on to its next chunk. *)
NextChunk(w) ==
    /\ pc' = [pc EXCEPT ![w] = "chunk"]
    /\ at' = [at EXCEPT ![w] = @ + 1]
    /\ cand' = [cand EXCEPT ![w] = 1]
    /\ found' = [found EXCEPT ![w] = {}]
    /\ resolved' = [resolved EXCEPT ![w] = {}]

(* The next candidate of the same chunk. *)
NextCandidate(w) ==
    /\ pc' = [pc EXCEPT ![w] = "candidate"]
    /\ cand' = [cand EXCEPT ![w] = @ + 1]
    /\ found' = [found EXCEPT ![w] = {}]

(* The except clause of the chunk loop: the chunk is marked failed and what *)
(* it has written so far stays in the transaction.                          *)
ChunkFailed(w) == NextChunk(w) /\ UNCHANGED run

Fault == errors < MaxErrors /\ errors' = errors + 1 /\ UNCHANGED crashes

-----------------------------------------------------------------------------
(* The run *)

(* A worker claims the job; its row lock keeps the others away. *)
Start(w) ==
    /\ pc[w] = "idle"
    /\ \E r \in Runs :
        /\ jobStatus[r] = "pending"
        /\ \A v \in Workers : run[v] # r
        /\ run' = [run EXCEPT ![w] = r]
    /\ pc' = [pc EXCEPT ![w] = "chunk"]
    /\ UNCHANGED <<committed, at, cand, found, resolved, own, tx, leaked, bounds>>

(* Back to the loop of the worker. *)
Idle(w) ==
    /\ run' = [run EXCEPT ![w] = NoRun]
    /\ at' = [at EXCEPT ![w] = 1]
    /\ cand' = [cand EXCEPT ![w] = 1]
    /\ found' = [found EXCEPT ![w] = {}]
    /\ resolved' = [resolved EXCEPT ![w] = {}]
    /\ own' = [own EXCEPT ![w] = NoRows]
    /\ tx' = [tx EXCEPT ![w] = "open"]

(* Mutant: a failed run is not counted. *)
AttemptsAfterFailureUncounted(r) == attempts[r]

AttemptsAfterFailure(r) == attempts[r] + 1

(* Mutant: one retry more. *)
RetryAllowedOnceMore(n) == n <= MaxRetries + 1

RetryAllowed(n) == n <= MaxRetries

(* The exception reaches the worker: rollback, which also undoes the        *)
(* "failed" just written to the source, then fail_job and commit.           *)
RunFails(w) ==
    LET r == run[w]
        n == AttemptsAfterFailure(r)
    IN  /\ attempts' = [attempts EXCEPT ![r] = n]
        /\ jobStatus' = [jobStatus EXCEPT ![r] = IF RetryAllowed(n) THEN "pending"
                                                 ELSE "failed"]
        /\ pc' = [pc EXCEPT ![w] = "idle"]
        /\ Idle(w)
        /\ UNCHANGED <<sourceStatus, entities, links, relations, processed, synthesis, leaked>>

(* Download or parsing fails, before there is a chunk. *)
ParseFails(w) ==
    /\ pc[w] = "chunk"
    /\ at[w] = 1
    /\ Fault
    /\ RunFails(w)

(* Captioning, embedding and extraction of the chunk succeed. *)
Extract(w) ==
    /\ pc[w] = "chunk"
    /\ HasChunk(w)
    /\ pc' = [pc EXCEPT ![w] = "candidate"]
    /\ UNCHANGED <<committed, position, own, tx, leaked, bounds>>

(* One of them fails, or the embedding of a candidate does. *)
ProviderFails(w) ==
    /\ \/ pc[w] = "chunk" /\ HasChunk(w)
       \/ pc[w] = "candidate" /\ HasCandidate(w)
    /\ Fault
    /\ ChunkFailed(w)
    /\ UNCHANGED <<committed, own, tx, leaked>>

(* In such a transaction the statement that tries the lock raises. *)
StatementInAborted(w) ==
    /\ pc[w] = "candidate"
    /\ HasCandidate(w)
    /\ tx[w] # "open"
    /\ ChunkFailed(w)
    /\ UNCHANGED <<committed, own, tx, leaked, bounds>>

-----------------------------------------------------------------------------
(* Resolution of one candidate *)

TryNameLock(w) ==
    /\ pc[w] = "candidate"
    /\ HasCandidate(w)
    /\ tx[w] = "open"
    /\ NameFree(w)
    /\ pc' = [pc EXCEPT ![w] = "locked"]
    /\ UNCHANGED <<committed, position, own, tx, leaked, bounds>>

(* "advisory lock not acquired, skipping candidate" *)
SkipCandidate(w) ==
    /\ pc[w] = "candidate"
    /\ HasCandidate(w)
    /\ tx[w] = "open"
    /\ ~ NameFree(w)
    /\ NextCandidate(w)
    /\ UNCHANGED <<committed, run, at, resolved, own, tx, leaked, bounds>>

(* Mutant: the search misses the rows of its own transaction. *)
SimilarCommitted(w) == {e \in entities : Apart(e, Candidate(w)) <= Threshold}

Similar(w) == {e \in Visible(w) : Apart(e, Candidate(w)) <= Threshold}

(* What ORDER BY distance LIMIT top_k may return: as many as there are, or   *)
(* top_k of them, none of which is further away than one left out.           *)
Nearest(w) ==
    {S \in SUBSET Similar(w) :
        /\ S # Similar(w) => Cardinality(S) = TopK
        /\ Cardinality(S) <= TopK
        /\ \A e \in S, d \in Similar(w) \ S :
                Apart(e, Candidate(w)) <= Apart(d, Candidate(w))}

Search(w) ==
    /\ pc[w] = "locked"
    /\ \E S \in Nearest(w) : found' = [found EXCEPT ![w] = S]
    /\ pc' = [pc EXCEPT ![w] = "deciding"]
    /\ UNCHANGED <<committed, run, at, cand, resolved, own, tx, leaked, bounds>>

Namesakes(w) == {e \in found[w] : NameOf(e) = Name(w)}

(* The candidate becomes e, and the lock is released. *)
ResolveTo(w, e) ==
    /\ resolved' = [resolved EXCEPT ![w] = @ \cup {<<cand[w], e>>}]
    /\ NextCandidate(w)
    /\ UNCHANGED <<committed, run, at, tx, leaked, bounds>>

(* Nothing similar, or the LLM answers "new". *)
CreateEntity(w) ==
    /\ pc[w] = "deciding"
    /\ faithful => Namesakes(w) = {}
    /\ own' = [own EXCEPT ![w].entities = @ \cup {Candidate(w)}]
    /\ ResolveTo(w, Candidate(w))

(* Mutant: the candidate resolves to the entity that was merged away. *)
AbsorbedEntity(w, e) == Candidate(w)

SurvivingEntity(w, e) == e

(* The LLM answers "merge".  merge_entity finds nothing that refers to the  *)
(* entity just inserted for the candidate, deletes it and logs the merge.   *)
MergeEntity(w) ==
    /\ pc[w] = "deciding"
    /\ \E e \in IF faithful /\ Namesakes(w) # {} THEN Namesakes(w) ELSE found[w] :
        ResolveTo(w, SurvivingEntity(w, e))
    /\ UNCHANGED own

(* The LLM call fails or its answer is unusable; the lock is released. *)
DecisionFails(w) ==
    /\ pc[w] = "deciding"
    /\ found[w] # {}
    /\ Fault
    /\ ChunkFailed(w)
    /\ UNCHANGED <<committed, own, tx, leaked>>

(* The LLM names an entity that does not exist: merge_entity refuses, but   *)
(* the entity inserted for the candidate has been flushed.                  *)
MergeTargetMissing(w) ==
    /\ pc[w] = "deciding"
    /\ found[w] # {}
    /\ ~ faithful
    /\ Fault
    /\ own' = [own EXCEPT ![w].entities = @ \cup {Candidate(w)}]
    /\ ChunkFailed(w)
    /\ UNCHANGED <<committed, tx, leaked>>

(* A statement fails inside the lock: so does the unlock, silently, and the *)
(* connection keeps the lock.                                               *)
StatementFails(w) ==
    /\ pc[w] \in {"locked", "deciding"}
    /\ Fault
    /\ tx' = [tx EXCEPT ![w] = "aborted"]
    /\ leaked' = [leaked EXCEPT ![w] = @ \cup {Name(w)}]
    /\ ChunkFailed(w)
    /\ UNCHANGED <<committed, own>>

-----------------------------------------------------------------------------
(* The end of a chunk and of a run *)

IsResolved(w, i) == \E p \in resolved[w] : p[1] = i

EntityAt(w, i) == (CHOOSE p \in resolved[w] : p[1] = i)[2]

(* The relations up to the first one with an unresolved end. *)
Creatable(w) ==
    LET rs == Relations[Chunk(w)]
        ok(i) == IsResolved(w, rs[i][1]) /\ IsResolved(w, rs[i][2])
    IN  {i \in DOMAIN rs : \A k \in 1..i : ok(k)}

(* Mutant: a relation with an unresolved end does not fail its chunk. *)
ChunkSucceedsAnyway(w) == TRUE

ChunkSucceeds(w) == Creatable(w) = DOMAIN Relations[Chunk(w)]

(* The links are inserted, then the relations; a relation that refers to a  *)
(* skipped candidate raises, after the rows before it were added.           *)
FinishChunk(w) ==
    /\ pc[w] = "candidate"
    /\ ~ HasCandidate(w)
    /\ LET c  == Chunk(w)
           rs == Relations[c]
       IN  own' = [own EXCEPT
                ![w].links = @ \cup {<<c, p[2]>> : p \in resolved[w]},
                ![w].relations = @ \cup {<<EntityAt(w, rs[i][1]), EntityAt(w, rs[i][2]), c>> :
                                            i \in Creatable(w)},
                ![w].processed = IF ChunkSucceeds(w) THEN @ \cup {c} ELSE @]
    /\ NextChunk(w)
    /\ UNCHANGED <<committed, run, tx, leaked, bounds>>

(* Inserting the links and relations fails, outside every name lock. *)
LinkFails(w) ==
    /\ pc[w] = "candidate"
    /\ ~ HasCandidate(w)
    /\ resolved[w] # {}
    /\ Fault
    /\ tx' = [tx EXCEPT ![w] = "aborted"]
    /\ ChunkFailed(w)
    /\ UNCHANGED <<committed, own, leaked>>

(* Mutant: only the chunks that succeeded count as touched. *)
TouchedBySuccess(w) == {l[2] : l \in {k \in own[w].links : k[1] \in own[w].processed}}

(* The entities linked to a chunk of the source, failed chunks included. *)
Touched(w) == {l[2] : l \in own[w].links}

(* The source is processed, synthesis is enqueued, the job completed, and   *)
(* everything committed at once.                                            *)
FinishRun(w) ==
    /\ pc[w] = "chunk"
    /\ ~ HasChunk(w)
    /\ own[w].processed # {}
    /\ tx[w] = "open"
    /\ entities' = entities \cup own[w].entities
    /\ links' = links \cup own[w].links
    /\ relations' = relations \cup own[w].relations
    /\ processed' = processed \cup own[w].processed
    /\ synthesis' = synthesis \cup {<<run[w], e>> : e \in Touched(w)}
    /\ sourceStatus' = [sourceStatus EXCEPT ![run[w]] = "processed"]
    /\ jobStatus' = [jobStatus EXCEPT ![run[w]] = "completed"]
    /\ pc' = [pc EXCEPT ![w] = "idle"]
    /\ Idle(w)
    /\ UNCHANGED <<attempts, leaked, bounds>>

(* The process ends, with its connection and transaction. *)
Die(w) ==
    /\ pc' = [pc EXCEPT ![w] = "down"]
    /\ Idle(w)
    /\ leaked' = [leaked EXCEPT ![w] = {}]
    /\ UNCHANGED committed

(* A flush fails.  The except clause of the chunk loop logs source.id: that  *)
(* raises if the row was loaded, and then the worker's except clause does,   *)
(* which logs job.id; a source created by the run itself can be read, and    *)
(* the loop goes on in the lost transaction.                                 *)
FlushFails(w) ==
    /\ \/ pc[w] = "deciding"
       \/ pc[w] = "candidate" /\ ~ HasCandidate(w)
    /\ Fault
    /\ \/ Die(w)
       \/ /\ tx' = [tx EXCEPT ![w] = "lost"]
          /\ leaked' = [leaked EXCEPT ![w] = LockedBy(w)]
          /\ ChunkFailed(w)
          /\ UNCHANGED <<committed, own>>

(* No chunk succeeded, or the next statement raises; the worker records the  *)
(* failure unless job.id has expired.                                        *)
FinishFails(w) ==
    /\ pc[w] = "chunk"
    /\ ~ HasChunk(w)
    /\ own[w].processed = {} \/ tx[w] # "open"
    /\ IF tx[w] = "lost" THEN Die(w) ELSE RunFails(w)
    /\ UNCHANGED bounds

(* The query for the entities fails, or the flush of an enqueue or of the    *)
(* commit.                                                                   *)
CommitFails(w) ==
    /\ pc[w] = "chunk"
    /\ ~ HasChunk(w)
    /\ Fault
    /\ RunFails(w) \/ Die(w)

(* The worker process is killed. *)
Crash(w) ==
    /\ pc[w] # "down"
    /\ crashes < MaxCrashes
    /\ crashes' = crashes + 1
    /\ Die(w)
    /\ UNCHANGED errors

Restart(w) ==
    /\ pc[w] = "down"
    /\ pc' = [pc EXCEPT ![w] = "idle"]
    /\ UNCHANGED <<committed, position, own, tx, leaked, bounds>>

-----------------------------------------------------------------------------

WorkerStep(w) ==
    \/ Start(w)
    \/ Extract(w)
    \/ StatementInAborted(w)
    \/ TryNameLock(w)
    \/ SkipCandidate(w)
    \/ Search(w)
    \/ CreateEntity(w)
    \/ MergeEntity(w)
    \/ FinishChunk(w)
    \/ FinishRun(w)
    \/ FinishFails(w)
    \/ Restart(w)

Next ==
    /\ \E w \in Workers :
        \/ WorkerStep(w)
        \/ ParseFails(w)
        \/ ProviderFails(w)
        \/ DecisionFails(w)
        \/ MergeTargetMissing(w)
        \/ StatementFails(w)
        \/ FlushFails(w)
        \/ LinkFails(w)
        \/ CommitFails(w)
        \/ Crash(w)
    /\ UNCHANGED faithful

Spec == Init /\ [][Next]_vars

(* The event loop runs; providers and Postgres answer or raise. *)
FairSpec == Spec /\ \A w \in Workers : WF_vars(WorkerStep(w) /\ UNCHANGED faithful)

-----------------------------------------------------------------------------
(* Properties *)

RowsType == [entities : SUBSET Entities, links : SUBSET (Chunks \X Entities),
             relations : SUBSET (Entities \X Entities \X Chunks),
             processed : SUBSET Chunks]

(* The tables and the workers' memory hold values of their types; a run is   *)
(* at one of its chunks or just past the last.                               *)
TypeOK ==
    /\ faithful \in BOOLEAN
    /\ jobStatus \in [Runs -> {"pending", "completed", "failed"}]
    /\ attempts \in [Runs -> 0..(MaxRetries + 1)]
    /\ sourceStatus \in [Runs -> {"pending", "processed", "failed"}]
    /\ entities \subseteq Entities
    /\ links \subseteq Chunks \X Entities
    /\ relations \subseteq Entities \X Entities \X Chunks
    /\ processed \subseteq Chunks
    /\ synthesis \subseteq Runs \X Entities
    /\ pc \in [Workers -> Phases]
    /\ run \in [Workers -> Runs \cup {NoRun}]
    /\ at \in [Workers -> Nat]
    /\ \A w \in Workers :
        at[w] \in 1..(IF run[w] = NoRun THEN 1 ELSE Len(ChunksOf[run[w]]) + 1)
    /\ cand \in [Workers -> Nat \ {0}]
    /\ found \in [Workers -> SUBSET Entities]
    /\ resolved \in [Workers -> SUBSET (Nat \X Entities)]
    /\ own \in [Workers -> RowsType]
    /\ leaked \in [Workers -> SUBSET Names]
    /\ tx \in [Workers -> TxStates]
    /\ errors \in 0..MaxErrors
    /\ crashes \in 0..MaxCrashes

RunOf(c) == CHOOSE r \in Runs : \E i \in DOMAIN ChunksOf[r] : ChunksOf[r][i] = c

(* The chunks that any committed row comes from. *)
Contributing == {e[1] : e \in entities} \cup {l[1] : l \in links}
                \cup {r[3] : r \in relations} \cup processed

(* A run that failed, that waits for a retry or that was cut short by a      *)
(* crash has left no row behind: whatever is in the graph comes from a run   *)
(* that completed.  And links and relations never point at an entity that is *)
(* not there, although a run links to entities other runs committed while it *)
(* went on.                                                                  *)
CommittedGraphIsWhole ==
    /\ \A c \in Contributing :
          jobStatus[RunOf(c)] = "completed" /\ sourceStatus[RunOf(c)] = "processed"
    /\ \A l \in links : l[2] \in entities
    /\ \A r \in relations : r[1] \in entities /\ r[2] \in entities

(* A chunk that reads "processed" has all its relations, and both ends of    *)
(* each are linked to it, whichever of its candidates were skipped.          *)
ProcessedChunksHaveRelations ==
    \A c \in processed :
        \A i \in DOMAIN Relations[c] :
            \E r \in relations :
                /\ r[3] = c
                /\ <<c, r[1]>> \in links /\ <<c, r[2]>> \in links

(* Every entity that a chunk of a processed source is linked to has been     *)
(* given to synthesis for that source, those of failed chunks included.      *)
SynthesisCoversLinks == \A l \in links : <<RunOf(l[1]), l[2]>> \in synthesis

(* top_k entities of other names are no further from e than d is.            *)
IsCrowdedOut(d, e) ==
    \E S \in SUBSET entities :
        /\ Cardinality(S) = TopK
        /\ \A s \in S : NameOf(s) # NameOf(e) /\ Apart(s, e) <= Apart(d, e)

(* A run that creates an entity twice has been told of other descriptions:   *)
(* with an LLM that recognizes the names it is offered, two entities of one  *)
(* name and one run have embeddings further apart than the threshold, or     *)
(* top_k others came between them.  Never is it that the search misses what  *)
(* the run has not committed yet.  Two runs do create an entity twice: the   *)
(* name lock ends before the commit that shows it (resolution.py:347).       *)
DuplicateExplained ==
    faithful => \A d, e \in entities :
        NameOf(d) = NameOf(e) /\ RunOf(d[1]) = RunOf(e[1]) /\ d # e
            => Apart(d, e) > Threshold \/ IsCrowdedOut(d, e) \/ IsCrowdedOut(e, d)

(* Every run ends, even when a leaked lock makes a chunk fail every time.    *)
EveryRunEnds == \A r \in Runs : <>(jobStatus[r] \in {"completed", "failed"})
=============================================================================
