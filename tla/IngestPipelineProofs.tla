------------------------- MODULE IngestPipelineProofs -------------------------
(***************************************************************************)
(* The graph that ingest runs leave behind, for any number of workers and  *)
(* runs, whatever their sources say, whatever the LLM answers, and          *)
(* whichever statement, flush or process fails.                             *)
(***************************************************************************)
EXTENDS IngestPipeline, TLAPS

ChunksIn(r) == {ChunksOf[r][i] : i \in DOMAIN ChunksOf[r]}

Running(w) == pc[w] \notin {"idle", "down"}

(* The chunks of two runs have nothing in common.                            *)
LEMMA RunOfChunk ==
    ASSUME NEW r \in Runs, NEW c \in ChunksIn(r)
    PROVE  RunOf(c) = r
BY PipelineAssumption DEF PipelineAssumption, RunOf, ChunksIn

LEMMA RunsAreDisjoint ==
    ASSUME NEW q \in Runs, NEW r \in Runs, NEW c \in ChunksIn(q), c \in ChunksIn(r)
    PROVE  q = r
BY RunOfChunk

-----------------------------------------------------------------------------
(* Where a worker is *)

PlaceOf(w) ==
    /\ Running(w) <=> run[w] # NoRun
    /\ pc[w] \in {"candidate", "locked", "deciding"} => HasChunk(w)
    /\ pc[w] \in {"locked", "deciding"} => HasCandidate(w)

(* A run has its job to itself until it ends; the job still has retries.     *)
JobsInv ==
    /\ \A w \in Workers : run[w] # NoRun => jobStatus[run[w]] = "pending"
    /\ \A v, w \in Workers : run[v] = run[w] /\ run[v] # NoRun => v = w
    /\ \A r \in Runs : jobStatus[r] = "pending" => attempts[r] <= MaxRetries

PlaceInv == TypeOK /\ JobsInv /\ \A w \in Workers : PlaceOf(w)

LEMMA PlaceInit == Init => PlaceInv
<1> SUFFICES ASSUME Init PROVE PlaceInv
    OBVIOUS
<1>1. TypeOK
    BY PipelineAssumption
    DEF PipelineAssumption, Init, TypeOK, Phases, TxStates, NoRows, RowsType
<1> QED
    BY <1>1, PipelineAssumption DEF PipelineAssumption, Init, PlaceInv, JobsInv, PlaceOf, Running

LEMMA ChunkType ==
    ASSUME TypeOK, NEW w \in Workers, run[w] # NoRun, HasChunk(w)
    PROVE  /\ run[w] \in Runs
           /\ at[w] \in DOMAIN ChunksOf[run[w]]
           /\ Chunk(w) \in Chunks /\ Chunk(w) \in ChunksIn(run[w])
BY PipelineAssumption DEF PipelineAssumption, TypeOK, HasChunk, Chunk, ChunksIn

LEMMA CandidateType ==
    ASSUME TypeOK, NEW w \in Workers, run[w] # NoRun, HasChunk(w), HasCandidate(w)
    PROVE  Candidate(w) \in Entities /\ Name(w) \in Names
<1>1. Chunk(w) \in Chunks
    BY ChunkType
<1>2. cand[w] \in DOMAIN Candidates[Chunk(w)] /\ Candidates[Chunk(w)][cand[w]] \in Texts
    BY <1>1, PipelineAssumption DEF PipelineAssumption, HasCandidate, TypeOK
<1> QED
    BY <1>1, <1>2 DEF Candidate, Entities, Name, NameOf, TextOf, Texts

(* Vectors are as far from each other as back.                               *)
LEMMA ApartSymmetric ==
    ASSUME NEW d \in Entities, NEW e \in Entities
    PROVE  Apart(d, e) = Apart(e, d) /\ Apart(d, e) \in Nat
<1>1. ASSUME NEW c \in Entities PROVE TextOf(c) \in Texts
  <2>1. PICK b \in Chunks : \E i \in DOMAIN Candidates[b] : c = <<b, i>>
    BY DEF Entities
  <2>2. PICK i \in DOMAIN Candidates[b] : c = <<b, i>>
    BY <2>1
  <2>3. Candidates[b] \in Seq(Texts)
    BY PipelineAssumption DEF PipelineAssumption
  <2>4. Candidates[b][i] \in Texts
    BY <2>3
  <2> QED
    BY <2>2, <2>4 DEF TextOf
<1>2. TextOf(d) \in Texts /\ TextOf(e) \in Texts
    BY <1>1
<1> QED
    BY <1>2, PipelineAssumption DEF PipelineAssumption, Apart

(* The rows that an entity, the links of a chunk and its relations add to a  *)
(* run.                                                                      *)
LEMMA AddEntityType ==
    ASSUME TypeOK, NEW w \in Workers, NEW e \in Entities
    PROVE  [own EXCEPT ![w].entities = @ \cup {e}] \in [Workers -> RowsType]
<1> DEFINE rows == [own[w] EXCEPT !.entities = @ \cup {e}]
<1>1. own \in [Workers -> RowsType]
    BY DEF TypeOK
<1>2. rows \in RowsType
    BY <1>1 DEF RowsType
<1>3. [own EXCEPT ![w] = rows] \in [Workers -> RowsType]
    BY <1>1, <1>2
<1> QED
    BY <1>3, Zenon

(* The relations that a chunk creates have both their ends resolved.         *)
LEMMA CreatableEnds ==
    ASSUME TypeOK, NEW w \in Workers, run[w] # NoRun, HasChunk(w), NEW i \in Creatable(w)
    PROVE  LET rs == Relations[Chunk(w)]
               s  == EntityAt(w, rs[i][1])
               t  == EntityAt(w, rs[i][2])
           IN  /\ s \in Entities /\ t \in Entities
               /\ s \in {p[2] : p \in resolved[w]} /\ t \in {p[2] : p \in resolved[w]}
<1> DEFINE rs == Relations[Chunk(w)]
<1>1. IsResolved(w, rs[i][1]) /\ IsResolved(w, rs[i][2])
  <2>1. rs \in Seq((DOMAIN Candidates[Chunk(w)]) \X (DOMAIN Candidates[Chunk(w)]))
    BY ChunkType, PipelineAssumption DEF PipelineAssumption
  <2>2. i \in DOMAIN rs
    BY DEF Creatable
  <2>3. i \in 1 .. i
    BY <2>1, <2>2
  <2> QED
    BY <2>3 DEF Creatable
<1>2. ASSUME NEW n, IsResolved(w, n)
      PROVE  EntityAt(w, n) \in Entities /\ EntityAt(w, n) \in {p[2] : p \in resolved[w]}
  <2>1. PICK p \in resolved[w] : p[1] = n
    BY <1>2 DEF IsResolved
  <2>2. (CHOOSE q \in resolved[w] : q[1] = n) \in resolved[w]
    BY <2>1
  <2>3. resolved[w] \subseteq Nat \X Entities
    BY DEF TypeOK
  <2> DEFINE q == CHOOSE q \in resolved[w] : q[1] = n
  <2>4. EntityAt(w, n) = q[2]
    BY DEF EntityAt
  <2> HIDE DEF q
  <2> QED
    BY <2>2, <2>3, <2>4 DEF q
<1> QED
    BY <1>1, <1>2

LEMMA FinishChunkType ==
    ASSUME PlaceInv, NEW w \in Workers, FinishChunk(w)
    PROVE  own' \in [Workers -> RowsType]
<1> DEFINE c  == Chunk(w)
           rs == Relations[c]
           L  == {<<c, p[2]>> : p \in resolved[w]}
           R  == {<<EntityAt(w, rs[i][1]), EntityAt(w, rs[i][2]), c>> : i \in Creatable(w)}
           rows == [own[w] EXCEPT
                       !.links = @ \cup L,
                       !.relations = @ \cup R,
                       !.processed = IF ChunkSucceeds(w) THEN @ \cup {c} ELSE @]
<1>1. TypeOK /\ run[w] # NoRun /\ HasChunk(w) /\ c \in Chunks
    BY ChunkType DEF PlaceInv, PlaceOf, Running, FinishChunk
<1>2. L \subseteq Chunks \X Entities
    BY <1>1 DEF TypeOK
<1>3. R \subseteq Entities \X Entities \X Chunks
    BY <1>1, CreatableEnds
<1>4. own[w] \in RowsType
    BY <1>1 DEF TypeOK
<1> HIDE DEF c, L, R
<1>5. rows \in RowsType
    BY <1>1, <1>2, <1>3, <1>4 DEF RowsType
<1>6. own' = [own EXCEPT ![w] = rows]
    BY Zenon DEF FinishChunk, c, L, R
<1> HIDE DEF rows
<1> QED
    BY <1>1, <1>5, <1>6 DEF TypeOK

(* The memory of the workers. *)
MemoryOK ==
    /\ pc \in [Workers -> Phases]
    /\ run \in [Workers -> Runs \cup {NoRun}]
    /\ at \in [Workers -> Nat]
    /\ \A w \in Workers :
        at[w] \in 1..(IF run[w] = NoRun THEN 1 ELSE Len(ChunksOf[run[w]]) + 1)
    /\ cand \in [Workers -> Nat \ {0}]
    /\ found \in [Workers -> SUBSET Entities]
    /\ resolved \in [Workers -> SUBSET (Nat \X Entities)]
    /\ \A w \in Workers : PlaceOf(w)

LEMMA PlaceOfOther ==
    ASSUME NEW v \in Workers, PlaceOf(v),
           pc'[v] = pc[v], run'[v] = run[v], at'[v] = at[v], cand'[v] = cand[v]
    PROVE  PlaceOf(v)'
BY DEF PlaceOf, Running, HasChunk, HasCandidate, Chunk

LEMMA NextChunkKeeps ==
    ASSUME PlaceInv, NEW w \in Workers, Running(w), HasChunk(w), ChunkFailed(w)
    PROVE  MemoryOK' /\ run' = run
<1> USE DEF ChunkFailed, NextChunk
<1>1. TypeOK /\ PlaceOf(w) /\ run[w] \in Runs
    BY DEF PlaceInv, TypeOK, PlaceOf
<1>2. Len(ChunksOf[run[w]]) \in Nat /\ at'[w] = at[w] + 1
    BY <1>1, PipelineAssumption DEF PipelineAssumption, TypeOK
<1>3. at'[w] \in 1 .. Len(ChunksOf[run[w]]) + 1
    BY <1>1, <1>2 DEF HasChunk, TypeOK
<1>4. \A v \in Workers : PlaceOf(v)'
  <2>1. PlaceOf(w)'
    BY <1>1 DEF PlaceOf, Running, TypeOK
  <2>2. ASSUME NEW v \in Workers, v # w PROVE PlaceOf(v)'
    BY <1>1, <2>2, PlaceOfOther DEF PlaceInv, TypeOK
  <2> QED
    BY <2>1, <2>2
<1>5. \A v \in Workers :
        at'[v] \in 1..(IF run'[v] = NoRun THEN 1 ELSE Len(ChunksOf[run'[v]]) + 1)
    BY <1>1, <1>3, PipelineAssumption DEF PipelineAssumption, TypeOK
<1> QED
    BY <1>1, <1>4, <1>5 DEF MemoryOK, TypeOK, Phases

LEMMA NextCandidateKeeps ==
    ASSUME PlaceInv, NEW w \in Workers, Running(w), HasChunk(w), NextCandidate(w),
           run' = run, at' = at, resolved' \in [Workers -> SUBSET (Nat \X Entities)]
    PROVE  MemoryOK'
<1> USE DEF NextCandidate
<1>1. TypeOK /\ PlaceOf(w)
    BY DEF PlaceInv
<1>2. PlaceOf(w)'
    BY <1>1 DEF PlaceOf, Running, HasChunk, TypeOK
<1>3. ASSUME NEW v \in Workers, v # w PROVE PlaceOf(v)'
    BY <1>1, <1>3, PlaceOfOther DEF PlaceInv, TypeOK
<1> QED
    BY <1>1, <1>2, <1>3 DEF MemoryOK, TypeOK, Phases

(* The run ends, and its worker's memory is emptied. *)
LEMMA IdleKeeps ==
    ASSUME PlaceInv, NEW w \in Workers, Idle(w),
           NEW p \in {"idle", "down"}, pc' = [pc EXCEPT ![w] = p]
    PROVE  /\ MemoryOK'
           /\ own' \in [Workers -> RowsType]
           /\ tx' \in [Workers -> TxStates]
           /\ run'[w] = NoRun /\ \A v \in Workers \ {w} : run'[v] = run[v]
<1> USE DEF Idle
<1>1. TypeOK /\ PlaceOf(w)
    BY DEF PlaceInv
<1>2. PlaceOf(w)'
    BY <1>1 DEF PlaceOf, Running, TypeOK
<1>3. ASSUME NEW v \in Workers, v # w PROVE PlaceOf(v)'
    BY <1>1, <1>3, PlaceOfOther DEF PlaceInv, TypeOK
<1>4. NoRows \in RowsType
    BY DEF NoRows, RowsType
<1>5. \A v \in Workers :
        at'[v] \in 1..(IF run'[v] = NoRun THEN 1 ELSE Len(ChunksOf[run'[v]]) + 1)
    BY <1>1 DEF TypeOK
<1>6. MemoryOK'
    BY <1>1, <1>2, <1>3, <1>5 DEF MemoryOK, TypeOK, Phases
<1> QED
    BY <1>1, <1>4, <1>6 DEF TypeOK, TxStates

LEMMA OneRunLess ==
    ASSUME TypeOK, JobsInv, NEW w \in Workers,
           run'[w] = NoRun, \A v \in Workers \ {w} : run'[v] = run[v],
           \A r \in Runs \ {run[w]} : jobStatus'[r] = jobStatus[r]
    PROVE  /\ \A u, v \in Workers : run'[u] = run'[v] /\ run'[u] # NoRun => u = v
           /\ \A v \in Workers : run'[v] # NoRun => jobStatus'[run'[v]] = "pending"
<1>1. \A u, v \in Workers : run'[u] = run'[v] /\ run'[u] # NoRun => u = v
    BY DEF JobsInv
<1>2. ASSUME NEW v \in Workers, run'[v] # NoRun PROVE jobStatus'[run'[v]] = "pending"
  <2>1. v # w /\ run'[v] = run[v] /\ run[v] # run[w]
    BY <1>2 DEF JobsInv
  <2>2. run[v] \in Runs
    BY <1>2, <2>1 DEF TypeOK
  <2> QED
    BY <1>2, <2>1, <2>2 DEF JobsInv
<1> QED
    BY <1>1, <1>2

LEMMA DieKeeps ==
    ASSUME PlaceInv, NEW w \in Workers, Die(w),
           errors' \in 0..MaxErrors, crashes' \in 0..MaxCrashes, UNCHANGED faithful
    PROVE  PlaceInv'
<1>1. /\ MemoryOK' /\ own' \in [Workers -> RowsType] /\ tx' \in [Workers -> TxStates]
      /\ run'[w] = NoRun /\ \A v \in Workers \ {w} : run'[v] = run[v]
    BY IdleKeeps DEF Die
<1>2. JobsInv'
    BY <1>1 DEF Die, committed, PlaceInv, JobsInv
<1> QED
    BY <1>1, <1>2 DEF PlaceInv, TypeOK, MemoryOK, Die, committed

LEMMA RunFailsKeeps ==
    ASSUME PlaceInv, NEW w \in Workers, Running(w), RunFails(w),
           errors' \in 0..MaxErrors, crashes' \in 0..MaxCrashes, UNCHANGED faithful
    PROVE  PlaceInv'
<1>0. TypeOK /\ JobsInv /\ run[w] \in Runs /\ run[w] # NoRun /\ MaxRetries \in Nat
    BY PipelineAssumption DEF PipelineAssumption, PlaceInv, PlaceOf, TypeOK
<1>1. /\ MemoryOK' /\ own' \in [Workers -> RowsType] /\ tx' \in [Workers -> TxStates]
      /\ run'[w] = NoRun /\ \A v \in Workers \ {w} : run'[v] = run[v]
    BY IdleKeeps DEF RunFails
<1>2. attempts[run[w]] \in 0 .. MaxRetries
    BY <1>0 DEF JobsInv, TypeOK
<1>3. /\ attempts' \in [Runs -> 0..(MaxRetries + 1)]
      /\ jobStatus' \in [Runs -> {"pending", "completed", "failed"}]
    BY <1>0, <1>2 DEF RunFails, AttemptsAfterFailure, TypeOK
<1>4. JobsInv'
  <2>1. \A r \in Runs : jobStatus'[r] = "pending" => attempts'[r] <= MaxRetries
    BY <1>0 DEF RunFails, AttemptsAfterFailure, RetryAllowed, TypeOK, JobsInv
  <2>2. \A r \in Runs \ {run[w]} : jobStatus'[r] = jobStatus[r]
    BY <1>0 DEF RunFails, TypeOK
  <2> QED
    BY <1>0, <1>1, <2>1, <2>2, OneRunLess DEF JobsInv
<1> QED
    BY <1>1, <1>3, <1>4 DEF PlaceInv, TypeOK, MemoryOK, RunFails

LEMMA FaultType ==
    ASSUME TypeOK, Fault
    PROVE  errors' \in 0..MaxErrors /\ crashes' \in 0..MaxCrashes
BY PipelineAssumption DEF PipelineAssumption, TypeOK, Fault

(* A step that goes on with a run keeps the tables, jobs among them, as they *)
(* are.                                                                      *)
LEMMA OngoingKeeps ==
    ASSUME PlaceInv, MemoryOK', UNCHANGED <<faithful, committed>>, run' = run,
           own' \in [Workers -> RowsType], tx' \in [Workers -> TxStates],
           leaked' \in [Workers -> SUBSET Names],
           errors' \in 0..MaxErrors, crashes' \in 0..MaxCrashes
    PROVE  PlaceInv'
<1>1. JobsInv'
    BY DEF PlaceInv, JobsInv, committed
<1> QED
    BY <1>1 DEF PlaceInv, MemoryOK, TypeOK, committed

LEMMA PlaceStep == PlaceInv /\ [Next]_vars => PlaceInv'
<1> SUFFICES ASSUME PlaceInv, [Next]_vars PROVE PlaceInv'
    OBVIOUS
<1>0. TypeOK /\ JobsInv /\ (\A w \in Workers : PlaceOf(w)) /\ MemoryOK
    BY DEF PlaceInv, MemoryOK, TypeOK
<1>T. /\ own \in [Workers -> RowsType] /\ tx \in [Workers -> TxStates]
      /\ leaked \in [Workers -> SUBSET Names]
      /\ errors \in 0..MaxErrors /\ crashes \in 0..MaxCrashes
      /\ pc \in [Workers -> Phases] /\ run \in [Workers -> Runs \cup {NoRun}]
      /\ resolved \in [Workers -> SUBSET (Nat \X Entities)]
    BY <1>0 DEF TypeOK
<1>1. CASE UNCHANGED vars
    BY <1>0, <1>T, <1>1, PlaceOfOther DEF vars, committed, position, bounds, PlaceInv, TypeOK, JobsInv
<1>2. CASE Next
  <2> USE <1>2 DEF position, bounds
  <2>0. UNCHANGED faithful
    BY DEF Next
  <2>1. ASSUME NEW w \in Workers, Start(w) PROVE PlaceInv'
    <3>1. PICK r \in Runs : /\ jobStatus[r] = "pending" /\ \A v \in Workers : run[v] # r
                            /\ run' = [run EXCEPT ![w] = r]
      BY <2>1 DEF Start
    <3>2. r # NoRun /\ Len(ChunksOf[r]) \in Nat
      BY PipelineAssumption DEF PipelineAssumption
    <3>3. run[w] = NoRun
      BY <1>0, <2>1 DEF Start, PlaceOf, Running
    <3>4. JobsInv'
      BY <1>0, <1>T, <2>1, <3>1, <3>2 DEF Start, JobsInv, committed
    <3>5. PlaceOf(w)'
      BY <1>T, <2>1, <3>1, <3>2 DEF Start, PlaceOf, Running
    <3>6. \A v \in Workers \ {w} : PlaceOf(v)'
      BY <1>0, <1>T, <2>1, <3>1, PlaceOfOther DEF Start
    <3>7. at'[w] \in 1 .. Len(ChunksOf[r]) + 1
      BY <1>0, <2>1, <3>2, <3>3 DEF Start, TypeOK
    <3>8. \A v \in Workers :
            at'[v] \in 1..(IF run'[v] = NoRun THEN 1 ELSE Len(ChunksOf[run'[v]]) + 1)
      BY <1>0, <1>T, <2>1, <3>1, <3>2, <3>7 DEF Start, TypeOK
    <3> QED
      BY <1>0, <1>T, <2>0, <2>1, <3>1, <3>4, <3>5, <3>6, <3>8
      DEF Start, PlaceInv, TypeOK, Phases, committed
  <2>2. ASSUME NEW w \in Workers, Extract(w) PROVE PlaceInv'
    <3>1. PlaceOf(w)' /\ \A v \in Workers \ {w} : PlaceOf(v)'
      BY <1>0, <1>T, <2>2, PlaceOfOther DEF Extract, PlaceOf, Running, HasChunk
    <3>2. MemoryOK'
      BY <1>0, <1>T, <2>2, <3>1 DEF Extract, MemoryOK, Phases
    <3> QED
      BY <1>T, <2>0, <2>2, <3>2, OngoingKeeps DEF Extract
  <2>3. ASSUME NEW w \in Workers, TryNameLock(w) PROVE PlaceInv'
    <3>1. PlaceOf(w)' /\ \A v \in Workers \ {w} : PlaceOf(v)'
      BY <1>0, <1>T, <2>3, PlaceOfOther
      DEF TryNameLock, PlaceOf, Running, HasChunk, HasCandidate, Chunk
    <3>2. MemoryOK'
      BY <1>0, <1>T, <2>3, <3>1 DEF TryNameLock, MemoryOK, Phases
    <3> QED
      BY <1>T, <2>0, <2>3, <3>2, OngoingKeeps DEF TryNameLock
  <2>4. ASSUME NEW w \in Workers, Search(w) PROVE PlaceInv'
    <3>1. PlaceOf(w)' /\ \A v \in Workers \ {w} : PlaceOf(v)'
      BY <1>0, <1>T, <2>4, PlaceOfOther
      DEF Search, PlaceOf, Running, HasChunk, HasCandidate, Chunk
    <3>2. Visible(w) \subseteq Entities
      BY <1>0, <1>T DEF Visible, TypeOK, RowsType
    <3>3. PICK S \in Nearest(w) : found' = [found EXCEPT ![w] = S]
      BY <2>4 DEF Search
    <3>4. S \subseteq Entities
      BY <3>2, <3>3 DEF Nearest, Similar
    <3>5. MemoryOK'
      BY <1>0, <1>T, <2>4, <3>1, <3>3, <3>4 DEF Search, MemoryOK, Phases
    <3> QED
      BY <1>T, <2>0, <2>4, <3>5, OngoingKeeps DEF Search
  <2>5. ASSUME NEW w \in Workers, SkipCandidate(w) PROVE PlaceInv'
    <3>1. Running(w) /\ HasChunk(w)
      BY <1>0, <2>5 DEF SkipCandidate, PlaceOf, Running
    <3>2. MemoryOK'
      BY <1>T, <2>5, <3>1, NextCandidateKeeps DEF SkipCandidate
    <3> QED
      BY <1>T, <2>0, <2>5, <3>2, OngoingKeeps DEF SkipCandidate
  <2>6. ASSUME NEW w \in Workers, NEW e \in Entities, Running(w), HasChunk(w),
               ResolveTo(w, e), own' \in [Workers -> RowsType]
        PROVE  PlaceInv'
    <3>1. cand[w] \in Nat
      BY <1>0 DEF TypeOK
    <3>2. resolved' \in [Workers -> SUBSET (Nat \X Entities)]
      BY <1>T, <2>6, <3>1 DEF ResolveTo
    <3>3. MemoryOK'
      BY <2>6, <3>2, NextCandidateKeeps DEF ResolveTo
    <3> QED
      BY <1>T, <2>0, <2>6, <3>3, OngoingKeeps DEF ResolveTo
  <2>7. ASSUME NEW w \in Workers, CreateEntity(w) \/ MergeEntity(w) PROVE PlaceInv'
    <3>1. Running(w) /\ run[w] # NoRun /\ HasChunk(w) /\ HasCandidate(w)
      BY <1>0, <2>7 DEF CreateEntity, MergeEntity, PlaceOf, Running
    <3>2. Candidate(w) \in Entities
      BY <1>0, <3>1, CandidateType
    <3>3. CASE CreateEntity(w)
      <4>1. own' \in [Workers -> RowsType]
        BY <1>0, <3>2, <3>3, AddEntityType, Zenon DEF CreateEntity
      <4> QED
        BY <2>6, <3>1, <3>2, <3>3, <4>1 DEF CreateEntity
    <3>4. CASE MergeEntity(w)
      <4>1. PICK e \in found[w] : ResolveTo(w, e)
        BY <3>4 DEF MergeEntity, Namesakes, SurvivingEntity
      <4>2. e \in Entities
        BY <1>0, <4>1 DEF TypeOK
      <4> QED
        BY <1>T, <2>6, <3>1, <3>4, <4>1, <4>2 DEF MergeEntity
    <3> QED
      BY <2>7, <3>3, <3>4
  <2>8. ASSUME NEW w \in Workers, Running(w), HasChunk(w), ChunkFailed(w), UNCHANGED committed,
               own' \in [Workers -> RowsType], tx' \in [Workers -> TxStates],
               leaked' \in [Workers -> SUBSET Names],
               errors' \in 0..MaxErrors, crashes' \in 0..MaxCrashes
        PROVE  PlaceInv'
    BY <2>0, <2>8, NextChunkKeeps, OngoingKeeps
  <2>9. ASSUME NEW w \in Workers, StatementInAborted(w) \/ ProviderFails(w) \/ DecisionFails(w)
        PROVE  PlaceInv'
    <3>1. Running(w) /\ HasChunk(w) /\ ChunkFailed(w)
      BY <1>0, <2>9 DEF StatementInAborted, ProviderFails, DecisionFails, PlaceOf, Running
    <3>2. errors' \in 0..MaxErrors /\ crashes' \in 0..MaxCrashes
      BY <1>0, <1>T, <2>9, FaultType DEF StatementInAborted, ProviderFails, DecisionFails
    <3> QED
      BY <1>T, <2>8, <2>9, <3>1, <3>2 DEF StatementInAborted, ProviderFails, DecisionFails
  <2>10. ASSUME NEW w \in Workers, MergeTargetMissing(w) PROVE PlaceInv'
    <3>1. Running(w) /\ run[w] # NoRun /\ HasChunk(w) /\ HasCandidate(w)
      BY <1>0, <2>10 DEF MergeTargetMissing, PlaceOf, Running
    <3>2. own' \in [Workers -> RowsType]
      BY <1>0, <2>10, <3>1, CandidateType, AddEntityType, Zenon DEF MergeTargetMissing
    <3> QED
      BY <1>0, <1>T, <2>8, <2>10, <3>1, <3>2, FaultType DEF MergeTargetMissing
  <2>11. ASSUME NEW w \in Workers, StatementFails(w) \/ LinkFails(w) PROVE PlaceInv'
    <3>1. Running(w) /\ run[w] # NoRun /\ HasChunk(w)
      BY <1>0, <2>11 DEF StatementFails, LinkFails, PlaceOf, Running
    <3>2. leaked' \in [Workers -> SUBSET Names]
      BY <1>0, <1>T, <2>11, <3>1, CandidateType DEF StatementFails, LinkFails, PlaceOf
    <3>3. tx' \in [Workers -> TxStates]
      BY <1>T, <2>11 DEF StatementFails, LinkFails, TxStates
    <3> QED
      BY <1>0, <1>T, <2>8, <2>11, <3>1, <3>2, <3>3, FaultType DEF StatementFails, LinkFails
  <2>12. ASSUME NEW w \in Workers, FlushFails(w) PROVE PlaceInv'
    <3>1. Running(w) /\ run[w] # NoRun /\ HasChunk(w)
      BY <1>0, <2>12 DEF FlushFails, PlaceOf, Running
    <3>2. errors' \in 0..MaxErrors /\ crashes' \in 0..MaxCrashes
      BY <1>0, <2>12, FaultType DEF FlushFails
    <3>3. CASE Die(w)
      BY <2>0, <3>2, <3>3, DieKeeps
    <3>4. CASE ~Die(w)
      <4>1. LockedBy(w) \subseteq Names
        BY <1>0, <1>T, <3>1, CandidateType DEF LockedBy, PlaceOf
      <4>2. leaked' \in [Workers -> SUBSET Names] /\ tx' \in [Workers -> TxStates]
        BY <1>T, <2>12, <3>4, <4>1 DEF FlushFails, TxStates
      <4> QED
        BY <1>T, <2>8, <2>12, <3>1, <3>2, <3>4, <4>2 DEF FlushFails
    <3> QED
      BY <3>3, <3>4
  <2>13. ASSUME NEW w \in Workers, FinishChunk(w) PROVE PlaceInv'
    <3>1. Running(w) /\ HasChunk(w) /\ ChunkFailed(w)
      BY <1>0, <2>13 DEF FinishChunk, PlaceOf, Running, ChunkFailed
    <3> QED
      BY <1>T, <2>8, <2>13, <3>1, FinishChunkType DEF FinishChunk
  <2>14. ASSUME NEW w \in Workers, ParseFails(w) \/ FinishFails(w) \/ CommitFails(w)
         PROVE  PlaceInv'
    <3>1. Running(w) /\ (RunFails(w) \/ Die(w))
      BY <2>14 DEF ParseFails, FinishFails, CommitFails, Running
    <3>2. errors' \in 0..MaxErrors /\ crashes' \in 0..MaxCrashes
      BY <1>0, <1>T, <2>14, FaultType DEF ParseFails, FinishFails, CommitFails
    <3> QED
      BY <2>0, <3>1, <3>2, DieKeeps, RunFailsKeeps
  <2>15. ASSUME NEW w \in Workers, FinishRun(w) PROVE PlaceInv'
    <3>1. run[w] \in Runs /\ run[w] # NoRun /\ own[w] \in RowsType
      BY <1>0, <1>T, <2>15 DEF FinishRun, PlaceOf, Running
    <3>2. /\ MemoryOK' /\ own' \in [Workers -> RowsType] /\ tx' \in [Workers -> TxStates]
          /\ run'[w] = NoRun /\ \A v \in Workers \ {w} : run'[v] = run[v]
      BY <2>15, IdleKeeps DEF FinishRun
    <3>4. JobsInv'
      <4>1. \A r \in Runs \ {run[w]} : jobStatus'[r] = jobStatus[r]
        BY <1>0, <2>15, <3>1 DEF FinishRun, TypeOK
      <4>2. \A r \in Runs : jobStatus'[r] = "pending" => attempts'[r] <= MaxRetries
        BY <1>0, <2>15 DEF FinishRun, JobsInv, TypeOK
      <4> QED
        BY <1>0, <3>2, <4>1, <4>2, OneRunLess DEF JobsInv
    <3>5. synthesis' \subseteq Runs \X Entities
      BY <1>0, <2>15, <3>1 DEF FinishRun, Touched, TypeOK, RowsType
    <3>6. /\ entities' \subseteq Entities /\ links' \subseteq Chunks \X Entities
          /\ relations' \subseteq Entities \X Entities \X Chunks /\ processed' \subseteq Chunks
      BY <1>0, <2>15, <3>1 DEF FinishRun, TypeOK, RowsType
    <3>7. /\ jobStatus' \in [Runs -> {"pending", "completed", "failed"}]
          /\ sourceStatus' \in [Runs -> {"pending", "processed", "failed"}]
      BY <1>0, <2>15 DEF FinishRun, TypeOK
    <3> QED
      BY <1>0, <1>T, <2>0, <2>15, <3>2, <3>4, <3>5, <3>6, <3>7
      DEF FinishRun, PlaceInv, TypeOK, MemoryOK
  <2>16. ASSUME NEW w \in Workers, Crash(w) PROVE PlaceInv'
    <3>1. errors' \in 0..MaxErrors /\ crashes' \in 0..MaxCrashes
      BY <1>T, <2>16, PipelineAssumption DEF PipelineAssumption, Crash
    <3> QED
      BY <2>0, <2>16, <3>1, DieKeeps DEF Crash
  <2>17. ASSUME NEW w \in Workers, Restart(w) PROVE PlaceInv'
    <3>1. PlaceOf(w)' /\ \A v \in Workers \ {w} : PlaceOf(v)'
      BY <1>0, <1>T, <2>17, PlaceOfOther DEF Restart, PlaceOf, Running
    <3>2. MemoryOK'
      BY <1>0, <1>T, <2>17, <3>1 DEF Restart, MemoryOK, Phases
    <3> QED
      BY <1>T, <2>0, <2>17, <3>2, OngoingKeeps DEF Restart
  <2> QED
    BY <2>1, <2>2, <2>3, <2>4, <2>5, <2>7, <2>9, <2>10, <2>11, <2>12, <2>13, <2>14, <2>15,
       <2>16, <2>17 DEF Next, WorkerStep
<1> QED
    BY <1>1, <1>2

(* A worker is where its phase says; a run has its job to itself, and its    *)
(* job has a retry left: attempts never run past max_retries + 1.            *)
THEOREM IngestTypes == Spec => []TypeOK
<1>1. PlaceInv => TypeOK
    BY DEF PlaceInv
<1> QED
    BY <1>1, PlaceInit, PlaceStep, PTL DEF Spec

-----------------------------------------------------------------------------
(* The rows of a run, and the committed graph *)

HasAllRelations(c, rels, lnks) ==
    \A i \in DOMAIN Relations[c] :
        \E r \in rels : r[3] = c /\ <<c, r[1]>> \in lnks /\ <<c, r[2]>> \in lnks

(* A run writes rows about its own chunks only, and refers only to entities  *)
(* that it sees: committed ones, which nobody removes, and its own.          *)
RowsOf(w) ==
    /\ run[w] = NoRun => own[w] = NoRows
    /\ found[w] \subseteq Visible(w)
    /\ \A p \in resolved[w] : p[2] \in Visible(w)
    /\ \A e \in own[w].entities : e[1] \in ChunksIn(run[w])
    /\ \A l \in own[w].links : l[1] \in ChunksIn(run[w]) /\ l[2] \in Visible(w)
    /\ \A r \in own[w].relations :
          r[3] \in ChunksIn(run[w]) /\ r[1] \in Visible(w) /\ r[2] \in Visible(w)
    /\ \A c \in own[w].processed :
          c \in ChunksIn(run[w]) /\ HasAllRelations(c, own[w].relations, own[w].links)

(* Where the committed rows come from. *)
Origins ==
    \A c \in Contributing : \E r \in Runs :
        c \in ChunksIn(r) /\ jobStatus[r] = "completed" /\ sourceStatus[r] = "processed"

References ==
    /\ \A l \in links : l[2] \in entities
    /\ \A r \in relations : r[1] \in entities /\ r[2] \in entities

Enqueued == \A l \in links : \E r \in Runs : l[1] \in ChunksIn(r) /\ <<r, l[2]>> \in synthesis

Graph == Origins /\ References /\ ProcessedChunksHaveRelations /\ Enqueued

GraphInv == Graph /\ \A w \in Workers : RowsOf(w)

LEMMA GraphInit == Init => GraphInv
BY DEF Init, GraphInv, Graph, Origins, References, Enqueued, Contributing,
       ProcessedChunksHaveRelations, RowsOf, NoRows

LEMMA RowsOfOther ==
    ASSUME NEW v \in Workers, RowsOf(v), entities \subseteq entities', run'[v] = run[v],
           own'[v] = own[v], found'[v] = found[v], resolved'[v] = resolved[v]
    PROVE  RowsOf(v)'
BY DEF RowsOf, Visible

(* A step of w that writes no row. *)
LEMMA RowsUnwritten ==
    ASSUME NEW w \in Workers, RowsOf(w), UNCHANGED <<entities, own>>, run' = run,
           found'[w] \subseteq Visible(w), \A p \in resolved'[w] : p[2] \in Visible(w)
    PROVE  RowsOf(w)'
BY DEF RowsOf, Visible

LEMMA RowsOfIdle ==
    ASSUME TypeOK, NEW w \in Workers, Idle(w)
    PROVE  RowsOf(w)'
BY DEF RowsOf, Idle, TypeOK, NoRows

LEMMA GraphUnchanged ==
    ASSUME Graph, UNCHANGED committed
    PROVE  Graph'
BY DEF Graph, committed, Origins, References, Enqueued, Contributing, ProcessedChunksHaveRelations

(* The candidate just resolved becomes an entity, or turns out to be one.    *)
LEMMA RowsWithEntity ==
    ASSUME PlaceInv, NEW w \in Workers, pc[w] = "deciding", RowsOf(w), run' = run, entities' = entities,
           own' = [own EXCEPT ![w].entities = @ \cup {Candidate(w)}],
           found'[w] = {}, NEW i \in Nat, resolved'[w] \subseteq resolved[w] \cup {<<i, Candidate(w)>>}
    PROVE  RowsOf(w)'
<1>1. TypeOK /\ run[w] # NoRun /\ Candidate(w)[1] \in ChunksIn(run[w])
    BY ChunkType DEF PlaceInv, PlaceOf, Running, Candidate
<1>2. /\ own'[w].entities = own[w].entities \cup {Candidate(w)}
      /\ own'[w].links = own[w].links /\ own'[w].relations = own[w].relations
      /\ own'[w].processed = own[w].processed
    BY <1>1 DEF TypeOK, RowsType
<1>3. Visible(w) \subseteq Visible(w)' /\ Candidate(w) \in Visible(w)'
    BY <1>2 DEF Visible
<1> QED
    BY <1>1, <1>2, <1>3 DEF RowsOf

LEMMA FinishChunkWrites ==
    ASSUME NEW w \in Workers, FinishChunk(w)
    PROVE  \E rows : own' = [own EXCEPT ![w] = rows]
<1> DEFINE c  == Chunk(w)
           rs == Relations[c]
           rows == [own[w] EXCEPT
                       !.links = @ \cup {<<c, p[2]>> : p \in resolved[w]},
                       !.relations = @ \cup {<<EntityAt(w, rs[i][1]), EntityAt(w, rs[i][2]), c>> :
                                               i \in Creatable(w)},
                       !.processed = IF ChunkSucceeds(w) THEN @ \cup {c} ELSE @]
<1>1. own' = [own EXCEPT ![w] = rows]
    BY Zenon DEF FinishChunk
<1> HIDE DEF rows
<1> QED
    BY <1>1

LEMMA RowsOfFinishedChunk ==
    ASSUME PlaceInv, NEW w \in Workers, RowsOf(w), FinishChunk(w)
    PROVE  RowsOf(w)'
<1> DEFINE c  == Chunk(w)
           rs == Relations[c]
           S  == {p[2] : p \in resolved[w]}
           L  == {<<c, p[2]>> : p \in resolved[w]}
           R  == {<<EntityAt(w, rs[i][1]), EntityAt(w, rs[i][2]), c>> : i \in Creatable(w)}
           rows == [own[w] EXCEPT
                       !.links = @ \cup L,
                       !.relations = @ \cup R,
                       !.processed = IF ChunkSucceeds(w) THEN @ \cup {c} ELSE @]
<1>1. TypeOK /\ run[w] # NoRun /\ HasChunk(w) /\ c \in ChunksIn(run[w]) /\ c \in Chunks
    BY ChunkType DEF PlaceInv, PlaceOf, Running, FinishChunk
<1>2. own' = [own EXCEPT ![w] = rows]
    BY Zenon DEF FinishChunk
<1>3. /\ run' = run /\ entities' = entities
      /\ found'[w] = {} /\ resolved'[w] = {}
    BY <1>1 DEF FinishChunk, NextChunk, committed, TypeOK
<1>4. \A t \in S : t \in Visible(w)
    BY DEF RowsOf
<1>5. ASSUME NEW i \in Creatable(w)
      PROVE  EntityAt(w, rs[i][1]) \in S /\ EntityAt(w, rs[i][2]) \in S
    BY <1>1, CreatableEnds
<1>6. \A t \in S : <<c, t>> \in L
    OBVIOUS
<1>7. \A l \in L : l[1] = c /\ l[2] \in S
    OBVIOUS
<1>8. \A r \in R : r[3] = c /\ r[1] \in S /\ r[2] \in S
    BY <1>5
<1>9. ChunkSucceeds(w) => HasAllRelations(c, R, L)
  <2> SUFFICES ASSUME ChunkSucceeds(w), NEW i \in DOMAIN rs
               PROVE  \E r \in R : r[3] = c /\ <<c, r[1]>> \in L /\ <<c, r[2]>> \in L
    BY DEF HasAllRelations
  <2>1. i \in Creatable(w)
    BY DEF ChunkSucceeds
  <2>2. <<EntityAt(w, rs[i][1]), EntityAt(w, rs[i][2]), c>> \in R
    BY <2>1
  <2> QED
    BY <1>5, <1>6, <2>1, <2>2
<1>10. own[w] \in RowsType /\ own'[w] = rows
    BY <1>1, <1>2 DEF TypeOK
<1> HIDE DEF c, rs, S, L, R
<1>11. /\ own'[w].entities = own[w].entities
       /\ own'[w].links = own[w].links \cup L
       /\ own'[w].relations = own[w].relations \cup R
       /\ own'[w].processed = IF ChunkSucceeds(w) THEN own[w].processed \cup {c} ELSE own[w].processed
    BY <1>10 DEF RowsType
<1>12. Visible(w)' = Visible(w)
    BY <1>3, <1>11 DEF Visible
<1>13. \A b \in own'[w].processed :
            b \in ChunksIn(run[w]) /\ HasAllRelations(b, own'[w].relations, own'[w].links)
  <2> SUFFICES ASSUME NEW b \in own'[w].processed
               PROVE  /\ b \in ChunksIn(run[w])
                      /\ HasAllRelations(b, own'[w].relations, own'[w].links)
    OBVIOUS
  <2>1. CASE b \in own[w].processed
    BY <1>11, <2>1 DEF RowsOf, HasAllRelations
  <2>2. CASE b = c /\ ChunkSucceeds(w)
    <3>1. HasAllRelations(b, R, L)
      BY <1>9, <2>2
    <3> QED
      BY <1>1, <1>11, <2>2, <3>1 DEF HasAllRelations
  <2> QED
    BY <1>11, <2>1, <2>2
<1> QED
    BY <1>1, <1>3, <1>4, <1>7, <1>8, <1>11, <1>12, <1>13 DEF RowsOf

(* Everything a run has written becomes visible in one step.                 *)
LEMMA GraphAfterRun ==
    ASSUME PlaceInv, Graph, NEW w \in Workers, RowsOf(w), FinishRun(w)
    PROVE  Graph'
<1> DEFINE r == run[w]
           o == own[w]
<1>1. TypeOK /\ r \in Runs /\ r # NoRun /\ jobStatus[r] = "pending"
    BY DEF PlaceInv, PlaceOf, Running, FinishRun, JobsInv, TypeOK
<1>2. /\ entities' = entities \cup o.entities /\ links' = links \cup o.links
      /\ relations' = relations \cup o.relations /\ processed' = processed \cup o.processed
      /\ synthesis' = synthesis \cup {<<r, e>> : e \in Touched(w)}
      /\ sourceStatus' = [sourceStatus EXCEPT ![r] = "processed"]
      /\ jobStatus' = [jobStatus EXCEPT ![r] = "completed"]
    BY DEF FinishRun
<1>3. /\ jobStatus'[r] = "completed" /\ sourceStatus'[r] = "processed"
      /\ \A q \in Runs \ {r} : jobStatus'[q] = jobStatus[q] /\ sourceStatus'[q] = sourceStatus[q]
    BY <1>1, <1>2 DEF TypeOK
<1>4. Origins'
  <2> SUFFICES ASSUME NEW c \in Contributing'
               PROVE  \E q \in Runs : c \in ChunksIn(q) /\ jobStatus'[q] = "completed"
                                                      /\ sourceStatus'[q] = "processed"
    BY DEF Origins
  <2>1. c \in Contributing \/ c \in ChunksIn(r)
    BY <1>2 DEF Contributing, RowsOf
  <2>2. CASE c \in Contributing
    BY <1>1, <1>3, <2>2 DEF Graph, Origins
  <2>3. CASE c \in ChunksIn(r)
    BY <1>1, <1>3, <2>3
  <2> QED
    BY <2>1, <2>2, <2>3
<1>5. References'
    BY <1>2 DEF Graph, References, RowsOf, Visible
<1>6. ProcessedChunksHaveRelations'
    BY <1>2 DEF Graph, ProcessedChunksHaveRelations, RowsOf, HasAllRelations
<1>7. Enqueued'
  <2> SUFFICES ASSUME NEW l \in links'
               PROVE  \E q \in Runs : l[1] \in ChunksIn(q) /\ <<q, l[2]>> \in synthesis'
    BY DEF Enqueued
  <2>1. CASE l \in links
    BY <1>2, <2>1 DEF Graph, Enqueued
  <2>2. CASE l \in o.links
    <3>1. l[1] \in ChunksIn(r) /\ l[2] \in Touched(w)
      BY <2>2 DEF RowsOf, Touched
    <3> QED
      BY <1>1, <1>2, <3>1
  <2> QED
    BY <1>2, <2>1, <2>2
<1> QED
    BY <1>4, <1>5, <1>6, <1>7 DEF Graph

LEMMA GraphAfterFailure ==
    ASSUME PlaceInv, Graph, NEW w \in Workers, Running(w), RunFails(w)
    PROVE  Graph'
<1>1. TypeOK /\ run[w] \in Runs /\ run[w] # NoRun /\ jobStatus[run[w]] = "pending"
    BY DEF PlaceInv, PlaceOf, JobsInv, TypeOK
<1>2. \A q \in Runs : jobStatus[q] = "completed" => jobStatus'[q] = "completed"
    BY <1>1 DEF RunFails, TypeOK
<1>3. UNCHANGED <<sourceStatus, entities, links, relations, processed, synthesis>>
    BY DEF RunFails
<1> QED
    BY <1>2, <1>3
    DEF Graph, Origins, References, Enqueued, Contributing, ProcessedChunksHaveRelations

LEMMA GraphStep == PlaceInv /\ GraphInv /\ [Next]_vars => GraphInv'
<1> SUFFICES ASSUME PlaceInv, GraphInv, [Next]_vars PROVE GraphInv'
    OBVIOUS
<1>0. TypeOK /\ (\A w \in Workers : PlaceOf(w) /\ RowsOf(w)) /\ Graph
    BY DEF PlaceInv, GraphInv
<1>1. CASE UNCHANGED vars
    BY <1>0, <1>1, GraphUnchanged, RowsOfOther DEF vars, committed, position, GraphInv
<1>2. ASSUME NEW w \in Workers, Graph', RowsOf(w)', entities \subseteq entities',
             \A v \in Workers \ {w} : /\ run'[v] = run[v] /\ own'[v] = own[v]
                                      /\ found'[v] = found[v] /\ resolved'[v] = resolved[v]
      PROVE  GraphInv'
    BY <1>0, <1>2, RowsOfOther DEF GraphInv
(* Steps that end a run. *)
<1>3. ASSUME NEW w \in Workers, Idle(w), Graph', entities \subseteq entities' PROVE GraphInv'
    BY <1>0, <1>2, <1>3, RowsOfIdle DEF Idle, TypeOK
<1>4. ASSUME NEW w \in Workers, Die(w) PROVE GraphInv'
    BY <1>0, <1>3, <1>4, GraphUnchanged DEF Die, committed
<1>5. ASSUME NEW w \in Workers, Running(w), RunFails(w) PROVE GraphInv'
    BY <1>0, <1>3, <1>5, GraphAfterFailure DEF RunFails
<1>6. ASSUME NEW w \in Workers, FinishRun(w) PROVE GraphInv'
    BY <1>0, <1>3, <1>6, GraphAfterRun DEF FinishRun
(* Steps that write no row. *)
<1>7. ASSUME NEW w \in Workers, UNCHANGED <<committed, own>>, run' = run,
             found'[w] \subseteq Visible(w), \A p \in resolved'[w] : p[2] \in Visible(w),
             \A v \in Workers \ {w} : found'[v] = found[v] /\ resolved'[v] = resolved[v]
      PROVE  GraphInv'
    BY <1>0, <1>2, <1>7, GraphUnchanged, RowsUnwritten DEF committed
<1>8. ASSUME NEW w \in Workers, ChunkFailed(w), UNCHANGED <<committed, own>> PROVE GraphInv'
    BY <1>0, <1>7, <1>8 DEF ChunkFailed, NextChunk, TypeOK
<1>9. ASSUME NEW w \in Workers, Extract(w) \/ TryNameLock(w) \/ Restart(w) PROVE GraphInv'
    BY <1>0, <1>7, <1>9 DEF Extract, TryNameLock, Restart, position, RowsOf
<1>10. ASSUME NEW w \in Workers, SkipCandidate(w) PROVE GraphInv'
    BY <1>0, <1>7, <1>10 DEF SkipCandidate, NextCandidate, RowsOf, TypeOK
<1>11. ASSUME NEW w \in Workers, Search(w) PROVE GraphInv'
  <2>1. PICK S \in Nearest(w) : found' = [found EXCEPT ![w] = S]
    BY <1>11 DEF Search
  <2>2. S \subseteq Visible(w)
    BY <2>1 DEF Nearest, Similar
  <2> QED
    BY <1>0, <1>7, <1>11, <2>1, <2>2 DEF Search, RowsOf, TypeOK
<1>12. ASSUME NEW w \in Workers, MergeEntity(w) PROVE GraphInv'
  <2>1. PICK e \in found[w] : ResolveTo(w, e)
    BY <1>12 DEF MergeEntity, Namesakes, SurvivingEntity
  <2> QED
    BY <1>0, <1>7, <1>12, <2>1 DEF MergeEntity, ResolveTo, NextCandidate, RowsOf, TypeOK
<1>13. ASSUME NEW w \in Workers, Start(w) PROVE GraphInv'
  <2>1. run[w] = NoRun
    BY <1>0, <1>13 DEF Start, PlaceOf, Running
  <2>2. RowsOf(w)'
    BY <1>0, <1>13, <2>1 DEF Start, RowsOf, Visible, NoRows, committed
  <2> QED
    BY <1>0, <1>2, <1>13, <2>2, GraphUnchanged DEF Start, committed, TypeOK
(* Steps that write rows. *)
<1>14. ASSUME NEW w \in Workers, CreateEntity(w) \/ MergeTargetMissing(w) PROVE GraphInv'
  <2>1. /\ own' = [own EXCEPT ![w].entities = @ \cup {Candidate(w)}]
        /\ pc[w] = "deciding" /\ run' = run /\ UNCHANGED committed
        /\ found'[w] = {} /\ resolved'[w] \subseteq resolved[w] \cup {<<cand[w], Candidate(w)>>}
        /\ \A v \in Workers \ {w} : found'[v] = found[v] /\ resolved'[v] = resolved[v]
    BY <1>0, <1>14
    DEF CreateEntity, MergeTargetMissing, ResolveTo, NextCandidate, ChunkFailed, NextChunk, TypeOK
  <2>2. cand[w] \in Nat
    BY <1>0 DEF TypeOK
  <2>3. RowsOf(w)'
    BY <1>0, <2>1, <2>2, RowsWithEntity DEF committed
  <2> QED
    BY <1>0, <1>2, <2>1, <2>3, GraphUnchanged DEF committed
<1>15. ASSUME NEW w \in Workers, FinishChunk(w) PROVE GraphInv'
  <2>1. /\ run' = run /\ UNCHANGED committed
        /\ \A v \in Workers \ {w} : /\ own'[v] = own[v]
                                    /\ found'[v] = found[v] /\ resolved'[v] = resolved[v]
    <3>1. PICK rows : own' = [own EXCEPT ![w] = rows]
      BY <1>15, FinishChunkWrites
    <3>2. /\ run' = run /\ UNCHANGED committed
          /\ found' = [found EXCEPT ![w] = {}] /\ resolved' = [resolved EXCEPT ![w] = {}]
      BY <1>15 DEF FinishChunk, NextChunk
    <3> QED
      BY <1>0, <3>1, <3>2 DEF TypeOK
  <2> QED
    BY <1>0, <1>2, <1>15, <2>1, GraphUnchanged, RowsOfFinishedChunk DEF committed
<1>16. ASSUME NEW w \in Workers,
              StatementInAborted(w) \/ ProviderFails(w) \/ DecisionFails(w)
              \/ StatementFails(w) \/ LinkFails(w)
       PROVE  GraphInv'
    BY <1>8, <1>16
    DEF StatementInAborted, ProviderFails, DecisionFails, StatementFails, LinkFails
<1>17. ASSUME NEW w \in Workers, FlushFails(w) \/ Crash(w) PROVE GraphInv'
    BY <1>4, <1>8, <1>17 DEF FlushFails, Crash
<1>18. ASSUME NEW w \in Workers, ParseFails(w) \/ FinishFails(w) \/ CommitFails(w) PROVE GraphInv'
    BY <1>4, <1>5, <1>18 DEF ParseFails, FinishFails, CommitFails, Running
<1> QED
    BY <1>1, <1>6, <1>9, <1>10, <1>11, <1>12, <1>13, <1>14, <1>15, <1>16, <1>17, <1>18
    DEF Next, WorkerStep

LEMMA GraphHolds == Spec => [](PlaceInv /\ GraphInv)
BY PlaceInit, PlaceStep, GraphInit, GraphStep, PTL DEF Spec

(* Runs that fail, wait for a retry or die leave nothing behind, and no link *)
(* or relation points at an entity that is not there, however many runs read *)
(* and write the graph at once.                                              *)
THEOREM GraphIsWhole == Spec => []CommittedGraphIsWhole
<1>1. GraphInv => CommittedGraphIsWhole
    BY RunOfChunk DEF GraphInv, Graph, Origins, References, CommittedGraphIsWhole
<1> QED
    BY <1>1, GraphHolds, PTL

(* A processed chunk has all its relations, between entities it is linked    *)
(* to, whatever was skipped, merged or retried.                              *)
THEOREM RelationsComeWithChunks == Spec => []ProcessedChunksHaveRelations
<1>1. GraphInv => ProcessedChunksHaveRelations
    BY DEF GraphInv, Graph
<1> QED
    BY <1>1, GraphHolds, PTL

(* Synthesis is asked for every entity that a committed chunk is linked to,  *)
(* for the very source, in the transaction that commits the link.            *)
THEOREM SynthesisIsAskedFor == Spec => []SynthesisCoversLinks
<1>1. GraphInv => SynthesisCoversLinks
    BY RunOfChunk DEF GraphInv, Graph, Enqueued, SynthesisCoversLinks
<1> QED
    BY <1>1, GraphHolds, PTL

-----------------------------------------------------------------------------
(* Names *)

(* Why a search for e, or for d, that could see the rows V has not shown the *)
(* other.                                                                    *)
CrowdedIn(V, d, e) ==
    \E S \in SUBSET V :
        /\ Cardinality(S) = TopK
        /\ \A s \in S : NameOf(s) # NameOf(e) /\ Apart(s, e) <= Apart(d, e)

Explained(V, d, e) ==
    Apart(d, e) > Threshold \/ CrowdedIn(V, d, e) \/ CrowdedIn(V, e, d)

(* A search that returned F has missed d although it is near the text of e.  *)
CutOff(F, d, e) == Cardinality(F) = TopK /\ \A s \in F : Apart(s, e) <= Apart(d, e)

(* Two entities of one name that a run has made are explained by what it     *)
(* could see; and so is what the search that a decision rests on has missed  *)
(* of the run's own rows.                                                    *)
NamesOf(w) ==
    /\ \A d, e \in own[w].entities :
          NameOf(d) = NameOf(e) /\ d # e => Explained(Visible(w), d, e)
    /\ pc[w] = "deciding" =>
          \A d \in own[w].entities :
              NameOf(d) = Name(w) =>
                  \/ d \in found[w]
                  \/ Apart(d, Candidate(w)) > Threshold
                  \/ CutOff(found[w], d, Candidate(w))

CommittedNames ==
    \A d, e \in entities, r \in Runs :
        /\ d[1] \in ChunksIn(r) /\ e[1] \in ChunksIn(r)
        /\ NameOf(d) = NameOf(e) /\ d # e
        => Explained(entities, d, e)

NamesInv == faithful => CommittedNames /\ \A w \in Workers : NamesOf(w)

(* Rows that come to be seen explain no less.                                *)
LEMMA ExplainedByMore ==
    ASSUME NEW V, NEW W, V \subseteq W, NEW d, NEW e, Explained(V, d, e)
    PROVE  Explained(W, d, e)
<1>1. ASSUME NEW a, NEW b, CrowdedIn(V, a, b) PROVE CrowdedIn(W, a, b)
    BY <1>1 DEF CrowdedIn
<1> QED
    BY <1>1 DEF Explained

LEMMA ExplainedEitherWay ==
    ASSUME NEW V, NEW d \in Entities, NEW e \in Entities, Explained(V, d, e)
    PROVE  Explained(V, e, d)
BY ApartSymmetric DEF Explained

LEMMA NamesOfOther ==
    ASSUME NEW w \in Workers, NamesOf(w), pc'[w] = pc[w], run'[w] = run[w], at'[w] = at[w],
           cand'[w] = cand[w], found'[w] = found[w], own'[w] = own[w],
           entities \subseteq entities'
    PROVE  NamesOf(w)'
<1>1. Visible(w) \subseteq Visible(w)'
    BY DEF Visible
<1>2. \A d, e \in own'[w].entities :
          NameOf(d) = NameOf(e) /\ d # e => Explained(Visible(w)', d, e)
    BY <1>1, ExplainedByMore DEF NamesOf
<1>3. Candidate(w)' = Candidate(w) /\ Name(w)' = Name(w)
    BY DEF Candidate, Chunk, Name, NameOf, TextOf
<1>4. pc'[w] = "deciding" =>
          \A d \in own'[w].entities :
              NameOf(d) = Name(w)' =>
                  \/ d \in found'[w]
                  \/ Apart(d, Candidate(w)') > Threshold
                  \/ CutOff(found'[w], d, Candidate(w)')
    BY <1>3 DEF NamesOf
<1> QED
    BY <1>2, <1>4 DEF NamesOf, NameOf, TextOf, Explained, CrowdedIn, Apart, CutOff

LEMMA NamesUndecided ==
    ASSUME NEW w \in Workers, NamesOf(w), pc'[w] # "deciding",
           own'[w].entities \subseteq own[w].entities, own'[w].entities # {} => Visible(w)' = Visible(w)
    PROVE  NamesOf(w)'
<1>1. \A d, e \in own'[w].entities :
          NameOf(d) = NameOf(e) /\ d # e => Explained(Visible(w)', d, e)
    BY DEF NamesOf
<1> QED
    BY <1>1 DEF NamesOf, NameOf, TextOf, Explained, CrowdedIn, Apart

(* An LLM that recognizes a name makes an entity only if it was not offered  *)
(* one of that name.                                                         *)
LEMMA NamesWithEntity ==
    ASSUME PlaceInv, GraphInv, faithful, NEW w \in Workers, NamesOf(w), CreateEntity(w)
    PROVE  NamesOf(w)'
<1> DEFINE c == Candidate(w)
<1>1. TypeOK /\ pc[w] = "deciding" /\ Namesakes(w) = {} /\ c \in Entities
    BY CandidateType DEF PlaceInv, PlaceOf, Running, CreateEntity
<1>2. own'[w].entities = own[w].entities \cup {c} /\ pc'[w] # "deciding" /\ entities' = entities
    BY <1>1 DEF CreateEntity, ResolveTo, NextCandidate, committed, TypeOK, RowsType
<1>3. /\ own[w].entities \subseteq Entities /\ found[w] \subseteq Visible(w)
      /\ Visible(w) \subseteq Visible(w)'
    BY <1>1, <1>2 DEF GraphInv, RowsOf, Visible, TypeOK, RowsType
<1>4. ASSUME NEW d \in own[w].entities, NameOf(d) = NameOf(c)
      PROVE  Explained(Visible(w), d, c)
  <2>1. d \notin found[w] /\ \A s \in found[w] : NameOf(s) # NameOf(c)
    BY <1>1, <1>4 DEF Namesakes, Name
  <2>2. Apart(d, c) > Threshold \/ CutOff(found[w], d, c)
    BY <1>1, <1>4, <2>1 DEF NamesOf, Name
  <2>3. CASE CutOff(found[w], d, c)
    BY <1>3, <2>1, <2>3 DEF CutOff, CrowdedIn, Explained
  <2> QED
    BY <2>2, <2>3 DEF Explained
<1> HIDE DEF c
<1>5. ASSUME NEW d \in own'[w].entities, NEW e \in own'[w].entities, NameOf(d) = NameOf(e), d # e
      PROVE  Explained(Visible(w)', d, e)
  <2>1. Explained(Visible(w), d, e)
    <3>1. CASE d \in own[w].entities /\ e \in own[w].entities
      BY <1>5, <3>1 DEF NamesOf
    <3>2. CASE d \in own[w].entities /\ e = c
      BY <1>4, <1>5, <3>2
    <3>3. CASE d = c /\ e \in own[w].entities
      BY <1>1, <1>3, <1>4, <1>5, <3>3, ExplainedEitherWay
    <3> QED
      BY <1>2, <1>5, <3>1, <3>2, <3>3
  <2> QED
    BY <1>3, <2>1, ExplainedByMore
<1> QED
    BY <1>2, <1>5 DEF NamesOf, NameOf, TextOf, Explained, CrowdedIn, Apart

LEMMA NamesAfterRun ==
    ASSUME PlaceInv, GraphInv, CommittedNames, NEW w \in Workers, NamesOf(w), FinishRun(w)
    PROVE  CommittedNames'
<1>1. TypeOK /\ run[w] \in Runs /\ jobStatus[run[w]] = "pending"
    BY DEF PlaceInv, PlaceOf, JobsInv, TypeOK, Running, FinishRun
<1>2. entities' = Visible(w)
    BY DEF FinishRun, Visible
<1>3. \A e \in own[w].entities : e[1] \in ChunksIn(run[w])
    BY DEF GraphInv, RowsOf
<1>4. ASSUME NEW d \in entities, NEW e \in own[w].entities, NEW r \in Runs,
             d[1] \in ChunksIn(r), e[1] \in ChunksIn(r)
      PROVE  FALSE
  <2>1. r = run[w]
    BY <1>1, <1>3, <1>4, RunsAreDisjoint
  <2>2. PICK q \in Runs : d[1] \in ChunksIn(q) /\ jobStatus[q] = "completed"
    BY DEF GraphInv, Graph, Origins, Contributing
  <2> QED
    BY <1>1, <1>4, <2>1, <2>2, RunsAreDisjoint
<1>5. ASSUME NEW d \in Visible(w), NEW e \in Visible(w), NEW r \in Runs,
             d[1] \in ChunksIn(r), e[1] \in ChunksIn(r), NameOf(d) = NameOf(e), d # e
      PROVE  Explained(Visible(w), d, e)
  <2>1. CASE d \in entities /\ e \in entities
    <3>1. entities \subseteq Visible(w) /\ Explained(entities, d, e)
      BY <1>5, <2>1 DEF CommittedNames, Visible
    <3> QED
      BY <3>1, ExplainedByMore
  <2>2. CASE d \in own[w].entities /\ e \in own[w].entities
    BY <1>5, <2>2 DEF NamesOf
  <2> QED
    BY <1>4, <1>5, <2>1, <2>2 DEF Visible
<1>6. \A d, e \in entities', r \in Runs :
          /\ d[1] \in ChunksIn(r) /\ e[1] \in ChunksIn(r)
          /\ NameOf(d) = NameOf(e) /\ d # e
          => Explained(entities', d, e)
    BY <1>2, <1>5
<1> QED
    BY <1>6 DEF CommittedNames, ChunksIn, NameOf, TextOf, Explained, CrowdedIn, Apart

LEMMA CommittedNamesUnchanged ==
    ASSUME CommittedNames, entities' = entities
    PROVE  CommittedNames'
<1>1. \A d, e \in entities', r \in Runs :
          /\ d[1] \in ChunksIn(r) /\ e[1] \in ChunksIn(r)
          /\ NameOf(d) = NameOf(e) /\ d # e
          => Explained(entities', d, e)
    BY DEF CommittedNames
<1> QED
    BY <1>1 DEF CommittedNames, ChunksIn, NameOf, TextOf, Explained, CrowdedIn, Apart

LEMMA NamesInit == Init => NamesInv
BY DEF Init, NamesInv, NamesOf, CommittedNames, NoRows

LEMMA NamesStep ==
    ASSUME PlaceInv, GraphInv, NamesInv, [Next]_vars
    PROVE  NamesInv'
<1> SUFFICES ASSUME faithful PROVE NamesInv'
    BY DEF NamesInv, Next, vars
<1>0. TypeOK /\ CommittedNames /\ \A w \in Workers : PlaceOf(w) /\ NamesOf(w)
    BY DEF PlaceInv, NamesInv
<1>1. CASE UNCHANGED vars
    BY <1>0, <1>1, NamesOfOther, CommittedNamesUnchanged DEF vars, committed, position, NamesInv
<1>2. ASSUME NEW w \in Workers, NamesOf(w)', entities' = entities,
             \A v \in Workers \ {w} :
                 /\ pc'[v] = pc[v] /\ run'[v] = run[v] /\ at'[v] = at[v]
                 /\ cand'[v] = cand[v] /\ found'[v] = found[v] /\ own'[v] = own[v]
      PROVE  NamesInv'
    BY <1>0, <1>2, NamesOfOther, CommittedNamesUnchanged DEF NamesInv
<1>3. ASSUME NEW w \in Workers, NEW p \in {"idle", "down"}, Idle(w), entities' = entities,
             pc' = [pc EXCEPT ![w] = p]
      PROVE  NamesInv'
  <2>1. pc'[w] # "deciding" /\ own'[w].entities = {}
    BY <1>0, <1>3 DEF Idle, TypeOK, NoRows
  <2>2. NamesOf(w)'
    BY <1>0, <2>1, NamesUndecided
  <2> QED
    BY <1>0, <1>2, <1>3, <2>2 DEF Idle, TypeOK
<1>4. ASSUME NEW w \in Workers, Die(w) PROVE NamesInv'
    BY <1>3, <1>4 DEF Die, committed
<1>5. ASSUME NEW w \in Workers, RunFails(w) PROVE NamesInv'
    BY <1>3, <1>5 DEF RunFails
<1>6. ASSUME NEW w \in Workers, UNCHANGED <<committed, own>>, run' = run, pc'[w] # "deciding",
             \A v \in Workers \ {w} : /\ pc'[v] = pc[v] /\ at'[v] = at[v]
                                      /\ cand'[v] = cand[v] /\ found'[v] = found[v]
      PROVE  NamesInv'
    BY <1>0, <1>2, <1>6, NamesUndecided DEF committed, Visible
<1>7. ASSUME NEW w \in Workers, ChunkFailed(w), UNCHANGED <<committed, own>> PROVE NamesInv'
    BY <1>0, <1>6, <1>7 DEF ChunkFailed, NextChunk, TypeOK
(* The steps between the runs and the candidates *)
<1>8. ASSUME NEW w \in Workers, Start(w) PROVE NamesInv'
  <2>1. NamesOf(w)'
    BY <1>0, <1>8, NamesUndecided DEF Start, Visible, committed, TypeOK
  <2> QED
    BY <1>0, <1>2, <1>8, <2>1 DEF Start, committed, TypeOK
<1>9. ASSUME NEW w \in Workers, Extract(w) \/ TryNameLock(w) \/ Restart(w) PROVE NamesInv'
    BY <1>0, <1>6, <1>9 DEF Extract, TryNameLock, Restart, position, TypeOK
<1>10. ASSUME NEW w \in Workers, SkipCandidate(w) PROVE NamesInv'
    BY <1>0, <1>6, <1>10 DEF SkipCandidate, NextCandidate, TypeOK
<1>11. ASSUME NEW w \in Workers, MergeEntity(w) PROVE NamesInv'
  <2>1. PICK e \in found[w] : ResolveTo(w, e)
    BY <1>11 DEF MergeEntity, Namesakes, SurvivingEntity
  <2> QED
    BY <1>0, <1>6, <1>11, <2>1 DEF MergeEntity, ResolveTo, NextCandidate, TypeOK
<1>12. ASSUME NEW w \in Workers, Search(w) PROVE NamesInv'
  <2>1. run[w] # NoRun /\ HasChunk(w) /\ HasCandidate(w)
    BY <1>0, <1>12 DEF PlaceOf, Running, Search
  <2>2. PICK S \in Nearest(w) : found' = [found EXCEPT ![w] = S]
    BY <1>12 DEF Search
  <2>3. /\ found'[w] = S /\ own' = own /\ entities' = entities
        /\ Candidate(w)' = Candidate(w) /\ Name(w)' = Name(w)
    BY <1>0, <1>12, <2>2 DEF Search, Candidate, Chunk, Name, NameOf, TextOf, committed, TypeOK
  <2>4. ASSUME NEW d \in own[w].entities
        PROVE  \/ d \in S
               \/ Apart(d, Candidate(w)) > Threshold
               \/ CutOff(S, d, Candidate(w))
    <3> SUFFICES ASSUME d \notin S, ~ (Apart(d, Candidate(w)) > Threshold)
                 PROVE  CutOff(S, d, Candidate(w))
      OBVIOUS
    <3>1. d \in Entities /\ Candidate(w) \in Entities
      BY <1>0, <2>1, CandidateType DEF TypeOK, RowsType
    <3>2. Apart(d, Candidate(w)) \in Nat /\ Threshold \in Nat
      BY <3>1, ApartSymmetric, PipelineAssumption DEF PipelineAssumption
    <3>3. d \in Similar(w) \ S
      BY <3>2 DEF Similar, Visible
    <3> QED
      BY <2>2, <3>3 DEF Nearest, CutOff
  <2>5. \A d, e \in own'[w].entities :
            NameOf(d) = NameOf(e) /\ d # e => Explained(Visible(w)', d, e)
    BY <1>0, <2>3 DEF NamesOf, Visible
  <2>6. NamesOf(w)'
    BY <2>3, <2>4, <2>5 DEF NamesOf, NameOf, TextOf, Explained, CrowdedIn, Apart, CutOff
  <2> QED
    BY <1>0, <1>2, <1>12, <2>6 DEF Search, committed, TypeOK
<1>13. ASSUME NEW w \in Workers, CreateEntity(w) PROVE NamesInv'
  <2>1. NamesOf(w)'
    BY <1>0, <1>13, NamesWithEntity
  <2> QED
    BY <1>0, <1>2, <1>13, <2>1 DEF CreateEntity, ResolveTo, NextCandidate, committed, TypeOK
<1>14. ASSUME NEW w \in Workers, FinishChunk(w) PROVE NamesInv'
  <2>1. PICK rows : own' = [own EXCEPT ![w] = rows]
    BY <1>14, FinishChunkWrites
  <2>2. pc'[w] = "chunk" /\ own'[w].entities = own[w].entities
    BY <1>0, <1>14 DEF FinishChunk, NextChunk, TypeOK, RowsType
  <2>3. NamesOf(w)'
    BY <1>0, <1>14, <2>2, NamesUndecided DEF FinishChunk, Visible, committed
  <2> QED
    BY <1>0, <1>2, <1>14, <2>1, <2>3 DEF FinishChunk, NextChunk, committed, TypeOK
<1>15. ASSUME NEW w \in Workers, FinishRun(w) PROVE NamesInv'
  <2>1. CommittedNames'
    BY <1>0, <1>15, NamesAfterRun
  <2>2. pc'[w] # "deciding" /\ own'[w].entities = {}
    BY <1>0, <1>15 DEF FinishRun, Idle, TypeOK, NoRows
  <2>3. NamesOf(w)'
    BY <1>0, <2>2, NamesUndecided
  <2>4. \A v \in Workers \ {w} : NamesOf(v)'
    BY <1>0, <1>15, NamesOfOther DEF FinishRun, Idle, TypeOK
  <2> QED
    BY <2>1, <2>3, <2>4 DEF NamesInv
(* Failures *)
<1>16. ASSUME NEW w \in Workers,
              StatementInAborted(w) \/ ProviderFails(w) \/ DecisionFails(w)
              \/ StatementFails(w) \/ LinkFails(w)
       PROVE  NamesInv'
    BY <1>7, <1>16
    DEF StatementInAborted, ProviderFails, DecisionFails, StatementFails, LinkFails
<1>17. ASSUME NEW w \in Workers, FlushFails(w) \/ Crash(w) PROVE NamesInv'
    BY <1>4, <1>7, <1>17 DEF FlushFails, Crash
<1>18. ASSUME NEW w \in Workers, ParseFails(w) \/ FinishFails(w) \/ CommitFails(w) PROVE NamesInv'
    BY <1>4, <1>5, <1>18 DEF ParseFails, FinishFails, CommitFails
<1>19. ASSUME NEW w \in Workers, MergeTargetMissing(w) PROVE FALSE
    BY <1>19 DEF MergeTargetMissing
<1> QED
    BY <1>1, <1>8, <1>9, <1>10, <1>11, <1>12, <1>13, <1>14, <1>15, <1>16, <1>17, <1>18, <1>19
    DEF Next, WorkerStep

(* When the LLM recognizes the names it is offered, a run makes an entity    *)
(* twice only from texts further apart than the threshold, or where top_k    *)
(* nearer entities took the places in the answer: its searches see the rows  *)
(* that it has not committed yet.                                            *)
THEOREM DuplicatesAreExplained == Spec => []DuplicateExplained
<1>1. GraphInv /\ NamesInv => DuplicateExplained
  <2> SUFFICES ASSUME GraphInv, NamesInv, faithful, NEW d \in entities, NEW e \in entities,
                      NameOf(d) = NameOf(e), RunOf(d[1]) = RunOf(e[1]), d # e
               PROVE  Apart(d, e) > Threshold \/ IsCrowdedOut(d, e) \/ IsCrowdedOut(e, d)
    BY DEF DuplicateExplained
  <2>1. PICK q \in Runs : d[1] \in ChunksIn(q)
    BY DEF GraphInv, Graph, Origins, Contributing
  <2>2. PICK r \in Runs : e[1] \in ChunksIn(r)
    BY DEF GraphInv, Graph, Origins, Contributing
  <2>3. Explained(entities, d, e)
    BY <2>1, <2>2, RunOfChunk DEF NamesInv, CommittedNames
  <2> QED
    BY <2>3 DEF Explained, CrowdedIn, IsCrowdedOut
<1>2. PlaceInv /\ GraphInv /\ NamesInv /\ [Next]_vars => NamesInv'
    BY NamesStep
<1> QED
    BY <1>1, <1>2, NamesInit, GraphHolds, PTL DEF Spec
=============================================================================
