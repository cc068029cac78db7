--------------------------- MODULE JobQueueProofs ---------------------------
(***************************************************************************)
(* Safety of the job queue for every number of workers and jobs, every     *)
(* claim order and every bound on failures and restarts; and, with one     *)
(* worker, that the queue implements DurableQueue.                         *)
(***************************************************************************)
EXTENDS JobQueue, FiniteSetTheorems, TLAPS

LEMMA InitType == Init => TypeOK
BY ConstantsAssumption
   DEF Init, TypeOK, Statuses, Phases, NoSnapshot, Targets, ConstantsAssumption

(* What an operator on the row locks returns. *)
LEMMA UnlockedType ==
    ASSUME TypeOK, NEW w \in Workers
    PROVE  Unlocked(w) \in [Jobs -> Workers \cup {NoWorker}]
BY DEF Unlocked, TypeOK

(* The source ids that a merge collects are source ids. *)
LEMMA MergedSourcesType ==
    ASSUME NEW j \in Jobs
    PROVE  MergedSources(j) \subseteq SourceIds
BY DEF MergedSources, Duplicates, SourceIds

(* A row is locked by a worker exactly while that worker's transaction has   *)
(* updated it and is still open; a worker past its commit locks nothing.     *)
LockDiscipline ==
    /\ \A w \in Workers : /\ pc[w] \notin {"idle", "down"} => cur[w] \in Jobs
                          /\ pc[w] \in Uncommitted => rowLock[cur[w]] = w
                          /\ dups[w] # {} => pc[w] = "merging"
                          /\ pc[w] \in {"merging", "locking", "writing"}
                                => Kind[cur[w]] # "ingest"
    /\ \A w \in Workers, j \in Jobs :
            rowLock[j] = w => pc[w] \in Uncommitted /\ j \in dups[w] \cup {cur[w]}

(* A worker in the middle of a job holds a job: part of LockDiscipline. *)
HoldsJob == \A w \in Workers : pc[w] \notin {"idle", "down"} => cur[w] \in Jobs

LEMMA TypeStep == TypeOK /\ HoldsJob /\ [Next]_vars => TypeOK'
<1> SUFFICES ASSUME TypeOK, HoldsJob, [Next]_vars PROVE TypeOK'
    OBVIOUS
<1> USE DEF TypeOK, Statuses, Phases, table, memory, handler, history
<1>1. ASSUME NEW j \in Jobs, Enqueue(j) PROVE TypeOK'
    BY <1>1 DEF Enqueue
<1>2. ASSUME NEW w \in Workers, Claim(w) PROVE TypeOK'
    BY <1>2 DEF Claim
<1>3. ASSUME NEW w \in Workers, IngestDone(w) PROVE TypeOK'
  <2>1. cur[w] \in Jobs
    BY <1>3 DEF IngestDone, HoldsJob
  <2> QED
    BY <1>3, <2>1, UnlockedType DEF IngestDone, StatusAfterIngest
<1>4. ASSUME NEW w \in Workers, ReadDuplicates(w) PROVE TypeOK'
  <2>1. cur[w] \in Jobs
    BY <1>4 DEF ReadDuplicates, HoldsJob
  <2>2. Duplicates(cur[w]) \subseteq Jobs /\ MergedSources(cur[w]) \subseteq SourceIds
    BY <2>1, MergedSourcesType DEF Duplicates
  <2> QED
    BY <1>4, <2>2 DEF ReadDuplicates
<1>5. ASSUME NEW w \in Workers, FlushDuplicate(w) PROVE TypeOK'
    BY <1>5 DEF FlushDuplicate
<1>6. ASSUME NEW w \in Workers, CommitMerge(w) PROVE TypeOK'
    BY <1>6, UnlockedType DEF CommitMerge, StatusAfterMerge
<1>7. ASSUME NEW w \in Workers, TakeEntityLock(w) PROVE TypeOK'
    BY <1>7 DEF TakeEntityLock
<1>8. ASSUME NEW w \in Workers, LockExhausted(w) PROVE TypeOK'
  <2>1. cur[w] \in Jobs
    BY <1>8 DEF LockExhausted, HoldsJob
  <2> QED
    BY <1>8, <2>1 DEF LockExhausted, Targets
<1>9. ASSUME NEW w \in Workers, SynthesisDone(w) PROVE TypeOK'
  <2>1. cur[w] \in Jobs /\ Target[cur[w]] \in Targets
    BY <1>9 DEF SynthesisDone, HoldsJob, Targets
  <2>2. settled' \in [Targets -> SUBSET SourceIds]
    BY <1>9, <2>1 DEF SynthesisDone
  <2> QED
    BY <1>9, <2>1, <2>2 DEF SynthesisDone
<1>10. ASSUME NEW w \in Workers, Abort(w) PROVE TypeOK'
  <2>1. cur[w] \in Jobs /\ Target[cur[w]] \in Targets
    BY <1>10 DEF Abort, HoldsJob, Targets, Executing
  <2>2. fails' \in [Jobs -> 0..MaxFails]
    BY <1>10, <2>1, ConstantsAssumption DEF Abort, ConstantsAssumption
  <2> QED
    BY <1>10, <2>1, <2>2, UnlockedType DEF Abort
<1>11. ASSUME NEW w \in Workers, Refresh(w) PROVE TypeOK'
  <2>1. cur[w] \in Jobs
    BY <1>11 DEF Refresh, HoldsJob
  <2> QED
    BY <1>11, <2>1 DEF Refresh
<1>12. ASSUME NEW w \in Workers, ReleaseClaim(w) PROVE TypeOK'
  <2>1. cur[w] \in Jobs
    BY <1>12 DEF ReleaseClaim, HoldsJob
  <2> QED
    BY <1>12, <2>1
       DEF ReleaseClaim, ReleasedStatus, WriteBack, AttemptsAfterRelease, EndOfHandler, NoSnapshot
<1>13. ASSUME NEW w \in Workers, FailJob(w) PROVE TypeOK'
  <2>1. cur[w] \in Jobs
    BY <1>13 DEF FailJob, HoldsJob
  <2>2. seen[w].attempts + 1 \in Nat
    OBVIOUS
  <2> QED
    BY <1>13, <2>1, <2>2 DEF FailJob, WriteBack, EndOfHandler, NoSnapshot
<1>14. ASSUME NEW w \in Workers, Die(w), restarts' \in 0..MaxRestarts PROVE TypeOK'
  <2>1. aborted' \subseteq Targets
    BY <1>14 DEF Die, HoldsJob, Targets
  <2> QED
    BY <1>14, <2>1, UnlockedType DEF Die, NoSnapshot
<1>15. ASSUME NEW w \in Workers, Stop(w) PROVE TypeOK'
    BY <1>15, ConstantsAssumption DEF Stop, ConstantsAssumption
<1>16. ASSUME NEW w \in Workers, Restart(w) PROVE TypeOK'
    BY <1>16 DEF Restart
<1>17. CASE UNCHANGED vars
    BY <1>17 DEF vars
<1>18. ASSUME NEW w \in Workers, Crash(w) PROVE TypeOK'
  <2>1. restarts' \in 0..MaxRestarts
    BY <1>18, ConstantsAssumption DEF Crash, ConstantsAssumption
  <2> QED
    BY <1>14, <1>18, <2>1 DEF Crash
<1>19. ASSUME NEW w \in Workers, DeadlockVictim(w) PROVE TypeOK'
    BY <1>14, <1>19 DEF DeadlockVictim
<1> QED
    BY <1>1, <1>2, <1>3, <1>4, <1>5, <1>6, <1>7, <1>8, <1>9, <1>10, <1>11, <1>12,
       <1>13, <1>15, <1>16, <1>17, <1>18, <1>19 DEF Next, WorkerStep

-----------------------------------------------------------------------------
(* Row locks and the phases of the workers *)

(* Unlocking frees the rows of one worker and no others. *)
LEMMA UnlockedFrees ==
    ASSUME NEW w \in Workers, NEW j \in Jobs, NEW v \in Workers
    PROVE  Unlocked(w)[j] = v <=> rowLock[j] = v /\ v # w
BY ConstantsAssumption DEF Unlocked, ConstantsAssumption

LEMMA LockInit == Init => LockDiscipline
BY ConstantsAssumption DEF Init, LockDiscipline, Uncommitted, ConstantsAssumption

LEMMA LockStep == TypeOK /\ LockDiscipline /\ [Next]_vars => LockDiscipline'
<1> SUFFICES ASSUME TypeOK, LockDiscipline, [Next]_vars PROVE LockDiscipline'
    OBVIOUS
<1> USE DEF LockDiscipline, Uncommitted, table, memory, handler, history
<1>0. NoWorker \notin Workers /\ NoJob \notin Jobs
    BY ConstantsAssumption DEF ConstantsAssumption
<1>1. ASSUME NEW j \in Jobs, Enqueue(j) PROVE LockDiscipline'
    BY <1>1 DEF Enqueue
<1>2. ASSUME NEW w \in Workers, Claim(w) PROVE LockDiscipline'
  <2>1. PICK j \in Jobs : /\ Claimable(j)
                          /\ rowLock' = [rowLock EXCEPT ![j] = w]
                          /\ cur' = [cur EXCEPT ![w] = j]
    BY <1>2 DEF Claim
  <2>2. rowLock[j] = NoWorker
    BY <2>1 DEF Claimable, RowFree
  <2>3. \A k \in Jobs : rowLock[k] # w
    BY <1>2 DEF Claim
  <2> QED
    BY <1>0, <1>2, <2>1, <2>2, <2>3 DEF Claim, TypeOK
<1>3. ASSUME NEW w \in Workers, IngestDone(w) PROVE LockDiscipline'
    BY <1>3, UnlockedFrees DEF IngestDone, TypeOK
<1>4. ASSUME NEW w \in Workers, ReadDuplicates(w) PROVE LockDiscipline'
    BY <1>4 DEF ReadDuplicates, TypeOK
<1>5. ASSUME NEW w \in Workers, FlushDuplicate(w) PROVE LockDiscipline'
  <2>1. PICK k \in Jobs : /\ IsNextFlush(w, k)
                          /\ RowFree(k)
                          /\ rowLock' = [rowLock EXCEPT ![k] = w]
    BY <1>5 DEF FlushDuplicate
  <2>2. pc[w] = "merging" /\ k \in dups[w] /\ rowLock[k] = NoWorker
    BY <2>1 DEF IsNextFlush, Unflushed, RowFree
  <2> QED
    BY <1>0, <1>5, <2>1, <2>2 DEF FlushDuplicate, TypeOK
<1>6. ASSUME NEW w \in Workers, CommitMerge(w) PROVE LockDiscipline'
    BY <1>6, UnlockedFrees DEF CommitMerge, TypeOK
<1>7. ASSUME NEW w \in Workers, TakeEntityLock(w) PROVE LockDiscipline'
    BY <1>7 DEF TakeEntityLock, TypeOK
<1>8. ASSUME NEW w \in Workers, LockExhausted(w) PROVE LockDiscipline'
    BY <1>8 DEF LockExhausted, TypeOK
<1>9. ASSUME NEW w \in Workers, SynthesisDone(w) PROVE LockDiscipline'
    BY <1>9 DEF SynthesisDone, TypeOK
<1>10. ASSUME NEW w \in Workers, Abort(w) PROVE LockDiscipline'
    BY <1>10, UnlockedFrees DEF Abort, Executing, TypeOK
<1>11. ASSUME NEW w \in Workers, Refresh(w) PROVE LockDiscipline'
    BY <1>11 DEF Refresh, TypeOK
<1>12. ASSUME NEW w \in Workers, ReleaseClaim(w) PROVE LockDiscipline'
    BY <1>12 DEF ReleaseClaim, EndOfHandler, TypeOK
<1>13. ASSUME NEW w \in Workers, FailJob(w) PROVE LockDiscipline'
    BY <1>13 DEF FailJob, EndOfHandler, TypeOK
<1>14. ASSUME NEW w \in Workers, Die(w) PROVE LockDiscipline'
    BY <1>14, UnlockedFrees DEF Die, TypeOK
<1>15. ASSUME NEW w \in Workers, Stop(w) PROVE LockDiscipline'
    BY <1>15 DEF Stop, TypeOK
<1>16. ASSUME NEW w \in Workers, Restart(w) PROVE LockDiscipline'
    BY <1>16 DEF Restart, TypeOK
<1>17. CASE UNCHANGED vars
    BY <1>17 DEF vars
<1> QED
    BY <1>1, <1>2, <1>3, <1>4, <1>5, <1>6, <1>7, <1>8, <1>9, <1>10, <1>11, <1>12,
       <1>13, <1>14, <1>15, <1>16, <1>17 DEF Next, WorkerStep, Crash, DeadlockVictim

(* Types and the row-lock discipline hold in every reachable state: the      *)
(* invariant that the theorems below rest on.                                *)
LEMMA QueueDiscipline == Spec => [](TypeOK /\ LockDiscipline)
<1>1. Init => TypeOK /\ LockDiscipline
    BY InitType, LockInit
<1>2. TypeOK /\ LockDiscipline /\ [Next]_vars => (TypeOK /\ LockDiscipline)'
    BY TypeStep, LockStep DEF HoldsJob, LockDiscipline
<1> QED
    BY <1>1, <1>2, PTL DEF Spec

(* Every worker's variables and the columns of every job keep their types;   *)
(* attempts never drops below zero.                                          *)
THEOREM QueueTypes == Spec => []TypeOK
BY QueueDiscipline, PTL

(* No ingest job is ever in the handlers of two workers: its claim holds the *)
(* row lock from the claiming UPDATE to the commit or the rollback.          *)
THEOREM IngestRunsOnce == Spec => []IngestExclusive
<1>1. TypeOK /\ LockDiscipline => IngestExclusive
    BY DEF TypeOK, LockDiscipline, IngestExclusive, IsExecuting, Executing, Uncommitted
<1> QED
    BY <1>1, QueueDiscipline, PTL

-----------------------------------------------------------------------------
(* Counting failures *)

(* The failures of j that are not recorded yet are finitely many. *)
LEMMA UnrecordedFinite ==
    ASSUME NEW j
    PROVE  /\ IsFiniteSet(Unrecorded(j))
           /\ Cardinality(Unrecorded(j)) \in Nat
<1>1. Unrecorded(j) \in SUBSET Workers
    BY DEF Unrecorded
<1>2. IsFiniteSet(Workers)
    BY ConstantsAssumption DEF ConstantsAssumption
<1>3. IsFiniteSet(Unrecorded(j))
    BY <1>1, <1>2, FS_Subset
<1> QED
    BY <1>3, FS_CardinalityType

(* And as many of them after a step. *)
LEMMA UnrecordedFiniteNext ==
    ASSUME NEW j
    PROVE  Cardinality(Unrecorded(j)') \in Nat
<1>1. Unrecorded(j)' \in SUBSET Workers
    BY DEF Unrecorded
<1>2. IsFiniteSet(Workers)
    BY ConstantsAssumption DEF ConstantsAssumption
<1> QED
    BY <1>1, <1>2, FS_Subset, FS_CardinalityType

(* A step of one worker that does not end, refresh or start a failure may    *)
(* only take that worker out of the count.                                   *)
LEMMA QuietStep ==
    ASSUME TypeOK, FailuresCounted, NEW w \in Workers,
           \A v \in Workers \ {w} : /\ cur'[v] = cur[v]
                                    /\ pc'[v] = pc[v]
                                    /\ outcome'[v] = outcome[v]
                                    /\ seen'[v] = seen[v],
           \A j \in Jobs : w \notin Unrecorded(j)',
           attempts' = attempts, fails' = fails
    PROVE  FailuresCounted'
<1> SUFFICES ASSUME NEW j \in Jobs
             PROVE  /\ attempts[j] + Cardinality(Unrecorded(j)') <= fails[j]
                    /\ \A v \in Unrecorded(j)' :
                          pc'[v] = "recording"
                            => seen'[v].attempts + Cardinality(Unrecorded(j)') <= fails[j]
    BY DEF FailuresCounted
<1>1. Unrecorded(j)' \subseteq Unrecorded(j)
    BY DEF Unrecorded
<1>2. /\ Cardinality(Unrecorded(j)') \in Nat
      /\ Cardinality(Unrecorded(j)) \in Nat
      /\ Cardinality(Unrecorded(j)') <= Cardinality(Unrecorded(j))
    BY <1>1, UnrecordedFinite, FS_Subset, FS_CardinalityType
<1>3. attempts[j] \in Nat /\ fails[j] \in Nat
    BY DEF TypeOK
<1>4. attempts[j] + Cardinality(Unrecorded(j)') <= fails[j]
    BY <1>2, <1>3 DEF FailuresCounted
<1>5. ASSUME NEW v \in Unrecorded(j)', pc'[v] = "recording"
      PROVE  seen'[v].attempts + Cardinality(Unrecorded(j)') <= fails[j]
  <2>1. v \in Unrecorded(j) /\ v \in Workers /\ v # w
    BY <1>1, <1>5 DEF Unrecorded
  <2>2. pc[v] = "recording" /\ seen'[v] = seen[v] /\ seen[v].attempts \in Nat
    BY <1>5, <2>1 DEF TypeOK
  <2>3. seen[v].attempts + Cardinality(Unrecorded(j)) <= fails[j]
    BY <2>1, <2>2 DEF FailuresCounted
  <2> QED
    BY <1>2, <1>3, <2>2, <2>3
<1> QED
    BY <1>4, <1>5

(* A new failure: one more unrecorded, one more counted in the history. *)
LEMMA AbortCounts ==
    ASSUME TypeOK, LockDiscipline, FailuresCounted, NEW w \in Workers, Abort(w)
    PROVE  FailuresCounted'
<1>0. cur[w] \in Jobs
    BY DEF Abort, Executing, LockDiscipline
<1>1. PICK k \in Jobs : k = cur[w]
    BY <1>0
<1>2. /\ w \notin Unrecorded(k)
      /\ Unrecorded(k)' = Unrecorded(k) \cup {w}
      /\ \A j \in Jobs \ {k} : Unrecorded(j)' = Unrecorded(j)
    BY <1>1 DEF Abort, Executing, Unrecorded, TypeOK
<1>3. Cardinality(Unrecorded(k)') = Cardinality(Unrecorded(k)) + 1
    BY <1>2, UnrecordedFinite, FS_AddElement
<1>4. /\ fails'[k] = fails[k] + 1
      /\ \A j \in Jobs \ {k} : fails'[j] = fails[j]
      /\ attempts' = attempts /\ seen' = seen
      /\ \A v \in Workers : pc'[v] = "recording" => pc[v] = "recording" /\ v # w
    BY <1>1 DEF Abort, TypeOK
<1> SUFFICES ASSUME NEW j \in Jobs
             PROVE  /\ attempts[j] + Cardinality(Unrecorded(j)') <= fails'[j]
                    /\ \A v \in Unrecorded(j)' :
                          pc'[v] = "recording"
                            => seen[v].attempts + Cardinality(Unrecorded(j)') <= fails'[j]
    BY <1>4 DEF FailuresCounted
<1>5. /\ attempts[j] \in Nat /\ fails[j] \in Nat /\ Cardinality(Unrecorded(j)) \in Nat
      /\ \A v \in Workers : seen[v].attempts \in Nat
    BY UnrecordedFinite DEF TypeOK
<1>6. /\ attempts[j] + Cardinality(Unrecorded(j)) <= fails[j]
      /\ \A v \in Unrecorded(j) :
            pc[v] = "recording" => seen[v].attempts + Cardinality(Unrecorded(j)) <= fails[j]
    BY DEF FailuresCounted
<1>7. CASE j = k
  <2>1. \A v \in Unrecorded(j)' : pc'[v] = "recording" => v \in Unrecorded(j) /\ v \in Workers
    BY <1>2, <1>4, <1>7 DEF Unrecorded
  <2>2. /\ fails'[j] = fails[j] + 1
        /\ Cardinality(Unrecorded(j)') = Cardinality(Unrecorded(j)) + 1
    BY <1>3, <1>4, <1>7
  <2>3. attempts[j] + Cardinality(Unrecorded(j)') <= fails'[j]
    BY <1>5, <1>6, <2>2
  <2>4. ASSUME NEW v \in Unrecorded(j)', pc'[v] = "recording"
        PROVE  seen[v].attempts + Cardinality(Unrecorded(j)') <= fails'[j]
    <3>1. /\ seen[v].attempts \in Nat
          /\ seen[v].attempts + Cardinality(Unrecorded(j)) <= fails[j]
      BY <1>4, <1>5, <1>6, <2>1, <2>4
    <3> QED
      BY <1>5, <2>2, <3>1
  <2> QED
    BY <2>3, <2>4
<1>8. CASE j # k
  <2>1. Unrecorded(j)' = Unrecorded(j) /\ fails'[j] = fails[j]
    BY <1>2, <1>4, <1>8
  <2>2. \A v \in Unrecorded(j) : v \in Workers
    BY DEF Unrecorded
  <2>3. Cardinality(Unrecorded(j)') = Cardinality(Unrecorded(j))
    BY <2>1
  <2> QED
    BY <1>4, <1>6, <2>1, <2>2, <2>3
<1> QED
    BY <1>7, <1>8

(* A refresh takes the row's count, which is low enough, as the snapshot. *)
LEMMA RefreshCounts ==
    ASSUME TypeOK, LockDiscipline, FailuresCounted, NEW w \in Workers, Refresh(w)
    PROVE  FailuresCounted'
<1>1. cur[w] \in Jobs /\ cur' = cur /\ attempts' = attempts /\ fails' = fails
    BY DEF Refresh, LockDiscipline, history, table
<1>2. \A j \in Jobs : Unrecorded(j)' = Unrecorded(j)
    BY DEF Refresh, Unrecorded, TypeOK
<1>3. /\ seen'[w].attempts = attempts[cur[w]]
      /\ \A v \in Workers \ {w} : seen'[v] = seen[v] /\ pc'[v] = pc[v]
    BY DEF Refresh, TypeOK
<1>4. \A j \in Jobs : \A v \in Unrecorded(j) : v \in Workers /\ cur[v] = j
    BY DEF Unrecorded
<1> QED
    BY <1>1, <1>2, <1>3, <1>4 DEF FailuresCounted

(* A recorded failure leaves the unrecorded ones. *)
LEMMA FailJobCounts ==
    ASSUME TypeOK, LockDiscipline, FailuresCounted, NEW w \in Workers, FailJob(w)
    PROVE  FailuresCounted'
<1>0. cur[w] \in Jobs /\ NoJob \notin Jobs
    BY ConstantsAssumption DEF FailJob, LockDiscipline, ConstantsAssumption
<1>1. PICK k \in Jobs : k = cur[w]
    BY <1>0
<1>2. /\ w \in Unrecorded(k)
      /\ Unrecorded(k)' = Unrecorded(k) \ {w}
      /\ \A j \in Jobs \ {k} : Unrecorded(j)' = Unrecorded(j)
  <2>1. /\ cur[w] = k /\ outcome[w] = "fail" /\ pc[w] = "recording"
        /\ cur'[w] = NoJob
        /\ \A v \in Workers \ {w} : /\ cur'[v] = cur[v]
                                    /\ pc'[v] = pc[v]
                                    /\ outcome'[v] = outcome[v]
    BY <1>1 DEF FailJob, EndOfHandler, TypeOK
  <2>2. \A j \in Jobs : w \notin Unrecorded(j)'
    BY <1>0, <2>1 DEF Unrecorded
  <2>3. w \in Unrecorded(k)
    BY <2>1 DEF Unrecorded
  <2>4. \A j \in Jobs : Unrecorded(j)' = Unrecorded(j) \ {w}
    BY <2>1, <2>2 DEF Unrecorded
  <2>5. \A j \in Jobs \ {k} : w \notin Unrecorded(j)
    BY <2>1 DEF Unrecorded
  <2> QED
    BY <1>1, <2>3, <2>4, <2>5
<1>3. Cardinality(Unrecorded(k)') = Cardinality(Unrecorded(k)) - 1
    BY <1>2, UnrecordedFinite, FS_RemoveElement
<1>4. /\ attempts'[k] = seen[w].attempts + 1
      /\ \A j \in Jobs \ {k} : attempts'[j] = attempts[j]
      /\ fails' = fails
      /\ \A v \in Workers \ {w} : pc'[v] = pc[v] /\ seen'[v] = seen[v]
      /\ pc[w] = "recording" /\ pc'[w] = "idle"
    BY <1>1 DEF FailJob, EndOfHandler, history, TypeOK
<1> SUFFICES ASSUME NEW j \in Jobs
             PROVE  /\ attempts'[j] + Cardinality(Unrecorded(j)') <= fails[j]
                    /\ \A v \in Unrecorded(j)' :
                          pc'[v] = "recording"
                            => seen'[v].attempts + Cardinality(Unrecorded(j)') <= fails[j]
    BY <1>4 DEF FailuresCounted
<1>5. /\ attempts[j] \in Nat /\ fails[j] \in Nat /\ Cardinality(Unrecorded(j)) \in Nat
      /\ \A v \in Workers : seen[v].attempts \in Nat
    BY UnrecordedFinite DEF TypeOK
<1>6. /\ attempts[j] + Cardinality(Unrecorded(j)) <= fails[j]
      /\ \A v \in Unrecorded(j) :
            pc[v] = "recording" => seen[v].attempts + Cardinality(Unrecorded(j)) <= fails[j]
    BY DEF FailuresCounted
<1>7. \A v \in Unrecorded(j) : v \in Workers
    BY DEF Unrecorded
<1>8. CASE j = k
  <2>1. /\ w \in Unrecorded(j)
        /\ Unrecorded(j)' = Unrecorded(j) \ {w}
        /\ Cardinality(Unrecorded(j)') = Cardinality(Unrecorded(j)) - 1
        /\ attempts'[j] = seen[w].attempts + 1
    BY <1>2, <1>3, <1>4, <1>8
  <2>2. attempts'[j] + Cardinality(Unrecorded(j)') <= fails[j]
    BY <1>4, <1>5, <1>6, <1>7, <2>1
  <2>3. ASSUME NEW v \in Unrecorded(j)', pc'[v] = "recording"
        PROVE  seen'[v].attempts + Cardinality(Unrecorded(j)') <= fails[j]
    <3>1. v \in Unrecorded(j) /\ v \in Workers \ {w}
      BY <1>7, <2>1, <2>3
    <3>2. pc[v] = "recording" /\ seen'[v].attempts = seen[v].attempts
      BY <1>4, <2>3, <3>1
    <3> QED
      BY <1>5, <1>6, <2>1, <3>1, <3>2
  <2> QED
    BY <2>2, <2>3
<1>9. CASE j # k
  <2>1. Unrecorded(j)' = Unrecorded(j) /\ attempts'[j] = attempts[j]
    BY <1>2, <1>4, <1>9
  <2>2. w \notin Unrecorded(j)
    BY <1>1, <1>9 DEF Unrecorded
  <2> QED
    BY <1>4, <1>6, <1>7, <2>1, <2>2
<1> QED
    BY <1>8, <1>9

LEMMA CountStep ==
    TypeOK /\ LockDiscipline /\ FailuresCounted /\ [Next]_vars => FailuresCounted'
<1> SUFFICES ASSUME TypeOK, LockDiscipline, FailuresCounted, [Next]_vars
             PROVE  FailuresCounted'
    OBVIOUS
<1> USE DEF table, memory, handler, history
<1>1. ASSUME NEW j \in Jobs, Enqueue(j) PROVE FailuresCounted'
    BY <1>1 DEF Enqueue, FailuresCounted, Unrecorded
<1>2. ASSUME NEW w \in Workers, Claim(w) PROVE FailuresCounted'
  <2>1. PICK k \in Jobs : cur' = [cur EXCEPT ![w] = k]
    BY <1>2 DEF Claim
  <2>2. \A v \in Workers \ {w} : cur'[v] = cur[v] /\ pc'[v] = pc[v]
    BY <1>2, <2>1 DEF Claim, TypeOK
  <2>3. \A j \in Jobs : w \notin Unrecorded(j)'
    BY <1>2 DEF Claim, Unrecorded, TypeOK
  <2> QED
    BY <1>2, <2>2, <2>3, QuietStep DEF Claim
<1>3. ASSUME NEW w \in Workers, IngestDone(w) PROVE FailuresCounted'
  <2>1. \A j \in Jobs : w \notin Unrecorded(j)'
    BY <1>3 DEF IngestDone, Unrecorded, TypeOK
  <2> QED
    BY <1>3, <2>1, QuietStep DEF IngestDone, TypeOK
<1>4. ASSUME NEW w \in Workers, ReadDuplicates(w) PROVE FailuresCounted'
  <2>1. \A j \in Jobs : w \notin Unrecorded(j)'
    BY <1>4 DEF ReadDuplicates, Unrecorded, TypeOK
  <2> QED
    BY <1>4, <2>1, QuietStep DEF ReadDuplicates, TypeOK
<1>5. ASSUME NEW w \in Workers, FlushDuplicate(w) PROVE FailuresCounted'
    BY <1>5 DEF FlushDuplicate, FailuresCounted, Unrecorded
<1>6. ASSUME NEW w \in Workers, CommitMerge(w) PROVE FailuresCounted'
  <2>1. \A j \in Jobs : w \notin Unrecorded(j)'
    BY <1>6 DEF CommitMerge, Unrecorded, TypeOK
  <2> QED
    BY <1>6, <2>1, QuietStep DEF CommitMerge, TypeOK
<1>7. ASSUME NEW w \in Workers, TakeEntityLock(w) PROVE FailuresCounted'
  <2>1. \A j \in Jobs : w \notin Unrecorded(j)'
    BY <1>7 DEF TakeEntityLock, Unrecorded, TypeOK
  <2> QED
    BY <1>7, <2>1, QuietStep DEF TakeEntityLock, TypeOK
<1>8. ASSUME NEW w \in Workers, LockExhausted(w) PROVE FailuresCounted'
  <2>1. \A j \in Jobs : w \notin Unrecorded(j)'
    BY <1>8 DEF LockExhausted, Unrecorded, TypeOK
  <2> QED
    BY <1>8, <2>1, QuietStep DEF LockExhausted, TypeOK
<1>9. ASSUME NEW w \in Workers, SynthesisDone(w) PROVE FailuresCounted'
  <2>1. \A j \in Jobs : w \notin Unrecorded(j)'
    BY <1>9 DEF SynthesisDone, Unrecorded, TypeOK
  <2> QED
    BY <1>9, <2>1, QuietStep DEF SynthesisDone, TypeOK
<1>10. ASSUME NEW w \in Workers, Abort(w) PROVE FailuresCounted'
    BY <1>10, AbortCounts
<1>11. ASSUME NEW w \in Workers, Refresh(w) PROVE FailuresCounted'
    BY <1>11, RefreshCounts
<1>12. ASSUME NEW w \in Workers, ReleaseClaim(w) PROVE FailuresCounted'
  <2>1. \A j \in Jobs : w \notin Unrecorded(j)'
    BY <1>12 DEF ReleaseClaim, EndOfHandler, Unrecorded, TypeOK
  <2>2. attempts' = attempts
    BY <1>12 DEF ReleaseClaim, AttemptsAfterRelease, TypeOK
  <2> QED
    BY <1>12, <2>1, <2>2, QuietStep DEF ReleaseClaim, EndOfHandler, TypeOK
<1>13. ASSUME NEW w \in Workers, FailJob(w) PROVE FailuresCounted'
    BY <1>13, FailJobCounts
<1>14. ASSUME NEW w \in Workers, Die(w) PROVE FailuresCounted'
  <2>1. \A j \in Jobs : w \notin Unrecorded(j)'
    BY <1>14 DEF Die, Unrecorded, TypeOK
  <2> QED
    BY <1>14, <2>1, QuietStep DEF Die, TypeOK
<1>15. ASSUME NEW w \in Workers, Stop(w) PROVE FailuresCounted'
  <2>1. \A j \in Jobs : w \notin Unrecorded(j)'
    BY <1>15 DEF Stop, Unrecorded, TypeOK
  <2> QED
    BY <1>15, <2>1, QuietStep DEF Stop, TypeOK
<1>16. ASSUME NEW w \in Workers, Restart(w) PROVE FailuresCounted'
  <2>1. \A j \in Jobs : w \notin Unrecorded(j)'
    BY <1>16 DEF Restart, Unrecorded, TypeOK
  <2> QED
    BY <1>16, <2>1, QuietStep DEF Restart, TypeOK
<1>17. CASE UNCHANGED vars
    BY <1>17 DEF vars, FailuresCounted, Unrecorded
<1> QED
    BY <1>1, <1>2, <1>3, <1>4, <1>5, <1>6, <1>7, <1>8, <1>9, <1>10, <1>11, <1>12,
       <1>13, <1>14, <1>15, <1>16, <1>17 DEF Next, WorkerStep, Crash, DeadlockVictim

LEMMA CountInit == Init => FailuresCounted /\ NoEarlyGiveUp
<1> SUFFICES ASSUME Init PROVE FailuresCounted /\ NoEarlyGiveUp
    OBVIOUS
<1>1. \A j \in Jobs : Unrecorded(j) = {}
    BY DEF Init, Unrecorded
<1>2. \A j \in Jobs : attempts[j] = 0 /\ fails[j] = 0 /\ status[j] # "failed"
    BY DEF Init
<1> QED
    BY <1>1, <1>2, FS_EmptySet DEF FailuresCounted, NoEarlyGiveUp

(* Only fail_job writes "failed", and only for a job that has failed often   *)
(* enough: the failure being recorded is itself still counted as unrecorded. *)
LEMMA GiveUpStep ==
    TypeOK /\ LockDiscipline /\ FailuresCounted /\ NoEarlyGiveUp /\ [Next]_vars
        => NoEarlyGiveUp'
<1> SUFFICES ASSUME TypeOK, LockDiscipline, FailuresCounted, NoEarlyGiveUp, [Next]_vars
             PROVE  NoEarlyGiveUp'
    OBVIOUS
<1> USE DEF table, memory, handler, history
<1>0. TypeOK'
    BY TypeStep DEF HoldsJob, LockDiscipline
<1>1. \A j \in Jobs : fails[j] \in Nat /\ fails'[j] \in Nat
    BY <1>0 DEF TypeOK
<1>2. MaxRetries \in Nat
    BY ConstantsAssumption DEF ConstantsAssumption
<1>3. ASSUME \A j \in Jobs : status'[j] = "failed" => status[j] = "failed",
             \A j \in Jobs : fails[j] <= fails'[j]
      PROVE  NoEarlyGiveUp'
    BY <1>1, <1>2, <1>3 DEF NoEarlyGiveUp
<1>4. ASSUME fails' = fails PROVE \A j \in Jobs : fails[j] <= fails'[j]
    BY <1>1, <1>4
<1>5. ASSUME NEW j \in Jobs, Enqueue(j) PROVE NoEarlyGiveUp'
  <2>1. \A k \in Jobs : status'[k] = "failed" => status[k] = "failed"
    BY <1>5 DEF Enqueue, TypeOK
  <2> QED
    BY <1>3, <1>4, <1>5, <2>1 DEF Enqueue
<1>6. ASSUME NEW w \in Workers, IngestDone(w) PROVE NoEarlyGiveUp'
  <2>1. \A k \in Jobs : status'[k] = "failed" => status[k] = "failed"
    BY <1>6 DEF IngestDone, StatusAfterIngest, TypeOK
  <2> QED
    BY <1>3, <1>4, <1>6, <2>1 DEF IngestDone
<1>7. ASSUME NEW w \in Workers, CommitMerge(w) PROVE NoEarlyGiveUp'
  <2>1. \A k \in Jobs : status'[k] = "failed" => status[k] = "failed"
    BY <1>7 DEF CommitMerge, StatusAfterMerge, TypeOK
  <2> QED
    BY <1>3, <1>4, <1>7, <2>1 DEF CommitMerge
<1>8. ASSUME NEW w \in Workers, SynthesisDone(w) PROVE NoEarlyGiveUp'
  <2>1. \A k \in Jobs : status'[k] = "failed" => status[k] = "failed"
    BY <1>8 DEF SynthesisDone, TypeOK
  <2> QED
    BY <1>3, <1>4, <1>8, <2>1 DEF SynthesisDone
<1>9. ASSUME NEW w \in Workers, Abort(w) PROVE NoEarlyGiveUp'
  <2>1. \A k \in Jobs : fails[k] <= fails'[k]
    BY <1>1, <1>9 DEF Abort, TypeOK
  <2> QED
    BY <1>3, <1>9, <2>1 DEF Abort
<1>10. ASSUME NEW w \in Workers, ReleaseClaim(w) PROVE NoEarlyGiveUp'
  <2>1. \A k \in Jobs : status'[k] = "failed" => status[k] = "failed"
    BY <1>10 DEF ReleaseClaim, ReleasedStatus, WriteBack, TypeOK
  <2> QED
    BY <1>3, <1>4, <1>10, <2>1 DEF ReleaseClaim
<1>11. ASSUME NEW w \in Workers, FailJob(w) PROVE NoEarlyGiveUp'
  <2>1. PICK k \in Jobs : k = cur[w]
    BY <1>11 DEF FailJob, LockDiscipline
  <2>2. /\ w \in Unrecorded(k)
        /\ seen[w].attempts + Cardinality(Unrecorded(k)) <= fails[k]
    BY <1>11, <2>1 DEF FailJob, FailuresCounted, Unrecorded
  <2>3. Cardinality(Unrecorded(k)) \in Nat /\ Cardinality(Unrecorded(k)) # 0
    BY <2>2, UnrecordedFinite, FS_EmptySet
  <2>4. seen[w].attempts \in Nat
    BY DEF TypeOK
  <2>5. seen[w].attempts + 1 <= fails[k]
    BY <1>1, <2>2, <2>3, <2>4
  <2>6. \A j \in Jobs : status'[j] = "failed" /\ status[j] # "failed"
                          => j = k /\ ~ RetryAllowed(seen[w].attempts + 1)
    BY <1>11, <2>1 DEF FailJob, WriteBack, TypeOK
  <2>7. fails' = fails
    BY <1>11 DEF FailJob
  <2> QED
    BY <1>1, <1>2, <2>4, <2>5, <2>6, <2>7 DEF NoEarlyGiveUp, RetryAllowed
<1>12. ASSUME NEW w \in Workers, Die(w) PROVE NoEarlyGiveUp'
    BY <1>3, <1>4, <1>12 DEF Die
<1>13. ASSUME NEW w \in Workers,
              \/ Claim(w) \/ ReadDuplicates(w) \/ FlushDuplicate(w)
              \/ TakeEntityLock(w) \/ LockExhausted(w) \/ Refresh(w)
              \/ Stop(w) \/ Restart(w)
       PROVE  NoEarlyGiveUp'
    BY <1>3, <1>4, <1>13 DEF Claim, ReadDuplicates, FlushDuplicate, TakeEntityLock,
       LockExhausted, Refresh, Stop, Restart
<1>14. CASE UNCHANGED vars
    BY <1>3, <1>4, <1>14 DEF vars
<1> QED
    BY <1>5, <1>6, <1>7, <1>8, <1>9, <1>10, <1>11, <1>12, <1>13, <1>14
    DEF Next, WorkerStep, Crash, DeadlockVictim

(* The row and the snapshots about to be written back never count more       *)
(* failures than there were, so a job is marked failed only after            *)
(* max_retries + 1 failed executions, however the bookkeeping of several     *)
(* workers on the same row interleaves.                                      *)
THEOREM RetriesNotOverspent == Spec => [](FailuresCounted /\ NoEarlyGiveUp)
<1>1. TypeOK /\ LockDiscipline /\ FailuresCounted /\ NoEarlyGiveUp /\ [Next]_vars
        => (FailuresCounted /\ NoEarlyGiveUp)'
    BY CountStep, GiveUpStep
<1> QED
    BY <1>1, CountInit, QueueDiscipline, PTL DEF Spec

-----------------------------------------------------------------------------
(* Counting completions *)

(* An ingest job in a handler still reads "pending": its claim is not        *)
(* committed, and the row is locked.  What is merged away, and what is       *)
(* released, is never an ingest job.                                         *)
IngestInv ==
    /\ \A w \in Workers :
        /\ pc[w] = "claimed" /\ Kind[cur[w]] = "ingest" => status[cur[w]] = "pending"
        /\ \A k \in dups[w] : Kind[k] # "ingest"
        /\ pc[w] \in {"erring", "recording"} /\ outcome[w] = "release"
             => Kind[cur[w]] # "ingest"
    /\ \A j \in Jobs : Kind[j] # "ingest" => done[j] = 0

LEMMA IngestInit == Init => IngestInv
BY DEF Init, IngestInv

LEMMA IngestStep == TypeOK /\ LockDiscipline /\ IngestInv /\ [Next]_vars => IngestInv'
<1> SUFFICES ASSUME TypeOK, LockDiscipline, IngestInv, [Next]_vars PROVE IngestInv'
    OBVIOUS
<1> USE DEF IngestInv, table, memory, handler, history
<1>0. NoWorker \notin Workers /\ NoJob \notin Jobs
    BY ConstantsAssumption DEF ConstantsAssumption
(* Nobody else's transaction, and no UPDATE of its own, reaches the row.     *)
<1>1. ASSUME NEW v \in Workers, pc[v] = "claimed"
      PROVE  /\ cur[v] \in Jobs /\ ~RowFree(cur[v])
             /\ \A w \in Workers : pc[w] \in Uncommitted /\ cur[w] = cur[v] => w = v
    BY <1>0, <1>1 DEF LockDiscipline, Uncommitted, RowFree
<1>2. ASSUME NEW j \in Jobs, Enqueue(j) PROVE IngestInv'
    BY <1>1, <1>2 DEF Enqueue, TypeOK
<1>3. ASSUME NEW w \in Workers, Claim(w) PROVE IngestInv'
  <2>1. PICK j \in Jobs : Claimable(j) /\ cur' = [cur EXCEPT ![w] = j]
    BY <1>3 DEF Claim
  <2> QED
    BY <1>3, <2>1 DEF Claim, Claimable, TypeOK
<1>4. ASSUME NEW w \in Workers, IngestDone(w) PROVE IngestInv'
  <2>1. /\ cur[w] \in Jobs /\ Kind[cur[w]] = "ingest" /\ pc[w] = "claimed"
        /\ done' = [done EXCEPT ![cur[w]] = @ + 1]
        /\ pc' = [pc EXCEPT ![w] = "idle"] /\ cur' = [cur EXCEPT ![w] = NoJob]
        /\ dups' = dups /\ outcome' = outcome
    BY <1>4, <1>1 DEF IngestDone
  <2>2. PICK new \in SUBSET {k \in Jobs : Origin[k] = cur[w] /\ status[k] = "absent"} :
            status' = StatusAfterIngest(w, new)
    BY <1>4 DEF IngestDone
  <2>3. \A v \in Workers \ {w} : pc[v] = "claimed" => cur[v] \in Jobs /\ cur[v] # cur[w]
    BY <1>1, <2>1 DEF Uncommitted
  <2>4. \A v \in Workers \ {w} : pc[v] = "claimed" /\ Kind[cur[v]] = "ingest"
                                    => status'[cur[v]] = "pending"
    BY <2>2, <2>3 DEF StatusAfterIngest
  <2>5. \A j \in Jobs : Kind[j] # "ingest" => done'[j] = 0
    BY <2>1 DEF TypeOK
  <2> QED
    BY <2>1, <2>4, <2>5 DEF TypeOK
<1>5. ASSUME NEW w \in Workers, ReadDuplicates(w) PROVE IngestInv'
  <2>1. \A k \in Duplicates(cur[w]) : Kind[k] # "ingest"
    BY <1>5 DEF ReadDuplicates, Duplicates
  <2> QED
    BY <1>5, <2>1 DEF ReadDuplicates, TypeOK
<1>6. ASSUME NEW w \in Workers, FlushDuplicate(w) PROVE IngestInv'
    BY <1>6 DEF FlushDuplicate, TypeOK
<1>7. ASSUME NEW w \in Workers, CommitMerge(w) PROVE IngestInv'
  <2>1. Kind[cur[w]] # "ingest" /\ cur[w] \in Jobs
    BY <1>7 DEF CommitMerge, LockDiscipline
  <2>2. \A j \in Jobs : Kind[j] = "ingest" => status'[j] = status[j]
    BY <1>7, <2>1 DEF CommitMerge, StatusAfterMerge
  <2> QED
    BY <1>1, <1>7, <2>2 DEF CommitMerge, TypeOK
<1>8. ASSUME NEW w \in Workers, TakeEntityLock(w) PROVE IngestInv'
    BY <1>8 DEF TakeEntityLock, TypeOK
<1>9. ASSUME NEW w \in Workers, LockExhausted(w) PROVE IngestInv'
    BY <1>9 DEF LockExhausted, LockDiscipline, TypeOK
<1>10. ASSUME NEW w \in Workers, SynthesisDone(w) PROVE IngestInv'
    BY <1>1, <1>10 DEF SynthesisDone, LockDiscipline, TypeOK
<1>11. ASSUME NEW w \in Workers, Abort(w) PROVE IngestInv'
    BY <1>11 DEF Abort, TypeOK
<1>12. ASSUME NEW w \in Workers, Refresh(w) PROVE IngestInv'
    BY <1>12 DEF Refresh, TypeOK
<1>13. ASSUME NEW w \in Workers, ReleaseClaim(w) PROVE IngestInv'
    BY <1>1, <1>13 DEF ReleaseClaim, EndOfHandler, LockDiscipline, TypeOK
<1>14. ASSUME NEW w \in Workers, FailJob(w) PROVE IngestInv'
    BY <1>1, <1>14 DEF FailJob, EndOfHandler, LockDiscipline, TypeOK
<1>15. ASSUME NEW w \in Workers, Die(w) PROVE IngestInv'
    BY <1>15 DEF Die, TypeOK
<1>16. ASSUME NEW w \in Workers, Stop(w) \/ Restart(w) PROVE IngestInv'
    BY <1>16 DEF Stop, Restart, TypeOK
<1>17. CASE UNCHANGED vars
    BY <1>17 DEF vars
<1> QED
    BY <1>2, <1>3, <1>4, <1>5, <1>6, <1>7, <1>8, <1>9, <1>10, <1>11, <1>12, <1>13,
       <1>14, <1>15, <1>16, <1>17 DEF Next, WorkerStep, Crash, DeadlockVictim

Completed(j) == IF status[j] = "completed" THEN 1 ELSE 0

(* A step that leaves the counts as they are, and an ingest job completed,   *)
(* may only take failures out of the unrecorded ones.  For a synthesis job   *)
(* FailuresCounted is enough.                                                *)
LEMMA QuietCompletion ==
    ASSUME TypeOK, TypeOK', FailuresCounted', CompletedOncePerFailure, IngestInv',
           fails' = fails, done' = done,
           \A j \in Jobs : Kind[j] = "ingest" =>
                /\ Unrecorded(j)' \subseteq Unrecorded(j)
                /\ status[j] = "completed" => status'[j] = "completed"
    PROVE  CompletedOncePerFailure'
<1> SUFFICES ASSUME NEW j \in Jobs
             PROVE  done'[j] + Cardinality(Unrecorded(j)') <= fails'[j] + Completed(j)'
    BY DEF CompletedOncePerFailure, Completed
<1>1. /\ IsFiniteSet(Unrecorded(j)) /\ Cardinality(Unrecorded(j)) \in Nat
      /\ Cardinality(Unrecorded(j)') \in Nat
      /\ fails[j] \in Nat /\ done[j] \in Nat /\ attempts'[j] \in Nat
      /\ Completed(j) \in {0, 1} /\ Completed(j)' \in {0, 1}
    BY UnrecordedFinite, UnrecordedFiniteNext DEF TypeOK, Completed
<1>2. CASE Kind[j] = "ingest"
  <2>1. Cardinality(Unrecorded(j)') <= Cardinality(Unrecorded(j))
    BY <1>1, <1>2, FS_Subset
  <2>2. Completed(j) <= Completed(j)'
    BY <1>2 DEF Completed
  <2>3. done[j] + Cardinality(Unrecorded(j)) <= fails[j] + Completed(j)
    BY DEF CompletedOncePerFailure, Completed
  <2> QED
    BY <1>1, <2>1, <2>2, <2>3
<1>3. CASE Kind[j] # "ingest"
  <2>1. done'[j] = 0 /\ attempts'[j] + Cardinality(Unrecorded(j)') <= fails'[j]
    BY <1>3 DEF IngestInv, FailuresCounted
  <2> QED
    BY <1>1, <2>1
<1> QED
    BY <1>2, <1>3

LEMMA CompletionStep ==
    ASSUME TypeOK, TypeOK', LockDiscipline, FailuresCounted', IngestInv, IngestInv',
           CompletedOncePerFailure, [Next]_vars
    PROVE  CompletedOncePerFailure'
<1> USE DEF table, memory, handler, history
<1>0. NoWorker \notin Workers /\ NoJob \notin Jobs
    BY ConstantsAssumption DEF ConstantsAssumption
<1>1. ASSUME NEW j \in Jobs
      PROVE  /\ IsFiniteSet(Unrecorded(j)) /\ Cardinality(Unrecorded(j)) \in Nat
             /\ Cardinality(Unrecorded(j)') \in Nat
             /\ fails[j] \in Nat /\ done[j] \in Nat
             /\ Completed(j) \in {0, 1} /\ Completed(j)' \in {0, 1}
             /\ done[j] + Cardinality(Unrecorded(j)) <= fails[j] + Completed(j)
    BY UnrecordedFinite, UnrecordedFiniteNext
    DEF TypeOK, Completed, CompletedOncePerFailure
(* The workers whose failures count are the same, but perhaps for w.         *)
<1>2. ASSUME NEW w \in Workers, NEW j \in Jobs,
             \A v \in Workers \ {w} : /\ cur'[v] = cur[v] /\ pc'[v] = pc[v]
                                      /\ outcome'[v] = outcome[v],
             w \notin Unrecorded(j)'
      PROVE  Unrecorded(j)' \subseteq Unrecorded(j)
    BY <1>2 DEF Unrecorded
<1>3. ASSUME NEW j \in Jobs, Enqueue(j) PROVE CompletedOncePerFailure'
  <2>1. \A k \in Jobs : Unrecorded(k)' = Unrecorded(k)
    BY <1>3 DEF Enqueue, Unrecorded
  <2> QED
    BY <1>3, <2>1, QuietCompletion DEF Enqueue, TypeOK
<1>4. ASSUME NEW w \in Workers, IngestDone(w) PROVE CompletedOncePerFailure'
  <2>1. /\ cur[w] \in Jobs /\ status[cur[w]] = "pending"
        /\ done' = [done EXCEPT ![cur[w]] = @ + 1] /\ fails' = fails
        /\ pc' = [pc EXCEPT ![w] = "idle"] /\ cur' = [cur EXCEPT ![w] = NoJob]
        /\ outcome' = outcome
    BY <1>4 DEF IngestDone, IngestInv, LockDiscipline
  <2>2. PICK new \in SUBSET {k \in Jobs : Origin[k] = cur[w] /\ status[k] = "absent"} :
            status' = StatusAfterIngest(w, new)
    BY <1>4 DEF IngestDone
  <2> SUFFICES ASSUME NEW j \in Jobs
               PROVE  done'[j] + Cardinality(Unrecorded(j)') <= fails[j] + Completed(j)'
    BY <2>1 DEF CompletedOncePerFailure, Completed
  <2>3. Unrecorded(j)' \subseteq Unrecorded(j)
    BY <1>0, <2>1 DEF Unrecorded, TypeOK
  <2>4. Cardinality(Unrecorded(j)') <= Cardinality(Unrecorded(j))
    BY <1>1, <2>3, FS_Subset
  <2>5. CASE j = cur[w]
    <3>1. Completed(j) = 0 /\ Completed(j)' = 1 /\ done'[j] = done[j] + 1
      BY <2>1, <2>2, <2>5 DEF Completed, StatusAfterIngest, TypeOK
    <3> QED
      BY <1>1, <2>4, <3>1
  <2>6. CASE j # cur[w]
    <3>1. Completed(j)' = Completed(j) /\ done'[j] = done[j]
      BY <2>1, <2>2, <2>6 DEF Completed, StatusAfterIngest, TypeOK
    <3> QED
      BY <1>1, <2>4, <3>1
  <2> QED
    BY <2>5, <2>6
<1>5. ASSUME NEW w \in Workers, Abort(w) PROVE CompletedOncePerFailure'
  <2>1. /\ cur[w] \in Jobs /\ pc[w] \in Executing
        /\ fails' = [fails EXCEPT ![cur[w]] = @ + 1] /\ done' = done /\ status' = status
        /\ pc' = [pc EXCEPT ![w] = "erring"] /\ outcome' = [outcome EXCEPT ![w] = "fail"]
        /\ cur' = cur
    BY <1>5 DEF Abort, LockDiscipline, Executing
  <2> SUFFICES ASSUME NEW j \in Jobs
               PROVE  done[j] + Cardinality(Unrecorded(j)') <= fails'[j] + Completed(j)
    BY <2>1 DEF CompletedOncePerFailure, Completed
  <2>2. CASE j = cur[w]
    <3>1. w \notin Unrecorded(j) /\ Unrecorded(j)' = Unrecorded(j) \cup {w}
      BY <2>1, <2>2 DEF Executing, Unrecorded, TypeOK
    <3>2. Cardinality(Unrecorded(j)') = Cardinality(Unrecorded(j)) + 1
      BY <1>1, <3>1, FS_AddElement
    <3>3. fails'[j] = fails[j] + 1
      BY <2>1, <2>2 DEF TypeOK
    <3> QED
      BY <1>1, <3>2, <3>3
  <2>3. CASE j # cur[w]
    <3>1. Unrecorded(j)' = Unrecorded(j) /\ fails'[j] = fails[j]
      BY <2>1, <2>3 DEF Unrecorded, TypeOK
    <3>2. Cardinality(Unrecorded(j)') = Cardinality(Unrecorded(j))
      BY <3>1
    <3> QED
      BY <1>1, <3>1, <3>2
  <2> QED
    BY <2>2, <2>3
<1>6. ASSUME NEW w \in Workers, FailJob(w) PROVE CompletedOncePerFailure'
  <2>1. /\ cur[w] \in Jobs /\ pc[w] = "recording" /\ outcome[w] = "fail"
        /\ fails' = fails /\ done' = done
        /\ pc' = [pc EXCEPT ![w] = "idle"] /\ outcome' = [outcome EXCEPT ![w] = "none"]
        /\ cur' = [cur EXCEPT ![w] = NoJob]
        /\ \A k \in Jobs : k # cur[w] => status'[k] = status[k]
    BY <1>6 DEF FailJob, EndOfHandler, LockDiscipline, TypeOK
  <2> SUFFICES ASSUME NEW j \in Jobs
               PROVE  done[j] + Cardinality(Unrecorded(j)') <= fails[j] + Completed(j)'
    BY <2>1 DEF CompletedOncePerFailure, Completed
  <2>2. CASE j = cur[w]
    <3>1. w \in Unrecorded(j) /\ Unrecorded(j)' = Unrecorded(j) \ {w}
      BY <1>0, <2>1, <2>2 DEF Unrecorded, TypeOK
    <3>2. Cardinality(Unrecorded(j)') = Cardinality(Unrecorded(j)) - 1
      BY <1>1, <3>1, FS_RemoveElement
    <3> QED
      BY <1>1, <3>2
  <2>3. CASE j # cur[w]
    <3>1. Unrecorded(j)' = Unrecorded(j)
      BY <1>0, <2>1, <2>3 DEF Unrecorded, TypeOK
    <3>2. Completed(j)' = Completed(j) /\ Cardinality(Unrecorded(j)') = Cardinality(Unrecorded(j))
      BY <2>1, <2>3, <3>1 DEF Completed
    <3> QED
      BY <1>1, <3>2
  <2> QED
    BY <2>2, <2>3
(* A step of w by which no failure of w's is unrecorded that was not before. *)
<1>7. ASSUME NEW w \in Workers,
             \A v \in Workers \ {w} : /\ cur'[v] = cur[v] /\ pc'[v] = pc[v]
                                      /\ outcome'[v] = outcome[v],
             \A j \in Jobs : w \notin Unrecorded(j)',
             fails' = fails, done' = done,
             \A j \in Jobs : Kind[j] = "ingest" => status'[j] = status[j]
      PROVE  CompletedOncePerFailure'
    BY <1>2, <1>7, QuietCompletion
<1>8. ASSUME NEW w \in Workers, Claim(w) PROVE CompletedOncePerFailure'
  <2>1. PICK k \in Jobs : cur' = [cur EXCEPT ![w] = k]
    BY <1>8 DEF Claim
  <2>2. /\ \A v \in Workers \ {w} : cur'[v] = cur[v] /\ pc'[v] = pc[v]
        /\ \A j \in Jobs : w \notin Unrecorded(j)'
    BY <1>8, <2>1 DEF Claim, Unrecorded, TypeOK
  <2> QED
    BY <1>7, <1>8, <2>2 DEF Claim
<1>9. ASSUME NEW w \in Workers, ReadDuplicates(w) \/ TakeEntityLock(w) PROVE CompletedOncePerFailure'
  <2>1. \A j \in Jobs : w \notin Unrecorded(j)'
    BY <1>9 DEF ReadDuplicates, TakeEntityLock, Unrecorded, TypeOK
  <2> QED
    BY <1>7, <1>9, <2>1 DEF ReadDuplicates, TakeEntityLock, TypeOK
<1>10. ASSUME NEW w \in Workers, LockExhausted(w) PROVE CompletedOncePerFailure'
  <2>1. \A j \in Jobs : w \notin Unrecorded(j)'
    BY <1>10 DEF LockExhausted, Unrecorded, TypeOK
  <2> QED
    BY <1>7, <1>10, <2>1 DEF LockExhausted, TypeOK
<1>11. ASSUME NEW w \in Workers, CommitMerge(w) PROVE CompletedOncePerFailure'
  <2>1. Kind[cur[w]] # "ingest" /\ \A j \in Jobs : w \notin Unrecorded(j)'
    BY <1>11 DEF CommitMerge, LockDiscipline, Unrecorded, TypeOK
  <2>2. \A j \in Jobs : Kind[j] = "ingest" => status'[j] = status[j]
    BY <1>11, <2>1 DEF CommitMerge, StatusAfterMerge, IngestInv
  <2> QED
    BY <1>7, <1>11, <2>1, <2>2 DEF CommitMerge, TypeOK
<1>12. ASSUME NEW w \in Workers, SynthesisDone(w) PROVE CompletedOncePerFailure'
  <2>1. Kind[cur[w]] # "ingest" /\ cur[w] \in Jobs /\ \A j \in Jobs : w \notin Unrecorded(j)'
    BY <1>12 DEF SynthesisDone, LockDiscipline, Unrecorded, TypeOK
  <2>2. \A j \in Jobs : Kind[j] = "ingest" => status'[j] = status[j]
    BY <1>12, <2>1 DEF SynthesisDone, TypeOK
  <2> QED
    BY <1>7, <1>12, <2>1, <2>2 DEF SynthesisDone, TypeOK
<1>13. ASSUME NEW w \in Workers, ReleaseClaim(w) PROVE CompletedOncePerFailure'
  <2>1. Kind[cur[w]] # "ingest" /\ cur[w] \in Jobs /\ \A j \in Jobs : w \notin Unrecorded(j)'
    BY <1>13 DEF ReleaseClaim, EndOfHandler, LockDiscipline, IngestInv, Unrecorded, TypeOK
  <2>2. \A j \in Jobs : Kind[j] = "ingest" => status'[j] = status[j]
    BY <1>13, <2>1 DEF ReleaseClaim, TypeOK
  <2> QED
    BY <1>7, <1>13, <2>1, <2>2 DEF ReleaseClaim, EndOfHandler, TypeOK
<1>14. ASSUME NEW w \in Workers, Die(w) PROVE CompletedOncePerFailure'
  <2>1. \A j \in Jobs : w \notin Unrecorded(j)'
    BY <1>14 DEF Die, Unrecorded, TypeOK
  <2> QED
    BY <1>7, <1>14, <2>1 DEF Die, TypeOK
<1>15. ASSUME NEW w \in Workers, Stop(w) \/ Restart(w) PROVE CompletedOncePerFailure'
  <2>1. \A j \in Jobs : w \notin Unrecorded(j)'
    BY <1>15 DEF Stop, Restart, Unrecorded, TypeOK
  <2> QED
    BY <1>7, <1>15, <2>1 DEF Stop, Restart, TypeOK
<1>16. ASSUME NEW w \in Workers, FlushDuplicate(w) \/ Refresh(w) PROVE CompletedOncePerFailure'
  <2>1. \A j \in Jobs : Unrecorded(j)' = Unrecorded(j)
    BY <1>16 DEF FlushDuplicate, Refresh, Unrecorded, TypeOK
  <2> QED
    BY <1>16, <2>1, QuietCompletion DEF FlushDuplicate, Refresh
<1>17. CASE UNCHANGED vars
  <2>1. \A j \in Jobs : Unrecorded(j)' = Unrecorded(j)
    BY <1>17 DEF vars, Unrecorded
  <2> QED
    BY <1>17, <2>1, QuietCompletion DEF vars
<1> QED
    BY <1>3, <1>4, <1>5, <1>6, <1>8, <1>9, <1>10, <1>11, <1>12, <1>13, <1>14, <1>15, <1>16,
       <1>17 DEF Next, WorkerStep, Crash, DeadlockVictim

LEMMA CompletionInit == Init => CompletedOncePerFailure
<1> SUFFICES ASSUME Init PROVE CompletedOncePerFailure
    OBVIOUS
<1>1. \A j \in Jobs : Unrecorded(j) = {} /\ done[j] = 0 /\ fails[j] = 0
    BY DEF Init, Unrecorded
<1> QED
    BY <1>1, FS_EmptySet DEF CompletedOncePerFailure

(* An ingest job is carried out once, and once more at most for every failed *)
(* execution whose verdict has been given, for any number of workers that    *)
(* fail, roll back, refresh and write back over each other.                  *)
THEOREM IngestNotRepeated == Spec => []CompletedOncePerFailure
<1>1. TypeOK /\ LockDiscipline /\ [Next]_vars => (TypeOK /\ LockDiscipline)'
    BY TypeStep, LockStep DEF HoldsJob, LockDiscipline
<1>2. TypeOK /\ LockDiscipline /\ FailuresCounted /\ IngestInv /\ CompletedOncePerFailure
      /\ [Next]_vars
        => (FailuresCounted /\ IngestInv /\ CompletedOncePerFailure)'
  <2> SUFFICES ASSUME TypeOK, LockDiscipline, FailuresCounted, IngestInv,
                      CompletedOncePerFailure, [Next]_vars
               PROVE  FailuresCounted' /\ IngestInv' /\ CompletedOncePerFailure'
      OBVIOUS
  <2>1. TypeOK' /\ FailuresCounted' /\ IngestInv'
    BY <1>1, CountStep, IngestStep
  <2>2. CompletedOncePerFailure'
    BY <2>1, CompletionStep
  <2> QED
    BY <2>1, <2>2
<1> QED
    BY <1>2, CountInit, IngestInit, CompletionInit, QueueDiscipline, PTL DEF Spec

-----------------------------------------------------------------------------
(* Who holds a job in progress *)

(* w has committed its claim of j, and has yet to write what became of it.   *)
WillSettle(w, j) ==
    /\ cur[w] = j
    /\ \/ pc[w] \in {"locking", "writing", "erring"}
       \/ pc[w] = "recording" /\ seen[w].status = "processing"

Held == restarts = 0 =>
            \A j \in Jobs : status[j] = "processing" => \E w \in Workers : WillSettle(w, j)

(* A step of w keeps the jobs that others hold, if it makes none of them     *)
(* "processing" and leaves none of its own so.                               *)
LEMMA HeldByOthers ==
    ASSUME Held, NEW w \in Workers, restarts' = restarts,
           \A v \in Workers \ {w} : cur'[v] = cur[v] /\ pc'[v] = pc[v] /\ seen'[v] = seen[v],
           \A j \in Jobs : status'[j] = "processing" =>
                \/ WillSettle(w, j)'
                \/ status[j] = "processing" /\ ~WillSettle(w, j)
    PROVE  Held'
<1> SUFFICES ASSUME restarts = 0, NEW j \in Jobs, status'[j] = "processing", ~WillSettle(w, j)'
             PROVE  \E v \in Workers : WillSettle(v, j)'
    BY DEF Held
<1>1. PICK v \in Workers : WillSettle(v, j) /\ v # w
    BY DEF Held
<1> QED
    BY <1>1 DEF WillSettle

LEMMA HeldStep == TypeOK /\ LockDiscipline /\ Held /\ [Next]_vars => Held'
<1> SUFFICES ASSUME TypeOK, LockDiscipline, Held, [Next]_vars PROVE Held'
    OBVIOUS
<1> USE DEF table, memory, handler, history
<1>0. NoJob \notin Jobs
    BY ConstantsAssumption DEF ConstantsAssumption
<1>1. ASSUME NEW j \in Jobs, Enqueue(j) PROVE Held'
    BY <1>1 DEF Enqueue, Held, WillSettle, TypeOK
<1>2. ASSUME NEW w \in Workers, Claim(w) PROVE Held'
  <2>1. \A j \in Jobs : ~WillSettle(w, j)
    BY <1>2 DEF Claim, WillSettle
  <2> QED
    BY <1>2, <2>1, HeldByOthers DEF Claim, TypeOK
<1>3. ASSUME NEW w \in Workers, IngestDone(w) PROVE Held'
  <2>1. \A j \in Jobs : ~WillSettle(w, j)
    BY <1>3 DEF IngestDone, WillSettle
  <2>2. \A j \in Jobs : status'[j] = "processing" => status[j] = "processing"
    BY <1>3 DEF IngestDone, StatusAfterIngest
  <2> QED
    BY <1>3, <2>1, <2>2, HeldByOthers DEF IngestDone, StatusAfterIngest, TypeOK
<1>4. ASSUME NEW w \in Workers, ReadDuplicates(w) PROVE Held'
  <2>1. \A j \in Jobs : ~WillSettle(w, j)
    BY <1>4 DEF ReadDuplicates, WillSettle
  <2> QED
    BY <1>4, <2>1, HeldByOthers DEF ReadDuplicates, TypeOK
<1>5. ASSUME NEW w \in Workers, FlushDuplicate(w) PROVE Held'
    BY <1>5 DEF FlushDuplicate, Held, WillSettle
<1>6. ASSUME NEW w \in Workers, CommitMerge(w) PROVE Held'
  <2>1. \A j \in Jobs : ~WillSettle(w, j)
    BY <1>6 DEF CommitMerge, WillSettle
  <2>2. ASSUME NEW j \in Jobs, status'[j] = "processing"
        PROVE  WillSettle(w, j)' \/ status[j] = "processing"
    BY <1>6, <2>2 DEF CommitMerge, StatusAfterMerge, WillSettle, TypeOK
  <2> QED
    BY <1>6, <2>1, <2>2, HeldByOthers DEF CommitMerge, TypeOK
<1>7. ASSUME NEW w \in Workers, TakeEntityLock(w) PROVE Held'
    BY <1>7 DEF TakeEntityLock, Held, WillSettle, TypeOK
<1>8. ASSUME NEW w \in Workers, LockExhausted(w) PROVE Held'
    BY <1>8 DEF LockExhausted, Held, WillSettle, TypeOK
<1>9. ASSUME NEW w \in Workers, SynthesisDone(w) PROVE Held'
  <2>1. \A j \in Jobs : status'[j] = "processing" => status[j] = "processing" /\ ~WillSettle(w, j)
    BY <1>9 DEF SynthesisDone, WillSettle, TypeOK
  <2> QED
    BY <1>9, <2>1, HeldByOthers DEF SynthesisDone, TypeOK
<1>10. ASSUME NEW w \in Workers, Abort(w) PROVE Held'
    BY <1>10 DEF Abort, Held, WillSettle, TypeOK
<1>11. ASSUME NEW w \in Workers, Refresh(w) PROVE Held'
  <2>1. ASSUME NEW j \in Jobs, status'[j] = "processing"
        PROVE  WillSettle(w, j)' \/ (status[j] = "processing" /\ ~WillSettle(w, j))
    BY <1>11, <2>1 DEF Refresh, WillSettle, TypeOK
  <2> QED
    BY <1>11, <2>1, HeldByOthers DEF Refresh, TypeOK
<1>12. ASSUME NEW w \in Workers, ReleaseClaim(w) PROVE Held'
  <2>1. \A j \in Jobs : status'[j] = "processing" => status[j] = "processing" /\ ~WillSettle(w, j)
    BY <1>12 DEF ReleaseClaim, ReleasedStatus, WriteBack, WillSettle, TypeOK
  <2> QED
    BY <1>12, <2>1, HeldByOthers DEF ReleaseClaim, EndOfHandler, TypeOK
<1>13. ASSUME NEW w \in Workers, FailJob(w) PROVE Held'
  <2>1. \A j \in Jobs : status'[j] = "processing" => status[j] = "processing" /\ ~WillSettle(w, j)
    BY <1>13 DEF FailJob, WriteBack, WillSettle, TypeOK
  <2> QED
    BY <1>13, <2>1, HeldByOthers DEF FailJob, EndOfHandler, TypeOK
<1>14. ASSUME NEW w \in Workers, Crash(w) \/ Stop(w) PROVE Held'
  <2>1. restarts' # 0
    BY <1>14 DEF Crash, Stop, TypeOK
  <2> QED
    BY <2>1 DEF Held
<1>15. ASSUME NEW w \in Workers, Restart(w) PROVE Held'
    BY <1>15 DEF Restart, Held, WillSettle, TypeOK
<1>16. ASSUME NEW w \in Workers, DeadlockVictim(w) PROVE Held'
  <2>1. pc[w] = "merging"
    BY <1>16 DEF DeadlockVictim, InWaitCycle, Blockers, IsNextFlush
  <2>2. \A j \in Jobs : ~WillSettle(w, j)
    BY <2>1 DEF WillSettle
  <2> QED
    BY <1>16, <2>2, HeldByOthers DEF DeadlockVictim, Die, TypeOK
<1>17. CASE UNCHANGED vars
    BY <1>17 DEF vars, Held, WillSettle
<1> QED
    BY <1>1, <1>2, <1>3, <1>4, <1>5, <1>6, <1>7, <1>8, <1>9, <1>10, <1>11, <1>12,
       <1>13, <1>14, <1>15, <1>16, <1>17 DEF Next, WorkerStep

(* While no process is killed or stopped, a job that reads "processing" has  *)
(* a worker that will still write its status: a release, a failed attempt    *)
(* and the victim of a deadlock leave none behind.                           *)
THEOREM JobsInProgressAreHeld == Spec => []ProcessingHasWorker
<1>1. Init => Held
    BY DEF Init, Held
<1>2. Held => ProcessingHasWorker
    BY DEF Held, WillSettle, ProcessingHasWorker
<1> QED
    BY <1>1, <1>2, HeldStep, QueueDiscipline, PTL DEF Spec

-----------------------------------------------------------------------------
(* Where the source ids of coalesced jobs are *)

(* A worker past its SELECT has the source ids of its job, and until the     *)
(* merge is committed those of the duplicates it has read.                   *)
Collected ==
    \A w \in Workers :
        /\ pc[w] \in {"merging", "locking", "writing"} => Sources[cur[w]] \subseteq merged[w]
        /\ pc[w] = "merging" =>
              \A k \in dups[w] : /\ Target[k] = Target[cur[w]]
                                 /\ Sources[k] \subseteq merged[w]

LEMMA CollectedStep ==
    TypeOK /\ LockDiscipline /\ Collected /\ [Next]_vars => Collected'
<1> SUFFICES ASSUME TypeOK, LockDiscipline, Collected, [Next]_vars PROVE Collected'
    OBVIOUS
<1> USE DEF Collected, TypeOK, table, memory, handler, history
<1>1. ASSUME NEW j \in Jobs, Enqueue(j) PROVE Collected'
    BY <1>1 DEF Enqueue
<1>2. ASSUME NEW w \in Workers, Claim(w) \/ IngestDone(w) PROVE Collected'
    BY <1>2 DEF Claim, IngestDone
<1>3. ASSUME NEW w \in Workers, ReadDuplicates(w) PROVE Collected'
  <2>1. /\ Sources[cur[w]] \subseteq MergedSources(cur[w])
        /\ \A k \in Duplicates(cur[w]) : /\ Target[k] = Target[cur[w]]
                                         /\ Sources[k] \subseteq MergedSources(cur[w])
    BY DEF MergedSources, Duplicates
  <2> QED
    BY <1>3, <2>1 DEF ReadDuplicates
<1>4. ASSUME NEW w \in Workers, FlushDuplicate(w) PROVE Collected'
    BY <1>4 DEF FlushDuplicate
<1>5. ASSUME NEW w \in Workers, CommitMerge(w) PROVE Collected'
    BY <1>5 DEF CommitMerge
<1>6. ASSUME NEW w \in Workers, TakeEntityLock(w) \/ LockExhausted(w) PROVE Collected'
    BY <1>6 DEF TakeEntityLock, LockExhausted
<1>7. ASSUME NEW w \in Workers, SynthesisDone(w) \/ Abort(w) PROVE Collected'
    BY <1>7 DEF SynthesisDone, Abort
<1>8. ASSUME NEW w \in Workers, Refresh(w) \/ ReleaseClaim(w) \/ FailJob(w) PROVE Collected'
    BY <1>8 DEF Refresh, ReleaseClaim, FailJob, EndOfHandler
<1>9. ASSUME NEW w \in Workers, Crash(w) \/ DeadlockVictim(w) PROVE Collected'
    BY <1>9 DEF Crash, DeadlockVictim, Die
<1>10. ASSUME NEW w \in Workers, Stop(w) \/ Restart(w) PROVE Collected'
    BY <1>10 DEF Stop, Restart
<1>11. CASE UNCHANGED vars
    BY <1>11 DEF vars
<1> QED
    BY <1>1, <1>2, <1>3, <1>4, <1>5, <1>6, <1>7, <1>8, <1>9, <1>10, <1>11
    DEF Next, WorkerStep

(* A step that completes no entity job and lets none of the syntheses under  *)
(* way go, but with their target aborted, leaves everything covered.         *)
LEMMA StillCovered ==
    ASSUME MergeLosesNothing,
           \A j \in Jobs : Kind[j] = "entity" /\ status'[j] = "completed"
                                => status[j] = "completed",
           aborted \subseteq aborted', settled' = settled,
           \A w \in Workers : pc[w] \in {"locking", "writing"} =>
                \/ Target[cur[w]] \in aborted'
                \/ /\ pc'[w] \in {"locking", "writing"}
                   /\ cur'[w] = cur[w] /\ merged'[w] = merged[w]
    PROVE  MergeLosesNothing'
<1> SUFFICES ASSUME NEW j \in Jobs, Kind[j] = "entity", status'[j] = "completed",
                    Target[j] \notin aborted', NEW s \in Sources[j]
             PROVE  IsCovered(Target[j], s)'
    BY DEF MergeLosesNothing
<1>1. IsCovered(Target[j], s)
    BY DEF MergeLosesNothing
<1> QED
    BY <1>1 DEF IsCovered

LEMMA CoveredStep ==
    TypeOK /\ LockDiscipline /\ Collected /\ MergeLosesNothing /\ [Next]_vars
        => MergeLosesNothing'
<1> SUFFICES ASSUME TypeOK, LockDiscipline, Collected, MergeLosesNothing, [Next]_vars
             PROVE  MergeLosesNothing'
    OBVIOUS
<1> USE DEF table, memory, handler, history
<1>1. ASSUME NEW j \in Jobs, Enqueue(j) PROVE MergeLosesNothing'
    BY <1>1, StillCovered DEF Enqueue, TypeOK
<1>2. ASSUME NEW w \in Workers, Claim(w) PROVE MergeLosesNothing'
    BY <1>2, StillCovered DEF Claim, TypeOK
<1>3. ASSUME NEW w \in Workers, IngestDone(w) PROVE MergeLosesNothing'
    BY <1>3, StillCovered DEF IngestDone, StatusAfterIngest, TypeOK
<1>4. ASSUME NEW w \in Workers, ReadDuplicates(w) PROVE MergeLosesNothing'
    BY <1>4, StillCovered DEF ReadDuplicates, TypeOK
<1>5. ASSUME NEW w \in Workers, FlushDuplicate(w) PROVE MergeLosesNothing'
    BY <1>5, StillCovered DEF FlushDuplicate
<1>6. ASSUME NEW w \in Workers, CommitMerge(w) PROVE MergeLosesNothing'
  <2> SUFFICES ASSUME NEW j \in Jobs, Kind[j] = "entity", status'[j] = "completed",
                      Target[j] \notin aborted, NEW s \in Sources[j]
               PROVE  IsCovered(Target[j], s)'
    BY <1>6 DEF CommitMerge, MergeLosesNothing
  <2>1. CASE j \in dups[w]
    <3>1. Kind[cur[w]] # "ingest" /\ Target[cur[w]] = Target[j] /\ s \in merged[w]
      BY <1>6, <2>1 DEF CommitMerge, Collected, LockDiscipline
    <3> QED
      BY <1>6, <3>1 DEF CommitMerge, IsCovered, TypeOK
  <2>2. CASE j \notin dups[w]
    <3>1. IsCovered(Target[j], s)
      BY <1>6, <2>2 DEF CommitMerge, StatusAfterMerge, MergeLosesNothing, TypeOK
    <3> QED
      BY <1>6, <3>1 DEF CommitMerge, IsCovered, TypeOK
  <2> QED
    BY <2>1, <2>2
<1>7. ASSUME NEW w \in Workers, TakeEntityLock(w) PROVE MergeLosesNothing'
    BY <1>7, StillCovered DEF TakeEntityLock, TypeOK
<1>8. ASSUME NEW w \in Workers, LockExhausted(w) PROVE MergeLosesNothing'
    BY <1>8, StillCovered DEF LockExhausted, TypeOK
<1>9. ASSUME NEW w \in Workers, SynthesisDone(w) PROVE MergeLosesNothing'
  <2> SUFFICES ASSUME NEW j \in Jobs, Kind[j] = "entity", status'[j] = "completed",
                      Target[j] \notin aborted, NEW s \in Sources[j]
               PROVE  IsCovered(Target[j], s)'
    BY <1>9 DEF SynthesisDone, MergeLosesNothing
  <2>1. cur[w] \in Jobs /\ Target[cur[w]] \in Targets /\ Target[j] \in Targets
    BY <1>9 DEF SynthesisDone, LockDiscipline, Targets
  <2>2. settled' = [settled EXCEPT ![Target[cur[w]]] = @ \cup merged[w]]
    BY <1>9 DEF SynthesisDone
  <2>3. /\ \A t \in Targets : settled[t] \subseteq settled'[t]
        /\ merged[w] \subseteq settled'[Target[cur[w]]]
    BY <2>1, <2>2 DEF TypeOK
  <2>4. CASE j = cur[w]
    <3>1. s \in merged[w]
      BY <1>9, <2>4 DEF SynthesisDone, Collected
    <3> QED
      BY <2>3, <2>4, <3>1 DEF IsCovered
  <2>5. CASE j # cur[w]
    <3>1. IsCovered(Target[j], s)
      BY <1>9, <2>5 DEF SynthesisDone, MergeLosesNothing, TypeOK
    <3>2. CASE s \in settled[Target[j]]
      BY <2>1, <2>3, <3>2 DEF IsCovered
    <3>3. ASSUME NEW v \in Workers, pc[v] \in {"locking", "writing"},
                 Target[cur[v]] = Target[j], s \in merged[v]
          PROVE  IsCovered(Target[j], s)'
      <4>1. CASE v = w
        BY <2>3, <3>3, <4>1 DEF IsCovered
      <4>2. CASE v # w
        BY <1>9, <3>3, <4>2 DEF SynthesisDone, IsCovered, TypeOK
      <4> QED
        BY <4>1, <4>2
    <3> QED
      BY <3>1, <3>2, <3>3 DEF IsCovered
  <2> QED
    BY <2>4, <2>5
<1>10. ASSUME NEW w \in Workers, Abort(w) PROVE MergeLosesNothing'
    BY <1>10, StillCovered DEF Abort, Uncommitted, TypeOK
<1>11. ASSUME NEW w \in Workers, Refresh(w) PROVE MergeLosesNothing'
    BY <1>11, StillCovered DEF Refresh, TypeOK
<1>12. ASSUME NEW w \in Workers, ReleaseClaim(w) PROVE MergeLosesNothing'
    BY <1>12, StillCovered DEF ReleaseClaim, EndOfHandler, ReleasedStatus, WriteBack, TypeOK
<1>13. ASSUME NEW w \in Workers, FailJob(w) PROVE MergeLosesNothing'
    BY <1>13, StillCovered DEF FailJob, EndOfHandler, WriteBack, TypeOK
<1>14. ASSUME NEW w \in Workers, Crash(w) \/ DeadlockVictim(w) PROVE MergeLosesNothing'
    BY <1>14, StillCovered DEF Crash, DeadlockVictim, Die, TypeOK
<1>15. ASSUME NEW w \in Workers, Stop(w) \/ Restart(w) PROVE MergeLosesNothing'
    BY <1>15, StillCovered DEF Stop, Restart, TypeOK
<1>16. CASE UNCHANGED vars
    BY <1>16, StillCovered DEF vars
<1> QED
    BY <1>1, <1>2, <1>3, <1>4, <1>5, <1>6, <1>7, <1>8, <1>9, <1>10, <1>11, <1>12,
       <1>13, <1>14, <1>15, <1>16 DEF Next, WorkerStep

(* The sources of a coalesced entity job are covered by a finished synthesis *)
(* or still on their way to one, unless a run of its entity broke off after  *)
(* its merge: whatever is claimed, flushed, deadlocked or rolled back in the *)
(* merge itself, and however two workers' merges overlap, loses nothing.     *)
THEOREM CoalescingLosesNothing == Spec => []MergeLosesNothing
<1>1. Init => Collected /\ MergeLosesNothing
    BY DEF Init, Collected, MergeLosesNothing
<1> QED
    BY <1>1, CollectedStep, CoveredStep, QueueDiscipline, PTL DEF Spec

-----------------------------------------------------------------------------
(* One worker and DurableQueue *)

(* With a second worker the queue does not implement DurableQueue: a job may *)
(* be absorbed while another worker runs it (OneExecutor).                   *)
OneWorker == \A v, w \in Workers : v = w

(* The duplicates that w read are still what they were, and its job is what  *)
(* its phase says.                                                           *)
JobHeld(w) ==
    /\ pc[w] \in Uncommitted => status[cur[w]] = "pending"
    /\ pc[w] \in {"locking", "writing", "erring", "recording"}
            => status[cur[w]] \in {"pending", "processing"}

DuplicatesHeld(w) == dups[w] \subseteq Duplicates(cur[w])

(* Nobody has changed the row since the except branch read it.               *)
SnapshotFresh(w) ==
    pc[w] = "recording" =>
        seen[w] = [status |-> status[cur[w]], attempts |-> attempts[cur[w]]]

Alone == \A w \in Workers : JobHeld(w) /\ DuplicatesHeld(w) /\ SnapshotFresh(w)

LEMMA AloneInit == Init => Alone
BY DEF Init, Alone, JobHeld, DuplicatesHeld, SnapshotFresh, Uncommitted

LEMMA AloneStep ==
    ASSUME OneWorker, TypeOK, LockDiscipline, Alone, [Next]_vars
    PROVE  Alone'
<1> USE DEF Alone, JobHeld, DuplicatesHeld, SnapshotFresh, Uncommitted, table, memory, handler, history
<1>0. ASSUME NEW w \in Workers, NEW v \in Workers PROVE v = w
    BY DEF OneWorker
<1>1. ASSUME NEW w \in Workers
      PROVE  /\ pc[w] \notin {"idle", "down"} => cur[w] \in Jobs
             /\ dups[w] # {} => pc[w] = "merging"
    BY DEF LockDiscipline
<1>2. ASSUME NEW j \in Jobs, Enqueue(j) PROVE Alone'
  <2> SUFFICES ASSUME NEW w \in Workers PROVE (JobHeld(w) /\ DuplicatesHeld(w) /\ SnapshotFresh(w))'
      OBVIOUS
  <2>1. status' = [status EXCEPT ![j] = "pending"] /\ status[j] = "absent"
      BY <1>2 DEF Enqueue
  <2>2. UNCHANGED <<attempts, pc, cur, dups, seen>>
      BY <1>2 DEF Enqueue
  <2>3. JobHeld(w)'
      BY <1>1, <2>1, <2>2 DEF TypeOK
  <2>4. DuplicatesHeld(w)'
      BY <1>1, <2>1, <2>2 DEF TypeOK, Duplicates
  <2>5. SnapshotFresh(w)'
      BY <1>1, <2>1, <2>2 DEF TypeOK
  <2> QED
      BY <2>3, <2>4, <2>5
<1>3. ASSUME NEW w \in Workers, Claim(w) PROVE Alone'
  <2>1. PICK j \in Jobs : Claimable(j) /\ cur' = [cur EXCEPT ![w] = j]
    BY <1>3 DEF Claim
  <2>2. pc' = [pc EXCEPT ![w] = "claimed"] /\ UNCHANGED <<status, attempts, dups, seen>>
    BY <1>3 DEF Claim
  <2>3. dups[w] = {}
    BY <1>1, <1>3 DEF Claim
  <2> QED
    BY <1>0, <2>1, <2>2, <2>3 DEF TypeOK, Claimable
<1>4. ASSUME NEW w \in Workers, IngestDone(w) \/ SynthesisDone(w) \/ ReleaseClaim(w) \/ FailJob(w)
      PROVE  Alone'
  <2>1. pc'[w] = "idle" /\ dups' = dups
    BY <1>4 DEF IngestDone, SynthesisDone, ReleaseClaim, FailJob, EndOfHandler, TypeOK
  <2>2. dups[w] = {}
    BY <1>1, <1>4 DEF IngestDone, SynthesisDone, ReleaseClaim, FailJob
  <2> QED
    BY <1>0, <2>1, <2>2
<1>5. ASSUME NEW w \in Workers, ReadDuplicates(w) PROVE Alone'
  <2>1. pc' = [pc EXCEPT ![w] = "merging"] /\ UNCHANGED <<status, attempts, cur, seen>>
    BY <1>5 DEF ReadDuplicates
  <2>2. dups'[w] = Duplicates(cur[w]) /\ status[cur[w]] = "pending"
    BY <1>5 DEF ReadDuplicates, TypeOK
  <2> QED
    BY <1>0, <2>1, <2>2 DEF TypeOK, Duplicates
<1>6. ASSUME NEW w \in Workers, FlushDuplicate(w) PROVE Alone'
    BY <1>6 DEF FlushDuplicate, Duplicates
<1>7. ASSUME NEW w \in Workers, CommitMerge(w) PROVE Alone'
  <2>1. dups'[w] = {} /\ pc'[w] \in {"locking", "writing"} /\ cur' = cur
    BY <1>7 DEF CommitMerge, TypeOK
  <2>2. status'[cur[w]] = "processing"
    BY <1>1, <1>7 DEF CommitMerge, StatusAfterMerge
  <2> QED
    BY <1>0, <2>1, <2>2
<1>8. ASSUME NEW w \in Workers, TakeEntityLock(w) \/ LockExhausted(w) PROVE Alone'
  <2>1. pc[w] = "locking" /\ pc'[w] \in {"writing", "erring"} /\ UNCHANGED <<cur, dups, status>>
    BY <1>8 DEF TakeEntityLock, LockExhausted, TypeOK
  <2>2. dups'[w] = {} /\ status'[cur'[w]] \in {"pending", "processing"}
    BY <1>1, <2>1
  <2> QED
    BY <1>0, <2>1, <2>2
<1>9. ASSUME NEW w \in Workers, Abort(w) PROVE Alone'
  <2>1. pc[w] \in Executing /\ pc'[w] = "erring" /\ dups'[w] = {} /\ UNCHANGED <<cur, status>>
    BY <1>9 DEF Abort, TypeOK
  <2> QED
    BY <1>0, <2>1 DEF Executing
<1>10. ASSUME NEW w \in Workers, Refresh(w) PROVE Alone'
  <2>1. pc[w] = "erring" /\ pc'[w] = "recording" /\ UNCHANGED <<cur, status, attempts, dups>>
    BY <1>10 DEF Refresh, TypeOK
  <2>2. seen'[w] = [status |-> status[cur[w]], attempts |-> attempts[cur[w]]]
    BY <1>10 DEF Refresh, TypeOK
  <2> QED
    BY <1>0, <2>1, <2>2 DEF Duplicates
<1>11. ASSUME NEW w \in Workers, Die(w) PROVE Alone'
    BY <1>0, <1>11 DEF Die, TypeOK
<1>12. ASSUME NEW w \in Workers, Stop(w) \/ Restart(w) PROVE Alone'
    BY <1>0, <1>1, <1>12 DEF Stop, Restart, TypeOK
<1>13. CASE UNCHANGED vars
    BY <1>13 DEF vars, Duplicates
<1> QED
    BY <1>2, <1>3, <1>4, <1>5, <1>6, <1>7, <1>8, <1>9, <1>10, <1>11, <1>12, <1>13
    DEF Next, WorkerStep, Crash, DeadlockVictim

-----------------------------------------------------------------------------
(* The mapping *)

State == [j \in Jobs |-> StateOf(status[j])]

LEMMA StateValues ==
    /\ StateOf("absent") = "absent"
    /\ StateOf("pending") = "waiting" /\ StateOf("processing") = "waiting"
    /\ StateOf("completed") = "done" /\ StateOf("failed") = "dead"
BY DEF StateOf

(* Only a row that is absent, or pending or processing, maps to a job that   *)
(* is absent or waiting.                                                     *)
LEMMA StateInverse ==
    ASSUME NEW s \in Statuses
    PROVE  /\ StateOf(s) = "absent" <=> s = "absent"
           /\ StateOf(s) = "waiting" <=> s \in {"pending", "processing"}
BY DEF StateOf, Statuses

LEMMA RefinesInit == Init => Durable!Init
BY StateValues DEF Init, Durable!Init

LEMMA RefinesStutter ==
    ASSUME status' = status, attempts' = attempts
    PROVE  UNCHANGED Durable!vars
BY DEF Durable!vars

LEMMA RefinesStep ==
    ASSUME OneWorker, TypeOK, LockDiscipline, Alone, [Next]_vars
    PROVE  [Durable!Next]_(Durable!vars)
<1> USE DEF table, memory, handler, history
<1>0. NoJob \notin Jobs
    BY ConstantsAssumption DEF ConstantsAssumption
<1>1. ASSUME NEW w \in Workers, pc[w] \notin {"idle", "down"} PROVE cur[w] \in Jobs
    BY <1>1 DEF LockDiscipline
<1>2. ASSUME NEW j \in Jobs, Enqueue(j) PROVE Durable!Next
  <2>1. Origin[j] = NoJob
    BY <1>2, ConstantsAssumption DEF Enqueue, ConstantsAssumption
  <2>2. status[j] = "absent" /\ status' = [status EXCEPT ![j] = "pending"] /\ attempts' = attempts
    BY <1>2 DEF Enqueue
  <2>3. Durable!Submit(j)
    BY <2>1, <2>2, StateValues DEF Durable!Submit, TypeOK
  <2> QED
    BY <2>3 DEF Durable!Next
<1>3. ASSUME NEW w \in Workers, IngestDone(w) PROVE Durable!Next
  <2>1. cur[w] \in Jobs /\ status[cur[w]] = "pending" /\ attempts' = attempts
    BY <1>1, <1>3 DEF IngestDone, Alone, JobHeld, Uncommitted
  <2>2. PICK new \in SUBSET {k \in Jobs : Origin[k] = cur[w] /\ status[k] = "absent"} :
            status' = [j \in Jobs |-> IF j = cur[w] THEN "completed"
                                      ELSE IF j \in new THEN "pending" ELSE status[j]]
    BY <1>3 DEF IngestDone, StatusAfterIngest
  <2>3. Durable!CarryOut(cur[w])
    BY <2>1, <2>2, StateValues DEF Durable!CarryOut
  <2> QED
    BY <2>1, <2>3 DEF Durable!Next
<1>4. ASSUME NEW w \in Workers, SynthesisDone(w) PROVE Durable!Next
  <2>1. /\ cur[w] \in Jobs /\ status[cur[w]] \in {"pending", "processing"}
        /\ status' = [status EXCEPT ![cur[w]] = "completed"] /\ attempts' = attempts
    BY <1>1, <1>4 DEF SynthesisDone, Alone, JobHeld
  <2>2. State' = [k \in Jobs |-> IF k = cur[w] THEN "done"
                                 ELSE IF k \in {} THEN "waiting" ELSE State[k]]
    BY <2>1, StateValues DEF State, TypeOK
  <2>3. {} \in SUBSET {k \in Jobs : Origin[k] = cur[w] /\ State[k] = "absent"}
    OBVIOUS
  <2>4. State[cur[w]] = "waiting"
    BY <2>1, StateValues DEF State
  <2>5. Durable!CarryOut(cur[w])
    BY <2>1, <2>2, <2>3, <2>4 DEF Durable!CarryOut, State
  <2> QED
    BY <2>1, <2>5 DEF Durable!Next
<1>5. ASSUME NEW w \in Workers, CommitMerge(w) PROVE Durable!Next
  <2>1. /\ cur[w] \in Jobs /\ status[cur[w]] = "pending" /\ attempts' = attempts
        /\ dups[w] \subseteq Duplicates(cur[w])
    BY <1>1, <1>5 DEF CommitMerge, Alone, JobHeld, DuplicatesHeld, Uncommitted
  <2>2. dups[w] \in SUBSET {k \in Jobs \ {cur[w]} : /\ State[k] = "waiting"
                                                    /\ Kind[k] = Kind[cur[w]]
                                                    /\ Target[k] = Target[cur[w]]}
    BY <2>1, StateValues DEF Duplicates, State
  <2>3. State' = [k \in Jobs |-> IF k \in dups[w] THEN "done" ELSE State[k]]
    BY <1>5, <2>1, <2>2, StateValues DEF CommitMerge, StatusAfterMerge, State
  <2>4. Durable!Absorb(cur[w])
    BY <2>1, <2>2, <2>3, StateValues DEF Durable!Absorb, State
  <2> QED
    BY <2>1, <2>4 DEF Durable!Next
<1>6. ASSUME NEW w \in Workers, FailJob(w) PROVE Durable!Next
  <2>1. /\ cur[w] \in Jobs /\ status[cur[w]] \in {"pending", "processing"}
        /\ seen[w] = [status |-> status[cur[w]], attempts |-> attempts[cur[w]]]
    BY <1>1, <1>6 DEF FailJob, Alone, JobHeld, SnapshotFresh
  <2> DEFINE n == attempts[cur[w]] + 1
             new == IF n <= MaxRetries THEN "pending" ELSE "failed"
  <2>2. attempts' = [attempts EXCEPT ![cur[w]] = n]
    BY <1>6, <2>1 DEF FailJob
  <2>3. status' = [status EXCEPT ![cur[w]] = new]
    <3>1. seen[w].attempts + 1 = n /\ seen[w].status = status[cur[w]]
      BY <2>1
    <3>2. WriteBack(w, new) = new
      BY <3>1 DEF WriteBack
    <3> QED
      BY <1>6, <3>1, <3>2 DEF FailJob, RetryAllowed
  <2>4. State' = [State EXCEPT ![cur[w]] = IF n <= MaxRetries THEN "waiting" ELSE "dead"]
    BY <2>1, <2>3, StateValues DEF State, TypeOK
  <2>5. Durable!CountFailure(cur[w])
    BY <2>1, <2>2, <2>4, StateValues DEF Durable!CountFailure, State
  <2> QED
    BY <2>1, <2>5 DEF Durable!Next
<1>7. ASSUME NEW w \in Workers, ReleaseClaim(w) PROVE UNCHANGED Durable!vars
  <2>1. /\ cur[w] \in Jobs /\ status[cur[w]] \in {"pending", "processing"}
        /\ seen[w] = [status |-> status[cur[w]], attempts |-> attempts[cur[w]]]
    BY <1>1, <1>7 DEF ReleaseClaim, Alone, JobHeld, SnapshotFresh
  <2>2. attempts' = attempts /\ status' = [status EXCEPT ![cur[w]] = "pending"]
    <3>1. ReleasedStatus(w) = "pending"
      BY <2>1 DEF ReleasedStatus, WriteBack
    <3>2. [attempts EXCEPT ![cur[w]] = attempts[cur[w]]] = attempts
      BY DEF TypeOK
    <3> QED
      BY <1>7, <3>1, <3>2 DEF ReleaseClaim, AttemptsAfterRelease
  <2>3. State' = State
    BY <2>1, <2>2, StateValues DEF State, TypeOK
  <2> QED
    BY <2>2, <2>3 DEF Durable!vars, State
<1>8. ASSUME NEW w \in Workers,
             \/ Claim(w) \/ ReadDuplicates(w) \/ FlushDuplicate(w) \/ TakeEntityLock(w)
             \/ LockExhausted(w) \/ Abort(w) \/ Refresh(w) \/ Die(w) \/ Stop(w) \/ Restart(w)
      PROVE  UNCHANGED Durable!vars
    BY <1>8, RefinesStutter DEF Claim, ReadDuplicates, FlushDuplicate, TakeEntityLock,
       LockExhausted, Abort, Refresh, Die, Stop, Restart
<1>9. CASE UNCHANGED vars
    BY <1>9, RefinesStutter DEF vars
<1> QED
    BY <1>2, <1>3, <1>4, <1>5, <1>6, <1>7, <1>8, <1>9
    DEF Next, WorkerStep, Crash, DeadlockVictim

(* A single worker that may fail, crash at any point and be restarted keeps  *)
(* the promise of the queue: a job it has accepted is carried out once, is   *)
(* absorbed by one like it, or is given up when its retries are used up.     *)
THEOREM OneWorkerImplements ==
    ASSUME OneWorker
    PROVE  Spec => ImplementsDurableQueue
<1>1. Init => Alone /\ Durable!Init
    BY AloneInit, RefinesInit
<1>2. TypeOK /\ LockDiscipline /\ Alone /\ [Next]_vars => Alone'
    BY AloneStep
<1>3. TypeOK /\ LockDiscipline /\ Alone /\ [Next]_vars => [Durable!Next]_(Durable!vars)
    BY RefinesStep
<1> QED
    BY <1>1, <1>2, <1>3, QueueDiscipline, PTL DEF Spec, ImplementsDurableQueue, Durable!Spec
=============================================================================
