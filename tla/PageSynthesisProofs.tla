------------------------- MODULE PageSynthesisProofs -------------------------
(***************************************************************************)
(* Mutual exclusion of page synthesis, for every number of workers, jobs   *)
(* and entities, every claim order and every number of errors and crashes. *)
(***************************************************************************)
EXTENDS PageSynthesis, TLAPS

(* A worker in the middle of a job holds a job. *)
HoldsJob == \A w \in Workers : pc[w] \notin {"idle", "down"} => job[w] \in Jobs

(* A worker in the section has the lock: OneSynthesizer follows.  That the   *)
(* lock is free just when nobody has taken it more often than released it    *)
(* makes the unlock of a reentrant lock safe.                                *)
LockOfSection ==
    /\ \A w \in Workers : pc[w] \in Section => holder[Target(w)] = w
    /\ \A e \in Entities : holder[e] = NoWorker <=> depth[e] = 0

LockInv == HoldsJob /\ LockOfSection

LEMMA InitInv == Init => TypeOK /\ LockInv
BY SynthesisAssumption
   DEF Init, TypeOK, LockInv, HoldsJob, LockOfSection, Section, Phases, PageType, NoPage,
       PageOf, Forms, SynthesisAssumption

(* The entity of a worker's job, and what the job says. *)
LEMMA TargetType ==
    ASSUME HoldsJob, NEW w \in Workers, pc[w] \notin {"idle", "down"}
    PROVE  /\ job[w] \in Jobs
           /\ Target(w) \in Entities
BY SynthesisAssumption DEF HoldsJob, Target, SynthesisAssumption

(* Two workers in the section of one entity would both have its lock. *)
LEMMA SectionExcludes == LockInv => OneSynthesizer
BY SynthesisAssumption
   DEF LockInv, LockOfSection, OneSynthesizer, InSection, SynthesisAssumption

(* An answer is a page; it is a stub, or covers what the LLM has been shown  *)
(* of the one it replaces, which is all of it unless that is too long.       *)
LEMMA AnswerCovers ==
    ASSUME TypeOK, NEW w \in Workers, NEW new \in Answers(w)
    PROVE  /\ new \in PageType
           /\ Exists(new)
           /\ \/ new.form = "stub"
              \/ base[w].form = "long"
              \/ base[w].content \subseteq new.content
<1>1. base[w].content \subseteq SourceIds /\ sources[w] \subseteq SourceIds
    BY DEF TypeOK, PageType
<1>2. CASE new = PageOf("stub", {})
    BY <1>2 DEF PageOf, PageType, Forms, Exists
<1>3. CASE new \in [form : {"fits", "long"}, content : Contents(w)]
  <2>1. new.form \in {"fits", "long"} /\ new.content \in Contents(w)
    BY <1>3
  <2>2. PICK shown \in Excerpts(base[w]) : shown \subseteq new.content
    BY <2>1 DEF Contents
  <2>3. base[w].form = "long" \/ shown = base[w].content
    BY <2>2 DEF Excerpts
  <2>4. new \in PageType
    BY <1>1, <1>3 DEF Contents, PageType, Forms
  <2> QED
    BY <2>1, <2>2, <2>3, <2>4 DEF Exists
<1> QED
    BY <1>2, <1>3 DEF Answers

LEMMA TypeStep == TypeOK /\ LockInv /\ [Next]_vars => TypeOK'
<1> SUFFICES ASSUME TypeOK, LockInv, [Next]_vars PROVE TypeOK'
    OBVIOUS
<1> USE DEF TypeOK, Phases, PageType, jobVars, pageVars, lockVars, workerVars, bounds
<1>0. HoldsJob /\ NoPage \in PageType
    BY DEF LockInv, NoPage, PageOf, Forms
<1>1. ASSUME NEW j \in Jobs, Enqueue(j) PROVE TypeOK'
    BY <1>1 DEF Enqueue
<1>2. ASSUME NEW w \in Workers, Claim(w) PROVE TypeOK'
  <2>1. PICK j \in Pending :
            LET same == {k \in Pending : Entity[k] = Entity[j]} IN
            /\ queue' = [k \in Jobs |-> IF k = j THEN "processing"
                                        ELSE IF k \in same THEN "completed"
                                        ELSE queue[k]]
            /\ sources' = [sources EXCEPT ![w] = UNION {Sources[k] : k \in same}]
            /\ job' = [job EXCEPT ![w] = j]
    BY <1>2 DEF Claim
  <2>2. Pending \subseteq Jobs
    BY DEF Pending
  <2>3. \A k \in Jobs : Sources[k] \subseteq SourceIds
    BY SynthesisAssumption DEF SynthesisAssumption
  <2>4. sources' \in [Workers -> SUBSET SourceIds]
    BY <2>1, <2>2, <2>3
  <2>5. /\ queue' \in [Jobs -> {"absent", "pending", "processing", "completed", "failed"}]
        /\ job' \in [Workers -> Jobs \cup {NoJob}]
    BY <2>1, <2>2
  <2> QED
    BY <1>2, <2>4, <2>5 DEF Claim
<1>3. ASSUME NEW w \in Workers, TryLock(w) PROVE TypeOK'
  <2>1. Target(w) \in Entities
    BY <1>0, <1>3, TargetType DEF TryLock
  <2> QED
    BY <1>3, <2>1 DEF TryLock
<1>4. ASSUME NEW w \in Workers, TryFails(w) PROVE TypeOK'
  <2>1. job[w] \in Jobs
    BY <1>0, <1>4, TargetType DEF TryFails
  <2>2. LockTries \in Nat \ {0} /\ 0 \in 0..(LockTries - 1) /\ tries[w] \in Nat
    BY SynthesisAssumption DEF SynthesisAssumption
  <2>3. /\ attempts' = attempts /\ page' = page /\ rowOwner' = rowOwner
        /\ holder' = holder /\ depth' = depth /\ errors' = errors /\ crashes' = crashes
    BY <1>4 DEF TryFails
  <2>4. CASE TriesLeft(w)
    <3>1. tries' \in [Workers -> 0..(LockTries - 1)]
      <4>1. tries' = [tries EXCEPT ![w] = @ + 1] /\ tries[w] + 1 < LockTries
        BY <1>4, <2>4 DEF TryFails, TriesLeft
      <4>2. tries \in [Workers -> 0..(LockTries - 1)]
        OBVIOUS
      <4>3. tries[w] + 1 \in 0..(LockTries - 1)
        BY <2>2, <4>1
      <4> QED
        BY <4>1, <4>2, <4>3, Zenon
    <3>2. /\ queue' = queue /\ pc' = pc /\ job' = job
          /\ sources' = sources /\ base' = base /\ draft' = draft
      BY <1>4, <2>4 DEF TryFails
    <3> QED
      BY <2>3, <3>1, <3>2
  <2>5. CASE ~ TriesLeft(w)
    <3>1. /\ queue' = [queue EXCEPT ![job[w]] = "pending"]
          /\ pc' = [pc EXCEPT ![w] = "idle"]
          /\ Forget(w)
      BY <1>4, <2>5 DEF TryFails
    <3> QED
      BY <1>0, <2>1, <2>2, <2>3, <3>1 DEF Forget
  <2> QED
    BY <2>4, <2>5
<1>5. ASSUME NEW w \in Workers, ReadPage(w) PROVE TypeOK'
  <2>1. Target(w) \in Entities
    BY <1>0, <1>5, TargetType DEF ReadPage
  <2> QED
    BY <1>5, <2>1 DEF ReadPage
<1>6. ASSUME NEW w \in Workers, SkipOnLLMError(w) PROVE TypeOK'
    BY <1>6, SynthesisAssumption DEF SkipOnLLMError, SynthesisAssumption
<1>7. ASSUME NEW w \in Workers, WritePage(w) PROVE TypeOK'
  <2>1. Target(w) \in Entities
    BY <1>0, <1>7, TargetType DEF WritePage
  <2>2. PICK new \in Answers(w) : draft' = [draft EXCEPT ![w] = new]
    BY <1>7 DEF WritePage
  <2>3. new \in PageType
    BY <2>2, AnswerCovers
  <2> QED
    BY <1>7, <2>1, <2>2, <2>3 DEF WritePage
<1>8. ASSUME NEW w \in Workers, Unlock(w) PROVE TypeOK'
  <2>1. Target(w) \in Entities
    BY <1>0, <1>8, TargetType DEF Unlock
  <2>2. depth[Target(w)] - 1 \in Nat
    <3>1. holder[Target(w)] = w
      BY <1>8 DEF Unlock, LockInv, LockOfSection, Section
    <3>2. depth[Target(w)] # 0
      BY <2>1, <3>1, SynthesisAssumption DEF LockInv, LockOfSection, SynthesisAssumption
    <3> QED
      BY <2>1, <3>2
  <2>3. holder' \in [Entities -> Workers \cup {NoWorker}] /\ depth' \in [Entities -> Nat]
    BY <1>8, <2>1, <2>2 DEF Unlock, UnlockedBy
  <2> QED
    BY <1>8, <2>3 DEF Unlock
<1>9. ASSUME NEW w \in Workers, Commit(w) PROVE TypeOK'
  <2>1. Target(w) \in Entities /\ job[w] \in Jobs
    BY <1>0, <1>9, TargetType DEF Commit
  <2>2. CommittedPage(w) \in PageType
    BY <2>1 DEF CommittedPage
  <2> QED
    BY <1>0, <1>9, <2>1, <2>2, SynthesisAssumption
       DEF Commit, StatusAtCommit, Forget, SynthesisAssumption
<1>10. ASSUME NEW w \in Workers, OtherError(w) PROVE TypeOK'
    BY <1>10, SynthesisAssumption DEF OtherError, SynthesisAssumption
<1>11. ASSUME NEW w \in Workers, StatementFails(w) PROVE TypeOK'
    BY <1>0, <1>11, SynthesisAssumption DEF StatementFails, RolledBack, SynthesisAssumption
<1>12. ASSUME NEW w \in Workers, ErrorOutsideLock(w) PROVE TypeOK'
    BY <1>0, <1>12, SynthesisAssumption DEF ErrorOutsideLock, RolledBack, SynthesisAssumption
<1>13. ASSUME NEW w \in Workers, RecordFailure(w) PROVE TypeOK'
  <2>1. job[w] \in Jobs
    BY <1>0, <1>13, TargetType DEF RecordFailure
  <2> QED
    BY <1>0, <1>13, <2>1, SynthesisAssumption DEF RecordFailure, Forget, SynthesisAssumption
<1>14. ASSUME NEW w \in Workers, Die(w), bounds' = bounds \/ Crash(w) PROVE TypeOK'
    BY <1>0, <1>14, SynthesisAssumption DEF Die, Crash, Forget, SynthesisAssumption
<1>15. ASSUME NEW w \in Workers, Restart(w) PROVE TypeOK'
    BY <1>15 DEF Restart
<1>16. CASE UNCHANGED vars
    BY <1>16 DEF vars
<1> QED
    BY <1>1, <1>2, <1>3, <1>4, <1>5, <1>6, <1>7, <1>8, <1>9, <1>10, <1>11, <1>12,
       <1>13, <1>14, <1>15, <1>16 DEF Next, WorkerStep, Crash, InsertCollision

LEMMA LockStep == TypeOK /\ LockInv /\ [Next]_vars => LockInv'
<1> SUFFICES ASSUME TypeOK, LockInv, [Next]_vars PROVE LockInv'
    OBVIOUS
<1> USE DEF LockInv, HoldsJob, LockOfSection, Section, Target,
            jobVars, pageVars, lockVars, workerVars, bounds
<1>0. /\ NoWorker \notin Workers /\ NoJob \notin Jobs
      /\ \A w \in Workers : pc[w] \notin {"idle", "down"} => Entity[job[w]] \in Entities
      /\ \A e \in Entities : depth[e] \in Nat
      /\ holder \in [Entities -> Workers \cup {NoWorker}] /\ depth \in [Entities -> Nat]
      /\ pc \in [Workers -> Phases] /\ job \in [Workers -> Jobs \cup {NoJob}]
    BY SynthesisAssumption DEF SynthesisAssumption, TypeOK
<1>1. ASSUME NEW j \in Jobs, Enqueue(j) PROVE LockInv'
    BY <1>1 DEF Enqueue
<1>2. ASSUME NEW w \in Workers, Claim(w) PROVE LockInv'
  <2>1. PICK j \in Jobs : job' = [job EXCEPT ![w] = j]
    BY <1>2 DEF Claim, Pending
  <2> QED
    BY <1>0, <1>2, <2>1 DEF Claim
<1>3. ASSUME NEW w \in Workers, TryLock(w) PROVE LockInv'
    BY <1>0, <1>3 DEF TryLock, LockFree
<1>4. ASSUME NEW w \in Workers, TryFails(w) PROVE LockInv'
    BY <1>0, <1>4 DEF TryFails, Forget
<1>5. ASSUME NEW w \in Workers, ReadPage(w) PROVE LockInv'
    BY <1>0, <1>5 DEF ReadPage
<1>6. ASSUME NEW w \in Workers, SkipOnLLMError(w) PROVE LockInv'
    BY <1>0, <1>6 DEF SkipOnLLMError
<1>7. ASSUME NEW w \in Workers, WritePage(w) PROVE LockInv'
    BY <1>0, <1>7 DEF WritePage
<1>8. ASSUME NEW w \in Workers, Unlock(w) PROVE LockInv'
  <2>1. holder[Target(w)] = w /\ Target(w) \in Entities
    BY <1>0, <1>8 DEF Unlock
  <2>2. \A e \in Entities : holder'[e] = NoWorker <=> depth'[e] = 0
    BY <1>0, <1>8, <2>1 DEF Unlock, UnlockedBy
  <2>3. \A v \in Workers \ {w} : pc'[v] = pc[v] /\ job'[v] = job[v]
    BY <1>0, <1>8 DEF Unlock
  <2>4. pc'[w] \in {"committing", "recording"} /\ job' = job
    BY <1>0, <1>8 DEF Unlock
  <2>5. \A v \in Workers \ {w} : pc[v] \in Section => holder'[Target(v)] = v
    BY <1>0, <1>8, <2>1 DEF Unlock, UnlockedBy
  <2> QED
    <3>1. \A v \in Workers : pc'[v] \notin {"idle", "down"} => job'[v] \in Jobs
      BY <1>8, <2>3, <2>4 DEF Unlock
    <3>2. \A v \in Workers : pc'[v] \in Section => holder'[Entity[job'[v]]] = v
      BY <2>3, <2>4, <2>5
    <3> QED
      BY <2>2, <3>1, <3>2
<1>9. ASSUME NEW w \in Workers, Commit(w) PROVE LockInv'
    BY <1>0, <1>9 DEF Commit, Forget
<1>10. ASSUME NEW w \in Workers, OtherError(w) PROVE LockInv'
    BY <1>0, <1>10 DEF OtherError
<1>11. ASSUME NEW w \in Workers, StatementFails(w) PROVE LockInv'
    BY <1>0, <1>11 DEF StatementFails
<1>12. ASSUME NEW w \in Workers, ErrorOutsideLock(w) PROVE LockInv'
    BY <1>0, <1>12 DEF ErrorOutsideLock
<1>13. ASSUME NEW w \in Workers, RecordFailure(w) PROVE LockInv'
    BY <1>0, <1>13 DEF RecordFailure, Forget
<1>14. ASSUME NEW w \in Workers, Die(w) PROVE LockInv'
    BY <1>0, <1>14 DEF Die, Forget
<1>15. ASSUME NEW w \in Workers, Restart(w) PROVE LockInv'
    BY <1>0, <1>15 DEF Restart
<1>16. CASE UNCHANGED vars
    BY <1>16 DEF vars
<1> QED
    BY <1>1, <1>2, <1>3, <1>4, <1>5, <1>6, <1>7, <1>8, <1>9, <1>10, <1>11, <1>12,
       <1>13, <1>14, <1>15, <1>16 DEF Next, WorkerStep, Crash, InsertCollision

(* No two workers are ever between lock and unlock of the same entity,       *)
(* whatever fails, leaks or dies: nobody gets in without the lock, nobody    *)
(* loses it inside, and an unlock of a lock taken twice does not free it.    *)
THEOREM SynthesisExcludes == Spec => [](TypeOK /\ OneSynthesizer)
<1>1. TypeOK /\ LockInv /\ [Next]_vars => (TypeOK /\ LockInv)'
    BY TypeStep, LockStep
<1> QED
    BY <1>1, InitInv, SectionExcludes, PTL DEF Spec

(* Pages, jobs and the workers' memory keep their types.                     *)
THEOREM SynthesisTypes == Spec => []TypeOK
BY SynthesisExcludes, PTL

-----------------------------------------------------------------------------
(* What becomes of a page *)

Working(w) == pc[w] \notin {"idle", "down"}

(* A worker's job is being processed, and by nobody else.                    *)
JobInv ==
    /\ \A w \in Workers : Working(w) => queue[job[w]] = "processing"
    /\ \A v, w \in Workers : Working(v) /\ Working(w) /\ job[v] = job[w] => v = w

(* A page that has been written covers what was read before it, but for a    *)
(* stub and for a page too long to be shown.                                 *)
DraftInv ==
    \A w \in Workers : Exists(draft[w]) =>
        /\ pc[w] \in {"written", "committing"}
        /\ \/ draft[w].form = "stub"
           \/ base[w].form = "long"
           \/ base[w].content \subseteq draft[w].content

PageInv == JobInv /\ DraftInv

LEMMA PageInit == Init => PageInv
BY DEF Init, PageInv, JobInv, DraftInv, Working, NoPage, PageOf, Exists

LEMMA JobStep == TypeOK /\ LockInv /\ JobInv /\ [Next]_vars => JobInv'
<1> SUFFICES ASSUME TypeOK, LockInv, JobInv, [Next]_vars PROVE JobInv'
    OBVIOUS
<1> USE DEF JobInv, Working, jobVars, pageVars, lockVars, workerVars, bounds
<1>0. /\ queue \in [Jobs -> {"absent", "pending", "processing", "completed", "failed"}]
      /\ pc \in [Workers -> Phases] /\ job \in [Workers -> Jobs \cup {NoJob}]
      /\ \A w \in Workers : Working(w) => job[w] \in Jobs
    BY DEF TypeOK, LockInv, HoldsJob
<1>1. ASSUME NEW j \in Jobs, Enqueue(j) PROVE JobInv'
    BY <1>0, <1>1 DEF Enqueue
<1>2. ASSUME NEW w \in Workers, Claim(w) PROVE JobInv'
  <2>1. PICK j \in Pending :
            /\ queue' = [k \in Jobs |-> IF k = j THEN "processing"
                                        ELSE IF k \in {i \in Pending : Entity[i] = Entity[j]}
                                             THEN "completed" ELSE queue[k]]
            /\ job' = [job EXCEPT ![w] = j]
    BY <1>2 DEF Claim
  <2>2. j \in Jobs /\ queue[j] = "pending" /\ \A k \in Pending : queue[k] = "pending"
    BY DEF Pending
  <2>3. \A v \in Workers : Working(v) => v # w /\ job[v] # j /\ queue'[job[v]] = "processing"
    BY <1>0, <1>2, <2>1, <2>2 DEF Claim
  <2>4. pc' = [pc EXCEPT ![w] = "locking"]
    BY <1>2 DEF Claim
  <2> QED
    BY <1>0, <2>1, <2>2, <2>3, <2>4
<1>3. ASSUME NEW w \in Workers, TryLock(w) PROVE JobInv'
    BY <1>0, <1>3 DEF TryLock
<1>4. ASSUME NEW w \in Workers, TryFails(w) PROVE JobInv'
  <2>1. CASE TriesLeft(w)
    BY <1>0, <1>4, <2>1 DEF TryFails
  <2>2. CASE ~ TriesLeft(w)
    BY <1>0, <1>4, <2>2 DEF TryFails, Forget
  <2> QED
    BY <2>1, <2>2
<1>5. ASSUME NEW w \in Workers,
             ReadPage(w) \/ SkipOnLLMError(w) \/ WritePage(w) \/ OtherError(w) \/ Unlock(w)
      PROVE  JobInv'
  <2>1. Working(w) /\ \A v \in Workers : Working(v)' => Working(v)
    BY <1>0, <1>5 DEF ReadPage, SkipOnLLMError, WritePage, OtherError, Unlock
  <2>2. UNCHANGED <<queue, job>>
    BY <1>5 DEF ReadPage, SkipOnLLMError, WritePage, OtherError, Unlock
  <2> QED
    BY <2>1, <2>2
<1>6. ASSUME NEW w \in Workers, StatementFails(w) \/ ErrorOutsideLock(w) PROVE JobInv'
    BY <1>0, <1>6 DEF StatementFails, ErrorOutsideLock
<1>7. ASSUME NEW w \in Workers, Commit(w) \/ RecordFailure(w) PROVE JobInv'
  <2>1. Working(w) /\ pc' = [pc EXCEPT ![w] = "idle"] /\ job' = [job EXCEPT ![w] = NoJob]
    BY <1>7 DEF Commit, RecordFailure, Forget
  <2>2. \A k \in Jobs : k # job[w] => queue'[k] = queue[k]
    BY <1>0, <1>7 DEF Commit, RecordFailure
  <2> QED
    BY <1>0, <2>1, <2>2
<1>8. ASSUME NEW w \in Workers, Die(w) PROVE JobInv'
    BY <1>0, <1>8 DEF Die, Forget
<1>9. ASSUME NEW w \in Workers, Restart(w) PROVE JobInv'
    BY <1>0, <1>9 DEF Restart
<1>10. CASE UNCHANGED vars
    BY <1>10 DEF vars
<1> QED
    BY <1>1, <1>2, <1>3, <1>4, <1>5, <1>6, <1>7, <1>8, <1>9, <1>10
       DEF Next, WorkerStep, Crash, InsertCollision

LEMMA DraftStep == TypeOK /\ DraftInv /\ [Next]_vars => DraftInv'
<1> SUFFICES ASSUME TypeOK, DraftInv, [Next]_vars PROVE DraftInv'
    OBVIOUS
<1> USE DEF DraftInv, jobVars, pageVars, lockVars, workerVars, bounds
<1>0. /\ pc \in [Workers -> Phases]
      /\ base \in [Workers -> PageType] /\ draft \in [Workers -> PageType]
      /\ ~Exists(NoPage)
    BY DEF TypeOK, NoPage, PageOf, Exists
<1>1. ASSUME NEW j \in Jobs, Enqueue(j) PROVE DraftInv'
    BY <1>1 DEF Enqueue
<1>2. ASSUME NEW w \in Workers, Claim(w) \/ TryLock(w) \/ Restart(w) PROVE DraftInv'
    BY <1>0, <1>2 DEF Claim, TryLock, Restart
<1>3. ASSUME NEW w \in Workers, SkipOnLLMError(w) \/ OtherError(w) PROVE DraftInv'
    BY <1>0, <1>3 DEF SkipOnLLMError, OtherError
<1>4. ASSUME NEW w \in Workers, ReadPage(w) PROVE DraftInv'
    BY <1>0, <1>4 DEF ReadPage
<1>5. ASSUME NEW w \in Workers, WritePage(w) PROVE DraftInv'
  <2>1. PICK new \in Answers(w) : draft' = [draft EXCEPT ![w] = new]
    BY <1>5 DEF WritePage
  <2>2. \/ new.form = "stub"
        \/ base[w].form = "long"
        \/ base[w].content \subseteq new.content
    BY <2>1, AnswerCovers
  <2> QED
    BY <1>0, <1>5, <2>1, <2>2 DEF WritePage
<1>6. ASSUME NEW w \in Workers, Unlock(w) PROVE DraftInv'
    BY <1>0, <1>6 DEF Unlock
(* The draft is given up. *)
<1>7. ASSUME NEW w \in Workers, draft' = [draft EXCEPT ![w] = NoPage],
             \A v \in Workers \ {w} : pc'[v] = pc[v] /\ base'[v] = base[v]
      PROVE  DraftInv'
    BY <1>0, <1>7
<1>8. ASSUME NEW w \in Workers, TryFails(w) PROVE DraftInv'
  <2>1. CASE TriesLeft(w)
    BY <1>8, <2>1 DEF TryFails
  <2>2. CASE ~ TriesLeft(w)
    BY <1>0, <1>7, <1>8, <2>2 DEF TryFails, Forget
  <2> QED
    BY <2>1, <2>2
<1>9. ASSUME NEW w \in Workers, Commit(w) \/ RecordFailure(w) \/ Die(w) PROVE DraftInv'
    BY <1>0, <1>7, <1>9 DEF Commit, RecordFailure, Die, Forget
<1>10. ASSUME NEW w \in Workers, StatementFails(w) \/ ErrorOutsideLock(w) PROVE DraftInv'
    BY <1>0, <1>7, <1>10 DEF StatementFails, ErrorOutsideLock, RolledBack
<1>11. CASE UNCHANGED vars
    BY <1>11 DEF vars
<1> QED
    BY <1>1, <1>2, <1>3, <1>4, <1>5, <1>6, <1>8, <1>9, <1>10, <1>11
       DEF Next, WorkerStep, Crash, InsertCollision

(* Only a commit changes a page, and the page it changes is its job's.       *)
LEMMA OnlyCommitPublishes ==
    ASSUME TypeOK, LockInv, [Next]_vars, NEW e \in Entities, page'[e] # page[e]
    PROVE  \E w \in Workers : /\ Commit(w)
                              /\ Target(w) = e
                              /\ page'[e] = CommittedPage(w)
<1> USE DEF jobVars, pageVars, lockVars, workerVars, bounds
<1>1. page' # page
    OBVIOUS
<1>2. PICK w \in Workers : Commit(w)
    BY <1>1 DEF Next, WorkerStep, vars, Enqueue, Claim, TryLock, TryFails, ReadPage, WritePage,
       InsertCollision, Unlock, RecordFailure, Restart, SkipOnLLMError, OtherError,
       StatementFails, ErrorOutsideLock, Crash, Die
<1> QED
    BY <1>2 DEF Commit, TypeOK

(* A page appears or changes only with the completion of the job that wrote  *)
(* it, for any number of workers, errors and crashes.                        *)
THEOREM PagesComeWithCompletion == Spec => PublishedWithCompletion
<1> DEFINE Inv == TypeOK /\ LockInv /\ PageInv
           Published == \A e \in Entities : page'[e] # page[e]
                            => \E j \in Jobs : /\ Entity[j] = e
                                               /\ queue[j] = "processing"
                                               /\ queue'[j] = "completed"
<1>1. Inv /\ [Next]_vars => Inv'
    BY TypeStep, LockStep, JobStep, DraftStep DEF PageInv
<1>2. Inv /\ [Next]_vars => [Published]_vars
  <2> SUFFICES ASSUME Inv, [Next]_vars, NEW e \in Entities, page'[e] # page[e]
               PROVE  \E j \in Jobs : /\ Entity[j] = e
                                      /\ queue[j] = "processing"
                                      /\ queue'[j] = "completed"
      OBVIOUS
  <2>1. PICK w \in Workers : Commit(w) /\ Target(w) = e
    BY OnlyCommitPublishes
  <2>2. job[w] \in Jobs /\ queue[job[w]] = "processing"
    BY <2>1 DEF LockInv, HoldsJob, PageInv, JobInv, Working, Commit
  <2>3. queue'[job[w]] = "completed"
    BY <2>1, <2>2 DEF Commit, StatusAtCommit, TypeOK
  <2> QED
    BY <2>1, <2>2, <2>3 DEF Target
<1>3. Init => Inv
    BY InitInv, PageInit
<1>4. [][Published]_vars <=> PublishedWithCompletion
    BY DEF PublishedWithCompletion
<1> QED
    BY <1>1, <1>2, <1>3, <1>4, PTL DEF Spec

(* Provided the LLM keeps what it is shown, a page loses content only to a   *)
(* worker that read it before the version it overwrites was committed, to a  *)
(* stub, or because it is longer than what the prompt shows of it.           *)
THEOREM LossesAreExplained == Spec => LossExplained
<1> DEFINE Inv == TypeOK /\ LockInv /\ PageInv
           Overwritten(w, e) == \/ base[w] # page[e]
                                \/ page'[e].form = "stub"
                                \/ page[e].form = "long"
           Kept == \A e \in Entities :
                        page[e].content \subseteq page'[e].content
                        \/ \E w \in Workers : /\ pc[w] = "committing" /\ pc'[w] = "idle"
                                              /\ Target(w) = e
                                              /\ Overwritten(w, e)
<1>1. Inv /\ [Next]_vars => Inv'
    BY TypeStep, LockStep, JobStep, DraftStep DEF PageInv
<1>2. Inv /\ [Next]_vars => [Kept]_vars
  <2> SUFFICES ASSUME Inv, [Next]_vars, NEW e \in Entities, page'[e] # page[e]
               PROVE  page[e].content \subseteq page'[e].content
                        \/ \E w \in Workers : /\ pc[w] = "committing" /\ pc'[w] = "idle"
                                              /\ Target(w) = e
                                              /\ Overwritten(w, e)
      OBVIOUS
  <2>1. PICK w \in Workers : Commit(w) /\ Target(w) = e /\ page'[e] = CommittedPage(w)
    BY OnlyCommitPublishes
  <2>2. Exists(draft[w]) /\ page'[e] = draft[w]
    BY <2>1 DEF CommittedPage
  <2>3. \/ page'[e].form = "stub"
        \/ base[w].form = "long"
        \/ base[w].content \subseteq page'[e].content
    BY <2>2 DEF PageInv, DraftInv
  <2>4. pc[w] = "committing" /\ pc'[w] = "idle"
    BY <2>1 DEF Commit, TypeOK
  <2> QED
    BY <2>1, <2>3, <2>4
<1>3. Init => Inv
    BY InitInv, PageInit
<1> QED
    BY <1>1, <1>2, <1>3, PTL DEF Spec, LossExplained
=============================================================================
