-------------------------- MODULE QueryRequestsProofs --------------------------
(***************************************************************************)
(* What concurrent queries leave behind and how they wait for each other,  *)
(* for any number of requests, whatever chunks each of them reads.         *)
(***************************************************************************)
EXTENDS QueryRequests, WellFoundedInduction, TLAPS

(* A flush has a next row: a set of keys that is not empty has a least one.  *)
LEMMA LeastKey ==
    ASSUME NEW D, D \subseteq Nat, D # {}
    PROVE  \E c \in D : \A d \in D : c <= d
<1>1. PICK c \in D : \A d \in D : ~ (<<d, c>> \in OpToRel(<, Nat))
    BY NatLessThanWellFounded, WFMin
<1>2. \A d \in D : ~ (d < c)
    BY <1>1 DEF OpToRel
<1> QED
    BY <1>2

(* And a greatest one, if it is bounded.                                     *)
LEMMA GreatestKey ==
    ASSUME NEW D, D \subseteq Nat, D # {}, NEW n \in Nat, \A d \in D : d <= n
    PROVE  \E c \in D : \A d \in D : d <= c
<1> DEFINE Distances == {n - d : d \in D}
<1>1. Distances \subseteq Nat /\ Distances # {}
  <2>1. \A d \in D : n - d \in Nat
    OBVIOUS
  <2>2. Distances # {}
    OBVIOUS
  <2> QED
    BY <2>1, <2>2
<1>2. PICK e \in Distances : \A f \in Distances : e <= f
    BY <1>1, LeastKey
<1>3. PICK c \in D : e = n - c
    OBVIOUS
<1>4. ASSUME NEW d \in D PROVE d <= c
  <2>1. n - d \in Distances
    OBVIOUS
  <2>2. n - c <= n - d
    BY <1>2, <1>3, <2>1
  <2>3. c \in Nat /\ d \in Nat
    OBVIOUS
  <2> QED
    BY <2>2, <2>3
<1> QED
    BY <1>4

LEMMA NextDirtyIsLeast ==
    ASSUME NEW r \in Requests, dirty[r] \subseteq Chunks, dirty[r] # {}
    PROVE  /\ NextDirty(r) \in dirty[r]
           /\ \A d \in dirty[r] : NextDirty(r) <= d
<1>1. dirty[r] \subseteq Nat
    BY QueryAssumption DEF QueryAssumption
<1>2. \E c \in dirty[r] : \A d \in dirty[r] : c <= d
    BY <1>1, LeastKey
<1> QED
    BY <1>2 DEF NextDirty

-----------------------------------------------------------------------------
(* The invariant *)

Early == {"start", "asking", "rules"}

(* A row that is locked exists, and its owner has its embedding in memory.   *)
Locks ==
    /\ \A c \in Chunks : rowLock[c] # NoRequest => c \in rows /\ c \in known[rowLock[c]]
    /\ \A r \in Requests : dirty[r] \subseteq known[r]

(* What is committed belongs to requests that are through with an answer.    *)
Answered ==
    /\ \A r \in plans : pc[r] = "ended" /\ reply[r] = "ok"
    /\ \A r \in Requests : pc[r] = "committing" => reply[r] = "ok"
    /\ \A c \in embedded : \E r \in plans : c \in known[r]

(* A request that is not a comparison holds no row before it commits, and    *)
(* from then on takes the rows in the order of their keys.                   *)
PlainRequest(r) ==
    /\ pc[r] # "committing" => \A c \in Chunks : rowLock[c] # r
    /\ pc[r] \in {"planned", "part", "scoring"} => dirty[r] = {}
    /\ \A c \in Chunks, d \in dirty[r] : rowLock[c] = r => c < d

Order ==
    /\ \A r \in Requests : part[r] >= 1
    /\ \A r \in Requests : pc[r] \in Early =>
            dirty[r] = {} /\ \A c \in Chunks : rowLock[c] # r
    /\ \A r \in Requests : kind[r] # "comparison" => PlainRequest(r)

Types == TypeOK /\ Locks

QueryInv == Types /\ Answered /\ Order

LEMMA QueryInit == Init => QueryInv
<1> SUFFICES ASSUME Init PROVE QueryInv
    OBVIOUS
<1>0. /\ NoRequest \notin Requests /\ MaxTries \in Nat /\ MaxTries >= 1 /\ MaxFaults \in Nat
    BY QueryAssumption DEF QueryAssumption
<1>1. TypeOK
    BY <1>0 DEF Init, TypeOK
<1>2. Locks /\ Answered /\ Order
    BY <1>0 DEF Init, Locks, Answered, Order, PlainRequest
<1> QED
    BY <1>1, <1>2 DEF QueryInv, Types

-----------------------------------------------------------------------------
(* Commit and rollback *)

LEMMA UnlockedRows ==
    ASSUME TypeOK, NEW r \in Requests
    PROVE  /\ Unlocked(r) \in [Chunks -> Requests \cup {NoRequest}]
           /\ \A c \in Chunks : /\ Unlocked(r)[c] # r
                                /\ Unlocked(r)[c] # NoRequest => Unlocked(r)[c] = rowLock[c]
BY QueryAssumption DEF Unlocked, TypeOK, QueryAssumption

Replies == {"ok", "refused", "failed"}

(* A request that fails takes nothing with it but its own locks.             *)
LEMMA FailKeeps ==
    ASSUME QueryInv, NEW r \in Requests, NEW answer \in Replies,
           pc[r] # "ended", Fail(r, answer),
           tries' = tries, faults' \in 0 .. MaxFaults
    PROVE  QueryInv'
<1> USE DEF QueryInv, Types, Fail, table
<1>1. TypeOK'
    BY UnlockedRows DEF TypeOK, Replies
<1>2. Locks'
    BY UnlockedRows DEF Locks, TypeOK
<1>3. Answered'
    BY DEF Answered, TypeOK
<1>4. Order'
  <2>0. /\ NoRequest \notin Requests /\ pc'[r] = "ended" /\ dirty'[r] = {}
        /\ \A s \in Requests \ {r} : pc'[s] = pc[s] /\ dirty'[s] = dirty[s]
        /\ \A c \in Chunks : /\ rowLock'[c] # r
                             /\ rowLock'[c] # NoRequest => rowLock'[c] = rowLock[c]
        /\ kind' = kind /\ part' = part
    BY UnlockedRows, QueryAssumption DEF TypeOK, QueryAssumption
  <2>1. \A s \in Requests : part'[s] >= 1
    BY <2>0 DEF Order
  <2>2. ASSUME NEW s \in Requests, pc'[s] \in Early
        PROVE  dirty'[s] = {} /\ \A c \in Chunks : rowLock'[c] # s
    <3>1. CASE s = r
      BY <2>0, <3>1
    <3>2. CASE s # r
      BY <2>0, <2>2, <3>2 DEF Order
    <3> QED
      BY <3>1, <3>2
  <2>3. ASSUME NEW s \in Requests, kind'[s] # "comparison" PROVE PlainRequest(s)'
    <3>1. CASE s = r
      BY <2>0, <3>1 DEF PlainRequest
    <3>2. CASE s # r
      <4>1. PlainRequest(s) /\ pc'[s] = pc[s] /\ dirty'[s] = dirty[s]
        BY <2>0, <2>3, <3>2 DEF Order
      <4> HIDE DEF Fail, Types, QueryInv, table
      <4> QED
        BY <2>0, <4>1 DEF PlainRequest
    <3> QED
      BY <3>1, <3>2
  <2> QED
    BY <2>1, <2>2, <2>3 DEF Order
<1> QED
    BY <1>1, <1>2, <1>3, <1>4

(* The steps of the classification change nothing but the request's place.   *)
LEMMA ProceedKeeps ==
    ASSUME QueryInv, NEW r \in Requests,
           pc[r] \in Early \cup {"planned"},
           NEW next \in Early \cup {"planned", "part"}, next \in Early => pc[r] \in Early,
           pc[r] = "planned" => kind' = kind,
           Proceed(r, next),
           kind' \in [Requests -> Kinds \cup {"none"}],
           \A s \in Requests \ {r} : kind'[s] = kind[s],
           tries' \in [Requests -> 0 .. MaxTries], faults' = faults
    PROVE  QueryInv'
<1> USE DEF QueryInv, Types, Proceed, table, session
<1>1. TypeOK'
    BY DEF TypeOK, Early
<1>2. Locks'
    BY DEF Locks
<1>3. Answered'
    BY DEF Answered, TypeOK, Early
<1>4. Order'
  <2>0. /\ pc' = [pc EXCEPT ![r] = next] /\ pc \in [Requests -> {"start", "asking", "rules",
              "planned", "part", "scoring", "answering", "committing", "ended"}]
        /\ UNCHANGED <<dirty, rowLock, part>>
    BY DEF TypeOK
  <2>1. \A s \in Requests : part'[s] >= 1
    BY <2>0 DEF Order
  <2>2. \A s \in Requests : pc'[s] \in Early =>
            dirty'[s] = {} /\ \A c \in Chunks : rowLock'[c] # s
    BY <2>0 DEF Order
  <2>3. ASSUME NEW s \in Requests, kind'[s] # "comparison" PROVE PlainRequest(s)'
    <3>1. CASE s # r
      BY <2>0, <2>3, <3>1 DEF Order, PlainRequest
    <3>2. CASE s = r /\ pc[r] \in Early
      BY <2>0, <3>2 DEF Order, PlainRequest, Early
    <3>3. CASE s = r /\ pc[r] = "planned"
      BY <2>0, <2>3, <3>3 DEF Order, PlainRequest, Early
    <3> QED
      BY <3>1, <3>2, <3>3
  <2> QED
    BY <2>1, <2>2, <2>3 DEF Order
<1> QED
    BY <1>1, <1>2, <1>3, <1>4

-----------------------------------------------------------------------------
(* The other steps *)

LEMMA FlushRowKeeps ==
    ASSUME QueryInv, NEW r \in Requests, FlushRow(r)
    PROVE  QueryInv'
<1> DEFINE c == NextDirty(r)
<1> USE DEF QueryInv, Types, table, asking
<1>1. /\ c \in dirty[r] /\ c \in Chunks /\ c \in known[r]
      /\ \A d \in dirty[r] : c <= d
    BY NextDirtyIsLeast DEF FlushRow, Flushing, TypeOK, Locks
<1>2. /\ c \in rows /\ rowLock[c] \in {NoRequest, r}
      /\ rowLock' = [rowLock EXCEPT ![c] = r]
      /\ dirty' = [dirty EXCEPT ![r] = @ \ {c}]
      /\ pc' = pc /\ kind' = kind /\ part' = part /\ known' = known /\ reply' = reply
      /\ rows' = rows /\ plans' = plans /\ embedded' = embedded
      /\ tries' = tries /\ faults' = faults
      /\ pc[r] \in {"part", "committing"} /\ dirty[r] # {}
    BY DEF FlushRow, Flushing
<1> HIDE DEF c
<1>3. TypeOK'
    BY <1>1, <1>2 DEF TypeOK
<1>4. Locks'
    BY <1>1, <1>2 DEF Locks, TypeOK
<1>5. Answered'
    BY <1>2 DEF Answered
<1>6. Order'
  <2>1. ASSUME NEW s \in Requests, kind'[s] # "comparison" PROVE PlainRequest(s)'
    <3>1. CASE s # r
      BY <1>1, <1>2, <2>1, <3>1, QueryAssumption
         DEF Order, PlainRequest, TypeOK, QueryAssumption
    <3>2. CASE s = r
      <4>1. pc[r] = "committing"
        BY <1>2, <2>1, <3>2 DEF Order, PlainRequest
      <4>2. ASSUME NEW b \in Chunks, NEW d \in dirty'[r], rowLock'[b] = r PROVE b < d
        <5>1. d \in dirty[r] /\ d # c /\ d \in Nat /\ c \in Nat
          BY <1>1, <1>2, <4>2, QueryAssumption DEF TypeOK, QueryAssumption
        <5>2. CASE b = c
          BY <1>1, <5>1, <5>2
        <5>3. CASE b # c
          BY <1>2, <2>1, <3>2, <4>2, <5>1, <5>3 DEF Order, PlainRequest, TypeOK
        <5> QED
          BY <5>2, <5>3
      <4> QED
        BY <1>2, <3>2, <4>1, <4>2 DEF PlainRequest
    <3> QED
      BY <3>1, <3>2
  <2>2. \A s \in Requests : pc'[s] \in Early =>
            dirty'[s] = {} /\ \A b \in Chunks : rowLock'[b] # s
    BY <1>1, <1>2 DEF Order, Early, TypeOK
  <2> QED
    BY <1>2, <2>1, <2>2 DEF Order
<1> QED
    BY <1>3, <1>4, <1>5, <1>6

LEMMA FlushMissesRowKeeps ==
    ASSUME QueryInv, NEW r \in Requests, FlushMissesRow(r)
    PROVE  QueryInv'
<1> USE DEF QueryInv, Types, table, asking, FlushMissesRow
<1>1. TypeOK'
    BY DEF TypeOK
<1>2. Locks'
    BY DEF Locks, TypeOK
<1>3. Answered'
    BY DEF Answered
<1>4. Order'
    BY DEF Order, PlainRequest, TypeOK
<1> QED
    BY <1>1, <1>2, <1>3, <1>4

LEMMA ReadChunksKeeps ==
    ASSUME QueryInv, NEW r \in Requests, ReadChunks(r)
    PROVE  QueryInv'
<1> USE DEF QueryInv, Types, table, asking, ReadChunks
<1>1. TypeOK'
    BY DEF TypeOK
<1>2. Locks'
    BY DEF Locks, TypeOK
<1>3. Answered'
    BY DEF Answered, TypeOK
<1>4. Order'
    BY DEF Order, PlainRequest, TypeOK, Early
<1> QED
    BY <1>1, <1>2, <1>3, <1>4

LEMMA EmbedKeeps ==
    ASSUME QueryInv, NEW r \in Requests, Embed(r)
    PROVE  QueryInv'
<1> USE DEF QueryInv, Types, table, asking, Embed
<1>1. Bare(r) \subseteq Chunks
    BY DEF Bare, TypeOK
<1>2. part[r] \in Nat /\ part[r] >= 1
    BY DEF TypeOK, Order
<1>3. CASE part[r] < Parts(r)
  <2>1. kind[r] = "comparison"
    BY <1>2, <1>3 DEF Parts
  <2>2. TypeOK'
    BY <1>1, <1>2, <1>3 DEF TypeOK
  <2>3. Locks'
    BY DEF Locks, TypeOK
  <2>4. Answered'
    BY <1>3 DEF Answered, TypeOK
  <2>5. Order'
    BY <1>2, <1>3, <2>1 DEF Order, PlainRequest, TypeOK, Early
  <2> QED
    BY <2>2, <2>3, <2>4, <2>5
<1>4. CASE ~(part[r] < Parts(r))
  <2>1. TypeOK'
    BY <1>1, <1>4 DEF TypeOK
  <2>2. Locks'
    BY DEF Locks, TypeOK
  <2>3. Answered'
    BY <1>4 DEF Answered, TypeOK
  <2>4. Order'
    BY <1>4 DEF Order, PlainRequest, TypeOK, Early
  <2> QED
    BY <2>1, <2>2, <2>3, <2>4
<1> QED
    BY <1>3, <1>4

LEMMA AnswerKeeps ==
    ASSUME QueryInv, NEW r \in Requests, Answer(r)
    PROVE  QueryInv'
<1> USE DEF QueryInv, Types, table, asking, session, Answer
<1>1. TypeOK'
    BY DEF TypeOK
<1>2. Locks'
    BY DEF Locks
<1>3. Answered'
    BY DEF Answered, TypeOK
<1>4. Order'
    BY DEF Order, PlainRequest, TypeOK, Early
<1> QED
    BY <1>1, <1>2, <1>3, <1>4

LEMMA CommitKeeps ==
    ASSUME QueryInv, NEW r \in Requests, Commit(r)
    PROVE  QueryInv'
<1> USE DEF QueryInv, Types, asking, session, Commit
<1>0. /\ plans' = plans \cup {r}
      /\ \A c \in Owned(r) : c \in rows /\ c \in known[r]
    BY QueryAssumption DEF PlansAtCommit, Owned, Locks, QueryAssumption
<1>1. TypeOK'
    BY <1>0, UnlockedRows DEF TypeOK
<1>2. Locks'
    BY UnlockedRows DEF Locks, TypeOK
<1>3. Answered'
    BY <1>0 DEF Answered, TypeOK
<1>4. Order'
  <2>1. ASSUME NEW s \in Requests, kind'[s] # "comparison" PROVE PlainRequest(s)'
    BY <2>1, UnlockedRows, QueryAssumption DEF Order, PlainRequest, TypeOK, QueryAssumption
  <2>2. \A s \in Requests : pc'[s] \in Early =>
            dirty'[s] = {} /\ \A c \in Chunks : rowLock'[c] # s
    BY UnlockedRows, QueryAssumption DEF Order, Early, TypeOK, QueryAssumption
  <2> QED
    BY <2>1, <2>2 DEF Order
<1> QED
    BY <1>1, <1>2, <1>3, <1>4

LEMMA DeleteChunkKeeps ==
    ASSUME QueryInv, NEW c \in Chunks, DeleteChunk(c)
    PROVE  QueryInv'
<1> USE DEF QueryInv, Types, asking, session, DeleteChunk
<1>1. faults' \in 0 .. MaxFaults
    BY QueryAssumption DEF Fault, TypeOK, QueryAssumption
<1>2. TypeOK'
    BY <1>1 DEF TypeOK
<1>3. Locks'
    BY DEF Locks
<1>4. Answered'
    BY DEF Answered
<1>5. Order'
    BY DEF Order, PlainRequest
<1> QED
    BY <1>2, <1>3, <1>4, <1>5

-----------------------------------------------------------------------------

(* The steps of classify_query, and the insertion of the plan row.           *)
LEMMA ClassifyKeeps ==
    ASSUME QueryInv, NEW r \in Requests, Classify(r) \/ InsertPlan(r)
    PROVE  QueryInv'
<1>0. /\ MaxTries \in Nat /\ MaxTries >= 1 /\ TypeOK
      /\ Explicit[r] \in Kinds \cup {"none"} /\ Keyword[r] \in Kinds \cup {"none"}
      /\ faults \in 0 .. MaxFaults
    BY QueryAssumption DEF QueryAssumption, QueryInv, Types, TypeOK
<1> USE DEF asking, Early
<1>1. CASE Ask(r)
  <2>1. tries' \in [Requests -> 0 .. MaxTries]
    BY <1>0, <1>1 DEF Ask, TypeOK
  <2> QED
    BY <1>0, <1>1, <2>1, ProceedKeeps DEF Ask, TypeOK
<1>2. CASE TakeExplicit(r)
  <2>1. kind' \in [Requests -> Kinds \cup {"none"}] /\ \A s \in Requests \ {r} : kind'[s] = kind[s]
    BY <1>0, <1>2 DEF TakeExplicit, TypeOK
  <2> QED
    BY <1>0, <1>2, <2>1, ProceedKeeps DEF TakeExplicit, TypeOK
<1>3. CASE LLMClassifies(r)
  <2>1. kind' \in [Requests -> Kinds \cup {"none"}] /\ \A s \in Requests \ {r} : kind'[s] = kind[s]
    BY <1>0, <1>3 DEF LLMClassifies, TypeOK
  <2> QED
    BY <1>0, <1>3, <2>1, ProceedKeeps DEF LLMClassifies, TypeOK
<1>4. CASE LLMIsUnsure(r)
    BY <1>0, <1>4, FailKeeps DEF LLMIsUnsure, Replies
<1>5. CASE LLMTalksNonsense(r)
    BY <1>0, <1>5, ProceedKeeps DEF LLMTalksNonsense, TypeOK
<1>6. CASE LLMAnswersOddly(r)
    BY <1>0, <1>6, FailKeeps DEF LLMAnswersOddly, Replies
<1>7. CASE LLMFails(r)
  <2>1. tries' \in [Requests -> 0 .. MaxTries]
    BY <1>0, <1>7 DEF LLMFails, TriesLeft, TypeOK
  <2> QED
    BY <1>0, <1>7, <2>1, ProceedKeeps DEF LLMFails, TypeOK
<1>8. CASE ApplyRules(r)
  <2>1. CASE Keyword[r] # "none"
    <3>1. kind' \in [Requests -> Kinds \cup {"none"}] /\ \A s \in Requests \ {r} : kind'[s] = kind[s]
      BY <1>0, <1>8, <2>1 DEF ApplyRules, TypeOK
    <3> QED
      BY <1>0, <1>8, <2>1, <3>1, ProceedKeeps DEF ApplyRules, TypeOK
  <2>2. CASE Keyword[r] = "none"
    BY <1>0, <1>8, <2>2, FailKeeps DEF ApplyRules, Replies
  <2> QED
    BY <2>1, <2>2
<1>9. CASE InsertPlan(r)
    BY <1>0, <1>9, ProceedKeeps DEF InsertPlan, TypeOK
<1> QED
    BY <1>1, <1>2, <1>3, <1>4, <1>5, <1>6, <1>7, <1>8, <1>9 DEF Classify

(* The steps in which a request ends with an error.                          *)
LEMMA FailuresKeep ==
    ASSUME QueryInv, NEW r \in Requests,
           \/ StatementFails(r) \/ EmbedFails(r) \/ AnswerFails(r)
           \/ CommitFails(r) \/ DeadlockVictim(r) \/ RowIsGone(r)
    PROVE  QueryInv'
<1>0. /\ MaxFaults \in Nat /\ faults \in 0 .. MaxFaults
      /\ AnswerOfFailedFlush(r) \in Replies
    BY QueryAssumption DEF QueryAssumption, QueryInv, Types, TypeOK, AnswerOfFailedFlush, Replies
<1>1. Fault => faults' \in 0 .. MaxFaults
    BY <1>0 DEF Fault
<1> USE DEF asking
<1>2. CASE StatementFails(r)
    BY <1>1, <1>2, FailKeeps DEF StatementFails, Replies
<1>3. CASE EmbedFails(r)
    BY <1>0, <1>3, FailKeeps DEF EmbedFails, Replies
<1>4. CASE AnswerFails(r)
    BY <1>0, <1>4, FailKeeps DEF AnswerFails, Replies
<1>5. CASE CommitFails(r)
    BY <1>1, <1>5, FailKeeps DEF CommitFails, Replies
<1>6. CASE DeadlockVictim(r)
  <2>1. pc[r] # "ended"
    BY <1>6 DEF DeadlockVictim, Deadlocked, WaitCycle, WaitsFor, Flushing
  <2> QED
    BY <1>0, <1>6, <2>1, FailKeeps DEF DeadlockVictim
<1>7. CASE RowIsGone(r)
  <2>1. pc[r] # "ended"
    BY <1>7 DEF RowIsGone, Flushing
  <2> QED
    BY <1>0, <1>7, <2>1, FailKeeps DEF RowIsGone
<1> QED
    BY <1>2, <1>3, <1>4, <1>5, <1>6, <1>7

LEMMA QueryStep == QueryInv /\ [Next]_vars => QueryInv'
<1> SUFFICES ASSUME QueryInv, [Next]_vars PROVE QueryInv'
    OBVIOUS
<1>1. ASSUME NEW r \in Requests, Step(r) PROVE QueryInv'
    BY <1>1, ClassifyKeeps, FlushRowKeeps, FlushMissesRowKeeps, ReadChunksKeeps, EmbedKeeps,
       AnswerKeeps, CommitKeeps, FailuresKeep DEF Step
<1>2. ASSUME NEW c \in Chunks, DeleteChunk(c) PROVE QueryInv'
    BY <1>2, DeleteChunkKeeps
<1>3. CASE UNCHANGED vars
  <2>1. TypeOK'
    BY <1>3 DEF vars, session, table, asking, QueryInv, Types, TypeOK
  <2>2. Locks' /\ Answered' /\ Order'
    BY <1>3 DEF vars, session, table, asking, QueryInv, Types, Locks, Answered, Order, PlainRequest
  <2> QED
    BY <2>1, <2>2 DEF QueryInv, Types
<1> QED
    BY <1>1, <1>2, <1>3 DEF Next

THEOREM QueryInvariant == Spec => []QueryInv
BY QueryInit, QueryStep, PTL DEF Spec

(* Sessions, plans and embeddings keep their types.                          *)
THEOREM RequestTypes == Spec => []TypeOK
<1>1. QueryInv => TypeOK
    BY DEF QueryInv, Types
<1> QED
    BY <1>1, QueryInvariant, PTL

(* A request that waits for a plain one needs a smaller row than that one.   *)
LEMMA WaitsUpwards ==
    ASSUME QueryInv, NEW r \in Requests, NEW s \in Requests,
           WaitsFor(r, s), kind[s] # "comparison", dirty[s] # {}
    PROVE  /\ NextDirty(r) \in Chunks /\ NextDirty(s) \in Chunks
           /\ NextDirty(r) < NextDirty(s)
<1>1. PlainRequest(s) /\ TypeOK
    BY DEF QueryInv, Types, Order
<1>2. /\ NextDirty(r) \in Chunks
      /\ NextDirty(s) \in dirty[s] /\ NextDirty(s) \in Chunks
    BY <1>1, NextDirtyIsLeast DEF WaitsFor, Flushing, TypeOK
<1>3. rowLock[NextDirty(r)] = s
    BY DEF WaitsFor
<1> QED
    BY <1>1, <1>2, <1>3 DEF PlainRequest

(* Requests wait for each other in a circle only if one of them is a         *)
(* comparison: everybody else takes rows in one flush, in the order of their *)
(* keys, so that along the circle the keys would grow for ever.              *)
THEOREM CirclesNeedComparison == Spec => []DeadlockNeedsComparison
<1>1. QueryInv => DeadlockNeedsComparison
  <2> SUFFICES ASSUME QueryInv, NEW S \in SUBSET Requests, WaitCycle(S),
                      \A r \in S : kind[r] # "comparison"
               PROVE  FALSE
      BY DEF DeadlockNeedsComparison
  <2> DEFINE Needed == {NextDirty(r) : r \in S}
  <2>1. \A r \in S : dirty[r] # {}
    BY DEF WaitCycle, WaitsFor, Flushing
  <2>2. \A r \in S : \E s \in S : NextDirty(r) \in Chunks /\ NextDirty(r) < NextDirty(s)
    BY <2>1, WaitsUpwards DEF WaitCycle
  <2>3. PICK n \in Nat : \A c \in Chunks : c \in Nat /\ c <= n
    BY QueryAssumption DEF QueryAssumption
  <2>4. Needed \subseteq Nat /\ Needed # {} /\ \A d \in Needed : d <= n
    BY <2>2, <2>3 DEF WaitCycle
  <2>5. PICK c \in Needed : \A d \in Needed : d <= c
    BY <2>4, GreatestKey
  <2>6. PICK s \in S : c < NextDirty(s)
    BY <2>2, <2>5
  <2>7. NextDirty(s) \in Needed
    OBVIOUS
  <2> QED
    BY <2>4, <2>5, <2>6, <2>7
<1> QED
    BY <1>1, QueryInvariant, PTL

(* A plan row or an embedding is committed only by a request that has        *)
(* answered its client, whatever fails and whoever deletes chunks meanwhile. *)
THEOREM OnlyAnswersLeaveTraces == Spec => [](TypeOK /\ TracesOfAnsweredOnly)
<1>1. QueryInv => TypeOK /\ TracesOfAnsweredOnly
    BY DEF QueryInv, Types, Answered, TracesOfAnsweredOnly
<1> QED
    BY <1>1, QueryInvariant, PTL
=============================================================================
