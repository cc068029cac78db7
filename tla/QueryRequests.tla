---------------------------- MODULE QueryRequests ----------------------------
(***************************************************************************)
(* Concurrent POST /api/query requests (api/routes/query.py): the          *)
(* classification of the query (planner/query.py) through the retrying     *)
(* provider (providers/__init__.py), the plan row, the retrieval as far as *)
(* it writes - chunks without an embedding are embedded and updated        *)
(* (retrieval/context.py) - and the commit of get_db (db/session.py) after *)
(* the response has been sent.                                             *)
(*                                                                         *)
(* What a retrieval returns is in Retrieval.  Here it is the sequence of   *)
(* sets of chunks that its parts read: one part for a plain query, one per *)
(* entity for a comparison.                                                *)
(***************************************************************************)
EXTENDS Naturals, Sequences, FiniteSets

CONSTANTS
    Requests, NoRequest,
    Chunks,      (* the primary keys of the chunks, in their order          *)
    Reads,       (* per request: the chunks of each entity it is about      *)
    Key,         (* the query, lower case and stripped                      *)
    Explicit,    (* query_type of the request, or "none"                    *)
    Keyword,     (* what the keyword rules make of the query, or "none"     *)
    MaxTries,    (* attempts of the provider wrapper                        *)
    MaxFaults    (* bound: failures of the database, deletions of chunks    *)

Kinds == {"plain", "comparison"}

ASSUME QueryAssumption ==
    /\ NoRequest \notin Requests
    /\ Chunks \subseteq Nat
    /\ \E greatest \in Chunks : \A c \in Chunks : c <= greatest
    /\ Reads \in [Requests -> Seq(SUBSET Chunks)]
    /\ Explicit \in [Requests -> Kinds \cup {"none"}]
    /\ Keyword \in [Requests -> Kinds \cup {"none"}]
    /\ MaxTries \in Nat \ {0} /\ MaxFaults \in Nat

VARIABLES
    pc, reply,   (* where a request is, and what its client has got         *)
    kind,        (* classified_type, as far as it matters                   *)
    tries,       (* calls of the LLM so far for the classification          *)
    part,        (* the part of the retrieval under way                     *)
    known,       (* chunks whose embedding the request's session holds      *)
    dirty,       (* chunks it has embedded and not flushed yet              *)
    rowLock,     (* the request whose transaction has updated a chunk       *)
    rows, embedded,   (* committed chunks, and those with an embedding      *)
    plans,       (* requests whose plan row is committed                    *)
    faults,
    classified,  (* history: queries the LLM has classified                 *)
    again        (* history: queries the LLM was asked about after that     *)

session  == <<part, known, dirty>>
table    == <<rows, embedded, plans>>
asking   == <<tries, classified, again>>
vars     == <<pc, reply, kind, asking, session, rowLock, table, faults>>

Owned(r) == {c \in Chunks : rowLock[c] = r}

Init ==
    /\ pc = [r \in Requests |-> "start"]
    /\ reply = [r \in Requests |-> "none"]
    /\ kind = [r \in Requests |-> "none"]
    /\ tries = [r \in Requests |-> 0]
    /\ part = [r \in Requests |-> 1]
    /\ known = [r \in Requests |-> {}]
    /\ dirty = [r \in Requests |-> {}]
    /\ rowLock = [c \in Chunks |-> NoRequest]
    /\ rows = Chunks
    /\ embedded = {}
    /\ plans = {}
    /\ faults = 0
    /\ classified = {}
    /\ again = {}

Fault == faults < MaxFaults /\ faults' = faults + 1

-----------------------------------------------------------------------------
(* Ends of a request *)

(* Mutant: the rollback leaves the locks of the rows it had updated. *)
UnlockedKept(r) == rowLock

(* Commit and rollback release the rows. *)
Unlocked(r) == [c \in Chunks |-> IF rowLock[c] = r THEN NoRequest ELSE rowLock[c]]

(* The handler raises: the error handlers of main.py answer, and get_db      *)
(* rolls back.                                                               *)
Fail(r, answer) ==
    /\ pc' = [pc EXCEPT ![r] = "ended"]
    /\ reply' = [reply EXCEPT ![r] = answer]
    /\ rowLock' = Unlocked(r)
    /\ dirty' = [dirty EXCEPT ![r] = {}]
    /\ UNCHANGED <<kind, part, known, table>>

Proceed(r, next) ==
    /\ pc' = [pc EXCEPT ![r] = next]
    /\ UNCHANGED <<reply, session, rowLock, table>>

-----------------------------------------------------------------------------
(* classify_query *)

(* The planner is made for this request, so that its cache is empty.         *)
Ask(r) ==
    /\ pc[r] = "start"
    /\ Explicit[r] = "none"
    /\ tries' = [tries EXCEPT ![r] = 1]
    /\ again' = IF Key[r] \in classified THEN again \cup {Key[r]} ELSE again
    /\ Proceed(r, "asking")
    /\ UNCHANGED <<kind, classified, faults>>

TakeExplicit(r) ==
    /\ pc[r] = "start"
    /\ Explicit[r] # "none"
    /\ kind' = [kind EXCEPT ![r] = Explicit[r]]
    /\ Proceed(r, "planned")
    /\ UNCHANGED <<asking, faults>>

LLMClassifies(r) ==
    /\ pc[r] = "asking"
    /\ classified' = classified \cup {Key[r]}
    /\ \E k \in Kinds : kind' = [kind EXCEPT ![r] = k]
    /\ Proceed(r, "planned")
    /\ UNCHANGED <<tries, again, faults>>

(* The confidence is below the minimum: the error is not one of those that   *)
(* fall back to the rules.                                                   *)
LLMIsUnsure(r) ==
    /\ pc[r] = "asking"
    /\ classified' = classified \cup {Key[r]}
    /\ Fail(r, "refused")
    /\ UNCHANGED <<tries, again, faults>>

(* Text that is not JSON, an unknown type, a missing key.                    *)
LLMTalksNonsense(r) ==
    /\ pc[r] = "asking"
    /\ Proceed(r, "rules")
    /\ UNCHANGED <<kind, asking, faults>>

(* JSON that is not an object, or an answer without choices: a TypeError or  *)
(* an IndexError, which nobody catches.                                      *)
LLMAnswersOddly(r) ==
    /\ pc[r] = "asking"
    /\ Fail(r, "failed")
    /\ UNCHANGED <<asking, faults>>

(* Mutant: the wrapper tries once more than it may. *)
TriesLeftAnyway(r) == tries[r] <= MaxTries

TriesLeft(r) == tries[r] < MaxTries

LLMFails(r) ==
    /\ pc[r] = "asking"
    /\ IF TriesLeft(r)
         THEN /\ tries' = [tries EXCEPT ![r] = @ + 1]
              /\ Proceed(r, "asking")
         ELSE Proceed(r, "rules") /\ UNCHANGED tries
    /\ UNCHANGED <<kind, classified, again, faults>>

(* A keyword rule is trusted; without one the default is not.                *)
ApplyRules(r) ==
    /\ pc[r] = "rules"
    /\ IF Keyword[r] # "none"
         THEN /\ kind' = [kind EXCEPT ![r] = Keyword[r]]
              /\ Proceed(r, "planned")
         ELSE Fail(r, "refused")
    /\ UNCHANGED <<asking, faults>>

-----------------------------------------------------------------------------
(* create_query, retrieve *)

(* The plan row is flushed, not committed.                                   *)
InsertPlan(r) ==
    /\ pc[r] = "planned"
    /\ Proceed(r, "part")
    /\ UNCHANGED <<kind, asking, faults>>

(* Any statement may fail.                                                   *)
StatementFails(r) ==
    /\ pc[r] \in {"planned", "part", "scoring"}
    /\ Fault
    /\ Fail(r, "failed")
    /\ UNCHANGED asking

Parts(r) == IF kind[r] = "comparison" /\ Reads[r] # <<>> THEN Len(Reads[r]) ELSE 1

ReadBy(r) ==
    IF kind[r] = "comparison" /\ Reads[r] # <<>>
      THEN Reads[r][part[r]]
      ELSE UNION {Reads[r][i] : i \in 1 .. Len(Reads[r])}

(* Mutant: the rows are updated in the order in which they were read.        *)
NextDirtyAsRead(r) ==
    LET Before(c, d) == \A i \in 1 .. Len(Reads[r]) :
            d \in Reads[r][i] => \E j \in 1 .. i : c \in Reads[r][j]
    IN  CHOOSE c \in dirty[r] : \A d \in dirty[r] : Before(c, d)

(* A flush updates in the order of the primary keys.                         *)
NextDirty(r) == CHOOSE c \in dirty[r] : \A d \in dirty[r] : c <= d

(* The ORM select that looks up the seeds flushes first; so does the commit. *)
Flushing(r) == pc[r] \in {"part", "committing"} /\ dirty[r] # {}

(* One row of a flush: waits for a row another transaction has updated.      *)
FlushRow(r) ==
    /\ Flushing(r)
    /\ LET c == NextDirty(r) IN
         /\ rowLock[c] \in {NoRequest, r}
         /\ c \in rows
         /\ rowLock' = [rowLock EXCEPT ![c] = r]
         /\ dirty' = [dirty EXCEPT ![r] = @ \ {c}]
    /\ UNCHANGED <<pc, reply, kind, asking, part, known, table, faults>>

(* The row is gone: an UPDATE that finds no row is an error, unless the rows *)
(* of a flush are sent together and not counted.                             *)
FlushMissesRow(r) ==
    /\ Flushing(r)
    /\ NextDirty(r) \notin rows
    /\ Cardinality(dirty[r]) > 1
    /\ dirty' = [dirty EXCEPT ![r] = @ \ {NextDirty(r)}]
    /\ UNCHANGED <<pc, reply, kind, asking, part, known, rowLock, table, faults>>

(* find_seeds, traverse, and the select of the chunks; those that have an    *)
(* embedding, committed or the request's own, are only read.                 *)
ReadChunks(r) ==
    /\ pc[r] = "part"
    /\ dirty[r] = {}
    /\ pc' = [pc EXCEPT ![r] = "scoring"]
    /\ known' = [known EXCEPT ![r] = @ \cup (ReadBy(r) \cap embedded)]
    /\ UNCHANGED <<reply, kind, asking, part, dirty, rowLock, table, faults>>

(* The chunks to embed.                                                      *)
Bare(r) == (ReadBy(r) \cap rows) \ known[r]

(* _score_chunk_pairs; the texts go to the provider before any is assigned.  *)
Embed(r) ==
    /\ pc[r] = "scoring"
    /\ dirty' = [dirty EXCEPT ![r] = Bare(r)]
    /\ known' = [known EXCEPT ![r] = @ \cup Bare(r)]
    /\ IF part[r] < Parts(r)
         THEN part' = [part EXCEPT ![r] = @ + 1] /\ pc' = [pc EXCEPT ![r] = "part"]
         ELSE UNCHANGED part /\ pc' = [pc EXCEPT ![r] = "answering"]
    /\ UNCHANGED <<reply, kind, asking, rowLock, table, faults>>

EmbedFails(r) ==
    /\ pc[r] = "scoring"
    /\ Bare(r) # {}
    /\ Fail(r, "failed")
    /\ UNCHANGED <<asking, faults>>

(* _generate_answer, if asked for, and the response.                         *)
Answer(r) ==
    /\ pc[r] = "answering"
    /\ reply' = [reply EXCEPT ![r] = "ok"]
    /\ pc' = [pc EXCEPT ![r] = "committing"]
    /\ UNCHANGED <<kind, asking, session, rowLock, table, faults>>

AnswerFails(r) ==
    /\ pc[r] = "answering"
    /\ Fail(r, "failed")
    /\ UNCHANGED <<asking, faults>>

-----------------------------------------------------------------------------
(* get_db *)

(* Mutant: the commit leaves out the plan row.                               *)
PlansAtCommitOld(r) == plans

PlansAtCommit(r) == plans \cup {r}

Commit(r) ==
    /\ pc[r] = "committing"
    /\ dirty[r] = {}
    /\ embedded' = embedded \cup Owned(r)
    /\ plans' = PlansAtCommit(r)
    /\ rowLock' = Unlocked(r)
    /\ pc' = [pc EXCEPT ![r] = "ended"]
    /\ UNCHANGED <<reply, kind, asking, session, rows, faults>>

(* Waits for the row it needs next, which s has updated.                     *)
WaitsFor(r, s) ==
    /\ Flushing(r)
    /\ s # r /\ rowLock[NextDirty(r)] = s

(* A request waits for one row at a time: all of S are on the cycle.         *)
WaitCycle(S) ==
    /\ S # {}
    /\ \A r \in S : \E s \in S : WaitsFor(r, s)
    /\ \A r \in S : \E s \in S : WaitsFor(s, r)

Deadlocked(r) == \E S \in SUBSET Requests : r \in S /\ WaitCycle(S)

(* What the client has got when a flush or the commit fails: nothing yet in  *)
(* the middle of a retrieval, a success after the response.                  *)
AnswerOfFailedFlush(r) == IF pc[r] = "committing" THEN "ok" ELSE "failed"

(* Postgres ends one of two transactions that wait for each other.           *)
DeadlockVictim(r) ==
    /\ Deadlocked(r)
    /\ Fail(r, AnswerOfFailedFlush(r))
    /\ UNCHANGED <<asking, faults>>

RowIsGone(r) ==
    /\ Flushing(r)
    /\ NextDirty(r) \notin rows
    /\ Fail(r, AnswerOfFailedFlush(r))
    /\ UNCHANGED <<asking, faults>>

CommitFails(r) ==
    /\ pc[r] = "committing"
    /\ Fault
    /\ Fail(r, "ok")
    /\ UNCHANGED asking

-----------------------------------------------------------------------------
(* The source of a chunk is deleted; the DELETE waits for the row's lock.    *)
DeleteChunk(c) ==
    /\ c \in rows
    /\ rowLock[c] = NoRequest
    /\ Fault
    /\ rows' = rows \ {c}
    /\ embedded' = embedded \ {c}
    /\ UNCHANGED <<pc, reply, kind, asking, session, rowLock, plans>>

Classify(r) ==
    \/ Ask(r) \/ TakeExplicit(r)
    \/ LLMClassifies(r) \/ LLMIsUnsure(r) \/ LLMTalksNonsense(r)
    \/ LLMAnswersOddly(r) \/ LLMFails(r)
    \/ ApplyRules(r)

(* The steps a request takes unless something goes wrong.                    *)
Advance(r) ==
    \/ TakeExplicit(r) \/ Ask(r) \/ ApplyRules(r)
    \/ InsertPlan(r) \/ FlushRow(r) \/ ReadChunks(r) \/ Embed(r)
    \/ Answer(r) \/ Commit(r)
    \/ DeadlockVictim(r) \/ RowIsGone(r)

Step(r) ==
    \/ Classify(r)
    \/ InsertPlan(r) \/ FlushRow(r) \/ FlushMissesRow(r) \/ ReadChunks(r)
    \/ Embed(r) \/ EmbedFails(r) \/ StatementFails(r)
    \/ Answer(r) \/ AnswerFails(r)
    \/ Commit(r) \/ CommitFails(r) \/ DeadlockVictim(r) \/ RowIsGone(r)

Next == (\E r \in Requests : Step(r)) \/ (\E c \in Chunks : DeleteChunk(c))

(* The client of the LLM has a timeout, so a call ends one way or another;   *)
(* Postgres detects a deadlock; the event loop resumes every request.        *)
Fairness ==
    \A r \in Requests :
        /\ WF_vars(Advance(r))
        /\ WF_vars(LLMClassifies(r) \/ LLMFails(r))

Spec == Init /\ [][Next]_vars /\ Fairness

-----------------------------------------------------------------------------
(* Properties *)

(* Type correctness; and an update belongs to a request that is still open.  *)
TypeOK ==
    /\ pc \in [Requests -> {"start", "asking", "rules", "planned", "part",
                            "scoring", "answering", "committing", "ended"}]
    /\ reply \in [Requests -> {"none", "ok", "refused", "failed"}]
    /\ kind \in [Requests -> Kinds \cup {"none"}]
    /\ tries \in [Requests -> 0 .. MaxTries]
    /\ part \in [Requests -> Nat]
    /\ known \in [Requests -> SUBSET Chunks]
    /\ dirty \in [Requests -> SUBSET Chunks]
    /\ rowLock \in [Chunks -> Requests \cup {NoRequest}]
    /\ rows \subseteq Chunks
    /\ embedded \subseteq rows
    /\ plans \subseteq Requests
    /\ faults \in 0 .. MaxFaults

(* Requests that read the same chunks first embed them all, and wait for     *)
(* each other's rows in a circle only if one of them is a comparison: a      *)
(* plain query flushes once, in the order of the keys (context.py:200),      *)
(* while a comparison flushes at every part (seeds.py) and may take a        *)
(* smaller key after a larger one.                                           *)
DeadlockNeedsComparison ==
    \A S \in SUBSET Requests :
        WaitCycle(S) => \E r \in S : kind[r] = "comparison"

(* What a request leaves behind, its plan row and the embeddings it has      *)
(* computed, is there only if its client got an answer; a request that       *)
(* fails anywhere leaves nothing (query.py:202, db/session.py:53).           *)
TracesOfAnsweredOnly ==
    /\ \A r \in plans : reply[r] = "ok"
    /\ embedded \subseteq UNION {known[r] : r \in plans}

(* Every request is answered, whatever it waits for, and every row it has    *)
(* updated is free in the end.                                               *)
EveryRequestAnswered ==
    /\ \A r \in Requests : <>(reply[r] # "none")
    /\ <>[](\A c \in Chunks : rowLock[c] = NoRequest)

(* "An LRU cache avoids redundant LLM calls for identical queries within the *)
(* same process" (planner/query.py:7).                                       *)
CacheAvoidsCalls == again = {}
=============================================================================
