------------------------------ MODULE Retrieval ------------------------------
(***************************************************************************)
(* One call of retrieve (retrieval/orchestrator.py): seeds, traversal and  *)
(* the assembly of the context under a token budget (retrieval/context.py),*)
(* once for a plain query and once per entity for a comparison, whose      *)
(* partial results are merged.  The database does not change meanwhile;    *)
(* what other transactions do to a request is in QueryRequests.            *)
(*                                                                         *)
(* The context has five slots that are filled one after the other, each by *)
(* the same loop: take the next item as long as it fits.  Texts are their  *)
(* lengths; what is compared with the budget is an estimate of tokens.     *)
(***************************************************************************)
EXTENDS GraphTraversal, SequencesExt

CONSTANTS
    Known,        (* the entities that have a row                           *)
    Searchable,   (* those of them that have an embedding                   *)
    None,         (* seeds[0] of an empty list                              *)
    Chunks,
    Graphs,       (* the relations the database may hold: sets of pairs     *)
    Linkings,     (* the chunk_entities rows: functions from chunk to set   *)
    Requests,     (* [ids, comparison, budget]                              *)
    Bare,         (* chunks without an embedding when the request comes     *)
    SeedCount,    (* retrieval_seed_count                                   *)
    AnchorBudget, SubgraphBudget, WikiBudget,
    AnchorChars,  (* length of an entity's anchor line                      *)
    EdgeChars,    (* length of a relation's line                            *)
    Sections,     (* the wiki page of an entity: a set of [tag, pos, chars] *)
    ChunkChars,   (* length of a chunk's text, 0 for an image               *)
    Score,        (* similarity to the query, higher is better              *)
    Near,         (* pairs of chunks at or above the dedup threshold        *)
    Instruction   (* tokens of the instruction                              *)

AllSections == UNION {Sections[e] : e \in Entities}

ASSUME RetrievalAssumption ==
    /\ Searchable \subseteq Known /\ Known \subseteq Entities
    /\ None \notin Entities
    /\ SeedCount \in Nat /\ Instruction \in Nat
    /\ AnchorBudget \in Nat /\ SubgraphBudget \in Nat /\ WikiBudget \in Nat
    /\ AnchorChars \in [Entities -> Nat]
    /\ EdgeChars \in Nat
    /\ ChunkChars \in [Chunks -> Nat]
    /\ Score \in [Chunks -> Nat]
    /\ \A s \in AllSections : s.chars \in Nat /\ s.pos \in Nat
    /\ \A r \in Requests : r.budget \in Nat /\ r.ids \in Seq(Entities)
    /\ \A rels \in Graphs : rels \subseteq Entities \X Entities
    /\ IsFiniteSet(Chunks) /\ Bare \subseteq Chunks

VARIABLES
    relations, links, request,        (* chosen in Init                     *)
    bare,         (* chunks that still lack an embedding                    *)
    pc,
    mode,         (* "single" or "comparison"                               *)
    todo,         (* entities still to be compared                          *)
    budget,       (* max_context_tokens of the part under way               *)
    seeds, first, (* the seeds, and seeds[0]                                *)
    kept, edges,  (* what traverse returned                                 *)
    seedChunks, hopChunks,    (* the scored chunks left by deduplication    *)
    slot, waiting, taken,     (* the loop that fills a slot                 *)
    used, chars,  (* its running cost, and the length of the joined text    *)
    tokens, chosen,           (* per slot: tokens counted, items taken      *)
    parts         (* finished partial results                               *)

database == <<relations, links, request>>
plan     == <<mode, todo, budget>>
found    == <<seeds, first, kept, edges>>
scored   == <<seedChunks, hopChunks, bare>>
filling  == <<slot, waiting, taken, used, chars>>
filled   == <<tokens, chosen>>
vars     == <<database, pc, plan, found, scored, filling, filled, parts>>

Slots == <<"anchor", "subgraph", "wiki", "seed", "hop">>
SlotNames == {Slots[i] : i \in 1 .. 5}

-----------------------------------------------------------------------------
(* scoring.py *)

CharsPerToken == 4

(* Short texts, and empty ones, count as one token.                          *)
EstimateTokens(n) == IF n \div CharsPerToken < 1 THEN 1 ELSE n \div CharsPerToken

(* Seed chunks come before hop chunks, each group by descending score.       *)
ScoredBefore(c, d, seedSet) ==
    \/ c \in seedSet /\ d \notin seedSet
    \/ (c \in seedSet <=> d \in seedSet) /\ Score[c] > Score[d]

(* The sort is stable: equal scores stay in the order of the database.       *)
Rankings(C, seedSet) ==
    {rank \in [C -> 1 .. Cardinality(C)] :
        /\ IsInjective(rank)
        /\ \A c, d \in C : ScoredBefore(c, d, seedSet) => rank[c] < rank[d]}

(* A chunk stays if no chunk that stays before it is too similar.            *)
Deduplicated(C, rank) ==
    CHOOSE K \in SUBSET C : \A c \in C :
        c \in K <=> ~\E d \in K : rank[d] < rank[c] /\ {c, d} \in Near

-----------------------------------------------------------------------------
(* context.py *)

(* The place of a section in ENTITY_PAGE_SECTION_PRIORITY; a tag that is not *)
(* in the list ranks with the first.                                         *)
Priority(tag) ==
    CASE tag = "relationships"  -> 1
      [] tag = "contradictions" -> 2
      [] tag = "sources"        -> 3
      [] tag = "other"          -> 4
      [] OTHER                  -> 0

CharsOf(s, item) ==
    CASE s = "anchor"   -> AnchorChars[item]
      [] s = "subgraph" -> EdgeChars
      [] s = "wiki"     -> item.chars
      [] OTHER          -> ChunkChars[item]

(* Items of a slot are tried in this order; anchors and relations come in    *)
(* the order of the database, which is any.                                  *)
Precedes(s, a, b) ==
    CASE s = "wiki" -> \/ Priority(a.tag) < Priority(b.tag)
                       \/ Priority(a.tag) = Priority(b.tag) /\ a.pos < b.pos
      [] s \in {"seed", "hop"} -> Score[a] > Score[b]
      [] OTHER -> FALSE

(* Characters between two joined items.                                      *)
Separator(s) ==
    CASE s = "wiki" -> 2 [] s \in {"seed", "hop"} -> 0 [] OTHER -> 1

(* Anchor, subgraph and page are counted on the joined text, chunks one by   *)
(* one; a missing page costs nothing.                                        *)
Counted(s) ==
    CASE s \in {"anchor", "subgraph"} -> EstimateTokens(chars)
      [] s = "wiki" -> IF first \in Known /\ Sections[first] # {} THEN EstimateTokens(chars) ELSE 0
      [] OTHER      -> used

Fixed == tokens["anchor"] + tokens["subgraph"] + tokens["wiki"] + Instruction

(* Mutant: the slots filled before are not subtracted.                       *)
ElasticOfBudget == budget

Elastic == IF budget > Fixed THEN budget - Fixed ELSE 0

SeedRoom == (6 * Elastic) \div 10

Room(s) ==
    CASE s = "anchor"   -> AnchorBudget
      [] s = "subgraph" -> SubgraphBudget
      [] s = "wiki"     -> WikiBudget
      [] s = "seed"     -> SeedRoom
      [] s = "hop"      -> Elastic - SeedRoom

Total == Fixed + tokens["seed"] + tokens["hop"]

-----------------------------------------------------------------------------
(* orchestrator.py *)

Init ==
    /\ relations \in Graphs /\ links \in Linkings /\ request \in Requests
    /\ bare = Bare
    /\ pc = "start" /\ mode = "single" /\ todo = <<>> /\ budget = request.budget
    /\ seeds = {} /\ first = None /\ kept = {} /\ edges = {}
    /\ seedChunks = {} /\ hopChunks = {}
    /\ slot = "anchor" /\ waiting = {} /\ taken = {} /\ used = 0 /\ chars = 0
    /\ tokens = [s \in SlotNames |-> 0]
    /\ chosen = [s \in SlotNames |-> {}]
    /\ parts = <<>>

Single ==
    /\ pc = "start"
    /\ ~request.comparison
    /\ pc' = "seeds"
    /\ UNCHANGED <<database, plan, found, scored, filling, filled, parts>>

(* The nearest embeddings; which they are depends on the query.              *)
Hits == {f \in [1 .. Smaller(SeedCount, Cardinality(Searchable)) -> Searchable] :
            IsInjective(f)}

PerEntity(ids) == request.budget \div Len(ids)

(* The entities to compare are those of the request, in its order and with   *)
(* its repetitions, or else the hits of a search.                            *)
Compare ==
    /\ pc = "start"
    /\ request.comparison
    /\ \E ids \in IF request.ids # <<>> THEN {request.ids} ELSE Hits :
         IF ids = <<>>
         THEN /\ pc' = "seeds"
              /\ UNCHANGED plan
         ELSE /\ pc' = "next"
              /\ mode' = "comparison"
              /\ todo' = ids
              /\ budget' = PerEntity(ids)
    /\ UNCHANGED <<database, found, scored, filling, filled, parts>>

(* An entity without a row is passed over.                                   *)
NextEntity ==
    /\ pc = "next"
    /\ todo # <<>>
    /\ todo' = Tail(todo)
    /\ IF Head(todo) \in Known
       THEN /\ seeds' = {Head(todo)}
            /\ first' = Head(todo)
            /\ pc' = "traverse"
       ELSE UNCHANGED <<seeds, first, pc>>
    /\ UNCHANGED <<database, mode, budget, kept, edges, scored, filling, filled, parts>>

(* None of them exists: a plain pass with the whole budget.                  *)
FallBack ==
    /\ pc = "next"
    /\ todo = <<>>
    /\ parts = <<>>
    /\ mode' = "single"
    /\ budget' = request.budget
    /\ pc' = "seeds"
    /\ UNCHANGED <<database, todo, found, scored, filling, filled, parts>>

(* merge_retrieval_results: lists are joined without repetitions, each by    *)
(* itself; the tokens add up, repetitions included; the budget shown is that *)
(* of one part; the page is the first there is.                              *)
Merged ==
    LET P == Range(parts)
        paged == SelectSeq(parts, LAMBDA p : p.page # None /\ Sections[p.page] # {})
    IN  [seeds  |-> UNION {p.seeds : p \in P},
         edges  |-> UNION {p.edges : p \in P},
         page   |-> IF paged = <<>> THEN None ELSE paged[1].page,
         seed   |-> UNION {p.chosen["seed"] : p \in P},
         hop    |-> UNION {p.chosen["hop"] : p \in P},
         total  |-> FoldLeft(LAMBDA sum, p : sum + p.total, 0, parts),
         budget |-> Max({p.budget : p \in P})]

Merge ==
    /\ pc = "next"
    /\ todo = <<>>
    /\ parts # <<>>
    /\ pc' = "done"
    /\ UNCHANGED <<database, plan, found, scored, filling, filled, parts>>

(* Mutant: ids are taken as they come.                                       *)
RowsOfAnyway(ids) == Range(ids)

RowsOf(ids) == Range(ids) \cap Known

(* find_seeds: the given entities, in any order, or the hits of a search.    *)
FindSeeds ==
    /\ pc = "seeds"
    /\ IF request.ids # <<>>
       THEN /\ seeds' = RowsOf(request.ids)
            /\ first' \in IF seeds' = {} THEN {None} ELSE seeds'
       ELSE \E hits \in Hits :
            /\ seeds' = Range(hits)
            /\ first' = IF hits = <<>> THEN None ELSE hits[1]
    /\ pc' = "traverse"
    /\ UNCHANGED <<database, plan, kept, edges, scored, filling, filled, parts>>

Traverse ==
    /\ pc = "traverse"
    /\ kept' \in Traversals(relations, seeds)
    /\ edges' = Collected(relations, seeds, kept')
    /\ pc' = "fill"
    /\ slot' = "anchor" /\ waiting' = seeds /\ taken' = {} /\ used' = 0 /\ chars' = 0
    /\ UNCHANGED <<database, plan, seeds, first, scored, filled, parts>>

-----------------------------------------------------------------------------
(* assemble_context *)

(* The next item of the loop, if it fits.                                    *)
IsNext(item) == ~\E other \in waiting : Precedes(slot, other, item)

Fits(item) == used + EstimateTokens(CharsOf(slot, item)) <= Room(slot)

TakeItem ==
    /\ pc = "fill"
    /\ slot \in SlotNames
    /\ \E item \in waiting :
         /\ IsNext(item)
         /\ Fits(item)
         /\ taken' = taken \cup {item}
         /\ waiting' = waiting \ {item}
         /\ used' = used + EstimateTokens(CharsOf(slot, item))
         /\ chars' = chars + CharsOf(slot, item)
                        + IF taken = {} THEN 0 ELSE Separator(slot)
    /\ UNCHANGED <<database, pc, plan, found, scored, slot, filled, parts>>

Close ==
    /\ tokens' = [tokens EXCEPT ![slot] = Counted(slot)]
    /\ chosen' = [chosen EXCEPT ![slot] = taken]
    /\ taken' = {} /\ used' = 0 /\ chars' = 0

(* The loop ends at the first item that does not fit, or after the last.     *)
AtEnd(s) ==
    /\ pc = "fill"
    /\ slot = s
    /\ waiting = {} \/ \E item \in waiting : IsNext(item) /\ ~Fits(item)

CloseAnchor ==
    /\ AtEnd("anchor")
    /\ Close
    /\ slot' = "subgraph" /\ waiting' = edges
    /\ UNCHANGED <<database, pc, plan, found, scored, parts>>

CloseSubgraph ==
    /\ AtEnd("subgraph")
    /\ Close
    /\ slot' = "wiki"
    /\ waiting' = IF first \in Known THEN Sections[first] ELSE {}
    /\ UNCHANGED <<database, pc, plan, found, scored, parts>>

CloseWiki ==
    /\ AtEnd("wiki")
    /\ Close
    /\ slot' = "scoring" /\ waiting' = {}
    /\ UNCHANGED <<database, pc, plan, found, scored, parts>>

(* The chunks of the entities found; one of a seed is a seed chunk, whoever  *)
(* else it is about.                                                         *)
OfSeeds == {c \in Chunks : links[c] \cap seeds # {}}

(* Mutant: those of a seed are not taken out.                                *)
OfOthersAll == {c \in Chunks : links[c] \cap kept # {}}

OfOthers == {c \in Chunks : links[c] \cap kept # {}} \ OfSeeds

(* Mutant: a chunk without an embedding is passed over.                      *)
ScorableEmbedded(c) == c \notin bare

(* A chunk without an embedding gets one now, unless it has no text.         *)
Scorable(c) == c \notin bare \/ ChunkChars[c] > 0

ScoreChunks ==
    /\ pc = "fill"
    /\ slot = "scoring"
    /\ IF Elastic > 0
       THEN LET pairs == {c \in OfSeeds \cup OfOthers : Scorable(c)}
            IN  \E rank \in Rankings(pairs, OfSeeds) :
                 /\ seedChunks' = OfSeeds \cap Deduplicated(pairs, rank)
                 /\ hopChunks' = OfOthers \cap Deduplicated(pairs, rank)
                 /\ bare' = bare \ pairs
       ELSE /\ seedChunks' = {} /\ hopChunks' = {}
            /\ UNCHANGED bare
    /\ slot' = "seed" /\ waiting' = seedChunks'
    /\ UNCHANGED <<database, pc, plan, found, taken, used, chars, filled, parts>>

CloseSeed ==
    /\ AtEnd("seed")
    /\ Close
    /\ slot' = "hop" /\ waiting' = hopChunks
    /\ UNCHANGED <<database, pc, plan, found, scored, parts>>

CloseHop ==
    /\ AtEnd("hop")
    /\ Close
    /\ slot' = "full" /\ waiting' = {}
    /\ UNCHANGED <<database, pc, plan, found, scored, parts>>

(* The result holds every seed and relation; the slots only what fits.       *)
FinishPart ==
    /\ pc = "fill"
    /\ slot = "full"
    /\ parts' = Append(parts, [seeds |-> seeds, edges |-> edges, page |-> first,
                               tokens |-> tokens, chosen |-> chosen,
                               budget |-> budget, fixed |-> Fixed, total |-> Total])
    /\ pc' = IF mode = "comparison" THEN "next" ELSE "done"
    /\ slot' = "anchor"
    /\ UNCHANGED <<database, plan, found, scored, waiting, taken, used, chars, filled>>

Next ==
    \/ Single \/ Compare \/ NextEntity \/ FallBack \/ Merge \/ FindSeeds \/ Traverse
    \/ TakeItem \/ CloseAnchor \/ CloseSubgraph \/ CloseWiki \/ ScoreChunks
    \/ CloseSeed \/ CloseHop \/ FinishPart

Spec == Init /\ [][Next]_vars

-----------------------------------------------------------------------------
(* Types. *)
TypeOK ==
    /\ bare \subseteq Chunks
    /\ pc \in {"start", "next", "seeds", "traverse", "fill", "done"}
    /\ budget \in Nat
    /\ seeds \subseteq Known /\ first \in Known \cup {None} /\ kept \subseteq Entities
    /\ seedChunks \subseteq Chunks /\ hopChunks \subseteq Chunks
    /\ slot \in SlotNames \cup {"scoring", "full"}
    /\ used \in Nat /\ chars \in Nat
    /\ tokens \in [SlotNames -> Nat]

Walked == pc = "fill" /\ slot = "anchor" /\ taken = {}

(* The recursive query walks in both directions and over the same entities   *)
(* again, and keeps the least number of steps (traversal.py:28): every       *)
(* entity kept is at the distance the hop map gives it.                      *)
HopsAreShortest ==
    Walked =>
        LET hops == HopMap(relations, seeds, kept)
        IN  \A e \in kept : e \in AtDistance(relations, seeds, hops[e])

(* An entity within reach is left out only because its hop is full, or       *)
(* because the ceiling was reached and nothing farther was kept instead.     *)
LimitsExplainGaps ==
    Walked =>
        \A n \in 1 .. MaxHops : \A e \in AtDistance(relations, seeds, n) \ kept :
            \/ Cardinality(kept \cap AtDistance(relations, seeds, n)) = MaxPerHop
            \/ /\ Cardinality(kept) = MaxTotal
               /\ \A k \in kept : HopMap(relations, seeds, kept)[k] <= n

(* The limit per hop is applied before anything is loaded (traversal.py:119),*)
(* so that an entity may be kept without the one that led to it; it is not   *)
(* connected to the seeds in the answer only if its predecessors were cut.   *)
ConnectedUnlessCut ==
    Walked =>
        \A e \in kept : LET hop == AllHops(relations, seeds)[e] IN
            \/ \E r \in edges : e \in Ends(r) /\ \E x \in Ends(r) :
                    AllHops(relations, seeds)[x] = hop - 1
            \/ \E n \in 1 .. MaxHops : n < hop /\
                    ~(AtDistance(relations, seeds, n) \subseteq kept)

(* The walk against its definition by simple paths: distances, what the      *)
(* limits cut, and what the relations returned still connect.                *)
WalkIsExact == HopsAreShortest /\ LimitsExplainGaps /\ ConnectedUnlessCut

Larger(a, b) == IF a > b THEN a ELSE b

(* The tokens of a part exceed its budget only when the slots of fixed size  *)
(* exceed it by themselves (context.py:311).                                 *)
PartsWithinBudget ==
    \A i \in 1 .. Len(parts) : parts[i].total <= Larger(parts[i].budget, parts[i].fixed)

(* The lines of a slot are counted one by one, but the slot is charged for   *)
(* the joined text (context.py:276): rounding and separators may exceed its  *)
(* budget, by up to a token per line, two per section of a page.             *)
SlotsNearlyBounded ==
    /\ tokens["anchor"] <= Larger(1, AnchorBudget + Cardinality(chosen["anchor"]))
    /\ tokens["subgraph"] <= Larger(1, SubgraphBudget + Cardinality(chosen["subgraph"]))
    /\ tokens["wiki"] <= Larger(1, WikiBudget + 2 * Cardinality(chosen["wiki"]))

(* "max_context_tokens: Total token budget provided by the caller"           *)
(* (context.py:259): what a part, and what the merged parts of a comparison  *)
(* together, may cost, and by how much a slot may exceed its own budget.     *)
WithinBudget ==
    /\ PartsWithinBudget
    /\ SlotsNearlyBounded
    /\ pc = "done" /\ (\A p \in Range(parts) : p.fixed <= p.budget)
            => Merged.total <= request.budget

(* No chunk is given twice by a pass, as a seed chunk and as a hop chunk or  *)
(* as two near-duplicates, whatever entities link to it (context.py:381).    *)
NoChunkRepeated ==
    \A p \in Range(parts) :
        /\ p.chosen["seed"] \cap p.chosen["hop"] = {}
        /\ \A c, d \in p.chosen["seed"] \cup p.chosen["hop"] : c # d => {c, d} \notin Near

(* A chunk about an entity found is missing only because a near-duplicate    *)
(* that does not rank after it was kept, which may itself not have fitted,   *)
(* or because its slot had no room for it or for one of the slot that scores *)
(* no worse.  Among near-duplicates any seed chunk ranks before any hop      *)
(* chunk, whatever their scores (context.py:382): a seed chunk may push a    *)
(* better hop chunk out.                                                     *)
MissingChunkExplained ==
    pc = "fill" /\ slot = "full" /\ Elastic > 0 =>
        \A c \in OfSeeds \cup OfOthers :
            \/ c \in Bare /\ ChunkChars[c] = 0
            \/ c \in chosen["seed"] \cup chosen["hop"]
            \/ \E d \in (seedChunks \cup hopChunks) \ {c} :
                    {c, d} \in Near /\ ~ScoredBefore(c, d, OfSeeds)
            \/ \E s \in {"seed", "hop"} :
                 LET left == IF s = "seed" THEN seedChunks ELSE hopChunks
                 IN  /\ c \in left
                     /\ \E d \in left \ chosen[s] :
                          /\ ~ScoredBefore(c, d, OfSeeds)
                          /\ tokens[s] + EstimateTokens(ChunkChars[d]) > Room(s)
=============================================================================
