---------------------------- MODULE GraphTraversal ----------------------------
(***************************************************************************)
(* The walk of retrieval over the knowledge graph (retrieval/traversal.py):*)
(* the recursive query, the limits per hop and in total, and the relations *)
(* that are returned.  A relation is a pair of entities; its direction     *)
(* does not matter to the walk.                                            *)
(***************************************************************************)
EXTENDS Integers, FiniteSetsExt, Functions

CONSTANTS
    Entities,
    MaxHops,      (* retrieval_max_hops              *)
    MaxPerHop,    (* retrieval_max_neighbors_per_hop *)
    MaxTotal      (* retrieval_max_total_nodes       *)

ASSUME TraversalAssumption ==
    /\ IsFiniteSet(Entities)
    /\ MaxHops \in Nat /\ MaxPerHop \in Nat /\ MaxTotal \in Nat

Ends(r) == {r[1], r[2]}

Neighbours(rels, E) == {e \in Entities : \E x \in E : <<x, e>> \in rels \/ <<e, x>> \in rels}

(* Incoming and outgoing relations; one of an entity with itself is both.    *)
Degree(rels, e) ==
    Cardinality({r \in rels : r[1] = e}) + Cardinality({r \in rels : r[2] = e})

(* The rows of the recursive query: the entities at the end of a walk of n   *)
(* relations.  A walk may return to where it has been.                       *)
Rows(rels, seeds) ==
    LET rows[n \in 0 .. MaxHops] ==
            IF n = 0 THEN seeds ELSE Neighbours(rels, rows[n - 1])
    IN  rows

(* Mutant: the last row of an entity.                                        *)
AllHopsLast(rels, seeds) ==
    LET rows == Rows(rels, seeds)
    IN  [e \in UNION {rows[n] : n \in 0 .. MaxHops} |->
            Max({n \in 0 .. MaxHops : e \in rows[n]})]

(* GROUP BY entity_id, MIN(hop_distance)                                     *)
AllHops(rels, seeds) ==
    LET rows == Rows(rels, seeds)
    IN  [e \in UNION {rows[n] : n \in 0 .. MaxHops} |->
            Min({n \in 0 .. MaxHops : e \in rows[n]})]

AtHop(hops, seeds, h) == {e \in DOMAIN hops \ seeds : hops[e] = h}

Smaller(a, b) == IF a < b THEN a ELSE b

(* The first max_per_hop rows of each hop, in whatever order they come.      *)
LimitedPerHop(hops, seeds) ==
    {E \in SUBSET (DOMAIN hops \ seeds) : \A h \in 0 .. MaxHops :
        Cardinality(E \cap AtHop(hops, seeds, h))
            = Smaller(MaxPerHop, Cardinality(AtHop(hops, seeds, h)))}

RanksBefore(rels, hops, a, b) ==
    \/ hops[a] < hops[b]
    \/ hops[a] = hops[b] /\ Degree(rels, a) > Degree(rels, b)

(* The total ceiling: nearest first, then by degree; ties fall either way.   *)
UnderCeiling(rels, hops, E) ==
    {K \in SUBSET E :
        /\ Cardinality(K) = Smaller(MaxTotal, Cardinality(E))
        /\ \A k \in K, d \in E \ K : ~RanksBefore(rels, hops, d, k)}

(* What traverse may return as its entities.                                 *)
Traversals(rels, seeds) ==
    LET hops == AllHops(rels, seeds)
    IN  UNION {UnderCeiling(rels, hops, E) : E \in LimitedPerHop(hops, seeds)}

(* Relations are collected from the traversed entities, not from the seeds.  *)
Collected(rels, seeds, kept) ==
    {r \in rels : Ends(r) \cap kept # {} /\ Ends(r) \subseteq kept \cup seeds}

HopMap(rels, seeds, kept) == Restrict(AllHops(rels, seeds), kept \cup seeds)

-----------------------------------------------------------------------------
(* The reference: entities at distance n are those a simple path of n        *)
(* relations reaches and no shorter one does.                                *)

IsPath(rels, p) ==
    /\ IsInjective(p)
    /\ \A i \in 1 .. Cardinality(DOMAIN p) - 1 : \E r \in rels : Ends(r) = {p[i], p[i + 1]}

Reached(rels, seeds, n) ==
    {p[n + 1] : p \in {q \in [1 .. n + 1 -> Entities] : q[1] \in seeds /\ IsPath(rels, q)}}

AtDistance(rels, seeds, n) ==
    Reached(rels, seeds, n) \ UNION {Reached(rels, seeds, k) : k \in 0 .. n - 1}
=============================================================================
