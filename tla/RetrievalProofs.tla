---------------------------- MODULE RetrievalProofs ----------------------------
(***************************************************************************)
(* What one retrieval returns, for every graph, every limit of the walk,   *)
(* every linking of chunks to entities and every budget.                   *)
(***************************************************************************)
EXTENDS Retrieval, FiniteSetTheorems, WellFoundedInduction, TLAPS

(* The numbers are well founded: a set of them that is not empty has a least *)
(* element.                                                                  *)
LEMMA LeastNumber ==
    ASSUME NEW D, D \subseteq Nat, D # {}
    PROVE  \E m \in D : \A d \in D : m <= d
<1>1. PICK m \in D : \A d \in D : ~ (<<d, m>> \in OpToRel(<, Nat))
    BY NatLessThanWellFounded, WFMin
<1>2. \A d \in D : ~ (d < m)
    BY <1>1 DEF OpToRel
<1> QED
    BY <1>2

LEMMA MinIsLeast ==
    ASSUME NEW D, D \subseteq Nat, D # {}
    PROVE  Min(D) \in D /\ \A d \in D : Min(D) <= d
BY LeastNumber DEF Min

-----------------------------------------------------------------------------
(* The rows of the recursive query *)

AreRows(f, rels, S, n) ==
    f = [i \in 0 .. n |-> IF i = 0 THEN S ELSE Neighbours(rels, f[i - 1])]

(* There is a function that satisfies the equation of the rows.              *)
LEMMA RowsExist ==
    ASSUME NEW rels, NEW S, NEW n \in Nat
    PROVE  \E f : AreRows(f, rels, S, n)
<1> DEFINE Missing == {m \in Nat : ~\E f : AreRows(f, rels, S, m)}
<1> SUFFICES ASSUME Missing # {} PROVE FALSE
    OBVIOUS
<1>1. PICK m \in Missing : \A d \in Missing : m <= d
    BY LeastNumber
<1>2. m \in Nat /\ ~\E f : AreRows(f, rels, S, m)
    OBVIOUS
<1>3. CASE m = 0
  <2> DEFINE g == [i \in 0 .. m |-> S]
  <2>1. \A i \in 0 .. m : g[i] = IF i = 0 THEN S ELSE Neighbours(rels, g[i - 1])
    BY <1>3
  <2>2. AreRows(g, rels, S, m)
    BY <2>1, Zenon DEF AreRows
  <2> QED
    BY <1>2, <2>2, Zenon
<1>4. CASE m # 0
  <2>1. m - 1 \in Nat /\ m - 1 \notin Missing
    <3> HIDE DEF Missing
    <3> QED
      BY <1>1, <1>2, <1>4
  <2>2. PICK f : AreRows(f, rels, S, m - 1)
    BY <2>1
  <2> DEFINE g == [i \in 0 .. m |-> IF i = m THEN Neighbours(rels, f[m - 1]) ELSE f[i]]
  <2>3. ASSUME NEW i \in 0 .. m
        PROVE  g[i] = IF i = 0 THEN S ELSE Neighbours(rels, g[i - 1])
    <3>1. CASE i = m
      <4>1. g[i] = Neighbours(rels, f[m - 1]) /\ g[m - 1] = f[m - 1]
        BY <2>1, <3>1
      <4> QED
        BY <1>4, <3>1, <4>1
    <3>2. CASE i # m
      <4>1. i \in 0 .. m - 1 /\ g[i] = f[i] /\ (i # 0 => i - 1 \in 0 .. m /\ g[i - 1] = f[i - 1])
        BY <1>2, <3>2
      <4>2. f[i] = IF i = 0 THEN S ELSE Neighbours(rels, f[i - 1])
        BY <2>2, <4>1 DEF AreRows
      <4> QED
        BY <4>1, <4>2
    <3> QED
      BY <3>1, <3>2
  <2>4. AreRows(g, rels, S, m)
    BY <2>3, Zenon DEF AreRows
  <2> QED
    BY <1>2, <2>4, Zenon
<1> QED
    BY <1>3, <1>4

LEMMA RowsEquation ==
    ASSUME NEW rels, NEW S
    PROVE  AreRows(Rows(rels, S), rels, S, MaxHops)
<1>0. MaxHops \in Nat
    BY TraversalAssumption DEF TraversalAssumption
<1>1. PICK f : AreRows(f, rels, S, MaxHops)
    BY <1>0, RowsExist
<1>2. \E g : g = [n \in 0 .. MaxHops |-> IF n = 0 THEN S ELSE Neighbours(rels, g[n - 1])]
    BY <1>1, Zenon DEF AreRows
<1> QED
    BY <1>2, Zenon DEF Rows, AreRows

LEMMA RowsByHop ==
    ASSUME NEW rels, NEW S, S \subseteq Entities
    PROVE  LET rows == Rows(rels, S)
           IN  /\ DOMAIN rows = 0 .. MaxHops
               /\ rows[0] = S
               /\ \A n \in 0 .. MaxHops : rows[n] \subseteq Entities
               /\ \A n \in 1 .. MaxHops : rows[n] = Neighbours(rels, rows[n - 1])
<1> DEFINE rows == Rows(rels, S)
<1>0. MaxHops \in Nat
    BY TraversalAssumption DEF TraversalAssumption
<1>1. AreRows(rows, rels, S, MaxHops)
    BY RowsEquation
<1>2. /\ DOMAIN rows = 0 .. MaxHops
      /\ \A n \in 0 .. MaxHops : rows[n] = IF n = 0 THEN S ELSE Neighbours(rels, rows[n - 1])
  <2> HIDE DEF rows
  <2> QED
    BY <1>1 DEF AreRows
<1>3. rows[0] = S /\ \A n \in 1 .. MaxHops : rows[n] = Neighbours(rels, rows[n - 1])
  <2> HIDE DEF rows
  <2> QED
    BY <1>0, <1>2
<1>4. \A n \in 0 .. MaxHops : rows[n] \subseteq Entities
  <2> HIDE DEF rows
  <2> QED
    BY <1>0, <1>2 DEF Neighbours
<1> QED
    BY <1>2, <1>3, <1>4

(* The hop of an entity is the first row it is in.                           *)
LEMMA HopIsFirstRow ==
    ASSUME NEW rels, NEW S, S \subseteq Entities
    PROVE  LET rows == Rows(rels, S)
               hops == AllHops(rels, S)
           IN  /\ DOMAIN hops = UNION {rows[n] : n \in 0 .. MaxHops}
               /\ DOMAIN hops \subseteq Entities
               /\ \A e \in DOMAIN hops :
                    /\ hops[e] \in 0 .. MaxHops /\ e \in rows[hops[e]]
                    /\ \A n \in 0 .. MaxHops : e \in rows[n] => hops[e] <= n
<1> DEFINE rows == Rows(rels, S)
           hops == AllHops(rels, S)
<1>0. MaxHops \in Nat /\ \A n \in 0 .. MaxHops : rows[n] \subseteq Entities
    BY RowsByHop, TraversalAssumption DEF TraversalAssumption
<1>1. hops = [e \in UNION {rows[n] : n \in 0 .. MaxHops} |-> Min({n \in 0 .. MaxHops : e \in rows[n]})]
    BY Zenon DEF AllHops
<1> HIDE DEF rows, hops
<1>2. ASSUME NEW e \in DOMAIN hops
      PROVE  /\ hops[e] \in {n \in 0 .. MaxHops : e \in rows[n]}
             /\ \A n \in {m \in 0 .. MaxHops : e \in rows[m]} : hops[e] <= n
  <2> DEFINE D == {n \in 0 .. MaxHops : e \in rows[n]}
  <2>1. D \subseteq Nat /\ D # {}
    BY <1>0, <1>1
  <2>2. hops[e] = Min(D)
    BY <1>1
  <2> HIDE DEF D
  <2>3. hops[e] \in D /\ \A n \in D : hops[e] <= n
    BY <2>1, <2>2, MinIsLeast
  <2> QED
    BY <2>3 DEF D
<1>3. DOMAIN hops = UNION {rows[n] : n \in 0 .. MaxHops}
    BY <1>1
<1> QED
    BY <1>0, <1>2, <1>3 DEF rows, hops

-----------------------------------------------------------------------------
(* Rows and simple paths *)

LEMMA NeighbourByRelation ==
    ASSUME NEW rels, rels \subseteq Entities \X Entities, NEW x, NEW y, NEW r \in rels
    PROVE  Ends(r) = {x, y} => x \in Entities /\ y \in Entities
                                /\ (<<x, y>> \in rels \/ <<y, x>> \in rels)
<1>1. PICK a \in Entities, b \in Entities : r = <<a, b>>
    OBVIOUS
<1>2. Ends(r) = {a, b}
    BY <1>1 DEF Ends
<1> QED
    BY <1>1, <1>2

(* The entities of a path are in the rows of their steps.                    *)
LEMMA PathsWalk ==
    ASSUME NEW rels, rels \subseteq Entities \X Entities, NEW S, S \subseteq Entities,
           NEW n \in 0 .. MaxHops, NEW p \in [1 .. n + 1 -> Entities], p[1] \in S,
           IsPath(rels, p)
    PROVE  \A i \in 0 .. n : p[i + 1] \in Rows(rels, S)[i]
<1> DEFINE rows == Rows(rels, S)
           Bad == {i \in 0 .. n : p[i + 1] \notin rows[i]}
<1>0. MaxHops \in Nat /\ n \in Nat
    BY TraversalAssumption DEF TraversalAssumption
<1>1. rows[0] = S /\ \A i \in 1 .. MaxHops : rows[i] = Neighbours(rels, rows[i - 1])
    BY RowsByHop
<1>2. \A i \in 1 .. n : \E r \in rels : Ends(r) = {p[i], p[i + 1]}
  <2>1. Cardinality(DOMAIN p) = n + 1
    BY <1>0, FS_Interval
  <2>2. Cardinality(DOMAIN p) - 1 = n
    BY <1>0, <2>1
  <2>3. \A i \in 1 .. Cardinality(DOMAIN p) - 1 : \E r \in rels : Ends(r) = {p[i], p[i + 1]}
    BY Zenon DEF IsPath
  <2> QED
    BY <2>2, <2>3
<1> HIDE DEF rows
<1> SUFFICES ASSUME Bad # {} PROVE FALSE
    BY DEF rows
<1>3. PICK i \in Bad : \A k \in Bad : i <= k
  <2>1. Bad \subseteq Nat
    BY <1>0
  <2> HIDE DEF Bad
  <2> QED
    BY <2>1, LeastNumber
<1>4. i # 0
    BY <1>1
<1>5. i \in 1 .. n /\ i \in 1 .. MaxHops /\ i - 1 \in 0 .. n /\ i - 1 \notin Bad
    BY <1>0, <1>3, <1>4
<1>6. p[i] \in rows[i - 1]
    BY <1>0, <1>5
<1>7. PICK r \in rels : Ends(r) = {p[i], p[i + 1]}
    BY <1>2, <1>5
<1>8. p[i + 1] \in Neighbours(rels, rows[i - 1])
    BY <1>6, <1>7, NeighbourByRelation DEF Neighbours
<1> QED
    BY <1>1, <1>5, <1>8

(* An entity is at the end of a simple path as long as its first row: the    *)
(* way to it does not visit anything twice.                                  *)
LEMMA FirstRowsReached ==
    ASSUME NEW rels, rels \subseteq Entities \X Entities, NEW S, S \subseteq Entities
    PROVE  \A n \in 0 .. MaxHops : \A e \in Rows(rels, S)[n] :
              (\A k \in 0 .. n - 1 : e \notin Rows(rels, S)[k]) => e \in Reached(rels, S, n)
<1> DEFINE rows == Rows(rels, S)
           New(n) == {e \in rows[n] : \A k \in 0 .. n - 1 : e \notin rows[k]}
           Bad == {n \in 0 .. MaxHops : ~(New(n) \subseteq Reached(rels, S, n))}
<1>0. MaxHops \in Nat
    BY TraversalAssumption DEF TraversalAssumption
<1>1. /\ rows[0] = S /\ \A i \in 1 .. MaxHops : rows[i] = Neighbours(rels, rows[i - 1])
      /\ \A i \in 0 .. MaxHops : rows[i] \subseteq Entities
    BY RowsByHop
<1>2. ASSUME NEW m \in 0 .. MaxHops, NEW p \in [1 .. m + 1 -> Entities], p[1] \in S,
             IsPath(rels, p)
      PROVE  \A i \in 0 .. m : p[i + 1] \in rows[i]
    BY <1>2, PathsWalk
<1> HIDE DEF rows
<1> SUFFICES ASSUME Bad # {} PROVE FALSE
    BY DEF rows
<1>3. PICK n \in Bad : \A k \in Bad : n <= k
  <2>1. Bad \subseteq Nat
    BY <1>0
  <2> HIDE DEF Bad
  <2> QED
    BY <2>1, LeastNumber
<1>4. n \in 0 .. MaxHops /\ n \in Nat
    BY <1>0
<1>5. PICK e \in New(n) : e \notin Reached(rels, S, n)
    OBVIOUS
<1>6. CASE n = 0
  <2> DEFINE p == [i \in 1 .. 1 |-> e]
  <2>1. e \in S /\ e \in Entities
    BY <1>1, <1>4, <1>5, <1>6
  <2>2. p \in [1 .. n + 1 -> Entities] /\ p[1] = e /\ n + 1 = 1
    BY <1>6, <2>1
  <2>3. IsPath(rels, p)
    <3>1. DOMAIN p = {1}
      OBVIOUS
    <3>2. 1 .. 1 - 1 = {}
      OBVIOUS
    <3>3. Cardinality(DOMAIN p) = 1
      BY <3>1, FS_Singleton
    <3> HIDE DEF p
    <3> QED
      BY <3>1, <3>2, <3>3 DEF IsPath, IsInjective
  <2> HIDE DEF p
  <2> QED
    BY <1>5, <2>1, <2>2, <2>3 DEF Reached
<1>7. CASE n # 0
  <2>1. n - 1 \in 0 .. MaxHops /\ n \in 1 .. MaxHops /\ n - 1 \notin Bad
    <3> HIDE DEF Bad
    <3> QED
      BY <1>0, <1>3, <1>4, <1>7
  <2>2. PICK x \in rows[n - 1] : e \in Entities /\ (<<x, e>> \in rels \/ <<e, x>> \in rels)
    BY <1>1, <1>5, <2>1 DEF Neighbours
  <2>3. x \in New(n - 1)
    <3> SUFFICES ASSUME NEW k \in 0 .. (n - 1) - 1, x \in rows[k] PROVE FALSE
      OBVIOUS
    <3>1. k + 1 \in 1 .. MaxHops /\ k + 1 \in 0 .. n - 1 /\ (k + 1) - 1 = k
      BY <1>0, <1>4, <2>1
    <3>2. e \in rows[k + 1]
      BY <1>1, <2>2, <3>1 DEF Neighbours
    <3> QED
      BY <1>5, <3>1, <3>2
  <2>4. x \in Reached(rels, S, n - 1)
    BY <2>1, <2>3
  <2>5. PICK p \in [1 .. (n - 1) + 1 -> Entities] :
            p[1] \in S /\ IsPath(rels, p) /\ p[(n - 1) + 1] = x
    BY <2>4 DEF Reached
  <2>6. (n - 1) + 1 = n /\ p \in [1 .. n -> Entities] /\ p[n] = x
    BY <1>4, <2>5
  <2> DEFINE q == [i \in 1 .. n + 1 |-> IF i = n + 1 THEN e ELSE p[i]]
  <2>7. /\ q \in [1 .. n + 1 -> Entities] /\ q[n + 1] = e /\ q[n] = x
        /\ \A i \in 1 .. n : q[i] = p[i]
    BY <1>4, <1>7, <2>2, <2>6
  <2>8. q[1] \in S
    BY <1>4, <1>7, <2>5, <2>7
  <2>9. \A i \in 1 .. n : p[i] # e
    <3> SUFFICES ASSUME NEW i \in 1 .. n, p[i] = e PROVE FALSE
      OBVIOUS
    <3>1. i - 1 \in 0 .. n - 1 /\ (i - 1) + 1 = i
      BY <1>4
    <3>2. p[i] \in rows[i - 1]
      BY <1>2, <2>1, <2>5, <3>1
    <3> QED
      BY <1>5, <3>1, <3>2
  <2>10. IsInjective(q)
    <3>1. IsInjective(p)
      BY <2>5 DEF IsPath
    <3> QED
      BY <1>4, <2>6, <2>7, <2>9, <3>1 DEF IsInjective
  <2>11. \A i \in 1 .. n : \E r \in rels : Ends(r) = {q[i], q[i + 1]}
    <3> SUFFICES ASSUME NEW i \in 1 .. n PROVE \E r \in rels : Ends(r) = {q[i], q[i + 1]}
      OBVIOUS
    <3>1. CASE i = n
      BY <2>2, <2>7, <3>1 DEF Ends
    <3>2. CASE i # n
      <4>1. Cardinality(DOMAIN p) = n
        BY <1>4, <2>6, FS_Interval
      <4>2. i \in 1 .. n - 1 /\ i + 1 \in 1 .. n
        BY <1>4, <3>2
      <4>3. \E r \in rels : Ends(r) = {p[i], p[i + 1]}
        BY <2>5, <4>1, <4>2 DEF IsPath
      <4> QED
        BY <2>7, <4>2, <4>3
    <3> QED
      BY <3>1, <3>2
  <2>12. IsPath(rels, q)
    <3>1. Cardinality(DOMAIN q) = n + 1
      BY <1>4, FS_Interval
    <3> HIDE DEF q
    <3>2. Cardinality(DOMAIN q) - 1 = n
      BY <1>4, <3>1
    <3>3. \A i \in 1 .. Cardinality(DOMAIN q) - 1 : \E r \in rels : Ends(r) = {q[i], q[i + 1]}
      BY <2>11, <3>2
    <3> QED
      BY <2>10, <3>3, Zenon DEF IsPath
  <2> HIDE DEF q
  <2>13. e \in Reached(rels, S, n)
    BY <2>7, <2>8, <2>12 DEF Reached
  <2> QED
    BY <1>5, <2>13
<1> QED
    BY <1>6, <1>7

(* The hop map gives every entity its distance.                              *)
LEMMA HopIsDistance ==
    ASSUME NEW rels, rels \subseteq Entities \X Entities, NEW S, S \subseteq Entities,
           NEW n \in 0 .. MaxHops
    PROVE  AtDistance(rels, S, n) = {e \in DOMAIN AllHops(rels, S) : AllHops(rels, S)[e] = n}
<1> DEFINE rows == Rows(rels, S)
           hops == AllHops(rels, S)
<1>0. MaxHops \in Nat /\ n \in Nat
    BY TraversalAssumption DEF TraversalAssumption
<1>1. ASSUME NEW k \in 0 .. MaxHops, NEW e \in Reached(rels, S, k) PROVE e \in rows[k]
  <2>1. PICK p \in [1 .. k + 1 -> Entities] : p[1] \in S /\ IsPath(rels, p) /\ p[k + 1] = e
    BY DEF Reached
  <2>2. \A i \in 0 .. k : p[i + 1] \in rows[i]
    BY <2>1, PathsWalk
  <2> QED
    BY <1>0, <2>1, <2>2
<1>2. /\ DOMAIN hops = UNION {rows[m] : m \in 0 .. MaxHops}
      /\ \A e \in DOMAIN hops :
            /\ hops[e] \in 0 .. MaxHops /\ e \in rows[hops[e]]
            /\ \A m \in 0 .. MaxHops : e \in rows[m] => hops[e] <= m
    BY HopIsFirstRow
<1>3. \A m \in 0 .. MaxHops : \A e \in rows[m] :
          (\A k \in 0 .. m - 1 : e \notin rows[k]) => e \in Reached(rels, S, m)
    BY FirstRowsReached
<1> HIDE DEF rows, hops
<1>4. ASSUME NEW e \in DOMAIN hops
      PROVE  e \in Reached(rels, S, hops[e]) /\ \A k \in 0 .. hops[e] - 1 : e \notin Reached(rels, S, k)
    BY <1>0, <1>1, <1>2, <1>3
<1>5. ASSUME NEW e \in AtDistance(rels, S, n) PROVE e \in DOMAIN hops /\ hops[e] = n
  <2>1. e \in Reached(rels, S, n) /\ \A k \in 0 .. n - 1 : e \notin Reached(rels, S, k)
    BY DEF AtDistance
  <2>2. e \in DOMAIN hops /\ hops[e] <= n
    BY <1>1, <1>2, <2>1
  <2> QED
    BY <1>0, <1>2, <1>4, <2>1, <2>2
<1>6. ASSUME NEW e \in DOMAIN hops, hops[e] = n PROVE e \in AtDistance(rels, S, n)
    BY <1>4, <1>6 DEF AtDistance
<1> QED
    BY <1>5, <1>6 DEF hops

-----------------------------------------------------------------------------
(* The limits *)

LEMMA SmallerCardinality ==
    ASSUME NEW T, IsFiniteSet(T), NEW U \in SUBSET T, NEW bound \in Nat,
           Cardinality(U) = Smaller(bound, Cardinality(T)), NEW x \in T, x \notin U
    PROVE  Cardinality(U) = bound
<1>1. Cardinality(T) \in Nat /\ Cardinality(U) <= Cardinality(T) /\ Cardinality(U) # Cardinality(T)
    BY FS_Subset, FS_CardinalityType
<1> QED
    BY <1>1 DEF Smaller

(* What a traversal keeps is within reach, and no seed.                      *)
LEMMA KeptInReach ==
    ASSUME NEW rels, NEW S, S \subseteq Entities, NEW K \in Traversals(rels, S)
    PROVE  K \subseteq DOMAIN AllHops(rels, S) \ S /\ K \subseteq Entities
<1> DEFINE hops == AllHops(rels, S)
<1>1. PICK E \in LimitedPerHop(hops, S) : K \in UnderCeiling(rels, hops, E)
    BY DEF Traversals
<1>2. E \in SUBSET (DOMAIN hops \ S) /\ K \in SUBSET E
    BY <1>1 DEF LimitedPerHop, UnderCeiling
<1> QED
    BY <1>2, HopIsFirstRow

LEMMA GapsExplained ==
    ASSUME NEW rels, rels \subseteq Entities \X Entities, NEW S, S \subseteq Entities,
           NEW K \in Traversals(rels, S), NEW n \in 1 .. MaxHops,
           NEW e \in AtDistance(rels, S, n) \ K
    PROVE  \/ Cardinality(K \cap AtDistance(rels, S, n)) = MaxPerHop
           \/ /\ Cardinality(K) = MaxTotal
              /\ \A k \in K : HopMap(rels, S, K)[k] <= n
<1> DEFINE hops == AllHops(rels, S)
           Hop  == AtHop(hops, S, n)
<1>0. MaxHops \in Nat /\ MaxPerHop \in Nat /\ MaxTotal \in Nat /\ IsFiniteSet(Entities)
    BY TraversalAssumption DEF TraversalAssumption
<1>1. /\ DOMAIN hops \subseteq Entities
      /\ \A x \in DOMAIN hops : hops[x] \in 0 .. MaxHops
      /\ \A x \in S : x \in DOMAIN hops /\ hops[x] = 0
  <2> DEFINE rows == Rows(rels, S)
  <2>1. /\ DOMAIN hops = UNION {rows[m] : m \in 0 .. MaxHops}
        /\ DOMAIN hops \subseteq Entities
        /\ \A x \in DOMAIN hops :
              /\ hops[x] \in 0 .. MaxHops
              /\ \A m \in 0 .. MaxHops : x \in rows[m] => hops[x] <= m
    BY HopIsFirstRow
  <2>2. rows[0] = S
    BY RowsByHop
  <2> HIDE DEF rows, hops
  <2>3. ASSUME NEW x \in S PROVE x \in DOMAIN hops /\ hops[x] = 0
    <3>1. 0 \in 0 .. MaxHops /\ x \in rows[0]
      BY <1>0, <2>2
    <3> QED
      BY <2>1, <3>1
  <2> QED
    BY <2>1, <2>3
<1>2. AtDistance(rels, S, n) = {x \in DOMAIN hops : hops[x] = n}
  <2>1. n \in 0 .. MaxHops
    BY <1>0
  <2> QED
    BY <2>1, HopIsDistance
<1>3. AtDistance(rels, S, n) = Hop
  <2> HIDE DEF hops
  <2> QED
    BY <1>1, <1>2 DEF AtHop
<1>4. PICK E \in LimitedPerHop(hops, S) : K \in UnderCeiling(rels, hops, E)
    BY DEF Traversals
<1>5. HopMap(rels, S, K) = [x \in K \cup S |-> hops[x]]
    BY DEF HopMap, Restrict
<1> HIDE DEF hops
<1>6. /\ E \subseteq DOMAIN hops \ S /\ IsFiniteSet(E) /\ IsFiniteSet(Hop)
      /\ Cardinality(E \cap Hop) = Smaller(MaxPerHop, Cardinality(Hop))
  <2>1. n \in 0 .. MaxHops
    BY <1>0
  <2>2. E \subseteq DOMAIN hops \ S /\ Cardinality(E \cap Hop) = Smaller(MaxPerHop, Cardinality(Hop))
    BY <2>1 DEF LimitedPerHop
  <2>3. E \subseteq Entities /\ Hop \subseteq Entities
    BY <1>1, <2>2 DEF AtHop
  <2> QED
    BY <1>0, <2>2, <2>3, FS_Subset
<1>7. /\ K \subseteq E /\ Cardinality(K) = Smaller(MaxTotal, Cardinality(E))
      /\ \A k \in K, d \in E \ K : ~RanksBefore(rels, hops, d, k)
    BY <1>4 DEF UnderCeiling
<1>8. ASSUME NEW d \in E \ K, hops[d] = n
      PROVE  Cardinality(K) = MaxTotal /\ \A k \in K : HopMap(rels, S, K)[k] <= n
  <2>1. Cardinality(K) = MaxTotal
    BY <1>0, <1>6, <1>7, SmallerCardinality
  <2>2. ASSUME NEW k \in K PROVE hops[k] <= n
    <3>1. ~(hops[d] < hops[k]) /\ hops[k] \in 0 .. MaxHops /\ hops[d] \in 0 .. MaxHops
      BY <1>1, <1>6, <1>7 DEF RanksBefore
    <3> QED
      BY <1>0, <1>8, <3>1
  <2> QED
    BY <1>5, <2>1, <2>2
<1>9. CASE e \in E
    BY <1>2, <1>8, <1>9
<1>10. CASE e \notin E
  <2>1. Cardinality(E \cap Hop) = MaxPerHop
    <3>1. e \in Hop /\ e \notin E \cap Hop /\ E \cap Hop \in SUBSET Hop
      BY <1>3, <1>10
    <3> HIDE DEF Hop
    <3> QED
      BY <1>0, <1>6, <3>1, SmallerCardinality
  <2>2. CASE K \cap Hop = E \cap Hop
    BY <1>3, <2>1, <2>2
  <2>3. CASE K \cap Hop # E \cap Hop
    <3>1. PICK d \in E \cap Hop : d \notin K
      BY <1>7, <2>3
    <3>2. hops[d] = n
      BY <1>2, <1>3, <3>1
    <3> QED
      BY <1>8, <3>1, <3>2
  <2> QED
    BY <2>2, <2>3
<1> QED
    BY <1>9, <1>10

LEMMA ConnectedOrCut ==
    ASSUME NEW rels, rels \subseteq Entities \X Entities, NEW S, S \subseteq Entities,
           NEW K \in Traversals(rels, S), NEW e \in K
    PROVE  LET hop == AllHops(rels, S)[e] IN
           \/ \E r \in Collected(rels, S, K) : e \in Ends(r) /\ \E x \in Ends(r) :
                    AllHops(rels, S)[x] = hop - 1
           \/ \E n \in 1 .. MaxHops : n < hop /\ ~(AtDistance(rels, S, n) \subseteq K)
<1> DEFINE hops == AllHops(rels, S)
           rows == Rows(rels, S)
           hop  == hops[e]
<1>0. MaxHops \in Nat
    BY TraversalAssumption DEF TraversalAssumption
<1>1. e \in DOMAIN hops /\ e \notin S
    BY KeptInReach
<1>2. /\ DOMAIN hops = UNION {rows[m] : m \in 0 .. MaxHops}
      /\ \A x \in DOMAIN hops :
            /\ hops[x] \in 0 .. MaxHops /\ x \in rows[hops[x]]
            /\ \A m \in 0 .. MaxHops : x \in rows[m] => hops[x] <= m
    BY HopIsFirstRow
<1>3. rows[0] = S /\ \A m \in 1 .. MaxHops : rows[m] = Neighbours(rels, rows[m - 1])
    BY RowsByHop
<1>4. \A m \in 0 .. MaxHops : AtDistance(rels, S, m) = {x \in DOMAIN hops : hops[x] = m}
    BY HopIsDistance
<1> HIDE DEF hops, rows
<1>5. hop \in 1 .. MaxHops /\ hop - 1 \in 0 .. MaxHops
    BY <1>0, <1>1, <1>2, <1>3
<1>6. PICK x \in rows[hop - 1] : <<x, e>> \in rels \/ <<e, x>> \in rels
  <2>1. e \in rows[hop]
    BY <1>1, <1>2
  <2>2. rows[hop] = Neighbours(rels, rows[hop - 1])
    BY <1>3, <1>5
  <2> HIDE DEF hop
  <2> QED
    BY <2>1, <2>2 DEF Neighbours
<1>7. PICK r \in rels : Ends(r) = {x, e}
    BY <1>6 DEF Ends
<1>8. x \in Entities /\ e \in Entities /\ x \in DOMAIN hops /\ hops[x] <= hop - 1
    BY <1>2, <1>5, <1>6
<1>9. hops[x] = hop - 1
  <2> SUFFICES ASSUME hops[x] # hop - 1 PROVE FALSE
    OBVIOUS
  <2>1. hops[x] \in 0 .. MaxHops /\ x \in rows[hops[x]]
    BY <1>2, <1>8
  <2>2. hops[x] + 1 \in 1 .. MaxHops /\ (hops[x] + 1) - 1 = hops[x] /\ hops[x] + 1 < hop
    BY <1>0, <1>5, <1>8, <2>1
  <2>3. e \in rows[hops[x] + 1]
    BY <1>3, <1>6, <1>8, <2>1, <2>2 DEF Neighbours
  <2>4. hops[x] + 1 \in 0 .. MaxHops
    BY <1>0, <2>2
  <2>5. hop <= hops[x] + 1
    BY <1>1, <1>2, <2>3, <2>4
  <2> QED
    BY <1>0, <1>5, <2>1, <2>2, <2>5
<1>10. CASE x \in K \cup S
  <2>1. r \in Collected(rels, S, K)
    BY <1>7, <1>10 DEF Collected
  <2> QED
    BY <1>7, <1>9, <2>1 DEF hops
<1>11. CASE x \notin K \cup S
  <2>1. hop - 1 # 0
    BY <1>3, <1>6, <1>11
  <2>2. hop - 1 \in 1 .. MaxHops /\ hop - 1 < hop
    BY <1>0, <1>5, <2>1
  <2>3. x \in AtDistance(rels, S, hop - 1)
    BY <1>4, <1>5, <1>8, <1>9
  <2> QED
    BY <1>11, <2>2, <2>3 DEF hops
<1> QED
    BY <1>10, <1>11

-----------------------------------------------------------------------------
(* Types *)

(* What the loop of a slot may take.                                         *)
Items(s) ==
    CASE s = "anchor"          -> Entities
      [] s = "subgraph"        -> relations
      [] s = "wiki"            -> AllSections
      [] s \in {"seed", "hop"} -> Chunks
      [] OTHER                 -> {}

Pieces == Entities \cup relations \cup AllSections \cup Chunks

PartResults ==
    [seeds : SUBSET Known, edges : SUBSET relations, page : Known \cup {None},
     tokens : [SlotNames -> Nat], chosen : [SlotNames -> SUBSET Pieces],
     budget : Nat, fixed : Nat, total : Nat]

TypesInv ==
    /\ TypeOK
    /\ relations \in Graphs /\ request \in Requests
    /\ bare \subseteq Bare
    /\ todo \in Seq(Entities)
    /\ edges \subseteq relations
    /\ waiting \subseteq Items(slot) /\ taken \subseteq Items(slot)
    /\ chosen \in [SlotNames -> SUBSET Pieces]
    /\ parts \in Seq(PartResults)

LEMMA SlotNamed == SlotNames = {"anchor", "subgraph", "wiki", "seed", "hop"}
BY DEF SlotNames, Slots

LEMMA TokensAreNat == ASSUME NEW n \in Nat PROVE EstimateTokens(n) \in Nat
BY DEF EstimateTokens, CharsPerToken

LEMMA CharsAreNat ==
    ASSUME NEW s \in SlotNames, NEW item \in Items(s)
    PROVE  CharsOf(s, item) \in Nat /\ Separator(s) \in Nat
BY RetrievalAssumption, SlotNamed DEF RetrievalAssumption, Items, CharsOf, Separator

(* A search returns a sequence of entities that have a row.                  *)
LEMMA HitsTyped ==
    ASSUME NEW hits \in Hits
    PROVE  hits \in Seq(Entities) /\ Range(hits) \subseteq Known
           /\ (hits # <<>> => hits[1] \in Known)
<1> DEFINE n == Smaller(SeedCount, Cardinality(Searchable))
<1>1. n \in Nat /\ Searchable \subseteq Known /\ Known \subseteq Entities
  <2>1. IsFiniteSet(Searchable)
    BY FS_Subset, RetrievalAssumption, TraversalAssumption
       DEF RetrievalAssumption, TraversalAssumption
  <2> QED
    BY <2>1, FS_CardinalityType, RetrievalAssumption DEF RetrievalAssumption, Smaller
<1>2. hits \in [1 .. n -> Searchable]
    BY DEF Hits
<1> HIDE DEF n
<1>3. hits \in Seq(Searchable) /\ Len(hits) = n
    BY <1>1, <1>2
<1> QED
    BY <1>1, <1>2, <1>3 DEF Range

LEMMA TypesInit == Init => TypesInv
BY RetrievalAssumption, SlotNamed
   DEF RetrievalAssumption, Init, TypesInv, TypeOK, Items, PartResults

LEMMA FixedTyped ==
    ASSUME TypesInv
    PROVE  /\ Fixed \in Nat /\ Elastic \in Nat /\ SeedRoom \in Nat /\ SeedRoom <= Elastic
           /\ Total \in Nat
           /\ budget <= Fixed => Elastic = 0
           /\ Fixed < budget => Fixed + Elastic = budget
<1>1. /\ tokens["anchor"] \in Nat /\ tokens["subgraph"] \in Nat /\ tokens["wiki"] \in Nat
      /\ tokens["seed"] \in Nat /\ tokens["hop"] \in Nat /\ budget \in Nat
    BY SlotNamed DEF TypesInv, TypeOK
<1>2. Fixed \in Nat
    BY <1>1, RetrievalAssumption DEF Fixed, RetrievalAssumption
<1> HIDE DEF Fixed
<1>3. Elastic \in Nat /\ (budget <= Fixed => Elastic = 0) /\ (Fixed < budget => Fixed + Elastic = budget)
    BY <1>1, <1>2 DEF Elastic
<1>4. SeedRoom \in Nat /\ SeedRoom <= Elastic
    BY <1>3 DEF SeedRoom
<1>5. Total \in Nat
    BY <1>1, <1>2 DEF Total
<1> QED
    BY <1>2, <1>3, <1>4, <1>5

LEMMA CountedTyped == ASSUME TypesInv, NEW s \in SlotNames PROVE Counted(s) \in Nat
BY TokensAreNat DEF TypesInv, TypeOK, Counted

(* The result of one slot replaces nothing but that slot's.                  *)
LEMMA CloseTypes ==
    ASSUME TypesInv, NEW s \in SlotNames, slot = s, Close
    PROVE  /\ tokens' \in [SlotNames -> Nat] /\ chosen' \in [SlotNames -> SUBSET Pieces]
           /\ taken' = {} /\ used' = 0 /\ chars' = 0
<1>1. taken \in SUBSET Pieces
    BY SlotNamed DEF TypesInv, Items, Pieces
<1>2. Counted(s) \in Nat
    BY CountedTyped
<1> QED
    BY <1>1, <1>2 DEF Close, TypesInv, TypeOK

LEMMA TypesStep == TypesInv /\ [Next]_vars => TypesInv'
<1> SUFFICES ASSUME TypesInv, [Next]_vars PROVE TypesInv'
    OBVIOUS
<1> USE DEF database, plan, found, scored, filling, filled
<1>0. /\ request.budget \in Nat /\ request.ids \in Seq(Entities)
      /\ relations \subseteq Entities \X Entities
      /\ Known \subseteq Entities
    BY RetrievalAssumption DEF RetrievalAssumption, TypesInv
<1>1. CASE Single
    BY <1>1 DEF Single, TypesInv, TypeOK, Items, PartResults, Pieces
<1>2. CASE Compare
  <2>1. PICK ids \in IF request.ids # <<>> THEN {request.ids} ELSE Hits :
            IF ids = <<>> THEN UNCHANGED plan /\ pc' = "seeds"
            ELSE pc' = "next" /\ mode' = "comparison" /\ todo' = ids /\ budget' = PerEntity(ids)
    BY <1>2 DEF Compare
  <2>2. ids \in Seq(Entities)
    BY <1>0, <2>1, HitsTyped
  <2>3. ids # <<>> => PerEntity(ids) \in Nat
    BY <1>0, <2>2 DEF PerEntity
  <2> QED
    BY <1>2, <2>1, <2>2, <2>3 DEF Compare, TypesInv, TypeOK, Items, PartResults, Pieces
<1>3. CASE NextEntity
    BY <1>3 DEF NextEntity, TypesInv, TypeOK, Items, PartResults, Pieces
<1>4. CASE FallBack
    BY <1>0, <1>4 DEF FallBack, TypesInv, TypeOK, Items, PartResults, Pieces
<1>5. CASE Merge
    BY <1>5 DEF Merge, TypesInv, TypeOK, Items, PartResults, Pieces
<1>6. CASE FindSeeds
  <2>1. seeds' \subseteq Known /\ first' \in Known \cup {None}
    BY <1>0, <1>6, HitsTyped DEF FindSeeds, RowsOf
  <2> QED
    BY <1>6, <2>1 DEF FindSeeds, TypesInv, TypeOK, Items, PartResults, Pieces
<1>7. CASE Traverse
  <2>1. seeds \subseteq Entities
    BY <1>0 DEF TypesInv, TypeOK
  <2>2. kept' \subseteq Entities
    BY <1>7, <2>1, KeptInReach DEF Traverse
  <2>3. edges' \subseteq relations
    BY <1>7 DEF Traverse, Collected
  <2>4. waiting' \subseteq Items(slot)' /\ taken' \subseteq Items(slot)'
    BY <1>7, <2>1 DEF Traverse, Items
  <2>5. PartResults' = PartResults /\ Pieces' = Pieces /\ slot' \in SlotNames
    BY <1>7, SlotNamed DEF Traverse, PartResults, Pieces
  <2> QED
    BY <1>7, <2>2, <2>3, <2>4, <2>5 DEF Traverse, TypesInv, TypeOK
<1>8. CASE TakeItem
  <2>1. PICK item \in waiting :
            /\ taken' = taken \cup {item} /\ waiting' = waiting \ {item}
            /\ used' = used + EstimateTokens(CharsOf(slot, item))
            /\ chars' = chars + CharsOf(slot, item) + IF taken = {} THEN 0 ELSE Separator(slot)
    BY <1>8 DEF TakeItem
  <2>2. slot \in SlotNames /\ item \in Items(slot)
    BY <1>8, <2>1 DEF TakeItem, TypesInv
  <2>3. used' \in Nat /\ chars' \in Nat
    <3>1. CharsOf(slot, item) \in Nat /\ Separator(slot) \in Nat
      BY <2>2, CharsAreNat
    <3>2. EstimateTokens(CharsOf(slot, item)) \in Nat
      BY <3>1, TokensAreNat
    <3>3. used \in Nat /\ chars \in Nat
      BY DEF TypesInv, TypeOK
    <3> QED
      BY <2>1, <3>1, <3>2, <3>3
  <2> QED
    BY <1>8, <2>1, <2>2, <2>3 DEF TakeItem, TypesInv, TypeOK, Items, PartResults, Pieces
<1>9. CASE CloseAnchor
  <2>1. "anchor" \in SlotNames /\ slot = "anchor" /\ Close
    BY <1>9, SlotNamed DEF CloseAnchor, AtEnd
  <2>2. /\ tokens' \in [SlotNames -> Nat] /\ chosen' \in [SlotNames -> SUBSET Pieces]
        /\ taken' = {} /\ used' = 0 /\ chars' = 0
    BY <2>1, CloseTypes
  <2> QED
    BY <1>9, <2>2, SlotNamed DEF CloseAnchor, TypesInv, TypeOK, Items, PartResults, Pieces
<1>10. CASE CloseSubgraph
  <2>1. "subgraph" \in SlotNames /\ slot = "subgraph" /\ Close
    BY <1>10, SlotNamed DEF CloseSubgraph, AtEnd
  <2>2. /\ tokens' \in [SlotNames -> Nat] /\ chosen' \in [SlotNames -> SUBSET Pieces]
        /\ taken' = {} /\ used' = 0 /\ chars' = 0
    BY <2>1, CloseTypes
  <2>3. waiting' \subseteq AllSections
    BY <1>0, <1>10 DEF CloseSubgraph, AllSections
  <2> QED
    BY <1>10, <2>2, <2>3, SlotNamed DEF CloseSubgraph, TypesInv, TypeOK, Items, PartResults, Pieces
<1>11. CASE CloseWiki
  <2>1. "wiki" \in SlotNames /\ slot = "wiki" /\ Close
    BY <1>11, SlotNamed DEF CloseWiki, AtEnd
  <2>2. /\ tokens' \in [SlotNames -> Nat] /\ chosen' \in [SlotNames -> SUBSET Pieces]
        /\ taken' = {} /\ used' = 0 /\ chars' = 0
    BY <2>1, CloseTypes
  <2> QED
    BY <1>11, <2>2, SlotNamed DEF CloseWiki, TypesInv, TypeOK, Items, PartResults, Pieces
<1>12. CASE ScoreChunks
  <2>1. seedChunks' \subseteq Chunks /\ hopChunks' \subseteq Chunks /\ bare' \subseteq bare
    BY <1>12 DEF ScoreChunks, OfSeeds, OfOthers
  <2>2. taken = {}
    BY <1>12, SlotNamed DEF ScoreChunks, TypesInv, Items
  <2> QED
    BY <1>12, <2>1, <2>2, SlotNamed DEF ScoreChunks, TypesInv, TypeOK, Items, PartResults, Pieces
<1>13. CASE CloseSeed
  <2>1. "seed" \in SlotNames /\ slot = "seed" /\ Close
    BY <1>13, SlotNamed DEF CloseSeed, AtEnd
  <2>2. /\ tokens' \in [SlotNames -> Nat] /\ chosen' \in [SlotNames -> SUBSET Pieces]
        /\ taken' = {} /\ used' = 0 /\ chars' = 0
    BY <2>1, CloseTypes
  <2> QED
    BY <1>13, <2>2, SlotNamed DEF CloseSeed, TypesInv, TypeOK, Items, PartResults, Pieces
<1>14. CASE CloseHop
  <2>1. "hop" \in SlotNames /\ slot = "hop" /\ Close
    BY <1>14, SlotNamed DEF CloseHop, AtEnd
  <2>2. /\ tokens' \in [SlotNames -> Nat] /\ chosen' \in [SlotNames -> SUBSET Pieces]
        /\ taken' = {} /\ used' = 0 /\ chars' = 0
    BY <2>1, CloseTypes
  <2> QED
    BY <1>14, <2>2, SlotNamed DEF CloseHop, TypesInv, TypeOK, Items, PartResults, Pieces
<1>15. CASE FinishPart
  <2> DEFINE p == [seeds |-> seeds, edges |-> edges, page |-> first,
                   tokens |-> tokens, chosen |-> chosen,
                   budget |-> budget, fixed |-> Fixed, total |-> Total]
  <2>1. p \in PartResults
    BY FixedTyped DEF TypesInv, TypeOK, PartResults
  <2>2. parts' = Append(parts, p)
    BY <1>15 DEF FinishPart
  <2>3. parts' \in Seq(PartResults)
    <3> HIDE DEF p
    <3> QED
      BY <2>1, <2>2 DEF TypesInv
  <2>4. PartResults' = PartResults /\ Pieces' = Pieces
    BY <1>15 DEF FinishPart, PartResults, Pieces
  <2>5. waiting = {} /\ taken = {}
    BY <1>15 DEF FinishPart, TypesInv, Items
  <2> QED
    BY <1>15, <2>3, <2>4, <2>5, SlotNamed DEF FinishPart, TypesInv, TypeOK
<1>16. CASE UNCHANGED vars
    BY <1>16 DEF vars, TypesInv, TypeOK, Items, PartResults, Pieces
<1> QED
    BY <1>1, <1>2, <1>3, <1>4, <1>5, <1>6, <1>7, <1>8, <1>9, <1>10, <1>11, <1>12, <1>13,
       <1>14, <1>15, <1>16 DEF Next

LEMMA TypesAlways == Spec => []TypesInv
BY TypesInit, TypesStep, PTL DEF Spec

(* A retrieval stays within its types: only entities that have a row are     *)
(* seeds, whatever the request names, and no count is negative.              *)
THEOREM RetrievalTypes == Spec => []TypeOK
<1>1. TypesInv => TypeOK
    BY DEF TypesInv
<1> QED
    BY <1>1, TypesAlways, PTL

-----------------------------------------------------------------------------
(* The walk *)

WalkInv ==
    pc = "fill" => /\ kept \in Traversals(relations, seeds)
                   /\ edges = Collected(relations, seeds, kept)

LEMMA WalkStep == WalkInv /\ [Next]_vars => WalkInv'
<1> SUFFICES ASSUME WalkInv, [Next]_vars PROVE WalkInv'
    OBVIOUS
<1> USE DEF database, plan, found, scored, filling, filled
<1>1. CASE Traverse
    BY <1>1 DEF Traverse, WalkInv
<1>2. CASE Single \/ Compare \/ NextEntity \/ FallBack \/ Merge \/ FindSeeds \/ FinishPart
    BY <1>2 DEF Single, Compare, NextEntity, FallBack, Merge, FindSeeds, FinishPart, WalkInv
<1>3. CASE \/ TakeItem \/ CloseAnchor \/ CloseSubgraph \/ CloseWiki \/ ScoreChunks
           \/ CloseSeed \/ CloseHop
    BY <1>3 DEF TakeItem, CloseAnchor, CloseSubgraph, CloseWiki, ScoreChunks, CloseSeed,
       CloseHop, WalkInv
<1>4. CASE UNCHANGED vars
    BY <1>4 DEF vars, WalkInv
<1> QED
    BY <1>1, <1>2, <1>3, <1>4 DEF Next

(* The walk against its definition by simple paths, for every graph, every   *)
(* set of seeds and every value of the three limits (traversal.py:28-119):   *)
(* the hop map holds distances, the limits explain whatever within reach is  *)
(* left out, and what is kept hangs together unless they cut it.             *)
THEOREM WalkAgainstPaths == Spec => []WalkIsExact
<1>1. Init => WalkInv
    BY DEF Init, WalkInv
<1>2. TypesInv /\ WalkInv => WalkIsExact
  <2> SUFFICES ASSUME TypesInv, WalkInv, Walked PROVE WalkIsExact
    BY DEF WalkIsExact, HopsAreShortest, LimitsExplainGaps, ConnectedUnlessCut
  <2>0. /\ seeds \subseteq Entities /\ relations \subseteq Entities \X Entities
        /\ MaxHops \in Nat
    BY RetrievalAssumption, TraversalAssumption
       DEF RetrievalAssumption, TraversalAssumption, TypesInv, TypeOK
  <2>1. kept \in Traversals(relations, seeds) /\ edges = Collected(relations, seeds, kept)
    BY DEF WalkInv, Walked
  <2>2. HopsAreShortest
    <3> SUFFICES ASSUME NEW e \in kept
                 PROVE  e \in AtDistance(relations, seeds, HopMap(relations, seeds, kept)[e])
      BY DEF HopsAreShortest
    <3>1. e \in DOMAIN AllHops(relations, seeds)
      BY <2>0, <2>1, KeptInReach
    <3>2. HopMap(relations, seeds, kept)[e] = AllHops(relations, seeds)[e]
      BY DEF HopMap, Restrict
    <3>3. AllHops(relations, seeds)[e] \in 0 .. MaxHops
      BY <2>0, <3>1, HopIsFirstRow
    <3> QED
      BY <2>0, <3>1, <3>2, <3>3, HopIsDistance
  <2>3. LimitsExplainGaps
    BY <2>0, <2>1, GapsExplained DEF LimitsExplainGaps
  <2>4. ConnectedUnlessCut
    BY <2>0, <2>1, ConnectedOrCut DEF ConnectedUnlessCut
  <2> QED
    BY <2>2, <2>3, <2>4 DEF WalkIsExact
<1> QED
    BY <1>1, <1>2, WalkStep, TypesAlways, PTL DEF Spec

-----------------------------------------------------------------------------
(* The budget of a slot *)

(* What the loop keeps to while it fills a slot: the cost stays within the   *)
(* room, and the joined text is longer than the cost allows by at most one   *)
(* token per line, two per section of a page.                                *)
FillInv ==
    /\ slot # "anchor" => pc = "fill"
    /\ IsFiniteSet(taken) /\ waiting \cap taken = {}
    /\ taken = {} => used = 0 /\ chars = 0
    /\ slot \in SlotNames => used <= Room(slot)
    /\ slot \in {"anchor", "subgraph"} => chars <= 4 * (used + Cardinality(taken))
    /\ slot = "wiki" => chars <= 4 * (used + 2 * Cardinality(taken))

(* What is known of the slots that are full.                                 *)
FullInv ==
    /\ slot \in {"hop", "full"} => tokens["seed"] <= SeedRoom
    /\ slot = "full" => tokens["hop"] <= Elastic - SeedRoom

LEMMA RoomsTyped ==
    ASSUME TypesInv
    PROVE  \A s \in SlotNames : Room(s) \in Nat
<1>1. /\ AnchorBudget \in Nat /\ SubgraphBudget \in Nat /\ WikiBudget \in Nat
      /\ SeedRoom \in Nat /\ Elastic - SeedRoom \in Nat
    BY FixedTyped, RetrievalAssumption DEF RetrievalAssumption
<1> QED
    BY <1>1, SlotNamed DEF Room

(* The cost of a text covers it but for the rest of the division.            *)
LEMMA TokensCover ==
    ASSUME NEW n \in Nat
    PROVE  n <= 4 * EstimateTokens(n) + 3
BY DEF EstimateTokens, CharsPerToken

LEMMA TokensBounded ==
    ASSUME NEW n \in Nat, NEW m \in Nat, n <= 4 * m
    PROVE  EstimateTokens(n) <= Larger(1, m)
BY DEF EstimateTokens, CharsPerToken, Larger

LEMMA LargerGrows ==
    ASSUME NEW a \in Nat, NEW b \in Nat, a <= b, NEW n \in Nat, n <= Larger(1, a)
    PROVE  n <= Larger(1, b)
BY DEF Larger

(* The room of every slot depends only on the slots of fixed size and on the *)
(* budget.                                                                   *)
LEMMA RoomsStay ==
    ASSUME UNCHANGED budget,
           \A s \in {"anchor", "subgraph", "wiki"} : tokens'[s] = tokens[s]
    PROVE  /\ Fixed' = Fixed /\ Elastic' = Elastic /\ SeedRoom' = SeedRoom
           /\ \A s \in SlotNames : Room(s)' = Room(s)
<1>1. Fixed' = Fixed
    BY DEF Fixed
<1> HIDE DEF Fixed
<1>2. Elastic' = Elastic
    BY <1>1 DEF Elastic
<1>3. SeedRoom' = SeedRoom
    BY <1>2 DEF SeedRoom
<1> QED
    BY <1>1, <1>2, <1>3 DEF Room

(* One more item.                                                            *)
LEMMA TakeFills ==
    ASSUME TypesInv, FillInv, TakeItem
    PROVE  FillInv' /\ Room(slot)' = Room(slot)
<1> USE DEF database, plan, found, scored, filled
<1>1. PICK item \in waiting :
            /\ Fits(item)
            /\ taken' = taken \cup {item} /\ waiting' = waiting \ {item}
            /\ used' = used + EstimateTokens(CharsOf(slot, item))
            /\ chars' = chars + CharsOf(slot, item) + IF taken = {} THEN 0 ELSE Separator(slot)
    BY DEF TakeItem
<1> DEFINE n == CharsOf(slot, item)
           cost == EstimateTokens(n)
           gap == IF taken = {} THEN 0 ELSE Separator(slot)
<1>2. slot \in SlotNames /\ pc = "fill" /\ UNCHANGED <<pc, slot, budget, tokens>>
    BY DEF TakeItem
<1>3. n \in Nat /\ cost \in Nat /\ n <= 4 * cost + 3 /\ Separator(slot) \in Nat
    BY <1>1, <1>2, CharsAreNat, TokensAreNat, TokensCover DEF TypesInv
<1>4. used \in Nat /\ chars \in Nat /\ Cardinality(taken) \in Nat
    BY FS_CardinalityType DEF TypesInv, TypeOK, FillInv
<1>5. IsFiniteSet(taken') /\ Cardinality(taken') = Cardinality(taken) + 1
    BY <1>1, FS_AddElement DEF FillInv
<1>6. \A s \in SlotNames : Room(s)' = Room(s)
    BY <1>2, RoomsStay
<1>7. Room(slot)' = Room(slot)
    BY <1>2, <1>6 DEF Room
<1>8. used' <= Room(slot)'
    BY <1>1, <1>7 DEF Fits
<1>9. slot = "wiki" => gap <= 2
    BY DEF Separator
<1>10. slot \in {"anchor", "subgraph"} => gap <= 1
    BY DEF Separator
<1>11. gap \in Nat /\ used' = used + cost /\ chars' = chars + n + gap
    BY <1>1, <1>3
<1> HIDE DEF n, cost, gap
<1>12. slot \in {"anchor", "subgraph"} => chars' <= 4 * (used' + Cardinality(taken'))
    BY <1>3, <1>4, <1>5, <1>10, <1>11 DEF FillInv
<1>13. slot = "wiki" => chars' <= 4 * (used' + 2 * Cardinality(taken'))
    BY <1>3, <1>4, <1>5, <1>9, <1>11 DEF FillInv
<1>14. waiting' \cap taken' = {} /\ taken' # {}
    BY <1>1 DEF FillInv
<1> QED
    BY <1>2, <1>5, <1>7, <1>8, <1>12, <1>13, <1>14 DEF FillInv

(* A slot of fixed size is charged for the joined text.                      *)
LEMMA FixedSlots ==
    ASSUME TypesInv, FillInv
    PROVE  /\ slot = "anchor" => Counted("anchor") <= Larger(1, AnchorBudget + Cardinality(taken))
           /\ slot = "subgraph" =>
                Counted("subgraph") <= Larger(1, SubgraphBudget + Cardinality(taken))
           /\ slot = "wiki" => Counted("wiki") <= Larger(1, WikiBudget + 2 * Cardinality(taken))
<1>1. used \in Nat /\ chars \in Nat /\ Cardinality(taken) \in Nat
    BY FS_CardinalityType DEF TypesInv, TypeOK, FillInv
<1>2. EstimateTokens(chars) \in Nat
    BY <1>1, TokensAreNat
<1>3. /\ AnchorBudget \in Nat /\ SubgraphBudget \in Nat /\ WikiBudget \in Nat
    BY RetrievalAssumption DEF RetrievalAssumption
<1>4. ASSUME slot = "anchor"
      PROVE  Counted("anchor") <= Larger(1, AnchorBudget + Cardinality(taken))
  <2>1. used <= AnchorBudget /\ chars <= 4 * (used + Cardinality(taken))
    BY <1>4, SlotNamed DEF FillInv, Room
  <2>2. chars <= 4 * (AnchorBudget + Cardinality(taken))
    BY <1>1, <1>3, <2>1
  <2> QED
    BY <1>1, <1>3, <2>2, TokensBounded DEF Counted
<1>5. ASSUME slot = "subgraph"
      PROVE  Counted("subgraph") <= Larger(1, SubgraphBudget + Cardinality(taken))
  <2>1. used <= SubgraphBudget /\ chars <= 4 * (used + Cardinality(taken))
    BY <1>5, SlotNamed DEF FillInv, Room
  <2>2. chars <= 4 * (SubgraphBudget + Cardinality(taken))
    BY <1>1, <1>3, <2>1
  <2> QED
    BY <1>1, <1>3, <2>2, TokensBounded DEF Counted
<1>6. ASSUME slot = "wiki"
      PROVE  Counted("wiki") <= Larger(1, WikiBudget + 2 * Cardinality(taken))
  <2>1. used <= WikiBudget /\ chars <= 4 * (used + 2 * Cardinality(taken))
    BY <1>6, SlotNamed DEF FillInv, Room
  <2>2. chars <= 4 * (WikiBudget + 2 * Cardinality(taken))
    BY <1>1, <1>3, <2>1
  <2>3. EstimateTokens(chars) <= Larger(1, WikiBudget + 2 * Cardinality(taken))
    BY <1>1, <1>3, <2>2, TokensBounded
  <2>4. 0 <= Larger(1, WikiBudget + 2 * Cardinality(taken))
    BY <1>1, <1>3 DEF Larger
  <2> QED
    BY <2>3, <2>4 DEF Counted
<1> QED
    BY <1>4, <1>5, <1>6

SlotInv == FillInv /\ FullInv /\ SlotsNearlyBounded /\ PartsWithinBudget

(* An empty slot.                                                            *)
LEMMA EmptyFits ==
    ASSUME taken' = {}, used' = 0, chars' = 0,
           slot' # "anchor" => pc' = "fill",
           slot' \in SlotNames => 0 <= Room(slot)'
    PROVE  FillInv'
<1>1. Cardinality(taken') = 0 /\ IsFiniteSet(taken')
    BY FS_EmptySet
<1> QED
    BY <1>1 DEF FillInv

LEMMA CloseKeeps ==
    ASSUME TypesInv, NEW s \in SlotNames, slot = s, Close
    PROVE  /\ tokens'[s] = Counted(s) /\ chosen'[s] = taken
           /\ \A t \in SlotNames \ {s} : tokens'[t] = tokens[t] /\ chosen'[t] = chosen[t]
BY DEF Close, TypesInv, TypeOK

LEMMA SlotInit == Init => SlotInv
<1> SUFFICES ASSUME Init PROVE SlotInv
    OBVIOUS
<1>0. /\ AnchorBudget \in Nat /\ SubgraphBudget \in Nat /\ WikiBudget \in Nat
    BY RetrievalAssumption DEF RetrievalAssumption
<1>1. Cardinality({}) = 0 /\ IsFiniteSet({})
    BY FS_EmptySet
<1>2. FillInv
    BY <1>0, <1>1 DEF Init, FillInv, Room
<1>3. SlotsNearlyBounded
    BY <1>0, <1>1, SlotNamed DEF Init, SlotsNearlyBounded, Larger
<1> QED
    BY <1>2, <1>3 DEF Init, SlotInv, FullInv, PartsWithinBudget

LEMMA SlotStep == TypesInv /\ SlotInv /\ [Next]_vars => SlotInv'
<1> SUFFICES ASSUME TypesInv, SlotInv, [Next]_vars PROVE SlotInv'
    OBVIOUS
<1> USE DEF database, plan, found, scored, filling, filled
<1>0. FillInv /\ FullInv /\ SlotsNearlyBounded /\ PartsWithinBudget
    BY DEF SlotInv
<1>a. /\ AnchorBudget \in Nat /\ SubgraphBudget \in Nat /\ WikiBudget \in Nat
      /\ SeedRoom \in Nat /\ Elastic \in Nat /\ SeedRoom <= Elastic
      /\ Room("seed") = SeedRoom /\ Room("hop") = Elastic - SeedRoom
      /\ used \in Nat /\ tokens \in [SlotNames -> Nat]
    BY FixedTyped, RetrievalAssumption DEF RetrievalAssumption, TypesInv, TypeOK, Room
<1>1. ASSUME pc # "fill", UNCHANGED <<slot, waiting, taken, used, chars, tokens, chosen, parts>>
      PROVE  SlotInv'
  <2>1. slot = "anchor" /\ Room("anchor") = AnchorBudget /\ Room("anchor")' = AnchorBudget
    BY <1>0, <1>1 DEF FillInv, Room
  <2> QED
    BY <1>0, <1>1, <2>1, SlotNamed
       DEF SlotInv, FillInv, FullInv, SlotsNearlyBounded, PartsWithinBudget
<1>2. CASE Single \/ Compare \/ NextEntity \/ FallBack \/ Merge \/ FindSeeds
  <2>1. pc # "fill" /\ UNCHANGED <<slot, waiting, taken, used, chars, tokens, chosen, parts>>
    BY <1>2 DEF Single, Compare, NextEntity, FallBack, Merge, FindSeeds
  <2> QED
    BY <1>1, <2>1
<1>3. CASE Traverse
  <2>1. FillInv'
    BY <1>3, <1>a, EmptyFits DEF Traverse, Room
  <2> QED
    BY <1>0, <1>3, <2>1 DEF Traverse, SlotInv, FullInv, SlotsNearlyBounded, PartsWithinBudget
<1>4. CASE TakeItem
  <2>1. FillInv'
    BY <1>0, <1>4, TakeFills
  <2>2. slot \in SlotNames /\ UNCHANGED <<slot, budget, tokens, chosen, parts>>
    BY <1>4 DEF TakeItem
  <2>3. SeedRoom' = SeedRoom /\ Elastic' = Elastic
    BY <2>2, RoomsStay
  <2> QED
    BY <1>0, <2>1, <2>2, <2>3 DEF SlotInv, FullInv, SlotsNearlyBounded, PartsWithinBudget
<1>5. CASE CloseAnchor
  <2>1. slot = "anchor" /\ slot' = "subgraph" /\ pc' = "fill" /\ Close /\ UNCHANGED parts
    BY <1>5 DEF CloseAnchor, AtEnd
  <2>2. FillInv'
    BY <1>a, <2>1, EmptyFits DEF Room, Close
  <2>3. /\ tokens'["anchor"] = Counted("anchor") /\ chosen'["anchor"] = taken
        /\ \A t \in SlotNames \ {"anchor"} : tokens'[t] = tokens[t] /\ chosen'[t] = chosen[t]
    BY <2>1, CloseKeeps, SlotNamed
  <2>4. SlotsNearlyBounded'
    BY <1>0, <2>1, <2>3, FixedSlots, SlotNamed DEF SlotsNearlyBounded
  <2> QED
    BY <1>0, <2>1, <2>2, <2>4 DEF SlotInv, FullInv, PartsWithinBudget
<1>6. CASE CloseSubgraph
  <2>1. slot = "subgraph" /\ slot' = "wiki" /\ pc' = "fill" /\ Close /\ UNCHANGED parts
    BY <1>6 DEF CloseSubgraph, AtEnd
  <2>2. FillInv'
    BY <1>a, <2>1, EmptyFits DEF Room, Close
  <2>3. /\ tokens'["subgraph"] = Counted("subgraph") /\ chosen'["subgraph"] = taken
        /\ \A t \in SlotNames \ {"subgraph"} : tokens'[t] = tokens[t] /\ chosen'[t] = chosen[t]
    BY <2>1, CloseKeeps, SlotNamed
  <2>4. SlotsNearlyBounded'
    BY <1>0, <2>1, <2>3, FixedSlots, SlotNamed DEF SlotsNearlyBounded
  <2> QED
    BY <1>0, <2>1, <2>2, <2>4 DEF SlotInv, FullInv, PartsWithinBudget
<1>7. CASE CloseWiki
  <2>1. slot = "wiki" /\ slot' = "scoring" /\ pc' = "fill" /\ Close /\ UNCHANGED parts
    BY <1>7 DEF CloseWiki, AtEnd
  <2>2. FillInv'
    BY <2>1, EmptyFits, SlotNamed DEF Close
  <2>3. /\ tokens'["wiki"] = Counted("wiki") /\ chosen'["wiki"] = taken
        /\ \A t \in SlotNames \ {"wiki"} : tokens'[t] = tokens[t] /\ chosen'[t] = chosen[t]
    BY <2>1, CloseKeeps, SlotNamed
  <2>4. SlotsNearlyBounded'
    BY <1>0, <2>1, <2>3, FixedSlots, SlotNamed DEF SlotsNearlyBounded
  <2> QED
    BY <1>0, <2>1, <2>2, <2>4 DEF SlotInv, FullInv, PartsWithinBudget
<1>8. CASE ScoreChunks
  <2>1. /\ slot = "scoring" /\ slot' = "seed" /\ pc' = "fill"
        /\ UNCHANGED <<budget, taken, used, chars, tokens, chosen, parts>>
    BY <1>8 DEF ScoreChunks
  <2>2. taken = {} /\ used = 0 /\ chars = 0
    BY <1>0, <2>1 DEF TypesInv, Items, FillInv
  <2>3. Room("seed")' = Room("seed")
    BY <2>1, RoomsStay, SlotNamed
  <2>4. FillInv'
    <3>1. 0 <= Room("seed")'
      BY <1>a, <2>3
    <3>2. Room(slot)' = Room("seed")'
      BY <2>1 DEF Room
    <3> QED
      BY <2>1, <2>2, <3>1, <3>2, EmptyFits
  <2> QED
    BY <1>0, <2>1, <2>4 DEF SlotInv, FullInv, SlotsNearlyBounded, PartsWithinBudget
<1>9. CASE CloseSeed
  <2>1. /\ slot = "seed" /\ slot' = "hop" /\ pc' = "fill" /\ Close
        /\ UNCHANGED <<budget, parts>>
    BY <1>9 DEF CloseSeed, AtEnd
  <2>2. /\ tokens'["seed"] = Counted("seed")
        /\ \A t \in SlotNames \ {"seed"} : tokens'[t] = tokens[t] /\ chosen'[t] = chosen[t]
    BY <2>1, CloseKeeps, SlotNamed
  <2>3. SeedRoom' = SeedRoom /\ Room("hop")' = Room("hop")
    BY <2>1, <2>2, RoomsStay, SlotNamed
  <2>4. FillInv'
    <3>1. 0 <= Room("hop")'
      BY <1>a, <2>3
    <3>2. Room(slot)' = Room("hop")'
      BY <2>1 DEF Room
    <3>3. taken' = {} /\ used' = 0 /\ chars' = 0
      BY <2>1 DEF Close
    <3> QED
      BY <2>1, <3>1, <3>2, <3>3, EmptyFits
  <2>5. tokens'["seed"] <= SeedRoom'
    BY <1>0, <1>a, <2>1, <2>2, <2>3, SlotNamed DEF FillInv, Counted
  <2>6. SlotsNearlyBounded'
    BY <1>0, <2>2, SlotNamed DEF SlotsNearlyBounded
  <2> QED
    BY <1>0, <2>1, <2>4, <2>5, <2>6 DEF SlotInv, FullInv, PartsWithinBudget
<1>10. CASE CloseHop
  <2>1. /\ slot = "hop" /\ slot' = "full" /\ pc' = "fill" /\ Close
        /\ UNCHANGED <<budget, parts>>
    BY <1>10 DEF CloseHop, AtEnd
  <2>2. /\ tokens'["hop"] = Counted("hop")
        /\ \A t \in SlotNames \ {"hop"} : tokens'[t] = tokens[t] /\ chosen'[t] = chosen[t]
    BY <2>1, CloseKeeps, SlotNamed
  <2>3. SeedRoom' = SeedRoom /\ Elastic' = Elastic
    BY <2>1, <2>2, RoomsStay, SlotNamed
  <2>4. FillInv'
    BY <2>1, EmptyFits, SlotNamed DEF Close
  <2>5. tokens'["hop"] <= Elastic' - SeedRoom' /\ tokens'["seed"] <= SeedRoom'
    BY <1>0, <1>a, <2>1, <2>2, <2>3, SlotNamed DEF FillInv, FullInv, Counted
  <2>6. SlotsNearlyBounded'
    BY <1>0, <2>2, SlotNamed DEF SlotsNearlyBounded
  <2> QED
    BY <1>0, <2>1, <2>4, <2>5, <2>6 DEF SlotInv, FullInv, PartsWithinBudget
<1>11. CASE FinishPart
  <2> DEFINE p == [seeds |-> seeds, edges |-> edges, page |-> first,
                   tokens |-> tokens, chosen |-> chosen,
                   budget |-> budget, fixed |-> Fixed, total |-> Total]
  <2>1. /\ slot = "full" /\ slot' = "anchor" /\ parts' = Append(parts, p)
        /\ UNCHANGED <<taken, used, chars, tokens, chosen>>
    BY <1>11 DEF FinishPart
  <2>2. taken = {} /\ used = 0 /\ chars = 0
    BY <1>0, <2>1 DEF TypesInv, Items, FillInv
  <2>3. FillInv'
    BY <1>a, <2>1, <2>2, EmptyFits DEF Room
  <2>4. p.total <= Larger(p.budget, p.fixed)
    <3>1. Fixed \in Nat /\ budget \in Nat /\ tokens["seed"] \in Nat /\ tokens["hop"] \in Nat
      BY FixedTyped, SlotNamed DEF TypesInv, TypeOK
    <3>2. tokens["seed"] + tokens["hop"] <= Elastic
      BY <1>0, <1>a, <2>1, <3>1 DEF FullInv
    <3>3. (budget <= Fixed => Elastic = 0) /\ (Fixed < budget => Fixed + Elastic = budget)
      BY FixedTyped
    <3>4. Total = Fixed + tokens["seed"] + tokens["hop"]
      BY DEF Total
    <3> HIDE DEF Fixed
    <3>5. Total <= Larger(budget, Fixed)
      BY <1>a, <3>1, <3>2, <3>3, <3>4 DEF Larger
    <3> QED
      BY <3>5
  <2>5. PartsWithinBudget'
    <3> HIDE DEF p
    <3>1. parts \in Seq(PartResults)
      BY DEF TypesInv
    <3>2. Len(parts') = Len(parts) + 1 /\ parts'[Len(parts) + 1] = p
          /\ \A i \in 1 .. Len(parts) : parts'[i] = parts[i]
      BY <2>1, <3>1
    <3> QED
      BY <1>0, <2>4, <3>1, <3>2 DEF PartsWithinBudget
  <2> QED
    BY <1>0, <2>1, <2>3, <2>5 DEF SlotInv, FullInv, SlotsNearlyBounded
<1>12. CASE UNCHANGED vars
  <2>1. SeedRoom' = SeedRoom /\ Elastic' = Elastic /\ \A s \in SlotNames : Room(s)' = Room(s)
    BY <1>12, RoomsStay DEF vars
  <2>2. slot' = slot /\ (slot \in SlotNames => Room(slot)' = Room(slot))
    BY <1>12, <2>1 DEF vars, Room
  <2>3. FillInv'
    BY <1>0, <1>12, <2>2 DEF vars, FillInv
  <2> QED
    BY <1>0, <1>12, <2>1, <2>3 DEF vars, SlotInv, FullInv, SlotsNearlyBounded, PartsWithinBudget
<1> QED
    BY <1>2, <1>3, <1>4, <1>5, <1>6, <1>7, <1>8, <1>9, <1>10, <1>11, <1>12 DEF Next

-----------------------------------------------------------------------------
(* The merged parts of a comparison *)

(* The fold that adds up the parts, over sets of their places.               *)
AreTotals(f, s, n) ==
    f = [T \in SUBSET (1 .. n) |->
            IF T = {} THEN 0 ELSE LET x == Max(T) IN f[T \ {x}] + s[x].total]

LEMMA TotalsFold ==
    ASSUME NEW s
    PROVE  FoldLeft(LAMBDA sum, p : sum + p.total, 0, s)
              = LET f == CHOOSE f : f = [T \in SUBSET (DOMAIN s) |->
                            IF T = {} THEN 0 ELSE LET x == Max(T) IN f[T \ {x}] + s[x].total]
                IN f[DOMAIN s]
BY Zenon DEF FoldLeft, MapThenFoldSet

LEMMA MaxOfPlaces ==
    ASSUME NEW m \in Nat, NEW T \in SUBSET (1 .. m), m \in T
    PROVE  Max(T) = m
<1>1. \A y \in T : m >= y
    OBVIOUS
<1>2. \A x \in T : (\A y \in T : x >= y) => x = m
    OBVIOUS
<1> QED
    BY <1>1, <1>2 DEF Max

LEMMA TotalsExist ==
    ASSUME NEW s, NEW n \in Nat
    PROVE  \E f : AreTotals(f, s, n)
<1> DEFINE Missing == {m \in Nat : ~\E f : AreTotals(f, s, m)}
<1> SUFFICES ASSUME Missing # {} PROVE FALSE
    OBVIOUS
<1>1. PICK m \in Missing : \A d \in Missing : m <= d
    BY LeastNumber
<1>2. m \in Nat /\ ~\E f : AreTotals(f, s, m)
    OBVIOUS
<1>3. CASE m = 0
  <2> DEFINE g == [T \in SUBSET (1 .. m) |-> 0]
  <2>1. ASSUME NEW T \in SUBSET (1 .. m) PROVE T = {}
    BY <1>3
  <2>2. \A T \in SUBSET (1 .. m) :
            g[T] = IF T = {} THEN 0 ELSE LET x == Max(T) IN g[T \ {x}] + s[x].total
    BY <2>1
  <2>3. AreTotals(g, s, m)
    BY <2>2, Zenon DEF AreTotals
  <2> QED
    BY <1>2, <2>3, Zenon
<1>4. CASE m # 0
  <2>1. m - 1 \in Nat /\ m - 1 \notin Missing
    <3> HIDE DEF Missing
    <3> QED
      BY <1>1, <1>2, <1>4
  <2>2. PICK f : AreTotals(f, s, m - 1)
    BY <2>1
  <2>3. \A T \in SUBSET (1 .. m - 1) :
            f[T] = IF T = {} THEN 0 ELSE LET x == Max(T) IN f[T \ {x}] + s[x].total
    BY <2>2, Zenon DEF AreTotals
  <2> DEFINE g == [T \in SUBSET (1 .. m) |->
                      IF m \in T THEN f[T \ {m}] + s[m].total ELSE f[T]]
  <2>4. ASSUME NEW T \in SUBSET (1 .. m)
        PROVE  g[T] = IF T = {} THEN 0 ELSE LET x == Max(T) IN g[T \ {x}] + s[x].total
    <3>1. CASE m \in T
      <4>1. Max(T) = m
        BY <1>2, <3>1, MaxOfPlaces
      <4>2. T \ {m} \in SUBSET (1 .. m) /\ m \notin T \ {m}
        OBVIOUS
      <4>3. g[T] = f[T \ {m}] + s[m].total /\ g[T \ {m}] = f[T \ {m}]
        BY <3>1, <4>2
      <4> HIDE DEF g
      <4> QED
        BY <3>1, <4>1, <4>3
    <3>2. CASE m \notin T
      <4>1. T \in SUBSET (1 .. m - 1)
        BY <1>2, <3>2
      <4>2. \A x : T \ {x} \in SUBSET (1 .. m) /\ m \notin T \ {x}
        BY <3>2
      <4>3. g[T] = f[T] /\ \A x : g[T \ {x}] = f[T \ {x}]
        BY <3>2, <4>2
      <4>4. f[T] = IF T = {} THEN 0 ELSE LET x == Max(T) IN f[T \ {x}] + s[x].total
        BY <2>3, <4>1
      <4> HIDE DEF g
      <4> QED
        BY <4>3, <4>4
    <3> QED
      BY <3>1, <3>2
  <2>5. AreTotals(g, s, m)
    BY <2>4, Zenon DEF AreTotals
  <2> QED
    BY <1>2, <2>5, Zenon
<1> QED
    BY <1>3, <1>4

(* Parts of at most b tokens each make at most b tokens times their number.  *)
LEMMA TotalsBounded ==
    ASSUME NEW s \in Seq(PartResults), NEW b \in Nat, \A i \in 1 .. Len(s) : s[i].total <= b
    PROVE  /\ FoldLeft(LAMBDA sum, p : sum + p.total, 0, s) \in Nat
           /\ FoldLeft(LAMBDA sum, p : sum + p.total, 0, s) <= Len(s) * b
<1> DEFINE n == Len(s)
           g == CHOOSE f : AreTotals(f, s, n)
           Over == {k \in 0 .. n : ~(g[1 .. k] \in Nat /\ g[1 .. k] <= k * b)}
<1>1. n \in Nat /\ DOMAIN s = 1 .. n /\ \A i \in 1 .. n : s[i].total \in Nat /\ s[i].total <= b
  <2>1. n \in Nat /\ DOMAIN s = 1 .. n /\ \A i \in 1 .. n : s[i] \in PartResults
    OBVIOUS
  <2>2. \A r \in PartResults : r.total \in Nat
    BY DEF PartResults
  <2> QED
    BY <2>1, <2>2
<1>2. FoldLeft(LAMBDA sum, p : sum + p.total, 0, s) = g[1 .. n]
  <2> HIDE DEF n
  <2> QED
    BY <1>1, TotalsFold, Zenon DEF AreTotals
<1>3. AreTotals(g, s, n)
  <2> HIDE DEF n
  <2> QED
    BY <1>1, TotalsExist, Zenon
<1> HIDE DEF g, n
<1>4. \A T \in SUBSET (1 .. n) :
          g[T] = IF T = {} THEN 0 ELSE LET x == Max(T) IN g[T \ {x}] + s[x].total
    BY <1>3, Zenon DEF AreTotals
<1>5. Over = {}
  <2> SUFFICES ASSUME Over # {} PROVE FALSE
    OBVIOUS
  <2>1. PICK k \in Over : \A d \in Over : k <= d
    <3>1. Over \subseteq Nat
      BY <1>1
    <3> HIDE DEF Over
    <3> QED
      BY <3>1, LeastNumber
  <2>2. k \in 0 .. n /\ k \in Nat /\ ~(g[1 .. k] \in Nat /\ g[1 .. k] <= k * b)
    BY <1>1
  <2>3. k # 0
    <3> SUFFICES ASSUME k = 0 PROVE FALSE
      OBVIOUS
    <3>1. 1 .. k = {} /\ 0 * b = 0
      OBVIOUS
    <3>2. g[1 .. k] = 0
      BY <1>4, <3>1
    <3> QED
      BY <2>2, <3>1, <3>2
  <2>4. k - 1 \in 0 .. n /\ k - 1 \notin Over
    <3> HIDE DEF Over
    <3> QED
      BY <1>1, <2>1, <2>2, <2>3
  <2>5. g[1 .. k - 1] \in Nat /\ g[1 .. k - 1] <= (k - 1) * b
    BY <2>4
  <2>6. g[1 .. k] = g[1 .. k - 1] + s[k].total
    <3>1. 1 .. k \in SUBSET (1 .. n) /\ 1 .. k # {} /\ k \in 1 .. k
      BY <1>1, <2>2, <2>3
    <3>2. Max(1 .. k) = k
      BY <2>2, <3>1, MaxOfPlaces
    <3>3. (1 .. k) \ {k} = 1 .. k - 1
      BY <2>2
    <3> QED
      BY <1>4, <3>1, <3>2, <3>3
  <2>7. s[k].total \in Nat /\ s[k].total <= b
    BY <1>1, <2>2, <2>3
  <2>8. (k - 1) * b + b = k * b
    BY <2>2
  <2>9. (k - 1) * b \in Nat /\ k * b \in Nat
    BY <2>2, <2>3
  <2> QED
    BY <2>2, <2>5, <2>6, <2>7, <2>8, <2>9
<1>6. g[1 .. n] \in Nat /\ g[1 .. n] <= n * b
  <2>1. n \in 0 .. n
    BY <1>1
  <2> QED
    BY <1>5, <2>1
<1> QED
    BY <1>2, <1>6, Zenon DEF n

(* A pass has the whole budget; a part of a comparison of n entities has a   *)
(* share of one in n, and there are no more than n parts.                    *)
UnderWay == IF pc \in {"start", "seeds", "traverse", "fill"} THEN 1 ELSE 0

SharedBy(n) ==
    /\ budget = request.budget \div n
    /\ \A i \in 1 .. Len(parts) : parts[i].budget = budget
    /\ Len(parts) + Len(todo) + UnderWay <= n

ShareInv ==
    /\ pc = "start" => parts = <<>> /\ todo = <<>> /\ budget = request.budget
    /\ \E n \in Nat \ {0} : SharedBy(n)

LEMMA WholeBudget ==
    ASSUME NEW B \in Nat
    PROVE  B \div 1 = B
OBVIOUS

LEMMA SharesAddUp ==
    ASSUME NEW B \in Nat, NEW n \in Nat \ {0}, NEW k \in Nat, k <= n
    PROVE  B \div n \in Nat /\ k * (B \div n) <= B
<1>1. B \div n \in Nat /\ n * (B \div n) <= B
    OBVIOUS
<1> DEFINE b == B \div n
<1> HIDE DEF b
<1>2. b \in Nat /\ n * b <= B
    BY <1>1 DEF b
<1>3. k * b <= n * b /\ k * b \in Nat /\ n * b \in Nat
    BY <1>2
<1> QED
    BY <1>2, <1>3 DEF b

LEMMA ShareStep == TypesInv /\ ShareInv /\ [Next]_vars => ShareInv'
<1> SUFFICES ASSUME TypesInv, ShareInv, [Next]_vars PROVE ShareInv'
    OBVIOUS
<1> USE DEF database, plan, found, scored, filling, filled
<1>0. request.budget \in Nat /\ request.ids \in Seq(Entities)
      /\ todo \in Seq(Entities) /\ parts \in Seq(PartResults)
    BY RetrievalAssumption DEF RetrievalAssumption, TypesInv
<1>a. Len(todo) \in Nat /\ Len(parts) \in Nat
    BY <1>0
<1>b. PICK n \in Nat \ {0} : SharedBy(n)
    BY DEF ShareInv
<1>1. CASE Single
    BY <1>1, <1>b DEF Single, ShareInv, SharedBy, UnderWay
<1>2. CASE Compare
  <2>1. PICK ids \in IF request.ids # <<>> THEN {request.ids} ELSE Hits :
            IF ids = <<>> THEN UNCHANGED plan /\ pc' = "seeds"
            ELSE pc' = "next" /\ mode' = "comparison" /\ todo' = ids /\ budget' = PerEntity(ids)
    BY <1>2 DEF Compare
  <2>2. ids \in Seq(Entities) /\ UNCHANGED <<parts, request>> /\ pc = "start"
    BY <1>0, <1>2, <2>1, HitsTyped DEF Compare
  <2>3. CASE ids = <<>>
    BY <1>b, <2>1, <2>2, <2>3 DEF ShareInv, SharedBy, UnderWay
  <2>4. CASE ids # <<>>
    <3>1. Len(ids) \in Nat \ {0}
      BY <2>2, <2>4
    <3>2. parts' = <<>> /\ Len(parts') = 0 /\ UnderWay' = 0
      BY <2>1, <2>2, <2>4 DEF ShareInv, UnderWay
    <3>3. SharedBy(Len(ids))'
      BY <2>1, <2>2, <2>4, <3>1, <3>2 DEF SharedBy, PerEntity
    <3> QED
      BY <2>1, <2>4, <3>1, <3>3 DEF ShareInv
  <2> QED
    BY <2>3, <2>4
<1>3. CASE NextEntity
  <2>1. todo # <<>> /\ todo' = Tail(todo) /\ pc = "next" /\ pc' \in {"next", "traverse"}
        /\ UNCHANGED <<budget, parts, request>>
    BY <1>3 DEF NextEntity
  <2>2. Len(todo') = Len(todo) - 1
    BY <1>0, <2>1
  <2>3. SharedBy(n)'
    BY <1>a, <1>b, <2>1, <2>2 DEF SharedBy, UnderWay
  <2> QED
    BY <1>b, <2>1, <2>3 DEF ShareInv
<1>4. CASE FallBack
  <2>1. /\ todo' = <<>> /\ parts' = <<>> /\ budget' = request'.budget /\ request' = request
        /\ pc' = "seeds"
    BY <1>4 DEF FallBack
  <2>2. SharedBy(1)'
    BY <1>0, <2>1, WholeBudget DEF SharedBy, UnderWay
  <2> QED
    BY <2>1, <2>2 DEF ShareInv
<1>5. CASE Merge \/ FindSeeds \/ Traverse
  <2>1. SharedBy(n)'
    BY <1>5, <1>a, <1>b DEF Merge, FindSeeds, Traverse, SharedBy, UnderWay
  <2> QED
    BY <1>5, <1>b, <2>1 DEF Merge, FindSeeds, Traverse, ShareInv
<1>6. CASE \/ TakeItem \/ CloseAnchor \/ CloseSubgraph \/ CloseWiki \/ ScoreChunks
           \/ CloseSeed \/ CloseHop
  <2>1. UNCHANGED <<pc, request, budget, todo, parts>>
    BY <1>6 DEF TakeItem, CloseAnchor, CloseSubgraph, CloseWiki, ScoreChunks, CloseSeed, CloseHop
  <2> QED
    BY <1>b, <2>1 DEF ShareInv, SharedBy, UnderWay
<1>7. CASE FinishPart
  <2> DEFINE p == [seeds |-> seeds, edges |-> edges, page |-> first,
                   tokens |-> tokens, chosen |-> chosen,
                   budget |-> budget, fixed |-> Fixed, total |-> Total]
  <2>1. /\ parts' = Append(parts, p) /\ pc = "fill" /\ pc' \in {"next", "done"}
        /\ UNCHANGED <<request, budget, todo>>
    BY <1>7 DEF FinishPart
  <2>2. p.budget = budget
    OBVIOUS
  <2> HIDE DEF p
  <2>3. Len(parts') = Len(parts) + 1 /\ parts'[Len(parts) + 1] = p
        /\ \A i \in 1 .. Len(parts) : parts'[i] = parts[i]
    BY <1>0, <2>1
  <2>4. SharedBy(n)'
    BY <1>a, <1>b, <2>1, <2>2, <2>3 DEF SharedBy, UnderWay
  <2> QED
    BY <1>b, <2>1, <2>4 DEF ShareInv
<1>8. CASE UNCHANGED vars
    BY <1>8, <1>b DEF vars, ShareInv, SharedBy, UnderWay
<1> QED
    BY <1>1, <1>2, <1>3, <1>4, <1>5, <1>6, <1>7, <1>8 DEF Next

(* The caller's budget bounds what a retrieval returns (context.py:259): a   *)
(* part exceeds it only if its slots of fixed size do so by themselves, the  *)
(* parts of a comparison together stay within it although each rounds its    *)
(* share, and a slot of fixed size exceeds its own by at most a token per    *)
(* line, two per section.                                                    *)
THEOREM BudgetIsKept == Spec => []WithinBudget
<1>1. Init => ShareInv
  <2> SUFFICES ASSUME Init PROVE ShareInv
    OBVIOUS
  <2>1. request.budget \in Nat
    BY RetrievalAssumption DEF RetrievalAssumption, Init
  <2>2. SharedBy(1)
    BY <2>1, WholeBudget DEF Init, SharedBy, UnderWay
  <2> QED
    BY <2>2 DEF Init, ShareInv
<1>2. TypesInv /\ SlotInv /\ ShareInv => WithinBudget
  <2> SUFFICES ASSUME TypesInv, SlotInv, ShareInv,
                      \A p \in Range(parts) : p.fixed <= p.budget
               PROVE  Merged.total <= request.budget
    BY DEF SlotInv, WithinBudget
  <2>0. request.budget \in Nat /\ parts \in Seq(PartResults) /\ Len(parts) \in Nat
        /\ Len(todo) \in Nat
    BY RetrievalAssumption DEF RetrievalAssumption, TypesInv
  <2>1. PICK n \in Nat \ {0} : SharedBy(n)
    BY DEF ShareInv
  <2> DEFINE b == request.budget \div n
  <2>2. Len(parts) <= n
    BY <2>0, <2>1 DEF SharedBy, UnderWay
  <2>3. b \in Nat /\ Len(parts) * b <= request.budget
    BY <2>0, <2>2, SharesAddUp
  <2>4. \A i \in 1 .. Len(parts) : parts[i].total <= b
    <3> SUFFICES ASSUME NEW i \in 1 .. Len(parts) PROVE parts[i].total <= b
      OBVIOUS
    <3>1. parts[i] \in Range(parts)
      BY <2>0 DEF Range
    <3>2. parts[i].fixed <= parts[i].budget /\ parts[i].budget = b
      BY <2>1, <3>1 DEF SharedBy
    <3>3. parts[i].total <= Larger(parts[i].budget, parts[i].fixed)
      BY DEF SlotInv, PartsWithinBudget
    <3>4. parts[i] \in PartResults
      BY <2>0
    <3>5. parts[i].fixed \in Nat /\ parts[i].budget \in Nat
      BY <3>4 DEF PartResults
    <3> QED
      BY <3>2, <3>3, <3>5 DEF Larger
  <2> HIDE DEF b
  <2>5. /\ FoldLeft(LAMBDA sum, p : sum + p.total, 0, parts) \in Nat
        /\ FoldLeft(LAMBDA sum, p : sum + p.total, 0, parts) <= Len(parts) * b
    BY <2>0, <2>3, <2>4, TotalsBounded, Zenon
  <2>6. Merged.total = FoldLeft(LAMBDA sum, p : sum + p.total, 0, parts)
    BY Zenon DEF Merged
  <2>7. Merged.total \in Nat /\ Merged.total <= Len(parts) * b
    BY <2>5, <2>6, Zenon
  <2> QED
    BY <2>0, <2>3, <2>7
<1> QED
    BY <1>1, <1>2, SlotInit, SlotStep, ShareStep, TypesAlways, PTL DEF Spec

-----------------------------------------------------------------------------
(* Deduplication *)

(* K decides about the chunks of the first n ranks.                          *)
Decides(K, C, rank, n) ==
    /\ K \subseteq {c \in C : rank[c] <= n}
    /\ \A c \in C : rank[c] <= n =>
          (c \in K <=> ~\E d \in K : rank[d] < rank[c] /\ {c, d} \in Near)

LEMMA DecisionsExist ==
    ASSUME NEW C, NEW rank \in [C -> Nat], NEW n \in Nat
    PROVE  \E K : Decides(K, C, rank, n)
<1> DEFINE Missing == {m \in Nat : ~\E K : Decides(K, C, rank, m)}
           At(m) == {c \in C : rank[c] = m}
<1> SUFFICES ASSUME Missing # {} PROVE FALSE
    OBVIOUS
<1>1. PICK m \in Missing : \A d \in Missing : m <= d
    BY LeastNumber
<1>2. m \in Nat /\ ~\E K : Decides(K, C, rank, m)
    OBVIOUS
<1>3. CASE m = 0
  <2>1. \A c \in C : rank[c] <= m => rank[c] = 0
    BY <1>3
  <2>2. \A c, d \in C : rank[c] = 0 => ~(rank[d] < rank[c])
    OBVIOUS
  <2>3. Decides(At(m), C, rank, m)
    BY <1>3, <2>1, <2>2 DEF Decides
  <2> QED
    BY <1>2, <2>3
<1>4. CASE m # 0
  <2>1. m - 1 \in Nat /\ m - 1 \notin Missing
    <3> HIDE DEF Missing
    <3> QED
      BY <1>1, <1>2, <1>4
  <2>2. PICK K : Decides(K, C, rank, m - 1)
    BY <2>1
  <2> DEFINE L == K \cup {c \in At(m) : ~\E d \in K : {c, d} \in Near}
  <2>3. \A c \in C : rank[c] <= m <=> rank[c] <= m - 1 \/ rank[c] = m
    BY <1>2
  <2>4. \A c \in K : c \in C /\ rank[c] <= m - 1 /\ rank[c] < m
    BY <1>2, <2>2 DEF Decides
  <2>5. \A d \in L : d \in K \/ rank[d] = m
    OBVIOUS
  <2>6. L \subseteq {c \in C : rank[c] <= m}
    BY <2>3, <2>4
  <2>7. ASSUME NEW c \in C, rank[c] <= m
        PROVE  c \in L <=> ~\E d \in L : rank[d] < rank[c] /\ {c, d} \in Near
    <3>1. CASE rank[c] = m
      <4>1. \A d \in L : rank[d] < rank[c] <=> d \in K
        BY <1>2, <2>4, <2>5, <3>1
      <4>2. c \notin K
        BY <2>4, <3>1
      <4> QED
        BY <3>1, <4>1, <4>2
    <3>2. CASE rank[c] <= m - 1
      <4>1. c \in L <=> c \in K
        BY <1>2, <3>2
      <4>2. \A d \in L : rank[d] < rank[c] => d \in K
        BY <1>2, <2>5, <3>2
      <4>3. c \in K <=> ~\E d \in K : rank[d] < rank[c] /\ {c, d} \in Near
        BY <2>2, <3>2 DEF Decides
      <4> QED
        BY <4>1, <4>2, <4>3
    <3> QED
      BY <2>3, <2>7, <3>1, <3>2
  <2> HIDE DEF L
  <2>8. Decides(L, C, rank, m)
    BY <2>6, <2>7 DEF Decides
  <2> QED
    BY <1>2, <2>8
<1> QED
    BY <1>3, <1>4

(* What deduplication leaves: no two near-duplicates, and for every chunk    *)
(* left out one that is, ranked before it.                                   *)
LeftOf(K, C, S) ==
    /\ K \subseteq C
    /\ \A c, d \in K : c # d => {c, d} \notin Near
    /\ \A c \in C \ K : \E d \in K \ {c} : {c, d} \in Near /\ ~ScoredBefore(c, d, S)

LEMMA DedupLeaves ==
    ASSUME NEW C, IsFiniteSet(C), NEW S, NEW rank \in Rankings(C, S)
    PROVE  LeftOf(Deduplicated(C, rank), C, S)
<1> DEFINE n == Cardinality(C)
           IsKernel(K) == \A c \in C :
               c \in K <=> ~\E d \in K : rank[d] < rank[c] /\ {c, d} \in Near
           K == Deduplicated(C, rank)
<1>1. /\ n \in Nat /\ rank \in [C -> 1 .. n] /\ IsInjective(rank)
      /\ \A c, d \in C : ScoredBefore(c, d, S) => rank[c] < rank[d]
    BY FS_CardinalityType DEF Rankings
<1> HIDE DEF n
<1>2. rank \in [C -> Nat] /\ \A c \in C : rank[c] \in Nat /\ rank[c] <= n
    BY <1>1
<1>3. PICK D : Decides(D, C, rank, n)
    BY <1>1, <1>2, DecisionsExist
<1>4. D \in SUBSET C /\ IsKernel(D)
    BY <1>2, <1>3 DEF Decides
<1>5. K = CHOOSE L \in SUBSET C : IsKernel(L)
    BY Zenon DEF Deduplicated
<1> HIDE DEF K
<1>6. K \in SUBSET C /\ IsKernel(K)
  <2> HIDE DEF IsKernel
  <2> QED
    BY <1>4, <1>5
<1>7. ASSUME NEW c \in K, NEW d \in K, c # d PROVE {c, d} \notin Near
  <2>1. c \in C /\ d \in C /\ rank[c] # rank[d]
    BY <1>1, <1>6, <1>7 DEF IsInjective
  <2>2. {c, d} = {d, c}
    OBVIOUS
  <2>3. rank[c] < rank[d] \/ rank[d] < rank[c]
    BY <1>2, <2>1
  <2> QED
    BY <1>6, <2>1, <2>2, <2>3
<1>8. ASSUME NEW c \in C \ K
      PROVE  \E d \in K \ {c} : {c, d} \in Near /\ ~ScoredBefore(c, d, S)
  <2>1. PICK d \in K : rank[d] < rank[c] /\ {c, d} \in Near
    BY <1>6
  <2>2. d \in C /\ ~(rank[c] < rank[d]) /\ d # c
    BY <1>2, <1>6, <2>1
  <2> QED
    BY <1>1, <2>1, <2>2
<1> QED
    BY <1>6, <1>7, <1>8 DEF K, LeftOf

-----------------------------------------------------------------------------
(* The chunks of the answer *)

Apart(C, D) ==
    /\ C \cap D = {}
    /\ \A c, d \in C \cup D : c # d => {c, d} \notin Near

(* Why a chunk about an entity found is not among the scored ones.           *)
Scored(c) ==
    \/ c \in Bare /\ ChunkChars[c] = 0
    \/ c \in seedChunks \cup hopChunks
    \/ \E d \in (seedChunks \cup hopChunks) \ {c} :
            {c, d} \in Near /\ ~ScoredBefore(c, d, OfSeeds)

(* A slot for chunks leaves one out only when one no worse did not fit.      *)
Exhausted(s, left) ==
    /\ chosen[s] \subseteq left
    /\ \A c \in left \ chosen[s] : \E d \in left \ chosen[s] :
          /\ Score[c] <= Score[d]
          /\ tokens[s] + EstimateTokens(ChunkChars[d]) > Room(s)

ScoringInv ==
    slot \in {"seed", "hop", "full"} =>
        /\ seedChunks \subseteq OfSeeds /\ hopChunks \subseteq OfOthers
        /\ Elastic > 0 => \A c \in OfSeeds \cup OfOthers : Scored(c)

LoopInv ==
    /\ slot = "seed" => waiting \cup taken = seedChunks
    /\ slot = "hop"  => waiting \cup taken = hopChunks
    /\ slot \in {"hop", "full"} => Exhausted("seed", seedChunks)
    /\ slot = "full" => Exhausted("hop", hopChunks)

ChunksInv ==
    /\ Apart(seedChunks, hopChunks)
    /\ ScoringInv
    /\ LoopInv
    /\ NoChunkRepeated

LEMMA ScoringLeaves ==
    ASSUME TypesInv, ScoreChunks
    PROVE  Apart(seedChunks, hopChunks)' /\ ScoringInv'
<1> USE DEF database, plan, found, filled
<1>1. /\ slot' = "seed"
      /\ UNCHANGED <<links, seeds, kept, budget, tokens>>
    BY DEF ScoreChunks
<1>2. OfSeeds' = OfSeeds /\ OfOthers' = OfOthers /\ OfSeeds \cap OfOthers = {}
    BY <1>1 DEF OfSeeds, OfOthers
<1>3. Elastic' = Elastic /\ Elastic \in Nat
    BY <1>1, RoomsStay, FixedTyped
<1>4. CASE Elastic > 0
  <2> DEFINE C == {c \in OfSeeds \cup OfOthers : Scorable(c)}
  <2>1. PICK rank \in Rankings(C, OfSeeds) :
            /\ seedChunks' = OfSeeds \cap Deduplicated(C, rank)
            /\ hopChunks' = OfOthers \cap Deduplicated(C, rank)
    BY <1>4 DEF ScoreChunks
  <2> DEFINE K == Deduplicated(C, rank)
  <2>2. C \subseteq Chunks
    BY DEF OfSeeds, OfOthers
  <2>3. IsFiniteSet(C)
    BY <2>2, FS_Subset, RetrievalAssumption DEF RetrievalAssumption
  <2>4. C \subseteq OfSeeds \cup OfOthers
    OBVIOUS
  <2>5. ASSUME NEW c \in OfSeeds \cup OfOthers, c \notin C
        PROVE  c \in Bare /\ ChunkChars[c] = 0
    <3>1. c \in Chunks /\ c \in bare /\ ~(ChunkChars[c] > 0)
      BY <2>5 DEF OfSeeds, OfOthers, Scorable
    <3> QED
      BY <3>1, RetrievalAssumption DEF RetrievalAssumption, TypesInv
  <2>6. seedChunks' = OfSeeds \cap K /\ hopChunks' = OfOthers \cap K
    BY <2>1
  <2> HIDE DEF C
  <2>7. /\ K \subseteq C
        /\ \A c, d \in K : c # d => {c, d} \notin Near
        /\ \A c \in C \ K : \E d \in K \ {c} : {c, d} \in Near /\ ~ScoredBefore(c, d, OfSeeds)
    <3>1. LeftOf(K, C, OfSeeds)
      BY <2>3, DedupLeaves
    <3> HIDE DEF K
    <3> QED
      BY <3>1 DEF LeftOf
  <2> HIDE DEF K
  <2>8. seedChunks' \cup hopChunks' = K
    BY <2>4, <2>6, <2>7
  <2>9. Apart(seedChunks, hopChunks)'
    BY <1>2, <2>6, <2>7, <2>8 DEF Apart
  <2>10. \A c, d : ScoredBefore(c, d, OfSeeds)' <=> ScoredBefore(c, d, OfSeeds)
    BY <1>2 DEF ScoredBefore
  <2>11. \A c \in OfSeeds \cup OfOthers : Scored(c)'
    BY <2>5, <2>7, <2>8, <2>10 DEF Scored
  <2>12. seedChunks' \subseteq OfSeeds' /\ hopChunks' \subseteq OfOthers'
    BY <1>2, <2>6
  <2>13. \A c \in OfSeeds' \cup OfOthers' : Scored(c)'
    BY <1>2, <2>11
  <2> QED
    BY <2>9, <2>12, <2>13 DEF ScoringInv
<1>5. CASE ~(Elastic > 0)
  <2>1. seedChunks' = {} /\ hopChunks' = {}
    BY <1>5 DEF ScoreChunks
  <2> QED
    BY <1>3, <1>5, <2>1 DEF Apart, ScoringInv
<1> QED
    BY <1>4, <1>5

(* The loop over the chunks of a slot ends.                                  *)
LEMMA ClosedSlot ==
    ASSUME TypesInv, FillInv, NEW s \in {"seed", "hop"}, AtEnd(s), Close,
           UNCHANGED budget, NEW left, left \subseteq Chunks, waiting \cup taken = left
    PROVE  Exhausted(s, left)'
<1>0. slot = s /\ s \in SlotNames
    BY SlotNamed DEF AtEnd
<1>1. /\ tokens'[s] = used /\ chosen'[s] = taken
      /\ \A t \in SlotNames \ {s} : tokens'[t] = tokens[t] /\ chosen'[t] = chosen[t]
    BY <1>0, CloseKeeps DEF Counted
<1>2. Room(s)' = Room(s)
  <2>1. \A t \in {"anchor", "subgraph", "wiki"} : tokens'[t] = tokens[t]
    BY <1>1, SlotNamed
  <2> QED
    BY <1>0, <2>1, RoomsStay
<1>3. left \ taken = waiting
    BY DEF FillInv
<1>4. ASSUME NEW c \in waiting
      PROVE  \E d \in waiting : /\ Score[c] <= Score[d]
                                /\ used + EstimateTokens(ChunkChars[d]) > Room(s)
  <2>1. PICK d \in waiting : IsNext(d) /\ ~Fits(d)
    BY <1>4 DEF AtEnd
  <2>2. ~(Score[c] > Score[d])
    BY <1>0, <2>1 DEF IsNext, Precedes
  <2>3. ~(used + EstimateTokens(ChunkChars[d]) <= Room(s))
    BY <1>0, <2>1 DEF Fits, CharsOf
  <2>4. c \in Chunks /\ d \in Chunks
    OBVIOUS
  <2>5. Score[c] \in Nat /\ Score[d] \in Nat /\ ChunkChars[d] \in Nat
    BY <2>4, RetrievalAssumption DEF RetrievalAssumption
  <2>6. EstimateTokens(ChunkChars[d]) \in Nat /\ used \in Nat /\ Room(s) \in Nat
    BY <1>0, <2>5, TokensAreNat, RoomsTyped DEF TypesInv, TypeOK
  <2> QED
    BY <2>2, <2>3, <2>5, <2>6
<1> QED
    BY <1>1, <1>2, <1>3, <1>4 DEF Exhausted

LEMMA ChunksStep ==
    TypesInv /\ TypesInv' /\ SlotInv /\ ChunksInv /\ [Next]_vars => ChunksInv'
<1> SUFFICES ASSUME TypesInv, TypesInv', SlotInv, ChunksInv, [Next]_vars PROVE ChunksInv'
    OBVIOUS
<1> USE DEF database, plan, found, scored, filling, filled
<1>0. FillInv /\ Apart(seedChunks, hopChunks) /\ ScoringInv /\ LoopInv /\ NoChunkRepeated
    BY DEF SlotInv, ChunksInv
<1>a. parts \in Seq(PartResults) /\ seedChunks \subseteq Chunks /\ hopChunks \subseteq Chunks
    BY DEF TypesInv, TypeOK
<1>b. ASSUME UNCHANGED <<slot, links, seeds, kept, seedChunks, hopChunks, budget, tokens>>
      PROVE  ScoringInv'
  <2>1. OfSeeds' = OfSeeds /\ OfOthers' = OfOthers /\ Elastic' = Elastic
    BY <1>b, RoomsStay DEF OfSeeds, OfOthers
  <2>2. \A c : Scored(c)' <=> Scored(c)
    BY <1>b, <2>1 DEF Scored, ScoredBefore
  <2> QED
    BY <1>0, <1>b, <2>1, <2>2 DEF ScoringInv
<1>c. ASSUME slot' \notin {"seed", "hop", "full"}, UNCHANGED <<seedChunks, hopChunks, parts>>
      PROVE  ChunksInv'
    BY <1>0, <1>c DEF ChunksInv, ScoringInv, LoopInv, Apart, NoChunkRepeated
<1>1. CASE \/ Single \/ Compare \/ NextEntity \/ FallBack \/ Merge \/ FindSeeds \/ Traverse
           \/ CloseAnchor \/ CloseSubgraph \/ CloseWiki
  <2>1. slot' \notin {"seed", "hop", "full"} /\ UNCHANGED <<seedChunks, hopChunks, parts>>
    BY <1>0, <1>1 DEF Single, Compare, NextEntity, FallBack, Merge, FindSeeds, Traverse,
       CloseAnchor, CloseSubgraph, CloseWiki, AtEnd, FillInv
  <2> QED
    BY <1>c, <2>1
<1>2. CASE TakeItem
  <2>1. /\ slot \in SlotNames
        /\ UNCHANGED <<slot, links, seeds, kept, seedChunks, hopChunks, budget, tokens,
                       chosen, parts>>
    BY <1>2 DEF TakeItem
  <2>2. waiting' \cup taken' = waiting \cup taken
    BY <1>2 DEF TakeItem
  <2>3. ScoringInv'
    BY <1>b, <2>1
  <2>4. Room("seed")' = Room("seed")
    BY <2>1, RoomsStay, SlotNamed
  <2>5. Exhausted("seed", seedChunks) => Exhausted("seed", seedChunks)'
    BY <2>1, <2>4 DEF Exhausted
  <2>6. slot # "full"
    BY <2>1, SlotNamed
  <2>7. LoopInv'
    BY <1>0, <2>1, <2>2, <2>5, <2>6 DEF LoopInv
  <2> QED
    BY <1>0, <2>1, <2>3, <2>7 DEF ChunksInv, Apart, NoChunkRepeated
<1>3. CASE ScoreChunks
  <2>1. Apart(seedChunks, hopChunks)' /\ ScoringInv'
    BY <1>3, ScoringLeaves
  <2>2. slot' = "seed" /\ waiting' = seedChunks' /\ taken' = taken /\ parts' = parts
    BY <1>3 DEF ScoreChunks
  <2>3. taken = {}
    BY <1>3 DEF ScoreChunks, TypesInv, Items
  <2> QED
    BY <1>0, <2>1, <2>2, <2>3 DEF ChunksInv, LoopInv, NoChunkRepeated
<1>4. CASE CloseSeed
  <2>1. /\ AtEnd("seed") /\ Close /\ slot = "seed" /\ slot' = "hop" /\ waiting' = hopChunks
        /\ UNCHANGED <<links, seeds, kept, seedChunks, hopChunks, budget, parts>>
    BY <1>4 DEF CloseSeed, AtEnd
  <2>2. taken' = {} /\ \A t \in SlotNames \ {"seed"} : tokens'[t] = tokens[t]
    BY <2>1, CloseKeeps, SlotNamed DEF Close
  <2>3. Exhausted("seed", seedChunks)'
    BY <1>0, <1>a, <2>1, ClosedSlot DEF LoopInv, Exhausted
  <2>4. LoopInv'
    BY <2>1, <2>2, <2>3 DEF LoopInv
  <2>5. OfSeeds' = OfSeeds /\ OfOthers' = OfOthers /\ Elastic' = Elastic
    BY <2>1, <2>2, RoomsStay, SlotNamed DEF OfSeeds, OfOthers
  <2>6. \A c : Scored(c)' <=> Scored(c)
    BY <2>1, <2>5 DEF Scored, ScoredBefore
  <2>7. ScoringInv'
    BY <1>0, <2>1, <2>5, <2>6 DEF ScoringInv
  <2> QED
    BY <1>0, <2>1, <2>4, <2>7 DEF ChunksInv, Apart, NoChunkRepeated
<1>5. CASE CloseHop
  <2>1. /\ AtEnd("hop") /\ Close /\ slot = "hop" /\ slot' = "full"
        /\ UNCHANGED <<links, seeds, kept, seedChunks, hopChunks, budget, parts>>
    BY <1>5 DEF CloseHop, AtEnd
  <2>2. /\ chosen'["seed"] = chosen["seed"]
        /\ \A t \in SlotNames \ {"hop"} : tokens'[t] = tokens[t]
    BY <2>1, CloseKeeps, SlotNamed
  <2>3. Exhausted("hop", hopChunks)'
    BY <1>0, <1>a, <2>1, ClosedSlot DEF LoopInv, Exhausted
  <2>4. Room("seed")' = Room("seed")
    BY <2>1, <2>2, RoomsStay, SlotNamed
  <2>5. Exhausted("seed", seedChunks)'
    BY <1>0, <2>1, <2>2, <2>4, SlotNamed DEF LoopInv, Exhausted
  <2>6. LoopInv'
    BY <2>1, <2>3, <2>5 DEF LoopInv
  <2>7. OfSeeds' = OfSeeds /\ OfOthers' = OfOthers /\ Elastic' = Elastic
    BY <2>1, <2>2, RoomsStay, SlotNamed DEF OfSeeds, OfOthers
  <2>8. \A c : Scored(c)' <=> Scored(c)
    BY <2>1, <2>7 DEF Scored, ScoredBefore
  <2>9. ScoringInv'
    BY <1>0, <2>1, <2>7, <2>8 DEF ScoringInv
  <2> QED
    BY <1>0, <2>1, <2>6, <2>9 DEF ChunksInv, Apart, NoChunkRepeated
<1>6. CASE FinishPart
  <2> DEFINE p == [seeds |-> seeds, edges |-> edges, page |-> first,
                   tokens |-> tokens, chosen |-> chosen,
                   budget |-> budget, fixed |-> Fixed, total |-> Total]
  <2>1. /\ slot = "full" /\ slot' = "anchor" /\ parts' = Append(parts, p)
        /\ UNCHANGED <<seedChunks, hopChunks>>
    BY <1>6 DEF FinishPart
  <2>2. p.chosen["seed"] \subseteq seedChunks /\ p.chosen["hop"] \subseteq hopChunks
    BY <1>0, <2>1 DEF LoopInv, Exhausted
  <2>3. /\ p.chosen["seed"] \cap p.chosen["hop"] = {}
        /\ \A c, d \in p.chosen["seed"] \cup p.chosen["hop"] : c # d => {c, d} \notin Near
    <3> HIDE DEF p
    <3> QED
      BY <1>0, <2>2 DEF Apart
  <2>4. \A q \in Range(parts') : q = p \/ q \in Range(parts)
    <3> HIDE DEF p
    <3> QED
      BY <1>a, <2>1 DEF Range
  <2>5. NoChunkRepeated'
    <3> HIDE DEF p
    <3> QED
      BY <1>0, <2>3, <2>4 DEF NoChunkRepeated
  <2> QED
    BY <1>0, <2>1, <2>5 DEF ChunksInv, ScoringInv, LoopInv, Apart
<1>7. CASE UNCHANGED vars
  <2>1. ScoringInv'
    BY <1>7, <1>b DEF vars
  <2>2. Room("seed")' = Room("seed") /\ Room("hop")' = Room("hop")
    BY <1>7, RoomsStay, SlotNamed DEF vars
  <2>3. LoopInv'
    BY <1>0, <1>7, <2>2 DEF vars, LoopInv, Exhausted
  <2> QED
    BY <1>0, <1>7, <2>1, <2>3 DEF vars, ChunksInv, Apart, NoChunkRepeated
<1> QED
    BY <1>1, <1>2, <1>3, <1>4, <1>5, <1>6, <1>7 DEF Next

LEMMA ChunksAlways == Spec => [](TypesInv /\ SlotInv /\ ChunksInv)
<1>1. Init => ChunksInv
  <2> SUFFICES ASSUME Init PROVE ChunksInv
    OBVIOUS
  <2>1. slot = "anchor" /\ seedChunks = {} /\ hopChunks = {} /\ Range(parts) = {}
    BY DEF Init, Range
  <2> QED
    BY <2>1 DEF ChunksInv, Apart, ScoringInv, LoopInv, NoChunkRepeated
<1> QED
    BY <1>1, SlotInit, SlotStep, ChunksStep, TypesAlways, PTL DEF Spec

(* No chunk is given twice by a pass, neither as a seed chunk and as a hop   *)
(* chunk nor as two near-duplicates (context.py:381), whatever entities link *)
(* to the chunks and however their scores tie.                               *)
THEOREM ChunksAreDistinct == Spec => []NoChunkRepeated
<1>1. ChunksInv => NoChunkRepeated
    BY DEF ChunksInv
<1> QED
    BY <1>1, ChunksAlways, PTL

(* No chunk about an entity found goes missing without a reason              *)
(* (context.py:217-394): it has no text, or its slot was full for it or one  *)
(* that scores no worse, or a near-duplicate was kept that does not rank     *)
(* after it.  In one slot that is one that scores no worse; but a seed chunk *)
(* takes the place of a hop chunk whatever the two score.                    *)
THEOREM NoChunkIsLost == Spec => []MissingChunkExplained
<1>1. TypesInv /\ ChunksInv => MissingChunkExplained
  <2> SUFFICES ASSUME TypesInv, ChunksInv, slot = "full", Elastic > 0,
                      NEW c \in OfSeeds \cup OfOthers
               PROVE
            \/ c \in Bare /\ ChunkChars[c] = 0
            \/ c \in chosen["seed"] \cup chosen["hop"]
            \/ \E d \in (seedChunks \cup hopChunks) \ {c} :
                    {c, d} \in Near /\ ~ScoredBefore(c, d, OfSeeds)
            \/ \E s \in {"seed", "hop"} :
                 LET left == IF s = "seed" THEN seedChunks ELSE hopChunks
                 IN  /\ c \in left
                     /\ \E d \in left \ chosen[s] :
                          /\ ~ScoredBefore(c, d, OfSeeds)
                          /\ tokens[s] + EstimateTokens(ChunkChars[d]) > Room(s)
    BY DEF MissingChunkExplained
  <2>1. /\ seedChunks \subseteq OfSeeds /\ hopChunks \subseteq OfOthers /\ Scored(c)
        /\ Exhausted("seed", seedChunks) /\ Exhausted("hop", hopChunks)
    BY DEF ChunksInv, ScoringInv, LoopInv
  <2>2. ASSUME NEW d \in Chunks, c \in OfSeeds <=> d \in OfSeeds, Score[c] <= Score[d]
        PROVE  ~ScoredBefore(c, d, OfSeeds)
    <3>1. c \in Chunks
      BY DEF OfSeeds, OfOthers
    <3>2. Score[c] \in Nat /\ Score[d] \in Nat
      BY <3>1, RetrievalAssumption DEF RetrievalAssumption
    <3> QED
      BY <2>2, <3>2 DEF ScoredBefore
  <2>3. ASSUME c \in seedChunks \ chosen["seed"]
        PROVE  \E d \in seedChunks \ chosen["seed"] :
                   /\ ~ScoredBefore(c, d, OfSeeds)
                   /\ tokens["seed"] + EstimateTokens(ChunkChars[d]) > Room("seed")
    <3>1. PICK d \in seedChunks \ chosen["seed"] :
              /\ Score[c] <= Score[d]
              /\ tokens["seed"] + EstimateTokens(ChunkChars[d]) > Room("seed")
      BY <2>1, <2>3 DEF Exhausted
    <3>2. d \in Chunks /\ c \in OfSeeds /\ d \in OfSeeds
      BY <2>1, <2>3 DEF OfSeeds
    <3> QED
      BY <2>2, <3>1, <3>2
  <2>4. ASSUME c \in hopChunks \ chosen["hop"]
        PROVE  \E d \in hopChunks \ chosen["hop"] :
                   /\ ~ScoredBefore(c, d, OfSeeds)
                   /\ tokens["hop"] + EstimateTokens(ChunkChars[d]) > Room("hop")
    <3>1. PICK d \in hopChunks \ chosen["hop"] :
              /\ Score[c] <= Score[d]
              /\ tokens["hop"] + EstimateTokens(ChunkChars[d]) > Room("hop")
      BY <2>1, <2>4 DEF Exhausted
    <3>2. d \in Chunks /\ c \notin OfSeeds /\ d \notin OfSeeds
      BY <2>1, <2>4 DEF OfOthers
    <3> QED
      BY <2>2, <3>1, <3>2
  <2> QED
    BY <2>1, <2>3, <2>4 DEF Scored
<1> QED
    BY <1>1, ChunksAlways, PTL
=============================================================================
