----------------------------- MODULE MCRetrieval -----------------------------
EXTENDS Retrieval

(* Four entities with a row, one without; every graph over five relations,   *)
(* one of them against the direction of the walk.                            *)
RetrievalGraphs ==
    SUBSET {<<"a", "b">>, <<"c", "a">>, <<"b", "d">>, <<"c", "d">>, <<"b", "c">>}

(* k3 is a near-duplicate of k1, whose score it shares, and of k2, which is  *)
(* worse; k4 is an image without text.                                       *)
RetrievalChunkChars == [k \in {"k1", "k2", "k3", "k4"} |->
    CASE k = "k1" -> 13 [] k = "k2" -> 4 [] k = "k3" -> 8 [] k = "k4" -> 0]
RetrievalScore == [k \in {"k1", "k2", "k3", "k4"} |->
    CASE k = "k1" -> 3 [] k = "k2" -> 2 [] k = "k3" -> 3 [] k = "k4" -> 1]
RetrievalNear == {{"k1", "k3"}, {"k2", "k3"}}

RetrievalLinkings ==
    {[k \in {"k1", "k2", "k3", "k4"} |-> l[k]] : l \in
        {[k1 |-> {"a"}, k2 |-> {"a"}, k3 |-> {"b"}, k4 |-> {"b"}],
         [k1 |-> {"a", "b"}, k2 |-> {"b"}, k3 |-> {"c", "d"}, k4 |-> {"a"}],
         [k1 |-> {"c"}, k2 |-> {"d", "a"}, k3 |-> {"b"}, k4 |-> {}]}}

Prose(n) == [tag |-> "entity_prose", pos |-> 1, chars |-> n]
RetrievalSections == [e \in {"a", "b", "c", "d", "x"} |->
    CASE e = "a" -> {Prose(8), [tag |-> "other", pos |-> 2, chars |-> 5],
                     [tag |-> "sources", pos |-> 3, chars |-> 3]}
      [] e = "b" -> {Prose(30)}
      [] OTHER -> {}]
RetrievalAnchorChars == [e \in {"a", "b", "c", "d", "x"} |-> 7]

RetrievalRequests ==
    {[ids |-> <<"a">>, comparison |-> FALSE, budget |-> 13],
     [ids |-> <<"b", "a">>, comparison |-> FALSE, budget |-> 7],
     [ids |-> <<>>, comparison |-> FALSE, budget |-> 15],
     [ids |-> <<"a", "b">>, comparison |-> TRUE, budget |-> 24],
     [ids |-> <<"x", "b">>, comparison |-> TRUE, budget |-> 25],
     [ids |-> <<"x">>, comparison |-> TRUE, budget |-> 9],
     [ids |-> <<>>, comparison |-> TRUE, budget |-> 20]}
=============================================================================
