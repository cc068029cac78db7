--------------------------- MODULE MCIngestPipeline ---------------------------
(* Two sources that mention the same entities, for TLC. *)
EXTENDS IngestPipeline

IngestChunks     == {"c1", "c2", "c3"}
IngestChunksOf   == [r1 |-> <<"c1", "c2">>, r2 |-> <<"c3">>]
IngestCandidates == [c1 |-> <<<<"a", "x">>, <<"b", "x">>>>,
                     c2 |-> <<<<"b", "y">>>>,
                     c3 |-> <<<<"a", "x">>, <<"a", "y">>>>]
IngestRelations  == [c1 |-> <<<<1, 2>>>>, c2 |-> <<>>, c3 |-> <<<<1, 2>>>>]

(* The descriptions of a are near each other, and of each to b's of the same *)
(* description; those of b are beyond the threshold.                         *)
IngestDistance == [p \in Texts \X Texts |->
                    CASE p[1] = p[2]               -> 0
                      [] p[1][2] = p[2][2]         -> 1
                      [] p[1][1] = "a" /\ p[2][1] = "a" -> 1
                      [] OTHER                     -> 2]
=============================================================================
