----------------------------- MODULE MCJobQueue -----------------------------
(* Small job tables for TLC. *)
EXTENDS JobQueue

(* One ingest job that is handed in at any time, the three jobs its run may  *)
(* enqueue, and an entity job about the same entity that is already waiting. *)
MixedJobs    == 1..4
MixedKind    == <<"ingest", "entity", "entity", "summary">>
MixedTarget  == <<"s1", "e", "e", "s1">>
MixedSources == <<{}, {"s1"}, {"s2"}, {}>>
MixedOrigin  == <<0, 1, 0, 1>>
MixedRank    == <<1, 3, 2, 3>>
MixedPkRank  == <<1, 4, 3, 2>>
MixedBacklog == {3}

(* The same without the summary job. *)
CoalesceJobs    == 1..3
CoalesceKind    == <<"ingest", "entity", "entity">>
CoalesceTarget  == <<"s1", "e", "e">>
CoalesceSources == <<{}, {"s1"}, {"s2"}>>
CoalesceOrigin  == <<0, 1, 0>>
CoalesceRank    == <<1, 3, 2>>
CoalescePkRank  == <<1, 3, 2>>
CoalesceBacklog == {1, 3}
=============================================================================
