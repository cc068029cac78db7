--------------------------- MODULE MCPageSynthesis ---------------------------
(* Small sets of synthesis jobs for TLC. *)
EXTENDS PageSynthesis

(* Three jobs about the same entity: one creates its page, two rewrite it. *)
RewriteJobs    == 1..3
RewriteEntity  == <<"e", "e", "e">>
RewriteSources == <<{"s1"}, {"s2"}, {"s3"}>>
RewriteRank    == <<1, 2, 3>>
=============================================================================
