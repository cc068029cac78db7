----------------------------- MODULE MCWikiExport -----------------------------
(* Two pages, one of which links to the other, for TLC. *)
EXTENDS WikiExport

ExportLinks == [a |-> {"b"}, b |-> {}]
=============================================================================
