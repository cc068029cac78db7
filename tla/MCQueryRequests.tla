--------------------------- MODULE MCQueryRequests ---------------------------
(* A plain request, one that has to be classified, and a comparison.  The    *)
(* entities share their chunks in opposite orders.                           *)
EXTENDS QueryRequests, TLC

CONSTANTS q1, q2, q3

MCReads    == q1 :> <<{1}, {2}>> @@ q2 :> <<{2}, {1}>> @@ q3 :> <<{1}, {2}>>
MCKey      == q1 :> "a" @@ q2 :> "a" @@ q3 :> "b"
MCExplicit == q1 :> "plain" @@ q2 :> "none" @@ q3 :> "comparison"
MCAskBoth  == q1 :> "none" @@ q2 :> "none" @@ q3 :> "comparison"
MCKeyword  == q1 :> "none" @@ q2 :> "comparison" @@ q3 :> "none"
=============================================================================
