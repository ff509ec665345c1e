-------------------------- MODULE MCMonorailCache --------------------------
(* The caches for TLC: an issue and a project.                               *)
EXTENDS MonorailCache, TLC

CONSTANTS j1, j2, x, y, issue, project

Kind == [i \in Items |-> IF i = x THEN issue ELSE project]
\* The issue is updated on its own, the project with all others.
Keys == [i \in Items |-> IF i = x THEN {i} ELSE {All}]
\* Each job updates one of them, so that rows become visible out of order.
Written == (j1 :> {x}) @@ (j2 :> {y})
\* As many updates of others as jobs consider rows may follow one of the issue.
Often == (x :> 1) @@ (y :> 2)
=============================================================================
