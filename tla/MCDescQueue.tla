----------------------------- MODULE MCDescQueue -----------------------------
(* Instances of DescQueue for TLC.                                         *)
EXTENDS DescQueue

CONSTANTS big, small, empty

\* A request longer than the ring, one that fits and one without data.
MCReqs  == {big, small, empty}
MCNDesc == [r \in MCReqs |-> CASE r = big -> 3 [] r = small -> 2 [] r = empty -> 0]
\* Two requests, for liveness and for callers that give up.
MCReqs2  == {big, small}
MCNDesc2 == [r \in MCReqs2 |-> IF r = big THEN 3 ELSE 1]
=============================================================================
