----------------------------- MODULE MCBuildCache -----------------------------
(* Instances of BuildCache for TLC. *)
EXTENDS BuildCache

CONSTANTS r1, r2, h1, h2, h3, tq, inf

\* Request slots and source slots are interchangeable.
Interchangeable == Permutations(Requests) \cup Permutations(Handles)

OneBuild == {<<tq, 1>>}
TwoBuilds == {<<tq, 1>>, <<tq, 2>>}
TwoTargets == {<<tq, 1>>, <<inf, 1>>}
===============================================================================
