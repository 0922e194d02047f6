------------------------------- MODULE MCTopics -------------------------------
\* Instances of the topics for TLC.
EXTENDS Topics, TLC

CONSTANTS c1, c2, c3, c4, k1, k2, gun, rack, drone

Interchangeable == Permutations(Callers)

\* A module of a common slot, one of a slot the published DNA grammar does not list,
\* and what has none.
SmallSlots == gun :> "high" @@ rack :> "service" @@ drone :> Nothing
===============================================================================
