---------------------------- MODULE MCResourcePool ----------------------------
\* A small instance of ResourcePool for TLC.
EXTENDS ResourcePool, TLC

\* The first and the last entry are one resource; the second is larger.
MCResource == <<"small", "large", "small">>
MCSize == ("small" :> 1) @@ ("large" :> 2)
MCLimit == ("small" :> 1) @@ ("large" :> 2)
===============================================================================
