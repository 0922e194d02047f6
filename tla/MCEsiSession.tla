----------------------------- MODULE MCEsiSession -----------------------------
(* Instances of EsiSession for TLC. *)
EXTENDS EsiSession, TLC

CONSTANTS svc, har, c1, c2, c3, l1, l2

\* The service answers two calls at once; the harvest makes one after another.
WithHarvest == c1 :> svc @@ c2 :> svc @@ c3 :> har

===============================================================================
