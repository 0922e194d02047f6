---------------------------- MODULE MCCachePrune ----------------------------
(* A small instance of CachePrune: two targets, two builds, one other process. *)
EXTENDS CachePrune, TLC

CONSTANTS EVE, Serenity, old, shared

\* EVE moves between two builds, Serenity is found at its first.
SmallUpstream == (EVE :> {1, 2}) @@ (Serenity :> {1})

NoRule == [pin |-> None, hold |-> FALSE]

\* One target may be pinned, to a build upstream need never have had, or held.
OneRuled == (EVE :> {NoRule, [NoRule EXCEPT !.pin = 2], [NoRule EXCEPT !.hold = TRUE]})
              @@ (Serenity :> {NoRule})
Unruled == [t \in {EVE, Serenity} |-> {NoRule}]

\* EVE's builds share no file; Serenity's share one with EVE's second.
SmallRefs == <<EVE, 1>> :> {old} @@ <<EVE, 2>> :> {shared}
               @@ <<Serenity, 1>> :> {shared} @@ <<Serenity, 2>> :> {shared}

Everything == [targets |-> {EVE, Serenity}, exact |-> {EVE, Serenity}]
OnlyEve == [targets |-> {EVE}, exact |-> {EVE}]
\* --only-targets --target EVE, where the registry has eve
OnlyEveLoud == [targets |-> {EVE}, exact |-> {}]

AsWritten == {Everything, OnlyEve}
InAnyCase == {Everything, OnlyEve, OnlyEveLoud}
=============================================================================
