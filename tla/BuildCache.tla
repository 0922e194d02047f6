------------------------------ MODULE BuildCache ------------------------------
(***************************************************************************)
(* The service's build cache: src/internal/CjsToolBuildCache.js, driven by *)
(* the two kinds of caller it has -- the SDE repository, whose sources own *)
(* database handles that must be closed (src/sde/CjsToolSdeRepository.js), *)
(* and the HTTP proxy, which runs every handler inside Run and caches      *)
(* composers that retain those sources (src/proxy/CjsToolHttpProxy.js).    *)
(*                                                                         *)
(* JavaScript runs one callback at a time, so an action is the code        *)
(* between two awaits.  An identity is a <<target, build>> pair; builds    *)
(* are numbers because a fallback answers with an older build.             *)
(*                                                                         *)
(* A definition named X_Bug stands before X and is X with a plausible bug; *)
(* nothing here uses it.  Replacing X by it must break a property.         *)
(***************************************************************************)
EXTENDS Integers, FiniteSets, FiniteSetsExt, SequencesExt

CONSTANTS
    Requests,               \* request slots of the HTTP service
    Targets,                \* targets ("tq", "infinity", ...)
    Builds,                 \* build numbers
    Exports,                \* identities a handler may ask an SDE source for
    Catalogs,               \* identities a handler may open resources for
    Handles,                \* SDE sources that can exist at once
    None,
    IdleMs,                 \* the six policy numbers of the constructor; sweepMs
    CurrentIdleMs,          \* only sets the pace of TimerSweep
    CurrentBuildsPerTarget,
    MaximumBuilds,
    MaximumEntries,
    MaxAge,                 \* bound: idle times saturate here
    CloseMayFail            \* whether closing a database can reject

Identities == Targets \X Builds
Facets == {"resources", "sde"}
Waits == [key : Identities, handle : Handles, latest : BOOLEAN]

ASSUME ConstantsAssumption ==
    /\ Builds \subseteq Nat
    /\ Exports \subseteq Identities
    /\ Catalogs \subseteq Identities
    /\ None \notin Handles \cup Identities \cup Waits
    /\ {IdleMs, CurrentIdleMs, CurrentBuildsPerTarget,
        MaximumBuilds, MaximumEntries} \subseteq Nat \ {0}
    /\ MaxAge \in Nat /\ MaxAge >= IdleMs /\ MaxAge >= CurrentIdleMs
    /\ CloseMayFail \in BOOLEAN

VARIABLES
    pc,         \* [Requests -> "idle" | "blocked" | "running" | "refused"]
    held,       \* [Requests -> SUBSET Handles]: the sources a handler uses
    awaiting,   \* [Requests -> Waits \cup {None}]: the opening it awaits
    sources,    \* [Identities -> Handles \cup {None}]: the map "sde.sources"
    entry,      \* [Identities -> Builds]: the build a source's entry stands for,
                \* the requested one until SetIdentity and without an entry
    resources,  \* SUBSET Identities: maps whose values need no closing
    composers,  \* [Identities -> SUBSET Handles]: dependent maps, and what
                \* the composer of an identity retains ({}: no composer)
    hstate,     \* [Handles -> "closed" | "opening" | "open" | "failed"]
    exact,      \* [Handles -> Identities \cup {None}]: what an open source serves
    age,        \* [Identities -> -1..MaxAge]: idle time of a group, -1: no group
    current,    \* [Targets \X Facets -> Seq(Builds)], newest first
    maint,      \* the sweep: "none", "queued", "draining", "drained", "retiring"
    closing,    \* SUBSET Handles: sources being closed by the sweep
    failed,     \* whether a source failed to close in this sweep
    closePc     \* Close(): "open", "waiting", "resumed", "sweeping", "done"; "failed"
                \* by its own sweep, "cut short" by one it waited for

handlerVars == <<pc, held, awaiting>>
cacheVars == <<sources, entry, resources, composers>>
handleVars == <<hstate, exact>>
policyVars == <<age, current>>
sweepVars == <<maint, closing, failed>>
vars == <<handlerVars, cacheVars, handleVars, policyVars, sweepVars, closePc>>

-------------------------------------------------------------------------------
(* State functions of the policy *)

ClosePhases == {"open", "waiting", "resumed", "sweeping", "done", "failed", "cut short"}

Running == {r \in Requests : pc[r] = "running"}
Closed == closePc # "open"

Cached == {k \in Identities : sources[k] # None}
SourceId(k) == <<k[1], entry[k]>>
Composed == {i \in Identities : composers[i] # {}}

\* The identities some map still has an entry for.
Present == {SourceId(k) : k \in Cached} \cup resources \cup Composed

Pruned == [i \in Identities |-> IF i \in Present THEN age[i] ELSE -1]
Groups == {i \in Identities : Pruned[i] # -1}

CurrentIn(i, f) == i[2] \in ToSet(current[<<i[1], f>>])
IsCurrent(i) == \E f \in Facets : CurrentIn(i, f)

\* A target's current resources and SDE count as one pair, every other group
\* as one, and every further source of one identity as one more.
Pairs(t) == LET of(f) == Cardinality({i \in Groups : i[1] = t /\ CurrentIn(i, f)})
            IN IF of("resources") > of("sde") THEN of("resources") ELSE of("sde")
Duplicates == Cardinality({sources[k] : k \in Cached})
                - Cardinality({SourceId(k) : k \in Cached})
Units == Cardinality({i \in Groups : ~IsCurrent(i)})
           + Cardinality(UNION {{t} \X (1..Pairs(t)) : t \in Targets}) + Duplicates
Entries == Cardinality(Cached) + Cardinality(resources) + Cardinality(Composed)
OverBudget == Units > MaximumBuilds \/ Entries > MaximumEntries

\* Groups retired together: the current ones of a target form one unit.
Unit(i) == IF IsCurrent(i) THEN {j \in Groups : j[1] = i[1] /\ IsCurrent(j)} ELSE {i}
Recency(U) == CHOOSE a \in {age[i] : i \in U} : \A j \in U : a <= age[j]

\* A unit whose most recent use is the longest ago; among equals, the code
\* takes the first in Map order, which depends on the whole history of touches.
OldestUnits == LET units == {Unit(i) : i \in Groups}
               IN {U \in units : \A V \in units : Recency(U) >= Recency(V)}

\* Close leaves what is still within its idle time.
Expired_IgnoresClosed ==
    {i \in Groups : age[i] >= IF IsCurrent(i) THEN CurrentIdleMs ELSE IdleMs}
\* Current builds never expire.
Expired_KeepsCurrent == {i \in Groups : Closed \/ (~IsCurrent(i) /\ age[i] >= IdleMs)}

Expired == {i \in Groups : \/ Closed
                           \/ age[i] >= IF IsCurrent(i) THEN CurrentIdleMs ELSE IdleMs}

\* [value, ...values.filter(item => item !== value)].slice(0, n): the list has
\* no value twice.
Mark(values, b) ==
    LET all == <<b>> \o RemoveFirst(values, b)
    IN SubSeq(all, 1, IF Len(all) < CurrentBuildsPerTarget THEN Len(all)
                                                         ELSE CurrentBuildsPerTarget)

\* Every value that named the entry before now names the build that answered,
\* and the first of equal values stays.
Rename(values, previous, requested, b) ==
    IF {previous, requested} \cap ToSet(values) = {} THEN values
    ELSE LET names == {previous, requested, b}
             i == CHOOSE n \in DOMAIN values :
                      /\ values[n] \in names
                      /\ \A m \in 1..(n - 1) : values[m] \notin names
             rest == SubSeq(values, i + 1, Len(values))
         IN SubSeq(values, 1, i - 1) \o <<b>>
              \o RemoveFirst(RemoveFirst(RemoveFirst(rest, b), previous), requested)

Touch(i) == age' = [age EXCEPT ![i] = 0]

-------------------------------------------------------------------------------
Init ==
    /\ pc = [r \in Requests |-> "idle"]
    /\ held = [r \in Requests |-> {}]
    /\ awaiting = [r \in Requests |-> None]
    /\ sources = [k \in Identities |-> None]
    /\ entry = [k \in Identities |-> k[2]]
    /\ resources = {}
    /\ composers = [i \in Identities |-> {}]
    /\ hstate = [h \in Handles |-> "closed"]
    /\ exact = [h \in Handles |-> None]
    /\ age = [i \in Identities |-> -1]
    /\ current = [f \in Targets \X Facets |-> <<>>]
    /\ maint = "none" /\ closing = {} /\ failed = FALSE
    /\ closePc = "open"

-------------------------------------------------------------------------------
(* Run: a request enters, waits behind the barrier, or is refused *)

\* No barrier.
Enter_NoBarrier(r) ==
    /\ pc[r] \in {"idle", "refused"}
    /\ pc' = [pc EXCEPT ![r] = IF Closed THEN "refused" ELSE "running"]
    /\ UNCHANGED <<held, awaiting, cacheVars, handleVars, policyVars, sweepVars, closePc>>

Enter(r) ==
    /\ pc[r] \in {"idle", "refused"}
    /\ pc' = [pc EXCEPT ![r] = IF maint # "none" /\ Running = {} THEN "blocked"
                               ELSE IF Closed THEN "refused" ELSE "running"]
    /\ UNCHANGED <<held, awaiting, cacheVars, handleVars, policyVars, sweepVars, closePc>>

\* The handler returns or throws, and Run's finally runs.
Finish(r) ==
    /\ pc[r] = "running" /\ awaiting[r] = None
    /\ pc' = [pc EXCEPT ![r] = "idle"]
    /\ held' = [held EXCEPT ![r] = {}]
    /\ \/ /\ maint = "none"
          /\ age' = Pruned
          /\ maint' = IF OverBudget THEN "queued" ELSE "none"
       \/ /\ maint # "none"
          /\ maint' = IF maint = "draining" /\ Running = {r} THEN "drained" ELSE maint
          /\ UNCHANGED age
    /\ UNCHANGED <<awaiting, cacheVars, handleVars, current, closing, failed, closePc>>

-------------------------------------------------------------------------------
(* What a handler does to the caches while it runs *)

CanCall(r) == pc[r] = "running" /\ awaiting[r] = None

\* A slot for a new source: a closed one that nothing refers to any more.
Referenced(h) == \/ \E r \in Requests : \/ h \in held[r]
                                        \/ awaiting[r] # None /\ awaiting[r].handle = h
                 \/ \E k \in Identities : sources[k] = h \/ h \in composers[k]
Free(h) == hstate[h] \in {"closed", "failed"} /\ h \notin closing /\ ~Referenced(h)

JoinSource(r, k, latest) ==
    /\ CanCall(r) /\ sources[k] # None
    /\ awaiting' = [awaiting EXCEPT ![r] = [key |-> k, handle |-> sources[k], latest |-> latest]]
    /\ Touch(SourceId(k))
    /\ UNCHANGED <<pc, held, cacheVars, handleVars, current, sweepVars, closePc>>

StartSource_Bug(r, k, latest) ==    \* over an opening that is cached
    /\ CanCall(r)
    /\ \E h \in Handles :
         /\ Free(h)
         /\ hstate' = [hstate EXCEPT ![h] = "opening"]
         /\ sources' = [sources EXCEPT ![k] = h]
         /\ awaiting' = [awaiting EXCEPT ![r] = [key |-> k, handle |-> h, latest |-> latest]]
    /\ Touch(k)
    /\ UNCHANGED <<pc, held, entry, resources, composers, exact, current, sweepVars, closePc>>

StartSource(r, k, latest) ==
    /\ CanCall(r) /\ sources[k] = None
    /\ \E h \in Handles :
         /\ Free(h)
         /\ hstate' = [hstate EXCEPT ![h] = "opening"]
         /\ sources' = [sources EXCEPT ![k] = h]
         /\ awaiting' = [awaiting EXCEPT ![r] = [key |-> k, handle |-> h, latest |-> latest]]
    /\ Touch(k)
    /\ UNCHANGED <<pc, held, entry, resources, composers, exact, current, sweepVars, closePc>>

\* #Open answers with the requested build or an older prepared one ...
OpenSucceeds(h) ==
    /\ hstate[h] = "opening"
    /\ hstate' = [hstate EXCEPT ![h] = "open"]
    /\ \E k \in Identities, b \in Builds :
         /\ sources[k] = h /\ b <= k[2]
         /\ exact' = [exact EXCEPT ![h] = <<k[1], b>>]
    /\ UNCHANGED <<handlerVars, cacheVars, policyVars, sweepVars, closePc>>

\* ... or fails, and the entry goes; its group stays until the next prune.
OpenFails(h) ==
    /\ hstate[h] = "opening"
    /\ hstate' = [hstate EXCEPT ![h] = "failed"]
    /\ sources' = [k \in Identities |-> IF sources[k] = h THEN None ELSE sources[k]]
    /\ entry' = [k \in Identities |-> IF sources[k] = h THEN k[2] ELSE entry[k]]
    /\ UNCHANGED <<handlerVars, resources, composers, exact, policyVars, sweepVars, closePc>>

\* The entry of k stands for build b from now on, if there still is one, and so
\* does any mention of k among the current SDE builds.
SetIdentity_Bug(k, b) == UNCHANGED <<entry, age>>

SetIdentity(k, b) == IF sources[k] = None THEN UNCHANGED <<entry, age>>
                     ELSE entry' = [entry EXCEPT ![k] = b] /\ Touch(<<k[1], b>>)
Renamed(k, b) == LET values == current[<<k[1], "sde">>]
                 IN IF sources[k] = None THEN values ELSE Rename(values, entry[k], k[2], b)

\* OpenTarget after its await: SetIdentity, then MarkCurrent for "latest".
Adopt(r) ==
    /\ pc[r] = "running" /\ awaiting[r] # None
    /\ LET k == awaiting[r].key
           h == awaiting[r].handle
           b == exact[h][2]
       IN /\ hstate[h] = "open"
          /\ held' = [held EXCEPT ![r] = @ \cup {h}]
          /\ SetIdentity(k, b)
          /\ current' = [current EXCEPT ![<<k[1], "sde">>] =
                            IF awaiting[r].latest THEN Mark(Renamed(k, b), b) ELSE Renamed(k, b)]
    /\ awaiting' = [awaiting EXCEPT ![r] = None]
    /\ UNCHANGED <<pc, sources, resources, composers, handleVars, sweepVars, closePc>>

AdoptFails(r) ==
    /\ pc[r] = "running" /\ awaiting[r] # None
    /\ hstate[awaiting[r].handle] = "failed"
    /\ awaiting' = [awaiting EXCEPT ![r] = None]
    /\ UNCHANGED <<pc, held, cacheVars, handleVars, policyVars, sweepVars, closePc>>

\* A composer of one of the handler's sources is taken from the cache, with the
\* sources it retains, or made from all the handler holds (the localisation of
\* a target retains the English reference of another target too).
Compose(r, i) ==
    /\ CanCall(r) /\ i \in {exact[h] : h \in held[r]}
    /\ \/ /\ composers[i] = {}
          /\ composers' = [composers EXCEPT ![i] = held[r]]
          /\ UNCHANGED held
       \/ /\ composers[i] # {}
          /\ held' = [held EXCEPT ![r] = @ \cup composers[i]]
          /\ UNCHANGED composers
    /\ Touch(i)
    /\ UNCHANGED <<pc, awaiting, sources, entry, resources, handleVars, current, sweepVars, closePc>>

\* #OpenTargetSource and the libraries over it: an entry that needs no closing.
\* A load that fails takes its entry back and leaves the group to be pruned.
OpenResources(r, i, latest) ==
    /\ CanCall(r)
    /\ current' = IF latest THEN [current EXCEPT ![<<i[1], "resources">>] = Mark(@, i[2])]
                            ELSE current
    /\ resources' \in {resources \cup {i}} \cup (IF i \in resources THEN {} ELSE {resources})
    /\ Touch(i)
    /\ UNCHANGED <<handlerVars, sources, entry, composers, handleVars, sweepVars, closePc>>

\* #ResolveBuilds for "latest" remembers the resources, then, after another
\* await, the SDE clamped to them, whether or not anything is open for them.
ResolveBuilds(r, t, res, sde) ==
    /\ CanCall(r)
    /\ \/ current' = [current EXCEPT ![<<t, "resources">>] = Mark(@, res)]
       \/ /\ current[<<t, "resources">>] # <<>>
          /\ current' = [current EXCEPT ![<<t, "sde">>] = Mark(@, IF sde > res THEN res ELSE sde)]
    /\ UNCHANGED <<handlerVars, cacheVars, handleVars, age, sweepVars, closePc>>

-------------------------------------------------------------------------------
(* Sweep *)

\* The interval timer; a sweep already under way is only returned.
TimerSweep ==
    /\ closePc = "open" /\ maint = "none"
    /\ maint' = "queued"
    /\ UNCHANGED <<handlerVars, cacheVars, handleVars, policyVars, closing, failed, closePc>>

AwaitDrain ==
    /\ maint = "queued" /\ Running # {}
    /\ maint' = "draining"
    /\ UNCHANGED <<handlerVars, cacheVars, handleVars, policyVars, closing, failed, closePc>>

\* Only composers of the retired identities go.
Retire_OwnComposers(S) ==
    LET gone == {k \in Cached : SourceId(k) \in S} IN
    /\ sources' = [k \in Identities |-> IF k \in gone THEN None ELSE sources[k]]
    /\ entry' = [k \in Identities |-> IF k \in gone THEN k[2] ELSE entry[k]]
    /\ resources' = resources \ S
    /\ composers' = [i \in Identities |-> IF i \in S THEN {} ELSE composers[i]]
    /\ closing' = {sources[k] : k \in gone}
    /\ age' = [i \in Identities |-> IF i \in S THEN -1 ELSE Pruned[i]]

\* Every entry of the identities S goes; if a source is among them, so does
\* every dependent composer, whatever its identity, before any source closes.
Retire(S) ==
    LET gone == {k \in Cached : SourceId(k) \in S} IN
    /\ sources' = [k \in Identities |-> IF k \in gone THEN None ELSE sources[k]]
    /\ entry' = [k \in Identities |-> IF k \in gone THEN k[2] ELSE entry[k]]
    /\ resources' = resources \ S
    /\ composers' = [i \in Identities |-> IF i \in S \/ gone # {} THEN {} ELSE composers[i]]
    /\ closing' = {sources[k] : k \in gone}
    /\ age' = [i \in Identities |->
                 IF \/ i \in resources' \/ composers'[i] # {}
                    \/ \E k \in Cached \ gone : SourceId(k) = i
                 THEN age[i] ELSE -1]

StartRetiring_NoDrain ==             \* handlers may still run
    /\ maint \in {"queued", "draining", "drained"}
    /\ maint' = "retiring" /\ failed' = FALSE
    /\ Retire(Expired)
    /\ UNCHANGED <<handlerVars, handleVars, current, closePc>>

StartRetiring ==
    /\ maint = "drained" \/ (maint = "queued" /\ Running = {})
    /\ maint' = "retiring" /\ failed' = FALSE
    /\ Retire(Expired)
    /\ UNCHANGED <<handlerVars, handleVars, current, closePc>>

CloseOne(h) ==
    /\ maint = "retiring" /\ h \in closing
    /\ hstate' = [hstate EXCEPT ![h] = "closed"]
    /\ exact' = [exact EXCEPT ![h] = None]
    /\ closing' = closing \ {h}
    /\ failed' \in IF CloseMayFail THEN {failed, TRUE} ELSE {failed}
    /\ UNCHANGED <<handlerVars, cacheVars, policyVars, maint, closePc>>

RetireOldest ==
    /\ maint = "retiring" /\ closing = {} /\ ~failed /\ OverBudget
    /\ \E U \in OldestUnits : Retire(U)
    /\ UNCHANGED <<handlerVars, handleVars, current, maint, failed, closePc>>

\* Close goes on when a sweep it waits for has settled, or rejects with it.
CloseResumes ==
    /\ closePc' = CASE closePc = "waiting" /\ failed -> "cut short"
                    [] closePc = "waiting" /\ ~failed -> "resumed"
                    [] closePc = "sweeping" /\ failed -> "failed"
                    [] closePc = "sweeping" /\ ~failed -> "done"
                    [] OTHER -> closePc
    /\ current' = IF closePc = "sweeping" /\ ~failed
                  THEN [f \in Targets \X Facets |-> <<>>] ELSE current

FinishSweep_OnePass ==              \* the budget is not looked at again
    /\ maint = "retiring" /\ closing = {}
    /\ maint' = "none" /\ failed' = FALSE
    /\ pc' = [r \in Requests |-> IF pc[r] # "blocked" THEN pc[r]
                                 ELSE IF failed \/ Closed THEN "refused" ELSE "running"]
    /\ CloseResumes
    /\ UNCHANGED <<held, awaiting, cacheVars, handleVars, age, closing>>

FinishSweep_NoAdmission ==            \* who waited goes on waiting, for the next sweep
    /\ maint = "retiring" /\ closing = {} /\ (failed \/ ~OverBudget)
    /\ maint' = "none" /\ failed' = FALSE
    /\ pc' = [r \in Requests |-> IF pc[r] # "blocked" THEN pc[r]
                                 ELSE IF failed \/ Closed THEN "refused" ELSE pc[r]]
    /\ CloseResumes
    /\ UNCHANGED <<held, awaiting, cacheVars, handleVars, age, closing>>

\* The sweep's promise settles.  Its reactions run before any other event: the
\* requests behind the barrier are admitted (refused when the cache is closed,
\* or rejected with the sweep's error), and Close goes on or rejects too.
FinishSweep ==
    /\ maint = "retiring" /\ closing = {} /\ (failed \/ ~OverBudget)
    /\ maint' = "none" /\ failed' = FALSE
    /\ pc' = [r \in Requests |-> IF pc[r] # "blocked" THEN pc[r]
                                 ELSE IF failed \/ Closed THEN "refused" ELSE "running"]
    /\ CloseResumes
    /\ UNCHANGED <<held, awaiting, cacheVars, handleVars, age, closing>>

-------------------------------------------------------------------------------
(* Close, called once when the service shuts down *)

CloseStart ==
    /\ closePc = "open"
    /\ closePc' = IF maint # "none" THEN "waiting" ELSE "sweeping"
    /\ maint' = IF maint # "none" THEN maint ELSE "queued"
    /\ UNCHANGED <<handlerVars, cacheVars, handleVars, policyVars, closing, failed>>

\* Close's own sweep: Sweep would join one already under way.
CloseSweep ==
    /\ closePc = "resumed"
    /\ closePc' = "sweeping"
    /\ maint' = IF maint = "none" THEN "queued" ELSE maint
    /\ UNCHANGED <<handlerVars, cacheVars, handleVars, policyVars, closing, failed>>

Tick ==
    /\ \E i \in Identities : age[i] \in 0..(MaxAge - 1)
    /\ age' = [i \in Identities |-> IF age[i] \in 0..(MaxAge - 1) THEN age[i] + 1 ELSE age[i]]
    /\ UNCHANGED <<handlerVars, cacheVars, handleVars, current, sweepVars, closePc>>

-------------------------------------------------------------------------------
HandlerCall(r) ==
    \/ \E k \in Exports, latest \in BOOLEAN : JoinSource(r, k, latest) \/ StartSource(r, k, latest)
    \/ \E i \in Identities : Compose(r, i)
    \/ \E i \in Catalogs, latest \in BOOLEAN : OpenResources(r, i, latest)
    \/ \E res \in Catalogs, sde \in Exports :
          res[1] = sde[1] /\ ResolveBuilds(r, res[1], res[2], sde[2])

Next ==
    \/ \E r \in Requests : Enter(r) \/ Finish(r) \/ Adopt(r) \/ AdoptFails(r) \/ HandlerCall(r)
    \/ \E h \in Handles : OpenSucceeds(h) \/ OpenFails(h) \/ CloseOne(h)
    \/ TimerSweep \/ AwaitDrain \/ StartRetiring \/ RetireOldest \/ FinishSweep
    \/ CloseStart \/ CloseSweep \/ Tick

Spec == Init /\ [][Next]_vars

\* Promises settle, microtasks run, the timer fires and time passes.  A handler
\* makes finitely many calls, so one that keeps getting control back returns.
Fairness ==
    /\ \A r \in Requests : SF_vars(Finish(r)) /\ WF_vars(Adopt(r) \/ AdoptFails(r))
    /\ \A h \in Handles : WF_vars(OpenSucceeds(h) \/ OpenFails(h)) /\ WF_vars(CloseOne(h))
    /\ WF_vars(AwaitDrain) /\ WF_vars(StartRetiring) /\ WF_vars(RetireOldest)
    /\ WF_vars(FinishSweep) /\ WF_vars(TimerSweep) /\ WF_vars(CloseSweep) /\ WF_vars(Tick)

FairSpec == Spec /\ Fairness

-------------------------------------------------------------------------------
(* Properties *)

\* Every variable has the values its comment names: the maps, the bookkeeping
\* of the policy and the promises in flight (CjsToolBuildCache.js:13-21).
TypeOK ==
    /\ pc \in [Requests -> {"idle", "blocked", "running", "refused"}]
    /\ held \in [Requests -> SUBSET Handles]
    /\ awaiting \in [Requests -> Waits \cup {None}]
    /\ sources \in [Identities -> Handles \cup {None}]
    /\ entry \in [Identities -> Builds]
    /\ resources \in SUBSET Identities
    /\ composers \in [Identities -> SUBSET Handles]
    /\ hstate \in [Handles -> {"closed", "opening", "open", "failed"}]
    /\ exact \in [Handles -> Identities \cup {None}]
    /\ age \in [Identities -> -1..MaxAge]
    /\ current \in [Targets \X Facets -> Seq(Builds)]
    /\ maint \in {"none", "queued", "draining", "drained", "retiring"}
    /\ closing \in SUBSET Handles
    /\ failed \in BOOLEAN
    /\ closePc \in ClosePhases

\* "HTTP handler completion is the explicit safe boundary for closing SQLite
\* handles" (CjsToolBuildCache.js:7-8): every source a running handler uses,
\* its own or one a shared composer retains, is open and not being closed.
NoUseAfterClose ==
    \A r \in Requests : \A h \in held[r] : hstate[h] = "open" /\ h \notin closing

\* "the barrier excludes new owners until retirement completes"
\* (CjsToolBuildCache.js:125-127): while entries are retired and sources are
\* closing, no handler runs and every source at stake is being closed once.
BarrierExcludesHandlers ==
    /\ maint \in {"drained", "retiring"} => Running = {}
    /\ maint = "draining" => Running # {}
    /\ closing # {} => maint = "retiring"
    /\ \A h \in closing : hstate[h] = "open"

\* "Removes every reference before closing selected SDE sources"
\* (CjsToolBuildCache.js:309): what a map entry or a composer of any target
\* refers to is not closed, not closing, and not failed.
NoDanglingReference ==
    \A k \in Identities :
        /\ sources[k] # None => hstate[sources[k]] \in {"opening", "open"} /\ sources[k] \notin closing
        /\ \A h \in composers[k] : hstate[h] = "open" /\ h \notin closing

\* An open source is always one the cache can still find and close: its
\* repository entry refers to it, or the sweep is closing it.
NoOrphanSource ==
    \A h \in Handles : hstate[h] = "open" =>
        h \in closing \/ \E k \in Identities : sources[k] = h

\* Between requests the entry of every source stands for the build the source
\* serves, after a fallback too: what a sweep retires and what the budget
\* counts as one build is decided by that identity (CjsToolBuildCache.js:88-110).
EntriesNameServedBuild ==
    Running = {} => \A k \in Cached : /\ hstate[sources[k]] = "open"
                                     /\ SourceId(k) = exact[sources[k]]

\* The sources of one target and build are retired together: when one of them
\* is closing, no entry that serves the same identity is left behind.
AliasesRetireTogether ==
    \A h \in closing : \A k \in Cached : exact[sources[k]] # exact[h]

\* Close returns only when nothing is cached, current or open any more
\* (CjsToolBuildCache.js:203-212).
CloseLeavesNothing ==
    closePc = "done" => /\ Cached = {} /\ resources = {} /\ Composed = {}
                        /\ \A h \in Handles : hstate[h] # "open"
                        /\ \A f \in Targets \X Facets : current[f] = <<>>
                        /\ Running = {}

\* A sweep whose closings all succeed ends within both budgets
\* (CjsToolBuildCache.js:179-197).
SweepEndsWithinBudget ==
    [][maint = "retiring" /\ maint' = "none" /\ ~failed => ~OverBudget']_vars

\* The cache implements the leases the rest of the service relies on: a source
\* is lent while open and closed only when no handler holds it.
Lease == INSTANCE SourceLease WITH
    status <- [h \in Handles |-> IF hstate[h] = "open" /\ h \notin closing
                                 THEN "open" ELSE "closed"],
    leases <- held
ImplementsLease == Lease!LeaseSpec

\* A request behind the barrier is answered: the sweep it waits for ends.
BlockedIsAnswered == \A r \in Requests : pc[r] = "blocked" ~> pc[r] # "blocked"

\* When no handler runs any more, every source is closed in the end, current
\* builds included, although a sweep that fails to close one ends there (the idle
\* expiry of CjsToolBuildCache.js:170-178).  The exception is a Close that found
\* such a sweep under way: it rejects before a sweep of its own (:209), and with
\* the timer gone nothing closes the rest.
QuietServiceClosesSources ==
    <>[](Running = {}) => <>[](closePc = "cut short" \/ \A h \in Handles : hstate[h] # "open")

\* "Count limits are a backstop after expiry" (CjsToolBuildCache.js:139): a cache
\* over its budgets comes back within them, if the handlers drain again and again
\* and closings fail no more, since a sweep that failed leaves the budgets to the
\* next, and Close, cut short, to none.
BudgetRestoredWhenDrained ==
    []<>(Running = {}) /\ <>[]~failed => (OverBudget ~> closePc = "cut short" \/ ~OverBudget)

-------------------------------------------------------------------------------
(* What the proofs need besides: the inductive invariant *)

\* Two entries never share a source, so closing one closes no other's.
OneEntryPerSource ==
    \A k, l \in Identities : k # l /\ sources[k] # None => sources[k] # sources[l]

OnlyHandlersHold ==
    \A r \in Requests : pc[r] # "running" => held[r] = {} /\ awaiting[r] = None

\* An opening is awaited by the handler that started it ("Protects the complete
\* handler, including asynchronous source adoption", CjsToolBuildCache.js:122).
OpeningsAwaited ==
    \A h \in Handles : hstate[h] = "opening" =>
        \E r \in Requests : awaiting[r] # None /\ awaiting[r].handle = h

AwaitedIsCached ==
    \A r \in Requests : awaiting[r] # None =>
        LET w == awaiting[r] IN
        hstate[w.handle] \in {"opening", "open"} => sources[w.key] = w.handle

OpenServesIdentity == \A h \in Handles : hstate[h] = "open" => exact[h] # None

\* An entry names the build its source serves, except while the handlers that
\* await the source have not resumed.
EntryNamesServedBuild ==
    \A k \in Identities : sources[k] # None /\ hstate[sources[k]] = "open" =>
        \/ SourceId(k) = exact[sources[k]]
        \/ /\ k[1] = exact[sources[k]][1]
           /\ \E r \in Requests : /\ awaiting[r] # None
                                 /\ awaiting[r].key = k /\ awaiting[r].handle = sources[k]

\* Whatever an entry stands for has a group, which is how expiry, budgets and
\* Close find it; an entry that is still to be made stands for what was requested.
EveryEntryTracked ==
    /\ \A i \in Present : age[i] # -1
    /\ \A k \in Identities : sources[k] = None => entry[k] = k[2]

NothingCached == Cached = {} /\ resources = {} /\ Composed = {}

\* Close's own sweep begins with no handler that could put anything back, retires
\* every group, and nothing is cached from then on.
CloseIsFinal ==
    /\ closePc = "resumed" => maint = "none" /\ Running = {}
    /\ closePc = "sweeping" => maint # "none"
    /\ closePc = "sweeping" /\ maint = "retiring" => NothingCached
    /\ closePc = "done" => /\ maint = "none" /\ Running = {} /\ closing = {} /\ NothingCached
                           /\ \A f \in Targets \X Facets : current[f] = <<>>

\* The safety properties above are inductive together with these.
Safety ==
    /\ BarrierExcludesHandlers
    /\ NoUseAfterClose
    /\ NoDanglingReference
    /\ NoOrphanSource
    /\ OneEntryPerSource
    /\ OnlyHandlersHold
    /\ OpeningsAwaited
    /\ AwaitedIsCached
    /\ OpenServesIdentity
    /\ EntryNamesServedBuild
    /\ AliasesRetireTogether

IInv == TypeOK /\ Safety /\ EveryEntryTracked /\ CloseIsFinal
===============================================================================
