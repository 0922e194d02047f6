----------------------------- MODULE ResourcePool -----------------------------
(***************************************************************************)
(* A list of resources acquired by a few workers: CjsToolPrefetch.Prefetch *)
(* (src/prefetch/CjsToolPrefetch.js) with the Fetch of its index source    *)
(* (src/indexing/CjsToolIndexSource.js), whose FetchMatching has the same  *)
(* workers.  Requests for one resource share the promise of one load; a    *)
(* load reads the cache, then the network (BoundedFetch), checks what came *)
(* against the index row and writes it to the cache.                       *)
(*                                                                         *)
(* A definition named X_ and what it forgets stands before X and is X with *)
(* a plausible bug; nothing here uses it.                                  *)
(***************************************************************************)
EXTENDS BoundedFetch, FiniteSets

CONSTANTS
    Workers,    \* as many as the concurrency, or the list if that is shorter
    Total,      \* the length of the list
    Resource,   \* the resource behind each entry: two indexes may name one
    Size        \* the size the index row gives each resource

ASSUME ListIsGiven ==
    /\ Total \in Nat \ {0} /\ Resource \in [1..Total -> Reads]
    /\ Size \in [Reads -> 0..MaxSize]
ASSUME SomeWorkers == IsFiniteSet(Workers) /\ Workers # {}

VARIABLES
    refresh,    \* the cache is not read
    cached,     \* the resources the cache has
    load,       \* the promise of each: "none", "looking", "fetching", "there"
    cursor,     \* the entries that were taken
    at,         \* [Workers -> 0..Total]: the entry each is at, if any
    stage,      \* what each worker does
    hit,        \* whether what it was handed came from the cache
    completed, byteLength, cacheHits,
    outcome     \* of the whole call: "open", "reported", "rejected"

poolVars == <<refresh, cached, load, cursor, at, stage, hit,
              completed, byteLength, cacheHits, outcome>>
vars == <<fetchVars, poolVars>>

Init ==
    /\ FetchInit
    /\ refresh \in BOOLEAN /\ cached \in SUBSET Reads
    /\ load = [r \in Reads |-> "none"]
    /\ cursor = 0
    /\ at = [w \in Workers |-> 0]
    /\ stage = [w \in Workers |-> "taking"]
    /\ hit = [w \in Workers |-> FALSE]
    /\ completed = 0 /\ byteLength = 0 /\ cacheHits = 0
    /\ outcome = "open"

Moves(w, s) == stage' = [stage EXCEPT ![w] = s]

-------------------------------------------------------------------------------
(* A load: #ReadOrFetchPayload *)

Loads(r, l) == load' = [load EXCEPT ![r] = l]

\* The promise settles: it is forgotten, and all who await it resume.
Settle(r, s, fromCache) ==
    /\ Loads(r, "none")
    /\ LET Waiting == {w \in Workers : stage[w] = "fetching" /\ Resource[at[w]] = r}
       IN  /\ stage' = [w \in Workers |-> IF w \in Waiting THEN s ELSE stage[w]]
           /\ hit' = [w \in Workers |-> IF w \in Waiting THEN fromCache ELSE hit[w]]

counts == <<completed, byteLength, cacheHits, outcome>>
taken == <<cursor, at>>

\* The cache has it, "trusted without re-hashing".
FindCached(r) ==
    /\ load[r] = "looking" /\ ~refresh /\ r \in cached
    /\ Settle(r, "handed", TRUE)
    /\ UNCHANGED <<fetchVars, refresh, cached, taken, counts>>

StartFetch(r) ==
    /\ load[r] = "looking" /\ (refresh \/ r \notin cached)
    /\ Request(r)
    /\ Loads(r, "fetching")
    /\ UNCHANGED <<refresh, cached, taken, stage, hit, counts>>

\* It is what the index row says, and is written.
Store(r) ==
    /\ load[r] = "fetching" /\ phase[r] = "received" /\ kept[r] = Size[r]
    /\ cached' = cached \cup {r}
    /\ Settle(r, "handed", FALSE)
    /\ UNCHANGED <<fetchVars, refresh, taken, counts>>

\* It could not be fetched, is not what the row says, or cannot be written.
LoadFails(r) ==
    /\ load[r] = "fetching" /\ Settled(r)
    /\ Settle(r, "failing", FALSE)
    /\ UNCHANGED <<fetchVars, refresh, cached, taken, counts>>

-------------------------------------------------------------------------------
(* A worker *)

\* The next entry is taken, whether or not another worker failed, and its resource
\* loaded unless it is being loaded.
Take(w) ==
    /\ stage[w] = "taking" /\ cursor < Total
    /\ cursor' = cursor + 1
    /\ at' = [at EXCEPT ![w] = cursor + 1]
    /\ Moves(w, "fetching")
    /\ LET r == Resource[cursor + 1]
       IN  IF load[r] = "none" THEN Loads(r, "looking") ELSE UNCHANGED load
    /\ UNCHANGED <<fetchVars, refresh, cached, hit, counts>>

\* Counted when it is there, and reported to onProgress, which may be slow.
Count(w) ==
    /\ stage[w] = "handed"
    /\ byteLength' = byteLength + Size[Resource[at[w]]]
    /\ cacheHits' = cacheHits + (IF hit[w] THEN 1 ELSE 0)
    /\ completed' = completed + 1
    /\ Moves(w, "telling")
    /\ UNCHANGED <<fetchVars, refresh, cached, load, taken, hit, outcome>>

Told(w) ==
    /\ stage[w] = "telling"
    /\ Moves(w, "taking")
    /\ UNCHANGED <<fetchVars, refresh, cached, load, taken, hit, counts>>

\* Its load failed, or onProgress throws: the call rejects, the other workers go on.
Fail(w) ==
    /\ stage[w] \in {"failing", "telling"}
    /\ Moves(w, "failed")
    /\ outcome' = IF outcome = "open" THEN "rejected" ELSE outcome
    /\ UNCHANGED <<fetchVars, refresh, cached, load, taken, hit, completed, byteLength, cacheHits>>

WorkerEnds(w) ==
    /\ stage[w] = "taking" /\ cursor = Total
    /\ Moves(w, "done")
    /\ UNCHANGED <<fetchVars, refresh, cached, load, taken, hit, counts>>

\* Every entry is taken: nothing is left to do.
Report_Taken ==
    /\ outcome = "open" /\ cursor = Total
    /\ outcome' = "reported"
    /\ UNCHANGED <<fetchVars, refresh, cached, load, taken, stage, hit,
                   completed, byteLength, cacheHits>>

\* Every worker is done.
Report ==
    /\ outcome = "open" /\ \A w \in Workers : stage[w] = "done"
    /\ outcome' = "reported"
    /\ UNCHANGED <<fetchVars, refresh, cached, load, taken, stage, hit,
                   completed, byteLength, cacheHits>>

-------------------------------------------------------------------------------
Work(w) == Take(w) \/ Count(w) \/ Told(w) \/ Fail(w) \/ WorkerEnds(w)
Loading(r) == FindCached(r) \/ StartFetch(r) \/ Store(r) \/ LoadFails(r)
Reading(r) == (Network(r) \/ Timeout(r)) /\ UNCHANGED poolVars

Next == \/ \E w \in Workers : Work(w)
        \/ \E r \in Reads : Loading(r) \/ Reading(r)
        \/ CallerGoes /\ UNCHANGED poolVars
        \/ Report

\* Timers fire and what is runnable runs, onProgress comes back; the network owes
\* nothing.
Fairness ==
    /\ \A w \in Workers : WF_vars(Work(w))
    /\ \A r \in Reads : /\ WF_vars(Loading(r))
                        /\ WF_vars((Refuse(r) \/ ReadBody(r)) /\ UNCHANGED poolVars)
                        /\ WF_vars(Timeout(r) /\ UNCHANGED poolVars)
    /\ WF_vars(Report)

Spec == Init /\ [][Next]_vars /\ Fairness

-------------------------------------------------------------------------------
(* Properties *)

\* A report says what is so: every entry was acquired and is in the cache, once --
\* whatever the order in which workers, shared loads and timeouts came.  The service
\* starts to listen on it (CjsToolPrefetch.js:187-262, docs/guides/prefetch.md).
EveryEntryIsThere ==
    outcome = "reported" => completed = Total /\ \A i \in 1..Total : Resource[i] \in cached

\* The bytes of some entries of the list, each told by its entry and its place.
Bytes(S) == {b \in S \X (1..MaxSize) : b[2] <= Size[Resource[b[1]]]}

\* And the bytes it counts are those of the list.
ReportIsExact ==
    /\ EveryEntryIsThere
    /\ outcome = "reported" => byteLength = Cardinality(Bytes(1..Total))

\* The call ends, with a report or an error, though adapters, streams and their
\* cancellation may never come back (CjsToolBoundedFetch.js:22-93).
PoolEnds == outcome = "open" ~> outcome # "open"
===============================================================================
