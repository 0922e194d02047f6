----------------------------- MODULE BuildAuthority -----------------------------
(***************************************************************************)
(* Which builds exist and which one is served: the observation log that    *)
(* several processes append to (src/build/CjsToolBuildObservations.js), the *)
(* operator's policy (src/build/CjsToolBuildPolicy.js), and the resolutions *)
(* of `latest` that record what upstream had (ResolveTargetBuild of        *)
(* src/indexing/CjsToolIndex.js).  Builds are numbers, for the newest is   *)
(* the largest, and the facet is "resources".                              *)
(*                                                                         *)
(* Of the log's lines only two things are ever asked for a target: which   *)
(* build the last one names, and which builds any of them names.           *)
(*                                                                         *)
(* A definition named X_ and what it does instead stands before X and is X *)
(* with a plausible bug; nothing here uses it.                             *)
(***************************************************************************)
EXTENDS Naturals, FiniteSets, FiniteSetsExt

CONSTANTS
    Targets,
    Builds,
    Upstream,       \* [Targets -> SUBSET Builds]: what a remote may come to name
    Rules,          \* [Targets -> SUBSET Policies]: what an operator may have written
    Observers,      \* processes that resolve `latest`: services and tools
    Pruner,         \* the one process that prunes, which resolves it too
    DiskMayFill,    \* whether an append may fail
    None, Torn      \* no value; an end of the log that no line can be read from

Policies == [pin : Builds \cup {None}, hold : BOOLEAN]
Histories == [last : Builds \cup {None}, builds : SUBSET Builds]
Actors == Observers \cup {Pruner}

ASSUME AuthorityAssumption ==
    /\ Builds \subseteq Nat /\ IsFiniteSet(Builds)
    /\ Upstream \in [Targets -> SUBSET Builds]
    /\ Rules \in [Targets -> SUBSET Policies]
    /\ Pruner \notin Observers
    /\ DiskMayFill \in BOOLEAN
    /\ None \notin Builds \cup Targets
    /\ {None, Torn} \cap (Targets \X Builds) = {} /\ Torn # None

VARIABLES
    upstream,   \* [Targets -> Builds]: what the remote's metadata names now
    had,        \* [Targets -> SUBSET Builds]: what it has ever named (history)
    rule,       \* [Targets -> Policies]: the operator's file, read once per process
    log,        \* [Targets -> Histories]: what the ended lines of the file say
    tail,       \* None if the file ends with a line's end; else what follows the last
                \* one: Torn, or the <<target, build>> a line says that has no end
    pc,         \* [Actors -> "idle" | "asked" | "recording" | "recorded" | ...]
    subject,    \* [Actors -> Targets \cup {None}]: the target an actor resolves
    told        \* [Actors -> Builds \cup {None}]: what upstream told it

upstreamVars == <<upstream, had>>
logVars == <<log, tail>>
actorVars == <<pc, subject, told>>
authorityVars == <<upstreamVars, rule, logVars, actorVars>>

-------------------------------------------------------------------------------
(* The policy *)

\* Builds(target, facet)[0], or nothing.
Top(S) == IF S = {} THEN None ELSE Max(S)

\* The first n of a list sorted newest first.
Newest(S, n) == {b \in S : Cardinality({c \in S : c > b}) < n}

\* CjsToolBuildPolicy.Decide.
Decide(r, observed, cached) ==
    IF r.pin # None THEN r.pin
    ELSE IF cached # None /\ (r.hold \/ observed = None) THEN cached
    ELSE observed

-------------------------------------------------------------------------------
(* The log *)

\* A line for t and build b follows those there are.
Lines(h, t, b) == [h EXCEPT ![t] = [last |-> b, builds |-> @.builds \cup {b}]]

\* What read makes of the file: the last line is parsed like any other, its end or
\* none, and a part of a line is skipped.
Readable == IF tail \in Targets \X Builds THEN Lines(log, tail[1], tail[2]) ELSE log

\* The file is written again with what the writer knows.
Append_Rewrites(t, b) ==
    /\ log' = [log EXCEPT ![t] = [last |-> b, builds |-> {b}]]
    /\ tail' = None

\* What is appended to a line without its end, readable or not, makes one line with
\* it that nobody can read.
Append(t, b) ==
    /\ log' = IF tail = None THEN Lines(log, t, b) ELSE log
    /\ tail' = None

\* A full disk, or the end of the process, leaves nothing, a part of the line, or
\* all of it but its end.
AppendTears(t, b) ==
    /\ DiskMayFill
    /\ tail' \in {tail, Torn} \cup (IF tail = None THEN {<<t, b>>} ELSE {})
    /\ UNCHANGED log

AuthorityInit ==
    /\ upstream \in {u \in [Targets -> Builds] : \A t \in Targets : u[t] \in Upstream[t]}
    /\ had = [t \in Targets |-> {upstream[t]}]
    /\ rule \in {r \in [Targets -> Policies] : \A t \in Targets : r[t] \in Rules[t]}
    /\ log = [t \in Targets |-> [last |-> None, builds |-> {}]]
    /\ tail = None
    /\ pc = [a \in Actors |-> "idle"]
    /\ subject = [a \in Actors |-> None]
    /\ told = [a \in Actors |-> None]

\* Upstream publishes a build, or goes back to one.
PublishBuild(t) ==
    /\ \E b \in Upstream[t] : /\ upstream' = [upstream EXCEPT ![t] = b]
                              /\ had' = [had EXCEPT ![t] = @ \cup {b}]
    /\ UNCHANGED <<rule, logVars, actorVars>>

-------------------------------------------------------------------------------
(* ResolveTargetBuild(target, "latest"): ask, record what upstream had, decide *)

\* An actor goes on with target t, having been told b.
Goes(a, step, t, b) ==
    /\ pc' = [pc EXCEPT ![a] = step]
    /\ subject' = [subject EXCEPT ![a] = t]
    /\ told' = [told EXCEPT ![a] = b]

\* A process keeps what it was told for some minutes, so an observer may go by a
\* build that is not upstream's any more.
Ask(a) ==
    /\ a \in Observers /\ pc[a] = "idle"
    /\ \E t \in Targets : \E b \in had[t] : Goes(a, "asked", t, b)
    /\ UNCHANGED <<upstreamVars, rule, logVars>>

\* The log is read for each resolution, and a repeat of its last line is dropped.
ReadLog(a) ==
    /\ pc[a] = "asked"
    /\ Goes(a, IF Readable[subject[a]].last = told[a] THEN "recorded" ELSE "recording",
            subject[a], told[a])
    /\ UNCHANGED <<upstreamVars, rule, logVars>>

\* The decision is recorded, a pin included.
Recorded_Decided(a) == Decide(rule[subject[a]], told[a], None)

\* "The log records what upstream had, never what we chose to serve."
Recorded(a) == told[a]

\* It is appended without looking again; failing to is not the caller's business.
WriteLog(a) ==
    /\ pc[a] = "recording"
    /\ Append(subject[a], Recorded(a)) \/ AppendTears(subject[a], Recorded(a))
    /\ Goes(a, "recorded", subject[a], told[a])
    /\ UNCHANGED <<upstreamVars, rule>>

\* The caller has Decide's answer, and nothing is kept of it here.
Resolved(a) ==
    /\ a \in Observers /\ pc[a] = "recorded"
    /\ Goes(a, "idle", None, None)
    /\ UNCHANGED <<upstreamVars, rule, logVars>>

\* Everything but the pruner's own steps.
Surroundings ==
    \/ \E t \in Targets : PublishBuild(t)
    \/ \E a \in Observers : Ask(a) \/ Resolved(a)
    \/ \E a \in Actors : ReadLog(a) \/ WriteLog(a)
===============================================================================
