------------------------------ MODULE CachePrune ------------------------------
(***************************************************************************)
(* cjs-tools-cache-prune beside running services                           *)
(* (bin/cjs-tools-cache-prune.js): it asks the build authority which builds *)
(* are kept (KeepSet of src/build/CjsToolBuildAuthority.js), reads their   *)
(* indexes, and removes every stored payload they do not name.  Payloads   *)
(* are shared between builds and targets.  A run of it starts anew, so what *)
(* it knows is forgotten when it ends.                                     *)
(***************************************************************************)
EXTENDS BuildAuthority

CONSTANTS
    Payloads,
    Refs,           \* [Targets \X Builds -> SUBSET Payloads]: what an index names
    Window,         \* how many recent builds are kept
    Requests        \* what a run may be asked: the targets, and those among them
                    \* written exactly as the registry has them

ASSUME PruneAssumption ==
    /\ Refs \in [Targets \X Builds -> SUBSET Payloads]
    /\ Window \in Nat \ {0}
    /\ Requests \subseteq {r \in [targets : SUBSET Targets, exact : SUBSET Targets] :
                              r.exact \subseteq r.targets /\ r.targets # {}}

VARIABLES
    stored,     \* SUBSET Payloads: the files of the cache
    request,    \* Requests \cup {None}: what this run was asked
    view,       \* [Targets -> Histories]: the log as the authority read it once,
                \* and what it has appended since
    left,       \* SUBSET Targets: those KeepSet has still to resolve
    keep,       \* [Targets -> SUBSET Builds]: its answer
    failed,     \* BOOLEAN: whether a target could not be resolved
    unread,     \* SUBSET (Targets \X Builds): indexes still to be read
    spared,     \* SUBSET Payloads: what those read name
    doomed,     \* SUBSET Payloads: found by the walk and not spared
    heard       \* [Targets -> Builds \cup {None}]: what upstream told it (history)

keepVars == <<request, view, left, keep, failed, heard>>
fileVars == <<stored, unread, spared, doomed>>
vars == <<authorityVars, keepVars, fileVars>>

NoHistory == [t \in Targets |-> [last |-> None, builds |-> {}]]

Init ==
    /\ AuthorityInit
    /\ stored = Payloads
    /\ request = None /\ view = NoHistory
    /\ left = {} /\ keep = [t \in Targets |-> {}] /\ failed = FALSE
    /\ unread = {} /\ spared = {} /\ doomed = {}
    /\ heard = [t \in Targets |-> None]

\* A service downloads a payload of a build that upstream has had.
Store(f) ==
    /\ \E t \in Targets : \E b \in had[t] : f \in Refs[<<t, b>>]
    /\ stored' = stored \cup {f}
    /\ UNCHANGED <<authorityVars, keepVars, unread, spared, doomed>>

\* The pruner's own steps move nobody else.
Steps(from, to) ==
    /\ pc[Pruner] = from
    /\ pc' = [pc EXCEPT ![Pruner] = to]
    /\ UNCHANGED <<upstreamVars, rule, logVars, subject, told>>

\* The process ends: all done, nothing to apply, or refusing to go on.
Ends(from) ==
    /\ Steps(from, "idle")
    /\ request' = None /\ view' = NoHistory
    /\ left' = {} /\ keep' = [t \in Targets |-> {}] /\ failed' = FALSE
    /\ unread' = {} /\ spared' = {} /\ doomed' = {}
    /\ heard' = [t \in Targets |-> None]
    /\ UNCHANGED stored

-------------------------------------------------------------------------------
(* KeepSet, one target after the other *)

\* CjsToolBuildAuthority.open: the log is read once.
Open ==
    /\ Steps("idle", "keeping")
    /\ \E r \in Requests : request' = r /\ left' = r.targets
    /\ view' = Readable
    /\ UNCHANGED <<keep, failed, heard, fileVars>>

\* What is served, the pin, and the retention window.
KeptBuilds(t, answer, h) ==
    ({answer, rule[t].pin} \ {None}) \cup Newest(h[t].builds, Window)

\* A target nobody ever saw a build of contributes none, and the others go on.
Keeps_Short(t, observed, h) ==
    /\ left' = left \ {t}
    /\ keep' = [keep EXCEPT ![t] = KeptBuilds(t, Decide(rule[t], observed, Top(h[t].builds)), h)]
    /\ UNCHANGED failed

\* What the loop of KeepSet does with one target; a null build is a failure, not an
\* empty contribution.
Keeps(t, observed, h) ==
    LET answer == Decide(rule[t], observed, Top(h[t].builds)) IN
    /\ left' = left \ {t}
    /\ keep' = [keep EXCEPT ![t] = IF answer = None THEN {} ELSE KeptBuilds(t, answer, h)]
    /\ failed' = (failed \/ answer = None)

\* #Discover asks upstream, through the resolution every process uses ...
Discover(t) ==
    /\ pc[Pruner] = "keeping" /\ t \in left
    /\ Goes(Pruner, "asked", t, upstream[t])
    /\ heard' = [heard EXCEPT ![t] = upstream[t]]
    /\ UNCHANGED <<upstreamVars, rule, logVars, request, view, left, keep, failed, fileVars>>

\* ... which may not answer.
DiscoverFails(t) ==
    /\ pc[Pruner] = "keeping" /\ t \in left
    /\ Keeps(t, None, view)
    /\ UNCHANGED <<authorityVars, request, view, heard, fileVars>>

\* The authority records the answer once more, by its own view of the log.
Discovered ==
    LET t == subject[Pruner]
        b == told[Pruner] IN
    /\ pc[Pruner] = "recorded"
    /\ Goes(Pruner, "keeping", None, None)
    /\ \/ /\ view[t].last = b
          /\ Keeps(t, b, view)
          /\ UNCHANGED <<view, logVars>>
       \/ /\ view[t].last # b
          /\ Append(t, b)
          /\ view' = Lines(view, t, b)
          /\ Keeps(t, b, view')
    /\ UNCHANGED <<upstreamVars, rule, request, heard, fileVars>>

\* One try covers the asking and the recording: an append that fails makes it look
\* as if upstream had said nothing.
RecordFails ==
    LET t == subject[Pruner] IN
    /\ pc[Pruner] = "recorded" /\ view[t].last # told[Pruner]
    /\ AppendTears(t, told[Pruner])
    /\ Goes(Pruner, "keeping", None, None)
    /\ Keeps(t, None, view)
    /\ UNCHANGED <<upstreamVars, rule, request, view, heard, fileVars>>

\* "Refusing to report a keep-set."
Refuse == left = {} /\ failed /\ Ends("keeping")

-------------------------------------------------------------------------------
(* The prune *)

\* The answer names targets as the registry does; a target is looked up in it as
\* it was written, and one that is not found keeps nothing.
Kept ==
    /\ left = {} /\ ~failed
    /\ Steps("keeping", "opening")
    /\ unread' = {i \in Targets \X Builds : i[1] \in request.exact /\ i[2] \in keep[i[1]]}
    /\ UNCHANGED <<keepVars, stored, spared, doomed>>

\* "Refusing rather than skipping."
OpenFails(i) == i \in unread /\ Ends("opening")

\* An index without entries is refused too.
OpenIndex(i) ==
    /\ Steps("opening", "opening")
    /\ i \in unread /\ Refs[i] # {}
    /\ unread' = unread \ {i}
    /\ spared' = spared \cup Refs[i]
    /\ UNCHANGED <<keepVars, stored, doomed>>

\* The walk names what goes before anything does.
Walk ==
    /\ unread = {}
    /\ Steps("opening", "removing")
    /\ doomed' = stored \ spared
    /\ UNCHANGED <<keepVars, stored, unread, spared>>

Remove(f) ==
    /\ Steps("removing", "removing")
    /\ f \in doomed
    /\ stored' = stored \ {f}
    /\ doomed' = doomed \ {f}
    /\ UNCHANGED <<keepVars, unread, spared>>

\* All is removed, or none was to be, or the process ends among it.
Done == Ends("removing")

PruneSteps ==
    \/ Open \/ Discovered \/ RecordFails \/ Refuse \/ Kept \/ Walk \/ Done
    \/ \E t \in Targets : Discover(t) \/ DiscoverFails(t)
    \/ \E i \in Targets \X Builds : OpenFails(i) \/ OpenIndex(i)
    \/ \E f \in Payloads : Remove(f)

Next ==
    \/ Surroundings /\ UNCHANGED <<keepVars, fileVars>>
    \/ \E f \in Payloads : Store(f)
    \/ PruneSteps

Spec == Init /\ [][Next]_vars

-------------------------------------------------------------------------------
(* Properties *)

TypeOK ==
    /\ upstream \in [Targets -> Builds] /\ had \in [Targets -> SUBSET Builds]
    /\ rule \in [Targets -> Policies]
    /\ log \in [Targets -> Histories] /\ tail \in {None, Torn} \cup Targets \X Builds
    /\ pc \in [Actors -> {"idle", "asked", "recording", "recorded",
                          "keeping", "opening", "removing"}]
    /\ subject \in [Actors -> Targets \cup {None}]
    /\ told \in [Actors -> Builds \cup {None}]
    /\ stored \subseteq Payloads /\ request \in Requests \cup {None}
    /\ view \in [Targets -> Histories] /\ left \subseteq Targets
    /\ keep \in [Targets -> SUBSET Builds] /\ failed \in BOOLEAN
    /\ unread \subseteq Targets \X Builds
    /\ spared \subseteq Payloads /\ doomed \subseteq Payloads
    /\ heard \in [Targets -> Builds \cup {None}]

\* The log is a record of upstream: whatever pins and holds there are, whatever is
\* torn and however many processes append, no line names a build that upstream never
\* had (src/indexing/CjsToolIndex.js:270-273), and no view of it does.
OnlyObservedIsRecorded ==
    \A t \in Targets : Readable[t].builds \cup view[t].builds \subseteq had[t]

\* A build once readable in the log stays so, whoever appends with whatever view
\* (CjsToolBuildObservations.js:25-34: a build never written down is unknowable),
\* but one: that of a last line that lost its end, which the next write spoils.
NothingForgotten ==
    [][\A t \in Targets : \A b \in Readable[t].builds \ Readable'[t].builds :
          tail = <<t, b>> /\ tail' # tail]_vars

\* What a run must keep for t: the pin; the newest builds it knew or heard of; and
\* what upstream named, if nobody decided otherwise and it could be written down.
Protected(t) ==
    ({rule[t].pin} \ {None})
      \cup Newest(view[t].builds, Window)
      \cup (IF rule[t].pin = None /\ ~rule[t].hold /\ view[t].last = heard[t]
            THEN {heard[t]} \ {None} ELSE {})

\* A file goes only if every target the run is about has said which builds it keeps,
\* and none of their indexes names it, though some indexes cannot be read, upstream
\* may be silent for some targets, and files are shared
\* (CjsToolBuildAuthority.js:227-231, cjs-tools-cache-prune.js:168-192).
KeepsProtected ==
    [][\A f \in stored \ stored' : \A t \in request.targets :
          /\ Protected(t) # {}
          /\ \A b \in Protected(t) : f \notin Refs[<<t, b>>]]_vars

\* "Refusing to prune against an empty keep-set - that would delete everything the
\* cache holds" (cjs-tools-cache-prune.js:194-200).
NeverPrunesAgainstNothing == [][stored \ stored' # {} => spared # {}]_vars
===============================================================================
