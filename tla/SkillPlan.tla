------------------------------- MODULE SkillPlan -------------------------------
(***************************************************************************)
(* The skills topic (src/skills/CjsToolSkills.js): Requirements walks the  *)
(* prerequisites of one type, Plan those of several skills at once, and    *)
(* #Outline draws the same graph with its repeats.  A behaviour asks for   *)
(* the requirements of each target and then for the plan of all of them.   *)
(* What a type requires is data and may hold anything: diamonds, two slots *)
(* of one skill, cycles.  Lists are sets: the code goes through them in    *)
(* one order, the model in any.                                            *)
(*                                                                         *)
(* A definition named X_ and what it forgets stands before X and is X with *)
(* a plausible bug; nothing here uses it.                                  *)
(***************************************************************************)
EXTENDS Naturals, SequencesExt, FiniteSetsExt

CONSTANTS
    Types,          \* identifiers of types
    Known,          \* those with a row
    Levels,
    MaxSlots,       \* bound: how many requirements a type has
    MaxNeeds,       \* bound: how many all types have
    MaxTargets,     \* bound: how many skills are asked for at once
    MaxDepth        \* MAX_DEPTH

ASSUME KnownAreTypes == Known \subseteq Types
ASSUME LevelsArePositive == Levels \subseteq Nat \ {0} /\ MaxDepth \in Nat \ {0}

VARIABLES
    requires,   \* [Types -> sets of Needs]
    targets,    \* what is asked for
    walk,       \* "idle", "closure", "plan", "planned"
    whose,      \* the target whose requirements are walked
    found,      \* the Map of the walk under way
    frontier,   \* what is left of the round: needs, and whose they are or how deep
    next,       \* what the next round visits
    depth,      \* the rounds before this one
    closures    \* what Requirements answered for targets

planVars == <<requires, targets, walk, whose, found, frontier, next, depth, closures>>

\* A requested skill has no level of its own.
NoLevel == 0

Needs == [skill : Types, level : Levels]

\* No walk is under way.
Rest ==
    /\ walk = "idle" /\ whose = {} /\ found = <<>> /\ frontier = {} /\ next = {} /\ depth = 0

PlanIdle == Rest /\ requires = [t \in Types |-> {}] /\ targets = {} /\ closures = <<>>

Direct(t) == requires[t]

\* What a type requires: at a depth, or of it.
Deeper(t, d) == {[skill |-> n.skill, level |-> n.level, depth |-> d] : n \in Direct(t)}
Demands(t) == {[skill |-> n.skill, level |-> n.level, by |-> t] : n \in Direct(t)}

PlanInit ==
    /\ requires \in [Types -> {s \in SUBSET Needs : Cardinality(s) <= MaxSlots}]
    /\ MapThenSumSet(LAMBDA t : Cardinality(requires[t]), Types) <= MaxNeeds
    /\ \E asked \in SUBSET Types : /\ Cardinality(asked) \in 1..MaxTargets
                                   /\ targets = asked \cap Known
    /\ Rest /\ closures = <<>>

With(map, key, value) == [k \in DOMAIN map \cup {key} |-> IF k = key THEN value ELSE map[k]]

\* What is still to be asked for.
Left == targets \ DOMAIN closures

\* The requirements of a target are asked for.
AskClosure ==
    /\ walk = "idle" /\ walk' = "closure"
    /\ \E t \in Left : whose' = t /\ frontier' = Deeper(t, 0)
    /\ UNCHANGED <<requires, targets, found, next, depth, closures>>

\* Then the plan, which starts from the targets themselves.
AskPlan ==
    /\ walk = "idle" /\ Left = {} /\ targets # {}
    /\ walk' = "plan"
    /\ found' = [t \in targets |->
                   [level |-> NoLevel, depth |-> 0, requested |-> TRUE, requiredBy |-> {}]]
    /\ frontier' = UNION {Demands(t) : t \in targets}
    /\ UNCHANGED <<requires, targets, whose, next, depth, closures>>

-------------------------------------------------------------------------------
(* Both walks go by breadth, and no deeper than the cap *)

NextRound ==
    /\ walk \in {"closure", "plan"} /\ depth < MaxDepth
    /\ frontier = {} /\ next # {}
    /\ frontier' = next /\ next' = {} /\ depth' = depth + 1
    /\ UNCHANGED <<requires, targets, walk, whose, found, closures>>

Over == depth = MaxDepth \/ (frontier = {} /\ next = {})

\* The first level found stays.
Reached_FirstLevel(e) ==
    IF e.skill \in DOMAIN found
    THEN UNCHANGED <<found, next>>
    ELSE /\ found' = With(found, e.skill, [level |-> e.level, depth |-> e.depth])
         /\ next' = next \cup Deeper(e.skill, e.depth + 1)

\* #Closure: "the highest level any path demands wins".
Reached(e) ==
    IF e.skill \in DOMAIN found
    THEN /\ found' = [found EXCEPT ![e.skill] = [level |-> Max({@.level, e.level}),
                                                 depth |-> Min({@.depth, e.depth})]]
         /\ UNCHANGED next
    ELSE /\ found' = With(found, e.skill, [level |-> e.level, depth |-> e.depth])
         /\ next' = next \cup Deeper(e.skill, e.depth + 1)

VisitClosure ==
    /\ walk = "closure" /\ depth < MaxDepth
    /\ \E e \in frontier : Reached(e) /\ frontier' = frontier \ {e}
    /\ UNCHANGED <<requires, targets, walk, whose, depth, closures>>

AnswerClosure ==
    /\ walk = "closure" /\ Over
    /\ closures' = With(closures, whose, found)
    /\ walk' = "idle" /\ whose' = {} /\ found' = <<>> /\ frontier' = {} /\ next' = {} /\ depth' = 0
    /\ UNCHANGED <<requires, targets>>

\* Only the first skill that demanded it is named.
Demanded_ByFirst(need) ==
    LET s == need.skill
        d == found[need.by].depth + 1
    IN IF s \in DOMAIN found
       THEN /\ found' = [found EXCEPT ![s] = [level |-> Max({@.level, need.level}),
                                              depth |-> Min({@.depth, d}),
                                              requested |-> @.requested,
                                              requiredBy |-> @.requiredBy]]
            /\ UNCHANGED next
       ELSE /\ found' = With(found, s, [level |-> need.level, depth |-> d,
                                        requested |-> FALSE, requiredBy |-> {need.by}])
            /\ next' = next \cup Demands(s)

\* One requirement of a skill of the plan.
Demanded(need) ==
    LET s == need.skill
        d == found[need.by].depth + 1
    IN IF s \in DOMAIN found
       THEN /\ found' = [found EXCEPT ![s] = [level |-> Max({@.level, need.level}),
                                              depth |-> Min({@.depth, d}),
                                              requested |-> @.requested,
                                              requiredBy |-> @.requiredBy \cup {need.by}]]
            /\ UNCHANGED next
       ELSE /\ found' = With(found, s, [level |-> need.level, depth |-> d,
                                        requested |-> FALSE, requiredBy |-> {need.by}])
            /\ next' = next \cup Demands(s)

VisitPlan ==
    /\ walk = "plan" /\ depth < MaxDepth
    /\ \E need \in frontier : Demanded(need) /\ frontier' = frontier \ {need}
    /\ UNCHANGED <<requires, targets, walk, whose, depth, closures>>

AnswerPlan ==
    /\ walk = "plan" /\ Over
    /\ walk' = "planned"
    /\ UNCHANGED <<requires, targets, whose, found, frontier, next, depth, closures>>

PlanNext ==
    \/ AskClosure \/ VisitClosure \/ AnswerClosure
    \/ AskPlan \/ VisitPlan \/ AnswerPlan \/ NextRound

PlanSpec == PlanInit /\ [][PlanNext]_planVars

-------------------------------------------------------------------------------
(* The lines of the outline *)

\* A line and those it stands under, a target first; `room` of them have an indent.
Chains(room) == {p \in BoundedSeq(Types, room) :
    /\ p # <<>> /\ p[1] \in targets
    /\ \A i \in 1..(Len(p) - 1) : \E n \in Direct(p[i]) : n.skill = p[i + 1]}

\* What each line repeats of the graph: who demands what, at which level.
Drawn == UNION {Demands(p[Len(p)]) : p \in Chains(MaxDepth - 1)}

-------------------------------------------------------------------------------
(* Properties *)

Planned == walk = "planned"

\* "Several targets are merged": one plan demands of each skill the highest level
\* any target's own requirements do, no deeper than the nearest of them says
\* (CjsToolSkills.js:128, 377-420): two walks, one answer.
PlanAgreesWithClosures ==
    Planned =>
        LET Of(s) == {closures[t][s] : t \in {u \in targets : s \in DOMAIN closures[u]}}
        IN /\ DOMAIN closures = targets
           /\ DOMAIN found = targets \cup UNION {DOMAIN closures[t] : t \in targets}
           /\ \A s \in DOMAIN found :
                /\ found[s].level = Max({e.level : e \in Of(s)} \cup {NoLevel})
                /\ found[s].depth = Min({e.depth + 1 : e \in Of(s)}
                                          \cup {0 : t \in targets \cap {s}})

\* "Every skill that demanded it, not just the first" (CjsToolSkills.js:202), and
\* the outline, which is drawn from the graph anew, gives the same reasons for
\* what is not at the cap (CjsToolSkills.js:260-293).
EveryDemandIsNamed ==
    Planned =>
        /\ \A s \in DOMAIN found : found[s].requiredBy =
             {t \in DOMAIN found : /\ found[t].depth < MaxDepth
                                   /\ \E n \in Direct(t) : n.skill = s}
        /\ \A e \in Drawn : /\ e.by \in found[e.skill].requiredBy
                            /\ e.level <= found[e.skill].level
        /\ \A s \in DOMAIN found : \A t \in found[s].requiredBy :
             found[t].depth < MaxDepth - 1 => \E e \in Drawn : e.by = t /\ e.skill = s
===============================================================================
