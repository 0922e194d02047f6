-------------------------------- MODULE Topics --------------------------------
(***************************************************************************)
(* The topic services of the HTTP service that keep nothing or only what   *)
(* they read: the held reads of the market, the characters and the latest  *)
(* builds (HeldReads), skills (SkillPlan) and fittings (Fitting).  They    *)
(* share no state and do not call each other, so a behaviour is of one.    *)
(***************************************************************************)
EXTENDS HeldReads, SkillPlan, Fitting

VARIABLE topic

topicVars == <<topic, vars, planVars, fitVars>>

HeldIdle == Init /\ cache = "rate"

TopicInit ==
    \/ topic = "reads" /\ Init /\ PlanIdle /\ FitIdle
    \/ topic = "skills" /\ HeldIdle /\ PlanInit /\ FitIdle
    \/ topic = "fitting" /\ HeldIdle /\ PlanIdle /\ FitInit

TopicNext ==
    /\ \/ topic = "reads" /\ Next /\ UNCHANGED <<planVars, fitVars>>
       \/ topic = "skills" /\ PlanNext /\ UNCHANGED <<vars, fitVars>>
       \/ topic = "fitting" /\ FitNext /\ UNCHANGED <<vars, planVars>>
    /\ UNCHANGED topic

TopicSpec == TopicInit /\ [][TopicNext]_topicVars
===============================================================================
