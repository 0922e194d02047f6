--------------------------- MODULE BuildCacheProofs ---------------------------
EXTENDS BuildCache, SequenceTheorems, FiniteSetTheorems, WellFoundedInduction, TLAPS

-------------------------------------------------------------------------------
(* The lists of current builds *)

\* A set of natural numbers that is not empty has a least element.
LEMMA LeastExists ==
    ASSUME NEW T \in SUBSET Nat, T # {}
    PROVE  \E x \in T : \A y \in T : x <= y
<1>1. PICK x \in T : \A y \in T : <<y, x>> \notin OpToRel(<, Nat)
  BY NatLessThanWellFounded, WFMin, Zenon
<1>2. \A y \in T : x \in Nat /\ y \in Nat /\ ~(y < x)
  BY <1>1 DEF OpToRel
<1> QED BY <1>2

\* What precedes and what follows an element are sequences over the same set.
LEMMA CutType ==
    ASSUME NEW S, NEW s \in Seq(S), NEW i \in 1..Len(s)
    PROVE  SubSeq(s, 1, i - 1) \in Seq(S) /\ SubSeq(s, i + 1, Len(s)) \in Seq(S)
<1>1. /\ Len(s) \in Nat
      /\ \A j \in 1..Len(s) : s[j] \in S
  BY LenProperties, ElementOfSeq
<1>2. \A j \in 1..(i - 1) : s[j] \in S
  BY <1>1
<1>3. \A j \in (i + 1)..Len(s) : s[j] \in S
  BY <1>1
<1>4. SubSeq(s, 1, i - 1) \in Seq(S)
  BY <1>1, <1>2
<1>5. SubSeq(s, i + 1, Len(s)) \in Seq(S)
  BY <1>1, <1>3
<1> QED BY <1>4, <1>5

\* Removing a value leaves a list over the same set.
LEMMA RemoveFirstType ==
    ASSUME NEW S, NEW s \in Seq(S), NEW e
    PROVE  RemoveFirst(s, e) \in Seq(S)
<1>1. CASE ~ \E i \in 1..Len(s) : s[i] = e
  BY <1>1 DEF RemoveFirst
<1>2. CASE \E i \in 1..Len(s) : s[i] = e
  <2> DEFINE I == {i \in 1..Len(s) : s[i] = e}
  <2>1. I # {} /\ I \in SUBSET Nat
    BY <1>2
  <2>2. Min(I) \in I
    BY <2>1, LeastExists DEF Min
  <2>3. RemoveFirst(s, e) = SubSeq(s, 1, Min(I) - 1) \o SubSeq(s, Min(I) + 1, Len(s))
    BY <1>2, <2>1 DEF RemoveFirst, RemoveAt, SelectInSeq
  <2>4. /\ SubSeq(s, 1, Min(I) - 1) \in Seq(S)
        /\ SubSeq(s, Min(I) + 1, Len(s)) \in Seq(S)
    BY <2>2, CutType
  <2> QED BY <2>3, <2>4, ConcatProperties
<1> QED BY <1>1, <1>2

\* MarkCurrent puts builds into a list of builds.
LEMMA MarkType ==
    ASSUME NEW values \in Seq(Builds), NEW b \in Builds
    PROVE  Mark(values, b) \in Seq(Builds)
<1> DEFINE all == <<b>> \o RemoveFirst(values, b)
           n == IF Len(all) < CurrentBuildsPerTarget THEN Len(all) ELSE CurrentBuildsPerTarget
<1>1. all \in Seq(Builds) /\ Len(all) \in Nat
  BY RemoveFirstType, ConcatProperties
<1>2. n \in Nat /\ n <= Len(all)
  BY <1>1, ConstantsAssumption
<1>3. SubSeq(all, 1, n) \in Seq(Builds)
  <2>1. \A j \in 1..n : all[j] \in Builds
    BY <1>1, <1>2, ElementOfSeq
  <2> HIDE DEF all, n
  <2> QED BY <1>1, <1>2, <2>1
<1> QED BY <1>3 DEF Mark

\* SetIdentity renames builds in a list of builds.
LEMMA RenameType ==
    ASSUME NEW values \in Seq(Builds), NEW p, NEW q, NEW b \in Builds
    PROVE  Rename(values, p, q, b) \in Seq(Builds)
<1>1. CASE {p, q} \cap ToSet(values) = {}
  BY <1>1 DEF Rename
<1>2. CASE {p, q} \cap ToSet(values) # {}
  <2> DEFINE names == {p, q, b}
             First(n) == /\ n \in DOMAIN values
                         /\ values[n] \in names
                         /\ \A m \in 1..(n - 1) : values[m] \notin names
             i == CHOOSE n \in DOMAIN values :
                      /\ values[n] \in names
                      /\ \A m \in 1..(n - 1) : values[m] \notin names
             rest == SubSeq(values, i + 1, Len(values))
             T == {n \in DOMAIN values : values[n] \in names}
  <2>1. DOMAIN values = 1..Len(values) /\ Len(values) \in Nat
    BY LenProperties
  <2>2. T # {} /\ T \in SUBSET Nat
    BY <1>2, <2>1 DEF ToSet
  <2>3. \E n \in DOMAIN values : /\ values[n] \in names
                                 /\ \A m \in 1..(n - 1) : values[m] \notin names
    <3>1. PICK n \in T : \A m \in T : n <= m
      BY <2>2, LeastExists
    <3>2. \A m \in 1..(n - 1) : values[m] \notin names
      BY <2>1, <3>1
    <3> QED BY <3>1, <3>2
  <2>4. i \in 1..Len(values)
    BY <2>1, <2>3
  <2>5. SubSeq(values, 1, i - 1) \in Seq(Builds) /\ rest \in Seq(Builds)
    <3> HIDE DEF i
    <3> QED BY <2>4, CutType
  <2>6. RemoveFirst(RemoveFirst(RemoveFirst(rest, b), p), q) \in Seq(Builds)
    <3> HIDE DEF rest
    <3> QED BY <2>5, RemoveFirstType
  <2>7. Rename(values, p, q, b) =
          (SubSeq(values, 1, i - 1) \o <<b>>)
              \o RemoveFirst(RemoveFirst(RemoveFirst(rest, b), p), q)
    BY <1>2, Zenon DEF Rename
  <2> HIDE DEF i, rest
  <2>8. SubSeq(values, 1, i - 1) \o <<b>> \in Seq(Builds)
    BY <2>5, ConcatProperties
  <2> QED BY <2>6, <2>7, <2>8, ConcatProperties
<1> QED BY <1>1, <1>2

-------------------------------------------------------------------------------
(* Type correctness *)

\* The initial state has the types, and every other part of the invariant: no
\* entry, no source and no handler exists yet.
LEMMA InitIInv == Init => IInv
<1> SUFFICES ASSUME Init PROVE IInv
  OBVIOUS
<1> USE ConstantsAssumption DEF Init, ClosePhases
<1>1. TypeOK
  <2>1. entry \in [Identities -> Builds]
    BY DEF Identities
  <2>2. age \in [Identities -> -1..MaxAge]
    OBVIOUS
  <2>3. current \in [Targets \X Facets -> Seq(Builds)]
    OBVIOUS
  <2> QED BY <2>1, <2>2, <2>3 DEF TypeOK
<1>2. BarrierExcludesHandlers /\ NoUseAfterClose /\ NoDanglingReference /\ NoOrphanSource
  BY DEF BarrierExcludesHandlers, NoUseAfterClose, NoDanglingReference, NoOrphanSource, Running
<1>3. OneEntryPerSource /\ OnlyHandlersHold /\ OpeningsAwaited /\ AwaitedIsCached
  BY DEF OneEntryPerSource, OnlyHandlersHold, OpeningsAwaited, AwaitedIsCached
<1>4. OpenServesIdentity /\ EntryNamesServedBuild /\ AliasesRetireTogether
  BY DEF OpenServesIdentity, EntryNamesServedBuild, AliasesRetireTogether
<1>5. EveryEntryTracked
  BY DEF EveryEntryTracked, Present, Cached, Composed
<1>6. CloseIsFinal
  BY DEF CloseIsFinal
<1> QED BY <1>1, <1>2, <1>3, <1>4, <1>5, <1>6 DEF IInv, Safety

\* A touch, a prune, a retirement and a tick keep idle times within the bound.
LEMMA AgeType ==
    ASSUME age \in [Identities -> -1..MaxAge]
    PROVE  /\ \A i : Touch(i) => age' \in [Identities -> -1..MaxAge]
           /\ Pruned \in [Identities -> -1..MaxAge]
<1> USE ConstantsAssumption
<1>1. \A i : Touch(i) => age' \in [Identities -> -1..MaxAge]
  <2>1. 0 \in -1..MaxAge
    OBVIOUS
  <2>2. ASSUME NEW i PROVE [age EXCEPT ![i] = 0] \in [Identities -> -1..MaxAge]
    BY <2>1, Zenon
  <2> QED BY <2>2 DEF Touch
<1>2. Pruned \in [Identities -> -1..MaxAge]
  BY DEF Pruned
<1> QED BY <1>1, <1>2

\* A retirement, whatever it retires, keeps the types of what it changes.
LEMMA RetireType ==
    ASSUME TypeOK, NEW S, Retire(S)
    PROVE  /\ sources' \in [Identities -> Handles \cup {None}]
           /\ entry' \in [Identities -> Builds]
           /\ resources' \in SUBSET Identities
           /\ composers' \in [Identities -> SUBSET Handles]
           /\ closing' \in SUBSET Handles
           /\ age' \in [Identities -> -1..MaxAge]
<1> USE ConstantsAssumption
<1>1. sources' \in [Identities -> Handles \cup {None}]
  BY DEF TypeOK, Retire
<1>2. entry' \in [Identities -> Builds]
  BY DEF TypeOK, Retire, Identities
<1>3. resources' \in SUBSET Identities /\ composers' \in [Identities -> SUBSET Handles]
  BY DEF TypeOK, Retire
<1>4. closing' \in SUBSET Handles
  BY DEF TypeOK, Retire, Cached
<1>5. age' \in [Identities -> -1..MaxAge]
  BY DEF TypeOK, Retire
<1> QED BY <1>1, <1>2, <1>3, <1>4, <1>5

\* Every step keeps the types.  That an open source serves an identity is what
\* Adopt needs of the rest of the invariant.
LEMMA TypeStep == TypeOK /\ OpenServesIdentity /\ [Next]_vars => TypeOK'
<1> SUFFICES ASSUME TypeOK, OpenServesIdentity, [Next]_vars PROVE TypeOK'
  OBVIOUS
<1> USE ConstantsAssumption
<1>v. \A i : Touch(i) => age' \in [Identities -> -1..MaxAge]
  BY AgeType DEF TypeOK
<1>1. ASSUME NEW r \in Requests, Enter(r) PROVE TypeOK'
  BY <1>1 DEF TypeOK, Enter, cacheVars, handleVars, policyVars, sweepVars
<1>2. ASSUME NEW r \in Requests, Finish(r) PROVE TypeOK'
  <2>1. Pruned \in [Identities -> -1..MaxAge]
    BY AgeType DEF TypeOK
  <2>2. age' \in [Identities -> -1..MaxAge]
    BY <1>2, <2>1 DEF Finish, TypeOK
  <2> QED BY <1>2, <2>2 DEF TypeOK, Finish, cacheVars, handleVars
<1>3. ASSUME NEW r \in Requests, Adopt(r) PROVE TypeOK'
  <2> DEFINE k == awaiting[r].key
             h == awaiting[r].handle
             cur == <<k[1], "sde">>
  <2>1. awaiting[r] \in Waits
    BY <1>3 DEF Adopt, TypeOK
  <2>2. k \in Identities /\ h \in Handles
    BY <2>1 DEF Waits
  <2>3. exact[h] \in Identities
    BY <1>3, <2>2 DEF Adopt, TypeOK, OpenServesIdentity
  <2>4. exact[h][2] \in Builds /\ k[1] \in Targets /\ k[2] \in Builds
    BY <2>2, <2>3 DEF Identities
  <2>5. cur \in Targets \X Facets /\ current[cur] \in Seq(Builds)
    BY <2>4 DEF TypeOK, Facets
  <2>6. Renamed(k, exact[h][2]) \in Seq(Builds)
    BY <2>4, <2>5, RenameType DEF Renamed
  <2>7. current' \in [Targets \X Facets -> Seq(Builds)]
    BY <1>3, <2>4, <2>5, <2>6, MarkType DEF Adopt, TypeOK
  <2>8. held' \in [Requests -> SUBSET Handles] /\ awaiting' \in [Requests -> Waits \cup {None}]
    BY <1>3, <2>2 DEF Adopt, TypeOK
  <2>9. entry' \in [Identities -> Builds]
    BY <1>3, <2>2, <2>4 DEF Adopt, SetIdentity, TypeOK
  <2>10. age' \in [Identities -> -1..MaxAge]
    <3>1. \/ age' = age
          \/ Touch(<<k[1], exact[h][2]>>)
      BY <1>3 DEF Adopt, SetIdentity
    <3> QED BY <1>v, <3>1 DEF TypeOK
  <2> QED BY <1>3, <2>7, <2>8, <2>9, <2>10 DEF TypeOK, Adopt, handleVars, sweepVars
<1>4. ASSUME NEW r \in Requests, AdoptFails(r) PROVE TypeOK'
  BY <1>4 DEF TypeOK, AdoptFails, cacheVars, handleVars, policyVars, sweepVars
<1>5. ASSUME NEW r \in Requests, NEW k \in Exports, NEW latest \in BOOLEAN, JoinSource(r, k, latest)
      PROVE  TypeOK'
  <2>1. awaiting' \in [Requests -> Waits \cup {None}]
    BY <1>5 DEF TypeOK, JoinSource, Waits
  <2> QED BY <1>v, <1>5, <2>1 DEF TypeOK, JoinSource, cacheVars, handleVars, sweepVars
<1>6. ASSUME NEW r \in Requests, NEW k \in Exports, NEW latest \in BOOLEAN, StartSource(r, k, latest)
      PROVE  TypeOK'
  <2>1. PICK h \in Handles :
           /\ hstate' = [hstate EXCEPT ![h] = "opening"]
           /\ sources' = [sources EXCEPT ![k] = h]
           /\ awaiting' = [awaiting EXCEPT ![r] = [key |-> k, handle |-> h, latest |-> latest]]
    BY <1>6 DEF StartSource
  <2>2. awaiting' \in [Requests -> Waits \cup {None}]
    BY <2>1 DEF TypeOK, Waits
  <2> QED BY <1>v, <1>6, <2>1, <2>2 DEF TypeOK, StartSource, sweepVars
<1>7. ASSUME NEW r \in Requests, NEW i \in Identities, Compose(r, i) PROVE TypeOK'
  <2>1. held[r] \in SUBSET Handles /\ composers[i] \in SUBSET Handles
    BY DEF TypeOK
  <2>2. composers' \in [Identities -> SUBSET Handles]
    BY <1>7, <2>1 DEF TypeOK, Compose
  <2>3. held' \in [Requests -> SUBSET Handles]
    <3>1. held[r] \cup composers[i] \in SUBSET Handles
      BY <2>1
    <3> QED BY <1>7, <3>1 DEF TypeOK, Compose
  <2> QED BY <1>v, <1>7, <2>2, <2>3 DEF TypeOK, Compose, handleVars, sweepVars
<1>8. ASSUME NEW r \in Requests, NEW i \in Catalogs, NEW latest \in BOOLEAN, OpenResources(r, i, latest)
      PROVE  TypeOK'
  <2>1. i[1] \in Targets /\ i[2] \in Builds /\ i \in Identities
    BY DEF Identities
  <2>2. current' \in [Targets \X Facets -> Seq(Builds)]
    BY <1>8, <2>1, MarkType DEF OpenResources, TypeOK, Facets
  <2>3. resources' \in SUBSET Identities
    BY <1>8, <2>1 DEF OpenResources, TypeOK
  <2> QED BY <1>v, <1>8, <2>2, <2>3 DEF TypeOK, OpenResources, handlerVars, handleVars, sweepVars
<1>9. ASSUME NEW r \in Requests, NEW res \in Catalogs, NEW sde \in Exports, res[1] = sde[1],
             ResolveBuilds(r, res[1], res[2], sde[2])
      PROVE  TypeOK'
  <2>1. res[1] \in Targets /\ res[2] \in Builds /\ sde[2] \in Builds
    BY DEF Identities
  <2>2. ASSUME NEW f \in Facets, NEW b \in Builds,
               current' = [current EXCEPT ![<<res[1], f>>] = Mark(@, b)]
        PROVE  current' \in [Targets \X Facets -> Seq(Builds)]
    BY <2>1, <2>2, MarkType DEF TypeOK
  <2>3. current' \in [Targets \X Facets -> Seq(Builds)]
    BY <1>9, <2>1, <2>2 DEF ResolveBuilds, Facets
  <2> QED BY <1>9, <2>3 DEF TypeOK, ResolveBuilds, handlerVars, cacheVars, handleVars, sweepVars
<1>10. ASSUME NEW h \in Handles, OpenSucceeds(h) PROVE TypeOK'
  <2>1. exact' \in [Handles -> Identities \cup {None}]
    BY <1>10 DEF OpenSucceeds, TypeOK, Identities
  <2> QED BY <1>10, <2>1 DEF TypeOK, OpenSucceeds, handlerVars, cacheVars, policyVars, sweepVars
<1>11. ASSUME NEW h \in Handles, OpenFails(h) PROVE TypeOK'
  <2>1. entry' \in [Identities -> Builds]
    BY <1>11 DEF OpenFails, TypeOK, Identities
  <2> QED BY <1>11, <2>1 DEF TypeOK, OpenFails, handlerVars, policyVars, sweepVars
<1>12. ASSUME NEW h \in Handles, CloseOne(h) PROVE TypeOK'
  BY <1>12 DEF TypeOK, CloseOne, handlerVars, cacheVars, policyVars
<1>13. CASE TimerSweep
  BY <1>13 DEF TypeOK, TimerSweep, handlerVars, cacheVars, handleVars, policyVars
<1>14. CASE AwaitDrain
  BY <1>14 DEF TypeOK, AwaitDrain, handlerVars, cacheVars, handleVars, policyVars
<1>15. CASE StartRetiring
  <2>1. Retire(Expired)
    BY <1>15 DEF StartRetiring
  <2> QED BY <1>15, <2>1, RetireType DEF TypeOK, StartRetiring, handlerVars, handleVars
<1>16. CASE RetireOldest
  <2>1. PICK U : Retire(U)
    BY <1>16 DEF RetireOldest
  <2> QED BY <1>16, <2>1, RetireType DEF TypeOK, RetireOldest, handlerVars, handleVars
<1>17. CASE FinishSweep
  <2>1. current' \in [Targets \X Facets -> Seq(Builds)]
    <3>1. current \in [Targets \X Facets -> Seq(Builds)]
      BY DEF TypeOK
    <3>2. current' = [f \in Targets \X Facets |-> <<>>] \/ current' = current
      BY <1>17 DEF FinishSweep, CloseResumes
    <3>3. [f \in Targets \X Facets |-> <<>>] \in [Targets \X Facets -> Seq(Builds)]
      OBVIOUS
    <3> HIDE DEF Facets
    <3> QED BY ONLY <3>1, <3>2, <3>3
  <2>2. closePc' \in ClosePhases
    BY <1>17 DEF FinishSweep, CloseResumes, TypeOK, ClosePhases
  <2> QED BY <1>17, <2>1, <2>2 DEF TypeOK, FinishSweep, cacheVars, handleVars
<1>18. CASE CloseStart
  BY <1>18 DEF TypeOK, ClosePhases, CloseStart, handlerVars, cacheVars, handleVars, policyVars
<1>19. CASE CloseSweep
  BY <1>19 DEF TypeOK, ClosePhases, CloseSweep, handlerVars, cacheVars, handleVars, policyVars
<1>20. CASE Tick
  <2>1. age' \in [Identities -> -1..MaxAge]
    BY <1>20 DEF Tick, TypeOK
  <2> QED BY <1>20, <2>1 DEF TypeOK, Tick, handlerVars, cacheVars, handleVars, sweepVars
<1>21. CASE UNCHANGED vars
  BY <1>21 DEF TypeOK, vars, handlerVars, cacheVars, handleVars, policyVars, sweepVars
<1> QED
  BY <1>1, <1>2, <1>3, <1>4, <1>5, <1>6, <1>7, <1>8, <1>9, <1>10, <1>11, <1>12, <1>13, <1>14,
     <1>15, <1>16, <1>17, <1>18, <1>19, <1>20, <1>21 DEF Next, HandlerCall

-------------------------------------------------------------------------------
(* The safety properties *)

\* While no handler runs, nothing is lent, awaited or being opened.
LEMMA QuietMeansUnused ==
    ASSUME IInv, Running = {}
    PROVE  /\ \A r \in Requests : held[r] = {} /\ awaiting[r] = None
           /\ \A h \in Handles : hstate[h] # "opening"
           /\ \A k \in Identities : sources[k] # None =>
                 /\ sources[k] \in Handles
                 /\ hstate[sources[k]] = "open" /\ sources[k] \notin closing
                 /\ SourceId(k) = exact[sources[k]]
<1>1. \A r \in Requests : held[r] = {} /\ awaiting[r] = None
  BY DEF IInv, Safety, OnlyHandlersHold, Running
<1>2. \A h \in Handles : hstate[h] # "opening"
  BY <1>1 DEF IInv, Safety, OpeningsAwaited
<1>3. \A k \in Identities : sources[k] # None =>
         /\ sources[k] \in Handles
         /\ hstate[sources[k]] = "open" /\ sources[k] \notin closing
  BY <1>2 DEF TypeOK, IInv, Safety, NoDanglingReference
<1>4. \A k \in Identities : sources[k] # None => SourceId(k) = exact[sources[k]]
  BY <1>1, <1>3 DEF IInv, Safety, EntryNamesServedBuild
<1> QED BY <1>1, <1>2, <1>3, <1>4

\* The heart of the argument: a retirement that starts while no handler runs
\* and nothing else is closing keeps every part of the invariant.  It closes
\* only open sources that no entry and no composer refers to any more.
LEMMA RetireKeeps ==
    ASSUME IInv, Running = {}, closing = {}, maint' = "retiring",
           NEW S, Retire(S), UNCHANGED <<handlerVars, handleVars>>
    PROVE  Safety'
<1> DEFINE gone == {k \in Cached : SourceId(k) \in S}
<1>1. /\ \A r \in Requests : held[r] = {} /\ awaiting[r] = None
      /\ \A h \in Handles : hstate[h] # "opening"
      /\ \A k \in Identities : sources[k] # None =>
            /\ sources[k] \in Handles
            /\ hstate[sources[k]] = "open" /\ sources[k] \notin closing
            /\ SourceId(k) = exact[sources[k]]
  BY QuietMeansUnused
<1>2. /\ pc' = pc /\ held' = held /\ awaiting' = awaiting /\ hstate' = hstate /\ exact' = exact
      /\ Running' = {}
  BY DEF handlerVars, handleVars, Running
<1>3. /\ sources' = [k \in Identities |-> IF k \in gone THEN None ELSE sources[k]]
      /\ composers' = [i \in Identities |-> IF i \in S \/ gone # {} THEN {} ELSE composers[i]]
      /\ closing' = {sources[k] : k \in gone}
      /\ entry' = [k \in Identities |-> IF k \in gone THEN k[2] ELSE entry[k]]
  BY DEF Retire
<1>4. \A k \in gone : k \in Identities /\ sources[k] # None /\ SourceId(k) \in S
  BY DEF Cached
<1>5. \A k \in Identities : sources'[k] # None =>
         sources'[k] = sources[k] /\ k \notin gone /\ entry'[k] = entry[k]
  BY <1>3
<1>6. \A h \in closing' : h \in Handles /\ hstate[h] = "open"
  BY <1>1, <1>3, <1>4
<1>7. BarrierExcludesHandlers'
  BY <1>2, <1>6 DEF BarrierExcludesHandlers
<1>8. NoUseAfterClose' /\ OnlyHandlersHold' /\ OpeningsAwaited' /\ AwaitedIsCached'
  BY <1>1, <1>2 DEF NoUseAfterClose, OnlyHandlersHold, OpeningsAwaited, AwaitedIsCached
<1>9. OneEntryPerSource'
  BY <1>5 DEF IInv, Safety, OneEntryPerSource
<1>10. NoDanglingReference'
  <2>1. \A k \in Identities : sources'[k] # None => sources'[k] \notin closing'
    BY <1>3, <1>4, <1>5 DEF IInv, Safety, OneEntryPerSource
  <2>2. \A k \in Identities : sources'[k] # None => hstate'[sources'[k]] \in {"opening", "open"}
    BY <1>1, <1>2, <1>5
  <2>3. \A i \in Identities : composers'[i] # {} =>
           composers'[i] = composers[i] /\ closing' = {}
    BY <1>3
  <2>4. \A i \in Identities : \A h \in composers'[i] : hstate'[h] = "open" /\ h \notin closing'
    BY <1>2, <2>3 DEF IInv, Safety, NoDanglingReference
  <2> QED BY <2>1, <2>2, <2>4 DEF NoDanglingReference
<1>11. NoOrphanSource'
  <2> SUFFICES ASSUME NEW h \in Handles, hstate[h] = "open",
                      ~ \E k \in Identities : sources'[k] = h
               PROVE  h \in closing'
    BY <1>2 DEF NoOrphanSource
  <2>1. PICK k \in Identities : sources[k] = h
    BY DEF IInv, Safety, NoOrphanSource
  <2>2. k \in gone
    BY <1>3, <2>1
  <2> QED BY <1>3, <2>1, <2>2
<1>12. OpenServesIdentity'
  BY <1>2 DEF IInv, Safety, OpenServesIdentity
<1>13. \A k \in Identities : sources'[k] # None => SourceId(k)' = exact'[sources'[k]] /\ SourceId(k)' \notin S
  <2> SUFFICES ASSUME NEW k \in Identities, sources'[k] # None
               PROVE  SourceId(k)' = exact'[sources'[k]] /\ SourceId(k)' \notin S
    OBVIOUS
  <2>1. SourceId(k)' = SourceId(k)
    BY <1>5 DEF SourceId
  <2>2. SourceId(k) \notin S
    BY <1>5 DEF Cached
  <2> QED BY <1>1, <1>2, <1>5, <2>1, <2>2
<1>14. EntryNamesServedBuild'
  BY <1>13 DEF EntryNamesServedBuild
<1>15. AliasesRetireTogether'
  <2> SUFFICES ASSUME NEW h \in closing', NEW k \in Cached'
               PROVE  exact'[sources'[k]] # exact'[h]
    BY DEF AliasesRetireTogether
  <2>1. exact'[sources'[k]] \notin S
    BY <1>13 DEF Cached
  <2>2. exact'[h] \in S
    BY <1>1, <1>2, <1>3, <1>4
  <2> QED BY <2>1, <2>2
<1> QED BY <1>7, <1>8, <1>9, <1>10, <1>11, <1>12, <1>14, <1>15 DEF Safety

\* A step that leaves entries, sources and what handlers use alone has only the
\* barrier, and what handlers that are over may hold, to answer for.
LEMMA UntouchedKeeps ==
    ASSUME IInv, BarrierExcludesHandlers', OnlyHandlersHold',
           UNCHANGED <<held, awaiting, sources, entry, composers, handleVars, closing>>
    PROVE  Safety'
<1> USE DEF IInv, Safety, handleVars
<1>1. NoUseAfterClose' /\ NoOrphanSource'
  BY DEF NoUseAfterClose, NoOrphanSource
<1>2. NoDanglingReference' /\ OneEntryPerSource'
  BY DEF NoDanglingReference, OneEntryPerSource
<1>3. OpeningsAwaited' /\ AwaitedIsCached' /\ OpenServesIdentity'
  BY DEF OpeningsAwaited, AwaitedIsCached, OpenServesIdentity
<1>4. EntryNamesServedBuild' /\ AliasesRetireTogether'
  BY DEF EntryNamesServedBuild, AliasesRetireTogether, SourceId, Cached
<1> QED BY <1>1, <1>2, <1>3, <1>4

\* While some handler runs, nothing is closing and no retirement is under way.
LEMMA RunningMeansNoClosing ==
    ASSUME IInv, NEW r \in Requests, pc[r] = "running"
    PROVE  closing = {} /\ maint \notin {"drained", "retiring"} /\ r \in Running
<1>1. r \in Running
  BY DEF Running
<1> QED BY <1>1 DEF IInv, Safety, BarrierExcludesHandlers

\* A call of a running handler that changes neither pc nor the sweep keeps the barrier.
LEMMA CallKeepsBarrier ==
    ASSUME IInv, UNCHANGED <<pc, maint, closing>>,
           \A h \in closing : hstate'[h] = hstate[h]
    PROVE  BarrierExcludesHandlers'
<1>1. Running' = Running
  BY DEF Running
<1> QED BY <1>1 DEF IInv, Safety, BarrierExcludesHandlers

\* Every step keeps the safety part of the invariant.
LEMMA SafetyStep == IInv /\ TypeOK' /\ [Next]_vars => Safety'
<1> SUFFICES ASSUME IInv, TypeOK', [Next]_vars PROVE Safety'
  OBVIOUS
<1> USE ConstantsAssumption
<1>a. /\ TypeOK /\ BarrierExcludesHandlers /\ NoUseAfterClose /\ NoDanglingReference
      /\ NoOrphanSource /\ OneEntryPerSource /\ OnlyHandlersHold /\ OpeningsAwaited
      /\ AwaitedIsCached /\ OpenServesIdentity /\ EntryNamesServedBuild /\ AliasesRetireTogether
  BY DEF IInv, Safety
<1>b. /\ None \notin Handles
      /\ \A l \in Identities : sources[l] # None => sources[l] \in Handles
      /\ \A l \in Identities : composers[l] \in SUBSET Handles
      /\ \A q \in Requests : held[q] \in SUBSET Handles
      /\ \A q \in Requests : awaiting[q] # None =>
            awaiting[q].handle \in Handles /\ awaiting[q].key \in Identities
  BY <1>a DEF TypeOK, Waits
<1>1. ASSUME NEW r \in Requests, Enter(r) PROVE Safety'
  <2>1. /\ pc' \in [Requests -> {"idle", "blocked", "running", "refused"}]
        /\ \A q \in Requests : pc'[q] = "running" =>
              pc[q] = "running" \/ maint = "none" \/ Running # {}
        /\ \A q \in Requests : pc[q] = "running" => pc'[q] = "running"
    BY <1>1, <1>a DEF Enter, TypeOK
  <2>2. Running \subseteq Running' /\ (Running = {} /\ maint # "none" => Running' = {})
    BY <2>1 DEF Running
  <2>3. BarrierExcludesHandlers'
    BY <1>1, <1>a, <2>2 DEF Enter, BarrierExcludesHandlers, sweepVars, handleVars
  <2>4. OnlyHandlersHold'
    BY <1>1, <1>a, <2>1 DEF Enter, OnlyHandlersHold
  <2> QED BY <1>1, <2>3, <2>4, UntouchedKeeps DEF Enter, cacheVars, handleVars, sweepVars
<1>2. ASSUME NEW r \in Requests, Finish(r) PROVE Safety'
  <2>1. closing = {} /\ maint \notin {"drained", "retiring"} /\ r \in Running
    BY <1>2, RunningMeansNoClosing DEF Finish
  <2>2. Running' = Running \ {r}
    BY <1>2, <1>a DEF Finish, Running, TypeOK
  <2>3. maint' \in {"none", "queued"} \/ (maint' = "drained" /\ Running = {r})
           \/ (maint' = "draining" /\ Running # {r})
    BY <1>2, <1>a, <2>1 DEF Finish, TypeOK
  <2>4. BarrierExcludesHandlers'
    BY <1>2, <2>1, <2>2, <2>3 DEF BarrierExcludesHandlers, Finish
  <2>5. \A q \in Requests : held'[q] = (IF q = r THEN {} ELSE held[q])
    BY <1>2, <1>a DEF Finish, TypeOK
  <2>6. OnlyHandlersHold'
    BY <1>2, <1>a, <2>5 DEF Finish, OnlyHandlersHold, TypeOK
  <2>7. NoUseAfterClose'
    BY <1>2, <1>a, <2>5 DEF Finish, NoUseAfterClose, handleVars
  <2>8. UNCHANGED <<awaiting, sources, entry, composers, hstate, exact, closing>>
    BY <1>2 DEF Finish, cacheVars, handleVars
  <2>9. NoDanglingReference' /\ NoOrphanSource' /\ OneEntryPerSource' /\ OpeningsAwaited'
        /\ AwaitedIsCached' /\ OpenServesIdentity'
    BY <1>a, <2>8 DEF NoDanglingReference, NoOrphanSource, OneEntryPerSource, OpeningsAwaited,
                      AwaitedIsCached, OpenServesIdentity
  <2>10. EntryNamesServedBuild' /\ AliasesRetireTogether'
    BY <1>a, <2>8 DEF EntryNamesServedBuild, AliasesRetireTogether, SourceId, Cached
  <2> QED BY <2>4, <2>6, <2>7, <2>9, <2>10 DEF Safety
<1>3. ASSUME NEW r \in Requests, Adopt(r) PROVE Safety'
  <2> DEFINE k == awaiting[r].key
             h == awaiting[r].handle
  <2>1. awaiting[r] \in Waits /\ k \in Identities /\ h \in Handles /\ hstate[h] = "open"
    BY <1>3, <1>a DEF Adopt, TypeOK, Waits
  <2>2. sources[k] = h /\ sources[k] # None
    BY <1>3, <1>a, <2>1 DEF Adopt, AwaitedIsCached
  <2>3. closing = {}
    BY <1>3, RunningMeansNoClosing DEF Adopt
  <2>4. UNCHANGED <<pc, sources, composers, hstate, exact, maint, closing>>
    BY <1>3 DEF Adopt, handleVars, sweepVars
  <2>5. /\ held' = [held EXCEPT ![r] = @ \cup {h}]
        /\ awaiting' = [awaiting EXCEPT ![r] = None]
        /\ entry' = [entry EXCEPT ![k] = exact[h][2]]
    BY <1>3, <2>2 DEF Adopt, SetIdentity
  <2>6. BarrierExcludesHandlers'
    BY <2>4, CallKeepsBarrier
  <2>7. NoUseAfterClose' /\ OnlyHandlersHold'
    BY <1>3, <1>a, <2>1, <2>3, <2>4, <2>5 DEF TypeOK, NoUseAfterClose, OnlyHandlersHold, Adopt
  <2>8. NoDanglingReference' /\ NoOrphanSource' /\ OneEntryPerSource' /\ OpenServesIdentity'
    BY <1>a, <2>4 DEF NoDanglingReference, NoOrphanSource, OneEntryPerSource, OpenServesIdentity
  <2>9. OpeningsAwaited' /\ AwaitedIsCached'
    BY <1>a, <2>1, <2>4, <2>5 DEF TypeOK, OpeningsAwaited, AwaitedIsCached
  <2>10. EntryNamesServedBuild'
    <3> SUFFICES ASSUME NEW l \in Identities, sources[l] # None, hstate[sources[l]] = "open"
                 PROVE  \/ <<l[1], entry'[l]>> = exact[sources[l]]
                        \/ /\ l[1] = exact[sources[l]][1]
                           /\ \E q \in Requests : /\ awaiting'[q] # None
                                 /\ awaiting'[q].key = l /\ awaiting'[q].handle = sources[l]
      BY <2>4 DEF EntryNamesServedBuild, SourceId
    <3>1. CASE l = k
      <4>1. exact[h] \in Identities
        BY <1>a, <2>1 DEF OpenServesIdentity, TypeOK
      <4>2. k[1] = exact[h][1]
        <5>1. SourceId(k) = exact[h] \/ k[1] = exact[h][1]
          BY <1>a, <2>1, <2>2 DEF EntryNamesServedBuild
        <5> QED BY <5>1 DEF SourceId
      <4>3. entry'[k] = exact[h][2]
        BY <1>a, <2>1, <2>5 DEF TypeOK
      <4> QED BY <2>2, <3>1, <4>1, <4>2, <4>3 DEF Identities
    <3>2. CASE l # k
      <4>1. entry'[l] = entry[l]
        BY <2>5, <3>2, <1>a DEF TypeOK
      <4>2. CASE SourceId(l) = exact[sources[l]]
        BY <4>1, <4>2 DEF SourceId
      <4>3. CASE SourceId(l) # exact[sources[l]]
        <5>1. PICK q \in Requests : /\ awaiting[q] # None
                                    /\ awaiting[q].key = l /\ awaiting[q].handle = sources[l]
          BY <1>a, <4>3 DEF EntryNamesServedBuild
        <5>2. q # r /\ l[1] = exact[sources[l]][1]
          BY <1>a, <3>2, <4>3, <5>1 DEF EntryNamesServedBuild
        <5> QED BY <1>a, <2>5, <5>1, <5>2 DEF TypeOK
      <4> QED BY <4>2, <4>3
    <3> QED BY <3>1, <3>2
  <2>11. AliasesRetireTogether'
    BY <2>3, <2>4 DEF AliasesRetireTogether
  <2> QED BY <2>6, <2>7, <2>8, <2>9, <2>10, <2>11 DEF Safety
<1>4. ASSUME NEW r \in Requests, AdoptFails(r) PROVE Safety'
  <2>1. awaiting' = [awaiting EXCEPT ![r] = None] /\ awaiting[r] # None /\ pc[r] = "running"
        /\ hstate[awaiting[r].handle] = "failed"
    BY <1>4 DEF AdoptFails
  <2>2. UNCHANGED <<pc, held, sources, entry, composers, hstate, exact, maint, closing>>
    BY <1>4 DEF AdoptFails, cacheVars, handleVars, sweepVars
  <2>3. BarrierExcludesHandlers'
    BY <2>2, CallKeepsBarrier
  <2>4. NoUseAfterClose' /\ OnlyHandlersHold' /\ NoDanglingReference' /\ NoOrphanSource'
        /\ OneEntryPerSource' /\ OpenServesIdentity'
    BY <1>a, <2>1, <2>2 DEF TypeOK, NoUseAfterClose, OnlyHandlersHold, NoDanglingReference,
                            NoOrphanSource, OneEntryPerSource, OpenServesIdentity
  <2>5. OpeningsAwaited' /\ AwaitedIsCached'
    BY <1>a, <2>1, <2>2 DEF TypeOK, OpeningsAwaited, AwaitedIsCached
  <2>6. EntryNamesServedBuild' /\ AliasesRetireTogether'
    BY <1>a, <2>1, <2>2 DEF TypeOK, EntryNamesServedBuild, AliasesRetireTogether, SourceId, Cached
  <2> QED BY <2>3, <2>4, <2>5, <2>6 DEF Safety
<1>5. ASSUME NEW r \in Requests, NEW k \in Exports, NEW latest \in BOOLEAN, JoinSource(r, k, latest)
      PROVE  Safety'
  <2>1. /\ awaiting' = [awaiting EXCEPT ![r] = [key |-> k, handle |-> sources[k], latest |-> latest]]
        /\ sources[k] # None /\ pc[r] = "running" /\ awaiting[r] = None /\ k \in Identities
    BY <1>5 DEF JoinSource, CanCall
  <2>2. UNCHANGED <<pc, held, sources, entry, composers, hstate, exact, maint, closing>>
    BY <1>5 DEF JoinSource, cacheVars, handleVars, sweepVars
  <2>3. BarrierExcludesHandlers'
    BY <2>2, CallKeepsBarrier
  <2>4. NoUseAfterClose' /\ OnlyHandlersHold' /\ NoDanglingReference' /\ NoOrphanSource'
        /\ OneEntryPerSource' /\ OpenServesIdentity'
    BY <1>a, <2>1, <2>2 DEF TypeOK, NoUseAfterClose, OnlyHandlersHold, NoDanglingReference,
                            NoOrphanSource, OneEntryPerSource, OpenServesIdentity
  <2>5. \A q \in Requests : awaiting[q] # None => awaiting'[q] = awaiting[q]
    BY <1>a, <2>1 DEF TypeOK
  <2>6. OpeningsAwaited'
    BY <1>a, <2>2, <2>5 DEF OpeningsAwaited
  <2>7. AwaitedIsCached'
    BY <1>a, <2>1, <2>2 DEF TypeOK, AwaitedIsCached
  <2>8. EntryNamesServedBuild' /\ AliasesRetireTogether'
    BY <1>a, <2>2, <2>5 DEF EntryNamesServedBuild, AliasesRetireTogether, SourceId, Cached
  <2> QED BY <2>3, <2>4, <2>6, <2>7, <2>8 DEF Safety
<1>6. ASSUME NEW r \in Requests, NEW k \in Exports, NEW latest \in BOOLEAN, StartSource(r, k, latest)
      PROVE  Safety'
  <2>1. PICK h \in Handles :
           /\ Free(h)
           /\ hstate' = [hstate EXCEPT ![h] = "opening"]
           /\ sources' = [sources EXCEPT ![k] = h]
           /\ awaiting' = [awaiting EXCEPT ![r] = [key |-> k, handle |-> h, latest |-> latest]]
    BY <1>6 DEF StartSource
  <2>2. pc[r] = "running" /\ awaiting[r] = None /\ sources[k] = None /\ k \in Identities
    BY <1>6 DEF StartSource, CanCall
  <2>3. UNCHANGED <<pc, held, entry, composers, exact, maint, closing>>
    BY <1>6 DEF StartSource, sweepVars
  <2>4. /\ hstate[h] \in {"closed", "failed"} /\ h \notin closing
        /\ \A q \in Requests : h \notin held[q]
        /\ \A q \in Requests : awaiting[q] # None => awaiting[q].handle # h
        /\ \A l \in Identities : sources[l] # h /\ h \notin composers[l]
    BY <2>1 DEF Free, Referenced
  <2>5. /\ \A g \in Handles : g # h => hstate'[g] = hstate[g]
        /\ hstate'[h] = "opening"
        /\ \A l \in Identities : sources'[l] = IF l = k THEN h ELSE sources[l]
        /\ \A q \in Requests : awaiting'[q] = IF q = r THEN [key |-> k, handle |-> h, latest |-> latest]
                                                       ELSE awaiting[q]
        /\ h # None
    BY <1>a, <2>1, <2>2 DEF TypeOK
  <2>6. BarrierExcludesHandlers'
    BY <1>a, <2>3, <2>4, <2>5, CallKeepsBarrier DEF TypeOK
  <2>7. NoUseAfterClose' /\ OnlyHandlersHold'
    BY <1>a, <2>2, <2>3, <2>4, <2>5 DEF TypeOK, NoUseAfterClose, OnlyHandlersHold
  <2>8. NoDanglingReference'
    <3>1. \A l \in Identities : sources'[l] # None =>
             hstate'[sources'[l]] \in {"opening", "open"} /\ sources'[l] \notin closing
      BY <1>a, <1>b, <2>4, <2>5 DEF NoDanglingReference
    <3>2. \A l \in Identities : \A g \in composers[l] : hstate'[g] = "open" /\ g \notin closing
      BY <1>a, <1>b, <2>4, <2>5 DEF NoDanglingReference
    <3> QED BY <2>3, <3>1, <3>2 DEF NoDanglingReference
  <2>9. NoOrphanSource'
    BY <1>a, <2>2, <2>3, <2>4, <2>5 DEF NoOrphanSource
  <2>14. OneEntryPerSource' /\ OpenServesIdentity'
    BY <1>a, <2>2, <2>3, <2>4, <2>5 DEF OneEntryPerSource, OpenServesIdentity
  <2>10. OpeningsAwaited'
    <3> SUFFICES ASSUME NEW g \in Handles, hstate'[g] = "opening"
                 PROVE  \E q \in Requests : awaiting'[q] # None /\ awaiting'[q].handle = g
      BY DEF OpeningsAwaited
    <3>1. CASE g = h
      <4>1. awaiting'[r] \in Waits /\ awaiting'[r].handle = h
        BY <2>2, <2>5 DEF Waits
      <4> QED BY <3>1, <4>1
    <3>2. CASE g # h
      <4>1. PICK q \in Requests : awaiting[q] # None /\ awaiting[q].handle = g
        BY <1>a, <2>5, <3>2 DEF OpeningsAwaited
      <4>2. q # r
        BY <2>2, <4>1
      <4> QED BY <2>5, <4>1, <4>2
    <3> QED BY <3>1, <3>2
  <2>11. AwaitedIsCached'
    <3> SUFFICES ASSUME NEW q \in Requests, awaiting'[q] # None,
                        hstate'[awaiting'[q].handle] \in {"opening", "open"}
                 PROVE  sources'[awaiting'[q].key] = awaiting'[q].handle
      BY DEF AwaitedIsCached
    <3>1. CASE q = r
      BY <2>2, <2>5, <3>1
    <3>2. CASE q # r
      <4>1. awaiting'[q] = awaiting[q] /\ awaiting[q] # None /\ awaiting[q] \in Waits
        BY <1>a, <2>5, <3>2 DEF TypeOK
      <4>2. awaiting[q].handle # h /\ awaiting[q].handle \in Handles /\ awaiting[q].key \in Identities
        BY <2>4, <4>1 DEF Waits
      <4>3. sources[awaiting[q].key] = awaiting[q].handle
        BY <1>a, <2>5, <4>1, <4>2 DEF AwaitedIsCached
      <4>4. awaiting[q].key # k
        BY <2>2, <4>2, <4>3
      <4> QED BY <2>5, <4>1, <4>2, <4>3, <4>4
    <3> QED BY <3>1, <3>2
  <2>12. EntryNamesServedBuild'
    <3> SUFFICES ASSUME NEW l \in Identities, sources'[l] # None, hstate'[sources'[l]] = "open"
                 PROVE  \/ SourceId(l)' = exact'[sources'[l]]
                        \/ /\ l[1] = exact'[sources'[l]][1]
                           /\ \E q \in Requests : /\ awaiting'[q] # None
                                 /\ awaiting'[q].key = l /\ awaiting'[q].handle = sources'[l]
      BY DEF EntryNamesServedBuild
    <3>1. l # k /\ sources'[l] = sources[l] /\ sources[l] # h /\ hstate[sources[l]] = "open"
      BY <1>a, <2>4, <2>5 DEF TypeOK
    <3>2. SourceId(l)' = SourceId(l) /\ exact' = exact
      BY <2>3 DEF SourceId
    <3>3. \A q \in Requests : awaiting[q] # None => awaiting'[q] = awaiting[q]
      BY <2>2, <2>5
    <3> QED BY <1>a, <3>1, <3>2, <3>3 DEF EntryNamesServedBuild
  <2>13. AliasesRetireTogether'
    <3>1. closing' = {}
      BY <2>2, <2>3, RunningMeansNoClosing
    <3> QED BY <3>1 DEF AliasesRetireTogether
  <2> QED BY <2>6, <2>7, <2>8, <2>9, <2>14, <2>10, <2>11, <2>12, <2>13 DEF Safety
<1>7. ASSUME NEW r \in Requests, NEW i \in Identities, Compose(r, i) PROVE Safety'
  <2>1. pc[r] = "running" /\ awaiting[r] = None
    BY <1>7 DEF Compose, CanCall
  <2>2. UNCHANGED <<pc, awaiting, sources, entry, hstate, exact, maint, closing>>
    BY <1>7 DEF Compose, handleVars, sweepVars
  <2>3. /\ \A q \in Requests : \A h \in held'[q] :
              h \in held[q] \/ (q = r /\ h \in composers[i])
        /\ \A j \in Identities : \A h \in composers'[j] :
              h \in composers[j] \/ h \in held[r]
    <3>1. \/ composers' = [composers EXCEPT ![i] = held[r]] /\ held' = held
          \/ composers' = composers /\ held' = [held EXCEPT ![r] = held[r] \cup composers[i]]
      BY <1>7 DEF Compose
    <3>2. /\ held \in [Requests -> SUBSET Handles]
          /\ composers \in [Identities -> SUBSET Handles]
      BY <1>a DEF TypeOK
    <3> QED BY <3>1, <3>2
  <2>4. BarrierExcludesHandlers'
    BY <2>2, CallKeepsBarrier
  <2>5. NoUseAfterClose' /\ NoDanglingReference'
    BY <1>a, <2>2, <2>3 DEF NoUseAfterClose, NoDanglingReference
  <2>6. OnlyHandlersHold'
    BY <1>7, <1>a, <2>1, <2>2 DEF TypeOK, OnlyHandlersHold, Compose
  <2>7. NoOrphanSource' /\ OneEntryPerSource' /\ OpenServesIdentity' /\ OpeningsAwaited'
        /\ AwaitedIsCached'
    BY <1>a, <2>2 DEF NoOrphanSource, OneEntryPerSource, OpenServesIdentity, OpeningsAwaited,
                      AwaitedIsCached
  <2>8. EntryNamesServedBuild' /\ AliasesRetireTogether'
    BY <1>a, <2>2 DEF EntryNamesServedBuild, AliasesRetireTogether, SourceId, Cached
  <2> QED BY <2>4, <2>5, <2>6, <2>7, <2>8 DEF Safety
<1>8. ASSUME NEW r \in Requests, NEW i \in Catalogs, NEW latest \in BOOLEAN, OpenResources(r, i, latest)
      PROVE  Safety'
  <2>1. BarrierExcludesHandlers'
    BY <1>8, CallKeepsBarrier DEF OpenResources, handlerVars, handleVars, sweepVars
  <2>2. OnlyHandlersHold'
    BY <1>8, <1>a DEF OpenResources, handlerVars, OnlyHandlersHold
  <2> QED BY <1>8, <2>1, <2>2, UntouchedKeeps DEF OpenResources, handlerVars, handleVars, sweepVars
<1>9. ASSUME NEW r \in Requests, NEW res \in Catalogs, NEW sde \in Exports,
             ResolveBuilds(r, res[1], res[2], sde[2])
      PROVE  Safety'
  <2>1. BarrierExcludesHandlers'
    BY <1>9, CallKeepsBarrier DEF ResolveBuilds, handlerVars, handleVars, sweepVars
  <2>2. OnlyHandlersHold'
    BY <1>9, <1>a DEF ResolveBuilds, handlerVars, OnlyHandlersHold
  <2> QED BY <1>9, <2>1, <2>2, UntouchedKeeps
          DEF ResolveBuilds, handlerVars, cacheVars, handleVars, sweepVars
<1>10. ASSUME NEW h \in Handles, OpenSucceeds(h) PROVE Safety'
  <2>1. PICK k \in Identities, b \in Builds :
           sources[k] = h /\ exact' = [exact EXCEPT ![h] = <<k[1], b>>]
    BY <1>10 DEF OpenSucceeds
  <2>2. UNCHANGED <<pc, held, awaiting, sources, entry, composers, maint, closing>>
    BY <1>10 DEF OpenSucceeds, handlerVars, cacheVars, sweepVars
  <2>3. /\ hstate[h] = "opening" /\ hstate'[h] = "open" /\ h # None
        /\ exact'[h] = <<k[1], b>> /\ <<k[1], b>> \in Identities
        /\ \A g \in Handles : g # h => hstate'[g] = hstate[g] /\ exact'[g] = exact[g]
    BY <1>10, <1>a, <2>1 DEF OpenSucceeds, TypeOK, Identities
  <2>4. h \notin closing /\ \A g \in closing : hstate'[g] = hstate[g]
    BY <1>a, <2>3 DEF BarrierExcludesHandlers, TypeOK
  <2>5. BarrierExcludesHandlers'
    BY <2>2, <2>4, CallKeepsBarrier
  <2>6. OnlyHandlersHold' /\ NoUseAfterClose'
    BY <1>a, <1>b, <2>2, <2>3 DEF NoUseAfterClose, OnlyHandlersHold
  <2>11. NoDanglingReference'
    BY <1>a, <1>b, <2>2, <2>3 DEF NoDanglingReference
  <2>7. NoOrphanSource'
    BY <1>a, <2>1, <2>2, <2>3 DEF NoOrphanSource
  <2>12. OneEntryPerSource' /\ OpenServesIdentity'
    <3>1. exact'[h] # None
      BY <2>3
    <3> QED BY <1>a, <2>2, <2>3, <3>1 DEF OneEntryPerSource, OpenServesIdentity
  <2>8. OpeningsAwaited' /\ AwaitedIsCached'
    <3>1. \A q \in Requests : awaiting[q] # None => awaiting[q].handle \in Handles
      BY <1>a DEF TypeOK, Waits
    <3> QED BY <1>a, <2>2, <2>3, <3>1 DEF OpeningsAwaited, AwaitedIsCached
  <2>9. EntryNamesServedBuild'
    <3> SUFFICES ASSUME NEW l \in Identities, sources[l] # None, hstate'[sources[l]] = "open"
                 PROVE  \/ SourceId(l) = exact'[sources[l]]
                        \/ /\ l[1] = exact'[sources[l]][1]
                           /\ \E q \in Requests : /\ awaiting[q] # None
                                 /\ awaiting[q].key = l /\ awaiting[q].handle = sources[l]
      BY <2>2 DEF EntryNamesServedBuild, SourceId
    <3>1. CASE l = k
      <4>1. PICK q \in Requests : awaiting[q] # None /\ awaiting[q].handle = h
        BY <1>a, <2>3 DEF OpeningsAwaited
      <4>2. sources[awaiting[q].key] = h /\ awaiting[q].key \in Identities
        BY <1>a, <1>b, <2>3, <4>1 DEF AwaitedIsCached
      <4>3. awaiting[q].key = k
        BY <1>a, <2>1, <2>3, <4>2 DEF OneEntryPerSource
      <4>4. exact'[h][1] = k[1]
        BY <2>3
      <4> QED BY <2>1, <3>1, <4>1, <4>3, <4>4
    <3>2. CASE l # k
      <4>1. sources[l] # h /\ sources[l] \in Handles
        BY <1>a, <2>1, <2>3, <3>2 DEF OneEntryPerSource, TypeOK
      <4> QED BY <1>a, <2>3, <4>1 DEF EntryNamesServedBuild
    <3> QED BY <3>1, <3>2
  <2>10. AliasesRetireTogether'
    <3>1. PICK q \in Requests : awaiting[q] # None
      BY <1>a, <2>3 DEF OpeningsAwaited
    <3>2. closing' = {}
      BY <1>a, <2>2, <3>1, RunningMeansNoClosing DEF OnlyHandlersHold
    <3> QED BY <3>2 DEF AliasesRetireTogether
  <2> QED BY <2>5, <2>6, <2>7, <2>8, <2>9, <2>10, <2>11, <2>12 DEF Safety
<1>11. ASSUME NEW h \in Handles, OpenFails(h) PROVE Safety'
  <2>1. UNCHANGED <<pc, held, awaiting, composers, exact, maint, closing>>
    BY <1>11 DEF OpenFails, handlerVars, sweepVars
  <2>2. /\ hstate[h] = "opening" /\ hstate'[h] = "failed"
        /\ \A g \in Handles : g # h => hstate'[g] = hstate[g]
        /\ \A l \in Identities : sources'[l] = IF sources[l] = h THEN None ELSE sources[l]
        /\ \A l \in Identities : sources[l] # h => entry'[l] = entry[l]
    BY <1>11, <1>a DEF OpenFails, TypeOK
  <2>3. \A l \in Identities : sources'[l] # None => sources'[l] = sources[l] /\ sources[l] # h
    BY <2>2
  <2>4. \A g \in closing : hstate'[g] = hstate[g]
    BY <1>a, <2>2 DEF BarrierExcludesHandlers, TypeOK
  <2>5. BarrierExcludesHandlers'
    BY <2>1, <2>4, CallKeepsBarrier
  <2>6. NoUseAfterClose' /\ OnlyHandlersHold'
    BY <1>a, <2>1, <2>2 DEF TypeOK, NoUseAfterClose, OnlyHandlersHold
  <2>7. NoDanglingReference'
    <3>1. \A l \in Identities : \A g \in composers[l] : hstate'[g] = "open" /\ g \notin closing
      BY <1>a, <1>b, <2>2 DEF NoDanglingReference
    <3>2. \A l \in Identities : sources'[l] # None =>
             hstate'[sources'[l]] \in {"opening", "open"} /\ sources'[l] \notin closing
      BY <1>a, <1>b, <2>2, <2>3 DEF NoDanglingReference
    <3> QED BY <2>1, <3>1, <3>2 DEF NoDanglingReference
  <2>8. NoOrphanSource'
    BY <1>a, <2>1, <2>2 DEF NoOrphanSource
  <2>12. OneEntryPerSource' /\ OpenServesIdentity'
    BY <1>a, <2>1, <2>2 DEF OneEntryPerSource, OpenServesIdentity
  <2>9. OpeningsAwaited' /\ AwaitedIsCached'
    <3>1. \A q \in Requests : awaiting[q] # None =>
             awaiting[q].handle \in Handles /\ awaiting[q].key \in Identities
      BY <1>a DEF TypeOK, Waits
    <3> QED BY <1>a, <2>1, <2>2, <3>1 DEF OpeningsAwaited, AwaitedIsCached
  <2>10. EntryNamesServedBuild'
    <3> SUFFICES ASSUME NEW l \in Identities, sources'[l] # None, hstate'[sources'[l]] = "open"
                 PROVE  \/ SourceId(l)' = exact'[sources'[l]]
                        \/ /\ l[1] = exact'[sources'[l]][1]
                           /\ \E q \in Requests : /\ awaiting'[q] # None
                                 /\ awaiting'[q].key = l /\ awaiting'[q].handle = sources'[l]
      BY DEF EntryNamesServedBuild
    <3>1. sources'[l] = sources[l] /\ sources[l] # h /\ sources[l] # None /\ sources[l] \in Handles
      BY <1>a, <2>3 DEF TypeOK
    <3>2. SourceId(l)' = SourceId(l) /\ hstate[sources[l]] = "open"
      BY <2>2, <3>1 DEF SourceId
    <3> QED BY <1>a, <2>1, <3>1, <3>2 DEF EntryNamesServedBuild
  <2>11. AliasesRetireTogether'
    <3>1. PICK q \in Requests : awaiting[q] # None
      BY <1>a, <2>2 DEF OpeningsAwaited
    <3>2. closing' = {}
      BY <1>a, <2>1, <3>1, RunningMeansNoClosing DEF OnlyHandlersHold
    <3> QED BY <3>2 DEF AliasesRetireTogether
  <2> QED BY <2>5, <2>6, <2>7, <2>8, <2>9, <2>10, <2>11, <2>12 DEF Safety
<1>12. ASSUME NEW h \in Handles, CloseOne(h) PROVE Safety'
  <2>1. /\ UNCHANGED <<pc, held, awaiting, sources, entry, composers, maint>>
        /\ maint = "retiring" /\ h \in closing /\ closing' = closing \ {h}
    BY <1>12 DEF CloseOne, handlerVars, cacheVars
  <2>2. /\ hstate'[h] = "closed"
        /\ \A g \in Handles : g # h => hstate'[g] = hstate[g] /\ exact'[g] = exact[g]
    BY <1>12, <1>a DEF CloseOne, TypeOK
  <2>3. Running = {} /\ Running' = {} /\ hstate[h] = "open"
    BY <1>a, <2>1 DEF BarrierExcludesHandlers, Running
  <2>4. \A r \in Requests : held[r] = {} /\ awaiting[r] = None
    BY <2>3, QuietMeansUnused
  <2>5. \A k \in Identities : sources[k] # h /\ h \notin composers[k]
    BY <1>a, <2>1 DEF NoDanglingReference, TypeOK
  <2>6. BarrierExcludesHandlers'
    BY <1>a, <2>1, <2>2, <2>3 DEF BarrierExcludesHandlers, TypeOK
  <2>7. NoUseAfterClose' /\ OnlyHandlersHold' /\ OpeningsAwaited' /\ AwaitedIsCached'
    BY <1>a, <2>1, <2>2, <2>4 DEF NoUseAfterClose, OnlyHandlersHold, OpeningsAwaited, AwaitedIsCached
  <2>8. NoDanglingReference'
    BY <1>a, <2>1, <2>2, <2>5 DEF NoDanglingReference, TypeOK
  <2>9. NoOrphanSource' /\ OneEntryPerSource' /\ OpenServesIdentity'
    BY <1>a, <2>1, <2>2 DEF NoOrphanSource, OneEntryPerSource, OpenServesIdentity
  <2>10. \A k \in Identities : sources[k] # None =>
            exact'[sources[k]] = exact[sources[k]] /\ hstate'[sources[k]] = hstate[sources[k]]
    BY <1>a, <2>2, <2>5 DEF TypeOK
  <2>11. EntryNamesServedBuild'
    BY <1>a, <2>1, <2>10 DEF EntryNamesServedBuild, SourceId
  <2>12. AliasesRetireTogether'
    BY <1>a, <2>1, <2>2, <2>10 DEF AliasesRetireTogether, Cached, TypeOK
  <2> QED BY <2>6, <2>7, <2>8, <2>9, <2>11, <2>12 DEF Safety
<1>13. ASSUME UNCHANGED <<handlerVars, cacheVars, handleVars, closing>>,
              maint' = maint \/ (maint = "none" /\ maint' = "queued")
                             \/ (maint = "queued" /\ maint' = "draining" /\ Running # {})
       PROVE  Safety'
  <2>1. Running' = Running
    BY <1>13 DEF Running, handlerVars
  <2>2. BarrierExcludesHandlers'
    BY <1>13, <1>a, <2>1 DEF BarrierExcludesHandlers, handleVars
  <2>3. OnlyHandlersHold'
    BY <1>13, <1>a DEF OnlyHandlersHold, handlerVars
  <2> QED BY <1>13, <2>2, <2>3, UntouchedKeeps DEF handlerVars, cacheVars, handleVars
<1>14. CASE TimerSweep \/ AwaitDrain \/ CloseStart \/ CloseSweep \/ Tick \/ UNCHANGED vars
  BY <1>13, <1>14 DEF TimerSweep, AwaitDrain, CloseStart, CloseSweep, Tick, vars, sweepVars
<1>15. CASE StartRetiring
  <2>1. Running = {} /\ closing = {} /\ maint' = "retiring" /\ Retire(Expired)
        /\ UNCHANGED <<handlerVars, handleVars>>
    BY <1>15, <1>a DEF StartRetiring, BarrierExcludesHandlers
  <2> QED BY <2>1, RetireKeeps
<1>16. CASE RetireOldest
  <2>1. PICK U : Retire(U)
    BY <1>16 DEF RetireOldest
  <2>2. Running = {} /\ closing = {} /\ maint' = "retiring" /\ UNCHANGED <<handlerVars, handleVars>>
    BY <1>16, <1>a DEF RetireOldest, BarrierExcludesHandlers
  <2> QED BY <2>1, <2>2, RetireKeeps
<1>17. CASE FinishSweep
  <2>1. /\ UNCHANGED <<held, awaiting, sources, entry, composers, handleVars, closing>>
        /\ maint = "retiring" /\ closing = {} /\ maint' = "none"
    BY <1>17 DEF FinishSweep, cacheVars
  <2>2. BarrierExcludesHandlers'
    BY <2>1 DEF BarrierExcludesHandlers
  <2>3. \A r \in Requests : pc'[r] # "running" => pc[r] # "running"
    BY <1>17, <1>a DEF FinishSweep, TypeOK
  <2>4. OnlyHandlersHold'
    BY <1>a, <2>1, <2>3 DEF OnlyHandlersHold
  <2> QED BY <2>1, <2>2, <2>4, UntouchedKeeps
<1> QED
  BY <1>1, <1>2, <1>3, <1>4, <1>5, <1>6, <1>7, <1>8, <1>9, <1>10, <1>11, <1>12, <1>14,
     <1>15, <1>16, <1>17 DEF Next, HandlerCall

-------------------------------------------------------------------------------
(* Expiry finds every entry, and Close every group *)

\* A retirement takes entries away and never adds or renames one.
LEMMA RetireShrinks ==
    ASSUME TypeOK, NEW S, Retire(S)
    PROVE  /\ Cached' \subseteq Cached /\ resources' \subseteq resources /\ Composed' \subseteq Composed
           /\ \A k \in Cached' : SourceId(k) \notin S /\ SourceId(k)' = SourceId(k)
           /\ \A k \in Identities : sources'[k] = None => entry'[k] = k[2] \/ (sources[k] = None /\ entry'[k] = entry[k])
<1> DEFINE gone == {k \in Cached : SourceId(k) \in S}
<1>1. /\ sources' = [k \in Identities |-> IF k \in gone THEN None ELSE sources[k]]
      /\ entry' = [k \in Identities |-> IF k \in gone THEN k[2] ELSE entry[k]]
      /\ resources' = resources \ S
      /\ composers' = [i \in Identities |-> IF i \in S \/ gone # {} THEN {} ELSE composers[i]]
  BY DEF Retire
<1>2. \A k \in Cached' : k \in Cached /\ k \notin gone
  BY <1>1 DEF Cached
<1>3. resources' \subseteq resources /\ Composed' \subseteq Composed
  BY <1>1 DEF Composed
<1>4. \A k \in Cached' : SourceId(k) \notin S /\ SourceId(k)' = SourceId(k)
  <2> SUFFICES ASSUME NEW k \in Cached'
               PROVE  SourceId(k) \notin S /\ SourceId(k)' = SourceId(k)
    OBVIOUS
  <2>1. k \in Cached /\ k \notin gone /\ k \in Identities
    BY <1>2 DEF Cached
  <2>2. entry'[k] = entry[k]
    BY <1>1, <2>1
  <2> QED BY <2>1, <2>2 DEF SourceId
<1>5. \A k \in Identities : sources'[k] = None =>
         entry'[k] = k[2] \/ (sources[k] = None /\ entry'[k] = entry[k])
  BY <1>1
<1> QED BY <1>2, <1>3, <1>4, <1>5

\* What a retirement leaves keeps its group.
LEMMA RetireTracks ==
    ASSUME IInv, NEW S, Retire(S)
    PROVE  EveryEntryTracked'
<1>1. TypeOK /\ EveryEntryTracked
  BY DEF IInv
<1>2. /\ Cached' \subseteq Cached /\ resources' \subseteq resources /\ Composed' \subseteq Composed
      /\ \A k \in Cached' : SourceId(k) \notin S /\ SourceId(k)' = SourceId(k)
      /\ \A k \in Identities : sources'[k] = None =>
            entry'[k] = k[2] \/ (sources[k] = None /\ entry'[k] = entry[k])
  BY <1>1, RetireShrinks
<1>3. ASSUME NEW i \in Present' PROVE age'[i] # -1
  <2> DEFINE gone == {k \in Cached : SourceId(k) \in S}
  <2>1. /\ i \in Present /\ i \in Identities
        /\ i \in resources' \/ composers'[i] # {} \/ \E k \in Cached \ gone : SourceId(k) = i
    <3>1. CASE i \in resources'
      BY <1>1, <1>2, <3>1 DEF Present, TypeOK
    <3>2. CASE i \in Composed'
      BY <1>2, <3>2 DEF Present, Composed
    <3>3. CASE i \in {SourceId(k) : k \in Cached}'
      <4>1. PICK k \in Cached' : i = SourceId(k)'
        BY <3>3
      <4>2. k \in Cached \ gone /\ SourceId(k) = i /\ k \in Identities
        BY <1>2, <4>1 DEF Cached
      <4>3. i \in Identities
        BY <1>1, <4>2 DEF SourceId, TypeOK, Identities
      <4> QED BY <4>2, <4>3 DEF Present
    <3> QED BY <1>3, <3>1, <3>2, <3>3 DEF Present
  <2>2. age' = [j \in Identities |->
                 IF \/ j \in resources' \/ composers'[j] # {}
                    \/ \E k \in Cached \ gone : SourceId(k) = j
                 THEN age[j] ELSE -1]
    BY DEF Retire
  <2>3. age'[i] = age[i]
    <3> HIDE DEF gone
    <3> QED BY <2>1, <2>2
  <2> QED BY <1>1, <2>1, <2>3 DEF EveryEntryTracked
<1>4. \A k \in Identities : sources'[k] = None => entry'[k] = k[2]
  BY <1>1, <1>2 DEF EveryEntryTracked
<1> QED BY <1>3, <1>4 DEF EveryEntryTracked

\* A step after which every identity is one there was before, or touched, and
\* which prunes only what nothing stands for, keeps the groups.
LEMMA TouchTracks ==
    ASSUME TypeOK, EveryEntryTracked, NEW i \in Identities, Touch(i), Present' \subseteq Present \cup {i}
    PROVE  \A j \in Present' : age'[j] # -1
<1>1. age'[i] = 0 /\ \A j \in Identities : j # i => age'[j] = age[j]
  BY DEF Touch, TypeOK
<1>2. Present \subseteq Identities
  BY DEF Present, Cached, Composed, SourceId, TypeOK, Identities
<1> QED BY <1>1, <1>2 DEF EveryEntryTracked

\* Every step keeps a group for every entry.
LEMMA TrackingStep == IInv /\ [Next]_vars => EveryEntryTracked'
<1> SUFFICES ASSUME IInv, [Next]_vars PROVE EveryEntryTracked'
  OBVIOUS
<1> USE ConstantsAssumption
<1>a. TypeOK /\ EveryEntryTracked /\ Safety
  BY DEF IInv
<1>b. /\ Present \subseteq Identities
      /\ \A i \in Present : age[i] # -1
      /\ \A k \in Identities : sources[k] = None => entry[k] = k[2]
  BY <1>a DEF Present, Cached, Composed, SourceId, TypeOK, Identities, EveryEntryTracked
<1>c. ASSUME UNCHANGED cacheVars, \A i \in Present : age'[i] # -1 PROVE EveryEntryTracked'
  <2>1. Present' = Present
    BY <1>c DEF cacheVars, Present, Cached, Composed, SourceId
  <2> QED BY <1>b, <1>c, <2>1 DEF EveryEntryTracked, cacheVars
<1>1. ASSUME NEW r \in Requests, Enter(r) \/ AdoptFails(r) PROVE EveryEntryTracked'
  BY <1>1, <1>b, <1>c DEF Enter, AdoptFails, policyVars
<1>2. ASSUME NEW r \in Requests, Finish(r) PROVE EveryEntryTracked'
  <2>1. age' = age \/ age' = Pruned
    BY <1>2 DEF Finish
  <2>2. \A i \in Present : Pruned[i] = age[i]
    BY <1>b DEF Pruned
  <2> QED BY <1>2, <1>b, <1>c, <2>1, <2>2 DEF Finish
<1>3. ASSUME NEW r \in Requests, Adopt(r) PROVE EveryEntryTracked'
  <2> DEFINE k == awaiting[r].key
             h == awaiting[r].handle
             b == exact[h][2]
  <2>1. awaiting[r] \in Waits /\ k \in Identities /\ h \in Handles /\ hstate[h] = "open"
    BY <1>3, <1>a DEF Adopt, TypeOK, Waits
  <2>2. exact[h] \in Identities
    BY <1>a, <2>1 DEF Safety, OpenServesIdentity, TypeOK
  <2>3. <<k[1], b>> \in Identities /\ b \in Builds
    BY <2>1, <2>2 DEF Identities
  <2>4. UNCHANGED <<sources, resources, composers>>
    BY <1>3 DEF Adopt
  <2>5. CASE sources[k] = None
    <3>1. UNCHANGED <<entry, age>>
      BY <1>3, <2>5 DEF Adopt, SetIdentity
    <3> QED BY <1>b, <1>c, <2>4, <3>1 DEF cacheVars
  <2>6. CASE sources[k] # None
    <3>1. entry' = [entry EXCEPT ![k] = b] /\ Touch(<<k[1], b>>)
      BY <1>3, <2>6 DEF Adopt, SetIdentity
    <3>2. Present' \subseteq Present \cup {<<k[1], b>>}
      <4> SUFFICES ASSUME NEW l \in Cached'
                   PROVE  SourceId(l)' \in Present \cup {<<k[1], b>>}
        BY <2>4 DEF Present, Composed
      <4>1. l \in Cached /\ l \in Identities
        BY <2>4 DEF Cached
      <4>2. entry'[l] = IF l = k THEN b ELSE entry[l]
        BY <1>a, <3>1, <4>1 DEF TypeOK
      <4> HIDE DEF b, k
      <4> QED BY <4>1, <4>2 DEF SourceId, Present
    <3>3. \A j \in Present' : age'[j] # -1
      BY <1>a, <2>3, <3>1, <3>2, TouchTracks
    <3>4. \A l \in Identities : sources'[l] = None => entry'[l] = l[2]
      BY <1>a, <1>b, <2>4, <2>6, <3>1 DEF TypeOK
    <3> QED BY <3>3, <3>4 DEF EveryEntryTracked
  <2> QED BY <2>5, <2>6
<1>4. ASSUME NEW r \in Requests, NEW k \in Exports, NEW latest \in BOOLEAN, JoinSource(r, k, latest)
      PROVE  EveryEntryTracked'
  <2>1. k \in Cached /\ k \in Identities /\ Touch(SourceId(k)) /\ UNCHANGED cacheVars
    BY <1>4 DEF JoinSource, Cached
  <2>2. SourceId(k) \in Present /\ SourceId(k) \in Identities
    BY <1>b, <2>1 DEF Present
  <2>3. \A i \in Present : age'[i] # -1
    BY <1>a, <1>b, <2>1, <2>2 DEF Touch, TypeOK
  <2> QED BY <1>c, <2>1, <2>3
<1>5. ASSUME NEW r \in Requests, NEW k \in Exports, NEW latest \in BOOLEAN, StartSource(r, k, latest)
      PROVE  EveryEntryTracked'
  <2>1. PICK h \in Handles : sources' = [sources EXCEPT ![k] = h]
    BY <1>5 DEF StartSource
  <2>2. /\ sources[k] = None /\ k \in Identities /\ Touch(k)
        /\ UNCHANGED <<entry, resources, composers>>
    BY <1>5 DEF StartSource
  <2>3. k = <<k[1], k[2]>> /\ entry[k] = k[2]
    BY <1>b, <2>2 DEF Identities
  <2>4. Present' \subseteq Present \cup {k}
    <3> SUFFICES ASSUME NEW l \in Cached' PROVE SourceId(l)' \in Present \cup {k}
      BY <2>2 DEF Present, Composed
    <3>1. l \in Cached \cup {k}
      BY <1>a, <2>1, <2>2 DEF Cached, TypeOK
    <3>2. SourceId(l)' = SourceId(l)
      BY <2>2 DEF SourceId
    <3> QED BY <2>3, <3>1, <3>2 DEF SourceId, Present
  <2>5. \A j \in Present' : age'[j] # -1
    BY <1>a, <2>2, <2>4, TouchTracks
  <2>6. \A l \in Identities : sources'[l] = None => entry'[l] = l[2]
    BY <1>a, <1>b, <2>1, <2>2 DEF TypeOK
  <2> QED BY <2>5, <2>6 DEF EveryEntryTracked
<1>6. ASSUME NEW r \in Requests, NEW i \in Identities, Compose(r, i) PROVE EveryEntryTracked'
  <2>1. Touch(i) /\ UNCHANGED <<sources, entry, resources>>
    BY <1>6 DEF Compose
  <2>2. Composed' \subseteq Composed \cup {i}
    BY <1>6, <1>a DEF Compose, Composed, TypeOK
  <2>3. Present' \subseteq Present \cup {i}
    BY <2>1, <2>2 DEF Present, Cached, SourceId
  <2>4. \A j \in Present' : age'[j] # -1
    BY <1>a, <2>1, <2>3, TouchTracks
  <2> QED BY <1>b, <2>1, <2>4 DEF EveryEntryTracked
<1>7. ASSUME NEW r \in Requests, NEW i \in Catalogs, NEW latest \in BOOLEAN, OpenResources(r, i, latest)
      PROVE  EveryEntryTracked'
  <2>1. /\ i \in Identities /\ Touch(i) /\ UNCHANGED <<sources, entry, composers>>
        /\ resources' \subseteq resources \cup {i}
    BY <1>7 DEF OpenResources
  <2>2. Present' \subseteq Present \cup {i}
    BY <2>1 DEF Present, Cached, Composed, SourceId
  <2>3. \A j \in Present' : age'[j] # -1
    BY <1>a, <2>1, <2>2, TouchTracks
  <2> QED BY <1>b, <2>1, <2>3 DEF EveryEntryTracked
<1>8. ASSUME NEW r \in Requests, NEW res \in Catalogs, NEW sde \in Exports,
             ResolveBuilds(r, res[1], res[2], sde[2])
      PROVE  EveryEntryTracked'
  BY <1>8, <1>b, <1>c DEF ResolveBuilds
<1>9. ASSUME NEW h \in Handles, OpenSucceeds(h) \/ CloseOne(h) PROVE EveryEntryTracked'
  BY <1>9, <1>b, <1>c DEF OpenSucceeds, CloseOne, policyVars
<1>10. ASSUME NEW h \in Handles, OpenFails(h) PROVE EveryEntryTracked'
  <2>1. /\ sources' = [k \in Identities |-> IF sources[k] = h THEN None ELSE sources[k]]
        /\ entry' = [k \in Identities |-> IF sources[k] = h THEN k[2] ELSE entry[k]]
        /\ UNCHANGED <<resources, composers, age>>
    BY <1>10 DEF OpenFails, policyVars
  <2>2. \A k \in Cached' : k \in Cached /\ entry'[k] = entry[k]
    BY <2>1 DEF Cached
  <2>3. Present' \subseteq Present
    BY <2>1, <2>2 DEF Present, Composed, SourceId
  <2>4. \A k \in Identities : sources'[k] = None => entry'[k] = k[2]
    BY <1>b, <2>1
  <2> QED BY <1>b, <2>1, <2>3, <2>4 DEF EveryEntryTracked
<1>11. CASE TimerSweep \/ AwaitDrain \/ CloseStart \/ CloseSweep \/ FinishSweep \/ UNCHANGED vars
  BY <1>11, <1>b, <1>c DEF TimerSweep, AwaitDrain, CloseStart, CloseSweep, FinishSweep, vars, policyVars
<1>12. CASE StartRetiring \/ RetireOldest
  <2>1. PICK S : Retire(S)
    BY <1>12 DEF StartRetiring, RetireOldest
  <2> QED BY <2>1, RetireTracks
<1>13. CASE Tick
  <2>1. UNCHANGED cacheVars
    BY <1>13 DEF Tick
  <2>2. \A i \in Present : age'[i] # -1
    BY <1>13, <1>a, <1>b DEF Tick, TypeOK
  <2> QED BY <1>c, <2>1, <2>2
<1> QED
  BY <1>1, <1>2, <1>3, <1>4, <1>5, <1>6, <1>7, <1>8, <1>9, <1>10, <1>11, <1>12, <1>13
     DEF Next, HandlerCall

\* Once Close was called, expiry takes every group, so nothing stays cached.
LEMMA CloseRetiresAll ==
    ASSUME IInv, Closed, Retire(Expired)
    PROVE  NothingCached'
<1>1. TypeOK /\ EveryEntryTracked
  BY DEF IInv
<1>2. Present \subseteq Identities
  BY <1>1 DEF Present, Cached, Composed, SourceId, TypeOK, Identities
<1>3. Present \subseteq Expired
  BY <1>1, <1>2 DEF EveryEntryTracked, Expired, Groups, Pruned
<1> HIDE DEF Expired
<1>4. /\ Cached' \subseteq Cached /\ resources' \subseteq resources /\ Composed' \subseteq Composed
      /\ \A k \in Cached' : SourceId(k) \notin Expired
  BY <1>1, RetireShrinks
<1>5. Cached' = {} /\ resources' = {}
  BY <1>3, <1>4 DEF Present, Retire
<1>6. Composed' = {}
  <2>1. \A i \in Composed : i \in Expired /\ i \in Identities
    BY <1>3 DEF Present, Composed
  <2> QED BY <2>1, <1>4 DEF Retire, Composed
<1> QED BY <1>5, <1>6 DEF NothingCached

\* Every step keeps what Close is about to promise.
LEMMA CloseStep == IInv /\ [Next]_vars => CloseIsFinal'
<1> SUFFICES ASSUME IInv, [Next]_vars PROVE CloseIsFinal'
  OBVIOUS
<1>a. TypeOK /\ Safety /\ CloseIsFinal
  BY DEF IInv
<1>b. \A r \in Requests : awaiting[r] # None => r \in Running
  BY <1>a DEF Safety, OnlyHandlersHold, Running
<1>c. \A h \in Handles : hstate[h] = "opening" => Running # {}
  BY <1>a, <1>b DEF Safety, OpeningsAwaited
<1>d. Running # {} => maint \notin {"drained", "retiring"} /\ closePc \notin {"resumed", "done"}
  BY <1>a DEF Safety, BarrierExcludesHandlers, CloseIsFinal
\* A running handler, or an opening, and Close's own sweep is at most draining.
<1>e. ASSUME Running # {}, UNCHANGED <<pc, maint, closePc>> PROVE CloseIsFinal'
  <2>1. Running' = Running
    BY <1>e DEF Running
  <2> QED BY <1>a, <1>d, <1>e, <2>1 DEF CloseIsFinal
<1>f. ASSUME UNCHANGED <<pc, cacheVars, current>>, closePc' = closePc, maint' = maint, closing' \subseteq closing
      PROVE  CloseIsFinal'
  <2>1. Running' = Running /\ NothingCached' = NothingCached
    BY <1>f DEF Running, NothingCached, cacheVars, Cached, Composed
  <2>2. closing = {} => closing' = {}
    BY <1>f
  <2> QED BY <1>a, <1>f, <2>1, <2>2 DEF CloseIsFinal
<1>1. ASSUME NEW r \in Requests, Enter(r) PROVE CloseIsFinal'
  <2>1. UNCHANGED <<cacheVars, current, maint, closing, closePc>>
    BY <1>1 DEF Enter, policyVars, sweepVars
  <2>2. closePc # "open" /\ Running = {} => Running' = {}
    BY <1>1, <1>a DEF Enter, Running, Closed, TypeOK
  <2>3. NothingCached' = NothingCached
    BY <2>1 DEF NothingCached, cacheVars, Cached, Composed
  <2> QED BY <1>a, <2>1, <2>2, <2>3 DEF CloseIsFinal
<1>2. ASSUME NEW r \in Requests, Finish(r) PROVE CloseIsFinal'
  <2>1. Running # {} /\ maint' \notin {"retiring"} /\ UNCHANGED closePc
    BY <1>2, <1>d DEF Finish, Running
  <2>2. maint # "none" => maint' # "none"
    BY <1>2 DEF Finish
  <2> QED BY <1>a, <1>d, <2>1, <2>2 DEF CloseIsFinal
<1>3. ASSUME NEW r \in Requests, Adopt(r) \/ AdoptFails(r) \/ HandlerCall(r) PROVE CloseIsFinal'
  <2>1. pc[r] = "running"
    BY <1>3 DEF Adopt, AdoptFails, HandlerCall, JoinSource, StartSource, Compose, OpenResources,
                ResolveBuilds, CanCall
  <2>2. Running # {}
    BY <2>1 DEF Running
  <2>3. UNCHANGED <<pc, maint, closePc>>
    BY <1>3 DEF Adopt, AdoptFails, HandlerCall, JoinSource, StartSource, Compose, OpenResources,
                ResolveBuilds, handlerVars, sweepVars
  <2> QED BY <1>e, <2>2, <2>3
<1>4. ASSUME NEW h \in Handles, OpenSucceeds(h) \/ OpenFails(h) PROVE CloseIsFinal'
  <2>1. hstate[h] = "opening" /\ UNCHANGED <<pc, maint, closePc>>
    BY <1>4 DEF OpenSucceeds, OpenFails, handlerVars, sweepVars
  <2> QED BY <1>c, <1>e, <2>1
<1>5. ASSUME NEW h \in Handles, CloseOne(h) PROVE CloseIsFinal'
  BY <1>5, <1>f DEF CloseOne, handlerVars, policyVars
<1>6. CASE TimerSweep \/ CloseStart
  BY <1>6 DEF CloseIsFinal, TimerSweep, CloseStart
<1>7. CASE AwaitDrain
  <2>1. Running # {} /\ maint' # "none" /\ maint' # "retiring" /\ UNCHANGED closePc
    BY <1>7 DEF AwaitDrain
  <2> QED BY <1>d, <2>1 DEF CloseIsFinal
<1>8. CASE CloseSweep
  BY <1>8, <1>a DEF CloseIsFinal, CloseSweep
<1>9. CASE StartRetiring
  <2>1. maint # "none" /\ maint' = "retiring" /\ UNCHANGED closePc /\ Retire(Expired)
    BY <1>9 DEF StartRetiring
  <2>2. closePc = "sweeping" => NothingCached'
    BY <2>1, CloseRetiresAll DEF Closed
  <2> QED BY <1>a, <2>1, <2>2 DEF CloseIsFinal
<1>10. CASE RetireOldest
  <2>1. PICK S : Retire(S)
    BY <1>10 DEF RetireOldest
  <2>2. maint = "retiring" /\ maint' = "retiring" /\ UNCHANGED closePc
    BY <1>10 DEF RetireOldest
  <2>3. NothingCached => NothingCached'
    BY <1>a, <2>1, RetireShrinks DEF NothingCached
  <2> QED BY <1>a, <2>2, <2>3 DEF CloseIsFinal
<1>11. CASE FinishSweep
  <2>1. /\ maint = "retiring" /\ maint' = "none" /\ closing = {} /\ closing' = {}
        /\ UNCHANGED cacheVars
    BY <1>11 DEF FinishSweep
  <2>2. Running = {}
    BY <1>d, <2>1
  <2>3. closePc \notin {"resumed", "done"}
    BY <1>a, <2>1 DEF CloseIsFinal
  <2>4. closePc' = IF closePc = "open" THEN "open"
                   ELSE IF closePc \in {"failed", "cut short"} THEN closePc
                   ELSE IF failed THEN IF closePc = "waiting" THEN "cut short" ELSE "failed"
                   ELSE IF closePc = "waiting" THEN "resumed" ELSE "done"
    BY <1>11, <1>a, <2>3 DEF FinishSweep, CloseResumes, TypeOK, ClosePhases
  <2>5. closePc # "open" => Running' = {}
    BY <1>11, <1>a, <2>2 DEF FinishSweep, Running, Closed, TypeOK
  <2>6. closePc' = "done" => NothingCached' /\ \A f \in Targets \X Facets : current'[f] = <<>>
    <3> SUFFICES ASSUME closePc' = "done"
                 PROVE  NothingCached' /\ \A f \in Targets \X Facets : current'[f] = <<>>
      OBVIOUS
    <3>1. closePc = "sweeping" /\ ~failed
      BY <1>a, <2>3, <2>4 DEF TypeOK, ClosePhases
    <3>2. NothingCached
      BY <1>a, <2>1, <3>1 DEF CloseIsFinal
    <3>3. NothingCached'
      BY <2>1, <3>2 DEF NothingCached, cacheVars, Cached, Composed
    <3> QED BY <1>11, <3>1, <3>3 DEF FinishSweep, CloseResumes
  <2> QED BY <2>1, <2>4, <2>5, <2>6 DEF CloseIsFinal
<1>12. CASE Tick \/ UNCHANGED vars
  BY <1>12, <1>f DEF Tick, vars, handlerVars, sweepVars, policyVars
<1> QED
  BY <1>1, <1>2, <1>3, <1>4, <1>5, <1>6, <1>7, <1>8, <1>9, <1>10, <1>11, <1>12 DEF Next

\* With nothing cached no budget is spent, whatever the lists of current builds say.
LEMMA NothingCostsNothing == TypeOK /\ NothingCached => ~OverBudget
<1> SUFFICES ASSUME TypeOK, NothingCached PROVE ~OverBudget
  OBVIOUS
<1>1. Groups = {}
  BY DEF NothingCached, Groups, Pruned, Present
<1>2. \A t \in Targets : Pairs(t) = 0
  <2>1. Cardinality({}) = 0
    BY FS_EmptySet
  <2>2. \A t, f : {i \in Groups : i[1] = t /\ CurrentIn(i, f)} = {}
    BY <1>1
  <2> QED BY <2>1, <2>2 DEF Pairs
<1>3. UNION {{t} \X (1..Pairs(t)) : t \in Targets} = {}
  BY <1>2
<1>4. {i \in Groups : ~IsCurrent(i)} = {}
  BY <1>1
<1>5. {sources[k] : k \in Cached} = {} /\ {SourceId(k) : k \in Cached} = {}
  BY DEF NothingCached
<1>6. Cardinality({}) = 0
  BY FS_EmptySet
<1>7. Entries = 0
  BY <1>6 DEF Entries, NothingCached
<1>8. Duplicates = 0
  BY <1>5, <1>6 DEF Duplicates
<1>9. Units = 0 + 0 + 0
  BY <1>3, <1>4, <1>6, <1>8, Zenon DEF Units
<1> QED BY <1>7, <1>9, ConstantsAssumption DEF OverBudget

-------------------------------------------------------------------------------
(* The theorems *)

\* The invariant holds of every reachable state.
THEOREM Invariance == Spec => []IInv
<1>1. Init => IInv
  BY InitIInv
<1>2. IInv /\ [Next]_vars => IInv'
  BY TypeStep, SafetyStep, TrackingStep, CloseStep DEF IInv, Safety
<1> QED BY <1>1, <1>2, PTL DEF Spec

\* Every variable keeps its type (CjsToolBuildCache.js as a whole).
THEOREM TypeCorrect == Spec => []TypeOK
<1>1. IInv => TypeOK
  BY DEF IInv
<1> QED BY <1>1, Invariance, PTL

\* No running handler ever uses a source that is closed or being closed
\* (CjsToolBuildCache.js:7-8 and 122-145).
THEOREM HandlersUseOpenSources == Spec => []NoUseAfterClose
<1>1. IInv => NoUseAfterClose
  BY DEF IInv, Safety
<1> QED BY <1>1, Invariance, PTL

\* No handler runs while entries are retired and sources close, though requests
\* may arrive at any time (CjsToolBuildCache.js:125-128 and 161-201).
THEOREM RetirementIsExclusive == Spec => []BarrierExcludesHandlers
<1>1. IInv => BarrierExcludesHandlers
  BY DEF IInv, Safety
<1> QED BY <1>1, Invariance, PTL

\* What any map of any target still refers to is neither closed nor closing
\* (CjsToolBuildCache.js:309-348).
THEOREM ReferencesStayOpen == Spec => []NoDanglingReference
<1>1. IInv => NoDanglingReference
  BY DEF IInv, Safety
<1> QED BY <1>1, Invariance, PTL

\* No open source is ever lost to the cache.
THEOREM OpenSourcesAreOwned == Spec => []NoOrphanSource
<1>1. IInv => NoOrphanSource
  BY DEF IInv, Safety
<1> QED BY <1>1, Invariance, PTL

\* Whenever no handler runs, every entry stands for the build its source serves.
THEOREM EntriesAreAccurate == Spec => []EntriesNameServedBuild
<1>1. IInv => EntriesNameServedBuild
  BY QuietMeansUnused DEF EntriesNameServedBuild, Cached
<1> QED BY <1>1, Invariance, PTL

\* When a source of a target and build closes, no alias of it stays cached.
THEOREM AliasesClose == Spec => []AliasesRetireTogether
<1>1. IInv => AliasesRetireTogether
  BY DEF IInv, Safety
<1> QED BY <1>1, Invariance, PTL

\* When Close returns, no map of any kind has an entry, no target has a current
\* build, no source is open and no handler runs (CjsToolBuildCache.js:203-212).
THEOREM CloseIsComplete == Spec => []CloseLeavesNothing
<1>1. IInv => CloseLeavesNothing
  <2> SUFFICES ASSUME IInv, closePc = "done" PROVE CloseLeavesNothing
    BY DEF CloseLeavesNothing
  <2>1. NothingCached /\ closing = {} /\ Running = {} /\ \A f \in Targets \X Facets : current[f] = <<>>
    BY DEF IInv, CloseIsFinal
  <2>2. \A h \in Handles : hstate[h] # "open"
    <3>1. \A k \in Identities : sources[k] = None
      BY <2>1 DEF NothingCached, Cached
    <3> QED BY <2>1, <3>1, ConstantsAssumption DEF IInv, Safety, NoOrphanSource
  <2> QED BY <2>1, <2>2 DEF CloseLeavesNothing, NothingCached
<1> QED BY <1>1, Invariance, PTL

\* A sweep that closed all it retired ends within both budgets, also when the lists
\* of current builds, by which the budget counts, are emptied by the same step.
THEOREM SweepRestoresBudget == Spec => SweepEndsWithinBudget
<1>1. IInv /\ IInv' /\ [Next]_vars =>
         [maint = "retiring" /\ maint' = "none" /\ ~failed => ~OverBudget']_vars
  <2> SUFFICES ASSUME IInv, IInv', Next, maint = "retiring", maint' = "none", ~failed
               PROVE  ~OverBudget'
    OBVIOUS
  <2>1. FinishSweep
    BY DEF Next, HandlerCall, Enter, Finish, Adopt, AdoptFails, JoinSource, StartSource, Compose,
           OpenResources, ResolveBuilds, OpenSucceeds, OpenFails, CloseOne, TimerSweep, AwaitDrain,
           StartRetiring, RetireOldest, CloseStart, CloseSweep, Tick, sweepVars
  <2>2. CASE closePc = "sweeping"
    <3>1. NothingCached /\ UNCHANGED cacheVars
      BY <2>1, <2>2 DEF IInv, CloseIsFinal, FinishSweep, CloseResumes
    <3>2. NothingCached' /\ TypeOK'
      BY <3>1 DEF NothingCached, cacheVars, Cached, Composed, IInv
    <3> QED BY <3>2, NothingCostsNothing, PTL
  <2>3. CASE closePc # "sweeping"
    <3>1. UNCHANGED <<cacheVars, age, current>> /\ ~OverBudget
      BY <2>1, <2>3 DEF FinishSweep, CloseResumes
    <3>2. OverBudget' = OverBudget
      BY <3>1 DEF OverBudget, Units, Entries, Duplicates, Pairs, IsCurrent, CurrentIn, Groups, Pruned,
                  Present, Cached, Composed, SourceId, cacheVars
    <3> QED BY <3>1, <3>2
  <2> QED BY <2>2, <2>3
<1> QED BY <1>1, Invariance, PTL DEF Spec, SweepEndsWithinBudget

-------------------------------------------------------------------------------
(* BuildCache implements SourceLease *)

\* The status an abstract source has.
LeaseStatus == [h \in Handles |-> IF hstate[h] = "open" /\ h \notin closing THEN "open" ELSE "closed"]

\* A step that changes neither what is lent nor which sources are open and not
\* closing is a stutter of the abstract specification.
LEMMA LeaseStutters ==
    ASSUME UNCHANGED held,
           \A h \in Handles : (hstate'[h] = "open" /\ h \notin closing') <=>
                              (hstate[h] = "open" /\ h \notin closing)
    PROVE  UNCHANGED Lease!leaseVars
<1>1. LeaseStatus' = LeaseStatus
  BY DEF LeaseStatus
<1> QED BY <1>1 DEF Lease!leaseVars, LeaseStatus

\* A retirement with no handler running closes sources that nobody leases.
LEMMA RetireDisposes ==
    ASSUME IInv, TypeOK', Running = {}, closing = {}, NEW S, Retire(S), UNCHANGED <<handlerVars, handleVars>>
    PROVE  Lease!LeaseNext
<1>1. PICK C \in SUBSET Handles : C = closing'
  BY DEF TypeOK
<1>2. \A r \in Requests : held[r] \cap C = {}
  BY QuietMeansUnused
<1>3. UNCHANGED held /\ UNCHANGED hstate
  BY DEF handlerVars, handleVars
<1>4. \A h \in Handles : LeaseStatus'[h] = IF h \in C THEN "closed" ELSE LeaseStatus[h]
  BY <1>1, <1>3 DEF LeaseStatus
<1>5. LeaseStatus' = [h \in Handles |-> IF h \in C THEN "closed" ELSE LeaseStatus[h]]
  BY <1>4 DEF LeaseStatus
<1>6. Lease!Dispose(C)
  BY <1>2, <1>3, <1>5 DEF Lease!Dispose, LeaseStatus
<1> QED BY <1>6 DEF Lease!LeaseNext

\* Every step is a step of the abstract specification or a stutter.
LEMMA LeaseStep == IInv /\ TypeOK' /\ [Next]_vars => [Lease!LeaseNext]_(Lease!leaseVars)
<1> SUFFICES ASSUME IInv, TypeOK', [Next]_vars PROVE Lease!LeaseNext \/ UNCHANGED Lease!leaseVars
  BY DEF Lease!leaseVars
<1> USE ConstantsAssumption
<1>a. TypeOK /\ BarrierExcludesHandlers /\ NoUseAfterClose /\ NoDanglingReference /\ OnlyHandlersHold
  BY DEF IInv, Safety
<1>b. ASSUME UNCHANGED <<held, hstate, closing>> PROVE UNCHANGED Lease!leaseVars
  BY <1>b, LeaseStutters
<1>1. ASSUME NEW r \in Requests, Enter(r) \/ AdoptFails(r) PROVE UNCHANGED Lease!leaseVars
  BY <1>1, <1>b DEF Enter, AdoptFails, handleVars, sweepVars
<1>2. ASSUME NEW r \in Requests, Finish(r) PROVE Lease!LeaseNext
  <2>1. held' = [held EXCEPT ![r] = {}] /\ UNCHANGED <<hstate, closing>>
    BY <1>2 DEF Finish, handleVars
  <2>2. Lease!Return(r)
    BY <2>1 DEF Lease!Return
  <2> QED BY <2>2 DEF Lease!LeaseNext
<1>3. ASSUME NEW r \in Requests, Adopt(r) PROVE Lease!LeaseNext
  <2> DEFINE h == awaiting[r].handle
  <2>1. h \in Handles /\ hstate[h] = "open" /\ closing = {}
    BY <1>3, <1>a, RunningMeansNoClosing DEF Adopt, TypeOK, Waits
  <2>2. held' = [held EXCEPT ![r] = @ \cup {h}] /\ UNCHANGED <<hstate, closing>>
    BY <1>3 DEF Adopt, handleVars, sweepVars
  <2>3. Lease!Lend(r, {h})
    BY <2>1, <2>2 DEF Lease!Lend
  <2> QED BY <2>1, <2>3 DEF Lease!LeaseNext
<1>4. ASSUME NEW r \in Requests, NEW k \in Exports, NEW latest \in BOOLEAN, JoinSource(r, k, latest)
      PROVE  UNCHANGED Lease!leaseVars
  BY <1>4, <1>b DEF JoinSource, handleVars, sweepVars
<1>5. ASSUME NEW r \in Requests, NEW k \in Exports, NEW latest \in BOOLEAN, StartSource(r, k, latest)
      PROVE  UNCHANGED Lease!leaseVars
  <2>1. PICK h \in Handles : Free(h) /\ hstate' = [hstate EXCEPT ![h] = "opening"]
    BY <1>5 DEF StartSource
  <2>2. \A g \in Handles : hstate'[g] = "open" <=> hstate[g] = "open"
    BY <1>a, <2>1 DEF Free, TypeOK
  <2>3. UNCHANGED <<held, closing>>
    BY <1>5 DEF StartSource, sweepVars
  <2> QED BY <2>2, <2>3, LeaseStutters
<1>6. ASSUME NEW r \in Requests, NEW i \in Identities, Compose(r, i)
      PROVE  Lease!LeaseNext \/ UNCHANGED Lease!leaseVars
  <2>1. UNCHANGED <<hstate, closing>>
    BY <1>6 DEF Compose, handleVars, sweepVars
  <2>2. CASE UNCHANGED held
    BY <1>b, <2>1, <2>2
  <2>3. CASE held' = [held EXCEPT ![r] = @ \cup composers[i]]
    <3>1. composers[i] \in SUBSET Handles /\ \A h \in composers[i] : hstate[h] = "open" /\ h \notin closing
      BY <1>a DEF NoDanglingReference, TypeOK
    <3>2. Lease!Lend(r, composers[i])
      BY <2>1, <2>3, <3>1 DEF Lease!Lend
    <3> QED BY <3>1, <3>2 DEF Lease!LeaseNext
  <2> QED BY <1>6, <2>2, <2>3 DEF Compose
<1>7. ASSUME NEW r \in Requests, NEW i \in Catalogs, NEW latest \in BOOLEAN, OpenResources(r, i, latest)
      PROVE  UNCHANGED Lease!leaseVars
  BY <1>7, <1>b DEF OpenResources, handlerVars, handleVars, sweepVars
<1>8. ASSUME NEW r \in Requests, NEW res \in Catalogs, NEW sde \in Exports,
             ResolveBuilds(r, res[1], res[2], sde[2])
      PROVE  UNCHANGED Lease!leaseVars
  BY <1>8, <1>b DEF ResolveBuilds, handlerVars, handleVars, sweepVars
<1>9. ASSUME NEW h \in Handles, OpenSucceeds(h) PROVE Lease!LeaseNext
  <2>1. hstate[h] = "opening" /\ hstate' = [hstate EXCEPT ![h] = "open"] /\ UNCHANGED <<held, closing>>
    BY <1>9 DEF OpenSucceeds, handlerVars, sweepVars
  <2>2. h \notin closing /\ \A r \in Requests : h \notin held[r]
    BY <1>a, <2>1 DEF BarrierExcludesHandlers, NoUseAfterClose
  <2>3. LeaseStatus' = [LeaseStatus EXCEPT ![h] = "open"] /\ LeaseStatus[h] = "closed"
    <3>1. LeaseStatus[h] = "closed" /\ LeaseStatus'[h] = "open"
      BY <1>a, <2>1, <2>2 DEF LeaseStatus, TypeOK
    <3>2. \A g \in Handles : g # h => LeaseStatus'[g] = LeaseStatus[g]
      BY <1>a, <2>1 DEF LeaseStatus, TypeOK
    <3> QED BY <3>1, <3>2 DEF LeaseStatus
  <2>4. Lease!Acquire(h)
    BY <2>1, <2>2, <2>3, Zenon DEF Lease!Acquire, LeaseStatus
  <2> QED BY <2>4 DEF Lease!LeaseNext
<1>10. ASSUME NEW h \in Handles, OpenFails(h) PROVE UNCHANGED Lease!leaseVars
  <2>1. \A g \in Handles : hstate'[g] = "open" <=> hstate[g] = "open"
    BY <1>10, <1>a DEF OpenFails, TypeOK
  <2>2. UNCHANGED <<held, closing>>
    BY <1>10 DEF OpenFails, handlerVars, sweepVars
  <2> QED BY <2>1, <2>2, LeaseStutters
<1>11. ASSUME NEW h \in Handles, CloseOne(h) PROVE UNCHANGED Lease!leaseVars
  <2>1. \A g \in Handles : (hstate'[g] = "open" /\ g \notin closing') <=>
                           (hstate[g] = "open" /\ g \notin closing)
    BY <1>11, <1>a DEF CloseOne, TypeOK
  <2>2. UNCHANGED held
    BY <1>11 DEF CloseOne, handlerVars
  <2> QED BY <2>1, <2>2, LeaseStutters
<1>12. CASE TimerSweep \/ AwaitDrain \/ CloseStart \/ CloseSweep \/ Tick \/ FinishSweep \/ UNCHANGED vars
  <2>1. UNCHANGED <<held, hstate, closing>>
    BY <1>12 DEF TimerSweep, AwaitDrain, CloseStart, CloseSweep, Tick, FinishSweep, vars,
                 handlerVars, handleVars, sweepVars
  <2> QED BY <1>b, <2>1
<1>13. CASE StartRetiring
  <2>1. Running = {} /\ closing = {} /\ Retire(Expired) /\ UNCHANGED <<handlerVars, handleVars>>
    BY <1>13, <1>a DEF StartRetiring, BarrierExcludesHandlers
  <2> QED BY <2>1, RetireDisposes
<1>14. CASE RetireOldest
  <2>1. PICK U : Retire(U)
    BY <1>14 DEF RetireOldest
  <2>2. Running = {} /\ closing = {} /\ UNCHANGED <<handlerVars, handleVars>>
    BY <1>14, <1>a DEF RetireOldest, BarrierExcludesHandlers
  <2> QED BY <2>1, <2>2, RetireDisposes
<1> QED
  BY <1>1, <1>2, <1>3, <1>4, <1>5, <1>6, <1>7, <1>8, <1>9, <1>10, <1>11, <1>12, <1>13, <1>14
     DEF Next, HandlerCall

\* The cache keeps the promise of SourceLease: a source is lent only while it is
\* open, and closed only when no handler holds it.
THEOREM Refinement == Spec => ImplementsLease
<1>1. Init => Lease!LeaseInit
  BY DEF Init, Lease!LeaseInit
<1>2. IInv /\ IInv' /\ [Next]_vars => [Lease!LeaseNext]_(Lease!leaseVars)
  BY LeaseStep DEF IInv
<1> QED BY <1>1, <1>2, Invariance, PTL DEF Spec, ImplementsLease, Lease!LeaseSpec
===============================================================================
