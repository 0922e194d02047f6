--------------------------- MODULE CachePruneProofs ---------------------------
EXTENDS CachePrune, FiniteSetTheorems, TLAPS

Resolving == {"asked", "recording", "recorded"}
Deleting == {"opening", "removing"}

\* An actor in the middle of a resolution has been told a build its target had.
ToldWasHad ==
    \A a \in Actors : pc[a] \in Resolving =>
        subject[a] \in Targets /\ told[a] \in had[subject[a]]

\* No line, ended or not, and no view has a build its target never had.
LinesWereHad ==
    /\ \A t \in Targets : log[t].builds \cup view[t].builds \subseteq had[t]
    /\ \A t \in Targets, b \in Builds : tail = <<t, b>> => b \in had[t]

\* The last line of a target is one of its lines.
LastIsListed == \A t \in Targets : /\ log[t].last \in log[t].builds \cup {None}
                                   /\ view[t].last \in view[t].builds \cup {None}

UpstreamWasHad == \A t \in Targets : upstream[t] \in had[t]

\* The targets KeepSet has still to resolve are among those the run is about; no
\* answer of upstream is known for them but the one being recorded.
TurnsAreTaken ==
    /\ pc[Pruner] = "idle" => \A t \in Targets : heard[t] = None
    /\ pc[Pruner] # "idle" => request \in Requests /\ left \subseteq request.targets
    /\ pc[Pruner] \in Resolving =>
          /\ subject[Pruner] \in left
          /\ heard[subject[Pruner]] = told[Pruner]
    /\ \A t \in left : heard[t] # None => pc[Pruner] \in Resolving /\ t = subject[Pruner]
    /\ pc[Pruner] \in Deleting => left = {} /\ ~failed

\* KeepSet's answer for t holds everything it must.
Answered(t) == Protected(t) # {} /\ Protected(t) \subseteq keep[t]

AnswersAreWhole ==
    pc[Pruner] # "idle" /\ ~failed => \A t \in request.targets \ left : Answered(t)

\* Every kept index is read or still to be, and nothing read is doomed.
IndexesAreRead ==
    /\ pc[Pruner] \in Deleting =>
          \A t \in request.exact : \A b \in keep[t] :
              <<t, b>> \in unread \/ Refs[<<t, b>>] \subseteq spared
    /\ pc[Pruner] = "removing" => unread = {} /\ doomed \cap spared = {}

Safety == /\ LinesWereHad /\ LastIsListed /\ ToldWasHad /\ UpstreamWasHad
          /\ TurnsAreTaken /\ AnswersAreWhole /\ IndexesAreRead
IInv == TypeOK /\ Safety

\* Every request writes its targets as the registry does.
WrittenExactly == \A r \in Requests : r.exact = r.targets

-------------------------------------------------------------------------------
(* The log *)

\* What can be read is the ended lines and, where the last has no end, that one.
LEMMA ReadableIs ==
  ASSUME TypeOK, LastIsListed
  PROVE  /\ Readable \in [Targets -> Histories]
         /\ \A t \in Targets :
              /\ Readable[t].builds = log[t].builds \cup {b \in Builds : tail = <<t, b>>}
              /\ Readable[t].last \in Readable[t].builds \cup {None}
<1>1. CASE tail \in Targets \X Builds
  <2>1. PICK u \in Targets, c \in Builds : tail = <<u, c>>
    BY <1>1
  <2>2. Readable = [log EXCEPT ![u] = [last |-> c, builds |-> log[u].builds \cup {c}]]
    BY <1>1, <2>1 DEF Readable, Lines
  <2>3. Readable \in [Targets -> Histories]
    BY <2>2 DEF TypeOK, Histories
  <2>4. ASSUME NEW t \in Targets
        PROVE  /\ Readable[t].builds = log[t].builds \cup {b \in Builds : tail = <<t, b>>}
               /\ Readable[t].last \in Readable[t].builds \cup {None}
    <3>1. CASE t = u
      <4>1. Readable[t] = [last |-> c, builds |-> log[t].builds \cup {c}]
        BY <2>2, <3>1 DEF TypeOK
      <4>2. {b \in Builds : tail = <<t, b>>} = {c}
        BY <2>1, <3>1
      <4> QED BY <4>1, <4>2
    <3>2. CASE t # u
      <4>1. Readable[t] = log[t]
        BY <2>2, <3>2 DEF TypeOK
      <4>2. {b \in Builds : tail = <<t, b>>} = {}
        BY <2>1, <3>2
      <4> QED BY <4>1, <4>2 DEF LastIsListed
    <3> QED BY <3>1, <3>2
  <2> QED BY <2>3, <2>4
<1>2. CASE tail \notin Targets \X Builds
  <2>1. Readable = log
    BY <1>2 DEF Readable
  <2>2. \A t \in Targets : {b \in Builds : tail = <<t, b>>} = {}
    BY <1>2
  <2> QED BY <2>1, <2>2 DEF TypeOK, LastIsListed
<1> QED BY <1>1, <1>2

\* So no build is read that its target never had.
LEMMA ReadableWasHad ==
  ASSUME TypeOK, LastIsListed, LinesWereHad
  PROVE  OnlyObservedIsRecorded
<1>1. \A t \in Targets : Readable[t].builds \subseteq had[t]
  BY ReadableIs DEF LinesWereHad
<1> QED BY <1>1 DEF LinesWereHad, OnlyObservedIsRecorded

-------------------------------------------------------------------------------
(* The newest build *)

\* A set of builds that is not empty has a largest one, and it is in every window.
LEMMA TopIsThere ==
  ASSUME NEW S \in SUBSET Builds, S # {}
  PROVE  /\ Top(S) \in S /\ \A c \in S : Top(S) >= c
         /\ Top(S) \in Newest(S, Window)
<1> DEFINE Above(b) == {c \in S : c > b}
           R == StrictSubsetOrdering(Nat)
<1>0. S \subseteq Nat /\ IsFiniteSet(S)
  BY AuthorityAssumption, FS_Subset
<1>1. {Above(b) : b \in S} \subseteq FiniteSubsetsOf(Nat)
  BY <1>0, FS_Subset DEF FiniteSubsetsOf
<1>2. PICK T \in {Above(b) : b \in S} :
          \A U \in {Above(b) : b \in S} : ~ (<<U, T>> \in R)
  <2>1. {Above(b) : b \in S} # {}
    OBVIOUS
  <2> HIDE DEF Above
  <2> QED BY <1>1, <2>1, FS_StrictSubsetOrderingWellFounded, WFMin
<1>3. PICK b \in S : T = Above(b)
  BY <1>2
<1>4. \A c \in S : b >= c
  <2> SUFFICES ASSUME NEW c \in S, c > b PROVE FALSE
    BY <1>0
  <2>1. Above(c) \subseteq Above(b) /\ c \in Above(b) /\ c \notin Above(c)
    <3>1. \A d \in S : d > c => d > b
      BY <1>0
    <3>2. ~ (c > c)
      BY <1>0
    <3> QED BY <3>1, <3>2
  <2>2. <<Above(c), Above(b)>> \in R
    BY <1>0, <2>1 DEF StrictSubsetOrdering
  <2>3. Above(c) \in {Above(d) : d \in S}
    OBVIOUS
  <2>4. ~ (<<Above(c), T>> \in R)
    BY ONLY <1>2, <2>3, Zenon
  <2> QED BY ONLY <1>3, <2>2, <2>4
<1> HIDE DEF R
<1>5. b = Max(S)
  <2>1. \A d \in S : (\A c \in S : d >= c) => d = b
    BY <1>0, <1>4
  <2> QED BY <1>4, <2>1, Zenon DEF Max
<1>6. {c \in S : c > b} = {}
  <2>1. \A c \in S : ~ (c > b)
    BY <1>0, <1>4
  <2> QED BY <2>1
<1>7. b \in Newest(S, Window)
  <2>1. Cardinality({}) = 0 /\ 0 < Window
    BY FS_EmptySet, PruneAssumption
  <2>2. Cardinality({c \in S : c > b}) < Window
    BY <1>6, <2>1, Zenon
  <2> QED BY <2>2, Zenon DEF Newest
<1> QED BY <1>4, <1>5, <1>7 DEF Top

\* What the policy answers is a build or nothing.
LEMMA DecideType ==
  ASSUME NEW r \in Policies, NEW S \in SUBSET Builds, NEW b \in Builds \cup {None}
  PROVE  Decide(r, b, Top(S)) \in Builds \cup {None}
<1>1. Top(S) \in Builds \cup {None}
  BY TopIsThere DEF Top
<1> QED BY <1>1 DEF Decide, Policies

-------------------------------------------------------------------------------
(* KeepSet for one target *)

\* Protected, of a rule, a history and what upstream said.
Must(r, h, x) ==
    ({r.pin} \ {None})
      \cup Newest(h.builds, Window)
      \cup (IF r.pin = None /\ ~r.hold /\ h.last = x THEN {x} \ {None} ELSE {})

\* What KeepSet keeps for a target it can answer for is all it must keep: b is what
\* it decides by, and x what upstream said, which is b unless the recording failed.
LEMMA KeptIsEnough ==
  ASSUME NEW r \in Policies, NEW h \in Histories,
         NEW b \in Builds \cup {None}, NEW x \in Builds \cup {None},
         x \in {None, b} \/ h.last # x,
         b # None => b \in h.builds,
         NEW d, d = Decide(r, b, Top(h.builds)), d # None
  PROVE  /\ Must(r, h, x) # {}
         /\ Must(r, h, x) \subseteq ({d, r.pin} \ {None}) \cup Newest(h.builds, Window)
<1>1. h.builds \in SUBSET Builds
  BY DEF Histories
<1>2. h.builds # {} => Newest(h.builds, Window) # {}
  BY <1>1, TopIsThere
<1>3. r.pin # None \/ h.builds # {}
  BY DEF Decide, Top
<1>4. r.pin = None /\ ~r.hold /\ b # None => d = b
  BY DEF Decide
<1> HIDE DEF Newest
<1> QED BY <1>2, <1>3, <1>4 DEF Must

\* What one turn of the loop changes.
LEMMA KeepsOne ==
  ASSUME TypeOK, NEW t \in Targets, NEW b \in Builds \cup {None},
         NEW h \in [Targets -> Histories], Keeps(t, b, h)
  PROVE  /\ left' = left \ {t}
         /\ keep' \in [Targets -> SUBSET Builds] /\ failed' \in BOOLEAN
         /\ \A u \in Targets \ {t} : keep'[u] = keep[u]
         /\ ~failed' =>
              /\ ~failed
              /\ Decide(rule[t], b, Top(h[t].builds)) # None
              /\ keep'[t] = KeptBuilds(t, Decide(rule[t], b, Top(h[t].builds)), h)
<1> DEFINE d == Decide(rule[t], b, Top(h[t].builds))
<1>1. rule[t] \in Policies /\ h[t].builds \in SUBSET Builds
  BY DEF TypeOK, Histories
<1>2. d \in Builds \cup {None}
  BY <1>1, DecideType
<1>3. Newest(h[t].builds, Window) \subseteq Builds
  BY <1>1 DEF Newest
<1> HIDE DEF d
<1>4. KeptBuilds(t, d, h) \in SUBSET Builds
  BY <1>1, <1>2, <1>3 DEF KeptBuilds, Policies
<1>5. keep' = [keep EXCEPT ![t] = IF d = None THEN {} ELSE KeptBuilds(t, d, h)]
      /\ failed' = (failed \/ d = None) /\ left' = left \ {t}
  BY DEF Keeps, d
<1> QED BY <1>4, <1>5 DEF TypeOK, d

-------------------------------------------------------------------------------
(* The invariant *)

LEMMA InitIInv == Init => IInv
<1> SUFFICES ASSUME Init PROVE IInv
  OBVIOUS
<1> USE AuthorityAssumption, PruneAssumption
<1>1. TypeOK
  <2>1. rule \in [Targets -> Policies] /\ upstream \in [Targets -> Builds]
    BY DEF Init, AuthorityInit
  <2>2. log \in [Targets -> Histories] /\ view \in [Targets -> Histories]
    BY DEF Init, AuthorityInit, NoHistory, Histories
  <2>3. had \in [Targets -> SUBSET Builds]
    BY <2>1 DEF Init, AuthorityInit
  <2> QED BY <2>1, <2>2, <2>3 DEF Init, AuthorityInit, TypeOK
<1>2. LinesWereHad /\ LastIsListed /\ ToldWasHad /\ UpstreamWasHad
  BY DEF Init, AuthorityInit, NoHistory, LinesWereHad, LastIsListed,
         ToldWasHad, UpstreamWasHad, Resolving
<1>3. TurnsAreTaken /\ AnswersAreWhole /\ IndexesAreRead
  BY DEF Init, AuthorityInit, TurnsAreTaken, AnswersAreWhole, IndexesAreRead,
         Resolving, Deleting, Actors
<1> QED BY <1>1, <1>2, <1>3 DEF IInv, Safety

\* Two steps that write the log: what a line adds is a build t had.
LEMMA AppendAdds ==
  ASSUME TypeOK, LastIsListed, NEW t \in Targets, NEW b \in Builds, Append(t, b)
  PROVE  /\ log' \in [Targets -> Histories] /\ tail' = None
         /\ \A u \in Targets : /\ log'[u].builds \subseteq log[u].builds \cup (IF u = t THEN {b} ELSE {})
                               /\ log[u].builds \subseteq log'[u].builds
                               /\ log'[u].last \in log'[u].builds \cup {None}
<1>1. CASE tail # None
  BY <1>1 DEF Append, TypeOK, LastIsListed
<1>2. CASE tail = None
  <2>1. log' = [log EXCEPT ![t] = [last |-> b, builds |-> log[t].builds \cup {b}]]
    BY <1>2 DEF Append, Lines
  <2>2. log'[t] = [last |-> b, builds |-> log[t].builds \cup {b}]
        /\ \A u \in Targets \ {t} : log'[u] = log[u]
    BY <2>1 DEF TypeOK
  <2>3. log' \in [Targets -> Histories]
    BY <2>1 DEF TypeOK, Histories
  <2>4. log'[t].last = b /\ log'[t].builds = log[t].builds \cup {b}
    BY <2>2
  <2>5. tail' = None
    BY DEF Append
  <2> QED BY <2>2, <2>3, <2>4, <2>5 DEF LastIsListed
<1> QED BY <1>1, <1>2 DEF TypeOK

\* A step that leaves the pruner where it is, or within a resolution, its answers and
\* files alone, and takes nothing from what upstream has had, keeps the pruner's part.
LEMMA PrunerUndisturbed ==
  ASSUME IInv, UNCHANGED <<rule, keepVars, fileVars>>,
         \/ pc'[Pruner] = pc[Pruner]
         \/ pc[Pruner] \in Resolving /\ pc'[Pruner] \in Resolving,
         subject'[Pruner] = subject[Pruner], told'[Pruner] = told[Pruner]
  PROVE  TurnsAreTaken' /\ AnswersAreWhole' /\ IndexesAreRead'
<1> USE DEF IInv, Safety, keepVars, fileVars, Resolving, Deleting
<1>1. TurnsAreTaken'
  BY DEF TurnsAreTaken
<1>2. AnswersAreWhole'
  BY DEF AnswersAreWhole, Answered, Protected
<1>3. IndexesAreRead'
  BY DEF IndexesAreRead
<1> QED BY <1>1, <1>2, <1>3

\* Everybody else's steps, the resolutions included.
LEMMA SurroundingsKeep ==
  ASSUME IInv, Surroundings, UNCHANGED <<keepVars, fileVars>>
  PROVE  IInv' /\ \A t \in Targets : log[t].builds \subseteq log'[t].builds
<1> DEFINE LogGrows == \A t \in Targets : log[t].builds \subseteq log'[t].builds
<1> USE DEF IInv, Safety, keepVars, fileVars, Resolving
<1>1. ASSUME NEW t \in Targets, PublishBuild(t)
      PROVE  IInv' /\ LogGrows
  <2> USE <1>1 DEF PublishBuild, logVars, actorVars
  <2>1. PICK b \in Upstream[t] : /\ upstream' = [upstream EXCEPT ![t] = b]
                                 /\ had' = [had EXCEPT ![t] = @ \cup {b}]
    OBVIOUS
  <2>2. b \in Builds
    BY AuthorityAssumption
  <2>3. \A u \in Targets : had[u] \subseteq had'[u] /\ upstream'[u] \in had'[u]
    BY <2>1 DEF TypeOK, UpstreamWasHad
  <2>4. TypeOK'
    BY <2>1, <2>2 DEF TypeOK
  <2>5. LinesWereHad' /\ LastIsListed' /\ ToldWasHad' /\ UpstreamWasHad' /\ LogGrows
    BY <2>3 DEF LinesWereHad, LastIsListed, ToldWasHad, UpstreamWasHad
  <2>6. TurnsAreTaken' /\ AnswersAreWhole' /\ IndexesAreRead'
    BY PrunerUndisturbed
  <2> QED BY <2>4, <2>5, <2>6
<1>2. ASSUME NEW a \in Observers, Ask(a)
      PROVE  IInv' /\ LogGrows
  <2> USE <1>2 DEF Ask, upstreamVars, logVars
  <2>0. a # Pruner /\ a \in Actors /\ Pruner \in Actors
    BY AuthorityAssumption DEF Actors
  <2>1. PICK t \in Targets, b \in Builds : b \in had[t] /\ Goes(a, "asked", t, b)
    BY DEF TypeOK
  <2>3. TypeOK'
    BY <2>1 DEF TypeOK, Goes
  <2>4. LinesWereHad' /\ LastIsListed' /\ UpstreamWasHad' /\ LogGrows
    BY DEF LinesWereHad, LastIsListed, UpstreamWasHad
  <2>5. ToldWasHad'
    BY <2>1, <2>0 DEF ToldWasHad, Goes, TypeOK
  <2>6. TurnsAreTaken' /\ AnswersAreWhole' /\ IndexesAreRead'
    BY <2>0, <2>1, PrunerUndisturbed DEF Goes, TypeOK
  <2> QED BY <2>3, <2>4, <2>5, <2>6
<1>3. ASSUME NEW a \in Observers, Resolved(a)
      PROVE  IInv' /\ LogGrows
  <2> USE <1>3 DEF Resolved, upstreamVars, logVars
  <2>0. a # Pruner /\ a \in Actors /\ Pruner \in Actors
    BY AuthorityAssumption DEF Actors
  <2>1. Goes(a, "idle", None, None)
    OBVIOUS
  <2>3. TypeOK'
    BY <2>1 DEF TypeOK, Goes
  <2>4. LinesWereHad' /\ LastIsListed' /\ UpstreamWasHad' /\ LogGrows
    BY DEF LinesWereHad, LastIsListed, UpstreamWasHad
  <2>5. ToldWasHad'
    BY <2>1, <2>0 DEF ToldWasHad, Goes, TypeOK
  <2>6. TurnsAreTaken' /\ AnswersAreWhole' /\ IndexesAreRead'
    BY <2>0, <2>1, PrunerUndisturbed DEF Goes, TypeOK
  <2> QED BY <2>3, <2>4, <2>5, <2>6
<1>4. ASSUME NEW a \in Actors, ReadLog(a)
      PROVE  IInv' /\ LogGrows
  <2> USE <1>4 DEF ReadLog, upstreamVars, logVars
  <2>0. Pruner \in Actors
    BY DEF Actors
  <2>1. PICK s \in {"recorded", "recording"} : Goes(a, s, subject[a], told[a])
    OBVIOUS
  <2>3. TypeOK'
    BY <2>1 DEF TypeOK, Goes
  <2>4. LinesWereHad' /\ LastIsListed' /\ UpstreamWasHad' /\ LogGrows
    BY DEF LinesWereHad, LastIsListed, UpstreamWasHad
  <2>5. ToldWasHad'
    BY <2>1 DEF ToldWasHad, Goes, TypeOK
  <2>6. TurnsAreTaken' /\ AnswersAreWhole' /\ IndexesAreRead'
    BY <2>0, <2>1, PrunerUndisturbed DEF Goes, TypeOK
  <2> QED BY <2>3, <2>4, <2>5, <2>6
<1>5. ASSUME NEW a \in Actors, WriteLog(a)
      PROVE  IInv' /\ LogGrows
  <2> USE <1>5 DEF WriteLog, upstreamVars, Recorded
  <2>0. Pruner \in Actors
    BY DEF Actors
  <2>1. Goes(a, "recorded", subject[a], told[a])
    OBVIOUS
  <2>2. subject[a] \in Targets /\ told[a] \in had[subject[a]] /\ told[a] \in Builds
    BY DEF ToldWasHad, TypeOK
  <2>3. /\ log' \in [Targets -> Histories] /\ tail' \in {None, Torn} \cup Targets \X Builds
        /\ \A u \in Targets, b \in Builds : tail' = <<u, b>> => b \in had[u]
        /\ \A u \in Targets : /\ log[u].builds \subseteq log'[u].builds
                              /\ log'[u].builds \subseteq had[u]
                              /\ log'[u].last \in log'[u].builds \cup {None}
    <3>1. CASE Append(subject[a], told[a])
      <4>1. tail' = None
        BY <3>1 DEF Append
      <4>2. \A u \in Targets, b \in Builds : tail' # <<u, b>>
        BY <4>1, AuthorityAssumption
      <4> QED BY <2>2, <3>1, <4>1, <4>2, AppendAdds DEF LinesWereHad
    <3>2. CASE AppendTears(subject[a], told[a])
      <4>1. log' = log /\ tail' \in {tail, Torn, <<subject[a], told[a]>>}
        BY <3>2 DEF AppendTears
      <4>2. \A u \in Targets, b \in Builds : tail' = <<u, b>> => b \in had[u]
        BY <2>2, <4>1, AuthorityAssumption DEF LinesWereHad
      <4> QED BY <2>2, <4>1, <4>2 DEF TypeOK, LinesWereHad, LastIsListed
    <3> QED BY <3>1, <3>2
  <2>4. TypeOK'
    BY <2>1, <2>3 DEF TypeOK, Goes
  <2>5. LinesWereHad' /\ LastIsListed' /\ UpstreamWasHad' /\ LogGrows
    BY <2>3 DEF LinesWereHad, LastIsListed, UpstreamWasHad
  <2>6. ToldWasHad'
    BY <2>1 DEF ToldWasHad, Goes, TypeOK
  <2>7. TurnsAreTaken' /\ AnswersAreWhole' /\ IndexesAreRead'
    BY <2>0, <2>1, PrunerUndisturbed DEF Goes, TypeOK
  <2> QED BY <2>4, <2>5, <2>6, <2>7
<1> QED BY <1>1, <1>2, <1>3, <1>4, <1>5 DEF Surroundings

\* What does not read the pruner's variables.
LogPart == LinesWereHad /\ LastIsListed /\ ToldWasHad /\ UpstreamWasHad

\* A step of the pruner that moves nobody else, from outside a resolution.
LEMMA StepsKeep ==
  ASSUME IInv, NEW from, NEW to, Steps(from, to), to \notin Resolving,
         view' \in [Targets -> Histories],
         \A t \in Targets : /\ view'[t].builds \subseteq had[t]
                            /\ view'[t].last \in view'[t].builds \cup {None}
  PROVE  LogPart'
<1> USE DEF Steps, IInv, Safety, LogPart, upstreamVars, logVars
<1>1. LinesWereHad' /\ LastIsListed' /\ UpstreamWasHad'
  BY DEF LinesWereHad, LastIsListed, UpstreamWasHad
<1>2. ToldWasHad'
  BY DEF ToldWasHad, TypeOK, Resolving
<1> QED BY <1>1, <1>2

LEMMA StoreKeeps ==
  ASSUME IInv, NEW f \in Payloads, Store(f)
  PROVE  IInv'
<1> USE DEF Store, IInv, Safety, authorityVars, upstreamVars, logVars, actorVars, keepVars
<1>1. TypeOK'
  BY DEF TypeOK
<1>2. LogPart'
  BY DEF LogPart, LinesWereHad, LastIsListed, ToldWasHad, UpstreamWasHad
<1>3. TurnsAreTaken' /\ AnswersAreWhole' /\ IndexesAreRead'
  BY DEF TurnsAreTaken, AnswersAreWhole, Answered, Protected, IndexesAreRead
<1> QED BY <1>1, <1>2, <1>3 DEF LogPart

LEMMA EndsKeep ==
  ASSUME IInv, NEW from, Ends(from)
  PROVE  IInv'
<1> USE DEF Ends
<1>1. TypeOK'
  BY DEF IInv, TypeOK, Steps, NoHistory, Histories, upstreamVars, logVars
<1>2. LogPart'
  <2>1. NoHistory \in [Targets -> Histories]
    BY DEF NoHistory, Histories
  <2>2. \A t \in Targets : NoHistory[t].builds = {} /\ NoHistory[t].last = None
    BY DEF NoHistory
  <2>3. view' = NoHistory /\ "idle" \notin Resolving
    BY DEF Resolving
  <2> QED BY <2>1, <2>2, <2>3, StepsKeep
<1>3. pc'[Pruner] = "idle" /\ left' = {} /\ heard' = [t \in Targets |-> None]
  BY DEF IInv, TypeOK, Steps, Actors
<1>4. TurnsAreTaken' /\ AnswersAreWhole' /\ IndexesAreRead'
  BY <1>3 DEF TurnsAreTaken, AnswersAreWhole, IndexesAreRead, Resolving, Deleting
<1> QED BY <1>1, <1>2, <1>4 DEF IInv, Safety, LogPart

LEMMA OpenKeeps ==
  ASSUME IInv, Open
  PROVE  IInv'
<1> USE DEF Open, fileVars
<1>r. /\ Readable \in [Targets -> Histories]
      /\ \A t \in Targets : /\ Readable[t].builds \subseteq had[t]
                            /\ Readable[t].last \in Readable[t].builds \cup {None}
  BY ReadableIs DEF IInv, Safety, LinesWereHad
<1>1. TypeOK'
  <2>1. \A r \in Requests : r.targets \subseteq Targets
    BY PruneAssumption
  <2> QED BY <1>r, <2>1 DEF IInv, TypeOK, Steps, upstreamVars, logVars
<1>2. LogPart'
  BY <1>r, StepsKeep DEF IInv, Safety, TypeOK, Resolving
<1>3. pc[Pruner] = "idle" /\ pc'[Pruner] = "keeping"
  BY DEF IInv, TypeOK, Steps, Actors
<1>5. TurnsAreTaken' /\ AnswersAreWhole' /\ IndexesAreRead'
  <2>1. request' \in Requests /\ left' = request'.targets /\ left' \subseteq Targets
    BY PruneAssumption
  <2>2. TurnsAreTaken'
    BY <1>3, <2>1 DEF IInv, Safety, TurnsAreTaken, Resolving, Deleting
  <2>3. AnswersAreWhole' /\ IndexesAreRead'
    BY <1>3, <2>1 DEF AnswersAreWhole, IndexesAreRead, Deleting
  <2> QED BY <2>2, <2>3
<1> QED BY <1>1, <1>2, <1>5 DEF IInv, Safety, LogPart

LEMMA DiscoverKeeps ==
  ASSUME IInv, NEW t \in Targets, Discover(t)
  PROVE  IInv'
<1> USE DEF Discover, fileVars, upstreamVars, logVars
<1>1. pc[Pruner] = "keeping" /\ t \in left
      /\ pc' = [pc EXCEPT ![Pruner] = "asked"]
      /\ subject' = [subject EXCEPT ![Pruner] = t]
      /\ told' = [told EXCEPT ![Pruner] = upstream[t]]
      /\ heard' = [heard EXCEPT ![t] = upstream[t]]
  BY DEF Goes
<1>2. pc'[Pruner] = "asked" /\ subject'[Pruner] = t /\ told'[Pruner] = upstream[t]
      /\ heard'[t] = upstream[t] /\ \A u \in Targets \ {t} : heard'[u] = heard[u]
  BY <1>1 DEF IInv, TypeOK, Actors
<1>3. TypeOK'
  BY <1>1 DEF IInv, TypeOK
<1>4. LogPart'
  <2>1. LinesWereHad' /\ LastIsListed' /\ UpstreamWasHad'
    BY DEF IInv, Safety, LinesWereHad, LastIsListed, UpstreamWasHad
  <2>2. ToldWasHad'
    BY <1>1, <1>2 DEF IInv, Safety, ToldWasHad, UpstreamWasHad, TypeOK, Actors
  <2> QED BY <2>1, <2>2 DEF LogPart
<1>5. TurnsAreTaken' /\ IndexesAreRead'
  BY <1>1, <1>2 DEF IInv, Safety, TurnsAreTaken, IndexesAreRead, Resolving, Deleting, TypeOK
<1>6. AnswersAreWhole'
  <2>1. request \in Requests /\ request.targets \subseteq Targets
    BY <1>1, PruneAssumption DEF IInv, Safety, TurnsAreTaken
  <2>2. \A u \in request.targets \ left : Answered(u) => Answered(u)'
    BY <1>1, <1>2, <2>1 DEF Answered, Protected
  <2> QED BY <1>1, <2>2 DEF IInv, Safety, AnswersAreWhole
<1> QED BY <1>3, <1>4, <1>5, <1>6 DEF IInv, Safety, LogPart

\* The end of a turn of the loop: t is answered by b and the view the pruner now has.
LEMMA TurnKeeps ==
  ASSUME IInv, NEW t \in left, NEW b \in Builds \cup {None},
         pc[Pruner] \in Resolving => t = subject[Pruner],
         pc[Pruner] \in Resolving \cup {"keeping"}, pc'[Pruner] = "keeping",
         view' \in [Targets -> Histories],
         \A u \in Targets \ {t} : view'[u] = view[u],
         Keeps(t, b, view'),
         UNCHANGED <<rule, request, heard, fileVars>>,
         heard[t] \in {None, b} \/ view'[t].last # heard[t],
         b # None => b \in view'[t].builds
  PROVE  /\ TurnsAreTaken' /\ AnswersAreWhole' /\ IndexesAreRead'
         /\ left' \subseteq Targets /\ keep' \in [Targets -> SUBSET Builds] /\ failed' \in BOOLEAN
<1> USE DEF IInv, Safety
<1>0. /\ t \in Targets /\ rule[t] \in Policies /\ view'[t] \in Histories
      /\ heard[t] \in Builds \cup {None}
      /\ request \in Requests /\ left \subseteq request.targets
      /\ request.targets \subseteq Targets
      /\ pc[Pruner] # "idle"
  <2>1. pc[Pruner] # "idle"
    BY DEF Resolving
  <2> QED BY <2>1, PruneAssumption DEF TypeOK, TurnsAreTaken
<1> DEFINE d == Decide(rule[t], b, Top(view'[t].builds))
<1>1. /\ left' = left \ {t}
      /\ keep' \in [Targets -> SUBSET Builds] /\ failed' \in BOOLEAN
      /\ \A u \in Targets \ {t} : keep'[u] = keep[u]
      /\ ~failed' => ~failed /\ d # None /\ keep'[t] = KeptBuilds(t, d, view')
  BY <1>0, KeepsOne
<1>2. TurnsAreTaken'
  BY <1>0, <1>1 DEF TurnsAreTaken, Resolving, Deleting
<1>3. ~failed' => Answered(t)'
  <2> SUFFICES ASSUME ~failed' PROVE Answered(t)'
    OBVIOUS
  <2>1. /\ Must(rule[t], view'[t], heard[t]) # {}
        /\ Must(rule[t], view'[t], heard[t])
             \subseteq ({d, rule[t].pin} \ {None}) \cup Newest(view'[t].builds, Window)
    <3> HIDE DEF d
    <3>1. d = Decide(rule[t], b, Top(view'[t].builds)) /\ d # None
      BY <1>1 DEF d
    <3> QED BY <1>0, <3>1, KeptIsEnough
  <2>2. Protected(t)' = Must(rule[t], view'[t], heard[t])
    BY DEF Protected, Must
  <2>3. keep'[t] = ({d, rule[t].pin} \ {None}) \cup Newest(view'[t].builds, Window)
    BY <1>1 DEF KeptBuilds
  <2> QED BY <2>1, <2>2, <2>3 DEF Answered
<1>4. ASSUME NEW u \in request.targets \ left, Answered(u)
      PROVE  Answered(u)'
  <2>1. u \in Targets \ {t}
    BY <1>0
  <2> QED BY <1>1, <1>4, <2>1 DEF Answered, Protected
<1>5. AnswersAreWhole'
  BY <1>0, <1>1, <1>3, <1>4 DEF AnswersAreWhole
<1>6. IndexesAreRead'
  BY DEF IndexesAreRead, Deleting
<1> QED BY <1>0, <1>1, <1>2, <1>5, <1>6 DEF TypeOK

LEMMA DiscoverFailsKeeps ==
  ASSUME IInv, NEW t \in Targets, DiscoverFails(t)
  PROVE  IInv'
<1> USE DEF DiscoverFails, authorityVars, upstreamVars, logVars, actorVars
<1>1. heard[t] = None
  BY DEF IInv, Safety, TurnsAreTaken, Resolving
<1>2. TurnsAreTaken' /\ AnswersAreWhole' /\ IndexesAreRead' /\ left' \subseteq Targets
      /\ keep' \in [Targets -> SUBSET Builds] /\ failed' \in BOOLEAN
  <2>1. view' \in [Targets -> Histories] /\ \A u \in Targets \ {t} : view'[u] = view[u]
    BY DEF IInv, TypeOK
  <2>2. Keeps(t, None, view')
    OBVIOUS
  <2> QED BY <1>1, <2>1, <2>2, TurnKeeps DEF Resolving
<1>3. TypeOK'
  BY <1>2 DEF IInv, TypeOK, fileVars
<1>4. LogPart'
  BY DEF IInv, Safety, LogPart, LinesWereHad, LastIsListed, ToldWasHad, UpstreamWasHad
<1> QED BY <1>2, <1>3, <1>4 DEF IInv, Safety, LogPart

LEMMA DiscoveredKeeps ==
  ASSUME IInv, Discovered
  PROVE  IInv' /\ \A t \in Targets : log[t].builds \subseteq log'[t].builds
<1> DEFINE t == subject[Pruner]
           b == told[Pruner]
<1> USE DEF Discovered, upstreamVars
<1>1. /\ t \in Targets /\ t \in left /\ b \in had[t] /\ b \in Builds /\ heard[t] = b
      /\ pc[Pruner] = "recorded" /\ pc[Pruner] \in Resolving /\ Pruner \in Actors
  BY DEF IInv, Safety, TurnsAreTaken, ToldWasHad, TypeOK, Resolving, Actors
<1>2. pc' = [pc EXCEPT ![Pruner] = "keeping"] /\ subject' = [subject EXCEPT ![Pruner] = None]
      /\ told' = [told EXCEPT ![Pruner] = None]
  BY DEF Goes
<1>3. /\ Keeps(t, b, view') /\ view' \in [Targets -> Histories]
      /\ \A u \in Targets \ {t} : view'[u] = view[u]
      /\ b \in view'[t].builds /\ view'[t].last = b
      /\ view'[t].builds = view[t].builds \cup {b}
  <2>1. CASE view[t].last = b /\ Keeps(t, b, view) /\ UNCHANGED <<view, logVars>>
    <3>1. b \in view[t].builds
      BY <1>1, <2>1, AuthorityAssumption DEF IInv, Safety, LastIsListed
    <3> QED BY <2>1, <3>1 DEF IInv, TypeOK
  <2>2. CASE Append(t, b) /\ view' = Lines(view, t, b) /\ Keeps(t, b, view')
    <3>1. view' = [view EXCEPT ![t] = [last |-> b, builds |-> view[t].builds \cup {b}]]
      BY <2>2 DEF Lines
    <3>2. view'[t] = [last |-> b, builds |-> view[t].builds \cup {b}]
      BY <1>1, <3>1 DEF IInv, TypeOK
    <3>3. view' \in [Targets -> Histories]
      BY <1>1, <3>1 DEF IInv, TypeOK, Histories
    <3> QED BY <2>2, <3>1, <3>2, <3>3 DEF IInv, TypeOK
  <2> QED BY <2>1, <2>2
<1>4. /\ log' \in [Targets -> Histories] /\ tail' \in {None, Torn} \cup Targets \X Builds
      /\ \A u \in Targets, c \in Builds : tail' = <<u, c>> => c \in had[u]
      /\ \A u \in Targets : /\ log[u].builds \subseteq log'[u].builds
                            /\ log'[u].builds \subseteq had[u]
                            /\ log'[u].last \in log'[u].builds \cup {None}
  <2>1. CASE Append(t, b)
    <3>1. tail' = None
      BY <2>1 DEF Append
    <3>2. \A u \in Targets, c \in Builds : tail' # <<u, c>>
      BY <3>1, AuthorityAssumption
    <3> QED BY <1>1, <2>1, <3>1, <3>2, AppendAdds DEF IInv, Safety, LinesWereHad
  <2>2. CASE UNCHANGED <<view, logVars>>
    BY <2>2 DEF IInv, Safety, TypeOK, LinesWereHad, LastIsListed, logVars
  <2> QED BY <2>1, <2>2
<1>5. TurnsAreTaken' /\ AnswersAreWhole' /\ IndexesAreRead' /\ left' \subseteq Targets
      /\ keep' \in [Targets -> SUBSET Builds] /\ failed' \in BOOLEAN
  <2>1. pc'[Pruner] = "keeping"
    BY <1>1, <1>2 DEF IInv, TypeOK
  <2> QED BY <1>1, <1>3, <2>1, TurnKeeps
<1>6. TypeOK'
  BY <1>2, <1>3, <1>4, <1>5 DEF IInv, TypeOK, fileVars
<1>7. LinesWereHad' /\ LastIsListed'
  <2>1. \A u \in Targets : /\ view'[u].builds \subseteq had[u]
                           /\ view'[u].last \in view'[u].builds \cup {None}
    BY <1>1, <1>3 DEF IInv, Safety, LinesWereHad, LastIsListed
  <2> QED BY <1>4, <2>1 DEF LinesWereHad, LastIsListed
<1>8. ToldWasHad' /\ UpstreamWasHad'
  BY <1>1, <1>2 DEF IInv, Safety, ToldWasHad, UpstreamWasHad, TypeOK, Resolving
<1> QED BY <1>4, <1>5, <1>6, <1>7, <1>8 DEF IInv, Safety

LEMMA RecordFailsKeeps ==
  ASSUME IInv, RecordFails
  PROVE  IInv'
<1> DEFINE t == subject[Pruner]
<1> USE DEF RecordFails, AppendTears, upstreamVars
<1>1. /\ t \in Targets /\ t \in left /\ told[Pruner] \in had[t] /\ told[Pruner] \in Builds
      /\ heard[t] = told[Pruner] /\ view[t].last # told[Pruner]
      /\ pc[Pruner] \in Resolving /\ Pruner \in Actors
  BY DEF IInv, Safety, TurnsAreTaken, ToldWasHad, TypeOK, Resolving, Actors
<1>2. pc' = [pc EXCEPT ![Pruner] = "keeping"] /\ subject' = [subject EXCEPT ![Pruner] = None]
      /\ told' = [told EXCEPT ![Pruner] = None]
  BY DEF Goes
<1>l. log' = log /\ tail' \in {tail, Torn, <<t, told[Pruner]>>}
  OBVIOUS
<1> HIDE DEF AppendTears
<1>3. TurnsAreTaken' /\ AnswersAreWhole' /\ IndexesAreRead' /\ left' \subseteq Targets
      /\ keep' \in [Targets -> SUBSET Builds] /\ failed' \in BOOLEAN
  <2>1. pc'[Pruner] = "keeping"
    BY <1>1, <1>2 DEF IInv, TypeOK
  <2>2. view' \in [Targets -> Histories] /\ \A u \in Targets \ {t} : view'[u] = view[u]
    BY DEF IInv, TypeOK
  <2>3. Keeps(t, None, view')
    OBVIOUS
  <2>4. view'[t].last # heard[t]
    BY <1>1
  <2> QED BY <1>1, <2>1, <2>2, <2>3, <2>4, TurnKeeps
<1>4. TypeOK'
  BY <1>1, <1>2, <1>3, <1>l DEF IInv, TypeOK, fileVars
<1>5. LogPart'
  <2>1. \A u \in Targets, b \in Builds : tail' = <<u, b>> => b \in had[u]
    BY <1>1, <1>l, AuthorityAssumption DEF IInv, Safety, LinesWereHad
  <2>2. LinesWereHad' /\ LastIsListed'
    BY <1>l, <2>1 DEF IInv, Safety, LinesWereHad, LastIsListed
  <2>3. ToldWasHad' /\ UpstreamWasHad'
    BY <1>1, <1>2 DEF IInv, Safety, ToldWasHad, UpstreamWasHad, TypeOK, Resolving
  <2> QED BY <2>2, <2>3 DEF LogPart
<1> QED BY <1>3, <1>4, <1>5 DEF IInv, Safety, LogPart

-------------------------------------------------------------------------------
(* The prune *)

\* A step of the prune itself leaves the answers as they are.
LEMMA PruneStep ==
  ASSUME IInv, NEW from, NEW to, Steps(from, to), UNCHANGED keepVars,
         to \in Deleting, from \in Deleting \/ (left = {} /\ ~failed), from # "idle",
         from \notin Resolving
  PROVE  /\ LogPart' /\ TurnsAreTaken' /\ AnswersAreWhole'
         /\ pc' \in [Actors -> {"idle", "asked", "recording", "recorded",
                                "keeping", "opening", "removing"}]
         /\ pc[Pruner] = from /\ pc'[Pruner] = to
<1> USE DEF keepVars, Deleting, Resolving
<1>1. pc[Pruner] = from /\ pc'[Pruner] = to
      /\ pc' \in [Actors -> {"idle", "asked", "recording", "recorded",
                             "keeping", "opening", "removing"}]
  BY DEF Steps, IInv, TypeOK, Actors
<1>2. LogPart'
  BY StepsKeep DEF IInv, Safety, TypeOK, LastIsListed, LinesWereHad
<1>3. TurnsAreTaken'
  BY <1>1 DEF IInv, Safety, TurnsAreTaken, Steps
<1>4. AnswersAreWhole'
  BY <1>1 DEF IInv, Safety, AnswersAreWhole, Answered, Protected, Steps
<1> QED BY <1>1, <1>2, <1>3, <1>4

LEMMA KeptKeeps ==
  ASSUME IInv, Kept
  PROVE  IInv'
<1> USE DEF Kept
<1>1. /\ LogPart' /\ TurnsAreTaken' /\ AnswersAreWhole' /\ pc'[Pruner] = "opening"
      /\ pc[Pruner] = "keeping"
      /\ pc' \in [Actors -> {"idle", "asked", "recording", "recorded",
                             "keeping", "opening", "removing"}]
  BY PruneStep DEF Deleting, Resolving
<1>2. request \in Requests /\ request.exact \subseteq Targets
  BY <1>1, PruneAssumption DEF IInv, Safety, TurnsAreTaken
<1>3. IndexesAreRead'
  <2> SUFFICES ASSUME NEW t \in request.exact, NEW b \in keep[t]
               PROVE  <<t, b>> \in unread'
    BY <1>1 DEF IndexesAreRead, keepVars
  <2>1. t \in Targets /\ b \in Builds
    BY <1>2 DEF IInv, TypeOK
  <2> QED BY <2>1
<1>4. TypeOK'
  BY <1>1 DEF IInv, TypeOK, Steps, keepVars, upstreamVars, logVars
<1> QED BY <1>1, <1>3, <1>4 DEF IInv, Safety, LogPart

LEMMA OpenIndexKeeps ==
  ASSUME IInv, NEW i \in Targets \X Builds, OpenIndex(i)
  PROVE  IInv'
<1> USE DEF OpenIndex
<1>1. /\ LogPart' /\ TurnsAreTaken' /\ AnswersAreWhole'
      /\ pc'[Pruner] = "opening" /\ pc[Pruner] = "opening"
      /\ pc' \in [Actors -> {"idle", "asked", "recording", "recorded",
                             "keeping", "opening", "removing"}]
  <2>1. Steps("opening", "opening") /\ UNCHANGED keepVars
    OBVIOUS
  <2>2. "opening" \in Deleting /\ "opening" \in Deleting /\ "opening" \notin Resolving /\ "opening" # "idle"
    BY DEF Deleting, Resolving
  <2> QED BY <2>1, <2>2, PruneStep
<1>2. IndexesAreRead'
  BY <1>1 DEF IInv, Safety, IndexesAreRead, Deleting, keepVars
<1>3. TypeOK'
  BY <1>1, PruneAssumption DEF IInv, TypeOK, Steps, keepVars, upstreamVars, logVars
<1> QED BY <1>1, <1>2, <1>3 DEF IInv, Safety, LogPart

LEMMA WalkKeeps ==
  ASSUME IInv, Walk
  PROVE  IInv'
<1> USE DEF Walk
<1>1. /\ LogPart' /\ TurnsAreTaken' /\ AnswersAreWhole'
      /\ pc'[Pruner] = "removing" /\ pc[Pruner] = "opening"
      /\ pc' \in [Actors -> {"idle", "asked", "recording", "recorded",
                             "keeping", "opening", "removing"}]
  <2>1. Steps("opening", "removing") /\ UNCHANGED keepVars
    OBVIOUS
  <2>2. "removing" \in Deleting /\ "opening" \in Deleting /\ "opening" \notin Resolving /\ "opening" # "idle"
    BY DEF Deleting, Resolving
  <2> QED BY <2>1, <2>2, PruneStep
<1>2. IndexesAreRead'
  BY <1>1 DEF IInv, Safety, IndexesAreRead, Deleting, keepVars
<1>3. TypeOK'
  BY <1>1 DEF IInv, TypeOK, Steps, keepVars, upstreamVars, logVars
<1> QED BY <1>1, <1>2, <1>3 DEF IInv, Safety, LogPart

LEMMA RemoveKeeps ==
  ASSUME IInv, NEW f \in Payloads, Remove(f)
  PROVE  IInv'
<1> USE DEF Remove
<1>1. /\ LogPart' /\ TurnsAreTaken' /\ AnswersAreWhole'
      /\ pc'[Pruner] = "removing" /\ pc[Pruner] = "removing"
      /\ pc' \in [Actors -> {"idle", "asked", "recording", "recorded",
                             "keeping", "opening", "removing"}]
  <2>1. Steps("removing", "removing") /\ UNCHANGED keepVars
    OBVIOUS
  <2>2. "removing" \in Deleting /\ "removing" \in Deleting /\ "removing" \notin Resolving /\ "removing" # "idle"
    BY DEF Deleting, Resolving
  <2> QED BY <2>1, <2>2, PruneStep
<1>2. IndexesAreRead'
  BY <1>1 DEF IInv, Safety, IndexesAreRead, Deleting, keepVars
<1>3. TypeOK'
  BY <1>1 DEF IInv, TypeOK, Steps, keepVars, upstreamVars, logVars
<1> QED BY <1>1, <1>2, <1>3 DEF IInv, Safety, LogPart

\* One step per disjunct of Next.
LEMMA NextIInv == IInv /\ [Next]_vars => IInv'
<1> SUFFICES ASSUME IInv, [Next]_vars PROVE IInv'
  OBVIOUS
<1>1. CASE Surroundings /\ UNCHANGED <<keepVars, fileVars>>
  BY <1>1, SurroundingsKeep
<1>2. ASSUME NEW f \in Payloads, Store(f) PROVE IInv'
  BY <1>2, StoreKeeps
<1>3. CASE Open
  BY <1>3, OpenKeeps
<1>4. CASE Discovered
  BY <1>4, DiscoveredKeeps
<1>5. CASE RecordFails
  BY <1>5, RecordFailsKeeps
<1>6. CASE Refuse
  BY <1>6, EndsKeep DEF Refuse
<1>7. CASE Kept
  BY <1>7, KeptKeeps
<1>8. CASE Walk
  BY <1>8, WalkKeeps
<1>9. CASE Done
  BY <1>9, EndsKeep DEF Done
<1>10. ASSUME NEW t \in Targets, Discover(t) PROVE IInv'
  BY <1>10, DiscoverKeeps
<1>11. ASSUME NEW t \in Targets, DiscoverFails(t) PROVE IInv'
  BY <1>11, DiscoverFailsKeeps
<1>12. ASSUME NEW i \in Targets \X Builds, OpenFails(i) PROVE IInv'
  BY <1>12, EndsKeep DEF OpenFails
<1>13. ASSUME NEW i \in Targets \X Builds, OpenIndex(i) PROVE IInv'
  BY <1>13, OpenIndexKeeps
<1>14. ASSUME NEW f \in Payloads, Remove(f) PROVE IInv'
  BY <1>14, RemoveKeeps
<1>15. CASE UNCHANGED vars
  <2> USE <1>15 DEF vars, authorityVars, upstreamVars, logVars, actorVars, keepVars, fileVars
  <2>1. TypeOK' /\ LogPart'
    BY DEF IInv, Safety, TypeOK, LogPart, LinesWereHad, LastIsListed, ToldWasHad,
           UpstreamWasHad
  <2>2. TurnsAreTaken' /\ AnswersAreWhole' /\ IndexesAreRead'
    BY PrunerUndisturbed
  <2> QED BY <2>1, <2>2 DEF IInv, Safety, LogPart
<1> QED BY <1>1, <1>2, <1>3, <1>4, <1>5, <1>6, <1>7, <1>8, <1>9, <1>10, <1>11, <1>12, <1>13,
           <1>14, <1>15 DEF Next, PruneSteps

THEOREM Invariance == Spec => []IInv
BY InitIInv, NextIInv, PTL DEF Spec

-------------------------------------------------------------------------------
(* What is promised *)

\* Every variable keeps its type.
THEOREM TypeCorrect == Spec => []TypeOK
<1>1. IInv => TypeOK
  BY DEF IInv
<1> QED BY <1>1, Invariance, PTL

\* No line of the log names a build that upstream never had, whatever the policy
\* (CjsToolIndex.js:270-273).
THEOREM LogIsOfUpstream == Spec => []OnlyObservedIsRecorded
<1>1. IInv => OnlyObservedIsRecorded
  BY ReadableWasHad DEF IInv, Safety
<1> QED BY <1>1, Invariance, PTL

\* What the log can be read to say never shrinks, though processes append by stale
\* views and to torn lines, except by the one line that lost its end, when the next
\* write spoils it (CjsToolBuildObservations.js:25-34, 108-115, 179-183).
THEOREM LogOnlyGrows == Spec => NothingForgotten
<1>1. ASSUME IInv, [Next]_vars
      PROVE  \A t \in Targets : log[t].builds \subseteq log'[t].builds
  <2>1. CASE Surroundings /\ UNCHANGED <<keepVars, fileVars>>
    BY <1>1, <2>1, SurroundingsKeep
  <2>2. CASE Discovered
    BY <1>1, <2>2, DiscoveredKeeps
  <2>3. CASE UNCHANGED log
    BY <2>3
  <2>4. ASSUME PruneSteps, ~Discovered PROVE UNCHANGED log
    <3> USE <2>4 DEF logVars
    <3>1. CASE Open \/ Kept \/ Walk
      BY <3>1 DEF Open, Kept, Walk, Steps
    <3>2. CASE Refuse \/ Done \/ \E i \in Targets \X Builds : OpenFails(i)
      BY <3>2 DEF Refuse, Done, OpenFails, Ends, Steps
    <3>3. CASE RecordFails
      BY <3>3 DEF RecordFails, AppendTears
    <3>4. CASE \E t \in Targets : Discover(t) \/ DiscoverFails(t)
      BY <3>4 DEF Discover, DiscoverFails, authorityVars
    <3>5. CASE \/ \E i \in Targets \X Builds : OpenIndex(i)
               \/ \E f \in Payloads : Remove(f)
      BY <3>5 DEF OpenIndex, Remove, Steps
    <3> QED BY <3>1, <3>2, <3>3, <3>4, <3>5 DEF PruneSteps
  <2>5. (\E f \in Payloads : Store(f)) \/ UNCHANGED vars => UNCHANGED log
    BY DEF Store, vars, authorityVars, logVars
  <2> QED BY <1>1, <2>1, <2>2, <2>3, <2>4, <2>5 DEF Next
<1> DEFINE Lasts == \A t \in Targets : \A b \in Readable[t].builds \ Readable'[t].builds :
                      tail = <<t, b>> /\ tail' # tail
<1>q. TypeOK /\ LastIsListed => \A u \in Targets : Readable[u].builds
                                 = log[u].builds \cup {c \in Builds : tail = <<u, c>>}
  BY ReadableIs
<1>r. (TypeOK /\ LastIsListed => \A u \in Targets : Readable[u].builds
                                 = log[u].builds \cup {c \in Builds : tail = <<u, c>>})'
  BY <1>q, PTL
<1>2. ASSUME IInv, [Next]_vars, NEW t \in Targets, NEW b \in Readable[t].builds \ Readable'[t].builds
      PROVE  tail = <<t, b>> /\ tail' # tail
  <2>1. IInv'
    BY <1>2, NextIInv
  <2>2. Readable[t].builds = log[t].builds \cup {c \in Builds : tail = <<t, c>>}
    BY <1>2, ReadableIs DEF IInv, Safety
  <2>4. Readable'[t].builds = log'[t].builds \cup {c \in Builds : tail' = <<t, c>>}
    BY <1>r, <2>1 DEF IInv, Safety
  <2>5. log[t].builds \subseteq log'[t].builds
    BY <1>1, <1>2
  <2> QED BY <1>2, <2>2, <2>4, <2>5
<1>3. IInv /\ [Next]_vars => [Lasts]_vars
  BY <1>2
<1> QED BY <1>3, Invariance, PTL DEF Spec, NothingForgotten

\* Only Remove takes a file away.
LEMMA OnlyRemoveRemoves ==
  ASSUME [Next]_vars, NEW f \in stored \ stored'
  PROVE  pc[Pruner] = "removing" /\ f \in doomed
<1> USE DEF fileVars
<1>1. CASE (Surroundings /\ UNCHANGED <<keepVars, fileVars>>) \/ UNCHANGED vars
  BY <1>1 DEF vars
<1>2. CASE \E g \in Payloads : Store(g)
  BY <1>2 DEF Store
<1>3. CASE PruneSteps
  <2>1. CASE Open \/ Discovered \/ RecordFails \/ Kept \/ Walk
    BY <2>1 DEF Open, Discovered, RecordFails, Kept, Walk
  <2>2. CASE Refuse \/ Done \/ \E i \in Targets \X Builds : OpenFails(i)
    BY <2>2 DEF Refuse, Done, OpenFails, Ends
  <2>3. CASE \/ \E t \in Targets : Discover(t) \/ DiscoverFails(t)
             \/ \E i \in Targets \X Builds : OpenIndex(i)
    BY <2>3 DEF Discover, DiscoverFails, OpenIndex
  <2>4. CASE \E g \in Payloads : Remove(g)
    BY <2>4 DEF Remove, Steps
  <2> QED BY <1>3, <2>1, <2>2, <2>3, <2>4 DEF PruneSteps
<1> QED BY <1>1, <1>2, <1>3 DEF Next

\* A prune removes nothing that a build it must keep names, for any targets, builds,
\* rules, indexes, window and processes, if the targets it was asked for were written
\* as the registry writes them (cjs-tools-cache-prune.js:162-192, 271-341).
THEOREM PruneKeepsProtected == WrittenExactly => (Spec => KeepsProtected)
<1> DEFINE Untouched(f) == \A t \in request.targets :
                         /\ Protected(t) # {}
                         /\ \A b \in Protected(t) : f \notin Refs[<<t, b>>]
<1>1. ASSUME WrittenExactly, IInv, [Next]_vars, NEW f \in stored \ stored'
      PROVE  Untouched(f)
  <2>1. pc[Pruner] = "removing" /\ f \in doomed
    BY <1>1, OnlyRemoveRemoves
  <2>2. /\ left = {} /\ ~failed /\ unread = {} /\ f \notin spared
        /\ request \in Requests
    BY <1>1, <2>1 DEF IInv, Safety, TurnsAreTaken, IndexesAreRead, Deleting
  <2>3. request.exact = request.targets
    BY <1>1, <2>2 DEF WrittenExactly
  <2>4. \A t \in request.targets : Answered(t)
    BY <1>1, <2>1, <2>2 DEF IInv, Safety, AnswersAreWhole
  <2>5. \A t \in request.targets : \A b \in keep[t] : Refs[<<t, b>>] \subseteq spared
    BY <1>1, <2>1, <2>2, <2>3 DEF IInv, Safety, IndexesAreRead, Deleting
  <2> QED BY <2>2, <2>4, <2>5 DEF Answered
<1>2. WrittenExactly /\ IInv /\ [Next]_vars => [\A f \in stored \ stored' : Untouched(f)]_vars
  BY <1>1
<1>3. ASSUME WrittenExactly PROVE Spec => KeepsProtected
  <2>1. IInv /\ [Next]_vars => [\A f \in stored \ stored' : Untouched(f)]_vars
    BY <1>2, <1>3
  <2> QED BY <2>1, Invariance, PTL DEF Spec, KeepsProtected
<1> QED BY <1>3
===============================================================================
