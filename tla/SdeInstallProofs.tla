--------------------------- MODULE SdeInstallProofs ---------------------------
(***************************************************************************)
(* Until a file is moved from beside its journal, no build's place is ever *)
(* of a half-filled database; a call serves no build newer than it asked   *)
(* for; beside a place of a store at rest is only what a call died over or *)
(* could not remove; and the next call is served unless its own work       *)
(* fails: for any calls, builds and failures.                              *)
(***************************************************************************)
EXTENDS SdeInstall, TLAPS

\* The names on disk are different, whatever calls and builds are.
LEMMA Names ==
    /\ \A b \in Builds : Place(b) \in Paths
    /\ \A c \in Calls, b \in Builds : Temporary(c, b) \in Paths /\ Backup(c, b) \in Paths
    /\ \A b, b2 \in Builds : Place(b) = Place(b2) => b = b2
    /\ \A c, c2 \in Calls, b, b2 \in Builds :
         /\ Temporary(c, b) = Temporary(c2, b2) => c = c2 /\ b = b2
         /\ Backup(c, b) = Backup(c2, b2) => c = c2 /\ b = b2
         /\ Temporary(c, b) # Backup(c2, b2)
         /\ Place(b2) # Temporary(c, b) /\ Place(b2) # Backup(c, b)
BY SMTT(30) DEF Place, Temporary, Backup, Paths

\* So are the files.
LEMMA FileNames ==
    /\ Blank \in Files
    /\ \A b \in Builds : Found(b) \in Files /\ Found(b) # Blank
    /\ \A c \in Calls, b \in Builds : Fresh(c, b) \in Files /\ Fresh(c, b) # Blank
    /\ \A b, b2 \in Builds : Found(b) = Found(b2) => b = b2
    /\ \A c, c2 \in Calls, b, b2 \in Builds :
         /\ Fresh(c, b) = Fresh(c2, b2) => c = c2 /\ b = b2
         /\ Fresh(c, b) # Found(b2)
BY SMTT(30) DEF Blank, Found, Fresh, Files

-------------------------------------------------------------------------------
\* The files that are of a build.
OfBuild(b) == {Blank, Found(b)} \cup {Fresh(c, b) : c \in Calls}

\* A name is of a file of its build, and of no other preparation's.
NamesAreOwn ==
    /\ \A b \in Builds : at[Place(b)] \in OfBuild(b) \cup {None}
    /\ \A c \in Calls, b \in Builds : /\ at[Temporary(c, b)] \in {None, Fresh(c, b)}
                                      /\ at[Backup(c, b)] \in OfBuild(b) \cup {None}

\* What a name was created for is empty, and a preparation's file is of its build,
\* unless it was opened beside the journal of another.
FilesAreOwn ==
    /\ holds[Blank] = Empty
    /\ \A b \in Builds \ adrift :
         /\ holds[Found(b)] \notin {Filling, Mixed}
         /\ \A c \in Calls : holds[Fresh(c, b)] \in {Empty, Filling, b}

Serving == {"importing", "checking", "served"}

HandlesAreOwn ==
    \A c \in Calls :
        /\ handle[c] # None <=> pc[c] \in Serving
        /\ handle[c] # None => handle[c] \in OfBuild(B(c)) \ {Blank}
        /\ handle[c] # None /\ B(c) \notin adrift => holds[handle[c]] \in Builds
        /\ pc[c] = "served" /\ B(c) \notin adrift =>
             \/ holds[handle[c]] = B(c)
             \/ call[c].kind = "prepare" /\ handle[c] = Found(B(c))

\* A journal is beside the file whose import it undoes.
JournalsAreOwn ==
    /\ \A b \in Builds \ adrift : journal[b] \in {None, at[Place(b)]}
    /\ \A c \in Calls : pc[c] = "importing" /\ B(c) \notin adrift => journal[B(c)] = handle[c]

\* Two imports into one build's files are into different ones.
ImportsAreOne ==
    \A c, d \in Calls : pc[c] = "importing" /\ pc[d] = "importing" /\ c # d /\ B(c) = B(d) =>
        B(c) \in adrift

NeverNewer == \A c \in Calls : call[c] # None => B(c) <= call[c].asked

BeforeCreate == {"looking", "opening", "fetching", "probing", "reopening", "creating"}

Unmade(c, b) == \/ call[c] = None
                \/ b < B(c)
                \/ b = B(c) /\ pc[c] \in BeforeCreate

\* A file that is yet to be created has no name and is nowhere open.
UnmadeIsNowhere ==
    \A c \in Calls, b \in Builds : Unmade(c, b) =>
        /\ \A p \in Paths : at[p] # Fresh(c, b)
        /\ \A d \in Calls : handle[d] # Fresh(c, b)

\* The file to be installed is whole.
FilledIsWhole ==
    \A c \in Calls : 
      /\ pc[c] \in {"filling", "linking", "retiring", "swapping", "restoring"} => at[Temporary(c, B(c))] = Fresh(c, B(c))
      /\ pc[c] \in {"linking", "retiring", "swapping", "restoring"} /\ B(c) \notin adrift =>
        holds[Fresh(c, B(c))] = B(c)

BackupIsWhole ==
    \A c \in Calls, b \in Builds \ adrift : There(Backup(c, b)) => holds[at[Backup(c, b)]] # Filling

Renewing == {"creating", "filling", "linking", "retiring", "swapping", "restoring", "dropping",
             "returning", "cleaning"}

SafeInv == /\ TypeOK /\ NamesAreOwn /\ FilesAreOwn /\ HandlesAreOwn /\ JournalsAreOwn
           /\ ImportsAreOne /\ NeverNewer /\ UnmadeIsNowhere /\ FilledIsWhole
           /\ PlaceIsNeverPartial /\ BackupIsWhole

-------------------------------------------------------------------------------
(* Types *)

\* Where the rejection or the success of a preparation leads.
LEMMA Ways ==
    ASSUME NEW c \in Calls
    PROVE  /\ Rejected(c) \in {"falling back", "failed"}
           /\ Prepares(c) \in {"checking", "served"}
           /\ Installs(c) \in {"retiring", "linking"}
BY DEF Rejected, Prepares, Installs

\* A call that is not idle is on a build.
LEMMA OnABuild ==
    ASSUME TypeOK, NEW c \in Calls, pc[c] # "idle"
    PROVE  /\ call[c] \in Openings /\ call[c] # None /\ B(c) \in Builds
           /\ Place(B(c)) \in Paths /\ Temporary(c, B(c)) \in Paths /\ Backup(c, B(c)) \in Paths
           /\ Fresh(c, B(c)) \in Files
<1>1. call[c] \in Openings /\ call[c] # None
  BY DEF TypeOK
<1>2. B(c) \in Builds
  BY <1>1 DEF B, Openings
<1> QED BY <1>1, <1>2, Names, FileNames

\* A step of a call that has begun.
LEMMA StepType ==
    ASSUME TypeOK, NEW c \in Calls, pc[c] # "idle", NEW s \in Steps \ {"idle"}, Goto(c, s),
           \/ call' = call
           \/ \E o \in Openings : call' = [call EXCEPT ![c] = o]
    PROVE  /\ pc' \in [Calls -> Steps] /\ call' \in [Calls -> Openings \cup {None}]
           /\ \A d \in Calls : call'[d] = None <=> pc'[d] = "idle"
<1>1. pc' = [pc EXCEPT ![c] = s] /\ pc \in [Calls -> Steps] /\ s \in Steps /\ s # "idle"
  BY DEF TypeOK, Goto
<1>2. pc' \in [Calls -> Steps]
  BY <1>1
<1>3. CASE call' = call
  <2>1. call[c] # None
    BY DEF TypeOK
  <2> QED BY <1>1, <1>2, <1>3, <2>1 DEF TypeOK
<1>4. ASSUME NEW o \in Openings, call' = [call EXCEPT ![c] = o]
      PROVE  /\ call' \in [Calls -> Openings \cup {None}]
             /\ \A d \in Calls : call'[d] = None <=> pc'[d] = "idle"
  <2>1. o # None
    BY NoneIsNothing
  <2> QED BY <1>1, <1>4, <2>1 DEF TypeOK
<1> QED BY <1>2, <1>3, <1>4

\* The history only grows, by what the step's call does to its build.
LEMMA History ==
    ASSUME TypeOK, NEW c \in Calls, Begin(c) \/ Work(c) \/ Crash(c)
    PROVE  /\ adrift' \subseteq Builds /\ adrift \subseteq adrift'
           /\ unswapped' \subseteq Builds /\ unswapped \subseteq unswapped'
           /\ left' \subseteq Calls \X Builds /\ left \subseteq left'
           /\ hurt' \subseteq Calls /\ hurt \subseteq hurt'
<1>1. CASE Begin(c)
  BY <1>1 DEF Begin, TypeOK
<1>2. CASE Work(c) \/ Crash(c)
  <2>1. pc[c] # "idle"
    BY <1>2 DEF Work, Opening, Preparing, Installing, Look, OpenReadOnly, FallBack, CheckBuild, Fetch,
                Probe, Reopen, Import, Create, Fill, Link, Retire, Swap, Restore, Drop, Return,
                Clean, Crash, AtWork
  <2>2. B(c) \in Builds
    BY <2>1, OnABuild
  <2>3. /\ UNCHANGED adrift \/ CastsOff(B(c))
        /\ UNCHANGED unswapped \/ Unswaps(c)
        /\ UNCHANGED left \/ Leaves(c)
        /\ UNCHANGED hurt \/ Hurts(c)
    BY <1>2 DEF Work, Opening, Preparing, Installing, Look, OpenReadOnly, FallBack, CheckBuild, Fetch,
                Probe, Reopen, Import, Create, Fill, Link, Retire, Swap, Restore, Drop, Return,
                Clean, Crash, history
  <2>4. /\ adrift \subseteq Builds /\ unswapped \subseteq Builds
        /\ left \subseteq Calls \X Builds /\ hurt \subseteq Calls /\ <<c, B(c)>> \in Calls \X Builds
    BY <2>2 DEF TypeOK
  <2>5. adrift' \subseteq Builds /\ adrift \subseteq adrift'
    BY <2>2, <2>3, <2>4 DEF CastsOff
  <2>6. unswapped' \subseteq Builds /\ unswapped \subseteq unswapped'
    BY <2>2, <2>3, <2>4 DEF Unswaps
  <2>7. left' \subseteq Calls \X Builds /\ left \subseteq left'
    BY <2>3, <2>4 DEF Leaves
  <2>8. hurt' \subseteq Calls /\ hurt \subseteq hurt'
    BY <2>3, <2>4 DEF Hurts
  <2> QED BY <2>5, <2>6, <2>7, <2>8
<1> QED BY <1>1, <1>2

\* No build gets its place's journal back.
LEMMA AdriftStays == ASSUME TypeOK, [Next]_vars PROVE adrift \subseteq adrift'
<1>1. CASE UNCHANGED vars
  BY <1>1 DEF vars, history
<1>2. ASSUME NEW c \in Calls, Begin(c) \/ Work(c) \/ Crash(c) PROVE adrift \subseteq adrift'
  BY <1>2, History
<1> QED BY <1>1, <1>2 DEF Next

\* The variables of the disk.
LEMMA DiskType ==
    ASSUME TypeOK, NEW c \in Calls, Begin(c) \/ Work(c) \/ Crash(c),
           at' \in [Paths -> Files \cup {None}], holds' \in [Files -> Contents],
           handle' \in [Calls -> Files \cup {None}], journal' \in [Builds -> Files \cup {None}],
           pc' \in [Calls -> Steps], call' \in [Calls -> Openings \cup {None}],
           \A d \in Calls : call'[d] = None <=> pc'[d] = "idle"
    PROVE  TypeOK'
BY History DEF TypeOK

\* A file that is opened beside a journal.
LEMMA PlaysBackType ==
    ASSUME TypeOK, NEW b, NEW file, PlaysBack(b, file)
    PROVE  holds' \in [Files -> Contents]
<1>1. holds \in [Files -> Contents] /\ Filling \in Contents /\ Mixed \in Contents
  BY DEF TypeOK, Contents
<1> QED BY <1>1 DEF PlaysBack

\* Every step leaves every variable with its values.
LEMMA TypeStep == SafeInv /\ [Next]_vars => TypeOK'
<1> SUFFICES ASSUME SafeInv, [Next]_vars PROVE TypeOK'
  OBVIOUS
<1>0. TypeOK
  BY DEF SafeInv
<1>d. /\ at \in [Paths -> Files \cup {None}] /\ holds \in [Files -> Contents]
      /\ handle \in [Calls -> Files \cup {None}] /\ journal \in [Builds -> Files \cup {None}]
  BY <1>0 DEF TypeOK
<1>e. /\ Empty \in Contents /\ Filling \in Contents /\ Invalid \in Contents /\ Mixed \in Contents
      /\ \A b \in Builds : b \in Contents
  BY DEF Contents
<1>u. ASSUME UNCHANGED vars PROVE TypeOK'
  BY <1>0, <1>u DEF TypeOK, vars, history
<1>1. ASSUME NEW c \in Calls, Begin(c) PROVE TypeOK'
  <2>1. PICK kind \in Kinds, b \in Builds :
          /\ call' = [call EXCEPT ![c] = [kind |-> kind, asked |-> b, build |-> b,
                                          absent |-> FALSE, replace |-> FALSE]]
          /\ Goto(c, IF kind = "open" THEN "looking" ELSE "fetching")
    BY <1>1 DEF Begin
  <2>2. call' \in [Calls -> Openings \cup {None}] /\ call'[c] # None
    <3> DEFINE o == [kind |-> kind, asked |-> b, build |-> b, absent |-> FALSE, replace |-> FALSE]
    <3>1. o \in Openings
      BY DEF Openings
    <3>2. o # None
      BY <3>1, NoneIsNothing
    <3>3. call' = [call EXCEPT ![c] = o]
      BY <2>1
    <3> HIDE DEF o
    <3> QED BY <1>0, <3>1, <3>2, <3>3 DEF TypeOK
  <2>3. pc' \in [Calls -> Steps] /\ pc'[c] # "idle"
    BY <1>0, <2>1 DEF TypeOK, Goto, Steps
  <2>4. \A d \in Calls : call'[d] = None <=> pc'[d] = "idle"
    BY <1>0, <2>1, <2>2, <2>3 DEF TypeOK, Goto
  <2>5. UNCHANGED <<at, holds, handle, journal>>
    BY <1>1 DEF Begin
  <2> QED BY <1>0, <1>d, <1>1, <2>2, <2>3, <2>4, <2>5, DiskType
<1>2. ASSUME NEW c \in Calls, Look(c) \/ OpenReadOnly(c) \/ CheckBuild(c) \/ Fetch(c) \/ Probe(c)
      PROVE  TypeOK'
  <2>1. pc[c] # "idle" /\ Work(c)
    BY <1>2 DEF Look, OpenReadOnly, CheckBuild, Fetch, Probe, Work, Opening, Preparing
  <2>2. at[Place(B(c))] \in Files \cup {None} /\ call[c] \in Openings
    BY <1>0, <1>d, <2>1, OnABuild
  <2>3. handle' \in [Calls -> Files \cup {None}]
    BY <1>d, <1>2, <2>2 DEF Look, OpenReadOnly, CheckBuild, Fetch, Probe
  <2>4. \E s \in Steps \ {"idle"} : Goto(c, s)
    BY <1>2, Ways DEF Look, OpenReadOnly, CheckBuild, Fetch, Probe, Steps
  <2>5. call' = call \/ \E o \in Openings : call' = [call EXCEPT ![c] = o]
    <3>1. \A x \in BOOLEAN : /\ [call[c] EXCEPT !.absent = x] \in Openings
                             /\ [call[c] EXCEPT !.replace = x] \in Openings
      BY <2>2 DEF Openings
    <3>2. (~There(Place(B(c)))) \in BOOLEAN
      BY DEF There
    <3> QED BY <1>2, <3>1, <3>2 DEF Look, OpenReadOnly, CheckBuild, Fetch, Probe
  <2>6. UNCHANGED <<at, holds, journal>>
    BY <1>2 DEF Look, OpenReadOnly, CheckBuild, Fetch, Probe
  <2> QED BY <1>0, <1>d, <2>1, <2>3, <2>4, <2>5, <2>6, StepType, DiskType
<1>3. ASSUME NEW c \in Calls, FallBack(c) PROVE TypeOK'
  <2>1. pc[c] # "idle" /\ Work(c)
    BY <1>3 DEF FallBack, Work, Opening
  <2>2. call[c] \in Openings
    BY <1>0, <2>1, OnABuild
  <2>3. \A n \in Builds : [call[c] EXCEPT !.build = n] \in Openings
    BY <2>2 DEF Openings
  <2>4. Newest(Prepared(B(c))) \subseteq Builds
    BY DEF Newest, Prepared
  <2>5. \E s \in Steps \ {"idle"} : Goto(c, s)
    BY <1>3 DEF FallBack, Steps
  <2>6. call' = call \/ \E o \in Openings : call' = [call EXCEPT ![c] = o]
    BY <1>3, <2>3, <2>4 DEF FallBack
  <2>7. UNCHANGED <<at, holds, handle, journal>>
    BY <1>3 DEF FallBack
  <2> QED BY <1>0, <1>d, <2>1, <2>5, <2>6, <2>7, StepType, DiskType
<1>4. ASSUME NEW c \in Calls, Reopen(c) PROVE TypeOK'
  <2>1. pc[c] # "idle" /\ Work(c)
    BY <1>4 DEF Reopen, Work, Preparing
  <2>2. /\ call[c] \in Openings /\ B(c) \in Builds /\ Place(B(c)) \in Paths
        /\ OpenOrCreate(Place(B(c))) \in Files
    BY <1>0, <1>d, <2>1, OnABuild, FileNames DEF OpenOrCreate, There
  <2>3. at' \in [Paths -> Files \cup {None}]
    BY <1>d, <1>4, <2>2 DEF Reopen
  <2>4. handle' \in [Calls -> Files \cup {None}]
    BY <1>d, <1>4, <2>2 DEF Reopen
  <2>5. \E s \in Steps \ {"idle"} : Goto(c, s)
    BY <1>4, Ways DEF Reopen, Steps
  <2>6. [call[c] EXCEPT !.replace = TRUE] \in Openings
    BY <2>2 DEF Openings
  <2>7. call' = call \/ \E o \in Openings : call' = [call EXCEPT ![c] = o]
    BY <1>4, <2>6 DEF Reopen
  <2>8. holds' \in [Files -> Contents]
    BY <1>0, <1>d, <1>4, PlaysBackType DEF Reopen
  <2>9. journal' \in [Builds -> Files \cup {None}]
    BY <1>d, <1>4, <2>2 DEF Reopen
  <2> QED BY <1>0, <2>1, <2>3, <2>4, <2>5, <2>7, <2>8, <2>9, StepType, DiskType
<1>5. ASSUME NEW c \in Calls, Import(c) \/ Create(c) \/ Fill(c) PROVE TypeOK'
  <2>1. pc[c] # "idle" /\ Work(c)
    BY <1>5 DEF Import, Create, Fill, Work, Preparing
  <2>2. B(c) \in Builds /\ Temporary(c, B(c)) \in Paths /\ Fresh(c, B(c)) \in Files
    BY <1>0, <2>1, OnABuild
  <2>3. at' \in [Paths -> Files \cup {None}]
    BY <1>d, <1>5, <2>2 DEF Import, Create, Fill
  <2>4. holds' \in [Files -> Contents]
    <3>1. (IF holds[handle[c]] = Mixed THEN Mixed ELSE B(c)) \in Contents
      BY <1>e, <2>2
    <3> QED BY <1>d, <1>e, <1>5, <2>2, <3>1 DEF Import, Create, Fill
  <2>5. handle' \in [Calls -> Files \cup {None}]
    BY <1>d, <1>5 DEF Import, Create, Fill
  <2>6. \E s \in Steps \ {"idle"} : Goto(c, s)
    BY <1>5, Ways DEF Import, Create, Fill, Steps
  <2>7. call' = call
    BY <1>5 DEF Import, Create, Fill
  <2>8. journal' \in [Builds -> Files \cup {None}]
    BY <1>d, <1>5 DEF Import, Create, Fill, Ends
  <2> QED BY <1>0, <2>1, <2>3, <2>4, <2>5, <2>6, <2>7, <2>8, StepType, DiskType
<1>6. ASSUME NEW c \in Calls, Link(c) \/ Retire(c) \/ Swap(c) \/ Restore(c) \/ Drop(c) \/ Clean(c) \/ Crash(c)
      PROVE  TypeOK'
  <2>1. pc[c] # "idle" /\ (Work(c) \/ Crash(c))
    BY <1>6 DEF Link, Retire, Swap, Restore, Drop, Clean, Crash, AtWork, Work, Installing
  <2>2. Place(B(c)) \in Paths /\ Temporary(c, B(c)) \in Paths /\ Backup(c, B(c)) \in Paths
    BY <1>0, <2>1, OnABuild
  <2>3. at' \in [Paths -> Files \cup {None}]
    BY <1>d, <1>6, <2>2 DEF Link, Retire, Swap, Restore, Drop, Clean, Crash, Rename
  <2>4. handle' \in [Calls -> Files \cup {None}]
    BY <1>d, <1>6 DEF Link, Retire, Swap, Restore, Drop, Clean, Crash
  <2>5. \E s \in Steps \ {"idle"} : Goto(c, s)
    BY <1>6, Ways DEF Link, Retire, Swap, Restore, Drop, Clean, Crash, Steps
  <2>6. call' = call /\ UNCHANGED journal
    BY <1>6 DEF Link, Retire, Swap, Restore, Drop, Clean, Crash
  <2>7. holds' \in [Files -> Contents]
    BY <1>d, <1>e, <1>6 DEF Link, Retire, Swap, Restore, Drop, Clean, Crash
  <2> QED BY <1>0, <1>d, <2>1, <2>3, <2>4, <2>5, <2>6, <2>7, StepType, DiskType
<1>7. ASSUME NEW c \in Calls, Return(c) PROVE TypeOK'
  <2>1. pc[c] # "idle" /\ Work(c)
    BY <1>7 DEF Return, Work, Installing
  <2>2. /\ Place(B(c)) \in Paths /\ Temporary(c, B(c)) \in Paths
        /\ OpenOrCreate(Place(B(c))) \in Files
    BY <1>0, <1>d, <2>1, OnABuild, FileNames DEF OpenOrCreate, There
  <2>3. at' \in [Paths -> Files \cup {None}]
    BY <1>d, <1>7, <2>2 DEF Return
  <2>4. handle' \in [Calls -> Files \cup {None}]
    BY <1>d, <1>7, <2>2 DEF Return
  <2>5. \E s \in Steps \ {"idle"} : Goto(c, s)
    BY <1>7, Ways DEF Return, Steps
  <2>6. call' = call
    BY <1>7 DEF Return
  <2>7. holds' \in [Files -> Contents]
    BY <1>0, <1>d, <1>7, PlaysBackType DEF Return
  <2>8. journal' \in [Builds -> Files \cup {None}]
    BY <1>d, <1>7 DEF Return
  <2> QED BY <1>0, <2>1, <2>3, <2>4, <2>5, <2>6, <2>7, <2>8, StepType, DiskType
<1> QED BY <1>u, <1>1, <1>2, <1>3, <1>4, <1>5, <1>6, <1>7
        DEF Next, Work, Opening, Preparing, Installing

-------------------------------------------------------------------------------
(* The calls *)

\* A call leaves the others alone.
LEMMA Others ==
    ASSUME TypeOK, NEW c \in Calls, Begin(c) \/ Work(c) \/ Crash(c), NEW d \in Calls, d # c
    PROVE  call'[d] = call[d] /\ pc'[d] = pc[d] /\ handle'[d] = handle[d]
BY DEF Work, Opening, Preparing, Installing, Begin, Look, OpenReadOnly, FallBack, CheckBuild, Fetch,
       Probe, Reopen, Import, Create, Fill, Link, Retire, Swap, Restore, Drop, Return, Clean, Crash,
       Goto, TypeOK

\* A call that works has begun.
LEMMA WorkHasBegun ==
    ASSUME NEW c \in Calls, Work(c) \/ Crash(c)
    PROVE  pc[c] # "idle"
BY DEF Work, Opening, Preparing, Installing, Look, OpenReadOnly, FallBack, CheckBuild, Fetch, Probe,
       Reopen,
       Import, Create, Fill, Link, Retire, Swap, Restore, Drop, Return, Clean, Crash, AtWork

\* It stays on its build,
LEMMA SameBuild ==
    ASSUME TypeOK, NEW c \in Calls, Work(c) \/ Crash(c), ~FallBack(c)
    PROVE  call'[c].build = call[c].build /\ call'[c].asked = call[c].asked
<1>1. call[c] \in Openings
  BY WorkHasBegun, OnABuild
<1>2. CASE call' = call
  BY <1>2
<1>3. ASSUME NEW x, call' = [call EXCEPT ![c].absent = x] PROVE call'[c].build = call[c].build /\ call'[c].asked = call[c].asked
  <2>1. call'[c] = [call[c] EXCEPT !.absent = x]
    BY <1>3 DEF TypeOK
  <2> QED BY <1>1, <2>1 DEF Openings
<1>4. ASSUME NEW x, call' = [call EXCEPT ![c].replace = x] PROVE call'[c].build = call[c].build /\ call'[c].asked = call[c].asked
  <2>1. call'[c] = [call[c] EXCEPT !.replace = x]
    BY <1>4 DEF TypeOK
  <2> QED BY <1>1, <2>1 DEF Openings
<1> QED
  BY <1>2, <1>3, <1>4 DEF Work, Opening, Preparing, Installing, Look, OpenReadOnly, CheckBuild, Fetch,
                          Probe, Reopen,
       Import, Create, Fill, Link, Retire, Swap, Restore, Drop, Return, Clean, Crash

\* or falls back to an older one that is prepared.
LEMMA OlderBuild ==
    ASSUME TypeOK, NEW c \in Calls, FallBack(c)
    PROVE  \/ call' = call /\ pc'[c] = "failed"
           \/ /\ pc'[c] = "looking" /\ call'[c].asked = call[c].asked
              /\ call'[c].build \in Builds /\ call'[c].build < B(c)
<1>1. call[c] \in Openings /\ B(c) \in Builds
  BY OnABuild DEF FallBack
<1>2. CASE call' = call /\ Goto(c, "failed")
  BY <1>2 DEF Goto, TypeOK
<1>3. ASSUME NEW n \in Newest(Prepared(B(c))) \ {B(c)}, Goto(c, "looking"), call' = [call EXCEPT ![c].build = n]
      PROVE  /\ pc'[c] = "looking" /\ call'[c].asked = call[c].asked
             /\ call'[c].build \in Builds /\ call'[c].build < B(c)
  <2>1. call'[c] = [call[c] EXCEPT !.build = n]
    BY <1>3 DEF TypeOK
  <2>2. call'[c].build = n /\ call'[c].asked = call[c].asked
    BY <1>1, <2>1 DEF Openings
  <2>3. n \in Builds /\ n <= B(c) /\ n # B(c)
    BY <1>1 DEF Newest, Prepared
  <2>4. n \in Nat /\ B(c) \in Nat
    BY <1>1, <2>3, BuildsAreNumbers
  <2>5. n < B(c)
    BY <2>3, <2>4
  <2> QED BY <1>3, <2>2, <2>3, <2>5 DEF Goto, TypeOK
<1> QED BY <1>2, <1>3 DEF FallBack

-------------------------------------------------------------------------------
(* Names and files *)

\* A step leaves the names alone, or gives and frees those of one call's build.
LEMMA NamesAreOwnStep == SafeInv /\ [Next]_vars => NamesAreOwn'
<1> SUFFICES ASSUME SafeInv, [Next]_vars PROVE NamesAreOwn'
  OBVIOUS
<1>0. TypeOK /\ NamesAreOwn /\ FilledIsWhole
  BY DEF SafeInv
<1>a. at \in [Paths -> Files \cup {None}] /\ at' \in [Paths -> Files \cup {None}]
  BY <1>0, TypeStep DEF TypeOK
<1>1. ASSUME UNCHANGED at PROVE NamesAreOwn'
  BY <1>0, <1>1 DEF NamesAreOwn
<1>b. ASSUME NEW c \in Calls, pc[c] # "idle"
      PROVE /\ B(c) \in Builds /\ Place(B(c)) \in Paths
            /\ Temporary(c, B(c)) \in Paths /\ Backup(c, B(c)) \in Paths
  BY <1>0, <1>b, OnABuild
<1>2. ASSUME NEW c \in Calls, Reopen(c) \/ Return(c) PROVE NamesAreOwn'
  <2>1. B(c) \in Builds /\ Place(B(c)) \in Paths
    BY <1>2, <1>b DEF Reopen, Return
  <2> DEFINE file == OpenOrCreate(Place(B(c)))
             opened == [at EXCEPT ![Place(B(c))] = file]
  <2>2. at' = opened \/ at' = [opened EXCEPT ![Temporary(c, B(c))] = None]
    BY <1>2 DEF Reopen, Return
  <2>3. file \in OfBuild(B(c))
    BY <1>0, <2>1 DEF OpenOrCreate, There, NamesAreOwn, OfBuild
  <2> HIDE DEF file
  <2> QED BY <1>0, <1>a, <2>1, <2>2, <2>3, Names DEF NamesAreOwn
<1>3. ASSUME NEW c \in Calls, Create(c) PROVE NamesAreOwn'
  <2>2. B(c) \in Builds
    BY <1>3, <1>b DEF Create
  <2> QED BY <1>0, <1>a, <1>3, <2>2, Names DEF NamesAreOwn, Create
<1>4. ASSUME NEW c \in Calls, Link(c) \/ Drop(c) \/ Clean(c) PROVE NamesAreOwn'
  <2>2. B(c) \in Builds
    BY <1>4, <1>b DEF Link, Drop, Clean
  <2>3. at[Temporary(c, B(c))] \in OfBuild(B(c)) \cup {None}
    BY <1>0, <2>2 DEF NamesAreOwn, OfBuild
  <2>4. \/ at' = at
        \/ at' = [at EXCEPT ![Place(B(c))] = at[Temporary(c, B(c))]]
        \/ at' = [at EXCEPT ![Backup(c, B(c))] = None]
        \/ at' = [at EXCEPT ![Temporary(c, B(c))] = None]
    BY <1>4 DEF Link, Drop, Clean
  <2> QED BY <1>0, <1>a, <2>2, <2>3, <2>4, Names DEF NamesAreOwn
<1>5. ASSUME NEW c \in Calls, Retire(c) \/ Swap(c) \/ Restore(c) PROVE NamesAreOwn'
  <2>2. B(c) \in Builds
    BY <1>5, <1>b DEF Retire, Restore, Swap
  <2>3. at[Temporary(c, B(c))] \in OfBuild(B(c)) \cup {None}
    BY <1>0, <2>2 DEF NamesAreOwn, OfBuild
  <2>4. \/ at' = at
        \/ at' = [at EXCEPT ![Backup(c, B(c))] = at[Place(B(c))], ![Place(B(c))] = None]
        \/ at' = [at EXCEPT ![Place(B(c))] = at[Temporary(c, B(c))], ![Temporary(c, B(c))] = None]
        \/ at' = [at EXCEPT ![Place(B(c))] = at[Backup(c, B(c))], ![Backup(c, B(c))] = None]
    BY <1>5 DEF Retire, Swap, Restore, Rename
  <2> QED BY <1>0, <1>a, <2>2, <2>3, <2>4, Names DEF NamesAreOwn
<1> QED
  BY <1>1, <1>2, <1>3, <1>4, <1>5
     DEF Next, Work, Opening, Preparing, Installing, vars, Begin, Look, OpenReadOnly, FallBack,
         CheckBuild, Fetch, Probe, Import, Fill, Crash

\* A file is of one build, but for the empty one.
LEMMA OneBuild ==
    ASSUME NEW b \in Builds, NEW b2 \in Builds, NEW f \in OfBuild(b) \cap OfBuild(b2), f # Blank
    PROVE  b = b2
BY FileNames DEF OfBuild

\* What is opened at a place.
LEMMA Opened ==
    ASSUME TypeOK, NamesAreOwn, NEW b \in Builds
    PROVE  /\ OpenOrCreate(Place(b)) \in OfBuild(b) /\ OpenOrCreate(Place(b)) \in Files
           /\ OpenOrCreate(Place(b)) # None
           /\ There(Place(b)) => OpenOrCreate(Place(b)) = at[Place(b)]
           /\ ~There(Place(b)) => OpenOrCreate(Place(b)) = Blank
<1>1. OpenOrCreate(Place(b)) \in OfBuild(b)
  BY DEF OpenOrCreate, There, NamesAreOwn, OfBuild
<1>2. \A f \in OfBuild(b) : f \in Files /\ f # None
  BY FileNames, NoneIsNothing DEF OfBuild
<1> QED BY <1>1, <1>2 DEF OpenOrCreate

\* Opening a place changes no file but those of a build adrift.
LEMMA PlayedBack ==
    ASSUME SafeInv, NEW b \in Builds, PlaysBack(b, OpenOrCreate(Place(b))),
           NEW b2 \in Builds \ adrift, NEW f \in OfBuild(b2)
    PROVE  holds'[f] = holds[f]
<1>0. TypeOK /\ NamesAreOwn /\ FilesAreOwn /\ JournalsAreOwn /\ holds \in [Files -> Contents]
  BY DEF SafeInv, TypeOK
<1> DEFINE file == OpenOrCreate(Place(b))
<1>1. file \in OfBuild(b) /\ (There(Place(b)) => file = at[Place(b)]) /\ (~There(Place(b)) => file = Blank)
  BY <1>0, Opened
<1>2. CASE file = Blank
  <2>1. holds[file] = Empty
    BY <1>0, <1>2 DEF FilesAreOwn
  <2> QED BY <2>1 DEF PlaysBack
<1>3. CASE file # Blank /\ b # b2
  <2>1. f # file
    <3> SUFFICES ASSUME f = file PROVE FALSE
      OBVIOUS
    <3>1. f \in OfBuild(b) \cap OfBuild(b2) /\ f # Blank
      BY <1>1, <1>3
    <3> QED BY <1>3, <3>1, OneBuild
  <2>2. f \in Files
    BY FileNames DEF OfBuild
  <2> QED BY <1>0, <2>1, <2>2 DEF PlaysBack
<1>4. CASE file # Blank /\ b = b2
  <2>1. journal[b] \in {None, file}
    BY <1>0, <1>1, <1>4 DEF JournalsAreOwn
  <2> QED BY <2>1 DEF PlaysBack
<1> QED BY <1>2, <1>3, <1>4

\* The only files of a build that are written, unless it is adrift, are a preparation's
\* own and the one that is imported into.
LEMMA Written ==
    ASSUME SafeInv, [Next]_vars, NEW b \in Builds \ adrift, NEW f \in OfBuild(b)
    PROVE  \/ holds'[f] = holds[f]
           \/ \E c \in Calls : Import(c) /\ B(c) = b /\ f = handle[c] /\ f # Blank /\ holds'[f] = b
           \/ \E c \in Calls : Create(c) /\ B(c) = b /\ f = Fresh(c, b) /\ holds'[f] = Filling
           \/ \E c \in Calls : Fill(c) /\ B(c) = b /\ f = Fresh(c, b) /\ holds'[f] = b
<1> DEFINE Goal ==
     \/ holds'[f] = holds[f]
     \/ \E c \in Calls : Import(c) /\ B(c) = b /\ f = handle[c] /\ f # Blank /\ holds'[f] = b
     \/ \E c \in Calls : Create(c) /\ B(c) = b /\ f = Fresh(c, b) /\ holds'[f] = Filling
     \/ \E c \in Calls : Fill(c) /\ B(c) = b /\ f = Fresh(c, b) /\ holds'[f] = b
<1>0. TypeOK /\ HandlesAreOwn /\ JournalsAreOwn /\ FilesAreOwn /\ holds \in [Files -> Contents]
  BY DEF SafeInv, TypeOK
<1>f. f \in Files
  BY FileNames DEF OfBuild
<1>1. CASE UNCHANGED holds
  BY <1>1
<1>2. ASSUME NEW c \in Calls, Reopen(c) \/ Return(c) PROVE Goal
  <2>1. B(c) \in Builds
    BY <1>0, <1>2, OnABuild DEF Reopen, Return
  <2>2. UNCHANGED holds \/ PlaysBack(B(c), OpenOrCreate(Place(B(c))))
    BY <1>2 DEF Reopen, Return
  <2> QED BY <2>1, <2>2, PlayedBack
<1>3. ASSUME NEW c \in Calls, Import(c) PROVE Goal
  <2>1. B(c) \in Builds /\ handle[c] \in OfBuild(B(c)) \ {Blank}
    BY <1>0, <1>3, OnABuild DEF Import, HandlesAreOwn, Serving
  <2>2. \/ holds' = holds
        \/ holds' = [holds EXCEPT ![handle[c]] = IF holds[handle[c]] = Mixed THEN Mixed ELSE B(c)]
    BY <1>3 DEF Import
  <2>3. CASE f # handle[c]
    BY <1>0, <1>f, <2>2, <2>3
  <2>4. CASE f = handle[c]
    <3>1. B(c) = b
      BY <2>1, <2>4, OneBuild
    <3>2. holds[handle[c]] # Mixed
      BY <1>0, <1>3, <2>4, <3>1, NotBuilds DEF Import, HandlesAreOwn, Serving
    <3>3. holds'[f] = holds[f] \/ holds'[f] = b
      BY <1>0, <1>f, <2>2, <2>4, <3>1, <3>2
    <3> QED BY <1>3, <2>1, <2>4, <3>1, <3>3
  <2> QED BY <2>3, <2>4
<1>4. ASSUME NEW c \in Calls, Create(c) \/ Fill(c) PROVE Goal
  <2>1. B(c) \in Builds
    BY <1>0, <1>4, OnABuild DEF Create, Fill
  <2>2. \/ holds' = holds
        \/ Create(c) /\ holds' = [holds EXCEPT ![Fresh(c, B(c))] = Filling]
        \/ Fill(c) /\ holds' = [holds EXCEPT ![Fresh(c, B(c))] = B(c)]
    BY <1>4 DEF Create, Fill
  <2>3. CASE f # Fresh(c, B(c))
    BY <1>0, <1>f, <2>2, <2>3
  <2>4. CASE f = Fresh(c, B(c))
    <3>1. f \in OfBuild(B(c)) /\ f # Blank
      BY <2>1, <2>4, FileNames DEF OfBuild
    <3>2. B(c) = b
      BY <2>1, <3>1, OneBuild
    <3> QED BY <1>0, <1>f, <2>2, <2>4, <3>2
  <2> QED BY <2>3, <2>4
<1>5. ASSUME NEW c \in Calls, Crash(c) PROVE Goal
  <2>1. CASE pc[c] = "importing" /\ journal[B(c)] # handle[c]
    <3>1. B(c) \in Builds /\ handle[c] \in OfBuild(B(c)) \ {Blank} /\ B(c) \in adrift
      BY <1>0, <2>1, OnABuild DEF HandlesAreOwn, Serving, JournalsAreOwn
    <3>2. f # handle[c]
      BY <3>1, OneBuild
    <3> QED BY <1>0, <1>f, <1>5, <3>2 DEF Crash
  <2> QED BY <1>5, <2>1 DEF Crash
<1> HIDE DEF Goal
<1>6. Goal
  BY <1>1, <1>2, <1>3, <1>4, <1>5
     DEF Goal, Next, Work, Opening, Preparing, Installing, vars, Begin, Look, OpenReadOnly, FallBack,
         CheckBuild, Fetch, Probe, Link, Retire, Swap, Restore, Drop, Clean
<1> QED BY <1>6 DEF Goal

\* So the files of a build are as they were found, empty, or imported.
LEMMA FilesAreOwnStep == SafeInv /\ [Next]_vars => FilesAreOwn'
<1> SUFFICES ASSUME SafeInv, [Next]_vars PROVE FilesAreOwn'
  OBVIOUS
<1>0. TypeOK /\ FilesAreOwn /\ HandlesAreOwn /\ adrift \subseteq adrift'
  BY AdriftStays DEF SafeInv
<1>1. ASSUME NEW b \in Builds \ adrift'
      PROVE  /\ holds'[Found(b)] \notin {Filling, Mixed}
             /\ \A c \in Calls : holds'[Fresh(c, b)] \in {Empty, Filling, b}
  <2>1. b \in Builds \ adrift /\ b \notin {Filling, Mixed}
    BY <1>0, NotBuilds
  <2>2. holds'[Found(b)] = holds[Found(b)] \/ holds'[Found(b)] = b
    <3>1. Found(b) \in OfBuild(b) /\ \A c \in Calls : Found(b) # Fresh(c, b)
      BY FileNames DEF OfBuild
    <3> QED BY <2>1, <3>1, Written
  <2>3. ASSUME NEW c \in Calls PROVE holds'[Fresh(c, b)] \in {holds[Fresh(c, b)], Filling, b}
    <3>1. Fresh(c, b) \in OfBuild(b)
      BY DEF OfBuild
    <3> QED BY <2>1, <3>1, Written
  <2> QED BY <1>0, <2>1, <2>2, <2>3 DEF FilesAreOwn
<1>2. holds'[Blank] = Empty
  <2>h. holds \in [Files -> Contents] /\ holds[Blank] = Empty
    BY <1>0 DEF TypeOK, FilesAreOwn
  <2>1. CASE UNCHANGED holds
    BY <2>h, <2>1
  <2>2. ASSUME NEW c \in Calls, Reopen(c) \/ Return(c) PROVE holds'[Blank] = Empty
    <3>1. holds' = holds \/ PlaysBack(B(c), OpenOrCreate(Place(B(c))))
      BY <2>2 DEF Reopen, Return
    <3>2. \/ holds' = holds
          \/ \E file, mess : holds[file] # Empty /\ holds' = [holds EXCEPT ![file] = mess]
      BY <3>1 DEF PlaysBack
    <3> QED BY <2>h, <3>2, FileNames
  <2>3. ASSUME NEW c \in Calls, Import(c) \/ (Crash(c) /\ pc[c] = "importing") PROVE holds'[Blank] = Empty
    <3>1. handle[c] # Blank
      BY <1>0, <2>3 DEF Import, HandlesAreOwn, Serving
    <3> QED BY <2>h, <2>3, <3>1, FileNames DEF Import, Crash
  <2>4. ASSUME NEW c \in Calls, Create(c) \/ Fill(c) PROVE holds'[Blank] = Empty
    <3>1. Fresh(c, B(c)) # Blank /\ Blank \in Files
      BY <1>0, <2>4, OnABuild, FileNames DEF Create, Fill
    <3> QED BY <2>h, <2>4, <3>1 DEF Create, Fill
  <2> QED
    BY <2>1, <2>2, <2>3, <2>4
       DEF Next, Work, Opening, Preparing, Installing, vars, Begin, Look, OpenReadOnly, FallBack,
           CheckBuild, Fetch, Probe, Link, Retire, Swap, Restore, Drop, Clean, Crash
<1> QED BY <1>1, <1>2 DEF FilesAreOwn, Found, Fresh

\* A step other than Create gives a name, and opens, only files that have a name already,
\* or an empty new one.
LEMMA NothingNew ==
    ASSUME SafeInv, [Next]_vars, \A c \in Calls : ~Create(c)
    PROVE  /\ \A p \in Paths : at'[p] \in {None, Blank} \/ \E q \in Paths : at'[p] = at[q]
           /\ \A d \in Calls : handle'[d] \in {None, Blank, handle[d]} \/ \E q \in Paths : handle'[d] = at[q]
<1>0. TypeOK
  BY DEF SafeInv
<1>a. at \in [Paths -> Files \cup {None}] /\ handle \in [Calls -> Files \cup {None}]
  BY <1>0 DEF TypeOK
<1> DEFINE NoNew == /\ \A p \in Paths : at'[p] \in {None, Blank} \/ \E q \in Paths : at'[p] = at[q]
                    /\ \A d \in Calls : handle'[d] \in {None, Blank, handle[d]} \/ \E q \in Paths : handle'[d] = at[q]
<1>1. ASSUME UNCHANGED <<at, handle>> PROVE NoNew
  BY <1>1
<1>2. ASSUME NEW c \in Calls, OpenReadOnly(c) \/ Reopen(c) \/ Return(c) PROVE NoNew
  <2>1. Place(B(c)) \in Paths /\ Temporary(c, B(c)) \in Paths
    BY <1>0, <1>2, OnABuild DEF OpenReadOnly, Reopen, Return
  <2> DEFINE file == OpenOrCreate(Place(B(c)))
             opened == [at EXCEPT ![Place(B(c))] = file]
  <2>2. file \in {Blank, at[Place(B(c))]}
    BY DEF OpenOrCreate
  <2>3. at' \in {at, opened, [opened EXCEPT ![Temporary(c, B(c))] = None]}
    BY <1>2 DEF OpenReadOnly, Reopen, Return
  <2>4. handle' = handle \/ \E f \in {file, at[Place(B(c))]} : handle' = [handle EXCEPT ![c] = f]
    BY <1>2 DEF OpenReadOnly, Reopen, Return
  <2> HIDE DEF file
  <2> QED BY <1>a, <2>1, <2>2, <2>3, <2>4
<1>3. ASSUME NEW c \in Calls, CheckBuild(c) \/ Import(c) \/ Crash(c) PROVE NoNew
  BY <1>a, <1>3 DEF CheckBuild, Import, Crash
<1>4. ASSUME NEW c \in Calls, Link(c) \/ Retire(c) \/ Swap(c) \/ Restore(c) \/ Drop(c) \/ Clean(c)
      PROVE  NoNew
  <2>1. Place(B(c)) \in Paths /\ Temporary(c, B(c)) \in Paths /\ Backup(c, B(c)) \in Paths
    BY <1>0, <1>4, OnABuild DEF Link, Retire, Swap, Restore, Drop, Clean
  <2> QED BY <1>a, <1>4, <2>1 DEF Link, Retire, Swap, Restore, Drop, Clean, Rename
<1> HIDE DEF NoNew
<1>5. NoNew
  BY <1>1, <1>2, <1>3, <1>4
     DEF Next, Work, Opening, Preparing, Installing, vars, Begin, Look, FallBack, Fetch, Probe, Fill
<1> QED BY <1>5 DEF NoNew

\* What is made stays made.
LEMMA MadeStays ==
    ASSUME SafeInv, [Next]_vars, NEW c \in Calls, NEW b \in Builds, Unmade(c, b)'
    PROVE  Unmade(c, b)
<1>0. TypeOK /\ TypeOK'
  BY TypeStep DEF SafeInv
<1>1. CASE call[c] = None
  BY <1>1 DEF Unmade
<1>2. CASE call[c] # None
  <2>1. pc[c] # "idle" /\ pc[c] \in Steps /\ B(c) \in Builds
    BY <1>0, <1>2, OnABuild DEF TypeOK
  <2>2. CASE UNCHANGED vars
    BY <2>2 DEF Unmade, vars, B
  <2>3. ASSUME NEW d \in Calls \ {c}, Begin(d) \/ Work(d) \/ Crash(d) PROVE Unmade(c, b)
    BY <1>0, <2>3, Others DEF Unmade, B
  <2>4. CASE FallBack(c)
    <3>1. CASE call' = call /\ pc'[c] = "failed"
      BY <3>1 DEF Unmade, BeforeCreate, B
    <3>2. CASE call'[c].build \in Builds /\ call'[c].build < B(c)
      <4>1. /\ b \in Nat /\ B(c) \in Nat /\ B(c)' \in Nat /\ B(c)' < B(c)
        BY <2>1, <3>2, BuildsAreNumbers DEF B
      <4>2. b <= B(c)' \/ call'[c] = None
        BY <4>1 DEF Unmade
      <4>3. call'[c] # None
        BY <1>0, <2>1, <2>4 DEF FallBack, TypeOK, Goto
      <4> QED BY <4>1, <4>2, <4>3 DEF Unmade
    <3> QED BY <1>0, <2>4, <3>1, <3>2, OlderBuild
  <2>5. CASE (Work(c) \/ Crash(c)) /\ ~FallBack(c)
    <3>1. B(c)' = B(c)
      BY <1>0, <2>5, SameBuild DEF B
    <3>0. \A s : Goto(c, s) => pc'[c] = s
      BY <1>0 DEF Goto, TypeOK
    <3>2. pc'[c] \in BeforeCreate => pc[c] \in BeforeCreate
      BY <2>5, <3>0, Ways
         DEF Work, Opening, Preparing, Installing, Look, OpenReadOnly, CheckBuild, Fetch, Probe,
             Reopen, Import, Create, Fill, Link, Retire, Swap, Restore, Drop, Return, Clean, Crash,
             BeforeCreate
    <3>3. call'[c] # None
      <4>1. pc'[c] # "idle"
        BY <2>5, <3>0, Ways
           DEF Work, Opening, Preparing, Installing, Look, OpenReadOnly, CheckBuild, Fetch, Probe,
               Reopen, Import, Create, Fill, Link, Retire, Swap, Restore, Drop, Return, Clean, Crash
      <4> QED BY <1>0, <4>1 DEF TypeOK
    <3> QED BY <3>1, <3>2, <3>3 DEF Unmade
  <2>6. ~Begin(c)
    BY <2>1 DEF Begin
  <2> QED BY <2>2, <2>3, <2>4, <2>5, <2>6 DEF Next
<1> QED BY <1>1, <1>2

\* What is not made yet has no name and no content, and nothing makes it but Create and Fill.
LEMMA UnmadeStep == SafeInv /\ [Next]_vars => UnmadeIsNowhere'
<1> SUFFICES ASSUME SafeInv, [Next]_vars, NEW c \in Calls, NEW b \in Builds, Unmade(c, b)'
             PROVE  /\ \A p \in Paths : at'[p] # Fresh(c, b)
                    /\ \A d \in Calls : handle'[d] # Fresh(c, b)
  BY DEF UnmadeIsNowhere
<1>0. TypeOK /\ UnmadeIsNowhere
  BY DEF SafeInv
<1>1. Unmade(c, b) /\ Fresh(c, b) \notin {None, Blank}
  BY MadeStays, FileNames, NoneIsNothing
<1>2. CASE \A d \in Calls : ~Create(d)
  <2>1. /\ \A p \in Paths : at'[p] \in {None, Blank} \/ \E q \in Paths : at'[p] = at[q]
        /\ \A d \in Calls : handle'[d] \in {None, Blank, handle[d]} \/ \E q \in Paths : handle'[d] = at[q]
    BY <1>2, NothingNew
  <2> QED BY <1>0, <1>1, <2>1 DEF UnmadeIsNowhere
<1>3. ASSUME NEW e \in Calls, Create(e)
      PROVE  /\ \A p \in Paths : at'[p] # Fresh(c, b)
             /\ \A d \in Calls : handle'[d] # Fresh(c, b)
  <2>1. B(e) \in Builds /\ B(e)' = B(e) /\ call'[e] # None /\ pc'[e] \notin BeforeCreate
    <3>1. pc'[e] \notin BeforeCreate \cup {"idle"}
      BY <1>0, <1>3 DEF Create, TypeOK, Goto, Rejected, BeforeCreate
    <3> QED BY <1>0, <1>3, <3>1, OnABuild, TypeStep DEF Create, B, TypeOK
  <2>2. Fresh(c, b) # Fresh(e, B(e))
    <3>1. ~Unmade(e, B(e))'
      <4>1. B(e) \in Nat
        BY <2>1, BuildsAreNumbers
      <4> QED BY <2>1, <4>1 DEF Unmade
    <3> QED BY <2>1, <3>1, FileNames
  <2>3. at' = [at EXCEPT ![Temporary(e, B(e))] = Fresh(e, B(e))] /\ handle' = handle
    BY <1>3 DEF Create
  <2> QED BY <1>0, <1>1, <2>2, <2>3 DEF UnmadeIsNowhere, TypeOK
<1> QED BY <1>2, <1>3

-------------------------------------------------------------------------------
(* What is open, what is served *)

\* The build a call serves is never newer than the one asked for.
LEMMA NeverNewerStep == SafeInv /\ [Next]_vars => NeverNewer'
<1> SUFFICES ASSUME SafeInv, [Next]_vars, NEW d \in Calls, call'[d] # None
             PROVE  call'[d].build <= call'[d].asked
  BY DEF NeverNewer, B
<1>0. TypeOK /\ NeverNewer
  BY DEF SafeInv
<1>1. CASE UNCHANGED vars
  BY <1>0, <1>1 DEF NeverNewer, vars, B
<1>2. ASSUME NEW c \in Calls, c # d, Begin(c) \/ Work(c) \/ Crash(c)
      PROVE  call'[d].build <= call'[d].asked
  BY <1>0, <1>2, Others DEF NeverNewer, B
<1>3. CASE Begin(d)
  <2>1. PICK kind \in Kinds, b \in Builds :
          call' = [call EXCEPT ![d] = [kind |-> kind, asked |-> b, build |-> b,
                                       absent |-> FALSE, replace |-> FALSE]]
    BY <1>3 DEF Begin
  <2>2. call'[d].build = b /\ call'[d].asked = b
    BY <1>0, <2>1 DEF TypeOK
  <2> QED BY <2>2, BuildsAreNumbers
<1>4. CASE Work(d) \/ Crash(d)
  <2>1. call[d] \in Openings /\ call[d] # None
    BY <1>0, <1>4, WorkHasBegun, OnABuild
  <2>2. /\ call[d].build \in Nat /\ call[d].asked \in Nat
        /\ call[d].build <= call[d].asked
    BY <1>0, <2>1, BuildsAreNumbers DEF NeverNewer, B, Openings
  <2>3. CASE ~FallBack(d)
    BY <1>0, <1>4, <2>2, <2>3, SameBuild
  <2>4. CASE FallBack(d)
    <3>1. CASE call' = call
      BY <2>2, <3>1
    <3>2. CASE call'[d].asked = call[d].asked /\ call'[d].build \in Builds /\ call'[d].build < B(d)
      <4>1. call'[d].build \in Nat
        BY <3>2, BuildsAreNumbers
      <4> QED BY <2>2, <3>2, <4>1 DEF B
    <3> QED BY <1>0, <2>4, <3>1, <3>2, OlderBuild
  <2> QED BY <2>3, <2>4
<1> QED BY <1>1, <1>2, <1>3, <1>4 DEF Next

\* What opens is a build's file, and of no other build unless it was put there for it.
OpensAsOwn ==
    \A b \in Builds \ adrift : \A f \in OfBuild(b) :
        holds[f] \in Openable => /\ f # Blank /\ holds[f] \in Builds
                                 /\ holds[f] = b \/ f = Found(b)

LEMMA OpensIsOwn == FilesAreOwn => OpensAsOwn
<1> SUFFICES ASSUME FilesAreOwn, NEW b \in Builds \ adrift, NEW f \in OfBuild(b), holds[f] \in Openable
             PROVE  /\ f # Blank /\ holds[f] \in Builds
                    /\ holds[f] = b \/ f = Found(b)
  BY DEF OpensAsOwn
<1>1. Empty \notin Openable /\ Filling \notin Openable
  BY NotBuilds, NotFilling DEF Openable
<1>2. f # Blank
  BY <1>1 DEF FilesAreOwn
<1>3. CASE f = Found(b)
  BY <1>2, <1>3 DEF FilesAreOwn, Openable
<1>4. ASSUME NEW c \in Calls, f = Fresh(c, b) PROVE holds[f] = b /\ holds[f] \in Builds
  BY <1>1, <1>4 DEF FilesAreOwn
<1> QED BY <1>2, <1>3, <1>4 DEF OfBuild

LEMMA BlankIsClosed == FilesAreOwn => holds[Blank] \notin Openable
BY NotBuilds, NotFilling DEF FilesAreOwn, Openable

\* What a call has open stays a whole database.
LEMMA HandleKept ==
    ASSUME SafeInv, [Next]_vars, NEW d \in Calls, handle[d] # None, B(d) \notin adrift
    PROVE  /\ B(d) \in Builds /\ holds'[handle[d]] \in Builds
           /\ holds[handle[d]] = B(d) => holds'[handle[d]] = B(d)
<1>0. TypeOK /\ HandlesAreOwn /\ UnmadeIsNowhere
  BY DEF SafeInv
<1>1. B(d) \in Builds /\ handle[d] \in OfBuild(B(d)) \ {Blank} /\ holds[handle[d]] \in Builds
  BY <1>0, OnABuild DEF HandlesAreOwn, Serving
<1>2. ASSUME NEW c \in Calls, Create(c), B(c) = B(d) PROVE handle[d] # Fresh(c, B(d))
  BY <1>0, <1>1, <1>2 DEF Create, Unmade, BeforeCreate, UnmadeIsNowhere
<1> QED BY <1>1, <1>2, Written

\* A step opens a file of the build it is for, whole when the call serves it.
LEMMA HandlesAreOwnStep == SafeInv /\ [Next]_vars => HandlesAreOwn'
<1> SUFFICES ASSUME SafeInv, [Next]_vars, NEW d \in Calls
             PROVE  /\ handle'[d] # None <=> pc'[d] \in Serving
                    /\ handle'[d] # None => handle'[d] \in OfBuild(B(d)') \ {Blank}
                    /\ handle'[d] # None /\ B(d)' \notin adrift' => holds'[handle'[d]] \in Builds
                    /\ pc'[d] = "served" /\ B(d)' \notin adrift' =>
                         \/ holds'[handle'[d]] = B(d)'
                         \/ call'[d].kind = "prepare" /\ handle'[d] = Found(B(d)')
  BY DEF HandlesAreOwn, OfBuild, Found
<1> DEFINE Goal == /\ handle'[d] # None <=> pc'[d] \in Serving
                   /\ handle'[d] # None => handle'[d] \in OfBuild(B(d)') \ {Blank}
                   /\ handle'[d] # None /\ B(d)' \notin adrift' => holds'[handle'[d]] \in Builds
                   /\ pc'[d] = "served" /\ B(d)' \notin adrift' =>
                        \/ holds'[handle'[d]] = B(d)'
                        \/ call'[d].kind = "prepare" /\ handle'[d] = Found(B(d)')
<1>0. /\ TypeOK /\ HandlesAreOwn /\ FilesAreOwn /\ NamesAreOwn /\ UnmadeIsNowhere
      /\ FilesAreOwn' /\ adrift \subseteq adrift'
  BY FilesAreOwnStep, AdriftStays DEF SafeInv
<1>t. /\ pc \in [Calls -> Steps] /\ call \in [Calls -> Openings \cup {None}]
      /\ handle \in [Calls -> Files \cup {None}] /\ holds \in [Files -> Contents]
  BY <1>0 DEF TypeOK
<1>i. /\ handle[d] # None <=> pc[d] \in Serving
      /\ handle[d] # None => handle[d] \in OfBuild(B(d)) \ {Blank}
      /\ handle[d] # None /\ B(d) \notin adrift => holds[handle[d]] \in Builds
      /\ pc[d] = "served" /\ B(d) \notin adrift =>
           \/ holds[handle[d]] = B(d)
           \/ call[d].kind = "prepare" /\ handle[d] = Found(B(d))
  BY <1>0 DEF HandlesAreOwn
<1>o. OpensAsOwn /\ OpensAsOwn' /\ holds[Blank] \notin Openable /\ holds'[Blank] \notin Openable
  <2>1. (FilesAreOwn => OpensAsOwn)' /\ (FilesAreOwn => holds[Blank] \notin Openable)'
    BY OpensIsOwn, BlankIsClosed, PTL
  <2> QED BY <1>0, <2>1, OpensIsOwn, BlankIsClosed DEF Blank, Openable
<1>k. ASSUME call'[d] = call[d], pc'[d] = pc[d], handle'[d] = handle[d] PROVE Goal
  <2>1. B(d)' = B(d)
    BY <1>k DEF B
  <2>2. handle[d] # None /\ B(d) \notin adrift =>
          holds'[handle[d]] \in Builds /\ (holds[handle[d]] = B(d) => holds'[handle[d]] = B(d))
    BY HandleKept
  <2>3. pc[d] = "served" => handle[d] # None
    BY <1>i DEF Serving
  <2> QED BY <1>0, <1>i, <1>k, <2>1, <2>2, <2>3
<1>n. ASSUME handle'[d] = None, pc'[d] \notin Serving PROVE Goal
  BY <1>n DEF Serving
<1>1. CASE UNCHANGED vars
  BY <1>k, <1>1 DEF vars
<1>2. ASSUME NEW c \in Calls, c # d, Begin(c) \/ Work(c) \/ Crash(c) PROVE Goal
  BY <1>0, <1>k, <1>2, Others
<1>3. CASE Begin(d)
  BY <1>0, <1>t, <1>i, <1>n, <1>3 DEF Begin, Goto, Serving
<1>4. CASE FallBack(d)
  BY <1>t, <1>i, <1>n, <1>4 DEF FallBack, Goto, Serving
<1>b. CASE (Work(d) \/ Crash(d)) /\ ~FallBack(d)
  <2>1. pc[d] # "idle" /\ B(d) \in Builds /\ B(d)' = B(d) /\ call[d] \in Openings
    BY <1>0, <1>b, WorkHasBegun, OnABuild, SameBuild DEF B
  <2>2. /\ OpenOrCreate(Place(B(d))) \in OfBuild(B(d)) /\ OpenOrCreate(Place(B(d))) # None
        /\ at[Place(B(d))] # None => OpenOrCreate(Place(B(d))) = at[Place(B(d))]
    BY <1>0, <2>1, Opened DEF There
  <2>3. CASE Look(d) \/ Fetch(d) \/ Probe(d) \/ Link(d) \/ Retire(d) \/ Swap(d) \/ Restore(d) \/ Drop(d) \/ Clean(d)
    BY <1>t, <1>i, <1>n, <2>3 DEF Look, Fetch, Probe, Link, Retire, Swap, Restore, Drop, Clean, Goto,
                                  Serving, Rejected
  <2>4. CASE Crash(d)
    BY <1>t, <1>n, <2>4 DEF Crash, Goto, Serving
  <2>5. CASE Create(d) \/ Fill(d)
    BY <1>t, <1>i, <1>n, <2>5 DEF Create, Fill, Goto, Serving, Rejected, Installs
  <2>6. CASE OpenReadOnly(d)
    <3>1. CASE UNCHANGED handle /\ Goto(d, "fetching")
      BY <1>t, <1>i, <1>n, <2>6, <3>1 DEF OpenReadOnly, Goto, Serving
    <3>2. CASE /\ at[Place(B(d))] # None /\ Opens(at[Place(B(d))])
               /\ Goto(d, "checking") /\ handle' = [handle EXCEPT ![d] = at[Place(B(d))]]
      <4>1. handle'[d] = at[Place(B(d))] /\ pc'[d] = "checking" /\ holds' = holds
        BY <1>t, <2>6, <3>2 DEF OpenReadOnly, Goto
      <4>2. at[Place(B(d))] \in OfBuild(B(d)) /\ holds[at[Place(B(d))]] \in Openable
        BY <2>2, <3>2 DEF Opens
      <4>3. at[Place(B(d))] # Blank
        BY <1>o, <4>2
      <4>4. B(d) \notin adrift' => holds[at[Place(B(d))]] \in Builds
        BY <1>0, <1>o, <2>1, <4>2 DEF OpensAsOwn
      <4> QED BY <2>1, <3>2, <4>1, <4>2, <4>3, <4>4 DEF Serving
    <3> QED BY <2>6, <3>1, <3>2 DEF OpenReadOnly
  <2>7. CASE CheckBuild(d)
    <3>1. CASE Goto(d, "failed") /\ handle' = [handle EXCEPT ![d] = None]
      BY <1>t, <1>n, <3>1 DEF Goto, Serving
    <3>2. CASE holds[handle[d]] \in {B(d), Mixed} /\ Goto(d, "served") /\ UNCHANGED handle
      <4>1. /\ pc'[d] = "served" /\ handle'[d] = handle[d] /\ holds' = holds
            /\ handle[d] # None
        BY <1>t, <1>i, <2>7, <3>2 DEF CheckBuild, Goto, Serving
      <4>2. B(d) \notin adrift' => holds[handle[d]] \in Builds
        BY <1>0, <1>i, <4>1
      <4>3. holds[handle[d]] \in Builds => holds[handle[d]] = B(d)
        BY <3>2, NotBuilds
      <4> QED BY <1>i, <2>1, <4>1, <4>2, <4>3 DEF Serving
    <3> QED BY <2>7, <3>1, <3>2 DEF CheckBuild
  <2>8. CASE Reopen(d)
    <3> DEFINE file == OpenOrCreate(Place(B(d)))
    <3>1. CASE UNCHANGED handle /\ (Goto(d, "creating") \/ Goto(d, Rejected(d)))
      <4>1. pc'[d] \in {"creating", "falling back", "failed"}
        BY <1>t, <3>1, Ways DEF Goto
      <4>2. pc[d] \notin Serving
        BY <2>8 DEF Reopen, Serving
      <4> QED BY <1>i, <1>n, <3>1, <4>1, <4>2 DEF Serving
    <3>2. CASE /\ holds'[file] \in Openable /\ Goto(d, "importing")
               /\ handle' = [handle EXCEPT ![d] = file]
      <4>1. handle'[d] = file /\ pc'[d] = "importing"
        BY <1>t, <3>2 DEF Goto
      <4>2. file # Blank
        BY <1>o, <3>2
      <4>3. B(d) \notin adrift' => holds'[file] \in Builds
        BY <1>o, <2>1, <2>2, <3>2 DEF OpensAsOwn, OfBuild, Found, Openable, Blank
      <4> QED BY <2>1, <2>2, <4>1, <4>2, <4>3 DEF Serving
    <3> QED BY <2>8, <3>1, <3>2 DEF Reopen
  <2>9. CASE Import(d)
    <3>1. handle[d] \in Files /\ handle[d] # None /\ call' = call
      BY <1>t, <1>i, <2>9 DEF Import, Serving
    <3>2. CASE Goto(d, Rejected(d)) /\ handle' = [handle EXCEPT ![d] = None]
      BY <1>t, <1>n, <3>2 DEF Goto, Serving, Rejected
    <3>3. CASE /\ holds' = [holds EXCEPT ![handle[d]] = IF holds[handle[d]] = Mixed THEN Mixed ELSE B(d)]
               /\ Goto(d, Prepares(d)) /\ UNCHANGED handle
      <4>1. handle'[d] = handle[d] /\ pc'[d] \in {"checking", "served"}
        BY <1>t, <3>3, Ways DEF Goto
      <4>2. B(d) \notin adrift' => holds'[handle[d]] = B(d)
        <5>1. B(d) \notin adrift' => holds[handle[d]] # Mixed
          BY <1>0, <1>i, <3>1, NotBuilds
        <5> QED BY <1>t, <3>1, <3>3, <5>1
      <4> QED BY <1>i, <2>1, <3>1, <4>1, <4>2 DEF Serving
    <3> QED BY <2>9, <3>2, <3>3 DEF Import
  <2>10. CASE Return(d)
    <3> DEFINE file == OpenOrCreate(Place(B(d)))
    <3>1. CASE UNCHANGED handle /\ Goto(d, Rejected(d))
      BY <1>t, <1>i, <1>n, <2>10, <3>1 DEF Return, Goto, Serving, Rejected
    <3>2. CASE /\ holds'[file] \in Openable /\ Goto(d, Prepares(d))
               /\ handle' = [handle EXCEPT ![d] = file]
      <4>1. handle'[d] = file /\ pc'[d] = Prepares(d) /\ call' = call
        BY <1>t, <2>10, <3>2 DEF Return, Goto
      <4>2. file # Blank
        BY <1>o, <3>2
      <4>3. B(d) \notin adrift' => holds'[file] \in Builds /\ (holds'[file] = B(d) \/ file = Found(B(d)))
        BY <1>o, <2>1, <2>2, <3>2 DEF OpensAsOwn, OfBuild, Found, Openable, Blank
      <4>4. Prepares(d) \in {"checking", "served"} /\ (Prepares(d) = "served" => call[d].kind # "open")
        BY DEF Prepares
      <4>5. call[d].kind # "open" => call[d].kind = "prepare"
        BY <2>1, KindsAssumption DEF Openings
      <4>0. file \in OfBuild(B(d)) /\ file # None
        BY <2>2
      <4> HIDE DEF file
      <4>6. /\ handle'[d] # None /\ pc'[d] \in Serving
            /\ handle'[d] \in OfBuild(B(d)') \ {Blank}
        BY <2>1, <4>0, <4>1, <4>2, <4>4 DEF Serving
      <4>7. B(d)' \notin adrift' => holds'[handle'[d]] \in Builds
        BY <2>1, <4>1, <4>3
      <4>8. pc'[d] = "served" /\ B(d)' \notin adrift' =>
                \/ holds'[handle'[d]] = B(d)'
                \/ call'[d].kind = "prepare" /\ handle'[d] = Found(B(d)')
        BY <2>1, <4>1, <4>3, <4>4, <4>5
      <4> QED BY <4>6, <4>7, <4>8
    <3> QED BY <2>10, <3>1, <3>2 DEF Return
  <2> QED BY <1>b, <2>3, <2>4, <2>5, <2>6, <2>7, <2>8, <2>9, <2>10 DEF Work, Opening, Preparing, Installing
<1> QED BY <1>1, <1>2, <1>3, <1>4, <1>b DEF Next, Work, Opening

-------------------------------------------------------------------------------
(* Imports and their journals *)

\* Who opens the place of a build that is being imported finds it locked.
LEMMA ImportLocks ==
    ASSUME SafeInv, NEW d \in Calls, pc[d] = "importing", B(d) \notin adrift
    PROVE  Locked(OpenOrCreate(Place(B(d))))
<1>0. TypeOK /\ NamesAreOwn /\ HandlesAreOwn /\ JournalsAreOwn
  BY DEF SafeInv
<1>1. B(d) \in Builds /\ handle[d] # None
  BY <1>0, OnABuild DEF HandlesAreOwn, Serving
<1>2. at[Place(B(d))] = handle[d]
  BY <1>0, <1>1 DEF JournalsAreOwn
<1>3. OpenOrCreate(Place(B(d))) = handle[d]
  BY <1>0, <1>1, <1>2, Opened DEF There
<1> QED BY <1>3 DEF Locked

\* Only an import's step, and an opening of what is not being imported, change a
\* journal; only an opening begins an import.
LEMMA JournalMoves ==
    ASSUME TypeOK, NEW e \in Calls, Begin(e) \/ Work(e) \/ Crash(e)
    PROVE  /\ \/ UNCHANGED journal
              \/ /\ Import(e) \/ ~Locked(OpenOrCreate(Place(B(e))))
                 /\ pc[e] # "idle" /\ \E f : journal' = [journal EXCEPT ![B(e)] = f]
           /\ pc'[e] = "importing" =>
                /\ Reopen(e) /\ ~Locked(OpenOrCreate(Place(B(e)))) 
                /\ handle'[e] = OpenOrCreate(Place(B(e)))
                /\ journal' = [journal EXCEPT ![B(e)] = OpenOrCreate(Place(B(e)))]
<1>t. pc \in [Calls -> Steps] /\ handle \in [Calls -> Files \cup {None}]
  BY DEF TypeOK
<1>1. CASE Reopen(e)
  <2>1. \/ UNCHANGED journal
        \/ /\ ~Locked(OpenOrCreate(Place(B(e)))) /\ pc[e] # "idle"
           /\ \E f : journal' = [journal EXCEPT ![B(e)] = f]
    BY <1>1 DEF Reopen
  <2>2. ASSUME pc'[e] = "importing"
        PROVE  /\ ~Locked(OpenOrCreate(Place(B(e)))) 
               /\ handle'[e] = OpenOrCreate(Place(B(e)))
               /\ holds'[OpenOrCreate(Place(B(e)))] \in Openable
    BY <1>1, <1>t, <2>2, Ways DEF Reopen, Goto
  <2>3. ASSUME pc'[e] = "importing"
        PROVE  journal' = [journal EXCEPT ![B(e)] = OpenOrCreate(Place(B(e)))]
    BY <1>1, <2>2, <2>3 DEF Reopen
  <2> QED BY <1>1, <2>1, <2>2, <2>3
<1>2. CASE Import(e)
  BY <1>2, <1>t, Ways DEF Import, Ends, Goto
<1>3. CASE Return(e)
  <2>1. pc'[e] # "importing"
    BY <1>3, <1>t, Ways DEF Return, Goto
  <2>2. \/ UNCHANGED journal
        \/ /\ ~Locked(OpenOrCreate(Place(B(e)))) /\ pc[e] # "idle"
           /\ \E f : journal' = [journal EXCEPT ![B(e)] = f]
    BY <1>3 DEF Return
  <2> QED BY <2>1, <2>2
<1>4. CASE ~Reopen(e) /\ ~Import(e) /\ ~Return(e)
  <2>1. UNCHANGED journal
    BY <1>4 DEF Begin, Work, Opening, Preparing, Installing, Look, OpenReadOnly, FallBack, CheckBuild,
                Fetch, Probe, Create, Fill, Link, Retire, Swap, Restore, Drop, Clean, Crash
  <2>2. pc'[e] # "importing"
    BY <1>t, <1>4 DEF Begin, Work, Opening, Preparing, Installing, Look, OpenReadOnly, FallBack,
                CheckBuild, Fetch, Probe, Create, Fill, Link, Retire, Swap, Restore, Drop, Clean,
                Crash, Goto, Rejected, Installs
  <2> QED BY <2>1, <2>2
<1> QED BY <1>1, <1>2, <1>3, <1>4

\* No place but its build's is touched by a call.
LEMMA PlacesApart ==
    ASSUME TypeOK, NEW e \in Calls, Begin(e) \/ Work(e) \/ Crash(e), NEW b \in Builds,
           pc[e] = "idle" \/ B(e) # b
    PROVE  at'[Place(b)] = at[Place(b)]
<1>1. CASE Begin(e)
  BY <1>1 DEF Begin
<1>2. CASE Work(e) \/ Crash(e)
  <2>1. B(e) \in Builds /\ b # B(e)
    BY <1>2, WorkHasBegun, OnABuild
  <2>2. /\ Place(b) \in Paths
        /\ Place(b) \notin {Place(B(e)), Temporary(e, B(e)), Backup(e, B(e))}
    BY <2>1, Names
  <2>3. at \in [Paths -> Files \cup {None}]
    BY DEF TypeOK
  <2> QED BY <1>2, <2>2, <2>3
          DEF Work, Opening, Preparing, Installing, Look, OpenReadOnly, FallBack, CheckBuild, Fetch,
              Probe, Reopen, Import, Create, Fill, Link, Retire, Swap, Restore, Drop, Return, Clean,
              Crash, Rename
<1> QED BY <1>1, <1>2

\* A place changes its file where there was none, or from beside no journal, or the
\* build is adrift.
LEMMA PlaceMoves ==
    ASSUME SafeInv, NEW e \in Calls, Work(e) \/ Crash(e), B(e) \notin adrift'
    PROVE  \/ at'[Place(B(e))] = at[Place(B(e))]
           \/ journal[B(e)] = None
<1>0. TypeOK /\ JournalsAreOwn /\ adrift \subseteq adrift' /\ at \in [Paths -> Files \cup {None}]
  BY History DEF SafeInv, TypeOK
<1>1. /\ B(e) \in Builds /\ Place(B(e)) \in Paths /\ Temporary(e, B(e)) \in Paths
      /\ Backup(e, B(e)) \in Paths
      /\ Place(B(e)) # Temporary(e, B(e)) /\ Place(B(e)) # Backup(e, B(e))
  BY <1>0, WorkHasBegun, OnABuild, Names
<1>2. journal[B(e)] \in {None, at[Place(B(e))]}
  BY <1>0, <1>1 DEF JournalsAreOwn
<1>3. CASE Reopen(e) \/ Return(e) \/ Link(e)
  <2>1. at[Place(B(e))] # None => at'[Place(B(e))] = at[Place(B(e))]
    BY <1>0, <1>1, <1>3 DEF Reopen, Return, Link, OpenOrCreate, There
  <2> QED BY <1>2, <2>1
<1>4. CASE Retire(e) \/ Swap(e) \/ Restore(e)
  <2>1. UNCHANGED at \/ CastsOff(B(e))
    BY <1>4 DEF Retire, Swap, Restore
  <2> QED BY <1>0, <1>1, <2>1 DEF CastsOff
<1>5. CASE Create(e) \/ Drop(e) \/ Clean(e)
  BY <1>0, <1>1, <1>5 DEF Create, Drop, Clean
<1> QED
  BY <1>3, <1>4, <1>5
     DEF Work, Opening, Preparing, Installing, Look, OpenReadOnly, FallBack, CheckBuild, Fetch,
         Probe, Import, Fill, Crash

\* The journal beside a place is that of the import into it, or the build is adrift.
LEMMA JournalsStep == SafeInv /\ [Next]_vars => JournalsAreOwn' /\ ImportsAreOne'
<1> SUFFICES ASSUME SafeInv, [Next]_vars PROVE JournalsAreOwn' /\ ImportsAreOne'
  OBVIOUS
<1>0. /\ TypeOK /\ TypeOK' /\ JournalsAreOwn /\ ImportsAreOne /\ HandlesAreOwn /\ NamesAreOwn
      /\ adrift \subseteq adrift'
  BY AdriftStays, TypeStep DEF SafeInv
<1>t. /\ pc \in [Calls -> Steps] /\ journal \in [Builds -> Files \cup {None}]
      /\ at \in [Paths -> Files \cup {None}]
  BY <1>0 DEF TypeOK
<1>u. CASE UNCHANGED vars
  BY <1>0, <1>u DEF JournalsAreOwn, ImportsAreOne, vars, history, B
<1>w. ASSUME NEW e \in Calls, Begin(e) \/ Work(e) \/ Crash(e)
      PROVE  JournalsAreOwn' /\ ImportsAreOne'
  <2>m. /\ \/ UNCHANGED journal
           \/ /\ Import(e) \/ ~Locked(OpenOrCreate(Place(B(e))))
              /\ pc[e] # "idle" /\ \E f : journal' = [journal EXCEPT ![B(e)] = f]
        /\ pc'[e] = "importing" =>
             /\ Reopen(e) /\ ~Locked(OpenOrCreate(Place(B(e)))) 
             /\ handle'[e] = OpenOrCreate(Place(B(e)))
             /\ journal' = [journal EXCEPT ![B(e)] = OpenOrCreate(Place(B(e)))]
    BY <1>0, <1>w, JournalMoves
  <2>o. ASSUME NEW c \in Calls, c # e
        PROVE  call'[c] = call[c] /\ pc'[c] = pc[c] /\ handle'[c] = handle[c] /\ B(c)' = B(c)
    BY <1>0, <1>w, <2>o, Others DEF B
  <2>s. pc'[e] = "importing" => B(e)' = B(e) /\ B(e) \in Builds
    <3>1. CASE Reopen(e)
      <4>1. Work(e) /\ ~FallBack(e)
        BY <3>1 DEF Work, Preparing, Reopen, FallBack
      <4> QED BY <1>0, <4>1, SameBuild, WorkHasBegun, OnABuild DEF B
    <3> QED BY <2>m, <3>1
  \* Another import into the same build's file is in the way of this step's opening.
  <2>p. ASSUME NEW c \in Calls, c # e, pc[c] = "importing", B(c) = B(e), B(e) \notin adrift
        PROVE  /\ UNCHANGED journal
               /\ pc'[e] # "importing"
    <3>1. Locked(OpenOrCreate(Place(B(e))))
      BY <2>p, ImportLocks
    <3>2. ~Import(e)
      BY <1>0, <2>p DEF ImportsAreOne, Import
    <3> QED BY <2>m, <3>1, <3>2
  <2>1. ASSUME NEW b \in Builds \ adrift' PROVE journal'[b] \in {None, at'[Place(b)]}
    <3>0. b \notin adrift /\ journal[b] \in {None, at[Place(b)]}
      BY <1>0 DEF JournalsAreOwn
    <3>1. CASE pc[e] = "idle" \/ B(e) # b
      <4>1. at'[Place(b)] = at[Place(b)]
        BY <1>0, <1>w, <3>1, PlacesApart
      <4>2. journal'[b] = journal[b]
        BY <1>t, <2>m, <3>1
      <4> QED BY <3>0, <4>1, <4>2
    <3>2. CASE pc[e] # "idle" /\ B(e) = b
      <4>0. Work(e) \/ Crash(e)
        BY <1>w, <3>2 DEF Begin
      <4>1. CASE UNCHANGED journal
        <5>1. at'[Place(b)] = at[Place(b)] \/ journal[b] = None
          BY <3>2, <4>0, PlaceMoves
        <5> QED BY <3>0, <4>1, <5>1
      <4>2. CASE Import(e)
        BY <1>t, <3>2, <4>2 DEF Import, Ends
      <4>3. CASE Reopen(e)
        <5>1. /\ Place(b) \in Paths
              /\ at' = [at EXCEPT ![Place(b)] = OpenOrCreate(Place(b))]
          BY <3>2, <4>3, Names DEF Reopen
        <5>2. \/ UNCHANGED journal
              \/ \E f \in {None, OpenOrCreate(Place(b))} : journal' = [journal EXCEPT ![b] = f]
          BY <3>2, <4>3 DEF Reopen
        <5>3. journal'[b] \in {journal[b], None, OpenOrCreate(Place(b))}
          BY <1>t, <5>2
        <5> QED BY <1>t, <4>1, <5>1, <5>2, <5>3
      <4>4. CASE Return(e)
        <5>1. UNCHANGED journal \/ journal' = [journal EXCEPT ![b] = None]
          BY <3>2, <4>4 DEF Return
        <5> QED BY <1>t, <4>1, <5>1
      <4> QED BY <4>0, <4>1, <4>2, <4>3, <4>4
              DEF Work, Opening, Preparing, Installing, Look, OpenReadOnly, FallBack, CheckBuild, Fetch,
                  Probe, Create, Fill, Link, Retire, Swap, Restore, Drop, Clean, Crash
    <3> QED BY <3>1, <3>2
  <2>2. ASSUME NEW c \in Calls, pc'[c] = "importing", B(c)' \notin adrift' PROVE journal'[B(c)'] = handle'[c]
    <3>1. CASE c = e
      BY <1>t, <2>m, <2>s, <2>2, <3>1
    <3>2. CASE c # e
      <4>1. /\ pc[c] = "importing" /\ B(c)' = B(c) /\ handle'[c] = handle[c] /\ B(c) \notin adrift
            /\ journal[B(c)] = handle[c] /\ B(c) \in Builds
        BY <1>0, <2>2, <2>o, <3>2, OnABuild DEF JournalsAreOwn
      <4>2. CASE B(c) = B(e)
        BY <2>p, <3>2, <4>1, <4>2
      <4>3. CASE B(c) # B(e)
        BY <1>t, <2>m, <4>1, <4>3
      <4> QED BY <4>1, <4>2, <4>3
    <3> QED BY <3>1, <3>2
  <2>3. ASSUME NEW c \in Calls, NEW d \in Calls, pc'[c] = "importing", pc'[d] = "importing", c # d,
               B(c)' = B(d)', B(c)' \notin adrift'
        PROVE  FALSE
    <3>1. CASE c # e /\ d # e
      <4>1. /\ pc[c] = "importing" /\ pc[d] = "importing" /\ B(c)' = B(c) /\ B(d)' = B(d)
            /\ B(c) \notin adrift
        BY <1>0, <2>o, <2>3, <3>1
      <4> QED BY <1>0, <2>3, <4>1 DEF ImportsAreOne
    <3>2. CASE c = e
      <4>1. d # e /\ pc[d] = "importing" /\ B(d) = B(e) /\ B(e) \notin adrift
        BY <1>0, <2>o, <2>s, <2>3, <3>2
      <4> QED BY <2>p, <2>3, <3>2, <4>1
    <3>3. CASE d = e
      <4>1. c # e /\ pc[c] = "importing" /\ B(c) = B(e) /\ B(e) \notin adrift
        BY <1>0, <2>o, <2>s, <2>3, <3>3
      <4> QED BY <2>p, <2>3, <3>3, <4>1
    <3> QED BY <3>1, <3>2, <3>3
  <2> QED BY <2>1, <2>2, <2>3 DEF JournalsAreOwn, ImportsAreOne, Place
<1> QED BY <1>u, <1>w DEF Next


-------------------------------------------------------------------------------
(* What is installed *)

\* Others neither move nor change the file a preparation is about to install.
LEMMA FilledStep == SafeInv /\ [Next]_vars => FilledIsWhole'
<1> DEFINE Named == {"filling", "linking", "retiring", "swapping", "restoring"}
           Filled == {"linking", "retiring", "swapping", "restoring"}
<1> SUFFICES ASSUME SafeInv, [Next]_vars, NEW d \in Calls
             PROVE  /\ pc'[d] \in Named => at'[Temporary(d, B(d)')] = Fresh(d, B(d)')
                    /\ pc'[d] \in Filled /\ B(d)' \notin adrift' => holds'[Fresh(d, B(d)')] = B(d)'
  BY DEF FilledIsWhole, Temporary, Fresh
<1>0. TypeOK /\ FilledIsWhole /\ HandlesAreOwn /\ adrift \subseteq adrift'
  BY AdriftStays DEF SafeInv
<1>t. /\ pc \in [Calls -> Steps] /\ at \in [Paths -> Files \cup {None}] /\ holds \in [Files -> Contents]
  BY <1>0 DEF TypeOK
<1> DEFINE Goal == /\ pc'[d] \in Named => at'[Temporary(d, B(d)')] = Fresh(d, B(d)')
                   /\ pc'[d] \in Filled /\ B(d)' \notin adrift' => holds'[Fresh(d, B(d)')] = B(d)'
\* What is filled stays so.
<1>k. ASSUME pc[d] \in Filled, B(d) \notin adrift, ~Create(d) PROVE holds'[Fresh(d, B(d))] = B(d)
  <2>1. B(d) \in Builds \ adrift /\ Fresh(d, B(d)) \in OfBuild(B(d)) /\ holds[Fresh(d, B(d))] = B(d)
    BY <1>0, <1>k, OnABuild DEF OfBuild, FilledIsWhole
  <2>2. ASSUME NEW c \in Calls, Create(c), B(c) = B(d), Fresh(d, B(d)) = Fresh(c, B(d)) PROVE FALSE
    BY <1>k, <2>1, <2>2, FileNames
  <2> QED BY <2>1, <2>2, Written
<1>1. CASE UNCHANGED vars
  BY <1>0, <1>1 DEF vars, history, FilledIsWhole, B
<1>2. ASSUME NEW c \in Calls, c # d, Begin(c) \/ Work(c) \/ Crash(c), pc'[d] \in Named
      PROVE  Goal
  <2>1. pc'[d] = pc[d] /\ B(d)' = B(d) /\ pc[d] # "idle"
    BY <1>0, <1>2, Others DEF B
  <2>2. B(d) \in Builds /\ Fresh(d, B(d)) \in Files /\ Temporary(d, B(d)) \in Paths
    BY <1>0, <2>1, OnABuild
  <2>3. at'[Temporary(d, B(d))] = at[Temporary(d, B(d))]
    <3>1. CASE Begin(c)
      BY <3>1 DEF Begin
    <3>2. CASE Work(c) \/ Crash(c)
      <4>1. B(c) \in Builds
        BY <1>0, <3>2, WorkHasBegun, OnABuild
      <4>2. /\ Temporary(d, B(d)) # Temporary(c, B(c)) /\ Temporary(d, B(d)) # Place(B(c))
            /\ Temporary(d, B(d)) # Backup(c, B(c))
        BY <1>2, <2>2, <4>1, Names
      <4> QED BY <1>t, <2>2, <3>2, <4>2
              DEF Work, Opening, Preparing, Installing, Look, OpenReadOnly, FallBack, CheckBuild,
                  Fetch, Probe,
                  Reopen, Import, Create, Fill, Link, Retire, Swap, Restore, Drop, Return, Clean,
                  Crash, Rename
    <3> QED BY <1>2, <3>1, <3>2
  <2>4. pc[d] \in Filled /\ B(d) \notin adrift' => holds'[Fresh(d, B(d))] = B(d)
    BY <1>0, <1>k DEF Create
  <2> QED BY <1>0, <1>2, <2>1, <2>3, <2>4 DEF FilledIsWhole
<1>3. CASE Begin(d)
  BY <1>t, <1>3 DEF Begin, Goto
<1>4. CASE FallBack(d)
  BY <1>t, <1>4 DEF FallBack, Goto
<1>5. CASE (Work(d) \/ Crash(d)) /\ ~FallBack(d)
  <2>1. B(d) \in Builds /\ B(d)' = B(d) /\ Fresh(d, B(d)) \in Files /\ Temporary(d, B(d)) \in Paths
    BY <1>0, <1>5, WorkHasBegun, OnABuild, SameBuild DEF B
  <2>2. Temporary(d, B(d)) # Place(B(d)) /\ Temporary(d, B(d)) # Backup(d, B(d))
    BY <2>1, Names
  <2>3. CASE Create(d)
    BY <1>t, <2>1, <2>3 DEF Create, Goto, Rejected
  <2>4. CASE Fill(d)
    BY <1>0, <1>t, <2>1, <2>4 DEF Fill, Goto, Installs, FilledIsWhole
  <2>5. CASE Retire(d)
    <3>1. /\ pc'[d] \in {"swapping", "cleaning"} /\ at'[Temporary(d, B(d))] = at[Temporary(d, B(d))]
          /\ holds' = holds /\ pc[d] = "retiring"
      BY <1>t, <2>1, <2>2, <2>5 DEF Retire, Goto, Rename
    <3> QED BY <1>0, <2>1, <3>1 DEF FilledIsWhole
  <2>6. CASE Swap(d)
    <3>1. /\ pc'[d] = "dropping" \/ (pc'[d] = "restoring" /\ at' = at)
          /\ holds' = holds /\ pc[d] = "swapping"
      BY <1>t, <2>6 DEF Swap, Goto
    <3> QED BY <1>0, <2>1, <3>1 DEF FilledIsWhole
  <2>7. pc'[d] \in Named => Create(d) \/ Fill(d) \/ Retire(d) \/ Swap(d)
    BY <1>t, <1>5
       DEF Work, Opening, Preparing, Installing, Look, OpenReadOnly, CheckBuild, Fetch, Probe, Reopen,
           Import,
           Link, Restore, Drop, Return, Clean, Crash, Goto, Rejected, Prepares
  <2> QED BY <2>3, <2>4, <2>5, <2>6, <2>7
<1> QED BY <1>1, <1>2, <1>3, <1>4, <1>5 DEF Next

\* What gets a name of a build's: what has one already, a new empty file, or a filled one.
LEMMA Renamed ==
    ASSUME SafeInv, [Next]_vars, NEW b \in Builds,
           NEW p \in {Place(b)} \cup {Backup(c, b) : c \in Calls}
    PROVE  \/ at'[p] \in {None, Blank, at[Place(b)]}
           \/ \E d \in Calls : at'[p] = at[Backup(d, b)]
           \/ \E d \in Calls : /\ pc[d] \in {"linking", "swapping"} /\ B(d) = b
                               /\ at'[p] = at[Temporary(d, b)]
<1> DEFINE Goal == \/ at'[p] \in {None, Blank, at[Place(b)]}
                   \/ \E d \in Calls : at'[p] = at[Backup(d, b)]
                   \/ \E d \in Calls : /\ pc[d] \in {"linking", "swapping"} /\ B(d) = b
                                       /\ at'[p] = at[Temporary(d, b)]
<1>0. TypeOK /\ at \in [Paths -> Files \cup {None}]
  BY DEF SafeInv, TypeOK
<1>p. p \in Paths
  BY Names
<1>1. ASSUME at'[p] = at[p] PROVE Goal
  BY <1>1
<1>2. ASSUME NEW d \in Calls, Work(d) \/ Crash(d) PROVE Goal
  <2>1. /\ B(d) \in Builds /\ Place(B(d)) \in Paths /\ Temporary(d, B(d)) \in Paths
        /\ Backup(d, B(d)) \in Paths
    BY <1>0, <1>2, WorkHasBegun, OnABuild
  <2>2. /\ p # Temporary(d, B(d)) /\ (p \in {Place(B(d)), Backup(d, B(d))} => B(d) = b)
        /\ Place(B(d)) # Backup(d, B(d)) /\ Temporary(d, B(d)) # Place(B(d))
        /\ Temporary(d, B(d)) # Backup(d, B(d))
    BY <2>1, Names
  <2>3. CASE Create(d) \/ Drop(d) \/ Clean(d)
    BY <1>0, <1>p, <1>1, <2>1, <2>2, <2>3 DEF Create, Drop, Clean
  <2>4. CASE Reopen(d) \/ Return(d)
    BY <1>0, <1>p, <1>1, <2>1, <2>2, <2>4 DEF Reopen, Return, OpenOrCreate
  <2>5. CASE Link(d) \/ Swap(d)
    <3>1. at'[p] = at[p] \/ (p = Place(B(d)) /\ at'[p] = at[Temporary(d, B(d))])
      BY <1>0, <1>p, <2>1, <2>2, <2>5 DEF Link, Swap, Rename
    <3> QED BY <1>1, <2>2, <2>5, <3>1 DEF Link, Swap
  <2>6. CASE Retire(d)
    <3>1. at'[p] \in {at[p], None} \/ (p = Backup(d, B(d)) /\ at'[p] = at[Place(B(d))])
      BY <1>0, <1>p, <2>1, <2>2, <2>6 DEF Retire, Rename
    <3> QED BY <1>1, <2>2, <3>1
  <2>7. CASE Restore(d)
    <3>1. at'[p] \in {at[p], None} \/ (p = Place(B(d)) /\ at'[p] = at[Backup(d, B(d))])
      BY <1>0, <1>p, <2>1, <2>2, <2>7 DEF Restore, Rename
    <3> QED BY <1>1, <2>2, <3>1
  <2> QED BY <1>1, <1>2, <2>3, <2>4, <2>5, <2>6, <2>7
          DEF Work, Opening, Preparing, Installing, Look, OpenReadOnly, FallBack, CheckBuild, Fetch,
              Probe, Import, Fill, Crash
<1> HIDE DEF Goal
<1>3. Goal
  <2>1. UNCHANGED at => at'[p] = at[p]
    OBVIOUS
  <2>2. UNCHANGED at \/ \E d \in Calls : Work(d) \/ Crash(d)
    BY DEF Next, vars, Begin
  <2> QED BY <1>1, <1>2, <2>1, <2>2
<1> QED BY <1>3 DEF Goal

\* Nothing half written gets a build's name, or is kept of it.
LEMMA WholeStep == SafeInv /\ [Next]_vars => PlaceIsNeverPartial' /\ BackupIsWhole'
<1> SUFFICES ASSUME SafeInv, [Next]_vars, NEW b \in Builds \ adrift',
                    NEW p \in {Place(b)} \cup {Backup(c, b) : c \in Calls}, at'[p] # None
             PROVE  holds'[at'[p]] # Filling
  BY DEF PlaceIsNeverPartial, BackupIsWhole, There, Place, Backup
<1>0. /\ TypeOK /\ NamesAreOwn /\ NamesAreOwn' /\ FilesAreOwn' /\ FilledIsWhole /\ UnmadeIsNowhere
      /\ PlaceIsNeverPartial /\ BackupIsWhole /\ adrift \subseteq adrift'
  BY AdriftStays, NamesAreOwnStep, FilesAreOwnStep DEF SafeInv
<1>b. b \in Builds \ adrift /\ b # Filling
  BY <1>0, NotBuilds
\* What has a name already is written by nobody but who imports into it.
<1>1. ASSUME NEW q \in Paths, at'[p] = at[q], holds[at[q]] # Filling PROVE holds'[at'[p]] # Filling
  <2>1. at[q] \in OfBuild(b)
    BY <1>0, <1>b, <1>1 DEF NamesAreOwn, OfBuild, Place, Backup, Blank, Found, Fresh
  <2>2. ASSUME NEW d \in Calls, Create(d), B(d) = b PROVE at[q] # Fresh(d, b)
    BY <1>0, <1>1, <1>b, <2>2 DEF UnmadeIsNowhere, Unmade, Create, BeforeCreate
  <2> QED BY <1>b, <1>1, <2>1, <2>2, Written
<1>2. CASE at'[p] = Blank
  BY <1>0, <1>2, NotFilling DEF FilesAreOwn, Blank
<1>3. CASE at'[p] = at[Place(b)]
  BY <1>0, <1>b, <1>1, <1>3, Names DEF PlaceIsNeverPartial, There
<1>4. ASSUME NEW d \in Calls, at'[p] = at[Backup(d, b)] PROVE holds'[at'[p]] # Filling
  BY <1>0, <1>b, <1>1, <1>4, Names DEF BackupIsWhole, There
<1>5. ASSUME NEW d \in Calls, pc[d] \in {"linking", "swapping"}, B(d) = b, at'[p] = at[Temporary(d, b)]
      PROVE  holds'[at'[p]] # Filling
  <2>1. holds[at[Temporary(d, b)]] = b /\ Temporary(d, b) \in Paths
    BY <1>0, <1>b, <1>5, Names DEF FilledIsWhole
  <2> QED BY <1>b, <1>1, <1>5, <2>1
<1> QED BY <1>2, <1>3, <1>4, <1>5, Renamed

-------------------------------------------------------------------------------
(* The store begins as it is found. *)

\* A store with nothing under way is sane.
LEMMA InitSafe == Init => SafeInv
<1> SUFFICES ASSUME Init PROVE SafeInv
  OBVIOUS
<1>1. PICK found \in [Builds -> FoundFiles], wrong \in [Builds -> Builds] :
        /\ at = [p \in Paths |-> IF \E b \in Builds : p = Place(b) /\ found[b] # "none"
                                  THEN Found(p[2]) ELSE None]
        /\ \A b \in Builds : wrong[b] = b <=> found[b] # "misplaced"
        /\ holds = [f \in Files |->
              CASE f = Blank -> Empty
                [] f[1] = "found" -> IF found[f[2]] \in {"whole", "misplaced"}
                                     THEN wrong[f[2]] ELSE Invalid
                [] OTHER -> Empty]
  BY DEF Init
<1>2. /\ \A b \in Builds : at[Place(b)] = IF found[b] # "none" THEN Found(b) ELSE None
      /\ \A c \in Calls, b \in Builds : at[Temporary(c, b)] = None /\ at[Backup(c, b)] = None
      /\ at \in [Paths -> Files \cup {None}]
      /\ \A p \in Paths : at[p] = None \/ \E b \in Builds : at[p] = Found(b)
  <2>1. \A b \in Builds : Place(b)[2] = b
    BY DEF Place
  <2> QED BY <1>1, <2>1, Names, FileNames
<1>3. /\ holds[Blank] = Empty
      /\ \A b \in Builds : holds[Found(b)] = IF found[b] \in {"whole", "misplaced"} THEN wrong[b] ELSE Invalid
      /\ \A c \in Calls, b \in Builds : holds[Fresh(c, b)] = Empty
      /\ holds \in [Files -> Contents]
  <2>1. \A b \in Builds : Found(b)[1] = "found" /\ Found(b)[2] = b
    BY DEF Found
  <2>2. \A c \in Calls, b \in Builds : Fresh(c, b)[1] = "fresh"
    BY DEF Fresh
  <2>3. \A f \in Files : f = Blank \/ (\E b \in Builds : f = Found(b)) \/ \E c \in Calls, b \in Builds : f = Fresh(c, b)
    BY DEF Files
  <2>4. holds[Blank] = Empty
    <3>1. Blank[1] = "blank"
      BY DEF Blank
    <3> QED BY <1>1, <3>1, FileNames
  <2>5. \A b \in Builds : holds[Found(b)] = IF found[b] \in {"whole", "misplaced"} THEN wrong[b] ELSE Invalid
    BY <1>1, <2>1, FileNames
  <2>6. \A c \in Calls, b \in Builds : holds[Fresh(c, b)] = Empty
    BY <1>1, <2>2, FileNames
  <2>7. holds \in [Files -> Contents]
    <3>1. \A f \in Files : holds[f] \in Contents
      BY <2>3, <2>4, <2>5, <2>6 DEF Contents
    <3>2. holds = [f \in Files |-> holds[f]]
      BY <1>1
    <3> QED BY <3>1, <3>2
  <2> QED BY <2>4, <2>5, <2>6, <2>7
<1>4. /\ pc = [c \in Calls |-> "idle"] /\ call = [c \in Calls |-> None] /\ handle = [c \in Calls |-> None]
      /\ journal = [b \in Builds |-> None] /\ adrift = {} /\ unswapped = {} /\ left = {} /\ hurt = {}
  BY DEF Init
<1>5. TypeOK
  BY <1>2, <1>3, <1>4 DEF TypeOK, Steps
<1>6. NamesAreOwn
  BY <1>2 DEF NamesAreOwn, OfBuild
<1>7. FilesAreOwn
  BY <1>3, NotBuilds, NotFilling DEF FilesAreOwn
<1>8. HandlesAreOwn /\ NeverNewer /\ FilledIsWhole
  BY <1>4 DEF HandlesAreOwn, Serving, NeverNewer, FilledIsWhole
<1>9. UnmadeIsNowhere
  <2>1. \A c \in Calls, b, b2 \in Builds : Fresh(c, b) # None /\ Fresh(c, b) # Found(b2)
    BY FileNames, NoneIsNothing
  <2> QED BY <1>2, <1>4, <2>1 DEF UnmadeIsNowhere
<1>10. PlaceIsNeverPartial /\ BackupIsWhole
  BY <1>2, <1>3, NotBuilds, NotFilling DEF PlaceIsNeverPartial, BackupIsWhole, There
<1>11. JournalsAreOwn /\ ImportsAreOne
  BY <1>4 DEF JournalsAreOwn, ImportsAreOne
<1> QED BY <1>5, <1>6, <1>7, <1>8, <1>9, <1>10, <1>11 DEF SafeInv

\* The values on disk and of the calls are those their comments name, and what was
\* said above holds of them, whichever calls meet on whichever builds.
THEOREM StoreIsSane == Spec => []SafeInv
<1>1. SafeInv /\ [Next]_vars => SafeInv'
  BY TypeStep, NamesAreOwnStep, FilesAreOwnStep, HandlesAreOwnStep, NeverNewerStep, UnmadeStep,
     FilledStep, WholeStep, JournalsStep DEF SafeInv
<1> QED BY <1>1, InitSafe, PTL DEF Spec

\* A database half written never has a build's name, for any builds and calls: it is
\* made under a name of its own and linked or renamed when whole, and an import into
\* one in place is undone by the journal beside it, until the file is moved from there
\* (WriteNewDatabase, WriteDatabase, CjsToolSdeArchive.js:185-216, 302-323).
THEOREM NeverPartial == Spec => []PlaceIsNeverPartial
<1>1. SafeInv => PlaceIsNeverPartial
  BY DEF SafeInv
<1> QED BY <1>1, StoreIsSane, PTL

\* What is served is never newer than the build asked for, and is the build it says,
\* but for a command on a file put there for another build, and for a place that was
\* given away from beside its journal (the fallback of #Open,
\* CjsToolSdeRepository.js:326-358).
THEOREM NeverAhead == Spec => []ServedIsNeverAhead
<1>1. SafeInv => ServedIsNeverAhead
  BY DEF SafeInv, TypeOK, HandlesAreOwn, NeverNewer, ServedIsNeverAhead, B
<1> QED BY <1>1, StoreIsSane, PTL

-------------------------------------------------------------------------------
(* What calls leave behind *)

\* A retired file has its name while it is being replaced, or for good.
BackupsAreUsed ==
    \A c \in Calls, b \in Builds : There(Backup(c, b)) /\ <<c, b>> \notin left =>
        call[c] # None /\ B(c) = b /\ pc[c] \in {"swapping", "restoring", "dropping"}

\* A temporary name is that of a preparation under way, or of one that failed to remove it.
TemporariesAreUsed ==
    \A c \in Calls, b \in Builds : There(Temporary(c, b)) /\ <<c, b>> \notin left =>
        call[c] # None /\ B(c) = b /\ pc[c] \in Renewing \ {"creating"}

\* What had the place is put back when the second rename failed.
RestoringIsUnswapped == \A c \in Calls : pc[c] = "restoring" => B(c) \in unswapped

LeftInv == BackupsAreUsed /\ TemporariesAreUsed

\* What a working call does to its own two names beside the place.
LEMMA BesideStep ==
    ASSUME SafeInv, NEW c \in Calls, Begin(c) \/ Work(c) \/ Crash(c),
           NEW d \in Calls, NEW b \in Builds, d # c \/ call[c] = None \/ b # B(c)
    PROVE  at'[Backup(d, b)] = at[Backup(d, b)] /\ at'[Temporary(d, b)] = at[Temporary(d, b)]
<1>0. TypeOK /\ at \in [Paths -> Files \cup {None}]
  BY DEF SafeInv, TypeOK
<1>1. CASE Begin(c)
  BY <1>1 DEF Begin
<1>2. CASE Work(c) \/ Crash(c)
  <2>1. B(c) \in Builds /\ call[c] # None
    BY <1>0, <1>2, WorkHasBegun, OnABuild
  <2>2. /\ Backup(d, b) \in Paths /\ Temporary(d, b) \in Paths
        /\ Backup(d, b) \notin {Place(B(c)), Temporary(c, B(c)), Backup(c, B(c))}
        /\ Temporary(d, b) \notin {Place(B(c)), Temporary(c, B(c)), Backup(c, B(c))}
    BY <2>1, Names
  <2> QED BY <1>0, <1>2, <2>2
          DEF Work, Opening, Preparing, Installing, Look, OpenReadOnly, FallBack, CheckBuild, Fetch,
              Probe,
              Reopen, Import, Create, Fill, Link, Retire, Swap, Restore, Drop, Return, Clean, Crash,
              Rename
<1> QED BY <1>1, <1>2

\* A step that leaves a name behind leaves the call that cleans it up, or is the
\* last of a call that could not.
LEMMA LeftStep == SafeInv /\ LeftInv /\ [Next]_vars => LeftInv'
<1> SUFFICES ASSUME SafeInv, LeftInv, [Next]_vars PROVE LeftInv'
  OBVIOUS
<1>0. TypeOK /\ TypeOK'
  BY TypeStep DEF SafeInv
<1>t. /\ pc \in [Calls -> Steps] /\ at \in [Paths -> Files \cup {None}]
  BY <1>0 DEF TypeOK
<1>1. CASE UNCHANGED vars
  BY <1>1 DEF LeftInv, BackupsAreUsed, TemporariesAreUsed, vars, history, There, B
<1>2. ASSUME NEW c \in Calls, Begin(c) \/ Work(c) \/ Crash(c) PROVE LeftInv'
  <2>0. left \subseteq left'
    BY <1>0, <1>2, History
  <2>1. ASSUME NEW d \in Calls, d # c PROVE call'[d] = call[d] /\ pc'[d] = pc[d] /\ B(d)' = B(d)
    BY <1>0, <1>2, <2>1, Others DEF B
  <2>2. SUFFICES ASSUME NEW b \in Builds, <<c, b>> \notin left'
                 PROVE  /\ at'[Backup(c, b)] # None =>
                              call'[c] # None /\ B(c)' = b /\ pc'[c] \in {"swapping", "restoring", "dropping"}
                        /\ at'[Temporary(c, b)] # None =>
                              call'[c] # None /\ B(c)' = b /\ pc'[c] \in Renewing \ {"creating"}
    <3>1. ASSUME NEW d \in Calls, NEW e \in Builds, d # c, <<d, e>> \notin left'
          PROVE  /\ at'[Backup(d, e)] # None =>
                       call'[d] # None /\ B(d)' = e /\ pc'[d] \in {"swapping", "restoring", "dropping"}
                 /\ at'[Temporary(d, e)] # None =>
                       call'[d] # None /\ B(d)' = e /\ pc'[d] \in Renewing \ {"creating"}
      <4>1. at'[Backup(d, e)] = at[Backup(d, e)] /\ at'[Temporary(d, e)] = at[Temporary(d, e)]
        BY <1>2, <3>1, BesideStep
      <4> QED BY <2>0, <2>1, <3>1, <4>1 DEF LeftInv, BackupsAreUsed, TemporariesAreUsed, There
    <3> QED BY <3>1 DEF LeftInv, BackupsAreUsed, TemporariesAreUsed, There, Backup, Temporary, Renewing
  <2>3. /\ at[Backup(c, b)] # None =>
              call[c] # None /\ B(c) = b /\ pc[c] \in {"swapping", "restoring", "dropping"}
        /\ at[Temporary(c, b)] # None =>
              call[c] # None /\ B(c) = b /\ pc[c] \in Renewing \ {"creating"}
    BY <2>0, <2>2 DEF LeftInv, BackupsAreUsed, TemporariesAreUsed, There
  <2>4. CASE Begin(c)
    BY <1>0, <2>3, <2>4 DEF Begin, TypeOK
  <2>5. CASE FallBack(c)
    BY <2>3, <2>5 DEF FallBack, Renewing
  <2>6. CASE (Work(c) \/ Crash(c)) /\ ~FallBack(c)
    <3>1. B(c) \in Builds /\ B(c)' = B(c) /\ call[c] # None /\ pc[c] # "idle"
      BY <1>0, <2>6, WorkHasBegun, OnABuild, SameBuild DEF B
    <3>2. call'[c] # None
      <4>1. pc'[c] # "idle"
        BY <1>t, <2>6
           DEF Work, Opening, Preparing, Installing, Look, OpenReadOnly, CheckBuild, Fetch, Probe,
               Reopen, Import,
               Create, Fill, Link, Retire, Swap, Restore, Drop, Return, Clean, Crash, Goto, Rejected,
               Prepares, Installs
      <4> QED BY <1>0, <4>1 DEF TypeOK
    <3>3. CASE b # B(c)
      <4>1. at'[Backup(c, b)] = at[Backup(c, b)] /\ at'[Temporary(c, b)] = at[Temporary(c, b)]
        BY <1>2, <3>3, BesideStep
      <4> QED BY <2>3, <3>3, <4>1
    <3>4. CASE b = B(c)
      <4>0. ~Leaves(c)
        BY <2>2, <3>4 DEF Leaves
      <4>1. /\ Place(b) \in Paths /\ Backup(c, b) \in Paths /\ Temporary(c, b) \in Paths
            /\ Backup(c, b) # Place(b) /\ Backup(c, b) # Temporary(c, b) /\ Temporary(c, b) # Place(b)
        BY Names
      <4>2. CASE Look(c) \/ OpenReadOnly(c) \/ CheckBuild(c) \/ Fetch(c) \/ Probe(c) \/ Reopen(c) \/ Import(c)
        BY <1>t, <2>3, <3>4, <4>1, <4>2
           DEF Look, OpenReadOnly, CheckBuild, Fetch, Probe, Reopen, Import, Renewing
      <4>3. CASE Create(c)
        BY <1>t, <2>3, <3>1, <3>2, <3>4, <4>0, <4>1, <4>3 DEF Create, Renewing, Goto
      <4>4. CASE Fill(c)
        BY <1>t, <2>3, <3>1, <3>2, <3>4, <4>1, <4>4 DEF Fill, Renewing, Goto, Installs
      <4>5. CASE Link(c)
        BY <1>t, <2>3, <3>1, <3>2, <3>4, <4>1, <4>5 DEF Link, Renewing, Goto
      <4>6. CASE Retire(c)
        BY <1>t, <2>3, <3>1, <3>2, <3>4, <4>1, <4>6 DEF Retire, Renewing, Goto, Rename
      <4>7. CASE Swap(c)
        BY <1>t, <2>3, <3>1, <3>2, <3>4, <4>1, <4>7 DEF Swap, Renewing, Goto, Rename
      <4>8. CASE Restore(c)
        BY <1>t, <2>3, <3>1, <3>2, <3>4, <4>0, <4>1, <4>8 DEF Restore, Renewing, Goto, Rename
      <4>9. CASE Drop(c)
        BY <1>t, <2>3, <3>1, <3>2, <3>4, <4>0, <4>1, <4>9 DEF Drop, Renewing, Goto
      <4>10. CASE Return(c) \/ Clean(c)
        BY <1>t, <2>3, <3>1, <3>2, <3>4, <4>0, <4>1, <4>10 DEF Return, Clean, Renewing
      <4>11. ~Crash(c)
        BY <4>0 DEF Crash
      <4> QED BY <2>6, <4>2, <4>3, <4>4, <4>5, <4>6, <4>7, <4>8, <4>9, <4>10, <4>11
              DEF Work, Opening, Preparing, Installing
    <3> QED BY <3>3, <3>4
  <2> QED BY <1>2, <2>4, <2>5, <2>6
<1> QED BY <1>1, <1>2 DEF Next

\* Once a build was opened or installed its database is there, or is just being replaced.
Reached(b) == \E c \in Calls :
    call[c] # None /\ B(c) = b /\ pc[c] \in Serving \cup {"dropping", "returning"}
Swapped(b) == \E c \in Calls : call[c] # None /\ B(c) = b /\ pc[c] = "swapping"
PlaceOpens(b) == There(Place(b)) /\ Opens(at[Place(b)])

ReachedStays == \A b \in Builds \ (adrift \cup unswapped) : Reached(b) => PlaceOpens(b) \/ Swapped(b)

\* Only a second rename that failed leads to putting back what was there.
LEMMA RestoringStep == SafeInv /\ RestoringIsUnswapped /\ [Next]_vars => RestoringIsUnswapped'
<1> SUFFICES ASSUME SafeInv, RestoringIsUnswapped, [Next]_vars, NEW c \in Calls, pc'[c] = "restoring"
             PROVE  B(c)' \in unswapped'
  BY DEF RestoringIsUnswapped
<1>0. TypeOK /\ pc \in [Calls -> Steps]
  BY DEF SafeInv, TypeOK
<1>1. CASE UNCHANGED vars
  BY <1>1 DEF vars, history, B, RestoringIsUnswapped
<1>2. ASSUME NEW d \in Calls, d # c, Begin(d) \/ Work(d) \/ Crash(d) PROVE B(c)' \in unswapped'
  BY <1>0, <1>2, Others, History DEF B, RestoringIsUnswapped
<1>3. CASE Begin(c) \/ Work(c) \/ Crash(c)
  <2>1. Swap(c)
    BY <1>0, <1>3
       DEF Begin, Work, Opening, Preparing, Installing, Look, OpenReadOnly, FallBack, CheckBuild, Fetch,
           Probe, Reopen, Import, Create, Fill, Link, Retire, Restore, Drop, Return, Clean, Crash, Goto,
           Rejected, Prepares, Installs
  <2> QED BY <1>0, <2>1 DEF Swap, Goto, Unswaps, B
<1> QED BY <1>1, <1>2, <1>3 DEF Next

\* A database in its place still opens after a step, or is being replaced.
LEMMA PlaceStays ==
    ASSUME SafeInv, RestoringIsUnswapped, [Next]_vars, NEW c \in Calls, Begin(c) \/ Work(c) \/ Crash(c),
           NEW b \in Builds \ (adrift' \cup unswapped'), PlaceOpens(b)
    PROVE  PlaceOpens(b)' \/ Swapped(b)'
<1>0. /\ TypeOK /\ NamesAreOwn /\ FilesAreOwn /\ FilledIsWhole /\ UnmadeIsNowhere
      /\ adrift \subseteq adrift' /\ unswapped \subseteq unswapped'
  BY History DEF SafeInv
<1>t. /\ pc \in [Calls -> Steps] /\ at \in [Paths -> Files \cup {None}]
  BY <1>0 DEF TypeOK
<1>1. Place(b) \in Paths /\ b \in Builds \ adrift /\ b \notin unswapped
  BY <1>0, Names
<1>2. at[Place(b)] # None /\ at[Place(b)] \in OfBuild(b) /\ holds[at[Place(b)]] \in Builds
  <2>1. at[Place(b)] # None /\ at[Place(b)] \in OfBuild(b) /\ holds[at[Place(b)]] \in Openable
    BY <1>0, <1>1 DEF PlaceOpens, There, Opens, NamesAreOwn
  <2> QED BY <1>0, <1>1, <2>1, OpensIsOwn DEF OpensAsOwn
<1>3. holds'[at[Place(b)]] \in Openable
  <2>1. ASSUME NEW d \in Calls, Create(d), B(d) = b PROVE at[Place(b)] # Fresh(d, b)
    BY <1>0, <1>1, <2>1 DEF UnmadeIsNowhere, Unmade, Create, BeforeCreate
  <2> QED BY <1>1, <1>2, <2>1, Written DEF Openable
<1>4. CASE at'[Place(b)] = at[Place(b)]
  BY <1>2, <1>3, <1>4 DEF PlaceOpens, There, Opens, Openable, Place
<1>5. CASE (Work(c) \/ Crash(c)) /\ B(c) = b
  <2>1. /\ call[c] # None /\ Temporary(c, b) \in Paths /\ Backup(c, b) \in Paths
        /\ Place(b) # Temporary(c, b) /\ Place(b) # Backup(c, b) /\ Temporary(c, b) # Backup(c, b)
    BY <1>0, <1>5, WorkHasBegun, OnABuild, Names
  <2>2. CASE Retire(c)
    <3>1. at' = at \/ (pc'[c] = "swapping" /\ call' = call)
      BY <1>t, <2>2 DEF Retire, Goto
    <3>2. pc'[c] = "swapping" /\ call' = call => Swapped(b)'
      BY <1>5, <2>1 DEF Swapped, B
    <3> QED BY <1>4, <3>1, <3>2
  <2>3. CASE Swap(c)
    <3>1. at[Temporary(c, b)] = Fresh(c, b) /\ holds[Fresh(c, b)] = b /\ Fresh(c, b) # None
      BY <1>0, <1>1, <1>5, <2>3, FileNames, NoneIsNothing DEF Swap, FilledIsWhole
    <3>2. (at' = at \/ at'[Place(b)] = Fresh(c, b)) /\ holds' = holds
      BY <1>t, <1>1, <1>5, <2>1, <2>3, <3>1 DEF Swap, Rename
    <3>3. at'[Place(b)] = Fresh(c, b) => PlaceOpens(b)'
      BY <3>1, <3>2 DEF PlaceOpens, There, Opens, Openable, Place
    <3> QED BY <1>4, <3>2, <3>3
  <2>4. ~Restore(c)
    BY <1>1, <1>5 DEF Restore, RestoringIsUnswapped
  <2>5. CASE ~Retire(c) /\ ~Swap(c)
    <3>1. at'[Place(b)] = at[Place(b)]
      BY <1>t, <1>1, <1>2, <1>5, <2>1, <2>4, <2>5
         DEF Work, Opening, Preparing, Installing, Look, OpenReadOnly, FallBack, CheckBuild, Fetch, Probe,
             Reopen, Import, Create, Fill, Link, Drop, Return, Clean, Crash, OpenOrCreate, There
    <3> QED BY <1>4, <3>1
  <2> QED BY <2>2, <2>3, <2>5
<1>6. CASE pc[c] = "idle" \/ B(c) # b
  BY <1>0, <1>1, <1>4, <1>6, PlacesApart
<1> QED BY <1>5, <1>6 DEF Begin

\* A call comes to a build's database only where it is.
LEMMA ReachedAnew ==
    ASSUME SafeInv, NEW c \in Calls, Work(c), NEW b \in Builds \ adrift, B(c)' = b,
           pc[c] \notin Serving \cup {"dropping", "returning"},
           pc'[c] \in Serving \cup {"dropping", "returning"}
    PROVE  PlaceOpens(b)'
<1>0. TypeOK /\ FilledIsWhole
  BY DEF SafeInv
<1>t. /\ pc \in [Calls -> Steps] /\ at \in [Paths -> Files \cup {None}]
  BY <1>0 DEF TypeOK
<1>1. OpenReadOnly(c) \/ Reopen(c) \/ Link(c) \/ Swap(c)
  BY <1>t DEF Work, Opening, Preparing, Installing, Look, FallBack, CheckBuild, Fetch, Probe, Import,
              Create,
              Fill, Retire, Restore, Drop, Return, Clean, Goto, Serving, Rejected, Installs
<1>2. ~FallBack(c)
  BY <1>t DEF FallBack, Goto, Serving
<1>3. B(c) = b /\ Place(b) \in Paths /\ Temporary(c, b) \in Paths /\ Place(b) # Temporary(c, b)
  BY <1>0, <1>2, SameBuild, Names DEF B
<1>4. CASE OpenReadOnly(c)
  <2>1. There(Place(b)) /\ Opens(at[Place(b)]) /\ UNCHANGED <<at, holds>>
    BY <1>t, <1>3, <1>4 DEF OpenReadOnly, Goto, Serving, There
  <2> QED BY <2>1 DEF PlaceOpens, There, Opens, Openable, Place
<1>5. CASE Reopen(c)
  <2>1. at'[Place(b)] = OpenOrCreate(Place(b)) /\ holds'[OpenOrCreate(Place(b))] \in Openable
    BY <1>t, <1>3, <1>5, Ways DEF Reopen, Goto, Serving
  <2>2. OpenOrCreate(Place(b)) # None
    BY FileNames, NoneIsNothing DEF OpenOrCreate, There
  <2> QED BY <2>1, <2>2 DEF PlaceOpens, There, Opens, Openable, Place
<1>6. CASE Link(c) \/ Swap(c)
  <2>1. at[Temporary(c, b)] = Fresh(c, b) /\ holds[Fresh(c, b)] = b /\ Fresh(c, b) # None
    BY <1>0, <1>3, <1>6, FileNames, NoneIsNothing DEF Link, Swap, FilledIsWhole
  <2>2. at'[Place(b)] = Fresh(c, b) /\ holds' = holds
    BY <1>t, <1>3, <1>6, <2>1 DEF Link, Swap, Goto, Rename, Serving
  <2> QED BY <2>1, <2>2 DEF PlaceOpens, There, Opens, Openable, Place
<1> QED BY <1>1, <1>4, <1>5, <1>6

\* A place that serves stays, but for the moment of the swap.
LEMMA ReachedStep == SafeInv /\ RestoringIsUnswapped /\ ReachedStays /\ [Next]_vars => ReachedStays'
<1> SUFFICES ASSUME SafeInv, RestoringIsUnswapped, ReachedStays, [Next]_vars,
                    NEW b \in Builds \ (adrift' \cup unswapped'), Reached(b)'
             PROVE  PlaceOpens(b)' \/ Swapped(b)'
  BY DEF ReachedStays, Reached, PlaceOpens, Swapped, Place
<1>0. TypeOK /\ pc \in [Calls -> Steps]
  BY DEF SafeInv, TypeOK
<1>1. CASE UNCHANGED vars
  <2>1. Reached(b) /\ (PlaceOpens(b) => PlaceOpens(b)') /\ (Swapped(b) => Swapped(b)')
    BY <1>1 DEF vars, Reached, PlaceOpens, Swapped, There, Opens, B, Place
  <2>2. b \in Builds \ (adrift \cup unswapped)
    BY <1>1 DEF vars, history
  <2> QED BY <2>1, <2>2 DEF ReachedStays
<1>2. ASSUME NEW c \in Calls, Begin(c) \/ Work(c) \/ Crash(c) PROVE PlaceOpens(b)' \/ Swapped(b)'
  <2>0. b \in Builds \ (adrift \cup unswapped)
    BY <1>0, <1>2, History
  <2>1. ASSUME NEW d \in Calls, d # c PROVE call'[d] = call[d] /\ pc'[d] = pc[d] /\ B(d)' = B(d)
    BY <1>0, <1>2, <2>1, Others DEF B
  <2>2. CASE Reached(b)
    <3>1. CASE PlaceOpens(b)
      BY <1>2, <3>1, PlaceStays
    <3>2. ASSUME NEW d \in Calls, call[d] # None, B(d) = b, pc[d] = "swapping" PROVE PlaceOpens(b)' \/ Swapped(b)'
      <4>1. CASE d # c
        BY <2>1, <3>2, <4>1 DEF Swapped
      <4>2. CASE d = c
        <5>1. Swap(c)
          <6>1. ~Crash(c)
            BY <3>2, <4>2 DEF Crash, Unswaps
          <6> QED BY <1>2, <3>2, <4>2, <6>1
             DEF Begin, Work, Opening, Preparing, Installing, Look, OpenReadOnly, FallBack, CheckBuild,
                 Fetch, Probe, Reopen, Import, Create, Fill, Link, Retire, Restore, Drop, Return, Clean
        <5>2. pc'[c] = "dropping" /\ call' = call
          BY <1>0, <3>2, <4>2, <5>1 DEF Swap, Goto, Unswaps
        <5>3. Work(c) /\ B(c)' = b
          BY <3>2, <4>2, <5>1, <5>2 DEF Work, Installing, B
        <5> QED BY <2>0, <3>2, <4>2, <5>2, <5>3, ReachedAnew DEF Serving
      <4> QED BY <4>1, <4>2
    <3> QED BY <2>0, <2>2, <3>1, <3>2 DEF ReachedStays, Swapped
  <2>3. CASE ~Reached(b)
    <3>1. B(c)' = b /\ pc'[c] \in Serving \cup {"dropping", "returning"}
      BY <2>1, <2>3 DEF Reached
    <3>2. Work(c) /\ ~FallBack(c)
      BY <1>0, <1>2, <3>1 DEF FallBack, Begin, Crash, Goto, Serving
    <3>3. B(c) = b /\ call[c] # None
      BY <1>0, <3>1, <3>2, SameBuild, WorkHasBegun, OnABuild DEF B
    <3>4. pc[c] \notin Serving \cup {"dropping", "returning"}
      BY <2>3, <3>3 DEF Reached
    <3> QED BY <2>0, <3>1, <3>2, <3>4, ReachedAnew
  <2> QED BY <2>2, <2>3
<1> QED BY <1>1, <1>2 DEF Next

\* A store at rest is clean and whole, whatever met or failed: what is beside a place
\* is of a call that died there or could not remove it, and a build that was served
\* has its database, unless its second rename did not happen or it is adrift
\* (the finally and the rollback of CjsToolSdeArchive.js:309-364).
THEOREM RestIsClean == Spec => []QuietStoreIsWhole
<1> DEFINE Inv == SafeInv /\ LeftInv /\ RestoringIsUnswapped /\ ReachedStays
<1>1. Init => Inv
  <2> SUFFICES ASSUME Init PROVE Inv
    OBVIOUS
  <2>1. SafeInv /\ \A c \in Calls : call[c] = None /\ pc[c] = "idle"
    BY InitSafe DEF Init
  <2>2. \A c \in Calls, b \in Builds : at[Temporary(c, b)] = None /\ at[Backup(c, b)] = None
    BY Names DEF Init
  <2> QED BY <2>1, <2>2 DEF LeftInv, BackupsAreUsed, TemporariesAreUsed, There, RestoringIsUnswapped,
                            ReachedStays, Reached
<1>2. Inv /\ [Next]_vars => Inv'
  <2>1. SafeInv /\ [Next]_vars => SafeInv'
    BY TypeStep, NamesAreOwnStep, FilesAreOwnStep, HandlesAreOwnStep, NeverNewerStep, UnmadeStep,
       FilledStep, WholeStep, JournalsStep DEF SafeInv
  <2> QED BY <2>1, LeftStep, RestoringStep, ReachedStep
<1>3. Inv => QuietStoreIsWhole
  <2> SUFFICES ASSUME Inv, Quiet PROVE
        /\ \A c \in Calls, b \in Builds : There(Temporary(c, b)) \/ There(Backup(c, b)) => <<c, b>> \in left
        /\ \A c \in Calls : pc[c] = "served" /\ B(c) \notin adrift \cup unswapped =>
             There(Place(B(c))) /\ Opens(at[Place(B(c))])
    BY DEF QuietStoreIsWhole
  <2>1. \A c \in Calls : pc[c] \in {"idle", "served", "failed"}
    BY DEF Quiet, AtWork
  <2>2. \A c \in Calls, b \in Builds : There(Backup(c, b)) => <<c, b>> \in left
    BY <2>1 DEF LeftInv, BackupsAreUsed
  <2>3. \A c \in Calls, b \in Builds : There(Temporary(c, b)) => <<c, b>> \in left
    BY <2>1 DEF LeftInv, TemporariesAreUsed, Renewing
  <2>4. ASSUME NEW c \in Calls, pc[c] = "served", B(c) \notin adrift \cup unswapped PROVE PlaceOpens(B(c))
    <3>1. B(c) \in Builds /\ call[c] # None
      BY <2>4, OnABuild DEF SafeInv
    <3>2. Reached(B(c)) /\ ~Swapped(B(c))
      BY <2>1, <2>4, <3>1 DEF Reached, Swapped, Serving
    <3> QED BY <2>4, <3>1, <3>2 DEF ReachedStays
  <2> QED BY <2>2, <2>3, <2>4 DEF PlaceOpens
<1> QED BY <1>1, <1>2, <1>3, PTL DEF Spec

-------------------------------------------------------------------------------
(* The next call *)

\* A call under way that has met no other and no failure of its own.
Alone(c) == AtWork(c) /\ c \notin hurt

AloneIsAlone == \A c \in Calls : Alone(c) => \A d \in Calls \ {c} : ~AtWork(d)

\* It finds the place as it left it, whatever it found there first.
FindsIt(c) ==
    /\ pc[c] \notin {"falling back", "restoring", "cleaning"}
    /\ pc[c] \in {"creating", "filling"} => (call[c].replace <=> There(Place(B(c))))
    /\ pc[c] = "linking" => ~There(Place(B(c)))
    /\ pc[c] = "retiring" => There(Place(B(c)))
    /\ pc[c] \in {"dropping", "returning"} => PlaceOpens(B(c))

GoesOn(c) == B(c) \in adrift \/ FindsIt(c)

AloneInv == AloneIsAlone /\ \A c \in Calls : Alone(c) => GoesOn(c)

\* Who is alone after a step was alone before, and took it, or has just begun.
LEMMA AloneActs ==
    ASSUME SafeInv, AloneIsAlone, NEW c \in Calls, Begin(c) \/ Work(c) \/ Crash(c),
           NEW d \in Calls, Alone(d)'
    PROVE  d = c /\ (Begin(c) \/ (Work(c) /\ Alone(c)))
<1>0. TypeOK /\ pc \in [Calls -> Steps]
  BY DEF SafeInv, TypeOK
<1>1. hurt \subseteq hurt'
  BY <1>0, History
<1>2. d \notin hurt /\ d \notin hurt'
  BY <1>1 DEF Alone
<1>3. CASE d # c
  <2>1. AtWork(d)
    BY <1>0, <1>3, Others DEF Alone, AtWork
  <2>2. ~Begin(c)
    BY <1>2, <1>3, <2>1 DEF Begin
  <2>3. Work(c) \/ Crash(c)
    BY <2>2
  <2>4. AtWork(c)
    BY <2>3 DEF Work, Opening, Preparing, Installing, Look, OpenReadOnly, FallBack, CheckBuild, Fetch,
                Probe,
                Reopen, Import, Create, Fill, Link, Retire, Swap, Restore, Drop, Return, Clean, Crash,
                AtWork
  <2>5. AtWork(d)' => AtWork(d) /\ ~AtWork(c)
    BY <1>2, <1>3, <2>1, <2>4 DEF Alone, AloneIsAlone
  <2> QED BY <2>4, <2>5 DEF Alone
<1>4. CASE d = c
  <2>1. ~Crash(c)
    BY <1>2, <1>4 DEF Crash, Hurts
  <2>2. Work(c) => AtWork(c)
    BY DEF Work, Opening, Preparing, Installing, Look, OpenReadOnly, FallBack, CheckBuild, Fetch,
           Probe, Reopen,
           Import, Create, Fill, Link, Retire, Swap, Restore, Drop, Return, Clean, AtWork
  <2> QED BY <1>2, <1>4, <2>1, <2>2 DEF Alone
<1> QED BY <1>3, <1>4

\* No file is locked to a call that is alone.
LEMMA AloneIsFree ==
    ASSUME SafeInv, AloneIsAlone, NEW c \in Calls, Alone(c), pc[c] # "importing", NEW file
    PROVE  ~Locked(file)
BY DEF Locked, AloneIsAlone, AtWork

\* A call that is alone goes on after each of its steps.
LEMMA GoesOnStep ==
    ASSUME SafeInv, AloneIsAlone, NEW c \in Calls, Work(c), Alone(c), GoesOn(c), c \notin hurt'
    PROVE  /\ GoesOn(c)'
           /\ pc'[c] = "failed" => B(c) \in adrift \/ CheckBuild(c)
<1>0. TypeOK /\ FilledIsWhole /\ NamesAreOwn
  BY DEF SafeInv
<1>t. /\ pc \in [Calls -> Steps] /\ at \in [Paths -> Files \cup {None}] /\ holds \in [Files -> Contents]
      /\ call \in [Calls -> Openings \cup {None}]
  BY <1>0 DEF TypeOK
<1>h. ~Hurts(c)
  BY DEF Hurts
<1>a. adrift \subseteq adrift'
  BY <1>0, History
<1>f. CASE FallBack(c)
  <2>1. B(c) \in adrift
    BY <1>f DEF FallBack, GoesOn, FindsIt
  <2>2. pc'[c] = "looking" \/ (pc'[c] = "failed" /\ call' = call)
    BY <1>t, <1>f DEF FallBack, Goto
  <2>3. pc'[c] = "looking" => FindsIt(c)'
    BY DEF FindsIt
  <2>4. pc'[c] = "failed" /\ call' = call => B(c)' \in adrift'
    BY <1>a, <2>1 DEF B
  <2> QED BY <2>1, <2>2, <2>3, <2>4 DEF GoesOn
<1>b. CASE ~FallBack(c) /\ B(c) \in adrift
  <2>1. B(c)' = B(c)
    BY <1>0, <1>b, SameBuild DEF B
  <2> QED BY <1>a, <1>b, <2>1 DEF GoesOn
<1>n. CASE ~FallBack(c) /\ B(c) \notin adrift
  <2> SUFFICES /\ B(c) \in adrift' \/ FindsIt(c)'
               /\ pc'[c] = "failed" => CheckBuild(c)
    <3>1. B(c)' = B(c)
      BY <1>0, <1>n, SameBuild DEF B
    <3> QED BY <3>1 DEF GoesOn
  <2>1. FindsIt(c)
    BY <1>n DEF GoesOn
  <2>i. ~Restore(c) /\ ~Clean(c)
    BY <2>1 DEF FindsIt, Restore, Clean
  <2>2. /\ call[c] \in Openings /\ B(c) \in Builds /\ B(c)' = B(c)
        /\ Place(B(c)) \in Paths /\ Temporary(c, B(c)) \in Paths /\ Backup(c, B(c)) \in Paths
        /\ Place(B(c)) # Temporary(c, B(c)) /\ Place(B(c)) # Backup(c, B(c))
    BY <1>0, <1>n, WorkHasBegun, OnABuild, SameBuild, Names DEF B
  <2>3. CASE Look(c) \/ OpenReadOnly(c) \/ CheckBuild(c) \/ Fetch(c) \/ Import(c)
    <3>1. pc'[c] \in {"opening", "fetching", "probing", "checking", "served", "failed"}
      BY <1>t, <1>h, <2>3, Ways DEF Look, OpenReadOnly, CheckBuild, Fetch, Import, Goto
    <3>2. pc'[c] = "failed" => CheckBuild(c)
      BY <1>t, <1>h, <2>3, Ways DEF Look, OpenReadOnly, Fetch, Import, Goto
    <3> QED BY <3>1, <3>2 DEF FindsIt
  <2>4. CASE Probe(c)
    <3>1. CASE There(Place(B(c)))
      BY <1>t, <2>4, <3>1 DEF Probe, Goto, FindsIt
    <3>2. CASE ~There(Place(B(c)))
      <4>1. call'[c] = [call[c] EXCEPT !.replace = FALSE]
        BY <1>0, <2>4, <3>2 DEF Probe, TypeOK
      <4>2. call'[c].replace = FALSE
        BY <2>2, <4>1 DEF Openings
      <4>3. pc'[c] = "creating" /\ at'[Place(B(c))] = None
        BY <1>t, <2>4, <3>2 DEF Probe, Goto, There
      <4> QED BY <2>2, <4>2, <4>3 DEF FindsIt, There, Place
    <3> QED BY <3>1, <3>2
  <2>5. CASE Reopen(c)
    <3>0. ~Locked(OpenOrCreate(Place(B(c))))
      BY <2>5, AloneIsFree DEF Reopen
    <3>1. CASE Goto(c, "importing")
      BY <1>t, <3>1 DEF Goto, FindsIt
    <3>2. CASE Goto(c, "creating") /\ call' = [call EXCEPT ![c].replace = TRUE]
      <4>1. call'[c] = [call[c] EXCEPT !.replace = TRUE]
        BY <1>0, <3>2 DEF TypeOK
      <4>2. call'[c].replace = TRUE
        BY <2>2, <4>1 DEF Openings
      <4>3. pc'[c] = "creating" /\ at'[Place(B(c))] # None
        BY <1>t, <2>2, <2>5, <3>2, FileNames, NoneIsNothing DEF Reopen, Goto, OpenOrCreate, There
      <4> QED BY <2>2, <4>2, <4>3 DEF FindsIt, There, Place
    <3> QED BY <1>h, <2>5, <3>0, <3>1, <3>2 DEF Reopen
  <2>6. CASE Create(c)
    <3>1. pc'[c] = "filling" /\ call' = call /\ at'[Place(B(c))] = at[Place(B(c))]
      BY <1>t, <1>h, <2>2, <2>6 DEF Create, Goto
    <3> QED BY <2>1, <2>2, <2>6, <3>1 DEF Create, FindsIt, There, Place, B
  <2>7. CASE Fill(c)
    <3>1. /\ call' = call /\ at' = at
          /\ pc'[c] = IF call[c].replace THEN "retiring" ELSE "linking"
      BY <1>t, <1>h, <2>7 DEF Fill, Goto, Installs
    <3>2. call[c].replace \in BOOLEAN
      BY <2>2 DEF Openings
    <3> QED BY <2>1, <2>2, <2>7, <3>1, <3>2 DEF Fill, FindsIt, There, Place, B
  <2>8. CASE Link(c) \/ Swap(c)
    <3>1. at[Temporary(c, B(c))] = Fresh(c, B(c)) /\ holds[Fresh(c, B(c))] = B(c) /\ Fresh(c, B(c)) # None
      BY <1>0, <1>n, <2>2, <2>8, FileNames, NoneIsNothing DEF Link, Swap, FilledIsWhole
    <3>2. at'[Place(B(c))] = Fresh(c, B(c)) /\ holds' = holds /\ pc'[c] \in {"dropping", "returning"}
      BY <1>t, <1>h, <2>1, <2>2, <2>8, <3>1 DEF Link, Swap, Goto, Rename, FindsIt
    <3>3. PlaceOpens(B(c))'
      BY <2>2, <3>1, <3>2 DEF PlaceOpens, There, Opens, Openable, Place
    <3> QED BY <3>2, <3>3 DEF FindsIt
  <2>9. CASE Retire(c)
    <3>1. pc'[c] = "swapping"
      BY <1>t, <1>h, <2>1, <2>9 DEF Retire, Goto, FindsIt
    <3> QED BY <3>1 DEF FindsIt
  <2>10. CASE Drop(c)
    <3>1. at'[Place(B(c))] = at[Place(B(c))] /\ holds' = holds /\ pc'[c] = "returning" /\ PlaceOpens(B(c))
      BY <1>t, <1>h, <2>1, <2>2, <2>10 DEF Drop, Goto, FindsIt
    <3>2. PlaceOpens(B(c))'
      BY <2>2, <3>1 DEF PlaceOpens, There, Opens, Openable, Place
    <3> QED BY <3>1, <3>2 DEF FindsIt
  <2>11. CASE Return(c)
    <3> DEFINE file == OpenOrCreate(Place(B(c)))
    <3>0. ~Locked(file)
      BY <2>11, AloneIsFree DEF Return
    <3>1. There(Place(B(c))) /\ holds[at[Place(B(c))]] \in Openable
      BY <2>1, <2>11 DEF Return, FindsIt, PlaceOpens, Opens
    <3>2. file = at[Place(B(c))] /\ file \in OfBuild(B(c))
      BY <1>0, <2>2, <3>1, Opened
    <3>3. PlaysBack(B(c), file)
      BY <2>11, <3>0 DEF Return
    <3>4. holds'[file] \in Openable
      BY <1>n, <2>2, <3>1, <3>2, <3>3, PlayedBack
    <3>5. Goto(c, Prepares(c))
      BY <1>h, <2>11, <3>0, <3>4 DEF Return
    <3>6. pc'[c] \in {"checking", "served"}
      BY <1>t, <3>5, Ways DEF Goto
    <3> QED BY <3>6 DEF FindsIt
  <2> QED BY <1>n, <2>i, <2>3, <2>4, <2>5, <2>6, <2>7, <2>8, <2>9, <2>10, <2>11
          DEF Work, Opening, Preparing, Installing
<1> QED BY <1>f, <1>b, <1>n

\* Who is alone finds the disk as it left it.
LEMMA AloneStep == SafeInv /\ AloneInv /\ [Next]_vars => AloneInv'
<1> SUFFICES ASSUME SafeInv, AloneInv, [Next]_vars, NEW d \in Calls, Alone(d)'
             PROVE  (\A e \in Calls \ {d} : ~AtWork(e)') /\ GoesOn(d)'
  BY DEF AloneInv, AloneIsAlone, Alone, AtWork, GoesOn, FindsIt, PlaceOpens, There, Opens, Place, B
<1>0. TypeOK /\ AloneIsAlone
  BY DEF SafeInv, AloneInv
<1>1. CASE UNCHANGED vars
  <2>1. Alone(d) /\ (GoesOn(d) => GoesOn(d)') /\ \A e \in Calls : AtWork(e)' => AtWork(e)
    BY <1>1 DEF vars, history, Alone, AtWork, GoesOn, FindsIt, PlaceOpens, There, Opens, Openable, Place, B
  <2> QED BY <2>1 DEF AloneInv, AloneIsAlone
<1>2. ASSUME NEW c \in Calls, Begin(c) \/ Work(c) \/ Crash(c)
      PROVE  (\A e \in Calls \ {d} : ~AtWork(e)') /\ GoesOn(d)'
  <2>1. d = c /\ (Begin(c) \/ (Work(c) /\ Alone(c)))
    BY <1>0, <1>2, AloneActs
  <2>2. ASSUME NEW e \in Calls \ {d} PROVE pc'[e] = pc[e]
    BY <1>0, <1>2, <2>1, Others
  <2>3. CASE Begin(c)
    <3>1. \A e \in Calls \ {c} : ~AtWork(e)
      BY <2>1, <2>3 DEF Begin, Alone
    <3>2. pc'[c] \in {"looking", "fetching"}
      BY <1>0, <2>3 DEF Begin, Goto, TypeOK
    <3> QED BY <2>1, <2>2, <3>1, <3>2 DEF AtWork, GoesOn, FindsIt
  <2>4. CASE Work(c) /\ Alone(c)
    <3>1. GoesOn(c) /\ \A e \in Calls \ {c} : ~AtWork(e)
      BY <2>4 DEF AloneInv, AloneIsAlone
    <3>2. c \notin hurt'
      BY <2>1 DEF Alone
    <3>3. GoesOn(c)'
      BY <1>0, <2>4, <3>1, <3>2, GoesOnStep
    <3> QED BY <2>1, <2>2, <3>1, <3>3 DEF AtWork
  <2> QED BY <2>1, <2>3, <2>4
<1> QED BY <1>1, <1>2 DEF Next

\* Whatever others left behind, the next call is served if nothing of its own
\* fails, but where a file was put in its build's place for another or was moved
\* from beside its journal (#Open, CjsToolSdeRepository.js:269-393).
THEOREM NextIsServed == Spec => NextCallIsServed
<1> DEFINE Inv == SafeInv /\ AloneInv
<1>1. Init => Inv
  BY InitSafe DEF Init, AloneInv, AloneIsAlone, Alone, AtWork
<1>2. Inv /\ [Next]_vars => Inv'
  BY AloneStep, TypeStep, NamesAreOwnStep, FilesAreOwnStep, HandlesAreOwnStep, NeverNewerStep, UnmadeStep,
     FilledStep, WholeStep, JournalsStep DEF SafeInv
<1>3. Inv /\ [Next]_vars =>
        [\A c \in Calls : AtWork(c) /\ pc'[c] = "failed" /\ c \notin hurt' =>
            B(c) \in adrift \/ (CheckBuild(c) /\ handle[c] = Found(B(c)))]_vars
  <2> SUFFICES ASSUME Inv, Next, NEW c \in Calls, AtWork(c), pc'[c] = "failed", c \notin hurt',
                      B(c) \notin adrift
               PROVE  CheckBuild(c) /\ handle[c] = Found(B(c))
    BY DEF AtWork
  <2>1. PICK d \in Calls : Begin(d) \/ Work(d) \/ Crash(d)
    BY DEF Next
  <2>0. TypeOK /\ FilesAreOwn /\ HandlesAreOwn /\ AloneIsAlone /\ pc \in [Calls -> Steps]
    BY DEF SafeInv, TypeOK, AloneInv
  <2>2. d = c
    BY <2>0, <2>1, Others DEF AtWork
  <2>3. c \notin hurt /\ Alone(c)
    BY <2>0, <2>1, History DEF Alone
  <2>4. Work(c)
    BY <2>0, <2>1, <2>2 DEF Begin, Crash, Hurts, AtWork
  <2>5. CheckBuild(c)
    BY <2>0, <2>3, <2>4, GoesOnStep DEF AloneInv
  <2>6. ~Locked(handle[c])
    BY <2>0, <2>3, <2>5, AloneIsFree DEF CheckBuild
  <2>7. /\ handle[c] \in OfBuild(B(c)) /\ B(c) \in Builds /\ holds[handle[c]] \in Openable
        /\ holds[handle[c]] # B(c)
    BY <2>0, <2>5, <2>6, OnABuild DEF CheckBuild, Goto, HandlesAreOwn, Serving, Openable
  <2> QED BY <2>0, <2>5, <2>7, OpensIsOwn DEF OpensAsOwn
<1> QED BY <1>1, <1>2, <1>3, PTL DEF Spec, NextCallIsServed
===============================================================================
