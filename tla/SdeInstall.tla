------------------------------ MODULE SdeInstall ------------------------------
(***************************************************************************)
(* How a build of the static data gets on disk and is served:              *)
(* CjsToolSdeRepository.#Open (src/sde/CjsToolSdeRepository.js), which     *)
(* prepares a build the first time it is asked for, and the preparation    *)
(* itself (CjsToolSdeArchive.js, CjsToolSdeDatabase.js), which the command *)
(* bin/cjs-sde-prepare.js runs too.  Services and commands are processes   *)
(* of their own on one cache directory, and nothing is locked: a new       *)
(* database is filled beside its place and linked or renamed into it.      *)
(*                                                                         *)
(* A file is told from its names: link gives it a second one, rename moves *)
(* it from under an open handle, and opening a name that is free for       *)
(* writing creates an empty file.  The rollback journal of an import is    *)
(* told from the place it is beside: moving the file does not move it, and *)
(* who opens the place next applies it to what is there.  The query        *)
(* indexes and the documents derived after an import's commit are          *)
(* functions of its rows and left out.                                     *)
(*                                                                         *)
(* A definition named X_ and what it forgets stands before X and is X with *)
(* a plausible bug; nothing here uses it.                                  *)
(***************************************************************************)
EXTENDS Naturals

CONSTANTS
    Calls,          \* openings of a service and preparations, one per process
    Kinds,          \* the kinds the calls may be: "open", "prepare"
    Builds,
    Late,           \* the calls that begin once the others are over
    FoundFiles,     \* what a file may hold that was there before
    DiskMayFail,    \* a link, a rename or a removal may fail for no reason seen here
    None,
    Empty, Filling, Invalid,  \* what a file may hold that does not open
    Mixed           \* pages of two databases, which opens all the same

ASSUME KindsAssumption == Kinds \subseteq {"open", "prepare"}
ASSUME BuildsAreNumbers == Builds \subseteq Nat \ {0}
ASSUME FoundFilesAssumption == FoundFiles \subseteq {"none", "invalid", "whole", "misplaced"}
ASSUME NotBuilds == {None, Empty, Filling, Invalid, Mixed} \cap Builds = {}
ASSUME NotFilling == Filling \notin {Empty, Invalid} /\ Mixed \notin {Empty, Filling, Invalid}

\* The files: those found, what opening a free name creates, and one per
\* preparation.  A name carries a random part, hence the call's.
Found(b) == <<"found", b>>
Blank == <<"blank">>
Fresh(c, b) == <<"fresh", c, b>>
Files == {Blank} \cup {Found(b) : b \in Builds} \cup {Fresh(c, b) : c \in Calls, b \in Builds}

\* `sde_v1.sqlite` of a build, and beside it `.uuid.tmp` and `.uuid.invalid`.
Place(b) == <<"place", b>>
Temporary(c, b) == <<"tmp", c, b>>
Backup(c, b) == <<"invalid", c, b>>
Paths == {Place(b) : b \in Builds}
            \cup {Temporary(c, b) : c \in Calls, b \in Builds}
            \cup {Backup(c, b) : c \in Calls, b \in Builds}

Openings == [kind : Kinds, asked : Builds, build : Builds, absent : BOOLEAN, replace : BOOLEAN]

ASSUME NoneIsNothing == None \notin Files \cup Openings

VARIABLES
    at,         \* the file each name is of, None if there is no such file
    holds,      \* what each file holds: a build's rows, or why it does not open
    pc,         \* where each call is
    call,       \* what it does: its kind, the build asked for, the build it is on
    handle,     \* the file it has open
    journal,    \* the file whose import the journal beside each place undoes
    adrift,     \* the builds whose place was given away from beside a journal
    unswapped,  \* the builds that got no second rename after the first
    left,       \* who died, or failed to remove a name of his, on which build
    hurt        \* the calls that met another one, or a failure of their own

history == <<adrift, unswapped, left, hurt>>
vars == <<at, holds, pc, call, handle, journal, history>>

\* Empty has no schema yet, Filling a schema and no metadata, Invalid is no
\* database of this version.
Contents == Builds \cup {Empty, Filling, Invalid, Mixed}

Steps == {"idle", "looking", "opening", "falling back", "checking", "fetching", "probing",
          "reopening", "importing", "creating", "filling", "linking", "retiring", "swapping",
          "restoring", "dropping", "returning", "cleaning", "served", "failed"}

There(path) == at[path] # None

\* #Verify passes: the version and the schema are those of an imported archive.
Openable == Builds \cup {Mixed}
Opens(file) == holds[file] \in Openable

\* An import is under way in the file: who opens it may be told that it is busy,
\* and who would import that it is locked.
Locked(file) == \E c \in Calls : pc[c] = "importing" /\ handle[c] = file

\* A journal nobody has a lock for: a read-only opening cannot play it back.
Hot(b) == journal[b] # None /\ ~Locked(at[Place(b)])

\* A writable one does.  That undoes the file's own import and is nothing to an
\* empty file; the pages of another file end up among those of this one.
PlaysBack(b, file) ==
    IF journal[b] \in {None, file} \/ holds[file] = Empty
    THEN UNCHANGED holds
    ELSE \E mess \in {Filling, Mixed} : holds' = [holds EXCEPT ![file] = mess]

-------------------------------------------------------------------------------
\* A misplaced file was put there by hand and is another build's.
Init ==
    /\ \E found \in [Builds -> FoundFiles] :
         /\ at = [p \in Paths |-> IF \E b \in Builds : p = Place(b) /\ found[b] # "none"
                                  THEN Found(p[2]) ELSE None]
         /\ \E wrong \in [Builds -> Builds] :
              /\ \A b \in Builds : wrong[b] = b <=> found[b] # "misplaced"
              /\ holds = [f \in Files |->
                    CASE f = Blank -> Empty
                      [] f[1] = "found" -> IF found[f[2]] \in {"whole", "misplaced"}
                                           THEN wrong[f[2]] ELSE Invalid
                      [] OTHER -> Empty]
    /\ pc = [c \in Calls |-> "idle"]
    /\ call = [c \in Calls |-> None]
    /\ handle = [c \in Calls |-> None]
    /\ journal = [b \in Builds |-> None]
    /\ adrift = {} /\ unswapped = {} /\ left = {}
    /\ hurt = {}

Goto(c, where) == pc' = [pc EXCEPT ![c] = where]
Hurts(c) == hurt' = hurt \cup {c}
B(c) == call[c].build

\* It ends with a name of its own left beside the place,
Leaves(c) == left' = left \cup {<<c, B(c)>>}

\* or moves the file from beside its journal.
CastsOff(b) == adrift' = IF journal[b] = None THEN adrift ELSE adrift \cup {b}

AtWork(c) == pc[c] \notin {"idle", "served", "failed"}

Moves(c, where) == Goto(c, where) /\ UNCHANGED <<at, holds, call, handle, journal, history>>

\* rename() of a file replaces what has the new name.
Rename(from, to) == at' = [at EXCEPT ![to] = at[from], ![from] = None]

\* What `new Database(path)` opens for writing: a free name becomes an empty file.
OpenOrCreate(path) == IF There(path) THEN at[path] ELSE Blank

-------------------------------------------------------------------------------
(* #Open *)

\* The build asked for is exact, the channel's latest, or the newest prepared.
Begin(c) ==
    /\ pc[c] = "idle" /\ (c \in Late => \A d \in Calls \ Late : pc[d] \in {"served", "failed"})
    /\ hurt' = LET others == {d \in Calls \ {c} : AtWork(d)} IN
                 hurt \cup others \cup (IF others = {} THEN {} ELSE {c})
    /\ \E kind \in Kinds, b \in Builds :
         /\ call' = [call EXCEPT ![c] = [kind |-> kind, asked |-> b, build |-> b,
                                         absent |-> FALSE, replace |-> FALSE]]
         /\ Goto(c, IF kind = "open" THEN "looking" ELSE "fetching")
    /\ UNCHANGED <<at, holds, handle, journal, adrift, unswapped, left>>

Look(c) ==
    /\ pc[c] = "looking"
    /\ Goto(c, IF There(Place(B(c))) THEN "opening" ELSE "fetching")
    /\ call' = [call EXCEPT ![c].absent = ~There(Place(B(c)))]
    /\ UNCHANGED <<at, holds, handle, journal, history>>

\* What does not open is an error.
OpenReadOnly_Strict(c) ==
    LET file == at[Place(B(c))] IN
    /\ pc[c] = "opening"
    /\ \/ /\ file # None /\ Opens(file) /\ ~Hot(B(c))
          /\ Goto(c, "checking") /\ handle' = [handle EXCEPT ![c] = file]
       \/ /\ file # None => ~Opens(file) \/ Hot(B(c)) \/ Locked(file)
          /\ Goto(c, "failed") /\ UNCHANGED handle
    /\ UNCHANGED <<at, holds, call, journal, history>>

\* A read-only open creates nothing; a file that does not open is prepared anew.
OpenReadOnly(c) ==
    LET file == at[Place(B(c))] IN
    /\ pc[c] = "opening"
    /\ \/ /\ file # None /\ Opens(file) /\ ~Hot(B(c))
          /\ Goto(c, "checking") /\ handle' = [handle EXCEPT ![c] = file]
       \/ /\ file # None => ~Opens(file) \/ Hot(B(c)) \/ Locked(file)
          /\ Goto(c, "fetching") /\ UNCHANGED handle
    /\ UNCHANGED <<at, holds, call, journal, history>>

\* Prepared builds no newer than the one asked for.
Prepared(b) == {n \in Builds : n <= b /\ There(Place(n))}

Newest(S) == {n \in S : \A m \in S : m <= n}

\* The newest prepared build, whichever was asked for.
FallBack_Unbounded(c) ==
    LET newest == Newest({n \in Builds : There(Place(n))}) \ {B(c)} IN
    /\ pc[c] = "falling back"
    /\ \/ newest = {} /\ Goto(c, "failed") /\ UNCHANGED call
       \/ \E n \in newest : Goto(c, "looking") /\ call' = [call EXCEPT ![c].build = n]
    /\ UNCHANGED <<at, holds, handle, journal, history>>

\* What fails where no file was found is answered from the newest prepared build
\* at or below the one asked for, unless that is the one that failed.
FallBack(c) ==
    LET newest == Newest(Prepared(B(c))) \ {B(c)} IN
    /\ pc[c] = "falling back"
    /\ \/ newest = {} /\ Goto(c, "failed") /\ UNCHANGED call
       \/ \E n \in newest : Goto(c, "looking") /\ call' = [call EXCEPT ![c].build = n]
    /\ UNCHANGED <<at, holds, handle, journal, history>>

\* A database of another build is not served, nor one that cannot be read now.
CheckBuild(c) ==
    LET file == handle[c] IN
    /\ pc[c] = "checking"
    /\ \/ holds[file] \in {B(c), Mixed} /\ Goto(c, "served") /\ UNCHANGED handle
       \/ /\ holds[file] # B(c) \/ Locked(file)
          /\ Goto(c, "failed") /\ handle' = [handle EXCEPT ![c] = None]
    /\ UNCHANGED <<at, holds, call, journal, history>>

-------------------------------------------------------------------------------
(* PrepareDatabase and WriteDatabase *)

\* Where the rejection of a preparation leads.
Rejected(c) == IF call[c].kind = "open" /\ call[c].absent THEN "falling back" ELSE "failed"
Prepares(c) == IF call[c].kind = "open" THEN "checking" ELSE "served"

Fetch(c) ==
    /\ pc[c] = "fetching"
    /\ \/ Goto(c, "probing") /\ UNCHANGED hurt
       \/ Goto(c, Rejected(c)) /\ Hurts(c)
    /\ UNCHANGED <<at, holds, call, handle, journal, adrift, unswapped, left>>

Probe(c) ==
    /\ pc[c] = "probing"
    /\ IF There(Place(B(c)))
       THEN Goto(c, "reopening") /\ UNCHANGED call
       ELSE Goto(c, "creating") /\ call' = [call EXCEPT ![c].replace = FALSE]
    /\ UNCHANGED <<at, holds, handle, journal, history>>

\* What opens is imported into at once, in a transaction.  Whatever does not open
\* is taken for invalid: a database another call is importing into, and the file
\* that this open has just created because the name was free again, included.
Reopen(c) ==
    LET b == B(c)
        file == OpenOrCreate(Place(b))
    IN
    /\ pc[c] = "reopening"
    /\ at' = [at EXCEPT ![Place(b)] = file]
    /\ IF Locked(file) THEN UNCHANGED <<holds, journal>>
       ELSE /\ PlaysBack(b, file)
            /\ journal' = [journal EXCEPT ![b] = IF holds'[file] \in Openable THEN file ELSE None]
    /\ \/ /\ holds'[file] \in Openable /\ ~Locked(file)
          /\ Goto(c, "importing") /\ handle' = [handle EXCEPT ![c] = file] /\ UNCHANGED <<call, hurt>>
       \/ /\ holds'[file] \notin Openable \/ Locked(file)
          /\ Goto(c, "creating") /\ call' = [call EXCEPT ![c].replace = TRUE] /\ UNCHANGED <<handle, hurt>>
       \/ Locked(file) /\ Goto(c, Rejected(c)) /\ Hurts(c) /\ UNCHANGED <<call, handle>>
    /\ UNCHANGED <<adrift, unswapped, left>>

\* The journal goes with the transaction, by its name.
Ends(c) == journal' = [journal EXCEPT ![B(c)] = None]

\* The rows in place are deleted in no transaction.
Import_Unprotected(c) ==
    /\ pc[c] = "importing" /\ Ends(c)
    /\ \/ /\ holds' = [holds EXCEPT ![handle[c]] = IF @ = Mixed THEN Mixed ELSE B(c)]
          /\ Goto(c, Prepares(c)) /\ UNCHANGED <<handle, hurt>>
       \/ /\ Hurts(c) /\ holds' = [holds EXCEPT ![handle[c]] = Filling]
          /\ Goto(c, Rejected(c)) /\ handle' = [handle EXCEPT ![c] = None]
    /\ UNCHANGED <<at, call, adrift, unswapped, left>>

\* A valid database is imported over, in one transaction: all of it or nothing.
\* Importing does not mend one whose pages are those of two.
Import(c) ==
    /\ pc[c] = "importing" /\ Ends(c)
    /\ \/ /\ holds' = [holds EXCEPT ![handle[c]] = IF @ = Mixed THEN Mixed ELSE B(c)]
          /\ Goto(c, Prepares(c)) /\ UNCHANGED <<handle, hurt>>
       \/ /\ Goto(c, Rejected(c)) /\ handle' = [handle EXCEPT ![c] = None]
          /\ UNCHANGED holds /\ Hurts(c)
    /\ UNCHANGED <<at, call, adrift, unswapped, left>>

-------------------------------------------------------------------------------
(* WriteNewDatabase and InstallDatabase *)

\* A schema that cannot be written leaves the new file behind.
Create(c) ==
    /\ pc[c] = "creating"
    /\ at' = [at EXCEPT ![Temporary(c, B(c))] = Fresh(c, B(c))]
    /\ \/ /\ holds' = [holds EXCEPT ![Fresh(c, B(c))] = Filling]
          /\ Goto(c, "filling") /\ UNCHANGED <<left, hurt>>
       \/ Goto(c, Rejected(c)) /\ UNCHANGED holds /\ Leaves(c) /\ Hurts(c)
    /\ UNCHANGED <<call, handle, journal, adrift, unswapped>>

Installs(c) == IF call[c].replace THEN "retiring" ELSE "linking"

Fill(c) ==
    /\ pc[c] = "filling"
    /\ \/ holds' = [holds EXCEPT ![Fresh(c, B(c))] = B(c)] /\ Goto(c, Installs(c))
          /\ UNCHANGED hurt
       \/ UNCHANGED holds /\ Goto(c, "cleaning") /\ Hurts(c)
    /\ UNCHANGED <<at, call, handle, journal, adrift, unswapped, left>>

\* link() gives the name only if it is free.
Link(c) ==
    /\ pc[c] = "linking"
    /\ \/ /\ ~There(Place(B(c))) /\ Goto(c, "returning") /\ UNCHANGED hurt
          /\ at' = [at EXCEPT ![Place(B(c))] = at[Temporary(c, B(c))]]
       \/ There(Place(B(c))) /\ Goto(c, "cleaning") /\ UNCHANGED <<at, hurt>>
       \/ DiskMayFail /\ Goto(c, "cleaning") /\ Hurts(c) /\ UNCHANGED at
    /\ UNCHANGED <<holds, call, handle, journal, adrift, unswapped, left>>

Retire(c) ==
    /\ pc[c] = "retiring"
    /\ \/ /\ There(Place(B(c))) /\ Rename(Place(B(c)), Backup(c, B(c))) /\ CastsOff(B(c))
          /\ Goto(c, "swapping") /\ UNCHANGED hurt
       \/ ~There(Place(B(c))) /\ Goto(c, "cleaning") /\ UNCHANGED <<at, adrift, hurt>>
       \/ DiskMayFail /\ Goto(c, "cleaning") /\ Hurts(c) /\ UNCHANGED <<at, adrift>>
    /\ UNCHANGED <<holds, call, handle, journal, unswapped, left>>

Unswaps(c) == unswapped' = unswapped \cup {B(c)}

Swap(c) ==
    /\ pc[c] = "swapping"
    /\ \/ /\ Rename(Temporary(c, B(c)), Place(B(c))) /\ CastsOff(B(c))
          /\ Goto(c, "dropping") /\ UNCHANGED <<unswapped, hurt>>
       \/ DiskMayFail /\ Goto(c, "restoring") /\ UNCHANGED <<at, adrift>> /\ Unswaps(c) /\ Hurts(c)
    /\ UNCHANGED <<holds, call, handle, journal, left>>

\* What had the name gets it back, over whatever has it now.
Restore(c) ==
    /\ pc[c] = "restoring" /\ Goto(c, "cleaning")
    /\ \/ Rename(Backup(c, B(c)), Place(B(c))) /\ CastsOff(B(c)) /\ UNCHANGED <<left, hurt>>
       \/ DiskMayFail /\ Leaves(c) /\ Hurts(c) /\ UNCHANGED <<at, adrift>>
    /\ UNCHANGED <<holds, call, handle, journal, unswapped>>

\* The new database is in its place, and yet the call fails if the old one stays,
\* or one of the names SQLite may have had beside it.
Drop(c) ==
    /\ pc[c] = "dropping"
    /\ \/ /\ at' = [at EXCEPT ![Backup(c, B(c))] = None]
          /\ Goto(c, "returning") /\ UNCHANGED <<left, hurt>>
       \/ /\ DiskMayFail /\ Leaves(c) /\ Hurts(c) /\ Goto(c, "cleaning")
          /\ at' \in {at, [at EXCEPT ![Backup(c, B(c))] = None]}
    /\ UNCHANGED <<holds, call, handle, journal, adrift, unswapped>>

\* The database is opened by its name, which another call may have freed or given
\* away, or be importing into, and the temporary name goes.
Return(c) ==
    LET b == B(c)
        file == OpenOrCreate(Place(b))
        opened == [at EXCEPT ![Place(b)] = file]
        cleaned == [opened EXCEPT ![Temporary(c, b)] = None]
    IN
    /\ pc[c] = "returning"
    /\ IF Locked(file) THEN UNCHANGED <<holds, journal>>
       ELSE PlaysBack(b, file) /\ journal' = [journal EXCEPT ![b] = None]
    /\ \/ /\ at' = cleaned /\ holds'[file] \in Openable
          /\ Goto(c, Prepares(c)) /\ handle' = [handle EXCEPT ![c] = file]
          /\ UNCHANGED <<left, hurt>>
       \/ /\ at' = cleaned /\ (holds'[file] \notin Openable \/ Locked(file))
          /\ Goto(c, Rejected(c)) /\ UNCHANGED <<handle, left, hurt>>
       \/ /\ DiskMayFail /\ at' = opened /\ Leaves(c) /\ Hurts(c)
          /\ Goto(c, Rejected(c)) /\ UNCHANGED handle
    /\ UNCHANGED <<call, adrift, unswapped>>

\* The temporary file stays after a failure.
Clean_Not(c) == pc[c] = "cleaning" /\ Moves(c, Rejected(c))

Clean(c) ==
    /\ pc[c] = "cleaning" /\ Goto(c, Rejected(c))
    /\ \/ at' = [at EXCEPT ![Temporary(c, B(c))] = None] /\ UNCHANGED <<left, hurt>>
       \/ DiskMayFail /\ Leaves(c) /\ Hurts(c) /\ UNCHANGED at
    /\ UNCHANGED <<holds, call, handle, journal, adrift, unswapped>>

\* The process dies; a transaction that was open is undone by who opens next, if
\* its journal is still there.
Crash(c) ==
    /\ AtWork(c) /\ Goto(c, "failed") /\ Leaves(c) /\ Hurts(c)
    /\ IF pc[c] = "swapping" THEN Unswaps(c) ELSE UNCHANGED unswapped
    /\ handle' = [handle EXCEPT ![c] = None]
    /\ IF pc[c] = "importing" /\ journal[B(c)] # handle[c]
       THEN holds' = [holds EXCEPT ![handle[c]] = Filling] ELSE UNCHANGED holds
    /\ UNCHANGED <<at, call, journal, adrift>>

-------------------------------------------------------------------------------
Opening(c) == Look(c) \/ OpenReadOnly(c) \/ FallBack(c) \/ CheckBuild(c)
Preparing(c) == Fetch(c) \/ Probe(c) \/ Reopen(c) \/ Import(c) \/ Create(c) \/ Fill(c)
Installing(c) == \/ Link(c) \/ Retire(c) \/ Swap(c) \/ Restore(c) \/ Drop(c)
                 \/ Return(c) \/ Clean(c)
Work(c) == Opening(c) \/ Preparing(c) \/ Installing(c)

Next == \E c \in Calls : Begin(c) \/ Work(c) \/ Crash(c)

Spec == Init /\ [][Next]_vars

-------------------------------------------------------------------------------
(* Properties *)

Quiet == \A c \in Calls : ~AtWork(c)

\* Every variable has the values its comment names: the names on disk, what the
\* files hold, and the calls (CjsToolSdeArchive.js:175-364).
TypeOK ==
    /\ at \in [Paths -> Files \cup {None}]
    /\ holds \in [Files -> Contents]
    /\ pc \in [Calls -> Steps]
    /\ call \in [Calls -> Openings \cup {None}]
    /\ handle \in [Calls -> Files \cup {None}]
    /\ journal \in [Builds -> Files \cup {None}]
    /\ adrift \subseteq Builds /\ unswapped \subseteq Builds
    /\ left \subseteq Calls \X Builds /\ hurt \subseteq Calls
    /\ \A c \in Calls : call[c] = None <=> pc[c] = "idle"

\* A build's place never has a database half written: what is there was found
\* there, is empty, or has been imported to the end ("ready for an atomic archive
\* import", CjsToolSdeDatabase.js:91; "Replaces the current contents", :114).  The
\* one exception is a file that was moved while it was imported into, or before
\* that import was undone: its journal stays beside what is put there instead.
PlaceIsNeverPartial ==
    \A b \in Builds \ adrift : There(Place(b)) => holds[at[Place(b)]] # Filling

\* What a call serves is the build it says, and that is the one asked for or an
\* older one: "the pair can only ever be stale, never ahead of the resources"
\* (CjsToolSdeRepository.js:343).  A command looks at no build: it may print that
\* of a file that was put there for another.
ServedIsNeverAhead ==
    \A c \in Calls : pc[c] = "served" =>
        /\ call[c].build <= call[c].asked
        /\ \/ holds[handle[c]] = call[c].build
           \/ call[c].kind = "prepare" /\ handle[c] = Found(B(c))
           \/ B(c) \in adrift

\* A store at rest is clean and whole however the calls met: a name beside a place
\* is that of a call that died there or could not remove it, and every build that
\* was served has a database that opens in its place, unless the second rename of
\* an installation failed or its process died before it, or the file was moved
\* from beside its journal (CjsToolSdeArchive.js:318 and :334-352).
QuietStoreIsWhole ==
    Quiet =>
        /\ \A c \in Calls, b \in Builds :
             There(Temporary(c, b)) \/ There(Backup(c, b)) => <<c, b>> \in left
        /\ \A c \in Calls : pc[c] = "served" /\ B(c) \notin adrift \cup unswapped =>
             There(Place(B(c))) /\ Opens(at[Place(B(c))])

\* Whatever the others left behind when they met or died (no file in the place,
\* an empty one, a journal or a retired one beside it), the next call is served if
\* nothing of its own fails, unless the file in place was put there for another
\* build or has had another's journal beside it (the catch blocks,
\* CjsToolSdeRepository.js:310 and CjsToolSdeArchive.js:202).
NextCallIsServed ==
    [][\A c \in Calls : AtWork(c) /\ pc'[c] = "failed" /\ c \notin hurt' =>
          B(c) \in adrift \/ (CheckBuild(c) /\ handle[c] = Found(B(c)))]_vars

===============================================================================
