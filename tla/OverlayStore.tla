----------------------------- MODULE OverlayStore -----------------------------
(***************************************************************************)
(* The persistent overlays of one target                                   *)
(* (src/indexing/CjsToolIndexOverlayStore.js): directories that hold a     *)
(* manifest and an index, and one store of payloads they share.  Tools     *)
(* (bin/cjs-overlay-import.js, bin/cjs-overlay-migrate.js, the shader      *)
(* builder) import, revise, replace and migrate them while services open   *)
(* them; nothing locks a directory, so everything rests on renames.        *)
(*                                                                         *)
(* A call is one call of Import, Revise, Replace or Migrate, in a process  *)
(* that may end at any await.  Its hidden directories carry a random name, *)
(* hence the call's.  A directory has a manifest, an index and, when its   *)
(* layout mirrors logical paths, a tree of payloads; either file may be    *)
(* half written.  A payload is named by its contents.                      *)
(*                                                                         *)
(* A definition named X_Bug, or X_ and what it forgets, stands before X    *)
(* and is X with a plausible bug; nothing here uses it.                    *)
(***************************************************************************)
EXTENDS Naturals, FiniteSets

CONSTANTS
    Calls,          \* calls that write
    Readers,        \* calls of OpenTarget
    Ops,            \* the operations the calls may be: "import", "revise", ...
    Names,          \* names of overlays
    Payloads,
    Sets,           \* the sets of payloads an overlay may be imported with
    FaultMayHappen, \* a rename, a write or a removal may fail for no reason seen here
    None, Torn

Layouts == {"logical", "content"}

\* `.name.import-uuid` and its like, `.name.backup-uuid`, and the visible
\* `name-replace-uuid` of one call.
Stage(c) == <<"stage", c>>
Backup(c) == <<"backup", c>>
Copy(c) == <<"replace", c>>

Places == Names \cup {Stage(c) : c \in Calls} \cup {Backup(c) : c \in Calls}
                \cup {Copy(c) : c \in Calls}

\* The directories OpenTarget lists: their names do not begin with a dot.
Visible == Names \cup {Copy(c) : c \in Calls}

\* A manifest, an overlay's directory, what a call was asked for, what it has read,
\* and what a reader has opened.
Manifests == [name : Visible, layout : Layouts,
              rowCount : {Cardinality(s) : s \in Sets}, revision : Nat]
Overlays == [manifest : Manifests \cup {Torn}, file : Layouts, index : Sets \cup {Torn},
             res : SUBSET Payloads]
Requests == [op : {"import", "revise", "replace", "migrate"}, name : Names, to : Names,
             rows : Sets, layout : Layouts]
Readings == [manifest : Manifests, rows : Sets \cup {{}}]
Opened == [manifest : Manifests, rows : Sets]

ASSUME SetsAssumption == Sets \subseteq SUBSET Payloads
ASSUME OpsAssumption == Ops \subseteq {"import", "revise", "replace", "migrate"}
ASSUME NoneIsApart == None \notin Overlays \cup Manifests \cup Requests \cup Readings
ASSUME TornIsApart == Torn \notin Manifests \cup Sets
ASSUME HiddenAreNoNames ==
    \A n \in Names, c \in Calls : n \notin {Stage(c), Backup(c), Copy(c)}

VARIABLES
    dir,        \* what each directory holds, None if it is not there
    stored,     \* the payloads of the shared store
    pc,         \* where each call is
    call,       \* what it was asked for
    seen,       \* the manifest and the rows it has read
    had,        \* whether it found something to retire
    rd,         \* each reader: where it is, what is left to open, what it opened
    halted,     \* calls that ended half way: their process died, or undoing failed
    made        \* the names an overlay was ever visible under

calls == <<pc, call, seen, had>>
vars == <<dir, stored, calls, rd, halted, made>>

Manifest(name, layout, rows, revision) ==
    [name |-> name, layout |-> layout, rowCount |-> Cardinality(rows), revision |-> revision]

\* A directory as an import or a revision writes it: the index is a file of another
\* name in each layout, and `res` is the payload tree.
Overlay(name, layout, rows, revision) ==
    [manifest |-> Manifest(name, layout, rows, revision), file |-> layout, index |-> rows,
     res |-> IF layout = "logical" THEN rows ELSE {}]

Exists(place) == dir[place] # None

\* The directory a call puts in place, and where.
Destination(c) ==
    CASE call[c].op = "migrate" -> call[c].to
      [] OTHER -> call[c].name

\* Where an import renames its stage.
ImportPlace(c) == IF call[c].op = "replace" THEN Copy(c) ELSE call[c].name

-------------------------------------------------------------------------------
Init ==
    /\ dir \in {[p \in Places |-> IF p = n THEN o ELSE None] :
                  n \in Names,
                  o \in {None} \cup {Overlay(m, l, s, 1) : m \in Names, l \in Layouts, s \in Sets}}
    /\ \A n \in Names : Exists(n) => dir[n].manifest.name = n
    /\ stored = UNION {dir[n].index : n \in {m \in Names :
                          Exists(m) /\ dir[m].manifest.layout = "content"}}
    /\ pc = [c \in Calls |-> "idle"]
    /\ call = [c \in Calls |-> None]
    /\ seen = [c \in Calls |-> None]
    /\ had = [c \in Calls |-> FALSE]
    /\ rd = [r \in Readers |-> [at |-> "idle", todo |-> {}, cur |-> None, got |-> {}]]
    /\ halted = {}
    /\ made = {n \in Names : Exists(n)}

Goto(c, where) == pc' = [pc EXCEPT ![c] = where]

\* Only the call's own place in the code changes.
Moves(c, where) ==
    Goto(c, where) /\ UNCHANGED <<dir, stored, call, seen, had, rd, halted, made>>

\* rename() of a directory: the source must be there and the destination not.
CanRename(from, to) == Exists(from) /\ ~Exists(to)
MayRefuse(from, to) == FaultMayHappen \/ ~CanRename(from, to)

Rename(from, to) ==
    /\ dir' = [dir EXCEPT ![to] = dir[from], ![from] = None]
    /\ made' = made \cup ({to} \cap Names)

Remove(place) == dir' = [dir EXCEPT ![place] = None] /\ UNCHANGED made

\* What was to undo the call's own doing fails, and nothing tries again.
GivesUp(c) == FaultMayHappen /\ halted' = halted \cup {c} /\ UNCHANGED <<dir, made>>

-------------------------------------------------------------------------------
(* The beginning of a call *)

Begin(c) ==
    /\ pc[c] = "idle"
    /\ \E op \in Ops, name \in Names, to \in Names, rows \in Sets, layout \in Layouts :
         /\ op # "migrate" => to = name
         /\ op = "revise" => layout = "content"
         /\ op = "migrate" => layout = "content" /\ rows = CHOOSE s \in Sets : TRUE
         /\ call' = [call EXCEPT ![c] = [op |-> op, name |-> name, to |-> to,
                                         rows |-> rows, layout |-> layout]]
         /\ Goto(c, CASE op = "import" -> "checking"
                      [] op = "migrate" -> "reading"
                      [] OTHER -> "looking")
    /\ UNCHANGED <<dir, stored, seen, had, rd, halted, made>>

\* Revise and Replace of what is not there are an Import.
Look(c) ==
    /\ pc[c] = "looking"
    /\ IF Exists(call[c].name)
       THEN Goto(c, IF call[c].op = "revise" THEN "reading" ELSE "checking") /\ UNCHANGED call
       ELSE Goto(c, "checking") /\ call' = [call EXCEPT ![c].op = "import"]
    /\ UNCHANGED <<dir, stored, seen, had, rd, halted, made>>

\* "Persistent overlay already exists", "an overlay of that name already exists".
Check(c) ==
    /\ pc[c] = "checking"
    /\ Moves(c, IF Exists(IF call[c].op = "migrate" THEN call[c].to ELSE ImportPlace(c))
                THEN "over" ELSE "storing")

\* The manifest is read by path: another call may have moved the directory.
ReadManifest(c) ==
    /\ pc[c] = "reading"
    /\ LET d == dir[call[c].name] IN
       IF d = None \/ (call[c].op = "revise" /\ d.manifest.layout # "content")
       THEN Goto(c, "over") /\ UNCHANGED seen
       ELSE /\ Goto(c, IF call[c].op = "revise" THEN "storing" ELSE "indexing")
            /\ seen' = [seen EXCEPT ![c] = [manifest |-> d.manifest, rows |-> {}]]
    /\ UNCHANGED <<dir, stored, call, had, rd, halted, made>>

\* Migrate reads the index, and has nothing to do for an overlay that is
\* addressed by content and keeps its name.
ReadIndex(c) ==
    /\ pc[c] = "indexing"
    /\ LET d == dir[call[c].name] IN
       IF \/ d = None \/ d.file # seen[c].manifest.layout
          \/ seen[c].manifest.layout = "content" /\ call[c].to = call[c].name
       THEN Goto(c, "over") /\ UNCHANGED seen
       ELSE /\ seen' = [seen EXCEPT ![c].rows = d.index]
            /\ Goto(c, IF call[c].to = call[c].name THEN "storing" ELSE "checking")
    /\ UNCHANGED <<dir, stored, call, had, rd, halted, made>>

-------------------------------------------------------------------------------
(* Payloads and the stage.  What is staged is hidden, so the files of a stage *)
(* are written in one step.                                                   *)

\* The index is staged and published before the payloads are.
StoreImported_Late(c) ==
    /\ pc[c] = "storing" /\ call[c].op \in {"import", "replace"}
    /\ dir' = [dir EXCEPT ![Stage(c)] = Overlay(ImportPlace(c), call[c].layout, call[c].rows, 1)]
    /\ stored' = stored
    /\ Goto(c, "publishing")
    /\ UNCHANGED <<call, seen, had, rd, halted, made>>

\* Import: #WritePayloads copies them into the stage's tree or the shared store;
\* bytes that are not what their row says end the call.
StoreImported(c) ==
    /\ pc[c] = "storing" /\ call[c].op \in {"import", "replace"}
    /\ \/ /\ stored' = IF call[c].layout = "content" THEN stored \cup call[c].rows ELSE stored
          /\ dir' = [dir EXCEPT ![Stage(c)] =
                        Overlay(ImportPlace(c), call[c].layout, call[c].rows, 1)]
          /\ Goto(c, "publishing")
       \/ /\ \E part \in SUBSET call[c].rows :
               stored' = IF call[c].layout = "content" THEN stored \cup part ELSE stored
          /\ Goto(c, "over") /\ UNCHANGED dir
    /\ UNCHANGED <<call, seen, had, rd, halted, made>>

StoreRevised(c) ==
    /\ pc[c] = "storing" /\ call[c].op = "revise"
    /\ \/ stored' = stored \cup call[c].rows /\ Goto(c, "comparing")
       \/ (\E part \in SUBSET call[c].rows : stored' = stored \cup part) /\ Goto(c, "over")
    /\ UNCHANGED <<dir, call, seen, had, rd, halted, made>>

\* Revise reads the rows now published, does nothing when its own are the same
\* (and so are mode and builds), and otherwise stages the next revision of the
\* manifest it read before.
Compare(c) ==
    /\ pc[c] = "comparing"
    /\ LET d == dir[call[c].name] IN
       \/ /\ IF d = None THEN TRUE ELSE d.index = call[c].rows
          /\ Goto(c, "over") /\ UNCHANGED dir
       \/ /\ d # None
          /\ dir' = [dir EXCEPT ![Stage(c)] = Overlay(call[c].name, "content", call[c].rows,
                                                      seen[c].manifest.revision + 1)]
          /\ Goto(c, "probing")
    /\ UNCHANGED <<stored, call, seen, had, rd, halted, made>>

\* Migrate stores each row's payload from the tree, or finds that it is stored.
StoreMigrated(c) ==
    /\ pc[c] = "storing" /\ call[c].op = "migrate"
    /\ LET logical == seen[c].manifest.layout = "logical"
           there == IF ~logical THEN stored
                    ELSE IF Exists(call[c].name) THEN dir[call[c].name].res ELSE {}
       IN IF seen[c].rows \subseteq there
          THEN /\ stored' = IF logical THEN stored \cup seen[c].rows ELSE stored
               /\ dir' = [dir EXCEPT ![Stage(c)] = Overlay(call[c].to, "content", seen[c].rows,
                                                           seen[c].manifest.revision)]
               /\ Goto(c, IF logical THEN "moving" ELSE "probing")
          ELSE /\ Goto(c, "over")
               /\ \E part \in SUBSET (seen[c].rows \cap there) :
                    stored' = IF logical THEN stored \cup part ELSE stored
               /\ UNCHANGED dir
    /\ UNCHANGED <<call, seen, had, rd, halted, made>>

\* "The mirrored tree comes along rather than being deleted": out of the overlay
\* that is still in place, into the stage.
MoveTree(c) ==
    /\ pc[c] = "moving"
    /\ \/ /\ LET n == call[c].name IN
             IF Exists(n) /\ dir[n].res # {}
             THEN dir' = [dir EXCEPT ![n].res = {}, ![Stage(c)].res = dir[n].res]
             ELSE UNCHANGED dir
          /\ Goto(c, "probing")
       \/ FaultMayHappen /\ Goto(c, "undoing") /\ UNCHANGED dir
    /\ UNCHANGED <<stored, call, seen, had, rd, halted, made>>

-------------------------------------------------------------------------------
(* Import's rename, and Replace's changes of what it has imported *)

\* The replacement keeps the name it was imported under.
PublishImport_Unnamed(c) ==
    /\ pc[c] = "publishing"
    /\ \/ /\ CanRename(Stage(c), ImportPlace(c)) /\ Rename(Stage(c), ImportPlace(c))
          /\ Goto(c, IF call[c].op = "replace" THEN "retiring" ELSE "over")
       \/ MayRefuse(Stage(c), ImportPlace(c)) /\ Remove(Stage(c)) /\ Goto(c, "over")
    /\ UNCHANGED <<stored, call, seen, had, rd, halted>>

PublishImport(c) ==
    /\ pc[c] = "publishing"
    /\ \/ /\ CanRename(Stage(c), ImportPlace(c)) /\ Rename(Stage(c), ImportPlace(c))
          /\ Goto(c, IF call[c].op = "replace" THEN "naming" ELSE "over")
       \/ MayRefuse(Stage(c), ImportPlace(c)) /\ Remove(Stage(c)) /\ Goto(c, "over")
    /\ UNCHANGED <<stored, call, seen, had, rd, halted>>

\* The index of the new overlay, then its manifest, is written again in place;
\* a file is torn while it is written, and stays so if that fails.  A text index
\* names no overlay.
NameFails(c) == FaultMayHappen /\ Goto(c, "undoing") /\ UNCHANGED dir

NameIndex(c) ==
    /\ pc[c] = "naming"
    /\ \/ /\ dir' = IF call[c].layout = "content"
                    THEN [dir EXCEPT ![Copy(c)].index = Torn] ELSE dir
          /\ Goto(c, "naming manifest")
       \/ NameFails(c)
    /\ UNCHANGED <<stored, call, seen, had, rd, halted, made>>

NameManifest(c) ==
    /\ pc[c] = "naming manifest"
    /\ \/ /\ dir' = [dir EXCEPT ![Copy(c)].index = call[c].rows, ![Copy(c)].manifest = Torn]
          /\ Goto(c, "named")
       \/ NameFails(c)
    /\ UNCHANGED <<stored, call, seen, had, rd, halted, made>>

Named(c) ==
    /\ pc[c] = "named"
    /\ \/ /\ dir' = [dir EXCEPT ![Copy(c)].manifest =
                        Manifest(call[c].name, call[c].layout, call[c].rows, 1)]
          /\ Goto(c, "retiring")
       \/ NameFails(c)
    /\ UNCHANGED <<stored, call, seen, had, rd, halted, made>>

-------------------------------------------------------------------------------
(* #SwapDirectory, which Replace repeats: retire, place, and drop or restore *)

Source(c) == IF call[c].op = "replace" THEN Copy(c) ELSE Stage(c)

Probe(c) ==
    /\ pc[c] = "probing"
    /\ had' = [had EXCEPT ![c] = Exists(call[c].name)]
    /\ Goto(c, IF Exists(call[c].name) THEN "retiring" ELSE "placing")
    /\ UNCHANGED <<dir, stored, call, seen, rd, halted, made>>

\* What is in place is removed before the new directory is there.
Retire_Drops(c) ==
    /\ pc[c] = "retiring"
    /\ IF Exists(call[c].name)
       THEN Remove(call[c].name) /\ Goto(c, "placing") /\ had' = [had EXCEPT ![c] = FALSE]
       ELSE Goto(c, "undoing") /\ UNCHANGED <<dir, had, made>>
    /\ UNCHANGED <<stored, call, seen, rd, halted>>

Retire(c) ==
    /\ pc[c] = "retiring"
    /\ \/ /\ CanRename(call[c].name, Backup(c)) /\ Rename(call[c].name, Backup(c))
          /\ had' = [had EXCEPT ![c] = TRUE]
          /\ Goto(c, "placing")
       \/ /\ MayRefuse(call[c].name, Backup(c))
          /\ Goto(c, "undoing") /\ UNCHANGED <<dir, had, made>>
    /\ UNCHANGED <<stored, call, seen, rd, halted>>

Place(c) ==
    /\ pc[c] = "placing"
    /\ \/ /\ CanRename(Source(c), Destination(c))
          /\ Rename(Source(c), Destination(c))
          /\ Goto(c, IF had[c] THEN "dropping" ELSE "over")
       \/ /\ MayRefuse(Source(c), Destination(c))
          /\ Goto(c, IF had[c] THEN "restoring" ELSE "undoing")
          /\ UNCHANGED <<dir, made>>
    /\ UNCHANGED <<stored, call, seen, had, rd, halted>>

\* The rename back, which may fail like any other; nothing is restored over what
\* another call has put there.
PutBack(c) ==
    \/ /\ CanRename(Backup(c), call[c].name) /\ Rename(Backup(c), call[c].name)
       /\ UNCHANGED halted
    \/ ~CanRename(Backup(c), call[c].name) /\ UNCHANGED <<dir, made, halted>>
    \/ CanRename(Backup(c), call[c].name) /\ GivesUp(c)

Restore(c) ==
    /\ pc[c] = "restoring"
    /\ PutBack(c) /\ Goto(c, "undoing")
    /\ UNCHANGED <<stored, call, seen, had, rd>>

\* A backup that is not removed brings Replace to its catch.
Drop(c) ==
    /\ pc[c] = "dropping"
    /\ \/ Remove(Backup(c)) /\ Goto(c, "over")
       \/ /\ FaultMayHappen /\ UNCHANGED <<dir, made>>
          /\ Goto(c, IF call[c].op = "replace" THEN "recovering" ELSE "over")
    /\ UNCHANGED <<stored, call, seen, had, rd, halted>>

-------------------------------------------------------------------------------
(* The catch of each operation *)

UndoRevise(c) ==
    /\ pc[c] = "undoing" /\ call[c].op = "revise"
    /\ Remove(Stage(c)) /\ Goto(c, "over")
    /\ UNCHANGED <<stored, call, seen, had, rd, halted>>

UndoReplace(c) ==
    /\ pc[c] = "undoing" /\ call[c].op = "replace"
    /\ \/ Remove(Copy(c)) /\ Goto(c, "recovering") /\ UNCHANGED halted
       \/ GivesUp(c) /\ Goto(c, "over")
    /\ UNCHANGED <<stored, call, seen, had, rd>>

\* Replace looks once more whether its backup can go back.
Recover(c) ==
    /\ pc[c] = "recovering"
    /\ PutBack(c) /\ Goto(c, "over")
    /\ UNCHANGED <<stored, call, seen, had, rd>>

\* The stage goes with the tree in it.
UndoMigrate_DropsTree(c) ==
    /\ pc[c] = "undoing" /\ call[c].op = "migrate"
    /\ Remove(Stage(c)) /\ Goto(c, "over")
    /\ UNCHANGED <<stored, call, seen, had, rd, halted>>

\* The tree goes back first, when none is there; if the overlay itself is not
\* there, that throws and the stage stays.
UndoMigrate(c) ==
    /\ pc[c] = "undoing" /\ call[c].op = "migrate"
    /\ LET n == call[c].name
           tree == dir[Stage(c)].res
       IN \/ /\ tree # {} /\ Exists(n) /\ dir[n].res = {}
             /\ dir' = [dir EXCEPT ![n].res = tree, ![Stage(c)] = None]
             /\ UNCHANGED <<halted, made>>
          \/ /\ tree # {} /\ ~Exists(n)
             /\ UNCHANGED <<dir, halted, made>>
          \/ /\ tree # {} /\ Exists(n) /\ dir[n].res = {}
             /\ GivesUp(c)
          \/ /\ tree = {} \/ (Exists(n) /\ dir[n].res # {})
             /\ dir' = [dir EXCEPT ![Stage(c)] = None]
             /\ UNCHANGED <<halted, made>>
    /\ Goto(c, "over")
    /\ UNCHANGED <<stored, call, seen, had, rd>>

\* The process ends.
Crash(c) ==
    /\ pc[c] \notin {"idle", "over"}
    /\ Goto(c, "over") /\ halted' = halted \cup {c}
    /\ UNCHANGED <<dir, stored, call, seen, had, rd, made>>

-------------------------------------------------------------------------------
(* OpenTarget: the list of directories, then of each its manifest and its index *)

Reads(r, at, todo, cur, got) ==
    /\ rd' = [rd EXCEPT ![r] = [at |-> at, todo |-> todo, cur |-> cur, got |-> got]]
    /\ UNCHANGED <<dir, stored, calls, halted, made>>

Fail(r) == Reads(r, "failed", {}, None, rd[r].got)

List(r) ==
    /\ rd[r].at = "idle"
    /\ Reads(r, "opening", {p \in Visible : Exists(p)}, None, {})

OpenManifest(r) ==
    /\ rd[r].at = "opening"
    /\ IF rd[r].todo = {}
       THEN Reads(r, "opened", {}, None, rd[r].got)
       ELSE \E p \in rd[r].todo :
              IF Exists(p) /\ dir[p].manifest # Torn /\ dir[p].manifest.name = p
              THEN Reads(r, "indexing", rd[r].todo \ {p}, dir[p].manifest, rd[r].got)
              ELSE Fail(r)

OpenIndex(r) ==
    /\ rd[r].at = "indexing"
    /\ LET d == dir[rd[r].cur.name] IN
       IF /\ d # None /\ d.file = rd[r].cur.layout /\ d.index # Torn
          /\ Cardinality(d.index) = rd[r].cur.rowCount
       THEN Reads(r, "opening", rd[r].todo, None,
                  rd[r].got \cup {[manifest |-> rd[r].cur, rows |-> d.index]})
       ELSE Fail(r)

-------------------------------------------------------------------------------
Importing(c) == Check(c) \/ StoreImported(c) \/ PublishImport(c)
Revising(c) == Look(c) \/ ReadManifest(c) \/ StoreRevised(c) \/ Compare(c) \/ UndoRevise(c)
Replacing(c) == NameIndex(c) \/ NameManifest(c) \/ Named(c) \/ UndoReplace(c) \/ Recover(c)
Migrating(c) == ReadIndex(c) \/ StoreMigrated(c) \/ MoveTree(c) \/ UndoMigrate(c)
Swapping(c) == Probe(c) \/ Retire(c) \/ Place(c) \/ Restore(c) \/ Drop(c)

Next ==
    \/ \E c \in Calls : \/ Begin(c) \/ Crash(c)
                        \/ Importing(c) \/ Revising(c) \/ Replacing(c)
                        \/ Migrating(c) \/ Swapping(c)
    \/ \E r \in Readers : List(r) \/ OpenManifest(r) \/ OpenIndex(r)

Spec == Init /\ [][Next]_vars

-------------------------------------------------------------------------------
(* Properties *)

\* The overlay in a directory is complete: its files agree, and every payload it
\* lists is in its tree or in the shared store.
Whole(place) ==
    LET d == dir[place] IN
    /\ Exists(place) /\ d.manifest # Torn /\ d.index \in Sets
    /\ d.manifest.rowCount = Cardinality(d.index)
    /\ d.index \subseteq (IF d.manifest.layout = "content" THEN stored ELSE d.res)

\* A set of names that no migration leads out of.
Closed(S) == \A c \in Calls :
    call[c] # None /\ call[c].op = "migrate" /\ call[c].name \in S => call[c].to \in S

\* The names an overlay may have become by migrations, one after another.
Heirs(n) == {m \in Names : \A S \in SUBSET Names : n \in S /\ Closed(S) => m \in S}

\* Two calls migrate one overlay, and so its one tree.
MigratedTwice(n) == \E c, d \in Calls :
    c # d /\ \A e \in {c, d} : call[e] # None /\ call[e].op = "migrate" /\ call[e].name = n

\* Another call was made for an overlay that one migrates.
MigratedBeside(n) == \E c, d \in Calls :
    /\ c # d /\ call[c] # None /\ call[d] # None
    /\ call[c].op = "migrate" /\ call[c].name = n /\ call[d].name = n

AtWork(c) == pc[c] \notin {"idle", "over"}
Quiet == \A c \in Calls : ~AtWork(c)

\* Every variable has the values its comment names: the directories on disk, the
\* payload store, the calls and the readers (CjsToolIndexOverlayStore.js:60-120).
TypeOK ==
    /\ dir \in [Places -> Overlays \cup {None}]
    /\ stored \subseteq Payloads
    /\ pc \in [Calls -> {"idle", "looking", "checking", "reading", "indexing", "storing",
                         "comparing", "moving", "publishing", "naming", "naming manifest",
                         "named", "probing", "retiring", "placing", "restoring", "dropping",
                         "undoing", "recovering", "over"}]
    /\ call \in [Calls -> Requests \cup {None}]
    /\ seen \in [Calls -> Readings \cup {None}]
    /\ had \in [Calls -> BOOLEAN]
    /\ rd \in [Readers -> [at : {"idle", "opening", "indexing", "opened", "failed"},
                           todo : SUBSET Visible, cur : Manifests \cup {None},
                           got : SUBSET Opened]]
    /\ halted \subseteq Calls /\ made \subseteq Names

\* Under its own name an overlay is consistent at every moment and after every
\* crash, whichever calls meet ("Puts a staged overlay in place", :858): its
\* manifest names it, its index has the rows the manifest counts, and each row's
\* payload was stored before the row could be seen (:634, :196).
NamedIsConsistent ==
    \A n \in Names : Exists(n) =>
        /\ dir[n].manifest # Torn /\ dir[n].manifest.name = n
        /\ dir[n].index \in Sets /\ dir[n].manifest.rowCount = Cardinality(dir[n].index)
        /\ dir[n].manifest.layout = "content" => dir[n].index \subseteq stored

\* What was once published under a name has a complete copy on disk for ever, in
\* place, staged or backed up, wherever a call fails or ends and whatever others
\* do meanwhile ("the point of the data root is that it holds what cannot be
\* re-downloaded", :398): a backup goes only once something is in place, and a
\* tree leaves its overlay only once the store has all of it.  Two migrations of
\* what it then is are the exception: they pass one tree around.
NeverWithoutCopy ==
    \A n \in made : \/ \E m \in Heirs(n) : MigratedTwice(m)
                    \/ \E p \in Places : Whole(p) /\ dir[p].manifest.name \in Heirs(n)

\* A store at rest has every overlay in place, complete and under its own name,
\* and no replacement beside it: each error path has undone what it must
\* ("restoring the old one if it cannot", :858; the catch blocks at :616 and :959).
\* Only a call that ended half way, because its process died or a rename back or
\* a removal failed too, may leave the overlay it was made for in its backup, or
\* without its tree, or its own replacement beside it; every other overlay is in
\* place.  A migration beside another call of its overlay may leave the tree with
\* the wrong one.
QuietStoreOpens ==
    Quiet =>
        /\ \A n \in made : \/ \E m \in Heirs(n) : Exists(m)
                           \/ \E c \in halted : call[c].name \in Heirs(n) /\ Exists(Backup(c))
        /\ \A p \in Visible : Exists(p) =>
              \/ /\ dir[p].manifest # Torn /\ dir[p].manifest.name = p
                 /\ \/ Whole(p) \/ MigratedBeside(p)
                    \/ \E c \in halted : call[c].op = "migrate" /\ call[c].name = p
              \/ \E c \in halted : p = Copy(c)

\* What a service has opened of the shared store it can read, although it reads
\* the manifest before the index and both by path while others rename
\* (#OpenOverlay, :1061; Read, :1183).
OpenedIsStored ==
    \A r \in Readers : \A o \in rd[r].got :
        o.manifest.layout = "content" => o.rows \subseteq stored

\* "an interrupted run costs a re-hash rather than an overlay" (:394): when no
\* call is at work, whether or not one ended half way, every overlay is in place.
InterruptedRunCostsNoOverlay ==
    Quiet => \A n \in made : \E m \in Heirs(n) : Whole(m)
===============================================================================
